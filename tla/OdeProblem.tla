----------------------------- MODULE OdeProblem -----------------------------
(***************************************************************************)
(* What the solver of a Co-Simulation FMU integrates: the fields of        *)
(* jmi_ode_problem_t and jmi_cs_data_t, and the callbacks of               *)
(* RuntimeLibrary/src/fmi2/fmi2_cs.c through which the solver reaches the  *)
(* Model Exchange functions (rhs, root, completed step, event update).     *)
(*                                                                         *)
(* The FMU below the callbacks is kept to what they can tell apart: the    *)
(* time, states and real input it holds, one relation with its switch, its *)
(* next time event and whether a discrete input still waits for an event.  *)
(* EventUpdate uses what module Fmi2ME shows of an event: it ends at a     *)
(* fixed point, with a next time event that is not in the past, or fails.  *)
(***************************************************************************)
EXTENDS Integers

CONSTANTS
    States,         \* values of the vector of continuous states
    Inputs,         \* values of the real input
    Rates,          \* derivatives a master may give for it
    Relation,       \* left side of "relation >= 0", of <<states, input>>
    Course,         \* extrapolated input, of <<value, rate, elapsed time>>
    EventEps,       \* events_epsilon, in the unit of Relation
    MaxTime,        \* time is 0 .. MaxTime
    NoReinit,       \* jmi_cs_experimental_no_reinit_for_input_change
    StrictEvents    \* the model never asks for a time event at the present time

Times == 0 .. MaxTime
Never == MaxTime + 1    \* JMI_INF, and no time event

ASSUME StatesAssumption   == 0 \in States     \* 0 is the start value, and the
ASSUME InputsAssumption   == 0 \in Inputs     \* content of cleared memory
ASSUME RatesAssumption    == 0 \in Rates
ASSUME RelationAssumption == Relation \in [States \X Inputs -> Int]
ASSUME CourseAssumption   ==
    /\ Course \in [Inputs \X Rates \X Times -> Inputs]
    /\ \A b \in Inputs, r \in Rates : Course[<<b, r, 0>>] = b
ASSUME EventEpsAssumption == EventEps \in Nat \ {0}
ASSUME MaxTimeAssumption  == MaxTime \in Nat
ASSUME FlagsAssumption    == NoReinit \in BOOLEAN /\ StrictEvents \in BOOLEAN

VARIABLES
    fmuMode,            \* fmu_mode
    t, x, u,            \* time, states and real input in the FMU
    sw,                 \* the switch of the relation, frozen between events
    nextTimeEvent,      \* nextTimeEvent of the FMU
    unsettled,          \* history: a discrete input changed since the last event
    time, states,       \* of the ODE problem
    eventTime,          \* exists_time_event and next_time_event of event_info
    active, tn, base, rate,     \* the real input's slot in cs_data
    initializeSolver,   \* initialize_solver
    needEventUpdate     \* need_event_update

fmuVars     == <<fmuMode, t, x, u, sw, nextTimeEvent, unsettled>>
problemVars == <<time, states, eventTime>>
inputVars   == <<active, tn, base, rate>>
flagVars    == <<initializeSolver, needEventUpdate>>

FmuModes == {"instantiated", "initialization", "event", "continuous"}

ProblemTypeOK ==
    /\ fmuMode \in FmuModes
    /\ t \in Times /\ x \in States /\ u \in Inputs
    /\ sw \in BOOLEAN /\ unsettled \in BOOLEAN
    /\ nextTimeEvent \in Times \cup {Never}
    /\ time \in Times /\ states \in States
    /\ eventTime \in Times \cup {Never}
    /\ active \in BOOLEAN /\ tn \in Times /\ base \in Inputs /\ rate \in Rates
    /\ initializeSolver \in BOOLEAN /\ needEventUpdate \in BOOLEAN
-----------------------------------------------------------------------------
\* jmi_dae_R_perturbed: the event indicator, with hysteresis
Indicator(y, v, on) == Relation[<<y, v>>] + (IF on THEN EventEps ELSE 0)

\* jmi_turn_switch at an event: the value the switch takes
Turned(y, v, on) == IF on THEN Indicator(y, v, on) > 0 ELSE Indicator(y, v, on) >= 0

SignOf(n) == IF n > 0 THEN 1 ELSE IF n = 0 THEN 0 ELSE -1

\* fmi2_cs_set_real_inputs: the value an active input has at the time
InputAt(at) == IF active THEN Course[<<base, rate, at - tn>>] ELSE u

\* the indicator the solver is given at a point
IndicatorAt(at, y) == SignOf(Indicator(y, InputAt(at), sw))

(***************************************************************************)
(* fmi2_cs_rhs_fcn and fmi2_cs_root_fcn set states, time and inputs before *)
(* they evaluate.  fmi2_set_real tells the solver when an input changes.   *)
(***************************************************************************)
Place(at, y) ==
    /\ t' = at /\ x' = y /\ u' = InputAt(at)
    /\ UNCHANGED <<fmuMode, sw, nextTimeEvent, unsettled>>

\* mutant: a changed input is not reported to the solver
NeedToInitializeNever(f, changed) == f

\* jmi_ode_solver_need_to_initialize, from a flag that was f
NeedToInitialize(f, changed) == f \/ (changed /\ ~NoReinit)
-----------------------------------------------------------------------------
(***************************************************************************)
(* fmi2_cs_event_update.                                                   *)
(***************************************************************************)
\* fmi2_enter_event_mode fails; it always does past the next time event
EventRefused == UNCHANGED fmuVars

\* an event that fails or terminates is left in event mode, half way
EventLeft ==
    /\ fmuMode' = "event"
    /\ x' \in States /\ sw' \in BOOLEAN
    /\ nextTimeEvent' \in t .. Never
    /\ UNCHANGED <<t, u, unsettled>>

\* the event iteration has converged and continuous time is entered again
EventHandled ==
    /\ x' \in States
    /\ sw' \in {on \in BOOLEAN : Turned(x', u, on) = on}
    /\ nextTimeEvent' \in (IF StrictEvents THEN t + 1 ELSE t) .. Never
    /\ unsettled' = FALSE
    /\ states' = x'
    /\ eventTime' = nextTimeEvent'
    /\ fmuMode' = "continuous"
    /\ UNCHANGED <<t, u, time>>

\* the callback, with the status it answers
EventUpdate(status) ==
    \/ status = "error" /\ EventRefused /\ UNCHANGED problemVars
    \/ /\ t <= nextTimeEvent
       /\ \/ status \in {"error", "terminate"} /\ EventLeft /\ UNCHANGED problemVars
          \/ status = "ok" /\ EventHandled
=============================================================================
