# A TLA+ verification of JModelica.org

JModelica compiles Modelica models to C code, links it with a runtime library into
a Functional Mock-up Unit (FMU), and simulates, optimizes and controls with it
from Python.  Most of the repository is a compiler: sequential transformations of
syntax trees that are tested by comparing outputs.  State that outlives a call,
and an order of calls that matters, is found in two places: in the runtime under
`RuntimeLibrary/src` (the FMI interfaces, the handling of events, the solver that
drives a Co-Simulation FMU), and in the optimization packages of
`Python/src/pyjmi` (the transcription of an optimal control problem, the loops of
model predictive control and of moving horizon estimation, the symbolic
elimination of variables).  This project is about these.

## The system

| part | state it keeps | operations | how it meets the others |
|---|---|---|---|
| `fmi2/fmi2_me.c` Model Exchange | mode, stop time | the FMI 2.0 functions | checks the mode, calls `jmi_me.c` |
| `jmi/jmi_me.c` event handling | `atEvent`, `atInitial`, `events_epsilon`, `nbr_event_iter`, `nbr_consec_time_events`, `nextTimeEvent`, `eventPhase`, `model_terminate`, `reinit_triggered`, `updated_states` | initialize, enter event mode, event iteration, exit event mode, completed step, terminate | evaluates the generated equations; `jmi_exit_event_mode` and `jmi_event_iteration` call each other |
| `jmi_get_set.c` value access | `z`, `z_last`, `recomputeVariables`, dirty flags of parameters | set, get, set time, get derivatives | evaluates the model lazily, restores `z_last` when that fails |
| `jmi/jmi.c` instance | `jmi_t` | init, delete, guarded calls of generated functions | longjmp out of the model into `jmi_generic_func` |
| `fmi2/fmi2_cs.c`, `jmi_cs.c` Co-Simulation | event pending, input derivatives | `fmi2_do_step`, event update | drives the ODE solver and the Model Exchange functions |
| `jmi_ode_solver.c`, `_cvode`, `_euler`, `_problem` | solver state, step flags | solve, reinitialize | calls back for derivatives, indicators and completed steps |
| `casadi_collocation.py` `LocalDAECollocator` | the vector `xx` of variables with its maps, constraints, guesses, `primal_opt` | transcribe, solve, get result, shift by start time | a problem of `mpc.py` or `mhe.py`, IPOPT below |
| `mpc.py` `MPC` | `_sample_nbr`, `consec_fails`, `found_solution`, `shifted_xx`, `_result_object` | `update_state`, `sample`, `set_inittraj`, `get_results_this_sample` | solves one collocated problem again and again |
| `mhe/mhe.py` `MHE`, `mhe/ekf_arrival_cost.py` | window of times, data and estimates; covariance and Jacobians of the filter | `step`, `set_dirty`, changes of covariances | a new optimization for each call |
| `symbolic_elimination.py` `BipartiteGraph`, `BLTModel` | matching, components; residuals, solutions, dependencies | match, `scc`, tear, eliminate | rewrites a model for the collocator |
| `realtimecontrol.py` | estimates of states and of the model error | `run` | wraps `MPC` and a simulated or real plant |
| `ukf.py`, `dfo.py`, `greybox.py` | a filter; simplices and processes | | drive FMUs |
| `jmi_delay.c`, `jmi_global.c`, `jmi_dynamic_state.c`, `jmi_chattering.c`, `jmi_dyn_mem.c`, `jmi_log.c` | buffers, setjmp locations, selected states, counters, pools, node stack | | used by the generated code and the runtime |
| `jmi_block_residual.c`, `jmi_block_solver.c`, `jmi_*_solver.c` | iteration variables, Jacobians | solve, save, restore | called by the generated equations |
| `fmi1_me`, `fmi1_cs` | as above, FMI 1.0 | | older wrappers of the same functions |
| `Compiler/*` | syntax trees | parse, flatten, transform, generate | emits the equations the runtime calls |
| `ModelicaCasADiInterface` | expressions of a model | get, set | the models of the Python packages |

There are no threads in what is modelled: an FMU, a controller and an estimator
have one caller.  What is hard is in the order of calls and in what a failure
leaves behind:

* a discrete update is spread over several calls of the importer and a mutual
  recursion; the flags it sets are reset in one place, which an error or a nested
  event can bypass; every evaluation may fail by longjmp half way; values are
  evaluated lazily, so that a get function changes the state;
* the solver of a Co-Simulation FMU keeps copies of what the FMU holds, which
  events, inputs and the master make stale;
* the variables of the nonlinear program are counted, laid out, named and indexed
  by separate loops over a flat vector;
* a controller whose solver fails goes on with slices and rows of older results;
* an estimator moves its window, its covariance and its guess in separate steps of
  one call, and keeps parameters and covariances twice;
* matching, sorting into blocks and elimination work on mutable maps whose order
  of iteration is the model's.

What makes each part correct:

* event handling: an event ends at a fixed point; nothing of it is left behind in
  continuous time; state changes and the next time event are reported; time events
  are neither lost nor met twice; the recursion is bounded; an update returns;
* value access: a terminated model has nothing left to compute;
* Co-Simulation and the solver: a step ends at the communication point, events on
  the way are handled where they are, CVODE goes on from current values, a step
  returns;
* collocation: counts, layout, names and indices agree, every entry has a guess,
  the constraints leave the right degrees of freedom;
* MPC: the process gets the input that the latest plan has for the present sample,
  or an error; guesses stand for the present times;
* MHE: an estimate is made from every sample exactly once, however short the
  window;
* elimination: a perfect matching, blocks in order, a square system in the
  variables that are left.

## The modules

| module | models or states | extends |
|---|---|---|
| `JmiEvents`, `Fmi2ME`, `MCFmi2ME` | event handling and the Model Exchange interface | |
| `Fmi2ME_proofs`, `Fmi2ME_event_proofs` | types; safety of the event handling | `Fmi2ME` |
| `OdeProblem`, `OdeSolver`, `Fmi2CS`, `MCFmi2CS` | ODE problem and callbacks; solver and integrators; Co-Simulation | each the one before |
| `Fmi2CS_proofs` | safety of a step and of its switches | `Fmi2CS` |
| `NlpLayout`, `NlpConstraints` | the variables and the constraints of the nonlinear program, as functions of the problem | |
| `MpcShift` | `MPC._shift_xx` on the layout, rows of results | `NlpLayout` |
| `Collocator`, `MCCollocator`, `Collocator_proofs` | properties of layout, constraints and shifts; problems for TLC; proofs | `NlpConstraints`, `MpcShift` |
| `RecedingHorizon` | what a controller promises | |
| `Mpc`, `MCMpc`, `Mpc_proofs` | the control loop; its settings for TLC; proofs | `MpcShift`; instance of `RecedingHorizon` |
| `FullInformation` | what an estimator promises | |
| `MHE`, `MCMHE`, `MHE_proofs` | the moving horizon estimator; proofs | instance of `FullInformation` |
| `BipartiteGraph`, `BLTModel`, `MCBLTModel` | matching and components; elimination; systems for TLC | each the one before |
| `BipartiteGraph_proofs`, `BLTModel_proofs` | safety of matching and components; of the elimination | `BipartiteGraph`; `BLTModel` and the former |

Wrong variants of a definition stand before it, and their comments call them a
mutant or a variant.  No specification uses them: each is what a plausible mistake
in the code would be, and replacing the definition by it breaks the property it is
paired with in `PROJECT.json`.

### Model Exchange and events

**`JmiEvents`** models `jmi_me.c`: `jmi_enter_event_mode`,
`jmi_event_iteration` and `jmi_exit_event_mode`, over the fields of `jmi_t` they
use.  A step is the code between two evaluations of the model.  `pc` is the
place (`round`: about to run a pass of the loop; `exit`: about to call
`jmi_exit_event_mode`; `reenter`: about to enter a nested event; `finish`: the
end of `jmi_event_iteration`; `done`/`failed`: about to return to
`fmi2_new_discrete_state`).  `stack` holds the local `state_values_changed` of
each activation of `jmi_exit_event_mode` that has called
`jmi_event_iteration`, so its length is the depth of the recursion, and
`intermediate_results` is true exactly when it is empty.  A failing activation
makes all of them return -1; each restores its local on the way, so that is one
step (`Unwind`).

The vector `z` is abstracted to the time `t`, the continuous states `x` and one
value `d` for all discrete variables and switches, which is all that the event
iteration compares; `pre` and `last` are the `pre()` copies and `z_last`.
`nextTimeEvent`, the event information and the tolerances are as in the code,
with `events_epsilon` reduced to zero or not zero.  The generated equations are
external (`OdeDerivatives`): an evaluation may give `d` any value, may ask for
termination, and, only when it runs at an event, may change states by `reinit`
(`CCodeGenGlobals.jrag:203-222`) or by selecting other dynamic states.  A failed
evaluation leaves what it wrote, because `jmi_generic_func` comes back by
longjmp.  The value of `reinit` differs from the state (a `reinit` to the same
value with no other change is an error of `jmi_event_iteration`, reached here
through a `reinit` that another round undoes).

**`Fmi2ME`** models `fmi2_me.c` over `JmiEvents`, with the value access of
`jmi_get_set.c`: the mode machine, experiment and stop time, initialization with
its three ways to fail, entering events, the discrete update, continuous time,
setting time and values, the get functions and the evaluation they may run, the
restore of `z_last`, termination and reset.  A call other than
`fmi2NewDiscreteStates` is one step.  `failed` and `changed` are history
variables.  The importer is free, up to the habits given in `Habits`:

* `"ordered"`: it makes a call only in the modes the standard allows for it and
  follows the answers (iterate until `newDiscreteStatesNeeded` is false);
* `"stops"`: after an error it only reads or resets;
* `"keepsInfo"`: it hands back the event information of the previous call
  instead of a zeroed one;
* `"readsAfter"`: it reads no variable between two rounds of an event.

The first two are the FMI standard's rules; the other two are what the code
needs beyond them ("Disagreements" says what happens without).

### Co-Simulation and the ODE solvers

**`OdeProblem`** is what the solver of a Co-Simulation FMU integrates: the
fields of `jmi_ode_problem_t`, the slot of a real input in `jmi_cs_data_t`, the
two flags of the solver, and the callbacks of `fmi2_cs.c`.  `Place` is what every
evaluation does to the FMU (set states, time and inputs), `EventUpdate` is
`fmi2_cs_event_update`.  The FMU below is reduced to its time `t`, states `x`, one
real input `u`, one relation `expression >= 0` with its switch `sw` and the
hysteresis of `jmi_dae_R_perturbed` and `jmi_turn_switch`, its next time event,
and `unsettled`, which says that a discrete input waits for an event.  An event
gives the FMU any states and any switch at rest with them, which is what
`Fmi2ME` shows of an event that ends.

**`OdeSolver`** models `jmi_ode_solver_solve` and the two integrators.  A step is
the code between two callbacks, `pc` is the place (`start` and `update` before the
loop, `loop` at its test, `stepping` in an integrator, `solved` and `event` after
it, `return`).  An integrator's step may reach any later time up to its stop time
and any states, since both are results of arithmetic.  CVODE itself is external:
it keeps `mem`, its own copy of time, states and the sign of the event indicator,
evaluates the FMU at trial points, and stops at a sign change, where it has itself
gone on to the end of its step.  The Euler integrator writes to the problem
directly and shares `previous` with `jmi_ode_solver_solve`.  Any evaluation may
fail.  A completed step may ask for an event (dynamic states) but never for
termination, because `fmi2_completed_integrator_step` always answers false
(`fmi2_me.c:729`).

**`Fmi2CS`** adds the calls of the master: setting up, initialization, inputs and
input derivatives, `fmi2_do_step` and `fmi2_reset`.  `point`, `setUp` and `answer`
are history variables.  The master is the one FMI describes: it sets up the
experiment before it initializes, steps from one communication point to the next,
and resets the FMU when a call did not answer `fmi2OK`.  **`MCFmi2CS`** gives the
relation and the extrapolated input their values for TLC.  **`Fmi2CS_proofs`**
proves the safety of a step.


### Collocation

**`NlpLayout`** gives, for a problem, the vector `xx` as `_create_nlp_variables` and
`_define_collocation` build it: its groups in order, the entry for each variable,
element and point, the indices that `var_indices` looks up, the split of `xx`, and
where each entry of the initial guess comes from (`_create_initial_trajectories`).
An entry is named by the kind and number of its variable and its point, so that
"the right variable at the right time" can be said; values, scale factors and
expressions are left out.  **`NlpConstraints`** counts the constraints as
`_count_constraints` does and makes them as `_call_l0_functions` (point by point)
or `_call_l1_functions` (by checkpointed functions of an element) does.
**`MpcShift`** is `_shift_xx` with its slices, and the row of a result that
`_get_opt_input` reads.  **`Collocator`** has one behaviour for each problem: the
vector is constructed, and, for the problems of MPC, shifted again and again, as
while the solver fails.

### Model predictive control

**`RecedingHorizon`** is the promise: at each sample either a new plan is made, or
the input that the latest plan has for this sample is returned, or, when no plan
reaches the present any more, the controller gives up.

**`Mpc`** models the loop that calls `update_state` and `sample`, with
`set_inittraj` and `get_results_this_sample` in between.  All times are ages in
samples, so that the state space is finite although the loop runs for ever.  A
vector of variables is known by what it is made of, its age and by how many
samples it was shifted since: it fits the present problem if the last two are
equal.  The optimizer succeeds or fails at each sample as it likes.  The state is
that of `MPC` (`sampleNbr`, `fails`, `found`, `shiftedXX`, `initTraj`, ...) and of
the collocator (`primal`, `xxInit`, `warm`); `input` and `estimate` are history
variables.  `place` is where the loop is, or the exception that ended it;
`AttributeError` and `IndexError` are outcomes nobody planned.
Under the refinement mapping the age of the plan is kept by the specification
itself (`result`), `input` is the sample of it that was returned, and all three
exceptions are the abstract `failed`.

### Moving horizon estimation

**`FullInformation`** is the promise: the estimate for a time is made from the
initial guess and the samples of all earlier times, each once, in order.

**`MHE`** models `step` with its window (`time_vector`, `uy`, `x_est`), its arrival
cost (`P`, `P0inv`, `x_0_guess`), `set_dirty`, the two covariances and the caller's
changes of parameters.  An estimate is known by its time and by the samples behind
it: `Estimated` concatenates those behind the guess with those in the window, which
is what weighing an arrival cost means.  A covariance is the sequence of updates
that made it, each with the time, data and estimate it was linearized at and the
versions of parameters and covariances it used.  The actions are the ways a call
can go: the window grows (`StepGrows`) or moves (`StepMoves`); the names of `u` or
`y` are rejected, which leaves the new time point behind (`StepRejected`); the rows
of the external data then do not fit (`StepGrowsRaises`, `StepMovesRaises`); no
estimate is left (`StepRemovesLast`, `StepHasNoEstimate`, for a horizon of 0).
`answer`, `announced` and `setFailed` are history variables; the mapping to
`FullInformation` takes the time and the samples of the latest answer.

### Symbolic elimination

**`BipartiteGraph`** models `maximum_match` (Hopcroft and Karp: layers, search for
disjoint paths, reassignment) and `scc` (Tarjan, with its call stack made
explicit), one action per step of their loops, in any order of the lists.
**`BLTModel`** continues with `_create_residuals`: each block is solved for its
variables and its solutions substituted, or kept, according to whether it is
scalar, torn, linear, dense, and to which variables are derivatives or
ineliminable.  An expression is the set of unknowns in it.  `KeyError` and
`AttributeError` are places where the code ends with these exceptions.

## The runs

| run | asks | bounds |
|---|---|---|
| `me_ordered` (`MEOrdered.cfg`) | the safety of the event handling for an importer with all habits | 2 discrete values, 2 states (both symmetric), times 0..2, tolerance 2 (an event one unit ahead is met now), 3 iterations, stop time 1 or none |
| `me_live` (`MELive.cfg`) | every discrete update returns | 2 values, 1 state, one instant, 3 iterations, an importer without order |
| `cs_cvode` (`CSCvode.cfg`) | the safety of a step with CVODE | 2 states, 2 input values, 2 derivatives, times 0..3, stop time 2 or none, exact end of a step |
| `cs_euler` (`CSEuler.cfg`) | the switches and the return of a step with Euler | the same, a step may end 1 short of its point, no time event at the present time |
| `v_euler_touches` (`VEulerTouches.cfg`) | a sign change through exactly 0 (violated) | as `cs_euler` |
| `colloc` (`Colloc.cfg`) | layout, indices, guess, constraints, shifts | problems of up to 3 elements, 2 points, 2 states, 2 inputs; 3 inputs with factors for any 2 of them (all 3 with fewer elements), the keys in any order; horizons of 1 to 4 samples of 1 or 2 elements with 0 to 2 of the inputs blocked |
| `v_dict_order` (`VDictOrder.cfg`) | an input is constant over its own factors (violated) | as `colloc` |
| `v_shift_blocked` (`VShiftBlocked.cfg`) | blocked inputs are shifted by one factor (violated) | as `colloc` |
| `mpc` (`Mpc.cfg`) | the control loop; the refinement; liveness | six settings (`MCSettings`): each guess, states measured or estimated, trajectories of the user, results at collocation or mesh points, 1 or 2 elements in a sample; 4 samples, ages up to 9, any pattern of failures |
| `mhe` (`Mhe.cfg`) | the estimator; the refinement | horizons 0 to 3, 6 calls, 2 versions of parameters and of each covariance |
| `blt` (`Blt.cfg`) | matching, blocks, elimination | all systems of 3 equations up to their order, 3 of 4; 1 derivative, 1 ineliminable variable, 1 nonlinear edge, up to 2 tearing variables |
| `v_ineliminable` (`VIneliminable.cfg`) | ineliminable variables stay (violated) | as `blt` |

Why these bounds are enough.  Two values of `d` and of `x` suffice because the code
only compares them for equality with their `pre()` copies.  Three times give a
past, a present and a future event, and room to move time back; a tolerance of two
units makes an event that is one unit ahead one of the present instant too.  `MaxIter` is 30
in the code; 3 lets an iteration converge at the first, at the second round, or
fail, and lets a nested one fail on its own.  The limit of two consecutive time
events is a literal of the code and is kept.  For Co-Simulation a step of CVODE
needs room for a trial point before its end and a root before its stop time, and
two steps must fit between the start and the last time.  Two states and two input
values let either of them turn the relation, `2*(x + u) >= 3` with an epsilon of 2,
whose event indicator is never 0; what happens at 0 is the question of
`v_euler_touches`.  `StrictEvents` says that the model asks for no time event at
the present time; `cs_cvode` does without it, `cs_euler` needs it because the Euler
integrator otherwise never leaves the loop, and for a time event inside the
tolerance at the end of a step.

The formulas of the layout are linear in the numbers of elements, points and
variables, and special at the first and the last element and point: three
elements and two points have a first, a middle and a last one, and two states and
three inputs have blocked and free ones in each order.  Up to three keys, in any
order, permute the inputs in every way.  A plan of 4 samples, of one element
or of two, lets the solver fail up to and past its end; ages stop at `MaxAge`,
beyond the last element of the horizon.  Six calls are enough for every horizon up to 3 to move its window three
times, and for every exception to be followed by more calls.  Three equations
contain every shape of loop with a block before or after it; the systems of four
are those in which a phase of the matching finds two paths or a block of three is
followed by another.

`CHECK_DEADLOCK` is off in `colloc`, `v_dict_order` and `v_shift_blocked`, where a
behaviour ends after its shifts, and in `mhe`, where the caller may stop; in the other runs no
place is without a successor (the exceptions of `Mpc` stutter in `Ended`).

What they show, of events: an event ends at a fixed point of the discrete variables
(`SettledBeforeExit`); continuous time starts with the flags, the counter, the
tolerance and the solver mode of continuous time (`CleanContinuousTime`); a change
of states is reported (`StateChangeReported`); a time event that is due is replaced
only at the end of an iteration that has handled it in its phase
(`TimeEventReplacedWhenMet`), so that the exact and the greater-than event of an
instant are both met, in nested activations too; the one answered is the one
in force and not in the past (`NextTimeEventReported`), and one that is due is
treated as such (`DueTimeEventMet`); recursion and rounds are bounded
(`BoundedRecursion`); a terminated model is computed (`TerminatedIsComputed`); an
update returns (`DiscreteUpdateReturns`).

Of Co-Simulation: a step answered `fmi2OK` ends in continuous time at its
communication point up to the tolerance, with the FMU where the solver is
(`StepReached`) and its switches as an event would set them (`StepSettled`); what
the master changed between two steps is met before the integration goes on
(`EventsFirst`); an event is handled at the point where the integrator stopped, not
at a trial point (`EventAtItsPoint`); time does not pass a time event and one at
the end of a step is not forgotten (`NoTimeEventPassed`); CVODE goes on only from a
copy that is current (`IntegratorCurrent`); a step returns (`DoStepAnswers`).

Of collocation: three ways to count agree (`CountsAgree`); an index leads to the
entry that has the name of its variable and point, except that inputs with blocking
factors may be exchanged, which they are not if the keys have the order of the
inputs (`NamesMatchIndices`); every list of factors is followed by one input, which
changes exactly where the list says and shares no value with another
(`FactorsSharedOut`), though not always by the input it is given for
(`ConstantWithinFactor`, violated in `v_dict_order`); nothing starts without a guess and the guess
satisfies continuity (`GuessComplete`), constraints are counted right
(`ConstraintsCounted`), checkpointing changes only their order
(`CheckpointSameConstraints`), and what is left free is what should be
(`DegreesOfFreedom`); a vector shifted several times is still the plan
(`ShiftIsPlan`).  `CountsAgree` holds of a shifted vector only if no list has fewer
factors than there are such lists (`SlicesDisjoint`; see "Disagreements").

Of the controller: it returns the input of the present sample
(`InputOfCurrentSample`, for results at collocation or mesh points), starts the
solver from a guess for the present times (`GuessIsAligned`, for the guess
`"shift"`) that no failure has made (`NoFailedGuess`), ends with the error it
documents only, if the settings give every sample what it needs (`Provided`) and a
sample is one element (`NoUndocumentedError`; with more elements an `IndexError`
may come once the failures reach the samples of the horizon), reports a solver that fails for good
(`FailureReported`), warm starts with multipliers (`WarmStartHasDuals`), estimates
states from the last plan (`EstimateIsCurrent`), and implements `RecedingHorizon`
(for the settings `Provided`).

Of the estimator: it implements `FullInformation` for every horizon, through calls
that raise exceptions; covariance and guess of the arrival cost stand for the same
samples, and the window begins where they end (`PriorMatchesWindow`); the filter
uses the parameters last announced and the covariances of the optimization
(`CurrentModel`).

Of the elimination: the matching is perfect if there is one (`MatchingIsPerfect`),
the blocks are the components in order (`BlocksInOrder`), what is left is square
(`SquareSystem`) and free of eliminated variables (`OnlyKeptUnknowns`).

## Disagreements

Shown by runs:

* `v_euler_touches`: the Euler integrator takes only a negative product of two
  event indicators for an event (`jmi_ode_euler.c:110`), so a crossing that touches
  0 at the end of a step is lost for good.
* `v_dict_order`: the entries of inputs with blocking factors are made in the order
  of the dictionary's keys (`casadi_collocation.py:1594`) and looked up by counting
  the inputs in the order of the model (1615-1619).  If the orders differ, each of
  two such inputs gets the variables, the names and the factors of the other.  The
  documentation of `BlockingFactors` (862-876) asks for no order.
* `v_shift_blocked`: with several inputs that have blocking factors, each is
  shifted by as many factors as there are such inputs (`mpc.py:688`).
* `v_ineliminable`: with `solve_torn_linear_blocks` a torn linear block eliminates
  variables the user listed as ineliminable (`symbolic_elimination.py:1282`).

Met while modelling, and kept out of the instances or described by the model:

* Events.  After an initialization that fails and is tried again the tolerance of
  the event indicators stays 0 (`jmi_me.c:137`).  `newDiscreteStatesNeeded` is read
  on entry (`fmi2_me.c:668`) although the structure is an output, hence the habit
  `"keepsInfo"`.  A get function between two rounds runs a `reinit` that the next
  round forgets (`jmi_me.c:717`), hence `"readsAfter"`.  A termination asked for
  during initialization is cleared (`jmi_me.c:625`).  Going back in time before the
  first save restores zeros (`jmi_get_set.c:290`).  `jmi_reset_ode_problem` keeps
  the time of the problem (`jmi_ode_problem.c:102`); a master that does not set up
  the experiment again after a reset would notice.
* Collocation.  With Gauss points the mesh points get no guess and path equalities
  are counted wrongly, so `GuessComplete` is about Radau points and `MCProblems`
  has no path equalities with Gauss points.  If more inputs have blocking factors
  than one of them has factors, the two slices that `_shift_xx` puts together for it
  overlap (`mpc.py:684-689`) and the guess gets longer than the vector; `colloc`
  shifts such problems too (two blocked inputs and a horizon of one sample).
* MPC.  With `element_interpolation` the row of a sample is not the one
  `_get_opt_input` reads; with more elements than samples the plan's rows end
  before the failures are used up (`IndexError`).  A user's trajectories with the
  guess `"shift"` leave no vector to shift (`AttributeError`).  States estimated
  after a failed solve are those of an older plan, one sample too early per
  failure, and with the guesses `"shift"` and `"prev"` the result object is made by
  `get_results_this_sample` only.  Guess trajectories are evaluated at the time
  points of the first problem.  The parameter of a previous input is found by
  splitting its name at `_0` (`mpc.py:778`).
* MHE.  A rejected call leaves its time point (`mhe.py:1006`); every later call
  raises.  A horizon of 0 is accepted and raises `IndexError`.  An exception in
  `optimize` (`mhe.py:1072`) comes after the sample was appended, and a retry
  appends it and the time point again: the lengths fit and the window is wrong.  A
  solve that fails without an exception is not noticed; its last point becomes the
  estimate.  A covariance whose second block is singular is changed half
  (`mhe.py:627`) in the problem and not in the filter.  `_fill_P0_inverse`
  ("Adds covariances of zero") sets the inverse to 0 where the filter has a
  covariance of 0, which are opposite weights.
* Elimination.  A derivative that is a tearing variable has no recorded
  dependencies when they are looked up (`KeyError`, `symbolic_elimination.py:1514`);
  variables of a solved block are recorded as depending on themselves (1494-1497),
  so that the density measure of later equations counts variables that are gone;
  and a torn linear block that is not causal reads `self.tear_vars`, which does not
  exist (447).

## Fairness

`Spec` of `Fmi2ME` has `WF_vars(Running)`: once `fmi2NewDiscreteStates` is called,
the C function runs on.  No fairness is assumed of the importer.  An evaluation of
the model is assumed to return (a step), by success or failure; a model that loops
is outside.  `FairSpec` of `Fmi2CS` likewise: a call of `fmi2_do_step` that has
begun runs on.  Time is discrete there, so a step makes progress; infinitely many
events in a finite time (Zeno behaviour) are outside the model.  `Spec` of `Mpc` has
weak fairness of `update_state` (`UpdateState \/ UpdateStateFails`) and of `Sample`:
the loop around the controller goes on while no exception has ended it.  Nothing makes the solver succeed.  `MHE` and
the two batch computations (`Collocator`, `BLTModel`) are used for safety only and
have no fairness.

## The proofs

### Model Exchange

For every set of values and states, every `MaxTime`, `TimeEps > 0`, `MaxIter > 1`
and set of stop times:

* `TypeCorrect`: `Spec => []TypeOK`, for any importer.  One lemma per place of
  the event iteration and per group of calls; `TypeOK` is inductive.
* `TerminatedComputed`: `Spec => []TerminatedIsComputed`, for any importer: no
  step of the iteration sets `recomputeVariables`, and what sets it is refused
  after termination.
* `SettledExit`, `ContinuousTimeIsClean`: for an importer that is ordered,
  stops and keeps its event information (`Disciplined`).  Neither property is
  inductive: continuous time is clean because the answer that ended the event
  was converged, because the iteration ended through `jmi_exit_event_mode`, which
  resets the flags from what the initialization saved.  `EventInv` says so in
  four parts: the flags of an error-free FMU in each mode (`FlagsInv`), where an
  update is called from (`CallInv`), what holds at each place of the iteration
  (`PlaceInv`) and after it (`OutInv`).  `EventInvariant` proves it.
* `RecursionIsBounded`: with `RecursionInv`, which relates the depth of the
  stack to `nbr_consec_time_events` at each place.
* `StateChangesAreReported`: with the further habit `"readsAfter"`.
  `PendingInv` says that a change not yet answered is kept in `updated_states`,
  in the event information or in one of the stacked locals; the lemmas show how
  each step moves it.
* `TimeEventIsReplacedWhenMet` (an action property, from what is known at the end of
  an iteration and from the steps that change the next time event at all,
  `NextTimeEventChanges`), `NextTimeEventIsReported` and `DueTimeEventIsMet`, for a
  disciplined importer, with `TimeInv`: what the FMU was asked last (`Answered`),
  what is due at each place (`Due`), and that no exact time event of the instant is
  left after the search at the exit (`NoneLeft`), also across a nested event.

### Co-Simulation

For every set of states, inputs and derivatives, every relation
and extrapolation (that gives the input itself after no time), every `Eps`,
`MaxTime` and positive event epsilon, either integrator and either experimental
mode:

* `StepTypeCorrect`, `StepIsReached`, `EventsAreAtTheirPoint`, `CvodeIsCurrent`, and
  `TimeEventsAreMet` (if the model asks for no time event at the present time, or
  the tolerance is 0).  None of them is inductive, because during an integration
  the FMU is at a trial point, and between an event or a changed input and the next
  integration CVODE's copy is stale.  `StepInv` says at which places of the solver
  they agree and which flag stands for a disagreement: `PlaceInv` (status and mode
  at each place), `FlagInv` (a pending event update is a pending restart),
  `PointInv` (where the FMU is), `MemInv` (CVODE's copy is current or a restart
  pending), `TimeEventInv` and `EndInv` (time events on the way and at the end).
  `StepInvariant` proves it with one lemma per action.  `Sound` limits it to
  what follows no failure: a failing evaluation leaves the FMU at a trial point.
* `NoSignChangeIsLost` and `EventsComeFirst`, if no point
  of the relation is on an edge of its hysteresis (`ZeroFree`; `v_euler_touches`
  shows that Euler needs it) and, for the first, if changed inputs restart the
  solver.  `SwitchInv` says that the switch stands for the
  indicator's sign except while a flag is raised, and that the sign the solver
  compares with still stands for the switch while no event is pending, so that the
  comparison at the start of the next call finds what the master changed.  It
  is inductive relative to `StepInv`.

### Model predictive control

For every horizon, number of elements in a sample and of collocation points and
every set of settings, without further hypotheses: where a property is about some
settings only, the property says so (`RowsOfSamples`, `Provided`, the guess).

* `InputIsCurrent`: the row of the result that is read is the one of the present
  sample.  The argument is that the failures in a row equal the age of the plan
  less the sample being answered (`LoopInv`, at the places `updated` and `idle`),
  and a lemma on the rows (`RowOfSample`): a sample has as many rows in the result
  as `_get_opt_input` steps over.
* `MpcImplements`: the loop implements `RecedingHorizon`, with `LoopInv` and one
  case per action.  That an old plan is never read beyond its end, and that the
  controller does not give up before it, is part of it.
* `ErrorsAreDocumented`: with the settings `Provided` there is always a vector to
  shift and a result object to estimate from, and a row for every failure that is
  not counted out, if a sample is one element (with more, the rows of a plan end
  before the failures are used up, see "Disagreements").
* `FailedGuessIsNotUsed`, for every setting: every vector the controller holds is
  the layout or a solution, shifted or not, and none comes from a failed solve
  (`VectorInv`).
* `GuessesAreAligned`, for the guess `"shift"` without user trajectories: the shifted vector was shifted once per sample
  since its solution (`AlignInv`).
* `EstimatesAreCurrent`, for every setting: with the guess `"trajectory"` the result
  object is that of the latest successful solve (`EstimateInv`).
* `WarmStartsHaveDuals`, an action property, for every setting: from the second
  sample on a solve was made (`SolvedInv`).

### Moving horizon estimation

For every set of horizons and any number of calls and versions:

* `MheImplements`, `PriorCorrect`.  Neither property is inductive: that the next
  answer is right depends on what is in the window and behind the guess, and on
  all of them fitting together.  `IInv` says that the estimator is either
  `Healthy(s, n)` (it has answered `n` calls, the filter has taken over `s` samples,
  and window, estimates, guess and covariance are exactly the sequences these two
  numbers determine) or `Stuck` (there are more times than data, or nothing to go
  on from, so that every later call raises).  A healthy estimator stays healthy
  when it grows (`HealthyGrows`) or moves (`HealthyMoves`), and an exception makes
  it stuck (`HealthyRaises`) for good (`StuckStep`).  The lemmas on sequences
  (`BetweenAppend`, `BetweenTail`, `BetweenConcat`, `EstimatesTail`, ...) say what
  appending to and cutting off a window does.  That the answer does not depend on
  the horizon is `BetweenConcat`: the samples behind the guess and those in the
  window are together all samples.
* `CurrentCorrect`, with the invariant `Current`: the dirty flag is up until the
  Jacobians are those of the announced parameters, and the problem's covariances
  are the filter's unless a change failed.

### Collocation

For every set of problems that satisfies `ProblemsAssumption`: any number of
elements, points, variables, constraints, blocking factors and samples.  The
assumption holds what the code checks or needs: factors cover the elements and
there is one list per input (`jmi_algorithm_drivers.py:253-284`); blocking factors
with Gauss points end in a `KeyError` (`casadi_collocation.py:3726-3731`) and are
left out; a problem of MPC has blocking factors and fixed element lengths
(`mpc.py:390-415`) and samples that divide the horizon.

* `TypesAreKept`, `CountsAlwaysAgree`, without further hypotheses.  That a shift
  keeps the length is claimed, in the property, of problems with no more inputs that
  have blocking factors than factors in each of their lists (`SlicesDisjoint`): with
  more of them the slices of `_shift_xx` overlap and the vector gets longer.
* `NamesAlwaysMatch`, `FactorsAreSharedOut`, for dictionaries in any order.  The
  witnesses are the key with the same number as an input (`NameOf`) and the input
  with the same number as a key (`Follower`); the factors of two keys have disjoint
  ranges of indices (`FactorsInTurn`).  That nothing is exchanged if the keys have
  the order of the inputs, which the weaving of indices takes for granted
  (`casadi_collocation.py:1610-1630`), is `RankInOrder`.
* `GuessIsComplete`, `CheckpointsChangeNothing`, `FreedomIsInputs`, without further
  hypotheses.
* `ConstraintsAreCounted`, with Gauss points only for one element or no path
  equalities (`PathEqualitiesAreCounted`; otherwise they are counted wrongly).

The layout is a concatenation of concatenations.  `Sums` is a sum counted up term
by term, `Joined` a concatenation with the sum of its lengths, and `FlattenJoins`
says that entry `r` of part `j` is entry `Sums[j-1] + r` of the whole, and that every
entry is one of these.  From these come the sizes of all groups and blocks of
constraints (`LayoutIs`, `GroupEntry`), and `EntryIs`: which entry an index leads
to.  `VariableEntry` is that for every variable at every point, which is
`NamesMatchIndices`; for the factors it needs the rank of an input among those with
factors (`RankFacts`) and that exactly one factor covers an element.  The other way
round every entry is the place of some variable (`AllAccounted`), so that the loop
over the variables reaches it with a guess.  For checkpoints, each block with
residuals occurs once in each of the two sequences or in neither
(`EachBlockOnce`, `OccurrencesAgree`).  A shift is treated group by group
(`GroupMoves`, `EndMoves`, `BlockedMoves`): which entry moves where, and that the
sizes stay.

* `ShiftsArePlanned`, if blocking factors are those that MPC gives by default, one
  sample each (`DefaultFactors`, `mpc.py:396-405`; a shift moves to the next factor,
  which is the next sample only then).  With the invariant `PlanInv`: the vector is
  the layout with every entry replaced by the one that many samples later.  What a
  shift moves is one sample more (`AheadAgain`, `PlaceAhead`), and beyond the horizon
  both stay at its end; the inputs with factors go on from factor to factor
  (`FactorIsLater`), and the values at the initial point come from the end of the
  first sample (`EndGoesOn`).

### Symbolic elimination

For every system of equations, of any size:

* `EliminationMatchesAll`: the matching that `maximum_match` ends with is perfect,
  and the system is called singular only if there is no perfect one.  A set of
  edges is a matching at every step (`MatchInv`); the layers are disjoint and each
  vertex is joined to the one before (`LayersInv`), by edges that are not matched
  and matched in turn; the paths found in a phase are augmenting and do not meet
  (`PathsInv`), so that reassigning along one leaves the others augmenting; and a
  search without a path has closed off a set of equations with fewer variables
  (`ClosedInv`), which is the certificate that there is no perfect matching.
* `EliminationHasBlocks`: the blocks are the strongly connected components, each
  after those it uses.  This is Tarjan's algorithm with an explicit call stack;
  `SccInv` says that frames are in the order of their numbers, that each vertex on
  the stack is below a frame that it and that reach each other through, and that
  the lowlink of a frame accounts for its arcs that are done.
* `OnlyKeptAreUsed`, `WhatIsLeftIsSquare`: with `ElimInv`, over the variables and
  equations that are done: blocks come in order (`SortedInv`, from the former), the
  residuals are as many as the variables kept (`CountInv`), solutions and residuals
  contain only what is left (`LeftInv`), and dependencies are known (`KnownInv`).
  The second is for systems whose derivatives are variables
  (`DerivativesAreVariables`).  An elimination that an exception of "Disagreements"
  has ended leaves nothing to speak of.

`BipartiteGraph_proofs` states the first two of the graph on its own too.

### Induction

The proof system has no induction rule for a predicate it can be given, so that
what a recursive function computes is proved from the well-foundedness of the
natural numbers: `LeastNumber` (a set of numbers has a least element) and `Induct`
(a set that contains 0 and successors contains all).  Each use names the set of
numbers for which the claim holds.  The folds of the community modules
(`FlattenSeq`) are unfolded with the fact that they are such functions; `Total` and
`InputsIn` of `NlpLayout` and the layers and paths of the graph are written as
recursive functions for this.

TLC checked the properties, and the inductive invariants of `Fmi2ME` and `Fmi2CS`,
on small instances before they were proved.

Only model-checked: liveness under fairness (`DiscreteUpdateReturns`,
`DoStepAnswers`, `FailureReported`), which is beyond the prover.

## Not modelled

In the parts above: instantiation and identity checks, nominal values, directional
derivatives, dependent-parameter flags, options, logging and allocation failures of
FMUs; the slots of several inputs of a Co-Simulation FMU; scaling, external data and
the expressions of a nonlinear program; start times, softened constraints and
penalties of `MPC`; `set_beta`, the objective and the option checks of `MHE`, and a
solver that fails or raises under it (see "Disagreements"); closed-form expressions
and the Markowitz measure of `BLTModel`.

* Real-time control (`realtimecontrol.py`): its steps are those of `MPC` and its
  timing is wall-clock time.  Read with the model of `MPC`: a `run` that an
  exception ended can be called again, since `_already_run` is set at its end
  (537); changes of parameters at times off the grid of samples are never applied
  (78); the estimate of the model error is compared with the result of a failed
  solve (583) at a row that is the next sample only for one element per sample
  (584); the low-pass filters are documented with the weights exchanged (423
  against 561, 858 against 1023).
* Delay blocks, setjmp locations, dynamic state selection, chattering detection, the
  memory pool: which sample, location or state is meant depends on real numbers or
  on the C runtime; the effects on an event (a failed evaluation, `updated_states`)
  are in `JmiEvents`.
* Equation blocks, linear algebra, the Kalman filter of `ukf.py`, the searches of
  `dfo.py`: arithmetic on reals.
* The compiler: attribute grammars over syntax trees, without state that outlives a
  pass.  Its structural algorithms have counterparts in `symbolic_elimination.py`.
* FMI 1.0, results, XML, plotting, options, compiler wrappers, vendored code: older
  wrappers, input and output.
