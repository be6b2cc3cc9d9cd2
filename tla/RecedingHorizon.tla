-------------------------- MODULE RecedingHorizon --------------------------
(***************************************************************************)
(* What a model predictive controller promises to the process it controls: *)
(* every sample is answered with the input that the latest plan has for    *)
(* the present sample, a new plan is made at the present sample, and when  *)
(* no plan reaches the present any more the controller says so.            *)
(***************************************************************************)
EXTENDS Integers

CONSTANTS Horizon,  \* samples a plan reaches
          MaxAge    \* bound of the age of a plan

VARIABLES
    age,        \* samples since the start of the plan, -1 without a plan
    answer,     \* the sample of the plan whose input was returned last
    place       \* "asked" | "answered" | "failed"
rhVars == <<age, answer, place>>

RHInit == age = -1 /\ answer = -1 /\ place = "answered"

\* The process goes on by one sample; the first one starts the clock.
Elapse ==
    /\ place = "answered"
    /\ place' = "asked"
    /\ age' = IF age = -1 THEN -1 ELSE IF age < MaxAge THEN age + 1 ELSE age
    /\ UNCHANGED answer

Plan == place = "asked" /\ place' = "answered" /\ age' = 0 /\ answer' = 0

Follow ==
    /\ place = "asked" /\ age \in 0..(Horizon - 1)
    /\ place' = "answered" /\ answer' = age
    /\ UNCHANGED age

\* Only a controller without a plan for the present may give up.
GiveUp ==
    /\ place = "asked" /\ age \notin 0..(Horizon - 1)
    /\ place' = "failed"
    /\ UNCHANGED <<age, answer>>

RHNext == Elapse \/ Plan \/ Follow \/ GiveUp
RHSpec == RHInit /\ [][RHNext]_rhVars
=============================================================================
