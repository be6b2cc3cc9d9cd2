-------------------------------- MODULE MHE --------------------------------
(***************************************************************************)
(* Moving horizon estimation (mhe.py, ekf_arrival_cost.py).  Every sample  *)
(* the caller hands over an input and a measurement with step() and gets   *)
(* the state at the next sample, estimated from the samples of a window.   *)
(* What lies before the window is summed up in an arrival cost: a guess of *)
(* the first state of the window and its covariance, which an extended     *)
(* Kalman filter carries over one sample each time the window moves.       *)
(*                                                                         *)
(* Times are numbers of sample times; the input and the measurement of a   *)
(* call are named by the number of the call; an estimate is known by its   *)
(* time and by the samples it is made from, a covariance by the updates    *)
(* that made it, values of parameters and covariances by a version.        *)
(***************************************************************************)
EXTENDS Naturals, Sequences, SequencesExt

CONSTANTS
  Horizons,    \* the horizons an estimator may be created with
  MaxCalls,    \* bound: calls of step
  MaxVersions  \* bound: versions of the parameters and of each covariance

ASSUME HorizonsAssumption == Horizons \subseteq Nat
ASSUME BoundsAssumption == MaxCalls \in Nat /\ MaxVersions \in Nat

Matrices == {"Q", "R"}   \* covariances of process noise and measurements

VARIABLES
  calls,            \* calls of step so far: the caller's own count
  \* the estimator
  horizon,
  next_time_index,
  time_vector,      \* time points of the window and of the next estimate
  uy,               \* columns of u and y
  x_est,            \* columns of x_est, _dx_est and _c_est
  dirty,            \* a parameter has changed since the last linearization
  \* its Kalman filter
  P,                \* the updates behind the covariance
  jacobians,        \* parameters the Jacobian functions are made with
  filterWeights,    \* the covariances Q and R
  \* the optimization problem
  parameters,       \* the parameters of the model
  weights,          \* versions found in the blocks of the inverses of Q, R
  P0inv,            \* the covariance whose inverse weighs the arrival cost
  x_0_guess,
  \* the caller's side
  answer,           \* the latest estimate and what it is made from
  announced,        \* parameters when set_dirty was last called
  setFailed         \* covariances whose last change raised an exception

window == <<time_vector, uy, x_est>>
filter == <<P, jacobians, filterWeights>>
arrival == <<P0inv, x_0_guess>>
settings == <<parameters, weights, filterWeights, announced, setFailed>>
vars == <<calls, horizon, next_time_index, window, dirty, filter, parameters,
          weights, arrival, answer, announced, setFailed>>

\* A column of estimates: made for a time, from these samples.
Column(t, from) == [at |-> t, from |-> from]

Init ==
  /\ calls = 0
  /\ horizon \in Horizons
  /\ next_time_index = 1
  /\ time_vector = <<0>>
  /\ uy = << >>
  /\ x_est = <<Column(0, << >>)>>
  /\ dirty = FALSE
  /\ P = << >>
  /\ jacobians = 0
  /\ filterWeights = [m \in Matrices |-> 0]
  /\ parameters = 0
  /\ weights = [m \in Matrices |-> {0}]
  /\ P0inv = << >>
  /\ x_0_guess = Column(0, << >>)
  /\ answer = [at |-> 0, from |-> << >>, guess |-> Column(0, << >>),
               P |-> << >>, times |-> <<0>>, uy |-> << >>]
  /\ announced = 0
  /\ setFailed = {}

-----------------------------------------------------------------------------
(* step *)

\* The time vector and the data with the new sample; the arrays are created
\* anew as long as no estimate has been made.
Times == Append(time_vector, next_time_index)
Data == IF next_time_index = 1 THEN <<calls>> ELSE Append(uy, calls)

\* The window moves: the filter takes over its first sample.
Moves == next_time_index > horizon

Jacobians == IF dirty THEN parameters ELSE jacobians

\* get_next_P linearizes at the first time point of the window, with the first
\* columns of the data and of the estimates.  Variants: it linearizes at the
\* latest estimate, or before the Jacobians are recalculated.
UpdateAtLatest ==
  [t |-> Times[1], uy |-> Data[1], x |-> Last(x_est).at,
   jacobians |-> Jacobians, weights |-> filterWeights]
UpdateBefore ==
  [t |-> Times[1], uy |-> Data[1], x |-> x_est[1].at,
   jacobians |-> jacobians, weights |-> filterWeights]
Update ==
  [t |-> Times[1], uy |-> Data[1], x |-> x_est[1].at,
   jacobians |-> Jacobians, weights |-> filterWeights]

\* The guess is the first estimate the removal of the oldest data leaves; a
\* variant sets it before the removal.
NextGuessOldest == x_est[1]
NextGuess == x_est[2]

RecalculateJacobians ==
  /\ jacobians' = Jacobians
  /\ dirty' = FALSE

\* The lengths of a time vector and of the extended data must agree.
Fit(times, data) == Len(times) = Len(data) + 1

\* The estimate the optimization makes, for its final time: the guess stands for
\* the samples before the window; the column that extends the data is masked.
Estimated(times, data, guess) == Column(Last(times), guess.from \o data)

Answered(times, data, guess, cov) ==
  LET new == Estimated(times, data, guess)
  IN  [at |-> new.at, from |-> new.from, guess |-> guess, P |-> cov,
       times |-> times, uy |-> data]

Called == calls < MaxCalls /\ calls' = calls + 1

\* The optimization is solved and its last point is the answer.
Solve(times, data, columns, guess, cov) ==
  /\ x_est' = Append(columns, Estimated(times, data, guess))
  /\ answer' = Answered(times, data, guess, cov)
  /\ next_time_index' = next_time_index + 1

StepGrows ==
  /\ Called
  /\ ~Moves
  /\ Fit(Times, Data)
  /\ time_vector' = Times
  /\ uy' = Data
  /\ Solve(Times, Data, x_est, x_0_guess, P0inv)
  /\ UNCHANGED <<horizon, dirty, filter, arrival, settings>>

\* Update of the covariance, and removal of the oldest data.
MoveWindow ==
  /\ P' = Append(P, Update)
  /\ P0inv' = P'
  /\ time_vector' = Tail(Times)
  /\ uy' = Tail(Data)

StepMoves ==
  /\ Called
  /\ Moves
  /\ Len(x_est) > 1
  /\ Fit(Tail(Times), Tail(Data))
  /\ RecalculateJacobians
  /\ MoveWindow
  /\ x_0_guess' = NextGuess
  /\ Solve(time_vector', uy', Tail(x_est), x_0_guess', P0inv')
  /\ UNCHANGED <<horizon, settings>>

\* Names of u or y are missing, unknown or given twice: the exception leaves
\* the new time point behind.
StepRejected ==
  /\ Called
  /\ time_vector' = Times
  /\ UNCHANGED <<horizon, next_time_index, uy, x_est, dirty, filter, arrival,
                 answer, settings>>

\* The rows of the external data do not have the length of the time vector.
StepGrowsRaises ==
  /\ Called
  /\ ~Moves
  /\ ~Fit(Times, Data)
  /\ time_vector' = Times
  /\ uy' = Data
  /\ UNCHANGED <<horizon, next_time_index, x_est, dirty, filter, arrival,
                 answer, settings>>

StepMovesRaises ==
  /\ Called
  /\ Moves
  /\ Len(x_est) > 1
  /\ ~Fit(Tail(Times), Tail(Data))
  /\ RecalculateJacobians
  /\ MoveWindow
  /\ x_est' = Tail(x_est)
  /\ x_0_guess' = NextGuess
  /\ UNCHANGED <<horizon, next_time_index, answer, settings>>

\* No estimate is left to guess from after the removal ...
StepRemovesLast ==
  /\ Called
  /\ Moves
  /\ Len(x_est) = 1
  /\ RecalculateJacobians
  /\ MoveWindow
  /\ x_est' = << >>
  /\ UNCHANGED <<horizon, next_time_index, x_0_guess, answer, settings>>

\* ... or to linearize at.
StepHasNoEstimate ==
  /\ Called
  /\ Moves
  /\ x_est = << >>
  /\ RecalculateJacobians
  /\ time_vector' = Times
  /\ uy' = Data
  /\ UNCHANGED <<horizon, next_time_index, x_est, P, arrival, answer, settings>>

Step ==
  \/ StepGrows \/ StepMoves
  \/ StepRejected
  \/ StepGrowsRaises \/ StepMovesRaises \/ StepRemovesLast
  \/ StepHasNoEstimate

-----------------------------------------------------------------------------
(* Changes of parameters and covariances *)

estimates == <<calls, horizon, next_time_index, window, P, arrival, answer>>

\* The caller changes a parameter in the optimization problem.
SetParameter ==
  /\ parameters < MaxVersions
  /\ parameters' = parameters + 1
  /\ UNCHANGED <<estimates, dirty, jacobians, filterWeights, weights,
                 announced, setFailed>>

\* set_dirty
SetDirty ==
  /\ dirty' = TRUE
  /\ announced' = parameters
  /\ UNCHANGED <<estimates, jacobians, filterWeights, parameters, weights,
                 setFailed>>

\* set_process_noise_covariance_matrix, set_measurement_noise_covariance_matrix
SetCovariance(m) ==
  LET new == filterWeights[m] + 1
  IN  /\ new <= MaxVersions
      /\ weights' = [weights EXCEPT ![m] = {new}]
      /\ filterWeights' = [filterWeights EXCEPT ![m] = new]
      /\ setFailed' = setFailed \ {m}
      /\ UNCHANGED <<estimates, dirty, jacobians, parameters, announced>>

\* A block after the first cannot be inverted: the blocks before it are set in
\* the optimization problem, the filter is not told.
SetCovarianceFails(m) ==
  LET new == filterWeights[m] + 1
  IN  /\ new <= MaxVersions
      /\ weights' = [weights EXCEPT ![m] = @ \cup {new}]
      /\ setFailed' = setFailed \cup {m}
      /\ UNCHANGED <<estimates, dirty, jacobians, filterWeights, parameters,
                     announced>>

Next ==
  \/ Step
  \/ SetParameter
  \/ SetDirty
  \/ \E m \in Matrices : SetCovariance(m) \/ SetCovarianceFails(m)

Spec == Init /\ [][Next]_vars

-----------------------------------------------------------------------------
(* Properties *)

Columns == [at : Nat, from : Seq(Nat)]
Updates == [t : Nat, uy : Nat, x : Nat, jacobians : Nat,
            weights : [Matrices -> Nat]]

\* Every variable has its type.
TypeOK ==
  /\ calls \in Nat
  /\ horizon \in Horizons
  /\ next_time_index \in Nat \ {0}
  /\ time_vector \in Seq(Nat) /\ time_vector # << >>
  /\ uy \in Seq(Nat)
  /\ x_est \in Seq(Columns)
  /\ dirty \in BOOLEAN
  /\ P \in Seq(Updates) /\ P0inv \in Seq(Updates)
  /\ jacobians \in Nat /\ parameters \in Nat /\ announced \in Nat
  /\ filterWeights \in [Matrices -> Nat]
  /\ weights \in [Matrices -> SUBSET Nat]
  /\ setFailed \subseteq Matrices
  /\ x_0_guess \in Columns
  /\ answer \in [at : Nat, from : Seq(Nat), guess : Columns,
                 P : Seq(Updates), times : Seq(Nat), uy : Seq(Nat)]

\* Every estimate is made from the samples of all earlier times, each once,
\* whatever the horizon: what _remove_old_data drops has just been taken over
\* by the arrival cost, and what the arrival cost stands for is not in the
\* window.  After a rejected call the estimator raises exceptions for ever; it
\* does not answer with data at the wrong times.
Full == INSTANCE FullInformation WITH time <- answer.at, samples <- answer.from
FullInformation == Full!Spec

\* The two halves of the arrival cost belong together and to the window: the
\* covariance has been updated with the samples the guess was estimated from,
\* in their order, each linearized at the estimate and the input of its own
\* time; the guess is for the first time of the window, whose data stand at
\* their times and are the last ones, as many as the horizon.
PriorMatchesWindow ==
  /\ Len(answer.P) = Len(answer.guess.from)
  /\ \A i \in DOMAIN answer.P :
       /\ answer.P[i].t = i - 1
       /\ answer.P[i].x = i - 1
       /\ answer.P[i].uy = answer.guess.from[i]
  /\ answer.times[1] = answer.guess.at
  /\ \A i \in DOMAIN answer.uy : answer.uy[i] = answer.times[i]
  /\ Len(answer.uy) = IF answer.at < horizon THEN answer.at ELSE horizon

\* The filter and the optimization weigh the same model: an update is made with
\* Jacobians no older than the parameters set_dirty announced (also when it was
\* called while the window was growing, where no update looks at the flag), and
\* with the covariances the optimization has, unless changing them failed.
CurrentModel ==
  [][P' # P =>
       /\ Last(P').jacobians >= announced
       /\ \A m \in Matrices \ setFailed : weights[m] = {Last(P').weights[m]}]_vars
=============================================================================
