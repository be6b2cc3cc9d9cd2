----------------------------- MODULE Collocator -----------------------------
(***************************************************************************)
(* What LocalDAECollocator._create_nlp makes of each problem of a set, and *)
(* what MPC._shift_xx makes of its solution: the properties that relate    *)
(* the layout of xx, the indices into it, the initial guess, the           *)
(* constraints and the shifted guess.                                      *)
(*                                                                         *)
(* A problem has the further field nes, its elements in a sample of MPC,   *)
(* or 0 if it is solved once.  xx starts as the layout itself, every entry *)
(* standing for its own optimal value.  While the solver fails, the vector *)
(* that was shifted for the last sample is shifted again; shifts counts    *)
(* the samples since the solution.                                         *)
(***************************************************************************)
EXTENDS NlpConstraints, MpcShift

CONSTANT Problems

\* Elements, points and samples that divide the horizon; lists of factors that
\* cover the elements (jmi_algorithm_drivers.py:253-284), one for each key.  With
\* Gauss points and blocking factors there is no input at the final point, and
\* casadi_collocation.py:3726-3731 raises a KeyError.  MPC always has blocking
\* factors and refuses free element lengths (mpc.py:390-415).
ASSUME ProblemsAssumption == \A q \in Problems :
    /\ q.ne \in Nat \ {0} /\ q.ncp \in Nat \ {0}
    /\ q.nx \in Nat /\ q.nw \in Nat /\ q.nu \in Nat /\ q.npopt \in Nat
    /\ q.gauss \in BOOLEAN /\ q.free \in BOOLEAN /\ q.blocked \in BOOLEAN
    /\ q.ninit \in Nat /\ q.ndae \in Nat /\ q.patheq \in Nat /\ q.pathineq \in Nat
    /\ q.pointeq \in Nat /\ q.pointineq \in Nat /\ q.nconstr \in Nat /\ q.ndelay \in Nat
    /\ q.bf \in Seq((1..q.nu) \X Seq(Nat \ {0}))
    /\ \A b \in DOMAIN q.bf : Total(q.bf[b][2]) = q.ne
    /\ \A b, c \in DOMAIN q.bf : q.bf[b][1] = q.bf[c][1] => b = c
    /\ IF q.blocked THEN ~ q.gauss ELSE q.bf = << >>
    /\ q.nes \in Nat /\ (q.nes > 0 => q.ne % q.nes = 0 /\ q.blocked /\ ~ q.free)

VARIABLES p, xx, shifts
vars == <<p, xx, shifts>>

Horizon == p.ne \div p.nes

Init == p \in Problems /\ xx = Layout(p) /\ shifts = 0

Shift ==
    /\ p.nes > 0 /\ shifts < Horizon
    /\ xx' = ShiftXX(p, p.nes, xx)
    /\ shifts' = shifts + 1
    /\ UNCHANGED p

Next == Shift
Spec == Init /\ [][Next]_vars

-----------------------------------------------------------------------------
(* Properties                                                              *)

TypeOK ==
    /\ shifts \in 0..p.ne
    /\ NXX(p) \in Nat
    /\ SplitIndices(p) \in [1..8 -> 0..NXX(p)]

\* The vector is the one the collocator made, and not shifted yet.
Constructed == shifts = 0

\* The two slices that _shift_xx puts together for an input with factors are as
\* long as its list only if there are no more such inputs than factors in it.
SlicesDisjoint == \A b \in DOMAIN p.bf : p.nu - Len(Free(p)) <= Len(p.bf[b][2])

\* The two assertions at the end of _create_nlp_variables: the variables
\* that were counted in advance, the split of xx into groups and the entries
\* that were named are the same in number, for every discretization and
\* every choice of inputs with blocking factors; and a shift keeps the number,
\* unless it puts overlapping slices together.
CountsAgree ==
    /\ \A g \in 1..7 : SplitSizes(p)[g] = Len(Groups(p)[g])
    /\ Constructed \/ SlicesDisjoint => NXX(p) = Len(xx)

BlockedInputs == {v \in 1..p.nu : Blocked(p, v)}
KeysInOrder == \A b, c \in DOMAIN p.bf : b < c => p.bf[b][1] < p.bf[c][1]

\* The entry of xx to which var_indices leads for a variable at a point, e, has
\* the name of this variable and this point in xx_dests.  The two structures
\* are filled by different loops, one in the order of the keys of the blocking
\* factors and one in the order of the inputs of the model: with keys in
\* another order the inputs that have factors are exchanged, one for one, and
\* at every point in the same way, and e is the factor at this point of the
\* input it is named after.
NamesMatchIndices ==
    Constructed => \E named \in Bijection(BlockedInputs, BlockedInputs) :
        /\ KeysInOrder => \A v \in BlockedInputs : named[v] = v
        /\ \A n \in DOMAIN TimePoints(p) : \A z \in Variables(p) :
              LET pt == TimePoints(p)[n]
                  e  == xx[VarIndex(p, z[1], z[2], pt)]
              IN  /\ e[1] = z[1]
                  /\ IF z[1] = "u" /\ z[2] \in BlockedInputs
                     THEN /\ e[2] = named[z[2]]
                          /\ \E f \in DOMAIN Factors(p, e[2]) :
                                /\ e[3] = <<FirstElement(Factors(p, e[2]), f), -1>>
                                /\ Covers(Factors(p, e[2]), f, pt[1])
                     ELSE e[2] = z[2] /\ e[3] = pt

SameIndex(v, i, w, j) == InputIndex(p, v, <<i, 1>>) = InputIndex(p, w, <<j, 1>>)
OneFactor(fs, i, j) == \E f \in DOMAIN fs : Covers(fs, f, i) /\ Covers(fs, f, j)

\* Every list of blocking factors is followed by an input of its own: this has
\* the same value in two elements exactly when a factor of the list covers
\* both, and shares no value with another input, whatever the order of the keys.
FactorsSharedOut ==
    Constructed /\ p.blocked => \E follower \in Bijection(DOMAIN p.bf, BlockedInputs) :
        \A b, c \in DOMAIN p.bf : \A i, j \in 1..p.ne :
            SameIndex(follower[b], i, follower[c], j)
            <=> b = c /\ OneFactor(p.bf[b][2], i, j)

\* "Each element in the list specifies the number of collocation elements for
\* which the input must be constant": an input has the same value in two
\* elements exactly when one of its own factors covers both.  It has not: an
\* input may follow the factors of another one.
ConstantWithinFactor ==
    Constructed /\ p.blocked => \A v \in BlockedInputs : \A i, j \in 1..p.ne :
        SameIndex(v, i, v, j) <=> OneFactor(Factors(p, v), i, j)

EveryEntryGuessed ==
    LET src == InitSources(p)
    IN  \A pos \in DOMAIN src : src[pos][1] # "none"

\* With Radau points, every entry gets an initial guess and bounds, and the
\* guess of the states is continuous across the boundary of the elements, so
\* that the continuity constraints hold at the starting point.
GuessComplete ==
    Constructed /\ ~ p.gauss =>
        /\ EveryEntryGuessed
        /\ \A v \in 1..p.nx : \A i \in Continuity(p) :
               InitSources(p)[VarIndex(p, "x", v, <<i, 0>>)]
                 = InitSources(p)[VarIndex(p, "x", v, <<i - 1, LastPoint(p)>>)]

\* The two assertions of _assemble_back_tracking_info: as many constraints
\* are created as were counted, so that each has its own scale factor.
ConstraintsCounted ==
    Constructed => \A cp \in BOOLEAN :
        /\ Numel(EqualityBlocks(p, cp)) = EqualityCount(p)
        /\ Numel(InequalityBlocks(p)) = InequalityCount(p)

\* Creating the constraints through checkpointed functions gives the same
\* constraints, at the same elements and points, in another order.
Occurrences(blocks, b) == Cardinality({j \in DOMAIN blocks : blocks[j] = b})
CheckpointSameConstraints ==
    LET whole  == EqualityBlocks(p, TRUE)
        single == EqualityBlocks(p, FALSE)
    IN  Constructed => \A b \in ToSet(whole) \cup ToSet(single) :
            b.n # 0 => Occurrences(whole, b) = Occurrences(single, b)

\* A model with as many residuals as derivatives and algebraic variables
\* leaves exactly the inputs, the parameters and the element lengths to the
\* optimizer: nothing is over- or underdetermined by the transcription, not
\* the initial and final points either.
DegreesOfFreedom ==
    (/\ Constructed
     /\ p.ninit = p.nx /\ p.ndae = p.nx + p.nw
     /\ p.patheq = 0 /\ p.pointeq = 0 /\ p.nconstr = 0 /\ p.ndelay = 0)
    => NXX(p) - Numel(EqualityBlocks(p, FALSE))
       = p.ne * p.ncp * Len(Free(p)) + (IF p.blocked THEN FactorCount(p) ELSE 0)
         + p.npopt + (IF p.free THEN p.ne - 1 ELSE 0)

-----------------------------------------------------------------------------
\* The planned entry that stands for entry e after k samples: the same
\* variable k samples later, or at the end of the horizon when that is past.
Later(e, k) ==
    LET i     == e[3][1] + k * p.nes
        point == IF i <= p.ne THEN <<i, e[3][2]>> ELSE <<p.ne, p.ncp>>
    IN  IF k = 0 \/ e[1] = "p" THEN e
        ELSE IF e[3][2] = -1
        THEN Layout(p)[InputIndex(p, e[2], <<IF i <= p.ne THEN i ELSE p.ne, 1>>)]
        ELSE IF e[3] = <<1, 0>> /\ e[1] # "x"
        THEN <<e[1], e[2], <<IF k * p.nes <= p.ne THEN k * p.nes ELSE p.ne, p.ncp>>>>
        ELSE <<e[1], e[2], point>>

ShiftedPlan == LET all == Layout(p) IN [n \in DOMAIN all |-> Later(all[n], shifts)]
IsBlocked(n) == Layout(p)[n][3][2] = -1 /\ Layout(p)[n][1] = "u"

\* The shifted vector has one entry for every variable of the problem, and
\* its entries are the values planned for the times they now stand for, also
\* after several failures in a row: for all states, derivatives, algebraic
\* variables, parameters and inputs, with at most one input that has
\* blocking factors.
ShiftIsPlan ==
    Cardinality({v \in 1..p.nu : Blocked(p, v)}) <= 1 => xx = ShiftedPlan

=============================================================================
