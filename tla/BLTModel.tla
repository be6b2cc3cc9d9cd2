------------------------------ MODULE BLTModel ------------------------------
(***************************************************************************)
(* BLTModel (pyjmi/symbolic_elimination.py): the equations of a model are  *)
(* matched and sorted into blocks (BipartiteGraph), and _create_residuals  *)
(* goes through the blocks in order: it solves a block for its variables   *)
(* and substitutes the solution in what follows, or keeps the equations of *)
(* the block as residuals.                                                 *)
(*                                                                         *)
(* An expression is the set of the unknowns in it.  The attributes of the  *)
(* model's variables and equations are chosen when they are first looked   *)
(* at, by Component.__init__.  What is known (states, inputs, parameters)  *)
(* is left out, and counts for nothing in the density measure, which is    *)
(* the default one (lmfi).                                                 *)
(***************************************************************************)
EXTENDS BipartiteGraph, FiniteSetsExt

CONSTANTS
    Options,        \* of the elimination: records [tearing, solveBlocks,
                    \* solveTornLinear, denseTol]
    Attributes(_, _, _) \* of a system, its blocks and the options: records
                        \* [der, ineliminable, tearVars, tearEqs, nonlinear edges]

VARIABLES
    options,        \* one of Options, which stays
    attr,           \* the attributes
    next,           \* the number of the next block
    causal,         \* of the torn block being eliminated: the edges to do
    residuals,      \* <<what, number, expression>>
    solution,       \* solved_expr, by solved_vars
    eliminated,     \* explicit_solved_algebraics
    kept,           \* explicit_unsolved_algebraics
    dependencies    \* _dependencies, by name

bltVars == <<options, attr, next, causal, residuals, solution, eliminated, kept,
             dependencies>>
vars == <<graphVars, bltVars>>

NoAttributes == [der |-> {}, ineliminable |-> {}, tearVars |-> {}, tearEqs |-> {},
                 nonlinear |-> {}]
NoFunction == << >>

Init ==
    /\ GraphInit
    /\ options \in Options /\ attr = NoAttributes
    /\ next = 1 /\ causal = {} /\ residuals = {} /\ solution = NoFunction
    /\ eliminated = {} /\ kept = {} /\ dependencies = NoFunction

Eqs(co)  == {x[1] : x \in co}
Vars(co) == {x[2] : x \in co}
Unknowns(e) == {v \in Numbers : <<e, v>> \in system.edges}

\* The function old with the entries of new put in.
With(new, old) ==
    [v \in DOMAIN new \cup DOMAIN old |-> IF v \in DOMAIN new THEN new[v] ELSE old[v]]

-----------------------------------------------------------------------------
(* Component.__init__                                                      *)

TearVars(co) == IF options.tearing THEN Vars(co) \cap attr.tearVars ELSE {}
TearEqs(co)  == IF options.tearing THEN Eqs(co) \cap attr.tearEqs ELSE {}
Torn(co) == TearVars(co) # {} /\ Cardinality(TearVars(co)) < Cardinality(co)

Solvable(co) ==
    \/ Torn(co)
    \/ /\ options.solveBlocks \/ Cardinality(co) = 1
       /\ Vars(co) \cap (attr.der \cup attr.ineliminable) = {}

LinearEdges(co) == \A x \in attr.nonlinear : x[1] \in Eqs(co) => x[2] \notin Vars(co)
Linear(co) == (Torn(co) => options.solveTornLinear) /\ LinearEdges(co)

\* A block with tearing variables and another number of residuals is an error.
TearingMatches ==
    \A i \in DOMAIN components :
        Cardinality(TearVars(components[i])) = Cardinality(TearEqs(components[i]))

\* _setup_dependencies: variables that are not eliminated depend on themselves;
\* of the tearing variables those that are algebraic.
InitialDependencies ==
    [v \in attr.ineliminable \cup (IF options.tearing THEN attr.tearVars \ attr.der ELSE {})
        |-> {v}]

Classify ==
    /\ place = "components"
    /\ UNCHANGED <<system, layers, arcs, successors, path, visited, paths, sccVars, options,
                   next, causal, residuals, solution, eliminated, kept>>
    /\ attr' \in Attributes(system, components, options)
    /\ dependencies' = InitialDependencies'
    /\ place' = IF TearingMatches' THEN "blocks" ELSE "RuntimeError"
    /\ matches' = {}

-----------------------------------------------------------------------------
(* _sparsity_preserving                                                    *)

\* What the other variables of an equation depend on.
Depends(vs) == UNION {dependencies[v] : v \in vs}
Known(vs) == vs \subseteq DOMAIN dependencies

\* The fill-in that elimination of variable v by equation e causes in the other
\* equations with v; nothing if there is at most one of them.
FillIn(e, v) ==
    LET others == {f \in Numbers \ {e} : v \in Unknowns(f)}
        Fill(f) == Cardinality(Depends((Unknowns(e) \ {v}) \ Unknowns(f))) - 1
    IN  IF Cardinality(others) > 1 THEN MapThenSumSet(Fill, others) ELSE 0
Preserves(e, v) == FillIn(e, v) < options.denseTol

\* What _sparsity_preserving does with _dependencies: a variable that would be
\* eliminated depends on what its equation depends on.
Recorded(e, v) ==
    With([w \in {v} |-> IF Preserves(e, v) THEN Depends(Unknowns(e) \ {v}) ELSE {v}],
         dependencies)
Themselves(vs) == With([v \in vs |-> {v}], dependencies)

-----------------------------------------------------------------------------
(* _create_residuals                                                       *)

Block == components[next]
AtBlock == place = "blocks" /\ next <= Len(components)
ScalarOf(co) == CHOOSE x \in co : TRUE

\* Equation e with the solutions put in, without the unknowns vs of its block.
Substituted(e, vs) ==
    UNION {IF v \in DOMAIN solution THEN solution[v] ELSE {v} : v \in Unknowns(e) \ vs}
\* A variant that uses the equation as it is, and the definition.
RightHandSideAsIs(co) == UNION {Unknowns(e) \ Vars(co) : e \in Eqs(co)}
RightHandSide(co) == UNION {Substituted(e, Vars(co)) : e \in Eqs(co)}

Residual(e) == <<"equation", e, Substituted(e, {})>>
Solved(v, expr) == <<"solved", v, {v} \cup expr>>

\* The variables of a solved block that stay, with a residual: a variant
\* without them, and the definition.
NoneStays(co) == {}
Stays(co) ==
    Vars(co) \cap (IF Torn(co) THEN attr.der ELSE attr.der \cup attr.ineliminable)

\* A linear block is solved for its unknowns and the solution stored.
StoreSolution(co) ==
    /\ solution' = With([v \in Vars(co) |-> RightHandSide(co)], solution)
    /\ residuals' = residuals \cup {Solved(v, RightHandSide(co)) : v \in Stays(co)}
    /\ eliminated' = eliminated \cup (Vars(co) \ Stays(co))
    /\ next' = next + 1
    /\ UNCHANGED <<graphVars, options, attr, causal, kept>>

SolveScalar ==
    /\ AtBlock /\ Cardinality(Block) = 1 /\ Solvable(Block) /\ Linear(Block)
    /\ LET x == ScalarOf(Block)
       IN  /\ Known(Unknowns(x[1]) \ {x[2]}) /\ Preserves(x[1], x[2])
           /\ dependencies' = Recorded(x[1], x[2])
    /\ StoreSolution(Block)

SolveBlock ==
    /\ AtBlock /\ Cardinality(Block) > 1 /\ ~ Torn(Block)
    /\ Solvable(Block) /\ Linear(Block)
    /\ dependencies' = Themselves(Vars(Block))
    /\ StoreSolution(Block)

\* The equations that are not tearing residuals are matched with the variables
\* that are not tearing variables.  Their blocks are scalar if and only if
\* this matching is the only one.
CausalMatchings(co) ==
    LET es == Eqs(co) \ TearEqs(co)
        vs == Vars(co) \ TearVars(co)
    IN  {m \in {{<<e, f[e]>> : e \in es} : f \in [es -> vs]} :
            m \subseteq system.edges /\ Vars(m) = vs}

\* create_torn_lin_eq: the causal variables first, then the tearing variables.
SolveTornBlock ==
    /\ AtBlock /\ Torn(Block) /\ Linear(Block)
    /\ Cardinality(CausalMatchings(Block)) = 1
    /\ dependencies' = Themselves(Vars(Block))
    /\ StoreSolution(Block)

\* tear_nonlin_eq
Tears(co) == Torn(co) /\ ~ Linear(co)
TearBlock ==
    /\ AtBlock /\ Tears(Block)
    /\ Cardinality(CausalMatchings(Block)) = 1
    /\ causal' \in CausalMatchings(Block) /\ causal' \cap attr.nonlinear = {}
    /\ place' = "tearing"
    /\ UNCHANGED <<system, matchVars, sccVars, options, attr, next, residuals, solution,
                   eliminated, kept, dependencies>>

\* Singular, not lower triangular, or not linear in a causal variable.  The
\* message for a linear block reads an attribute that a block does not have.
TearingFails ==
    /\ AtBlock /\ Torn(Block)
    /\ \/ Cardinality(CausalMatchings(Block)) # 1
       \/ Tears(Block) /\ \E m \in CausalMatchings(Block) : m \cap attr.nonlinear # {}
    /\ place' = IF Linear(Block) /\ CausalMatchings(Block) # {} THEN "AttributeError"
                ELSE "RuntimeError"
    /\ UNCHANGED <<system, matchVars, sccVars, bltVars>>

\* The next block of the causal graph, all of whose other variables are done.
NextCausal == {x \in causal : Unknowns(x[1]) \cap Vars(causal) \subseteq {x[2]}}

MayEliminate(x) ==
    Preserves(x[1], x[2]) /\ x[2] \notin attr.ineliminable \cup attr.der

EliminateCausal ==
    /\ place = "tearing"
    /\ \E x \in NextCausal :
          /\ Known(Unknowns(x[1]) \ {x[2]}) /\ MayEliminate(x)
          /\ dependencies' = Recorded(x[1], x[2])
          /\ solution' = With([v \in {x[2]} |-> Substituted(x[1], {x[2]})], solution)
          /\ eliminated' = eliminated \cup {x[2]}
          /\ causal' = causal \ {x}
    /\ UNCHANGED <<graphVars, options, attr, next, residuals, kept>>

KeepCausal ==
    /\ place = "tearing"
    /\ \E x \in NextCausal :
          /\ Known(Unknowns(x[1]) \ {x[2]}) /\ ~ MayEliminate(x)
          /\ dependencies' = Recorded(x[1], x[2])
          /\ residuals' = residuals \cup {Residual(x[1])}
          /\ solution' = With([v \in {x[2]} |-> {x[2]}], solution)
          /\ kept' = kept \cup ({x[2]} \ attr.der)
          /\ causal' = causal \ {x}
    /\ UNCHANGED <<graphVars, options, attr, next, eliminated>>

\* The unknowns vs stay, with the equations es as residuals.
Keep(es, vs) ==
    /\ residuals' = residuals \cup {Residual(e) : e \in es}
    /\ solution' = With([v \in vs |-> {v}], solution)
    /\ kept' = kept \cup (vs \ attr.der)
    /\ next' = next + 1

KeepTearing ==
    /\ place = "tearing" /\ causal = {}
    /\ Keep(TearEqs(Block), TearVars(Block))
    /\ place' = "blocks"
    /\ UNCHANGED <<system, matchVars, sccVars, options, attr, causal, eliminated,
                   dependencies>>

\* A block that is not solved.
KeepBlock ==
    /\ AtBlock /\ ~ Torn(Block)
    /\ \/ ~ Solvable(Block) \/ ~ Linear(Block)
       \/ /\ Cardinality(Block) = 1
          /\ Known(Unknowns(ScalarOf(Block)[1]) \ {ScalarOf(Block)[2]})
          /\ ~ Preserves(ScalarOf(Block)[1], ScalarOf(Block)[2])
    /\ Keep(Eqs(Block), Vars(Block))
    /\ dependencies' = Themselves(Vars(Block))
    /\ UNCHANGED <<graphVars, options, attr, causal, eliminated>>

\* _dependencies has no entry for a variable of the equation.
Unrecorded(x) == ~ Known(Unknowns(x[1]) \ {x[2]})
DependencyMissing ==
    /\ \/ /\ AtBlock /\ Cardinality(Block) = 1 /\ Solvable(Block) /\ Linear(Block)
          /\ Unrecorded(ScalarOf(Block))
       \/ place = "tearing" /\ \E x \in NextCausal : Unrecorded(x)
    /\ place' = "KeyError"
    /\ UNCHANGED <<system, matchVars, sccVars, bltVars>>

Done ==
    /\ place = "blocks" /\ next > Len(components)
    /\ place' = "done"
    /\ UNCHANGED <<system, matchVars, sccVars, bltVars>>

Ended == place \in {"singular", "RuntimeError", "AttributeError", "KeyError",
                      "done"} /\ UNCHANGED vars

Next ==
    \/ GraphNext /\ UNCHANGED bltVars
    \/ Classify
    \/ SolveScalar \/ SolveBlock \/ SolveTornBlock \/ KeepBlock
    \/ TearBlock \/ TearingFails \/ EliminateCausal \/ KeepCausal \/ KeepTearing
    \/ DependencyMissing \/ Done \/ Ended
Spec == Init /\ [][Next]_vars

-----------------------------------------------------------------------------
(* Properties.                                                             *)

Algebraic == Numbers \ attr.der
Unsolved == kept \cup attr.der

\* What is left is a system in the variables that are left: neither the
\* residuals nor the solutions, which are evaluated after the solver, contain a
\* variable that was eliminated, and the density measure finds the dependencies
\* it needs, unless a derivative is a tearing variable (1035 only looks for
\* algebraic ones).  The order of the blocks, of the causal variables in a torn
\* block and of the substitutions together make it so.
OnlyKeptUnknowns ==
    /\ place = "KeyError" => attr.der \cap attr.tearVars # {}
    /\ place = "done" =>
          /\ \A r \in residuals : r[3] \subseteq Unsolved
          /\ \A v \in eliminated : solution[v] \subseteq Unsolved

\* It has as many residuals as unknowns, and every algebraic variable is either
\* an unknown or eliminated.
SquareSystem ==
    place = "done" =>
        /\ Cardinality(residuals) = Cardinality(Unsolved)
        /\ kept \cup eliminated = Algebraic /\ kept \cap eliminated = {}

\* "ineliminable -- List of names of variables that should not be eliminated"
\* (symbolic_elimination.py:54).
IneliminableKept == eliminated \cap attr.ineliminable = {}
=============================================================================
