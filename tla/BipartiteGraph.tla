--------------------------- MODULE BipartiteGraph ---------------------------
(***************************************************************************)
(* BipartiteGraph (pyjmi/symbolic_elimination.py): the matching of the     *)
(* equations of a system with its variables (maximum_match, the algorithm  *)
(* of Hopcroft and Karp) and the blocks of the matched system (scc,        *)
(* Tarjan's algorithm), one action per step of their loops.                *)
(*                                                                         *)
(* Equations and variables have the numbers 1..n; an edge <<e, v>> says    *)
(* that equation e contains variable v.  A loop over a list takes the      *)
(* elements in any order, since the lists have the order of the model.     *)
(***************************************************************************)
EXTENDS Integers, Sequences, FiniteSets, SequencesExt

CONSTANT Systems    \* the systems of equations: records [n, edges]

ASSUME SystemsAssumption ==
    \A s \in Systems : s.n \in Nat \ {0} /\ s.edges \subseteq (1..s.n) \X (1..s.n)

VARIABLES
    system,         \* the system, one of Systems, which stays
    place,          \* where the computation is, or how it ended
    matches,        \* the edges matched
    layers,         \* L: sets of vertices
    arcs,           \* E: sets of arcs between two layers, to the earlier one
    successors,     \* the arcs that the search has not followed yet
    path,           \* the stack of the search, without the source
    visited,
    paths,          \* the edges of each augmenting path found
    number, lowlink, stack, calls,  \* _strong_connect; its frames [vertex, todo]
    components      \* the blocks, sets of matched edges, in order

matchVars == <<matches, layers, arcs, successors, path, visited, paths>>
sccVars   == <<number, lowlink, stack, calls, components>>
graphVars == <<system, place, matchVars, sccVars>>

Numbers == 1..system.n
Eq(e)  == <<"eq", e>>
Var(v) == <<"var", v>>
Sink   == <<"sink", 0>>
Source == <<"source", 0>>

MatchedEqs  == {Eq(m[1]) : m \in matches}
MatchedVars == {Var(m[2]) : m \in matches}
UnmatchedEqs  == {Eq(e) : e \in Numbers} \ MatchedEqs
UnmatchedVars == {Var(v) : v \in Numbers} \ MatchedVars

GraphInit ==
    /\ system \in Systems /\ place = "match"
    /\ matches = {} /\ layers = << >> /\ arcs = << >> /\ successors = << >>
    /\ path = << >> /\ visited = {} /\ paths = << >>
    /\ number = << >> /\ lowlink = << >> /\ stack = << >> /\ calls = << >>
    /\ components = << >>

-----------------------------------------------------------------------------
(* maximum_match: layers of alternating paths.                             *)

\* A phase begins with the equations that are not matched; there is none left
\* when the matching is perfect.
StartPhase ==
    /\ place = "match" /\ UnmatchedEqs # {}
    /\ layers' = <<UnmatchedEqs>> /\ arcs' = << >>
    /\ place' = "layers"
    /\ UNCHANGED <<system, matches, successors, path, visited, paths, sccVars>>

\* The arcs to the next layer: from an equation along edges that are not
\* matched, from a variable along its match, to vertices of no layer yet.
Reached == UNION {layers[i] : i \in DOMAIN layers}
\* A variant that follows any edge back to an equation, and the definition.
NextArcsAnyEdge ==
    IF Len(layers) % 2 = 1
    THEN {<<Var(x[2]), Eq(x[1])>> : x \in {y \in system.edges \ matches :
             Eq(y[1]) \in Last(layers) /\ Var(y[2]) \notin Reached}}
    ELSE {<<Eq(x[1]), Var(x[2])>> : x \in {y \in system.edges :
             Var(y[2]) \in Last(layers) /\ Eq(y[1]) \notin Reached}}
NextArcs ==
    IF Len(layers) % 2 = 1
    THEN {<<Var(x[2]), Eq(x[1])>> : x \in {y \in system.edges \ matches :
             Eq(y[1]) \in Last(layers) /\ Var(y[2]) \notin Reached}}
    ELSE {<<Eq(x[1]), Var(x[2])>> : x \in {y \in matches :
             Var(y[2]) \in Last(layers) /\ Eq(y[1]) \notin Reached}}

NextLayer ==
    /\ place = "layers" /\ Last(layers) \cap UnmatchedVars = {}
    /\ NextArcs # {}
    /\ layers' = Append(layers, {a[1] : a \in NextArcs})
    /\ arcs' = Append(arcs, NextArcs)
    /\ UNCHANGED <<system, place, matches, successors, path, visited, paths, sccVars>>

\* "Unable to find perfect matching", or equations that contain no variables.
NoMatching ==
    /\ place = "layers" /\ Last(layers) \cap UnmatchedVars = {}
    /\ NextArcs = {}
    /\ place' = "singular"
    /\ UNCHANGED <<system, matchVars, sccVars>>

\* The search goes from the unmatched variables of the last layer back.
LayersReach ==
    /\ place = "layers" /\ Last(layers) \cap UnmatchedVars # {}
    /\ LET last == Last(layers) \cap UnmatchedVars
           kept == (UNION {arcs[i] : i \in 1..(Len(arcs) - 1)})
                   \cup {a \in Last(arcs) : a[1] \in last}
       IN  successors' =
             [u \in Reached \cup {Source} |->
                IF u = Source THEN last
                ELSE IF u \in layers[1] THEN {Sink}
                ELSE {a[2] : a \in {b \in kept : b[1] = u}}]
    /\ path' = << >> /\ visited' = {} /\ paths' = << >>
    /\ place' = "search"
    /\ UNCHANGED <<system, matches, layers, arcs, sccVars>>

-----------------------------------------------------------------------------
(* maximum_match: a maximal set of disjoint paths, depth first.            *)

Top == IF path = << >> THEN Source ELSE Last(path)

\* The edges of a path of vertices, variables first.
PathEdges(p) ==
    {IF i % 2 = 1 THEN <<p[i + 1][2], p[i][2]>> ELSE <<p[i][2], p[i + 1][2]>> :
        i \in 1..(Len(p) - 1)}

FollowVisited ==
    /\ place = "search"
    /\ \E s \in successors[Top] :
          /\ s \in visited
          /\ successors' = [successors EXCEPT ![Top] = @ \ {s}]
    /\ UNCHANGED <<system, place, matches, layers, arcs, path, visited, paths, sccVars>>

Follow ==
    /\ place = "search"
    /\ \E s \in successors[Top] :
          /\ s \notin visited /\ s # Sink
          /\ successors' = [successors EXCEPT ![Top] = @ \ {s}]
          /\ path' = Append(path, s) /\ visited' = visited \cup {s}
    /\ UNCHANGED <<system, place, matches, layers, arcs, paths, sccVars>>

\* A path is found, and the search goes on at the source.
FoundPath ==
    /\ place = "search" /\ Sink \in successors[Top]
    /\ successors' = [successors EXCEPT ![Top] = @ \ {Sink}]
    /\ paths' = Append(paths, PathEdges(path))
    /\ path' = << >>
    /\ UNCHANGED <<system, place, matches, layers, arcs, visited, sccVars>>

Backtrack ==
    /\ place = "search" /\ path # << >> /\ successors[Top] = {}
    /\ path' = Front(path)
    /\ UNCHANGED <<system, place, matches, layers, arcs, successors, visited, paths, sccVars>>

\* Matched edges of a path become unmatched and the others matched.
Toggled(m, p) == (m \ p) \cup (p \ m)
Augmented ==
    LET m[i \in 0..Len(paths)] == IF i = 0 THEN matches ELSE Toggled(m[i - 1], paths[i])
    IN  m[Len(paths)]
Augment ==
    /\ place = "search" /\ path = << >> /\ successors[Source] = {}
    /\ matches' = Augmented
    /\ layers' = << >> /\ arcs' = << >> /\ successors' = << >>
    /\ visited' = {} /\ paths' = << >> /\ path' = << >>
    /\ place' = "match"
    /\ UNCHANGED <<system, sccVars>>

-----------------------------------------------------------------------------
(* scc: strongly connected components of the matched edges; an arc from    *)
(* <<e, w>> to <<f, v>> says that equation e contains variable v.          *)

Arcs(x) == {y \in matches : y # x /\ <<x[1], y[2]>> \in system.edges}

StartScc ==
    /\ place = "match" /\ UnmatchedEqs = {}
    /\ number' = [x \in matches |-> 0] /\ lowlink' = [x \in matches |-> 0]
    /\ place' = "scc"
    /\ UNCHANGED <<system, matchVars, stack, calls, components>>

\* _strong_connect(v): v gets the next number.
Connect(x) ==
    LET i == 1 + Cardinality({y \in matches : number[y] # 0})
    IN  /\ number' = [number EXCEPT ![x] = i]
        /\ stack' = Append(stack, x)
        /\ UNCHANGED <<system, place, matchVars, components>>

Root ==
    /\ place = "scc" /\ calls = << >>
    /\ \E x \in matches :
          /\ number[x] = 0
          /\ Connect(x)
          /\ lowlink' = [lowlink EXCEPT ![x] = number'[x]]
          /\ calls' = <<[vertex |-> x, todo |-> Arcs(x)]>>

Frame == Last(calls)
FrameTaken(y) == [Frame EXCEPT !.todo = @ \ {y}]

TreeArc ==
    /\ place = "scc" /\ calls # << >>
    /\ \E y \in Frame.todo :
          /\ number[y] = 0
          /\ Connect(y)
          /\ lowlink' = [lowlink EXCEPT ![y] = number'[y]]
          /\ calls' = Front(calls) \o <<FrameTaken(y), [vertex |-> y, todo |-> Arcs(y)]>>

\* A variant that ignores arcs to a branch that was left, and the definition:
\* the arc counts when its end is on the stack.
CountsAncestors(y) == \E i \in DOMAIN calls : calls[i].vertex = y
Counts(y) == Contains(stack, y)

Lower(a, b) == IF a <= b THEN a ELSE b
OtherArc ==
    /\ place = "scc" /\ calls # << >>
    /\ \E y \in Frame.todo :
          LET x == Frame.vertex
          IN  /\ number[y] # 0
              /\ calls' = Append(Front(calls), FrameTaken(y))
              /\ lowlink' = IF number[y] < number[x] /\ Counts(y)
                            THEN [lowlink EXCEPT ![x] = Lower(@, number[y])]
                            ELSE lowlink
    /\ UNCHANGED <<system, place, matchVars, number, stack, components>>

\* What is left of the stack when the vertices from x on are taken off: they
\* are taken while the number of the last one is not below that of x.
Below(x) == Max({0} \cup {i \in DOMAIN stack : number[stack[i]] < number[x]})

\* The call returns: a root takes its component off the stack, and the caller
\* takes over the lowlink.
Return ==
    /\ place = "scc" /\ calls # << >> /\ Frame.todo = {}
    /\ LET x == Frame.vertex
           block == {stack[i] : i \in (Below(x) + 1)..Len(stack)}
       IN  /\ calls' = Front(calls)
           /\ lowlink' =
                IF Len(calls) = 1 THEN lowlink
                ELSE [lowlink EXCEPT ![calls[Len(calls) - 1].vertex] = Lower(@, lowlink[x])]
           /\ IF lowlink[x] = number[x]
              THEN /\ components' = Append(components, block)
                   /\ stack' = SubSeq(stack, 1, Below(x))
              ELSE UNCHANGED <<components, stack>>
    /\ UNCHANGED <<system, place, matchVars, number>>

\* All vertices have a component.  What only the algorithms use is forgotten.
EndScc ==
    /\ place = "scc" /\ calls = << >> /\ \A x \in matches : number[x] # 0
    /\ place' = "components"
    /\ number' = << >> /\ lowlink' = << >>
    /\ UNCHANGED <<system, matchVars, stack, calls, components>>

GraphNext ==
    \/ StartPhase \/ NextLayer \/ NoMatching \/ LayersReach
    \/ FollowVisited \/ Follow \/ FoundPath \/ Backtrack \/ Augment
    \/ StartScc \/ Root \/ TreeArc \/ OtherArc \/ Return \/ EndScc

-----------------------------------------------------------------------------
(* Properties.                                                             *)

PerfectMatching(m, s) ==
    /\ m \subseteq s.edges
    /\ \A e \in 1..s.n : \E v \in 1..s.n : <<e, v>> \in m
    /\ \A x, y \in m : x # y => x[1] # y[1] /\ x[2] # y[2]
HasPerfectMatching(s) ==
    \E f \in [1..s.n -> 1..s.n] : PerfectMatching({<<e, f[e]>> : e \in 1..s.n}, s)

\* The matching is perfect when scc starts, and the system is called
\* structurally singular only if it has no perfect matching at all: no phase
\* loses a match for good (maximum_match, 776-794).
MatchingIsPerfect ==
    /\ place \in {"scc", "components"} => PerfectMatching(matches, system)
    /\ place = "singular" => ~ HasPerfectMatching(system)

\* x uses, directly or not, the variable of y.
Uses(x, y) ==
    \E k \in 0..(system.n - 1) : \E s \in [0..k -> matches] :
        s[0] = x /\ s[k] = y /\ \A i \in 1..k : s[i] \in Arcs(s[i - 1])

\* The blocks are the strongly connected components of the system, ordered so
\* that a block only contains variables of its own and of earlier blocks.
BlocksInOrder ==
    /\ place \in {"scc", "components"} =>
          \A i, j \in DOMAIN components : \A x \in components[i], y \in components[j] :
             /\ i < j => ~ Uses(x, y)
             /\ i = j => Uses(x, y)
             /\ i # j => x # y
    /\ place = "components" => UNION {components[i] : i \in DOMAIN components} = matches
=============================================================================
