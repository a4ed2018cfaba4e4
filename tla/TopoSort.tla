------------------------------ MODULE TopoSort ------------------------------
(***************************************************************************)
(* compose.rs, topological_sort and visit: the depth-first search that     *)
(* puts the services of a stack in dependency order.                       *)
(*                                                                         *)
(* visit calls itself; here its activations are the sequence path, the     *)
(* innermost last, and the dependencies an activation has still to look at *)
(* are todo.  The keys of the two HashMaps are enumerated in an order that *)
(* changes from run to run, so every order is allowed.                     *)
(***************************************************************************)
EXTENDS Naturals, Sequences, FiniteSets

CONSTANTS
    Services,   \* the services the stack file defines
    Unknown     \* a name depends_on may hold and no service has

ASSUME ServicesAssumption == IsFiniteSet(Services) /\ Unknown \notin Services

VARIABLES
    deps,       \* deps[s]: the names in the depends_on of s
    mark,       \* visited: absent, false (temporary) or true (permanent)
    path,       \* the activations of visit
    todo,       \* todo[s]: dependencies the loop of s has not reached
    order,      \* the services in the order they will be started
    result      \* what topological_sort returns

vars == <<deps, mark, path, todo, order, result>>

Init ==
    /\ deps \in [Services -> SUBSET (Services \cup {Unknown})]
    /\ mark = [s \in Services |-> "none"]
    /\ path = <<>>
    /\ todo = [s \in Services |-> {}]
    /\ order = <<>>
    /\ result = "running"

Top == path[Len(path)]

\* The activation of visit for s begins: the temporary mark.
Push(s, left) ==
    /\ path' = Append(path, s)
    /\ mark' = [mark EXCEPT ![s] = "temporary"]
    /\ todo' = [left EXCEPT ![s] = deps[s]]

\* topological_sort calls visit for a service that has no mark.
Root(s) ==
    /\ result = "running"
    /\ path = <<>>
    /\ mark[s] = "none"
    /\ Push(s, todo)
    /\ UNCHANGED <<deps, order, result>>

\* The loop of the innermost activation reaches dependency d.
Reach(d) ==
    /\ result = "running"
    /\ path # <<>>
    /\ d \in todo[Top]

\* Fault: a name that no service has is visited like any other.
UnknownVisited ==
    /\ Reach(Unknown)
    /\ todo' = [todo EXCEPT ![Top] = @ \ {Unknown}]
    /\ order' = Append(order, Unknown)
    /\ UNCHANGED <<deps, mark, path, result>>

\* No service has that name: an error that unwinds every activation.
UnknownDependency ==
    /\ Reach(Unknown)
    /\ result' = "unknown"
    /\ UNCHANGED <<deps, mark, path, todo, order>>

\* Fault: the loop waits for the visit of d to end.
CircularAwaited(d) ==
    /\ Reach(d)
    /\ mark[d] = "temporary"
    /\ UNCHANGED vars

\* The dependency is being visited: an error likewise.
Circular(d) ==
    /\ Reach(d)
    /\ mark[d] = "temporary"
    /\ result' = "circular"
    /\ UNCHANGED <<deps, mark, path, todo, order>>

\* Fault: a service with a temporary mark counts as visited.
SkipAnyMark(d) ==
    /\ Reach(d)
    /\ mark[d] # "none"
    /\ todo' = [todo EXCEPT ![Top] = @ \ {d}]
    /\ UNCHANGED <<deps, mark, path, order, result>>

\* It has been visited.
Skip(d) ==
    /\ Reach(d)
    /\ mark[d] = "permanent"
    /\ todo' = [todo EXCEPT ![Top] = @ \ {d}]
    /\ UNCHANGED <<deps, mark, path, order, result>>

\* It is visited now.
Descend(d) ==
    /\ Reach(d)
    /\ mark[d] = "none"
    /\ Push(d, [todo EXCEPT ![Top] = @ \ {d}])
    /\ UNCHANGED <<deps, order, result>>

\* Fault: the mark stays temporary.
FinishUnmarked ==
    /\ result = "running"
    /\ path # <<>>
    /\ todo[Top] = {}
    /\ order' = Append(order, Top)
    /\ path' = SubSeq(path, 1, Len(path) - 1)
    /\ UNCHANGED <<deps, mark, todo, result>>

\* The loop ends: the permanent mark, the place in the order, and the return.
Finish ==
    /\ result = "running"
    /\ path # <<>>
    /\ todo[Top] = {}
    /\ mark' = [mark EXCEPT ![Top] = "permanent"]
    /\ order' = Append(order, Top)
    /\ path' = SubSeq(path, 1, Len(path) - 1)
    /\ UNCHANGED <<deps, todo, result>>

\* Every service has a mark and topological_sort returns.
Return ==
    /\ result = "running"
    /\ path = <<>>
    /\ \A s \in Services : mark[s] # "none"
    /\ result' = "sorted"
    /\ UNCHANGED <<deps, mark, path, todo, order>>

Next ==
    \/ \E s \in Services : Root(s) \/ Circular(s) \/ Skip(s) \/ Descend(s)
    \/ UnknownDependency \/ Finish \/ Return

Spec == Init /\ [][Next]_vars

\* A single thread that nothing blocks.
FairSpec == Spec /\ WF_vars(Next)
-----------------------------------------------------------------------------
TypeOK ==
    /\ deps \in [Services -> SUBSET (Services \cup {Unknown})]
    /\ mark \in [Services -> {"none", "temporary", "permanent"}]
    /\ path \in Seq(Services)
    /\ todo \in [Services -> SUBSET (Services \cup {Unknown})]
    /\ order \in Seq(Services)
    /\ result \in {"running", "sorted", "unknown", "circular"}

\* Some services depend on one another in a circle: each of a nonempty set of
\* them depends on one of the set.
HasCircle == \E S \in (SUBSET Services) \ {{}} : \A s \in S : deps[s] \cap S # {}

HasUnknown == \E s \in Services : Unknown \in deps[s]

\* Whatever the order of the HashMap, a service stands in the order only
\* behind everything it depends on.
DependenciesFirst ==
    \A i \in 1..Len(order) : \A d \in deps[order[i]] :
        \E j \in 1..(i - 1) : order[j] = d

\* The verdict is right: an error names a defect the stack file has, and a
\* stack that is sorted has none and contains every service exactly once.
VerdictRight ==
    /\ result = "unknown" => HasUnknown
    /\ result = "circular" => HasCircle
    /\ result = "sorted" => /\ ~HasUnknown /\ ~HasCircle
                            /\ {order[i] : i \in 1..Len(order)} = Services
                            /\ Len(order) = Cardinality(Services)

\* The search ends, on circular stacks too.
Terminates == <>(result # "running")
=============================================================================
