------------------------------- MODULE Stack -------------------------------
(***************************************************************************)
(* compose.rs, stack_up and stack_down: bringing the services of a stack   *)
(* up in dependency order and down in the reverse order.                   *)
(*                                                                         *)
(* Every command parses and sorts the stack anew, over a map without an    *)
(* order: its order is any that TopoSort can return, and an up and a later *)
(* down need not agree on it.  Each container operation is one step here;  *)
(* ContainerLifecycle has its parts.  One command runs at a time.  The     *)
(* calls that may fail for reasons of their own are the image pull, fork   *)
(* and the file operations; one that fails half way can leave a state      *)
(* directory without a readable configuration, "broken" here.              *)
(***************************************************************************)
EXTENDS Naturals, Sequences, FiniteSets

CONSTANT Services
\* The loops over a stack without services do nothing.
ASSUME ServicesAssumption == IsFiniteSet(Services) /\ Services # {}

VARIABLES
    deps,       \* deps[s]: the services s depends on
    order,      \* stack.services, of the last command that began
    state,      \* state[s]: what the state file of the container of s says
    pc,         \* the step of the command, "idle" between commands
    at,         \* the position of its loop in order
    troubled,   \* history: a call of this command failed, other than by
                \* finding the container in a state it does not act on
    last,       \* history: the last command that ran to its end
    before,     \* history: state, when this command began
    spoiled     \* history: a call failed or a command was aborted, since
                \* a command last began with no container

vars == <<deps, order, state, pc, at, troubled, last, before,
          spoiled>>

\* Fault: visit pushes a service before it visits the dependencies.
DependentsFirst(o, d) ==
    /\ {o[i] : i \in DOMAIN o} = Services
    /\ \A i \in DOMAIN o : d[o[i]] \subseteq {o[j] : j \in (i + 1)..Len(o)}

\* What topological_sort guarantees of its result (TopoSort.VerdictRight and
\* TopoSort.DependenciesFirst).
Sorted(o, d) ==
    /\ {o[i] : i \in DOMAIN o} = Services
    /\ \A i \in DOMAIN o : d[o[i]] \subseteq {o[j] : j \in 1..(i - 1)}

\* What the parse_compose of a command may find, as the keys of the map come
\* in any order.
Orders ==
    {o \in [1..Cardinality(Services) -> Services] : Sorted(o, deps)}

\* The stack has an order: of one without (a circle) every command fails
\* before it does anything.
Init ==
    /\ deps \in [Services -> SUBSET Services]
    /\ order \in Orders
    /\ state = [s \in Services |-> "absent"]
    /\ pc = "idle"
    /\ at = 0
    /\ troubled = FALSE
    /\ last = "none"
    /\ before = state
    /\ spoiled = FALSE

Current == order[at]

NoneExists == \A s \in Services : state[s] = "absent"

\* A command begins: it sorts the services, and goes on in that order.
Begin ==
    /\ pc = "idle"
    /\ order' \in Orders
    /\ troubled' = FALSE /\ last' = "none"
    /\ before' = state
    /\ spoiled' = (spoiled /\ ~NoneExists)
    /\ UNCHANGED <<deps, state>>

\* A step of a loop, and not the beginning of a command.
Within(step) == pc = step /\ UNCHANGED <<deps, order, before>>

Fail == troubled' = TRUE /\ spoiled' = TRUE
Fine == UNCHANGED <<troubled, spoiled>>

\* The call on service s fails, and may leave it broken, or in one of the
\* states done when it fails only after it has saved the configuration.
FailOn(s, done) ==
    /\ Fail
    /\ \E left \in {state[s], "broken"} \cup done :
          state' = [state EXCEPT ![s] = left]

\* Fault: the loop of stack_up runs once too often.
NextUpTooFar ==
    IF at <= Len(order)
    THEN at' = at + 1 /\ pc' = "rootfs" /\ UNCHANGED last
    ELSE at' = 0 /\ pc' = "idle" /\ last' = "up"

\* Fault: the loop of stack_up ends before the last service.
NextUpTooSoon ==
    IF at + 1 < Len(order)
    THEN at' = at + 1 /\ pc' = "rootfs" /\ UNCHANGED last
    ELSE at' = 0 /\ pc' = "idle" /\ last' = "up"

\* The loop of stack_up goes on to the next service, or the command is over.
NextUp ==
    IF at < Len(order)
    THEN at' = at + 1 /\ pc' = "rootfs" /\ UNCHANGED last
    ELSE at' = 0 /\ pc' = "idle" /\ last' = "up"

\* The loop of stack_down, which runs backwards.
NextDown ==
    IF at > 1
    THEN at' = at - 1 /\ pc' = "stop" /\ UNCHANGED last
    ELSE at' = 0 /\ pc' = "idle" /\ last' = "down"

BeginUp ==
    /\ Begin
    /\ pc' = "rootfs" /\ at' = 1

BeginDown ==
    /\ Begin
    /\ pc' = "stop" /\ at' = Len(order')

\* The root directory of the service: given, or pulled; no image, no
\* container, and the loop continues.
Rootfs ==
    /\ Within("rootfs")
    /\ UNCHANGED state
    /\ \/ pc' = "create" /\ Fine /\ UNCHANGED <<at, last>>
       \/ Fail /\ NextUp

\* container::create, which refuses a container that exists; an error of it
\* is printed, and the container is not started.
CreateService ==
    /\ Within("create")
    /\ \/ /\ state[Current] = "absent"
          /\ state' = [state EXCEPT ![Current] = "created"]
          /\ pc' = "start" /\ Fine /\ UNCHANGED <<at, last>>
       \/ /\ state[Current] # "absent"
          /\ UNCHANGED state /\ Fine /\ NextUp
       \/ /\ state[Current] = "absent"
          /\ FailOn(Current, {"created"}) /\ NextUp

\* container::start, whose error is printed.
StartService ==
    /\ Within("start")
    /\ \/ state' = [state EXCEPT ![Current] = "running"] /\ Fine
       \/ FailOn(Current, {})
    /\ NextUp

\* Fault: the error of stop ends stack_down.
StopServiceOrQuit ==
    /\ Within("stop")
    /\ \/ /\ state[Current] = "running"
          /\ state' = [state EXCEPT ![Current] = "stopped"]
          /\ Fine
          /\ pc' = "delete"
          /\ UNCHANGED <<at, last>>
       \/ /\ state[Current] # "running"
          /\ UNCHANGED state /\ Fine
          /\ at' = 0 /\ pc' = "idle" /\ last' = "down"

\* container::stop, which refuses a container that is not running; its error
\* is printed, and delete follows all the same.
StopService ==
    /\ Within("stop")
    /\ \/ /\ state[Current] = "running"
          /\ state' = [state EXCEPT ![Current] = "stopped"]
          /\ Fine
       \/ state[Current] \notin {"running", "broken"} /\ UNCHANGED state /\ Fine
       \/ state[Current] \in {"running", "broken"} /\ FailOn(Current, {})
    /\ pc' = "delete"
    /\ UNCHANGED <<at, last>>

\* container::delete, which refuses a container that is running or missing.
DeleteService ==
    /\ Within("delete")
    /\ \/ /\ state[Current] \in {"created", "stopped"}
          /\ state' = [state EXCEPT ![Current] = "absent"]
          /\ Fine
       \/ /\ state[Current] \in {"absent", "running"}
          /\ UNCHANGED state /\ Fine
       \/ /\ state[Current] \notin {"absent", "running"}
          /\ FailOn(Current, {})
    /\ NextDown

\* The command is killed between two of its steps.
Abort ==
    /\ pc # "idle"
    /\ pc' = "idle" /\ at' = 0 /\ spoiled' = TRUE
    /\ UNCHANGED <<deps, order, state, troubled, last, before>>

Next ==
    \/ BeginUp \/ Rootfs \/ CreateService \/ StartService
    \/ BeginDown \/ StopService \/ DeleteService
    \/ Abort

Spec == Init /\ [][Next]_vars
-----------------------------------------------------------------------------
TypeOK ==
    /\ deps \in [Services -> SUBSET Services]
    /\ order \in Seq(Services)
    /\ {state, before} \subseteq
            [Services -> {"absent", "created", "running", "stopped", "broken"}]
    /\ pc \in {"idle", "rootfs", "create", "start", "stop", "delete"}
    /\ at \in 0..Len(order)
    /\ pc # "idle" => at > 0
    /\ {troubled, spoiled} \subseteq BOOLEAN
    /\ last \in {"none", "up", "down"}

\* As long as nothing has gone wrong since the stack was last empty, a service
\* runs only while everything it depends on runs: on the way up, because up
\* starts dependencies first, and on the way down, because down stops them
\* last, though it goes through the services in an order of its own.
DependenciesRun ==
    ~spoiled => \A s \in Services : state[s] = "running" =>
                    \A d \in deps[s] : state[d] = "running"

\* Whatever happened before, a down in which no call fails leaves no container
\* of the stack behind, since the error of a stop that finds nothing to stop
\* does not end it.
DownRemovesAll ==
    last = "down" /\ ~troubled => NoneExists

\* What becomes of a service by an up in which no call fails.
UpOf(s) == IF before[s] = "absent" THEN "running" ELSE before[s]

\* An up in which no call fails, be it the first or repeated after others
\* that failed or were killed, leaves every service running that did not
\* exist when it began, and touches no other: what an earlier one has created
\* and not started, or stopped, stays so, because create refuses it and up
\* goes on with the next.
UpStartsMissing ==
    last = "up" /\ ~troubled => \A s \in Services : state[s] = UpOf(s)
=============================================================================
