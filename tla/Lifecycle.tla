----------------------------- MODULE Lifecycle -----------------------------
(***************************************************************************)
(* What the container commands promise: each container is in one of four   *)
(* states (container.rs and ContainerState in config.rs), and create,      *)
(* start, stop and delete move it from one to the next.  The promise ends  *)
(* when commands on one container overlap or one is aborted: the container *)
(* is then "void", and nothing is said about it any more.                  *)
(***************************************************************************)
CONSTANT Names
VARIABLE status

Init == status = [c \in Names |-> "absent"]

Move(c, from, to) ==
    status[c] \in from /\ status' = [status EXCEPT ![c] = to]

Create(c) == Move(c, {"absent"}, "created")
Start(c)  == Move(c, {"created", "stopped"}, "running")
Stop(c)   == Move(c, {"running"}, "stopped")
Delete(c) == Move(c, {"created", "stopped"}, "absent")
Void(c)   == status' = [status EXCEPT ![c] = "void"]

Next == \E c \in Names :
            Create(c) \/ Start(c) \/ Stop(c) \/ Delete(c) \/ Void(c)

Spec == Init /\ [][Next]_status
=============================================================================
