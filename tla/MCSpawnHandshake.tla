-------------------------- MODULE MCSpawnHandshake --------------------------
(***************************************************************************)
(* The child of spawn_process from the fork to the system calls of its     *)
(* command, which go through the filter if the child has loaded it.        *)
(***************************************************************************)
EXTENDS SpawnHandshake, Seccomp

BlockedCalls == <<3, 1, 4, 6, 2, 7, 5>>

Filtered == child = "command" /\ "seccomp" \in security

Advance ==
    \/ Next /\ UNCHANGED filterVars
    \/ Filtered /\ (Filtering \/ Enter) /\ UNCHANGED vars

Begin == Init /\ FilterInit

Composed ==
    /\ Begin
    /\ [][Advance]_<<vars, filterVars>>
    /\ WF_vars(ParentStep /\ UNCHANGED filterVars)
    /\ WF_vars(ChildStep /\ UNCHANGED filterVars)

=============================================================================
