------------------------ MODULE LifecycleRefinement ------------------------
(***************************************************************************)
(* ContainerLifecycle implements Lifecycle.  A command takes effect when   *)
(* its fs::write has truncated the config file: from there only an abort   *)
(* keeps it from writing what it has decided on.                           *)
(***************************************************************************)
EXTENDS ContainerLifecycle

\* The client that has the config file of c open, if there is one.
Writers(c) == {cl \in Clients : Busy(cl, c) /\ cli[cl].fd = "open"}

Promised(c) ==
    IF disturbed[c] THEN "void"
    ELSE IF Writers(c) # {} THEN cli[CHOOSE cl \in Writers(c) : TRUE].cfg.state
    ELSE IF conf[c] = NoConf THEN "absent"
    ELSE conf[c].state

Abstract == INSTANCE Lifecycle WITH status <- [c \in Names |-> Promised(c)]

\* The commands of container.rs, step by step, do what Lifecycle says: the
\* record of a container changes only as create, start, stop and delete
\* promise, as long as the commands on it do not overlap or fail.
RefinesLifecycle == Abstract!Spec
=============================================================================
