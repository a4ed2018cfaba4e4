--------------------------- MODULE SpawnHandshake ---------------------------
(***************************************************************************)
(* platform/linux/mod.rs, spawn_process, in the detail that Fork and       *)
(* Attach of ContainerLifecycle leave out: parent and child, each in its   *)
(* own process, and the pipe on which the parent waits for the child.      *)
(*                                                                         *)
(* The pipe is the kernel's: read returns a byte, or end of file once      *)
(* nobody holds the write end, and blocks until then.                      *)
(***************************************************************************)

VARIABLES
    parent,     \* the next step of the parent
    child,      \* the next step of the child
    writers,    \* the processes that hold the write end
    readers,    \* the processes that hold the read end
    pipe,       \* the byte is in the pipe
    saw,        \* what read returned
    spaces,     \* the namespaces the child has of its own
    security,   \* what the child has applied of its capability and seccomp
                \* restrictions
    grouped     \* the child is in the container's cgroup

vars == <<parent, child, writers, readers, pipe, saw, spaces, security,
          grouped>>

\* The namespaces a process can have of its own.
Namespaces == {"mnt", "uts", "ipc", "pid", "net", "cgroup"}

\* After unshare(ALL_NAMESPACES) the process is in new namespaces of every
\* kind but one: CLONE_NEWPID is for the processes it will fork.
Unshared == Namespaces \ {"pid"}

Alive == child \notin {"unborn", "dead"}

Init ==
    /\ parent = "fork"
    /\ child = "unborn"
    /\ writers = {"parent"}
    /\ readers = {"parent"}
    /\ pipe = FALSE
    /\ saw = "nothing"
    /\ spaces = {}
    /\ security = {}
    /\ grouped = FALSE

(***************************************************************************)
(* The parent.                                                             *)
(***************************************************************************)
Fork ==
    /\ parent = "fork"
    /\ parent' = "close"
    /\ child' = "close"
    /\ writers' = {"parent", "child"}
    /\ readers' = {"parent", "child"}
    /\ UNCHANGED <<pipe, saw, spaces, security, grouped>>

\* fork fails, and spawn_process returns the error.
ForkFails ==
    /\ parent = "fork"
    /\ parent' = "failed"
    /\ UNCHANGED <<child, writers, readers, pipe, saw, spaces, security,
                   grouped>>

\* Fault: the parent keeps the write end.
KeepWriteEnd ==
    /\ parent = "close"
    /\ parent' = "read"
    /\ UNCHANGED <<child, writers, readers, pipe, saw, spaces, security,
                   grouped>>

CloseWriteEnd ==
    /\ parent = "close"
    /\ parent' = "read"
    /\ writers' = writers \ {"parent"}
    /\ UNCHANGED <<child, readers, pipe, saw, spaces, security, grouped>>

\* Fault: an interrupted read is taken for an answer.
ReadInterrupted ==
    /\ parent = "read"
    /\ saw' = "interrupted"
    /\ parent' = "attach"
    /\ UNCHANGED <<child, writers, readers, pipe, spaces, security, grouped>>

\* The result of read is not looked at.
ReadByte ==
    /\ parent = "read"
    /\ \/ pipe /\ saw' = "byte"
       \/ ~pipe /\ writers = {} /\ saw' = "end"
    /\ parent' = "attach"
    /\ pipe' = FALSE
    /\ readers' = readers \ {"parent"}
    /\ UNCHANGED <<child, writers, spaces, security, grouped>>

\* add_process, whose failure is only a warning; then Ok(pid), whatever has
\* become of the child.
Attach ==
    /\ parent = "attach"
    /\ grouped' \in {FALSE, Alive}
    /\ parent' = "returned"
    /\ UNCHANGED <<child, writers, readers, pipe, saw, spaces, security>>

\* The kernel closes what a process holds when it ends.
ParentDies ==
    /\ parent \notin {"returned", "failed"}
    /\ parent' = "failed"
    /\ writers' = writers \ {"parent"}
    /\ readers' = readers \ {"parent"}
    /\ UNCHANGED <<child, pipe, saw, spaces, security, grouped>>

(***************************************************************************)
(* The child.                                                              *)
(***************************************************************************)
CloseReadEnd ==
    /\ child = "close"
    /\ child' = "unshare"
    /\ readers' = readers \ {"child"}
    /\ UNCHANGED <<parent, writers, pipe, saw, spaces, security, grouped>>

\* The child exits, or is killed.
ChildDies ==
    /\ Alive
    /\ child' = "dead"
    /\ writers' = writers \ {"child"}
    /\ readers' = readers \ {"child"}
    /\ grouped' = FALSE
    /\ UNCHANGED <<parent, pipe, saw, spaces, security>>

\* Fault: a failing unshare is only a warning.
UnshareOrWarn ==
    /\ child = "unshare"
    /\ child' = "signal"
    /\ spaces' \in {{}, Unshared}
    /\ UNCHANGED <<parent, writers, readers, pipe, saw, security, grouped>>

\* A child that cannot unshare exits, which is ChildDies.
Unshare ==
    /\ child = "unshare"
    /\ child' = "signal"
    /\ spaces' = Unshared
    /\ UNCHANGED <<parent, writers, readers, pipe, saw, security, grouped>>

\* The host name, the session, and the byte, which nobody gets when the
\* parent is gone; SIGPIPE is ignored in a Rust program.
SendByte ==
    /\ child = "signal"
    /\ child' = "hangup"
    /\ pipe' = (readers # {})
    /\ UNCHANGED <<parent, writers, readers, saw, spaces, security, grouped>>

Hangup ==
    /\ child = "hangup"
    /\ child' = "secure"
    /\ writers' = writers \ {"child"}
    /\ UNCHANGED <<parent, readers, pipe, saw, spaces, security, grouped>>

\* drop_capabilities and apply_seccomp_filter; the errors of both are
\* ignored.
Secure ==
    /\ child = "secure"
    /\ child' = "exec"
    /\ security' \in SUBSET {"capabilities", "seccomp"}
    /\ UNCHANGED <<parent, writers, readers, pipe, saw, spaces, grouped>>

\* execve; when it fails the child exits, which is ChildDies.
Exec ==
    /\ child = "exec"
    /\ child' = "command"
    /\ UNCHANGED <<parent, writers, readers, pipe, saw, spaces, security,
                   grouped>>

ParentStep == Fork \/ CloseWriteEnd \/ ReadByte \/ Attach

ChildStep == CloseReadEnd \/ Unshare \/ SendByte \/ Hangup \/ Secure \/ Exec

Next == ParentStep \/ ChildStep \/ ForkFails \/ ParentDies \/ ChildDies

Spec == Init /\ [][Next]_vars

\* Both are scheduled, and none of the child's calls blocks.
FairSpec == Spec /\ WF_vars(ParentStep) /\ WF_vars(ChildStep)
-----------------------------------------------------------------------------
TypeOK ==
    /\ parent \in {"fork", "close", "read", "attach", "returned", "failed"}
    /\ child \in {"unborn", "close", "unshare", "signal", "hangup", "secure",
                  "exec", "command", "dead"}
    /\ writers \subseteq {"parent", "child"}
    /\ readers \subseteq {"parent", "child"}
    /\ pipe \in BOOLEAN
    /\ saw \in {"nothing", "byte", "end"}
    /\ spaces \subseteq Namespaces
    /\ security \subseteq {"capabilities", "seccomp"}
    /\ grouped \in BOOLEAN

\* The parent does not touch the child's cgroup, nor return its pid, before
\* the child is isolated or dead, and the command never runs otherwise: the
\* two orders the pipe and the exit after a failed unshare are there for.
IsolatedFirst ==
    /\ parent \in {"attach", "returned"} => spaces = Unshared \/ child = "dead"
    /\ grouped \/ child = "command" => spaces = Unshared

\* A child that is dead, or that never gets to write the byte, does not leave
\* the command waiting for it.
ParentReturns == <>(parent \in {"returned", "failed"})
=============================================================================
