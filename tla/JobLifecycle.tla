---------------------------- MODULE JobLifecycle ----------------------------
(***************************************************************************)
(* The lifecycle of a container on Windows: what create, start, stop,      *)
(* delete (container.rs) and exec (main.rs) do with the container's job    *)
(* object (platform/windows/job.rs, mod.rs) and with the process they      *)
(* spawn suspended, assign to the job and resume (sandbox.rs).  One step   *)
(* per call of the system.                                                 *)
(*                                                                         *)
(* The job has a name, so that all commands that hold a handle share one   *)
(* object; the last handle that closes ends the object, and every process  *)
(* in it if JOB_OBJECT_LIMIT_KILL_ON_JOB_CLOSE is set.  The record of the  *)
(* container is read and written in one step each: ContainerLifecycle has  *)
(* the steps of these.                                                     *)
(***************************************************************************)
EXTENDS Naturals, Sequences, FiniteSets

CONSTANTS
    Clients,    \* commands that may run at the same time
    Procs       \* processes, each used once

VARIABLES
    record,     \* the state in the container's record
    op,         \* the operation each command performs
    path,       \* the steps each command has still to take
    handles,    \* the commands that hold a handle of the job
    limits,     \* what is set on the job object: its resources, kill on
                \* close, its cpu rate, or "warned" when that was refused
    child,      \* the process each command has spawned
    process     \* what has become of each process

jobVars == <<record, op, path, handles, limits, child, process>>

Operation == {"create", "start", "stop", "delete", "exec"}

(* The calls of each command, in their order; create and start set the     *)
(* limits twice.  A container's cpu_percent is not 0 here.                 *)
Launch == <<"spawn", "assign", "resume">>
(* Fault: the process is resumed before it is in the job. *)
ResumedFirst(o) ==
    CASE o = "create" -> <<"open", "limit", "rate", "limit", "rate", "save">>
      [] o = "start" -> <<"open", "limit", "rate", "limit", "rate", "spawn", "resume", "assign", "save">>
      [] o = "exec" -> <<"open", "limit", "rate">> \o Launch
      [] o = "stop" -> <<"open", "limit", "rate", "terminate", "save">>
      [] o = "delete" -> <<"open", "limit", "rate", "remove">>
Calls(o) ==
    CASE o = "create" -> <<"open", "limit", "rate", "limit", "rate", "save">>
      [] o = "start" -> <<"open", "limit", "rate", "limit", "rate">> \o Launch \o <<"save">>
      [] o = "exec" -> <<"open", "limit", "rate">> \o Launch
      [] o = "stop" -> <<"open", "limit", "rate", "terminate", "save">>
      [] o = "delete" -> <<"open", "limit", "rate", "remove">>

Admits(o) ==
    CASE o = "create" -> record = "absent"
      [] o \in {"stop", "exec"} -> record = "running"
      [] OTHER -> record \notin {"absent", "running"}

(* Fault: the record names the operation, not the state it leads to. *)
SavedAs(o) == o
Saved(o) == CASE o = "create" -> "created" [] o = "start" -> "running" [] o = "stop" -> "stopped"

Unborn == [state |-> "none", job |-> "out"]
Alive(p) == process[p].state \in {"suspended", "running"}

JobInit ==
    /\ record = "absent"
    /\ op = [c \in Clients |-> "none"]
    /\ path = [c \in Clients |-> <<>>]
    /\ handles = {}
    /\ limits = {}
    /\ child = [c \in Clients |-> {}]
    /\ process = [p \in Procs |-> Unborn]

At(c, call) == path[c] # <<>> /\ Head(path[c]) = call
Proceed(c) == path' = [path EXCEPT ![c] = Tail(@)]

----------------------------------------------------------------------------
(* The system *)

(* Closing the last handle of a job kills what is in it. *)
KilledWith(job) ==
    [p \in Procs |-> IF Alive(p) /\ process[p].job = "in" /\ job
                     THEN [process[p] EXCEPT !.state = "killed"] ELSE process[p]]

Close(c) ==
    /\ handles' = handles \ {c}
    /\ limits' = IF handles' = {} THEN {} ELSE limits
    /\ process' = KilledWith("kill" \in limits /\ c \in handles /\ handles' = {})

(* A process ends by itself, or has a child, which is in the job with it.  *)
ProcessExits(p) ==
    /\ process[p].state = "running"
    /\ process' = [process EXCEPT ![p].state = "exited"]
    /\ UNCHANGED <<record, op, path, handles, limits, child>>

HasChild(p, q) ==
    /\ process[p].state = "running" /\ process[q].state = "none"
    /\ process' = [process EXCEPT ![q] = process[p]]
    /\ UNCHANGED <<record, op, path, handles, limits, child>>

----------------------------------------------------------------------------
(* The commands *)

Invoke(c, o) ==
    /\ path[c] = <<>> /\ c \notin handles
    /\ Admits(o)
    /\ op' = [op EXCEPT ![c] = o]
    /\ path' = [path EXCEPT ![c] = Calls(o)]
    /\ UNCHANGED <<record, handles, limits, child, process>>

Open(c) ==
    /\ At(c, "open")
    /\ Proceed(c)
    /\ handles' = handles \union {c}
    /\ UNCHANGED <<record, op, limits, child, process>>

(* Fault: the job is limited in memory and processes only. *)
NoKillOnClose(c) ==
    /\ At(c, "limit")
    /\ Proceed(c)
    /\ limits' = (limits \ {"kill"}) \union {"resources"}
    /\ UNCHANGED <<record, op, handles, child, process>>

(* Memory, number of processes and kill on close go to the job in one call.*)
SetExtendedLimits(c) ==
    /\ At(c, "limit")
    /\ Proceed(c)
    /\ limits' = limits \union {"resources", "kill"}
    /\ UNCHANGED <<record, op, handles, child, process>>

(* Of the cpu rate a failure is a warning: the command goes on without it. *)
SetCpuRate(c) ==
    /\ At(c, "rate")
    /\ Proceed(c)
    /\ \E outcome \in {"cpu", "warned"} : limits' = limits \union {outcome}
    /\ UNCHANGED <<record, op, handles, child, process>>

(* With a restricted token, or without one when there is none to be had.   *)
CreateSuspended(c, p) ==
    /\ At(c, "spawn")
    /\ process[p] = Unborn
    /\ Proceed(c)
    /\ child' = [child EXCEPT ![c] = {p}]
    /\ process' = [process EXCEPT ![p].state = "suspended"]
    /\ UNCHANGED <<record, op, handles, limits>>

(* A failure is a warning and nothing else. *)
Assign(c) ==
    /\ At(c, "assign")
    /\ Proceed(c)
    /\ \E into \in {"in", "failed"}, p \in child[c] : process' = [process EXCEPT ![p].job = into]
    /\ UNCHANGED <<record, op, handles, limits, child>>

(* What was killed meanwhile stays dead; the result is not looked at.      *)
Resume(c) ==
    /\ At(c, "resume")
    /\ Proceed(c)
    /\ \E p \in child[c] :
        process' = [process EXCEPT ![p].state = IF @ = "suspended" THEN "running" ELSE @]
    /\ UNCHANGED <<record, op, handles, limits, child>>

(* stop never looks at the pid it has read: there is always a job. *)
Terminate(c) ==
    /\ At(c, "terminate")
    /\ Proceed(c)
    /\ process' = KilledWith(TRUE)
    /\ UNCHANGED <<record, op, handles, limits, child>>

Save(c) ==
    /\ At(c, "save")
    /\ Proceed(c)
    /\ record' = Saved(op[c])
    /\ UNCHANGED <<op, handles, limits, child, process>>

Remove(c) ==
    /\ At(c, "remove")
    /\ Proceed(c)
    /\ record' = "absent"
    /\ UNCHANGED <<op, handles, limits, child, process>>

(* A command that has made its calls returns; one whose call fails returns *)
(* with an error; one may be killed.  All three drop the job.              *)
End(c, how) ==
    /\ \/ how = "done" /\ path[c] = <<>> /\ c \in handles
       \/ how = "failed" /\ path[c] # <<>> /\ Head(path[c]) \notin {"rate", "assign", "resume"}
       \/ how = "killed" /\ path[c] # <<>>
    /\ path' = [path EXCEPT ![c] = <<>>]
    /\ op' = [op EXCEPT ![c] = "none"]
    /\ child' = [child EXCEPT ![c] = {}]
    /\ Close(c)
    /\ UNCHANGED record

JobNext ==
    \/ \E c \in Clients :
        \/ \E o \in Operation : Invoke(c, o)
        \/ Open(c) \/ SetExtendedLimits(c) \/ SetCpuRate(c)
        \/ Assign(c) \/ Resume(c) \/ Terminate(c) \/ Save(c) \/ Remove(c)
        \/ \E p \in Procs : CreateSuspended(c, p)
        \/ \E how \in {"done", "failed", "killed"} : End(c, how)
    \/ \E p, q \in Procs : HasChild(p, q)
    \/ \E p \in Procs : ProcessExits(p)

JobSpec == JobInit /\ [][JobNext]_jobVars

----------------------------------------------------------------------------
(* Properties *)

CallNames == {"open", "limit", "rate", "spawn", "assign", "resume", "terminate", "save", "remove"}

JobTypeOK ==
    /\ record \in {"absent", "created", "running", "stopped"}
    /\ op \in [Clients -> Operation \union {"none"}]
    /\ path \in [Clients -> Seq(CallNames)]
    /\ handles \subseteq Clients
    /\ limits \subseteq {"resources", "kill", "cpu", "warned"}
    /\ child \in [Clients -> SUBSET Procs]
    /\ process \in [Procs -> [state: {"none", "suspended", "running", "exited", "killed"},
                              job: {"out", "in", "failed"}]]

(* No instruction of a container's process or of its children is executed  *)
(* outside the job or in a job that lacks one of the container's limits,   *)
(* whatever other commands open and close the job meanwhile -- unless the  *)
(* command has printed a warning: that the assignment to the job failed,   *)
(* or, of the cpu rate alone, that the job did not take it.                *)
RunsLimited ==
    \A p \in Procs : process[p].state = "running" =>
        /\ process[p].job # "out"
        /\ process[p].job = "in" =>
              "resources" \in limits /\ ("cpu" \in limits \/ "warned" \in limits)

(* What has been put into the job ends with the last command that holds    *)
(* the job.  Of a killed command a process may remain that will never run. *)
NothingOutlives ==
    handles = {} => \A p \in Procs :
        Alive(p) => process[p].job = "failed" \/ process[p].state = "suspended"

(* "Container '...' started with PID ..." (container.rs:152): when no      *)
(* command is at work on a container whose record says running, a process  *)
(* of it lives, or has ended by itself.                                    *)
StartedStaysUp ==
    record = "running" /\ (\A c \in Clients : op[c] = "none") =>
        \E p \in Procs : process[p].state \in {"running", "exited"}

=============================================================================
