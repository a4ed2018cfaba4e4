------------------------- MODULE ContainerLifecycle -------------------------
(***************************************************************************)
(* The lifecycle of containers on Linux: create, start, stop, delete and   *)
(* exec (src/src/container.rs, src/src/main.rs), the state file they share *)
(* (src/src/config.rs), the cgroup (platform/linux/cgroup.rs) and the      *)
(* processes (platform/linux/mod.rs).                                      *)
(*                                                                         *)
(* There is no daemon and no lock.  Every command is an operating system   *)
(* process of its own, a client here, and it shares with the others the    *)
(* directory /var/lib/holycontainer/containers/<name>, the cgroup          *)
(* directory of that name and the kernel's process table.  A step of a     *)
(* client is one system call that the others can observe, or several that  *)
(* they cannot tell apart; the steps of one command happen in the order of *)
(* After, and the steps of several commands interleave freely.             *)
(*                                                                         *)
(* A command that returns an error before its first change leaves no trace *)
(* and is therefore a guard of Create or Load that is false.  A command    *)
(* that is killed, or whose system call fails half way, is Abort.          *)
(***************************************************************************)
EXTENDS FiniteSets

CONSTANTS
    Clients,        \* the commands that can be in flight at the same time
    Names,          \* container names
    Pids,           \* process identifiers the kernel can hand out
    NoName, NoPid,  \* "no container"; the pid field's 0
    CgroupsUsable,  \* FALSE on a host where mkdir under /sys/fs/cgroup fails
    PidReuse        \* whether the kernel hands a dead process's pid out again

ASSUME NullAssumption == NoName \notin Names /\ NoPid \notin Pids
ASSUME HostAssumption == CgroupsUsable \in BOOLEAN /\ PidReuse \in BOOLEAN

VARIABLES
    dir,        \* dir[c]: the state directory of c exists
    conf,       \* conf[c]: the content of its file "config"
    link,       \* link[c]: its file "rootfs_path" exists
    cgroup,     \* cgroup[c]: the cgroup directory of c and its limits
    procs,      \* the process table
    cli,        \* the clients
    warned,     \* history: warned[c], the last start of c has printed a warning
                \* about its cgroup
    disturbed   \* history: disturbed[c], two commands on c overlapped or one
                \* of them was aborted

vars == <<dir, conf, link, cgroup, procs, cli, warned, disturbed>>
-----------------------------------------------------------------------------
(***************************************************************************)
(* Values.                                                                 *)
(***************************************************************************)
ContainerState == {"created", "running", "stopped"}

\* What a config file can hold, as ContainerConfig::load sees it: nothing
\* there, an empty file (truncated, not yet written), the mixture two writers
\* leave, or a configuration.
Config == [state : ContainerState \cup {"none", "empty", "garbled"},
           pid   : Pids \cup {NoPid}]

NoConf  == [state |-> "none",    pid |-> NoPid]
Empty   == [state |-> "empty",   pid |-> NoPid]
Garbled == [state |-> "garbled", pid |-> NoPid]
Fresh   == [state |-> "created", pid |-> NoPid]
Halted  == [state |-> "stopped", pid |-> NoPid]

\* Faults: start that saves a state name no loader knows, and start that
\* forgets to save the pid.
RunningMisspelt(p) == [state |-> "Running", pid |-> p]
RunningWithoutPid(p) == [state |-> "running", pid |-> NoPid]

Running(p) == [state |-> "running", pid |-> p]

\* A process: the container it was spawned for, whether it is the one "start"
\* spawned, the one "exec" spawned or a descendant, and its cgroup: the one of
\* the shell that ran the command, the container's, or the common parent.
Process == [status : {"free", "alive", "dead"},
            owner  : Names \cup {NoName},
            role   : {"none", "init", "exec", "child"},
            group  : {"host", "own", "parent"}]

NoProcess == [status |-> "free", owner |-> NoName, role |-> "none",
              group |-> "host"]

Operation == {"create", "start", "stop", "delete", "exec"}

\* The order of the steps of each command.
After ==
    [create |-> [isolate |-> "limit", limit |-> "mkdir", mkdir |-> "truncate",
                 truncate |-> "write", write |-> "link", link |-> "drain",
                 drain |-> "rmcgroup", rmcgroup |-> "idle"],
     start  |-> [isolate |-> "limit", limit |-> "fork", fork |-> "attach",
                 attach |-> "mkdir", mkdir |-> "truncate",
                 truncate |-> "write", write |-> "idle"],
     stop   |-> [isolate |-> "term", term |-> "kill", kill |-> "mkdir",
                 mkdir |-> "truncate", truncate |-> "write",
                 write |-> "drain", drain |-> "rmcgroup",
                 rmcgroup |-> "idle"],
     delete |-> [isolate |-> "drain", drain |-> "rmcgroup",
                 rmcgroup |-> "unlink", unlink |-> "rmdir",
                 rmdir |-> "idle"],
     exec   |-> [isolate |-> "fork", fork |-> "attach", attach |-> "idle"]]

Step == {"idle", "isolate", "limit", "mkdir", "truncate", "write", "link",
         "drain", "rmcgroup", "fork", "attach", "term", "kill", "unlink",
         "rmdir"}

\* A client: its command, the step it does next, the container it works on,
\* its copy of the configuration, the pid fork returned to it, and its open
\* config file, which is stale once that file has been unlinked.
Client == [op : Operation \cup {"none"}, pc : Step, name : Names \cup {NoName},
           cfg : Config, child : Pids \cup {NoPid},
           fd : {"closed", "open", "stale"}]

Idle == [op |-> "none", pc |-> "idle", name |-> NoName, cfg |-> NoConf,
         child |-> NoPid, fd |-> "closed"]

Busy(cl, c) == cli[cl].pc # "idle" /\ cli[cl].name = c

Quiet(c) == \A cl \in Clients : ~Busy(cl, c)

Members(c) == {p \in Pids : /\ procs[p].status = "alive"
                            /\ procs[p].owner = c
                            /\ procs[p].group = "own"}

FreePids == {p \in Pids : \/ procs[p].status = "free"
                          \/ PidReuse /\ procs[p].status = "dead"}
-----------------------------------------------------------------------------
Init ==
    /\ dir = [c \in Names |-> FALSE]
    /\ conf = [c \in Names |-> NoConf]
    /\ link = [c \in Names |-> FALSE]
    /\ cgroup = [c \in Names |-> "none"]
    /\ procs = [p \in Pids |-> NoProcess]
    /\ cli = [cl \in Clients |-> Idle]
    /\ warned = [c \in Names |-> FALSE]
    /\ disturbed = [c \in Names |-> FALSE]

(***************************************************************************)
(* Control flow of a client.                                               *)
(***************************************************************************)
At(cl, step) == cli[cl].pc = step

\* Client cl, now in local state r, goes on to its next step or returns.
Proceed(cl, r) ==
    LET next == After[r.op][r.pc]
    IN  cli' = [cli EXCEPT ![cl] = IF next = "idle" THEN Idle
                                   ELSE [r EXCEPT !.pc = next]]

Enter(cl, o, c, cfg) ==
    /\ At(cl, "idle")
    /\ cli' = [cli EXCEPT ![cl] =
                  [op |-> o, pc |-> "isolate", name |-> c, cfg |-> cfg,
                   child |-> NoPid, fd |-> "closed"]]
    /\ disturbed' = [disturbed EXCEPT ![c] = @ \/ ~Quiet(c)]
    /\ warned' = [warned EXCEPT ![c] = @ /\ o # "start"]
    /\ UNCHANGED <<dir, conf, link, cgroup, procs>>

\* container::create: refuse an existing directory, and set the state.
Create(cl, c) == ~dir[c] /\ Enter(cl, "create", c, Fresh)

\* Faults: start, or delete, does not refuse a container that is running.
AdmittedTwice == [start  |-> ContainerState, stop |-> {"running"},
                  delete |-> {"created", "stopped"}, exec |-> {"running"}]
AdmittedToDelete == [start  |-> {"created", "stopped"}, stop |-> {"running"},
                     delete |-> ContainerState, exec |-> {"running"}]

\* The states in which each of the other commands goes ahead.
Admitted == [start  |-> {"created", "stopped"}, stop |-> {"running"},
             delete |-> {"created", "stopped"}, exec |-> {"running"}]

\* container::start, stop and delete and cmd_exec: load the configuration,
\* refuse a missing or unreadable one and a wrong state.
Load(cl, o, c) ==
    /\ dir[c]
    /\ conf[c].state \in Admitted[o]
    /\ Enter(cl, o, c, conf[c])

\* The command is killed, or one of its calls fails and the ? operator
\* returns: whatever it has done stays.
Abort(cl) ==
    /\ ~At(cl, "idle")
    /\ disturbed' = [disturbed EXCEPT ![cli[cl].name] = TRUE]
    /\ cli' = [cli EXCEPT ![cl] = Idle]
    /\ UNCHANGED <<dir, conf, link, cgroup, procs, warned>>

(***************************************************************************)
(* The cgroup.                                                             *)
(***************************************************************************)
\* Client cl prints a warning if bad; those of start are remembered.
Warn(cl, bad) ==
    warned' = [warned EXCEPT ![cli[cl].name] = @ \/ (bad /\ cli[cl].op = "start")]

\* create_isolation: mkdir -p; a failure is only a warning.
Isolate(cl) ==
    LET c == cli[cl].name IN
    /\ At(cl, "isolate")
    /\ cgroup' = [cgroup EXCEPT ![c] = IF CgroupsUsable /\ @ = "none"
                                       THEN "bare" ELSE @]
    /\ Warn(cl, ~CgroupsUsable)
    /\ Proceed(cl, cli[cl])
    /\ UNCHANGED <<dir, conf, link, procs, disturbed>>

\* What the writes of the limit files leave when one of them has failed: on a
\* new cgroup a limit is missing, on an older one it may have been there.
Partly(g) == IF ~CgroupsUsable THEN {g}
             ELSE IF g = "none" THEN {"bare"} ELSE {g, "limited"}

\* Fault: the limits are set only on a cgroup that did not exist.
LimitNewOnly(cl) ==
    LET c == cli[cl].name IN
    /\ At(cl, "limit")
    /\ cgroup' = [cgroup EXCEPT ![c] = IF CgroupsUsable /\ @ = "none"
                                       THEN "limited" ELSE @]
    /\ Warn(cl, ~CgroupsUsable)
    /\ Proceed(cl, cli[cl])
    /\ UNCHANGED <<dir, conf, link, procs, disturbed>>

\* set_resource_limits: mkdir -p again, then memory.max, cpu.max and pids.max.
\* Each write may fail, which is only a warning.
Limit(cl) ==
    LET c == cli[cl].name IN
    /\ At(cl, "limit")
    /\ \E failed \in {~CgroupsUsable, TRUE} :
          /\ \E g \in IF failed THEN Partly(cgroup[c]) ELSE {"limited"} :
                cgroup' = [cgroup EXCEPT ![c] = g]
          /\ Warn(cl, failed)
    /\ Proceed(cl, cli[cl])
    /\ UNCHANGED <<dir, conf, link, procs, disturbed>>

\* remove_cgroup, first half: write every member to the parent's
\* cgroup.procs.  The kernel refuses the writes when the parent has domain
\* controllers enabled, and the code ignores that.
Drain(cl) ==
    LET c == cli[cl].name IN
    /\ At(cl, "drain")
    /\ \E moved \in {{}, Members(c)} :
          procs' = [p \in Pids |-> IF p \in moved
                                   THEN [procs[p] EXCEPT !.group = "parent"]
                                   ELSE procs[p]]
    /\ Proceed(cl, cli[cl])
    /\ UNCHANGED <<dir, conf, link, cgroup, warned, disturbed>>

\* remove_cgroup, second half: rmdir fails, silently, while it has members.
RemoveCgroup(cl) ==
    LET c == cli[cl].name IN
    /\ At(cl, "rmcgroup")
    /\ cgroup' = [cgroup EXCEPT ![c] = IF Members(c) = {} THEN "none" ELSE @]
    /\ Proceed(cl, cli[cl])
    /\ UNCHANGED <<dir, conf, link, procs, warned, disturbed>>

(***************************************************************************)
(* The processes.                                                          *)
(***************************************************************************)
\* spawn_process up to the return of fork.  start then sets state and pid.
Fork(cl) ==
    LET r == cli[cl] IN
    /\ At(cl, "fork")
    /\ \E p \in FreePids :
          /\ procs' = [procs EXCEPT ![p] =
                          [status |-> "alive", owner |-> r.name,
                           role |-> IF r.op = "start" THEN "init" ELSE "exec",
                           group |-> "host"]]
          /\ Proceed(cl, [r EXCEPT !.child = p,
                                   !.cfg = IF r.op = "start" THEN Running(p)
                                           ELSE @])
    /\ UNCHANGED <<dir, conf, link, cgroup, warned, disturbed>>

\* cgroup::add_process: nothing when the cgroup is missing.  The write to
\* cgroup.procs fails when the process is gone, and may fail otherwise, which
\* is only a warning.
Attach(cl) ==
    LET r == cli[cl]
        exists == cgroup[r.name] # "none"
    IN
    /\ At(cl, "attach")
    /\ \E joins \in {FALSE, exists /\ procs[r.child].status = "alive"} :
          /\ procs' = IF joins THEN [procs EXCEPT ![r.child].group = "own"]
                      ELSE procs
          /\ Warn(cl, exists /\ ~joins)
    /\ Proceed(cl, r)
    /\ UNCHANGED <<dir, conf, link, cgroup, disturbed>>

\* The process table once the processes in gone have died.
Reap(gone) == [p \in Pids |-> IF p \in gone /\ procs[p].status = "alive"
                              THEN [procs[p] EXCEPT !.status = "dead",
                                                    !.group = "host"]
                              ELSE procs[p]]

\* stop_container: SIGTERM to the recorded pid, which may survive it.
Term(cl) ==
    /\ At(cl, "term")
    /\ \E gone \in {{}, {cli[cl].cfg.pid}} : procs' = Reap(gone)
    /\ Proceed(cl, cli[cl])
    /\ UNCHANGED <<dir, conf, link, cgroup, warned, disturbed>>

\* Fault: no SIGKILL after SIGTERM.
KillOmitted(cl) ==
    /\ At(cl, "kill")
    /\ Proceed(cl, [cli[cl] EXCEPT !.cfg = Halted])
    /\ UNCHANGED <<dir, conf, link, cgroup, procs, warned, disturbed>>

\* stop_container, two seconds later: SIGKILL if it is still alive.  stop then
\* clears state and pid.
Kill(cl) ==
    /\ At(cl, "kill")
    /\ procs' = Reap({cli[cl].cfg.pid})
    /\ Proceed(cl, [cli[cl] EXCEPT !.cfg = Halted])
    /\ UNCHANGED <<dir, conf, link, cgroup, warned, disturbed>>

\* A process ends by itself.
Exit(p) ==
    /\ procs[p].status = "alive"
    /\ procs' = Reap({p})
    /\ UNCHANGED <<dir, conf, link, cgroup, cli, warned, disturbed>>

\* A process in a container forks; the child inherits its cgroup.
Spawn(p) ==
    /\ procs[p].status = "alive"
    /\ \E q \in FreePids :
          procs' = [procs EXCEPT ![q] = [procs[p] EXCEPT !.role = "child"]]
    /\ UNCHANGED <<dir, conf, link, cgroup, cli, warned, disturbed>>

(***************************************************************************)
(* The state directory.                                                    *)
(***************************************************************************)
\* ContainerConfig::save: create_dir_all.
Mkdir(cl) ==
    /\ At(cl, "mkdir")
    /\ dir' = [dir EXCEPT ![cli[cl].name] = TRUE]
    /\ Proceed(cl, cli[cl])
    /\ UNCHANGED <<conf, link, cgroup, procs, warned, disturbed>>

\* ContainerConfig::save: fs::write opens with O_CREAT and O_TRUNC.
Truncate(cl) ==
    LET c == cli[cl].name IN
    /\ At(cl, "truncate")
    /\ dir[c]
    /\ conf' = [conf EXCEPT ![c] = Empty]
    /\ Proceed(cl, [cli[cl] EXCEPT !.fd = "open"])
    /\ UNCHANGED <<dir, link, cgroup, procs, warned, disturbed>>

\* ContainerConfig::save: fs::write writes from offset 0.  What another
\* writer put there meanwhile is overwritten, and may stick out at the end.
Write(cl) ==
    LET r == cli[cl] IN
    /\ At(cl, "write")
    /\ \E new \in IF r.fd = "stale" THEN {conf[r.name]}
                  ELSE IF conf[r.name] = Empty THEN {r.cfg}
                  ELSE {r.cfg, Garbled} :
          conf' = [conf EXCEPT ![r.name] = new]
    /\ Proceed(cl, [r EXCEPT !.fd = "closed"])
    /\ UNCHANGED <<dir, link, cgroup, procs, warned, disturbed>>

\* container::create: fs::write of the file rootfs_path.
Link(cl) ==
    LET c == cli[cl].name IN
    /\ At(cl, "link")
    /\ dir[c]
    /\ link' = [link EXCEPT ![c] = TRUE]
    /\ Proceed(cl, cli[cl])
    /\ UNCHANGED <<dir, conf, cgroup, procs, warned, disturbed>>

\* container::delete: remove_dir_all unlinks the files it lists.  A config
\* file another client holds open is from now on a file without a name.
Unlink(cl) ==
    LET c == cli[cl].name
        orphaned(k) == k # cl /\ cli[k].name = c /\ cli[k].fd = "open"
    IN
    /\ At(cl, "unlink")
    /\ dir[c]
    /\ conf' = [conf EXCEPT ![c] = NoConf]
    /\ link' = [link EXCEPT ![c] = FALSE]
    /\ cli' = [k \in Clients |->
                  IF k = cl THEN [cli[k] EXCEPT !.pc = "rmdir"]
                  ELSE IF orphaned(k) THEN [cli[k] EXCEPT !.fd = "stale"]
                  ELSE cli[k]]
    /\ UNCHANGED <<dir, cgroup, procs, warned, disturbed>>

\* Fault: only the files are removed.
RmdirOmitted(cl) ==
    /\ At(cl, "rmdir")
    /\ Proceed(cl, cli[cl])
    /\ UNCHANGED <<dir, conf, link, cgroup, procs, warned, disturbed>>

\* container::delete: the directory itself, which is kept when a file has
\* appeared in it since.
Rmdir(cl) ==
    LET c == cli[cl].name IN
    /\ At(cl, "rmdir")
    /\ dir' = [dir EXCEPT ![c] = @ /\ ~(conf[c] = NoConf /\ ~link[c])]
    /\ Proceed(cl, cli[cl])
    /\ UNCHANGED <<conf, link, cgroup, procs, warned, disturbed>>
-----------------------------------------------------------------------------
\* The call of the client's next step cannot succeed, so that it returns.
MustFail(cl) ==
    /\ \/ At(cl, "fork") /\ FreePids = {}
       \/ cli[cl].pc \in {"truncate", "link", "unlink"} /\ ~dir[cli[cl].name]
    /\ Abort(cl)

\* What a command that has been started does without outside help.
Work(cl) ==
    \/ Isolate(cl) \/ Limit(cl) \/ Drain(cl) \/ RemoveCgroup(cl)
    \/ Fork(cl) \/ Attach(cl) \/ Term(cl) \/ Kill(cl)
    \/ Mkdir(cl) \/ Truncate(cl) \/ Write(cl) \/ Link(cl)
    \/ Unlink(cl) \/ Rmdir(cl) \/ MustFail(cl)

Invoke(cl) == \E c \in Names : \/ Create(cl, c)
                               \/ \E o \in DOMAIN Admitted : Load(cl, o, c)

Next ==
    \/ \E cl \in Clients : Invoke(cl) \/ Work(cl) \/ Abort(cl)
    \/ \E p \in Pids : Exit(p) \/ Spawn(p)

Spec == Init /\ [][Next]_vars

\* The operating system schedules every command that runs; nobody has to
\* start one, and a process in a container does as it likes.
Fairness == \A cl \in Clients : WF_vars(Work(cl))

FairSpec == Spec /\ Fairness
-----------------------------------------------------------------------------
TypeOK ==
    /\ dir \in [Names -> BOOLEAN]
    /\ conf \in [Names -> Config]
    /\ link \in [Names -> BOOLEAN]
    /\ cgroup \in [Names -> {"none", "bare", "limited"}]
    /\ procs \in [Pids -> Process]
    /\ cli \in [Clients -> Client]
    /\ warned \in [Names -> BOOLEAN]
    /\ disturbed \in [Names -> BOOLEAN]
-----------------------------------------------------------------------------
(***************************************************************************)
(* What "ps" prints: a container recorded as running whose process no      *)
(* longer answers signal 0 is shown as dead, and the record is left alone. *)
(***************************************************************************)
Reported(c) ==
    IF conf[c].state = "running" /\ procs[conf[c].pid].status # "alive"
    THEN "dead" ELSE conf[c].state

LiveInits(c) == {p \in Pids : /\ procs[p].status = "alive"
                              /\ procs[p].owner = c
                              /\ procs[p].role = "init"}

Settled(c) == Quiet(c) /\ ~disturbed[c]

(***************************************************************************)
(* Safety.                                                                 *)
(***************************************************************************)
\* Between commands that did not overlap and were not aborted, ps tells the
\* truth: the processes that "start" spawned for a container and that still
\* live are exactly the one recorded in a container that ps reports as
\* running.  None is lost, none is started twice, none outlives "stop".
PsTruthful ==
    \A c \in Names : Settled(c) =>
        LiveInits(c) = IF Reported(c) = "running" THEN {conf[c].pid} ELSE {}

\* Between such commands a state directory is never left without a readable
\* configuration, which every command but create needs and which create
\* refuses to replace: the name would be unusable for good.
RecordUsable ==
    \A c \in Names : Settled(c) => (dir[c] <=> conf[c].state \in ContainerState)

\* Between such commands the process of a running container is in the
\* container's cgroup and all of its limits are set there, unless the start
\* that spawned it printed a warning: none runs unconfined in silence, although
\* create removes the cgroup again, stop and exec recreate it without limits,
\* rmdir may leave an old one, and every write to it may fail.
Confined ==
    \A c \in Names : Settled(c) /\ LiveInits(c) # {} =>
        \/ warned[c]
        \/ /\ cgroup[c] = "limited"
           /\ \A p \in LiveInits(c) : procs[p].group = "own"

\* In every interleaving, crashes and races included, the pid that stop is
\* about to signal is not 0 (kill(0) would signal the caller's own process
\* group) and belongs to a process that start spawned for that container.
SignalsOwnProcess ==
    \A cl \in Clients : cli[cl].pc \in {"term", "kill"} =>
        /\ cli[cl].cfg.pid \in Pids
        /\ procs[cli[cl].cfg.pid].owner = cli[cl].name
        /\ procs[cli[cl].cfg.pid].role = "init"

(***************************************************************************)
(* Liveness.                                                               *)
(***************************************************************************)
\* A stop that gets as far as SIGTERM ends the recorded process, also one
\* that ignores SIGTERM, unless the command itself is aborted.
StopEndsProcess ==
    \A cl \in Clients, c \in Names, p \in Pids :
        (Busy(cl, c) /\ At(cl, "term") /\ cli[cl].cfg.pid = p)
            ~> (procs[p].status # "alive" \/ disturbed[c])

(***************************************************************************)
(* What a comment in the source says and the code does not keep.           *)
(***************************************************************************)
\* container.rs, delete: "must be stopped first".  The record of a running
\* container is not removed.
DeletesOnlyStopped ==
    [][\A c \in Names : conf[c].state = "running" => conf'[c] # NoConf]_vars
=============================================================================
