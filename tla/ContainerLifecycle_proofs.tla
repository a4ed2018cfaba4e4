---------------------- MODULE ContainerLifecycle_proofs ----------------------
(***************************************************************************)
(* Proofs about ContainerLifecycle, for any number of commands, containers *)
(* and processes: its types, what stop signals, the record of a container, *)
(* that it implements Lifecycle, and the processes and the cgroup.         *)
(***************************************************************************)
EXTENDS LifecycleRefinement, TLAPS

\* A client that is not idle runs one of the five commands, is at one of that
\* command's steps and works on a container: After[op][pc] is then a step.
ClientOK(r) ==
    /\ r \in Client
    /\ r # Idle => /\ r.op \in Operation
                   /\ r.pc \in DOMAIN After[r.op]
                   /\ r.name \in Names

WellFormed == TypeOK /\ \A cl \in Clients : ClientOK(cli[cl])

-----------------------------------------------------------------------------
(***************************************************************************)
(* The table of steps leads from a step to a step.                         *)
(***************************************************************************)
LEMMA AfterStep ==
    ASSUME NEW o \in Operation, NEW s \in DOMAIN After[o]
    PROVE  /\ s \in Step \ {"idle"}
           /\ After[o][s] \in Step
           /\ After[o][s] # "idle" => After[o][s] \in DOMAIN After[o]
<1>1. CASE o = "create"  BY <1>1 DEF After, Step
<1>2. CASE o = "start"   BY <1>2 DEF After, Step
<1>3. CASE o = "stop"    BY <1>3 DEF After, Step
<1>4. CASE o = "delete"  BY <1>4 DEF After, Step
<1>5. CASE o = "exec"    BY <1>5 DEF After, Step
<1>6. QED  BY <1>1, <1>2, <1>3, <1>4, <1>5 DEF Operation

\* A client state from which Proceed may be used.
Engaged(r) ==
    /\ r \in Client
    /\ r.op \in Operation
    /\ r.pc \in DOMAIN After[r.op]
    /\ r.name \in Names

LEMMA IdleOK == ClientOK(Idle)
  BY DEF ClientOK, Client, Idle, Step, NoConf, Config

LEMMA WorkingIsEngaged ==
    ASSUME WellFormed, NEW cl \in Clients, ~At(cl, "idle")
    PROVE  Engaged(cli[cl])
  BY DEF WellFormed, ClientOK, Engaged, At, Idle

LEMMA ProceedOK ==
    ASSUME WellFormed, NEW cl \in Clients, NEW r, Engaged(r), Proceed(cl, r)
    PROVE  /\ cli' \in [Clients -> Client]
           /\ \A k \in Clients : ClientOK(cli'[k])
<1> DEFINE next == After[r.op][r.pc]
           moved == [r EXCEPT !.pc = next]
<1>1. next \in Step /\ (next # "idle" => next \in DOMAIN After[r.op])
  BY AfterStep DEF Engaged
<1>2. moved \in Client /\ moved.op = r.op /\ moved.pc = next
                       /\ moved.name = r.name
  BY <1>1 DEF Engaged, Client
<1>3. next # "idle" => ClientOK(moved)
  BY <1>1, <1>2 DEF ClientOK, Engaged
<1>4. cli' = [cli EXCEPT ![cl] = IF next = "idle" THEN Idle ELSE moved]
  BY DEF Proceed
<1>5. cli \in [Clients -> Client] /\ \A k \in Clients : ClientOK(cli[k])
  BY DEF WellFormed, TypeOK
<1> HIDE DEF next, moved
<1>6. \A k \in Clients : ClientOK(cli'[k])
  BY <1>3, <1>4, <1>5, IdleOK
<1>7. cli' \in [Clients -> Client]
  <2>1. Idle \in Client
    BY IdleOK DEF ClientOK
  <2>2. QED
    BY <1>2, <1>4, <1>5, <2>1
<1>8. QED  BY <1>6, <1>7

-----------------------------------------------------------------------------
(***************************************************************************)
(* Type correctness.                                                       *)
(***************************************************************************)
LEMMA RunningIsConfig == \A p \in Pids : Running(p) \in Config
  BY DEF Running, Config, ContainerState

LEMMA ConstantConfigs == {NoConf, Empty, Garbled, Fresh, Halted} \subseteq Config
  BY DEF NoConf, Empty, Garbled, Fresh, Halted, Config, ContainerState

LEMMA ReapType ==
    ASSUME procs \in [Pids -> Process], NEW gone
    PROVE  Reap(gone) \in [Pids -> Process]
  BY DEF Reap, Process

LEMMA InitWellFormed == Init => WellFormed
<1>1. ASSUME Init PROVE TypeOK
  BY <1>1, IdleOK, ConstantConfigs DEF Init, TypeOK, ClientOK, Process, NoProcess
<1>2. ASSUME Init PROVE \A cl \in Clients : ClientOK(cli[cl])
  BY <1>2, IdleOK DEF Init
<1>3. QED  BY <1>1, <1>2 DEF WellFormed

LEMMA EnterOK ==
    ASSUME WellFormed, NEW cl \in Clients, NEW o \in Operation,
           NEW c \in Names, NEW cfg \in Config, Enter(cl, o, c, cfg)
    PROVE  WellFormed'
<1> DEFINE new == [op |-> o, pc |-> "isolate", name |-> c, cfg |-> cfg,
                   child |-> NoPid, fd |-> "closed"]
<1>2. "isolate" \in DOMAIN After[o]
  BY DEF After, Operation
<1>3. new \in Client
  BY DEF Client, Step
<1>4. ClientOK(new)
  BY <1>2, <1>3 DEF ClientOK
<1>5. cli' = [cli EXCEPT ![cl] = new]
  BY DEF Enter
<1> HIDE DEF new
<1>6. \A k \in Clients : ClientOK(cli'[k])
  BY <1>4, <1>5 DEF WellFormed, TypeOK
<1>7. cli' \in [Clients -> Client]
  BY <1>3, <1>5 DEF WellFormed, TypeOK
<1>8. disturbed' \in [Names -> BOOLEAN]
  BY DEF Enter, WellFormed, TypeOK, Quiet
<1>9. QED
  BY <1>6, <1>7, <1>8 DEF Enter, WellFormed, TypeOK, ClientOK

\* A step that changes cli by Proceed, or by returning, keeps its type.
LEMMA ReturnOK ==
    ASSUME WellFormed, NEW cl \in Clients, cli' = [cli EXCEPT ![cl] = Idle]
    PROVE  /\ cli' \in [Clients -> Client]
           /\ \A k \in Clients : ClientOK(cli'[k])
<1>1. Idle \in Client
  BY IdleOK DEF ClientOK
<1>2. QED
  BY <1>1, IdleOK DEF WellFormed, TypeOK

LEMMA UnlinkOK ==
    ASSUME WellFormed, NEW cl \in Clients, Unlink(cl)
    PROVE  /\ cli' \in [Clients -> Client]
           /\ \A k \in Clients : ClientOK(cli'[k])
<1>1. Engaged(cli[cl])
  BY WorkingIsEngaged DEF Unlink, At
<1>2. cli[cl].op = "delete"
  BY <1>1 DEF Unlink, At, Engaged, Operation, After
<1>3. "rmdir" \in DOMAIN After["delete"] /\ "rmdir" \in Step
  BY DEF After, Step
<1>4. ASSUME NEW k \in Clients PROVE ClientOK(cli'[k])
  <2>0. ClientOK(cli[k])
    BY DEF WellFormed
  <2>1. CASE k = cl
    <3>1. cli'[k] = [cli[cl] EXCEPT !.pc = "rmdir"]
      BY <2>1 DEF Unlink
    <3>2. QED
      BY <1>1, <1>2, <1>3, <3>1 DEF Engaged, ClientOK, Client
  <2>2. CASE k # cl /\ cli'[k] = [cli[k] EXCEPT !.fd = "stale"]
                    /\ cli[k].fd = "open"
    BY <2>0, <2>2 DEF ClientOK, Client, Idle
  <2>3. CASE cli'[k] = cli[k]
    BY <2>0, <2>3
  <2>4. QED
    BY <2>1, <2>2, <2>3 DEF Unlink
<1>5. QED
  BY <1>4 DEF ClientOK, Unlink

LEMMA ForkOK ==
    ASSUME WellFormed, NEW cl \in Clients, Fork(cl)
    PROVE  WellFormed'
<1> DEFINE r == cli[cl]
<1>1. Engaged(r)
  BY WorkingIsEngaged DEF Fork, At
<1>2. PICK p \in FreePids :
          /\ procs' = [procs EXCEPT ![p] =
                          [status |-> "alive", owner |-> r.name,
                           role |-> IF r.op = "start" THEN "init" ELSE "exec",
                           group |-> "host"]]
          /\ Proceed(cl, [r EXCEPT !.child = p,
                                   !.cfg = IF r.op = "start" THEN Running(p)
                                           ELSE @])
  BY DEF Fork
<1> DEFINE t == [r EXCEPT !.child = p,
                          !.cfg = IF r.op = "start" THEN Running(p) ELSE @]
<1>3. p \in Pids
  BY DEF FreePids
<1>4. Running(p) \in Config
  BY <1>3, RunningIsConfig
<1>5. Engaged(t)
  BY <1>1, <1>3, <1>4 DEF Engaged, Client
<1>6. cli' \in [Clients -> Client] /\ \A k \in Clients : ClientOK(cli'[k])
  BY <1>2, <1>5, ProceedOK
<1>7. procs' \in [Pids -> Process]
  BY <1>1, <1>2, <1>3 DEF WellFormed, TypeOK, Process, Engaged
<1>8. QED
  BY <1>6, <1>7 DEF Fork, WellFormed, TypeOK

LEMMA WellFormedStep == WellFormed /\ [Next]_vars => WellFormed'
<1> SUFFICES ASSUME WellFormed, [Next]_vars PROVE WellFormed'
  OBVIOUS
<1>a. TypeOK
  BY DEF WellFormed
<1>1. ASSUME NEW cl \in Clients, NEW c \in Names, Create(cl, c)
      PROVE  WellFormed'
  <2>1. Fresh \in Config /\ "create" \in Operation
    BY ConstantConfigs DEF Operation
  <2>2. QED
    BY <1>1, <2>1, EnterOK DEF Create
<1>2. ASSUME NEW cl \in Clients, NEW c \in Names, NEW o \in DOMAIN Admitted,
             Load(cl, o, c)
      PROVE  WellFormed'
  <2>1. conf[c] \in Config
    BY <1>a DEF TypeOK
  <2>2. o \in Operation
    BY DEF Admitted, Operation
  <2>3. QED
    BY <1>2, <2>1, <2>2, EnterOK DEF Load
<1>3. ASSUME NEW cl \in Clients, Abort(cl) PROVE WellFormed'
  BY <1>3, <1>a, ReturnOK DEF Abort, WellFormed, TypeOK
<1>4. ASSUME NEW cl \in Clients, Fork(cl) PROVE WellFormed'
  BY <1>4, ForkOK
<1>5. ASSUME NEW cl \in Clients, Unlink(cl) PROVE WellFormed'
  <2>1. NoConf \in Config
    BY ConstantConfigs
  <2>2. QED
    BY <1>5, <1>a, <2>1, UnlinkOK DEF Unlink, WellFormed, TypeOK
<1>6. ASSUME NEW cl \in Clients, ~At(cl, "idle"), Proceed(cl, cli[cl])
      PROVE  /\ cli' \in [Clients -> Client]
             /\ \A k \in Clients : ClientOK(cli'[k])
  BY <1>6, WorkingIsEngaged, ProceedOK
<1>7. ASSUME NEW cl \in Clients,
             \/ Isolate(cl) \/ Limit(cl) \/ Drain(cl) \/ RemoveCgroup(cl)
             \/ Attach(cl) \/ Term(cl) \/ Mkdir(cl) \/ Link(cl) \/ Rmdir(cl)
      PROVE  WellFormed'
  <2>1. ~At(cl, "idle") /\ Proceed(cl, cli[cl])
    BY <1>7 DEF Isolate, Limit, Drain, RemoveCgroup, Attach, Term, Mkdir, Link,
                Rmdir, At
  <2>2. Engaged(cli[cl])
    BY <2>1, WorkingIsEngaged
  <2>3. cli' \in [Clients -> Client] /\ \A k \in Clients : ClientOK(cli'[k])
    BY <1>6, <2>1
  <2>4. procs' \in [Pids -> Process]
    <3>1. CASE Drain(cl)
      BY <3>1, <1>a DEF Drain, TypeOK, Process
    <3>2. CASE Attach(cl)
      <4>1. \A p \in Pids : [procs[p] EXCEPT !.group = "own"] \in Process
        BY <1>a DEF TypeOK, Process
      <4>2. \/ procs' = procs
            \/ procs' = [procs EXCEPT ![cli[cl].child] =
                                         [procs[cli[cl].child] EXCEPT !.group = "own"]]
        BY <3>2 DEF Attach
      <4>3. QED
        BY <4>1, <4>2, <1>a DEF TypeOK
    <3>3. CASE Term(cl)
      BY <3>3, <1>a, ReapType DEF Term, TypeOK
    <3>4. CASE procs' = procs
      BY <3>4, <1>a DEF TypeOK
    <3>5. QED
      BY <1>7, <3>1, <3>2, <3>3, <3>4 DEF Isolate, Limit, RemoveCgroup, Mkdir,
                                          Link, Rmdir
  <2>5. cgroup' \in [Names -> {"none", "bare", "limited"}]
    <3>1. CASE Limit(cl)
      <4>1. \A g \in {"none", "bare", "limited"} : Partly(g) \subseteq {"none", "bare", "limited"}
        BY DEF Partly
      <4>2. cli[cl].name \in Names
        BY <2>2 DEF Engaged
      <4> QED
        BY <3>1, <4>1, <4>2, <1>a DEF Limit, TypeOK
    <3>2. CASE ~Limit(cl)
      BY <1>7, <1>a, <3>2 DEF Isolate, Drain, RemoveCgroup, Attach, Term, Mkdir,
                              Link, Rmdir, TypeOK
    <3> QED
      BY <3>1, <3>2
  <2>9. warned' \in [Names -> BOOLEAN]
    BY <1>7, <1>a DEF Isolate, Limit, Drain, RemoveCgroup, Attach, Term, Mkdir,
                      Link, Rmdir, TypeOK, Warn
  <2>6. /\ dir' \in [Names -> BOOLEAN]
        /\ link' \in [Names -> BOOLEAN]
    BY <1>7, <1>a DEF Isolate, Limit, Drain, RemoveCgroup, Attach, Term, Mkdir,
                      Link, Rmdir, TypeOK
  <2>7. conf' = conf /\ disturbed' = disturbed
    BY <1>7 DEF Isolate, Limit, Drain, RemoveCgroup, Attach, Term, Mkdir, Link,
                Rmdir
  <2>8. QED
    BY <1>a, <2>3, <2>4, <2>5, <2>6, <2>7, <2>9 DEF WellFormed, TypeOK
<1>8. ASSUME NEW cl \in Clients, Kill(cl) PROVE WellFormed'
  <2>1. Engaged(cli[cl])
    BY <1>8, WorkingIsEngaged DEF Kill, At
  <2>2. Engaged([cli[cl] EXCEPT !.cfg = Halted])
    BY <2>1, ConstantConfigs DEF Engaged, Client
  <2>3. cli' \in [Clients -> Client] /\ \A k \in Clients : ClientOK(cli'[k])
    BY <1>8, <2>2, ProceedOK DEF Kill
  <2>4. QED
    BY <1>8, <1>a, <2>3, ReapType DEF Kill, WellFormed, TypeOK
<1>9. ASSUME NEW cl \in Clients, Truncate(cl) PROVE WellFormed'
  <2>1. Engaged(cli[cl])
    BY <1>9, WorkingIsEngaged DEF Truncate, At
  <2>2. Engaged([cli[cl] EXCEPT !.fd = "open"])
    BY <2>1 DEF Engaged, Client
  <2>3. cli' \in [Clients -> Client] /\ \A k \in Clients : ClientOK(cli'[k])
    BY <1>9, <2>2, ProceedOK DEF Truncate
  <2>4. conf' \in [Names -> Config]
    BY <1>9, <1>a, ConstantConfigs DEF Truncate, TypeOK
  <2>5. QED
    BY <1>9, <1>a, <2>3, <2>4 DEF Truncate, WellFormed, TypeOK
<1>10. ASSUME NEW cl \in Clients, Write(cl) PROVE WellFormed'
  <2>1. Engaged(cli[cl])
    BY <1>10, WorkingIsEngaged DEF Write, At
  <2>2. Engaged([cli[cl] EXCEPT !.fd = "closed"])
    BY <2>1 DEF Engaged, Client
  <2>3. cli' \in [Clients -> Client] /\ \A k \in Clients : ClientOK(cli'[k])
    BY <1>10, <2>2, ProceedOK DEF Write
  <2>4. {conf[cli[cl].name], cli[cl].cfg, Garbled} \subseteq Config
    BY <1>a, <2>1, ConstantConfigs DEF TypeOK, Engaged, Client
  <2>5. conf' \in [Names -> Config]
    <3>1. PICK new \in {conf[cli[cl].name], cli[cl].cfg, Garbled} :
             conf' = [conf EXCEPT ![cli[cl].name] = new]
      BY <1>10 DEF Write
    <3> QED
      BY <1>a, <2>4, <3>1 DEF TypeOK
  <2>6. QED
    BY <1>10, <1>a, <2>3, <2>5 DEF Write, WellFormed, TypeOK
<1>11. ASSUME NEW p \in Pids, Exit(p) PROVE WellFormed'
  BY <1>11, <1>a, ReapType DEF Exit, WellFormed, TypeOK
<1>12. ASSUME NEW p \in Pids, Spawn(p) PROVE WellFormed'
  <2>1. [procs[p] EXCEPT !.role = "child"] \in Process
    BY <1>a DEF TypeOK, Process
  <2>2. QED
    BY <1>12, <1>a, <2>1 DEF Spawn, WellFormed, TypeOK
<1>13. CASE UNCHANGED vars
  BY <1>13, <1>a DEF vars, WellFormed, TypeOK
<1>14. QED
  BY <1>1, <1>2, <1>3, <1>4, <1>5, <1>7, <1>8, <1>9, <1>10, <1>11, <1>12,
     <1>13 DEF Next, Invoke, Work, MustFail

\* Type correctness: in particular every record in a state file and every copy
\* of it in a command is one that some command wrote.
THEOREM TypeCorrect == Spec => []TypeOK
<1>1. WellFormed => TypeOK
  BY DEF WellFormed
<1>2. QED
  BY <1>1, InitWellFormed, WellFormedStep, PTL DEF Spec

-----------------------------------------------------------------------------
(***************************************************************************)
(* The pid that stop signals.  A pid travels from fork into the command's  *)
(* copy of the configuration, from there into the config file, from there  *)
(* into another command's copy, and from there into kill.  On this way it  *)
(* keeps naming a process that start spawned for the container, provided   *)
(* that the kernel does not hand the pid out a second time.                *)
(***************************************************************************)
IsInit(table, p, c) == /\ p \in Pids
                       /\ table[p].status # "free"
                       /\ table[p].owner = c
                       /\ table[p].role = "init"

\* What is recorded as running, in a file or in a command's copy.
Genuine(table, cfg, c) == cfg.state = "running" => IsInit(table, cfg.pid, c)

FilesGenuine == \A c \in Names : Genuine(procs, conf[c], c)

CopiesGenuine == \A cl \in Clients :
    ~At(cl, "idle") => Genuine(procs, cli[cl].cfg, cli[cl].name)

\* stop goes on only from a running container.
StopsRunning == \A cl \in Clients :
    cli[cl].op = "stop" /\ cli[cl].pc \in {"isolate", "term", "kill"}
        => cli[cl].cfg.state = "running"

PidInv == WellFormed /\ FilesGenuine /\ CopiesGenuine /\ StopsRunning

\* Only stop signals.
LEMMA PidInvImplies == PidInv => SignalsOwnProcess
<1> SUFFICES ASSUME PidInv, NEW cl \in Clients, cli[cl].pc \in {"term", "kill"}
             PROVE  IsInit(procs, cli[cl].cfg.pid, cli[cl].name)
  BY DEF SignalsOwnProcess, IsInit
<1>1. ~At(cl, "idle")
  BY DEF At
<1>2. Engaged(cli[cl])
  BY <1>1, WorkingIsEngaged DEF PidInv
<1>3. cli[cl].op = "stop"
  BY <1>2 DEF Engaged, Operation, After
<1>4. QED
  BY <1>1, <1>3 DEF PidInv, StopsRunning, CopiesGenuine, Genuine

LEMMA InitPidInv == Init => PidInv
<1> SUFFICES ASSUME Init PROVE PidInv
  OBVIOUS
<1>1. FilesGenuine
  BY DEF Init, FilesGenuine, Genuine, NoConf
<1>2. CopiesGenuine /\ StopsRunning
  BY DEF Init, CopiesGenuine, StopsRunning, At, Idle
<1>3. QED
  BY <1>1, <1>2, InitWellFormed DEF PidInv

\* While pids are not reused, no step takes a process's identity away.
LEMMA InitsStay ==
    ASSUME WellFormed, ~PidReuse, [Next]_vars,
           NEW p, NEW c, IsInit(procs, p, c)
    PROVE  IsInit(procs', p, c)
<1>a. procs \in [Pids -> Process] /\ p \in Pids
  BY DEF WellFormed, TypeOK, IsInit
<1>b. p \notin FreePids
  BY DEF FreePids, IsInit
<1>1. ASSUME NEW cl \in Clients, Fork(cl) PROVE procs'[p] = procs[p]
  BY <1>1, <1>a, <1>b DEF Fork
<1>2. ASSUME NEW q \in Pids, Spawn(q) PROVE procs'[p] = procs[p]
  BY <1>2, <1>a, <1>b DEF Spawn
<1>3. ASSUME NEW gone, procs' = Reap(gone) PROVE IsInit(procs', p, c)
  BY <1>3, <1>a DEF Reap, IsInit, Process
<1>4. ASSUME NEW cl \in Clients, Drain(cl) PROVE IsInit(procs', p, c)
  BY <1>4, <1>a DEF Drain, IsInit, Process
<1>5. ASSUME NEW cl \in Clients, Attach(cl) PROVE IsInit(procs', p, c)
  BY <1>5, <1>a DEF Attach, IsInit, Process
<1>6. ASSUME NEW cl \in Clients, Term(cl) \/ Kill(cl)
      PROVE  IsInit(procs', p, c)
  BY <1>3, <1>6 DEF Term, Kill
<1>7. ASSUME NEW q \in Pids, Exit(q) PROVE IsInit(procs', p, c)
  BY <1>3, <1>7 DEF Exit
<1>8. ASSUME NEW cl \in Clients,
             \/ Abort(cl) \/ Isolate(cl) \/ Limit(cl) \/ RemoveCgroup(cl)
             \/ Mkdir(cl) \/ Truncate(cl) \/ Write(cl) \/ Link(cl)
             \/ Unlink(cl) \/ Rmdir(cl)
      PROVE  procs' = procs
  BY <1>8 DEF Abort, Isolate, Limit, RemoveCgroup, Mkdir, Truncate, Write,
              Link, Unlink, Rmdir
<1>9. ASSUME NEW cl \in Clients, Invoke(cl) PROVE procs' = procs
  BY <1>9 DEF Invoke, Create, Load, Enter
<1>10. CASE UNCHANGED vars
  BY <1>10 DEF vars
<1>11. ASSUME procs' = procs \/ procs'[p] = procs[p]
       PROVE  IsInit(procs', p, c)
  BY <1>11 DEF IsInit
<1>12. QED
  <2>1. ASSUME NEW cl \in Clients, Work(cl) PROVE IsInit(procs', p, c)
    BY <2>1, <1>1, <1>4, <1>5, <1>6, <1>8, <1>11 DEF Work, MustFail
  <2>2. QED
    BY <2>1, <1>2, <1>7, <1>8, <1>9, <1>10, <1>11 DEF Next

\* The steps at which stop still needs the pid follow one another.
LEMMA StopOrder ==
    ASSUME NEW s \in DOMAIN After["stop"],
           After["stop"][s] \in {"isolate", "term", "kill"}
    PROVE  s \in {"isolate", "term"}
  BY DEF After

\* Where a client goes on with local state r, what it then holds is genuine if
\* r was, and the other clients hold what they held.
LEMMA ProceedKeeps ==
    ASSUME PidInv, ~PidReuse, [Next]_vars,
           NEW cl \in Clients, NEW r, Engaged(r), Proceed(cl, r),
           Genuine(procs', r.cfg, r.name),
           r.op = "stop" /\ r.pc \in {"isolate", "term"}
               => r.cfg.state = "running"
    PROVE  CopiesGenuine' /\ StopsRunning'
<1> DEFINE next == After[r.op][r.pc]
           moved == [r EXCEPT !.pc = next]
<1>1. /\ moved.op = r.op /\ moved.pc = next /\ moved.name = r.name
      /\ moved.cfg = r.cfg
  BY DEF Engaged, Client
<1>2. cli' = [cli EXCEPT ![cl] = IF next = "idle" THEN Idle ELSE moved]
  BY DEF Proceed
<1>3. r.op = "stop" /\ next \in {"isolate", "term", "kill"}
          => r.cfg.state = "running"
  BY StopOrder DEF Engaged
<1> HIDE DEF next, moved
<1>4. cli \in [Clients -> Client]
  BY DEF PidInv, WellFormed, TypeOK
<1>5. ASSUME NEW k \in Clients, k # cl
      PROVE  cli'[k] = cli[k]
  BY <1>2, <1>4, <1>5
<1>6. cli'[cl] = Idle \/ cli'[cl] = moved
  BY <1>2, <1>4
<1>7. ASSUME NEW k \in Clients, ~At(k, "idle")
      PROVE  Genuine(procs', cli[k].cfg, cli[k].name)
  BY <1>7, InitsStay DEF PidInv, CopiesGenuine, Genuine
<1>8. CopiesGenuine'
  <2>1. ASSUME NEW k \in Clients, cli'[k].pc # "idle"
        PROVE  Genuine(procs', cli'[k].cfg, cli'[k].name)
    <3>1. CASE k # cl
      BY <2>1, <3>1, <1>5, <1>7 DEF At
    <3>2. CASE k = cl
      BY <2>1, <3>2, <1>1, <1>6 DEF Idle
    <3>3. QED  BY <3>1, <3>2
  <2>2. QED
    BY <2>1 DEF CopiesGenuine, At
<1>9. StopsRunning'
  <2>1. ASSUME NEW k \in Clients, cli'[k].op = "stop",
               cli'[k].pc \in {"isolate", "term", "kill"}
        PROVE  cli'[k].cfg.state = "running"
    <3>1. CASE k # cl
      BY <2>1, <3>1, <1>5 DEF PidInv, StopsRunning
    <3>2. CASE k = cl
      BY <2>1, <3>2, <1>1, <1>3, <1>6 DEF Idle
    <3>3. QED  BY <3>1, <3>2
  <2>2. QED
    BY <2>1 DEF StopsRunning
<1>10. QED  BY <1>8, <1>9

\* A command that starts holds what it loaded; create holds no pid.
LEMMA EnterKeeps ==
    ASSUME PidInv, ~PidReuse, [Next]_vars,
           NEW cl \in Clients, NEW o, NEW c \in Names, NEW cfg,
           Enter(cl, o, c, cfg), Genuine(procs, cfg, c),
           o = "stop" => cfg.state = "running"
    PROVE  CopiesGenuine' /\ StopsRunning'
<1> DEFINE new == [op |-> o, pc |-> "isolate", name |-> c, cfg |-> cfg,
                   child |-> NoPid, fd |-> "closed"]
<1>1. cli' = [cli EXCEPT ![cl] = new] /\ procs' = procs
  BY DEF Enter
<1>2. cli \in [Clients -> Client]
  BY DEF PidInv, WellFormed, TypeOK
<1>3. /\ cli'[cl] = new
      /\ \A k \in Clients \ {cl} : cli'[k] = cli[k]
  BY <1>1, <1>2
<1>4. CopiesGenuine'
  BY <1>1, <1>3 DEF CopiesGenuine, At, PidInv
<1>5. StopsRunning'
  BY <1>3 DEF StopsRunning, PidInv
<1>6. QED  BY <1>4, <1>5

\* A client that returns, and the unlinking of a file, take no copy away from
\* the other clients and give none.
LEMMA OthersKeep ==
    ASSUME PidInv, ~PidReuse, [Next]_vars, NEW cl \in Clients,
           \A k \in Clients : \/ cli'[k] = Idle
                              \/ /\ cli'[k].op = cli[k].op
                                 /\ cli'[k].name = cli[k].name
                                 /\ cli'[k].cfg = cli[k].cfg
                                 /\ ~At(k, "idle")
                                 /\ \/ cli'[k].pc = cli[k].pc
                                    \/ cli'[k].pc = "rmdir"
                              \/ cli'[k] = cli[k]
    PROVE  CopiesGenuine' /\ StopsRunning'
<1>1. ASSUME NEW k \in Clients, ~At(k, "idle")
      PROVE  Genuine(procs', cli[k].cfg, cli[k].name)
  BY <1>1, InitsStay DEF PidInv, CopiesGenuine, Genuine
<1>2. CopiesGenuine'
  BY <1>1 DEF CopiesGenuine, At, Idle
<1>3. StopsRunning'
  BY DEF StopsRunning, PidInv, Idle
<1>4. QED  BY <1>2, <1>3

\* What the files hold stays genuine as long as it is not written.
LEMMA FilesKeep ==
    ASSUME PidInv, ~PidReuse, [Next]_vars, conf' = conf
    PROVE  FilesGenuine'
  BY InitsStay DEF PidInv, FilesGenuine, Genuine

LEMMA PidInvStep == ~PidReuse /\ PidInv /\ [Next]_vars => PidInv'
<1> SUFFICES ASSUME ~PidReuse, PidInv, [Next]_vars PROVE PidInv'
  OBVIOUS
<1>w. WellFormed /\ WellFormed'
  BY WellFormedStep DEF PidInv
<1>t. TypeOK /\ TypeOK'
  BY <1>w DEF WellFormed
<1>k. ASSUME NEW k \in Clients, ~At(k, "idle")
      PROVE  Genuine(procs', cli[k].cfg, cli[k].name)
  BY <1>k, InitsStay DEF PidInv, CopiesGenuine, Genuine
<1>1. ASSUME NEW cl \in Clients, NEW c \in Names, Create(cl, c)
      PROVE  PidInv'
  <2>1. Genuine(procs, Fresh, c)
    BY DEF Genuine, Fresh
  <2>2. CopiesGenuine' /\ StopsRunning'
    BY <1>1, <2>1, EnterKeeps DEF Create
  <2>3. FilesGenuine'
    BY <1>1, FilesKeep DEF Create, Enter
  <2>4. QED
    BY <1>w, <2>2, <2>3 DEF PidInv
<1>2. ASSUME NEW cl \in Clients, NEW c \in Names, NEW o \in DOMAIN Admitted,
             Load(cl, o, c)
      PROVE  PidInv'
  <2>1. Genuine(procs, conf[c], c)
    BY DEF PidInv, FilesGenuine
  <2>2. o = "stop" => conf[c].state = "running"
    BY <1>2 DEF Load, Admitted
  <2>3. CopiesGenuine' /\ StopsRunning'
    BY <1>2, <2>1, <2>2, EnterKeeps DEF Load
  <2>4. FilesGenuine'
    BY <1>2, FilesKeep DEF Load, Enter
  <2>5. QED
    BY <1>w, <2>3, <2>4 DEF PidInv
<1>3. ASSUME NEW cl \in Clients, Abort(cl) PROVE PidInv'
  <2>1. \A k \in Clients : cli'[k] = Idle \/ cli'[k] = cli[k]
    BY <1>3, <1>t DEF Abort, TypeOK
  <2>2. QED
    BY <1>3, <1>w, <2>1, OthersKeep, FilesKeep DEF Abort, PidInv
<1>4. ASSUME NEW cl \in Clients,
             \/ Isolate(cl) \/ Limit(cl) \/ Drain(cl) \/ RemoveCgroup(cl)
             \/ Attach(cl) \/ Term(cl) \/ Mkdir(cl) \/ Link(cl) \/ Rmdir(cl)
      PROVE  PidInv'
  <2>1. ~At(cl, "idle") /\ Proceed(cl, cli[cl]) /\ conf' = conf
    BY <1>4 DEF Isolate, Limit, Drain, RemoveCgroup, Attach, Term, Mkdir, Link,
                Rmdir, At
  <2>2. Engaged(cli[cl])
    BY <1>w, <2>1, WorkingIsEngaged
  <2>3. Genuine(procs', cli[cl].cfg, cli[cl].name)
    BY <1>k, <2>1
  <2>4. cli[cl].op = "stop" /\ cli[cl].pc \in {"isolate", "term"}
            => cli[cl].cfg.state = "running"
    BY DEF PidInv, StopsRunning
  <2>5. QED
    BY <1>w, <2>1, <2>2, <2>3, <2>4, ProceedKeeps, FilesKeep DEF PidInv
<1>5. ASSUME NEW cl \in Clients, Fork(cl) PROVE PidInv'
  <2> DEFINE r == cli[cl]
  <2>1. Engaged(r) /\ ~At(cl, "idle")
    BY <1>5, <1>w, WorkingIsEngaged DEF Fork, At
  <2>2. PICK p \in FreePids :
          /\ procs' = [procs EXCEPT ![p] =
                          [status |-> "alive", owner |-> r.name,
                           role |-> IF r.op = "start" THEN "init" ELSE "exec",
                           group |-> "host"]]
          /\ Proceed(cl, [r EXCEPT !.child = p,
                                   !.cfg = IF r.op = "start" THEN Running(p)
                                           ELSE @])
    BY <1>5 DEF Fork
  <2> DEFINE t == [r EXCEPT !.child = p,
                            !.cfg = IF r.op = "start" THEN Running(p) ELSE @]
  <2>3. p \in Pids /\ Running(p) \in Config
    BY RunningIsConfig DEF FreePids
  <2>4. /\ Engaged(t) /\ t.op = r.op /\ t.name = r.name /\ t.pc = "fork"
        /\ t.cfg = IF r.op = "start" THEN Running(p) ELSE r.cfg
    BY <1>5, <2>1, <2>3 DEF Engaged, Client, Fork, At
  <2>5. r.op = "start" => IsInit(procs', p, r.name)
    BY <1>t, <2>2, <2>3 DEF IsInit, TypeOK
  <2>6. Genuine(procs', t.cfg, t.name)
    <3>1. CASE r.op = "start"
      <4>1. t.cfg.pid = p
        BY <2>4, <3>1 DEF Running
      <4>2. QED
        BY <2>4, <2>5, <3>1, <4>1 DEF Genuine
    <3>2. CASE r.op # "start"
      BY <1>k, <2>1, <2>4, <3>2
    <3>3. QED  BY <3>1, <3>2
  <2>7. Proceed(cl, t)
    BY <2>2
  <2> HIDE DEF t
  <2>8. CopiesGenuine' /\ StopsRunning'
    BY <2>4, <2>6, <2>7, ProceedKeeps
  <2>9. FilesGenuine'
    BY <1>5, FilesKeep DEF Fork
  <2>10. QED
    BY <1>w, <2>8, <2>9 DEF PidInv
<1>6. ASSUME NEW cl \in Clients, Kill(cl) PROVE PidInv'
  <2> DEFINE t == [cli[cl] EXCEPT !.cfg = Halted]
  <2>1. Engaged(cli[cl])
    BY <1>6, <1>w, WorkingIsEngaged DEF Kill, At
  <2>2. /\ Engaged(t) /\ t.pc = "kill" /\ t.cfg = Halted
        /\ t.name = cli[cl].name
    BY <1>6, <2>1, ConstantConfigs DEF Engaged, Client, Kill, At
  <2>3. Genuine(procs', t.cfg, t.name)
    BY <2>2 DEF Genuine, Halted
  <2>4. Proceed(cl, t) /\ conf' = conf
    BY <1>6 DEF Kill
  <2> HIDE DEF t
  <2>5. QED
    BY <1>w, <2>2, <2>3, <2>4, ProceedKeeps, FilesKeep DEF PidInv
<1>7. ASSUME NEW cl \in Clients, Truncate(cl) PROVE PidInv'
  <2> DEFINE t == [cli[cl] EXCEPT !.fd = "open"]
  <2>1. Engaged(cli[cl]) /\ ~At(cl, "idle")
    BY <1>7, <1>w, WorkingIsEngaged DEF Truncate, At
  <2>2. /\ Engaged(t) /\ t.pc = "truncate" /\ t.cfg = cli[cl].cfg
        /\ t.name = cli[cl].name
    BY <1>7, <2>1 DEF Engaged, Client, Truncate, At
  <2>3. Genuine(procs', t.cfg, t.name)
    BY <1>k, <2>1, <2>2
  <2>4. Proceed(cl, t)
    BY <1>7 DEF Truncate
  <2>5. FilesGenuine'
    <3>1. conf' = [conf EXCEPT ![cli[cl].name] = Empty] /\ procs' = procs
      BY <1>7 DEF Truncate
    <3>2. QED
      BY <1>t, <3>1 DEF PidInv, FilesGenuine, Genuine, Empty, TypeOK
  <2> HIDE DEF t
  <2>6. QED
    BY <1>w, <2>2, <2>3, <2>4, <2>5, ProceedKeeps DEF PidInv
<1>8. ASSUME NEW cl \in Clients, Write(cl) PROVE PidInv'
  <2> DEFINE t == [cli[cl] EXCEPT !.fd = "closed"]
  <2>1. Engaged(cli[cl]) /\ ~At(cl, "idle")
    BY <1>8, <1>w, WorkingIsEngaged DEF Write, At
  <2>2. /\ Engaged(t) /\ t.pc = "write" /\ t.cfg = cli[cl].cfg
        /\ t.name = cli[cl].name
    BY <1>8, <2>1 DEF Engaged, Client, Write, At
  <2>3. Genuine(procs', t.cfg, t.name)
    BY <1>k, <2>1, <2>2
  <2>4. Proceed(cl, t)
    BY <1>8 DEF Write
  <2>5. FilesGenuine'
    <3>1. procs' = procs /\ cli[cl].name \in Names
      BY <1>8, <2>1 DEF Write, Engaged
    <3>2. PICK new \in {conf[cli[cl].name], cli[cl].cfg, Garbled} :
              conf' = [conf EXCEPT ![cli[cl].name] = new]
      BY <1>8 DEF Write
    <3>3. Genuine(procs, new, cli[cl].name)
      BY <2>1, <3>1 DEF PidInv, FilesGenuine, CopiesGenuine, Genuine, Garbled
    <3>4. QED
      BY <1>t, <3>1, <3>2, <3>3 DEF PidInv, FilesGenuine, TypeOK
  <2> HIDE DEF t
  <2>6. QED
    BY <1>w, <2>2, <2>3, <2>4, <2>5, ProceedKeeps DEF PidInv
<1>9. ASSUME NEW cl \in Clients, Unlink(cl) PROVE PidInv'
  <2>1. \A k \in Clients : \/ /\ cli'[k].op = cli[k].op
                              /\ cli'[k].name = cli[k].name
                              /\ cli'[k].cfg = cli[k].cfg
                              /\ ~At(k, "idle")
                              /\ \/ cli'[k].pc = cli[k].pc
                                 \/ cli'[k].pc = "rmdir"
                           \/ cli'[k] = cli[k]
    <3> SUFFICES ASSUME NEW k \in Clients
                 PROVE  \/ /\ cli'[k].op = cli[k].op
                           /\ cli'[k].name = cli[k].name
                           /\ cli'[k].cfg = cli[k].cfg
                           /\ ~At(k, "idle")
                           /\ \/ cli'[k].pc = cli[k].pc
                              \/ cli'[k].pc = "rmdir"
                        \/ cli'[k] = cli[k]
      OBVIOUS
    <3>1. cli[k] \in Client /\ ClientOK(cli[k])
      BY <1>w DEF WellFormed, ClientOK
    <3>2. CASE k = cl
      BY <1>9, <3>1, <3>2 DEF Unlink, Client, At
    <3>3. CASE cli'[k] = [cli[k] EXCEPT !.fd = "stale"] /\ cli[k].fd = "open"
      BY <3>1, <3>3 DEF Client, At, ClientOK, Idle, After, Operation
    <3>4. QED
      BY <1>9, <3>2, <3>3 DEF Unlink
  <2>2. FilesGenuine'
    <3>1. conf' = [conf EXCEPT ![cli[cl].name] = NoConf] /\ procs' = procs
      BY <1>9 DEF Unlink
    <3>2. QED
      BY <1>t, <3>1 DEF PidInv, FilesGenuine, Genuine, NoConf, TypeOK
  <2>3. QED
    BY <1>w, <2>1, <2>2, OthersKeep DEF PidInv
<1>10. CASE UNCHANGED <<conf, cli>>
  <2>1. FilesGenuine'
    BY <1>10, FilesKeep
  <2>2. CopiesGenuine' /\ StopsRunning'
    BY <1>10, <1>k DEF PidInv, CopiesGenuine, StopsRunning, At
  <2>3. QED
    BY <1>w, <2>1, <2>2 DEF PidInv
<1>11. ASSUME NEW p \in Pids, Exit(p) \/ Spawn(p) PROVE PidInv'
  BY <1>11, <1>10 DEF Exit, Spawn
<1>12. CASE UNCHANGED vars
  BY <1>12, <1>10 DEF vars
<1>13. QED
  BY <1>1, <1>2, <1>3, <1>4, <1>5, <1>6, <1>7, <1>8, <1>9, <1>11, <1>12
     DEF Next, Invoke, Work, MustFail

\* Every SIGTERM and SIGKILL that stop sends goes to a process that start
\* spawned for this very container, whatever commands overlap or are aborted,
\* on a kernel that does not reuse pids.
THEOREM StopIsPrecise == ASSUME ~PidReuse PROVE Spec => []SignalsOwnProcess
<1>1. Init => PidInv
  BY InitPidInv
<1>2. PidInv /\ [Next]_vars => PidInv'
  BY PidInvStep
<1>3. PidInv => SignalsOwnProcess
  BY PidInvImplies
<1>4. QED
  BY <1>1, <1>2, <1>3, PTL DEF Spec

-----------------------------------------------------------------------------
(***************************************************************************)
(* The record of a container whose commands neither overlap nor break off. *)
(***************************************************************************)
\* The state directory as a command finds it and as it leaves it: d, f and l
\* say whether it exists, what its config file holds, and whether it has the
\* file rootfs_path.
Absent(d, f, l) == ~d /\ f = NoConf /\ ~l
Present(d, f, states) == d /\ f.state \in states
AtRest(d, f, l) == Absent(d, f, l) \/ Present(d, f, ContainerState)

\* What a command in local state r, alone on its container, has made of the
\* directory by now, and what it is going to save.
CreateOK(r, d, f, l) ==
    /\ r.cfg = Fresh
    /\ r.pc \in {"isolate", "limit", "mkdir"} => Absent(d, f, l)
    /\ r.pc = "truncate" => d /\ f = NoConf
    /\ r.pc = "write" => d /\ f = Empty
    /\ r.pc \in {"link", "drain", "rmcgroup"} => d /\ f = Fresh

StartOK(r, d, f) ==
    /\ r.pc = "write" => d /\ f = Empty
    /\ r.pc # "write" => Present(d, f, {"created", "stopped"})
    /\ r.pc \in {"attach", "mkdir", "truncate", "write"} => r.cfg.state = "running"

StopOK(r, d, f) ==
    /\ r.pc \in {"isolate", "term", "kill", "mkdir", "truncate"} => Present(d, f, {"running"})
    /\ r.pc = "write" => d /\ f = Empty
    /\ r.pc \in {"drain", "rmcgroup"} => d /\ f = Halted
    /\ r.pc \in {"mkdir", "truncate", "write"} => r.cfg = Halted

DeleteOK(r, d, f, l) ==
    /\ r.pc # "rmdir" => Present(d, f, {"created", "stopped"})
    /\ r.pc = "rmdir" => d /\ f = NoConf /\ ~l

Doing(r, d, f, l) ==
    /\ r.fd = IF r.pc = "write" THEN "open" ELSE "closed"
    /\ r.op = "create" => CreateOK(r, d, f, l)
    /\ r.op = "start" => StartOK(r, d, f)
    /\ r.op = "stop" => StopOK(r, d, f)
    /\ r.op = "delete" => DeleteOK(r, d, f, l)
    /\ r.op = "exec" => Present(d, f, {"running"})

Alone(c) == \A k, m \in Clients : Busy(k, c) /\ Busy(m, c) => k = m

RecordOK(c) ==
    /\ Alone(c)
    /\ Quiet(c) => AtRest(dir[c], conf[c], link[c])
    /\ \A k \in Clients : Busy(k, c) => Doing(cli[k], dir[c], conf[c], link[c])

RecordInv ==
    /\ WellFormed
    /\ \A c \in Names : ~disturbed[c] => RecordOK(c)

\* Only what belongs to c is touched.
Within(c) ==
    /\ \A e \in Names : e # c =>
        /\ dir'[e] = dir[e] /\ conf'[e] = conf[e] /\ link'[e] = link[e]
        /\ disturbed'[e] = disturbed[e]
    /\ \A k \in Clients :
        \/ cli'[k] = cli[k]
        \/ /\ cli[k].pc = "idle" \/ cli[k].name = c
           /\ cli'[k].pc = "idle" \/ cli'[k].name = c

LEMMA Elsewhere ==
    ASSUME RecordInv, NEW c \in Names, Within(c), NEW e \in Names, e # c, ~disturbed'[e]
    PROVE  RecordOK(e)'
<1>1. \A k \in Clients : (Busy(k, e)' <=> Busy(k, e)) /\ (Busy(k, e) => cli'[k] = cli[k])
  BY DEF Within, Busy
<1>2. RecordOK(e) /\ dir'[e] = dir[e] /\ conf'[e] = conf[e] /\ link'[e] = link[e]
  BY DEF RecordInv, Within
<1> QED
  BY <1>1, <1>2 DEF RecordOK, Alone, Quiet

\* A command goes on to its next step, and the others stay where they are.
LEMMA ProceedRecord ==
    ASSUME RecordInv, NEW cl \in Clients, ~At(cl, "idle"),
           NEW r, Engaged(r), r.name = cli[cl].name, Proceed(cl, r),
           disturbed' = disturbed, WellFormed',
           \A e \in Names : e # r.name =>
               dir'[e] = dir[e] /\ conf'[e] = conf[e] /\ link'[e] = link[e],
           NEW n, n = After[r.op][r.pc],
           ~disturbed[r.name] =>
               IF n = "idle" THEN AtRest(dir'[r.name], conf'[r.name], link'[r.name])
               ELSE Doing([r EXCEPT !.pc = n], dir'[r.name], conf'[r.name], link'[r.name])
    PROVE  RecordInv'
<1> DEFINE c == r.name
<1>1. c \in Names /\ cli \in [Clients -> Client] /\ Busy(cl, c)
  BY DEF Engaged, RecordInv, WellFormed, TypeOK, Busy, At
<1>2. /\ cli'[cl] = IF n = "idle" THEN Idle ELSE [r EXCEPT !.pc = n]
      /\ \A k \in Clients : k # cl => cli'[k] = cli[k]
  BY <1>1 DEF Proceed
<1>3. [r EXCEPT !.pc = n].name = c /\ [r EXCEPT !.pc = n].pc = n
  BY DEF Engaged, Client
<1>4. Idle.pc = "idle" /\ Idle.name = NoName
  BY DEF Idle
<1>5. Within(c)
  BY <1>1, <1>2, <1>3, <1>4 DEF Within, Busy
<1>6. ASSUME ~disturbed[c] PROVE RecordOK(c)'
  <2>1. \A k \in Clients : k # cl => ~Busy(k, c) /\ ~Busy(k, c)'
    BY <1>1, <1>2, <1>6 DEF RecordInv, RecordOK, Alone, Busy
  <2>2. Busy(cl, c)' <=> n # "idle"
    BY <1>2, <1>3, <1>4 DEF Busy
  <2> QED
    BY <1>2, <1>6, <2>1, <2>2 DEF RecordOK, Alone, Quiet
<1> QED
  BY <1>1, <1>5, <1>6, Elsewhere DEF RecordInv

LEMMA EnterRecord ==
    ASSUME RecordInv, WellFormed', NEW cl \in Clients, NEW o \in Operation, NEW c \in Names, NEW cfg,
           Enter(cl, o, c, cfg),
           Quiet(c) /\ ~disturbed[c] =>
               Doing([op |-> o, pc |-> "isolate", name |-> c, cfg |-> cfg, child |-> NoPid, fd |-> "closed"],
                     dir[c], conf[c], link[c])
    PROVE  RecordInv'
<1> DEFINE new == [op |-> o, pc |-> "isolate", name |-> c, cfg |-> cfg, child |-> NoPid, fd |-> "closed"]
<1>1. cli \in [Clients -> Client] /\ disturbed \in [Names -> BOOLEAN]
  BY DEF RecordInv, WellFormed, TypeOK
<1>2. /\ cli'[cl] = new /\ cli[cl].pc = "idle" /\ UNCHANGED <<dir, conf, link>>
      /\ \A k \in Clients : k # cl => cli'[k] = cli[k]
      /\ disturbed'[c] = (disturbed[c] \/ ~Quiet(c))
      /\ \A e \in Names : e # c => disturbed'[e] = disturbed[e]
  BY <1>1 DEF Enter, At
<1>3. Within(c)
  BY <1>2 DEF Within
<1>4. ASSUME ~disturbed'[c] PROVE RecordOK(c)'
  <2>1. Quiet(c) /\ ~disturbed[c]
    BY <1>2, <1>4
  <2>2. \A k \in Clients : Busy(k, c)' => k = cl
    BY <1>2, <2>1 DEF Quiet, Busy
  <2>3. Busy(cl, c)'
    BY <1>2 DEF Busy
  <2>4. Doing(cli'[cl], dir'[c], conf'[c], link'[c])
    BY <1>2, <2>1
  <2> QED
    BY <2>2, <2>3, <2>4 DEF RecordOK, Alone, Quiet
<1> QED
  BY <1>3, <1>4, Elsewhere DEF RecordInv

\* What a step makes of the directory of a command that is alone on it.
Leads(r, d, f, l) ==
    LET n == After[r.op][r.pc] IN
    IF n = "idle" THEN AtRest(d, f, l) ELSE Doing([r EXCEPT !.pc = n], d, f, l)

LEMMA Moved ==
    ASSUME NEW r \in Client, NEW n
    PROVE  /\ [r EXCEPT !.pc = n].pc = n /\ [r EXCEPT !.pc = n].op = r.op
           /\ [r EXCEPT !.pc = n].cfg = r.cfg /\ [r EXCEPT !.pc = n].fd = r.fd
BY DEF Client

\* Steps that leave the directory and the command's copy alone.
LEMMA LeadsOn ==
    ASSUME NEW r, Engaged(r), NEW d, NEW f, NEW l, Doing(r, d, f, l),
           r.pc \in {"isolate", "limit", "drain", "rmcgroup", "attach", "term"}
    PROVE  Leads(r, d, f, l)
<1> DEFINE n == After[r.op][r.pc]
           m == [r EXCEPT !.pc = n]
<1>1. m.pc = n /\ m.op = r.op /\ m.cfg = r.cfg /\ m.fd = r.fd
  BY Moved DEF Engaged
<1>2. r.fd = "closed"
  BY DEF Doing
<1> HIDE DEF m
<1>3. CASE r.op = "create"
  <2>1. n = IF r.pc = "isolate" THEN "limit" ELSE IF r.pc = "limit" THEN "mkdir"
            ELSE IF r.pc = "drain" THEN "rmcgroup" ELSE "idle"
    BY <1>3 DEF After, Engaged
  <2>2. CreateOK(r, d, f, l) /\ r.pc \in {"isolate", "limit", "drain", "rmcgroup"}
    BY <1>3 DEF Doing, Engaged, After
  <2>3. n = "idle" => AtRest(d, f, l)
    BY <2>1, <2>2 DEF CreateOK, AtRest, Present, Fresh, ContainerState
  <2>4. n # "idle" => Doing(m, d, f, l)
    BY <1>1, <1>2, <1>3, <2>1, <2>2 DEF CreateOK, Doing
  <2> QED
    BY <2>3, <2>4 DEF Leads, m
<1>4. CASE r.op = "start"
  <2>1. n = IF r.pc = "isolate" THEN "limit" ELSE IF r.pc = "limit" THEN "fork" ELSE "mkdir"
    BY <1>4 DEF After, Engaged
  <2>2. StartOK(r, d, f) /\ r.pc \in {"isolate", "limit", "attach"}
    BY <1>4 DEF Doing, Engaged, After
  <2>3. Doing(m, d, f, l)
    BY <1>1, <1>2, <1>4, <2>1, <2>2 DEF StartOK, Doing
  <2> QED
    BY <2>1, <2>3 DEF Leads, m
<1>5. CASE r.op = "stop"
  <2>1. n = IF r.pc = "isolate" THEN "term" ELSE IF r.pc = "term" THEN "kill"
            ELSE IF r.pc = "drain" THEN "rmcgroup" ELSE "idle"
    BY <1>5 DEF After, Engaged
  <2>2. StopOK(r, d, f) /\ r.pc \in {"isolate", "term", "drain", "rmcgroup"}
    BY <1>5 DEF Doing, Engaged, After
  <2>3. n = "idle" => AtRest(d, f, l)
    BY <2>1, <2>2 DEF StopOK, AtRest, Present, Halted, ContainerState
  <2>4. n # "idle" => Doing(m, d, f, l)
    BY <1>1, <1>2, <1>5, <2>1, <2>2 DEF StopOK, Doing
  <2> QED
    BY <2>3, <2>4 DEF Leads, m
<1>6. CASE r.op = "delete"
  <2>1. n = IF r.pc = "isolate" THEN "drain" ELSE IF r.pc = "drain" THEN "rmcgroup" ELSE "unlink"
    BY <1>6 DEF After, Engaged
  <2>2. DeleteOK(r, d, f, l) /\ r.pc \in {"isolate", "drain", "rmcgroup"}
    BY <1>6 DEF Doing, Engaged, After
  <2>3. Doing(m, d, f, l)
    BY <1>1, <1>2, <1>6, <2>1, <2>2 DEF DeleteOK, Doing
  <2> QED
    BY <2>1, <2>3 DEF Leads, m
<1>7. CASE r.op = "exec"
  <2>1. n = IF r.pc = "isolate" THEN "fork" ELSE "idle"
    BY <1>7 DEF After, Engaged
  <2>2. Present(d, f, {"running"})
    BY <1>7 DEF Doing
  <2>3. n = "idle" => AtRest(d, f, l)
    BY <2>2 DEF AtRest, Present, ContainerState
  <2>4. n # "idle" => Doing(m, d, f, l)
    BY <1>1, <1>2, <1>7, <2>1, <2>2 DEF Doing
  <2> QED
    BY <2>3, <2>4 DEF Leads, m
<1> QED
  BY <1>3, <1>4, <1>5, <1>6, <1>7 DEF Engaged, Operation

\* fork in start and exec, SIGKILL in stop, and the steps of save, of the rest
\* of create and of delete.
LEMMA LeadsFork ==
    ASSUME NEW r, Engaged(r), NEW d, NEW f, NEW l, Doing(r, d, f, l),
           r.pc = "fork", NEW p \in Pids
    PROVE  Leads([r EXCEPT !.child = p, !.cfg = IF r.op = "start" THEN Running(p) ELSE @], d, f, l)
<1> DEFINE s == [r EXCEPT !.child = p, !.cfg = IF r.op = "start" THEN Running(p) ELSE @]
           m == [s EXCEPT !.pc = "attach"]
<1>1. r.op \in {"start", "exec"} /\ After[r.op][r.pc] = "attach" /\ r.fd = "closed"
  BY DEF Engaged, Operation, After, Doing
<1>2. /\ s.op = r.op /\ s.pc = r.pc
      /\ m.op = r.op /\ m.pc = "attach" /\ m.fd = r.fd
      /\ r.op = "start" => m.cfg = Running(p)
  BY DEF Engaged, Client
<1> HIDE DEF m
<1>3. Doing(m, d, f, l)
  BY <1>1, <1>2 DEF Doing, StartOK, Running
<1> QED
  BY <1>1, <1>2, <1>3 DEF Leads, m

LEMMA LeadsKill ==
    ASSUME NEW r, Engaged(r), NEW d, NEW f, NEW l, Doing(r, d, f, l), r.pc = "kill"
    PROVE  Leads([r EXCEPT !.cfg = Halted], d, f, l)
<1> DEFINE s == [r EXCEPT !.cfg = Halted]
           m == [s EXCEPT !.pc = "mkdir"]
<1>1. r.op = "stop" /\ After[r.op][r.pc] = "mkdir" /\ r.fd = "closed"
  BY DEF Engaged, Operation, After, Doing
<1>2. /\ s.op = r.op /\ s.pc = r.pc
      /\ m.op = r.op /\ m.pc = "mkdir" /\ m.fd = r.fd /\ m.cfg = Halted
  BY DEF Engaged, Client
<1> HIDE DEF m
<1>3. Doing(m, d, f, l)
  BY <1>1, <1>2 DEF Doing, StopOK
<1> QED
  BY <1>1, <1>2, <1>3 DEF Leads, m

LEMMA LeadsMkdir ==
    ASSUME NEW r, Engaged(r), NEW d, NEW f, NEW l, Doing(r, d, f, l), r.pc = "mkdir"
    PROVE  Leads(r, TRUE, f, l)
<1> DEFINE m == [r EXCEPT !.pc = "truncate"]
<1>1. r.op \in {"create", "start", "stop"} /\ After[r.op][r.pc] = "truncate" /\ r.fd = "closed"
  BY DEF Engaged, Operation, After, Doing
<1>2. m.op = r.op /\ m.pc = "truncate" /\ m.fd = r.fd /\ m.cfg = r.cfg
  BY Moved DEF Engaged
<1> HIDE DEF m
<1>3. Doing(m, TRUE, f, l)
  BY <1>1, <1>2 DEF Doing, CreateOK, StartOK, StopOK, Absent, Present
<1> QED
  BY <1>1, <1>3 DEF Leads, m

LEMMA LeadsTruncate ==
    ASSUME NEW r, Engaged(r), NEW d, NEW f, NEW l, Doing(r, d, f, l), r.pc = "truncate"
    PROVE  Leads([r EXCEPT !.fd = "open"], d, Empty, l)
<1> DEFINE s == [r EXCEPT !.fd = "open"]
           m == [s EXCEPT !.pc = "write"]
<1>1. r.op \in {"create", "start", "stop"} /\ After[r.op][r.pc] = "write"
  BY DEF Engaged, Operation, After, Doing
<1>2. /\ s.op = r.op /\ s.pc = r.pc
      /\ m.op = r.op /\ m.pc = "write" /\ m.fd = "open" /\ m.cfg = r.cfg
  BY DEF Engaged, Client
<1> HIDE DEF m
<1>3. Doing(m, d, Empty, l)
  BY <1>1, <1>2 DEF Doing, CreateOK, StartOK, StopOK, Absent, Present
<1> QED
  BY <1>1, <1>2, <1>3 DEF Leads, m

LEMMA LeadsWrite ==
    ASSUME NEW r, Engaged(r), NEW d, NEW f, NEW l, Doing(r, d, f, l), r.pc = "write"
    PROVE  /\ r.fd = "open" /\ f = Empty
           /\ r.cfg.state \in ContainerState
           /\ Leads([r EXCEPT !.fd = "closed"], d, r.cfg, l)
<1> DEFINE n == After[r.op][r.pc]
           s == [r EXCEPT !.fd = "closed"]
           m == [s EXCEPT !.pc = n]
<1>1. /\ \/ r.op = "create" /\ n = "link"
         \/ r.op = "start" /\ n = "idle"
         \/ r.op = "stop" /\ n = "drain"
      /\ r.fd = "open"
  <2>1. r.op \in {"create", "start", "stop"} /\ r.fd = "open"
    BY DEF Engaged, Operation, After, Doing
  <2>2. /\ r.op = "create" => n = "link"
        /\ r.op = "start" => n = "idle"
        /\ r.op = "stop" => n = "drain"
    BY DEF After
  <2> QED
    BY <2>1, <2>2
<1>2. /\ s.op = r.op /\ s.pc = r.pc
      /\ m.op = r.op /\ m.pc = n /\ m.fd = "closed" /\ m.cfg = r.cfg
  BY DEF Engaged, Client
<1> HIDE DEF m
<1>3. d /\ f = Empty /\ r.cfg.state \in ContainerState
  BY <1>1 DEF Doing, CreateOK, StartOK, StopOK, Present, Fresh, Halted, ContainerState
<1>4. n = "idle" => AtRest(d, r.cfg, l)
  BY <1>3 DEF AtRest, Present
<1>5. n # "idle" => Doing(m, d, r.cfg, l)
  BY <1>1, <1>2, <1>3 DEF Doing, CreateOK, StartOK, StopOK, Present
<1> QED
  BY <1>1, <1>2, <1>3, <1>4, <1>5 DEF Leads, m

LEMMA LeadsLink ==
    ASSUME NEW r, Engaged(r), NEW d, NEW f, NEW l, Doing(r, d, f, l), r.pc = "link"
    PROVE  Leads(r, d, f, TRUE)
<1> DEFINE m == [r EXCEPT !.pc = "drain"]
<1>1. r.op = "create" /\ After[r.op][r.pc] = "drain" /\ r.fd = "closed"
  BY DEF Engaged, Operation, After, Doing
<1>2. m.op = r.op /\ m.pc = "drain" /\ m.fd = r.fd /\ m.cfg = r.cfg
  BY Moved DEF Engaged
<1> HIDE DEF m
<1>3. Doing(m, d, f, TRUE)
  BY <1>1, <1>2 DEF Doing, CreateOK
<1> QED
  BY <1>1, <1>3 DEF Leads, m

LEMMA LeadsRmdir ==
    ASSUME NEW r, Engaged(r), NEW d, NEW f, NEW l, Doing(r, d, f, l), r.pc = "rmdir"
    PROVE  Leads(r, d /\ ~(f = NoConf /\ ~l), f, l)
<1>1. r.op = "delete" /\ After[r.op][r.pc] = "idle"
  BY DEF Engaged, Operation, After
<1>2. f = NoConf /\ ~l
  BY <1>1 DEF Doing, DeleteOK
<1> QED
  BY <1>1, <1>2 DEF Leads, AtRest, Absent

-----------------------------------------------------------------------------
\* Every step of a command keeps RecordInv.
LEMMA Commander ==
    ASSUME RecordInv, NEW cl \in Clients, ~At(cl, "idle")
    PROVE  /\ Engaged(cli[cl])
           /\ ~disturbed[cli[cl].name] =>
                 /\ Doing(cli[cl], dir[cli[cl].name], conf[cli[cl].name], link[cli[cl].name])
                 /\ \A k \in Clients : Busy(k, cli[cl].name) => k = cl
<1>1. Engaged(cli[cl])
  BY WorkingIsEngaged DEF RecordInv
<1>2. cli[cl].name \in Names /\ Busy(cl, cli[cl].name)
  BY <1>1 DEF Engaged, Busy, At
<1> QED
  BY <1>1, <1>2 DEF RecordInv, RecordOK, Alone

\* Most steps: what comes of the directory is given by a lemma above.
LEMMA StepRecord ==
    ASSUME RecordInv, WellFormed', NEW cl \in Clients, ~At(cl, "idle"),
           NEW r, Engaged(r), r.name = cli[cl].name, Proceed(cl, r), disturbed' = disturbed,
           \A e \in Names : e # r.name =>
               dir'[e] = dir[e] /\ conf'[e] = conf[e] /\ link'[e] = link[e],
           ~disturbed[r.name] => Leads(r, dir'[r.name], conf'[r.name], link'[r.name])
    PROVE  RecordInv'
BY ProceedRecord DEF Leads

LEMMA WorkRecord ==
    ASSUME RecordInv, WellFormed', NEW cl \in Clients,
           Work(cl), ~MustFail(cl), ~Unlink(cl)
    PROVE  RecordInv'
<1> DEFINE r == cli[cl]
           c == r.name
<1>1. ~At(cl, "idle")
  BY DEF Work, Isolate, Limit, Drain, RemoveCgroup, Fork, Attach, Term, Kill, Mkdir, Truncate,
         Write, Link, Rmdir, At
<1>2. /\ Engaged(r) /\ r \in Client /\ c \in Names
      /\ ~disturbed[c] => Doing(r, dir[c], conf[c], link[c])
  BY <1>1, Commander DEF Engaged
<1>3. /\ dir \in [Names -> BOOLEAN] /\ conf \in [Names -> Config] /\ link \in [Names -> BOOLEAN]
  BY DEF RecordInv, WellFormed, TypeOK
<1>4. CASE Isolate(cl) \/ Limit(cl) \/ Drain(cl) \/ RemoveCgroup(cl) \/ Attach(cl) \/ Term(cl)
  <2>1. /\ Proceed(cl, r) /\ UNCHANGED <<dir, conf, link, disturbed>>
        /\ r.pc \in {"isolate", "limit", "drain", "rmcgroup", "attach", "term"}
    BY <1>4 DEF Isolate, Limit, Drain, RemoveCgroup, Attach, Term, At
  <2> QED
    BY <1>1, <1>2, <2>1, LeadsOn, StepRecord
<1>5. CASE Fork(cl)
  <2>1. PICK p \in Pids :
          Proceed(cl, [r EXCEPT !.child = p, !.cfg = IF r.op = "start" THEN Running(p) ELSE @])
    BY <1>5 DEF Fork, FreePids
  <2> DEFINE s == [r EXCEPT !.child = p, !.cfg = IF r.op = "start" THEN Running(p) ELSE @]
  <2>2. r.pc = "fork" /\ UNCHANGED <<dir, conf, link, disturbed>>
    BY <1>5 DEF Fork, At
  <2>3. Engaged(s) /\ s.name = c
    BY <1>2, RunningIsConfig DEF Engaged, Client
  <2>4. ~disturbed[c] => Leads(s, dir[c], conf[c], link[c])
    BY <1>2, <2>2, LeadsFork
  <2> HIDE DEF s
  <2> QED
    BY <1>1, <2>1, <2>2, <2>3, <2>4, StepRecord DEF s
<1>6. CASE Kill(cl)
  <2> DEFINE s == [r EXCEPT !.cfg = Halted]
  <2>1. r.pc = "kill" /\ Proceed(cl, s) /\ UNCHANGED <<dir, conf, link, disturbed>>
    BY <1>6 DEF Kill, At
  <2>2. Engaged(s) /\ s.name = c
    BY <1>2, ConstantConfigs DEF Engaged, Client
  <2>3. ~disturbed[c] => Leads(s, dir[c], conf[c], link[c])
    BY <1>2, <2>1, LeadsKill
  <2> HIDE DEF s
  <2> QED
    BY <1>1, <2>1, <2>2, <2>3, StepRecord
<1>7. CASE Mkdir(cl)
  <2>1. r.pc = "mkdir" /\ Proceed(cl, r) /\ UNCHANGED <<conf, link, disturbed>>
        /\ dir' = [dir EXCEPT ![c] = TRUE]
    BY <1>7 DEF Mkdir, At
  <2>2. ~disturbed[c] => Leads(r, dir'[c], conf'[c], link'[c])
    BY <1>2, <1>3, <2>1, LeadsMkdir
  <2> QED
    BY <1>1, <1>2, <1>3, <2>1, <2>2, StepRecord
<1>8. CASE Truncate(cl)
  <2> DEFINE s == [r EXCEPT !.fd = "open"]
  <2>1. r.pc = "truncate" /\ Proceed(cl, s) /\ UNCHANGED <<dir, link, disturbed>>
        /\ conf' = [conf EXCEPT ![c] = Empty]
    BY <1>8 DEF Truncate, At
  <2>2. Engaged(s) /\ s.name = c
    BY <1>2 DEF Engaged, Client
  <2>3. ~disturbed[c] => Leads(s, dir'[c], conf'[c], link'[c])
    BY <1>2, <1>3, <2>1, LeadsTruncate
  <2> HIDE DEF s
  <2> QED
    BY <1>1, <1>2, <1>3, <2>1, <2>2, <2>3, StepRecord
<1>9. CASE Write(cl)
  <2> DEFINE s == [r EXCEPT !.fd = "closed"]
  <2>1. r.pc = "write" /\ Proceed(cl, s) /\ UNCHANGED <<dir, link, disturbed>>
    BY <1>9 DEF Write, At
  <2>2. PICK new : /\ conf' = [conf EXCEPT ![c] = new]
                   /\ r.fd = "open" /\ conf[c] = Empty => new = r.cfg
    BY <1>9 DEF Write
  <2>3. Engaged(s) /\ s.name = c
    BY <1>2 DEF Engaged, Client
  <2>4. ~disturbed[c] => Leads(s, dir'[c], conf'[c], link'[c])
    BY <1>2, <1>3, <2>1, <2>2, LeadsWrite
  <2> HIDE DEF s
  <2> QED
    BY <1>1, <1>2, <1>3, <2>1, <2>2, <2>3, <2>4, StepRecord
<1>10. CASE Link(cl)
  <2>1. r.pc = "link" /\ Proceed(cl, r) /\ UNCHANGED <<dir, conf, disturbed>>
        /\ link' = [link EXCEPT ![c] = TRUE]
    BY <1>10 DEF Link, At
  <2>2. ~disturbed[c] => Leads(r, dir'[c], conf'[c], link'[c])
    BY <1>2, <1>3, <2>1, LeadsLink
  <2> QED
    BY <1>1, <1>2, <1>3, <2>1, <2>2, StepRecord
<1>11. CASE Rmdir(cl)
  <2>1. r.pc = "rmdir" /\ Proceed(cl, r) /\ UNCHANGED <<conf, link, disturbed>>
        /\ dir' = [dir EXCEPT ![c] = @ /\ ~(conf[c] = NoConf /\ ~link[c])]
    BY <1>11 DEF Rmdir, At
  <2>2. ~disturbed[c] => Leads(r, dir[c] /\ ~(conf[c] = NoConf /\ ~link[c]), conf[c], link[c])
    BY <1>2, <2>1, LeadsRmdir
  <2>3. dir'[c] = (dir[c] /\ ~(conf[c] = NoConf /\ ~link[c]))
    BY <1>2, <1>3, <2>1
  <2>4. ~disturbed[c] => Leads(r, dir'[c], conf'[c], link'[c])
    BY <2>1, <2>2, <2>3
  <2> QED
    BY <1>1, <1>2, <1>3, <2>1, <2>4, StepRecord
<1> QED
  BY <1>4, <1>5, <1>6, <1>7, <1>8, <1>9, <1>10, <1>11 DEF Work

\* Unlinking the files of a container that no other command works on.
LEMMA UnlinkRecord ==
    ASSUME RecordInv, WellFormed', NEW cl \in Clients, Unlink(cl)
    PROVE  RecordInv'
<1> DEFINE r == cli[cl]
           m == [r EXCEPT !.pc = "rmdir"]
<1>0. PICK c \in Names : c = r.name
  BY Commander DEF Unlink, At, Engaged
<1>1. r.pc = "unlink" /\ ~At(cl, "idle") /\ UNCHANGED <<dir, disturbed>>
      /\ conf' = [conf EXCEPT ![c] = NoConf] /\ link' = [link EXCEPT ![c] = FALSE]
  BY <1>0 DEF Unlink, At
<1>2. /\ Engaged(r) /\ r.op = "delete"
      /\ ~disturbed[c] => Doing(r, dir[c], conf[c], link[c]) /\ \A k \in Clients : Busy(k, c) => k = cl
  BY <1>0, <1>1, Commander DEF Engaged, Operation, After
<1>3. /\ dir \in [Names -> BOOLEAN] /\ conf \in [Names -> Config] /\ link \in [Names -> BOOLEAN]
  BY DEF RecordInv, WellFormed, TypeOK
<1>4. /\ cli'[cl] = m
      /\ \A k \in Clients : k # cl => cli'[k].pc = cli[k].pc /\ cli'[k].name = cli[k].name
                                      /\ (cli[k].name # c => cli'[k] = cli[k])
  <2>1. \A k \in Clients : cli[k] \in Client
    BY DEF RecordInv, WellFormed, TypeOK
  <2>2. \A k \in Clients :
          cli'[k] = IF k = cl THEN m
                    ELSE IF cli[k].name = c /\ cli[k].fd = "open" THEN [cli[k] EXCEPT !.fd = "stale"]
                    ELSE cli[k]
    BY <1>0 DEF Unlink
  <2>3. \A k \in Clients : LET q == [cli[k] EXCEPT !.fd = "stale"] IN
          q.pc = cli[k].pc /\ q.name = cli[k].name
    BY <2>1 DEF Client
  <2> HIDE DEF m
  <2> QED
    BY <2>2, <2>3
<1>5. m.pc = "rmdir" /\ m.op = "delete" /\ m.name = c /\ m.fd = r.fd
  BY <1>0, <1>2 DEF Engaged, Client
<1> HIDE DEF m
<1>6. Within(c)
  BY <1>0, <1>1, <1>2, <1>3, <1>4, <1>5 DEF Within
<1>7. ASSUME ~disturbed[c] PROVE RecordOK(c)'
  <2>1. \A k \in Clients : Busy(k, c)' <=> k = cl
    BY <1>1, <1>2, <1>4, <1>5, <1>7 DEF Busy
  <2>2. dir[c] /\ r.fd = "closed"
    BY <1>1, <1>2, <1>7 DEF Doing, DeleteOK, Present
  <2>3. Doing(m, dir'[c], conf'[c], link'[c])
    BY <1>1, <1>2, <1>3, <1>5, <2>2 DEF Doing, DeleteOK
  <2> QED
    BY <1>4, <2>1, <2>3 DEF RecordOK, Alone, Quiet
<1> QED
  BY <1>1, <1>2, <1>6, <1>7, Elsewhere DEF RecordInv

LEMMA AbortRecord ==
    ASSUME RecordInv, WellFormed', NEW cl \in Clients, Abort(cl)
    PROVE  RecordInv'
<1> DEFINE c == cli[cl].name
<1>1. ~At(cl, "idle") /\ c \in Names
  BY Commander DEF Abort, Engaged
<1>2. /\ cli \in [Clients -> Client] /\ disturbed \in [Names -> BOOLEAN]
  BY DEF RecordInv, WellFormed, TypeOK
<1>3. Within(c) /\ disturbed'[c]
  BY <1>1, <1>2 DEF Abort, Within, Idle
<1> QED
  BY <1>1, <1>3, Elsewhere DEF RecordInv

LEMMA InvokeRecord ==
    ASSUME RecordInv, WellFormed', NEW cl \in Clients, Invoke(cl)
    PROVE  RecordInv'
<1>1. ASSUME NEW c \in Names, Create(cl, c) PROVE RecordInv'
  <2> DEFINE new == [op |-> "create", pc |-> "isolate", name |-> c, cfg |-> Fresh,
                     child |-> NoPid, fd |-> "closed"]
  <2>1. ~dir[c] /\ Enter(cl, "create", c, Fresh)
    BY <1>1 DEF Create
  <2>2. Quiet(c) /\ ~disturbed[c] => Absent(dir[c], conf[c], link[c])
    BY <2>1 DEF RecordInv, RecordOK, AtRest, Present
  <2>3. Quiet(c) /\ ~disturbed[c] => Doing(new, dir[c], conf[c], link[c])
    BY <2>2 DEF Doing, CreateOK
  <2> QED
    BY <2>1, <2>3, EnterRecord, ConstantConfigs DEF Operation
<1>2. ASSUME NEW o \in DOMAIN Admitted, NEW c \in Names, Load(cl, o, c) PROVE RecordInv'
  <2>1. PICK cfg \in Config : cfg = conf[c]
    BY DEF RecordInv, WellFormed, TypeOK
  <2> DEFINE new == [op |-> o, pc |-> "isolate", name |-> c, cfg |-> cfg,
                     child |-> NoPid, fd |-> "closed"]
  <2>2. dir[c] /\ cfg.state \in Admitted[o] /\ Enter(cl, o, c, cfg)
    BY <1>2, <2>1 DEF Load
  <2>3. o \in {"start", "stop", "delete", "exec"} /\ o \in Operation
    BY DEF Admitted, Operation
  <2>4. Doing(new, dir[c], conf[c], link[c])
    <3>1. new.pc = "isolate" /\ new.op = o /\ new.fd = "closed"
      OBVIOUS
    <3>2. Present(dir[c], conf[c], Admitted[o])
      BY <2>1, <2>2 DEF Present
    <3> HIDE DEF new
    <3> QED
      BY <2>3, <3>1, <3>2 DEF Doing, StartOK, StopOK, DeleteOK, Admitted
  <2>5. o \in Operation /\ Enter(cl, o, c, cfg)
    BY <2>2, <2>3
  <2> QED
    BY <2>4, <2>5, EnterRecord
<1> QED
  BY <1>1, <1>2 DEF Invoke

LEMMA InitRecord == Init => RecordInv
<1> SUFFICES ASSUME Init PROVE RecordInv
  OBVIOUS
<1>1. \A k \in Clients, c \in Names : ~Busy(k, c)
  BY DEF Init, Busy, Idle
<1> QED
  BY <1>1, InitWellFormed DEF Init, RecordInv, RecordOK, Alone, AtRest, Absent

LEMMA RecordStep == RecordInv /\ [Next]_vars => RecordInv'
<1> SUFFICES ASSUME RecordInv, [Next]_vars PROVE RecordInv'
  OBVIOUS
<1>1. WellFormed'
  BY WellFormedStep DEF RecordInv
<1>2. ASSUME NEW cl \in Clients, Invoke(cl) \/ Work(cl) \/ Abort(cl) PROVE RecordInv'
  <2>1. MustFail(cl) => Abort(cl)
    BY DEF MustFail
  <2>2. CASE Invoke(cl)
    BY <1>1, <2>2, InvokeRecord
  <2>3. CASE Abort(cl)
    BY <1>1, <2>3, AbortRecord
  <2>4. CASE Unlink(cl)
    BY <1>1, <2>4, UnlinkRecord
  <2>5. CASE Work(cl) /\ ~MustFail(cl) /\ ~Unlink(cl)
    BY <1>1, <2>5, WorkRecord
  <2> QED
    BY <1>2, <2>1, <2>2, <2>3, <2>4, <2>5
<1>3. ASSUME UNCHANGED <<dir, conf, link, cli, disturbed>> PROVE RecordInv'
  BY <1>1, <1>3 DEF RecordInv, RecordOK, Alone, Quiet, Busy
<1> QED
  BY <1>2, <1>3 DEF Next, Exit, Spawn, vars

\* container.rs: as long as the commands on a container neither overlap nor
\* break off, its state directory is there exactly if it has a readable
\* configuration, so that no name becomes unusable.
THEOREM RecordCorrect == Spec => []RecordUsable
<1>1. RecordInv => RecordUsable
  BY DEF RecordInv, RecordOK, AtRest, Absent, Present, RecordUsable, Settled, NoConf, ContainerState
<1> QED
  BY InitRecord, RecordStep, <1>1, PTL DEF Spec

-----------------------------------------------------------------------------
(***************************************************************************)
(* ContainerLifecycle implements Lifecycle.                                *)
(***************************************************************************)
Status == [c \in Names |-> Promised(c)]

\* What a container at rest, and one that the command r works on, promises.
Resting(f) == IF f = NoConf THEN "absent" ELSE f.state
Shown(r, f) == IF r.pc = "write" THEN r.cfg.state ELSE Resting(f)

LEMMA PromisedElsewhere ==
    ASSUME NEW c \in Names, Within(c), NEW e \in Names, e # c
    PROVE  Promised(e)' = Promised(e)
<1>1. \A k \in Clients : (Busy(k, e)' <=> Busy(k, e)) /\ (Busy(k, e) => cli'[k] = cli[k])
  BY DEF Within, Busy
<1>2. Writers(e)' = Writers(e)
  BY <1>1 DEF Writers
<1>3. disturbed'[e] = disturbed[e] /\ conf'[e] = conf[e]
  BY DEF Within
<1>4. ASSUME Writers(e) # {} PROVE cli'[CHOOSE k \in Writers(e) : TRUE] = cli[CHOOSE k \in Writers(e) : TRUE]
  <2>1. PICK k \in Clients : k = (CHOOSE q \in Writers(e) : TRUE) /\ Busy(k, e)
    BY <1>4 DEF Writers
  <2> QED
    BY <1>1, <2>1
<1> QED
  BY <1>2, <1>3, <1>4 DEF Promised

LEMMA PromisedBusy ==
    ASSUME NEW c, ~disturbed[c], NEW cl \in Clients, Busy(cl, c),
           \A k \in Clients : Busy(k, c) => k = cl,
           cli[cl].fd = IF cli[cl].pc = "write" THEN "open" ELSE "closed"
    PROVE  Promised(c) = Shown(cli[cl], conf[c])
<1>1. Writers(c) = IF cli[cl].pc = "write" THEN {cl} ELSE {}
  BY DEF Writers
<1>2. (CHOOSE k \in {cl} : TRUE) = cl
  OBVIOUS
<1> QED
  BY <1>1, <1>2 DEF Promised, Shown, Resting

LEMMA PromisedBusyNext ==
    ASSUME NEW c, ~disturbed'[c], NEW cl \in Clients, Busy(cl, c)',
           \A k \in Clients : Busy(k, c)' => k = cl,
           cli'[cl].fd = IF cli'[cl].pc = "write" THEN "open" ELSE "closed"
    PROVE  Promised(c)' = Shown(cli'[cl], conf'[c])
<1>1. Writers(c)' = IF cli'[cl].pc = "write" THEN {cl} ELSE {}
  BY DEF Writers
<1>2. (CHOOSE k \in {cl} : TRUE) = cl
  OBVIOUS
<1> QED
  BY <1>1, <1>2 DEF Promised, Shown, Resting

LEMMA PromisedQuiet ==
    ASSUME NEW c, ~disturbed[c], Quiet(c)
    PROVE  Promised(c) = Resting(conf[c])
<1>1. Writers(c) = {}
  BY DEF Writers, Quiet
<1> QED
  BY <1>1 DEF Promised, Resting

LEMMA PromisedQuietNext ==
    ASSUME NEW c, ~disturbed'[c], Quiet(c)'
    PROVE  Promised(c)' = Resting(conf'[c])
<1>1. Writers(c)' = {}
  BY DEF Writers, Quiet
<1> QED
  BY <1>1 DEF Promised, Resting

\* The moves of Lifecycle on one container.
Moves(from, to) ==
    \/ to = "void" \/ to = from
    \/ from = "absent" /\ to = "created"
    \/ from \in {"created", "stopped"} /\ to \in {"running", "absent"}
    \/ from = "running" /\ to = "stopped"

LEMMA AbstractMove ==
    ASSUME NEW c \in Names, Within(c), Moves(Promised(c), Promised(c)')
    PROVE  [Abstract!Next]_Status
<1>1. Status' = [Status EXCEPT ![c] = Promised(c)']
  BY PromisedElsewhere DEF Status
<1>2. Status[c] = Promised(c)
  BY DEF Status
<1>3. CASE Promised(c)' = Promised(c)
  BY <1>1, <1>2, <1>3 DEF Status
<1>4. CASE Promised(c)' = "void"
  <2>1. Abstract!Void(c)
    BY <1>1, <1>4 DEF Abstract!Void, Status
  <2> QED
    BY <2>1 DEF Abstract!Next
<1>5. CASE Promised(c) = "absent" /\ Promised(c)' = "created"
  <2>1. Abstract!Create(c)
    BY <1>1, <1>2, <1>5 DEF Abstract!Create, Abstract!Move, Status
  <2> QED
    BY <2>1 DEF Abstract!Next
<1>6. CASE Promised(c) \in {"created", "stopped"} /\ Promised(c)' = "running"
  <2>1. Abstract!Start(c)
    BY <1>1, <1>2, <1>6 DEF Abstract!Start, Abstract!Move, Status
  <2> QED
    BY <2>1 DEF Abstract!Next
<1>7. CASE Promised(c) \in {"created", "stopped"} /\ Promised(c)' = "absent"
  <2>1. Abstract!Delete(c)
    BY <1>1, <1>2, <1>7 DEF Abstract!Delete, Abstract!Move, Status
  <2> QED
    BY <2>1 DEF Abstract!Next
<1>8. CASE Promised(c) = "running" /\ Promised(c)' = "stopped"
  <2>1. Abstract!Stop(c)
    BY <1>1, <1>2, <1>8 DEF Abstract!Stop, Abstract!Move, Status
  <2> QED
    BY <2>1 DEF Abstract!Next
<1> QED
  BY <1>3, <1>4, <1>5, <1>6, <1>7, <1>8 DEF Moves

LEMMA StepShows ==
    ASSUME RecordInv, RecordInv', NEW cl \in Clients, NEW c \in Names, c = cli[cl].name,
           ~At(cl, "idle"), ~disturbed[c], ~disturbed'[c],
           \A k \in Clients : k # cl => cli'[k].pc = cli[k].pc /\ cli'[k].name = cli[k].name,
           cli'[cl].pc = "idle" \/ cli'[cl].name = c
    PROVE  /\ Promised(c) = Shown(cli[cl], conf[c])
           /\ Promised(c)' = IF cli'[cl].pc = "idle" THEN Resting(conf'[c])
                             ELSE Shown(cli'[cl], conf'[c])
<1>1. RecordOK(c) /\ RecordOK(c)' /\ Busy(cl, c)
  BY DEF RecordInv, Busy, At
<1>2. \A k \in Clients : Busy(k, c) => k = cl
  BY <1>1 DEF RecordOK, Alone
<1>3. Promised(c) = Shown(cli[cl], conf[c])
  BY <1>1, <1>2, PromisedBusy DEF RecordOK, Doing
<1>4. \A k \in Clients : Busy(k, c)' => k = cl
  BY <1>2 DEF Busy
<1>5. CASE cli'[cl].pc = "idle"
  <2>1. Quiet(c)'
    BY <1>4, <1>5 DEF Quiet, Busy
  <2> QED
    BY <1>3, <1>5, <2>1, PromisedQuietNext
<1>6. CASE cli'[cl].pc # "idle"
  <2>1. Busy(cl, c)'
    BY <1>6 DEF Busy
  <2>2. cli'[cl].fd = IF cli'[cl].pc = "write" THEN "open" ELSE "closed"
    BY <1>1, <2>1 DEF RecordOK, Doing
  <2> QED
    BY <1>3, <1>4, <1>6, <2>1, <2>2, PromisedBusyNext
<1> QED
  BY <1>5, <1>6

\* Where a client goes that proceeds.
LEMMA Goes ==
    ASSUME RecordInv, NEW cl \in Clients, NEW r, Engaged(r), Proceed(cl, r)
    PROVE  /\ \A k \in Clients : k # cl => cli'[k] = cli[k]
           /\ cli'[cl].pc = After[r.op][r.pc]
           /\ cli'[cl].pc # "idle" => cli'[cl].name = r.name /\ cli'[cl].cfg = r.cfg
<1>1. cli \in [Clients -> Client]
  BY DEF RecordInv, WellFormed, TypeOK
<1> DEFINE n == After[r.op][r.pc]
           m == [r EXCEPT !.pc = n]
<1>2. m.pc = n /\ m.name = r.name /\ m.cfg = r.cfg
  BY DEF Engaged, Client
<1>3. Idle.pc = "idle"
  BY DEF Idle
<1>4. cli' = [cli EXCEPT ![cl] = IF n = "idle" THEN Idle ELSE m]
  BY DEF Proceed
<1> HIDE DEF m
<1> QED
  BY <1>1, <1>2, <1>3, <1>4

LEMMA OnlyTruncateWrites ==
    ASSUME NEW o \in Operation, NEW s \in DOMAIN After[o], After[o][s] = "write"
    PROVE  s = "truncate"
<1>1. CASE o = "create"  BY <1>1 DEF After
<1>2. CASE o = "start"   BY <1>2 DEF After
<1>3. CASE o = "stop"    BY <1>3 DEF After
<1>4. CASE o = "delete"  BY <1>4 DEF After
<1>5. CASE o = "exec"    BY <1>5 DEF After
<1> QED
  BY <1>1, <1>2, <1>3, <1>4, <1>5 DEF Operation

\* A step that leaves the config file alone promises nothing new.
LEMMA QuietMove ==
    ASSUME RecordInv, RecordInv', NEW cl \in Clients, ~At(cl, "idle"),
           NEW r, Engaged(r), r.name = cli[cl].name, r.op = cli[cl].op, r.pc = cli[cl].pc,
           Proceed(cl, r), r.pc \notin {"truncate", "write"},
           conf' = conf, disturbed' = disturbed,
           \A e \in Names : e # r.name => dir'[e] = dir[e] /\ link'[e] = link[e]
    PROVE  [Abstract!Next]_Status
<1> DEFINE c == r.name
<1>1. c \in Names
  BY DEF Engaged
<1>2. /\ \A k \in Clients : k # cl => cli'[k] = cli[k]
      /\ cli'[cl].pc = "idle" \/ cli'[cl].name = c
      /\ cli'[cl].pc # "write"
  BY Goes, OnlyTruncateWrites DEF Engaged
<1>3. Within(c)
  BY <1>2 DEF Within
<1>4. Promised(c)' = Promised(c)
  <2>1. CASE disturbed[c]
    BY <2>1 DEF Promised
  <2>2. CASE ~disturbed[c]
    BY <1>1, <1>2, <2>2, StepShows DEF Shown
  <2> QED
    BY <2>1, <2>2
<1> QED
  BY <1>1, <1>3, <1>4, AbstractMove DEF Moves

LEMMA TruncateMove ==
    ASSUME RecordInv, RecordInv', NEW cl \in Clients, Truncate(cl)
    PROVE  [Abstract!Next]_Status
<1> DEFINE r == cli[cl]
           s == [r EXCEPT !.fd = "open"]
<1>0. ~At(cl, "idle") /\ r.pc = "truncate"
  BY DEF Truncate, At
<1>1. PICK c \in Names : c = r.name
  BY <1>0, Commander DEF Engaged
<1>2. Engaged(r) /\ Engaged(s) /\ s.name = c /\ s.op = r.op /\ s.pc = r.pc /\ s.cfg = r.cfg
  BY <1>0, <1>1, Commander DEF Engaged, Client
<1>3. Proceed(cl, s) /\ UNCHANGED <<dir, link, disturbed>> /\ conf' = [conf EXCEPT ![c] = Empty]
  BY <1>1 DEF Truncate
<1> HIDE DEF s
<1>4. r.op \in {"create", "start", "stop"} /\ After[r.op][r.pc] = "write"
  BY <1>0, <1>2 DEF Engaged, Operation, After
<1>5. /\ \A k \in Clients : k # cl => cli'[k] = cli[k]
      /\ cli'[cl].pc = "write" /\ cli'[cl].name = c /\ cli'[cl].cfg = r.cfg
  BY <1>2, <1>3, <1>4, Goes
<1>6. Within(c)
  <2>1. conf \in [Names -> Config]
    BY DEF RecordInv, WellFormed, TypeOK
  <2> QED
    BY <1>1, <1>3, <1>5, <2>1 DEF Within
<1>7. CASE disturbed[c]
  BY <1>3, <1>6, <1>7, AbstractMove DEF Moves, Promised
<1>8. CASE ~disturbed[c]
  <2>1. Promised(c) = Resting(conf[c]) /\ Promised(c)' = r.cfg.state
    BY <1>0, <1>1, <1>3, <1>5, <1>8, StepShows DEF Shown
  <2>2. Doing(r, dir[c], conf[c], link[c])
    BY <1>0, <1>1, <1>8, Commander
  <2>3. Moves(Promised(c), Promised(c)')
    BY <1>0, <1>4, <2>1, <2>2 DEF Doing, CreateOK, StartOK, StopOK, Present, Moves, Resting,
                            Fresh, Halted, NoConf
  <2> QED
    BY <1>6, <2>3, AbstractMove
<1> QED
  BY <1>7, <1>8

LEMMA WriteMove ==
    ASSUME RecordInv, RecordInv', NEW cl \in Clients, Write(cl)
    PROVE  [Abstract!Next]_Status
<1> DEFINE r == cli[cl]
           s == [r EXCEPT !.fd = "closed"]
<1>0. ~At(cl, "idle") /\ r.pc = "write"
  BY DEF Write, At
<1>1. PICK c \in Names : c = r.name
  BY <1>0, Commander DEF Engaged
<1>2. Engaged(r) /\ Engaged(s) /\ s.name = c /\ s.op = r.op /\ s.pc = r.pc /\ s.cfg = r.cfg
  BY <1>0, <1>1, Commander DEF Engaged, Client
<1>3. Proceed(cl, s) /\ UNCHANGED <<dir, link, disturbed>>
  BY DEF Write
<1>4. PICK new : /\ conf' = [conf EXCEPT ![c] = new]
                 /\ r.fd = "open" /\ conf[c] = Empty => new = r.cfg
  BY <1>1 DEF Write
<1> HIDE DEF s
<1>5. /\ \A k \in Clients : k # cl => cli'[k] = cli[k]
      /\ cli'[cl].pc = "idle" \/ cli'[cl].name = c
      /\ cli'[cl].pc # "write"
  BY <1>0, <1>2, <1>3, Goes, OnlyTruncateWrites DEF Engaged
<1>6. conf \in [Names -> Config]
  BY DEF RecordInv, WellFormed, TypeOK
<1>7. Within(c)
  BY <1>1, <1>3, <1>4, <1>5, <1>6 DEF Within
<1>8. Promised(c)' = Promised(c)
  <2>1. CASE disturbed[c]
    BY <1>3, <2>1 DEF Promised
  <2>2. CASE ~disturbed[c]
    <3>1. Promised(c) = r.cfg.state /\ Promised(c)' = Resting(conf'[c])
      BY <1>0, <1>1, <1>3, <1>5, <2>2, StepShows DEF Shown
    <3>2. Doing(r, dir[c], conf[c], link[c])
      BY <1>0, <1>1, <2>2, Commander
    <3>3. conf'[c] = r.cfg /\ r.cfg.state \in ContainerState
      BY <1>0, <1>2, <1>4, <1>6, <3>2, LeadsWrite
    <3> QED
      BY <3>1, <3>3 DEF Resting, NoConf, ContainerState
  <2> QED
    BY <2>1, <2>2
<1> QED
  BY <1>7, <1>8, AbstractMove DEF Moves

LEMMA UnlinkMove ==
    ASSUME RecordInv, RecordInv', NEW cl \in Clients, Unlink(cl)
    PROVE  [Abstract!Next]_Status
<1> DEFINE r == cli[cl]
<1>0. ~At(cl, "idle") /\ r.pc = "unlink"
  BY DEF Unlink, At
<1>1. PICK c \in Names : c = r.name
  BY <1>0, Commander DEF Engaged
<1>2. Engaged(r) /\ r.op = "delete"
  BY <1>0, Commander DEF Engaged, Operation, After
<1>3. /\ UNCHANGED <<dir, disturbed>>
      /\ conf' = [conf EXCEPT ![c] = NoConf] /\ link' = [link EXCEPT ![c] = FALSE]
  BY <1>1 DEF Unlink
<1>4. /\ cli'[cl].pc = "rmdir" /\ cli'[cl].name = c
      /\ \A k \in Clients : k # cl => /\ cli'[k].pc = cli[k].pc /\ cli'[k].name = cli[k].name
                                      /\ cli[k].name # c => cli'[k] = cli[k]
  <2>1. \A k \in Clients : cli[k] \in Client
    BY DEF RecordInv, WellFormed, TypeOK
  <2>2. \A k \in Clients :
          cli'[k] = IF k = cl THEN [r EXCEPT !.pc = "rmdir"]
                    ELSE IF cli[k].name = c /\ cli[k].fd = "open" THEN [cli[k] EXCEPT !.fd = "stale"]
                    ELSE cli[k]
    BY <1>1 DEF Unlink
  <2>3. \A k \in Clients : LET q == [cli[k] EXCEPT !.fd = "stale"] IN
          q.pc = cli[k].pc /\ q.name = cli[k].name
    BY <2>1 DEF Client
  <2>4. [r EXCEPT !.pc = "rmdir"].pc = "rmdir" /\ [r EXCEPT !.pc = "rmdir"].name = c
    BY <1>1, <2>1 DEF Client
  <2> QED
    BY <2>2, <2>3, <2>4
<1>5. conf \in [Names -> Config] /\ link \in [Names -> BOOLEAN]
  BY DEF RecordInv, WellFormed, TypeOK
<1>6. Within(c)
  BY <1>1, <1>3, <1>4, <1>5 DEF Within
<1>7. CASE disturbed[c]
  BY <1>3, <1>6, <1>7, AbstractMove DEF Moves, Promised
<1>8. CASE ~disturbed[c]
  <2>1. Promised(c) = Resting(conf[c]) /\ Promised(c)' = "absent"
    BY <1>0, <1>1, <1>3, <1>4, <1>5, <1>8, StepShows DEF Shown, Resting
  <2>2. Present(dir[c], conf[c], {"created", "stopped"})
    BY <1>0, <1>1, <1>2, <1>8, Commander DEF Doing, DeleteOK
  <2>3. Moves(Promised(c), Promised(c)')
    BY <2>1, <2>2 DEF Present, Moves, Resting, NoConf
  <2> QED
    BY <1>6, <2>3, AbstractMove
<1> QED
  BY <1>7, <1>8

LEMMA EnterMove ==
    ASSUME RecordInv, NEW cl \in Clients, NEW o, NEW c \in Names, NEW cfg, Enter(cl, o, c, cfg)
    PROVE  [Abstract!Next]_Status
<1>1. cli \in [Clients -> Client] /\ disturbed \in [Names -> BOOLEAN]
  BY DEF RecordInv, WellFormed, TypeOK
<1>2. /\ cli'[cl].pc = "isolate" /\ cli'[cl].name = c /\ cli'[cl].fd = "closed"
      /\ cli[cl].pc = "idle" /\ UNCHANGED <<dir, conf, link>>
      /\ \A k \in Clients : k # cl => cli'[k] = cli[k]
      /\ disturbed'[c] = (disturbed[c] \/ ~Quiet(c))
      /\ \A e \in Names : e # c => disturbed'[e] = disturbed[e]
  BY <1>1 DEF Enter, At
<1>3. Within(c)
  BY <1>2 DEF Within
<1>4. CASE disturbed'[c]
  BY <1>3, <1>4, AbstractMove DEF Moves, Promised
<1>5. CASE ~disturbed'[c]
  <2>1. ~disturbed[c] /\ Quiet(c)
    BY <1>2, <1>5
  <2>2. Promised(c) = Resting(conf[c])
    BY <2>1, PromisedQuiet
  <2>3. Busy(cl, c)' /\ \A k \in Clients : Busy(k, c)' => k = cl
    BY <1>2, <2>1 DEF Quiet, Busy
  <2>4. Promised(c)' = Resting(conf[c])
    BY <1>2, <1>5, <2>3, PromisedBusyNext DEF Shown
  <2> QED
    BY <1>3, <2>2, <2>4, AbstractMove DEF Moves
<1> QED
  BY <1>4, <1>5

LEMMA AbortMove ==
    ASSUME RecordInv, NEW cl \in Clients, Abort(cl)
    PROVE  [Abstract!Next]_Status
<1>1. PICK c \in Names : c = cli[cl].name
  BY Commander DEF Abort, Engaged
<1>2. cli \in [Clients -> Client] /\ disturbed \in [Names -> BOOLEAN]
  BY DEF RecordInv, WellFormed, TypeOK
<1>3. Within(c) /\ disturbed'[c]
  BY <1>1, <1>2 DEF Abort, Within, Idle
<1> QED
  BY <1>3, AbstractMove DEF Moves, Promised

LEMMA WorkMove ==
    ASSUME RecordInv, RecordInv', NEW cl \in Clients, Work(cl)
    PROVE  [Abstract!Next]_Status
<1> DEFINE r == cli[cl]
<1>1. CASE MustFail(cl)
  BY <1>1, AbortMove DEF MustFail
<1>2. CASE Truncate(cl) \/ Write(cl) \/ Unlink(cl)
  BY <1>2, TruncateMove, WriteMove, UnlinkMove
<1>3. CASE Isolate(cl) \/ Limit(cl) \/ Drain(cl) \/ RemoveCgroup(cl) \/ Attach(cl) \/ Term(cl)
             \/ Mkdir(cl) \/ Link(cl) \/ Rmdir(cl)
  <2>1. /\ ~At(cl, "idle") /\ r.pc \notin {"truncate", "write"} /\ Proceed(cl, r)
        /\ conf' = conf /\ disturbed' = disturbed
    BY <1>3 DEF Isolate, Limit, Drain, RemoveCgroup, Attach, Term, Mkdir, Link, Rmdir, At
  <2>2. Engaged(r)
    BY <2>1, Commander
  <2>3. \A e \in Names : e # r.name => dir'[e] = dir[e] /\ link'[e] = link[e]
    <3>1. dir \in [Names -> BOOLEAN] /\ link \in [Names -> BOOLEAN]
      BY DEF RecordInv, WellFormed, TypeOK
    <3> QED
      BY <1>3, <3>1 DEF Isolate, Limit, Drain, RemoveCgroup, Attach, Term, Mkdir, Link, Rmdir
  <2> QED
    BY <2>1, <2>2, <2>3, QuietMove
<1>4. CASE Fork(cl)
  <2>1. PICK p \in Pids :
          Proceed(cl, [r EXCEPT !.child = p, !.cfg = IF r.op = "start" THEN Running(p) ELSE @])
    BY <1>4 DEF Fork, FreePids
  <2> DEFINE s == [r EXCEPT !.child = p, !.cfg = IF r.op = "start" THEN Running(p) ELSE @]
  <2>2. r.pc = "fork" /\ ~At(cl, "idle") /\ UNCHANGED <<dir, conf, link, disturbed>>
    BY <1>4 DEF Fork, At
  <2>3. Engaged(r)
    BY <2>2, Commander
  <2>4. Engaged(s) /\ s.name = r.name /\ s.op = r.op /\ s.pc = r.pc
    BY <2>3, RunningIsConfig DEF Engaged, Client
  <2> HIDE DEF s
  <2> QED
    BY <2>1, <2>2, <2>4, QuietMove DEF s
<1>5. CASE Kill(cl)
  <2> DEFINE s == [r EXCEPT !.cfg = Halted]
  <2>1. r.pc = "kill" /\ ~At(cl, "idle") /\ Proceed(cl, s) /\ UNCHANGED <<dir, conf, link, disturbed>>
    BY <1>5 DEF Kill, At
  <2>2. Engaged(r)
    BY <2>1, Commander
  <2>3. Engaged(s) /\ s.name = r.name /\ s.op = r.op /\ s.pc = r.pc
    BY <2>2, ConstantConfigs DEF Engaged, Client
  <2> HIDE DEF s
  <2> QED
    BY <2>1, <2>3, QuietMove
<1> QED
  BY <1>1, <1>2, <1>3, <1>4, <1>5 DEF Work

LEMMA StepMove ==
    ASSUME RecordInv, RecordInv', [Next]_vars
    PROVE  [Abstract!Next]_Status
<1>1. ASSUME NEW cl \in Clients, Invoke(cl) PROVE [Abstract!Next]_Status
  <2>1. ASSUME NEW c \in Names, Create(cl, c) PROVE [Abstract!Next]_Status
    BY <2>1, EnterMove DEF Create
  <2>2. ASSUME NEW o \in DOMAIN Admitted, NEW c \in Names, Load(cl, o, c)
        PROVE  [Abstract!Next]_Status
    <3>1. PICK cfg : cfg = conf[c]
      OBVIOUS
    <3> QED
      BY <2>2, <3>1, EnterMove DEF Load
  <2> QED
    BY <1>1, <2>1, <2>2 DEF Invoke
<1>2. ASSUME UNCHANGED <<conf, cli, disturbed>> PROVE Status' = Status
  BY <1>2 DEF Status, Promised, Writers, Busy
<1> QED
  BY <1>1, <1>2, WorkMove, AbortMove DEF Next, Exit, Spawn, vars

LEMMA InitMove == Init => Abstract!Init
<1> SUFFICES ASSUME Init PROVE Abstract!Init
  OBVIOUS
<1>1. \A c \in Names : Promised(c) = "absent"
  <2> SUFFICES ASSUME NEW c \in Names PROVE Promised(c) = "absent"
    OBVIOUS
  <2>1. Quiet(c)
    BY DEF Init, Quiet, Busy, Idle
  <2> QED
    BY <2>1, PromisedQuiet DEF Init, Resting
<1> QED
  BY <1>1 DEF Abstract!Init

\* container.rs: system call by system call, create, start, stop and delete do
\* what the four states of a container promise, for any number of commands and
\* containers, as long as those on one container neither overlap nor break off.
THEOREM Refinement == Spec => RefinesLifecycle
<1>1. RecordInv /\ RecordInv' /\ [Next]_vars => [Abstract!Next]_Status
  BY StepMove
<1>2. RecordInv /\ RecordInv' /\ [Next]_vars => [Abstract!Next]_[c \in Names |-> Promised(c)]
  BY <1>1 DEF Status
<1> QED
  BY InitMove, InitRecord, RecordStep, <1>2, PTL DEF Spec, RefinesLifecycle, Abstract!Spec

-----------------------------------------------------------------------------
(***************************************************************************)
(* The processes that start has spawned, and the cgroup they are in, while *)
(* the commands on their container neither overlap nor break off.          *)
(***************************************************************************)
\* The process that may live while the command r is at work, and when none is;
\* f is what the config file holds.
Due(r, f) ==
    IF r.op = "exec" THEN {f.pid}
    ELSE IF \/ r.op = "start" /\ r.pc \in {"attach", "mkdir", "truncate", "write"}
            \/ r.op = "stop" /\ r.pc \in {"isolate", "term", "kill"}
         THEN {r.cfg.pid}
    ELSE {}

Recorded(f) == IF f.state = "running" THEN {f.pid} ELSE {}

Own(c) == \A p \in LiveInits(c) : procs[p].group = "own"

\* The cgroup of c has its limits, and the processes of c are in it, or start
\* has warned of it.
Fenced(c) == warned[c] \/ cgroup[c] = "limited"
Housed(c) == warned[c] \/ Own(c)

\* live are the init processes of the container that live, g says that it is
\* fenced, and own that they are housed.
Sheltered(live, g, own) == live # {} => g /\ own

Attaching(r) == r.op = "start" /\ r.pc = "attach"

Tended(r, f, live, g, own) ==
    /\ live \subseteq Due(r, f)
    /\ Attaching(r) => r.child = r.cfg.pid
    /\ r.op = "start" /\ r.pc \in {"fork", "attach"} => g
    /\ ~Attaching(r) => Sheltered(live, g, own)

Left(f, live, g, own) == live \subseteq Recorded(f) /\ Sheltered(live, g, own)

HouseOK(c) ==
    /\ Quiet(c) => Left(conf[c], LiveInits(c), Fenced(c), Housed(c))
    /\ \A k \in Clients : Busy(k, c) => Tended(cli[k], conf[c], LiveInits(c), Fenced(c), Housed(c))

HouseInv == \A c \in Names : ~disturbed[c] => HouseOK(c)

\* No process of the container is new, and none leaves its cgroup.
Calm(c) == LiveInits(c)' \subseteq LiveInits(c) /\ (Own(c) => Own(c)')

\* Its cgroup and the warnings are as they were.
Same(c) == cgroup'[c] = cgroup[c] /\ warned'[c] = warned[c]

LEMMA HouseElsewhere ==
    ASSUME HouseInv, NEW c \in Names, Within(c), NEW e \in Names, e # c, ~disturbed'[e],
           Calm(e), Same(e)
    PROVE  HouseOK(e)'
<1>1. \A k \in Clients : (Busy(k, e)' <=> Busy(k, e)) /\ (Busy(k, e) => cli'[k] = cli[k])
  BY DEF Within, Busy
<1>2. HouseOK(e) /\ conf'[e] = conf[e]
  BY DEF HouseInv, Within
<1>3. Quiet(e)' <=> Quiet(e)
  BY <1>1 DEF Quiet
<1>4. Sheltered(LiveInits(e), Fenced(e), Housed(e)) => Sheltered(LiveInits(e)', Fenced(e)', Housed(e)')
  BY DEF Sheltered, Calm, Same, Fenced, Housed
<1>5. Quiet(e)' => Left(conf'[e], LiveInits(e)', Fenced(e)', Housed(e)')
  BY <1>2, <1>3, <1>4 DEF HouseOK, Left, Calm
<1>6. ASSUME NEW k \in Clients, Busy(k, e)'
      PROVE  Tended(cli'[k], conf'[e], LiveInits(e)', Fenced(e)', Housed(e)')
  BY <1>1, <1>2, <1>4, <1>6 DEF HouseOK, Tended, Calm, Same, Fenced
<1> QED
  BY <1>5, <1>6 DEF HouseOK

\* What a step makes of the processes of a command that is alone.
Tends(r, f, live, g, own) ==
    LET n == After[r.op][r.pc] IN
    IF n = "idle" THEN Left(f, live, g, own) ELSE Tended([r EXCEPT !.pc = n], f, live, g, own)

LEMMA ProceedHouse ==
    ASSUME RecordInv, HouseInv, NEW cl \in Clients, ~At(cl, "idle"),
           NEW r, Engaged(r), r.name = cli[cl].name, Proceed(cl, r),
           disturbed' = disturbed,
           \A e \in Names : e # r.name =>
               /\ dir'[e] = dir[e] /\ conf'[e] = conf[e] /\ link'[e] = link[e]
               /\ Same(e) /\ Calm(e),
           ~disturbed[r.name] =>
               Tends(r, conf'[r.name], LiveInits(r.name)', Fenced(r.name)', Housed(r.name)')
    PROVE  HouseInv'
<1> DEFINE c == r.name
           n == After[r.op][r.pc]
           m == [r EXCEPT !.pc = n]
<1>1. c \in Names /\ cli \in [Clients -> Client] /\ Busy(cl, c)
  BY DEF Engaged, RecordInv, WellFormed, TypeOK, Busy, At
<1>2. /\ cli'[cl] = IF n = "idle" THEN Idle ELSE m
      /\ \A k \in Clients : k # cl => cli'[k] = cli[k]
  BY <1>1 DEF Proceed
<1>3. m.name = c /\ m.pc = n
  BY DEF Engaged, Client
<1>4. Idle.pc = "idle"
  BY DEF Idle
<1>5. Tends(r, conf'[c], LiveInits(c)', Fenced(c)', Housed(c)') =>
        IF n = "idle" THEN Left(conf'[c], LiveInits(c)', Fenced(c)', Housed(c)')
        ELSE Tended(m, conf'[c], LiveInits(c)', Fenced(c)', Housed(c)')
  BY DEF Tends
<1> HIDE DEF m
<1>6. Within(c)
  BY <1>1, <1>2, <1>3, <1>4 DEF Within, Busy
<1>7. ASSUME ~disturbed[c] PROVE HouseOK(c)'
  <2>1. \A k \in Clients : k # cl => ~Busy(k, c)'
    BY <1>1, <1>2, <1>7 DEF RecordInv, RecordOK, Alone, Busy
  <2>2. Busy(cl, c)' <=> n # "idle"
    BY <1>2, <1>3, <1>4 DEF Busy
  <2>3. CASE n = "idle"
    BY <1>5, <1>7, <2>1, <2>2, <2>3 DEF HouseOK
  <2>4. CASE n # "idle"
    BY <1>2, <1>5, <1>7, <2>1, <2>2, <2>4 DEF HouseOK, Quiet
  <2> QED
    BY <2>3, <2>4
<1> QED
  BY <1>1, <1>6, <1>7, HouseElsewhere DEF HouseInv

-----------------------------------------------------------------------------
\* What the steps do to the processes of containers.
LEMMA CalmReap ==
    ASSUME WellFormed, NEW gone, procs' = Reap(gone)
    PROVE  \A c \in Names : Calm(c) /\ LiveInits(c)' \cap gone = {}
<1>1. \A p \in Pids : procs[p] \in Process
  BY DEF WellFormed, TypeOK
<1>2. \A p \in Pids : procs'[p] = IF p \in gone /\ procs[p].status = "alive"
                                  THEN [procs[p] EXCEPT !.status = "dead", !.group = "host"]
                                  ELSE procs[p]
  BY DEF Reap
<1>3. \A q \in Process : [q EXCEPT !.status = "dead", !.group = "host"].status = "dead"
  BY DEF Process
<1>4. \A p \in Pids : procs'[p].status = "alive" => p \notin gone /\ procs'[p] = procs[p]
  BY <1>1, <1>2, <1>3
<1> QED
  BY <1>4 DEF Calm, LiveInits, Own

LEMMA CalmStill == ASSUME procs' = procs PROVE \A c : Calm(c) /\ LiveInits(c)' = LiveInits(c)
BY DEF Calm, LiveInits, Own

LEMMA CalmNew ==
    ASSUME WellFormed, NEW p \in FreePids, NEW new \in Process, procs' = [procs EXCEPT ![p] = new],
           NEW c \in Names
    PROVE  /\ new.owner # c \/ new.role # "init" => Calm(c)
           /\ LiveInits(c)' \subseteq LiveInits(c) \cup {p}
<1>1. p \in Pids /\ procs[p].status # "alive"
  BY DEF FreePids
<1>2. procs'[p] = new /\ \A q \in Pids : q # p => procs'[q] = procs[q]
  BY <1>1 DEF WellFormed, TypeOK
<1>3. LiveInits(c)' \subseteq LiveInits(c) \cup {p}
  BY <1>2 DEF LiveInits
<1>4. ASSUME new.owner # c \/ new.role # "init" PROVE Calm(c)
  <2>1. p \notin LiveInits(c)'
    BY <1>2, <1>4 DEF LiveInits
  <2>2. \A q \in LiveInits(c)' : q \in LiveInits(c) /\ procs'[q] = procs[q]
    BY <1>2, <1>3, <2>1 DEF LiveInits
  <2> QED
    BY <2>2 DEF Calm, Own
<1> QED
  BY <1>3, <1>4

LEMMA CalmDrain ==
    ASSUME WellFormed, NEW cl \in Clients, Drain(cl), NEW c \in Names
    PROVE  LiveInits(c)' = LiveInits(c) /\ (c # cli[cl].name => Calm(c))
<1>1. PICK moved \in {{}, Members(cli[cl].name)} :
        procs' = [p \in Pids |-> IF p \in moved THEN [procs[p] EXCEPT !.group = "parent"] ELSE procs[p]]
  BY DEF Drain
<1>2. \A p \in Pids : procs[p] \in Process
  BY DEF WellFormed, TypeOK
<1>3. \A q \in Process : LET s == [q EXCEPT !.group = "parent"] IN
        s.status = q.status /\ s.owner = q.owner /\ s.role = q.role
  BY DEF Process
<1>4. \A p \in Pids : /\ procs'[p].status = procs[p].status /\ procs'[p].owner = procs[p].owner
                      /\ procs'[p].role = procs[p].role
                      /\ procs[p].owner # cli[cl].name => procs'[p] = procs[p]
  BY <1>1, <1>2, <1>3 DEF Members
<1>5. LiveInits(c)' = LiveInits(c)
  BY <1>4 DEF LiveInits
<1> QED
  BY <1>4, <1>5 DEF Calm, Own, LiveInits

LEMMA CalmAttach ==
    ASSUME WellFormed, NEW cl \in Clients, Attach(cl), NEW c \in Names
    PROVE  /\ Calm(c) /\ LiveInits(c)' = LiveInits(c)
           /\ c = cli[cl].name /\ cli[cl].op = "start" /\ Fenced(c) /\ LiveInits(c) \subseteq {cli[cl].child}
                => Housed(c)'
<1> DEFINE r == cli[cl]
           exists == cgroup[r.name] # "none"
           alive == procs[r.child].status = "alive"
<1>0. PICK into \in {FALSE, exists /\ alive} :
          /\ procs' = IF into THEN [procs EXCEPT ![r.child].group = "own"] ELSE procs
          /\ Warn(cl, exists /\ ~into)
  BY DEF Attach
<1>1. procs' = IF into THEN [procs EXCEPT ![r.child].group = "own"] ELSE procs
  BY <1>0
<1>2. \A p \in Pids : procs[p] \in Process
  BY DEF WellFormed, TypeOK
<1>3. \A q \in Process : LET s == [q EXCEPT !.group = "own"] IN
        s.status = q.status /\ s.owner = q.owner /\ s.role = q.role /\ s.group = "own"
  BY DEF Process
<1>4. procs \in [Pids -> Process]
  BY DEF WellFormed, TypeOK
<1>5. \A p \in Pids : procs'[p] = IF into /\ p = r.child THEN [procs[p] EXCEPT !.group = "own"] ELSE procs[p]
  BY <1>1, <1>4
<1>6. \A p \in Pids : /\ procs'[p].status = procs[p].status /\ procs'[p].owner = procs[p].owner
                      /\ procs'[p].role = procs[p].role
                      /\ procs'[p].group = procs[p].group \/ procs'[p].group = "own"
                      /\ into /\ p = r.child => procs'[p].group = "own"
  <2> SUFFICES ASSUME NEW p \in Pids
      PROVE  /\ procs'[p].status = procs[p].status /\ procs'[p].owner = procs[p].owner
             /\ procs'[p].role = procs[p].role
             /\ procs'[p].group = procs[p].group \/ procs'[p].group = "own"
             /\ into /\ p = r.child => procs'[p].group = "own"
    OBVIOUS
  <2>1. CASE into /\ p = r.child
    <3>1. procs'[p] = [procs[p] EXCEPT !.group = "own"]
      BY <1>5, <2>1
    <3>2. procs[p] \in Process
      BY <1>2
    <3> QED
      BY <1>3, <2>1, <3>1, <3>2
  <2>2. CASE ~(into /\ p = r.child)
    BY <1>5, <2>2
  <2> QED
    BY <2>1, <2>2
<1>7. LiveInits(c)' = LiveInits(c)
  BY <1>6 DEF LiveInits
<1>8. Own(c) => Own(c)'
  BY <1>6, <1>7 DEF Own, LiveInits
<1>9. ASSUME c = r.name, r.op = "start", Fenced(c), LiveInits(c) \subseteq {r.child} PROVE Housed(c)'
  <2>1. warned \in [Names -> BOOLEAN]
    BY DEF WellFormed, TypeOK
  <2>2. warned'[c] = (warned[c] \/ (exists /\ ~into))
    BY <1>0, <1>9, <2>1 DEF Warn
  <2>3. CASE into
    BY <1>6, <1>7, <1>9, <2>3 DEF Own, LiveInits, Housed
  <2>4. CASE ~into
    <3>1. cgroup[c] = "limited" => exists
      BY <1>9
    <3> QED
      BY <1>9, <2>2, <2>4, <3>1 DEF Fenced, Housed
  <2> QED
    BY <2>3, <2>4
<1> QED
  BY <1>7, <1>8, <1>9 DEF Calm

-----------------------------------------------------------------------------
\* Each kind of step, for a command that is alone on its container.
LEMMA MovedOn ==
    ASSUME NEW r, Engaged(r), NEW n
    PROVE  LET m == [r EXCEPT !.pc = n] IN
           m.pc = n /\ m.op = r.op /\ m.cfg = r.cfg /\ m.child = r.child
BY DEF Engaged, Client

LEMMA Shrinks ==
    ASSUME NEW live, NEW g, NEW own, Sheltered(live, g, own),
           NEW live2, NEW own2, live2 \subseteq live, own => own2
    PROVE  Sheltered(live2, g, own2)
BY DEF Sheltered

\* isolate, mkdir, truncate, link, term and rmcgroup: no process comes, and a
\* cgroup with limits stays as long as there is one to shelter.
LEMMA TendsOn ==
    ASSUME NEW r, Engaged(r), NEW d, NEW f, NEW l, Doing(r, d, f, l),
           NEW live, NEW g, NEW own, Tended(r, f, live, g, own),
           r.pc \in {"isolate", "mkdir", "truncate", "link", "term", "drain", "rmcgroup", "unlink", "rmdir"},
           NEW f2, r.pc \in {"truncate", "unlink"} \/ f2 = f,
           NEW live2, live2 \subseteq live, NEW g2, g => g2 \/ r.pc = "rmcgroup",
           NEW own2, own => own2 \/ r.pc = "drain"
    PROVE  Tends(r, f2, live2, g2, own2)
<1> DEFINE n == After[r.op][r.pc]
           m == [r EXCEPT !.pc = n]
<1>1. m.pc = n /\ m.op = r.op /\ m.cfg = r.cfg /\ m.child = r.child
  BY MovedOn
<1> HIDE DEF m
<1>2. live \subseteq Due(r, f) /\ Sheltered(live, g, own)
  BY DEF Tended, Attaching
<1>3. r.pc \in {"drain", "rmcgroup", "link", "unlink", "rmdir"} => live2 = {}
  <2>1. r.pc \in {"drain", "rmcgroup", "link", "unlink", "rmdir"} => r.op # "exec"
    BY DEF Engaged, After
  <2> QED
    BY <1>2, <2>1 DEF Due
<1>4. Sheltered(live2, g2, own2)
  BY <1>2, <1>3 DEF Sheltered
<1>5. CASE r.op = "exec"
  <2>1. r.pc = "isolate" /\ n = "fork"
    BY <1>5 DEF Engaged, After
  <2> QED
    BY <1>1, <1>2, <1>4, <1>5, <2>1 DEF Tends, Tended, Due, Attaching, m
<1>6. CASE r.op = "start"
  <2>1. \/ r.pc = "isolate" /\ n = "limit"
        \/ r.pc = "mkdir" /\ n = "truncate"
        \/ r.pc = "truncate" /\ n = "write"
    BY <1>6 DEF Engaged, After
  <2>2. Tended(m, f2, live2, g2, own2)
    BY <1>1, <1>2, <1>4, <1>6, <2>1 DEF Tended, Due, Attaching
  <2> QED
    BY <2>1, <2>2 DEF Tends, m
<1>7. CASE r.op \in {"create", "delete"}
  <2>1. live2 = {}
    BY <1>2, <1>7 DEF Due
  <2> QED
    BY <1>1, <1>4, <1>7, <2>1 DEF Tends, Tended, Left, Attaching, m
<1>8. CASE r.op = "stop"
  <2>1. \/ r.pc \in {"isolate", "term"} /\ n \in {"term", "kill"}
        \/ r.pc \notin {"isolate", "term", "kill"}
    BY <1>8 DEF Engaged, After
  <2>2. \/ live2 = {}
        \/ n \in {"term", "kill"} /\ live2 \subseteq {r.cfg.pid}
    BY <1>2, <1>8, <2>1 DEF Due
  <2>3. n # "idle" => Tended(m, f2, live2, g2, own2)
    BY <1>1, <1>4, <1>8, <2>2 DEF Tended, Due, Attaching
  <2>4. n = "idle" => Left(f2, live2, g2, own2)
    BY <1>4, <2>2 DEF Left
  <2> QED
    BY <2>3, <2>4 DEF Tends, m
<1> QED
  BY <1>5, <1>6, <1>7, <1>8 DEF Engaged, Operation

LEMMA TendsLimit ==
    ASSUME NEW r, Engaged(r), NEW f, NEW live, NEW g, NEW own, Tended(r, f, live, g, own),
           r.pc = "limit", NEW g2, NEW own2, r.op = "start" => g2
    PROVE  Tends(r, f, live, g2, own2)
<1> DEFINE n == After[r.op][r.pc]
           m == [r EXCEPT !.pc = n]
<1>1. m.pc = n /\ m.op = r.op /\ m.cfg = r.cfg /\ m.child = r.child
  BY MovedOn
<1> HIDE DEF m
<1>2. \/ r.op = "create" /\ n = "mkdir"
      \/ r.op = "start" /\ n = "fork"
  <2>1. CASE r.op = "create"
    BY <2>1 DEF After
  <2>2. CASE r.op = "start"
    BY <2>2 DEF After
  <2>3. r.op \notin {"stop", "delete", "exec"}
    BY DEF Engaged, After
  <2> QED
    BY <2>1, <2>2, <2>3 DEF Engaged, Operation
<1>3. live = {}
  BY <1>2 DEF Tended, Due
<1> QED
  BY <1>1, <1>2, <1>3 DEF Tends, Tended, Sheltered, Attaching, m

\* The command r once fork has returned p.
Forked(r, p) == [r EXCEPT !.child = p, !.cfg = IF r.op = "start" THEN Running(p) ELSE @]

LEMMA TendsFork ==
    ASSUME NEW r, Engaged(r), NEW f, NEW live, NEW g, NEW own, Tended(r, f, live, g, own),
           r.pc = "fork", NEW p \in Pids, NEW live2, NEW own2,
           live2 \subseteq live \cup {p},
           r.op # "start" => live2 \subseteq live /\ (own => own2),
           NEW s, s = Forked(r, p)
    PROVE  Tends(s, f, live2, g, own2)
<1> DEFINE m == [s EXCEPT !.pc = "attach"]
<1>1. r.op \in {"start", "exec"} /\ After[r.op][r.pc] = "attach"
  BY DEF Engaged, Operation, After
<1>2. /\ s.op = r.op /\ s.pc = r.pc
      /\ m.op = r.op /\ m.pc = "attach" /\ m.child = p
      /\ r.op = "start" => m.cfg = Running(p)
  BY DEF Engaged, Client, Forked
<1> HIDE DEF m
<1>3. CASE r.op = "start"
  <2>1. live2 \subseteq {p}
    BY <1>3 DEF Tended, Due
  <2>2. Running(p).pid = p
    BY DEF Running
  <2>3. g
    BY <1>3 DEF Tended
  <2>4. Tended(m, f, live2, g, own2)
    BY <1>2, <1>3, <2>1, <2>2, <2>3 DEF Tended, Due, Attaching
  <2> QED
    BY <1>1, <1>2, <2>4 DEF Tends, m
<1>4. CASE r.op = "exec"
  <2>1. Tended(m, f, live2, g, own2)
    BY <1>2, <1>4 DEF Tended, Due, Attaching, Sheltered
  <2> QED
    BY <1>1, <1>2, <2>1 DEF Tends, m
<1> QED
  BY <1>1, <1>3, <1>4

LEMMA TendsAttach ==
    ASSUME NEW r, Engaged(r), NEW d, NEW f, NEW l, Doing(r, d, f, l),
           NEW live, NEW g, NEW own, Tended(r, f, live, g, own), r.pc = "attach", NEW own2,
           NEW g2, g => g2, own => own2, r.op = "start" /\ g /\ live \subseteq {r.child} => own2
    PROVE  Tends(r, f, live, g2, own2)
<1> DEFINE n == After[r.op][r.pc]
           m == [r EXCEPT !.pc = n]
<1>1. m.pc = n /\ m.op = r.op /\ m.cfg = r.cfg /\ m.child = r.child
  BY MovedOn
<1> HIDE DEF m
<1>2. CASE r.op = "start"
  <2>1. n = "mkdir"
    BY <1>2 DEF After
  <2>2. live \subseteq {r.cfg.pid} /\ r.child = r.cfg.pid /\ g
    BY <1>2 DEF Tended, Due, Attaching
  <2>3. Tended(m, f, live, g2, own2)
    BY <1>1, <1>2, <2>1, <2>2 DEF Tended, Due, Attaching, Sheltered
  <2> QED
    BY <2>1, <2>3 DEF Tends, m
<1>3. CASE r.op = "exec"
  <2>1. n = "idle" /\ f.state = "running"
    BY <1>3 DEF After, Doing, Present
  <2>2. live \subseteq {f.pid} /\ Sheltered(live, g, own)
    BY <1>3 DEF Tended, Due, Attaching
  <2> QED
    BY <2>1, <2>2 DEF Tends, Left, Recorded, Sheltered
<1> QED
  BY <1>2, <1>3 DEF Engaged, Operation, After

LEMMA TendsKill ==
    ASSUME NEW r, Engaged(r), NEW f, NEW live, NEW g, NEW own, Tended(r, f, live, g, own),
           r.pc = "kill", NEW live2, NEW own2, live2 \subseteq live, r.cfg.pid \notin live2
    PROVE  Tends([r EXCEPT !.cfg = Halted], f, live2, g, own2)
<1> DEFINE s == [r EXCEPT !.cfg = Halted]
           m == [s EXCEPT !.pc = "mkdir"]
<1>1. r.op = "stop" /\ After[r.op][r.pc] = "mkdir"
  BY DEF Engaged, Operation, After
<1>2. s.op = r.op /\ s.pc = r.pc /\ m.op = r.op /\ m.pc = "mkdir"
  BY DEF Engaged, Client
<1> HIDE DEF m
<1>3. live2 = {}
  BY <1>1 DEF Tended, Due
<1>4. Tended(m, f, live2, g, own2)
  BY <1>1, <1>2, <1>3 DEF Tended, Attaching, Sheltered
<1> QED
  BY <1>1, <1>2, <1>4 DEF Tends, m

LEMMA TendsWrite ==
    ASSUME NEW r, Engaged(r), NEW d, NEW f, NEW l, Doing(r, d, f, l),
           NEW live, NEW g, NEW own, Tended(r, f, live, g, own), r.pc = "write"
    PROVE  Tends([r EXCEPT !.fd = "closed"], r.cfg, live, g, own)
<1> DEFINE n == After[r.op][r.pc]
           s == [r EXCEPT !.fd = "closed"]
           m == [s EXCEPT !.pc = n]
<1>1. \/ r.op = "create" /\ n = "link"
      \/ r.op = "start" /\ n = "idle"
      \/ r.op = "stop" /\ n = "drain"
  <2>1. r.op \in {"create", "start", "stop"}
    BY DEF Engaged, Operation, After
  <2> QED
    BY <2>1 DEF After
<1>2. s.op = r.op /\ s.pc = r.pc /\ m.op = r.op /\ m.pc = n
  BY DEF Engaged, Client
<1> HIDE DEF m
<1>3. Sheltered(live, g, own) /\ live \subseteq Due(r, f)
  BY DEF Tended, Attaching
<1>4. CASE r.op = "start"
  <2>1. r.cfg.state = "running" /\ live \subseteq {r.cfg.pid}
    BY <1>3, <1>4 DEF Doing, StartOK, Due
  <2> QED
    BY <1>1, <1>2, <1>3, <1>4, <2>1 DEF Tends, Left, Recorded
<1>5. CASE r.op # "start"
  <2>1. live = {}
    BY <1>1, <1>3, <1>5 DEF Due
  <2>2. Tended(m, r.cfg, live, g, own)
    BY <1>1, <1>2, <1>3, <1>5, <2>1 DEF Tended, Attaching
  <2> QED
    BY <1>1, <1>2, <1>5, <2>2 DEF Tends, m
<1> QED
  BY <1>4, <1>5

-----------------------------------------------------------------------------
\* Every step keeps HouseInv.
LEMMA Tender ==
    ASSUME RecordInv, HouseInv, NEW cl \in Clients, ~At(cl, "idle"), NEW c, c = cli[cl].name, ~disturbed[c]
    PROVE  Tended(cli[cl], conf[c], LiveInits(c), Fenced(c), Housed(c))
<1>1. c \in Names /\ Busy(cl, c)
  BY Commander DEF Engaged, Busy, At
<1> QED
  BY <1>1 DEF HouseInv, HouseOK

LEMMA WorkHouse ==
    ASSUME RecordInv, HouseInv, NEW cl \in Clients,
           Work(cl), ~MustFail(cl), ~Unlink(cl)
    PROVE  HouseInv'
<1> DEFINE r == cli[cl]
<1>1. ~At(cl, "idle")
  BY DEF Work, Isolate, Limit, Drain, RemoveCgroup, Fork, Attach, Term, Kill, Mkdir, Truncate,
         Write, Link, Rmdir, At
<1>2. PICK c \in Names : c = r.name
  BY <1>1, Commander DEF Engaged
<1>3. /\ Engaged(r) /\ r \in Client
      /\ ~disturbed[c] => Doing(r, dir[c], conf[c], link[c])
      /\ ~disturbed[c] => Tended(r, conf[c], LiveInits(c), Fenced(c), Housed(c))
  BY <1>1, <1>2, Commander, Tender DEF Engaged
<1>4. /\ dir \in [Names -> BOOLEAN] /\ conf \in [Names -> Config] /\ link \in [Names -> BOOLEAN]
      /\ cgroup \in [Names -> {"none", "bare", "limited"}] /\ procs \in [Pids -> Process]
      /\ warned \in [Names -> BOOLEAN] /\ WellFormed
  BY DEF RecordInv, WellFormed, TypeOK
<1>15. cgroup' = cgroup /\ warned' = warned => \A e \in Names : Same(e) /\ Fenced(e)' = Fenced(e)
  BY DEF Same, Fenced
<1>16. \A e \in Names : Same(e) /\ Calm(e) => (Housed(e) => Housed(e)')
  BY DEF Same, Calm, Housed
<1>5. CASE Isolate(cl) \/ RemoveCgroup(cl)
  <2>1. /\ r.pc \in {"isolate", "rmcgroup"} /\ Proceed(cl, r)
        /\ UNCHANGED <<dir, conf, link, procs, disturbed>>
        /\ \A e \in Names : e # c => cgroup'[e] = cgroup[e] /\ warned'[e] = warned[e]
        /\ cgroup[c] = "limited" => cgroup'[c] = "limited" \/ r.pc = "rmcgroup"
        /\ warned[c] => warned'[c]
    BY <1>2, <1>4, <1>5 DEF Isolate, RemoveCgroup, At, Warn
  <2>2. \A e : Calm(e) /\ LiveInits(e)' = LiveInits(e)
    BY <2>1, CalmStill
  <2>4. (Fenced(c) => Fenced(c)' \/ r.pc = "rmcgroup") /\ (Housed(c) => Housed(c)')
    BY <2>1, <2>2 DEF Fenced, Housed, Calm
  <2>3. ~disturbed[c] => Tends(r, conf'[c], LiveInits(c)', Fenced(c)', Housed(c)')
    BY <1>3, <2>1, <2>2, <2>4, TendsOn
  <2>5. \A e \in Names : e # c => Same(e)
    BY <2>1 DEF Same
  <2> QED
    BY <1>1, <1>2, <1>3, <2>1, <2>2, <2>3, <2>5, ProceedHouse
<1>6. CASE Limit(cl)
  <2>1. /\ r.pc = "limit" /\ Proceed(cl, r)
        /\ UNCHANGED <<dir, conf, link, procs, disturbed>>
    BY <1>6 DEF Limit, At
  <2>4. PICK failed \in {~CgroupsUsable, TRUE} :
          /\ \E g \in IF failed THEN Partly(cgroup[c]) ELSE {"limited"} : cgroup' = [cgroup EXCEPT ![c] = g]
          /\ Warn(cl, failed)
    BY <1>2, <1>6 DEF Limit
  <2>5. \A e \in Names : e # c => Same(e)
    BY <1>2, <1>4, <2>4 DEF Same, Warn
  <2>6. r.op = "start" => Fenced(c)'
    BY <1>2, <1>4, <2>4 DEF Fenced, Warn
  <2>2. \A e : Calm(e) /\ LiveInits(e)' = LiveInits(e)
    BY <2>1, CalmStill
  <2>3. ~disturbed[c] => Tends(r, conf'[c], LiveInits(c)', Fenced(c)', Housed(c)')
    BY <1>3, <2>1, <2>2, <2>6, TendsLimit
  <2> QED
    BY <1>1, <1>2, <1>3, <2>1, <2>2, <2>3, <2>5, ProceedHouse
<1>7. CASE Drain(cl)
  <2>1. r.pc = "drain" /\ Proceed(cl, r) /\ UNCHANGED <<dir, conf, link, cgroup, warned, disturbed>>
    BY <1>7 DEF Drain, At
  <2>2. \A e \in Names : LiveInits(e)' = LiveInits(e) /\ (e # c => Calm(e))
    BY <1>2, <1>4, <1>7, CalmDrain
  <2>3. ~disturbed[c] => Tends(r, conf'[c], LiveInits(c)', Fenced(c)', Housed(c)')
    BY <1>3, <1>15, <2>1, <2>2, TendsOn
  <2> QED
    BY <1>1, <1>2, <1>3, <1>15, <2>1, <2>2, <2>3, ProceedHouse
<1>8. CASE Term(cl)
  <2>1. r.pc = "term" /\ Proceed(cl, r) /\ UNCHANGED <<dir, conf, link, cgroup, warned, disturbed>>
    BY <1>8 DEF Term, At
  <2>2. \A e \in Names : Calm(e)
    BY <1>4, <1>8, CalmReap DEF Term
  <2>3. ~disturbed[c] => Tends(r, conf'[c], LiveInits(c)', Fenced(c)', Housed(c)')
    BY <1>3, <2>1, <2>2, <1>15, <1>16, TendsOn DEF Calm
  <2> QED
    BY <1>1, <1>2, <1>3, <2>1, <2>2, <2>3, <1>15, ProceedHouse
<1>9. CASE Kill(cl)
  <2> DEFINE s == [r EXCEPT !.cfg = Halted]
  <2>1. r.pc = "kill" /\ Proceed(cl, s) /\ UNCHANGED <<dir, conf, link, cgroup, warned, disturbed>>
    BY <1>9 DEF Kill, At
  <2>2. \A e \in Names : Calm(e) /\ r.cfg.pid \notin LiveInits(e)'
    BY <1>4, <1>9, CalmReap DEF Kill
  <2>3. Engaged(s) /\ s.name = c
    BY <1>2, <1>3, ConstantConfigs DEF Engaged, Client
  <2>4. ~disturbed[c] => Tends(s, conf'[c], LiveInits(c)', Fenced(c)', Housed(c)')
    BY <1>3, <2>1, <2>2, <1>15, TendsKill DEF Calm
  <2> HIDE DEF s
  <2> QED
    BY <1>1, <1>2, <2>1, <2>2, <2>3, <2>4, <1>15, ProceedHouse
<1>10. CASE Fork(cl)
  <2> DEFINE s(p) == [r EXCEPT !.child = p, !.cfg = IF r.op = "start" THEN Running(p) ELSE @]
             new == [status |-> "alive", owner |-> r.name,
                     role |-> IF r.op = "start" THEN "init" ELSE "exec", group |-> "host"]
  <2>1. PICK p \in FreePids : procs' = [procs EXCEPT ![p] = new] /\ Proceed(cl, s(p))
    BY <1>10 DEF Fork
  <2>2. p \in Pids /\ new \in Process
    BY <1>2 DEF FreePids, Process
  <2>3. new.owner = c /\ (new.role = "init" <=> r.op = "start")
    BY <1>2
  <2>4. r.pc = "fork" /\ UNCHANGED <<dir, conf, link, cgroup, warned, disturbed>>
    BY <1>10 DEF Fork, At
  <2>5. Engaged(s(p)) /\ s(p).name = c
    BY <1>2, <1>3, <2>2, RunningIsConfig DEF Engaged, Client
  <2> HIDE DEF new
  <2>6. \A e \in Names : /\ e # c \/ r.op # "start" => Calm(e)
                         /\ LiveInits(e)' \subseteq LiveInits(e) \cup {p}
    BY <1>4, <2>1, <2>2, <2>3, CalmNew
  <2>7. ~disturbed[c] => Tends(s(p), conf'[c], LiveInits(c)', Fenced(c)', Housed(c)')
    <3>1. conf'[c] = conf[c] /\ Fenced(c)' = Fenced(c) /\ Same(c)
      BY <1>15, <2>4
    <3>2. LiveInits(c)' \subseteq LiveInits(c) \cup {p}
      BY <2>6
    <3>3. r.op # "start" => LiveInits(c)' \subseteq LiveInits(c) /\ (Housed(c) => Housed(c)')
      BY <1>16, <2>6, <3>1 DEF Calm
    <3>4. ASSUME ~disturbed[c] PROVE Tends(s(p), conf[c], LiveInits(c)', Fenced(c), Housed(c)')
      <4> DEFINE live == LiveInits(c)
                 g == Fenced(c)
                 own == Housed(c)
      <4>1. Tended(r, conf[c], live, g, own) /\ Engaged(r) /\ r.pc = "fork"
        BY <1>3, <2>4, <3>4
      <4>2. live' \subseteq live \cup {p} /\ (r.op # "start" => live' \subseteq live /\ (own => own'))
        BY <3>2, <3>3
      <4> DEFINE t == s(p)
      <4>4. t = Forked(r, p)
        BY DEF Forked
      <4>5. p \in Pids
        BY <2>2
      <4> HIDE DEF live, g, own, r, t
      <4>3. Tends(t, conf[c], live', g, own')
        BY ONLY <4>1, <4>2, <4>4, <4>5, TendsFork
      <4> QED
        BY <4>3 DEF live, g, own, t
    <3> QED
      BY <3>1, <3>4
  <2> HIDE DEF s
  <2> QED
    BY <1>1, <1>2, <2>1, <2>4, <2>5, <2>6, <2>7, <1>15, ProceedHouse
<1>11. CASE Attach(cl)
  <2>1. r.pc = "attach" /\ Proceed(cl, r) /\ UNCHANGED <<dir, conf, link, cgroup, disturbed>>
    BY <1>11 DEF Attach, At
  <2>5. /\ \A e \in Names : e # c => Same(e)
        /\ warned[c] => warned'[c]
    BY <1>2, <1>4, <1>11 DEF Attach, Warn, Same
  <2>2. \A e \in Names : Calm(e) /\ LiveInits(e)' = LiveInits(e)
    BY <1>4, <1>11, CalmAttach
  <2>3. r.op = "start" /\ Fenced(c) /\ LiveInits(c) \subseteq {r.child} => Housed(c)'
    BY <1>2, <1>4, <1>11, CalmAttach
  <2>6. (Fenced(c) => Fenced(c)') /\ (Housed(c) => Housed(c)')
    BY <2>1, <2>2, <2>5 DEF Fenced, Housed, Calm
  <2>4. ~disturbed[c] => Tends(r, conf'[c], LiveInits(c)', Fenced(c)', Housed(c)')
    BY <1>3, <2>1, <2>2, <2>3, <2>6, TendsAttach
  <2> QED
    BY <1>1, <1>2, <1>3, <2>1, <2>2, <2>4, <2>5, ProceedHouse
<1>12. CASE Mkdir(cl) \/ Link(cl) \/ Rmdir(cl)
  <2>1. /\ r.pc \in {"mkdir", "link", "rmdir"} /\ Proceed(cl, r)
        /\ UNCHANGED <<conf, cgroup, procs, warned, disturbed>>
        /\ \A e \in Names : e # c => dir'[e] = dir[e] /\ link'[e] = link[e]
    BY <1>2, <1>4, <1>12 DEF Mkdir, Link, Rmdir, At
  <2>2. \A e : Calm(e) /\ LiveInits(e)' = LiveInits(e)
    BY <2>1, CalmStill
  <2>3. ~disturbed[c] => Tends(r, conf'[c], LiveInits(c)', Fenced(c)', Housed(c)')
    BY <1>3, <2>1, <2>2, <1>15, <1>16, TendsOn DEF Calm
  <2> QED
    BY <1>1, <1>2, <1>3, <2>1, <2>2, <2>3, <1>15, ProceedHouse
<1>13. CASE Truncate(cl)
  <2> DEFINE s == [r EXCEPT !.fd = "open"]
  <2>1. /\ r.pc = "truncate" /\ Proceed(cl, s) /\ UNCHANGED <<dir, link, cgroup, procs, warned, disturbed>>
        /\ \A e \in Names : e # c => conf'[e] = conf[e]
    BY <1>2, <1>4, <1>13 DEF Truncate, At
  <2>2. \A e : Calm(e) /\ LiveInits(e)' = LiveInits(e)
    BY <2>1, CalmStill
  <2>3. Engaged(s) /\ s.name = c
    BY <1>2, <1>3 DEF Engaged, Client
  <2>4. ~disturbed[c] => Tends(r, conf'[c], LiveInits(c)', Fenced(c)', Housed(c)')
    BY <1>3, <2>1, <2>2, <1>15, <1>16, TendsOn DEF Calm
  <2>5. ~disturbed[c] => Tends(s, conf'[c], LiveInits(c)', Fenced(c)', Housed(c)')
    <3>1. /\ s.op = r.op /\ s.pc = r.pc
          /\ \A n : LET m == [r EXCEPT !.pc = n]
                        q == [s EXCEPT !.pc = n]
                    IN  q.op = m.op /\ q.pc = m.pc /\ q.cfg = m.cfg /\ q.child = m.child
      BY <1>3 DEF Client
    <3> QED
      BY <2>4, <3>1 DEF Tends, Tended, Due, Attaching
  <2> HIDE DEF s
  <2> QED
    BY <1>1, <1>2, <2>1, <2>2, <2>3, <2>5, <1>15, ProceedHouse
<1>14. CASE Write(cl)
  <2> DEFINE s == [r EXCEPT !.fd = "closed"]
  <2>1. r.pc = "write" /\ Proceed(cl, s) /\ UNCHANGED <<dir, link, cgroup, procs, warned, disturbed>>
    BY <1>14 DEF Write, At
  <2>2. PICK new : /\ conf' = [conf EXCEPT ![c] = new]
                   /\ r.fd = "open" /\ conf[c] = Empty => new = r.cfg
    BY <1>2, <1>14 DEF Write
  <2>3. \A e : Calm(e) /\ LiveInits(e)' = LiveInits(e) /\ Housed(e)' = Housed(e)
    BY <2>1, CalmStill DEF Own, LiveInits, Housed
  <2>4. Engaged(s) /\ s.name = c
    BY <1>2, <1>3 DEF Engaged, Client
  <2>5. ~disturbed[c] => conf'[c] = r.cfg
    BY <1>3, <1>4, <2>1, <2>2, LeadsWrite
  <2>6. ~disturbed[c] => Tends(s, conf'[c], LiveInits(c)', Fenced(c)', Housed(c)')
    BY <1>3, <2>1, <2>3, <2>5, <1>15, TendsWrite
  <2> HIDE DEF s
  <2> QED
    BY <1>1, <1>2, <1>4, <2>1, <2>2, <2>3, <2>4, <2>6, <1>15, ProceedHouse
<1> QED
  BY <1>5, <1>6, <1>7, <1>8, <1>9, <1>10, <1>11, <1>12, <1>13, <1>14 DEF Work

\* delete finds no process: only a container that is not running is deleted.
LEMMA UnlinkHouse ==
    ASSUME RecordInv, HouseInv, NEW cl \in Clients, Unlink(cl)
    PROVE  HouseInv'
<1> DEFINE r == cli[cl]
           m == [r EXCEPT !.pc = "rmdir"]
<1>0. PICK c \in Names : c = r.name
  BY Commander DEF Unlink, At, Engaged
<1>1. /\ r.pc = "unlink" /\ ~At(cl, "idle") /\ UNCHANGED <<dir, cgroup, procs, warned, disturbed>>
      /\ conf' = [conf EXCEPT ![c] = NoConf] /\ link' = [link EXCEPT ![c] = FALSE]
  BY <1>0 DEF Unlink, At
<1>2. /\ Engaged(r) /\ r.op = "delete"
      /\ ~disturbed[c] => \A k \in Clients : Busy(k, c) => k = cl
      /\ ~disturbed[c] => Tended(r, conf[c], LiveInits(c), Fenced(c), Housed(c))
  BY <1>0, <1>1, Commander, Tender DEF Engaged, Operation, After
<1>3. conf \in [Names -> Config] /\ link \in [Names -> BOOLEAN]
  BY DEF RecordInv, WellFormed, TypeOK
<1>4. /\ cli'[cl] = m
      /\ \A k \in Clients : k # cl => cli'[k].pc = cli[k].pc /\ cli'[k].name = cli[k].name
                                      /\ (cli[k].name # c => cli'[k] = cli[k])
  <2>1. \A k \in Clients : cli[k] \in Client
    BY DEF RecordInv, WellFormed, TypeOK
  <2>2. \A k \in Clients :
          cli'[k] = IF k = cl THEN m
                    ELSE IF cli[k].name = c /\ cli[k].fd = "open" THEN [cli[k] EXCEPT !.fd = "stale"]
                    ELSE cli[k]
    BY <1>0 DEF Unlink
  <2>3. \A k \in Clients : LET q == [cli[k] EXCEPT !.fd = "stale"] IN
          q.pc = cli[k].pc /\ q.name = cli[k].name
    BY <2>1 DEF Client
  <2> HIDE DEF m
  <2> QED
    BY <2>2, <2>3
<1>5. m.pc = "rmdir" /\ m.op = "delete" /\ m.name = c
  BY <1>0, <1>2 DEF Engaged, Client
<1> HIDE DEF m
<1>6. Within(c)
  BY <1>0, <1>1, <1>2, <1>3, <1>4, <1>5 DEF Within
<1>7. \A e : Calm(e) /\ LiveInits(e)' = LiveInits(e)
  BY <1>1, CalmStill
<1>8. ASSUME ~disturbed[c] PROVE HouseOK(c)'
  <2>1. \A k \in Clients : Busy(k, c)' <=> k = cl
    BY <1>1, <1>2, <1>4, <1>5, <1>8 DEF Busy
  <2>2. LiveInits(c)' = {}
    BY <1>2, <1>7, <1>8 DEF Tended, Due
  <2>3. Tended(m, conf'[c], LiveInits(c)', Fenced(c)', Housed(c)')
    BY <1>5, <2>2 DEF Tended, Sheltered, Attaching
  <2> QED
    BY <1>4, <2>1, <2>3 DEF HouseOK, Quiet
<1> QED
  BY <1>1, <1>6, <1>7, <1>8, HouseElsewhere DEF HouseInv, Same

LEMMA AbortHouse ==
    ASSUME RecordInv, HouseInv, NEW cl \in Clients, Abort(cl)
    PROVE  HouseInv'
<1> DEFINE c == cli[cl].name
<1>1. ~At(cl, "idle") /\ c \in Names /\ UNCHANGED <<procs, cgroup, warned>>
  BY Commander DEF Abort, Engaged
<1>2. /\ cli \in [Clients -> Client] /\ disturbed \in [Names -> BOOLEAN]
  BY DEF RecordInv, WellFormed, TypeOK
<1>3. Within(c) /\ disturbed'[c]
  BY <1>1, <1>2 DEF Abort, Within, Idle
<1> QED
  BY <1>1, <1>3, CalmStill, HouseElsewhere DEF HouseInv, Same

LEMMA EnterHouse ==
    ASSUME RecordInv, HouseInv, NEW cl \in Clients, NEW o \in Operation, NEW c \in Names, NEW cfg,
           Enter(cl, o, c, cfg),
           Quiet(c) /\ ~disturbed[c] =>
               /\ o \in {"create", "start", "delete"} => Recorded(conf[c]) = {}
               /\ o \in {"stop", "exec"} => Recorded(conf[c]) = {conf[c].pid} /\ cfg = conf[c]
    PROVE  HouseInv'
<1> DEFINE new == [op |-> o, pc |-> "isolate", name |-> c, cfg |-> cfg, child |-> NoPid, fd |-> "closed"]
<1>1. cli \in [Clients -> Client] /\ disturbed \in [Names -> BOOLEAN] /\ warned \in [Names -> BOOLEAN]
  BY DEF RecordInv, WellFormed, TypeOK
<1>2. /\ cli'[cl] = new /\ cli[cl].pc = "idle" /\ UNCHANGED <<dir, conf, link, cgroup, procs>>
      /\ \A k \in Clients : k # cl => cli'[k] = cli[k]
      /\ disturbed'[c] = (disturbed[c] \/ ~Quiet(c))
      /\ \A e \in Names : e # c => disturbed'[e] = disturbed[e] /\ warned'[e] = warned[e]
      /\ o # "start" => warned'[c] = warned[c]
  BY <1>1 DEF Enter, At
<1>3. new.op = o /\ new.pc = "isolate" /\ new.name = c /\ new.cfg = cfg
  OBVIOUS
<1> HIDE DEF new
<1>4. Within(c)
  BY <1>2, <1>3 DEF Within
<1>5. \A e : Calm(e) /\ LiveInits(e)' = LiveInits(e) /\ Own(e)' = Own(e)
  BY <1>2, CalmStill DEF Own, LiveInits
<1>6. ASSUME ~disturbed'[c] PROVE HouseOK(c)'
  <2>1. Quiet(c) /\ ~disturbed[c]
    BY <1>2, <1>6
  <2>2. \A k \in Clients : Busy(k, c)' => k = cl
    BY <1>2, <2>1 DEF Quiet, Busy
  <2>3. Busy(cl, c)'
    BY <1>2, <1>3 DEF Busy
  <2>4. Left(conf[c], LiveInits(c), Fenced(c), Housed(c))
    BY <2>1 DEF HouseInv, HouseOK
  <2>5. LiveInits(c) \subseteq Due(new, conf[c])
    BY <1>3, <2>1, <2>4 DEF Left, Due, Operation
  <2>6. o = "start" => LiveInits(c) = {}
    BY <2>1, <2>4 DEF Left
  <2>7. o # "start" => (Fenced(c)' <=> Fenced(c)) /\ (Housed(c)' <=> Housed(c))
    BY <1>2, <1>5 DEF Fenced, Housed
  <2>8. Tended(new, conf[c], LiveInits(c), Fenced(c)', Housed(c)')
    BY <1>3, <2>4, <2>5, <2>6, <2>7 DEF Tended, Attaching, Left, Sheltered
  <2> QED
    BY <1>2, <1>5, <2>2, <2>3, <2>8 DEF HouseOK, Quiet
<1> QED
  BY <1>2, <1>4, <1>5, <1>6, HouseElsewhere DEF HouseInv, Same

LEMMA InvokeHouse ==
    ASSUME RecordInv, HouseInv, NEW cl \in Clients, Invoke(cl)
    PROVE  HouseInv'
<1>1. ASSUME NEW c \in Names, Create(cl, c) PROVE HouseInv'
  <2>1. ~dir[c] /\ Enter(cl, "create", c, Fresh) /\ "create" \in Operation
    BY <1>1 DEF Create, Operation
  <2>2. Quiet(c) /\ ~disturbed[c] => conf[c] = NoConf
    BY <2>1 DEF RecordInv, RecordOK, AtRest, Present, Absent
  <2>3. Quiet(c) /\ ~disturbed[c] => Recorded(conf[c]) = {}
    BY <2>2 DEF Recorded, NoConf
  <2> QED
    BY <2>1, <2>3, EnterHouse
<1>2. ASSUME NEW o \in DOMAIN Admitted, NEW c \in Names, Load(cl, o, c) PROVE HouseInv'
  <2>1. conf[c].state \in Admitted[o] /\ Enter(cl, o, c, conf[c])
    BY <1>2 DEF Load
  <2>2. o \in {"start", "stop", "delete", "exec"} /\ o \in Operation
    BY DEF Admitted, Operation
  <2>3. /\ o \in {"create", "start", "delete"} => Recorded(conf[c]) = {}
        /\ o \in {"stop", "exec"} => Recorded(conf[c]) = {conf[c].pid}
    BY <2>1, <2>2 DEF Recorded, Admitted
  <2>4. PICK cfg : cfg = conf[c]
    OBVIOUS
  <2> QED
    BY <2>1, <2>2, <2>3, <2>4, EnterHouse
<1> QED
  BY <1>1, <1>2 DEF Invoke

\* What the processes do by themselves.
LEMMA ProcessHouse ==
    ASSUME RecordInv, HouseInv, UNCHANGED <<dir, conf, link, cgroup, cli, warned, disturbed>>,
           \A c \in Names : Calm(c)
    PROVE  HouseInv'
<1> SUFFICES ASSUME NEW c \in Names, ~disturbed'[c] PROVE HouseOK(c)'
  BY DEF HouseInv
<1>1. HouseOK(c) /\ (Quiet(c)' <=> Quiet(c)) /\ \A k \in Clients : Busy(k, c)' <=> Busy(k, c)
  BY DEF HouseInv, Quiet, Busy
<1>2. Calm(c)
  OBVIOUS
<1> QED
  BY <1>1, <1>2 DEF HouseOK, Tended, Left, Sheltered, Calm, Fenced, Housed

LEMMA InitHouse == Init => HouseInv
<1> SUFFICES ASSUME Init PROVE HouseInv
  OBVIOUS
<1>1. \A k \in Clients, c \in Names : ~Busy(k, c)
  BY DEF Init, Busy, Idle
<1>2. \A c \in Names : LiveInits(c) = {}
  BY DEF Init, LiveInits, NoProcess
<1> QED
  BY <1>1, <1>2 DEF HouseInv, HouseOK, Left, Sheltered

LEMMA HouseStep == RecordInv /\ HouseInv /\ [Next]_vars => HouseInv'
<1> SUFFICES ASSUME RecordInv, HouseInv, [Next]_vars PROVE HouseInv'
  OBVIOUS
<1>1. WellFormed
  BY DEF RecordInv
<1>2. ASSUME NEW cl \in Clients, Invoke(cl) \/ Work(cl) \/ Abort(cl) PROVE HouseInv'
  <2>1. MustFail(cl) => Abort(cl)
    BY DEF MustFail
  <2> QED
    BY <1>2, <2>1, InvokeHouse, AbortHouse, UnlinkHouse, WorkHouse
<1>3. ASSUME NEW p \in Pids, Exit(p) PROVE HouseInv'
  BY <1>1, <1>3, CalmReap, ProcessHouse DEF Exit
<1>4. ASSUME NEW p \in Pids, Spawn(p) PROVE HouseInv'
  <2> DEFINE new == [procs[p] EXCEPT !.role = "child"]
  <2>1. PICK q \in FreePids : procs' = [procs EXCEPT ![q] = new]
    BY <1>4 DEF Spawn
  <2>2. new \in Process /\ new.role # "init"
    BY <1>1 DEF WellFormed, TypeOK, Process
  <2> HIDE DEF new
  <2>3. \A c \in Names : Calm(c)
    BY <1>1, <2>1, <2>2, CalmNew
  <2> QED
    BY <1>4, <2>3, ProcessHouse DEF Spawn
<1>5. ASSUME UNCHANGED vars PROVE HouseInv'
  BY <1>5, CalmStill, ProcessHouse DEF vars
<1> QED
  BY <1>2, <1>3, <1>4, <1>5 DEF Next

\* container.rs, cgroup.rs: as long as the commands on a container neither
\* overlap nor break off, its process runs in its cgroup with all limits set,
\* or start has printed a warning, whichever writes to the cgroup fail, and
\* although create removes that cgroup and stop and exec make it anew.
THEOREM ConfinedCorrect == Spec => []Confined
<1>1. HouseInv => Confined
  BY DEF HouseInv, HouseOK, Confined, Settled, Left, Sheltered, Own, Fenced, Housed
<1> QED
  BY InitRecord, RecordStep, InitHouse, HouseStep, <1>1, PTL DEF Spec

\* main.rs, container.rs: as long as the commands on a container neither
\* overlap nor break off, and the kernel does not reuse pids, the processes
\* of start that live are what ps says: the recorded one or none.
THEOREM PsCorrect == ASSUME ~PidReuse PROVE Spec => []PsTruthful
<1>1. HouseInv /\ PidInv => PsTruthful
  <2> SUFFICES ASSUME HouseInv, PidInv, NEW c \in Names, Settled(c)
      PROVE  LiveInits(c) = IF Reported(c) = "running" THEN {conf[c].pid} ELSE {}
    BY DEF PsTruthful
  <2>1. LiveInits(c) \subseteq Recorded(conf[c])
    BY DEF HouseInv, HouseOK, Settled, Left
  <2>2. CASE conf[c].state = "running"
    <3>1. IsInit(procs, conf[c].pid, c)
      BY <2>2 DEF PidInv, FilesGenuine, Genuine
    <3> QED
      BY <2>1, <2>2, <3>1 DEF Recorded, Reported, IsInit, LiveInits
  <2>3. CASE conf[c].state # "running"
    BY <2>1, <2>3 DEF Recorded, Reported
  <2> QED
    BY <2>2, <2>3
<1>2. Init => PidInv
  BY InitPidInv
<1>3. PidInv /\ [Next]_vars => PidInv'
  BY PidInvStep
<1> QED
  BY InitRecord, RecordStep, InitHouse, HouseStep, <1>1, <1>2, <1>3, PTL DEF Spec
=============================================================================
