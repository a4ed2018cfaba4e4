---------------------------- MODULE Stack_proofs ----------------------------
(***************************************************************************)
(* What up and down do to the containers of a stack, for any number of     *)
(* services: a down without a failing call leaves nothing behind; an up    *)
(* without one that begins with nothing starts everything; and as long as  *)
(* nothing goes wrong a service runs only with what it depends on.         *)
(***************************************************************************)
EXTENDS Stack, TLAPS, FiniteSetTheorems

\* The order of a command has all the services of the stack.
Complete ==
    /\ order \in Seq(Services)
    /\ {order[i] : i \in DOMAIN order} = Services
    /\ state \in [Services -> {"absent", "created", "running", "stopped",
                               "broken"}]

\* The loop of a command is at one of the services, and no command counts as
\* ended while one runs.
Inside ==
    /\ pc \in {"idle", "rootfs", "create", "start", "stop", "delete"}
    /\ pc # "idle" => at \in 1..Len(order) /\ last = "none"

\* The loop of stack_down has removed everything behind its position, and
\* what it is about to delete can be deleted.
Removed ==
    /\ pc \in {"stop", "delete"} /\ ~troubled =>
          \A i \in DOMAIN order : i > at => state[order[i]] = "absent"
    /\ pc = "delete" /\ ~troubled =>
          state[order[at]] \notin {"running", "broken"}

DownInv == Complete /\ Inside /\ Removed /\ DownRemovesAll

\* What topological_sort returns has every service once.
LEMMA OrdersShape ==
    ASSUME NEW o \in Orders
    PROVE  /\ o \in Seq(Services)
           /\ {o[i] : i \in DOMAIN o} = Services
           /\ Len(o) \in Nat \ {0}
           /\ DOMAIN o = 1..Len(o)
           /\ \A i, j \in DOMAIN o : o[i] = o[j] => i = j
<1> DEFINE n == Cardinality(Services)
<1>1. n \in Nat
  BY ServicesAssumption, FS_CardinalityType
<1>2. o \in [1..n -> Services] /\ {o[i] : i \in DOMAIN o} = Services
  BY DEF Orders, Sorted
<1>3. o \in Seq(Services) /\ Len(o) \in Nat /\ DOMAIN o = 1..Len(o)
  BY <1>1, <1>2
<1>4. Len(o) # 0
  <2>1. PICK s \in Services : TRUE
    BY ServicesAssumption
  <2>2. PICK i \in DOMAIN o : o[i] = s
    BY <1>2, <2>1
  <2>3. QED
    BY <1>3, <2>2
<1>5. \A i, j \in DOMAIN o : o[i] = o[j] => i = j
  <2>1. IsFiniteSet(1..n) /\ Cardinality(1..n) = n
    BY <1>1, FS_Interval
  <2>2. o \in Surjection(1..n, Services)
    BY <1>2 DEF Surjection
  <2>3. o \in Injection(1..n, Services)
    BY <2>1, <2>2, FS_Surjection
  <2>4. QED
    BY <1>2, <2>3 DEF Injection, IsInjective
<1>6. QED
  BY <1>2, <1>3, <1>4, <1>5

LEMMA InitDown == Init => DownInv
<1> SUFFICES ASSUME Init PROVE DownInv
  OBVIOUS
<1>1. Complete
  BY OrdersShape DEF Init, Complete
<1>2. QED
  BY <1>1 DEF Init, DownInv, Inside, Removed, DownRemovesAll

\* A command sorts the services anew, or keeps its order.
LEMMA OrderOfCommand ==
    ASSUME Next
    PROVE  /\ \/ pc = "idle" /\ order' \in Orders /\ (BeginUp \/ BeginDown)
              \/ pc # "idle" /\ UNCHANGED order /\ ~BeginUp /\ ~BeginDown
           /\ UNCHANGED deps
BY DEF Next, BeginUp, Rootfs, CreateService, StartService, BeginDown,
       StopService, DeleteService, Abort, Begin, Within

\* The order is not empty, and the position of a running loop is in it.
LEMMA CurrentKnown ==
    ASSUME Complete, Inside
    PROVE  /\ Len(order) \in Nat \ {0}
           /\ DOMAIN order = 1..Len(order)
           /\ pc # "idle" => at \in DOMAIN order /\ Current \in Services
<1>1. order \in Seq(Services) /\ Len(order) \in Nat
        /\ DOMAIN order = 1..Len(order)
  BY DEF Complete
<1>2. Len(order) # 0
  <2>1. PICK s \in Services : TRUE
    BY ServicesAssumption
  <2>2. PICK i \in DOMAIN order : order[i] = s
    BY <2>1 DEF Complete
  <2>3. QED
    BY <1>1, <2>2
<1>3. QED
  BY <1>1, <1>2 DEF Inside, Current

LEMMA CompleteKept == Complete /\ Next => Complete'
<1> SUFFICES ASSUME Complete, Next PROVE Complete'
  OBVIOUS
<1>1. order' \in Seq(Services) /\ {order'[i] : i \in DOMAIN order'} = Services
  BY OrderOfCommand, OrdersShape DEF Complete
<1>2. state' \in [Services -> {"absent", "created", "running", "stopped",
                               "broken"}]
  BY DEF Next, BeginUp, Rootfs, CreateService, StartService, BeginDown,
         StopService, DeleteService, Abort, Begin, FailOn, Complete
<1>3. QED
  BY <1>1, <1>2 DEF Complete

LEMMA InsideKept == Complete /\ Inside /\ Next => Inside'
<1> SUFFICES ASSUME Complete, Inside, Next PROVE Inside'
  OBVIOUS
<1>1. /\ Len(order) \in Nat \ {0}
      /\ pc # "idle" => at \in 1..Len(order)
  BY CurrentKnown
<1>2. pc # "idle" => UNCHANGED order
  BY OrderOfCommand
<1>3. CASE BeginUp \/ BeginDown
  <2>1. Len(order') \in Nat \ {0}
    BY <1>3, OrdersShape DEF BeginUp, BeginDown, Begin
  <2>2. QED
    BY <1>3, <2>1 DEF BeginUp, BeginDown, Begin, Inside
<1>4. CASE Abort
  BY <1>4 DEF Abort, Inside
<1>5. CASE NextUp /\ pc # "idle"
  BY <1>1, <1>2, <1>5 DEF NextUp, Inside
<1>6. CASE NextDown /\ pc # "idle"
  BY <1>1, <1>2, <1>6 DEF NextDown, Inside
<1>7. CASE /\ UNCHANGED <<at, last>> /\ pc # "idle"
           /\ pc' \in {"create", "start", "delete"}
  BY <1>1, <1>2, <1>7 DEF Inside
<1>8. QED
  BY <1>3, <1>4, <1>5, <1>6, <1>7
  DEF Next, Rootfs, CreateService, StartService, StopService, DeleteService,
      Within

\* Steps of stack_up, and the beginning of a command.
LEMMA StepElsewhere ==
    ASSUME DownInv,
           BeginUp \/ Rootfs \/ CreateService \/ StartService \/ BeginDown
               \/ Abort
    PROVE  (Removed /\ DownRemovesAll)'
<1>1. /\ Len(order) \in Nat \ {0} /\ DOMAIN order = 1..Len(order)
      /\ pc # "idle" => last = "none"
  BY CurrentKnown DEF DownInv, Inside
<1>2. CASE BeginDown
  <2>1. DOMAIN order' = 1..Len(order') /\ Len(order') \in Nat
    BY <1>2, OrdersShape DEF BeginDown, Begin
  <2>2. QED
    BY <1>2, <2>1 DEF BeginDown, Begin, Removed, DownRemovesAll
<1>3. CASE BeginUp
  BY <1>3 DEF BeginUp, Begin, Removed, DownRemovesAll
<1>4. CASE Abort
  BY <1>1, <1>4 DEF Abort, Removed, DownRemovesAll
<1>5. CASE Rootfs \/ CreateService \/ StartService
  <2>1. pc' \in {"idle", "rootfs", "create", "start"} /\ last' # "down"
    BY <1>1, <1>5
    DEF Rootfs, CreateService, StartService, NextUp, Within
  <2>2. QED
    BY <2>1 DEF Removed, DownRemovesAll
<1>6. QED
  BY <1>2, <1>3, <1>4, <1>5

\* stop leaves nothing that delete would refuse, or the call has failed.
LEMMA StepStop ==
    ASSUME DownInv, StopService PROVE (Removed /\ DownRemovesAll)'
<1>1. /\ pc = "stop" /\ pc' = "delete" /\ last' = "none"
      /\ UNCHANGED <<order, at>>
      /\ at \in DOMAIN order /\ Current \in Services
      /\ DOMAIN order = 1..Len(order) /\ Current = order[at]
  BY CurrentKnown
  DEF StopService, Within, DownInv, Inside, Current
<1>2. SUFFICES ASSUME ~troubled'
               PROVE  /\ \A i \in DOMAIN order :
                            i > at => state'[order[i]] = "absent"
                      /\ state'[order[at]] \notin {"running", "broken"}
  BY <1>1 DEF Removed, DownRemovesAll
<1>3. Fine /\ ~troubled
  BY <1>2 DEF StopService, FailOn, Fail, Fine
<1>4. \A i \in DOMAIN order : i > at => state[order[i]] = "absent"
  BY <1>1, <1>3 DEF DownInv, Removed
<1>5. CASE state[Current] = "running"
             /\ state' = [state EXCEPT ![Current] = "stopped"]
  BY <1>1, <1>4, <1>5 DEF DownInv, Complete
<1>6. CASE state[Current] \notin {"running", "broken"} /\ UNCHANGED state
  BY <1>1, <1>4, <1>6
<1>7. QED
  BY <1>2, <1>5, <1>6 DEF StopService, FailOn, Fail

\* delete removes the service, or the call has failed.
LEMMA StepDelete ==
    ASSUME DownInv, DeleteService PROVE (Removed /\ DownRemovesAll)'
<1>1. /\ pc = "delete" /\ UNCHANGED order
      /\ at \in DOMAIN order /\ Current \in Services
      /\ DOMAIN order = 1..Len(order) /\ Current = order[at]
      /\ Len(order) \in Nat
  BY CurrentKnown
  DEF DeleteService, Within, DownInv, Inside, Current
<1>2. pc' # "delete" /\ NextDown
  BY DEF DeleteService, NextDown
<1>3. SUFFICES ASSUME ~troubled'
               PROVE  \A i \in DOMAIN order :
                          i >= at => state'[order[i]] = "absent"
  <2>1. CASE at > 1
    BY <1>1, <1>2, <1>3, <2>1 DEF NextDown, Removed, DownRemovesAll, DownInv,
                                  Inside
  <2>2. CASE at = 1
    <3>1. NoneExists' => DownRemovesAll'
      BY DEF DownRemovesAll
    <3>2. ~troubled' => NoneExists'
      BY <1>1, <1>3, <2>2 DEF NoneExists, DownInv, Complete
    <3>3. pc' = "idle"
      BY <1>1, <1>2, <2>2 DEF NextDown
    <3>4. QED
      BY <3>1, <3>2, <3>3 DEF Removed, DownRemovesAll
  <2>3. QED
    BY <1>1, <2>1, <2>2
<1>4. Fine /\ ~troubled
  BY <1>3 DEF DeleteService, FailOn, Fail, Fine
<1>5. /\ \A i \in DOMAIN order : i > at => state[order[i]] = "absent"
      /\ state[Current] \notin {"running", "broken"}
  BY <1>1, <1>4 DEF DownInv, Removed
<1>6. CASE state' = [state EXCEPT ![Current] = "absent"]
  BY <1>1, <1>5, <1>6 DEF DownInv, Complete
<1>7. CASE state[Current] \in {"absent", "running"} /\ UNCHANGED state
  BY <1>1, <1>5, <1>7
<1>8. QED
  BY <1>3, <1>6, <1>7 DEF DeleteService, FailOn, Fail

\* stack_down: stop and delete of every service in reverse order, whose
\* errors are printed and passed over.  A down in which no call fails removes
\* every container of the stack, whatever the commands before it have left.
THEOREM DownCorrect == Spec => []DownRemovesAll
<1>1. Init => DownInv
  BY InitDown
<1>2. DownInv /\ [Next]_vars => DownInv'
  <2> SUFFICES ASSUME DownInv, [Next]_vars PROVE DownInv'
    OBVIOUS
  <2>1. CASE Next
    <3>1. (Removed /\ DownRemovesAll)'
      BY <2>1, StepElsewhere, StepStop, StepDelete DEF Next
    <3>2. QED
      BY <2>1, <3>1, CompleteKept, InsideKept DEF DownInv
  <2>2. CASE UNCHANGED vars
    BY <2>2 DEF vars, DownInv, Complete, Inside, Removed, DownRemovesAll,
                NoneExists
  <2>3. QED
    BY <2>1, <2>2
<1>3. DownInv => DownRemovesAll
  BY DEF DownInv
<1>4. QED
  BY <1>1, <1>2, <1>3, PTL DEF Spec
-----------------------------------------------------------------------------
(***************************************************************************)
(* The way up and the way down.  In st, the states of the containers, the  *)
(* services before position k run, those behind it do not exist, and the   *)
(* one at k is in state x.                                                 *)
(***************************************************************************)
Row(st, k, x) ==
    \A i \in DOMAIN order :
        st[order[i]] = IF i < k THEN "running"
                       ELSE IF i = k THEN x ELSE "absent"

All(st, x) == \A s \in Services : st[s] = x

\* No service stands in the order twice.
Injective == \A i, j \in DOMAIN order : order[i] = order[j] => i = j

Shape == Complete /\ Inside /\ Injective

LEMMA InitShape == Init => Shape
<1> SUFFICES ASSUME Init PROVE Shape
  OBVIOUS
<1>1. Complete /\ Inside
  BY InitDown DEF DownInv
<1>2. Injective
  BY OrdersShape DEF Init, Injective
<1>3. QED
  BY <1>1, <1>2 DEF Shape

LEMMA StepShape == Shape /\ Next => Shape'
<1> SUFFICES ASSUME Shape, Next PROVE Shape'
  OBVIOUS
<1>1. Injective'
  BY OrderOfCommand, OrdersShape DEF Shape, Injective
<1>2. QED
  BY <1>1, CompleteKept, InsideKept DEF Shape

\* The current service is at no position but the current one.
LEMMA RowChanged ==
    ASSUME Shape, NEW k \in DOMAIN order, NEW x, NEW y,
           Row(state, k, x)
    PROVE  Row([state EXCEPT ![order[k]] = y], k, y)
<1> DEFINE st == [state EXCEPT ![order[k]] = y]
<1>1. SUFFICES ASSUME NEW i \in DOMAIN order
               PROVE  st[order[i]] = IF i < k THEN "running"
                                      ELSE IF i = k THEN y ELSE "absent"
  BY DEF Row
<1>2. order[i] \in Services /\ order[k] \in Services
        /\ DOMAIN state = Services
  BY <1>1 DEF Shape, Complete
<1>3. k \in Nat /\ i \in Nat
  BY <1>1, CurrentKnown DEF Shape
<1>4. CASE i = k
  BY <1>2, <1>3, <1>4
<1>5. CASE i # k
  <2>1. order[i] # order[k]
    BY <1>1, <1>5 DEF Shape, Injective
  <2>2. st[order[i]] = state[order[i]]
    BY <1>2, <2>1
  <2>3. QED
    BY <1>1, <1>5, <2>2 DEF Row
<1>6. QED
  BY <1>4, <1>5

\* Rows from which, or to which, the loops go on.
LEMMA RowAfter ==
    ASSUME Shape, NEW st, NEW k \in DOMAIN order, Row(st, k, "running")
    PROVE  /\ k < Len(order) => Row(st, k + 1, "absent")
           /\ ~(k < Len(order)) => All(st, "running")
<1>1. k \in Nat /\ Len(order) \in Nat /\ DOMAIN order = 1..Len(order)
  BY CurrentKnown DEF Shape
<1>2. k < Len(order) => Row(st, k + 1, "absent")
  BY <1>1 DEF Row
<1>3. ASSUME ~(k < Len(order)) PROVE All(st, "running")
  <2>1. \A i \in DOMAIN order : st[order[i]] = "running"
    BY <1>1, <1>3 DEF Row
  <2>2. QED
    BY <2>1 DEF All, Shape, Complete
<1>4. QED
  BY <1>2, <1>3

LEMMA RowBefore ==
    ASSUME Shape, NEW st, NEW k \in DOMAIN order, Row(st, k, "absent")
    PROVE  /\ k > 1 => Row(st, k - 1, "running")
           /\ ~(k > 1) => All(st, "absent")
<1>1. k \in Nat /\ Len(order) \in Nat /\ DOMAIN order = 1..Len(order)
  BY CurrentKnown DEF Shape
<1>2. k > 1 => Row(st, k - 1, "running")
  BY <1>1 DEF Row
<1>3. ASSUME ~(k > 1) PROVE All(st, "absent")
  <2>1. \A i \in DOMAIN order : st[order[i]] = "absent"
    BY <1>1, <1>3 DEF Row
  <2>2. QED
    BY <2>1 DEF All, Shape, Complete
<1>4. QED
  BY <1>2, <1>3

LEMMA RowFirst ==
    ASSUME Begin
    PROVE  /\ All(state, "absent") => Row(state, 1, "absent")'
           /\ All(state, "running") => Row(state, Len(order), "running")'
<1>1. /\ Len(order') \in Nat /\ DOMAIN order' = 1..Len(order')
      /\ \A i \in DOMAIN order' : order'[i] \in Services
      /\ UNCHANGED state
  BY OrdersShape DEF Begin
<1>2. QED
  BY <1>1 DEF Row, All
-----------------------------------------------------------------------------
(***************************************************************************)
(* An up in which no call fails.                                           *)
(***************************************************************************)
\* Behind the service k of the order everything is as before the command.
Others(st, k) ==
    \A i \in DOMAIN order \ {k} :
        st[order[i]] = IF i < k THEN UpOf(order[i]) ELSE before[order[i]]

UpRow ==
    ~troubled =>
        /\ pc \in {"rootfs", "create"} =>
              Others(state, at) /\ state[order[at]] = before[order[at]]
        /\ pc = "start" => Others(state, at) /\ before[order[at]] = "absent"

UpInv == Shape /\ UpRow /\ UpStartsMissing

LEMMA InitUp == Init => UpInv
  BY InitShape DEF Init, UpInv, UpRow, UpStartsMissing

LEMMA OthersChanged ==
    ASSUME Shape, NEW st, NEW k \in DOMAIN order, NEW v, Others(st, k)
    PROVE  Others([st EXCEPT ![order[k]] = v], k)
<1>1. \A i \in DOMAIN order \ {k} : order[i] # order[k]
  BY DEF Shape, Injective
<1>2. \A i \in DOMAIN order \ {k} :
          [st EXCEPT ![order[k]] = v][order[i]] = st[order[i]]
  BY <1>1
<1>3. QED
  BY <1>2 DEF Others

\* The loop of stack_up behind a service.
LEMMA UpNext ==
    ASSUME Shape, UNCHANGED <<order, before>>, at \in DOMAIN order,
           last = "none", Others(state', at),
           state'[order[at]] = UpOf(order[at]), NextUp
    PROVE  (UpRow /\ UpStartsMissing)'
<1>1. at \in Nat /\ Len(order) \in Nat /\ DOMAIN order = 1..Len(order)
  BY CurrentKnown DEF Shape
<1>2. \A i \in DOMAIN order :
          state'[order[i]] = IF i < at + 1 THEN UpOf(order[i]) ELSE before[order[i]]
  BY <1>1 DEF Others
<1>3. CASE at < Len(order)
  <2>1. pc' = "rootfs" /\ last' = "none" /\ at' = at + 1 /\ at + 1 \in DOMAIN order
    BY <1>1, <1>3 DEF NextUp
  <2>2. Others(state, at)' /\ (state[order[at]] = before[order[at]])'
    BY <1>1, <1>2, <2>1 DEF Others, UpOf
  <2>3. QED
    BY <2>1, <2>2 DEF UpRow, UpStartsMissing
<1>4. CASE ~(at < Len(order))
  <2>1. pc' = "idle"
    BY <1>4 DEF NextUp
  <2>2. \A i \in DOMAIN order : state'[order[i]] = UpOf(order[i])
    BY <1>1, <1>2, <1>4
  <2>3. \A s \in Services : state'[s] = UpOf(s)
    BY <2>2 DEF Shape, Complete
  <2>4. QED
    BY <2>1, <2>3 DEF UpRow, UpStartsMissing, UpOf
<1>5. QED
  BY <1>3, <1>4

LEMMA StepUp == UpInv /\ Next => (UpRow /\ UpStartsMissing)'
<1> SUFFICES ASSUME UpInv, Next PROVE (UpRow /\ UpStartsMissing)'
  OBVIOUS
<1>1. /\ pc # "idle" => last = "none" /\ at \in DOMAIN order
      /\ DOMAIN order = 1..Len(order)
      /\ Current = order[at]
  BY CurrentKnown DEF UpInv, Shape, Inside, Current
<1>2. CASE BeginUp
  <2>1. /\ pc' = "rootfs" /\ at' = 1 /\ last' = "none"
        /\ before' = state /\ state' = state /\ Begin
    BY <1>2 DEF BeginUp, Begin
  <2>2. DOMAIN order' = 1..Len(order') /\ Len(order') \in Nat
    BY <2>1, OrdersShape DEF Begin
  <2>3. Others(state, at)'
    BY <2>1, <2>2 DEF Others
  <2>4. QED
    BY <2>1, <2>3 DEF UpRow, UpStartsMissing
<1>3. CASE BeginDown \/ StopService \/ DeleteService \/ Abort
  <2>1. pc' \in {"idle", "stop", "delete"} /\ last' # "up"
    BY <1>1, <1>3
    DEF BeginDown, Begin, StopService, DeleteService, Abort, NextDown, Within
  <2>2. QED
    BY <2>1 DEF UpRow, UpStartsMissing
<1>4. CASE troubled'
  BY <1>4 DEF UpRow, UpStartsMissing
<1>5. CASE Rootfs /\ ~troubled'
  <2>1. /\ pc = "rootfs" /\ pc' = "create" /\ ~troubled
        /\ UNCHANGED <<order, before, state, at, last>>
    BY <1>5 DEF Rootfs, Fail, Fine, Within
  <2>2. Others(state, at) /\ state[order[at]] = before[order[at]]
    BY <2>1 DEF UpInv, UpRow
  <2>3. QED
    BY <1>1, <2>1, <2>2 DEF UpRow, UpStartsMissing, Others, UpOf
<1>6. CASE CreateService /\ ~troubled'
  <2>1. pc = "create" /\ ~troubled /\ UNCHANGED <<order, before>>
    BY <1>6 DEF CreateService, FailOn, Fail, Fine, Within
  <2>2. Others(state, at) /\ state[order[at]] = before[order[at]]
    BY <2>1 DEF UpInv, UpRow
  <2>3. CASE state[Current] = "absent"
    <3>1. /\ state' = [state EXCEPT ![order[at]] = "created"]
          /\ pc' = "start" /\ UNCHANGED <<at, last>>
      BY <1>1, <1>6, <2>3 DEF CreateService, FailOn, Fail
    <3>2. Others(state', at)
      BY <1>1, <2>1, <2>2, <3>1, OthersChanged DEF UpInv
    <3>3. before[order[at]] = "absent"
      BY <1>1, <2>2, <2>3
    <3>4. QED
      BY <1>1, <2>1, <3>1, <3>2, <3>3 DEF UpRow, UpStartsMissing, Others, UpOf
  <2>4. CASE state[Current] # "absent"
    <3>1. state' = state /\ NextUp
      BY <1>6, <2>4 DEF CreateService
    <3>2. state'[order[at]] = UpOf(order[at])
      BY <1>1, <2>2, <2>4, <3>1 DEF UpOf
    <3>3. QED
      BY <1>1, <2>1, <2>2, <3>1, <3>2, UpNext DEF UpInv
  <2>5. QED
    BY <2>3, <2>4
<1>7. CASE StartService /\ ~troubled'
  <2>1. /\ pc = "start" /\ ~troubled /\ UNCHANGED <<order, before>> /\ NextUp
        /\ state' = [state EXCEPT ![order[at]] = "running"]
    BY <1>1, <1>7 DEF StartService, FailOn, Fail, Fine, Within
  <2>2. Others(state, at) /\ before[order[at]] = "absent"
    BY <2>1 DEF UpInv, UpRow
  <2>3. Others(state', at)
    BY <1>1, <2>1, <2>2, OthersChanged DEF UpInv
  <2>4. order[at] \in DOMAIN state
    BY <1>1, <2>1 DEF UpInv, Shape, Complete
  <2>5. state'[order[at]] = UpOf(order[at])
    BY <2>1, <2>2, <2>4 DEF UpOf
  <2>6. QED
    BY <1>1, <2>1, <2>3, <2>5, UpNext DEF UpInv
<1>8. QED
  BY <1>2, <1>3, <1>4, <1>5, <1>6, <1>7 DEF Next

\* stack_up: the loop over the sorted services, which starts a service that
\* create has created.  An up in which no call fails starts what did not exist
\* when it began and leaves the rest as it was, whatever happened before.
THEOREM UpCorrect == Spec => []UpStartsMissing
<1>1. Init => UpInv
  BY InitUp
<1>2. UpInv /\ [Next]_vars => UpInv'
  <2> SUFFICES ASSUME UpInv, [Next]_vars PROVE UpInv'
    OBVIOUS
  <2>1. CASE Next
    BY <2>1, StepUp, StepShape DEF UpInv
  <2>2. CASE UNCHANGED vars
    BY <2>2 DEF vars, UpInv, Shape, Complete, Inside, Injective, UpRow,
                Others, UpOf, UpStartsMissing
  <2>3. QED
    BY <2>1, <2>2
<1>3. UpInv => UpStartsMissing
  BY DEF UpInv
<1>4. QED
  BY <1>1, <1>2, <1>3, PTL DEF Spec
-----------------------------------------------------------------------------
(***************************************************************************)
(* As long as nothing goes wrong.                                          *)
(***************************************************************************)
RunRow ==
    ~spoiled =>
        /\ pc = "idle" => All(state, "absent") \/ All(state, "running")
        /\ pc \in {"rootfs", "create"} =>
              Row(state, at, "absent") \/ All(state, "running")
        /\ pc = "start" => Row(state, at, "created")
        /\ pc = "stop" => Row(state, at, "running") \/ All(state, "absent")
        /\ pc = "delete" => Row(state, at, "stopped") \/ All(state, "absent")

RunInv == Shape /\ Sorted(order, deps) /\ RunRow

LEMMA InitRun == Init => RunInv
  BY InitShape DEF Init, Orders, RunInv, RunRow, All

\* In a row whose service at k does not run unless everything before it does,
\* what runs is a beginning of the order, and dependencies stand before.
LEMMA RowSupported ==
    ASSUME Shape, Sorted(order, deps), NEW k \in DOMAIN order, NEW x,
           Row(state, k, x)
    PROVE  \A s \in Services : state[s] = "running" =>
               \A d \in deps[s] : state[d] = "running"
<1>1. SUFFICES ASSUME NEW s \in Services, state[s] = "running",
                      NEW d \in deps[s]
               PROVE  state[d] = "running"
  OBVIOUS
<1>2. DOMAIN order = 1..Len(order) /\ Len(order) \in Nat
  BY CurrentKnown DEF Shape
<1>3. PICK i \in DOMAIN order : order[i] = s
  BY DEF Sorted
<1>4. PICK j \in 1..(i - 1) : order[j] = d
  BY <1>1, <1>3 DEF Sorted
<1>5. i <= k
  BY <1>1, <1>2, <1>3 DEF Row
<1>6. j \in DOMAIN order /\ j < k
  BY <1>2, <1>4, <1>5
<1>7. QED
  BY <1>4, <1>6 DEF Row

LEMMA RunInvImplies == RunInv => DependenciesRun
<1> SUFFICES ASSUME RunInv, ~spoiled,
                    NEW s \in Services, state[s] = "running",
                    NEW d \in deps[s]
             PROVE  state[d] = "running"
  BY DEF DependenciesRun
<1>1. d \in Services
  <2>1. PICK i \in DOMAIN order : order[i] = s
    BY DEF RunInv, Sorted
  <2>2. PICK j \in 1..(i - 1) : order[j] = d
    BY <2>1 DEF RunInv, Sorted
  <2>3. j \in DOMAIN order
    BY <2>1, <2>2, CurrentKnown DEF RunInv, Shape
  <2>4. QED
    BY <2>2, <2>3 DEF RunInv, Sorted
<1>2. CASE All(state, "running")
  BY <1>1, <1>2 DEF All
<1>3. ~All(state, "absent")
  BY DEF All
<1>4. CASE \E k \in DOMAIN order, x \in {"absent", "created", "running",
                                          "stopped"} : Row(state, k, x)
  BY <1>4, RowSupported DEF RunInv
<1>5. pc \in {"idle", "rootfs", "create", "start", "stop", "delete"}
  BY DEF RunInv, Shape, Inside
<1>6. QED
  BY <1>2, <1>3, <1>4, <1>5, CurrentKnown DEF RunInv, RunRow, Shape

\* The loop of stack_up goes on behind a service that runs, or up has found
\* everything running.
LEMMA RunNextUp ==
    ASSUME Shape, UNCHANGED order, at \in DOMAIN order,
           Row(state', at, "running") \/ All(state', "running"), NextUp
    PROVE  RunRow'
<1>1. Row(state', at, "running") =>
        /\ at < Len(order) => Row(state', at + 1, "absent")
        /\ ~(at < Len(order)) => All(state', "running")
  BY RowAfter
<1>2. CASE at < Len(order)
  <2>1. pc' = "rootfs" /\ at' = at + 1
    BY <1>2 DEF NextUp
  <2>2. QED
    BY <1>1, <1>2, <2>1 DEF RunRow, Row, All
<1>3. CASE ~(at < Len(order))
  BY <1>1, <1>3 DEF NextUp, RunRow, All
<1>4. QED
  BY <1>2, <1>3

LEMMA RunNextDown ==
    ASSUME Shape, UNCHANGED order, at \in DOMAIN order,
           Row(state', at, "absent") \/ All(state', "absent"), NextDown
    PROVE  RunRow'
<1>1. Row(state', at, "absent") =>
        /\ at > 1 => Row(state', at - 1, "running")
        /\ ~(at > 1) => All(state', "absent")
  BY RowBefore
<1>2. CASE at > 1
  <2>1. pc' = "stop" /\ at' = at - 1
    BY <1>2 DEF NextDown
  <2>2. QED
    BY <1>1, <1>2, <2>1 DEF RunRow, Row, All
<1>3. CASE ~(at > 1)
  BY <1>1, <1>3 DEF NextDown, RunRow, All
<1>4. QED
  BY <1>2, <1>3

LEMMA StepRun == RunInv /\ Next => RunRow'
<1> SUFFICES ASSUME RunInv, Next, ~spoiled' PROVE RunRow'
  BY DEF RunRow
<1>1. /\ pc # "idle" => at \in DOMAIN order
      /\ DOMAIN order = 1..Len(order) /\ Len(order) \in Nat \ {0}
      /\ Current = order[at]
      /\ pc # "idle" => Current \in Services
  BY CurrentKnown DEF RunInv, Shape, Current
<1>2. pc # "idle" => ~spoiled /\ UNCHANGED order
  <2>1. pc # "idle" => ~spoiled
    BY DEF Next, BeginUp, Rootfs, CreateService, StartService, BeginDown,
           StopService, DeleteService, Abort, Begin, FailOn, Fail, Fine,
           Within
  <2>2. QED
    BY <2>1, OrderOfCommand
<1>3. CASE BeginUp
  <2>1. /\ pc = "idle" /\ pc' = "rootfs" /\ at' = 1 /\ UNCHANGED state
        /\ Begin
    BY <1>3 DEF BeginUp, Begin
  <2>2. All(state, "absent") \/ All(state, "running")
    BY <2>1 DEF Begin, NoneExists, All, RunInv, RunRow
  <2>3. Row(state, 1, "absent")' \/ All(state, "running")'
    BY <2>1, <2>2, RowFirst DEF All
  <2>4. QED
    BY <2>1, <2>3 DEF RunRow, Row, All
<1>4. CASE BeginDown
  <2>1. /\ pc = "idle" /\ pc' = "stop" /\ at' = Len(order')
        /\ UNCHANGED state /\ Begin
    BY <1>4 DEF BeginDown, Begin
  <2>2. All(state, "absent") \/ All(state, "running")
    BY <2>1 DEF Begin, NoneExists, All, RunInv, RunRow
  <2>3. Row(state, Len(order), "running")' \/ All(state, "absent")'
    BY <2>1, <2>2, RowFirst DEF All
  <2>4. QED
    BY <2>1, <2>3 DEF RunRow, Row, All
<1>5. CASE Rootfs
  <2>1. /\ pc = "rootfs" /\ pc' = "create" /\ UNCHANGED <<state, at>>
    BY <1>2, <1>5 DEF Rootfs, Fail, Within
  <2>2. QED
    BY <1>2, <2>1 DEF RunInv, RunRow, Row, All
<1>6. CASE CreateService
  <2>1. pc = "create"
    BY <1>6 DEF CreateService, Within
  <2>2. CASE /\ state[Current] = "absent" /\ pc' = "start" /\ UNCHANGED at
             /\ state' = [state EXCEPT ![Current] = "created"]
    <3>1. Row(state, at, "absent")
      BY <1>1, <1>2, <2>1, <2>2 DEF RunInv, RunRow, All
    <3>2. Row(state', at, "created")
      BY <1>1, <2>1, <2>2, <3>1, RowChanged DEF RunInv
    <3>3. QED
      BY <1>2, <2>1, <2>2, <3>2 DEF RunRow, Row
  <2>3. CASE state[Current] # "absent" /\ UNCHANGED state /\ NextUp
    <3>1. at \in Nat
      BY <1>1, <2>1
    <3>2. ~Row(state, at, "absent")
      BY <1>1, <2>1, <2>3, <3>1 DEF Row
    <3>3. All(state', "running")
      BY <1>2, <2>1, <2>3, <3>2 DEF RunInv, RunRow, All
    <3>4. QED
      BY <1>1, <1>2, <2>1, <2>3, <3>3, RunNextUp DEF RunInv
  <2>4. QED
    BY <1>2, <1>6, <2>2, <2>3 DEF CreateService, FailOn, Fail
<1>7. CASE StartService
  <2>1. /\ pc = "start" /\ NextUp
        /\ state' = [state EXCEPT ![order[at]] = "running"]
    BY <1>1, <1>2, <1>7 DEF StartService, FailOn, Fail, Within
  <2>2. Row(state', at, "running")
    BY <1>1, <1>2, <2>1, RowChanged DEF RunInv, RunRow
  <2>3. QED
    BY <1>1, <1>2, <2>1, <2>2, RunNextUp DEF RunInv
<1>8. CASE StopService
  <2>1. pc = "stop" /\ pc' = "delete" /\ UNCHANGED at
    BY <1>8 DEF StopService, Within
  <2>2. CASE /\ state[Current] = "running"
             /\ state' = [state EXCEPT ![Current] = "stopped"]
    <3>1. Row(state, at, "running")
      BY <1>1, <1>2, <2>1, <2>2 DEF RunInv, RunRow, All
    <3>2. Row(state', at, "stopped")
      BY <1>1, <2>1, <2>2, <3>1, RowChanged DEF RunInv
    <3>3. QED
      BY <1>2, <2>1, <3>2 DEF RunRow, Row
  <2>3. CASE state[Current] # "running" /\ UNCHANGED state
    <3>1. at \in Nat
      BY <1>1, <2>1
    <3>2. ~Row(state, at, "running")
      BY <1>1, <2>1, <2>3, <3>1 DEF Row
    <3>3. QED
      BY <1>2, <2>1, <2>3, <3>2 DEF RunInv, RunRow, All
  <2>4. QED
    BY <1>2, <1>8, <2>2, <2>3 DEF StopService, FailOn, Fail
<1>9. CASE DeleteService
  <2>1. pc = "delete" /\ NextDown
    BY <1>9 DEF DeleteService, Within
  <2>2. CASE /\ state[Current] \in {"created", "stopped"}
             /\ state' = [state EXCEPT ![Current] = "absent"]
    <3>1. Row(state, at, "stopped")
      BY <1>1, <1>2, <2>1, <2>2 DEF RunInv, RunRow, All
    <3>2. Row(state', at, "absent")
      BY <1>1, <2>1, <2>2, <3>1, RowChanged DEF RunInv
    <3>3. QED
      BY <1>1, <1>2, <2>1, <3>2, RunNextDown DEF RunInv
  <2>3. CASE state[Current] \in {"absent", "running"} /\ UNCHANGED state
    <3>1. at \in Nat
      BY <1>1, <2>1
    <3>2. ~Row(state, at, "stopped")
      BY <1>1, <2>1, <2>3, <3>1 DEF Row
    <3>3. All(state', "absent")
      BY <1>2, <2>1, <2>3, <3>2 DEF RunInv, RunRow, All
    <3>4. QED
      BY <1>1, <1>2, <2>1, <3>3, RunNextDown DEF RunInv
  <2>4. QED
    BY <1>2, <1>9, <2>2, <2>3 DEF DeleteService, FailOn, Fail
<1>10. ~Abort
  BY DEF Abort
<1>11. QED
  BY <1>3, <1>4, <1>5, <1>6, <1>7, <1>8, <1>9, <1>10 DEF Next

\* stack_up goes through the order that topological_sort has found, and
\* stack_down goes back through one that it finds for itself.  As long as no
\* call fails and no command is killed since the stack was last empty, a
\* service runs only while all it depends on runs.
THEOREM DependenciesCorrect == Spec => []DependenciesRun
<1>1. Init => RunInv
  BY InitRun
<1>2. RunInv /\ [Next]_vars => RunInv'
  <2> SUFFICES ASSUME RunInv, [Next]_vars PROVE RunInv'
    OBVIOUS
  <2>1. CASE Next
    <3>1. UNCHANGED deps /\ (UNCHANGED order \/ order' \in Orders)
      BY <2>1, OrderOfCommand
    <3>2. Sorted(order, deps)'
      BY <3>1 DEF RunInv, Sorted, Orders
    <3>3. QED
      BY <2>1, <3>2, StepRun, StepShape DEF RunInv
  <2>2. CASE UNCHANGED vars
    BY <2>2 DEF vars, RunInv, Shape, Complete, Inside, Injective, Sorted,
                RunRow, Row, All
  <2>3. QED
    BY <2>1, <2>2
<1>3. RunInv => DependenciesRun
  BY RunInvImplies
<1>4. QED
  BY <1>1, <1>2, <1>3, PTL DEF Spec

-----------------------------------------------------------------------------
\* The types

TypeInv == TypeOK /\ Complete /\ Inside

LEMMA InitTypes == Init => TypeInv
<1> SUFFICES ASSUME Init PROVE TypeInv
  OBVIOUS
<1>1. Complete
  BY InitDown DEF DownInv
<1>2. Len(order) \in Nat
  BY <1>1 DEF Complete
<1>3. order \in Seq(Services) /\ state \in [Services -> {"absent", "created", "running", "stopped", "broken"}]
  BY <1>1 DEF Complete
<1>4. /\ deps \in [Services -> SUBSET Services]
      /\ pc = "idle" /\ at = 0 /\ last = "none"
      /\ troubled = FALSE /\ before = state /\ spoiled = FALSE
  BY DEF Init
<1>5. {troubled, spoiled} \subseteq BOOLEAN
  BY <1>4
<1>6. at \in 0..Len(order)
  BY <1>2, <1>4
<1>7. QED
  BY <1>1, <1>3, <1>4, <1>5, <1>6 DEF TypeInv, TypeOK, Inside

LEMMA StepTypes == TypeInv /\ [Next]_vars => TypeInv'
<1> SUFFICES ASSUME TypeInv, [Next]_vars PROVE TypeInv'
  OBVIOUS
<1>1. CASE UNCHANGED vars
  BY <1>1 DEF vars, TypeInv, TypeOK, Complete, Inside
<1>2. CASE Next
  <2>1. Complete' /\ Inside'
    BY <1>2, CompleteKept, InsideKept DEF TypeInv
  <2>2. UNCHANGED deps
    BY <1>2, OrderOfCommand
  <2>3. at' \in 0..Len(order') /\ (pc' # "idle" => at' > 0)
    <3>1. Len(order') \in Nat
      BY <2>1 DEF Complete
    <3>2. pc' = "idle" => at' = 0
      BY <1>2 DEF Next, BeginUp, Rootfs, CreateService, StartService,
                  BeginDown, StopService, DeleteService, Abort, NextUp,
                  NextDown, Within
    <3>3. QED
      BY <2>1, <2>2, <3>1, <3>2 DEF Inside
  <2>7. before' \in {before, state}
    BY <1>2 DEF Next, BeginUp, Rootfs, CreateService, StartService, BeginDown,
                StopService, DeleteService, Abort, Begin, Within
  <2>4. {troubled', spoiled'} \subseteq BOOLEAN
    BY <1>2 DEF TypeInv, TypeOK, Next, BeginUp, Rootfs, CreateService,
                StartService, BeginDown, StopService, DeleteService, Abort, Begin,
                Fine, Fail, FailOn, NoneExists, Within
  <2>5. last' \in {"none", "up", "down"}
    BY <1>2 DEF TypeInv, TypeOK, Next, BeginUp, Rootfs, CreateService,
                StartService, BeginDown, StopService, DeleteService, Abort,
                Begin, NextUp, NextDown
  <2>6. QED
    BY <2>1, <2>2, <2>3, <2>4, <2>5, <2>7 DEF TypeInv, TypeOK, Complete, Inside
<1>3. QED
  BY <1>1, <1>2

\* stack_up and stack_down: the loop of a command never leaves the order of
\* the services, and a container is only ever in a state its file can name.
THEOREM StackTypes == Spec => []TypeOK
<1>1. TypeInv => TypeOK
  BY DEF TypeInv
<1>2. QED
  BY InitTypes, StepTypes, <1>1, PTL DEF Spec
=============================================================================
