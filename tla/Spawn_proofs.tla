---------------------------- MODULE Spawn_proofs -----------------------------
(***************************************************************************)
(* spawn_process and the filter of its child, proved: the order that the   *)
(* pipe enforces, and the verdicts of the filter for every list of blocked *)
(* calls that is short enough for the offsets of its jumps.                *)
(***************************************************************************)
EXTENDS MCSpawnHandshake, TLAPS

-----------------------------------------------------------------------------
\* The handshake and the filter do not write each other's state.
LEMMA Apart ==
    [Advance]_<<vars, filterVars>> => [Next]_vars /\ [Filtering \/ Enter]_filterVars
  BY DEF Advance, vars, filterVars

\* The child of spawn_process and the calls of its command, run together, are
\* the handshake and the filter each as it is specified alone.
LEMMA ComposedIsBoth == Composed => Spec /\ FilterSpec
  BY Apart, PTL DEF Composed, Begin, Spec, FilterSpec

-----------------------------------------------------------------------------
\* The handshake.

\* Where the child has not unshared, it still holds the write end; so that the
\* parent reads neither the byte nor end of file unless the child has unshared
\* or is dead.
WaitInv ==
    /\ TypeOK
    /\ parent = "fork" => child = "unborn"
    /\ child = "unborn" => parent \in {"fork", "failed"}
    /\ child \in {"close", "unshare"} => "child" \in writers
    /\ child \in {"signal", "hangup", "secure", "exec", "command"}
          => spaces = Unshared
    /\ pipe => spaces = Unshared
    /\ grouped => spaces = Unshared
    /\ parent \in {"attach", "returned"} => spaces = Unshared \/ child = "dead"

LEMMA InitWait == Init => WaitInv
  BY DEF Init, WaitInv, TypeOK, Namespaces

LEMMA StepWait == WaitInv /\ [Next]_vars => WaitInv'
  <1> SUFFICES ASSUME WaitInv, [Next]_vars
               PROVE  WaitInv'
    OBVIOUS
  <1> USE DEF WaitInv, TypeOK, Unshared, Namespaces
  <1>1. CASE Fork
    BY <1>1 DEF Fork
  <1>2. CASE CloseWriteEnd
    BY <1>2 DEF CloseWriteEnd
  <1>3. CASE ReadByte
    <2>1. spaces = Unshared \/ child = "dead"
      BY <1>3 DEF ReadByte
    <2> QED
      BY <1>3, <2>1 DEF ReadByte
  <1>4. CASE Attach
    BY <1>4 DEF Attach, Alive
  <1>5. CASE CloseReadEnd
    BY <1>5 DEF CloseReadEnd
  <1>6. CASE Unshare
    BY <1>6 DEF Unshare
  <1>7. CASE SendByte
    BY <1>7 DEF SendByte
  <1>8. CASE Hangup
    BY <1>8 DEF Hangup
  <1>9. CASE Secure
    BY <1>9 DEF Secure
  <1>10. CASE Exec
    BY <1>10 DEF Exec
  <1>11. CASE ForkFails
    BY <1>11 DEF ForkFails
  <1>12. CASE ParentDies
    BY <1>12 DEF ParentDies
  <1>13. CASE ChildDies
    BY <1>13 DEF ChildDies, Alive
  <1>14. CASE UNCHANGED vars
    BY <1>14 DEF vars
  <1> QED
    BY <1>1, <1>2, <1>3, <1>4, <1>5, <1>6, <1>7, <1>8, <1>9, <1>10, <1>11,
       <1>12, <1>13, <1>14 DEF Next, ParentStep, ChildStep

\* In every execution the parent neither puts the child into the cgroup nor
\* returns its pid before the child is isolated or dead, and the command runs
\* only isolated.
THEOREM Isolation == Composed => []IsolatedFirst
  <1>1. WaitInv => IsolatedFirst
    BY DEF WaitInv, IsolatedFirst
  <1> QED
    BY InitWait, StepWait, <1>1, ComposedIsBoth, PTL DEF Spec

\* spawn_process: in every execution the parent, the child and the ends of the
\* pipe are in the states the model gives them.
THEOREM HandshakeTypes == Composed => []TypeOK
  <1>1. WaitInv => TypeOK
    BY DEF WaitInv
  <1> QED
    BY InitWait, StepWait, <1>1, ComposedIsBoth, PTL DEF Spec

-----------------------------------------------------------------------------
\* The filter.

LEMMA FilterAt ==
    /\ Filter[0] = Load("arch") /\ Filter[1] = Equal("x86_64", 1)
    /\ Filter[2] = Ret("kill") /\ Filter[3] = Load("nr")
    /\ \A p \in 4..(Len(Blocked) + 3) : Filter[p] = Equal(Blocked[p - 3], Len(Blocked) + 4 - p)
    /\ Filter[Len(Blocked) + 4] = Ret("allow")
    /\ Filter[Len(Blocked) + 5] = Ret("errno")
  <1> USE BlockedAssumption
  <1> DEFINE n == Len(Blocked)
  <1>1. n \in Nat
    OBVIOUS
  <1>2. \A p \in 0..3 : Filter[p] = Prologue[p + 1]
    BY <1>1 DEF Filter
  <1>3. ASSUME NEW p \in 4..(n + 3)
        PROVE  Filter[p] = Equal(Blocked[p - 3], n + 4 - p)
    <2>1. Filter[p] = Test(p - 4)
      BY <1>1 DEF Filter
    <2>2. (n - (p - 4)) % Offsets = n + 4 - p /\ p - 4 + 1 = p - 3
      BY <1>1
    <2> QED
      BY <2>1, <2>2 DEF Test
  <1>4. Filter[n + 4] = Ret("allow") /\ Filter[n + 5] = Ret("errno")
    BY <1>1 DEF Filter
  <1> QED
    BY <1>2, <1>3, <1>4 DEF Prologue

LEMMA InitFilter == FilterInit => FilterInv
  BY BlockedAssumption DEF FilterInit, FilterInv

LEMMA StepFilter == FilterInv /\ [Filtering \/ Enter]_filterVars => FilterInv'
  <1> SUFFICES ASSUME FilterInv, [Filtering \/ Enter]_filterVars
               PROVE  FilterInv'
    OBVIOUS
  <1> USE BlockedAssumption
  <1> DEFINE n == Len(Blocked)
  <1>0. /\ n \in Nat
        /\ call \in Calls /\ pc \in 0..(n + 5)
    BY DEF FilterInv
  <1>a. \/ pc \in {0, 3} /\ Insn.code = "load" /\ Insn.field = IF pc = 0 THEN "arch" ELSE "nr"
        \/ pc = 1 /\ Insn = Equal("x86_64", 1)
        \/ pc \in 4..(n + 3) /\ Insn = Equal(Blocked[pc - 3], n + 4 - pc)
        \/ pc = 2 /\ Insn = Ret("kill")
        \/ pc = n + 4 /\ Insn = Ret("allow")
        \/ pc = n + 5 /\ Insn = Ret("errno")
    <2>1. pc \in {0, 1, 2, 3} \/ pc \in 4..(n + 3) \/ pc = n + 4 \/ pc = n + 5
      BY <1>0
    <2>2. CASE pc \in {0, 1, 2, 3}
      BY <2>2, FilterAt DEF Insn, Load
    <2>3. CASE pc \in 4..(n + 3)
      BY <2>3, FilterAt DEF Insn
    <2>4. CASE pc = n + 4 \/ pc = n + 5
      BY <2>4, FilterAt DEF Insn
    <2> QED
      BY <2>1, <2>2, <2>3, <2>4
  <1>b. \A k, jt : Equal(k, jt).code = "equal" /\ Equal(k, jt).k = k /\ Equal(k, jt).jt = jt
    BY DEF Equal
  <1>c. \A v : Ret(v).code = "return" /\ Ret(v).value = v
    BY DEF Ret
  <1>1. CASE LoadField
    <2>0. Insn.code = "load"
      BY <1>1 DEF LoadField, Running
    <2>1. \/ pc = 0 /\ Insn.field = "arch"
          \/ pc = 3 /\ Insn.field = "nr"
      BY <1>a, <1>b, <1>c, <2>0
    <2>2. call' = call /\ verdict' = "none" /\ verdict = "none" /\ pc' = pc + 1
      BY <1>1 DEF LoadField, Running
    <2>3. CASE pc = 0
      BY <1>0, <1>1, <2>1, <2>2, <2>3 DEF FilterInv, LoadField, Calls
    <2>4. CASE pc = 3
      <3>1. acc' = call.nr /\ call.arch = "x86_64"
        BY <1>1, <2>1, <2>4 DEF LoadField, FilterInv
      <3> QED
        BY <1>0, <2>2, <2>4, <3>1 DEF FilterInv, IsBlocked
    <2> QED
      BY <2>1, <2>3, <2>4
  <1>2. CASE Jump
    <2>0. Insn.code = "equal"
      BY <1>2 DEF Jump, Running
    <2>1. \/ pc = 1 /\ Insn = Equal("x86_64", 1)
          \/ pc \in 4..(n + 3) /\ Insn = Equal(Blocked[pc - 3], n + 4 - pc)
      BY <1>a, <1>c, <2>0
    <2>2. call' = call /\ acc' = acc /\ verdict' = "none" /\ verdict = "none"
      BY <1>2 DEF Jump, Running
    <2>3. CASE pc = 1
      <3>1. pc' = IF call.arch = "x86_64" THEN 3 ELSE 2
        BY <1>0, <1>2, <1>b, <2>1, <2>3 DEF Jump, FilterInv
      <3> QED
        BY <1>0, <2>2, <3>1 DEF FilterInv
    <2>4. CASE pc \in 4..(n + 3)
      <3>1. acc = call.nr /\ call.arch = "x86_64" /\ \A i \in 1..(pc - 4) : Blocked[i] # call.nr
        BY <2>4, <1>0 DEF FilterInv
      <3>2. Insn.k = Blocked[pc - 3] /\ Insn.jt = n + 4 - pc
        BY <1>0, <1>b, <2>1, <2>4
      <3>3. CASE call.nr = Blocked[pc - 3]
        <4>1. pc' = n + 5
          BY <1>0, <1>2, <3>1, <3>2, <3>3, <2>4 DEF Jump
        <4>2. IsBlocked(call.nr)
          BY <1>0, <2>4, <3>3 DEF IsBlocked
        <4> QED
          BY <1>0, <2>2, <3>1, <4>1, <4>2 DEF FilterInv, IsBlocked
      <3>4. CASE call.nr # Blocked[pc - 3]
        <4>1. pc' = pc + 1
          BY <1>0, <1>2, <3>1, <3>2, <3>4 DEF Jump
        <4>2. \A i \in 1..(pc' - 4) : Blocked[i] # call.nr
          BY <1>0, <2>4, <3>1, <3>4, <4>1
        <4> QED
          BY <1>0, <2>2, <2>4, <3>1, <4>1, <4>2 DEF FilterInv
      <3> QED
        BY <3>3, <3>4
    <2> QED
      BY <2>1, <2>3, <2>4
  <1>3. CASE Decide
    <2>0. Insn.code = "return" /\ verdict' = Insn.value
      BY <1>3 DEF Decide, Running
    <2>1. \/ pc = 2 /\ verdict' = "kill"
          \/ pc = n + 4 /\ verdict' = "allow"
          \/ pc = n + 5 /\ verdict' = "errno"
      BY <1>a, <1>b, <1>c, <2>0
    <2> QED
      BY <1>0, <1>3, <2>1 DEF Decide, FilterInv, IsBlocked
  <1>4. CASE Enter
    BY <1>0, <1>4 DEF Enter, FilterInv, IsBlocked
  <1>5. CASE UNCHANGED filterVars
    BY <1>5 DEF filterVars, FilterInv, IsBlocked
  <1> QED
    BY <1>1, <1>2, <1>3, <1>4, <1>5 DEF Filtering

\* Whatever the list of blocked calls: a call on it is refused, another one is
\* allowed, and a caller of another architecture is killed.
THEOREM FilterDecides == Composed => []FilterRight
  <1>1. FilterInv => FilterRight
    <2> SUFFICES ASSUME FilterInv
                 PROVE  FilterRight
      OBVIOUS
    <2>1. Len(Blocked) \in Nat /\ DOMAIN Filter = 0..(Len(Blocked) + 5)
      BY BlockedAssumption DEF Filter
    <2>2. verdict = "allow" => ~IsBlocked(call.nr)
      BY <2>1 DEF FilterInv, IsBlocked
    <2> QED
      BY <2>1, <2>2 DEF FilterInv, FilterRight
  <1> QED
    BY InitFilter, StepFilter, <1>1, ComposedIsBoth, PTL DEF FilterSpec
=============================================================================
