--------------------------- MODULE TopoSort_proofs ---------------------------
(***************************************************************************)
(* The order and the verdict of topological_sort are right, for every set  *)
(* of services, every dependency graph and every enumeration order.        *)
(***************************************************************************)
EXTENDS TopoSort, TLAPS, FiniteSetTheorems, SequenceTheorems

Permanent == {s \in Services : mark[s] = "permanent"}

\* The services that have been finished are those in the order, each once.
Recorded ==
    /\ \A s \in Services : mark[s] = "permanent" <=>
                              \E j \in 1..Len(order) : order[j] = s
    /\ Len(order) = Cardinality(Permanent)

\* The services being visited are those in the path, each once, and each
\* depends on the one behind it.
Nested ==
    /\ \A s \in Services : mark[s] = "temporary" <=>
                              \E i \in 1..Len(path) : path[i] = s
    /\ \A i, k \in 1..Len(path) : path[i] = path[k] => i = k
    /\ \A i \in 1..(Len(path) - 1) : path[i + 1] \in deps[path[i]]
    /\ \A s \in Services : todo[s] \subseteq deps[s]

\* A dependency that the loop of a service being visited has passed is
\* finished, or is the one that the visit has descended into.
Passed ==
    \A s \in Services : mark[s] = "temporary" =>
        \A d \in deps[s] \ todo[s] :
            /\ d \in Services
            /\ \/ mark[d] = "permanent"
               \/ \E i \in 1..(Len(path) - 1) : path[i] = s /\ path[i + 1] = d

\* The finished services depend on finished ones only, and not in a circle.
Sorted ==
    /\ \A s \in Permanent : deps[s] \subseteq Permanent
    /\ \A S \in SUBSET Permanent : S # {} => \E s \in S : deps[s] \cap S = {}

SortInv ==
    /\ TypeOK /\ Recorded /\ Nested /\ Passed /\ Sorted
    /\ DependenciesFirst /\ VerdictRight
-----------------------------------------------------------------------------
LEMMA TopOfPath ==
    ASSUME TypeOK, path # <<>>
    PROVE  Len(path) \in Nat \ {0} /\ Top \in Services
  <1>1. path \in Seq(Services)
    BY DEF TypeOK
  <1>2. Len(path) \in Nat /\ Len(path) # 0
    BY <1>1, EmptySeq, LenProperties
  <1> QED
    BY <1>1, <1>2, ElementOfSeq DEF Top

LEMMA PermanentFinite == IsFiniteSet(Permanent)
  BY ServicesAssumption, FS_Subset DEF Permanent

LEMMA InitSort == Init => SortInv
  <1> SUFFICES ASSUME Init
               PROVE  SortInv
    OBVIOUS
  <1>1. path = <<>> /\ order = <<>> /\ Len(path) = 0 /\ Len(order) = 0
    BY EmptySeq DEF Init
  <1>2. TypeOK
    BY EmptySeq DEF Init, TypeOK
  <1>3. Permanent = {}
    BY DEF Init, Permanent
  <1>4. Recorded
    BY <1>1, <1>3, FS_EmptySet DEF Recorded, Init
  <1>5. Nested
    BY <1>1 DEF Nested, Init
  <1>6. Passed /\ Sorted
    BY <1>3 DEF Passed, Sorted, Init
  <1>7. DependenciesFirst /\ VerdictRight
    BY <1>1 DEF DependenciesFirst, VerdictRight, Init
  <1> QED
    BY <1>2, <1>4, <1>5, <1>6, <1>7 DEF SortInv

\* Neither the verdict nor anything said of the order depends on the path.
LEMMA OrderKept ==
    ASSUME SortInv, UNCHANGED <<deps, order, result>>,
           \A s \in Services : mark'[s] = "permanent" <=> mark[s] = "permanent"
    PROVE  Permanent' = Permanent /\ Recorded' /\ Sorted'
           /\ DependenciesFirst' /\ VerdictRight'
  <1>1. Permanent' = Permanent
    BY DEF Permanent
  <1>2. Recorded'
    BY <1>1 DEF SortInv, Recorded
  <1>3. Sorted'
    BY <1>1 DEF SortInv, Sorted
  <1>4. DependenciesFirst'
    BY DEF SortInv, DependenciesFirst
  <1>5. VerdictRight'
    BY DEF SortInv, VerdictRight, HasUnknown, HasCircle
  <1> QED
    BY <1>1, <1>2, <1>3, <1>4, <1>5

\* An activation that begins for a service that is not marked, called by none
\* or by the innermost one, which has such a dependency.
LEMMA PushStep ==
    ASSUME SortInv, NEW s \in Services, mark[s] = "none", result = "running",
           NEW left, Push(s, left), UNCHANGED <<deps, order, result>>,
           \/ path = <<>> /\ left = todo
           \/ /\ path # <<>> /\ s \in todo[Top]
              /\ left = [todo EXCEPT ![Top] = @ \ {s}]
    PROVE  SortInv'
  <1> DEFINE n == Len(path)
  <1>0. TypeOK
    BY DEF SortInv
  <1>1. n \in Nat /\ (path = <<>> => n = 0) /\ (path # <<>> => n # 0 /\ Top \in Services)
    BY <1>0, TopOfPath, EmptySeq
  <1>2. /\ path' \in Seq(Services) /\ Len(path') = n + 1
        /\ \A i \in 1..n : path'[i] = path[i]
        /\ path'[n + 1] = s
    BY <1>0, AppendProperties DEF Push, TypeOK
  <1>3. /\ \A t \in Services : mark'[t] = IF t = s THEN "temporary" ELSE mark[t]
        /\ mark' \in [Services -> {"none", "temporary", "permanent"}]
    BY <1>0 DEF Push, TypeOK
  <1>4. /\ todo' \in [Services -> SUBSET (Services \cup {Unknown})]
        /\ todo'[s] = deps[s]
        /\ \A t \in Services \ {s} :
              todo'[t] = IF path # <<>> /\ t = Top THEN todo[t] \ {s} ELSE todo[t]
    BY <1>0, <1>1 DEF Push, TypeOK
  <1>5. \A i \in 1..n : path[i] \in Services /\ path[i] # s
    <2>1. \A i \in 1..n : path[i] \in Services
      BY <1>0, ElementOfSeq DEF TypeOK
    <2> QED
      BY <2>1 DEF SortInv, Nested
  <1>6. TypeOK'
    BY <1>0, <1>2, <1>3, <1>4 DEF TypeOK
  <1>7. Permanent' = Permanent /\ Recorded' /\ Sorted' /\ DependenciesFirst'
        /\ VerdictRight'
    BY <1>3, OrderKept
  <1>8. Nested'
    <2>1. \A t \in Services : mark'[t] = "temporary" <=>
                                 \E i \in 1..Len(path') : path'[i] = t
      <3> SUFFICES ASSUME NEW t \in Services
                   PROVE  mark'[t] = "temporary" <=>
                              \E i \in 1..(n + 1) : path'[i] = t
        BY <1>2
      <3>1. CASE t = s
        BY <3>1, <1>1, <1>2, <1>3
      <3>2. CASE t # s
        <4>1. mark[t] = "temporary" <=> \E i \in 1..n : path[i] = t
          BY DEF SortInv, Nested
        <4>2. (\E i \in 1..(n + 1) : path'[i] = t) <=>
                  \E i \in 1..n : path[i] = t
          BY <1>1, <1>2, <3>2
        <4> QED
          BY <4>1, <4>2, <1>3, <3>2
      <3> QED
        BY <3>1, <3>2
    <2>2. \A i, k \in 1..Len(path') : path'[i] = path'[k] => i = k
      <3>1. \A i, k \in 1..n : path[i] = path[k] => i = k
        BY DEF SortInv, Nested
      <3> QED
        BY <3>1, <1>1, <1>2, <1>5
    <2>3. \A i \in 1..(Len(path') - 1) : path'[i + 1] \in deps'[path'[i]]
      <3> SUFFICES ASSUME NEW i \in 1..n
                   PROVE  path'[i + 1] \in deps[path[i]]
        BY <1>1, <1>2
      <3>1. CASE i < n
        BY <3>1, <1>1, <1>2 DEF SortInv, Nested
      <3>2. CASE i = n
        <4>1. path # <<>> /\ path[i] = Top /\ s \in todo[Top]
          BY <3>2, <1>1 DEF Top
        <4>2. s \in deps[Top]
          BY <4>1, <1>1 DEF SortInv, Nested
        <4> QED
          BY <3>2, <4>1, <4>2, <1>2
      <3> QED
        BY <3>1, <3>2, <1>1
    <2>4. \A t \in Services : todo'[t] \subseteq deps'[t]
      BY <1>4 DEF SortInv, Nested
    <2> QED
      BY <2>1, <2>2, <2>3, <2>4 DEF Nested
  <1>9. Passed'
    <2> SUFFICES ASSUME NEW t \in Services, mark'[t] = "temporary",
                        NEW d \in deps[t] \ todo'[t]
                 PROVE  /\ d \in Services
                        /\ \/ mark'[d] = "permanent"
                           \/ \E i \in 1..n : path'[i] = t /\ path'[i + 1] = d
      BY <1>1, <1>2 DEF Passed
    <2>1. t # s /\ mark[t] = "temporary"
      BY <1>3, <1>4
    <2>2. CASE d \notin todo[t]
      <3>1. /\ d \in Services
            /\ \/ mark[d] = "permanent"
               \/ \E i \in 1..(n - 1) : path[i] = t /\ path[i + 1] = d
        BY <2>1, <2>2 DEF SortInv, Passed
      <3>2. CASE mark[d] = "permanent"
        BY <3>1, <3>2, <1>3
      <3>3. CASE \E i \in 1..(n - 1) : path[i] = t /\ path[i + 1] = d
        BY <3>1, <3>3, <1>1, <1>2
      <3> QED
        BY <3>1, <3>2, <3>3
    <2>3. CASE d \in todo[t]
      <3>1. path # <<>> /\ t = Top /\ d = s
        BY <2>1, <2>3, <1>4
      <3>2. path'[n] = t /\ path'[n + 1] = d /\ n \in 1..n
        BY <3>1, <1>1, <1>2 DEF Top
      <3> QED
        BY <3>1, <3>2
    <2> QED
      BY <2>2, <2>3
  <1> QED
    BY <1>6, <1>7, <1>8, <1>9 DEF SortInv

LEMMA SkipStep ==
    ASSUME SortInv, NEW e \in Services, Skip(e)
    PROVE  SortInv'
  <1>0. TypeOK
    BY DEF SortInv
  <1>1. path # <<>> /\ Top \in Services /\ e \in todo[Top] /\ mark[e] = "permanent"
        /\ UNCHANGED <<deps, mark, path, order, result>>
    BY <1>0, TopOfPath DEF Skip, Reach
  <1>2. /\ todo' \in [Services -> SUBSET (Services \cup {Unknown})]
        /\ \A t \in Services : todo'[t] = IF t = Top THEN todo[t] \ {e} ELSE todo[t]
    BY <1>0, <1>1 DEF Skip, TypeOK
  <1>3. TypeOK'
    BY <1>0, <1>1, <1>2 DEF TypeOK
  <1>4. Permanent' = Permanent /\ Recorded' /\ Sorted' /\ DependenciesFirst'
        /\ VerdictRight'
    BY <1>1, OrderKept
  <1>5. Nested'
    BY <1>1, <1>2 DEF SortInv, Nested
  <1>6. Passed'
    <2> SUFFICES ASSUME NEW t \in Services, mark[t] = "temporary",
                        NEW d \in deps[t] \ todo'[t]
                 PROVE  /\ d \in Services
                        /\ \/ mark[d] = "permanent"
                           \/ \E i \in 1..(Len(path) - 1) :
                                 path[i] = t /\ path[i + 1] = d
      BY <1>1 DEF Passed
    <2>1. CASE d \in todo[t]
      BY <2>1, <1>1, <1>2
    <2>2. CASE d \notin todo[t]
      BY <2>2 DEF SortInv, Passed
    <2> QED
      BY <2>1, <2>2
  <1> QED
    BY <1>3, <1>4, <1>5, <1>6 DEF SortInv

\* When the loop of a service ends, all it depends on is finished: what it has
\* descended into stands behind it in the path, and there is nothing.
LEMMA FinishStep ==
    ASSUME SortInv, Finish
    PROVE  SortInv'
  <1> DEFINE n == Len(path)
             o == Len(order)
  <1>0. TypeOK
    BY DEF SortInv
  <1>1. n \in Nat \ {0} /\ Top \in Services /\ path[n] = Top
        /\ todo[Top] = {} /\ UNCHANGED <<deps, todo, result>> /\ result = "running"
    BY <1>0, TopOfPath DEF Finish, Top
  <1>2. /\ order' \in Seq(Services) /\ Len(order') = o + 1
        /\ o \in Nat
        /\ \A i \in 1..o : order'[i] = order[i]
        /\ order'[o + 1] = Top
    BY <1>0, <1>1, AppendProperties, LenProperties DEF Finish, TypeOK
  <1>3. /\ path' \in Seq(Services) /\ Len(path') = n - 1
        /\ \A i \in 1..(n - 1) : path'[i] = path[i]
    <2>1. \A i \in 1..(n - 1) : path[i] \in Services
      BY <1>0, <1>1, ElementOfSeq DEF TypeOK
    <2>2. path' = SubSeq(path, 1, n - 1)
      BY DEF Finish
    <2>3. n - 1 \in Int /\ n - 1 >= 0
      BY <1>1
    <2>4. /\ SubSeq(path, 1, n - 1) \in Seq(Services)
          /\ Len(SubSeq(path, 1, n - 1)) = IF 1 <= n - 1 THEN (n - 1) - 1 + 1 ELSE 0
          /\ \A i \in 1..((n - 1) - 1 + 1) : SubSeq(path, 1, n - 1)[i] = path[1 + i - 1]
      BY <2>1, <2>3, SubSeqProperties
    <2>5. Len(path') = n - 1
      <3> DEFINE l == Len(SubSeq(path, 1, n - 1))
      <3>1. l = IF 1 <= n - 1 THEN (n - 1) - 1 + 1 ELSE 0
        BY <2>4
      <3> HIDE DEF l, n
      <3>2. l = n - 1
        BY <3>1, <1>1
      <3> QED
        BY <3>2, <2>2 DEF l
    <2>6. \A i \in 1..(n - 1) : path'[i] = path[i]
      BY <1>1, <2>2, <2>4
    <2> QED
      BY <2>2, <2>4, <2>5, <2>6
  <1>4. /\ mark' \in [Services -> {"none", "temporary", "permanent"}]
        /\ \A t \in Services : mark'[t] = IF t = Top THEN "permanent" ELSE mark[t]
    BY <1>0, <1>1 DEF Finish, TypeOK
  <1>5. mark[Top] = "temporary"
    BY <1>1 DEF SortInv, Nested
  <1>6. \A i, k \in 1..n : path[i] = path[k] => i = k
    BY DEF SortInv, Nested
  <1>7. Permanent' = Permanent \cup {Top} /\ Top \notin Permanent
    BY <1>1, <1>4, <1>5 DEF Permanent
  <1>8. deps[Top] \subseteq Permanent
    <2> SUFFICES ASSUME NEW d \in deps[Top]
                 PROVE  d \in Permanent
      OBVIOUS
    <2>1. /\ d \in Services
          /\ \/ mark[d] = "permanent"
             \/ \E i \in 1..(n - 1) : path[i] = Top /\ path[i + 1] = d
      BY <1>1, <1>5 DEF SortInv, Passed
    <2>2. ~ \E i \in 1..(n - 1) : path[i] = Top
      BY <1>1, <1>6
    <2> QED
      BY <2>1, <2>2 DEF Permanent
  <1>9. TypeOK'
    BY <1>0, <1>1, <1>2, <1>3, <1>4 DEF TypeOK
  <1>10. Recorded'
    <2>1. \A s \in Services : mark'[s] = "permanent" <=>
                                 \E j \in 1..Len(order') : order'[j] = s
      <3> SUFFICES ASSUME NEW s \in Services
                   PROVE  mark'[s] = "permanent" <=>
                              \E j \in 1..(o + 1) : order'[j] = s
        BY <1>2
      <3>1. mark[s] = "permanent" <=> \E j \in 1..o : order[j] = s
        BY DEF SortInv, Recorded
      <3>2. CASE s = Top
        BY <3>2, <1>2, <1>4
      <3>3. CASE s # Top
        <4>1. (\E j \in 1..(o + 1) : order'[j] = s) <=> \E j \in 1..o : order[j] = s
          BY <1>2, <3>3
        <4> QED
          BY <4>1, <3>1, <3>3, <1>4
      <3> QED
        BY <3>2, <3>3
    <2>2. Cardinality(Permanent \cup {Top}) = Cardinality(Permanent) + 1
      BY <1>7, PermanentFinite, FS_AddElement
    <2>3. Len(order') = Cardinality(Permanent')
      BY <2>2, <1>2, <1>7 DEF SortInv, Recorded
    <2> QED
      BY <2>1, <2>3 DEF Recorded
  <1>11. Nested'
    <2>1. \A t \in Services : mark'[t] = "temporary" <=>
                                 \E i \in 1..Len(path') : path'[i] = t
      <3> SUFFICES ASSUME NEW t \in Services
                   PROVE  mark'[t] = "temporary" <=>
                              \E i \in 1..(n - 1) : path'[i] = t
        BY <1>3
      <3>1. mark[t] = "temporary" <=> \E i \in 1..n : path[i] = t
        BY DEF SortInv, Nested
      <3>2. CASE t = Top
        BY <3>2, <1>1, <1>3, <1>4, <1>6
      <3>3. CASE t # Top
        <4>1. (\E i \in 1..(n - 1) : path'[i] = t) <=> \E i \in 1..n : path[i] = t
          BY <1>1, <1>3, <3>3
        <4> QED
          BY <4>1, <3>1, <3>3, <1>4
      <3> QED
        BY <3>2, <3>3
    <2>2. \A i, k \in 1..Len(path') : path'[i] = path'[k] => i = k
      BY <1>1, <1>3, <1>6
    <2>3. \A i \in 1..(Len(path') - 1) : path'[i + 1] \in deps'[path'[i]]
      <3>1. \A i \in 1..(n - 1) : path[i + 1] \in deps[path[i]]
        BY DEF SortInv, Nested
      <3> QED
        BY <3>1, <1>1, <1>3
    <2>4. \A s \in Services : todo'[s] \subseteq deps'[s]
      BY <1>1 DEF SortInv, Nested
    <2> QED
      BY <2>1, <2>2, <2>3, <2>4 DEF Nested
  <1>12. Passed'
    <2> SUFFICES ASSUME NEW t \in Services, mark'[t] = "temporary",
                        NEW d \in deps[t] \ todo[t]
                 PROVE  /\ d \in Services
                        /\ \/ mark'[d] = "permanent"
                           \/ \E i \in 1..(n - 2) : path'[i] = t /\ path'[i + 1] = d
      BY <1>1, <1>3 DEF Passed
    <2>1. t # Top /\ mark[t] = "temporary"
      BY <1>4
    <2>2. /\ d \in Services
          /\ \/ mark[d] = "permanent"
             \/ \E i \in 1..(n - 1) : path[i] = t /\ path[i + 1] = d
      BY <2>1 DEF SortInv, Passed
    <2>3. CASE mark[d] = "permanent"
      BY <2>2, <2>3, <1>4
    <2>4. ASSUME NEW i \in 1..(n - 1), path[i] = t, path[i + 1] = d
          PROVE  \/ mark'[d] = "permanent"
                 \/ \E k \in 1..(n - 2) : path'[k] = t /\ path'[k + 1] = d
      <3>1. CASE i = n - 1
        BY <3>1, <2>4, <2>2, <1>1, <1>4
      <3>2. CASE i # n - 1
        <4>1. i \in 1..(n - 2) /\ i + 1 \in 1..(n - 1) /\ i \in 1..(n - 1)
          BY <3>2, <1>1
        <4> QED
          BY <4>1, <2>4, <1>3
      <3> QED
        BY <3>1, <3>2
    <2> QED
      BY <2>2, <2>3, <2>4
  <1>13. Sorted'
    <2>1. \A s \in Permanent' : deps'[s] \subseteq Permanent'
      BY <1>1, <1>7, <1>8 DEF SortInv, Sorted
    <2>2. ASSUME NEW S \in SUBSET Permanent', S # {}
          PROVE  \E s \in S : deps'[s] \cap S = {}
      <3> DEFINE R == S \ {Top}
      <3>1. CASE R = {}
        <4>1. S = {Top}
          BY <3>1, <2>2
        <4> QED
          BY <4>1, <1>1, <1>7, <1>8
      <3>2. CASE R # {}
        <4>1. R \in SUBSET Permanent
          BY <1>7
        <4>2. PICK s \in R : deps[s] \cap R = {}
          BY <4>1, <3>2 DEF SortInv, Sorted
        <4>3. deps[s] \subseteq Permanent
          BY <4>1 DEF SortInv, Sorted
        <4>4. deps[s] \cap S = {}
          BY <4>2, <4>3, <1>7
        <4> QED
          BY <4>4, <1>1
      <3> QED
        BY <3>1, <3>2
    <2> QED
      BY <2>1, <2>2 DEF Sorted
  <1>14. DependenciesFirst'
    <2> SUFFICES ASSUME NEW i \in 1..(o + 1), NEW d \in deps[order'[i]]
                 PROVE  \E j \in 1..(i - 1) : order'[j] = d
      BY <1>1, <1>2 DEF DependenciesFirst
    <2>1. CASE i \in 1..o
      <3>1. PICK j \in 1..(i - 1) : order[j] = d
        BY <2>1, <1>2 DEF SortInv, DependenciesFirst
      <3> QED
        BY <3>1, <2>1, <1>2
    <2>2. CASE i = o + 1
      <3>1. d \in Services /\ mark[d] = "permanent"
        BY <2>2, <1>2, <1>8 DEF Permanent
      <3>2. PICK j \in 1..o : order[j] = d
        BY <3>1 DEF SortInv, Recorded
      <3> QED
        BY <3>2, <2>2, <1>2
    <2> QED
      BY <2>1, <2>2, <1>2
  <1>15. VerdictRight'
    BY <1>1 DEF VerdictRight
  <1> QED
    BY <1>9, <1>10, <1>11, <1>12, <1>13, <1>14, <1>15 DEF SortInv

\* A dependency that is being visited is in the path, and from there on each
\* service of the path depends on the next one and the last one on it.
LEMMA CircularStep ==
    ASSUME SortInv, NEW e \in Services, Circular(e)
    PROVE  SortInv'
  <1> DEFINE n == Len(path)
  <1>0. TypeOK
    BY DEF SortInv
  <1>1. n \in Nat \ {0} /\ Top \in Services /\ path[n] = Top
        /\ e \in todo[Top] /\ mark[e] = "temporary" /\ result' = "circular"
        /\ UNCHANGED <<deps, mark, path, todo, order>>
    BY <1>0, TopOfPath DEF Circular, Reach, Top
  <1>2. PICK k \in 1..n : path[k] = e
    BY <1>1 DEF SortInv, Nested
  <1> DEFINE C == {path[i] : i \in k..n}
  <1>3. C \in (SUBSET Services) \ {{}}
    <2>1. \A i \in k..n : path[i] \in Services
      BY <1>0, <1>1, <1>2, ElementOfSeq DEF TypeOK
    <2>2. path[n] \in C
      BY <1>1, <1>2
    <2> QED
      BY <2>1, <2>2
  <1>4. ASSUME NEW s \in C
        PROVE  deps[s] \cap C # {}
    <2>1. PICK i \in k..n : path[i] = s
      BY <1>4
    <2>2. CASE i = n
      <3>1. e \in deps[s]
        BY <2>1, <2>2, <1>1 DEF SortInv, Nested
      <3>2. e \in C
        BY <1>1, <1>2
      <3> QED
        BY <3>1, <3>2
    <2>3. CASE i # n
      <3>1. i \in 1..(n - 1) /\ i + 1 \in k..n
        BY <2>3, <1>1, <1>2
      <3>2. path[i + 1] \in deps[s]
        BY <3>1, <2>1 DEF SortInv, Nested
      <3> QED
        BY <3>1, <3>2
    <2> QED
      BY <2>2, <2>3
  <1>5. HasCircle
    BY <1>3, <1>4 DEF HasCircle
  <1>6. HasCircle'
    BY <1>1, <1>5 DEF HasCircle
  <1>7. VerdictRight'
    BY <1>1, <1>6 DEF VerdictRight
  <1>8. TypeOK'
    BY <1>0, <1>1 DEF TypeOK
  <1>9. Recorded' /\ Nested' /\ Passed' /\ Sorted' /\ DependenciesFirst'
    <2>1. Permanent' = Permanent
      BY <1>1 DEF Permanent
    <2>2. Recorded' /\ Sorted'
      BY <1>1, <2>1 DEF SortInv, Recorded, Sorted
    <2>3. Nested' /\ Passed'
      BY <1>1 DEF SortInv, Nested, Passed
    <2>4. DependenciesFirst'
      BY <1>1 DEF SortInv, DependenciesFirst
    <2> QED
      BY <2>2, <2>3, <2>4
  <1> QED
    BY <1>7, <1>8, <1>9 DEF SortInv

\* What the verdicts "unknown" and "sorted" say follows from the invariant.
LEMMA VerdictStep ==
    ASSUME SortInv, UnknownDependency \/ Return
    PROVE  SortInv'
  <1>0. TypeOK
    BY DEF SortInv
  <1>1. UNCHANGED <<deps, mark, path, todo, order>>
    BY DEF UnknownDependency, Return
  <1>2. TypeOK'
    BY <1>0, <1>1 DEF TypeOK, UnknownDependency, Return
  <1>3. Recorded' /\ Nested' /\ Passed' /\ Sorted' /\ DependenciesFirst'
    <2>1. Permanent' = Permanent
      BY <1>1 DEF Permanent
    <2>2. Recorded' /\ Sorted'
      BY <1>1, <2>1 DEF SortInv, Recorded, Sorted
    <2>3. Nested' /\ Passed'
      BY <1>1 DEF SortInv, Nested, Passed
    <2>4. DependenciesFirst'
      BY <1>1 DEF SortInv, DependenciesFirst
    <2> QED
      BY <2>2, <2>3, <2>4
  <1>4. CASE UnknownDependency
    <2>1. path # <<>> /\ Unknown \in todo[Top] /\ result' = "unknown"
      BY <1>4 DEF UnknownDependency, Reach
    <2>2. Top \in Services
      BY <1>0, <2>1, TopOfPath
    <2>3. HasUnknown'
      BY <2>1, <2>2, <1>1 DEF SortInv, Nested, HasUnknown
    <2>4. VerdictRight'
      BY <2>1, <2>3 DEF VerdictRight
    <2> QED
      BY <2>4, <1>2, <1>3 DEF SortInv
  <1>5. CASE Return
    <2>1. path = <<>> /\ result' = "sorted" /\ \A s \in Services : mark[s] # "none"
      BY <1>5 DEF Return
    <2>2. \A s \in Services : mark[s] # "temporary"
      <3>1. Len(path) = 0
        BY <2>1, EmptySeq
      <3> QED
        BY <3>1 DEF SortInv, Nested
    <2>3. Permanent = Services
      BY <2>1, <2>2, <1>0 DEF Permanent, TypeOK
    <2>4. \A s \in Services : deps[s] \subseteq Services
      BY <2>3 DEF SortInv, Sorted
    <2>5. ~HasUnknown'
      BY <2>4, <1>1, ServicesAssumption DEF HasUnknown
    <2>6. ~HasCircle
      <3> SUFFICES ASSUME NEW S \in (SUBSET Services) \ {{}}
                   PROVE  \E s \in S : deps[s] \cap S = {}
        BY DEF HasCircle
      <3> QED
        BY <2>3 DEF SortInv, Sorted
    <2>7. ~HasCircle'
      BY <2>6, <1>1 DEF HasCircle
    <2>8. {order[i] : i \in 1..Len(order)} = Services
      <3>1. \A s \in Services : \E j \in 1..Len(order) : order[j] = s
        BY <2>3 DEF SortInv, Recorded, Permanent
      <3>2. \A j \in 1..Len(order) : order[j] \in Services
        BY <1>0, ElementOfSeq DEF TypeOK
      <3> QED
        BY <3>1, <3>2
    <2>9. Len(order) = Cardinality(Services)
      BY <2>3 DEF SortInv, Recorded
    <2>10. VerdictRight'
      BY <2>1, <2>5, <2>7, <2>8, <2>9, <1>1 DEF VerdictRight
    <2> QED
      BY <2>10, <1>2, <1>3 DEF SortInv
  <1> QED
    BY <1>4, <1>5
-----------------------------------------------------------------------------
LEMMA StepSort == SortInv /\ [Next]_vars => SortInv'
  <1> SUFFICES ASSUME SortInv, [Next]_vars
               PROVE  SortInv'
    OBVIOUS
  <1>1. ASSUME NEW s \in Services, Root(s) PROVE SortInv'
    BY <1>1, PushStep DEF Root
  <1>2. ASSUME NEW s \in Services, Descend(s) PROVE SortInv'
    BY <1>2, PushStep DEF Descend, Reach
  <1>3. ASSUME NEW s \in Services, Skip(s) PROVE SortInv'
    BY <1>3, SkipStep
  <1>4. ASSUME NEW s \in Services, Circular(s) PROVE SortInv'
    BY <1>4, CircularStep
  <1>5. CASE UnknownDependency \/ Return
    BY <1>5, VerdictStep
  <1>6. CASE Finish
    BY <1>6, FinishStep
  <1>7. CASE UNCHANGED vars
    <2>1. Permanent' = Permanent
      BY <1>7 DEF vars, Permanent
    <2>2. Recorded' /\ Sorted'
      BY <1>7, <2>1 DEF vars, SortInv, Recorded, Sorted
    <2>3. TypeOK' /\ Nested' /\ Passed' /\ DependenciesFirst'
      BY <1>7 DEF vars, SortInv, TypeOK, Nested, Passed, DependenciesFirst
    <2>4. VerdictRight'
      BY <1>7 DEF vars, SortInv, VerdictRight, HasUnknown, HasCircle
    <2> QED
      BY <2>2, <2>3, <2>4 DEF SortInv
  <1> QED
    BY <1>1, <1>2, <1>3, <1>4, <1>5, <1>6, <1>7 DEF Next

\* Whatever the enumeration order of the HashMap, topological_sort never puts
\* a service before something it depends on.
THEOREM OrderCorrect == Spec => []DependenciesFirst
  <1>1. SortInv => DependenciesFirst
    BY DEF SortInv
  <1> QED
    BY InitSort, StepSort, <1>1, PTL DEF Spec

\* It reports a circle or an unknown name exactly when there is one, and a
\* result contains every service once.
THEOREM VerdictCorrect == Spec => []VerdictRight
  <1>1. SortInv => VerdictRight
    BY DEF SortInv
  <1> QED
    BY InitSort, StepSort, <1>1, PTL DEF Spec

\* visit: the marks, the order and the rest of each dependency list stay of
\* their types, so that a name without a service is never marked or sorted.
THEOREM SortTypes == Spec => []TypeOK
  <1>1. SortInv => TypeOK
    BY DEF SortInv
  <1> QED
    BY InitSort, StepSort, <1>1, PTL DEF Spec
=============================================================================
