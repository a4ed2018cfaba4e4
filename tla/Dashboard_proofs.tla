------------------------- MODULE Dashboard_proofs ---------------------------
(***************************************************************************)
(* The dashboard, proved: any backlog, any number of connections, reloads, *)
(* operations and visitors, and any number of changes made elsewhere.      *)
(***************************************************************************)
EXTENDS Dashboard, SequenceTheorems, TLAPS

-----------------------------------------------------------------------------
(* The inductive invariant. *)

Rest(c) == c.unread \o c.unsent

\* What may be left of a request, and of one of the page.
PageRests == {Plain, <<"blank">>, <<>>}
Rests == PageRests \cup {Bad, Slow, <<"line", "length", "blank", "body">>, <<"length", "blank", "body">>,
                         <<"blank", "body">>, <<"body">>}
             \cup {Huge, <<"huge", "blank">>, <<"line", "junk">>, <<"junk">>}

Requests == Lists \cup Operations \cup {"other"}
Parts == {"half", "line", "length", "blank", "body", "word", "huge", "junk"}

Good ==
    {c \in [request : Requests, unread : Seq(Parts), unsent : Seq(Parts), shut : BOOLEAN,
            status : Status, answer : Int] :
        /\ Rest(c) \in Rests
        /\ c.request \in Lists => c.unsent = <<>> /\ c.unread \in PageRests
        /\ c.answer >= -1}

Phases == {"accept", "line", "headers", "length", "huge", "body", "call", "answer", "dead"}

Shape ==
    /\ conns \in Seq(Good) /\ Len(conns) <= MaxConns
    /\ backlog \in Seq(Nat) /\ Len(backlog) <= Listen
    /\ serving \in 0..Len(conns)
    /\ phase \in Phases /\ (serving = None <=> phase \in {"accept", "dead"})
    /\ world \in [container : {"running", "stopped", "gone"}, containers : Nat, images : Nat]
    /\ loading \subseteq 1..(Len(conns) - 1)
    /\ calls \subseteq 1..Len(conns) /\ visits \subseteq 1..Len(conns)
    /\ shown \in [Lists -> Int] /\ full \in BOOLEAN

\* The connections that wait are the open ones that are not served.
Queued(k) == \E b \in 1..Len(backlog) : backlog[b] = k

Queue ==
    /\ \A b \in 1..Len(backlog) : backlog[b] \in 1..Len(conns) /\ backlog[b] # serving
    /\ \A a, b \in 1..Len(backlog) : a < b => backlog[a] # backlog[b]
    /\ \A k \in 1..Len(conns) : conns[k].status = "open" <=> k = serving \/ Queued(k)
    /\ \A k \in 1..Len(conns) : conns[k].status = "dropped" => full

\* As long as there has been room they wait in the order in which they were
\* made, and are later than all that are answered.
Line ==
    /\ \A b \in 1..Len(backlog) : serving < backlog[b]
    /\ \A a, b \in 1..Len(backlog) : a < b => backlog[a] < backlog[b]
    /\ \A j, k \in 1..Len(conns) : conns[j].status = "answered" /\ conns[k].status = "open" => j < k

\* What is left of the request when the server has come to a phase.
Remains(ph) ==
    CASE ph = "headers" -> {<<"blank">>, <<"length", "blank", "body">>, <<"huge", "blank">>, <<"junk">>}
      [] ph = "length" -> {<<"blank", "body">>}
      [] ph = "huge" -> {<<"blank">>}
      [] ph = "body" -> {<<"body">>}
      [] ph = "call" -> {<<>>}
      [] OTHER -> Rests

Heard == serving # None => conns[serving].shut \/ Rest(conns[serving]) \in Remains(phase)

\* No list is newer than the world.
Answers ==
    /\ \A k \in 1..Len(conns) :
          /\ conns[k].answer # -1 => conns[k].status = "answered" \/ k = serving
          /\ conns[k].request = "containers" => conns[k].answer <= world.containers
          /\ conns[k].request = "images" => conns[k].answer <= world.images
    /\ shown["containers"] <= world.containers /\ shown["images"] <= world.images

Pages ==
    /\ \A l \in loading :
          /\ conns[l].request = "containers" /\ conns[l + 1].request = "images"
          /\ conns[l].status # "over" /\ conns[l + 1].status # "over"
    /\ \A k \in visits : conns[k].request \notin Lists

\* Later reloads have got newer lists, and all of them newer ones than the page shows.
Newer(u, v) == u # -1 /\ v # -1 => u <= v

Order ==
    /\ \A l, m \in loading : l < m => /\ Newer(conns[l].answer, conns[m].answer)
                                      /\ Newer(conns[l + 1].answer, conns[m + 1].answer)
    /\ \A l \in loading : /\ Newer(shown["containers"], conns[l].answer)
                          /\ Newer(shown["images"], conns[l + 1].answer)

DashInv == Shape /\ Queue /\ Heard /\ Answers /\ Pages /\ (~full => Line /\ Order)

-----------------------------------------------------------------------------
\* What is left of a request is Seq(Parts), whether it has arrived or not.
LEMMA RestTail ==
    ASSUME NEW u \in Seq(Parts), NEW v \in Seq(Parts), u # <<>>
    PROVE  /\ u \o v # <<>> /\ Head(u \o v) = Head(u) /\ Tail(u \o v) = Tail(u) \o v
           /\ Tail(u) \in Seq(Parts)
<1>1. Len(u) \in Nat /\ Len(u) > 0 /\ Len(v) \in Nat
    BY LenProperties, EmptySeq
<1>2. /\ u \o v \in Seq(Parts) /\ Len(u \o v) = Len(u) + Len(v)
      /\ \A i \in 1..(Len(u) + Len(v)) : (u \o v)[i] = IF i <= Len(u) THEN u[i] ELSE v[i - Len(u)]
    BY ConcatProperties
<1>3. u \o v # <<>>
    BY <1>1, <1>2, EmptySeq
<1>4. /\ Tail(u) \in Seq(Parts) /\ Len(Tail(u)) = Len(u) - 1
      /\ \A i \in 1..Len(Tail(u)) : Tail(u)[i] = u[i + 1]
    BY HeadTailProperties
<1>5. /\ Tail(u \o v) \in Seq(Parts) /\ Len(Tail(u \o v)) = Len(u) + Len(v) - 1
      /\ \A i \in 1..Len(Tail(u \o v)) : Tail(u \o v)[i] = (u \o v)[i + 1]
    BY <1>2, <1>3, HeadTailProperties
<1>6. /\ Tail(u) \o v \in Seq(Parts) /\ Len(Tail(u) \o v) = Len(u) - 1 + Len(v)
      /\ \A i \in 1..(Len(u) - 1 + Len(v)) :
            (Tail(u) \o v)[i] = IF i <= Len(u) - 1 THEN Tail(u)[i] ELSE v[i - (Len(u) - 1)]
    BY <1>4, ConcatProperties
<1>7. ASSUME NEW i \in 1..(Len(u) + Len(v) - 1)
      PROVE  Tail(u \o v)[i] = (Tail(u) \o v)[i]
    <2>1. CASE i <= Len(u) - 1
        BY <2>1, <1>1, <1>2, <1>4, <1>5, <1>6
    <2>2. CASE i > Len(u) - 1
        <3>1. Tail(u \o v)[i] = (u \o v)[i + 1] /\ i + 1 \in 1..(Len(u) + Len(v)) /\ ~(i + 1 <= Len(u))
            BY <2>2, <1>1, <1>5
        <3>2. (u \o v)[i + 1] = v[i + 1 - Len(u)]
            BY <3>1, <1>2
        <3>3. (Tail(u) \o v)[i] = v[i - (Len(u) - 1)]
            BY <2>2, <1>1, <1>6
        <3>4. i + 1 - Len(u) = i - (Len(u) - 1)
            BY <1>1
        <3> QED
            BY <3>1, <3>2, <3>3, <3>4
    <2> QED
        BY <2>1, <2>2, <1>1
<1>8. Len(Tail(u \o v)) = Len(Tail(u) \o v) /\ Len(Tail(u \o v)) = Len(u) + Len(v) - 1
    BY <1>1, <1>5, <1>6
<1>9. Tail(u \o v) = Tail(u) \o v
    BY <1>5, <1>6, <1>7, <1>8, SeqEqual
<1>10. Head(u \o v) = Head(u)
    <2>1. (u \o v)[1] = u[1]
        BY <1>1, <1>2
    <2> QED
        BY <2>1, <1>1, <1>2, <1>3
<1> QED
    BY <1>3, <1>4, <1>9, <1>10

LEMMA RestSend ==
    ASSUME NEW u \in Seq(Parts), NEW v \in Seq(Parts), v # <<>>
    PROVE  /\ Append(u, Head(v)) \o Tail(v) = u \o v
           /\ Append(u, Head(v)) \in Seq(Parts) /\ Tail(v) \in Seq(Parts)
<1>1. Len(u) \in Nat /\ Len(v) > 0 /\ Len(v) \in Nat /\ Head(v) = v[1]
    BY LenProperties, EmptySeq
<1>2. /\ u \o v \in Seq(Parts) /\ Len(u \o v) = Len(u) + Len(v)
      /\ \A i \in 1..(Len(u) + Len(v)) : (u \o v)[i] = IF i <= Len(u) THEN u[i] ELSE v[i - Len(u)]
    BY ConcatProperties
<1>3. /\ Head(v) \in Parts /\ Tail(v) \in Seq(Parts) /\ Len(Tail(v)) = Len(v) - 1
      /\ \A i \in 1..Len(Tail(v)) : Tail(v)[i] = v[i + 1]
    BY HeadTailProperties
<1> DEFINE a == Append(u, Head(v))
<1>4. /\ a \in Seq(Parts) /\ Len(a) = Len(u) + 1 /\ \A i \in 1..Len(u) : a[i] = u[i]
      /\ a[Len(u) + 1] = v[1]
    BY <1>1, <1>3, AppendProperties
<1> HIDE DEF a
<1>5. /\ a \o Tail(v) \in Seq(Parts) /\ Len(a \o Tail(v)) = Len(u) + 1 + Len(v) - 1
      /\ \A i \in 1..(Len(u) + 1 + Len(v) - 1) :
            (a \o Tail(v))[i] = IF i <= Len(u) + 1 THEN a[i] ELSE Tail(v)[i - (Len(u) + 1)]
    <2>1. /\ a \o Tail(v) \in Seq(Parts) /\ Len(a \o Tail(v)) = Len(a) + Len(Tail(v))
          /\ \A i \in 1..(Len(a) + Len(Tail(v))) :
                (a \o Tail(v))[i] = IF i <= Len(a) THEN a[i] ELSE Tail(v)[i - Len(a)]
        BY <1>3, <1>4, ConcatProperties
    <2>2. Len(a) = Len(u) + 1 /\ Len(a) + Len(Tail(v)) = Len(u) + 1 + Len(v) - 1
        BY <1>1, <1>3, <1>4
    <2> QED
        BY <2>1, <2>2
<1>6. ASSUME NEW i \in 1..(Len(u) + Len(v)) PROVE (a \o Tail(v))[i] = (u \o v)[i]
    <2>0. i \in 1..(Len(u) + 1 + Len(v) - 1)
        BY <1>1
    <2>1. CASE i <= Len(u)
        BY <2>0, <2>1, <1>1, <1>2, <1>4, <1>5
    <2>2. CASE i = Len(u) + 1
        BY <2>0, <2>2, <1>1, <1>2, <1>4, <1>5
    <2>3. CASE i > Len(u) + 1
        <3>1. (a \o Tail(v))[i] = Tail(v)[i - (Len(u) + 1)] /\ (u \o v)[i] = v[i - Len(u)]
            BY <2>0, <2>3, <1>1, <1>2, <1>5
        <3>2. i - (Len(u) + 1) \in 1..Len(Tail(v)) /\ i - (Len(u) + 1) + 1 = i - Len(u)
            BY <2>3, <1>1, <1>3
        <3> QED
            BY <3>1, <3>2, <1>3
    <2>4. i <= Len(u) \/ i = Len(u) + 1 \/ i > Len(u) + 1
        BY <1>1
    <2> QED
        BY <2>1, <2>2, <2>3, <2>4
<1>7. Len(a \o Tail(v)) = Len(u) + Len(v)
    BY <1>1, <1>5
<1>8. a \o Tail(v) = u \o v
    BY <1>2, <1>5, <1>6, <1>7, SeqEqual
<1> QED
    BY <1>3, <1>4, <1>8 DEF a

LEMMA RestsTail ==
    /\ \A s \in Rests : s # <<>> => Tail(s) \in Rests
    /\ \A s \in PageRests : s # <<>> => Tail(s) \in PageRests /\ Head(s) # "half"
    /\ \A s \in Rests : s # <<>> /\ Head(s) = "line" => Tail(s) \in Remains("headers")
    /\ \A s \in Remains("headers") : s # <<>> /\ Head(s) = "length" => Tail(s) \in Remains("length")
    /\ \A s \in Remains("headers") : s # <<>> /\ Head(s) = "huge" => Tail(s) \in Remains("huge")
    /\ \A s \in Remains("headers") : s # <<>> /\ Head(s) = "blank" => Tail(s) \in Remains("call")
    /\ \A s \in Remains("length") : Tail(s) \in Remains("body")
    /\ \A s \in Remains("body") : Tail(s) \in Remains("call")
<1>1. /\ Tail(<<"blank">>) = <<>> /\ Tail(<<"body">>) = <<>> /\ Tail(<<"word">>) = <<>>
      /\ Tail(<<"line", "blank">>) = <<"blank">> /\ Tail(<<"blank", "body">>) = <<"body">>
      /\ Tail(<<"length", "blank", "body">>) = <<"blank", "body">>
      /\ Tail(<<"line", "length", "blank", "body">>) = <<"length", "blank", "body">>
      /\ Tail(<<"half", "line", "length", "blank", "body">>) = <<"line", "length", "blank", "body">>
      /\ Tail(<<"line", "huge", "blank">>) = <<"huge", "blank">> /\ Tail(<<"huge", "blank">>) = <<"blank">>
      /\ Tail(<<"line", "junk">>) = <<"junk">> /\ Tail(<<"junk">>) = <<>>
    OBVIOUS
<1>2. /\ Head(<<"blank">>) = "blank" /\ Head(<<"body">>) = "body" /\ Head(<<"word">>) = "word"
      /\ Head(<<"line", "blank">>) = "line" /\ Head(<<"blank", "body">>) = "blank"
      /\ Head(<<"length", "blank", "body">>) = "length"
      /\ Head(<<"line", "length", "blank", "body">>) = "line"
      /\ Head(<<"half", "line", "length", "blank", "body">>) = "half"
      /\ Head(<<"line", "huge", "blank">>) = "line" /\ Head(<<"huge", "blank">>) = "huge"
      /\ Head(<<"line", "junk">>) = "line" /\ Head(<<"junk">>) = "junk"
    OBVIOUS
<1>3. /\ Remains("headers") = {<<"blank">>, <<"length", "blank", "body">>, <<"huge", "blank">>, <<"junk">>}
      /\ Remains("huge") = {<<"blank">>}
      /\ Remains("length") = {<<"blank", "body">>} /\ Remains("body") = {<<"body">>}
      /\ Remains("call") = {<<>>}
    BY DEF Remains
<1>4. \A s \in Rests : s # <<>> => Tail(s) \in Rests
    BY <1>1, Zenon DEF Rests, PageRests, Plain, Bad, Slow, Huge
<1>5. \A s \in PageRests : s # <<>> => Tail(s) \in PageRests
    BY <1>1, Zenon DEF PageRests, Plain
<1>6. \A s \in PageRests : s # <<>> => Head(s) # "half"
    BY <1>2 DEF PageRests, Plain
<1>7. \A s \in Rests : s # <<>> /\ Head(s) = "line" => Tail(s) \in Remains("headers")
    <2>1. \A s \in Rests : s # <<>> /\ Head(s) = "line"
                           => s \in {Plain, <<"line", "length", "blank", "body">>, Huge, <<"line", "junk">>}
        BY <1>2 DEF Rests, PageRests, Plain, Bad, Slow, Huge
    <2> QED
        BY <2>1, <1>1, <1>3, Zenon DEF Plain, Huge
<1>8. \A s \in Remains("headers") : Head(s) = "length" => Tail(s) \in Remains("length")
    BY <1>1, <1>2, <1>3
<1>9. \A s \in Remains("headers") : Head(s) = "blank" => Tail(s) \in Remains("call")
    BY <1>1, <1>2, <1>3
<1>10. \A s \in Remains("length") : Tail(s) \in Remains("body")
    BY <1>1, <1>3, Zenon
<1>11. \A s \in Remains("body") : Tail(s) \in Remains("call")
    BY <1>1, <1>3, Zenon
<1>12. \A s \in Remains("headers") : Head(s) = "huge" => Tail(s) \in Remains("huge")
    BY <1>1, <1>2, <1>3
<1> QED
    BY <1>4, <1>5, <1>6, <1>7, <1>8, <1>9, <1>10, <1>11, <1>12, Zenon

-----------------------------------------------------------------------------
\* A connection, and the list of the connections with one of them changed.
LEMMA GoodConn ==
    ASSUME Shape, NEW k \in 1..Len(conns)
    PROVE  /\ conns[k] \in Good /\ conns[k].request \in Requests /\ conns[k].unread \in Seq(Parts)
           /\ conns[k].unsent \in Seq(Parts) /\ conns[k].shut \in BOOLEAN /\ conns[k].status \in Status
           /\ conns[k].answer \in Int /\ conns[k].answer >= -1 /\ Rest(conns[k]) \in Rests
           /\ conns[k].request \in Lists => conns[k].unsent = <<>> /\ conns[k].unread \in PageRests
<1>1. conns[k] \in Good
    BY ElementOfSeq DEF Shape
<1> QED
    BY <1>1 DEF Good

LEMMA ConnsLen == Shape => Len(conns) \in Nat /\ Len(backlog) \in Nat
BY LenProperties DEF Shape

LEMMA LoadingIn == Shape => \A l \in loading : l \in 1..Len(conns) /\ l + 1 \in 1..Len(conns)
<1> SUFFICES ASSUME Shape, NEW l \in loading PROVE l \in 1..Len(conns) /\ l + 1 \in 1..Len(conns)
    OBVIOUS
<1>1. l \in 1..(Len(conns) - 1) /\ Len(conns) \in Nat
    BY ConnsLen DEF Shape
<1> QED
    BY <1>1

LEMMA OneChanged ==
    ASSUME Shape, NEW k \in 1..Len(conns), NEW r \in Good, conns' = [conns EXCEPT ![k] = r]
    PROVE  /\ conns' \in Seq(Good) /\ Len(conns') = Len(conns)
           /\ \A j \in 1..Len(conns) : conns'[j] = IF j = k THEN r ELSE conns[j]
BY ExceptSeq DEF Shape

\* A step in which the connections change in nothing but what has arrived.
Same(c, d) ==
    /\ d.status = c.status /\ d.answer = c.answer
    /\ d.request = c.request \/ (c.request \notin Lists /\ d.request \notin Lists)

LEMMA Listening ==
    ASSUME DashInv, conns' \in Seq(Good), Len(conns') = Len(conns),
           \A j \in 1..Len(conns) : Same(conns[j], conns'[j]),
           UNCHANGED <<backlog, serving, world, Page>>,
           phase' \in Phases, phase' \in {"accept", "dead"} <=> phase \in {"accept", "dead"}, Heard'
    PROVE  DashInv'
<1>1. /\ backlog' = backlog /\ serving' = serving /\ world' = world /\ loading' = loading
      /\ calls' = calls /\ visits' = visits /\ shown' = shown /\ full' = full
    BY DEF Page
<1>2. Shape /\ Queue /\ Answers /\ Pages /\ (~full => Line /\ Order)
    BY DEF DashInv
<1>3. Shape'
    BY <1>1, <1>2 DEF Shape
<1>4. Queue'
    <2>1. \A k : Queued(k)' = Queued(k)
        BY <1>1 DEF Queued
    <2> QED
        BY SMTT(30), <1>1, <1>2, <2>1 DEF Queue, Same
<1>5. Answers'
    <2>1. ASSUME NEW k \in 1..Len(conns')
          PROVE  /\ conns'[k].answer # -1 => conns'[k].status = "answered" \/ k = serving'
                 /\ conns'[k].request = "containers" => conns'[k].answer <= world'.containers
                 /\ conns'[k].request = "images" => conns'[k].answer <= world'.images
        BY <2>1, <1>1, <1>2 DEF Answers, Same, Lists
    <2> QED
        BY <1>1, <1>2, <2>1 DEF Answers
<1>6. \A l \in loading : l \in 1..Len(conns) /\ l + 1 \in 1..Len(conns)
    BY <1>2, ConnsLen DEF Shape
<1>7. Pages'
    <2>1. ASSUME NEW l \in loading'
          PROVE  /\ conns'[l].request = "containers" /\ conns'[l + 1].request = "images"
                 /\ conns'[l].status # "over" /\ conns'[l + 1].status # "over"
        BY <1>1, <1>2, <1>6 DEF Pages, Same, Lists
    <2>2. ASSUME NEW k \in visits' PROVE conns'[k].request \notin Lists
        BY <1>1, <1>2 DEF Pages, Same, Shape
    <2> QED
        BY <2>1, <2>2 DEF Pages
<1>8. ~full' => Line' /\ Order'
    <2>1. \A l \in loading : conns'[l].answer = conns[l].answer /\ conns'[l + 1].answer = conns[l + 1].answer
        BY <1>6 DEF Same
    <2> QED
        BY <1>1, <1>2, <2>1 DEF Order, Line, Same
<1> QED
    BY <1>3, <1>4, <1>5, <1>7, <1>8 DEF DashInv

\* The server has taken the next part of the request.
LEMMA Consumed ==
    ASSUME Shape, serving # None, Ahead # <<>>, Consume
    PROVE  /\ conns' \in Seq(Good) /\ Len(conns') = Len(conns)
           /\ \A j \in 1..Len(conns) : Same(conns[j], conns'[j])
           /\ conns'[serving].shut = conns[serving].shut
           /\ Rest(conns[serving]) # <<>> /\ Head(Rest(conns[serving])) = Head(Ahead)
           /\ Rest(conns'[serving]) = Tail(Rest(conns[serving]))
<1> DEFINE c == conns[serving]
           r == [c EXCEPT !.unread = Tail(c.unread)]
<1>1. serving \in 1..Len(conns)
    BY ConnsLen DEF Shape, None
<1>2. /\ c.unread \in Seq(Parts) /\ c.unsent \in Seq(Parts) /\ c.unread # <<>> /\ Rest(c) \in Rests
      /\ c.request \in Lists => c.unsent = <<>> /\ c.unread \in PageRests
      /\ c \in Good
    BY <1>1, GoodConn DEF Ahead
<1>3. /\ Rest(c) # <<>> /\ Head(Rest(c)) = Head(c.unread) /\ Tail(Rest(c)) = Tail(c.unread) \o c.unsent
      /\ Tail(c.unread) \in Seq(Parts)
    BY <1>2, RestTail DEF Rest
<1>4. /\ r.unread = Tail(c.unread) /\ r.unsent = c.unsent /\ r.request = c.request /\ r.shut = c.shut
      /\ r.status = c.status /\ r.answer = c.answer
      /\ r \in [request : Requests, unread : Seq(Parts), unsent : Seq(Parts), shut : BOOLEAN,
                status : Status, answer : Int]
    BY <1>2, <1>3 DEF Good
<1> HIDE DEF r
<1>5. Rest(r) = Tail(Rest(c)) /\ Rest(r) \in Rests
    BY <1>2, <1>3, <1>4, RestsTail DEF Rest
<1>6. r.request \in Lists => r.unsent = <<>> /\ r.unread \in PageRests
    BY <1>2, <1>4, RestsTail
<1>7. r \in Good
    BY <1>2, <1>4, <1>5, <1>6 DEF Good
<1>8. conns' = [conns EXCEPT ![serving] = r]
    BY DEF Consume, r
<1>9. /\ conns' \in Seq(Good) /\ Len(conns') = Len(conns)
      /\ \A j \in 1..Len(conns) : conns'[j] = IF j = serving THEN r ELSE conns[j]
    BY <1>1, <1>7, <1>8, OneChanged
<1>10. \A j \in 1..Len(conns) : Same(conns[j], conns'[j])
    BY <1>4, <1>9 DEF Same
<1> QED
    BY <1>1, <1>3, <1>4, <1>5, <1>9, <1>10 DEF Ahead

LEMMA Serving == Shape /\ phase \notin {"accept", "dead"} => serving \in 1..Len(conns) /\ serving # None
BY ConnsLen DEF Shape, None

LEMMA Unchanged ==
    ASSUME DashInv, UNCHANGED <<conns, backlog, serving, world, Page>>,
           phase' \in Phases, phase' \in {"accept", "dead"} <=> phase \in {"accept", "dead"},
           serving # None => conns[serving].shut \/ Rest(conns[serving]) \in Remains(phase')
    PROVE  DashInv'
<1>1. conns' = conns /\ serving' = serving
    OBVIOUS
<1>2. Heard'
    BY <1>1 DEF Heard
<1>3. \A j \in 1..Len(conns) : Same(conns[j], conns'[j])
    BY <1>1 DEF Same
<1>4. conns' \in Seq(Good) /\ Len(conns') = Len(conns)
    BY <1>1 DEF DashInv, Shape
<1> QED
    BY <1>2, <1>3, <1>4, Listening

LEMMA Consuming ==
    ASSUME DashInv, Consume, Ahead # <<>>, phase \notin {"accept", "dead"},
           UNCHANGED <<backlog, serving, world, Page>>,
           phase' \in Phases, phase' \notin {"accept", "dead"},
           conns[serving].shut \/ Tail(Rest(conns[serving])) \in Remains(phase')
    PROVE  DashInv'
<1>1. Shape /\ serving # None
    BY Serving DEF DashInv
<1>2. /\ conns' \in Seq(Good) /\ Len(conns') = Len(conns)
      /\ \A j \in 1..Len(conns) : Same(conns[j], conns'[j])
      /\ conns'[serving].shut = conns[serving].shut
      /\ Rest(conns'[serving]) = Tail(Rest(conns[serving]))
    BY <1>1, Consumed
<1>3. Heard'
    BY <1>2 DEF Heard
<1> QED
    BY <1>2, <1>3, Listening

LEMMA AllRests == Remains("line") = Rests /\ Remains("answer") = Rests /\ Remains("accept") = Rests
BY DEF Remains

LEMMA ReadLineStep == ASSUME DashInv, ReadLine PROVE DashInv'
<1> DEFINE c == conns[serving]
<1>1. /\ Shape /\ phase = "line" /\ UNCHANGED <<backlog, serving, world, Page>>
      /\ serving \in 1..Len(conns) /\ serving # None
    BY Serving DEF ReadLine, DashInv
<1>2. /\ c.unread \in Seq(Parts) /\ c.unsent \in Seq(Parts) /\ Rest(c) \in Rests /\ c \in Good
      /\ c.request \in Lists => c.unsent = <<>> /\ c.unread \in PageRests
    BY <1>1, GoodConn
<1>3. CASE Ahead # <<>> /\ Head(Ahead) = "half" /\ Consume /\ UNCHANGED phase
    <2>1. Tail(Rest(c)) \in Remains(phase')
        BY <1>1, <1>2, <1>3, Consumed, RestsTail, AllRests
    <2> QED
        BY <1>1, <1>3, <2>1, Consuming DEF Phases
<1>4. CASE Ahead # <<>> /\ Head(Ahead) = "line" /\ Consume /\ phase' = "headers"
    <2>1. Tail(Rest(c)) \in Remains(phase')
        BY <1>1, <1>2, <1>4, Consumed, RestsTail
    <2> QED
        BY <1>1, <1>4, <2>1, Consuming DEF Phases
<1>5. CASE /\ Ahead = <<"half">> /\ c.shut /\ phase' = "headers"
           /\ \E o \in {c.request, "other"} :
                 conns' = [conns EXCEPT ![serving].unread = <<>>, ![serving].request = o]
    <2>1. PICK o \in {c.request, "other"} :
             conns' = [conns EXCEPT ![serving].unread = <<>>, ![serving].request = o]
        BY <1>5
    <2> DEFINE r == [c EXCEPT !.unread = <<>>, !.request = o]
    <2>2. c.unread = <<"half">> /\ c.unread # <<>>
        BY <1>5 DEF Ahead
    <2>3. c.request \notin Lists
        BY <1>2, <2>2 DEF PageRests, Plain
    <2>4. o \in Requests /\ o \notin Lists
        BY <1>1, <2>3, GoodConn DEF Requests, Lists
    <2>5. /\ r.unread = <<>> /\ r.unsent = c.unsent /\ r.request = o /\ r.shut = c.shut
          /\ r.status = c.status /\ r.answer = c.answer
          /\ r \in [request : Requests, unread : Seq(Parts), unsent : Seq(Parts), shut : BOOLEAN,
                    status : Status, answer : Int]
        <3>1. <<>> \in Seq(Parts)
            OBVIOUS
        <3> QED
            BY <3>1, <1>2, <2>4 DEF Good
    <2>6. Rest(r) \in Rests
        <3>1. Tail(c.unread) = <<>>
            BY <2>2
        <3>2. Rest(r) = Tail(Rest(c)) /\ Rest(c) # <<>>
            BY SMTT(30), <3>1, <1>2, <2>2, <2>5, RestTail DEF Rest
        <3> QED
            BY <3>2, <1>2, RestsTail
    <2> HIDE DEF r
    <2>7. r \in Good
        BY <1>2, <2>4, <2>5, <2>6 DEF Good
    <2>8. conns' = [conns EXCEPT ![serving] = r]
        BY <2>1 DEF r
    <2>9. /\ conns' \in Seq(Good) /\ Len(conns') = Len(conns)
          /\ \A j \in 1..Len(conns) : conns'[j] = IF j = serving THEN r ELSE conns[j]
        BY <1>1, <2>7, <2>8, OneChanged
    <2>10. \A j \in 1..Len(conns) : Same(conns[j], conns'[j])
        BY <2>3, <2>4, <2>5, <2>9 DEF Same
    <2>11. Heard'
        BY <1>1, <1>5, <2>5, <2>9 DEF Heard
    <2>12. phase' \in Phases /\ (phase' \in {"accept", "dead"} <=> phase \in {"accept", "dead"})
        BY <1>1, <1>5 DEF Phases
    <2> QED
        BY <1>1, <2>9, <2>10, <2>11, <2>12, Listening
<1>6. CASE phase' = "answer" /\ UNCHANGED conns
    BY <1>1, <1>2, <1>6, AllRests, Unchanged DEF Phases
<1> QED
    BY <1>3, <1>4, <1>5, <1>6 DEF ReadLine, Consume

LEMMA HeardIn ==
    ASSUME DashInv, phase \notin {"accept", "dead"}
    PROVE  /\ conns[serving].shut \/ Rest(conns[serving]) \in Remains(phase)
           /\ Shape /\ serving # None /\ serving \in 1..Len(conns)
BY Serving DEF DashInv, Heard

LEMMA ReadHeaderStep == ASSUME DashInv, ReadHeader PROVE DashInv'
<1>1. phase = "headers" /\ UNCHANGED <<backlog, serving, world, Page>>
    BY DEF ReadHeader
<1>2. /\ conns[serving].shut \/ Rest(conns[serving]) \in Remains("headers")
      /\ Shape /\ serving # None
    BY <1>1, HeardIn
<1>3. CASE EndOfFile /\ phase' = "call" /\ UNCHANGED conns
    BY <1>1, <1>3, Unchanged DEF EndOfFile, Phases
<1>4. CASE Ahead # <<>> /\ Consume /\ Head(Ahead) = "length" /\ phase' = "length"
    <2>1. conns[serving].shut \/ Tail(Rest(conns[serving])) \in Remains(phase')
        BY <1>2, <1>4, Consumed, RestsTail
    <2> QED
        BY <1>1, <1>4, <2>1, Consuming DEF Phases
<1>5. CASE Ahead # <<>> /\ Consume /\ Head(Ahead) = "blank" /\ phase' = "call"
    <2>1. conns[serving].shut \/ Tail(Rest(conns[serving])) \in Remains(phase')
        BY <1>2, <1>5, Consumed, RestsTail
    <2> QED
        BY <1>1, <1>5, <2>1, Consuming DEF Phases
<1>6. CASE Ahead # <<>> /\ Consume /\ Head(Ahead) = "huge" /\ phase' = "huge"
    <2>1. conns[serving].shut \/ Tail(Rest(conns[serving])) \in Remains(phase')
        BY <1>2, <1>6, Consumed, RestsTail
    <2> QED
        BY <1>1, <1>6, <2>1, Consuming DEF Phases
<1>7. Ahead # <<>> /\ Head(Ahead) \in {"length", "huge"} => Head(Ahead) = "length" \/ Head(Ahead) = "huge"
    OBVIOUS
<1> QED
    BY <1>3, <1>4, <1>5, <1>6, <1>7 DEF ReadHeader

LEMMA ReadHeaderOfBodyStep == ASSUME DashInv, ReadHeaderOfBody PROVE DashInv'
<1>1. phase = "length" /\ phase' = "body" /\ UNCHANGED <<backlog, serving, world, Page>>
    BY DEF ReadHeaderOfBody
<1>2. /\ conns[serving].shut \/ Rest(conns[serving]) \in Remains("length")
      /\ Shape /\ serving # None
    BY <1>1, HeardIn
<1>3. CASE EndOfFile /\ UNCHANGED conns
    BY <1>1, <1>3, Unchanged DEF EndOfFile, Phases
<1>4. CASE Ahead # <<>> /\ Consume
    <2>1. conns[serving].shut \/ Tail(Rest(conns[serving])) \in Remains(phase')
        BY <1>1, <1>2, RestsTail
    <2> QED
        BY <1>1, <1>4, <2>1, Consuming DEF Phases
<1> QED
    BY <1>3, <1>4 DEF ReadHeaderOfBody

LEMMA ReadBodyStep == ASSUME DashInv, ReadBody PROVE DashInv'
<1>1. /\ phase = "body" /\ phase' = "call" /\ UNCHANGED <<backlog, serving, world, Page>>
      /\ Ahead # <<>> /\ Consume
    BY DEF ReadBody
<1>2. conns[serving].shut \/ Rest(conns[serving]) \in Remains("body")
    BY <1>1, HeardIn
<1>3. conns[serving].shut \/ Tail(Rest(conns[serving])) \in Remains(phase')
    BY <1>1, <1>2, RestsTail
<1> QED
    BY <1>1, <1>3, Consuming DEF Phases

LEMMA SendStep == ASSUME DashInv, NEW k \in 1..Len(conns), Send(k) PROVE DashInv'
<1> DEFINE c == conns[k]
           r == [c EXCEPT !.unread = Append(c.unread, Head(c.unsent)), !.unsent = Tail(c.unsent)]
<1>1. /\ Shape /\ c.unsent # <<>> /\ UNCHANGED <<backlog, Server, Page>>
      /\ phase' = phase /\ serving' = serving /\ world' = world
    BY DEF Send, DashInv, Server
<1>2. /\ c.unread \in Seq(Parts) /\ c.unsent \in Seq(Parts) /\ Rest(c) \in Rests /\ c \in Good
      /\ c.request \notin Lists
    BY <1>1, GoodConn
<1>3. /\ Append(c.unread, Head(c.unsent)) \o Tail(c.unsent) = Rest(c)
      /\ Append(c.unread, Head(c.unsent)) \in Seq(Parts) /\ Tail(c.unsent) \in Seq(Parts)
    BY <1>1, <1>2, RestSend DEF Rest
<1>4. /\ r.unread = Append(c.unread, Head(c.unsent)) /\ r.unsent = Tail(c.unsent)
      /\ r.request = c.request /\ r.shut = c.shut /\ r.status = c.status /\ r.answer = c.answer
      /\ r \in [request : Requests, unread : Seq(Parts), unsent : Seq(Parts), shut : BOOLEAN,
                status : Status, answer : Int]
    BY <1>2, <1>3 DEF Good
<1>5. conns' = [conns EXCEPT ![k] = r]
    BY DEF Send
<1> HIDE DEF r
<1>6. Rest(r) = Rest(c)
    BY <1>3, <1>4 DEF Rest
<1>7. r \in Good
    BY <1>2, <1>4, <1>6 DEF Good
<1>8. /\ conns' \in Seq(Good) /\ Len(conns') = Len(conns)
      /\ \A j \in 1..Len(conns) : conns'[j] = IF j = k THEN r ELSE conns[j]
    BY <1>1, <1>5, <1>7, OneChanged
<1>9. \A j \in 1..Len(conns) : Same(conns[j], conns'[j])
    BY <1>4, <1>8 DEF Same
<1>10. \A j \in 1..Len(conns) : conns'[j].shut = conns[j].shut /\ Rest(conns'[j]) = Rest(conns[j])
    BY <1>4, <1>6, <1>8
<1>11. Heard'
    <2>1. serving # None => serving \in 1..Len(conns)
        BY <1>1, ConnsLen DEF Shape, None
    <2> QED
        BY <1>1, <1>10, <2>1 DEF Heard, DashInv
<1> QED
    BY <1>1, <1>8, <1>9, <1>11, Listening DEF Page, Shape, DashInv

LEMMA ShutStep == ASSUME DashInv, NEW k \in 1..Len(conns), Shut(k) PROVE DashInv'
<1> DEFINE c == conns[k]
           r == [c EXCEPT !.shut = TRUE]
<1>1. /\ Shape /\ UNCHANGED <<backlog, Server, Page>>
      /\ phase' = phase /\ serving' = serving /\ world' = world
    BY DEF Shut, DashInv, Server
<1>2. c \in Good
    BY <1>1, GoodConn
<1>3. /\ r.unread = c.unread /\ r.unsent = c.unsent /\ r.request = c.request /\ r.shut = TRUE
      /\ r.status = c.status /\ r.answer = c.answer
      /\ r \in [request : Requests, unread : Seq(Parts), unsent : Seq(Parts), shut : BOOLEAN,
                status : Status, answer : Int]
    BY <1>2 DEF Good
<1>4. conns' = [conns EXCEPT ![k] = r]
    BY DEF Shut
<1> HIDE DEF r
<1>5. r \in Good /\ Rest(r) = Rest(c)
    BY <1>2, <1>3 DEF Good, Rest
<1>6. /\ conns' \in Seq(Good) /\ Len(conns') = Len(conns)
      /\ \A j \in 1..Len(conns) : conns'[j] = IF j = k THEN r ELSE conns[j]
    BY <1>1, <1>4, <1>5, OneChanged
<1>7. \A j \in 1..Len(conns) : Same(conns[j], conns'[j])
    BY <1>3, <1>6 DEF Same
<1>8. \A j \in 1..Len(conns) : (conns[j].shut => conns'[j].shut) /\ Rest(conns'[j]) = Rest(conns[j])
    BY <1>3, <1>5, <1>6
<1>9. Heard'
    <2>1. serving # None => serving \in 1..Len(conns)
        BY <1>1, ConnsLen DEF Shape, None
    <2> QED
        BY <1>1, <1>8, <2>1 DEF Heard, DashInv
<1> QED
    BY <1>1, <1>6, <1>7, <1>9, Listening DEF Page, Shape, DashInv

-----------------------------------------------------------------------------
\* The server has done what the request asks: v is the list it was asked for,
\* as it is now, or 0.
LEMMA Performed ==
    ASSUME DashInv, phase = "call", phase' = "answer", UNCHANGED <<backlog, serving, Page>>,
           world' \in [container : {"running", "stopped", "gone"}, containers : Nat, images : Nat],
           world'.containers >= world.containers, world'.images >= world.images,
           NEW v \in Nat, conns' = [conns EXCEPT ![serving].answer = v],
           conns[serving].request = "containers" => v = world'.containers,
           conns[serving].request = "images" => v = world'.images
    PROVE  DashInv'
<1> DEFINE c == conns[serving]
           r == [c EXCEPT !.answer = v]
<1>1. /\ backlog' = backlog /\ serving' = serving /\ loading' = loading
      /\ calls' = calls /\ visits' = visits /\ shown' = shown /\ full' = full
    BY DEF Page
<1>2. /\ Shape /\ Queue /\ Answers /\ Pages /\ (~full => Line /\ Order) /\ serving \in 1..Len(conns) /\ serving # None
    BY Serving DEF DashInv
<1>3. c \in Good
    BY <1>2, GoodConn
<1>4. /\ r.unread = c.unread /\ r.unsent = c.unsent /\ r.request = c.request /\ r.shut = c.shut
      /\ r.status = c.status /\ r.answer = v
      /\ r \in [request : Requests, unread : Seq(Parts), unsent : Seq(Parts), shut : BOOLEAN,
                status : Status, answer : Int]
    <2>1. v \in Int
        OBVIOUS
    <2> QED
        BY <2>1, <1>3 DEF Good
<1>5. conns' = [conns EXCEPT ![serving] = r]
    OBVIOUS
<1> HIDE DEF r
<1>6. r \in Good
    BY <1>3, <1>4 DEF Good, Rest
<1>7. /\ conns' \in Seq(Good) /\ Len(conns') = Len(conns)
      /\ \A j \in 1..Len(conns) : conns'[j] = IF j = serving THEN r ELSE conns[j]
    BY <1>2, <1>5, <1>6, OneChanged
<1>8. \A j \in 1..Len(conns) : /\ conns'[j].status = conns[j].status /\ conns'[j].request = conns[j].request
                               /\ conns'[j].answer = IF j = serving THEN v ELSE conns[j].answer
    BY <1>4, <1>7
<1>9. conns[serving].status = "open"
    BY <1>2 DEF Queue
<1>10. Shape'
    BY <1>1, <1>2, <1>7 DEF Shape, Phases
<1>11. Queue'
    <2>1. \A k : Queued(k)' = Queued(k)
        BY <1>1 DEF Queued
    <2> QED
        BY <1>1, <1>2, <1>7, <1>8, <2>1 DEF Queue
<1>12. Heard'
    <2>1. Rest(r) = Rest(c) /\ Rest(c) \in Rests
        BY <1>3, <1>4 DEF Rest, Good
    <2> QED
        BY <1>1, <1>2, <1>7, <2>1, AllRests DEF Heard
<1>13. /\ world.containers \in Nat /\ world.images \in Nat /\ world'.containers \in Nat /\ world'.images \in Nat
       /\ shown["containers"] \in Int /\ shown["images"] \in Int
    BY <1>2 DEF Shape, Lists
<1>14. Answers'
    <2>1. ASSUME NEW k \in 1..Len(conns)
          PROVE  /\ conns'[k].answer # -1 => conns'[k].status = "answered" \/ k = serving'
                 /\ conns'[k].request = "containers" => conns'[k].answer <= world'.containers
                 /\ conns'[k].request = "images" => conns'[k].answer <= world'.images
        <3>1. conns[k].answer \in Int
            BY <1>2, GoodConn
        <3> QED
            BY SMTT(30), <3>1, <1>1, <1>2, <1>8, <1>13 DEF Answers
    <2>2. shown'["containers"] <= world'.containers /\ shown'["images"] <= world'.images
        BY <1>1, <1>2, <1>13 DEF Answers
    <2> QED
        BY <1>7, <2>1, <2>2 DEF Answers
<1>15. \A l \in loading : l \in 1..Len(conns) /\ l + 1 \in 1..Len(conns)
    BY <1>2, LoadingIn
<1>16. Pages'
    <2>1. \A k \in visits : k \in 1..Len(conns)
        BY <1>2 DEF Shape
    <2> QED
        BY <1>1, <1>2, <1>8, <1>15, <2>1 DEF Pages
\* Nothing made later than what is served has an answer.
<1>17. ASSUME ~full, NEW j \in 1..Len(conns), serving < j PROVE conns[j].answer = -1
    <2>1. conns[j].status # "answered"
        BY <1>2, <1>9, <1>17, ConnsLen DEF Line
    <2> QED
        BY <1>2, <1>17, <2>1 DEF Answers
<1>18. ASSUME ~full, NEW i \in 1..Len(conns), NEW j \in 1..Len(conns), i < j, conns[i].request = conns[j].request,
              conns[i].request \in Lists, Newer(conns[i].answer, conns[j].answer)
       PROVE  Newer(conns'[i].answer, conns'[j].answer)
    <2>0. conns[i].answer \in Int /\ conns[j].answer \in Int
        BY <1>2, GoodConn
    <2>1. CASE serving = i
        BY <2>1, <1>8, <1>17, <1>18 DEF Newer
    <2>2. CASE serving = j
        <3>1. conns[i].answer <= v
            BY SMTT(30), <2>0, <2>2, <1>2, <1>13, <1>18 DEF Answers, Lists
        <3> QED
            BY <3>1, <2>2, <1>8, <1>18 DEF Newer
    <2>3. CASE serving # i /\ serving # j
        BY <2>3, <1>8, <1>18
    <2> QED
        BY <2>1, <2>2, <2>3
<1>19. ASSUME ~full, NEW l \in loading PROVE /\ Newer(shown["containers"], conns'[l].answer)
                                      /\ Newer(shown["images"], conns'[l + 1].answer)
    <2>1. serving = l => shown["containers"] <= v
        BY <1>2, <1>13 DEF Answers, Pages
    <2>2. serving = l + 1 => shown["images"] <= v
        BY <1>2, <1>13 DEF Answers, Pages
    <2> QED
        BY <2>1, <2>2, <1>2, <1>8, <1>15, <1>19 DEF Newer, Order
<1>20. ASSUME ~full PROVE Order'
    <2>1. ASSUME NEW l \in loading, NEW m \in loading, l < m
          PROVE  /\ Newer(conns'[l].answer, conns'[m].answer)
                 /\ Newer(conns'[l + 1].answer, conns'[m + 1].answer)
        <3>1. /\ conns[l].request = "containers" /\ conns[m].request = "containers"
              /\ conns[l + 1].request = "images" /\ conns[m + 1].request = "images"
            BY <1>2 DEF Pages
        <3>2. Newer(conns[l].answer, conns[m].answer) /\ Newer(conns[l + 1].answer, conns[m + 1].answer)
            BY <1>2, <1>20, <2>1 DEF Order
        <3>3. /\ l \in 1..Len(conns) /\ l + 1 \in 1..Len(conns) /\ m \in 1..Len(conns) /\ m + 1 \in 1..Len(conns)
              /\ l + 1 < m + 1
            BY <1>15, <2>1
        <3> QED
            BY <3>1, <3>2, <3>3, <2>1, <1>18, <1>20 DEF Lists
    <2> QED
        BY <1>1, <2>1, <1>19, <1>20 DEF Order
<1>21. ASSUME ~full PROVE Line'
    BY <1>1, <1>2, <1>7, <1>8, <1>21 DEF Line
<1> QED
    BY <1>1, <1>10, <1>11, <1>12, <1>14, <1>16, <1>20, <1>21 DEF DashInv

LEMMA ChangedWorld ==
    ASSUME world \in [container : {"running", "stopped", "gone"}, containers : Nat, images : Nat],
           NEW s \in {"running", "stopped", "gone"}
    PROVE  /\ Changed(s) \in [container : {"running", "stopped", "gone"}, containers : Nat, images : Nat]
           /\ Changed(s).containers >= world.containers /\ Changed(s).images >= world.images
<1> DEFINE w == [world EXCEPT !.container = s]
<1>1. /\ w \in [container : {"running", "stopped", "gone"}, containers : Nat, images : Nat]
      /\ w.containers = world.containers /\ w.images = world.images
    OBVIOUS
<1>2. Changed(s) = [w EXCEPT !.containers = w.containers + 1]
    BY <1>1 DEF Changed
<1> HIDE DEF w
<1> QED
    BY <1>1, <1>2

LEMMA PerformStep == ASSUME DashInv, Perform PROVE DashInv'
<1> DEFINE request == conns[serving].request
<1>1. /\ phase = "call" /\ phase' = "answer" /\ UNCHANGED <<backlog, serving, Page>>
      /\ Shape /\ serving # None /\ serving \in 1..Len(conns)
    BY Serving DEF Perform, DashInv
<1>2. /\ world \in [container : {"running", "stopped", "gone"}, containers : Nat, images : Nat]
      /\ request \in Requests
    BY <1>1, GoodConn DEF Shape
<1>3. CASE /\ request \in {"stop", "rm"} /\ conns' = [conns EXCEPT ![serving].answer = 0]
           /\ \E s \in {"stopped", "gone"} : world' = Changed(s)
    <2>1. /\ world' \in [container : {"running", "stopped", "gone"}, containers : Nat, images : Nat]
          /\ world'.containers >= world.containers /\ world'.images >= world.images
        BY <1>2, <1>3, ChangedWorld
    <2> QED
        BY <2>1, <1>1, <1>3, Performed
<1>4. CASE request = "pull" /\ conns' = [conns EXCEPT ![serving].answer = 0]
           /\ world' = [world EXCEPT !.images = @ + 1]
    <2>1. /\ world' \in [container : {"running", "stopped", "gone"}, containers : Nat, images : Nat]
          /\ world'.containers >= world.containers /\ world'.images >= world.images
        BY <1>2, <1>4
    <2> QED
        BY <2>1, <1>1, <1>4, Performed
<1>5. CASE request \in Lists /\ conns' = [conns EXCEPT ![serving].answer = world[request]] /\ UNCHANGED world
    <2>1. world.containers \in Nat /\ world.images \in Nat
        BY <1>2
    <2>2. CASE request = "containers"
        <3>1. conns' = [conns EXCEPT ![serving].answer = world.containers] /\ world' = world
            BY <1>5, <2>2
        <3>2. /\ world' \in [container : {"running", "stopped", "gone"}, containers : Nat, images : Nat]
              /\ world'.containers >= world.containers /\ world'.images >= world.images
              /\ world'.containers = world.containers
            BY <3>1, <2>1, <1>2
        <3>3. world.containers \in Nat
            BY <2>1
        <3> QED
            BY <3>1, <3>2, <3>3, <2>2, <1>1, Performed
    <2>3. CASE request = "images"
        <3>1. conns' = [conns EXCEPT ![serving].answer = world.images] /\ world' = world
            BY <1>5, <2>3
        <3>2. /\ world' \in [container : {"running", "stopped", "gone"}, containers : Nat, images : Nat]
              /\ world'.containers >= world.containers /\ world'.images >= world.images
              /\ world'.images = world.images
            BY <3>1, <2>1, <1>2
        <3>3. world.images \in Nat
            BY <2>1
        <3> QED
            BY <3>1, <3>2, <3>3, <2>3, <1>1, Performed
    <2> QED
        BY <1>5, <2>2, <2>3 DEF Lists
<1>6. CASE UNCHANGED <<world, conns>>
    <2>1. Rest(conns[serving]) \in Remains(phase')
        BY <1>1, GoodConn, AllRests
    <2> QED
        BY <2>1, <1>1, <1>6, Unchanged DEF Phases
<1> QED
    BY <1>3, <1>4, <1>5, <1>6 DEF Perform

LEMMA ElsewhereStep == ASSUME DashInv, Elsewhere PROVE DashInv'
<1>1. PICK s \in {"running", "stopped", "gone"} : world' = Changed(s)
    BY DEF Elsewhere, Changed
<1>2. /\ conns' = conns /\ backlog' = backlog /\ serving' = serving /\ phase' = phase
      /\ loading' = loading /\ calls' = calls /\ visits' = visits /\ shown' = shown /\ full' = full
    BY DEF Elsewhere, Page
<1>3. Shape /\ Queue /\ Heard /\ Answers /\ Pages /\ (~full => Line /\ Order)
    BY DEF DashInv
<1>4. /\ world' \in [container : {"running", "stopped", "gone"}, containers : Nat, images : Nat]
      /\ world'.containers >= world.containers /\ world'.images >= world.images
    BY <1>1, <1>3, ChangedWorld DEF Shape
<1>5. Shape'
    BY <1>2, <1>3, <1>4 DEF Shape
<1>6. Queue' /\ Heard' /\ Pages' /\ (~full' => Line' /\ Order')
    <2>1. \A k : Queued(k)' = Queued(k)
        BY <1>2 DEF Queued
    <2> QED
        BY <1>2, <1>3, <2>1 DEF Queue, Heard, Pages, Line, Order
<1>7. /\ world.containers \in Nat /\ world.images \in Nat /\ world'.containers \in Nat /\ world'.images \in Nat
      /\ shown["containers"] \in Int /\ shown["images"] \in Int
    BY <1>3, <1>4 DEF Shape, Lists
<1>8. Answers'
    <2>1. ASSUME NEW k \in 1..Len(conns)
          PROVE  /\ conns[k].request = "containers" => conns[k].answer <= world'.containers
                 /\ conns[k].request = "images" => conns[k].answer <= world'.images
        <3>1. conns[k].answer \in Int
            BY <1>3, GoodConn
        <3> QED
            BY <3>1, <1>3, <1>4, <1>7 DEF Answers
    <2>2. shown["containers"] <= world'.containers /\ shown["images"] <= world'.images
        BY <1>3, <1>4, <1>7 DEF Answers
    <2> QED
        BY <2>1, <2>2, <1>2, <1>3 DEF Answers
<1> QED
    BY <1>5, <1>6, <1>8 DEF DashInv

LEMMA AcceptStep == ASSUME DashInv, Accept PROVE DashInv'
<1>1. /\ phase = "accept" /\ backlog # <<>> /\ serving' = Head(backlog) /\ backlog' = Tail(backlog)
      /\ phase' = "line" /\ conns' = conns /\ world' = world /\ loading' = loading /\ calls' = calls
      /\ visits' = visits /\ shown' = shown /\ full' = full
    BY DEF Accept, Page
<1>2. Shape /\ Queue /\ Heard /\ Answers /\ Pages /\ (~full => Line /\ Order)
    BY DEF DashInv
<1>3. backlog \in Seq(Nat) /\ Len(backlog) \in Nat /\ Len(backlog) > 0 /\ Len(conns) \in Nat
    BY <1>1, <1>2, ConnsLen, EmptySeq DEF Shape
<1>4. /\ backlog' \in Seq(Nat) /\ Len(backlog') = Len(backlog) - 1
      /\ \A b \in 1..Len(backlog') : backlog'[b] = backlog[b + 1]
      /\ serving' = backlog[1]
    BY <1>1, <1>3, HeadTailProperties
<1>5. serving' \in 1..Len(conns) /\ serving = None
    BY <1>1, <1>2, <1>3, <1>4 DEF Queue, Shape
<1>6. Shape'
    BY <1>1, <1>2, <1>3, <1>4, <1>5, BoundsAssumption DEF Shape, Phases, None
<1>7. \A b \in 1..Len(backlog') : b + 1 \in 1..Len(backlog) /\ 1 < b + 1
    BY <1>3, <1>4
<1>8. Queue'
    <2>1. ASSUME NEW b \in 1..Len(backlog')
          PROVE  backlog'[b] \in 1..Len(conns') /\ backlog'[b] # serving'
        <3>1. 1 \in 1..Len(backlog)
            BY <1>3
        <3> QED
            BY <3>1, <1>1, <1>2, <1>3, <1>4, <1>7 DEF Queue
    <2>2. ASSUME NEW b \in 1..Len(backlog'), NEW d \in 1..Len(backlog'), b < d
          PROVE  backlog'[b] # backlog'[d]
        <3>1. b + 1 \in 1..Len(backlog) /\ d + 1 \in 1..Len(backlog)
            BY <1>7
        <3>2. b + 1 < d + 1
            BY <2>2
        <3>3. backlog[b + 1] # backlog[d + 1]
            BY <3>1, <3>2, <1>2 DEF Queue
        <3> QED
            BY <3>3, <1>4
    <2>3. ASSUME NEW k \in 1..Len(conns) PROVE Queued(k) <=> k = serving' \/ Queued(k)'
        <3>1. ASSUME NEW b \in 1..Len(backlog), backlog[b] = k PROVE k = serving' \/ Queued(k)'
            <4>1. CASE b = 1
                BY <4>1, <3>1, <1>4
            <4>2. CASE b # 1
                <5>1. b - 1 \in 1..Len(backlog') /\ b - 1 + 1 = b
                    BY <4>2, <1>3, <1>4
                <5>2. backlog'[b - 1] = k
                    BY <5>1, <3>1, <1>4
                <5> QED
                    BY <5>1, <5>2 DEF Queued
            <4> QED
                BY <4>1, <4>2
        <3>2. ASSUME NEW b \in 1..Len(backlog'), backlog'[b] = k PROVE Queued(k)
            BY <3>2, <1>4, <1>7 DEF Queued
        <3>3. k = serving' => Queued(k)
            <4>1. 1 \in 1..Len(backlog)
                BY <1>3
            <4> QED
                BY <4>1, <1>4 DEF Queued
        <3> QED
            BY <3>1, <3>2, <3>3 DEF Queued
    <2>4. \A k \in 1..Len(conns) : conns[k].status = "open" <=> Queued(k)
        BY <1>2, <1>5 DEF Queue, None
    <2>5. \A k \in 1..Len(conns') : conns'[k].status = "open" <=> k = serving' \/ Queued(k)'
        BY <2>3, <2>4, <1>1
    <2>6. \A k \in 1..Len(conns') : conns'[k].status = "dropped" => full'
        BY <1>1, <1>2 DEF Queue
    <2> QED
        BY <2>1, <2>2, <2>5, <2>6 DEF Queue
<1>9. Heard'
    BY <1>1, <1>2, <1>5, GoodConn, AllRests DEF Heard
<1>10. Answers'
    <2>1. ASSUME NEW k \in 1..Len(conns), conns[k].answer # -1 PROVE conns[k].status = "answered"
        BY <2>1, <1>2, <1>5 DEF Answers, None
    <2> QED
        BY <2>1, <1>1, <1>2 DEF Answers
<1>11. Pages'
    BY <1>1, <1>2 DEF Pages
<1>12. ASSUME ~full' PROVE Line' /\ Order'
    <2>0. Line /\ Order
        BY <1>1, <1>2, <1>12
    <2>1. ASSUME NEW b \in 1..Len(backlog') PROVE serving' < backlog'[b]
        <3>1. 1 \in 1..Len(backlog)
            BY <1>3
        <3> QED
            BY <3>1, <2>0, <1>4, <1>7 DEF Line
    <2>2. ASSUME NEW b \in 1..Len(backlog'), NEW d \in 1..Len(backlog'), b < d
          PROVE  backlog'[b] < backlog'[d]
        <3>0. b \in Int /\ d \in Int
            BY <1>3, <1>4
        <3>1. b + 1 < d + 1 /\ b + 1 \in 1..Len(backlog) /\ d + 1 \in 1..Len(backlog)
            BY <1>7, <2>2, <3>0
        <3> QED
            BY <3>1, <2>0, <1>4 DEF Line
    <2>3. \A j, k \in 1..Len(conns') : conns'[j].status = "answered" /\ conns'[k].status = "open" => j < k
        BY <2>0, <1>1 DEF Line
    <2> QED
        BY <2>0, <2>1, <2>2, <2>3, <1>1 DEF Line, Order
<1> QED
    BY <1>6, <1>8, <1>9, <1>10, <1>11, <1>12 DEF DashInv

-----------------------------------------------------------------------------
LEMMA OverGood ==
    /\ Over \in Good /\ Over.status = "over" /\ Over.answer = -1 /\ Over.request = "other"
<1>1. Connection("other", <<>>, <<>>) \in [request : Requests, unread : Seq(Parts), unsent : Seq(Parts),
                                           shut : BOOLEAN, status : Status, answer : Int]
    BY DEF Connection, Requests, Status
<1>2. /\ Over \in [request : Requests, unread : Seq(Parts), unsent : Seq(Parts), shut : BOOLEAN,
                   status : Status, answer : Int]
      /\ Over.status = "over" /\ Over.answer = -1 /\ Over.request = "other"
      /\ Over.unread = <<>> /\ Over.unsent = <<>>
    BY <1>1 DEF Over, Connection, Status
<1>3. <<>> \o <<>> = <<>>
    OBVIOUS
<1> QED
    BY <1>2, <1>3 DEF Good, Rest, Rests, PageRests, Lists

\* Lists that are given up do no harm to the order of the others.
LEMMA OrderFalls ==
    ASSUME Shape, Order, loading' = loading, shown' = shown,
           \A j \in 1..Len(conns) : conns'[j].answer \in {conns[j].answer, -1}
    PROVE  Order'
<1>1. \A l \in loading : l \in 1..Len(conns) /\ l + 1 \in 1..Len(conns)
    BY LoadingIn
<1>2. \A u, v, w : Newer(u, v) => Newer(-1, v) /\ Newer(u, -1) /\ Newer(-1, -1)
    BY DEF Newer
<1>3. ASSUME NEW i \in 1..Len(conns), NEW j \in 1..Len(conns), Newer(conns[i].answer, conns[j].answer)
      PROVE  Newer(conns'[i].answer, conns'[j].answer)
    BY <1>2, <1>3
<1>4. \A l, m \in loading : l < m => /\ Newer(conns'[l].answer, conns'[m].answer)
                                     /\ Newer(conns'[l + 1].answer, conns'[m + 1].answer)
    BY <1>1, <1>3 DEF Order
<1>5. \A l \in loading : /\ Newer(shown["containers"], conns'[l].answer)
                         /\ Newer(shown["images"], conns'[l + 1].answer)
    BY <1>1, <1>2 DEF Order
<1> QED
    BY <1>4, <1>5 DEF Order

\* The connection that was served is over or has its answer, or has failed.
LEMMA Finished ==
    ASSUME DashInv, phase \notin {"accept", "dead"}, NEW how \in {"answered", "lost"},
           conns' = [conns EXCEPT ![serving] = Ended(how)],
           phase' = "accept", serving' = None, UNCHANGED <<backlog, world, Page>>
    PROVE  DashInv'
<1> DEFINE c == conns[serving]
           e == Ended(how)
<1>1. /\ backlog' = backlog /\ world' = world /\ loading' = loading
      /\ calls' = calls /\ visits' = visits /\ shown' = shown /\ full' = full
    BY DEF Page
<1>2. /\ Shape /\ Queue /\ Answers /\ Pages /\ (~full => Line /\ Order) /\ serving \in 1..Len(conns) /\ serving # None
    BY Serving DEF DashInv
<1>3. c \in Good /\ c.answer \in Int /\ c.answer >= -1
    BY <1>2, GoodConn
<1>4. /\ e \in Good /\ e.status \in {"answered", "lost", "over"}
      /\ e.answer \in {c.answer, -1} /\ (e.answer # -1 => e.status = "answered")
      /\ serving \in visits => e.request = "other"
      /\ serving \notin visits => e.request = c.request /\ e.status # "over"
    <2>1. CASE serving \in visits
        <3>1. e = Over
            BY <2>1 DEF Ended
        <3> HIDE DEF e
        <3> QED
            BY <2>1, <3>1, OverGood
    <2>2. CASE serving \notin visits
        <3> DEFINE v == IF how = "lost" THEN -1 ELSE c.answer
                   r == [c EXCEPT !.status = how, !.answer = v]
        <3>1. e = r
            BY <2>2 DEF Ended
        <3>2. v \in Int /\ v >= -1 /\ v \in {c.answer, -1} /\ (v # -1 => how = "answered")
            BY <1>3
        <3> HIDE DEF v
        <3>3. /\ r.unread = c.unread /\ r.unsent = c.unsent /\ r.request = c.request
              /\ r.status = how /\ r.answer = v
              /\ r \in [request : Requests, unread : Seq(Parts), unsent : Seq(Parts), shut : BOOLEAN,
                        status : Status, answer : Int]
            BY <1>3, <3>2 DEF Good, Status
        <3> HIDE DEF r
        <3>4. r \in Good
            BY <1>3, <3>2, <3>3 DEF Good, Rest
        <3> HIDE DEF e
        <3> QED
            BY <2>2, <3>1, <3>2, <3>3, <3>4
    <2> QED
        BY <2>1, <2>2
<1> HIDE DEF e
<1>5. /\ conns' \in Seq(Good) /\ Len(conns') = Len(conns)
      /\ \A j \in 1..Len(conns) : conns'[j] = IF j = serving THEN e ELSE conns[j]
    BY <1>2, <1>4, OneChanged DEF e
<1>6. Shape'
    BY <1>1, <1>2, <1>5, ConnsLen DEF Shape, Phases, None
<1>7. Queue'
    <2>1. \A k : Queued(k)' = Queued(k)
        BY <1>1 DEF Queued
    <2>2. ASSUME NEW b \in 1..Len(backlog)
          PROVE  /\ backlog[b] \in 1..Len(conns) /\ 0 < backlog[b] /\ backlog[b] # serving
        BY <1>2 DEF Queue
    <2>3. \A k \in 1..Len(conns) : Queued(k) => k # serving
        BY <2>2 DEF Queued
    <2>4. \A k \in 1..Len(conns) : conns'[k].status = "open" <=> Queued(k)
        BY <2>3, <1>2, <1>4, <1>5 DEF Queue
    <2>5. \A k \in 1..Len(conns) : k # None
        BY DEF None
    <2>6. \A k \in 1..Len(conns') : conns'[k].status = "dropped" => full'
        BY <1>1, <1>2, <1>4, <1>5 DEF Queue
    <2>7. \A b \in 1..Len(backlog') : backlog'[b] \in 1..Len(conns') /\ backlog'[b] # serving'
        BY <2>2, <1>1, <1>5 DEF None
    <2>8. \A k \in 1..Len(conns') : conns'[k].status = "open" <=> k = serving' \/ Queued(k)'
        BY <2>1, <2>4, <2>5, <1>5
    <2>9. \A b, d \in 1..Len(backlog') : b < d => backlog'[b] # backlog'[d]
        BY <1>1, <1>2 DEF Queue
    <2> QED
        BY <2>6, <2>7, <2>8, <2>9, <1>5 DEF Queue
<1>8. Heard'
    BY DEF Heard
<1>9. \A j \in 1..Len(conns) : conns'[j].answer \in {conns[j].answer, -1} /\ conns[j].answer \in Int
    BY <1>2, <1>4, <1>5, GoodConn
<1>10. /\ world.containers \in Nat /\ world.images \in Nat
    BY <1>2 DEF Shape
<1>11. Answers'
    <2>1. ASSUME NEW k \in 1..Len(conns)
          PROVE  /\ conns'[k].answer # -1 => conns'[k].status = "answered"
                 /\ conns'[k].request = "containers" => conns'[k].answer <= world.containers
                 /\ conns'[k].request = "images" => conns'[k].answer <= world.images
        <3>1. CASE k = serving
            <4>1. e.request = c.request \/ e.request = "other"
                BY <1>4
            <4>2. /\ c.request = "containers" => c.answer <= world.containers
                  /\ c.request = "images" => c.answer <= world.images
                BY <1>2 DEF Answers
            <4> QED
                BY <3>1, <4>1, <4>2, <1>4, <1>5, <1>10
        <3>2. CASE k # serving
            BY <3>2, <1>2, <1>5 DEF Answers
        <3> QED
            BY <3>1, <3>2
    <2> QED
        BY <2>1, <1>1, <1>2, <1>5 DEF Answers
<1>12. \A l \in loading : l \in 1..Len(conns) /\ l + 1 \in 1..Len(conns)
    BY <1>2, LoadingIn
<1>13. Pages'
    <2>1. ASSUME NEW j \in 1..Len(conns), conns[j].request \in Lists, conns[j].status # "over"
          PROVE  conns'[j].request = conns[j].request /\ conns'[j].status # "over"
        BY <2>1, <1>2, <1>4, <1>5 DEF Pages
    <2>2. ASSUME NEW l \in loading
          PROVE  /\ conns'[l].request = "containers" /\ conns'[l + 1].request = "images"
                 /\ conns'[l].status # "over" /\ conns'[l + 1].status # "over"
        BY <2>1, <1>2, <1>12 DEF Pages, Lists
    <2>3. ASSUME NEW k \in visits PROVE conns'[k].request \notin Lists
        <3>1. k \in 1..Len(conns)
            BY <1>2 DEF Shape
        <3> QED
            BY <3>1, <1>2, <1>4, <1>5 DEF Pages, Lists
    <2> QED
        BY <2>2, <2>3, <1>1 DEF Pages
<1>14. ASSUME ~full' PROVE Line' /\ Order'
    <2>0. Line /\ Order
        BY <1>1, <1>2, <1>14
    <2>1. \A b \in 1..Len(backlog) : serving < backlog[b] /\ 0 < backlog[b]
        BY <2>0, <1>2 DEF Line, Queue
    <2>2. \A k \in 1..Len(conns) : conns'[k].status = "open" => Queued(k) /\ conns[k].status = "open"
        BY <1>2, <1>4, <1>5 DEF Queue
    <2>3. ASSUME NEW j \in 1..Len(conns), NEW k \in 1..Len(conns),
                 conns'[j].status = "answered", conns'[k].status = "open"
          PROVE  j < k
        <3>1. serving < k /\ conns[k].status = "open"
            BY <2>1, <2>2, <2>3 DEF Queued
        <3> QED
            BY <3>1, <2>0, <2>3, <1>5 DEF Line
    <2>4. \A b \in 1..Len(backlog') : serving' < backlog'[b]
        BY <2>1, <1>1 DEF None
    <2>5. \A b, d \in 1..Len(backlog') : b < d => backlog'[b] < backlog'[d]
        BY <2>0, <1>1 DEF Line
    <2>6. Order'
        BY <2>0, <1>1, <1>2, <1>9, OrderFalls
    <2> QED
        BY <2>3, <2>4, <2>5, <2>6, <1>5 DEF Line
<1> QED
    BY <1>6, <1>7, <1>8, <1>11, <1>13, <1>14 DEF DashInv

LEMMA AnswerStep == ASSUME DashInv, Answer PROVE DashInv'
BY Finished DEF Answer

LEMMA ErrorStep == ASSUME DashInv, Error PROVE DashInv'
BY Finished DEF Error

-----------------------------------------------------------------------------
\* Answers that have been used are given up.
LEMMA Cleared ==
    ASSUME DashInv, NEW K \in SUBSET (1..Len(conns)), \A k \in K : conns[k].status # "open",
           conns' \in Seq(Good), Len(conns') = Len(conns),
           \A j \in 1..Len(conns) : conns'[j] = IF j \in K THEN Over ELSE conns[j],
           UNCHANGED <<backlog, Server, visits, full>>,
           calls' \subseteq calls, loading' \subseteq loading,
           \A m \in loading' : m \notin K /\ m + 1 \notin K,
           shown' \in [Lists -> Int],
           shown'["containers"] <= world.containers, shown'["images"] <= world.images,
           ~full => \A m \in loading' : /\ Newer(shown'["containers"], conns[m].answer)
                                        /\ Newer(shown'["images"], conns[m + 1].answer)
    PROVE  DashInv'
<1>1. backlog' = backlog /\ serving' = serving /\ phase' = phase /\ world' = world /\ visits' = visits /\ full' = full
    BY DEF Server
<1>2. Shape /\ Queue /\ Heard /\ Answers /\ Pages /\ (~full => Line /\ Order)
    BY DEF DashInv
<1>3. Shape'
    BY <1>1, <1>2 DEF Shape
<1>4. \A j \in 1..Len(conns) : /\ conns'[j].status = "open" <=> conns[j].status = "open"
                               /\ conns'[j].status = "answered" => conns[j].status = "answered"
                               /\ conns'[j].status = "dropped" => conns[j].status = "dropped"
    BY OverGood
<1>5. Queue'
    <2>1. \A k : Queued(k)' = Queued(k)
        BY <1>1 DEF Queued
    <2>2. \A k \in 1..Len(conns') : conns'[k].status = "open" <=> k = serving' \/ Queued(k)'
        BY <1>1, <1>2, <1>4, <2>1 DEF Queue
    <2>3. \A k \in 1..Len(conns') : conns'[k].status = "dropped" => full'
        BY <1>1, <1>2, <1>4 DEF Queue
    <2>4. \A b \in 1..Len(backlog') : backlog'[b] \in 1..Len(conns') /\ backlog'[b] # serving'
        BY <1>1, <1>2 DEF Queue
    <2>5. \A b, d \in 1..Len(backlog') : b < d => backlog'[b] # backlog'[d]
        BY <1>1, <1>2 DEF Queue
    <2> QED
        BY <2>2, <2>3, <2>4, <2>5 DEF Queue
<1>6. Heard'
    <2>1. serving # None => serving \in 1..Len(conns) /\ conns[serving].status = "open"
        BY <1>2, ConnsLen DEF Queue, Shape, None
    <2>2. serving # None => conns'[serving] = conns[serving]
        BY <2>1
    <2> QED
        BY <1>1, <1>2, <2>2 DEF Heard
<1>7. Answers'
    <2>1. ASSUME NEW k \in 1..Len(conns)
          PROVE  /\ conns'[k].answer # -1 => conns'[k].status = "answered" \/ k = serving
                 /\ conns'[k].request = "containers" => conns'[k].answer <= world.containers
                 /\ conns'[k].request = "images" => conns'[k].answer <= world.images
        BY <1>2, OverGood DEF Answers
    <2> QED
        BY <2>1, <1>1 DEF Answers
<1>8. \A m \in loading' : /\ m \in loading /\ m \in 1..Len(conns) /\ m + 1 \in 1..Len(conns)
                          /\ conns'[m] = conns[m] /\ conns'[m + 1] = conns[m + 1]
    BY <1>2, LoadingIn
<1>9. Pages'
    <2>1. ASSUME NEW k \in visits PROVE conns'[k].request \notin Lists
        <3>1. k \in 1..Len(conns)
            BY <1>2 DEF Shape
        <3> QED
            BY <3>1, <1>2, OverGood DEF Pages, Lists
    <2> QED
        BY <2>1, <1>1, <1>2, <1>8 DEF Pages
<1>10. ASSUME ~full' PROVE Line' /\ Order'
    <2>1. Line /\ Order
        BY <1>1, <1>2, <1>10
    <2>2. Line'
        BY <2>1, <1>1, <1>4 DEF Line
    <2> QED
        BY <2>1, <2>2, <1>1, <1>8, <1>10 DEF Order
<1> QED
    BY <1>3, <1>5, <1>6, <1>7, <1>9, <1>10 DEF DashInv

LEMMA SettledEnds ==
    ASSUME DashInv, NEW k \in 1..Len(conns), Settled(k)
    PROVE  conns[k].status # "open" /\ (conns[k].answer # -1 => conns[k].status = "answered")
BY DEF Settled, DashInv, Queue, Answers

\* A complete reload is rendered before those that have not yet been answered,
\* and after those that were.
LEMMA RenderStep == ASSUME DashInv, NEW l \in 1..Len(conns), Render(l) PROVE DashInv'
<1>1. /\ l \in loading /\ Complete(l) /\ (full \/ \A m \in loading : Complete(m) => l <= m)
      /\ loading' = loading \ {l}
      /\ shown' = [containers |-> conns[l].answer, images |-> conns[l + 1].answer]
      /\ conns' = [k \in 1..Len(conns) |-> IF k \in l..(l + 1) THEN Over ELSE conns[k]]
      /\ UNCHANGED <<backlog, Server, calls, visits, full>>
    BY DEF Render
<1>2. Shape /\ Queue /\ Heard /\ Answers /\ Pages /\ (~full => Line /\ Order)
    BY DEF DashInv
<1>3. \A m \in loading : m \in 1..Len(conns) /\ m + 1 \in 1..Len(conns)
    BY <1>2, LoadingIn
<1>4. l \in 1..Len(conns) /\ l + 1 \in 1..Len(conns) /\ l \in l..(l + 1) /\ l + 1 \in l..(l + 1)
    BY <1>1, <1>3
<1>5. /\ Settled(l) /\ Settled(l + 1)
      /\ conns[l].answer \in Int /\ conns[l + 1].answer \in Int
    BY <1>1, <1>2, <1>4, GoodConn DEF Complete
<1>6. conns' \in Seq(Good) /\ Len(conns') = Len(conns)
    <2>1. Len(conns) \in Nat /\ \A k \in 1..Len(conns) : conns[k] \in Good
        BY <1>2, ConnsLen, GoodConn
    <2> QED
        BY <2>1, <1>1, OverGood
<1>7. l..(l + 1) \in SUBSET (1..Len(conns)) /\ \A k \in l..(l + 1) : k = l \/ k = l + 1
    BY <1>4, <1>2, ConnsLen
<1>8. \A k \in l..(l + 1) : conns[k].status # "open"
    BY <1>4, <1>5, <1>7, SettledEnds
<1>9. shown' \in [Lists -> Int] /\ shown'["containers"] = conns[l].answer /\ shown'["images"] = conns[l + 1].answer
    BY <1>1, <1>5 DEF Lists
<1>10. shown'["containers"] <= world.containers /\ shown'["images"] <= world.images
    BY <1>1, <1>2, <1>4, <1>9 DEF Answers, Pages
<1>11. \A m \in loading : m # l => m # l + 1 /\ m + 1 # l /\ m + 1 # l + 1
    BY <1>1, <1>2, <1>3, <1>4 DEF Pages
<1>12. \A m \in loading' : m \notin l..(l + 1) /\ m + 1 \notin l..(l + 1)
    BY <1>1, <1>3, <1>7, <1>11
\* No earlier reload is still under way when one of this one's lists has come.
<1>13. ASSUME ~full, NEW m \in loading, m < l, NEW i \in {l, l + 1}, conns[i].answer # -1
       PROVE  FALSE
    <2>1. conns[i].status = "answered" /\ i \in 1..Len(conns)
        BY <1>4, <1>5, <1>13, SettledEnds
    <2>2. m < i /\ m + 1 < i /\ m \in 1..Len(conns) /\ m + 1 \in 1..Len(conns)
        BY <1>3, <1>4, <1>11, <1>13
    <2>3. conns[m].status # "open" /\ conns[m + 1].status # "open"
        BY <2>1, <2>2, <1>2, <1>13 DEF Line
    <2>4. conns[m].status \in Status /\ conns[m + 1].status \in Status
        BY <2>2, <1>2, GoodConn
    <2>7. conns[m].status # "dropped" /\ conns[m + 1].status # "dropped"
        BY <2>2, <1>2, <1>13 DEF Queue
    <2>8. conns[m].status # "over" /\ conns[m + 1].status # "over"
        BY <1>2, <1>13 DEF Pages
    <2>5. Settled(m) /\ Settled(m + 1)
        BY <2>3, <2>4, <2>7, <2>8 DEF Settled, Status
    <2>6. Complete(m)
        <3>1. \A k \in m..(m + 1) : k = m \/ k = m + 1
            BY <2>2
        <3> QED
            BY <3>1, <2>5 DEF Complete
    <2> QED
        BY <2>6, <1>1, <1>3, <1>4, <1>13
<1>14. ASSUME ~full, NEW m \in loading'
       PROVE  /\ Newer(shown'["containers"], conns[m].answer)
              /\ Newer(shown'["images"], conns[m + 1].answer)
    <2>1. m \in loading /\ m # l /\ m \in 1..Len(conns)
        BY <1>1, <1>3
    <2>2. CASE l < m
        BY <2>1, <2>2, <1>1, <1>2, <1>9, <1>14 DEF Order
    <2>3. CASE m < l
        <3>1. conns[l].answer = -1 /\ conns[l + 1].answer = -1
            BY <2>1, <2>3, <1>13, <1>14
        <3> QED
            BY <3>1, <1>9 DEF Newer
    <2> QED
        BY <2>1, <2>2, <2>3
<1>15. \A j \in 1..Len(conns) : conns'[j] = IF j \in l..(l + 1) THEN Over ELSE conns[j]
    BY <1>1
<1>16. loading' \subseteq loading /\ calls' \subseteq calls /\ UNCHANGED <<backlog, Server, visits, full>>
    BY <1>1
<1> QED
    BY <1>6, <1>7, <1>8, <1>9, <1>10, <1>12, <1>14, <1>15, <1>16, Cleared

\* A pull that failed: its answer is not used.
LEMMA PullFailed ==
    ASSUME DashInv, NEW k \in 1..Len(conns), Settled(k), conns[k].request = "pull",
           calls' = calls \ {k}, conns' = [conns EXCEPT ![k] = Over],
           UNCHANGED <<backlog, loading, Server, visits, shown, full>>
    PROVE  DashInv'
<1>1. Shape /\ Answers /\ Pages /\ (~full => Line /\ Order)
    BY DEF DashInv
<1>2. /\ conns' \in Seq(Good) /\ Len(conns') = Len(conns)
      /\ \A j \in 1..Len(conns) : conns'[j] = IF j \in {k} THEN Over ELSE conns[j]
    <2>1. Over \in Good
        BY OverGood
    <2>2. /\ conns' \in Seq(Good) /\ Len(conns') = Len(conns)
          /\ \A j \in 1..Len(conns) : conns'[j] = IF j = k THEN Over ELSE conns[j]
        BY <1>1, <2>1, OneChanged
    <2> QED
        BY <2>2
<1>3. {k} \in SUBSET (1..Len(conns)) /\ \A j \in {k} : conns[j].status # "open"
    BY SettledEnds
<1>4. \A m \in loading : m \notin {k} /\ m + 1 \notin {k}
    <2>1. "pull" # "containers" /\ "pull" # "images"
        OBVIOUS
    <2> QED
        BY <2>1, <1>1 DEF Pages
<1>5. /\ shown' \in [Lists -> Int] /\ loading' = loading /\ shown' = shown
      /\ shown'["containers"] <= world.containers /\ shown'["images"] <= world.images
    BY <1>1 DEF Shape, Answers
<1>6. ~full => \A m \in loading' : /\ Newer(shown'["containers"], conns[m].answer)
                                   /\ Newer(shown'["images"], conns[m + 1].answer)
    BY <1>1, <1>5 DEF Order
<1>7. /\ loading' \subseteq loading /\ calls' \subseteq calls /\ UNCHANGED <<backlog, Server, visits, full>>
      /\ \A m \in loading' : m \notin {k} /\ m + 1 \notin {k}
    BY <1>4
<1> QED
    BY <1>2, <1>3, <1>5, <1>6, <1>7, Cleared

-----------------------------------------------------------------------------
\* A connection that is made: it waits, is dropped, or fails at once.
As(c, how) == [c EXCEPT !.status = how]

LEMMA Lost ==
    ASSUME NEW c \in Good, NEW how \in {"open", "lost", "dropped"}
    PROVE  /\ As(c, how) \in Good /\ As(c, how).status = how
           /\ As(c, how).answer = c.answer /\ As(c, how).request = c.request
<1> DEFINE r == As(c, how)
<1>1. /\ r.unread = c.unread /\ r.unsent = c.unsent /\ r.request = c.request /\ r.shut = c.shut
      /\ r.status = how /\ r.answer = c.answer
      /\ r \in [request : Requests, unread : Seq(Parts), unsent : Seq(Parts), shut : BOOLEAN,
                status : Status, answer : Int]
    BY DEF Good, Status, As
<1> HIDE DEF r
<1>2. r \in Good
    BY <1>1 DEF Good, Rest
<1> QED
    BY <1>1, <1>2 DEF r

\* The connections and the backlog when those of list have been made.
MadeAll(list) ==
    LET n == Len(conns)
    IN  /\ conns' \in Seq(Good) /\ Len(conns') = n + Len(list) /\ Len(conns') <= MaxConns
        /\ \A j \in 1..n : conns'[j] = conns[j]
        /\ \A i \in 1..Len(list) :
              /\ conns'[n + i].request = list[i].request /\ conns'[n + i].answer = -1
              /\ conns'[n + i].status \in {"open", "lost", "dropped"}
              /\ conns'[n + i].status = "dropped" => full'
              /\ conns'[n + i].status = "open" <=> i <= Len(backlog') - Len(backlog)
        /\ full' \in BOOLEAN /\ (full => full')
        /\ backlog' \in Seq(Nat) /\ Len(backlog') <= Listen
        /\ Len(backlog') - Len(backlog) \in 0..Len(list)
        /\ \A b \in 1..Len(backlog) : backlog'[b] = backlog[b]
        /\ \A b \in (Len(backlog) + 1)..Len(backlog') : backlog'[b] = n + b - Len(backlog)

Fresh(list) ==
    /\ list \in Seq(Good) /\ Len(list) \in Nat
    /\ \A i \in 1..Len(list) : list[i] \in Good /\ list[i].status = "open" /\ list[i].answer = -1

LEMMA Connected ==
    ASSUME Shape, NEW list, Fresh(list), Connect(list)
    PROVE  MadeAll(list)
<1> DEFINE n == Len(conns)
           m == Len(list)
           used == Len(backlog)
           fits(i) == phase # "dead" /\ used + i <= Listen
           room == IF phase = "dead" THEN 0 ELSE IF fits(m) THEN m ELSE Listen - used
           without == IF phase = "dead" THEN "lost" ELSE "dropped"
           more == [i \in 1..room |-> n + i]
           fresh == [i \in 1..m |-> IF fits(i) THEN list[i] ELSE [list[i] EXCEPT !.status = without]]
<1>1. /\ n \in Nat /\ m \in Nat /\ used \in Nat /\ used <= Listen
      /\ conns \in Seq(Good) /\ backlog \in Seq(Nat)
    BY ConnsLen DEF Shape, Fresh
<1>2. conns' = conns \o fresh /\ backlog' = backlog \o more /\ n + m <= MaxConns
      /\ full' = (full \/ (phase # "dead" /\ ~fits(m)))
    BY DEF Connect, Made
<1>3. /\ room \in 0..m /\ used + room <= Listen
      /\ \A i \in 1..m : i <= room <=> fits(i)
    BY <1>1, BoundsAssumption
<1>0. /\ full' \in BOOLEAN /\ (full => full')
      /\ \A i \in 1..m : ~fits(i) /\ without = "dropped" => full'
    <2>1. full \in BOOLEAN
        BY DEF Shape
    <2>2. ASSUME NEW i \in 1..m, ~fits(i), phase # "dead" PROVE ~fits(m)
        BY <2>2, <1>1, BoundsAssumption
    <2> QED
        BY <2>1, <2>2, <1>2
<1>00. without \in {"lost", "dropped"}
    OBVIOUS
<1> HIDE DEF room, fits, without
<1>4. ASSUME NEW i \in 1..m
      PROVE  /\ fresh[i] \in Good /\ fresh[i].request = list[i].request /\ fresh[i].answer = -1
             /\ fresh[i].status \in {"open", "lost", "dropped"}
             /\ (fresh[i].status = "dropped" => full') /\ (fresh[i].status = "open" <=> i <= room)
    <2>1. list[i] \in Good /\ list[i].status = "open" /\ list[i].answer = -1
        BY DEF Fresh
    <2>2. CASE fits(i)
        BY <2>1, <2>2, <1>3
    <2>3. CASE ~fits(i)
        <3>1. fresh[i] = As(list[i], without)
            BY <2>3 DEF As
        <3>2. fresh[i] \in Good /\ fresh[i].status = without /\ fresh[i].answer = list[i].answer
              /\ fresh[i].request = list[i].request
            <4> HIDE DEF fresh
            <4> QED
                BY <2>1, <3>1, <1>00, Lost
        <3> QED
            BY <2>1, <2>3, <3>2, <1>0, <1>00, <1>3
    <2> QED
        BY <2>2, <2>3
<1>5. fresh \in Seq(Good) /\ Len(fresh) = m
    BY <1>1, <1>4
<1>6. more \in Seq(Nat) /\ Len(more) = room /\ \A i \in 1..room : more[i] = n + i
    BY <1>1, <1>3
<1> HIDE DEF fresh, more
<1>7. /\ conns' \in Seq(Good) /\ Len(conns') = n + m
      /\ \A i \in 1..(n + m) : conns'[i] = IF i <= n THEN conns[i] ELSE fresh[i - n]
    <2>1. /\ conns \o fresh \in Seq(Good) /\ Len(conns \o fresh) = Len(conns) + Len(fresh)
          /\ \A i \in 1..(Len(conns) + Len(fresh)) :
                (conns \o fresh)[i] = IF i <= Len(conns) THEN conns[i] ELSE fresh[i - Len(conns)]
        BY <1>1, <1>5, ConcatProperties
    <2> QED
        BY <2>1, <1>2, <1>5
<1>8. /\ backlog' \in Seq(Nat) /\ Len(backlog') = used + room
      /\ \A b \in 1..(used + room) : backlog'[b] = IF b <= used THEN backlog[b] ELSE more[b - used]
    BY <1>1, <1>2, <1>6, ConcatProperties
<1>9. \A j \in 1..n : conns'[j] = conns[j]
    BY <1>1, <1>7
<1>10. \A i \in 1..m : conns'[n + i] = fresh[i]
    <2>1. \A i \in 1..m : n + i \in 1..(n + m) /\ ~(n + i <= n) /\ n + i - n = i
        BY <1>1
    <2> QED
        BY <2>1, <1>7
<1>11. \A b \in 1..used : backlog'[b] = backlog[b]
    BY SMTT(30), <1>1, <1>3, <1>8
<1>12. \A b \in (used + 1)..(used + room) : backlog'[b] = n + b - used
    <2>1. \A b \in (used + 1)..(used + room) :
             b \in 1..(used + room) /\ ~(b <= used) /\ b - used \in 1..room /\ n + (b - used) = n + b - used
        BY <1>1, <1>3
    <2> QED
        BY <2>1, <1>6, <1>8
<1>13. Len(backlog') - used = room
    BY <1>1, <1>3, <1>8
<1>14. ASSUME NEW i \in 1..m
       PROVE  /\ conns'[n + i].request = list[i].request /\ conns'[n + i].answer = -1
              /\ conns'[n + i].status \in {"open", "lost", "dropped"}
              /\ conns'[n + i].status = "dropped" => full'
              /\ conns'[n + i].status = "open" <=> i <= Len(backlog') - used
    BY <1>4, <1>10, <1>13
<1>15. Len(backlog') <= Listen /\ Len(backlog') = used + room
    BY <1>3, <1>8
<1> QED
    BY <1>0, <1>2, <1>3, <1>7, <1>8, <1>9, <1>11, <1>12, <1>13, <1>14, <1>15 DEF MadeAll

\* Connections that have just been made disturb nothing.
LEMMA Extended ==
    ASSUME DashInv, NEW list, Fresh(list), MadeAll(list), UNCHANGED <<Server, shown>>,
           loading' = loading \/ (/\ loading' = loading \cup {Len(conns) + 1} /\ Len(list) = 2
                                  /\ list[1].request = "containers" /\ list[2].request = "images"),
           calls' \in SUBSET (1..Len(conns')),
           visits' = visits \/ (/\ visits' = visits \cup {Len(conns) + 1} /\ Len(list) = 1
                                /\ list[1].request \notin Lists)
    PROVE  DashInv'
<1> DEFINE n == Len(conns)
           m == Len(list)
           used == Len(backlog)
<1>1. serving' = serving /\ phase' = phase /\ world' = world /\ shown' = shown
      /\ full' \in BOOLEAN /\ (full => full')
    BY DEF Server, MadeAll
<1>2. Shape /\ Queue /\ Heard /\ Answers /\ Pages /\ (~full => Line /\ Order)
    BY DEF DashInv
<1>3. /\ n \in Nat /\ m \in Nat /\ used \in Nat
      /\ conns' \in Seq(Good) /\ Len(conns') = n + m /\ Len(conns') <= MaxConns
      /\ \A j \in 1..n : conns'[j] = conns[j]
      /\ backlog' \in Seq(Nat) /\ Len(backlog') <= Listen
      /\ Len(backlog') - used \in 0..m
      /\ \A b \in 1..used : backlog'[b] = backlog[b]
      /\ \A b \in (used + 1)..Len(backlog') : backlog'[b] = n + b - used
    BY <1>2, ConnsLen DEF MadeAll, Fresh
<1>4. ASSUME NEW j \in (n + 1)..(n + m)
      PROVE  /\ j - n \in 1..m /\ conns'[j].answer = -1 /\ conns'[j].request = list[j - n].request
             /\ conns'[j].status \in {"open", "lost", "dropped"}
             /\ conns'[j].status = "dropped" => full'
             /\ conns'[j].status = "open" <=> j - n <= Len(backlog') - used
    <2>1. j - n \in 1..m /\ n + (j - n) = j
        BY <1>3
    <2> QED
        BY <2>1 DEF MadeAll
<1>5. Len(backlog') \in Nat /\ Len(backlog') >= used
    BY <1>3, LenProperties
<1>6. Len(conns') \in Nat /\ \A j \in 1..Len(conns') : j \in 1..n \/ j \in (n + 1)..(n + m)
    BY <1>3
<1>7. loading' \subseteq 1..(Len(conns') - 1) /\ visits' \subseteq 1..Len(conns')
    <2>1. loading \subseteq 1..(n - 1) /\ visits \subseteq 1..n
        BY <1>2 DEF Shape
    <2>2. loading \subseteq 1..(Len(conns') - 1) /\ visits \subseteq 1..Len(conns')
        BY <2>1, <1>3
    <2>3. m = 2 => n + 1 \in 1..(Len(conns') - 1)
        BY <1>3
    <2>4. m = 1 => n + 1 \in 1..Len(conns')
        BY <1>3
    <2> QED
        BY <2>2, <2>3, <2>4
<1>8. Shape'
    <2>1. serving' \in 0..Len(conns')
        BY <1>1, <1>2, <1>3 DEF Shape
    <2> QED
        BY <2>1, <1>1, <1>2, <1>3, <1>7 DEF Shape
<1>9. Queue'
    <2>1. \A b \in 1..Len(backlog') : b \in 1..used \/ b \in (used + 1)..Len(backlog')
        BY <1>3, <1>5
    <2>2. \A b \in 1..used : backlog[b] \in 1..n /\ backlog[b] # serving
        BY <1>2 DEF Queue
    <2>3. \A b \in (used + 1)..Len(backlog') : backlog'[b] \in (n + 1)..(n + m) /\ serving < backlog'[b]
        <3>1. serving \in 0..n
            BY <1>2 DEF Shape
        <3>2. ASSUME NEW b \in (used + 1)..Len(backlog')
              PROVE  backlog'[b] \in (n + 1)..(n + m) /\ serving < backlog'[b]
            <4>1. backlog'[b] = n + b - used
                BY <1>3
            <4>2. b \in Int /\ b > used /\ b <= Len(backlog') /\ Len(backlog') - used <= m
                BY <1>3, <1>5
            <4>3. n + b - used \in (n + 1)..(n + m) /\ serving < n + b - used
                BY SMTT(30), <4>2, <3>1, <1>3, <1>5
            <4> QED
                BY <4>1, <4>3
        <3> QED
            BY <3>2
    <2>8. serving \in 0..n
        BY <1>2 DEF Shape
    <2>4. ASSUME NEW b \in 1..Len(backlog')
          PROVE  backlog'[b] \in 1..Len(conns') /\ backlog'[b] # serving'
        <3>1. CASE b \in 1..used
            <4>1. backlog'[b] = backlog[b]
                BY <3>1, <1>3
            <4> QED
                BY <4>1, <3>1, <2>2, <1>1, <1>3
        <3>2. CASE b \in (used + 1)..Len(backlog')
            <4>1. backlog'[b] \in (n + 1)..(n + m) /\ serving < backlog'[b]
                BY <3>2, <2>3
            <4> QED
                BY SMTT(30), <4>1, <2>8, <1>1, <1>3
        <3> QED
            BY <3>1, <3>2, <2>1
    <2>11. \A i \in 1..n, j \in (n + 1)..(n + m) : i # j /\ i < j
        BY <1>3
    <2>5. ASSUME NEW b \in 1..Len(backlog'), NEW d \in 1..Len(backlog'), b < d
          PROVE  backlog'[b] # backlog'[d]
        <3>1. CASE b \in 1..used /\ d \in 1..used
            BY <3>1, <2>5, <1>2, <1>3 DEF Queue
        <3>2. CASE b \in 1..used /\ d \in (used + 1)..Len(backlog')
            <4>1. backlog'[b] \in 1..n /\ backlog'[d] \in (n + 1)..(n + m)
                BY <3>2, <2>2, <2>3, <1>3
            <4> QED
                BY <4>1, <2>11
        <3>3. CASE b \in (used + 1)..Len(backlog') /\ d \in (used + 1)..Len(backlog')
            <4>1. backlog'[b] = n + b - used /\ backlog'[d] = n + d - used
                BY <3>3, <1>3
            <4> QED
                BY <4>1, <2>5, <1>3, <1>5
        <3>4. ASSUME b \in (used + 1)..Len(backlog'), d \in 1..used PROVE FALSE
            <4>1. used < b /\ d <= used /\ b \in Int /\ d \in Int
                BY <3>4, <1>3, <1>5
            <4> QED
                BY <4>1, <2>5, <1>3
        <3> QED
            BY <3>1, <3>2, <3>3, <3>4, <2>1
    <2>6. ASSUME NEW k \in 1..n PROVE Queued(k)' <=> Queued(k)
        <3>1. ASSUME NEW b \in 1..Len(backlog'), backlog'[b] = k PROVE Queued(k)
            <4>1. b \in 1..used
                BY SMTT(30), <3>1, <2>1, <2>3, <1>3
            <4> QED
                BY <4>1, <3>1, <1>3 DEF Queued
        <3>2. ASSUME NEW b \in 1..used, backlog[b] = k PROVE Queued(k)'
            <4>1. b \in 1..Len(backlog') /\ backlog'[b] = k
                BY SMTT(30), <3>2, <1>3, <1>5
            <4> QED
                BY <4>1 DEF Queued
        <3> QED
            BY <3>1, <3>2 DEF Queued
    <2>7. ASSUME NEW k \in (n + 1)..(n + m) PROVE Queued(k)' <=> k - n <= Len(backlog') - used
        <3>1. ASSUME NEW b \in 1..Len(backlog'), backlog'[b] = k PROVE k - n <= Len(backlog') - used
            <4>1. b \in (used + 1)..Len(backlog')
                <5>1. b \in 1..used => backlog'[b] \in 1..n
                    BY <2>2, <1>3
                <5>2. k \notin 1..n
                    BY <1>3
                <5> QED
                    BY <5>1, <5>2, <3>1, <2>1
            <4>2. k = n + b - used
                BY <4>1, <3>1, <1>3
            <4> QED
                BY <4>1, <4>2, <1>3, <1>5
        <3>2. ASSUME k - n <= Len(backlog') - used PROVE Queued(k)'
            <4> DEFINE b == used + (k - n)
            <4>1. b \in (used + 1)..Len(backlog') /\ b \in 1..Len(backlog') /\ n + b - used = k
                BY <3>2, <1>3, <1>5
            <4>2. backlog'[b] = k
                BY <4>1, <1>3
            <4> HIDE DEF b
            <4> QED
                BY <4>1, <4>2 DEF Queued
        <3> QED
            BY <3>1, <3>2 DEF Queued
    <2>9. ASSUME NEW k \in 1..Len(conns')
          PROVE  conns'[k].status = "open" <=> k = serving' \/ Queued(k)'
        <3>1. CASE k \in 1..n
            <4>1. conns'[k] = conns[k] /\ serving' = serving /\ (Queued(k)' <=> Queued(k))
                BY <3>1, <2>6, <1>1, <1>3
            <4>2. conns[k].status = "open" <=> k = serving \/ Queued(k)
                BY <3>1, <1>2 DEF Queue
            <4> QED
                BY <4>1, <4>2
        <3>2. CASE k \in (n + 1)..(n + m)
            <4>1. k # serving'
                BY <3>2, <2>8, <1>1, <1>3
            <4> QED
                BY <4>1, <3>2, <2>7, <1>4
        <3> QED
            BY <3>1, <3>2, <1>6
    <2>10. ASSUME NEW k \in 1..Len(conns'), conns'[k].status = "dropped" PROVE full'
        <3>1. CASE k \in 1..n
            <4>1. conns'[k] = conns[k]
                BY <3>1, <1>3
            <4> QED
                BY <4>1, <3>1, <2>10, <1>1, <1>2 DEF Queue
        <3>2. CASE k \in (n + 1)..(n + m)
            BY <3>2, <2>10, <1>4
        <3> QED
            BY <3>1, <3>2, <1>6
    <2> QED
        BY <2>4, <2>5, <2>9, <2>10 DEF Queue
<1>10. Heard'
    <2>1. serving # None => serving \in 1..n
        BY <1>2, <1>3 DEF Shape, None
    <2> QED
        BY <2>1, <1>1, <1>2, <1>3 DEF Heard
<1>11. world.containers \in Nat /\ world.images \in Nat
    BY <1>2 DEF Shape
<1>12. Answers'
    <2>1. ASSUME NEW k \in 1..Len(conns')
          PROVE  /\ conns'[k].answer # -1 => conns'[k].status = "answered" \/ k = serving'
                 /\ conns'[k].request = "containers" => conns'[k].answer <= world'.containers
                 /\ conns'[k].request = "images" => conns'[k].answer <= world'.images
        <3>1. CASE k \in 1..n
            BY <3>1, <1>1, <1>2, <1>3 DEF Answers
        <3>2. CASE k \in (n + 1)..(n + m)
            BY SMTT(30), <3>2, <1>1, <1>4, <1>11
        <3> QED
            BY <3>1, <3>2, <1>6
    <2> QED
        BY <2>1, <1>1, <1>2 DEF Answers
<1>13. \A l \in loading : l \in 1..n /\ l + 1 \in 1..n /\ conns'[l] = conns[l] /\ conns'[l + 1] = conns[l + 1]
    BY <1>2, <1>3, LoadingIn
<1>14. ASSUME NEW l \in loading', l \notin loading
       PROVE  /\ l = n + 1 /\ l \in (n + 1)..(n + m) /\ l + 1 \in (n + 1)..(n + m)
              /\ conns'[l].request = "containers" /\ conns'[l + 1].request = "images"
              /\ conns'[l].answer = -1 /\ conns'[l + 1].answer = -1
              /\ conns'[l].status # "over" /\ conns'[l + 1].status # "over"
    <2>1. l = n + 1 /\ m = 2 /\ list[1].request = "containers" /\ list[2].request = "images"
        BY <1>14
    <2>2. l \in (n + 1)..(n + m) /\ l + 1 \in (n + 1)..(n + m) /\ l - n = 1 /\ l + 1 - n = 2
        BY <2>1, <1>3
    <2> QED
        BY <2>1, <2>2, <1>4
<1>15. Pages'
    <2>1. ASSUME NEW l \in loading'
          PROVE  /\ conns'[l].request = "containers" /\ conns'[l + 1].request = "images"
                 /\ conns'[l].status # "over" /\ conns'[l + 1].status # "over"
        BY <1>2, <1>13, <1>14 DEF Pages
    <2>2. ASSUME NEW k \in visits' PROVE conns'[k].request \notin Lists
        <3>1. CASE k \in visits
            <4>1. k \in 1..n
                BY <3>1, <1>2 DEF Shape
            <4> QED
                BY <4>1, <3>1, <1>2, <1>3 DEF Pages
        <3>2. CASE k \notin visits
            <4>1. k = n + 1 /\ m = 1 /\ list[1].request \notin Lists
                BY <3>2
            <4>2. k \in (n + 1)..(n + m) /\ k - n = 1
                BY <4>1, <1>3
            <4> QED
                BY <4>1, <4>2, <1>4
        <3> QED
            BY <3>1, <3>2
    <2> QED
        BY <2>1, <2>2 DEF Pages
<1>17. ASSUME ~full' PROVE Line'
    <2>1. Line
        BY <1>1, <1>2, <1>17
    <2>2. \A b \in 1..Len(backlog') : b \in 1..used \/ b \in (used + 1)..Len(backlog')
        BY <1>3, <1>5
    <2>3. \A b \in 1..used : backlog[b] \in 1..n /\ serving < backlog[b]
        BY <2>1, <1>2 DEF Queue, Line
    <2>4. serving \in 0..n
        BY <1>2 DEF Shape
    <2>5. ASSUME NEW b \in (used + 1)..Len(backlog')
          PROVE  backlog'[b] \in (n + 1)..(n + m) /\ serving < backlog'[b]
        <3>1. backlog'[b] = n + b - used
            BY <1>3
        <3>2. b \in Int /\ b > used /\ b <= Len(backlog') /\ Len(backlog') - used <= m
            BY <1>3, <1>5
        <3>3. n + b - used \in (n + 1)..(n + m) /\ serving < n + b - used
            BY <3>2, <2>4, <1>3, <1>5
        <3> QED
            BY <3>1, <3>3
    <2>6. \A b \in 1..Len(backlog') : serving' < backlog'[b]
        BY <2>2, <2>3, <2>5, <1>1, <1>3
    <2>9. \A i \in 1..n, j \in (n + 1)..(n + m) : i < j
        BY <1>3
    <2>7. ASSUME NEW b \in 1..Len(backlog'), NEW d \in 1..Len(backlog'), b < d
          PROVE  backlog'[b] < backlog'[d]
        <3>1. CASE b \in 1..used /\ d \in 1..used
            BY <3>1, <2>7, <2>1, <1>3 DEF Line
        <3>2. CASE b \in 1..used /\ d \in (used + 1)..Len(backlog')
            <4>1. backlog'[b] \in 1..n /\ backlog'[d] \in (n + 1)..(n + m)
                BY <3>2, <2>3, <2>5, <1>3
            <4> QED
                BY <4>1, <2>9
        <3>3. CASE b \in (used + 1)..Len(backlog') /\ d \in (used + 1)..Len(backlog')
            <4>1. backlog'[b] = n + b - used /\ backlog'[d] = n + d - used
                BY <3>3, <1>3
            <4> QED
                BY <4>1, <2>7, <1>3, <1>5
        <3>4. ASSUME b \in (used + 1)..Len(backlog'), d \in 1..used PROVE FALSE
            <4>1. used < b /\ d <= used /\ b \in Int /\ d \in Int
                BY <3>4, <1>3, <1>5
            <4> QED
                BY <4>1, <2>7, <1>3
        <3> QED
            BY <3>1, <3>2, <3>3, <3>4, <2>2
    <2>8. ASSUME NEW j \in 1..Len(conns'), NEW k \in 1..Len(conns'),
                 conns'[j].status = "answered", conns'[k].status = "open"
          PROVE  j < k
        <3>1. j \in 1..n
            BY <2>8, <1>4, <1>6
        <3>2. CASE k \in 1..n
            BY <3>1, <3>2, <2>8, <2>1, <1>3 DEF Line
        <3>3. CASE k \in (n + 1)..(n + m)
            BY <3>1, <3>3, <1>3
        <3> QED
            BY <3>2, <3>3, <1>6
    <2> QED
        BY <2>6, <2>7, <2>8 DEF Line
<1>16. ASSUME ~full' PROVE Order'
    <2>0. Order
        BY <1>1, <1>2, <1>16
    <2>1. \A l \in loading' \ loading : conns'[l].answer = -1 /\ conns'[l + 1].answer = -1
        BY <1>14
    <2>2. ASSUME NEW l \in loading', NEW k \in loading', l < k
          PROVE  /\ Newer(conns'[l].answer, conns'[k].answer)
                 /\ Newer(conns'[l + 1].answer, conns'[k + 1].answer)
        <3>1. CASE l \in loading /\ k \in loading
            BY <3>1, <2>0, <2>2, <1>13 DEF Order
        <3>2. CASE l \notin loading \/ k \notin loading
            BY <3>2, <2>1 DEF Newer
        <3> QED
            BY <3>1, <3>2
    <2>3. ASSUME NEW l \in loading'
          PROVE  /\ Newer(shown'["containers"], conns'[l].answer)
                 /\ Newer(shown'["images"], conns'[l + 1].answer)
        <3>1. CASE l \in loading
            BY <3>1, <2>0, <1>1, <1>13 DEF Order
        <3>2. CASE l \notin loading
            BY <3>2, <2>1 DEF Newer
        <3> QED
            BY <3>1, <3>2
    <2> QED
        BY <2>2, <2>3 DEF Order
<1> QED
    BY <1>8, <1>9, <1>10, <1>12, <1>15, <1>16, <1>17 DEF DashInv

LEMMA NewConnection ==
    ASSUME NEW request \in Requests, NEW unread \in Seq(Parts), NEW unsent \in Seq(Parts),
           unread \o unsent \in Rests,
           request \in Lists => unsent = <<>> /\ unread \in PageRests
    PROVE  LET c == Connection(request, unread, unsent)
           IN  c \in Good /\ c.status = "open" /\ c.answer = -1 /\ c.request = request
BY DEF Connection, Good, Rest, Status

LEMMA FreshOne ==
    ASSUME NEW c \in Good, c.status = "open", c.answer = -1
    PROVE  Fresh(<<c>>) /\ Len(<<c>>) = 1 /\ <<c>>[1] = c
BY DEF Fresh

LEMMA FreshLoad ==
    /\ Fresh(Load) /\ Len(Load) = 2
    /\ Load[1].request = "containers" /\ Load[2].request = "images"
<1>1. Plain \in Seq(Parts) /\ <<>> \in Seq(Parts) /\ Plain \o <<>> = Plain
    BY DEF Plain, Parts
<1>2. Plain \in Rests /\ Plain \in PageRests
    BY DEF Rests, PageRests
<1>3. "containers" \in Requests /\ "images" \in Requests
    BY DEF Requests, Lists
<1> DEFINE a == Connection("containers", Plain, <<>>)
           b == Connection("images", Plain, <<>>)
<1>4. /\ a \in Good /\ a.status = "open" /\ a.answer = -1 /\ a.request = "containers"
      /\ b \in Good /\ b.status = "open" /\ b.answer = -1 /\ b.request = "images"
    <2>1. Plain \o <<>> \in Rests
        BY <1>1, <1>2
    <2>2. a \in Good /\ a.status = "open" /\ a.answer = -1 /\ a.request = "containers"
        BY <2>1, <1>1, <1>2, <1>3, NewConnection
    <2>3. b \in Good /\ b.status = "open" /\ b.answer = -1 /\ b.request = "images"
        BY <2>1, <1>1, <1>2, <1>3, NewConnection
    <2> QED
        BY <2>2, <2>3
<1>5. Load = <<a, b>>
    BY DEF Load
<1> HIDE DEF a, b
<1>6. Load \in Seq(Good) /\ Len(Load) = 2 /\ Load[1] = a /\ Load[2] = b
    BY <1>4, <1>5
<1> QED
    BY <1>4, <1>6 DEF Fresh

LEMMA LoadAllStep == ASSUME DashInv, LoadAll PROVE DashInv'
<1>1. Shape /\ Fresh(Load) /\ Connect(Load)
    BY FreshLoad DEF DashInv, LoadAll
<1>2. MadeAll(Load)
    BY <1>1, Connected
<1>3. calls' \in SUBSET (1..Len(conns'))
    BY <1>1, <1>2, ConnsLen, FreshLoad DEF LoadAll, Shape, MadeAll
<1>4. /\ UNCHANGED <<Server, shown>> /\ visits' = visits
      /\ loading' = loading \cup {Len(conns) + 1} /\ Len(Load) = 2
      /\ Load[1].request = "containers" /\ Load[2].request = "images"
    BY FreshLoad DEF LoadAll
<1> QED
    BY <1>1, <1>2, <1>3, <1>4, Extended

LEMMA CallStep == ASSUME DashInv, NEW o \in Operations, Call(o) PROVE DashInv'
<1> DEFINE c == Connection(o, Plain, <<>>)
           list == <<c>>
<1>1. Plain \in Seq(Parts) /\ <<>> \in Seq(Parts) /\ Plain \o <<>> = Plain /\ Plain \in Rests
    BY DEF Plain, Parts, Rests, PageRests
<1>2. o \in Requests /\ o \notin Lists
    BY DEF Requests, Lists, Operations
<1>3. c \in Good /\ c.status = "open" /\ c.answer = -1
    <2>1. Plain \o <<>> \in Rests
        BY <1>1
    <2> QED
        BY <1>1, <1>2, <2>1, NewConnection
<1>4. /\ Connect(list) /\ calls' = calls \cup {Len(conns) + 1}
      /\ UNCHANGED <<Server, shown>> /\ loading' = loading /\ visits' = visits
    BY DEF Call
<1> HIDE DEF c
<1>5. Fresh(list) /\ Len(list) = 1
    BY <1>3, FreshOne
<1> HIDE DEF list
<1>6. Shape /\ MadeAll(list)
    BY <1>4, <1>5, Connected DEF DashInv
<1>7. calls' \in SUBSET (1..Len(conns'))
    <2>1. Len(conns) \in Nat /\ Len(conns') = Len(conns) + 1
        BY <1>5, <1>6, ConnsLen DEF MadeAll
    <2>2. calls \subseteq 1..Len(conns)
        BY <1>6 DEF Shape
    <2>3. calls' = calls \cup {Len(conns) + 1}
        BY <1>4
    <2>4. 1..Len(conns) \subseteq 1..Len(conns') /\ Len(conns) + 1 \in 1..Len(conns')
        BY <2>1
    <2> QED
        BY <2>2, <2>3, <2>4
<1> QED
    BY <1>4, <1>5, <1>6, <1>7, Extended

\* What visitors send at once.
Odd == {Bad, Huge, <<>>} \cup Junk

LEMMA OddRests == \A parts \in Odd : parts \in Seq(Parts) /\ parts \in Rests
<1>1. /\ Bad \in Seq(Parts) /\ Huge \in Seq(Parts) /\ <<>> \in Seq(Parts)
      /\ <<"junk">> \in Seq(Parts) /\ <<"line", "junk">> \in Seq(Parts)
    BY DEF Bad, Huge, Parts
<1>2. \A parts \in Odd : \/ parts = Bad \/ parts = Huge \/ parts = <<>>
                          \/ parts = <<"junk">> \/ parts = <<"line", "junk">>
    BY DEF Odd, Junk
<1>3. /\ Bad \in Rests /\ Huge \in Rests /\ <<>> \in Rests
      /\ <<"junk">> \in Rests /\ <<"line", "junk">> \in Rests
    BY Zenon DEF Rests, PageRests
<1> QED
    BY <1>1, <1>2, <1>3, Zenon

LEMMA VisitStep == ASSUME DashInv, Visit PROVE DashInv'
<1>1. /\ <<>> \in Seq(Parts) /\ Slow \in Seq(Parts) /\ <<>> \o Slow = Slow /\ Slow \in Rests
    BY DEF Slow, Parts, Rests, PageRests
<1>2. "stop" \in Requests /\ "other" \in Requests /\ "stop" \notin Lists /\ "other" \notin Lists
    BY DEF Requests, Lists, Operations
<1>3. \E c \in Good : /\ c.status = "open" /\ c.answer = -1 /\ c.request \notin Lists
                      /\ Connect(<<c>>)
    <2>1. CASE Connect(<<Connection("stop", <<>>, Slow)>>)
        <3> DEFINE c == Connection("stop", <<>>, Slow)
        <3>1. c \in Good /\ c.status = "open" /\ c.answer = -1 /\ c.request = "stop"
            <4>1. <<>> \o Slow \in Rests
                BY <1>1
            <4> QED
                BY <4>1, <1>1, <1>2, NewConnection
        <3> HIDE DEF c
        <3> QED
            BY <3>1, <1>2, <2>1 DEF c
    <2>2. ASSUME NEW parts \in Odd, Connect(<<Connection("other", parts, <<>>)>>)
          PROVE  \E c \in Good : /\ c.status = "open" /\ c.answer = -1 /\ c.request \notin Lists
                                 /\ Connect(<<c>>)
        <3> DEFINE c == Connection("other", parts, <<>>)
        <3>1. parts \in Seq(Parts) /\ parts \in Rests
            BY OddRests
        <3>2. parts \o <<>> = parts
            BY <3>1
        <3>3. parts \o <<>> \in Rests
            BY <3>1, <3>2
        <3>4. c \in Good /\ c.status = "open" /\ c.answer = -1 /\ c.request = "other"
            BY <3>1, <3>3, <1>1, <1>2, NewConnection
        <3> HIDE DEF c
        <3> QED
            BY <3>4, <1>2, <2>2 DEF c
    <2> QED
        BY <2>1, <2>2 DEF Visit, Odd
<1>4. PICK c \in Good : /\ c.status = "open" /\ c.answer = -1 /\ c.request \notin Lists
                        /\ Connect(<<c>>)
    BY <1>3
<1> DEFINE list == <<c>>
<1>5. Fresh(list) /\ Len(list) = 1 /\ list[1].request \notin Lists
    BY <1>4, FreshOne
<1> HIDE DEF list
<1>6. Shape /\ Connect(list)
    BY <1>4 DEF DashInv, list
<1>7. MadeAll(list)
    BY <1>5, <1>6, Connected
<1>8. /\ visits' = visits \cup {Len(conns) + 1} /\ UNCHANGED <<Server, shown>>
      /\ loading' = loading /\ calls' = calls
    BY DEF Visit
<1>9. calls' \in SUBSET (1..Len(conns'))
    BY <1>5, <1>6, <1>7, <1>8, ConnsLen DEF Shape, MadeAll
<1> QED
    BY <1>5, <1>7, <1>8, <1>9, Extended

LEMMA CalledStep == ASSUME DashInv, NEW k \in 1..Len(conns), Called(k) PROVE DashInv'
<1>1. Shape /\ Settled(k) /\ calls' = calls \ {k} /\ UNCHANGED <<Server, visits, shown>>
    BY DEF DashInv, Called
<1>2. CASE conns[k].request = "pull" /\ conns[k].answer = -1
    <2>1. conns' = [conns EXCEPT ![k] = Over] /\ UNCHANGED <<backlog, loading, full>>
        BY <1>2 DEF Called
    <2> QED
        BY <1>1, <1>2, <2>1, PullFailed
<1>3. CASE ~(conns[k].request = "pull" /\ conns[k].answer = -1)
    <2>1. Fresh(Load) /\ Connect(Load) /\ loading' = loading \cup {Len(conns) + 1}
        BY <1>3, FreshLoad DEF Called
    <2>2. MadeAll(Load)
        BY <1>1, <2>1, Connected
    <2>3. calls' \in SUBSET (1..Len(conns'))
        BY <1>1, <2>2, ConnsLen, FreshLoad DEF Shape, MadeAll
    <2>4. /\ visits' = visits /\ Len(Load) = 2
          /\ Load[1].request = "containers" /\ Load[2].request = "images"
        BY <1>1, FreshLoad
    <2> QED
        BY <1>1, <2>1, <2>2, <2>3, <2>4, Extended
<1> QED
    BY <1>2, <1>3

-----------------------------------------------------------------------------
\* A connection that has found no room, and its record afterwards.
LEMMA DroppedConn ==
    ASSUME DashInv, NEW k \in 1..Len(conns), conns[k].status = "dropped"
    PROVE  /\ full = TRUE /\ k # serving /\ ~Queued(k) /\ conns[k].answer = -1
           /\ serving # None => serving \in 1..Len(conns)
<1>1. Shape /\ Queue /\ Answers
    BY DEF DashInv
<1>2. full \in BOOLEAN /\ full
    BY <1>1 DEF Shape, Queue
<1>3. k # serving /\ ~Queued(k)
    BY <1>1 DEF Queue
<1>4. serving # None => serving \in 1..Len(conns)
    BY <1>1, ConnsLen DEF Shape, None
<1> QED
    BY <1>1, <1>2, <1>3, <1>4 DEF Answers

\* Everything but the queue, when only that connection has changed.
LEMMA OtherwiseSame ==
    ASSUME DashInv, NEW k \in 1..Len(conns), conns[k].status = "dropped", NEW r \in Good,
           conns' = [conns EXCEPT ![k] = r], UNCHANGED <<Server, Page>>, r.answer = -1,
           IF k \in visits THEN r.request \notin Lists ELSE r.request = conns[k].request /\ r.status # "over",
           backlog' \in Seq(Nat), Len(backlog') <= Listen, Queue'
    PROVE  DashInv'
<1>1. /\ serving' = serving /\ phase' = phase /\ world' = world /\ loading' = loading
      /\ calls' = calls /\ visits' = visits /\ shown' = shown /\ full' = full
    BY DEF Server, Page
<1>2. Shape /\ Queue /\ Heard /\ Answers /\ Pages
    BY DEF DashInv
<1>3. /\ full = TRUE /\ k # serving /\ conns[k].answer = -1
      /\ serving # None => serving \in 1..Len(conns)
    BY DroppedConn
<1>4. /\ conns' \in Seq(Good) /\ Len(conns') = Len(conns)
      /\ \A j \in 1..Len(conns) : conns'[j] = IF j = k THEN r ELSE conns[j]
    BY <1>2, OneChanged
<1>5. Shape'
    BY <1>1, <1>2, <1>4 DEF Shape
<1>6. Heard'
    BY <1>1, <1>2, <1>3, <1>4 DEF Heard
<1>7. world.containers \in Nat /\ world.images \in Nat
    BY <1>2 DEF Shape
<1>8. Answers'
    <2>1. ASSUME NEW j \in 1..Len(conns)
          PROVE  /\ conns'[j].answer # -1 => conns'[j].status = "answered" \/ j = serving
                 /\ conns'[j].request = "containers" => conns'[j].answer <= world.containers
                 /\ conns'[j].request = "images" => conns'[j].answer <= world.images
        <3>1. CASE j = k
            BY <3>1, <1>4, <1>7
        <3>2. CASE j # k
            BY <3>2, <1>2, <1>4 DEF Answers
        <3> QED
            BY <3>1, <3>2
    <2> QED
        BY <2>1, <1>1, <1>2, <1>4 DEF Answers
<1>9. \A l \in loading : /\ l \in 1..Len(conns) /\ l + 1 \in 1..Len(conns)
                         /\ l \notin visits /\ l + 1 \notin visits
    BY <1>2, LoadingIn DEF Pages, Lists
<1>10. Pages'
    <2>1. ASSUME NEW l \in loading
          PROVE  /\ conns'[l].request = "containers" /\ conns'[l + 1].request = "images"
                 /\ conns'[l].status # "over" /\ conns'[l + 1].status # "over"
        <3>1. \A j \in {l, l + 1} : conns'[j].request = conns[j].request
                                   /\ (conns[j].status # "over" => conns'[j].status # "over")
            BY <1>4, <1>9
        <3> QED
            BY <3>1, <1>2 DEF Pages
    <2>2. ASSUME NEW j \in visits PROVE conns'[j].request \notin Lists
        <3>1. j \in 1..Len(conns)
            BY <1>2 DEF Shape
        <3> QED
            BY <3>1, <1>2, <1>4 DEF Pages
    <2> QED
        BY <2>1, <2>2, <1>1 DEF Pages
<1> QED
    BY <1>1, <1>3, <1>5, <1>6, <1>8, <1>10 DEF DashInv

LEMMA RetryStep == ASSUME DashInv, NEW k \in 1..Len(conns), Retry(k) PROVE DashInv'
<1> DEFINE r == As(conns[k], "open")
<1>1. /\ conns[k].status = "dropped" /\ Len(backlog) < Listen
      /\ conns' = [conns EXCEPT ![k] = r] /\ backlog' = Append(backlog, k)
      /\ UNCHANGED <<Server, Page>> /\ serving' = serving /\ visits' = visits /\ full' = full
    BY DEF Retry, Server, Page, As
<1>2. Shape /\ Queue /\ Pages
    BY DEF DashInv
<1>3. full = TRUE /\ k # serving /\ ~Queued(k) /\ conns[k].answer = -1
    BY <1>1, DroppedConn
<1>4. conns[k] \in Good
    BY <1>2, GoodConn
<1>5. r \in Good /\ r.status = "open" /\ r.answer = -1 /\ r.request = conns[k].request
    BY <1>3, <1>4, Lost
<1> HIDE DEF r
<1>6. /\ Len(conns') = Len(conns)
      /\ \A j \in 1..Len(conns) : conns'[j] = IF j = k THEN r ELSE conns[j]
    BY <1>1, <1>2, <1>5, OneChanged
<1> DEFINE n == Len(backlog)
<1>7. backlog \in Seq(Nat) /\ n \in Nat /\ k \in Nat
    BY <1>2, ConnsLen DEF Shape
<1>8. /\ backlog' \in Seq(Nat) /\ Len(backlog') = n + 1 /\ backlog'[n + 1] = k
      /\ \A b \in 1..n : backlog'[b] = backlog[b]
    BY <1>1, <1>7, AppendProperties
<1>9. \A b \in 1..n : backlog[b] # k
    BY <1>3 DEF Queued
<1>10. \A b \in 1..(n + 1) : b \in 1..n \/ b = n + 1
    BY <1>7
<1>11. Len(backlog') <= Listen
    BY <1>1, <1>7, <1>8, BoundsAssumption
<1>12. \A j : Queued(j)' <=> Queued(j) \/ j = k
    <2>1. ASSUME NEW j, NEW b \in 1..(n + 1), backlog'[b] = j PROVE Queued(j) \/ j = k
        BY <2>1, <1>8, <1>10 DEF Queued
    <2>2. ASSUME NEW j, NEW b \in 1..n, backlog[b] = j PROVE Queued(j)'
        <3>1. b \in 1..(n + 1)
            BY <1>7
        <3> QED
            BY <3>1, <2>2, <1>8 DEF Queued
    <2>3. Queued(k)'
        <3>1. n + 1 \in 1..(n + 1)
            BY <1>7
        <3> QED
            BY <3>1, <1>8 DEF Queued
    <2> QED
        BY <2>1, <2>2, <2>3, <1>8 DEF Queued
<1>13. Queue'
    <2>1. \A b \in 1..Len(backlog') : backlog'[b] \in 1..Len(conns') /\ backlog'[b] # serving'
        BY <1>1, <1>2, <1>3, <1>6, <1>8, <1>10 DEF Queue
    <2>2. ASSUME NEW a \in 1..(n + 1), NEW b \in 1..(n + 1), a < b PROVE backlog'[a] # backlog'[b]
        <3>1. a \in 1..n
            BY <2>2, <1>7
        <3>2. CASE b \in 1..n
            BY <3>1, <3>2, <2>2, <1>2, <1>8 DEF Queue
        <3>3. CASE b = n + 1
            BY <3>1, <3>3, <1>8, <1>9
        <3> QED
            BY <3>2, <3>3, <1>10
    <2>3. \A j \in 1..Len(conns') : conns'[j].status = "open" <=> j = serving' \/ Queued(j)'
        BY <1>1, <1>2, <1>5, <1>6, <1>12 DEF Queue
    <2>4. \A j \in 1..Len(conns') : conns'[j].status = "dropped" => full'
        BY <1>1, <1>3
    <2> QED
        BY <2>1, <2>2, <2>3, <2>4, <1>8 DEF Queue
<1>14. IF k \in visits THEN r.request \notin Lists ELSE r.request = conns[k].request /\ r.status # "over"
    BY <1>2, <1>5 DEF Pages
<1> QED
    BY <1>1, <1>5, <1>8, <1>11, <1>13, <1>14, OtherwiseSame

LEMMA GiveUpStep == ASSUME DashInv, NEW k \in 1..Len(conns), GiveUp(k) PROVE DashInv'
<1> DEFINE r == IF k \in visits THEN Over ELSE As(conns[k], "lost")
<1>1. /\ conns[k].status = "dropped" /\ conns' = [conns EXCEPT ![k] = r]
      /\ backlog' = backlog /\ UNCHANGED <<Server, Page>> /\ serving' = serving /\ full' = full
    BY DEF GiveUp, Server, Page, As
<1>2. Shape /\ Queue /\ Pages
    BY DEF DashInv
<1>3. full = TRUE /\ k # serving /\ ~Queued(k) /\ conns[k].answer = -1
    BY <1>1, DroppedConn
<1>4. conns[k] \in Good
    BY <1>2, GoodConn
<1>5. /\ r \in Good /\ r.status \in {"lost", "over"} /\ r.answer = -1
      /\ IF k \in visits THEN r.request \notin Lists ELSE r.request = conns[k].request /\ r.status # "over"
    <2>1. CASE k \in visits
        <3>1. r = Over
            BY <2>1
        <3> HIDE DEF r
        <3> QED
            BY <2>1, <3>1, OverGood DEF Lists
    <2>2. CASE k \notin visits
        <3>1. r = As(conns[k], "lost")
            BY <2>2
        <3> HIDE DEF r
        <3> QED
            BY <2>2, <3>1, <1>3, <1>4, Lost
    <2> QED
        BY <2>1, <2>2
<1> HIDE DEF r
<1>6. /\ Len(conns') = Len(conns)
      /\ \A j \in 1..Len(conns) : conns'[j] = IF j = k THEN r ELSE conns[j]
    BY <1>1, <1>2, <1>5, OneChanged
<1>7. \A j : Queued(j)' = Queued(j)
    BY <1>1 DEF Queued
<1>8. Queue'
    <2>1. \A j \in 1..Len(conns') : conns'[j].status = "open" <=> j = serving' \/ Queued(j)'
        BY <1>1, <1>2, <1>3, <1>5, <1>6, <1>7 DEF Queue
    <2>2. \A j \in 1..Len(conns') : conns'[j].status = "dropped" => full'
        BY <1>1, <1>3
    <2> QED
        BY <2>1, <2>2, <1>1, <1>2, <1>6 DEF Queue
<1>9. backlog' \in Seq(Nat) /\ Len(backlog') <= Listen
    BY <1>1, <1>2 DEF Shape
<1> QED
    BY <1>1, <1>5, <1>8, <1>9, OtherwiseSame

\* The end of the program takes every connection with it.
LEMMA PanicStep == ASSUME DashInv, Panic PROVE DashInv'
<1> DEFINE ended(c) == [c EXCEPT !.status = "lost", !.answer = -1]
<1>1. /\ phase' = "dead" /\ serving' = None /\ backlog' = <<>> /\ world' = world
      /\ loading' = loading /\ calls' = calls /\ visits' = visits /\ shown' = shown /\ full' = full
      /\ conns' = [k \in 1..Len(conns) |->
             IF conns[k].status # "open" THEN conns[k] ELSE IF k \in visits THEN Over ELSE ended(conns[k])]
    BY DEF Panic, Page
<1>2. Shape /\ Queue /\ Answers /\ Pages /\ (~full => Line /\ Order)
    BY DEF DashInv
<1>3. ASSUME NEW c \in Good
      PROVE  /\ ended(c) \in Good /\ ended(c).status = "lost" /\ ended(c).answer = -1
             /\ ended(c).request = c.request
    <2> DEFINE r == [As(c, "lost") EXCEPT !.answer = -1]
    <2>0. ended(c) = r
        BY DEF As
    <2>3. As(c, "lost") \in Good /\ As(c, "lost").status = "lost" /\ As(c, "lost").request = c.request
        BY Lost
    <2>4. Rest(As(c, "lost")) = Rest(c) /\ As(c, "lost").unsent = c.unsent /\ As(c, "lost").unread = c.unread
        BY DEF As, Rest, Good
    <2>1. /\ r.unread = c.unread /\ r.unsent = c.unsent /\ r.request = c.request
          /\ r.status = "lost" /\ r.answer = -1
          /\ r \in [request : Requests, unread : Seq(Parts), unsent : Seq(Parts), shut : BOOLEAN,
                    status : Status, answer : Int]
        <3>1. -1 \in Int
            OBVIOUS
        <3> QED
            BY <2>3, <2>4, <3>1 DEF Good
    <2> HIDE DEF r
    <2>2. r \in Good
        BY <2>1 DEF Good, Rest
    <2> QED
        BY <2>0, <2>1, <2>2
<1> HIDE DEF ended
<1>4. Len(conns) \in Nat /\ \A k \in 1..Len(conns) : conns[k] \in Good
    BY <1>2, ConnsLen, GoodConn
<1>5. ASSUME NEW k \in 1..Len(conns)
      PROVE  /\ conns'[k] \in Good /\ conns'[k].status # "open"
             /\ conns'[k].status \in {"answered", "dropped"} => conns'[k] = conns[k]
             /\ conns'[k].answer \in {conns[k].answer, -1}
             /\ conns'[k].answer # -1 => conns'[k] = conns[k]
             /\ k \in visits => conns'[k].request \in {conns[k].request, "other"}
             /\ k \notin visits => conns'[k].request = conns[k].request
             /\ k \notin visits /\ conns[k].status # "over" => conns'[k].status # "over"
    <2>1. CASE conns[k].status # "open"
        BY <2>1, <1>1, <1>4
    <2>2. CASE conns[k].status = "open" /\ k \in visits
        BY <2>2, <1>1, OverGood
    <2>3. CASE conns[k].status = "open" /\ k \notin visits
        <3>1. conns'[k] = ended(conns[k])
            BY <2>3, <1>1
        <3> QED
            BY <3>1, <2>3, <1>3, <1>4
    <2> QED
        BY <2>1, <2>2, <2>3
<1>6. conns' \in Seq(Good) /\ Len(conns') = Len(conns)
    <2>1. \A k \in 1..Len(conns) : conns'[k] \in Good
        BY <1>5
    <2> QED
        BY <2>1, <1>1, <1>4
<1>7. backlog' \in Seq(Nat) /\ Len(backlog') = 0
    BY <1>1
<1>8. \A k \in 1..Len(conns) : k # serving'
    BY <1>1 DEF None
<1>9. Shape'
    BY <1>1, <1>2, <1>4, <1>6, <1>7, BoundsAssumption DEF Shape, Phases, None
<1>10. Queue'
    <2>1. \A k : ~Queued(k)'
        BY <1>7 DEF Queued
    <2>2. \A k \in 1..Len(conns') : conns'[k].status = "dropped" => full'
        BY <1>1, <1>2, <1>5, <1>6 DEF Queue
    <2> QED
        BY <2>1, <2>2, <1>5, <1>6, <1>7, <1>8 DEF Queue
<1>11. Heard'
    BY <1>1 DEF Heard
<1>12. world.containers \in Nat /\ world.images \in Nat
    BY <1>2 DEF Shape
<1>13. Answers'
    <2>1. ASSUME NEW k \in 1..Len(conns)
          PROVE  /\ conns'[k].answer # -1 => conns'[k].status = "answered"
                 /\ conns'[k].request = "containers" => conns'[k].answer <= world.containers
                 /\ conns'[k].request = "images" => conns'[k].answer <= world.images
        <3>1. CASE conns'[k].answer = -1
            BY <3>1, <1>12
        <3>2. CASE conns'[k].answer # -1
            <4>1. conns'[k] = conns[k] /\ conns[k].status # "open"
                BY <3>2, <1>5
            <4>2. k # serving
                BY <4>1, <1>2 DEF Queue
            <4> QED
                BY <4>1, <4>2, <3>2, <1>2 DEF Answers
        <3> QED
            BY <3>1, <3>2
    <2> QED
        BY <2>1, <1>1, <1>2, <1>6 DEF Answers
<1>14. \A l \in loading : /\ l \in 1..Len(conns) /\ l + 1 \in 1..Len(conns)
                          /\ l \notin visits /\ l + 1 \notin visits
    BY <1>2, LoadingIn DEF Pages, Lists
<1>15. Pages'
    <2>1. ASSUME NEW k \in visits PROVE conns'[k].request \notin Lists
        <3>1. k \in 1..Len(conns)
            BY <1>2 DEF Shape
        <3> QED
            BY <3>1, <1>2, <1>5 DEF Pages, Lists
    <2>2. ASSUME NEW l \in loading
          PROVE  /\ conns'[l].request = "containers" /\ conns'[l + 1].request = "images"
                 /\ conns'[l].status # "over" /\ conns'[l + 1].status # "over"
        <3>1. /\ l \in 1..Len(conns) /\ l + 1 \in 1..Len(conns)
              /\ l \notin visits /\ l + 1 \notin visits
            BY <1>14
        <3>2. /\ conns[l].request = "containers" /\ conns[l + 1].request = "images"
              /\ conns[l].status # "over" /\ conns[l + 1].status # "over"
            BY <1>2 DEF Pages
        <3>3. conns'[l].request = "containers" /\ conns'[l].status # "over"
            BY <3>1, <3>2, <1>5
        <3>4. conns'[l + 1].request = "images" /\ conns'[l + 1].status # "over"
            BY <3>1, <3>2, <1>5
        <3> QED
            BY <3>3, <3>4
    <2> QED
        BY <2>1, <2>2, <1>1 DEF Pages
<1>16. ASSUME ~full' PROVE Line' /\ Order'
    <2>1. Order
        BY <1>1, <1>2, <1>16
    <2>2. Order'
        BY <2>1, <1>1, <1>2, <1>5, OrderFalls
    <2>3. Line'
        BY <1>5, <1>6, <1>7 DEF Line
    <2> QED
        BY <2>2, <2>3
<1> QED
    BY <1>9, <1>10, <1>11, <1>13, <1>15, <1>16 DEF DashInv

-----------------------------------------------------------------------------
LEMMA DashInit == Init => DashInv
<1> SUFFICES ASSUME Init PROVE DashInv
    OBVIOUS
<1>1. /\ Fresh(Load) /\ Len(Load) = 2 /\ conns = Load
      /\ conns[1].request = "containers" /\ conns[2].request = "images"
    BY FreshLoad DEF Init
<1>2. /\ conns \in Seq(Good) /\ Len(conns) = 2
      /\ \A k \in 1..Len(conns) : (k = 1 \/ k = 2) /\ conns[k].status = "open" /\ conns[k].answer = -1
    <2>1. conns \in Seq(Good) /\ Len(conns) = 2
        BY <1>1 DEF Fresh
    <2>2. \A k \in 1..Len(conns) : k = 1 \/ k = 2
        BY <2>1
    <2>3. \A k \in 1..Len(conns) : conns[k].status = "open" /\ conns[k].answer = -1
        BY <1>1 DEF Fresh
    <2> QED
        BY <2>1, <2>2, <2>3
<1>3. /\ backlog = <<1, 2>> /\ backlog \in Seq(Nat) /\ Len(backlog) = 2
      /\ backlog[1] = 1 /\ backlog[2] = 2
    BY DEF Init
<1>4. /\ full = FALSE /\ serving = 0 /\ serving = None /\ phase = "accept" /\ loading = {1} /\ calls = {} /\ visits = {}
      /\ world = [container |-> "running", containers |-> 0, images |-> 0]
      /\ shown = [w \in Lists |-> -1]
    BY DEF Init, None
<1>5. /\ shown \in [Lists -> Int] /\ shown["containers"] = -1 /\ shown["images"] = -1
      /\ world.containers = 0 /\ world.images = 0
      /\ world \in [container : {"running", "stopped", "gone"}, containers : Nat, images : Nat]
    BY <1>4 DEF Lists
<1>6. Shape
    <2>1. Len(conns) <= MaxConns /\ Len(backlog) <= Listen /\ loading \subseteq 1..(Len(conns) - 1)
        BY <1>2, <1>3, <1>4, BoundsAssumption
    <2>2. serving \in 0..Len(conns) /\ phase \in Phases /\ (serving = None <=> phase \in {"accept", "dead"})
        BY <1>2, <1>4 DEF Phases
    <2> QED
        BY <2>1, <2>2, <1>2, <1>3, <1>4, <1>5 DEF Shape
<1>7. Queue
    <2>1. \A b \in 1..Len(backlog) : backlog[b] \in 1..Len(conns) /\ backlog[b] # serving /\ backlog[b] = b
        BY <1>2, <1>3, <1>4
    <2>2. \A k \in 1..Len(conns) : Queued(k)
        BY <1>2, <1>3 DEF Queued
    <2> QED
        BY <2>1, <2>2, <1>2 DEF Queue
<1>8. Heard
    BY <1>4 DEF Heard
<1>9. Answers
    BY <1>2, <1>5 DEF Answers
<1>10. Pages
    <2>1. \A k \in {1, 1 + 1} : conns[k].status # "over"
        BY <1>2
    <2>2. \A l \in loading : l = 1
        BY <1>4
    <2>3. conns[1 + 1].request = "images"
        BY <1>1
    <2> QED
        BY <2>1, <2>2, <2>3, <1>1, <1>4 DEF Pages
<1>11. Line /\ Order
    <2>1. \A b \in 1..Len(backlog) : backlog[b] = b /\ serving < b
        BY <1>3, <1>4
    <2>2. Line
        BY <2>1, <1>2 DEF Line
    <2>3. Order
        BY <1>4, <1>5 DEF Order, Newer
    <2> QED
        BY <2>2, <2>3
<1> QED
    BY <1>6, <1>7, <1>8, <1>9, <1>10, <1>11 DEF DashInv

LEMMA DashStep == DashInv /\ [Next]_vars => DashInv'
<1> SUFFICES ASSUME DashInv, [Next]_vars PROVE DashInv'
    OBVIOUS
<1>1. CASE Serve
    BY <1>1, AcceptStep, ReadLineStep, ReadHeaderStep, ReadHeaderOfBodyStep, ReadBodyStep, PerformStep,
       AnswerStep, ErrorStep, PanicStep DEF Serve
<1>2. CASE LoadAll
    BY <1>2, LoadAllStep
<1>3. CASE \E o \in Operations : Call(o)
    BY <1>3, CallStep
<1>4. CASE Visit
    BY <1>4, VisitStep
<1>5. CASE \E k \in 1..Len(conns) : Called(k) \/ Render(k) \/ Send(k) \/ Shut(k) \/ Retry(k) \/ GiveUp(k)
    BY <1>5, CalledStep, RenderStep, SendStep, ShutStep, RetryStep, GiveUpStep
<1>6. CASE Elsewhere
    BY <1>6, ElsewhereStep
<1>7. CASE UNCHANGED vars
    <2>1. UNCHANGED <<conns, backlog, serving, phase, world, loading, calls, visits, shown, full>>
        BY <1>7 DEF vars
    <2>2. \A k : Queued(k)' <=> Queued(k)
        BY <2>1 DEF Queued
    <2>3. Shape' /\ Answers' /\ Pages' /\ Heard' /\ (~full' => Line' /\ Order')
        BY <2>1 DEF DashInv, Shape, Answers, Pages, Line, Order, Heard
    <2>4. Queue'
        BY <2>1, <2>2 DEF DashInv, Queue
    <2> QED
        BY <2>3, <2>4 DEF DashInv
<1> QED
    BY <1>1, <1>2, <1>3, <1>4, <1>5, <1>6, <1>7 DEF Next

LEMMA Reached == Spec => []DashInv
BY DashInit, DashStep, PTL DEF Spec

-----------------------------------------------------------------------------
\* What is left of a request is the end of one.
LEMMA TailOfSuffix ==
    ASSUME NEW p \in Seq(Parts), NEW s \in Suffixes(p), s # <<>>
    PROVE  Tail(s) \in Suffixes(p)
<1>1. PICK i \in 1..Len(p) : s = SubSeq(p, i, Len(p))
    BY DEF Suffixes
<1>2. Len(p) \in Nat /\ Len(p) \in i..Len(p)
    BY LenProperties
<1>3. Tail(s) = SubSeq(p, i + 1, Len(p))
    BY <1>1, <1>2, HeadTailOfSubSeq
<1>4. CASE i + 1 \in 1..Len(p)
    BY <1>3, <1>4 DEF Suffixes
<1>5. CASE i + 1 \notin 1..Len(p)
    <2>1. Len(p) < i + 1 /\ i + 1 \in Int /\ Len(p) \in Int
        BY <1>2, <1>5
    <2>2. SubSeq(p, i + 1, Len(p)) = <<>>
        BY <2>1, SubSeqEmpty
    <2> QED
        BY <2>2, <1>3 DEF Suffixes
<1> QED
    BY <1>4, <1>5

LEMMA WholeIsSuffix == ASSUME NEW p \in Seq(Parts), Len(p) > 0 PROVE p \in Suffixes(p) /\ <<>> \in Suffixes(p)
<1>1. Len(p) \in Nat /\ 1 \in 1..Len(p) /\ SubSeq(p, 1, Len(p)) = p
    BY LenProperties, SubSeqFull
<1> QED
    BY <1>1 DEF Suffixes

LEMMA Ends == Rests \subseteq UNION {Suffixes(p) : p \in {Plain, Slow, Bad, Huge} \cup Junk}
<1>1. /\ Plain \in Seq(Parts) /\ Slow \in Seq(Parts) /\ Bad \in Seq(Parts)
      /\ Len(Plain) > 0 /\ Len(Slow) > 0 /\ Len(Bad) > 0
      /\ Huge \in Seq(Parts) /\ <<"line", "junk">> \in Seq(Parts) /\ <<"junk">> \in Seq(Parts)
      /\ Len(Huge) > 0 /\ Len(<<"line", "junk">>) > 0 /\ Len(<<"junk">>) > 0
    BY DEF Plain, Slow, Bad, Huge, Parts
<1>2. /\ Plain \in Suffixes(Plain) /\ <<>> \in Suffixes(Plain)
      /\ Slow \in Suffixes(Slow) /\ Bad \in Suffixes(Bad)
      /\ Huge \in Suffixes(Huge) /\ <<"line", "junk">> \in Suffixes(<<"line", "junk">>)
      /\ <<"junk">> \in Suffixes(<<"junk">>)
    BY <1>1, WholeIsSuffix
<1>3. Tail(Plain) = <<"blank">> /\ Plain # <<>>
    BY DEF Plain
<1>4. <<"blank">> \in Suffixes(Plain)
    BY <1>1, <1>2, <1>3, TailOfSuffix
<1>5. /\ Tail(Slow) = <<"line", "length", "blank", "body">> /\ Slow # <<>>
      /\ Tail(<<"line", "length", "blank", "body">>) = <<"length", "blank", "body">>
      /\ Tail(<<"length", "blank", "body">>) = <<"blank", "body">> /\ Tail(<<"blank", "body">>) = <<"body">>
      /\ <<"line", "length", "blank", "body">> # <<>> /\ <<"length", "blank", "body">> # <<>>
      /\ <<"blank", "body">> # <<>>
    BY DEF Slow
<1>6. <<"line", "length", "blank", "body">> \in Suffixes(Slow)
    BY <1>1, <1>2, <1>5, TailOfSuffix
<1>7. <<"length", "blank", "body">> \in Suffixes(Slow)
    BY <1>1, <1>5, <1>6, TailOfSuffix
<1>8. <<"blank", "body">> \in Suffixes(Slow)
    BY <1>1, <1>5, <1>7, TailOfSuffix
<1>9. <<"body">> \in Suffixes(Slow)
    BY <1>1, <1>5, <1>8, TailOfSuffix
<1>10. <<"huge", "blank">> \in Suffixes(Huge)
    <2>1. Tail(Huge) = <<"huge", "blank">> /\ Huge # <<>>
        BY DEF Huge
    <2> QED
        BY <2>1, <1>1, <1>2, TailOfSuffix
<1>11. \A s \in Rests : \/ s \in Suffixes(Plain) \/ s \in Suffixes(Slow) \/ s \in Suffixes(Bad)
                        \/ s \in Suffixes(Huge) \/ s \in Suffixes(<<"line", "junk">>)
                        \/ s \in Suffixes(<<"junk">>)
    BY <1>2, <1>4, <1>6, <1>7, <1>8, <1>9, <1>10, Zenon DEF Rests, PageRests
<1> QED
    BY <1>11 DEF Junk

\* Type correctness: in particular what is left of a request, arrived and not,
\* is always the end of one, and the backlog never overflows.
THEOREM DashboardTypes == Spec => []TypeOK
<1>1. DashInv => TypeOK
    <2> SUFFICES ASSUME DashInv PROVE TypeOK
        OBVIOUS
    <2>1. Shape
        BY DEF DashInv
    <2>2. ASSUME NEW k \in 1..Len(conns)
          PROVE  /\ conns[k].request \in Lists \union Operations \union {"other"}
                 /\ conns[k].unread \o conns[k].unsent
                       \in UNION {Suffixes(p) : p \in {Plain, Slow, Bad, Huge} \union Junk}
                 /\ conns[k].shut \in BOOLEAN /\ conns[k].status \in Status /\ conns[k].answer \in Int
        <3>1. /\ conns[k].request \in Requests /\ Rest(conns[k]) \in Rests
              /\ conns[k].shut \in BOOLEAN /\ conns[k].status \in Status /\ conns[k].answer \in Int
            BY <2>1, GoodConn
        <3>2. conns[k].unread \o conns[k].unsent
                 \in UNION {Suffixes(p) : p \in {Plain, Slow, Bad, Huge} \union Junk}
            BY <3>1, Ends DEF Rest
        <3> QED
            BY <3>1, <3>2 DEF Requests
    <2>3. calls \union visits \subseteq 1..Len(conns)
        BY <2>1 DEF Shape
    <2> QED
        BY <2>1, <2>2, <2>3 DEF Shape, Phases, TypeOK
<1> QED
    BY <1>1, Reached, PTL

\* As long as every connection has found room to wait, a list on the page is
\* never replaced by an older one: the later reload is answered later, since
\* the connections that wait are later than those answered.
THEOREM NeverOlder == Spec => NeverBackwards
<1> DEFINE Forward == ~full => \A w \in Lists : shown[w] # -1 /\ shown'[w] # -1 => shown[w] <= shown'[w]
<1>1. DashInv /\ [Next]_vars => [Forward]_vars
    <2> SUFFICES ASSUME DashInv, Next, ~full
                 PROVE  \A w \in Lists : shown[w] # -1 /\ shown'[w] # -1 => shown[w] <= shown'[w]
        BY DEF vars
    <2>1. CASE UNCHANGED shown
        <3>1. \A w \in Lists : shown[w] \in Int
            BY DEF DashInv, Shape
        <3> QED
            BY <2>1, <3>1
    <2>2. CASE \E l \in 1..Len(conns) : Render(l)
        <3>1. PICK l \in 1..Len(conns) : Render(l)
            BY <2>2
        <3>2. /\ l \in loading
              /\ shown' = [containers |-> conns[l].answer, images |-> conns[l + 1].answer]
            BY <3>1 DEF Render
        <3>3. /\ Newer(shown["containers"], conns[l].answer)
              /\ Newer(shown["images"], conns[l + 1].answer)
            <4>1. Order
                BY SMTT(30) DEF DashInv
            <4> QED
                BY <3>2, <4>1 DEF Order
        <3> QED
            BY <3>2, <3>3 DEF Newer, Lists
    <2>3. Next => UNCHANGED shown \/ \E l \in 1..Len(conns) : Render(l)
        BY DEF Next, Serve, Accept, ReadLine, ReadHeader, ReadHeaderOfBody, ReadBody, Perform, Answer,
               Error, Panic, Page, LoadAll, Call, Visit, Called, Send, Shut, Retry, GiveUp, Elsewhere
    <2> QED
        BY <2>1, <2>2, <2>3
<1> QED
    BY <1>1, Reached, PTL DEF NeverBackwards, Spec

\* The server acts only when all of a request has arrived, or on a connection
\* that was closed in the middle of one.
THEOREM OnlyAsAsked == Spec => ActsAsAsked
<1> DEFINE Asked == \/ conns[serving].unread = <<>> /\ conns[serving].unsent = <<>>
                    \/ conns[serving].shut
<1>1. DashInv /\ [Next]_vars => [Perform => Asked]_vars
    <2> SUFFICES ASSUME DashInv, Perform PROVE Asked
        OBVIOUS
    <2>1. phase = "call" /\ Shape /\ Heard
        BY DEF DashInv, Perform
    <2>2. serving \in 1..Len(conns) /\ serving # None
        BY <2>1, Serving
    <2>3. conns[serving].shut \/ Rest(conns[serving]) = <<>>
        BY <2>1, <2>2 DEF Heard, Remains
    <2>4. conns[serving].unread \in Seq(Parts) /\ conns[serving].unsent \in Seq(Parts)
        BY <2>1, <2>2, GoodConn
    <2>5. ASSUME NEW u \in Seq(Parts), NEW v \in Seq(Parts), u \o v = <<>>
          PROVE  u = <<>> /\ v = <<>>
        <3>1. Len(u) \in Nat /\ Len(v) \in Nat /\ Len(u) + Len(v) = 0
            BY <2>5, ConcatProperties, LenProperties, EmptySeq
        <3> QED
            BY <3>1, EmptySeq
    <2> QED
        BY <2>3, <2>4, <2>5 DEF Rest
<1> QED
    BY <1>1, Reached, PTL DEF ActsAsAsked, Spec

=============================================================================
