----------------------------- MODULE Dashboard ------------------------------
(***************************************************************************)
(* The dashboard (dashboard.rs): a server that accepts and serves one      *)
(* connection after the other, the page it delivers, which reloads its     *)
(* lists every ten seconds and after each operation, and visitors that are *)
(* slow, silent, close before they have sent everything, or send what the  *)
(* server cannot read.  A panic in its only thread ends the server.        *)
(*                                                                         *)
(* What a list holds is the number of changes made to it when it was read. *)
(***************************************************************************)
EXTENDS Integers, Sequences, SequencesExt, FiniteSets

CONSTANTS
    Listen,         \* how many connections wait to be accepted
    MaxConns,       \* how many connections are made
    MaxVisits,      \* how many of them by visitors
    MaxChanges      \* how often other commands change the container

\* There is room for the two connections with which the page begins.
ASSUME BoundsAssumption ==
    /\ Listen \in Nat /\ Listen >= 2 /\ MaxConns \in Nat /\ MaxConns >= 2
    /\ MaxVisits \in Nat /\ MaxChanges \in Nat

VARIABLES
    conns,      \* the connections, in the order in which they are made
    backlog,    \* those that wait to be accepted
    serving,    \* the one the server handles, or none
    phase,      \* what the server does next
    world,      \* the container and the images, and how often each changed
    loading,    \* the reloads of the page that are not rendered: the first
                \* connection of each
    calls,      \* the connections of the page's operations
    visits,     \* the connections of visitors
    shown,      \* what the page shows: the age of each list
    full        \* history: a connection has found no room to wait

vars == <<conns, backlog, serving, phase, world, loading, calls, visits, shown, full>>

None == 0
Lists == {"containers", "images"}
Operations == {"stop", "rm", "pull"}

----------------------------------------------------------------------------
(* What arrives on a connection: a request line, in two halves if that is  *)
(* how it is sent, headers, an empty line and perhaps a body.              *)

Plain == <<"line", "blank">>
Slow == <<"half", "line", "length", "blank", "body">>
\* One word only; bytes that are no text, in the line or in a header; and the
\* announcement of a body larger than memory can hold.
Bad == <<"word">>
Junk == {<<"junk">>, <<"line", "junk">>}
Huge == <<"line", "huge", "blank">>

Connection(request, unread, unsent) ==
    [request |-> request, unread |-> unread, unsent |-> unsent, shut |-> FALSE,
     status |-> "open", answer |-> -1]

(* A connection whose answer has been used, or will not be. *)
Over == [Connection("other", <<>>, <<>>) EXCEPT !.status = "over"]

Made(list) == Len(conns) + Len(list) <= MaxConns

(* A connection for which there is no room is dropped, and tried again by *)
(* the client; without a server it is refused.                             *)
Connect(list) ==
    LET fits(i) == phase # "dead" /\ Len(backlog) + i <= Listen
        room == IF phase = "dead" THEN 0 ELSE IF fits(Len(list)) THEN Len(list) ELSE Listen - Len(backlog)
        without == IF phase = "dead" THEN "lost" ELSE "dropped"
    IN  /\ Made(list)
        /\ backlog' = backlog \o [i \in 1..room |-> Len(conns) + i]
        /\ conns' = conns \o [i \in 1..Len(list) |->
               IF fits(i) THEN list[i] ELSE [list[i] EXCEPT !.status = without]]
        /\ full' = (full \/ (phase # "dead" /\ ~fits(Len(list))))

----------------------------------------------------------------------------
(* The page *)

(* The third request, for what never changes, is left out. *)
Load == <<Connection("containers", Plain, <<>>), Connection("images", Plain, <<>>)>>

Init ==
    /\ conns = Load
    /\ backlog = <<1, 2>>
    /\ serving = None /\ phase = "accept"
    /\ world = [container |-> "running", containers |-> 0, images |-> 0]
    /\ loading = {1}
    /\ calls = {} /\ visits = {}
    /\ shown = [w \in Lists |-> -1]
    /\ full = FALSE

Server == <<serving, phase, world>>
Page == <<loading, calls, visits, shown, full>>

(* setInterval, or the button for it. *)
LoadAll ==
    /\ Connect(Load)
    /\ loading' = loading \union {Len(conns) + 1}
    /\ UNCHANGED <<Server, calls, visits, shown>>

Call(o) ==
    /\ Connect(<<Connection(o, Plain, <<>>)>>)
    /\ calls' = calls \union {Len(conns) + 1}
    /\ UNCHANGED <<Server, loading, visits, shown>>

Settled(k) == conns[k].status \in {"answered", "lost"}

(* stop and rm reload whatever the answer was, pull if it succeeded.       *)
Called(k) ==
    /\ k \in calls /\ Settled(k)
    /\ calls' = calls \ {k}
    /\ IF conns[k].request = "pull" /\ conns[k].answer = -1
       THEN conns' = [conns EXCEPT ![k] = Over] /\ UNCHANGED <<backlog, loading, full>>
       ELSE Connect(Load) /\ loading' = loading \union {Len(conns) + 1}
    /\ UNCHANGED <<Server, visits, shown>>

Complete(l) == \A k \in l..(l + 1) : Settled(k)

(* A request that failed yields null, and null is shown as an empty list.  *)
(* Reloads are complete in the order in which they were begun, unless one  *)
(* of them has been held up.                                               *)
Render(l) ==
    /\ l \in loading /\ Complete(l)
    /\ full \/ \A m \in loading : Complete(m) => l <= m
    /\ loading' = loading \ {l}
    /\ shown' = [containers |-> conns[l].answer, images |-> conns[l + 1].answer]
    /\ conns' = [k \in 1..Len(conns) |-> IF k \in l..(l + 1) THEN Over ELSE conns[k]]
    /\ UNCHANGED <<backlog, Server, calls, visits, full>>

----------------------------------------------------------------------------
(* Visitors, held up connections, and other commands *)

Visit ==
    /\ Cardinality(visits) < MaxVisits
    /\ \/ Connect(<<Connection("stop", <<>>, Slow)>>)
       \/ \E parts \in {Bad, Huge, <<>>} \union Junk : Connect(<<Connection("other", parts, <<>>)>>)
    /\ visits' = visits \union {Len(conns) + 1}
    /\ UNCHANGED <<Server, loading, calls, shown>>

(* The kernel of the client tries again, or has tried for long enough.     *)
Retry(k) ==
    /\ conns[k].status = "dropped"
    /\ phase # "dead" /\ Len(backlog) < Listen
    /\ conns' = [conns EXCEPT ![k].status = "open"]
    /\ backlog' = Append(backlog, k)
    /\ UNCHANGED <<Server, Page>>

GiveUp(k) ==
    /\ conns[k].status = "dropped"
    /\ conns' = [conns EXCEPT ![k] = IF k \in visits THEN Over ELSE [@ EXCEPT !.status = "lost"]]
    /\ UNCHANGED <<backlog, Server, Page>>

Send(k) ==
    /\ conns[k].status = "open" /\ conns[k].unsent # <<>> /\ ~conns[k].shut
    /\ conns' = [conns EXCEPT ![k].unread = Append(@, Head(conns[k].unsent)), ![k].unsent = Tail(@)]
    /\ UNCHANGED <<backlog, Server, Page>>

Shut(k) ==
    /\ k \in visits /\ conns[k].status = "open" /\ ~conns[k].shut
    /\ conns' = [conns EXCEPT ![k].shut = TRUE]
    /\ UNCHANGED <<backlog, Server, Page>>

Elsewhere ==
    /\ world.containers < MaxChanges
    /\ \E s \in {"running", "stopped", "gone"} \ {world.container} :
        world' = [world EXCEPT !.container = s, !.containers = @ + 1]
    /\ UNCHANGED <<conns, backlog, serving, phase, Page>>

----------------------------------------------------------------------------
(* The server *)

(* Fault: what waits is a stack. *)
ServeLast ==
    /\ phase = "accept" /\ backlog # <<>>
    /\ serving' = Last(backlog)
    /\ backlog' = Front(backlog)
    /\ phase' = "line"
    /\ UNCHANGED <<conns, world, Page>>

Accept ==
    /\ phase = "accept" /\ backlog # <<>>
    /\ serving' = Head(backlog)
    /\ backlog' = Tail(backlog)
    /\ phase' = "line"
    /\ UNCHANGED <<conns, world, Page>>

Ahead == conns[serving].unread
EndOfFile == Ahead = <<>> /\ conns[serving].shut
Consume == conns' = [conns EXCEPT ![serving].unread = Tail(@)]

(* read_line waits for a whole line or for the end of the file.  Without   *)
(* two words the answer is 400 and the headers are not read; the beginning *)
(* of a line that ends with the file is taken for the line, be it the      *)
(* request meant or another one.                                           *)
ReadLine ==
    /\ phase = "line"
    /\ \/ Ahead # <<>> /\ Head(Ahead) = "half" /\ Len(Ahead) > 1
          /\ conns' = [conns EXCEPT ![serving].unread = Tail(@)] /\ UNCHANGED phase
       \/ Ahead # <<>> /\ Head(Ahead) = "line" /\ Consume /\ phase' = "headers"
       \/ Ahead = <<"half">> /\ conns[serving].shut
          /\ \E o \in {conns[serving].request, "other"} :
               conns' = [conns EXCEPT ![serving].unread = <<>>, ![serving].request = o]
          /\ phase' = "headers"
       \/ (EndOfFile \/ Ahead = Bad) /\ phase' = "answer" /\ UNCHANGED conns
    /\ UNCHANGED <<backlog, serving, world, Page>>

(* The end of the file is an empty line. *)
ReadHeader ==
    /\ phase = "headers"
    /\ \/ EndOfFile /\ phase' = "call" /\ UNCHANGED conns
       \/ /\ Ahead # <<>> /\ Consume
          /\ \/ Head(Ahead) \in {"length", "huge"} /\ phase' = Head(Ahead)
             \/ Head(Ahead) = "blank" /\ phase' = "call"
    /\ UNCHANGED <<backlog, serving, world, Page>>

(* As ReadHeader, when a body has been announced. *)
ReadHeaderOfBody ==
    /\ phase = "length"
    /\ \/ EndOfFile /\ phase' = "body" /\ UNCHANGED conns
       \/ Ahead # <<>> /\ Consume /\ phase' = "body"
    /\ UNCHANGED <<backlog, serving, world, Page>>

(* Fault: what there is of the body is enough. *)
ReadSome ==
    /\ phase = "body"
    /\ phase' = "call"
    /\ UNCHANGED <<conns, backlog, serving, world, Page>>

ReadBody ==
    /\ phase = "body" /\ Ahead # <<>>
    /\ Consume /\ phase' = "call"
    /\ UNCHANGED <<backlog, serving, world, Page>>

Changed(s) == [world EXCEPT !.container = s, !.containers = @ + 1]

(* stop and rm of a container in the wrong state fail, and a pull may fail;*)
(* both are reported in an answer.  A pull may also end in Panic.          *)
Perform ==
    /\ phase = "call"
    /\ phase' = "answer"
    /\ LET request == conns[serving].request
           result(v) == conns' = [conns EXCEPT ![serving].answer = v]
       IN  \/ /\ request = "stop" /\ world.container = "running"
              /\ world' = Changed("stopped") /\ result(0)
           \/ /\ request = "rm" /\ world.container = "stopped"
              /\ world' = Changed("gone") /\ result(0)
           \/ /\ request = "pull"
              /\ world' = [world EXCEPT !.images = @ + 1] /\ result(0)
           \/ /\ request \in Lists
              /\ result(world[request]) /\ UNCHANGED world
           \/ /\ \/ request \in {"pull", "other"}
                 \/ request = "stop" /\ world.container # "running"
                 \/ request = "rm" /\ world.container # "stopped"
              /\ UNCHANGED <<world, conns>>
    /\ UNCHANGED <<backlog, serving, Page>>

Ended(how) ==
    IF serving \in visits THEN Over
    ELSE [conns[serving] EXCEPT !.status = how, !.answer = IF how = "lost" THEN -1 ELSE @]

(* Fault: the connection is not dropped. *)
KeepsServing ==
    /\ phase = "answer"
    /\ conns' = [conns EXCEPT ![serving] = Ended("answered")]
    /\ phase' = "accept"
    /\ UNCHANGED <<backlog, serving, world, Page>>

Answer ==
    /\ phase = "answer"
    /\ conns' = [conns EXCEPT ![serving] = Ended("answered")]
    /\ phase' = "accept" /\ serving' = None
    /\ UNCHANGED <<backlog, world, Page>>

(* Fault: at the end of the file the server goes on waiting for the body. *)
WaitsForBody ==
    /\ \/ phase \in {"line", "headers", "length", "huge", "answer"} /\ conns[serving].shut
       \/ phase \in {"line", "headers"} /\ Ahead # <<>> /\ Head(Ahead) = "junk"
    /\ conns' = [conns EXCEPT ![serving] = Ended("lost")]
    /\ phase' = "accept" /\ serving' = None
    /\ UNCHANGED <<backlog, world, Page>>

(* The client has reset the connection, or is gone; the line is no text;   *)
(* the body is missing: the error is printed, and the next connection      *)
(* accepted.                                                               *)
Error ==
    /\ \/ phase \in {"line", "headers", "length", "huge", "body", "answer"} /\ conns[serving].shut
       \/ phase \in {"line", "headers"} /\ Ahead # <<>> /\ Head(Ahead) = "junk"
    /\ conns' = [conns EXCEPT ![serving] = Ended("lost")]
    /\ phase' = "accept" /\ serving' = None
    /\ UNCHANGED <<backlog, world, Page>>

(* The server reserves what the headers announce, more than there is, or a *)
(* pull meets a manifest or a body that it takes apart wrongly.  This ends *)
(* the program, and with it every connection.                              *)
Panic ==
    /\ \/ phase = "huge" /\ (EndOfFile \/ Ahead # <<>>)
       \/ phase = "call" /\ conns[serving].request = "pull"
    /\ phase' = "dead" /\ serving' = None /\ backlog' = <<>>
    /\ conns' = [k \in 1..Len(conns) |->
           IF conns[k].status # "open" THEN conns[k]
           ELSE IF k \in visits THEN Over
           ELSE [conns[k] EXCEPT !.status = "lost", !.answer = -1]]
    /\ UNCHANGED <<world, Page>>

Serve ==
    \/ Accept \/ ReadLine \/ ReadHeader \/ ReadHeaderOfBody \/ ReadBody
    \/ Perform \/ Answer \/ Error \/ Panic

Next ==
    \/ Serve
    \/ LoadAll
    \/ \E o \in Operations : Call(o)
    \/ Visit
    \/ \E k \in 1..Len(conns) : Called(k) \/ Render(k) \/ Send(k) \/ Shut(k) \/ Retry(k) \/ GiveUp(k)
    \/ Elsewhere

Spec == Init /\ [][Next]_vars

(* The server goes on, and nobody keeps a connection open for ever.        *)
FairSpec == Spec /\ WF_vars(Serve) /\ WF_vars(\E k \in visits : Shut(k))

----------------------------------------------------------------------------
(* Properties *)

Status == {"dropped", "open", "answered", "lost", "over"}

TypeOK ==
    /\ Len(conns) <= MaxConns
    /\ \A k \in 1..Len(conns) :
        /\ conns[k].request \in Lists \union Operations \union {"other"}
        /\ conns[k].unread \o conns[k].unsent \in UNION {Suffixes(p) : p \in {Plain, Slow, Bad, Huge} \union Junk}
        /\ conns[k].shut \in BOOLEAN /\ conns[k].status \in Status /\ conns[k].answer \in Int
    /\ Len(backlog) <= Listen
    /\ serving \in 0..Len(conns)
    /\ phase \in {"accept", "line", "headers", "length", "huge", "body", "call", "answer", "dead"}
    /\ serving = None <=> phase \in {"accept", "dead"}
    /\ world.container \in {"running", "stopped", "gone"}
    /\ loading \subseteq 1..(Len(conns) - 1) /\ calls \union visits \subseteq 1..Len(conns)
    /\ shown \in [Lists -> Int] /\ full \in BOOLEAN

(* However long a reload waits and however many are under way, the page    *)
(* never replaces a list by an older one.  Nothing in the page prevents    *)
(* it: it is so because the server answers in the order of connection --   *)
(* as long as every connection has found room to wait, for one that is     *)
(* tried again is overtaken by the connections made meanwhile.             *)
NeverBackwards ==
    [][~full => \A w \in Lists : shown[w] # -1 /\ shown'[w] # -1 => shown[w] <= shown'[w]]_vars

(* The server stops, removes or pulls only for a connection on which all   *)
(* of a request has arrived -- or that was closed in the middle of one,    *)
(* which the server takes for the end of its headers.                      *)
ActsAsAsked ==
    [][Perform => \/ conns[serving].unread = <<>> /\ conns[serving].unsent = <<>>
                  \/ conns[serving].shut]_vars

(* Whatever visitors send or leave out, and whatever fails, the server     *)
(* gets through the connections that wait, if nobody keeps one open for    *)
(* ever -- unless it is ended by one of its panics: a Content-Length       *)
(* beyond memory, or a pull of what it takes apart wrongly.                *)
AllServed ==
    serving # None \/ backlog # <<>> ~> (phase = "accept" /\ backlog = <<>>) \/ phase = "dead"

=============================================================================
