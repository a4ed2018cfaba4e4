----------------------------- MODULE HttpClient -----------------------------
(***************************************************************************)
(* http.rs: one GET with its redirects, over a plain connection (http on   *)
(* Linux), a curl process (https on Linux) or WinHTTP (Windows).           *)
(*                                                                         *)
(* A URL is a scheme, a host and a resource, which stands for the path.    *)
(* What a connection carries after the headers is a sequence of symbols:   *)
(* the bytes 0..255, and 256 + n for the digits of a chunk size n.         *)
(***************************************************************************)
EXTENDS Integers, Sequences, FiniteSets, SequencesExt

CONSTANTS
    Platforms,
    Hosts,
    Home,           \* Home[r]: the URL that the program asks for resource r
    Bodies,         \* Bodies[r]: what servers may answer for r
    MaxRedirects,   \* 5 in registry.rs
    ChunkSize       \* how much of a body a server puts into a chunk

Resources == DOMAIN Home
Urls == [scheme : {"http", "https"}, host : Hosts, resource : Resources]

ASSUME HttpAssumption ==
    /\ Platforms \subseteq {"linux", "windows"}
    /\ Home \in [Resources -> Urls] /\ \A r \in Resources : Home[r].resource = r
    /\ \A r \in Resources : Bodies[r] \subseteq Seq(0..255)
    /\ MaxRedirects \in Nat /\ ChunkSize \in Nat \ {0}

VARIABLES
    platform,
    doing,      \* the step of the call
    call,       \* what was asked for: resource, bearer token, redirects
    url,        \* current_url
    hops,       \* redirects followed
    asked,      \* the last request on the wire: its URL, with the token or not
    handles,    \* the WinHTTP handles that are open
    reply,      \* what the server answers
    wire,       \* what has arrived of its body, as the connection carries it
    pos,        \* decode_chunked's position
    body        \* HttpResponse::body

httpVars == <<platform, doing, call, url, hops, asked, handles, reply, wire, pos, body>>

Nowhere == [scheme |-> "https", host |-> "none", resource |-> "none"]
NotAsked == [url |-> Nowhere, token |-> FALSE]
NoCall == [resource |-> "none", token |-> FALSE, follow |-> FALSE]
NoReply == [status |-> 0, location |-> Nowhere, chunked |-> FALSE, body |-> <<>>]

HttpInit ==
    /\ platform \in Platforms
    /\ doing = "idle" /\ call = NoCall /\ url = Nowhere /\ hops = 0
    /\ asked = NotAsked
    /\ handles = {} /\ reply = NoReply /\ wire = <<>> /\ pos = 0 /\ body = <<>>

----------------------------------------------------------------------------
(* The servers *)

Malformed == [scheme |-> "https", host |-> "malformed", resource |-> "none"]

(* The resource itself, an error, or a redirect to another place of the    *)
(* resource: a URL, one that does not parse, or none at all.               *)
Replies(r) ==
    [status : {200}, location : {Nowhere}, chunked : BOOLEAN, body : Bodies[r]]
    \cup [status : {401, 404, 500}, location : {Nowhere}, chunked : {FALSE}, body : {<<>>}]
    \cup [status : {302}, location : {Nowhere, Malformed} \cup { u \in Urls : u.resource = r },
          chunked : {FALSE}, body : {<<>>}]

Crlf == <<13, 10>>
SizeLine(n) == <<256 + n, 13, 10>>

OneChunk(part) == SizeLine(Len(part)) \o part \o Crlf

ChunkCount(bytes) == (Len(bytes) + ChunkSize - 1) \div ChunkSize
Part(bytes, i) ==
    SubSeq(bytes, (i - 1) * ChunkSize + 1, IF i = ChunkCount(bytes) THEN Len(bytes) ELSE i * ChunkSize)

(* The first chunks of a body; all of them are followed by an empty one.   *)
FirstChunks(bytes) ==
    LET first[k \in 0..ChunkCount(bytes)] == IF k = 0 THEN <<>> ELSE first[k - 1] \o OneChunk(Part(bytes, k))
    IN  first
Chunks(bytes) == FirstChunks(bytes)[ChunkCount(bytes)] \o OneChunk(<<>>)

OnWire(r) == IF r.chunked THEN Chunks(r.body) ELSE r.body

(* What has arrived when the connection ends. *)
Cuts(bytes) == { SubSeq(bytes, 1, n) : n \in 0..Len(bytes) }

----------------------------------------------------------------------------
(* get_follow_redirects (follow) and get *)

Ask(r, token, follow) ==
    /\ doing \in {"idle", "answer", "error"}
    /\ doing' = "hop"
    /\ call' = [resource |-> r, token |-> token, follow |-> follow]
    /\ url' = Home[r]
    /\ hops' = 0 /\ reply' = NoReply /\ wire' = <<>> /\ pos' = 0 /\ body' = <<>>
    /\ asked' = NotAsked
    /\ UNCHANGED <<platform, handles>>

Fail ==
    /\ doing' = "error"
    /\ UNCHANGED <<platform, call, url, hops, asked, reply, wire, pos, body>>

(* Fault: the origin is that of the request before. *)
SameAsBefore == hops = 0 \/ url.host = asked.url.host

(* Hosts are compared, schemes and ports are not. *)
SameOrigin == url.host = Home[call.resource].host

(* Fault: nothing counts the requests. *)
NeverExhausted == FALSE

Exhausted == call.follow /\ hops = MaxRedirects

Hop ==
    /\ doing = "hop"
    /\ IF url = Malformed \/ Exhausted
       THEN Fail /\ UNCHANGED handles
       ELSE /\ asked' = [url |-> url, token |-> call.token /\ SameOrigin]
            /\ doing' = CASE platform = "windows" -> "WinHttpOpen"
                          [] platform = "linux" /\ url.scheme = "http" -> "raw"
                          [] OTHER -> "curl"
            /\ UNCHANGED <<platform, call, url, hops, handles, reply, wire, pos, body>>

(* Fault: a redirect starts the count again. *)
FirstHop == 0

NextHop == hops + 1

(* The loop counts its rounds; a status that is no redirect ends it, and so*)
(* does a redirect to nowhere.                                             *)
Redirect ==
    /\ doing = "response"
    /\ IF call.follow /\ reply.status = 302 /\ reply.location # Nowhere
       THEN /\ doing' = "hop" /\ url' = reply.location /\ hops' = NextHop
            /\ reply' = NoReply /\ wire' = <<>> /\ pos' = 0 /\ body' = <<>>
            /\ UNCHANGED <<platform, call, asked, handles>>
       ELSE /\ doing' = "answer" /\ wire' = <<>> /\ pos' = 0
            /\ UNCHANGED <<platform, call, url, hops, asked, handles, reply, body>>

----------------------------------------------------------------------------
(* Linux *)

(* Everything up to the end of the connection.  No connection, a reset, or *)
(* an end within the headers is an error; an end within the body is not.   *)
RawGet ==
    /\ doing = "raw"
    /\ \/ Fail /\ UNCHANGED handles
       \/ /\ reply' \in Replies(url.resource)
          /\ wire' \in Cuts(OnWire(reply'))
          /\ doing' = "parse"
          /\ UNCHANGED <<platform, call, url, hops, asked, handles, pos, body>>

(* The request to which curl is redirected: with a header of -H only at    *)
(* the host of its own first request.                                      *)
Onward(place) == [url |-> place, token |-> call.token /\ SameOrigin /\ place.host = url.host]

(* curl -s -i -L prints the headers as they came and the body decoded.     *)
(* That it fails is an error only when it has printed nothing.  A redirect *)
(* it follows itself; what it prints first is parsed, the headers of the   *)
(* redirect, and nothing looks at the rest.                                *)
CurlGet ==
    /\ doing = "curl"
    /\ \/ Fail /\ UNCHANGED handles
       \/ /\ reply' \in Replies(url.resource)
          /\ wire' \in Cuts(reply'.body)
          /\ IF reply'.location \in Urls
             THEN doing' = "follow" /\ asked' = Onward(reply'.location)
             ELSE doing' = "parse" /\ UNCHANGED asked
          /\ UNCHANGED <<platform, call, url, hops, handles, pos, body>>

(* One more redirect for curl. *)
CurlFollow ==
    /\ doing = "follow"
    /\ \E place \in Urls : place.resource = url.resource /\ asked' = Onward(place)
    /\ UNCHANGED <<platform, doing, call, url, hops, handles, reply, wire, pos, body>>

(* An answer, a failure, or the 50 redirects that are curl's limit. *)
CurlEnd ==
    /\ doing = "follow"
    /\ doing' = "parse"
    /\ UNCHANGED <<platform, call, url, hops, asked, handles, reply, wire, pos, body>>

Parse ==
    /\ doing = "parse"
    /\ IF reply.chunked
       THEN doing' = "chunks" /\ UNCHANGED body
       ELSE doing' = "response" /\ body' = wire
    /\ UNCHANGED <<platform, call, url, hops, asked, handles, reply, wire, pos>>

(* Line ends from here on, and the next of them. *)
LineEnds == { i \in (pos + 1)..(Len(wire) - 1) : wire[i] = 13 /\ wire[i + 1] = 10 }
LineEnd == CHOOSE i \in LineEnds : \A j \in LineEnds : i <= j

(* A line of one symbol that stands for a size. *)
IsSize == LineEnd = pos + 2 /\ wire[pos + 1] >= 256
Size == wire[pos + 1] - 256

(* Fault: only one of the two symbols at the end of the line is skipped. *)
JustBehind == LineEnd

(* The last symbol before the chunk. *)
Behind == LineEnd + 1

(* One round of decode_chunked.  Beyond the end, the slice panics; without *)
(* a line, without a whole chunk or with an empty one it ends.             *)
Chunk ==
    /\ doing = "chunks"
    /\ IF pos > Len(wire)
       THEN doing' = "panic" /\ UNCHANGED <<pos, body>>
       ELSE IF LineEnds = {}
       THEN doing' = "response" /\ UNCHANGED <<pos, body>>
       ELSE IF ~IsSize
       THEN doing' = "error" /\ UNCHANGED <<pos, body>>
       ELSE IF Size = 0 \/ Behind + Size > Len(wire)
       THEN doing' = "response" /\ UNCHANGED <<pos, body>>
       ELSE /\ body' = body \o SubSeq(wire, Behind + 1, Behind + Size)
            /\ pos' = Behind + Size + 2
            /\ UNCHANGED doing
    /\ UNCHANGED <<platform, call, url, hops, asked, handles, reply, wire>>

----------------------------------------------------------------------------
(* Windows: each function gives a handle or fails, and each return of      *)
(* https_get closes the handles that are written at it.                    *)

Opens == [WinHttpOpen |-> "session", WinHttpConnect |-> "connect", WinHttpOpenRequest |-> "request"]
Then == [WinHttpOpen |-> "WinHttpConnect", WinHttpConnect |-> "WinHttpOpenRequest",
         WinHttpOpenRequest |-> "WinHttpSendRequest", WinHttpSendRequest |-> "WinHttpReceiveResponse"]

(* Fault: one of the returns forgets the session. *)
OneForgotten ==
    [WinHttpOpen |-> {},
     WinHttpConnect |-> {"session"},
     WinHttpOpenRequest |-> {"connect"},
     WinHttpSendRequest |-> {"request", "connect", "session"},
     WinHttpReceiveResponse |-> {"request", "connect", "session"},
     WinHttpReadData |-> {"request", "connect", "session"}]

(* By the function at which https_get returns. *)
Closes ==
    [WinHttpOpen |-> {},
     WinHttpConnect |-> {"session"},
     WinHttpOpenRequest |-> {"connect", "session"},
     WinHttpSendRequest |-> {"request", "connect", "session"},
     WinHttpReceiveResponse |-> {"request", "connect", "session"},
     WinHttpReadData |-> {"request", "connect", "session"}]

CloseHandles == handles' = handles \ Closes[doing]

OpenHandle ==
    /\ doing \in DOMAIN Opens
    /\ \/ Fail /\ CloseHandles
       \/ /\ handles' = handles \cup {Opens[doing]}
          /\ doing' = Then[doing]
          /\ UNCHANGED <<platform, call, url, hops, asked, reply, wire, pos, body>>

SendRequest ==
    /\ doing = "WinHttpSendRequest"
    /\ \/ Fail /\ CloseHandles
       \/ /\ doing' = Then[doing]
          /\ UNCHANGED <<platform, call, url, hops, asked, handles, reply, wire, pos, body>>

ReceiveResponse ==
    /\ doing = "WinHttpReceiveResponse"
    /\ \/ Fail /\ CloseHandles
       \/ /\ reply' \in Replies(url.resource)
          /\ doing' = "WinHttpReadData"
          /\ UNCHANGED <<platform, call, url, hops, asked, handles, wire, pos, body>>

(* Pieces of the decoded body as they come, until there is nothing more or *)
(* a read fails, which is taken for the end.                               *)
ReadData ==
    /\ doing = "WinHttpReadData"
    /\ \/ /\ \E n \in (Len(body) + 1)..Len(reply.body) : body' = SubSeq(reply.body, 1, n)
          /\ UNCHANGED <<doing, handles>>
       \/ /\ doing' = "response" /\ CloseHandles
          /\ UNCHANGED body
    /\ UNCHANGED <<platform, call, url, hops, asked, reply, wire, pos>>

----------------------------------------------------------------------------
HttpNext ==
    \/ Hop \/ Redirect \/ RawGet \/ CurlGet \/ CurlFollow \/ CurlEnd \/ Parse \/ Chunk
    \/ OpenHandle \/ SendRequest \/ ReceiveResponse \/ ReadData

HttpTypeOK ==
    /\ platform \in Platforms
    /\ doing \in {"idle", "hop", "raw", "curl", "follow", "parse", "chunks", "response", "answer", "error", "panic",
                  "WinHttpReadData"} \cup DOMAIN Then \cup {"WinHttpReceiveResponse"}
    /\ call = NoCall \/ call \in [resource : Resources, token : BOOLEAN, follow : BOOLEAN]
    /\ url \in Urls \cup {Nowhere, Malformed}
    /\ hops \in 0..MaxRedirects
    /\ asked.url \in Urls \cup {Nowhere} /\ asked.token \in BOOLEAN
    /\ handles \subseteq {"session", "connect", "request"}
    /\ reply = NoReply \/ reply \in Replies(call.resource)
    /\ pos \in Nat /\ wire \in Seq(Nat) /\ body \in Seq(Nat)

(* https_get on Windows: when it returns, wherever that is, each handle    *)
(* that has been opened is among those it closes, none is closed that has  *)
(* not been opened, and from one call to the next none is open.            *)
HandlesClosed ==
    /\ doing \in DOMAIN Closes => Closes[doing] = handles
    /\ doing \notin DOMAIN Closes => handles = {}

(* decode_chunked: what arrives over a plain connection up to its end is   *)
(* taken whole, in chunks or not.                                          *)
Arrived(sent) == doing \in {"response", "error", "panic"} /\ reply.status = 200 /\ wire = sent
Whole == doing = "response" /\ body = reply.body
PlainWhole == url.scheme = "http" /\ platform = "linux" /\ Arrived(OnWire(reply)) => Whole

(* http.rs:2, "Handles HTTP/1.1 GET requests, chunked transfer encoding":  *)
(* the same of what curl has printed up to its end.                        *)
ChunkedHandled == url.scheme = "https" /\ platform = "linux" /\ Arrived(reply.body) => Whole

=============================================================================
