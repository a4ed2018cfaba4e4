-------------------------- MODULE Download_proofs ---------------------------
(***************************************************************************)
(* What a pull does with its token, its handles, the platform and the      *)
(* bytes of a layer, whatever the servers answer, whatever the layers      *)
(* contain and however many redirects are followed.  The second half is    *)
(* about the layers: that decompress, bit by bit, has read what the format *)
(* says it has by then.                                                    *)
(***************************************************************************)
EXTENDS Download, Deflate, SequenceTheorems, FiniteSetTheorems, WellFoundedInduction, TLAPS

----------------------------------------------------------------------------
(* The handles *)

All == {"session", "connect", "request"}

(* What is open at each step of a call. *)
OpenAt(step) ==
    CASE step = "WinHttpConnect" -> {"session"}
      [] step = "WinHttpOpenRequest" -> {"session", "connect"}
      [] step \in {"WinHttpSendRequest", "WinHttpReceiveResponse", "WinHttpReadData"} -> All
      [] OTHER -> {}

HandlesInv == handles = OpenAt(doing)

Between == doing \in {"idle", "hop", "raw", "curl", "follow", "parse", "chunks", "response", "answer", "error", "panic"}

LEMMA BetweenCalls == ASSUME HandlesInv, Between PROVE handles = {}
BY DEF HandlesInv, OpenAt, Between

(* A step from outside WinHTTP to outside it that leaves the handles alone.*)
LEMMA Untouched ==
    ASSUME HandlesInv, Between, Between', handles' = handles
    PROVE  HandlesInv'
BY DEF HandlesInv, OpenAt, Between

LEMMA Closed == ASSUME handles' = {}, Between' PROVE HandlesInv'
BY DEF HandlesInv, OpenAt, Between

(* The list of each return is what is open there. *)
LEMMA ListsRight == \A step \in DOMAIN Closes : Closes[step] = OpenAt(step)
BY DEF Closes, OpenAt, All

LEMMA ClosesAll ==
    ASSUME HandlesInv, doing \in DOMAIN Closes, CloseHandles
    PROVE  handles' = {}
<1>1. Closes[doing] = handles
    BY ListsRight DEF HandlesInv
<1> QED
    BY <1>1 DEF CloseHandles

LEMMA FailBetween == ASSUME Fail PROVE Between'
BY DEF Fail, Between

LEMMA HttpHandles ==
    ASSUME HandlesInv, HttpNext
    PROVE  HandlesInv'
<1>1. CASE Hop
    <2>1. Between BY <1>1 DEF Hop, Between
    <2>2. CASE Fail
        BY <1>1, <2>1, <2>2, FailBetween, Untouched DEF Hop, Fail
    <2>3. CASE ~Fail
        <3>1. doing' \in {"WinHttpOpen", "raw", "curl"} /\ handles' = handles
            BY <1>1, <2>3 DEF Hop
        <3> QED
            BY <2>1, <3>1, BetweenCalls DEF HandlesInv, OpenAt
    <2> QED
        BY <2>2, <2>3
<1>2. CASE Redirect
    <2>1. Between /\ Between' /\ handles' = handles
        BY <1>2 DEF Redirect, Between
    <2> QED
        BY <2>1, Untouched
<1>3. CASE RawGet \/ CurlGet \/ CurlFollow \/ CurlEnd
    <2>1. Between /\ Between' /\ handles' = handles
        BY <1>3 DEF RawGet, CurlGet, CurlFollow, CurlEnd, Fail, Between
    <2> QED
        BY <2>1, Untouched
<1>4. CASE Parse \/ Chunk
    <2>1. Between /\ Between' /\ handles' = handles
        BY <1>4 DEF Parse, Chunk, Between
    <2> QED
        BY <2>1, Untouched
<1>5. CASE OpenHandle
    <2>1. CASE Fail /\ CloseHandles
        <3>1. doing \in DOMAIN Closes
            BY <1>5 DEF OpenHandle, Opens, Closes
        <3> QED
            BY <2>1, <3>1, ClosesAll, FailBetween, Closed
    <2>2. CASE ~(Fail /\ CloseHandles)
        <3>1. doing \in {"WinHttpOpen", "WinHttpConnect", "WinHttpOpenRequest"}
            BY <1>5 DEF OpenHandle, Opens
        <3>2. handles' = handles \cup {Opens[doing]} /\ doing' = Then[doing]
            BY <1>5, <2>2 DEF OpenHandle
        <3>3. CASE doing = "WinHttpOpen"
            BY <3>2, <3>3 DEF Opens, Then, HandlesInv, OpenAt
        <3>4. CASE doing = "WinHttpConnect"
            BY <3>2, <3>4 DEF Opens, Then, HandlesInv, OpenAt
        <3>5. CASE doing = "WinHttpOpenRequest"
            BY <3>2, <3>5 DEF Opens, Then, HandlesInv, OpenAt, All
        <3> QED
            BY <3>1, <3>3, <3>4, <3>5
    <2> QED
        BY <2>1, <2>2
<1>6. CASE SendRequest
    <2>1. CASE Fail /\ CloseHandles
        <3>1. doing \in DOMAIN Closes
            BY <1>6 DEF SendRequest, Closes
        <3> QED
            BY <2>1, <3>1, ClosesAll, FailBetween, Closed
    <2>2. CASE ~(Fail /\ CloseHandles)
        BY <1>6, <2>2 DEF SendRequest, Then, HandlesInv, OpenAt
    <2> QED
        BY <2>1, <2>2
<1>7. CASE ReceiveResponse
    <2>1. CASE Fail /\ CloseHandles
        <3>1. doing \in DOMAIN Closes
            BY <1>7 DEF ReceiveResponse, Closes
        <3> QED
            BY <2>1, <3>1, ClosesAll, FailBetween, Closed
    <2>2. CASE ~(Fail /\ CloseHandles)
        BY <1>7, <2>2 DEF ReceiveResponse, HandlesInv, OpenAt
    <2> QED
        BY <2>1, <2>2
<1>8. CASE ReadData
    <2>1. CASE doing' = "response" /\ CloseHandles
        <3>1. doing \in DOMAIN Closes
            BY <1>8 DEF ReadData, Closes
        <3>2. Between'
            BY <2>1 DEF Between
        <3> QED
            BY <2>1, <3>1, <3>2, ClosesAll, Closed
    <2>2. CASE UNCHANGED <<doing, handles>>
        BY <2>2 DEF HandlesInv, OpenAt
    <2> QED
        BY <1>8, <2>1, <2>2 DEF ReadData
<1> QED
    BY <1>1, <1>2, <1>3, <1>4, <1>5, <1>6, <1>7, <1>8 DEF HttpNext

LEMMA AskHandles ==
    ASSUME HandlesInv, NEW r, NEW t, NEW f, Ask(r, t, f)
    PROVE  HandlesInv'
<1>1. Between /\ Between' /\ handles' = handles
    BY DEF Ask, Between
<1> QED
    BY <1>1, Untouched

LEMMA GiveHandles ==
    ASSUME HandlesInv, Between, NEW result, Give(result)
    PROVE  HandlesInv'
<1>1. Between' /\ handles' = handles
    BY DEF Give, Between
<1> QED
    BY <1>1, Untouched

LEMMA PullHandles ==
    ASSUME HandlesInv, PullNext
    PROVE  HandlesInv'
<1>1. ASSUME NEW step, Answered(step) PROVE Between
    BY <1>1 DEF Answered, Between
<1>2. CASE Start \/ Challenged
    BY <1>1, <1>2, AskHandles, GiveHandles DEF Start, Challenged, Request
<1>3. CASE GetToken
    BY <1>1, <1>3, AskHandles, GiveHandles DEF GetToken, Request
<1>4. CASE FetchManifest \/ FetchByDigest
    <2>1. Between
        BY <1>1, <1>4 DEF FetchManifest, FetchByDigest
    <2>2. ASSUME ParseManifest PROVE HandlesInv'
        BY <2>1, <2>2, GiveHandles DEF ParseManifest
    <2>3. ASSUME ResolveManifestList PROVE HandlesInv'
        BY <2>1, <2>3, AskHandles, GiveHandles DEF ResolveManifestList, Request
    <2> QED
        BY <1>4, <2>1, <2>2, <2>3, GiveHandles DEF FetchManifest, FetchByDigest
<1>5. CASE NextLayer
    BY <1>5, AskHandles DEF NextLayer, Request, httpVars, HandlesInv
<1>6. CASE GetBlob
    BY <1>1, <1>6, GiveHandles DEF GetBlob
<1>7. CASE CallFails
    <2>1. Between BY <1>7 DEF CallFails, Between
    <2> QED
        BY <1>7, <2>1, GiveHandles DEF CallFails
<1>8. CASE HttpNext /\ UNCHANGED pullVars
    BY <1>8, HttpHandles
<1> QED
    BY <1>2, <1>3, <1>4, <1>5, <1>6, <1>7, <1>8 DEF PullNext

LEMMA HandlesStep ==
    ASSUME HandlesInv, [Next]_downloadVars
    PROVE  HandlesInv'
<1>1. CASE ExtractLayer \/ Extracted
    BY <1>1 DEF ExtractLayer, Extracted, httpVars, HandlesInv
<1>2. CASE UNCHANGED httpVars
    BY <1>2 DEF httpVars, HandlesInv
<1>3. CASE Network
    BY <1>3, PullHandles DEF Network
<1>4. CASE UNCHANGED downloadVars
    BY <1>2, <1>4 DEF downloadVars
<1> QED
    BY <1>1, <1>2, <1>3, <1>4 DEF Next

LEMMA HandlesImply == HandlesInv => HandlesClosed
<1> SUFFICES ASSUME HandlesInv PROVE HandlesClosed
    OBVIOUS
<1>1. doing \in DOMAIN Closes => Closes[doing] = handles
    BY ListsRight DEF HandlesInv
<1>2. doing \notin DOMAIN Closes => handles = {}
    BY DEF HandlesInv, OpenAt, Closes
<1> QED
    BY <1>1, <1>2 DEF HandlesClosed

(* https_get on Windows: whichever function fails, the handles that are    *)
(* closed at its return are those that are open there, neither more nor    *)
(* fewer.                                                                  *)
THEOREM HandlesAlwaysClosed == Spec => []HandlesClosed
<1>1. Init => HandlesInv
    BY DEF Init, PullInit, HttpInit, HandlesInv, OpenAt
<1>2. Init /\ [][Next]_downloadVars => []HandlesInv
    BY <1>1, HandlesStep, PTL
<1> QED
    BY <1>2, HandlesImply, PTL DEF Spec

----------------------------------------------------------------------------
(* Induction, for sets of numbers. *)

Below == {ss \in Nat \X Nat : ss[1] < ss[2]}

LEMMA BelowWellFounded == IsWellFoundedOn(Below, Nat)
BY NatLessThanWellFounded DEF OpToRel, Below

LEMMA Least ==
    ASSUME NEW T, T \subseteq Nat, T # {}
    PROVE  \E n \in T : \A m \in T : n <= m
<1>1. PICK n \in T : \A m \in T : <<m, n>> \notin Below
    BY WFMin, BelowWellFounded
<1>2. ASSUME NEW m \in T, m < n PROVE FALSE
    <2>1. <<m, n>> \in Below
        BY <1>2 DEF Below
    <2> QED
        BY <1>1, <2>1
<1> QED
    BY <1>1, <1>2

LEMMA Induction ==
    ASSUME NEW n \in Nat, NEW S, 0 \in S, \A k \in 0..(n - 1) : k \in S => k + 1 \in S
    PROVE  0..n \subseteq S
<1> DEFINE T == (0..n) \ S
<1> SUFFICES ASSUME T # {} PROVE FALSE
    OBVIOUS
<1>1. PICK k \in T : \A m \in T : k <= m
    <2>1. T \subseteq Nat
        OBVIOUS
    <2> HIDE DEF T
    <2> QED
        BY <2>1, Least
<1>2. k # 0 /\ k \in 1..n
    BY <1>1
<1>3. k - 1 \in 0..(n - 1) /\ k - 1 \notin T /\ k - 1 \in 0..n
    BY <1>1, <1>2
<1>4. k - 1 \in S /\ k - 1 + 1 = k
    BY <1>2, <1>3
<1> QED
    BY <1>1, <1>3, <1>4

----------------------------------------------------------------------------
(* A body in chunks *)

Bytes == 0..255

FirstStep(bytes, first, k) == IF k = 0 THEN <<>> ELSE first[k - 1] \o OneChunk(Part(bytes, k))
IsFirst(bytes, first, n) == first = [k \in 0..n |-> FirstStep(bytes, first, k)]

LEMMA FirstExtends ==
    ASSUME NEW bytes, NEW n \in Nat, NEW g, IsFirst(bytes, g, n)
    PROVE  \E h : IsFirst(bytes, h, n + 1)
<1> DEFINE h == [k \in 0..(n + 1) |-> IF k = n + 1 THEN FirstStep(bytes, g, n + 1) ELSE g[k]]
<1>1. \A k \in 0..n : h[k] = g[k]
    OBVIOUS
<1>2. \A k \in 0..n : g[k] = FirstStep(bytes, g, k)
    BY DEF IsFirst
<1>3. ASSUME NEW k \in 0..(n + 1) PROVE FirstStep(bytes, h, k) = FirstStep(bytes, g, k)
    <2>1. k # 0 => k - 1 \in 0..n
        OBVIOUS
    <2> QED
        BY <1>1, <2>1 DEF FirstStep
<1>4. ASSUME NEW k \in 0..(n + 1) PROVE h[k] = FirstStep(bytes, h, k)
    <2>1. CASE k = n + 1
        BY <1>3, <2>1
    <2>2. CASE k # n + 1
        <3>1. k \in 0..n
            BY <2>2
        <3> QED
            BY <3>1, <1>1, <1>2, <1>3
    <2> QED
        BY <2>1, <2>2
<1>5. h = [k \in 0..(n + 1) |-> h[k]]
    OBVIOUS
<1> HIDE DEF h
<1>6. IsFirst(bytes, h, n + 1)
    BY <1>4, <1>5 DEF IsFirst
<1> QED
    BY <1>6

LEMMA FirstExists ==
    ASSUME NEW bytes, NEW n \in Nat
    PROVE  \E first : IsFirst(bytes, first, n)
<1> DEFINE S == {k \in Nat : \E first : IsFirst(bytes, first, k)}
<1>1. 0 \in S
    <2> DEFINE g == [k \in 0..0 |-> <<>>]
    <2>1. \A k \in 0..0 : k = 0
        OBVIOUS
    <2>2. IsFirst(bytes, g, 0)
        BY <2>1 DEF IsFirst, FirstStep
    <2> QED
        BY <2>2
<1>2. \A k \in 0..(n - 1) : k \in S => k + 1 \in S
    BY FirstExtends
<1> HIDE DEF S
<1>3. 0..n \subseteq S
    BY <1>1, <1>2, Induction
<1>4. n \in S
    BY <1>3
<1> QED
    BY <1>4 DEF S

LEMMA FirstUnfolds ==
    ASSUME NEW bytes, ChunkCount(bytes) \in Nat
    PROVE  /\ FirstChunks(bytes)[0] = <<>>
           /\ \A k \in 1..ChunkCount(bytes) :
                 FirstChunks(bytes)[k] = FirstChunks(bytes)[k - 1] \o OneChunk(Part(bytes, k))
<1> DEFINE n == ChunkCount(bytes)
<1>1. FirstChunks(bytes) = CHOOSE first : IsFirst(bytes, first, n)
    BY DEF FirstChunks, IsFirst, FirstStep
<1>2. IsFirst(bytes, FirstChunks(bytes), n)
    BY <1>1, FirstExists
<1> HIDE DEF n
<1>3. \A k \in 0..n : FirstChunks(bytes)[k] = FirstStep(bytes, FirstChunks(bytes), k)
    BY <1>2 DEF IsFirst
<1>4. 0 \in 0..n /\ \A k \in 1..n : k \in 0..n /\ k # 0
    BY DEF n
<1> QED
    BY <1>3, <1>4 DEF FirstStep, n

(* A part of n times m is a whole number of times n, and perhaps a rest. *)
LEMMA Products ==
    ASSUME NEW c \in Nat \ {0}, NEW k \in Nat, NEW m \in Nat, k <= m
    PROVE  /\ k * c \in Nat /\ k * c <= m * c /\ (k + 1) * c = k * c + c
           /\ k < m => k * c + c <= m * c
<1>1. PICK d \in Nat : m = k + d
    <2>1. m - k \in Nat /\ m = k + (m - k)
        OBVIOUS
    <2> QED
        BY <2>1
<1>2. k * c \in Nat /\ d * c \in Nat /\ m * c = k * c + d * c /\ (k + 1) * c = k * c + c
    BY <1>1
<1>3. d # 0 => d * c >= c
    <2>1. ASSUME d # 0 PROVE d * c >= c
        <3>1. d - 1 \in Nat
            BY <2>1
        <3>2. (d - 1) * c \in Nat
            BY <3>1
        <3>3. d * c = (d - 1) * c + c
            BY <3>1
        <3> QED
            BY <3>2, <3>3
    <2> QED
        BY <2>1
<1> QED
    BY <1>1, <1>2, <1>3

LEMMA CountBounds ==
    ASSUME NEW bytes \in Seq(Bytes)
    PROVE  /\ Len(bytes) \in Nat /\ ChunkCount(bytes) \in Nat
           /\ Len(bytes) <= ChunkCount(bytes) * ChunkSize
           /\ ChunkCount(bytes) * ChunkSize < Len(bytes) + ChunkSize
<1>1. Len(bytes) \in Nat /\ ChunkSize \in Nat /\ ChunkSize > 0
    BY LenProperties, HttpAssumption
<1> DEFINE a == Len(bytes) + ChunkSize - 1
           n == a \div ChunkSize
<1>2. a \in Nat
    BY <1>1
<1> HIDE DEF a
<1>3. n \in Int /\ n * ChunkSize <= a /\ a < n * ChunkSize + ChunkSize
    BY <1>1, <1>2
<1>4. n \in Nat
    BY <1>1, <1>2, <1>3
<1> QED
    BY <1>1, <1>3, <1>4 DEF a, ChunkCount

(* Where the first parts of a body end, and what the next one is. *)
End(bytes, k) == IF k = ChunkCount(bytes) THEN Len(bytes) ELSE k * ChunkSize
NextPart(bytes, k) == IF k = ChunkCount(bytes) THEN <<>> ELSE Part(bytes, k + 1)

LEMMA Ends ==
    ASSUME NEW bytes \in Seq(Bytes), NEW k \in 0..ChunkCount(bytes)
    PROVE  /\ End(bytes, k) \in 0..Len(bytes) /\ End(bytes, 0) = 0
           /\ k # ChunkCount(bytes) => End(bytes, k) = k * ChunkSize /\ End(bytes, k) < End(bytes, k + 1)
<1> DEFINE n == ChunkCount(bytes)
           c == ChunkSize
<1>1. /\ Len(bytes) \in Nat /\ n \in Nat /\ Len(bytes) <= n * c /\ n * c < Len(bytes) + c
      /\ c \in Nat \ {0}
    BY CountBounds, HttpAssumption
<1> HIDE DEF n, c
<1>2. ASSUME NEW j \in 0..n, j # n PROVE j * c \in Nat /\ j * c < Len(bytes) /\ (j + 1) * c = j * c + c
    <2>1. j \in Nat /\ j < n
        BY <1>1, <1>2
    <2>2. j * c \in Nat /\ (j + 1) * c = j * c + c /\ j * c + c <= n * c
        BY <2>1, <1>1, Products
    <2>3. n * c \in Nat
        BY <1>1
    <2> QED
        BY <2>2, <2>3, <1>1
<1>3. End(bytes, k) \in 0..Len(bytes)
    BY <1>1, <1>2 DEF End, n, c
<1>4. End(bytes, 0) = 0
    <2>1. CASE n = 0
        <3>1. 0 * c = 0
            BY <1>1
        <3>2. Len(bytes) = 0
            BY <2>1, <3>1, <1>1
        <3> QED
            BY <2>1, <3>2 DEF End, n
    <2>2. CASE n # 0
        <3>1. 0 * c = 0
            BY <1>1
        <3> QED
            BY <2>2, <3>1 DEF End, n, c
    <2> QED
        BY <2>1, <2>2
<1>5. ASSUME k # n PROVE End(bytes, k) = k * c /\ End(bytes, k) < End(bytes, k + 1)
    <2>1. End(bytes, k) = k * c
        BY <1>5 DEF End, n, c
    <2>2. k * c < Len(bytes) /\ k * c \in Nat /\ (k + 1) * c = k * c + c
        BY <1>2, <1>5 DEF n
    <2>3. End(bytes, k + 1) = Len(bytes) \/ End(bytes, k + 1) = (k + 1) * c
        BY DEF End, c
    <2> QED
        BY <2>1, <2>2, <2>3, <1>1
<1> QED
    BY <1>3, <1>4, <1>5 DEF n, c

LEMMA PartIs ==
    ASSUME NEW bytes, NEW k \in 1..ChunkCount(bytes), (k - 1) * ChunkSize = End(bytes, k - 1)
    PROVE  Part(bytes, k) = SubSeq(bytes, End(bytes, k - 1) + 1, End(bytes, k))
BY DEF Part, End

LEMMA NextParts ==
    ASSUME NEW bytes \in Seq(Bytes), NEW k \in 0..ChunkCount(bytes)
    PROVE  LET part == NextPart(bytes, k)
           IN  /\ part \in Seq(Bytes)
               /\ k = ChunkCount(bytes) => Len(part) = 0
               /\ k # ChunkCount(bytes) =>
                    /\ k + 1 \in 1..ChunkCount(bytes) /\ Len(part) > 0
                    /\ End(bytes, k + 1) = End(bytes, k) + Len(part)
                    /\ \A i \in 1..Len(part) : part[i] = bytes[End(bytes, k) + i]
<1> DEFINE part == NextPart(bytes, k)
           a == End(bytes, k)
           b == End(bytes, k + 1)
<1>1. CASE k = ChunkCount(bytes)
    BY <1>1 DEF NextPart
<1>2. CASE k # ChunkCount(bytes)
    <2>1. k + 1 \in 1..ChunkCount(bytes) /\ k + 1 \in 0..ChunkCount(bytes) /\ k + 1 - 1 = k
        BY <1>2, CountBounds
    <2>2. a = k * ChunkSize /\ a < b /\ a \in 0..Len(bytes) /\ b \in 0..Len(bytes) /\ Len(bytes) \in Nat
        BY <1>2, <2>1, Ends, CountBounds
    <2>3. part = SubSeq(bytes, a + 1, b)
        <3> DEFINE j == k + 1
        <3>1. part = Part(bytes, j)
            BY <1>2 DEF NextPart
        <3>2. j \in 1..ChunkCount(bytes) /\ j - 1 = k /\ (j - 1) * ChunkSize = End(bytes, j - 1)
            BY <2>1, <2>2
        <3> HIDE DEF j, part
        <3>3. part = SubSeq(bytes, End(bytes, j - 1) + 1, End(bytes, j))
            BY <3>1, <3>2, PartIs
        <3> QED
            BY <3>2, <3>3 DEF j
    <2> HIDE DEF part, a, b
    <2>4. \A i \in (a + 1)..b : bytes[i] \in Bytes
        <3>1. \A i \in (a + 1)..b : i \in 1..Len(bytes)
            BY <2>2
        <3> QED
            BY <3>1, ElementOfSeq
    <2>5. /\ SubSeq(bytes, a + 1, b) \in Seq(Bytes)
          /\ Len(SubSeq(bytes, a + 1, b)) = IF a + 1 <= b THEN b - (a + 1) + 1 ELSE 0
          /\ \A i \in 1..(b - (a + 1) + 1) : SubSeq(bytes, a + 1, b)[i] = bytes[a + 1 + i - 1]
        <3>1. a + 1 \in Int /\ b \in Int
            BY <2>2
        <3> QED
            BY <3>1, <2>4, SubSeqProperties
    <2>6. part \in Seq(Bytes) /\ Len(part) = b - a
        BY <2>2, <2>3, <2>5
    <2>7. \A i \in 1..Len(part) : part[i] = bytes[a + i]
        <3>1. \A i \in 1..(b - a) : i \in 1..(b - (a + 1) + 1) /\ a + 1 + i - 1 = a + i
            BY <2>2
        <3> QED
            BY <3>1, <2>3, <2>5, <2>6
    <2>8. Len(part) > 0 /\ b = a + Len(part)
        BY <2>2, <2>6
    <2> QED
        BY <1>2, <2>1, <2>6, <2>7, <2>8 DEF part, a, b
<1> QED
    BY <1>1, <1>2

LEMMA Joined ==
    ASSUME NEW s \in Seq(Nat), NEW t \in Seq(Nat)
    PROVE  /\ s \o t \in Seq(Nat) /\ Len(s \o t) = Len(s) + Len(t) /\ Len(s) \in Nat /\ Len(t) \in Nat
           /\ \A i \in 1..Len(s) : (s \o t)[i] = s[i]
           /\ \A i \in 1..Len(t) : (s \o t)[Len(s) + i] = t[i]
<1>1. Len(s) \in Nat /\ Len(t) \in Nat
    BY LenProperties
<1>2. /\ s \o t \in Seq(Nat) /\ Len(s \o t) = Len(s) + Len(t)
      /\ \A i \in 1..(Len(s) + Len(t)) : (s \o t)[i] = IF i <= Len(s) THEN s[i] ELSE t[i - Len(s)]
    BY ConcatProperties
<1>3. \A i \in 1..Len(t) : Len(s) + i \in 1..(Len(s) + Len(t)) /\ ~(Len(s) + i <= Len(s)) /\ Len(s) + i - Len(s) = i
    BY <1>1
<1> QED
    BY <1>1, <1>2, <1>3

LEMMA ChunkShape ==
    ASSUME NEW part \in Seq(Bytes)
    PROVE  /\ OneChunk(part) \in Seq(Nat) /\ Len(OneChunk(part)) = Len(part) + 5
           /\ OneChunk(part)[1] = 256 + Len(part) /\ OneChunk(part)[2] = 13 /\ OneChunk(part)[3] = 10
           /\ \A i \in 1..Len(part) : OneChunk(part)[3 + i] = part[i]
<1>1. Len(part) \in Nat /\ part \in Seq(Nat)
    <2>1. Bytes \subseteq Nat
        BY DEF Bytes
    <2> QED
        BY <2>1, SeqMonotonic, LenProperties
<1> DEFINE line == SizeLine(Len(part))
           end == Crlf
<1>2. line = <<256 + Len(part), 13, 10>>
    BY DEF SizeLine
<1>3. /\ line \in Seq(Nat) /\ Len(line) = 3 /\ line[1] = 256 + Len(part) /\ line[2] = 13 /\ line[3] = 10
      /\ end \in Seq(Nat) /\ Len(end) = 2
    BY <1>1, <1>2 DEF Crlf
<1> HIDE DEF line, end
<1> DEFINE begin == line \o part
<1>4. /\ begin \in Seq(Nat) /\ Len(begin) = 3 + Len(part)
      /\ \A i \in 1..3 : begin[i] = line[i]
      /\ \A i \in 1..Len(part) : begin[3 + i] = part[i]
    <2>1. line \in Seq(Nat) /\ part \in Seq(Nat)
        BY <1>1, <1>3
    <2>2. /\ begin \in Seq(Nat) /\ Len(begin) = Len(line) + Len(part)
          /\ \A i \in 1..Len(line) : begin[i] = line[i]
          /\ \A i \in 1..Len(part) : begin[Len(line) + i] = part[i]
        BY <2>1, Joined
    <2> HIDE DEF begin
    <2> QED
        BY <2>2, <1>3
<1> HIDE DEF begin
<1> DEFINE whole == begin \o end
<1>5. /\ whole \in Seq(Nat) /\ Len(whole) = 3 + Len(part) + 2
      /\ \A i \in 1..(3 + Len(part)) : whole[i] = begin[i]
    <2>1. begin \in Seq(Nat) /\ end \in Seq(Nat)
        BY <1>3, <1>4
    <2>2. /\ whole \in Seq(Nat) /\ Len(whole) = Len(begin) + Len(end)
          /\ \A i \in 1..Len(begin) : whole[i] = begin[i]
        BY <2>1, Joined
    <2> HIDE DEF whole
    <2> QED
        BY <2>2, <1>3, <1>4
<1>6. OneChunk(part) = whole
    BY DEF OneChunk, line, begin, end
<1> HIDE DEF whole
<1>7. /\ \A i \in 1..Len(part) : 3 + i \in 1..(3 + Len(part))
      /\ \A i \in 1..3 : i \in 1..(3 + Len(part))
      /\ 1 \in 1..3 /\ 2 \in 1..3 /\ 3 \in 1..3
    BY <1>1
<1>8. /\ \A i \in 1..3 : whole[i] = line[i]
      /\ \A i \in 1..Len(part) : whole[3 + i] = part[i]
    BY <1>4, <1>5, <1>7
<1>9. Len(whole) = Len(part) + 5
    BY <1>1, <1>5
<1> QED
    BY <1>3, <1>5, <1>6, <1>7, <1>8, <1>9

(* The chunks that follow the first k of them begin with the next one. *)
Follows(bytes, k) == FirstChunks(bytes)[k] \o OneChunk(NextPart(bytes, k))

LEMMA FirstIsSeq ==
    ASSUME NEW bytes \in Seq(Bytes), NEW k \in 0..ChunkCount(bytes)
    PROVE  /\ FirstChunks(bytes)[k] \in Seq(Nat)
           /\ k # ChunkCount(bytes) => FirstChunks(bytes)[k + 1] = Follows(bytes, k)
           /\ k = ChunkCount(bytes) => Chunks(bytes) = Follows(bytes, k)
<1> DEFINE n == ChunkCount(bytes)
           first == FirstChunks(bytes)
           S == {j \in Nat : first[j] \in Seq(Nat)}
<1>1. n \in Nat /\ k \in 0..n
    BY CountBounds
<1>2. /\ first[0] = <<>>
      /\ \A j \in 1..n : first[j] = first[j - 1] \o OneChunk(Part(bytes, j))
    BY <1>1, FirstUnfolds
<1>3. ASSUME NEW j \in 0..n, j # n PROVE first[j + 1] = Follows(bytes, j)
    <2>1. j + 1 \in 1..n /\ j + 1 - 1 = j
        BY <1>1, <1>3
    <2>2. first[j + 1] = first[j] \o OneChunk(Part(bytes, j + 1))
        <3> DEFINE m == j + 1
        <3>1. m \in 1..n /\ m - 1 = j
            BY <2>1
        <3> HIDE DEF m, first, n
        <3>2. first[m] = first[m - 1] \o OneChunk(Part(bytes, m))
            BY <1>2, <3>1
        <3>3. first[m] = first[j] \o OneChunk(Part(bytes, m))
            BY <3>1, <3>2
        <3> QED
            BY <3>3 DEF m
    <2> QED
        BY <2>2, <1>3 DEF Follows, NextPart
<1>4. 0 \in S
    <2>1. <<>> \in Seq(Nat)
        OBVIOUS
    <2> QED
        BY <2>1, <1>2
<1>5. ASSUME NEW j \in 0..(n - 1), j \in S PROVE j + 1 \in S
    <2>1. j \in 0..n /\ j # n /\ j + 1 \in Nat /\ first[j] \in Seq(Nat)
        BY <1>1, <1>5
    <2>2. OneChunk(NextPart(bytes, j)) \in Seq(Nat)
        BY <2>1, NextParts, ChunkShape
    <2>3. first[j + 1] = first[j] \o OneChunk(NextPart(bytes, j))
        BY <1>3, <2>1 DEF Follows
    <2> HIDE DEF first
    <2>4. first[j] \o OneChunk(NextPart(bytes, j)) \in Seq(Nat)
        BY <2>1, <2>2, Joined
    <2> QED
        BY <2>1, <2>3, <2>4
<1> HIDE DEF S, n
<1>6. 0..n \subseteq S
    BY <1>1, <1>4, <1>5, Induction
<1>7. first[k] \in Seq(Nat)
    BY <1>1, <1>6 DEF S
<1>8. k = n => Chunks(bytes) = Follows(bytes, k)
    BY DEF Chunks, Follows, NextPart, n
<1> QED
    BY <1>1, <1>3, <1>7, <1>8 DEF n

(* What follows the first of them is there in the whole. *)
Within(bytes, s) ==
    Len(s) <= Len(Chunks(bytes)) /\ \A i \in 1..Len(s) : Chunks(bytes)[i] = s[i]

LEMMA FollowsIs ==
    ASSUME NEW bytes \in Seq(Bytes), NEW k \in 0..ChunkCount(bytes)
    PROVE  LET first == FirstChunks(bytes)[k]
               next == OneChunk(NextPart(bytes, k))
           IN  /\ first \in Seq(Nat) /\ next \in Seq(Nat) /\ Len(first) \in Nat /\ Len(next) \in Nat
               /\ Follows(bytes, k) \in Seq(Nat) /\ Len(Follows(bytes, k)) = Len(first) + Len(next)
               /\ \A i \in 1..Len(first) : Follows(bytes, k)[i] = first[i]
               /\ \A i \in 1..Len(next) : Follows(bytes, k)[Len(first) + i] = next[i]
<1> DEFINE first == FirstChunks(bytes)[k]
           next == OneChunk(NextPart(bytes, k))
<1>1. first \in Seq(Nat) /\ next \in Seq(Nat)
    BY FirstIsSeq, NextParts, ChunkShape
<1>2. Follows(bytes, k) = first \o next
    BY DEF Follows
<1> HIDE DEF first, next
<1>3. /\ first \o next \in Seq(Nat) /\ Len(first \o next) = Len(first) + Len(next)
      /\ Len(first) \in Nat /\ Len(next) \in Nat
      /\ \A i \in 1..Len(first) : (first \o next)[i] = first[i]
      /\ \A i \in 1..Len(next) : (first \o next)[Len(first) + i] = next[i]
    BY <1>1, Joined
<1> QED
    BY <1>1, <1>2, <1>3 DEF first, next

LEMMA FollowsWithin ==
    ASSUME NEW bytes \in Seq(Bytes), NEW k \in 0..ChunkCount(bytes)
    PROVE  Within(bytes, Follows(bytes, k)) /\ Chunks(bytes) \in Seq(Nat)
<1> DEFINE n == ChunkCount(bytes)
           S == {j \in Nat : n - j \in 0..n => Within(bytes, Follows(bytes, n - j))}
<1>1. n \in Nat /\ k \in 0..n
    BY CountBounds
<1>2. Chunks(bytes) = Follows(bytes, n) /\ Chunks(bytes) \in Seq(Nat) /\ Len(Chunks(bytes)) \in Nat
    <2>1. n \in 0..n
        BY <1>1
    <2>2. Chunks(bytes) = Follows(bytes, n) /\ Follows(bytes, n) \in Seq(Nat)
        BY <2>1, FirstIsSeq, FollowsIs DEF n
    <2> QED
        BY <2>2, LenProperties
<1>3. 0 \in S
    <2>1. Within(bytes, Chunks(bytes))
        BY <1>2 DEF Within
    <2>2. n - 0 = n
        BY <1>1
    <2> QED
        BY <2>1, <2>2, <1>2
<1>4. ASSUME NEW j \in 0..(n - 1), j \in S PROVE j + 1 \in S
    <2> DEFINE m == n - (j + 1)
    <2>1. m \in 0..n /\ m # n /\ m + 1 = n - j /\ n - j \in 0..n /\ m + 1 \in 0..n
        BY <1>1, <1>4
    <2>2. Within(bytes, Follows(bytes, m + 1))
        BY <1>4, <2>1
    <2>3. Within(bytes, Follows(bytes, m))
        <3> HIDE DEF m, n
        <3>1. FirstChunks(bytes)[m + 1] = Follows(bytes, m)
            BY <2>1, FirstIsSeq DEF n
        <3> DEFINE s == Follows(bytes, m)
                   t == Follows(bytes, m + 1)
        <3>2. /\ Len(s) \in Nat /\ Len(t) \in Nat /\ Len(s) <= Len(t)
              /\ \A i \in 1..Len(s) : t[i] = s[i]
            <4>1. /\ Len(FirstChunks(bytes)[m + 1]) \in Nat /\ Len(OneChunk(NextPart(bytes, m + 1))) \in Nat
                  /\ Len(t) = Len(FirstChunks(bytes)[m + 1]) + Len(OneChunk(NextPart(bytes, m + 1)))
                  /\ \A i \in 1..Len(FirstChunks(bytes)[m + 1]) : t[i] = FirstChunks(bytes)[m + 1][i]
                BY <2>1, FollowsIs DEF n
            <4> HIDE DEF s, t
            <4>2. FirstChunks(bytes)[m + 1] = s
                BY <3>1 DEF s
            <4>3. Len(s) \in Nat
                BY <4>1, <4>2
            <4> QED
                BY <4>1, <4>2, <4>3
        <3> HIDE DEF s, t
        <3>3. Len(t) <= Len(Chunks(bytes)) /\ \A i \in 1..Len(t) : Chunks(bytes)[i] = t[i]
            BY <2>2 DEF Within, t
        <3>4. Len(s) <= Len(Chunks(bytes)) /\ \A i \in 1..Len(s) : Chunks(bytes)[i] = s[i]
            BY <1>2, <3>2, <3>3
        <3> QED
            BY <3>4 DEF Within, s
    <2> QED
        BY <2>3, <1>4
<1> HIDE DEF S
<1>5. 0..n \subseteq S
    BY <1>1, <1>3, <1>4, Induction
<1>6. n - k \in S /\ n - (n - k) = k
    BY <1>1, <1>5
<1> QED
    BY <1>1, <1>2, <1>6 DEF S

\* Where decode_chunked is when it has read k chunks, and what it finds there.
Place(bytes, k) == Len(FirstChunks(bytes)[k])

Laid(bytes, k, whole, p, part) ==
    /\ p \in Nat /\ Len(part) \in Nat /\ whole \in Seq(Nat) /\ Len(whole) \in Nat
    /\ p + Len(part) + 5 <= Len(whole)
    /\ whole[p + 1] = 256 + Len(part) /\ whole[p + 2] = 13 /\ whole[p + 3] = 10
    /\ \A i \in 1..Len(part) : whole[p + 3 + i] = part[i]
    /\ k # ChunkCount(bytes) => Place(bytes, k + 1) = p + Len(part) + 5

LEMMA Layout ==
    ASSUME NEW bytes \in Seq(Bytes), NEW k \in 0..ChunkCount(bytes)
    PROVE  Laid(bytes, k, Chunks(bytes), Place(bytes, k), NextPart(bytes, k))
<1> DEFINE whole == Chunks(bytes)
           p == Place(bytes, k)
           part == NextPart(bytes, k)
           next == OneChunk(part)
           s == Follows(bytes, k)
<1>1. part \in Seq(Bytes)
    BY NextParts
<1>2. Len(part) \in Nat
    BY <1>1, LenProperties
<1> HIDE DEF part
<1>3. /\ Len(next) = Len(part) + 5
      /\ next[1] = 256 + Len(part) /\ next[2] = 13 /\ next[3] = 10
      /\ \A i \in 1..Len(part) : next[3 + i] = part[i]
    BY <1>1, ChunkShape
<1>4. p \in Nat /\ Len(s) = p + Len(next) /\ \A i \in 1..Len(next) : s[p + i] = next[i]
    BY FollowsIs DEF Place, part
<1>5. /\ whole \in Seq(Nat) /\ Len(s) <= Len(whole) /\ \A i \in 1..Len(s) : whole[i] = s[i]
    BY FollowsWithin DEF Within
<1>6. Len(whole) \in Nat
    BY <1>5, LenProperties
<1>7. k # ChunkCount(bytes) => Place(bytes, k + 1) = Len(s)
    BY FirstIsSeq DEF Place
<1> HIDE DEF s, p, whole, next
<1>8. Len(s) = p + Len(part) + 5
    BY <1>2, <1>3, <1>4
<1>9. ASSUME NEW i \in 1..(Len(part) + 5) PROVE whole[p + i] = next[i]
    <2>1. i \in 1..Len(next) /\ p + i \in 1..Len(s)
        BY <1>2, <1>3, <1>4, <1>8
    <2> QED
        BY <2>1, <1>4, <1>5
<1>10. whole[p + 1] = 256 + Len(part) /\ whole[p + 2] = 13 /\ whole[p + 3] = 10
    <2>1. 1 \in 1..(Len(part) + 5) /\ 2 \in 1..(Len(part) + 5) /\ 3 \in 1..(Len(part) + 5)
        BY <1>2
    <2> QED
        BY <2>1, <1>3, <1>9
<1>11. ASSUME NEW i \in 1..Len(part) PROVE whole[p + 3 + i] = part[i]
    <2>1. 3 + i \in 1..(Len(part) + 5) /\ p + (3 + i) = p + 3 + i
        BY <1>2, <1>4
    <2>2. whole[p + (3 + i)] = next[3 + i]
        BY <2>1, <1>9
    <2> QED
        BY <2>1, <2>2, <1>3
<1>12. p + Len(part) + 5 <= Len(whole) /\ (k # ChunkCount(bytes) => Place(bytes, k + 1) = p + Len(part) + 5)
    BY <1>5, <1>7, <1>8
<1>13. Laid(bytes, k, whole, p, part)
    BY <1>2, <1>4, <1>5, <1>6, <1>10, <1>11, <1>12 DEF Laid
<1> QED
    BY <1>13 DEF whole, p, part

LEMMA FirstPlace ==
    ASSUME NEW bytes \in Seq(Bytes)
    PROVE  Place(bytes, 0) = 0 /\ 0 \in 0..ChunkCount(bytes) /\ ChunkCount(bytes) \in 0..ChunkCount(bytes)
BY CountBounds, FirstUnfolds DEF Place

----------------------------------------------------------------------------
(* The beginning of a body *)

Begins(s, t) == Len(s) <= Len(t) /\ \A i \in 1..Len(s) : s[i] = t[i]

LEMMA BeginsWhole == \A s : Begins(s, s)
BY DEF Begins

LEMMA BeginsCut ==
    ASSUME NEW S, NEW t \in Seq(S), NEW s \in Cuts(t)
    PROVE  s \in Seq(S) /\ Begins(s, t) /\ Len(s) \in Nat /\ Len(t) \in Nat
<1>1. PICK n \in 0..Len(t) : s = SubSeq(t, 1, n)
    BY DEF Cuts
<1>2. Len(t) \in Nat /\ n \in Int
    BY LenProperties
<1>3. \A i \in 1..n : t[i] \in S
    <2>1. \A i \in 1..n : i \in 1..Len(t)
        BY <1>2
    <2> QED
        BY <2>1, ElementOfSeq
<1>4. /\ SubSeq(t, 1, n) \in Seq(S) /\ Len(SubSeq(t, 1, n)) = IF 1 <= n THEN n - 1 + 1 ELSE 0
      /\ \A i \in 1..(n - 1 + 1) : SubSeq(t, 1, n)[i] = t[1 + i - 1]
    BY <1>2, <1>3, SubSeqProperties
<1>5. Len(s) = n /\ s \in Seq(S)
    BY <1>1, <1>2, <1>4
<1>6. \A i \in 1..n : i \in 1..(n - 1 + 1) /\ 1 + i - 1 = i
    BY <1>2
<1>7. \A i \in 1..n : s[i] = t[i]
    BY <1>1, <1>4, <1>6
<1> QED
    BY <1>2, <1>5, <1>7 DEF Begins

----------------------------------------------------------------------------
(* A call, step by step *)

OnWindows == DOMAIN Then \cup {"WinHttpReceiveResponse", "WinHttpReadData"}
Requesting == {"raw", "curl", "WinHttpReceiveResponse"} \cup DOMAIN Then
Replied == {"follow", "parse", "chunks", "WinHttpReadData", "response", "answer"}
Calls == [resource : Resources, token : BOOLEAN, follow : BOOLEAN]

(* The URL of a request is a place of the resource that was asked for, and *)
(* a call that follows redirects has one left to follow.                   *)
CallInv ==
    /\ doing \in {"idle", "hop", "error", "panic"} \cup Requesting \cup Replied
    /\ call = NoCall \/ call \in Calls
    /\ doing # "idle" => call \in Calls
    /\ url \in Urls \cup {Nowhere, Malformed}
    /\ hops \in 0..MaxRedirects
    /\ asked.url \in Urls \cup {Nowhere} /\ asked.token \in BOOLEAN
    /\ doing = "hop" => url = Malformed \/ (url \in Urls /\ url.resource = call.resource)
    /\ doing \in Requesting \cup Replied =>
        /\ url \in Urls /\ url.resource = call.resource
        /\ call.follow => hops < MaxRedirects

ReplyInv ==
    /\ doing \in {"idle", "hop"} \cup Requesting => reply = NoReply /\ wire = <<>> /\ pos = 0 /\ body = <<>>
    /\ doing \in Replied => reply \in Replies(call.resource)
    /\ reply = NoReply \/ reply \in Replies(call.resource)
    /\ pos \in Nat /\ wire \in Seq(Nat) /\ body \in Seq(Nat)

(* Each step is one of its platform and its scheme. *)
PlatformInv ==
    /\ platform \in Platforms
    /\ doing \in OnWindows => platform = "windows"
    /\ doing \in {"raw", "curl", "follow", "parse", "chunks"} => platform = "linux"
    /\ doing = "raw" => url.scheme = "http"
    /\ doing = "curl" => url.scheme = "https"

(* What the connection carries, and how much of it has been decoded. *)
Carried == IF url.scheme = "http" THEN OnWire(reply) ELSE reply.body

HasRead(k) == pos = Place(reply.body, k) /\ Len(body) = End(reply.body, k) /\ Begins(body, reply.body)

BodyInv ==
    /\ doing \in {"follow", "parse", "chunks"} => wire \in Cuts(Carried)
    /\ doing \in {"follow", "parse"} => pos = 0 /\ body = <<>>
    /\ doing = "chunks" =>
        /\ reply.chunked
        /\ IF url.scheme = "http"
           THEN \E k \in 0..ChunkCount(reply.body) : HasRead(k)
           ELSE pos = 0 /\ body = <<>>
    /\ doing \in {"WinHttpReadData", "response", "answer"} => Begins(body, reply.body)

HttpInv == CallInv /\ ReplyInv /\ PlatformInv /\ BodyInv /\ PlainWhole

LEMMA ReplyIs ==
    ASSUME NEW r \in Resources, NEW answer \in Replies(r)
    PROVE  /\ answer.body \in Seq(Bytes) /\ answer.chunked \in BOOLEAN
           /\ answer.location \in Urls \cup {Nowhere, Malformed}
           /\ answer.location \in Urls => answer.location.resource = r
<1>1. <<>> \in Seq(Bytes)
    OBVIOUS
<1>2. Bodies[r] \subseteq Seq(Bytes)
    BY HttpAssumption DEF Bytes
<1>3. Nowhere \notin Urls /\ Malformed \notin Urls
    <2>1. "none" \notin Resources
        BY RegistryAssumption
    <2> QED
        BY <2>1 DEF Nowhere, Malformed, Urls
<1>4. CASE answer \in [status : {200}, location : {Nowhere}, chunked : BOOLEAN, body : Bodies[r]]
    BY <1>2, <1>3, <1>4
<1>5. CASE answer \in [status : {401, 404, 500}, location : {Nowhere}, chunked : {FALSE}, body : {<<>>}]
    <2>1. answer.location = Nowhere /\ answer.chunked = FALSE /\ answer.body = <<>>
        BY <1>5
    <2> QED
        BY <1>1, <1>3, <2>1
<1>6. CASE answer \in [status : {302}, location : {Nowhere, Malformed} \cup { u \in Urls : u.resource = r },
                       chunked : {FALSE}, body : {<<>>}]
    <2>1. /\ answer.location \in {Nowhere, Malformed} \cup { u \in Urls : u.resource = r }
          /\ answer.chunked = FALSE /\ answer.body = <<>>
        BY <1>6
    <2> QED
        BY <1>1, <1>3, <2>1
<1> DEFINE Given == [status : {200}, location : {Nowhere}, chunked : BOOLEAN, body : Bodies[r]]
           Denied == [status : {401, 404, 500}, location : {Nowhere}, chunked : {FALSE}, body : {<<>>}]
           Moved == [status : {302}, location : {Nowhere, Malformed} \cup { u \in Urls : u.resource = r },
                     chunked : {FALSE}, body : {<<>>}]
<1>7. Replies(r) = Given \cup Denied \cup Moved
    BY DEF Replies
<1> QED
    <2> HIDE DEF Given, Denied, Moved
    <2>1. CASE answer \in Given
        BY <1>4, <2>1 DEF Given
    <2>2. CASE answer \in Denied
        BY <1>5, <2>2 DEF Denied
    <2>3. CASE answer \in Moved
        BY <1>6, <2>3 DEF Moved
    <2> QED
        BY <1>7, <2>1, <2>2, <2>3

LEMMA CarriedIs ==
    ASSUME NEW r \in Resources, NEW answer \in Replies(r)
    PROVE  OnWire(answer) \in Seq(Nat) /\ answer.body \in Seq(Nat)
<1>1. answer.body \in Seq(Bytes) /\ Bytes \subseteq Nat
    BY ReplyIs DEF Bytes
<1>2. answer.body \in Seq(Nat)
    BY <1>1, SeqMonotonic
<1>3. Chunks(answer.body) \in Seq(Nat)
    BY <1>1, FirstPlace, FollowsWithin
<1> QED
    BY <1>2, <1>3 DEF OnWire

LEMMA NotReplied == NoReply.status = 0 /\ NoReply.chunked = FALSE
BY DEF NoReply

LEMMA NothingBegins == \A t : t \in Seq(Nat) => Begins(<<>>, t)
<1> SUFFICES ASSUME NEW t, t \in Seq(Nat) PROVE Begins(<<>>, t)
    OBVIOUS
<1>1. Len(t) \in Nat /\ Len(<<>>) = 0
    BY LenProperties
<1> QED
    BY <1>1 DEF Begins

LEMMA NoBytes == <<>> \in Seq(Nat) /\ 0 \in Nat /\ 0 \in 0..MaxRedirects
<1>1. MaxRedirects \in Nat
    BY HttpAssumption
<1>2. <<>> \in Seq(Nat)
    OBVIOUS
<1> QED
    BY <1>1, <1>2

----------------------------------------------------------------------------
(* The calls of the pull *)

LEMMA HttpStart == Init => HttpInv
<1> SUFFICES ASSUME Init PROVE HttpInv
    OBVIOUS
<1> USE DEF Init, PullInit, HttpInit
<1>1. CallInv
    BY NoBytes DEF CallInv, Requesting, Replied, Then, NotAsked
<1>2. ReplyInv
    BY NoBytes DEF ReplyInv, Replied
<1>3. PlatformInv
    BY DEF PlatformInv, OnWindows, Then
<1>4. BodyInv
    BY DEF BodyInv
<1>5. PlainWhole
    BY DEF PlainWhole, Arrived
<1> QED
    BY <1>1, <1>2, <1>3, <1>4, <1>5 DEF HttpInv

LEMMA AskKeeps ==
    ASSUME HttpInv, NEW r \in Resources, NEW bearer \in BOOLEAN, NEW follow \in BOOLEAN, Ask(r, bearer, follow)
    PROVE  HttpInv' /\ doing' = "hop" /\ call'.resource = r
<1>1. /\ doing' = "hop" /\ call' = [resource |-> r, token |-> bearer, follow |-> follow]
      /\ url' = Home[r] /\ hops' = 0 /\ reply' = NoReply /\ wire' = <<>> /\ pos' = 0 /\ body' = <<>>
      /\ asked' = NotAsked /\ platform' = platform
    BY DEF Ask
<1>2. call' \in Calls /\ call'.resource = r
    BY <1>1 DEF Calls
<1>3. Home[r] \in Urls /\ Home[r].resource = r
    BY HttpAssumption
<1>4. CallInv'
    BY <1>1, <1>2, <1>3, NoBytes DEF CallInv, Requesting, Replied, Then, NotAsked
<1>5. ReplyInv'
    BY <1>1, NoBytes DEF ReplyInv, Replied
<1>6. PlatformInv'
    BY <1>1 DEF HttpInv, PlatformInv, OnWindows, Then
<1>7. BodyInv'
    BY <1>1 DEF BodyInv
<1>8. PlainWhole'
    BY <1>1 DEF PlainWhole, Arrived
<1> QED
    BY <1>1, <1>2, <1>4, <1>5, <1>6, <1>7, <1>8 DEF HttpInv

LEMMA GiveKeeps ==
    ASSUME HttpInv, NEW result, Give(result)
    PROVE  HttpInv' /\ doing' = "idle"
<1>1. /\ doing' = "idle" /\ call' = NoCall /\ url' = Nowhere /\ hops' = 0 /\ asked' = NotAsked
      /\ reply' = NoReply /\ wire' = <<>> /\ pos' = 0 /\ body' = <<>> /\ platform' = platform
    BY DEF Give
<1>2. CallInv'
    BY <1>1, NoBytes DEF CallInv, Requesting, Replied, Then, NotAsked
<1>3. ReplyInv'
    BY <1>1, NoBytes DEF ReplyInv, Replied
<1>4. PlatformInv'
    BY <1>1 DEF HttpInv, PlatformInv, OnWindows, Then
<1>5. BodyInv'
    BY <1>1 DEF BodyInv
<1>6. PlainWhole'
    BY <1>1 DEF PlainWhole, Arrived
<1> QED
    BY <1>1, <1>2, <1>3, <1>4, <1>5, <1>6 DEF HttpInv

LEMMA HttpUnchanged ==
    ASSUME HttpInv, UNCHANGED httpVars
    PROVE  HttpInv'
<1> USE DEF httpVars
<1>1. CallInv'
    BY DEF HttpInv, CallInv, Requesting, Replied
<1>2. ReplyInv'
    BY DEF HttpInv, ReplyInv, Requesting, Replied
<1>3. PlatformInv'
    BY DEF HttpInv, PlatformInv, OnWindows
<1>4. BodyInv'
    BY DEF HttpInv, BodyInv, HasRead, Carried
<1>5. PlainWhole'
    BY DEF HttpInv, PlainWhole, Arrived, Whole
<1> QED
    BY <1>1, <1>2, <1>3, <1>4, <1>5 DEF HttpInv

(* Nothing has arrived when a step fails. *)
LEMMA FailKeeps ==
    ASSUME HttpInv, doing \in {"hop"} \cup Requesting, Fail
    PROVE  HttpInv'
<1>1. /\ doing' = "error" /\ reply = NoReply
      /\ UNCHANGED <<platform, call, url, hops, asked, reply, wire, pos, body>>
    BY DEF Fail, HttpInv, ReplyInv
<1>2. CallInv'
    <2>1. doing # "idle"
        BY DEF Requesting, Then
    <2> QED
        BY <1>1, <2>1 DEF HttpInv, CallInv, Requesting, Replied, Then
<1>3. ReplyInv'
    BY <1>1 DEF HttpInv, ReplyInv, Requesting, Replied, Then
<1>4. PlatformInv'
    BY <1>1 DEF HttpInv, PlatformInv, OnWindows, Then
<1>5. BodyInv'
    BY <1>1 DEF BodyInv
<1>6. PlainWhole'
    BY <1>1, NotReplied DEF PlainWhole, Arrived
<1> QED
    BY <1>2, <1>3, <1>4, <1>5, <1>6 DEF HttpInv

----------------------------------------------------------------------------
(* The steps of a call *)

LEMMA HopKeeps ==
    ASSUME HttpInv, Hop
    PROVE  HttpInv'
<1>1. doing = "hop"
    BY DEF Hop
<1>2. CASE Fail
    BY <1>1, <1>2, FailKeeps
<1>3. CASE ~Fail
    <2>1. /\ url # Malformed /\ ~Exhausted
          /\ asked' = [url |-> url, token |-> call.token /\ SameOrigin]
          /\ UNCHANGED <<platform, call, url, hops, reply, wire, pos, body>>
          /\ doing' \in {"WinHttpOpen", "raw", "curl"}
          /\ doing' = "WinHttpOpen" => platform = "windows"
          /\ doing' = "raw" => platform = "linux" /\ url.scheme = "http"
          /\ doing' = "curl" => platform # "windows" /\ ~(platform = "linux" /\ url.scheme = "http")
        BY <1>3 DEF Hop
    <2>2. /\ call \in Calls /\ url \in Urls /\ url.resource = call.resource /\ hops \in 0..MaxRedirects
          /\ reply = NoReply /\ wire = <<>> /\ pos = 0 /\ body = <<>>
          /\ platform \in Platforms
        BY <1>1, <2>1 DEF HttpInv, CallInv, ReplyInv, PlatformInv
    <2>3. platform \in {"linux", "windows"} /\ url.scheme \in {"http", "https"} /\ MaxRedirects \in Nat
        BY <2>2, HttpAssumption DEF Urls
    <2>4. asked'.url \in Urls /\ asked'.token \in BOOLEAN
        <3>1. call.token \in BOOLEAN
            BY <2>2 DEF Calls
        <3> QED
            BY <2>1, <2>2, <3>1 DEF SameOrigin
    <2>5. call.follow => hops < MaxRedirects
        BY <2>1, <2>2, <2>3 DEF Exhausted
    <2>6. CallInv'
        BY <2>1, <2>2, <2>4, <2>5 DEF CallInv, Requesting, Then
    <2>7. ReplyInv'
        BY <2>1, <2>2, NoBytes DEF ReplyInv, Replied
    <2>8. PlatformInv'
        BY <2>1, <2>2, <2>3 DEF PlatformInv, OnWindows, Then
    <2>9. BodyInv'
        BY <2>1 DEF BodyInv
    <2>10. PlainWhole'
        BY <2>1 DEF PlainWhole, Arrived
    <2> QED
        BY <2>6, <2>7, <2>8, <2>9, <2>10 DEF HttpInv
<1> QED
    BY <1>2, <1>3

LEMMA RedirectKeeps ==
    ASSUME HttpInv, Redirect
    PROVE  HttpInv'
<1>1. /\ doing = "response" /\ call \in Calls /\ reply \in Replies(call.resource) /\ hops \in 0..MaxRedirects
      /\ url \in Urls /\ url.resource = call.resource
      /\ asked.url \in Urls \cup {Nowhere} /\ asked.token \in BOOLEAN
      /\ call.follow => hops < MaxRedirects
      /\ body \in Seq(Nat) /\ Begins(body, reply.body) /\ platform \in Platforms
    BY DEF Redirect, HttpInv, CallInv, ReplyInv, PlatformInv, BodyInv, Replied
<1>2. /\ call.resource \in Resources /\ reply.location \in Urls \cup {Nowhere, Malformed}
      /\ reply.location \in Urls => reply.location.resource = call.resource
    <2>1. call.resource \in Resources
        BY <1>1 DEF Calls
    <2> QED
        BY <1>1, <2>1, ReplyIs
<1>3. CASE call.follow /\ reply.status = 302 /\ reply.location # Nowhere
    <2>1. /\ doing' = "hop" /\ url' = reply.location /\ hops' = hops + 1
          /\ reply' = NoReply /\ wire' = <<>> /\ pos' = 0 /\ body' = <<>>
          /\ UNCHANGED <<platform, call, asked>>
        BY <1>3 DEF Redirect, NextHop
    <2>2. hops + 1 \in 0..MaxRedirects /\ url' \in Urls \cup {Malformed}
        <3>1. MaxRedirects \in Nat
            BY HttpAssumption
        <3>2. hops + 1 \in 0..MaxRedirects
            BY <1>1, <1>3, <3>1
        <3> QED
            BY <1>2, <1>3, <2>1, <3>2
    <2>3. CallInv'
        BY <1>1, <1>2, <2>1, <2>2 DEF CallInv, Requesting, Replied, Then
    <2>4. ReplyInv'
        BY <2>1, NoBytes DEF ReplyInv, Replied
    <2>5. PlatformInv'
        BY <1>1, <2>1 DEF PlatformInv, OnWindows, Then
    <2>6. BodyInv'
        BY <2>1 DEF BodyInv
    <2>7. PlainWhole'
        BY <2>1 DEF PlainWhole, Arrived
    <2> QED
        BY <2>3, <2>4, <2>5, <2>6, <2>7 DEF HttpInv
<1>4. CASE ~(call.follow /\ reply.status = 302 /\ reply.location # Nowhere)
    <2>1. /\ doing' = "answer" /\ wire' = <<>> /\ pos' = 0
          /\ UNCHANGED <<platform, call, url, hops, asked, reply, body>>
        BY <1>4 DEF Redirect
    <2>2. CallInv'
        BY <1>1, <2>1 DEF CallInv, Requesting, Replied, Then
    <2>3. ReplyInv'
        BY <1>1, <2>1, NoBytes DEF ReplyInv, Requesting, Then
    <2>4. PlatformInv'
        BY <1>1, <2>1 DEF PlatformInv, OnWindows, Then
    <2>5. BodyInv'
        BY <1>1, <2>1 DEF BodyInv
    <2>6. PlainWhole'
        BY <2>1 DEF PlainWhole, Arrived
    <2> QED
        BY <2>2, <2>3, <2>4, <2>5, <2>6 DEF HttpInv
<1> QED
    BY <1>3, <1>4

(* A connection and a curl process carry the reply each in its own way. *)
LEMMA AnswerKeeps ==
    ASSUME HttpInv, doing \in {"raw", "curl"}, reply' \in Replies(url.resource),
           wire' \in Cuts(IF url.scheme = "http" THEN OnWire(reply') ELSE reply'.body),
           doing' \in {"follow", "parse"}, asked'.url \in Urls \cup {Nowhere}, asked'.token \in BOOLEAN,
           UNCHANGED <<platform, call, url, hops, handles, pos, body>>
    PROVE  HttpInv'
<1>1. /\ doing \in Requesting /\ doing # "idle" /\ pos = 0 /\ body = <<>> /\ platform = "linux"
      /\ platform \in Platforms /\ call \in Calls /\ url.resource = call.resource
    BY DEF HttpInv, CallInv, ReplyInv, PlatformInv, Requesting
<1>2. call.resource \in Resources /\ reply' \in Replies(call.resource)
    BY <1>1 DEF Calls
<1>3. wire' \in Seq(Nat)
    <2>1. OnWire(reply') \in Seq(Nat) /\ reply'.body \in Seq(Nat)
        BY <1>2, CarriedIs
    <2>2. CASE url.scheme = "http"
        <3>1. wire' \in Cuts(OnWire(reply'))
            BY <2>2
        <3> QED
            BY <2>1, <3>1, BeginsCut
    <2>3. CASE url.scheme # "http"
        <3>1. wire' \in Cuts(reply'.body)
            BY <2>3
        <3> QED
            BY <2>1, <3>1, BeginsCut
    <2> QED
        BY <2>2, <2>3
<1>4. CallInv'
    BY <1>1 DEF HttpInv, CallInv, Requesting, Replied, Then
<1>5. ReplyInv'
    BY <1>1, <1>2, <1>3, NoBytes DEF ReplyInv, Requesting, Then
<1>6. PlatformInv'
    BY <1>1 DEF PlatformInv, OnWindows, Then
<1>7. BodyInv'
    <2>1. wire' \in Cuts(Carried')
        BY <1>1 DEF Carried
    <2> QED
        BY <1>1, <2>1 DEF BodyInv
<1>8. PlainWhole'
    BY DEF PlainWhole, Arrived
<1> QED
    BY <1>4, <1>5, <1>6, <1>7, <1>8 DEF HttpInv

(* A redirect of curl leads to another place of the resource. *)
LEMMA OnwardIs ==
    ASSUME HttpInv, call \in Calls, NEW place \in Urls
    PROVE  Onward(place).url \in Urls \cup {Nowhere} /\ Onward(place).token \in BOOLEAN
<1>1. call.token \in BOOLEAN
    BY DEF Calls
<1> QED
    BY <1>1 DEF Onward, SameOrigin

LEMMA FollowKeeps ==
    ASSUME HttpInv, CurlFollow \/ CurlEnd
    PROVE  HttpInv'
<1>1. /\ doing = "follow" /\ doing' \in {"follow", "parse"}
      /\ UNCHANGED <<platform, call, url, hops, handles, reply, wire, pos, body>>
    BY DEF CurlFollow, CurlEnd
<1>2. call \in Calls /\ asked.url \in Urls \cup {Nowhere} /\ asked.token \in BOOLEAN
    BY <1>1 DEF HttpInv, CallInv
<1>3. asked'.url \in Urls \cup {Nowhere} /\ asked'.token \in BOOLEAN
    <2>1. CASE asked' = asked
        BY <1>2, <2>1
    <2>2. CASE \E place \in Urls : asked' = Onward(place)
        <3>1. PICK place \in Urls : asked' = Onward(place)
            BY <2>2
        <3> QED
            BY <1>2, <3>1, OnwardIs
    <2> QED
        BY <2>1, <2>2 DEF CurlFollow, CurlEnd
<1>4. CallInv'
    BY <1>1, <1>3 DEF HttpInv, CallInv, Requesting, Replied, Then
<1>5. ReplyInv'
    BY <1>1 DEF HttpInv, ReplyInv, Requesting, Replied, Then
<1>6. PlatformInv'
    BY <1>1 DEF HttpInv, PlatformInv, OnWindows, Then
<1>7. BodyInv'
    <2>1. Carried' = Carried
        BY <1>1 DEF Carried
    <2> QED
        BY <1>1, <2>1 DEF HttpInv, BodyInv
<1>8. PlainWhole'
    BY <1>1 DEF PlainWhole, Arrived
<1> QED
    BY <1>4, <1>5, <1>6, <1>7, <1>8 DEF HttpInv

LEMMA GetKeeps ==
    ASSUME HttpInv, RawGet \/ CurlGet
    PROVE  HttpInv'
<1>1. doing \in Requesting
    BY DEF RawGet, CurlGet, Requesting
<1>2. CASE Fail
    BY <1>1, <1>2, FailKeeps
<1>3. CASE RawGet /\ ~Fail
    <2>1. url.scheme = "http"
        BY <1>3 DEF RawGet, HttpInv, PlatformInv
    <2>2. asked.url \in Urls \cup {Nowhere} /\ asked.token \in BOOLEAN
        BY DEF HttpInv, CallInv
    <2> QED
        BY <1>3, <2>1, <2>2, AnswerKeeps DEF RawGet
<1>4. CASE CurlGet /\ ~Fail
    <2>1. url.scheme # "http"
        BY <1>4 DEF CurlGet, HttpInv, PlatformInv
    <2>2. call \in Calls /\ asked.url \in Urls \cup {Nowhere} /\ asked.token \in BOOLEAN
        BY <1>1 DEF HttpInv, CallInv, Requesting, Then
    <2>3. asked'.url \in Urls \cup {Nowhere} /\ asked'.token \in BOOLEAN
        BY <1>4, <2>2, OnwardIs DEF CurlGet
    <2>4. /\ doing = "curl" /\ reply' \in Replies(url.resource) /\ wire' \in Cuts(reply'.body)
          /\ doing' \in {"follow", "parse"} /\ UNCHANGED <<platform, call, url, hops, handles, pos, body>>
        BY <1>4 DEF CurlGet
    <2> QED
        BY <2>1, <2>3, <2>4, AnswerKeeps
<1> QED
    BY <1>2, <1>3, <1>4

(* The steps of WinHTTP that only go on to the next. *)
LEMMA OnwardKeeps ==
    ASSUME HttpInv, doing \in DOMAIN Then, doing' = Then[doing],
           UNCHANGED <<platform, call, url, hops, asked, reply, wire, pos, body>>
    PROVE  HttpInv'
<1>1. /\ doing \in Requesting /\ doing \in OnWindows /\ doing # "idle"
      /\ doing' \in (DOMAIN Then \cup {"WinHttpReceiveResponse"})
      /\ doing' \in Requesting /\ doing' \in OnWindows
    BY DEF Then, Requesting, OnWindows
<1>2. /\ doing' \notin {"idle", "hop", "raw", "curl", "response", "error", "panic"} /\ doing' \notin Replied
    BY <1>1 DEF Replied, Then
<1>3. CallInv'
    BY <1>1, <1>2 DEF HttpInv, CallInv, Requesting
<1>4. ReplyInv'
    BY <1>1, <1>2 DEF HttpInv, ReplyInv, Requesting
<1>5. PlatformInv'
    BY <1>1, <1>2 DEF HttpInv, PlatformInv, Replied
<1>6. BodyInv'
    BY <1>2 DEF BodyInv, Replied
<1>7. PlainWhole'
    BY <1>2 DEF PlainWhole, Arrived
<1> QED
    BY <1>3, <1>4, <1>5, <1>6, <1>7 DEF HttpInv

LEMMA OpenKeeps ==
    ASSUME HttpInv, OpenHandle \/ SendRequest
    PROVE  HttpInv'
<1>1. doing \in DOMAIN Then /\ doing \in Requesting
    BY DEF OpenHandle, SendRequest, Opens, Then, Requesting
<1>2. CASE Fail
    BY <1>1, <1>2, FailKeeps
<1>3. CASE ~Fail
    <2>1. doing' = Then[doing] /\ UNCHANGED <<platform, call, url, hops, asked, reply, wire, pos, body>>
        BY <1>3 DEF OpenHandle, SendRequest
    <2> QED
        BY <1>1, <2>1, OnwardKeeps
<1> QED
    BY <1>2, <1>3

LEMMA ReceiveKeeps ==
    ASSUME HttpInv, ReceiveResponse
    PROVE  HttpInv'
<1>1. doing = "WinHttpReceiveResponse" /\ doing \in Requesting
    BY DEF ReceiveResponse, Requesting
<1>2. CASE Fail
    BY <1>1, <1>2, FailKeeps
<1>3. CASE ~Fail
    <2>1. /\ reply' \in Replies(url.resource) /\ doing' = "WinHttpReadData"
          /\ UNCHANGED <<platform, call, url, hops, asked, wire, pos, body>>
        BY <1>3 DEF ReceiveResponse
    <2>2. /\ call \in Calls /\ url.resource = call.resource /\ platform = "windows" /\ platform \in Platforms
          /\ wire = <<>> /\ pos = 0 /\ body = <<>>
        BY <1>1 DEF HttpInv, CallInv, ReplyInv, PlatformInv, OnWindows
    <2>3. call.resource \in Resources /\ reply' \in Replies(call.resource)
        BY <2>1, <2>2 DEF Calls
    <2>4. CallInv'
        BY <1>1, <2>1, <2>2 DEF HttpInv, CallInv, Requesting, Replied
    <2>5. ReplyInv'
        BY <2>1, <2>2, <2>3, NoBytes DEF ReplyInv, Requesting, Then
    <2>6. PlatformInv'
        BY <2>1, <2>2 DEF PlatformInv
    <2>7. BodyInv'
        <3>1. Begins(<<>>, reply'.body)
            BY <2>3, CarriedIs, NothingBegins
        <3> QED
            BY <2>1, <2>2, <3>1 DEF BodyInv
    <2>8. PlainWhole'
        BY <2>1 DEF PlainWhole, Arrived
    <2> QED
        BY <2>4, <2>5, <2>6, <2>7, <2>8 DEF HttpInv
<1> QED
    BY <1>2, <1>3

LEMMA ReadKeeps ==
    ASSUME HttpInv, ReadData
    PROVE  HttpInv'
<1>1. /\ doing = "WinHttpReadData" /\ doing' \in {"WinHttpReadData", "response"}
      /\ UNCHANGED <<platform, call, url, hops, asked, reply, wire, pos>>
    BY DEF ReadData
<1>2. /\ call \in Calls /\ reply \in Replies(call.resource) /\ platform = "windows"
      /\ Begins(body, reply.body) /\ body \in Seq(Nat)
    BY <1>1 DEF HttpInv, CallInv, ReplyInv, PlatformInv, BodyInv, Replied, OnWindows
<1>3. call.resource \in Resources
    BY <1>2 DEF Calls
<1>4. reply.body \in Seq(Nat) /\ Len(body) \in Nat
    BY <1>2, <1>3, CarriedIs, LenProperties
<1>5. body' \in Seq(Nat) /\ Begins(body', reply.body)
    <2>1. CASE body' = body
        BY <1>2, <2>1
    <2>2. CASE body' # body
        <3>1. PICK n \in (Len(body) + 1)..Len(reply.body) : body' = SubSeq(reply.body, 1, n)
            BY <2>2 DEF ReadData
        <3>2. n \in 0..Len(reply.body)
            BY <1>4
        <3>3. body' \in Cuts(reply.body)
            BY <3>1, <3>2 DEF Cuts
        <3> QED
            BY <3>3, <1>4, BeginsCut
    <2> QED
        BY <2>1, <2>2
<1>6. CallInv'
    BY <1>1 DEF HttpInv, CallInv, Requesting, Replied, Then
<1>7. ReplyInv'
    BY <1>1, <1>2, <1>5 DEF HttpInv, ReplyInv, Requesting, Then
<1>8. PlatformInv'
    BY <1>1 DEF HttpInv, PlatformInv, OnWindows, Then
<1>9. BodyInv'
    BY <1>1, <1>5 DEF BodyInv
<1>10. PlainWhole'
    BY <1>1, <1>2 DEF PlainWhole
<1> QED
    BY <1>6, <1>7, <1>8, <1>9, <1>10 DEF HttpInv

----------------------------------------------------------------------------
(* The body of a reply on Linux *)

LEMMA ParseKeeps ==
    ASSUME HttpInv, Parse
    PROVE  HttpInv'
<1> DEFINE bytes == reply.body
<1>1. /\ doing = "parse" /\ call \in Calls /\ reply \in Replies(call.resource) /\ platform = "linux"
      /\ platform \in Platforms /\ wire \in Cuts(Carried) /\ wire \in Seq(Nat) /\ pos = 0 /\ body = <<>>
      /\ UNCHANGED <<platform, call, url, hops, asked, reply, wire, pos>>
    BY DEF Parse, HttpInv, CallInv, ReplyInv, PlatformInv, BodyInv, Replied
<1>2. call.resource \in Resources
    BY <1>1 DEF Calls
<1>3. bytes \in Seq(Bytes) /\ bytes \in Seq(Nat) /\ reply.chunked \in BOOLEAN
    BY <1>1, <1>2, ReplyIs, CarriedIs
<1>4. CASE reply.chunked
    <2>1. doing' = "chunks" /\ body' = body
        BY <1>4 DEF Parse
    <2>2. CallInv'
        BY <1>1, <2>1 DEF HttpInv, CallInv, Requesting, Replied, Then
    <2>3. ReplyInv'
        BY <1>1, <2>1 DEF HttpInv, ReplyInv, Requesting, Then
    <2>4. PlatformInv'
        BY <1>1, <2>1 DEF HttpInv, PlatformInv, OnWindows, Then
    <2>5. BodyInv'
        <3>1. Carried' = Carried
            BY <1>1 DEF Carried
        <3>2. Place(bytes, 0) = 0 /\ 0 \in 0..ChunkCount(bytes) /\ End(bytes, 0) = 0
            BY <1>3, FirstPlace, Ends
        <3>3. Len(body) = 0 /\ Begins(body, bytes)
            BY <1>1, <1>3, NothingBegins
        <3>4. HasRead(0)'
            BY <1>1, <2>1, <3>2, <3>3 DEF HasRead
        <3>5. \E k \in 0..ChunkCount(reply'.body) : HasRead(k)'
            BY <1>1, <3>2, <3>4
        <3> QED
            BY <1>1, <1>4, <2>1, <3>1, <3>5 DEF BodyInv
    <2>6. PlainWhole'
        BY <2>1 DEF PlainWhole, Arrived
    <2> QED
        BY <2>2, <2>3, <2>4, <2>5, <2>6 DEF HttpInv
<1>5. CASE ~reply.chunked
    <2>1. doing' = "response" /\ body' = wire
        BY <1>5 DEF Parse
    <2>2. OnWire(reply) = bytes /\ Carried = bytes
        BY <1>5 DEF OnWire, Carried
    <2>3. Begins(wire, bytes)
        <3>1. wire \in Cuts(bytes)
            BY <1>1, <2>2
        <3> QED
            BY <1>3, <3>1, BeginsCut
    <2>4. CallInv'
        BY <1>1, <2>1 DEF HttpInv, CallInv, Requesting, Replied, Then
    <2>5. ReplyInv'
        BY <1>1, <2>1 DEF HttpInv, ReplyInv, Requesting, Then
    <2>6. PlatformInv'
        BY <1>1, <2>1 DEF HttpInv, PlatformInv, OnWindows, Then
    <2>7. BodyInv'
        BY <1>1, <2>1, <2>3 DEF BodyInv
    <2>8. PlainWhole'
        BY <1>1, <2>1, <2>2 DEF PlainWhole, Arrived, Whole
    <2> QED
        BY <2>4, <2>5, <2>6, <2>7, <2>8 DEF HttpInv
<1> QED
    BY <1>3, <1>4, <1>5

(* A size in front, and the end of its line behind it: that is the line    *)
(* that decode_chunked finds, if it has come.                              *)
LEMMA FindsLine ==
    ASSUME wire \in Seq(Nat), pos \in Nat, LineEnds # {}, NEW whole, Begins(wire, whole),
           whole[pos + 1] >= 256, whole[pos + 2] = 13, whole[pos + 3] = 10
    PROVE  Len(wire) >= pos + 3 /\ LineEnd = pos + 2 /\ wire[pos + 1] = whole[pos + 1]
<1>1. Len(wire) \in Nat /\ \A i \in 1..Len(wire) : wire[i] = whole[i]
    BY LenProperties DEF Begins
<1>2. \A i \in LineEnds : i \in (pos + 1)..(Len(wire) - 1) /\ wire[i] = 13
    BY DEF LineEnds
<1>3. PICK e \in LineEnds : TRUE
    OBVIOUS
<1>4. wire[pos + 1] = whole[pos + 1] /\ wire[pos + 1] # 13
    <2>1. pos + 1 \in 1..Len(wire)
        BY <1>1, <1>2, <1>3
    <2>2. wire[pos + 1] \in Nat
        BY <2>1, ElementOfSeq
    <2> QED
        BY <2>1, <2>2, <1>1
<1>5. \A i \in LineEnds : i \in Int /\ i >= pos + 2
    BY <1>1, <1>2, <1>4
<1>6. Len(wire) >= pos + 3
    BY <1>1, <1>2, <1>3, <1>5
<1>7. pos + 2 \in LineEnds
    <2>1. pos + 2 \in (pos + 1)..(Len(wire) - 1) /\ pos + 2 \in 1..Len(wire) /\ pos + 3 \in 1..Len(wire)
          /\ (pos + 2) + 1 = pos + 3
        BY <1>1, <1>6
    <2>2. wire[pos + 2] = 13 /\ wire[(pos + 2) + 1] = 10
        BY <1>1, <2>1
    <2> QED
        BY <2>1, <2>2 DEF LineEnds
<1>8. LineEnd \in LineEnds /\ \A j \in LineEnds : LineEnd <= j
    <2>1. \E i \in LineEnds : \A j \in LineEnds : i <= j
        BY <1>5, <1>7
    <2> QED
        BY <2>1 DEF LineEnd
<1>9. LineEnd = pos + 2
    <2> HIDE DEF LineEnd, LineEnds
    <2>1. LineEnd \in Int /\ LineEnd >= pos + 2 /\ LineEnd <= pos + 2
        BY <1>5, <1>7, <1>8
    <2> QED
        BY <2>1
<1> QED
    BY <1>4, <1>6, <1>9

(* One round over a plain connection, after k chunks. *)
LEMMA PlainChunk ==
    ASSUME HttpInv, Chunk, url.scheme = "http", reply.body \in Seq(Bytes),
           NEW k \in 0..ChunkCount(reply.body), HasRead(k)
    PROVE  /\ body' \in Seq(Nat) /\ pos' \in Nat
           /\ doing' \in {"chunks", "response", "panic"}
           /\ doing' = "chunks" => k + 1 \in 0..ChunkCount(reply.body) /\ HasRead(k + 1)'
           /\ doing' = "response" => Begins(body', reply.body)
           /\ wire = OnWire(reply) => doing' # "panic" /\ (doing' = "response" => body' = reply.body)
<1> DEFINE bytes == reply.body
           whole == Chunks(bytes)
           part == NextPart(bytes, k)
           n == ChunkCount(bytes)
<1>1. /\ doing = "chunks" /\ reply.chunked /\ body \in Seq(Nat) /\ pos \in Nat /\ wire \in Cuts(whole)
      /\ UNCHANGED <<platform, call, url, hops, asked, reply, wire>>
    BY DEF Chunk, HttpInv, ReplyInv, BodyInv, Carried, OnWire
<1>2. pos = Place(bytes, k) /\ Len(body) = End(bytes, k) /\ Begins(body, bytes) /\ k \in 0..n
    BY DEF HasRead
<1>3. OnWire(reply) = whole
    BY <1>1 DEF OnWire
<1>4. /\ Len(part) \in Nat /\ whole \in Seq(Nat) /\ Len(whole) \in Nat
      /\ pos + Len(part) + 5 <= Len(whole)
      /\ whole[pos + 1] = 256 + Len(part) /\ whole[pos + 2] = 13 /\ whole[pos + 3] = 10
      /\ \A i \in 1..Len(part) : whole[pos + 3 + i] = part[i]
      /\ k # n => Place(bytes, k + 1) = pos + Len(part) + 5
    <2>1. Laid(bytes, k, whole, pos, part)
        BY <1>2, Layout
    <2> HIDE DEF whole, part
    <2> QED
        BY <2>1 DEF Laid
<1>5. wire \in Seq(Nat) /\ Begins(wire, whole) /\ Len(wire) \in Nat
    BY <1>1, <1>4, BeginsCut
<1>6. /\ part \in Seq(Bytes) /\ (k = n => Len(part) = 0)
      /\ k # n => /\ k + 1 \in 1..n /\ Len(part) > 0
                  /\ End(bytes, k + 1) = End(bytes, k) + Len(part)
                  /\ \A i \in 1..Len(part) : part[i] = bytes[End(bytes, k) + i]
    BY <1>2, NextParts
<1>7. Len(bytes) \in Nat /\ End(bytes, k) \in 0..Len(bytes)
    BY Ends, CountBounds
<1> HIDE DEF whole, part, n, bytes
<1>8. CASE pos > Len(wire)
    <2>1. doing' = "panic" /\ pos' = pos /\ body' = body
        BY <1>8 DEF Chunk
    <2>2. wire # whole
        BY <1>1, <1>4, <1>5, <1>8
    <2> QED
        BY <1>1, <1>3, <2>1, <2>2
<1>9. CASE ~(pos > Len(wire)) /\ LineEnds = {}
    <2>1. doing' = "response" /\ pos' = pos /\ body' = body
        BY <1>9 DEF Chunk
    <2>2. wire # whole
        <3>1. ASSUME wire = whole PROVE FALSE
            <4>1. pos + 2 \in (pos + 1)..(Len(wire) - 1) /\ wire[pos + 2] = 13 /\ wire[(pos + 2) + 1] = 10
                BY <1>1, <1>4, <3>1
            <4>2. pos + 2 \in LineEnds
                BY <4>1 DEF LineEnds
            <4> QED
                BY <1>9, <4>2
        <3> QED
            BY <3>1
    <2> QED
        BY <1>1, <1>2, <1>3, <2>1, <2>2 DEF bytes
<1>10. CASE ~(pos > Len(wire)) /\ LineEnds # {}
    <2>1. Len(wire) >= pos + 3 /\ LineEnd = pos + 2 /\ wire[pos + 1] = 256 + Len(part)
        <3>1. whole[pos + 1] >= 256
            BY <1>4
        <3> QED
            BY <3>1, <1>1, <1>4, <1>5, <1>10, FindsLine
    <2>2. IsSize /\ Size = Len(part) /\ Behind = pos + 3
        <3>1. IsSize
            BY <2>1, <1>4 DEF IsSize
        <3>2. Size = Len(part)
            BY <2>1, <1>4 DEF Size
        <3>3. Behind = pos + 3
            BY <2>1, <1>1 DEF Behind
        <3> QED
            BY <3>1, <3>2, <3>3
    <2>3. CASE Len(part) = 0
        <3>1. doing' = "response" /\ pos' = pos /\ body' = body
            BY <1>10, <2>2, <2>3 DEF Chunk
        <3>2. k = n /\ Len(body) = Len(bytes)
            BY <1>2, <1>6, <2>3 DEF End, n
        <3>3. body = bytes
            <4>1. bytes \in Seq(Nat)
                <5>1. Bytes \subseteq Nat /\ bytes \in Seq(Bytes)
                    BY DEF Bytes, bytes
                <5> QED
                    BY <5>1, SeqMonotonic
            <4>2. \A i \in 1..Len(body) : body[i] = bytes[i]
                BY <1>2 DEF Begins
            <4> QED
                BY <1>1, <3>2, <4>1, <4>2, SeqEqual
        <3> QED
            BY <1>1, <1>2, <3>1, <3>3 DEF bytes
    <2>4. CASE Len(part) # 0 /\ pos + 3 + Len(part) > Len(wire)
        <3>1. doing' = "response" /\ pos' = pos /\ body' = body
            BY <1>10, <2>2, <2>4 DEF Chunk
        <3>2. wire # whole
            BY <1>1, <1>4, <2>4
        <3> QED
            BY <1>1, <1>2, <1>3, <3>1, <3>2 DEF bytes
    <2>5. CASE Len(part) # 0 /\ ~(pos + 3 + Len(part) > Len(wire))
        <3> DEFINE data1 == SubSeq(wire, pos + 4, pos + 3 + Len(part))
        <3>1. /\ doing' = "chunks" /\ body' = body \o data1 /\ pos' = pos + 3 + Len(part) + 2
            <4>1. ~(Size = 0 \/ Behind + Size > Len(wire))
                BY <2>2, <2>5
            <4>2. /\ doing' = doing /\ body' = body \o SubSeq(wire, Behind + 1, Behind + Size)
                  /\ pos' = Behind + Size + 2
                BY <1>10, <2>2, <4>1 DEF Chunk
            <4>3. Behind + 1 = pos + 4 /\ Behind + Size = pos + 3 + Len(part)
                BY <2>2, <1>1, <1>4
            <4> QED
                BY <1>1, <4>2, <4>3
        <3>2. k # n
            BY <1>6, <2>5
        <3>3. pos' \in Nat /\ pos' = Place(bytes, k + 1)
            BY <1>1, <1>4, <3>1, <3>2
        <3>4. /\ data1 \in Seq(Nat) /\ Len(data1) = Len(part)
              /\ \A i \in 1..Len(part) : data1[i] = bytes[Len(body) + i]
            <4> DEFINE a == pos + 4
                       b == pos + 3 + Len(part)
            <4>1. a \in Int /\ b \in Int /\ a <= b /\ b - a + 1 = Len(part)
                  /\ \A i \in 1..Len(part) : a + i - 1 = pos + 3 + i /\ pos + 3 + i \in 1..Len(wire)
                <5>1. /\ pos \in Nat /\ Len(part) \in Nat /\ Len(wire) \in Nat /\ Len(part) # 0
                      /\ ~(pos + 3 + Len(part) > Len(wire))
                    BY <1>1, <1>4, <1>5, <2>5
                <5> QED
                    BY <5>1
            <4>2. \A i \in a..b : wire[i] \in Nat
                <5>1. a >= 1 /\ b <= Len(wire) /\ Len(wire) \in Nat
                    BY <1>1, <1>4, <1>5, <2>5
                <5> HIDE DEF a, b
                <5>2. \A i \in a..b : i \in 1..Len(wire)
                    BY <4>1, <5>1
                <5> QED
                    BY <1>5, <5>2, ElementOfSeq
            <4> HIDE DEF a, b
            <4>3. /\ SubSeq(wire, a, b) \in Seq(Nat) /\ Len(SubSeq(wire, a, b)) = IF a <= b THEN b - a + 1 ELSE 0
                  /\ \A i \in 1..(b - a + 1) : SubSeq(wire, a, b)[i] = wire[a + i - 1]
                BY <4>1, <4>2, SubSeqProperties
            <4>4. data1 = SubSeq(wire, a, b)
                BY DEF a, b
            <4> HIDE DEF data1
            <4>5. \A i \in 1..Len(part) : data1[i] = wire[pos + 3 + i] /\ wire[pos + 3 + i] = whole[pos + 3 + i]
                BY <1>5, <4>1, <4>3, <4>4 DEF Begins
            <4>6. \A i \in 1..Len(part) : data1[i] = bytes[Len(body) + i]
                BY <4>5, <1>2, <1>4, <1>6, <3>2
            <4> QED
                BY <4>1, <4>3, <4>4, <4>6
        <3> HIDE DEF data1
        <3> DEFINE joined == body \o data1
        <3>5. /\ joined \in Seq(Nat) /\ Len(joined) = Len(body) + Len(data1) /\ Len(body) \in Nat
              /\ \A i \in 1..Len(body) : joined[i] = body[i]
              /\ \A i \in 1..Len(data1) : joined[Len(body) + i] = data1[i]
            BY <1>1, <3>4, Joined
        <3> HIDE DEF joined
        <3>6. Len(joined) = End(bytes, k + 1) /\ k + 1 \in 0..n
            BY <1>2, <1>4, <1>6, <3>2, <3>4, <3>5
        <3>7. Begins(joined, bytes)
            <4>1. End(bytes, k + 1) <= Len(bytes)
                <5> DEFINE j == k + 1
                <5>1. j \in 0..ChunkCount(reply.body)
                    BY <3>6 DEF n, bytes
                <5> HIDE DEF j
                <5>2. End(reply.body, j) \in 0..Len(reply.body)
                    BY <5>1, Ends
                <5>3. End(bytes, j) <= Len(bytes)
                    BY <5>2, <1>7 DEF bytes
                <5> QED
                    BY <5>3 DEF j
            <4>2. ASSUME NEW i \in 1..Len(joined) PROVE joined[i] = bytes[i]
                <5>1. CASE i <= Len(body)
                    BY <3>5, <5>1, <1>2 DEF Begins
                <5>2. CASE i > Len(body)
                    <6>1. i - Len(body) \in 1..Len(data1) /\ Len(body) + (i - Len(body)) = i
                        BY <3>4, <3>5, <1>4, <5>2
                    <6>2. joined[i] = data1[i - Len(body)]
                        BY <3>5, <6>1
                    <6>3. data1[i - Len(body)] = bytes[i]
                        BY <3>4, <6>1
                    <6> QED
                        BY <6>2, <6>3
                <5> QED
                    BY <5>1, <5>2, <3>5, <3>4, <1>4
            <4> QED
                BY <3>6, <4>1, <4>2 DEF Begins
        <3>8. body' = joined
            BY <3>1 DEF joined
        <3>9. HasRead(k + 1)'
            BY <1>1, <3>3, <3>6, <3>7, <3>8 DEF HasRead, bytes
        <3> QED
            BY <3>1, <3>3, <3>5, <3>6, <3>8, <3>9 DEF n, bytes
    <2> QED
        BY <2>3, <2>4, <2>5
<1> QED
    BY <1>8, <1>9, <1>10

(* A body that curl has decoded has no line with a size. *)
LEMMA CurlChunk ==
    ASSUME HttpInv, Chunk, url.scheme # "http", reply.body \in Seq(Bytes)
    PROVE  doing' \in {"response", "error"} /\ pos' = 0 /\ body' = <<>>
<1>1. doing = "chunks" /\ pos = 0 /\ body = <<>> /\ wire \in Cuts(reply.body)
    BY DEF Chunk, HttpInv, BodyInv, Carried
<1>2. wire \in Seq(Bytes) /\ Len(wire) \in Nat
    BY <1>1, BeginsCut
<1>3. LineEnds # {} => ~IsSize
    <2>1. ASSUME LineEnds # {}, wire[pos + 1] >= 256 PROVE FALSE
        <3>1. PICK e \in LineEnds : e \in (pos + 1)..(Len(wire) - 1)
            BY <2>1 DEF LineEnds
        <3>2. pos + 1 \in 1..Len(wire)
            BY <1>1, <1>2, <3>1
        <3> DEFINE first == wire[pos + 1]
        <3>3. first \in Bytes
            BY <1>2, <3>2, ElementOfSeq
        <3>4. first >= 256
            BY <2>1
        <3> HIDE DEF first
        <3> QED
            BY <3>3, <3>4 DEF Bytes
    <2> QED
        BY <2>1 DEF IsSize
<1>4. ~(pos > Len(wire))
    BY <1>1, <1>2
<1> QED
    BY <1>1, <1>3, <1>4 DEF Chunk

LEMMA ChunkKeeps ==
    ASSUME HttpInv, Chunk
    PROVE  HttpInv'
<1>1. /\ doing = "chunks" /\ call \in Calls /\ reply \in Replies(call.resource) /\ platform = "linux"
      /\ platform \in Platforms /\ wire \in Cuts(Carried) /\ wire \in Seq(Nat) /\ reply.chunked
      /\ UNCHANGED <<platform, call, url, hops, asked, reply, wire>>
    BY DEF Chunk, HttpInv, CallInv, ReplyInv, PlatformInv, BodyInv, Replied
<1>2. call.resource \in Resources
    BY <1>1 DEF Calls
<1>3. reply.body \in Seq(Bytes) /\ reply.body \in Seq(Nat)
    BY <1>1, <1>2, ReplyIs, CarriedIs
<1>4. Carried' = Carried
    BY <1>1 DEF Carried
<1>5. /\ body' \in Seq(Nat) /\ pos' \in Nat
      /\ doing' \in {"chunks", "response", "error", "panic"}
      /\ doing' = "chunks" =>
           IF url.scheme = "http"
           THEN \E k \in 0..ChunkCount(reply.body) : HasRead(k)'
           ELSE pos' = 0 /\ body' = <<>>
      /\ doing' = "response" => Begins(body', reply.body)
      /\ url.scheme = "http" /\ wire = OnWire(reply) /\ doing' # "chunks" => doing' = "response" /\ body' = reply.body
    <2>1. CASE url.scheme = "http"
        <3>1. PICK k \in 0..ChunkCount(reply.body) : HasRead(k)
            BY <1>1, <2>1 DEF HttpInv, BodyInv
        <3>2. /\ body' \in Seq(Nat) /\ pos' \in Nat
              /\ doing' \in {"chunks", "response", "panic"}
              /\ doing' = "chunks" => k + 1 \in 0..ChunkCount(reply.body) /\ HasRead(k + 1)'
              /\ doing' = "response" => Begins(body', reply.body)
              /\ wire = OnWire(reply) => doing' # "panic" /\ (doing' = "response" => body' = reply.body)
            BY <1>3, <2>1, <3>1, PlainChunk
        <3> QED
            BY <2>1, <3>2
    <2>2. CASE url.scheme # "http"
        <3>1. doing' \in {"response", "error"} /\ pos' = 0 /\ body' = <<>>
            BY <1>3, <2>2, CurlChunk
        <3>2. Begins(<<>>, reply.body)
            BY <1>3, NothingBegins
        <3> QED
            BY <2>2, <3>1, <3>2, NoBytes
    <2> QED
        BY <2>1, <2>2
<1>6. CallInv'
    BY <1>1, <1>5 DEF HttpInv, CallInv, Requesting, Replied, Then
<1>7. ReplyInv'
    BY <1>1, <1>5 DEF HttpInv, ReplyInv, Requesting, Then
<1>8. PlatformInv'
    BY <1>1, <1>5 DEF HttpInv, PlatformInv, OnWindows, Then
<1>9. BodyInv'
    BY <1>1, <1>4, <1>5 DEF BodyInv
<1>10. PlainWhole'
    BY <1>1, <1>5 DEF PlainWhole, Arrived, Whole
<1> QED
    BY <1>6, <1>7, <1>8, <1>9, <1>10 DEF HttpInv

LEMMA CallKeeps ==
    ASSUME HttpInv, HttpNext
    PROVE  HttpInv'
BY HopKeeps, RedirectKeeps, GetKeeps, FollowKeeps, ParseKeeps, ChunkKeeps, OpenKeeps, ReceiveKeeps, ReadKeeps DEF HttpNext

----------------------------------------------------------------------------
(* The pull *)

(* What the entries for linux/amd64 of a list name. *)
Suitable(c) == { i \in DOMAIN c.entries : Suits(c.entries[i]) }
Digests(c) == { c.entries[i].digest : i \in Suitable(c) }
Named == (UNION { Digests(c) : c \in { d \in Documents : d.kind = "list" } }) \ {"none"}

(* A manifest is asked for as itself or by a digest that suits. *)
AskInv ==
    /\ PullTypeOK
    /\ pull = "manifest" => call.resource = "manifest"
    /\ pull = "entry" => call.resource \in Named
    /\ RightPlatform

LEMMA NamedIs ==
    ASSUME NEW digest \in Named
    PROVE  digest \in {"amd64", "other"} /\ \A d \in Manifests(digest) : d.for = "linux/amd64"
<1>1. digest # "none"
    BY DEF Named
<1>2. PICK c \in { d \in Documents : d.kind = "list" } : digest \in Digests(c)
    BY DEF Named
<1>3. PICK i \in Suitable(c) : digest = c.entries[i].digest
    BY <1>2 DEF Digests
<1>4. i \in DOMAIN c.entries /\ Suits(c.entries[i])
    BY <1>3 DEF Suitable
<1>5. c.entries \in Seq([architecture : STRING, os : STRING, digest : {"amd64", "other", "none"}])
    BY <1>2, PlatformAssumption
<1>6. c.entries[i].digest \in {"amd64", "other", "none"}
    <2>1. i \in 1..Len(c.entries)
        BY <1>4, <1>5, LenProperties
    <2>2. c.entries[i] \in [architecture : STRING, os : STRING, digest : {"amd64", "other", "none"}]
        BY <1>5, <2>1, ElementOfSeq
    <2> QED
        BY <2>2
<1>7. \A d \in Manifests(c.entries[i].digest) : d.for = "linux/amd64"
    BY <1>1, <1>2, <1>3, <1>4, PlatformAssumption DEF Suits
<1> QED
    BY <1>1, <1>3, <1>6, <1>7

(* The first entry that suits is one that does. *)
LEMMA FirstSuits ==
    ASSUME NEW c \in { d \in Documents : d.kind = "list" }, Suitable(c) # {},
           c.entries[Min(Suitable(c))].digest # "none"
    PROVE  c.entries[Min(Suitable(c))].digest \in Named
<1>1. c.entries \in Seq([architecture : STRING, os : STRING, digest : {"amd64", "other", "none"}])
    BY PlatformAssumption
<1>2. DOMAIN c.entries = 1..Len(c.entries)
    BY <1>1, LenProperties
<1>3. Suitable(c) \subseteq Nat
    BY <1>2 DEF Suitable
<1>4. \E i \in Suitable(c) : \A j \in Suitable(c) : i <= j
    BY <1>3, Least
<1>5. Min(Suitable(c)) \in Suitable(c)
    BY <1>4 DEF Min
<1>6. c.entries[Min(Suitable(c))].digest \in Digests(c)
    BY <1>5 DEF Digests
<1> QED
    BY <1>6 DEF Named

(* A whole body is the text of one document, and a cut one of none. *)
LEMMA SaysWhole ==
    ASSUME Begins(body, reply.body), body \in Seq(Nat), reply.body \in Seq(Nat),
           NEW r \in Resources \ {"v2", "layer"}, reply.body \in Bodies[r], Says # {}
    PROVE  Document \in Documents /\ Text[Document] = reply.body
<1>1. Document \in Documents /\ Text[Document] = body
    <2>1. Document \in Says
        BY DEF Document
    <2> QED
        BY <2>1 DEF Says
<1>2. PICK e \in Documents : reply.body = Text[e]
    BY RegistryAssumption
<1>3. IsPrefix(body, reply.body)
    <2> DEFINE n == Len(body)
    <2>1. n \in Nat /\ n <= Len(reply.body) /\ Len(reply.body) \in Nat
        BY LenProperties DEF Begins
    <2>2. body = SubSeq(reply.body, 1, n)
        <3>1. \A i \in 1..n : reply.body[i] \in Nat
            <4>1. \A i \in 1..n : i \in 1..Len(reply.body)
                BY <2>1
            <4> QED
                BY <4>1, ElementOfSeq
        <3>2. /\ SubSeq(reply.body, 1, n) \in Seq(Nat) /\ Len(SubSeq(reply.body, 1, n)) = IF 1 <= n THEN n - 1 + 1 ELSE 0
              /\ \A i \in 1..(n - 1 + 1) : SubSeq(reply.body, 1, n)[i] = reply.body[1 + i - 1]
            <4>1. 1 \in Int /\ n \in Int
                BY <2>1
            <4> HIDE DEF n
            <4> QED
                BY <3>1, <4>1, SubSeqProperties
        <3>3. \A i \in 1..n : i \in 1..(n - 1 + 1) /\ 1 + i - 1 = i
            BY <2>1
        <3>4. Len(SubSeq(reply.body, 1, n)) = n
            BY <2>1, <3>2
        <3>5. \A i \in 1..n : SubSeq(reply.body, 1, n)[i] = body[i]
            BY <3>2, <3>3 DEF Begins
        <3> QED
            BY <3>2, <3>4, <3>5, SeqEqual
    <2>3. SubSeq(body, 1, n) = body
        BY SubSeqFull
    <2> QED
        BY <2>1, <2>2, <2>3 DEF IsPrefix
<1>4. Document = e
    BY <1>1, <1>2, <1>3, RegistryAssumption
<1> QED
    BY <1>1, <1>2, <1>4

(* What is answered with 200 is the resource. *)
LEMMA AnsweredBody ==
    ASSUME NEW r \in Resources, reply \in Replies(r), reply.status = 200
    PROVE  reply.body \in Bodies[r]
<1> DEFINE Given == [status : {200}, location : {Nowhere}, chunked : BOOLEAN, body : Bodies[r]]
           Denied == [status : {401, 404, 500}, location : {Nowhere}, chunked : {FALSE}, body : {<<>>}]
           Moved == [status : {302}, location : {Nowhere, Malformed} \cup { u \in Urls : u.resource = r },
                     chunked : {FALSE}, body : {<<>>}]
<1>1. \A answer \in Given : answer.body \in Bodies[r]
    OBVIOUS
<1>2. \A answer \in Denied : answer.status # 200
    <2>1. \A answer \in Denied : answer.status \in {401, 404, 500}
        OBVIOUS
    <2> QED
        BY <2>1
<1>3. \A answer \in Moved : answer.status # 200
    <2>1. \A answer \in Moved : answer.status = 302
        OBVIOUS
    <2> QED
        BY <2>1
<1>4. Replies(r) = Given \cup Denied \cup Moved
    BY DEF Replies
<1> HIDE DEF Given, Denied, Moved
<1> QED
    BY <1>1, <1>2, <1>3, <1>4

(* A manifest that is asked for as itself or by a digest that suits is for *)
(* the right platform.                                                     *)
LEMMA ParsesRight ==
    ASSUME HttpInv, AskInv, Answered("manifest") \/ Answered("entry"), reply.status = 200,
           Says # {}, Document.kind = "manifest"
    PROVE  Document \in Documents /\ Document.for \in {"only", "linux/amd64"}
<1> DEFINE r == call.resource
<1>1. doing = "answer" /\ call \in Calls /\ reply \in Replies(r) /\ Begins(body, reply.body) /\ body \in Seq(Nat)
    BY DEF Answered, HttpInv, CallInv, ReplyInv, BodyInv, Replied
<1>2. r \in Resources
    BY <1>1 DEF Calls
<1>3. r \in {"manifest"} \cup Named
    BY DEF Answered, AskInv
<1>4. r \in Resources \ {"v2", "layer"}
    BY <1>2, <1>3, NamedIs
<1>5. reply.body \in Bodies[r] /\ reply.body \in Seq(Nat)
    BY <1>1, <1>2, AnsweredBody, CarriedIs
<1>6. Document \in Documents /\ Text[Document] = reply.body
    BY <1>1, <1>4, <1>5, SaysWhole
<1>7. Document \in Manifests(r)
    BY <1>5, <1>6 DEF Manifests
<1>8. CASE r = "manifest"
    BY <1>6, <1>7, <1>8, PlatformAssumption
<1>9. CASE r \in Named
    BY <1>6, <1>7, <1>9, NamedIs
<1> QED
    BY <1>3, <1>8, <1>9

(* Of the call, a step of it changes neither what it asks for nor whether  *)
(* there is one.                                                           *)
LEMMA CallGoesOn ==
    ASSUME HttpInv, HttpNext
    PROVE  call' = call /\ doing' # "idle"
<1>1. CASE Hop
    BY <1>1 DEF Hop, Fail
<1>2. CASE Redirect
    BY <1>2 DEF Redirect
<1>3. CASE RawGet \/ CurlGet \/ CurlFollow \/ CurlEnd
    BY <1>3 DEF RawGet, CurlGet, CurlFollow, CurlEnd, Fail
<1>4. CASE Parse
    BY <1>4 DEF Parse
<1>5. CASE Chunk
    BY <1>5 DEF Chunk
<1>6. CASE OpenHandle \/ SendRequest
    BY <1>6 DEF OpenHandle, SendRequest, Fail, Then, Opens
<1>7. CASE ReceiveResponse
    BY <1>7 DEF ReceiveResponse, Fail
<1>8. CASE ReadData
    BY <1>8 DEF ReadData
<1> QED
    BY <1>1, <1>2, <1>3, <1>4, <1>5, <1>6, <1>7, <1>8 DEF HttpNext

Pulls == {"start", "challenge", "token", "manifest", "entry", "layers", "blob", "extract", "saved", "error", "panic"}

(* The pull asks for a resource, ... *)
LEMMA Requests ==
    ASSUME HttpInv, AskInv, NEW step \in Pulls, NEW r \in Resources, NEW bearer \in BOOLEAN, NEW follow \in BOOLEAN,
           Request(step, r, bearer, follow), step = "manifest" => r = "manifest", step = "entry" => r \in Named,
           token' \in BOOLEAN, manifest' = manifest, layer' \in Nat, file' = file
    PROVE  HttpInv' /\ AskInv'
<1>1. HttpInv' /\ doing' = "hop" /\ call'.resource = r /\ pull' = step
    BY AskKeeps DEF Request
<1>2. PullTypeOK'
    BY <1>1 DEF AskInv, PullTypeOK, Pulls
<1>3. RightPlatform'
    BY DEF AskInv, RightPlatform
<1> QED
    BY <1>1, <1>2, <1>3 DEF AskInv

(* ... or takes an answer. *)
LEMMA Takes ==
    ASSUME HttpInv, AskInv, NEW result \in {"layers", "extract", "error", "panic"}, Give(result),
           token' = token, layer' = layer, file' \in Seq(Nat),
           manifest' = manifest \/ (manifest' \in Documents /\ manifest'.for \in {"only", "linux/amd64"})
    PROVE  HttpInv' /\ AskInv'
<1>1. HttpInv' /\ pull' = result /\ call' = NoCall
    BY GiveKeeps DEF Give
<1>2. PullTypeOK'
    BY <1>1 DEF AskInv, PullTypeOK
<1>3. RightPlatform'
    BY DEF AskInv, RightPlatform
<1> QED
    BY <1>1, <1>2, <1>3 DEF AskInv

LEMMA ParseManifestKeeps ==
    ASSUME HttpInv, AskInv, Answered("manifest") \/ Answered("entry"), reply.status = 200, ParseManifest,
           UNCHANGED <<token, layer, file>>
    PROVE  HttpInv' /\ AskInv'
<1>1. file' \in Seq(Nat) /\ token' = token /\ layer' = layer
    BY DEF AskInv, PullTypeOK
<1>2. CASE manifest' = Document /\ Give("layers") /\ Says # {} /\ Document.kind = "manifest"
    <2>1. manifest' \in Documents /\ manifest'.for \in {"only", "linux/amd64"}
        BY <1>2, ParsesRight
    <2> QED
        BY <1>1, <1>2, <2>1, Takes
<1>3. CASE Give("error") /\ manifest' = manifest
    BY <1>1, <1>3, Takes
<1> QED
    BY <1>2, <1>3 DEF ParseManifest

LEMMA ResolveKeeps ==
    ASSUME HttpInv, AskInv, Says # {}, Document.kind = "list", ResolveManifestList,
           UNCHANGED <<token, manifest, layer, file>>
    PROVE  HttpInv' /\ AskInv'
<1>1. file' \in Seq(Nat) /\ token \in BOOLEAN /\ token' = token /\ layer' = layer /\ layer' \in Nat
    BY DEF AskInv, PullTypeOK
<1> DEFINE digest == Document.entries[Min(Suitable(Document))].digest
<1>2. \/ Suitable(Document) # {} /\ digest # "none" /\ Request("entry", digest, token, TRUE)
      \/ Give("error")
    BY DEF ResolveManifestList, Suitable
<1>3. CASE Give("error")
    BY <1>1, <1>3, Takes
<1>4. CASE Suitable(Document) # {} /\ digest # "none" /\ Request("entry", digest, token, TRUE)
    <2>1. Document \in { d \in Documents : d.kind = "list" }
        <3>1. Document \in Says
            BY DEF Document
        <3> QED
            BY <3>1 DEF Says
    <2>2. digest \in Named
        BY <1>4, <2>1, FirstSuits
    <2>3. digest \in Resources
        BY <2>2, NamedIs, RegistryAssumption
    <2>4. "entry" \in Pulls /\ TRUE \in BOOLEAN
        BY DEF Pulls
    <2> HIDE DEF digest
    <2> QED
        BY <1>1, <1>4, <2>2, <2>3, <2>4, Requests
<1> QED
    BY <1>2, <1>3, <1>4

LEMMA PullKeeps ==
    ASSUME HttpInv, AskInv, PullNext
    PROVE  HttpInv' /\ AskInv'
<1>1. /\ token \in BOOLEAN /\ layer \in Nat /\ file \in Seq(Nat) /\ body \in Seq(Nat)
      /\ {"auth", "v2", "manifest", "layer"} \subseteq Resources
    BY RegistryAssumption DEF HttpInv, ReplyInv, AskInv, PullTypeOK
<1>2. "token" \in Pulls /\ "challenge" \in Pulls /\ "manifest" \in Pulls /\ "blob" \in Pulls
    BY DEF Pulls
<1>3. CASE Start
    <2>1. Request("token", "auth", FALSE, FALSE) \/ Request("challenge", "v2", FALSE, FALSE)
        BY <1>3 DEF Start
    <2>2. UNCHANGED <<token, manifest, layer, file>>
        BY <1>3 DEF Start
    <2> QED
        BY <1>1, <1>2, <2>1, <2>2, Requests
<1>4. CASE Challenged
    <2>1. \/ Request("token", "auth", FALSE, FALSE) \/ Request("manifest", "manifest", FALSE, TRUE)
          \/ Give("error")
        BY <1>4 DEF Challenged
    <2>2. UNCHANGED <<token, manifest, layer, file>>
        BY <1>4 DEF Challenged
    <2>3. CASE Give("error")
        BY <1>1, <2>2, <2>3, Takes
    <2>4. CASE Request("token", "auth", FALSE, FALSE) \/ Request("manifest", "manifest", FALSE, TRUE)
        BY <1>1, <1>2, <2>2, <2>4, Requests
    <2> QED
        BY <2>1, <2>3, <2>4
<1>5. CASE GetToken
    <2>1. UNCHANGED <<manifest, layer, file>>
        BY <1>5 DEF GetToken
    <2>2. CASE token' \in BOOLEAN /\ Request("manifest", "manifest", token', TRUE)
        BY <1>1, <1>2, <2>1, <2>2, Requests
    <2>3. CASE Give("error") /\ UNCHANGED token
        BY <1>1, <2>1, <2>3, Takes
    <2>4. \/ token' = (Document.value # "empty") /\ Request("manifest", "manifest", token', TRUE)
          \/ Give("error") /\ UNCHANGED token
        BY <1>5 DEF GetToken
    <2> QED
        BY <2>2, <2>3, <2>4
<1>6. CASE FetchManifest
    <2>1. Answered("manifest") /\ UNCHANGED <<token, layer, file>>
        BY <1>6 DEF FetchManifest
    <2>2. CASE reply.status = 200 /\ Says # {} /\ Document.kind = "list"
        BY <1>6, <2>2, ResolveKeeps DEF FetchManifest
    <2>3. CASE reply.status = 200 /\ ~(Says # {} /\ Document.kind = "list")
        BY <1>6, <2>1, <2>3, ParseManifestKeeps DEF FetchManifest
    <2>4. CASE reply.status # 200
        <3>1. Give("error") /\ UNCHANGED manifest
            BY <1>6, <2>4 DEF FetchManifest
        <3> QED
            BY <1>1, <2>1, <3>1, Takes
    <2> QED
        BY <2>2, <2>3, <2>4
<1>7. CASE FetchByDigest
    <2>1. Answered("entry") /\ UNCHANGED <<token, layer, file>>
        BY <1>7 DEF FetchByDigest
    <2>2. CASE reply.status = 200
        BY <1>7, <2>1, <2>2, ParseManifestKeeps DEF FetchByDigest
    <2>3. CASE reply.status # 200
        <3>1. Give("error") /\ UNCHANGED manifest
            BY <1>7, <2>3 DEF FetchByDigest
        <3> QED
            BY <1>1, <2>1, <3>1, Takes
    <2> QED
        BY <2>2, <2>3
<1>8. CASE NextLayer
    <2>1. UNCHANGED <<token, manifest, file>> /\ layer' \in Nat
        <3>1. UNCHANGED <<token, manifest, file>> /\ (layer' = layer \/ layer' = layer + 1)
            BY <1>8 DEF NextLayer
        <3> QED
            BY <1>1, <3>1
    <2>2. CASE Request("blob", "layer", token, TRUE)
        BY <1>1, <1>2, <2>1, <2>2, Requests
    <2>3. CASE pull' \in {"saved", "panic"} /\ UNCHANGED httpVars
        <3>1. HttpInv'
            BY <2>3, HttpUnchanged
        <3>2. PullTypeOK'
            BY <2>1, <2>3 DEF AskInv, PullTypeOK, httpVars
        <3>3. RightPlatform'
            BY <2>1 DEF AskInv, RightPlatform
        <3> QED
            BY <2>3, <3>1, <3>2, <3>3 DEF AskInv
    <2>4. Request("blob", "layer", token, TRUE) \/ (pull' \in {"saved", "panic"} /\ UNCHANGED httpVars)
        BY <1>8 DEF NextLayer
    <2> QED
        BY <2>2, <2>3, <2>4
<1>9. CASE GetBlob
    <2>1. UNCHANGED <<token, manifest, layer>>
        BY <1>9 DEF GetBlob
    <2>2. (file' = body /\ Give("extract")) \/ (Give("error") /\ file' = file)
        BY <1>9 DEF GetBlob
    <2> QED
        BY <1>1, <2>1, <2>2, Takes
<1>10. CASE CallFails
    <2>1. doing \in {"error", "panic"} /\ Give(doing) /\ UNCHANGED <<token, manifest, layer, file>>
        BY <1>10 DEF CallFails
    <2> QED
        BY <1>1, <2>1, Takes
<1>11. CASE HttpNext /\ UNCHANGED pullVars
    <2>1. HttpInv' /\ call' = call /\ doing' # "idle" /\ UNCHANGED pullVars
        BY <1>11, CallKeeps, CallGoesOn
    <2>2. PullTypeOK'
        BY <2>1 DEF AskInv, PullTypeOK, pullVars
    <2>3. RightPlatform'
        BY <2>1 DEF AskInv, RightPlatform, pullVars
    <2> QED
        BY <2>1, <2>2, <2>3 DEF AskInv, pullVars
<1> QED
    BY <1>3, <1>4, <1>5, <1>6, <1>7, <1>8, <1>9, <1>10, <1>11 DEF PullNext

LEMMA AskStart == Init => AskInv
<1> SUFFICES ASSUME Init PROVE AskInv
    OBVIOUS
<1>1. PullTypeOK
    BY NoBytes DEF Init, PullInit, HttpInit, PullTypeOK
<1> QED
    BY <1>1 DEF Init, PullInit, AskInv, RightPlatform

LEMMA DownloadKeeps ==
    ASSUME HttpInv, AskInv, [Next]_downloadVars
    PROVE  HttpInv' /\ AskInv'
<1>1. ASSUME UNCHANGED <<httpVars, pullVars>> PROVE HttpInv' /\ AskInv'
    <2>1. HttpInv'
        BY <1>1, HttpUnchanged
    <2>2. PullTypeOK'
        BY <1>1 DEF AskInv, PullTypeOK, httpVars, pullVars
    <2>3. RightPlatform'
        BY <1>1 DEF AskInv, RightPlatform, pullVars
    <2> QED
        BY <1>1, <2>1, <2>2, <2>3 DEF AskInv, httpVars, pullVars
<1>2. CASE Network
    BY <1>2, PullKeeps DEF Network
<1>3. CASE ExtractLayer
    BY <1>1, <1>3 DEF ExtractLayer
<1>4. CASE Extracted
    <2>1. /\ pull' \in {"layers", "error"} /\ file' = <<>>
          /\ UNCHANGED <<token, manifest, layer, httpVars>>
        BY <1>4 DEF Extracted
    <2>2. HttpInv'
        BY <2>1, HttpUnchanged
    <2>3. PullTypeOK'
        BY <2>1, NoBytes DEF AskInv, PullTypeOK, httpVars
    <2>4. RightPlatform'
        BY <2>1 DEF AskInv, RightPlatform
    <2> QED
        BY <2>1, <2>2, <2>3, <2>4 DEF AskInv
<1>5. CASE InflateNext /\ UNCHANGED <<httpVars, pullVars, sent>>
    BY <1>1, <1>5
<1>6. CASE UNCHANGED downloadVars
    BY <1>1, <1>6 DEF downloadVars
<1> QED
    BY <1>2, <1>3, <1>4, <1>5, <1>6 DEF Next

LEMMA DownloadInvariant == Spec => [](HttpInv /\ AskInv)
<1>1. Init => HttpInv /\ AskInv
    BY HttpStart, AskStart
<1>2. HttpInv /\ AskInv /\ [Next]_downloadVars => (HttpInv /\ AskInv)'
    BY DownloadKeeps
<1> QED
    BY <1>1, <1>2, PTL DEF Spec

(* decode_chunked and raw_http_get: for every body, however long, and      *)
(* every size of the chunks that it is sent in, what arrives over a plain  *)
(* connection up to its end is taken whole.                                *)
THEOREM PlainArrivesWhole == Spec => []PlainWhole
<1>1. HttpInv => PlainWhole
    BY DEF HttpInv
<1> QED
    BY <1>1, DownloadInvariant, PTL

(* pull_image and resolve_manifest_list: of whatever list a registry sends,*)
(* and wherever the answers are cut, the manifest that is used is for this *)
(* platform or the only one, if the registry's digests are what the list   *)
(* says they are.                                                          *)
THEOREM PlatformRight == Spec => []RightPlatform
<1>1. AskInv => RightPlatform
    BY DEF AskInv
<1> QED
    BY <1>1, DownloadInvariant, PTL

----------------------------------------------------------------------------
(* The token *)

(* A call that has the token is one to the registry. *)
Bearer == call.token => token /\ call.resource \in Resources \ {"auth"}

TokenInv == Bearer /\ TokenStaysHome

(* A step of a call keeps the last request, or sends one, with the token   *)
(* only to the host of the call's first; other steps begin and end calls.  *)
ToHome == asked'.token => call.token /\ asked'.url.host = Home[call.resource].host
Sends == call' = call /\ token' = token /\ (asked' = asked \/ ToHome)
Starts == asked'.token = FALSE /\ Bearer'

LEMMA OnwardHome ==
    ASSUME NEW place, asked' = Onward(place)
    PROVE  ToHome
<1>1. asked'.url = place /\ (asked'.token => call.token /\ SameOrigin /\ place.host = url.host)
    BY DEF Onward
<1> QED
    BY <1>1 DEF SameOrigin, ToHome

LEMMA HttpSends ==
    ASSUME HttpNext, token' = token
    PROVE  Sends
<1>1. CASE Hop
    <2>1. CASE url = Malformed \/ Exhausted
        BY <1>1, <2>1 DEF Hop, Fail, Sends
    <2>2. CASE ~(url = Malformed \/ Exhausted)
        <3>1. asked' = [url |-> url, token |-> call.token /\ SameOrigin] /\ call' = call
            BY <1>1, <2>2 DEF Hop
        <3>2. asked'.url = url /\ (asked'.token => call.token /\ SameOrigin)
            BY <3>1
        <3> QED
            BY <3>1, <3>2 DEF SameOrigin, Sends, ToHome
    <2> QED
        BY <2>1, <2>2
<1>2. CASE CurlGet
    BY <1>2, OnwardHome DEF CurlGet, Fail, Sends
<1>3. CASE CurlFollow
    BY <1>3, OnwardHome DEF CurlFollow, Sends
<1>4. CASE Redirect \/ RawGet \/ CurlEnd
    BY <1>4 DEF Redirect, RawGet, CurlEnd, Fail, Sends
<1>5. CASE Parse \/ Chunk
    BY <1>5 DEF Parse, Chunk, Sends
<1>6. CASE OpenHandle \/ SendRequest
    BY <1>6 DEF OpenHandle, SendRequest, Fail, Sends
<1>7. CASE ReceiveResponse \/ ReadData
    BY <1>7 DEF ReceiveResponse, ReadData, Fail, Sends
<1> QED
    BY <1>1, <1>2, <1>3, <1>4, <1>5, <1>6, <1>7 DEF HttpNext

LEMMA RequestStarts ==
    ASSUME NEW step, NEW r \in Resources \ {"auth"}, NEW follow, Request(step, r, token', follow)
    PROVE  Starts
BY DEF Request, Ask, NotAsked, Starts, Bearer

LEMMA BareStarts ==
    ASSUME NEW step, NEW r, NEW follow, Request(step, r, FALSE, follow)
    PROVE  Starts
BY DEF Request, Ask, NotAsked, Starts, Bearer

LEMMA GiveStarts ==
    ASSUME NEW result, Give(result)
    PROVE  Starts
BY DEF Give, NotAsked, NoCall, Starts, Bearer

LEMMA ResolveStarts ==
    ASSUME Says # {}, Document.kind = "list", ResolveManifestList, token' = token
    PROVE  Starts
<1> DEFINE digest == Document.entries[Min(Suitable(Document))].digest
<1>1. \/ Suitable(Document) # {} /\ digest # "none" /\ Request("entry", digest, token, TRUE)
      \/ Give("error")
    BY DEF ResolveManifestList, Suitable
<1>2. Document \in { d \in Documents : d.kind = "list" }
    <2>1. Document \in Says
        BY DEF Document
    <2> QED
        BY <2>1 DEF Says
<1>3. CASE Suitable(Document) # {} /\ digest # "none" /\ Request("entry", digest, token, TRUE)
    <2>1. digest \in Named
        BY <1>2, <1>3, FirstSuits
    <2>2. digest \in Resources \ {"auth"}
        BY <2>1, NamedIs, RegistryAssumption
    <2> HIDE DEF digest
    <2> QED
        BY <1>3, <2>2, RequestStarts
<1> QED
    BY <1>1, <1>3, GiveStarts

(* Every step of the pull begins a call, ends one, or is one of a call. *)
LEMMA PullSends ==
    ASSUME PullNext
    PROVE  Sends \/ Starts
<1>1. {"manifest", "layer"} \subseteq Resources \ {"auth"}
    BY RegistryAssumption
<1>2. CASE Start \/ Challenged
    BY <1>2, BareStarts, GiveStarts DEF Start, Challenged
<1>3. CASE GetToken
    BY <1>1, <1>3, RequestStarts, GiveStarts DEF GetToken
<1>4. CASE FetchManifest \/ FetchByDigest
    <2>1. ASSUME ParseManifest PROVE Starts
        BY <2>1, GiveStarts DEF ParseManifest
    <2>2. token' = token
        BY <1>4 DEF FetchManifest, FetchByDigest
    <2> QED
        BY <1>4, <2>1, <2>2, ResolveStarts, GiveStarts DEF FetchManifest, FetchByDigest
<1>5. CASE NextLayer
    <2>1. token' = token
        BY <1>5 DEF NextLayer
    <2>2. CASE UNCHANGED httpVars
        BY <2>1, <2>2 DEF httpVars, Sends
    <2>3. CASE Request("blob", "layer", token, TRUE)
        BY <1>1, <2>1, <2>3, RequestStarts
    <2> QED
        BY <1>5, <2>2, <2>3 DEF NextLayer
<1>6. CASE GetBlob \/ CallFails
    BY <1>6, GiveStarts DEF GetBlob, CallFails
<1>7. CASE HttpNext /\ UNCHANGED pullVars
    BY <1>7, HttpSends DEF pullVars
<1> QED
    BY <1>2, <1>3, <1>4, <1>5, <1>6, <1>7 DEF PullNext

LEMMA TokenStep ==
    ASSUME TokenInv, [Next]_downloadVars
    PROVE  TokenInv'
<1>1. CASE Sends
    <2>1. Bearer'
        BY <1>1 DEF TokenInv, Bearer, Sends
    <2>2. CASE asked' = asked
        BY <1>1, <2>1, <2>2 DEF TokenInv, TokenStaysHome, Sends
    <2>3. CASE ToHome
        <3>1. call.token => token /\ Home[call.resource].host = Home["v2"].host
            BY RegistryAssumption DEF TokenInv, Bearer
        <3> QED
            BY <1>1, <2>1, <2>3, <3>1 DEF TokenInv, TokenStaysHome, Sends, ToHome
    <2> QED
        BY <1>1, <2>2, <2>3 DEF Sends
<1>2. CASE Starts
    BY <1>2 DEF Starts, TokenInv, TokenStaysHome
<1>3. CASE ExtractLayer \/ Extracted
    BY <1>1, <1>3 DEF ExtractLayer, Extracted, httpVars, pullVars, Sends
<1>4. CASE UNCHANGED <<httpVars, pullVars>>
    BY <1>1, <1>4 DEF httpVars, pullVars, Sends
<1>5. CASE Network
    BY <1>1, <1>2, <1>5, PullSends DEF Network
<1>6. CASE UNCHANGED downloadVars
    BY <1>4, <1>6 DEF downloadVars
<1> QED
    BY <1>3, <1>4, <1>5, <1>6 DEF Next

(* get_follow_redirects, registry_get and curl: however the servers        *)
(* redirect, and whoever follows, no request that carries the bearer token *)
(* goes to a host other than the registry that it is for.                  *)
THEOREM TokenNeverLeaves == Spec => []TokenStaysHome
<1>1. Init => TokenInv
    BY DEF Init, PullInit, HttpInit, NotAsked, NoCall, TokenInv, Bearer, TokenStaysHome
<1>2. Init /\ [][Next]_downloadVars => []TokenInv
    BY <1>1, TokenStep, PTL
<1>3. TokenInv => TokenStaysHome
    BY DEF TokenInv
<1> QED
    BY <1>2, <1>3, PTL DEF Spec

----------------------------------------------------------------------------
(* Recursive functions *)

(* What is defined from 0 to n by steps within a set is defined, ... *)
Steps(n, S) == [1..n -> [S -> S]]
Stepped(n, S, a, step, f) == f \in [0..n -> S] /\ f[0] = a /\ \A k \in 1..n : f[k] = step[k][f[k - 1]]

LEMMA Recursion ==
    ASSUME NEW n \in Nat, NEW S, NEW a \in S, NEW step \in Steps(n, S)
    PROVE  \E f : Stepped(n, S, a, step, f)
<1> DEFINE Defined(m) == \E f \in [0..m -> S] : f[0] = a /\ \A k \in 1..m : f[k] = step[k][f[k - 1]]
           M == {m \in Nat : Defined(m)}
<1>1. 0 \in M
    <2> DEFINE f == [k \in 0..0 |-> a]
    <2>1. f \in [0..0 -> S] /\ f[0] = a /\ \A k \in 1..0 : f[k] = step[k][f[k - 1]]
        OBVIOUS
    <2> QED
        BY <2>1
<1>2. ASSUME NEW m \in 0..(n - 1), m \in M PROVE m + 1 \in M
    <2>1. m \in Nat /\ m + 1 \in 1..n /\ m + 1 \in Nat
        BY <1>2
    <2>2. PICK g \in [0..m -> S] : g[0] = a /\ \A k \in 1..m : g[k] = step[k][g[k - 1]]
        BY <1>2
    <2> DEFINE h == [k \in 0..(m + 1) |-> IF k = m + 1 THEN step[m + 1][g[m]] ELSE g[k]]
    <2>3. step[m + 1][g[m]] \in S
        BY <2>1, <2>2 DEF Steps
    <2>4. h \in [0..(m + 1) -> S]
        <3>1. ASSUME NEW k \in 0..(m + 1), k # m + 1 PROVE g[k] \in S
            <4>1. k \in 0..m
                BY <2>1, <3>1
            <4> QED
                BY <4>1, <2>2
        <3> QED
            BY <2>3, <3>1
    <2>5. h[0] = a
        <3>1. 0 \in 0..(m + 1) /\ 0 # m + 1
            BY <2>1
        <3> QED
            BY <2>2, <3>1
    <2>6. ASSUME NEW k \in 1..(m + 1) PROVE h[k] = step[k][h[k - 1]]
        <3>1. k \in 0..(m + 1) /\ k - 1 \in 0..(m + 1) /\ k - 1 # m + 1 /\ h[k - 1] = g[k - 1]
            BY <2>1
        <3>2. CASE k = m + 1
            <4>1. k - 1 = m
                BY <2>1, <3>2
            <4> QED
                BY <3>1, <3>2, <4>1
        <3>3. CASE k # m + 1
            <4>1. k \in 1..m
                BY <2>1, <3>3
            <4> QED
                BY <2>2, <3>1, <3>3, <4>1
        <3> QED
            BY <3>2, <3>3
    <2> HIDE DEF h
    <2> QED
        BY <2>1, <2>4, <2>5, <2>6
<1> HIDE DEF M
<1>3. 0..n \subseteq M
    BY <1>1, <1>2, Induction
<1>4. n \in M
    BY <1>3
<1> QED
    BY <1>4 DEF M, Stepped

(* ... and every such function has its values there. *)
LEMMA Values ==
    ASSUME NEW n \in Nat, NEW S, NEW f, f[0] \in S, \A k \in 1..n : f[k - 1] \in S => f[k] \in S
    PROVE  \A k \in 0..n : f[k] \in S
<1> DEFINE M == {m \in Nat : f[m] \in S}
<1>1. 0 \in M
    OBVIOUS
<1>2. ASSUME NEW m \in 0..(n - 1), m \in M PROVE m + 1 \in M
    <2> DEFINE k == m + 1
    <2>1. k \in 1..n /\ k - 1 = m /\ k \in Nat
        OBVIOUS
    <2> HIDE DEF k
    <2>2. f[k - 1] \in S
        BY <1>2, <2>1
    <2>3. f[k] \in S
        BY <2>1, <2>2
    <2> QED
        BY <2>1, <2>3 DEF k
<1> HIDE DEF M
<1>3. 0..n \subseteq M
    BY <1>1, <1>2, Induction
<1> QED
    BY <1>3 DEF M

(* A function on 1..m is a sequence of m. *)
LEMMA FunctionLength ==
    ASSUME NEW m \in Nat, NEW T, NEW f \in [1..m -> T]
    PROVE  f \in Seq(T) /\ Len(f) = m
<1>1. f \in Seq(T)
    BY SeqDef
<1> DEFINE l == Len(f)
<1>2. 1..l = 1..m /\ l \in Nat
    <2>1. DOMAIN f = 1..Len(f) /\ Len(f) \in Nat
        BY <1>1, LenProperties
    <2> QED
        BY <2>1
<1> HIDE DEF l
<1>3. l >= m
    <2>1. CASE m # 0
        <3>1. m \in 1..m
            BY <2>1
        <3>2. m \in 1..l
            BY <1>2, <3>1
        <3> QED
            BY <1>2, <3>2
    <2> QED
        BY <1>2, <2>1
<1>4. m >= l
    <2>1. CASE l # 0
        <3>1. l \in 1..l
            BY <1>2, <2>1
        <3>2. l \in 1..m
            BY <1>2, <3>1
        <3> QED
            BY <3>2
    <2> QED
        BY <1>2, <2>1
<1> QED
    BY <1>1, <1>2, <1>3, <1>4 DEF l

----------------------------------------------------------------------------
(* The codes *)

(* Each element of a finite set of numbers has its place in their order. *)
LEMMA Ranks ==
    ASSUME NEW T, T \subseteq Nat, IsFiniteSet(T), NEW k \in 0..(Cardinality(T) - 1)
    PROVE  \E s \in T : Cardinality({t \in T : t < s}) = k
<1> DEFINE n == Cardinality(T)
           Before(s) == {t \in T : t < s}
           M == {m \in Nat : m < n => \E s \in T : Cardinality(Before(s)) = m}
<1>1. n \in Nat
    BY FS_CardinalityType
<1>2. 0 \in M
    <2>1. ASSUME 0 < n PROVE \E s \in T : Cardinality(Before(s)) = 0
        <3>1. T # {}
            BY <2>1, FS_EmptySet
        <3>2. PICK s \in T : \A t \in T : s <= t
            BY <3>1, Least
        <3>3. Before(s) = {}
            <4>1. ASSUME NEW t \in T PROVE ~(t < s)
                BY <3>2, <4>1
            <4> QED
                BY <4>1
        <3> QED
            BY <3>3, FS_EmptySet
    <2> QED
        BY <2>1
<1>3. ASSUME NEW m \in 0..(n - 1), m \in M PROVE m + 1 \in M
    <2>1. ASSUME m + 1 < n PROVE \E s \in T : Cardinality(Before(s)) = m + 1
        <3>1. PICK s \in T : Cardinality(Before(s)) = m
            BY <1>1, <1>3, <2>1
        <3> DEFINE A == Before(s) \cup {s}
        <3>2. Cardinality(A) = m + 1
            <4>1. IsFiniteSet(Before(s)) /\ s \notin Before(s)
                BY FS_Subset
            <4> QED
                BY <3>1, <4>1, FS_AddElement
        <3>3. T \ A # {} /\ T \ A \subseteq Nat
            <4>1. A # T
                <5> HIDE DEF A
                <5>1. ASSUME A = T PROVE FALSE
                    <6>1. Cardinality(T) = m + 1 /\ m + 1 < Cardinality(T)
                        BY <2>1, <3>2, <5>1
                    <6> QED
                        BY <6>1
                <5> QED
                    BY <5>1
            <4> QED
                BY <4>1
        <3>4. PICK u \in T \ A : \A t \in T \ A : u <= t
            <4> HIDE DEF A
            <4> QED
                BY <3>3, Least
        <3>5. Before(u) = A
            <4>1. u > s
                BY <3>4
            <4>2. ASSUME NEW t \in T PROVE t < u <=> t \in A
                BY <3>4, <4>1, <4>2
            <4> QED
                BY <4>2
        <3> QED
            BY <3>2, <3>4, <3>5
    <2> QED
        BY <1>1, <2>1
<1> HIDE DEF M
<1>4. 0..n \subseteq M
    BY <1>1, <1>2, <1>3, Induction
<1>5. k \in M /\ k < n
    BY <1>1, <1>4
<1> QED
    BY <1>5 DEF M

LEMMA CodedIs ==
    ASSUME NEW L, Len(L) \in Nat, NEW b
    PROVE  Coded(L, b) \subseteq Nat /\ IsFiniteSet(Coded(L, b))
<1>1. 0..(Len(L) - 1) \subseteq Nat /\ IsFiniteSet(0..(Len(L) - 1)) /\ Coded(L, b) \subseteq 0..(Len(L) - 1)
    <2>1. 0 \in Int /\ Len(L) - 1 \in Int
        OBVIOUS
    <2> QED
        BY <2>1, FS_Interval DEF Coded
<1> QED
    BY <1>1, FS_Subset

LEMMA OfLengthIs ==
    ASSUME NEW L, Len(L) \in Nat, NEW b
    PROVE  /\ Cardinality(Coded(L, b)) \in Nat
           /\ OfLength(L, b) \in Seq(Nat) /\ Len(OfLength(L, b)) = Cardinality(Coded(L, b))
<1> DEFINE T == Coded(L, b)
           n == Cardinality(T)
           s == OfLength(L, b)
<1>1. T \subseteq Nat /\ IsFiniteSet(T)
    BY CodedIs
<1>2. n \in Nat
    BY <1>1, FS_CardinalityType
<1>3. s = [i \in 1..n |-> CHOOSE t \in T : Cardinality({ r \in T : r < t }) = i - 1]
    BY DEF OfLength
<1> HIDE DEF T, n, s
<1>4. ASSUME NEW i \in 1..n PROVE s[i] \in Nat
    <2>1. i - 1 \in 0..(n - 1)
        BY <1>2
    <2>2. \E t \in T : Cardinality({ r \in T : r < t }) = i - 1
        BY <1>1, <2>1, Ranks DEF n
    <2>3. s[i] \in T
        BY <1>3, <2>2
    <2> QED
        BY <1>1, <2>3
<1>5. s \in [1..n -> Nat]
    BY <1>3, <1>4
<1>6. s \in Seq(Nat) /\ Len(s) = n
    BY <1>2, <1>5, FunctionLength
<1> QED
    BY <1>2, <1>6 DEF T, n, s

(* The tables of an alphabet, with what Decode needs of them: the first    *)
(* code of a length is never below the codes that come before it.          *)
Tree(t) ==
    /\ t.symbols \in Seq(Nat)
    /\ \A b \in 1..MaxBits : t.min[b] \in Nat /\ t.offset[b] \in Int /\ t.offset[b] + t.min[b] >= 0

LEMMA FirstCodesAre ==
    ASSUME NEW counts \in [0..MaxBits -> Nat]
    PROVE  /\ \A b \in 0..MaxBits : FirstCodes(counts)[b] \in Nat
           /\ FirstCodes(counts)[0] = 0
           /\ \A b \in 1..MaxBits : FirstCodes(counts)[b] = 2 * (FirstCodes(counts)[b - 1] + counts[b - 1])
<1> DEFINE n == 16
           IsCode(f) == f = [b \in 0..n |-> IF b = 0 THEN 0 ELSE 2 * (f[b - 1] + counts[b - 1])]
           step == [b \in 1..n |-> [x \in Nat |-> 2 * (x + counts[b - 1])]]
           code == FirstCodes(counts)
<1>1. \A b \in 1..n : b - 1 \in 0..n /\ b \in 0..n /\ b # 0 /\ counts[b - 1] \in Nat
    <2>1. \A b \in 1..n : b - 1 \in 0..n /\ b \in 0..n /\ b # 0
        OBVIOUS
    <2> QED
        BY <2>1 DEF MaxBits
<1>2. code = CHOOSE f : IsCode(f)
    BY DEF FirstCodes, MaxBits
<1>3. n \in Nat /\ 0 \in Nat /\ 0 \in 0..n
    OBVIOUS
<1> HIDE DEF n
<1>4. step \in Steps(n, Nat)
    BY <1>1 DEF Steps
<1>5. PICK f : Stepped(n, Nat, 0, step, f)
    <2> HIDE DEF step
    <2> QED
        BY <1>3, <1>4, Recursion
<1>6. IsCode(f)
    <2>1. ASSUME NEW b \in 0..n PROVE f[b] = IF b = 0 THEN 0 ELSE 2 * (f[b - 1] + counts[b - 1])
        <3>1. ASSUME b # 0 PROVE f[b] = 2 * (f[b - 1] + counts[b - 1])
            <4>1. b \in 1..n /\ f[b - 1] \in Nat
                <5>1. b \in 1..n
                    BY <1>3, <3>1
                <5> QED
                    BY <1>1, <1>5, <5>1 DEF Stepped
            <4> QED
                BY <1>5, <4>1 DEF Stepped
        <3> QED
            BY <1>5, <3>1 DEF Stepped
    <2> QED
        BY <1>5, <2>1 DEF Stepped
<1>7. IsCode(code)
    BY <1>2, <1>6
<1> HIDE DEF code
<1>8. code[0] = 0 /\ \A b \in 1..n : code[b] = 2 * (code[b - 1] + counts[b - 1])
    <2>1. \A b \in 0..n : code[b] = IF b = 0 THEN 0 ELSE 2 * (code[b - 1] + counts[b - 1])
        BY <1>7
    <2>2. code[0] = 0
        BY <1>3, <2>1
    <2>3. \A b \in 1..n : code[b] = 2 * (code[b - 1] + counts[b - 1])
        BY <1>1, <2>1
    <2> QED
        BY <2>2, <2>3
<1>9. code[0] \in Nat /\ \A b \in 1..n : code[b - 1] \in Nat => code[b] \in Nat
    BY <1>1, <1>8
<1>10. \A b \in 0..n : code[b] \in Nat
    BY <1>3, <1>9, Values
<1> QED
    BY <1>8, <1>10 DEF code, n, MaxBits

LEMMA ShorterAre ==
    ASSUME NEW counts \in [0..MaxBits -> Nat]
    PROVE  /\ \A b \in 0..MaxBits : Shorter(counts)[b] \in Nat
           /\ Shorter(counts)[0] = 0
           /\ \A b \in 1..MaxBits : Shorter(counts)[b] = Shorter(counts)[b - 1] + counts[b - 1]
<1> DEFINE n == 16
           IsShorter(f) == f = [b \in 0..n |-> IF b = 0 THEN 0 ELSE f[b - 1] + counts[b - 1]]
           step == [b \in 1..n |-> [x \in Nat |-> x + counts[b - 1]]]
           shorter == Shorter(counts)
<1>1. \A b \in 1..n : b - 1 \in 0..n /\ b \in 0..n /\ b # 0 /\ counts[b - 1] \in Nat
    <2>1. \A b \in 1..n : b - 1 \in 0..n /\ b \in 0..n /\ b # 0
        OBVIOUS
    <2> QED
        BY <2>1 DEF MaxBits
<1>2. shorter = CHOOSE f : IsShorter(f)
    BY DEF Shorter, MaxBits
<1>3. n \in Nat /\ 0 \in Nat /\ 0 \in 0..n
    OBVIOUS
<1> HIDE DEF n
<1>4. step \in Steps(n, Nat)
    BY <1>1 DEF Steps
<1>5. PICK f : Stepped(n, Nat, 0, step, f)
    <2> HIDE DEF step
    <2> QED
        BY <1>3, <1>4, Recursion
<1>6. IsShorter(f)
    <2>1. ASSUME NEW b \in 0..n PROVE f[b] = IF b = 0 THEN 0 ELSE f[b - 1] + counts[b - 1]
        <3>1. ASSUME b # 0 PROVE f[b] = f[b - 1] + counts[b - 1]
            <4>1. b \in 1..n /\ f[b - 1] \in Nat
                <5>1. b \in 1..n
                    BY <1>3, <3>1
                <5> QED
                    BY <1>1, <1>5, <5>1 DEF Stepped
            <4> QED
                BY <1>5, <4>1 DEF Stepped
        <3> QED
            BY <1>5, <3>1 DEF Stepped
    <2> QED
        BY <1>5, <2>1 DEF Stepped
<1>7. IsShorter(shorter)
    BY <1>2, <1>6
<1> HIDE DEF shorter
<1>8. shorter[0] = 0 /\ \A b \in 1..n : shorter[b] = shorter[b - 1] + counts[b - 1]
    <2>1. \A b \in 0..n : shorter[b] = IF b = 0 THEN 0 ELSE shorter[b - 1] + counts[b - 1]
        BY <1>7
    <2>2. shorter[0] = 0
        BY <1>3, <2>1
    <2>3. \A b \in 1..n : shorter[b] = shorter[b - 1] + counts[b - 1]
        BY <1>1, <2>1
    <2> QED
        BY <2>2, <2>3
<1>9. shorter[0] \in Nat /\ \A b \in 1..n : shorter[b - 1] \in Nat => shorter[b] \in Nat
    BY <1>1, <1>8
<1>10. \A b \in 0..n : shorter[b] \in Nat
    BY <1>3, <1>9, Values
<1> QED
    BY <1>8, <1>10 DEF shorter, n, MaxBits

(* The symbols that from_lengths lists, those with the shortest codes first. *)
IsListed(L, f) == f = [b \in 0..MaxBits |-> IF b = 0 THEN <<>> ELSE f[b - 1] \o OfLength(L, b)]

Listed(L) == CHOOSE f : IsListed(L, f)

LEMMA ListedAre ==
    ASSUME NEW L, Len(L) \in Nat
    PROVE  /\ \A b \in 0..MaxBits : Listed(L)[b] \in Seq(Nat)
           /\ Listed(L)[0] = <<>>
           /\ \A b \in 1..MaxBits : Listed(L)[b] = Listed(L)[b - 1] \o OfLength(L, b)
<1> DEFINE n == 16
           step == [b \in 1..n |-> [x \in Seq(Nat) |-> x \o OfLength(L, b)]]
           listed == Listed(L)
<1>1. \A b \in 1..n : b - 1 \in 0..n /\ b \in 0..n /\ b # 0
    OBVIOUS
<1>2. \A b \in 1..n : \A x \in Seq(Nat) : x \o OfLength(L, b) \in Seq(Nat)
    <2>1. ASSUME NEW b \in 1..n, NEW x \in Seq(Nat) PROVE x \o OfLength(L, b) \in Seq(Nat)
        <3>1. OfLength(L, b) \in Seq(Nat)
            BY OfLengthIs
        <3> QED
            BY <3>1, Joined
    <2> QED
        BY <2>1
<1>3. n \in Nat /\ <<>> \in Seq(Nat) /\ 0 \in 0..n /\ n \in 0..n
    OBVIOUS
<1> HIDE DEF n
<1>4. step \in Steps(n, Seq(Nat))
    BY <1>2 DEF Steps
<1>5. PICK f : Stepped(n, Seq(Nat), <<>>, step, f)
    <2> HIDE DEF step
    <2> QED
        BY <1>3, <1>4, Recursion
<1>6. IsListed(L, f)
    <2>1. ASSUME NEW b \in 0..n PROVE f[b] = IF b = 0 THEN <<>> ELSE f[b - 1] \o OfLength(L, b)
        <3>1. ASSUME b # 0 PROVE f[b] = f[b - 1] \o OfLength(L, b)
            <4>1. b \in 1..n
                BY <1>3, <3>1
            <4>2. f[b - 1] \in Seq(Nat) /\ f[b] = step[b][f[b - 1]]
                BY <1>1, <1>5, <4>1 DEF Stepped
            <4> QED
                BY <4>1, <4>2
        <3> QED
            BY <1>5, <3>1 DEF Stepped
    <2>2. f = [b \in 0..n |-> f[b]]
        BY <1>5 DEF Stepped
    <2> QED
        BY <2>1, <2>2 DEF IsListed, n, MaxBits
<1>7. IsListed(L, listed)
    BY <1>6 DEF Listed
<1> HIDE DEF listed
<1>8. listed[0] = <<>> /\ \A b \in 1..n : listed[b] = listed[b - 1] \o OfLength(L, b)
    <2>1. \A b \in 0..n : listed[b] = IF b = 0 THEN <<>> ELSE listed[b - 1] \o OfLength(L, b)
        BY <1>7 DEF IsListed, n, MaxBits
    <2>2. listed[0] = <<>>
        BY <1>3, <2>1
    <2>3. \A b \in 1..n : listed[b] = listed[b - 1] \o OfLength(L, b)
        BY <1>1, <2>1
    <2> QED
        BY <2>2, <2>3
<1>9. listed[0] \in Seq(Nat) /\ \A b \in 1..n : listed[b - 1] \in Seq(Nat) => listed[b] \in Seq(Nat)
    BY <1>2, <1>3, <1>8
<1>10. \A b \in 0..n : listed[b] \in Seq(Nat)
    BY <1>3, <1>9, Values
<1> QED
    BY <1>8, <1>10 DEF listed, n, MaxBits

LEMMA TreeOf ==
    ASSUME NEW L, Len(L) \in Nat
    PROVE  Tree(FromLengths(L))
<1> DEFINE counts == Counts(L)
           first == FirstCodes(counts)
           shorter == Shorter(counts)
           tree == FromLengths(L)
<1>1. counts \in [0..MaxBits -> Nat]
    <2>1. \A b \in 0..MaxBits : Cardinality(Coded(L, b)) \in Nat
        BY OfLengthIs
    <2> QED
        BY <2>1 DEF Counts
<1>2. \A b \in 0..MaxBits : first[b] \in Nat /\ shorter[b] \in Nat
    <2> HIDE DEF counts
    <2> QED
        BY <1>1, FirstCodesAre, ShorterAre
<1>3. tree.symbols \in Seq(Nat)
    <2>1. tree.symbols = Listed(L)[MaxBits] /\ MaxBits \in 0..MaxBits
        BY DEF FromLengths, IsListed, Listed, MaxBits
    <2> QED
        BY <2>1, ListedAre
<1>4. tree.min = first /\ tree.offset = [b \in 1..MaxBits |-> shorter[b] - first[b]]
    BY DEF FromLengths
<1>5. \A b \in 1..MaxBits : b \in 0..MaxBits
    BY DEF MaxBits
<1> HIDE DEF counts, first, shorter, tree
<1>6. ASSUME NEW b \in 1..MaxBits
      PROVE  tree.min[b] \in Nat /\ tree.offset[b] \in Int /\ tree.offset[b] + tree.min[b] >= 0
    <2>1. first[b] \in Nat /\ shorter[b] \in Nat /\ tree.min[b] = first[b] /\ tree.offset[b] = shorter[b] - first[b]
        BY <1>2, <1>4, <1>5
    <2> QED
        BY <2>1
<1> QED
    BY <1>3, <1>6 DEF Tree, tree

(* What decode finds is a symbol of the tree, and no longer than the bits  *)
(* there are.                                                              *)
LEMMA Decodes ==
    ASSUME NEW t, Tree(t), NEW bits, Len(bits) \in Nat, Decode(t, bits).what = "symbol"
    PROVE  /\ Decode(t, bits).symbol \in Nat
           /\ Decode(t, bits).size \in 1..Len(bits) /\ Decode(t, bits).size <= MaxBits
<1> DEFINE Index(b) == t.offset[b] + Code(bits, b)
           Found(b) == /\ t.max[b] >= 0
                       /\ Code(bits, b) \in t.min[b]..t.max[b]
                       /\ Index(b) < Len(t.symbols)
           m == Min({MaxBits, Len(bits)})
           lengths == { b \in 1..m : Found(b) }
           b0 == Min(lengths)
<1>1. m \in Nat /\ m <= MaxBits /\ m <= Len(bits)
    <2>1. {MaxBits, Len(bits)} \subseteq Nat /\ {MaxBits, Len(bits)} # {}
        BY DEF MaxBits
    <2>2. \E x \in {MaxBits, Len(bits)} : \A y \in {MaxBits, Len(bits)} : x <= y
        BY <2>1, Least
    <2> QED
        BY <2>1, <2>2 DEF Min
<1> HIDE DEF m
<1>2. Decode(t, bits) = IF lengths # {}
                        THEN [what |-> "symbol", symbol |-> t.symbols[Index(b0) + 1], size |-> b0]
                        ELSE [what |-> IF Len(bits) >= MaxBits THEN "invalid" ELSE "end"]
    BY DEF Decode, m
<1>3. lengths # {}
    <2>1. ASSUME lengths = {} PROVE FALSE
        <3>1. Decode(t, bits).what = IF Len(bits) >= MaxBits THEN "invalid" ELSE "end"
            BY <1>2, <2>1
        <3> QED
            BY <3>1
    <2> QED
        BY <2>1
<1>4. lengths \subseteq Nat
    BY <1>1
<1>5. b0 \in lengths
    <2> HIDE DEF lengths
    <2>1. \E x \in lengths : \A y \in lengths : x <= y
        BY <1>3, <1>4, Least
    <2> QED
        BY <2>1 DEF Min
<1>6. Decode(t, bits).symbol = t.symbols[Index(b0) + 1] /\ Decode(t, bits).size = b0
    <2> DEFINE symbol == t.symbols[Index(b0) + 1]
               decoded == [what |-> "symbol", symbol |-> symbol, size |-> b0]
    <2>1. Decode(t, bits) = decoded
        <3> HIDE DEF lengths, b0
        <3> QED
            BY <1>2, <1>3
    <2> HIDE DEF symbol, b0
    <2>2. decoded.symbol = symbol /\ decoded.size = b0
        OBVIOUS
    <2> HIDE DEF decoded
    <2>3. Decode(t, bits).symbol = symbol /\ Decode(t, bits).size = b0
        BY <2>1, <2>2
    <2> QED
        BY <2>3 DEF symbol
<1> HIDE DEF b0
<1>7. b0 \in 1..m /\ Found(b0)
    BY <1>5
<1>8. b0 \in 1..MaxBits /\ b0 \in 1..Len(bits) /\ b0 <= MaxBits
    <2>1. b0 \in 1..m
        BY <1>7
    <2> QED
        BY <1>1, <2>1 DEF MaxBits
<1>9. Index(b0) + 1 \in 1..Len(t.symbols)
    <2>1. t.min[b0] \in Nat /\ t.offset[b0] \in Int /\ t.offset[b0] + t.min[b0] >= 0 /\ Len(t.symbols) \in Nat
        BY <1>8, LenProperties DEF Tree
    <2>2. Code(bits, b0) \in Int /\ Code(bits, b0) >= t.min[b0] /\ Index(b0) < Len(t.symbols)
        BY <1>7, <2>1
    <2> QED
        BY <2>1, <2>2
<1>10. t.symbols[Index(b0) + 1] \in Nat
    BY <1>9, ElementOfSeq DEF Tree
<1> QED
    BY <1>6, <1>8, <1>10

----------------------------------------------------------------------------
(* The decoder *)

Modes == {"idle", "gzip", "block", "stored", "table", "lengths", "symbol", "done", "error"}

(* It never reads behind the data, ... *)
BitsInv ==
    /\ data \in Seq(Nat)
    /\ base \in Nat /\ at \in Nat /\ at <= 8 * (Len(data) - base)

(* ... and its codes are what from_lengths makes. *)
TableInv ==
    /\ DOMAIN table = {"literals", "distances", "codes", "lengths"}
    /\ table.literals \in Nat /\ table.distances \in Nat /\ table.lengths \in Seq(Nat)
    /\ mode = "lengths" => Tree(table.codes)

TreesInv == Tree(trees.literals) /\ Tree(trees.distances)

InflateInv ==
    /\ mode \in Modes
    /\ mode \in {"idle", "gzip"} => base = 0 /\ at = 0
    /\ output \in Seq(Nat)
    /\ BitsInv /\ TableInv /\ TreesInv

LEMMA Powers == \A k \in 0..15 : 2^k \in Nat \ {0}
<1> DEFINE Power(k) == 2^k
           N == Nat \ {0}
<1>1. /\ Power(0) \in N /\ Power(1) \in N /\ Power(2) \in N /\ Power(3) \in N
      /\ Power(4) \in N /\ Power(5) \in N /\ Power(6) \in N /\ Power(7) \in N
      /\ Power(8) \in N /\ Power(9) \in N /\ Power(10) \in N /\ Power(11) \in N
      /\ Power(12) \in N /\ Power(13) \in N /\ Power(14) \in N /\ Power(15) \in N
    OBVIOUS
<1> HIDE DEF Power, N
<1>2. ASSUME NEW k \in 0..15 PROVE Power(k) \in N
    <2>1. k \in {0, 1, 2, 3, 4, 5, 6, 7, 8, 9, 10, 11, 12, 13, 14, 15}
        OBVIOUS
    <2> QED
        BY <1>1, <2>1
<1> QED
    BY <1>2 DEF Power, N

LEMMA ByteIs ==
    ASSUME data \in Seq(Nat), NEW i \in Nat, i < Len(data)
    PROVE  Byte(i) \in Nat
<1>1. i + 1 \in 1..Len(data)
    BY LenProperties
<1> QED
    BY <1>1, ElementOfSeq DEF Byte

LEMMA BitIs ==
    ASSUME BitsInv, NEW i \in Nat, i < BitsLeft
    PROVE  Bit(i) \in {0, 1}
<1> DEFINE n == Len(data)
           p == base + (at + i) \div 8
           k == (at + i) % 8
           x == Byte(p)
           d == 2^k
<1>1. n \in Nat /\ base \in Nat /\ at \in Nat /\ at + i < 8 * (n - base)
    BY LenProperties DEF BitsInv, BitsLeft
<1>2. p \in Nat /\ p < n
    <2> HIDE DEF n
    <2>1. (at + i) \div 8 \in Nat /\ 8 * ((at + i) \div 8) <= at + i
        BY <1>1
    <2> QED
        BY <1>1, <2>1
<1>3. x \in Nat
    <2> HIDE DEF p
    <2> QED
        BY <1>2, ByteIs DEF BitsInv
<1>4. k \in 0..15
    BY <1>1
<1>5. d \in Nat \ {0}
    <2> HIDE DEF k
    <2> QED
        BY <1>4, Powers
<1>6. Bit(i) = (x \div d) % 2
    BY DEF Bit
<1> HIDE DEF x, d
<1>7. x \div d \in Int
    BY <1>3, <1>5
<1> QED
    BY <1>6, <1>7

(* What the first j bits of a field make, for each j. *)
Unfolds(value, i, n) ==
    /\ Field(i, n) = value[n] /\ value[0] = 0
    /\ \A j \in 1..n : value[j] = value[j - 1] + Bit(i + j - 1) * 2^(j - 1)
    /\ \A j \in 0..n : value[j] \in Nat

LEMMA FieldUnfolds ==
    ASSUME BitsInv, NEW i \in Nat, NEW n \in 0..16, Has(i + n)
    PROVE  \E value : Unfolds(value, i, n)
<1> DEFINE IsValue(f) == f = [j \in 0..n |-> IF j = 0 THEN 0 ELSE f[j - 1] + Bit(i + j - 1) * 2^(j - 1)]
           step == [j \in 1..n |-> [x \in Nat |-> x + Bit(i + j - 1) * 2^(j - 1)]]
           value == CHOOSE f : IsValue(f)
<1>1. Field(i, n) = value[n]
    BY DEF Field
<1>2. n \in Nat /\ 0 \in Nat /\ 0 \in 0..n /\ n \in 0..n
    OBVIOUS
<1>3. \A j \in 1..n : j - 1 \in 0..n /\ j \in 0..n /\ j # 0
    OBVIOUS
<1>4. \A j \in 1..n : Bit(i + j - 1) * 2^(j - 1) \in Nat
    <2>1. ASSUME NEW j \in 1..n PROVE Bit(i + j - 1) * 2^(j - 1) \in Nat
        <3> DEFINE l == i + j - 1
                   d == 2^(j - 1)
        <3>1. BitsLeft \in Int /\ BitsLeft >= i + n
            BY LenProperties DEF Has, BitsLeft, BitsInv
        <3>2. l \in Nat /\ l < BitsLeft
            BY <3>1
        <3>3. Bit(l) \in {0, 1}
            <4> HIDE DEF l
            <4> QED
                BY <3>2, BitIs
        <3>4. d \in Nat
            <4>1. j - 1 \in 0..15
                OBVIOUS
            <4> QED
                BY <4>1, Powers
        <3>5. Bit(l) * d \in Nat
            <4> HIDE DEF l, d
            <4> QED
                BY <3>3, <3>4
        <3> QED
            BY <3>5
    <2> QED
        BY <2>1
<1>5. step \in Steps(n, Nat)
    <2>1. ASSUME NEW j \in 1..n, NEW x \in Nat PROVE x + Bit(i + j - 1) * 2^(j - 1) \in Nat
        <3> DEFINE y == Bit(i + j - 1) * 2^(j - 1)
        <3>1. y \in Nat
            BY <1>4
        <3> HIDE DEF y
        <3>2. x + y \in Nat
            BY <3>1
        <3> QED
            BY <3>2 DEF y
    <2> QED
        BY <2>1 DEF Steps
<1>6. PICK f : Stepped(n, Nat, 0, step, f)
    <2> HIDE DEF step
    <2> QED
        BY <1>2, <1>5, Recursion
<1>7. IsValue(f)
    <2>1. ASSUME NEW j \in 0..n PROVE f[j] = IF j = 0 THEN 0 ELSE f[j - 1] + Bit(i + j - 1) * 2^(j - 1)
        <3>1. ASSUME j # 0 PROVE f[j] = f[j - 1] + Bit(i + j - 1) * 2^(j - 1)
            <4>1. j \in 1..n
                BY <3>1
            <4>2. f[j - 1] \in Nat /\ f[j] = step[j][f[j - 1]]
                BY <1>3, <1>6, <4>1 DEF Stepped
            <4> QED
                BY <4>1, <4>2
        <3> QED
            BY <1>6, <3>1 DEF Stepped
    <2>2. f = [j \in 0..n |-> f[j]]
        BY <1>6 DEF Stepped
    <2> QED
        BY <2>1, <2>2
<1>8. IsValue(value)
    BY <1>7
<1> HIDE DEF value
<1>9. value[0] = 0 /\ \A j \in 1..n : value[j] = value[j - 1] + Bit(i + j - 1) * 2^(j - 1)
    <2>1. \A j \in 0..n : value[j] = IF j = 0 THEN 0 ELSE value[j - 1] + Bit(i + j - 1) * 2^(j - 1)
        BY <1>8
    <2> QED
        BY <1>2, <1>3, <2>1
<1>10. value[0] \in Nat /\ \A j \in 1..n : value[j - 1] \in Nat => value[j] \in Nat
    <2>1. ASSUME NEW j \in 1..n, value[j - 1] \in Nat PROVE value[j] \in Nat
        <3> DEFINE y == Bit(i + j - 1) * 2^(j - 1)
        <3>1. y \in Nat /\ value[j] = value[j - 1] + y
            BY <1>4, <1>9
        <3> HIDE DEF y
        <3> QED
            BY <2>1, <3>1
    <2> QED
        BY <1>2, <1>9, <2>1
<1>11. \A j \in 0..n : value[j] \in Nat
    BY <1>2, <1>10, Values
<1>12. Unfolds(value, i, n)
    BY <1>1, <1>9, <1>11 DEF Unfolds
<1> QED
    BY <1>12

LEMMA FieldIs ==
    ASSUME BitsInv, NEW i \in Nat, NEW n \in 0..16, Has(i + n)
    PROVE  Field(i, n) \in Nat
<1>1. n \in 0..n
    OBVIOUS
<1>2. PICK value : Unfolds(value, i, n)
    BY FieldUnfolds
<1> QED
    BY <1>1, <1>2 DEF Unfolds

LEMMA TwoBits ==
    ASSUME BitsInv, Has(3)
    PROVE  Field(1, 2) \in 0..3 /\ Field(1, 2) = Bit(1) + 2 * Bit(2)
<1>1. 1 \in Nat /\ 2 \in 0..16 /\ 1 + 2 = 3
    OBVIOUS
<1>2. PICK value : Unfolds(value, 1, 2)
    <2> DEFINE i == 1
               n == 2
    <2>1. i \in Nat /\ n \in 0..16 /\ Has(i + n)
        BY <1>1
    <2> HIDE DEF i, n
    <2>2. \E value : Unfolds(value, i, n)
        BY <2>1, FieldUnfolds
    <2> QED
        BY <2>2 DEF i, n
<1>3. value[1] = value[0] + Bit(1) * 1 /\ value[2] = value[1] + Bit(2) * 2
            /\ Field(1, 2) = value[2] /\ value[0] = 0
    <2>1. \A j \in 1..2 : value[j] = value[j - 1] + Bit(1 + j - 1) * 2^(j - 1)
        BY <1>2 DEF Unfolds
    <2>2. value[1] = value[1 - 1] + Bit(1 + 1 - 1) * 2^(1 - 1) /\ value[2] = value[2 - 1] + Bit(1 + 2 - 1) * 2^(2 - 1)
        BY <2>1
    <2>3. 1 - 1 = 0 /\ 1 + 1 - 1 = 1 /\ 2 - 1 = 1 /\ 1 + 2 - 1 = 2 /\ 2^0 = 1 /\ 2^1 = 2
        OBVIOUS
    <2> QED
        BY <1>2, <2>2, <2>3 DEF Unfolds
<1>4. Bit(1) \in {0, 1} /\ Bit(2) \in {0, 1}
    <2>1. BitsLeft \in Int /\ BitsLeft >= 3
        BY LenProperties DEF Has, BitsLeft, BitsInv
    <2>2. 1 \in Nat /\ 2 \in Nat /\ 1 < BitsLeft /\ 2 < BitsLeft
        BY <2>1
    <2> QED
        BY <2>2, BitIs
<1> QED
    BY <1>2, <1>3, <1>4

(* The bits that Decode is given are there. *)
LEMMA AheadIs ==
    ASSUME BitsInv, NEW i \in Nat, Has(i)
    PROVE  Len(Ahead(i)) \in Nat /\ i + Len(Ahead(i)) <= BitsLeft /\ BitsLeft \in Int
<1> DEFINE m == Min({MaxBits, BitsLeft - i})
<1>1. BitsLeft \in Int /\ BitsLeft >= i
    BY LenProperties DEF Has, BitsLeft, BitsInv
<1>2. m \in Nat /\ m <= BitsLeft - i
    <2>1. {MaxBits, BitsLeft - i} \subseteq Nat /\ {MaxBits, BitsLeft - i} # {}
        BY <1>1 DEF MaxBits
    <2>2. \E x \in {MaxBits, BitsLeft - i} : \A y \in {MaxBits, BitsLeft - i} : x <= y
        BY <2>1, Least
    <2> QED
        BY <2>1, <2>2 DEF Min
<1> HIDE DEF m
<1>3. Len(Ahead(i)) = m
    <2> DEFINE bits == [j \in 1..m |-> Bit(i + j - 1)]
               T == { Bit(i + j - 1) : j \in 1..m }
    <2>1. bits \in [1..m -> T]
        OBVIOUS
    <2> HIDE DEF T, bits
    <2>2. Len(bits) = m
        BY <1>2, <2>1, FunctionLength
    <2> QED
        BY <2>2 DEF Ahead, m, bits
<1> QED
    BY <1>1, <1>2, <1>3

LEMMA Ended == EndOfBlock \in {"done", "block"}
BY DEF EndOfBlock

----------------------------------------------------------------------------
(* Its steps *)

LEMMA RefuseKeeps ==
    ASSUME InflateInv, Refuse
    PROVE  InflateInv'
<1>1. mode' = "error" /\ UNCHANGED <<data, base, at, final, table, trees, output>>
    BY DEF Refuse
<1> QED
    BY <1>1 DEF InflateInv, BitsInv, TableInv, TreesInv, Modes

(* A step that only goes on in the data and leaves the tables alone. *)
LEMMA Advances ==
    ASSUME InflateInv, UNCHANGED <<data, base>>, NEW n \in Nat, at' = at + n, Has(n),
           mode' \in Modes \ {"idle", "gzip", "lengths"}, output' \in Seq(Nat), TreesInv', table' = table
    PROVE  InflateInv'
<1>1. BitsInv'
    <2>1. at' \in Nat /\ at' <= 8 * (Len(data) - base)
        BY LenProperties DEF InflateInv, BitsInv, Has, BitsLeft
    <2> QED
        BY <2>1 DEF InflateInv, BitsInv
<1>2. TableInv'
    BY DEF InflateInv, TableInv
<1> QED
    BY <1>1, <1>2 DEF InflateInv

LEMMA PastZeroIs ==
    ASSUME data \in Seq(Nat), NEW p \in Nat
    PROVE  PastZero(p) \in Nat
<1>1. Len(data) \in Nat
    BY LenProperties
<1>2. CASE Zeros(p) = {}
    <2>1. {p, Len(data)} \subseteq Int /\ \E x \in {p, Len(data)} : \A y \in {p, Len(data)} : x >= y
        BY <1>1
    <2>2. Max({p, Len(data)}) \in {p, Len(data)}
        BY <2>1 DEF Max
    <2> QED
        BY <1>1, <1>2, <2>2 DEF PastZero
<1>3. CASE Zeros(p) # {}
    <2>1. Zeros(p) \subseteq Nat
        BY <1>1 DEF Zeros
    <2> HIDE DEF Zeros
    <2>2. \E x \in Zeros(p) : \A y \in Zeros(p) : x <= y
        BY <1>3, <2>1, Least
    <2>3. Min(Zeros(p)) \in Nat
        BY <2>1, <2>2 DEF Min
    <2> QED
        BY <1>3, <2>3 DEF PastZero
<1> QED
    BY <1>2, <1>3

LEMMA ReadHeaderKeeps ==
    ASSUME InflateInv, ReadHeader
    PROVE  InflateInv'
<1>1. CASE Refuse
    BY <1>1, RefuseKeeps
<1>2. CASE ~Refuse
    <2>1. /\ Len(data) >= 10 /\ (Flag(2) => Len(data) >= 12) /\ HeaderEnd < Len(data)
          /\ base' = HeaderEnd /\ mode' = "block" /\ mode = "gzip"
          /\ UNCHANGED <<data, at, final, table, trees, output>>
        BY <1>2 DEF ReadHeader
    <2> HIDE DEF HeaderEnd
    <2>2. data \in Seq(Nat) /\ Len(data) \in Nat
        BY LenProperties DEF InflateInv, BitsInv
    <2>3. HeaderEnd \in Nat
        <3> DEFINE extra == IF Flag(2) THEN 12 + Byte(10) + 256 * Byte(11) ELSE 10
                   name == IF Flag(3) THEN PastZero(extra) ELSE extra
                   comment == IF Flag(4) THEN PastZero(name) ELSE name
        <3>1. extra \in Nat
            <4>1. Flag(2) => Byte(10) \in Nat /\ Byte(11) \in Nat
                BY <2>1, <2>2, ByteIs
            <4> QED
                BY <4>1
        <3> HIDE DEF extra
        <3>2. name \in Nat
            BY <2>2, <3>1, PastZeroIs
        <3> HIDE DEF name
        <3>3. comment \in Nat
            BY <2>2, <3>2, PastZeroIs
        <3> HIDE DEF comment
        <3>4. HeaderEnd = IF Flag(1) THEN comment + 2 ELSE comment
            BY DEF HeaderEnd, comment, name, extra
        <3> QED
            BY <3>3, <3>4
    <2>4. BitsInv'
        <3>1. base' \in Nat /\ at' = 0 /\ at' <= 8 * (Len(data') - base')
            BY <2>1, <2>2, <2>3 DEF InflateInv
        <3> QED
            BY <2>1, <3>1 DEF InflateInv, BitsInv
    <2>5. TableInv'
        BY <2>1 DEF InflateInv, TableInv
    <2>6. TreesInv'
        BY <2>1 DEF InflateInv, TreesInv
    <2> QED
        BY <2>1, <2>4, <2>5, <2>6 DEF InflateInv, Modes
<1> QED
    BY <1>1, <1>2

(* Has counts the bits that are left. *)
LEMMA BitsThere ==
    ASSUME BitsInv
    PROVE  BitsLeft \in Int /\ \A n : Has(n) <=> BitsLeft >= n
<1>1. Len(data) \in Nat
    BY LenProperties DEF BitsInv
<1> QED
    BY <1>1 DEF BitsInv, BitsLeft, Has

LEMMA NoTreesAre == Tree(NoTrees.literals) /\ Tree(NoTrees.distances)
<1>1. Len(<<>>) \in Nat
    OBVIOUS
<1>2. Tree(FromLengths(<<>>))
    BY <1>1, TreeOf
<1> QED
    BY <1>2 DEF NoTrees

LEMMA FixedTreesAre == Tree(FixedTrees.literals) /\ Tree(FixedTrees.distances)
<1> DEFINE m == 288
           k == 32
<1>1. m \in Nat /\ FixedLiterals \in [1..m -> Nat]
    BY DEF FixedLiterals
<1>2. k \in Nat /\ FixedDistances \in [1..k -> Nat]
    BY DEF FixedDistances
<1> HIDE DEF FixedLiterals, FixedDistances, m, k
<1>3. Len(FixedLiterals) \in Nat /\ Len(FixedDistances) \in Nat
    BY <1>1, <1>2, FunctionLength
<1>4. Tree(FromLengths(FixedLiterals)) /\ Tree(FromLengths(FixedDistances))
    BY <1>3, TreeOf
<1> QED
    BY <1>4 DEF FixedTrees

LEMMA ReadBlockKeeps ==
    ASSUME InflateInv, ReadBlock
    PROVE  InflateInv'
<1>1. CASE Refuse
    BY <1>1, RefuseKeeps
<1>2. CASE ~Refuse
    <2> DEFINE kind == Field(1, 2)
    <2>1. /\ Has(3) /\ kind # 3
          /\ at' = at + 3
          /\ mode' = <<"stored", "symbol", "table">>[kind + 1]
          /\ trees' = (IF kind = 1 THEN FixedTrees ELSE NoTrees)
          /\ UNCHANGED <<data, base, table, output>>
        BY <1>2 DEF ReadBlock
    <2>2. kind \in 0..3
        BY <2>1, TwoBits DEF InflateInv
    <2> HIDE DEF kind
    <2>3. mode' \in {"stored", "symbol", "table"}
        <3>1. kind + 1 \in {1, 2, 3}
            BY <2>1, <2>2
        <3> QED
            BY <2>1, <3>1
    <2>4. TreesInv'
        BY <2>1, NoTreesAre, FixedTreesAre DEF TreesInv
    <2>5. 3 \in Nat /\ mode' \in Modes \ {"idle", "gzip", "lengths"} /\ output' \in Seq(Nat)
        BY <2>1, <2>3 DEF Modes, InflateInv
    <2> QED
        BY <2>1, <2>4, <2>5, Advances
<1> QED
    BY <1>1, <1>2

LEMMA StoredKeeps ==
    ASSUME InflateInv, Stored
    PROVE  InflateInv'
<1>1. CASE Refuse
    BY <1>1, RefuseKeeps
<1>2. CASE ~Refuse
    <2> DEFINE start == Aligned - at
               length == Field(start, 16)
               first == (Aligned + 32) \div 8
               n == start + 32 + 8 * length
               bytes == [i \in 1..length |-> Byte(base + first + i - 1)]
    <2>1. /\ Has(start + 32) /\ Has(n)
          /\ output' = output \o bytes
          /\ at' = 8 * (first + length)
          /\ mode' = EndOfBlock
          /\ UNCHANGED <<data, base, table, trees>>
        BY <1>2 DEF Stored
    <2>2. BitsInv /\ at \in Nat /\ base \in Nat /\ data \in Seq(Nat) /\ Len(data) \in Nat /\ output \in Seq(Nat)
        BY LenProperties DEF InflateInv, BitsInv
    <2> DEFINE a == (at + 7) \div 8
    <2>3. a \in Nat /\ 8 * a >= at /\ Aligned = 8 * a
        BY <2>2 DEF Aligned
    <2> HIDE DEF a
    <2>4. start \in Nat /\ start = 8 * a - at /\ first = a + 4
        BY <2>2, <2>3
    <2> HIDE DEF start, first
    <2>5. length \in Nat
        <3>1. 16 \in 0..16 /\ Has(start + 16)
            BY <2>1, <2>2, <2>4, BitsThere
        <3> QED
            BY <2>2, <2>4, <3>1, FieldIs
    <2> HIDE DEF length
    <2>6. n \in Nat /\ at' = at + n
        BY <2>1, <2>2, <2>3, <2>4, <2>5
    <2>7. base + first + length <= Len(data)
        <3>1. 8 * (Len(data) - base) - at >= n
            BY <2>1, <2>2, BitsThere DEF BitsLeft
        <3> QED
            BY <2>2, <2>3, <2>4, <2>5, <3>1
    <2>8. output' \in Seq(Nat)
        <3>1. ASSUME NEW i \in 1..length PROVE Byte(base + first + i - 1) \in Nat
            <4> DEFINE p == base + first + i - 1
            <4>1. p \in Nat /\ p < Len(data)
                BY <2>2, <2>3, <2>4, <2>5, <2>7
            <4> HIDE DEF p
            <4>2. Byte(p) \in Nat
                BY <2>2, <4>1, ByteIs
            <4> QED
                BY <4>2 DEF p
        <3>2. bytes \in [1..length -> Nat]
            BY <3>1
        <3> HIDE DEF bytes
        <3>3. bytes \in Seq(Nat)
            BY <2>5, <3>2, FunctionLength
        <3>4. output \o bytes \in Seq(Nat)
            BY <2>2, <3>3, ConcatProperties
        <3> QED
            BY <2>1, <3>4
    <2>9. mode' \in Modes \ {"idle", "gzip", "lengths"} /\ TreesInv'
        BY <2>1, Ended DEF Modes, InflateInv, TreesInv
    <2> HIDE DEF n
    <2> QED
        BY <2>1, <2>6, <2>8, <2>9, Advances
<1> QED
    BY <1>1, <1>2

LEMMA Further ==
    ASSUME BitsInv, UNCHANGED <<data, base>>, NEW n \in Nat, at' = at + n, Has(n)
    PROVE  BitsInv'
<1>1. at' \in Nat /\ at' <= 8 * (Len(data) - base)
    BY LenProperties DEF BitsInv, Has, BitsLeft
<1> QED
    BY <1>1 DEF BitsInv

LEMMA ReadTableKeeps ==
    ASSUME InflateInv, ReadTable
    PROVE  InflateInv'
<1>1. CASE Refuse
    BY <1>1, RefuseKeeps
<1>2. CASE ~Refuse
    <2> DEFINE count == Field(10, 4) + 4
               n == 14 + 3 * count
               place(s) == CHOOSE i \in 1..19 : CodelenOrder[i] = s
               size(i) == IF place(i - 1) <= count THEN Field(14 + 3 * (place(i - 1) - 1), 3) ELSE 0
               sizes == [i \in 1..19 |-> size(i)]
               literals == Field(0, 5) + 257
               distances == Field(5, 5) + 1
               codes == FromLengths(sizes)
    <2>1. /\ Has(14) /\ Has(n)
          /\ table' = [literals |-> literals, distances |-> distances, codes |-> codes, lengths |-> <<>>]
          /\ at' = at + 14 + 3 * count
          /\ mode' = "lengths"
          /\ UNCHANGED <<data, base, trees, output>>
        BY <1>2 DEF ReadTable
    <2>2. BitsInv /\ at \in Nat /\ output \in Seq(Nat) /\ TreesInv
        BY DEF InflateInv, BitsInv
    <2>3. literals \in Nat /\ distances \in Nat /\ count \in Nat
        <3>1. Has(0 + 5) /\ Has(5 + 5) /\ Has(10 + 4)
            <4>1. Has(14)
                BY <2>1
            <4> HIDE DEF sizes, literals, distances, codes, count, n
            <4>2. BitsLeft \in Int /\ BitsLeft >= 14
                BY <2>2, <4>1, BitsThere
            <4>3. BitsLeft >= 0 + 5 /\ BitsLeft >= 5 + 5 /\ BitsLeft >= 10 + 4
                BY <4>2
            <4> QED
                BY <2>2, <4>3, BitsThere
        <3>2. 0 \in Nat /\ 5 \in Nat /\ 10 \in Nat /\ 4 \in 0..16 /\ 5 \in 0..16
            OBVIOUS
        <3>3. Field(0, 5) \in Nat /\ Field(5, 5) \in Nat /\ Field(10, 4) \in Nat
            BY <2>2, <3>1, <3>2, FieldIs
        <3> QED
            BY <3>3
    <2>4. Tree(codes)
        <3> DEFINE m == 19
                   T == { size(i) : i \in 1..m }
        <3>1. m \in Nat /\ sizes \in [1..m -> T]
            OBVIOUS
        <3> HIDE DEF m, T, sizes
        <3>2. Len(sizes) \in Nat
            BY <3>1, FunctionLength
        <3> QED
            BY <3>2, TreeOf
    <2> HIDE DEF count, literals, distances, codes
    <2>5. n \in Nat /\ at' = at + n
        BY <2>1, <2>2, <2>3
    <2>6. BitsInv'
        <3> HIDE DEF n
        <3> QED
            BY <2>1, <2>2, <2>5, Further
    <2>7. TableInv'
        BY <2>1, <2>3, <2>4 DEF TableInv
    <2>8. TreesInv'
        BY <2>1, <2>2 DEF TreesInv
    <2> QED
        BY <2>1, <2>2, <2>6, <2>7, <2>8 DEF InflateInv, Modes
<1> QED
    BY <1>1, <1>2

LEMMA RepeatIs ==
    ASSUME TableInv, NEW symbol \in Nat
    PROVE  Repeat(symbol).of \in Nat /\ Repeat(symbol).least \in Nat /\ Repeat(symbol).bits \in 0..16
<1>1. table.lengths # <<>> => Last(table.lengths) \in Nat
    <2>1. SUFFICES ASSUME table.lengths # <<>> PROVE Last(table.lengths) \in Nat
        OBVIOUS
    <2>2. table.lengths \in Seq(Nat)
        BY DEF TableInv
    <2> DEFINE l == Len(table.lengths)
    <2>3. l \in Nat /\ l # 0
        BY <2>1, <2>2, EmptySeq, LenProperties
    <2>4. l \in 1..l
        BY <2>3
    <2>5. table.lengths[l] \in Nat
        BY <2>2, <2>4, ElementOfSeq
    <2> QED
        BY <2>5 DEF Last
<1> DEFINE of == IF table.lengths = <<>> THEN 0 ELSE Last(table.lengths)
<1>2. of \in Nat
    BY <1>1
<1>3. Repeat(symbol) \in { [of |-> of, least |-> 3, bits |-> 2], [of |-> 0, least |-> 3, bits |-> 3],
                           [of |-> 0, least |-> 11, bits |-> 7], [of |-> symbol, least |-> 1, bits |-> 0] }
    <2>1. CASE symbol = 16
        BY <2>1 DEF Repeat
    <2>2. CASE symbol = 17
        BY <2>2 DEF Repeat
    <2>3. CASE symbol = 18
        BY <2>3 DEF Repeat
    <2>4. CASE symbol \notin {16, 17, 18}
        BY <2>4 DEF Repeat
    <2> QED
        BY <2>1, <2>2, <2>3, <2>4
<1> HIDE DEF of
<1> QED
    BY <1>2, <1>3

(* What Decode is given in a step are the next bits. *)
LEMMA DecodesNext ==
    ASSUME BitsInv, NEW t, Tree(t), NEW i \in Nat, Has(i), Decode(t, Ahead(i)).what = "symbol"
    PROVE  /\ Decode(t, Ahead(i)).symbol \in Nat /\ Decode(t, Ahead(i)).size \in Nat
           /\ Has(i + Decode(t, Ahead(i)).size)
<1> DEFINE bits == Ahead(i)
           l == Len(bits)
           size == Decode(t, bits).size
<1>1. l \in Nat /\ i + l <= BitsLeft /\ BitsLeft \in Int
    BY AheadIs
<1>2. Decode(t, bits).symbol \in Nat /\ size \in 1..l
    <2> HIDE DEF bits
    <2> QED
        BY <1>1, Decodes DEF bits
<1> HIDE DEF l, size
<1>3. size \in Nat /\ i + size <= BitsLeft
    BY <1>1, <1>2
<1> QED
    BY <1>1, <1>2, <1>3, BitsThere DEF size

LEMMA ReadLengthKeeps ==
    ASSUME InflateInv, ReadLength
    PROVE  InflateInv'
<1>1. CASE Refuse
    BY <1>1, RefuseKeeps
<1>2. CASE ~Refuse
    <2> DEFINE code == Decode(table.codes, Ahead(0))
               run == Repeat(code.symbol)
               k == run.least + Field(code.size, run.bits)
               n == code.size + run.bits
               more == [i \in 1..k |-> run.of]
    <2>1. /\ mode = "lengths" /\ code.what = "symbol" /\ Has(n)
          /\ table' = [table EXCEPT !.lengths = @ \o more]
          /\ at' = at + code.size + run.bits
          /\ UNCHANGED <<data, mode, base, trees, output>>
        BY <1>2 DEF ReadLength
    <2>2. /\ BitsInv /\ TableInv /\ TreesInv /\ at \in Nat /\ output \in Seq(Nat)
          /\ Tree(table.codes) /\ table.lengths \in Seq(Nat)
        BY <2>1 DEF InflateInv, BitsInv, TableInv
    <2>3. code.symbol \in Nat /\ code.size \in Nat
        <3>1. 0 \in Nat /\ Has(0)
            <4>1. BitsLeft >= 0
                BY LenProperties, <2>2 DEF BitsInv, BitsLeft
            <4> QED
                BY <4>1, <2>2, BitsThere
        <3> DEFINE t == table.codes
        <3>2. Tree(t) /\ Decode(t, Ahead(0)).what = "symbol"
            BY <2>1, <2>2
        <3> HIDE DEF t
        <3>3. Decode(t, Ahead(0)).symbol \in Nat /\ Decode(t, Ahead(0)).size \in Nat
            BY <2>2, <3>1, <3>2, DecodesNext
        <3> QED
            BY <3>3 DEF t
    <2> HIDE DEF code
    <2>4. run.of \in Nat /\ run.least \in Nat /\ run.bits \in 0..16
        BY <2>2, <2>3, RepeatIs
    <2> HIDE DEF run
    <2>5. k \in Nat /\ n \in Nat /\ at' = at + n
        <3> DEFINE value == Field(code.size, run.bits)
                   size == code.size
                   extra == run.bits
                   least == run.least
        <3>1. value \in Nat
            BY <2>1, <2>2, <2>3, <2>4, FieldIs
        <3>2. size \in Nat /\ extra \in Nat /\ least \in Nat /\ at \in Nat /\ at' = at + size + extra
            <4>1. extra \in 0..16 /\ least \in Nat
                BY <2>4
            <4>2. extra \in Nat
                <5> HIDE DEF extra
                <5> QED
                    BY <4>1
            <4>3. at' = at + size + extra
                BY <2>1
            <4> QED
                BY <2>2, <2>3, <4>1, <4>2, <4>3
        <3>3. k = least + value /\ n = size + extra
            OBVIOUS
        <3> HIDE DEF value, size, extra, least, k, n
        <3> QED
            BY <3>1, <3>2, <3>3
    <2> HIDE DEF k, n
    <2>6. BitsInv'
        BY <2>1, <2>2, <2>5, Further
    <2>7. table.lengths \o more \in Seq(Nat)
        <3>1. more \in [1..k -> Nat]
            BY <2>4
        <3> HIDE DEF more
        <3>2. more \in Seq(Nat)
            BY <2>5, <3>1, FunctionLength
        <3> QED
            BY <2>2, <3>2, ConcatProperties
    <2>8. TableInv'
        <3> DEFINE longer == table.lengths \o more
        <3>1. table' = [table EXCEPT !.lengths = longer] /\ DOMAIN table = {"literals", "distances", "codes", "lengths"}
            BY <2>1, <2>2 DEF TableInv
        <3> HIDE DEF longer
        <3>2. /\ DOMAIN table' = {"literals", "distances", "codes", "lengths"}
              /\ table'.lengths = longer /\ table'.codes = table.codes
              /\ table'.literals = table.literals /\ table'.distances = table.distances
            BY <3>1
        <3> QED
            BY <2>1, <2>2, <2>7, <3>2 DEF TableInv, longer
    <2>9. TreesInv'
        BY <2>1, <2>2 DEF TreesInv
    <2> QED
        BY <2>1, <2>2, <2>6, <2>8, <2>9 DEF InflateInv, Modes
<1> QED
    BY <1>1, <1>2

LEMMA LengthsReadKeeps ==
    ASSUME InflateInv, LengthsRead
    PROVE  InflateInv'
<1> DEFINE s == table.lengths
           c == table.literals
           first == SubSeq(s, 1, c)
           second == SubSeq(s, c + 1, Len(s))
<1>1. /\ mode' = "symbol" /\ table' = NoTable /\ UNCHANGED <<data, base, at, output>>
      /\ trees' = [literals |-> FromLengths(first), distances |-> FromLengths(second)]
      /\ Len(s) >= c + table.distances
    BY DEF LengthsRead
<1>2. s \in Seq(Nat) /\ c \in Nat /\ table.distances \in Nat /\ Len(s) \in Nat
    BY LenProperties DEF InflateInv, TableInv
<1> HIDE DEF s, c
<1>3. Len(first) \in Nat /\ Len(second) \in Nat
    <2>1. \A i \in 1..c : s[i] \in Nat
        BY <1>1, <1>2, ElementOfSeq
    <2>2. \A i \in (c + 1)..Len(s) : s[i] \in Nat
        BY <1>2, ElementOfSeq
    <2>3. first \in Seq(Nat)
        BY <1>2, <2>1, SubSeqProperties
    <2>4. second \in Seq(Nat)
        <3> DEFINE a == c + 1
                   b == Len(s)
        <3>1. a \in Int /\ b \in Int /\ \A i \in a..b : s[i] \in Nat
            BY <1>2, <2>2
        <3> HIDE DEF a, b
        <3>2. SubSeq(s, a, b) \in Seq(Nat)
            BY <1>2, <3>1, SubSeqProperties
        <3> QED
            BY <3>2 DEF a, b
    <2> QED
        BY <2>3, <2>4, LenProperties
<1> HIDE DEF first, second
<1>4. Tree(FromLengths(first)) /\ Tree(FromLengths(second))
    BY <1>3, TreeOf
<1>5. TreesInv'
    BY <1>1, <1>4 DEF TreesInv
<1>6. TableInv'
    BY <1>1 DEF TableInv, NoTable
<1>7. BitsInv'
    BY <1>1 DEF InflateInv, BitsInv
<1> QED
    BY <1>1, <1>5, <1>6, <1>7 DEF InflateInv, Modes

(* The numbers behind a symbol for a length or for a distance. *)
LEMMA ExtraIs ==
    /\ DOMAIN LengthBase = 1..29 /\ DOMAIN DistBase = 1..30
    /\ \A n \in 1..29 : LengthExtra[n] \in 0..16 /\ LengthBase[n] \in Nat
    /\ \A d \in 1..30 : DistExtra[d] \in 0..16 /\ DistBase[d] \in Nat \ {0}
<1>1. DOMAIN LengthBase = 1..29 /\ \A n \in 1..29 : LengthBase[n] \in Nat
    BY DEF LengthBase
<1>2. \A n \in 1..29 : LengthExtra[n] \in 0..16
    BY DEF LengthExtra
<1>3. DOMAIN DistBase = 1..30 /\ \A d \in 1..30 : DistBase[d] \in Nat \ {0}
    BY DEF DistBase
<1>4. \A d \in 1..30 : DistExtra[d] \in 0..16
    BY DEF DistExtra
<1> QED
    BY <1>1, <1>2, <1>3, <1>4

LEMMA PairIs ==
    ASSUME InflateInv, NEW code, code.symbol \in Nat, code.size \in Nat, Pair(code).ok = TRUE
    PROVE  /\ Pair(code).size \in Nat /\ Has(Pair(code).size)
           /\ Pair(code).length \in Nat /\ Pair(code).distance \in Nat \ {0}
<1> DEFINE n == code.symbol - 256
           bits == code.size + LengthExtra[n]
           dist == Decode(trees.distances, Ahead(bits))
           d == dist.symbol + 1
           whole == bits + dist.size + DistExtra[d]
           length == LengthBase[n] + Field(code.size, LengthExtra[n])
           distance == DistBase[d] + Field(bits + dist.size, DistExtra[d])
           good == n \in DOMAIN LengthBase /\ Has(bits) /\ dist.what = "symbol"
           fits == d \in DOMAIN DistBase /\ Has(whole)
<1>1. Pair(code) = IF good THEN IF fits THEN [ok |-> TRUE, size |-> whole, length |-> length, distance |-> distance]
                                ELSE [ok |-> FALSE]
                   ELSE [ok |-> FALSE]
    BY DEF Pair
<1>2. good /\ fits
    <2> HIDE DEF good, fits, whole, length, distance
    <2> QED
        BY <1>1
<1>3. Pair(code).size = whole /\ Pair(code).length = length /\ Pair(code).distance = distance
    <2> HIDE DEF good, fits, whole, length, distance
    <2> QED
        BY <1>1, <1>2
<1>4. n \in 1..29 /\ LengthExtra[n] \in 0..16 /\ LengthBase[n] \in Nat
    <2>1. n \in DOMAIN LengthBase
        BY <1>2
    <2> HIDE DEF n
    <2> QED
        BY <2>1, ExtraIs
<1>5. d \in 1..30 /\ DistExtra[d] \in 0..16 /\ DistBase[d] \in Nat \ {0}
    <2>1. d \in DOMAIN DistBase
        BY <1>2
    <2> HIDE DEF d
    <2> QED
        BY <2>1, ExtraIs
<1>6. BitsInv /\ Tree(trees.distances)
    BY DEF InflateInv, TreesInv
<1>7. bits \in Nat /\ Has(bits) /\ dist.what = "symbol" /\ Has(whole)
    <2> HIDE DEF n
    <2> QED
        BY <1>2, <1>4
<1> HIDE DEF n
<1>8. Has(code.size + LengthExtra[n])
    BY <1>7
<1>9. dist.size \in Nat
    <2> HIDE DEF bits
    <2> QED
        BY <1>6, <1>7, DecodesNext
<1> HIDE DEF dist, d, bits
<1>10. Field(code.size, LengthExtra[n]) \in Nat
    BY <1>4, <1>6, <1>8, FieldIs
<1>11. whole \in Nat /\ bits + dist.size \in Nat /\ Has((bits + dist.size) + DistExtra[d])
    BY <1>5, <1>7, <1>9
<1>12. Field(bits + dist.size, DistExtra[d]) \in Nat
    BY <1>5, <1>6, <1>11, FieldIs
<1>13. length \in Nat
    BY <1>4, <1>10
<1>14. distance \in Nat \ {0}
    <2> DEFINE value == Field(bits + dist.size, DistExtra[d])
               least == DistBase[d]
    <2>1. value \in Nat /\ least \in Nat \ {0} /\ distance = least + value
        BY <1>5, <1>12
    <2> HIDE DEF value, least, distance
    <2> QED
        BY <2>1
<1> QED
    BY <1>3, <1>7, <1>11, <1>13, <1>14

LEMMA CopyIs ==
    ASSUME output \in Seq(Nat), NEW length \in Nat, NEW distance \in Nat \ {0}, distance <= Len(output)
    PROVE  Copy(length, distance) \in Seq(Nat)
<1>1. Len(output) \in Nat
    BY LenProperties
<1>2. ASSUME NEW i \in 1..length
      PROVE  output[Len(output) - distance + ((i - 1) % distance) + 1] \in Nat
    <2> DEFINE r == (i - 1) % distance
               p == Len(output) - distance + r + 1
    <2>1. r \in Nat /\ r < distance
        <3> DEFINE j == i - 1
        <3>1. j \in Nat
            OBVIOUS
        <3> HIDE DEF j
        <3> QED
            BY <3>1 DEF j
    <2> HIDE DEF r
    <2>2. p \in 1..Len(output)
        BY <1>1, <2>1
    <2> HIDE DEF p
    <2>3. output[p] \in Nat
        BY <2>2, ElementOfSeq
    <2> QED
        BY <2>3 DEF p, r
<1>3. Copy(length, distance) \in [1..length -> Nat]
    BY <1>2 DEF Copy
<1> QED
    BY <1>3, FunctionLength

LEMMA ReadSymbolKeeps ==
    ASSUME InflateInv, ReadSymbol
    PROVE  InflateInv'
<1> DEFINE code == Decode(trees.literals, Ahead(0))
           pair == Pair(code)
<1>1. CASE Refuse
    BY <1>1, RefuseKeeps
<1>2. CASE ~Refuse
    <2>1. mode = "symbol" /\ code.what = "symbol" /\ UNCHANGED <<data, base, table, trees>>
        BY <1>2 DEF ReadSymbol
    <2>2. /\ BitsInv /\ at \in Nat /\ output \in Seq(Nat) /\ Tree(trees.literals)
          /\ TreesInv' /\ table' = table
        BY <2>1 DEF InflateInv, BitsInv, TreesInv
    <2>3. code.symbol \in Nat /\ code.size \in Nat /\ Has(code.size)
        <3> DEFINE t == trees.literals
                   size == Decode(t, Ahead(0)).size
        <3>1. 0 \in Nat /\ Has(0)
            <4>1. BitsLeft >= 0
                BY LenProperties, <2>2 DEF BitsInv, BitsLeft
            <4> QED
                BY <4>1, <2>2, BitsThere
        <3>2. Tree(t) /\ Decode(t, Ahead(0)).what = "symbol"
            BY <2>1, <2>2
        <3> HIDE DEF t
        <3>3. Decode(t, Ahead(0)).symbol \in Nat /\ size \in Nat /\ Has(0 + size)
            BY <2>2, <3>1, <3>2, DecodesNext
        <3>4. 0 + size = size
            BY <3>3
        <3> QED
            BY <3>3, <3>4 DEF t
    <2>4. \/ /\ code.symbol < 256
             /\ output' = Append(output, code.symbol) /\ at' = at + code.size /\ mode' = mode
          \/ /\ at' = at + code.size /\ mode' = EndOfBlock /\ output' = output
          \/ /\ pair.ok /\ pair.distance <= Len(output)
             /\ output' = output \o Copy(pair.length, pair.distance)
             /\ at' = at + pair.size /\ mode' = mode
        BY <1>2, <2>1 DEF ReadSymbol
    <2> HIDE DEF code
    <2>5. mode' \in Modes \ {"idle", "gzip", "lengths"}
        BY <2>1, <2>4, Ended DEF Modes
    <2>6. CASE /\ output' = Append(output, code.symbol) /\ at' = at + code.size
        <3>1. output' \in Seq(Nat)
            BY <2>2, <2>3, <2>6, AppendProperties
        <3> QED
            BY <2>1, <2>2, <2>3, <2>5, <2>6, <3>1, Advances
    <2>7. CASE at' = at + code.size /\ output' = output
        BY <2>1, <2>2, <2>3, <2>5, <2>7, Advances
    <2>8. CASE /\ pair.ok /\ pair.distance <= Len(output)
               /\ output' = output \o Copy(pair.length, pair.distance)
               /\ at' = at + pair.size
        <3>1. Pair(code).ok = TRUE
            BY <2>8 DEF Pair
        <3>2. /\ pair.size \in Nat /\ Has(pair.size)
              /\ pair.length \in Nat /\ pair.distance \in Nat \ {0}
            BY <2>3, <3>1, PairIs
        <3> HIDE DEF pair
        <3>3. Copy(pair.length, pair.distance) \in Seq(Nat)
            BY <2>2, <2>8, <3>2, CopyIs
        <3>4. output' \in Seq(Nat)
            BY <2>2, <2>8, <3>3, ConcatProperties
        <3>5. /\ UNCHANGED <<data, base>> /\ table' = table /\ TreesInv' /\ at' = at + pair.size
              /\ mode' \in Modes \ {"idle", "gzip", "lengths"}
            BY <2>1, <2>2, <2>5, <2>8
        <3> DEFINE size == pair.size
        <3> HIDE DEF size
        <3>6. size \in Nat /\ Has(size) /\ at' = at + size
            BY <3>2, <3>5 DEF size
        <3> QED
            BY <3>4, <3>5, <3>6, Advances
    <2> QED
        BY <2>4, <2>6, <2>7, <2>8
<1> QED
    BY <1>1, <1>2

LEMMA InflateSteps == ASSUME InflateInv, InflateNext PROVE InflateInv'
BY ReadHeaderKeeps, ReadBlockKeeps, StoredKeeps, ReadTableKeeps, ReadLengthKeeps, LengthsReadKeeps, ReadSymbolKeeps
   DEF InflateNext

LEMMA NoTableIs ==
    /\ DOMAIN NoTable = {"literals", "distances", "codes", "lengths"}
    /\ NoTable.literals \in Nat /\ NoTable.distances \in Nat /\ NoTable.lengths \in Seq(Nat)
BY DEF NoTable

LEMMA InflateStart == Init => InflateInv
<1> SUFFICES ASSUME Init PROVE InflateInv
    OBVIOUS
<1>1. BitsInv
    BY NoBytes, EmptySeq DEF Init, BitsInv
<1>2. TableInv
    BY NoTableIs DEF Init, TableInv
<1>3. TreesInv
    BY NoTreesAre DEF Init, TreesInv
<1> QED
    BY <1>1, <1>2, <1>3, NoBytes DEF Init, InflateInv, Modes

LEMMA InflateKeeps ==
    ASSUME AskInv, InflateInv, [Next]_downloadVars
    PROVE  InflateInv'
<1>1. ASSUME UNCHANGED inflateVars PROVE InflateInv'
    BY <1>1 DEF inflateVars, InflateInv, BitsInv, TableInv, TreesInv
<1>2. CASE Network
    BY <1>1, <1>2 DEF Network
<1>3. CASE ExtractLayer
    <2>1. /\ mode = "idle" /\ data' = file /\ mode' \in {"gzip", "done"} /\ output' \in {<<>>, file}
          /\ UNCHANGED <<base, at, final, table, trees>>
        BY <1>3 DEF ExtractLayer
    <2>2. base = 0 /\ at = 0 /\ file \in Seq(Nat) /\ Len(file) \in Nat
        BY <2>1, LenProperties DEF InflateInv, AskInv, PullTypeOK
    <2>3. BitsInv'
        BY <2>1, <2>2 DEF BitsInv
    <2>4. TableInv' /\ TreesInv'
        BY <2>1 DEF InflateInv, TableInv, TreesInv
    <2>5. mode' \in Modes /\ output' \in Seq(Nat) /\ base' = 0 /\ at' = 0
        BY <2>1, <2>2, NoBytes DEF Modes
    <2> QED
        BY <2>3, <2>4, <2>5 DEF InflateInv
<1>4. CASE Extracted
    <2>1. /\ data' = <<>> /\ mode' = "idle" /\ base' = 0 /\ at' = 0
          /\ table' = NoTable /\ trees' = NoTrees /\ output' = <<>>
        BY <1>4 DEF Extracted, Idle
    <2>2. BitsInv'
        BY <2>1, NoBytes, EmptySeq DEF BitsInv
    <2>3. TableInv'
        BY <2>1, NoTableIs DEF TableInv
    <2>4. TreesInv'
        BY <2>1, NoTreesAre DEF TreesInv
    <2> QED
        BY <2>1, <2>2, <2>3, <2>4, NoBytes DEF InflateInv, Modes
<1>5. CASE InflateNext
    BY <1>5, InflateSteps
<1>6. CASE UNCHANGED downloadVars
    BY <1>1, <1>6 DEF downloadVars
<1> QED
    BY <1>2, <1>3, <1>4, <1>5, <1>6 DEF Next

LEMMA TypesImply == ASSUME HandlesInv, HttpInv, AskInv, InflateInv PROVE TypeOK
<1>1. handles \subseteq All
    BY DEF HandlesInv, OpenAt, All
<1>2. doing \in {"idle", "hop", "raw", "curl", "follow", "parse", "chunks", "response", "answer", "error", "panic",
                  "WinHttpReadData"} \cup DOMAIN Then \cup {"WinHttpReceiveResponse"}
    BY DEF HttpInv, CallInv, Requesting, Replied, OnWindows, Then
<1>3. HttpTypeOK
    BY <1>1, <1>2 DEF HttpInv, CallInv, ReplyInv, PlatformInv, HttpTypeOK, Calls, All
<1>4. PullTypeOK
    BY DEF AskInv
<1>5. at \in 0..(8 * Len(data))
    <2>1. Len(data) \in Nat /\ base \in Nat /\ at \in Nat /\ at <= 8 * (Len(data) - base)
        BY LenProperties DEF InflateInv, BitsInv
    <2> QED
        BY <2>1
<1> QED
    BY <1>3, <1>4, <1>5 DEF InflateInv, Modes, TypeOK

(* decompress and what it is given: for every sequence of bytes, a header, *)
(* a table or a copy that says more than there is included, the decoder    *)
(* stays within its data, its tables and its output; and so does the rest  *)
(* of a pull.                                                              *)
THEOREM DownloadTypes == Spec => []TypeOK
<1>1. Init => HandlesInv /\ InflateInv
    BY InflateStart DEF Init, PullInit, HttpInit, HandlesInv, OpenAt
<1>2. ASSUME AskInv, HandlesInv, InflateInv, [Next]_downloadVars
      PROVE  HandlesInv' /\ InflateInv'
    BY <1>2, InflateKeeps, HandlesStep
<1>3. HandlesInv /\ HttpInv /\ AskInv /\ InflateInv => TypeOK
    BY TypesImply
<1> QED
    BY <1>1, <1>2, <1>3, DownloadInvariant, PTL DEF Spec

----------------------------------------------------------------------------
(* The numbers that codes are made of *)

(* A number is twice what remains without its last bit, and that bit. *)
Halved(c, p, q) == c \div p \in Nat /\ c \div q \in Nat /\ c \div p = 2 * (c \div q) + ((c \div p) % 2)

(* Halving k times is dividing by the k-th power. *)
LEMMA Halves ==
    ASSUME NEW c \in Nat, NEW k \in 0..14
    PROVE  Halved(c, 2^k, 2^(k + 1))
<1> DEFINE Half(i) == Halved(c, 2^i, 2^(i + 1))
           Powered(i, p, q) == 2^i = p /\ 2^(i + 1) = q
<1>1. /\ Halved(c, 1, 2)
      /\ Halved(c, 2, 4)
      /\ Halved(c, 4, 8)
      /\ Halved(c, 8, 16)
      /\ Halved(c, 16, 32)
      /\ Halved(c, 32, 64)
      /\ Halved(c, 64, 128)
      /\ Halved(c, 128, 256)
      /\ Halved(c, 256, 512)
      /\ Halved(c, 512, 1024)
      /\ Halved(c, 1024, 2048)
      /\ Halved(c, 2048, 4096)
      /\ Halved(c, 4096, 8192)
      /\ Halved(c, 8192, 16384)
      /\ Halved(c, 16384, 32768)
    <2>1. Halved(c, 1, 2)
        BY DEF Halved
    <2>2. Halved(c, 2, 4)
        BY DEF Halved
    <2>3. Halved(c, 4, 8)
        BY DEF Halved
    <2>4. Halved(c, 8, 16)
        BY DEF Halved
    <2>5. Halved(c, 16, 32)
        BY DEF Halved
    <2>6. Halved(c, 32, 64)
        BY DEF Halved
    <2>7. Halved(c, 64, 128)
        BY DEF Halved
    <2>8. Halved(c, 128, 256)
        BY DEF Halved
    <2>9. Halved(c, 256, 512)
        BY DEF Halved
    <2>10. Halved(c, 512, 1024)
        BY DEF Halved
    <2>11. Halved(c, 1024, 2048)
        BY DEF Halved
    <2>12. Halved(c, 2048, 4096)
        BY DEF Halved
    <2>13. Halved(c, 4096, 8192)
        BY DEF Halved
    <2>14. Halved(c, 8192, 16384)
        BY DEF Halved
    <2>15. Halved(c, 16384, 32768)
        BY DEF Halved
    <2> QED
        BY <2>1, <2>2, <2>3, <2>4, <2>5, <2>6, <2>7, <2>8, <2>9, <2>10, <2>11, <2>12, <2>13, <2>14, <2>15
<1>2. /\ Powered(0, 1, 2) /\ Powered(1, 2, 4) /\ Powered(2, 4, 8) /\ Powered(3, 8, 16) /\ Powered(4, 16, 32)
      /\ Powered(5, 32, 64) /\ Powered(6, 64, 128) /\ Powered(7, 128, 256) /\ Powered(8, 256, 512)
      /\ Powered(9, 512, 1024) /\ Powered(10, 1024, 2048) /\ Powered(11, 2048, 4096)
      /\ Powered(12, 4096, 8192) /\ Powered(13, 8192, 16384) /\ Powered(14, 16384, 32768)
    OBVIOUS
<1>3. ASSUME NEW i, NEW p, NEW q, Powered(i, p, q), Halved(c, p, q) PROVE Half(i)
    BY <1>3
<1> HIDE DEF Powered, Half
<1>4. /\ Half(0) /\ Half(1) /\ Half(2) /\ Half(3) /\ Half(4) /\ Half(5) /\ Half(6) /\ Half(7)
      /\ Half(8) /\ Half(9) /\ Half(10) /\ Half(11) /\ Half(12) /\ Half(13) /\ Half(14)
    BY <1>1, <1>2, <1>3
<1>5. k \in {0, 1, 2, 3, 4, 5, 6, 7, 8, 9, 10, 11, 12, 13, 14}
    OBVIOUS
<1>6. Half(k)
    BY <1>4, <1>5
<1> QED
    BY <1>6 DEF Half

(* What is below a power is nothing when it is halved as often. *)
LEMMA Small ==
    ASSUME NEW n \in 1..15, NEW c \in Nat, c < 2^n
    PROVE  c \div 2^n = 0 /\ c \div 2^0 = c
<1> DEFINE Power(i) == 2^i
           Fits(i) == c < Power(i) => c \div Power(i) = 0
<1>1. /\ Fits(0) /\ Fits(1) /\ Fits(2) /\ Fits(3) /\ Fits(4) /\ Fits(5) /\ Fits(6) /\ Fits(7)
      /\ Fits(8) /\ Fits(9) /\ Fits(10) /\ Fits(11) /\ Fits(12) /\ Fits(13) /\ Fits(14) /\ Fits(15)
    OBVIOUS
<1>2. c \div 2^0 = c
    OBVIOUS
<1> HIDE DEF Fits
<1>3. n \in {1, 2, 3, 4, 5, 6, 7, 8, 9, 10, 11, 12, 13, 14, 15}
    OBVIOUS
<1>4. Fits(n)
    BY <1>1, <1>3
<1> QED
    BY <1>2, <1>4 DEF Fits

(* read_bits_msb: what the first b bits make, if g says what each of them  *)
(* makes.                                                                  *)
LEMMA CodeIs ==
    ASSUME NEW b \in Nat, NEW bits, NEW g,
           g[0] = 0, \A i \in 1..b : g[i] = 2 * g[i - 1] + bits[i]
    PROVE  Code(bits, b) = g[b]
<1> DEFINE IsCode(f) == f = [i \in 0..b |-> IF i = 0 THEN 0 ELSE 2 * f[i - 1] + bits[i]]
           code == CHOOSE f : IsCode(f)
           h == [i \in 0..b |-> g[i]]
           M == {i \in 0..b : code[i] = g[i]}
<1>1. Code(bits, b) = code[b]
    BY DEF Code
<1>2. IsCode(h)
    <2>1. ASSUME NEW i \in 0..b PROVE h[i] = IF i = 0 THEN 0 ELSE 2 * h[i - 1] + bits[i]
        <3>1. CASE i = 0
            BY <3>1
        <3>2. CASE i # 0
            <4>1. i \in 1..b /\ i - 1 \in 0..b
                BY <3>2
            <4> QED
                BY <3>2, <4>1
        <3> QED
            BY <3>1, <3>2
    <2> QED
        BY <2>1
<1>3. IsCode(code)
    <2> HIDE DEF IsCode
    <2> QED
        BY <1>2
<1> HIDE DEF code
<1>4. \A i \in 0..b : code[i] = IF i = 0 THEN 0 ELSE 2 * code[i - 1] + bits[i]
    BY <1>3
<1>5. 0 \in M
    BY <1>4
<1>6. ASSUME NEW i \in 0..(b - 1), i \in M PROVE i + 1 \in M
    <2> DEFINE j == i + 1
    <2>1. j \in 1..b /\ j \in 0..b /\ j # 0 /\ j - 1 = i
        OBVIOUS
    <2> HIDE DEF j
    <2>2. code[j] = 2 * code[j - 1] + bits[j] /\ g[j] = 2 * g[j - 1] + bits[j]
        BY <1>4, <2>1
    <2>3. code[j] = g[j]
        BY <1>6, <2>1, <2>2
    <2> QED
        BY <2>1, <2>3 DEF j
<1> HIDE DEF M
<1>7. 0..b \subseteq M
    BY <1>5, <1>6, Induction
<1>8. b \in M
    BY <1>7
<1> QED
    BY <1>1, <1>8 DEF M

(* The first bits of a code are the code without its last bits. *)
LEMMA CodePrefix ==
    ASSUME NEW n \in 1..15, NEW c \in Nat, c < 2^n, NEW b \in 0..n, NEW bits,
           \A i \in 1..b : bits[i] = (c \div 2^(n - i)) % 2
    PROVE  Code(bits, b) = c \div 2^(n - b)
<1> DEFINE g == [i \in 0..n |-> c \div 2^(n - i)]
<1>1. g[0] = 0
    <2>1. n - 0 = n /\ 0 \in 0..n
        OBVIOUS
    <2> QED
        BY <2>1, Small
<1>2. ASSUME NEW i \in 1..b PROVE g[i] = 2 * g[i - 1] + bits[i]
    <2> DEFINE k == n - i
    <2>1. k \in 0..14 /\ k + 1 = n - (i - 1) /\ i \in 0..n /\ i - 1 \in 0..n
        OBVIOUS
    <2> HIDE DEF k
    <2>2. c \div 2^k \in Nat /\ c \div 2^(k + 1) \in Nat /\ c \div 2^k = 2 * (c \div 2^(k + 1)) + ((c \div 2^k) % 2)
        BY <2>1, Halves DEF Halved
    <2>3. g[i] = c \div 2^k /\ g[i - 1] = c \div 2^(k + 1)
        <3>1. g[i] = c \div 2^k
            BY <2>1 DEF k
        <3>2. g[i - 1] = c \div 2^(n - (i - 1))
            BY <2>1
        <3> QED
            BY <2>1, <3>1, <3>2
    <2>4. bits[i] = (c \div 2^k) % 2
        BY DEF k
    <2> DEFINE x == c \div 2^k
               y == c \div 2^(k + 1)
    <2>5. x \in Nat /\ y \in Nat /\ x = 2 * y + (x % 2) /\ g[i] = x /\ g[i - 1] = y /\ bits[i] = x % 2
        BY <2>2, <2>3, <2>4
    <2> HIDE DEF g, x, y
    <2> QED
        BY <2>5
<1>3. b \in Nat /\ g[b] = c \div 2^(n - b)
    OBVIOUS
<1> HIDE DEF g
<1>4. Code(bits, b) = g[b]
    BY <1>1, <1>2, <1>3, CodeIs
<1> QED
    BY <1>3, <1>4

----------------------------------------------------------------------------
(* The order of the codes *)

(* How many places of a length are taken up to a symbol *)
LEMMA TakenIs ==
    ASSUME NEW L, Len(L) \in Nat
    PROVE  /\ Taken(L)[0] = 0 /\ \A b \in 0..MaxBits : Taken(L)[b] \in Nat
           /\ \A b \in 1..MaxBits : Taken(L)[b] = 2 * Taken(L)[b - 1] + Cardinality(Coded(L, b))
<1> DEFINE n == 16
           IsTaken(f) == f = [b \in 0..n |-> IF b = 0 THEN 0 ELSE 2 * f[b - 1] + Cardinality(Coded(L, b))]
           step == [b \in 1..n |-> [x \in Nat |-> 2 * x + Cardinality(Coded(L, b))]]
           taken == Taken(L)
<1>1. \A b \in 1..n : b - 1 \in 0..n /\ b \in 0..n /\ b # 0 /\ Cardinality(Coded(L, b)) \in Nat
    BY OfLengthIs
<1>2. taken = CHOOSE f : IsTaken(f)
    BY DEF Taken, MaxBits
<1>3. n \in Nat /\ 0 \in Nat /\ 0 \in 0..n
    OBVIOUS
<1> HIDE DEF n
<1>4. step \in Steps(n, Nat)
    BY <1>1 DEF Steps
<1>5. PICK f : Stepped(n, Nat, 0, step, f)
    <2> HIDE DEF step
    <2> QED
        BY <1>3, <1>4, Recursion
<1>6. IsTaken(f)
    <2>1. ASSUME NEW b \in 0..n PROVE f[b] = IF b = 0 THEN 0 ELSE 2 * f[b - 1] + Cardinality(Coded(L, b))
        <3>1. ASSUME b # 0 PROVE f[b] = 2 * f[b - 1] + Cardinality(Coded(L, b))
            <4>1. b \in 1..n
                BY <1>3, <3>1
            <4>2. f[b - 1] \in Nat /\ f[b] = step[b][f[b - 1]]
                BY <1>1, <1>5, <4>1 DEF Stepped
            <4> QED
                BY <4>1, <4>2
        <3> QED
            BY <1>5, <3>1 DEF Stepped
    <2>2. f = [b \in 0..n |-> f[b]]
        BY <1>5 DEF Stepped
    <2> QED
        BY <2>1, <2>2
<1>7. IsTaken(taken)
    BY <1>2, <1>6
<1> HIDE DEF taken
<1>8. taken[0] = 0 /\ \A b \in 1..n : taken[b] = 2 * taken[b - 1] + Cardinality(Coded(L, b))
    <2>1. \A b \in 0..n : taken[b] = IF b = 0 THEN 0 ELSE 2 * taken[b - 1] + Cardinality(Coded(L, b))
        BY <1>7
    <2> QED
        BY <1>1, <1>3, <2>1
<1>9. taken[0] \in Nat /\ \A b \in 1..n : taken[b - 1] \in Nat => taken[b] \in Nat
    BY <1>1, <1>8
<1>10. \A b \in 0..n : taken[b] \in Nat
    BY <1>3, <1>9, Values
<1> QED
    BY <1>8, <1>10 DEF taken, n, MaxBits

(* An element of a finite set of numbers is the only one in its place. *)
LEMMA RankIs ==
    ASSUME NEW T, T \subseteq Nat, IsFiniteSet(T), NEW s \in T
    PROVE  /\ Cardinality({t \in T : t < s}) \in 0..(Cardinality(T) - 1)
           /\ \A u \in T : Cardinality({t \in T : t < u}) = Cardinality({t \in T : t < s}) => u = s
<1> DEFINE Before(u) == {t \in T : t < u}
<1>1. ASSUME NEW A, NEW B, A \subseteq B, B \subseteq T, NEW x \in B, x \notin A
      PROVE  Cardinality(A) \in Nat /\ Cardinality(B) \in Nat /\ Cardinality(A) < Cardinality(B)
    <2>1. IsFiniteSet(B) /\ IsFiniteSet(A)
        BY <1>1, FS_Subset
    <2>2. Cardinality(A) \in Nat /\ Cardinality(B) \in Nat
        BY <2>1, FS_CardinalityType
    <2>3. Cardinality(A) <= Cardinality(B) /\ (Cardinality(A) = Cardinality(B) => A = B)
        BY <1>1, <2>1, FS_Subset
    <2> QED
        BY <1>1, <2>2, <2>3
<1>2. ASSUME NEW u \in T, NEW v \in T, u < v PROVE Cardinality(Before(u)) # Cardinality(Before(v))
    <2>1. Before(u) \subseteq Before(v) /\ Before(v) \subseteq T /\ u \in Before(v) /\ u \notin Before(u)
        <3>1. ASSUME NEW t \in T, t < u PROVE t < v
            BY <1>2, <3>1
        <3>2. ~(u < u)
            OBVIOUS
        <3> QED
            BY <1>2, <3>1, <3>2
    <2> HIDE DEF Before
    <2>2. Cardinality(Before(u)) \in Nat /\ Cardinality(Before(v)) \in Nat /\ Cardinality(Before(u)) < Cardinality(Before(v))
        BY <1>1, <2>1
    <2> QED
        BY <2>2
<1>3. Cardinality(Before(s)) \in 0..(Cardinality(T) - 1)
    <2>1. Before(s) \subseteq T /\ s \notin Before(s)
        OBVIOUS
    <2> HIDE DEF Before
    <2>2. Cardinality(Before(s)) \in Nat /\ Cardinality(T) \in Nat /\ Cardinality(Before(s)) < Cardinality(T)
        BY <1>1, <2>1
    <2> QED
        BY <2>2
<1>4. ASSUME NEW u \in T, Cardinality(Before(u)) = Cardinality(Before(s)) PROVE u = s
    <2>1. ~(u < s) /\ ~(s < u)
        BY <1>2, <1>4
    <2> QED
        BY <2>1
<1> QED
    BY <1>3, <1>4
(* A symbol stands in the list of the tree behind those with shorter codes *)
(* and those of its own length before it.                                  *)
LEMMA SymbolsAre ==
    ASSUME NEW L, Len(L) \in Nat, NEW b \in 1..MaxBits, NEW i \in 1..Cardinality(Coded(L, b))
    PROVE  /\ Shorter(Counts(L))[b] + i \in 1..Len(FromLengths(L).symbols)
           /\ FromLengths(L).symbols[Shorter(Counts(L))[b] + i] = OfLength(L, b)[i]
<1> DEFINE n == 16
           counts == Counts(L)
           shorter == Shorter(counts)
           listed == Listed(L)
           own(k) == OfLength(L, k)
           Longer == {k \in Nat : k <= n => Len(listed[k]) = shorter[k] + counts[k]}
           Gaps == {d \in Nat : b + d <= n => Begins(listed[b], listed[b + d])}
<1>1. /\ n = MaxBits /\ n \in Nat /\ 0 \in 0..n /\ b \in 0..n /\ b # 0 /\ b - 1 \in 0..n
      /\ \A k \in 1..n : k - 1 \in 0..n /\ k \in 0..n /\ k # 0
    BY DEF MaxBits
<1>2. FromLengths(L).symbols = listed[n]
    BY <1>1 DEF FromLengths, IsListed, Listed
<1>3. /\ counts \in [0..n -> Nat] /\ counts[0] = 0 /\ \A k \in 1..n : counts[k] = Cardinality(Coded(L, k))
    <2>1. \A k \in 0..n : Cardinality(Coded(L, k)) \in Nat
        BY OfLengthIs
    <2>2. counts = [k \in 0..n |-> IF k = 0 THEN 0 ELSE Cardinality(Coded(L, k))]
        BY <1>1 DEF Counts
    <2> HIDE DEF counts, n
    <2> QED
        BY <1>1, <2>1, <2>2
<1>4. /\ \A k \in 1..n : shorter[k] = shorter[k - 1] + counts[k - 1]
      /\ shorter[0] = 0 /\ \A k \in 0..n : shorter[k] \in Nat
    <2> HIDE DEF counts, n
    <2> QED
        BY <1>1, <1>3, ShorterAre
<1>5. /\ \A k \in 1..n : listed[k] = listed[k - 1] \o own(k)
      /\ listed[0] = <<>> /\ \A k \in 0..n : listed[k] \in Seq(Nat)
    <2> HIDE DEF listed, n
    <2> QED
        BY <1>1, ListedAre DEF listed
<1>6. \A k \in 1..n : own(k) \in Seq(Nat) /\ Len(own(k)) = counts[k]
    <2>1. ASSUME NEW k \in 1..n PROVE own(k) \in Seq(Nat) /\ Len(own(k)) = counts[k]
        <3> HIDE DEF counts
        <3> QED
            BY <1>3, OfLengthIs
    <2> QED
        BY <2>1
<1> HIDE DEF n, counts, shorter, listed, own
<1>7. ASSUME NEW k \in 1..n
      PROVE  /\ Len(listed[k]) = Len(listed[k - 1]) + counts[k] /\ Len(listed[k - 1]) \in Nat /\ counts[k] \in Nat
             /\ Begins(listed[k - 1], listed[k])
             /\ \A j \in 1..counts[k] : listed[k][Len(listed[k - 1]) + j] = own(k)[j]
    <2>1. listed[k - 1] \in Seq(Nat) /\ own(k) \in Seq(Nat) /\ listed[k] = listed[k - 1] \o own(k)
        BY <1>1, <1>5, <1>6
    <2>2. /\ Len(listed[k]) = Len(listed[k - 1]) + Len(own(k)) /\ Len(listed[k - 1]) \in Nat /\ Len(own(k)) \in Nat
          /\ \A j \in 1..Len(listed[k - 1]) : listed[k][j] = listed[k - 1][j]
          /\ \A j \in 1..Len(own(k)) : listed[k][Len(listed[k - 1]) + j] = own(k)[j]
        BY <2>1, Joined
    <2>3. Len(own(k)) = counts[k]
        BY <1>6
    <2>4. Begins(listed[k - 1], listed[k])
        <3>1. Len(listed[k - 1]) <= Len(listed[k])
            BY <2>2
        <3> QED
            BY <2>2, <3>1 DEF Begins
    <2> QED
        BY <2>2, <2>3, <2>4
<1>8. Len(listed[b - 1]) = shorter[b - 1] + counts[b - 1]
    <2>1. 0 \in Longer
        <3>1. Len(listed[0]) = 0
            BY <1>5
        <3>2. shorter[0] = 0 /\ counts[0] = 0
            BY <1>3, <1>4
        <3>3. Len(listed[0]) = shorter[0] + counts[0]
            BY <3>1, <3>2
        <3> QED
            BY <3>3
    <2>2. ASSUME NEW m \in 0..(n - 1), m \in Longer PROVE m + 1 \in Longer
        <3> DEFINE k == m + 1
        <3>1. k \in 1..n /\ k - 1 = m /\ k \in Nat /\ m <= n
            BY <1>1
        <3> HIDE DEF k
        <3>2. Len(listed[k]) = shorter[k] + counts[k]
            <4>1. Len(listed[m]) = shorter[m] + counts[m]
                BY <2>2, <3>1
            <4>2. Len(listed[k]) = Len(listed[m]) + counts[k] /\ shorter[k] = shorter[m] + counts[m]
                BY <1>4, <1>7, <3>1
            <4> QED
                BY <4>1, <4>2
        <3> QED
            BY <3>1, <3>2 DEF k
    <2> HIDE DEF Longer
    <2>3. 0..n \subseteq Longer
        BY <1>1, <2>1, <2>2, Induction
    <2>4. b - 1 \in Longer /\ b - 1 <= n /\ b - 1 \in Nat
        BY <1>1, <2>3
    <2> QED
        BY <2>4 DEF Longer
<1>9. Begins(listed[b], listed[n])
    <2>1. 0 \in Gaps
        BY <1>1, BeginsWhole
    <2>2. ASSUME NEW d \in 0..(n - b - 1), d \in Gaps PROVE d + 1 \in Gaps
        <3> DEFINE k == b + d + 1
                   c == b + d
        <3>1. k \in 1..n /\ c = k - 1 /\ b + (d + 1) = k /\ d + 1 \in Nat /\ c <= n
            BY <1>1
        <3>2. Begins(listed[b], listed[c])
            BY <2>2, <3>1
        <3> HIDE DEF k, c
        <3>3. Len(listed[k]) = Len(listed[c]) + counts[k] /\ Len(listed[c]) \in Nat /\ counts[k] \in Nat /\ Begins(listed[c], listed[k])
            BY <1>7, <3>1
        <3>4. Begins(listed[b], listed[k])
            <4>1. Len(listed[b]) \in Nat
                BY <1>1, <1>5, LenProperties
            <4>2. ASSUME NEW j \in 1..Len(listed[b]) PROVE listed[b][j] = listed[k][j]
                <5>1. j \in 1..Len(listed[c])
                    BY <3>2, <3>3, <4>1 DEF Begins
                <5> QED
                    BY <3>2, <3>3, <5>1 DEF Begins
            <4> QED
                BY <3>2, <3>3, <4>1, <4>2 DEF Begins
        <3> QED
            BY <3>1, <3>4
    <2>3. n - b \in Nat /\ b + (n - b) = n /\ n - b \in 0..(n - b) /\ b + (n - b) <= n
        BY <1>1
    <2> HIDE DEF Gaps
    <2>4. 0..(n - b) \subseteq Gaps
        BY <2>1, <2>2, <2>3, Induction
    <2> QED
        BY <2>3, <2>4 DEF Gaps
<1>10. shorter[b] = Len(listed[b - 1]) /\ shorter[b] \in Nat
    BY <1>1, <1>4, <1>8
<1>11. Cardinality(Coded(L, b)) = counts[b]
    BY <1>1, <1>3
<1>12. Len(listed[b]) \in Nat /\ Len(listed[n]) \in Nat
    BY <1>1, <1>5, LenProperties
<1>13. /\ shorter[b] + i \in 1..Len(listed[b]) /\ i \in 1..counts[b]
       /\ listed[b][shorter[b] + i] = own(b)[i]
    BY <1>1, <1>7, <1>10, <1>11
<1>14. shorter[b] + i \in 1..Len(listed[n]) /\ listed[n][shorter[b] + i] = own(b)[i]
    BY <1>9, <1>12, <1>13 DEF Begins
<1> QED
    BY <1>2, <1>14 DEF shorter, counts, own

(* A table of from_lengths, length by length. *)
LEMMA TreeFields ==
    ASSUME NEW L, Len(L) \in Nat
    PROVE  \A b \in 1..MaxBits :
              /\ FromLengths(L).min[b] = 2 * Taken(L)[b - 1]
              /\ FromLengths(L).max[b] = IF Cardinality(Coded(L, b)) > 0
                                         THEN 2 * Taken(L)[b - 1] + Cardinality(Coded(L, b)) - 1 ELSE -1
              /\ FromLengths(L).offset[b] = Shorter(Counts(L))[b] - 2 * Taken(L)[b - 1]
<1> DEFINE n == 16
           counts == Counts(L)
           first == FirstCodes(counts)
           taken == Taken(L)
           shorter == Shorter(counts)
           M == {b \in Nat : b + 1 <= n => first[b + 1] = 2 * taken[b]}
<1>1. n = MaxBits /\ n \in Nat
    BY DEF MaxBits
<1>2. /\ counts \in [0..n -> Nat] /\ counts[0] = 0 /\ \A b \in 1..n : counts[b] = Cardinality(Coded(L, b))
    <2>1. \A b \in 0..n : Cardinality(Coded(L, b)) \in Nat
        BY OfLengthIs
    <2>2. counts = [b \in 0..n |-> IF b = 0 THEN 0 ELSE Cardinality(Coded(L, b))]
        BY <1>1 DEF Counts
    <2>3. 0 \in 0..n /\ \A b \in 1..n : b \in 0..n /\ b # 0
        OBVIOUS
    <2> HIDE DEF counts, n
    <2> QED
        BY <1>1, <2>1, <2>2, <2>3
<1>3. first[0] = 0 /\ \A b \in 1..n : first[b] = 2 * (first[b - 1] + counts[b - 1])
    <2> HIDE DEF counts, n
    <2> QED
        BY <1>1, <1>2, FirstCodesAre
<1>4. /\ taken[0] = 0 /\ \A b \in 0..n : taken[b] \in Nat
      /\ \A b \in 1..n : taken[b] = 2 * taken[b - 1] + counts[b]
    <2> HIDE DEF counts, n
    <2> QED
        BY <1>1, <1>2, TakenIs
<1>5. FromLengths(L).min = first
    BY DEF FromLengths
<1>6. FromLengths(L).max = [b \in 1..n |-> IF counts[b] > 0 THEN first[b] + counts[b] - 1 ELSE -1]
    BY <1>1 DEF FromLengths
<1>7. FromLengths(L).offset = [b \in 1..n |-> shorter[b] - first[b]]
    BY <1>1 DEF FromLengths
<1> HIDE DEF counts, first, taken, n
<1>8. 0 \in M
    <2>1. 0 + 1 = 1 /\ (1 <= n => 1 \in 1..n) /\ 1 - 1 = 0
        BY <1>1
    <2>2. 1 <= n => first[1] = 2 * (first[0] + counts[0])
        BY <1>3, <2>1
    <2> QED
        BY <1>2, <1>3, <1>4, <2>1, <2>2
<1>9. ASSUME NEW b \in 0..(n - 1), b \in M PROVE b + 1 \in M
    <2> DEFINE k == b + 1
    <2>1. k \in 1..n /\ k - 1 = b /\ k \in Nat /\ k \in 0..n
        BY <1>1
    <2> HIDE DEF k
    <2>2. first[k] = 2 * taken[b] /\ taken[b] \in Nat
        <3>1. first[b + 1] = 2 * taken[b]
            BY <1>1, <1>9, <2>1 DEF k
        <3>2. b \in 0..n
            BY <1>1
        <3> QED
            BY <1>4, <3>1, <3>2 DEF k
    <2>3. ASSUME k + 1 <= n PROVE first[k + 1] = 2 * taken[k]
        <3> DEFINE j == k + 1
        <3>1. j \in 1..n /\ j - 1 = k
            BY <2>1, <2>3
        <3> HIDE DEF j
        <3>2. first[j] = 2 * (first[k] + counts[k])
            BY <1>3, <3>1
        <3>3. taken[k] = 2 * taken[b] + counts[k] /\ counts[k] \in Nat
            BY <1>2, <1>4, <2>1
        <3>4. first[j] = 2 * taken[k]
            BY <2>2, <3>2, <3>3
        <3> QED
            BY <3>4 DEF j
    <2>4. k \in M
        BY <2>1, <2>3
    <2> QED
        BY <2>4 DEF k
<1> HIDE DEF M
<1>10. 0..n \subseteq M
    BY <1>1, <1>8, <1>9, Induction
<1>11. ASSUME NEW b \in 1..n PROVE first[b] = 2 * taken[b - 1] /\ counts[b] = Cardinality(Coded(L, b))
    <2> DEFINE k == b - 1
    <2>1. k \in 0..n /\ k + 1 = b /\ k + 1 <= n
        BY <1>1
    <2> HIDE DEF k
    <2>2. first[k + 1] = 2 * taken[k]
        BY <1>10, <2>1 DEF M
    <2> QED
        BY <1>2, <2>1, <2>2 DEF k
<1>12. ASSUME NEW b \in 1..n
       PROVE  /\ FromLengths(L).min[b] = 2 * taken[b - 1]
              /\ FromLengths(L).max[b] = IF Cardinality(Coded(L, b)) > 0
                                         THEN 2 * taken[b - 1] + Cardinality(Coded(L, b)) - 1 ELSE -1
              /\ FromLengths(L).offset[b] = shorter[b] - 2 * taken[b - 1]
    BY <1>5, <1>6, <1>7, <1>11
<1> QED
    BY <1>1, <1>12 DEF taken, counts

Rank(T, s) == Cardinality({t \in T : t < s})

(* The code of a symbol fits into its bits, ... *)
LEMMA CanonicalIs ==
    ASSUME NEW L, Len(L) \in Nat, IsPrefixCode(L), NEW s, HasCode(L, s),
           NEW n, n = L[s + 1], NEW r, r = Rank(Coded(L, n), s)
    PROVE  /\ n \in 1..15 /\ r \in 0..(Cardinality(Coded(L, n)) - 1) /\ Cardinality(Coded(L, n)) \in Nat
           /\ Canonical(L, s) = 2 * Taken(L)[n - 1] + r /\ Taken(L)[n - 1] \in Nat
           /\ Canonical(L, s) < 2^n /\ OfLength(L, n)[r + 1] = s
<1> DEFINE T == Coded(L, n)
           m == Cardinality(T)
           w == 2^n
           last == Taken(L)[n]
           before == Taken(L)[n - 1]
<1>1. n \in 1..15 /\ n \in 0..15 /\ n \in 1..MaxBits /\ n \in 0..MaxBits /\ n - 1 \in 0..MaxBits
    BY DEF HasCode, MaxBits
<1>2. T \subseteq Nat /\ IsFiniteSet(T) /\ s \in T
    <2>1. s \in T
        BY DEF HasCode, Coded
    <2> QED
        BY <2>1, CodedIs
<1>3. r \in 0..(m - 1) /\ \A u \in T : Cardinality({t \in T : t < u}) = r => u = s
    <2> HIDE DEF T
    <2> QED
        BY <1>2, RankIs DEF T, Rank
<1>4. m \in Nat
    BY <1>2, FS_CardinalityType
<1>5. last = 2 * before + m /\ before \in Nat
    BY <1>1, TakenIs
<1>6. last <= w /\ w \in Nat
    BY <1>1, Powers DEF IsPrefixCode
<1>7. Canonical(L, s) = 2 * before + r
    BY DEF Canonical, Rank
<1>8. OfLength(L, n)[r + 1] = s
    <2> DEFINE k == r + 1
    <2>1. k \in 1..m /\ k - 1 = r
        BY <1>3, <1>4
    <2>2. OfLength(L, n) = [i \in 1..m |-> CHOOSE u \in T : Cardinality({t \in T : t < u}) = i - 1]
        BY DEF OfLength
    <2>3. Cardinality({t \in T : t < s}) = k - 1
        BY <2>1 DEF Rank
    <2> HIDE DEF k, T, m
    <2>4. OfLength(L, n)[k] \in T /\ Cardinality({t \in T : t < OfLength(L, n)[k]}) = k - 1
        BY <1>2, <2>1, <2>2, <2>3
    <2>5. OfLength(L, n)[k] = s
        BY <1>3, <2>1, <2>4
    <2> QED
        BY <2>5 DEF k
<1> HIDE DEF T, m, w, last, before
<1>9. 2 * before + r < w
    BY <1>3, <1>4, <1>5, <1>6
<1> QED
    BY <1>1, <1>3, <1>4, <1>5, <1>7, <1>8, <1>9 DEF T, m, w, before

(* ... and no beginning of it is one of the codes of its length. *)
LEMMA Beyond ==
    ASSUME NEW L, Len(L) \in Nat, NEW n \in 1..15, NEW c \in Nat, c >= 2 * Taken(L)[n - 1],
           NEW b \in 0..(n - 1)
    PROVE  c \div 2^(n - b) \in Nat /\ c \div 2^(n - b) >= Taken(L)[b]
<1> DEFINE taken == Taken(L)
           v(k) == c \div 2^k
           W == {d \in Nat : d <= n - 1 => v(d + 1) \in Nat /\ v(d + 1) >= taken[n - 1 - d]}
<1>1. /\ \A k \in 0..16 : taken[k] \in Nat
      /\ \A k \in 1..16 : taken[k] = 2 * taken[k - 1] + Cardinality(Coded(L, k)) /\ Cardinality(Coded(L, k)) \in Nat
    <2>1. \A k \in 1..16 : Cardinality(Coded(L, k)) \in Nat
        BY OfLengthIs
    <2> QED
        BY <2>1, TakenIs DEF MaxBits
<1>2. \A k \in 0..14 : v(k) \in Nat /\ v(k + 1) \in Nat /\ v(k) = 2 * v(k + 1) + (v(k) % 2)
    BY Halves DEF Halved
<1>3. v(0) = c
    OBVIOUS
<1> HIDE DEF taken, v
<1>4. 0 \in W
    <2>1. v(0) \in Nat /\ v(0 + 1) \in Nat /\ v(0) = 2 * v(0 + 1) + (v(0) % 2) /\ v(0) >= 2 * taken[n - 1] /\ taken[n - 1] \in Nat
        <3>1. 0 \in 0..14 /\ n - 1 \in 0..16
            OBVIOUS
        <3> QED
            BY <1>1, <1>2, <1>3, <3>1 DEF taken
    <2>2. v(0 + 1) >= taken[n - 1] /\ n - 1 - 0 = n - 1
        <3> DEFINE x == v(0)
                   y == v(0 + 1)
                   z == taken[n - 1]
        <3>1. x \in Nat /\ y \in Nat /\ z \in Nat /\ x = 2 * y + (x % 2) /\ x >= 2 * z
            BY <2>1
        <3> HIDE DEF x, y, z
        <3>2. y >= z
            BY <3>1
        <3> QED
            BY <3>2 DEF y, z
    <2> QED
        BY <2>1, <2>2
<1>5. ASSUME NEW d \in 0..(n - 2), d \in W PROVE d + 1 \in W
    <2> DEFINE x == v(d + 1)
               y == v(d + 1 + 1)
               z == taken[n - 1 - d]
               u == taken[n - 1 - (d + 1)]
    <2>1. x \in Nat /\ y \in Nat /\ x = 2 * y + (x % 2)
        <3>1. d + 1 \in 0..14
            OBVIOUS
        <3> QED
            BY <1>2, <3>1
    <2>2. x >= z
        <3>1. d <= n - 1
            OBVIOUS
        <3> QED
            BY <1>5, <3>1
    <2>3. z \in Nat /\ u \in Nat /\ z >= 2 * u
        <3> DEFINE k == n - 1 - d
        <3>1. k \in 1..16 /\ k \in 0..16 /\ k - 1 \in 0..16 /\ k - 1 = n - 1 - (d + 1)
            OBVIOUS
        <3> HIDE DEF k
        <3>2. taken[k] \in Nat /\ taken[k - 1] \in Nat
            BY <1>1, <3>1
        <3>3. taken[k] = 2 * taken[k - 1] + Cardinality(Coded(L, k)) /\ Cardinality(Coded(L, k)) \in Nat
            BY <1>1, <3>1
        <3> QED
            BY <3>1, <3>2, <3>3 DEF k
    <2> HIDE DEF x, y, z, u
    <2>4. y \in Nat /\ y >= u
        BY <2>1, <2>2, <2>3
    <2>5. d + 1 \in Nat
        OBVIOUS
    <2> QED
        BY <2>4, <2>5 DEF y, u
<1> HIDE DEF W
<1>6. n - 1 - b \in W
    <2>1. n - 1 \in Nat /\ n - 1 - 1 = n - 2 /\ n - 1 - b \in 0..(n - 1)
        OBVIOUS
    <2>2. 0..(n - 1) \subseteq W
        BY <1>4, <1>5, <2>1, Induction
    <2> QED
        BY <2>1, <2>2
<1>7. n - 1 - b \in Nat /\ n - 1 - b <= n - 1 /\ n - 1 - b + 1 = n - b /\ n - 1 - (n - 1 - b) = b
    OBVIOUS
<1>8. v(n - b) \in Nat /\ v(n - b) >= taken[b]
    BY <1>6, <1>7 DEF W
<1> QED
    BY <1>8 DEF v, taken

----------------------------------------------------------------------------
(* A code is read back *)

(* Bits that begin like the code of s, as far as they go. *)
BeginsCode(bits, L, s) ==
    /\ Len(bits) \in Nat
    /\ \A i \in 1..Len(bits) : i <= L[s + 1] => bits[i] = CodeBits(L, s)[i]

(* from_lengths and decode: in every code that is a prefix code, the bits  *)
(* of a symbol are read back as that symbol, whatever follows them, and a  *)
(* code that is cut is taken for no symbol.                                *)
THEOREM DecodesCode ==
    ASSUME NEW L, Len(L) \in Nat, IsPrefixCode(L), NEW s, HasCode(L, s), NEW bits, BeginsCode(bits, L, s)
    PROVE  IF L[s + 1] <= Len(bits)
           THEN /\ Decode(FromLengths(L), bits).what = "symbol"
                /\ Decode(FromLengths(L), bits).symbol = s /\ Decode(FromLengths(L), bits).size = L[s + 1]
           ELSE Decode(FromLengths(L), bits).what = "end"
<1> DEFINE n == L[s + 1]
           T == Coded(L, n)
           m == Cardinality(T)
           r == Rank(T, s)
           c == Canonical(L, s)
           tree == FromLengths(L)
           Index(b) == tree.offset[b] + Code(bits, b)
           Found(b) == /\ tree.max[b] >= 0
                       /\ Code(bits, b) \in tree.min[b]..tree.max[b]
                       /\ Index(b) < Len(tree.symbols)
           k == Min({MaxBits, Len(bits)})
           lengths == { b \in 1..k : Found(b) }
           before == Taken(L)[n - 1]
           shorter == Shorter(Counts(L))
<1>1. /\ n \in 1..15 /\ r \in 0..(m - 1) /\ m \in Nat
      /\ c = 2 * before + r /\ before \in Nat /\ c < 2^n /\ OfLength(L, n)[r + 1] = s
    <2>1. n = L[s + 1] /\ r = Rank(Coded(L, n), s)
        OBVIOUS
    <2> HIDE DEF n, r
    <2> QED
        BY <2>1, CanonicalIs
<1>2. c \in Nat /\ n \in 1..MaxBits /\ Len(bits) \in Nat
    BY <1>1 DEF MaxBits, BeginsCode
<1>3. k \in Nat /\ k <= 16 /\ k <= Len(bits) /\ (k = 16 \/ k = Len(bits))
    <2>1. {MaxBits, Len(bits)} \subseteq Nat /\ {MaxBits, Len(bits)} # {}
        BY DEF MaxBits, BeginsCode
    <2>2. \E x \in {MaxBits, Len(bits)} : \A y \in {MaxBits, Len(bits)} : x <= y
        BY <2>1, Least
    <2> QED
        BY <2>1, <2>2 DEF Min, MaxBits
<1>4. Decode(tree, bits) = IF lengths # {}
                        THEN [what |-> "symbol", symbol |-> tree.symbols[Index(Min(lengths)) + 1], size |-> Min(lengths)]
                        ELSE [what |-> IF Len(bits) >= MaxBits THEN "invalid" ELSE "end"]
    BY DEF Decode
<1> HIDE DEF k
<1>5. ASSUME NEW b \in 0..n, b <= Len(bits) PROVE Code(bits, b) = c \div 2^(n - b)
    <2>1. \A i \in 1..b : bits[i] = (c \div 2^(n - i)) % 2
        <3>1. ASSUME NEW i \in 1..b PROVE bits[i] = (c \div 2^(n - i)) % 2
            <4>1. i \in 1..Len(bits) /\ i <= n /\ i \in 1..n
                <5> HIDE DEF n
                <5> QED
                    BY <1>1, <1>2, <1>5
            <4>2. bits[i] = CodeBits(L, s)[i]
                BY <4>1 DEF BeginsCode
            <4>3. CodeBits(L, s) = [j \in 1..n |-> (c \div 2^(n - j)) % 2]
                BY DEF CodeBits
            <4> HIDE DEF n, c
            <4> QED
                BY <4>1, <4>2, <4>3
        <3> QED
            BY <3>1
    <2> HIDE DEF n, c
    <2> QED
        BY <1>1, <1>2, <2>1, CodePrefix
<1>6. ASSUME NEW b \in 1..n, b <= k, b # n PROVE ~Found(b)
    <2> DEFINE x == Code(bits, b)
               l == Cardinality(Coded(L, b))
               p == Taken(L)[b - 1]
    <2>1. b \in 0..(n - 1) /\ b <= Len(bits) /\ b \in 1..MaxBits /\ b \in 0..n
        <3> HIDE DEF n
        <3> QED
            BY <1>1, <1>2, <1>3, <1>6 DEF MaxBits
    <2>2. c >= 2 * Taken(L)[n - 1]
        <3> HIDE DEF c, n, r, m
        <3> QED
            BY <1>1
    <2>3. x \in Nat /\ x >= Taken(L)[b]
        <3> HIDE DEF c, n
        <3>1. c \div 2^(n - b) \in Nat /\ c \div 2^(n - b) >= Taken(L)[b]
            BY <1>1, <1>2, <2>1, <2>2, Beyond
        <3> QED
            BY <1>5, <2>1, <3>1
    <2>4. Taken(L)[b] = 2 * p + l /\ l \in Nat
        BY <2>1, TakenIs, OfLengthIs
    <2>5. p \in Nat
        <3>1. b - 1 \in 0..MaxBits
            BY <2>1 DEF MaxBits
        <3> QED
            BY <3>1, TakenIs
    <2>6. tree.min[b] = 2 * p /\ tree.max[b] = IF l > 0 THEN 2 * p + l - 1 ELSE -1
        BY <2>1, TreeFields
    <2> HIDE DEF x, l, p, tree
    <2>7. ~(tree.max[b] >= 0 /\ x \in tree.min[b]..tree.max[b])
        BY <2>3, <2>4, <2>5, <2>6
    <2> QED
        BY <2>7 DEF x
<1>7. ASSUME n <= k PROVE Found(n) /\ tree.symbols[Index(n) + 1] = s
    <2> DEFINE q == shorter[n]
    <2>1. Code(bits, n) = c
        <3> HIDE DEF n, c
        <3>1. n \in 0..n /\ n <= Len(bits) /\ n - n = 0
            BY <1>1, <1>2, <1>3, <1>7
        <3>2. Code(bits, n) = c \div 2^0
            BY <1>5, <3>1
        <3> QED
            BY <1>1, <1>2, <3>2, Small
    <2>2. tree.min[n] = 2 * before /\ tree.max[n] = (IF m > 0 THEN 2 * before + m - 1 ELSE -1)
              /\ tree.offset[n] = q - 2 * before
        BY <1>2, TreeFields
    <2>3. r + 1 \in 1..m
        BY <1>1
    <2>4. q + (r + 1) \in 1..Len(tree.symbols) /\ tree.symbols[q + (r + 1)] = OfLength(L, n)[r + 1]
        <3> DEFINE i == r + 1
        <3> HIDE DEF n, i
        <3>1. i \in 1..Cardinality(Coded(L, n))
            BY <2>3 DEF i
        <3> HIDE DEF r
        <3> QED
            BY <1>2, <3>1, SymbolsAre DEF i
    <2>5. q \in Nat
        <3>1. Counts(L) \in [0..MaxBits -> Nat]
            <4>1. \A b \in 0..MaxBits : Cardinality(Coded(L, b)) \in Nat
                BY OfLengthIs
            <4> QED
                BY <4>1 DEF Counts
        <3>2. n \in 0..MaxBits
            BY <1>2
        <3> HIDE DEF n
        <3> QED
            BY <3>1, <3>2, ShorterAre
    <2>6. Len(tree.symbols) \in Nat
        BY TreeOf, LenProperties DEF Tree
    <2> HIDE DEF n, c, r, m, q, tree, before
    <2>7. Index(n) + 1 = q + (r + 1) /\ Index(n) < Len(tree.symbols)
        BY <1>1, <2>1, <2>2, <2>4, <2>5, <2>6
    <2>8. tree.max[n] >= 0 /\ c \in tree.min[n]..tree.max[n]
        BY <1>1, <2>2
    <2> QED
        BY <1>1, <2>1, <2>4, <2>7, <2>8
<1> HIDE DEF n, tree, c, r, m, before
<1>8. CASE n <= Len(bits)
    <2>1. n <= k
        BY <1>1, <1>3, <1>8
    <2>2. n \in lengths /\ \A b \in lengths : n <= b
        <3>1. n \in lengths
            BY <1>1, <1>7, <2>1
        <3>2. ASSUME NEW b \in 1..k, Found(b) PROVE n <= b
            BY <1>1, <1>3, <1>6, <3>2
        <3> QED
            BY <3>1, <3>2
    <2>3. lengths \subseteq Nat
        BY <1>3
    <2> DEFINE b0 == Min(lengths)
    <2>4. b0 = n
        <3> HIDE DEF lengths
        <3>1. b0 \in lengths /\ \A y \in lengths : b0 <= y
            BY <2>2 DEF Min
        <3> HIDE DEF b0
        <3> QED
            BY <1>1, <2>2, <2>3, <3>1
    <2> DEFINE symbol == tree.symbols[Index(b0) + 1]
               decoded == [what |-> "symbol", symbol |-> symbol, size |-> b0]
    <2>5. Decode(tree, bits) = decoded
        <3>1. lengths # {}
            BY <2>2
        <3> HIDE DEF lengths, b0
        <3> QED
            BY <1>4, <3>1 DEF b0
    <2>6. symbol = s
        <3> HIDE DEF b0
        <3> QED
            BY <1>7, <2>1, <2>4
    <2> HIDE DEF symbol, b0
    <2>7. decoded.what = "symbol" /\ decoded.symbol = symbol /\ decoded.size = b0
        OBVIOUS
    <2> HIDE DEF decoded
    <2>8. Decode(tree, bits).what = "symbol" /\ Decode(tree, bits).symbol = s /\ Decode(tree, bits).size = n
        BY <2>4, <2>5, <2>6, <2>7
    <2> QED
        BY <1>8, <2>8 DEF n, tree
<1>9. CASE ~(n <= Len(bits))
    <2>1. lengths = {}
        <3>1. ASSUME NEW b \in 1..k PROVE ~Found(b)
            BY <1>1, <1>3, <1>6, <1>9
        <3> QED
            BY <3>1
    <2>2. ~(Len(bits) >= MaxBits)
        BY <1>1, <1>9 DEF MaxBits, BeginsCode
    <2>3. Decode(tree, bits).what = "end"
        <3> HIDE DEF lengths
        <3>1. Decode(tree, bits) = [what |-> "end"]
            BY <1>4, <2>1, <2>2
        <3> QED
            BY <3>1
    <2> QED
        BY <1>9, <2>3 DEF n, tree
<1> QED
    BY <1>8, <1>9

----------------------------------------------------------------------------
(* The bits of a file that is cut *)

(* ---- The bits of a file of which the data are the beginning *)

(* A bit that stands in the file is the one that decompress reads. *)
LEMMA BitStands ==
    ASSUME BitsInv, NEW f, Begins(data, f), NEW i \in Nat, i < BitsLeft
    PROVE  Bit(i) = BitOf(f, base, at + i)
<1> DEFINE n == Len(data)
           q == (at + i) \div 8
           k == (at + i) % 8
           p == base + q
<1>1. n \in Nat /\ base \in Nat /\ at \in Nat /\ at + i < 8 * (n - base)
    BY LenProperties DEF BitsInv, BitsLeft
<1>2. p \in Nat /\ p < n
    <2> HIDE DEF n
    <2>1. q \in Nat /\ 8 * q <= at + i
        BY <1>1
    <2> HIDE DEF q
    <2> QED
        BY <1>1, <2>1
<1>3. data[p + 1] = f[p + 1]
    <2> HIDE DEF p
    <2>1. p + 1 \in 1..n
        BY <1>1, <1>2
    <2> HIDE DEF n
    <2> QED
        BY <2>1 DEF Begins, n
<1>4. Bit(i) = (data[p + 1] \div 2^k) % 2
    BY DEF Bit, Byte
<1>5. BitOf(f, base, at + i) = (f[p + 1] \div 2^k) % 2
    BY DEF BitOf
<1> HIDE DEF p, k
<1> QED
    BY <1>3, <1>4, <1>5

(* Bits that stand ahead are read, as far as they have come. *)
LEMMA BitsStand ==
    ASSUME BitsInv, NEW f, Begins(data, f), NEW i \in Nat, NEW bits, Len(bits) \in Nat,
           Stands(f, base, at + i, bits), NEW k \in 1..Len(bits), Has(i + k)
    PROVE  Bit(i + k - 1) = bits[k]
<1> DEFINE j == i + k - 1
<1>1. BitsLeft \in Int /\ BitsLeft >= i + k
    BY BitsThere
<1>2. j \in Nat /\ j < BitsLeft
    BY <1>1
<1>3. at \in Nat /\ at + j = at + i + k - 1
    BY DEF BitsInv
<1>4. BitOf(f, base, at + i + k - 1) = bits[k]
    BY DEF Stands
<1> HIDE DEF j
<1>5. Bit(j) = BitOf(f, base, at + j)
    BY <1>2, BitStands
<1> QED
    BY <1>3, <1>4, <1>5 DEF j

(* What is short of a number of bits is short of the file. *)
LEMMA Short ==
    ASSUME BitsInv, NEW f, NEW n \in Nat, ~Has(n), 8 * base + at + n <= 8 * Len(f)
    PROVE  data # f
<1>1. Len(data) \in Nat /\ base \in Nat /\ at \in Nat /\ 8 * (Len(data) - base) - at < n
    BY LenProperties DEF BitsInv, Has, BitsLeft
<1> SUFFICES ASSUME data = f PROVE FALSE
    OBVIOUS
<1> DEFINE l == Len(data)
<1>2. l = Len(f) /\ l \in Nat /\ base \in Nat /\ at \in Nat /\ 8 * (l - base) - at < n
    BY <1>1
<1> HIDE DEF l
<1> QED
    BY <1>2

(* The bits of a number *)
LEMMA NumberIs ==
    ASSUME NEW v \in Nat, NEW n \in 0..16
    PROVE  /\ Number(v, n) \in Seq(Nat) /\ Len(Number(v, n)) = n
           /\ \A j \in 1..n : Number(v, n)[j] = (v \div 2^(j - 1)) % 2
<1>1. ASSUME NEW j \in 1..n PROVE (v \div 2^(j - 1)) % 2 \in Nat
    <2> DEFINE d == 2^(j - 1)
    <2>1. d \in Nat \ {0}
        <3>1. j - 1 \in 0..15
            OBVIOUS
        <3> QED
            BY <3>1, Powers
    <2> HIDE DEF d
    <2>2. v \div d \in Nat
        BY <2>1
    <2>3. (v \div d) % 2 \in Nat
        BY <2>2
    <2> QED
        BY <2>3 DEF d
<1>2. Number(v, n) = [j \in 1..n |-> (v \div 2^(j - 1)) % 2]
    BY DEF Number
<1>3. Number(v, n) \in [1..n -> Nat] /\ n \in Nat
    BY <1>1, <1>2
<1>4. Number(v, n) \in Seq(Nat) /\ Len(Number(v, n)) = n
    BY <1>3, FunctionLength
<1> QED
    BY <1>2, <1>4

(* The last j + 1 bits of a number are the last j and the one before. *)
LowBit(v, d, p, q) == v % p \in Nat /\ v % q = (v % p) + ((v \div d) % 2) * p

(* A number is the sum of its bits, from each of them on. *)
LEMMA LowBits ==
    ASSUME NEW v \in Nat, NEW j \in 0..15
    PROVE  v % 2^j \in Nat /\ v % 2^(j + 1) = (v % 2^j) + ((v \div 2^j) % 2) * 2^j
<1> DEFINE Powered(i, p, q) == 2^i = p /\ 2^(i + 1) = q
           Low(i) == LowBit(v, 2^i, 2^i, 2^(i + 1))
<1>1. LowBit(v, 1, 1, 2)
    BY DEF LowBit
<1>2. LowBit(v, 2, 2, 4)
    BY DEF LowBit
<1>3. LowBit(v, 4, 4, 8)
    BY DEF LowBit
<1>4. LowBit(v, 8, 8, 16)
    BY DEF LowBit
<1>5. LowBit(v, 16, 16, 32)
    BY DEF LowBit
<1>6. LowBit(v, 32, 32, 64)
    BY DEF LowBit
<1>7. LowBit(v, 64, 64, 128)
    BY DEF LowBit
<1>8. LowBit(v, 128, 128, 256)
    BY DEF LowBit
<1>9. LowBit(v, 256, 256, 512)
    BY DEF LowBit
<1>10. LowBit(v, 512, 512, 1024)
    BY DEF LowBit
<1>11. LowBit(v, 1024, 1024, 2048)
    BY DEF LowBit
<1>12. LowBit(v, 2048, 2048, 4096)
    BY DEF LowBit
<1>13. LowBit(v, 4096, 4096, 8192)
    BY DEF LowBit
<1>14. LowBit(v, 8192, 8192, 16384)
    BY DEF LowBit
<1>15. LowBit(v, 16384, 16384, 32768)
    BY DEF LowBit
<1>16. LowBit(v, 32768, 32768, 65536)
    BY DEF LowBit
<1>17. /\ Powered(0, 1, 2)
       /\ Powered(1, 2, 4)
       /\ Powered(2, 4, 8)
       /\ Powered(3, 8, 16)
       /\ Powered(4, 16, 32)
       /\ Powered(5, 32, 64)
       /\ Powered(6, 64, 128)
       /\ Powered(7, 128, 256)
       /\ Powered(8, 256, 512)
       /\ Powered(9, 512, 1024)
       /\ Powered(10, 1024, 2048)
       /\ Powered(11, 2048, 4096)
       /\ Powered(12, 4096, 8192)
       /\ Powered(13, 8192, 16384)
       /\ Powered(14, 16384, 32768)
       /\ Powered(15, 32768, 65536)
    OBVIOUS
<1>18. ASSUME NEW i, NEW p, NEW q, Powered(i, p, q), LowBit(v, p, p, q) PROVE Low(i)
    BY <1>18
<1> HIDE DEF Powered, Low
<1>19. /\ Low(0) /\ Low(1) /\ Low(2) /\ Low(3) /\ Low(4) /\ Low(5) /\ Low(6) /\ Low(7)
       /\ Low(8) /\ Low(9) /\ Low(10) /\ Low(11) /\ Low(12) /\ Low(13) /\ Low(14) /\ Low(15)
    BY <1>1, <1>2, <1>3, <1>4, <1>5, <1>6, <1>7, <1>8, <1>9, <1>10, <1>11, <1>12, <1>13, <1>14, <1>15, <1>16, <1>17, <1>18
<1>20. j \in {0, 1, 2, 3, 4, 5, 6, 7, 8, 9, 10, 11, 12, 13, 14, 15}
    OBVIOUS
<1>21. Low(j)
    BY <1>19, <1>20
<1> QED
    BY <1>21 DEF Low, LowBit

(* A number below a power has no more bits. *)
LEMMA NoRest ==
    ASSUME NEW n \in 0..16, NEW v \in Nat, v < 2^n
    PROVE  v % 2^n = v
<1> DEFINE Fits(i) == v < 2^i => v % 2^i = v
<1>1. /\ Fits(0) /\ Fits(1) /\ Fits(2) /\ Fits(3) /\ Fits(4) /\ Fits(5) /\ Fits(6) /\ Fits(7) /\ Fits(8)
      /\ Fits(9) /\ Fits(10) /\ Fits(11) /\ Fits(12) /\ Fits(13) /\ Fits(14) /\ Fits(15) /\ Fits(16)
    OBVIOUS
<1> HIDE DEF Fits
<1>2. n \in {0, 1, 2, 3, 4, 5, 6, 7, 8, 9, 10, 11, 12, 13, 14, 15, 16}
    OBVIOUS
<1>3. Fits(n)
    BY <1>1, <1>2
<1> QED
    BY <1>3 DEF Fits

(* A field has the number that was written. *)
LEMMA FieldReads ==
    ASSUME BitsInv, NEW f, Begins(data, f), NEW i \in Nat, NEW n \in 0..16, NEW v \in Nat, v < 2^n,
           Stands(f, base, at + i, Number(v, n)), Has(i + n)
    PROVE  Field(i, n) = v
<1>1. PICK value : Unfolds(value, i, n)
    BY FieldUnfolds
<1> DEFINE bits == Number(v, n)
           M == {j \in 0..n : value[j] = v % 2^j}
<1>2. Len(bits) = n /\ \A j \in 1..n : bits[j] = (v \div 2^(j - 1)) % 2
    BY NumberIs
<1> HIDE DEF bits
<1>3. ASSUME NEW j \in 1..n PROVE Bit(i + j - 1) = bits[j]
    <2>1. Has(i + j)
        BY BitsThere
    <2>2. Stands(f, base, at + i, bits) /\ Len(bits) \in Nat /\ j \in 1..Len(bits)
        BY <1>2 DEF bits
    <2> QED
        BY <2>1, <2>2, BitsStand
<1>4. 0 \in M
    <2>1. v % 2^0 = 0
        OBVIOUS
    <2> QED
        BY <1>1, <2>1 DEF Unfolds
<1>5. ASSUME NEW r \in 0..(n - 1), r \in M PROVE r + 1 \in M
    <2> DEFINE j == r + 1
               d == 2^r
    <2>1. j \in 1..n /\ j \in 0..n /\ j - 1 = r /\ r \in 0..15
        OBVIOUS
    <2>2. v % 2^(r + 1) = (v % d) + ((v \div d) % 2) * d
        BY <2>1, LowBits
    <2>3. v % 2^j = (v % d) + ((v \div d) % 2) * d
        BY <2>2
    <2> HIDE DEF j
    <2>4. value[j] = value[j - 1] + Bit(i + j - 1) * 2^(j - 1) /\ Bit(i + j - 1) = bits[j]
             /\ bits[j] = (v \div 2^(j - 1)) % 2
        BY <1>1, <1>2, <1>3, <2>1 DEF Unfolds
    <2>5. value[j] = value[r] + ((v \div d) % 2) * d /\ value[r] = v % d
        BY <1>5, <2>1, <2>4
    <2>6. value[j] = v % 2^j
        BY <2>3, <2>5
    <2> QED
        BY <2>1, <2>6 DEF j
<1> HIDE DEF M
<1>6. 0..n \subseteq M
    BY <1>4, <1>5, Induction
<1>7. n \in M
    BY <1>6
<1>8. value[n] = v % 2^n
    BY <1>7 DEF M
<1> QED
    BY <1>1, <1>8, NoRest DEF Unfolds

(* The bits of a code are those of its number, the first one first. *)
LEMMA CodeBitsAre ==
    ASSUME NEW L, Len(L) \in Nat, IsPrefixCode(L), NEW s, HasCode(L, s)
    PROVE  CodeBits(L, s) \in Seq(Nat) /\ Len(CodeBits(L, s)) = L[s + 1] /\ L[s + 1] \in 1..15
<1> DEFINE n == L[s + 1]
           c == Canonical(L, s)
<1>1. n \in 1..15 /\ c \in Nat
    <2>1. L[s + 1] \in 1..15 /\ Canonical(L, s) = 2 * Taken(L)[L[s + 1] - 1] + Rank(Coded(L, L[s + 1]), s)
        BY DEF HasCode, Canonical, Rank
    <2>2. /\ Canonical(L, s) = 2 * Taken(L)[L[s + 1] - 1] + Rank(Coded(L, L[s + 1]), s)
          /\ Taken(L)[L[s + 1] - 1] \in Nat /\ Rank(Coded(L, L[s + 1]), s) \in 0..(Cardinality(Coded(L, L[s + 1])) - 1)
        BY CanonicalIs
    <2> DEFINE before == Taken(L)[L[s + 1] - 1]
               r == Rank(Coded(L, L[s + 1]), s)
    <2>3. before \in Nat /\ r \in Int /\ r >= 0 /\ c = 2 * before + r
        BY <2>2
    <2> HIDE DEF before, r, c
    <2>4. c \in Nat
        BY <2>3
    <2> QED
        BY <2>1, <2>4
<1>2. CodeBits(L, s) = [i \in 1..n |-> (c \div 2^(n - i)) % 2]
    BY DEF CodeBits
<1> HIDE DEF n, c
<1>3. ASSUME NEW i \in 1..n PROVE (c \div 2^(n - i)) % 2 \in Nat
    <2> DEFINE d == 2^(n - i)
    <2>1. d \in Nat \ {0}
        <3>1. n - i \in 0..15
            BY <1>1
        <3> QED
            BY <3>1, Powers
    <2> HIDE DEF d
    <2>2. c \div d \in Nat
        BY <1>1, <2>1
    <2>3. (c \div d) % 2 \in Nat
        BY <2>2
    <2> QED
        BY <2>3 DEF d
<1>4. CodeBits(L, s) \in [1..n -> Nat] /\ n \in Nat
    BY <1>1, <1>2, <1>3
<1> QED
    BY <1>1, <1>4, FunctionLength DEF n

(* What stands is the one part and then the other. *)
LEMMA StandsJoined ==
    ASSUME NEW f, NEW start \in Nat, NEW i \in Nat, NEW s \in Seq(Nat), NEW t \in Seq(Nat), Len(f) \in Nat,
           Stands(f, start, i, s \o t)
    PROVE  Stands(f, start, i, s) /\ Stands(f, start, i + Len(s), t)
<1> DEFINE u == s \o t
           m == Len(s)
           n == Len(t)
<1>1. Len(u) = m + n /\ m \in Nat /\ n \in Nat
    BY Joined
<1>2. \A k \in 1..m : u[k] = s[k]
    BY Joined
<1>3. \A k \in 1..n : u[m + k] = t[k]
    BY Joined
<1>4. 8 * start + i + Len(u) <= 8 * Len(f) /\ \A k \in 1..Len(u) : BitOf(f, start, i + k - 1) = u[k]
    BY DEF Stands
<1> HIDE DEF u, m, n
<1>5. \A k \in 1..m : BitOf(f, start, i + k - 1) = s[k]
    <2>1. \A k \in 1..m : k \in 1..Len(u)
        BY <1>1
    <2> QED
        BY <1>2, <1>4, <2>1
<1>6. ASSUME NEW k \in 1..n PROVE BitOf(f, start, i + m + k - 1) = t[k]
    <2> DEFINE j == m + k
    <2>1. j \in 1..Len(u) /\ i + j - 1 = i + m + k - 1
        BY <1>1
    <2>2. u[j] = t[k]
        BY <1>3
    <2> HIDE DEF j
    <2> QED
        BY <1>4, <2>1, <2>2
<1>7. 8 * start + i + m <= 8 * Len(f) /\ 8 * start + (i + m) + n <= 8 * Len(f)
    BY <1>1, <1>4
<1> QED
    BY <1>5, <1>6, <1>7 DEF Stands, m, n

(* decode takes the code that stands ahead, ... *)
LEMMA DecodeReads ==
    ASSUME BitsInv, NEW f, Begins(data, f), NEW i \in Nat, Has(i), NEW L, Len(L) \in Nat, IsPrefixCode(L),
           NEW s, HasCode(L, s), Stands(f, base, at + i, CodeBits(L, s))
    PROVE  IF Has(i + L[s + 1])
           THEN /\ Decode(FromLengths(L), Ahead(i)).what = "symbol"
                /\ Decode(FromLengths(L), Ahead(i)).symbol = s /\ Decode(FromLengths(L), Ahead(i)).size = L[s + 1]
           ELSE Decode(FromLengths(L), Ahead(i)).what = "end"
<1> DEFINE bits == Ahead(i)
           code == CodeBits(L, s)
           n == L[s + 1]
           m == Min({MaxBits, BitsLeft - i})
<1>1. BitsLeft \in Int /\ BitsLeft >= i /\ n \in 1..15 /\ Len(code) = n
    BY CodeBitsAre, BitsThere
<1>2. m \in Nat /\ m <= BitsLeft - i /\ m <= 16 /\ (m = 16 \/ m = BitsLeft - i)
    <2>1. {MaxBits, BitsLeft - i} \subseteq Nat /\ {MaxBits, BitsLeft - i} # {}
        BY <1>1 DEF MaxBits
    <2>2. \E x \in {MaxBits, BitsLeft - i} : \A y \in {MaxBits, BitsLeft - i} : x <= y
        BY <2>1, Least
    <2> QED
        BY <2>1, <2>2 DEF Min, MaxBits
<1> HIDE DEF m, n, code
<1>3. Len(bits) = m /\ \A j \in 1..m : bits[j] = Bit(i + j - 1)
    <2> DEFINE read == [j \in 1..m |-> Bit(i + j - 1)]
               T == { Bit(i + j - 1) : j \in 1..m }
    <2>1. read \in [1..m -> T] /\ \A j \in 1..m : read[j] = Bit(i + j - 1)
        OBVIOUS
    <2>2. bits = read
        BY DEF Ahead, m
    <2> HIDE DEF T, read, bits
    <2>3. Len(read) = m
        BY <1>2, <2>1, FunctionLength
    <2> QED
        BY <2>1, <2>2, <2>3
<1> HIDE DEF bits
<1>4. ASSUME NEW j \in 1..Len(bits), j <= n PROVE bits[j] = code[j]
    <2>1. j \in 1..Len(code) /\ Has(i + j) /\ j \in 1..m
        BY <1>1, <1>2, <1>3, <1>4, BitsThere
    <2>2. Bit(i + j - 1) = code[j]
        BY <1>1, <2>1, BitsStand DEF code
    <2> QED
        BY <1>3, <2>1, <2>2
<1>5. BeginsCode(bits, L, s)
    BY <1>2, <1>3, <1>4 DEF BeginsCode, n, code
<1>6. Has(i + n) <=> n <= Len(bits)
    BY <1>1, <1>2, <1>3, BitsThere
<1> QED
    BY <1>5, <1>6, DecodesCode DEF bits, n

----------------------------------------------------------------------------
(* The definitions of the format, unfolded *)

(* A function that goes on by one *)
Extended(f, m, v) == [k \in 0..(m + 1) |-> IF k = m + 1 THEN v ELSE f[k]]

(* A function, extended by one more argument *)
LEMMA ExtendedIs ==
    ASSUME NEW m \in Nat, NEW f, NEW v
    PROVE  (\A k \in 0..m : Extended(f, m, v)[k] = f[k]) /\ Extended(f, m, v)[m + 1] = v
BY DEF Extended

(* Offsets *)
LEMMA OffsetsUnfold ==
    ASSUME NEW first, NEW count \in Nat, NEW sizes
    PROVE  /\ Offsets(first, count, sizes)[0] = first
           /\ \A k \in 1..count : Offsets(first, count, sizes)[k] = Offsets(first, count, sizes)[k - 1] + sizes[k]
<1> DEFINE n == count
           StepOf(f, k) == f[k - 1] + sizes[k]
           Goes(f, m) == f[0] = first /\ \A k \in 1..m : f[k] = StepOf(f, k)
           Is(f) == f = [k \in 0..n |-> IF k = 0 THEN first ELSE f[k - 1] + sizes[k]]
           M == {m \in Nat : \E f : Goes(f, m)}
           whole == CHOOSE f : Is(f)
<1>1. Offsets(first, count, sizes) = whole
    BY DEF Offsets
<1>2. 0 \in M
    <2>1. Goes([k \in {0} |-> first], 0)
        OBVIOUS
    <2> QED
        BY <2>1
<1>3. ASSUME NEW m \in 0..(n - 1), m \in M PROVE m + 1 \in M
    <2>1. PICK f : Goes(f, m)
        BY <1>3
    <2> DEFINE v == StepOf(f, m + 1)
               h == Extended(f, m, v)
    <2>2. (\A k \in 0..m : h[k] = f[k]) /\ h[m + 1] = v
        <3>1. m \in Nat
            OBVIOUS
        <3> HIDE DEF v, Goes
        <3> QED
            BY <3>1, ExtendedIs
    <2> HIDE DEF h
    <2>3. m \in 0..m /\ 0 \in 0..m /\ m + 1 - 1 = m /\ m + 1 \in Nat
        OBVIOUS
    <2>4. ASSUME NEW k \in 1..(m + 1) PROVE h[k] = StepOf(h, k)
        <3>1. k - 1 \in 0..m /\ h[k - 1] = f[k - 1]
            BY <2>2
        <3>2. StepOf(h, k) = StepOf(f, k)
            BY <3>1
        <3> HIDE DEF StepOf
        <3>3. CASE k = m + 1
            BY <2>2, <3>2, <3>3
        <3>4. CASE k # m + 1
            <4>1. k \in 1..m /\ k \in 0..m
                BY <3>4
            <4> QED
                BY <2>1, <2>2, <3>2, <4>1
        <3> QED
            BY <3>3, <3>4
    <2>5. Goes(h, m + 1)
        BY <2>1, <2>2, <2>3, <2>4
    <2> HIDE DEF Goes
    <2> QED
        BY <2>3, <2>5
<1> HIDE DEF M
<1>4. 0..n \subseteq M
    BY <1>2, <1>3, Induction
<1>5. n \in M /\ n \in Nat
    BY <1>4
<1>6. PICK f : Goes(f, n)
    BY <1>5 DEF M
<1> HIDE DEF n
<1>7. Is([k \in 0..n |-> f[k]])
    <2> DEFINE g == [k \in 0..n |-> f[k]]
    <2>1. ASSUME NEW k \in 0..n PROVE f[k] = IF k = 0 THEN first ELSE StepOf(g, k)
        <3>1. k # 0 => k \in 1..n /\ g[k - 1] = f[k - 1]
            BY <1>5
        <3>2. k # 0 => StepOf(g, k) = StepOf(f, k)
            BY <3>1
        <3> HIDE DEF StepOf, g
        <3> QED
            BY <1>6, <3>1, <3>2
    <2>2. g = [k \in 0..n |-> IF k = 0 THEN first ELSE StepOf(g, k)]
        <3> HIDE DEF StepOf
        <3> QED
            BY <2>1
    <2> HIDE DEF g
    <2> QED
        BY <2>2 DEF g
<1>8. Is(whole)
    <2> HIDE DEF Is
    <2> QED
        BY <1>7
<1> HIDE DEF whole
<1>9. whole[0] = first /\ \A k \in 1..n : whole[k] = StepOf(whole, k)
    <2>1. whole = [k \in 0..n |-> IF k = 0 THEN first ELSE StepOf(whole, k)]
        BY <1>8
    <2>2. 0 \in 0..n /\ \A k \in 1..n : k \in 0..n /\ k # 0
        BY <1>5
    <2> HIDE DEF StepOf, Is
    <2> QED
        BY <2>1, <2>2
<1> QED
    BY <1>1, <1>9 DEF n

(* Played *)
LEMMA PlayedUnfolds ==
    ASSUME NEW done, NEW items, Len(items) \in Nat
    PROVE  /\ Played(done, items)[0] = done
           /\ \A k \in 1..Len(items) : Played(done, items)[k] = Play(Played(done, items)[k - 1], items[k])
<1> DEFINE n == Len(items)
           StepOf(f, k) == Play(f[k - 1], items[k])
           Goes(f, m) == f[0] = done /\ \A k \in 1..m : f[k] = StepOf(f, k)
           Is(f) == f = [k \in 0..n |-> IF k = 0 THEN done ELSE Play(f[k - 1], items[k])]
           M == {m \in Nat : \E f : Goes(f, m)}
           whole == CHOOSE f : Is(f)
<1>1. Played(done, items) = whole
    BY DEF Played
<1>2. 0 \in M
    <2>1. Goes([k \in {0} |-> done], 0)
        OBVIOUS
    <2> QED
        BY <2>1
<1>3. ASSUME NEW m \in 0..(n - 1), m \in M PROVE m + 1 \in M
    <2>1. PICK f : Goes(f, m)
        BY <1>3
    <2> DEFINE v == StepOf(f, m + 1)
               h == Extended(f, m, v)
    <2>2. (\A k \in 0..m : h[k] = f[k]) /\ h[m + 1] = v
        <3>1. m \in Nat
            OBVIOUS
        <3> HIDE DEF v, Goes
        <3> QED
            BY <3>1, ExtendedIs
    <2> HIDE DEF h
    <2>3. m \in 0..m /\ 0 \in 0..m /\ m + 1 - 1 = m /\ m + 1 \in Nat
        OBVIOUS
    <2>4. ASSUME NEW k \in 1..(m + 1) PROVE h[k] = StepOf(h, k)
        <3>1. k - 1 \in 0..m /\ h[k - 1] = f[k - 1]
            BY <2>2
        <3>2. StepOf(h, k) = StepOf(f, k)
            BY <3>1
        <3> HIDE DEF StepOf
        <3>3. CASE k = m + 1
            BY <2>2, <3>2, <3>3
        <3>4. CASE k # m + 1
            <4>1. k \in 1..m /\ k \in 0..m
                BY <3>4
            <4> QED
                BY <2>1, <2>2, <3>2, <4>1
        <3> QED
            BY <3>3, <3>4
    <2>5. Goes(h, m + 1)
        BY <2>1, <2>2, <2>3, <2>4
    <2> HIDE DEF Goes
    <2> QED
        BY <2>3, <2>5
<1> HIDE DEF M
<1>4. 0..n \subseteq M
    BY <1>2, <1>3, Induction
<1>5. n \in M /\ n \in Nat
    BY <1>4
<1>6. PICK f : Goes(f, n)
    BY <1>5 DEF M
<1> HIDE DEF n
<1>7. Is([k \in 0..n |-> f[k]])
    <2> DEFINE g == [k \in 0..n |-> f[k]]
    <2>1. ASSUME NEW k \in 0..n PROVE f[k] = IF k = 0 THEN done ELSE StepOf(g, k)
        <3>1. k # 0 => k \in 1..n /\ g[k - 1] = f[k - 1]
            BY <1>5
        <3>2. k # 0 => StepOf(g, k) = StepOf(f, k)
            BY <3>1
        <3> HIDE DEF StepOf, g
        <3> QED
            BY <1>6, <3>1, <3>2
    <2>2. g = [k \in 0..n |-> IF k = 0 THEN done ELSE StepOf(g, k)]
        <3> HIDE DEF StepOf
        <3> QED
            BY <2>1
    <2> HIDE DEF g
    <2> QED
        BY <2>2 DEF g
<1>8. Is(whole)
    <2> HIDE DEF Is
    <2> QED
        BY <1>7
<1> HIDE DEF whole
<1>9. whole[0] = done /\ \A k \in 1..n : whole[k] = StepOf(whole, k)
    <2>1. whole = [k \in 0..n |-> IF k = 0 THEN done ELSE StepOf(whole, k)]
        BY <1>8
    <2>2. 0 \in 0..n /\ \A k \in 1..n : k \in 0..n /\ k # 0
        BY <1>5
    <2> HIDE DEF StepOf, Is
    <2> QED
        BY <2>1, <2>2
<1> QED
    BY <1>1, <1>9 DEF n

(* Unrunned *)
LEMMA UnrunnedUnfolds ==
    ASSUME NEW runs, Len(runs) \in Nat
    PROVE  /\ Unrunned(runs)[0] = <<>>
           /\ \A k \in 1..Len(runs) : Unrunned(runs)[k] = Unrun(Unrunned(runs)[k - 1], runs[k])
<1> DEFINE n == Len(runs)
           StepOf(f, k) == Unrun(f[k - 1], runs[k])
           Goes(f, m) == f[0] = <<>> /\ \A k \in 1..m : f[k] = StepOf(f, k)
           Is(f) == f = [k \in 0..n |-> IF k = 0 THEN <<>> ELSE Unrun(f[k - 1], runs[k])]
           M == {m \in Nat : \E f : Goes(f, m)}
           whole == CHOOSE f : Is(f)
<1>1. Unrunned(runs) = whole
    BY DEF Unrunned
<1>2. 0 \in M
    <2>1. Goes([k \in {0} |-> <<>>], 0)
        OBVIOUS
    <2> QED
        BY <2>1
<1>3. ASSUME NEW m \in 0..(n - 1), m \in M PROVE m + 1 \in M
    <2>1. PICK f : Goes(f, m)
        BY <1>3
    <2> DEFINE v == StepOf(f, m + 1)
               h == Extended(f, m, v)
    <2>2. (\A k \in 0..m : h[k] = f[k]) /\ h[m + 1] = v
        <3>1. m \in Nat
            OBVIOUS
        <3> HIDE DEF v, Goes
        <3> QED
            BY <3>1, ExtendedIs
    <2> HIDE DEF h
    <2>3. m \in 0..m /\ 0 \in 0..m /\ m + 1 - 1 = m /\ m + 1 \in Nat
        OBVIOUS
    <2>4. ASSUME NEW k \in 1..(m + 1) PROVE h[k] = StepOf(h, k)
        <3>1. k - 1 \in 0..m /\ h[k - 1] = f[k - 1]
            BY <2>2
        <3>2. StepOf(h, k) = StepOf(f, k)
            BY <3>1
        <3> HIDE DEF StepOf
        <3>3. CASE k = m + 1
            BY <2>2, <3>2, <3>3
        <3>4. CASE k # m + 1
            <4>1. k \in 1..m /\ k \in 0..m
                BY <3>4
            <4> QED
                BY <2>1, <2>2, <3>2, <4>1
        <3> QED
            BY <3>3, <3>4
    <2>5. Goes(h, m + 1)
        BY <2>1, <2>2, <2>3, <2>4
    <2> HIDE DEF Goes
    <2> QED
        BY <2>3, <2>5
<1> HIDE DEF M
<1>4. 0..n \subseteq M
    BY <1>2, <1>3, Induction
<1>5. n \in M /\ n \in Nat
    BY <1>4
<1>6. PICK f : Goes(f, n)
    BY <1>5 DEF M
<1> HIDE DEF n
<1>7. Is([k \in 0..n |-> f[k]])
    <2> DEFINE g == [k \in 0..n |-> f[k]]
    <2>1. ASSUME NEW k \in 0..n PROVE f[k] = IF k = 0 THEN <<>> ELSE StepOf(g, k)
        <3>1. k # 0 => k \in 1..n /\ g[k - 1] = f[k - 1]
            BY <1>5
        <3>2. k # 0 => StepOf(g, k) = StepOf(f, k)
            BY <3>1
        <3> HIDE DEF StepOf, g
        <3> QED
            BY <1>6, <3>1, <3>2
    <2>2. g = [k \in 0..n |-> IF k = 0 THEN <<>> ELSE StepOf(g, k)]
        <3> HIDE DEF StepOf
        <3> QED
            BY <2>1
    <2> HIDE DEF g
    <2> QED
        BY <2>2 DEF g
<1>8. Is(whole)
    <2> HIDE DEF Is
    <2> QED
        BY <1>7
<1> HIDE DEF whole
<1>9. whole[0] = <<>> /\ \A k \in 1..n : whole[k] = StepOf(whole, k)
    <2>1. whole = [k \in 0..n |-> IF k = 0 THEN <<>> ELSE StepOf(whole, k)]
        BY <1>8
    <2>2. 0 \in 0..n /\ \A k \in 1..n : k \in 0..n /\ k # 0
        BY <1>5
    <2> HIDE DEF StepOf, Is
    <2> QED
        BY <2>1, <2>2
<1> QED
    BY <1>1, <1>9 DEF n

(* BlockEnds *)
LEMMA BlockEndsUnfold ==
    ASSUME NEW blocks, Len(blocks) \in Nat
    PROVE  /\ BlockEnds(blocks)[0] = 0
           /\ \A k \in 1..Len(blocks) : BlockEnds(blocks)[k] = BlockEnd(blocks[k], BlockEnds(blocks)[k - 1])
<1> DEFINE n == Len(blocks)
           StepOf(f, k) == BlockEnd(blocks[k], f[k - 1])
           Goes(f, m) == f[0] = 0 /\ \A k \in 1..m : f[k] = StepOf(f, k)
           Is(f) == f = [k \in 0..n |-> IF k = 0 THEN 0 ELSE BlockEnd(blocks[k], f[k - 1])]
           M == {m \in Nat : \E f : Goes(f, m)}
           whole == CHOOSE f : Is(f)
<1>1. BlockEnds(blocks) = whole
    BY DEF BlockEnds
<1>2. 0 \in M
    <2>1. Goes([k \in {0} |-> 0], 0)
        OBVIOUS
    <2> QED
        BY <2>1
<1>3. ASSUME NEW m \in 0..(n - 1), m \in M PROVE m + 1 \in M
    <2>1. PICK f : Goes(f, m)
        BY <1>3
    <2> DEFINE v == StepOf(f, m + 1)
               h == Extended(f, m, v)
    <2>2. (\A k \in 0..m : h[k] = f[k]) /\ h[m + 1] = v
        <3>1. m \in Nat
            OBVIOUS
        <3> HIDE DEF v, Goes
        <3> QED
            BY <3>1, ExtendedIs
    <2> HIDE DEF h
    <2>3. m \in 0..m /\ 0 \in 0..m /\ m + 1 - 1 = m /\ m + 1 \in Nat
        OBVIOUS
    <2>4. ASSUME NEW k \in 1..(m + 1) PROVE h[k] = StepOf(h, k)
        <3>1. k - 1 \in 0..m /\ h[k - 1] = f[k - 1]
            BY <2>2
        <3>2. StepOf(h, k) = StepOf(f, k)
            BY <3>1
        <3> HIDE DEF StepOf
        <3>3. CASE k = m + 1
            BY <2>2, <3>2, <3>3
        <3>4. CASE k # m + 1
            <4>1. k \in 1..m /\ k \in 0..m
                BY <3>4
            <4> QED
                BY <2>1, <2>2, <3>2, <4>1
        <3> QED
            BY <3>3, <3>4
    <2>5. Goes(h, m + 1)
        BY <2>1, <2>2, <2>3, <2>4
    <2> HIDE DEF Goes
    <2> QED
        BY <2>3, <2>5
<1> HIDE DEF M
<1>4. 0..n \subseteq M
    BY <1>2, <1>3, Induction
<1>5. n \in M /\ n \in Nat
    BY <1>4
<1>6. PICK f : Goes(f, n)
    BY <1>5 DEF M
<1> HIDE DEF n
<1>7. Is([k \in 0..n |-> f[k]])
    <2> DEFINE g == [k \in 0..n |-> f[k]]
    <2>1. ASSUME NEW k \in 0..n PROVE f[k] = IF k = 0 THEN 0 ELSE StepOf(g, k)
        <3>1. k # 0 => k \in 1..n /\ g[k - 1] = f[k - 1]
            BY <1>5
        <3>2. k # 0 => StepOf(g, k) = StepOf(f, k)
            BY <3>1
        <3> HIDE DEF StepOf, g
        <3> QED
            BY <1>6, <3>1, <3>2
    <2>2. g = [k \in 0..n |-> IF k = 0 THEN 0 ELSE StepOf(g, k)]
        <3> HIDE DEF StepOf
        <3> QED
            BY <2>1
    <2> HIDE DEF g
    <2> QED
        BY <2>2 DEF g
<1>8. Is(whole)
    <2> HIDE DEF Is
    <2> QED
        BY <1>7
<1> HIDE DEF whole
<1>9. whole[0] = 0 /\ \A k \in 1..n : whole[k] = StepOf(whole, k)
    <2>1. whole = [k \in 0..n |-> IF k = 0 THEN 0 ELSE StepOf(whole, k)]
        BY <1>8
    <2>2. 0 \in 0..n /\ \A k \in 1..n : k \in 0..n /\ k # 0
        BY <1>5
    <2> HIDE DEF StepOf, Is
    <2> QED
        BY <2>1, <2>2
<1> QED
    BY <1>1, <1>9 DEF n

(* Meant *)
LEMMA MeantUnfolds ==
    ASSUME NEW blocks, Len(blocks) \in Nat
    PROVE  /\ Meant(blocks)[0] = <<>>
           /\ \A k \in 1..Len(blocks) : Meant(blocks)[k] = (IF blocks[k].kind = "stored" THEN Meant(blocks)[k - 1] \o blocks[k].bytes
                                ELSE Played(Meant(blocks)[k - 1], blocks[k].items)[Len(blocks[k].items)])
<1> DEFINE n == Len(blocks)
           StepOf(f, k) == (IF blocks[k].kind = "stored" THEN f[k - 1] \o blocks[k].bytes
                                ELSE Played(f[k - 1], blocks[k].items)[Len(blocks[k].items)])
           Goes(f, m) == f[0] = <<>> /\ \A k \in 1..m : f[k] = StepOf(f, k)
           Is(f) == f = [k \in 0..n |-> IF k = 0 THEN <<>> ELSE (IF blocks[k].kind = "stored" THEN f[k - 1] \o blocks[k].bytes
                                ELSE Played(f[k - 1], blocks[k].items)[Len(blocks[k].items)])]
           M == {m \in Nat : \E f : Goes(f, m)}
           whole == CHOOSE f : Is(f)
<1>1. Meant(blocks) = whole
    BY DEF Meant
<1>2. 0 \in M
    <2>1. Goes([k \in {0} |-> <<>>], 0)
        OBVIOUS
    <2> QED
        BY <2>1
<1>3. ASSUME NEW m \in 0..(n - 1), m \in M PROVE m + 1 \in M
    <2>1. PICK f : Goes(f, m)
        BY <1>3
    <2> DEFINE v == StepOf(f, m + 1)
               h == Extended(f, m, v)
    <2>2. (\A k \in 0..m : h[k] = f[k]) /\ h[m + 1] = v
        <3>1. m \in Nat
            OBVIOUS
        <3> HIDE DEF v, Goes
        <3> QED
            BY <3>1, ExtendedIs
    <2> HIDE DEF h
    <2>3. m \in 0..m /\ 0 \in 0..m /\ m + 1 - 1 = m /\ m + 1 \in Nat
        OBVIOUS
    <2>4. ASSUME NEW k \in 1..(m + 1) PROVE h[k] = StepOf(h, k)
        <3>1. k - 1 \in 0..m /\ h[k - 1] = f[k - 1]
            BY <2>2
        <3>2. StepOf(h, k) = StepOf(f, k)
            BY <3>1
        <3> HIDE DEF StepOf
        <3>3. CASE k = m + 1
            BY <2>2, <3>2, <3>3
        <3>4. CASE k # m + 1
            <4>1. k \in 1..m /\ k \in 0..m
                BY <3>4
            <4> QED
                BY <2>1, <2>2, <3>2, <4>1
        <3> QED
            BY <3>3, <3>4
    <2>5. Goes(h, m + 1)
        BY <2>1, <2>2, <2>3, <2>4
    <2> HIDE DEF Goes
    <2> QED
        BY <2>3, <2>5
<1> HIDE DEF M
<1>4. 0..n \subseteq M
    BY <1>2, <1>3, Induction
<1>5. n \in M /\ n \in Nat
    BY <1>4
<1>6. PICK f : Goes(f, n)
    BY <1>5 DEF M
<1> HIDE DEF n
<1>7. Is([k \in 0..n |-> f[k]])
    <2> DEFINE g == [k \in 0..n |-> f[k]]
    <2>1. ASSUME NEW k \in 0..n PROVE f[k] = IF k = 0 THEN <<>> ELSE StepOf(g, k)
        <3>1. k # 0 => k \in 1..n /\ g[k - 1] = f[k - 1]
            BY <1>5
        <3>2. k # 0 => StepOf(g, k) = StepOf(f, k)
            BY <3>1
        <3> HIDE DEF StepOf, g
        <3> QED
            BY <1>6, <3>1, <3>2
    <2>2. g = [k \in 0..n |-> IF k = 0 THEN <<>> ELSE StepOf(g, k)]
        <3> HIDE DEF StepOf
        <3> QED
            BY <2>1
    <2> HIDE DEF g
    <2> QED
        BY <2>2 DEF g
<1>8. Is(whole)
    <2> HIDE DEF Is
    <2> QED
        BY <1>7
<1> HIDE DEF whole
<1>9. whole[0] = <<>> /\ \A k \in 1..n : whole[k] = StepOf(whole, k)
    <2>1. whole = [k \in 0..n |-> IF k = 0 THEN <<>> ELSE StepOf(whole, k)]
        BY <1>8
    <2>2. 0 \in 0..n /\ \A k \in 1..n : k \in 0..n /\ k # 0
        BY <1>5
    <2> HIDE DEF StepOf, Is
    <2> QED
        BY <2>1, <2>2
<1> QED
    BY <1>1, <1>9 DEF n

----------------------------------------------------------------------------
(* Copies *)

(* Counting on by d comes to the same remainder. *)
LEMMA Remainders ==
    ASSUME NEW d \in Nat \ {0}, NEW x \in Nat
    PROVE  x % d \in 0..(d - 1) /\ (x < d => x % d = x) /\ (x >= d => (x - d) % d = x % d)
<1>1. x % d \in 0..(d - 1)
    OBVIOUS
<1>2. x < d => x % d = x
    OBVIOUS
<1>3. ASSUME x >= d PROVE (x - d) % d = x % d
    <2> DEFINE y == x - d
               p == y \div d
               q == x \div d
               r == x % d
               t == y % d
    <2>1. y \in Nat /\ p \in Nat /\ q \in Nat /\ r \in 0..(d - 1) /\ t \in 0..(d - 1)
        BY <1>3
    <2>2. x = d * q + r /\ y = d * p + t
        BY <1>3
    <2>3. x = y + d
        OBVIOUS
    <2> HIDE DEF y, p, q, r, t
    <2> DEFINE e == q - 1 - p
    <2>4. e \in Int /\ d * e = t - r
        BY <2>1, <2>2, <2>3
    <2> HIDE DEF e
    <2>5. e < 1
        <3>1. SUFFICES ASSUME e >= 1 PROVE FALSE
            BY <2>4
        <3>2. d * e >= d
            BY <2>4, <3>1
        <3> QED
            BY <2>1, <2>4, <3>2
    <2>6. e > -1
        <3>1. SUFFICES ASSUME e <= -1 PROVE FALSE
            BY <2>4
        <3>2. d * e <= -d
            BY <2>4, <3>1
        <3> QED
            BY <2>1, <2>4, <3>2
    <2>7. e = 0 /\ d * 0 = 0
        BY <2>4, <2>5, <2>6
    <2>8. t = r
        BY <2>1, <2>4, <2>7
    <2> QED
        BY <2>8 DEF t, r, y
<1> QED
    BY <1>1, <1>2, <1>3

(* A copy byte by byte is the copy of the code, which goes round in what   *)
(* is there before it begins.                                              *)
LEMMA PlayCopies ==
    ASSUME output \in Seq(Nat), NEW item, item.kind # "literal", Length(item) \in Nat,
           Distance(item) \in Nat \ {0}, Distance(item) <= Len(output)
    PROVE  Play(output, item) = output \o Copy(Length(item), Distance(item))
<1> DEFINE n == Len(output)
           l == Length(item)
           d == Distance(item)
           Is(f) == f = [i \in 1..(n + l) |-> IF i <= n THEN output[i] ELSE f[i - d]]
           byte == CHOOSE f : Is(f)
           From(i) == n - d + ((i - n - 1) % d) + 1
           w == [i \in 1..(n + l) |-> IF i <= n THEN output[i] ELSE output[From(i)]]
<1>1. Play(output, item) = output \o [i \in 1..l |-> byte[n + i]]
    BY DEF Play
<1>2. n \in Nat /\ l \in Nat /\ d \in Nat \ {0} /\ d <= n
    BY LenProperties
<1> HIDE DEF n, l, d
<1>3. ASSUME NEW i \in (n + 1)..(n + l)
      PROVE  i - d \in 1..(n + l) /\ i \in 1..(n + l) /\ ~(i <= n)
             /\ (i - d <= n => From(i) = i - d) /\ (~(i - d <= n) => From(i - d) = From(i))
    <2> DEFINE x == i - n - 1
    <2>1. x \in Nat /\ i = x + n + 1
        BY <1>2
    <2>2. x % d \in 0..(d - 1) /\ (x < d => x % d = x) /\ (x >= d => (x - d) % d = x % d)
        <3> HIDE DEF x
        <3> QED
            BY <1>2, <2>1, Remainders
    <2>3. i - d \in 1..(n + l) /\ i \in 1..(n + l) /\ ~(i <= n)
        BY <1>2
    <2>4. ASSUME i - d <= n PROVE From(i) = i - d
        <3>1. x < d /\ x % d = x
            BY <1>2, <2>1, <2>2, <2>4
        <3>2. From(i) = n - d + (x % d) + 1
            OBVIOUS
        <3> HIDE DEF x, From
        <3>3. From(i) = n - d + x + 1
            BY <3>1, <3>2
        <3> QED
            BY <1>2, <2>1, <3>3
    <2>5. ASSUME ~(i - d <= n) PROVE From(i - d) = From(i)
        <3>1. x >= d /\ (x - d) % d = x % d
            BY <1>2, <2>1, <2>2, <2>5
        <3>2. i - d - n - 1 = x - d
            BY <1>2
        <3>3. From(i) = n - d + (x % d) + 1 /\ From(i - d) = n - d + ((x - d) % d) + 1
            BY <3>2
        <3> HIDE DEF x
        <3> QED
            BY <3>1, <3>3
    <2> QED
        BY <2>3, <2>4, <2>5
<1> HIDE DEF From
<1>4. ASSUME NEW i \in 1..(n + l) PROVE w[i] = IF i <= n THEN output[i] ELSE w[i - d]
    <2>1. CASE i <= n
        BY <2>1
    <2>2. CASE ~(i <= n)
        <3>1. i \in (n + 1)..(n + l)
            BY <1>2, <2>2
        <3>2. w[i] = output[From(i)] /\ w[i - d] = IF i - d <= n THEN output[i - d] ELSE output[From(i - d)]
            BY <1>3, <2>2, <3>1
        <3> HIDE DEF w
        <3> QED
            BY <1>3, <2>2, <3>1, <3>2
    <2> QED
        BY <2>1, <2>2
<1>5. Is(w)
    <2> DEFINE g == [i \in 1..(n + l) |-> IF i <= n THEN output[i] ELSE w[i - d]]
    <2>1. \A i \in 1..(n + l) : w[i] = g[i]
        <3> HIDE DEF w
        <3> QED
            BY <1>4
    <2>2. w = [i \in 1..(n + l) |-> w[i]] /\ g = [i \in 1..(n + l) |-> g[i]]
        OBVIOUS
    <2> HIDE DEF w, g
    <2>3. w = g
        BY <2>1, <2>2
    <2> QED
        BY <2>3 DEF g
<1>6. Is(byte)
    <2> HIDE DEF Is, w
    <2> QED
        BY <1>5
<1> HIDE DEF byte
<1>7. \A i \in 1..(n + l) : byte[i] = IF i <= n THEN output[i] ELSE byte[i - d]
    BY <1>6
<1> DEFINE M == {m \in Nat : \A i \in 1..(n + l) : i <= m => byte[i] = w[i]}
<1> HIDE DEF w, Is
<1>8. 0 \in M
    BY <1>2
<1>9. ASSUME NEW m \in 0..(n + l - 1), m \in M PROVE m + 1 \in M
    <2>1. m \in Nat /\ m + 1 \in Nat /\ m + 1 \in 1..(n + l) /\ \A i \in 1..(n + l) : i <= m => byte[i] = w[i]
        BY <1>2, <1>9
    <2>2. byte[m + 1] = w[m + 1]
        <3> DEFINE j == m + 1
        <3>1. j \in 1..(n + l) /\ j = m + 1
            BY <2>1
        <3> HIDE DEF j
        <3>2. ASSUME j <= n PROVE byte[j] = w[j]
            BY <1>4, <1>7, <3>1, <3>2
        <3>3. ASSUME ~(j <= n) PROVE byte[j] = w[j]
            <4>1. j \in (n + 1)..(n + l)
                BY <1>2, <3>1, <3>3
            <4>2. j - d \in 1..(n + l) /\ j - d <= m
                BY <1>2, <1>3, <2>1, <3>1, <4>1
            <4>3. byte[j - d] = w[j - d]
                BY <2>1, <4>2
            <4> QED
                BY <1>4, <1>7, <3>1, <3>3, <4>3
        <3>4. byte[j] = w[j]
            BY <3>2, <3>3
        <3> QED
            BY <3>4 DEF j
    <2>3. ASSUME NEW i \in 1..(n + l), i <= m + 1 PROVE byte[i] = w[i]
        <3>1. i <= m \/ i = m + 1
            BY <2>1, <2>3
        <3> QED
            BY <2>1, <2>2, <3>1
    <2> QED
        BY <2>1, <2>3
<1> HIDE DEF M
<1>10. 0..(n + l) \subseteq M
    <2> DEFINE m == n + l
    <2>1. m \in Nat /\ \A k \in 0..(m - 1) : k \in M => k + 1 \in M
        BY <1>2, <1>9
    <2> HIDE DEF m
    <2>2. 0..m \subseteq M
        BY <1>8, <2>1, Induction
    <2> QED
        BY <2>2 DEF m
<1>11. n + l \in M
    BY <1>2, <1>10
<1>12. \A i \in 1..(n + l) : byte[i] = w[i]
    BY <1>2, <1>11 DEF M
<1>13. ASSUME NEW i \in 1..l PROVE byte[n + i] = output[n - d + ((i - 1) % d) + 1]
    <2> DEFINE j == n + i
    <2>1. j \in (n + 1)..(n + l) /\ j \in 1..(n + l) /\ ~(j <= n) /\ j - n - 1 = i - 1
        BY <1>2
    <2> HIDE DEF j
    <2>2. byte[j] = w[j] /\ w[j] = output[From(j)]
        BY <1>12, <2>1 DEF w
    <2>3. From(j) = n - d + ((i - 1) % d) + 1
        BY <2>1 DEF From
    <2> QED
        BY <2>2, <2>3 DEF j
<1>14. [i \in 1..l |-> byte[n + i]] = [i \in 1..l |-> output[n - d + ((i - 1) % d) + 1]]
    BY <1>13
<1>15. Copy(l, d) = [i \in 1..l |-> output[n - d + ((i - 1) % d) + 1]]
    BY DEF Copy, n
<1> QED
    BY <1>1, <1>14, <1>15 DEF l, d

----------------------------------------------------------------------------
(* Where decompress is in a block *)

(* Where decompress is in a block that begins at i, when done has come     *)
(* before it, and last says whether it is the last one.                    *)
InLengths(block, i) ==
    \E r \in 0..Len(block.runs) :
        /\ at = RunEnds(block, i)[r] /\ (r # 0 => table.lengths # <<>>)
        /\ table.literals = block.literals /\ table.distances = block.distances
        /\ table.codes = FromLengths(block.codes) /\ table.lengths = Unrunned(block.runs)[r]
InSymbols(block, i, done) ==
    /\ Len(LiteralsOf(block)) \in Nat /\ Len(DistancesOf(block)) \in Nat
    /\ trees.literals = FromLengths(LiteralsOf(block))
    /\ trees.distances = FromLengths(DistancesOf(block))
    /\ \E m \in 0..Len(block.items) : at = ItemEnds(block, i)[m] /\ output = Played(done, block.items)[m]
InBlock(block, i, done, last) ==
    /\ i \in Nat
    /\ mode # "block" => final = last
    /\ mode # "symbol" => output = done
    /\ mode = "block" => at = i
    /\ mode = "stored" => block.kind = "stored" /\ at = i + 3
    /\ mode = "table" => block.kind = "dynamic" /\ at = i + 3
    /\ mode = "lengths" => block.kind = "dynamic" /\ InLengths(block, i)
    /\ mode = "symbol" => block.kind # "stored" /\ InSymbols(block, i, done)

(* The alphabets of a fixed block *)
LEMMA FixedLengths == Len(FixedLiterals) \in Nat /\ Len(FixedDistances) \in Nat
<1> DEFINE m == 288
           k == 32
<1>1. m \in Nat /\ FixedLiterals \in [1..m -> Nat]
    BY DEF FixedLiterals
<1>2. k \in Nat /\ FixedDistances \in [1..k -> Nat]
    BY DEF FixedDistances
<1> HIDE DEF FixedLiterals, FixedDistances, m, k
<1> QED
    BY <1>1, <1>2, FunctionLength

(* The beginning of a block *)
LEMMA ReadBlockReads ==
    ASSUME InflateInv, NEW f, Begins(data, f), NEW block, NEW i, NEW done, NEW last \in BOOLEAN,
           HoldsBlock(f, base, i, block, done, last), InBlock(block, i, done, last), ReadBlock
    PROVE  \/ mode' = "error" /\ data # f
           \/ mode' \in {"stored", "table", "symbol"} /\ InBlock(block, i, done, last)'
<1> DEFINE b == IF last THEN 1 ELSE 0
           bits == <<b>> \o KindBits(block.kind)
           kind == Field(1, 2)
<1>1. BitsInv /\ at = i /\ i \in Nat /\ output = done /\ mode = "block" /\ at + 0 = at /\ base \in Nat
    BY DEF InflateInv, BitsInv, InBlock, ReadBlock
<1>2. /\ block.kind \in {"stored", "fixed", "dynamic"}
      /\ Stands(f, base, i, bits)
      /\ block.kind # "stored" => HoldsItems(f, base, i, block, done)
    BY DEF HoldsBlock
<1>3. Len(bits) = 3 /\ bits[1] = b /\ bits[2] = KindBits(block.kind)[1] /\ bits[3] = KindBits(block.kind)[2]
    <2> DEFINE s == <<b>>
               t == KindBits(block.kind)
    <2>1. s \in Seq(Nat) /\ Len(s) = 1 /\ s[1] = b
        OBVIOUS
    <2>2. t \in Seq(Nat) /\ Len(t) = 2
        BY DEF KindBits
    <2> HIDE DEF s, t
    <2>3. /\ Len(s \o t) = Len(s) + Len(t)
          /\ \A k \in 1..Len(s) : (s \o t)[k] = s[k]
          /\ \A k \in 1..Len(t) : (s \o t)[Len(s) + k] = t[k]
        BY <2>1, <2>2, Joined
    <2>4. Len(s \o t) = 3 /\ (s \o t)[1] = s[1] /\ (s \o t)[1 + 1] = t[1] /\ (s \o t)[1 + 2] = t[2]
        BY <2>1, <2>2, <2>3
    <2> QED
        BY <2>1, <2>4 DEF s, t
<1> HIDE DEF bits
<1>4. CASE ~Has(3)
    <2>1. 8 * base + at + 3 <= 8 * Len(f)
        BY <1>1, <1>2, <1>3 DEF Stands
    <2>2. 3 \in Nat
        OBVIOUS
    <2>3. data # f
        BY <1>1, <1>4, <2>1, <2>2, Short
    <2>4. mode' = "error"
        BY <1>4 DEF ReadBlock, Refuse
    <2> QED
        BY <2>3, <2>4
<1>5. CASE Has(3)
    <2>1. Bit(0) = bits[1] /\ Bit(1) = bits[2] /\ Bit(2) = bits[3]
        <3> DEFINE z == 0
        <3>1. Stands(f, base, at + z, bits) /\ Len(bits) \in Nat /\ z \in Nat
            BY <1>1, <1>2, <1>3
        <3> HIDE DEF z
        <3>2. ASSUME NEW k \in 1..Len(bits), Has(z + k) PROVE Bit(z + k - 1) = bits[k]
            BY <1>1, <3>1, <3>2, BitsStand
        <3>3. Has(1) /\ Has(2)
            <4>1. BitsLeft \in Int /\ BitsLeft >= 3
                BY <1>1, <1>5, BitsThere
            <4>2. BitsLeft >= 1 /\ BitsLeft >= 2
                BY <4>1
            <4> QED
                BY <1>1, <4>2, BitsThere
        <3>4. 1 \in 1..Len(bits) /\ 2 \in 1..Len(bits) /\ 3 \in 1..Len(bits)
            BY <1>3
        <3>5. z + 1 = 1 /\ z + 2 = 2 /\ z + 3 = 3 /\ z + 1 - 1 = 0 /\ z + 2 - 1 = 1 /\ z + 3 - 1 = 2
            BY DEF z
        <3> QED
            BY <1>5, <3>2, <3>3, <3>4, <3>5
    <2>2. kind = Bit(1) + 2 * Bit(2)
        BY <1>1, <1>5, TwoBits
    <2>3. \/ block.kind = "stored" /\ kind = 0
          \/ block.kind = "fixed" /\ kind = 1
          \/ block.kind = "dynamic" /\ kind = 2
        <3>1. KindBits("stored") = <<0, 0>> /\ KindBits("fixed") = <<1, 0>> /\ KindBits("dynamic") = <<0, 1>>
            BY DEF KindBits
        <3> QED
            BY <1>2, <1>3, <2>1, <2>2, <3>1
    <2>4. (Bit(0) = 1) = last
        BY <1>3, <2>1
    <2> HIDE DEF kind
    <2>5. /\ final' = last /\ at' = i + 3 /\ output' = done
          /\ mode' = <<"stored", "symbol", "table">>[kind + 1]
          /\ trees' = IF kind = 1 THEN FixedTrees ELSE NoTrees
        BY <1>1, <1>5, <2>3, <2>4 DEF ReadBlock, kind
    <2>6. CASE block.kind # "fixed"
        <3>1. \/ block.kind = "stored" /\ mode' = "stored"
              \/ block.kind = "dynamic" /\ mode' = "table"
            BY <2>3, <2>5, <2>6
        <3> QED
            BY <1>1, <2>5, <3>1 DEF InBlock
    <2>7. CASE block.kind = "fixed"
        <3>1. mode' = "symbol" /\ trees' = FixedTrees
            BY <2>3, <2>5, <2>7
        <3>2. FixedTrees.literals = FromLengths(LiteralsOf(block)) /\ FixedTrees.distances = FromLengths(DistancesOf(block))
            BY <2>7 DEF FixedTrees, LiteralsOf, DistancesOf
        <3>3. Len(block.items) \in Nat
            BY <1>2, <2>7 DEF HoldsItems
        <3>4. Played(done, block.items)[0] = done
            BY <3>3, PlayedUnfolds
        <3>5. ItemEnds(block, i)[0] = i + 3
            <4>1. ItemEnds(block, i) = Offsets(i + 3, Len(block.items),
                         [k \in 1..Len(block.items) |-> Len(ItemBits(block.items[k], LiteralsOf(block), DistancesOf(block)))])
                BY <2>7 DEF ItemEnds
            <4> DEFINE sizes == [k \in 1..Len(block.items) |-> Len(ItemBits(block.items[k], LiteralsOf(block), DistancesOf(block)))]
                       count == Len(block.items)
                       first == i + 3
            <4> HIDE DEF sizes, first, count
            <4>2. Offsets(first, count, sizes)[0] = first
                BY <3>3, OffsetsUnfold DEF count
            <4> QED
                BY <4>1, <4>2 DEF sizes, first, count
        <3>6. 0 \in 0..Len(block.items)
            BY <3>3
        <3>8. Len(LiteralsOf(block)) \in Nat /\ Len(DistancesOf(block)) \in Nat
            BY <2>7, FixedLengths DEF LiteralsOf, DistancesOf
        <3>7. InSymbols(block, i, done)'
            BY <3>8, <2>5, <3>1, <3>2, <3>4, <3>5, <3>6 DEF InSymbols
        <3> QED
            BY <1>1, <2>5, <2>7, <3>1, <3>7 DEF InBlock
    <2> QED
        BY <2>6, <2>7
<1> QED
    BY <1>4, <1>5

(* The end of a block, and what has been written by then *)
After(block, done) ==
    IF block.kind = "stored" THEN done \o block.bytes ELSE Played(done, block.items)[Len(block.items)]
Leaves(block, i, done, last) ==
    /\ mode' = IF last THEN "done" ELSE "block"
    /\ at' = BlockEnd(block, i) /\ output' = After(block, done)

(* decompress, block type 0: a stored block is copied, or it is cut. *)
LEMMA StoredReads ==
    ASSUME InflateInv, NEW f \in Seq(Nat), Begins(data, f), NEW block, NEW i, NEW done, NEW last \in BOOLEAN,
           HoldsBlock(f, base, i, block, done, last), InBlock(block, i, done, last), Stored
    PROVE  \/ mode' = "error" /\ data # f
           \/ Leaves(block, i, done, last)
<1> DEFINE start == Aligned - at
           length == Field(start, 16)
           first == (Aligned + 32) \div 8
           a == StoredAt(i) \div 8
           m == Len(block.bytes)
           bytes == [j \in 1..length |-> Byte(base + first + j - 1)]
<1>1. /\ BitsInv /\ base \in Nat /\ at \in Nat /\ i \in Nat /\ at = i + 3 /\ output = done /\ final = last
      /\ Len(data) \in Nat /\ Len(f) \in Nat /\ block.kind = "stored" /\ HoldsStored(f, base, i, block)
    BY LenProperties DEF InflateInv, BitsInv, InBlock, Stored, HoldsBlock
<1>2. a \in Nat /\ StoredAt(i) = 8 * a /\ Aligned = 8 * a /\ 8 * a >= at
    BY <1>1 DEF StoredAt, Aligned
<1>3. /\ m \in Nat /\ m < 2^16 /\ base + a + 4 + m <= Len(f)
      /\ Stands(f, base, StoredAt(i), Number(m, 16) \o Number(2^16 - 1 - m, 16))
      /\ block.bytes = SubSeq(f, base + a + 4 + 1, base + a + 4 + m)
    BY <1>1 DEF HoldsStored
<1> HIDE DEF a, m
<1>4. start \in Nat /\ at + start = 8 * a /\ first = a + 4
    BY <1>1, <1>2
<1>5. Stands(f, base, at + start, Number(m, 16)) /\ 8 * base + at + start + 32 <= 8 * Len(f)
    <2> DEFINE s == Number(m, 16)
               t == Number(2^16 - 1 - m, 16)
    <2>1. m \in Nat /\ 2^16 - 1 - m \in Nat /\ 16 \in 0..16
        BY <1>3
    <2>2. s \in Seq(Nat) /\ Len(s) = 16
        BY <2>1, NumberIs
    <2>3. t \in Seq(Nat) /\ Len(t) = 16
        BY <2>1, NumberIs
    <2> HIDE DEF s, t, start
    <2>4. Stands(f, base, 8 * a, s \o t)
        BY <1>2, <1>3 DEF s, t
    <2>5. Stands(f, base, 8 * a, s)
        <3>1. 8 * a \in Nat
            BY <1>2
        <3> DEFINE p == 8 * a
        <3> HIDE DEF p
        <3>2. Stands(f, base, p, s \o t) /\ p \in Nat
            BY <2>4, <3>1 DEF p
        <3>3. Stands(f, base, p, s)
            BY <1>1, <2>2, <2>3, <3>2, StandsJoined
        <3> QED
            BY <3>3 DEF p
    <2>6. Len(s \o t) = 32
        <3>1. Len(s \o t) = Len(s) + Len(t)
            BY <2>2, <2>3, Joined
        <3> QED
            BY <2>2, <2>3, <3>1
    <2>7. 8 * base + 8 * a + 32 <= 8 * Len(f)
        BY <2>4, <2>6 DEF Stands
    <2> QED
        BY <1>1, <1>2, <1>4, <2>5, <2>7 DEF s
<1> HIDE DEF start
<1>6. CASE ~Has(start + 32)
    <2>1. start + 32 \in Nat /\ 8 * base + at + (start + 32) <= 8 * Len(f)
        BY <1>1, <1>4, <1>5
    <2>2. data # f
        BY <1>1, <1>6, <2>1, Short
    <2>3. mode' = "error"
        BY <1>6 DEF Stored, Refuse, start
    <2> QED
        BY <2>2, <2>3
<1>7. ASSUME Has(start + 32) PROVE length = m
    <2>1. Has(start + 16) /\ 16 \in 0..16
        BY <1>1, <1>4, <1>7, BitsThere
    <2> QED
        BY <1>1, <1>3, <1>4, <1>5, <2>1, FieldReads
<1> HIDE DEF length
<1>8. CASE Has(start + 32) /\ ~Has(start + 32 + 8 * length)
    <2>1. length = m
        BY <1>7, <1>8
    <2>2. start + 32 + 8 * m \in Nat /\ 8 * base + at + (start + 32 + 8 * m) <= 8 * Len(f)
        BY <1>1, <1>2, <1>3, <1>4
    <2>3. ~Has(start + 32 + 8 * m)
        BY <1>8, <2>1
    <2> DEFINE n == start + 32 + 8 * m
    <2>4. n \in Nat /\ ~Has(n) /\ 8 * base + at + n <= 8 * Len(f)
        BY <2>2, <2>3
    <2> HIDE DEF n
    <2>5. data # f
        BY <1>1, <2>4, Short
    <2>6. mode' = "error"
        BY <1>8 DEF Stored, Refuse, start, length
    <2> QED
        BY <2>5, <2>6
<1>9. CASE Has(start + 32) /\ Has(start + 32 + 8 * length)
    <2>1. length = m
        BY <1>7, <1>9
    <2>2. output' = output \o bytes /\ at' = 8 * (first + length) /\ mode' = EndOfBlock
        BY <1>9 DEF Stored, start, length
    <2>3. base + a + 4 + m <= Len(data)
        <3>1. BitsLeft >= start + 32 + 8 * m
            BY <1>1, <1>9, <2>1, BitsThere
        <3>2. 8 * (Len(data) - base) - at >= start + 32 + 8 * m
            BY <3>1 DEF BitsLeft
        <3> QED
            BY <1>1, <1>2, <1>3, <1>4, <3>2
    <2> HIDE DEF first
    <2>4. bytes = block.bytes
        <3> DEFINE p == base + a + 4
                   q == base + a + 4 + m
                   part == SubSeq(f, p + 1, q)
        <3>1. p \in Nat /\ q \in Nat /\ q = p + m /\ p + 1 \in Int /\ q \in Int /\ q <= Len(data) /\ m \in Nat
              /\ q <= Len(f) /\ base + first = p
            BY <1>1, <1>2, <1>3, <1>4, <2>3
        <3>2. block.bytes = part
            BY <1>3
        <3> HIDE DEF p, q
        <3>3. \A j \in (p + 1)..q : f[j] \in Nat
            <4>1. \A j \in (p + 1)..q : j \in 1..Len(f)
                BY <3>1, <1>1
            <4> QED
                BY <4>1, ElementOfSeq
        <3>4. /\ part \in Seq(Nat)
              /\ Len(part) = IF p + 1 <= q THEN q - (p + 1) + 1 ELSE 0
              /\ \A j \in 1..(q - (p + 1) + 1) : part[j] = f[p + 1 + j - 1]
            BY <3>1, <3>3, SubSeqProperties
        <3>5. Len(part) = m /\ q - (p + 1) + 1 = m
            BY <3>1, <3>4
        <3>6. ASSUME NEW j \in 1..m PROVE part[j] = Byte(base + first + j - 1)
            <4>1. part[j] = f[p + j]
                BY <3>1, <3>4, <3>5
            <4>2. p + j \in 1..Len(data) /\ base + first + j - 1 + 1 = p + j
                BY <3>1, <1>1
            <4>3. Byte(base + first + j - 1) = data[p + j]
                BY <4>2 DEF Byte
            <4> QED
                BY <4>1, <4>2, <4>3 DEF Begins
        <3>7. part = [j \in 1..m |-> part[j]]
            <4>1. DOMAIN part = 1..m
                BY <3>4, <3>5, LenProperties
            <4>2. part \in [1..m -> Nat]
                BY <3>4, <3>5, <4>1, LenProperties
            <4> HIDE DEF part
            <4> QED
                BY <4>2
        <3>8. bytes = [j \in 1..m |-> Byte(base + first + j - 1)]
            BY <2>1
        <3> HIDE DEF bytes, part
        <3> QED
            BY <3>2, <3>6, <3>7, <3>8
    <2>5. at' = BlockEnd(block, i)
        <3>1. BlockEnd(block, i) = StoredAt(i) + 32 + 8 * m
            BY <1>1 DEF BlockEnd, m
        <3> QED
            BY <1>2, <1>3, <1>4, <2>1, <2>2, <3>1
    <2>6. output' = After(block, done)
        <3> HIDE DEF bytes
        <3> QED
            BY <1>1, <2>2, <2>4 DEF After
    <2> QED
        BY <1>1, <2>2, <2>5, <2>6 DEF Leaves, EndOfBlock
<1> QED
    BY <1>6, <1>8, <1>9

----------------------------------------------------------------------------
(* The table of a block *)

(* Every length has its place in the order. *)
LEMMA Placed ==
    ASSUME NEW s \in 0..18
    PROVE  \E q \in 1..19 : CodelenOrder[q] = s
<1> DEFINE Has1(t) == \E q \in 1..19 : CodelenOrder[q] = t
<1>1. /\ CodelenOrder[1] = 16 /\ CodelenOrder[2] = 17 /\ CodelenOrder[3] = 18 /\ CodelenOrder[4] = 0
      /\ CodelenOrder[5] = 8 /\ CodelenOrder[6] = 7 /\ CodelenOrder[7] = 9 /\ CodelenOrder[8] = 6
      /\ CodelenOrder[9] = 10 /\ CodelenOrder[10] = 5 /\ CodelenOrder[11] = 11 /\ CodelenOrder[12] = 4
      /\ CodelenOrder[13] = 12 /\ CodelenOrder[14] = 3 /\ CodelenOrder[15] = 13 /\ CodelenOrder[16] = 2
      /\ CodelenOrder[17] = 14 /\ CodelenOrder[18] = 1 /\ CodelenOrder[19] = 15
    BY DEF CodelenOrder
<1>2. ASSUME NEW q \in 1..19, NEW t, CodelenOrder[q] = t PROVE Has1(t)
    BY <1>2
<1> HIDE DEF Has1
<1>3. /\ Has1(16) /\ Has1(17) /\ Has1(18) /\ Has1(0) /\ Has1(8) /\ Has1(7) /\ Has1(9) /\ Has1(6)
      /\ Has1(10) /\ Has1(5) /\ Has1(11) /\ Has1(4) /\ Has1(12) /\ Has1(3) /\ Has1(13) /\ Has1(2)
      /\ Has1(14) /\ Has1(1) /\ Has1(15)
    <2>1. /\ 1 \in 1..19 /\ 2 \in 1..19 /\ 3 \in 1..19 /\ 4 \in 1..19 /\ 5 \in 1..19 /\ 6 \in 1..19
          /\ 7 \in 1..19 /\ 8 \in 1..19 /\ 9 \in 1..19 /\ 10 \in 1..19 /\ 11 \in 1..19 /\ 12 \in 1..19
          /\ 13 \in 1..19 /\ 14 \in 1..19 /\ 15 \in 1..19 /\ 16 \in 1..19 /\ 17 \in 1..19 /\ 18 \in 1..19
          /\ 19 \in 1..19
        OBVIOUS
    <2> QED
        BY <1>1, <1>2, <2>1
<1>4. s \in {0, 1, 2, 3, 4, 5, 6, 7, 8, 9, 10, 11, 12, 13, 14, 15, 16, 17, 18}
    OBVIOUS
<1>5. Has1(s)
    BY <1>3, <1>4
<1> QED
    BY <1>5 DEF Has1

(* The sizes of a table are within their bounds. *)
LEMMA TableSizes ==
    ASSUME NEW block, IsTable(block)
    PROVE  /\ block.literals \in Int /\ block.literals >= 257 /\ block.literals < 289
           /\ block.distances \in Int /\ block.distances >= 1 /\ block.distances < 33
           /\ block.count \in Int /\ block.count >= 4 /\ block.count < 20
           /\ Len(block.runs) \in Nat
<1>1. block.literals \in 257..288
    BY DEF IsTable
<1>2. block.distances \in 1..32
    BY DEF IsTable
<1>3. block.count \in 4..19
    BY DEF IsTable
<1>4. Len(block.runs) \in Nat
    BY DEF IsTable
<1>5. block.literals \in Int /\ block.literals >= 257 /\ block.literals < 289
    BY <1>1
<1>6. block.distances \in Int /\ block.distances >= 1 /\ block.distances < 33
    BY <1>2
<1>7. block.count \in Int /\ block.count >= 4 /\ block.count < 20
    BY <1>3
<1> QED
    BY <1>4, <1>5, <1>6, <1>7

(* The sizes of the alphabets are read as they stand. *)
LEMMA TableReads ==
    ASSUME BitsInv, NEW f, Begins(data, f), Len(f) \in Nat, NEW block, IsTable(block),
           Stands(f, base, at, TableBits(block))
    PROVE  /\ 8 * base + at + 14 <= 8 * Len(f)
           /\ Has(14) => /\ Field(0, 5) = block.literals - 257 /\ Field(5, 5) = block.distances - 1
                         /\ Field(10, 4) = block.count - 4
<1> DEFINE x == block.literals - 257
           y == block.distances - 1
           z == block.count - 4
           s == Number(x, 5)
           t == Number(y, 5)
           u == Number(z, 4)
<1>1. x \in Nat /\ x < 2^5 /\ y \in Nat /\ y < 2^5 /\ z \in Nat /\ z < 2^4
    <2>1. block.literals \in Int /\ block.literals >= 257 /\ block.literals < 289
        BY TableSizes
    <2>2. block.distances \in Int /\ block.distances >= 1 /\ block.distances < 33
        BY TableSizes
    <2>3. block.count \in Int /\ block.count >= 4 /\ block.count < 20
        BY TableSizes
    <2>4. x \in Nat /\ x < 32
        BY <2>1
    <2>5. y \in Nat /\ y < 32
        BY <2>2
    <2>6. z \in Nat /\ z < 16
        BY <2>3
    <2>7. 2^5 = 32 /\ 2^4 = 16
        OBVIOUS
    <2> HIDE DEF x, y, z
    <2> QED
        BY <2>4, <2>5, <2>6, <2>7
<1>2. TableBits(block) = (s \o t) \o u
    BY DEF TableBits
<1> HIDE DEF x, y, z
<1>3. 5 \in 0..16 /\ 4 \in 0..16
    OBVIOUS
<1>4. s \in Seq(Nat) /\ Len(s) = 5 /\ t \in Seq(Nat) /\ Len(t) = 5 /\ u \in Seq(Nat) /\ Len(u) = 4
    <2>1. s \in Seq(Nat) /\ Len(s) = 5
        BY <1>1, <1>3, NumberIs
    <2>2. t \in Seq(Nat) /\ Len(t) = 5
        BY <1>1, <1>3, NumberIs
    <2>3. u \in Seq(Nat) /\ Len(u) = 4
        BY <1>1, <1>3, NumberIs
    <2> QED
        BY <2>1, <2>2, <2>3
<1> HIDE DEF s, t, u
<1>5. at \in Nat /\ base \in Nat
    BY DEF BitsInv
<1>6. s \o t \in Seq(Nat) /\ Len(s \o t) = 10 /\ Len((s \o t) \o u) = 14
    <2> DEFINE v == s \o t
    <2>1. v \in Seq(Nat) /\ Len(v) = Len(s) + Len(t)
        BY <1>4, Joined
    <2>2. Len(v) = 10
        BY <1>4, <2>1
    <2> HIDE DEF v
    <2>3. Len(v \o u) = Len(v) + Len(u)
        BY <1>4, <2>1, Joined
    <2>4. Len(v \o u) = 14
        BY <1>4, <2>2, <2>3
    <2> QED
        BY <2>1, <2>2, <2>4 DEF v
<1>7. Stands(f, base, at, s \o t) /\ Stands(f, base, at + 10, u)
    <2> DEFINE v == s \o t
    <2>1. v \in Seq(Nat) /\ Len(v) = 10 /\ Stands(f, base, at, v \o u)
        BY <1>2, <1>6
    <2> HIDE DEF v
    <2>2. Stands(f, base, at, v) /\ Stands(f, base, at + Len(v), u)
        BY <1>4, <1>5, <2>1, StandsJoined
    <2> QED
        BY <2>1, <2>2 DEF v
<1>8. Stands(f, base, at, s) /\ Stands(f, base, at + 5, t)
    <2>1. Stands(f, base, at, s) /\ Stands(f, base, at + Len(s), t)
        BY <1>4, <1>5, <1>7, StandsJoined
    <2> QED
        BY <1>4, <2>1
<1>9. 8 * base + at + 14 <= 8 * Len(f)
    BY <1>2, <1>6 DEF Stands
<1>10. ASSUME Has(14) PROVE Field(0, 5) = x /\ Field(5, 5) = y /\ Field(10, 4) = z
    <2> DEFINE o == 0
               five == 5
               ten == 10
               four == 4
    <2>1. Has(o + five) /\ Has(five + five) /\ Has(ten + four)
        <3>1. BitsLeft \in Int /\ BitsLeft >= 14
            BY <1>10, BitsThere
        <3>2. BitsLeft >= o + five /\ BitsLeft >= five + five /\ BitsLeft >= ten + four
            BY <3>1
        <3> HIDE DEF o, five, ten, four
        <3> QED
            BY <3>2, BitsThere
    <2>2. /\ Stands(f, base, at + o, Number(x, five)) /\ Stands(f, base, at + five, Number(y, five))
          /\ Stands(f, base, at + ten, Number(z, four))
          /\ o \in Nat /\ five \in Nat /\ ten \in Nat /\ five \in 0..16 /\ four \in 0..16
          /\ x < 2^five /\ y < 2^five /\ z < 2^four
        <3>1. at + o = at
            BY <1>5
        <3> QED
            BY <1>1, <1>7, <1>8, <3>1 DEF s, t, u
    <2> HIDE DEF o, five, ten, four
    <2>3. Field(o, five) = x
        BY <1>1, <2>1, <2>2, FieldReads
    <2>4. Field(five, five) = y
        BY <1>1, <2>1, <2>2, FieldReads
    <2>5. Field(ten, four) = z
        BY <1>1, <2>1, <2>2, FieldReads
    <2> QED
        BY <2>3, <2>4, <2>5 DEF o, five, ten, four
<1> QED
    BY <1>9, <1>10 DEF x, y, z

(* The lengths of the codes for lengths are read as they stand, each at    *)
(* its place in CodelenOrder.                                              *)
LEMMA ReadTableReads ==
    ASSUME InflateInv, NEW f, Begins(data, f), Len(f) \in Nat, NEW block, NEW i, NEW done, NEW last \in BOOLEAN,
           HoldsBlock(f, base, i, block, done, last), InBlock(block, i, done, last), ReadTable
    PROVE  \/ mode' = "error" /\ data # f
           \/ mode' = "lengths" /\ InBlock(block, i, done, last)'
<1> DEFINE count == Field(10, 4) + 4
           n == 14 + 3 * count
           place(s) == CHOOSE q \in 1..19 : CodelenOrder[q] = s
           size(j) == IF place(j - 1) <= count THEN Field(14 + 3 * (place(j - 1) - 1), 3) ELSE 0
           sizes == [j \in 1..19 |-> size(j)]
           c == block.count
<1>1. /\ BitsInv /\ at = i + 3 /\ i \in Nat /\ output = done /\ final = last /\ base \in Nat /\ at \in Nat
      /\ block.kind = "dynamic" /\ mode = "table"
    BY DEF InflateInv, BitsInv, InBlock, ReadTable
<1>2. HoldsTable(f, base, i, block)
    BY <1>1 DEF HoldsBlock
<1>3. /\ IsTable(block) /\ Stands(f, base, at, TableBits(block)) /\ c \in 4..19
      /\ \A k \in 1..c : Stands(f, base, CodeAt(i, k), Number(block.codes[CodelenOrder[k] + 1], 3))
    BY <1>1, <1>2 DEF HoldsTable, IsTable
<1>4. /\ 8 * base + at + 14 <= 8 * Len(f)
      /\ Has(14) => /\ Field(0, 5) = block.literals - 257 /\ Field(5, 5) = block.distances - 1
                    /\ Field(10, 4) = c - 4
    BY <1>1, <1>3, TableReads
<1>5. CASE ~Has(14)
    <2>1. data # f
        BY <1>1, <1>4, <1>5, Short
    <2>2. mode' = "error"
        BY <1>5 DEF ReadTable, Refuse
    <2> QED
        BY <2>1, <2>2
<1>6. ASSUME Has(14) PROVE count = c /\ n = 14 + 3 * c
    <2>1. Field(10, 4) = c - 4 /\ c \in Int
        BY <1>3, <1>4, <1>6
    <2>2. count = c
        <3> HIDE DEF c
        <3> QED
            BY <2>1
    <2> HIDE DEF count, c
    <2> QED
        BY <2>2
<1> HIDE DEF c
<1>7. ASSUME NEW k \in 1..c
      PROVE  /\ Stands(f, base, at + (14 + 3 * (k - 1)), Number(block.codes[CodelenOrder[k] + 1], 3))
             /\ block.codes[CodelenOrder[k] + 1] \in 0..7 /\ 14 + 3 * (k - 1) \in Nat
             /\ 8 * base + at + (14 + 3 * k) <= 8 * Len(f)
    <2> DEFINE v == block.codes[CodelenOrder[k] + 1]
    <2>1. k \in 1..19
        BY <1>3
    <2>2. CodelenOrder[k] + 1 \in 1..19
        <3>1. CodelenOrder[k] \in 0..18
            <4>1. k \in {1, 2, 3, 4, 5, 6, 7, 8, 9, 10, 11, 12, 13, 14, 15, 16, 17, 18, 19}
                BY <2>1
            <4> QED
                BY <4>1 DEF CodelenOrder
        <3> QED
            BY <3>1
    <2>3. v \in 0..7
        <3> DEFINE j == CodelenOrder[k] + 1
        <3>1. block.codes \in [1..19 -> 0..7]
            BY <1>3 DEF IsTable
        <3>2. j \in 1..19
            BY <2>2
        <3> HIDE DEF j
        <3>3. block.codes[j] \in 0..7
            BY <3>1, <3>2
        <3> QED
            BY <3>3 DEF j
    <2>4. CodeAt(i, k) = at + (14 + 3 * (k - 1)) /\ 14 + 3 * (k - 1) \in Nat
        BY <1>1, <2>1 DEF CodeAt
    <2> HIDE DEF v
    <2>5. Stands(f, base, CodeAt(i, k), Number(v, 3))
        BY <1>3 DEF v
    <2>6. Len(Number(v, 3)) = 3
        <3>1. v \in Nat /\ 3 \in 0..16
            BY <2>3
        <3> QED
            BY <3>1, NumberIs
    <2>7. 8 * base + CodeAt(i, k) + 3 <= 8 * Len(f)
        BY <2>5, <2>6 DEF Stands
    <2>8. 8 * base + at + (14 + 3 * k) <= 8 * Len(f)
        BY <1>1, <2>1, <2>4, <2>7
    <2> QED
        BY <2>3, <2>4, <2>5, <2>8 DEF v
<1>8. CASE Has(14) /\ ~Has(n)
    <2>1. c \in 1..c /\ 14 + 3 * c \in Nat /\ ~Has(14 + 3 * c)
        BY <1>3, <1>6, <1>8
    <2>2. 8 * base + at + (14 + 3 * c) <= 8 * Len(f)
        BY <1>7, <2>1
    <2> DEFINE l == 14 + 3 * c
    <2>3. l \in Nat /\ ~Has(l) /\ 8 * base + at + l <= 8 * Len(f)
        BY <2>1, <2>2
    <2> HIDE DEF l
    <2>4. data # f
        BY <1>1, <2>3, Short
    <2>5. mode' = "error"
        BY <1>8 DEF ReadTable, Refuse
    <2> QED
        BY <2>4, <2>5
<1>9. CASE Has(14) /\ Has(n)
    <2>1. /\ table' = [literals |-> Field(0, 5) + 257, distances |-> Field(5, 5) + 1,
                       codes |-> FromLengths(sizes), lengths |-> <<>>]
          /\ at' = at + 14 + 3 * count /\ mode' = "lengths" /\ output' = output /\ final' = final
        BY <1>9 DEF ReadTable
    <2>2. count = c /\ Has(14 + 3 * c)
        BY <1>6, <1>9
    <2> HIDE DEF count
    <2>3. ASSUME NEW k \in 1..c PROVE Field(14 + 3 * (k - 1), 3) = block.codes[CodelenOrder[k] + 1]
        <3> DEFINE v == block.codes[CodelenOrder[k] + 1]
                   j == 14 + 3 * (k - 1)
                   three == 3
        <3>1. Stands(f, base, at + j, Number(v, three)) /\ v \in Nat /\ v < 2^three /\ j \in Nat /\ three \in 0..16
            <4>1. Stands(f, base, at + j, Number(v, three)) /\ v \in 0..7 /\ j \in Nat
                BY <1>7
            <4>2. 2^three = 8 /\ three \in 0..16
                OBVIOUS
            <4> HIDE DEF v, j, three
            <4> QED
                BY <4>1, <4>2
        <3>2. Has(j + three)
            <4>1. BitsLeft \in Int /\ BitsLeft >= 14 + 3 * c
                BY <1>1, <2>2, BitsThere
            <4>2. BitsLeft >= j + three
                BY <1>3, <4>1
            <4> HIDE DEF j, three
            <4> QED
                BY <1>1, <4>2, BitsThere
        <3> HIDE DEF v, j, three
        <3>3. Field(j, three) = v
            BY <1>1, <3>1, <3>2, FieldReads
        <3> QED
            BY <3>3 DEF v, j, three
    <2>4. ASSUME NEW j \in 1..19 PROVE size(j) = block.codes[j]
        <3> DEFINE p == place(j - 1)
        <3>1. p \in 1..19 /\ CodelenOrder[p] = j - 1
            <4>1. j - 1 \in 0..18
                OBVIOUS
            <4> QED
                BY <4>1, Placed
        <3> HIDE DEF p
        <3>2. block.codes[CodelenOrder[p] + 1] = block.codes[j]
            BY <3>1
        <3>3. size(j) = IF p <= c THEN Field(14 + 3 * (p - 1), 3) ELSE 0
            BY <2>2 DEF p
        <3>4. CASE p <= c
            <4>1. p \in 1..c
                BY <1>3, <3>1, <3>4
            <4> QED
                BY <2>3, <3>2, <3>3, <3>4, <4>1
        <3>5. CASE ~(p <= c)
            <4>1. p \in (c + 1)..19
                BY <1>3, <3>1, <3>5
            <4>2. block.codes[CodelenOrder[p] + 1] = 0
                BY <1>3, <4>1 DEF IsTable, c
            <4> QED
                BY <3>2, <3>3, <3>5, <4>2
        <3> QED
            BY <3>4, <3>5
    <2>5. sizes = block.codes
        <3>1. block.codes \in [1..19 -> 0..7]
            BY <1>3 DEF IsTable
        <3>2. block.codes = [j \in 1..19 |-> block.codes[j]]
            BY <3>1
        <3> HIDE DEF size
        <3> QED
            BY <2>4, <3>2
    <2> HIDE DEF sizes
    <2>6. /\ table'.literals = block.literals /\ table'.distances = block.distances
          /\ table'.codes = FromLengths(block.codes) /\ table'.lengths = <<>>
        <3>1. block.literals \in Int /\ block.distances \in Int
            BY <1>3, TableSizes
        <3>2. Field(0, 5) + 257 = block.literals /\ Field(5, 5) + 1 = block.distances
            BY <1>4, <1>9, <3>1
        <3> QED
            BY <2>1, <2>5, <3>2
    <2>7. Len(block.runs) \in Nat
        BY <1>3 DEF IsTable
    <2>8. at' = RunEnds(block, i)[0]
        <3> DEFINE pieces == [k \in 1..Len(block.runs) |-> Len(RunPiece(block.runs[k], block.codes))]
                   first == CodeAt(i, c + 1)
                   m == Len(block.runs)
        <3>1. RunEnds(block, i) = Offsets(first, m, pieces)
            BY DEF RunEnds, c
        <3>2. at' = first
            BY <1>1, <1>3, <2>1, <2>2 DEF CodeAt
        <3> HIDE DEF pieces, first, m
        <3>3. Offsets(first, m, pieces)[0] = first
            BY <2>7, OffsetsUnfold DEF m
        <3> QED
            BY <3>1, <3>2, <3>3
    <2>9. table'.lengths = Unrunned(block.runs)[0] /\ 0 \in 0..Len(block.runs)
        BY <2>6, <2>7, UnrunnedUnfolds
    <2>10. InLengths(block, i)'
        BY <2>6, <2>8, <2>9 DEF InLengths
    <2> QED
        BY <1>1, <2>1, <2>10 DEF InBlock
<1> QED
    BY <1>5, <1>8, <1>9

(* How many bits follow a symbol of that alphabet *)
LEMMA RunBitsAre == ASSUME NEW s PROVE RunBits(s) \in {0, 2, 3, 7} /\ RunBits(s) \in 0..16
<1>1. RunBits(s) \in {0, 2, 3, 7}
    BY DEF RunBits
<1> HIDE DEF RunBits
<1> QED
    BY <1>1

(* The run that the code adds is the one that the format means. *)
LEMMA RepeatsRun ==
    ASSUME table.lengths \in Seq(Nat), NEW run, run[1] \in Nat, run[2] \in 0..(2^RunBits(run[1]) - 1),
           run[1] = 16 => table.lengths # <<>>,
           NEW repeat, repeat = Repeat(run[1])
    PROVE  /\ repeat.bits = RunBits(run[1])
           /\ table.lengths \o [j \in 1..(repeat.least + run[2]) |-> repeat.of] = Unrun(table.lengths, run)
           /\ repeat.least \in Nat \ {0} /\ run[2] \in Nat /\ repeat.of \in Nat
<1> DEFINE v == run[2]
<1>1. CASE run[1] = 16
    <2>1. repeat = [of |-> Last(table.lengths), least |-> 3, bits |-> 2]
        BY <1>1, EmptySeq DEF Repeat
    <2>2. repeat.of = Last(table.lengths) /\ repeat.least = 3 /\ repeat.bits = 2
        BY <2>1
    <2>3. RunBits(run[1]) = 2
        BY <1>1 DEF RunBits
    <2>4. Unrun(table.lengths, run) = table.lengths \o [j \in 1..(v + 3) |-> Last(table.lengths)]
        <3> DEFINE done == table.lengths
                   last == Last(done)
        <3>1. Unrun(done, run) = done \o [j \in 1..(run[2] + 3) |-> last]
            <4> HIDE DEF done
            <4> QED
                BY <1>1 DEF Unrun
        <3> QED
            BY <3>1
    <2>5. v \in Nat /\ 3 + v = v + 3
        <3>1. v \in 0..(2^2 - 1)
            BY <2>3
        <3> HIDE DEF v
        <3> QED
            BY <3>1
    <2>6. Last(table.lengths) \in Nat
        <3> DEFINE l == Len(table.lengths)
        <3>1. l \in Nat /\ l # 0
            BY <1>1, EmptySeq, LenProperties
        <3>2. l \in 1..l
            BY <3>1
        <3>3. table.lengths[l] \in Nat
            BY <3>2, ElementOfSeq
        <3> QED
            BY <3>3 DEF Last
    <2> HIDE DEF v
    <2>7. table.lengths \o [j \in 1..(repeat.least + v) |-> repeat.of] = Unrun(table.lengths, run)
        BY <2>2, <2>4, <2>5
    <2>8. repeat.bits = RunBits(run[1]) /\ repeat.least \in Nat \ {0} /\ repeat.of \in Nat
        BY <2>2, <2>3, <2>6
    <2>9. run[2] \in Nat
        BY <2>5 DEF v
    <2> QED
        BY <2>7, <2>8, <2>9 DEF v
<1>2. CASE run[1] = 17
    <2>1. repeat = [of |-> 0, least |-> 3, bits |-> 3]
        BY <1>2 DEF Repeat
    <2>2. repeat.of = 0 /\ repeat.least = 3 /\ repeat.bits = 3
        BY <2>1
    <2>3. RunBits(run[1]) = 3
        BY <1>2 DEF RunBits
    <2>4. Unrun(table.lengths, run) = table.lengths \o [j \in 1..(v + 3) |-> 0]
        BY <1>2 DEF Unrun
    <2>5. v \in Nat /\ 3 + v = v + 3
        <3>1. v \in 0..(2^3 - 1)
            BY <2>3
        <3> HIDE DEF v
        <3> QED
            BY <3>1
    <2>6. 0 \in Nat
        OBVIOUS
    <2> HIDE DEF v
    <2>7. table.lengths \o [j \in 1..(repeat.least + v) |-> repeat.of] = Unrun(table.lengths, run)
        BY <2>2, <2>4, <2>5
    <2>8. repeat.bits = RunBits(run[1]) /\ repeat.least \in Nat \ {0} /\ repeat.of \in Nat
        BY <2>2, <2>3, <2>6
    <2>9. run[2] \in Nat
        BY <2>5 DEF v
    <2> QED
        BY <2>7, <2>8, <2>9 DEF v
<1>3. CASE run[1] = 18
    <2>1. repeat = [of |-> 0, least |-> 11, bits |-> 7]
        BY <1>3 DEF Repeat
    <2>2. repeat.of = 0 /\ repeat.least = 11 /\ repeat.bits = 7
        BY <2>1
    <2>3. RunBits(run[1]) = 7
        BY <1>3 DEF RunBits
    <2>4. Unrun(table.lengths, run) = table.lengths \o [j \in 1..(v + 11) |-> 0]
        BY <1>3 DEF Unrun
    <2>5. v \in Nat /\ 11 + v = v + 11
        <3>1. v \in 0..(2^7 - 1)
            BY <2>3
        <3> HIDE DEF v
        <3> QED
            BY <3>1
    <2>6. 0 \in Nat
        OBVIOUS
    <2> HIDE DEF v
    <2>7. table.lengths \o [j \in 1..(repeat.least + v) |-> repeat.of] = Unrun(table.lengths, run)
        BY <2>2, <2>4, <2>5
    <2>8. repeat.bits = RunBits(run[1]) /\ repeat.least \in Nat \ {0} /\ repeat.of \in Nat
        BY <2>2, <2>3, <2>6
    <2>9. run[2] \in Nat
        BY <2>5 DEF v
    <2> QED
        BY <2>7, <2>8, <2>9 DEF v
<1>4. CASE run[1] \notin {16, 17, 18}
    <2>1. repeat = [of |-> run[1], least |-> 1, bits |-> 0]
        BY <1>4 DEF Repeat
    <2>2. repeat.of = run[1] /\ repeat.least = 1 /\ repeat.bits = 0
        BY <2>1
    <2>3. RunBits(run[1]) = 0
        BY <1>4 DEF RunBits
    <2>4. Unrun(table.lengths, run) = Append(table.lengths, run[1])
        BY <1>4 DEF Unrun
    <2>5. v \in Nat /\ 1 + v = 1
        <3>1. v \in 0..(2^0 - 1)
            BY <2>3
        <3> HIDE DEF v
        <3> QED
            BY <3>1
    <2> HIDE DEF v
    <2>6. table.lengths \o [j \in 1..(repeat.least + v) |-> repeat.of] = table.lengths \o [j \in 1..1 |-> run[1]]
        BY <2>2, <2>5
    <2> DEFINE one == [j \in 1..1 |-> run[1]]
               done == table.lengths
               e == run[1]
    <2>7. one \in Seq(Nat) /\ Len(one) = 1 /\ one[1] = e
        <3> DEFINE m == 1
        <3>1. m \in Nat /\ one \in [1..m -> Nat] /\ one[m] = e
            OBVIOUS
        <3> HIDE DEF one, m
        <3>2. one \in Seq(Nat) /\ Len(one) = m
            BY <3>1, FunctionLength
        <3> QED
            BY <3>1, <3>2 DEF m
    <2>8. done \in Seq(Nat) /\ e \in Nat /\ Len(done) \in Nat
        BY LenProperties
    <2> HIDE DEF one, done, e
    <2>9. done \o one = Append(done, e)
        <3>1. /\ done \o one \in Seq(Nat) /\ Len(done \o one) = Len(done) + Len(one)
              /\ \A j \in 1..Len(done) : (done \o one)[j] = done[j]
              /\ \A j \in 1..Len(one) : (done \o one)[Len(done) + j] = one[j]
            BY <2>7, <2>8, Joined
        <3>2. Append(done, e) \in Seq(Nat) /\ Len(Append(done, e)) = Len(done) + 1
              /\ \A j \in 1..Len(done) : Append(done, e)[j] = done[j]
              /\ Append(done, e)[Len(done) + 1] = e
            BY <2>8, AppendProperties
        <3>3. (done \o one)[Len(done) + 1] = e
            BY <2>7, <3>1
        <3>4. \A j \in 1..(Len(done) + 1) : j \in 1..Len(done) \/ j = Len(done) + 1
            BY <2>8
        <3>5. ASSUME NEW j \in 1..(Len(done) + 1) PROVE (done \o one)[j] = Append(done, e)[j]
            <4>1. CASE j \in 1..Len(done)
                BY <3>1, <3>2, <4>1
            <4>2. CASE j = Len(done) + 1
                <5> DEFINE l == Len(done) + 1
                <5>1. (done \o one)[l] = e /\ Append(done, e)[l] = e /\ j = l
                    BY <3>2, <3>3, <4>2
                <5> HIDE DEF l
                <5> QED
                    BY <5>1
            <4> QED
                BY <3>4, <4>1, <4>2
        <3>6. Len(done \o one) = Len(done) + 1
            BY <2>7, <3>1
        <3> QED
            BY <3>1, <3>2, <3>5, <3>6, SeqEqual
    <2>10. table.lengths \o [j \in 1..(repeat.least + v) |-> repeat.of] = Unrun(table.lengths, run)
        BY <2>4, <2>6, <2>9 DEF one, done, e
    <2> QED
        BY <2>2, <2>3, <2>5, <2>10 DEF v
<1> QED
    BY <1>1, <1>2, <1>3, <1>4

(* RunEnds *)
LEMMA RunEndsUnfold ==
    ASSUME NEW block, Len(block.runs) \in Nat, NEW i, NEW k \in 1..Len(block.runs)
    PROVE  RunEnds(block, i)[k] = RunEnds(block, i)[k - 1] + Len(RunPiece(block.runs[k], block.codes))
<1> DEFINE m == Len(block.runs)
           sizes == [j \in 1..m |-> Len(RunPiece(block.runs[j], block.codes))]
           first == CodeAt(i, block.count + 1)
<1>1. RunEnds(block, i) = Offsets(first, m, sizes)
    BY DEF RunEnds
<1>2. sizes[k] = Len(RunPiece(block.runs[k], block.codes)) /\ k \in 1..m /\ m \in Nat
    OBVIOUS
<1> HIDE DEF m, sizes, first
<1>3. Offsets(first, m, sizes)[k] = Offsets(first, m, sizes)[k - 1] + sizes[k]
    BY <1>2, OffsetsUnfold
<1> QED
    BY <1>1, <1>2, <1>3

(* The code for lengths *)
LEMMA CodesAre ==
    ASSUME NEW block, IsTable(block)
    PROVE  Len(block.codes) \in Nat /\ IsPrefixCode(block.codes)
<1> DEFINE m == 19
           T == 0..7
<1>1. m \in Nat /\ block.codes \in [1..m -> T] /\ IsPrefixCode(block.codes)
    BY DEF IsTable
<1> HIDE DEF m, T
<1> QED
    BY <1>1, FunctionLength

(* A run is read as it stands. *)
LEMMA ReadLengthReads ==
    ASSUME InflateInv, NEW f, Begins(data, f), Len(f) \in Nat, NEW block, NEW i, NEW done, NEW last \in BOOLEAN,
           HoldsBlock(f, base, i, block, done, last), InBlock(block, i, done, last), ReadLength
    PROVE  \/ mode' = "error" /\ data # f
           \/ mode' = "lengths" /\ InBlock(block, i, done, last)'
<1> DEFINE o == 0
           tree == table.codes
           code == Decode(tree, Ahead(o))
           repeat == Repeat(code.symbol)
           L == block.codes
<1>1. /\ BitsInv /\ i \in Nat /\ output = done /\ final = last /\ base \in Nat /\ at \in Nat /\ at + o = at
      /\ block.kind = "dynamic" /\ mode = "lengths" /\ InLengths(block, i)
      /\ table.lengths \in Seq(Nat) /\ DOMAIN table = {"literals", "distances", "codes", "lengths"}
      /\ Len(table.lengths) < table.literals + table.distances
    BY DEF InflateInv, BitsInv, TableInv, InBlock, ReadLength
<1>2. HoldsTable(f, base, i, block)
    BY <1>1 DEF HoldsBlock
<1>3. IsTable(block) /\ Len(block.runs) \in Nat /\ Len(L) \in Nat /\ IsPrefixCode(L)
    BY <1>2, TableSizes, CodesAre DEF HoldsTable
<1>4. PICK r \in 0..Len(block.runs) :
        /\ at = RunEnds(block, i)[r] /\ (r # 0 => table.lengths # <<>>)
        /\ table.literals = block.literals /\ table.distances = block.distances
        /\ tree = FromLengths(L) /\ table.lengths = Unrunned(block.runs)[r]
    BY <1>1 DEF InLengths
<1>5. r # Len(block.runs)
    <2>1. SUFFICES ASSUME r = Len(block.runs) PROVE FALSE
        OBVIOUS
    <2>2. table.lengths = LengthsOf(block)
        BY <1>4, <2>1 DEF LengthsOf
    <2>3. Len(LengthsOf(block)) = block.literals + block.distances
        BY <1>3 DEF IsTable
    <2>4. block.literals + block.distances \in Int
        BY <1>3, TableSizes
    <2> DEFINE sum == block.literals + block.distances
    <2>5. sum < sum /\ sum \in Int
        BY <1>1, <1>4, <2>2, <2>3, <2>4
    <2> HIDE DEF sum
    <2> QED
        BY <2>5
<1> DEFINE k == r + 1
           run == block.runs[k]
           s == run[1]
           v == run[2]
           n == L[s + 1]
           bits == RunBits(s)
           p == CodeBits(L, s)
           q == Number(v, bits)
<1>6. k \in 1..Len(block.runs) /\ k - 1 = r /\ k \in 0..Len(block.runs) /\ k # 0 /\ (k > 1 => r # 0)
    BY <1>3, <1>4, <1>5
<1> HIDE DEF k
<1>7. /\ HasCode(L, s) /\ v \in 0..(2^bits - 1) /\ (s = 16 => k > 1)
      /\ Stands(f, base, at, p \o q)
    <2>1. /\ HasCode(L, s) /\ v \in 0..(2^bits - 1) /\ (s = 16 => k > 1)
        BY <1>3, <1>6 DEF IsTable
    <2>2. Stands(f, base, RunEnds(block, i)[k - 1], RunPiece(run, L))
        BY <1>2, <1>6 DEF HoldsTable
    <2> QED
        BY <1>4, <1>6, <2>1, <2>2 DEF RunPiece
<1>8. RunEnds(block, i)[k] = at + Len(p \o q)
    <2>1. RunEnds(block, i)[k] = RunEnds(block, i)[k - 1] + Len(RunPiece(run, L))
        BY <1>3, <1>6, RunEndsUnfold
    <2> QED
        BY <1>4, <1>6, <2>1 DEF RunPiece
<1>9. Unrunned(block.runs)[k] = Unrun(table.lengths, run)
    <2>1. Unrunned(block.runs)[k] = Unrun(Unrunned(block.runs)[k - 1], run)
        BY <1>3, <1>6, UnrunnedUnfolds
    <2> QED
        BY <1>4, <1>6, <2>1
<1>10. s \in Nat
    BY <1>3, <1>7 DEF HasCode
<1> DEFINE shape == Repeat(s)
<1>11. /\ shape.bits = bits
       /\ table.lengths \o [j \in 1..(shape.least + v) |-> shape.of] = Unrun(table.lengths, run)
       /\ shape.least \in Nat \ {0} /\ v \in Nat /\ shape.of \in Nat
    <2>1. s = 16 => table.lengths # <<>>
        BY <1>4, <1>6, <1>7
    <2> HIDE DEF run, shape
    <2> QED
        BY <1>1, <1>7, <1>10, <2>1, RepeatsRun DEF shape
<1>12. v < 2^bits /\ bits \in 0..16
    <2> DEFINE w == 2^bits
    <2>1. bits \in 0..16 /\ bits \in {0, 2, 3, 7}
        BY RunBitsAre
    <2>2. w \in Nat
        <3> HIDE DEF bits
        <3>1. bits \in 0..15
            BY <2>1
        <3> QED
            BY <3>1, Powers
    <2>3. v \in 0..(w - 1)
        BY <1>7
    <2> HIDE DEF w, v, bits
    <2>4. v < w
        BY <2>2, <2>3
    <2> QED
        BY <2>1, <2>4 DEF w
<1>13. p \in Seq(Nat) /\ Len(p) = n /\ n \in 1..15
    <2> HIDE DEF s
    <2> QED
        BY <1>3, <1>7, CodeBitsAre
<1>14. q \in Seq(Nat) /\ Len(q) = bits
    <2> HIDE DEF v, bits
    <2> QED
        BY <1>11, <1>12, NumberIs
<1> HIDE DEF run, s, v, bits, p, q, L, shape, o, code, tree, n
<1>15. Stands(f, base, at, p) /\ Stands(f, base, at + n, q) /\ Len(p \o q) = n + bits
    <2>1. Stands(f, base, at, p) /\ Stands(f, base, at + Len(p), q)
        BY <1>1, <1>7, <1>13, <1>14, StandsJoined
    <2>2. Len(p \o q) = Len(p) + Len(q)
        BY <1>13, <1>14, Joined
    <2> QED
        BY <1>13, <1>14, <2>1, <2>2
<1>16. IF Has(o + n) THEN code.what = "symbol" /\ code.symbol = s /\ code.size = n ELSE code.what = "end"
    <2>1. Has(o) /\ o \in Nat
        BY <1>1, LenProperties DEF BitsInv, Has, BitsLeft, o
    <2>2. Stands(f, base, at + o, CodeBits(L, s))
        BY <1>1, <1>15 DEF p
    <2> QED
        BY <1>1, <1>3, <1>4, <1>7, <2>1, <2>2, DecodeReads DEF code, n
<1>17. o + n = n /\ n \in Nat /\ bits \in Nat /\ n + bits \in Nat
    BY <1>12, <1>13 DEF o
<1>18. ReadLength <=>
          /\ mode = "lengths"
          /\ Len(table.lengths) < table.literals + table.distances
          /\ IF code.what = "symbol"
             THEN IF Has(code.size + repeat.bits)
                  THEN /\ table' = [table EXCEPT !.lengths =
                                      @ \o [j \in 1..(repeat.least + Field(code.size, repeat.bits)) |-> repeat.of]]
                       /\ at' = at + code.size + repeat.bits
                       /\ UNCHANGED <<data, mode, base, final, trees, output>>
                  ELSE Refuse
             ELSE Refuse
    BY DEF ReadLength, code, tree, o
<1> HIDE DEF repeat
<1>19. CASE ~Has(n)
    <2>1. mode' = "error"
        BY <1>16, <1>17, <1>18, <1>19 DEF Refuse
    <2>2. 8 * base + at + n <= 8 * Len(f)
        BY <1>13, <1>15 DEF Stands
    <2>3. data # f
        BY <1>1, <1>17, <1>19, <2>2, Short
    <2> QED
        BY <2>1, <2>3
<1>20. ASSUME Has(n) PROVE code.what = "symbol" /\ code.size = n /\ repeat = shape
    BY <1>16, <1>17, <1>20 DEF repeat, shape
<1>21. CASE Has(n) /\ ~Has(n + bits)
    <2>1. mode' = "error"
        BY <1>11, <1>18, <1>20, <1>21 DEF Refuse
    <2>2. 8 * base + at + Len(p \o q) <= 8 * Len(f)
        BY <1>7 DEF Stands
    <2> DEFINE l == n + bits
    <2>3. 8 * base + at + l <= 8 * Len(f) /\ l \in Nat /\ ~Has(l)
        BY <1>15, <1>17, <1>21, <2>2
    <2> HIDE DEF l
    <2>4. data # f
        BY <1>1, <2>3, Short
    <2> QED
        BY <2>1, <2>4
<1>22. CASE Has(n) /\ Has(n + bits)
    <2>1. Field(n, bits) = v
        <3>1. Stands(f, base, at + n, Number(v, bits))
            BY <1>15 DEF q
        <3> QED
            BY <1>1, <1>11, <1>12, <1>17, <1>22, <3>1, FieldReads
    <2> DEFINE longer == table.lengths \o [j \in 1..(shape.least + v) |-> shape.of]
    <2>2. /\ table' = [table EXCEPT !.lengths = longer] /\ at' = at + n + bits
          /\ UNCHANGED <<data, mode, base, final, trees, output>>
        BY <1>11, <1>18, <1>20, <1>22, <2>1
    <2>3. longer = Unrunned(block.runs)[k]
        BY <1>9, <1>11
    <2>4. longer # <<>>
        <3> DEFINE m == shape.least + v
                   more == [j \in 1..m |-> shape.of]
        <3>1. m \in Nat /\ m # 0 /\ more \in [1..m -> Nat]
            BY <1>11
        <3> HIDE DEF more, m
        <3>2. more \in Seq(Nat) /\ Len(more) = m
            BY <3>1, FunctionLength
        <3>3. Len(table.lengths \o more) = Len(table.lengths) + Len(more) /\ Len(table.lengths) \in Nat
            BY <1>1, <3>2, Joined
        <3>4. Len(table.lengths \o more) # 0
            BY <3>1, <3>2, <3>3
        <3>5. table.lengths \o more # <<>>
            BY <3>4, EmptySeq
        <3> QED
            BY <3>5 DEF more, m
    <2> HIDE DEF longer
    <2>5. /\ table'.lengths = longer /\ table'.codes = tree
          /\ table'.literals = table.literals /\ table'.distances = table.distances
        BY <1>1, <2>2 DEF tree
    <2>6. at' = RunEnds(block, i)[k]
        BY <1>1, <1>8, <1>15, <1>17, <2>2
    <2>7. InLengths(block, i)'
        BY <1>4, <1>6, <2>3, <2>4, <2>5, <2>6 DEF InLengths, L
    <2> QED
        BY <1>1, <2>2, <2>7 DEF InBlock
<1> QED
    BY <1>19, <1>21, <1>22

(* The codes of a block are those of the lengths that have been read. *)
LEMMA LengthsReadReads ==
    ASSUME InflateInv, NEW f, Begins(data, f), Len(f) \in Nat, NEW block, NEW i, NEW done, NEW last \in BOOLEAN,
           HoldsBlock(f, base, i, block, done, last), InBlock(block, i, done, last), LengthsRead
    PROVE  mode' = "symbol" /\ InBlock(block, i, done, last)'
<1>1. /\ i \in Nat /\ output = done /\ final = last /\ block.kind = "dynamic" /\ mode = "lengths" /\ InLengths(block, i)
      /\ Len(table.lengths) >= table.literals + table.distances
      /\ mode' = "symbol" /\ UNCHANGED <<data, base, at, final, output>>
      /\ trees' = [literals |-> FromLengths(SubSeq(table.lengths, 1, table.literals)),
                 distances |-> FromLengths(SubSeq(table.lengths, table.literals + 1, Len(table.lengths)))]
    BY DEF InBlock, LengthsRead
<1>2. IsTable(block) /\ Len(block.runs) \in Nat /\ Len(block.items) \in Nat
    <2>1. HoldsTable(f, base, i, block) /\ HoldsItems(f, base, i, block, done)
        BY <1>1 DEF HoldsBlock
    <2> QED
        BY <2>1, TableSizes DEF HoldsTable, HoldsItems
<1>3. PICK r \in 0..Len(block.runs) :
        /\ at = RunEnds(block, i)[r]
        /\ table.literals = block.literals /\ table.distances = block.distances
        /\ table.lengths = Unrunned(block.runs)[r]
    BY <1>1 DEF InLengths
<1>4. r = Len(block.runs)
    <2>1. SUFFICES ASSUME r # Len(block.runs) PROVE FALSE
        OBVIOUS
    <2> DEFINE k == r + 1
               sum == block.literals + block.distances
               l == Len(Unrunned(block.runs)[r])
    <2>2. k \in 1..Len(block.runs) /\ k - 1 = r
        BY <1>2, <2>1
    <2> HIDE DEF k
    <2>3. Len(Unrunned(block.runs)[k - 1]) < sum
        BY <1>2, <2>2 DEF IsTable
    <2>4. l < sum /\ l >= sum /\ sum \in Int /\ l \in Nat
        <3>1. table.lengths \in Seq(Nat)
            BY DEF InflateInv, TableInv
        <3>2. Len(table.lengths) \in Nat
            BY <3>1, LenProperties
        <3> QED
            BY <1>1, <1>2, <1>3, <2>2, <2>3, <3>2, TableSizes
    <2> HIDE DEF l, sum
    <2> QED
        BY <2>4
<1>5. table.lengths = LengthsOf(block)
    BY <1>3, <1>4 DEF LengthsOf
<1>6. trees'.literals = FromLengths(LiteralsOf(block)) /\ trees'.distances = FromLengths(DistancesOf(block))
    BY <1>1, <1>3, <1>5 DEF LiteralsOf, DistancesOf
<1>7. at' = ItemEnds(block, i)[0]
    <2> DEFINE sizes == [k \in 1..Len(block.items) |-> Len(ItemBits(block.items[k], LiteralsOf(block), DistancesOf(block)))]
               count == Len(block.items)
               first == RunEnds(block, i)[Len(block.runs)]
    <2>1. ItemEnds(block, i) = Offsets(first, count, sizes)
        BY <1>1 DEF ItemEnds
    <2>2. at' = first
        BY <1>1, <1>3, <1>4
    <2> HIDE DEF sizes, first, count
    <2>3. Offsets(first, count, sizes)[0] = first
        BY <1>2, OffsetsUnfold DEF count
    <2> QED
        BY <2>1, <2>2, <2>3
<1>8. output' = Played(done, block.items)[0] /\ 0 \in 0..Len(block.items)
    BY <1>1, <1>2, PlayedUnfolds
<1>10. Len(LiteralsOf(block)) \in Nat /\ Len(DistancesOf(block)) \in Nat
    <2> DEFINE s == table.lengths
               b == block.literals
               l == Len(s)
               B == b + 1
    <2>1. s \in Seq(Nat) /\ l \in Nat
        BY LenProperties DEF InflateInv, TableInv
    <2>2. b \in Int /\ b >= 1 /\ b <= l
        <3>1. block.distances \in Int /\ block.distances >= 1 /\ b \in Int /\ b >= 257
            BY <1>2, TableSizes
        <3>2. l >= b + block.distances
            BY <1>1, <1>3
        <3> HIDE DEF l
        <3> QED
            BY <2>1, <3>1, <3>2
    <2>3. LiteralsOf(block) = SubSeq(s, 1, b) /\ DistancesOf(block) = SubSeq(s, B, l)
        BY <1>1, <1>5 DEF LiteralsOf, DistancesOf
    <2> HIDE DEF b, s, l
    <2>4. (\A j \in 1..b : s[j] \in Nat) /\ (\A j \in B..l : s[j] \in Nat)
        <3>1. (\A j \in 1..b : j \in 1..l) /\ (\A j \in B..l : j \in 1..l)
            BY <2>1, <2>2
        <3> QED
            BY <2>1, <3>1, ElementOfSeq DEF l
    <2>5. B \in Int
        BY <2>2
    <2> HIDE DEF B
    <2>6. SubSeq(s, 1, b) \in Seq(Nat) /\ SubSeq(s, B, l) \in Seq(Nat)
        BY <2>1, <2>2, <2>4, <2>5, SubSeqProperties
    <2> QED
        BY <2>3, <2>6, LenProperties
<1>9. InSymbols(block, i, done)'
    BY <1>10, <1>6, <1>7, <1>8 DEF InSymbols
<1> QED
    BY <1>1, <1>9 DEF InBlock

----------------------------------------------------------------------------
(* A length and its distance *)

FourStand(f, start, i, p, q, u, w) ==
    /\ Stands(f, start, i, p) /\ Stands(f, start, i + Len(p), q)
    /\ Stands(f, start, i + Len(p) + Len(q), u) /\ Stands(f, start, i + Len(p) + Len(q) + Len(u), w)
    /\ Len(p \o q \o u \o w) = Len(p) + Len(q) + Len(u) + Len(w)

(* Four parts that follow each other *)
LEMMA FourParts ==
    ASSUME NEW f, Len(f) \in Nat, NEW start \in Nat, NEW i \in Nat,
           NEW p \in Seq(Nat), NEW q \in Seq(Nat), NEW u \in Seq(Nat), NEW w \in Seq(Nat),
           Stands(f, start, i, p \o q \o u \o w)
    PROVE  FourStand(f, start, i, p, q, u, w)
<1> DEFINE a == p \o q
           b == a \o u
<1>1. a \in Seq(Nat) /\ Len(a) = Len(p) + Len(q) /\ Len(p) \in Nat /\ Len(q) \in Nat
    BY Joined
<1>2. Stands(f, start, i, a) => Stands(f, start, i, p) /\ Stands(f, start, i + Len(p), q)
    BY StandsJoined
<1> HIDE DEF a
<1>3. b \in Seq(Nat) /\ Len(b) = Len(a) + Len(u) /\ Len(u) \in Nat
    BY <1>1, Joined
<1>4. Stands(f, start, i, b) => Stands(f, start, i, a) /\ Stands(f, start, i + Len(a), u)
    BY <1>1, StandsJoined
<1> HIDE DEF b
<1>5. Len(b \o w) = Len(b) + Len(w) /\ Len(w) \in Nat
    BY <1>3, Joined
<1>6. Stands(f, start, i, b \o w)
    BY DEF a, b
<1>7. Stands(f, start, i, b) /\ Stands(f, start, i + Len(b), w)
    BY <1>3, <1>6, StandsJoined
<1>8. i + Len(a) = i + Len(p) + Len(q) /\ i + Len(b) = i + Len(p) + Len(q) + Len(u)
      /\ Len(b \o w) = Len(p) + Len(q) + Len(u) + Len(w)
    BY <1>1, <1>3, <1>5
<1>9. Len(p \o q \o u \o w) = Len(b \o w)
    BY DEF a, b
<1> QED
    BY <1>2, <1>4, <1>7, <1>8, <1>9 DEF FourStand

(* A number below a power, with as many bits *)
LEMMA Fits ==
    ASSUME NEW n \in 0..15, NEW v \in 0..(2^n - 1)
    PROVE  v \in Nat /\ v < 2^n
<1> DEFINE w == 2^n
<1>1. w \in Nat
    BY Powers
<1>2. v \in 0..(w - 1)
    OBVIOUS
<1> HIDE DEF w
<1>3. v \in Nat /\ v < w
    BY <1>1, <1>2
<1> QED
    BY <1>3 DEF w

(* The bits of numbers that follow a length or a distance are few. *)
LEMMA ExtraFits ==
    /\ \A n \in 1..29 : LengthExtra[n] \in 0..15
    /\ \A d \in 1..30 : DistExtra[d] \in 0..15
<1>1. \A n \in 1..29 : LengthExtra[n] \in 0..15
    BY DEF LengthExtra
<1>2. \A d \in 1..30 : DistExtra[d] \in 0..15
    BY DEF DistExtra
<1> QED
    BY <1>1, <1>2

(* The symbols of lengths and distances, in their tables *)
LEMMA LengthSymbol == \A s \in 257..285 : s \in Nat /\ s > 256 /\ s < 286
OBVIOUS

LEMMA LengthPlace ==
    ASSUME NEW s \in 257..285, NEW n, n = s - 256
    PROVE  n \in 1..29
<1>1. s \in Nat /\ s > 256 /\ s < 286
    BY LengthSymbol
<1> QED
    BY <1>1

LEMMA DistanceSymbol == \A t \in 0..29 : t + 1 \in 1..30
OBVIOUS

IsCopy(item, literals, distances) ==
    /\ item.kind = "copy" /\ item.symbol \in 257..285 /\ item.distance \in 0..29
    /\ HasCode(literals, item.symbol) /\ HasCode(distances, item.distance)
    /\ item.extra \in 0..(2^LengthExtra[item.symbol - 256] - 1)
    /\ item.more \in 0..(2^DistExtra[item.distance + 1] - 1)

(* The parts of a copy *)
CopyStands(f, start, i, item, literals, distances, n, d, x, y) ==
    /\ n \in 1..29 /\ d \in 1..30 /\ x \in Nat /\ y \in Nat
    /\ LengthExtra[n] \in 0..15 /\ DistExtra[d] \in 0..15
    /\ item.extra \in Nat /\ item.extra < 2^LengthExtra[n]
    /\ item.more \in Nat /\ item.more < 2^DistExtra[d]
    /\ Stands(f, start, i, CodeBits(literals, item.symbol))
    /\ Stands(f, start, i + x, Number(item.extra, LengthExtra[n]))
    /\ Stands(f, start, i + x + LengthExtra[n], CodeBits(distances, item.distance))
    /\ Stands(f, start, i + x + LengthExtra[n] + y, Number(item.more, DistExtra[d]))
    /\ Len(ItemBits(item, literals, distances)) = x + LengthExtra[n] + y + DistExtra[d]

(* The parts of a copy stand one behind the other. *)
LEMMA CopyParts ==
    ASSUME NEW f, Len(f) \in Nat, NEW start \in Nat, NEW i \in Nat, NEW item, NEW literals, NEW distances,
           Len(literals) \in Nat, Len(distances) \in Nat, IsPrefixCode(literals), IsPrefixCode(distances),
           IsCopy(item, literals, distances), Stands(f, start, i, ItemBits(item, literals, distances)),
           NEW n, n = item.symbol - 256, NEW d, d = item.distance + 1,
           NEW x, x = literals[item.symbol + 1], NEW y, y = distances[item.distance + 1]
    PROVE  CopyStands(f, start, i, item, literals, distances, n, d, x, y)
<1> DEFINE s == item.symbol
           t == item.distance
           e == LengthExtra[n]
           m == DistExtra[d]
           p == CodeBits(literals, s)
           q == Number(item.extra, e)
           u == CodeBits(distances, t)
           w == Number(item.more, m)
<1>1. n \in 1..29
    <2>1. s \in 257..285
        BY DEF IsCopy
    <2>2. n = s - 256
        OBVIOUS
    <2> HIDE DEF s
    <2> QED
        BY <2>1, <2>2, LengthPlace
<1>2. d \in 1..30
    <2>1. t \in 0..29
        BY DEF IsCopy
    <2>2. d = t + 1
        OBVIOUS
    <2> HIDE DEF t
    <2> QED
        BY <2>1, <2>2, DistanceSymbol
<1>3. e \in 0..15 /\ m \in 0..15
    BY <1>1, <1>2, ExtraFits
<1>4. item.extra \in Nat /\ item.extra < 2^e
    <2>1. item.extra \in 0..(2^e - 1)
        BY Zenon DEF IsCopy
    <2> DEFINE v == item.extra
    <2> HIDE DEF v, e
    <2>2. v \in Nat /\ v < 2^e
        BY <1>3, <2>1, Fits DEF v
    <2> QED
        BY <2>2 DEF v
<1>5. item.more \in Nat /\ item.more < 2^m
    <2>1. item.more \in 0..(2^m - 1)
        BY Zenon DEF IsCopy
    <2> DEFINE v == item.more
    <2> HIDE DEF v, m
    <2>2. v \in Nat /\ v < 2^m
        BY <1>3, <2>1, Fits DEF v
    <2> QED
        BY <2>2 DEF v
<1>6. p \in Seq(Nat) /\ Len(p) = x /\ x \in 1..15
    <2>1. HasCode(literals, s) /\ x = literals[s + 1]
        BY DEF IsCopy
    <2> HIDE DEF s
    <2> QED
        BY <2>1, CodeBitsAre
<1>7. u \in Seq(Nat) /\ Len(u) = y /\ y \in 1..15
    <2>1. HasCode(distances, t) /\ y = distances[t + 1]
        BY DEF IsCopy
    <2> HIDE DEF t
    <2> QED
        BY <2>1, CodeBitsAre
<1>8. q \in Seq(Nat) /\ Len(q) = e
    <2> DEFINE v == item.extra
    <2>1. v \in Nat /\ e \in 0..16
        BY <1>3, <1>4
    <2> HIDE DEF v, e
    <2> QED
        BY <2>1, NumberIs DEF v
<1>9. w \in Seq(Nat) /\ Len(w) = m
    <2> DEFINE v == item.more
    <2>1. v \in Nat /\ m \in 0..16
        BY <1>3, <1>5
    <2> HIDE DEF v, m
    <2> QED
        BY <2>1, NumberIs DEF v
<1>10. ItemBits(item, literals, distances) = p \o q \o u \o w
    BY DEF ItemBits, IsCopy
<1>14. Stands(f, start, i, p \o q \o u \o w)
    BY <1>10
<1> HIDE DEF p, q, u, w, e, m, s, t
<1>11. /\ Stands(f, start, i, p) /\ Stands(f, start, i + Len(p), q)
       /\ Stands(f, start, i + Len(p) + Len(q), u) /\ Stands(f, start, i + Len(p) + Len(q) + Len(u), w)
       /\ Len(p \o q \o u \o w) = Len(p) + Len(q) + Len(u) + Len(w)
    <2>1. p \in Seq(Nat) /\ q \in Seq(Nat) /\ u \in Seq(Nat) /\ w \in Seq(Nat)
        BY <1>6, <1>7, <1>8, <1>9
    <2>2. FourStand(f, start, i, p, q, u, w)
        BY <1>14, <2>1, FourParts
    <2> QED
        BY <2>2 DEF FourStand
<1>12. /\ Stands(f, start, i, p) /\ Stands(f, start, i + x, q) /\ Stands(f, start, i + x + e, u) /\ Stands(f, start, i + x + e + y, w)
       /\ Len(p \o q \o u \o w) = x + e + y + m
    BY <1>6, <1>7, <1>8, <1>9, <1>11
<1>13. x \in Nat /\ y \in Nat
    BY <1>6, <1>7
<1> QED
    BY <1>1, <1>2, <1>3, <1>4, <1>5, <1>10, <1>12, <1>13 DEF CopyStands, p, q, u, w, e, m, s, t

(* The bits of a copy are read as it was written, if they have come. *)
LEMMA PairReads ==
    ASSUME InflateInv, NEW f, Begins(data, f), Len(f) \in Nat, NEW item, NEW literals, NEW distances,
           Len(literals) \in Nat, Len(distances) \in Nat, IsPrefixCode(literals), IsPrefixCode(distances),
           IsCopy(item, literals, distances), Stands(f, base, at, ItemBits(item, literals, distances)),
           trees.distances = FromLengths(distances),
           NEW code, code.symbol = item.symbol, code.size = literals[item.symbol + 1]
    PROVE  IF Has(Len(ItemBits(item, literals, distances)))
           THEN /\ Pair(code).ok = TRUE /\ Pair(code).size = Len(ItemBits(item, literals, distances))
                /\ Pair(code).length = Length(item) /\ Pair(code).distance = Distance(item)
           ELSE Pair(code).ok = FALSE
<1> DEFINE n == code.symbol - 256
           e == LengthExtra[n]
           bits == code.size + e
           dist == Decode(trees.distances, Ahead(bits))
           D == dist.symbol + 1
           whole == bits + dist.size + DistExtra[D]
           length == LengthBase[n] + Field(code.size, e)
           distance == DistBase[D] + Field(bits + dist.size, DistExtra[D])
           good == n \in DOMAIN LengthBase /\ Has(bits) /\ dist.what = "symbol"
           fits == D \in DOMAIN DistBase /\ Has(whole)
           t == item.distance
           d == t + 1
           m == DistExtra[d]
           x == code.size
           y == distances[t + 1]
           l == Len(ItemBits(item, literals, distances))
<1>1. Pair(code) = IF good THEN IF fits THEN [ok |-> TRUE, size |-> whole, length |-> length, distance |-> distance]
                                ELSE [ok |-> FALSE]
                   ELSE [ok |-> FALSE]
    BY DEF Pair
<1>2. BitsInv /\ base \in Nat /\ at \in Nat
    BY DEF InflateInv, BitsInv
<1>3. /\ n \in 1..29 /\ d \in 1..30 /\ x \in Nat /\ y \in Nat /\ e \in 0..15 /\ m \in 0..15
      /\ item.extra \in Nat /\ item.extra < 2^e /\ item.more \in Nat /\ item.more < 2^m
      /\ Stands(f, base, at + x, Number(item.extra, e))
      /\ Stands(f, base, at + x + e, CodeBits(distances, t))
      /\ Stands(f, base, at + x + e + y, Number(item.more, m))
      /\ l = x + e + y + m
    <2>1. n = item.symbol - 256 /\ d = item.distance + 1 /\ x = literals[item.symbol + 1] /\ y = distances[item.distance + 1]
        OBVIOUS
    <2> HIDE DEF n, d, x, y, e, m, l, t
    <2>2. CopyStands(f, base, at, item, literals, distances, n, d, x, y)
        BY <1>2, <2>1, CopyParts
    <2> QED
        BY <2>1, <2>2 DEF CopyStands, e, m, l, t
<1>4. n \in DOMAIN LengthBase /\ d \in DOMAIN DistBase /\ HasCode(distances, t)
    <2>1. HasCode(distances, t)
        BY DEF IsCopy
    <2> HIDE DEF n, d, t
    <2> QED
        BY <1>3, <2>1, ExtraIs
<1>5. Length(item) = LengthBase[n] + item.extra /\ Distance(item) = DistBase[d] + item.more
    BY DEF Length, Distance
<1> DEFINE extra == item.extra
           more == item.more
           b == at + x + e
<1>6. bits = x + e
    OBVIOUS
<1> HIDE DEF whole, good, fits, length, distance
<1>7. ~good \/ ~fits => Pair(code).ok = FALSE
    BY <1>1
<1>8. good /\ fits => Pair(code).ok = TRUE /\ Pair(code).size = whole
                        /\ Pair(code).length = length /\ Pair(code).distance = distance
    BY <1>1
<1> HIDE DEF n, e, d, m, x, y, l, t, dist, D, bits, extra, more
<1>9. bits \in Nat /\ e \in Nat /\ m \in Nat /\ l = bits + y + m /\ at + bits = at + x + e
    BY <1>2, <1>3, <1>6
<1>10. CASE ~Has(bits)
    <2>1. ~Has(l)
        BY <1>2, <1>3, <1>9, <1>10, BitsThere
    <2>2. ~good
        BY <1>10 DEF good
    <2> QED
        BY <1>7, <2>1, <2>2 DEF l
<1>11. ASSUME Has(bits)
       PROVE  IF Has(bits + y) THEN dist.what = "symbol" /\ dist.symbol = t /\ dist.size = y ELSE dist.what = "end"
    <2>1. Stands(f, base, at + bits, CodeBits(distances, t))
        BY <1>3, <1>9
    <2>2. IF Has(bits + distances[t + 1])
          THEN /\ Decode(FromLengths(distances), Ahead(bits)).what = "symbol"
               /\ Decode(FromLengths(distances), Ahead(bits)).symbol = t
               /\ Decode(FromLengths(distances), Ahead(bits)).size = distances[t + 1]
          ELSE Decode(FromLengths(distances), Ahead(bits)).what = "end"
        BY <1>2, <1>4, <1>9, <1>11, <2>1, DecodeReads
    <2> QED
        BY <2>2 DEF dist, y
<1>12. CASE Has(bits) /\ ~Has(bits + y)
    <2>1. ~Has(l)
        <3> DEFINE z == bits + y
        <3>1. z \in Nat /\ l = z + m /\ m \in Nat
            <4>1. y \in Nat
                BY <1>3
            <4> QED
                BY <1>9, <4>1
        <3>2. ~Has(z)
            BY <1>12
        <3> HIDE DEF z
        <3>3. BitsLeft \in Int /\ ~(BitsLeft >= z)
            BY <1>2, <3>2, BitsThere
        <3>4. ~(BitsLeft >= l)
            BY <3>1, <3>3
        <3> QED
            BY <1>2, <3>4, BitsThere
    <2>2. ~good
        BY <1>11, <1>12 DEF good
    <2> QED
        BY <1>7, <2>1, <2>2 DEF l
<1>13. CASE Has(bits) /\ Has(bits + y)
    <2>1. dist.what = "symbol" /\ dist.symbol = t /\ dist.size = y
        BY <1>11, <1>13
    <2>2. D = d /\ whole = bits + y + DistExtra[d] /\ whole = l
        BY <1>9, <2>1 DEF D, d, whole, m
    <2>3. good
        BY <1>4, <1>13, <2>1 DEF good
    <2>4. fits <=> Has(l)
        BY <1>4, <2>2 DEF fits
    <2>5. CASE ~Has(l)
        BY <1>7, <2>4, <2>5 DEF l
    <2>6. CASE Has(l)
        <3>1. Field(x, e) = extra
            <4>1. Stands(f, base, at + x, Number(extra, e)) /\ extra \in Nat /\ extra < 2^e /\ e \in 0..16
                BY <1>3 DEF extra
            <4>2. Has(x + e)
                BY <1>6, <1>13
            <4> QED
                BY <1>2, <1>3, <4>1, <4>2, FieldReads
        <3>2. Field(bits + y, m) = more
            <4>1. Stands(f, base, at + (bits + y), Number(more, m)) /\ more \in Nat /\ more < 2^m /\ m \in 0..16
                <5>1. at + (bits + y) = at + x + e + y
                    BY <1>2, <1>3, <1>9
                <5> QED
                    BY <1>3, <5>1 DEF more
            <4>2. Has((bits + y) + m) /\ bits + y \in Nat
                <5>1. y \in Nat
                    BY <1>3
                <5>2. (bits + y) + m = l /\ bits + y \in Nat
                    BY <1>9, <5>1
                <5> QED
                    BY <2>6, <5>2
            <4> QED
                BY <1>2, <4>1, <4>2, FieldReads
        <3>3. length = Length(item) /\ distance = Distance(item)
            BY <1>5, <2>1, <2>2, <3>1, <3>2 DEF length, distance, x, e, m, extra, more
        <3> QED
            BY <1>8, <2>2, <2>3, <2>4, <2>6, <3>3 DEF l
    <2> QED
        BY <2>5, <2>6
<1> QED
    BY <1>10, <1>12, <1>13

----------------------------------------------------------------------------
(* The symbols of a block *)

(* ItemEnds *)
LEMMA ItemEndsUnfold ==
    ASSUME NEW block, Len(block.items) \in Nat, NEW i, NEW k \in 1..Len(block.items)
    PROVE  ItemEnds(block, i)[k] =
               ItemEnds(block, i)[k - 1] + Len(ItemBits(block.items[k], LiteralsOf(block), DistancesOf(block)))
<1> DEFINE m == Len(block.items)
           sizes == [j \in 1..m |-> Len(ItemBits(block.items[j], LiteralsOf(block), DistancesOf(block)))]
           first == IF block.kind = "fixed" THEN i + 3 ELSE RunEnds(block, i)[Len(block.runs)]
<1>1. ItemEnds(block, i) = Offsets(first, m, sizes)
    BY DEF ItemEnds
<1>2. sizes[k] = Len(ItemBits(block.items[k], LiteralsOf(block), DistancesOf(block))) /\ k \in 1..m /\ m \in Nat
    OBVIOUS
<1> HIDE DEF m, sizes, first
<1>3. Offsets(first, m, sizes)[k] = Offsets(first, m, sizes)[k - 1] + sizes[k]
    BY <1>2, OffsetsUnfold
<1> QED
    BY <1>1, <1>2, <1>3

(* What the next symbol is, if it has come *)
LEMMA NextSymbol ==
    ASSUME InflateInv, NEW f, Begins(data, f), Len(f) \in Nat, NEW literals, Len(literals) \in Nat,
           IsPrefixCode(literals), NEW s, HasCode(literals, s), NEW n, n = literals[s + 1],
           Stands(f, base, at, CodeBits(literals, s)), NEW code, code = Decode(FromLengths(literals), Ahead(0))
    PROVE  /\ n \in 1..15 /\ Len(CodeBits(literals, s)) = n
           /\ Has(n) => code.what = "symbol" /\ code.symbol = s /\ code.size = n
           /\ ~Has(n) => code.what # "symbol" /\ data # f
<1> DEFINE o == 0
<1>1. BitsInv /\ base \in Nat /\ at \in Nat /\ at + o = at
    BY DEF InflateInv, BitsInv
<1>2. n \in 1..15 /\ Len(CodeBits(literals, s)) = n
    BY CodeBitsAre
<1>3. code = Decode(FromLengths(literals), Ahead(o))
    OBVIOUS
<1>4. o \in Nat /\ o + n = n /\ n \in Nat
    BY <1>2
<1> HIDE DEF o
<1>5. Has(o) /\ Stands(f, base, at + o, CodeBits(literals, s))
    BY <1>1, LenProperties DEF BitsInv, Has, BitsLeft, o
<1>6. IF Has(o + literals[s + 1])
      THEN /\ Decode(FromLengths(literals), Ahead(o)).what = "symbol"
           /\ Decode(FromLengths(literals), Ahead(o)).symbol = s
           /\ Decode(FromLengths(literals), Ahead(o)).size = literals[s + 1]
      ELSE Decode(FromLengths(literals), Ahead(o)).what = "end"
    BY <1>1, <1>4, <1>5, DecodeReads
<1>7. IF Has(n) THEN code.what = "symbol" /\ code.symbol = s /\ code.size = n ELSE code.what = "end"
    BY <1>3, <1>4, <1>6
<1>8. ~Has(n) => data # f
    <2>1. 8 * base + at + n <= 8 * Len(f)
        BY <1>2 DEF Stands
    <2> QED
        BY <1>1, <1>4, <2>1, Short
<1> QED
    BY <1>2, <1>7, <1>8

(* A literal, a copy or the end of a block is read as it stands. *)
LEMMA ReadSymbolReads ==
    ASSUME InflateInv, NEW f, Begins(data, f), Len(f) \in Nat, NEW block, NEW i, NEW done, NEW last \in BOOLEAN,
           HoldsBlock(f, base, i, block, done, last), InBlock(block, i, done, last), ReadSymbol
    PROVE  \/ mode' = "error" /\ data # f
           \/ mode' = "symbol" /\ InBlock(block, i, done, last)'
           \/ Leaves(block, i, done, last)
<1> DEFINE literals == LiteralsOf(block)
           distances == DistancesOf(block)
           code == Decode(trees.literals, Ahead(0))
           pair == Pair(code)
           count == Len(block.items)
<1>1. /\ BitsInv /\ i \in Nat /\ final = last /\ base \in Nat /\ at \in Nat /\ output \in Seq(Nat)
      /\ block.kind # "stored" /\ mode = "symbol" /\ InSymbols(block, i, done)
    BY DEF InflateInv, BitsInv, InBlock, ReadSymbol
<1>2. HoldsItems(f, base, i, block, done)
    BY <1>1 DEF HoldsBlock
<1>3. /\ IsPrefixCode(literals) /\ IsPrefixCode(distances) /\ count \in Nat
      /\ \A k \in 1..count :
             /\ IsItem(block.items[k], Played(done, block.items)[k - 1], literals, distances)
             /\ Stands(f, base, ItemEnds(block, i)[k - 1], ItemBits(block.items[k], literals, distances))
      /\ HasCode(literals, 256)
      /\ Stands(f, base, ItemEnds(block, i)[count], CodeBits(literals, 256))
    BY <1>2 DEF HoldsItems
<1>4. /\ Len(literals) \in Nat /\ Len(distances) \in Nat
      /\ trees.literals = FromLengths(literals) /\ trees.distances = FromLengths(distances)
    BY <1>1 DEF InSymbols
<1>5. PICK m \in 0..count : at = ItemEnds(block, i)[m] /\ output = Played(done, block.items)[m]
    BY <1>1 DEF InSymbols
<1>6. code = Decode(FromLengths(literals), Ahead(0))
    BY <1>4
<1>7. \/ code.what # "symbol" /\ mode' = "error"
      \/ /\ code.what = "symbol" /\ code.symbol < 256
         /\ output' = Append(output, code.symbol) /\ at' = at + code.size
         /\ UNCHANGED <<data, mode, base, final, table, trees>>
      \/ /\ code.what = "symbol" /\ code.symbol = 256
         /\ at' = at + code.size /\ mode' = EndOfBlock
         /\ UNCHANGED <<data, base, final, table, trees, output>>
      \/ /\ code.what = "symbol" /\ code.symbol > 256
         /\ IF pair.ok /\ pair.distance <= Len(output)
            THEN /\ output' = output \o Copy(pair.length, pair.distance)
                 /\ at' = at + pair.size
                 /\ UNCHANGED <<data, mode, base, final, table, trees>>
            ELSE mode' = "error"
    BY DEF ReadSymbol, Refuse
<1> HIDE DEF code, pair, literals, distances
<1>8. ASSUME NEW s, HasCode(literals, s), Stands(f, base, at, CodeBits(literals, s)), NEW n, n = literals[s + 1]
      PROVE  /\ n \in 1..15 /\ Len(CodeBits(literals, s)) = n
             /\ Has(n) => code.what = "symbol" /\ code.symbol = s /\ code.size = n
             /\ ~Has(n) => code.what # "symbol" /\ data # f
    BY <1>3, <1>4, <1>6, <1>8, NextSymbol
<1>9. CASE m = count
    <2> DEFINE eob == 256
               n == literals[eob + 1]
    <2>1. HasCode(literals, eob) /\ Stands(f, base, at, CodeBits(literals, eob))
        BY <1>3, <1>5, <1>9
    <2> HIDE DEF eob, n
    <2>2. /\ n \in 1..15 /\ Len(CodeBits(literals, eob)) = n
          /\ Has(n) => code.what = "symbol" /\ code.symbol = eob /\ code.size = n
          /\ ~Has(n) => code.what # "symbol" /\ data # f
        BY <1>8, <2>1 DEF n
    <2>3. CASE ~Has(n)
        BY <1>7, <2>2, <2>3
    <2>4. CASE Has(n)
        <3>1. code.what = "symbol" /\ code.symbol = 256 /\ code.size = n
            BY <2>2, <2>4 DEF eob
        <3>2. at' = at + n /\ mode' = EndOfBlock /\ output' = output
            BY <1>7, <3>1
        <3>3. BlockEnd(block, i) = ItemEnds(block, i)[count] + literals[257]
            BY <1>1 DEF BlockEnd, literals
        <3>4. at' = BlockEnd(block, i)
            BY <1>5, <1>9, <3>2, <3>3 DEF n, eob
        <3>5. output' = After(block, done)
            BY <1>1, <1>5, <1>9, <3>2 DEF After
        <3> QED
            BY <1>1, <3>2, <3>4, <3>5 DEF Leaves, EndOfBlock
    <2> QED
        BY <2>3, <2>4
<1>10. CASE m # count
    <2> DEFINE k == m + 1
               item == block.items[k]
               s == item.symbol
               n == literals[s + 1]
               bits == ItemBits(item, literals, distances)
    <2>1. k \in 1..count /\ k - 1 = m /\ k \in 0..count
        BY <1>3, <1>5, <1>10
    <2> HIDE DEF k
    <2>2. IsItem(item, output, literals, distances) /\ Stands(f, base, at, bits)
        BY <1>3, <1>5, <2>1
    <2>3. ItemEnds(block, i)[k] = at + Len(bits)
        <3>1. ItemEnds(block, i)[k] = ItemEnds(block, i)[k - 1] + Len(bits)
            BY <1>3, <2>1, ItemEndsUnfold DEF literals, distances
        <3> QED
            BY <1>5, <2>1, <3>1
    <2>4. Played(done, block.items)[k] = Play(output, item)
        <3>1. Played(done, block.items)[k] = Play(Played(done, block.items)[k - 1], item)
            BY <1>3, <2>1, PlayedUnfolds
        <3> QED
            BY <1>5, <2>1, <3>1
    <2> HIDE DEF count
    <2>5. ASSUME at' = at + Len(bits), output' = Play(output, item), UNCHANGED <<mode, final, trees>>
          PROVE  mode' = "symbol" /\ InBlock(block, i, done, last)'
        <3>1. trees' = trees /\ mode' = "symbol" /\ final' = last
            BY <1>1, <2>5
        <3>2. at' = ItemEnds(block, i)[k] /\ output' = Played(done, block.items)[k] /\ k \in 0..Len(block.items)
            BY <2>1, <2>3, <2>4, <2>5 DEF count
        <3>3. InSymbols(block, i, done)'
            BY <1>4, <3>1, <3>2 DEF InSymbols, literals, distances
        <3> QED
            BY <1>1, <3>1, <3>3 DEF InBlock
    <2>6. CASE item.kind = "literal"
        <3>1. HasCode(literals, s) /\ s \in 0..255
            BY <2>2, <2>6 DEF IsItem
        <3>2. bits = CodeBits(literals, s)
            BY <2>6 DEF ItemBits
        <3>3. Play(output, item) = Append(output, s)
            BY <2>6 DEF Play
        <3> HIDE DEF s, n, bits
        <3>4. /\ n \in 1..15 /\ Len(bits) = n
              /\ Has(n) => code.what = "symbol" /\ code.symbol = s /\ code.size = n
              /\ ~Has(n) => code.what # "symbol" /\ data # f
            BY <1>8, <2>2, <3>1, <3>2 DEF n
        <3>5. CASE ~Has(n)
            BY <1>7, <3>4, <3>5
        <3>6. CASE Has(n)
            <4>1. code.what = "symbol" /\ code.symbol = s /\ code.size = n /\ s < 256 /\ s \in Int
                BY <3>1, <3>4, <3>6
            <4>2. at' = at + Len(bits) /\ output' = Append(output, s) /\ UNCHANGED <<mode, final, trees>>
                BY <1>7, <3>4, <4>1
            <4>3. mode' = "symbol" /\ InBlock(block, i, done, last)'
                BY <2>5, <3>3, <4>2 DEF bits
            <4> QED
                BY <4>3
        <3> QED
            BY <3>5, <3>6
    <2>7. CASE item.kind # "literal"
        <3>1. IsCopy(item, literals, distances) /\ Distance(item) <= Len(output)
            BY <2>2, <2>7 DEF IsItem, IsCopy
        <3> DEFINE nn == s - 256
                   dd == item.distance + 1
                   y == distances[item.distance + 1]
                   l == Len(bits)
        <3>2. CopyStands(f, base, at, item, literals, distances, nn, dd, n, y)
            <4>1. nn = item.symbol - 256 /\ dd = item.distance + 1 /\ n = literals[item.symbol + 1]
                  /\ y = distances[item.distance + 1]
                BY Zenon
            <4> HIDE DEF nn, dd, n, y, s, item
            <4> QED
                BY <1>1, <1>3, <1>4, <2>2, <3>1, <4>1, CopyParts DEF s
        <3>3. /\ Stands(f, base, at, CodeBits(literals, s)) /\ HasCode(literals, s) /\ s \in 257..285
              /\ nn \in 1..29 /\ dd \in 1..30 /\ item.extra \in Nat /\ item.more \in Nat
            BY <3>1, <3>2 DEF CopyStands, IsCopy
        <3>4. /\ n \in 1..15
              /\ Has(n) => code.what = "symbol" /\ code.symbol = s /\ code.size = n
              /\ ~Has(n) => code.what # "symbol" /\ data # f
            <4> HIDE DEF s, item
            <4> QED
                BY <1>8, <3>3
        <3>5. s > 256 /\ s # 256 /\ ~(s < 256)
            <4>1. s \in 257..285
                BY <3>3
            <4> HIDE DEF s
            <4>2. s \in Nat /\ s > 256
                BY <4>1, LengthSymbol
            <4> QED
                BY <4>2
        <3>6. Length(item) \in Nat /\ Distance(item) \in Nat \ {0}
            <4> DEFINE a == LengthBase[nn]
                       b == DistBase[dd]
                       e == item.extra
                       w == item.more
            <4>1. Length(item) = a + e /\ Distance(item) = b + w
                BY DEF Length, Distance
            <4>2. a \in Nat /\ b \in Nat \ {0}
                <5> HIDE DEF nn, dd
                <5> QED
                    BY <3>3, ExtraIs
            <4>3. e \in Nat /\ w \in Nat
                BY <3>3
            <4> HIDE DEF a, b, e, w
            <4> QED
                BY <4>1, <4>2, <4>3
        <3>7. Play(output, item) = output \o Copy(Length(item), Distance(item))
            <4> HIDE DEF item
            <4> QED
                BY <1>1, <2>7, <3>1, <3>6, PlayCopies
        <3>8. CASE ~Has(n)
            BY <1>7, <3>4, <3>8
        <3>9. CASE Has(n)
            <4>1. code.what = "symbol" /\ code.symbol = s /\ code.size = n
                BY <3>4, <3>9
            <4>2. IF Has(l)
                  THEN /\ pair.ok = TRUE /\ pair.size = l
                       /\ pair.length = Length(item) /\ pair.distance = Distance(item)
                  ELSE pair.ok = FALSE
                <5> HIDE DEF item
                <5> QED
                    BY <1>3, <1>4, <2>2, <3>1, <4>1, PairReads DEF pair
            <4>3. IF pair.ok /\ pair.distance <= Len(output)
                  THEN /\ output' = output \o Copy(pair.length, pair.distance)
                       /\ at' = at + pair.size
                       /\ UNCHANGED <<data, mode, base, final, table, trees>>
                  ELSE mode' = "error"
                <5> HIDE DEF s, n
                <5> QED
                    BY <1>7, <3>5, <4>1
            <4>4. CASE ~Has(l)
                <5>1. mode' = "error"
                    BY <4>2, <4>3, <4>4
                <5>2. 8 * base + at + l <= 8 * Len(f) /\ l \in Nat
                    <6>1. l = n + LengthExtra[nn] + y + DistExtra[dd] /\ n \in Nat /\ y \in Nat
                          /\ LengthExtra[nn] \in 0..15 /\ DistExtra[dd] \in 0..15
                        BY <3>2 DEF CopyStands
                    <6>2. 8 * base + at + l <= 8 * Len(f)
                        BY <2>2 DEF Stands
                    <6> DEFINE e == LengthExtra[nn]
                               w == DistExtra[dd]
                    <6>3. l = n + e + y + w /\ n \in Nat /\ y \in Nat /\ e \in 0..15 /\ w \in 0..15
                        BY <6>1
                    <6> HIDE DEF n, y, e, w, l
                    <6>4. l \in Nat
                        BY <6>3
                    <6> QED
                        BY <6>2, <6>4
                <5> HIDE DEF l
                <5>3. data # f
                    BY <1>1, <4>4, <5>2, Short
                <5> QED
                    BY <5>1, <5>3
            <4>5. CASE Has(l)
                <5>1. at' = at + Len(bits) /\ output' = Play(output, item) /\ UNCHANGED <<mode, final, trees>>
                    BY <3>1, <3>7, <4>2, <4>3, <4>5
                <5>2. mode' = "symbol" /\ InBlock(block, i, done, last)'
                    BY <2>5, <5>1
                <5> QED
                    BY <5>2
            <4> QED
                BY <4>4, <4>5
        <3> QED
            BY <3>8, <3>9
    <2> QED
        BY <2>6, <2>7
<1> QED
    BY <1>9, <1>10

----------------------------------------------------------------------------
(* The header *)

(* A place in the header that decompress has found is the right one, or it *)
(* is behind the data, which has been cut.                                 *)
Reached(f, p, q) ==
    /\ p \in Nat /\ q \in Nat
    /\ \/ p = q
       \/ p > Len(data) /\ data # f

(* A name or a comment *)
TextEnds(f, q, to) == q < to /\ f[to] = 0 /\ \A j \in (q + 1)..(to - 1) : f[j] # 0

(* Behind the data, the search for a zero finds nothing. *)
LEMMA PastBehind ==
    ASSUME data \in Seq(Nat), NEW p \in Nat, p >= Len(data)
    PROVE  PastZero(p) \in Nat /\ PastZero(p) > Len(data)
<1>1. Len(data) \in Nat
    BY LenProperties
<1>2. Zeros(p) = {}
    BY <1>1 DEF Zeros
<1>3. {p, Len(data)} \subseteq Int /\ \E x \in {p, Len(data)} : \A y \in {p, Len(data)} : x >= y
    BY <1>1
<1>4. Max({p, Len(data)}) \in {p, Len(data)} /\ Max({p, Len(data)}) >= p
    BY <1>3 DEF Max
<1> QED
    BY <1>1, <1>2, <1>4 DEF PastZero

(* A name that stands in the file ends where the search for its zero does, *)
(* if it has come whole.                                                   *)
LEMMA PastZeroReads ==
    ASSUME data \in Seq(Nat), NEW f, Begins(data, f), Len(f) \in Nat, NEW p, NEW q,
           Reached(f, p, q), NEW to \in Nat, to <= Len(f), TextEnds(f, q, to)
    PROVE  Reached(f, PastZero(p), to)
<1>1. Len(data) \in Nat /\ p \in Nat /\ q \in Nat /\ q < to
    BY LenProperties DEF Reached, TextEnds
<1>2. CASE p > Len(data) /\ data # f
    BY <1>1, <1>2, PastBehind DEF Reached
<1>3. CASE p = q /\ to > Len(data)
    <2>1. data # f
        BY <1>1, <1>3
    <2>2. CASE p >= Len(data)
        BY <1>1, <2>1, <2>2, PastBehind DEF Reached
    <2>3. CASE p < Len(data)
        <3>1. ASSUME NEW j \in Zeros(p) PROVE FALSE
            <4>1. j \in Int /\ j >= p /\ j <= Len(data) - 1 /\ Byte(j) = 0
                BY <1>1, <3>1 DEF Zeros
            <4>2. j + 1 \in (q + 1)..(to - 1) /\ j + 1 \in 1..Len(data)
                BY <1>1, <1>3, <4>1
            <4>3. data[j + 1] = f[j + 1] /\ f[j + 1] # 0
                BY <4>2 DEF Begins, TextEnds
            <4> QED
                BY <4>1, <4>3 DEF Byte
        <3>2. Zeros(p) = {}
            BY <3>1
        <3>3. {p, Len(data)} \subseteq Int /\ \E x \in {p, Len(data)} : \A y \in {p, Len(data)} : x >= y
            BY <1>1
        <3>4. Max({p, Len(data)}) \in Nat /\ Max({p, Len(data)}) >= Len(data)
            BY <1>1, <3>3 DEF Max
        <3>5. PastZero(p) = Max({p, Len(data)}) + 1
            BY <3>2 DEF PastZero
        <3> QED
            BY <1>1, <2>1, <3>4, <3>5 DEF Reached
    <2> QED
        BY <1>1, <2>2, <2>3
<1>4. CASE p = q /\ to <= Len(data)
    <2> DEFINE z == to - 1
    <2>1. z \in Zeros(p)
        <3>1. to \in 1..Len(data) /\ z \in p..(Len(data) - 1)
            BY <1>1, <1>4
        <3>2. data[to] = 0
            BY <3>1 DEF Begins, TextEnds
        <3>3. z + 1 = to
            BY <1>1
        <3> QED
            BY <3>1, <3>2, <3>3 DEF Zeros, Byte
    <2>2. ASSUME NEW j \in Zeros(p) PROVE j \in Int /\ z <= j
        <3>1. j \in Int /\ j >= p /\ j <= Len(data) - 1 /\ Byte(j) = 0
            BY <1>1, <2>2 DEF Zeros
        <3>2. CASE j < z
            <4>1. j + 1 \in (q + 1)..(to - 1) /\ j + 1 \in 1..Len(data)
                BY <1>1, <1>4, <3>1, <3>2
            <4>2. data[j + 1] = f[j + 1] /\ f[j + 1] # 0
                BY <4>1 DEF Begins, TextEnds
            <4> QED
                BY <3>1, <4>2 DEF Byte
        <3> QED
            BY <1>1, <3>1, <3>2
    <2> HIDE DEF z
    <2>3. Min(Zeros(p)) = z
        <3>1. \A j \in Zeros(p) : j \in Int /\ z <= j
            BY <2>2
        <3>2. z \in Int
            BY <2>1, <2>2
        <3>3. \A u \in Zeros(p) : (\A j \in Zeros(p) : u <= j) => u = z
            BY <2>1, <3>1, <3>2
        <3> HIDE DEF Zeros
        <3> QED
            BY <2>1, <3>1, <3>3 DEF Min
    <2>4. PastZero(p) = z + 1
        BY <2>1, <2>3 DEF PastZero
    <2> QED
        BY <1>1, <2>4 DEF z, Reached
<1> QED
    BY <1>1, <1>2, <1>3, <1>4 DEF Reached

(* The header of a file that is cut anywhere is refused or ends where the  *)
(* format says.                                                            *)
LEMMA ReadHeaderReads ==
    ASSUME InflateInv, NEW f \in Seq(Nat), Begins(data, f), NEW stream, HoldsHeader(f, stream), ReadHeader
    PROVE  \/ mode' = "error" /\ data # f
           \/ mode' = "block" /\ base' = stream.start /\ at' = 0 /\ output' = output
<1> DEFINE N == Len(f)
           Set(j) == (f[4] \div 2^j) % 2 = 1
           extra == IF Flag(2) THEN 12 + Byte(10) + 256 * Byte(11) ELSE 10
           name == IF Flag(3) THEN PastZero(extra) ELSE extra
           comment == IF Flag(4) THEN PastZero(name) ELSE name
           e == stream.extra
           n == stream.name
           c == stream.comment
           s == stream.start
<1>1. /\ data \in Seq(Nat) /\ Len(data) \in Nat /\ N \in Nat /\ Len(data) <= N
      /\ \A j \in 1..Len(data) : data[j] = f[j]
      /\ mode = "gzip" /\ at = 0
    BY LenProperties DEF InflateInv, BitsInv, Begins, ReadHeader
<1>2. {e, n, c, s} \subseteq 10..(N - 1)
    BY DEF HoldsHeader
<1>3. N >= 10 /\ (Set(2) => N >= 12) /\ f[1] = 31 /\ f[2] = 139 /\ f[3] = 8
    BY DEF HoldsHeader
<1>4. e = IF Set(2) THEN 12 + f[11] + 256 * f[12] ELSE 10
    BY DEF HoldsHeader
<1>5. IF Set(3) THEN TextEnds(f, e, n) ELSE n = e
    BY DEF HoldsHeader, TextEnds
<1>6. IF Set(4) THEN TextEnds(f, n, c) ELSE c = n
    BY DEF HoldsHeader, TextEnds
<1>7. s = IF Set(1) THEN c + 2 ELSE c
    BY DEF HoldsHeader
<1>8. e \in Nat /\ n \in Nat /\ c \in Nat /\ s \in Nat /\ e < N /\ n < N /\ c < N /\ s < N
    <2> HIDE DEF e, n, c, s
    <2> QED
        BY <1>1, <1>2
<1>9. Len(data) >= 10 => \A j : Flag(j) <=> Set(j)
    <2>1. Len(data) >= 10 => Byte(3) = f[4]
        <3>1. Len(data) >= 10 => 4 \in 1..Len(data)
            BY <1>1
        <3>2. 3 + 1 = 4
            OBVIOUS
        <3> QED
            BY <1>1, <3>1, <3>2 DEF Byte
    <2> QED
        BY <2>1 DEF Flag
<1> HIDE DEF Set
<1>10. Len(data) >= 10 => Byte(0) = 31 /\ Byte(1) = 139 /\ Byte(2) = 8
    <2>1. ASSUME Len(data) >= 10 PROVE data[1] = 31 /\ data[2] = 139 /\ data[3] = 8
        <3>1. 1 \in 1..Len(data) /\ 2 \in 1..Len(data) /\ 3 \in 1..Len(data)
            BY <1>1, <2>1
        <3>2. data[1] = f[1] /\ data[2] = f[2] /\ data[3] = f[3]
            BY <1>1, <3>1
        <3> QED
            BY <1>3, <3>2
    <2> QED
        BY <2>1 DEF Byte
<1>11. CASE Len(data) < 10
    <2>1. mode' = "error"
        BY <1>1, <1>11 DEF ReadHeader, Refuse
    <2> QED
        BY <1>1, <1>3, <1>11, <2>1
<1>12. CASE Len(data) >= 10 /\ Flag(2) /\ Len(data) < 12
    <2>1. mode' = "error"
        BY <1>1, <1>12 DEF ReadHeader, Refuse
    <2>2. N >= 12
        BY <1>3, <1>9, <1>12
    <2> QED
        BY <1>1, <1>12, <2>1, <2>2
<1>13. CASE Len(data) >= 10 /\ (Flag(2) => Len(data) >= 12)
    <2>1. extra = e
        <3>1. CASE Flag(2)
            <4>1. 11 \in 1..Len(data) /\ 12 \in 1..Len(data) /\ 10 + 1 = 11 /\ 11 + 1 = 12
                BY <1>1, <1>13, <3>1
            <4>2. Byte(10) = f[11] /\ Byte(11) = f[12]
                BY <1>1, <4>1 DEF Byte
            <4> QED
                BY <1>4, <1>9, <1>13, <3>1, <4>2
        <3>2. CASE ~Flag(2)
            BY <1>4, <1>9, <1>13, <3>2
        <3> QED
            BY <3>1, <3>2
    <2> HIDE DEF extra, e, n, c, s
    <2>2. Reached(f, extra, e)
        BY <1>8, <2>1 DEF Reached
    <2>3. Reached(f, name, n)
        <3>1. CASE Flag(3)
            <4>1. TextEnds(f, e, n) /\ n <= Len(f) /\ n \in Nat
                BY <1>1, <1>5, <1>8, <1>9, <1>13, <3>1
            <4>2. Reached(f, PastZero(extra), n)
                BY <1>1, <2>2, <4>1, PastZeroReads
            <4> QED
                BY <3>1, <4>2
        <3>2. CASE ~Flag(3)
            BY <1>5, <1>9, <1>13, <2>2, <3>2
        <3> QED
            BY <3>1, <3>2
    <2> HIDE DEF name
    <2>4. Reached(f, comment, c)
        <3>1. CASE Flag(4)
            <4>1. TextEnds(f, n, c) /\ c <= Len(f) /\ c \in Nat
                BY <1>1, <1>6, <1>8, <1>9, <1>13, <3>1
            <4>2. Reached(f, PastZero(name), c)
                BY <1>1, <2>3, <4>1, PastZeroReads
            <4> QED
                BY <3>1, <4>2
        <3>2. CASE ~Flag(4)
            BY <1>6, <1>9, <1>13, <2>3, <3>2
        <3> QED
            BY <3>1, <3>2
    <2> HIDE DEF comment
    <2>5. HeaderEnd = IF Flag(1) THEN comment + 2 ELSE comment
        BY DEF HeaderEnd, comment, name, extra
    <2>6. s = IF Flag(1) THEN c + 2 ELSE c
        BY <1>7, <1>9, <1>13
    <2>7. Reached(f, HeaderEnd, s)
        BY <1>1, <1>8, <2>4, <2>5, <2>6 DEF Reached
    <2>8. IF HeaderEnd < Len(data) THEN base' = HeaderEnd /\ mode' = "block" /\ UNCHANGED <<at, output>> ELSE mode' = "error"
        BY <1>10, <1>13 DEF ReadHeader, Refuse
    <2> HIDE DEF HeaderEnd
    <2>9. CASE HeaderEnd < Len(data)
        <3>1. HeaderEnd = s
            BY <1>1, <2>7, <2>9 DEF Reached
        <3> QED
            BY <1>1, <2>8, <2>9, <3>1 DEF s
    <2>10. CASE ~(HeaderEnd < Len(data))
        <3>1. data # f
            BY <1>1, <1>8, <2>7, <2>10 DEF Reached
        <3> QED
            BY <2>8, <2>10, <3>1
    <2> QED
        BY <2>9, <2>10
<1> QED
    BY <1>1, <1>11, <1>12, <1>13

----------------------------------------------------------------------------
(* The blocks of a stream *)

(* The modes within a block *)
Inside == {"block", "stored", "table", "lengths", "symbol"}

(* Where decompress is in a stream *)
InPart(blocks, k) ==
    InBlock(blocks[k], BlockEnds(blocks)[k - 1], Meant(blocks)[k - 1], k = Len(blocks))
InStream(stream) ==
    /\ base = stream.start
    /\ \E k \in 1..Len(stream.blocks) : InPart(stream.blocks, k)

(* A file of the format is one of bytes. *)
LEMMA HoldsIs ==
    ASSUME NEW f, NEW stream, Holds(f, stream)
    PROVE  /\ f \in Seq(Nat) /\ Len(f) \in Nat /\ HoldsHeader(f, stream)
           /\ Len(stream.blocks) \in Nat \ {0}
<1> DEFINE most == 255
<1>1. most \in Nat /\ f \in Seq(0..most)
    BY DEF Holds
<1> HIDE DEF most
<1>2. \A i \in 0..most : i \in Nat
    BY <1>1
<1>3. f \in Seq(Nat)
    <2>1. Len(f) \in Nat /\ f = [i \in 1..Len(f) |-> f[i]] /\ \A i \in 1..Len(f) : f[i] \in 0..most
        BY <1>1, LenProperties, ElementOfSeq
    <2>2. f \in [1..Len(f) -> Nat]
        BY <1>2, <2>1
    <2> QED
        BY <2>1, <2>2, SeqDef
<1> QED
    BY <1>3, LenProperties DEF Holds

(* Within the blocks, decompress stays behind the header. *)
LEMMA InsideSteps ==
    ASSUME mode \in Inside, InflateNext
    PROVE  base' = base /\ (ReadBlock \/ Stored \/ ReadTable \/ ReadLength \/ LengthsRead \/ ReadSymbol)
<1>1. ReadBlock \/ Stored \/ ReadTable \/ ReadLength \/ LengthsRead \/ ReadSymbol
    BY DEF InflateNext, ReadHeader, Inside
<1>2. CASE ReadBlock
    BY <1>1, <1>2 DEF ReadBlock, Refuse
<1>3. CASE Stored
    BY <1>1, <1>3 DEF Stored, Refuse
<1>4. CASE ReadTable
    BY <1>1, <1>4 DEF ReadTable, Refuse
<1>5. CASE ReadLength
    BY <1>1, <1>5 DEF ReadLength, Refuse
<1>6. CASE LengthsRead
    BY <1>1, <1>6 DEF LengthsRead
<1>7. CASE ReadSymbol
    BY <1>1, <1>7 DEF ReadSymbol, Refuse
<1> QED
    BY <1>1, <1>2, <1>3, <1>4, <1>5, <1>6, <1>7

(* A step of decompress in the k-th block of a file that has been cut: the *)
(* next symbol or the next block, or the end of either.                    *)
LEMMA StreamReads ==
    ASSUME InflateInv, NEW f, NEW stream, Holds(f, stream), Begins(data, f),
           mode \in Inside, InStream(stream), InflateNext
    PROVE  \/ mode' = "error" /\ data # f
           \/ mode' \in Inside /\ InStream(stream)'
           \/ mode' = "done" /\ output' = Meaning(stream.blocks)
<1> DEFINE blocks == stream.blocks
           n == Len(blocks)
<1>1. f \in Seq(Nat) /\ Len(f) \in Nat /\ n \in Nat \ {0}
    BY HoldsIs
<1>2. base = stream.start
    BY DEF InStream
<1>3. PICK k \in 1..n : InPart(blocks, k)
    BY DEF InStream
<1> DEFINE block == blocks[k]
           i == BlockEnds(blocks)[k - 1]
           done == Meant(blocks)[k - 1]
           last == (k = n)
<1>4. HoldsBlock(f, base, i, block, done, last)
    BY <1>2 DEF Holds
<1>5. InBlock(block, i, done, last)
    BY <1>3 DEF InPart
<1>6. last \in BOOLEAN
    OBVIOUS
<1>7. base' = stream.start /\ (ReadBlock \/ Stored \/ ReadTable \/ ReadLength \/ LengthsRead \/ ReadSymbol)
    BY <1>2, InsideSteps
<1>8. (InBlock(block, i, done, last))' => InStream(stream)'
    BY <1>3, <1>7 DEF InStream, InPart
<1>9. BlockEnds(blocks)[k] = BlockEnd(block, i)
    BY <1>1, BlockEndsUnfold
<1>10. Meant(blocks)[k] = After(block, done)
    BY <1>1, MeantUnfolds DEF After
<1>11. InflateInv'
    BY InflateSteps
<1> HIDE DEF block, i, done
<1>12. ASSUME Leaves(block, i, done, last)
       PROVE  \/ mode' \in Inside /\ InStream(stream)'
              \/ mode' = "done" /\ output' = Meaning(stream.blocks)
    <2>1. mode' = (IF last THEN "done" ELSE "block") /\ at' = BlockEnds(blocks)[k] /\ output' = Meant(blocks)[k]
        BY <1>9, <1>10, <1>12 DEF Leaves
    <2>2. CASE k = n
        BY <2>1, <2>2 DEF Meaning
    <2>3. CASE k # n
        <3> DEFINE r == k + 1
        <3>1. r \in 1..n /\ r - 1 = k
            BY <1>1, <2>3
        <3> HIDE DEF r
        <3>2. at' \in Nat
            BY <1>11 DEF InflateInv, BitsInv
        <3>3. mode' = "block"
            BY <2>1, <2>3
        <3>4. (InPart(blocks, r))'
            BY <2>1, <3>1, <3>2, <3>3 DEF InPart, InBlock
        <3>5. InStream(stream)'
            BY <1>7, <3>1, <3>4 DEF InStream
        <3> QED
            BY <3>3, <3>5 DEF Inside
    <2> QED
        BY <2>2, <2>3
<1> HIDE DEF last, blocks
<1>13. CASE ReadBlock
    BY <1>1, <1>4, <1>5, <1>6, <1>8, <1>13, ReadBlockReads DEF Inside
<1>14. CASE Stored
    BY <1>1, <1>4, <1>5, <1>6, <1>12, <1>14, StoredReads
<1>15. CASE ReadTable
    BY <1>1, <1>4, <1>5, <1>6, <1>8, <1>15, ReadTableReads DEF Inside
<1>16. CASE ReadLength
    BY <1>1, <1>4, <1>5, <1>6, <1>8, <1>16, ReadLengthReads DEF Inside
<1>17. CASE LengthsRead
    BY <1>1, <1>4, <1>5, <1>6, <1>8, <1>17, LengthsReadReads DEF Inside
<1>18. CASE ReadSymbol
    BY <1>1, <1>4, <1>5, <1>6, <1>8, <1>12, <1>18, ReadSymbolReads DEF Inside
<1> QED
    BY <1>7, <1>13, <1>14, <1>15, <1>16, <1>17, <1>18

----------------------------------------------------------------------------
(* The layers of a pull *)

(* What is extracted is a layer of the registry, cut somewhere. *)
LinkInv ==
    /\ pull = "blob" => call.resource = "layer"
    /\ pull = "extract" => doing = "idle" /\ sent \in Bodies["layer"] /\ Begins(file, sent)
    /\ mode # "idle" => pull = "extract" /\ data = file

(* How much of it has been decompressed is what the stream says. *)
ReadInv ==
    /\ mode = "gzip" => IsGzip(file) /\ output = <<>>
    /\ mode \in Inside => IsGzip(sent) /\ InStream(Streams[sent])
    /\ LayerWhole

(* What is taken for gzip is gzip. *)
LEMMA GzipBegins ==
    ASSUME NEW s, NEW t, Begins(s, t), IsGzip(s), Len(s) \in Nat, Len(t) \in Nat
    PROVE  IsGzip(t)
<1>1. 1 \in 1..Len(s) /\ 2 \in 1..Len(s) /\ Len(t) >= 2
    BY DEF IsGzip, Begins
<1> QED
    BY <1>1 DEF IsGzip, Begins

(* decompress goes on in a layer as its stream says. *)
LEMMA InflateReads ==
    ASSUME InflateInv, AskInv, LinkInv, ReadInv, InflateNext, UNCHANGED <<httpVars, pullVars, sent>>
    PROVE  LinkInv' /\ ReadInv'
<1>1. PICK f : f = sent
    BY Zenon
<1>2. mode # "idle" /\ mode \in {"gzip"} \cup Inside
    BY DEF InflateNext, ReadHeader, ReadBlock, Stored, ReadTable, ReadLength, LengthsRead, ReadSymbol, Inside
<1>3. /\ pull = "extract" /\ data = file /\ sent \in Bodies["layer"] /\ Begins(data, f)
      /\ data \in Seq(Nat) /\ Len(data) \in Nat
    BY <1>1, <1>2, LenProperties DEF LinkInv, InflateInv, BitsInv
<1>4. IsGzip(sent)
    <2>1. CASE mode = "gzip"
        <3>1. IsGzip(data)
            BY <1>3, <2>1 DEF ReadInv
        <3>2. Len(f) \in Nat
            BY <1>1, <1>3, HttpAssumption, RegistryAssumption, LenProperties
        <3> QED
            BY <1>1, <1>3, <3>1, <3>2, GzipBegins
    <2>2. CASE mode \in Inside
        BY <2>2 DEF ReadInv
    <2> QED
        BY <1>2, <2>1, <2>2
<1>5. PICK stream : stream = Streams[f]
    BY Zenon
<1>6. Holds(f, stream) /\ Contents[f] = Meaning(stream.blocks)
    BY <1>1, <1>3, <1>4, <1>5, DownloadAssumption
<1>7. f \in Seq(Nat) /\ HoldsHeader(f, stream) /\ Len(stream.blocks) \in Nat \ {0}
    BY <1>6, HoldsIs
<1>8. /\ data' = data /\ file' = file /\ sent' = sent /\ pull' = pull /\ doing' = doing /\ call' = call
    <2>1. data' = data
        BY DEF InflateNext, ReadHeader, ReadBlock, Stored, ReadTable, ReadLength, LengthsRead, ReadSymbol, Refuse
    <2>2. UNCHANGED httpVars /\ UNCHANGED pullVars /\ sent' = sent
        OBVIOUS
    <2>3. doing' = doing /\ call' = call
        BY <2>2 DEF httpVars
    <2>4. pull' = pull /\ file' = file
        BY <2>2 DEF pullVars
    <2> QED
        BY <2>1, <2>2, <2>3, <2>4
<1>9. LinkInv'
    BY <1>3, <1>8 DEF LinkInv
<1>10. \/ mode' = "error" /\ data # f
       \/ mode' \in Inside /\ InStream(stream)'
       \/ mode' = "done" /\ output' = Meaning(stream.blocks)
    <2>1. CASE mode = "gzip"
        <3>1. ReadHeader
            BY <2>1 DEF InflateNext, ReadHeader, ReadBlock, Stored, ReadTable, ReadLength, LengthsRead, ReadSymbol
        <3>2. output = <<>>
            BY <2>1 DEF ReadInv
        <3>3. CASE mode' = "error" /\ data # f
            BY <3>3
        <3>4. CASE mode' = "block" /\ base' = stream.start /\ at' = 0 /\ output' = output
            <4> DEFINE blocks == stream.blocks
                       r == 1
            <4>1. r \in 1..Len(blocks) /\ r - 1 = 0
                BY <1>7
            <4>2. BlockEnds(blocks)[0] = 0 /\ Meant(blocks)[0] = <<>>
                BY <1>7, BlockEndsUnfold, MeantUnfolds
            <4> HIDE DEF r, blocks
            <4>3. (InPart(blocks, r))'
                BY <3>2, <3>4, <4>1, <4>2 DEF InPart, InBlock
            <4>4. InStream(stream)'
                BY <3>4, <4>1, <4>3 DEF InStream, blocks
            <4> QED
                BY <3>4, <4>4 DEF Inside
        <3> QED
            BY <1>3, <1>7, <3>1, <3>3, <3>4, ReadHeaderReads
    <2>2. CASE mode \in Inside
        <3>1. InStream(stream)
            BY <1>1, <1>5, <2>2 DEF ReadInv
        <3> QED
            BY <1>3, <1>6, <2>2, <3>1, StreamReads
    <2> QED
        BY <1>2, <2>1, <2>2
<1>11. mode' # "gzip"
    BY <1>10 DEF Inside
<1>12. mode' \in Inside => IsGzip(sent)' /\ InStream(Streams[sent])'
    <2>1. mode' \in Inside => InStream(stream)'
        BY <1>10 DEF Inside
    <2>2. Streams[sent'] = stream
        BY <1>1, <1>5, <1>8
    <2>3. InStream(Streams[sent])' <=> InStream(stream)'
        BY <2>2 DEF InStream
    <2>4. IsGzip(sent)' <=> IsGzip(sent)
        BY <1>8 DEF IsGzip
    <2> QED
        BY <1>4, <2>1, <2>3, <2>4
<1>13. mode' = "done" => output' = Contents[sent']
    BY <1>1, <1>6, <1>8, <1>10 DEF Inside
<1>14. mode' = "error" => file' # sent'
    BY <1>1, <1>3, <1>8, <1>10 DEF Inside
<1>15. LayerWhole'
    BY <1>13, <1>14 DEF LayerWhole
<1> QED
    BY <1>9, <1>11, <1>12, <1>15 DEF ReadInv

(* extract_layer: what is not gzip is taken as it is. *)
LEMMA ExtractReads ==
    ASSUME InflateInv, AskInv, LinkInv, ReadInv, ExtractLayer
    PROVE  LinkInv' /\ ReadInv'
<1>1. /\ pull = "extract" /\ data' = file
      /\ mode' = (IF IsGzip(file) THEN "gzip" ELSE "done")
      /\ output' = (IF IsGzip(file) THEN <<>> ELSE file)
      /\ file' = file /\ sent' = sent /\ pull' = pull /\ doing' = doing /\ call' = call
    BY DEF ExtractLayer, httpVars, pullVars
<1>2. sent \in Bodies["layer"] /\ Begins(file, sent) /\ file \in Seq(Nat) /\ Len(file) \in Nat
    BY <1>1, LenProperties DEF LinkInv, AskInv, PullTypeOK
<1>3. LinkInv'
    BY <1>1 DEF LinkInv
<1>4. IsGzip(sent) /\ ~IsGzip(file) => Len(file) < 2
    <2> SUFFICES ASSUME IsGzip(sent), Len(file) >= 2 PROVE IsGzip(file)
        BY <1>2
    <2>1. 1 \in 1..Len(file) /\ 2 \in 1..Len(file)
        BY <1>2
    <2> QED
        BY <1>2, <2>1 DEF IsGzip, Begins
<1>5. mode' = "gzip" => IsGzip(file') /\ output' = <<>>
    BY <1>1
<1>6. mode' \notin Inside /\ mode' # "error"
    BY <1>1 DEF Inside
<1>7. mode' = "done" => output' = file' /\ (IsGzip(sent') => Len(file') < 2)
    BY <1>1, <1>4
<1>8. LayerWhole'
    BY <1>6, <1>7 DEF LayerWhole
<1> QED
    BY <1>3, <1>5, <1>6, <1>8 DEF ReadInv

(* Outside of an extraction *)
LEMMA NothingRead ==
    ASSUME mode' = "idle"
    PROVE  ReadInv'
BY DEF ReadInv, LayerWhole, Inside

(* get_blob: what is extracted has come from a registry. *)
LEMMA NetworkReads ==
    ASSUME HttpInv, AskInv, LinkInv, ReadInv, Network
    PROVE  LinkInv' /\ ReadInv'
<1>1. PullNext /\ sent' = (IF pull = "blob" THEN reply.body ELSE sent) /\ UNCHANGED inflateVars
    BY DEF Network
<1>2. pull # "extract"
    <2> SUFFICES ASSUME pull = "extract" PROVE FALSE
        OBVIOUS
    <2>1. doing = "idle"
        BY DEF LinkInv
    <2>2. ~(Start \/ Challenged \/ GetToken \/ FetchManifest \/ FetchByDigest \/ NextLayer \/ GetBlob \/ CallFails)
        BY <2>1 DEF Start, Challenged, GetToken, FetchManifest, FetchByDigest, NextLayer, GetBlob, CallFails, Answered
    <2>3. ~HttpNext
        BY <2>1 DEF HttpNext, Hop, Redirect, RawGet, CurlGet, CurlFollow, CurlEnd, Parse, Chunk, OpenHandle, SendRequest,
                    ReceiveResponse, ReadData, Opens
    <2> QED
        BY <1>1, <2>2, <2>3 DEF PullNext
<1>3. mode = "idle" /\ mode' = "idle"
    BY <1>1, <1>2 DEF LinkInv, inflateVars
<1>4. \/ pull' \notin {"blob", "extract"}
      \/ pull' = "blob" /\ call'.resource = "layer"
      \/ pull' = "extract" /\ GetBlob
    <2>1. CASE Start \/ Challenged \/ GetToken
        <3>1. pull' \in {"token", "challenge", "manifest", "error"}
            BY <2>1 DEF Start, Challenged, GetToken, Request, Give
        <3> QED
            BY <3>1
    <2>2. CASE FetchManifest \/ FetchByDigest
        <3>1. pull' \in {"layers", "entry", "error"}
            BY <2>2 DEF FetchManifest, FetchByDigest, ParseManifest, ResolveManifestList, Request, Give
        <3> QED
            BY <3>1
    <2>3. CASE NextLayer
        <3>1. pull' \in {"saved", "panic"} \/ Request("blob", "layer", token, TRUE)
            BY <2>3 DEF NextLayer
        <3>2. CASE Request("blob", "layer", token, TRUE)
            BY <3>2 DEF Request, Ask
        <3> QED
            BY <3>1, <3>2
    <2>4. CASE GetBlob
        BY <2>4 DEF GetBlob, Give
    <2>5. CASE CallFails
        BY <2>5 DEF CallFails, Give
    <2>6. CASE HttpNext /\ UNCHANGED pullVars
        BY <1>2, <2>6, CallGoesOn DEF LinkInv, pullVars
    <2> QED
        BY <1>1, <2>1, <2>2, <2>3, <2>4, <2>5, <2>6 DEF PullNext
<1>5. pull' = "extract" => doing' = "idle" /\ sent' \in Bodies["layer"] /\ Begins(file', sent')
    <2> SUFFICES ASSUME pull' = "extract"
                 PROVE  doing' = "idle" /\ sent' \in Bodies["layer"] /\ Begins(file', sent')
        OBVIOUS
    <2>1. GetBlob
        BY <1>4
    <2>2. /\ pull = "blob" /\ doing = "answer" /\ reply.status = 200 /\ file' = body /\ doing' = "idle"
        BY <2>1 DEF GetBlob, Answered, Give
    <2>3. sent' = reply.body /\ call.resource = "layer" /\ Begins(body, reply.body)
        BY <1>1, <2>2 DEF LinkInv, HttpInv, BodyInv
    <2>4. reply.body \in Bodies["layer"]
        BY <2>2, <2>3, AnsweredBody, RegistryAssumption DEF HttpInv, ReplyInv, Replied
    <2> QED
        BY <2>2, <2>3, <2>4
<1> QED
    BY <1>3, <1>4, <1>5, NothingRead DEF LinkInv

(* At first nothing is extracted. *)
LEMMA ReadStart == Init => LinkInv /\ ReadInv
BY DEF Init, PullInit, LinkInv, ReadInv, LayerWhole, Inside

(* No step of a pull loses the layer. *)
LEMMA WholeKeeps ==
    ASSUME HttpInv, AskInv, InflateInv, LinkInv, ReadInv, [Next]_downloadVars
    PROVE  LinkInv' /\ ReadInv'
<1>1. CASE Network
    BY <1>1, NetworkReads
<1>2. CASE ExtractLayer
    BY <1>2, ExtractReads
<1>3. CASE Extracted
    <2>1. mode' = "idle" /\ pull' \in {"layers", "error"}
        BY <1>3 DEF Extracted, Idle
    <2>2. LinkInv'
        BY <2>1 DEF LinkInv
    <2> QED
        BY <2>1, <2>2, NothingRead
<1>4. CASE InflateNext /\ UNCHANGED <<httpVars, pullVars, sent>>
    BY <1>4, InflateReads
<1>5. CASE UNCHANGED downloadVars
    <2>1. UNCHANGED <<pull, doing, call, sent, file, mode, data, output, base, at, final, table, trees>>
        BY <1>5 DEF downloadVars, httpVars, pullVars, inflateVars
    <2>2. LinkInv'
        BY <2>1 DEF LinkInv
    <2>3. LayerWhole'
        BY <2>1 DEF ReadInv, LayerWhole
    <2>4. InStream(Streams[sent])' <=> InStream(Streams[sent])
        BY <2>1 DEF InStream, InPart, InBlock, InLengths, InSymbols
    <2>5. IsGzip(sent)' <=> IsGzip(sent)
        BY <2>1 DEF IsGzip
    <2>6. IsGzip(file)' <=> IsGzip(file)
        BY <2>1 DEF IsGzip
    <2> QED
        BY <2>1, <2>2, <2>3, <2>4, <2>5, <2>6 DEF ReadInv
<1> QED
    BY <1>1, <1>2, <1>3, <1>4, <1>5 DEF Next

(* pull_image and decompress: whatever layer in the format a server has,   *)
(* of however many blocks, tables and copies, and wherever its download is *)
(* cut, it is extracted as it is or refused, and it is not refused when it *)
(* has come whole.                                                         *)
THEOREM LayersWhole == Spec => []LayerWhole
<1>1. Init => InflateInv /\ LinkInv /\ ReadInv
    BY InflateStart, ReadStart
<1>2. ASSUME HttpInv, AskInv, InflateInv, LinkInv, ReadInv, [Next]_downloadVars
      PROVE  InflateInv' /\ LinkInv' /\ ReadInv'
    BY <1>2, InflateKeeps, WholeKeeps
<1>3. ReadInv => LayerWhole
    BY DEF ReadInv
<1> QED
    BY <1>1, <1>2, <1>3, DownloadInvariant, PTL DEF Spec

----------------------------------------------------------------------------
(* What compress_simple writes *)

(* One sequence behind another *)
IsJoined(u, s, t, a, b) ==
    /\ Len(u) = a + b
    /\ \A j \in 1..(a + b) : u[j] = IF j <= a THEN s[j] ELSE t[j - a]

LEMMA JoinedAt ==
    ASSUME NEW S, NEW s \in Seq(S), NEW t \in Seq(S)
    PROVE  s \o t \in Seq(S) /\ IsJoined(s \o t, s, t, Len(s), Len(t))
BY ConcatProperties DEF IsJoined

(* Pieces that follow each other: the end of the k-th is ends[k]. *)
FollowEachOther(pieces, n, ends) ==
    /\ ends \in [0..n -> Nat] /\ ends[0] = 0
    /\ \A k \in 1..n : pieces[k] \in Seq(Bytes) /\ ends[k] = ends[k - 1] + Len(pieces[k])

(* The first m of them, put together *)
Together(whole, pieces, m, ends) ==
    /\ whole \in Seq(Bytes) /\ Len(whole) = ends[m]
    /\ \A k \in 1..m : \A j \in 1..Len(pieces[k]) : whole[ends[k - 1] + j] = pieces[k][j]

(* No piece ends before one that it follows. *)
LEMMA EndsGrow ==
    ASSUME NEW pieces, NEW n \in Nat, NEW ends, FollowEachOther(pieces, n, ends),
           NEW k \in 1..n, NEW m \in k..n
    PROVE  ends[k] <= ends[m]
<1> DEFINE W == {i \in Nat : k + i <= n => ends[k] <= ends[k + i]}
<1>1. 0 \in W
    <2>1. k + 0 = k /\ ends[k] \in Nat
        BY DEF FollowEachOther
    <2> QED
        BY <2>1
<1>2. ASSUME NEW i \in 0..(n - k - 1), i \in W PROVE i + 1 \in W
    <2> DEFINE q == k + (i + 1)
    <2>1. i \in Nat /\ i + 1 \in Nat /\ k + i <= n /\ q \in 1..n /\ q - 1 = k + i /\ q - 1 \in 0..n
        OBVIOUS
    <2>2. ends[k] <= ends[q - 1]
        BY <1>2, <2>1
    <2> HIDE DEF q
    <2>3. pieces[q] \in Seq(Bytes) /\ ends[q] = ends[q - 1] + Len(pieces[q]) /\ ends[q - 1] \in Nat /\ ends[k] \in Nat
        BY <2>1 DEF FollowEachOther
    <2>4. Len(pieces[q]) \in Nat
        BY <2>3, LenProperties
    <2>5. ends[k] <= ends[q]
        BY <2>2, <2>3, <2>4
    <2> QED
        BY <2>1, <2>5 DEF q
<1> HIDE DEF W
<1>3. n - k \in Nat /\ n - k - 1 = n - k - 1 /\ m - k \in 0..(n - k) /\ k + (m - k) = m /\ m <= n
    OBVIOUS
<1>4. m - k \in W
    BY <1>1, <1>2, <1>3, Induction
<1> QED
    BY <1>3, <1>4 DEF W

(* One more piece *)
LEMMA OneMorePiece ==
    ASSUME NEW pieces, NEW n \in Nat, NEW ends, FollowEachOther(pieces, n, ends),
           NEW m \in 0..(n - 1), NEW whole, Together(whole, pieces, m, ends)
    PROVE  Together(whole \o pieces[m + 1], pieces, m + 1, ends)
<1> DEFINE p == pieces[m + 1]
           longer == whole \o p
<1>1. m + 1 \in 1..n /\ m \in 0..n /\ m + 1 - 1 = m /\ m \in Nat
    OBVIOUS
<1>2. p \in Seq(Bytes) /\ ends[m + 1] = ends[m] + Len(p) /\ ends[m] \in Nat
    BY <1>1 DEF FollowEachOther
<1>3. whole \in Seq(Bytes) /\ Len(whole) = ends[m]
    BY DEF Together
<1>4. longer \in Seq(Bytes) /\ Len(longer) = Len(whole) + Len(p) /\ Len(p) \in Nat
    BY <1>2, <1>3, ConcatProperties, LenProperties
<1>0. \A i \in 1..(Len(whole) + Len(p)) :
          longer[i] = IF i <= Len(whole) THEN whole[i] ELSE p[i - Len(whole)]
    BY <1>2, <1>3, ConcatProperties
<1> HIDE DEF p, longer
<1>5. \A j \in 1..Len(whole) : longer[j] = whole[j]
    <2> SUFFICES ASSUME NEW j \in 1..Len(whole) PROVE longer[j] = whole[j]
        OBVIOUS
    <2>1. j \in 1..(Len(whole) + Len(p)) /\ j <= Len(whole)
        BY <1>2, <1>3, <1>4
    <2> QED
        BY <1>0, <2>1
<1>6. \A j \in 1..Len(p) : longer[ends[m] + j] = p[j]
    <2> SUFFICES ASSUME NEW j \in 1..Len(p) PROVE longer[ends[m] + j] = p[j]
        OBVIOUS
    <2> DEFINE x == ends[m] + j
    <2>1. x \in 1..(Len(whole) + Len(p)) /\ ~(x <= Len(whole)) /\ x - Len(whole) = j
        BY <1>2, <1>3, <1>4
    <2> HIDE DEF x
    <2>2. longer[x] = p[x - Len(whole)]
        BY <1>0, <2>1
    <2> QED
        BY <2>1, <2>2 DEF x
<1>7. ASSUME NEW k \in 1..(m + 1), NEW j \in 1..Len(pieces[k]) PROVE longer[ends[k - 1] + j] = pieces[k][j]
    <2>1. CASE k = m + 1
        <3>1. k - 1 = m /\ pieces[k] = p
            BY <1>1, <2>1 DEF p
        <3>2. j \in 1..Len(p)
            BY <3>1
        <3> QED
            BY <1>6, <3>1, <3>2
    <2>2. CASE k # m + 1
        <3>1. k \in 1..m /\ k \in 1..n /\ k - 1 \in 0..n
            BY <1>1, <2>2
        <3>2. whole[ends[k - 1] + j] = pieces[k][j]
            BY <3>1 DEF Together
        <3>3. ends[k - 1] + j \in 1..Len(whole)
            <4>1. ends[k] <= ends[m]
                <5>1. m \in k..n
                    BY <1>1, <3>1
                <5> QED
                    BY <3>1, <5>1, EndsGrow
            <4>2. ends[k] = ends[k - 1] + Len(pieces[k]) /\ ends[k - 1] \in Nat /\ Len(pieces[k]) \in Nat
                <5>1. pieces[k] \in Seq(Bytes)
                    BY <3>1 DEF FollowEachOther
                <5> QED
                    BY <3>1, <5>1, LenProperties DEF FollowEachOther
            <4>3. Len(whole) = ends[m] /\ ends[m] \in Nat /\ ends[k] \in Nat /\ j \in 1..Len(pieces[k])
                BY <1>2, <1>3, <3>1 DEF FollowEachOther
            <4> DEFINE a == ends[k - 1]
                       l == Len(pieces[k])
                       c == ends[m]
            <4>4. a \in Nat /\ l \in Nat /\ c \in Nat /\ j \in 1..l /\ a + l <= c
                BY <4>1, <4>2, <4>3
            <4> HIDE DEF a, l, c
            <4>5. a + j \in 1..c
                BY <4>4
            <4> QED
                BY <4>3, <4>5 DEF a, c
        <3> QED
            BY <1>5, <3>2, <3>3
    <2> QED
        BY <2>1, <2>2
<1>8. longer \in Seq(Bytes) /\ Len(longer) = ends[m + 1]
    BY <1>2, <1>3, <1>4
<1>9. Together(longer, pieces, m + 1, ends)
    BY <1>7, <1>8 DEF Together
<1> QED
    BY <1>9 DEF longer, p

(* FlattenSeq puts all of them together. *)
LEMMA FlattenIs ==
    ASSUME NEW pieces, NEW n \in Nat \ {0}, Len(pieces) = n, NEW ends, FollowEachOther(pieces, n, ends)
    PROVE  Together(FlattenSeq(pieces), pieces, n, ends)
<1> DEFINE Is(f) == f = [i \in 1..n |-> IF i = 1 THEN pieces[i] ELSE f[i - 1] \o pieces[i]]
           flatten == CHOOSE f : Is(f)
           S == Seq(Bytes)
           step == [k \in 1..n |-> [s \in S |-> s \o pieces[k]]]
<1>1. FlattenSeq(pieces) = flatten[n]
    BY DEF FlattenSeq
<1>2. ASSUME NEW k \in 1..n PROVE pieces[k] \in S
    BY DEF FollowEachOther
<1>3. \E f : Is(f)
    <2>1. step \in Steps(n, S)
        <3>1. ASSUME NEW k \in 1..n, NEW s \in S PROVE s \o pieces[k] \in S
            BY <1>2, ConcatProperties
        <3> HIDE DEF S
        <3> QED
            BY <3>1 DEF Steps
    <2>2. <<>> \in S
        OBVIOUS
    <2> HIDE DEF S, step
    <2>3. PICK g : Stepped(n, S, <<>>, step, g)
        BY <2>1, <2>2, Recursion
    <2> DEFINE f == [i \in 1..n |-> g[i]]
    <2>4. ASSUME NEW i \in 1..n PROVE g[i] = IF i = 1 THEN pieces[i] ELSE f[i - 1] \o pieces[i]
        <3>1. g[i] = step[i][g[i - 1]] /\ g[i - 1] \in S
            <4>1. i - 1 \in 0..n
                OBVIOUS
            <4> QED
                BY <4>1, <2>3 DEF Stepped
        <3>2. g[i] = g[i - 1] \o pieces[i]
            BY <3>1 DEF step
        <3>3. CASE i = 1
            <4>1. g[i - 1] = <<>>
                BY <2>3, <3>3 DEF Stepped
            <4>2. <<>> \o pieces[i] = pieces[i]
                BY <1>2 DEF S
            <4> QED
                BY <3>2, <3>3, <4>1, <4>2
        <3>4. CASE i # 1
            <4>1. i - 1 \in 1..n
                BY <3>4
            <4> QED
                BY <3>2, <3>4, <4>1
        <3> QED
            BY <3>3, <3>4
    <2>5. Is(f)
        <3> DEFINE v(i) == IF i = 1 THEN pieces[i] ELSE f[i - 1] \o pieces[i]
        <3>1. \A i \in 1..n : g[i] = v(i)
            BY <2>4
        <3> HIDE DEF v
        <3>2. f = [i \in 1..n |-> v(i)]
            BY <3>1
        <3> QED
            BY <3>2 DEF v
    <2> HIDE DEF Is
    <2> QED
        BY <2>5
<1> HIDE DEF Is
<1>4. Is(flatten)
    BY <1>3
<1> HIDE DEF flatten
<1>5. ASSUME NEW i \in 1..n PROVE flatten[i] = IF i = 1 THEN pieces[i] ELSE flatten[i - 1] \o pieces[i]
    BY <1>4 DEF Is
<1> DEFINE W == {m \in Nat : m + 1 <= n => Together(flatten[m + 1], pieces, m + 1, ends)}
<1>6. 0 \in W
    <2>1. Together(<<>>, pieces, 0, ends)
        BY DEF Together, FollowEachOther
    <2>2. 0 \in 0..(n - 1) /\ 0 + 1 = 1 /\ 1 \in 1..n
        OBVIOUS
    <2>3. Together(<<>> \o pieces[1], pieces, 1, ends)
        BY <2>1, <2>2, OneMorePiece
    <2>4. <<>> \o pieces[1] = pieces[1] /\ flatten[1] = pieces[1]
        BY <1>2, <1>5, <2>2
    <2> QED
        BY <2>2, <2>3, <2>4
<1>7. ASSUME NEW m \in 0..(n - 2), m \in W PROVE m + 1 \in W
    <2>1. m \in Nat /\ m + 1 \in 0..(n - 1) /\ m + 1 \in Nat /\ m + 1 <= n /\ m + 1 + 1 \in 1..n
          /\ m + 1 + 1 # 1 /\ m + 1 + 1 - 1 = m + 1
        OBVIOUS
    <2>2. Together(flatten[m + 1], pieces, m + 1, ends)
        BY <1>7, <2>1
    <2> DEFINE q == m + 1 + 1
    <2>5. q \in 1..n /\ q # 1 /\ q - 1 = m + 1
        BY <2>1
    <2> HIDE DEF q
    <2>6. flatten[q] = flatten[m + 1] \o pieces[q]
        BY <1>5, <2>5
    <2>3. flatten[m + 1 + 1] = flatten[m + 1] \o pieces[m + 1 + 1]
        BY <2>6 DEF q
    <2>4. Together(flatten[m + 1 + 1], pieces, m + 1 + 1, ends)
        BY <2>1, <2>2, <2>3, OneMorePiece
    <2> QED
        BY <2>1, <2>4
<1> HIDE DEF W
<1>8. n - 1 \in W
    <2>1. n - 1 \in Nat /\ n - 1 - 1 = n - 2 /\ n - 1 \in 0..(n - 1)
        OBVIOUS
    <2> QED
        BY <1>6, <1>7, <2>1, Induction
<1>9. n - 1 + 1 = n
    OBVIOUS
<1> QED
    BY <1>1, <1>8, <1>9 DEF W

(* Blocks are of 65535 bytes in the code. *)
IsBlockSize(size) == size \in Nat \ {0} /\ size < 2^16

(* How much of the data the first k blocks have, and where they end *)
OwnPlace(bytes, size, k) == IF k * size <= Len(bytes) THEN k * size ELSE Len(bytes)
OwnEnd(bytes, size, k) == OwnPlace(bytes, size, k) + 5 * k

(* The loop of compress_simple ends with the block that it marks as the    *)
(* last, and with all the data.                                            *)
LEMMA OwnBlocksAre ==
    ASSUME NEW bytes \in Seq(Bytes), NEW size \in Nat \ {0}
    PROVE  /\ OwnBlocks(bytes, size) \in Nat \ {0}
           /\ OwnPlace(bytes, size, 0) = 0
           /\ OwnPlace(bytes, size, OwnBlocks(bytes, size)) = Len(bytes)
           /\ \A k \in 1..OwnBlocks(bytes, size) :
                 /\ LastBlock(bytes, size, k) <=> k = OwnBlocks(bytes, size)
                 /\ (k - 1) * size <= Len(bytes)
<1> DEFINE l == Len(bytes)
           a == l + size - 1
           q == a \div size
           B == OwnBlocks(bytes, size)
<1>1. l \in Nat /\ size \in Nat \ {0} /\ a \in Nat
    BY LenProperties
<1>2. B = Max({1, q})
    BY DEF OwnBlocks
<1>3. OwnPlace(bytes, size, 0) = 0
    <2>1. 0 * size = 0
        OBVIOUS
    <2> QED
        BY <1>1, <2>1 DEF OwnPlace
<1>4. LastBlock(bytes, size, B) <=> B * size >= l
    BY DEF LastBlock
<1> HIDE DEF l, B
<1>5. q \in Nat /\ q * size <= a /\ a < q * size + size
    <2> HIDE DEF a
    <2> QED
        BY <1>1
<1> HIDE DEF q
<1>6. B = IF q = 0 THEN 1 ELSE q
    <2>1. {1, q} \subseteq Int /\ \E x \in {1, q} : \A y \in {1, q} : x >= y
        BY <1>5
    <2>2. Max({1, q}) \in {1, q} /\ Max({1, q}) >= 1 /\ Max({1, q}) >= q
        BY <2>1 DEF Max
    <2> HIDE DEF Max
    <2> QED
        BY <1>2, <1>5, <2>2
<1>7. B \in Nat \ {0} /\ B * size >= l /\ (B - 1) * size <= l /\ (B # 1 => (B - 1) * size < l)
    <2>1. CASE q = 0
        <3>1. B = 1 /\ q * size = 0 /\ (B - 1) * size = 0 /\ B * size = size
            BY <1>1, <1>6, <2>1
        <3> QED
            BY <1>1, <1>5, <3>1 DEF a
    <2>2. CASE q # 0
        <3>1. B = q /\ B \in Nat \ {0}
            BY <1>5, <1>6, <2>2
        <3>2. (B - 1) * size = q * size - size /\ q * size \in Nat
            BY <1>1, <1>5, <3>1
        <3> DEFINE x == q * size
        <3>3. x \in Nat /\ x <= l + size - 1 /\ l + size - 1 < x + size /\ B * size = x /\ (B - 1) * size = x - size
            BY <1>5, <3>1, <3>2 DEF a
        <3> HIDE DEF x
        <3> QED
            BY <1>1, <3>1, <3>3
    <2> QED
        BY <2>1, <2>2
<1>8. ASSUME NEW k \in 1..B
      PROVE  (k * size >= l <=> k = B) /\ (k - 1) * size <= l
    <2>1. CASE k = B
        BY <1>7, <2>1
    <2>2. CASE k # B
        <3>1. k <= B - 1 /\ B # 1 /\ k \in Nat \ {0} /\ B - 1 \in Nat
            BY <1>7, <2>2
        <3>2. k * size <= (B - 1) * size /\ k * size \in Nat /\ (B - 1) * size \in Nat
            BY <1>1, <3>1
        <3>3. (k - 1) * size = k * size - size
            BY <1>1, <3>1
        <3> DEFINE x == k * size
                   y == (B - 1) * size
        <3>4. x \in Nat /\ y \in Nat /\ x <= y /\ y < l /\ (k - 1) * size = x - size
            BY <1>7, <3>1, <3>2, <3>3
        <3> HIDE DEF x, y
        <3>5. ~(x >= l) /\ x - size <= l
            BY <1>1, <3>4
        <3> QED
            BY <2>2, <3>4, <3>5 DEF x
    <2> QED
        BY <2>1, <2>2
<1>9. OwnPlace(bytes, size, B) = l
    <2> DEFINE x == B * size
    <2>1. x \in Nat /\ x >= l
        BY <1>1, <1>7
    <2>2. OwnPlace(bytes, size, B) = IF x <= l THEN x ELSE l
        BY DEF OwnPlace, l
    <2> HIDE DEF x
    <2> QED
        BY <1>1, <2>1, <2>2
<1> QED
    BY <1>3, <1>7, <1>8, <1>9 DEF l, B, LastBlock

(* What a block has of the data *)
LEMMA OwnPartIs ==
    ASSUME NEW bytes \in Seq(Bytes), NEW size, IsBlockSize(size), NEW k \in 1..OwnBlocks(bytes, size)
    PROVE  /\ OwnPlace(bytes, size, k) \in Nat /\ OwnPlace(bytes, size, k - 1) \in Nat
           /\ OwnPlace(bytes, size, k - 1) <= OwnPlace(bytes, size, k)
           /\ OwnPlace(bytes, size, k) <= Len(bytes)
           /\ OwnPart(bytes, size, k) = SubSeq(bytes, OwnPlace(bytes, size, k - 1) + 1, OwnPlace(bytes, size, k))
           /\ OwnPart(bytes, size, k) \in Seq(Bytes)
           /\ Len(OwnPart(bytes, size, k)) = OwnPlace(bytes, size, k) - OwnPlace(bytes, size, k - 1)
           /\ Len(OwnPart(bytes, size, k)) < 2^16
<1> DEFINE l == Len(bytes)
           x == k * size
           y == (k - 1) * size
           p == OwnPlace(bytes, size, k - 1)
           r == OwnPlace(bytes, size, k)
           part == OwnPart(bytes, size, k)
<1>1. l \in Nat /\ size \in Nat \ {0} /\ size < 2^16 /\ OwnBlocks(bytes, size) \in Nat
    BY LenProperties, OwnBlocksAre DEF IsBlockSize
<1>2. k \in Nat \ {0} /\ k - 1 \in Nat
    BY <1>1
<1>3. y \in Nat /\ x = y + size /\ y <= l
    BY <1>1, <1>2, OwnBlocksAre DEF IsBlockSize
<1>4. part = SubSeq(bytes, y + 1, Min({x, l}))
    BY DEF OwnPart
<1>5. p = (IF y <= l THEN y ELSE l) /\ r = (IF x <= l THEN x ELSE l)
    BY DEF OwnPlace
<1> HIDE DEF l, x, y, p, r, part
<1>6. p = y /\ r \in Nat /\ p \in Nat /\ p <= r /\ r <= l /\ r - p < 2^16
    BY <1>1, <1>3, <1>5
<1>7. Min({x, l}) = r
    <2>1. x \in Nat
        BY <1>1, <1>3
    <2>2. {x, l} \subseteq Int /\ \E m \in {x, l} : \A n \in {x, l} : m <= n
        BY <1>1, <2>1
    <2>3. Min({x, l}) \in {x, l} /\ Min({x, l}) <= x /\ Min({x, l}) <= l
        BY <2>2 DEF Min
    <2> QED
        BY <1>1, <1>5, <2>1, <2>3
<1>8. part = SubSeq(bytes, p + 1, r)
    <2>1. p = y
        BY <1>6
    <2> QED
        BY <1>4, <1>7, <2>1
<1>9. part \in Seq(Bytes) /\ Len(part) = r - p
    <2>1. p + 1 \in 1..(Len(bytes) + 1) /\ r \in p..Len(bytes)
        BY <1>1, <1>6 DEF l
    <2>2. p + 1 \in Int /\ r \in Int
        BY <1>6
    <2>3. part \in Seq(Bytes)
        BY <1>8, <2>1, SubSeqProperties
    <2>4. Len(part) = IF p + 1 <= r THEN r - (p + 1) + 1 ELSE 0
        BY <1>8, <2>1, <2>2, SubSeqProperties
    <2> QED
        BY <1>6, <2>3, <2>4
<1>10. Len(part) < 2^16
    BY <1>6, <1>9
<1> QED
    BY <1>6, <1>8, <1>9, <1>10 DEF l, p, r, part

(* A binary digit of a number *)
Digit(v, i) == (v \div 2^i) % 2

(* A number in two bytes has the digits of the number. *)
InBytes(v, d, e) == ((v % 256) \div d) % 2 = (v \div d) % 2 /\ ((v \div 256) \div d) % 2 = (v \div e) % 2

LEMMA TwoBytes ==
    ASSUME NEW v \in Nat, NEW j \in 0..7
    PROVE  Digit(v % 256, j) = Digit(v, j) /\ Digit(v \div 256, j) = Digit(v, j + 8)
<1> DEFINE Powered(i, p, q) == 2^i = p /\ 2^(i + 8) = q
           Same(i) == InBytes(v, 2^i, 2^(i + 8))
<1>1. InBytes(v, 1, 256)
    BY DEF InBytes
<1>2. InBytes(v, 2, 512)
    BY DEF InBytes
<1>3. InBytes(v, 4, 1024)
    BY DEF InBytes
<1>4. InBytes(v, 8, 2048)
    BY DEF InBytes
<1>5. InBytes(v, 16, 4096)
    BY DEF InBytes
<1>6. InBytes(v, 32, 8192)
    BY DEF InBytes
<1>7. InBytes(v, 64, 16384)
    BY DEF InBytes
<1>8. InBytes(v, 128, 32768)
    BY DEF InBytes
<1>9. /\ Powered(0, 1, 256) /\ Powered(1, 2, 512) /\ Powered(2, 4, 1024) /\ Powered(3, 8, 2048)
      /\ Powered(4, 16, 4096) /\ Powered(5, 32, 8192) /\ Powered(6, 64, 16384) /\ Powered(7, 128, 32768)
    OBVIOUS
<1>10. ASSUME NEW i, NEW p, NEW q, Powered(i, p, q), InBytes(v, p, q) PROVE Same(i)
    BY <1>10
<1> HIDE DEF Powered, Same
<1>11. /\ Same(0) /\ Same(1) /\ Same(2) /\ Same(3) /\ Same(4) /\ Same(5) /\ Same(6) /\ Same(7)
    BY <1>1, <1>2, <1>3, <1>4, <1>5, <1>6, <1>7, <1>8, <1>9, <1>10
<1>12. j \in {0, 1, 2, 3, 4, 5, 6, 7}
    OBVIOUS
<1>13. Same(j)
    BY <1>11, <1>12
<1> QED
    BY <1>13 DEF Same, InBytes, Digit

LEMMA SixteenBits ==
    ASSUME NEW v \in Nat
    PROVE  Number(v, 16) \in Seq(Nat) /\ Len(Number(v, 16)) = 16
<1>1. 16 \in 0..16
    OBVIOUS
<1> QED
    BY <1>1, NumberIs

(* A number of two bytes stands where the bytes are. *)
IsWord(v, low, high) == low = v % 256 /\ high = v \div 256

LEMMA NumberStands ==
    ASSUME NEW f, Len(f) \in Nat, NEW start \in Nat, NEW m \in Nat, NEW v \in Nat, start + m + 2 <= Len(f),
           IsWord(v, f[start + m + 1], f[start + m + 2])
    PROVE  Stands(f, start, 8 * m, Number(v, 16))
<1> DEFINE bits == Number(v, 16)
           low == f[start + m + 1]
           high == f[start + m + 2]
<1>1. Len(bits) = 16
    BY SixteenBits
<1>6. \A j \in 0..7 : Digit(low, j) = Digit(v, j) /\ Digit(high, j) = Digit(v, j + 8)
    <2>1. low = v % 256 /\ high = v \div 256
        BY DEF IsWord
    <2> SUFFICES ASSUME NEW j \in 0..7
                 PROVE  Digit(low, j) = Digit(v, j) /\ Digit(high, j) = Digit(v, j + 8)
        OBVIOUS
    <2> HIDE DEF low, high
    <2>2. Digit(v % 256, j) = Digit(v, j) /\ Digit(v \div 256, j) = Digit(v, j + 8)
        BY ONLY TwoBytes, v \in Nat, j \in 0..7
    <2> QED
        BY <2>1, <2>2
<1>2. \A k \in 1..16 : bits[k] = Digit(v, k - 1)
    BY DEF Number, Digit
<1> HIDE DEF bits
<1>3. \A i : BitOf(f, start, i) = Digit(f[start + i \div 8 + 1], i % 8)
    BY DEF BitOf, Digit
<1>4. ASSUME NEW k \in 1..16 PROVE BitOf(f, start, 8 * m + k - 1) = bits[k]
    <2> DEFINE i == 8 * m + k - 1
               r == i \div 8
               j == i % 8
               byte == f[start + r + 1]
    <2>1. BitOf(f, start, i) = Digit(byte, j)
        BY <1>3
    <2>2. /\ j \in 0..7
          /\ k <= 8 => r = m /\ j = k - 1
          /\ k > 8 => r = m + 1 /\ j + 8 = k - 1
        OBVIOUS
    <2>3. bits[k] = Digit(v, k - 1)
        BY <1>2
    <2> HIDE DEF r, j
    <2>4. k <= 8 => byte = low
        BY <2>2
    <2>5. k > 8 => byte = high
        <3>1. start + (m + 1) + 1 = start + m + 2
            OBVIOUS
        <3> QED
            BY <2>2, <3>1
    <2> HIDE DEF byte, i, low, high
    <2>6. k <= 8 => Digit(byte, j) = Digit(v, k - 1)
        BY <1>6, <2>2, <2>4
    <2>7. k > 8 => Digit(byte, j) = Digit(v, k - 1)
        BY <1>6, <2>2, <2>5
    <2>8. k <= 8 \/ k > 8
        OBVIOUS
    <2> QED
        BY <2>1, <2>3, <2>6, <2>7, <2>8 DEF i
<1>5. 8 * start + 8 * m + Len(bits) <= 8 * Len(f)
    BY <1>1
<1> QED
    BY <1>1, <1>4, <1>5 DEF Stands, bits

(* What stands behind what stands *)
LEMMA StandsBehind ==
    ASSUME NEW f, NEW start \in Nat, NEW i \in Nat, NEW s \in Seq(Nat), NEW t \in Seq(Nat), Len(f) \in Nat,
           Stands(f, start, i, s), Stands(f, start, i + Len(s), t)
    PROVE  Stands(f, start, i, s \o t)
<1> DEFINE u == s \o t
           a == Len(s)
           b == Len(t)
<1>1. a \in Nat /\ b \in Nat /\ Len(u) = a + b
      /\ \A k \in 1..(a + b) : u[k] = IF k <= a THEN s[k] ELSE t[k - a]
    BY ConcatProperties, LenProperties
<1> HIDE DEF u
<1>2. /\ 8 * start + (i + a) + b <= 8 * Len(f)
      /\ \A k \in 1..a : BitOf(f, start, i + k - 1) = s[k]
      /\ \A k \in 1..b : BitOf(f, start, i + a + k - 1) = t[k]
    BY DEF Stands
<1> HIDE DEF a, b
<1>3. ASSUME NEW k \in 1..(a + b) PROVE BitOf(f, start, i + k - 1) = u[k]
    <2>1. CASE k <= a
        <3>1. k \in 1..a
            BY <1>1, <2>1
        <3> QED
            BY <1>1, <1>2, <2>1, <3>1
    <2>2. CASE ~(k <= a)
        <3> DEFINE j == k - a
        <3>1. j \in 1..b /\ i + a + j - 1 = i + k - 1
            BY <1>1, <2>2
        <3>2. u[k] = t[j]
            BY <1>1, <2>2
        <3> HIDE DEF j
        <3> QED
            BY <1>2, <3>1, <3>2
    <2> QED
        BY <2>1, <2>2
<1>4. 8 * start + i + Len(u) <= 8 * Len(f)
    BY <1>1, <1>2
<1> QED
    BY <1>1, <1>3, <1>4 DEF Stands, u

(* The file, block by block *)
OwnPiece(bytes, size, k) ==
    LET n == Len(OwnPart(bytes, size, k))
    IN  <<IF LastBlock(bytes, size, k) THEN 1 ELSE 0, n % 256, n \div 256,
          255 - (n % 256), 255 - (n \div 256)>> \o OwnPart(bytes, size, k)

LEMMA OwnPieceIs ==
    ASSUME NEW bytes \in Seq(Bytes), NEW size, IsBlockSize(size), NEW k \in 1..OwnBlocks(bytes, size)
    PROVE  LET part == OwnPart(bytes, size, k)
               n == Len(part)
               piece == OwnPiece(bytes, size, k)
           IN  /\ piece \in Seq(Bytes) /\ Len(piece) = n + 5
               /\ piece[1] = IF LastBlock(bytes, size, k) THEN 1 ELSE 0
               /\ IsWord(n, piece[2], piece[3])
               /\ IsWord(2^16 - 1 - n, piece[4], piece[5])
               /\ \A j \in 1..n : piece[5 + j] = part[j]
<1> DEFINE part == OwnPart(bytes, size, k)
           n == Len(part)
           piece == OwnPiece(bytes, size, k)
           last == IF LastBlock(bytes, size, k) THEN 1 ELSE 0
           low == n % 256
           high == n \div 256
           first == <<last, low, high, 255 - low, 255 - high>>
<1>1. part \in Seq(Bytes) /\ n \in Nat /\ n < 2^16
    BY OwnPartIs, LenProperties
<1>2. piece = first \o part
    BY DEF OwnPiece
<1>3. last \in {0, 1}
    OBVIOUS
<1> HIDE DEF part, piece, last
<1> HIDE DEF n
<1>4. low \in 0..255 /\ high \in 0..255 /\ (2^16 - 1 - n) % 256 = 255 - low /\ (2^16 - 1 - n) \div 256 = 255 - high
    BY <1>1
<1>5. IsWord(n, low, high) /\ IsWord(2^16 - 1 - n, 255 - low, 255 - high)
    BY <1>4 DEF IsWord
<1> HIDE DEF low, high
<1>6. first \in Seq(Bytes) /\ Len(first) = 5 /\ first[1] = last /\ first[2] = low /\ first[3] = high
      /\ first[4] = 255 - low /\ first[5] = 255 - high
    BY <1>3, <1>4 DEF Bytes
<1> HIDE DEF first
<1>7. /\ piece \in Seq(Bytes) /\ Len(piece) = 5 + n
      /\ \A j \in 1..(5 + n) : piece[j] = IF j <= 5 THEN first[j] ELSE part[j - 5]
    <2>1. first \in Seq(Bytes) /\ part \in Seq(Bytes)
        BY <1>1, <1>6
    <2>2. Len(first) = 5 /\ Len(part) = n
        BY <1>6 DEF n
    <2>3. piece \in Seq(Bytes) /\ IsJoined(piece, first, part, Len(first), Len(part))
        BY <1>2, <2>1, JoinedAt
    <2>4. IsJoined(piece, first, part, 5, n)
        BY <2>2, <2>3
    <2> QED
        BY <2>3, <2>4 DEF IsJoined
<1>8. piece[1] = last /\ piece[2] = low /\ piece[3] = high /\ piece[4] = 255 - low /\ piece[5] = 255 - high
    BY <1>1, <1>6, <1>7
<1>9. ASSUME NEW j \in 1..n PROVE piece[5 + j] = part[j]
    <2> DEFINE i == 5 + j
    <2>1. i \in 1..(5 + n) /\ ~(i <= 5) /\ i - 5 = j
        BY <1>1
    <2> HIDE DEF i
    <2>2. piece[i] = part[j]
        BY <1>7, <2>1
    <2> QED
        BY <2>2 DEF i
<1>10. Len(piece) = n + 5
    BY <1>1, <1>7
<1> QED
    BY <1>5, <1>7, <1>8, <1>9, <1>10 DEF part, n, piece, last

(* What it writes: ten bytes of a header, the blocks, and a checksum *)
LEMMA CompressedIs ==
    ASSUME NEW bytes \in Seq(Bytes), NEW size, IsBlockSize(size)
    PROVE  LET f == CompressSimple(bytes, size)
               B == OwnBlocks(bytes, size)
               e(k) == OwnEnd(bytes, size, k)
           IN  /\ f \in Seq(Bytes) /\ e(B) \in Nat /\ Len(f) = e(B) + 18 /\ e(B) >= 5
               /\ f[1] = 31 /\ f[2] = 139 /\ f[3] = 8 /\ f[4] = 0
               /\ \A k \in 1..B :
                     /\ e(k - 1) \in Nat /\ e(k) \in Nat /\ e(k) <= e(B)
                     /\ e(k) = e(k - 1) + Len(OwnPiece(bytes, size, k))
                     /\ \A j \in 1..Len(OwnPiece(bytes, size, k)) :
                            f[10 + e(k - 1) + j] = OwnPiece(bytes, size, k)[j]
<1> DEFINE f == CompressSimple(bytes, size)
           B == OwnBlocks(bytes, size)
           ends == [k \in 0..B |-> OwnEnd(bytes, size, k)]
           pieces == [k \in 1..B |-> OwnPiece(bytes, size, k)]
           whole == FlattenSeq(pieces)
<1>1. f = PlainHeader \o whole \o Trailer
    BY DEF CompressSimple, OwnPiece
<1>2. B \in Nat \ {0} /\ OwnPlace(bytes, size, 0) = 0
    BY OwnBlocksAre DEF IsBlockSize
<1>3. ASSUME NEW k \in 1..B
      PROVE  /\ pieces[k] = OwnPiece(bytes, size, k) /\ pieces[k] \in Seq(Bytes)
             /\ ends[k] \in Nat /\ ends[k - 1] \in Nat /\ ends[k] = ends[k - 1] + Len(pieces[k])
             /\ ends[k] >= 5
    <2> DEFINE p == OwnPlace(bytes, size, k - 1)
               r == OwnPlace(bytes, size, k)
               n == Len(OwnPart(bytes, size, k))
    <2>1. p \in Nat /\ r \in Nat /\ n = r - p /\ k \in Nat \ {0}
        BY <1>2, OwnPartIs
    <2>2. k \in 0..B /\ k - 1 \in 0..B
        BY <1>2
    <2>3. ends[k] = r + 5 * k /\ ends[k - 1] = p + 5 * (k - 1)
        BY <2>2 DEF OwnEnd
    <2>4. pieces[k] = OwnPiece(bytes, size, k)
        OBVIOUS
    <2>5. pieces[k] \in Seq(Bytes) /\ Len(pieces[k]) = n + 5
        BY <2>4, OwnPieceIs
    <2> HIDE DEF p, r, n, ends, pieces
    <2> QED
        BY <2>1, <2>3, <2>4, <2>5
<1>4. ends[0] = 0
    <2>1. 0 \in 0..B /\ 5 * 0 = 0 /\ 0 + 0 = 0
        BY <1>2
    <2> QED
        BY <1>2, <2>1 DEF OwnEnd
<1>5. FollowEachOther(pieces, B, ends)
    <2>1. \A k \in 0..B : ends[k] \in Nat
        <3> SUFFICES ASSUME NEW k \in 0..B PROVE ends[k] \in Nat
            OBVIOUS
        <3>1. k = 0 \/ k \in 1..B
            BY <1>2
        <3> HIDE DEF ends
        <3>2. CASE k = 0
            BY <1>4, <3>2
        <3>3. CASE k \in 1..B
            BY <1>3, <3>3
        <3> QED
            BY <3>1, <3>2, <3>3
    <2>2. ends \in [0..B -> Nat]
        <3>1. ends = [k \in 0..B |-> ends[k]]
            OBVIOUS
        <3> HIDE DEF ends
        <3> QED
            BY <2>1, <3>1
    <2> HIDE DEF ends, pieces
    <2> QED
        BY <1>3, <1>4, <2>2 DEF FollowEachOther
<1>6. Len(pieces) = B
    <2>1. pieces \in [1..B -> Seq(Bytes)] /\ B \in Nat
        BY <1>2, <1>3
    <2> HIDE DEF pieces
    <2> QED
        BY <2>1, FunctionLength
<1>7. Together(whole, pieces, B, ends)
    <2> HIDE DEF pieces, ends, B
    <2> QED
        BY <1>2, <1>5, <1>6, FlattenIs
<1>8. whole \in Seq(Bytes) /\ Len(whole) = ends[B]
      /\ \A k \in 1..B : \A j \in 1..Len(pieces[k]) : whole[ends[k - 1] + j] = pieces[k][j]
    BY <1>7 DEF Together
<1>9. ASSUME NEW k \in 1..B PROVE ends[k] <= ends[B]
    <2>1. B \in k..B
        BY <1>2
    <2> HIDE DEF pieces, ends, B
    <2> QED
        BY <1>2, <1>5, <2>1, EndsGrow
<1>10. /\ PlainHeader \in Seq(Bytes) /\ Len(PlainHeader) = 10 /\ PlainHeader[1] = 31 /\ PlainHeader[2] = 139
       /\ PlainHeader[3] = 8 /\ PlainHeader[4] = 0
    <2> DEFINE more == <<0, 0, 0, 0, 0, 0, 255>>
    <2>1. Magic \in Seq(Bytes) /\ Len(Magic) = 3 /\ Magic[1] = 31 /\ Magic[2] = 139 /\ Magic[3] = 8
        BY DEF Magic, Bytes
    <2>2. more \in Seq(Bytes) /\ Len(more) = 7 /\ more[1] = 0
        BY DEF Bytes
    <2>3. PlainHeader = Magic \o more
        BY DEF PlainHeader
    <2> HIDE DEF more
    <2>4. PlainHeader \in Seq(Bytes) /\ IsJoined(PlainHeader, Magic, more, Len(Magic), Len(more))
        BY <2>1, <2>2, <2>3, JoinedAt
    <2>5. IsJoined(PlainHeader, Magic, more, 3, 7)
        BY <2>1, <2>2, <2>4
    <2>6. Len(PlainHeader) = 3 + 7 /\ \A j \in 1..(3 + 7) : PlainHeader[j] = IF j <= 3 THEN Magic[j] ELSE more[j - 3]
        BY <2>5 DEF IsJoined
    <2> QED
        BY <2>1, <2>2, <2>4, <2>6
<1>11. Trailer \in Seq(Bytes) /\ Len(Trailer) = 8
    BY DEF Trailer, Bytes
<1> DEFINE before == PlainHeader \o whole
<1>12. /\ before \in Seq(Bytes) /\ Len(before) = 10 + ends[B]
       /\ \A j \in 1..(10 + ends[B]) : before[j] = IF j <= 10 THEN PlainHeader[j] ELSE whole[j - 10]
    <2> HIDE DEF whole, ends
    <2>1. before \in Seq(Bytes) /\ IsJoined(before, PlainHeader, whole, Len(PlainHeader), Len(whole))
        BY <1>8, <1>10, JoinedAt
    <2>2. Len(PlainHeader) = 10 /\ Len(whole) = ends[B]
        BY <1>8, <1>10
    <2> HIDE DEF before
    <2>3. IsJoined(before, PlainHeader, whole, 10, ends[B])
        BY <2>1, <2>2
    <2> QED
        BY <2>1, <2>3 DEF IsJoined
<1>13. ends[B] \in Nat /\ ends[B] >= 5
    <2>1. B \in 1..B
        BY <1>2
    <2> QED
        BY <1>3, <2>1
<1>14. /\ f \in Seq(Bytes) /\ Len(f) = 18 + ends[B]
       /\ \A j \in 1..(10 + ends[B]) : f[j] = before[j]
    <2> HIDE DEF f, whole, ends, before
    <2>1. f = before \o Trailer
        BY <1>1 DEF before
    <2>2. before \in Seq(Bytes) /\ Len(before) = 10 + ends[B]
        BY <1>12 DEF before
    <2> DEFINE c == 10 + ends[B]
    <2>3. c \in Nat /\ Len(before) = c
        BY <1>13, <2>2
    <2> HIDE DEF c
    <2>8. f \in Seq(Bytes) /\ IsJoined(f, before, Trailer, Len(before), Len(Trailer))
        BY <1>11, <2>1, <2>2, JoinedAt
    <2>9. IsJoined(f, before, Trailer, c, 8)
        BY <1>11, <2>3, <2>8
    <2>4. /\ f \in Seq(Bytes) /\ Len(f) = c + 8
          /\ \A j \in 1..(c + 8) : f[j] = IF j <= c THEN before[j] ELSE Trailer[j - c]
        BY <2>8, <2>9 DEF IsJoined
    <2>5. \A j \in 1..c : j \in 1..(c + 8) /\ j <= c
        BY <2>3
    <2>6. \A j \in 1..c : f[j] = before[j]
        BY <2>4, <2>5
    <2>7. c + 8 = 18 + ends[B]
        BY <1>13 DEF c
    <2> QED
        BY <2>4, <2>6, <2>7 DEF c
<1>15. \A j \in 1..(10 + ends[B]) : f[j] = IF j <= 10 THEN PlainHeader[j] ELSE whole[j - 10]
    <2> HIDE DEF f, whole, ends, before
    <2> QED
        BY <1>12, <1>14

<1>16. f[1] = 31 /\ f[2] = 139 /\ f[3] = 8 /\ f[4] = 0
    <2> HIDE DEF f, whole, ends
    <2>1. 1 \in 1..(10 + ends[B]) /\ 2 \in 1..(10 + ends[B]) /\ 3 \in 1..(10 + ends[B]) /\ 4 \in 1..(10 + ends[B])
        BY <1>13
    <2>2. f[1] = PlainHeader[1] /\ f[2] = PlainHeader[2] /\ f[3] = PlainHeader[3] /\ f[4] = PlainHeader[4]
        BY <1>15, <2>1
    <2> QED
        BY <1>10, <2>2
<1>17. ASSUME NEW k \in 1..B, NEW j \in 1..Len(pieces[k]) PROVE f[10 + ends[k - 1] + j] = pieces[k][j]
    <2> DEFINE a == ends[k - 1]
               i == 10 + a + j
    <2>1. a \in Nat /\ a + Len(pieces[k]) <= ends[B] /\ Len(pieces[k]) \in Nat
        <3>1. pieces[k] \in Seq(Bytes) /\ ends[k] = a + Len(pieces[k]) /\ a \in Nat /\ ends[k] <= ends[B]
            BY <1>3, <1>9
        <3>2. Len(pieces[k]) \in Nat
            BY <3>1, LenProperties
        <3> HIDE DEF ends, pieces, a
        <3> QED
            BY <3>1, <3>2
    <2>2. whole[a + j] = pieces[k][j]
        BY <1>8
    <2> HIDE DEF f, whole, ends, pieces, a
    <2>3. i \in 1..(10 + ends[B]) /\ ~(i <= 10) /\ i - 10 = a + j
        BY <1>13, <2>1
    <2> HIDE DEF i
    <2>4. f[i] = whole[a + j]
        BY <1>15, <2>3
    <2> QED
        BY <2>2, <2>4 DEF i, a
<1>18. \A k \in 0..B : ends[k] = OwnEnd(bytes, size, k)
    OBVIOUS
<1>19. B \in 0..B /\ \A k \in 1..B : k \in 0..B /\ k - 1 \in 0..B
    BY <1>2
<1>20. Len(f) = ends[B] + 18
    <2> HIDE DEF f, ends
    <2> QED
        BY <1>13, <1>14
<1>21. \A k \in 1..B : pieces[k] = OwnPiece(bytes, size, k)
    OBVIOUS
<1> HIDE DEF f, ends, pieces, whole, B
<1>22. ASSUME NEW k \in 1..B
       PROVE  /\ OwnEnd(bytes, size, k - 1) \in Nat /\ OwnEnd(bytes, size, k) \in Nat
              /\ OwnEnd(bytes, size, k) <= OwnEnd(bytes, size, B)
              /\ OwnEnd(bytes, size, k) = OwnEnd(bytes, size, k - 1) + Len(OwnPiece(bytes, size, k))
              /\ \A j \in 1..Len(OwnPiece(bytes, size, k)) :
                     f[10 + OwnEnd(bytes, size, k - 1) + j] = OwnPiece(bytes, size, k)[j]
    <2>1. /\ OwnEnd(bytes, size, k - 1) = ends[k - 1] /\ OwnEnd(bytes, size, k) = ends[k]
          /\ OwnEnd(bytes, size, B) = ends[B] /\ OwnPiece(bytes, size, k) = pieces[k]
        BY <1>18, <1>19, <1>21
    <2> QED
        BY <1>3, <1>9, <1>17, <2>1
<1>23. OwnEnd(bytes, size, B) = ends[B]
    BY <1>18, <1>19
<1> QED
    BY <1>13, <1>14, <1>16, <1>20, <1>22, <1>23 DEF f, B

(* Where its blocks are in the stream, and what they mean *)
LEMMA OwnStreamIs ==
    ASSUME NEW bytes \in Seq(Bytes), NEW size, IsBlockSize(size)
    PROVE  LET stream == OwnStream(bytes, size)
               blocks == stream.blocks
               B == OwnBlocks(bytes, size)
           IN  /\ stream.extra = 10 /\ stream.name = 10 /\ stream.comment = 10 /\ stream.start = 10
               /\ B \in Nat \ {0} /\ Len(blocks) = B
               /\ \A k \in 1..B : blocks[k].kind = "stored" /\ blocks[k].bytes = OwnPart(bytes, size, k)
               /\ \A k \in 0..B : /\ BlockEnds(blocks)[k] = 8 * OwnEnd(bytes, size, k)
                                  /\ Meant(blocks)[k] = SubSeq(bytes, 1, OwnPlace(bytes, size, k))
<1> DEFINE stream == OwnStream(bytes, size)
           B == OwnBlocks(bytes, size)
           block(k) == [kind |-> "stored", bytes |-> OwnPart(bytes, size, k)]
           blocks == [k \in 1..B |-> block(k)]
           ends == BlockEnds(blocks)
           meant == Meant(blocks)
           e(k) == OwnEnd(bytes, size, k)
           place(k) == OwnPlace(bytes, size, k)
<1>1. stream.extra = 10 /\ stream.name = 10 /\ stream.comment = 10 /\ stream.start = 10 /\ stream.blocks = blocks
    BY DEF OwnStream, Stream
<1>2. B \in Nat \ {0} /\ place(0) = 0
    BY OwnBlocksAre DEF IsBlockSize
<1>3. Len(blocks) = B
    <2> DEFINE T == {block(k) : k \in 1..B}
    <2>1. blocks \in [1..B -> T] /\ B \in Nat
        BY <1>2
    <2> HIDE DEF blocks, T
    <2> QED
        BY <2>1, FunctionLength
<1>4. ASSUME NEW k \in 1..B PROVE blocks[k].kind = "stored" /\ blocks[k].bytes = OwnPart(bytes, size, k)
    OBVIOUS
<1>5. ends[0] = 0 /\ \A k \in 1..B : ends[k] = BlockEnd(blocks[k], ends[k - 1])
    <2>1. Len(blocks) \in Nat
        BY <1>2, <1>3
    <2> HIDE DEF blocks
    <2> QED
        BY <1>3, <2>1, BlockEndsUnfold
<1>6. meant[0] = <<>> /\ \A k \in 1..B : meant[k] = meant[k - 1] \o OwnPart(bytes, size, k)
    <2>1. Len(blocks) \in Nat
        BY <1>2, <1>3
    <2> HIDE DEF blocks
    <2>2. /\ meant[0] = <<>>
          /\ \A k \in 1..B :
                meant[k] = (IF blocks[k].kind = "stored" THEN meant[k - 1] \o blocks[k].bytes
                            ELSE Played(meant[k - 1], blocks[k].items)[Len(blocks[k].items)])
        BY <1>3, <2>1, MeantUnfolds
    <2> HIDE DEF meant
    <2> QED
        BY <1>4, <2>2
<1> HIDE DEF stream, blocks, ends, meant
<1>7. ASSUME NEW k \in 1..B
      PROVE  /\ place(k) \in Nat /\ place(k - 1) \in Nat /\ place(k - 1) <= place(k) /\ place(k) <= Len(bytes)
             /\ OwnPart(bytes, size, k) = SubSeq(bytes, place(k - 1) + 1, place(k))
             /\ e(k) = e(k - 1) + Len(OwnPart(bytes, size, k)) + 5 /\ e(k - 1) \in Nat
             /\ Len(OwnPart(bytes, size, k)) \in Nat
    <2> DEFINE p == place(k - 1)
               r == place(k)
               n == Len(OwnPart(bytes, size, k))
    <2>1. /\ p \in Nat /\ r \in Nat /\ p <= r /\ r <= Len(bytes) /\ n = r - p
          /\ OwnPart(bytes, size, k) = SubSeq(bytes, p + 1, r)
        BY OwnPartIs
    <2>2. k \in Nat \ {0}
        BY <1>2
    <2>3. e(k) = r + 5 * k /\ e(k - 1) = p + 5 * (k - 1)
        BY DEF OwnEnd
    <2> HIDE DEF p, r, n, e
    <2>4. e(k) = e(k - 1) + n + 5 /\ e(k - 1) \in Nat /\ n \in Nat
        BY <2>1, <2>2, <2>3
    <2> QED
        BY <2>1, <2>4 DEF p, r, n
<1> DEFINE W == {k \in Nat : k <= B => ends[k] = 8 * e(k) /\ meant[k] = SubSeq(bytes, 1, place(k))}
<1>8. 0 \in W
    <2>1. e(0) = 0
        <3>1. 5 * 0 = 0 /\ 0 + 0 = 0
            OBVIOUS
        <3> QED
            BY <1>2, <3>1 DEF OwnEnd
    <2>2. SubSeq(bytes, 1, 0) = <<>>
        BY SubSeqEmpty
    <2> HIDE DEF e, place
    <2>3. ends[0] = 8 * e(0)
        BY <1>5, <2>1
    <2>4. meant[0] = SubSeq(bytes, 1, place(0))
        BY <1>2, <1>6, <2>2
    <2> QED
        BY <2>3, <2>4
<1>9. ASSUME NEW m \in 0..(B - 1), m \in W PROVE m + 1 \in W
    <2> DEFINE k == m + 1
    <2>1. k \in 1..B /\ k - 1 = m /\ m \in Nat /\ m <= B /\ k \in Nat
        BY <1>2
    <2> HIDE DEF k
    <2>2. ends[k - 1] = 8 * e(k - 1) /\ meant[k - 1] = SubSeq(bytes, 1, place(k - 1))
        BY <1>9, <2>1
    <2>3. ends[k] = 8 * e(k)
        <3> DEFINE a == e(k - 1)
                   n == Len(OwnPart(bytes, size, k))
        <3>1. a \in Nat /\ n \in Nat /\ e(k) = a + n + 5
            BY <1>7, <2>1
        <3>2. blocks[k].kind = "stored" /\ Len(blocks[k].bytes) = n
            BY <1>4, <2>1
        <3>3. ends[k] = StoredAt(ends[k - 1]) + 32 + 8 * n
            BY <1>5, <2>1, <3>2 DEF BlockEnd
        <3>4. StoredAt(8 * a) = 8 * (a + 1)
            <4> HIDE DEF a
            <4>1. (8 * a + 3 + 7) \div 8 = a + 1
                BY <3>1
            <4> QED
                BY <4>1 DEF StoredAt
        <3>5. ends[k] = 8 * (a + 1) + 32 + 8 * n
            BY <2>2, <3>3, <3>4
        <3> HIDE DEF a, n, e
        <3> QED
            BY <3>1, <3>5
    <2>4. meant[k] = SubSeq(bytes, 1, place(k))
        <3> DEFINE p == place(k - 1)
                   r == place(k)
        <3>1. p \in Nat /\ r \in Nat /\ p <= r /\ r <= Len(bytes) /\ OwnPart(bytes, size, k) = SubSeq(bytes, p + 1, r)
            BY <1>7, <2>1
        <3>2. meant[k] = SubSeq(bytes, 1, p) \o SubSeq(bytes, p + 1, r)
            BY <1>6, <2>1, <2>2, <3>1
        <3> HIDE DEF p, r
        <3>3. SubSeq(bytes, 1, p) \o SubSeq(bytes, p + 1, r) = SubSeq(bytes, 1, r)
            BY <3>1, LenProperties
        <3> QED
            BY <3>2, <3>3 DEF r
    <2> QED
        BY <2>1, <2>3, <2>4 DEF k
<1> HIDE DEF W
<1>10. 0..B \subseteq W
    BY <1>2, <1>8, <1>9, Induction
<1>11. ASSUME NEW k \in 0..B PROVE ends[k] = 8 * e(k) /\ meant[k] = SubSeq(bytes, 1, place(k))
    <2>1. k \in W /\ k <= B
        BY <1>2, <1>10
    <2> QED
        BY <2>1 DEF W
<1> QED
    BY <1>1, <1>2, <1>3, <1>4, <1>11 DEF stream, ends, meant

(* A block stands in the file where the stream has it. *)
LEMMA OwnBlockStands ==
    ASSUME NEW bytes \in Seq(Bytes), NEW size, IsBlockSize(size), NEW k \in 1..OwnBlocks(bytes, size),
           NEW block, block.kind = "stored", block.bytes = OwnPart(bytes, size, k), NEW done
    PROVE  HoldsBlock(CompressSimple(bytes, size), 10, 8 * OwnEnd(bytes, size, k - 1), block, done,
                      k = OwnBlocks(bytes, size))
<1> DEFINE f == CompressSimple(bytes, size)
           B == OwnBlocks(bytes, size)
           e == OwnEnd(bytes, size, k - 1)
           piece == OwnPiece(bytes, size, k)
           part == OwnPart(bytes, size, k)
           n == Len(part)
           last == k = B
           word == Number(n, 16)
           other == Number(2^16 - 1 - n, 16)
<1>1. f \in Seq(Bytes) /\ e \in Nat /\ Len(f) >= 10 + e + Len(piece)
      /\ \A j \in 1..Len(piece) : f[10 + e + j] = piece[j]
    <2> DEFINE a == OwnEnd(bytes, size, k)
               b == OwnEnd(bytes, size, B)
    <2>1. f \in Seq(Bytes) /\ b \in Nat /\ Len(f) = b + 18
        BY CompressedIs, SMTT(30)
    <2>2. e \in Nat /\ a \in Nat /\ a <= b /\ a = e + Len(piece)
        BY CompressedIs, SMTT(30)
    <2>3. \A j \in 1..Len(piece) : f[10 + e + j] = piece[j]
        BY CompressedIs, SMTT(30)
    <2> HIDE DEF f, e, a, b, piece
    <2>4. Len(f) >= 10 + e + Len(piece)
        BY <2>1, <2>2
    <2> QED
        BY <2>1, <2>2, <2>3, <2>4
<1>2. /\ Len(piece) = n + 5
      /\ piece[1] = (IF LastBlock(bytes, size, k) THEN 1 ELSE 0)
      /\ IsWord(n, piece[2], piece[3])
      /\ IsWord(2^16 - 1 - n, piece[4], piece[5])
      /\ \A j \in 1..n : piece[5 + j] = part[j]
    BY OwnPieceIs
<1>3. n \in Nat /\ n < 2^16 /\ part \in Seq(Bytes)
    BY OwnPartIs, LenProperties
<1>4. LastBlock(bytes, size, k) <=> last
    BY OwnBlocksAre DEF IsBlockSize
<1>5. block.kind = "stored" /\ block.bytes = part
    OBVIOUS
<1> HIDE DEF f, e, piece, part, last, word, other
<1> HIDE DEF n
<1>6. Len(f) \in Nat /\ Len(f) >= 10 + e + (n + 5)
    BY <1>1, <1>2, LenProperties
<1>7. f[10 + e + 1] = (IF last THEN 1 ELSE 0)
    <2>1. 1 \in 1..(n + 5)
        BY <1>3
    <2> QED
        BY <1>1, <1>2, <1>4, <2>1
<1>8. IsWord(n, f[10 + e + 2], f[10 + e + 3]) /\ IsWord(2^16 - 1 - n, f[10 + e + 4], f[10 + e + 5])
    <2>1. 2 \in 1..(n + 5) /\ 3 \in 1..(n + 5) /\ 4 \in 1..(n + 5) /\ 5 \in 1..(n + 5)
        BY <1>3
    <2>2. f[10 + e + 2] = piece[2] /\ f[10 + e + 3] = piece[3] /\ f[10 + e + 4] = piece[4] /\ f[10 + e + 5] = piece[5]
        BY <1>1, <1>2, <2>1
    <2> QED
        BY <1>2, <2>2
<1>9. Stands(f, 10, 8 * e, <<IF last THEN 1 ELSE 0>> \o KindBits(block.kind))
    <2> DEFINE b == IF last THEN 1 ELSE 0
               first == <<b>>
               kind == KindBits(block.kind)
               u == first \o kind
    <2>1. first \in Seq(Nat) /\ Len(first) = 1 /\ first[1] = b
        OBVIOUS
    <2>10. kind \in Seq(Nat) /\ Len(kind) = 2 /\ kind[1] = 0 /\ kind[2] = 0
        <3>1. kind = <<0, 0>>
            BY <1>5 DEF KindBits
        <3> HIDE DEF kind
        <3> QED
            BY <3>1
    <2> HIDE DEF first, kind, u
    <2>11. IsJoined(u, first, kind, Len(first), Len(kind))
        BY <2>1, <2>10, JoinedAt DEF u
    <2>12. IsJoined(u, first, kind, 1, 2)
        BY <2>1, <2>10, <2>11
    <2>13. Len(u) = 3 /\ \A j \in 1..3 : u[j] = IF j <= 1 THEN first[j] ELSE kind[j - 1]
        BY <2>12 DEF IsJoined
    <2>14. u[1] = b /\ u[2] = 0 /\ u[3] = 0
        BY <2>1, <2>10, <2>13
    <2>2. b \in {0, 1} /\ f[10 + e + 1] = b
        BY <1>7
    <2> HIDE DEF b
    <2>3. \A j \in 0..2 : (8 * e + j) \div 8 = e /\ (8 * e + j) % 8 = j
        BY <1>1
    <2>4. \A j \in 0..2 : BitOf(f, 10, 8 * e + j) = Digit(b, j)
        BY <2>2, <2>3 DEF BitOf, Digit
    <2>5. Digit(b, 0) = b /\ Digit(b, 1) = 0 /\ Digit(b, 2) = 0
        BY <2>2 DEF Digit
    <2>6. ASSUME NEW j \in 1..3 PROVE BitOf(f, 10, 8 * e + j - 1) = u[j]
        <3>1. 8 * e + 1 - 1 = 8 * e + 0 /\ 8 * e + 2 - 1 = 8 * e + 1 /\ 8 * e + 3 - 1 = 8 * e + 2
            BY <1>1
        <3>2. 0 \in 0..2 /\ 1 \in 0..2 /\ 2 \in 0..2
            OBVIOUS
        <3>3. j = 1 \/ j = 2 \/ j = 3
            OBVIOUS
        <3> QED
            BY <2>4, <2>5, <2>14, <3>1, <3>2, <3>3
    <2>70. e \in Nat
        BY <1>1
    <2>71. n \in Nat
        BY <1>3
    <2>7. 8 * 10 + 8 * e + 3 <= 8 * Len(f)
        BY ONLY <1>6, <2>70, <2>71
    <2>9. Stands(f, 10, 8 * e, u)
        BY <2>6, <2>7, <2>13 DEF Stands
    <2> QED
        BY <2>9 DEF u, first, kind, b
<1>10. StoredAt(8 * e) = 8 * (e + 1)
    <2>1. (8 * e + 3 + 7) \div 8 = e + 1
        BY <1>1
    <2> QED
        BY <2>1 DEF StoredAt
<1>11. Stands(f, 10, 8 * (e + 1), word \o other)
    <2> DEFINE m == 2^16 - 1 - n
    <2>1. m \in Nat
        BY <1>3
    <2>2. word \in Seq(Nat) /\ Len(word) = 16
        BY <1>3, SixteenBits DEF word
    <2>3. other \in Seq(Nat) /\ Len(other) = 16
        BY <2>1, SixteenBits DEF other
    <2>4. IsWord(m, f[10 + e + 4], f[10 + e + 5])
        BY <1>8
    <2>5. other = Number(m, 16)
        BY DEF other
    <2> HIDE DEF m
    <2>64. e \in Nat
        BY <1>1
    <2>65. n \in Nat
        BY <1>3
    <2>60. e \in Nat /\ n \in Nat /\ Len(f) \in Nat /\ Len(f) >= 10 + e + (n + 5)
        BY ONLY <1>6, <2>64, <2>65
    <2>61. e + 1 \in Nat /\ e + 3 \in Nat /\ 8 * (e + 1) + 16 = 8 * (e + 3) /\ 8 * (e + 1) \in Nat
        BY <2>60
    <2>62. 10 + (e + 1) + 1 = 10 + e + 2 /\ 10 + (e + 1) + 2 = 10 + e + 3
          /\ 10 + (e + 3) + 1 = 10 + e + 4 /\ 10 + (e + 3) + 2 = 10 + e + 5
        BY <2>60
    <2>63. 10 + (e + 1) + 2 <= Len(f) /\ 10 + (e + 3) + 2 <= Len(f)
        BY <2>60
    <2>6. e + 1 \in Nat /\ e + 3 \in Nat /\ 10 + (e + 1) + 1 = 10 + e + 2 /\ 10 + (e + 1) + 2 = 10 + e + 3
          /\ 10 + (e + 3) + 1 = 10 + e + 4 /\ 10 + (e + 3) + 2 = 10 + e + 5
          /\ 10 + (e + 1) + 2 <= Len(f) /\ 10 + (e + 3) + 2 <= Len(f)
          /\ 8 * (e + 1) + 16 = 8 * (e + 3) /\ 8 * (e + 1) \in Nat
        BY ONLY <2>61, <2>62, <2>63
    <2>7. Stands(f, 10, 8 * (e + 1), word)
        <3>1. IsWord(n, f[10 + (e + 1) + 1], f[10 + (e + 1) + 2])
            BY <1>8, <2>6
        <3> QED
            BY <1>3, <1>6, <2>6, <3>1, NumberStands DEF word
    <2>8. Stands(f, 10, 8 * (e + 3), other)
        <3>1. IsWord(m, f[10 + (e + 3) + 1], f[10 + (e + 3) + 2])
            BY <2>4, <2>6
        <3> QED
            BY <1>6, <2>1, <2>5, <2>6, <3>1, NumberStands
    <2>9. Stands(f, 10, 8 * (e + 1) + Len(word), other)
        BY <2>2, <2>6, <2>8
    <2> QED
        BY <1>6, <2>2, <2>3, <2>6, <2>7, <2>9, StandsBehind
<1>12. HoldsStored(f, 10, 8 * e, block)
    <2> DEFINE first == 10 + StoredAt(8 * e) \div 8 + 4
    <2>1. first = 10 + e + 5
        <3>1. (8 * (e + 1)) \div 8 = e + 1
            BY <1>1
        <3> QED
            BY <1>1, <1>10, <3>1
    <2>2. Len(block.bytes) = n
        BY <1>5 DEF n
    <2>3. part = SubSeq(f, 10 + e + 5 + 1, 10 + e + 5 + n)
        <3> DEFINE a == 10 + e + 5
                   cut == SubSeq(f, a + 1, a + n)
        <3>1. a \in Nat /\ a + n <= Len(f) /\ a + 1 \in Int /\ a + n \in Int
            BY <1>1, <1>3, <1>6
        <3>2. \A j \in 1..n : f[a + j] = part[j]
            <4> SUFFICES ASSUME NEW j \in 1..n PROVE f[a + j] = part[j]
                OBVIOUS
            <4>1. 5 + j \in 1..(n + 5) /\ 10 + e + (5 + j) = a + j
                BY <1>1, <1>3
            <4> HIDE DEF a
            <4>2. f[a + j] = piece[5 + j]
                BY <1>1, <1>2, <4>1
            <4> QED
                BY <1>2, <4>2
        <3> HIDE DEF a
        <3>3. \A i \in (a + 1)..(a + n) : f[i] \in Bytes
            <4>1. \A i \in (a + 1)..(a + n) : i \in 1..Len(f)
                BY <1>3, <1>6, <3>1
            <4> QED
                BY <1>1, <4>1, ElementOfSeq
        <3> DEFINE from == a + 1
                   to == a + n
        <3>8. from \in Int /\ to \in Int /\ to - from + 1 = n /\ (from <= to <=> n # 0)
            BY <1>3, <3>1
        <3>9. \A i \in from..to : f[i] \in Bytes
            BY <3>3
        <3> HIDE DEF from, to
        <3>10. cut = SubSeq(f, from, to)
            BY DEF from, to
        <3> HIDE DEF cut
        <3>4. /\ cut \in Seq(Bytes)
              /\ Len(cut) = IF from <= to THEN to - from + 1 ELSE 0
              /\ \A i \in 1..(to - from + 1) : cut[i] = f[from + i - 1]
            BY <3>8, <3>9, <3>10, SubSeqProperties
        <3>5. Len(cut) = n
            BY <1>3, <3>4, <3>8
        <3>6. ASSUME NEW i \in 1..n PROVE cut[i] = part[i]
            <4>1. i \in 1..(to - from + 1) /\ from + i - 1 = a + i
                BY <1>3, <3>1, <3>8 DEF from
            <4> QED
                BY <3>2, <3>4, <4>1
        <3>7. cut = part
            BY <1>3, <3>4, <3>5, <3>6, SeqEqual DEF n
        <3> QED
            BY <3>7 DEF cut, a
    <2>4. 10 + e + 5 + n <= Len(f)
        BY <1>1, <1>3, <1>6
    <2> HIDE DEF first
    <2> QED
        BY <1>3, <1>5, <1>10, <1>11, <2>1, <2>2, <2>3, <2>4 DEF HoldsStored, word, other, first
<1>13. HoldsBlock(f, 10, 8 * e, block, done, last)
    BY <1>5, <1>9, <1>12 DEF HoldsBlock
<1> QED
    BY <1>13 DEF f, e, last

(* compress_simple: what it writes is in the format, for any data, in      *)
(* blocks of any size that the format has room for, and means that data.   *)
(* It is thus among the layers of LayersWhole.                             *)
THEOREM CompressedHolds ==
    ASSUME NEW bytes \in Seq(0..255), NEW size \in Nat \ {0}, size < 2^16
    PROVE  LET f == CompressSimple(bytes, size)
               stream == OwnStream(bytes, size)
           IN  IsGzip(f) /\ Holds(f, stream) /\ Meaning(stream.blocks) = bytes
<1> DEFINE f == CompressSimple(bytes, size)
           stream == OwnStream(bytes, size)
           blocks == stream.blocks
           B == OwnBlocks(bytes, size)
<1>1. bytes \in Seq(Bytes) /\ IsBlockSize(size)
    BY DEF Bytes, IsBlockSize
<1>2. /\ stream.extra = 10 /\ stream.name = 10 /\ stream.comment = 10 /\ stream.start = 10
      /\ B \in Nat \ {0} /\ Len(blocks) = B
      /\ \A k \in 1..B : blocks[k].kind = "stored" /\ blocks[k].bytes = OwnPart(bytes, size, k)
      /\ \A k \in 0..B : /\ BlockEnds(blocks)[k] = 8 * OwnEnd(bytes, size, k)
                         /\ Meant(blocks)[k] = SubSeq(bytes, 1, OwnPlace(bytes, size, k))
    BY <1>1, OwnStreamIs
<1>3. f \in Seq(Bytes) /\ Len(f) \in Nat /\ Len(f) >= 23 /\ f[1] = 31 /\ f[2] = 139 /\ f[3] = 8 /\ f[4] = 0
    <2> DEFINE b == OwnEnd(bytes, size, B)
    <2>1. f \in Seq(Bytes) /\ b \in Nat /\ Len(f) = b + 18 /\ b >= 5 /\ f[1] = 31 /\ f[2] = 139 /\ f[3] = 8 /\ f[4] = 0
        BY <1>1, CompressedIs
    <2> HIDE DEF b, f
    <2> QED
        BY <2>1
<1>4. ASSUME NEW k \in 1..B
      PROVE  HoldsBlock(f, stream.start, BlockEnds(blocks)[k - 1], blocks[k], Meant(blocks)[k - 1], k = B)
    <2>1. k - 1 \in 0..B
        BY <1>2
    <2>2. BlockEnds(blocks)[k - 1] = 8 * OwnEnd(bytes, size, k - 1)
        BY <1>2, <2>1
    <2>3. HoldsBlock(f, 10, 8 * OwnEnd(bytes, size, k - 1), blocks[k], Meant(blocks)[k - 1], k = B)
        <3> HIDE DEF blocks
        <3> QED
            BY <1>1, <1>2, OwnBlockStands
    <2> QED
        BY <1>2, <2>2, <2>3
<1>5. Meaning(blocks) = bytes
    <2>1. B \in 0..B
        BY <1>2
    <2>2. OwnPlace(bytes, size, B) = Len(bytes)
        BY OwnBlocksAre, <1>1
    <2>3. Meaning(blocks) = SubSeq(bytes, 1, Len(bytes))
        BY <1>2, <2>1, <2>2 DEF Meaning
    <2> QED
        BY <1>1, <2>3, SubSeqFull
<1> HIDE DEF f, stream, B
<1>6. HoldsHeader(f, stream)
    <2>1. (0 \div 2^1) % 2 # 1 /\ (0 \div 2^2) % 2 # 1 /\ (0 \div 2^3) % 2 # 1 /\ (0 \div 2^4) % 2 # 1
        OBVIOUS
    <2>2. 10 \in 10..(Len(f) - 1) /\ Len(f) >= 10
        BY <1>3
    <2> QED
        BY <1>2, <1>3, <2>1, <2>2 DEF HoldsHeader
<1>7. Holds(f, stream)
    BY <1>2, <1>3, <1>4, <1>6 DEF Holds, Bytes
<1>8. IsGzip(f)
    BY <1>3 DEF IsGzip
<1> QED
    BY <1>5, <1>7, <1>8 DEF f, stream
=============================================================================
