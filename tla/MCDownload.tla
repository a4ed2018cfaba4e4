----------------------------- MODULE MCDownload -----------------------------
(* A registry that sends its manifests itself and its layers by way of a   *)
(* content network, and an authentication server; and layers as several    *)
(* programs compress them.                                                 *)
EXTENDS Download, Deflate, TLC

Https(h, r) == [scheme |-> "https", host |-> h, resource |-> r]

MCHome ==
    [r \in {"v2", "auth", "manifest", "amd64", "other", "layer"} |->
        IF r = "auth" THEN Https("cdn", r) ELSE Https("registry", r)]

----------------------------------------------------------------------------
Entry(arch, os, digest) == [architecture |-> arch, os |-> os, digest |-> digest]
List(entries) == [kind |-> "list", entries |-> entries]
Manifest(for, layers) == [kind |-> "manifest", for |-> for, layers |-> layers]

Tokens == { [kind |-> "token", value |-> v] : v \in {"some", "empty", "none"} }
Lists == { List(<<Entry("amd64", "windows", "other"), Entry("amd64", "linux", "amd64")>>),
           List(<<Entry("arm64", "linux", "other")>>),
           List(<<Entry("amd64", "linux", "none")>>) }
Single == { Manifest("only", <<"layer", "short">>), Manifest("only", <<"layer", "none">>) }
ForAmd64 == { Manifest("linux/amd64", <<"layer">>) }
ForOther == { Manifest("windows/amd64", <<"layer">>) }

MCDocuments == Tokens \cup Lists \cup Single \cup ForAmd64 \cup ForOther

(* A byte tells the documents apart.                               *)
Which(d) ==
    CASE d.kind = "token" -> (CASE d.value = "some" -> 1 [] d.value = "empty" -> 2 [] OTHER -> 3)
      [] d.kind = "list" -> IF Len(d.entries) = 2 THEN 4 ELSE IF d.entries[1].digest = "none" THEN 5 ELSE 6
      [] OTHER -> IF d \in Single THEN IF d.layers[2] = "short" THEN 7 ELSE 8
                  ELSE IF d \in ForAmd64 THEN 9 ELSE 10
MCText == [d \in MCDocuments |-> <<123, Which(d), 125>>]
Texts(documents) == { MCText[d] : d \in documents }

----------------------------------------------------------------------------
StoredBlock == [kind |-> "stored", bytes |-> <<1, 2, 3>>]

(* A copy that overlaps itself, one with numbers behind its symbols, and   *)
(* the longest.                                                            *)
FixedBlock ==
    [kind |-> "fixed",
     items |-> <<Literal(65), Literal(200), Copied(257, 0, 1, 0), Copied(265, 1, 4, 0), Copied(285, 0, 3, 0)>>]

(* Codes of 1 to 3 bits. *)
SkewedBlock ==
    [kind |-> "dynamic", literals |-> 259, distances |-> 2,
     count |-> 18, codes |-> [i \in 1..19 |-> IF i - 1 \in {18, 1, 2, 3} THEN 2 ELSE 0],
     runs |-> <<<<18, 54>>, <<1, 0>>, <<18, 127>>, <<18, 41>>, <<2, 0>>, <<3, 0>>, <<3, 0>>, <<1, 0>>, <<1, 0>>>>,
     items |-> <<Literal(65), Literal(65), Copied(257, 0, 1, 0), Copied(258, 0, 0, 0)>>]

(* A run of lengths that goes on from the literals to the distances. *)
RunOverBlock ==
    [kind |-> "dynamic", literals |-> 258, distances |-> 4,
     count |-> 16, codes |-> [i \in 1..19 |-> CASE i = 19 -> 1 [] i = 3 -> 2 [] i \in {17, 18} -> 3 [] OTHER -> 0],
     runs |-> <<<<18, 54>>, <<2, 0>>, <<2, 0>>, <<17, 7>>, <<18, 127>>, <<18, 30>>, <<2, 0>>, <<16, 2>>>>,
     items |-> <<Literal(65), Literal(66), Copied(257, 0, 1, 0)>>]

Written == { <<{}, <<StoredBlock>>>>, <<{1, 2, 3, 4}, <<FixedBlock>>>>, <<{3}, <<SkewedBlock>>>>,
             <<{}, <<RunOverBlock, StoredBlock, FixedBlock>>>> }

(* What holycontainer itself writes, in blocks of two bytes, and an        *)
(* archive that is not compressed.                                         *)
Own == [i \in 1..5 |-> i]
Plain == <<9, 8, 7>>

MCStreams ==
    [f \in { File(s[1], s[2]) : s \in Written } |->
        LET s == CHOOSE s \in Written : File(s[1], s[2]) = f IN Stream(s[1], s[2])]
    @@ CompressSimple(Own, 2) :> OwnStream(Own, 2)
    @@ CompressSimple(<<>>, 2) :> OwnStream(<<>>, 2)
MCContents ==
    [f \in { File(s[1], s[2]) : s \in Written } |-> Meaning(MCStreams[f].blocks)]
    @@ CompressSimple(Own, 2) :> Own
    @@ CompressSimple(<<>>, 2) :> <<>>
    @@ Plain :> Plain

MCBodies ==
    [r \in {"v2", "auth", "manifest", "amd64", "other", "layer"} |->
        CASE r = "v2" -> {<<>>}
          [] r = "auth" -> Texts(Tokens)
          [] r = "manifest" -> Texts(Lists \cup Single \cup Tokens)
          [] r = "amd64" -> Texts(ForAmd64)
          [] r = "other" -> Texts(ForOther)
          [] r = "layer" -> DOMAIN MCContents]

=============================================================================
