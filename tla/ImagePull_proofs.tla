-------------------------- MODULE ImagePull_proofs ---------------------------
(***************************************************************************)
(* Overlapping pulls of one image, proved: any number of calls of          *)
(* pull_image, images of any number of layers, layers with any entries.    *)
(***************************************************************************)
EXTENDS ImagePull, WellFoundedInduction, TLAPS

-----------------------------------------------------------------------------
\* Sets of numbers have a least element, and bounded ones a greatest.
Below == {ss \in Nat \X Nat : ss[1] < ss[2]}

LEMMA BelowWellFounded == IsWellFoundedOn(Below, Nat)
BY NatLessThanWellFounded DEF OpToRel, Below

LEMMA Least ==
    ASSUME NEW T, T \subseteq Nat, T # {}
    PROVE  \E n \in T : \A m \in T : n <= m
<1>1. PICK n \in T : \A m \in T : <<m, n>> \notin Below
    BY WFMin, BelowWellFounded
<1>2. ASSUME NEW m \in T, m < n PROVE FALSE
    <2>1. <<m, n>> \in Below
        BY <1>2 DEF Below
    <2> QED
        BY <1>1, <2>1
<1> QED
    BY <1>1, <1>2

LEMMA Greatest ==
    ASSUME NEW n \in Nat, NEW T, T \subseteq 1..n, T # {}
    PROVE  \E i \in T : \A j \in T : j <= i
<1> DEFINE S == {m \in Nat : \A j \in T : j <= m}
<1>1. S \subseteq Nat /\ n \in S
    OBVIOUS
<1>2. PICK m \in S : \A k \in S : m <= k
    BY <1>1, Least
<1>3. m \in T
    <2> SUFFICES ASSUME m \notin T PROVE FALSE
        OBVIOUS
    <2>1. \A j \in T : j <= m /\ j # m
        BY <1>2
    <2>2. PICK j \in T : TRUE
        OBVIOUS
    <2>3. m - 1 \in S
        BY <1>2, <2>1, <2>2
    <2> QED
        BY <1>2, <2>3
<1> QED
    BY <1>2, <1>3

-----------------------------------------------------------------------------
\* Types, and what a call knows of the layer it is at and of those before it.
Steps == {"idle", "layer", "download", "open", "fill", "filling", "read", "extract", "conf"}

Calls == [pc : Steps, at : 0..(Len(Manifest) + 1), entry : Nat, blob : Body]

\* The steps in which a call writes the file of its layer, or is about to.
Fetching == {"download", "open", "fill", "filling"}

\* A call is at one of the layers, except when it is done with all of them.
Placed(c) ==
    /\ c.pc = "idle" => c = Idle
    /\ c.pc = "layer" => c.at >= 1
    /\ c.pc \in Fetching \cup {"read", "extract"} => c.at \in 1..Len(Manifest)
    /\ c.pc = "conf" => c.at = Len(Manifest) + 1
    /\ c.pc = "extract" => c.entry \in 1..(Len(Layer[Manifest[c.at]]) + 1)

\* The layers before the one a call is at have been created by someone, so the
\* layer it fetches is none of those.
Seen(c, f) ==
    /\ \A i \in 1..Len(Manifest) : i < c.at => f[Manifest[i]] # "none"
    /\ c.pc \in {"fill", "filling", "read", "extract"} => f[Manifest[c.at]] # "none"
    /\ c.pc \in Fetching =>
         \A i \in 1..Len(Manifest) : i < c.at => Manifest[i] # Manifest[c.at]

PlaceInv ==
    /\ file \in [Digests -> Body] /\ rootfs \in [Paths -> Digests \cup {NoFile}]
    /\ listed \in BOOLEAN /\ harmed \in BOOLEAN
    /\ puller \in [Pullers -> Calls]
    /\ \A pl \in Pullers : Placed(puller[pl]) /\ Seen(puller[pl], file)
    /\ listed => \A i \in 1..Len(Manifest) : file[Manifest[i]] # "none"

LEMMA ManifestLen == Len(Manifest) \in Nat
BY LayerAssumption

LEMMA ManifestDigest == \A i \in 1..Len(Manifest) : Manifest[i] \in Digests
BY LayerAssumption

LEMMA IdleCall == Idle \in Calls /\ Idle.pc = "idle" /\ Idle.at = 0 /\ Placed(Idle) /\ \A f : Seen(Idle, f)
<1>1. Idle \in Calls /\ Idle.pc = "idle" /\ Idle.at = 0
    BY LayerAssumption DEF Idle, Calls, Steps, Body
<1> QED
    BY <1>1 DEF Placed, Seen, Fetching

LEMMA PlaceInit == Init => PlaceInv
<1> SUFFICES ASSUME Init PROVE PlaceInv
    OBVIOUS
<1>1. \A pl \in Pullers : puller[pl] = Idle
    BY DEF Init
<1>2. puller \in [Pullers -> Calls]
    BY IdleCall DEF Init
<1>3. file \in [Digests -> Body] /\ rootfs \in [Paths -> Digests \cup {NoFile}] /\ listed = FALSE /\ harmed = FALSE
    BY DEF Init, Body
<1> QED
    BY <1>1, <1>2, <1>3, IdleCall DEF PlaceInv

\* One call moves on to c and no layer file disappears.
Moves(pl, c) ==
    /\ puller' = [puller EXCEPT ![pl] = c]
    /\ file' \in [Digests -> Body]
    /\ \A d \in Digests : file[d] # "none" => file'[d] # "none"
    /\ c \in Calls /\ Placed(c) /\ Seen(c, file')

LEMMA PlaceMoves ==
    ASSUME PlaceInv, NEW pl \in Pullers, NEW c, Moves(pl, c)
    PROVE  /\ puller' \in [Pullers -> Calls]
           /\ \A q \in Pullers : Placed(puller'[q]) /\ Seen(puller'[q], file')
<1>1. ASSUME NEW q \in Pullers, Seen(puller[q], file), puller[q] \in Calls, Placed(puller[q])
      PROVE  Seen(puller[q], file')
    <2>1. \A i \in 1..Len(Manifest) : file[Manifest[i]] # "none" => file'[Manifest[i]] # "none"
        BY ManifestDigest DEF Moves
    <2>2. puller[q].pc \in {"fill", "filling", "read", "extract"} => puller[q].at \in 1..Len(Manifest)
        BY <1>1 DEF Placed, Fetching
    <2> QED
        BY <2>1, <2>2, <1>1 DEF Seen
<1>2. \A q \in Pullers : puller'[q] = IF q = pl THEN c ELSE puller[q]
    BY DEF Moves, PlaceInv
<1>3. puller' \in [Pullers -> Calls]
    BY DEF Moves, PlaceInv
<1> QED
    BY <1>1, <1>2, <1>3 DEF Moves, PlaceInv

\* What an action does to the call that takes it.
LEMMA Stays ==
    ASSUME PlaceInv, NEW pl \in Pullers
    PROVE  /\ puller[pl] \in Calls /\ Placed(puller[pl]) /\ Seen(puller[pl], file)
           /\ Digest(pl) = Manifest[puller[pl].at]
           /\ puller[pl].pc \in Fetching \cup {"read", "extract"} => Digest(pl) \in Digests
<1>1. puller[pl] \in Calls /\ Placed(puller[pl]) /\ Seen(puller[pl], file)
    BY DEF PlaceInv
<1>2. puller[pl].pc \in Fetching \cup {"read", "extract"} => puller[pl].at \in 1..Len(Manifest)
    BY <1>1 DEF Placed
<1> QED
    BY <1>1, <1>2, ManifestDigest DEF Digest

\* The loop over the layers goes on, or has come to its end.
LEMMA NextLayerMoves ==
    ASSUME PlaceInv, NEW pl \in Pullers, NextLayer(pl), UNCHANGED file,
           puller[pl].pc \in {"read", "extract"}
    PROVE  Moves(pl, puller'[pl])
<1> DEFINE c == ToLayer(puller[pl].at + 1)
<1>1. puller' = [puller EXCEPT ![pl] = c]
    BY DEF NextLayer
<1>2. puller[pl] \in Calls /\ puller[pl].at \in 1..Len(Manifest) /\ Seen(puller[pl], file)
    BY Stays DEF Placed
<1>3. c \in Calls /\ c.pc = "layer" /\ c.at = puller[pl].at + 1
    <2>1. puller[pl].at + 1 \in 0..(Len(Manifest) + 1)
        BY <1>2, ManifestLen
    <2> QED
        BY <2>1 DEF ToLayer, Calls, Steps, Body
<1>4. Placed(c) /\ Seen(c, file)
    <2>1. file[Manifest[puller[pl].at]] # "none"
        BY <1>2 DEF Seen
    <2>2. \A i \in 1..Len(Manifest) : i < c.at => i < puller[pl].at \/ i = puller[pl].at
        BY <1>2, <1>3, ManifestLen
    <2>3. \A i \in 1..Len(Manifest) : i < c.at => file[Manifest[i]] # "none"
        BY <2>1, <2>2, <1>2 DEF Seen
    <2>4. Placed(c)
        BY <1>2, <1>3 DEF Placed, Fetching
    <2> QED
        BY <2>3, <2>4, <1>3 DEF Seen, Fetching
<1>5. puller'[pl] = c
    BY <1>1 DEF PlaceInv
<1> QED
    BY <1>1, <1>3, <1>4, <1>5 DEF Moves, PlaceInv

\* The call goes to another step of the same layer.
LEMMA StepMoves ==
    ASSUME PlaceInv, NEW pl \in Pullers, NEW c \in Calls,
           puller' = [puller EXCEPT ![pl] = c],
           c.at = puller[pl].at,
           file' \in [Digests -> Body],
           \A d \in Digests : file[d] # "none" => file'[d] # "none",
           c.pc \notin {"idle", "layer"},
           c.pc = "conf" => puller[pl].at = Len(Manifest) + 1,
           c.pc # "conf" => puller[pl].at \in 1..Len(Manifest),
           c.pc = "extract" => c.entry \in 1..(Len(Layer[Digest(pl)]) + 1),
           c.pc \in Fetching => puller[pl].pc \in Fetching \/ file[Digest(pl)] = "none",
           c.pc \in {"fill", "filling", "read", "extract"} => file'[Digest(pl)] # "none"
    PROVE  Moves(pl, c)
<1>1. puller[pl] \in Calls /\ Seen(puller[pl], file) /\ Digest(pl) = Manifest[puller[pl].at]
    BY Stays
<1>2. Placed(c)
    BY <1>1 DEF Placed, Fetching, Steps, Calls
<1>3. Seen(c, file')
    <2>1. \A i \in 1..Len(Manifest) : i < c.at => file'[Manifest[i]] # "none"
        BY <1>1, ManifestDigest DEF Seen
    <2>2. c.pc \in Fetching => \A i \in 1..Len(Manifest) : i < c.at => Manifest[i] # Manifest[c.at]
        BY <1>1 DEF Seen
    <2> QED
        BY <2>1, <2>2, <1>1 DEF Seen
<1> QED
    BY <1>2, <1>3 DEF Moves, PlaceInv

LEMMA EndMoves ==
    ASSUME PlaceInv, NEW pl \in Pullers, End(pl), UNCHANGED file
    PROVE  Moves(pl, Idle)
BY IdleCall DEF End, Moves, PlaceInv

LEMMA GotoCall ==
    ASSUME PlaceInv, NEW pl \in Pullers, NEW step \in Steps, Goto(pl, step)
    PROVE  \E c \in Calls : /\ puller' = [puller EXCEPT ![pl] = c]
                            /\ c.pc = step /\ c.at = puller[pl].at
                            /\ c.entry = puller[pl].entry /\ c.blob = puller[pl].blob
<1> DEFINE c == [puller[pl] EXCEPT !.pc = step]
<1>1. c \in Calls /\ c.pc = step /\ c.at = puller[pl].at /\ c.entry = puller[pl].entry /\ c.blob = puller[pl].blob
    BY Stays DEF Calls
<1>2. puller' = [puller EXCEPT ![pl] = c]
    BY DEF Goto
<1> QED
    BY <1>1, <1>2

LEMMA LayerEntries == \A d \in Digests : Len(Layer[d]) \in Nat
BY LayerAssumption

LEMMA BeginMoves ==
    ASSUME PlaceInv, NEW pl \in Pullers, Begin(pl)
    PROVE  Moves(pl, ToLayer(1))
<1> DEFINE c == ToLayer(1)
<1>1. c \in Calls /\ c.pc = "layer" /\ c.at = 1
    BY ManifestLen DEF ToLayer, Calls, Steps, Body
<1>2. Placed(c) /\ Seen(c, file)
    BY <1>1 DEF Placed, Seen, Fetching
<1> QED
    BY <1>1, <1>2 DEF Begin, Moves, PlaceInv

LEMMA LookMoves ==
    ASSUME PlaceInv, NEW pl \in Pullers, Look(pl)
    PROVE  \E c : /\ Moves(pl, c) /\ c.pc \in {"conf", "download", "read"} /\ c.at = puller[pl].at
                  /\ c.pc = "download" => file[Digest(pl)] = "none"
<1>1. /\ puller[pl] \in Calls /\ puller[pl].at >= 1 /\ puller[pl].at \in 0..(Len(Manifest) + 1)
      /\ Digest(pl) = Manifest[puller[pl].at]
    BY Stays DEF Look, At, Placed, Calls
<1>2. file' = file
    BY DEF Look
<1>3. CASE puller[pl].at > Len(Manifest)
    <2>1. PICK c \in Calls : puller' = [puller EXCEPT ![pl] = c] /\ c.pc = "conf" /\ c.at = puller[pl].at
        BY <1>3, GotoCall DEF Look, Steps
    <2>2. puller[pl].at = Len(Manifest) + 1
        BY <1>1, <1>3, ManifestLen
    <2> QED
        BY <2>1, <2>2, <1>2, StepMoves DEF PlaceInv, Fetching
<1>4. CASE puller[pl].at <= Len(Manifest)
    <2>1. puller[pl].at \in 1..Len(Manifest)
        BY <1>1, <1>4, ManifestLen
    <2>2. ~(puller[pl].at > Len(Manifest))
        BY <2>1, ManifestLen
    <2>3. CASE file[Digest(pl)] = "none"
        <3>1. PICK c \in Calls : puller' = [puller EXCEPT ![pl] = c] /\ c.pc = "download" /\ c.at = puller[pl].at
            BY <2>2, <2>3, GotoCall DEF Look, Steps
        <3> QED
            BY <3>1, <2>1, <2>3, <1>2, StepMoves DEF PlaceInv, Fetching
    <2>4. CASE file[Digest(pl)] # "none"
        <3>1. PICK c \in Calls : puller' = [puller EXCEPT ![pl] = c] /\ c.pc = "read" /\ c.at = puller[pl].at
            BY <2>2, <2>4, GotoCall DEF Look, Steps
        <3> QED
            BY <3>1, <2>1, <2>4, <1>2, StepMoves DEF PlaceInv, Fetching
    <2> QED
        BY <2>3, <2>4
<1> QED
    BY <1>1, <1>3, <1>4, ManifestLen

LEMMA DownloadMoves ==
    ASSUME PlaceInv, NEW pl \in Pullers, Download(pl)
    PROVE  \E c : /\ Moves(pl, c) /\ c.pc = "open" /\ c.at = puller[pl].at
                  /\ c.blob # "whole" => harmed'
<1>1. puller[pl] \in Calls /\ puller[pl].pc = "download" /\ puller[pl].at \in 1..Len(Manifest)
    BY Stays DEF Download, At, Placed, Fetching
<1>2. PICK body \in {"whole"} \cup {"short" : m \in Mishaps \cap {"cut"}} :
          /\ puller' = [puller EXCEPT ![pl].pc = "open", ![pl].blob = body]
          /\ harmed' = (harmed \/ body # "whole")
    BY DEF Download
<1>3. body \in Body
    BY DEF Body
<1> DEFINE c == [puller[pl] EXCEPT !.pc = "open", !.blob = body]
<1>4. c \in Calls /\ c.pc = "open" /\ c.at = puller[pl].at /\ c.blob = body
    BY <1>1, <1>3 DEF Calls, Steps
<1>5. puller' = [puller EXCEPT ![pl] = c]
    BY <1>2
<1>6. file' = file
    BY DEF Download
<1>7. Moves(pl, c)
    <2> HIDE DEF c
    <2> QED
        BY <1>1, <1>4, <1>5, <1>6, StepMoves DEF PlaceInv, Fetching
<1> QED
    BY <1>2, <1>4, <1>7 DEF PlaceInv

\* fs::write of a layer in its three steps: the file then exists.
LEMMA WriteMoves ==
    ASSUME PlaceInv, NEW pl \in Pullers, NEW step \in {"fill", "filling", "read"},
           NEW body \in Body \ {"none"}, puller[pl].pc \in {"open", "fill", "filling"},
           Goto(pl, step), file' = [file EXCEPT ![Digest(pl)] = body]
    PROVE  \E c : /\ Moves(pl, c) /\ c.pc = step /\ c.at = puller[pl].at
                  /\ c.blob = puller[pl].blob
<1>1. puller[pl] \in Calls /\ puller[pl].at \in 1..Len(Manifest) /\ Digest(pl) \in Digests
    BY Stays DEF Placed, Fetching
<1>2. PICK c \in Calls : puller' = [puller EXCEPT ![pl] = c] /\ c.pc = step /\ c.at = puller[pl].at
                         /\ c.blob = puller[pl].blob
    BY GotoCall DEF Steps
<1>3. file' \in [Digests -> Body] /\ file'[Digest(pl)] # "none"
    BY <1>1 DEF PlaceInv
<1>4. \A d \in Digests : file[d] # "none" => file'[d] # "none"
    BY <1>1 DEF PlaceInv
<1>5. c.pc \notin {"idle", "layer", "conf", "extract"} /\ (c.pc \in Fetching => puller[pl].pc \in Fetching)
    BY <1>2 DEF Fetching
<1>6. Moves(pl, c)
    BY <1>1, <1>2, <1>3, <1>4, <1>5, StepMoves
<1> QED
    BY <1>2, <1>6

LEMMA WriteBody ==
    /\ \A a, b \in Body : Longer(a, b) \in Body \ {"none"}
    /\ "empty" \in Body \ {"none"}
    /\ \A a \in Body : Longer(a, "short") # "empty" /\ Longer(a, "whole") = "whole"
BY DEF Longer, Body

LEMMA Written ==
    ASSUME PlaceInv, NEW pl \in Pullers, puller[pl].pc \in {"open", "fill", "filling"}
    PROVE  Digest(pl) \in Digests /\ file[Digest(pl)] \in Body /\ puller[pl].blob \in Body
BY Stays DEF Fetching, PlaceInv, Calls

LEMMA OpenMoves ==
    ASSUME PlaceInv, NEW pl \in Pullers, Open(pl)
    PROVE  \E c : Moves(pl, c) /\ c.pc = "fill" /\ c.at = puller[pl].at /\ c.blob = puller[pl].blob
BY WriteBody, WriteMoves DEF Open, At

LEMMA FillMoves ==
    ASSUME PlaceInv, NEW pl \in Pullers, Fill(pl)
    PROVE  \E c : Moves(pl, c) /\ c.pc = "filling" /\ c.at = puller[pl].at /\ c.blob = puller[pl].blob
<1>1. puller[pl].pc = "fill"
    BY DEF Fill, At
<1>2. Longer(file[Digest(pl)], "short") \in Body \ {"none"}
    BY <1>1, Written, WriteBody DEF Body
<1> QED
    BY <1>1, <1>2, WriteMoves DEF Fill

LEMMA FilledMoves ==
    ASSUME PlaceInv, NEW pl \in Pullers, Filled(pl)
    PROVE  \E c : Moves(pl, c) /\ c.pc = "read" /\ c.at = puller[pl].at /\ c.blob = puller[pl].blob
<1>1. puller[pl].pc = "filling"
    BY DEF Filled, At
<1>2. Longer(file[Digest(pl)], puller[pl].blob) \in Body \ {"none"}
    BY <1>1, Written, WriteBody
<1> QED
    BY <1>1, <1>2, WriteMoves DEF Filled

LEMMA ExtractingMoves ==
    ASSUME PlaceInv, NEW pl \in Pullers, puller[pl].pc \in {"read", "extract"}, UNCHANGED file,
           NEW k \in 1..(Len(Layer[Digest(pl)]) + 1),
           puller' = [puller EXCEPT ![pl].pc = "extract", ![pl].entry = k]
    PROVE  \E c : Moves(pl, c) /\ c.pc = "extract" /\ c.at = puller[pl].at /\ c.entry = k
<1>1. puller[pl] \in Calls /\ puller[pl].at \in 1..Len(Manifest) /\ Digest(pl) \in Digests
      /\ Seen(puller[pl], file) /\ Digest(pl) = Manifest[puller[pl].at]
    BY Stays DEF Placed
<1> DEFINE c == [puller[pl] EXCEPT !.pc = "extract", !.entry = k]
<1>2. k \in Nat
    BY <1>1, LayerEntries
<1>3. c \in Calls /\ c.pc = "extract" /\ c.at = puller[pl].at /\ c.entry = k
    BY <1>1, <1>2 DEF Calls, Steps
<1>4. puller' = [puller EXCEPT ![pl] = c]
    OBVIOUS
<1>5. file[Digest(pl)] # "none"
    BY <1>1 DEF Seen
<1>6. Moves(pl, c)
    <2> HIDE DEF c
    <2> QED
        BY <1>1, <1>3, <1>4, <1>5, StepMoves DEF PlaceInv, Fetching
<1> QED
    BY <1>3, <1>6

LEMMA NextMoves ==
    ASSUME PlaceInv, NEW pl \in Pullers, NextLayer(pl), UNCHANGED file,
           puller[pl].pc \in {"read", "extract"}
    PROVE  \E c : Moves(pl, c) /\ c.pc = "layer" /\ c.at = puller[pl].at + 1
<1>1. puller'[pl] = ToLayer(puller[pl].at + 1)
    BY DEF NextLayer, PlaceInv
<1> QED
    BY <1>1, NextLayerMoves DEF ToLayer

LEMMA ReadMoves ==
    ASSUME PlaceInv, NEW pl \in Pullers, Read(pl)
    PROVE  \E c : /\ Moves(pl, c)
                  /\ \/ file[Digest(pl)] = "whole" /\ c.pc = "extract" /\ c.at = puller[pl].at /\ c.entry = 1
                     \/ file[Digest(pl)] = "short" /\ c = Idle
                     \/ file[Digest(pl)] = "empty" /\ c.pc = "layer" /\ c.at = puller[pl].at + 1
<1>1. puller[pl].pc = "read" /\ UNCHANGED file /\ Digest(pl) \in Digests
    BY Stays DEF Read, At
<1>2. 1 \in 1..(Len(Layer[Digest(pl)]) + 1)
    BY <1>1, LayerEntries
<1>3. CASE file[Digest(pl)] = "whole"
    <2>1. puller' = [puller EXCEPT ![pl].pc = "extract", ![pl].entry = 1]
        BY <1>3 DEF Read
    <2>2. PICK c : Moves(pl, c) /\ c.pc = "extract" /\ c.at = puller[pl].at /\ c.entry = 1
        BY <2>1, <1>1, <1>2, ExtractingMoves
    <2> QED
        BY <2>2, <1>3
<1>4. CASE file[Digest(pl)] = "short"
    BY <1>1, <1>4, EndMoves DEF Read
<1>5. CASE file[Digest(pl)] = "empty"
    BY <1>1, <1>5, NextMoves DEF Read
<1> QED
    BY <1>3, <1>4, <1>5 DEF Read

LEMMA ExtractMoves ==
    ASSUME PlaceInv, NEW pl \in Pullers, Extract(pl)
    PROVE  \E c : /\ Moves(pl, c)
                  /\ \/ /\ puller[pl].entry = Len(Layer[Digest(pl)]) + 1 /\ c.pc = "layer"
                        /\ c.at = puller[pl].at + 1 /\ rootfs' = rootfs /\ harmed' = harmed
                     \/ /\ puller[pl].entry \in 1..Len(Layer[Digest(pl)]) /\ c.pc = "extract"
                        /\ c.at = puller[pl].at /\ c.entry = puller[pl].entry + 1
                        /\ \/ rootfs' = Unpack(rootfs, Digest(pl), NextEntry(pl)) /\ harmed' = harmed
                           \/ harmed' = TRUE /\ rootfs' = rootfs
<1>1. /\ puller[pl].pc = "extract" /\ UNCHANGED file /\ Digest(pl) \in Digests
      /\ puller[pl].entry \in 1..(Len(Layer[Digest(pl)]) + 1)
    BY Stays DEF Extract, At, Placed
<1>2. Len(Layer[Digest(pl)]) \in Nat
    BY <1>1, LayerEntries
<1>3. CASE puller[pl].entry > Len(Layer[Digest(pl)])
    <2>1. puller[pl].entry = Len(Layer[Digest(pl)]) + 1
        BY <1>1, <1>2, <1>3
    <2>2. NextLayer(pl) /\ rootfs' = rootfs /\ harmed' = harmed
        BY <1>3 DEF Extract
    <2>3. PICK c : Moves(pl, c) /\ c.pc = "layer" /\ c.at = puller[pl].at + 1
        BY <2>2, <1>1, NextMoves
    <2> QED
        BY <2>1, <2>2, <2>3
<1>4. CASE puller[pl].entry \in 1..Len(Layer[Digest(pl)])
    <2>1. ~(puller[pl].entry > Len(Layer[Digest(pl)])) /\ puller[pl].entry + 1 \in 1..(Len(Layer[Digest(pl)]) + 1)
        BY <1>2, <1>4
    <2>2. /\ puller' = [puller EXCEPT ![pl].entry = puller[pl].entry + 1]
          /\ \/ rootfs' = Unpack(rootfs, Digest(pl), NextEntry(pl)) /\ harmed' = harmed
             \/ harmed' = TRUE /\ rootfs' = rootfs
        BY <2>1 DEF Extract
    <2>3. puller' = [puller EXCEPT ![pl].pc = "extract", ![pl].entry = puller[pl].entry + 1]
        <3>1. puller[pl] = [puller[pl] EXCEPT !.pc = "extract"]
            BY <1>1, Stays DEF Calls
        <3>2. [puller[pl] EXCEPT !.entry = puller[pl].entry + 1]
              = [[puller[pl] EXCEPT !.pc = "extract"] EXCEPT !.entry = puller[pl].entry + 1]
            BY <3>1
        <3> QED
            BY <2>2, <3>2
    <2>4. PICK c : Moves(pl, c) /\ c.pc = "extract" /\ c.at = puller[pl].at /\ c.entry = puller[pl].entry + 1
        BY <1>1, <2>1, <2>3, ExtractingMoves
    <2> QED
        BY <1>4, <2>2, <2>4
<1>5. puller[pl].entry > Len(Layer[Digest(pl)]) \/ puller[pl].entry \in 1..Len(Layer[Digest(pl)])
    BY <1>1, <1>2
<1> QED
    BY <1>3, <1>4, <1>5

Act(pl) ==
    \/ Begin(pl) \/ Look(pl) \/ Download(pl) \/ Refused(pl)
    \/ Open(pl) \/ Fill(pl) \/ Filled(pl) \/ Read(pl)
    \/ Extract(pl) \/ SaveInfo(pl) \/ Killed(pl)

LEMMA ActMoves ==
    ASSUME PlaceInv, NEW pl \in Pullers, Act(pl)
    PROVE  \E c : Moves(pl, c)
<1>1. CASE Begin(pl)
    BY <1>1, BeginMoves
<1>2. CASE Look(pl)
    BY <1>2, LookMoves
<1>3. CASE Download(pl)
    BY <1>3, DownloadMoves
<1>4. CASE Refused(pl)
    BY <1>4, EndMoves DEF Refused
<1>5. CASE Open(pl)
    BY <1>5, OpenMoves
<1>6. CASE Fill(pl)
    BY <1>6, FillMoves
<1>7. CASE Filled(pl)
    BY <1>7, FilledMoves
<1>8. CASE Read(pl)
    BY <1>8, ReadMoves
<1>9. CASE Extract(pl)
    BY <1>9, ExtractMoves
<1>10. CASE SaveInfo(pl)
    BY <1>10, EndMoves DEF SaveInfo
<1>11. CASE Killed(pl)
    BY <1>11, EndMoves DEF Killed
<1> QED
    BY <1>1, <1>2, <1>3, <1>4, <1>5, <1>6, <1>7, <1>8, <1>9, <1>10, <1>11 DEF Act

LEMMA ActTypes ==
    ASSUME PlaceInv, NEW pl \in Pullers, Act(pl)
    PROVE  /\ rootfs' \in [Paths -> Digests \cup {NoFile}] /\ harmed' \in BOOLEAN
           /\ listed' = listed \/ (listed' = TRUE /\ puller[pl].pc = "conf")
<1>1. rootfs \in [Paths -> Digests \cup {NoFile}] /\ harmed \in BOOLEAN
    BY DEF PlaceInv
<1>2. CASE Extract(pl)
    <2>1. Digest(pl) \in Digests
        BY <1>2, Stays DEF Extract, At
    <2>2. Unpack(rootfs, Digest(pl), NextEntry(pl)) \in [Paths -> Digests \cup {NoFile}]
        BY <1>1, <2>1 DEF Unpack
    <2>3. /\ rootfs' = Unpack(rootfs, Digest(pl), NextEntry(pl)) \/ rootfs' = rootfs
          /\ harmed' = harmed \/ harmed' = TRUE
        BY <1>2, ExtractMoves
    <2>4. listed' = listed
        BY <1>2 DEF Extract
    <2>5. harmed' \in BOOLEAN
        BY <1>1, <2>3
    <2>6. rootfs' \in [Paths -> Digests \cup {NoFile}]
        BY <1>1, <2>2, <2>3
    <2> QED
        BY <2>4, <2>5, <2>6
<1>3. CASE ~Extract(pl)
    <2>1. rootfs' = rootfs
        BY <1>3 DEF Act, Begin, Look, Download, Refused, Open, Fill, Filled, Read, SaveInfo, Killed
    <2>2. harmed' = harmed \/ harmed' = TRUE \/ Download(pl)
        BY <1>3 DEF Act, Begin, Look, Refused, Open, Fill, Filled, Read, SaveInfo, Killed
    <2>3. Download(pl) => harmed' \in BOOLEAN
        BY <1>1 DEF Download
    <2>4. listed' = listed \/ SaveInfo(pl)
        BY <1>3 DEF Act, Begin, Look, Download, Refused, Open, Fill, Filled, Read, Killed
    <2>5. SaveInfo(pl) => listed' = TRUE /\ puller[pl].pc = "conf"
        BY DEF SaveInfo, At
    <2>6. harmed' \in BOOLEAN
        BY <1>1, <2>2, <2>3
    <2>7. rootfs' \in [Paths -> Digests \cup {NoFile}]
        BY <1>1, <2>1
    <2> QED
        BY <2>4, <2>5, <2>6, <2>7, Zenon
<1> QED
    BY <1>2, <1>3

LEMMA PlaceStep == PlaceInv /\ [Next]_vars => PlaceInv'
<1> SUFFICES ASSUME PlaceInv, [Next]_vars PROVE PlaceInv'
    OBVIOUS
<1>1. ASSUME UNCHANGED vars PROVE PlaceInv'
    BY <1>1 DEF vars, PlaceInv
<1>2. ASSUME NEW pl \in Pullers, Act(pl)
      PROVE  PlaceInv'
    <2>0. PICK c : Moves(pl, c)
        BY <1>2, ActMoves
    <2>1. \A i \in 1..Len(Manifest) : file[Manifest[i]] # "none" => file'[Manifest[i]] # "none"
        BY <2>0, ManifestDigest DEF Moves
    <2>2. puller[pl].pc = "conf" => \A i \in 1..Len(Manifest) : file[Manifest[i]] # "none"
        BY Stays, ManifestLen DEF Placed, Seen
    <2>3. listed' => \A i \in 1..Len(Manifest) : file'[Manifest[i]] # "none"
        BY <1>2, <2>1, <2>2, ActTypes DEF PlaceInv
    <2>4. /\ puller' \in [Pullers -> Calls]
          /\ \A q \in Pullers : Placed(puller'[q]) /\ Seen(puller'[q], file')
        BY <2>0, PlaceMoves
    <2>5. listed' \in BOOLEAN /\ file' \in [Digests -> Body]
        BY <1>2, <2>0, ActTypes DEF PlaceInv, Moves
    <2>6. rootfs' \in [Paths -> Digests \cup {NoFile}] /\ harmed' \in BOOLEAN
        BY <1>2, ActTypes
    <2> QED
        BY <2>6, <2>3, <2>4, <2>5 DEF PlaceInv
<1> QED
    BY <1>1, <1>2 DEF Next, Act

LEMMA PlaceTypes == PlaceInv => TypeOK
<1> SUFFICES ASSUME PlaceInv PROVE TypeOK
    OBVIOUS
<1>1. ASSUME NEW pl \in Pullers
      PROVE  /\ puller[pl].pc \in {"idle", "layer", "download", "open", "fill",
                                   "filling", "read", "extract", "conf"}
             /\ At(pl, "idle") <=> puller[pl] = Idle
             /\ puller[pl].at \in 0..(Len(Manifest) + 1)
             /\ puller[pl].blob \in Body
    BY Stays, IdleCall DEF Calls, Steps, Placed, At
<1> QED
    BY <1>1 DEF PlaceInv, TypeOK

\* Any number of overlapping pulls of any image: each call is always at a
\* layer that the image has, and at an entry that the layer has, in the middle
\* of a write, a read or an extraction.
THEOREM PullTypes == Spec => []TypeOK
BY PlaceInit, PlaceStep, PlaceTypes, PTL DEF Spec
-----------------------------------------------------------------------------
\* While nothing has gone wrong, a layer file that is not whole is one that a
\* call is filling, and a call writes the whole layer.
Filling(d, step) == \E q \in Pullers : puller[q].pc = step /\ Digest(q) = d

FileInv ==
    ~harmed =>
       /\ \A d \in Digests : /\ file[d] = "empty" => Filling(d, "fill")
                             /\ file[d] = "short" => Filling(d, "filling")
       /\ \A pl \in Pullers : puller[pl].pc \in {"open", "fill", "filling"} => puller[pl].blob = "whole"

\* Layer i has an entry for path p; t is the topmost layer that has one.
Speaks(i, p) == \E k \in 1..Len(Layer[Manifest[i]]) : Layer[Manifest[i]][k].path = p

IsTop(t, p) ==
    /\ t \in 1..Len(Manifest)
    /\ Speaks(t, p)
    /\ \A j \in 1..Len(Manifest) : Speaks(j, p) => j <= t

\* A call that has nothing to unpack at path p any more, or has left it to
\* another call; and one that will still come to the topmost layer's entry.
Done(c, t, p) ==
    \/ c.at > t
    \/ /\ c.at = t /\ c.pc = "extract"
       /\ \A k \in c.entry..Len(Layer[Manifest[t]]) : Layer[Manifest[t]][k].path # p

Behind(c, t, p) == c.at >= 1 /\ c.pc # "download" /\ ~Done(c, t, p)

Reached(t, p) == listed \/ \E q \in Pullers : Done(puller[q], t, p)

Covered(t, p) == rootfs[p] = Overlay[p] \/ \E q \in Pullers : Behind(puller[q], t, p)

\* Once a call has come past the topmost entry for a path, the path is right,
\* or another call has yet to come to that entry.
CoverInv ==
    ~harmed =>
       \A p \in Paths :
          /\ \A t \in 1..Len(Manifest) : IsTop(t, p) /\ Reached(t, p) => Covered(t, p)
          /\ (\A i \in 1..Len(Manifest) : ~Speaks(i, p)) => rootfs[p] = NoFile

-----------------------------------------------------------------------------
\* Paths and the layers that have entries for them.
LEMMA LayerEntry ==
    ASSUME NEW d \in Digests, NEW k \in 1..Len(Layer[d])
    PROVE  Layer[d][k] \in Entry
BY LayerAssumption

LEMMA SpeaksHas ==
    ASSUME NEW i \in 1..Len(Manifest), NEW p
    PROVE  Speaks(i, p) <=> Puts(Manifest[i], p) \/ Hides(Manifest[i], p)
<1>1. Manifest[i] \in Digests
    BY ManifestDigest
<1>2. ASSUME NEW k \in 1..Len(Layer[Manifest[i]]), Layer[Manifest[i]][k].path = p
      PROVE  Puts(Manifest[i], p) \/ Hides(Manifest[i], p)
    <2> DEFINE e == Layer[Manifest[i]][k]
    <2>1. e \in Entry
        BY <1>1, LayerEntry
    <2>2. e = [kind |-> "file", path |-> p] \/ e = [kind |-> "whiteout", path |-> p]
        BY <2>1, <1>2 DEF Entry
    <2> QED
        BY <2>2 DEF Puts, Hides, Entries
<1>3. ASSUME Puts(Manifest[i], p) \/ Hides(Manifest[i], p)
      PROVE  Speaks(i, p)
    <2>1. PICK k \in 1..Len(Layer[Manifest[i]]) : \/ Layer[Manifest[i]][k] = [kind |-> "file", path |-> p]
                                                  \/ Layer[Manifest[i]][k] = [kind |-> "whiteout", path |-> p]
        BY <1>3 DEF Puts, Hides, Entries
    <2> QED
        BY <2>1 DEF Speaks
<1> QED
    BY <1>2, <1>3 DEF Speaks

LEMMA TopExists ==
    ASSUME NEW p, \E i \in 1..Len(Manifest) : Speaks(i, p)
    PROVE  \E t : IsTop(t, p)
<1> DEFINE T == {i \in 1..Len(Manifest) : Speaks(i, p)}
<1>1. T \subseteq 1..Len(Manifest) /\ T # {}
    OBVIOUS
<1>2. PICK t \in T : \A j \in T : j <= t
    <2> HIDE DEF T
    <2> QED
        BY <1>1, Greatest, ManifestLen
<1> QED
    BY <1>2 DEF IsTop

LEMMA SilentOverlay ==
    ASSUME NEW p \in Paths, \A i \in 1..Len(Manifest) : ~Speaks(i, p)
    PROVE  Overlay[p] = NoFile
<1>1. {i \in 1..Len(Manifest) : Puts(Manifest[i], p) \/ Hides(Manifest[i], p)} = {}
    BY SpeaksHas
<1> QED
    BY <1>1 DEF Overlay

LEMMA TopOverlay ==
    ASSUME NEW p \in Paths, NEW t, IsTop(t, p)
    PROVE  Overlay[p] = IF Puts(Manifest[t], p) THEN Manifest[t] ELSE NoFile
<1> DEFINE S == {i \in 1..Len(Manifest) : Puts(Manifest[i], p) \/ Hides(Manifest[i], p)}
           u == CHOOSE i \in S : \A j \in S : j <= i
<1>1. t \in S /\ \A j \in S : j <= t
    BY SpeaksHas DEF IsTop
<1>2. u \in S /\ \A j \in S : j <= u
    BY <1>1
<1>3. u = t
    <2>1. u <= t /\ t <= u /\ u \in Nat /\ t \in Nat
        <3> HIDE DEF u
        <3> QED
            BY <1>1, <1>2
    <2> QED
        BY <2>1
<1>4. Overlay[p] = IF S # {} /\ Puts(Manifest[u], p) THEN Manifest[u] ELSE NoFile
    BY DEF Overlay
<1> HIDE DEF S, u
<1> QED
    BY <1>1, <1>3, <1>4

\* The last entry of a layer for a path leaves there what the layer says.
LEMMA LastWrites ==
    ASSUME NEW d \in Digests, NEW k \in 1..Len(Layer[d]), NEW p \in Paths,
           Layer[d][k].path = p,
           \A j \in (k + 1)..Len(Layer[d]) : Layer[d][j].path # p,
           NEW fs \in [Paths -> Digests \cup {NoFile}]
    PROVE  Unpack(fs, d, Layer[d][k])[p] = IF Puts(d, p) THEN d ELSE NoFile
<1>1. Layer[d][k] \in Entry /\ Len(Layer[d]) \in Nat
    BY LayerEntry, LayerEntries
<1>2. CASE Layer[d][k].kind = "file"
    <2>1. Layer[d][k] = [kind |-> "file", path |-> p]
        BY <1>1, <1>2 DEF Entry
    <2>2. Puts(d, p)
        BY <2>1 DEF Puts, Entries
    <2> QED
        BY <1>2, <2>2 DEF Unpack
<1>3. CASE Layer[d][k].kind = "whiteout"
    <2>1. ASSUME NEW i \in 1..Len(Layer[d]), Layer[d][i] = [kind |-> "file", path |-> p]
          PROVE  FALSE
        <3>1. Layer[d][i].path = p /\ Layer[d][i].kind = "file"
            BY <2>1
        <3>2. i < k
            BY <3>1, <1>1, <1>3
        <3> QED
            BY <2>1, <3>2, <1>3, WhiteoutAssumption
    <2>2. ~Puts(d, p)
        BY <2>1 DEF Puts, Entries
    <2> QED
        BY <1>3, <2>2 DEF Unpack
<1> QED
    BY <1>1, <1>2, <1>3 DEF Entry

-----------------------------------------------------------------------------
LEMMA FileMoves ==
    ASSUME PlaceInv, FileInv, ~harmed, NEW pl \in Pullers, NEW c, Moves(pl, c),
           \A d \in Digests : file'[d] = "empty" =>
              \/ file[d] = "empty" /\ ~(puller[pl].pc = "fill" /\ Digest(pl) = d)
              \/ c.pc = "fill" /\ Manifest[c.at] = d,
           \A d \in Digests : file'[d] = "short" =>
              \/ file[d] = "short" /\ ~(puller[pl].pc = "filling" /\ Digest(pl) = d)
              \/ c.pc = "filling" /\ Manifest[c.at] = d,
           c.pc \in {"open", "fill", "filling"} => c.blob = "whole"
    PROVE  FileInv'
<1>1. \A q \in Pullers : puller'[q] = IF q = pl THEN c ELSE puller[q]
    BY DEF Moves, PlaceInv
<1>2. \A q \in Pullers : Digest(q)' = IF q = pl THEN Manifest[c.at] ELSE Digest(q)
    BY <1>1 DEF Digest
<1>3. ASSUME NEW d \in Digests, file'[d] = "empty" PROVE Filling(d, "fill")'
    <2>1. CASE c.pc = "fill" /\ Manifest[c.at] = d
        BY <2>1, <1>1, <1>2 DEF Filling
    <2>2. CASE file[d] = "empty" /\ ~(puller[pl].pc = "fill" /\ Digest(pl) = d)
        <3>1. PICK q \in Pullers : puller[q].pc = "fill" /\ Digest(q) = d
            BY <2>2 DEF FileInv, Filling
        <3> QED
            BY <3>1, <2>2, <1>1, <1>2 DEF Filling
    <2> QED
        BY <2>1, <2>2, <1>3
<1>4. ASSUME NEW d \in Digests, file'[d] = "short" PROVE Filling(d, "filling")'
    <2>1. CASE c.pc = "filling" /\ Manifest[c.at] = d
        BY <2>1, <1>1, <1>2 DEF Filling
    <2>2. CASE file[d] = "short" /\ ~(puller[pl].pc = "filling" /\ Digest(pl) = d)
        <3>1. PICK q \in Pullers : puller[q].pc = "filling" /\ Digest(q) = d
            BY <2>2 DEF FileInv, Filling
        <3> QED
            BY <3>1, <2>2, <1>1, <1>2 DEF Filling
    <2> QED
        BY <2>1, <2>2, <1>4
<1>5. \A q \in Pullers : puller'[q].pc \in {"open", "fill", "filling"} => puller'[q].blob = "whole"
    BY <1>1 DEF FileInv
<1> QED
    BY <1>3, <1>4, <1>5 DEF FileInv

LEMMA HarmStays ==
    ASSUME PlaceInv, NEW pl \in Pullers, Act(pl), ~harmed'
    PROVE  ~harmed
BY ExtractMoves DEF Act, Begin, Look, Download, Refused, Open, Fill, Filled, Read, SaveInfo, Killed

LEMMA FileAct ==
    ASSUME PlaceInv, FileInv, ~harmed, NEW pl \in Pullers, Act(pl), ~harmed'
    PROVE  FileInv'
<1>1. puller[pl].pc \in {"open", "fill", "filling"} => puller[pl].blob = "whole" /\ Digest(pl) \in Digests
                                                      /\ file[Digest(pl)] \in Body
    BY Written DEF FileInv
<1>2. puller[pl] \in Calls /\ Digest(pl) = Manifest[puller[pl].at]
    BY Stays
\* Steps that write no layer.
<1>3. ASSUME NEW c, Moves(pl, c), file' = file, puller[pl].pc \notin {"fill", "filling"},
             c.pc \in {"open", "fill", "filling"} => c.blob = "whole"
      PROVE  FileInv'
    BY <1>3, FileMoves
<1>4. CASE Begin(pl)
    <2>1. file' = file /\ puller[pl].pc = "idle"
        BY <1>4 DEF Begin, At
    <2>2. Moves(pl, ToLayer(1)) /\ ToLayer(1).pc = "layer"
        BY <1>4, BeginMoves DEF ToLayer
    <2> QED
        BY <2>1, <2>2, <1>3
<1>5. CASE Look(pl)
    <2>1. file' = file /\ puller[pl].pc = "layer"
        BY <1>5 DEF Look, At
    <2>2. PICK c : Moves(pl, c) /\ c.pc \in {"conf", "download", "read"}
        BY <1>5, LookMoves
    <2> QED
        BY <2>1, <2>2, <1>3
<1>6. CASE Download(pl)
    <2>1. file' = file /\ puller[pl].pc = "download"
        BY <1>6 DEF Download, At
    <2>2. PICK c : Moves(pl, c) /\ c.pc = "open" /\ c.blob = "whole"
        BY <1>6, DownloadMoves
    <2> QED
        BY <2>1, <2>2, <1>3
<1>7. CASE Refused(pl)
    <2>1. file' = file /\ puller[pl].pc = "download" /\ Moves(pl, Idle)
        BY <1>7, EndMoves DEF Refused, At
    <2> QED
        BY <2>1, <1>3, IdleCall
<1>8. CASE Open(pl)
    <2>1. file' = [file EXCEPT ![Digest(pl)] = "empty"] /\ puller[pl].pc = "open"
        BY <1>8 DEF Open, At
    <2>2. PICK c : Moves(pl, c) /\ c.pc = "fill" /\ c.at = puller[pl].at /\ c.blob = puller[pl].blob
        BY <1>8, OpenMoves
    <2>3. \A d \in Digests : file'[d] = IF d = Digest(pl) THEN "empty" ELSE file[d]
        BY <2>1 DEF PlaceInv
    <2> QED
        BY <2>1, <2>2, <2>3, <1>1, <1>2, FileMoves
<1>9. CASE Fill(pl)
    <2>1. file' = [file EXCEPT ![Digest(pl)] = Longer(file[Digest(pl)], "short")] /\ puller[pl].pc = "fill"
        BY <1>9 DEF Fill, At
    <2>2. PICK c : Moves(pl, c) /\ c.pc = "filling" /\ c.at = puller[pl].at /\ c.blob = puller[pl].blob
        BY <1>9, FillMoves
    <2>3. \A d \in Digests : file'[d] = IF d = Digest(pl) THEN Longer(file[Digest(pl)], "short") ELSE file[d]
        BY <2>1 DEF PlaceInv
    <2>4. Longer(file[Digest(pl)], "short") # "empty"
        BY <2>1, <1>1, WriteBody
    <2> QED
        BY <2>1, <2>2, <2>3, <2>4, <1>1, <1>2, FileMoves
<1>10. CASE Filled(pl)
    <2>1. file' = [file EXCEPT ![Digest(pl)] = Longer(file[Digest(pl)], puller[pl].blob)] /\ puller[pl].pc = "filling"
        BY <1>10 DEF Filled, At
    <2>2. PICK c : Moves(pl, c) /\ c.pc = "read"
        BY <1>10, FilledMoves
    <2>3. \A d \in Digests : file'[d] = IF d = Digest(pl) THEN "whole" ELSE file[d]
        BY <2>1, <1>1, WriteBody DEF PlaceInv
    <2> QED
        BY <2>1, <2>2, <2>3, FileMoves
<1>11. CASE Read(pl)
    <2>1. file' = file /\ puller[pl].pc = "read"
        BY <1>11 DEF Read, At
    <2>2. PICK c : Moves(pl, c) /\ (c.pc = "extract" \/ c = Idle \/ c.pc = "layer")
        BY <1>11, ReadMoves
    <2> QED
        BY <2>1, <2>2, <1>3, IdleCall
<1>12. CASE Extract(pl)
    <2>1. file' = file /\ puller[pl].pc = "extract"
        BY <1>12 DEF Extract, At
    <2>2. PICK c : Moves(pl, c) /\ (c.pc = "extract" \/ c.pc = "layer")
        BY <1>12, ExtractMoves
    <2> QED
        BY <2>1, <2>2, <1>3
<1>13. CASE SaveInfo(pl)
    <2>1. file' = file /\ puller[pl].pc = "conf" /\ Moves(pl, Idle)
        BY <1>13, EndMoves DEF SaveInfo, At
    <2> QED
        BY <2>1, <1>3, IdleCall
<1>14. ~Killed(pl)
    BY DEF Killed
<1> QED
    BY <1>4, <1>5, <1>6, <1>7, <1>8, <1>9, <1>10, <1>11, <1>12, <1>13, <1>14 DEF Act

-----------------------------------------------------------------------------
\* The topmost layer for a path is there once a call has come past it.
LEMMA ReachedFiles ==
    ASSUME PlaceInv, NEW p, NEW t, IsTop(t, p), Reached(t, p)
    PROVE  \A i \in 1..Len(Manifest) : i <= t => file[Manifest[i]] # "none"
<1>1. CASE listed
    BY <1>1 DEF PlaceInv
<1>2. CASE \E q \in Pullers : Done(puller[q], t, p)
    <2>1. PICK q \in Pullers : Done(puller[q], t, p)
        BY <1>2
    <2>2. Seen(puller[q], file) /\ puller[q] \in Calls /\ t \in 1..Len(Manifest)
        BY Stays DEF IsTop
    <2>3. CASE puller[q].at > t
        BY <2>2, <2>3, ManifestLen DEF Seen, Calls
    <2>4. CASE puller[q].at = t /\ puller[q].pc = "extract"
        <3>1. file[Manifest[t]] # "none" /\ \A i \in 1..Len(Manifest) : i < t => file[Manifest[i]] # "none"
            BY <2>2, <2>4 DEF Seen
        <3>2. \A i \in 1..Len(Manifest) : i <= t => i < t \/ i = t
            BY <2>2, ManifestLen
        <3> QED
            BY <3>1, <3>2
    <2> QED
        BY <2>1, <2>3, <2>4 DEF Done
<1> QED
    BY <1>1, <1>2 DEF Reached

\* Another call than pl will still come to the topmost entry.
Other(pl, t, p) == \E q \in Pullers : q # pl /\ Behind(puller[q], t, p)

\* A step that leaves the path alone, and does not take away the last call that
\* was to come to the topmost entry.
LEMMA CoverMoves ==
    ASSUME PlaceInv, NEW pl \in Pullers, NEW c, Moves(pl, c), NEW p, NEW t,
           Reached(t, p) => Covered(t, p), rootfs' = rootfs \/ rootfs'[p] = rootfs[p],
           listed' => Reached(t, p),
           Done(c, t, p) => Reached(t, p) \/ Other(pl, t, p),
           Reached(t, p) /\ Behind(puller[pl], t, p) => Behind(c, t, p) \/ Other(pl, t, p),
           Reached(t, p)'
    PROVE  Covered(t, p)'
<1>1. \A q \in Pullers : puller'[q] = IF q = pl THEN c ELSE puller[q]
    BY DEF Moves, PlaceInv
<1>2. Other(pl, t, p) => Covered(t, p)'
    BY <1>1 DEF Other, Covered
<1>3. Reached(t, p) \/ Other(pl, t, p)
    BY <1>1 DEF Reached
<1>4. CASE Reached(t, p)
    <2>1. CASE rootfs[p] = Overlay[p]
        BY <2>1 DEF Covered
    <2>2. CASE Behind(puller[pl], t, p)
        BY <2>2, <1>1, <1>2, <1>4 DEF Covered
    <2>3. CASE \E q \in Pullers : q # pl /\ Behind(puller[q], t, p)
        BY <2>3, <1>2 DEF Other
    <2> QED
        BY <1>4, <2>1, <2>2, <2>3 DEF Covered
<1> QED
    BY <1>2, <1>3, <1>4

\* The same for a step that comes to no other layer and reads or unpacks none.
LEMMA CoverSame ==
    ASSUME PlaceInv, NEW pl \in Pullers, NEW c, Moves(pl, c), NEW p, NEW t,
           Reached(t, p) => Covered(t, p), rootfs' = rootfs, listed' = listed,
           c.at = puller[pl].at, c.pc \notin {"extract", "download"}, puller[pl].pc # "extract",
           Reached(t, p)'
    PROVE  Covered(t, p)'
<1>1. Done(c, t, p) <=> Done(puller[pl], t, p)
    BY DEF Done
<1>2. Behind(puller[pl], t, p) => Behind(c, t, p)
    BY <1>1 DEF Behind
<1>3. listed' => Reached(t, p)
    BY DEF Reached
<1>4. Done(c, t, p) => Reached(t, p)
    BY <1>1 DEF Reached
<1> QED
    BY <1>2, <1>3, <1>4, CoverMoves

\* The same for a call that ends.
LEMMA CoverEnd ==
    ASSUME PlaceInv, NEW pl \in Pullers, Moves(pl, Idle), NEW p, NEW t, IsTop(t, p),
           Reached(t, p) => Covered(t, p), rootfs' = rootfs,
           listed' => Reached(t, p),
           Behind(puller[pl], t, p) => Other(pl, t, p),
           Reached(t, p)'
    PROVE  Covered(t, p)'
<1>1. ~Done(Idle, t, p)
    BY IdleCall, ManifestLen DEF Done, IsTop
<1> QED
    BY <1>1, CoverMoves

\* A call that fills a layer is at the first place where the layer stands, so
\* it is behind whoever reads the file.
LEMMA FillerBehind ==
    ASSUME PlaceInv, NEW pl \in Pullers, puller[pl].pc = "read", NEW p, NEW t, IsTop(t, p),
           puller[pl].at <= t, NEW step \in {"fill", "filling"}, Filling(Digest(pl), step)
    PROVE  Other(pl, t, p)
<1>1. PICK q \in Pullers : puller[q].pc = step /\ Digest(q) = Digest(pl)
    BY DEF Filling
<1>2. /\ puller[q].at \in 1..Len(Manifest) /\ puller[pl].at \in 1..Len(Manifest)
      /\ Manifest[puller[q].at] = Manifest[puller[pl].at]
      /\ \A i \in 1..Len(Manifest) : i < puller[q].at => Manifest[i] # Manifest[puller[q].at]
    BY <1>1, Stays DEF Placed, Seen, Fetching
<1>3. t \in 1..Len(Manifest)
    BY DEF IsTop
<1>4. puller[q].at <= puller[pl].at
    BY <1>2, ManifestLen
<1>5. puller[q].at <= t /\ puller[q].at >= 1
    BY <1>2, <1>3, <1>4, ManifestLen
<1>6. Behind(puller[q], t, p)
    BY <1>1, <1>2, <1>3, <1>5, ManifestLen DEF Behind, Done
<1> QED
    BY <1>1, <1>6 DEF Other

LEMMA CoverLook ==
    ASSUME PlaceInv, NEW pl \in Pullers, Look(pl), NEW p, NEW t, IsTop(t, p),
           Reached(t, p) => Covered(t, p), Reached(t, p)'
    PROVE  Covered(t, p)'
<1>1. rootfs' = rootfs /\ listed' = listed /\ puller[pl].pc = "layer"
    BY DEF Look, At
<1>2. PICK c : /\ Moves(pl, c) /\ c.pc \in {"conf", "download", "read"} /\ c.at = puller[pl].at
               /\ c.pc = "download" => file[Digest(pl)] = "none"
    BY LookMoves
<1>3. CASE c.pc # "download"
    BY <1>1, <1>2, <1>3, CoverSame
<1>4. CASE c.pc = "download"
    <2>1. Done(c, t, p) <=> Done(puller[pl], t, p)
        BY <1>1, <1>2, <1>4 DEF Done
    <2>2. puller[pl].at \in 1..Len(Manifest) /\ Digest(pl) = Manifest[puller[pl].at] /\ t \in 1..Len(Manifest)
        BY <1>2, <1>4, Stays DEF Moves, Placed, Fetching, IsTop
    <2>3. Reached(t, p) => ~Behind(puller[pl], t, p)
        <3>1. Reached(t, p) => ~(puller[pl].at <= t)
            BY <1>2, <1>4, <2>2, ReachedFiles
        <3> QED
            BY <3>1, <2>2, ManifestLen DEF Behind, Done
    <2>4. listed' => Reached(t, p)
        BY <1>1 DEF Reached
    <2>5. Done(c, t, p) => Reached(t, p)
        BY <2>1 DEF Reached
    <2> QED
        BY <1>1, <1>2, <2>3, <2>4, <2>5, CoverMoves
<1> QED
    BY <1>3, <1>4

LEMMA CoverRead ==
    ASSUME PlaceInv, FileInv, ~harmed, NEW pl \in Pullers, Read(pl), NEW p, NEW t, IsTop(t, p),
           Reached(t, p) => Covered(t, p), Reached(t, p)'
    PROVE  Covered(t, p)'
<1>1. rootfs' = rootfs /\ listed' = listed /\ puller[pl].pc = "read"
    BY DEF Read, At
<1>2. /\ puller[pl].at \in 1..Len(Manifest) /\ Digest(pl) = Manifest[puller[pl].at]
      /\ Digest(pl) \in Digests /\ t \in 1..Len(Manifest)
    BY <1>1, Stays DEF Placed, IsTop
<1>3. listed' => Reached(t, p)
    BY <1>1 DEF Reached
<1>4. PICK c : /\ Moves(pl, c)
               /\ \/ file[Digest(pl)] = "whole" /\ c.pc = "extract" /\ c.at = puller[pl].at /\ c.entry = 1
                  \/ file[Digest(pl)] = "short" /\ c = Idle
                  \/ file[Digest(pl)] = "empty" /\ c.pc = "layer" /\ c.at = puller[pl].at + 1
    BY ReadMoves
<1>5. ASSUME puller[pl].at <= t, file[Digest(pl)] \in {"short", "empty"}
      PROVE  Other(pl, t, p)
    <2>1. Filling(Digest(pl), "fill") \/ Filling(Digest(pl), "filling")
        BY <1>2, <1>5 DEF FileInv
    <2> QED
        BY <2>1, <1>1, <1>5, FillerBehind
<1>6. CASE file[Digest(pl)] = "whole" /\ c.pc = "extract" /\ c.at = puller[pl].at /\ c.entry = 1
    \* All of the layer's entries are still to come, the one for p among them.
    <2>1. ~(c.at = t /\ \A k \in c.entry..Len(Layer[Manifest[t]]) : Layer[Manifest[t]][k].path # p)
        BY <1>6 DEF IsTop, Speaks
    <2>2. Done(c, t, p) => Done(puller[pl], t, p)
        BY <1>6, <2>1 DEF Done
    <2>3. Behind(puller[pl], t, p) => Behind(c, t, p)
        BY <1>6, <2>2 DEF Behind
    <2>4. Done(c, t, p) => Reached(t, p)
        BY <2>2 DEF Reached
    <2> QED
        BY <1>1, <1>3, <1>4, <2>3, <2>4, CoverMoves
<1>7. CASE file[Digest(pl)] = "short" /\ c = Idle
    <2>1. Behind(puller[pl], t, p) => puller[pl].at <= t
        BY <1>2, ManifestLen DEF Behind, Done
    <2> QED
        BY <1>1, <1>3, <1>4, <1>5, <1>7, <2>1, CoverEnd
<1>8. CASE file[Digest(pl)] = "empty" /\ c.pc = "layer" /\ c.at = puller[pl].at + 1
    <2>1. CASE puller[pl].at <= t
        BY <2>1, <1>1, <1>3, <1>4, <1>5, <1>8, CoverMoves
    <2>2. CASE puller[pl].at > t
        <3>1. Done(puller[pl], t, p)
            BY <2>2 DEF Done
        <3> QED
            BY <3>1, <1>1, <1>3, <1>4, CoverMoves DEF Reached, Behind
    <2> QED
        BY <2>1, <2>2, <1>2, ManifestLen
<1> QED
    BY <1>4, <1>6, <1>7, <1>8

LEMMA CoverExtract ==
    ASSUME PlaceInv, NEW pl \in Pullers, Extract(pl), ~harmed', NEW p \in Paths, NEW t, IsTop(t, p),
           Reached(t, p) => Covered(t, p), Reached(t, p)'
    PROVE  Covered(t, p)'
<1> DEFINE old == puller[pl]
           d == Digest(pl)
<1>1. listed' = listed /\ puller[pl].pc = "extract"
    BY DEF Extract, At
<1>2. /\ old.at \in 1..Len(Manifest) /\ d = Manifest[old.at] /\ d \in Digests
      /\ t \in 1..Len(Manifest) /\ old.entry \in 1..(Len(Layer[d]) + 1) /\ Len(Layer[d]) \in Nat
    BY <1>1, Stays, LayerEntries DEF Placed, IsTop
<1>3. listed' => Reached(t, p)
    BY <1>1 DEF Reached
<1>4. PICK c : /\ Moves(pl, c)
               /\ \/ /\ old.entry = Len(Layer[d]) + 1 /\ c.pc = "layer"
                     /\ c.at = old.at + 1 /\ rootfs' = rootfs /\ harmed' = harmed
                  \/ /\ old.entry \in 1..Len(Layer[d]) /\ c.pc = "extract"
                     /\ c.at = old.at /\ c.entry = old.entry + 1
                     /\ \/ rootfs' = Unpack(rootfs, d, NextEntry(pl)) /\ harmed' = harmed
                        \/ harmed' = TRUE /\ rootfs' = rootfs
    BY ExtractMoves
<1>5. CASE old.entry = Len(Layer[d]) + 1 /\ c.pc = "layer" /\ c.at = old.at + 1 /\ rootfs' = rootfs
    <2>1. Done(c, t, p) => Done(old, t, p)
        <3>1. CASE old.at = t
            BY <3>1, <1>1, <1>2, <1>5 DEF Done
        <3>2. CASE old.at # t
            BY <3>2, <1>2, <1>5, ManifestLen DEF Done
        <3> QED
            BY <3>1, <3>2
    <2>2. Behind(old, t, p) => Behind(c, t, p)
        BY <2>1, <1>2, <1>5 DEF Behind
    <2>3. Done(c, t, p) => Reached(t, p)
        BY <2>1 DEF Reached
    <2> QED
        BY <1>3, <1>4, <1>5, <2>2, <2>3, CoverMoves
<1>6. CASE /\ old.entry \in 1..Len(Layer[d]) /\ c.pc = "extract"
           /\ c.at = old.at /\ c.entry = old.entry + 1
           /\ rootfs' = Unpack(rootfs, d, NextEntry(pl))
    <2> DEFINE e == Layer[d][old.entry]
    <2>0. NextEntry(pl) = e /\ rootfs \in [Paths -> Digests \cup {NoFile}] /\ e \in Entry
        BY <1>6, <1>2, LayerEntry DEF NextEntry, PlaceInv
    <2>1. CASE e.path # p
        <3>1. rootfs'[p] = rootfs[p]
            BY <1>6, <2>0, <2>1 DEF Unpack
        <3>2. Done(c, t, p) => Done(old, t, p)
            <4>1. CASE old.at = t /\ Done(c, t, p)
                <5>1. \A k \in (old.entry + 1)..Len(Layer[d]) : Layer[d][k].path # p
                    BY <4>1, <1>2, <1>6 DEF Done
                <5>2. \A k \in old.entry..Len(Layer[d]) : k = old.entry \/ k \in (old.entry + 1)..Len(Layer[d])
                    BY <1>2
                <5>3. \A k \in old.entry..Len(Layer[d]) : Layer[d][k].path # p
                    BY <5>1, <5>2, <2>1
                <5> QED
                    BY <5>3, <4>1, <1>1, <1>2 DEF Done
            <4>2. CASE old.at # t
                BY <4>2, <1>6 DEF Done
            <4> QED
                BY <4>1, <4>2
        <3>3. Behind(old, t, p) => Behind(c, t, p)
            BY <3>2, <1>6 DEF Behind
        <3>4. Done(c, t, p) => Reached(t, p)
            BY <3>2 DEF Reached
        <3> QED
            BY <1>3, <1>4, <3>1, <3>3, <3>4, CoverMoves
    <2>2. CASE e.path = p
        <3>1. Speaks(old.at, p) /\ old.at <= t
            BY <2>2, <1>2, <1>6 DEF Speaks, IsTop
        <3>2. \A q \in Pullers : puller'[q] = IF q = pl THEN c ELSE puller[q]
            BY <1>4 DEF Moves, PlaceInv
        <3>3. CASE Done(c, t, p)
            <4>1. old.at = t /\ \A k \in (old.entry + 1)..Len(Layer[d]) : Layer[d][k].path # p
                BY <3>1, <3>3, <1>2, <1>6, ManifestLen DEF Done
            <4>2. rootfs'[p] = IF Puts(d, p) THEN d ELSE NoFile
                <5>1. PICK k \in 1..Len(Layer[d]) : k = old.entry
                    BY <1>6
                <5>2. Layer[d][k].path = p /\ \A j \in (k + 1)..Len(Layer[d]) : Layer[d][j].path # p
                    BY <4>1, <5>1, <2>2
                <5>3. Unpack(rootfs, d, Layer[d][k])[p] = IF Puts(d, p) THEN d ELSE NoFile
                    <6>1. d \in Digests /\ rootfs \in [Paths -> Digests \cup {NoFile}]
                        BY <1>2, <2>0
                    <6> HIDE DEF d
                    <6> QED
                        BY <5>2, <6>1, LastWrites
                <5> QED
                    BY <5>1, <5>3, <1>6, <2>0
            <4> QED
                BY <4>1, <4>2, <1>2, TopOverlay DEF Covered
        <3>4. CASE ~Done(c, t, p)
            <4>1. Behind(c, t, p)
                BY <3>4, <1>2, <1>6 DEF Behind
            <4> QED
                BY <4>1, <3>2 DEF Covered
        <3> QED
            BY <3>3, <3>4
    <2> QED
        BY <2>1, <2>2
<1> QED
    BY <1>4, <1>5, <1>6

LEMMA CoverAct ==
    ASSUME PlaceInv, FileInv, ~harmed, NEW pl \in Pullers, Act(pl), ~harmed',
           NEW p \in Paths, NEW t, IsTop(t, p), Reached(t, p) => Covered(t, p), Reached(t, p)'
    PROVE  Covered(t, p)'
<1>1. listed' = listed => (listed' => Reached(t, p))
    BY DEF Reached
<1>2. CASE Begin(pl)
    <2>1. rootfs' = rootfs /\ listed' = listed /\ puller[pl] = Idle /\ t \in 1..Len(Manifest)
        BY <1>2, Stays DEF Begin, At, Placed, IsTop
    <2>2. ~Done(ToLayer(1), t, p) /\ ~Behind(puller[pl], t, p)
        BY <2>1, IdleCall, ManifestLen DEF ToLayer, Done, Behind
    <2> QED
        BY <1>1, <1>2, <2>1, <2>2, BeginMoves, CoverMoves
<1>3. CASE Look(pl)
    BY <1>3, CoverLook
<1>4. CASE Download(pl)
    <2>1. rootfs' = rootfs /\ listed' = listed /\ puller[pl].pc = "download"
        BY <1>4 DEF Download, At
    <2>2. PICK c : Moves(pl, c) /\ c.pc = "open" /\ c.at = puller[pl].at
        BY <1>4, DownloadMoves
    <2> QED
        BY <2>1, <2>2, CoverSame
<1>5. CASE Refused(pl)
    <2>1. rootfs' = rootfs /\ listed' = listed /\ puller[pl].pc = "download"
        BY <1>5 DEF Refused, At
    <2>2. Moves(pl, Idle) /\ ~Behind(puller[pl], t, p)
        BY <1>5, <2>1, EndMoves DEF Refused, Behind
    <2> QED
        BY <1>1, <2>1, <2>2, CoverEnd
<1>6. CASE Open(pl)
    <2>1. rootfs' = rootfs /\ listed' = listed /\ puller[pl].pc = "open"
        BY <1>6 DEF Open, At
    <2>2. PICK c : Moves(pl, c) /\ c.pc = "fill" /\ c.at = puller[pl].at
        BY <1>6, OpenMoves
    <2> QED
        BY <2>1, <2>2, CoverSame
<1>7. CASE Fill(pl)
    <2>1. rootfs' = rootfs /\ listed' = listed /\ puller[pl].pc = "fill"
        BY <1>7 DEF Fill, At
    <2>2. PICK c : Moves(pl, c) /\ c.pc = "filling" /\ c.at = puller[pl].at
        BY <1>7, FillMoves
    <2> QED
        BY <2>1, <2>2, CoverSame
<1>8. CASE Filled(pl)
    <2>1. rootfs' = rootfs /\ listed' = listed /\ puller[pl].pc = "filling"
        BY <1>8 DEF Filled, At
    <2>2. PICK c : Moves(pl, c) /\ c.pc = "read" /\ c.at = puller[pl].at
        BY <1>8, FilledMoves
    <2> QED
        BY <2>1, <2>2, CoverSame
<1>9. CASE Read(pl)
    BY <1>9, CoverRead
<1>10. CASE Extract(pl)
    BY <1>10, CoverExtract
<1>11. CASE SaveInfo(pl)
    <2>1. rootfs' = rootfs /\ puller[pl].pc = "conf" /\ Moves(pl, Idle)
        BY <1>11, EndMoves DEF SaveInfo, At
    <2>2. Done(puller[pl], t, p)
        BY <2>1, Stays, ManifestLen DEF Done, Placed, IsTop
    <2> QED
        BY <2>1, <2>2, CoverEnd DEF Reached, Behind
<1>12. ~Killed(pl)
    BY DEF Killed
<1> QED
    BY <1>2, <1>3, <1>4, <1>5, <1>6, <1>7, <1>8, <1>9, <1>10, <1>11, <1>12 DEF Act

\* Nothing is ever unpacked at a path of which no layer speaks.
LEMMA SilentAct ==
    ASSUME PlaceInv, ~harmed, NEW pl \in Pullers, Act(pl), ~harmed',
           NEW p \in Paths, \A i \in 1..Len(Manifest) : ~Speaks(i, p)
    PROVE  rootfs'[p] = rootfs[p]
<1>1. CASE Extract(pl)
    <2> DEFINE e == NextEntry(pl)
    <2>1. /\ puller[pl].at \in 1..Len(Manifest) /\ Digest(pl) = Manifest[puller[pl].at]
          /\ rootfs \in [Paths -> Digests \cup {NoFile}]
        BY <1>1, Stays DEF Extract, At, Placed, PlaceInv
    <2>2. PICK c : \/ rootfs' = rootfs
                   \/ puller[pl].entry \in 1..Len(Layer[Digest(pl)]) /\ rootfs' = Unpack(rootfs, Digest(pl), e)
        BY <1>1, ExtractMoves
    <2>3. puller[pl].entry \in 1..Len(Layer[Digest(pl)]) => e.path # p
        BY <2>1 DEF Speaks, NextEntry
    <2> QED
        BY <2>1, <2>2, <2>3 DEF Unpack
<1>2. CASE ~Extract(pl)
    BY <1>2 DEF Act, Begin, Look, Download, Refused, Open, Fill, Filled, Read, SaveInfo, Killed
<1> QED
    BY <1>1, <1>2

-----------------------------------------------------------------------------
PullInv == PlaceInv /\ FileInv /\ CoverInv

LEMMA PullInit == Init => PullInv
<1> SUFFICES ASSUME Init PROVE PullInv
    OBVIOUS
<1>1. PlaceInv
    BY PlaceInit
<1>2. \A pl \in Pullers : puller[pl] = Idle
    BY DEF Init
<1>3. FileInv
    BY <1>2, IdleCall DEF Init, FileInv
<1>4. ASSUME NEW p, NEW t, IsTop(t, p) PROVE ~Reached(t, p)
    BY <1>2, <1>4, IdleCall, ManifestLen DEF Init, Reached, Done, IsTop
<1>5. CoverInv
    BY <1>4 DEF Init, CoverInv
<1> QED
    BY <1>1, <1>3, <1>5 DEF PullInv

LEMMA PullStep == PullInv /\ [Next]_vars => PullInv'
<1> SUFFICES ASSUME PullInv, [Next]_vars PROVE PullInv'
    OBVIOUS
<1>1. PlaceInv /\ FileInv /\ CoverInv
    BY DEF PullInv
<1>2. PlaceInv'
    BY <1>1, PlaceStep
<1>3. CASE UNCHANGED vars
    <2>1. FileInv'
        BY <1>1, <1>3 DEF vars, FileInv, Filling, Digest
    <2>2. CoverInv'
        BY <1>1, <1>3 DEF vars, CoverInv, Reached, Covered
    <2> QED
        BY <1>2, <2>1, <2>2 DEF PullInv
<1>4. ASSUME NEW pl \in Pullers, Act(pl) PROVE PullInv'
    <2>1. CASE harmed'
        BY <1>2, <2>1 DEF PullInv, FileInv, CoverInv
    <2>2. CASE ~harmed'
        <3>1. ~harmed
            BY <1>1, <1>4, <2>2, HarmStays
        <3>2. FileInv'
            BY <1>1, <1>4, <2>2, <3>1, FileAct
        <3>3. ASSUME NEW p \in Paths, NEW t \in 1..Len(Manifest), IsTop(t, p), Reached(t, p)'
              PROVE  Covered(t, p)'
            <4>1. Reached(t, p) => Covered(t, p)
                BY <1>1, <3>1, <3>3 DEF CoverInv
            <4> QED
                BY <1>1, <1>4, <2>2, <3>1, <3>3, <4>1, CoverAct
        <3>4. ASSUME NEW p \in Paths, \A i \in 1..Len(Manifest) : ~Speaks(i, p)
              PROVE  rootfs'[p] = NoFile
            BY <1>1, <1>4, <2>2, <3>1, <3>4, SilentAct DEF CoverInv
        <3>5. CoverInv'
            BY <3>3, <3>4 DEF CoverInv
        <3> QED
            BY <1>2, <3>2, <3>5 DEF PullInv
    <2> QED
        BY <2>1, <2>2
<1> QED
    BY <1>3, <1>4 DEF Next, Act

LEMMA PullHarmless == PullInv => OverlapHarmless
<1> SUFFICES ASSUME PullInv, ~harmed, listed, Quiet PROVE rootfs = Overlay
    BY DEF OverlapHarmless, PullExtracts
<1>1. \A p, t : ~\E q \in Pullers : Behind(puller[q], t, p)
    BY Stays, IdleCall DEF PullInv, Quiet, At, Placed, Behind
<1>2. ASSUME NEW p \in Paths PROVE rootfs[p] = Overlay[p]
    <2>1. CASE \E i \in 1..Len(Manifest) : Speaks(i, p)
        <3>1. PICK t : IsTop(t, p)
            BY <2>1, TopExists
        <3>2. t \in 1..Len(Manifest) /\ Reached(t, p)
            BY <3>1 DEF IsTop, Reached
        <3> QED
            BY <3>1, <3>2, <1>1 DEF PullInv, CoverInv, Covered
    <2>2. CASE \A i \in 1..Len(Manifest) : ~Speaks(i, p)
        BY <2>2, SilentOverlay DEF PullInv, CoverInv
    <2> QED
        BY <2>1, <2>2
<1>3. Overlay = [p \in Paths |-> Overlay[p]] /\ rootfs = [p \in Paths |-> rootfs[p]]
    BY DEF Overlay, PullInv, PlaceInv
<1> QED
    BY <1>2, <1>3

\* Overlapping pulls of an image leave it complete: whatever the layers are,
\* however many calls overlap and wherever downloads are refused, when all is
\* quiet a listed image has at every path what the topmost layer says.
THEOREM OverlapsAreHarmless == Spec => []OverlapHarmless
BY PullInit, PullStep, PullHarmless, PTL DEF Spec
=============================================================================
