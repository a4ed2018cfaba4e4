----------------------------- MODULE ImagePull -----------------------------
(***************************************************************************)
(* registry.rs, pull_image with extract_layer and extract_tar_from_memory: *)
(* downloading the layers of an image and laying them over one another in  *)
(* its rootfs directory.                                                   *)
(*                                                                         *)
(* "pull", "run", "up" and the dashboard all call it, without a lock, so   *)
(* several pulls of one image can overlap.  They share its directory:      *)
(* layers/<digest>, which is downloaded when it does not exist, rootfs,    *)
(* and image.conf, which makes "images" list the image.  A layer is the    *)
(* sequence of its tar entries, and the content of a file is the digest of *)
(* the layer it came from.                                                 *)
(***************************************************************************)
EXTENDS Naturals, Sequences, FiniteSets

CONSTANTS
    Pullers,    \* the calls of pull_image that can be in flight together
    Digests,    \* layer digests
    Paths,      \* paths of files in a layer
    NoFile,     \* the content of a path where there is no file
    Layer,      \* Layer[d]: the tar entries of the layer with digest d
    Manifest,   \* the image: the digests of its layers, the lowest first
    Mishaps     \* what may go wrong, apart from a refused download

Entry == [kind : {"file", "whiteout"}, path : Paths]

ASSUME LayerAssumption ==
    /\ NoFile \notin Digests
    /\ Layer \in [Digests -> Seq(Entry)]
    /\ Manifest \in Seq(Digests)
    /\ Mishaps \subseteq {"killed", "cut", "disk"}

\* Within a layer nothing is hidden after it has been put there: a whiteout is
\* for the layers below.
ASSUME WhiteoutAssumption ==
    \A d \in Digests : \A i, j \in 1..Len(Layer[d]) :
        i < j /\ Layer[d][j].kind = "whiteout" => Layer[d][i] # [kind |-> "file", path |-> Layer[d][j].path]

VARIABLES
    file,       \* file[d]: the file layers/<d>
    rootfs,     \* rootfs[p]: the content of path p
    listed,     \* image.conf exists
    puller,     \* the calls
    harmed      \* history: a mishap has occurred

vars == <<file, rootfs, listed, puller, harmed>>
-----------------------------------------------------------------------------
Body == {"none", "empty", "short", "whole"}

\* A file written by two writers, each from its start.
Longer(a, b) == IF "whole" \in {a, b} THEN "whole"
                ELSE IF "short" \in {a, b} THEN "short" ELSE "empty"

\* A call: its step, the positions of the layer and of the tar entry it is at,
\* and what it has downloaded of the layer.
Idle == [pc |-> "idle", at |-> 0, entry |-> 0, blob |-> "none"]

\* A call that comes to layer i of the image, or to the end of the layers.
ToLayer(i) == [pc |-> "layer", at |-> i, entry |-> 0, blob |-> "none"]

At(pl, step) == puller[pl].pc = step

Digest(pl) == Manifest[puller[pl].at]

\* The next tar entry of the layer it is extracting.
NextEntry(pl) == Layer[Digest(pl)][puller[pl].entry]

Quiet == \A pl \in Pullers : At(pl, "idle")

\* write(2) and open with O_TRUNC take the lock of the file's inode.
Locked(d) == \E pl \in Pullers : At(pl, "filling") /\ Digest(pl) = d

Goto(pl, step) == puller' = [puller EXCEPT ![pl].pc = step]

End(pl) == puller' = [puller EXCEPT ![pl] = Idle]

\* Fault: the loop goes on with the layer after the next.
NextLayerSkips(pl) == puller' = [puller EXCEPT ![pl] = ToLayer(@.at + 2)]

NextLayer(pl) == puller' = [puller EXCEPT ![pl] = ToLayer(@.at + 1)]

Init ==
    /\ file = [d \in Digests |-> "none"]
    /\ rootfs = [p \in Paths |-> NoFile]
    /\ listed = FALSE
    /\ puller = [pl \in Pullers |-> Idle]
    /\ harmed = FALSE

\* The token, the manifest and the directories.  A failure here changes
\* nothing.
Begin(pl) ==
    /\ At(pl, "idle")
    /\ puller' = [puller EXCEPT ![pl] = ToLayer(1)]
    /\ UNCHANGED <<file, rootfs, listed, harmed>>

\* Fault: a layer that has been downloaded is not extracted either.
SkipsCached(pl) ==
    /\ At(pl, "layer")
    /\ IF puller[pl].at > Len(Manifest) THEN Goto(pl, "conf")
       ELSE IF file[Digest(pl)] = "none" THEN Goto(pl, "download")
       ELSE NextLayer(pl)
    /\ UNCHANGED <<file, rootfs, listed, harmed>>

\* layer_file.exists(), which says nothing of what is in the file.
Look(pl) ==
    /\ At(pl, "layer")
    /\ IF puller[pl].at > Len(Manifest) THEN Goto(pl, "conf")
       ELSE IF file[Digest(pl)] = "none" THEN Goto(pl, "download")
       ELSE Goto(pl, "read")
    /\ UNCHANGED <<file, rootfs, listed, harmed>>

\* The whole body, or what came before the connection was cut: neither the
\* size nor the digest in the manifest is compared with it.
Download(pl) ==
    /\ At(pl, "download")
    /\ \E body \in {"whole"} \cup {"short" : m \in Mishaps \cap {"cut"}} :
          /\ puller' = [puller EXCEPT ![pl].pc = "open", ![pl].blob = body]
          /\ harmed' = (harmed \/ body # "whole")
    /\ UNCHANGED <<file, rootfs, listed>>

\* The download is refused: an error, and what has been done stays.
Refused(pl) ==
    /\ At(pl, "download")
    /\ End(pl)
    /\ UNCHANGED <<file, rootfs, listed, harmed>>

\* fs::write of the layer: open it for writing, which empties it ...
Open(pl) ==
    /\ At(pl, "open")
    /\ ~Locked(Digest(pl))
    /\ file' = [file EXCEPT ![Digest(pl)] = "empty"]
    /\ Goto(pl, "fill")
    /\ UNCHANGED <<rootfs, listed, harmed>>

\* ... begin to write ...
Fill(pl) ==
    /\ At(pl, "fill")
    /\ ~Locked(Digest(pl))
    /\ file' = [file EXCEPT ![Digest(pl)] = Longer(@, "short")]
    /\ Goto(pl, "filling")
    /\ UNCHANGED <<rootfs, listed, harmed>>

\* ... and write the rest.
Filled(pl) ==
    /\ At(pl, "filling")
    /\ file' = [file EXCEPT ![Digest(pl)] = Longer(@, puller[pl].blob)]
    /\ Goto(pl, "read")
    /\ UNCHANGED <<rootfs, listed, harmed>>

\* extract_layer reads the file.  What is cut short does not decompress; an
\* empty file is not taken for gzip, and as a tar archive it has no entries.
Read(pl) ==
    /\ At(pl, "read")
    /\ \/ /\ file[Digest(pl)] = "whole"
          /\ puller' = [puller EXCEPT ![pl].pc = "extract", ![pl].entry = 1]
       \/ file[Digest(pl)] = "short" /\ End(pl)
       \/ file[Digest(pl)] = "empty" /\ NextLayer(pl)
    /\ UNCHANGED <<file, rootfs, listed, harmed>>

\* The rootfs with tar entry e of layer d unpacked: a file is written; a
\* whiteout, ".wh.x", removes x.
Unpack(fs, d, e) ==
    [fs EXCEPT ![e.path] = IF e.kind = "file" THEN d ELSE NoFile]

\* One tar entry, whose errors are ignored; or the archive ends.
Extract(pl) ==
    /\ At(pl, "extract")
    /\ IF puller[pl].entry > Len(Layer[Digest(pl)])
       THEN NextLayer(pl) /\ UNCHANGED <<rootfs, harmed>>
       ELSE /\ puller' = [puller EXCEPT ![pl].entry = @ + 1]
            /\ \/ /\ rootfs' = Unpack(rootfs, Digest(pl), NextEntry(pl))
                  /\ UNCHANGED harmed
               \/ /\ "disk" \in Mishaps
                  /\ harmed' = TRUE
                  /\ UNCHANGED rootfs
    /\ UNCHANGED <<file, listed>>

\* image.conf, and the pull is reported successful.
SaveInfo(pl) ==
    /\ At(pl, "conf")
    /\ listed' = TRUE
    /\ End(pl)
    /\ UNCHANGED <<file, rootfs, harmed>>

\* The command is killed, or cannot write a layer or image.conf.
Killed(pl) ==
    /\ "killed" \in Mishaps
    /\ ~At(pl, "idle")
    /\ End(pl)
    /\ harmed' = TRUE
    /\ UNCHANGED <<file, rootfs, listed>>

Next ==
    \E pl \in Pullers :
          \/ Begin(pl) \/ Look(pl) \/ Download(pl) \/ Refused(pl)
          \/ Open(pl) \/ Fill(pl) \/ Filled(pl) \/ Read(pl)
          \/ Extract(pl) \/ SaveInfo(pl) \/ Killed(pl)

Spec == Init /\ [][Next]_vars
-----------------------------------------------------------------------------
TypeOK ==
    /\ file \in [Digests -> Body]
    /\ rootfs \in [Paths -> Digests \cup {NoFile}]
    /\ listed \in BOOLEAN
    /\ \A pl \in Pullers :
          /\ puller[pl].pc \in {"idle", "layer", "download", "open", "fill",
                                "filling", "read", "extract", "conf"}
          /\ At(pl, "idle") <=> puller[pl] = Idle
          /\ puller[pl].at \in 0..(Len(Manifest) + 1)
          /\ puller[pl].blob \in Body
    /\ harmed \in BOOLEAN

(***************************************************************************)
(* The overlay of the layers, as the image format defines it: at each path *)
(* stands what the topmost layer that says anything of the path says.      *)
(***************************************************************************)
Entries(d) == {Layer[d][k] : k \in 1..Len(Layer[d])}

Puts(d, p) == [kind |-> "file", path |-> p] \in Entries(d)

Hides(d, p) == [kind |-> "whiteout", path |-> p] \in Entries(d)

Overlay ==
    [p \in Paths |->
        LET speaking == {i \in 1..Len(Manifest) :
                            Puts(Manifest[i], p) \/ Hides(Manifest[i], p)}
            upper == CHOOSE i \in speaking : \A j \in speaking : j <= i
        IN  IF speaking # {} /\ Puts(Manifest[upper], p) THEN Manifest[upper]
            ELSE NoFile]

\* registry.rs, pull_image: "Pull an image from a registry and extract it to
\* local storage".  An image that is listed when no pull is under way has the
\* files of its layers.
PullExtracts == listed /\ Quiet => rootfs = Overlay

\* Pulls that overlap in any way, and fail to download in any place, still
\* leave a listed image complete: whoever finds a layer file that another
\* pull has not filled leaves the layer to that pull, and every later layer
\* is laid over it by one of the two.
OverlapHarmless == ~harmed => PullExtracts
=============================================================================
