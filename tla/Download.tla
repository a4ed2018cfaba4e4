------------------------------ MODULE Download ------------------------------
(***************************************************************************)
(* A pull from the first request to the contents of each layer: Registry   *)
(* over HttpClient, and extract_layer with decompress.                     *)
(***************************************************************************)
EXTENDS Registry, GzipFormat

CONSTANTS
    Streams,    \* Streams[f]: what the gzip file f holds
    Contents    \* Contents[f]: what the layer with the bytes f contains

VARIABLE sent           \* history: the layer as the server has it

downloadVars == <<httpVars, pullVars, inflateVars, sent>>

IsGzip(bytes) == Len(bytes) >= 2 /\ bytes[1] = 31 /\ bytes[2] = 139

(* Servers have layers of two kinds, those in the format and those that    *)
(* are not compressed.                                                     *)
ASSUME DownloadAssumption ==
    \A f \in Bodies["layer"] :
        IF IsGzip(f) THEN Holds(f, Streams[f]) /\ Contents[f] = Meaning(Streams[f].blocks)
        ELSE f \in Seq(0..255) /\ Contents[f] = f

Idle ==
    /\ data' = <<>> /\ mode' = "idle" /\ base' = 0 /\ at' = 0 /\ final' = FALSE
    /\ table' = NoTable /\ trees' = NoTrees /\ output' = <<>>

Init ==
    /\ PullInit
    /\ data = <<>> /\ mode = "idle" /\ base = 0 /\ at = 0 /\ final = FALSE
    /\ table = NoTable /\ trees = NoTrees /\ output = <<>>
    /\ sent = <<>>

(* What does not begin like a gzip file is taken for a tar archive.        *)
ExtractLayer ==
    /\ pull = "extract" /\ mode = "idle"
    /\ data' = file
    /\ mode' = IF IsGzip(file) THEN "gzip" ELSE "done"
    /\ output' = IF IsGzip(file) THEN <<>> ELSE file
    /\ UNCHANGED <<base, at, final, table, trees, httpVars, pullVars, sent>>

(* The archive goes to extract_tar_from_memory, and then comes the next    *)
(* layer.                                                                  *)
Extracted ==
    /\ pull = "extract" /\ mode \in {"done", "error"}
    /\ pull' = IF mode = "done" THEN "layers" ELSE "error"
    /\ file' = <<>> /\ sent' = <<>>
    /\ Idle
    /\ UNCHANGED <<token, manifest, layer, httpVars>>

Network ==
    /\ PullNext
    /\ sent' = IF pull = "blob" THEN reply.body ELSE sent
    /\ UNCHANGED inflateVars

Next ==
    \/ Network
    \/ ExtractLayer \/ Extracted
    \/ InflateNext /\ UNCHANGED <<httpVars, pullVars, sent>>

(* One thread runs, and every call of the network returns; so does curl,   *)
(* however often it is redirected.                                         *)
Fairness ==
    /\ WF_downloadVars(Network)
    /\ WF_downloadVars(Network /\ doing = "follow" /\ doing' = "parse")

Spec == Init /\ [][Next]_downloadVars /\ Fairness

----------------------------------------------------------------------------
TypeOK ==
    /\ HttpTypeOK
    /\ PullTypeOK
    /\ mode \in {"idle", "gzip", "block", "stored", "table", "lengths", "symbol", "done", "error"}
    /\ at \in 0..(8 * Len(data))
    /\ output \in Seq(Nat)

(* registry.rs, pull_image, and gzip.rs, decompress: wherever the download *)
(* is cut, a layer is extracted as it is or refused, and one that has come *)
(* whole is not refused.  Only in one that ends before its second byte,    *)
(* which is not taken for gzip, nothing is found.                          *)
LayerWhole ==
    /\ mode = "done" => \/ output = Contents[sent]
                        \/ output = file /\ (IsGzip(sent) => Len(file) < 2)
    /\ mode = "error" => file # sent

(* get_follow_redirects and decode_chunked: however the servers redirect   *)
(* and wherever a body ends, the pull gets its next layer, or it ends.     *)
DownloadEnds == []<>(pull \in {"extract", "saved", "error", "panic"})

=============================================================================
