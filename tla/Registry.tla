------------------------------ MODULE Registry ------------------------------
(***************************************************************************)
(* pull_image (registry.rs) up to the extraction of a layer: a bearer      *)
(* token, the manifest, which may be a list of manifests, and the blobs of *)
(* its layers, each asked for over HttpClient.                             *)
(*                                                                         *)
(* What a JSON body says is a document: a token, a manifest with its       *)
(* layers, or a list whose entries name a platform and a digest.  A body   *)
(* that is cut is not JSON (json.rs, parse_object).                        *)
(***************************************************************************)
EXTENDS HttpClient

CONSTANTS
    Documents,
    Text        \* Text[d]: the bytes of a document

ASSUME RegistryAssumption ==
    /\ Resources = {"v2", "auth", "manifest", "amd64", "other", "layer"}
    /\ \A r \in Resources \ {"auth"} : Home[r].host = Home["v2"].host
    /\ DOMAIN Text = Documents
    /\ \A d, e \in Documents : IsPrefix(Text[d], Text[e]) => d = e
    /\ \A r \in Resources \ {"v2", "layer"} : Bodies[r] \subseteq { Text[d] : d \in Documents }

(* The platform that a manifest is for is the one of the entries that have *)
(* its digest; one that the registry sends at once is the only one.        *)
Manifests(r) == { d \in Documents : d.kind = "manifest" /\ Text[d] \in Bodies[r] }

ASSUME PlatformAssumption ==
    /\ \A d \in Manifests("manifest") : d.for = "only"
    /\ \A c \in { d \in Documents : d.kind = "list" } :
        /\ c.entries \in Seq([architecture : STRING, os : STRING, digest : {"amd64", "other", "none"}])
        /\ \A i \in DOMAIN c.entries :
            LET e == c.entries[i]
            IN  e.os = "linux" /\ e.architecture = "amd64" /\ e.digest # "none"
                => \A d \in Manifests(e.digest) : d.for = "linux/amd64"

VARIABLES
    pull,       \* the step of the pull
    token,      \* there is a token
    manifest,   \* the manifest of the image
    layer,      \* the layer the pull is at
    file        \* what has been written to the layer's file

pullVars == <<pull, token, manifest, layer, file>>

NoManifest == [kind |-> "none"]

PullInit ==
    /\ HttpInit
    /\ pull = "start" /\ token = FALSE /\ manifest = NoManifest /\ layer = 0 /\ file = <<>>

----------------------------------------------------------------------------
Answered(step) == pull = step /\ doing = "answer"

(* The document that a whole JSON body is. *)
Says == { d \in Documents : Text[d] = body }
Document == CHOOSE d \in Says : TRUE

Give(result) ==
    /\ pull' = result
    /\ doing' = "idle" /\ call' = NoCall /\ url' = Nowhere /\ hops' = 0 /\ asked' = NotAsked
    /\ reply' = NoReply /\ wire' = <<>> /\ pos' = 0 /\ body' = <<>>
    /\ UNCHANGED <<platform, handles>>

Request(step, resource, bearer, follow) ==
    /\ pull' = step
    /\ Ask(resource, bearer, follow)

(* Docker Hub has an authentication server of its own; any other registry  *)
(* is asked for one.                                                       *)
Start ==
    /\ pull = "start"
    /\ \/ Request("token", "auth", FALSE, FALSE)
       \/ Request("challenge", "v2", FALSE, FALSE)
    /\ UNCHANGED <<token, manifest, layer, file>>

Challenged ==
    /\ Answered("challenge")
    /\ IF reply.status = 401
       THEN \/ Request("token", "auth", FALSE, FALSE)
            \/ Give("error")                            \* no header, or no realm in it
       ELSE Request("manifest", "manifest", FALSE, TRUE)
    /\ UNCHANGED <<token, manifest, layer, file>>

GetToken ==
    /\ Answered("token")
    /\ IF reply.status = 200 /\ Says # {} /\ Document.kind = "token" /\ Document.value # "none"
       THEN /\ token' = (Document.value # "empty")
            /\ Request("manifest", "manifest", token', TRUE)
       ELSE Give("error") /\ UNCHANGED token
    /\ UNCHANGED <<manifest, layer, file>>

(* Every layer must have a digest. *)
ParseManifest ==
    IF Says # {} /\ Document.kind = "manifest" /\ \A i \in DOMAIN Document.layers : Document.layers[i] # "none"
    THEN manifest' = Document /\ Give("layers")
    ELSE Give("error") /\ UNCHANGED manifest

(* Fault: an entry for amd64 is taken whatever its system. *)
AnyAmd64(entry) == entry.architecture = "amd64"

Suits(entry) == entry.architecture = "amd64" /\ entry.os = "linux"

(* The first entry of a list that suits. *)
ResolveManifestList ==
    LET suitable == { i \in DOMAIN Document.entries : Suits(Document.entries[i]) }
        digest == Document.entries[Min(suitable)].digest
    IN  IF suitable # {} /\ digest # "none"
        THEN Request("entry", digest, token, TRUE)
        ELSE Give("error")

FetchManifest ==
    /\ Answered("manifest")
    /\ IF reply.status = 200
       THEN IF Says # {} /\ Document.kind = "list"
            THEN ResolveManifestList /\ UNCHANGED manifest
            ELSE ParseManifest
       ELSE Give("error") /\ UNCHANGED manifest
    /\ UNCHANGED <<token, layer, file>>

FetchByDigest ==
    /\ Answered("entry")
    /\ IF reply.status = 200 THEN ParseManifest ELSE Give("error") /\ UNCHANGED manifest
    /\ UNCHANGED <<token, layer, file>>

(* The first 19 bytes of the digest are printed.  Whether the layer's file *)
(* exists already is ImagePull's concern.                                  *)
NextLayer ==
    /\ pull = "layers"
    /\ IF layer = Len(manifest.layers)
       THEN pull' = "saved" /\ UNCHANGED <<httpVars, layer>>
       ELSE /\ layer' = layer + 1
            /\ IF manifest.layers[layer + 1] = "short"
               THEN pull' = "panic" /\ UNCHANGED httpVars
               ELSE Request("blob", "layer", token, TRUE)
    /\ UNCHANGED <<token, manifest, file>>

(* The file is written, and extract_layer reads it. *)
GetBlob ==
    /\ Answered("blob")
    /\ IF reply.status = 200
       THEN file' = body /\ Give("extract")
       ELSE Give("error") /\ UNCHANGED file
    /\ UNCHANGED <<token, manifest, layer>>

(* An error of the call is an error of the pull, and a panic ends both. *)
CallFails ==
    /\ doing \in {"error", "panic"}
    /\ Give(doing)
    /\ UNCHANGED <<token, manifest, layer, file>>

PullNext ==
    \/ Start \/ Challenged \/ GetToken \/ FetchManifest \/ FetchByDigest
    \/ NextLayer \/ GetBlob \/ CallFails
    \/ HttpNext /\ UNCHANGED pullVars

PullTypeOK ==
    /\ pull \in {"start", "challenge", "token", "manifest", "entry", "layers", "blob", "extract",
                 "saved", "error", "panic"}
    /\ token \in BOOLEAN
    /\ manifest \in Documents \cup {NoManifest}
    /\ layer \in Nat
    /\ file \in Seq(Nat)
    /\ doing = "idle" => call = NoCall

(* get_follow_redirects: "Strips Authorization headers on cross-origin     *)
(* redirects (required for Docker Hub CDN)".  Whoever follows a redirect,  *)
(* the program or curl, and however they lead away from the registry and   *)
(* back, no request on the wire has the token but one to the registry that *)
(* it is for, and none has one that the pull has not got.                  *)
TokenStaysHome == asked.token => token /\ asked.url.host = Home["v2"].host

(* registry.rs:190, "find the amd64/linux manifest": the layers that a pull*)
(* fetches are those of a manifest for that platform, or of the only one.  *)
RightPlatform == manifest # NoManifest => manifest.for \in {"only", "linux/amd64"}

=============================================================================
