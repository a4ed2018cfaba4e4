----------------------------- MODULE MCWindows ------------------------------
(***************************************************************************)
(* The Windows backend: either one vm-boot, or commands on one container.  *)
(* The two share nothing, so each is explored while the other rests.       *)
(***************************************************************************)
EXTENDS Vmm, JobLifecycle

(* There is something to boot. *)
ASSUME SomeArguments == Arguments # {}

VARIABLE session    \* "vm-boot" or "container"

Resting ==
    /\ args = CHOOSE a \in Arguments : TRUE
    /\ program = <<"halt">>
    /\ step = "done" /\ result = "none"
    /\ held = {} /\ todo = <<>> /\ memory = <<>>
    /\ rip = 0 /\ buffer = <<>> /\ printed = <<>>

Sessions ==
    /\ JobInit
    /\ \/ session = "vm-boot" /\ Init
       \/ session = "container" /\ Resting

Advance ==
    /\ UNCHANGED session
    /\ \/ session = "vm-boot" /\ Next /\ UNCHANGED jobVars
       \/ session = "container" /\ JobNext /\ UNCHANGED vars

Windows ==
    /\ Sessions
    /\ [][Advance]_<<vars, jobVars, session>>
    /\ WF_<<vars, jobVars, session>>(Next /\ UNCHANGED jobVars /\ UNCHANGED session)

(* vm-boot and the container commands both keep their types. *)
WindowsTypeOK == TypeOK /\ JobTypeOK

=============================================================================
