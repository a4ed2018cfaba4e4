-------------------------------- MODULE Vmm --------------------------------
(***************************************************************************)
(* The command vm-boot on Windows: boot_linux (platform/windows/vmm.rs)    *)
(* acquires a partition, memory, a mapping and a processor from the        *)
(* hypervisor, lays page tables, kernel, initramfs and boot parameters     *)
(* into the guest's memory, serves the exits of the guest until it stops,  *)
(* and gives everything back.  One step per call of the hypervisor or per  *)
(* piece of memory written; every call may fail.                           *)
(*                                                                         *)
(* Memory is measured in pages of 4096 bytes.                              *)
(***************************************************************************)
EXTENDS Naturals, Sequences, FiniteSets

CONSTANTS
    KernelPages,    \* sizes of kernels
    InitrdPages,    \* sizes of initramfs images, 0 for none
    CmdlinePages,   \* sizes of command lines
    MemoryPages,    \* sizes of the guest's memory
    MaxExits        \* how many exits the guest causes before its last one

ASSUME SizesAssumption ==
    /\ KernelPages \subseteq Nat /\ InitrdPages \subseteq Nat
    /\ CmdlinePages \subseteq Nat /\ MemoryPages \subseteq Nat
    /\ MaxExits \in Nat

(* Windows passes at most 32767 UTF-16 units to a program, each of them at *)
(* most 3 bytes of the UTF-8 that is written, and a zero byte ends them.   *)
ASSUME CmdlineAssumption == \A n \in CmdlinePages : n <= 24

VARIABLES
    args,       \* what the user asked for
    step,       \* the call that comes next
    held,       \* what has been acquired and not released
    todo,       \* what is still to be released, in this order
    memory,     \* the pieces written into guest memory, oldest first
    program,    \* the exits the guest is going to cause
    rip,        \* how many of them the guest has got past
    buffer,     \* console output that waits for the end of its line
    printed,    \* console output shown to the user
    result      \* "none", "ok" or "error"

vars == <<args, step, held, todo, memory, program, rip, buffer, printed, result>>
guest == <<program, rip, buffer, printed>>

----------------------------------------------------------------------------
(* The guest causes an exit for each character or end of line it sends to  *)
(* the console, for accesses to other ports, and for model specific        *)
(* registers and cpuid; the last exit stops it.                            *)

Console == {"char", "newline"}
Passed == Console \union {"port", "msr", "cpuid"}
Stopping == {"shutdown", "halt", "memory", "exception"}

Programs ==
    UNION { { Append(p, last) : p \in [1..n -> Passed], last \in Stopping } : n \in 0..MaxExits }

Arguments == [kernel: KernelPages, initrd: InitrdPages, cmdline: CmdlinePages, size: MemoryPages]

Resources == {"partition", "memory", "mapping", "processor"}

(* The calls of VirtualMachine::new, then the pieces that boot_linux writes. *)
Creation == {"partition", "count", "setup", "memory", "mapping", "processor"}
Preparation == {"tables", "gdt", "kernel", "initrd", "params", "cmdline"}
Following ==
    [partition |-> "count", count |-> "setup", setup |-> "memory", memory |-> "mapping",
     mapping |-> "processor", processor |-> "tables",
     tables |-> "gdt", gdt |-> "kernel", kernel |-> "initrd", initrd |-> "params",
     params |-> "cmdline", cmdline |-> "registers"]

(* What each error return of VirtualMachine::new releases; after that Drop *)
(* releases everything.                                                    *)
Drop == <<"processor", "mapping", "memory", "partition">>

(* Fault: the error return of the last call forgets the mapping. *)
ForgetsMapping(s) ==
    IF s = "processor" THEN <<"memory", "partition">>
    ELSE IF s = "partition" THEN <<>>
    ELSE IF s = "mapping" THEN <<"memory", "partition">>
    ELSE IF s \in {"count", "setup", "memory"} THEN <<"partition">> ELSE Drop

Release(s) ==
    CASE s = "partition" -> <<>>
      [] s \in {"count", "setup", "memory"} -> <<"partition">>
      [] s = "mapping" -> <<"memory", "partition">>
      [] s = "processor" -> <<"mapping", "memory", "partition">>
      [] OTHER -> Drop

(* The layout of guest memory: where each piece goes and how long it is. *)
Kernel == 256
Initrd == 4096
(* Fault: the boot parameters start inside the page tables. *)
Crowded(s) ==
    CASE s = "tables" -> [what |-> s, at |-> 2, size |-> 3]
      [] s = "gdt" -> [what |-> s, at |-> 1, size |-> 1]
      [] s = "kernel" -> [what |-> s, at |-> Kernel, size |-> args.kernel]
      [] s = "initrd" -> [what |-> s, at |-> Initrd, size |-> args.initrd]
      [] s = "params" -> [what |-> s, at |-> 4, size |-> 1]
      [] s = "cmdline" -> [what |-> s, at |-> 32, size |-> args.cmdline]
Piece(s) ==
    CASE s = "tables" -> [what |-> s, at |-> 2, size |-> 3]
      [] s = "gdt" -> [what |-> s, at |-> 1, size |-> 1]
      [] s = "kernel" -> [what |-> s, at |-> Kernel, size |-> args.kernel]
      [] s = "initrd" -> [what |-> s, at |-> Initrd, size |-> args.initrd]
      [] s = "params" -> [what |-> s, at |-> 16, size |-> 1]
      [] s = "cmdline" -> [what |-> s, at |-> 32, size |-> args.cmdline]

Init ==
    /\ args \in Arguments
    /\ program \in Programs
    /\ step = "partition"
    /\ held = {} /\ todo = <<>> /\ memory = <<>>
    /\ rip = 0 /\ buffer = <<>> /\ printed = <<>>
    /\ result = "none"

----------------------------------------------------------------------------

Return(how) ==
    /\ result' = how
    /\ todo' = Release(step)
    /\ step' = "release"

(* A call of VirtualMachine::new succeeds. *)
Create ==
    /\ step \in Creation
    /\ held' = IF step \in Resources THEN held \union {step} ELSE held
    /\ step' = Following[step]
    /\ UNCHANGED <<args, todo, memory, guest, result>>

(* write_guest_mem refuses what does not fit, and boot_linux returns. *)
Fits(piece) == piece.at + piece.size <= args.size

Write ==
    /\ step \in Preparation
    /\ \/ /\ step = "initrd" /\ args.initrd = 0
          /\ UNCHANGED memory
       \/ /\ ~(step = "initrd" /\ args.initrd = 0)
          /\ Fits(Piece(step))
          /\ memory' = Append(memory, Piece(step))
    /\ step' = Following[step]
    /\ UNCHANGED <<args, held, todo, guest, result>>

SetRegisters ==
    /\ step = "registers"
    /\ step' = "run"
    /\ UNCHANGED <<args, held, todo, memory, guest, result>>

(* A call fails, a piece does not fit, or a kernel cannot be read or is    *)
(* none; a slice out of range panics, and unwinding drops the machine too. *)
Fail ==
    /\ step \notin {"release", "done"}
    /\ Return("error")
    /\ UNCHANGED <<args, held, memory, guest>>

Exit == program[rip + 1]

(* The handler of an exit the guest comes back from.  The console's output *)
(* is kept until its line ends and shown then.                             *)
Handling ==
    /\ step = "run"
    /\ Exit \in Passed
    /\ step' = "advance"
    /\ UNCHANGED <<args, held, todo, memory, program, rip, result>>

(* Fault: what is shown stays in the buffer, and is shown again. *)
Repeats ==
    /\ Handling
    /\ \/ Exit = "newline" /\ printed' = Append(printed \o buffer, rip + 1) /\ UNCHANGED buffer
       \/ Exit = "char" /\ buffer' = Append(buffer, rip + 1) /\ UNCHANGED printed
       \/ Exit \notin Console /\ UNCHANGED <<buffer, printed>>

Handle ==
    /\ Handling
    /\ \/ /\ Exit = "char"
          /\ buffer' = Append(buffer, rip + 1)
          /\ UNCHANGED printed
       \/ /\ Exit = "newline"
          /\ printed' = Append(printed \o buffer, rip + 1)
          /\ buffer' = <<>>
       \/ /\ Exit \notin Console
          /\ UNCHANGED <<buffer, printed>>

(* Fault: the guest is not moved past an instruction that reads a register. *)
Stays ==
    /\ step = "advance"
    /\ rip' = IF Exit = "msr" THEN rip ELSE rip + 1
    /\ step' = "run"
    /\ UNCHANGED <<args, held, todo, memory, program, buffer, printed, result>>

(* Fault: the length of the instruction is added twice. *)
Skips ==
    /\ step = "advance"
    /\ rip' = rip + 2
    /\ step' = "run"
    /\ UNCHANGED <<args, held, todo, memory, program, buffer, printed, result>>

AdvanceRip ==
    /\ step = "advance"
    /\ rip' = rip + 1
    /\ step' = "run"
    /\ UNCHANGED <<args, held, todo, memory, program, buffer, printed, result>>

(* The last exit: the loop ends, prints what is left, and run returns 0,   *)
(* whatever stopped the guest.                                             *)
Stop ==
    /\ step = "run"
    /\ Exit \in Stopping
    /\ printed' = printed \o buffer
    /\ buffer' = <<>>
    /\ Return("ok")
    /\ UNCHANGED <<args, held, memory, program, rip>>

(* One call of an error return, or of Drop. *)
Free ==
    /\ step = "release" /\ todo # <<>>
    /\ held' = held \ {Head(todo)}
    /\ todo' = Tail(todo)
    /\ UNCHANGED <<args, step, memory, guest, result>>

Finish ==
    /\ step = "release" /\ todo = <<>>
    /\ step' = "done"
    /\ UNCHANGED <<args, held, todo, memory, guest, result>>

Next ==
    \/ Create \/ Write \/ SetRegisters \/ Fail
    \/ Handle \/ AdvanceRip \/ Stop
    \/ Free \/ Finish

Spec == Init /\ [][Next]_vars

(* One thread, whose calls of the hypervisor return.                       *)
FairSpec == Spec /\ WF_vars(Next)

----------------------------------------------------------------------------
(* Properties *)

Pieces == [what: Preparation, at: Nat, size: Nat]
Names == Creation \union Preparation \union {"registers", "run", "advance", "release", "done"}

TypeOK ==
    /\ args \in Arguments
    /\ step \in Names
    /\ held \subseteq Resources
    /\ todo \in Seq(Resources)
    /\ memory \in Seq(Pieces)
    /\ program \in Programs
    /\ rip \in 0..MaxExits
    /\ buffer \in Seq(Nat) /\ printed \in Seq(Nat)
    /\ result \in {"none", "ok", "error"}

(* Wherever the command gives up, what it is going to release is exactly   *)
(* what it holds, each thing once, and in the end it holds nothing: the six*)
(* error returns of VirtualMachine::new each repeat part of Drop.  On the  *)
(* way, the guest never has memory mapped that the host has freed, and     *)
(* nothing outlives the partition it belongs to.                           *)
ReleasesExactly ==
    /\ step = "release" =>
        /\ held = {todo[i] : i \in 1..Len(todo)}
        /\ \A i, j \in 1..Len(todo) : todo[i] = todo[j] => i = j
    /\ step = "done" => held = {}
    /\ "mapping" \in held => {"memory", "partition"} \subseteq held
    /\ "processor" \in held => "partition" \in held

Overlap(p, q) == p.at < q.at + q.size /\ q.at < p.at + p.size
Stack == [what |-> "stack", at |-> 127, size |-> 1]
Usable(p) == \/ p.at + p.size <= 159
             \/ p.at >= Kernel /\ p.at + p.size <= args.size

(* When the guest starts, no piece has been written over another or lies   *)
(* under the stack, and all lie in memory that the map in boot_params      *)
(* calls usable -- provided that the kernel ends below the initramfs,      *)
(* which nothing checks.                                                   *)
BootImageIntact ==
    step = "run" /\ (args.initrd = 0 \/ Kernel + args.kernel <= Initrd) =>
        /\ \A i, j \in 1..Len(memory) : i # j => ~Overlap(memory[i], memory[j])
        /\ \A i \in 1..Len(memory) : ~Overlap(memory[i], Stack) /\ Usable(memory[i])

(* What is shown is what the guest has sent to the console with its first  *)
(* n exits, in the order it sent it.                                       *)
Shows(shown, n) ==
    /\ \A i, j \in 1..Len(shown) : i < j => shown[i] < shown[j]
    /\ {shown[i] : i \in 1..Len(shown)} = {i \in 1..n : program[i] \in Console}

(* While the guest runs nothing of its console output is lost, repeated or *)
(* reordered, and when run returns without an error all of it was shown.   *)
OutputWhole ==
    /\ step = "run" => Shows(printed \o buffer, rip)
    /\ step = "advance" => Shows(printed \o buffer, rip + 1)
    /\ result = "ok" => Shows(printed, Len(program)) /\ buffer = <<>>

(* A guest that comes to a stop ends the command, with everything released *)
(* or not acquired: an exit that is handled is never handled again.        *)
Returns == <>(step = "done" /\ held = {})

=============================================================================
