--------------------------- MODULE Windows_proofs ----------------------------
(***************************************************************************)
(* The Windows backend, proved: what boot_linux holds and what it writes   *)
(* into guest memory, for kernels, initramfs images and guests of any      *)
(* size; what its guest prints; and the job of a container, for any number *)
(* of commands and of processes.                                           *)
(***************************************************************************)
EXTENDS MCWindows, SequenceTheorems, TLAPS

----------------------------------------------------------------------------
(* A session runs vm-boot or the commands, and the other one rests. *)
LEMMA OneAtATime ==
    [Advance]_<<vars, jobVars, session>> => [Next]_vars /\ [JobNext]_jobVars
BY DEF Advance, vars, jobVars

----------------------------------------------------------------------------
(* What is held *)

(* What is held before each call: all that the calls before it acquired.   *)
HeldAt(s) ==
    CASE s = "partition" -> {}
      [] s \in {"count", "setup", "memory"} -> {"partition"}
      [] s = "mapping" -> {"partition", "memory"}
      [] s = "processor" -> {"partition", "memory", "mapping"}
      [] OTHER -> Resources

(* The releases that are left, and what is still held then. *)
Left ==
    \/ todo = <<>> /\ held = {}
    \/ todo = <<"partition">> /\ held = {"partition"}
    \/ todo = <<"memory", "partition">> /\ held = {"partition", "memory"}
    \/ todo = <<"mapping", "memory", "partition">> /\ held = {"partition", "memory", "mapping"}
    \/ todo = Drop /\ held = Resources

ReleaseInv ==
    /\ step \in Names
    /\ step \notin {"release", "done"} => held = HeldAt(step)
    /\ step = "release" => Left
    /\ step = "done" => held = {}

LEMMA ReleaseInit == Sessions => ReleaseInv
BY DEF Sessions, Init, Resting, ReleaseInv, Names, Creation, HeldAt

(* A return leaves what Release says, which is what is held. *)
LEMMA ReturnLeft ==
    ASSUME ReleaseInv, step \notin {"release", "done"}, NEW how, Return(how), held' = held
    PROVE  ReleaseInv'
<1>1. step' = "release" /\ todo' = Release(step) /\ held = HeldAt(step)
    BY DEF Return, ReleaseInv
<1>2. CASE step = "partition"
    BY <1>1, <1>2 DEF Release, HeldAt, ReleaseInv, Left, Names
<1>3. CASE step \in {"count", "setup", "memory"}
    BY <1>1, <1>3 DEF Release, HeldAt, ReleaseInv, Left, Names
<1>4. CASE step = "mapping"
    BY <1>1, <1>4 DEF Release, HeldAt, ReleaseInv, Left, Names
<1>5. CASE step = "processor"
    BY <1>1, <1>5 DEF Release, HeldAt, ReleaseInv, Left, Names
<1>6. CASE step \notin Creation
    BY <1>1, <1>6 DEF Release, HeldAt, ReleaseInv, Left, Names, Creation
<1> QED
    BY <1>2, <1>3, <1>4, <1>5, <1>6 DEF Creation

LEMMA ReleaseStep ==
    ASSUME ReleaseInv, [Next]_vars
    PROVE  ReleaseInv'
<1>1. CASE Create
    <2>1. step \in Creation /\ held' = (IF step \in Resources THEN held \union {step} ELSE held)
              /\ step' = Following[step]
        BY <1>1 DEF Create
    <2>2. CASE step = "partition"
        BY <2>1, <2>2 DEF ReleaseInv, HeldAt, Following, Names, Creation, Resources
    <2>3. CASE step = "count"
        BY <2>1, <2>3 DEF ReleaseInv, HeldAt, Following, Names, Creation, Resources
    <2>4. CASE step = "setup"
        BY <2>1, <2>4 DEF ReleaseInv, HeldAt, Following, Names, Creation, Resources
    <2>5. CASE step = "memory"
        BY <2>1, <2>5 DEF ReleaseInv, HeldAt, Following, Names, Creation, Resources
    <2>6. CASE step = "mapping"
        BY <2>1, <2>6 DEF ReleaseInv, HeldAt, Following, Names, Creation, Resources
    <2>7. CASE step = "processor"
        BY <2>1, <2>7 DEF ReleaseInv, HeldAt, Following, Names, Creation, Preparation, Resources
    <2> QED
        BY <2>1, <2>2, <2>3, <2>4, <2>5, <2>6, <2>7 DEF Creation
<1>2. CASE Write
    <2>1. step \in Preparation /\ step' = Following[step] /\ held' = held
        BY <1>2 DEF Write
    <2>2. step' \in Preparation \union {"registers"}
        BY <2>1 DEF Following, Preparation
    <2> QED
        BY <2>1, <2>2 DEF ReleaseInv, HeldAt, Names, Preparation
<1>3. CASE SetRegisters
    BY <1>3 DEF SetRegisters, ReleaseInv, HeldAt, Names
<1>4. CASE Fail
    BY <1>4, ReturnLeft DEF Fail
<1>5. CASE Handle
    BY <1>5 DEF Handle, Handling, ReleaseInv, HeldAt, Names
<1>6. CASE AdvanceRip
    BY <1>6 DEF AdvanceRip, ReleaseInv, HeldAt, Names
<1>7. CASE Stop
    BY <1>7, ReturnLeft DEF Stop
<1>8. CASE Free
    <2>1. step = "release" /\ step' = step /\ todo # <<>> /\ todo' = Tail(todo) /\ held' = held \ {Head(todo)}
        BY <1>8 DEF Free
    <2>2. CASE todo = <<"partition">> /\ held = {"partition"}
        <3>1. todo' = <<>> /\ held' = {}
            BY <2>1, <2>2
        <3> QED
            BY <2>1, <3>1 DEF ReleaseInv, Left
    <2>3. CASE todo = <<"memory", "partition">> /\ held = {"partition", "memory"}
        <3>1. todo' = <<"partition">> /\ held' = {"partition"}
            BY <2>1, <2>3
        <3> QED
            BY <2>1, <3>1 DEF ReleaseInv, Left
    <2>4. CASE todo = <<"mapping", "memory", "partition">> /\ held = {"partition", "memory", "mapping"}
        <3>1. todo' = <<"memory", "partition">> /\ held' = {"partition", "memory"}
            BY <2>1, <2>4
        <3> QED
            BY <2>1, <3>1 DEF ReleaseInv, Left
    <2>5. CASE todo = Drop /\ held = Resources
        <3>1. todo' = <<"mapping", "memory", "partition">> /\ held' = {"partition", "memory", "mapping"}
            BY <2>1, <2>5 DEF Drop, Resources
        <3> QED
            BY <2>1, <3>1 DEF ReleaseInv, Left
    <2> QED
        BY <2>1, <2>2, <2>3, <2>4, <2>5 DEF ReleaseInv, Left
<1>9. CASE Finish
    <2>1. held = {} /\ held' = held /\ step' = "done"
        BY <1>9 DEF Finish, ReleaseInv, Left, Drop
    <2> QED
        BY <2>1 DEF ReleaseInv, Names
<1>10. CASE UNCHANGED vars
    BY <1>10 DEF vars, ReleaseInv, Left
<1> QED
    BY <1>1, <1>2, <1>3, <1>4, <1>5, <1>6, <1>7, <1>8, <1>9, <1>10 DEF Next

LEMMA ReleaseImplies == ReleaseInv => ReleasesExactly
<1> SUFFICES ASSUME ReleaseInv PROVE ReleasesExactly
    OBVIOUS
<1>1. ASSUME step = "release"
      PROVE  /\ held = {todo[i] : i \in 1..Len(todo)}
             /\ \A i, j \in 1..Len(todo) : todo[i] = todo[j] => i = j
    <2>1. CASE todo = <<>> /\ held = {}
        BY <2>1
    <2>2. CASE todo = <<"partition">> /\ held = {"partition"}
        <3>1. Len(todo) = 1 /\ todo[1] = "partition" BY <2>2
        <3> QED BY <3>1, <2>2
    <2>3. CASE todo = <<"memory", "partition">> /\ held = {"partition", "memory"}
        <3>1. Len(todo) = 2 /\ todo[1] = "memory" /\ todo[2] = "partition" BY <2>3
        <3> QED BY <3>1, <2>3
    <2>4. CASE todo = <<"mapping", "memory", "partition">> /\ held = {"partition", "memory", "mapping"}
        <3>1. Len(todo) = 3 /\ todo[1] = "mapping" /\ todo[2] = "memory" /\ todo[3] = "partition" BY <2>4
        <3> QED BY <3>1, <2>4
    <2>5. CASE todo = Drop /\ held = Resources
        <3>1. /\ Len(todo) = 4 /\ todo[1] = "processor" /\ todo[2] = "mapping"
              /\ todo[3] = "memory" /\ todo[4] = "partition"
            BY <2>5 DEF Drop
        <3> QED BY <3>1, <2>5 DEF Resources
    <2> QED
        BY <1>1, <2>1, <2>2, <2>3, <2>4, <2>5 DEF ReleaseInv, Left
<1>2. /\ "mapping" \in held => {"memory", "partition"} \subseteq held
      /\ "processor" \in held => "partition" \in held
    <2>1. CASE step \notin {"release", "done"}
        BY <2>1 DEF ReleaseInv, HeldAt, Resources
    <2>2. CASE step = "release"
        BY <2>2 DEF ReleaseInv, Left, Resources
    <2>3. CASE step = "done"
        BY <2>3 DEF ReleaseInv
    <2> QED
        BY <2>1, <2>2, <2>3
<1>3. step = "done" => held = {}
    BY DEF ReleaseInv
<1> QED
    BY <1>1, <1>2, <1>3 DEF ReleasesExactly

LEMMA ReleaseAlways == Windows => []ReleaseInv
BY ReleaseInit, ReleaseStep, OneAtATime, PTL DEF Windows

(* VirtualMachine::new, boot_linux and Drop: wherever the command gives up,*)
(* it releases what it holds, each thing once and in an order in which     *)
(* nothing outlives what it needs.                                         *)
THEOREM ReleasesRight == Windows => []ReleasesExactly
<1> QED
    BY ReleaseAlways, ReleaseImplies, PTL

----------------------------------------------------------------------------
(* What is in guest memory *)

(* The pieces that come before a step. *)
Before(s) ==
    CASE s \in Creation \union {"tables"} -> {}
      [] s = "gdt" -> {"tables"}
      [] s = "kernel" -> {"tables", "gdt"}
      [] s = "initrd" -> {"tables", "gdt", "kernel"}
      [] s = "params" -> {"tables", "gdt", "kernel", "initrd"}
      [] s = "cmdline" -> {"tables", "gdt", "kernel", "initrd", "params"}
      [] OTHER -> Preparation

Written(p) ==
    /\ p.what \in Before(step)
    /\ p = Piece(p.what)
    /\ Fits(p)
    /\ p.what = "initrd" => args.initrd # 0

(* Each piece has been written at most once, and fits. *)
ImageInv ==
    /\ args \in Arguments
    /\ step \in Names
    /\ memory \in Seq(Pieces)
    /\ \A i \in 1..Len(memory) : Written(memory[i])
    /\ \A i, j \in 1..Len(memory) : memory[i].what = memory[j].what => i = j

LEMMA PieceIs ==
    ASSUME args \in Arguments
    PROVE  /\ Piece("tables") = [what |-> "tables", at |-> 2, size |-> 3]
           /\ Piece("gdt") = [what |-> "gdt", at |-> 1, size |-> 1]
           /\ Piece("kernel") = [what |-> "kernel", at |-> 256, size |-> args.kernel]
           /\ Piece("initrd") = [what |-> "initrd", at |-> 4096, size |-> args.initrd]
           /\ Piece("params") = [what |-> "params", at |-> 16, size |-> 1]
           /\ Piece("cmdline") = [what |-> "cmdline", at |-> 32, size |-> args.cmdline]
           /\ args.kernel \in Nat /\ args.initrd \in Nat /\ args.size \in Nat
           /\ args.cmdline \in 0..24
<1>1. args.kernel \in Nat /\ args.initrd \in Nat /\ args.size \in Nat /\ args.cmdline \in Nat
    BY SizesAssumption DEF Arguments
<1>2. args.cmdline <= 24
    BY CmdlineAssumption DEF Arguments
<1> QED
    BY <1>1, <1>2 DEF Piece, Kernel, Initrd

LEMMA PieceType ==
    ASSUME args \in Arguments, NEW s \in Preparation
    PROVE  Piece(s) \in Pieces /\ Piece(s).what = s
BY PieceIs DEF Pieces, Preparation

LEMMA BeforeGrows ==
    ASSUME NEW s \in Creation \union Preparation
    PROVE  /\ Following[s] \in Names
           /\ Before(s) \subseteq Before(Following[s])
           /\ s \notin Before(s)
           /\ s \in Preparation => s \in Before(Following[s])
<1>1. CASE s \in Creation
    BY <1>1 DEF Creation, Preparation, Following, Before, Names
<1>2. CASE s \in Preparation
    BY <1>2 DEF Creation, Preparation, Following, Before, Names
<1> QED
    BY <1>1, <1>2

LEMMA ImageInit == Sessions => ImageInv
<1> SUFFICES ASSUME Sessions PROVE ImageInv
    OBVIOUS
<1>1. args \in Arguments
    <2>1. (CHOOSE a \in Arguments : TRUE) \in Arguments
        BY SomeArguments
    <2> QED
        BY <2>1 DEF Sessions, Init, Resting
<1>2. step \in Names /\ memory = <<>>
    BY DEF Sessions, Init, Resting, Names, Creation
<1> QED
    BY <1>1, <1>2 DEF ImageInv

(* A step that writes nothing and does not go back. *)
LEMMA NothingWritten ==
    ASSUME ImageInv, args' = args, memory' = memory, step' \in Names, Before(step) \subseteq Before(step')
    PROVE  ImageInv'
<1>1. ASSUME NEW i \in 1..Len(memory) PROVE Written(memory[i])'
    BY <1>1 DEF ImageInv, Written, Fits, Piece
<1> QED
    BY <1>1 DEF ImageInv

LEMMA ImageWrite ==
    ASSUME ImageInv, Write
    PROVE  ImageInv'
<1>1. step \in Preparation /\ step' = Following[step] /\ args' = args
    BY DEF Write
<1>2. step' \in Names /\ Before(step) \subseteq Before(step') /\ step \notin Before(step) /\ step \in Before(step')
    BY <1>1, BeforeGrows
<1>3. CASE memory' = memory
    BY <1>1, <1>2, <1>3, NothingWritten
<1>4. CASE memory' # memory
    <2>1. memory' = Append(memory, Piece(step)) /\ Fits(Piece(step)) /\ (step = "initrd" => args.initrd # 0)
        BY <1>4 DEF Write
    <2>2. Piece(step) \in Pieces /\ Piece(step).what = step
        BY <1>1, PieceType DEF ImageInv
    <2> DEFINE n == Len(memory)
    <2>3. n \in Nat /\ Len(memory') = n + 1 /\ memory' \in Seq(Pieces)
          /\ memory'[n + 1] = Piece(step) /\ \A i \in 1..n : memory'[i] = memory[i]
        BY <2>1, <2>2 DEF ImageInv
    <2>4. ASSUME NEW i \in 1..(n + 1) PROVE Written(memory[i])'
        <3>1. CASE i \in 1..n
            BY <1>1, <1>2, <2>3, <3>1 DEF ImageInv, Written, Fits, Piece
        <3>2. CASE i = n + 1
            BY <1>1, <1>2, <2>1, <2>2, <2>3, <3>2 DEF Written, Fits, Piece
        <3> QED
            BY <2>3, <2>4, <3>1, <3>2
    <2>5. ASSUME NEW i \in 1..(n + 1), NEW j \in 1..(n + 1), memory'[i].what = memory'[j].what
          PROVE  i = j
        <3>1. \A k \in 1..n : memory[k].what # step
            BY <1>2 DEF ImageInv, Written
        <3> QED
            BY <2>2, <2>3, <2>5, <3>1 DEF ImageInv
    <2> QED
        BY <1>1, <1>2, <2>3, <2>4, <2>5 DEF ImageInv
<1> QED
    BY <1>3, <1>4

LEMMA ImageStep ==
    ASSUME ImageInv, [Next]_vars
    PROVE  ImageInv'
<1>1. CASE Create
    <2>1. step \in Creation /\ step' = Following[step] /\ args' = args /\ memory' = memory
        BY <1>1 DEF Create
    <2> QED
        BY <2>1, BeforeGrows, NothingWritten
<1>2. CASE Write
    BY <1>2, ImageWrite
<1>3. CASE SetRegisters \/ Fail \/ Handle \/ AdvanceRip \/ Stop \/ Free \/ Finish
    <2>1. step' \in {"run", "release", "advance", "done"} /\ args' = args /\ memory' = memory
        BY <1>3 DEF SetRegisters, Fail, Return, Handle, Handling, AdvanceRip, Stop, Free, Finish, guest
    <2>2. step' \in Names /\ Before(step') = Preparation
        BY <2>1 DEF Names, Before, Creation
    <2>3. Before(step) \subseteq Preparation
        BY DEF Before, Preparation
    <2> QED
        BY <2>1, <2>2, <2>3, NothingWritten
<1>4. CASE UNCHANGED vars
    BY <1>4, NothingWritten DEF vars, ImageInv
<1> QED
    BY <1>1, <1>2, <1>3, <1>4 DEF Next

(* Two different pieces do not meet, nor any the stack. *)
LEMMA Apart ==
    ASSUME args \in Arguments, NEW s \in Preparation, NEW t \in Preparation, s # t,
           s = "initrd" \/ t = "initrd" => Kernel + args.kernel <= Initrd
    PROVE  ~Overlap(Piece(s), Piece(t))
<1>1. args.kernel \in Nat /\ args.initrd \in Nat /\ args.cmdline \in 0..24
    BY PieceIs
<1>2. s = "initrd" \/ t = "initrd" => 256 + args.kernel <= 4096
    BY DEF Kernel, Initrd
<1> QED
    BY <1>1, <1>2, PieceIs DEF Overlap, Preparation

LEMMA Placed ==
    ASSUME args \in Arguments, NEW s \in Preparation, Fits(Piece(s))
    PROVE  ~Overlap(Piece(s), Stack) /\ Usable(Piece(s))
<1>1. args.kernel \in Nat /\ args.initrd \in Nat /\ args.cmdline \in 0..24 /\ args.size \in Nat
    BY PieceIs
<1> QED
    BY <1>1, PieceIs DEF Overlap, Stack, Usable, Fits, Kernel, Preparation

LEMMA ImageImplies == ImageInv => BootImageIntact
<1> SUFFICES ASSUME ImageInv, step = "run", args.initrd = 0 \/ Kernel + args.kernel <= Initrd
             PROVE  /\ \A i, j \in 1..Len(memory) : i # j => ~Overlap(memory[i], memory[j])
                    /\ \A i \in 1..Len(memory) : ~Overlap(memory[i], Stack) /\ Usable(memory[i])
    BY DEF BootImageIntact
<1>1. ASSUME NEW i \in 1..Len(memory)
      PROVE  /\ memory[i].what \in Preparation
             /\ memory[i] = Piece(memory[i].what)
             /\ Fits(memory[i])
             /\ memory[i].what = "initrd" => Kernel + args.kernel <= Initrd
    <2>1. Before(step) \subseteq Preparation
        BY DEF Before, Preparation
    <2> QED
        BY <1>1, <2>1 DEF ImageInv, Written
<1>2. ASSUME NEW i \in 1..Len(memory), NEW j \in 1..Len(memory), i # j
      PROVE  ~Overlap(memory[i], memory[j])
    <2>1. memory[i].what # memory[j].what
        BY <1>2 DEF ImageInv
    <2>2. ~Overlap(Piece(memory[i].what), Piece(memory[j].what))
        BY <1>1, <2>1, Apart DEF ImageInv
    <2> QED
        BY <1>1, <2>2
<1>3. ASSUME NEW i \in 1..Len(memory)
      PROVE  ~Overlap(memory[i], Stack) /\ Usable(memory[i])
    <2>1. memory[i].what \in Preparation /\ memory[i] = Piece(memory[i].what) /\ Fits(memory[i])
        BY <1>1
    <2>2. Fits(Piece(memory[i].what))
        BY <2>1
    <2>3. ~Overlap(Piece(memory[i].what), Stack) /\ Usable(Piece(memory[i].what))
        BY <2>1, <2>2, Placed DEF ImageInv
    <2> QED
        BY <2>1, <2>3
<1> QED
    BY <1>2, <1>3

LEMMA ImageAlways == Windows => []ImageInv
BY ImageInit, ImageStep, OneAtATime, PTL DEF Windows

(* setup_page_tables, setup_gdt, load_kernel, load_initrd and the          *)
(* parameters: in a guest of any size, nothing that boot_linux has written *)
(* is overwritten before the guest starts, unless the kernel reaches the   *)
(* initramfs.                                                              *)
THEOREM ImageRight == Windows => []BootImageIntact
<1> QED
    BY ImageAlways, ImageImplies, PTL

----------------------------------------------------------------------------
(* What is printed *)

LEMMA ProgramIs ==
    ASSUME program \in Programs
    PROVE  /\ program \in Seq(Passed \union Stopping)
           /\ Len(program) \in 1..(MaxExits + 1)
           /\ \A i \in 1..Len(program) : program[i] \in Stopping <=> i = Len(program)
           /\ \A i \in 1..Len(program) : program[i] \in Passed <=> i # Len(program)
<1>0. PICK n \in 0..MaxExits : \E p \in [1..n -> Passed], last \in Stopping : program = Append(p, last)
    BY DEF Programs
<1>1. PICK p \in [1..n -> Passed], last \in Stopping : program = Append(p, last)
    BY <1>0
<1>2. n \in Nat /\ p \in Seq(Passed) /\ Len(p) = n /\ p \in Seq(Passed \union Stopping)
    BY SizesAssumption
<1>3. /\ program \in Seq(Passed \union Stopping) /\ Len(program) = n + 1
      /\ program[n + 1] = last /\ \A i \in 1..n : program[i] = p[i]
    BY <1>1, <1>2
<1>4. Passed \cap Stopping = {}
    BY DEF Passed, Stopping, Console
<1> QED
    BY <1>1, <1>2, <1>3, <1>4, SizesAssumption

Preparing == Creation \union Preparation \union {"registers"}

OutputInv ==
    /\ program \in Programs /\ step \in Names
    /\ rip \in Nat /\ buffer \in Seq(Nat) /\ printed \in Seq(Nat)
    /\ step \in Preparing => rip = 0 /\ buffer = <<>> /\ printed = <<>>
    /\ step = "run" => Shows(printed \o buffer, rip) /\ rip < Len(program)
    /\ step = "advance" => Shows(printed \o buffer, rip + 1) /\ rip + 1 < Len(program)
    /\ rip < Len(program)
    /\ step \notin {"release", "done"} => result = "none"
    /\ result \in {"none", "ok", "error"}
    /\ result = "ok" => Shows(printed, Len(program)) /\ buffer = <<>>

Appending(A, B) == {Append(q, last) : q \in A, last \in B}

LEMMA Appended ==
    ASSUME NEW A, NEW B, NEW q \in A, NEW last \in B
    PROVE  Append(q, last) \in Appending(A, B)
BY DEF Appending

LEMMA OutputInit == Sessions => OutputInv
<1> SUFFICES ASSUME Sessions PROVE OutputInv
    OBVIOUS
<1>1. program \in Programs
    <2>1. CASE Init
        BY <2>1 DEF Init
    <2>2. CASE Resting
        <3> DEFINE p == [i \in 1..0 |-> "port"]
        <3>1. p \in [1..0 -> Passed] /\ "halt" \in Stopping /\ 0 \in 0..MaxExits
            BY SizesAssumption DEF Passed, Stopping
        <3>2. p = <<>>
            OBVIOUS
        <3>3. Append(p, "halt") = <<"halt">>
            BY <3>2
        <3> HIDE DEF p
        <3>4. program = Append(p, "halt")
            BY <2>2, <3>3 DEF Resting
        <3>5. program \in Appending([1..0 -> Passed], Stopping)
            BY <3>1, <3>4, Appended
        <3>6. Programs = UNION {Appending([1..n -> Passed], Stopping) : n \in 0..MaxExits}
            BY DEF Programs, Appending
        <3> QED
            BY <3>1, <3>5, <3>6
    <2> QED
        BY <2>1, <2>2 DEF Sessions
<1>2. rip = 0 /\ buffer = <<>> /\ printed = <<>> /\ result = "none" /\ step \in {"partition", "done"}
    BY DEF Sessions, Init, Resting
<1> QED
    BY <1>1, <1>2, ProgramIs DEF OutputInv, Names, Creation, Preparing

(* An exit that sends nothing to the console changes nothing. *)
LEMMA NothingSent ==
    ASSUME NEW shown, NEW n \in Nat, Shows(shown, n), program[n + 1] \notin Console
    PROVE  Shows(shown, n + 1)
<1>1. {i \in 1..(n + 1) : program[i] \in Console} = {i \in 1..n : program[i] \in Console}
    OBVIOUS
<1> QED
    BY <1>1 DEF Shows

(* An exit that does comes last. *)
LEMMA OneSent ==
    ASSUME NEW shown \in Seq(Nat), NEW n \in Nat, Shows(shown, n), program[n + 1] \in Console
    PROVE  Shows(Append(shown, n + 1), n + 1)
<1> DEFINE more == Append(shown, n + 1)
<1>1. /\ more \in Seq(Nat) /\ Len(shown) \in Nat /\ Len(more) = Len(shown) + 1
      /\ more[Len(shown) + 1] = n + 1
      /\ \A i \in 1..Len(shown) : more[i] = shown[i] /\ shown[i] \in Nat
    OBVIOUS
<1>2. \A i \in 1..Len(shown) : shown[i] \in 1..n /\ program[shown[i]] \in Console
    <2>1. \A i \in 1..Len(shown) : shown[i] \in {k \in 1..n : program[k] \in Console}
        BY DEF Shows
    <2> QED
        BY <2>1
<1>3. ASSUME NEW i \in 1..Len(more), NEW j \in 1..Len(more), i < j PROVE more[i] < more[j]
    <2>1. CASE j \in 1..Len(shown)
        BY <1>1, <1>3, <2>1 DEF Shows
    <2>2. CASE j = Len(shown) + 1
        BY <1>1, <1>2, <1>3, <2>2
    <2> QED
        BY <1>1, <2>1, <2>2
<1>4. ASSUME NEW k \in 1..(n + 1), program[k] \in Console PROVE \E i \in 1..Len(more) : more[i] = k
    <2>1. CASE k = n + 1
        BY <1>1, <2>1
    <2>2. CASE k \in 1..n
        <3>1. k \in {shown[i] : i \in 1..Len(shown)}
            BY <1>4, <2>2 DEF Shows
        <3> QED
            BY <3>1, <1>1
    <2> QED
        BY <2>1, <2>2
<1>5. ASSUME NEW i \in 1..Len(more) PROVE more[i] \in 1..(n + 1) /\ program[more[i]] \in Console
    BY <1>1, <1>2, <1>5
<1>6. {more[i] : i \in 1..Len(more)} = {k \in 1..(n + 1) : program[k] \in Console}
    BY <1>4, <1>5
<1> QED
    BY <1>3, <1>6 DEF Shows

LEMMA HandleOutput ==
    ASSUME OutputInv, Handle
    PROVE  OutputInv'
<1>1. /\ step = "run" /\ Exit \in Passed /\ step' = "advance"
      /\ program' = program /\ rip' = rip /\ result' = result
    BY DEF Handle, Handling
<1>2. Shows(printed \o buffer, rip) /\ rip \in Nat /\ rip + 1 < Len(program)
    BY <1>1, ProgramIs DEF OutputInv, Exit
<1>3. /\ buffer' \in Seq(Nat) /\ printed' \in Seq(Nat)
      /\ \/ Exit \in Console /\ printed' \o buffer' = Append(printed \o buffer, rip + 1)
         \/ Exit \notin Console /\ printed' \o buffer' = printed \o buffer
    <2>1. buffer \in Seq(Nat) /\ printed \in Seq(Nat) /\ rip + 1 \in Nat
        BY DEF OutputInv
    <2>2. CASE Exit = "char"
        <3>1. buffer' = Append(buffer, rip + 1) /\ printed' = printed
            BY <2>2 DEF Handle, Console
        <3>2. buffer' \in Seq(Nat)
            BY <2>1, <3>1
        <3>3. printed \o Append(buffer, rip + 1) = Append(printed \o buffer, rip + 1)
            BY <2>1
        <3> QED
            BY <2>1, <2>2, <3>1, <3>2, <3>3 DEF Console
    <2>3. CASE Exit = "newline"
        <3>1. printed' = Append(printed \o buffer, rip + 1) /\ buffer' = <<>>
            BY <2>3 DEF Handle, Console
        <3>2. printed \o buffer \in Seq(Nat)
            BY <2>1
        <3>3. printed' \in Seq(Nat) /\ printed' \o buffer' = printed'
            BY <2>1, <3>1, <3>2
        <3> QED
            BY <2>3, <3>1, <3>3 DEF Console
    <2>4. CASE Exit \notin Console
        BY <2>1, <2>4 DEF Handle, Console
    <2> QED
        BY <2>2, <2>3, <2>4 DEF Console
<1>4. printed \o buffer \in Seq(Nat)
    BY DEF OutputInv
<1>5. Shows(printed' \o buffer', rip + 1)
    BY <1>2, <1>3, <1>4, NothingSent, OneSent DEF Exit
<1>6. Shows(printed \o buffer, rip + 1)'
    BY <1>1, <1>5 DEF Shows
<1> QED
    BY <1>1, <1>2, <1>3, <1>6 DEF OutputInv, Names, Preparing, Creation, Preparation

LEMMA StopOutput ==
    ASSUME OutputInv, Stop
    PROVE  OutputInv'
<1>1. /\ step = "run" /\ Exit \in Stopping /\ step' = "release" /\ result' = "ok"
      /\ printed' = printed \o buffer /\ buffer' = <<>> /\ program' = program /\ rip' = rip
    BY DEF Stop, Return
<1>2. Shows(printed \o buffer, rip) /\ rip \in Nat /\ rip + 1 = Len(program) /\ program \in Programs
    BY <1>1, ProgramIs DEF OutputInv, Exit
<1>3. program[rip + 1] \notin Console
    BY <1>1 DEF Exit, Stopping, Console
<1>4. Shows(printed', Len(program))
    BY <1>1, <1>2, <1>3, NothingSent
<1>5. Shows(printed, Len(program))'
    BY <1>1, <1>4 DEF Shows
<1>6. printed' \in Seq(Nat) /\ buffer' \in Seq(Nat)
    BY <1>1 DEF OutputInv
<1> QED
    BY <1>1, <1>2, <1>5, <1>6 DEF OutputInv, Names, Preparing, Creation, Preparation

LEMMA OutputStep ==
    ASSUME OutputInv, [Next]_vars
    PROVE  OutputInv'
<1>1. ASSUME UNCHANGED guest, result' = result, step \in Preparing, step' \in Preparing \union {"run"}
      PROVE  OutputInv'
    <2>1. program' = program /\ rip' = 0 /\ buffer' = <<>> /\ printed' = <<>> /\ rip < Len(program)
        BY <1>1 DEF guest, OutputInv
    <2>2. Shows(<<>>, 0)
        BY DEF Shows
    <2>3. <<>> \o <<>> = <<>>
        OBVIOUS
    <2>4. Shows(printed \o buffer, rip)'
        BY <2>1, <2>2, <2>3 DEF Shows
    <2>5. result' = "none"
        BY <1>1 DEF OutputInv, Preparing, Creation, Preparation
    <2> QED
        BY <1>1, <2>1, <2>4, <2>5 DEF OutputInv, Names, Preparing, Creation, Preparation
<1>2. ASSUME UNCHANGED guest, step' \in {"release", "done"}, result' = result \/ result' = "error"
      PROVE  OutputInv'
    BY <1>2 DEF guest, OutputInv, Names, Shows, Preparing, Creation, Preparation
<1>3. CASE Create
    BY <1>1, <1>3 DEF Create, Preparing, Creation, Preparation, Following
<1>4. CASE Write
    BY <1>1, <1>4 DEF Write, Preparing, Creation, Preparation, Following
<1>5. CASE SetRegisters
    BY <1>1, <1>5 DEF SetRegisters, Preparing
<1>6. CASE Fail
    BY <1>2, <1>6 DEF Fail, Return
<1>7. CASE Handle
    BY <1>7, HandleOutput
<1>8. CASE AdvanceRip
    <2>1. Shows(printed \o buffer, rip)'
        <3>1. /\ rip' = rip + 1 /\ UNCHANGED <<program, buffer, printed>>
              /\ Shows(printed \o buffer, rip + 1)
            BY <1>8 DEF AdvanceRip, OutputInv
        <3> DEFINE shown == printed \o buffer
                   n == rip + 1
        <3>2. Shows(shown, n) /\ (printed \o buffer)' = shown /\ rip' = n /\ program' = program
            BY <3>1
        <3> HIDE DEF shown, n
        <3> QED
            BY <3>2 DEF Shows
    <2> QED
        BY <1>8, <2>1 DEF AdvanceRip, OutputInv, Names, Preparing, Creation, Preparation
<1>9. CASE Stop
    BY <1>9, StopOutput
<1>10. CASE Free \/ Finish
    BY <1>2, <1>10 DEF Free, Finish
<1>11. CASE UNCHANGED vars
    <2>1. UNCHANGED <<step, program, rip, buffer, printed, result>>
        BY <1>11 DEF vars
    <2>2. /\ Shows(printed \o buffer, rip)' = Shows(printed \o buffer, rip)
          /\ Shows(printed \o buffer, rip + 1)' = Shows(printed \o buffer, rip + 1)
          /\ Shows(printed, Len(program))' = Shows(printed, Len(program))
        BY <2>1 DEF Shows
    <2> QED
        BY <2>1, <2>2 DEF OutputInv
<1> QED
    BY <1>3, <1>4, <1>5, <1>6, <1>7, <1>8, <1>9, <1>10, <1>11 DEF Next

LEMMA OutputAlways == Windows => []OutputInv
BY OutputInit, OutputStep, OneAtATime, PTL DEF Windows

(* run_vcpu and the console of vmm.rs: whatever exits the guest causes and *)
(* however many, all that it sent is shown in its order, once.             *)
THEOREM OutputRight == Windows => []OutputWhole
<1>1. OutputInv => OutputWhole
    BY DEF OutputInv, OutputWhole
<1> QED
    BY <1>1, OutputAlways, PTL

----------------------------------------------------------------------------
(* The order of the calls: what may stand before each of them. *)

Follows(before, call) ==
    /\ call # "open"
    /\ call = "limit" => before \in {"open", "rate"}
    /\ call = "rate" => before = "limit"
    /\ call = "spawn" => before = "rate"
    /\ call = "assign" => before = "spawn"
    /\ call = "resume" => before = "assign"

Ordered(calls) == \A i \in 2..Len(calls) : Follows(calls[i - 1], calls[i])

LEMMA CallsOrdered ==
    ASSUME NEW o \in Operation
    PROVE  Calls(o) \in Seq(CallNames) /\ Ordered(Calls(o)) /\ Calls(o) # <<>> /\ Head(Calls(o)) = "open"
<1>1. CASE o = "create"
    BY <1>1 DEF Calls, CallNames, Ordered, Follows
<1>2. CASE o = "stop"
    BY <1>2 DEF Calls, CallNames, Ordered, Follows
<1>3. CASE o = "delete"
    BY <1>3 DEF Calls, CallNames, Ordered, Follows
<1>4. CASE o = "exec"
    <2> DEFINE P == <<"open", "limit", "rate">>
    <2>1. Calls(o) = P \o Launch /\ P \in Seq(CallNames) /\ Launch \in Seq(CallNames)
        BY <1>4 DEF Calls, Launch, CallNames
    <2>2. /\ Calls(o) \in Seq(CallNames) /\ Len(Calls(o)) = 6
          /\ \A i \in 1..6 : Calls(o)[i] = IF i <= 3 THEN P[i] ELSE Launch[i - 3]
        BY <2>1, ConcatProperties DEF Launch
    <2>3. /\ Calls(o)[1] = "open" /\ Calls(o)[2] = "limit" /\ Calls(o)[3] = "rate" /\ Calls(o)[4] = "spawn"
          /\ Calls(o)[5] = "assign" /\ Calls(o)[6] = "resume"
        BY <2>2 DEF Launch
    <2>4. Ordered(Calls(o))
        <3>1. \A i \in 2..6 : Follows(Calls(o)[i - 1], Calls(o)[i])
            <4> SUFFICES ASSUME NEW i \in 2..6 PROVE Follows(Calls(o)[i - 1], Calls(o)[i])
                OBVIOUS
            <4>1. i = 2 \/ i = 3 \/ i = 4 \/ i = 5 \/ i = 6
                OBVIOUS
            <4> QED
                BY <4>1, <2>3 DEF Follows
        <3> QED
            BY <3>1, <2>2 DEF Ordered
    <2>5. \A s \in Seq(CallNames) : Len(s) = 6 => s # <<>> /\ Head(s) = s[1]
        OBVIOUS
    <2> QED
        BY <2>2, <2>3, <2>4, <2>5
<1>5. CASE o = "start"
    <2> DEFINE P == <<"open", "limit", "rate", "limit", "rate">>
               S == <<"save">>
    <2>1. Calls(o) = (P \o Launch) \o S /\ P \in Seq(CallNames) /\ Launch \in Seq(CallNames) /\ S \in Seq(CallNames)
        BY <1>5 DEF Calls, Launch, CallNames
    <2>2. /\ P \o Launch \in Seq(CallNames) /\ Len(P \o Launch) = 8
          /\ \A i \in 1..8 : (P \o Launch)[i] = IF i <= 5 THEN P[i] ELSE Launch[i - 5]
        BY <2>1, ConcatProperties DEF Launch
    <2>3. /\ Calls(o) \in Seq(CallNames) /\ Len(Calls(o)) = 9
          /\ \A i \in 1..9 : Calls(o)[i] = IF i <= 8 THEN (P \o Launch)[i] ELSE S[i - 8]
        BY <2>1, <2>2, ConcatProperties
    <2>4. /\ Calls(o)[1] = "open" /\ Calls(o)[2] = "limit" /\ Calls(o)[3] = "rate"
          /\ Calls(o)[4] = "limit" /\ Calls(o)[5] = "rate" /\ Calls(o)[6] = "spawn"
          /\ Calls(o)[7] = "assign" /\ Calls(o)[8] = "resume" /\ Calls(o)[9] = "save"
        BY <2>2, <2>3 DEF Launch
    <2>5. \A i \in 2..9 : Follows(Calls(o)[i - 1], Calls(o)[i])
        <3> SUFFICES ASSUME NEW i \in 2..9 PROVE Follows(Calls(o)[i - 1], Calls(o)[i])
            OBVIOUS
        <3>1. i = 2 \/ i = 3 \/ i = 4 \/ i = 5 \/ i = 6 \/ i = 7 \/ i = 8 \/ i = 9
            OBVIOUS
        <3> QED
            BY <3>1, <2>4 DEF Follows
    <2>6. \A s \in Seq(CallNames) : Len(s) = 9 => s # <<>> /\ Head(s) = s[1]
        OBVIOUS
    <2> QED
        BY <2>3, <2>4, <2>5, <2>6 DEF Ordered
<1> QED
    BY <1>1, <1>2, <1>3, <1>4, <1>5 DEF Operation

LEMMA TailOrdered ==
    ASSUME NEW calls \in Seq(CallNames), Ordered(calls), calls # <<>>
    PROVE  /\ Tail(calls) \in Seq(CallNames) /\ Ordered(Tail(calls))
           /\ Tail(calls) # <<>> => Follows(Head(calls), Head(Tail(calls)))
<1>1. Len(calls) \in Nat /\ Len(calls) >= 1
    OBVIOUS
<1>2. Tail(calls) \in Seq(CallNames) /\ Len(Tail(calls)) = Len(calls) - 1
    OBVIOUS
<1>3. \A i \in 1..(Len(calls) - 1) : Tail(calls)[i] = calls[i + 1]
    OBVIOUS
<1>4. Ordered(Tail(calls))
    BY <1>1, <1>2, <1>3 DEF Ordered
<1>5. ASSUME Tail(calls) # <<>> PROVE Follows(Head(calls), Head(Tail(calls)))
    <2>1. Len(calls) >= 2 /\ Head(Tail(calls)) = calls[2] /\ Head(calls) = calls[1]
        BY <1>1, <1>2, <1>3, <1>5
    <2> QED
        BY <2>1, <1>1 DEF Ordered
<1> QED
    BY <1>2, <1>4, <1>5

----------------------------------------------------------------------------
(* The invariant *)

Extended(l) == {"resources", "kill"} \subseteq l
Full(l) == Extended(l) /\ ("cpu" \in l \/ "warned" \in l)

(* A command past its first call has a handle; past "limit" and "rate", and*)
(* before its process is resumed, the limits are set; and when it is to be *)
(* resumed it has been assigned, or that has failed.                       *)
CommandInv(c) ==
    /\ Ordered(path[c])
    /\ path[c] # <<>> =>
        /\ Head(path[c]) # "open" => c \in handles
        /\ Head(path[c]) = "rate" => Extended(limits)
        /\ Head(path[c]) \in {"spawn", "assign", "resume"} => Full(limits)
        /\ Head(path[c]) = "resume" => \A p \in child[c] : process[p].job # "out"

ChildInv ==
    /\ \A c \in Clients : \A p \in child[c] : process[p].state # "none"
    /\ \A c \in Clients : \A p, q \in child[c] : p = q

ProcessInv ==
    \A p \in Procs :
        /\ process[p].state = "running" => process[p].job # "out"
        /\ Alive(p) /\ process[p].job = "in" => handles # {} /\ Full(limits)

(* JobTypeOK, but for the record, which nothing here depends on. *)
JobTypes ==
    /\ path \in [Clients -> Seq(CallNames)]
    /\ handles \subseteq Clients
    /\ child \in [Clients -> SUBSET Procs]
    /\ process \in [Procs -> [state: {"none", "suspended", "running", "exited", "killed"},
                              job: {"out", "in", "failed"}]]

JobInv ==
    /\ JobTypes
    /\ \A c \in Clients : CommandInv(c)
    /\ ChildInv
    /\ ProcessInv

LEMMA JobInitial == JobInit => JobInv
<1> SUFFICES ASSUME JobInit PROVE JobInv
    OBVIOUS
<1>1. JobTypes
    BY DEF JobInit, JobTypes, Unborn
<1>2. \A c \in Clients : CommandInv(c)
    BY DEF JobInit, CommandInv, Ordered
<1>3. ChildInv
    BY DEF JobInit, ChildInv
<1>4. ProcessInv
    BY DEF JobInit, ProcessInv, Unborn, Alive
<1> QED
    BY <1>1, <1>2, <1>3, <1>4 DEF JobInv

(* A command that has made a call goes on with the rest of them. *)
LEMMA Proceeds ==
    ASSUME JobInv, NEW c \in Clients, NEW call, At(c, call), Proceed(c)
    PROVE  /\ path' \in [Clients -> Seq(CallNames)]
           /\ \A d \in Clients : d # c => path'[d] = path[d]
           /\ Ordered(path'[c])
           /\ path'[c] # <<>> => Follows(call, Head(path'[c]))
<1>1. path \in [Clients -> Seq(CallNames)] /\ path[c] # <<>> /\ Head(path[c]) = call /\ Ordered(path[c])
    BY DEF JobInv, JobTypes, CommandInv, At
<1>2. path' = [path EXCEPT ![c] = Tail(path[c])]
    BY DEF Proceed
<1>3. path[c] \in Seq(CallNames)
    BY <1>1
<1> QED
    BY <1>1, <1>2, <1>3, TailOrdered

(* A call after "open" keeps the handle, and one after "limit" or "rate"   *)
(* what is set on the job.                                                 *)
LEMMA Continues ==
    ASSUME JobInv, NEW c \in Clients, NEW call, At(c, call), Proceed(c),
           c \in handles', handles \subseteq handles', limits \subseteq limits',
           call = "limit" => Extended(limits'),
           call = "rate" => Full(limits'),
           call # "assign", child' = child \/ call = "spawn",
           \A d \in Clients \ {c} : child'[d] = child[d],
           \A p \in Procs : process[p].job # "out" => process'[p].job # "out"
    PROVE  \A d \in Clients : CommandInv(d)'
<1>0. (Extended(limits) => Extended(limits')) /\ (Full(limits) => Full(limits'))
    BY DEF Extended, Full
<1>1. CommandInv(c)'
    <2>1. Ordered(path'[c]) /\ (path'[c] # <<>> => Follows(call, Head(path'[c])))
        BY Proceeds
    <2>2. CommandInv(c) /\ path[c] # <<>> /\ Head(path[c]) = call
        BY DEF JobInv, At
    <2>3. ASSUME path'[c] # <<>>, Head(path'[c]) \in {"spawn", "assign", "resume"} PROVE Full(limits')
        BY <1>0, <2>1, <2>2, <2>3 DEF Follows, CommandInv
    <2>4. ASSUME path'[c] # <<>> PROVE Head(path'[c]) # "resume"
        BY <2>1, <2>4 DEF Follows
    <2>5. ASSUME path'[c] # <<>>, Head(path'[c]) = "rate" PROVE Extended(limits')
        BY <2>1, <2>5 DEF Follows
    <2> QED
        BY <2>1, <2>3, <2>4, <2>5 DEF CommandInv
<1>2. ASSUME NEW d \in Clients, d # c PROVE CommandInv(d)'
    <2>1. CommandInv(d) /\ path'[d] = path[d] /\ child'[d] = child[d] /\ child[d] \subseteq Procs
        BY <1>2, Proceeds DEF JobInv, JobTypes
    <2> QED
        BY <1>0, <2>1 DEF CommandInv
<1> QED
    BY <1>1, <1>2

LEMMA SaveRemoveStep ==
    ASSUME JobInv, NEW c \in Clients, Save(c) \/ Remove(c)
    PROVE  JobInv'
<1>1. PICK call \in {"save", "remove"} : At(c, call) /\ Proceed(c) /\ UNCHANGED <<handles, limits, child, process>>
    BY DEF Save, Remove
<1>2. c \in handles
    BY <1>1 DEF JobInv, CommandInv, At
<1>3. \A d \in Clients : CommandInv(d)'
    BY <1>1, <1>2, Continues
<1>4. JobTypes'
    BY <1>1, Proceeds DEF JobInv, JobTypes
<1>5. ChildInv' /\ ProcessInv'
    BY <1>1 DEF JobInv, ChildInv, ProcessInv, Alive
<1> QED
    BY <1>3, <1>4, <1>5 DEF JobInv

LEMMA OpenStep ==
    ASSUME JobInv, NEW c \in Clients, Open(c)
    PROVE  JobInv'
<1>1. At(c, "open") /\ Proceed(c) /\ handles' = handles \cup {c} /\ UNCHANGED <<limits, child, process>>
    BY DEF Open
<1>2. \A d \in Clients : CommandInv(d)'
    BY <1>1, Continues
<1>3. JobTypes'
    BY <1>1, Proceeds DEF JobInv, JobTypes
<1>4. ChildInv' /\ ProcessInv'
    BY <1>1 DEF JobInv, ChildInv, ProcessInv, Alive
<1> QED
    BY <1>2, <1>3, <1>4 DEF JobInv

LEMMA LimitStep ==
    ASSUME JobInv, NEW c \in Clients, SetExtendedLimits(c) \/ SetCpuRate(c)
    PROVE  JobInv'
<1>1. PICK call \in {"limit", "rate"} :
        /\ At(c, call) /\ Proceed(c) /\ UNCHANGED <<handles, child, process>>
        /\ limits \subseteq limits'
        /\ call = "limit" => Extended(limits')
        /\ call = "rate" => "cpu" \in limits' \/ "warned" \in limits'
    BY DEF SetExtendedLimits, SetCpuRate, Extended
<1>2. c \in handles /\ (call = "rate" => Extended(limits))
    BY <1>1 DEF JobInv, CommandInv, At
<1>3. call = "rate" => Full(limits')
    BY <1>1, <1>2 DEF Full, Extended
<1>4. \A d \in Clients : CommandInv(d)'
    BY <1>1, <1>2, <1>3, Continues
<1>5. JobTypes'
    BY <1>1, Proceeds DEF JobInv, JobTypes
<1>6. Full(limits) => Full(limits')
    BY <1>1 DEF Full, Extended
<1>7. ChildInv' /\ ProcessInv'
    BY <1>1, <1>6 DEF JobInv, ChildInv, ProcessInv, Alive
<1> QED
    BY <1>4, <1>5, <1>7 DEF JobInv

LEMMA SpawnStep ==
    ASSUME JobInv, NEW c \in Clients, NEW p \in Procs, CreateSuspended(c, p)
    PROVE  JobInv'
<1>1. /\ At(c, "spawn") /\ Proceed(c) /\ process[p] = Unborn
      /\ child' = [child EXCEPT ![c] = {p}]
      /\ process' = [process EXCEPT ![p].state = "suspended"]
      /\ UNCHANGED <<handles, limits>>
    BY DEF CreateSuspended
<1>2. JobTypes
    BY DEF JobInv
<1>3. /\ process'[p].state = "suspended" /\ process'[p].job = "out"
      /\ \A q \in Procs : q # p => process'[q] = process[q]
    BY <1>1, <1>2 DEF JobTypes, Unborn
<1>4. c \in handles
    BY <1>1 DEF JobInv, CommandInv, At
<1>5. process[p].job = "out" /\ process[p].state = "none"
    BY <1>1 DEF Unborn
<1>6. \A q \in Procs : process[q].job # "out" => process'[q].job # "out"
    BY <1>3, <1>5
<1>7. \A d \in Clients \ {c} : child'[d] = child[d]
    BY <1>1, <1>2 DEF JobTypes
<1>8. \A d \in Clients : CommandInv(d)'
    BY <1>1, <1>4, <1>6, <1>7, Continues
<1>9. JobTypes'
    BY <1>1, <1>2, Proceeds DEF JobTypes
<1>10. ChildInv'
    <2>1. child'[c] = {p}
        BY <1>1, <1>2 DEF JobTypes
    <2>2. \A d \in Clients : child'[d] \subseteq Procs
        BY <1>9 DEF JobTypes
    <2> QED
        BY <1>3, <1>7, <2>1, <2>2 DEF JobInv, ChildInv
<1>11. ProcessInv'
    BY <1>1, <1>3 DEF JobInv, ProcessInv, Alive
<1> QED
    BY <1>8, <1>9, <1>10, <1>11 DEF JobInv

LEMMA AssignStep ==
    ASSUME JobInv, NEW c \in Clients, Assign(c)
    PROVE  JobInv'
<1>1. PICK into \in {"in", "failed"}, p \in child[c] : process' = [process EXCEPT ![p].job = into]
    BY DEF Assign
<1>2. At(c, "assign") /\ Proceed(c) /\ UNCHANGED <<handles, limits, child>>
    BY DEF Assign
<1>3. JobTypes /\ child[c] = {p} /\ p \in Procs
    BY <1>1 DEF JobInv, JobTypes, ChildInv
<1>4. /\ process'[p].state = process[p].state /\ process'[p].job = into
      /\ \A q \in Procs : q # p => process'[q] = process[q]
    BY <1>1, <1>3 DEF JobTypes
<1>5. c \in handles /\ Full(limits)
    BY <1>2 DEF JobInv, CommandInv, At
<1>6. CommandInv(c)'
    <2>1. Ordered(path'[c]) /\ (path'[c] # <<>> => Follows("assign", Head(path'[c])))
        BY <1>2, Proceeds
    <2>2. path'[c] # <<>> => Head(path'[c]) # "rate"
        BY <2>1 DEF Follows
    <2>3. \A q \in child'[c] : process'[q].job # "out"
        BY <1>2, <1>3, <1>4
    <2> QED
        BY <1>2, <1>5, <2>1, <2>2, <2>3 DEF CommandInv
<1>7. ASSUME NEW d \in Clients, d # c PROVE CommandInv(d)'
    <2>1. CommandInv(d) /\ path'[d] = path[d] /\ child'[d] = child[d] /\ child[d] \subseteq Procs
        BY <1>2, <1>3, <1>7, Proceeds DEF JobInv, JobTypes
    <2>2. \A q \in child[d] : process[q].job # "out" => process'[q].job # "out"
        BY <1>4, <2>1
    <2> QED
        BY <1>2, <2>1, <2>2 DEF CommandInv
<1>8. JobTypes'
    BY <1>1, <1>2, <1>3, Proceeds DEF JobTypes
<1>9. ChildInv'
    <2>1. child' = child /\ child \in [Clients -> SUBSET Procs]
        BY <1>2, <1>3 DEF JobTypes
    <2>2. \A q \in Procs : process[q].state # "none" => process'[q].state # "none"
        BY <1>4
    <2> QED
        BY <2>1, <2>2 DEF JobInv, ChildInv
<1>10. ProcessInv'
    BY <1>2, <1>4, <1>5 DEF JobInv, ProcessInv, Alive
<1> QED
    BY <1>6, <1>7, <1>8, <1>9, <1>10 DEF JobInv

LEMMA ResumeStep ==
    ASSUME JobInv, NEW c \in Clients, Resume(c)
    PROVE  JobInv'
<1>1. PICK p \in child[c] :
        process' = [process EXCEPT ![p].state = IF @ = "suspended" THEN "running" ELSE @]
    BY DEF Resume
<1>2. At(c, "resume") /\ Proceed(c) /\ UNCHANGED <<handles, limits, child>>
    BY DEF Resume
<1>3. JobTypes /\ p \in Procs
    BY <1>1 DEF JobInv, JobTypes
<1>4. /\ process'[p].state = IF process[p].state = "suspended" THEN "running" ELSE process[p].state
      /\ process'[p].job = process[p].job
      /\ \A q \in Procs : q # p => process'[q] = process[q]
    BY <1>1, <1>3 DEF JobTypes
<1>5. c \in handles /\ process[p].job # "out"
    BY <1>1, <1>2 DEF JobInv, CommandInv, At
<1>6. \A d \in Clients : CommandInv(d)'
    BY <1>2, <1>4, <1>5, Continues
<1>7. JobTypes'
    BY <1>1, <1>2, <1>3, Proceeds DEF JobTypes
<1>8. ChildInv'
    <2>1. \A q \in Procs : process[q].state # "none" => process'[q].state # "none"
        BY <1>4
    <2>2. child' = child /\ \A d \in Clients : child[d] \subseteq Procs
        BY <1>2, <1>3 DEF JobTypes
    <2> QED
        BY <2>1, <2>2 DEF JobInv, ChildInv
<1>9. ProcessInv'
    BY <1>2, <1>4, <1>5 DEF JobInv, ProcessInv, Alive
<1> QED
    BY <1>6, <1>7, <1>8, <1>9 DEF JobInv

(* What a job kills when it ends, or when it is told to. *)
LEMMA KilledProcesses ==
    ASSUME JobInv, NEW job \in BOOLEAN, process' = KilledWith(job)
    PROVE  /\ process' \in [Procs -> [state: {"none", "suspended", "running", "exited", "killed"},
                                      job: {"out", "in", "failed"}]]
           /\ \A p \in Procs :
                /\ process'[p].job = process[p].job
                /\ process'[p].state \in {process[p].state, "killed"}
                /\ job /\ Alive(p) /\ process[p].job = "in" => process'[p].state = "killed"
BY DEF JobInv, JobTypes, KilledWith

LEMMA TerminateStep ==
    ASSUME JobInv, NEW c \in Clients, Terminate(c)
    PROVE  JobInv'
<1>1. At(c, "terminate") /\ Proceed(c) /\ process' = KilledWith(TRUE) /\ UNCHANGED <<handles, limits, child>>
    BY DEF Terminate
<1>2. c \in handles
    BY <1>1 DEF JobInv, CommandInv, At
<1>3. \A p \in Procs : process'[p].job = process[p].job /\ process'[p].state \in {process[p].state, "killed"}
    BY <1>1, KilledProcesses
<1>4. \A d \in Clients : CommandInv(d)'
    BY <1>1, <1>2, <1>3, Continues
<1>5. JobTypes'
    BY <1>1, KilledProcesses, Proceeds DEF JobInv, JobTypes
<1>6. ChildInv'
    BY <1>1, <1>3 DEF JobInv, JobTypes, ChildInv
<1>7. ProcessInv'
    BY <1>1, <1>3 DEF JobInv, ProcessInv, Alive
<1> QED
    BY <1>4, <1>5, <1>6, <1>7 DEF JobInv

(* The last handle that closes takes what is in the job with it. *)
LEMMA EndStep ==
    ASSUME JobInv, NEW c \in Clients, NEW how, End(c, how)
    PROVE  JobInv'
<1> DEFINE job == "kill" \in limits /\ c \in handles /\ handles' = {}
<1>1. /\ path' = [path EXCEPT ![c] = <<>>] /\ child' = [child EXCEPT ![c] = {}]
      /\ handles' = handles \ {c} /\ limits' = (IF handles' = {} THEN {} ELSE limits)
      /\ process' = KilledWith(job)
    BY DEF End, Close
<1>2. JobTypes
    BY DEF JobInv
<1>3. /\ process' \in [Procs -> [state: {"none", "suspended", "running", "exited", "killed"},
                                 job: {"out", "in", "failed"}]]
      /\ \A p \in Procs :
           /\ process'[p].job = process[p].job
           /\ process'[p].state \in {process[p].state, "killed"}
           /\ job /\ Alive(p) /\ process[p].job = "in" => process'[p].state = "killed"
    <2> HIDE DEF job
    <2>1. job \in BOOLEAN
        BY DEF job
    <2> QED
        BY <1>1, <2>1, KilledProcesses
<1>4. JobTypes'
    BY <1>1, <1>2, <1>3 DEF JobTypes
<1>5. CommandInv(c)'
    BY <1>1, <1>2 DEF CommandInv, JobTypes, Ordered
<1>6. ASSUME NEW d \in Clients, d # c PROVE CommandInv(d)'
    <2>1. CommandInv(d) /\ path'[d] = path[d] /\ child'[d] = child[d] /\ child[d] \subseteq Procs
        BY <1>1, <1>2, <1>6 DEF JobInv, JobTypes
    <2>2. d \in handles => d \in handles' /\ limits' = limits
        BY <1>1, <1>6
    <2> QED
        BY <1>3, <2>1, <2>2 DEF CommandInv
<1>7. ChildInv'
    <2>1. child'[c] = {} /\ \A d \in Clients \ {c} : child'[d] = child[d]
        BY <1>1, <1>2 DEF JobTypes
    <2> QED
        BY <1>2, <1>3, <2>1 DEF JobInv, ChildInv, JobTypes
<1>8. ProcessInv'
    <2> SUFFICES ASSUME NEW p \in Procs
                 PROVE  /\ process'[p].state = "running" => process'[p].job # "out"
                        /\ process'[p].state \in {"suspended", "running"} /\ process'[p].job = "in"
                             => handles' # {} /\ Full(limits')
        BY DEF ProcessInv, Alive
    <2>1. process'[p].state = "running" => process'[p].job # "out"
        BY <1>3 DEF JobInv, ProcessInv
    <2>2. ASSUME process'[p].state \in {"suspended", "running"}, process'[p].job = "in"
          PROVE  handles' # {} /\ Full(limits')
        <3>1. Alive(p) /\ process[p].job = "in"
            BY <1>3, <2>2 DEF Alive
        <3>2. handles # {} /\ Full(limits)
            BY <3>1 DEF JobInv, ProcessInv
        <3>3. handles' # {}
            BY <1>1, <1>3, <2>2, <3>1, <3>2 DEF Full, Extended
        <3> QED
            BY <1>1, <3>2, <3>3
    <2> QED
        BY <2>1, <2>2
<1> QED
    BY <1>4, <1>5, <1>6, <1>7, <1>8 DEF JobInv

LEMMA InvokeStep ==
    ASSUME JobInv, NEW c \in Clients, NEW o \in Operation, Invoke(c, o)
    PROVE  JobInv'
<1>1. path' = [path EXCEPT ![c] = Calls(o)] /\ UNCHANGED <<handles, limits, child, process>>
    BY DEF Invoke
<1>2. JobTypes
    BY DEF JobInv
<1>3. path'[c] = Calls(o) /\ \A d \in Clients : d # c => path'[d] = path[d]
    BY <1>1, <1>2 DEF JobTypes
<1>4. CommandInv(c)'
    BY <1>3, CallsOrdered DEF CommandInv
<1>5. ASSUME NEW d \in Clients, d # c PROVE CommandInv(d)'
    BY <1>1, <1>3, <1>5 DEF JobInv, CommandInv
<1>6. JobTypes'
    BY <1>1, <1>2, CallsOrdered DEF JobTypes
<1>7. ChildInv' /\ ProcessInv'
    BY <1>1 DEF JobInv, ChildInv, ProcessInv, Alive
<1> QED
    BY <1>4, <1>5, <1>6, <1>7 DEF JobInv

(* Steps of the processes: none gets out of its job. *)
LEMMA ProcessStep ==
    ASSUME JobInv, NEW p \in Procs, NEW q \in Procs, HasChild(p, q) \/ ProcessExits(p)
    PROVE  JobInv'
<1>1. JobTypes /\ UNCHANGED <<path, handles, limits, child>>
    BY DEF JobInv, HasChild, ProcessExits
<1>2. /\ JobTypes'
      /\ \A r \in Procs :
            /\ process[r].job # "out" => process'[r].job # "out"
            /\ process[r].state # "none" => process'[r].state # "none"
            /\ process'[r].state = "running" => process'[r].job # "out"
            /\ Alive(r)' /\ process'[r].job = "in" => handles # {} /\ Full(limits)
    <2>1. CASE HasChild(p, q)
        <3>1. process[p].state = "running" /\ process[q].state = "none" /\ process'[q] = process[p]
              /\ \A r \in Procs : r # q => process'[r] = process[r]
            BY <1>1, <2>1 DEF HasChild, JobTypes
        <3>2. process[q].job \in {"out", "in", "failed"} /\ process[p].job # "out"
              /\ (process[p].job = "in" => handles # {} /\ Full(limits))
            BY <1>1, <3>1 DEF JobInv, ProcessInv, Alive, JobTypes
        <3>3. JobTypes'
            BY <1>1, <2>1 DEF HasChild, JobTypes
        <3> QED
            BY <3>1, <3>2, <3>3 DEF JobInv, ProcessInv, Alive
    <2>2. CASE ProcessExits(p)
        <3>1. process[p].state = "running" /\ process'[p].state = "exited" /\ process'[p].job = process[p].job
              /\ \A r \in Procs : r # p => process'[r] = process[r]
            BY <1>1, <2>2 DEF ProcessExits, JobTypes
        <3>2. JobTypes'
            BY <1>1, <2>2 DEF ProcessExits, JobTypes
        <3> QED
            BY <3>1, <3>2 DEF JobInv, ProcessInv, Alive
    <2> QED
        BY <2>1, <2>2
<1>3. ASSUME NEW c \in Clients PROVE CommandInv(c)'
    <2>1. CommandInv(c) /\ child[c] \subseteq Procs
        BY <1>1 DEF JobInv, JobTypes
    <2> QED
        BY <1>1, <1>2, <2>1 DEF CommandInv
<1>4. ChildInv'
    BY <1>1, <1>2 DEF JobInv, ChildInv, JobTypes
<1>5. ProcessInv'
    BY <1>1, <1>2 DEF ProcessInv
<1> QED
    BY <1>2, <1>3, <1>4, <1>5 DEF JobInv

LEMMA JobStep ==
    ASSUME JobInv, [JobNext]_jobVars
    PROVE  JobInv'
<1>1. CASE UNCHANGED jobVars
    <2>1. UNCHANGED <<path, handles, limits, child, process>>
        BY <1>1 DEF jobVars
    <2>2. JobTypes' /\ ChildInv' /\ ProcessInv'
        BY <2>1 DEF JobInv, JobTypes, ChildInv, ProcessInv, Alive
    <2>3. \A c \in Clients : CommandInv(c)'
        BY <2>1 DEF JobInv, CommandInv
    <2> QED
        BY <2>2, <2>3 DEF JobInv
<1>2. ASSUME NEW c \in Clients, NEW o \in Operation, Invoke(c, o) PROVE JobInv'
    BY <1>2, InvokeStep
<1>3. ASSUME NEW c \in Clients,
             Open(c) \/ SetExtendedLimits(c) \/ SetCpuRate(c) \/ Assign(c) \/ Resume(c)
                 \/ Terminate(c) \/ Save(c) \/ Remove(c)
      PROVE  JobInv'
    BY <1>3, OpenStep, LimitStep, AssignStep, ResumeStep, TerminateStep, SaveRemoveStep
<1>4. ASSUME NEW c \in Clients, NEW p \in Procs, CreateSuspended(c, p) PROVE JobInv'
    BY <1>4, SpawnStep
<1>5. ASSUME NEW c \in Clients, NEW how, End(c, how) PROVE JobInv'
    BY <1>5, EndStep
<1>6. ASSUME NEW p \in Procs, NEW q \in Procs, HasChild(p, q) \/ ProcessExits(p) PROVE JobInv'
    BY <1>6, ProcessStep
<1> QED
    BY <1>1, <1>2, <1>3, <1>4, <1>5, <1>6 DEF JobNext

LEMMA JobAlways == Windows => []JobInv
BY JobInitial, JobStep, OneAtATime, PTL DEF Windows, Sessions

(* set_limits and spawn_sandboxed_process: a process of the container, or a*)
(* child of it, runs only in the job and under all of its limits, however  *)
(* many commands open and close the job meanwhile, unless a warning says   *)
(* that the assignment, or the cpu rate, was refused.                      *)
THEOREM AlwaysLimited == Windows => []RunsLimited
<1>1. JobInv => RunsLimited
    BY DEF JobInv, ProcessInv, Alive, RunsLimited, Full, Extended
<1> QED
    BY <1>1, JobAlways, PTL

(* JobObject::set_limits and Drop: when the last command that holds the job*)
(* is gone, nothing that ever ran in it lives on, however commands have    *)
(* overlapped or been killed.                                              *)
THEOREM NoneOutlives == Windows => []NothingOutlives
<1>1. JobInv => NothingOutlives
    <2> SUFFICES ASSUME JobInv, handles = {}, NEW p \in Procs, Alive(p)
                 PROVE  process[p].job = "failed" \/ process[p].state = "suspended"
        BY DEF NothingOutlives
    <2>1. process[p].job \in {"out", "in", "failed"} /\ process[p].job # "in"
        BY DEF JobInv, JobTypes, ProcessInv
    <2> QED
        BY <2>1 DEF JobInv, ProcessInv, Alive
<1> QED
    BY <1>1, JobAlways, PTL

----------------------------------------------------------------------------
(* The types *)

HeldTypes == held \subseteq Resources /\ todo \in Seq(Resources)

LEMMA HeldTyped ==
    ASSUME HeldTypes, [Next]_vars
    PROVE  HeldTypes'
<1> USE DEF HeldTypes
<1>1. ASSUME NEW how, Return(how), held' = held PROVE HeldTypes'
    <2>1. \/ Release(step) = <<>>
          \/ Release(step) = <<"partition">>
          \/ Release(step) = <<"memory", "partition">>
          \/ Release(step) = <<"mapping", "memory", "partition">>
          \/ Release(step) = Drop
        BY DEF Release
    <2>2. {"partition", "memory", "mapping", "processor"} = Resources
        BY DEF Resources
    <2>3. /\ <<>> \in Seq(Resources) /\ <<"partition">> \in Seq(Resources)
          /\ <<"memory", "partition">> \in Seq(Resources)
          /\ <<"mapping", "memory", "partition">> \in Seq(Resources)
          /\ Drop \in Seq(Resources)
        BY <2>2 DEF Drop
    <2>4. Release(step) \in Seq(Resources)
        BY <2>1, <2>3, Zenon
    <2> QED
        BY <1>1, <2>4 DEF Return
<1>2. CASE Create
    BY <1>2 DEF Create
<1>3. CASE Write \/ SetRegisters \/ Handle \/ AdvanceRip
    BY <1>3 DEF Write, SetRegisters, Handle, Handling, AdvanceRip
<1>4. CASE Fail \/ Stop
    BY <1>1, <1>4 DEF Fail, Stop
<1>5. CASE Free
    BY <1>5 DEF Free
<1>6. CASE Finish
    BY <1>6 DEF Finish
<1>7. CASE UNCHANGED vars
    BY <1>7 DEF vars
<1> QED
    BY <1>2, <1>3, <1>4, <1>5, <1>6, <1>7 DEF Next

(* Only create, start and stop save a state, and only one that a container *)
(* can be in.                                                              *)
Saves(c) == \E i \in 1..Len(path[c]) : path[c][i] = "save"

Settings == {"resources", "kill", "cpu", "warned"}

RecordInv ==
    /\ record \in {"absent", "created", "running", "stopped"}
    /\ op \in [Clients -> Operation \union {"none"}]
    /\ limits \subseteq Settings
    /\ \A c \in Clients : Saves(c) => op[c] \in {"create", "start", "stop"}

LEMMA CallsSave ==
    ASSUME NEW o \in {"exec", "delete"}, NEW i \in 1..Len(Calls(o))
    PROVE  Calls(o)[i] # "save"
<1>1. CASE o = "delete"
    BY <1>1 DEF Calls
<1>2. CASE o = "exec"
    <2> DEFINE P == <<"open", "limit", "rate">>
    <2>1. Calls(o) = P \o Launch /\ P \in Seq(CallNames) /\ Launch \in Seq(CallNames)
        BY <1>2 DEF Calls, Launch, CallNames
    <2>2. /\ Len(Calls(o)) = 6
          /\ \A k \in 1..6 : Calls(o)[k] = IF k <= 3 THEN P[k] ELSE Launch[k - 3]
        BY <2>1, ConcatProperties DEF Launch
    <2> QED
        BY <2>2 DEF Launch
<1> QED
    BY <1>1, <1>2

(* A command that goes on saves nothing that it would not have saved. *)
LEMMA RecordProceeds ==
    ASSUME JobInv, RecordInv, NEW c \in Clients, path[c] # <<>>, Proceed(c), op' = op,
           limits' \subseteq Settings,
           record' = record \/ (record' = Saved(op[c]) /\ Head(path[c]) = "save") \/ record' = "absent"
    PROVE  RecordInv'
<1>1. path \in [Clients -> Seq(CallNames)] /\ path' = [path EXCEPT ![c] = Tail(path[c])]
    BY DEF JobInv, JobTypes, Proceed
<1>2. path[c] \in Seq(CallNames) /\ path'[c] = Tail(path[c]) /\ \A d \in Clients \ {c} : path'[d] = path[d]
    BY <1>1
<1>3. /\ Len(path'[c]) = Len(path[c]) - 1 /\ Len(path[c]) \in Nat
      /\ \A i \in 1..Len(path'[c]) : path'[c][i] = path[c][i + 1]
    BY <1>2
<1>4. Saves(c)' => Saves(c)
    BY <1>3 DEF Saves
<1>5. \A d \in Clients \ {c} : Saves(d)' => Saves(d)
    BY <1>2 DEF Saves
<1>6. record' \in {"absent", "created", "running", "stopped"}
    <2>1. ASSUME Head(path[c]) = "save" PROVE Saves(c)
        BY <1>2, <2>1 DEF Saves
    <2>2. ASSUME op[c] \in {"create", "start", "stop"} PROVE Saved(op[c]) \in {"created", "running", "stopped"}
        BY <2>2 DEF Saved
    <2> QED
        BY <2>1, <2>2 DEF RecordInv
<1> QED
    BY <1>4, <1>5, <1>6 DEF RecordInv

LEMMA RecordStep ==
    ASSUME JobInv, RecordInv, [JobNext]_jobVars
    PROVE  RecordInv'
<1>1. CASE UNCHANGED jobVars
    BY <1>1 DEF jobVars, RecordInv, Saves
<1>2. ASSUME NEW c \in Clients, NEW o \in Operation, Invoke(c, o) PROVE RecordInv'
    <2>1. path' = [path EXCEPT ![c] = Calls(o)] /\ op' = [op EXCEPT ![c] = o] /\ UNCHANGED <<record, limits>>
        BY <1>2 DEF Invoke
    <2>2. path \in [Clients -> Seq(CallNames)]
        BY DEF JobInv, JobTypes
    <2>3. op'[c] = o /\ path'[c] = Calls(o)
        BY <2>1, <2>2 DEF RecordInv
    <2>4. Saves(c)' => op'[c] \in {"create", "start", "stop"}
        BY <2>3, CallsSave DEF Saves, Operation
    <2>5. ASSUME NEW d \in Clients, d # c, Saves(d)' PROVE op'[d] \in {"create", "start", "stop"}
        <3>1. path'[d] = path[d] /\ op'[d] = op[d]
            BY <2>1, <2>2, <2>5 DEF RecordInv
        <3> QED
            BY <2>5, <3>1 DEF RecordInv, Saves
    <2> QED
        BY <2>1, <2>4, <2>5 DEF RecordInv
<1>3. ASSUME NEW c \in Clients, Open(c) \/ Assign(c) \/ Resume(c) \/ Terminate(c)
             \/ SetExtendedLimits(c) \/ SetCpuRate(c) PROVE RecordInv'
    <2>1. path[c] # <<>> /\ Proceed(c) /\ op' = op /\ record' = record /\ limits' \subseteq Settings
        BY <1>3 DEF Open, Assign, Resume, Terminate, SetExtendedLimits, SetCpuRate, At, RecordInv, Settings
    <2> QED
        BY <2>1, RecordProceeds
<1>4. ASSUME NEW c \in Clients, NEW p \in Procs, CreateSuspended(c, p) PROVE RecordInv'
    <2>1. path[c] # <<>> /\ Proceed(c) /\ op' = op /\ record' = record /\ limits' \subseteq Settings
        BY <1>4 DEF CreateSuspended, At, RecordInv
    <2> QED
        BY <2>1, RecordProceeds
<1>5. ASSUME NEW c \in Clients, Save(c) \/ Remove(c) PROVE RecordInv'
    <2>1. /\ path[c] # <<>> /\ Proceed(c) /\ op' = op /\ limits' \subseteq Settings
          /\ (record' = Saved(op[c]) /\ Head(path[c]) = "save") \/ record' = "absent"
        BY <1>5 DEF Save, Remove, At, RecordInv
    <2> QED
        BY <2>1, RecordProceeds
<1>6. ASSUME NEW c \in Clients, NEW how, End(c, how) PROVE RecordInv'
    <2>1. /\ path' = [path EXCEPT ![c] = <<>>] /\ op' = [op EXCEPT ![c] = "none"]
          /\ record' = record /\ limits' \subseteq limits
        BY <1>6 DEF End, Close
    <2>2. path \in [Clients -> Seq(CallNames)]
        BY DEF JobInv, JobTypes
    <2>3. ~Saves(c)'
        BY <2>1, <2>2 DEF Saves
    <2>4. ASSUME NEW d \in Clients, d # c, Saves(d)' PROVE op'[d] \in {"create", "start", "stop"}
        <3>1. path'[d] = path[d] /\ op'[d] = op[d]
            BY <2>1, <2>2, <2>4 DEF RecordInv
        <3> QED
            BY <2>4, <3>1 DEF RecordInv, Saves
    <2> QED
        BY <2>1, <2>3, <2>4 DEF RecordInv
<1>7. ASSUME NEW p \in Procs, NEW q \in Procs, HasChild(p, q) \/ ProcessExits(p) PROVE RecordInv'
    BY <1>7 DEF HasChild, ProcessExits, RecordInv, Saves
<1> QED
    BY <1>1, <1>2, <1>3, <1>4, <1>5, <1>6, <1>7 DEF JobNext

LEMMA RecordInit == JobInit => RecordInv
BY DEF JobInit, RecordInv, Saves

(* The Windows backend: vm-boot and the container commands keep their      *)
(* state within what the model gives them; in particular a record is never *)
(* saved with a state that is none.                                        *)
THEOREM WindowsTypes == Windows => []WindowsTypeOK
<1>1. Windows => []HeldTypes
    <2>1. Sessions => held = {} /\ todo = <<>>
        BY DEF Sessions, Init, Resting
    <2>2. Sessions => HeldTypes
        BY <2>1 DEF HeldTypes
    <2> QED
        BY <2>2, HeldTyped, OneAtATime, PTL DEF Windows
<1>2. Windows => []RecordInv
    <2>1. Windows => []JobInv
        BY JobAlways
    <2> QED
        BY <2>1, RecordInit, RecordStep, OneAtATime, PTL DEF Windows, Sessions
<1>3. HeldTypes /\ ImageInv /\ OutputInv => TypeOK
    <2> SUFFICES ASSUME HeldTypes, ImageInv, OutputInv PROVE TypeOK
        OBVIOUS
    <2>1. rip \in 0..MaxExits
        BY ProgramIs, SizesAssumption DEF OutputInv
    <2> QED
        BY <2>1 DEF HeldTypes, ImageInv, OutputInv, TypeOK
<1>4. JobInv /\ RecordInv => JobTypeOK
    BY DEF JobInv, JobTypes, RecordInv, Settings, JobTypeOK
<1> QED
    BY <1>1, <1>2, <1>3, <1>4, ImageAlways, OutputAlways, JobAlways, PTL DEF WindowsTypeOK

=============================================================================
