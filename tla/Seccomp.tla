------------------------------ MODULE Seccomp ------------------------------
(***************************************************************************)
(* The filter that apply_seccomp_filter (platform/linux/seccomp.rs) builds *)
(* for a list of blocked system calls, and the machine in the kernel that  *)
(* runs it for each call of the command: one step per instruction.         *)
(***************************************************************************)
EXTENDS Integers, Sequences

CONSTANTS
    Blocked,    \* BLOCKED_SYSCALLS
    Offsets,    \* jump offsets are kept modulo this: they are of type u8
    Numbers     \* the numbers of system calls

ASSUME BlockedAssumption ==
    /\ Numbers \subseteq Nat
    /\ Blocked \in Seq(Numbers)
    /\ Offsets \in Nat /\ Len(Blocked) < Offsets

VARIABLES
    call,       \* the system call: its architecture and its number
    pc,         \* the instruction that comes next, counted from 0
    acc,        \* the accumulator
    verdict     \* "none" while the filter runs

filterVars == <<call, pc, acc, verdict>>

Architecture == {"x86_64", "other"}
Calls == [arch: Architecture, nr: Numbers]

----------------------------------------------------------------------------
(* The filter *)

Load(field) == [code |-> "load", field |-> field]
Equal(k, jt) == [code |-> "equal", k |-> k, jt |-> jt]
Ret(value) == [code |-> "return", value |-> value]

Prologue == <<Load("arch"), Equal("x86_64", 1), Ret("kill"), Load("nr")>>

(* Fault: the offset counts from the test itself. *)
OneTooFar(i) == Equal(Blocked[i + 1], (Len(Blocked) - i + 1) % Offsets)

(* The test for the blocked call at position i, counted from 0, jumps over *)
(* the tests that follow and over the return after them.                   *)
Test(i) == Equal(Blocked[i + 1], (Len(Blocked) - i) % Offsets)

Filter ==
    [p \in 0..(Len(Blocked) + 5) |->
        IF p < 4 THEN Prologue[p + 1]
        ELSE IF p < Len(Blocked) + 4 THEN Test(p - 4)
        ELSE IF p = Len(Blocked) + 4 THEN Ret("allow") ELSE Ret("errno")]

----------------------------------------------------------------------------
(* The machine *)

FilterInit ==
    /\ call \in Calls
    /\ pc = 0 /\ acc = 0
    /\ verdict = "none"

Insn == Filter[pc]
Running(code) == verdict = "none" /\ Insn.code = code

LoadField ==
    /\ Running("load")
    /\ acc' = call[Insn.field]
    /\ pc' = pc + 1
    /\ UNCHANGED <<call, verdict>>

Jump ==
    /\ Running("equal")
    /\ pc' = pc + 1 + IF acc = Insn.k THEN Insn.jt ELSE 0
    /\ UNCHANGED <<call, acc, verdict>>

Decide ==
    /\ Running("return")
    /\ verdict' = Insn.value
    /\ UNCHANGED <<call, pc, acc>>

Filtering == LoadField \/ Jump \/ Decide

(* The next system call. *)
Enter ==
    /\ verdict # "none"
    /\ call' \in Calls
    /\ pc' = 0 /\ acc' = 0
    /\ verdict' = "none"

FilterSpec == FilterInit /\ [][Filtering \/ Enter]_filterVars

----------------------------------------------------------------------------
(* Properties *)

IsBlocked(nr) == \E i \in 1..Len(Blocked) : Blocked[i] = nr

(* The filter lets through what is not on the list, refuses with EPERM     *)
(* what is on it, wherever it stands there, kills a caller of another      *)
(* architecture, and never leaves the program.                             *)
FilterRight ==
    /\ verdict = "none" => pc \in DOMAIN Filter
    /\ verdict = "allow" => call.arch = "x86_64" /\ ~IsBlocked(call.nr)
    /\ verdict = "errno" => call.arch = "x86_64" /\ IsBlocked(call.nr)
    /\ verdict = "kill" => call.arch # "x86_64"

(* Where in the filter a call can be, knowing what has been tested.        *)
FilterInv ==
    /\ call \in Calls
    /\ pc \in 0..(Len(Blocked) + 5)
    /\ pc = 1 => acc = call.arch
    /\ pc = 2 => call.arch # "x86_64"
    /\ pc > 2 => call.arch = "x86_64"
    /\ pc \in 4..(Len(Blocked) + 4) =>
        /\ acc = call.nr
        /\ \A i \in 1..(pc - 4) : Blocked[i] # call.nr
    /\ pc = Len(Blocked) + 5 => IsBlocked(call.nr)
    /\ verdict = "kill" => pc = 2
    /\ verdict = "allow" => pc = Len(Blocked) + 4
    /\ verdict = "errno" => pc = Len(Blocked) + 5
    /\ verdict \in {"none", "kill", "allow", "errno"}

=============================================================================
