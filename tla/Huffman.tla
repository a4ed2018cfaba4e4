------------------------------ MODULE Huffman -------------------------------
(***************************************************************************)
(* HuffmanTree of gzip.rs: the tables that from_lengths computes from the  *)
(* code lengths of an alphabet, and decode, which takes a code bit by bit. *)
(* Symbols are counted from 0: L[s + 1] is the length of the code of s.    *)
(***************************************************************************)
EXTENDS Integers, Sequences, FiniteSets, FiniteSetsExt

MaxBits == 16

(* Those that have a code of b bits, and the same in ascending order: the  *)
(* ith has i - 1 before it.                                                *)
Coded(L, b) == { s \in 0..(Len(L) - 1) : L[s + 1] = b }
OfLength(L, b) ==
    [i \in 1..Cardinality(Coded(L, b)) |->
        CHOOSE s \in Coded(L, b) : Cardinality({ t \in Coded(L, b) : t < s }) = i - 1]
Counts(L) == [b \in 0..MaxBits |-> IF b = 0 THEN 0 ELSE Cardinality(Coded(L, b))]

(* How many symbols have a shorter code. *)
Shorter(counts) ==
    LET shorter[b \in 0..MaxBits] == IF b = 0 THEN 0 ELSE shorter[b - 1] + counts[b - 1]
    IN  shorter

(* The first code of each length. *)
FirstCodes(counts) ==
    LET code[b \in 0..MaxBits] == IF b = 0 THEN 0 ELSE 2 * (code[b - 1] + counts[b - 1])
    IN  code

(* The symbols are listed by length, and in ascending order within one, so *)
(* that the place of a symbol is its code plus the offset of its length.   *)
(* Offsets are kept modulo 2^32, but the sum of the two is a place again.  *)
(* (The sums wrap in a release build; with overflow checks they panic.)    *)
FromLengths(L) ==
    LET counts == Counts(L)
        first == FirstCodes(counts)
        shorter == Shorter(counts)
        listed[b \in 0..MaxBits] == IF b = 0 THEN <<>> ELSE listed[b - 1] \o OfLength(L, b)
    IN  [ min |-> first,
          max |-> [b \in 1..MaxBits |-> IF counts[b] > 0 THEN first[b] + counts[b] - 1 ELSE -1],
          offset |-> [b \in 1..MaxBits |-> shorter[b] - first[b]],
          symbols |-> listed[MaxBits] ]

(* The number that the first b bits make, the first of them being the most *)
(* significant.                                                            *)
Code(bits, b) ==
    LET code[i \in 0..b] == IF i = 0 THEN 0 ELSE 2 * code[i - 1] + bits[i]
    IN  code[b]

(* The symbol at the beginning of a sequence of bits and how many bits it  *)
(* takes, or what is wrong.                                                *)
Decode(tree, bits) ==
    LET place(b) == tree.offset[b] + Code(bits, b)
        found(b) == /\ tree.max[b] >= 0
                    /\ Code(bits, b) \in tree.min[b]..tree.max[b]
                    /\ place(b) < Len(tree.symbols)
        lengths == { b \in 1..Min({MaxBits, Len(bits)}) : found(b) }
    IN  IF lengths # {}
        THEN [what |-> "symbol", symbol |-> tree.symbols[place(Min(lengths)) + 1], size |-> Min(lengths)]
        ELSE [what |-> IF Len(bits) >= MaxBits THEN "invalid" ELSE "end"]

----------------------------------------------------------------------------
(* The canonical code that the lengths stand for, by its definition: codes *)
(* are in the order of their lengths, and of their symbols within a length,*)
(* and each is the one after the code before it.                           *)

(* How many words of b bits begin with a code, ...                         *)
Taken(L) ==
    LET taken[b \in 0..MaxBits] == IF b = 0 THEN 0 ELSE 2 * taken[b - 1] + Cardinality(Coded(L, b))
    IN  taken

(* ... which are no more than there are, if no code begins another.        *)
IsPrefixCode(L) == \A b \in 1..15 : Taken(L)[b] <= 2^b

HasCode(L, s) == s \in 0..(Len(L) - 1) /\ L[s + 1] \in 1..15
Canonical(L, s) == 2 * Taken(L)[L[s + 1] - 1] + Cardinality({ t \in Coded(L, L[s + 1]) : t < s })
CodeBits(L, s) ==
    LET code == Canonical(L, s)
    IN  [i \in 1..L[s + 1] |-> (code \div 2^(L[s + 1] - i)) % 2]

=============================================================================
