------------------------------ MODULE Inflate -------------------------------
(***************************************************************************)
(* decompress (gzip.rs): the header of a gzip file, then its blocks, bit   *)
(* by bit as the file has them.  One step per block header, per table and  *)
(* per symbol.  Bytes are counted from 0, and so are the bits that follow  *)
(* the header.  The checksum at the end decides over a warning only and is *)
(* left out.                                                               *)
(***************************************************************************)
EXTENDS Huffman, Sequences, SequencesExt

VARIABLES
    data,       \* the bytes to decompress
    mode,       \* what comes next
    base,       \* where the blocks begin, in bytes
    at,         \* the next bit
    final,      \* this block is the last one
    table,      \* the table of a dynamic block: how many literals and
                \* distances, the code for lengths, the lengths read so far
    trees,      \* the codes of literals and of distances of this block
    output      \* the decompressed bytes

inflateVars == <<data, mode, base, at, final, table, trees, output>>

----------------------------------------------------------------------------
(* The bits *)

Byte(i) == data[i + 1]
BitsLeft == 8 * (Len(data) - base) - at
Bit(i) == (Byte(base + (at + i) \div 8) \div 2^((at + i) % 8)) % 2
Has(n) == BitsLeft >= n

(* A number of n bits that begins i bits ahead, least significant first.   *)
Field(i, n) ==
    LET value[j \in 0..n] == IF j = 0 THEN 0 ELSE value[j - 1] + Bit(i + j - 1) * 2^(j - 1)
    IN  value[n]

(* The bits from i on, for Decode. *)
Ahead(i) == [j \in 1..Min({MaxBits, BitsLeft - i}) |-> Bit(i + j - 1)]

Aligned == 8 * ((at + 7) \div 8)

----------------------------------------------------------------------------
(* The tables *)

FixedLiterals == [i \in 1..288 |-> IF i <= 144 THEN 8 ELSE IF i <= 256 THEN 9 ELSE IF i <= 280 THEN 7 ELSE 8]
FixedDistances == [i \in 1..32 |-> 5]

LengthBase == <<3, 4, 5, 6, 7, 8, 9, 10, 11, 13, 15, 17, 19, 23, 27, 31,
                35, 43, 51, 59, 67, 83, 99, 115, 131, 163, 195, 227, 258>>
LengthExtra == <<0, 0, 0, 0, 0, 0, 0, 0, 1, 1, 1, 1, 2, 2, 2, 2,
                 3, 3, 3, 3, 4, 4, 4, 4, 5, 5, 5, 5, 0>>
DistBase == <<1, 2, 3, 4, 5, 7, 9, 13, 17, 25, 33, 49, 65, 97, 129, 193, 257, 385, 513, 769,
              1025, 1537, 2049, 3073, 4097, 6145, 8193, 12289, 16385, 24577>>
DistExtra == <<0, 0, 0, 0, 1, 1, 2, 2, 3, 3, 4, 4, 5, 5, 6, 6, 7, 7, 8, 8,
               9, 9, 10, 10, 11, 11, 12, 12, 13, 13>>
CodelenOrder == <<16, 17, 18, 0, 8, 7, 9, 6, 10, 5, 11, 4, 12, 3, 13, 2, 14, 1, 15>>

NoTable == [literals |-> 0, distances |-> 0, codes |-> <<>>, lengths |-> <<>>]
NoTrees == [literals |-> FromLengths(<<>>), distances |-> FromLengths(<<>>)]
FixedTrees == [literals |-> FromLengths(FixedLiterals), distances |-> FromLengths(FixedDistances)]

----------------------------------------------------------------------------
InflateInit(bytes) ==
    /\ data = bytes
    /\ mode = "gzip"
    /\ base = 0 /\ at = 0 /\ final = FALSE
    /\ table = NoTable /\ trees = NoTrees
    /\ output = <<>>

Refuse == mode' = "error" /\ UNCHANGED <<data, base, at, final, table, trees, output>>

Zeros(pos) == { i \in pos..(Len(data) - 1) : Byte(i) = 0 }


(* Behind a field that ends with a zero byte. *)
PastZero(pos) == IF Zeros(pos) = {} THEN Max({pos, Len(data)}) + 1 ELSE Min(Zeros(pos)) + 1

Flag(i) == (Byte(3) \div 2^i) % 2 = 1

(* Where the header ends: behind the extra field, the name, the comment    *)
(* and the checksum that the flags announce.                               *)
HeaderEnd ==
    LET extra == IF Flag(2) THEN 12 + Byte(10) + 256 * Byte(11) ELSE 10
        name == IF Flag(3) THEN PastZero(extra) ELSE extra
        comment == IF Flag(4) THEN PastZero(name) ELSE name
    IN  IF Flag(1) THEN comment + 2 ELSE comment

ReadHeader ==
    /\ mode = "gzip"
    /\ IF /\ Len(data) >= 10
          /\ Byte(0) = 31 /\ Byte(1) = 139 /\ Byte(2) = 8
          /\ Flag(2) => Len(data) >= 12
       THEN IF HeaderEnd < Len(data)
            THEN /\ base' = HeaderEnd /\ mode' = "block"
                 /\ UNCHANGED <<data, at, final, table, trees, output>>
            ELSE Refuse
       ELSE Refuse

ReadBlock ==
    /\ mode = "block"
    /\ IF Has(3) /\ Field(1, 2) # 3
       THEN /\ final' = (Bit(0) = 1)
            /\ at' = at + 3
            /\ mode' = <<"stored", "symbol", "table">>[Field(1, 2) + 1]
            /\ trees' = IF Field(1, 2) = 1 THEN FixedTrees ELSE NoTrees
            /\ UNCHANGED <<data, base, table, output>>
       ELSE Refuse

EndOfBlock == IF final THEN "done" ELSE "block"

(* The complement of the length is read and not compared. *)
Stored ==
    /\ mode = "stored"
    /\ LET start == Aligned - at
           length == Field(start, 16)
           first == (Aligned + 32) \div 8
       IN  IF Has(start + 32)
           THEN IF Has(start + 32 + 8 * length)
                THEN /\ output' = output \o [i \in 1..length |-> Byte(base + first + i - 1)]
                     /\ at' = 8 * (first + length)
                     /\ mode' = EndOfBlock
                     /\ UNCHANGED <<data, base, final, table, trees>>
                ELSE Refuse
           ELSE Refuse

(* The sizes of the alphabets and the code for the lengths that follow.    *)
ReadTable ==
    /\ mode = "table"
    /\ LET count == Field(10, 4) + 4
           place(s) == CHOOSE i \in 1..19 : CodelenOrder[i] = s
       IN  IF Has(14)
           THEN IF Has(14 + 3 * count)
                THEN /\ table' = [literals |-> Field(0, 5) + 257, distances |-> Field(5, 5) + 1,
                                  codes |-> FromLengths([i \in 1..19 |-> IF place(i - 1) <= count
                                                             THEN Field(14 + 3 * (place(i - 1) - 1), 3) ELSE 0]),
                                  lengths |-> <<>>]
                     /\ at' = at + 14 + 3 * count
                     /\ mode' = "lengths"
                     /\ UNCHANGED <<data, base, final, trees, output>>
                ELSE Refuse
           ELSE Refuse

(* How a symbol of that code repeats a length: what, at least how often,   *)
(* and in how many bits the rest of the number stands.                     *)
Repeat(symbol) ==
    CASE symbol = 16 -> [of |-> IF table.lengths = <<>> THEN 0 ELSE Last(table.lengths), least |-> 3, bits |-> 2]
      [] symbol = 17 -> [of |-> 0, least |-> 3, bits |-> 3]
      [] symbol = 18 -> [of |-> 0, least |-> 11, bits |-> 7]
      [] OTHER -> [of |-> symbol, least |-> 1, bits |-> 0]

(* Runs may go beyond the last length; what is over belongs to the         *)
(* distances.                                                              *)
ReadLength ==
    /\ mode = "lengths"
    /\ Len(table.lengths) < table.literals + table.distances
    /\ LET code == Decode(table.codes, Ahead(0))
           run == Repeat(code.symbol)
       IN  IF code.what = "symbol"
           THEN IF Has(code.size + run.bits)
                THEN /\ table' = [table EXCEPT !.lengths =
                                    @ \o [i \in 1..(run.least + Field(code.size, run.bits)) |-> run.of]]
                     /\ at' = at + code.size + run.bits
                     /\ UNCHANGED <<data, mode, base, final, trees, output>>
                ELSE Refuse
           ELSE Refuse

LengthsRead ==
    /\ mode = "lengths"
    /\ Len(table.lengths) >= table.literals + table.distances
    /\ mode' = "symbol"
    /\ trees' = [literals |-> FromLengths(SubSeq(table.lengths, 1, table.literals)),
                 distances |-> FromLengths(SubSeq(table.lengths, table.literals + 1, Len(table.lengths)))]
    /\ table' = NoTable
    /\ UNCHANGED <<data, base, at, final, output>>

(* Fault: a copy takes only what is there before it begins. *)
NoOverlap(length, distance) ==
    SubSeq(output, Len(output) - distance + 1, Min({Len(output), Len(output) - distance + length}))

Copy(length, distance) ==
    [i \in 1..length |-> output[Len(output) - distance + ((i - 1) % distance) + 1]]

(* The bits of a symbol for a length and of the distance that follows.     *)
Pair(code) ==
    LET n == code.symbol - 256
        bits == code.size + LengthExtra[n]
        dist == Decode(trees.distances, Ahead(bits))
        d == dist.symbol + 1
        whole == bits + dist.size + DistExtra[d]
    IN  IF n \in DOMAIN LengthBase /\ Has(bits) /\ dist.what = "symbol"
        THEN IF d \in DOMAIN DistBase /\ Has(whole)
             THEN [ok |-> TRUE, size |-> whole, length |-> LengthBase[n] + Field(code.size, LengthExtra[n]),
                   distance |-> DistBase[d] + Field(bits + dist.size, DistExtra[d])]
             ELSE [ok |-> FALSE]
        ELSE [ok |-> FALSE]

ReadSymbol ==
    /\ mode = "symbol"
    /\ LET code == Decode(trees.literals, Ahead(0))
           pair == Pair(code)
       IN  \/ /\ code.what # "symbol"
              /\ Refuse
           \/ /\ code.what = "symbol" /\ code.symbol < 256
              /\ output' = Append(output, code.symbol)
              /\ at' = at + code.size
              /\ UNCHANGED <<data, mode, base, final, table, trees>>
           \/ /\ code.what = "symbol" /\ code.symbol = 256
              /\ at' = at + code.size
              /\ mode' = EndOfBlock
              /\ UNCHANGED <<data, base, final, table, trees, output>>
           \/ /\ code.what = "symbol" /\ code.symbol > 256
              /\ IF pair.ok /\ pair.distance <= Len(output)
                 THEN /\ output' = output \o Copy(pair.length, pair.distance)
                      /\ at' = at + pair.size
                      /\ UNCHANGED <<data, mode, base, final, table, trees>>
                 ELSE Refuse

InflateNext ==
    \/ ReadHeader \/ ReadBlock \/ Stored \/ ReadTable \/ ReadLength \/ LengthsRead \/ ReadSymbol

=============================================================================
