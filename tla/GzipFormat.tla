----------------------------- MODULE GzipFormat -----------------------------
(***************************************************************************)
(* The format that decompress reads, after RFC 1951 and 1952: which file   *)
(* holds which stream of blocks, and what such a stream means.  A file is  *)
(* a sequence of bytes, and a place in it a number of bits behind the      *)
(* header, which ends at the byte start.                                   *)
(***************************************************************************)
EXTENDS Inflate

BitOf(bytes, start, i) == (bytes[start + i \div 8 + 1] \div 2^(i % 8)) % 2

Stands(bytes, start, i, bits) ==
    /\ 8 * start + i + Len(bits) <= 8 * Len(bytes)
    /\ \A k \in 1..Len(bits) : BitOf(bytes, start, i + k - 1) = bits[k]

Number(value, n) == [i \in 1..n |-> (value \div 2^(i - 1)) % 2]

(* Where each of n pieces ends when they follow each other. *)
Offsets(first, n, sizes) ==
    LET offset[k \in 0..n] == IF k = 0 THEN first ELSE offset[k - 1] + sizes[k]
    IN  offset

----------------------------------------------------------------------------
(* A block holds literals and copies, a copy being the symbol of a length, *)
(* the number that follows it, and those of a distance.                    *)

Literal(b) == [kind |-> "literal", symbol |-> b]
Copied(length, extra, distance, more) ==
    [kind |-> "copy", symbol |-> length, extra |-> extra, distance |-> distance, more |-> more]

ItemBits(item, literals, distances) ==
    IF item.kind = "literal" THEN CodeBits(literals, item.symbol)
    ELSE CodeBits(literals, item.symbol) \o Number(item.extra, LengthExtra[item.symbol - 256])
         \o CodeBits(distances, item.distance) \o Number(item.more, DistExtra[item.distance + 1])

Distance(item) == DistBase[item.distance + 1] + item.more
Length(item) == LengthBase[item.symbol - 256] + item.extra

(* A copy takes one byte after the other, so that it may take bytes that   *)
(* it has put there itself.                                                *)
Play(done, item) ==
    LET byte[i \in 1..(Len(done) + Length(item))] ==
            IF i <= Len(done) THEN done[i] ELSE byte[i - Distance(item)]
    IN  IF item.kind = "literal" THEN Append(done, item.symbol)
        ELSE done \o [i \in 1..Length(item) |-> byte[Len(done) + i]]

Played(done, items) ==
    LET played[k \in 0..Len(items)] == IF k = 0 THEN done ELSE Play(played[k - 1], items[k])
    IN  played

IsItem(item, done, literals, distances) ==
    /\ HasCode(literals, item.symbol)
    /\ \/ item.kind = "literal" /\ item.symbol \in 0..255
       \/ /\ item.kind = "copy" /\ item.symbol \in 257..285 /\ item.distance \in 0..29
          /\ HasCode(distances, item.distance)
          /\ item.extra \in 0..(2^LengthExtra[item.symbol - 256] - 1)
          /\ item.more \in 0..(2^DistExtra[item.distance + 1] - 1)
          /\ Distance(item) <= Len(done)

----------------------------------------------------------------------------
(* A dynamic block has the lengths of its codes, run by run: a symbol of   *)
(* the third alphabet and the number that follows.  The lengths of the     *)
(* codes of that alphabet come first, count of them.                       *)

RunBits(symbol) == CASE symbol = 16 -> 2 [] symbol = 17 -> 3 [] symbol = 18 -> 7 [] OTHER -> 0
RunPiece(run, codes) == CodeBits(codes, run[1]) \o Number(run[2], RunBits(run[1]))

Unrun(done, run) ==
    CASE run[1] = 16 -> done \o [i \in 1..(run[2] + 3) |-> Last(done)]
      [] run[1] = 17 -> done \o [i \in 1..(run[2] + 3) |-> 0]
      [] run[1] = 18 -> done \o [i \in 1..(run[2] + 11) |-> 0]
      [] OTHER -> Append(done, run[1])

Unrunned(runs) ==
    LET lengths[k \in 0..Len(runs)] == IF k = 0 THEN <<>> ELSE Unrun(lengths[k - 1], runs[k])
    IN  lengths

LengthsOf(block) == Unrunned(block.runs)[Len(block.runs)]
LiteralsOf(block) ==
    IF block.kind = "fixed" THEN FixedLiterals ELSE SubSeq(LengthsOf(block), 1, block.literals)
DistancesOf(block) ==
    IF block.kind = "fixed" THEN FixedDistances
    ELSE SubSeq(LengthsOf(block), block.literals + 1, Len(LengthsOf(block)))

IsTable(block) ==
    /\ block.literals \in 257..288 /\ block.distances \in 1..32 /\ block.count \in 4..19
    /\ block.codes \in [1..19 -> 0..7]
    /\ \A i \in (block.count + 1)..19 : block.codes[CodelenOrder[i] + 1] = 0
    /\ IsPrefixCode(block.codes)
    /\ Len(block.runs) \in Nat
    /\ \A k \in 1..Len(block.runs) :
           /\ HasCode(block.codes, block.runs[k][1])
           /\ block.runs[k][2] \in 0..(2^RunBits(block.runs[k][1]) - 1)
           /\ block.runs[k][1] = 16 => k > 1
           /\ Len(Unrunned(block.runs)[k - 1]) < block.literals + block.distances
    /\ Len(LengthsOf(block)) = block.literals + block.distances

----------------------------------------------------------------------------
(* Where the parts of a block stand that begins at i *)

TableBits(block) ==
    Number(block.literals - 257, 5) \o Number(block.distances - 1, 5) \o Number(block.count - 4, 4)
CodeAt(i, k) == i + 17 + 3 * (k - 1)
RunEnds(block, i) ==
    Offsets(CodeAt(i, block.count + 1), Len(block.runs),
         [k \in 1..Len(block.runs) |-> Len(RunPiece(block.runs[k], block.codes))])
ItemEnds(block, i) ==
    Offsets(IF block.kind = "fixed" THEN i + 3 ELSE RunEnds(block, i)[Len(block.runs)], Len(block.items),
         [k \in 1..Len(block.items) |-> Len(ItemBits(block.items[k], LiteralsOf(block), DistancesOf(block)))])

(* The bytes of a stored block begin at a byte.                            *)
StoredAt(i) == 8 * ((i + 3 + 7) \div 8)

BlockEnd(block, i) ==
    IF block.kind = "stored" THEN StoredAt(i) + 32 + 8 * Len(block.bytes)
    ELSE ItemEnds(block, i)[Len(block.items)] + LiteralsOf(block)[257]

HoldsStored(bytes, start, i, block) ==
    LET length == Len(block.bytes)
        first == start + StoredAt(i) \div 8 + 4
    IN  /\ length < 2^16
        /\ Stands(bytes, start, StoredAt(i), Number(length, 16) \o Number(2^16 - 1 - length, 16))
        /\ first + length <= Len(bytes)
        /\ block.bytes = SubSeq(bytes, first + 1, first + length)

HoldsTable(bytes, start, i, block) ==
    /\ IsTable(block)
    /\ Stands(bytes, start, i + 3, TableBits(block))
    /\ \A k \in 1..block.count :
           Stands(bytes, start, CodeAt(i, k), Number(block.codes[CodelenOrder[k] + 1], 3))
    /\ \A k \in 1..Len(block.runs) :
           Stands(bytes, start, RunEnds(block, i)[k - 1], RunPiece(block.runs[k], block.codes))

HoldsItems(bytes, start, i, block, done) ==
    LET literals == LiteralsOf(block)
        distances == DistancesOf(block)
    IN  /\ IsPrefixCode(literals) /\ IsPrefixCode(distances)
        /\ Len(block.items) \in Nat
        /\ \A k \in 1..Len(block.items) :
               /\ IsItem(block.items[k], Played(done, block.items)[k - 1], literals, distances)
               /\ Stands(bytes, start, ItemEnds(block, i)[k - 1], ItemBits(block.items[k], literals, distances))
        /\ HasCode(literals, 256)
        /\ Stands(bytes, start, ItemEnds(block, i)[Len(block.items)], CodeBits(literals, 256))

KindBits(kind) == CASE kind = "stored" -> <<0, 0>> [] kind = "fixed" -> <<1, 0>> [] OTHER -> <<0, 1>>

HoldsBlock(bytes, start, i, block, done, last) ==
    /\ block.kind \in {"stored", "fixed", "dynamic"}
    /\ Stands(bytes, start, i, <<IF last THEN 1 ELSE 0>> \o KindBits(block.kind))
    /\ block.kind = "stored" => HoldsStored(bytes, start, i, block)
    /\ block.kind = "dynamic" => HoldsTable(bytes, start, i, block)
    /\ block.kind # "stored" => HoldsItems(bytes, start, i, block, done)

----------------------------------------------------------------------------
(* The header, whose extra field, name and comment end at the bytes that   *)
(* the stream says.                                                        *)

HoldsHeader(bytes, stream) ==
    LET Set(i) == (bytes[4] \div 2^i) % 2 = 1
        EndsAt(is, from, to) ==
            IF is THEN from < to /\ bytes[to] = 0 /\ \A i \in (from + 1)..(to - 1) : bytes[i] # 0
            ELSE to = from
    IN  /\ Len(bytes) >= (IF Set(2) THEN 12 ELSE 10) /\ bytes[1] = 31 /\ bytes[2] = 139 /\ bytes[3] = 8
        /\ {stream.extra, stream.name, stream.comment, stream.start} \subseteq 10..(Len(bytes) - 1)
        /\ stream.extra = IF Set(2) THEN 12 + bytes[11] + 256 * bytes[12] ELSE 10
        /\ EndsAt(Set(3), stream.extra, stream.name)
        /\ EndsAt(Set(4), stream.name, stream.comment)
        /\ stream.start = IF Set(1) THEN stream.comment + 2 ELSE stream.comment

(* Where each block ends, and what there is by then. *)
BlockEnds(blocks) ==
    LET ends[k \in 0..Len(blocks)] == IF k = 0 THEN 0 ELSE BlockEnd(blocks[k], ends[k - 1])
    IN  ends
Meant(blocks) ==
    LET meant[k \in 0..Len(blocks)] ==
            IF k = 0 THEN <<>>
            ELSE IF blocks[k].kind = "stored" THEN meant[k - 1] \o blocks[k].bytes
            ELSE Played(meant[k - 1], blocks[k].items)[Len(blocks[k].items)]
    IN  meant
Meaning(blocks) == Meant(blocks)[Len(blocks)]

Holds(bytes, stream) ==
    LET blocks == stream.blocks
    IN  /\ bytes \in Seq(0..255)
        /\ HoldsHeader(bytes, stream)
        /\ Len(blocks) \in Nat \ {0}
        /\ \A k \in 1..Len(blocks) :
               HoldsBlock(bytes, stream.start, BlockEnds(blocks)[k - 1], blocks[k],
                          Meant(blocks)[k - 1], k = Len(blocks))

=============================================================================
