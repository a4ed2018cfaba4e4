------------------------------ MODULE Deflate -------------------------------
(***************************************************************************)
(* What decompress is given: files as gzip programs write them, in the     *)
(* format of GzipFormat, and those that compress_simple (gzip.rs) writes.  *)
(* Bytes of the checksum, which decide over a warning only, are arbitrary. *)
(***************************************************************************)
EXTENDS GzipFormat

----------------------------------------------------------------------------
(* compress_simple *)

Magic == <<31, 139, 8>>
PlainHeader == Magic \o <<0, 0, 0, 0, 0, 0, 255>>
Trailer == <<1, 2, 3, 4, 5, 6, 7, 8>>

LastBlock(bytes, size, i) == i * size >= Len(bytes)
OwnBlocks(bytes, size) == Max({1, (Len(bytes) + size - 1) \div size})
OwnPart(bytes, size, i) == SubSeq(bytes, (i - 1) * size + 1, Min({i * size, Len(bytes)}))

(* Blocks of at most size bytes, 65535 in the code. *)
CompressSimple(bytes, size) ==
    LET block(i) ==
            LET n == Len(OwnPart(bytes, size, i))
            IN  <<IF LastBlock(bytes, size, i) THEN 1 ELSE 0, n % 256, n \div 256,
                  255 - (n % 256), 255 - (n \div 256)>> \o OwnPart(bytes, size, i)
    IN  PlainHeader \o FlattenSeq([i \in 1..OwnBlocks(bytes, size) |-> block(i)]) \o Trailer

----------------------------------------------------------------------------
(* Other programs *)

ToBytes(bits) ==
    LET bit(i) == IF i <= Len(bits) THEN bits[i] ELSE 0
        byte(k) == bit(8 * k + 1) + 2 * bit(8 * k + 2) + 4 * bit(8 * k + 3) + 8 * bit(8 * k + 4)
                   + 16 * bit(8 * k + 5) + 32 * bit(8 * k + 6) + 64 * bit(8 * k + 7) + 128 * bit(8 * k + 8)
    IN  [k \in 1..((Len(bits) + 7) \div 8) |-> byte(k - 1)]

BlockBits(before, block, last) ==
    LET head == before \o <<IF last THEN 1 ELSE 0>> \o KindBits(block.kind)
        pad == [i \in 1..((8 - (Len(head) % 8)) % 8) |-> 0]
        n == Len(block.bytes)
        lengths == TableBits(block)
                 \o FlattenSeq([k \in 1..block.count |-> Number(block.codes[CodelenOrder[k] + 1], 3)])
                 \o FlattenSeq([k \in 1..Len(block.runs) |-> RunPiece(block.runs[k], block.codes)])
    IN  IF block.kind = "stored"
        THEN head \o pad \o Number(n, 16) \o Number(65535 - n, 16)
                  \o FlattenSeq([i \in 1..n |-> Number(block.bytes[i], 8)])
        ELSE head \o (IF block.kind = "fixed" THEN <<>> ELSE lengths)
                  \o FlattenSeq([k \in 1..Len(block.items) |->
                         ItemBits(block.items[k], LiteralsOf(block), DistancesOf(block))])
                  \o CodeBits(LiteralsOf(block), 256)

Blocks(blocks) ==
    LET upTo[n \in 0..Len(blocks)] ==
            IF n = 0 THEN <<>> ELSE BlockBits(upTo[n - 1], blocks[n], n = Len(blocks))
    IN  ToBytes(upTo[Len(blocks)])

Header(flags) ==
    Magic \o <<MapThenSumSet(LAMBDA f : 2^f, flags), 0, 0, 0, 0, 0, 3>>
        \o (IF 2 \in flags THEN <<2, 0, 9, 0>> ELSE <<>>)
        \o (IF 3 \in flags THEN <<97, 98, 0>> ELSE <<>>)
        \o (IF 4 \in flags THEN <<99, 0>> ELSE <<>>)
        \o (IF 1 \in flags THEN <<7, 7>> ELSE <<>>)

File(flags, blocks) == Header(flags) \o Blocks(blocks) \o Trailer

(* The stream of that file, ... *)
Stream(flags, blocks) ==
    LET behind(f, from, size) == IF f \in flags THEN from + size ELSE from
        extra == behind(2, 10, 4)
        name == behind(3, extra, 3)
        comment == behind(4, name, 2)
    IN  [extra |-> extra, name |-> name, comment |-> comment, start |-> behind(1, comment, 2),
         blocks |-> blocks]

(* ... and that of what compress_simple writes.                            *)
OwnStream(bytes, size) ==
    Stream({}, [i \in 1..OwnBlocks(bytes, size) |-> [kind |-> "stored", bytes |-> OwnPart(bytes, size, i)]])

=============================================================================
