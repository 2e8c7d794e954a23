------------------------------- MODULE Cells -------------------------------
(***************************************************************************)
(* The cells of TON as tonlib's CellBuilder writes them and its CellParser *)
(* reads them (external), and the repository's chains of cells for byte    *)
(* strings (boc/buffer_to_cell.rs, boc/cell_to.rs).                        *)
(*                                                                         *)
(* A cell holds bits and references to other cells.  Values are sequences  *)
(* of bytes: an address has 33 (workchain and hash), a 256-bit word has    *)
(* 32, an amount of coins has as many as it needs, a string any number.    *)
(* A load either fails or says where the next load starts.                 *)
(***************************************************************************)
EXTENDS Integers, Sequences, SequencesExt

BitWeight == <<128, 64, 32, 16, 8, 4, 2, 1>>

Bits(bytes) ==
    [i \in 1..8 * Len(bytes) |->
        (bytes[(i + 7) \div 8] \div BitWeight[1 + ((i - 1) % 8)]) % 2]

\* The number that four bits make from position at on, and the one that eight make.
Nibble(bits, at) == 8 * bits[at + 1] + 4 * bits[at + 2] + 2 * bits[at + 3] + bits[at + 4]
Byte(bits, at) == 16 * Nibble(bits, at) + Nibble(bits, at + 4)

Bytes(bits) == [i \in 1..Len(bits) \div 8 |-> Byte(bits, 8 * (i - 1))]

-----------------------------------------------------------------------------
(* CellBuilder. *)

MAX_CELL_BITS == 1023
MAX_CELL_REFERENCES == 4
MAX_CELL_DEPTH == 1024

Cell(bits, refs) == [bits |-> bits, refs |-> refs]

NullAddress == [i \in 1..33 |-> 0]

\* addr_none$00, or addr_std$10 without anycast.
AddressBits(a) == IF a = NullAddress THEN <<0, 0>> ELSE <<1, 0, 0>> \o Bits(a)

\* The number of bytes in four bits, then the bytes.
CoinsBits(c) == SubSeq(Bits(<<Len(c)>>), 5, 8) \o Bits(c)

\* No cell exceeds what a cell can hold, down to the given depth.
Fits(cell, depth) ==
    LET Level[k \in 0..depth] ==
            IF k = 0 THEN {cell} ELSE UNION {ToSet(c.refs) : c \in Level[k - 1]}
    IN  \A k \in 0..depth : \A c \in Level[k] :
            Len(c.bits) <= MAX_CELL_BITS /\ Len(c.refs) <= MAX_CELL_REFERENCES

-----------------------------------------------------------------------------
(* CellParser: a load from the bits at position at. *)

Failed == [ok |-> FALSE]

Loaded(next, value) == [ok |-> TRUE, next |-> next, value |-> value]

load_bits(bits, at, n) ==
    IF at + n > Len(bits) THEN Failed
    ELSE Loaded(at + n, Bytes(SubSeq(bits, at + 1, at + n)))

load_address(bits, at) ==
    IF at + 2 > Len(bits) THEN Failed
    ELSE LET tag == SubSeq(bits, at + 1, at + 2)
         IN  CASE tag = <<0, 0>> -> Loaded(at + 2, NullAddress)
               [] tag = <<1, 0>> -> load_bits(bits, at + 3, 264)
               [] OTHER -> Failed

load_coins(bits, at) ==
    IF at + 4 > Len(bits) THEN Failed
    ELSE load_bits(bits, at + 4, 8 * Nibble(bits, at))

\* The cell that a path of references leads to; the path may break off.
Descend(cell, path) ==
    LET at[i \in 0..Len(path)] ==
            IF i = 0 THEN cell ELSE at[i - 1].refs[path[i]]
    IN  IF \A i \in DOMAIN path : path[i] \in DOMAIN at[i - 1].refs
        THEN [ok |-> TRUE, cell |-> at[Len(path)]]
        ELSE Failed

-----------------------------------------------------------------------------
(* Byte strings as chains of cells. *)

BYTES_PER_CELL == 96

\* Up to n bytes from start on, and a reference to the rest if there is any.
build_cell_chain(buffer, n) ==
    LET chain[start \in 0..Len(buffer)] ==
            LET end == IF start + n < Len(buffer) THEN start + n ELSE Len(buffer)
            IN  Cell(Bits(SubSeq(buffer, start + 1, end)),
                     IF end < Len(buffer) THEN <<chain[end]>> ELSE <<>>)
    IN  chain[0]

\* Mutant: one byte too many in every cell.
buffer_to_cell_one_more(buffer) == build_cell_chain(buffer, BYTES_PER_CELL + 1)

\* Mutant: a kilobit of bytes in every cell.
buffer_to_cell_full(buffer) == build_cell_chain(buffer, 128)

buffer_to_cell(buffer) == build_cell_chain(buffer, BYTES_PER_CELL)

\* At most BYTES_PER_CELL whole bytes of every cell, along the first references.
cell_to_buffer(cell) ==
    LET chain[k \in 0..MAX_CELL_DEPTH] == IF k = 0 THEN cell ELSE chain[k - 1].refs[1]
        last == CHOOSE k \in 0..MAX_CELL_DEPTH :
                    chain[k].refs = <<>> /\ \A j \in 0..(k - 1) : chain[j].refs # <<>>
        Taken(bits) == SubSeq(bits, 1, IF Len(bits) < 8 * BYTES_PER_CELL
                                       THEN Len(bits) ELSE 8 * BYTES_PER_CELL)
    IN  FlattenSeq([k \in 1..last + 1 |-> Bytes(Taken(chain[k - 1].bits))])

\* String::from_utf8.  The strings of the messages are ASCII.
is_utf8(bytes) == \A i \in DOMAIN bytes : bytes[i] < 128

=============================================================================
