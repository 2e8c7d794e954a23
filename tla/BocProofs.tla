----------------------------- MODULE BocProofs -----------------------------
(***************************************************************************)
(* Proofs about Cells and BocMessages, for messages of any values: what a  *)
(* decoder returns is what was written, it fails only on the few logs that *)
(* the code cannot represent, gas paid in jettons never decodes as gas     *)
(* added, and an execution is recognised by the message of the wallet's    *)
(* last action.                                                            *)
(*                                                                         *)
(* The invariant (BocInv) says that the cell is the one written for the    *)
(* message, and what was read is what the decoder makes of that cell.  The *)
(* rest is about the codecs: bytes survive the way through bits, strings   *)
(* through a chain of cells, addresses and coins through their tags and    *)
(* lengths (first part); then a layout whose loads find the values written *)
(* in their order reads them all (Reached, one step per load); then the    *)
(* layout of each message.  Recursive definitions are shown to have a      *)
(* value at every argument, and to be determined by their equations, from  *)
(* the least argument at which they would not.                             *)
(***************************************************************************)
EXTENDS BocMessages, NaturalsInduction, WellFoundedInduction, TLAPS

-----------------------------------------------------------------------------
(* Minimal elements. *)

\* A set of numbers that is not empty has a least element.
LEMMA LeastElement ==
    ASSUME NEW T \in SUBSET Nat, T # {}
    PROVE  \E x \in T : \A y \in T : x <= y
<1> DEFINE R == {ss \in Nat \X Nat : ss[1] < ss[2]}
<1>1. IsWellFoundedOn(R, Nat)
  BY NatLessThanWellFounded DEF OpToRel
<1>2. PICK x \in T : \A y \in T : <<y, x>> \notin R
  <2> HIDE DEF R
  <2> QED
    BY <1>1, WFMin
<1>3. ASSUME NEW y \in T
      PROVE  x <= y
  <2>1. <<y, x>> \notin R
    BY <1>2
  <2> QED
    BY <2>1
<1> QED
  BY <1>3

-----------------------------------------------------------------------------
(* Bits and bytes. *)

\* The bits of a byte string from position at on are those of x.
Holds(bits, at, x) ==
    /\ at + Len(x) <= Len(bits)
    /\ \A j \in 1..Len(x) : bits[at + j] = x[j]

\* The elements of a sequence.
LEMMA Elements ==
    ASSUME NEW S, NEW s \in Seq(S)
    PROVE  Len(s) \in Nat /\ DOMAIN s = 1..Len(s) /\ \A k \in 1..Len(s) : s[k] \in S
OBVIOUS

\* A bit of a byte.
LEMMA BitOfByte ==
    ASSUME NEW x \in 0..255, NEW w \in {1, 2, 4, 8, 16, 32, 64, 128}
    PROVE  (x \div w) % 2 \in 0..1
<1>1. w \in Nat \ {0} /\ x \in Nat
  OBVIOUS
<1>2. x \div w \in Nat
  BY <1>1
<1> QED
  BY <1>2

\* The bits of a byte make the byte.
LEMMA ByteOfBits ==
    ASSUME NEW x \in 0..255
    PROVE  x = 128 * ((x \div 128) % 2) + 64 * ((x \div 64) % 2) + 32 * ((x \div 32) % 2)
                 + 16 * ((x \div 16) % 2) + 8 * ((x \div 8) % 2) + 4 * ((x \div 4) % 2)
                 + 2 * ((x \div 2) % 2) + (x % 2)
OBVIOUS

\* Eight bits for every byte, and they make the byte again.
LEMMA BitsOfBytes ==
    ASSUME NEW b \in Seq(0..255)
    PROVE  /\ Bits(b) \in Seq(0..1) /\ Len(Bits(b)) = 8 * Len(b)
           /\ \A k \in 1..Len(b) : Byte(Bits(b), 8 * (k - 1)) = b[k]
<1> DEFINE n == 8 * Len(b)
           g(i) == (b[(i + 7) \div 8] \div BitWeight[1 + ((i - 1) % 8)]) % 2
<1>0. Len(b) \in Nat /\ DOMAIN b = 1..Len(b) /\ \A k \in 1..Len(b) : b[k] \in 0..255
  BY Elements
<1>1. n \in Nat /\ Len(b) \in Nat /\ DOMAIN b
          = 1..Len(b) /\ \A k \in 1..Len(b) : b[k] \in 0..255
  BY <1>0
<1>2. \A j \in 1..8 : BitWeight[j] \in {1, 2, 4, 8, 16, 32, 64, 128}
  <2> SUFFICES ASSUME NEW j \in 1..8
               PROVE  BitWeight[j] \in {1, 2, 4, 8, 16, 32, 64, 128}
    OBVIOUS
  <2>1. j \in {1, 2, 3, 4, 5, 6, 7, 8}
    OBVIOUS
  <2> QED
    BY <2>1 DEF BitWeight
<1>3. \A i \in 1..n : (i + 7) \div 8 \in 1..Len(b) /\ 1 + ((i - 1) % 8) \in 1..8
  BY <1>1
<1>4. \A i \in 1..n : g(i) \in 0..1
  <2> SUFFICES ASSUME NEW i \in 1..n
               PROVE  g(i) \in 0..1
    OBVIOUS
  <2>1. PICK x \in 0..255 : x = b[(i + 7) \div 8]
    BY <1>1, <1>3
  <2>2. PICK w \in {1, 2, 4, 8, 16, 32, 64, 128} : w = BitWeight[1 + ((i - 1) % 8)]
    BY <1>2, <1>3, SMTT(30)
  <2>4. (x \div w) % 2 \in 0..1
    BY BitOfByte
  <2> QED
    BY <2>1, <2>2, <2>4
<1>5. Bits(b) = [i \in 1..n |-> g(i)]
  BY DEF Bits
<1>6. Bits(b) \in Seq(0..1) /\ Len(Bits(b)) = n
  <2> HIDE DEF n, g
  <2> QED
    BY <1>1, <1>4, <1>5
<1>7. ASSUME NEW k \in 1..Len(b)
      PROVE  Byte(Bits(b), 8 * (k - 1)) = b[k]
  <2> DEFINE a == 8 * (k - 1)
  <2>1. PICK x \in 0..255 : x = b[k]
    BY <1>1
  <2>2. ASSUME NEW j \in 1..8
        PROVE  Bits(b)[a + j] = (x \div BitWeight[j]) % 2
    <3>1. a + j \in 1..n /\ ((a + j) + 7) \div 8 = k /\ 1 + (((a + j) - 1) % 8) = j
      BY <1>1
    <3>2. Bits(b)[a + j] = g(a + j)
      <4> HIDE DEF g, n, a
      <4> QED
        BY <1>5, <3>1
    <3> HIDE DEF a, n
    <3> QED
      BY <2>1, <3>1, <3>2
  <2>3. /\ Bits(b)[a + 1] = (x \div 128) % 2 /\ Bits(b)[a + 2] = (x \div 64) % 2
        /\ Bits(b)[a + 3] = (x \div 32) % 2 /\ Bits(b)[a + 4] = (x \div 16) % 2
        /\ Bits(b)[a + 5] = (x \div 8) % 2 /\ Bits(b)[a + 6] = (x \div 4) % 2
        /\ Bits(b)[a + 7] = (x \div 2) % 2 /\ Bits(b)[a + 8] = (x \div 1) % 2
    BY <2>2 DEF BitWeight
  <2>4. /\ a \in Nat /\ a + 4 + 1 = a + 5 /\ a + 4 + 2 = a + 6 /\ a + 4 + 3 = a + 7
        /\ a + 4 + 4 = a + 8
    BY <1>1
  <2>5. Byte(Bits(b), a)
          = 16 * (8 * ((x \div 128) % 2) + 4 * ((x \div 64) % 2) + 2 * ((x \div 32) % 2)
                    + ((x \div 16) % 2))
              + (8 * ((x \div 8) % 2) + 4 * ((x \div 4) % 2) + 2 * ((x \div 2) % 2)
                    + ((x \div 1) % 2))
    <3> HIDE DEF a
    <3> QED
      BY <2>3, <2>4 DEF Byte, Nibble
  <2>0. x = 128 * ((x \div 128) % 2) + 64 * ((x \div 64) % 2) + 32 * ((x \div 32) % 2)
              + 16 * ((x \div 16) % 2) + 8 * ((x \div 8) % 2) + 4 * ((x \div 4) % 2)
              + 2 * ((x \div 2) % 2) + (x % 2)
    BY ByteOfBits
  <2>6. x = 16 * (8 * ((x \div 128) % 2) + 4 * ((x \div 64) % 2) + 2 * ((x \div 32) % 2)
                    + ((x \div 16) % 2))
              + (8 * ((x \div 8) % 2) + 4 * ((x \div 4) % 2) + 2 * ((x \div 2) % 2)
                    + ((x \div 1) % 2))
    BY <2>0
  <2> QED
    BY <2>1, <2>5, <2>6
<1> QED
  BY <1>6, <1>7

\* A part of a sequence, element by element.
LEMMA PartOf ==
    ASSUME NEW S, NEW s \in Seq(S), NEW at \in Nat, NEW n \in Nat, at + n <= Len(s)
    PROVE  /\ SubSeq(s, at + 1, at + n) \in Seq(S)
           /\ Len(SubSeq(s, at + 1, at + n)) = n
           /\ \A j \in 1..n : SubSeq(s, at + 1, at + n)[j] = s[at + j]
OBVIOUS

\* Bytes that were written are loaded, from any place.
LEMMA LoadedBytes ==
    ASSUME NEW bits \in Seq(0..1), NEW at \in Nat, NEW b \in Seq(0..255),
           Holds(bits, at, Bits(b))
    PROVE  load_bits(bits, at, 8 * Len(b)) = Loaded(at + 8 * Len(b), b)
<1> DEFINE n == 8 * Len(b)
           s == SubSeq(bits, at + 1, at + n)
<1>1. /\ Bits(b) \in Seq(0..1) /\ Len(Bits(b)) = n
      /\ \A k \in 1..Len(b) : Byte(Bits(b), 8 * (k - 1)) = b[k]
  BY BitsOfBytes
<1>2. n \in Nat /\ Len(b) \in Nat /\ n \div 8 = Len(b) /\ Len(bits) \in Nat
  OBVIOUS
<1>3. at + n <= Len(bits) /\ \A j \in 1..n : bits[at + j] = Bits(b)[j]
  BY <1>1 DEF Holds
<1>4. Len(s) = n /\ \A j \in 1..n : s[j] = bits[at + j]
  <2> HIDE DEF n
  <2> QED
    BY <1>2, <1>3, PartOf
<1>5. \A j \in 1..n : s[j] = Bits(b)[j]
  BY <1>3, <1>4
<1>6. ASSUME NEW k \in 1..Len(b)
      PROVE  Byte(s, 8 * (k - 1)) = b[k]
  <2> DEFINE a == 8 * (k - 1)
  <2>1. /\ a + 1 \in 1..n /\ a + 2 \in 1..n /\ a + 3 \in 1..n /\ a + 4 \in 1..n
        /\ a + 4 + 1 \in 1..n /\ a + 4 + 2 \in 1..n /\ a + 4 + 3 \in 1..n
        /\ a + 4 + 4 \in 1..n
    BY <1>2
  <2>2. Byte(s, a) = Byte(Bits(b), a)
    <3> HIDE DEF s, a, n
    <3> QED
      BY <1>5, <2>1 DEF Byte, Nibble
  <2> QED
    BY <1>1, <2>2
<1>7. Bytes(s) = b
  <2>1. Bytes(s) = [k \in 1..Len(b) |-> Byte(s, 8 * (k - 1))]
    <3> HIDE DEF s
    <3> QED
      BY <1>2, <1>4 DEF Bytes
  <2>2. b = [k \in 1..Len(b) |-> b[k]]
    OBVIOUS
  <2> HIDE DEF s
  <2> QED
    BY <1>6, <2>1, <2>2
<1> QED
  BY <1>2, <1>3, <1>7 DEF load_bits

-----------------------------------------------------------------------------
(* Loads. *)

\* The parts of a concatenation.
LEMMA Parts2 ==
    ASSUME NEW x \in Seq(0..1), NEW y \in Seq(0..1)
    PROVE  /\ x \o y \in Seq(0..1) /\ Len(x \o y) = Len(x) + Len(y)
           /\ Holds(x \o y, 0, x) /\ Holds(x \o y, Len(x), y)
BY DEF Holds

\* A part of what comes first, and of what comes last.
LEMMA PartsKept ==
    ASSUME NEW x \in Seq(0..1), NEW y \in Seq(0..1), NEW z \in Seq(0..1), NEW at \in Nat
    PROVE  /\ Holds(x, at, z) => Holds(x \o y, at, z)
           /\ Holds(y, at, z) => Holds(x \o y, Len(x) + at, z)
<1>1. /\ x \o y \in Seq(0..1) /\ Len(x \o y) = Len(x) + Len(y)
      /\ Len(x) \in Nat /\ Len(y) \in Nat /\ Len(z) \in Nat
      /\ \A j \in 1..Len(x) : (x \o y)[j] = x[j]
      /\ \A j \in 1..Len(y) : (x \o y)[Len(x) + j] = y[j]
  OBVIOUS
<1> DEFINE c == x \o y
<1> HIDE DEF c
<1>2. /\ Len(c) = Len(x) + Len(y)
      /\ \A j \in 1..Len(x) : c[j] = x[j]
      /\ \A j \in 1..Len(y) : c[Len(x) + j] = y[j]
  BY <1>1 DEF c
<1>3. Holds(x, at, z) => Holds(c, at, z)
  BY <1>1, <1>2 DEF Holds
<1>4. ASSUME Holds(y, at, z)
      PROVE  Holds(c, Len(x) + at, z)
  <2>1. ASSUME NEW j \in 1..Len(z)
        PROVE  c[(Len(x) + at) + j] = z[j]
    <3>1. at + j \in 1..Len(y) /\ Len(x) + (at + j) = (Len(x) + at) + j /\ y[at + j] = z[j]
      BY <1>1, <1>4 DEF Holds
    <3>2. c[Len(x) + (at + j)] = y[at + j]
      BY <1>2, <3>1
    <3> QED
      BY <3>1, <3>2
  <2> QED
    BY <1>1, <1>2, <1>4, <2>1 DEF Holds
<1> QED
  BY <1>3, <1>4 DEF c

LEMMA Parts3 ==
    ASSUME NEW x \in Seq(0..1), NEW y \in Seq(0..1), NEW z \in Seq(0..1)
    PROVE  /\ x \o y \o z \in Seq(0..1) /\ Len(x \o y \o z) = Len(x) + Len(y) + Len(z)
           /\ Holds(x \o y \o z, 0, x) /\ Holds(x \o y \o z, Len(x), y)
           /\ Holds(x \o y \o z, Len(x) + Len(y), z)
<1> DEFINE c == x \o y
<1>1. /\ c \in Seq(0..1) /\ Len(c) = Len(x) + Len(y)
      /\ Holds(c, 0, x) /\ Holds(c, Len(x), y)
      /\ Len(x) \in Nat
  BY Parts2
<1> HIDE DEF c
<1>2. /\ c \o z \in Seq(0..1) /\ Len(c \o z) = Len(c) + Len(z)
      /\ Holds(c \o z, Len(c), z)
  BY <1>1, Parts2
<1>3. Holds(c \o z, 0, x) /\ Holds(c \o z, Len(x), y)
  BY <1>1, PartsKept
<1> QED
  BY <1>1, <1>2, <1>3 DEF c

LEMMA Parts4 ==
    ASSUME NEW x \in Seq(0..1), NEW y \in Seq(0..1), NEW z \in Seq(0..1),
               NEW w \in Seq(0..1)
    PROVE  /\ x \o y \o z \o w \in Seq(0..1)
           /\ Len(x \o y \o z \o w) = Len(x) + Len(y) + Len(z) + Len(w)
           /\ Holds(x \o y \o z \o w, 0, x) /\ Holds(x \o y \o z \o w, Len(x), y)
           /\ Holds(x \o y \o z \o w, Len(x) + Len(y), z)
           /\ Holds(x \o y \o z \o w, Len(x) + Len(y) + Len(z), w)
<1> DEFINE c == x \o y \o z
<1>1. /\ c \in Seq(0..1) /\ Len(c) = Len(x) + Len(y) + Len(z)
      /\ Holds(c, 0, x) /\ Holds(c, Len(x), y) /\ Holds(c, Len(x) + Len(y), z)
      /\ Len(x) \in Nat /\ Len(x) + Len(y) \in Nat
  BY Parts3
<1> HIDE DEF c
<1>2. /\ c \o w \in Seq(0..1) /\ Len(c \o w) = Len(c) + Len(w)
      /\ Holds(c \o w, Len(c), w)
  BY <1>1, Parts2
<1>3. Holds(c \o w, 0, x) /\ Holds(c \o w, Len(x), y) /\ Holds(c \o w, Len(x) + Len(y), z)
  BY <1>1, PartsKept
<1> QED
  BY <1>1, <1>2, <1>3 DEF c

\* Byte strings of a length, among them the addresses and the words.
LEMMA OctetsBits ==
    ASSUME NEW n \in Nat, NEW b \in Octets(n)
    PROVE  /\ b \in Seq(0..255) /\ Len(b) = n
           /\ Bits(b) \in Seq(0..1) /\ Len(Bits(b)) = 8 * n
<1>1. b \in Seq(0..255) /\ Len(b) = n
  BY DEF Octets
<1>2. Bits(b) \in Seq(0..1) /\ Len(Bits(b)) = 8 * Len(b)
  BY <1>1, BitsOfBytes
<1> QED
  BY <1>1, <1>2

LEMMA AddressOctets ==
    ASSUME NEW a \in AnyAddress
    PROVE  /\ a \in Seq(0..255) /\ Len(a) = 33
           /\ Bits(a) \in Seq(0..1) /\ Len(Bits(a)) = 264
<1>1. a \in Octets(33) /\ 33 \in Nat
  BY DEF AnyAddress
<1>2. /\ a \in Seq(0..255) /\ Len(a) = 33
      /\ Bits(a) \in Seq(0..1) /\ Len(Bits(a)) = 8 * 33
  BY <1>1, OctetsBits
<1> QED
  BY <1>2

\* The bits of an address: two for none, 267 for another.
LEMMA AddressLength ==
    ASSUME NEW a \in AnyAddress
    PROVE  /\ AddressBits(a) \in Seq(0..1)
           /\ Len(AddressBits(a)) = IF a = NullAddress THEN 2 ELSE 267
           /\ a # NullAddress => Holds(AddressBits(a), 3, Bits(a))
<1> DEFINE y == Bits(a)
           tag == <<1, 0, 0>>
<1>1. y \in Seq(0..1) /\ Len(y) = 264
  BY AddressOctets
<1>2. tag \in Seq(0..1) /\ Len(tag) = 3 /\ <<0, 0>> \in Seq(0..1) /\ Len(<<0, 0>>) = 2
  OBVIOUS
<1> HIDE DEF y, tag
<1>t. tag \in Seq(0..1) /\ y \in Seq(0..1)
  BY <1>1, <1>2
<1>p. /\ tag \o y \in Seq(0..1) /\ Len(tag \o y) = Len(tag) + Len(y)
      /\ Holds(tag \o y, Len(tag), y)
  BY <1>t, Parts2
<1>3. /\ tag \o y \in Seq(0..1) /\ Len(tag \o y) = 267
      /\ Holds(tag \o y, 3, y)
  BY <1>1, <1>2, <1>p
<1>4. AddressBits(a) = IF a = NullAddress THEN <<0, 0>> ELSE tag \o y
  BY DEF AddressBits, tag, y
<1> QED
  BY <1>2, <1>3, <1>4 DEF y

\* An address that was written is loaded.
LEMMA LoadedAddress ==
    ASSUME NEW bits \in Seq(0..1), NEW at \in Nat, NEW a \in AnyAddress,
           Holds(bits, at, AddressBits(a))
    PROVE  load_address(bits, at) = Loaded(at + Len(AddressBits(a)), a)
<1>1. a \in Seq(0..255) /\ Len(a) = 33 /\ Len(bits) \in Nat
  BY DEF AnyAddress, Octets
<1>2. /\ AddressBits(a) \in Seq(0..1)
      /\ Len(AddressBits(a)) = IF a = NullAddress THEN 2 ELSE 267
      /\ a # NullAddress => Holds(AddressBits(a), 3, Bits(a))
  BY AddressLength
<1>3. at + 2 <= Len(bits)
  BY <1>1, <1>2 DEF Holds
<1> DEFINE tag == SubSeq(bits, at + 1, at + 2)
<1>4. tag = <<bits[at + 1], bits[at + 2]>>
  <2>1. tag \in Seq(0..1) /\ Len(tag) = 2 /\ \A j \in 1..2 : tag[j] = bits[at + j]
    BY <1>3, PartOf
  <2> HIDE DEF tag
  <2>2. tag = <<tag[1], tag[2]>>
    BY <2>1
  <2> QED
    BY <2>1, <2>2
<1> HIDE DEF tag
<1>5. CASE a = NullAddress
  <2>1. AddressBits(a) = <<0, 0>>
    BY <1>5 DEF AddressBits
  <2>2. Len(<<0, 0>>) = 2 /\ <<0, 0>>[1] = 0 /\ <<0, 0>>[2] = 0
    OBVIOUS
  <2>3. bits[at + 1] = 0 /\ bits[at + 2] = 0
    BY <2>1, <2>2 DEF Holds
  <2>4. tag = <<0, 0>>
    BY <1>4, <2>3
  <2> QED
    BY <1>1, <1>2, <1>3, <1>5, <2>4 DEF load_address, tag
<1>6. CASE a # NullAddress
  <2>1. AddressBits(a) = <<1, 0, 0>> \o Bits(a)
    BY <1>6 DEF AddressBits
  <2>2. AddressBits(a)[1] = 1 /\ AddressBits(a)[2] = 0
    <3>1. Bits(a) \in Seq(0..1)
      BY <1>1, BitsOfBytes
    <3> QED
      BY <2>1, <3>1
  <2>3. bits[at + 1] = 1 /\ bits[at + 2] = 0
    BY <1>2, <1>6, <2>2 DEF Holds
  <2>4. tag = <<1, 0>> /\ tag # <<0, 0>>
    BY <1>4, <2>3
  <2>5. Holds(bits, at + 3, Bits(a))
    <3> DEFINE x == AddressBits(a)
               y == Bits(a)
    <3>1. /\ Len(x) = 267 /\ Holds(x, 3, y) /\ Holds(bits, at, x) /\ Len(y) = 264
      BY <1>2, <1>6, AddressOctets
    <3> HIDE DEF x, y
    <3>2. ASSUME NEW j \in 1..Len(y)
          PROVE  bits[(at + 3) + j] = y[j]
      <4>0. x[3 + j] = y[j]
        BY <3>1 DEF Holds
      <4>1. 3 + j \in 1..Len(x) /\ at + (3 + j) = (at + 3) + j /\ x[3 + j] = y[j]
        BY <3>1, <4>0
      <4>2. bits[at + (3 + j)] = x[3 + j]
        BY <3>1, <4>1 DEF Holds
      <4> QED
        BY <4>1, <4>2
    <3>3. (at + 3) + Len(y) <= Len(bits)
      BY <1>1, <3>1 DEF Holds
    <3> QED
      BY <3>2, <3>3 DEF Holds, y
  <2>6. load_bits(bits, at + 3, 264) = Loaded(at + 3 + 264, a)
    <3>1. 8 * Len(a) = 264 /\ at + 3 \in Nat
      BY <1>1
    <3>2. load_bits(bits, at + 3, 8 * Len(a)) = Loaded((at + 3) + 8 * Len(a), a)
      BY <1>1, <2>5, <3>1, LoadedBytes
    <3> QED
      BY <3>1, <3>2
  <2>7. at + 3 + 264 = at + Len(AddressBits(a))
    BY <1>2, <1>6
  <2> QED
    BY <1>1, <1>3, <2>4, <2>6, <2>7 DEF load_address, tag
<1> QED
  BY <1>5, <1>6

\* The bits of a number below 16 make the number.
LEMMA NibbleOfBits ==
    ASSUME NEW n \in 0..15
    PROVE  n = 8 * ((n \div 8) % 2) + 4 * ((n \div 4) % 2) + 2 * ((n \div 2) % 2) + (n % 2)
OBVIOUS

\* The four bits that say how many bytes an amount has.
LengthBits(n) == SubSeq(Bits(<<n>>), 5, 8)

LEMMA LengthBit ==
    ASSUME NEW n \in 0..15
    PROVE  /\ LengthBits(n) \in Seq(0..1) /\ Len(LengthBits(n)) = 4
           /\ LengthBits(n)[1] = (n \div 8) % 2 /\ LengthBits(n)[2] = (n \div 4) % 2
           /\ LengthBits(n)[3] = (n \div 2) % 2 /\ LengthBits(n)[4] = n % 2
<1> DEFINE b == <<n>>
<1>1. b \in Seq(0..255) /\ Len(b) = 1 /\ b[1] = n
  OBVIOUS
<1>2. Bits(b) \in Seq(0..1) /\ Len(Bits(b)) = 8
  <2>1. Bits(b) \in Seq(0..1) /\ Len(Bits(b)) = 8 * Len(b)
    <3> HIDE DEF b
    <3> QED
      BY <1>1, BitsOfBytes
  <2> QED
    BY <1>1, <2>1
<1> HIDE DEF b
<1>3. ASSUME NEW i \in 1..8
      PROVE  Bits(b)[i] = (n \div BitWeight[i]) % 2
  <2>1. i \in 1..8 * Len(b) /\ (i + 7) \div 8 = 1 /\ 1 + ((i - 1) % 8) = i
    BY <1>1
  <2> QED
    BY <1>1, <2>1 DEF Bits
<1>4. /\ Bits(b)[5] = (n \div 8) % 2 /\ Bits(b)[6] = (n \div 4) % 2
      /\ Bits(b)[7] = (n \div 2) % 2 /\ Bits(b)[8] = (n \div 1) % 2
  BY <1>3 DEF BitWeight
<1>5. LengthBits(n) = SubSeq(Bits(b), 4 + 1, 4 + 4)
  BY DEF LengthBits, b
<1>6. /\ LengthBits(n) \in Seq(0..1) /\ Len(LengthBits(n)) = 4
      /\ \A j \in 1..4 : LengthBits(n)[j] = Bits(b)[4 + j]
  <2> DEFINE s == Bits(b)
  <2>1. s \in Seq(0..1) /\ 4 \in Nat /\ 4 + 4 <= Len(s)
    BY <1>2
  <2> HIDE DEF s
  <2>2. /\ SubSeq(s, 4 + 1, 4 + 4) \in Seq(0..1) /\ Len(SubSeq(s, 4 + 1, 4 + 4)) = 4
        /\ \A j \in 1..4 : SubSeq(s, 4 + 1, 4 + 4)[j] = s[4 + j]
    BY <2>1, PartOf
  <2> QED
    BY <1>5, <2>2 DEF s
<1>7. n \div 1 = n
  OBVIOUS
<1> QED
  BY <1>4, <1>6, <1>7

\* The bits of an amount: its length, and its bytes.
LEMMA CoinsParts ==
    ASSUME NEW c \in AnyCoins
    PROVE  /\ c \in Seq(0..255) /\ Len(c) \in 0..15
           /\ CoinsBits(c) \in Seq(0..1) /\ Len(CoinsBits(c)) = 4 + 8 * Len(c)
           /\ Holds(CoinsBits(c), 0, LengthBits(Len(c))) /\ Holds(CoinsBits(c), 4, Bits(c))
<1> DEFINE n == Len(c)
           x == LengthBits(n)
           y == Bits(c)
<1>0. c \in Seq(0..255) /\ Len(c) <= 15
  BY DEF AnyCoins
<1>l. Len(c) \in Nat
  BY <1>0
<1>m. n \in 0..15
  <2>1. n \in Nat /\ n <= 15
    BY <1>0, <1>l
  <2> HIDE DEF n
  <2> QED
    BY <2>1
<1>1. c \in Seq(0..255) /\ n \in 0..15
  BY <1>0, <1>m
<1>2. y \in Seq(0..1) /\ Len(y) = 8 * n
  BY <1>1, BitsOfBytes
<1>3. x \in Seq(0..1) /\ Len(x) = 4
  BY <1>1, LengthBit
<1>4. CoinsBits(c) = x \o y
  BY DEF CoinsBits, LengthBits
<1> HIDE DEF x, y
<1>5. x \in Seq(0..1) /\ y \in Seq(0..1)
  BY <1>2, <1>3
<1>6. /\ x \o y \in Seq(0..1) /\ Len(x \o y) = Len(x) + Len(y)
      /\ Holds(x \o y, 0, x) /\ Holds(x \o y, Len(x), y)
  BY <1>5, Parts2
<1>7. /\ x \o y \in Seq(0..1) /\ Len(x \o y) = 4 + 8 * n /\ Holds(x \o y, 0, x)
      /\ Holds(x \o y, 4, y)
  BY <1>2, <1>3, <1>6
<1> QED
  BY <1>1, <1>4, <1>7 DEF x, y

\* What is held is held within.
LEMMA HoldsWithin ==
    ASSUME NEW bits \in Seq(0..1), NEW x \in Seq(0..1), NEW y \in Seq(0..1),
           NEW at \in Nat, NEW a \in Nat, Holds(bits, at, x), Holds(x, a, y)
    PROVE  Holds(bits, at + a, y)
<1>1. Len(bits) \in Nat /\ Len(x) \in Nat /\ Len(y) \in Nat
  OBVIOUS
<1>2. /\ at + Len(x) <= Len(bits) /\ a + Len(y) <= Len(x)
      /\ \A j \in 1..Len(x) : bits[at + j] = x[j]
      /\ \A j \in 1..Len(y) : x[a + j] = y[j]
  BY DEF Holds
<1>3. ASSUME NEW j \in 1..Len(y)
      PROVE  bits[(at + a) + j] = y[j]
  <2>1. a + j \in 1..Len(x) /\ at + (a + j) = (at + a) + j
    BY <1>1, <1>2
  <2> QED
    BY <1>2, <2>1
<1> QED
  BY <1>1, <1>2, <1>3 DEF Holds

\* An amount that was written is loaded.
LEMMA LoadedCoins ==
    ASSUME NEW bits \in Seq(0..1), NEW at \in Nat, NEW c \in AnyCoins,
           Holds(bits, at, CoinsBits(c))
    PROVE  load_coins(bits, at) = Loaded(at + Len(CoinsBits(c)), c)
<1> DEFINE n == Len(c)
           x == LengthBits(n)
<1>1. /\ c \in Seq(0..255) /\ n \in 0..15
      /\ CoinsBits(c) \in Seq(0..1) /\ Len(CoinsBits(c)) = 4 + 8 * n
      /\ Holds(CoinsBits(c), 0, x) /\ Holds(CoinsBits(c), 4, Bits(c))
  BY CoinsParts
<1>2. /\ x \in Seq(0..1) /\ Len(x) = 4
      /\ x[1] = (n \div 8) % 2 /\ x[2] = (n \div 4) % 2
      /\ x[3] = (n \div 2) % 2 /\ x[4] = n % 2
  BY <1>1, LengthBit
<1>3. Bits(c) \in Seq(0..1)
  BY <1>1, BitsOfBytes
<1>4. Holds(bits, at, x) /\ Holds(bits, at + 4, Bits(c))
  <2>1. Holds(bits, at + 0, x) /\ Holds(bits, at + 4, Bits(c))
    <3> DEFINE y == CoinsBits(c)
               z == Bits(c)
    <3>1. /\ y \in Seq(0..1) /\ z \in Seq(0..1) /\ x \in Seq(0..1)
          /\ Holds(bits, at, y) /\ Holds(y, 0, x) /\ Holds(y, 4, z)
          /\ 0 \in Nat /\ 4 \in Nat
      BY <1>1, <1>2, <1>3
    <3> HIDE DEF x, y, z
    <3>2. Holds(bits, at + 0, x) /\ Holds(bits, at + 4, z)
      BY <3>1, HoldsWithin
    <3> QED
      BY <3>2 DEF z
  <2> QED
    BY <2>1
<1>5. Nibble(bits, at) = n
  <2>1. /\ bits[at + 1] = (n \div 8) % 2 /\ bits[at + 2] = (n \div 4) % 2
        /\ bits[at + 3] = (n \div 2) % 2 /\ bits[at + 4] = n % 2
    <3> HIDE DEF x, n
    <3> QED
      BY <1>2, <1>4 DEF Holds
  <2>2. n = 8 * ((n \div 8) % 2) + 4 * ((n \div 4) % 2) + 2 * ((n \div 2) % 2) + (n % 2)
    BY <1>1, NibbleOfBits
  <2> QED
    BY <2>1, <2>2 DEF Nibble
<1>6. load_bits(bits, at + 4, 8 * n) = Loaded((at + 4) + 8 * n, c)
  <2>1. at + 4 \in Nat
    OBVIOUS
  <2> QED
    BY <1>1, <1>4, <2>1, LoadedBytes
<1>7. at + 4 <= Len(bits) /\ ~(at + 4 > Len(bits))
  <2>1. Len(bits) \in Nat
    OBVIOUS
  <2> HIDE DEF x, n
  <2> QED
    BY <1>2, <1>4, <2>1 DEF Holds
<1>8. (at + 4) + 8 * n = at + Len(CoinsBits(c))
  <2> HIDE DEF n
  <2> QED
    BY <1>1
<1> QED
  BY <1>5, <1>6, <1>7, <1>8 DEF load_coins

-----------------------------------------------------------------------------
(* Parsers. *)

\* A parser that has not failed.
State(at, ref, fields) == [ok |-> TRUE, at |-> at, ref |-> ref, fields |-> fields]

\* The states of a parser that walks n loads of the layout.
Walks(c, layout, n, f) ==
    /\ DOMAIN f = 0..n
    /\ f[0] = State(0, 1, NoFields)
    /\ \A i \in 1..n : f[i]
           = IF f[i - 1].ok THEN LoadNested(c, f[i - 1], layout[i]) ELSE f[i - 1]

LEMMA ReadSteps ==
    ASSUME NEW c, NEW layout, NEW n \in Nat, Len(layout) = n
    PROVE  \E f : Walks(c, layout, n, f) /\ Read(c, layout) = f[n]
<1> DEFINE T == {m \in Nat : ~\E f : Walks(c, layout, m, f)}
<1>1. ASSUME T # {}
      PROVE  FALSE
  <2>1. T \in SUBSET Nat
    OBVIOUS
  <2>2. PICK k \in T : \A j \in T : k <= j
    <3> HIDE DEF T
    <3> QED
      BY <1>1, <2>1, LeastElement
  <2>3. k \in Nat /\ ~\E f : Walks(c, layout, k, f)
    BY <2>2
  <2>4. k # 0
    <3> DEFINE f == [i \in 0..0 |-> State(0, 1, NoFields)]
    <3>1. Walks(c, layout, 0, f)
      BY DEF Walks
    <3> QED
      BY <2>3, <3>1
  <2>5. k - 1 \in Nat /\ ~(k <= k - 1)
    BY <2>3, <2>4
  <2>6. PICK f : Walks(c, layout, k - 1, f)
    BY <2>2, <2>5
  <2> DEFINE g == [i \in 0..k |->
                     IF i = k
                     THEN IF f[k - 1].ok THEN LoadNested(c, f[k - 1],
                         layout[k]) ELSE f[k - 1]
                     ELSE f[i]]
  <2>7. Walks(c, layout, k, g)
    <3>1. \A i \in 0..(k - 1) : g[i] = f[i]
      BY <2>5
    <3>2. g[0] = State(0, 1, NoFields)
      BY <2>5, <2>6, <3>1 DEF Walks
    <3>3. ASSUME NEW i \in 1..k
          PROVE  g[i] = IF g[i - 1].ok THEN LoadNested(c, g[i - 1], layout[i]) ELSE g[i - 1]
      <4>1. i - 1 \in 0..(k - 1) /\ g[i - 1] = f[i - 1]
        BY <2>5, <3>1
      <4>2. CASE i = k
        BY <4>1, <4>2
      <4>3. CASE i # k
        <5>1. i \in 1..(k - 1) /\ g[i] = f[i]
          BY <2>5, <3>1, <4>3
        <5> QED
          BY <2>6, <4>1, <5>1 DEF Walks
      <4> QED
        BY <4>2, <4>3
    <3>4. DOMAIN g = 0..k
      OBVIOUS
    <3> QED
      BY <3>2, <3>3, <3>4 DEF Walks
  <2> QED
    BY <2>3, <2>7
<1>2. PICK f : Walks(c, layout, n, f)
  BY <1>1
<1> DEFINE Eq(h) == h = [i \in 0..n |->
                          IF i = 0 THEN State(0, 1, NoFields)
                          ELSE IF h[i - 1].ok THEN LoadNested(c, h[i - 1], layout[i])
                          ELSE h[i - 1]]
           after == CHOOSE h : Eq(h)
           e == [i \in 0..n |-> f[i]]
<1>3. Eq(e)
  <2> SUFFICES ASSUME NEW i \in 0..n
               PROVE  f[i] = IF i = 0 THEN State(0, 1, NoFields)
                             ELSE IF e[i - 1].ok THEN LoadNested(c, e[i - 1], layout[i])
                             ELSE e[i - 1]
    OBVIOUS
  <2>1. i # 0 => i \in 1..n /\ i - 1 \in 0..n /\ e[i - 1] = f[i - 1]
    OBVIOUS
  <2> QED
    BY <1>2, <2>1 DEF Walks
<1>4. Eq(after)
  <2> HIDE DEF Eq, e
  <2> QED
    BY <1>3
<1>5. Read(c, layout) = after[n]
  BY DEF Read, Walk, State
<1> HIDE DEF after
<1>6. Walks(c, layout, n, after)
  <2>1. DOMAIN after = 0..n
    BY <1>4
  <2>2. after[0] = State(0, 1, NoFields)
    BY <1>4
  <2>3. ASSUME NEW i \in 1..n
        PROVE  after[i] = IF after[i - 1].ok THEN LoadNested(c, after[i - 1], layout[i])
                          ELSE after[i - 1]
    <3>1. i \in 0..n /\ i # 0
      OBVIOUS
    <3> QED
      BY <1>4, <3>1
  <2> QED
    BY <2>1, <2>2, <2>3 DEF Walks
<1> QED
  BY <1>5, <1>6

\* The states of a parser that walks n loads of the layout.
FlatWalks(c, layout, n, f) ==
    /\ DOMAIN f = 0..n
    /\ f[0] = State(0, 1, NoFields)
    /\ \A i \in 1..n : f[i]
           = IF f[i - 1].ok THEN LoadField(c, f[i - 1], layout[i]) ELSE f[i - 1]

LEMMA ReadFlatSteps ==
    ASSUME NEW c, NEW layout, NEW n \in Nat, Len(layout) = n
    PROVE  \E f : FlatWalks(c, layout, n, f) /\ ReadFlat(c, layout) = f[n]
<1> DEFINE T == {m \in Nat : ~\E f : FlatWalks(c, layout, m, f)}
<1>1. ASSUME T # {}
      PROVE  FALSE
  <2>1. T \in SUBSET Nat
    OBVIOUS
  <2>2. PICK k \in T : \A j \in T : k <= j
    <3> HIDE DEF T
    <3> QED
      BY <1>1, <2>1, LeastElement
  <2>3. k \in Nat /\ ~\E f : FlatWalks(c, layout, k, f)
    BY <2>2
  <2>4. k # 0
    <3> DEFINE f == [i \in 0..0 |-> State(0, 1, NoFields)]
    <3>1. FlatWalks(c, layout, 0, f)
      BY DEF FlatWalks
    <3> QED
      BY <2>3, <3>1
  <2>5. k - 1 \in Nat /\ ~(k <= k - 1)
    BY <2>3, <2>4
  <2>6. PICK f : FlatWalks(c, layout, k - 1, f)
    BY <2>2, <2>5
  <2> DEFINE g == [i \in 0..k |->
                     IF i = k
                     THEN IF f[k - 1].ok THEN LoadField(c, f[k - 1],
                         layout[k]) ELSE f[k - 1]
                     ELSE f[i]]
  <2>7. FlatWalks(c, layout, k, g)
    <3>1. \A i \in 0..(k - 1) : g[i] = f[i]
      BY <2>5
    <3>2. g[0] = State(0, 1, NoFields)
      BY <2>5, <2>6, <3>1 DEF FlatWalks
    <3>3. ASSUME NEW i \in 1..k
          PROVE  g[i] = IF g[i - 1].ok THEN LoadField(c, g[i - 1], layout[i]) ELSE g[i - 1]
      <4>1. i - 1 \in 0..(k - 1) /\ g[i - 1] = f[i - 1]
        BY <2>5, <3>1
      <4>2. CASE i = k
        BY <4>1, <4>2
      <4>3. CASE i # k
        <5>1. i \in 1..(k - 1) /\ g[i] = f[i]
          BY <2>5, <3>1, <4>3
        <5> QED
          BY <2>6, <4>1, <5>1 DEF FlatWalks
      <4> QED
        BY <4>2, <4>3
    <3>4. DOMAIN g = 0..k
      OBVIOUS
    <3> QED
      BY <3>2, <3>3, <3>4 DEF FlatWalks
  <2> QED
    BY <2>3, <2>7
<1>2. PICK f : FlatWalks(c, layout, n, f)
  BY <1>1
<1> DEFINE Eq(h) == h = [i \in 0..n |->
                          IF i = 0 THEN State(0, 1, NoFields)
                          ELSE IF h[i - 1].ok THEN LoadField(c, h[i - 1], layout[i])
                          ELSE h[i - 1]]
           after == CHOOSE h : Eq(h)
           e == [i \in 0..n |-> f[i]]
<1>3. Eq(e)
  <2> SUFFICES ASSUME NEW i \in 0..n
               PROVE  f[i] = IF i = 0 THEN State(0, 1, NoFields)
                             ELSE IF e[i - 1].ok THEN LoadField(c, e[i - 1], layout[i])
                             ELSE e[i - 1]
    OBVIOUS
  <2>1. i # 0 => i \in 1..n /\ i - 1 \in 0..n /\ e[i - 1] = f[i - 1]
    OBVIOUS
  <2> QED
    BY <1>2, <2>1 DEF FlatWalks
<1>4. Eq(after)
  <2> HIDE DEF Eq, e
  <2> QED
    BY <1>3
<1>5. ReadFlat(c, layout) = after[n]
  BY DEF ReadFlat, Walk, State
<1> HIDE DEF after
<1>6. FlatWalks(c, layout, n, after)
  <2>1. DOMAIN after = 0..n
    BY <1>4
  <2>2. after[0] = State(0, 1, NoFields)
    BY <1>4
  <2>3. ASSUME NEW i \in 1..n
        PROVE  after[i] = IF after[i - 1].ok THEN LoadField(c, after[i - 1], layout[i])
                          ELSE after[i - 1]
    <3>1. i \in 0..n /\ i # 0
      OBVIOUS
    <3> QED
      BY <1>4, <3>1
  <2> QED
    BY <2>1, <2>2, <2>3 DEF FlatWalks
<1> QED
  BY <1>5, <1>6

\* A load from the bits moves the parser on, or stops it.
LEMMA WordLoads ==
    ASSUME NEW c, NEW at, NEW ref, NEW g, NEW name, NEW next, NEW value
    PROVE  /\ load_bits(c.bits, at, 256) = Loaded(next, value) =>
                 /\ LoadField(c, State(at, ref, g), Word(name))
                        = State(next, ref, Merged(Field(name, value), g))
                 /\ LoadNested(c, State(at, ref, g), Word(name))
                        = State(next, ref, Merged(Field(name, value), g))
           /\ load_bits(c.bits, at, 256) = Failed =>
                 /\ ~LoadField(c, State(at, ref, g), Word(name)).ok
                 /\ ~LoadNested(c, State(at, ref, g), Word(name)).ok
<1> DEFINE p == State(at, ref, g)
<1>1. LoadNested(c, p, Word(name)) = LoadField(c, p, Word(name))
  BY DEF LoadNested, Word
<1>2. p.at = at
  BY DEF State
<1>3. LoadField(c, p, Word(name)) = TakeBits(p, Word(name), load_bits(c.bits, at, 256))
  BY <1>2 DEF LoadField, Word
<1>4. Word(name).as = name
  BY DEF Word
<1>5. ASSUME NEW f
      PROVE  /\ TakeBits(p, f, Loaded(next, value))
                    = State(next, ref, Merged(Field(f.as, value), g))
             /\ ~TakeBits(p, f, Failed).ok
  BY DEF TakeBits, State, Loaded, Failed, Stuck
<1>6. /\ TakeBits(p, Word(name), Loaded(next, value))
             = State(next, ref, Merged(Field(name, value), g))
      /\ ~TakeBits(p, Word(name), Failed).ok
  BY <1>4, <1>5
<1> HIDE DEF p
<1> QED
  BY <1>1, <1>3, <1>6 DEF p

LEMMA Uint8Loads ==
    ASSUME NEW c, NEW at, NEW ref, NEW g, NEW name, NEW next, NEW value
    PROVE  /\ load_bits(c.bits, at, 8) = Loaded(next, value) =>
                 /\ LoadField(c, State(at, ref, g), Uint8(name))
                        = State(next, ref, Merged(Field(name, value), g))
                 /\ LoadNested(c, State(at, ref, g), Uint8(name))
                        = State(next, ref, Merged(Field(name, value), g))
           /\ load_bits(c.bits, at, 8) = Failed =>
                 /\ ~LoadField(c, State(at, ref, g), Uint8(name)).ok
                 /\ ~LoadNested(c, State(at, ref, g), Uint8(name)).ok
<1> DEFINE p == State(at, ref, g)
<1>1. LoadNested(c, p, Uint8(name)) = LoadField(c, p, Uint8(name))
  BY DEF LoadNested, Uint8
<1>2. p.at = at
  BY DEF State
<1>3. LoadField(c, p, Uint8(name)) = TakeBits(p, Uint8(name), load_bits(c.bits, at, 8))
  BY <1>2 DEF LoadField, Uint8
<1>4. Uint8(name).as = name
  BY DEF Uint8
<1>5. ASSUME NEW f
      PROVE  /\ TakeBits(p, f, Loaded(next, value))
                    = State(next, ref, Merged(Field(f.as, value), g))
             /\ ~TakeBits(p, f, Failed).ok
  BY DEF TakeBits, State, Loaded, Failed, Stuck
<1>6. /\ TakeBits(p, Uint8(name), Loaded(next, value))
             = State(next, ref, Merged(Field(name, value), g))
      /\ ~TakeBits(p, Uint8(name), Failed).ok
  BY <1>4, <1>5
<1> HIDE DEF p
<1> QED
  BY <1>1, <1>3, <1>6 DEF p

LEMMA OpCodeLoads ==
    ASSUME NEW c, NEW at, NEW ref, NEW g, NEW next, NEW value
    PROVE  /\ load_bits(c.bits, at, 32) = Loaded(next, value) =>
                 /\ LoadField(c, State(at, ref, g), OpCode)
                        = State(next, ref, Merged(Field("op", value), g))
                 /\ LoadNested(c, State(at, ref, g), OpCode)
                        = State(next, ref, Merged(Field("op", value), g))
           /\ load_bits(c.bits, at, 32) = Failed =>
                 /\ ~LoadField(c, State(at, ref, g), OpCode).ok
                 /\ ~LoadNested(c, State(at, ref, g), OpCode).ok
<1> DEFINE p == State(at, ref, g)
<1>1. LoadNested(c, p, OpCode) = LoadField(c, p, OpCode)
  BY DEF LoadNested, OpCode
<1>2. p.at = at
  BY DEF State
<1>3. LoadField(c, p, OpCode) = TakeBits(p, OpCode, load_bits(c.bits, at, 32))
  BY <1>2 DEF LoadField, OpCode
<1>4. OpCode.as = "op"
  BY DEF OpCode
<1>5. ASSUME NEW f
      PROVE  /\ TakeBits(p, f, Loaded(next, value))
                    = State(next, ref, Merged(Field(f.as, value), g))
             /\ ~TakeBits(p, f, Failed).ok
  BY DEF TakeBits, State, Loaded, Failed, Stuck
<1>6. /\ TakeBits(p, OpCode, Loaded(next, value))
             = State(next, ref, Merged(Field("op", value), g))
      /\ ~TakeBits(p, OpCode, Failed).ok
  BY <1>4, <1>5
<1> HIDE DEF p
<1> QED
  BY <1>1, <1>3, <1>6 DEF p

LEMMA AddressLoads ==
    ASSUME NEW c, NEW at, NEW ref, NEW g, NEW name, NEW next, NEW value
    PROVE  /\ load_address(c.bits, at) = Loaded(next, value) =>
                 /\ LoadField(c, State(at, ref, g), Address(name))
                        = State(next, ref, Merged(Field(name, value), g))
                 /\ LoadNested(c, State(at, ref, g), Address(name))
                        = State(next, ref, Merged(Field(name, value), g))
           /\ load_address(c.bits, at) = Failed =>
                 /\ ~LoadField(c, State(at, ref, g), Address(name)).ok
                 /\ ~LoadNested(c, State(at, ref, g), Address(name)).ok
<1> DEFINE p == State(at, ref, g)
<1>1. LoadNested(c, p, Address(name)) = LoadField(c, p, Address(name))
  BY DEF LoadNested, Address
<1>2. p.at = at
  BY DEF State
<1>3. LoadField(c, p, Address(name)) = TakeBits(p, Address(name), load_address(c.bits, at))
  BY <1>2 DEF LoadField, Address
<1>4. Address(name).as = name
  BY DEF Address
<1>5. ASSUME NEW f
      PROVE  /\ TakeBits(p, f, Loaded(next, value))
                    = State(next, ref, Merged(Field(f.as, value), g))
             /\ ~TakeBits(p, f, Failed).ok
  BY DEF TakeBits, State, Loaded, Failed, Stuck
<1>6. /\ TakeBits(p, Address(name), Loaded(next, value))
             = State(next, ref, Merged(Field(name, value), g))
      /\ ~TakeBits(p, Address(name), Failed).ok
  BY <1>4, <1>5
<1> HIDE DEF p
<1> QED
  BY <1>1, <1>3, <1>6 DEF p

LEMMA CoinsLoads ==
    ASSUME NEW c, NEW at, NEW ref, NEW g, NEW name, NEW next, NEW value
    PROVE  /\ load_coins(c.bits, at) = Loaded(next, value) =>
                 /\ LoadField(c, State(at, ref, g), Coins(name))
                        = State(next, ref, Merged(Field(name, value), g))
                 /\ LoadNested(c, State(at, ref, g), Coins(name))
                        = State(next, ref, Merged(Field(name, value), g))
           /\ load_coins(c.bits, at) = Failed =>
                 /\ ~LoadField(c, State(at, ref, g), Coins(name)).ok
                 /\ ~LoadNested(c, State(at, ref, g), Coins(name)).ok
<1> DEFINE p == State(at, ref, g)
<1>1. LoadNested(c, p, Coins(name)) = LoadField(c, p, Coins(name))
  BY DEF LoadNested, Coins
<1>2. p.at = at
  BY DEF State
<1>3. LoadField(c, p, Coins(name)) = TakeBits(p, Coins(name), load_coins(c.bits, at))
  BY <1>2 DEF LoadField, Coins
<1>4. Coins(name).as = name
  BY DEF Coins
<1>5. ASSUME NEW f
      PROVE  /\ TakeBits(p, f, Loaded(next, value))
                    = State(next, ref, Merged(Field(f.as, value), g))
             /\ ~TakeBits(p, f, Failed).ok
  BY DEF TakeBits, State, Loaded, Failed, Stuck
<1>6. /\ TakeBits(p, Coins(name), Loaded(next, value))
             = State(next, ref, Merged(Field(name, value), g))
      /\ ~TakeBits(p, Coins(name), Failed).ok
  BY <1>4, <1>5
<1> HIDE DEF p
<1> QED
  BY <1>1, <1>3, <1>6 DEF p

\* So does a load from a reference.
LEMMA TextLoads ==
    ASSUME NEW c, NEW at, NEW ref, NEW g, NEW name,
               ref \in DOMAIN c.refs /\ is_utf8(cell_to_buffer(c.refs[ref]))
    PROVE  /\ LoadField(c, State(at, ref, g), Text(name))
                  = State(at, ref + 1, Merged(Field(name, cell_to_buffer(c.refs[ref])), g))
           /\ LoadNested(c, State(at, ref, g), Text(name))
                  = State(at, ref + 1, Merged(Field(name, cell_to_buffer(c.refs[ref])), g))
<1> DEFINE p == State(at, ref, g)
<1>1. LoadNested(c, p, Text(name)) = LoadField(c, p, Text(name))
  BY DEF LoadNested, Text
<1>2. p.ref = ref
  BY DEF State
<1>3. LoadField(c, p, Text(name))
          = TakeRef(c, p, is_utf8(cell_to_buffer(c.refs[ref])),
                    Field(name, cell_to_buffer(c.refs[ref])))
  BY <1>2 DEF LoadField, Text
<1>4. ASSUME NEW fields
      PROVE  TakeRef(c, p, is_utf8(cell_to_buffer(c.refs[ref])), fields)
                 = State(at, ref + 1, Merged(fields, g))
  BY DEF TakeRef, State
<1> HIDE DEF p
<1> QED
  BY <1>1, <1>3, <1>4 DEF p

LEMMA BufferLoads ==
    ASSUME NEW c, NEW at, NEW ref, NEW g, NEW name, ref \in DOMAIN c.refs
    PROVE  /\ LoadField(c, State(at, ref, g), Buffer(name))
                  = State(at, ref + 1, Merged(Field(name, cell_to_buffer(c.refs[ref])), g))
           /\ LoadNested(c, State(at, ref, g), Buffer(name))
                  = State(at, ref + 1, Merged(Field(name, cell_to_buffer(c.refs[ref])), g))
<1> DEFINE p == State(at, ref, g)
<1>1. LoadNested(c, p, Buffer(name)) = LoadField(c, p, Buffer(name))
  BY DEF LoadNested, Buffer
<1>2. p.ref = ref
  BY DEF State
<1>3. LoadField(c, p, Buffer(name))
          = TakeRef(c, p, TRUE, Field(name, cell_to_buffer(c.refs[ref])))
  BY <1>2 DEF LoadField, Buffer
<1>4. ASSUME NEW fields
      PROVE  TakeRef(c, p, TRUE, fields) = State(at, ref + 1, Merged(fields, g))
  BY DEF TakeRef, State
<1> HIDE DEF p
<1> QED
  BY <1>1, <1>3, <1>4 DEF p

LEMMA DataLoads ==
    ASSUME NEW c, NEW at, NEW ref, NEW g, NEW name, ref \in DOMAIN c.refs
    PROVE  /\ LoadField(c, State(at, ref, g), Data(name))
                  = State(at, ref + 1, Merged(Field(name, Bytes(c.refs[ref].bits)), g))
           /\ LoadNested(c, State(at, ref, g), Data(name))
                  = State(at, ref + 1, Merged(Field(name, Bytes(c.refs[ref].bits)), g))
<1> DEFINE p == State(at, ref, g)
<1>1. LoadNested(c, p, Data(name)) = LoadField(c, p, Data(name))
  BY DEF LoadNested, Data
<1>2. p.ref = ref
  BY DEF State
<1>3. LoadField(c, p, Data(name))
          = TakeRef(c, p, TRUE, Field(name, Bytes(c.refs[ref].bits)))
  BY <1>2 DEF LoadField, Data
<1>4. ASSUME NEW fields
      PROVE  TakeRef(c, p, TRUE, fields) = State(at, ref + 1, Merged(fields, g))
  BY DEF TakeRef, State
<1> HIDE DEF p
<1> QED
  BY <1>1, <1>3, <1>4 DEF p

LEMMA SkipLoads ==
    ASSUME NEW c, NEW at, NEW ref, NEW g, ref \in DOMAIN c.refs
    PROVE  /\ LoadField(c, State(at, ref, g), Skip)
                  = State(at, ref + 1, Merged(NoFields, g))
           /\ LoadNested(c, State(at, ref, g), Skip)
                  = State(at, ref + 1, Merged(NoFields, g))
<1> DEFINE p == State(at, ref, g)
<1>1. LoadNested(c, p, Skip) = LoadField(c, p, Skip)
  BY DEF LoadNested, Skip
<1>2. p.ref = ref
  BY DEF State
<1>3. LoadField(c, p, Skip) = TakeRef(c, p, TRUE, NoFields)
  BY <1>2 DEF LoadField, Skip
<1>4. ASSUME NEW fields
      PROVE  TakeRef(c, p, TRUE, fields) = State(at, ref + 1, Merged(fields, g))
  BY DEF TakeRef, State
<1> HIDE DEF p
<1> QED
  BY <1>1, <1>3, <1>4 DEF p

LEMMA InnerLoads ==
    ASSUME NEW c, NEW at, NEW ref, NEW g, NEW layout, NEW fields, NEW a, NEW r,
           ref \in DOMAIN c.refs, ReadFlat(c.refs[ref], layout) = State(a, r, fields)
    PROVE  LoadNested(c, State(at, ref, g), Inner(layout))
               = State(at, ref + 1, Merged(fields, g))
<1> DEFINE p == State(at, ref, g)
<1>2. p.ref = ref
  BY DEF State
<1>i. /\ ReadFlat(c.refs[ref], layout).ok = TRUE
      /\ ReadFlat(c.refs[ref], layout).fields = fields
  BY DEF State
<1>1. LoadNested(c, p, Inner(layout)) = TakeRef(c, p, TRUE, fields)
  BY <1>2, <1>i DEF LoadNested, Inner
<1>4. TakeRef(c, p, TRUE, fields) = State(at, ref + 1, Merged(fields, g))
  BY DEF TakeRef, State
<1> HIDE DEF p
<1> QED
  BY <1>1, <1>4 DEF p

-----------------------------------------------------------------------------
(* Strings as chains of cells. *)

\* Where the bytes of a cell end that start after the given ones.
End(b, start) == IF start + BYTES_PER_CELL < Len(b) THEN start + BYTES_PER_CELL ELSE Len(b)

LEMMA Ends ==
    ASSUME NEW b \in Seq(0..255), NEW start \in 0..Len(b)
    PROVE  /\ End(b, start) \in 0..Len(b) /\ start <= End(b, start)
           /\ start < Len(b) => start < End(b, start)
           /\ End(b, start) - start <= 96
BY DEF End, BYTES_PER_CELL

\* The cell that starts there.
LinkOf(b, f, start) ==
    Cell(Bits(SubSeq(b, start + 1, End(b, start))),
         IF End(b, start) < Len(b) THEN <<f[End(b, start)]>> ELSE <<>>)

Chained(b, f, from) ==
    /\ DOMAIN f = from..Len(b)
    /\ \A start \in from..Len(b) : f[start] = LinkOf(b, f, start)

LEMMA ChainExists ==
    ASSUME NEW b \in Seq(0..255)
    PROVE  \E f : Chained(b, f, 0)
<1> DEFINE n == Len(b)
           T == {m \in Nat : m <= n /\ ~\E f : Chained(b, f, n - m)}
<1>0. n \in Nat
  OBVIOUS
<1>1. ASSUME T # {}
      PROVE  FALSE
  <2>1. T \in SUBSET Nat
    OBVIOUS
  <2>2. PICK k \in T : \A j \in T : k <= j
    <3> HIDE DEF T
    <3> QED
      BY <1>1, <2>1, LeastElement
  <2>3. k \in Nat /\ k <= n /\ ~\E f : Chained(b, f, n - k)
    BY <2>2
  <2> DEFINE s == n - k
             e == End(b, s)
  <2>4. s \in 0..n /\ e \in 0..n /\ s <= e /\ (s < n => s < e)
    <3>1. s \in 0..n
      BY <1>0, <2>3
    <3> HIDE DEF s
    <3> QED
      BY <3>1, Ends
  <2>5. PICK f : \A i \in (s + 1)..n : f[i] = LinkOf(b, f, i)
    <3>1. CASE k = 0
      BY <1>0, <3>1
    <3>2. CASE k # 0
      <4>1. k - 1 \in Nat /\ ~(k <= k - 1) /\ k - 1 <= n /\ n - (k - 1) = s + 1
        BY <1>0, <2>3, <3>2
      <4>2. k - 1 \notin T
        <5> HIDE DEF T
        <5> QED
          BY <2>2, <4>1
      <4>3. \E f : Chained(b, f, n - (k - 1))
        BY <4>1, <4>2
      <4>4. \E f : Chained(b, f, s + 1)
        <5> HIDE DEF s
        <5> QED
          BY <4>1, <4>3
      <4> QED
        BY <4>4 DEF Chained
    <3> QED
      BY <3>1, <3>2
  <2> DEFINE g == [i \in s..n |-> IF i = s THEN LinkOf(b, f, s) ELSE f[i]]
  <2>6. ASSUME NEW i \in s..n
        PROVE  g[i] = LinkOf(b, g, i)
    <3>1. i \in 0..n /\ End(b, i) \in 0..n /\ i <= End(b, i) /\ (i < n => i < End(b, i))
      <4>1. i \in 0..n
        BY <2>4
      <4> QED
        BY <4>1, Ends
    <3>2. End(b, i) < n => g[End(b, i)] = f[End(b, i)]
      <4>1. End(b, i) < n => i < n
        BY <1>0, <3>1
      <4>2. End(b, i) < n => End(b, i) \in s..n /\ End(b, i) # s
        BY <1>0, <2>4, <3>1, <4>1
      <4> HIDE DEF s
      <4> QED
        BY <4>2
    <3>3. LinkOf(b, g, i) = LinkOf(b, f, i)
      <4> HIDE DEF g
      <4> QED
        BY <3>2 DEF LinkOf
    <3>4. g[i] = LinkOf(b, f, i)
      <4>1. CASE i = s
        <5> HIDE DEF s
        <5> QED
          BY <4>1
      <4>2. CASE i # s
        <5>1. i \in (s + 1)..n
          BY <1>0, <2>4, <4>2
        <5>2. g[i] = f[i]
          <6> HIDE DEF s
          <6> QED
            BY <4>2
        <5> QED
          BY <2>5, <5>1, <5>2
      <4> QED
        BY <4>1, <4>2
    <3> QED
      BY <3>3, <3>4
  <2>7. DOMAIN g = s..n
    OBVIOUS
  <2>8. Chained(b, g, s)
    <3> HIDE DEF g, s
    <3> QED
      BY <2>6, <2>7 DEF Chained
  <2> QED
    BY <2>3, <2>8
<1>2. n \notin T /\ n - n = 0
  BY <1>0, <1>1
<1>3. \E f : Chained(b, f, n - n)
  BY <1>0, <1>2
<1> QED
  BY <1>2, <1>3

\* A string is the first cell of such a chain.
LEMMA ChainOfBuffer ==
    ASSUME NEW b \in Seq(0..255)
    PROVE  \E f : Chained(b, f, 0) /\ buffer_to_cell(b) = f[0]
<1> DEFINE Eq(h) == h = [start \in 0..Len(b) |->
                          LET end == IF start + BYTES_PER_CELL < Len(b)
                                     THEN start + BYTES_PER_CELL ELSE Len(b)
                          IN  Cell(Bits(SubSeq(b, start + 1, end)),
                                   IF end < Len(b) THEN <<h[end]>> ELSE <<>>)]
           chain == CHOOSE h : Eq(h)
<1>1. PICK f : Chained(b, f, 0)
  BY ChainExists
<1>2. ASSUME NEW h
      PROVE  Eq(h) <=> h = [start \in 0..Len(b) |-> LinkOf(b, h, start)]
  BY DEF LinkOf, End
<1> DEFINE e == [start \in 0..Len(b) |-> f[start]]
<1>4. \A start \in 0..Len(b) : LinkOf(b, e, start) = LinkOf(b, f, start)
  <2> SUFFICES ASSUME NEW start \in 0..Len(b)
               PROVE  LinkOf(b, e, start) = LinkOf(b, f, start)
    OBVIOUS
  <2>1. End(b, start) \in 0..Len(b)
    BY Ends
  <2>2. e[End(b, start)] = f[End(b, start)]
    BY <2>1
  <2> HIDE DEF e
  <2> QED
    BY <2>2 DEF LinkOf
<1>5. e = [start \in 0..Len(b) |-> LinkOf(b, e, start)]
  <2>1. \A start \in 0..Len(b) : f[start] = LinkOf(b, e, start)
    <3> HIDE DEF e
    <3> QED
      BY <1>1, <1>4 DEF Chained
  <2> QED
    BY <2>1
<1>6. Eq(chain)
  <2>1. Eq(e)
    <3> HIDE DEF Eq, e
    <3> QED
      BY <1>2, <1>5
  <2> HIDE DEF Eq, e
  <2> QED
    BY <2>1
<1>7. chain = [start \in 0..Len(b) |-> LinkOf(b, chain, start)]
  <2> HIDE DEF Eq, chain
  <2> QED
    BY <1>2, <1>6
<1>8. buffer_to_cell(b) = chain[0]
  BY DEF buffer_to_cell, build_cell_chain
<1> HIDE DEF chain
<1>9. Chained(b, chain, 0)
  BY <1>7 DEF Chained
<1> QED
  BY <1>8, <1>9

\* The cells along the first references.
Follows(c, g, n) ==
    /\ DOMAIN g = 0..n
    /\ g[0] = c
    /\ \A k \in 1..n : g[k] = g[k - 1].refs[1]

LEMMA FollowsExists ==
    ASSUME NEW c, NEW n \in Nat
    PROVE  \E g : Follows(c, g, n)
<1> DEFINE T == {m \in Nat : ~\E g : Follows(c, g, m)}
<1>1. ASSUME T # {}
      PROVE  FALSE
  <2>1. T \in SUBSET Nat
    OBVIOUS
  <2>2. PICK k \in T : \A j \in T : k <= j
    <3> HIDE DEF T
    <3> QED
      BY <1>1, <2>1, LeastElement
  <2>3. k \in Nat /\ ~\E g : Follows(c, g, k)
    BY <2>2
  <2>4. k # 0
    <3> DEFINE g == [i \in 0..0 |-> c]
    <3>1. Follows(c, g, 0)
      BY DEF Follows
    <3> QED
      BY <2>3, <3>1
  <2>5. k - 1 \in Nat /\ ~(k <= k - 1)
    BY <2>3, <2>4
  <2>6. PICK f : Follows(c, f, k - 1)
    BY <2>2, <2>5
  <2> DEFINE g == [i \in 0..k |-> IF i = k THEN f[k - 1].refs[1] ELSE f[i]]
  <2>7. Follows(c, g, k)
    <3>1. \A i \in 0..(k - 1) : g[i] = f[i]
      BY <2>5
    <3>2. g[0] = c
      BY <2>5, <2>6, <3>1 DEF Follows
    <3>3. ASSUME NEW i \in 1..k
          PROVE  g[i] = g[i - 1].refs[1]
      <4>1. i - 1 \in 0..(k - 1) /\ g[i - 1] = f[i - 1]
        BY <2>5, <3>1
      <4>2. CASE i = k
        BY <4>1, <4>2
      <4>3. CASE i # k
        <5>1. i \in 1..(k - 1) /\ g[i] = f[i]
          BY <2>5, <3>1, <4>3
        <5> QED
          BY <2>6, <4>1, <5>1 DEF Follows
      <4> QED
        BY <4>2, <4>3
    <3>4. DOMAIN g = 0..k
      OBVIOUS
    <3> QED
      BY <3>2, <3>3, <3>4 DEF Follows
  <2> QED
    BY <2>3, <2>7
<1> QED
  BY <1>1

\* What cell_to_buffer takes of the bits of a cell.
Taken(bits) ==
    SubSeq(bits, 1,
           IF Len(bits) < 8 * BYTES_PER_CELL THEN Len(bits) ELSE 8 * BYTES_PER_CELL)

\* cell_to_buffer follows the references to the first cell that has none.
LEMMA BufferOfCells ==
    ASSUME NEW c, NEW last \in 0..MAX_CELL_DEPTH, NEW h, Follows(c, h, last),
           h[last].refs = <<>>, \A j \in 0..(last - 1) : h[j].refs # <<>>
    PROVE  cell_to_buffer(c)
               = FlattenSeq([k \in 1..last + 1 |-> Bytes(Taken(h[k - 1].bits))])
<1> DEFINE n == MAX_CELL_DEPTH
           Eq(g) == g = [k \in 0..n |-> IF k = 0 THEN c ELSE g[k - 1].refs[1]]
           chain == CHOOSE g : Eq(g)
           Ends0(k) == chain[k].refs = <<>> /\ \A j \in 0..(k - 1) : chain[j].refs # <<>>
           stop == CHOOSE k \in 0..n : Ends0(k)
<1>0. n \in Nat /\ last \in Nat /\ last <= n
  BY DEF MAX_CELL_DEPTH
<1>1. cell_to_buffer(c)
          = FlattenSeq([k \in 1..stop + 1 |-> Bytes(Taken(chain[k - 1].bits))])
  BY DEF cell_to_buffer, Taken
<1>2. Eq(chain)
  <2>1. PICK g : Follows(c, g, n)
    BY <1>0, FollowsExists
  <2> DEFINE e == [k \in 0..n |-> g[k]]
  <2>2. Eq(e)
    <3> HIDE DEF n
    <3> SUFFICES ASSUME NEW k \in 0..n
                 PROVE  g[k] = IF k = 0 THEN c ELSE e[k - 1].refs[1]
      OBVIOUS
    <3>1. k # 0 => k \in 1..n /\ k - 1 \in 0..n /\ e[k - 1] = g[k - 1]
      BY <1>0
    <3> QED
      BY <2>1, <3>1 DEF Follows
  <2> HIDE DEF Eq, e
  <2> QED
    BY <2>2
<1>3. chain[0] = c /\ \A k \in 1..n : chain[k] = chain[k - 1].refs[1]
  <2> HIDE DEF chain, n
  <2> QED
    BY <1>0, <1>2
<1> HIDE DEF chain
<1>4. \A k \in 0..last : chain[k] = h[k]
  <2> DEFINE T == {m \in Nat : m <= last /\ chain[m] # h[m]}
  <2>1. ASSUME T # {}
        PROVE  FALSE
    <3>1. T \in SUBSET Nat
      OBVIOUS
    <3>2. PICK k \in T : \A j \in T : k <= j
      <4> HIDE DEF T
      <4> QED
        BY <2>1, <3>1, LeastElement
    <3>3. k \in Nat /\ k <= last /\ chain[k] # h[k]
      BY <3>2
    <3>4. k # 0
      BY <1>3, <3>3 DEF Follows
    <3>5. k - 1 \in Nat /\ k - 1 <= last /\ ~(k <= k - 1) /\ k \in 1..last /\ k \in 1..n
      <4> HIDE DEF n
      <4> QED
        BY <1>0, <3>3, <3>4
    <3>6. chain[k - 1] = h[k - 1]
      BY <3>2, <3>5
    <3>7. chain[k] = chain[k - 1].refs[1]
      <4> HIDE DEF n
      <4> QED
        BY <1>3, <3>5
    <3>8. h[k] = h[k - 1].refs[1]
      BY <3>5 DEF Follows
    <3> QED
      BY <3>3, <3>6, <3>7, <3>8
  <2> QED
    BY <1>0, <2>1
<1>5. \A j \in 0..(last - 1) : chain[j].refs # <<>>
  <2>1. \A j \in 0..(last - 1) : j \in 0..last
    BY <1>0
  <2> QED
    BY <1>4, <2>1
<1>6. Ends0(last)
  <2>1. last \in 0..last
    BY <1>0
  <2> QED
    BY <1>4, <1>5, <2>1
<1>7. \A k \in 0..n : Ends0(k) => k = last
  <2> SUFFICES ASSUME NEW k \in 0..n, Ends0(k)
               PROVE  k = last
    OBVIOUS
  <2>1. k \in Nat
    BY <1>0
  <2>2. ~(k < last)
    <3>1. k < last => k \in 0..(last - 1)
      BY <1>0, <2>1
    <3> QED
      BY <1>5, <3>1
  <2>3. ~(last < k)
    <3>1. last < k => last \in 0..(k - 1)
      BY <1>0, <2>1
    <3> QED
      BY <1>6, <3>1
  <2> QED
    BY <1>0, <2>1, <2>2, <2>3
<1>8. stop = last
  <2> HIDE DEF Ends0
  <2> QED
    BY <1>6, <1>7
<1>9. [k \in 1..stop + 1 |-> Bytes(Taken(chain[k - 1].bits))]
        = [k \in 1..last + 1 |-> Bytes(Taken(h[k - 1].bits))]
  <2>1. \A k \in 1..last + 1 : k - 1 \in 0..last
    BY <1>0
  <2>2. \A k \in 1..last + 1 : chain[k - 1] = h[k - 1]
    BY <1>4, <2>1
  <2> HIDE DEF stop
  <2> QED
    BY <1>8, <2>2
<1> QED
  BY <1>1, <1>9

\* The bits of bytes make the bytes again.
LEMMA BytesOfBits ==
    ASSUME NEW b \in Seq(0..255)
    PROVE  Bytes(Bits(b)) = b
<1> DEFINE x == Bits(b)
<1>1. /\ x \in Seq(0..1) /\ Len(x) = 8 * Len(b)
      /\ \A k \in 1..Len(b) : Byte(x, 8 * (k - 1)) = b[k]
  BY BitsOfBytes
<1>2. Len(b) \in Nat /\ (8 * Len(b)) \div 8 = Len(b)
  OBVIOUS
<1>3. b = [k \in 1..Len(b) |-> b[k]]
  OBVIOUS
<1> HIDE DEF x
<1>4. Bytes(x) = [k \in 1..Len(b) |-> Byte(x, 8 * (k - 1))]
  BY <1>1, <1>2 DEF Bytes
<1>5. Bytes(x) = b
  BY <1>1, <1>3, <1>4
<1> QED
  BY <1>5 DEF x

LEMMA Concatenated ==
    ASSUME NEW S, NEW x \in Seq(S), NEW y \in Seq(S)
    PROVE  Len(x \o y) = Len(x) + Len(y) /\ x \o y \in Seq(S)
OBVIOUS

\* A part and what follows it.
LEMMA PartsJoin ==
    ASSUME NEW S, NEW b \in Seq(S), NEW i \in 0..Len(b), NEW j \in i..Len(b)
    PROVE  SubSeq(b, 1, i) \o SubSeq(b, i + 1, j) = SubSeq(b, 1, j)
<1> DEFINE x == SubSeq(b, 1, i)
           y == SubSeq(b, i + 1, j)
           z == SubSeq(b, 1, j)
<1>0. Len(b) \in Nat /\ i \in Nat /\ j \in Nat /\ i <= j /\ j <= Len(b)
  OBVIOUS
<1>1. x \in Seq(S) /\ Len(x) = i /\ \A k \in 1..i : x[k] = b[k]
  BY <1>0
<1>2. y \in Seq(S) /\ Len(y) = j - i /\ \A k \in 1..(j - i) : y[k] = b[i + k]
  BY <1>0
<1>3. z \in Seq(S) /\ Len(z) = j /\ \A k \in 1..j : z[k] = b[k]
  BY <1>0
<1> HIDE DEF x, y, z
<1>4. Len(x \o y) = j /\ x \o y \in Seq(S)
  <2>1. Len(x \o y) = Len(x) + Len(y) /\ x \o y \in Seq(S)
    <3>1. x \in Seq(S) /\ y \in Seq(S)
      BY <1>1, <1>2
    <3> QED
      BY <3>1, Concatenated
  <2>2. i + (j - i) = j
    BY <1>0
  <2> QED
    BY <1>1, <1>2, <2>1, <2>2
<1>5. ASSUME NEW k \in 1..j
      PROVE  (x \o y)[k] = z[k]
  <2>1. CASE k <= i
    BY <1>0, <1>1, <1>2, <1>3, <2>1
  <2>2. CASE k > i
    <3>1. k - i \in 1..(j - i) /\ i + (k - i) = k
      BY <1>0, <2>2
    <3>2. (x \o y)[k] = y[k - i]
      BY <1>0, <1>1, <1>2, <2>2
    <3> QED
      BY <1>2, <1>3, <3>1, <3>2
  <2>3. k <= i \/ k > i
    BY <1>0
  <2> QED
    BY <2>1, <2>2, <2>3
<1>6. x \o y = z
  BY <1>3, <1>4, <1>5
<1> QED
  BY <1>6 DEF x, y, z

\* FlattenSeq is what sums up the parts, whatever sums them up.
LEMMA Flattened ==
    ASSUME NEW s, NEW n \in Nat, Len(s) = n + 1, NEW h, h[1] = s[1],
           \A i \in 2..(n + 1) : h[i] = h[i - 1] \o s[i]
    PROVE  FlattenSeq(s) = h[n + 1]
<1> DEFINE Eq(f) == f = [i \in 1..Len(s) |-> IF i = 1 THEN s[i] ELSE f[i - 1] \o s[i]]
           flatten == CHOOSE f : Eq(f)
           e == [i \in 1..Len(s) |-> h[i]]
<1>1. Eq(e)
  <2> SUFFICES ASSUME NEW i \in 1..Len(s)
               PROVE  h[i] = IF i = 1 THEN s[i] ELSE e[i - 1] \o s[i]
    OBVIOUS
  <2>1. i # 1 => i \in 2..(n + 1) /\ i - 1 \in 1..Len(s) /\ e[i - 1] = h[i - 1]
    OBVIOUS
  <2> QED
    BY <2>1
<1>2. Eq(flatten)
  <2> HIDE DEF Eq, e
  <2> QED
    BY <1>1
<1>3. FlattenSeq(s) = flatten[n + 1]
  <2>1. Len(s) # 0
    OBVIOUS
  <2> QED
    BY <2>1 DEF FlattenSeq
<1> HIDE DEF flatten
<1>4. flatten[1] = s[1] /\ \A i \in 2..(n + 1) : flatten[i] = flatten[i - 1] \o s[i]
  <2>1. flatten = [i \in 1..(n + 1) |-> IF i = 1 THEN s[i] ELSE flatten[i - 1] \o s[i]]
    BY <1>2
  <2>2. 1 \in 1..(n + 1) /\ \A i \in 2..(n + 1) : i \in 1..(n + 1) /\ i # 1
    OBVIOUS
  <2> HIDE DEF Eq
  <2> QED
    BY <2>1, <2>2
<1> DEFINE T == {m \in Nat : m <= n /\ flatten[m + 1] # h[m + 1]}
<1>5. ASSUME T # {}
      PROVE  FALSE
  <2>1. T \in SUBSET Nat
    OBVIOUS
  <2>2. PICK k \in T : \A j \in T : k <= j
    <3> HIDE DEF T
    <3> QED
      BY <1>5, <2>1, LeastElement
  <2>3. k \in Nat /\ k <= n /\ flatten[k + 1] # h[k + 1]
    BY <2>2
  <2>4. k # 0
    BY <1>4, <2>3
  <2>5. /\ k - 1 \in Nat /\ k - 1 <= n /\ ~(k <= k - 1) /\ (k - 1) + 1 = k
        /\ k + 1 \in 2..(n + 1)
        /\ (k + 1) - 1 = k
    BY <2>3, <2>4
  <2>6. flatten[k] = h[k]
    <3>1. k - 1 \notin T
      <4> HIDE DEF T
      <4> QED
        BY <2>2, <2>5
    <3> QED
      BY <2>5, <3>1
  <2>7. flatten[k + 1] = flatten[k] \o s[k + 1] /\ h[k + 1] = h[k] \o s[k + 1]
    BY <1>4, <2>5
  <2> QED
    BY <2>3, <2>6, <2>7
<1>6. flatten[n + 1] = h[n + 1]
  BY <1>5
<1> QED
  BY <1>3, <1>6

\* The number of the last cell of a string.
IsLast(n, last) ==
    /\ last \in Nat /\ last <= 1024
    /\ 96 * last + 96 >= n
    /\ \A j \in 0..(last - 1) : 96 * j + 96 < n

LEMMA LastCell ==
    ASSUME NEW n \in Nat, n <= 96 * 1024
    PROVE  \E last : IsLast(n, last)
<1> DEFINE T == {k \in Nat : 96 * k + 96 >= n}
<1>1. 1024 \in T /\ T \in SUBSET Nat
  OBVIOUS
<1>2. PICK last \in T : \A j \in T : last <= j
  <2> HIDE DEF T
  <2> QED
    BY <1>1, LeastElement
<1>3. last \in Nat /\ last <= 1024 /\ 96 * last + 96 >= n
  BY <1>1, <1>2
<1>4. ASSUME NEW j \in 0..(last - 1)
      PROVE  96 * j + 96 < n
  <2>1. j \in Nat /\ ~(last <= j)
    BY <1>3
  <2>2. j \notin T
    <3> HIDE DEF T
    <3> QED
      BY <1>2, <2>1
  <2> QED
    BY <2>1, <2>2
<1>5. IsLast(n, last)
  BY <1>3, <1>4 DEF IsLast
<1> QED
  BY <1>5

LEMMA PartOfBytes ==
    ASSUME NEW b \in Seq(0..255), NEW at \in Nat, NEW n \in Nat, at + n <= Len(b)
    PROVE  /\ SubSeq(b, at + 1, at + n) \in Seq(0..255)
           /\ Len(SubSeq(b, at + 1, at + n)) = n
<1> DEFINE S == 0..255
<1>1. b \in Seq(S)
  OBVIOUS
<1> HIDE DEF S
<1>2. /\ SubSeq(b, at + 1, at + n) \in Seq(S)
      /\ Len(SubSeq(b, at + 1, at + n)) = n
  BY <1>1
<1> QED
  BY <1>2 DEF S

\* A string that fits a chain of cells is read as it was written.
LEMMA StringKept ==
    ASSUME NEW b \in AnyBuffer
    PROVE  /\ cell_to_buffer(buffer_to_cell(b)) = b
           /\ Bytes(buffer_to_cell(b).bits) = SubSeq(b, 1, End(b, 0))
<1> DEFINE n == Len(b)
<1>1. b \in Seq(0..255) /\ n \in Nat /\ n <= 96 * 1024
  BY DEF AnyBuffer, BYTES_PER_CELL, MAX_CELL_DEPTH
<1>2. PICK f : Chained(b, f, 0) /\ buffer_to_cell(b) = f[0]
  BY <1>1, ChainOfBuffer
<1>l. PICK last : IsLast(n, last)
  <2>1. n \in Nat /\ n <= 96 * 1024
    BY <1>1
  <2> HIDE DEF n
  <2> QED
    BY <2>1, LastCell
<1>3. 96 * last + 96 >= n /\ \A j \in 0..(last - 1) : 96 * j + 96 < n
  BY <1>l DEF IsLast
<1>4. last \in Nat /\ last <= 1024
  BY <1>l DEF IsLast
<1>5. ASSUME NEW k \in 0..last
      PROVE  /\ 96 * k \in 0..n
             /\ End(b, 96 * k) = IF k = last THEN n ELSE 96 * (k + 1)
             /\ k # last => 96 * (k + 1) < n
  <2>0. k \in Nat /\ k <= last
    BY <1>4
  <2>1. k # last => 96 * k + 96 < n
    <3>1. k # last => k \in 0..(last - 1)
      BY <1>4, <2>0
    <3> QED
      BY <1>3, <3>1
  <2>2. k = 0 \/ 96 * (k - 1) + 96 < n
    <3>1. k # 0 => k - 1 \in 0..(last - 1)
      BY <1>4, <2>0
    <3> QED
      BY <1>3, <3>1
  <2>3. 96 * k \in 0..n
    <3> HIDE DEF n
    <3> QED
      BY <1>1, <2>0, <2>2
  <2>4. End(b, 96 * k) = IF 96 * k + 96 < n THEN 96 * k + 96 ELSE n
    BY DEF End, BYTES_PER_CELL
  <2>5. k = last => ~(96 * k + 96 < n)
    <3> HIDE DEF n
    <3> QED
      BY <1>1, <1>3, <1>4
  <2>6. 96 * (k + 1) = 96 * k + 96
    BY <2>0
  <2> HIDE DEF n
  <2> QED
    BY <2>1, <2>3, <2>4, <2>5, <2>6
<1> DEFINE h == [k \in 0..last |-> f[96 * k]]
           part(k) == SubSeq(b, 96 * k + 1, End(b, 96 * k))
<1>6. ASSUME NEW k \in 0..last
      PROVE  /\ h[k].bits = Bits(part(k))
             /\ h[k].refs = IF k = last THEN <<>> ELSE <<f[96 * (k + 1)]>>
  <2>1. f[96 * k] = LinkOf(b, f, 96 * k)
    BY <1>2, <1>5 DEF Chained
  <2>2. h[k] = Cell(Bits(part(k)),
                    IF End(b, 96 * k) < n THEN <<f[End(b, 96 * k)]>> ELSE <<>>)
    BY <2>1 DEF LinkOf
  <2>3. /\ k = last => End(b, 96 * k) = n /\ ~(n < n)
        /\ k # last => End(b, 96 * k) = 96 * (k + 1) /\ 96 * (k + 1) < n
    <3> HIDE DEF n
    <3> QED
      BY <1>1, <1>5
  <2> HIDE DEF h, part, n
  <2>4. /\ h[k].bits = Bits(part(k))
        /\ h[k].refs = IF End(b, 96 * k) < n THEN <<f[End(b, 96 * k)]>> ELSE <<>>
    BY <2>2 DEF Cell
  <2> QED
    BY <2>3, <2>4
<1>7. Follows(f[0], h, last)
  <2>1. h[0] = f[0]
    <3>1. 0 \in 0..last /\ 96 * 0 = 0
      BY <1>4
    <3> QED
      BY <3>1
  <2>2. ASSUME NEW k \in 1..last
        PROVE  h[k] = h[k - 1].refs[1]
    <3>1. k \in 0..last /\ k - 1 \in 0..last /\ k - 1 # last /\ (k - 1) + 1 = k
      BY <1>4
    <3>2. h[k - 1].refs = <<f[96 * k]>>
      <4> HIDE DEF h
      <4> QED
        BY <1>6, <3>1
    <3>3. h[k] = f[96 * k]
      BY <3>1
    <3> HIDE DEF h
    <3> QED
      BY <3>2, <3>3
  <2>3. DOMAIN h = 0..last
    OBVIOUS
  <2> HIDE DEF h
  <2> QED
    BY <2>1, <2>2, <2>3 DEF Follows
<1>8. cell_to_buffer(f[0]) = FlattenSeq([k \in 1..last + 1 |-> Bytes(Taken(h[k - 1].bits))])
  <2>1. last \in 0..last /\ h[last].refs = <<>>
    <3>1. last \in 0..last
      BY <1>4
    <3> HIDE DEF h
    <3> QED
      BY <1>6, <3>1
  <2>2. \A j \in 0..(last - 1) : h[j].refs # <<>>
    <3> SUFFICES ASSUME NEW j \in 0..(last - 1)
                 PROVE  h[j].refs # <<>>
      OBVIOUS
    <3>1. j \in 0..last /\ j # last
      BY <1>4
    <3>2. h[j].refs = <<f[96 * (j + 1)]>>
      <4> HIDE DEF h
      <4> QED
        BY <1>6, <3>1
    <3> HIDE DEF h
    <3> QED
      BY <3>2
  <2>3. last \in 0..MAX_CELL_DEPTH
    BY <1>4 DEF MAX_CELL_DEPTH
  <2> HIDE DEF h
  <2> QED
    BY <1>7, <2>1, <2>2, <2>3, BufferOfCells
<1>9. ASSUME NEW k \in 0..last
      PROVE  /\ part(k) \in Seq(0..255) /\ Len(part(k)) <= 96
             /\ Bytes(Taken(h[k].bits)) = part(k)
  <2> DEFINE s == 96 * k
             e == End(b, s)
             m == e - s
  <2>1. s \in 0..n /\ e \in 0..n /\ s <= e /\ e - s <= 96
    <3>1. s \in 0..n
      BY <1>5
    <3> HIDE DEF s
    <3> QED
      BY <1>1, <3>1, Ends
  <2>2. part(k) = SubSeq(b, s + 1, s + m) /\ m \in 0..96 /\ s + m <= n
    <3>1. s + m = e /\ m \in 0..96 /\ s + m <= n
      <4> HIDE DEF s, e, n
      <4> QED
        BY <1>1, <2>1
    <3> QED
      BY <3>1
  <2>3. part(k) \in Seq(0..255) /\ Len(part(k)) = m
    <3>1. s \in Nat /\ m \in Nat
      <4> HIDE DEF s, m, n
      <4> QED
        BY <1>1, <2>1, <2>2
    <3>2. s + m <= Len(b)
      BY <2>2
    <3> HIDE DEF s, m
    <3>3. /\ SubSeq(b, s + 1, s + m) \in Seq(0..255)
          /\ Len(SubSeq(b, s + 1, s + m)) = m
      <4>1. b \in Seq(0..255)
        BY <1>1
      <4> QED
        BY <4>1, <3>1, <3>2, PartOfBytes, ZenonT(30)
    <3> HIDE DEF part
    <3> QED
      BY <2>2, <3>3
  <2> DEFINE x == Bits(part(k))
  <2>4. x \in Seq(0..1) /\ Len(x) = 8 * m /\ Bytes(x) = part(k)
    <3>1. x \in Seq(0..1) /\ Len(x) = 8 * Len(part(k))
      <4> HIDE DEF part
      <4> QED
        BY <2>3, BitsOfBytes
    <3>2. Bytes(x) = part(k)
      <4> HIDE DEF part
      <4> QED
        BY <2>3, BytesOfBits
    <3> HIDE DEF x, part, m
    <3> QED
      BY <2>3, <3>1, <3>2
  <2>5. Taken(x) = x
    <3>1. x \in Seq(0..1) /\ Len(x) <= 768 /\ Len(x) \in Nat
      <4> HIDE DEF x, m
      <4> QED
        BY <2>2, <2>4
    <3> HIDE DEF x
    <3>2. Taken(x) = SubSeq(x, 1, Len(x))
      <4> DEFINE l == Len(x)
      <4>1. l \in Nat /\ l <= 768
        BY <3>1
      <4>2. Taken(x) = SubSeq(x, 1, IF l < 8 * 96 THEN l ELSE 8 * 96)
        BY DEF Taken, BYTES_PER_CELL
      <4> HIDE DEF l
      <4>3. (IF l < 8 * 96 THEN l ELSE 8 * 96) = l
        BY <4>1
      <4>4. Taken(x) = SubSeq(x, 1, l)
        BY <4>2, <4>3
      <4> QED
        BY <4>4 DEF l
    <3>3. SubSeq(x, 1, Len(x)) = x
      BY <3>1
    <3> QED
      BY <3>2, <3>3
  <2>6. h[k].bits = x
    <3> HIDE DEF h, part
    <3> QED
      BY <1>6
  <2> HIDE DEF h, x, part, m
  <2> QED
    BY <2>2, <2>3, <2>4, <2>5, <2>6
<1> DEFINE parts == [k \in 1..last + 1 |-> Bytes(Taken(h[k - 1].bits))]
           sum == [k \in 1..last + 1 |-> SubSeq(b, 1, End(b, 96 * (k - 1)))]
<1>10. \A k \in 1..last + 1 : parts[k] = part(k - 1)
  <2>1. \A k \in 1..last + 1 : k - 1 \in 0..last
    BY <1>4
  <2> HIDE DEF h, part
  <2> QED
    BY <1>9, <2>1
<1>11. FlattenSeq(parts) = sum[last + 1]
  <2>1. sum[1] = parts[1]
    <3>1. 1 \in 1..last + 1 /\ 96 * (1 - 1) = 0 /\ 1 - 1 = 0 /\ 96 * 0 + 1 = 1 /\ 96 * 0 = 0
      BY <1>4
    <3>2. parts[1] = SubSeq(b, 1, End(b, 0))
      <4> HIDE DEF parts
      <4> QED
        BY <1>10, <3>1
    <3> HIDE DEF parts
    <3> QED
      BY <3>1, <3>2
  <2>2. ASSUME NEW k \in 2..(last + 1)
        PROVE  sum[k] = sum[k - 1] \o parts[k]
    <3>1. /\ k \in 1..last + 1 /\ k - 1 \in 1..last + 1 /\ k - 1 \in 0..last
          /\ (k - 1) - 1 \in 0..last /\ (k - 1) - 1 # last
      BY <1>4
    <3> DEFINE i == 96 * (k - 1)
               e == End(b, i)
    <3>2. End(b, 96 * ((k - 1) - 1)) = i
      <4>1. End(b, 96 * ((k - 1) - 1)) = 96 * (((k - 1) - 1) + 1)
        BY <1>5, <3>1
      <4>2. ((k - 1) - 1) + 1 = k - 1
        BY <3>1
      <4> QED
        BY <4>1, <4>2
    <3>3. i \in 0..n /\ e \in i..n
      <4>1. i \in 0..n
        BY <1>5, <3>1
      <4>2. e \in 0..n /\ i <= e
        <5> HIDE DEF i
        <5> QED
          BY <1>1, <4>1, Ends
      <4> HIDE DEF i, e, n
      <4> QED
        BY <1>1, <4>1, <4>2
    <3>4. parts[k] = SubSeq(b, i + 1, e)
      <4> HIDE DEF parts
      <4> QED
        BY <1>10, <3>1
    <3>5. sum[k] = SubSeq(b, 1, e) /\ sum[k - 1] = SubSeq(b, 1, i)
      <4> HIDE DEF parts
      <4> QED
        BY <3>1, <3>2
    <3> HIDE DEF parts, sum, i, e
    <3> QED
      BY <1>1, <3>3, <3>4, <3>5, PartsJoin
  <2>3. Len(parts) = last + 1
    BY <1>4
  <2> HIDE DEF parts, sum
  <2> QED
    BY <1>4, <2>1, <2>2, <2>3, Flattened
<1>12. sum[last + 1] = b
  <2>1. last + 1 \in 1..last + 1 /\ (last + 1) - 1 = last /\ last \in 0..last
    BY <1>4
  <2>2. End(b, 96 * last) = n
    BY <1>5, <2>1
  <2>3. SubSeq(b, 1, n) = b
    BY <1>1
  <2> QED
    BY <2>1, <2>2, <2>3
<1>13. Bytes(f[0].bits) = SubSeq(b, 1, End(b, 0))
  <2>1. 0 \in 0..last /\ 96 * 0 = 0 /\ 0 + 1 = 1
    BY <1>4
  <2>2. h[0] = f[0]
    BY <2>1
  <2>3. h[0].bits = Bits(part(0)) /\ part(0) \in Seq(0..255)
    <3> HIDE DEF h, part
    <3> QED
      BY <1>6, <1>9, <2>1
  <2>4. Bytes(Bits(part(0))) = part(0)
    <3> HIDE DEF part
    <3> QED
      BY <2>3, BytesOfBits
  <2>5. part(0) = SubSeq(b, 1, End(b, 0))
    BY <2>1
  <2> HIDE DEF h, part
  <2> QED
    BY <2>2, <2>3, <2>4, <2>5
<1> QED
  BY <1>2, <1>8, <1>11, <1>12, <1>13

LEMMA TextKept ==
    ASSUME NEW b \in AnyText
    PROVE  b \in AnyBuffer /\ cell_to_buffer(buffer_to_cell(b)) = b /\ is_utf8(b)
<1>1. b \in Seq(0..127) /\ Len(b) <= BYTES_PER_CELL * MAX_CELL_DEPTH
  BY DEF AnyText
<1>2. Len(b) \in Nat /\ DOMAIN b = 1..Len(b) /\ \A k \in 1..Len(b) : b[k] \in 0..127
  BY <1>1, Elements
<1>3. ASSUME NEW k \in 1..Len(b)
      PROVE  b[k] \in 0..255 /\ b[k] < 128
  <2>1. PICK x \in 0..127 : x = b[k]
    BY <1>2
  <2>2. x \in 0..255 /\ x < 128
    OBVIOUS
  <2> QED
    BY <2>1, <2>2
<1>4. b \in Seq(0..255)
  BY <1>1, <1>2, <1>3
<1>5. b \in AnyBuffer
  BY <1>1, <1>4 DEF AnyBuffer
<1>6. is_utf8(b)
  BY <1>2, <1>3 DEF is_utf8
<1> QED
  BY <1>5, <1>6, StringKept

-----------------------------------------------------------------------------
(* What a layout reads. *)

\* The fields have the value under the name.
Has(fields, name, value) == name \in DOMAIN fields /\ fields[name] = value

LEMMA HasNew ==
    ASSUME NEW name, NEW value, NEW g
    PROVE  Has(Merged(Field(name, value), g), name, value)
BY DEF Has, Merged, Field

LEMMA HasOld ==
    ASSUME NEW name, NEW value, NEW g, NEW x, NEW y, Has(g, x, y), x # name
    PROVE  Has(Merged(Field(name, value), g), x, y)
BY DEF Has, Merged, Field

LEMMA HasInner ==
    ASSUME NEW h, NEW g, NEW x, NEW y, Has(h, x, y)
    PROVE  Has(Merged(h, g), x, y)
BY DEF Has, Merged

LEMMA HasOuter ==
    ASSUME NEW h, NEW g, NEW x, NEW y, Has(g, x, y), x \notin DOMAIN h
    PROVE  Has(Merged(h, g), x, y)
BY DEF Has, Merged

LEMMA NamesOf ==
    ASSUME NEW name, NEW value, NEW g
    PROVE  DOMAIN Merged(Field(name, value), g) = {name} \cup DOMAIN g
BY DEF Merged, Field

LEMMA NamesInner ==
    ASSUME NEW h, NEW g
    PROVE  DOMAIN Merged(h, g) = DOMAIN h \cup DOMAIN g
BY DEF Merged

LEMMA NoNames == DOMAIN NoFields = {}
BY DEF NoFields

\* A parser that has not failed goes on.
LEMMA GoesOn ==
    ASSUME NEW at, NEW ref, NEW g
    PROVE  State(at, ref, g).ok = TRUE
BY DEF State

\* Words and small numbers that were written are loaded.
LEMMA LoadedOctets ==
    ASSUME NEW bits \in Seq(0..1), NEW at \in Nat, NEW n \in Nat, NEW b \in Octets(n),
           Holds(bits, at, Bits(b))
    PROVE  load_bits(bits, at, 8 * n) = Loaded(at + Len(Bits(b)), b)
<1>1. b \in Seq(0..255) /\ Len(b) = n /\ Len(Bits(b)) = 8 * n
  BY OctetsBits
<1>2. load_bits(bits, at, 8 * Len(b)) = Loaded(at + 8 * Len(b), b)
  BY <1>1, LoadedBytes
<1> QED
  BY <1>1, <1>2

LEMMA LoadedWord ==
    ASSUME NEW bits \in Seq(0..1), NEW at \in Nat, NEW b \in AnyWord,
               Holds(bits, at, Bits(b))
    PROVE  load_bits(bits, at, 256) = Loaded(at + Len(Bits(b)), b)
<1>1. b \in Octets(32) /\ 32 \in Nat /\ 8 * 32 = 256
  BY DEF AnyWord
<1>2. load_bits(bits, at, 8 * 32) = Loaded(at + Len(Bits(b)), b)
  BY <1>1, LoadedOctets
<1> QED
  BY <1>1, <1>2

LEMMA LoadedUint8 ==
    ASSUME NEW bits \in Seq(0..1), NEW at \in Nat, NEW b \in Octets(1),
               Holds(bits, at, Bits(b))
    PROVE  load_bits(bits, at, 8) = Loaded(at + Len(Bits(b)), b)
<1>1. 1 \in Nat /\ 8 * 1 = 8
  OBVIOUS
<1>2. load_bits(bits, at, 8 * 1) = Loaded(at + Len(Bits(b)), b)
  BY <1>1, LoadedOctets
<1> QED
  BY <1>1, <1>2

LEMMA LoadedOpCode ==
    ASSUME NEW bits \in Seq(0..1), NEW at \in Nat, NEW b \in Octets(4),
               Holds(bits, at, Bits(b))
    PROVE  load_bits(bits, at, 32) = Loaded(at + Len(Bits(b)), b)
<1>1. 4 \in Nat /\ 8 * 4 = 32
  OBVIOUS
<1>2. load_bits(bits, at, 8 * 4) = Loaded(at + Len(Bits(b)), b)
  BY <1>1, LoadedOctets
<1> QED
  BY <1>1, <1>2

\* The bits of a value.
LEMMA WordBits ==
    ASSUME NEW b \in AnyWord
    PROVE  Bits(b) \in Seq(0..1) /\ Len(Bits(b)) = 256
<1>1. 32 \in Nat /\ b \in Octets(32)
  BY DEF AnyWord
<1>2. Bits(b) \in Seq(0..1) /\ Len(Bits(b)) = 8 * 32
  BY <1>1, OctetsBits
<1>3. 8 * 32 = 256
  OBVIOUS
<1> QED
  BY <1>2, <1>3

LEMMA SmallBits ==
    ASSUME NEW n \in Nat, NEW b \in Octets(n)
    PROVE  Bits(b) \in Seq(0..1)
BY OctetsBits

-----------------------------------------------------------------------------
(* Where the values are in a cell. *)

BitStrings == Seq(0..1)
Joined1(x) == x
Joined2(x, y) == x \o y
Joined3(x, y, z) == x \o y \o z
Joined4(x, y, z, w) == x \o y \o z \o w

\* The position after a part.
After(at, x) == at + Len(x)

\* The bits of cell c have x from position at on.
In(c, at, x) == at \in Nat /\ c.bits \in Seq(0..1) /\ Holds(c.bits, at, x)

LEMMA In1 ==
    ASSUME NEW c, NEW x \in BitStrings, c.bits = Joined1(x)
    PROVE  In(c, 0, x)
BY DEF BitStrings, Joined1, In, Holds

LEMMA In2 ==
    ASSUME NEW c, NEW x \in BitStrings, NEW y \in BitStrings, c.bits = Joined2(x, y)
    PROVE  In(c, 0, x) /\ In(c, After(0, x), y)
<1> DEFINE b == x \o y
<1>1. x \in Seq(0..1) /\ y \in Seq(0..1)
  BY DEF BitStrings
<1>2. /\ b \in Seq(0..1) /\ Holds(b, 0, x) /\ Holds(b, Len(x), y) /\ Len(x) \in Nat
  BY <1>1, Parts2
<1>3. c.bits = b
  BY DEF Joined2
<1> HIDE DEF b
<1> QED
  BY <1>2, <1>3 DEF In, After

LEMMA In3 ==
    ASSUME NEW c, NEW x \in BitStrings, NEW y \in BitStrings, NEW z \in BitStrings,
           c.bits = Joined3(x, y, z)
    PROVE  In(c, 0, x) /\ In(c, After(0, x), y) /\ In(c, After(After(0, x), y), z)
<1> DEFINE b == x \o y \o z
<1>1. x \in Seq(0..1) /\ y \in Seq(0..1) /\ z \in Seq(0..1)
  BY DEF BitStrings
<1>2. /\ b \in Seq(0..1) /\ Holds(b, 0, x) /\ Holds(b, Len(x), y)
      /\ Holds(b, Len(x) + Len(y), z)
  BY <1>1, Parts3
<1>3. Len(x) \in Nat /\ Len(y) \in Nat
  BY <1>1
<1>4. c.bits = b
  BY DEF Joined3
<1> HIDE DEF b
<1> QED
  BY <1>2, <1>3, <1>4 DEF In, After

LEMMA In4 ==
    ASSUME NEW c, NEW x \in BitStrings, NEW y \in BitStrings, NEW z \in BitStrings,
           NEW w \in BitStrings, c.bits = Joined4(x, y, z, w)
    PROVE  /\ In(c, 0, x) /\ In(c, After(0, x), y) /\ In(c, After(After(0, x), y), z)
           /\ In(c, After(After(After(0, x), y), z), w)
<1> DEFINE b == x \o y \o z \o w
<1>1. x \in Seq(0..1) /\ y \in Seq(0..1) /\ z \in Seq(0..1) /\ w \in Seq(0..1)
  BY DEF BitStrings
<1>2. /\ b \in Seq(0..1) /\ Holds(b, 0, x) /\ Holds(b, Len(x), y)
      /\ Holds(b, Len(x) + Len(y), z) /\ Holds(b, Len(x) + Len(y) + Len(z), w)
  BY <1>1, Parts4
<1>3. Len(x) \in Nat /\ Len(y) \in Nat /\ Len(z) \in Nat
  BY <1>1
<1>4. c.bits = b
  BY DEF Joined4
<1> HIDE DEF b
<1> QED
  BY <1>2, <1>3, <1>4 DEF In, After

\* A value of each kind, in the bits at a position or behind a reference.
WordAt(c, at, v) == v \in AnyWord /\ In(c, at, Bits(v))
Uint8At(c, at, v) == v \in Octets(1) /\ In(c, at, Bits(v))
OpCodeAt(c, at, v) == v \in Octets(4) /\ In(c, at, Bits(v))
AddressAt(c, at, v) == v \in AnyAddress /\ In(c, at, AddressBits(v))
CoinsAt(c, at, v) == v \in AnyCoins /\ In(c, at, CoinsBits(v))
TextAt(c, k, v) == v \in AnyText /\ k \in DOMAIN c.refs /\ c.refs[k] = buffer_to_cell(v)
BufferAt(c, k, v) == v \in AnyBuffer /\ k \in DOMAIN c.refs /\ c.refs[k] = buffer_to_cell(v)
RefAt(c, k) == k \in DOMAIN c.refs
InnerAt(c, k, layout, g) ==
    k \in DOMAIN c.refs /\ \E a, r : ReadFlat(c.refs[k], layout) = State(a, r, g)

LEMMA WordString ==
    ASSUME NEW v \in AnyWord
    PROVE  Bits(v) \in BitStrings
BY WordBits DEF BitStrings

LEMMA Uint8String ==
    ASSUME NEW v \in Octets(1)
    PROVE  Bits(v) \in BitStrings
<1>1. PICK n \in Nat : n = 1
  OBVIOUS
<1> QED
  BY <1>1, SmallBits DEF BitStrings

LEMMA OpCodeString ==
    ASSUME NEW v \in Octets(4)
    PROVE  Bits(v) \in BitStrings
<1>1. PICK n \in Nat : n = 4
  OBVIOUS
<1> QED
  BY <1>1, SmallBits DEF BitStrings

LEMMA AddressString ==
    ASSUME NEW v \in AnyAddress
    PROVE  AddressBits(v) \in BitStrings
BY AddressLength DEF BitStrings

LEMMA CoinsString ==
    ASSUME NEW v \in AnyCoins
    PROVE  CoinsBits(v) \in BitStrings
BY CoinsParts DEF BitStrings

-----------------------------------------------------------------------------
(* A parser takes a value over, load by load. *)

LEMMA TakesWord ==
    ASSUME NEW c, NEW at, NEW ref, NEW g, NEW name, NEW v, WordAt(c, at, v)
    PROVE  /\ LoadField(c, State(at, ref, g), Word(name))
                = State(After(at, Bits(v)), ref, Merged(Field(name, v), g))
           /\ LoadNested(c, State(at, ref, g), Word(name))
                = State(After(at, Bits(v)), ref, Merged(Field(name, v), g))
<1> DEFINE bits == c.bits
           next == After(at, Bits(v))
<1>1. bits \in Seq(0..1) /\ Holds(bits, at, Bits(v)) /\ at \in Nat /\ v \in AnyWord
  BY DEF WordAt, In
<1> HIDE DEF bits
<1>2. load_bits(bits, at, 256) = Loaded(next, v)
  BY <1>1, LoadedWord DEF After
<1> HIDE DEF next
<1>3. load_bits(c.bits, at, 256) = Loaded(next, v)
  BY <1>2 DEF bits
<1> QED
  BY <1>3, WordLoads DEF next

LEMMA TakesUint8 ==
    ASSUME NEW c, NEW at, NEW ref, NEW g, NEW name, NEW v, Uint8At(c, at, v)
    PROVE  /\ LoadField(c, State(at, ref, g), Uint8(name))
                = State(After(at, Bits(v)), ref, Merged(Field(name, v), g))
           /\ LoadNested(c, State(at, ref, g), Uint8(name))
                = State(After(at, Bits(v)), ref, Merged(Field(name, v), g))
<1> DEFINE bits == c.bits
           next == After(at, Bits(v))
<1>1. bits \in Seq(0..1) /\ Holds(bits, at, Bits(v)) /\ at \in Nat /\ v \in Octets(1)
  BY DEF Uint8At, In
<1> HIDE DEF bits
<1>2. load_bits(bits, at, 8) = Loaded(next, v)
  BY <1>1, LoadedUint8 DEF After
<1> HIDE DEF next
<1>3. load_bits(c.bits, at, 8) = Loaded(next, v)
  BY <1>2 DEF bits
<1> QED
  BY <1>3, Uint8Loads DEF next

LEMMA TakesOpCode ==
    ASSUME NEW c, NEW at, NEW ref, NEW g, NEW v, OpCodeAt(c, at, v)
    PROVE  /\ LoadField(c, State(at, ref, g), OpCode)
                = State(After(at, Bits(v)), ref, Merged(Field("op", v), g))
           /\ LoadNested(c, State(at, ref, g), OpCode)
                = State(After(at, Bits(v)), ref, Merged(Field("op", v), g))
<1> DEFINE bits == c.bits
           next == After(at, Bits(v))
<1>1. bits \in Seq(0..1) /\ Holds(bits, at, Bits(v)) /\ at \in Nat /\ v \in Octets(4)
  BY DEF OpCodeAt, In
<1> HIDE DEF bits
<1>2. load_bits(bits, at, 32) = Loaded(next, v)
  BY <1>1, LoadedOpCode DEF After
<1> HIDE DEF next
<1>3. load_bits(c.bits, at, 32) = Loaded(next, v)
  BY <1>2 DEF bits
<1> QED
  BY <1>3, OpCodeLoads DEF next

LEMMA TakesAddress ==
    ASSUME NEW c, NEW at, NEW ref, NEW g, NEW name, NEW v, AddressAt(c, at, v)
    PROVE  /\ LoadField(c, State(at, ref, g), Address(name))
                = State(After(at, AddressBits(v)), ref, Merged(Field(name, v), g))
           /\ LoadNested(c, State(at, ref, g), Address(name))
                = State(After(at, AddressBits(v)), ref, Merged(Field(name, v), g))
<1> DEFINE bits == c.bits
           next == After(at, AddressBits(v))
<1>1. /\ bits \in Seq(0..1) /\ Holds(bits, at, AddressBits(v)) /\ at \in Nat
      /\ v \in AnyAddress
  BY DEF AddressAt, In
<1> HIDE DEF bits
<1>2. load_address(bits, at) = Loaded(next, v)
  BY <1>1, LoadedAddress DEF After
<1> HIDE DEF next
<1>3. load_address(c.bits, at) = Loaded(next, v)
  BY <1>2 DEF bits
<1> QED
  BY <1>3, AddressLoads DEF next

LEMMA TakesCoins ==
    ASSUME NEW c, NEW at, NEW ref, NEW g, NEW name, NEW v, CoinsAt(c, at, v)
    PROVE  /\ LoadField(c, State(at, ref, g), Coins(name))
                = State(After(at, CoinsBits(v)), ref, Merged(Field(name, v), g))
           /\ LoadNested(c, State(at, ref, g), Coins(name))
                = State(After(at, CoinsBits(v)), ref, Merged(Field(name, v), g))
<1> DEFINE bits == c.bits
           next == After(at, CoinsBits(v))
<1>1. bits \in Seq(0..1) /\ Holds(bits, at, CoinsBits(v)) /\ at \in Nat /\ v \in AnyCoins
  BY DEF CoinsAt, In
<1> HIDE DEF bits
<1>2. load_coins(bits, at) = Loaded(next, v)
  BY <1>1, LoadedCoins DEF After
<1> HIDE DEF next
<1>3. load_coins(c.bits, at) = Loaded(next, v)
  BY <1>2 DEF bits
<1> QED
  BY <1>3, CoinsLoads DEF next

LEMMA TakesText ==
    ASSUME NEW c, NEW at, NEW ref, NEW g, NEW name, NEW v, TextAt(c, ref, v)
    PROVE  /\ LoadField(c, State(at, ref, g), Text(name))
                  = State(at, ref + 1, Merged(Field(name, v), g))
           /\ LoadNested(c, State(at, ref, g), Text(name))
                  = State(at, ref + 1, Merged(Field(name, v), g))
<1>1. cell_to_buffer(c.refs[ref]) = v /\ is_utf8(v)
  BY TextKept DEF TextAt
<1> QED
  BY <1>1, TextLoads DEF TextAt

LEMMA TakesBuffer ==
    ASSUME NEW c, NEW at, NEW ref, NEW g, NEW name, NEW v, BufferAt(c, ref, v)
    PROVE  /\ LoadField(c, State(at, ref, g), Buffer(name))
                  = State(at, ref + 1, Merged(Field(name, v), g))
           /\ LoadNested(c, State(at, ref, g), Buffer(name))
                  = State(at, ref + 1, Merged(Field(name, v), g))
<1>1. cell_to_buffer(c.refs[ref]) = v
  BY StringKept DEF BufferAt
<1> QED
  BY <1>1, BufferLoads DEF BufferAt

LEMMA TakesData ==
    ASSUME NEW c, NEW at, NEW ref, NEW g, NEW name, NEW v, BufferAt(c, ref, v)
    PROVE  LoadNested(c, State(at, ref, g), Data(name))
             = State(at, ref + 1, Merged(Field(name, SubSeq(v, 1, End(v, 0))), g))
<1> DEFINE first == SubSeq(v, 1, End(v, 0))
<1>1. Bytes(c.refs[ref].bits) = first
  BY StringKept DEF BufferAt
<1> HIDE DEF first
<1>2. LoadNested(c, State(at, ref, g), Data(name))
        = State(at, ref + 1, Merged(Field(name, Bytes(c.refs[ref].bits)), g))
  BY DataLoads DEF BufferAt
<1> QED
  BY <1>1, <1>2 DEF first

-----------------------------------------------------------------------------
(* The states of a parser. *)

\* A layout with n loads.
Loads(layout, n) == n \in Nat /\ Len(layout) = n

\* The number l comes after k.
Succ(k, l) == k \in Nat /\ l = k + 1

LEMMA Succs ==
    /\ Succ(0, 1) /\ Succ(1, 2) /\ Succ(2, 3) /\ Succ(3, 4) /\ Succ(4, 5) /\ Succ(5, 6)
    /\ Succ(6, 7)
BY DEF Succ

\* After k loads of the layout the parser is at bit at and reference ref and has fields g.
Reached(c, layout, k, at, ref, g) ==
    \E f : Walks(c, layout, k, f) /\ f[k] = State(at, ref, g)

LEMMA Start ==
    ASSUME NEW c, NEW layout
    PROVE  Reached(c, layout, 0, 0, 1, NoFields)
<1> DEFINE f == [i \in 0..0 |-> State(0, 1, NoFields)]
<1>1. Walks(c, layout, 0, f) /\ f[0] = State(0, 1, NoFields)
  BY DEF Walks
<1> QED
  BY <1>1 DEF Reached

LEMMA Advance ==
    ASSUME NEW c, NEW layout, NEW k, NEW l, NEW at, NEW ref, NEW g, NEW at1, NEW ref1,
               NEW g1,
           Reached(c, layout, k, at, ref, g), Succ(k, l),
           LoadNested(c, State(at, ref, g), layout[l]) = State(at1, ref1, g1)
    PROVE  Reached(c, layout, l, at1, ref1, g1)
<1>1. PICK f : Walks(c, layout, k, f) /\ f[k] = State(at, ref, g)
  BY DEF Reached
<1>2. k \in Nat /\ l = k + 1 /\ l \in Nat
  BY DEF Succ
<1> DEFINE h == [i \in 0..l |-> IF i = l THEN State(at1, ref1, g1) ELSE f[i]]
<1>3. /\ DOMAIN h = 0..l /\ h[l] = State(at1, ref1, g1)
      /\ \A i \in 0..k : h[i] = f[i]
  BY <1>2
<1> HIDE DEF h
<1>4. h[0] = State(0, 1, NoFields)
  BY <1>1, <1>2, <1>3 DEF Walks
<1>5. ASSUME NEW i \in 1..l
      PROVE  h[i] = IF h[i - 1].ok THEN LoadNested(c, h[i - 1], layout[i]) ELSE h[i - 1]
  <2>1. i - 1 \in 0..k /\ h[i - 1] = f[i - 1]
    BY <1>2, <1>3
  <2>2. CASE i = l
    <3>1. h[i - 1] = State(at, ref, g)
      BY <1>1, <1>2, <2>1, <2>2
    <3> QED
      BY <1>3, <2>2, <3>1, GoesOn
  <2>3. CASE i # l
    <3>1. i \in 1..k /\ h[i] = f[i]
      BY <1>2, <1>3, <2>3
    <3> QED
      BY <1>1, <2>1, <3>1 DEF Walks
  <2> QED
    BY <2>2, <2>3
<1>6. Walks(c, layout, l, h)
  BY <1>3, <1>4, <1>5 DEF Walks
<1> QED
  BY <1>3, <1>6 DEF Reached

LEMMA Finish ==
    ASSUME NEW c, NEW layout, NEW n, Loads(layout, n), NEW at, NEW ref, NEW g,
           Reached(c, layout, n, at, ref, g)
    PROVE  Read(c, layout) = State(at, ref, g)
<1>0. n \in Nat /\ Len(layout) = n
  BY DEF Loads
<1>1. PICK f : Walks(c, layout, n, f) /\ f[n] = State(at, ref, g)
  BY DEF Reached
<1>2. PICK h : Walks(c, layout, n, h) /\ Read(c, layout) = h[n]
  BY <1>0, ReadSteps
<1> DEFINE T == {i \in 0..n : f[i] # h[i]}
<1>3. T = {}
  <2> SUFFICES ASSUME T # {}
               PROVE  FALSE
    OBVIOUS
  <2>1. T \in SUBSET Nat
    OBVIOUS
  <2>2. PICK k \in T : \A j \in T : k <= j
    <3> HIDE DEF T
    <3> QED
      BY <2>1, LeastElement
  <2>3. k \in 1..n /\ k - 1 \in 0..n /\ ~(k <= k - 1)
    BY <1>0, <1>1, <1>2, <2>2 DEF Walks
  <2>4. f[k - 1] = h[k - 1]
    BY <2>2, <2>3
  <2>5. f[k] = h[k]
    BY <1>1, <1>2, <2>3, <2>4 DEF Walks
  <2> QED
    BY <2>2, <2>5
<1>4. n \in 0..n
  BY <1>0
<1> QED
  BY <1>1, <1>2, <1>3, <1>4

\* One load of each kind.
LEMMA StepWord ==
    ASSUME NEW c, NEW layout, NEW k, NEW l, NEW at, NEW ref, NEW g, NEW name, NEW v,
           Reached(c, layout, k, at, ref, g), Succ(k, l),
           layout[l] = Word(name), WordAt(c, at, v)
    PROVE  Reached(c, layout, l, After(at, Bits(v)), ref, Merged(Field(name, v), g))
BY TakesWord, Advance

LEMMA StepUint8 ==
    ASSUME NEW c, NEW layout, NEW k, NEW l, NEW at, NEW ref, NEW g, NEW name, NEW v,
           Reached(c, layout, k, at, ref, g), Succ(k, l),
           layout[l] = Uint8(name), Uint8At(c, at, v)
    PROVE  Reached(c, layout, l, After(at, Bits(v)), ref, Merged(Field(name, v), g))
BY TakesUint8, Advance

LEMMA StepOpCode ==
    ASSUME NEW c, NEW layout, NEW k, NEW l, NEW at, NEW ref, NEW g, NEW v,
           Reached(c, layout, k, at, ref, g), Succ(k, l),
           layout[l] = OpCode, OpCodeAt(c, at, v)
    PROVE  Reached(c, layout, l, After(at, Bits(v)), ref, Merged(Field("op", v), g))
BY TakesOpCode, Advance

LEMMA StepAddress ==
    ASSUME NEW c, NEW layout, NEW k, NEW l, NEW at, NEW ref, NEW g, NEW name, NEW v,
           Reached(c, layout, k, at, ref, g), Succ(k, l),
           layout[l] = Address(name), AddressAt(c, at, v)
    PROVE  Reached(c, layout, l, After(at, AddressBits(v)), ref, Merged(Field(name, v), g))
BY TakesAddress, Advance

LEMMA StepCoins ==
    ASSUME NEW c, NEW layout, NEW k, NEW l, NEW at, NEW ref, NEW g, NEW name, NEW v,
           Reached(c, layout, k, at, ref, g), Succ(k, l),
           layout[l] = Coins(name), CoinsAt(c, at, v)
    PROVE  Reached(c, layout, l, After(at, CoinsBits(v)), ref, Merged(Field(name, v), g))
BY TakesCoins, Advance

LEMMA StepText ==
    ASSUME NEW c, NEW layout, NEW k, NEW l, NEW at, NEW ref, NEW g, NEW name, NEW v, NEW r,
           Reached(c, layout, k, at, ref, g), Succ(k, l), Succ(ref, r),
           layout[l] = Text(name), TextAt(c, ref, v)
    PROVE  Reached(c, layout, l, at, r, Merged(Field(name, v), g))
<1>1. LoadNested(c, State(at, ref, g), Text(name))
          = State(at, ref + 1, Merged(Field(name, v), g))
  BY TakesText
<1>2. r = ref + 1
  BY DEF Succ
<1> QED
  BY <1>1, <1>2, Advance

LEMMA StepBuffer ==
    ASSUME NEW c, NEW layout, NEW k, NEW l, NEW at, NEW ref, NEW g, NEW name, NEW v, NEW r,
           Reached(c, layout, k, at, ref, g), Succ(k, l), Succ(ref, r),
           layout[l] = Buffer(name), BufferAt(c, ref, v)
    PROVE  Reached(c, layout, l, at, r, Merged(Field(name, v), g))
<1>1. LoadNested(c, State(at, ref, g), Buffer(name))
          = State(at, ref + 1, Merged(Field(name, v), g))
  BY TakesBuffer
<1>2. r = ref + 1
  BY DEF Succ
<1> QED
  BY <1>1, <1>2, Advance

LEMMA StepData ==
    ASSUME NEW c, NEW layout, NEW k, NEW l, NEW at, NEW ref, NEW g, NEW name, NEW v, NEW r,
           Reached(c, layout, k, at, ref, g), Succ(k, l), Succ(ref, r),
           layout[l] = Data(name), BufferAt(c, ref, v)
    PROVE  Reached(c, layout, l, at, r, Merged(Field(name, SubSeq(v, 1, End(v, 0))), g))
<1>1. LoadNested(c, State(at, ref, g), Data(name))
          = State(at, ref + 1, Merged(Field(name, SubSeq(v, 1, End(v, 0))), g))
  BY TakesData
<1>2. r = ref + 1
  BY DEF Succ
<1> QED
  BY <1>1, <1>2, Advance

LEMMA StepSkip ==
    ASSUME NEW c, NEW layout, NEW k, NEW l, NEW at, NEW ref, NEW g, NEW r,
           Reached(c, layout, k, at, ref, g), Succ(k, l), Succ(ref, r),
           layout[l] = Skip, RefAt(c, ref)
    PROVE  Reached(c, layout, l, at, r, Merged(NoFields, g))
<1>1. LoadNested(c, State(at, ref, g), Skip) = State(at, ref + 1, Merged(NoFields, g))
  BY SkipLoads DEF RefAt
<1>2. r = ref + 1
  BY DEF Succ
<1> QED
  BY <1>1, <1>2, Advance

LEMMA StepInner ==
    ASSUME NEW c, NEW layout, NEW k, NEW l, NEW at, NEW ref, NEW g, NEW inner, NEW h, NEW r,
           Reached(c, layout, k, at, ref, g), Succ(k, l), Succ(ref, r),
           layout[l] = Inner(inner), InnerAt(c, ref, inner, h)
    PROVE  Reached(c, layout, l, at, r, Merged(h, g))
<1>1. LoadNested(c, State(at, ref, g), Inner(inner)) = State(at, ref + 1, Merged(h, g))
  BY InnerLoads DEF InnerAt
<1>2. r = ref + 1
  BY DEF Succ
<1> QED
  BY <1>1, <1>2, Advance

\* After k loads of the layout the parser is at bit at and reference ref and has fields g.
FlatReached(c, layout, k, at, ref, g) ==
    \E f : FlatWalks(c, layout, k, f) /\ f[k] = State(at, ref, g)

LEMMA FlatStart ==
    ASSUME NEW c, NEW layout
    PROVE  FlatReached(c, layout, 0, 0, 1, NoFields)
<1> DEFINE f == [i \in 0..0 |-> State(0, 1, NoFields)]
<1>1. FlatWalks(c, layout, 0, f) /\ f[0] = State(0, 1, NoFields)
  BY DEF FlatWalks
<1> QED
  BY <1>1 DEF FlatReached

LEMMA FlatAdvance ==
    ASSUME NEW c, NEW layout, NEW k, NEW l, NEW at, NEW ref, NEW g, NEW at1, NEW ref1,
               NEW g1,
           FlatReached(c, layout, k, at, ref, g), Succ(k, l),
           LoadField(c, State(at, ref, g), layout[l]) = State(at1, ref1, g1)
    PROVE  FlatReached(c, layout, l, at1, ref1, g1)
<1>1. PICK f : FlatWalks(c, layout, k, f) /\ f[k] = State(at, ref, g)
  BY DEF FlatReached
<1>2. k \in Nat /\ l = k + 1 /\ l \in Nat
  BY DEF Succ
<1> DEFINE h == [i \in 0..l |-> IF i = l THEN State(at1, ref1, g1) ELSE f[i]]
<1>3. /\ DOMAIN h = 0..l /\ h[l] = State(at1, ref1, g1)
      /\ \A i \in 0..k : h[i] = f[i]
  BY <1>2
<1> HIDE DEF h
<1>4. h[0] = State(0, 1, NoFields)
  BY <1>1, <1>2, <1>3 DEF FlatWalks
<1>5. ASSUME NEW i \in 1..l
      PROVE  h[i] = IF h[i - 1].ok THEN LoadField(c, h[i - 1], layout[i]) ELSE h[i - 1]
  <2>1. i - 1 \in 0..k /\ h[i - 1] = f[i - 1]
    BY <1>2, <1>3
  <2>2. CASE i = l
    <3>1. h[i - 1] = State(at, ref, g)
      BY <1>1, <1>2, <2>1, <2>2
    <3> QED
      BY <1>3, <2>2, <3>1, GoesOn
  <2>3. CASE i # l
    <3>1. i \in 1..k /\ h[i] = f[i]
      BY <1>2, <1>3, <2>3
    <3> QED
      BY <1>1, <2>1, <3>1 DEF FlatWalks
  <2> QED
    BY <2>2, <2>3
<1>6. FlatWalks(c, layout, l, h)
  BY <1>3, <1>4, <1>5 DEF FlatWalks
<1> QED
  BY <1>3, <1>6 DEF FlatReached

LEMMA FlatFinish ==
    ASSUME NEW c, NEW layout, NEW n, Loads(layout, n), NEW at, NEW ref, NEW g,
           FlatReached(c, layout, n, at, ref, g)
    PROVE  ReadFlat(c, layout) = State(at, ref, g)
<1>0. n \in Nat /\ Len(layout) = n
  BY DEF Loads
<1>1. PICK f : FlatWalks(c, layout, n, f) /\ f[n] = State(at, ref, g)
  BY DEF FlatReached
<1>2. PICK h : FlatWalks(c, layout, n, h) /\ ReadFlat(c, layout) = h[n]
  BY <1>0, ReadFlatSteps
<1> DEFINE T == {i \in 0..n : f[i] # h[i]}
<1>3. T = {}
  <2> SUFFICES ASSUME T # {}
               PROVE  FALSE
    OBVIOUS
  <2>1. T \in SUBSET Nat
    OBVIOUS
  <2>2. PICK k \in T : \A j \in T : k <= j
    <3> HIDE DEF T
    <3> QED
      BY <2>1, LeastElement
  <2>3. k \in 1..n /\ k - 1 \in 0..n /\ ~(k <= k - 1)
    BY <1>0, <1>1, <1>2, <2>2 DEF FlatWalks
  <2>4. f[k - 1] = h[k - 1]
    BY <2>2, <2>3
  <2>5. f[k] = h[k]
    BY <1>1, <1>2, <2>3, <2>4 DEF FlatWalks
  <2> QED
    BY <2>2, <2>5
<1>4. n \in 0..n
  BY <1>0
<1> QED
  BY <1>1, <1>2, <1>3, <1>4

\* One load of each kind.
LEMMA FlatStepWord ==
    ASSUME NEW c, NEW layout, NEW k, NEW l, NEW at, NEW ref, NEW g, NEW name, NEW v,
           FlatReached(c, layout, k, at, ref, g), Succ(k, l),
           layout[l] = Word(name), WordAt(c, at, v)
    PROVE  FlatReached(c, layout, l, After(at, Bits(v)), ref, Merged(Field(name, v), g))
BY TakesWord, FlatAdvance

LEMMA FlatStepAddress ==
    ASSUME NEW c, NEW layout, NEW k, NEW l, NEW at, NEW ref, NEW g, NEW name, NEW v,
           FlatReached(c, layout, k, at, ref, g), Succ(k, l),
           layout[l] = Address(name), AddressAt(c, at, v)
    PROVE  FlatReached(c, layout, l, After(at, AddressBits(v)), ref,
                       Merged(Field(name, v), g))
BY TakesAddress, FlatAdvance

LEMMA FlatStepText ==
    ASSUME NEW c, NEW layout, NEW k, NEW l, NEW at, NEW ref, NEW g, NEW name, NEW v, NEW r,
           FlatReached(c, layout, k, at, ref, g), Succ(k, l), Succ(ref, r),
           layout[l] = Text(name), TextAt(c, ref, v)
    PROVE  FlatReached(c, layout, l, at, r, Merged(Field(name, v), g))
<1>1. LoadField(c, State(at, ref, g), Text(name))
          = State(at, ref + 1, Merged(Field(name, v), g))
  BY TakesText
<1>2. r = ref + 1
  BY DEF Succ
<1> QED
  BY <1>1, <1>2, FlatAdvance

LEMMA FlatStepBuffer ==
    ASSUME NEW c, NEW layout, NEW k, NEW l, NEW at, NEW ref, NEW g, NEW name, NEW v, NEW r,
           FlatReached(c, layout, k, at, ref, g), Succ(k, l), Succ(ref, r),
           layout[l] = Buffer(name), BufferAt(c, ref, v)
    PROVE  FlatReached(c, layout, l, at, r, Merged(Field(name, v), g))
<1>1. LoadField(c, State(at, ref, g), Buffer(name))
          = State(at, ref + 1, Merged(Field(name, v), g))
  BY TakesBuffer
<1>2. r = ref + 1
  BY DEF Succ
<1> QED
  BY <1>1, <1>2, FlatAdvance

\* The hash in an address, and the address it makes again.
LEMMA Rest ==
    ASSUME NEW S, NEW a \in Seq(S), NEW n \in Nat, Len(a) = n + 1
    PROVE  /\ SubSeq(a, 2, n + 1) \in Seq(S) /\ Len(SubSeq(a, 2, n + 1)) = n
           /\ \A i \in 1..n : SubSeq(a, 2, n + 1)[i] = a[i + 1]
           /\ \A z : a[1] = z => <<z>> \o SubSeq(a, 2, n + 1) = a
OBVIOUS

LEMMA HashParts ==
    ASSUME NEW a \in AnyAddress
    PROVE  /\ HashPart(a) \in AnyWord /\ HashPart(a) \in AnyBuffer
           /\ \A i \in 1..32 : HashPart(a)[i] = a[i + 1]
           /\ a \in AnyContract => ToAddress(HashPart(a)) = a
<1> DEFINE w == SubSeq(a, 2, 33)
           S == 0..255
<1>1. a \in Seq(S) /\ Len(a) = 33
  BY AddressOctets
<1> HIDE DEF S
<1>2. /\ w \in Seq(S) /\ Len(w) = 32 /\ \A i \in 1..32 : w[i] = a[i + 1]
      /\ \A z : a[1] = z => <<z>> \o w = a
  <2>1. PICK n \in Nat : n = 32
    OBVIOUS
  <2>2. Len(a) = n + 1 /\ n + 1 = 33
    BY <1>1, <2>1
  <2>3. /\ SubSeq(a, 2, n + 1) \in Seq(S) /\ Len(SubSeq(a, 2, n + 1)) = n
        /\ \A i \in 1..n : SubSeq(a, 2, n + 1)[i] = a[i + 1]
        /\ \A z : a[1] = z => <<z>> \o SubSeq(a, 2, n + 1) = a
    BY <1>1, <2>2, Rest
  <2> QED
    BY <2>1, <2>2, <2>3
<1>3. HashPart(a) = w
  BY DEF HashPart
<1> HIDE DEF w
<1>4. w \in AnyWord
  BY <1>2 DEF AnyWord, Octets, S
<1>5. w \in AnyBuffer
  <2>1. Len(w) <= 96 * 1024
    BY <1>2
  <2> QED
    BY <1>2, <2>1 DEF AnyBuffer, BYTES_PER_CELL, MAX_CELL_DEPTH, S
<1>6. ASSUME a \in AnyContract
      PROVE  <<0>> \o w = a
  <2>1. a[1] = 0
    BY <1>6 DEF AnyContract
  <2> QED
    BY <1>2, <2>1
<1> QED
  BY <1>2, <1>3, <1>4, <1>5, <1>6 DEF ToAddress

LEMMA OpOctets ==
    ASSUME NEW h \in 0..255, NEW l \in 0..255
    PROVE  Op(h, l) \in Octets(4)
BY DEF Op, Octets

LEMMA OpCodes ==
    /\ OP_SIGNERS_ROTATED_LOG \in Octets(4)
    /\ OP_INTERCHAIN_TOKEN_DEPLOYMENT_STARTED_LOG \in Octets(4)
    /\ OP_INTERCHAIN_TRANSFER_LOG \in Octets(4)
    /\ OP_LINK_TOKEN_STARTED_LOG \in Octets(4)
    /\ OP_TOKEN_METADATA_REGISTERED_LOG \in Octets(4)
    /\ OP_NULLIFIED_SUCCESSFULLY \in Octets(4)
    /\ OP_APPROVE_MESSAGES \in Octets(4)
    /\ OP_NATIVE_REFUND \in Octets(4)
    /\ OP_RELAYER_EXECUTE \in Octets(4)
<1>1. /\ 0 \in 0..255 /\ 1 \in 0..255 /\ 4 \in 0..255 /\ 5 \in 0..255 /\ 7 \in 0..255
      /\ 8 \in 0..255 /\ 16 \in 0..255 /\ 40 \in 0..255 /\ 42 \in 0..255 /\ 70 \in 0..255
  OBVIOUS
<1>2. /\ Op(0, 42) \in Octets(4) /\ Op(1, 7) \in Octets(4) /\ Op(1, 16) \in Octets(4)
      /\ Op(1, 5) \in Octets(4) /\ Op(1, 4) \in Octets(4) /\ Op(0, 5) \in Octets(4)
      /\ Op(0, 40) \in Octets(4) /\ Op(0, 70) \in Octets(4) /\ Op(0, 8) \in Octets(4)
  BY <1>1, OpOctets
<1> QED
  BY <1>2 DEF OP_SIGNERS_ROTATED_LOG, OP_INTERCHAIN_TOKEN_DEPLOYMENT_STARTED_LOG,
       OP_INTERCHAIN_TRANSFER_LOG, OP_LINK_TOKEN_STARTED_LOG,
       OP_TOKEN_METADATA_REGISTERED_LOG, OP_NULLIFIED_SUCCESSFULLY, OP_APPROVE_MESSAGES,
       OP_NATIVE_REFUND, OP_RELAYER_EXECUTE

\* The layouts of referenced cells.
LEMMA ReadsAddress ==
    ASSUME NEW a \in AnyAddress
    PROVE  \E at, ref, g :
              /\ ReadFlat(Cell(AddressBits(a), <<>>), <<Address("refund_address")>>)
                   = State(at, ref, g)
              /\ DOMAIN g = {"refund_address"} /\ Has(g, "refund_address", a)
<1> DEFINE c == Cell(AddressBits(a), <<>>)
           layout == <<Address("refund_address")>>
           a1 == After(0, AddressBits(a))
<1>1. a \in AnyAddress
  OBVIOUS
<1>2. c.bits = Joined1(AddressBits(a))
  BY DEF Cell, Joined1
<1> HIDE DEF c
<1>3. AddressBits(a) \in BitStrings
  BY <1>1, AddressString
<1>4. AddressAt(c, 0, a)
  <2>1. In(c, 0, AddressBits(a))
    BY <1>2, <1>3, In1
  <2> HIDE DEF a1
  <2> QED
    BY <1>1, <2>1 DEF AddressAt
<1> DEFINE g1 == Merged(Field("refund_address", a), NoFields)
<1>7. /\ Loads(layout, 1) /\ layout[1] = Address("refund_address")
  BY DEF Loads
<1> HIDE DEF layout, a1, g1
<1>8. FlatReached(c, layout, 0, 0, 1, NoFields)
  BY FlatStart
<1>9. FlatReached(c, layout, 1, a1, 1, g1)
  BY <1>4, <1>7, <1>8, FlatStepAddress, Succs DEF a1, g1
<1>10. Has(g1, "refund_address", a)
  BY HasNew DEF g1
<1>11. DOMAIN g1 = {"refund_address"}
  <2>1. DOMAIN g1 = {"refund_address"} \cup DOMAIN NoFields
    BY NamesOf DEF g1
  <2> QED
    BY NoNames, <2>1
<1>12. ReadFlat(c, layout) = State(a1, 1, g1)
  BY <1>7, <1>9, FlatFinish
<1> QED
  BY <1>10, <1>11, <1>12 DEF c, layout

LEMMA ReadsSender ==
    ASSUME NEW w \in AnyWord
    PROVE  \E at, ref, g :
              /\ ReadFlat(Cell(Bits(w), <<>>), <<Word("sender_address")>>)
                     = State(at, ref, g)
              /\ DOMAIN g = {"sender_address"} /\ Has(g, "sender_address", w)
<1> DEFINE c == Cell(Bits(w), <<>>)
           layout == <<Word("sender_address")>>
           a1 == After(0, Bits(w))
<1>1. w \in AnyWord
  OBVIOUS
<1>2. c.bits = Joined1(Bits(w))
  BY DEF Cell, Joined1
<1> HIDE DEF c
<1>3. Bits(w) \in BitStrings
  BY <1>1, WordString
<1>4. WordAt(c, 0, w)
  <2>1. In(c, 0, Bits(w))
    BY <1>2, <1>3, In1
  <2> HIDE DEF a1
  <2> QED
    BY <1>1, <2>1 DEF WordAt
<1> DEFINE g1 == Merged(Field("sender_address", w), NoFields)
<1>7. /\ Loads(layout, 1) /\ layout[1] = Word("sender_address")
  BY DEF Loads
<1> HIDE DEF layout, a1, g1
<1>8. FlatReached(c, layout, 0, 0, 1, NoFields)
  BY FlatStart
<1>9. FlatReached(c, layout, 1, a1, 1, g1)
  BY <1>4, <1>7, <1>8, FlatStepWord, Succs DEF a1, g1
<1>10. Has(g1, "sender_address", w)
  BY HasNew DEF g1
<1>11. DOMAIN g1 = {"sender_address"}
  <2>1. DOMAIN g1 = {"sender_address"} \cup DOMAIN NoFields
    BY NamesOf DEF g1
  <2> QED
    BY NoNames, <2>1
<1>12. ReadFlat(c, layout) = State(a1, 1, g1)
  BY <1>7, <1>9, FlatFinish
<1> QED
  BY <1>10, <1>11, <1>12 DEF c, layout

LEMMA ReadsSourceToken ==
    ASSUME NEW w \in AnyWord
    PROVE  \E at, ref, g :
              /\ ReadFlat(Cell(Bits(w), <<>>), <<Word("source_token_address")>>)
                   = State(at, ref, g)
              /\ DOMAIN g = {"source_token_address"} /\ Has(g, "source_token_address", w)
<1> DEFINE c == Cell(Bits(w), <<>>)
           layout == <<Word("source_token_address")>>
           a1 == After(0, Bits(w))
<1>1. w \in AnyWord
  OBVIOUS
<1>2. c.bits = Joined1(Bits(w))
  BY DEF Cell, Joined1
<1> HIDE DEF c
<1>3. Bits(w) \in BitStrings
  BY <1>1, WordString
<1>4. WordAt(c, 0, w)
  <2>1. In(c, 0, Bits(w))
    BY <1>2, <1>3, In1
  <2> HIDE DEF a1
  <2> QED
    BY <1>1, <2>1 DEF WordAt
<1> DEFINE g1 == Merged(Field("source_token_address", w), NoFields)
<1>7. /\ Loads(layout, 1) /\ layout[1] = Word("source_token_address")
  BY DEF Loads
<1> HIDE DEF layout, a1, g1
<1>8. FlatReached(c, layout, 0, 0, 1, NoFields)
  BY FlatStart
<1>9. FlatReached(c, layout, 1, a1, 1, g1)
  BY <1>4, <1>7, <1>8, FlatStepWord, Succs DEF a1, g1
<1>10. Has(g1, "source_token_address", w)
  BY HasNew DEF g1
<1>11. DOMAIN g1 = {"source_token_address"}
  <2>1. DOMAIN g1 = {"source_token_address"} \cup DOMAIN NoFields
    BY NamesOf DEF g1
  <2> QED
    BY NoNames, <2>1
<1>12. ReadFlat(c, layout) = State(a1, 1, g1)
  BY <1>7, <1>9, FlatFinish
<1> QED
  BY <1>10, <1>11, <1>12 DEF c, layout

LEMMA ReadsExecuted ==
    ASSUME NEW bits, NEW p \in AnyBuffer, NEW d \in AnyBuffer, NEW n \in AnyText
    PROVE  \E at, ref, g :
              /\ ReadFlat(Cell(bits,
                               <<buffer_to_cell(p), buffer_to_cell(d),
                                 buffer_to_cell(n)>>), <<Buffer("payload"),
                                                         Buffer("destination_address"),
                                                         Text("destination_chain")>>)
                   = State(at, ref, g)
              /\ DOMAIN g = {"payload", "destination_address", "destination_chain"}
              /\ Has(g, "payload", p) /\ Has(g, "destination_address", d)
              /\ Has(g, "destination_chain", n)
<1> DEFINE c == Cell(bits, <<buffer_to_cell(p), buffer_to_cell(d), buffer_to_cell(n)>>)
           layout == <<Buffer("payload"), Buffer("destination_address"),
                       Text("destination_chain")>>
<1>1. /\ p \in AnyBuffer /\ d \in AnyBuffer /\ n \in AnyText
  OBVIOUS
<1>2. c.refs = <<buffer_to_cell(p), buffer_to_cell(d), buffer_to_cell(n)>>
  BY DEF Cell
<1> HIDE DEF c
<1>5. /\ BufferAt(c, 1, p) /\ BufferAt(c, 2, d) /\ TextAt(c, 3, n)
  BY <1>1, <1>2 DEF BufferAt, TextAt
<1> DEFINE g1 == Merged(Field("payload", p), NoFields)
           g2 == Merged(Field("destination_address", d), g1)
           g3 == Merged(Field("destination_chain", n), g2)
<1>7. /\ Loads(layout, 3) /\ layout[1] = Buffer("payload")
      /\ layout[2] = Buffer("destination_address") /\ layout[3] = Text("destination_chain")
  BY DEF Loads
<1> HIDE DEF layout, g1, g2, g3
<1>8. FlatReached(c, layout, 0, 0, 1, NoFields)
  BY FlatStart
<1>9. FlatReached(c, layout, 1, 0, 2, g1)
  BY <1>5, <1>7, <1>8, FlatStepBuffer, Succs DEF g1
<1>10. FlatReached(c, layout, 2, 0, 3, g2)
  BY <1>5, <1>7, <1>9, FlatStepBuffer, Succs DEF g2
<1>11. FlatReached(c, layout, 3, 0, 4, g3)
  BY <1>5, <1>7, <1>10, FlatStepText, Succs DEF g3
<1>12. /\ Has(g3, "payload", p) /\ Has(g3, "destination_address", d)
       /\ Has(g3, "destination_chain", n)
  BY HasNew, HasOld DEF g1, g2, g3
<1>13. DOMAIN g3 = {"payload", "destination_address", "destination_chain"}
  <2>1. DOMAIN g1 = {"payload"} \cup DOMAIN NoFields
    BY NamesOf DEF g1
  <2>2. DOMAIN g2 = {"destination_address"} \cup DOMAIN g1
    BY NamesOf DEF g2
  <2>3. DOMAIN g3 = {"destination_chain"} \cup DOMAIN g2
    BY NamesOf DEF g3
  <2> QED
    BY NoNames, <2>1, <2>2, <2>3
<1>14. ReadFlat(c, layout) = State(0, 4, g3)
  BY <1>7, <1>11, FlatFinish
<1> QED
  BY <1>12, <1>13, <1>14 DEF c, layout

LEMMA ReadsApproved ==
    ASSUME NEW w \in AnyWord, NEW d \in AnyBuffer, NEW n \in AnyText
    PROVE  \E at, ref, g :
              /\ ReadFlat(Cell(Bits(w), <<buffer_to_cell(d), buffer_to_cell(n)>>),
                          <<Word("payload_hash"),
                            Buffer("destination_address"),
                            Text("destination_chain")>>)
                   = State(at, ref, g)
              /\ DOMAIN g = {"payload_hash", "destination_address", "destination_chain"}
              /\ Has(g, "payload_hash", w) /\ Has(g, "destination_address", d)
              /\ Has(g, "destination_chain", n)
<1> DEFINE c == Cell(Bits(w), <<buffer_to_cell(d), buffer_to_cell(n)>>)
           layout == <<Word("payload_hash"), Buffer("destination_address"),
                       Text("destination_chain")>>
           a1 == After(0, Bits(w))
<1>1. /\ w \in AnyWord /\ d \in AnyBuffer /\ n \in AnyText
  OBVIOUS
<1>2. /\ c.bits = Joined1(Bits(w))
      /\ c.refs = <<buffer_to_cell(d), buffer_to_cell(n)>>
  BY DEF Cell, Joined1
<1> HIDE DEF c
<1>3. Bits(w) \in BitStrings
  BY <1>1, WordString
<1>4. WordAt(c, 0, w)
  <2>1. In(c, 0, Bits(w))
    BY <1>2, <1>3, In1
  <2> HIDE DEF a1
  <2> QED
    BY <1>1, <2>1 DEF WordAt
<1>5. /\ BufferAt(c, 1, d) /\ TextAt(c, 2, n)
  BY <1>1, <1>2 DEF BufferAt, TextAt
<1> DEFINE g1 == Merged(Field("payload_hash", w), NoFields)
           g2 == Merged(Field("destination_address", d), g1)
           g3 == Merged(Field("destination_chain", n), g2)
<1>7. /\ Loads(layout, 3) /\ layout[1] = Word("payload_hash")
      /\ layout[2] = Buffer("destination_address") /\ layout[3] = Text("destination_chain")
  BY DEF Loads
<1> HIDE DEF layout, a1, g1, g2, g3
<1>8. FlatReached(c, layout, 0, 0, 1, NoFields)
  BY FlatStart
<1>9. FlatReached(c, layout, 1, a1, 1, g1)
  BY <1>4, <1>7, <1>8, FlatStepWord, Succs DEF a1, g1
<1>10. FlatReached(c, layout, 2, a1, 2, g2)
  BY <1>5, <1>7, <1>9, FlatStepBuffer, Succs DEF g2
<1>11. FlatReached(c, layout, 3, a1, 3, g3)
  BY <1>5, <1>7, <1>10, FlatStepText, Succs DEF g3
<1>12. /\ Has(g3, "payload_hash", w) /\ Has(g3, "destination_address", d)
       /\ Has(g3, "destination_chain", n)
  BY HasNew, HasOld DEF g1, g2, g3
<1>13. DOMAIN g3 = {"payload_hash", "destination_address", "destination_chain"}
  <2>1. DOMAIN g1 = {"payload_hash"} \cup DOMAIN NoFields
    BY NamesOf DEF g1
  <2>2. DOMAIN g2 = {"destination_address"} \cup DOMAIN g1
    BY NamesOf DEF g2
  <2>3. DOMAIN g3 = {"destination_chain"} \cup DOMAIN g2
    BY NamesOf DEF g3
  <2> QED
    BY NoNames, <2>1, <2>2, <2>3
<1>14. ReadFlat(c, layout) = State(a1, 3, g3)
  BY <1>7, <1>11, FlatFinish
<1> QED
  BY <1>12, <1>13, <1>14 DEF c, layout

LEMMA ReadsDestination ==
    ASSUME NEW d \in AnyBuffer, NEW n \in AnyText
    PROVE  \E at, ref, g :
              /\ ReadFlat(Cell(<<>>, <<buffer_to_cell(d), buffer_to_cell(n)>>),
                          <<Buffer("destination_address"),
                            Text("destination_chain")>>)
                   = State(at, ref, g)
              /\ DOMAIN g = {"destination_address", "destination_chain"}
              /\ Has(g, "destination_address", d) /\ Has(g, "destination_chain", n)
<1> DEFINE c == Cell(<<>>, <<buffer_to_cell(d), buffer_to_cell(n)>>)
           layout == <<Buffer("destination_address"), Text("destination_chain")>>
<1>1. /\ d \in AnyBuffer /\ n \in AnyText
  OBVIOUS
<1>2. c.refs = <<buffer_to_cell(d), buffer_to_cell(n)>>
  BY DEF Cell
<1> HIDE DEF c
<1>5. /\ BufferAt(c, 1, d) /\ TextAt(c, 2, n)
  BY <1>1, <1>2 DEF BufferAt, TextAt
<1> DEFINE g1 == Merged(Field("destination_address", d), NoFields)
           g2 == Merged(Field("destination_chain", n), g1)
<1>7. /\ Loads(layout, 2) /\ layout[1] = Buffer("destination_address")
      /\ layout[2] = Text("destination_chain")
  BY DEF Loads
<1> HIDE DEF layout, g1, g2
<1>8. FlatReached(c, layout, 0, 0, 1, NoFields)
  BY FlatStart
<1>9. FlatReached(c, layout, 1, 0, 2, g1)
  BY <1>5, <1>7, <1>8, FlatStepBuffer, Succs DEF g1
<1>10. FlatReached(c, layout, 2, 0, 3, g2)
  BY <1>5, <1>7, <1>9, FlatStepText, Succs DEF g2
<1>11. /\ Has(g2, "destination_address", d) /\ Has(g2, "destination_chain", n)
  BY HasNew, HasOld DEF g1, g2
<1>12. DOMAIN g2 = {"destination_address", "destination_chain"}
  <2>1. DOMAIN g1 = {"destination_address"} \cup DOMAIN NoFields
    BY NamesOf DEF g1
  <2>2. DOMAIN g2 = {"destination_chain"} \cup DOMAIN g1
    BY NamesOf DEF g2
  <2> QED
    BY NoNames, <2>1, <2>2
<1>13. ReadFlat(c, layout) = State(0, 3, g2)
  BY <1>7, <1>10, FlatFinish
<1> QED
  BY <1>11, <1>12, <1>13 DEF c, layout

\* The layouts of logs.
LEMMA ReadsCallContract ==
    ASSUME NEW m \in LogsOf("CallContract")
    PROVE  \E at, ref, g :
              /\ Read(LogCell(m), <<Text("destination_chain"), Text("destination_address"),
                                    Buffer("payload"), Address("source_address"),
                                    Word("payload_hash")>>) = State(at, ref, g)
              /\ Has(g, "destination_chain", m.destination_chain)
              /\ Has(g, "destination_address", m.destination_address)
              /\ Has(g, "payload", m.payload) /\ Has(g, "source_address", m.source_address)
              /\ Has(g, "payload_hash", m.payload_hash)
<1> DEFINE c == LogCell(m)
           layout == <<Text("destination_chain"), Text("destination_address"),
                       Buffer("payload"), Address("source_address"), Word("payload_hash")>>
           a1 == After(0, AddressBits(m.source_address))
           a2 == After(a1, Bits(m.payload_hash))
<1>1. /\ m.kind = "CallContract" /\ m.source_address \in AnyAddress
      /\ m.payload_hash \in AnyWord /\ m.destination_chain \in AnyText
      /\ m.destination_address \in AnyText /\ m.payload \in AnyBuffer
  BY DEF LogsOf
<1>2. /\ c.bits = Joined2(AddressBits(m.source_address), Bits(m.payload_hash))
      /\ c.refs = <<buffer_to_cell(m.destination_chain),
                    buffer_to_cell(m.destination_address), buffer_to_cell(m.payload)>>
  BY <1>1 DEF LogCell, Cell, Joined2
<1> HIDE DEF c
<1>3. /\ AddressBits(m.source_address) \in BitStrings /\ Bits(m.payload_hash) \in BitStrings
  BY <1>1, AddressString, WordString
<1>4. /\ AddressAt(c, 0, m.source_address) /\ WordAt(c, a1, m.payload_hash)
  <2>1. /\ In(c, 0, AddressBits(m.source_address)) /\ In(c, a1, Bits(m.payload_hash))
    BY <1>2, <1>3, In2
  <2> HIDE DEF a1, a2
  <2> QED
    BY <1>1, <2>1 DEF AddressAt, WordAt
<1>5. /\ TextAt(c, 1, m.destination_chain) /\ TextAt(c, 2, m.destination_address)
      /\ BufferAt(c, 3, m.payload)
  BY <1>1, <1>2 DEF TextAt, BufferAt
<1> DEFINE g1 == Merged(Field("destination_chain", m.destination_chain), NoFields)
           g2 == Merged(Field("destination_address", m.destination_address), g1)
           g3 == Merged(Field("payload", m.payload), g2)
           g4 == Merged(Field("source_address", m.source_address), g3)
           g5 == Merged(Field("payload_hash", m.payload_hash), g4)
<1>7. /\ Loads(layout, 5) /\ layout[1] = Text("destination_chain")
      /\ layout[2] = Text("destination_address") /\ layout[3] = Buffer("payload")
      /\ layout[4] = Address("source_address") /\ layout[5] = Word("payload_hash")
  BY DEF Loads
<1> HIDE DEF layout, a1, a2, g1, g2, g3, g4, g5
<1>8. Reached(c, layout, 0, 0, 1, NoFields)
  BY Start
<1>9. Reached(c, layout, 1, 0, 2, g1)
  BY <1>5, <1>7, <1>8, StepText, Succs DEF g1
<1>10. Reached(c, layout, 2, 0, 3, g2)
  BY <1>5, <1>7, <1>9, StepText, Succs DEF g2
<1>11. Reached(c, layout, 3, 0, 4, g3)
  BY <1>5, <1>7, <1>10, StepBuffer, Succs DEF g3
<1>12. Reached(c, layout, 4, a1, 4, g4)
  BY <1>4, <1>7, <1>11, StepAddress, Succs DEF a1, g4
<1>13. Reached(c, layout, 5, a2, 4, g5)
  BY <1>4, <1>7, <1>12, StepWord, Succs DEF a2, g5
<1>14. /\ Has(g5, "destination_chain", m.destination_chain)
       /\ Has(g5, "destination_address", m.destination_address)
       /\ Has(g5, "payload", m.payload) /\ Has(g5, "source_address", m.source_address)
       /\ Has(g5, "payload_hash", m.payload_hash)
  BY HasNew, HasOld DEF g1, g2, g3, g4, g5
<1>15. Read(c, layout) = State(a2, 4, g5)
  BY <1>7, <1>13, Finish
<1> QED
  BY <1>14, <1>15 DEF c, layout

LEMMA ReadsNativeGasPaid ==
    ASSUME NEW m \in LogsOf("NativeGasPaid")
    PROVE  \E at, ref, g :
              /\ Read(LogCell(m), <<Address("sender"), Word("payload_hash"),
                                    Word("msg_value"), Inner(<<Address("refund_address")>>),
                                    Text("destination_chain"),
                                        Text("destination_address")>>)
                   = State(at, ref, g)
              /\ Has(g, "sender", m.sender) /\ Has(g, "payload_hash", m.payload_hash)
              /\ Has(g, "msg_value", m.msg_value)
              /\ Has(g, "refund_address", m.refund_address)
              /\ Has(g, "destination_chain", m.destination_chain)
              /\ Has(g, "destination_address", m.destination_address)
<1> DEFINE c == LogCell(m)
           layout == <<Address("sender"), Word("payload_hash"), Word("msg_value"),
                       Inner(<<Address("refund_address")>>), Text("destination_chain"),
                       Text("destination_address")>>
           a1 == After(0, AddressBits(m.sender))
           a2 == After(a1, Bits(m.payload_hash))
           a3 == After(a2, Bits(m.msg_value))
<1>1. /\ m.kind = "NativeGasPaid" /\ m.sender \in AnyAddress
      /\ m.refund_address \in AnyAddress /\ m.payload_hash \in AnyWord
      /\ m.msg_value \in AnyWord /\ m.destination_chain \in AnyText
      /\ m.destination_address \in AnyText
  BY DEF LogsOf
<1>2. /\ c.bits = Joined3(AddressBits(m.sender), Bits(m.payload_hash), Bits(m.msg_value))
      /\ c.refs = <<Cell(AddressBits(m.refund_address), <<>>),
                    buffer_to_cell(m.destination_chain),
                        buffer_to_cell(m.destination_address)>>
  BY <1>1 DEF LogCell, Cell, Joined3
<1> HIDE DEF c
<1>3. /\ AddressBits(m.sender) \in BitStrings /\ Bits(m.payload_hash) \in BitStrings
      /\ Bits(m.msg_value) \in BitStrings
  BY <1>1, AddressString, WordString
<1>4. /\ AddressAt(c, 0, m.sender) /\ WordAt(c, a1, m.payload_hash)
      /\ WordAt(c, a2, m.msg_value)
  <2>1. /\ In(c, 0, AddressBits(m.sender)) /\ In(c, a1, Bits(m.payload_hash))
        /\ In(c, a2, Bits(m.msg_value))
    BY <1>2, <1>3, In3
  <2> HIDE DEF a1, a2, a3
  <2> QED
    BY <1>1, <2>1 DEF AddressAt, WordAt
<1>5. /\ TextAt(c, 2, m.destination_chain) /\ TextAt(c, 3, m.destination_address)
  BY <1>1, <1>2 DEF TextAt
<1>6. PICK h : /\ InnerAt(c, 1, <<Address("refund_address")>>, h)
               /\ DOMAIN h = {"refund_address"}
               /\ Has(h, "refund_address", m.refund_address)
  <2>1. 1 \in DOMAIN c.refs /\ c.refs[1] = Cell(AddressBits(m.refund_address), <<>>)
    BY <1>2
  <2>2. PICK u, v, h : /\ ReadFlat(Cell(AddressBits(m.refund_address), <<>>),
                                   <<Address("refund_address")>>) = State(u, v, h)
                       /\ DOMAIN h = {"refund_address"}
                       /\ Has(h, "refund_address", m.refund_address)
    BY <1>1, ReadsAddress
  <2>3. InnerAt(c, 1, <<Address("refund_address")>>, h)
    BY <2>1, <2>2 DEF InnerAt
  <2> QED
    BY <2>2, <2>3
<1> DEFINE g1 == Merged(Field("sender", m.sender), NoFields)
           g2 == Merged(Field("payload_hash", m.payload_hash), g1)
           g3 == Merged(Field("msg_value", m.msg_value), g2)
           g4 == Merged(h, g3)
           g5 == Merged(Field("destination_chain", m.destination_chain), g4)
           g6 == Merged(Field("destination_address", m.destination_address), g5)
<1>7. /\ Loads(layout, 6) /\ layout[1] = Address("sender")
      /\ layout[2] = Word("payload_hash") /\ layout[3] = Word("msg_value")
      /\ layout[4] = Inner(<<Address("refund_address")>>)
      /\ layout[5] = Text("destination_chain") /\ layout[6] = Text("destination_address")
  BY DEF Loads
<1> HIDE DEF layout, a1, a2, a3, g1, g2, g3, g4, g5, g6
<1>8. Reached(c, layout, 0, 0, 1, NoFields)
  BY Start
<1>9. Reached(c, layout, 1, a1, 1, g1)
  BY <1>4, <1>7, <1>8, StepAddress, Succs DEF a1, g1
<1>10. Reached(c, layout, 2, a2, 1, g2)
  BY <1>4, <1>7, <1>9, StepWord, Succs DEF a2, g2
<1>11. Reached(c, layout, 3, a3, 1, g3)
  BY <1>4, <1>7, <1>10, StepWord, Succs DEF a3, g3
<1>12. Reached(c, layout, 4, a3, 2, g4)
  BY <1>6, <1>7, <1>11, StepInner, Succs DEF g4
<1>13. Reached(c, layout, 5, a3, 3, g5)
  BY <1>5, <1>7, <1>12, StepText, Succs DEF g5
<1>14. Reached(c, layout, 6, a3, 4, g6)
  BY <1>5, <1>7, <1>13, StepText, Succs DEF g6
<1>15. /\ Has(g6, "sender", m.sender) /\ Has(g6, "payload_hash", m.payload_hash)
       /\ Has(g6, "msg_value", m.msg_value) /\ Has(g6, "refund_address", m.refund_address)
       /\ Has(g6, "destination_chain", m.destination_chain)
       /\ Has(g6, "destination_address", m.destination_address)
  BY <1>6, HasNew, HasOld, HasInner, HasOuter DEF g1, g2, g3, g4, g5, g6
<1>16. Read(c, layout) = State(a3, 4, g6)
  BY <1>7, <1>14, Finish
<1> QED
  BY <1>15, <1>16 DEF c, layout

LEMMA ReadsNativeGasAdded ==
    ASSUME NEW m \in LogsOf("NativeGasAdded")
    PROVE  \E at, ref, g :
              /\ Read(LogCell(m), <<Word("tx_hash"), Address("refund_address"),
                                    Word("msg_value")>>) = State(at, ref, g)
              /\ Has(g, "tx_hash", m.tx_hash) /\ Has(g, "refund_address", m.refund_address)
              /\ Has(g, "msg_value", m.msg_value)
<1> DEFINE c == LogCell(m)
           layout == <<Word("tx_hash"), Address("refund_address"), Word("msg_value")>>
           a1 == After(0, Bits(m.tx_hash))
           a2 == After(a1, AddressBits(m.refund_address))
           a3 == After(a2, Bits(m.msg_value))
<1>1. /\ m.kind = "NativeGasAdded" /\ m.refund_address \in AnyAddress
      /\ m.tx_hash \in AnyWord /\ m.msg_value \in AnyWord
  BY DEF LogsOf
<1>2. c.bits = Joined3(Bits(m.tx_hash), AddressBits(m.refund_address), Bits(m.msg_value))
  BY <1>1 DEF LogCell, Cell, Joined3
<1> HIDE DEF c
<1>3. /\ Bits(m.tx_hash) \in BitStrings /\ AddressBits(m.refund_address) \in BitStrings
      /\ Bits(m.msg_value) \in BitStrings
  BY <1>1, WordString, AddressString
<1>4. /\ WordAt(c, 0, m.tx_hash) /\ AddressAt(c, a1, m.refund_address)
      /\ WordAt(c, a2, m.msg_value)
  <2>1. /\ In(c, 0, Bits(m.tx_hash)) /\ In(c, a1, AddressBits(m.refund_address))
        /\ In(c, a2, Bits(m.msg_value))
    BY <1>2, <1>3, In3
  <2> HIDE DEF a1, a2, a3
  <2> QED
    BY <1>1, <2>1 DEF WordAt, AddressAt
<1> DEFINE g1 == Merged(Field("tx_hash", m.tx_hash), NoFields)
           g2 == Merged(Field("refund_address", m.refund_address), g1)
           g3 == Merged(Field("msg_value", m.msg_value), g2)
<1>7. /\ Loads(layout, 3) /\ layout[1] = Word("tx_hash")
      /\ layout[2] = Address("refund_address") /\ layout[3] = Word("msg_value")
  BY DEF Loads
<1> HIDE DEF layout, a1, a2, a3, g1, g2, g3
<1>8. Reached(c, layout, 0, 0, 1, NoFields)
  BY Start
<1>9. Reached(c, layout, 1, a1, 1, g1)
  BY <1>4, <1>7, <1>8, StepWord, Succs DEF a1, g1
<1>10. Reached(c, layout, 2, a2, 1, g2)
  BY <1>4, <1>7, <1>9, StepAddress, Succs DEF a2, g2
<1>11. Reached(c, layout, 3, a3, 1, g3)
  BY <1>4, <1>7, <1>10, StepWord, Succs DEF a3, g3
<1>12. /\ Has(g3, "tx_hash", m.tx_hash) /\ Has(g3, "refund_address", m.refund_address)
       /\ Has(g3, "msg_value", m.msg_value)
  BY HasNew, HasOld DEF g1, g2, g3
<1>13. Read(c, layout) = State(a3, 1, g3)
  BY <1>7, <1>11, Finish
<1> QED
  BY <1>12, <1>13 DEF c, layout

LEMMA ReadsJettonGasPaid ==
    ASSUME NEW m \in LogsOf("JettonGasPaid")
    PROVE  \E at, ref, g :
              /\ Read(LogCell(m), <<Address("minter"), Coins("amount"),
                                    Word("payload_hash"),
                                    Inner(<<Address("refund_address")>>),
                                    Text("destination_chain"),
                                        Text("destination_address")>>)
                   = State(at, ref, g)
              /\ Has(g, "minter", m.minter) /\ Has(g, "amount", m.amount)
              /\ Has(g, "payload_hash", m.payload_hash)
              /\ Has(g, "refund_address", m.refund_address)
              /\ Has(g, "destination_chain", m.destination_chain)
              /\ Has(g, "destination_address", m.destination_address)
<1> DEFINE c == LogCell(m)
           layout == <<Address("minter"), Coins("amount"), Word("payload_hash"),
                       Inner(<<Address("refund_address")>>), Text("destination_chain"),
                       Text("destination_address")>>
           a1 == After(0, AddressBits(m.minter))
           a2 == After(a1, CoinsBits(m.amount))
           a3 == After(a2, Bits(m.payload_hash))
<1>1. /\ m.kind = "JettonGasPaid" /\ m.minter \in AnyAddress
      /\ m.refund_address \in AnyAddress /\ m.amount \in AnyCoins
      /\ m.payload_hash \in AnyWord /\ m.destination_chain \in AnyText
      /\ m.destination_address \in AnyText
  BY DEF LogsOf
<1>2. /\ c.bits = Joined3(AddressBits(m.minter), CoinsBits(m.amount), Bits(m.payload_hash))
      /\ c.refs = <<Cell(AddressBits(m.refund_address), <<>>),
                    buffer_to_cell(m.destination_chain),
                        buffer_to_cell(m.destination_address)>>
  BY <1>1 DEF LogCell, Cell, Joined3
<1> HIDE DEF c
<1>3. /\ AddressBits(m.minter) \in BitStrings /\ CoinsBits(m.amount) \in BitStrings
      /\ Bits(m.payload_hash) \in BitStrings
  BY <1>1, AddressString, CoinsString, WordString
<1>4. /\ AddressAt(c, 0, m.minter) /\ CoinsAt(c, a1, m.amount)
      /\ WordAt(c, a2, m.payload_hash)
  <2>1. /\ In(c, 0, AddressBits(m.minter)) /\ In(c, a1, CoinsBits(m.amount))
        /\ In(c, a2, Bits(m.payload_hash))
    BY <1>2, <1>3, In3
  <2> HIDE DEF a1, a2, a3
  <2> QED
    BY <1>1, <2>1 DEF AddressAt, CoinsAt, WordAt
<1>5. /\ TextAt(c, 2, m.destination_chain) /\ TextAt(c, 3, m.destination_address)
  BY <1>1, <1>2 DEF TextAt
<1>6. PICK h : /\ InnerAt(c, 1, <<Address("refund_address")>>, h)
               /\ DOMAIN h = {"refund_address"}
               /\ Has(h, "refund_address", m.refund_address)
  <2>1. 1 \in DOMAIN c.refs /\ c.refs[1] = Cell(AddressBits(m.refund_address), <<>>)
    BY <1>2
  <2>2. PICK u, v, h : /\ ReadFlat(Cell(AddressBits(m.refund_address), <<>>),
                                   <<Address("refund_address")>>) = State(u, v, h)
                       /\ DOMAIN h = {"refund_address"}
                       /\ Has(h, "refund_address", m.refund_address)
    BY <1>1, ReadsAddress
  <2>3. InnerAt(c, 1, <<Address("refund_address")>>, h)
    BY <2>1, <2>2 DEF InnerAt
  <2> QED
    BY <2>2, <2>3
<1> DEFINE g1 == Merged(Field("minter", m.minter), NoFields)
           g2 == Merged(Field("amount", m.amount), g1)
           g3 == Merged(Field("payload_hash", m.payload_hash), g2)
           g4 == Merged(h, g3)
           g5 == Merged(Field("destination_chain", m.destination_chain), g4)
           g6 == Merged(Field("destination_address", m.destination_address), g5)
<1>7. /\ Loads(layout, 6) /\ layout[1] = Address("minter") /\ layout[2] = Coins("amount")
      /\ layout[3] = Word("payload_hash")
      /\ layout[4] = Inner(<<Address("refund_address")>>)
      /\ layout[5] = Text("destination_chain") /\ layout[6] = Text("destination_address")
  BY DEF Loads
<1> HIDE DEF layout, a1, a2, a3, g1, g2, g3, g4, g5, g6
<1>8. Reached(c, layout, 0, 0, 1, NoFields)
  BY Start
<1>9. Reached(c, layout, 1, a1, 1, g1)
  BY <1>4, <1>7, <1>8, StepAddress, Succs DEF a1, g1
<1>10. Reached(c, layout, 2, a2, 1, g2)
  BY <1>4, <1>7, <1>9, StepCoins, Succs DEF a2, g2
<1>11. Reached(c, layout, 3, a3, 1, g3)
  BY <1>4, <1>7, <1>10, StepWord, Succs DEF a3, g3
<1>12. Reached(c, layout, 4, a3, 2, g4)
  BY <1>6, <1>7, <1>11, StepInner, Succs DEF g4
<1>13. Reached(c, layout, 5, a3, 3, g5)
  BY <1>5, <1>7, <1>12, StepText, Succs DEF g5
<1>14. Reached(c, layout, 6, a3, 4, g6)
  BY <1>5, <1>7, <1>13, StepText, Succs DEF g6
<1>15. /\ Has(g6, "minter", m.minter) /\ Has(g6, "amount", m.amount)
       /\ Has(g6, "payload_hash", m.payload_hash)
       /\ Has(g6, "refund_address", m.refund_address)
       /\ Has(g6, "destination_chain", m.destination_chain)
       /\ Has(g6, "destination_address", m.destination_address)
  BY <1>6, HasNew, HasOld, HasInner, HasOuter DEF g1, g2, g3, g4, g5, g6
<1>16. Read(c, layout) = State(a3, 4, g6)
  BY <1>7, <1>14, Finish
<1> QED
  BY <1>15, <1>16 DEF c, layout

LEMMA ReadsJettonGasAdded ==
    ASSUME NEW m \in LogsOf("JettonGasAdded")
    PROVE  \E at, ref, g :
              /\ Read(LogCell(m), <<Address("minter"), Address("sender"), Coins("amount"),
                                    Word("tx_hash"), Inner(<<Address("refund_address")>>)>>)
                   = State(at, ref, g)
              /\ Has(g, "minter", m.minter) /\ Has(g, "sender", m.sender)
              /\ Has(g, "amount", m.amount) /\ Has(g, "tx_hash", m.tx_hash)
              /\ Has(g, "refund_address", m.refund_address)
<1> DEFINE c == LogCell(m)
           layout == <<Address("minter"), Address("sender"), Coins("amount"),
                       Word("tx_hash"), Inner(<<Address("refund_address")>>)>>
           a1 == After(0, AddressBits(m.minter))
           a2 == After(a1, AddressBits(m.sender))
           a3 == After(a2, CoinsBits(m.amount))
           a4 == After(a3, Bits(m.tx_hash))
<1>1. /\ m.kind = "JettonGasAdded" /\ m.minter \in AnyAddress /\ m.sender \in AnyAddress
      /\ m.refund_address \in AnyAddress /\ m.amount \in AnyCoins /\ m.tx_hash \in AnyWord
  BY DEF LogsOf
<1>2. /\ c.bits
             = Joined4(AddressBits(m.minter), AddressBits(m.sender), CoinsBits(m.amount),
                       Bits(m.tx_hash))
      /\ c.refs = <<Cell(AddressBits(m.refund_address), <<>>)>>
  BY <1>1 DEF LogCell, Cell, Joined4
<1> HIDE DEF c
<1>3. /\ AddressBits(m.minter) \in BitStrings /\ AddressBits(m.sender) \in BitStrings
      /\ CoinsBits(m.amount) \in BitStrings /\ Bits(m.tx_hash) \in BitStrings
  BY <1>1, AddressString, CoinsString, WordString
<1>4. /\ AddressAt(c, 0, m.minter) /\ AddressAt(c, a1, m.sender) /\ CoinsAt(c, a2, m.amount)
      /\ WordAt(c, a3, m.tx_hash)
  <2>1. /\ In(c, 0, AddressBits(m.minter)) /\ In(c, a1, AddressBits(m.sender))
        /\ In(c, a2, CoinsBits(m.amount)) /\ In(c, a3, Bits(m.tx_hash))
    BY <1>2, <1>3, In4
  <2> HIDE DEF a1, a2, a3, a4
  <2> QED
    BY <1>1, <2>1 DEF AddressAt, CoinsAt, WordAt
<1>6. PICK h : /\ InnerAt(c, 1, <<Address("refund_address")>>, h)
               /\ DOMAIN h = {"refund_address"}
               /\ Has(h, "refund_address", m.refund_address)
  <2>1. 1 \in DOMAIN c.refs /\ c.refs[1] = Cell(AddressBits(m.refund_address), <<>>)
    BY <1>2
  <2>2. PICK u, v, h : /\ ReadFlat(Cell(AddressBits(m.refund_address), <<>>),
                                   <<Address("refund_address")>>) = State(u, v, h)
                       /\ DOMAIN h = {"refund_address"}
                       /\ Has(h, "refund_address", m.refund_address)
    BY <1>1, ReadsAddress
  <2>3. InnerAt(c, 1, <<Address("refund_address")>>, h)
    BY <2>1, <2>2 DEF InnerAt
  <2> QED
    BY <2>2, <2>3
<1> DEFINE g1 == Merged(Field("minter", m.minter), NoFields)
           g2 == Merged(Field("sender", m.sender), g1)
           g3 == Merged(Field("amount", m.amount), g2)
           g4 == Merged(Field("tx_hash", m.tx_hash), g3)
           g5 == Merged(h, g4)
<1>7. /\ Loads(layout, 5) /\ layout[1] = Address("minter") /\ layout[2] = Address("sender")
      /\ layout[3] = Coins("amount") /\ layout[4] = Word("tx_hash")
      /\ layout[5] = Inner(<<Address("refund_address")>>)
  BY DEF Loads
<1> HIDE DEF layout, a1, a2, a3, a4, g1, g2, g3, g4, g5
<1>8. Reached(c, layout, 0, 0, 1, NoFields)
  BY Start
<1>9. Reached(c, layout, 1, a1, 1, g1)
  BY <1>4, <1>7, <1>8, StepAddress, Succs DEF a1, g1
<1>10. Reached(c, layout, 2, a2, 1, g2)
  BY <1>4, <1>7, <1>9, StepAddress, Succs DEF a2, g2
<1>11. Reached(c, layout, 3, a3, 1, g3)
  BY <1>4, <1>7, <1>10, StepCoins, Succs DEF a3, g3
<1>12. Reached(c, layout, 4, a4, 1, g4)
  BY <1>4, <1>7, <1>11, StepWord, Succs DEF a4, g4
<1>13. Reached(c, layout, 5, a4, 2, g5)
  BY <1>6, <1>7, <1>12, StepInner, Succs DEF g5
<1>14. /\ Has(g5, "minter", m.minter) /\ Has(g5, "sender", m.sender)
       /\ Has(g5, "amount", m.amount) /\ Has(g5, "tx_hash", m.tx_hash)
       /\ Has(g5, "refund_address", m.refund_address)
  BY <1>6, HasNew, HasOld, HasInner, HasOuter DEF g1, g2, g3, g4, g5
<1>15. Read(c, layout) = State(a4, 2, g5)
  BY <1>7, <1>13, Finish
<1> QED
  BY <1>14, <1>15 DEF c, layout

LEMMA ReadsMessageApproved ==
    ASSUME NEW m \in LogsOf("MessageApproved")
    PROVE  \E at, ref, g :
              /\ Read(LogCell(m), <<Text("message_id"), Text("source_chain"),
                                    Text("source_address"),
                                    Inner(<<Word("payload_hash"),
                                            Buffer("destination_address"),
                                            Text("destination_chain")>>)>>)
                   = State(at, ref, g)
              /\ Has(g, "message_id", m.message_id)
              /\ Has(g, "source_chain", m.source_chain)
              /\ Has(g, "source_address", m.source_address)
              /\ Has(g, "payload_hash", m.payload_hash)
              /\ Has(g, "destination_address", HashPart(m.destination_address))
              /\ Has(g, "destination_chain", m.destination_chain)
<1> DEFINE c == LogCell(m)
           layout == <<Text("message_id"), Text("source_chain"), Text("source_address"),
                       Inner(<<Word("payload_hash"), Buffer("destination_address"),
                               Text("destination_chain")>>)>>
<1>1. /\ m.kind = "MessageApproved" /\ m.message_id \in AnyText
      /\ m.source_chain \in AnyText /\ m.source_address \in AnyText
      /\ m.destination_chain \in AnyText /\ m.payload_hash \in AnyWord
      /\ m.destination_address \in AnyContract
      /\ HashPart(m.destination_address) \in AnyBuffer
  <2>1. /\ m.kind = "MessageApproved" /\ m.message_id \in AnyText
        /\ m.source_chain \in AnyText /\ m.source_address \in AnyText
        /\ m.destination_chain \in AnyText /\ m.payload_hash \in AnyWord
        /\ m.destination_address \in AnyContract
    BY DEF LogsOf
  <2>2. HashPart(m.destination_address) \in AnyBuffer
    <3>1. m.destination_address \in AnyAddress
      BY <2>1 DEF AnyContract
    <3> QED
      BY <3>1, HashParts
  <2> QED
    BY <2>1, <2>2
<1>2. c.refs = <<buffer_to_cell(m.message_id), buffer_to_cell(m.source_chain),
                 buffer_to_cell(m.source_address),
                     Cell(Bits(m.payload_hash),
                          <<buffer_to_cell(HashPart(m.destination_address)),
                            buffer_to_cell(m.destination_chain)>>)>>
  BY <1>1 DEF LogCell, Cell
<1> HIDE DEF c
<1>5. /\ TextAt(c, 1, m.message_id) /\ TextAt(c, 2, m.source_chain)
      /\ TextAt(c, 3, m.source_address)
  BY <1>1, <1>2 DEF TextAt
<1>6. PICK h : /\ InnerAt(c, 4,
                          <<Word("payload_hash"), Buffer("destination_address"),
                            Text("destination_chain")>>, h)
               /\ DOMAIN h = {"payload_hash", "destination_address", "destination_chain"}
               /\ Has(h, "payload_hash", m.payload_hash)
               /\ Has(h, "destination_address", HashPart(m.destination_address))
               /\ Has(h, "destination_chain", m.destination_chain)
  <2>1. /\ 4 \in DOMAIN c.refs
        /\ c.refs[4]
               = Cell(Bits(m.payload_hash),
                      <<buffer_to_cell(HashPart(m.destination_address)),
                        buffer_to_cell(m.destination_chain)>>)
    BY <1>2
  <2>2. PICK u, v, h : /\ ReadFlat(Cell(Bits(m.payload_hash),
                                        <<buffer_to_cell(HashPart(m.destination_address)),
                                          buffer_to_cell(m.destination_chain)>>),
                                   <<Word("payload_hash"), Buffer("destination_address"),
                                     Text("destination_chain")>>) = State(u, v, h)
                       /\ DOMAIN h
                              = {"payload_hash", "destination_address", "destination_chain"}
                       /\ Has(h, "payload_hash", m.payload_hash)
                       /\ Has(h, "destination_address", HashPart(m.destination_address))
                       /\ Has(h, "destination_chain", m.destination_chain)
    BY <1>1, ReadsApproved
  <2>3. InnerAt(c, 4,
                <<Word("payload_hash"), Buffer("destination_address"),
                  Text("destination_chain")>>, h)
    BY <2>1, <2>2 DEF InnerAt
  <2> QED
    BY <2>2, <2>3
<1> DEFINE g1 == Merged(Field("message_id", m.message_id), NoFields)
           g2 == Merged(Field("source_chain", m.source_chain), g1)
           g3 == Merged(Field("source_address", m.source_address), g2)
           g4 == Merged(h, g3)
<1>7. /\ Loads(layout, 4) /\ layout[1] = Text("message_id")
      /\ layout[2] = Text("source_chain") /\ layout[3] = Text("source_address")
      /\ layout[4]
             = Inner(<<Word("payload_hash"), Buffer("destination_address"),
                       Text("destination_chain")>>)
  BY DEF Loads
<1> HIDE DEF layout, g1, g2, g3, g4
<1>8. Reached(c, layout, 0, 0, 1, NoFields)
  BY Start
<1>9. Reached(c, layout, 1, 0, 2, g1)
  BY <1>5, <1>7, <1>8, StepText, Succs DEF g1
<1>10. Reached(c, layout, 2, 0, 3, g2)
  BY <1>5, <1>7, <1>9, StepText, Succs DEF g2
<1>11. Reached(c, layout, 3, 0, 4, g3)
  BY <1>5, <1>7, <1>10, StepText, Succs DEF g3
<1>12. Reached(c, layout, 4, 0, 5, g4)
  BY <1>6, <1>7, <1>11, StepInner, Succs DEF g4
<1>13. /\ Has(g4, "message_id", m.message_id) /\ Has(g4, "source_chain", m.source_chain)
       /\ Has(g4, "source_address", m.source_address)
       /\ Has(g4, "payload_hash", m.payload_hash)
       /\ Has(g4, "destination_address", HashPart(m.destination_address))
       /\ Has(g4, "destination_chain", m.destination_chain)
  BY <1>6, HasNew, HasOld, HasInner, HasOuter DEF g1, g2, g3, g4
<1>14. Read(c, layout) = State(0, 5, g4)
  BY <1>7, <1>12, Finish
<1> QED
  BY <1>13, <1>14 DEF c, layout

LEMMA ReadsSignersRotated ==
    ASSUME NEW m \in LogsOf("SignersRotated")
    PROVE  \E at, ref, g :
              /\ Read(LogCell(m), <<OpCode, Skip, Word("signers_hash"), Word("epoch")>>)
                   = State(at, ref, g)
              /\ Has(g, "op", OP_SIGNERS_ROTATED_LOG)
              /\ Has(g, "signers_hash", m.signers_hash) /\ Has(g, "epoch", m.epoch)
<1> DEFINE c == LogCell(m)
           layout == <<OpCode, Skip, Word("signers_hash"), Word("epoch")>>
           a1 == After(0, Bits(OP_SIGNERS_ROTATED_LOG))
           a2 == After(a1, Bits(m.signers_hash))
           a3 == After(a2, Bits(m.epoch))
<1>1. /\ m.kind = "SignersRotated" /\ m.signers_hash \in AnyWord /\ m.epoch \in AnyWord
      /\ OP_SIGNERS_ROTATED_LOG \in Octets(4)
  <2>1. m.kind = "SignersRotated" /\ m.signers_hash \in AnyWord /\ m.epoch \in AnyWord
    BY DEF LogsOf
  <2>2. OP_SIGNERS_ROTATED_LOG \in Octets(4)
    BY OpCodes
  <2> QED
    BY <2>1, <2>2
<1>2. /\ c.bits = Joined3(Bits(OP_SIGNERS_ROTATED_LOG), Bits(m.signers_hash), Bits(m.epoch))
      /\ c.refs = <<EmptyCell>>
  BY <1>1 DEF LogCell, Cell, Joined3
<1> HIDE DEF c
<1>3. /\ Bits(OP_SIGNERS_ROTATED_LOG) \in BitStrings /\ Bits(m.signers_hash) \in BitStrings
      /\ Bits(m.epoch) \in BitStrings
  BY <1>1, OpCodeString, WordString
<1>4. /\ OpCodeAt(c, 0, OP_SIGNERS_ROTATED_LOG) /\ WordAt(c, a1, m.signers_hash)
      /\ WordAt(c, a2, m.epoch)
  <2>1. /\ In(c, 0, Bits(OP_SIGNERS_ROTATED_LOG)) /\ In(c, a1, Bits(m.signers_hash))
        /\ In(c, a2, Bits(m.epoch))
    BY <1>2, <1>3, In3
  <2> HIDE DEF a1, a2, a3
  <2> QED
    BY <1>1, <2>1 DEF OpCodeAt, WordAt
<1>5. RefAt(c, 1)
  BY <1>1, <1>2 DEF RefAt
<1> DEFINE g1 == Merged(Field("op", OP_SIGNERS_ROTATED_LOG), NoFields)
           g2 == Merged(NoFields, g1)
           g3 == Merged(Field("signers_hash", m.signers_hash), g2)
           g4 == Merged(Field("epoch", m.epoch), g3)
<1>7. /\ Loads(layout, 4) /\ layout[1] = OpCode /\ layout[2] = Skip
      /\ layout[3] = Word("signers_hash") /\ layout[4] = Word("epoch")
  BY DEF Loads
<1> HIDE DEF layout, a1, a2, a3, g1, g2, g3, g4
<1>8. Reached(c, layout, 0, 0, 1, NoFields)
  BY Start
<1>9. Reached(c, layout, 1, a1, 1, g1)
  BY <1>4, <1>7, <1>8, StepOpCode, Succs DEF a1, g1
<1>10. Reached(c, layout, 2, a1, 2, g2)
  BY <1>5, <1>7, <1>9, StepSkip, Succs DEF g2
<1>11. Reached(c, layout, 3, a2, 2, g3)
  BY <1>4, <1>7, <1>10, StepWord, Succs DEF a2, g3
<1>12. Reached(c, layout, 4, a3, 2, g4)
  BY <1>4, <1>7, <1>11, StepWord, Succs DEF a3, g4
<1>13. /\ Has(g4, "op", OP_SIGNERS_ROTATED_LOG) /\ Has(g4, "signers_hash", m.signers_hash)
       /\ Has(g4, "epoch", m.epoch)
  BY HasNew, HasOld, HasOuter, NoNames DEF g1, g2, g3, g4
<1>14. Read(c, layout) = State(a3, 2, g4)
  BY <1>7, <1>12, Finish
<1> QED
  BY <1>13, <1>14 DEF c, layout

LEMMA ReadsITSInterchainTokenDeploymentStarted ==
    ASSUME NEW m \in LogsOf("ITSInterchainTokenDeploymentStarted")
    PROVE  \E at, ref, g :
              /\ Read(LogCell(m), <<OpCode, Word("token_id"), Text("token_name"),
                                    Text("token_symbol"), Uint8("decimals"), Skip,
                                    Text("destination_chain")>>) = State(at, ref, g)
              /\ Has(g, "op", OP_INTERCHAIN_TOKEN_DEPLOYMENT_STARTED_LOG)
              /\ Has(g, "token_id", m.token_id) /\ Has(g, "token_name", m.token_name)
              /\ Has(g, "token_symbol", m.token_symbol) /\ Has(g, "decimals", m.decimals)
              /\ Has(g, "destination_chain", m.destination_chain)
<1> DEFINE c == LogCell(m)
           layout == <<OpCode, Word("token_id"), Text("token_name"), Text("token_symbol"),
                       Uint8("decimals"), Skip, Text("destination_chain")>>
           a1 == After(0, Bits(OP_INTERCHAIN_TOKEN_DEPLOYMENT_STARTED_LOG))
           a2 == After(a1, Bits(m.token_id))
           a3 == After(a2, Bits(m.decimals))
<1>1. /\ m.kind = "ITSInterchainTokenDeploymentStarted" /\ m.token_id \in AnyWord
      /\ m.token_name \in AnyText /\ m.token_symbol \in AnyText
      /\ m.destination_chain \in AnyText /\ m.decimals \in Octets(1)
      /\ OP_INTERCHAIN_TOKEN_DEPLOYMENT_STARTED_LOG \in Octets(4)
  <2>1. /\ m.kind = "ITSInterchainTokenDeploymentStarted" /\ m.token_id \in AnyWord
        /\ m.token_name \in AnyText /\ m.token_symbol \in AnyText
        /\ m.destination_chain \in AnyText /\ m.decimals \in Octets(1)
    BY DEF LogsOf
  <2>2. OP_INTERCHAIN_TOKEN_DEPLOYMENT_STARTED_LOG \in Octets(4)
    BY OpCodes
  <2> QED
    BY <2>1, <2>2
<1>2. /\ c.bits
             = Joined3(Bits(OP_INTERCHAIN_TOKEN_DEPLOYMENT_STARTED_LOG),
                       Bits(m.token_id), Bits(m.decimals))
      /\ c.refs = <<buffer_to_cell(m.token_name), buffer_to_cell(m.token_symbol),
                    EmptyCell, buffer_to_cell(m.destination_chain)>>
  BY <1>1 DEF LogCell, Cell, Joined3
<1> HIDE DEF c
<1>3. /\ Bits(OP_INTERCHAIN_TOKEN_DEPLOYMENT_STARTED_LOG) \in BitStrings
      /\ Bits(m.token_id) \in BitStrings /\ Bits(m.decimals) \in BitStrings
  BY <1>1, OpCodeString, WordString, Uint8String
<1>4. /\ OpCodeAt(c, 0, OP_INTERCHAIN_TOKEN_DEPLOYMENT_STARTED_LOG)
      /\ WordAt(c, a1, m.token_id) /\ Uint8At(c, a2, m.decimals)
  <2>1. /\ In(c, 0, Bits(OP_INTERCHAIN_TOKEN_DEPLOYMENT_STARTED_LOG))
        /\ In(c, a1, Bits(m.token_id)) /\ In(c, a2, Bits(m.decimals))
    BY <1>2, <1>3, In3
  <2> HIDE DEF a1, a2, a3
  <2> QED
    BY <1>1, <2>1 DEF OpCodeAt, WordAt, Uint8At
<1>5. /\ TextAt(c, 1, m.token_name) /\ TextAt(c, 2, m.token_symbol) /\ RefAt(c, 3)
      /\ TextAt(c, 4, m.destination_chain)
  BY <1>1, <1>2 DEF TextAt, RefAt
<1> DEFINE g1 == Merged(Field("op", OP_INTERCHAIN_TOKEN_DEPLOYMENT_STARTED_LOG), NoFields)
           g2 == Merged(Field("token_id", m.token_id), g1)
           g3 == Merged(Field("token_name", m.token_name), g2)
           g4 == Merged(Field("token_symbol", m.token_symbol), g3)
           g5 == Merged(Field("decimals", m.decimals), g4)
           g6 == Merged(NoFields, g5)
           g7 == Merged(Field("destination_chain", m.destination_chain), g6)
<1>7. /\ Loads(layout, 7) /\ layout[1] = OpCode /\ layout[2] = Word("token_id")
      /\ layout[3] = Text("token_name") /\ layout[4] = Text("token_symbol")
      /\ layout[5] = Uint8("decimals") /\ layout[6] = Skip
      /\ layout[7] = Text("destination_chain")
  BY DEF Loads
<1> HIDE DEF layout, a1, a2, a3, g1, g2, g3, g4, g5, g6, g7
<1>8. Reached(c, layout, 0, 0, 1, NoFields)
  BY Start
<1>9. Reached(c, layout, 1, a1, 1, g1)
  BY <1>4, <1>7, <1>8, StepOpCode, Succs DEF a1, g1
<1>10. Reached(c, layout, 2, a2, 1, g2)
  BY <1>4, <1>7, <1>9, StepWord, Succs DEF a2, g2
<1>11. Reached(c, layout, 3, a2, 2, g3)
  BY <1>5, <1>7, <1>10, StepText, Succs DEF g3
<1>12. Reached(c, layout, 4, a2, 3, g4)
  BY <1>5, <1>7, <1>11, StepText, Succs DEF g4
<1>13. Reached(c, layout, 5, a3, 3, g5)
  BY <1>4, <1>7, <1>12, StepUint8, Succs DEF a3, g5
<1>14. Reached(c, layout, 6, a3, 4, g6)
  BY <1>5, <1>7, <1>13, StepSkip, Succs DEF g6
<1>15. Reached(c, layout, 7, a3, 5, g7)
  BY <1>5, <1>7, <1>14, StepText, Succs DEF g7
<1>16. /\ Has(g7, "op", OP_INTERCHAIN_TOKEN_DEPLOYMENT_STARTED_LOG)
       /\ Has(g7, "token_id", m.token_id) /\ Has(g7, "token_name", m.token_name)
       /\ Has(g7, "token_symbol", m.token_symbol) /\ Has(g7, "decimals", m.decimals)
       /\ Has(g7, "destination_chain", m.destination_chain)
  BY HasNew, HasOld, HasOuter, NoNames DEF g1, g2, g3, g4, g5, g6, g7
<1>17. Read(c, layout) = State(a3, 5, g7)
  BY <1>7, <1>15, Finish
<1> QED
  BY <1>16, <1>17 DEF c, layout

LEMMA ReadsITSInterchainTransfer ==
    ASSUME NEW m \in LogsOf("ITSInterchainTransfer")
    PROVE  \E at, ref, g :
              /\ Read(LogCell(m), <<OpCode, Word("token_id"),
                                    Inner(<<Word("sender_address")>>),
                                    Text("destination_chain"),
                                    Buffer("destination_address"), Word("jetton_amount"),
                                    Data("data")>>) = State(at, ref, g)
              /\ Has(g, "op", OP_INTERCHAIN_TRANSFER_LOG) /\ Has(g, "token_id", m.token_id)
              /\ Has(g, "sender_address", HashPart(m.sender_address))
              /\ Has(g, "destination_chain", m.destination_chain)
              /\ Has(g, "destination_address", m.destination_address)
              /\ Has(g, "jetton_amount", m.jetton_amount)
              /\ Has(g, "data", SubSeq(m.data, 1, End(m.data, 0)))
<1> DEFINE c == LogCell(m)
           layout == <<OpCode, Word("token_id"), Inner(<<Word("sender_address")>>),
                       Text("destination_chain"), Buffer("destination_address"),
                       Word("jetton_amount"), Data("data")>>
           a1 == After(0, Bits(OP_INTERCHAIN_TRANSFER_LOG))
           a2 == After(a1, Bits(m.token_id))
           a3 == After(a2, Bits(m.jetton_amount))
<1>1. /\ m.kind = "ITSInterchainTransfer" /\ m.token_id \in AnyWord
      /\ m.jetton_amount \in AnyWord /\ m.sender_address \in AnyContract
      /\ m.destination_chain \in AnyText /\ m.destination_address \in AnyBuffer
      /\ m.data \in AnyBuffer /\ OP_INTERCHAIN_TRANSFER_LOG \in Octets(4)
      /\ HashPart(m.sender_address) \in AnyWord
  <2>1. /\ m.kind = "ITSInterchainTransfer" /\ m.token_id \in AnyWord
        /\ m.jetton_amount \in AnyWord /\ m.sender_address \in AnyContract
        /\ m.destination_chain \in AnyText /\ m.destination_address \in AnyBuffer
        /\ m.data \in AnyBuffer
    BY DEF LogsOf
  <2>2. OP_INTERCHAIN_TRANSFER_LOG \in Octets(4)
    BY OpCodes
  <2>3. HashPart(m.sender_address) \in AnyWord
    <3>1. m.sender_address \in AnyAddress
      BY <2>1 DEF AnyContract
    <3> QED
      BY <3>1, HashParts
  <2> QED
    BY <2>1, <2>2, <2>3
<1>2. /\ c.bits
             = Joined3(Bits(OP_INTERCHAIN_TRANSFER_LOG), Bits(m.token_id),
                       Bits(m.jetton_amount))
      /\ c.refs = <<Cell(Bits(HashPart(m.sender_address)), <<>>),
                    buffer_to_cell(m.destination_chain),
                        buffer_to_cell(m.destination_address), buffer_to_cell(m.data)>>
  BY <1>1 DEF LogCell, Cell, Joined3
<1> HIDE DEF c
<1>3. /\ Bits(OP_INTERCHAIN_TRANSFER_LOG) \in BitStrings /\ Bits(m.token_id) \in BitStrings
      /\ Bits(m.jetton_amount) \in BitStrings
  BY <1>1, OpCodeString, WordString
<1>4. /\ OpCodeAt(c, 0, OP_INTERCHAIN_TRANSFER_LOG) /\ WordAt(c, a1, m.token_id)
      /\ WordAt(c, a2, m.jetton_amount)
  <2>1. /\ In(c, 0, Bits(OP_INTERCHAIN_TRANSFER_LOG)) /\ In(c, a1, Bits(m.token_id))
        /\ In(c, a2, Bits(m.jetton_amount))
    BY <1>2, <1>3, In3
  <2> HIDE DEF a1, a2, a3
  <2> QED
    BY <1>1, <2>1 DEF OpCodeAt, WordAt
<1>5. /\ TextAt(c, 2, m.destination_chain) /\ BufferAt(c, 3, m.destination_address)
      /\ BufferAt(c, 4, m.data)
  BY <1>1, <1>2 DEF TextAt, BufferAt
<1>6. PICK h : /\ InnerAt(c, 1, <<Word("sender_address")>>, h)
               /\ DOMAIN h = {"sender_address"}
               /\ Has(h, "sender_address", HashPart(m.sender_address))
  <2>1. 1 \in DOMAIN c.refs /\ c.refs[1] = Cell(Bits(HashPart(m.sender_address)), <<>>)
    BY <1>2
  <2>2. PICK u, v, h : /\ ReadFlat(Cell(Bits(HashPart(m.sender_address)), <<>>),
                                   <<Word("sender_address")>>) = State(u, v, h)
                       /\ DOMAIN h = {"sender_address"}
                       /\ Has(h, "sender_address", HashPart(m.sender_address))
    BY <1>1, ReadsSender
  <2>3. InnerAt(c, 1, <<Word("sender_address")>>, h)
    BY <2>1, <2>2 DEF InnerAt
  <2> QED
    BY <2>2, <2>3
<1> DEFINE g1 == Merged(Field("op", OP_INTERCHAIN_TRANSFER_LOG), NoFields)
           g2 == Merged(Field("token_id", m.token_id), g1)
           g3 == Merged(h, g2)
           g4 == Merged(Field("destination_chain", m.destination_chain), g3)
           g5 == Merged(Field("destination_address", m.destination_address), g4)
           g6 == Merged(Field("jetton_amount", m.jetton_amount), g5)
           g7 == Merged(Field("data", SubSeq(m.data, 1, End(m.data, 0))), g6)
<1>7. /\ Loads(layout, 7) /\ layout[1] = OpCode /\ layout[2] = Word("token_id")
      /\ layout[3] = Inner(<<Word("sender_address")>>)
      /\ layout[4] = Text("destination_chain") /\ layout[5] = Buffer("destination_address")
      /\ layout[6] = Word("jetton_amount") /\ layout[7] = Data("data")
  BY DEF Loads
<1> HIDE DEF layout, a1, a2, a3, g1, g2, g3, g4, g5, g6, g7
<1>8. Reached(c, layout, 0, 0, 1, NoFields)
  BY Start
<1>9. Reached(c, layout, 1, a1, 1, g1)
  BY <1>4, <1>7, <1>8, StepOpCode, Succs DEF a1, g1
<1>10. Reached(c, layout, 2, a2, 1, g2)
  BY <1>4, <1>7, <1>9, StepWord, Succs DEF a2, g2
<1>11. Reached(c, layout, 3, a2, 2, g3)
  BY <1>6, <1>7, <1>10, StepInner, Succs DEF g3
<1>12. Reached(c, layout, 4, a2, 3, g4)
  BY <1>5, <1>7, <1>11, StepText, Succs DEF g4
<1>13. Reached(c, layout, 5, a2, 4, g5)
  BY <1>5, <1>7, <1>12, StepBuffer, Succs DEF g5
<1>14. Reached(c, layout, 6, a3, 4, g6)
  BY <1>4, <1>7, <1>13, StepWord, Succs DEF a3, g6
<1>15. Reached(c, layout, 7, a3, 5, g7)
  BY <1>5, <1>7, <1>14, StepData, Succs DEF g7
<1>16. /\ Has(g7, "op", OP_INTERCHAIN_TRANSFER_LOG) /\ Has(g7, "token_id", m.token_id)
       /\ Has(g7, "sender_address", HashPart(m.sender_address))
       /\ Has(g7, "destination_chain", m.destination_chain)
       /\ Has(g7, "destination_address", m.destination_address)
       /\ Has(g7, "jetton_amount", m.jetton_amount)
       /\ Has(g7, "data", SubSeq(m.data, 1, End(m.data, 0)))
  BY <1>6, HasNew, HasOld, HasInner, HasOuter DEF g1, g2, g3, g4, g5, g6, g7
<1>17. Read(c, layout) = State(a3, 5, g7)
  BY <1>7, <1>15, Finish
<1> QED
  BY <1>16, <1>17 DEF c, layout

LEMMA ReadsITSLinkTokenStarted ==
    ASSUME NEW m \in LogsOf("ITSLinkTokenStarted")
    PROVE  \E at, ref, g :
              /\ Read(LogCell(m), <<OpCode, Word("token_id"), Text("destination_chain"),
                                    Inner(<<Word("source_token_address")>>),
                                    Buffer("destination_token_address"),
                                    Uint8("token_manager_type")>>) = State(at, ref, g)
              /\ Has(g, "op", OP_LINK_TOKEN_STARTED_LOG) /\ Has(g, "token_id", m.token_id)
              /\ Has(g, "destination_chain", m.destination_chain)
              /\ Has(g, "source_token_address", HashPart(m.source_token_address))
              /\ Has(g, "destination_token_address", m.destination_token_address)
              /\ Has(g, "token_manager_type", m.token_manager_type)
<1> DEFINE c == LogCell(m)
           layout == <<OpCode, Word("token_id"), Text("destination_chain"),
                       Inner(<<Word("source_token_address")>>),
                       Buffer("destination_token_address"), Uint8("token_manager_type")>>
           a1 == After(0, Bits(OP_LINK_TOKEN_STARTED_LOG))
           a2 == After(a1, Bits(m.token_id))
           a3 == After(a2, Bits(m.token_manager_type))
<1>1. /\ m.kind = "ITSLinkTokenStarted" /\ m.token_id \in AnyWord
      /\ m.token_manager_type \in Octets(1) /\ m.source_token_address \in AnyContract
      /\ m.destination_chain \in AnyText /\ m.destination_token_address \in AnyBuffer
      /\ OP_LINK_TOKEN_STARTED_LOG \in Octets(4)
      /\ HashPart(m.source_token_address) \in AnyWord
  <2>1. /\ m.kind = "ITSLinkTokenStarted" /\ m.token_id \in AnyWord
        /\ m.token_manager_type \in Octets(1) /\ m.source_token_address \in AnyContract
        /\ m.destination_chain \in AnyText /\ m.destination_token_address \in AnyBuffer
    BY DEF LogsOf
  <2>2. OP_LINK_TOKEN_STARTED_LOG \in Octets(4)
    BY OpCodes
  <2>3. HashPart(m.source_token_address) \in AnyWord
    <3>1. m.source_token_address \in AnyAddress
      BY <2>1 DEF AnyContract
    <3> QED
      BY <3>1, HashParts
  <2> QED
    BY <2>1, <2>2, <2>3
<1>2. /\ c.bits
             = Joined3(Bits(OP_LINK_TOKEN_STARTED_LOG), Bits(m.token_id),
                       Bits(m.token_manager_type))
      /\ c.refs = <<buffer_to_cell(m.destination_chain),
                    Cell(Bits(HashPart(m.source_token_address)), <<>>),
                        buffer_to_cell(m.destination_token_address)>>
  BY <1>1 DEF LogCell, Cell, Joined3
<1> HIDE DEF c
<1>3. /\ Bits(OP_LINK_TOKEN_STARTED_LOG) \in BitStrings /\ Bits(m.token_id) \in BitStrings
      /\ Bits(m.token_manager_type) \in BitStrings
  BY <1>1, OpCodeString, WordString, Uint8String
<1>4. /\ OpCodeAt(c, 0, OP_LINK_TOKEN_STARTED_LOG) /\ WordAt(c, a1, m.token_id)
      /\ Uint8At(c, a2, m.token_manager_type)
  <2>1. /\ In(c, 0, Bits(OP_LINK_TOKEN_STARTED_LOG)) /\ In(c, a1, Bits(m.token_id))
        /\ In(c, a2, Bits(m.token_manager_type))
    BY <1>2, <1>3, In3
  <2> HIDE DEF a1, a2, a3
  <2> QED
    BY <1>1, <2>1 DEF OpCodeAt, WordAt, Uint8At
<1>5. /\ TextAt(c, 1, m.destination_chain) /\ BufferAt(c, 3, m.destination_token_address)
  BY <1>1, <1>2 DEF TextAt, BufferAt
<1>6. PICK h : /\ InnerAt(c, 2, <<Word("source_token_address")>>, h)
               /\ DOMAIN h = {"source_token_address"}
               /\ Has(h, "source_token_address", HashPart(m.source_token_address))
  <2>1. /\ 2 \in DOMAIN c.refs
        /\ c.refs[2] = Cell(Bits(HashPart(m.source_token_address)), <<>>)
    BY <1>2
  <2>2. PICK u, v, h : /\ ReadFlat(Cell(Bits(HashPart(m.source_token_address)), <<>>),
                                   <<Word("source_token_address")>>) = State(u, v, h)
                       /\ DOMAIN h = {"source_token_address"}
                       /\ Has(h, "source_token_address", HashPart(m.source_token_address))
    BY <1>1, ReadsSourceToken
  <2>3. InnerAt(c, 2, <<Word("source_token_address")>>, h)
    BY <2>1, <2>2 DEF InnerAt
  <2> QED
    BY <2>2, <2>3
<1> DEFINE g1 == Merged(Field("op", OP_LINK_TOKEN_STARTED_LOG), NoFields)
           g2 == Merged(Field("token_id", m.token_id), g1)
           g3 == Merged(Field("destination_chain", m.destination_chain), g2)
           g4 == Merged(h, g3)
           g5 == Merged(Field("destination_token_address", m.destination_token_address), g4)
           g6 == Merged(Field("token_manager_type", m.token_manager_type), g5)
<1>7. /\ Loads(layout, 6) /\ layout[1] = OpCode /\ layout[2] = Word("token_id")
      /\ layout[3] = Text("destination_chain")
      /\ layout[4] = Inner(<<Word("source_token_address")>>)
      /\ layout[5] = Buffer("destination_token_address")
      /\ layout[6] = Uint8("token_manager_type")
  BY DEF Loads
<1> HIDE DEF layout, a1, a2, a3, g1, g2, g3, g4, g5, g6
<1>8. Reached(c, layout, 0, 0, 1, NoFields)
  BY Start
<1>9. Reached(c, layout, 1, a1, 1, g1)
  BY <1>4, <1>7, <1>8, StepOpCode, Succs DEF a1, g1
<1>10. Reached(c, layout, 2, a2, 1, g2)
  BY <1>4, <1>7, <1>9, StepWord, Succs DEF a2, g2
<1>11. Reached(c, layout, 3, a2, 2, g3)
  BY <1>5, <1>7, <1>10, StepText, Succs DEF g3
<1>12. Reached(c, layout, 4, a2, 3, g4)
  BY <1>6, <1>7, <1>11, StepInner, Succs DEF g4
<1>13. Reached(c, layout, 5, a2, 4, g5)
  BY <1>5, <1>7, <1>12, StepBuffer, Succs DEF g5
<1>14. Reached(c, layout, 6, a3, 4, g6)
  BY <1>4, <1>7, <1>13, StepUint8, Succs DEF a3, g6
<1>15. /\ Has(g6, "op", OP_LINK_TOKEN_STARTED_LOG) /\ Has(g6, "token_id", m.token_id)
       /\ Has(g6, "destination_chain", m.destination_chain)
       /\ Has(g6, "source_token_address", HashPart(m.source_token_address))
       /\ Has(g6, "destination_token_address", m.destination_token_address)
       /\ Has(g6, "token_manager_type", m.token_manager_type)
  BY <1>6, HasNew, HasOld, HasInner, HasOuter DEF g1, g2, g3, g4, g5, g6
<1>16. Read(c, layout) = State(a3, 4, g6)
  BY <1>7, <1>14, Finish
<1> QED
  BY <1>15, <1>16 DEF c, layout

LEMMA ReadsITSTokenMetadataRegistered ==
    ASSUME NEW m \in LogsOf("ITSTokenMetadataRegistered")
    PROVE  \E at, ref, g :
              /\ Read(LogCell(m), <<OpCode, Address("address"), Uint8("decimals")>>)
                   = State(at, ref, g)
              /\ Has(g, "op", OP_TOKEN_METADATA_REGISTERED_LOG)
              /\ Has(g, "address", m.address) /\ Has(g, "decimals", m.decimals)
<1> DEFINE c == LogCell(m)
           layout == <<OpCode, Address("address"), Uint8("decimals")>>
           a1 == After(0, Bits(OP_TOKEN_METADATA_REGISTERED_LOG))
           a2 == After(a1, AddressBits(m.address))
           a3 == After(a2, Bits(m.decimals))
<1>1. /\ m.kind = "ITSTokenMetadataRegistered" /\ m.address \in AnyAddress
      /\ m.decimals \in Octets(1) /\ OP_TOKEN_METADATA_REGISTERED_LOG \in Octets(4)
  <2>1. /\ m.kind = "ITSTokenMetadataRegistered" /\ m.address \in AnyAddress
        /\ m.decimals \in Octets(1)
    BY DEF LogsOf
  <2>2. OP_TOKEN_METADATA_REGISTERED_LOG \in Octets(4)
    BY OpCodes
  <2> QED
    BY <2>1, <2>2
<1>2. c.bits
          = Joined3(Bits(OP_TOKEN_METADATA_REGISTERED_LOG), AddressBits(m.address),
                    Bits(m.decimals))
  BY <1>1 DEF LogCell, Cell, Joined3
<1> HIDE DEF c
<1>3. /\ Bits(OP_TOKEN_METADATA_REGISTERED_LOG) \in BitStrings
      /\ AddressBits(m.address) \in BitStrings /\ Bits(m.decimals) \in BitStrings
  BY <1>1, OpCodeString, AddressString, Uint8String
<1>4. /\ OpCodeAt(c, 0, OP_TOKEN_METADATA_REGISTERED_LOG) /\ AddressAt(c, a1, m.address)
      /\ Uint8At(c, a2, m.decimals)
  <2>1. /\ In(c, 0, Bits(OP_TOKEN_METADATA_REGISTERED_LOG))
        /\ In(c, a1, AddressBits(m.address)) /\ In(c, a2, Bits(m.decimals))
    BY <1>2, <1>3, In3
  <2> HIDE DEF a1, a2, a3
  <2> QED
    BY <1>1, <2>1 DEF OpCodeAt, AddressAt, Uint8At
<1> DEFINE g1 == Merged(Field("op", OP_TOKEN_METADATA_REGISTERED_LOG), NoFields)
           g2 == Merged(Field("address", m.address), g1)
           g3 == Merged(Field("decimals", m.decimals), g2)
<1>7. /\ Loads(layout, 3) /\ layout[1] = OpCode /\ layout[2] = Address("address")
      /\ layout[3] = Uint8("decimals")
  BY DEF Loads
<1> HIDE DEF layout, a1, a2, a3, g1, g2, g3
<1>8. Reached(c, layout, 0, 0, 1, NoFields)
  BY Start
<1>9. Reached(c, layout, 1, a1, 1, g1)
  BY <1>4, <1>7, <1>8, StepOpCode, Succs DEF a1, g1
<1>10. Reached(c, layout, 2, a2, 1, g2)
  BY <1>4, <1>7, <1>9, StepAddress, Succs DEF a2, g2
<1>11. Reached(c, layout, 3, a3, 1, g3)
  BY <1>4, <1>7, <1>10, StepUint8, Succs DEF a3, g3
<1>12. /\ Has(g3, "op", OP_TOKEN_METADATA_REGISTERED_LOG) /\ Has(g3, "address", m.address)
       /\ Has(g3, "decimals", m.decimals)
  BY HasNew, HasOld DEF g1, g2, g3
<1>13. Read(c, layout) = State(a3, 1, g3)
  BY <1>7, <1>11, Finish
<1> QED
  BY <1>12, <1>13 DEF c, layout

\* The cell of an execution that the gateway reports, and what is read from it.
ExecutedCell(id, s, a, bits, p, d, n) ==
    Cell(Bits(OP_NULLIFIED_SUCCESSFULLY),
         <<buffer_to_cell(id), buffer_to_cell(s), buffer_to_cell(a),
           Cell(bits, <<buffer_to_cell(p), buffer_to_cell(d), buffer_to_cell(n)>>)>>)

ReadAsExecuted(c, id, s, a, p, d, n) ==
    \E at, ref, g :
        /\ Read(c,
                <<OpCode, Text("message_id"), Text("source_chain"), Text("source_address"),
                     Inner(<<Buffer("payload"), Buffer("destination_address"),
                             Text("destination_chain")>>)>>) = State(at, ref, g)
        /\ Has(g, "op", OP_NULLIFIED_SUCCESSFULLY)
        /\ Has(g, "message_id", id)
        /\ Has(g, "source_chain", s)
        /\ Has(g, "source_address", a)
        /\ Has(g, "payload", p)
        /\ Has(g, "destination_address", d)
        /\ Has(g, "destination_chain", n)

\* The cell of an approved message, and what is read from it.
ApprovalCell(w, id, s, a, d, n) ==
    Cell(Bits(w), <<buffer_to_cell(id), buffer_to_cell(s), buffer_to_cell(a),
                    Cell(<<>>, <<buffer_to_cell(d), buffer_to_cell(n)>>)>>)

ReadAsApproval(c, w, id, s, a, d, n) ==
    \E at, ref, g :
        /\ Read(c, <<Word("payload_hash"), Text("message_id"), Text("source_chain"),
                     Text("source_address"),
                     Inner(<<Buffer("destination_address"), Text("destination_chain")>>)>>)
             = State(at, ref, g)
        /\ g = [x \in DOMAIN g |-> g[x]]
        /\ DOMAIN g = {"payload_hash", "message_id", "source_chain", "source_address",
                       "destination_address", "destination_chain"}
        /\ Has(g, "payload_hash", w)
        /\ Has(g, "message_id", id)
        /\ Has(g, "source_chain", s)
        /\ Has(g, "source_address", a)
        /\ Has(g, "destination_address", d)
        /\ Has(g, "destination_chain", n)

\* A refund that the gas service logs.
LEMMA ReadsRefund ==
    ASSUME NEW t \in AnyWord, NEW a \in AnyAddress, NEW n \in AnyCoins
    PROVE  \E at, ref, g :
              /\ Read(Cell(Bits(t) \o AddressBits(a) \o CoinsBits(n), <<>>),
                      <<Word("tx_hash"),
                        Address("address"),
                        Coins("amount")>>)
                   = State(at, ref, g)
              /\ Has(g, "tx_hash", t) /\ Has(g, "address", a) /\ Has(g, "amount", n)
<1> DEFINE c == Cell(Bits(t) \o AddressBits(a) \o CoinsBits(n), <<>>)
           layout == <<Word("tx_hash"), Address("address"), Coins("amount")>>
           a1 == After(0, Bits(t))
           a2 == After(a1, AddressBits(a))
           a3 == After(a2, CoinsBits(n))
<1>1. /\ t \in AnyWord /\ a \in AnyAddress /\ n \in AnyCoins
  OBVIOUS
<1>2. c.bits = Joined3(Bits(t), AddressBits(a), CoinsBits(n))
  BY DEF Cell, Joined3
<1> HIDE DEF c
<1>3. /\ Bits(t) \in BitStrings /\ AddressBits(a) \in BitStrings
      /\ CoinsBits(n) \in BitStrings
  BY <1>1, WordString, AddressString, CoinsString
<1>4. /\ WordAt(c, 0, t) /\ AddressAt(c, a1, a) /\ CoinsAt(c, a2, n)
  <2>1. /\ In(c, 0, Bits(t)) /\ In(c, a1, AddressBits(a)) /\ In(c, a2, CoinsBits(n))
    BY <1>2, <1>3, In3
  <2> HIDE DEF a1, a2, a3
  <2> QED
    BY <1>1, <2>1 DEF WordAt, AddressAt, CoinsAt
<1> DEFINE g1 == Merged(Field("tx_hash", t), NoFields)
           g2 == Merged(Field("address", a), g1)
           g3 == Merged(Field("amount", n), g2)
<1>7. /\ Loads(layout, 3) /\ layout[1] = Word("tx_hash") /\ layout[2] = Address("address")
      /\ layout[3] = Coins("amount")
  BY DEF Loads
<1> HIDE DEF layout, a1, a2, a3, g1, g2, g3
<1>8. Reached(c, layout, 0, 0, 1, NoFields)
  BY Start
<1>9. Reached(c, layout, 1, a1, 1, g1)
  BY <1>4, <1>7, <1>8, StepWord, Succs DEF a1, g1
<1>10. Reached(c, layout, 2, a2, 1, g2)
  BY <1>4, <1>7, <1>9, StepAddress, Succs DEF a2, g2
<1>11. Reached(c, layout, 3, a3, 1, g3)
  BY <1>4, <1>7, <1>10, StepCoins, Succs DEF a3, g3
<1>12. /\ Has(g3, "tx_hash", t) /\ Has(g3, "address", a) /\ Has(g3, "amount", n)
  BY HasNew, HasOld DEF g1, g2, g3
<1>13. Read(c, layout) = State(a3, 1, g3)
  BY <1>7, <1>11, Finish
<1> QED
  BY <1>12, <1>13 DEF c, layout

\* The message of an execution, as far as the wallet's message names it.
LEMMA ReadsWrapped ==
    ASSUME NEW id \in AnyText, NEW s \in AnyText, NEW y, NEW z
    PROVE  \E at, ref, g :
              /\ Read(Cell(<<>>, <<buffer_to_cell(id), buffer_to_cell(s), y, z>>),
                      <<Text("message_id"),
                        Text("source_chain")>>)
                   = State(at, ref, g)
              /\ Has(g, "message_id", id) /\ Has(g, "source_chain", s)
<1> DEFINE c == Cell(<<>>, <<buffer_to_cell(id), buffer_to_cell(s), y, z>>)
           layout == <<Text("message_id"), Text("source_chain")>>
<1>1. /\ id \in AnyText /\ s \in AnyText
  OBVIOUS
<1>2. c.refs = <<buffer_to_cell(id), buffer_to_cell(s), y, z>>
  BY DEF Cell
<1> HIDE DEF c
<1>5. /\ TextAt(c, 1, id) /\ TextAt(c, 2, s)
  BY <1>1, <1>2 DEF TextAt
<1> DEFINE g1 == Merged(Field("message_id", id), NoFields)
           g2 == Merged(Field("source_chain", s), g1)
<1>7. /\ Loads(layout, 2) /\ layout[1] = Text("message_id")
      /\ layout[2] = Text("source_chain")
  BY DEF Loads
<1> HIDE DEF layout, g1, g2
<1>8. Reached(c, layout, 0, 0, 1, NoFields)
  BY Start
<1>9. Reached(c, layout, 1, 0, 2, g1)
  BY <1>5, <1>7, <1>8, StepText, Succs DEF g1
<1>10. Reached(c, layout, 2, 0, 3, g2)
  BY <1>5, <1>7, <1>9, StepText, Succs DEF g2
<1>11. /\ Has(g2, "message_id", id) /\ Has(g2, "source_chain", s)
  BY HasNew, HasOld DEF g1, g2
<1>12. Read(c, layout) = State(0, 3, g2)
  BY <1>7, <1>10, Finish
<1> QED
  BY <1>11, <1>12 DEF c, layout

\* The gateway's message about it.
LEMMA ReadsNullified ==
    ASSUME NEW id \in AnyText, NEW s \in AnyText, NEW a \in AnyText, NEW bits,
           NEW p \in AnyBuffer, NEW d \in AnyBuffer, NEW n \in AnyText
    PROVE  ReadAsExecuted(ExecutedCell(id, s, a, bits, p, d, n), id, s, a, p, d, n)
<1> DEFINE c == ExecutedCell(id, s, a, bits, p, d, n)
           layout == <<OpCode, Text("message_id"), Text("source_chain"),
                       Text("source_address"),
                       Inner(<<Buffer("payload"), Buffer("destination_address"),
                               Text("destination_chain")>>)>>
           a1 == After(0, Bits(OP_NULLIFIED_SUCCESSFULLY))
<1>1. /\ id \in AnyText /\ s \in AnyText /\ a \in AnyText /\ p \in AnyBuffer
      /\ d \in AnyBuffer /\ n \in AnyText /\ OP_NULLIFIED_SUCCESSFULLY \in Octets(4)
  BY OpCodes
<1>2. /\ c.bits = Joined1(Bits(OP_NULLIFIED_SUCCESSFULLY))
      /\ c.refs = <<buffer_to_cell(id), buffer_to_cell(s), buffer_to_cell(a),
                    Cell(bits,
                         <<buffer_to_cell(p), buffer_to_cell(d), buffer_to_cell(n)>>)>>
  BY DEF Cell, ExecutedCell, Joined1
<1> HIDE DEF c
<1>3. Bits(OP_NULLIFIED_SUCCESSFULLY) \in BitStrings
  BY <1>1, OpCodeString
<1>4. OpCodeAt(c, 0, OP_NULLIFIED_SUCCESSFULLY)
  <2>1. In(c, 0, Bits(OP_NULLIFIED_SUCCESSFULLY))
    BY <1>2, <1>3, In1
  <2> HIDE DEF a1
  <2> QED
    BY <1>1, <2>1 DEF OpCodeAt
<1>5. /\ TextAt(c, 1, id) /\ TextAt(c, 2, s) /\ TextAt(c, 3, a)
  BY <1>1, <1>2 DEF TextAt
<1>6. PICK h : /\ InnerAt(c, 4,
                          <<Buffer("payload"), Buffer("destination_address"),
                            Text("destination_chain")>>, h)
               /\ DOMAIN h = {"payload", "destination_address", "destination_chain"}
               /\ Has(h, "payload", p) /\ Has(h, "destination_address", d)
               /\ Has(h, "destination_chain", n)
  <2>1. /\ 4 \in DOMAIN c.refs
        /\ c.refs[4]
               = Cell(bits, <<buffer_to_cell(p), buffer_to_cell(d), buffer_to_cell(n)>>)
    BY <1>2
  <2>2. PICK u, v, h : /\ ReadFlat(Cell(bits,
                                        <<buffer_to_cell(p), buffer_to_cell(d),
                                          buffer_to_cell(n)>>),
                                              <<Buffer("payload"),
                                                Buffer("destination_address"),
                                                    Text("destination_chain")>>)
                                                        = State(u, v, h)
                       /\ DOMAIN h = {"payload", "destination_address", "destination_chain"}
                       /\ Has(h, "payload", p) /\ Has(h, "destination_address", d)
                       /\ Has(h, "destination_chain", n)
    BY <1>1, ReadsExecuted
  <2>3. InnerAt(c, 4,
                <<Buffer("payload"), Buffer("destination_address"),
                  Text("destination_chain")>>, h)
    BY <2>1, <2>2 DEF InnerAt
  <2> QED
    BY <2>2, <2>3
<1> DEFINE g1 == Merged(Field("op", OP_NULLIFIED_SUCCESSFULLY), NoFields)
           g2 == Merged(Field("message_id", id), g1)
           g3 == Merged(Field("source_chain", s), g2)
           g4 == Merged(Field("source_address", a), g3)
           g5 == Merged(h, g4)
<1>7. /\ Loads(layout, 5) /\ layout[1] = OpCode /\ layout[2] = Text("message_id")
      /\ layout[3] = Text("source_chain") /\ layout[4] = Text("source_address")
      /\ layout[5]
             = Inner(<<Buffer("payload"), Buffer("destination_address"),
                       Text("destination_chain")>>)
  BY DEF Loads
<1> HIDE DEF layout, a1, g1, g2, g3, g4, g5
<1>8. Reached(c, layout, 0, 0, 1, NoFields)
  BY Start
<1>9. Reached(c, layout, 1, a1, 1, g1)
  BY <1>4, <1>7, <1>8, StepOpCode, Succs DEF a1, g1
<1>10. Reached(c, layout, 2, a1, 2, g2)
  BY <1>5, <1>7, <1>9, StepText, Succs DEF g2
<1>11. Reached(c, layout, 3, a1, 3, g3)
  BY <1>5, <1>7, <1>10, StepText, Succs DEF g3
<1>12. Reached(c, layout, 4, a1, 4, g4)
  BY <1>5, <1>7, <1>11, StepText, Succs DEF g4
<1>13. Reached(c, layout, 5, a1, 5, g5)
  BY <1>6, <1>7, <1>12, StepInner, Succs DEF g5
<1>14. /\ Has(g5, "op", OP_NULLIFIED_SUCCESSFULLY) /\ Has(g5, "message_id", id)
       /\ Has(g5, "source_chain", s) /\ Has(g5, "source_address", a)
       /\ Has(g5, "payload", p) /\ Has(g5, "destination_address", d)
       /\ Has(g5, "destination_chain", n)
  BY <1>6, HasNew, HasOld, HasInner, HasOuter DEF g1, g2, g3, g4, g5
<1>15. Read(c, layout) = State(a1, 5, g5)
  BY <1>7, <1>13, Finish
<1> QED
  BY <1>14, <1>15 DEF c, layout, ReadAsExecuted

\* An approved message in the dictionary.
LEMMA ReadsApproval ==
    ASSUME NEW w \in AnyWord, NEW id \in AnyText, NEW s \in AnyText, NEW a \in AnyText,
           NEW d \in AnyBuffer, NEW n \in AnyText
    PROVE  ReadAsApproval(ApprovalCell(w, id, s, a, d, n), w, id, s, a, d, n)
<1> DEFINE c == ApprovalCell(w, id, s, a, d, n)
           layout == <<Word("payload_hash"), Text("message_id"), Text("source_chain"),
                       Text("source_address"),
                       Inner(<<Buffer("destination_address"), Text("destination_chain")>>)>>
           a1 == After(0, Bits(w))
<1>1. /\ w \in AnyWord /\ id \in AnyText /\ s \in AnyText /\ a \in AnyText
      /\ d \in AnyBuffer /\ n \in AnyText
  OBVIOUS
<1>2. /\ c.bits = Joined1(Bits(w))
      /\ c.refs = <<buffer_to_cell(id), buffer_to_cell(s), buffer_to_cell(a),
                    Cell(<<>>, <<buffer_to_cell(d), buffer_to_cell(n)>>)>>
  BY DEF Cell, ApprovalCell, Joined1
<1> HIDE DEF c
<1>3. Bits(w) \in BitStrings
  BY <1>1, WordString
<1>4. WordAt(c, 0, w)
  <2>1. In(c, 0, Bits(w))
    BY <1>2, <1>3, In1
  <2> HIDE DEF a1
  <2> QED
    BY <1>1, <2>1 DEF WordAt
<1>5. /\ TextAt(c, 1, id) /\ TextAt(c, 2, s) /\ TextAt(c, 3, a)
  BY <1>1, <1>2 DEF TextAt
<1>6. PICK h : /\ InnerAt(c, 4,
                          <<Buffer("destination_address"), Text("destination_chain")>>, h)
               /\ DOMAIN h = {"destination_address", "destination_chain"}
               /\ Has(h, "destination_address", d) /\ Has(h, "destination_chain", n)
  <2>1. /\ 4 \in DOMAIN c.refs
        /\ c.refs[4] = Cell(<<>>, <<buffer_to_cell(d), buffer_to_cell(n)>>)
    BY <1>2
  <2>2. PICK u, v, h : /\ ReadFlat(Cell(<<>>, <<buffer_to_cell(d), buffer_to_cell(n)>>),
                                   <<Buffer("destination_address"),
                                     Text("destination_chain")>>) = State(u, v, h)
                       /\ DOMAIN h = {"destination_address", "destination_chain"}
                       /\ Has(h, "destination_address", d) /\ Has(h, "destination_chain", n)
    BY <1>1, ReadsDestination
  <2>3. InnerAt(c, 4, <<Buffer("destination_address"), Text("destination_chain")>>, h)
    BY <2>1, <2>2 DEF InnerAt
  <2> QED
    BY <2>2, <2>3
<1> DEFINE g1 == Merged(Field("payload_hash", w), NoFields)
           g2 == Merged(Field("message_id", id), g1)
           g3 == Merged(Field("source_chain", s), g2)
           g4 == Merged(Field("source_address", a), g3)
           g5 == Merged(h, g4)
<1>7. /\ Loads(layout, 5) /\ layout[1] = Word("payload_hash")
      /\ layout[2] = Text("message_id") /\ layout[3] = Text("source_chain")
      /\ layout[4] = Text("source_address")
      /\ layout[5] = Inner(<<Buffer("destination_address"), Text("destination_chain")>>)
  BY DEF Loads
<1> HIDE DEF layout, a1, g1, g2, g3, g4, g5
<1>8. Reached(c, layout, 0, 0, 1, NoFields)
  BY Start
<1>9. Reached(c, layout, 1, a1, 1, g1)
  BY <1>4, <1>7, <1>8, StepWord, Succs DEF a1, g1
<1>10. Reached(c, layout, 2, a1, 2, g2)
  BY <1>5, <1>7, <1>9, StepText, Succs DEF g2
<1>11. Reached(c, layout, 3, a1, 3, g3)
  BY <1>5, <1>7, <1>10, StepText, Succs DEF g3
<1>12. Reached(c, layout, 4, a1, 4, g4)
  BY <1>5, <1>7, <1>11, StepText, Succs DEF g4
<1>13. Reached(c, layout, 5, a1, 5, g5)
  BY <1>6, <1>7, <1>12, StepInner, Succs DEF g5
<1>14. /\ Has(g5, "payload_hash", w) /\ Has(g5, "message_id", id)
       /\ Has(g5, "source_chain", s) /\ Has(g5, "source_address", a)
       /\ Has(g5, "destination_address", d) /\ Has(g5, "destination_chain", n)
  BY <1>6, HasNew, HasOld, HasInner, HasOuter DEF g1, g2, g3, g4, g5
<1>15. DOMAIN g5
           = {"payload_hash", "message_id", "source_chain", "source_address",
              "destination_address", "destination_chain"}
  <2>1. DOMAIN g1 = {"payload_hash"} \cup DOMAIN NoFields
    BY NamesOf DEF g1
  <2>2. DOMAIN g2 = {"message_id"} \cup DOMAIN g1
    BY NamesOf DEF g2
  <2>3. DOMAIN g3 = {"source_chain"} \cup DOMAIN g2
    BY NamesOf DEF g3
  <2>4. DOMAIN g4 = {"source_address"} \cup DOMAIN g3
    BY NamesOf DEF g4
  <2>5. DOMAIN g5 = {"destination_address", "destination_chain"} \cup DOMAIN g4
    BY <1>6, NamesInner DEF g5
  <2> QED
    BY NoNames, <2>1, <2>2, <2>3, <2>4, <2>5
<1>16. g5 = [x \in DOMAIN g5 |-> g5[x]]
  BY DEF g5, Merged
<1>17. Read(c, layout) = State(a1, 5, g5)
  BY <1>7, <1>13, Finish
<1> QED
  BY <1>14, <1>15, <1>16, <1>17 DEF c, layout, ReadAsApproval

-----------------------------------------------------------------------------
(* What the decoders make of the logs. *)

\* The fields have what was written under the name.
Kept(g, f, v) == f \in DOMAIN g /\ SameField(f, g[f], v)

\* Decoder's outcome d says what log m says.
Faithful(m, d) ==
    /\ d.ok \in BOOLEAN
    /\ d.ok <=> ~Unreadable(m)
    /\ d.ok => \A f \in DOMAIN m \ {"kind"} : Kept(d.fields, f, m[f])

LEMMA KeptAsIs ==
    ASSUME NEW g, NEW f, NEW v, Has(g, f, v), f # "signers_hash", f # "data"
    PROVE  Kept(g, f, v)
BY DEF Kept, Has, SameField

LEMMA FaithfulRead ==
    ASSUME NEW m, NEW g, NEW d, d.ok = TRUE, d.fields = g, ~Unreadable(m),
           \A f \in DOMAIN m \ {"kind"} : Kept(g, f, m[f])
    PROVE  Faithful(m, d)
BY DEF Faithful

LEMMA FaithfulRefusal ==
    ASSUME NEW m, NEW d, d = Failed, Unreadable(m)
    PROVE  Faithful(m, d)
<1>1. d.ok = FALSE
  BY DEF Failed
<1> QED
  BY <1>1 DEF Faithful

LEMMA DecodesCallContract ==
    ASSUME NEW m \in LogsOf("CallContract")
    PROVE  Faithful(m, Decoder("CallContract", LogCell(m)))
<1> DEFINE c == LogCell(m)
           layout == <<Text("destination_chain"), Text("destination_address"),
                       Buffer("payload"), Address("source_address"), Word("payload_hash")>>
<1>1. PICK at, ref, g : /\ Read(c, layout) = State(at, ref, g)
                        /\ Has(g, "destination_chain", m.destination_chain)
                        /\ Has(g, "destination_address", m.destination_address)
                        /\ Has(g, "payload", m.payload)
                        /\ Has(g, "source_address", m.source_address)
                        /\ Has(g, "payload_hash", m.payload_hash)
  BY ReadsCallContract
<1>2. /\ m.kind = "CallContract"
      /\ DOMAIN m
             = {"kind", "source_address", "payload_hash", "destination_chain",
                "destination_address", "payload"}
  BY DEF LogsOf
<1> HIDE DEF c
<1>3. Decoder("CallContract", c).ok = TRUE /\ Decoder("CallContract", c).fields = g
  <2>1. Decoder("CallContract", c) = CallContractMessage(c)
    BY DEF Decoder
  <2>2. State(at, ref, g).ok = TRUE /\ State(at, ref, g).fields = g
    BY DEF State
  <2>4. Read(c, layout) = State(at, ref, g)
    BY <1>1
  <2> QED
    BY <2>1, <2>2, <2>4 DEF CallContractMessage, Returned, Anything
<1>4. ~Unreadable(m)
  BY <1>2 DEF Unreadable
<1>5. /\ Kept(g, "source_address", m.source_address)
      /\ Kept(g, "payload_hash", m.payload_hash)
      /\ Kept(g, "destination_chain", m.destination_chain)
      /\ Kept(g, "destination_address", m.destination_address)
      /\ Kept(g, "payload", m.payload)
  BY <1>1, KeptAsIs
<1>6. ASSUME NEW f \in DOMAIN m \ {"kind"}
      PROVE  Kept(g, f, m[f])
  BY <1>2, <1>5
<1> QED
  BY <1>3, <1>4, <1>6, FaithfulRead DEF c

LEMMA DecodesNativeGasPaid ==
    ASSUME NEW m \in LogsOf("NativeGasPaid")
    PROVE  Faithful(m, Decoder("NativeGasPaid", LogCell(m)))
<1> DEFINE c == LogCell(m)
           layout == <<Address("sender"), Word("payload_hash"), Word("msg_value"),
                       Inner(<<Address("refund_address")>>), Text("destination_chain"),
                           Text("destination_address")>>
<1>1. PICK at, ref, g : /\ Read(c, layout) = State(at, ref, g)
                        /\ Has(g, "sender", m.sender)
                        /\ Has(g, "payload_hash", m.payload_hash)
                        /\ Has(g, "msg_value", m.msg_value)
                        /\ Has(g, "refund_address", m.refund_address)
                        /\ Has(g, "destination_chain", m.destination_chain)
                        /\ Has(g, "destination_address", m.destination_address)
  BY ReadsNativeGasPaid
<1>2. /\ m.kind = "NativeGasPaid"
      /\ DOMAIN m
             = {"kind", "sender", "refund_address", "payload_hash", "msg_value",
                "destination_chain", "destination_address"}
  BY DEF LogsOf
<1> HIDE DEF c
<1>3. Decoder("NativeGasPaid", c).ok = TRUE /\ Decoder("NativeGasPaid", c).fields = g
  <2>1. Decoder("NativeGasPaid", c) = NativeGasPaidMessage(c)
    BY DEF Decoder
  <2>2. State(at, ref, g).ok = TRUE /\ State(at, ref, g).fields = g
    BY DEF State
  <2>4. Read(c, layout) = State(at, ref, g)
    BY <1>1
  <2> QED
    BY <2>1, <2>2, <2>4 DEF NativeGasPaidMessage, Returned, Anything
<1>4. ~Unreadable(m)
  BY <1>2 DEF Unreadable
<1>5. /\ Kept(g, "sender", m.sender)
      /\ Kept(g, "refund_address", m.refund_address)
      /\ Kept(g, "payload_hash", m.payload_hash)
      /\ Kept(g, "msg_value", m.msg_value)
      /\ Kept(g, "destination_chain", m.destination_chain)
      /\ Kept(g, "destination_address", m.destination_address)
  BY <1>1, KeptAsIs
<1>6. ASSUME NEW f \in DOMAIN m \ {"kind"}
      PROVE  Kept(g, f, m[f])
  BY <1>2, <1>5
<1> QED
  BY <1>3, <1>4, <1>6, FaithfulRead DEF c

LEMMA DecodesNativeGasAdded ==
    ASSUME NEW m \in LogsOf("NativeGasAdded")
    PROVE  Faithful(m, Decoder("NativeGasAdded", LogCell(m)))
<1> DEFINE c == LogCell(m)
           layout == <<Word("tx_hash"), Address("refund_address"), Word("msg_value")>>
<1>1. PICK at, ref, g : /\ Read(c, layout) = State(at, ref, g)
                        /\ Has(g, "tx_hash", m.tx_hash)
                        /\ Has(g, "refund_address", m.refund_address)
                        /\ Has(g, "msg_value", m.msg_value)
  BY ReadsNativeGasAdded
<1>2. /\ m.kind = "NativeGasAdded"
      /\ DOMAIN m = {"kind", "refund_address", "tx_hash", "msg_value"}
  BY DEF LogsOf
<1> HIDE DEF c
<1>3. Decoder("NativeGasAdded", c).ok = TRUE /\ Decoder("NativeGasAdded", c).fields = g
  <2>1. Decoder("NativeGasAdded", c) = NativeGasAddedMessage(c)
    BY DEF Decoder
  <2>2. State(at, ref, g).ok = TRUE /\ State(at, ref, g).fields = g
    BY DEF State
  <2>4. Read(c, layout) = State(at, ref, g)
    BY <1>1
  <2> QED
    BY <2>1, <2>2, <2>4 DEF NativeGasAddedMessage, Returned, Anything
<1>4. ~Unreadable(m)
  BY <1>2 DEF Unreadable
<1>5. /\ Kept(g, "refund_address", m.refund_address)
      /\ Kept(g, "tx_hash", m.tx_hash)
      /\ Kept(g, "msg_value", m.msg_value)
  BY <1>1, KeptAsIs
<1>6. ASSUME NEW f \in DOMAIN m \ {"kind"}
      PROVE  Kept(g, f, m[f])
  BY <1>2, <1>5
<1> QED
  BY <1>3, <1>4, <1>6, FaithfulRead DEF c

LEMMA DecodesJettonGasPaid ==
    ASSUME NEW m \in LogsOf("JettonGasPaid")
    PROVE  Faithful(m, Decoder("JettonGasPaid", LogCell(m)))
<1> DEFINE c == LogCell(m)
           layout == <<Address("minter"), Coins("amount"), Word("payload_hash"),
                       Inner(<<Address("refund_address")>>), Text("destination_chain"),
                           Text("destination_address")>>
<1>1. PICK at, ref, g : /\ Read(c, layout) = State(at, ref, g)
                        /\ Has(g, "minter", m.minter)
                        /\ Has(g, "amount", m.amount)
                        /\ Has(g, "payload_hash", m.payload_hash)
                        /\ Has(g, "refund_address", m.refund_address)
                        /\ Has(g, "destination_chain", m.destination_chain)
                        /\ Has(g, "destination_address", m.destination_address)
  BY ReadsJettonGasPaid
<1>2. /\ m.kind = "JettonGasPaid"
      /\ DOMAIN m
             = {"kind", "minter", "refund_address", "amount", "payload_hash",
                "destination_chain", "destination_address"}
  BY DEF LogsOf
<1> HIDE DEF c
<1>3. Decoder("JettonGasPaid", c).ok = TRUE /\ Decoder("JettonGasPaid", c).fields = g
  <2>1. Decoder("JettonGasPaid", c) = JettonGasPaidMessage(c)
    BY DEF Decoder
  <2>2. State(at, ref, g).ok = TRUE /\ State(at, ref, g).fields = g
    BY DEF State
  <2>4. Read(c, layout) = State(at, ref, g)
    BY <1>1
  <2> QED
    BY <2>1, <2>2, <2>4 DEF JettonGasPaidMessage, Returned, Anything
<1>4. ~Unreadable(m)
  BY <1>2 DEF Unreadable
<1>5. /\ Kept(g, "minter", m.minter)
      /\ Kept(g, "refund_address", m.refund_address)
      /\ Kept(g, "amount", m.amount)
      /\ Kept(g, "payload_hash", m.payload_hash)
      /\ Kept(g, "destination_chain", m.destination_chain)
      /\ Kept(g, "destination_address", m.destination_address)
  BY <1>1, KeptAsIs
<1>6. ASSUME NEW f \in DOMAIN m \ {"kind"}
      PROVE  Kept(g, f, m[f])
  BY <1>2, <1>5
<1> QED
  BY <1>3, <1>4, <1>6, FaithfulRead DEF c

LEMMA DecodesJettonGasAdded ==
    ASSUME NEW m \in LogsOf("JettonGasAdded")
    PROVE  Faithful(m, Decoder("JettonGasAdded", LogCell(m)))
<1> DEFINE c == LogCell(m)
           layout == <<Address("minter"), Address("sender"), Coins("amount"),
                       Word("tx_hash"), Inner(<<Address("refund_address")>>)>>
<1>1. PICK at, ref, g : /\ Read(c, layout) = State(at, ref, g)
                        /\ Has(g, "minter", m.minter)
                        /\ Has(g, "sender", m.sender)
                        /\ Has(g, "amount", m.amount)
                        /\ Has(g, "tx_hash", m.tx_hash)
                        /\ Has(g, "refund_address", m.refund_address)
  BY ReadsJettonGasAdded
<1>2. /\ m.kind = "JettonGasAdded"
      /\ DOMAIN m = {"kind", "minter", "sender", "refund_address", "amount", "tx_hash"}
  BY DEF LogsOf
<1> HIDE DEF c
<1>3. Decoder("JettonGasAdded", c).ok = TRUE /\ Decoder("JettonGasAdded", c).fields = g
  <2>1. Decoder("JettonGasAdded", c) = JettonGasAddedMessage(c)
    BY DEF Decoder
  <2>2. State(at, ref, g).ok = TRUE /\ State(at, ref, g).fields = g
    BY DEF State
  <2>4. Read(c, layout) = State(at, ref, g)
    BY <1>1
  <2> QED
    BY <2>1, <2>2, <2>4 DEF JettonGasAddedMessage, Returned, Anything
<1>4. ~Unreadable(m)
  BY <1>2 DEF Unreadable
<1>5. /\ Kept(g, "minter", m.minter)
      /\ Kept(g, "sender", m.sender)
      /\ Kept(g, "refund_address", m.refund_address)
      /\ Kept(g, "amount", m.amount)
      /\ Kept(g, "tx_hash", m.tx_hash)
  BY <1>1, KeptAsIs
<1>6. ASSUME NEW f \in DOMAIN m \ {"kind"}
      PROVE  Kept(g, f, m[f])
  BY <1>2, <1>5
<1> QED
  BY <1>3, <1>4, <1>6, FaithfulRead DEF c

LEMMA DecodesITSInterchainTokenDeploymentStarted ==
    ASSUME NEW m \in LogsOf("ITSInterchainTokenDeploymentStarted")
    PROVE  Faithful(m, Decoder("ITSInterchainTokenDeploymentStarted", LogCell(m)))
<1> DEFINE c == LogCell(m)
           layout == <<OpCode, Word("token_id"), Text("token_name"),
                       Text("token_symbol"), Uint8("decimals"), Skip,
                           Text("destination_chain")>>
<1>1. PICK at, ref, g : /\ Read(c, layout) = State(at, ref, g)
                        /\ Has(g, "op", OP_INTERCHAIN_TOKEN_DEPLOYMENT_STARTED_LOG)
                        /\ Has(g, "token_id", m.token_id)
                        /\ Has(g, "token_name", m.token_name)
                        /\ Has(g, "token_symbol", m.token_symbol)
                        /\ Has(g, "decimals", m.decimals)
                        /\ Has(g, "destination_chain", m.destination_chain)
  BY ReadsITSInterchainTokenDeploymentStarted
<1>2. /\ m.kind = "ITSInterchainTokenDeploymentStarted"
      /\ DOMAIN m
             = {"kind", "token_id", "token_name", "token_symbol", "destination_chain",
                "decimals"}
  BY DEF LogsOf
<1> HIDE DEF c
<1>3. /\ Decoder("ITSInterchainTokenDeploymentStarted", c).ok = TRUE
      /\ Decoder("ITSInterchainTokenDeploymentStarted", c).fields = g
  <2>1. Decoder("ITSInterchainTokenDeploymentStarted", c)
            = LogITSInterchainTokenDeploymentStartedMessage(c)
    BY DEF Decoder
  <2>2. State(at, ref, g).ok = TRUE /\ State(at, ref, g).fields = g
    BY DEF State
  <2>3. g.op = OP_INTERCHAIN_TOKEN_DEPLOYMENT_STARTED_LOG
    BY <1>1 DEF Has
  <2>4. Read(c, layout) = State(at, ref, g)
    BY <1>1
  <2> QED
    BY <2>1, <2>2, <2>3, <2>4 DEF LogITSInterchainTokenDeploymentStartedMessage,
       Returned, compare_op_code
<1>4. ~Unreadable(m)
  BY <1>2 DEF Unreadable
<1>5. /\ Kept(g, "token_id", m.token_id)
      /\ Kept(g, "token_name", m.token_name)
      /\ Kept(g, "token_symbol", m.token_symbol)
      /\ Kept(g, "destination_chain", m.destination_chain)
      /\ Kept(g, "decimals", m.decimals)
  BY <1>1, KeptAsIs
<1>6. ASSUME NEW f \in DOMAIN m \ {"kind"}
      PROVE  Kept(g, f, m[f])
  BY <1>2, <1>5
<1> QED
  BY <1>3, <1>4, <1>6, FaithfulRead DEF c

LEMMA DecodesITSTokenMetadataRegistered ==
    ASSUME NEW m \in LogsOf("ITSTokenMetadataRegistered")
    PROVE  Faithful(m, Decoder("ITSTokenMetadataRegistered", LogCell(m)))
<1> DEFINE c == LogCell(m)
           layout == <<OpCode, Address("address"), Uint8("decimals")>>
<1>1. PICK at, ref, g : /\ Read(c, layout) = State(at, ref, g)
                        /\ Has(g, "op", OP_TOKEN_METADATA_REGISTERED_LOG)
                        /\ Has(g, "address", m.address)
                        /\ Has(g, "decimals", m.decimals)
  BY ReadsITSTokenMetadataRegistered
<1>2. /\ m.kind = "ITSTokenMetadataRegistered"
      /\ DOMAIN m = {"kind", "address", "decimals"}
  BY DEF LogsOf
<1> HIDE DEF c
<1>3. /\ Decoder("ITSTokenMetadataRegistered", c).ok = TRUE
      /\ Decoder("ITSTokenMetadataRegistered", c).fields = g
  <2>1. Decoder("ITSTokenMetadataRegistered", c) = LogTokenMetadataRegisteredMessage(c)
    BY DEF Decoder
  <2>2. State(at, ref, g).ok = TRUE /\ State(at, ref, g).fields = g
    BY DEF State
  <2>3. g.op = OP_TOKEN_METADATA_REGISTERED_LOG
    BY <1>1 DEF Has
  <2>4. Read(c, layout) = State(at, ref, g)
    BY <1>1
  <2> QED
    BY <2>1, <2>2, <2>3, <2>4 DEF LogTokenMetadataRegisteredMessage, Returned,
       compare_op_code
<1>4. ~Unreadable(m)
  BY <1>2 DEF Unreadable
<1>5. /\ Kept(g, "address", m.address)
      /\ Kept(g, "decimals", m.decimals)
  BY <1>1, KeptAsIs
<1>6. ASSUME NEW f \in DOMAIN m \ {"kind"}
      PROVE  Kept(g, f, m[f])
  BY <1>2, <1>5
<1> QED
  BY <1>3, <1>4, <1>6, FaithfulRead DEF c

\* The data of a transfer.
LEMMA PrefixKept ==
    ASSUME NEW S, NEW v \in Seq(S), NEW n \in Nat, NEW k \in Nat, n
               = IF k < Len(v) THEN k ELSE Len(v)
    PROVE  /\ IsPrefix(SubSeq(v, 1, n), v)
           /\ Len(SubSeq(v, 1, n)) >= (IF Len(v) < k THEN Len(v) ELSE k)
BY DEF IsPrefix

LEMMA KeptPrefix ==
    ASSUME NEW g, NEW v \in AnyBuffer, Has(g, "data", SubSeq(v, 1, End(v, 0)))
    PROVE  Kept(g, "data", v)
<1> DEFINE n == End(v, 0)
           x == SubSeq(v, 1, n)
           S == 0..255
<1>1. v \in Seq(S) /\ Len(v) \in Nat
  BY DEF AnyBuffer
<1>2. PICK k \in Nat : k = 96
  OBVIOUS
<1>3. n = IF k < Len(v) THEN k ELSE Len(v)
  BY <1>1, <1>2 DEF End, BYTES_PER_CELL
<1>4. n \in Nat
  BY <1>1, <1>2, <1>3
<1> HIDE DEF n, S
<1>5. IsPrefix(x, v) /\ Len(x) >= (IF Len(v) < k THEN Len(v) ELSE k)
  BY <1>1, <1>2, <1>3, <1>4, PrefixKept
<1>6. "data" \in DOMAIN g /\ g["data"] = x
  BY DEF Has, n
<1> HIDE DEF x
<1>7. SameField("data", x, v)
  BY <1>2, <1>5 DEF SameField
<1> QED
  BY <1>6, <1>7 DEF Kept

LEMMA OctetAt ==
    ASSUME NEW n \in Nat, NEW b \in Octets(n), NEW i \in 1..n
    PROVE  b[i] \in 0..255
<1>1. PICK S : S = 0..255
  OBVIOUS
<1>2. b \in Seq(S) /\ Len(b) = n
  BY <1>1 DEF Octets
<1>3. b[i] \in S
  BY <1>2, Elements
<1> QED
  BY <1>1, <1>3

LEMMA FirstOctet ==
    ASSUME NEW b \in Octets(1)
    PROVE  b[1] \in 0..255
<1>1. 1 \in Nat /\ 1 \in 1..1
  OBVIOUS
<1> QED
  BY <1>1, OctetAt

LEMMA SecondByte ==
    ASSUME NEW a \in AnyAddress
    PROVE  HashPart(a)[1] = a[2] /\ a[2] \in 0..255
<1>1. 1 \in 1..32 /\ 1 + 1 = 2 /\ 2 \in 1..33 /\ 33 \in Nat
  OBVIOUS
<1>2. HashPart(a)[1] = a[1 + 1]
  BY <1>1, HashParts
<1>3. a \in Octets(33)
  BY DEF AnyAddress
<1>4. a[2] \in 0..255
  BY <1>1, <1>3, OctetAt
<1> QED
  BY <1>1, <1>2, <1>4

LEMMA DecodesMessageApproved ==
    ASSUME NEW m \in LogsOf("MessageApproved")
    PROVE  Faithful(m, Decoder("MessageApproved", LogCell(m)))
<1> DEFINE c == LogCell(m)
           layout == <<Text("message_id"), Text("source_chain"), Text("source_address"),
                       Inner(<<Word("payload_hash"), Buffer("destination_address"),
                               Text("destination_chain")>>)>>
<1>1. PICK at, ref, g : /\ Read(c, layout) = State(at, ref, g)
                        /\ Has(g, "message_id", m.message_id)
                        /\ Has(g, "source_chain", m.source_chain)
                        /\ Has(g, "source_address", m.source_address)
                        /\ Has(g, "payload_hash", m.payload_hash)
                        /\ Has(g, "destination_address", HashPart(m.destination_address))
                        /\ Has(g, "destination_chain", m.destination_chain)
  BY ReadsMessageApproved
<1>2. /\ m.kind = "MessageApproved"
      /\ DOMAIN m
             = {"kind", "message_id", "source_chain", "source_address",
                "destination_chain", "payload_hash", "destination_address"}
  BY DEF LogsOf
<1> HIDE DEF c
<1> DEFINE accepted == Len(g.destination_address) = 32
           h == [g EXCEPT !.destination_address = ToAddress(@)]
<1>3. /\ accepted => /\ Decoder("MessageApproved", c).ok = TRUE
                     /\ Decoder("MessageApproved", c).fields = h
      /\ ~accepted => Decoder("MessageApproved", c) = Failed
  <2>1. Decoder("MessageApproved", c) = TonCCMessage(c)
    BY DEF Decoder
  <2>2. State(at, ref, g).ok = TRUE /\ State(at, ref, g).fields = g
    BY DEF State
  <2>3. Read(c, layout) = State(at, ref, g)
    BY <1>1
  <2>4. ASSUME accepted
        PROVE  TonCCMessage(c)
                   = [[ok |-> TRUE, fields |-> g] EXCEPT !.fields.destination_address
                      = ToAddress(@)]
    BY <2>2, <2>3, <2>4 DEF TonCCMessage, Returned, compare_op_code
  <2>5. ASSUME ~accepted
        PROVE  TonCCMessage(c) = Failed
    <3>1. Failed.ok = FALSE
      BY DEF Failed
    <3> QED
      BY <2>2, <2>3, <2>5, <3>1 DEF TonCCMessage, Returned, compare_op_code
  <2> DEFINE r == [[ok |-> TRUE, fields |-> g] EXCEPT !.fields.destination_address
                   = ToAddress(@)]
  <2>6. r.ok = TRUE /\ r.fields = h
    <3>1. PICK v : v = ToAddress(g.destination_address)
      OBVIOUS
    <3>2. [ok |-> TRUE, fields |-> g].fields.destination_address = g.destination_address
      OBVIOUS
    <3>3. r = [[ok |-> TRUE, fields |-> g] EXCEPT !.fields.destination_address = v]
      BY <3>1, <3>2
    <3>4. /\ [[ok |-> TRUE, fields |-> g] EXCEPT !.fields.destination_address = v].ok = TRUE
          /\ [[ok |-> TRUE, fields |-> g] EXCEPT !.fields.destination_address = v].fields
                 = [g EXCEPT !.destination_address = v]
      OBVIOUS
    <3> HIDE DEF r
    <3> QED
      BY <3>1, <3>3, <3>4
  <2> HIDE DEF accepted, h, r
  <2>7. accepted => TonCCMessage(c) = r
    BY <2>4 DEF r
  <2> QED
    BY <2>1, <2>5, <2>6, <2>7
<1>4. Has(h, "destination_address", m.destination_address)
  <2>1. m.destination_address \in AnyContract
    BY DEF LogsOf
  <2>2. m.destination_address \in AnyAddress
    BY <2>1 DEF AnyContract
  <2>3. ToAddress(HashPart(m.destination_address)) = m.destination_address
    BY <2>1, <2>2, HashParts
  <2>4. Has(g, "destination_address", HashPart(m.destination_address))
    BY <1>1
  <2> QED
    BY <2>3, <2>4 DEF Has
<1>5. /\ Has(h, "message_id", m.message_id)
      /\ Has(h, "source_chain", m.source_chain)
      /\ Has(h, "source_address", m.source_address)
      /\ Has(h, "destination_chain", m.destination_chain)
      /\ Has(h, "payload_hash", m.payload_hash)
  <2>1. ASSUME NEW x, NEW y, Has(g, x, y), x # "destination_address"
        PROVE  Has(h, x, y)
    BY <2>1 DEF Has
  <2> HIDE DEF h
  <2> QED
    BY <1>1, <2>1
<1>6. /\ Kept(h, "message_id", m.message_id)
      /\ Kept(h, "source_chain", m.source_chain)
      /\ Kept(h, "source_address", m.source_address)
      /\ Kept(h, "destination_chain", m.destination_chain)
      /\ Kept(h, "payload_hash", m.payload_hash)
      /\ Kept(h, "destination_address", m.destination_address)
  <2> HIDE DEF h
  <2> QED
    BY <1>4, <1>5, KeptAsIs
<1>7. ASSUME NEW f \in DOMAIN m \ {"kind"}
      PROVE  Kept(h, f, m[f])
  <2> HIDE DEF h
  <2> QED
    BY <1>2, <1>6
<1>8. accepted <=> ~Unreadable(m)
  <2>1. m.destination_address \in AnyAddress
    BY DEF LogsOf, AnyContract
  <2>2. Len(HashPart(m.destination_address)) = 32
    BY <2>1, HashParts DEF AnyWord, Octets
  <2>3. g.destination_address = HashPart(m.destination_address)
    BY <1>1 DEF Has
  <2> QED
    BY <1>2, <2>2, <2>3 DEF Unreadable
<1> HIDE DEF accepted, h
<1> QED
  BY <1>3, <1>7, <1>8, FaithfulRead, FaithfulRefusal DEF c

LEMMA DecodesITSInterchainTransfer ==
    ASSUME NEW m \in LogsOf("ITSInterchainTransfer")
    PROVE  Faithful(m, Decoder("ITSInterchainTransfer", LogCell(m)))
<1> DEFINE c == LogCell(m)
           layout == <<OpCode, Word("token_id"), Inner(<<Word("sender_address")>>),
                       Text("destination_chain"), Buffer("destination_address"),
                           Word("jetton_amount"), Data("data")>>
<1>1. PICK at, ref, g : /\ Read(c, layout) = State(at, ref, g)
                        /\ Has(g, "op", OP_INTERCHAIN_TRANSFER_LOG)
                        /\ Has(g, "token_id", m.token_id)
                        /\ Has(g, "sender_address", HashPart(m.sender_address))
                        /\ Has(g, "destination_chain", m.destination_chain)
                        /\ Has(g, "destination_address", m.destination_address)
                        /\ Has(g, "jetton_amount", m.jetton_amount)
                        /\ Has(g, "data", SubSeq(m.data, 1, End(m.data, 0)))
  BY ReadsITSInterchainTransfer
<1>2. /\ m.kind = "ITSInterchainTransfer"
      /\ DOMAIN m
             = {"kind", "token_id", "jetton_amount", "sender_address",
                "destination_chain", "destination_address", "data"}
  BY DEF LogsOf
<1> HIDE DEF c
<1> DEFINE accepted == g.op
               = OP_INTERCHAIN_TRANSFER_LOG /\ ParsesAsAddress(g.sender_address)
           h == [g EXCEPT !.sender_address = ToAddress(@)]
<1>3. /\ accepted => /\ Decoder("ITSInterchainTransfer", c).ok = TRUE
                     /\ Decoder("ITSInterchainTransfer", c).fields = h
      /\ ~accepted => Decoder("ITSInterchainTransfer", c) = Failed
  <2>1. Decoder("ITSInterchainTransfer", c) = LogITSInterchainTransferMessage(c)
    BY DEF Decoder
  <2>2. State(at, ref, g).ok = TRUE /\ State(at, ref, g).fields = g
    BY DEF State
  <2>3. Read(c, layout) = State(at, ref, g)
    BY <1>1
  <2>4. ASSUME accepted
        PROVE  LogITSInterchainTransferMessage(c)
                   = [[ok |-> TRUE, fields |-> g] EXCEPT !.fields.sender_address
                      = ToAddress(@)]
    BY <2>2, <2>3, <2>4 DEF LogITSInterchainTransferMessage, Returned, compare_op_code
  <2>5. ASSUME ~accepted
        PROVE  LogITSInterchainTransferMessage(c) = Failed
    <3>1. Failed.ok = FALSE
      BY DEF Failed
    <3> QED
      BY <2>2, <2>3, <2>5, <3>1 DEF LogITSInterchainTransferMessage, Returned,
         compare_op_code
  <2> DEFINE r == [[ok |-> TRUE, fields |-> g] EXCEPT !.fields.sender_address
                   = ToAddress(@)]
  <2>6. r.ok = TRUE /\ r.fields = h
    <3>1. PICK v : v = ToAddress(g.sender_address)
      OBVIOUS
    <3>2. [ok |-> TRUE, fields |-> g].fields.sender_address = g.sender_address
      OBVIOUS
    <3>3. r = [[ok |-> TRUE, fields |-> g] EXCEPT !.fields.sender_address = v]
      BY <3>1, <3>2
    <3>4. /\ [[ok |-> TRUE, fields |-> g] EXCEPT !.fields.sender_address = v].ok = TRUE
          /\ [[ok |-> TRUE, fields |-> g] EXCEPT !.fields.sender_address = v].fields
                 = [g EXCEPT !.sender_address = v]
      OBVIOUS
    <3> HIDE DEF r
    <3> QED
      BY <3>1, <3>3, <3>4
  <2> HIDE DEF accepted, h, r
  <2>7. accepted => LogITSInterchainTransferMessage(c) = r
    BY <2>4 DEF r
  <2> QED
    BY <2>1, <2>5, <2>6, <2>7
<1>4. Has(h, "sender_address", m.sender_address)
  <2>1. m.sender_address \in AnyContract
    BY DEF LogsOf
  <2>2. m.sender_address \in AnyAddress
    BY <2>1 DEF AnyContract
  <2>3. ToAddress(HashPart(m.sender_address)) = m.sender_address
    BY <2>1, <2>2, HashParts
  <2>4. Has(g, "sender_address", HashPart(m.sender_address))
    BY <1>1
  <2> QED
    BY <2>3, <2>4 DEF Has
<1>5. /\ Has(h, "token_id", m.token_id)
      /\ Has(h, "jetton_amount", m.jetton_amount)
      /\ Has(h, "destination_chain", m.destination_chain)
      /\ Has(h, "destination_address", m.destination_address)
      /\ Has(h, "data", SubSeq(m.data, 1, End(m.data, 0)))
  <2>1. ASSUME NEW x, NEW y, Has(g, x, y), x # "sender_address"
        PROVE  Has(h, x, y)
    BY <2>1 DEF Has
  <2> HIDE DEF h
  <2> QED
    BY <1>1, <2>1
<1>6. /\ Kept(h, "token_id", m.token_id)
      /\ Kept(h, "jetton_amount", m.jetton_amount)
      /\ Kept(h, "sender_address", m.sender_address)
      /\ Kept(h, "destination_chain", m.destination_chain)
      /\ Kept(h, "destination_address", m.destination_address)
      /\ Kept(h, "data", m.data)
  <2> HIDE DEF h
  <2>1. m.data \in AnyBuffer
    BY DEF LogsOf
  <2>2. Kept(h, "data", m.data)
    BY <1>5, <2>1, KeptPrefix
  <2> QED
    BY <1>4, <1>5, <2>2, KeptAsIs
<1>7. ASSUME NEW f \in DOMAIN m \ {"kind"}
      PROVE  Kept(h, f, m[f])
  <2> HIDE DEF h
  <2> QED
    BY <1>2, <1>6
<1>8. accepted <=> ~Unreadable(m)
  <2>1. m.sender_address \in AnyAddress
    BY DEF LogsOf, AnyContract
  <2>2. /\ HashPart(m.sender_address)[1] = m.sender_address[2]
        /\ m.sender_address[2] \in 0..255
    BY <2>1, SecondByte
  <2>3. g.sender_address = HashPart(m.sender_address) /\ g.op = OP_INTERCHAIN_TRANSFER_LOG
    BY <1>1 DEF Has
  <2> QED
    BY <1>2, <2>2, <2>3 DEF Unreadable, ParsesAsAddress
<1> HIDE DEF accepted, h
<1> QED
  BY <1>3, <1>7, <1>8, FaithfulRead, FaithfulRefusal DEF c

LEMMA DecodesITSLinkTokenStarted ==
    ASSUME NEW m \in LogsOf("ITSLinkTokenStarted")
    PROVE  Faithful(m, Decoder("ITSLinkTokenStarted", LogCell(m)))
<1> DEFINE c == LogCell(m)
           layout == <<OpCode, Word("token_id"), Text("destination_chain"),
                       Inner(<<Word("source_token_address")>>),
                           Buffer("destination_token_address"),
                               Uint8("token_manager_type")>>
<1>1. PICK at, ref, g : /\ Read(c, layout) = State(at, ref, g)
                        /\ Has(g, "op", OP_LINK_TOKEN_STARTED_LOG)
                        /\ Has(g, "token_id", m.token_id)
                        /\ Has(g, "destination_chain", m.destination_chain)
                        /\ Has(g, "source_token_address", HashPart(m.source_token_address))
                        /\ Has(g, "destination_token_address", m.destination_token_address)
                        /\ Has(g, "token_manager_type", m.token_manager_type)
  BY ReadsITSLinkTokenStarted
<1>2. /\ m.kind = "ITSLinkTokenStarted"
      /\ DOMAIN m
             = {"kind", "token_id", "token_manager_type", "source_token_address",
                "destination_chain", "destination_token_address"}
  BY DEF LogsOf
<1> HIDE DEF c
<1> DEFINE accepted == /\ g.op = OP_LINK_TOKEN_STARTED_LOG
                       /\ ParsesAsAddress(g.source_token_address)
                       /\ g.token_manager_type[1] <= 4
           h == [g EXCEPT !.source_token_address = ToAddress(@)]
<1>3. /\ accepted => /\ Decoder("ITSLinkTokenStarted", c).ok = TRUE
                     /\ Decoder("ITSLinkTokenStarted", c).fields = h
      /\ ~accepted => Decoder("ITSLinkTokenStarted", c) = Failed
  <2>1. Decoder("ITSLinkTokenStarted", c) = LogITSLinkTokenStartedMessage(c)
    BY DEF Decoder
  <2>2. State(at, ref, g).ok = TRUE /\ State(at, ref, g).fields = g
    BY DEF State
  <2>3. Read(c, layout) = State(at, ref, g)
    BY <1>1
  <2>4. ASSUME accepted
        PROVE  LogITSLinkTokenStartedMessage(c)
                   = [[ok |-> TRUE, fields |-> g] EXCEPT !.fields.source_token_address
                      = ToAddress(@)]
    BY <2>2, <2>3, <2>4 DEF LogITSLinkTokenStartedMessage, Returned, compare_op_code
  <2>5. ASSUME ~accepted
        PROVE  LogITSLinkTokenStartedMessage(c) = Failed
    <3>1. Failed.ok = FALSE
      BY DEF Failed
    <3> QED
      BY <2>2, <2>3, <2>5, <3>1 DEF LogITSLinkTokenStartedMessage, Returned, compare_op_code
  <2> DEFINE r == [[ok |-> TRUE, fields |-> g] EXCEPT !.fields.source_token_address
                   = ToAddress(@)]
  <2>6. r.ok = TRUE /\ r.fields = h
    <3>1. PICK v : v = ToAddress(g.source_token_address)
      OBVIOUS
    <3>2. [ok |-> TRUE, fields |-> g].fields.source_token_address = g.source_token_address
      OBVIOUS
    <3>3. r = [[ok |-> TRUE, fields |-> g] EXCEPT !.fields.source_token_address = v]
      BY <3>1, <3>2
    <3>4. /\ [[ok |-> TRUE, fields |-> g] EXCEPT !.fields.source_token_address = v].ok
                 = TRUE
          /\ [[ok |-> TRUE, fields |-> g] EXCEPT !.fields.source_token_address
              = v].fields = [g EXCEPT !.source_token_address = v]
      OBVIOUS
    <3> HIDE DEF r
    <3> QED
      BY <3>1, <3>3, <3>4
  <2> HIDE DEF accepted, h, r
  <2>7. accepted => LogITSLinkTokenStartedMessage(c) = r
    BY <2>4 DEF r
  <2> QED
    BY <2>1, <2>5, <2>6, <2>7
<1>4. Has(h, "source_token_address", m.source_token_address)
  <2>1. m.source_token_address \in AnyContract
    BY DEF LogsOf
  <2>2. m.source_token_address \in AnyAddress
    BY <2>1 DEF AnyContract
  <2>3. ToAddress(HashPart(m.source_token_address)) = m.source_token_address
    BY <2>1, <2>2, HashParts
  <2>4. Has(g, "source_token_address", HashPart(m.source_token_address))
    BY <1>1
  <2> QED
    BY <2>3, <2>4 DEF Has
<1>5. /\ Has(h, "token_id", m.token_id)
      /\ Has(h, "token_manager_type", m.token_manager_type)
      /\ Has(h, "destination_chain", m.destination_chain)
      /\ Has(h, "destination_token_address", m.destination_token_address)
  <2>1. ASSUME NEW x, NEW y, Has(g, x, y), x # "source_token_address"
        PROVE  Has(h, x, y)
    BY <2>1 DEF Has
  <2> HIDE DEF h
  <2> QED
    BY <1>1, <2>1
<1>6. /\ Kept(h, "token_id", m.token_id)
      /\ Kept(h, "token_manager_type", m.token_manager_type)
      /\ Kept(h, "source_token_address", m.source_token_address)
      /\ Kept(h, "destination_chain", m.destination_chain)
      /\ Kept(h, "destination_token_address", m.destination_token_address)
  <2> HIDE DEF h
  <2> QED
    BY <1>4, <1>5, KeptAsIs
<1>7. ASSUME NEW f \in DOMAIN m \ {"kind"}
      PROVE  Kept(h, f, m[f])
  <2> HIDE DEF h
  <2> QED
    BY <1>2, <1>6
<1>8. accepted <=> ~Unreadable(m)
  <2>1. m.source_token_address \in AnyAddress
    BY DEF LogsOf, AnyContract
  <2>2. /\ HashPart(m.source_token_address)[1] = m.source_token_address[2]
        /\ m.source_token_address[2] \in 0..255
    BY <2>1, SecondByte
  <2>3. /\ g.source_token_address = HashPart(m.source_token_address)
        /\ g.op = OP_LINK_TOKEN_STARTED_LOG
    BY <1>1 DEF Has
  <2>4. g.token_manager_type = m.token_manager_type
    BY <1>1 DEF Has
  <2>5. m.token_manager_type \in Octets(1)
    BY DEF LogsOf
  <2>6. m.token_manager_type[1] \in 0..255
    BY <2>5, FirstOctet
  <2> QED
    BY <1>2, <2>2, <2>3, <2>4, <2>6 DEF Unreadable, ParsesAsAddress
<1> HIDE DEF accepted, h
<1> QED
  BY <1>3, <1>7, <1>8, FaithfulRead, FaithfulRefusal DEF c

\* BigUint::to_bytes_be drops the leading zeros of a word, but for the last byte.
LEMMA FirstNonzero ==
    ASSUME NEW S \in SUBSET Nat, NEW b \in Seq(S)
    PROVE  \/ /\ SelectInSeq(b, LAMBDA x : x # 0) = 0
              /\ \A i \in 1..Len(b) : b[i] = 0
           \/ \E k \in 1..Len(b) :
                  /\ SelectInSeq(b, LAMBDA x : x # 0) = k /\ b[k] # 0
                  /\ \A i \in 1..Len(b) : i < k => b[i] = 0
<1> DEFINE I == {i \in 1..Len(b) : b[i] # 0}
<1>1. SelectInSeq(b, LAMBDA x : x # 0) = IF I # {} THEN Min(I) ELSE 0
  BY DEF SelectInSeq
<1>2. CASE I = {}
  BY <1>1, <1>2
<1>3. CASE I # {}
  <2>1. I \in SUBSET Nat
    OBVIOUS
  <2>2. PICK k \in I : \A j \in I : k <= j
    <3> HIDE DEF I
    <3> QED
      BY <1>3, <2>1, LeastElement
  <2>3. Min(I) \in I /\ \A j \in I : Min(I) <= j
    <3> HIDE DEF I
    <3> QED
      BY <2>2 DEF Min
  <2>4. \A i \in 1..Len(b) : i < Min(I) => b[i] = 0
    <3> SUFFICES ASSUME NEW i \in 1..Len(b), i < Min(I), b[i] # 0
                 PROVE  FALSE
      OBVIOUS
    <3>1. i \in I
      OBVIOUS
    <3>2. Min(I) \in Nat /\ i \in Nat
      BY <2>1, <2>3
    <3>3. Min(I) <= i
      BY <2>3, <3>1
    <3> HIDE DEF I
    <3> QED
      BY <3>2, <3>3
  <2> QED
    BY <1>1, <1>3, <2>3, <2>4
<1> QED
  BY <1>2, <1>3

LEMMA EpochFits ==
    ASSUME NEW w \in AnyWord
    PROVE  Len(to_bytes_be(w)) <= 8 <=> \A i \in 1..24 : w[i] = 0
<1> DEFINE S == 0..255
           first == SelectInSeq(w, LAMBDA x : x # 0)
<1>1. w \in Seq(S) /\ Len(w) = 32 /\ S \in SUBSET Nat
  BY DEF AnyWord, Octets
<1> HIDE DEF S
<1>2. to_bytes_be(w) = IF first = 0 THEN <<0>> ELSE SubSeq(w, first, 32)
  BY <1>1 DEF to_bytes_be
<1>3. \/ first = 0 /\ \A i \in 1..32 : w[i] = 0
      \/ \E k \in 1..32 : /\ first = k /\ w[k] # 0
                          /\ \A i \in 1..32 : i < k => w[i] = 0
  BY <1>1, FirstNonzero, ZenonT(30)
<1> HIDE DEF first
<1>4. CASE first = 0 /\ \A i \in 1..32 : w[i] = 0
  <2>1. Len(to_bytes_be(w)) = 1
    BY <1>2, <1>4
  <2>2. \A i \in 1..24 : i \in 1..32
    OBVIOUS
  <2> QED
    BY <1>4, <2>1, <2>2
<1>5. CASE \E k \in 1..32 : /\ first = k /\ w[k] # 0
                            /\ \A i \in 1..32 : i < k => w[i] = 0
  <2>1. PICK k \in 1..32 : /\ first = k /\ w[k] # 0
                           /\ \A i \in 1..32 : i < k => w[i] = 0
    BY <1>5
  <2>2. to_bytes_be(w) = SubSeq(w, k, 32) /\ k # 0
    BY <1>2, <2>1
  <2>3. Len(SubSeq(w, k, 32)) = 33 - k
    BY <1>1
  <2>4. Len(to_bytes_be(w)) <= 8 <=> k > 24
    BY <2>2, <2>3
  <2>5. ASSUME k > 24, NEW i \in 1..24
        PROVE  w[i] = 0
    <3>1. i \in 1..32 /\ i < k
      BY <2>5
    <3> QED
      BY <2>1, <3>1
  <2>6. ASSUME ~(k > 24)
        PROVE  k \in 1..24
    BY <2>6
  <2> QED
    BY <2>1, <2>4, <2>5, <2>6
<1> QED
  BY <1>3, <1>4, <1>5

LEMMA DecodesSignersRotated ==
    ASSUME NEW m \in LogsOf("SignersRotated")
    PROVE  Faithful(m, Decoder("SignersRotated", LogCell(m)))
<1> DEFINE c == LogCell(m)
           layout == <<OpCode, Skip, Word("signers_hash"), Word("epoch")>>
<1>1. PICK at, ref, g : /\ Read(c, layout) = State(at, ref, g)
                        /\ Has(g, "op", OP_SIGNERS_ROTATED_LOG)
                        /\ Has(g, "signers_hash", m.signers_hash)
                        /\ Has(g, "epoch", m.epoch)
  BY ReadsSignersRotated
<1>2. /\ m.kind = "SignersRotated"
      /\ DOMAIN m = {"kind", "signers_hash", "epoch"}
  BY DEF LogsOf
<1> HIDE DEF c
<1> DEFINE accepted == g.op = OP_SIGNERS_ROTATED_LOG /\ Len(to_bytes_be(g.epoch)) <= 8
           h == [g EXCEPT !.signers_hash = to_bytes_be(@)]
<1>3. /\ accepted => /\ Decoder("SignersRotated", c).ok = TRUE
                     /\ Decoder("SignersRotated", c).fields = h
      /\ ~accepted => Decoder("SignersRotated", c) = Failed
  <2>1. Decoder("SignersRotated", c) = LogSignersRotatedMessage(c)
    BY DEF Decoder
  <2>2. State(at, ref, g).ok = TRUE /\ State(at, ref, g).fields = g
    BY DEF State
  <2>3. Read(c, layout) = State(at, ref, g)
    BY <1>1
  <2>4. ASSUME accepted
        PROVE  LogSignersRotatedMessage(c)
                 = [[ok |-> TRUE, fields |-> g] EXCEPT !.fields.signers_hash
                    = to_bytes_be(@)]
    BY <2>2, <2>3, <2>4 DEF LogSignersRotatedMessage, Returned, compare_op_code
  <2>5. ASSUME ~accepted
        PROVE  LogSignersRotatedMessage(c) = Failed
    <3>1. Failed.ok = FALSE
      BY DEF Failed
    <3> QED
      BY <2>2, <2>3, <2>5, <3>1 DEF LogSignersRotatedMessage, Returned, compare_op_code
  <2> DEFINE r == [[ok |-> TRUE, fields |-> g] EXCEPT !.fields.signers_hash
                   = to_bytes_be(@)]
  <2>6. r.ok = TRUE /\ r.fields = h
    <3>1. PICK v : v = to_bytes_be(g.signers_hash)
      OBVIOUS
    <3>2. [ok |-> TRUE, fields |-> g].fields.signers_hash = g.signers_hash
      OBVIOUS
    <3>3. r = [[ok |-> TRUE, fields |-> g] EXCEPT !.fields.signers_hash = v]
      BY <3>1, <3>2
    <3>4. /\ [[ok |-> TRUE, fields |-> g] EXCEPT !.fields.signers_hash = v].ok = TRUE
          /\ [[ok |-> TRUE, fields |-> g] EXCEPT !.fields.signers_hash = v].fields
               = [g EXCEPT !.signers_hash = v]
      OBVIOUS
    <3> HIDE DEF r
    <3> QED
      BY <3>1, <3>3, <3>4
  <2> HIDE DEF accepted, h, r
  <2>7. accepted => LogSignersRotatedMessage(c) = r
    BY <2>4 DEF r
  <2> QED
    BY <2>1, <2>5, <2>6, <2>7
<1>4. Kept(h, "signers_hash", m.signers_hash)
  <2>1. Has(g, "signers_hash", m.signers_hash)
    BY <1>1
  <2>2. Has(h, "signers_hash", to_bytes_be(m.signers_hash))
    BY <2>1 DEF Has
  <2> HIDE DEF h
  <2> QED
    BY <2>2 DEF Kept, Has, SameField
<1>5. Kept(h, "epoch", m.epoch)
  <2>1. Has(g, "epoch", m.epoch)
    BY <1>1
  <2>2. Has(h, "epoch", m.epoch)
    BY <2>1 DEF Has
  <2> HIDE DEF h
  <2> QED
    BY <2>2, KeptAsIs
<1>6. ASSUME NEW f \in DOMAIN m \ {"kind"}
      PROVE  Kept(h, f, m[f])
  <2> HIDE DEF h
  <2> QED
    BY <1>2, <1>4, <1>5
<1>7. accepted <=> ~Unreadable(m)
  <2>1. m.epoch \in AnyWord
    BY DEF LogsOf
  <2>2. g.op = OP_SIGNERS_ROTATED_LOG /\ g.epoch = m.epoch
    BY <1>1 DEF Has
  <2>3. accepted <=> Len(to_bytes_be(m.epoch)) <= 8
    BY <2>2
  <2>4. Unreadable(m) <=> \E i \in 1..24 : m.epoch[i] # 0
    BY <1>2 DEF Unreadable
  <2> HIDE DEF accepted
  <2> QED
    BY <2>1, <2>3, <2>4, EpochFits
<1> HIDE DEF accepted, h
<1> QED
  BY <1>3, <1>6, <1>7, FaithfulRead, FaithfulRefusal DEF c

\* A decoder reads the log of its kind, or refuses one that cannot be read.
LEMMA LogsDecoded ==
    ASSUME NEW log \in Logs
    PROVE  Faithful(log, Decoder(log.kind, LogCell(log)))
<1>1. log.kind \in LogKinds /\ log \in LogsOf(log.kind)
  BY LogsAssumption
<1>2. PICK k \in LogKinds : k = log.kind /\ log \in LogsOf(k)
  BY <1>1
<1>3. Faithful(log, Decoder(k, LogCell(log)))
  BY <1>2, DecodesCallContract, DecodesNativeGasPaid, DecodesNativeGasAdded,
     DecodesJettonGasPaid, DecodesJettonGasAdded, DecodesMessageApproved,
     DecodesSignersRotated, DecodesITSInterchainTokenDeploymentStarted,
     DecodesITSInterchainTransfer, DecodesITSLinkTokenStarted,
     DecodesITSTokenMetadataRegistered DEF LogKinds
<1> QED
  BY <1>2, <1>3

-----------------------------------------------------------------------------
(* Refunds. *)

Cat(a, b) == a \o b
IsOpcode(o) == Len(o) = 32
WithoutOpcode(bits) == SubSeq(bits, 33, Len(bits))

LEMMA CatRegrouped ==
    ASSUME NEW a \in BitStrings, NEW b \in BitStrings, NEW c \in BitStrings
    PROVE  Cat(Cat(a, b), c) = Cat(a, Cat(b, c)) /\ Cat(b, c) \in BitStrings
BY DEF BitStrings, Cat

LEMMA AfterPart ==
    ASSUME NEW n \in Nat, NEW o \in Seq(0..1), NEW rest \in Seq(0..1), Len(o) = n
    PROVE  SubSeq(o \o rest, n + 1, Len(o \o rest)) = rest
OBVIOUS

LEMMA OpcodeDropped ==
    ASSUME NEW o \in BitStrings, IsOpcode(o), NEW rest \in BitStrings
    PROVE  WithoutOpcode(Cat(o, rest)) = rest
<1>1. PICK n \in Nat : n = 32 /\ n + 1 = 33
  OBVIOUS
<1>2. o \in Seq(0..1) /\ rest \in Seq(0..1) /\ Len(o) = n
  BY <1>1 DEF IsOpcode, BitStrings
<1>3. SubSeq(o \o rest, n + 1, Len(o \o rest)) = rest
  BY <1>2, AfterPart, Zenon
<1>4. SubSeq(o \o rest, 33, Len(o \o rest)) = rest
  BY <1>1, <1>3
<1> QED
  BY <1>4 DEF WithoutOpcode, Cat

LEMMA RefundCell ==
    ASSUME NEW m \in Refunds
    PROVE  /\ m.kind = "NativeRefund" /\ DOMAIN m = {"kind", "tx_hash", "address", "amount"}
           /\ m.tx_hash \in AnyWord /\ m.address \in AnyAddress /\ m.amount \in AnyCoins
           /\ Refunded(NativeRefundMessage(m))
                = Cell(Bits(m.tx_hash) \o AddressBits(m.address) \o CoinsBits(m.amount),
                       <<>>)
<1>1. m \in [kind : {"NativeRefund"}, tx_hash : AnyWord, address : AnyAddress,
             amount : AnyCoins]
  BY RelayerAssumption
<1>2. /\ m.kind = "NativeRefund" /\ DOMAIN m = {"kind", "tx_hash", "address", "amount"}
      /\ m.tx_hash \in AnyWord /\ m.address \in AnyAddress /\ m.amount \in AnyCoins
  BY <1>1
<1> DEFINE o == Bits(OP_NATIVE_REFUND)
           x == Bits(m.tx_hash)
           y == AddressBits(m.address)
           z == CoinsBits(m.amount)
<1>3. o \in Seq(0..1) /\ Len(o) = 32
  <2>1. PICK k \in Nat : k = 4 /\ 8 * k = 32
    OBVIOUS
  <2>2. OP_NATIVE_REFUND \in Octets(k)
    BY <2>1, OpCodes
  <2>3. o \in Seq(0..1) /\ Len(o) = 8 * k
    BY <2>2, OctetsBits
  <2> QED
    BY <2>1, <2>3
<1>4. x \in Seq(0..1)
  BY <1>2, WordBits
<1>5. y \in Seq(0..1)
  BY <1>2, AddressLength
<1>6. z \in Seq(0..1)
  BY <1>2, CoinsParts
<1>7. /\ NativeRefundMessage(m).bits = Cat(Cat(Cat(o, x), y), z)
      /\ Refunded(NativeRefundMessage(m))
             = Cell(WithoutOpcode(NativeRefundMessage(m).bits), <<>>)
  BY DEF NativeRefundMessage, Refunded, Cell, Cat, WithoutOpcode
<1>8. /\ o \in BitStrings /\ x \in BitStrings /\ y \in BitStrings /\ z \in BitStrings
      /\ IsOpcode(o)
  BY <1>3, <1>4, <1>5, <1>6 DEF BitStrings, IsOpcode
<1> HIDE DEF o, x, y, z
<1>9. /\ Cat(Cat(Cat(o, x), y), z) = Cat(o, Cat(Cat(x, y), z))
      /\ Cat(Cat(x, y), z) \in BitStrings
  BY <1>8, CatRegrouped
<1>10. WithoutOpcode(Cat(Cat(Cat(o, x), y), z)) = Cat(Cat(x, y), z)
  BY <1>8, <1>9, OpcodeDropped
<1>11. Refunded(NativeRefundMessage(m)) = Cell(Cat(Cat(x, y), z), <<>>)
  BY <1>7, <1>10
<1> QED
  BY <1>2, <1>11 DEF x, y, z, Cat

LEMMA DecodesRefund ==
    ASSUME NEW m \in Refunds
    PROVE  Faithful(m, Decoder("NativeGasRefunded", Refunded(NativeRefundMessage(m))))
<1> DEFINE c == Refunded(NativeRefundMessage(m))
           layout == <<Word("tx_hash"), Address("address"), Coins("amount")>>
<1>1. PICK at, ref, g : /\ Read(c, layout) = State(at, ref, g)
                        /\ Has(g, "tx_hash", m.tx_hash)
                        /\ Has(g, "address", m.address)
                        /\ Has(g, "amount", m.amount)
  BY RefundCell, ReadsRefund
<1>2. m.kind = "NativeRefund" /\ DOMAIN m = {"kind", "tx_hash", "address", "amount"}
  BY RefundCell
<1> HIDE DEF c
<1>3. /\ Decoder("NativeGasRefunded", c).ok = TRUE
      /\ Decoder("NativeGasRefunded", c).fields = g
  <2>1. Decoder("NativeGasRefunded", c) = NativeGasRefundedMessage(c)
    BY DEF Decoder
  <2>2. State(at, ref, g).ok = TRUE /\ State(at, ref, g).fields = g
    BY DEF State
  <2>3. Read(c, layout) = State(at, ref, g)
    BY <1>1
  <2> QED
    BY <2>1, <2>2, <2>3 DEF NativeGasRefundedMessage, Returned, Anything
<1>4. ~Unreadable(m)
  BY <1>2 DEF Unreadable
<1>5. /\ Kept(g, "tx_hash", m.tx_hash)
      /\ Kept(g, "address", m.address)
      /\ Kept(g, "amount", m.amount)
  BY <1>1, KeptAsIs
<1>6. ASSUME NEW f \in DOMAIN m \ {"kind"}
      PROVE  Kept(g, f, m[f])
  BY <1>2, <1>5
<1> QED
  BY <1>3, <1>4, <1>6, FaithfulRead DEF c

-----------------------------------------------------------------------------
(* Executions. *)

ActionBits == [j \in 1..40 |-> 0]
BodyBits == Bits(<<174, 66, 229, 164>>) \o [i \in 1..64 |-> 0]

\* The actions in a list: n of them, each after the ones before it.
Listed(actions, n, f) ==
    /\ DOMAIN f = 0..n
    /\ f[0] = EmptyCell
    /\ \A i \in 1..n : f[i] = Cell(ActionBits, <<f[i - 1], actions[i]>>)

LEMMA ListExists ==
    ASSUME NEW actions, NEW n \in Nat
    PROVE  \E f : Listed(actions, n, f)
<1> DEFINE T == {m \in Nat : ~\E f : Listed(actions, m, f)}
<1>1. ASSUME T # {}
      PROVE  FALSE
  <2>1. T \in SUBSET Nat
    OBVIOUS
  <2>2. PICK k \in T : \A j \in T : k <= j
    <3> HIDE DEF T
    <3> QED
      BY <1>1, <2>1, LeastElement
  <2>3. k \in Nat /\ ~\E f : Listed(actions, k, f)
    BY <2>2
  <2>4. k # 0
    <3> DEFINE f == [i \in 0..0 |-> EmptyCell]
    <3>1. Listed(actions, 0, f)
      BY DEF Listed
    <3> QED
      BY <2>3, <3>1
  <2>5. k - 1 \in Nat /\ ~(k <= k - 1)
    BY <2>3, <2>4
  <2>6. PICK f : Listed(actions, k - 1, f)
    BY <2>2, <2>5
  <2> DEFINE g == [i \in 0..k |->
                     IF i = k THEN Cell(ActionBits, <<f[k - 1], actions[k]>>) ELSE f[i]]
  <2>7. Listed(actions, k, g)
    <3>1. \A i \in 0..(k - 1) : g[i] = f[i]
      BY <2>5
    <3>2. g[0] = EmptyCell
      BY <2>5, <2>6, <3>1 DEF Listed
    <3>3. ASSUME NEW i \in 1..k
          PROVE  g[i] = Cell(ActionBits, <<g[i - 1], actions[i]>>)
      <4>1. i - 1 \in 0..(k - 1) /\ g[i - 1] = f[i - 1]
        BY <2>5, <3>1
      <4>2. CASE i = k
        <5>1. k \in 0..k /\ g[k] = Cell(ActionBits, <<f[k - 1], actions[k]>>)
          BY <2>3
        <5> HIDE DEF g
        <5> QED
          BY <4>1, <4>2, <5>1
      <4>3. CASE i # k
        <5>1. i \in 1..(k - 1) /\ g[i] = f[i]
          BY <2>5, <3>1, <4>3
        <5> QED
          BY <2>6, <4>1, <5>1 DEF Listed
      <4> QED
        BY <4>2, <4>3
    <3>4. DOMAIN g = 0..k
      OBVIOUS
    <3> QED
      BY <3>2, <3>3, <3>4 DEF Listed
  <2> QED
    BY <2>3, <2>7
<1> QED
  BY <1>1

LEMMA BodyOfList ==
    ASSUME NEW actions, NEW n \in Nat, Len(actions) = n
    PROVE  \E f : /\ Listed(actions, n, f)
                  /\ internal_transfer_body(actions) = Cell(BodyBits, <<f[n]>>)
<1> DEFINE Eq(h) == h = [i \in 0..n |->
                          IF i = 0 THEN EmptyCell
                          ELSE Cell(ActionBits, <<h[i - 1], actions[i]>>)]
           out_list == CHOOSE h : Eq(h)
<1>1. PICK f : Listed(actions, n, f)
  BY ListExists
<1> DEFINE e == [i \in 0..n |-> f[i]]
<1>2. Eq(e)
  <2> SUFFICES ASSUME NEW i \in 0..n
               PROVE  f[i] = IF i = 0 THEN EmptyCell
                             ELSE Cell(ActionBits, <<e[i - 1], actions[i]>>)
    OBVIOUS
  <2>1. i # 0 => i \in 1..n /\ i - 1 \in 0..n /\ e[i - 1] = f[i - 1]
    OBVIOUS
  <2> QED
    BY <1>1, <2>1 DEF Listed
<1>3. Eq(out_list)
  <2> HIDE DEF Eq, e
  <2> QED
    BY <1>2
<1>4. internal_transfer_body(actions) = Cell(BodyBits, <<out_list[n]>>)
  BY DEF internal_transfer_body, BodyBits, ActionBits
<1> HIDE DEF out_list
<1>5. Listed(actions, n, out_list)
  <2>1. DOMAIN out_list = 0..n
    BY <1>3
  <2>2. out_list[0] = EmptyCell
    BY <1>3
  <2>3. ASSUME NEW i \in 1..n
        PROVE  out_list[i] = Cell(ActionBits, <<out_list[i - 1], actions[i]>>)
    <3>1. i \in 0..n /\ i # 0
      OBVIOUS
    <3> QED
      BY <1>3, <3>1
  <2> QED
    BY <2>1, <2>2, <2>3 DEF Listed
<1> QED
  BY <1>4, <1>5

\* A path whose references are all there leads to the last of the cells it visits.
Visits(c, path, n, h) ==
    /\ n \in Nat /\ Len(path) = n /\ DOMAIN path = 1..n
    /\ DOMAIN h = 0..n /\ h[0] = c
    /\ \A i \in 1..n : path[i] \in DOMAIN h[i - 1].refs /\ h[i] = h[i - 1].refs[path[i]]

LEMMA Descends ==
    ASSUME NEW c, NEW path, NEW n, NEW h, Visits(c, path, n, h)
    PROVE  Descend(c, path) = [ok |-> TRUE, cell |-> h[n]]
<1> USE DEF Visits
<1> DEFINE Eq(f) == f = [i \in 0..n |-> IF i = 0 THEN c ELSE f[i - 1].refs[path[i]]]
           at == CHOOSE f : Eq(f)
           e == [i \in 0..n |-> h[i]]
<1>1. Eq(e)
  <2> SUFFICES ASSUME NEW i \in 0..n
               PROVE  h[i] = IF i = 0 THEN c ELSE e[i - 1].refs[path[i]]
    OBVIOUS
  <2>1. i # 0 => i \in 1..n /\ i - 1 \in 0..n /\ e[i - 1] = h[i - 1]
    OBVIOUS
  <2> QED
    BY <2>1
<1>2. Eq(at)
  <2> HIDE DEF Eq, e
  <2> QED
    BY <1>1
<1>3. Descend(c, path) = IF \A i \in 1..n : path[i] \in DOMAIN at[i - 1].refs
                         THEN [ok |-> TRUE, cell |-> at[n]] ELSE Failed
  BY DEF Descend
<1> HIDE DEF at, e
<1> DEFINE T == {i \in 0..n : at[i] # h[i]}
<1>4. T = {}
  <2> SUFFICES ASSUME T # {}
               PROVE  FALSE
    OBVIOUS
  <2>1. T \in SUBSET Nat
    OBVIOUS
  <2>2. PICK k \in T : \A j \in T : k <= j
    <3> HIDE DEF T
    <3> QED
      BY <2>1, LeastElement
  <2>3. at[0] = c
    BY <1>2
  <2>4. k \in 1..n /\ k - 1 \in 0..n /\ ~(k <= k - 1)
    BY <2>2, <2>3
  <2>5. at[k - 1] = h[k - 1]
    BY <2>2, <2>4
  <2>6. at[k] = at[k - 1].refs[path[k]]
    BY <1>2, <2>4
  <2> QED
    BY <2>2, <2>4, <2>5, <2>6
<1>5. \A i \in 0..n : at[i] = h[i]
  BY <1>4
<1>6. \A i \in 1..n : i - 1 \in 0..n
  OBVIOUS
<1> HIDE DEF Eq, T
<1>7. \A i \in 1..n : path[i] \in DOMAIN at[i - 1].refs
  BY <1>5, <1>6
<1>8. n \in 0..n
  OBVIOUS
<1> QED
  BY <1>3, <1>5, <1>7, <1>8

\* Reference k of cell c is d.
Refers(c, k, d) == k \in DOMAIN c.refs /\ c.refs[k] = d

LEMMA ToMessage ==
    ASSUME NEW c0, NEW c1, NEW c2, NEW c3,
           Refers(c0, 1, c1), Refers(c1, 2, c2), Refers(c2, 1, c3)
    PROVE  Descend(c0, <<1, 2, 1>>) = [ok |-> TRUE, cell |-> c3]
<1> DEFINE path == <<1, 2, 1>>
           h == [i \in 0..3 |-> IF i = 0 THEN c0 ELSE IF i = 1 THEN c1 ELSE IF i
                 = 2 THEN c2 ELSE c3]
<1>1. /\ Len(path) = 3 /\ DOMAIN path = 1..3 /\ 3 \in Nat
      /\ path[1] = 1 /\ path[2] = 2 /\ path[3] = 1
  OBVIOUS
<1>2. DOMAIN h = 0..3 /\ h[0] = c0 /\ h[1] = c1 /\ h[2] = c2 /\ h[3] = c3
  OBVIOUS
<1> HIDE DEF path, h
<1>3. /\ path[1] \in DOMAIN h[0].refs /\ h[1] = h[0].refs[path[1]]
      /\ path[2] \in DOMAIN h[1].refs /\ h[2] = h[1].refs[path[2]]
      /\ path[3] \in DOMAIN h[2].refs /\ h[3] = h[2].refs[path[3]]
  BY <1>1, <1>2 DEF Refers
<1>4. ASSUME NEW i \in 1..3
      PROVE  path[i] \in DOMAIN h[i - 1].refs /\ h[i] = h[i - 1].refs[path[i]]
  <2>1. (i = 1 /\ i - 1 = 0) \/ (i = 2 /\ i - 1 = 1) \/ (i = 3 /\ i - 1 = 2)
    OBVIOUS
  <2> QED
    BY <1>3, <2>1
<1>5. Visits(c0, path, 3, h)
  BY <1>1, <1>2, <1>4 DEF Visits
<1>6. Descend(c0, path) = [ok |-> TRUE, cell |-> h[3]]
  BY <1>5, Descends
<1> QED
  BY <1>2, <1>6 DEF path

LEMMA ToBody ==
    ASSUME NEW c0, NEW c1, NEW c2, NEW c3, NEW c4,
           Refers(c0, 1, c1), Refers(c1, 2, c2), Refers(c2, 1, c3), Refers(c3, 1, c4)
    PROVE  Descend(c0, <<1, 2, 1, 1>>) = [ok |-> TRUE, cell |-> c4]
<1> DEFINE path == <<1, 2, 1, 1>>
           h == [i \in 0..4 |-> IF i = 0 THEN c0 ELSE IF i = 1 THEN c1 ELSE IF i = 2 THEN c2
                                ELSE IF i = 3 THEN c3 ELSE c4]
<1>1. /\ Len(path) = 4 /\ DOMAIN path = 1..4 /\ 4 \in Nat
      /\ path[1] = 1 /\ path[2] = 2 /\ path[3] = 1 /\ path[4] = 1
  OBVIOUS
<1>2. DOMAIN h = 0..4 /\ h[0] = c0 /\ h[1] = c1 /\ h[2] = c2 /\ h[3] = c3 /\ h[4] = c4
  OBVIOUS
<1> HIDE DEF path, h
<1>3. /\ path[1] \in DOMAIN h[0].refs /\ h[1] = h[0].refs[path[1]]
      /\ path[2] \in DOMAIN h[1].refs /\ h[2] = h[1].refs[path[2]]
      /\ path[3] \in DOMAIN h[2].refs /\ h[3] = h[2].refs[path[3]]
      /\ path[4] \in DOMAIN h[3].refs /\ h[4] = h[3].refs[path[4]]
  BY <1>1, <1>2 DEF Refers
<1>4. ASSUME NEW i \in 1..4
      PROVE  path[i] \in DOMAIN h[i - 1].refs /\ h[i] = h[i - 1].refs[path[i]]
  <2>1. (i = 1 /\ i - 1 = 0) \/ (i = 2 /\ i - 1 = 1) \/ (i = 3 /\ i - 1 = 2) \/ (i
            = 4 /\ i - 1 = 3)
    OBVIOUS
  <2> QED
    BY <1>3, <2>1
<1>5. Visits(c0, path, 4, h)
  BY <1>1, <1>2, <1>4 DEF Visits
<1>6. Descend(c0, path) = [ok |-> TRUE, cell |-> h[4]]
  BY <1>5, Descends
<1> QED
  BY <1>2, <1>6 DEF path

\* The actions of a request, as the wallet sends them.
Wrapped(request) ==
    [i \in DOMAIN request.actions |-> out_action(RelayerExecuteMessage(request.actions[i]))]

LEMMA LastAction ==
    ASSUME NEW request \in Requests
    PROVE  /\ request.kind = "RelayerExecute"
           /\ Last(request.actions) \in Executions
           /\ \E n \in Nat : /\ n # 0 /\ Len(Wrapped(request)) = n
                             /\ Wrapped(request)[n]
                                  = out_action(RelayerExecuteMessage(Last(request.actions)))
<1>1. request.kind = "RelayerExecute" /\ request.actions \in Seq(Executions) \ {<<>>}
  BY RelayerAssumption
<1> DEFINE actions == request.actions
           n == Len(actions)
<1>2. n \in Nat /\ n # 0 /\ DOMAIN actions = 1..n /\ actions[n] \in Executions
  <2> HIDE DEF actions
  <2>1. actions \in Seq(Executions) /\ actions # <<>>
    BY <1>1 DEF actions
  <2>2. n \in Nat /\ n # 0 /\ n \in 1..n
    BY <2>1
  <2> QED
    BY <2>1, <2>2, Elements
<1>3. Last(actions) = actions[n]
  BY DEF Last
<1>4. Wrapped(request) = [i \in 1..n |-> out_action(RelayerExecuteMessage(actions[i]))]
  BY <1>2 DEF Wrapped
<1> HIDE DEF actions, n
<1>5. /\ Len(Wrapped(request)) = n
      /\ Wrapped(request)[n] = out_action(RelayerExecuteMessage(actions[n]))
  BY <1>2, <1>4
<1> QED
  BY <1>1, <1>2, <1>3, <1>5 DEF actions

\* What the wallet sends to itself leads to the message of the last action.
LEMMA WalletBody ==
    ASSUME NEW request \in Requests
    PROVE  LET m == Last(request.actions)
               body == internal_transfer_body(Wrapped(request))
           IN  /\ Descend(body, <<1, 2, 1>>)
               = [ok |-> TRUE, cell |-> RelayerExecuteMessage(m)]
               /\ Descend(body, <<1, 2, 1, 1>>)
                    = [ok |-> TRUE, cell |-> RelayerExecuteMessage(m).refs[1]]
<1> DEFINE m == Last(request.actions)
           body == internal_transfer_body(Wrapped(request))
           x == RelayerExecuteMessage(m)
<1>1. PICK n \in Nat : n # 0 /\ Len(Wrapped(request)) = n /\ Wrapped(request)[n]
          = out_action(x)
  BY LastAction
<1>2. PICK f : Listed(Wrapped(request), n, f) /\ body = Cell(BodyBits, <<f[n]>>)
  BY <1>1, BodyOfList
<1>3. f[n] = Cell(ActionBits, <<f[n - 1], out_action(x)>>)
  BY <1>1, <1>2 DEF Listed
<1>4. Refers(body, 1, f[n])
  BY <1>2 DEF Cell, Refers
<1>5. Refers(f[n], 2, out_action(x))
  BY <1>3 DEF Cell, Refers
<1>6. Refers(out_action(x), 1, x)
  BY DEF out_action, Cell, Refers
<1>7. Refers(x, 1, x.refs[1])
  BY DEF RelayerExecuteMessage, Cell, Refers
<1> HIDE DEF body, x
<1>8. Descend(body, <<1, 2, 1>>) = [ok |-> TRUE, cell |-> x]
  BY <1>4, <1>5, <1>6, ToMessage
<1>9. Descend(body, <<1, 2, 1, 1>>) = [ok |-> TRUE, cell |-> x.refs[1]]
  BY <1>4, <1>5, <1>6, <1>7, ToBody
<1> QED
  BY <1>8, <1>9 DEF body, x

\* The fields that the decoders of an execution are about.
LEMMA ExecutionTypes ==
    ASSUME NEW m \in Executions
    PROVE  /\ m.message_id \in AnyText /\ m.source_chain \in AnyText
           /\ m.source_address \in AnyText /\ m.destination_chain \in AnyText
           /\ m.destination_address \in AnyAddress /\ m.payload \in AnyBuffer
           /\ m.payload_hash \in AnyWord /\ m.relayer_address \in AnyAddress
           /\ HashPart(m.destination_address) \in AnyBuffer
<1>1. /\ m.message_id \in AnyText /\ m.source_chain \in AnyText
      /\ m.source_address \in AnyText /\ m.destination_chain \in AnyText
      /\ m.destination_address \in AnyAddress /\ m.payload \in AnyBuffer
      /\ m.payload_hash \in AnyWord /\ m.relayer_address \in AnyAddress
  BY DEF Executions
<1> QED
  BY <1>1, HashParts

\* The cell with the payload that an execution carries.
PayloadCell(m) ==
    Cell(Bits(m.payload_hash),
         <<buffer_to_cell(m.payload), buffer_to_cell(HashPart(m.destination_address)),
           buffer_to_cell(m.destination_chain)>>)

LEMMA RefsOf ==
    ASSUME NEW bits, NEW refs
    PROVE  Cell(bits, refs).refs = refs
BY DEF Cell

LEMMA ExecutionCell ==
    ASSUME NEW m
    PROVE  RelayerExecuteMessage(m).refs[1]
             = Cell(<<>>, <<buffer_to_cell(m.message_id), buffer_to_cell(m.source_chain),
                            buffer_to_cell(m.source_address), PayloadCell(m)>>)
<1> DEFINE msg == Cell(<<>>, <<buffer_to_cell(m.message_id), buffer_to_cell(m.source_chain),
                               buffer_to_cell(m.source_address), PayloadCell(m)>>)
<1>1. RelayerExecuteMessage(m)
        = Cell(Bits(OP_RELAYER_EXECUTE) \o AddressBits(m.relayer_address), <<msg>>)
  BY DEF RelayerExecuteMessage, PayloadCell
<1> HIDE DEF msg
<1>2. RelayerExecuteMessage(m).refs = <<msg>>
  BY <1>1 DEF Cell
<1> QED
  BY <1>2 DEF msg

\* The wallet's message to itself names the message of its last action.
LEMMA DecodesWrapped ==
    ASSUME NEW request \in Requests
    PROVE  LET m == Last(request.actions)
               d == Decoder("RelayerExecuteWrapped",
                            internal_transfer_body(Wrapped(request)))
           IN  /\ d.ok = TRUE
               /\ Has(d.fields, "message_id", m.message_id)
               /\ Has(d.fields, "source_chain", m.source_chain)
<1> DEFINE m == Last(request.actions)
           body == internal_transfer_body(Wrapped(request))
           c == RelayerExecuteMessage(m).refs[1]
           layout == <<Text("message_id"), Text("source_chain")>>
<1>1. m.message_id \in AnyText /\ m.source_chain \in AnyText
  BY LastAction, ExecutionTypes
<1>2. Descend(body, <<1, 2, 1, 1>>) = [ok |-> TRUE, cell |-> c]
  BY WalletBody
<1>3. PICK at, ref, g : /\ Read(c, layout) = State(at, ref, g)
                        /\ Has(g, "message_id", m.message_id)
                        /\ Has(g, "source_chain", m.source_chain)
  <2> DEFINE id == m.message_id
             s == m.source_chain
             y == buffer_to_cell(m.source_address)
             z == PayloadCell(m)
  <2>1. c = Cell(<<>>, <<buffer_to_cell(id), buffer_to_cell(s), y, z>>)
    BY ExecutionCell
  <2>2. id \in AnyText /\ s \in AnyText
    BY <1>1
  <2> HIDE DEF c, id, s, y, z, layout
  <2>3. \E at, ref, g : /\ Read(c, layout) = State(at, ref, g)
                        /\ Has(g, "message_id", id)
                        /\ Has(g, "source_chain", s)
    BY <2>1, <2>2, ReadsWrapped DEF layout
  <2> QED
    BY <2>3 DEF id, s
<1> HIDE DEF body, c
<1>4. Decoder("RelayerExecuteWrapped", body) = [ok |-> TRUE, fields |-> g]
  <2>1. Decoder("RelayerExecuteWrapped", body) = RelayerExecuteWrappedMessage(body)
    BY DEF Decoder
  <2>2. State(at, ref, g).ok = TRUE /\ State(at, ref, g).fields = g
    BY DEF State
  <2>3. Read(c, layout) = State(at, ref, g)
    BY <1>3
  <2>4. Descend(body, <<1, 2, 1, 1>>).ok = TRUE /\ Descend(body, <<1, 2, 1, 1>>).cell = c
    BY <1>2
  <2> QED
    BY <2>1, <2>2, <2>3, <2>4 DEF RelayerExecuteWrappedMessage, Returned, Anything
<1> QED
  BY <1>3, <1>4 DEF body

\* What the gateway reports of the last action.
LEMMA NullifiedCell ==
    ASSUME NEW request \in Requests
    PROVE  LET m == Last(request.actions)
               body == internal_transfer_body(Wrapped(request))
           IN  Nullified(Descend(body, <<1, 2, 1>>).cell)
                 = Cell(Bits(OP_NULLIFIED_SUCCESSFULLY),
                        <<buffer_to_cell(m.message_id), buffer_to_cell(m.source_chain),
                          buffer_to_cell(m.source_address), PayloadCell(m)>>)
<1> DEFINE m == Last(request.actions)
           body == internal_transfer_body(Wrapped(request))
<1>1. Descend(body, <<1, 2, 1>>).cell = RelayerExecuteMessage(m)
  <2>1. Descend(body, <<1, 2, 1>>) = [ok |-> TRUE, cell |-> RelayerExecuteMessage(m)]
    BY WalletBody
  <2> QED
    BY <2>1
<1>2. RelayerExecuteMessage(m).refs[1].refs
        = <<buffer_to_cell(m.message_id), buffer_to_cell(m.source_chain),
            buffer_to_cell(m.source_address), PayloadCell(m)>>
  BY ExecutionCell, RefsOf
<1> QED
  BY <1>1, <1>2 DEF Nullified

\* The gateway's message tells the execution as it was asked for.
LEMMA DecodesNullified ==
    ASSUME NEW request \in Requests
    PROVE  LET m == Last(request.actions)
               body == internal_transfer_body(Wrapped(request))
               d == Decoder("MessageExecuted", Nullified(Descend(body, <<1, 2, 1>>).cell))
           IN  /\ d.ok = TRUE
               /\ Has(d.fields, "message_id", m.message_id)
               /\ Has(d.fields, "source_chain", m.source_chain)
               /\ Has(d.fields, "source_address", m.source_address)
               /\ Has(d.fields, "payload", m.payload)
               /\ Has(d.fields, "destination_address", HashPart(m.destination_address))
<1> DEFINE m == Last(request.actions)
           body == internal_transfer_body(Wrapped(request))
           c == Nullified(Descend(body, <<1, 2, 1>>).cell)
           layout == <<OpCode, Text("message_id"), Text("source_chain"),
                       Text("source_address"),
                       Inner(<<Buffer("payload"), Buffer("destination_address"),
                               Text("destination_chain")>>)>>
<1>1. m \in Executions
  BY LastAction
<1>2. c = Cell(Bits(OP_NULLIFIED_SUCCESSFULLY),
               <<buffer_to_cell(m.message_id), buffer_to_cell(m.source_chain),
                 buffer_to_cell(m.source_address), PayloadCell(m)>>)
  BY NullifiedCell
<1> HIDE DEF m, c, body
<1>3. PICK at, ref, g : /\ Read(c, layout) = State(at, ref, g)
                        /\ Has(g, "op", OP_NULLIFIED_SUCCESSFULLY)
                        /\ Has(g, "message_id", m.message_id)
                        /\ Has(g, "source_chain", m.source_chain)
                        /\ Has(g, "source_address", m.source_address)
                        /\ Has(g, "payload", m.payload)
                        /\ Has(g, "destination_address", HashPart(m.destination_address))
                        /\ Has(g, "destination_chain", m.destination_chain)
  <2> DEFINE id == m.message_id
             s == m.source_chain
             a == m.source_address
             bits == Bits(m.payload_hash)
             p == m.payload
             d == HashPart(m.destination_address)
             n == m.destination_chain
  <2>1. /\ id \in AnyText /\ s \in AnyText /\ a \in AnyText
        /\ p \in AnyBuffer /\ d \in AnyBuffer /\ n \in AnyText
    BY <1>1, ExecutionTypes
  <2>2. c = ExecutedCell(id, s, a, bits, p, d, n)
    BY <1>2 DEF PayloadCell, ExecutedCell
  <2> HIDE DEF id, s, a, bits, p, d, n, layout
  <2>3. ReadAsExecuted(c, id, s, a, p, d, n)
    BY <2>1, <2>2, ReadsNullified
  <2> QED
    BY <2>3 DEF ReadAsExecuted, layout, id, s, a, p, d, n
<1>4. Decoder("MessageExecuted", c) = [ok |-> TRUE, fields |-> g]
  <2>1. Decoder("MessageExecuted", c) = NullifiedSuccessfullyMessage(c)
    BY DEF Decoder
  <2>2. State(at, ref, g).ok = TRUE /\ State(at, ref, g).fields = g
    BY DEF State
  <2>3. Read(c, layout) = State(at, ref, g)
    BY <1>3
  <2>4. g.op = OP_NULLIFIED_SUCCESSFULLY
    BY <1>3 DEF Has
  <2> QED
    BY <2>1, <2>2, <2>3, <2>4 DEF NullifiedSuccessfullyMessage, Returned
<1> QED
  BY <1>3, <1>4 DEF m, c, body

-----------------------------------------------------------------------------
(* Approvals. *)

Approved(m) ==
    ApprovalCell(m.payload_hash, m.message_id, m.source_chain, m.source_address,
                 m.destination_address, m.destination_chain)

ApprovalFields == {"payload_hash", "message_id", "source_chain", "source_address",
                   "destination_address", "destination_chain"}

LEMMA ApprovalTypes ==
    ASSUME NEW m \in ApprovedMessages
    PROVE  /\ m.payload_hash \in AnyWord /\ m.message_id \in AnyText
           /\ m.source_chain \in AnyText /\ m.source_address \in AnyText
           /\ m.destination_address \in AnyBuffer /\ m.destination_chain \in AnyText
           /\ DOMAIN m = ApprovalFields /\ m = [x \in DOMAIN m |-> m[x]]
BY DEF ApprovedMessages, ApprovalFields

LEMMA SameFields ==
    ASSUME NEW g, NEW m, g = [x \in DOMAIN g |-> g[x]], m = [x \in DOMAIN m |-> m[x]],
           DOMAIN g = ApprovalFields, DOMAIN m = ApprovalFields,
           \A x \in ApprovalFields : g[x] = m[x]
    PROVE  g = m
OBVIOUS

\* A value of the dictionary is read as it was written.
LEMMA ParsesApproval ==
    ASSUME NEW m \in ApprovedMessages
    PROVE  /\ parse_approve_messages(Approved(m)).ok = TRUE
           /\ parse_approve_messages(Approved(m)).fields = m
<1> DEFINE c == Approved(m)
           layout == <<Word("payload_hash"), Text("message_id"), Text("source_chain"),
                       Text("source_address"),
                       Inner(<<Buffer("destination_address"), Text("destination_chain")>>)>>
           w == m.payload_hash
           id == m.message_id
           s == m.source_chain
           a == m.source_address
           d == m.destination_address
           n == m.destination_chain
<1>1. /\ w \in AnyWord /\ id \in AnyText /\ s \in AnyText /\ a \in AnyText
      /\ d \in AnyBuffer /\ n \in AnyText
  BY ApprovalTypes
<1>2. c = ApprovalCell(w, id, s, a, d, n)
  BY DEF Approved
<1> HIDE DEF c, w, id, s, a, d, n
<1>3. ReadAsApproval(c, w, id, s, a, d, n)
  BY <1>1, <1>2, ReadsApproval
<1>4. PICK at, ref, g : /\ Read(c, layout) = State(at, ref, g)
                        /\ g = [x \in DOMAIN g |-> g[x]]
                        /\ DOMAIN g = ApprovalFields
                        /\ Has(g, "payload_hash", w)
                        /\ Has(g, "message_id", id)
                        /\ Has(g, "source_chain", s)
                        /\ Has(g, "source_address", a)
                        /\ Has(g, "destination_address", d)
                        /\ Has(g, "destination_chain", n)
  BY <1>3 DEF ReadAsApproval, ApprovalFields
<1>5. /\ g["payload_hash"] = m["payload_hash"] /\ g["message_id"] = m["message_id"]
      /\ g["source_chain"] = m["source_chain"] /\ g["source_address"] = m["source_address"]
      /\ g["destination_address"] = m["destination_address"]
      /\ g["destination_chain"] = m["destination_chain"]
  BY <1>4 DEF Has, w, id, s, a, d, n
<1>6. \A x \in ApprovalFields : g[x] = m[x]
  BY <1>5 DEF ApprovalFields
<1>7. DOMAIN m = ApprovalFields /\ m = [x \in DOMAIN m |-> m[x]]
  BY ApprovalTypes
<1>8. g = [x \in DOMAIN g |-> g[x]] /\ DOMAIN g = ApprovalFields
  BY <1>4
<1>9. g = m
  BY <1>6, <1>7, <1>8, SameFields
<1>10. Read(c, layout) = State(at, ref, m)
  BY <1>4, <1>9
<1>11. State(at, ref, m).ok = TRUE /\ State(at, ref, m).fields = m
  BY DEF State
<1> QED
  BY <1>10, <1>11 DEF parse_approve_messages, Returned, Anything, c

LEMMA Parts1 ==
    ASSUME NEW x \in Seq(0..1)
    PROVE  Holds(x, 0, x)
BY DEF Holds

LEMMA ProofTypes ==
    ASSUME NEW proof \in Proofs
    PROVE  /\ proof.kind = "ApproveMessages"
           /\ \A i \in DOMAIN proof.messages : proof.messages[i] \in ApprovedMessages
<1>1. proof.kind = "ApproveMessages" /\ proof.messages \in Seq(ApprovedMessages)
  BY RelayerAssumption
<1> QED
  BY <1>1, Elements

\* The dictionary gives the messages of the proof, and none else.
LEMMA DecodesProof ==
    ASSUME NEW proof \in Proofs
    PROVE  LET d == Decoder("ApproveMessages", ProofCell(proof.messages))
           IN  d.ok = TRUE /\ d.fields.approve_messages = ToSet(proof.messages)
<1> DEFINE messages == proof.messages
           c == ProofCell(messages)
           dictionary == [i \in DOMAIN messages |-> Approved(messages[i])]
           values == {parse_approve_messages(v) : v \in ToSet(dictionary)}
           op == load_bits(c.bits, 0, 32)
<1>1. \A i \in DOMAIN messages : messages[i] \in ApprovedMessages
  BY ProofTypes
<1> HIDE DEF messages
<1>2. c = Cell(Bits(OP_APPROVE_MESSAGES), <<EmptyCell, Cell(<<1>>, dictionary)>>)
  BY DEF ProofCell, Approved, ApprovalCell
<1> HIDE DEF dictionary, c
<1>3. /\ c.bits = Bits(OP_APPROVE_MESSAGES)
      /\ Len(c.refs) >= 2 /\ c.refs[2] = Cell(<<1>>, dictionary)
  BY <1>2 DEF Cell
<1>4. c.refs[2].refs = dictionary
  BY <1>3, RefsOf
<1>5. op.ok = TRUE /\ op.value = OP_APPROVE_MESSAGES
  <2> DEFINE o == OP_APPROVE_MESSAGES
             bits == Bits(o)
  <2>1. o \in Octets(4)
    BY OpCodes
  <2>2. bits \in Seq(0..1)
    <3>1. PICK k \in Nat : k = 4
      OBVIOUS
    <3>2. o \in Octets(k)
      BY <2>1, <3>1
    <3> HIDE DEF o
    <3> QED
      BY <3>2, SmallBits
  <2>3. Holds(bits, 0, bits) /\ 0 \in Nat
    BY <2>2, Parts1
  <2> HIDE DEF o
  <2>4. load_bits(bits, 0, 32) = Loaded(0 + Len(bits), o)
    BY <2>1, <2>2, <2>3, LoadedOpCode
  <2>5. op = Loaded(0 + Len(bits), o)
    BY <1>3, <2>4 DEF o
  <2> HIDE DEF op
  <2> QED
    BY <2>5 DEF Loaded, o
<1>6. ASSUME NEW i \in DOMAIN messages
      PROVE  /\ parse_approve_messages(Approved(messages[i])).ok = TRUE
             /\ parse_approve_messages(Approved(messages[i])).fields = messages[i]
  BY <1>1, ParsesApproval
<1>7. ToSet(dictionary) = {Approved(messages[i]) : i \in DOMAIN messages}
  BY DEF ToSet, dictionary
<1>8. values = {parse_approve_messages(Approved(messages[i])) : i \in DOMAIN messages}
  BY <1>7
<1> HIDE DEF values, op
<1>9. \A v \in values : v.ok
  BY <1>6, <1>8
<1>10. {v.fields : v \in values} = {messages[i] : i \in DOMAIN messages}
  BY <1>6, <1>8
<1>11. ApproveMessages(c)
           = [ok |-> TRUE, fields |-> [approve_messages |-> {v.fields : v \in values}]]
  BY <1>3, <1>4, <1>5, <1>9 DEF ApproveMessages, compare_op_code, values, op
<1>12. Decoder("ApproveMessages", c) = ApproveMessages(c)
  BY DEF Decoder
<1>13. /\ ApproveMessages(c).ok = TRUE
       /\ ApproveMessages(c).fields.approve_messages = ToSet(messages)
  BY <1>10, <1>11 DEF ToSet
<1> QED
  BY <1>12, <1>13 DEF messages, c

\* None of them has an opcode to leave out.
LEMMA NothingLeftOut ==
    ASSUME NEW proof \in Proofs
    PROVE  {[f \in DOMAIN m \ {"op"} |-> m[f]] : m \in ToSet(proof.messages)}
             = ToSet(proof.messages)
<1> DEFINE S == ToSet(proof.messages)
           F(m) == [f \in DOMAIN m \ {"op"} |-> m[f]]
<1>1. ASSUME NEW m \in S
      PROVE  F(m) = m
  <2>1. m \in ApprovedMessages
    BY ProofTypes DEF ToSet
  <2>2. DOMAIN m = ApprovalFields /\ m = [x \in DOMAIN m |-> m[x]]
    BY <2>1, ApprovalTypes
  <2>3. ApprovalFields \ {"op"} = ApprovalFields
    BY DEF ApprovalFields
  <2> QED
    BY <2>2, <2>3
<1> HIDE DEF S, F
<1>2. {F(m) : m \in S} = S
  BY <1>1
<1> QED
  BY <1>2 DEF S, F

-----------------------------------------------------------------------------
(* Payments and additions. *)

\* The bits start with an address, and no other address, amount and word follow it.
NoAddition(bits) ==
    \E A, minter :
        /\ load_address(bits, 0) = Loaded(A, minter)
        /\ \/ load_address(bits, A) = Failed
           \/ \E a, v :
                  /\ load_address(bits, A) = Loaded(a, v)
                  /\ \/ load_coins(bits, a) = Failed
                     \/ \E k, w : /\ load_coins(bits, a) = Loaded(k, w)
                                  /\ load_bits(bits, k, 256) = Failed

\* The loads of an addition, one by one, until one of them fails.
LEMMA AdditionFails ==
    ASSUME NEW c, NoAddition(c.bits)
    PROVE  ~JettonGasAddedMessage(c).ok
<1> DEFINE bits == c.bits
<1>0. PICK A, minter :
           /\ load_address(bits, 0) = Loaded(A, minter)
           /\ \/ load_address(bits, A) = Failed
              \/ \E a, v :
                     /\ load_address(bits, A) = Loaded(a, v)
                     /\ \/ load_coins(bits, a) = Failed
                        \/ \E k, w : /\ load_coins(bits, a) = Loaded(k, w)
                                     /\ load_bits(bits, k, 256) = Failed
  BY DEF NoAddition
<1> DEFINE layout == <<Address("minter"), Address("sender"), Coins("amount"),
                       Word("tx_hash"),
                       Inner(<<Address("refund_address")>>)>>
<1>1. PICK f : Walks(c, layout, 5, f) /\ Read(c, layout) = f[5]
  <2>1. Len(layout) = 5 /\ 5 \in Nat
    OBVIOUS
  <2> HIDE DEF layout
  <2> QED
    BY <2>1, ReadSteps
<1>2. /\ f[0] = State(0, 1, NoFields)
      /\ f[1] = IF f[0].ok THEN LoadNested(c, f[0], Address("minter")) ELSE f[0]
      /\ f[2] = IF f[1].ok THEN LoadNested(c, f[1], Address("sender")) ELSE f[1]
      /\ f[3] = IF f[2].ok THEN LoadNested(c, f[2], Coins("amount")) ELSE f[2]
      /\ f[4] = IF f[3].ok THEN LoadNested(c, f[3], Word("tx_hash")) ELSE f[3]
      /\ ~f[4].ok => f[5] = f[4]
  <2>1. /\ layout[1] = Address("minter") /\ layout[2] = Address("sender")
        /\ layout[3] = Coins("amount") /\ layout[4] = Word("tx_hash")
    OBVIOUS
  <2> HIDE DEF layout
  <2>2. /\ f[0] = State(0, 1, NoFields)
        /\ \A i \in 1..5 : f[i] = IF f[i - 1].ok THEN LoadNested(c, f[i - 1], layout[i])
                                  ELSE f[i - 1]
    BY <1>1 DEF Walks
  <2> QED
    BY <2>1, <2>2
<1>3. ASSUME NEW at, NEW ref, NEW g
      PROVE  State(at, ref, g).ok = TRUE
  BY DEF State
<1>4. PICK g1 : f[1] = State(A, 1, g1)
  <2>1. LoadNested(c, State(0, 1, NoFields), Address("minter"))
          = State(A, 1, Merged(Field("minter", minter), NoFields))
    BY <1>0, AddressLoads
  <2> QED
    BY <1>2, <1>3, <2>1
<1>5. f[2] = LoadNested(c, State(A, 1, g1), Address("sender"))
  BY <1>2, <1>3, <1>4
<1>6. CASE load_address(bits, A) = Failed
  <2>1. ~LoadNested(c, State(A, 1, g1), Address("sender")).ok
    BY <1>6, AddressLoads
  <2> QED
    BY <1>1, <1>2, <1>5, <2>1 DEF JettonGasAddedMessage, Returned, Failed
<1>7. ASSUME NEW a, NEW v, load_address(bits, A) = Loaded(a, v),
             \/ load_coins(bits, a) = Failed
             \/ \E k, w : load_coins(bits, a) = Loaded(k, w) /\ load_bits(bits, k, 256)
                    = Failed
      PROVE  ~f[4].ok
  <2>1. PICK g2 : f[2] = State(a, 1, g2)
    <3>1. LoadNested(c, State(A, 1, g1), Address("sender"))
            = State(a, 1, Merged(Field("sender", v), g1))
      BY <1>7, AddressLoads
    <3> QED
      BY <1>5, <3>1
  <2>2. f[3] = LoadNested(c, State(a, 1, g2), Coins("amount"))
    BY <1>2, <1>3, <2>1
  <2>3. CASE load_coins(bits, a) = Failed
    <3>1. ~LoadNested(c, State(a, 1, g2), Coins("amount")).ok
      BY <2>3, CoinsLoads
    <3> QED
      BY <1>2, <2>2, <3>1
  <2>4. ASSUME NEW k, NEW w, load_coins(bits, a) = Loaded(k, w),
               load_bits(bits, k, 256) = Failed
        PROVE  ~f[4].ok
    <3>1. PICK g3 : f[3] = State(k, 1, g3)
      <4>1. LoadNested(c, State(a, 1, g2), Coins("amount"))
              = State(k, 1, Merged(Field("amount", w), g2))
        BY <2>4, CoinsLoads
      <4> QED
        BY <2>2, <4>1
    <3>2. f[4] = LoadNested(c, State(k, 1, g3), Word("tx_hash"))
      BY <1>2, <1>3, <3>1
    <3>3. ~LoadNested(c, State(k, 1, g3), Word("tx_hash")).ok
      BY <2>4, WordLoads
    <3> QED
      BY <3>2, <3>3
  <2> QED
    BY <1>7, <2>3, <2>4
<1>8. ~f[4].ok => ~JettonGasAddedMessage(c).ok
  BY <1>1, <1>2 DEF JettonGasAddedMessage, Returned, Failed
<1> QED
  BY <1>0, <1>6, <1>7, <1>8

\* A load of coins that succeeds has passed the length and as many bytes as it says.
LEMMA CoinsTake ==
    ASSUME NEW bits \in Seq(0..1), NEW at \in Nat
    PROVE  \/ load_coins(bits, at) = Failed
           \/ /\ at + 4 <= Len(bits) /\ Nibble(bits, at) \in Nat
              /\ \E v : load_coins(bits, at) = Loaded(at + 4 + 8 * Nibble(bits, at), v)
<1>1. Len(bits) \in Nat
  OBVIOUS
<1>2. CASE at + 4 > Len(bits)
  BY <1>2 DEF load_coins
<1>3. CASE ~(at + 4 > Len(bits))
  <2>1. at + 4 <= Len(bits)
    BY <1>1, <1>3
  <2>2. at + 1 \in 1..Len(bits) /\ at + 2 \in 1..Len(bits) /\ at + 3 \in 1..Len(bits)
        /\ at + 4 \in 1..Len(bits)
    BY <1>1, <2>1
  <2>3. bits[at + 1] \in 0..1 /\ bits[at + 2] \in 0..1 /\ bits[at + 3] \in 0..1
        /\ bits[at + 4] \in 0..1
    BY <2>2, Elements
  <2>4. Nibble(bits, at) \in Nat
    <3>1. ASSUME NEW b1 \in 0..1, NEW b2 \in 0..1, NEW b3 \in 0..1, NEW b4 \in 0..1
          PROVE  8 * b1 + 4 * b2 + 2 * b3 + b4 \in Nat
      OBVIOUS
    <3> QED
      BY <2>3, <3>1 DEF Nibble
  <2>5. load_coins(bits, at) = load_bits(bits, at + 4, 8 * Nibble(bits, at))
    BY <1>3 DEF load_coins
  <2> QED
    BY <2>1, <2>4, <2>5 DEF load_bits
<1> QED
  BY <1>2, <1>3

\* What two bits make of an address.
LEMMA AddressTake ==
    ASSUME NEW bits \in Seq(0..1), NEW at \in Nat, at + 2 <= Len(bits)
    PROVE  \/ load_address(bits, at) = Failed
           \/ /\ bits[at + 1] = 0 /\ bits[at + 2] = 0
              /\ load_address(bits, at) = Loaded(at + 2, NullAddress)
           \/ \E v : load_address(bits, at) = Loaded(at + 267, v)
<1> DEFINE tag == SubSeq(bits, at + 1, at + 2)
<1>1. ~(at + 2 > Len(bits))
  OBVIOUS
<1>2. tag \in Seq(0..1) /\ Len(tag) = 2 /\ \A j \in 1..2 : tag[j] = bits[at + j]
  BY PartOf
<1>3. load_address(bits, at) = CASE tag = <<0, 0>> -> Loaded(at + 2, NullAddress)
                                 [] tag = <<1, 0>> -> load_bits(bits, at + 3, 264)
                                 [] OTHER -> Failed
  BY <1>1 DEF load_address
<1> HIDE DEF tag
<1>4. CASE tag = <<0, 0>>
  BY <1>2, <1>3, <1>4
<1>5. CASE tag = <<1, 0>>
  <2>1. tag # <<0, 0>>
    BY <1>5
  <2>2. load_address(bits, at) = load_bits(bits, at + 3, 264)
    BY <1>3, <1>5, <2>1
  <2>3. (at + 3) + 264 = at + 267
    OBVIOUS
  <2> QED
    BY <2>2, <2>3 DEF load_bits
<1>6. CASE tag # <<0, 0>> /\ tag # <<1, 0>>
  BY <1>3, <1>6
<1> QED
  BY <1>4, <1>5, <1>6

\* The length of an amount that starts with two zeros, and the four bits from the third on.
LEMMA ShiftedLength ==
    ASSUME NEW n \in 0..15, NEW x \in 0..1, NEW y \in 0..1,
           (n \div 8) % 2 = 0, (n \div 4) % 2 = 0
    PROVE  8 * ((n \div 2) % 2) + 4 * (n % 2) + 2 * x + y >= 4 * n
<1>1. n = 8 * ((n \div 8) % 2) + 4 * ((n \div 4) % 2) + 2 * ((n \div 2) % 2) + (n % 2)
  BY NibbleOfBits
<1> QED
  BY <1>1

\* Reading a payment as an addition takes the length of the amount for an address: it is
\* none, or it reaches beyond the message, and then the next amount is too long.
LEMMA PaymentOverrun ==
    ASSUME NEW bits \in Seq(0..1), NEW minter \in AnyAddress, NEW amount \in AnyCoins,
           Len(bits) = Len(AddressBits(minter)) + Len(CoinsBits(amount)) + 256,
           Holds(bits, 0, AddressBits(minter)),
           Holds(bits, Len(AddressBits(minter)), CoinsBits(amount))
    PROVE  NoAddition(bits)
<1> DEFINE x == AddressBits(minter)
           y == CoinsBits(amount)
           A == Len(x)
           n == Len(amount)
           h == LengthBits(n)
<1>1. /\ x \in Seq(0..1) /\ y \in Seq(0..1)
      /\ n \in 0..15 /\ Len(y) = 4 + 8 * n /\ Holds(y, 0, h)
  BY AddressLength, CoinsParts
<1>2. bits \in Seq(0..1) /\ Holds(bits, 0, x) /\ Holds(bits, A, y)
  OBVIOUS
<1>3. A \in Nat /\ Len(bits) = A + 260 + 8 * n /\ n \in Nat /\ n <= 15
  <2>1. A \in Nat /\ n \in 0..15 /\ Len(y) = 4 + 8 * n /\ Len(bits) = A + Len(y) + 256
    BY <1>1
  <2> HIDE DEF A, n, y
  <2> QED
    BY <2>1
<1>4. /\ bits[A + 1] = (n \div 8) % 2 /\ bits[A + 2] = (n \div 4) % 2
      /\ bits[A + 3] = (n \div 2) % 2 /\ bits[A + 4] = n % 2
  <2>1. /\ h \in Seq(0..1) /\ Len(h) = 4
        /\ h[1] = (n \div 8) % 2 /\ h[2] = (n \div 4) % 2
        /\ h[3] = (n \div 2) % 2 /\ h[4] = n % 2
    BY <1>1, LengthBit
  <2>2. Holds(bits, A + 0, h)
    <3>1. /\ bits \in Seq(0..1) /\ y \in Seq(0..1) /\ h \in Seq(0..1) /\ A \in Nat
          /\ 0 \in Nat
          /\ Holds(bits, A, y) /\ Holds(y, 0, h)
      BY <1>1, <1>2, <1>3, <2>1
    <3> HIDE DEF y, h, A
    <3> QED
      BY <3>1, HoldsWithin
  <2>3. A + 0 = A
    BY <1>3
  <2> HIDE DEF h, A, n
  <2> QED
    BY <2>1, <2>2, <2>3 DEF Holds
<1>5. n \in 0..15 /\ bits \in Seq(0..1)
  BY <1>1, <1>2
<1>6. load_address(bits, 0) = Loaded(A, minter)
  <2>1. 0 \in Nat /\ bits \in Seq(0..1) /\ Holds(bits, 0, AddressBits(minter))
    BY <1>2
  <2>2. load_address(bits, 0) = Loaded(0 + A, minter)
    BY <2>1, LoadedAddress
  <2>3. 0 + A = A
    BY <1>3
  <2> QED
    BY <2>2, <2>3
<1> HIDE DEF x, y, h, A, n
<1> DEFINE Beyond(a) ==
             \/ load_coins(bits, a) = Failed
             \/ \E k, w : load_coins(bits, a) = Loaded(k, w) /\ load_bits(bits, k, 256)
                    = Failed
<1>7. ASSUME NEW a \in Nat,
             a + 4 <= Len(bits) /\ Nibble(bits, a) \in Nat
                => a + 4 + 8 * Nibble(bits, a) + 256 > Len(bits)
      PROVE  Beyond(a)
  <2>1. ASSUME a + 4 <= Len(bits), Nibble(bits, a) \in Nat,
               NEW w, load_coins(bits, a) = Loaded(a + 4 + 8 * Nibble(bits, a), w)
        PROVE  Beyond(a)
    <3> DEFINE k == a + 4 + 8 * Nibble(bits, a)
    <3>1. k + 256 > Len(bits)
      BY <1>7, <2>1
    <3>2. load_coins(bits, a) = Loaded(k, w)
      BY <2>1
    <3> HIDE DEF k
    <3>3. load_bits(bits, k, 256) = Failed
      BY <3>1 DEF load_bits
    <3> QED
      BY <3>2, <3>3
  <2>2. \/ load_coins(bits, a) = Failed
        \/ /\ a + 4 <= Len(bits) /\ Nibble(bits, a) \in Nat
           /\ \E v : load_coins(bits, a) = Loaded(a + 4 + 8 * Nibble(bits, a), v)
    BY <1>5, CoinsTake
  <2> QED
    BY <2>1, <2>2
<1>8. ASSUME bits[A + 1] = 0, bits[A + 2] = 0
      PROVE  Beyond(A + 2)
  <2>1. ASSUME (A + 2) + 4 <= Len(bits)
        PROVE  Nibble(bits, A + 2) >= 4 * n
    <3>1. A + 2 + 3 \in 1..Len(bits) /\ A + 2 + 4 \in 1..Len(bits)
      BY <1>3, <2>1
    <3>2. bits[A + 2 + 3] \in 0..1 /\ bits[A + 2 + 4] \in 0..1
      BY <1>5, <3>1, Elements
    <3>3. A + 2 + 1 = A + 3 /\ A + 2 + 2 = A + 4
      BY <1>3
    <3>4. Nibble(bits, A + 2) = 8 * ((n \div 2) % 2) + 4 * (n % 2)
                                  + 2 * bits[A + 2 + 3] + bits[A + 2 + 4]
      BY <1>4, <3>3 DEF Nibble
    <3>5. (n \div 8) % 2 = 0 /\ (n \div 4) % 2 = 0
      BY <1>4, <1>8
    <3> QED
      BY <1>5, <3>2, <3>4, <3>5, ShiftedLength, SMTT(30)
  <2>2. A + 2 \in Nat
    BY <1>3
  <2>3. (A + 2) + 4 <= Len(bits) /\ Nibble(bits, A + 2) \in Nat
          => (A + 2) + 4 + 8 * Nibble(bits, A + 2) + 256 > Len(bits)
    BY <1>3, <2>1
  <2> HIDE DEF Beyond
  <2> QED
    BY <1>7, <2>2, <2>3
<1>9. Beyond(A + 267)
  <2>1. A + 267 \in Nat
    BY <1>3
  <2>2. Nibble(bits, A + 267) \in Nat
          => (A + 267) + 4 + 8 * Nibble(bits, A + 267) + 256 > Len(bits)
    BY <1>3
  <2> HIDE DEF Beyond
  <2> QED
    BY <1>7, <2>1, <2>2
<1>10. \/ load_address(bits, A) = Failed
       \/ /\ bits[A + 1] = 0 /\ bits[A + 2] = 0
          /\ load_address(bits, A) = Loaded(A + 2, NullAddress)
       \/ \E v : load_address(bits, A) = Loaded(A + 267, v)
  <2>1. A + 2 <= Len(bits) /\ A \in Nat
    BY <1>3
  <2> QED
    BY <1>5, <2>1, AddressTake
<1>11. \/ load_address(bits, A) = Failed
       \/ \E a, v : load_address(bits, A) = Loaded(a, v) /\ Beyond(a)
  <2> HIDE DEF Beyond
  <2> QED
    BY <1>8, <1>9, <1>10
<1> QED
  BY <1>6, <1>11 DEF NoAddition

LEMMA NotAnAddition ==
    ASSUME NEW c, NEW minter \in AnyAddress, NEW amount \in AnyCoins,
               NEW hash \in Octets(32),
           c.bits = AddressBits(minter) \o CoinsBits(amount) \o Bits(hash)
    PROVE  ~JettonGasAddedMessage(c).ok
<1> DEFINE bits == c.bits
           x == AddressBits(minter)
           y == CoinsBits(amount)
           z == Bits(hash)
<1>1. x \in Seq(0..1) /\ y \in Seq(0..1) /\ z \in Seq(0..1) /\ Len(z) = 256
  <2>1. x \in Seq(0..1) /\ y \in Seq(0..1)
    BY AddressLength, CoinsParts
  <2>2. z \in Seq(0..1) /\ Len(z) = 8 * 32
    <3>1. 32 \in Nat
      OBVIOUS
    <3> QED
      BY <3>1, OctetsBits, ZenonT(30)
  <2>3. 8 * 32 = 256
    OBVIOUS
  <2> QED
    BY <2>1, <2>2, <2>3
<1>2. bits = x \o y \o z
  OBVIOUS
<1>3. /\ bits \in Seq(0..1) /\ Len(bits) = Len(x) + Len(y) + 256
      /\ Holds(bits, 0, x) /\ Holds(bits, Len(x), y)
  <2>1. x \in Seq(0..1) /\ y \in Seq(0..1) /\ z \in Seq(0..1)
    BY <1>1
  <2> HIDE DEF x, y, z, bits
  <2>2. /\ x \o y \o z \in Seq(0..1) /\ Len(x \o y \o z) = Len(x) + Len(y) + Len(z)
        /\ Holds(x \o y \o z, 0, x) /\ Holds(x \o y \o z, Len(x), y)
    BY <2>1, Parts3
  <2> QED
    BY <1>1, <1>2, <2>2
<1>4. NoAddition(bits)
  <2> HIDE DEF bits
  <2> QED
    BY <1>3, PaymentOverrun
<1> QED
  BY <1>4, AdditionFails

-----------------------------------------------------------------------------
(* Cells that TON accepts. *)

InBounds(c) == Len(c.bits) <= MAX_CELL_BITS /\ Len(c.refs) <= MAX_CELL_REFERENCES

\* The cells of S are within bounds, and so is whatever they refer to.
Closed(S) == \A c \in S : InBounds(c) /\ ToSet(c.refs) \subseteq S

Acceptable(c) == \E S : Closed(S) /\ c \in S

\* The cells at each depth below a cell.
Levels(c, n, f) ==
    /\ DOMAIN f = 0..n
    /\ f[0] = {c}
    /\ \A k \in 1..n : f[k] = UNION {ToSet(d.refs) : d \in f[k - 1]}

LEMMA LevelsExist ==
    ASSUME NEW c, NEW n \in Nat
    PROVE  \E f : Levels(c, n, f)
<1> DEFINE T == {m \in Nat : ~\E f : Levels(c, m, f)}
<1>1. ASSUME T # {}
      PROVE  FALSE
  <2>1. T \in SUBSET Nat
    OBVIOUS
  <2>2. PICK k \in T : \A j \in T : k <= j
    <3> HIDE DEF T
    <3> QED
      BY <1>1, <2>1, LeastElement
  <2>3. k \in Nat /\ ~\E f : Levels(c, k, f)
    BY <2>2
  <2>4. k # 0
    <3> DEFINE f == [i \in 0..0 |-> {c}]
    <3>1. Levels(c, 0, f)
      BY DEF Levels
    <3> QED
      BY <2>3, <3>1
  <2>5. k - 1 \in Nat /\ ~(k <= k - 1)
    BY <2>3, <2>4
  <2>6. PICK f : Levels(c, k - 1, f)
    BY <2>2, <2>5
  <2> DEFINE below == UNION {ToSet(d.refs) : d \in f[k - 1]}
             g == [i \in 0..k |-> IF i = k THEN below ELSE f[i]]
  <2>7. Levels(c, k, g)
    <3>1. \A i \in 0..(k - 1) : g[i] = f[i]
      BY <2>5
    <3>2. g[0] = {c}
      BY <2>5, <2>6, <3>1 DEF Levels
    <3>3. ASSUME NEW i \in 1..k
          PROVE  g[i] = UNION {ToSet(d.refs) : d \in g[i - 1]}
      <4>1. i - 1 \in 0..(k - 1) /\ g[i - 1] = f[i - 1]
        BY <2>5, <3>1
      <4>2. CASE i = k
        <5>1. k \in 0..k /\ g[k] = below
          BY <2>3
        <5> HIDE DEF g
        <5> QED
          BY <4>1, <4>2, <5>1
      <4>3. CASE i # k
        <5>1. i \in 1..(k - 1) /\ g[i] = f[i]
          BY <2>5, <3>1, <4>3
        <5> QED
          BY <2>6, <4>1, <5>1 DEF Levels
      <4> QED
        BY <4>2, <4>3
    <3>4. DOMAIN g = 0..k
      OBVIOUS
    <3> QED
      BY <3>2, <3>3, <3>4 DEF Levels
  <2> QED
    BY <2>3, <2>7
<1> QED
  BY <1>1

\* A cell of a closed set fits, however far down one looks.
LEMMA AcceptableFits ==
    ASSUME NEW c, Acceptable(c), NEW n \in Nat
    PROVE  Fits(c, n)
<1> DEFINE Eq(h) == h = [k \in 0..n |->
                          IF k = 0 THEN {c} ELSE UNION {ToSet(d.refs) : d \in h[k - 1]}]
           level == CHOOSE h : Eq(h)
<1>1. PICK f : Levels(c, n, f)
  BY LevelsExist
<1> DEFINE e == [k \in 0..n |-> f[k]]
<1>2. Eq(e)
  <2> SUFFICES ASSUME NEW k \in 0..n
               PROVE  f[k] = IF k = 0 THEN {c} ELSE UNION {ToSet(d.refs) : d \in e[k - 1]}
    OBVIOUS
  <2>1. k # 0 => k \in 1..n /\ k - 1 \in 0..n /\ e[k - 1] = f[k - 1]
    OBVIOUS
  <2> QED
    BY <1>1, <2>1 DEF Levels
<1>3. Eq(level)
  <2> HIDE DEF Eq, e
  <2> QED
    BY <1>2
<1>4. Fits(c, n) = \A k \in 0..n : \A d \in level[k] : InBounds(d)
  BY DEF Fits, InBounds
<1> HIDE DEF level
<1>5. /\ level[0] = {c}
      /\ \A k \in 1..n : level[k] = UNION {ToSet(d.refs) : d \in level[k - 1]}
  <2>1. level[0] = {c}
    BY <1>3
  <2>2. ASSUME NEW k \in 1..n
        PROVE  level[k] = UNION {ToSet(d.refs) : d \in level[k - 1]}
    <3>1. k \in 0..n /\ k # 0
      OBVIOUS
    <3> QED
      BY <1>3, <3>1
  <2> QED
    BY <2>1, <2>2
<1>6. PICK S : Closed(S) /\ c \in S
  BY DEF Acceptable
<1> DEFINE T == {k \in 0..n : ~(level[k] \subseteq S)}
<1>7. T = {}
  <2> SUFFICES ASSUME T # {}
               PROVE  FALSE
    OBVIOUS
  <2>1. T \in SUBSET Nat
    OBVIOUS
  <2>2. PICK k \in T : \A j \in T : k <= j
    <3> HIDE DEF T
    <3> QED
      BY <2>1, LeastElement
  <2>3. k \in 1..n /\ k - 1 \in 0..n /\ ~(k <= k - 1)
    BY <1>5, <1>6, <2>2
  <2>4. level[k - 1] \subseteq S
    BY <2>2, <2>3
  <2>5. level[k] \subseteq S
    BY <1>5, <1>6, <2>3, <2>4 DEF Closed
  <2> QED
    BY <2>2, <2>5
<1>8. \A k \in 0..n : level[k] \subseteq S
  BY <1>7
<1> QED
  BY <1>4, <1>6, <1>8 DEF Closed

\* A string of at most n bits.
Takes(bits, n) == bits \in BitStrings /\ Len(bits) <= n

LEMMA TakesTogether ==
    ASSUME NEW x, NEW y, NEW m \in Nat, NEW n \in Nat, Takes(x, m), Takes(y, n)
    PROVE  Takes(x \o y, m + n)
BY DEF Takes, BitStrings

\* A cell whose references are acceptable is so, if it is within bounds.
LEMMA AcceptableCell ==
    ASSUME NEW bits, NEW refs, Len(bits) <= MAX_CELL_BITS, Len(refs) <= MAX_CELL_REFERENCES,
           \A c \in ToSet(refs) : Acceptable(c)
    PROVE  Acceptable(Cell(bits, refs))
<1> DEFINE R == ToSet(refs)
           Around(c) == CHOOSE S : Closed(S) /\ c \in S
           S == {Cell(bits, refs)} \cup UNION {Around(c) : c \in R}
<1>1. \A c \in R : Closed(Around(c)) /\ c \in Around(c)
  BY DEF Acceptable
<1>2. Cell(bits, refs).bits = bits /\ Cell(bits, refs).refs = refs
  BY DEF Cell
<1> HIDE DEF Around
<1>3. R \subseteq S
  BY <1>1
<1>4. ASSUME NEW d \in S
      PROVE  InBounds(d) /\ ToSet(d.refs) \subseteq S
  <2>1. CASE d = Cell(bits, refs)
    BY <1>2, <1>3, <2>1 DEF InBounds
  <2>2. CASE d # Cell(bits, refs)
    <3>1. PICK c \in R : d \in Around(c)
      BY <2>2
    <3>2. InBounds(d) /\ ToSet(d.refs) \subseteq Around(c)
      BY <1>1, <3>1 DEF Closed
    <3> QED
      BY <3>2
  <2> QED
    BY <2>1, <2>2
<1>5. Closed(S)
  BY <1>4 DEF Closed
<1>6. Cell(bits, refs) \in S
  OBVIOUS
<1> QED
  BY <1>5, <1>6 DEF Acceptable

\* A cell without references, or with up to four.
LEMMA AcceptableTuples ==
    ASSUME NEW bits, Takes(bits, 1023)
    PROVE  /\ Acceptable(Cell(bits, <<>>))
           /\ \A a : Acceptable(a) => Acceptable(Cell(bits, <<a>>))
           /\ \A a, b : Acceptable(a) /\ Acceptable(b) => Acceptable(Cell(bits, <<a, b>>))
           /\ \A a, b, c : Acceptable(a) /\ Acceptable(b) /\ Acceptable(c)
                              => Acceptable(Cell(bits, <<a, b, c>>))
           /\ \A a, b, c, d :
                 Acceptable(a) /\ Acceptable(b) /\ Acceptable(c) /\ Acceptable(d)
                    => Acceptable(Cell(bits, <<a, b, c, d>>))
<1>1. Len(bits) <= MAX_CELL_BITS
  BY DEF Takes, MAX_CELL_BITS
<1>2. Acceptable(Cell(bits, <<>>))
  <2>1. Len(<<>>) <= MAX_CELL_REFERENCES /\ ToSet(<<>>) = {}
    BY DEF MAX_CELL_REFERENCES, ToSet
  <2> QED
    BY <1>1, <2>1, AcceptableCell
<1>3. ASSUME NEW a, Acceptable(a)
      PROVE  Acceptable(Cell(bits, <<a>>))
  <2>1. Len(<<a>>) <= MAX_CELL_REFERENCES /\ ToSet(<<a>>) = {a}
    BY DEF MAX_CELL_REFERENCES, ToSet
  <2> QED
    BY <1>1, <1>3, <2>1, AcceptableCell
<1>4. ASSUME NEW a, NEW b, Acceptable(a), Acceptable(b)
      PROVE  Acceptable(Cell(bits, <<a, b>>))
  <2>1. Len(<<a, b>>) <= MAX_CELL_REFERENCES /\ ToSet(<<a, b>>) = {a, b}
    BY DEF MAX_CELL_REFERENCES, ToSet
  <2> QED
    BY <1>1, <1>4, <2>1, AcceptableCell
<1>5. ASSUME NEW a, NEW b, NEW c, Acceptable(a), Acceptable(b), Acceptable(c)
      PROVE  Acceptable(Cell(bits, <<a, b, c>>))
  <2>1. Len(<<a, b, c>>) <= MAX_CELL_REFERENCES /\ ToSet(<<a, b, c>>) = {a, b, c}
    BY DEF MAX_CELL_REFERENCES, ToSet
  <2> QED
    BY <1>1, <1>5, <2>1, AcceptableCell
<1>6. ASSUME NEW a, NEW b, NEW c, NEW d,
             Acceptable(a), Acceptable(b), Acceptable(c), Acceptable(d)
      PROVE  Acceptable(Cell(bits, <<a, b, c, d>>))
  <2>1. Len(<<a, b, c, d>>) <= MAX_CELL_REFERENCES /\ ToSet(<<a, b, c, d>>) = {a, b, c, d}
    BY DEF MAX_CELL_REFERENCES, ToSet
  <2> QED
    BY <1>1, <1>6, <2>1, AcceptableCell
<1> QED
  BY <1>2, <1>3, <1>4, <1>5, <1>6

\* What the values of fields take.
LEMMA TakesValues ==
    /\ \A w \in AnyWord : Takes(Bits(w), 256)
    /\ \A a \in AnyAddress : Takes(AddressBits(a), 267)
    /\ \A v \in AnyCoins : Takes(CoinsBits(v), 124)
    /\ \A o \in Octets(4) : Takes(Bits(o), 32)
    /\ \A o \in Octets(1) : Takes(Bits(o), 8)
    /\ Takes(<<>>, 0)
<1>1. ASSUME NEW w \in AnyWord
      PROVE  Takes(Bits(w), 256)
  <2>1. Bits(w) \in Seq(0..1) /\ Len(Bits(w)) = 256
    BY WordBits
  <2> QED
    BY <2>1 DEF Takes, BitStrings
<1>2. ASSUME NEW a \in AnyAddress
      PROVE  Takes(AddressBits(a), 267)
  <2>1. AddressBits(a) \in BitStrings
    BY AddressLength DEF BitStrings
  <2>2. PICK n \in {2, 267} : n = Len(AddressBits(a))
    BY AddressLength
  <2>3. n <= 267
    OBVIOUS
  <2> QED
    BY <2>1, <2>2, <2>3 DEF Takes
<1>3. ASSUME NEW v \in AnyCoins
      PROVE  Takes(CoinsBits(v), 124)
  <2>1. CoinsBits(v) \in BitStrings
    BY CoinsParts DEF BitStrings
  <2>2. PICK n \in 0..15 : Len(CoinsBits(v)) = 4 + 8 * n
    BY CoinsParts
  <2>3. 4 + 8 * n <= 124
    OBVIOUS
  <2> QED
    BY <2>1, <2>2, <2>3 DEF Takes
<1>4. ASSUME NEW o \in Octets(4)
      PROVE  Takes(Bits(o), 32)
  BY 4 \in Nat, OctetsBits DEF Takes, BitStrings
<1>5. ASSUME NEW o \in Octets(1)
      PROVE  Takes(Bits(o), 8)
  BY 1 \in Nat, OctetsBits DEF Takes, BitStrings
<1>6. Takes(<<>>, 0)
  BY DEF Takes, BitStrings
<1> QED
  BY <1>1, <1>2, <1>3, <1>4, <1>5, <1>6

LEMMA TakesOne ==
    ASSUME NEW x, NEW k \in Nat, Takes(x, k), k <= 1023
    PROVE  Takes(x, 1023)
BY DEF Takes, BitStrings

LEMMA TakesTwo ==
    ASSUME NEW x, NEW y, NEW k \in Nat, NEW l \in Nat,
           Takes(x, k), Takes(y, l), k + l <= 1023
    PROVE  Takes(Joined2(x, y), 1023)
BY TakesTogether, TakesOne DEF Joined2

LEMMA TakesThree ==
    ASSUME NEW x, NEW y, NEW z, NEW k \in Nat, NEW l \in Nat, NEW m \in Nat,
           Takes(x, k), Takes(y, l), Takes(z, m), k + l + m <= 1023
    PROVE  Takes(Joined3(x, y, z), 1023)
<1>1. Takes(x \o y, k + l) /\ k + l \in Nat
  BY TakesTogether
<1>2. Takes((x \o y) \o z, (k + l) + m) /\ (k + l) + m \in Nat
  BY <1>1, TakesTogether
<1> QED
  BY <1>2, TakesOne DEF Joined3

LEMMA TakesFour ==
    ASSUME NEW x, NEW y, NEW z, NEW w, NEW k \in Nat, NEW l \in Nat, NEW m \in Nat,
           NEW n \in Nat, Takes(x, k), Takes(y, l), Takes(z, m), Takes(w, n),
           k + l + m + n <= 1023
    PROVE  Takes(Joined4(x, y, z, w), 1023)
<1>1. Takes(x \o y, k + l) /\ k + l \in Nat
  BY TakesTogether
<1>2. Takes((x \o y) \o z, (k + l) + m) /\ (k + l) + m \in Nat
  BY <1>1, TakesTogether
<1>3. Takes(((x \o y) \o z) \o w, ((k + l) + m) + n) /\ ((k + l) + m) + n \in Nat
  BY <1>2, TakesTogether
<1> QED
  BY <1>3, TakesOne DEF Joined4

\* The cells of a string's chain are a closed set: 96 bytes take 768 bits.
LEMMA AcceptableString ==
    ASSUME NEW b \in AnyBuffer
    PROVE  Acceptable(buffer_to_cell(b))
<1>1. b \in Seq(0..255)
  BY DEF AnyBuffer
<1>2. PICK f : Chained(b, f, 0) /\ buffer_to_cell(b) = f[0]
  BY <1>1, ChainOfBuffer
<1> DEFINE S == {f[start] : start \in 0..Len(b)}
<1>3. ASSUME NEW start \in 0..Len(b)
      PROVE  InBounds(f[start]) /\ ToSet(f[start].refs) \subseteq S
  <2> DEFINE end == End(b, start)
             x == SubSeq(b, start + 1, end)
  <2>1. f[start] = Cell(Bits(x), IF end < Len(b) THEN <<f[end]>> ELSE <<>>)
    BY <1>2 DEF Chained, LinkOf
  <2>2. end \in 0..Len(b) /\ start <= end /\ end - start <= 96
    BY <1>1, Ends
  <2> HIDE DEF end
  <2>3. x \in Seq(0..255) /\ Len(x) \in Nat /\ Len(x) <= 96
    <3>1. PICK n \in Nat : n = end - start /\ end = start + n /\ start + n <= Len(b)
      BY <1>1, <2>2
    <3>2. start \in Nat /\ n <= 96
      BY <1>1, <2>2, <3>1
    <3>3. /\ SubSeq(b, start + 1, start + n) \in Seq(0..255)
          /\ Len(SubSeq(b, start + 1, start + n)) = n
      BY <1>1, <3>1, <3>2, PartOfBytes, ZenonT(30)
    <3> QED
      BY <3>1, <3>2, <3>3
  <2> HIDE DEF x
  <2>4. Len(Bits(x)) <= 768
    <3>1. Len(Bits(x)) = 8 * Len(x)
      BY <2>3 DEF Bits
    <3> QED
      BY <2>3, <3>1
  <2>5. CASE end < Len(b)
    <3>1. f[start] = Cell(Bits(x), <<f[end]>>)
      BY <2>1, <2>5
    <3>2. Len(<<f[end]>>) <= 4 /\ ToSet(<<f[end]>>) = {f[end]}
      BY DEF ToSet
    <3>3. f[end] \in S
      BY <2>2
    <3> HIDE DEF S
    <3> QED
      BY <2>4, <3>1, <3>2, <3>3 DEF InBounds, Cell, MAX_CELL_BITS, MAX_CELL_REFERENCES
  <2>6. CASE ~(end < Len(b))
    <3>1. f[start] = Cell(Bits(x), <<>>)
      BY <2>1, <2>6
    <3>2. Len(<<>>) <= 4 /\ ToSet(<<>>) = {}
      BY DEF ToSet
    <3> QED
      BY <2>4, <3>1, <3>2 DEF InBounds, Cell, MAX_CELL_BITS, MAX_CELL_REFERENCES
  <2> QED
    BY <2>5, <2>6
<1>4. f[0] \in S
  BY <1>1
<1>5. Closed(S)
  BY <1>3 DEF Closed
<1> QED
  BY <1>2, <1>4, <1>5 DEF Acceptable

\* Texts are strings.
LEMMA AcceptableText ==
    ASSUME NEW b \in AnyText
    PROVE  Acceptable(buffer_to_cell(b))
BY TextKept, AcceptableString

LEMMA AcceptableEmpty == Acceptable(EmptyCell)
BY TakesValues, TakesOne, AcceptableTuples DEF EmptyCell

LEMMA AcceptableAddress ==
    ASSUME NEW a \in AnyAddress
    PROVE  Acceptable(Cell(AddressBits(a), <<>>))
<1>1. Takes(AddressBits(a), 1023)
  BY TakesValues, TakesOne
<1> QED
  BY <1>1, AcceptableTuples

LEMMA AcceptableHash ==
    ASSUME NEW a \in AnyAddress
    PROVE  Acceptable(Cell(Bits(HashPart(a)), <<>>))
<1>1. Takes(Bits(HashPart(a)), 1023)
  BY HashParts, TakesValues, TakesOne
<1> QED
  BY <1>1, AcceptableTuples

\* What the contracts log.
LEMMA FitsCallContract ==
    ASSUME NEW m \in LogsOf("CallContract")
    PROVE  Acceptable(LogCell(m))
<1>1. /\ m.kind = "CallContract" /\ m.source_address \in AnyAddress
      /\ m.payload_hash \in AnyWord /\ m.destination_chain \in AnyText
      /\ m.destination_address \in AnyText /\ m.payload \in AnyBuffer
  BY DEF LogsOf
<1> DEFINE bits == Joined2(AddressBits(m.source_address), Bits(m.payload_hash))
<1>2. LogCell(m) = Cell(bits, <<buffer_to_cell(m.destination_chain),
            buffer_to_cell(m.destination_address), buffer_to_cell(m.payload)>>)
  BY <1>1 DEF LogCell, Joined2
<1>3. Takes(bits, 1023)
  <2>1. Takes(AddressBits(m.source_address), 267) /\ Takes(Bits(m.payload_hash), 256)
    BY <1>1, TakesValues
  <2>2. 267 + 256 <= 1023
    OBVIOUS
  <2> QED
    BY <2>1, <2>2, TakesTwo
<1> HIDE DEF bits
<1>4. /\ Acceptable(buffer_to_cell(m.destination_chain))
      /\ Acceptable(buffer_to_cell(m.destination_address))
      /\ Acceptable(buffer_to_cell(m.payload))
  BY <1>1, AcceptableText, AcceptableString
<1> QED
  BY <1>2, <1>3, <1>4, AcceptableTuples

LEMMA FitsNativeGasPaid ==
    ASSUME NEW m \in LogsOf("NativeGasPaid")
    PROVE  Acceptable(LogCell(m))
<1>1. /\ m.kind = "NativeGasPaid" /\ m.sender \in AnyAddress
      /\ m.payload_hash \in AnyWord /\ m.msg_value \in AnyWord
      /\ m.refund_address \in AnyAddress /\ m.destination_chain \in AnyText
      /\ m.destination_address \in AnyText
  BY DEF LogsOf
<1> DEFINE bits == Joined3(AddressBits(m.sender), Bits(m.payload_hash), Bits(m.msg_value))
<1>2. LogCell(m) = Cell(bits, <<Cell(AddressBits(m.refund_address), <<>>),
            buffer_to_cell(m.destination_chain), buffer_to_cell(m.destination_address)>>)
  BY <1>1 DEF LogCell, Joined3
<1>3. Takes(bits, 1023)
  <2>1. /\ Takes(AddressBits(m.sender), 267) /\ Takes(Bits(m.payload_hash), 256)
        /\ Takes(Bits(m.msg_value), 256)
    BY <1>1, TakesValues
  <2>2. 267 + 256 + 256 <= 1023
    OBVIOUS
  <2> QED
    BY <2>1, <2>2, TakesThree
<1> HIDE DEF bits
<1>4. /\ Acceptable(Cell(AddressBits(m.refund_address), <<>>))
      /\ Acceptable(buffer_to_cell(m.destination_chain))
      /\ Acceptable(buffer_to_cell(m.destination_address))
  BY <1>1, AcceptableText, AcceptableAddress
<1> QED
  BY <1>2, <1>3, <1>4, AcceptableTuples

LEMMA FitsNativeGasAdded ==
    ASSUME NEW m \in LogsOf("NativeGasAdded")
    PROVE  Acceptable(LogCell(m))
<1>1. /\ m.kind = "NativeGasAdded" /\ m.tx_hash \in AnyWord
      /\ m.refund_address \in AnyAddress /\ m.msg_value \in AnyWord
  BY DEF LogsOf
<1> DEFINE bits == Joined3(Bits(m.tx_hash), AddressBits(m.refund_address),
                           Bits(m.msg_value))
<1>2. LogCell(m) = Cell(bits, <<>>)
  BY <1>1 DEF LogCell, Joined3
<1>3. Takes(bits, 1023)
  <2>1. /\ Takes(Bits(m.tx_hash), 256) /\ Takes(AddressBits(m.refund_address), 267)
        /\ Takes(Bits(m.msg_value), 256)
    BY <1>1, TakesValues
  <2>2. 256 + 267 + 256 <= 1023
    OBVIOUS
  <2> QED
    BY <2>1, <2>2, TakesThree
<1> HIDE DEF bits
<1> QED
  BY <1>2, <1>3, AcceptableTuples

LEMMA FitsJettonGasPaid ==
    ASSUME NEW m \in LogsOf("JettonGasPaid")
    PROVE  Acceptable(LogCell(m))
<1>1. /\ m.kind = "JettonGasPaid" /\ m.minter \in AnyAddress /\ m.amount \in AnyCoins
      /\ m.payload_hash \in AnyWord /\ m.refund_address \in AnyAddress
      /\ m.destination_chain \in AnyText /\ m.destination_address \in AnyText
  BY DEF LogsOf
<1> DEFINE bits == Joined3(AddressBits(m.minter), CoinsBits(m.amount),
                           Bits(m.payload_hash))
<1>2. LogCell(m) = Cell(bits, <<Cell(AddressBits(m.refund_address), <<>>),
            buffer_to_cell(m.destination_chain), buffer_to_cell(m.destination_address)>>)
  BY <1>1 DEF LogCell, Joined3
<1>3. Takes(bits, 1023)
  <2>1. /\ Takes(AddressBits(m.minter), 267) /\ Takes(CoinsBits(m.amount), 124)
        /\ Takes(Bits(m.payload_hash), 256)
    BY <1>1, TakesValues
  <2>2. 267 + 124 + 256 <= 1023
    OBVIOUS
  <2> QED
    BY <2>1, <2>2, TakesThree
<1> HIDE DEF bits
<1>4. /\ Acceptable(Cell(AddressBits(m.refund_address), <<>>))
      /\ Acceptable(buffer_to_cell(m.destination_chain))
      /\ Acceptable(buffer_to_cell(m.destination_address))
  BY <1>1, AcceptableText, AcceptableAddress
<1> QED
  BY <1>2, <1>3, <1>4, AcceptableTuples

LEMMA FitsJettonGasAdded ==
    ASSUME NEW m \in LogsOf("JettonGasAdded")
    PROVE  Acceptable(LogCell(m))
<1>1. /\ m.kind = "JettonGasAdded" /\ m.minter \in AnyAddress /\ m.sender \in AnyAddress
      /\ m.amount \in AnyCoins /\ m.tx_hash \in AnyWord
      /\ m.refund_address \in AnyAddress
  BY DEF LogsOf
<1> DEFINE bits == Joined4(AddressBits(m.minter), AddressBits(m.sender),
                           CoinsBits(m.amount), Bits(m.tx_hash))
<1>2. LogCell(m) = Cell(bits, <<Cell(AddressBits(m.refund_address), <<>>)>>)
  BY <1>1 DEF LogCell, Joined4
<1>3. Takes(bits, 1023)
  <2>1. /\ Takes(AddressBits(m.minter), 267) /\ Takes(AddressBits(m.sender), 267)
        /\ Takes(CoinsBits(m.amount), 124) /\ Takes(Bits(m.tx_hash), 256)
    BY <1>1, TakesValues
  <2>2. 267 + 267 + 124 + 256 <= 1023
    OBVIOUS
  <2> QED
    BY <2>1, <2>2, TakesFour
<1> HIDE DEF bits
<1>4. Acceptable(Cell(AddressBits(m.refund_address), <<>>))
  BY <1>1, AcceptableAddress
<1> QED
  BY <1>2, <1>3, <1>4, AcceptableTuples

LEMMA FitsMessageApproved ==
    ASSUME NEW m \in LogsOf("MessageApproved")
    PROVE  Acceptable(LogCell(m))
<1>1. /\ m.kind = "MessageApproved" /\ m.message_id \in AnyText
      /\ m.source_chain \in AnyText /\ m.source_address \in AnyText
      /\ m.payload_hash \in AnyWord /\ m.destination_address \in AnyAddress
      /\ m.destination_chain \in AnyText
  BY DEF LogsOf, AnyContract
<1> DEFINE y == Bits(m.payload_hash)
           x == Cell(y, <<buffer_to_cell(HashPart(m.destination_address)),
                          buffer_to_cell(m.destination_chain)>>)
<1> DEFINE bits == <<>>
<1>2. LogCell(m) = Cell(bits, <<buffer_to_cell(m.message_id),
            buffer_to_cell(m.source_chain), buffer_to_cell(m.source_address), x>>)
  BY <1>1 DEF LogCell
<1>3. Takes(bits, 1023)
  BY TakesValues, TakesOne
<1> HIDE DEF bits, x
<1>4. /\ Acceptable(buffer_to_cell(m.message_id))
      /\ Acceptable(buffer_to_cell(m.source_chain))
      /\ Acceptable(buffer_to_cell(m.source_address)) /\ Acceptable(x)
  <2>1. Takes(y, 1023)
    BY <1>1, TakesValues, TakesOne
  <2> HIDE DEF y
  <2>2. /\ Acceptable(buffer_to_cell(HashPart(m.destination_address)))
        /\ Acceptable(buffer_to_cell(m.destination_chain))
    BY <1>1, HashParts, AcceptableString, AcceptableText
  <2>3. Acceptable(x)
    BY <2>1, <2>2, AcceptableTuples DEF x
  <2> QED
    BY <1>1, <2>3, AcceptableText
<1> QED
  BY <1>2, <1>3, <1>4, AcceptableTuples

LEMMA FitsSignersRotated ==
    ASSUME NEW m \in LogsOf("SignersRotated")
    PROVE  Acceptable(LogCell(m))
<1>1. m.kind = "SignersRotated" /\ m.signers_hash \in AnyWord /\ m.epoch \in AnyWord
  BY DEF LogsOf
<1> DEFINE bits == Joined3(Bits(OP_SIGNERS_ROTATED_LOG), Bits(m.signers_hash),
                           Bits(m.epoch))
<1>2. LogCell(m) = Cell(bits, <<EmptyCell>>)
  BY <1>1 DEF LogCell, Joined3
<1>3. Takes(bits, 1023)
  <2>1. /\ Takes(Bits(OP_SIGNERS_ROTATED_LOG), 32) /\ Takes(Bits(m.signers_hash), 256)
        /\ Takes(Bits(m.epoch), 256)
    BY <1>1, TakesValues, OpCodes
  <2>2. 32 + 256 + 256 <= 1023
    OBVIOUS
  <2> QED
    BY <2>1, <2>2, TakesThree
<1> HIDE DEF bits
<1>4. Acceptable(EmptyCell)
  BY <1>1, AcceptableEmpty
<1> QED
  BY <1>2, <1>3, <1>4, AcceptableTuples

LEMMA FitsITSInterchainTokenDeploymentStarted ==
    ASSUME NEW m \in LogsOf("ITSInterchainTokenDeploymentStarted")
    PROVE  Acceptable(LogCell(m))
<1>1. /\ m.kind = "ITSInterchainTokenDeploymentStarted" /\ m.token_id \in AnyWord
      /\ m.decimals \in Octets(1) /\ m.token_name \in AnyText
      /\ m.token_symbol \in AnyText /\ m.destination_chain \in AnyText
  BY DEF LogsOf
<1> DEFINE bits == Joined3(Bits(OP_INTERCHAIN_TOKEN_DEPLOYMENT_STARTED_LOG),
                           Bits(m.token_id), Bits(m.decimals))
<1>2. LogCell(m) = Cell(bits, <<buffer_to_cell(m.token_name),
            buffer_to_cell(m.token_symbol), EmptyCell,
            buffer_to_cell(m.destination_chain)>>)
  BY <1>1 DEF LogCell, Joined3
<1>3. Takes(bits, 1023)
  <2>1. /\ Takes(Bits(OP_INTERCHAIN_TOKEN_DEPLOYMENT_STARTED_LOG), 32)
        /\ Takes(Bits(m.token_id), 256) /\ Takes(Bits(m.decimals), 8)
    BY <1>1, TakesValues, OpCodes
  <2>2. 32 + 256 + 8 <= 1023
    OBVIOUS
  <2> QED
    BY <2>1, <2>2, TakesThree
<1> HIDE DEF bits
<1>4. /\ Acceptable(buffer_to_cell(m.token_name))
      /\ Acceptable(buffer_to_cell(m.token_symbol)) /\ Acceptable(EmptyCell)
      /\ Acceptable(buffer_to_cell(m.destination_chain))
  BY <1>1, AcceptableText, AcceptableEmpty
<1> QED
  BY <1>2, <1>3, <1>4, AcceptableTuples

LEMMA FitsITSInterchainTransfer ==
    ASSUME NEW m \in LogsOf("ITSInterchainTransfer")
    PROVE  Acceptable(LogCell(m))
<1>1. /\ m.kind = "ITSInterchainTransfer" /\ m.token_id \in AnyWord
      /\ m.jetton_amount \in AnyWord /\ m.sender_address \in AnyContract
      /\ m.destination_chain \in AnyText /\ m.destination_address \in AnyBuffer
      /\ m.data \in AnyBuffer
  BY DEF LogsOf
<1> DEFINE bits == Joined3(Bits(OP_INTERCHAIN_TRANSFER_LOG), Bits(m.token_id),
                           Bits(m.jetton_amount))
<1>2. LogCell(m) = Cell(bits, <<Cell(Bits(HashPart(m.sender_address)), <<>>),
            buffer_to_cell(m.destination_chain), buffer_to_cell(m.destination_address),
            buffer_to_cell(m.data)>>)
  BY <1>1 DEF LogCell, Joined3
<1>3. Takes(bits, 1023)
  <2>1. /\ Takes(Bits(OP_INTERCHAIN_TRANSFER_LOG), 32) /\ Takes(Bits(m.token_id), 256)
        /\ Takes(Bits(m.jetton_amount), 256)
    BY <1>1, TakesValues, OpCodes
  <2>2. 32 + 256 + 256 <= 1023
    OBVIOUS
  <2> QED
    BY <2>1, <2>2, TakesThree
<1> HIDE DEF bits
<1>4. /\ Acceptable(Cell(Bits(HashPart(m.sender_address)), <<>>))
      /\ Acceptable(buffer_to_cell(m.destination_chain))
      /\ Acceptable(buffer_to_cell(m.destination_address))
      /\ Acceptable(buffer_to_cell(m.data))
  BY <1>1, AcceptableText, AcceptableString, AcceptableHash DEF AnyContract
<1> QED
  BY <1>2, <1>3, <1>4, AcceptableTuples

LEMMA FitsITSLinkTokenStarted ==
    ASSUME NEW m \in LogsOf("ITSLinkTokenStarted")
    PROVE  Acceptable(LogCell(m))
<1>1. /\ m.kind = "ITSLinkTokenStarted" /\ m.token_id \in AnyWord
      /\ m.token_manager_type \in Octets(1) /\ m.destination_chain \in AnyText
      /\ m.source_token_address \in AnyContract
      /\ m.destination_token_address \in AnyBuffer
  BY DEF LogsOf
<1> DEFINE bits == Joined3(Bits(OP_LINK_TOKEN_STARTED_LOG), Bits(m.token_id),
                           Bits(m.token_manager_type))
<1>2. LogCell(m) = Cell(bits, <<buffer_to_cell(m.destination_chain),
            Cell(Bits(HashPart(m.source_token_address)), <<>>),
            buffer_to_cell(m.destination_token_address)>>)
  BY <1>1 DEF LogCell, Joined3
<1>3. Takes(bits, 1023)
  <2>1. /\ Takes(Bits(OP_LINK_TOKEN_STARTED_LOG), 32) /\ Takes(Bits(m.token_id), 256)
        /\ Takes(Bits(m.token_manager_type), 8)
    BY <1>1, TakesValues, OpCodes
  <2>2. 32 + 256 + 8 <= 1023
    OBVIOUS
  <2> QED
    BY <2>1, <2>2, TakesThree
<1> HIDE DEF bits
<1>4. /\ Acceptable(buffer_to_cell(m.destination_chain))
      /\ Acceptable(Cell(Bits(HashPart(m.source_token_address)), <<>>))
      /\ Acceptable(buffer_to_cell(m.destination_token_address))
  BY <1>1, AcceptableText, AcceptableString, AcceptableHash DEF AnyContract
<1> QED
  BY <1>2, <1>3, <1>4, AcceptableTuples

LEMMA FitsITSTokenMetadataRegistered ==
    ASSUME NEW m \in LogsOf("ITSTokenMetadataRegistered")
    PROVE  Acceptable(LogCell(m))
<1>1. /\ m.kind = "ITSTokenMetadataRegistered" /\ m.address \in AnyAddress
      /\ m.decimals \in Octets(1)
  BY DEF LogsOf
<1> DEFINE bits == Joined3(Bits(OP_TOKEN_METADATA_REGISTERED_LOG),
                           AddressBits(m.address), Bits(m.decimals))
<1>2. LogCell(m) = Cell(bits, <<>>)
  BY <1>1 DEF LogCell, Joined3
<1>3. Takes(bits, 1023)
  <2>1. /\ Takes(Bits(OP_TOKEN_METADATA_REGISTERED_LOG), 32)
        /\ Takes(AddressBits(m.address), 267) /\ Takes(Bits(m.decimals), 8)
    BY <1>1, TakesValues, OpCodes
  <2>2. 32 + 267 + 8 <= 1023
    OBVIOUS
  <2> QED
    BY <2>1, <2>2, TakesThree
<1> HIDE DEF bits
<1> QED
  BY <1>2, <1>3, AcceptableTuples

\* Every log of a contract is acceptable.
LEMMA LogsAcceptable ==
    ASSUME NEW log \in Logs
    PROVE  Acceptable(LogCell(log))
<1>1. PICK k \in LogKinds : log \in LogsOf(k)
  BY LogsAssumption
<1> QED
  BY <1>1, FitsCallContract, FitsNativeGasPaid, FitsNativeGasAdded, FitsJettonGasPaid,
     FitsJettonGasAdded, FitsMessageApproved, FitsSignersRotated,
         FitsITSInterchainTokenDeploymentStarted, FitsITSInterchainTransfer,
             FitsITSLinkTokenStarted, FitsITSTokenMetadataRegistered DEF LogKinds

\* A refund, with its opcode gone.
LEMMA RefundAcceptable ==
    ASSUME NEW m \in Refunds
    PROVE  Acceptable(Refunded(NativeRefundMessage(m)))
<1> DEFINE bits == Joined3(Bits(m.tx_hash), AddressBits(m.address), CoinsBits(m.amount))
<1>1. /\ m.tx_hash \in AnyWord /\ m.address \in AnyAddress /\ m.amount \in AnyCoins
      /\ Refunded(NativeRefundMessage(m)) = Cell(bits, <<>>)
  BY RefundCell DEF Joined3
<1>2. /\ Takes(Bits(m.tx_hash), 256) /\ Takes(AddressBits(m.address), 267)
      /\ Takes(CoinsBits(m.amount), 124)
  BY <1>1, TakesValues
<1>3. 256 + 267 + 124 <= 1023
  OBVIOUS
<1>4. Takes(bits, 1023)
  BY <1>2, <1>3, TakesThree
<1> HIDE DEF bits
<1> QED
  BY <1>1, <1>4, AcceptableTuples

\* An approval of the prover, with up to four messages.
LEMMA ApprovalAcceptable ==
    ASSUME NEW m \in ApprovedMessages
    PROVE  Acceptable(Approved(m))
<1> DEFINE x == Cell(<<>>, <<buffer_to_cell(m.destination_address),
                             buffer_to_cell(m.destination_chain)>>)
<1>1. /\ m.payload_hash \in AnyWord /\ m.message_id \in AnyText
      /\ m.source_chain \in AnyText /\ m.source_address \in AnyText
      /\ m.destination_address \in AnyBuffer /\ m.destination_chain \in AnyText
  BY ApprovalTypes
<1>2. /\ Acceptable(buffer_to_cell(m.message_id))
      /\ Acceptable(buffer_to_cell(m.source_chain))
      /\ Acceptable(buffer_to_cell(m.source_address))
      /\ Acceptable(buffer_to_cell(m.destination_address))
      /\ Acceptable(buffer_to_cell(m.destination_chain))
  BY <1>1, AcceptableText, AcceptableString
<1>3. Takes(Bits(m.payload_hash), 1023) /\ Takes(<<>>, 1023)
  BY <1>1, TakesValues, TakesOne
<1>4. Acceptable(x)
  BY <1>2, <1>3, AcceptableTuples
<1>5. Approved(m) = Cell(Bits(m.payload_hash),
                         <<buffer_to_cell(m.message_id), buffer_to_cell(m.source_chain),
                           buffer_to_cell(m.source_address), x>>)
  BY DEF Approved, ApprovalCell
<1> HIDE DEF x
<1> QED
  BY <1>2, <1>3, <1>4, <1>5, AcceptableTuples

LEMMA ProofAcceptable ==
    ASSUME NEW proof \in Proofs
    PROVE  Acceptable(ProofCell(proof.messages))
<1> DEFINE messages == proof.messages
           refs == [i \in DOMAIN messages |-> Approved(messages[i])]
           dictionary == Cell(<<1>>, refs)
<1>1. /\ messages \in Seq(ApprovedMessages) /\ Len(messages) <= MAX_CELL_REFERENCES
      /\ \A i \in DOMAIN messages : messages[i] \in ApprovedMessages
  BY RelayerAssumption, ProofTypes
<1> HIDE DEF messages
<1>2. Len(refs) = Len(messages)
  BY <1>1
<1>3. ASSUME NEW c \in ToSet(refs)
      PROVE  Acceptable(c)
  <2>1. PICK i \in DOMAIN messages : c = Approved(messages[i])
    BY DEF ToSet
  <2> QED
    BY <1>1, <2>1, ApprovalAcceptable
<1>4. ProofCell(messages) = Cell(Bits(OP_APPROVE_MESSAGES), <<EmptyCell, dictionary>>)
  BY DEF ProofCell, Approved, ApprovalCell
<1> HIDE DEF refs
<1>5. Len(<<1>>) <= MAX_CELL_BITS
  BY DEF MAX_CELL_BITS
<1>6. Acceptable(dictionary)
  BY <1>1, <1>2, <1>3, <1>5, AcceptableCell
<1>7. Takes(Bits(OP_APPROVE_MESSAGES), 1023)
  BY OpCodes, TakesValues, TakesOne
<1> HIDE DEF dictionary
<1>8. Acceptable(Cell(Bits(OP_APPROVE_MESSAGES), <<EmptyCell, dictionary>>))
  BY <1>6, <1>7, AcceptableEmpty, AcceptableTuples
<1> QED
  BY <1>4, <1>8 DEF messages

\* An execution, as it is sent and as the gateway reports it.
LEMMA PayloadAcceptable ==
    ASSUME NEW m \in Executions
    PROVE  /\ Acceptable(buffer_to_cell(m.message_id))
           /\ Acceptable(buffer_to_cell(m.source_chain))
           /\ Acceptable(buffer_to_cell(m.source_address))
           /\ Acceptable(PayloadCell(m))
<1>1. /\ m.message_id \in AnyText /\ m.source_chain \in AnyText
      /\ m.source_address \in AnyText /\ m.destination_chain \in AnyText
      /\ m.payload \in AnyBuffer /\ m.payload_hash \in AnyWord
      /\ HashPart(m.destination_address) \in AnyBuffer
  BY ExecutionTypes
<1>2. /\ Acceptable(buffer_to_cell(m.message_id))
      /\ Acceptable(buffer_to_cell(m.source_chain))
      /\ Acceptable(buffer_to_cell(m.source_address))
      /\ Acceptable(buffer_to_cell(m.destination_chain))
      /\ Acceptable(buffer_to_cell(m.payload))
      /\ Acceptable(buffer_to_cell(HashPart(m.destination_address)))
  BY <1>1, AcceptableText, AcceptableString
<1>3. Takes(Bits(m.payload_hash), 1023)
  BY <1>1, TakesValues, TakesOne
<1>4. Acceptable(PayloadCell(m))
  BY <1>2, <1>3, AcceptableTuples DEF PayloadCell
<1> QED
  BY <1>2, <1>4

LEMMA NullifiedAcceptable ==
    ASSUME NEW request \in Requests
    PROVE  Acceptable(Nullified(Descend(internal_transfer_body(Wrapped(request)),
                                        <<1, 2, 1>>).cell))
<1> DEFINE m == Last(request.actions)
<1>1. m \in Executions
  BY LastAction
<1>2. Takes(Bits(OP_NULLIFIED_SUCCESSFULLY), 1023)
  BY OpCodes, TakesValues, TakesOne
<1> HIDE DEF m
<1>3. Acceptable(Cell(Bits(OP_NULLIFIED_SUCCESSFULLY),
                      <<buffer_to_cell(m.message_id), buffer_to_cell(m.source_chain),
                        buffer_to_cell(m.source_address), PayloadCell(m)>>))
  BY <1>1, <1>2, PayloadAcceptable, AcceptableTuples
<1> QED
  BY <1>3, NullifiedCell DEF m

Zeros(n) == [j \in 1..n |-> 0]

LEMMA TakesZeros ==
    ASSUME NEW n \in Nat
    PROVE  Takes(Zeros(n), n)
BY DEF Takes, BitStrings, Zeros

LEMMA ActionAcceptable ==
    ASSUME NEW m \in Executions
    PROVE  Acceptable(out_action(RelayerExecuteMessage(m)))
<1> DEFINE msg == Cell(<<>>, <<buffer_to_cell(m.message_id), buffer_to_cell(m.source_chain),
                               buffer_to_cell(m.source_address), PayloadCell(m)>>)
           bits == Joined2(Bits(OP_RELAYER_EXECUTE), AddressBits(m.relayer_address))
<1>1. RelayerExecuteMessage(m) = Cell(bits, <<msg>>)
  BY DEF RelayerExecuteMessage, PayloadCell, Joined2
<1>2. Takes(<<>>, 1023)
  BY TakesValues, TakesOne
<1>3. Acceptable(msg)
  BY <1>2, PayloadAcceptable, AcceptableTuples
<1>4. Takes(bits, 1023)
  <2>1. Takes(Bits(OP_RELAYER_EXECUTE), 32) /\ Takes(AddressBits(m.relayer_address), 267)
    BY ExecutionTypes, OpCodes, TakesValues
  <2>2. 32 + 267 <= 1023
    OBVIOUS
  <2> QED
    BY <2>1, <2>2, TakesTwo
<1> HIDE DEF msg, bits
<1>5. Acceptable(RelayerExecuteMessage(m))
  BY <1>1, <1>3, <1>4, AcceptableTuples
<1>6. Takes(Zeros(400), 1023)
  BY TakesZeros, TakesOne
<1>7. out_action(RelayerExecuteMessage(m)) = Cell(Zeros(400), <<RelayerExecuteMessage(m)>>)
  BY DEF out_action, Zeros
<1> QED
  BY <1>5, <1>6, <1>7, AcceptableTuples

LEMMA WalletAcceptable ==
    ASSUME NEW request \in Requests
    PROVE  Acceptable(internal_transfer_body(Wrapped(request)))
<1> DEFINE actions == Wrapped(request)
<1>1. PICK n \in Nat : Len(actions) = n /\ \A i \in 1..n : Acceptable(actions[i])
  <2> DEFINE s == request.actions
  <2>1. s \in Seq(Executions)
    BY RelayerAssumption
  <2>2. Wrapped(request) = [i \in DOMAIN s |-> out_action(RelayerExecuteMessage(s[i]))]
    BY DEF Wrapped
  <2> HIDE DEF s
  <2>3. Len(s) \in Nat /\ DOMAIN s = 1..Len(s) /\ \A i \in 1..Len(s) : s[i] \in Executions
    BY <2>1, Elements
  <2>4. Len(actions) = Len(s)
    BY <2>2, <2>3
  <2>5. ASSUME NEW i \in 1..Len(s)
        PROVE  Acceptable(actions[i])
    BY <2>2, <2>3, ActionAcceptable
  <2> QED
    BY <2>3, <2>4, <2>5
<1> HIDE DEF actions
<1>2. PICK f : Listed(actions, n, f) /\ internal_transfer_body(actions)
                   = Cell(BodyBits, <<f[n]>>)
  BY <1>1, BodyOfList
<1> DEFINE T == {i \in 0..n : ~Acceptable(f[i])}
<1>3. Takes(ActionBits, 1023)
  <2>1. ActionBits = Zeros(40)
    BY DEF ActionBits, Zeros
  <2> QED
    BY <2>1, TakesZeros, TakesOne
<1>4. T = {}
  <2> SUFFICES ASSUME T # {}
               PROVE  FALSE
    OBVIOUS
  <2>1. T \in SUBSET Nat
    OBVIOUS
  <2>2. PICK k \in T : \A j \in T : k <= j
    <3> HIDE DEF T
    <3> QED
      BY <2>1, LeastElement
  <2>3. k # 0
    BY <1>2, <2>2, AcceptableEmpty DEF Listed
  <2>4. k \in 1..n /\ k - 1 \in 0..n /\ ~(k <= k - 1)
    BY <1>1, <2>2, <2>3
  <2>5. Acceptable(f[k - 1])
    BY <2>2, <2>4
  <2>6. f[k] = Cell(ActionBits, <<f[k - 1], actions[k]>>)
    BY <1>2, <2>4 DEF Listed
  <2>7. Acceptable(f[k])
    BY <1>1, <1>3, <2>4, <2>5, <2>6, AcceptableTuples
  <2> QED
    BY <2>2, <2>7
<1>5. Acceptable(f[n])
  BY <1>1, <1>4
<1>6. Takes(BodyBits, 1023)
  <2> DEFINE x == <<174, 66, 229, 164>>
  <2>1. x \in Octets(4)
    BY DEF Octets
  <2>2. Takes(Bits(x), 32)
    BY <2>1, TakesValues
  <2>3. BodyBits = Joined2(Bits(x), Zeros(64))
    BY DEF BodyBits, Joined2, Zeros
  <2> HIDE DEF x
  <2>4. Takes(Zeros(64), 64) /\ 32 + 64 <= 1023
    BY TakesZeros
  <2> QED
    BY <2>2, <2>3, <2>4, TakesTwo
<1> QED
  BY <1>2, <1>5, <1>6, AcceptableTuples DEF actions

-----------------------------------------------------------------------------
(* What the behaviours keep. *)

WrittenLog(m, k, c) == m \in Logs /\ k = m.kind /\ c = LogCell(m)

WrittenRefund(m, k, c) ==
    m \in Refunds /\ k = "NativeGasRefunded" /\ c = Refunded(NativeRefundMessage(m))

WrittenProof(m, k, c) ==
    m \in Proofs /\ k = "ApproveMessages" /\ c = ProofCell(m.messages)

WrittenExecution(m, k, c) ==
    /\ m \in Requests /\ k = "RelayerExecuteWrapped"
    /\ c = internal_transfer_body(Wrapped(m))

WrittenNullified(m, k, c) ==
    /\ m \in Requests /\ k = "MessageExecuted"
    /\ c = Nullified(Descend(internal_transfer_body(Wrapped(m)), <<1, 2, 1>>).cell)

NothingWritten(m, k) == m = [kind |-> "none"] /\ k = "none"

\* The cell is the one that was written for the message and its decoder.
CellInv ==
    \/ NothingWritten(message, kind)
    \/ WrittenLog(message, kind, cell)
    \/ WrittenRefund(message, kind, cell)
    \/ WrittenProof(message, kind, cell)
    \/ WrittenExecution(message, kind, cell)
    \/ WrittenNullified(message, kind, cell)

\* What was read is what the decoder makes of the cell.
ReadInv == read = NotRead \/ (kind # "none" /\ read = Decoder(kind, cell))

BocInv == CellInv /\ ReadInv

LEMMA KindsOfLogs ==
    ASSUME NEW m \in Logs
    PROVE  m.kind \in LogKinds
BY LogsAssumption

LEMMA BocInvInit == Init => BocInv
BY DEF Init, BocInv, CellInv, ReadInv, NothingWritten

LEMMA BocInvNext ==
    ASSUME BocInv, [Next]_vars
    PROVE  BocInv'
<1>1. CASE SendExecute
  <2>1. PICK request \in Requests :
            Written(request, "RelayerExecuteWrapped",
                    internal_transfer_body(Wrapped(request)))
    BY <1>1 DEF SendExecute, Wrapped
  <2>2. WrittenExecution(message', kind', cell')
    BY <2>1 DEF Written, WrittenExecution
  <2>3. read' = NotRead
    BY <2>1 DEF Written
  <2> QED
    BY <2>2, <2>3 DEF BocInv, CellInv, ReadInv
<1>2. CASE GatewayNullifies
  <2>1. /\ kind = "RelayerExecuteWrapped"
        /\ Written(message, "MessageExecuted", Nullified(Descend(cell, <<1, 2, 1>>).cell))
    BY <1>2 DEF GatewayNullifies
  <2>2. WrittenExecution(message, kind, cell)
    <3>1. ~WrittenLog(message, kind, cell)
      BY <2>1, KindsOfLogs DEF WrittenLog, LogKinds
    <3> QED
      BY <2>1, <3>1 DEF BocInv, CellInv, NothingWritten, WrittenRefund, WrittenProof,
                        WrittenNullified
  <2>3. WrittenNullified(message', kind', cell')
    BY <2>1, <2>2 DEF Written, WrittenExecution, WrittenNullified
  <2>4. read' = NotRead
    BY <2>1 DEF Written
  <2> QED
    BY <2>3, <2>4 DEF BocInv, CellInv, ReadInv
<1>3. CASE SendRefund
  <2>1. PICK refund \in Refunds :
            Written(refund, "NativeGasRefunded", Refunded(NativeRefundMessage(refund)))
    BY <1>3 DEF SendRefund
  <2>2. WrittenRefund(message', kind', cell')
    BY <2>1 DEF Written, WrittenRefund
  <2>3. read' = NotRead
    BY <2>1 DEF Written
  <2> QED
    BY <2>2, <2>3 DEF BocInv, CellInv, ReadInv
<1>4. CASE ContractLogs
  <2>1. PICK log \in Logs : Written(log, log.kind, LogCell(log))
    BY <1>4 DEF ContractLogs
  <2>2. WrittenLog(message', kind', cell')
    BY <2>1 DEF Written, WrittenLog
  <2>3. read' = NotRead
    BY <2>1 DEF Written
  <2> QED
    BY <2>2, <2>3 DEF BocInv, CellInv, ReadInv
<1>5. CASE ProverApproves
  <2>1. PICK proof \in Proofs : Written(proof, "ApproveMessages", ProofCell(proof.messages))
    BY <1>5 DEF ProverApproves
  <2>2. WrittenProof(message', kind', cell')
    BY <2>1 DEF Written, WrittenProof
  <2>3. read' = NotRead
    BY <2>1 DEF Written
  <2> QED
    BY <2>2, <2>3 DEF BocInv, CellInv, ReadInv
<1>6. CASE Decode
  <2>1. /\ kind # "none" /\ read' = Decoder(kind, cell)
        /\ message' = message /\ kind' = kind /\ cell' = cell
    BY <1>6 DEF Decode
  <2>2. CellInv'
    BY <2>1 DEF BocInv, CellInv, NothingWritten, WrittenLog, WrittenRefund, WrittenProof,
               WrittenExecution, WrittenNullified
  <2>3. read' = Decoder(kind', cell') /\ kind' # "none"
    BY <2>1
  <2> QED
    BY <2>2, <2>3 DEF BocInv, ReadInv
<1>7. CASE UNCHANGED vars
  <2>1. message' = message /\ kind' = kind /\ cell' = cell /\ read' = read
    BY <1>7 DEF vars
  <2>2. CellInv'
    BY <2>1 DEF BocInv, CellInv, NothingWritten, WrittenLog, WrittenRefund, WrittenProof,
               WrittenExecution, WrittenNullified
  <2>3. ReadInv'
    BY <2>1 DEF BocInv, ReadInv
  <2> QED
    BY <2>2, <2>3 DEF BocInv
<1> QED
  BY <1>1, <1>2, <1>3, <1>4, <1>5, <1>6, <1>7 DEF Next

-----------------------------------------------------------------------------
(* The theorems. *)

\* Whose message a decoder's outcome is about.
LEMMA FaithfulOutcome ==
    ASSUME BocInv, FromContract, read # NotRead
    PROVE  Faithful(message, read)
<1>1. read = Decoder(kind, cell)
  BY DEF BocInv, ReadInv
<1>2. CASE NothingWritten(message, kind)
  BY <1>2 DEF NothingWritten, FromContract
<1>3. CASE WrittenLog(message, kind, cell)
  BY <1>1, <1>3, LogsDecoded DEF WrittenLog
<1>4. CASE WrittenRefund(message, kind, cell)
  BY <1>1, <1>4, DecodesRefund DEF WrittenRefund
<1>5. CASE WrittenProof(message, kind, cell)
  BY <1>5, ProofTypes DEF WrittenProof, FromContract
<1>6. CASE WrittenExecution(message, kind, cell) \/ WrittenNullified(message, kind, cell)
  BY <1>6, LastAction DEF WrittenExecution, WrittenNullified, FromContract
<1> QED
  BY <1>2, <1>3, <1>4, <1>5, <1>6 DEF BocInv, CellInv

LEMMA OutcomeOfProof ==
    ASSUME BocInv, read # NotRead, kind = "ApproveMessages"
    PROVE  /\ message \in Proofs
           /\ read.fields.approve_messages = ToSet(message.messages)
<1>1. read = Decoder(kind, cell)
  BY DEF BocInv, ReadInv
<1>2. ~WrittenLog(message, kind, cell)
  BY KindsOfLogs DEF WrittenLog, LogKinds
<1>3. WrittenProof(message, kind, cell)
  BY <1>2 DEF BocInv, CellInv, NothingWritten, WrittenRefund, WrittenExecution,
              WrittenNullified
<1> QED
  BY <1>1, <1>3, DecodesProof DEF WrittenProof

LEMMA InvDecoded ==
    ASSUME BocInv
    PROVE  DecodedIsWritten
<1>1. ASSUME FromContract, read # NotRead, read.ok
      PROVE  \A f \in DOMAIN message \ {"kind"} :
                 f \in DOMAIN read.fields /\ SameField(f, read.fields[f], message[f])
  <2>1. Faithful(message, read)
    BY <1>1, FaithfulOutcome
  <2> QED
    BY <1>1, <2>1 DEF Faithful, Kept
<1>2. ASSUME ReadAs("ApproveMessages")
      PROVE  ToSet(message.messages)
               = {[f \in DOMAIN m \ {"op"} |-> m[f]] : m \in read.fields.approve_messages}
  <2>1. kind = "ApproveMessages" /\ read # NotRead
    BY <1>2 DEF ReadAs
  <2>2. message \in Proofs /\ read.fields.approve_messages = ToSet(message.messages)
    BY <2>1, OutcomeOfProof
  <2>3. {[f \in DOMAIN m \ {"op"} |-> m[f]] : m \in ToSet(message.messages)}
          = ToSet(message.messages)
    BY <2>2, NothingLeftOut
  <2> QED
    BY <2>2, <2>3
<1> QED
  BY <1>1, <1>2 DEF DecodedIsWritten

LEMMA InvRead ==
    ASSUME BocInv
    PROVE  WrittenIsRead
BY FaithfulOutcome DEF WrittenIsRead, Faithful

LEMMA InvNamed ==
    ASSUME BocInv
    PROVE  ExecutionNamesMessage
<1> SUFFICES ASSUME kind \in {"RelayerExecuteWrapped", "MessageExecuted"}, read # NotRead
             PROVE  /\ read.ok
                    /\ read.fields.message_id = Last(message.actions).message_id
                    /\ read.fields.source_chain = Last(message.actions).source_chain
                    /\ kind = "MessageExecuted" =>
                           /\ read.fields.payload = Last(message.actions).payload
                           /\ read.fields.source_address
                                  = Last(message.actions).source_address
                           /\ read.fields.destination_address
                                  = HashPart(Last(message.actions).destination_address)
  BY DEF ExecutionNamesMessage
<1>1. read = Decoder(kind, cell)
  BY DEF BocInv, ReadInv
<1>2. ~WrittenLog(message, kind, cell)
  BY KindsOfLogs DEF WrittenLog, LogKinds
<1>3. CASE WrittenExecution(message, kind, cell)
  <2>1. message \in Requests /\ kind = "RelayerExecuteWrapped"
        /\ cell = internal_transfer_body(Wrapped(message))
    BY <1>3 DEF WrittenExecution
  <2> QED
    BY <1>1, <2>1, DecodesWrapped DEF Has
<1>4. CASE WrittenNullified(message, kind, cell)
  <2>1. /\ message \in Requests /\ kind = "MessageExecuted"
        /\ cell = Nullified(Descend(internal_transfer_body(Wrapped(message)),
                                    <<1, 2, 1>>).cell)
    BY <1>4 DEF WrittenNullified
  <2>2. /\ read.ok = TRUE
        /\ Has(read.fields, "message_id", Last(message.actions).message_id)
        /\ Has(read.fields, "source_chain", Last(message.actions).source_chain)
        /\ Has(read.fields, "source_address", Last(message.actions).source_address)
        /\ Has(read.fields, "payload", Last(message.actions).payload)
        /\ Has(read.fields, "destination_address",
               HashPart(Last(message.actions).destination_address))
    BY <1>1, <2>1, DecodesNullified
  <2> QED
    BY <2>2 DEF Has
<1> QED
  BY <1>2, <1>3, <1>4 DEF BocInv, CellInv, NothingWritten, WrittenRefund, WrittenProof

LEMMA InvApart ==
    ASSUME BocInv
    PROVE  JettonsToldApart
<1> SUFFICES ASSUME kind = "JettonGasPaid"
             PROVE  ~JettonGasAddedMessage(cell).ok
  BY DEF JettonsToldApart
<1>1. WrittenLog(message, kind, cell)
  BY DEF BocInv, CellInv, NothingWritten, WrittenRefund, WrittenProof, WrittenExecution,
         WrittenNullified
<1>2. message \in LogsOf("JettonGasPaid") /\ cell = LogCell(message)
  BY <1>1, LogsAssumption DEF WrittenLog
<1>3. /\ message.kind = "JettonGasPaid" /\ message.minter \in AnyAddress
      /\ message.amount \in AnyCoins /\ message.payload_hash \in AnyWord
  BY <1>2 DEF LogsOf
<1>4. cell.bits = AddressBits(message.minter) \o CoinsBits(message.amount)
                    \o Bits(message.payload_hash)
  BY <1>2, <1>3 DEF LogCell, Cell
<1>5. message.payload_hash \in Octets(32)
  BY <1>3 DEF AnyWord
<1> QED
  BY <1>3, <1>4, <1>5, NotAnAddition

LEMMA BocInvariant == Spec => []BocInv
<1>1. Init => BocInv
  BY BocInvInit
<1>2. BocInv /\ [Next]_vars => BocInv'
  BY BocInvNext
<1> QED
  BY <1>1, <1>2, PTL DEF Spec

\* Whatever the relayer takes from a log, a refund or an approval is what was written
\* there: strings of any length, amounts and addresses of any value (boc/).  A signers'
\* hash comes without its leading zeros and the data of a transfer may be cut after its
\* first cell, as SameField says.
THEOREM DecodedFaithfully == Spec => []DecodedIsWritten
<1>1. BocInv => DecodedIsWritten
  BY InvDecoded
<1> QED
  BY <1>1, BocInvariant, PTL

\* A log is an error exactly when it is one of the few that the code cannot represent.
THEOREM ReadUnlessUnreadable == Spec => []WrittenIsRead
<1>1. BocInv => WrittenIsRead
  BY InvRead
<1> QED
  BY <1>1, BocInvariant, PTL

\* No payment of gas in jettons is taken for an addition, whatever its amount.
THEOREM JettonsApart == Spec => []JettonsToldApart
<1>1. BocInv => JettonsToldApart
  BY InvApart
<1> QED
  BY <1>1, BocInvariant, PTL

\* An execution is recognised by the message of the wallet's last action, before and after
\* the gateway has carried it out, for every list of 1 to 254 actions.
THEOREM ExecutionNamed == Spec => []ExecutionNamesMessage
<1>1. BocInv => ExecutionNamesMessage
  BY InvNamed
<1> QED
  BY <1>1, BocInvariant, PTL

LEMMA InvTypes ==
    ASSUME BocInv
    PROVE  TypeOK /\ \A n \in Nat : kind # "none" => Fits(cell, n)
<1>1. CASE NothingWritten(message, kind)
  BY <1>1 DEF TypeOK, NothingWritten, BocInv, ReadInv
<1>2. ASSUME ~NothingWritten(message, kind)
      PROVE  message.kind # "none" /\ kind # "none" /\ Acceptable(cell)
  <2>1. CASE WrittenLog(message, kind, cell)
    <3>1. message \in Logs /\ kind = message.kind /\ cell = LogCell(message)
      BY <2>1 DEF WrittenLog
    <3>2. kind # "none"
      BY <3>1, KindsOfLogs DEF LogKinds
    <3> QED
      BY <3>1, <3>2, LogsAcceptable
  <2>2. CASE WrittenRefund(message, kind, cell)
    BY <2>2, RefundCell, RefundAcceptable DEF WrittenRefund
  <2>3. CASE WrittenProof(message, kind, cell)
    BY <2>3, ProofTypes, ProofAcceptable DEF WrittenProof
  <2>4. CASE WrittenExecution(message, kind, cell)
    BY <2>4, LastAction, WalletAcceptable DEF WrittenExecution
  <2>5. CASE WrittenNullified(message, kind, cell)
    BY <2>5, LastAction, NullifiedAcceptable DEF WrittenNullified
  <2> QED
    BY <1>2, <2>1, <2>2, <2>3, <2>4, <2>5 DEF BocInv, CellInv
<1>3. ASSUME ~NothingWritten(message, kind), read # NotRead
      PROVE  read.ok \in BOOLEAN
  <2>1. CASE FromContract
    BY <1>3, <2>1, FaithfulOutcome DEF Faithful
  <2>2. CASE WrittenProof(message, kind, cell)
    <3>1. read = Decoder("ApproveMessages", ProofCell(message.messages))
      BY <1>3, <2>2 DEF BocInv, ReadInv, WrittenProof
    <3>2. message \in Proofs
      BY <2>2 DEF WrittenProof
    <3> QED
      BY <3>1, <3>2, DecodesProof
  <2>3. CASE WrittenExecution(message, kind, cell)
    <3>1. /\ message \in Requests
          /\ read = Decoder("RelayerExecuteWrapped",
                            internal_transfer_body(Wrapped(message)))
      BY <1>3, <2>3 DEF BocInv, ReadInv, WrittenExecution
    <3> QED
      BY <3>1, DecodesWrapped
  <2>4. CASE WrittenNullified(message, kind, cell)
    <3>1. /\ message \in Requests
          /\ read = Decoder("MessageExecuted",
                            Nullified(Descend(internal_transfer_body(Wrapped(message)),
                                              <<1, 2, 1>>).cell))
      BY <1>3, <2>4 DEF BocInv, ReadInv, WrittenNullified
    <3> QED
      BY <3>1, DecodesNullified
  <2>5. CASE WrittenLog(message, kind, cell) \/ WrittenRefund(message, kind, cell)
    <3>1. FromContract
      BY <2>5, KindsOfLogs, RefundCell
         DEF WrittenLog, WrittenRefund, FromContract, LogKinds
    <3> QED
      BY <2>1, <3>1
  <2> QED
    BY <1>3, <2>2, <2>3, <2>4, <2>5 DEF BocInv, CellInv
<1>4. CASE ~NothingWritten(message, kind)
  BY <1>2, <1>3, <1>4, 10 \in Nat, AcceptableFits DEF TypeOK
<1> QED
  BY <1>1, <1>4

\* Every cell that is written, by the relayer or for it, keeps to 1023 bits and four
\* references at every level, however long the strings are and for every list of actions
\* that the code accepts, and every decoder returns or fails.
THEOREM CellsAccepted ==
    Spec => [](TypeOK /\ \A n \in Nat : kind # "none" => Fits(cell, n))
<1>1. BocInv => TypeOK /\ \A n \in Nat : kind # "none" => Fits(cell, n)
  BY InvTypes
<1> QED
  BY <1>1, BocInvariant, PTL

=============================================================================
