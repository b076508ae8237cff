--------------------------- MODULE Chip8DataProofs ---------------------------
(***************************************************************************)
(* What the CHIP-8 core does with its data, for every size of it.          *)
(*                                                                         *)
(* Saved states: a saved state is accepted and restores the machine it was *)
(* saved from, an accepted state holds nothing the core ignores, and no    *)
(* state, however damaged, leaves the interpreter a machine it cannot run. *)
(* Reading the bytes of a little-endian word gives the word back, and the  *)
(* bytes of the word that was read are the bytes read.                     *)
(*                                                                         *)
(* The generator: for every width and every three shifts a draw is         *)
(* injective, hence zero is drawn only from zero, hence the generator of a *)
(* loaded core is never zero.  A word differs from its exclusive-or with a *)
(* left shift of itself first at the lowest bit where two words differ:    *)
(* below the shift nothing is mixed in, and above it only bits that agree. *)
(* The right shift is the same from the other end.                         *)
(*                                                                         *)
(* Sprites: as long as a sprite is no wider and no higher than the         *)
(* display, the loop of DrawSprite indexes only the display, has inverted  *)
(* at every step exactly the pixels of the bits it has passed, and on its  *)
(* return has done what SpriteContract promises of the whole instruction.  *)
(* Different bits of one sprite have different targets, wrapped or not:    *)
(* the loop never inverts a pixel twice, and a lit pixel it meets was lit  *)
(* before it began.                                                        *)
(***************************************************************************)
EXTENDS Chip8State, Chip8Random, Chip8Display, NumberFacts

----------------------------------------------------------------------------
(* Saved states: the size of a byte.                                       *)

\* The size of a byte, alone.
LEMMA ByteSizeNat == ByteSize \in Nat /\ ByteSize >= 2
BY ONLY StateAssumption DEF StateAssumption

\* Division by the size of a byte.
LEMMA Split ==
    ASSUME NEW x \in Nat
    PROVE  /\ x % ByteSize \in Byte
           /\ x \div ByteSize \in Nat
           /\ x = (x % ByteSize) + ByteSize * (x \div ByteSize)
BY ByteSizeNat DEF Byte

\* A digit in front of a number is its remainder, the number its quotient.
LEMMA Join ==
    ASSUME NEW low \in Byte, NEW high \in Nat
    PROVE  /\ low + ByteSize * high \in Nat
           /\ (low + ByteSize * high) % ByteSize = low
           /\ (low + ByteSize * high) \div ByteSize = high
<1>1. ByteSize \in Nat \ {0} /\ low \in 0 .. ByteSize - 1 /\ low \in Nat
    BY ByteSizeNat DEF Byte
<1>2. ByteSize * high + low = low + ByteSize * high /\ low + ByteSize * high \in Nat
    BY <1>1
<1>3. (ByteSize * high + low) % ByteSize = low /\ (ByteSize * high + low) \div ByteSize = high
    BY <1>1, Remainder
<1> QED BY <1>2, <1>3

\* A number below a multiple of the size of a byte has a quotient below the factor.
LEMMA Smaller ==
    ASSUME NEW x \in Nat, NEW n \in Nat, x < ByteSize * n
    PROVE  x \div ByteSize < n
<1> DEFINE q == x \div ByteSize
           r == x % ByteSize
<1>1. r \in Nat /\ q \in Nat /\ x = r + ByteSize * q
    BY Split, ByteSizeNat DEF Byte
<1> HIDE DEF q, r
<1>2. SUFFICES ASSUME q >= n PROVE FALSE
    BY <1>1 DEF q
<1>3. ByteSize * q >= ByteSize * n
    BY <1>1, <1>2, ByteSizeNat
<1> QED BY <1>1, <1>3, ByteSizeNat

----------------------------------------------------------------------------
(* Saved states: little-endian words.                                      *)

\* The word read from two bytes, and its bytes.
LEMMA ReadWord16 ==
    ASSUME NEW a \in Byte, NEW b \in Byte
    PROVE  /\ a + ByteSize * b \in UInt16
           /\ Digit(a + ByteSize * b, 0) = a
           /\ Digit(a + ByteSize * b, 1) = b
<1>1. b \in Nat /\ b <= ByteSize - 1 /\ a \in Nat /\ a <= ByteSize - 1
    BY ByteSizeNat DEF Byte
<1>2. ByteSize * b <= ByteSize * (ByteSize - 1)
    BY <1>1, ByteSizeNat
<1>3. a + ByteSize * b \in UInt16
    BY <1>1, <1>2, ByteSizeNat DEF UInt16
<1>4. b % ByteSize = b
    BY <1>1, ByteSizeNat
<1> QED BY <1>1, <1>3, <1>4, Join DEF Digit

\* The word read from four bytes, and its bytes.
LEMMA ReadWord32 ==
    ASSUME NEW a \in Byte, NEW b \in Byte, NEW c \in Byte, NEW d \in Byte
    PROVE  /\ Joined(a, b, c, d) \in UInt32
           /\ Digit(Joined(a, b, c, d), 0) = a /\ Digit(Joined(a, b, c, d), 1) = b
           /\ Digit(Joined(a, b, c, d), 2) = c /\ Digit(Joined(a, b, c, d), 3) = d
<1> DEFINE B == ByteSize
           w2 == c + B * d
           w1 == b + B * w2
           w0 == a + B * w1
<1>1. /\ a \in Nat /\ a <= B - 1 /\ b \in Nat /\ b <= B - 1
      /\ c \in Nat /\ c <= B - 1 /\ d \in Nat /\ d <= B - 1
    BY ByteSizeNat DEF Byte
<1>2. w2 \in Nat /\ w2 % B = c /\ w2 \div B = d
    BY <1>1, Join
<1> HIDE DEF w2
<1>3. w1 \in Nat /\ w1 % B = b /\ w1 \div B = w2
    BY <1>2, Join
<1> HIDE DEF w1
<1>4. w0 \in Nat /\ w0 % B = a /\ w0 \div B = w1
    BY <1>3, Join
<1>5. d % B = d
    BY <1>1, ByteSizeNat
<1>6. w0 \in UInt32
    <2> DEFINE B2 == B * B
               B3 == B2 * B
    <2>1. B2 \in Nat /\ B3 \in Nat /\ B \in Nat
        BY ByteSizeNat
    <2>2. w2 <= B2 - 1
        <3>1. B * d <= B * (B - 1)
            BY <1>1, ByteSizeNat
        <3> QED BY <3>1, <1>1, ByteSizeNat DEF w2
    <2> HIDE DEF B2
    <2>3. w1 <= B3 - 1
        <3>1. B * w2 <= B * (B2 - 1)
            BY <2>1, <2>2, <1>2, ByteSizeNat
        <3>2. B * (B2 - 1) = B3 - B
            BY <2>1, ByteSizeNat
        <3>3. B * w2 \in Nat
            BY <1>2, ByteSizeNat
        <3> QED BY <3>1, <3>2, <3>3, <1>1, <2>1, ByteSizeNat DEF w1
    <2> HIDE DEF B3
    <2>4. w0 <= B3 * B - 1
        <3>1. B * w1 <= B * (B3 - 1)
            BY <2>1, <2>3, <1>3, ByteSizeNat
        <3>2. B * (B3 - 1) = B3 * B - B
            BY <2>1, ByteSizeNat
        <3>3. B * w1 \in Nat /\ B3 * B \in Nat
            BY <1>3, <2>1, ByteSizeNat
        <3> QED BY <3>1, <3>2, <3>3, <1>1, <2>1, ByteSizeNat DEF w0
    <2> QED BY <2>4, <2>1, <1>4 DEF UInt32, B3, B2
<1>7. /\ Digit(w0, 0) = a /\ Digit(w0, 1) = b
      /\ Digit(w0, 2) = c /\ Digit(w0, 3) = d
    BY <1>2, <1>3, <1>4, <1>5 DEF Digit
<1> QED BY <1>6, <1>7 DEF w0, w1, w2, Joined

\* The bytes of a word of two bytes, and the word read from them.
LEMMA WriteWord16 ==
    ASSUME NEW v \in UInt16
    PROVE  /\ Digit(v, 0) \in Byte /\ Digit(v, 1) \in Byte
           /\ v = Digit(v, 0) + ByteSize * Digit(v, 1)
<1>1. v \in Nat /\ v < ByteSize * ByteSize
    BY ByteSizeNat DEF UInt16
<1>2. v \div ByteSize \in Byte
    <2>1. v \div ByteSize < ByteSize
        BY <1>1, Smaller, ByteSizeNat
    <2>2. v \div ByteSize \in Nat
        BY <1>1, Split
    <2> QED BY <2>1, <2>2, ByteSizeNat DEF Byte
<1>3. (v \div ByteSize) % ByteSize = v \div ByteSize
    BY <1>2, ByteSizeNat DEF Byte
<1> QED BY <1>1, <1>2, <1>3, Split DEF Digit

\* The bytes of a word of four bytes, and the word read from them.
LEMMA WriteWord32 ==
    ASSUME NEW v \in UInt32
    PROVE  /\ Digit(v, 0) \in Byte /\ Digit(v, 1) \in Byte
           /\ Digit(v, 2) \in Byte /\ Digit(v, 3) \in Byte
           /\ v = Joined(Digit(v, 0), Digit(v, 1), Digit(v, 2), Digit(v, 3))
<1> DEFINE B == ByteSize
           v1 == v \div B
           v2 == v1 \div B
           v3 == v2 \div B
<1>1. B \in Nat /\ B * B \in Nat /\ B * (B * B) \in Nat
    BY ByteSizeNat
<1>2. v \in Nat /\ v < B * (B * (B * B))
    <2>1. B * B * B * B = B * (B * (B * B))
        BY ByteSizeNat
    <2>2. B * (B * (B * B)) \in Nat
        BY <1>1
    <2> QED BY <2>1, <2>2 DEF UInt32
<1>3. v1 \in Nat /\ v1 < B * (B * B) /\ v % B \in Byte /\ v = (v % B) + B * v1
    BY <1>1, <1>2, Split, Smaller
<1> HIDE DEF v1
<1>4. v2 \in Nat /\ v2 < B * B /\ v1 % B \in Byte /\ v1 = (v1 % B) + B * v2
    BY <1>1, <1>3, Split, Smaller
<1> HIDE DEF v2
<1>5. v3 \in Nat /\ v3 < B /\ v2 % B \in Byte /\ v2 = (v2 % B) + B * v3
    BY <1>1, <1>4, Split, Smaller
<1> HIDE DEF v3
<1>6. v3 \in Byte /\ v3 % B = v3
    BY <1>5, ByteSizeNat DEF Byte
<1>7. /\ Digit(v, 0) = v % B /\ Digit(v, 1) = v1 % B
      /\ Digit(v, 2) = v2 % B /\ Digit(v, 3) = v3
    BY <1>6 DEF Digit, v1, v2, v3
<1> QED BY <1>3, <1>4, <1>5, <1>6, <1>7 DEF Joined

----------------------------------------------------------------------------
(* Saved states: the layout.                                               *)

\* The sizes, alone.
LEMMA StateSizes ==
    /\ RegisterCount \in Nat /\ StackSize \in Nat
    /\ DisplaySize \in Nat /\ MemorySize \in Nat /\ QuirkLimit \in Nat
    /\ QuirkLimit <= ByteSize
    /\ StateMagic \in UInt32 /\ StateVersion \in UInt16
BY ONLY StateAssumption DEF StateAssumption

\* Where the parts of a state lie.
LEMMA Layout ==
    /\ StackOffset \in Nat /\ StackOffset = 24 + RegisterCount
    /\ DisplayOffset \in Nat /\ DisplayOffset = StackOffset + 2 * StackSize
    /\ MemoryOffset \in Nat /\ MemoryOffset = DisplayOffset + DisplaySize
    /\ StateSize \in Nat /\ StateSize = MemoryOffset + MemorySize
    /\ RegisterOffset = 24
BY StateSizes DEF RegisterOffset, StackOffset, DisplayOffset, MemoryOffset, StateSize

\* Every offset lies in the header, the registers, the stack, the display or
\* the memory, and those of the arrays are those of their elements.
LEMMA Parts ==
    ASSUME NEW i \in Offsets
    PROVE  \/ i \in 0 .. 23
           \/ i \in RegisterOffset .. StackOffset - 1 /\ i - RegisterOffset \in Registers
           \/ /\ i \in StackOffset .. DisplayOffset - 1
              /\ \E slot \in Slots, k \in {0, 1} :
                    /\ i = StackOffset + 2 * slot + k
                    /\ slot = (i - StackOffset) \div 2
                    /\ k = (i - StackOffset) % 2
           \/ i \in DisplayOffset .. MemoryOffset - 1 /\ i - DisplayOffset \in PixelBytes
           \/ i \in MemoryOffset .. StateSize - 1 /\ i - MemoryOffset \in Address
<1>1. i \in Int /\ i >= 0 /\ i < StateSize
    BY Layout DEF Offsets
<1>2. CASE i \in StackOffset .. DisplayOffset - 1
    <2> DEFINE slot == (i - StackOffset) \div 2
               k == (i - StackOffset) % 2
    <2>1. slot \in Slots /\ k \in {0, 1} /\ i = StackOffset + 2 * slot + k
        BY <1>2, Layout, StateSizes DEF Slots
    <2> QED BY <2>1, <1>2
<1>3. CASE i \notin StackOffset .. DisplayOffset - 1
    BY <1>1, <1>3, Layout, StateSizes DEF Registers, PixelBytes, Address
<1> QED BY <1>2, <1>3

\* The offsets of the elements of the arrays.
LEMMA Elements ==
    /\ 0 .. 23 \subseteq Offsets
    /\ \A r \in Registers :
         /\ RegisterOffset + r \in Offsets
         /\ RegisterOffset + r \in RegisterOffset .. StackOffset - 1
         /\ (RegisterOffset + r) - RegisterOffset = r
    /\ \A slot \in Slots, k \in {0, 1} :
         /\ StackOffset + 2 * slot + k \in Offsets
         /\ StackOffset + 2 * slot + k \in StackOffset .. DisplayOffset - 1
         /\ ((StackOffset + 2 * slot + k) - StackOffset) \div 2 = slot
         /\ ((StackOffset + 2 * slot + k) - StackOffset) % 2 = k
    /\ \A pixel \in PixelBytes :
         /\ DisplayOffset + pixel \in Offsets
         /\ DisplayOffset + pixel \in DisplayOffset .. MemoryOffset - 1
         /\ (DisplayOffset + pixel) - DisplayOffset = pixel
    /\ \A address \in Address :
         /\ MemoryOffset + address \in Offsets
         /\ MemoryOffset + address \in MemoryOffset .. StateSize - 1
         /\ (MemoryOffset + address) - MemoryOffset = address
BY Layout, StateSizes DEF Offsets, Registers, Slots, PixelBytes, Address

\* The bytes of a saved machine, part by part.
LEMMA SerializedBytes ==
    ASSUME NEW m
    PROVE  /\ \A i \in 0 .. 3 : Serialize(m)[i] = Digit(StateMagic, i)
           /\ \A i \in 0 .. 1 : Serialize(m)[4 + i] = Digit(StateVersion, i)
           /\ \A i \in 0 .. 1 : Serialize(m)[6 + i] = Digit(m.programCounter, i)
           /\ \A i \in 0 .. 1 : Serialize(m)[8 + i] = Digit(m.indexRegister, i)
           /\ \A i \in 0 .. 3 : Serialize(m)[10 + i] = Digit(m.random, i)
           /\ Serialize(m)[14] = m.delay /\ Serialize(m)[15] = m.sound
           /\ Serialize(m)[16] = m.stackPointer
           /\ Serialize(m)[17] = IF m.halted THEN 1 ELSE 0
           /\ Serialize(m)[18] = m.quirks /\ Serialize(m)[19] = 0
           /\ \A i \in 0 .. 3 : Serialize(m)[20 + i] = Digit(m.phase, i)
           /\ \A r \in Registers : Serialize(m)[RegisterOffset + r] = m.registers[r]
           /\ \A slot \in Slots, k \in {0, 1} :
                 Serialize(m)[StackOffset + 2 * slot + k] = Digit(m.stack[slot], k)
           /\ \A pixel \in PixelBytes : Serialize(m)[DisplayOffset + pixel] = m.display[pixel]
           /\ \A a \in Address : Serialize(m)[MemoryOffset + a] = m.memory[a]
<1>1. \A i \in 0 .. 23 : i \in Offsets
    BY Elements
<1>2. /\ \A i \in 0 .. 3 : Serialize(m)[i] = Digit(StateMagic, i)
      /\ \A i \in 0 .. 1 : Serialize(m)[4 + i] = Digit(StateVersion, i)
      /\ \A i \in 0 .. 1 : Serialize(m)[6 + i] = Digit(m.programCounter, i)
      /\ \A i \in 0 .. 1 : Serialize(m)[8 + i] = Digit(m.indexRegister, i)
      /\ \A i \in 0 .. 3 : Serialize(m)[10 + i] = Digit(m.random, i)
    BY <1>1, Layout, StateSizes DEF Serialize
<1>3. /\ Serialize(m)[14] = m.delay /\ Serialize(m)[15] = m.sound
      /\ Serialize(m)[16] = m.stackPointer
      /\ Serialize(m)[17] = IF m.halted THEN 1 ELSE 0
      /\ Serialize(m)[18] = m.quirks /\ Serialize(m)[19] = 0
      /\ \A i \in 0 .. 3 : Serialize(m)[20 + i] = Digit(m.phase, i)
    BY <1>1, Layout, StateSizes DEF Serialize
<1>4. ASSUME NEW r \in Registers
      PROVE  Serialize(m)[RegisterOffset + r] = m.registers[r]
    <2> DEFINE i == RegisterOffset + r
    <2>1. i \in Offsets /\ i \in RegisterOffset .. StackOffset - 1 /\ i - RegisterOffset = r
        BY Elements
    <2>2. i \in Int /\ i > 23
        BY <2>1, Layout
    <2> HIDE DEF i
    <2>3. Serialize(m)[i] = m.registers[i - RegisterOffset]
        BY <2>1, <2>2, Layout, StateSizes DEF Serialize
    <2> QED BY <2>1, <2>3 DEF i
<1>5. ASSUME NEW slot \in Slots, NEW k \in {0, 1}
      PROVE  Serialize(m)[StackOffset + 2 * slot + k] = Digit(m.stack[slot], k)
    <2> DEFINE i == StackOffset + 2 * slot + k
    <2>1. /\ i \in Offsets /\ i \in StackOffset .. DisplayOffset - 1
          /\ (i - StackOffset) \div 2 = slot /\ (i - StackOffset) % 2 = k
        BY Elements
    <2>2. i \in Int /\ i > 23 /\ i \notin RegisterOffset .. StackOffset - 1
        BY <2>1, Layout, StateSizes
    <2> HIDE DEF i
    <2>3. Serialize(m)[i] = Digit(m.stack[(i - StackOffset) \div 2], (i - StackOffset) % 2)
        BY <2>1, <2>2, Layout, StateSizes DEF Serialize
    <2> QED BY <2>1, <2>3 DEF i
<1>6. ASSUME NEW pixel \in PixelBytes
      PROVE  Serialize(m)[DisplayOffset + pixel] = m.display[pixel]
    <2> DEFINE i == DisplayOffset + pixel
    <2>1. /\ i \in Offsets /\ i \in DisplayOffset .. MemoryOffset - 1
          /\ i - DisplayOffset = pixel
        BY Elements
    <2>2. /\ i \in Int /\ i > 23 /\ i \notin RegisterOffset .. StackOffset - 1
          /\ i \notin StackOffset .. DisplayOffset - 1
        BY <2>1, Layout, StateSizes
    <2> HIDE DEF i
    <2>3. Serialize(m)[i] = m.display[i - DisplayOffset]
        BY <2>1, <2>2, Layout, StateSizes DEF Serialize
    <2> QED BY <2>1, <2>3 DEF i
<1>7. ASSUME NEW a \in Address
      PROVE  Serialize(m)[MemoryOffset + a] = m.memory[a]
    <2> DEFINE i == MemoryOffset + a
    <2>1. i \in Offsets /\ i \in MemoryOffset .. StateSize - 1 /\ i - MemoryOffset = a
        BY Elements
    <2>2. /\ i \in Int /\ i > 23 /\ i \notin RegisterOffset .. StackOffset - 1
          /\ i \notin StackOffset .. DisplayOffset - 1
          /\ i \notin DisplayOffset .. MemoryOffset - 1
        BY <2>1, Layout, StateSizes
    <2> HIDE DEF i
    <2>3. Serialize(m)[i] = m.memory[i - MemoryOffset]
        BY <2>1, <2>2, Layout, StateSizes DEF Serialize
    <2> QED BY <2>1, <2>3 DEF i
<1> QED BY <1>2, <1>3, <1>4, <1>5, <1>6, <1>7

\* The wide words of the header, and their bytes.
LEMMA HeaderWord32 ==
    ASSUME NEW bytes \in [Offsets -> Byte], NEW at \in {0, 10, 20}
    PROVE  /\ ReadUInt32(bytes, at) \in UInt32
           /\ \A i \in 0 .. 3 : Digit(ReadUInt32(bytes, at), i) = bytes[at + i]
<1> DEFINE word == Joined(bytes[at], bytes[at + 1], bytes[at + 2], bytes[at + 3])
<1>1. at \in Offsets /\ at + 1 \in Offsets /\ at + 2 \in Offsets /\ at + 3 \in Offsets
    BY Elements
<1>2. /\ bytes[at] \in Byte /\ bytes[at + 1] \in Byte
      /\ bytes[at + 2] \in Byte /\ bytes[at + 3] \in Byte
    BY <1>1
<1>3. /\ word \in UInt32
      /\ Digit(word, 0) = bytes[at] /\ Digit(word, 1) = bytes[at + 1]
      /\ Digit(word, 2) = bytes[at + 2] /\ Digit(word, 3) = bytes[at + 3]
    BY <1>2, ReadWord32
<1>4. ReadUInt32(bytes, at) = word
    BY DEF ReadUInt32
<1>5. bytes[at + 0] = bytes[at]
    OBVIOUS
<1> HIDE DEF word
<1>6. \A i \in 0 .. 3 : Digit(word, i) = bytes[at + i]
    BY <1>3, <1>5
<1> QED BY <1>3, <1>4, <1>6

----------------------------------------------------------------------------
(* Saving and loading back.                                                *)

\* The field types of a machine.
LEMMA Fields ==
    ASSUME NEW m \in TypedMachines
    PROVE  /\ m.programCounter \in UInt16 /\ m.indexRegister \in UInt16
           /\ m.random \in UInt32 /\ m.phase \in UInt32
           /\ m.delay \in Byte /\ m.sound \in Byte /\ m.stackPointer \in Byte
           /\ m.halted \in BOOLEAN /\ m.quirks \in 0 .. QuirkLimit - 1
           /\ m.registers \in [Registers -> Byte] /\ m.stack \in [Slots -> UInt16]
           /\ m.display \in [PixelBytes -> {0, 1}] /\ m.memory \in [Address -> Byte]
BY DEF TypedMachines

\* A saved machine is a sequence of bytes.
LEMMA SerializeTyped ==
    ASSUME NEW m \in TypedMachines
    PROVE  Serialize(m) \in [Offsets -> Byte]
<1> USE Fields
<1>1. ASSUME NEW v \in UInt32 PROVE \A k \in 0 .. 3 : Digit(v, k) \in Byte
    BY WriteWord32
<1>2. ASSUME NEW v \in UInt16 PROVE \A k \in 0 .. 1 : Digit(v, k) \in Byte
    BY WriteWord16
<1>3. 0 \in Byte /\ 1 \in Byte /\ m.quirks \in Byte
    BY ByteSizeNat, StateSizes DEF Byte
<1>4. SUFFICES ASSUME NEW i \in Offsets PROVE Serialize(m)[i] \in Byte
    BY DEF Serialize
<1>5. CASE i \in 0 .. 23
    <2>1. \/ i \in 0 .. 3 \/ i \in {4 + k : k \in 0 .. 1} \/ i \in {6 + k : k \in 0 .. 1}
          \/ i \in {8 + k : k \in 0 .. 1} \/ i \in {10 + k : k \in 0 .. 3}
          \/ i \in 14 .. 19 \/ i \in {20 + k : k \in 0 .. 3}
        BY <1>5
    <2>2. CASE i \in 0 .. 3
        BY <2>2, <1>1, StateSizes, SerializedBytes
    <2>3. CASE i \in {4 + k : k \in 0 .. 1}
        BY <2>3, <1>2, StateSizes, SerializedBytes
    <2>4. CASE i \in {6 + k : k \in 0 .. 1}
        BY <2>4, <1>2, SerializedBytes
    <2>5. CASE i \in {8 + k : k \in 0 .. 1}
        BY <2>5, <1>2, SerializedBytes
    <2>6. CASE i \in {10 + k : k \in 0 .. 3}
        BY <2>6, <1>1, SerializedBytes
    <2>7. CASE i \in 14 .. 19
        BY <2>7, <1>3, SerializedBytes
    <2>8. CASE i \in {20 + k : k \in 0 .. 3}
        BY <2>8, <1>1, SerializedBytes
    <2> QED BY <2>1, <2>2, <2>3, <2>4, <2>5, <2>6, <2>7, <2>8
<1>6. CASE i \notin 0 .. 23
    <2>1. \/ \E r \in Registers : i = RegisterOffset + r
          \/ \E slot \in Slots, k \in {0, 1} : i = StackOffset + 2 * slot + k
          \/ \E pixel \in PixelBytes : i = DisplayOffset + pixel
          \/ \E address \in Address : i = MemoryOffset + address
        <3>1. i \in Int
            BY Layout DEF Offsets
        <3>2. /\ i = RegisterOffset + (i - RegisterOffset)
              /\ i = DisplayOffset + (i - DisplayOffset)
              /\ i = MemoryOffset + (i - MemoryOffset)
            BY <3>1, Layout
        <3>3. \/ i - RegisterOffset \in Registers
              \/ \E slot \in Slots, k \in {0, 1} : i = StackOffset + 2 * slot + k
              \/ i - DisplayOffset \in PixelBytes
              \/ i - MemoryOffset \in Address
            BY <1>6, Parts
        <3> QED BY <3>2, <3>3
    <2>2. ASSUME NEW r \in Registers, i = RegisterOffset + r PROVE Serialize(m)[i] \in Byte
        BY <2>2, SerializedBytes
    <2>3. ASSUME NEW slot \in Slots, NEW k \in {0, 1}, i = StackOffset + 2 * slot + k
          PROVE  Serialize(m)[i] \in Byte
        BY <2>3, <1>2, SerializedBytes
    <2>4. ASSUME NEW pixel \in PixelBytes, i = DisplayOffset + pixel
          PROVE  Serialize(m)[i] \in Byte
        <3>1. Serialize(m)[i] = m.display[pixel]
            BY <2>4, SerializedBytes
        <3>2. m.display[pixel] \in {0, 1}
            OBVIOUS
        <3> QED BY <3>1, <3>2, <1>3
    <2>5. ASSUME NEW address \in Address, i = MemoryOffset + address
          PROVE  Serialize(m)[i] \in Byte
        BY <2>5, SerializedBytes
    <2> QED BY <2>1, <2>2, <2>3, <2>4, <2>5
<1> QED BY <1>5, <1>6

\* Loading what was saved restores every field.
THEOREM RoundTrip ==
    ASSUME NEW m \in TypedMachines
    PROVE  Unserialized(Serialize(m)) = m
<1> USE Fields
<1> DEFINE bytes == Serialize(m)
           u == Unserialized(bytes)
<1>1. u.programCounter = m.programCounter
    BY SerializedBytes, WriteWord16 DEF Unserialized, ReadUInt16
<1>2. u.indexRegister = m.indexRegister
    BY SerializedBytes, WriteWord16 DEF Unserialized, ReadUInt16
<1>3. u.random = m.random
    BY SerializedBytes, WriteWord32 DEF Unserialized, ReadUInt32
<1>4. u.phase = m.phase
    BY SerializedBytes, WriteWord32 DEF Unserialized, ReadUInt32
<1>5. /\ u.delay = m.delay /\ u.sound = m.sound
      /\ u.stackPointer = m.stackPointer /\ u.quirks = m.quirks
    BY SerializedBytes DEF Unserialized
<1>6. u.halted = m.halted
    <2>1. u.halted = (bytes[17] # 0) /\ bytes[17] = IF m.halted THEN 1 ELSE 0
        BY SerializedBytes DEF Unserialized
    <2> HIDE DEF u, bytes
    <2>2. m.halted = TRUE \/ m.halted = FALSE
        OBVIOUS
    <2>3. CASE m.halted = TRUE
        <3>1. bytes[17] = 1
            BY <2>1, <2>3
        <3>2. u.halted = (1 # 0)
            BY ONLY <3>1, <2>1
        <3>3. (1 # 0) = TRUE
            OBVIOUS
        <3> QED BY ONLY <3>2, <3>3, <2>3, Zenon
    <2>4. CASE m.halted = FALSE
        <3>1. bytes[17] = 0
            BY <2>1, <2>4
        <3>2. u.halted = (0 # 0)
            BY ONLY <3>1, <2>1
        <3>3. (0 # 0) = FALSE
            OBVIOUS
        <3> QED BY ONLY <3>2, <3>3, <2>4, Zenon
    <2> QED BY <2>2, <2>3, <2>4
<1>7. u.registers = m.registers
    <2>1. \A r \in Registers : bytes[RegisterOffset + r] = m.registers[r]
        BY SerializedBytes
    <2>2. u.registers = [r \in Registers |-> bytes[RegisterOffset + r]]
        BY DEF Unserialized
    <2> QED BY <2>1, <2>2
<1>8. u.stack = m.stack
    <2>1. ASSUME NEW slot \in Slots PROVE ReadUInt16(bytes, StackOffset + 2 * slot) = m.stack[slot]
        <3>1. /\ bytes[StackOffset + 2 * slot] = Digit(m.stack[slot], 0)
              /\ bytes[(StackOffset + 2 * slot) + 1] = Digit(m.stack[slot], 1)
            <4>1. StackOffset + 2 * slot + 0 = StackOffset + 2 * slot
                BY Layout DEF Slots
            <4> QED BY <4>1, SerializedBytes
        <3> QED BY <3>1, WriteWord16 DEF ReadUInt16
    <2>2. u.stack = [slot \in Slots |-> ReadUInt16(bytes, StackOffset + 2 * slot)]
        BY DEF Unserialized
    <2> QED BY <2>1, <2>2
<1>9. u.display = m.display
    <2>1. \A pixel \in PixelBytes : bytes[DisplayOffset + pixel] = m.display[pixel]
        BY SerializedBytes
    <2>2. u.display = [pixel \in PixelBytes |-> bytes[DisplayOffset + pixel]]
        BY DEF Unserialized
    <2> QED BY <2>1, <2>2
<1>10. u.memory = m.memory
    <2>1. \A address \in Address : bytes[MemoryOffset + address] = m.memory[address]
        BY SerializedBytes
    <2>2. u.memory = [address \in Address |-> bytes[MemoryOffset + address]]
        BY DEF Unserialized
    <2> QED BY <2>1, <2>2
<1>11. u = [programCounter |-> u.programCounter, indexRegister |-> u.indexRegister,
            random |-> u.random, delay |-> u.delay, sound |-> u.sound,
            stackPointer |-> u.stackPointer, halted |-> u.halted, quirks |-> u.quirks,
            phase |-> u.phase, registers |-> u.registers, stack |-> u.stack,
            display |-> u.display, memory |-> u.memory]
    BY DEF Unserialized
<1>12. m = [programCounter |-> m.programCounter, indexRegister |-> m.indexRegister,
            random |-> m.random, delay |-> m.delay, sound |-> m.sound,
            stackPointer |-> m.stackPointer, halted |-> m.halted, quirks |-> m.quirks,
            phase |-> m.phase, registers |-> m.registers, stack |-> m.stack,
            display |-> m.display, memory |-> m.memory]
    BY DEF TypedMachines
<1> HIDE DEF bytes, u
<1> QED BY <1>1, <1>2, <1>3, <1>4, <1>5, <1>6, <1>7, <1>8, <1>9, <1>10, <1>11, <1>12
        DEF u, bytes

----------------------------------------------------------------------------
(* Loading and saving back.                                                *)

\* What is read from accepted bytes is a machine the interpreter can run.
THEOREM AcceptedRunnable ==
    ASSUME NEW bytes \in [Offsets -> Byte], Accepts(bytes)
    PROVE  Unserialized(bytes) \in Machines
<1> DEFINE u == Unserialized(bytes)
<1>1. \A i \in 0 .. 23 : bytes[i] \in Byte
    BY Elements
<1>2. u.programCounter \in UInt16 /\ u.indexRegister \in UInt16
    BY <1>1, ReadWord16 DEF Unserialized, ReadUInt16
<1>3. u.random \in UInt32 /\ u.phase \in UInt32
    BY HeaderWord32 DEF Unserialized
<1>4. /\ u.delay \in Byte /\ u.sound \in Byte /\ u.stackPointer \in Byte
      /\ u.halted \in BOOLEAN
    BY <1>1 DEF Unserialized
<1>5. u.quirks \in 0 .. QuirkLimit - 1
    BY <1>1, StateSizes DEF Unserialized, Accepts, Byte
<1>6. u.registers \in [Registers -> Byte]
    BY Elements DEF Unserialized
<1>7. u.stack \in [Slots -> UInt16]
    <2>1. ASSUME NEW slot \in Slots
          PROVE  ReadUInt16(bytes, StackOffset + 2 * slot) \in UInt16
        <3>1. /\ StackOffset + 2 * slot + 0 = StackOffset + 2 * slot
              /\ StackOffset + 2 * slot + 1 = (StackOffset + 2 * slot) + 1
            BY Layout DEF Slots
        <3>2. /\ StackOffset + 2 * slot + 0 \in Offsets
              /\ StackOffset + 2 * slot + 1 \in Offsets
            BY Elements
        <3>3. /\ bytes[StackOffset + 2 * slot] \in Byte
              /\ bytes[(StackOffset + 2 * slot) + 1] \in Byte
            BY <3>1, <3>2
        <3> QED BY <3>3, ReadWord16 DEF ReadUInt16
    <2> QED BY <2>1 DEF Unserialized
<1>8. u.display \in [PixelBytes -> {0, 1}]
    <2>1. ASSUME NEW pixel \in PixelBytes PROVE bytes[DisplayOffset + pixel] \in {0, 1}
        <3>1. bytes[DisplayOffset + pixel] \in Byte
            BY Elements
        <3>2. bytes[DisplayOffset + pixel] <= 1
            BY DEF Accepts
        <3> QED BY <3>1, <3>2, ByteSizeNat DEF Byte
    <2> QED BY <2>1 DEF Unserialized
<1>9. u.memory \in [Address -> Byte]
    BY Elements DEF Unserialized
<1>10. u \in TypedMachines
    <2>1. u = [programCounter |-> u.programCounter, indexRegister |-> u.indexRegister,
               random |-> u.random, delay |-> u.delay, sound |-> u.sound,
               stackPointer |-> u.stackPointer, halted |-> u.halted, quirks |-> u.quirks,
               phase |-> u.phase, registers |-> u.registers, stack |-> u.stack,
               display |-> u.display, memory |-> u.memory]
        BY DEF Unserialized
    <2> HIDE DEF u
    <2> QED BY <1>2, <1>3, <1>4, <1>5, <1>6, <1>7, <1>8, <1>9, <2>1 DEF TypedMachines
<1> QED BY <1>10 DEF Accepts, Machines

\* No byte of an accepted buffer is ignored: the machine it holds is saved as
\* the same bytes.
THEOREM Canonical ==
    ASSUME NEW bytes \in [Offsets -> Byte], Accepts(bytes)
    PROVE  Serialize(Unserialized(bytes)) = bytes
<1> DEFINE u == Unserialized(bytes)
           again == Serialize(u)
<1>1. \A i \in 0 .. 23 : bytes[i] \in Byte
    BY Elements
<1>2. \A i \in 0 .. 3 : again[i] = bytes[i]
    <2>1. StateMagic = ReadUInt32(bytes, 0)
        BY DEF Accepts
    <2>2. \A i \in 0 .. 3 : Digit(StateMagic, i) = bytes[0 + i]
        BY <2>1, HeaderWord32
    <2> QED BY <2>2, SerializedBytes
<1>3. \A i \in 0 .. 1 : again[4 + i] = bytes[4 + i]
    <2>1. StateVersion = bytes[4] + ByteSize * bytes[5]
        BY DEF Accepts, ReadUInt16
    <2>2. \A i \in 0 .. 1 : Digit(StateVersion, i) = bytes[4 + i]
        BY <1>1, <2>1, ReadWord16
    <2> QED BY <2>2, SerializedBytes
<1>4. \A i \in 0 .. 1 : again[6 + i] = bytes[6 + i]
    <2>1. u.programCounter = bytes[6] + ByteSize * bytes[7]
        BY DEF Unserialized, ReadUInt16
    <2>2. \A i \in 0 .. 1 : Digit(u.programCounter, i) = bytes[6 + i]
        BY <1>1, <2>1, ReadWord16
    <2> QED BY <2>2, SerializedBytes
<1>5. \A i \in 0 .. 1 : again[8 + i] = bytes[8 + i]
    <2>1. u.indexRegister = bytes[8] + ByteSize * bytes[9]
        BY DEF Unserialized, ReadUInt16
    <2>2. \A i \in 0 .. 1 : Digit(u.indexRegister, i) = bytes[8 + i]
        BY <1>1, <2>1, ReadWord16
    <2> QED BY <2>2, SerializedBytes
<1>6. \A i \in 0 .. 3 : again[10 + i] = bytes[10 + i]
    <2>1. u.random = ReadUInt32(bytes, 10)
        BY DEF Unserialized
    <2>2. \A i \in 0 .. 3 : Digit(u.random, i) = bytes[10 + i]
        BY <2>1, HeaderWord32
    <2> QED BY <2>2, SerializedBytes
<1>7. \A i \in 0 .. 3 : again[20 + i] = bytes[20 + i]
    <2>1. u.phase = ReadUInt32(bytes, 20)
        BY DEF Unserialized
    <2>2. \A i \in 0 .. 3 : Digit(u.phase, i) = bytes[20 + i]
        BY <2>1, HeaderWord32
    <2> QED BY <2>2, SerializedBytes
<1>8. \A i \in {14, 15, 16, 18, 19} : again[i] = bytes[i]
    BY SerializedBytes DEF Unserialized, Accepts
<1>9. again[17] = bytes[17]
    <2>1. bytes[17] = 0 \/ bytes[17] = 1
        BY <1>1, ByteSizeNat DEF Accepts, Byte
    <2>2. u.halted = (bytes[17] # 0) /\ again[17] = IF u.halted THEN 1 ELSE 0
        BY SerializedBytes DEF Unserialized
    <2> HIDE DEF u, again
    <2> QED BY <2>1, <2>2
<1>10. \A r \in Registers : again[RegisterOffset + r] = bytes[RegisterOffset + r]
    <2>1. \A r \in Registers : u.registers[r] = bytes[RegisterOffset + r]
        BY DEF Unserialized
    <2> QED BY <2>1, SerializedBytes
<1>11. \A pixel \in PixelBytes : again[DisplayOffset + pixel] = bytes[DisplayOffset + pixel]
    <2>1. \A pixel \in PixelBytes : u.display[pixel] = bytes[DisplayOffset + pixel]
        BY DEF Unserialized
    <2> QED BY <2>1, SerializedBytes
<1>12. \A address \in Address : again[MemoryOffset + address] = bytes[MemoryOffset + address]
    <2>1. \A address \in Address : u.memory[address] = bytes[MemoryOffset + address]
        BY DEF Unserialized
    <2> QED BY <2>1, SerializedBytes
<1>13. ASSUME NEW slot \in Slots, NEW k \in {0, 1}
       PROVE  again[StackOffset + 2 * slot + k] = bytes[StackOffset + 2 * slot + k]
    <2>1. /\ StackOffset + 2 * slot + 0 = StackOffset + 2 * slot
          /\ StackOffset + 2 * slot + 1 = (StackOffset + 2 * slot) + 1
        BY Layout DEF Slots
    <2>2. /\ StackOffset + 2 * slot + 0 \in Offsets
          /\ StackOffset + 2 * slot + 1 \in Offsets
        BY Elements
    <2>3. /\ bytes[StackOffset + 2 * slot] \in Byte
          /\ bytes[(StackOffset + 2 * slot) + 1] \in Byte
        BY <2>1, <2>2
    <2>4. u.stack[slot] = bytes[StackOffset + 2 * slot]
                            + ByteSize * bytes[(StackOffset + 2 * slot) + 1]
        BY DEF Unserialized, ReadUInt16
    <2>5. /\ Digit(u.stack[slot], 0) = bytes[StackOffset + 2 * slot]
          /\ Digit(u.stack[slot], 1) = bytes[(StackOffset + 2 * slot) + 1]
        BY <2>3, <2>4, ReadWord16
    <2>6. again[StackOffset + 2 * slot + k] = Digit(u.stack[slot], k)
        BY SerializedBytes
    <2>7. CASE k = 0
        BY <2>7, <2>6, <2>5, <2>1
    <2>8. CASE k = 1
        BY <2>8, <2>6, <2>5, <2>1
    <2> QED BY <2>7, <2>8
<1>14. again \in [Offsets -> Byte]
    BY AcceptedRunnable, SerializeTyped DEF Machines
<1>15. ASSUME NEW i \in Offsets PROVE again[i] = bytes[i]
    <2> HIDE DEF u, again
    <2>1. CASE i \in 0 .. 23
        <3>1. \/ i \in 0 .. 3 \/ i = 4 + 0 \/ i = 4 + 1 \/ i = 6 + 0 \/ i = 6 + 1
              \/ i = 8 + 0 \/ i = 8 + 1
              \/ i = 10 + 0 \/ i = 10 + 1 \/ i = 10 + 2 \/ i = 10 + 3
              \/ i \in {14, 15, 16, 18, 19} \/ i = 17
              \/ i = 20 + 0 \/ i = 20 + 1 \/ i = 20 + 2 \/ i = 20 + 3
            BY <2>1
        <3> QED BY <3>1, <1>2, <1>3, <1>4, <1>5, <1>6, <1>7, <1>8, <1>9
    <2>2. CASE i \notin 0 .. 23
        <3>1. i \in Int
            BY Layout DEF Offsets
        <3>2. /\ i = RegisterOffset + (i - RegisterOffset)
              /\ i = DisplayOffset + (i - DisplayOffset)
              /\ i = MemoryOffset + (i - MemoryOffset)
            BY <3>1, Layout
        <3>3. \/ i - RegisterOffset \in Registers
              \/ \E slot \in Slots, k \in {0, 1} : i = StackOffset + 2 * slot + k
              \/ i - DisplayOffset \in PixelBytes
              \/ i - MemoryOffset \in Address
            BY <2>2, Parts
        <3> QED BY <3>2, <3>3, <1>10, <1>11, <1>12, <1>13
    <2> QED BY <2>1, <2>2
<1> HIDE DEF again, u
<1>16. again = bytes
    BY <1>14, <1>15
<1> QED BY <1>16 DEF again, u

----------------------------------------------------------------------------
(* Saved states: the invariants.                                           *)

\* A machine that can be run, saved, is accepted.
LEMMA SavedAccepted ==
    ASSUME NEW m \in Machines
    PROVE  Serialize(m) \in [Offsets -> Byte] /\ Accepts(Serialize(m))
<1>1. m \in TypedMachines /\ Runnable(m)
    BY DEF Machines
<1>2. Serialize(m) \in [Offsets -> Byte] /\ Unserialized(Serialize(m)) = m
    BY <1>1, SerializeTyped, RoundTrip
<1>3. ReadUInt32(Serialize(m), 0) = StateMagic
    BY SerializedBytes, StateSizes, WriteWord32 DEF ReadUInt32
<1>4. ReadUInt16(Serialize(m), 4) = StateVersion
    BY SerializedBytes, StateSizes, WriteWord16 DEF ReadUInt16
<1>5. /\ Serialize(m)[17] <= 1 /\ Serialize(m)[19] = 0
      /\ Serialize(m)[18] < QuirkLimit
    BY <1>1, SerializedBytes, Fields, StateSizes
<1>6. \A pixel \in PixelBytes : Serialize(m)[DisplayOffset + pixel] <= 1
    <2>1. \A pixel \in PixelBytes : m.display[pixel] \in {0, 1}
        BY <1>1, Fields
    <2>2. \A pixel \in PixelBytes : Serialize(m)[DisplayOffset + pixel] = m.display[pixel]
        BY SerializedBytes
    <2> QED BY <2>1, <2>2
<1> QED BY <1>1, <1>2, <1>3, <1>4, <1>5, <1>6 DEF Accepts

\* The buffer is the state of what was saved, until a byte of it changes.
BufferOfSaved == saved # NoState => buffer = Serialize(saved)

StateInv == StateTypeOK /\ BufferOfSaved

LEMMA StateInitInv == StateInit => StateInv
<1> SUFFICES ASSUME StateInit PROVE StateInv
    OBVIOUS
<1>1. Reached \subseteq Machines /\ MaxDamage \in Nat
    BY ONLY StateAssumption DEF StateAssumption
<1> QED BY <1>1 DEF StateInit, StateInv, StateTypeOK, BufferOfSaved

LEMMA StateNextInv == StateInv /\ [StateNext]_stateVars => StateInv'
<1> SUFFICES ASSUME StateInv, [StateNext]_stateVars PROVE StateInv'
    OBVIOUS
<1> USE DEF StateInv, StateTypeOK, BufferOfSaved
<1>1. Reached \subseteq Machines /\ MaxDamage \in Nat
    BY ONLY StateAssumption DEF StateAssumption
<1>2. CASE Execute
    BY <1>2, <1>1 DEF Execute
<1>3. CASE Save
    <2>1. Serialize(machine) \in [Offsets -> Byte]
        BY SavedAccepted
    <2> QED BY <1>3, <2>1, NoStateAssumption DEF Save
<1>4. ASSUME NEW at \in Offsets, NEW byte \in Byte, Damage(at, byte) PROVE StateInv'
    <2>1. buffer' \in [Offsets -> Byte]
        BY <1>4 DEF Damage
    <2> QED BY <1>4, <2>1, <1>1 DEF Damage
<1>5. CASE Load
    <2>1. Unserialized(buffer) \in Machines
        BY <1>5, AcceptedRunnable DEF Load
    <2> QED BY <1>5, <2>1 DEF Load
<1>6. CASE UNCHANGED stateVars
    BY <1>6 DEF stateVars
<1> QED BY <1>2, <1>3, <1>4, <1>5, <1>6 DEF StateNext

LEMMA StateAlwaysInv == StateSpec => []StateInv
BY StateInitInv, StateNextInv, PTL DEF StateSpec

\* The machine can always be run, whatever bytes were loaded into it
\* (Unserialize, Chip8Core.cs:237-298).
THEOREM StateTypeCorrect == StateSpec => []StateTypeOK
<1>1. StateInv => StateTypeOK
    BY DEF StateInv
<1> QED BY <1>1, StateAlwaysInv, PTL

\* Every state that was saved, whatever the sizes, is accepted and restored
\* field for field (Serialize and Unserialize, Chip8Core.cs:205-298).
THEOREM SavedStatesReload == StateSpec => []SavedStateReloads
<1>1. StateInv => SavedStateReloads
    <2> SUFFICES ASSUME StateInv, saved # NoState
                 PROVE  Accepts(buffer) /\ Unserialized(buffer) = saved
        BY DEF SavedStateReloads
    <2>1. saved \in Machines /\ buffer = Serialize(saved)
        BY DEF StateInv, StateTypeOK, BufferOfSaved
    <2>2. saved \in TypedMachines
        BY <2>1 DEF Machines
    <2> QED BY <2>1, <2>2, SavedAccepted, RoundTrip
<1> QED BY <1>1, StateAlwaysInv, PTL

\* Every buffer that is accepted, however it came about, is the saved state of
\* the machine it holds.
THEOREM AcceptedStatesCanonical == StateSpec => []AcceptedStateCanonical
<1>1. StateInv => AcceptedStateCanonical
    BY Canonical DEF StateInv, StateTypeOK, AcceptedStateCanonical
<1> QED BY <1>1, StateAlwaysInv, PTL

----------------------------------------------------------------------------
(* The generator: the three steps of a draw.                               *)

\* The width, alone.
LEMMA WidthNat == WordWidth \in Nat
BY ONLY RandomAssumption DEF RandomAssumption

\* A step of a draw gives a word.
LEMMA XorTyped ==
    ASSUME NEW w \in Words, NEW n \in Nat
    PROVE  XorLeft(w, n) \in Words /\ XorRight(w, n) \in Words
<1>1. ShiftLeft(w, n) \in Words
    <2>1. ASSUME NEW i \in Bits, i >= n PROVE w[i - n] \in {0, 1}
        BY <2>1, WidthNat DEF Words, Bits
    <2> QED BY <2>1 DEF ShiftLeft, Words
<1>2. ShiftRight(w, n) \in Words
    <2>1. ASSUME NEW i \in Bits, i + n < WordWidth PROVE w[i + n] \in {0, 1}
        BY <2>1, WidthNat DEF Words, Bits
    <2> QED BY <2>1 DEF ShiftRight, Words
<1>3. ASSUME NEW a \in {0, 1}, NEW b \in {0, 1} PROVE (a + b) % 2 \in {0, 1}
    OBVIOUS
<1>4. ASSUME NEW v \in Words PROVE Xor(w, v) \in Words
    <2>1. ASSUME NEW i \in Bits PROVE (w[i] + v[i]) % 2 \in {0, 1}
        <3>1. w[i] \in {0, 1} /\ v[i] \in {0, 1}
            BY DEF Words
        <3> QED BY <3>1, <1>3
    <2> QED BY <2>1 DEF Xor, Words
<1> QED BY <1>1, <1>2, <1>4 DEF XorLeft, XorRight

\* The bits of one step: those a shift moves another onto, and the others.
LEMMA XorBits ==
    ASSUME NEW w \in Words, NEW n \in Nat, NEW i \in Bits
    PROVE  /\ i >= n => XorLeft(w, n)[i] = (w[i] + w[i - n]) % 2
           /\ ~(i >= n) => XorLeft(w, n)[i] = (w[i] + 0) % 2
           /\ i + n < WordWidth => XorRight(w, n)[i] = (w[i] + w[i + n]) % 2
           /\ ~(i + n < WordWidth) => XorRight(w, n)[i] = (w[i] + 0) % 2
<1>1. XorLeft(w, n)[i] = (w[i] + (IF i >= n THEN w[i - n] ELSE 0)) % 2
    BY DEF XorLeft, Xor, ShiftLeft
<1>2. XorRight(w, n)[i] = (w[i] + (IF i + n < WordWidth THEN w[i + n] ELSE 0)) % 2
    BY DEF XorRight, Xor, ShiftRight
<1> QED BY ONLY <1>1, <1>2

\* An exclusive-or with the same bit tells two bits apart.
LEMMA BitCancels ==
    ASSUME NEW a \in {0, 1}, NEW b \in {0, 1}, NEW c \in {0, 1}, (a + c) % 2 = (b + c) % 2
    PROVE  a = b
OBVIOUS

\* Two words with the same exclusive-or with their left shifts are the same.
LEMMA XorLeftInjective ==
    ASSUME NEW v \in Words, NEW w \in Words, NEW n \in Nat \ {0},
           XorLeft(v, n) = XorLeft(w, n)
    PROVE  v = w
<1> DEFINE D == {i \in Bits : v[i] # w[i]}
<1>1. SUFFICES ASSUME D # {} PROVE FALSE
    BY DEF Words
<1>2. D \in SUBSET Nat
    BY WidthNat DEF Bits
<1>3. PICK m \in D : \A i \in D : m <= i
    BY <1>1, <1>2, LeastNumber
<1>4. m \in Bits /\ m \in Nat /\ m < WordWidth
    BY WidthNat DEF Bits
<1>5. CASE m >= n
    <2>1. m - n \in Bits /\ m - n < m
        BY <1>4, <1>5, WidthNat DEF Bits
    <2>2. v[m - n] = w[m - n]
        BY <1>2, <1>3, <1>4, <2>1
    <2>3. v[m] \in {0, 1} /\ w[m] \in {0, 1} /\ w[m - n] \in {0, 1}
        BY <1>4, <2>1 DEF Words
    <2>4. /\ XorLeft(v, n)[m] = (v[m] + v[m - n]) % 2
          /\ XorLeft(w, n)[m] = (w[m] + w[m - n]) % 2
        BY <1>4, <1>5, XorBits
    <2>5. (v[m] + w[m - n]) % 2 = (w[m] + w[m - n]) % 2
        BY <2>2, <2>4
    <2> QED BY <2>3, <2>5, BitCancels
<1>6. CASE ~(m >= n)
    <2>1. v[m] \in {0, 1} /\ w[m] \in {0, 1}
        BY <1>4 DEF Words
    <2>2. /\ XorLeft(v, n)[m] = (v[m] + 0) % 2
          /\ XorLeft(w, n)[m] = (w[m] + 0) % 2
        BY <1>4, <1>6, XorBits
    <2>3. (v[m] + 0) % 2 = (w[m] + 0) % 2
        BY <2>2
    <2> QED BY <2>1, <2>3, BitCancels
<1> QED BY <1>5, <1>6

\* Two words with the same exclusive-or with their right shifts are the same.
LEMMA XorRightInjective ==
    ASSUME NEW v \in Words, NEW w \in Words, NEW n \in Nat \ {0},
           XorRight(v, n) = XorRight(w, n)
    PROVE  v = w
<1> DEFINE D == {d \in 0 .. WordWidth - 1 : v[WordWidth - 1 - d] # w[WordWidth - 1 - d]}
<1>1. SUFFICES ASSUME v # w PROVE FALSE
    OBVIOUS
<1>2. D \in SUBSET Nat /\ D # {}
    <2>1. PICK i \in Bits : v[i] # w[i]
        BY <1>1 DEF Words
    <2>2. WordWidth - 1 - i \in 0 .. WordWidth - 1 /\ WordWidth - 1 - (WordWidth - 1 - i) = i
        BY WidthNat DEF Bits
    <2>3. WordWidth - 1 - i \in D
        BY <2>1, <2>2
    <2> QED BY <2>3, WidthNat
<1>3. PICK d \in D : \A e \in D : d <= e
    BY <1>2, LeastNumber
<1> DEFINE m == WordWidth - 1 - d
<1>4. d \in Nat /\ d < WordWidth /\ m \in Bits /\ m \in Nat /\ v[m] # w[m]
    BY WidthNat DEF Bits
<1>5. CASE m + n < WordWidth
    <2>1. /\ m + n \in Bits /\ d - n \in 0 .. WordWidth - 1 /\ d - n < d
          /\ WordWidth - 1 - (d - n) = m + n
        BY <1>4, <1>5, WidthNat DEF Bits
    <2>2. d - n \notin D
        BY <1>3, <1>4, <2>1
    <2>3. v[m + n] = w[m + n]
        BY <2>1, <2>2
    <2> HIDE DEF m
    <2>4. v[m] \in {0, 1} /\ w[m] \in {0, 1} /\ w[m + n] \in {0, 1}
        BY <1>4, <2>1 DEF Words
    <2>5. /\ XorRight(v, n)[m] = (v[m] + v[m + n]) % 2
          /\ XorRight(w, n)[m] = (w[m] + w[m + n]) % 2
        BY <1>4, <1>5, XorBits
    <2>6. (v[m] + w[m + n]) % 2 = (w[m] + w[m + n]) % 2
        BY <2>3, <2>5
    <2> QED BY <1>4, <2>4, <2>6, BitCancels
<1>6. CASE ~(m + n < WordWidth)
    <2> HIDE DEF m
    <2>1. v[m] \in {0, 1} /\ w[m] \in {0, 1}
        BY <1>4 DEF Words
    <2>2. /\ XorRight(v, n)[m] = (v[m] + 0) % 2
          /\ XorRight(w, n)[m] = (w[m] + 0) % 2
        BY <1>4, <1>6, XorBits
    <2>3. (v[m] + 0) % 2 = (w[m] + 0) % 2
        BY <2>2
    <2> QED BY <1>4, <2>1, <2>3, BitCancels
<1> QED BY <1>5, <1>6

----------------------------------------------------------------------------
(* The generator: a draw.                                                  *)

\* The shifts, alone.
LEMMA Shifts == FirstLeft \in Nat \ {0} /\ Right \in Nat \ {0} /\ SecondLeft \in Nat \ {0}
BY ONLY RandomAssumption DEF RandomAssumption

LEMMA DrawnTyped == ASSUME NEW w \in Words PROVE NextWord(w) \in Words
<1>1. XorLeft(w, FirstLeft) \in Words
    BY Shifts, XorTyped
<1>2. XorRight(XorLeft(w, FirstLeft), Right) \in Words
    BY <1>1, Shifts, XorTyped
<1> QED BY <1>2, Shifts, XorTyped DEF NextWord

\* No two words draw the same word.
THEOREM DrawnInjective ==
    ASSUME NEW v \in Words, NEW w \in Words, NextWord(v) = NextWord(w)
    PROVE  v = w
<1> DEFINE v1 == XorLeft(v, FirstLeft)
           w1 == XorLeft(w, FirstLeft)
           v2 == XorRight(v1, Right)
           w2 == XorRight(w1, Right)
<1>1. v1 \in Words /\ w1 \in Words
    BY Shifts, XorTyped
<1>2. v2 \in Words /\ w2 \in Words
    <2> HIDE DEF v1, w1
    <2> QED BY <1>1, Shifts, XorTyped
<1>3. XorLeft(v2, SecondLeft) = XorLeft(w2, SecondLeft)
    BY DEF NextWord
<1>4. v2 = w2
    <2> HIDE DEF v2, w2
    <2> QED BY <1>2, <1>3, Shifts, XorLeftInjective
<1>5. v1 = w1
    <2>1. XorRight(v1, Right) = XorRight(w1, Right)
        BY <1>4
    <2> HIDE DEF v1, w1, v2, w2
    <2> QED BY <1>1, <2>1, Shifts, XorRightInjective
<1> QED BY <1>5, Shifts, XorLeftInjective

\* Zero draws zero.
LEMMA ZeroDrawn == Zero \in Words /\ NextWord(Zero) = Zero
<1>1. Zero \in Words
    BY DEF Zero, Words
<1>2. ASSUME NEW n \in Nat PROVE XorLeft(Zero, n) = Zero /\ XorRight(Zero, n) = Zero
    <2>1. \A i \in Bits : (i >= n => i - n \in Bits) /\ (i + n < WordWidth => i + n \in Bits)
        BY WidthNat DEF Bits
    <2>2. \A i \in Bits : XorLeft(Zero, n)[i] = 0 /\ XorRight(Zero, n)[i] = 0
        <3>1. \A i \in Bits : Zero[i] = 0
            BY DEF Zero
        <3> QED BY <1>1, <2>1, <3>1, XorBits
    <2>3. XorLeft(Zero, n) \in Words /\ XorRight(Zero, n) \in Words
        BY <1>1, XorTyped
    <2> QED BY <2>2, <2>3 DEF Words, Zero
<1> QED BY <1>1, <1>2, Shifts DEF NextWord

----------------------------------------------------------------------------
(* The generator: the invariants.                                          *)

RandomInv == RandomTypeOK /\ GeneratorAlive

LEMMA RandomNextInv == RandomInv /\ [RandomNext]_randomVars => RandomInv'
<1> SUFFICES ASSUME RandomInv, [RandomNext]_randomVars PROVE RandomInv'
    OBVIOUS
<1> USE DEF RandomInv, RandomTypeOK, GeneratorAlive
<1>1. Seed \in Words /\ Seed # Zero
    BY ONLY RandomAssumption DEF RandomAssumption
<1>2. CASE LoadContent \/ Reset \/ UnloadContent
    BY <1>1, <1>2 DEF LoadContent, Reset, UnloadContent, ResetMachine
<1>3. CASE NextRandomByte
    <2>1. NextWord(random) \in Words
        BY DrawnTyped
    <2>2. NextWord(random) # Zero
        BY <1>3, ZeroDrawn, DrawnInjective DEF NextRandomByte
    <2> QED BY <1>3, <2>1, <2>2 DEF NextRandomByte
<1>4. ASSUME NEW w \in Words, Unserialize(w) PROVE RandomInv'
    BY <1>4 DEF Unserialize
<1>5. CASE UNCHANGED randomVars
    BY <1>5 DEF randomVars
<1> QED BY <1>2, <1>3, <1>4, <1>5 DEF RandomNext

\* The generator of a loaded core is never zero, for every width, shifts and
\* seed (NextRandomByte, Chip8Core.cs:576-582, and the check of Unserialize).
THEOREM GeneratorAlwaysAlive == RandomSpec => []GeneratorAlive
<1>1. RandomInit => RandomInv
    BY ZeroDrawn DEF RandomInit, RandomInv, RandomTypeOK, GeneratorAlive
<1>2. RandomInv => GeneratorAlive
    BY DEF RandomInv
<1> QED BY <1>1, <1>2, RandomNextInv, PTL DEF RandomSpec

\* No draw of any reachable generator forgets where it came from.
THEOREM DrawAlwaysInjective == RandomSpec => DrawInjective
<1>1. RandomInit => RandomInv
    BY ZeroDrawn DEF RandomInit, RandomInv, RandomTypeOK, GeneratorAlive
<1>2. RandomInv /\ [RandomNext]_randomVars
        => [NextRandomByte =>
              \A other \in Words : NextWord(other) = random' => other = random]_randomVars
    BY DrawnInjective DEF RandomInv, RandomTypeOK, NextRandomByte
<1> QED BY <1>1, <1>2, RandomNextInv, PTL DEF RandomSpec, DrawInjective

\* The generator is always a word.
THEOREM RandomTypeCorrect == RandomSpec => []RandomTypeOK
<1>1. RandomInit => RandomInv
    BY ZeroDrawn DEF RandomInit, RandomInv, RandomTypeOK, GeneratorAlive
<1>2. RandomInv => RandomTypeOK
    BY DEF RandomInv
<1> QED BY <1>1, <1>2, RandomNextInv, PTL DEF RandomSpec

----------------------------------------------------------------------------
(* Sprites: steps on a torus.                                              *)

\* A step forward from an origin and the step back are inverse on a torus.
LEMMA ThereAndBack ==
    ASSUME NEW m \in Nat \ {0}, NEW from \in 0 .. m - 1, NEW step \in 0 .. m - 1,
           NEW to \in 0 .. m - 1
    PROVE  /\ (from + step) % m \in 0 .. m - 1
           /\ to = (from + step) % m <=> (to - from) % m = step
<1>1. (from + step) % m = IF from + step < m THEN from + step ELSE from + step - m
    BY Around
<1>2. (to - from) % m = IF to >= from THEN to - from ELSE to - from + m
    BY Around
<1> QED BY <1>1, <1>2

\* The way back from where a step leads.
LEMMA WayBack ==
    ASSUME NEW m \in Nat \ {0}, NEW from \in 0 .. m - 1, NEW step \in 0 .. m - 1
    PROVE  (((from + step) % m) - from) % m = step
<1>1. CASE from + step < m
    <2>1. (from + step) % m = from + step
        BY <1>1, Around
    <2>2. (from + step) - from = step /\ step % m = step
        BY Around
    <2> QED BY <2>1, <2>2
<1>2. CASE ~(from + step < m)
    <2>1. (from + step) % m = from + step - m
        <3>1. from + step \in Int /\ (from + step) - m \in 0 .. m - 1
            BY <1>2
        <3> QED BY <3>1, Around
    <2>2. (from + step - m) - from = step - m /\ (step - m) + m = step
        OBVIOUS
    <2>3. (step - m) % m = step
        BY <2>2, Around
    <2> QED BY <2>1, <2>2, <2>3
<1> QED BY <1>1, <1>2

\* Different steps from one origin end in different places.
LEMMA StepsDiffer ==
    ASSUME NEW m \in Nat \ {0}, NEW from \in 0 .. m - 1,
           NEW a \in 0 .. m - 1, NEW b \in 0 .. m - 1, (from + a) % m = (from + b) % m
    PROVE  a = b
<1>1. (from + a) % m = IF from + a < m THEN from + a ELSE from + a - m
    BY Around
<1>2. (from + b) % m = IF from + b < m THEN from + b ELSE from + b - m
    BY Around
<1> QED BY <1>1, <1>2

----------------------------------------------------------------------------
(* Sprites: pixels and targets.                                            *)

\* The sizes, alone.
LEMMA DisplaySizes ==
    /\ SpriteWidth \in Nat \ {0} /\ MaximumHeight \in Nat
    /\ Width \in Nat \ {0} /\ Height \in Nat \ {0}
    /\ SpriteWidth <= Width /\ MaximumHeight <= Height
BY ONLY DisplayAssumption DEF DisplayAssumption

\* The pixel at a place, and the place of a pixel.
LEMMA PixelAt ==
    ASSUME NEW x \in 0 .. Width - 1, NEW y \in 0 .. Height - 1
    PROVE  /\ y * Width + x \in Pixels
           /\ (y * Width + x) % Width = x /\ (y * Width + x) \div Width = y
<1>1. y * Width <= (Height - 1) * Width /\ y * Width >= 0
    BY DisplaySizes
<1>2. (Height - 1) * Width = Width * Height - Width
    BY DisplaySizes
<1>3. y * Width + x \in Pixels
    <2>1. y * Width \in Int /\ Width * Height \in Int
        BY DisplaySizes
    <2> QED BY <1>1, <1>2, <2>1, DisplaySizes DEF Pixels
<1>4. Width * y + x = y * Width + x
    BY DisplaySizes
<1> QED BY <1>3, <1>4, Remainder, DisplaySizes

\* Two pixels at the same place are the same, and the place is on the screen.
LEMMA PlaceOf ==
    ASSUME NEW p \in Pixels
    PROVE  /\ p % Width \in 0 .. Width - 1 /\ p \div Width \in 0 .. Height - 1
           /\ p = (p \div Width) * Width + (p % Width)
<1> DEFINE q == p \div Width
           r == p % Width
<1>1. q \in Nat /\ r \in 0 .. Width - 1 /\ p = q * Width + r /\ p < Width * Height /\ p \in Nat
    BY DisplaySizes DEF Pixels
<1> HIDE DEF q, r
<1>2. q <= Height - 1
    <2>1. SUFFICES ASSUME q >= Height PROVE FALSE
        BY <1>1, DisplaySizes
    <2>2. q * Width >= Height * Width
        BY <2>1, <1>1, DisplaySizes
    <2> QED BY <2>2, <1>1, DisplaySizes
<1> QED BY <1>1, <1>2, DisplaySizes DEF q, r

\* Where a bit of a call lands.
LEMMA TargetPlace ==
    ASSUME NEW c \in Calls, NEW at \in Columns \X Rows
    PROVE  /\ Target(c, at) \in Pixels
           /\ Target(c, at) % Width = (c.x + at[1]) % Width
           /\ Target(c, at) \div Width = (c.y + at[2]) % Height
           /\ (c.x + at[1]) % Width \in 0 .. Width - 1
           /\ (c.y + at[2]) % Height \in 0 .. Height - 1
<1>1. /\ c.x \in 0 .. Width - 1 /\ c.y \in 0 .. Height - 1
      /\ at[1] \in 0 .. Width - 1 /\ at[2] \in 0 .. Height - 1
    BY DisplaySizes DEF Calls, Columns, Rows
<1>2. /\ (c.x + at[1]) % Width \in 0 .. Width - 1
      /\ (c.y + at[2]) % Height \in 0 .. Height - 1
    BY <1>1, ThereAndBack, DisplaySizes
<1> QED BY <1>2, PixelAt DEF Target

\* Different bits have different targets.
LEMMA TargetsDiffer ==
    ASSUME NEW c \in Calls, NEW a \in Columns \X Rows, NEW b \in Columns \X Rows,
           Target(c, a) = Target(c, b)
    PROVE  a = b
<1>1. /\ c.x \in 0 .. Width - 1 /\ c.y \in 0 .. Height - 1
      /\ a[1] \in 0 .. Width - 1 /\ a[2] \in 0 .. Height - 1
      /\ b[1] \in 0 .. Width - 1 /\ b[2] \in 0 .. Height - 1
    BY DisplaySizes DEF Calls, Columns, Rows
<1>2. /\ (c.x + a[1]) % Width = (c.x + b[1]) % Width
      /\ (c.y + a[2]) % Height = (c.y + b[2]) % Height
    BY TargetPlace
<1>3. a[1] = b[1]
    BY <1>1, <1>2, StepsDiffer, DisplaySizes
<1>4. a[2] = b[2]
    BY <1>1, <1>2, StepsDiffer, DisplaySizes
<1>5. a = <<a[1], a[2]>> /\ b = <<b[1], b[2]>>
    OBVIOUS
<1> QED BY <1>3, <1>4, <1>5

----------------------------------------------------------------------------
(* Sprites: the loop.                                                      *)

\* The bit the loop looks at next.
Current == <<column, row>>

LEMMA InitTypeOK == DisplayInit => DisplayTypeOK
<1> SUFFICES ASSUME DisplayInit PROVE DisplayTypeOK
    OBVIOUS
<1>1. display \in SUBSET Pixels /\ flag \in BOOLEAN /\ call = NoSprite /\ row = 0 /\ column = 0
      /\ before = [display |-> display, flag |-> flag]
    BY DEF DisplayInit
<1> QED BY <1>1 DEF DisplayTypeOK

\* What is known while the loop runs.
LEMMA Running ==
    ASSUME DisplayTypeOK, call # NoSprite
    PROVE  /\ call \in Calls
           /\ call.height \in 1 .. MaximumHeight /\ call.clip \in BOOLEAN
           /\ call.x \in 0 .. Width - 1 /\ call.y \in 0 .. Height - 1
           /\ call.sprite \subseteq Columns \X (0 .. call.height - 1)
           /\ Columns \X (0 .. call.height - 1) \subseteq Columns \X Rows
           /\ row \in Nat /\ column \in Nat
           /\ row < call.height => Current \in Columns \X Rows
<1>1. call \in Calls /\ row \in Nat /\ column \in Nat /\ column < SpriteWidth
    BY DEF DisplayTypeOK
<1>2. PICK h \in 1 .. MaximumHeight :
        call \in [sprite : Sprites(h), height : {h}, x : 0 .. Width - 1,
                  y : 0 .. Height - 1, clip : BOOLEAN]
    BY <1>1 DEF Calls
<1>3. call.height = h /\ call.sprite \in Sprites(h) /\ call.clip \in BOOLEAN
      /\ call.x \in 0 .. Width - 1 /\ call.y \in 0 .. Height - 1
    BY <1>2
<1>4. 0 .. h - 1 \subseteq Rows
    BY DisplaySizes DEF Rows
<1>5. row < call.height => Current \in Columns \X Rows
    BY <1>1, <1>3, DisplaySizes DEF Current, Columns, Rows
<1> QED BY <1>1, <1>3, <1>4, <1>5 DEF Sprites

\* A call with the origin reduced is one of the calls.
LEMMA CallTyped ==
    ASSUME NEW x \in Coordinates, NEW y \in Coordinates, NEW height \in 1 .. MaximumHeight,
           NEW clip \in BOOLEAN, NEW sprite \in Sprites(height)
    PROVE  [sprite |-> sprite, height |-> height,
            x |-> x % Width, y |-> y % Height, clip |-> clip] \in Calls
<1>1. x \in Nat /\ y \in Nat
    BY ONLY DisplayAssumption DEF DisplayAssumption
<1>2. x % Width \in 0 .. Width - 1 /\ y % Height \in 0 .. Height - 1
    BY <1>1, DisplaySizes
<1>3. height \in {height}
    OBVIOUS
<1> DEFINE c == [sprite |-> sprite, height |-> height,
                 x |-> x % Width, y |-> y % Height, clip |-> clip]
<1>4. c \in [sprite : Sprites(height), height : {height}, x : 0 .. Width - 1,
             y : 0 .. Height - 1, clip : BOOLEAN]
    BY <1>2, <1>3
<1> HIDE DEF c
<1> QED BY <1>4 DEF Calls, c

LEMMA NextTypeOK == DisplayTypeOK /\ [DisplayNext]_displayVars => DisplayTypeOK'
<1> SUFFICES ASSUME DisplayTypeOK, [DisplayNext]_displayVars PROVE DisplayTypeOK'
    OBVIOUS
<1>1. ASSUME NEW x \in Coordinates, NEW y \in Coordinates, NEW height \in 1 .. MaximumHeight,
             NEW clip \in BOOLEAN, NEW sprite \in Sprites(height),
             DrawSprite(x, y, height, sprite, clip)
      PROVE  DisplayTypeOK'
    <2>1. call' \in Calls /\ call'.height = height /\ height \in Nat /\ height >= 1
        BY <1>1, CallTyped DEF DrawSprite
    <2>2. before' \in [display : SUBSET Pixels, flag : BOOLEAN]
        BY <1>1 DEF DisplayTypeOK, DrawSprite
    <2>3. row' = 0 /\ column' = 0 /\ column' < SpriteWidth
        BY <1>1, DisplaySizes DEF DrawSprite
    <2>4. display' \subseteq Pixels /\ flag' \in BOOLEAN
        BY <1>1 DEF DisplayTypeOK, DrawSprite
    <2> QED BY <2>1, <2>2, <2>3, <2>4 DEF DisplayTypeOK
<1>2. CASE DrawBit
    <2>1. call # NoSprite /\ row < call.height /\ call' = call /\ before' = before
        BY <1>2 DEF DrawBit
    <2>2. Target(call, Current) \in Pixels
        BY <2>1, Running, TargetPlace
    <2>3. display' \subseteq Pixels /\ flag' \in BOOLEAN
        <3>1. CASE Drawn(call, <<column, row>>)
            BY <1>2, <2>2, <3>1 DEF DrawBit, Invert, DisplayTypeOK, Current
        <3>2. CASE ~Drawn(call, <<column, row>>)
            BY <1>2, <3>2 DEF DrawBit, DisplayTypeOK
        <3> QED BY <3>1, <3>2
    <2>4. /\ row' \in Nat /\ column' \in Nat /\ row' <= call.height
          /\ column' < SpriteWidth /\ (row' = call.height => column' = 0)
        BY <1>2, <2>1, Running, DisplaySizes DEF DrawBit, Advance, DisplayTypeOK
    <2> QED BY <2>1, <2>3, <2>4 DEF DisplayTypeOK
<1>3. CASE Return
    BY <1>3 DEF Return, DisplayTypeOK
<1>4. CASE ClearDisplay
    BY <1>4 DEF ClearDisplay, DisplayTypeOK
<1>5. CASE WriteFlag
    BY <1>5 DEF WriteFlag, DisplayTypeOK
<1>6. CASE UNCHANGED displayVars
    BY <1>6 DEF displayVars, DisplayTypeOK
<1> QED BY <1>1, <1>2, <1>3, <1>4, <1>5, <1>6 DEF DisplayNext

\* Inverting one more pixel, one that is not among those inverted before.
LEMMA OneMore ==
    ASSUME NEW old, NEW hit, NEW p, p \notin hit
    PROVE  LET now == (old \ hit) \cup (hit \ old)
               one == IF p \in now THEN now \ {p} ELSE now \cup {p}
               more == hit \cup {p}
           IN  /\ p \in now <=> p \in old
               /\ one = (old \ more) \cup (more \ old)
               /\ (old \cap more # {}) = ((old \cap hit # {}) \/ p \in now)
<1>1. p \in (old \ hit) \cup (hit \ old) <=> p \in old
    OBVIOUS
<1>2. CASE p \in old
    BY <1>1, <1>2
<1>3. CASE p \notin old
    BY <1>1, <1>3
<1> QED BY <1>2, <1>3

\* The loop passes one bit at a time.
LEMMA VisitsOne ==
    ASSUME DisplayTypeOK, DrawBit
    PROVE  /\ Current \in Columns \X Rows
           /\ Current \notin Visited
           /\ Visited' = Visited \cup {Current}
<1>1. call # NoSprite /\ row < call.height /\ Advance
    BY DEF DrawBit
<1>2. row \in Nat /\ column \in Nat /\ column < SpriteWidth /\ Current \in Columns \X Rows
    BY <1>1, Running DEF DisplayTypeOK
<1>3. Current \notin Visited
    BY <1>2 DEF Visited, Current
<1>4. ASSUME NEW at \in Columns \X Rows
      PROVE  (at[2] < row' \/ (at[2] = row' /\ at[1] < column'))
               <=> ((at[2] < row \/ (at[2] = row /\ at[1] < column)) \/ at = Current)
    <2>1. at = <<at[1], at[2]>> /\ at[1] \in Nat /\ at[2] \in Nat /\ at[1] < SpriteWidth
        BY DisplaySizes DEF Columns, Rows
    <2>2. at = Current <=> at[1] = column /\ at[2] = row
        BY <2>1 DEF Current
    <2>3. CASE column + 1 < SpriteWidth
        <3>1. column' = column + 1 /\ row' = row
            BY <1>1, <2>3 DEF Advance
        <3> QED BY <1>2, <2>1, <2>2, <3>1
    <2>4. CASE ~(column + 1 < SpriteWidth)
        <3>1. column' = 0 /\ row' = row + 1 /\ column = SpriteWidth - 1
            BY <1>1, <1>2, <2>4, DisplaySizes DEF Advance
        <3> QED BY <1>2, <2>1, <2>2, <3>1, DisplaySizes
    <2> QED BY <2>3, <2>4
<1> QED BY <1>2, <1>3, <1>4 DEF Visited

\* The pixels hit after one more bit.
LEMMA HitsOne ==
    ASSUME DisplayTypeOK, DrawBit
    PROVE  /\ call' = call /\ call \in Calls
           /\ Drawn(call, Current) => Target(call, Current) \notin Hit
           /\ Hit' = IF Drawn(call, Current) THEN Hit \cup {Target(call, Current)} ELSE Hit
<1>1. call # NoSprite /\ call' = call
    BY DEF DrawBit
<1>2. call \in Calls
    BY <1>1, Running
<1>3. /\ Current \in Columns \X Rows /\ Current \notin Visited
      /\ Visited' = Visited \cup {Current} /\ Visited \subseteq Columns \X Rows
    BY VisitsOne DEF Visited
<1>4. Target(call, Current) \notin Hit
    BY <1>2, <1>3, TargetsDiffer DEF Hit
<1>5. Hit' = {Target(call, at) : at \in {b \in Visited' : Drawn(call, b)}}
    BY <1>1 DEF Hit, Target, Drawn, Clipped
<1>6. Hit' = IF Drawn(call, Current) THEN Hit \cup {Target(call, Current)} ELSE Hit
    <2>1. CASE Drawn(call, Current)
        <3>1. {b \in Visited' : Drawn(call, b)} = {b \in Visited : Drawn(call, b)} \cup {Current}
            BY <1>3, <2>1
        <3> QED BY <1>5, <2>1, <3>1 DEF Hit
    <2>2. CASE ~Drawn(call, Current)
        <3>1. {b \in Visited' : Drawn(call, b)} = {b \in Visited : Drawn(call, b)}
            BY <1>3, <2>2
        <3> QED BY <1>5, <2>2, <3>1 DEF Hit
    <2> QED BY <2>1, <2>2
<1> QED BY <1>1, <1>2, <1>4, <1>6

DisplayInv == DisplayTypeOK /\ PartlyDrawn

LEMMA DisplayInitInv == DisplayInit => DisplayInv
BY InitTypeOK DEF DisplayInit, DisplayInv, PartlyDrawn

LEMMA DisplayNextInv == DisplayInv /\ [DisplayNext]_displayVars => DisplayInv'
<1> SUFFICES ASSUME DisplayInv, [DisplayNext]_displayVars PROVE DisplayInv'
    OBVIOUS
<1>1. DisplayTypeOK /\ DisplayTypeOK' /\ PartlyDrawn
    BY NextTypeOK DEF DisplayInv
<1> SUFFICES PartlyDrawn'
    BY <1>1 DEF DisplayInv
<1>2. ASSUME NEW x \in Coordinates, NEW y \in Coordinates, NEW height \in 1 .. MaximumHeight,
             NEW clip \in BOOLEAN, NEW sprite \in Sprites(height),
             DrawSprite(x, y, height, sprite, clip)
      PROVE  PartlyDrawn'
    <2>1. display' = before'.display /\ flag' = FALSE /\ row' = 0 /\ column' = 0
        BY <1>2 DEF DrawSprite
    <2>2. Visited' = {}
        BY <2>1, DisplaySizes DEF Visited, Columns, Rows
    <2>3. Hit' = {}
        BY <2>2 DEF Hit
    <2> QED BY <2>1, <2>3 DEF PartlyDrawn
<1>3. CASE DrawBit
    <2> DEFINE p == Target(call, Current)
    <2>1. /\ call # NoSprite /\ before' = before
          /\ IF Drawn(call, Current) THEN Invert(p) ELSE UNCHANGED <<display, flag>>
        BY <1>3 DEF DrawBit, Current
    <2>2. /\ display = (before.display \ Hit) \cup (Hit \ before.display)
          /\ flag = (before.display \cap Hit # {})
        BY <1>1, <2>1 DEF PartlyDrawn
    <2>3. /\ display' = (before.display \ Hit') \cup (Hit' \ before.display)
          /\ flag' = (before.display \cap Hit' # {})
        <3>1. CASE Drawn(call, Current)
            <4> HIDE DEF p
            <4>1. p \notin Hit /\ Hit' = Hit \cup {p}
                BY <1>1, <1>3, <3>1, HitsOne DEF p
            <4>2. /\ flag' = (flag \/ p \in display)
                  /\ display' = IF p \in display THEN display \ {p} ELSE display \cup {p}
                BY <2>1, <3>1 DEF Invert
            <4>3. display' = (before.display \ Hit') \cup (Hit' \ before.display)
                BY <2>2, <4>1, <4>2, OneMore
            <4>4. (before.display \cap Hit' # {})
                    = ((before.display \cap Hit # {}) \/ p \in display)
                BY <2>2, <4>1, OneMore
            <4>5. flag' = (before.display \cap Hit' # {})
                BY ONLY <2>2, <4>2, <4>4, Zenon
            <4> QED BY <4>3, <4>5
        <3>2. CASE ~Drawn(call, Current)
            <4>1. Hit' = Hit
                BY <1>1, <1>3, <3>2, HitsOne
            <4>2. display' = display /\ flag' = flag
                BY <2>1, <3>2
            <4> QED BY ONLY <2>2, <4>1, <4>2, Zenon
        <3> QED BY <3>1, <3>2
    <2> QED BY <2>1, <2>3, Zenon DEF PartlyDrawn
<1>4. CASE Return
    <2>1. call' = NoSprite
        BY <1>4 DEF Return
    <2> QED BY <2>1, Zenon DEF PartlyDrawn
<1>5. CASE ClearDisplay
    <2>1. call' = NoSprite
        BY <1>5 DEF ClearDisplay
    <2> QED BY <2>1, Zenon DEF PartlyDrawn
<1>6. CASE WriteFlag
    <2>1. call' = NoSprite
        BY <1>6 DEF WriteFlag
    <2> QED BY <2>1, Zenon DEF PartlyDrawn
<1>7. CASE UNCHANGED displayVars
    <2>1. /\ display' = display /\ flag' = flag /\ call' = call /\ before' = before
          /\ row' = row /\ column' = column
        BY <1>7 DEF displayVars
    <2>2. Hit' = Hit
        BY <2>1 DEF Hit, Visited
    <2> QED BY <1>1, <2>1, <2>2, Zenon DEF PartlyDrawn
<1> QED BY <1>2, <1>3, <1>4, <1>5, <1>6, <1>7 DEF DisplayNext

LEMMA DisplayAlwaysInv == DisplaySpec => []DisplayInv
BY DisplayInitInv, DisplayNextInv, PTL DEF DisplaySpec

\* The loop indexes only bytes of _display, whatever the origin and the height.
THEOREM DisplayTypeCorrect == DisplaySpec => []DisplayTypeOK
<1>1. DisplayInv => DisplayTypeOK
    BY DEF DisplayInv
<1> QED BY <1>1, DisplayAlwaysInv, PTL

\* At every step the display is the one the call found, inverted exactly in the
\* pixels drawn so far, and the flag is exact (DrawSprite, Chip8Core.cs:608-649).
THEOREM AlwaysPartlyDrawn == DisplaySpec => []PartlyDrawn
<1>1. DisplayInv => PartlyDrawn
    BY DEF DisplayInv
<1> QED BY <1>1, DisplayAlwaysInv, PTL

\* A clipped sprite stays to the right of its origin and below it.
THEOREM ClippedStaysInWindow == DisplaySpec => ClippedInWindow
<1>1. ASSUME DisplayInv, [DisplayNext]_displayVars, call # NoSprite, call.clip,
             NEW pixel \in (display \ display') \cup (display' \ display)
      PROVE  pixel % Width >= call.x /\ pixel \div Width >= call.y
    <2>1. display' # display
        BY <1>1
    <2>2. CASE DrawBit
        <3>1. Drawn(call, Current) /\ pixel = Target(call, Current)
            BY <1>1, <2>1, <2>2 DEF DrawBit, Invert, Current
        <3>2. /\ call \in Calls /\ Current \in Columns \X Rows
              /\ call.x \in 0 .. Width - 1 /\ call.y \in 0 .. Height - 1
            BY <1>1, <2>2, Running, VisitsOne DEF DisplayInv
        <3>3. call.x + Current[1] < Width /\ call.y + Current[2] < Height
            BY <1>1, <3>1, <3>2, DisplaySizes DEF Drawn, Clipped, Columns, Rows
        <3>4. /\ (call.x + Current[1]) % Width = call.x + Current[1]
              /\ (call.y + Current[2]) % Height = call.y + Current[2]
            <4>1. /\ call.x + Current[1] \in 0 .. Width - 1
                  /\ call.y + Current[2] \in 0 .. Height - 1
                BY <3>2, <3>3, DisplaySizes DEF Columns, Rows
            <4> QED BY <4>1, Around, DisplaySizes
        <3>5. /\ pixel % Width = call.x + Current[1]
              /\ pixel \div Width = call.y + Current[2]
            BY <3>1, <3>2, <3>4, TargetPlace
        <3> QED BY <3>2, <3>5 DEF Columns, Rows
    <2> QED BY <1>1, <2>1, <2>2 DEF DisplayNext, DrawSprite, Return, ClearDisplay, WriteFlag, displayVars
<1>2. DisplayInv /\ [DisplayNext]_displayVars =>
        [call # NoSprite /\ call.clip =>
            \A pixel \in (display \ display') \cup (display' \ display) :
                pixel % Width >= call.x /\ pixel \div Width >= call.y]_displayVars
    BY <1>1
<1> QED BY <1>2, DisplayAlwaysInv, PTL DEF DisplaySpec, ClippedInWindow

----------------------------------------------------------------------------
(* Sprites: the refinement.                                                *)

\* Places of pixels: on the screen, and different for different pixels.
LEMMA Places ==
    /\ \A lit \in SUBSET Pixels : At(lit) \in SUBSET Contract!Screen
    /\ \A p, q \in Pixels :
          <<p % Width, p \div Width>> = <<q % Width, q \div Width>> => p = q
<1>1. ASSUME NEW lit \in SUBSET Pixels, NEW p \in lit
      PROVE  <<p % Width, p \div Width>> \in Contract!Screen
    BY PlaceOf DEF Contract!Screen
<1>2. ASSUME NEW p \in Pixels, NEW q \in Pixels,
             <<p % Width, p \div Width>> = <<q % Width, q \div Width>>
      PROVE  p = q
    <2>1. p % Width = q % Width /\ p \div Width = q \div Width
        BY <1>2
    <2>2. /\ p = (p \div Width) * Width + (p % Width)
          /\ q = (q \div Width) * Width + (q % Width)
        BY PlaceOf
    <2> QED BY <2>1, <2>2
<1> QED BY <1>1, <1>2 DEF At

\* The places of an inverted display, and whether an inverted pixel was lit.
LEMMA PlacesInverted ==
    ASSUME NEW lit \in SUBSET Pixels, NEW hit \in SUBSET Pixels
    PROVE  /\ At((lit \ hit) \cup (hit \ lit)) = (At(lit) \ At(hit)) \cup (At(hit) \ At(lit))
           /\ (lit \cap hit # {}) <=> (At(lit) \cap At(hit) # {})
<1>1. \A p, q \in Pixels :
          <<p % Width, p \div Width>> = <<q % Width, q \div Width>> => p = q
    BY Places
<1> DEFINE P(p) == <<p % Width, p \div Width>>
<1>2. \A p, q \in Pixels : P(p) = P(q) => p = q
    BY <1>1
<1>3. \A s : At(s) = {P(p) : p \in s}
    BY DEF At
<1> HIDE DEF P
<1>4. ASSUME NEW s \in SUBSET Pixels, NEW p \in Pixels PROVE P(p) \in At(s) <=> p \in s
    BY <1>2, <1>3
<1>5. At((lit \ hit) \cup (hit \ lit)) \subseteq (At(lit) \ At(hit)) \cup (At(hit) \ At(lit))
    <2>1. ASSUME NEW p \in (lit \ hit) \cup (hit \ lit)
          PROVE  P(p) \in (At(lit) \ At(hit)) \cup (At(hit) \ At(lit))
        BY <1>4
    <2> QED BY <2>1, <1>3
<1>6. (At(lit) \ At(hit)) \cup (At(hit) \ At(lit)) \subseteq At((lit \ hit) \cup (hit \ lit))
    <2>1. \A s : \A v \in At(s) : \E p \in s : v = P(p)
        BY <1>3
    <2>2. ASSUME NEW v \in At(lit) \ At(hit) PROVE v \in At((lit \ hit) \cup (hit \ lit))
        <3>1. PICK p \in lit : v = P(p)
            BY <2>1
        <3> QED BY <3>1, <1>4
    <2>3. ASSUME NEW v \in At(hit) \ At(lit) PROVE v \in At((lit \ hit) \cup (hit \ lit))
        <3>1. PICK p \in hit : v = P(p)
            BY <2>1
        <3> QED BY <3>1, <1>4
    <2> QED BY <2>2, <2>3
<1>7. (lit \cap hit # {}) => (At(lit) \cap At(hit) # {})
    BY <1>4
<1>8. (At(lit) \cap At(hit) # {}) => (lit \cap hit # {})
    <2>1. ASSUME NEW v \in At(lit) \cap At(hit) PROVE lit \cap hit # {}
        <3>1. PICK p \in lit : v = P(p)
            BY <1>3
        <3> QED BY <3>1, <1>4
    <2> QED BY <2>1
<1> QED BY <1>5, <1>6, <1>7, <1>8

\* The bits of a sprite that are not clipped land on the pixels it covers.
LEMMA CoveredIsHit ==
    ASSUME NEW c \in Calls
    PROVE  At({Target(c, at) : at \in {b \in Columns \X Rows : Drawn(c, b)}})
             = Contract!Covered(c)
<1>1. /\ c.x \in 0 .. Width - 1 /\ c.y \in 0 .. Height - 1 /\ c.clip \in BOOLEAN
      /\ c.sprite \subseteq Columns \X Rows
    <2>1. PICK h \in 1 .. MaximumHeight :
            c \in [sprite : Sprites(h), height : {h}, x : 0 .. Width - 1,
                   y : 0 .. Height - 1, clip : BOOLEAN]
        BY DEF Calls
    <2>2. Columns \X (0 .. h - 1) \subseteq Columns \X Rows
        BY DisplaySizes DEF Rows
    <2> QED BY <2>1, <2>2 DEF Sprites
<1> DEFINE Hits == {Target(c, at) : at \in {b \in Columns \X Rows : Drawn(c, b)}}
<1>2. ASSUME NEW at \in Columns \X Rows, Drawn(c, at)
      PROVE  <<Target(c, at) % Width, Target(c, at) \div Width>> \in Contract!Covered(c)
    <2> DEFINE px == (c.x + at[1]) % Width
               py == (c.y + at[2]) % Height
    <2>1. /\ Target(c, at) % Width = px /\ Target(c, at) \div Width = py
          /\ px \in 0 .. Width - 1 /\ py \in 0 .. Height - 1
        BY TargetPlace
    <2>2. at \in c.sprite /\ at = <<at[1], at[2]>>
          /\ at[1] \in 0 .. Width - 1 /\ at[2] \in 0 .. Height - 1
        BY <1>2, DisplaySizes DEF Drawn, Columns, Rows
    <2>3. CASE c.clip
        <3>1. c.x + at[1] < Width /\ c.y + at[2] < Height
            BY <1>1, <1>2, <2>2, <2>3, DisplaySizes DEF Drawn, Clipped
        <3>2. px = c.x + at[1] /\ py = c.y + at[2]
            <4>1. c.x + at[1] \in 0 .. Width - 1 /\ c.y + at[2] \in 0 .. Height - 1
                BY <1>1, <2>2, <3>1, DisplaySizes
            <4>2. (c.x + at[1]) % Width = c.x + at[1]
                BY ONLY <4>1, Around, DisplaySizes
            <4>3. (c.y + at[2]) % Height = c.y + at[2]
                BY ONLY <4>1, Around, DisplaySizes
            <4> QED BY <4>2, <4>3
        <3>3. px - c.x = at[1] /\ py - c.y = at[2]
            BY <1>1, <2>2, <3>2
        <3> HIDE DEF px, py
        <3> QED BY <2>1, <2>2, <2>3, <3>3 DEF Contract!Covered, Contract!Screen
    <2>4. CASE ~c.clip
        <3>1. (px - c.x) % Width = at[1]
            BY <1>1, <2>2, WayBack, DisplaySizes
        <3>2. (py - c.y) % Height = at[2]
            BY <1>1, <2>2, WayBack, DisplaySizes
        <3> HIDE DEF px, py
        <3> QED BY <2>1, <2>2, <2>4, <3>1, <3>2 DEF Contract!Covered, Contract!Screen
    <2> QED BY <2>3, <2>4
<1>3. ASSUME NEW p \in Contract!Covered(c)
      PROVE  \E at \in Columns \X Rows :
                /\ Drawn(c, at)
                /\ p = <<Target(c, at) % Width, Target(c, at) \div Width>>
    <2>1. p = <<p[1], p[2]>> /\ p[1] \in 0 .. Width - 1 /\ p[2] \in 0 .. Height - 1
        BY DEF Contract!Covered, Contract!Screen
    <2>2. CASE c.clip
        <3> DEFINE at == <<p[1] - c.x, p[2] - c.y>>
        <3>1. at \in c.sprite
            BY <2>2 DEF Contract!Covered
        <3>2. at \in Columns \X Rows
            BY <1>1, <3>1
        <3>3. c.x + at[1] = p[1] /\ c.y + at[2] = p[2]
            BY <1>1, <2>1
        <3> HIDE DEF at
        <3>4. (c.x + at[1]) % Width = p[1] /\ (c.y + at[2]) % Height = p[2]
            BY <2>1, <3>3, Around, DisplaySizes
        <3>5. Drawn(c, at)
            BY <2>1, <3>1, <3>3, DisplaySizes DEF Drawn, Clipped
        <3> QED BY <2>1, <3>2, <3>4, <3>5, TargetPlace
    <2>3. CASE ~c.clip
        <3> DEFINE at == <<(p[1] - c.x) % Width, (p[2] - c.y) % Height>>
        <3>1. at \in c.sprite
            BY <2>3 DEF Contract!Covered
        <3>2. at \in Columns \X Rows /\ Drawn(c, at)
            BY <1>1, <2>3, <3>1 DEF Drawn, Clipped
        <3>3. (p[1] - c.x) % Width = at[1] /\ (p[2] - c.y) % Height = at[2]
            OBVIOUS
        <3> HIDE DEF at
        <3>4. at[1] \in 0 .. Width - 1 /\ at[2] \in 0 .. Height - 1
            BY <3>2, DisplaySizes DEF Columns, Rows
        <3>5. p[1] = (c.x + at[1]) % Width
            BY <1>1, <2>1, <3>3, <3>4, ThereAndBack, DisplaySizes
        <3>6. p[2] = (c.y + at[2]) % Height
            BY <1>1, <2>1, <3>3, <3>4, ThereAndBack, DisplaySizes
        <3> QED BY <2>1, <3>2, <3>5, <3>6, TargetPlace
    <2> QED BY <2>2, <2>3
<1>4. At(Hits) = {<<Target(c, at) % Width, Target(c, at) \div Width>> :
                    at \in {b \in Columns \X Rows : Drawn(c, b)}}
    BY DEF At
<1> HIDE DEF Hits
<1>5. At(Hits) = Contract!Covered(c)
    BY <1>2, <1>3, <1>4
<1> QED BY <1>5 DEF Hits

\* The loop has passed every bit of the sprite when it returns.
LEMMA ReturnHit ==
    ASSUME DisplayTypeOK, call # NoSprite, row = call.height
    PROVE  Hit = {Target(call, at) : at \in {b \in Columns \X Rows : Drawn(call, b)}}
<1>1. /\ call.sprite \subseteq Columns \X (0 .. call.height - 1)
      /\ call.height \in 1 .. MaximumHeight
    BY Running
<1>2. {b \in Visited : Drawn(call, b)} = {b \in Columns \X Rows : Drawn(call, b)}
    <2>1. ASSUME NEW b \in Columns \X Rows, Drawn(call, b) PROVE b \in Visited
        <3>1. b \in Columns \X (0 .. call.height - 1)
            BY <1>1, <2>1 DEF Drawn
        <3>2. b[2] < row
            BY <1>1, <3>1, DisplaySizes
        <3> QED BY <3>2 DEF Visited
    <2> QED BY <2>1 DEF Visited
<1> QED BY <1>2 DEF Hit

\* The initial display is any screen of the contract.
LEMMA InitRefines == DisplayInit => Contract!SpriteInit
<1> SUFFICES ASSUME DisplayInit PROVE Contract!SpriteInit
    OBVIOUS
<1>1. display \in SUBSET Pixels /\ flag \in BOOLEAN /\ call = NoSprite
    BY DEF DisplayInit
<1>2. At(display) \in SUBSET Contract!Screen
    BY <1>1, Places
<1> QED BY <1>1, <1>2 DEF Contract!SpriteInit

\* The return of the loop is the contract's step; its entry is the request, and
\* its bits are invisible.
LEMMA NextRefines ==
    ASSUME DisplayInv, [DisplayNext]_displayVars
    PROVE  \/ Contract!SpriteNext
           \/ /\ call' = call
              /\ At(IF call = NoSprite THEN display ELSE before.display)'
                   = At(IF call = NoSprite THEN display ELSE before.display)
              /\ (IF call = NoSprite THEN flag ELSE before.flag)'
                   = (IF call = NoSprite THEN flag ELSE before.flag)
<1>1. ASSUME NEW x \in Coordinates, NEW y \in Coordinates, NEW height \in 1 .. MaximumHeight,
             NEW clip \in BOOLEAN, NEW sprite \in Sprites(height),
             DrawSprite(x, y, height, sprite, clip)
      PROVE  Contract!SpriteNext
    <2>1. call' \in Calls
        BY <1>1, CallTyped DEF DrawSprite
    <2>2. call = NoSprite /\ call' # NoSprite
        BY <1>1, <2>1, NoSpriteAssumption DEF DrawSprite
    <2>3. before'.display = display /\ before'.flag = flag
        BY <1>1 DEF DrawSprite
    <2>4. Contract!Request(call')
        BY <2>2, <2>3 DEF Contract!Request, At
    <2> QED BY <2>1, <2>4 DEF Contract!SpriteNext
<1>2. ASSUME DrawBit
      PROVE  /\ call' = call
             /\ At(IF call = NoSprite THEN display ELSE before.display)'
                  = At(IF call = NoSprite THEN display ELSE before.display)
             /\ (IF call = NoSprite THEN flag ELSE before.flag)'
                  = (IF call = NoSprite THEN flag ELSE before.flag)
    <2>1. call # NoSprite /\ call' = call /\ before' = before
        BY <1>2 DEF DrawBit
    <2> QED BY <2>1 DEF At
<1>3. ASSUME Return PROVE Contract!SpriteNext
    <2>1. /\ call # NoSprite /\ row = call.height /\ call' = NoSprite
          /\ display' = display /\ flag' = flag
        BY <1>3 DEF Return
    <2>2. DisplayTypeOK /\ call \in Calls
        BY <2>1, Running DEF DisplayInv
    <2>3. At(Hit) = Contract!Covered(call)
        BY <2>1, <2>2, ReturnHit, CoveredIsHit
    <2>4. Hit \in SUBSET Pixels /\ before.display \in SUBSET Pixels
        BY <2>2, TargetPlace DEF Hit, DisplayTypeOK, Visited
    <2>5. /\ display = (before.display \ Hit) \cup (Hit \ before.display)
          /\ flag = (before.display \cap Hit # {})
        BY <2>1 DEF DisplayInv, PartlyDrawn
    <2>6. At(display) = Contract!Inverted(At(before.display), Contract!Covered(call))
        BY <2>3, <2>4, <2>5, PlacesInverted DEF Contract!Inverted
    <2>7. (before.display \cap Hit # {})
             <=> (At(before.display) \cap Contract!Covered(call) # {})
        <3>1. (before.display \cap Hit # {}) <=> (At(before.display) \cap At(Hit) # {})
            BY <2>4, PlacesInverted
        <3> QED BY <2>3, <3>1
    <2>8. flag' = (At(before.display) \cap Contract!Covered(call) # {})
        BY ONLY <2>1, <2>5, <2>7, Zenon
    <2>9. Contract!Draw
        BY <2>1, <2>6, <2>8 DEF Contract!Draw, At
    <2> QED BY <2>9 DEF Contract!SpriteNext
<1>4. ASSUME ClearDisplay PROVE Contract!SpriteNext
    <2>1. call = NoSprite /\ call' = NoSprite /\ display' = {} /\ flag' = flag
        BY <1>4 DEF ClearDisplay
    <2>2. Contract!Clear
        BY <2>1 DEF Contract!Clear, At
    <2> QED BY <2>2 DEF Contract!SpriteNext
<1>5. ASSUME WriteFlag PROVE Contract!SpriteNext
    <2>1. call = NoSprite /\ call' = NoSprite /\ display' = display /\ flag' \in BOOLEAN
        BY <1>5 DEF WriteFlag
    <2>2. Contract!SetFlag
        BY <2>1 DEF Contract!SetFlag, At
    <2> QED BY <2>2 DEF Contract!SpriteNext
<1>6. ASSUME UNCHANGED displayVars
      PROVE  /\ call' = call
             /\ At(IF call = NoSprite THEN display ELSE before.display)'
                  = At(IF call = NoSprite THEN display ELSE before.display)
             /\ (IF call = NoSprite THEN flag ELSE before.flag)'
                  = (IF call = NoSprite THEN flag ELSE before.flag)
    BY <1>6 DEF displayVars, At
<1> QED BY <1>1, <1>2, <1>3, <1>4, <1>5, <1>6 DEF DisplayNext

\* Drawing a sprite bit by bit inverts the pixels it covers, no other, and sets
\* the flag exactly on a collision, for every size, origin and sprite
\* (DrawSprite, Chip8Core.cs:608-649).
THEOREM DrawsSprites == DisplaySpec => ImplementsContract
<1>1. DisplayInv /\ [DisplayNext]_displayVars
        => [Contract!SpriteNext]_<<At(IF call = NoSprite THEN display ELSE before.display),
                                   IF call = NoSprite THEN flag ELSE before.flag, call>>
    BY NextRefines
<1> QED BY <1>1, InitRefines, DisplayAlwaysInv, PTL DEF DisplaySpec, ImplementsContract, Contract!SpriteSpec
=============================================================================
