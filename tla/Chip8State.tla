----------------------------- MODULE Chip8State -----------------------------
(***************************************************************************)
(* The saved states of the CHIP-8 core, byte by byte: Serialize lays the   *)
(* machine out in a buffer the frontend owns, Unserialize validates such a *)
(* buffer and reads it back.  Between the two the frontend keeps the       *)
(* buffer wherever it likes, and some of its bytes may change there.       *)
(*                                                                         *)
(* Sizes are parameters, a byte included; the layout is the code's.  A     *)
(* buffer of another length never reaches the core (LibretroHost).         *)
(***************************************************************************)
EXTENDS Integers

CONSTANTS
    ByteSize,                                          \* 256
    RegisterCount, StackSize, DisplaySize, MemorySize, \* 16, 16, 2048, 4096
    AudioSampleRate,                                   \* 48000
    QuirkLimit,              \* 64: no bit outside SupportedQuirkMask
    StateMagic, StateVersion,
    Reached,                 \* machines the interpreter may leave behind
    MaxDamage,               \* bytes that change in the frontend's hands
    NoState                  \* nothing was saved yet

Byte == 0 .. ByteSize - 1
UInt16 == 0 .. ByteSize * ByteSize - 1
UInt32 == 0 .. ByteSize * ByteSize * ByteSize * ByteSize - 1

Registers == 0 .. RegisterCount - 1
Slots == 0 .. StackSize - 1
PixelBytes == 0 .. DisplaySize - 1
Address == 0 .. MemorySize - 1

RegisterOffset == 24
StackOffset == RegisterOffset + RegisterCount
DisplayOffset == StackOffset + 2 * StackSize
MemoryOffset == DisplayOffset + DisplaySize
StateSize == MemoryOffset + MemorySize
Offsets == 0 .. StateSize - 1

MaximumRuntimeProgramCounter == MemorySize + 2
MaximumRuntimeReturnAddress == MemorySize

\* The machines whose fields fit the code's types.
TypedMachines ==
    [programCounter : UInt16, indexRegister : UInt16, random : UInt32,
     delay : Byte, sound : Byte, stackPointer : Byte, halted : BOOLEAN,
     quirks : 0 .. QuirkLimit - 1, phase : UInt32,
     registers : [Registers -> Byte], stack : [Slots -> UInt16],
     display : [PixelBytes -> {0, 1}], memory : [Address -> Byte]]

\* Those the interpreter can run from: no address it forms from them is out of
\* range, the generator is alive and the tone within its period.
Runnable(m) ==
    /\ m.programCounter <= MaximumRuntimeProgramCounter
    /\ m.indexRegister < MemorySize
    /\ m.random # 0
    /\ m.phase < AudioSampleRate
    /\ m.stackPointer <= StackSize
    /\ \A slot \in Slots : slot < m.stackPointer => m.stack[slot] <= MaximumRuntimeReturnAddress

Machines == {m \in TypedMachines : Runnable(m)}

ASSUME StateAssumption ==
    /\ ByteSize \in Nat /\ RegisterCount \in Nat /\ StackSize \in Nat
    /\ DisplaySize \in Nat /\ MemorySize \in Nat
    /\ AudioSampleRate \in Nat /\ QuirkLimit \in Nat
    /\ 2 <= ByteSize /\ QuirkLimit <= ByteSize
    /\ StateMagic \in UInt32 /\ StateVersion \in UInt16
    /\ Reached \subseteq Machines /\ Reached # {}
    /\ MaxDamage \in Nat

ASSUME NoStateAssumption == NoState \notin Machines /\ NoState \notin [Offsets -> Byte]

VARIABLES
    machine,    \* the fields of Chip8Core a state holds
    buffer,     \* the frontend's buffer
    saved,      \* the machine it was saved from, or NoState once a byte changed
    damage      \* how many bytes have changed so far

stateVars == <<machine, buffer, saved, damage>>

----------------------------------------------------------------------------
(* Little-endian words.                                                    *)

\* Variant that must break a property: the upper half of a wide word not written.
DigitOfUInt16(value, k) ==
    CASE k = 0 -> value % ByteSize
      [] k = 1 -> (value \div ByteSize) % ByteSize
      [] OTHER -> 0

\* Byte k of a word.
Digit(value, k) ==
    CASE k = 0 -> value % ByteSize
      [] k = 1 -> (value \div ByteSize) % ByteSize
      [] k = 2 -> ((value \div ByteSize) \div ByteSize) % ByteSize
      [] k = 3 -> (((value \div ByteSize) \div ByteSize) \div ByteSize) % ByteSize

\* The word of four bytes, the lowest first.
Joined(a, b, c, d) == a + ByteSize * (b + ByteSize * (c + ByteSize * d))

ReadUInt16(bytes, at) == bytes[at] + ByteSize * bytes[at + 1]
ReadUInt32(bytes, at) == Joined(bytes[at], bytes[at + 1], bytes[at + 2], bytes[at + 3])

----------------------------------------------------------------------------
Serialize(m) == [i \in Offsets |->
    CASE i \in 0 .. 3   -> Digit(StateMagic, i)
      [] i \in 4 .. 5   -> Digit(StateVersion, i - 4)
      [] i \in 6 .. 7   -> Digit(m.programCounter, i - 6)
      [] i \in 8 .. 9   -> Digit(m.indexRegister, i - 8)
      [] i \in 10 .. 13 -> Digit(m.random, i - 10)
      [] i = 14 -> m.delay
      [] i = 15 -> m.sound
      [] i = 16 -> m.stackPointer
      [] i = 17 -> IF m.halted THEN 1 ELSE 0
      [] i = 18 -> m.quirks
      [] i = 19 -> 0
      [] i \in 20 .. 23 -> Digit(m.phase, i - 20)
      [] i \in RegisterOffset .. StackOffset - 1 -> m.registers[i - RegisterOffset]
      [] i \in StackOffset .. DisplayOffset - 1 ->
            Digit(m.stack[(i - StackOffset) \div 2], (i - StackOffset) % 2)
      [] i \in DisplayOffset .. MemoryOffset - 1 -> m.display[i - DisplayOffset]
      [] i \in MemoryOffset .. StateSize - 1 -> m.memory[i - MemoryOffset]]

\* What Unserialize assigns.
Unserialized(bytes) ==
    [programCounter |-> ReadUInt16(bytes, 6), indexRegister |-> ReadUInt16(bytes, 8),
     random |-> ReadUInt32(bytes, 10), delay |-> bytes[14], sound |-> bytes[15],
     stackPointer |-> bytes[16], halted |-> bytes[17] # 0, quirks |-> bytes[18],
     phase |-> ReadUInt32(bytes, 20),
     registers |-> [r \in Registers |-> bytes[RegisterOffset + r]],
     stack |-> [slot \in Slots |-> ReadUInt16(bytes, StackOffset + 2 * slot)],
     display |-> [pixel \in PixelBytes |-> bytes[DisplayOffset + pixel]],
     memory |-> [address \in Address |-> bytes[MemoryOffset + address]]]

\* Variant that must break a property: the reserved byte and halted unchecked.
AcceptsAnyFlag(bytes) ==
    /\ ReadUInt32(bytes, 0) = StateMagic
    /\ ReadUInt16(bytes, 4) = StateVersion
    /\ Runnable(Unserialized(bytes))
    /\ bytes[18] < QuirkLimit
    /\ \A pixel \in PixelBytes : bytes[DisplayOffset + pixel] <= 1

\* Variant that must break a property: every pixel but the last is checked.
AcceptsLastPixel(bytes) ==
    /\ ReadUInt32(bytes, 0) = StateMagic
    /\ ReadUInt16(bytes, 4) = StateVersion
    /\ Runnable(Unserialized(bytes))
    /\ bytes[17] <= 1
    /\ bytes[18] < QuirkLimit /\ bytes[19] = 0
    /\ \A pixel \in PixelBytes : pixel < DisplaySize - 1 => bytes[DisplayOffset + pixel] <= 1

\* The validation, all of it before the first assignment.
Accepts(bytes) ==
    /\ ReadUInt32(bytes, 0) = StateMagic
    /\ ReadUInt16(bytes, 4) = StateVersion
    /\ Runnable(Unserialized(bytes))
    /\ bytes[17] <= 1
    /\ bytes[18] < QuirkLimit /\ bytes[19] = 0
    /\ \A pixel \in PixelBytes : bytes[DisplayOffset + pixel] <= 1

----------------------------------------------------------------------------
StateInit ==
    /\ machine \in Reached
    /\ buffer = NoState /\ saved = NoState
    /\ damage = 0

\* Frames, resets and other content.
Execute ==
    /\ machine' \in Reached
    /\ UNCHANGED <<buffer, saved, damage>>

Save ==
    /\ buffer' = Serialize(machine)
    /\ saved' = machine
    /\ UNCHANGED <<machine, damage>>

Damage(at, byte) ==
    /\ buffer # NoState
    /\ damage < MaxDamage
    /\ buffer[at] # byte
    /\ buffer' = [buffer EXCEPT ![at] = byte]
    /\ saved' = NoState
    /\ damage' = damage + 1
    /\ UNCHANGED machine

\* A refused buffer changes nothing.
Load ==
    /\ buffer # NoState
    /\ Accepts(buffer)
    /\ machine' = Unserialized(buffer)
    /\ UNCHANGED <<buffer, saved, damage>>

StateNext ==
    \/ Execute
    \/ Save
    \/ \E at \in Offsets, byte \in Byte : Damage(at, byte)
    \/ Load

StateSpec == StateInit /\ [][StateNext]_stateVars

----------------------------------------------------------------------------
(* Properties.                                                             *)

\* Whatever happened to the buffer, the machine can be run: an accepted state
\* holds no address, flag, pixel or quirk the interpreter could not have reached.
StateTypeOK ==
    /\ machine \in Machines
    /\ buffer \in [Offsets -> Byte] \cup {NoState}
    /\ saved \in Machines \cup {NoState}
    /\ saved # NoState => buffer # NoState
    /\ damage \in 0 .. MaxDamage

\* What was saved is accepted and restored field for field, the words above
\* the stack pointer included.
SavedStateReloads ==
    saved # NoState => Accepts(buffer) /\ Unserialized(buffer) = saved

\* A buffer that is accepted is the state of the machine it is loaded into:
\* saving at once gives the same bytes, so no byte of it was ignored and two
\* peers that loaded it compare equal.
AcceptedStateCanonical ==
    buffer # NoState /\ Accepts(buffer) => Serialize(Unserialized(buffer)) = buffer
=============================================================================
