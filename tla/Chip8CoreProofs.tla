-------------------------- MODULE Chip8CoreProofs --------------------------
EXTENDS Chip8Core, TLAPS

\* What the validation of a saved state asks of the running machine.
InRange ==
    /\ pc <= MaximumRuntimeProgramCounter
    /\ index < MemorySize
    /\ phase < AudioSampleRate
    /\ sp <= StackSize
    /\ \A slot \in Slots : slot < sp => stack[slot] <= MaximumRuntimeReturnAddress

\* The machine would accept its own state exactly when it is in range.
LEMMA AcceptsInRange == Accepts(Serialized) <=> InRange
  BY DEF Accepts, Serialized, InRange

\* The machine is in range at all times, loaded or not, and never faulted.
MachineInv == TypeOK /\ InRange /\ NeverFaults

\* The constants are numbers.
LEMMA Sizes ==
    /\ MemorySize \in Nat /\ ProgramStart \in Nat /\ ByteSize \in Nat
    /\ RegisterCount \in Nat /\ StackSize \in Nat /\ InstructionsPerFrame \in Nat
    /\ AudioSampleRate \in Nat /\ PhasePerFrame \in Nat
    /\ FontStart \in Nat /\ GlyphSize \in Nat /\ FontDigits \in Nat
    /\ 2 <= ByteSize /\ ByteSize <= MemorySize /\ 1 <= RegisterCount
    /\ ProgramStart + 2 <= MemorySize /\ 1 <= AudioSampleRate
    /\ Keys \subseteq Byte /\ Idle \notin Nat
    /\ VF \in Registers /\ 0 \in Registers /\ 0 \in Byte /\ 1 \in Byte
  BY Chip8Assumption DEF VF, Registers, Byte

----------------------------------------------------------------------------
(* The ways an instruction can end.                                        *)

\* A fetch within memory, with the addresses it touches, does not fault.
LEMMA FetchKeeps ==
    ASSUME MachineInv, NEW touched \in SUBSET Address, Fetch(touched)
    PROVE  /\ faulted' = FALSE /\ pc + 2 <= MemorySize
           /\ frame' \in 0 .. InstructionsPerFrame
           /\ UNCHANGED <<life, quirks, controller, keys, polled, phase>>
<1>1. pc \in Nat /\ pc <= MemorySize - 2
  BY DEF MachineInv, TypeOK, Word, Fetch
<1>2. {pc, pc + 1} \cup touched \subseteq Address
  BY <1>1, Sizes DEF Address
<1>3. faulted' = FALSE
  BY <1>2 DEF Fetch
<1>4. frame \in 0 .. InstructionsPerFrame /\ frame < InstructionsPerFrame
  BY DEF MachineInv, TypeOK, Fetch, Executing
<1>5. frame' \in 0 .. InstructionsPerFrame
  BY <1>4, Sizes DEF Fetch
<1> QED
  BY <1>1, <1>3, <1>5, Sizes DEF Fetch, session

\* An instruction that fails.
LEMMA HaltKeeps == ASSUME MachineInv, Halt PROVE MachineInv'
<1>1. /\ faulted' = FALSE /\ pc + 2 <= MemorySize
      /\ frame' \in 0 .. InstructionsPerFrame
      /\ UNCHANGED <<life, quirks, controller, keys, polled, phase>>
  BY FetchKeeps DEF Halt
<1>2. pc' = pc + 2 /\ halted' = TRUE /\ UNCHANGED <<index, registers, stack, sp, delay, sound>>
  BY DEF Halt, control, timers
<1>3. TypeOK'
  <2>1. pc' \in Word
    BY <1>2 DEF MachineInv, TypeOK, Word
  <2> QED
    BY <1>1, <1>2, <2>1 DEF MachineInv, TypeOK
<1>4. InRange'
  BY <1>1, <1>2, Sizes DEF MachineInv, TypeOK, Word, InRange, MaximumRuntimeProgramCounter
<1> QED
  BY <1>1, <1>3, <1>4 DEF MachineInv, NeverFaults

\* An instruction that sets registers and the index.
LEMMA SetKeeps ==
    ASSUME MachineInv, NEW newRegisters \in [Registers -> Byte], NEW newIndex \in Address,
           NEW touched \in SUBSET Address, Set(newRegisters, newIndex, touched)
    PROVE  MachineInv'
<1>1. /\ faulted' = FALSE /\ pc + 2 <= MemorySize
      /\ frame' \in 0 .. InstructionsPerFrame
      /\ UNCHANGED <<life, quirks, controller, keys, polled, phase>>
  BY FetchKeeps DEF Set
<1>2. /\ pc' = pc + 2 /\ halted' = FALSE /\ registers' = newRegisters /\ index' = newIndex
      /\ UNCHANGED <<stack, sp, delay, sound>>
  BY DEF Set, Continue, control, timers
<1>3. TypeOK'
  <2>1. pc' \in Word /\ index' \in Word
    BY <1>2, Sizes DEF MachineInv, TypeOK, Word, Address
  <2> QED
    BY <1>1, <1>2, <2>1 DEF MachineInv, TypeOK
<1>4. InRange'
  BY <1>1, <1>2, Sizes
  DEF MachineInv, TypeOK, Word, InRange, Address, MaximumRuntimeProgramCounter
<1> QED
  BY <1>1, <1>3, <1>4 DEF MachineInv, NeverFaults

\* An instruction that jumps within the limits and keeps the stack.
LEMMA GotoKeeps ==
    ASSUME MachineInv, NEW target \in Nat, target <= MemorySize + 2,
           Fetch({}), Goto(target), UNCHANGED control
    PROVE  MachineInv'
<1>1. {} \in SUBSET Address
  OBVIOUS
<1> QED
  BY <1>1, FetchKeeps, Sizes
  DEF MachineInv, TypeOK, InRange, NeverFaults, Goto, Continue, Word, control, timers,
      MaximumRuntimeProgramCounter
----------------------------------------------------------------------------
(* The values instructions compute.                                        *)

\* A remainder is a number below its divisor.
LEMMA Remainder ==
    ASSUME NEW a \in Int, NEW n \in Nat, 1 <= n
    PROVE  a % n \in 0 .. n - 1
  OBVIOUS

\* Arithmetic on bytes gives bytes, and the flags are bits.
LEMMA ByteResults ==
    ASSUME NEW left \in Byte, NEW right \in Byte
    PROVE  /\ (left + right) % ByteSize \in Byte
           /\ (left - right) % ByteSize \in Byte
           /\ left \div 2 \in Byte
           /\ left % 2 \in Byte
           /\ (left * 2) % ByteSize \in Byte
           /\ (left * 2) \div ByteSize \in Byte
<1>1. left \in Int /\ right \in Int /\ 0 <= left /\ left < ByteSize /\ ByteSize \in Nat /\ 2 <= ByteSize
  BY Sizes DEF Byte
<1>2. /\ (left + right) % ByteSize \in Byte
      /\ (left - right) % ByteSize \in Byte
      /\ (left * 2) % ByteSize \in Byte
  BY <1>1, Remainder DEF Byte
<1>3. left \div 2 \in Byte /\ left % 2 \in Byte
  BY <1>1 DEF Byte
<1>4. (left * 2) \div ByteSize \in Byte
  BY <1>1, Z3 DEF Byte
<1> QED
  BY <1>2, <1>3, <1>4

\* Writing a register and then the flag gives registers.
LEMMA WithFlagType ==
    ASSUME registers \in [Registers -> Byte], NEW x \in Registers,
           NEW result \in Byte, NEW flag \in Byte
    PROVE  WithFlag(x, result, flag) \in [Registers -> Byte]
  BY DEF WithFlag

\* A flag is a byte.
LEMMA BitType == ASSUME NEW c \in BOOLEAN PROVE Bit(c) \in Byte
  BY Sizes DEF Bit

\* Every glyph starts within memory.
LEMMA GlyphAddress ==
    ASSUME NEW digit \in Nat, digit < FontDigits
    PROVE  FontStart + digit * GlyphSize \in Address
<1>1. digit \in Nat /\ FontDigits - 1 \in Nat /\ digit <= FontDigits - 1 /\ GlyphSize \in Nat
  BY Sizes
<1>2. \A a, b, c \in Nat : a <= b => a * c <= b * c
  BY Z3
<1>3. digit * GlyphSize <= (FontDigits - 1) * GlyphSize
  BY <1>1, <1>2
<1>4. digit * GlyphSize \in Nat /\ (FontDigits - 1) * GlyphSize \in Nat
  BY <1>1
<1> QED
  BY <1>3, <1>4, Sizes, Chip8Assumption DEF Address

----------------------------------------------------------------------------
(* Every instruction keeps the machine in range.                           *)

\* What the machine's types and limits say of the values instructions read.
LEMMA Operands ==
    ASSUME MachineInv
    PROVE  /\ pc \in Nat /\ index \in Address /\ delay \in Byte /\ sound \in Byte
           /\ registers \in [Registers -> Byte]
           /\ \A r \in Registers : registers[r] \in Nat /\ r \in Nat
  BY Sizes DEF MachineInv, TypeOK, InRange, Word, Address, Byte, Registers

\* 00EE pops an address that was pushed or validated.
LEMMA ReturnKeeps == ASSUME MachineInv, Return PROVE MachineInv'
<1>1. CASE Halt
  BY <1>1, HaltKeeps
<1>2. CASE sp # 0 /\ Fetch({}) /\ Goto(stack[sp - 1]) /\ sp' = sp - 1 /\ UNCHANGED stack
  <2>1. sp - 1 \in Slots /\ sp - 1 < sp /\ sp - 1 \in Nat /\ sp - 1 <= StackSize
    BY <1>2, Sizes DEF MachineInv, TypeOK, InRange, Slots
  <2>2. stack[sp - 1] \in Nat /\ stack[sp - 1] <= MemorySize
    BY <2>1 DEF MachineInv, TypeOK, InRange, Word, MaximumRuntimeReturnAddress
  <2>3. /\ faulted' = FALSE /\ frame' \in 0 .. InstructionsPerFrame
        /\ UNCHANGED <<life, quirks, controller, keys, polled, phase>>
    BY <1>2, FetchKeeps
  <2>4. /\ pc' = stack[sp - 1] /\ halted' = FALSE
        /\ UNCHANGED <<index, registers, delay, sound>>
    BY <1>2 DEF Goto, Continue, timers
  <2>5. TypeOK'
    BY <1>2, <2>1, <2>2, <2>3, <2>4 DEF MachineInv, TypeOK, Word
  <2>6. InRange'
    BY <1>2, <2>1, <2>2, <2>3, <2>4, Sizes
    DEF MachineInv, TypeOK, InRange, Word, Slots, MaximumRuntimeProgramCounter
  <2> QED
    BY <2>3, <2>5, <2>6 DEF MachineInv, NeverFaults
<1> QED
  BY <1>1, <1>2 DEF Return

\* 2nnn pushes the address after the call, at most the end of memory.
LEMMA CallKeeps ==
    ASSUME MachineInv, NEW address \in Address, Call(address) PROVE MachineInv'
<1>1. CASE Halt
  BY <1>1, HaltKeeps
<1>2. CASE /\ sp < StackSize /\ Fetch({}) /\ Goto(address)
           /\ stack' = [stack EXCEPT ![sp] = pc + 2] /\ sp' = sp + 1
  <2>1. sp \in Slots /\ sp + 1 \in Nat /\ sp + 1 <= StackSize /\ sp \in Nat
    BY <1>2, Sizes DEF MachineInv, TypeOK, Slots
  <2>2. /\ faulted' = FALSE /\ frame' \in 0 .. InstructionsPerFrame /\ pc + 2 <= MemorySize
        /\ UNCHANGED <<life, quirks, controller, keys, polled, phase>>
    BY <1>2, FetchKeeps
  <2>3. pc + 2 \in Word /\ address \in Word /\ address <= MemorySize
    BY Operands, Sizes DEF Word, Address
  <2>4. pc' = address /\ halted' = FALSE /\ UNCHANGED <<index, registers, delay, sound>>
    BY <1>2 DEF Goto, Continue, timers
  <2>5. stack' \in [Slots -> Word]
    BY <1>2, <2>3 DEF MachineInv, TypeOK
  <2>6. TypeOK'
    BY <1>2, <2>1, <2>2, <2>3, <2>4, <2>5 DEF MachineInv, TypeOK
  <2>7. \A slot \in Slots : slot < sp' => stack'[slot] <= MaximumRuntimeReturnAddress
    <3> SUFFICES ASSUME NEW slot \in Slots, slot < sp + 1
                 PROVE  [stack EXCEPT ![sp] = pc + 2][slot] <= MemorySize
      BY <1>2 DEF MaximumRuntimeReturnAddress
    <3>1. CASE slot = sp
      BY <2>2, <3>1 DEF MachineInv, TypeOK
    <3>2. CASE slot # sp
      <4>1. slot < sp
        BY <2>1, <3>2 DEF Slots
      <4> QED
        BY <3>2, <4>1 DEF MachineInv, TypeOK, InRange, MaximumRuntimeReturnAddress
    <3> QED
      BY <3>1, <3>2
  <2>8. InRange'
    BY <1>2, <2>1, <2>2, <2>3, <2>4, <2>7, Sizes
    DEF MachineInv, TypeOK, InRange, Word, MaximumRuntimeProgramCounter
  <2> QED
    BY <2>2, <2>6, <2>8 DEF MachineInv, NeverFaults
<1> QED
  BY <1>1, <1>2 DEF Call

\* Jumps and skips stay within two words of the end of memory.
LEMMA FlowKeeps ==
    ASSUME MachineInv, NEW address \in Address, NEW x \in Registers, NEW y \in Registers,
           NEW value \in Byte,
           Jump(address) \/ Skip(x, y, value) \/ JumpWithOffset(address, x)
    PROVE  MachineInv'
<1>1. CASE Jump(address)
  <2>1. address \in Nat /\ address <= MemorySize + 2
    BY Sizes DEF Address
  <2> QED
    BY <1>1, <2>1, GotoKeeps DEF Jump
<1>2. CASE Skip(x, y, value)
  <2>1. PICK taken \in SkipConditions(x, y, value) :
            Fetch({}) /\ Goto(IF taken THEN pc + 4 ELSE pc + 2) /\ UNCHANGED control
    BY <1>2 DEF Skip
  <2>2. pc + 2 <= MemorySize
    BY <2>1, FetchKeeps
  <2>3. pc + 2 \in Nat /\ pc + 4 \in Nat /\ pc + 2 <= MemorySize + 2 /\ pc + 4 <= MemorySize + 2
    BY <2>2, Operands, Sizes
  <2>4. CASE taken
    BY <2>1, <2>3, <2>4, GotoKeeps
  <2>5. CASE ~taken
    BY <2>1, <2>3, <2>5, GotoKeeps
  <2> QED
    BY <2>4, <2>5
<1>3. CASE JumpWithOffset(address, x)
  <2> DEFINE target == IF "JumpWithVx" \in quirks
                       THEN (address % ByteSize) + registers[x]
                       ELSE address + registers[0]
  <2>1. Halt \/ (target <= MemorySize /\ Fetch({}) /\ Goto(target) /\ UNCHANGED control)
    BY <1>3 DEF JumpWithOffset
  <2>2. address % ByteSize \in Nat
    BY Sizes DEF Address
  <2>3. target \in Nat
    BY <2>2, Operands, Sizes DEF Address
  <2>4. target <= MemorySize => target <= MemorySize + 2
    BY <2>3, Sizes
  <2> HIDE DEF target
  <2> QED
    BY <2>1, <2>3, <2>4, HaltKeeps, GotoKeeps
<1> QED
  BY <1>1, <1>2, <1>3

\* Loading, adding and computing registers.
LEMMA RegisterKeeps ==
    ASSUME MachineInv, NEW x \in Registers, NEW y \in Registers, NEW value \in Byte,
           SetRegister(x, value) \/ Arithmetic(x, y)
    PROVE  MachineInv'
<1>1. /\ registers \in [Registers -> Byte] /\ index \in Address /\ delay \in Byte
      /\ {} \in SUBSET Address
  BY Operands
<1>2. /\ registers[x] \in Byte /\ registers[y] \in Byte
      /\ \A v \in Byte : [registers EXCEPT ![x] = v] \in [Registers -> Byte]
  BY <1>1
<1>3. CASE SetRegister(x, value)
  <2>1. PICK result \in {value, (registers[x] + value) % ByteSize, delay} :
            Set([registers EXCEPT ![x] = result], index, {})
    BY <1>3 DEF SetRegister
  <2>2. result \in Byte
    <3>1. (registers[x] + value) % ByteSize \in Byte
      BY <1>2, ByteResults
    <3> QED
      BY <1>1, <2>1, <3>1
  <2> QED
    BY <1>1, <1>2, <2>1, <2>2, SetKeeps
<1>4. CASE Arithmetic(x, y)
  <2> DEFINE left == registers[x]
             right == registers[y]
             shifted == IF "ShiftWithVy" \in quirks THEN right ELSE left
             logic(anyByte) == IF "ClearVfOnLogic" \in quirks
                               THEN WithFlag(x, anyByte, 0)
                               ELSE [registers EXCEPT ![x] = anyByte]
  <2>1. PICK newRegisters \in
          { [registers EXCEPT ![x] = right],
            WithFlag(x, (left + right) % ByteSize, Bit(left + right >= ByteSize)),
            WithFlag(x, (left - right) % ByteSize, Bit(left >= right)),
            WithFlag(x, (right - left) % ByteSize, Bit(right >= left)),
            WithFlag(x, shifted \div 2, shifted % 2),
            WithFlag(x, (shifted * 2) % ByteSize, (shifted * 2) \div ByteSize) }
          \cup { logic(anyByte) : anyByte \in Byte } :
          Set(newRegisters, index, {})
    BY <1>4 DEF Arithmetic
  <2>2. left \in Byte /\ right \in Byte /\ shifted \in Byte
    BY <1>2
  <2>3. /\ [registers EXCEPT ![x] = right] \in [Registers -> Byte]
        /\ \A anyByte \in Byte : logic(anyByte) \in [Registers -> Byte]
    BY <1>1, <1>2, <2>2, WithFlagType, Sizes
  <2> HIDE DEF left, right, shifted, logic
  <2>4. /\ WithFlag(x, (left + right) % ByteSize, Bit(left + right >= ByteSize)) \in [Registers -> Byte]
        /\ WithFlag(x, (left - right) % ByteSize, Bit(left >= right)) \in [Registers -> Byte]
        /\ WithFlag(x, (right - left) % ByteSize, Bit(right >= left)) \in [Registers -> Byte]
    <3>1. /\ Bit(left + right >= ByteSize) \in Byte
          /\ Bit(left >= right) \in Byte /\ Bit(right >= left) \in Byte
      BY Sizes DEF Bit
    <3> QED
      BY <1>1, <2>2, <3>1, ByteResults, WithFlagType
  <2>5. /\ WithFlag(x, shifted \div 2, shifted % 2) \in [Registers -> Byte]
        /\ WithFlag(x, (shifted * 2) % ByteSize, (shifted * 2) \div ByteSize) \in [Registers -> Byte]
    BY <1>1, <2>2, ByteResults, WithFlagType
  <2>6. newRegisters \in [Registers -> Byte]
    BY <2>1, <2>3, <2>4, <2>5
  <2> QED
    BY <1>1, <2>1, <2>6, SetKeeps
<1> QED
  BY <1>3, <1>4

\* The index register stays within memory.
LEMMA IndexKeeps ==
    ASSUME MachineInv, NEW x \in Registers, NEW address \in Address,
           SetIndex(address) \/ AddIndex(x) \/ FontIndex(x) \/ ClearDisplay
    PROVE  MachineInv'
<1>1. /\ registers \in [Registers -> Byte] /\ index \in Address /\ registers[x] \in Nat
      /\ {} \in SUBSET Address
  BY Operands
<1>2. CASE SetIndex(address) \/ ClearDisplay
  BY <1>1, <1>2, SetKeeps DEF SetIndex, ClearDisplay
<1>3. CASE FontIndex(x)
  <2>1. CASE Halt
    BY <2>1, HaltKeeps
  <2>2. CASE registers[x] < FontDigits /\ Set(registers, FontStart + registers[x] * GlyphSize, {})
    BY <1>1, <2>2, GlyphAddress, SetKeeps
  <2> QED
    BY <1>3, <2>1, <2>2 DEF FontIndex
<1>4. CASE AddIndex(x)
  <2> DEFINE sum == index + registers[x]
             flagged == IF "SetVfOnIndexOverflow" \in quirks
                        THEN [registers EXCEPT ![VF] = Bit(sum >= MemorySize)]
                        ELSE registers
  <2>1. \/ sum < MemorySize /\ Set(flagged, sum, {})
        \/ /\ Fetch({}) /\ halted' = TRUE /\ pc' = pc + 2 /\ registers' = flagged
           /\ UNCHANGED <<index, control, timers>>
    BY <1>4 DEF AddIndex
  <2>2. sum \in Nat /\ (sum < MemorySize => sum \in Address)
    BY <1>1, Sizes DEF Address
  <2>3. flagged \in [Registers -> Byte]
    BY <1>1, Sizes DEF Bit
  <2> HIDE DEF sum, flagged
  <2>4. CASE sum < MemorySize /\ Set(flagged, sum, {})
    BY <1>1, <2>2, <2>3, <2>4, SetKeeps
  <2>5. CASE /\ Fetch({}) /\ halted' = TRUE /\ pc' = pc + 2 /\ registers' = flagged
             /\ UNCHANGED <<index, control, timers>>
    <3>1. /\ faulted' = FALSE /\ pc + 2 <= MemorySize
          /\ frame' \in 0 .. InstructionsPerFrame
          /\ UNCHANGED <<life, quirks, controller, keys, polled, phase>>
      BY <2>5, FetchKeeps
    <3>2. pc' \in Word /\ UNCHANGED <<index, stack, sp, delay, sound>>
      BY <2>5, Operands DEF Word, control, timers
    <3>3. TypeOK'
      BY <2>3, <2>5, <3>1, <3>2 DEF MachineInv, TypeOK
    <3>4. InRange'
      BY <2>5, <3>1, <3>2, Sizes
      DEF MachineInv, TypeOK, InRange, Word, MaximumRuntimeProgramCounter
    <3> QED
      BY <3>1, <3>3, <3>4 DEF MachineInv, NeverFaults
  <2> QED
    BY <2>1, <2>4, <2>5
<1> QED
  BY <1>2, <1>3, <1>4

\* Instructions that read or write memory at the index touch addresses that
\* exist, all of them, before they change anything.
LEMMA MemoryKeeps ==
    ASSUME MachineInv, NEW x \in Registers, NEW height \in Registers,
           NEW collision \in BOOLEAN, NEW loaded \in [Registers -> Byte],
           \/ DrawSprite(height, collision) \/ StoreDecimal
           \/ StoreRegisters(x) \/ LoadRegisters(x, loaded)
    PROVE  MachineInv'
<1>1. /\ registers \in [Registers -> Byte] /\ index \in Address
      /\ x \in Nat /\ height \in Nat
  BY Operands
<1>2. \A n \in Int : index + n < MemorySize => index .. index + n \in SUBSET Address
  BY <1>1, Sizes DEF Address
<1>3. CASE DrawSprite(height, collision)
  <2>1. CASE Halt
    BY <2>1, HaltKeeps
  <2>2. CASE /\ index + height <= MemorySize
             /\ Set([registers EXCEPT ![VF] = Bit(collision)], index, index .. index + height - 1)
    <3>1. index .. index + height - 1 \in SUBSET Address
      BY <1>1, <2>2, Sizes DEF Address
    <3>2. [registers EXCEPT ![VF] = Bit(collision)] \in [Registers -> Byte]
      BY <1>1, BitType, Sizes
    <3> QED
      BY <1>1, <2>2, <3>1, <3>2, SetKeeps
  <2>3. Halt \/ (/\ ~(height = 0 \/ index + height > MemorySize)
                 /\ Set([registers EXCEPT ![VF] = Bit(collision)], index,
                        index .. index + height - 1))
    BY <1>3 DEF DrawSprite
  <2>4. ~(height = 0 \/ index + height > MemorySize) => index + height <= MemorySize
    BY <1>1, Sizes DEF Address
  <2> QED
    BY <2>1, <2>2, <2>3, <2>4
<1>4. CASE StoreDecimal
  <2>1. CASE Halt
    BY <2>1, HaltKeeps
  <2>2. CASE index <= MemorySize - 3 /\ Set(registers, index, index .. index + 2)
    <3>1. index .. index + 2 \in SUBSET Address
      BY <1>1, <2>2, Sizes DEF Address
    <3> QED
      BY <1>1, <2>2, <3>1, SetKeeps
  <2> QED
    BY <1>4, <2>1, <2>2 DEF StoreDecimal
<1>5. ASSUME NEW newRegisters \in [Registers -> Byte], Transfer(x, newRegisters)
      PROVE  MachineInv'
  <2>1. CASE Halt
    BY <2>1, HaltKeeps
  <2>2. CASE /\ index + x < MemorySize
             /\ Set(newRegisters, IndexAfterTransfer(x), index .. index + x)
    <3>1. index + x + 1 \in Int /\ MemorySize \in Nat /\ 1 <= MemorySize
      BY <1>1, Sizes DEF Address
    <3>2. IndexAfterTransfer(x) \in Address
      BY <1>1, <3>1, Remainder DEF IndexAfterTransfer, Address
    <3>3. index .. index + x \in SUBSET Address
      BY <1>1, <1>2, <2>2
    <3> QED
      BY <2>2, <3>2, <3>3, SetKeeps
  <2> QED
    BY <1>5, <2>1, <2>2 DEF Transfer
<1>6. [r \in Registers |-> IF r <= x THEN loaded[r] ELSE registers[r]] \in [Registers -> Byte]
  BY <1>1
<1> QED
  BY <1>1, <1>3, <1>4, <1>5, <1>6 DEF StoreRegisters, LoadRegisters

\* Waiting for a key and setting a timer.
LEMMA WaitKeeps ==
    ASSUME MachineInv, NEW x \in Registers, WaitKey(x) \/ SetTimer(x)
    PROVE  MachineInv'
<1>1. /\ registers \in [Registers -> Byte] /\ registers[x] \in Byte /\ index \in Address
      /\ pc \in Nat /\ {} \in SUBSET Address
  BY Operands
<1>2. CASE WaitKey(x)
  <2>1. CASE Fetch({}) /\ Goto(pc) /\ UNCHANGED control
    <3>0. pc + 2 <= MemorySize
      BY <1>1, <2>1, FetchKeeps
    <3>1. pc <= MemorySize + 2
      BY <1>1, <3>0, Sizes
    <3> QED
      BY <1>1, <2>1, <3>1, GotoKeeps
  <2>2. ASSUME NEW key \in keys, Set([registers EXCEPT ![x] = key], index, {})
        PROVE  MachineInv'
    <3>1. key \in Byte
      BY Sizes DEF MachineInv, TypeOK
    <3>2. [registers EXCEPT ![x] = key] \in [Registers -> Byte]
      BY <1>1, <3>1
    <3> QED
      BY <1>1, <2>2, <3>2, SetKeeps
  <2> QED
    BY <1>2, <2>1, <2>2 DEF WaitKey
<1>3. CASE SetTimer(x)
  <2>1. /\ faulted' = FALSE /\ pc + 2 <= MemorySize
        /\ frame' \in 0 .. InstructionsPerFrame
        /\ UNCHANGED <<life, quirks, controller, keys, polled, phase>>
    BY <1>3, FetchKeeps DEF SetTimer
  <2>2. /\ pc' = pc + 2 /\ pc' \in Word /\ halted' = FALSE
        /\ UNCHANGED <<index, registers, stack, sp>>
    BY <1>1, <1>3 DEF SetTimer, Continue, control, Word
  <2>3. delay' \in Byte /\ sound' \in Byte
    BY <1>1, <1>3, Operands DEF SetTimer
  <2>4. TypeOK'
    BY <2>1, <2>2, <2>3 DEF MachineInv, TypeOK
  <2>5. InRange'
    BY <2>1, <2>2, Sizes DEF MachineInv, TypeOK, InRange, Word, MaximumRuntimeProgramCounter
  <2> QED
    BY <2>1, <2>4, <2>5 DEF MachineInv, NeverFaults
<1> QED
  BY <1>2, <1>3

\* A fetch past the last whole instruction only halts.
LEMMA PastEndKeeps == ASSUME MachineInv, FetchPastEnd PROVE MachineInv'
<1>1. /\ UNCHANGED <<life, quirks, controller, keys, polled, phase, pc, index, registers,
                     stack, sp, delay, sound, faulted>>
      /\ halted' = TRUE
  BY DEF FetchPastEnd, session, control, timers
<1>2. frame' \in 0 .. InstructionsPerFrame
  BY Sizes DEF FetchPastEnd, Executing, MachineInv, TypeOK
<1> QED
  BY <1>1, <1>2 DEF MachineInv, TypeOK, InRange, NeverFaults

\* Every instruction of the interpreter.
LEMMA InstructionKeeps == ASSUME MachineInv, ExecuteInstruction PROVE MachineInv'
<1>0. Registers # {} /\ Address # {} /\ Byte # {}
  BY Sizes DEF Address
<1>1. PICK x0 \in Registers, a0 \in Address, b0 \in Byte, f0 \in [Registers -> Byte] : TRUE
  <2>1. [r \in Registers |-> 0] \in [Registers -> Byte]
    BY Sizes
  <2> QED
    BY <1>0, <2>1
<1>2. CASE FetchPastEnd
  BY <1>2, PastEndKeeps
<1>3. CASE Unsupported
  BY <1>3, HaltKeeps DEF Unsupported
<1>4. CASE ClearDisplay
  BY <1>1, <1>4, IndexKeeps
<1>5. CASE Return
  BY <1>5, ReturnKeeps
<1>6. CASE StoreDecimal
  BY <1>1, <1>6, MemoryKeeps
<1>7. ASSUME NEW address \in Address, Jump(address) \/ Call(address) \/ SetIndex(address)
      PROVE  MachineInv'
  BY <1>1, <1>7, FlowKeeps, CallKeeps, IndexKeeps
<1>8. ASSUME NEW address \in Address, NEW x \in Registers, JumpWithOffset(address, x)
      PROVE  MachineInv'
  BY <1>1, <1>8, FlowKeeps
<1>9. ASSUME NEW x \in Registers, AddIndex(x) \/ FontIndex(x) PROVE MachineInv'
  BY <1>1, <1>9, IndexKeeps
<1>10. ASSUME NEW x \in Registers, WaitKey(x) \/ SetTimer(x) PROVE MachineInv'
  BY <1>10, WaitKeeps
<1>11. ASSUME NEW x \in Registers, StoreRegisters(x) PROVE MachineInv'
  BY <1>1, <1>11, MemoryKeeps
<1>12. ASSUME NEW x \in Registers, NEW loaded \in [Registers -> Byte], LoadRegisters(x, loaded)
       PROVE  MachineInv'
  BY <1>1, <1>12, MemoryKeeps
<1>13. ASSUME NEW x \in Registers, NEW y \in Registers, NEW value \in Byte,
              SetRegister(x, value) \/ Skip(x, y, value)
       PROVE  MachineInv'
  BY <1>1, <1>13, FlowKeeps, RegisterKeeps
<1>14. ASSUME NEW height \in Registers, NEW collision \in BOOLEAN, DrawSprite(height, collision)
       PROVE  MachineInv'
  BY <1>1, <1>14, MemoryKeeps
<1>15. ASSUME NEW x \in Registers, NEW y \in Registers, Arithmetic(x, y) PROVE MachineInv'
  BY <1>1, <1>15, Sizes, RegisterKeeps
<1> QED
  BY <1>1, <1>2, <1>3, <1>4, <1>5, <1>6, <1>7, <1>8, <1>9, <1>10, <1>11, <1>12, <1>13, <1>14,
     <1>15
  DEF ExecuteInstruction

----------------------------------------------------------------------------
(* Frames, sessions and saved states keep the machine in range.            *)

\* The end of a frame: the audio phase wraps and the timers count down.
LEMMA EndFrameKeeps == ASSUME MachineInv, EndFrame PROVE MachineInv'
<1>1. /\ UNCHANGED <<life, pc, index, registers, stack, sp, halted, quirks, controller,
                     keys, faulted>>
      /\ frame' = Idle /\ polled' = FALSE
  BY DEF EndFrame, control
<1>2. phase' \in Nat /\ phase' < AudioSampleRate
  <2>1. phase + PhasePerFrame \in Int
    BY Sizes DEF MachineInv, TypeOK
  <2>2. (phase + PhasePerFrame) % AudioSampleRate \in 0 .. AudioSampleRate - 1
    BY <2>1, Sizes, Remainder
  <2> QED
    BY <2>2, Sizes DEF EndFrame, MachineInv, TypeOK, InRange
<1>3. delay' \in Byte /\ sound' \in Byte
  BY Sizes DEF EndFrame, Countdown, MachineInv, TypeOK, Byte
<1> QED
  BY <1>1, <1>2, <1>3 DEF MachineInv, TypeOK, InRange, NeverFaults

\* A reset machine is in range.
LEMMA ResetInRange ==
    ASSUME ResetMachine
    PROVE  /\ InRange'
           /\ pc' \in Word /\ index' \in Word /\ registers' \in [Registers -> Byte]
           /\ stack' \in [Slots -> Word] /\ sp' \in Nat /\ halted' \in BOOLEAN
           /\ delay' \in Byte /\ sound' \in Byte /\ phase' \in Nat /\ keys' \subseteq Keys
<1>1. /\ pc' = ProgramStart /\ index' = 0 /\ sp' = 0 /\ phase' = 0 /\ halted' = FALSE
      /\ delay' = 0 /\ sound' = 0 /\ keys' = {}
      /\ registers' = [r \in Registers |-> 0] /\ stack' = [s \in Slots |-> 0]
  BY DEF ResetMachine
<1>2. ProgramStart \in Word /\ ProgramStart <= MemorySize + 2 /\ 0 < MemorySize
  BY Sizes DEF Word
<1>3. InRange'
  BY <1>1, <1>2, Sizes DEF InRange, Slots, MaximumRuntimeProgramCounter
<1>4. /\ [r \in Registers |-> 0] \in [Registers -> Byte]
      /\ [s \in Slots |-> 0] \in [Slots -> Word]
  BY Sizes DEF Word
<1> QED
  BY <1>1, <1>2, <1>3, <1>4, Sizes DEF Word

\* Loading, resetting, unloading and deinitialising.
LEMMA SessionKeeps ==
    ASSUME MachineInv,
           \/ Reset \/ UnloadContent \/ Deinitialize
           \/ \E enabled, disabled \in SUBSET Quirks : LoadContent(enabled, disabled)
    PROVE  MachineInv'
<1>1. ResetMachine /\ UNCHANGED <<frame, polled, faulted>>
  BY DEF Reset, UnloadContent, Deinitialize, LoadContent
<1>2. life' \in {"cold", "ready", "loaded"} /\ quirks' \subseteq Quirks /\ controller' \in BOOLEAN
  BY DEF Reset, UnloadContent, Deinitialize, LoadContent, UpdateCoreOptions, MachineInv, TypeOK
<1> QED
  BY <1>1, <1>2, ResetInRange DEF MachineInv, TypeOK, NeverFaults

\* A state that passed the validation puts the machine in range.
LEMMA UnserializeKeeps ==
    ASSUME MachineInv, NEW s \in ForeignStates, Unserialize(s) PROVE MachineInv'
<1>1. s \in SavedStates /\ Accepts(s)
  BY Chip8Assumption DEF Unserialize
<1>2. /\ s.pc \in Word /\ s.index \in Word /\ s.phase \in Nat /\ s.delay \in Byte
      /\ s.sound \in Byte /\ s.sp \in Nat /\ s.halted \in BOOLEAN /\ s.quirks \subseteq Quirks
      /\ s.registers \in [Registers -> Byte] /\ s.stack \in [Slots -> Word]
  BY <1>1 DEF SavedStates
<1>3. TypeOK'
  BY <1>2 DEF Unserialize, MachineInv, TypeOK
<1>4. InRange'
  BY <1>1 DEF Unserialize, Accepts, InRange
<1> QED
  BY <1>3, <1>4 DEF Unserialize, MachineInv, NeverFaults

\* The machine in range is an invariant of the core.
LEMMA MachineAlwaysInRange == Spec => []MachineInv
<1>1. Init => MachineInv
  <2> SUFFICES ASSUME Init PROVE MachineInv
    OBVIOUS
  <2>1. /\ [r \in Registers |-> 0] \in [Registers -> Byte]
        /\ [s \in Slots |-> 0] \in [Slots -> Word] /\ 0 \in Word
    BY Sizes DEF Word
  <2>2. TypeOK
    BY <2>1, Sizes DEF Init, TypeOK
  <2>3. pc = 0 /\ index = 0 /\ phase = 0 /\ sp = 0 /\ ~faulted
    BY DEF Init
  <2>4. InRange
    BY <2>3, Sizes DEF InRange, Slots, MaximumRuntimeProgramCounter
  <2> QED
    BY <2>2, <2>3, <2>4 DEF MachineInv, NeverFaults
<1>2. MachineInv /\ [Next]_vars => MachineInv'
  <2> SUFFICES ASSUME MachineInv, [Next]_vars PROVE MachineInv'
    OBVIOUS
  <2>1. CASE Initialize
    <3>1. UNCHANGED <<pc, index, registers, stack, sp, halted, delay, sound, phase,
                      quirks, controller, keys, frame, polled, faulted>> /\ life' = "ready"
      BY <2>1 DEF Initialize, machine, control, timers
    <3> QED
      BY <3>1 DEF MachineInv, TypeOK, InRange, NeverFaults
  <2>2. ASSUME NEW enabled \in SUBSET Quirks, NEW disabled \in SUBSET (Quirks \ enabled),
               LoadContent(enabled, disabled)
        PROVE  MachineInv'
    BY <2>2, SessionKeeps
  <2>3. ASSUME NEW enabled \in SUBSET Quirks, NEW disabled \in SUBSET (Quirks \ enabled),
               NEW pressed \in SUBSET Keys, BeginFrame(enabled, disabled, pressed)
        PROVE  MachineInv'
    <3>1. /\ UNCHANGED <<life, pc, index, registers, stack, sp, halted, delay, sound, phase,
                         controller, faulted>>
          /\ quirks' \subseteq Quirks /\ keys' \subseteq Keys /\ polled' \in BOOLEAN /\ frame' = 0
      BY <2>3 DEF BeginFrame, UpdateCoreOptions, machine, control, timers, MachineInv, TypeOK
    <3>2. 0 \in 0 .. InstructionsPerFrame
      BY Sizes
    <3> QED
      BY <3>1, <3>2 DEF MachineInv, TypeOK, InRange, NeverFaults
  <2>4. CASE Reset \/ UnloadContent \/ Deinitialize
    BY <2>4, SessionKeeps
  <2>5. ASSUME NEW joypad \in BOOLEAN, SetControllerPortDevice(joypad) PROVE MachineInv'
    <3>1. UNCHANGED <<life, pc, index, registers, stack, sp, halted, delay, sound, phase,
                      quirks, keys, frame, polled, faulted>> /\ controller' = joypad
      BY <2>5 DEF SetControllerPortDevice, machine, control, timers
    <3> QED
      BY <3>1 DEF MachineInv, TypeOK, InRange, NeverFaults
  <2>6. ASSUME NEW s \in ForeignStates, Unserialize(s) PROVE MachineInv'
    BY <2>6, UnserializeKeeps
  <2>7. CASE RunFrame
    BY <2>7, InstructionKeeps, EndFrameKeeps DEF RunFrame
  <2>8. CASE UNCHANGED vars
    BY <2>8 DEF vars, machine, control, timers, MachineInv, TypeOK, InRange, NeverFaults
  <2> QED
    BY <2>1, <2>2, <2>3, <2>4, <2>5, <2>6, <2>7, <2>8 DEF Next
<1> QED
  BY <1>1, <1>2, PTL DEF Spec

\* The variables of the core have their types.
THEOREM MachineTypes == Spec => []TypeOK
<1>1. MachineInv => TypeOK
  BY DEF MachineInv
<1> QED
  BY <1>1, MachineAlwaysInRange, PTL

\* No program, no operand and no accepted state makes RunFrame index out of
\* range: the interpreter never throws into the host.
THEOREM InterpreterNeverThrows == Spec => []NeverFaults
<1>1. MachineInv => NeverFaults
  BY DEF MachineInv
<1> QED
  BY <1>1, MachineAlwaysInRange, PTL

\* Every state the interpreter reaches, with any memory, display and operands,
\* passes the validation of Unserialize.
THEOREM ReachableStatesAccepted == Spec => []RuntimeStateAccepted
<1>1. MachineInv => RuntimeStateAccepted
  BY AcceptsInRange DEF MachineInv, RuntimeStateAccepted
<1> QED
  BY <1>1, MachineAlwaysInRange, PTL

----------------------------------------------------------------------------
(* What one instruction may do, whatever the state of the machine.         *)

\* An instruction runs only in an unfinished frame of a machine that is not
\* halted, counts in that frame, and belongs to the session it started in.  When it
\* halts the machine it has changed nothing but the program counter and the flag.
Bounded ==
    /\ Executing
    /\ frame' = frame + 1
    /\ UNCHANGED session
    /\ halted' =>
         /\ UNCHANGED <<index, stack, sp, delay, sound>>
         /\ \A r \in Registers \ {VF} : registers'[r] = registers[r]

\* The ways of ending an instruction are bounded.
LEMMA EndingsBounded ==
    /\ FetchPastEnd => Bounded
    /\ Halt => Bounded
    /\ \A f, i, t : Set(f, i, t) => Bounded
    /\ \A t, g : Fetch(t) /\ Goto(g) => Bounded
<1> USE DEF Bounded, Fetch, Continue, session, control, timers
<1>1. FetchPastEnd => Bounded
  BY DEF FetchPastEnd
<1>2. Halt => Bounded
  BY DEF Halt
<1>3. ASSUME NEW f, NEW i, NEW t, Set(f, i, t) PROVE Bounded
  BY <1>3 DEF Set
<1>4. ASSUME NEW t, NEW g, Fetch(t), Goto(g) PROVE Bounded
  BY <1>4 DEF Goto
<1> QED
  BY <1>1, <1>2, <1>3, <1>4

\* Every instruction is bounded.
LEMMA InstructionBounded == ASSUME TypeOK, ExecuteInstruction PROVE Bounded
<1>0. registers \in [Registers -> Byte]
  BY DEF TypeOK
<1>1. CASE FetchPastEnd \/ Unsupported \/ ClearDisplay \/ Return \/ StoreDecimal
  BY <1>1, EndingsBounded DEF Unsupported, ClearDisplay, Return, StoreDecimal
<1>2. ASSUME NEW address, Jump(address) \/ Call(address) \/ SetIndex(address)
      PROVE  Bounded
  BY <1>2, EndingsBounded DEF Jump, Call, SetIndex
<1>3. ASSUME NEW address, NEW x, JumpWithOffset(address, x) PROVE Bounded
  BY <1>3, EndingsBounded DEF JumpWithOffset
<1>4. ASSUME NEW x, FontIndex(x) \/ WaitKey(x) PROVE Bounded
  BY <1>4, EndingsBounded DEF FontIndex, WaitKey
<1>5. ASSUME NEW x, SetTimer(x) PROVE Bounded
  BY <1>5 DEF SetTimer, Fetch, Continue, Bounded
<1>6. ASSUME NEW x, NEW f, Transfer(x, f) PROVE Bounded
  BY <1>6, EndingsBounded DEF Transfer
<1>7. ASSUME NEW x, StoreRegisters(x) PROVE Bounded
  BY <1>6, <1>7 DEF StoreRegisters
<1>8. ASSUME NEW x, NEW loaded, LoadRegisters(x, loaded) PROVE Bounded
  BY <1>6, <1>8 DEF LoadRegisters
<1>9. ASSUME NEW x, NEW value, SetRegister(x, value) PROVE Bounded
  BY <1>9, EndingsBounded DEF SetRegister
<1>10. ASSUME NEW x, NEW y, NEW value, Skip(x, y, value) PROVE Bounded
  BY <1>10, EndingsBounded DEF Skip
<1>11. ASSUME NEW x, NEW y, Arithmetic(x, y) PROVE Bounded
  BY <1>11, EndingsBounded DEF Arithmetic
<1>12. ASSUME NEW height, NEW collision, DrawSprite(height, collision) PROVE Bounded
  BY <1>12, EndingsBounded DEF DrawSprite
<1>13. ASSUME NEW x \in Registers, AddIndex(x) PROVE Bounded
  <2>1. CASE Set(registers, index + registers[x], {})
             \/ \E f : Set(f, index + registers[x], {})
    BY <2>1, EndingsBounded
  <2>2. CASE /\ Fetch({}) /\ UNCHANGED <<index, control, timers>>
             /\ \/ registers' = registers
                \/ \E flag : registers' = [registers EXCEPT ![VF] = flag]
    <3>1. \A r \in Registers \ {VF} : registers'[r] = registers[r]
      BY <1>0, <2>2
    <3> QED
      BY <2>2, <3>1 DEF Fetch, Bounded, control, timers
  <2> QED
    BY <1>13, <2>1, <2>2 DEF AddIndex
<1> QED
  BY <1>1, <1>2, <1>3, <1>4, <1>5, <1>7, <1>8, <1>9, <1>10, <1>11, <1>12, <1>13
  DEF ExecuteInstruction

\* An instruction that halts the machine leaves its index, stack and timers as
\* they were, and of its registers at most the flag.
THEOREM FailureIsContained == Spec => FailedInstructionChangesNothing
<1> DEFINE Contained ==
        ~halted /\ halted' /\ frame # Idle =>
            /\ UNCHANGED <<index, stack, sp, delay, sound>>
            /\ \A r \in Registers \ {VF} : registers'[r] = registers[r]
<1>1. TypeOK /\ [Next]_vars => [Contained]_vars
  <2> SUFFICES ASSUME TypeOK, [Next]_vars, ~halted, halted', frame # Idle
               PROVE  /\ UNCHANGED <<index, stack, sp, delay, sound>>
                      /\ \A r \in Registers \ {VF} : registers'[r] = registers[r]
    OBVIOUS
  <2>1. CASE ExecuteInstruction
    BY <2>1, InstructionBounded DEF Bounded
  <2>2. ASSUME EndFrame \/ UNCHANGED vars PROVE FALSE
    BY <2>2 DEF EndFrame, vars, machine
  <2>3. CASE ~(RunFrame \/ UNCHANGED vars)
    BY <2>3 DEF Next, Between, Initialize, LoadContent, Reset, SetControllerPortDevice,
                UnloadContent, Deinitialize, Unserialize, BeginFrame
  <2> QED
    BY <2>1, <2>2, <2>3 DEF RunFrame
<1> QED
  BY <1>1, MachineTypes, PTL DEF Spec, FailedInstructionChangesNothing

\* A frame run on a halted machine, from its beginning to its end, never changes
\* where the machine stopped.
THEOREM HaltIsFinal == Spec => HaltedMachineFrozen
<1> DEFINE Frozen ==
        halted /\ (frame # Idle \/ frame' # Idle) =>
            halted' /\ UNCHANGED <<pc, index, registers, stack, sp>>
<1>1. TypeOK /\ [Next]_vars => [Frozen]_vars
  <2> SUFFICES ASSUME TypeOK, [Next]_vars, halted, frame # Idle \/ frame' # Idle
               PROVE  halted' /\ UNCHANGED <<pc, index, registers, stack, sp>>
    OBVIOUS
  <2>1. ASSUME ExecuteInstruction PROVE FALSE
    BY <2>1, InstructionBounded DEF Bounded, Executing
  <2>2. CASE EndFrame \/ UNCHANGED vars
    BY <2>2 DEF EndFrame, vars, machine, control
  <2>3. ASSUME NEW enabled, NEW disabled, NEW pressed, BeginFrame(enabled, disabled, pressed)
        PROVE  halted' /\ UNCHANGED <<pc, index, registers, stack, sp>>
    BY <2>3 DEF BeginFrame, machine, control
  <2>4. ASSUME \/ Initialize \/ Reset \/ UnloadContent \/ Deinitialize
               \/ \E enabled, disabled : LoadContent(enabled, disabled)
               \/ \E joypad : SetControllerPortDevice(joypad)
               \/ \E s : Unserialize(s)
        PROVE  FALSE
    BY <2>4 DEF Between, Initialize, LoadContent, Reset, SetControllerPortDevice,
                UnloadContent, Deinitialize, Unserialize
  <2> QED
    BY <2>1, <2>2, <2>3, <2>4 DEF Next, RunFrame
<1> QED
  BY <1>1, MachineTypes, PTL DEF Spec, HaltedMachineFrozen

\* No content leaves anything in the core behind, and no frontend either.
THEOREM SessionsStartClean == Spec => []NothingLeftBehind
<1>1. Init => NothingLeftBehind
  BY DEF Init, NothingLeftBehind
<1>2. TypeOK /\ NothingLeftBehind /\ [Next]_vars => NothingLeftBehind'
  <2> SUFFICES ASSUME TypeOK, NothingLeftBehind, [Next]_vars PROVE NothingLeftBehind'
    OBVIOUS
  <2>1. CASE ExecuteInstruction
    <3>1. life = "loaded" /\ life' = "loaded"
      BY <2>1, InstructionBounded DEF Bounded, Executing, session, NothingLeftBehind
    <3> QED
      BY <3>1 DEF NothingLeftBehind
  <2>2. CASE EndFrame
    <3>1. life = "loaded" /\ life' = "loaded"
      BY <2>2 DEF EndFrame, NothingLeftBehind
    <3> QED
      BY <3>1 DEF NothingLeftBehind
  <2>3. CASE UNCHANGED vars
    BY <2>3 DEF vars, machine, control, timers, NothingLeftBehind
  <2>4. ASSUME \/ \E enabled, disabled : LoadContent(enabled, disabled)
               \/ \E enabled, disabled, pressed : BeginFrame(enabled, disabled, pressed)
               \/ Reset
               \/ \E s : Unserialize(s)
        PROVE  NothingLeftBehind'
    <3>1. life' = "loaded"
      BY <2>4 DEF Between, LoadContent, BeginFrame, Reset, Unserialize
    <3> QED
      BY <3>1 DEF NothingLeftBehind
  <2>5. CASE UnloadContent \/ Deinitialize
    <3>1. /\ frame' = Idle /\ keys' = {} /\ halted' = FALSE
          /\ index' = 0 /\ sp' = 0 /\ delay' = 0 /\ sound' = 0 /\ phase' = 0
          /\ registers' = [r \in Registers |-> 0] /\ stack' = [s \in Slots |-> 0]
      BY <2>5 DEF UnloadContent, Deinitialize, Between, ResetMachine
    <3>2. life' = "cold" => quirks' = {} /\ controller'
      BY <2>5 DEF UnloadContent, Deinitialize
    <3> QED
      BY <3>1, <3>2 DEF NothingLeftBehind
  <2>6. CASE Initialize
    BY <2>6 DEF Initialize, Between, machine, control, timers, NothingLeftBehind
  <2>7. ASSUME NEW joypad, SetControllerPortDevice(joypad) PROVE NothingLeftBehind'
    BY <2>7 DEF SetControllerPortDevice, Between, machine, control, timers, NothingLeftBehind
  <2> QED
    BY <2>1, <2>2, <2>3, <2>4, <2>5, <2>6, <2>7 DEF Next, RunFrame
<1> QED
  BY <1>1, <1>2, MachineTypes, PTL DEF Spec

----------------------------------------------------------------------------
(* Frames.                                                                 *)

\* While a frame runs, each step is one of its instructions, and counts, or ends
\* the frame; the count has a limit.  This is FramesEnd but for the fairness.
FrameAdvances == [][frame # Idle => frame' = Idle \/ frame' = frame + 1]_vars

\* A frame polls its input exactly when a joypad is in port 0.
PollsForJoypad == frame # Idle => (polled <=> controller)

\* A halted machine whose timers have run down no longer changes in a frame, nor
\* what would be saved of it.
HaltedStateSettles ==
    [][halted /\ frame # Idle /\ delay = 0 /\ sound = 0 => Serialized' = Serialized]_vars

\* What a step of Next does to a frame.
LEMMA FrameSteps ==
    ASSUME TypeOK, Next, frame # Idle
    PROVE  \/ ExecuteInstruction /\ frame' = frame + 1 /\ UNCHANGED session
           \/ EndFrame
<1>1. CASE ExecuteInstruction
  BY <1>1, InstructionBounded DEF Bounded
<1>2. ASSUME ~RunFrame PROVE FALSE
  BY <1>2 DEF Next, Between, Initialize, LoadContent, Reset, SetControllerPortDevice,
              UnloadContent, Deinitialize, Unserialize, BeginFrame
<1> QED
  BY <1>1, <1>2 DEF RunFrame

\* No step of a frame leaves it where it was, so that it runs at most
\* InstructionsPerFrame instructions, whatever the program waits for (RunFrame).
THEOREM FramesAdvance == Spec => FrameAdvances
<1>1. TypeOK /\ [Next]_vars => [frame # Idle => frame' = Idle \/ frame' = frame + 1]_vars
  BY FrameSteps DEF EndFrame
<1> QED
  BY <1>1, MachineTypes, PTL DEF Spec, FrameAdvances

\* What EveryFramePolls lacks is the joypad: with one in port 0 every frame polls,
\* and without one none does (RunFrame, Chip8Core.cs:173).
THEOREM FramesPollForJoypad == Spec => []PollsForJoypad
<1>1. Init => PollsForJoypad
  BY DEF Init, PollsForJoypad
<1>2. TypeOK /\ PollsForJoypad /\ [Next]_vars => PollsForJoypad'
  <2> SUFFICES ASSUME TypeOK, PollsForJoypad, [Next]_vars PROVE PollsForJoypad'
    OBVIOUS
  <2>1. CASE frame # Idle /\ Next
    BY <2>1, FrameSteps DEF PollsForJoypad, session, EndFrame
  <2>2. ASSUME NEW enabled, NEW disabled, NEW pressed, BeginFrame(enabled, disabled, pressed)
        PROVE  PollsForJoypad'
    BY <2>2 DEF BeginFrame, PollsForJoypad
  <2>3. ASSUME \/ Initialize \/ Reset \/ UnloadContent \/ Deinitialize
               \/ \E enabled, disabled : LoadContent(enabled, disabled)
               \/ \E joypad : SetControllerPortDevice(joypad)
               \/ \E s : Unserialize(s)
        PROVE  frame' = Idle
    BY <2>3 DEF Between, Initialize, LoadContent, Reset, SetControllerPortDevice,
                UnloadContent, Deinitialize, Unserialize
  <2>4. ASSUME frame = Idle, RunFrame PROVE FALSE
    BY <2>4, InstructionBounded DEF RunFrame, EndFrame, Bounded, Executing
  <2>5. CASE UNCHANGED vars
    BY <2>5 DEF vars, PollsForJoypad
  <2> QED
    BY <2>1, <2>2, <2>3, <2>4, <2>5 DEF Next, PollsForJoypad
<1> QED
  BY <1>1, <1>2, MachineTypes, PTL DEF Spec

\* What HaltedStateStable lacks is the timers: once both have run down, later
\* frames leave halted state unchanged, the audio phase included (RunFrame,
\* Chip8Core.cs:182-192).
THEOREM HaltedStatesSettle == Spec => HaltedStateSettles
<1>1. TypeOK /\ [Next]_vars
        => [halted /\ frame # Idle /\ delay = 0 /\ sound = 0 => Serialized' = Serialized]_vars
  <2> SUFFICES ASSUME TypeOK, Next, halted, frame # Idle, delay = 0, sound = 0
               PROVE  Serialized' = Serialized
    OBVIOUS
  <2>1. EndFrame
    BY FrameSteps, InstructionBounded DEF Bounded, Executing
  <2> QED
    BY <2>1 DEF EndFrame, Serialized, Countdown, control
<1> QED
  BY <1>1, MachineTypes, PTL DEF Spec, HaltedStateSettles
=============================================================================
