----------------------------- MODULE Chip8Core -----------------------------
(***************************************************************************)
(* The CHIP-8 reference core, an ILibretroCore driven in the order of      *)
(* CoreContract: content sessions, frames of at most InstructionsPerFrame  *)
(* instructions, the sixteen-bit control state and the saved states it     *)
(* accepts.                                                                *)
(*                                                                         *)
(* Memory bytes, display pixels and random bytes are not kept: the program *)
(* is arbitrary, rewrites itself and is patched by the frontend through    *)
(* system RAM, so each fetch finds any instruction with any operands, and  *)
(* each byte loaded from memory is any byte.  What is kept is everything   *)
(* that decides which addresses are used and which states are accepted.    *)
(***************************************************************************)
EXTENDS Integers, FiniteSets

CONSTANTS
    MemorySize, ProgramStart,              \* 4096 and 0x200
    ByteSize,                              \* 256
    RegisterCount, StackSize,              \* 16 and 16
    FontStart, GlyphSize, FontDigits,      \* 0x50, 5 and 16
    InstructionsPerFrame,                  \* 12
    AudioSampleRate, PhasePerFrame,        \* 48000, and 800 samples of 440
    Quirks,                                \* the members of Chip8Quirks
    Keys,                                  \* keypad codes, 0 to 15
    ForeignStates,                         \* saved states a frontend may offer
    Idle                                   \* no frame is running

Byte == 0 .. ByteSize - 1
Address == 0 .. MemorySize - 1
Registers == 0 .. RegisterCount - 1     \* a nibble of an opcode
VF == RegisterCount - 1
Slots == 0 .. StackSize - 1
Word == Nat

SavedStates ==
    [pc : Word, index : Word, phase : Nat, delay : Byte, sound : Byte, sp : Nat,
     halted : BOOLEAN, quirks : SUBSET Quirks,
     registers : [Registers -> Byte], stack : [Slots -> Word]]

ASSUME Chip8Assumption ==
    /\ {MemorySize, ProgramStart, ByteSize, RegisterCount, StackSize, FontStart,
        GlyphSize, FontDigits, InstructionsPerFrame, AudioSampleRate,
        PhasePerFrame} \subseteq Nat
    /\ 2 <= ByteSize /\ ByteSize <= MemorySize
    /\ 1 <= RegisterCount
    /\ ProgramStart + 2 <= MemorySize
    /\ 1 <= FontDigits /\ FontStart + (FontDigits - 1) * GlyphSize < MemorySize
    /\ 1 <= AudioSampleRate
    /\ Keys \subseteq Byte
    /\ ForeignStates \subseteq SavedStates
    /\ Idle \notin Nat

VARIABLES
    life,        \* CoreContract's phase: the core is driven in that order
    pc, index, registers, stack, sp, halted, delay, sound, phase,
    quirks,      \* _quirks
    controller,  \* whether _controllerDevice is RetroDevice.Joypad
    keys,        \* _keys, the pressed ones
    frame,       \* instructions executed in the running frame, or Idle
    polled,      \* the running frame has called input_poll
    faulted      \* an array was indexed out of range: RunFrame throws

timers == <<delay, sound>>
control == <<stack, sp>>
session == <<life, quirks, controller, keys, polled, phase>>
machine == <<pc, index, registers, control, halted, timers, phase>>
vars == <<life, machine, quirks, controller, keys, frame, polled, faulted>>

----------------------------------------------------------------------------
(* Sessions.                                                               *)

\* ResetMachine: the quirks and the controller device survive it.
ResetMachine ==
    /\ pc' = ProgramStart
    /\ index' = 0
    /\ registers' = [r \in Registers |-> 0]
    /\ stack' = [s \in Slots |-> 0]
    /\ sp' = 0
    /\ halted' = FALSE
    /\ delay' = 0 /\ sound' = 0
    /\ phase' = 0
    /\ keys' = {}

\* UpdateCoreOptions: the frontend knows some options as enabled, some as
\* disabled; an option it does not answer keeps its value.
UpdateCoreOptions(enabled, disabled) == quirks' = (quirks \cup enabled) \ disabled

Init ==
    /\ life = "cold"
    /\ pc = 0 /\ index = 0
    /\ registers = [r \in Registers |-> 0]
    /\ stack = [s \in Slots |-> 0]
    /\ sp = 0
    /\ halted = FALSE
    /\ delay = 0 /\ sound = 0 /\ phase = 0
    /\ quirks = {}
    /\ controller = TRUE
    /\ keys = {}
    /\ frame = Idle
    /\ polled = FALSE
    /\ faulted = FALSE

Between(phases) == frame = Idle /\ life \in phases /\ ~faulted

Initialize ==
    /\ Between({"cold"})
    /\ life' = "ready"
    /\ UNCHANGED <<machine, quirks, controller, keys, frame, polled, faulted>>

\* Content of a size that fits; any other is refused before anything changes.
LoadContent(enabled, disabled) ==
    /\ Between({"ready"})
    /\ life' = "loaded"
    /\ UpdateCoreOptions(enabled, disabled)
    /\ ResetMachine
    /\ UNCHANGED <<controller, frame, polled, faulted>>

Reset ==
    /\ Between({"loaded"})
    /\ ResetMachine
    /\ UNCHANGED <<life, quirks, controller, frame, polled, faulted>>

\* Only port 0 counts; every device other than the joypad disables the keypad.
SetControllerPortDevice(joypad) ==
    /\ Between({"ready", "loaded"})
    /\ controller' = joypad
    /\ UNCHANGED <<life, machine, quirks, keys, frame, polled, faulted>>

UnloadContent ==
    /\ Between({"loaded"})
    /\ life' = "ready"
    /\ ResetMachine
    /\ UNCHANGED <<quirks, controller, frame, polled, faulted>>

\* Variant that must break a property: the options survive the core.
DeinitializeKeepsQuirks ==
    /\ Between({"ready"})
    /\ life' = "cold"
    /\ ResetMachine
    /\ controller' = TRUE
    /\ UNCHANGED <<quirks, frame, polled, faulted>>

Deinitialize ==
    /\ Between({"ready"})
    /\ life' = "cold"
    /\ ResetMachine
    /\ quirks' = {}
    /\ controller' = TRUE
    /\ UNCHANGED <<frame, polled, faulted>>

----------------------------------------------------------------------------
(* Saved states.                                                           *)

Serialized ==
    [pc |-> pc, index |-> index, phase |-> phase, delay |-> delay, sound |-> sound,
     sp |-> sp, halted |-> halted, quirks |-> quirks,
     registers |-> registers, stack |-> stack]

\* The validation of Unserialize.  Stack words above the pointer are unchecked.
\* Variant that must break a property: a skip at the end of memory forgotten.
ProgramCounterWithinMemory == MemorySize

MaximumRuntimeProgramCounter == MemorySize + 2
MaximumRuntimeReturnAddress == MemorySize

Accepts(s) ==
    /\ s.pc <= MaximumRuntimeProgramCounter
    /\ s.index < MemorySize
    /\ s.phase < AudioSampleRate
    /\ s.sp <= StackSize
    /\ \A slot \in Slots : slot < s.sp => s.stack[slot] <= MaximumRuntimeReturnAddress

\* The keys and the controller device are not part of a state.
Unserialize(s) ==
    /\ Between({"loaded"})
    /\ Accepts(s)
    /\ pc' = s.pc /\ index' = s.index
    /\ phase' = s.phase
    /\ delay' = s.delay /\ sound' = s.sound
    /\ sp' = s.sp /\ stack' = s.stack
    /\ halted' = s.halted
    /\ quirks' = s.quirks
    /\ registers' = s.registers
    /\ UNCHANGED <<life, controller, keys, frame, polled, faulted>>

----------------------------------------------------------------------------
(* Frames.                                                                 *)

\* RunFrame reads changed options, then polls the keypad, or releases every
\* key when the port is not a joypad.  Options that are not announced as changed
\* are the case of a frontend that answers none.
BeginFrame(enabled, disabled, pressed) ==
    /\ Between({"loaded"})
    /\ frame' = 0
    /\ UpdateCoreOptions(enabled, disabled)
    /\ polled' = controller
    /\ keys' = IF controller THEN pressed ELSE {}
    /\ UNCHANGED <<life, machine, controller, faulted>>

\* Variant that must break a property: the loop does not stop on a halt.
ExecutingHalted == frame # Idle /\ frame < InstructionsPerFrame /\ ~faulted

\* The loop of RunFrame goes on.
Executing == frame # Idle /\ frame < InstructionsPerFrame /\ ~halted /\ ~faulted

Countdown(t) == IF t = 0 THEN 0 ELSE t - 1

\* GenerateAudio and the timers, of a halted machine too.
EndFrame ==
    /\ frame # Idle /\ ~Executing /\ ~faulted
    /\ frame' = Idle
    /\ polled' = FALSE
    /\ phase' = IF sound # 0 THEN (phase + PhasePerFrame) % AudioSampleRate ELSE phase
    /\ delay' = Countdown(delay)
    /\ sound' = Countdown(sound)
    /\ UNCHANGED <<life, pc, index, registers, control, halted, quirks, controller,
                   keys, faulted>>

\* ExecuteInstruction beyond the last whole instruction.
FetchPastEnd ==
    /\ Executing
    /\ pc > MemorySize - 2
    /\ halted' = TRUE
    /\ frame' = frame + 1
    /\ UNCHANGED <<session, pc, index, registers, control, timers, faulted>>

\* Variant that must break a property: the instruction is not counted.
FetchUncounted(touched) ==
    /\ Executing
    /\ pc <= MemorySize - 2
    /\ faulted' = ~({pc, pc + 1} \cup touched \subseteq Address)
    /\ UNCHANGED <<frame, session>>

\* An instruction is fetched, and touches these addresses of memory besides.
Fetch(touched) ==
    /\ Executing
    /\ pc <= MemorySize - 2
    /\ faulted' = ~({pc, pc + 1} \cup touched \subseteq Address)
    /\ frame' = frame + 1
    /\ UNCHANGED session

Continue == halted' = FALSE

\* The instruction fails: the fetch has advanced, nothing else changes.
Halt ==
    /\ Fetch({})
    /\ halted' = TRUE
    /\ pc' = pc + 2
    /\ UNCHANGED <<index, registers, control, timers>>

\* The instruction completes, changing registers (and the index) only.
Set(newRegisters, newIndex, touched) ==
    /\ Fetch(touched)
    /\ Continue
    /\ pc' = pc + 2
    /\ registers' = newRegisters
    /\ index' = newIndex
    /\ UNCHANGED <<control, timers>>

\* The instruction completes, changing the flow of control only.
Goto(target) ==
    /\ Continue
    /\ pc' = target
    /\ UNCHANGED <<index, registers, timers>>

----------------------------------------------------------------------------
(* Instructions, by their opcodes.                                         *)

\* Every opcode the switch does not know.
Unsupported == Halt

\* 00E0, which clears the display.
ClearDisplay == Set(registers, index, {})

\* 00EE
Return ==
    \/ sp = 0 /\ Halt
    \/ /\ sp # 0
       /\ Fetch({})
       /\ Goto(stack[sp - 1])
       /\ sp' = sp - 1
       /\ UNCHANGED stack

\* 1nnn
Jump(address) == Fetch({}) /\ Goto(address) /\ UNCHANGED control

\* 2nnn
Call(address) ==
    \/ sp >= StackSize /\ Halt
    \/ /\ sp < StackSize
       /\ Fetch({})
       /\ Goto(address)
       /\ stack' = [stack EXCEPT ![sp] = pc + 2]
       /\ sp' = sp + 1

\* 3xnn, 4xnn, 5xy0, 9xy0, Ex9E, ExA1
SkipConditions(x, y, value) ==
    {registers[x] = value, registers[x] # value,
     registers[x] = registers[y], registers[x] # registers[y],
     registers[x] \in keys, registers[x] \notin keys}

Skip(x, y, value) ==
    \E taken \in SkipConditions(x, y, value) :
        Fetch({}) /\ Goto(IF taken THEN pc + 4 ELSE pc + 2) /\ UNCHANGED control

\* Bnnn, or Bxnn under JumpWithVx: the low byte of the address and Vx.
JumpWithOffset(address, x) ==
    LET target == IF "JumpWithVx" \in quirks
                  THEN (address % ByteSize) + registers[x]
                  ELSE address + registers[0]
    IN  \/ target > MemorySize /\ Halt
        \/ target <= MemorySize /\ Fetch({}) /\ Goto(target) /\ UNCHANGED control

\* 6xnn, 7xnn, Fx07, and Cxnn, whose random byte is any byte.
SetRegister(x, value) ==
    \E result \in {value, (registers[x] + value) % ByteSize, delay} :
        Set([registers EXCEPT ![x] = result], index, {})

\* 8xyN: the result and the flag, which is written last and wins over Vx = VF.
\* The bit patterns of OR, AND and XOR are any byte.
WithFlag(x, result, flag) == [[registers EXCEPT ![x] = result] EXCEPT ![VF] = flag]
Bit(condition) == IF condition THEN 1 ELSE 0

Arithmetic(x, y) ==
    LET left == registers[x]
        right == registers[y]
        shifted == IF "ShiftWithVy" \in quirks THEN right ELSE left
        logic(anyByte) == IF "ClearVfOnLogic" \in quirks
                          THEN WithFlag(x, anyByte, 0)
                          ELSE [registers EXCEPT ![x] = anyByte]
    IN  \E newRegisters \in
          { [registers EXCEPT ![x] = right],
            WithFlag(x, (left + right) % ByteSize, Bit(left + right >= ByteSize)),
            WithFlag(x, (left - right) % ByteSize, Bit(left >= right)),
            WithFlag(x, (right - left) % ByteSize, Bit(right >= left)),
            WithFlag(x, shifted \div 2, shifted % 2),
            WithFlag(x, (shifted * 2) % ByteSize, (shifted * 2) \div ByteSize) }
          \cup { logic(anyByte) : anyByte \in Byte } :
          Set(newRegisters, index, {})

\* Annn
SetIndex(address) == Set(registers, address, {})

\* Variant that must break a property: the index wraps although the sum fails.
AddIndexThenCheck(x) ==
    LET sum == index + registers[x]
    IN  /\ Fetch({})
        /\ halted' = (sum >= MemorySize)
        /\ pc' = pc + 2
        /\ index' = sum % MemorySize
        /\ UNCHANGED <<registers, control, timers>>

\* Fx1E: the flag, when it is wanted, is written before the range check.
AddIndex(x) ==
    LET sum == index + registers[x]
        flagged == IF "SetVfOnIndexOverflow" \in quirks
                   THEN [registers EXCEPT ![VF] = Bit(sum >= MemorySize)]
                   ELSE registers
    IN  \/ sum < MemorySize /\ Set(flagged, sum, {})
        \/ /\ sum >= MemorySize
           /\ Fetch({})
           /\ halted' = TRUE
           /\ pc' = pc + 2
           /\ registers' = flagged
           /\ UNCHANGED <<index, control, timers>>

\* Fx29
FontIndex(x) ==
    \/ registers[x] >= FontDigits /\ Halt
    \/ registers[x] < FontDigits /\ Set(registers, FontStart + registers[x] * GlyphSize, {})

\* Dxyn: the collision flag depends on the pixels.
DrawSprite(height, collision) ==
    LET fails == height = 0 \/ index + height > MemorySize
    IN  \/ fails /\ Halt
        \/ ~fails /\ Set([registers EXCEPT ![VF] = Bit(collision)], index,
                         index .. index + height - 1)

\* Fx0A: without a key the instruction runs again; else the lowest key.
WaitKey(x) ==
    \/ keys = {} /\ Fetch({}) /\ Goto(pc) /\ UNCHANGED control
    \/ \E key \in keys :
        /\ \A other \in keys : key <= other
        /\ Set([registers EXCEPT ![x] = key], index, {})

\* Fx15 and Fx18
SetTimer(x) ==
    /\ Fetch({})
    /\ Continue
    /\ pc' = pc + 2
    /\ \/ delay' = registers[x] /\ UNCHANGED sound
       \/ sound' = registers[x] /\ UNCHANGED delay
    /\ UNCHANGED <<index, registers, control>>

\* Fx33
StoreDecimal ==
    \/ index > MemorySize - 3 /\ Halt
    \/ index <= MemorySize - 3 /\ Set(registers, index, index .. index + 2)

\* Fx55 and Fx65, whose increment of I wraps within memory.
IndexAfterTransfer(x) ==
    IF "IncrementIndexOnTransfer" \in quirks THEN (index + x + 1) % MemorySize ELSE index

\* Variant that must break a property: the last register is not counted.
TransferOneTooFar(x, newRegisters) ==
    \/ index + x > MemorySize /\ Halt
    \/ index + x <= MemorySize /\ Set(newRegisters, IndexAfterTransfer(x), index .. index + x)

Transfer(x, newRegisters) ==
    \/ index + x >= MemorySize /\ Halt
    \/ index + x < MemorySize /\ Set(newRegisters, IndexAfterTransfer(x), index .. index + x)

StoreRegisters(x) == Transfer(x, registers)

LoadRegisters(x, loaded) ==
    Transfer(x, [r \in Registers |-> IF r <= x THEN loaded[r] ELSE registers[r]])

ExecuteInstruction ==
    \/ FetchPastEnd
    \/ Unsupported
    \/ ClearDisplay
    \/ Return
    \/ StoreDecimal
    \/ \E address \in Address : Jump(address) \/ Call(address) \/ SetIndex(address)
    \/ \E address \in Address, x \in Registers : JumpWithOffset(address, x)
    \/ \E x \in Registers :
        \/ AddIndex(x)
        \/ FontIndex(x)
        \/ WaitKey(x)
        \/ SetTimer(x)
        \/ StoreRegisters(x)
        \/ \E loaded \in [Registers -> Byte] : LoadRegisters(x, loaded)
    \/ \E x \in Registers, value \in Byte : SetRegister(x, value)
    \/ \E x, y \in Registers, value \in Byte : Skip(x, y, value)
    \/ \E x, y \in Registers : Arithmetic(x, y)
    \/ \E height \in Registers, collision \in BOOLEAN : DrawSprite(height, collision)

\* The loop of RunFrame goes round once more, or the frame is finished.
RunFrame == ExecuteInstruction \/ EndFrame

Next ==
    \/ Initialize
    \/ \E enabled \in SUBSET Quirks : \E disabled \in SUBSET (Quirks \ enabled) :
        \/ LoadContent(enabled, disabled)
        \/ \E pressed \in SUBSET Keys : BeginFrame(enabled, disabled, pressed)
    \/ Reset
    \/ \E joypad \in BOOLEAN : SetControllerPortDevice(joypad)
    \/ UnloadContent
    \/ Deinitialize
    \/ \E s \in ForeignStates : Unserialize(s)
    \/ RunFrame

\* A frame that has begun runs to its end: RunFrame never waits.
Spec == Init /\ [][Next]_vars /\ WF_vars(frame # Idle /\ RunFrame)

----------------------------------------------------------------------------
(* Properties.                                                             *)

TypeOK ==
    /\ life \in {"cold", "ready", "loaded"}
    /\ pc \in Word /\ index \in Word
    /\ registers \in [Registers -> Byte]
    /\ stack \in [Slots -> Word] /\ sp \in Nat
    /\ halted \in BOOLEAN
    /\ delay \in Byte /\ sound \in Byte
    /\ phase \in Nat
    /\ quirks \subseteq Quirks
    /\ controller \in BOOLEAN
    /\ keys \subseteq Keys
    /\ frame \in (0 .. InstructionsPerFrame) \cup {Idle}
    /\ polled \in BOOLEAN
    /\ faulted \in BOOLEAN

\* Whatever the program, its operands, the quirks and the states loaded before,
\* the state the core would save is one it accepts back: the validation of
\* Unserialize refuses no state the interpreter can reach.
RuntimeStateAccepted == life = "loaded" => Accepts(Serialized)

\* No program and no accepted state makes an instruction index memory out of
\* range: RunFrame never throws, so the host never latches a failure for it.
NeverFaults == ~faulted

\* Nothing of a content survives its unloading, and nothing the frontend set
\* survives the deinitialisation of the core.
NothingLeftBehind ==
    /\ life # "loaded" =>
         /\ frame = Idle /\ keys = {} /\ ~halted
         /\ index = 0 /\ sp = 0 /\ delay = 0 /\ sound = 0 /\ phase = 0
         /\ \A r \in Registers : registers[r] = 0
         /\ \A slot \in Slots : stack[slot] = 0
    /\ life = "cold" => quirks = {} /\ controller

\* The instruction that halts the machine leaves its index, stack and timers
\* alone, and of its registers at most the flag.
FailedInstructionChangesNothing ==
    [][~halted /\ halted' /\ frame # Idle =>
        /\ UNCHANGED <<index, stack, sp, delay, sound>>
        /\ \A r \in Registers \ {VF} : registers'[r] = registers[r]]_vars

\* Frames run on a halted machine never change where it stopped.
HaltedMachineFrozen ==
    [][halted /\ (frame # Idle \/ frame' # Idle) =>
        halted' /\ UNCHANGED <<pc, index, registers, stack, sp>>]_vars

\* Every frame comes to its end, whatever the program waits for.
FramesEnd == (frame # Idle) ~> (frame = Idle)

\* PHASE-4.md: later frames leave halted state unchanged.  A frame of a halted
\* machine that has executed nothing began with it halted: what ends it must not
\* change what is saved.
HaltedStateStable ==
    [][halted /\ frame = 0 => Serialized' = Serialized]_vars

\* libretro.h: during retro_run the input poll callback is called.
EveryFramePolls == frame # Idle => polled
=============================================================================
