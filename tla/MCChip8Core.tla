---------------------------- MODULE MCChip8Core ----------------------------
(* A scaled-down machine for TLC: every boundary of the real one (the last *)
(* word of memory, the full and the empty stack, a jump past memory, the   *)
(* last glyph, the index at both ends) is a few values away from it.       *)
EXTENDS Chip8Core

\* The one that changes an address.  JumpWithVx only adds another register to
\* fewer addresses, and any register holds any value here; the other quirks
\* affect register values alone.
MCQuirks == {"IncrementIndexOnTransfer"}

JumpQuirk == {"JumpWithVx"}

ZeroRegisters == [r \in Registers |-> 0]

SavedState(counter, i, p, pointer, word) ==
    [pc |-> counter, index |-> i, phase |-> p, delay |-> 0, sound |-> 1,
     sp |-> pointer, halted |-> FALSE, quirks |-> {},
     registers |-> ZeroRegisters, stack |-> [s \in Slots |-> word]]

\* The largest accepted states, with return addresses in use or stale above
\* the stack pointer, and one value past each limit, which is refused.
MCForeignStates ==
    { SavedState(MemorySize + 2, MemorySize - 1, AudioSampleRate - 1, StackSize, MemorySize),
      SavedState(ProgramStart, 0, 0, 0, MemorySize + 5),
      SavedState(MemorySize + 3, 0, 0, 0, 0),
      SavedState(0, MemorySize, 0, 0, 0),
      SavedState(0, 0, AudioSampleRate, 0, 0),
      SavedState(0, 0, 0, StackSize + 1, 0),
      SavedState(0, 0, 0, 1, MemorySize + 1) }
=============================================================================
