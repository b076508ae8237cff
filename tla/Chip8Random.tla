---------------------------- MODULE Chip8Random ----------------------------
(***************************************************************************)
(* The pseudo-random generator of the CHIP-8 core: a machine word drawn    *)
(* from by three exclusive-ors with shifts of itself, set to a constant    *)
(* with the machine, and replaced by the word of a saved state.            *)
(*                                                                         *)
(* A word is its bits.  Zero draws zero for ever, and Unserialize refuses  *)
(* it: a generator that ever got there would produce states that cannot be *)
(* loaded.                                                                 *)
(***************************************************************************)
EXTENDS Integers

CONSTANTS
    WordWidth,                    \* 32
    FirstLeft, Right, SecondLeft, \* 13, 17 and 5
    Seed                          \* InitialRandomState, 0xC0DEF00D

Bits == 0 .. WordWidth - 1
Words == [Bits -> {0, 1}]
Zero == [i \in Bits |-> 0]

ASSUME RandomAssumption ==
    /\ WordWidth \in Nat
    /\ FirstLeft \in Nat \ {0} /\ Right \in Nat \ {0} /\ SecondLeft \in Nat \ {0}
    /\ Seed \in Words /\ Seed # Zero

VARIABLES
    loaded,     \* content is loaded
    random      \* _randomState

randomVars == <<loaded, random>>

----------------------------------------------------------------------------
Xor(v, w) == [i \in Bits |-> (v[i] + w[i]) % 2]

ShiftLeft(w, n)  == [i \in Bits |-> IF i >= n THEN w[i - n] ELSE 0]
ShiftRight(w, n) == [i \in Bits |-> IF i + n < WordWidth THEN w[i + n] ELSE 0]

XorLeft(w, n)  == Xor(w, ShiftLeft(w, n))

\* Variant that must break a property: the shifted word replaces the word.
JustShiftRight(w, n) == ShiftRight(w, n)

XorRight(w, n) == Xor(w, ShiftRight(w, n))

NextWord(w) == XorLeft(XorRight(XorLeft(w, FirstLeft), Right), SecondLeft)

----------------------------------------------------------------------------
\* A core that was never given content has not set its generator.
RandomInit == loaded = FALSE /\ random = Zero

ResetMachine == random' = Seed

LoadContent == ~loaded /\ loaded' = TRUE /\ ResetMachine
Reset == loaded /\ ResetMachine /\ UNCHANGED loaded
UnloadContent == loaded /\ loaded' = FALSE /\ ResetMachine

\* Instruction Cxnn, which uses the low byte of the new word.
NextRandomByte ==
    /\ loaded
    /\ random' = NextWord(random)
    /\ UNCHANGED loaded

\* Variant that must break a property: the word of a state is not looked at.
UnserializeAny(w) ==
    /\ loaded
    /\ random' = w
    /\ UNCHANGED loaded

Unserialize(w) ==
    /\ loaded
    /\ w # Zero
    /\ random' = w
    /\ UNCHANGED loaded

RandomNext ==
    \/ LoadContent \/ Reset \/ UnloadContent
    \/ NextRandomByte
    \/ \E w \in Words : Unserialize(w)

RandomSpec == RandomInit /\ [][RandomNext]_randomVars

----------------------------------------------------------------------------
(* Properties.                                                             *)

(* Every reachable state is of the declared kind: the random state is a word of _randomState's width. *)
RandomTypeOK == loaded \in BOOLEAN /\ random \in Words

\* While content is loaded the generator is alive, however often it is drawn
\* from and whatever states were loaded: what the core saves it accepts.
GeneratorAlive == loaded => random # Zero

\* A draw loses nothing: no other word would have drawn the same, so the
\* sequence never falls into a shorter cycle than the one it was on, and two
\* machines that agree after a draw agreed before it.
DrawInjective ==
    [][NextRandomByte =>
        \A other \in Words : NextWord(other) = random' => other = random]_randomVars
=============================================================================
