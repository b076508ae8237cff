----------------------------- MODULE MCChip8Data -----------------------------
(***************************************************************************)
(* Chip8State, Chip8Random and Chip8Display in one instance.  They share   *)
(* no variable: a behaviour is one of one of them, the others at rest.     *)
(*                                                                         *)
(* States have bytes of three values, one register, one stack slot, two    *)
(* pixels and three bytes of memory.  Random words have eight bits; as in  *)
(* the code, the shift to the right is the longest and exceeds half a      *)
(* word.  Sprites of two by two on a display of three by two are as high   *)
(* as the display and wrap on either edge.                                 *)
(***************************************************************************)
EXTENDS Chip8State, Chip8Random, Chip8Display

VARIABLE part    \* the one that runs

\* As after a reset, and after a call from the end of memory with every other
\* field away from zero.
Fresh == [programCounter |-> 1, indexRegister |-> 0, random |-> 79, delay |-> 0,
          sound |-> 0, stackPointer |-> 0, halted |-> FALSE, quirks |-> 0, phase |-> 0,
          registers |-> [r \in Registers |-> 0], stack |-> [s \in Slots |-> 0],
          display |-> [p \in PixelBytes |-> 0], memory |-> [a \in Address |-> 1]]

Deep == [programCounter |-> 5, indexRegister |-> 2, random |-> 1, delay |-> 2,
         sound |-> 1, stackPointer |-> 1, halted |-> TRUE, quirks |-> 1, phase |-> 9,
         registers |-> [r \in Registers |-> 2], stack |-> [s \in Slots |-> 3],
         display |-> [p \in PixelBytes |-> 1], memory |-> [a \in Address |-> a]]

\* As Deep after its return: the slot still holds the address.
Returned == [Deep EXCEPT !.stackPointer = 0, !.halted = FALSE, !.stack = [s \in Slots |-> 3]]

MCReached == {Fresh, Deep, Returned}

\* The low byte of the code's seed.
MCSeed == [i \in Bits |-> IF i \in {0, 2, 3} THEN 1 ELSE 0]

DataInit ==
    /\ part \in {"state", "random", "display"}
    /\ StateInit /\ (part # "state" => machine = Fresh)
    /\ RandomInit
    /\ DisplayInit /\ (part # "display" => display = {} /\ ~flag)

DataNext ==
    /\ UNCHANGED part
    /\ \/ part = "state" /\ StateNext /\ UNCHANGED <<randomVars, displayVars>>
       \/ part = "random" /\ RandomNext /\ UNCHANGED <<stateVars, displayVars>>
       \/ part = "display" /\ DisplayNext /\ UNCHANGED <<stateVars, randomVars>>

DataSpec == DataInit /\ [][DataNext]_<<part, stateVars, randomVars, displayVars>>
=============================================================================
