---------------------------- MODULE MCChip8Replay ----------------------------
(* Two options and a key on one of two buttons; a machine of three states  *)
(* that every quirk and every key takes elsewhere.                         *)
EXTENDS Chip8Replay, FiniteSets, TLC

MCKeypadMapping == 0 :> "B"

MCExecute(m, q, k) == (m + 1 + Cardinality(q) + 2 * Cardinality(k)) % 3
=============================================================================
