----------------------------- MODULE MCBoundary -----------------------------
(***************************************************************************)
(* What crosses the C boundary, in one instance: structures, calls, the    *)
(* environment's commands, and lines for the log.  They share no variable: *)
(* a behaviour is one of one of them, the others at rest.                  *)
(***************************************************************************)
EXTENDS AbiLayout, AbiCalls, EnvironmentCalls, LogLine

VARIABLE part    \* the one that runs

\* The 64-bit ABIs, and the 32-bit ones with doubles on four or on eight bytes
\* on either side.
MCPlatforms ==
    {[pointer |-> 8, native |-> 8, managed |-> 8]}
        \cup [pointer : {4}, native : {4, 8}, managed : {4, 8}]

\* The least and the greatest value of each width, and two of either sign between.
MCPatterns == {[i \in 1 .. 8 |-> 0], [i \in 1 .. 8 |-> 255],
               [i \in 1 .. 8 |-> IF i \in {2, 4, 8} THEN 127 ELSE 255],
               [i \in 1 .. 8 |-> IF i \in {2, 4, 8} THEN 128 ELSE 0]}

\* With the numbers of libretro.h and one on either side.
MCLevels == -1 .. 4

BoundaryInit ==
    /\ part \in {"layout", "calls", "environment", "line"}
    /\ LayoutInit /\ (part # "layout" => platform.pointer = 8 /\ structure = "RetroMessage")
    /\ CallInit /\ (part # "calls" => function = "run")
    /\ AskInit
    /\ (part # "environment" => frontend = [present |-> TRUE, masks |-> FALSE])
    /\ LineInit /\ (part # "line" => available /\ level = 0 /\ span = <<0>>)

BoundaryNext ==
    /\ UNCHANGED part
    /\ \/ part = "layout" /\ LayoutNext /\ UNCHANGED <<callVars, askVars, logVars>>
       \/ part = "calls" /\ CallNext /\ UNCHANGED <<layoutVars, askVars, logVars>>
       \/ part = "environment" /\ AskNext
          /\ UNCHANGED <<layoutVars, callVars, logVars>>
       \/ part = "line" /\ LineNext /\ UNCHANGED <<layoutVars, callVars, askVars>>

BoundarySpec ==
    BoundaryInit /\ [][BoundaryNext]_<<part, layoutVars, callVars, askVars, logVars>>
=============================================================================
