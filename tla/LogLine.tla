------------------------------ MODULE LogLine ------------------------------
(***************************************************************************)
(* A line on its way from a span of managed memory through the native      *)
(* helper to the frontend's log callback, which takes a printf format and  *)
(* reads its string argument byte by byte up to a terminator, wherever     *)
(* that is: nothing tells it where the span ends.                          *)
(***************************************************************************)
EXTENDS Integers, Sequences, FiniteSets

CONSTANTS
    Terminator, Percent,    \* bytes 0 and '%'
    OtherBytes,             \* any other ones
    Levels,                 \* numbers cast to RetroLogLevel
    Debug, Error,           \* the first and the last level a frontend knows
    MaximumLength           \* of the spans considered

Bytes == {Terminator, Percent} \cup OtherBytes
Spans == UNION {[1 .. n -> Bytes] : n \in 0 .. MaximumLength}

VARIABLES
    available,   \* the frontend gave a log callback
    level, span, \* the arguments of Write
    logStage,    \* "idle", "helper", "frontend", "done"
    format,      \* the frontend formats by "%s", or by the message itself
    at,          \* the next byte it reads
    received     \* what its line holds so far

logVars == <<available, level, span, logStage, format, at, received>>

LineInit ==
    /\ available \in BOOLEAN
    /\ level \in Levels
    /\ span \in Spans
    /\ logStage = "idle" /\ format = "%s" /\ at = 1 /\ received = << >>

\* A terminator at the end and nowhere else.
Terminated ==
    /\ span # << >>
    /\ span[Len(span)] = Terminator
    /\ \A i \in 1 .. Len(span) - 1 : span[i] # Terminator

KnownLevel == Debug <= level /\ level <= Error

\* Everything else is refused and reaches no one.
Write ==
    /\ logStage = "idle"
    /\ logStage' = IF available /\ KnownLevel /\ Terminated THEN "helper" ELSE "done"
    /\ UNCHANGED <<available, level, span, format, at, received>>

\* Variant that must break a property: the message is the format.
LogMessageAsFormat ==
    /\ logStage = "helper"
    /\ logStage' = "frontend"
    /\ format' = "message"
    /\ UNCHANGED <<available, level, span, at, received>>

libretro_core_log_message ==
    /\ logStage = "helper"
    /\ logStage' = IF available THEN "frontend" ELSE "done"
    /\ format' = "%s"
    /\ UNCHANGED <<available, level, span, at, received>>

\* The frontend's printf.  Past the span it finds any byte at all; a conversion
\* of a format that was not meant as one replaces its bytes.
ReadByte ==
    /\ logStage = "frontend"
    /\ \E byte \in IF at <= Len(span) THEN {span[at]} ELSE Bytes :
           /\ logStage' = IF byte = Terminator \/ at > Len(span) THEN "done" ELSE "frontend"
           /\ received' = IF byte = Terminator \/ (format = "message" /\ byte = Percent)
                          THEN received ELSE Append(received, byte)
    /\ at' = at + 1
    /\ UNCHANGED <<available, level, span, format>>

LineNext == Write \/ libretro_core_log_message \/ ReadByte

LineSpec == LineInit /\ [][LineNext]_logVars

----------------------------------------------------------------------------
(* Properties.                                                             *)

\* What a frontend logs is the whole line and nothing else, with a level it
\* knows: it stops neither before nor after the span's last byte, and a percent
\* sign in a line stays one (RetroLogger.Write, libretro_core_log_message).
LoggedVerbatim ==
    logStage = "done" /\ at > 1 =>
        /\ Append(received, Terminator) = span
        /\ Debug <= level /\ level <= Error
=============================================================================
