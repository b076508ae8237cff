--------------------------- MODULE BoundaryProofs ---------------------------
(***************************************************************************)
(* What crosses the C boundary, for all values.                            *)
(*                                                                         *)
(* Calls: a value crosses unchanged, whatever its bytes and whatever else  *)
(* is in the register, if both declarations have the same width and sign;  *)
(* and the declarations of every function do.                              *)
(*                                                                         *)
(* Log lines: for every set of bytes and levels and every length of a      *)
(* span, the frontend has at each byte received exactly those before it.   *)
(*                                                                         *)
(* Structures: the recursive function that places the fields is replaced   *)
(* by a layout that can be written down; the table of LibretroAbi.cs is    *)
(* the layout with 64-bit pointers, and both sides then have the same.     *)
(*                                                                         *)
(* Commands: no two of the header's share a number, with or without the    *)
(* experimental bit; the enumerations of the two sides translate into each *)
(* other and back; and the memory of every call is what its name stands    *)
(* for, up to the answer.                                                  *)
(***************************************************************************)
EXTENDS AbiLayout, AbiCalls, EnvironmentCalls, LogLine, SequenceTheorems, NumberFacts

----------------------------------------------------------------------------
(* Calls.                                                                  *)

\* Types a value crosses between.
SameType(from, to) == Width(from) = Width(to) /\ Signed(from) = Signed(to)

\* Declarations a call passes between.
Compatible(caller, callee) ==
    /\ Len(caller.parameters) = Len(callee.parameters)
    /\ \A i \in 1 .. Len(caller.parameters) :
          SameType(caller.parameters[i], callee.parameters[i])
    /\ caller.result = "void" <=> callee.result = "void"
    /\ SameType(callee.result, caller.result)

\* A value crosses unchanged, whatever is left in the register.
LEMMA CrossesUnchanged ==
    ASSUME NEW from, NEW to, NEW value, NEW left, SameType(from, to)
    PROVE  Extended(to, Register(from, value, left)) = Extended(from, value)
<1>1. Width(from) \in 1 .. 8 /\ Width(to) = Width(from) /\ Signed(to) = Signed(from)
    BY DEF SameType, Width
<1>2. \A i \in 1 .. 8 : i <= Width(from) => Register(from, value, left)[i] = value[i]
    BY DEF Register
<1>3. Negative(to, Register(from, value, left)) = Negative(from, value)
    BY <1>1, <1>2 DEF Negative
<1> QED BY <1>1, <1>2, <1>3 DEF Extended

\* The types that stand for one another.
LEMMA Counterparts ==
    /\ SameType("pointer", "pointer") /\ SameType("void", "void")
    /\ SameType("size_t", "nuint") /\ SameType("nuint", "size_t")
    /\ SameType("unsigned", "uint") /\ SameType("uint", "unsigned")
    /\ SameType("int16_t", "short") /\ SameType("short", "int16_t")
    /\ SameType("bool", "byte") /\ SameType("byte", "bool")
    /\ SameType("enum", "int") /\ SameType("int", "enum")
BY DEF SameType, Width, Signed

\* Where the declarations of a function are.
LEMMA Declared ==
    /\ Outgoing = {"environment", "video_refresh", "audio_sample", "audio_sample_batch",
                   "input_poll", "input_state", "log_message"}
    /\ Functions = Outgoing \cup DOMAIN Registration \cup DOMAIN States
                            \cup DOMAIN Content \cup DOMAIN Running
    /\ \A f \in Outgoing : Caller(f) = Managed(f) /\ Callee(f) = Native[f]
    /\ \A f \in Functions \ Outgoing :
          Caller(f) = Native[f] /\ Callee(f) = Managed(f) /\ Managed(f) = Exports[f]
<1>1. Outgoing = {"environment", "video_refresh", "audio_sample", "audio_sample_batch",
                  "input_poll", "input_state", "log_message"}
    BY DEF Outgoing, RetroFrontendCallbacks, LogMessage
<1>2. Functions = Outgoing \cup DOMAIN Registration \cup DOMAIN States
                           \cup DOMAIN Content \cup DOMAIN Running
    BY DEF Functions, Exports
<1>3. \A f \in Functions \ Outgoing :
          /\ Caller(f) = Native[f] /\ Callee(f) = Managed(f)
          /\ Managed(f) = Exports[f]
    BY DEF Caller, Callee, Managed, Outgoing
<1> QED BY <1>1, <1>2, <1>3 DEF Caller, Callee

\* Managed code declares what it calls as the header and the helper do.
LEMMA OutgoingCompatible == \A f \in Outgoing : Compatible(Managed(f), Native[f])
<1>1. \A f \in DOMAIN RetroFrontendCallbacks : Managed(f) = RetroFrontendCallbacks[f]
    BY DEF Managed
<1>2. \A f \in DOMAIN RetroFrontendCallbacks : Compatible(RetroFrontendCallbacks[f], Native[f])
    <2>1. Compatible(RetroFrontendCallbacks["environment"], Native["environment"])
        BY Counterparts
           DEF Compatible, RetroFrontendCallbacks, Native, Signature, retro_environment_t
    <2>2. Compatible(RetroFrontendCallbacks["video_refresh"], Native["video_refresh"])
        BY Counterparts
           DEF Compatible, RetroFrontendCallbacks, Native, Signature, retro_video_refresh_t
    <2>3. Compatible(RetroFrontendCallbacks["audio_sample"], Native["audio_sample"])
        BY Counterparts
           DEF Compatible, RetroFrontendCallbacks, Native, Signature, retro_audio_sample_t
    <2>4. Compatible(RetroFrontendCallbacks["audio_sample_batch"], Native["audio_sample_batch"])
        BY Counterparts
           DEF Compatible, RetroFrontendCallbacks, Native, Signature, retro_audio_sample_batch_t
    <2>5. Compatible(RetroFrontendCallbacks["input_poll"], Native["input_poll"])
        BY Counterparts
           DEF Compatible, RetroFrontendCallbacks, Native, Signature, retro_input_poll_t
    <2>6. Compatible(RetroFrontendCallbacks["input_state"], Native["input_state"])
        BY Counterparts
           DEF Compatible, RetroFrontendCallbacks, Native, Signature, retro_input_state_t
    <2> QED BY <2>1, <2>2, <2>3, <2>4, <2>5, <2>6 DEF RetroFrontendCallbacks
<1>3. \A f \in DOMAIN LogMessage : Managed(f) = LogMessage[f]
    BY DEF Managed, RetroFrontendCallbacks, LogMessage
<1>4. \A f \in DOMAIN LogMessage : Compatible(LogMessage[f], Native[f])
    <2>1. Compatible(LogMessage["log_message"], Native["log_message"])
        BY Counterparts DEF Compatible, LogMessage, Native, Signature, libretro_log_shim
    <2> QED BY <2>1 DEF LogMessage
<1> QED BY <1>1, <1>2, <1>3, <1>4 DEF Outgoing

\* The exports that register callbacks.
LEMMA RegistrationCompatible ==
    \A f \in DOMAIN Registration : f \notin Outgoing /\ Compatible(Native[f], Exports[f])
<1>1. \A f \in DOMAIN Registration : f \notin Outgoing /\ Exports[f] = Registration[f]
    <2>1. \A f \in DOMAIN Registration : f \notin Outgoing
        BY Declared DEF Registration
    <2>2. \A f \in DOMAIN Registration : Exports[f] = Registration[f]
        BY DEF Exports, Registration
    <2> QED BY <2>1, <2>2
<1>2. \A f \in DOMAIN Registration : Native[f] = Registration[f]
    BY DEF Registration, Native, retro_set_environment, retro_set_video_refresh,
           retro_set_audio_sample, retro_set_audio_sample_batch, retro_set_input_poll,
           retro_set_input_state
<1>3. Compatible(Signature("void", <<"pointer">>), Signature("void", <<"pointer">>))
    BY Counterparts DEF Compatible, Signature
<1>4. \A f \in DOMAIN Registration : Registration[f] = Signature("void", <<"pointer">>)
    BY DEF Registration
<1> QED BY <1>1, <1>2, <1>3, <1>4

\* The exports for states.
LEMMA StatesCompatible ==
    \A f \in DOMAIN States : f \notin Outgoing /\ Compatible(Native[f], Exports[f])
<1>1. \A f \in DOMAIN States : f \notin Outgoing /\ Exports[f] = States[f]
    <2>1. \A f \in DOMAIN States : f \notin Outgoing
        BY Declared DEF States
    <2>2. \A f \in DOMAIN States : Exports[f] = States[f]
        BY DEF Exports, Registration, States
    <2> QED BY <2>1, <2>2
<1>2. \A f \in DOMAIN States : Compatible(Native[f], States[f])
    <2>1. Compatible(Native["serialize_size"], States["serialize_size"])
        BY Counterparts DEF Compatible, States, Native, Signature, retro_serialize_size
    <2>2. Compatible(Native["serialize"], States["serialize"])
        BY Counterparts DEF Compatible, States, Native, Signature, retro_serialize
    <2>3. Compatible(Native["unserialize"], States["unserialize"])
        BY Counterparts DEF Compatible, States, Native, Signature, retro_unserialize
    <2> QED BY <2>1, <2>2, <2>3 DEF States
<1> QED BY <1>1, <1>2

\* The exports for content.
LEMMA ContentCompatible ==
    \A f \in DOMAIN Content : f \notin Outgoing /\ Compatible(Native[f], Exports[f])
<1>1. \A f \in DOMAIN Content : f \notin Outgoing /\ Exports[f] = Content[f]
    BY Declared DEF Exports, Registration, States, Content
<1>2. \A f \in DOMAIN Content : Compatible(Native[f], Content[f])
    BY Counterparts
       DEF Compatible, Content, Native, Signature, retro_load_game,
           retro_load_game_special, retro_unload_game, retro_cheat_reset, retro_cheat_set,
           retro_get_memory_data, retro_get_memory_size
<1> QED BY <1>1, <1>2

\* The exports that run the core and describe it.
LEMMA RunningCompatible ==
    \A f \in DOMAIN Running : f \notin Outgoing /\ Compatible(Native[f], Exports[f])
<1>1. \A f \in DOMAIN Running : f \notin Outgoing /\ Exports[f] = Running[f]
    BY Declared DEF Exports, Registration, States, Content, Running
<1>2. \A f \in DOMAIN Running : Compatible(Native[f], Running[f])
    BY Counterparts
       DEF Compatible, Running, Native, Signature, retro_init, retro_deinit,
           retro_api_version, retro_get_system_info, retro_get_system_av_info,
           retro_set_controller_port_device, retro_reset, retro_run, retro_get_region
<1> QED BY <1>1, <1>2

\* No function is declared in two ways that differ.
LEMMA AllCompatible == \A f \in Functions : Compatible(Caller(f), Callee(f))
<1>1. \A f \in Outgoing : Compatible(Caller(f), Callee(f))
    BY Declared, OutgoingCompatible
<1>2. \A f \in Functions \ Outgoing : Compatible(Caller(f), Callee(f))
    BY Declared, RegistrationCompatible, StatesCompatible, ContentCompatible,
       RunningCompatible
<1> QED BY <1>1, <1>2

\* No function takes more than four arguments.
LEMMA ParametersCount == \A f \in Functions : Len(Caller(f).parameters) \in 0 .. 4
<1>1. \A f \in DOMAIN Native : Len(Native[f].parameters) \in 0 .. 4
    BY DEF Native, Signature, retro_environment_t, retro_video_refresh_t,
           retro_audio_sample_t, retro_audio_sample_batch_t, retro_input_poll_t,
           retro_input_state_t, libretro_log_shim, retro_set_environment,
           retro_set_video_refresh, retro_set_audio_sample, retro_set_audio_sample_batch,
           retro_set_input_poll, retro_set_input_state, retro_init, retro_deinit,
           retro_api_version, retro_get_system_info, retro_get_system_av_info,
           retro_set_controller_port_device, retro_reset, retro_run,
           retro_serialize_size, retro_serialize, retro_unserialize, retro_cheat_reset,
           retro_cheat_set, retro_load_game, retro_load_game_special, retro_unload_game,
           retro_get_region, retro_get_memory_data, retro_get_memory_size
<1>2. Functions = DOMAIN Native
    BY Declared DEF Registration, States, Content, Running, Native
<1>3. \A f \in Functions : Len(Caller(f).parameters) = Len(Native[f].parameters)
    BY Declared, AllCompatible DEF Compatible
<1> QED BY <1>1, <1>2, <1>3

\* A call has as many arguments behind it as it has passed.
CallInv ==
    /\ function \in Functions
    /\ passed \in 0 .. Len(Caller(function).parameters)
    /\ callStage \in {"passing", "running", "returned"}
    /\ callStage # "passing" => passed = Len(Caller(function).parameters)
    /\ taken = sent

LEMMA CallInvStep == CallInv /\ [CallNext]_callVars => CallInv'
<1> SUFFICES ASSUME CallInv, [CallNext]_callVars PROVE CallInv'
    OBVIOUS
<1> USE DEF CallInv
<1>1. Compatible(Caller(function), Callee(function))
    BY AllCompatible
<1>2. Len(Caller(function).parameters) \in Nat
    BY ParametersCount
<1>3. ASSUME NEW from, NEW to, SameType(from, to), Cross(from, to) PROVE taken' = sent'
    BY <1>3, CrossesUnchanged DEF Cross
<1>4. CASE PassArgument
    <2>1. passed' \in 1 .. Len(Caller(function).parameters)
        BY <1>2, <1>4 DEF PassArgument
    <2>2. taken' = sent'
        BY <1>1, <1>3, <1>4, <2>1 DEF PassArgument, Compatible
    <2> QED BY <1>2, <1>4, <2>1, <2>2 DEF PassArgument
<1>5. CASE Enter
    BY <1>5 DEF Enter
<1>6. CASE Return
    <2>1. taken' = sent'
        BY <1>1, <1>3, <1>6 DEF Return, Compatible
    <2> QED BY <1>6, <2>1 DEF Return
<1>7. CASE UNCHANGED callVars
    BY <1>7 DEF callVars
<1> QED BY <1>4, <1>5, <1>6, <1>7 DEF CallNext

\* Every argument and every result arrives as it was sent, for every value and
\* whatever the other bytes of a register hold (LibretroExports,
\* RetroFrontendCallbacks and RetroLogger against libretro.h).
THEOREM ValuesAlwaysArrive == CallSpec => []ValuesArrive
<1>1. CallInit => CallInv
    BY ParametersCount DEF CallInit, CallInv
<1>2. CallInv => ValuesArrive
    BY AllCompatible DEF CallInv, ValuesArrive, Compatible
<1> QED BY <1>1, <1>2, CallInvStep, PTL DEF CallSpec

----------------------------------------------------------------------------
(* Log lines.                                                              *)

\* A span is a sequence of bytes.
LEMMA SpansAreSequences == \A s \in Spans : s \in Seq(Bytes)
BY DEF Spans

\* What was read of a sequence, and its next element.
LEMMA OneMoreRead ==
    ASSUME NEW S, NEW s \in Seq(S), NEW i \in 1 .. Len(s)
    PROVE  Append(SubSeq(s, 1, i - 1), s[i]) = SubSeq(s, 1, i)
<1> DEFINE read == SubSeq(s, 1, i - 1)
           more == SubSeq(s, 1, i)
<1>1. i \in Nat /\ i <= Len(s) /\ i >= 1 /\ Len(s) \in Nat
    OBVIOUS
<1>2. \A j \in 1 .. Len(s) : s[j] \in S
    BY ElementOfSeq
<1>3. /\ read \in Seq(S) /\ Len(read) = i - 1
      /\ \A j \in 1 .. i - 1 : read[j] = s[j]
    BY <1>1, <1>2, SubSeqProperties
<1>4. /\ more \in Seq(S) /\ Len(more) = i
      /\ \A j \in 1 .. i : more[j] = s[j]
    BY <1>1, <1>2, SubSeqProperties
<1> HIDE DEF read, more
<1>5. /\ Append(read, s[i]) \in Seq(S) /\ Len(Append(read, s[i])) = i
      /\ \A j \in 1 .. i - 1 : Append(read, s[i])[j] = s[j]
      /\ Append(read, s[i])[i] = s[i]
    BY <1>1, <1>2, <1>3, AppendProperties
<1>6. \A j \in 1 .. i : Append(read, s[i])[j] = more[j]
    BY <1>1, <1>4, <1>5
<1>7. Append(read, s[i]) = more
    BY <1>4, <1>5, <1>6, SeqEqual
<1> QED BY <1>7 DEF read, more

\* Past the checks of Write a line is one line, with a level; and the frontend has
\* what it has read of it, which is never all.
LineInv ==
    /\ span \in Spans
    /\ logStage \in {"idle", "helper", "frontend", "done"}
    /\ logStage \in {"idle", "helper"} => at = 1 /\ received = << >>
    /\ logStage \in {"helper", "frontend"} =>
          available /\ KnownLevel /\ Terminated
    /\ logStage = "frontend" =>
          /\ format = "%s"
          /\ at \in 1 .. Len(span)
          /\ received = SubSeq(span, 1, at - 1)
    /\ LoggedVerbatim

LEMMA LineInvStep == LineInv /\ [LineNext]_logVars => LineInv'
<1> SUFFICES ASSUME LineInv, [LineNext]_logVars PROVE LineInv'
    OBVIOUS
<1> USE DEF LineInv
<1>1. span \in Seq(Bytes) /\ Len(span) \in Nat
    BY SpansAreSequences
<1>2. CASE Write
    BY <1>2 DEF Write, LoggedVerbatim, KnownLevel, Terminated
<1>3. CASE libretro_core_log_message
    <2>1. Len(span) >= 1
        BY <1>1, <1>3, EmptySeq DEF libretro_core_log_message, Terminated
    <2>2. SubSeq(span, 1, 0) = << >>
        BY SubSeqEmpty
    <2> QED BY <1>1, <1>3, <2>1, <2>2
            DEF libretro_core_log_message, LoggedVerbatim, KnownLevel,
                Terminated
<1>4. CASE ReadByte
    <2>1. /\ logStage = "frontend" /\ format = "%s" /\ available
          /\ KnownLevel /\ Terminated
          /\ at \in 1 .. Len(span) /\ received = SubSeq(span, 1, at - 1)
        BY <1>4 DEF ReadByte
    <2>2. /\ at <= Len(span) /\ at' = at + 1
          /\ UNCHANGED <<available, level, span, format>>
          /\ logStage' = IF span[at] = Terminator THEN "done" ELSE "frontend"
          /\ received' = IF span[at] = Terminator THEN received
                                                  ELSE Append(received, span[at])
        BY <1>1, <1>4, <2>1 DEF ReadByte
    <2>3. Append(received, span[at]) = SubSeq(span, 1, at)
        BY <1>1, <2>1, OneMoreRead
    <2>4. CASE span[at] = Terminator
        <3>1. at = Len(span)
            BY <1>1, <2>1, <2>4 DEF Terminated
        <3>2. Append(received, Terminator) = span
            BY <1>1, <2>3, <2>4, <3>1, SubSeqFull
        <3> QED BY <2>1, <2>2, <2>4, <3>2 DEF LoggedVerbatim, KnownLevel
    <2>5. CASE span[at] # Terminator
        <3>1. at # Len(span)
            BY <2>1, <2>5 DEF Terminated
        <3>2. at' \in 1 .. Len(span) /\ at' - 1 = at
            BY <1>1, <2>1, <2>2, <3>1
        <3> QED BY <2>1, <2>2, <2>3, <2>5, <3>2
                DEF LoggedVerbatim, KnownLevel, Terminated
    <2> QED BY <2>4, <2>5
<1>5. CASE UNCHANGED logVars
    BY <1>5 DEF logVars, LoggedVerbatim, KnownLevel, Terminated
<1> QED BY <1>2, <1>3, <1>4, <1>5 DEF LineNext

\* A frontend logs the whole line and nothing else, with a level it knows, whatever
\* bytes there are and however long the line is (RetroLogger.Write,
\* libretro_core_log_message).
THEOREM AlwaysLoggedVerbatim == LineSpec => []LoggedVerbatim
<1>1. LineInit => LineInv
    BY DEF LineInit, LineInv, LoggedVerbatim
<1>2. LineInv => LoggedVerbatim
    BY DEF LineInv
<1> QED BY <1>1, <1>2, LineInvStep, PTL DEF LineSpec

----------------------------------------------------------------------------
(* Structures.                                                             *)

\* Aligning moves an offset to an offset.
LEMMA AlignedNat ==
    ASSUME NEW offset \in Nat, NEW alignment \in Nat \ {0}
    PROVE  AlignUp(offset, alignment) \in Nat
<1> DEFINE up == offset + alignment - 1
           q == up \div alignment
<1>1. up \in Nat
    OBVIOUS
<1>2. q \in Nat
    <2> HIDE DEF up
    <2>1. q \in Int /\ up % alignment \in 0 .. alignment - 1
          /\ up = alignment * q + (up % alignment)
        BY <1>1, Division
    <2> DEFINE r == up % alignment
    <2>2. r \in 0 .. alignment - 1 /\ up = alignment * q + r /\ q \in Int
        BY <2>1
    <2> HIDE DEF q, r
    <2>3. SUFFICES ASSUME q <= -1 PROVE FALSE
        BY <2>2
    <2>4. alignment * q <= -alignment
        BY <2>2, <2>3
    <2> QED BY <1>1, <2>2, <2>4
<1> HIDE DEF q
<1>3. q * alignment \in Nat
    BY <1>2
<1> QED BY <1>3 DEF AlignUp, q

\* An extent as the compilers give it.
IsExtent(extent) == extent.size \in Nat /\ extent.alignment \in Nat \ {0}

\* The recursive function of the model is the one that its equation gives.
LEMMA EndsSteps ==
    ASSUME NEW extents, Len(extents) \in Nat,
           \A i \in 1 .. Len(extents) : IsExtent(extents[i])
    PROVE  /\ Ends(extents)[0] = 0
           /\ \A i \in 1 .. Len(extents) :
                 Ends(extents)[i]
                     = PlacedAt(Ends(extents)[i - 1], extents[i]) + extents[i].size
<1> DEFINE n == Len(extents)
           step == [i \in 1 .. n |->
                       [x \in Nat |-> PlacedAt(x, extents[i]) + extents[i].size]]
           Body(end) == [i \in 0 .. n |-> IF i = 0 THEN 0
                            ELSE PlacedAt(end[i - 1], extents[i]) + extents[i].size]
<1>1. \A i \in 1 .. n : \A x \in Nat : step[i][x] \in Nat
    <2> TAKE i \in 1 .. n
    <2> TAKE x \in Nat
    <2>1. IsExtent(extents[i])
        OBVIOUS
    <2>2. PlacedAt(x, extents[i]) \in Nat
        BY <2>1, AlignedNat DEF IsExtent, PlacedAt
    <2> QED BY <2>1, <2>2 DEF IsExtent
<1>2. PICK f : Iterates(f, n, 0, step) /\ \A i \in 0 .. n : f[i] \in Nat
    <2>1. n \in Nat /\ 0 \in Nat
        OBVIOUS
    <2> HIDE DEF step, n
    <2> QED BY <1>1, <2>1, Iteration
<1>3. f = Body(f)
    <2>1. \A i \in 0 .. n : i # 0 => i \in 1 .. n /\ i - 1 \in 0 .. n
        OBVIOUS
    <2>2. \A i \in 0 .. n : i # 0 =>
              step[i][f[i - 1]] = PlacedAt(f[i - 1], extents[i]) + extents[i].size
        BY <1>2, <2>1
    <2> HIDE DEF step
    <2> QED BY <1>2, <2>2 DEF Iterates
<1> DEFINE end == CHOOSE g : g = Body(g)
<1>4. end = Body(end)
    <2> HIDE DEF Body
    <2> QED BY <1>3
<1>5. Ends(extents) = end
    BY DEF Ends
<1> HIDE DEF end
<1> QED BY <1>4, <1>5

\* What a layout is, without the recursion: where each field starts, and the
\* structure's size and alignment.
Laid(extents, starts, size, strictest) ==
    /\ Len(extents) \in Nat \ {0}
    /\ DOMAIN extents = 1 .. Len(extents)
    /\ starts = [i \in 1 .. Len(extents) |-> starts[i]]
    /\ \A i \in 1 .. Len(extents) :
          IsExtent(extents[i]) /\ extents[i].alignment <= strictest
    /\ starts[1] = PlacedAt(0, extents[1])
    /\ \A i \in 2 .. Len(extents) :
          starts[i] = PlacedAt(starts[i - 1] + extents[i - 1].size, extents[i])
    /\ \E i \in 1 .. Len(extents) : extents[i].alignment = strictest
    /\ size = AlignUp(starts[Len(extents)] + extents[Len(extents)].size, strictest)

\* A list of extents has the layout that was guessed for it.
LEMMA LaidOut ==
    ASSUME NEW extents, NEW starts, NEW size, NEW strictest,
           Laid(extents, starts, size, strictest)
    PROVE  /\ Structure(extents) = [size |-> size, alignment |-> strictest]
           /\ starts = [i \in DOMAIN extents |->
                            PlacedAt(Ends(extents)[i - 1], extents[i])]
<1> DEFINE n == Len(extents)
<1>1. /\ n \in Nat \ {0} /\ DOMAIN extents = 1 .. n
      /\ starts = [i \in 1 .. n |-> starts[i]]
      /\ \A i \in 1 .. n : IsExtent(extents[i]) /\ extents[i].alignment <= strictest
      /\ starts[1] = PlacedAt(0, extents[1])
      /\ \A i \in 2 .. n :
            starts[i] = PlacedAt(starts[i - 1] + extents[i - 1].size, extents[i])
      /\ \E i \in 1 .. n : extents[i].alignment = strictest
      /\ size = AlignUp(starts[n] + extents[n].size, strictest)
    BY DEF Laid
<1>2. /\ Ends(extents)[0] = 0
      /\ \A i \in 1 .. n :
            Ends(extents)[i]
                = PlacedAt(Ends(extents)[i - 1], extents[i]) + extents[i].size
    BY <1>1, EndsSteps
<1> DEFINE S == {k \in Nat : k + 1 \in 1 .. n =>
                     PlacedAt(Ends(extents)[k], extents[k + 1]) = starts[k + 1]}
<1> HIDE DEF n
<1>3. 0 \in S
    <2>1. 0 + 1 = 1
        OBVIOUS
    <2> QED BY <1>1, <1>2, <2>1
<1>4. ASSUME NEW k \in S PROVE k + 1 \in S
    <2>1. SUFFICES ASSUME k + 2 \in 1 .. n
                   PROVE  PlacedAt(Ends(extents)[k + 1], extents[k + 2]) = starts[k + 2]
        <3>1. k + 1 + 1 = k + 2
            OBVIOUS
        <3> QED BY <3>1
    <2>2. k + 1 \in 1 .. n /\ k + 1 - 1 = k /\ k + 2 # 1 /\ k + 2 - 1 = k + 1
        BY <1>1, <2>1
    <2>3. Ends(extents)[k + 1] = starts[k + 1] + extents[k + 1].size
        BY <1>2, <2>2
    <2>4. starts[k + 2] = PlacedAt(starts[k + 1] + extents[k + 1].size, extents[k + 2])
        <3> DEFINE i == k + 2
        <3>1. i \in 2 .. n /\ i - 1 = k + 1
            BY <1>1, <2>1
        <3> HIDE DEF i
        <3>2. starts[i] = PlacedAt(starts[k + 1] + extents[k + 1].size, extents[i])
            BY <1>1, <3>1
        <3> QED BY <3>2 DEF i
    <2> QED BY <2>3, <2>4
<1>5. Nat \subseteq S
    <2>1. S \in SUBSET Nat
        OBVIOUS
    <2> HIDE DEF S
    <2> QED BY <1>3, <1>4, <2>1, Induction
<1>6. \A i \in 1 .. n : PlacedAt(Ends(extents)[i - 1], extents[i]) = starts[i]
    <2> TAKE i \in 1 .. n
    <2>1. i - 1 \in Nat /\ i - 1 + 1 = i
        BY <1>1
    <2> QED BY <1>5, <2>1
<1>7. Ends(extents)[n] = starts[n] + extents[n].size
    BY <1>1, <1>2, <1>6
<1>8. Max({1} \cup {extents[i].alignment : i \in DOMAIN extents}) = strictest
    <2> DEFINE alignments == {1} \cup {extents[i].alignment : i \in DOMAIN extents}
    <2>1. strictest \in alignments
        BY <1>1
    <2>2. strictest \in Nat \ {0}
        BY <1>1 DEF IsExtent
    <2>3. \A a \in alignments : a \in Nat /\ a <= strictest
        <3>1. \A i \in DOMAIN extents :
                  extents[i].alignment \in Nat /\ extents[i].alignment <= strictest
            BY <1>1 DEF IsExtent
        <3> QED BY <2>2, <3>1
    <2> HIDE DEF alignments
    <2>4. \A m \in alignments : (\A a \in alignments : m >= a) => m = strictest
        BY <2>1, <2>2, <2>3
    <2>5. Max(alignments) = strictest
        BY <2>1, <2>2, <2>3, <2>4 DEF Max
    <2> QED BY <2>5 DEF alignments
<1> QED BY <1>1, <1>6, <1>7, <1>8 DEF Structure, n


\* On a platform with 64-bit pointers a scalar has one of three extents, on either
\* side.
Wide == [size |-> 8, alignment |-> 8]
Word == [size |-> 4, alignment |-> 4]
Byte == [size |-> 1, alignment |-> 1]

ScalarTypes == {"pointer", "size_t", "double", "unsigned", "enum", "float", "byte"}

Measure(type) ==
    CASE type \in {"pointer", "size_t", "double"} -> Wide
      [] type \in {"unsigned", "enum", "float"} -> Word
      [] OTHER -> Byte

\* A platform with 64-bit pointers.
Is64(abi) == abi \in Platforms /\ abi.pointer = 8

LEMMA Measures ==
    /\ Measure("pointer") = Wide /\ Measure("size_t") = Wide /\ Measure("double") = Wide
    /\ Measure("unsigned") = Word /\ Measure("enum") = Word /\ Measure("float") = Word
    /\ Measure("byte") = Byte
BY DEF Measure

\* A scalar field has the extent of its type.
LEMMA MeasureOf ==
    ASSUME NEW abi, Is64(abi), NEW side \in Sides, NEW type \in ScalarTypes
    PROVE  /\ Scalar(abi, side, type) = Measure(type)
           /\ Field(abi, side, type) = Measure(type)
<1>1. abi.pointer = 8 /\ abi[side] = 8
    BY LayoutAssumption DEF Is64, Sides
<1>2. Scalar(abi, side, type) = Measure(type)
    BY <1>1 DEF Scalar, ScalarSize, ScalarAlignment, Measure, ScalarTypes,
                Wide, Word, Byte
<1>3. Field(abi, side, type) = Scalar(abi, side, type)
    BY SMT DEF Field, Fields, NativeStructures, ManagedStructures, ScalarTypes
<1> QED BY <1>2, <1>3


\* The fields of the C# structure have these extents.
Measured(type, extents) ==
    LET fields == ManagedStructures[type]
    IN  /\ DOMAIN extents = 1 .. Len(extents) /\ Len(extents) \in Nat
        /\ extents = [i \in DOMAIN extents |-> extents[i]]
        /\ DOMAIN fields = DOMAIN extents
        /\ \A i \in DOMAIN extents :
              fields[i] \in ScalarTypes /\ Measure(fields[i]) = extents[i]

\* A structure of scalars, by itself and within another.
LEMMA MeasuredExtents ==
    ASSUME NEW abi, Is64(abi), NEW type, NEW extents, Measured(type, extents)
    PROVE  /\ Extents(abi, "managed", type) = extents
           /\ Flat(abi, "managed", type) = Structure(extents)
<1> DEFINE f == ManagedStructures[type]
<1>1. Fields("managed") = ManagedStructures /\ "managed" \in Sides
    BY DEF Fields, Sides
<1>2. /\ DOMAIN f = DOMAIN extents
      /\ extents = [i \in DOMAIN extents |-> extents[i]]
      /\ \A i \in DOMAIN extents : f[i] \in ScalarTypes /\ Measure(f[i]) = extents[i]
    BY DEF Measured
<1> HIDE DEF f
<1>3. \A i \in DOMAIN extents : /\ Field(abi, "managed", f[i]) = extents[i]
                                /\ Scalar(abi, "managed", f[i]) = extents[i]
    BY <1>1, <1>2, MeasureOf
<1>4. Extents(abi, "managed", type) = [i \in DOMAIN extents |-> extents[i]]
    BY <1>1, <1>2, <1>3 DEF Extents, f
<1>5. Flat(abi, "managed", type) = Structure([i \in DOMAIN extents |-> extents[i]])
    <2>1. [i \in DOMAIN f |-> Scalar(abi, "managed", f[i])]
             = [i \in DOMAIN extents |-> extents[i]]
        BY <1>2, <1>3
    <2> QED BY <1>1, <2>1 DEF Flat, f
<1> QED BY <1>2, <1>4, <1>5

\* The check's two comparisons of one structure.
AsExpected(abi, type) ==
    /\ SizeOf(abi, type) = Expected[type].size
    /\ Offsets(abi, "managed", type) = Expected[type].at

\* It passes them if its fields are laid as the table says.
LEMMA LaidAsExpected ==
    ASSUME NEW abi, NEW type, NEW extents, Extents(abi, "managed", type) = extents,
           NEW starts, NEW size, NEW strictest, Laid(extents, starts, size, strictest),
           Expected[type] = [size |-> size, at |-> starts]
    PROVE  AsExpected(abi, type)
BY LaidOut DEF AsExpected, SizeOf, Extent, Offsets

\* Every structure of scalars passes them.
LEMMA ScalarStructuresAsExpected ==
    ASSUME NEW abi, Is64(abi)
    PROVE  /\ AsExpected(abi, "RetroSystemInfo")
           /\ AsExpected(abi, "RetroGameGeometry")
           /\ AsExpected(abi, "RetroSystemTiming")
           /\ AsExpected(abi, "RetroGameInfo")
           /\ AsExpected(abi, "RetroInputDescriptor")
           /\ AsExpected(abi, "RetroControllerDescription")
           /\ AsExpected(abi, "RetroControllerInfo")
           /\ AsExpected(abi, "RetroVariable")
           /\ AsExpected(abi, "RetroMessage")
           /\ AsExpected(abi, "RetroMessageExtended")
           /\ AsExpected(abi, "RetroLogCallback")
           /\ AsExpected(abi, "RetroCoreOptionV2Category")
           /\ AsExpected(abi, "RetroCoreOptionsV2")
           /\ AsExpected(abi, "RetroFrontendCallbacks")
<1>1. AsExpected(abi, "RetroSystemInfo")
    <2> DEFINE type == "RetroSystemInfo"
               extents == <<Wide, Wide, Wide, Byte, Byte>>
               starts == <<0, 8, 16, 24, 25>>
    <2>1. Measured(type, extents)
        BY Measures DEF Measured, ManagedStructures, ScalarTypes, Pointers
    <2>2. /\ DOMAIN extents = 1 .. 5 /\ Len(extents) = 5 /\ extents[1] = Wide
          /\ extents[2] = Wide /\ extents[3] = Wide /\ extents[4] = Byte
          /\ extents[5] = Byte
        OBVIOUS
    <2> HIDE DEF extents
    <2>3. Laid(extents, starts, 32, 8)
        BY <2>2 DEF Laid, IsExtent, Wide, Byte, PlacedAt, AlignUp
    <2>4. Expected[type] = [size |-> 32, at |-> starts]
        BY DEF Expected
    <2> HIDE DEF type, starts
    <2>5. AsExpected(abi, type)
        BY <2>1, <2>3, <2>4, MeasuredExtents, LaidAsExpected
    <2> QED BY <2>5 DEF type
<1>2. AsExpected(abi, "RetroGameGeometry")
    <2> DEFINE type == "RetroGameGeometry"
               extents == <<Word, Word, Word, Word, Word>>
               starts == <<0, 4, 8, 12, 16>>
    <2>1. Measured(type, extents)
        BY Measures DEF Measured, ManagedStructures, ScalarTypes, Words
    <2>2. /\ DOMAIN extents = 1 .. 5 /\ Len(extents) = 5 /\ extents[1] = Word
          /\ extents[2] = Word /\ extents[3] = Word /\ extents[4] = Word
          /\ extents[5] = Word
        OBVIOUS
    <2> HIDE DEF extents
    <2>3. Laid(extents, starts, 20, 4)
        BY <2>2 DEF Laid, IsExtent, Word, PlacedAt, AlignUp
    <2>4. Expected[type] = [size |-> 20, at |-> starts]
        BY DEF Expected
    <2> HIDE DEF type, starts
    <2>5. AsExpected(abi, type)
        BY <2>1, <2>3, <2>4, MeasuredExtents, LaidAsExpected
    <2> QED BY <2>5 DEF type
<1>3. AsExpected(abi, "RetroSystemTiming")
    <2> DEFINE type == "RetroSystemTiming"
               extents == <<Wide, Wide>>
               starts == <<0, 8>>
    <2>1. Measured(type, extents)
        BY Measures DEF Measured, ManagedStructures, ScalarTypes
    <2>2. /\ DOMAIN extents = 1 .. 2 /\ Len(extents) = 2 /\ extents[1] = Wide
          /\ extents[2] = Wide
        OBVIOUS
    <2> HIDE DEF extents
    <2>3. Laid(extents, starts, 16, 8)
        BY <2>2 DEF Laid, IsExtent, Wide, PlacedAt, AlignUp
    <2>4. Expected[type] = [size |-> 16, at |-> starts]
        BY DEF Expected
    <2> HIDE DEF type, starts
    <2>5. AsExpected(abi, type)
        BY <2>1, <2>3, <2>4, MeasuredExtents, LaidAsExpected
    <2> QED BY <2>5 DEF type
<1>4. AsExpected(abi, "RetroGameInfo")
    <2> DEFINE type == "RetroGameInfo"
               extents == <<Wide, Wide, Wide, Wide>>
               starts == <<0, 8, 16, 24>>
    <2>1. Measured(type, extents)
        BY Measures DEF Measured, ManagedStructures, ScalarTypes, Pointers
    <2>2. /\ DOMAIN extents = 1 .. 4 /\ Len(extents) = 4 /\ extents[1] = Wide
          /\ extents[2] = Wide /\ extents[3] = Wide /\ extents[4] = Wide
        OBVIOUS
    <2> HIDE DEF extents
    <2>3. Laid(extents, starts, 32, 8)
        BY <2>2 DEF Laid, IsExtent, Wide, PlacedAt, AlignUp
    <2>4. Expected[type] = [size |-> 32, at |-> starts]
        BY DEF Expected
    <2> HIDE DEF type, starts
    <2>5. AsExpected(abi, type)
        BY <2>1, <2>3, <2>4, MeasuredExtents, LaidAsExpected
    <2> QED BY <2>5 DEF type
<1>5. AsExpected(abi, "RetroInputDescriptor")
    <2> DEFINE type == "RetroInputDescriptor"
               extents == <<Word, Word, Word, Word, Wide>>
               starts == <<0, 4, 8, 12, 16>>
    <2>1. Measured(type, extents)
        BY Measures DEF Measured, ManagedStructures, ScalarTypes, Pointers, Words
    <2>2. /\ DOMAIN extents = 1 .. 5 /\ Len(extents) = 5 /\ extents[1] = Word
          /\ extents[2] = Word /\ extents[3] = Word /\ extents[4] = Word
          /\ extents[5] = Wide
        OBVIOUS
    <2> HIDE DEF extents
    <2>3. Laid(extents, starts, 24, 8)
        BY <2>2 DEF Laid, IsExtent, Wide, Word, PlacedAt, AlignUp
    <2>4. Expected[type] = [size |-> 24, at |-> starts]
        BY DEF Expected
    <2> HIDE DEF type, starts
    <2>5. AsExpected(abi, type)
        BY <2>1, <2>3, <2>4, MeasuredExtents, LaidAsExpected
    <2> QED BY <2>5 DEF type
<1>6. AsExpected(abi, "RetroControllerDescription")
    <2> DEFINE type == "RetroControllerDescription"
               extents == <<Wide, Word>>
               starts == <<0, 8>>
    <2>1. Measured(type, extents)
        BY Measures DEF Measured, ManagedStructures, ScalarTypes
    <2>2. /\ DOMAIN extents = 1 .. 2 /\ Len(extents) = 2 /\ extents[1] = Wide
          /\ extents[2] = Word
        OBVIOUS
    <2> HIDE DEF extents
    <2>3. Laid(extents, starts, 16, 8)
        BY <2>2 DEF Laid, IsExtent, Wide, Word, PlacedAt, AlignUp
    <2>4. Expected[type] = [size |-> 16, at |-> starts]
        BY DEF Expected
    <2> HIDE DEF type, starts
    <2>5. AsExpected(abi, type)
        BY <2>1, <2>3, <2>4, MeasuredExtents, LaidAsExpected
    <2> QED BY <2>5 DEF type
<1>7. AsExpected(abi, "RetroControllerInfo")
    <2> DEFINE type == "RetroControllerInfo"
               extents == <<Wide, Word>>
               starts == <<0, 8>>
    <2>1. Measured(type, extents)
        BY Measures DEF Measured, ManagedStructures, ScalarTypes, RetroControllerInfo
    <2>2. /\ DOMAIN extents = 1 .. 2 /\ Len(extents) = 2 /\ extents[1] = Wide
          /\ extents[2] = Word
        OBVIOUS
    <2> HIDE DEF extents
    <2>3. Laid(extents, starts, 16, 8)
        BY <2>2 DEF Laid, IsExtent, Wide, Word, PlacedAt, AlignUp
    <2>4. Expected[type] = [size |-> 16, at |-> starts]
        BY DEF Expected
    <2> HIDE DEF type, starts
    <2>5. AsExpected(abi, type)
        BY <2>1, <2>3, <2>4, MeasuredExtents, LaidAsExpected
    <2> QED BY <2>5 DEF type
<1>8. AsExpected(abi, "RetroVariable")
    <2> DEFINE type == "RetroVariable"
               extents == <<Wide, Wide>>
               starts == <<0, 8>>
    <2>1. Measured(type, extents)
        BY Measures DEF Measured, ManagedStructures, ScalarTypes, Pointers
    <2>2. /\ DOMAIN extents = 1 .. 2 /\ Len(extents) = 2 /\ extents[1] = Wide
          /\ extents[2] = Wide
        OBVIOUS
    <2> HIDE DEF extents
    <2>3. Laid(extents, starts, 16, 8)
        BY <2>2 DEF Laid, IsExtent, Wide, PlacedAt, AlignUp
    <2>4. Expected[type] = [size |-> 16, at |-> starts]
        BY DEF Expected
    <2> HIDE DEF type, starts
    <2>5. AsExpected(abi, type)
        BY <2>1, <2>3, <2>4, MeasuredExtents, LaidAsExpected
    <2> QED BY <2>5 DEF type
<1>9. AsExpected(abi, "RetroMessage")
    <2> DEFINE type == "RetroMessage"
               extents == <<Wide, Word>>
               starts == <<0, 8>>
    <2>1. Measured(type, extents)
        BY Measures DEF Measured, ManagedStructures, ScalarTypes
    <2>2. /\ DOMAIN extents = 1 .. 2 /\ Len(extents) = 2 /\ extents[1] = Wide
          /\ extents[2] = Word
        OBVIOUS
    <2> HIDE DEF extents
    <2>3. Laid(extents, starts, 16, 8)
        BY <2>2 DEF Laid, IsExtent, Wide, Word, PlacedAt, AlignUp
    <2>4. Expected[type] = [size |-> 16, at |-> starts]
        BY DEF Expected
    <2> HIDE DEF type, starts
    <2>5. AsExpected(abi, type)
        BY <2>1, <2>3, <2>4, MeasuredExtents, LaidAsExpected
    <2> QED BY <2>5 DEF type
<1>10. AsExpected(abi, "RetroMessageExtended")
    <2> DEFINE type == "RetroMessageExtended"
               extents == <<Wide, Word, Word, Word, Word, Word, Byte>>
               starts == <<0, 8, 12, 16, 20, 24, 28>>
    <2>1. Measured(type, extents)
        BY Measures DEF Measured, ManagedStructures, ScalarTypes, RetroMessageExtended
    <2>2. /\ DOMAIN extents = 1 .. 7 /\ Len(extents) = 7 /\ extents[1] = Wide
          /\ extents[2] = Word /\ extents[3] = Word /\ extents[4] = Word
          /\ extents[5] = Word /\ extents[6] = Word /\ extents[7] = Byte
        OBVIOUS
    <2> HIDE DEF extents
    <2>3. Laid(extents, starts, 32, 8)
        BY <2>2 DEF Laid, IsExtent, Wide, Word, Byte, PlacedAt, AlignUp
    <2>4. Expected[type] = [size |-> 32, at |-> starts]
        BY DEF Expected
    <2> HIDE DEF type, starts
    <2>5. AsExpected(abi, type)
        BY <2>1, <2>3, <2>4, MeasuredExtents, LaidAsExpected
    <2> QED BY <2>5 DEF type
<1>11. AsExpected(abi, "RetroLogCallback")
    <2> DEFINE type == "RetroLogCallback"
               extents == <<Wide>>
               starts == <<0>>
    <2>1. Measured(type, extents)
        BY Measures DEF Measured, ManagedStructures, ScalarTypes, Pointers
    <2>2. DOMAIN extents = 1 .. 1 /\ Len(extents) = 1 /\ extents[1] = Wide
        OBVIOUS
    <2> HIDE DEF extents
    <2>3. Laid(extents, starts, 8, 8)
        BY <2>2 DEF Laid, IsExtent, Wide, PlacedAt, AlignUp
    <2>4. Expected[type] = [size |-> 8, at |-> starts]
        BY DEF Expected
    <2> HIDE DEF type, starts
    <2>5. AsExpected(abi, type)
        BY <2>1, <2>3, <2>4, MeasuredExtents, LaidAsExpected
    <2> QED BY <2>5 DEF type
<1>12. AsExpected(abi, "RetroCoreOptionV2Category")
    <2> DEFINE type == "RetroCoreOptionV2Category"
               extents == <<Wide, Wide, Wide>>
               starts == <<0, 8, 16>>
    <2>1. Measured(type, extents)
        BY Measures DEF Measured, ManagedStructures, ScalarTypes, Pointers
    <2>2. /\ DOMAIN extents = 1 .. 3 /\ Len(extents) = 3 /\ extents[1] = Wide
          /\ extents[2] = Wide /\ extents[3] = Wide
        OBVIOUS
    <2> HIDE DEF extents
    <2>3. Laid(extents, starts, 24, 8)
        BY <2>2 DEF Laid, IsExtent, Wide, PlacedAt, AlignUp
    <2>4. Expected[type] = [size |-> 24, at |-> starts]
        BY DEF Expected
    <2> HIDE DEF type, starts
    <2>5. AsExpected(abi, type)
        BY <2>1, <2>3, <2>4, MeasuredExtents, LaidAsExpected
    <2> QED BY <2>5 DEF type
<1>13. AsExpected(abi, "RetroCoreOptionsV2")
    <2> DEFINE type == "RetroCoreOptionsV2"
               extents == <<Wide, Wide>>
               starts == <<0, 8>>
    <2>1. Measured(type, extents)
        BY Measures DEF Measured, ManagedStructures, ScalarTypes, Pointers
    <2>2. /\ DOMAIN extents = 1 .. 2 /\ Len(extents) = 2 /\ extents[1] = Wide
          /\ extents[2] = Wide
        OBVIOUS
    <2> HIDE DEF extents
    <2>3. Laid(extents, starts, 16, 8)
        BY <2>2 DEF Laid, IsExtent, Wide, PlacedAt, AlignUp
    <2>4. Expected[type] = [size |-> 16, at |-> starts]
        BY DEF Expected
    <2> HIDE DEF type, starts
    <2>5. AsExpected(abi, type)
        BY <2>1, <2>3, <2>4, MeasuredExtents, LaidAsExpected
    <2> QED BY <2>5 DEF type
<1>14. AsExpected(abi, "RetroFrontendCallbacks")
    <2> DEFINE type == "RetroFrontendCallbacks"
               extents == <<Wide, Wide, Wide, Wide, Wide, Wide>>
               starts == <<0, 8, 16, 24, 32, 40>>
    <2>1. Measured(type, extents)
        BY Measures DEF Measured, ManagedStructures, ScalarTypes, Pointers
    <2>2. /\ DOMAIN extents = 1 .. 6 /\ Len(extents) = 6 /\ extents[1] = Wide
          /\ extents[2] = Wide /\ extents[3] = Wide /\ extents[4] = Wide
          /\ extents[5] = Wide /\ extents[6] = Wide
        OBVIOUS
    <2> HIDE DEF extents
    <2>3. Laid(extents, starts, 48, 8)
        BY <2>2 DEF Laid, IsExtent, Wide, PlacedAt, AlignUp
    <2>4. Expected[type] = [size |-> 48, at |-> starts]
        BY DEF Expected
    <2> HIDE DEF type, starts
    <2>5. AsExpected(abi, type)
        BY <2>1, <2>3, <2>4, MeasuredExtents, LaidAsExpected
    <2> QED BY <2>5 DEF type
<1> QED
    BY <1>1, <1>2, <1>3, <1>4, <1>5, <1>6, <1>7, <1>8, <1>9, <1>10, <1>11, <1>12, <1>13,
       <1>14

\* The structures within others, and the array of an option's values.
LEMMA NestedExtents ==
    ASSUME NEW abi, Is64(abi)
    PROVE  /\ Field(abi, "managed", "RetroGameGeometry") = [size |-> 20, alignment |-> 4]
           /\ Field(abi, "managed", "RetroSystemTiming") = [size |-> 16, alignment |-> 8]
           /\ Field(abi, "managed", "RetroCoreOptionValues")
                 = [size |-> 2048, alignment |-> 8]
           /\ ValuesExtent(abi, "managed") = [size |-> 2048, alignment |-> 8]
           /\ SizeOf(abi, "RetroCoreOptionValue") = 16
<1>1. Flat(abi, "managed", "RetroGameGeometry") = [size |-> 20, alignment |-> 4]
    <2> DEFINE type == "RetroGameGeometry"
               extents == <<Word, Word, Word, Word, Word>>
               starts == <<0, 4, 8, 12, 16>>
    <2>1. Measured(type, extents)
        BY Measures DEF Measured, ManagedStructures, ScalarTypes, Words
    <2>2. /\ DOMAIN extents = 1 .. 5 /\ Len(extents) = 5 /\ extents[1] = Word
          /\ extents[2] = Word /\ extents[3] = Word /\ extents[4] = Word
          /\ extents[5] = Word
        OBVIOUS
    <2> HIDE DEF extents
    <2>3. Laid(extents, starts, 20, 4)
        BY <2>2 DEF Laid, IsExtent, Word, PlacedAt, AlignUp
    <2> HIDE DEF type, starts
    <2>4. Flat(abi, "managed", type) = [size |-> 20, alignment |-> 4]
        BY <2>1, <2>3, MeasuredExtents, LaidOut
    <2> QED BY <2>4 DEF type
<1>2. Flat(abi, "managed", "RetroSystemTiming") = [size |-> 16, alignment |-> 8]
    <2> DEFINE type == "RetroSystemTiming"
               extents == <<Wide, Wide>>
               starts == <<0, 8>>
    <2>1. Measured(type, extents)
        BY Measures DEF Measured, ManagedStructures, ScalarTypes
    <2>2. /\ DOMAIN extents = 1 .. 2 /\ Len(extents) = 2 /\ extents[1] = Wide
          /\ extents[2] = Wide
        OBVIOUS
    <2> HIDE DEF extents
    <2>3. Laid(extents, starts, 16, 8)
        BY <2>2 DEF Laid, IsExtent, Wide, PlacedAt, AlignUp
    <2> HIDE DEF type, starts
    <2>4. Flat(abi, "managed", type) = [size |-> 16, alignment |-> 8]
        BY <2>1, <2>3, MeasuredExtents, LaidOut
    <2> QED BY <2>4 DEF type
<1>3. /\ Flat(abi, "managed", "RetroCoreOptionValue") = [size |-> 16, alignment |-> 8]
      /\ SizeOf(abi, "RetroCoreOptionValue") = 16
    <2> DEFINE type == "RetroCoreOptionValue"
               extents == <<Wide, Wide>>
               starts == <<0, 8>>
    <2>1. Measured(type, extents)
        BY Measures DEF Measured, ManagedStructures, ScalarTypes, Pointers
    <2>2. /\ DOMAIN extents = 1 .. 2 /\ Len(extents) = 2 /\ extents[1] = Wide
          /\ extents[2] = Wide
        OBVIOUS
    <2> HIDE DEF extents
    <2>3. Laid(extents, starts, 16, 8)
        BY <2>2 DEF Laid, IsExtent, Wide, PlacedAt, AlignUp
    <2> HIDE DEF type, starts
    <2>4. /\ Flat(abi, "managed", type) = [size |-> 16, alignment |-> 8]
          /\ SizeOf(abi, type) = 16
        BY <2>1, <2>3, MeasuredExtents, LaidOut DEF SizeOf, Extent
    <2> QED BY <2>4 DEF type
<1>4. ValuesExtent(abi, "managed") = [size |-> 2048, alignment |-> 8]
    BY <1>3, LayoutAssumption DEF ValuesExtent
<1>5. /\ "RetroGameGeometry" \in DOMAIN Fields("managed")
      /\ "RetroSystemTiming" \in DOMAIN Fields("managed")
      /\ "RetroCoreOptionValues" \notin DOMAIN Fields("managed")
    BY DEF Fields, ManagedStructures
<1>6. Field(abi, "managed", "RetroGameGeometry")
         = Flat(abi, "managed", "RetroGameGeometry")
    BY <1>5 DEF Field
<1>7. Field(abi, "managed", "RetroSystemTiming")
         = Flat(abi, "managed", "RetroSystemTiming")
    BY <1>5 DEF Field
<1>8. Field(abi, "managed", "RetroCoreOptionValues") = ValuesExtent(abi, "managed")
    BY <1>5 DEF Field
<1> QED BY <1>1, <1>2, <1>3, <1>4, <1>6, <1>7, <1>8

\* The two structures with fields of that kind pass them as well.
LEMMA NestingStructuresAsExpected ==
    ASSUME NEW abi, Is64(abi)
    PROVE  /\ AsExpected(abi, "RetroSystemAvInfo")
           /\ AsExpected(abi, "RetroCoreOptionV2Definition")
<1>1. Fields("managed") = ManagedStructures /\ "managed" \in Sides
    BY DEF Fields, Sides
<1>2. AsExpected(abi, "RetroSystemAvInfo")
    <2> DEFINE type == "RetroSystemAvInfo"
               starts == <<0, 24>>
               f == ManagedStructures[type]
               e == Extents(abi, "managed", type)
    <2>1. DOMAIN f = 1 .. 2 /\ f[1] = "RetroGameGeometry" /\ f[2] = "RetroSystemTiming"
        BY DEF ManagedStructures
    <2> HIDE DEF f
    <2>2. e = [i \in 1 .. 2 |-> Field(abi, "managed", f[i])]
        BY <1>1, <2>1 DEF Extents, f
    <2>3. Expected[type] = [size |-> 40, at |-> starts]
        BY DEF Expected
    <2> HIDE DEF e, type
    <2>4. /\ DOMAIN e = 1 .. 2 /\ Len(e) = 2
          /\ e[1] = [size |-> 20, alignment |-> 4]
          /\ e[2] = [size |-> 16, alignment |-> 8]
        BY <2>1, <2>2, NestedExtents
    <2>5. Laid(e, starts, 40, 8)
        BY <2>4 DEF Laid, IsExtent, PlacedAt, AlignUp
    <2> HIDE DEF starts
    <2>6. AsExpected(abi, type)
        BY <2>3, <2>5, LaidAsExpected DEF e
    <2> QED BY <2>6 DEF type
<1>3. AsExpected(abi, "RetroCoreOptionV2Definition")
    <2> DEFINE type == "RetroCoreOptionV2Definition"
               starts == <<0, 8, 16, 24, 32, 40, 48, 2096>>
               f == ManagedStructures[type]
               e == Extents(abi, "managed", type)
    <2>1. /\ DOMAIN f = 1 .. 8 /\ f[7] = "RetroCoreOptionValues"
          /\ \A i \in 1 .. 8 : i # 7 => f[i] = "pointer"
        BY DEF ManagedStructures, Pointers
    <2> HIDE DEF f
    <2>2. e = [i \in 1 .. 8 |-> Field(abi, "managed", f[i])]
        BY <1>1, <2>1 DEF Extents, f
    <2>3. Expected[type] = [size |-> 2104, at |-> starts]
        BY DEF Expected
    <2> HIDE DEF e, type
    <2>4. Field(abi, "managed", "pointer") = Wide
        BY <1>1, MeasureOf, Measures DEF ScalarTypes
    <2>5. DOMAIN e = 1 .. 8 /\ Len(e) = 8 /\ \A i \in 1 .. 8 : i # 7 => e[i] = Wide
        BY <2>1, <2>2, <2>4
    <2>6. e[7] = [size |-> 2048, alignment |-> 8]
        BY <2>1, <2>2, NestedExtents
    <2>7. Laid(e, starts, 2104, 8)
        BY <2>5, <2>6 DEF Laid, IsExtent, Wide, PlacedAt, AlignUp
    <2> HIDE DEF starts
    <2>8. AsExpected(abi, type)
        BY <2>3, <2>7, LaidAsExpected DEF e
    <2> QED BY <2>8 DEF type
<1> QED BY <1>2, <1>3

\* The check accepts exactly the platforms with 64-bit pointers
\* (LibretroAbi.IsSupportedLayout).
LEMMA SupportedExactly ==
    ASSUME NEW abi \in Platforms
    PROVE  IsSupportedLayout(abi) <=> abi.pointer = 8
<1>1. IsSupportedLayout(abi) => abi.pointer = 8
    BY DEF IsSupportedLayout
<1>2. ASSUME abi.pointer = 8 PROVE IsSupportedLayout(abi)
    <2>1. Is64(abi)
        BY <1>2 DEF Is64
    <2>2. ASSUME NEW type \in DOMAIN Expected
          PROVE  AsExpected(abi, type)
        BY <2>1, ScalarStructuresAsExpected, NestingStructuresAsExpected DEF Expected
    <2>3. CoreOptionValuesMaximum * 16 = 2048
        BY LayoutAssumption
    <2> QED BY <1>2, <2>1, <2>2, <2>3, NestedExtents DEF IsSupportedLayout, AsExpected
<1> QED BY <1>1, <1>2

----------------------------------------------------------------------------
(* The two sides.                                                          *)

\* The structures of both sides.
LEMMA StructureNames ==
    /\ Structures = {"RetroSystemInfo", "RetroGameGeometry", "RetroSystemTiming",
                    "RetroSystemAvInfo", "RetroGameInfo", "RetroInputDescriptor",
                    "RetroControllerDescription", "RetroControllerInfo",
                    "RetroVariable", "RetroMessage", "RetroMessageExtended",
                    "RetroLogCallback", "RetroCoreOptionValue",
                    "RetroCoreOptionV2Category", "RetroCoreOptionV2Definition",
                    "RetroCoreOptionsV2"}
    /\ Structures \subseteq DOMAIN ManagedStructures
BY DEF Structures, NativeStructures, ManagedStructures

\* The fields of each structure have the same types in libretro.h and in C#.
LEMMA SameDeclarations ==
    ASSUME NEW type \in Structures
    PROVE  NativeStructures[type] = ManagedStructures[type]
<1>1. CASE type = "RetroSystemInfo"
    BY <1>1 DEF NativeStructures, ManagedStructures, retro_system_info
<1>2. CASE type = "RetroGameGeometry"
    BY <1>2 DEF NativeStructures, ManagedStructures, retro_game_geometry
<1>3. CASE type = "RetroSystemTiming"
    BY <1>3 DEF NativeStructures, ManagedStructures, retro_system_timing
<1>4. CASE type = "RetroSystemAvInfo"
    BY <1>4 DEF NativeStructures, ManagedStructures, retro_system_av_info
<1>5. CASE type = "RetroGameInfo"
    BY <1>5 DEF NativeStructures, ManagedStructures, retro_game_info
<1>6. CASE type = "RetroInputDescriptor"
    BY <1>6 DEF NativeStructures, ManagedStructures, retro_input_descriptor
<1>7. CASE type = "RetroControllerDescription"
    BY <1>7 DEF NativeStructures, ManagedStructures, retro_controller_description
<1>8. CASE type = "RetroControllerInfo"
    BY <1>8
       DEF NativeStructures, ManagedStructures, retro_controller_info, RetroControllerInfo
<1>9. CASE type = "RetroVariable"
    BY <1>9 DEF NativeStructures, ManagedStructures, retro_variable
<1>10. CASE type = "RetroMessage"
    BY <1>10 DEF NativeStructures, ManagedStructures, retro_message
<1>11. CASE type = "RetroMessageExtended"
    BY <1>11
       DEF NativeStructures, ManagedStructures, retro_message_ext, RetroMessageExtended
<1>12. CASE type = "RetroLogCallback"
    BY <1>12 DEF NativeStructures, ManagedStructures, retro_log_callback
<1>13. CASE type = "RetroCoreOptionValue"
    BY <1>13 DEF NativeStructures, ManagedStructures, retro_core_option_value
<1>14. CASE type = "RetroCoreOptionV2Category"
    BY <1>14 DEF NativeStructures, ManagedStructures, retro_core_option_v2_category
<1>15. CASE type = "RetroCoreOptionV2Definition"
    BY <1>15 DEF NativeStructures, ManagedStructures, retro_core_option_v2_definition
<1>16. CASE type = "RetroCoreOptionsV2"
    BY <1>16 DEF NativeStructures, ManagedStructures, retro_core_options_v2
<1> QED
    BY <1>1, <1>2, <1>3, <1>4, <1>5, <1>6, <1>7, <1>8, <1>9, <1>10, <1>11, <1>12,
       <1>13, <1>14, <1>15, <1>16, StructureNames

\* Only the structure of the callbacks is on one side alone; it is in no other.
LEMMA NoCallbacksField ==
    ASSUME NEW type \in Structures, NEW i \in DOMAIN ManagedStructures[type]
    PROVE  ManagedStructures[type][i] # "RetroFrontendCallbacks"
<1>1. CASE type = "RetroSystemInfo"
    BY <1>1 DEF ManagedStructures, Pointers
<1>2. CASE type = "RetroGameGeometry"
    BY <1>2 DEF ManagedStructures, Words
<1>3. CASE type = "RetroSystemTiming"
    BY <1>3 DEF ManagedStructures
<1>4. CASE type = "RetroSystemAvInfo"
    BY <1>4 DEF ManagedStructures
<1>5. CASE type = "RetroGameInfo"
    BY <1>5 DEF ManagedStructures, Pointers
<1>6. CASE type = "RetroInputDescriptor"
    BY <1>6 DEF ManagedStructures, Pointers, Words
<1>7. CASE type = "RetroControllerDescription"
    BY <1>7 DEF ManagedStructures
<1>8. CASE type = "RetroControllerInfo"
    BY <1>8 DEF ManagedStructures, RetroControllerInfo
<1>9. CASE type = "RetroVariable"
    BY <1>9 DEF ManagedStructures, Pointers
<1>10. CASE type = "RetroMessage"
    BY <1>10 DEF ManagedStructures
<1>11. CASE type = "RetroMessageExtended"
    BY <1>11 DEF ManagedStructures, RetroMessageExtended
<1>12. CASE type = "RetroLogCallback"
    BY <1>12 DEF ManagedStructures, Pointers
<1>13. CASE type = "RetroCoreOptionValue"
    BY <1>13 DEF ManagedStructures, Pointers
<1>14. CASE type = "RetroCoreOptionV2Category"
    BY <1>14 DEF ManagedStructures, Pointers
<1>15. CASE type = "RetroCoreOptionV2Definition"
    BY <1>15 DEF ManagedStructures, Pointers
<1>16. CASE type = "RetroCoreOptionsV2"
    BY <1>16 DEF ManagedStructures, Pointers
<1> QED
    BY <1>1, <1>2, <1>3, <1>4, <1>5, <1>6, <1>7, <1>8, <1>9, <1>10, <1>11, <1>12,
       <1>13, <1>14, <1>15, <1>16, StructureNames

\* A scalar has one extent on both sides.
LEMMA SameScalars ==
    ASSUME NEW abi, Is64(abi), NEW type
    PROVE  Scalar(abi, "native", type) = Scalar(abi, "managed", type)
BY LayoutAssumption DEF Is64, Scalar, ScalarAlignment

\* Both compilers place the fields of a structure alike.
LEMMA SameExtents ==
    ASSUME NEW abi, Is64(abi), NEW type \in Structures
    PROVE  Extents(abi, "native", type) = Extents(abi, "managed", type)
<1>1. Fields("native") = NativeStructures /\ Fields("managed") = ManagedStructures
    BY DEF Fields
<1>2. ASSUME NEW t \in Structures
      PROVE  Flat(abi, "native", t) = Flat(abi, "managed", t)
    <2>1. Fields("native")[t] = Fields("managed")[t]
        BY <1>1, SameDeclarations
    <2> DEFINE f == Fields("managed")[t]
    <2>2. \A i \in DOMAIN f : Scalar(abi, "native", f[i]) = Scalar(abi, "managed", f[i])
        BY SameScalars
    <2> HIDE DEF f
    <2>3. [i \in DOMAIN f |-> Scalar(abi, "native", f[i])]
             = [i \in DOMAIN f |-> Scalar(abi, "managed", f[i])]
        BY <2>2
    <2> QED BY <2>1, <2>3 DEF Flat, f
<1>3. ValuesExtent(abi, "native") = ValuesExtent(abi, "managed")
    <2>1. "RetroCoreOptionValue" \in Structures
        BY DEF Structures, NativeStructures
    <2>2. Flat(abi, "native", "RetroCoreOptionValue")
             = Flat(abi, "managed", "RetroCoreOptionValue")
        BY <1>2, <2>1
    <2> QED BY <2>2 DEF ValuesExtent
<1>4. /\ DOMAIN Fields("native") = Structures
      /\ DOMAIN Fields("managed") = Structures \cup {"RetroFrontendCallbacks"}
      /\ "RetroCoreOptionValues" \notin DOMAIN Fields("managed")
    BY <1>1 DEF Structures, NativeStructures, ManagedStructures
<1>5. ASSUME NEW t, t # "RetroFrontendCallbacks"
      PROVE  Field(abi, "native", t) = Field(abi, "managed", t)
    <2>1. CASE t = "RetroCoreOptionValues"
        BY <1>3, <1>4, <2>1 DEF Field
    <2>2. CASE t \in Structures
        BY <1>2, <1>4, <2>2 DEF Field
    <2>3. CASE t # "RetroCoreOptionValues" /\ t \notin Structures
        BY <1>4, <1>5, <2>3, SameScalars DEF Field
    <2> QED BY <2>1, <2>2, <2>3
<1> DEFINE f == ManagedStructures[type]
<1>6. NativeStructures[type] = f /\ \A i \in DOMAIN f : f[i] # "RetroFrontendCallbacks"
    BY SameDeclarations, NoCallbacksField
<1> HIDE DEF f
<1>7. [i \in DOMAIN f |-> Field(abi, "native", f[i])]
         = [i \in DOMAIN f |-> Field(abi, "managed", f[i])]
    BY <1>5, <1>6
<1> QED BY <1>1, <1>6, <1>7 DEF Extents, f

\* What the steps keep: on a platform with 64-bit pointers the field placed last
\* is starts the same bytes on both sides.
LayoutInv ==
    /\ platform \in Platforms
    /\ structure \in Structures
    /\ platform.pointer = 8 => native = managed

LEMMA LayoutInvStep ==
    ASSUME LayoutInv, [LayoutNext]_layoutVars
    PROVE  LayoutInv'
<1>1. CASE PlaceField
    <2>1. platform' \in Platforms /\ structure' \in Structures
        BY <1>1 DEF PlaceField, LayoutInv
    <2>2. ASSUME platform.pointer = 8
          PROVE  native' = managed'
        <3>1. Is64(platform) /\ structure \in Structures /\ native = managed
            BY <2>2 DEF LayoutInv, Is64
        <3>2. Extents(platform, "native", structure)
                 = Extents(platform, "managed", structure)
            BY <3>1, SameExtents
        <3>3. Place("native", native.free, placed')
                 = Place("managed", managed.free, placed')
            BY <3>1, <3>2 DEF Place
        <3> QED BY <1>1, <3>3 DEF PlaceField
    <2> QED BY <1>1, <2>1, <2>2 DEF PlaceField, LayoutInv
<1>2. CASE UNCHANGED layoutVars
    BY <1>2 DEF LayoutInv, layoutVars
<1> QED BY <1>1, <1>2 DEF LayoutNext

\* For every set of platforms, with whatever alignment of doubles the 32-bit ones
\* have: the platforms accepted are those with 64-bit pointers, and there every
\* field of every structure is at the same bytes in C and in C#
\* (LibretroAbi.IsSupportedLayout, LibretroTypes against libretro.h).
THEOREM AlwaysAcceptedFieldsCoincide ==
    LayoutSpec => []AcceptedFieldsCoincide
<1>1. LayoutInit => LayoutInv
    BY DEF LayoutInit, LayoutInv
<1>2. LayoutInv /\ [LayoutNext]_layoutVars => LayoutInv'
    BY LayoutInvStep
<1>3. LayoutInv => AcceptedFieldsCoincide
    <2> SUFFICES ASSUME LayoutInv PROVE AcceptedFieldsCoincide
        OBVIOUS
    <2>1. platform \in Platforms /\ structure \in Structures
        BY DEF LayoutInv
    <2>2. Supported[platform] <=> platform.pointer = 8
        BY <2>1, SupportedExactly DEF Supported
    <2>3. ASSUME platform.pointer = 8
          PROVE  /\ native = managed
                 /\ Len(NativeStructures[structure]) = Len(ManagedStructures[structure])
                 /\ Extent(platform, "native", structure)
                       = Extent(platform, "managed", structure)
        <3>1. Is64(platform)
            BY <2>1, <2>3 DEF Is64
        <3>2. NativeStructures[structure] = ManagedStructures[structure]
            BY <2>1, SameDeclarations
        <3>3. Extents(platform, "native", structure)
                 = Extents(platform, "managed", structure)
            BY <2>1, <3>1, SameExtents
        <3> QED BY <2>3, <3>2, <3>3 DEF LayoutInv, Extent
    <2> QED BY <2>2, <2>3 DEF AcceptedFieldsCoincide
<1> QED BY <1>1, <1>2, <1>3, PTL DEF LayoutSpec

----------------------------------------------------------------------------
(* Commands.                                                               *)

\* The memory of one side's types carries what the other side's types say.
RoundTrip(spoken, understood) ==
    \A names \in Meanings(spoken) : Understood(understood, Number(spoken, names)) = names

Conveys(spoken, understood) ==
    /\ DOMAIN spoken = DOMAIN understood /\ Len(spoken) = Len(understood)
    /\ \A i \in DOMAIN spoken : RoundTrip(spoken[i], understood[i])

\* No two of its names have a number in common, and they are no flags.
Plain(enumeration) ==
    /\ ~Flags(enumeration)
    /\ \A a, b \in DOMAIN enumeration : enumeration[a] = enumeration[b] => a = b

\* A plain enumeration understands the names that it gives the same numbers.
LEMMA PlainRoundTrip ==
    ASSUME NEW spoken, NEW understood, ~Flags(spoken), Plain(understood),
           \A name \in DOMAIN spoken :
              name \in DOMAIN understood /\ understood[name] = spoken[name]
    PROVE  RoundTrip(spoken, understood)
<1> SUFFICES ASSUME NEW names \in Meanings(spoken)
             PROVE  Understood(understood, Number(spoken, names)) = names
    BY DEF RoundTrip
<1>1. PICK name \in DOMAIN spoken : names = {name}
    BY DEF Meanings
<1>2. (CHOOSE n \in names : TRUE) = name
    BY <1>1
<1>3. Number(spoken, names) = spoken[name]
    BY <1>2 DEF Number
<1> QED BY <1>1, <1>3 DEF Understood, Plain

\* A list of names short enough for its positions to stay clear of the numbers that
\* are set apart.
Listed(names) == Len(names) \in 0 .. 255 /\ DOMAIN names = 1 .. Len(names)

LEMMA ListedLength ==
    ASSUME NEW names, Listed(names) PROVE Len(names) \in Nat /\ Len(names) < 256
<1>1. \A n \in 0 .. 255 : n \in Nat /\ n < 256
    OBVIOUS
<1>2. Len(names) \in 0 .. 255
    BY DEF Listed
<1> QED BY <1>1, <1>2

\* An enumeration by position numbers each of its names, differently.
LEMMA NumberedProperties ==
    ASSUME NEW names, Listed(names)
    PROVE  /\ DOMAIN Numbered(names) = ToSet(names)
           /\ \A name \in ToSet(names) :
                 /\ Numbered(names)[name] \in 0 .. Len(names) - 1
                 /\ names[Numbered(names)[name] + 1] = name
<1>1. ASSUME NEW name \in ToSet(names)
      PROVE  \E i \in 0 .. Len(names) - 1 : names[i + 1] = name
    <2>1. PICK j \in 1 .. Len(names) : names[j] = name
        BY DEF ToSet, Listed
    <2>2. Len(names) \in Nat
        BY ListedLength
    <2>3. j - 1 \in 0 .. Len(names) - 1 /\ names[(j - 1) + 1] = name
        BY <2>1, <2>2
    <2> QED BY <2>3
<1> QED BY <1>1 DEF Numbered

LEMMA NumberedInjective ==
    ASSUME NEW names, Listed(names)
    PROVE  \A a, b \in DOMAIN Numbered(names) :
              Numbered(names)[a] = Numbered(names)[b] => a = b
BY NumberedProperties

\* One more name leaves the numbers different if its own is new.
LEMMA AndInjective ==
    ASSUME NEW numbers, NEW name, NEW number,
           \A a, b \in DOMAIN numbers : numbers[a] = numbers[b] => a = b,
           \A a \in DOMAIN numbers : numbers[a] # number
    PROVE  LET all == And(numbers, name, number)
           IN  \A a, b \in DOMAIN all : all[a] = all[b] => a = b
BY DEF And

\* Names keep their numbers in a longer list that begins with them.
LEMMA SamePrefix ==
    ASSUME NEW short, NEW long, Listed(short), Listed(long),
           \A i \in DOMAIN short : i \in DOMAIN long /\ long[i] = short[i],
           \A i \in DOMAIN long : i \in DOMAIN short \/ long[i] \notin ToSet(short),
           NEW name \in ToSet(short)
    PROVE  name \in ToSet(long) /\ Numbered(long)[name] = Numbered(short)[name]
<1>1. name \in ToSet(long)
    BY DEF ToSet
<1>2. /\ \A i : i \in 0 .. Len(long) - 1 <=> i + 1 \in DOMAIN long /\ i \in Int
      /\ \A i : i \in 0 .. Len(short) - 1 <=> i + 1 \in DOMAIN short /\ i \in Int
    BY ListedLength DEF Listed
<1>3. \A i : (i \in 0 .. Len(long) - 1 /\ long[i + 1] = name)
              <=> (i \in 0 .. Len(short) - 1 /\ short[i + 1] = name)
    BY <1>2
<1>4. (CHOOSE i : i \in 0 .. Len(long) - 1 /\ long[i + 1] = name)
          = (CHOOSE i : i \in 0 .. Len(short) - 1 /\ short[i + 1] = name)
    BY <1>3
<1> QED BY <1>1, <1>4 DEF Numbered

\* Enumerations by position are plain, with a number set apart as well.
LEMMA PlainNumbered ==
    ASSUME NEW names, Listed(names), "HardDisableAudio" \notin ToSet(names)
    PROVE  Plain(Numbered(names))
BY NumberedProperties, NumberedInjective DEF Plain, Flags

LEMMA PlainAnd ==
    ASSUME NEW names, Listed(names), "HardDisableAudio" \notin ToSet(names),
           NEW name, name # "HardDisableAudio",
           NEW number, number \notin 0 .. Len(names) - 1
    PROVE  Plain(And(Numbered(names), name, number))
<1> DEFINE all == And(Numbered(names), name, number)
<1>1. \A a \in DOMAIN Numbered(names) : Numbered(names)[a] # number
    BY NumberedProperties
<1>2. \A a, b \in DOMAIN all : all[a] = all[b] => a = b
    BY <1>1, NumberedInjective, AndInjective
<1>3. "HardDisableAudio" \notin DOMAIN all
    BY NumberedProperties DEF And
<1> QED BY <1>2, <1>3 DEF Plain, Flags

\* The enumerations that are the same on both sides.
LEMMA PlainEnumerations ==
    /\ Plain(Truth) /\ Plain(Address) /\ Plain(Count)
    /\ Plain(RetroDevice) /\ Plain(RetroJoypadId)
    /\ Plain(RetroLogLevel) /\ Plain(RetroMessageTarget) /\ Plain(RetroMessageType)
<1>1. Plain(Truth) /\ Plain(Address)
    BY DEF Plain, Flags, Truth, Address
<1>2. Plain(Count)
    BY PlainNumbered, SMT DEF Count, ToSet, Listed
<1>3. Plain(RetroDevice)
    BY PlainNumbered, SMT DEF RetroDevice, ToSet, Listed
<1>4. Plain(RetroJoypadId)
    <2>1. /\ Listed(RetroJoypadIds) /\ Len(RetroJoypadIds) = 16
          /\ "HardDisableAudio" \notin ToSet(RetroJoypadIds)
        BY SMT DEF RetroJoypadIds, ToSet, Listed
    <2>2. 256 \notin 0 .. Len(RetroJoypadIds) - 1
        BY <2>1
    <2>3. \A mask : mask \notin 0 .. Len(RetroJoypadIds) - 1
                        => Plain(And(Numbered(RetroJoypadIds), "Mask", mask))
        BY <2>1, PlainAnd
    <2> QED BY <2>2, <2>3 DEF RetroJoypadId
<1>5. Plain(RetroLogLevel)
    BY PlainNumbered, SMT DEF RetroLogLevel, ToSet, Listed
<1>6. Plain(RetroMessageTarget)
    BY PlainNumbered, SMT DEF RetroMessageTarget, ToSet, Listed
<1>7. Plain(RetroMessageType)
    BY PlainNumbered, SMT DEF RetroMessageType, ToSet, Listed
<1> QED BY <1>1, <1>2, <1>3, <1>4, <1>5, <1>6, <1>7

LEMMA SameRoundTrip ==
    ASSUME NEW enumeration, Plain(enumeration)
    PROVE  RoundTrip(enumeration, enumeration)
<1>1. ~Flags(enumeration)
    BY DEF Plain
<1> QED BY <1>1, PlainRoundTrip

\* The header has more pixel formats than the C# side, at the end of the list.
LEMMA PixelFormatRoundTrip == RoundTrip(RetroPixelFormat, retro_pixel_format)
<1>1. /\ Listed(RetroPixelFormats) /\ Len(RetroPixelFormats) = 3
      /\ "HardDisableAudio" \notin ToSet(RetroPixelFormats)
    BY SMT DEF RetroPixelFormats, Listed, ToSet
<1>2. /\ Listed(retro_pixel_formats) /\ Len(retro_pixel_formats) = 5
      /\ "HardDisableAudio" \notin ToSet(retro_pixel_formats)
    BY SMT DEF retro_pixel_formats, Listed, ToSet
<1>3. /\ \A i \in DOMAIN RetroPixelFormats :
            /\ i \in DOMAIN retro_pixel_formats
            /\ retro_pixel_formats[i] = RetroPixelFormats[i]
      /\ \A i \in DOMAIN retro_pixel_formats :
            \/ i \in DOMAIN RetroPixelFormats
            \/ retro_pixel_formats[i] \notin ToSet(RetroPixelFormats)
    BY SMT DEF RetroPixelFormats, retro_pixel_formats, ToSet
<1>4. Plain(RetroPixelFormat) /\ Plain(retro_pixel_format)
    <2>1. /\ IntMax \notin 0 .. Len(RetroPixelFormats) - 1
          /\ IntMax \notin 0 .. Len(retro_pixel_formats) - 1
        BY <1>1, <1>2, SMT DEF IntMax
    <2> QED BY <1>1, <1>2, <2>1, PlainAnd DEF RetroPixelFormat, retro_pixel_format
<1>5. \A name \in ToSet(RetroPixelFormats) :
          /\ name \in ToSet(retro_pixel_formats)
          /\ Numbered(retro_pixel_formats)[name] = Numbered(RetroPixelFormats)[name]
    BY <1>1, <1>2, <1>3, SamePrefix
<1>6. \A name \in DOMAIN RetroPixelFormat :
          /\ name \in DOMAIN retro_pixel_format
          /\ retro_pixel_format[name] = RetroPixelFormat[name]
    BY <1>1, <1>2, <1>5, NumberedProperties DEF RetroPixelFormat, retro_pixel_format, And
<1> QED BY <1>4, <1>6, PlainRoundTrip DEF Plain

\* The C# side has one language more than the header: Last, the number of them.
LEMMA LanguageRoundTrip == RoundTrip(retro_language, RetroLanguage)
<1>1. /\ Listed(retro_languages) /\ Len(retro_languages) = 37
      /\ "HardDisableAudio" \notin ToSet(retro_languages)
      /\ "Unknown" \notin ToSet(retro_languages)
    BY SMTT(60) DEF retro_languages, Listed, ToSet
<1>2. /\ Listed(RetroLanguages) /\ Len(RetroLanguages) = 38
      /\ "HardDisableAudio" \notin ToSet(RetroLanguages)
    BY SMTT(60) DEF RetroLanguages, Listed, ToSet
<1>3. \A i \in 1 .. 37 : RetroLanguages[i] = retro_languages[i]
    BY SMTT(60) DEF RetroLanguages, retro_languages
<1>4. RetroLanguages[38] \notin ToSet(retro_languages)
    BY SMTT(60) DEF RetroLanguages, retro_languages, ToSet
<1>5. Plain(retro_language) /\ Plain(RetroLanguage)
    <2>1. IntMax \notin 0 .. Len(RetroLanguages) - 1
        BY <1>2, SMT DEF IntMax
    <2> QED BY <1>1, <1>2, <2>1, PlainNumbered, PlainAnd DEF retro_language, RetroLanguage
<1>6. \A i : i \in DOMAIN RetroLanguages =>
                 \/ i \in DOMAIN retro_languages
                 \/ RetroLanguages[i] \notin ToSet(retro_languages)
    BY <1>1, <1>2, <1>4 DEF Listed
<1>7. \A name \in ToSet(retro_languages) :
          /\ name \in ToSet(RetroLanguages)
          /\ Numbered(RetroLanguages)[name] = Numbered(retro_languages)[name]
    <2>1. \A i \in DOMAIN retro_languages :
              i \in DOMAIN RetroLanguages /\ RetroLanguages[i] = retro_languages[i]
        BY <1>1, <1>2, <1>3 DEF Listed
    <2> QED BY <1>1, <1>2, <1>6, <2>1, SamePrefix
<1>8. \A name \in DOMAIN retro_language :
          name \in DOMAIN RetroLanguage /\ RetroLanguage[name] = retro_language[name]
    BY <1>1, <1>2, <1>7, NumberedProperties DEF retro_language, RetroLanguage, And
<1> QED BY <1>5, <1>8, PlainRoundTrip DEF Plain

\* Any set of flags is the sum of its members' bits, and can be told from it.
LEMMA FlagsRoundTrip == RoundTrip(retro_av_enable_flags, RetroAudioVideoEnableFlags)
<1> DEFINE flags == {"Video", "Audio", "FastSaveStates", "HardDisableAudio"}
<1> SUFFICES ASSUME NEW names \in SUBSET flags
             PROVE  Understood(RetroAudioVideoEnableFlags,
                               Number(retro_av_enable_flags, names)) = names
    BY DEF RoundTrip, Meanings, Flags, retro_av_enable_flags
<1> DEFINE bit(name) == IF name \in names THEN 1 ELSE 0
           n == Number(retro_av_enable_flags, names)
<1>1. n = bit("Video") + 2 * bit("Audio") + 4 * bit("FastSaveStates")
              + 8 * bit("HardDisableAudio")
    BY DEF Number, Flags, retro_av_enable_flags
<1>2. ASSUME NEW b1 \in {0, 1}, NEW b2 \in {0, 1}, NEW b3 \in {0, 1}, NEW b4 \in {0, 1},
             n = b1 + 2 * b2 + 4 * b3 + 8 * b4
      PROVE  /\ (n \div 1) % 2 = b1 /\ (n \div 2) % 2 = b2
             /\ (n \div 4) % 2 = b3 /\ (n \div 8) % 2 = b4
    <2> HIDE DEF n
    <2> QED BY <1>2
<1>3. \A name \in flags : bit(name) \in {0, 1}
    OBVIOUS
<1> HIDE DEF bit
<1>4. /\ (n \div 1) % 2 = bit("Video") /\ (n \div 2) % 2 = bit("Audio")
      /\ (n \div 4) % 2 = bit("FastSaveStates")
      /\ (n \div 8) % 2 = bit("HardDisableAudio")
    <2> HIDE DEF n
    <2> QED BY <1>1, <1>2, <1>3
<1> HIDE DEF n
<1> USE DEF bit
<1>5. \A name \in flags : name \in names <=> bit(name) = 1
    OBVIOUS
<1>6. Understood(RetroAudioVideoEnableFlags, n) = {name \in flags : bit(name) = 1}
    BY <1>4 DEF Understood, Flags, RetroAudioVideoEnableFlags
<1> QED BY <1>5, <1>6 DEF n

\* A command's number, however the header builds it.
LEMMA NumberOf ==
    /\ \A n, type : In(n, type).number = n
    /\ \A n, type : Out(n, type).number = n
    /\ \A n, type : InOut(n, type).number = n
    /\ \A n : Ignoring(n).number = n
    /\ \A n, type : OrNull(In(n, type)).number = n
    /\ \A n, type : OrNull(Out(n, type)).number = n
    /\ \A n, type : OrNull(InOut(n, type)).number = n
    /\ \A n, type : Experimental(In(n, type)).number = n + EnvironmentExperimental
    /\ \A n, type : Experimental(Out(n, type)).number = n + EnvironmentExperimental
    /\ \A n, type : Experimental(InOut(n, type)).number = n + EnvironmentExperimental
    /\ \A n : Experimental(Ignoring(n)).number = n + EnvironmentExperimental
    /\ \A n, type :
          Experimental(OrNull(Out(n, type))).number = n + EnvironmentExperimental
<1> USE DEF EnvironmentExperimental, RETRO_ENVIRONMENT_EXPERIMENTAL
<1>1. \A n, access, type : /\ Command(n, access, type).number = n
                           /\ OrNull(Command(n, access, type)).number = n
    BY DEF Command, OrNull
<1>2. \A n : Ignoring(n).number = n
    BY DEF Command, Ignoring
<1>3. \A n, access, type :
          Experimental(Command(n, access, type)).number = n + EnvironmentExperimental
    BY DEF Command, Experimental
<1>4. \A n : Experimental(Ignoring(n)).number = n + EnvironmentExperimental
    BY DEF Command, Experimental, Ignoring
<1>5. \A n, type :
          Experimental(OrNull(Out(n, type))).number = n + EnvironmentExperimental
    BY DEF Command, Experimental, Out, OrNull
<1> QED BY <1>1, <1>2, <1>3, <1>4, <1>5 DEF In, Out, InOut

\* The numbers of the commands that the core uses, without the flag.
UsedNumbers == {6, 9, 10, 11, 15, 17, 18, 27, 30, 31, 35, 39, 47, 49, 51, 59, 60, 67}

Used ==
    {SET_MESSAGE, GET_SYSTEM_DIRECTORY, SET_PIXEL_FORMAT, SET_INPUT_DESCRIPTORS,
     GET_VARIABLE, GET_VARIABLE_UPDATE, SET_SUPPORT_NO_GAME, GET_LOG_INTERFACE,
     GET_CORE_ASSETS_DIRECTORY, GET_SAVE_DIRECTORY, SET_CONTROLLER_INFO, GET_LANGUAGE,
     GET_AUDIO_VIDEO_ENABLE, GET_FASTFORWARDING, GET_INPUT_BITMASKS,
     GET_MESSAGE_INTERFACE_VERSION, SET_MESSAGE_EXT, SET_CORE_OPTIONS_V2}

LEMMA UsedCommands ==
    /\ SET_MESSAGE.number = 6
    /\ GET_SYSTEM_DIRECTORY.number = 9
    /\ SET_PIXEL_FORMAT.number = 10
    /\ SET_INPUT_DESCRIPTORS.number = 11
    /\ GET_VARIABLE.number = 15
    /\ GET_VARIABLE_UPDATE.number = 17
    /\ SET_SUPPORT_NO_GAME.number = 18
    /\ GET_LOG_INTERFACE.number = 27
    /\ GET_CORE_ASSETS_DIRECTORY.number = 30
    /\ GET_SAVE_DIRECTORY.number = 31
    /\ SET_CONTROLLER_INFO.number = 35
    /\ GET_LANGUAGE.number = 39
    /\ GET_AUDIO_VIDEO_ENABLE.number = 47 + EnvironmentExperimental
    /\ GET_FASTFORWARDING.number = 49 + EnvironmentExperimental
    /\ GET_INPUT_BITMASKS.number = 51 + EnvironmentExperimental
    /\ GET_MESSAGE_INTERFACE_VERSION.number = 59
    /\ SET_MESSAGE_EXT.number = 60
    /\ SET_CORE_OPTIONS_V2.number = 67
BY NumberOf
   DEF SET_MESSAGE, GET_SYSTEM_DIRECTORY, SET_PIXEL_FORMAT, SET_INPUT_DESCRIPTORS,
       GET_VARIABLE, GET_VARIABLE_UPDATE, SET_SUPPORT_NO_GAME, GET_LOG_INTERFACE,
       GET_CORE_ASSETS_DIRECTORY, GET_SAVE_DIRECTORY, SET_CONTROLLER_INFO, GET_LANGUAGE,
       GET_AUDIO_VIDEO_ENABLE, GET_FASTFORWARDING, GET_INPUT_BITMASKS,
       GET_MESSAGE_INTERFACE_VERSION, SET_MESSAGE_EXT, SET_CORE_OPTIONS_V2

\* The header gives them to no other command, with the flag or without it.
LEMMA NumbersUnshared ==
    \A c \in Commands :
        Masked(c.number) \in UsedNumbers => c \in Used
<1> DEFINE
    Unused1 ==
        {SET_ROTATION, GET_OVERSCAN, GET_CAN_DUPE, SHUTDOWN, SET_PERFORMANCE_LEVEL,
         SET_KEYBOARD_CALLBACK, SET_DISK_CONTROL_INTERFACE, SET_HW_RENDER,
         SET_VARIABLES, GET_LIBRETRO_PATH, SET_FRAME_TIME_CALLBACK, SET_AUDIO_CALLBACK,
         GET_RUMBLE_INTERFACE, GET_INPUT_DEVICE_CAPABILITIES, GET_SENSOR_INTERFACE,
         GET_CAMERA_INTERFACE, GET_PERF_INTERFACE, GET_LOCATION_INTERFACE,
         SET_SYSTEM_AV_INFO, SET_PROC_ADDRESS_CALLBACK, SET_SUBSYSTEM_INFO,
         SET_MEMORY_MAPS, SET_GEOMETRY, GET_USERNAME}
    Unused2 ==
        {GET_CURRENT_SOFTWARE_FRAMEBUFFER, GET_HW_RENDER_INTERFACE,
         SET_SUPPORT_ACHIEVEMENTS, SET_HW_RENDER_CONTEXT_NEGOTIATION_INTERFACE,
         SET_HW_SHARED_CONTEXT, GET_VFS_INTERFACE, GET_LED_INTERFACE,
         GET_MIDI_INTERFACE, GET_TARGET_REFRESH_RATE, GET_CORE_OPTIONS_VERSION,
         SET_CORE_OPTIONS, SET_CORE_OPTIONS_INTL, SET_CORE_OPTIONS_DISPLAY,
         GET_PREFERRED_HW_RENDER, GET_DISK_CONTROL_INTERFACE_VERSION,
         SET_DISK_CONTROL_EXT_INTERFACE, GET_INPUT_MAX_USERS,
         SET_AUDIO_BUFFER_STATUS_CALLBACK, SET_MINIMUM_AUDIO_LATENCY,
         SET_FASTFORWARDING_OVERRIDE, SET_CONTENT_INFO_OVERRIDE, GET_GAME_INFO_EXT,
         SET_CORE_OPTIONS_V2_INTL, SET_CORE_OPTIONS_UPDATE_DISPLAY_CALLBACK}
    Unused3 ==
        {SET_VARIABLE, GET_THROTTLE_STATE, GET_SAVESTATE_CONTEXT,
         GET_HW_RENDER_CONTEXT_NEGOTIATION_INTERFACE_SUPPORT, GET_JIT_CAPABLE,
         GET_MICROPHONE_INTERFACE, GET_DEVICE_POWER, SET_NETPACKET_INTERFACE,
         GET_PLAYLIST_DIRECTORY, GET_FILE_BROWSER_START_DIRECTORY,
         GET_TARGET_SAMPLE_RATE, GET_NETPLAY_CLIENT_INDEX, EXEC_MEM_ALLOC,
         EXEC_MEM_FREE, GET_AUDIO_SAMPLE_BATCH_FLOAT, GET_MEMORY_STATUS,
         SET_SERIALIZATION_QUIRKS, GET_SCREEN_10BPC_CAPABLE, GET_HDR_PAPER_WHITE_NITS,
         GET_HDR_EXPAND_GAMUT, GET_HDR_OUTPUT_MODE, GET_HDR_MAX_NITS,
         GET_VFS_AUTHORIZED_LOCATIONS}
<1> USE DEF UsedNumbers, Masked, RETRO_ENVIRONMENT_EXPERIMENTAL, EnvironmentExperimental
<1>1. \A c \in Unused1 : Masked(c.number) \notin UsedNumbers
    BY NumberOf
       DEF SET_ROTATION, GET_OVERSCAN, GET_CAN_DUPE, SHUTDOWN, SET_PERFORMANCE_LEVEL,
           SET_KEYBOARD_CALLBACK, SET_DISK_CONTROL_INTERFACE, SET_HW_RENDER,
           SET_VARIABLES, GET_LIBRETRO_PATH, SET_FRAME_TIME_CALLBACK,
           SET_AUDIO_CALLBACK, GET_RUMBLE_INTERFACE, GET_INPUT_DEVICE_CAPABILITIES,
           GET_SENSOR_INTERFACE, GET_CAMERA_INTERFACE, GET_PERF_INTERFACE,
           GET_LOCATION_INTERFACE, SET_SYSTEM_AV_INFO, SET_PROC_ADDRESS_CALLBACK,
           SET_SUBSYSTEM_INFO, SET_MEMORY_MAPS, SET_GEOMETRY, GET_USERNAME
<1>2. \A c \in Unused2 : Masked(c.number) \notin UsedNumbers
    BY NumberOf
       DEF GET_CURRENT_SOFTWARE_FRAMEBUFFER, GET_HW_RENDER_INTERFACE,
           SET_SUPPORT_ACHIEVEMENTS, SET_HW_RENDER_CONTEXT_NEGOTIATION_INTERFACE,
           SET_HW_SHARED_CONTEXT, GET_VFS_INTERFACE, GET_LED_INTERFACE,
           GET_MIDI_INTERFACE, GET_TARGET_REFRESH_RATE, GET_CORE_OPTIONS_VERSION,
           SET_CORE_OPTIONS, SET_CORE_OPTIONS_INTL, SET_CORE_OPTIONS_DISPLAY,
           GET_PREFERRED_HW_RENDER, GET_DISK_CONTROL_INTERFACE_VERSION,
           SET_DISK_CONTROL_EXT_INTERFACE, GET_INPUT_MAX_USERS,
           SET_AUDIO_BUFFER_STATUS_CALLBACK, SET_MINIMUM_AUDIO_LATENCY,
           SET_FASTFORWARDING_OVERRIDE, SET_CONTENT_INFO_OVERRIDE, GET_GAME_INFO_EXT,
           SET_CORE_OPTIONS_V2_INTL, SET_CORE_OPTIONS_UPDATE_DISPLAY_CALLBACK
<1>3. \A c \in Unused3 : Masked(c.number) \notin UsedNumbers
    BY NumberOf
       DEF SET_VARIABLE, GET_THROTTLE_STATE, GET_SAVESTATE_CONTEXT,
           GET_HW_RENDER_CONTEXT_NEGOTIATION_INTERFACE_SUPPORT, GET_JIT_CAPABLE,
           GET_MICROPHONE_INTERFACE, GET_DEVICE_POWER, SET_NETPACKET_INTERFACE,
           GET_PLAYLIST_DIRECTORY, GET_FILE_BROWSER_START_DIRECTORY,
           GET_TARGET_SAMPLE_RATE, GET_NETPLAY_CLIENT_INDEX, EXEC_MEM_ALLOC,
           EXEC_MEM_FREE, GET_AUDIO_SAMPLE_BATCH_FLOAT, GET_MEMORY_STATUS,
           SET_SERIALIZATION_QUIRKS, GET_SCREEN_10BPC_CAPABLE, GET_HDR_PAPER_WHITE_NITS,
           GET_HDR_EXPAND_GAMUT, GET_HDR_OUTPUT_MODE, GET_HDR_MAX_NITS,
           GET_VFS_AUTHORIZED_LOCATIONS
<1> HIDE DEF UsedNumbers, Masked
<1> QED BY <1>1, <1>2, <1>3 DEF Commands, Used, GET_CONTENT_DIRECTORY

\* A name's number is its command's, and no other command's.
LEMMA HandledAsNamed ==
    ASSUME NEW name \in DOMAIN Named
    PROVE  Handled(RetroEnvironmentCommand[name]) = {Named[name]}
<1>1. RetroEnvironmentCommand[name] = Named[name].number
    BY UsedCommands DEF Named, RetroEnvironmentCommand, GET_CONTENT_DIRECTORY
<1>2. Named[name] \in Commands
    BY DEF Named, Commands
<1>3. Masked(Named[name].number) \in UsedNumbers
    BY UsedCommands DEF Named, Masked, UsedNumbers, GET_CONTENT_DIRECTORY,
       EnvironmentExperimental, RETRO_ENVIRONMENT_EXPERIMENTAL
<1>4. \A c \in Commands : Masked(c.number) = Masked(Named[name].number) => c = Named[name]
    <2> SUFFICES ASSUME NEW c \in Commands, Masked(c.number) = Masked(Named[name].number)
                 PROVE  c = Named[name]
        OBVIOUS
    <2>1. c \in Used
        BY <1>3, NumbersUnshared
    <2> QED BY <2>1, UsedCommands DEF Used, Named, Masked, GET_CONTENT_DIRECTORY,
               EnvironmentExperimental, RETRO_ENVIRONMENT_EXPERIMENTAL
<1> QED BY <1>1, <1>2, <1>4 DEF Handled

\* What a side may say with a memory of these enumerations.
Means(enumerations, meaning) ==
    /\ meaning = [i \in DOMAIN enumerations |-> meaning[i]]
    /\ \A i \in DOMAIN enumerations : meaning[i] \in Meanings(enumerations[i])

\* It is what the other side understands.
LEMMA MeaningArrives ==
    ASSUME NEW spoken, NEW understood, Conveys(spoken, understood),
           NEW meaning, Means(spoken, meaning)
    PROVE  Meaning(understood, Numbers(spoken, meaning)) = meaning
<1>1. \A i \in DOMAIN spoken :
          Understood(understood[i], Numbers(spoken, meaning)[i]) = meaning[i]
    BY DEF Conveys, RoundTrip, Means, Numbers
<1>2. DOMAIN understood = DOMAIN spoken
    BY DEF Conveys
<1>3. Meaning(understood, Numbers(spoken, meaning)) = [i \in DOMAIN spoken |-> meaning[i]]
    BY <1>1, <1>2 DEF Meaning
<1> QED BY <1>3 DEF Means

\* The type of the memory that a method points at.
MemoryType ==
    [SetMessage |-> "RetroMessage", GetSystemDirectory |-> "pointer",
     SetPixelFormat |-> "int", SetInputDescriptors |-> "RetroInputDescriptor",
     GetVariable |-> "RetroVariable", GetVariableUpdate |-> "byte",
     SetSupportNoGame |-> "byte", GetLogInterface |-> "RetroLogCallback",
     GetContentDirectory |-> "pointer", GetCoreAssetsDirectory |-> "pointer",
     GetSaveDirectory |-> "pointer", SetControllerInfo |-> "RetroControllerInfo",
     GetLanguage |-> "RetroLanguage",
     GetAudioVideoEnable |-> "RetroAudioVideoEnableFlags", GetFastForwarding |-> "byte",
     GetMessageInterfaceVersion |-> "uint", SetMessageExtended |-> "RetroMessageExtended",
     SetCoreOptionsV2 |-> "RetroCoreOptionsV2"]

\* What a command's data is and who writes it, however the header builds it.
LEMMA DataOf ==
    /\ \A n, type : In(n, type).access = "in" /\ In(n, type).type = type
    /\ \A n, type : Out(n, type).access = "out" /\ Out(n, type).type = type
    /\ \A n, type : /\ OrNull(In(n, type)).access = "in"
                    /\ OrNull(In(n, type)).type = type
                    /\ OrNull(In(n, type)).orNull
    /\ \A n, type : /\ OrNull(InOut(n, type)).access = "inout"
                    /\ OrNull(InOut(n, type)).type = type
    /\ \A n, type : /\ Experimental(Out(n, type)).access = "out"
                    /\ Experimental(Out(n, type)).type = type
    /\ \A n : /\ Experimental(Ignoring(n)).access = "none"
              /\ Experimental(Ignoring(n)).orNull
    /\ \A n, type : /\ Experimental(OrNull(Out(n, type))).access = "out"
                    /\ Experimental(OrNull(Out(n, type))).type = type
BY DEF In, Out, InOut, OrNull, Ignoring, Experimental, Command

\* What a side writes as a type of its own, the other side reads as one of its.
CarriesIn(from, to) ==
    /\ to \in DOMAIN NativeTypes
    /\ DataWidth(to) <= DataWidth(from)
    /\ Conveys(ManagedTypes[from], NativeTypes[to])

CarriesOut(from, to) ==
    /\ from \in DOMAIN NativeTypes
    /\ DataWidth(from) <= DataWidth(to)
    /\ DOMAIN NativeTypes[from] = {1}
    /\ Conveys(NativeTypes[from], ManagedTypes[to])

LEMMA OneConveyed ==
    ASSUME NEW spoken, NEW understood, RoundTrip(spoken, understood)
    PROVE  Conveys(<<spoken>>, <<understood>>)
BY DEF Conveys

\* The types of what is told, and of what is answered.
LEMMA TypesTold ==
    /\ CarriesIn("int", "retro_pixel_format") /\ CarriesIn("byte", "bool")
    /\ CarriesIn("RetroInputDescriptor", "retro_input_descriptor")
    /\ CarriesIn("RetroControllerInfo", "retro_controller_info")
    /\ CarriesIn("RetroCoreOptionsV2", "retro_core_options_v2")
    /\ CarriesIn("RetroMessage", "retro_message")
    /\ CarriesIn("RetroMessageExtended", "retro_message_ext")
<1>1. Conveys(<<RetroPixelFormat>>, <<retro_pixel_format>>)
    BY PixelFormatRoundTrip, OneConveyed
<1>2. /\ Conveys(<<Truth>>, <<Truth>>) /\ Conveys(<<Address>>, <<Address>>)
      /\ RoundTrip(RetroDevice, RetroDevice)
      /\ RoundTrip(RetroJoypadId, RetroJoypadId)
      /\ RoundTrip(RetroLogLevel, RetroLogLevel)
      /\ RoundTrip(RetroMessageTarget, RetroMessageTarget)
      /\ RoundTrip(RetroMessageType, RetroMessageType)
    BY PlainEnumerations, SameRoundTrip, OneConveyed
<1>3. RETRO_DEVICE = RetroDevice /\ RETRO_DEVICE_ID_JOYPAD = RetroJoypadId
    BY DEF RETRO_DEVICE, RetroDevice, RETRO_DEVICE_ID_JOYPAD, RetroJoypadId,
           RETRO_DEVICE_IDS_JOYPAD, RetroJoypadIds
<1>4. /\ retro_log_level = RetroLogLevel /\ retro_message_target = RetroMessageTarget
      /\ retro_message_type = RetroMessageType
    BY DEF retro_log_level, RetroLogLevel, retro_message_target, RetroMessageTarget,
           retro_message_type, RetroMessageType
<1>5. Conveys(<<RetroDevice>>, <<RETRO_DEVICE>>)
    BY <1>2, <1>3, OneConveyed
<1>6. Conveys(<<RetroDevice, RetroJoypadId>>, <<RETRO_DEVICE, RETRO_DEVICE_ID_JOYPAD>>)
    BY <1>2, <1>3 DEF Conveys
<1>7. Conveys(<<RetroLogLevel, RetroMessageTarget, RetroMessageType>>,
              <<retro_log_level, retro_message_target, retro_message_type>>)
    BY <1>2, <1>4 DEF Conveys
<1> QED BY <1>1, <1>2, <1>5, <1>6, <1>7
        DEF CarriesIn, NativeTypes, ManagedTypes, DataWidth

LEMMA TypesAnswered ==
    /\ CarriesOut("bool", "byte") /\ CarriesOut("unsigned", "uint")
    /\ CarriesOut("string", "pointer")
    /\ CarriesOut("retro_language", "RetroLanguage")
    /\ CarriesOut("retro_av_enable_flags", "RetroAudioVideoEnableFlags")
    /\ CarriesOut("retro_log_callback", "RetroLogCallback")
    /\ CarriesOut("retro_variable", "RetroVariable")
<1>1. /\ Conveys(<<Truth>>, <<Truth>>) /\ Conveys(<<Address>>, <<Address>>)
      /\ Conveys(<<Count>>, <<Count>>)
    BY PlainEnumerations, SameRoundTrip, OneConveyed
<1>2. /\ Conveys(<<retro_language>>, <<RetroLanguage>>)
      /\ Conveys(<<retro_av_enable_flags>>, <<RetroAudioVideoEnableFlags>>)
    BY LanguageRoundTrip, FlagsRoundTrip, OneConveyed
<1> QED BY <1>1, <1>2 DEF CarriesOut, NativeTypes, ManagedTypes, DataWidth

\* What a method tells, the frontend reads as the method means it.
LEMMA Told ==
    ASSUME NEW name \in DOMAIN MemoryType \ Queries
    PROVE  Named[name].access = "in" /\ CarriesIn(MemoryType[name], Named[name].type)
<1>1. name \in {"SetMessage", "SetPixelFormat", "SetInputDescriptors", "SetSupportNoGame",
                "SetControllerInfo", "SetMessageExtended", "SetCoreOptionsV2"}
    BY DEF MemoryType, Queries
<1> QED BY <1>1, TypesTold, DataOf
        DEF MemoryType, Named, SET_MESSAGE, SET_PIXEL_FORMAT, SET_INPUT_DESCRIPTORS,
            SET_SUPPORT_NO_GAME, SET_CONTROLLER_INFO, SET_MESSAGE_EXT, SET_CORE_OPTIONS_V2

\* What the frontend answers, the method reads as the frontend means it.
LEMMA Asked ==
    ASSUME NEW name \in Queries
    PROVE  /\ name \in DOMAIN MemoryType
           /\ Named[name].access \in {"out", "inout"}
           /\ CarriesOut(Named[name].type, MemoryType[name])
BY TypesAnswered, DataOf
   DEF MemoryType, Queries, Named, GET_LOG_INTERFACE, GET_VARIABLE_UPDATE, GET_VARIABLE,
       GET_SYSTEM_DIRECTORY, GET_SAVE_DIRECTORY, GET_CONTENT_DIRECTORY,
       GET_CORE_ASSETS_DIRECTORY, GET_LANGUAGE, GET_AUDIO_VIDEO_ENABLE,
       GET_FASTFORWARDING, GET_MESSAGE_INTERFACE_VERSION

\* NULL goes only with the commands that have a meaning for it.
LEMMA NullTold ==
    /\ Named["GetInputBitmasks"].orNull /\ Named["GetInputBitmasks"].access = "none"
    /\ Named["SetCoreOptionsV2"].orNull /\ Named["SetCoreOptionsV2"].access = "in"
BY DataOf DEF Named, GET_INPUT_BITMASKS, SET_CORE_OPTIONS_V2

\* Memory has as many numbers as its type has enumerations.
LEMMA NumbersLength ==
    ASSUME NEW enumerations, Len(enumerations) \in Nat,
           DOMAIN enumerations = 1 .. Len(enumerations), NEW meaning
    PROVE  Len(Numbers(enumerations, meaning)) = Len(enumerations)
<1> DEFINE n == Len(enumerations)
<1>1. Numbers(enumerations, meaning)
          = [i \in 1 .. n |-> Number(enumerations[i], meaning[i])]
    BY DEF Numbers
<1>2. Len([i \in 1 .. n |-> Number(enumerations[i], meaning[i])]) = n
    OBVIOUS
<1> QED BY <1>1, <1>2

LEMMA ManagedLengths ==
    \A type \in DOMAIN ManagedTypes :
        /\ Len(ManagedTypes[type]) \in Nat
        /\ DOMAIN ManagedTypes[type] = 1 .. Len(ManagedTypes[type])
BY SMT DEF ManagedTypes

\* A call is made with memory of the type its name stands for, which says what the
\* method means; NULL goes only with the commands that have a meaning for it.
Made ==
    /\ command \in DOMAIN Named
    /\ data.null => data = Null /\ command \in {"GetInputBitmasks", "SetCoreOptionsV2"}
    /\ ~data.null =>
          /\ command \in DOMAIN MemoryType /\ data.type = MemoryType[command]
          /\ command \notin Queries =>
                /\ Means(ManagedTypes[data.type], said)
                /\ data.numbers = Numbers(ManagedTypes[data.type], said)

\* What the steps keep, with the two properties that are about what they do.
AskInv ==
    /\ askStage \in {"idle", "asked", "answered", "returned"}
    /\ accepted \in BOOLEAN /\ returned \in BOOLEAN
    /\ data = [null |-> data.null, type |-> data.type, numbers |-> data.numbers]
    /\ askStage = "idle" => data = Null
    /\ askStage \in {"idle", "asked"} => served = None /\ ~accepted
    /\ askStage = "asked" => Made
    \* An answer that was accepted is in the memory.
    /\ askStage = "answered" /\ accepted =>
          /\ command \in Queries =>
                ~data.null /\ Meaning(ManagedTypes[data.type], data.numbers) = said
          /\ command \notin Queries /\ ~data.null => heard = said
    /\ WithinTheData
    /\ HeardAsSaid

\* A call that is not a question says what its memory holds.
LEMMA TellMade ==
    ASSUME AskInv, NEW name, NEW type, NEW meaning, Tell(name, type, meaning),
           name \in DOMAIN MemoryType, type = MemoryType[name],
           Means(ManagedTypes[type], meaning)
    PROVE  AskInv'
<1>1. /\ command' = name /\ said' = meaning /\ askStage' \in {"asked", "answered"}
      /\ data' = [null |-> FALSE, type |-> type,
                  numbers |-> Numbers(ManagedTypes[type], meaning)]
      /\ UNCHANGED <<heard, served, accepted, returned>>
      /\ served = None /\ ~accepted
    BY DEF Tell, To, Invoke, AskInv
<1>2. name \in DOMAIN Named
    BY DEF Named, MemoryType
<1>3. Made'
    BY <1>1, <1>2 DEF Made
<1> QED BY <1>1, <1>3 DEF AskInv, WithinTheData, HeardAsSaid

\* A question may hold anything until it is answered.
LEMMA AskMade ==
    ASSUME AskInv, NEW name \in Queries, NEW type, NEW initially,
           Ask(name, type, initially), type = MemoryType[name]
    PROVE  AskInv'
<1>1. /\ command' = name /\ askStage' \in {"asked", "answered"}
      /\ data' = [null |-> FALSE, type |-> type,
                  numbers |-> Numbers(ManagedTypes[type], <<initially>>)]
      /\ UNCHANGED <<heard, served, accepted, returned>>
      /\ served = None /\ ~accepted
    BY DEF Ask, To, Invoke, AskInv
<1>2. name \in DOMAIN Named /\ name \in DOMAIN MemoryType
    BY DEF Named, MemoryType, Queries
<1>3. Made'
    BY <1>1, <1>2 DEF Made
<1> QED BY <1>1, <1>3 DEF AskInv, WithinTheData, HeardAsSaid

\* A call with NULL is one of the two that may be.
LEMMA NullMade ==
    ASSUME AskInv, NEW name \in {"GetInputBitmasks", "SetCoreOptionsV2"},
           Invoke(name, Null, << >>)
    PROVE  AskInv'
<1>1. /\ command' = name /\ askStage' \in {"asked", "answered"} /\ data' = Null
      /\ UNCHANGED <<heard, served, accepted, returned>>
      /\ served = None /\ ~accepted
    BY DEF Invoke, AskInv
<1>2. Made'
    BY <1>1 DEF Made, Named, Null
<1> QED BY <1>1, <1>2 DEF AskInv, WithinTheData, HeardAsSaid, Null

\* A method that makes no call tells nothing.
LEMMA RefuseMade ==
    ASSUME AskInv, NEW name, Refuse(name)
    PROVE  AskInv'
BY DEF AskInv, Refuse, WithinTheData, HeardAsSaid

\* What one enumeration can mean, as a meaning of a memory of one number.
LEMMA OneMeant ==
    ASSUME NEW enumeration, NEW names \in Meanings(enumeration)
    PROVE  Means(<<enumeration>>, <<names>>)
BY DEF Means

\* Every method makes its call so.
LEMMA CallMade == AskInv /\ Call => AskInv'
<1> SUFFICES ASSUME AskInv, Call PROVE AskInv'
    OBVIOUS
<1> USE DEF MemoryType
<1>1. CASE SetPixelFormat
    <2>1. PICK told \in Meanings(RetroPixelFormat) :
              Tell("SetPixelFormat", "int", <<told>>)
        BY <1>1 DEF SetPixelFormat
    <2>2. Means(ManagedTypes["int"], <<told>>)
        BY OneMeant DEF ManagedTypes
    <2> QED BY <2>1, <2>2, TellMade
<1>2. CASE SetSupportNoGame
    <2>1. PICK supported \in Meanings(Truth) :
              Tell("SetSupportNoGame", "byte", <<supported>>)
        BY <1>2 DEF SetSupportNoGame
    <2>2. Means(ManagedTypes["byte"], <<supported>>)
        BY OneMeant DEF ManagedTypes
    <2> QED BY <2>1, <2>2, TellMade
<1>3. CASE SetInputDescriptors
    <2>1. ASSUME NEW button \in Meanings(RetroJoypadId),
                 Tell("SetInputDescriptors", "RetroInputDescriptor",
                      <<{"Joypad"}, button>>)
          PROVE  AskInv'
        <3>1. {"Joypad"} \in Meanings(RetroDevice)
            <4>1. "Joypad" \in DOMAIN RetroDevice
                BY SMT DEF RetroDevice, Numbered, ToSet
            <4> QED BY <4>1, PlainEnumerations DEF Meanings, Plain
        <3>2. Means(<<RetroDevice, RetroJoypadId>>, <<{"Joypad"}, button>>)
            BY <3>1 DEF Means
        <3>3. Means(ManagedTypes["RetroInputDescriptor"], <<{"Joypad"}, button>>)
            BY <3>2 DEF ManagedTypes
        <3> QED BY <2>1, <3>3, TellMade
    <2> QED BY <1>3, <2>1, RefuseMade DEF SetInputDescriptors
<1>4. CASE SetControllerInfo
    <2>1. ASSUME NEW device \in Meanings(RetroDevice),
                 Tell("SetControllerInfo", "RetroControllerInfo", <<device>>)
          PROVE  AskInv'
        <3>1. Means(ManagedTypes["RetroControllerInfo"], <<device>>)
            BY OneMeant DEF ManagedTypes
        <3> QED BY <2>1, <3>1, TellMade
    <2> QED BY <1>4, <2>1, RefuseMade DEF SetControllerInfo
<1>5. CASE SupportsInputBitmasks
    BY <1>5, NullMade DEF SupportsInputBitmasks
<1>6. {"something"} \in Meanings(Address)
    BY PlainEnumerations DEF Meanings, Plain, Address
<1>7. CASE SetCoreOptionsV2
    <2>1. Means(ManagedTypes["RetroCoreOptionsV2"], <<{"something"}>>)
        BY <1>6, OneMeant DEF ManagedTypes
    <2> QED BY <1>7, <2>1, NullMade, TellMade DEF SetCoreOptionsV2
<1>8. CASE SetMessage
    <2>1. Means(ManagedTypes["RetroMessage"], <<{"something"}>>)
        BY <1>6, OneMeant DEF ManagedTypes
    <2> QED BY <1>8, <2>1, RefuseMade, TellMade DEF SetMessage
<1>9. CASE SetMessageExtended
    <2>1. ASSUME NEW logLevel \in Meanings(RetroLogLevel),
                 NEW target \in Meanings(RetroMessageTarget),
                 NEW type \in Meanings(RetroMessageType),
                 Tell("SetMessageExtended", "RetroMessageExtended",
                      <<logLevel, target, type>>)
          PROVE  AskInv'
        <3>1. Means(<<RetroLogLevel, RetroMessageTarget, RetroMessageType>>,
                    <<logLevel, target, type>>)
            BY DEF Means
        <3>2. Means(ManagedTypes["RetroMessageExtended"], <<logLevel, target, type>>)
            BY <3>1 DEF ManagedTypes
        <3> QED BY <2>1, <3>2, TellMade
    <2> QED BY <1>9, <2>1, RefuseMade DEF SetMessageExtended
<1>10. CASE GetLogInterface \/ GetVariableUpdate \/ GetLanguage \/ GetAudioVideoEnable
    BY <1>10, AskMade DEF GetLogInterface, GetVariableUpdate, GetLanguage,
                          GetAudioVideoEnable, Queries
<1>11. CASE GetVariable
    BY <1>11, AskMade, RefuseMade DEF GetVariable, Queries
<1>12. CASE GetDirectories
    BY <1>12, AskMade DEF GetDirectories, GetDirectory, Queries
<1>13. CASE GetFastForwarding \/ GetMessageInterfaceVersion
    BY <1>13, AskMade DEF GetFastForwarding, GetMessageInterfaceVersion, Queries
<1> QED BY <1>1, <1>2, <1>3, <1>4, <1>5, <1>7, <1>8, <1>9, <1>10, <1>11, <1>12, <1>13
        DEF Call

\* What the frontend makes of what it is told.
LEMMA ServeStep == AskInv /\ Serve => AskInv'
<1> SUFFICES ASSUME AskInv, Serve PROVE AskInv'
    OBVIOUS
<1>1. /\ Made /\ askStage' = "answered" /\ accepted' \in BOOLEAN
      /\ UNCHANGED <<command, data, said, returned>>
    BY DEF AskInv, Serve
<1>2. Handled(RetroEnvironmentCommand[command]) = {Named[command]}
    BY <1>1, HandledAsNamed DEF Made
<1> DEFINE c == Named[command]
<1>3. /\ c.access \in {"in", "none"} \/ data.null
      /\ served' = c
      /\ heard' = IF c.access = "in" /\ Readable(c)
                  THEN Meaning(NativeTypes[c.type], data.numbers) ELSE heard
    BY <1>2 DEF Serve
<1>4. CASE data.null
    <2>1. c.orNull /\ command \notin Queries
        BY <1>1, <1>4, NullTold DEF Made, Queries
    <2> QED BY <1>1, <1>3, <1>4, <2>1 DEF AskInv, WithinTheData, HeardAsSaid
<1>5. CASE ~data.null
    <2>1. command \in DOMAIN MemoryType \ Queries
        BY <1>1, <1>3, <1>5, Asked DEF Made
    <2>2. /\ c.access = "in" /\ CarriesIn(data.type, c.type)
          /\ Means(ManagedTypes[data.type], said)
          /\ data.numbers = Numbers(ManagedTypes[data.type], said)
        BY <1>1, <1>5, <2>1, Told DEF Made
    <2>3. Readable(c)
        <3>1. data.type \in DOMAIN ManagedTypes
            BY <1>1, <1>5, <2>1 DEF Made, MemoryType, ManagedTypes
        <3>2. Len(data.numbers) = Len(ManagedTypes[data.type])
            BY <2>2, <3>1, ManagedLengths, NumbersLength
        <3> QED BY <2>2, <3>2 DEF Readable, CarriesIn, Conveys
    <2>4. heard' = said
        BY <1>3, <2>2, <2>3, MeaningArrives DEF CarriesIn
    <2> QED BY <1>1, <1>3, <1>5, <2>1, <2>2, <2>4
            DEF AskInv, WithinTheData, HeardAsSaid, CarriesIn
<1> QED BY <1>4, <1>5

\* What the frontend answers.
LEMMA AnswerStep == AskInv /\ Answer => AskInv'
<1> SUFFICES ASSUME AskInv, Answer PROVE AskInv'
    OBVIOUS
<1>1. /\ Made /\ ~data.null /\ askStage' = "answered" /\ accepted' \in BOOLEAN
      /\ UNCHANGED <<command, heard, returned>>
    BY DEF AskInv, Answer
<1>2. Handled(RetroEnvironmentCommand[command]) = {Named[command]}
    BY <1>1, HandledAsNamed DEF Made
<1> DEFINE c == Named[command]
<1>3. PICK answer \in Meanings(NativeTypes[c.type][1]) :
          /\ c.access \in {"out", "inout"}
          /\ served' = c /\ said' = <<answer>>
          /\ data' = [data EXCEPT !.numbers = Numbers(NativeTypes[c.type], said')]
    BY <1>2 DEF Answer
<1>4. command \in Queries /\ data.type = MemoryType[command]
    BY <1>1, <1>3, Told DEF Made
<1>5. CarriesOut(c.type, data.type)
    BY <1>4, Asked
<1>6. /\ data' = [null |-> data'.null, type |-> data'.type, numbers |-> data'.numbers]
      /\ data'.null = data.null /\ data'.type = data.type
      /\ data'.numbers = Numbers(NativeTypes[c.type], said')
    BY <1>3 DEF AskInv
<1>7. Means(NativeTypes[c.type], said')
    BY <1>3, <1>5 DEF Means, CarriesOut
<1>8. Meaning(ManagedTypes[data'.type], data'.numbers) = said'
    BY <1>5, <1>6, <1>7, MeaningArrives DEF CarriesOut
<1> QED BY <1>1, <1>3, <1>4, <1>5, <1>6, <1>8
        DEF AskInv, WithinTheData, HeardAsSaid, CarriesOut

\* What a method makes of the answer.
LEMMA ReturnAnswerStep == AskInv /\ ReturnAnswer => AskInv'
<1> SUFFICES ASSUME AskInv, ReturnAnswer PROVE AskInv'
    OBVIOUS
<1>1. /\ askStage = "answered" /\ askStage' = "returned"
      /\ heard' = IF command \notin Queries THEN heard
                  ELSE IF accepted THEN Meaning(ManagedTypes[data.type], data.numbers)
                  ELSE Default(command)
      /\ returned' = (accepted /\ (command = "GetLogInterface" => heard' # <<{"null"}>>))
      /\ UNCHANGED <<frontend, command, data, said, served, accepted>>
    BY DEF ReturnAnswer
<1>2. accepted /\ ~data.null => heard' = said
    BY <1>1 DEF AskInv
<1>3. ~accepted /\ command \in Queries => heard' = Default(command)
    BY <1>1
<1>4. returned' <=> accepted /\ ~(command = "GetLogInterface" /\ heard' = <<{"null"}>>)
    BY <1>1
<1>5. HeardAsSaid'
    BY <1>1, <1>2, <1>3, <1>4 DEF HeardAsSaid, Default
<1>6. returned' \in BOOLEAN
    BY <1>1
<1> QED BY <1>1, <1>5, <1>6 DEF AskInv, WithinTheData

LEMMA AskInvStep == AskInv /\ [AskNext]_askVars => AskInv'
<1> SUFFICES ASSUME AskInv, [AskNext]_askVars PROVE AskInv'
    OBVIOUS
<1>1. CASE UnknownCommand
    BY <1>1 DEF UnknownCommand, AskInv, WithinTheData, HeardAsSaid
<1>2. CASE UNCHANGED askVars
    BY <1>2 DEF askVars, AskInv, Made, WithinTheData, HeardAsSaid
<1> QED BY <1>1, <1>2, CallMade, ServeStep, AnswerStep, ReturnAnswerStep DEF AskNext

LEMMA AskInvAlways == AskSpec => []AskInv
<1>1. AskInit => AskInv
    BY DEF AskInit, AskInv, Null, WithinTheData, HeardAsSaid
<1> QED BY <1>1, AskInvStep, PTL DEF AskSpec

\* The number a method sends is the one of the command it is named for and of no
\* other of the header's, for frontends that compare numbers and for those
\* that clear the experimental bit first (RetroEnvironmentCommand).
THEOREM AlwaysServedAsNamed == AskSpec => []ServedAsNamed
<1>1. AskInv => ServedAsNamed
    BY HandledAsNamed DEF AskInv, Made, ServedAsNamed
<1> QED BY <1>1, AskInvAlways, PTL

\* Whatever the methods are called with and the frontend answers, it touches no byte
\* past what the method points at, and NULL goes only with the two commands that
\* have a meaning for it (RetroEnvironment).
THEOREM AlwaysWithinTheData == AskSpec => []WithinTheData
<1>1. AskInv => WithinTheData
    BY DEF AskInv
<1> QED BY <1>1, AskInvAlways, PTL

\* Every format, button, device, level, language and set of flags means on the other
\* side what it means on its own, and an answer is the default of its question
\* unless the call was accepted (RetroEnvironment, LibretroConstants).
THEOREM AlwaysHeardAsSaid == AskSpec => []HeardAsSaid
<1>1. AskInv => HeardAsSaid
    BY DEF AskInv
<1> QED BY <1>1, AskInvAlways, PTL
=============================================================================
