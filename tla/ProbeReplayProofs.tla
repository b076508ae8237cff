------------------------- MODULE ProbeReplayProofs -------------------------
(***************************************************************************)
(* Saved states, options, sessions and replay of the probe core, for       *)
(* pictures, turns and counters of every size.                             *)
(*                                                                         *)
(* That a state the core reaches is one it takes back needs the loop over  *)
(* the samples of a batch: each sample leaves the phase within a turn, so  *)
(* the loop's function exists and none of its values leaves it.            *)
(***************************************************************************)
EXTENDS ProbeReplay, NumberFacts

----------------------------------------------------------------------------
(* One core.                                                               *)

\* The sizes are positive, a box fits the picture and a step a turn.
LEMMA Sizes ==
    /\ Width \in Nat /\ BoxWidth \in Nat /\ CursorStep \in Nat /\ AudioFrames \in Nat
    /\ Tau \in Nat \ {0} /\ PhaseStep \in Nat
    /\ MaximumCursor \in Nat /\ PhaseStep < Tau
BY ProbeAssumption DEF MaximumCursor

\* One sample leaves the phase within a turn (GenerateAudio).
LEMMA AdvanceInTurn ==
    ASSUME NEW phase \in 0 .. Tau - 1 PROVE Advance(phase) \in 0 .. Tau - 1
BY Sizes DEF Advance

\* A batch leaves the phase within a turn, however many samples it has.
LEMMA BatchInTurn ==
    ASSUME NEW phase \in 0 .. Tau - 1 PROVE PhaseAfterBatch(phase) \in 0 .. Tau - 1
<1> DEFINE Turn == 0 .. Tau - 1
           step == [sample \in 1 .. AudioFrames |-> [x \in Turn |-> Advance(x)]]
           Body(after) == [sample \in 0 .. AudioFrames |->
               IF sample = 0 THEN phase ELSE Advance(after[sample - 1])]
<1>1. \A sample \in 1 .. AudioFrames : \A x \in Turn :
          step[sample][x] = Advance(x) /\ step[sample][x] \in Turn
    BY AdvanceInTurn
<1>2. \A sample \in 0 .. AudioFrames : sample # 0 =>
          sample \in 1 .. AudioFrames /\ sample - 1 \in 0 .. AudioFrames
    BY Sizes
<1>3. PICK f : /\ Iterates(f, AudioFrames, phase, step)
               /\ \A sample \in 0 .. AudioFrames : f[sample] \in Turn
    <2> HIDE DEF step, Turn
    <2>1. phase \in Turn
        BY DEF Turn
    <2> QED BY <1>1, <2>1, Sizes, Iteration
<1>4. f = Body(f)
    <2> HIDE DEF step, Turn
    <2>1. \A sample \in 0 .. AudioFrames :
              sample # 0 => step[sample][f[sample - 1]] = Advance(f[sample - 1])
        BY <1>1, <1>2, <1>3
    <2> QED BY <1>3, <2>1 DEF Iterates
<1> DEFINE after == CHOOSE g : g = Body(g)
<1>5. after = Body(after)
    <2> HIDE DEF Body
    <2> QED BY <1>4
<1>6. PhaseAfterBatch(phase) = after[AudioFrames]
    BY DEF PhaseAfterBatch
<1> HIDE DEF after
<1>7. \A sample \in 0 .. AudioFrames :
          after[sample] = IF sample = 0 THEN phase ELSE Advance(after[sample - 1])
    BY <1>5
<1>8. \A sample \in 0 .. AudioFrames : after[sample] \in Turn
    <2>1. after[0] \in Turn
        BY <1>7, Sizes
    <2>2. ASSUME NEW sample \in 1 .. AudioFrames, after[sample - 1] \in Turn
          PROVE  after[sample] \in Turn
        <3>1. after[sample] = Advance(after[sample - 1])
            BY <1>7, Sizes
        <3> QED BY <2>2, <3>1, AdvanceInTurn
    <2> HIDE DEF Turn
    <2> QED BY <2>1, <2>2, Sizes, HandedOn
<1> QED BY <1>6, <1>8, Sizes

\* However the pad is held, the box stays in the picture (RunFrame).
LEMMA MovedInPicture ==
    ASSUME NEW pad, cursorX \in 0 .. MaximumCursor PROVE Moved(pad) \in 0 .. MaximumCursor
<1>1. MovedLeft(pad) \in 0 .. MaximumCursor
    BY Sizes DEF MovedLeft, Larger
<1> QED
    BY <1>1, Sizes DEF Moved, Smaller

\* The core saves no state it would refuse: after any frames, resets and loaded
\* states its box is in the picture and its phase within one turn (Unserialize,
\* RunFrame, GenerateAudio).
THEOREM ReachableStatesAccepted == Spec => []RuntimeStateAccepted
<1> DEFINE Kept == cursorX \in 0 .. MaximumCursor /\ tonePhase \in 0 .. Tau - 1
           Inv == life = "loaded" => Kept
<1>1. Init => Inv
    BY DEF Init
<1>2. Inv /\ [Next]_vars => Inv'
  <2> SUFFICES ASSUME Inv, [Next]_vars, life' = "loaded" PROVE Kept'
      OBVIOUS
  <2>1. CASE UNCHANGED <<life, cursorX, tonePhase>>
      BY <2>1
  <2>2. CASE ResetState
    <3>1. MaximumCursor \div 2 \in 0 .. MaximumCursor
        BY Sizes
    <3> QED
        BY <2>2, <3>1, Sizes DEF ResetState
  <2>3. ASSUME NEW s \in OfferedStates, Unserialize(s) PROVE Kept'
    <3>1. s.cursorX \in Int /\ s.tonePhase \in Int
        BY Sizes DEF OfferedStates
    <3> QED
        BY <2>3, <3>1, Sizes DEF Unserialize, Accepts
  <2>4. ASSUME NEW pad, RunFrame(pad) PROVE Kept'
    <3>1. Kept
        BY <2>4 DEF RunFrame
    <3>2. cursorX' \in 0 .. MaximumCursor
        BY <2>4, <3>1, MovedInPicture DEF RunFrame
    <3>3. tonePhase' = PhaseAfterBatch(tonePhase) \/ tonePhase' = tonePhase
        BY <2>4 DEF RunFrame, GenerateAudio
    <3> QED
        BY <3>1, <3>2, <3>3, BatchInTurn
  <2>5. ASSUME \/ \E o \in Options, a \in Answers : SetOption(o, a)
               \/ \E byte \in 0 .. ByteModulus - 1 : WriteSaveRam(byte)
               \/ \E isJoypad \in BOOLEAN : SetControllerPortDevice(isJoypad)
               \/ UNCHANGED vars
        PROVE  UNCHANGED <<life, cursorX, tonePhase>>
      BY <2>5 DEF SetOption, WriteSaveRam, SetControllerPortDevice, vars, state
  <2>6. ASSUME \E version \in {0, 1} : Initialize(version) PROVE FALSE
      BY <2>6 DEF Initialize
  <2>7. ASSUME LoadContent \/ Reset \/ UnloadContent \/ Deinitialize
        PROVE  ResetState
      BY <2>7 DEF LoadContent, Reset, UnloadContent, Deinitialize
  <2> QED
      BY <2>1, <2>2, <2>3, <2>4, <2>5, <2>6, <2>7 DEF Next
<1>3. Inv => RuntimeStateAccepted
    BY Sizes DEF RuntimeStateAccepted, Accepts, Serialized
<1> QED
    BY <1>1, <1>2, <1>3, PTL DEF Spec

\* The frontend's options, each one in force once read, are never taken back by
\* a reset or a loaded state (UpdateCoreOptions).
THEOREM OptionsAlwaysInForce == Spec => []OptionsInForce
<1>1. Init => OptionsInForce
    BY DEF Init, OptionsInForce
<1>2. OptionsInForce /\ [Next]_vars => OptionsInForce'
  <2> SUFFICES ASSUME OptionsInForce, [Next]_vars PROVE OptionsInForce'
      OBVIOUS
  <2> USE DEF OptionsInForce, ReadOption, frontend, options
  <2>1. CASE \E o \in Options, a \in Answers : SetOption(o, a)
      BY <2>1 DEF SetOption
  <2>2. CASE \E byte \in 0 .. ByteModulus - 1 : WriteSaveRam(byte)
      BY <2>2 DEF WriteSaveRam
  <2>3. CASE \E version \in {0, 1} : Initialize(version)
      BY <2>3 DEF Initialize
  <2>4. CASE LoadContent
      BY <2>4 DEF LoadContent, UpdateCoreOptions
  <2>5. CASE Reset
      BY <2>5 DEF Reset
  <2>6. CASE UnloadContent
      BY <2>6 DEF UnloadContent
  <2>7. CASE Deinitialize
      BY <2>7 DEF Deinitialize
  <2>8. CASE \E isJoypad \in BOOLEAN : SetControllerPortDevice(isJoypad)
      BY <2>8 DEF SetControllerPortDevice
  <2>9. CASE \E s \in OfferedStates : Unserialize(s)
      BY <2>9 DEF Unserialize
  <2>10. CASE \E pad \in Pads : RunFrame(pad)
    <3>1. CASE updated
        BY <2>10, <3>1 DEF RunFrame, ReadIfUpdated, UpdateCoreOptions
    <3>2. CASE ~updated
        BY <2>10, <3>2 DEF RunFrame, ReadIfUpdated
    <3> QED
        BY <3>1, <3>2
  <2>11. CASE UNCHANGED vars
      BY <2>11 DEF vars
  <2> QED
      BY <2>1, <2>2, <2>3, <2>4, <2>5, <2>6, <2>7, <2>8, <2>9, <2>10, <2>11 DEF Next
<1> QED
    BY <1>1, <1>2, PTL DEF Spec

\* No content leaves save memory, a frame count, a tone, a picture or a cursor
\* moved by its pad behind, and no frontend its options, device or message
\* version (UnloadContent, Deinitialize).
THEOREM SessionsStartClean == Spec => []NothingLeftBehind
<1>1. Init => NothingLeftBehind
    BY DEF Init, NothingLeftBehind
<1>2. NothingLeftBehind /\ [Next]_vars => NothingLeftBehind'
  <2> SUFFICES ASSUME NothingLeftBehind, [Next]_vars PROVE NothingLeftBehind'
      OBVIOUS
  <2> USE DEF NothingLeftBehind, options, state, outputs, MaximumCursor
  <2>1. CASE \E o \in Options, a \in Answers : SetOption(o, a)
      BY <2>1 DEF SetOption
  <2>2. CASE \E byte \in 0 .. ByteModulus - 1 : WriteSaveRam(byte)
      BY <2>2 DEF WriteSaveRam
  <2>3. CASE \E version \in {0, 1} : Initialize(version)
      BY <2>3 DEF Initialize
  <2>4. CASE LoadContent
      BY <2>4 DEF LoadContent
  <2>5. CASE Reset
      BY <2>5 DEF Reset
  <2>6. CASE UnloadContent
      BY <2>6 DEF UnloadContent, ResetState
  <2>7. CASE Deinitialize
      BY <2>7 DEF Deinitialize, ResetState
  <2>8. CASE \E isJoypad \in BOOLEAN : SetControllerPortDevice(isJoypad)
      BY <2>8 DEF SetControllerPortDevice
  <2>9. CASE \E s \in OfferedStates : Unserialize(s)
      BY <2>9 DEF Unserialize
  <2>10. CASE \E pad \in Pads : RunFrame(pad)
      BY <2>10 DEF RunFrame
  <2>11. CASE UNCHANGED vars
      BY <2>11 DEF vars
  <2> QED
      BY <2>1, <2>2, <2>3, <2>4, <2>5, <2>6, <2>7, <2>8, <2>9, <2>10, <2>11 DEF Next
<1> QED
    BY <1>1, <1>2, PTL DEF Spec

----------------------------------------------------------------------------
(* Two cores.                                                              *)

\* After the hand-over both cores have the same state and outputs; the options
\* and the device, which no state holds, agreed before it already.
SameCores ==
    /\ frameNumber = peerFrameNumber /\ tonePhase = peerTonePhase
    /\ cursorX = peerCursorX /\ saveRam = peerSaveRam
    /\ video = peerVideo /\ audio = peerAudio

ReplayInv ==
    /\ peerLife # "cold" => SameFrontend /\ video = peerVideo /\ audio = peerAudio
    /\ lockstep => peerLife # "cold" /\ SameCores

LEMMA FramesTogether ==
    ASSUME SameFrontend, SameCores, NEW pad, RunFrame(pad), Peer!RunFrame(pad)
    PROVE  SameFrontend' /\ SameCores'
<1> USE DEF SameFrontend, SameCores
<1> DEFINE input == IF joypad THEN pad ELSE {}
           peerInput == IF peerJoypad THEN pad ELSE {}
<1>1. input = peerInput
    OBVIOUS
<1>2. toneEnabled' = peerToneEnabled' /\ monochrome' = peerMonochrome'
    BY DEF RunFrame, Peer!RunFrame, ReadIfUpdated, Peer!ReadIfUpdated, UpdateCoreOptions,
       Peer!UpdateCoreOptions, ReadOption, Peer!ReadOption, options, Peer!options
<1>3. cursorX' = peerCursorX'
  <2>1. cursorX' = Moved(input)
      BY DEF RunFrame
  <2>2. peerCursorX' = Peer!Moved(peerInput)
      BY DEF Peer!RunFrame
  <2>3. Moved(input) = Peer!Moved(peerInput)
      BY <1>1 DEF Moved, Peer!Moved, MovedLeft, Peer!MovedLeft, Larger, Peer!Larger,
         Smaller, Peer!Smaller, MaximumCursor, Peer!MaximumCursor
  <2> QED
      BY <2>1, <2>2, <2>3
<1>4. video' = peerVideo'
    BY <1>2, <1>3 DEF RunFrame, Peer!RunFrame, Render, Peer!Render
<1>5. PhaseAfterBatch(tonePhase) = Peer!PhaseAfterBatch(peerTonePhase)
  <2>1. PhaseAfterBatch(peerTonePhase) = Peer!PhaseAfterBatch(peerTonePhase)
      BY ONLY Zenon DEF PhaseAfterBatch, Peer!PhaseAfterBatch, Advance, Peer!Advance
  <2>2. tonePhase = peerTonePhase
      OBVIOUS
  <2> QED
      BY ONLY <2>1, <2>2, Zenon
<1>6. audio' = peerAudio' /\ tonePhase' = peerTonePhase'
  <2> DEFINE loud == "A" \in input
  <2>1. GenerateAudio(loud)
      BY DEF RunFrame
  <2>2. Peer!GenerateAudio(loud)
      BY <1>1, Zenon DEF Peer!RunFrame
  <2>3. tonePhase = peerTonePhase
      OBVIOUS
  <2> HIDE DEF input, peerInput, loud
  <2>4. CASE toneEnabled'
    <3>1. peerToneEnabled'
        BY ONLY <2>4, <1>2, Zenon
    <3>2. /\ audio' = [heard |-> TRUE, loud |-> loud, phase |-> tonePhase]
          /\ tonePhase' = PhaseAfterBatch(tonePhase)
        BY ONLY <2>1, <2>4, Zenon DEF GenerateAudio
    <3>3. /\ peerAudio' = [heard |-> TRUE, loud |-> loud, phase |-> peerTonePhase]
          /\ peerTonePhase' = Peer!PhaseAfterBatch(peerTonePhase)
        BY ONLY <2>2, <3>1, Zenon DEF Peer!GenerateAudio
    <3> QED
        BY ONLY <3>2, <3>3, <2>3, <1>5, Zenon
  <2>5. CASE ~toneEnabled'
    <3>1. ~peerToneEnabled'
        BY ONLY <2>5, <1>2, Zenon
    <3>2. audio' = Silence /\ tonePhase' = tonePhase
        BY ONLY <2>1, <2>5, Zenon DEF GenerateAudio
    <3>3. peerAudio' = Silence /\ peerTonePhase' = peerTonePhase
        BY ONLY <2>2, <3>1, Zenon DEF Peer!GenerateAudio, Peer!Silence, Silence
    <3> QED
        BY ONLY <3>2, <3>3, <2>3, Zenon
  <2> QED
      BY ONLY <2>4, <2>5
<1>7. saveRam' = peerSaveRam' /\ frameNumber' = peerFrameNumber'
    BY DEF RunFrame, Peer!RunFrame
<1>8. table' = peerTable' /\ updated' = peerUpdated' /\ joypad' = peerJoypad'
    BY DEF RunFrame, Peer!RunFrame
<1> QED
    BY <1>2, <1>3, <1>4, <1>6, <1>7, <1>8

LEMMA ReplayNextInv == ReplayInv /\ [ReplayNext]_replayVars => ReplayInv'
<1> SUFFICES ASSUME ReplayInv, [ReplayNext]_replayVars PROVE ReplayInv'
    OBVIOUS
<1>1. CASE HandOver
  <2>0. peerLife = "loaded" /\ peerLife' = "loaded"
      BY <1>1 DEF HandOver, Peer!Unserialize
  <2>1. SameCores'
      BY <1>1, <2>0 DEF HandOver, Peer!Unserialize, Serialized, ReplayInv, SameCores,
         vars, state, outputs, Peer!outputs
  <2>2. SameFrontend'
      BY <1>1, <2>0 DEF HandOver, Peer!Unserialize, ReplayInv, SameFrontend, vars,
         frontend, Peer!frontend, options, Peer!options
  <2> QED
      BY <2>0, <2>1, <2>2 DEF ReplayInv, SameCores
<1>2. CASE Together
  <2>0. peerLife' # "cold"
      BY <1>2 DEF Together, ReplayInv, Peer!RunFrame, Peer!SetOption, Peer!WriteSaveRam,
         Peer!Reset, Peer!Unserialize, Peer!SetControllerPortDevice
  <2> SUFFICES SameFrontend' /\ SameCores'
      BY <2>0 DEF ReplayInv, SameCores
  <2>1. SameFrontend /\ SameCores
      BY <1>2 DEF Together, ReplayInv
  <2> USE DEF SameFrontend, SameCores, frontend, Peer!frontend, state, Peer!state,
          options, Peer!options, outputs, Peer!outputs
  <2>2. CASE \E pad \in Pads : RunFrame(pad) /\ Peer!RunFrame(pad)
      BY ONLY <2>1, <2>2, FramesTogether
  <2>3. CASE \E o \in Options, a \in Answers : SetOption(o, a) /\ Peer!SetOption(o, a)
      BY <2>1, <2>3 DEF SetOption, Peer!SetOption
  <2>4. CASE \E byte \in 0 .. ByteModulus - 1 : WriteSaveRam(byte) /\ Peer!WriteSaveRam(byte)
      BY <2>1, <2>4 DEF WriteSaveRam, Peer!WriteSaveRam
  <2>5. CASE Reset /\ Peer!Reset
      BY <2>1, <2>5 DEF Reset, Peer!Reset, ResetState, Peer!ResetState, MaximumCursor,
         Peer!MaximumCursor, Blank, Peer!Blank, Silence, Peer!Silence
  <2>6. CASE \E s \in OfferedStates : Unserialize(s) /\ Peer!Unserialize(s)
      BY <2>1, <2>6 DEF Unserialize, Peer!Unserialize
  <2>7. CASE \E isJoypad \in BOOLEAN :
                 SetControllerPortDevice(isJoypad) /\ Peer!SetControllerPortDevice(isJoypad)
      BY <2>1, <2>7 DEF SetControllerPortDevice, Peer!SetControllerPortDevice
  <2> QED
      BY <1>2, <2>2, <2>3, <2>4, <2>5, <2>6, <2>7 DEF Together
<1>3. CASE UNCHANGED replayVars
    BY <1>3 DEF replayVars, vars, peerVars, ReplayInv, SameFrontend, SameCores,
       frontend, state, options, outputs
<1>4. CASE Alone
    BY <1>4 DEF Alone, ReplayInv, peerVars
<1> QED
    BY <1>1, <1>2, <1>3, <1>4 DEF ReplayNext

\* A probe that loads the state of another gives the same pictures, audio and
\* states as the other from then on (Serialize, Unserialize, RunFrame).
THEOREM AlwaysReplaysExactly == ReplaySpec => []ReplaysExactly
<1>1. ReplayInit => ReplayInv
    BY DEF ReplayInit, Single, Peer!Init, AnyMoment, Peer!AnyMoment, ReplayInv, Blank, Peer!Blank,
       Silence, Peer!Silence
<1>2. ReplayInv => ReplaysExactly
    BY DEF ReplayInv, SameCores, ReplaysExactly, Serialized, Peer!Serialized
<1> QED
    BY <1>1, <1>2, ReplayNextInv, PTL DEF ReplaySpec
=============================================================================
