------------------------- MODULE Chip8ReplayProofs -------------------------
(***************************************************************************)
(* What a frame of the CHIP-8 core depends on has one source, and a loaded *)
(* state replays exactly, for every content (Execute is any function), any *)
(* options, keys and machines.                                             *)
(***************************************************************************)
EXTENDS Chip8Replay, TLAPS

LEMMA ExecuteType ==
    ASSUME NEW m \in Machines, NEW q \in SUBSET Options, NEW k \in SUBSET Keys
    PROVE  Execute(m, q, k) \in Machines
BY Chip8OptionsAssumption DEF Chip8OptionsAssumption

LEMMA FreshType == Fresh \in Machines
BY Chip8OptionsAssumption DEF Chip8OptionsAssumption

----------------------------------------------------------------------------
(* One core.                                                               *)

LEMMA InitTypeOK == Init => TypeOK
BY FreshType DEF Init, TypeOK

LEMMA NextTypeOK == TypeOK /\ [Next]_vars => TypeOK'
<1> SUFFICES ASSUME TypeOK, [Next]_vars PROVE TypeOK'
    OBVIOUS
<1> USE DEF TypeOK, frontend
<1>1. CASE \E o \in Options, a \in Answers : SetOption(o, a)
    BY <1>1 DEF SetOption
<1>2. CASE Initialize
    BY <1>2 DEF Initialize, Idle
<1>3. CASE LoadContent
    BY <1>3, FreshType
    DEF LoadContent, Idle, UpdateCoreOptions, ReadOptions, Answered, ResetMachine
<1>4. CASE Reset
    BY <1>4, FreshType DEF Reset, Idle, ResetMachine
<1>5. CASE UnloadContent
    BY <1>5, FreshType DEF UnloadContent, Idle, ResetMachine
<1>6. CASE Deinitialize
    BY <1>6, FreshType DEF Deinitialize, Idle, ResetMachine
<1>7. CASE \E isJoypad \in BOOLEAN : SetControllerPortDevice(isJoypad)
    BY <1>7 DEF SetControllerPortDevice, Idle
<1>8. CASE \E s \in SavedStates : Unserialize(s)
    BY <1>8 DEF Unserialize, Idle, SavedStates
<1>9. CASE BeginFrame
    BY <1>9 DEF BeginFrame, Idle, UpdateCoreOptions, ReadOptions, Answered
<1>10. CASE \E pad \in SUBSET Buttons : UpdateKeys(pad)
    BY <1>10 DEF UpdateKeys, Pressed
<1>11. CASE RunInstructions
    BY <1>11, ExecuteType DEF RunInstructions
<1>12. CASE UNCHANGED vars
    BY <1>12 DEF vars
<1> QED
    BY <1>1, <1>2, <1>3, <1>4, <1>5, <1>6, <1>7, <1>8, <1>9, <1>10, <1>11, <1>12 DEF Next

\* Every variable of a core has its type, and frames run with content loaded.
THEOREM TypeCorrect == Spec => []TypeOK
BY InitTypeOK, NextTypeOK, PTL DEF Spec

\* Reading the options takes each answered one into the quirks.
LEMMA ReadInForce ==
    ASSUME TypeOK, ReadOptions, UNCHANGED table
    PROVE  InForce'
<1>1. Answered("on")' = Answered("on") /\ Answered("off")' = Answered("off")
    BY DEF Answered
<1>2. Answered("on") \cap Answered("off") = {}
    BY DEF Answered
<1> QED
    BY <1>1, <1>2 DEF InForce, ReadOptions

LEMMA InForceStays ==
    ASSUME InForce, UNCHANGED <<table, quirks>>
    PROVE  InForce'
BY DEF InForce, Answered

\* The quirks always have one source: the state loaded since the options were
\* last read, or the options themselves (UpdateCoreOptions, Unserialize).
THEOREM QuirksAlwaysHaveASource == Spec => []QuirksHaveASource
<1>1. Init => QuirksHaveASource
    BY DEF Init, QuirksHaveASource
<1>2. TypeOK /\ QuirksHaveASource /\ [Next]_vars => QuirksHaveASource'
  <2> SUFFICES ASSUME TypeOK, QuirksHaveASource, [Next]_vars PROVE QuirksHaveASource'
      OBVIOUS
  <2> USE DEF QuirksHaveASource, frontend
  <2>1. CASE \E o \in Options, a \in Answers : SetOption(o, a)
      BY <2>1 DEF SetOption
  <2>2. CASE Initialize
      BY <2>2 DEF Initialize
  <2>3. CASE LoadContent
      BY <2>3, ReadInForce DEF LoadContent, UpdateCoreOptions
  <2>4. CASE Reset
      BY <2>4, InForceStays DEF Reset
  <2>5. CASE UnloadContent
      BY <2>5 DEF UnloadContent
  <2>6. CASE Deinitialize
      BY <2>6 DEF Deinitialize
  <2>7. CASE \E isJoypad \in BOOLEAN : SetControllerPortDevice(isJoypad)
      BY <2>7, InForceStays DEF SetControllerPortDevice
  <2>8. CASE \E s \in SavedStates : Unserialize(s)
      BY <2>8 DEF Unserialize
  <2>9. CASE BeginFrame
    <3>1. CASE updated
        BY <2>9, <3>1, ReadInForce DEF BeginFrame, UpdateCoreOptions
    <3>2. CASE ~updated
        BY <2>9, <3>2, InForceStays DEF BeginFrame
    <3> QED
        BY <3>1, <3>2
  <2>10. CASE \E pad \in SUBSET Buttons : UpdateKeys(pad)
      BY <2>10, InForceStays DEF UpdateKeys
  <2>11. CASE RunInstructions
      BY <2>11, InForceStays DEF RunInstructions
  <2>12. CASE UNCHANGED vars
      BY <2>12, InForceStays DEF vars
  <2> QED
      BY <2>1, <2>2, <2>3, <2>4, <2>5, <2>6, <2>7, <2>8, <2>9, <2>10, <2>11, <2>12 DEF Next
<1> QED
    BY <1>1, <1>2, TypeCorrect, PTL DEF Spec

----------------------------------------------------------------------------
(* The peer: the same steps on the other variables.                        *)

LEMMA PeerInitTypeOK == Peer!Init => Peer!TypeOK
BY FreshType DEF Peer!Init, Peer!TypeOK, Peer!Answers

LEMMA PeerNextTypeOK == Peer!TypeOK /\ [Peer!Next]_peerVars => Peer!TypeOK'
<1> SUFFICES ASSUME Peer!TypeOK, [Peer!Next]_peerVars PROVE Peer!TypeOK'
    OBVIOUS
<1> USE DEF Peer!TypeOK, Peer!frontend, Peer!Answers
<1>1. CASE \E o \in Options, a \in Peer!Answers : Peer!SetOption(o, a)
    BY <1>1 DEF Peer!SetOption
<1>2. CASE Peer!Initialize
    BY <1>2 DEF Peer!Initialize, Peer!Idle
<1>3. CASE Peer!LoadContent
    BY <1>3, FreshType
    DEF Peer!LoadContent, Peer!Idle, Peer!UpdateCoreOptions, Peer!ReadOptions,
        Peer!Answered, Peer!ResetMachine
<1>4. CASE Peer!Reset
    BY <1>4, FreshType DEF Peer!Reset, Peer!Idle, Peer!ResetMachine
<1>5. CASE Peer!UnloadContent
    BY <1>5, FreshType DEF Peer!UnloadContent, Peer!Idle, Peer!ResetMachine
<1>6. CASE Peer!Deinitialize
    BY <1>6, FreshType DEF Peer!Deinitialize, Peer!Idle, Peer!ResetMachine
<1>7. CASE \E isJoypad \in BOOLEAN : Peer!SetControllerPortDevice(isJoypad)
    BY <1>7 DEF Peer!SetControllerPortDevice, Peer!Idle
<1>8. CASE \E s \in Peer!SavedStates : Peer!Unserialize(s)
    BY <1>8 DEF Peer!Unserialize, Peer!Idle, Peer!SavedStates
<1>9. CASE Peer!BeginFrame
    BY <1>9
    DEF Peer!BeginFrame, Peer!Idle, Peer!UpdateCoreOptions, Peer!ReadOptions, Peer!Answered
<1>10. CASE \E pad \in SUBSET Buttons : Peer!UpdateKeys(pad)
    BY <1>10 DEF Peer!UpdateKeys, Peer!Pressed
<1>11. CASE Peer!RunInstructions
    BY <1>11, ExecuteType DEF Peer!RunInstructions
<1>12. CASE UNCHANGED peerVars
    BY <1>12 DEF peerVars
<1> QED
    BY <1>1, <1>2, <1>3, <1>4, <1>5, <1>6, <1>7, <1>8, <1>9, <1>10, <1>11, <1>12
    DEF Peer!Next

----------------------------------------------------------------------------
(* Two cores.                                                              *)

\* A frame that both run was begun with the same device, which no frontend
\* changes within it: without that one would read the pad and the other not.
SameInputs ==
    /\ lockstep => peerLife # "cold"
    /\ peerLife # "cold" => life = "loaded"
    /\ lockstep /\ step # "idle" => joypad = peerJoypad

\* The state handed over is one between frames.
BothIdle == peerLife # "cold" /\ ~lockstep => step = "idle"

ReplayInv == ReplayTypeOK /\ ReplaysExactly /\ SameInputs /\ BothIdle

LEMMA ReplayInitInv == ReplayInit => ReplayInv
<1>1. CASE Single /\ lockstep = FALSE
  <2>1. TypeOK /\ Peer!TypeOK /\ peerLife = "cold"
      BY <1>1, InitTypeOK, PeerInitTypeOK DEF Single, Peer!Init
  <2> QED
      BY <1>1, <2>1 DEF ReplayInv, ReplayTypeOK, ReplaysExactly, SameInputs, BothIdle
<1>2. CASE AnyMoment /\ Peer!AnyMoment /\ lockstep = FALSE
  <2>1. TypeOK /\ Peer!TypeOK
      BY <1>2 DEF AnyMoment, Peer!AnyMoment, TypeOK, Peer!TypeOK, Answers, Peer!Answers
  <2> QED
      BY <1>2, <2>1
      DEF ReplayInv, ReplayTypeOK, ReplaysExactly, SameInputs, BothIdle, AnyMoment, Peer!AnyMoment
<1> QED
    BY <1>1, <1>2 DEF ReplayInit

LEMMA HandedOver ==
    ASSUME ReplayInv, HandOver
    PROVE  ReplayInv'
<1>1. TypeOK'
    BY NextTypeOK DEF ReplayInv, ReplayTypeOK, HandOver
<1>2. Serialized \in Peer!SavedStates
    BY DEF ReplayInv, ReplayTypeOK, TypeOK, Serialized, Peer!SavedStates
<1>3. Peer!TypeOK'
    BY <1>2, PeerNextTypeOK DEF ReplayInv, ReplayTypeOK, HandOver, Peer!Next
<1>4. machine' = peerMachine' /\ quirks' = peerQuirks' /\ step' = "idle" /\ peerStep' = "idle"
    BY DEF HandOver, Peer!Unserialize, Peer!Idle, Serialized, vars, BothIdle, ReplayInv
<1>5. life' = "loaded" /\ peerLife' = "loaded"
    BY DEF HandOver, Peer!Unserialize, Peer!Idle, vars, ReplayInv, SameInputs
<1> QED
    BY <1>1, <1>3, <1>4, <1>5
    DEF HandOver, ReplayInv, ReplayTypeOK, ReplaysExactly, SameInputs, BothIdle

\* Equal quirks under equal answers are equal after reading them.
LEMMA SameReading ==
    ASSUME quirks = peerQuirks, table = peerTable, ReadOptions, Peer!ReadOptions
    PROVE  quirks' = peerQuirks'
BY DEF ReadOptions, Peer!ReadOptions, Answered, Peer!Answered

LEMMA PlayedTogether ==
    ASSUME ReplayInv, Together
    PROVE  ReplayInv'
<1> USE DEF ReplayInv, ReplayTypeOK
<1>1. TypeOK'
    BY NextTypeOK DEF Together, Next
<1>2. Peer!TypeOK'
    BY PeerNextTypeOK DEF Together, Peer!Next, SavedStates, Peer!SavedStates
<1>3. lockstep /\ lockstep'
    BY DEF Together
<1> DEFINE Same ==
        /\ machine = peerMachine /\ quirks = peerQuirks
        /\ step = "executing" => keys = peerKeys
        /\ step # "idle" => joypad = peerJoypad
        /\ life = "loaded" /\ peerLife = "loaded" /\ step = peerStep
<1>4. Same
    BY <1>3 DEF ReplaysExactly, SameInputs, BothIdle
<1>5. Same'
  <2>1. CASE SameFrontend /\ BeginFrame /\ Peer!BeginFrame
    <3>1. quirks' = peerQuirks'
      <4>1. CASE updated
          BY <2>1, <4>1, <1>4, SameReading
          DEF SameFrontend, BeginFrame, Peer!BeginFrame, UpdateCoreOptions, Peer!UpdateCoreOptions
      <4>2. CASE ~updated
          BY <2>1, <4>2, <1>4 DEF SameFrontend, BeginFrame, Peer!BeginFrame
      <4> QED
          BY <4>1, <4>2
    <3> QED
        BY <2>1, <3>1, <1>4 DEF SameFrontend, BeginFrame, Peer!BeginFrame, Idle
  <2>2. CASE \E pad \in SUBSET Buttons : UpdateKeys(pad) /\ Peer!UpdateKeys(pad)
      BY <2>2, <1>4 DEF UpdateKeys, Peer!UpdateKeys, Pressed, Peer!Pressed
  <2>3. CASE RunInstructions /\ Peer!RunInstructions
      BY <2>3, <1>4 DEF RunInstructions, Peer!RunInstructions
  <2>4. CASE Reset /\ Peer!Reset
      BY <2>4, <1>4 DEF Reset, Peer!Reset, ResetMachine, Peer!ResetMachine, Idle
  <2>5. CASE \E s \in SavedStates : Unserialize(s) /\ Peer!Unserialize(s)
      BY <2>5, <1>4 DEF Unserialize, Peer!Unserialize, Idle
  <2> QED
      BY <2>1, <2>2, <2>3, <2>4, <2>5 DEF Together
<1> QED
    BY <1>1, <1>2, <1>3, <1>5 DEF ReplaysExactly, SameInputs, BothIdle

\* A change of options, or of the device between frames, touches nothing that
\* the cores are compared by.
LEMMA FrontendChanged ==
    ASSUME ReplayInv, OneFrontend
    PROVE  ReplayInv'
<1> USE DEF ReplayInv, ReplayTypeOK
<1>1. lockstep /\ lockstep'
    BY DEF OneFrontend
<1>2. TypeOK'
    BY NextTypeOK DEF OneFrontend, Next
<1>3. Peer!TypeOK'
    BY PeerNextTypeOK DEF OneFrontend, Peer!Next, Answers, Peer!Answers
<1>4. UNCHANGED <<life, quirks, keys, machine, step>>
    BY DEF OneFrontend, SetOption, SetControllerPortDevice, vars
<1>5. UNCHANGED <<peerLife, peerQuirks, peerKeys, peerMachine, peerStep>>
    BY DEF OneFrontend, Peer!SetOption, Peer!SetControllerPortDevice, peerVars
<1>6. step # "idle" => UNCHANGED <<joypad, peerJoypad>>
    BY <1>1 DEF OneFrontend, SetOption, SetControllerPortDevice, Idle, vars,
        Peer!SetOption, Peer!SetControllerPortDevice, Peer!Idle, peerVars
<1> QED
    BY <1>1, <1>2, <1>3, <1>4, <1>5, <1>6 DEF ReplaysExactly, SameInputs, BothIdle

LEMMA ReplayNextInv == ReplayInv /\ [ReplayNext]_replayVars => ReplayInv'
<1> SUFFICES ASSUME ReplayInv, [ReplayNext]_replayVars PROVE ReplayInv'
    OBVIOUS
<1>1. CASE Alone
  <2>1. TypeOK'
      BY <1>1, NextTypeOK DEF Alone, ReplayInv, ReplayTypeOK
  <2>2. Peer!TypeOK'
      BY <1>1, PeerNextTypeOK DEF Alone, ReplayInv, ReplayTypeOK
  <2>3. lockstep' = lockstep /\ peerLife = "cold" /\ peerLife' = "cold"
      BY <1>1 DEF Alone, peerVars
  <2>4. lockstep = FALSE /\ lockstep' = FALSE
      BY <2>3 DEF ReplayInv, ReplayTypeOK, SameInputs
  <2> QED
      BY <2>1, <2>2, <2>3, <2>4 DEF ReplayInv, ReplayTypeOK, ReplaysExactly, SameInputs, BothIdle
<1>2. CASE HandOver
    BY <1>2, HandedOver
<1>3. CASE Together
    BY <1>3, PlayedTogether
<1>4. CASE OneFrontend
    BY <1>4, FrontendChanged
<1>5. CASE UNCHANGED replayVars
  <2>1. UNCHANGED <<vars, peerVars, lockstep>>
      BY <1>5 DEF replayVars
  <2>2. TypeOK' /\ Peer!TypeOK'
      BY <2>1, NextTypeOK, PeerNextTypeOK DEF ReplayInv, ReplayTypeOK
  <2> QED
      BY <2>1, <2>2
      DEF ReplayInv, ReplayTypeOK, ReplaysExactly, SameInputs, BothIdle, vars, frontend, peerVars
<1> QED
    BY <1>1, <1>2, <1>3, <1>4, <1>5 DEF ReplayNext

\* Both cores have their types, and cores in lockstep are at the same point of
\* the same frame.
THEOREM ReplayTypeCorrect == ReplaySpec => []ReplayTypeOK
<1>1. ReplayInv => ReplayTypeOK
    BY DEF ReplayInv
<1> QED
    BY <1>1, ReplayInitInv, ReplayNextInv, PTL DEF ReplaySpec

\* A core that loads the state of another plays on exactly as the other does,
\* whatever either held pressed, had read or was configured to, and however the
\* frontends differ and change, as long as no frame begins while the device or an
\* announced change of the options differs (Serialize, Unserialize, RunFrame).
THEOREM AlwaysReplaysExactly == ReplaySpec => []ReplaysExactly
<1>1. ReplayInv => ReplaysExactly
    BY DEF ReplayInv
<1> QED
    BY <1>1, ReplayInitInv, ReplayNextInv, PTL DEF ReplaySpec
=============================================================================
