----------------------------- MODULE ProbeCore -----------------------------
(***************************************************************************)
(* The probe core: a cursor the pad moves over a scrolling picture, a tone *)
(* whose phase runs on from frame to frame, a region of save memory, two   *)
(* options and a saved state of it all except the options.                 *)
(*                                                                         *)
(* A picture is what decides its pixels (palette, scroll, cursor), a batch *)
(* of audio its amplitude and the phase it starts at, or silence.  Phases  *)
(* are counted in steps of which Tau make a turn.  The save memory is its  *)
(* first byte, which every frame increments and the frontend may set.      *)
(***************************************************************************)
EXTENDS Integers

CONSTANTS
    Width, BoxWidth, CursorStep,     \* 160, 12 and 2
    FrameModulus, ByteModulus,       \* 2^32 and 256
    Tau, PhaseStep, AudioFrames      \* a turn, a sample's share of it, 800

Options == {"tone", "palette"}
Answers == {"on", "off", "none"}  \* palette: monochrome, color; "none": neither

ASSUME ProbeAssumption ==
    /\ {Width, BoxWidth, CursorStep, FrameModulus, ByteModulus, Tau, PhaseStep,
        AudioFrames} \subseteq Nat \ {0}
    /\ BoxWidth < Width
    /\ PhaseStep < Tau

VARIABLES
    table, updated,  \* the frontend's options, and whether to announce a change
    life,            \* CoreContract's phase
    frameNumber, tonePhase, cursorX, saveRam, toneEnabled, monochrome,
    joypad,          \* _controllerDevice is RetroDevice.Joypad
    messageVersion,  \* _messageInterfaceVersion
    video, audio     \* what the last frame submitted

frontend == <<table, updated>>
options == <<toneEnabled, monochrome>>
state == <<frameNumber, tonePhase, cursorX, saveRam>>
outputs == <<video, audio>>
vars == <<frontend, life, state, options, joypad, messageVersion, outputs>>

Blank == [shown |-> FALSE]
Silence == [heard |-> FALSE]
MaximumCursor == Width - BoxWidth

----------------------------------------------------------------------------
(* The frontend.                                                           *)

SetOption(option, answer) ==
    /\ answer # table[option]
    /\ table' = [table EXCEPT ![option] = answer]
    /\ updated' = TRUE
    /\ UNCHANGED <<life, state, options, joypad, messageVersion, outputs>>

\* Through the pointer of retro_get_memory_data, while content is loaded.
WriteSaveRam(byte) ==
    /\ life = "loaded"
    /\ saveRam' = byte
    /\ UNCHANGED <<frontend, life, frameNumber, tonePhase, cursorX, options, joypad,
                   messageVersion, outputs>>

----------------------------------------------------------------------------
(* Sessions.                                                               *)

\* An answer that is missing or neither value leaves the option as it is.
ReadOption(option, fallback) ==
    IF table[option] = "none" THEN fallback ELSE table[option] = "on"

UpdateCoreOptions ==
    /\ toneEnabled' = ReadOption("tone", toneEnabled)
    /\ monochrome' = ReadOption("palette", monochrome)

\* The save memory is not part of it.
ResetState ==
    /\ frameNumber' = 0
    /\ tonePhase' = 0
    /\ cursorX' = MaximumCursor \div 2
    /\ video' = Blank /\ audio' = Silence

Init ==
    /\ table \in [Options -> Answers]
    /\ updated = FALSE
    /\ life = "cold"
    /\ frameNumber = 0 /\ tonePhase = 0 /\ cursorX = 0 /\ saveRam = 0
    /\ toneEnabled = TRUE /\ monochrome = FALSE
    /\ joypad = TRUE
    /\ messageVersion = 0
    /\ video = Blank /\ audio = Silence

\* The version is that of the frontend's answer, 0 without one.
Initialize(version) ==
    /\ life = "cold"
    /\ life' = "ready"
    /\ messageVersion' = version
    /\ UNCHANGED <<frontend, state, options, joypad, outputs>>

\* Contentless only; any content, or a refused pixel format, changes nothing.
\* A change of the options that was read here may still be announced.  Left out
\* is the message shown at the end: nothing the core does depends on it.
LoadContent ==
    /\ life = "ready"
    /\ life' = "loaded"
    /\ UpdateCoreOptions
    /\ updated' \in {FALSE, updated}
    /\ saveRam' = 0
    /\ ResetState
    /\ UNCHANGED <<table, joypad, messageVersion>>

Reset ==
    /\ life = "loaded"
    /\ ResetState
    /\ UNCHANGED <<frontend, life, saveRam, options, joypad, messageVersion>>

\* Port 0 only.
SetControllerPortDevice(isJoypad) ==
    /\ life \in {"ready", "loaded"}
    /\ joypad' = isJoypad
    /\ UNCHANGED <<frontend, life, state, options, messageVersion, outputs>>

UnloadContent ==
    /\ life = "loaded"
    /\ life' = "ready"
    /\ ResetState
    /\ saveRam' = 0
    /\ UNCHANGED <<frontend, options, joypad, messageVersion>>

\* Variant that must break a property: the options wait for the next frontend.
DeinitializeKeepsOptions ==
    /\ life = "ready"
    /\ life' = "cold"
    /\ ResetState
    /\ saveRam' = 0
    /\ messageVersion' = 0
    /\ joypad' = TRUE
    /\ UNCHANGED <<frontend, options>>

Deinitialize ==
    /\ life = "ready"
    /\ life' = "cold"
    /\ ResetState
    /\ saveRam' = 0
    /\ messageVersion' = 0
    /\ joypad' = TRUE
    /\ toneEnabled' = TRUE /\ monochrome' = FALSE
    /\ UNCHANGED frontend

----------------------------------------------------------------------------
(* Saved states.                                                           *)

\* What a state may hold: numbers of the width it stores them in.
SavedStates ==
    [frameNumber : 0 .. FrameModulus - 1, cursorX : Int, tonePhase : Int,
     saveRam : 0 .. ByteModulus - 1]

\* Variant that must break a property: the tone's phase is not saved.
SerializedWithoutPhase ==
    [frameNumber |-> frameNumber, cursorX |-> cursorX, tonePhase |-> 0,
     saveRam |-> saveRam]

Serialized ==
    [frameNumber |-> frameNumber, cursorX |-> cursorX, tonePhase |-> tonePhase,
     saveRam |-> saveRam]

\* A phase that is not a number of a turn, finite or not, is refused.
Accepts(s) ==
    /\ 0 <= s.cursorX /\ s.cursorX <= MaximumCursor
    /\ 0 <= s.tonePhase /\ s.tonePhase < Tau

Unserialize(s) ==
    /\ life = "loaded"
    /\ Accepts(s)
    /\ frameNumber' = s.frameNumber
    /\ cursorX' = s.cursorX
    /\ tonePhase' = s.tonePhase
    /\ saveRam' = s.saveRam
    /\ UNCHANGED <<frontend, life, options, joypad, messageVersion, outputs>>

----------------------------------------------------------------------------
(* Frames.                                                                 *)

Larger(a, b) == IF a < b THEN b ELSE a
Smaller(a, b) == IF a < b THEN a ELSE b

MovedLeft(pad) == IF "Left" \in pad THEN Larger(0, cursorX - CursorStep) ELSE cursorX

\* Left first, then Right.
Moved(pad) ==
    IF "Right" \in pad THEN Smaller(MaximumCursor, MovedLeft(pad) + CursorStep)
    ELSE MovedLeft(pad)

Render(cursor) ==
    [shown |-> TRUE, monochrome |-> monochrome', scroll |-> frameNumber % Width,
     cursor |-> cursor]

\* Variant that must break a property: a full turn is not taken off.
AdvancePastTurn(phase) ==
    IF phase + PhaseStep > Tau THEN phase + PhaseStep - Tau ELSE phase + PhaseStep

Advance(phase) ==
    IF phase + PhaseStep >= Tau THEN phase + PhaseStep - Tau ELSE phase + PhaseStep

PhaseAfterBatch(phase) ==
    LET after[sample \in 0 .. AudioFrames] ==
            IF sample = 0 THEN phase ELSE Advance(after[sample - 1])
    IN  after[AudioFrames]

\* A disabled tone is silent and its phase stands still.
GenerateAudio(loud) ==
    IF toneEnabled'
    THEN /\ audio' = [heard |-> TRUE, loud |-> loud, phase |-> tonePhase]
         /\ tonePhase' = PhaseAfterBatch(tonePhase)
    ELSE /\ audio' = Silence
         /\ UNCHANGED tonePhase

\* Variant that must break a property: the announcement is consumed unread.
ReadLater == UNCHANGED options

ReadIfUpdated == IF updated THEN UpdateCoreOptions ELSE UNCHANGED options

\* Without a joypad on port 0 no pad is polled and no button is pressed.
RunFrame(pad) ==
    LET input == IF joypad THEN pad ELSE {} IN
    /\ life = "loaded"
    /\ ReadIfUpdated
    /\ updated' = FALSE
    /\ cursorX' = Moved(input)
    /\ video' = Render(cursorX')
    /\ GenerateAudio("A" \in input)
    /\ saveRam' = (saveRam + 1) % ByteModulus
    /\ frameNumber' = (frameNumber + 1) % FrameModulus
    /\ UNCHANGED <<table, life, joypad, messageVersion>>

Pads == SUBSET {"Left", "Right", "A"}

\* The states offered: the boundaries of what is accepted and one past each.
OfferedStates ==
    [frameNumber : {0, FrameModulus - 1}, cursorX : {-1, 0, MaximumCursor, MaximumCursor + 1},
     tonePhase : {-1, 0, Tau - 1, Tau}, saveRam : {0}]

Next ==
    \/ \E o \in Options, a \in Answers : SetOption(o, a)
    \/ \E byte \in 0 .. ByteModulus - 1 : WriteSaveRam(byte)
    \/ \E version \in {0, 1} : Initialize(version)
    \/ LoadContent \/ Reset \/ UnloadContent \/ Deinitialize
    \/ \E isJoypad \in BOOLEAN : SetControllerPortDevice(isJoypad)
    \/ \E s \in OfferedStates : Unserialize(s)
    \/ \E pad \in Pads : RunFrame(pad)

Spec == Init /\ [][Next]_vars

\* Any moment between two frames of some content, with options the frontend has
\* answered earlier and the outputs of earlier frames forgotten.
AnyMoment ==
    /\ table \in [Options -> {"none"}]
    /\ updated \in BOOLEAN
    /\ life = "loaded"
    /\ frameNumber \in 0 .. FrameModulus - 1
    /\ tonePhase \in 0 .. Tau - 1
    /\ cursorX \in 0 .. MaximumCursor
    /\ saveRam \in 0 .. ByteModulus - 1
    /\ toneEnabled \in BOOLEAN /\ monochrome \in BOOLEAN /\ joypad \in BOOLEAN
    /\ messageVersion = 0
    /\ video = Blank /\ audio = Silence

----------------------------------------------------------------------------
(* Properties.                                                             *)

\* Every state the core reaches is one it takes back, so its cursor box lies in
\* the picture and its phase within one turn after any frames, resets and loaded
\* states (Unserialize, RenderFrame, GenerateAudio).
RuntimeStateAccepted == life = "loaded" => Accepts(Serialized)

\* Loaded states and resets never take an option from the frontend: every
\* answered one is in force unless a change of it is still announced to the next
\* frame (UpdateCoreOptions).
OptionsInForce ==
    life = "loaded" /\ ~updated =>
        /\ toneEnabled = ReadOption("tone", toneEnabled)
        /\ monochrome = ReadOption("palette", monochrome)

\* Nothing of a content is left when it is gone, the save memory included, and
\* nothing of a frontend after its deinitialisation: the next content and the
\* next frontend start from the same values.  The cursor stands where resets put
\* it, or where the constructor did (UnloadContent, Deinitialize).
NothingLeftBehind ==
    /\ life # "loaded" =>
        /\ saveRam = 0 /\ frameNumber = 0 /\ tonePhase = 0
        /\ cursorX \in {0, MaximumCursor \div 2}
        /\ audio = Silence /\ video = Blank
    /\ life = "cold" => toneEnabled /\ ~monochrome /\ joypad /\ messageVersion = 0
=============================================================================
