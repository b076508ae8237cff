---------------------------- MODULE Chip8Options ----------------------------
(***************************************************************************)
(* What a frame of the CHIP-8 core depends on besides its machine: the     *)
(* quirks, which come from the frontend's options or from a saved state,   *)
(* and the keys, which come from the pad.  Both outlive the frame, the     *)
(* state and the content they were read for.                               *)
(*                                                                         *)
(* The machine (memory, registers, display, timers) is opaque here: the    *)
(* instructions of a frame take it to Execute(machine, quirks, keys).      *)
(*                                                                         *)
(* The frontend changes its options at any moment but not inside its own   *)
(* GET_VARIABLE handler, so the reads of UpdateCoreOptions are one step.   *)
(***************************************************************************)
EXTENDS Naturals

CONSTANTS
    Options,           \* the members of Chip8Quirks, one option each
    Keys, Buttons,     \* keypad codes, RetroPad identifiers
    KeypadMapping,     \* the button of each key
    Machines, Fresh,   \* the states of the machine, and the one after a reset
    Execute(_, _, _)   \* the instructions of one frame

Answers == {"on", "off", "none"}   \* "none": no answer, or not a known value

ASSUME Chip8OptionsAssumption ==
    /\ KeypadMapping \in [Keys -> Buttons]
    /\ Fresh \in Machines
    /\ \A m \in Machines, q \in SUBSET Options, k \in SUBSET Keys :
           Execute(m, q, k) \in Machines

VARIABLES
    table,       \* the frontend's options
    updated,     \* the frontend will answer GET_VARIABLE_UPDATE with true
    life,        \* CoreContract's phase
    quirks,      \* _quirks
    joypad,      \* _controllerDevice is RetroDevice.Joypad
    keys,        \* _keys, the pressed ones
    machine,     \* everything else that ResetMachine sets
    step,        \* "idle", or where RunFrame is: "polling", "executing"
    restored     \* history: the quirks of the state loaded since the options
                 \* were last read, in a set; empty when none was

frontend == <<table, updated>>
vars == <<frontend, life, quirks, joypad, keys, machine, step, restored>>

SavedStates == [machine : Machines, quirks : SUBSET Options]

----------------------------------------------------------------------------
(* The frontend.                                                           *)

SetOption(option, answer) ==
    /\ answer # table[option]
    /\ table' = [table EXCEPT ![option] = answer]
    /\ updated' = TRUE
    /\ UNCHANGED <<life, quirks, joypad, keys, machine, step, restored>>

----------------------------------------------------------------------------
(* The core between frames.                                                *)

Answered(answer) == {o \in Options : table[o] = answer}

\* An option the frontend does not answer keeps its value.
ReadOptions == quirks' = (quirks \cup Answered("on")) \ Answered("off")

UpdateCoreOptions == ReadOptions /\ restored' = {}

ResetMachine == machine' = Fresh /\ keys' = {}

Idle(phases) == step = "idle" /\ life \in phases

Init ==
    /\ table \in [Options -> Answers]
    /\ updated = FALSE
    /\ life = "cold"
    /\ quirks = {}
    /\ joypad = TRUE
    /\ keys = {}
    /\ machine = Fresh
    /\ step = "idle"
    /\ restored = {}

Initialize ==
    /\ Idle({"cold"})
    /\ life' = "ready"
    /\ UNCHANGED <<frontend, quirks, joypad, keys, machine, step, restored>>

\* The options are read without asking whether they changed.  A frontend that
\* answers for the time since the last GET_VARIABLE forgets the change here,
\* one that answers each change once reports it to the first frame.
LoadContent ==
    /\ Idle({"ready"})
    /\ life' = "loaded"
    /\ UpdateCoreOptions
    /\ updated' \in {FALSE, updated}
    /\ ResetMachine
    /\ UNCHANGED <<table, joypad, step>>

Reset ==
    /\ Idle({"loaded"})
    /\ ResetMachine
    /\ UNCHANGED <<frontend, life, quirks, joypad, step, restored>>

\* Port 0 only.
SetControllerPortDevice(isJoypad) ==
    /\ Idle({"ready", "loaded"})
    /\ joypad' = isJoypad
    /\ UNCHANGED <<frontend, life, quirks, keys, machine, step, restored>>

\* The quirks and the device outlive the content.
UnloadContent ==
    /\ Idle({"loaded"})
    /\ life' = "ready"
    /\ ResetMachine
    /\ UNCHANGED <<frontend, quirks, joypad, step, restored>>

Deinitialize ==
    /\ Idle({"ready"})
    /\ life' = "cold"
    /\ ResetMachine
    /\ quirks' = {}
    /\ joypad' = TRUE
    /\ restored' = {}
    /\ UNCHANGED <<frontend, step>>

----------------------------------------------------------------------------
(* Saved states: the machine and the quirks, neither the keys nor the      *)
(* device.                                                                 *)

Serialized == [machine |-> machine, quirks |-> quirks]

\* Variant that must break a property: the quirks are not restored.
UnserializeMachine(s) ==
    /\ Idle({"loaded"})
    /\ machine' = s.machine
    /\ restored' = {s.quirks}
    /\ UNCHANGED <<frontend, life, quirks, joypad, keys, step>>

Unserialize(s) ==
    /\ Idle({"loaded"})
    /\ machine' = s.machine
    /\ quirks' = s.quirks
    /\ restored' = {s.quirks}
    /\ UNCHANGED <<frontend, life, joypad, keys, step>>

----------------------------------------------------------------------------
(* Frames.                                                                 *)

\* Variant that must break a property: the host asks, and so consumes the
\* announcement, but the core does not read.
BeginFrameWithoutReading ==
    /\ Idle({"loaded"})
    /\ updated' = FALSE
    /\ step' = "polling"
    /\ UNCHANGED <<table, life, quirks, restored, joypad, keys, machine>>

\* The host asks GET_VARIABLE_UPDATE, the core reads the options it announces.
BeginFrame ==
    /\ Idle({"loaded"})
    /\ IF updated THEN UpdateCoreOptions ELSE UNCHANGED <<quirks, restored>>
    /\ updated' = FALSE
    /\ step' = "polling"
    /\ UNCHANGED <<table, life, joypad, keys, machine>>

Pressed(pad) == {k \in Keys : KeypadMapping[k] \in pad}

\* Variant that must break a property: the pad is only looked at when there is
\* one, the keys of the last poll stay pressed.
UpdateKeysIfJoypad(pad) ==
    /\ step = "polling"
    /\ keys' = IF joypad THEN Pressed(pad) ELSE keys
    /\ step' = "executing"
    /\ UNCHANGED <<frontend, life, quirks, joypad, machine, restored>>

\* The pad is polled; another device than the joypad releases every key.
UpdateKeys(pad) ==
    /\ step = "polling"
    /\ keys' = IF joypad THEN Pressed(pad) ELSE {}
    /\ step' = "executing"
    /\ UNCHANGED <<frontend, life, quirks, joypad, machine, restored>>

RunInstructions ==
    /\ step = "executing"
    /\ machine' = Execute(machine, quirks, keys)
    /\ step' = "idle"
    /\ UNCHANGED <<frontend, life, quirks, joypad, keys, restored>>

Next ==
    \/ \E o \in Options, a \in Answers : SetOption(o, a)
    \/ Initialize \/ LoadContent \/ Reset \/ UnloadContent \/ Deinitialize
    \/ \E isJoypad \in BOOLEAN : SetControllerPortDevice(isJoypad)
    \/ \E s \in SavedStates : Unserialize(s)
    \/ BeginFrame
    \/ \E pad \in SUBSET Buttons : UpdateKeys(pad)
    \/ RunInstructions

\* A frontend with content loaded keeps running frames, and a frame it began
\* goes on to its end.
Fairness ==
    /\ WF_vars(BeginFrame)
    /\ WF_vars(\E pad \in SUBSET Buttons : UpdateKeys(pad))
    /\ WF_vars(RunInstructions)

Spec == Init /\ [][Next]_vars /\ Fairness

\* Any moment between two frames of some content that has loaded a state, a
\* change of the options still to be read or not.
AnyMoment ==
    /\ table \in [Options -> Answers]
    /\ updated \in BOOLEAN
    /\ life = "loaded"
    /\ quirks \in SUBSET Options /\ restored = {quirks}
    /\ joypad \in BOOLEAN
    /\ keys \in SUBSET Keys
    /\ machine \in Machines
    /\ step = "idle"

----------------------------------------------------------------------------
(* Properties.                                                             *)

\* Every variable has its type, and a frame only runs with content loaded.
TypeOK ==
    /\ table \in [Options -> Answers]
    /\ updated \in BOOLEAN
    /\ life \in {"cold", "ready", "loaded"}
    /\ quirks \in SUBSET Options
    /\ joypad \in BOOLEAN
    /\ keys \in SUBSET Keys
    /\ machine \in Machines
    /\ step \in {"idle", "polling", "executing"}
    /\ restored \in SUBSET SUBSET Options
    /\ step # "idle" => life = "loaded"

InForce == Answered("on") \subseteq quirks /\ quirks \cap Answered("off") = {}

\* Through every order of option changes, contents, resets, frames and loaded
\* states, the quirks have one source: those of the state loaded since the
\* options were last read, whole, or else the frontend's options, each answered
\* one in force unless a change of it is still announced to the next frame
\* (UpdateCoreOptions, Unserialize).
QuirksHaveASource ==
    IF restored # {}
    THEN restored = {quirks}
    ELSE life = "loaded" /\ ~updated => InForce

\* A change of the frontend's options reaches the running content without a
\* reload: unless the answer changes again, a state is loaded or the content
\* goes, the frames that follow bring it into force (RunFrame).
OptionsTakeEffect ==
    \A o \in Options :
        /\ (life = "loaded" /\ table[o] = "on")
               ~> (o \in quirks \/ table[o] # "on" \/ restored # {} \/ life # "loaded")
        /\ (life = "loaded" /\ table[o] = "off")
               ~> (o \notin quirks \/ table[o] # "off" \/ restored # {} \/ life # "loaded")
=============================================================================
