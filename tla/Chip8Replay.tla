---------------------------- MODULE Chip8Replay ----------------------------
(***************************************************************************)
(* A CHIP-8 core alone, through its sessions; or two with the same content *)
(* at any two moments and with frontends of their own: a session and the   *)
(* one that continues it, or two players.  One loads the state the other   *)
(* saved; from there on both are given the same pad, the same resets and   *)
(* the same states.  Their devices and options may differ and change, each *)
(* for itself: the two are followed through the frames that begin with     *)
(* both frontends giving the same, and compared up to a frame that does    *)
(* not.                                                                    *)
(*                                                                         *)
(* The first core has the variables of Chip8Options, the second those      *)
(* below.                                                                  *)
(***************************************************************************)
EXTENDS Chip8Options

VARIABLES
    peerTable, peerUpdated, peerLife, peerQuirks, peerJoypad, peerKeys,
    peerMachine, peerStep, peerRestored,
    lockstep     \* both run on from the same saved state

Peer == INSTANCE Chip8Options WITH
    table <- peerTable, updated <- peerUpdated, life <- peerLife,
    quirks <- peerQuirks, joypad <- peerJoypad, keys <- peerKeys,
    machine <- peerMachine, step <- peerStep, restored <- peerRestored

peerVars ==
    <<peerTable, peerUpdated, peerLife, peerQuirks, peerJoypad, peerKeys,
      peerMachine, peerStep, peerRestored>>
replayVars == <<vars, peerVars, lockstep>>

Single == Init /\ Peer!Init /\ peerTable = [o \in Options |-> "none"]

ReplayInit ==
    /\ Single \/ (AnyMoment /\ Peer!AnyMoment)
    /\ lockstep = FALSE

Alone == peerLife = "cold" /\ Next /\ UNCHANGED <<peerVars, lockstep>>

\* The peer loads what this core serializes.
HandOver ==
    /\ ~lockstep /\ lockstep' = TRUE
    /\ Peer!Unserialize(Serialized)
    /\ UNCHANGED vars

\* What a frame takes from its frontend besides the pad: the device, and the
\* options, if a change of them is announced.
SameFrontend ==
    /\ joypad = peerJoypad
    /\ updated = peerUpdated
    /\ updated => table = peerTable

Together ==
    /\ lockstep
    /\ \/ SameFrontend /\ BeginFrame /\ Peer!BeginFrame
       \/ \E pad \in SUBSET Buttons : UpdateKeys(pad) /\ Peer!UpdateKeys(pad)
       \/ RunInstructions /\ Peer!RunInstructions
       \/ Reset /\ Peer!Reset
       \/ \E s \in SavedStates : Unserialize(s) /\ Peer!Unserialize(s)
    /\ UNCHANGED lockstep

\* Either frontend changes its options or its device, at any point of a frame.
OneFrontend ==
    /\ lockstep
    /\ \/ /\ \/ \E o \in Options, a \in Answers : SetOption(o, a)
             \/ \E isJoypad \in BOOLEAN : SetControllerPortDevice(isJoypad)
          /\ UNCHANGED peerVars
       \/ /\ \/ \E o \in Options, a \in Answers : Peer!SetOption(o, a)
             \/ \E isJoypad \in BOOLEAN : Peer!SetControllerPortDevice(isJoypad)
          /\ UNCHANGED vars
    /\ UNCHANGED lockstep

ReplayNext == Alone \/ HandOver \/ Together \/ OneFrontend

\* A core alone gets its frames; of two together nothing is asked.
ReplaySpec ==
    /\ ReplayInit
    /\ [][ReplayNext]_replayVars
    /\ peerLife = "cold" => Fairness

----------------------------------------------------------------------------
(* Properties.                                                             *)

\* Every variable has its type, frames run with content loaded, and cores in
\* lockstep are at the same point of the same frame.
ReplayTypeOK ==
    /\ TypeOK
    /\ Peer!TypeOK
    /\ lockstep \in BOOLEAN
    /\ lockstep => life = "loaded" /\ peerLife = "loaded" /\ step = peerStep

\* In a core alone every change of its frontend's options takes effect.
AloneOptionsTakeEffect == peerLife = "cold" => OptionsTakeEffect

\* A core that loads the state of another plays on exactly as the other does,
\* whatever either one ran, held pressed, had read or was configured to before.
\* The frontends may differ at the hand-over and change later: what no state
\* holds (the keys, the device, the options of the frontend and a change they
\* announce) tells the cores apart only by a frame that begins while it differs
\* (Serialize, Unserialize, RunFrame).
ReplaysExactly ==
    lockstep =>
        /\ machine = peerMachine
        /\ quirks = peerQuirks
        /\ step = "executing" => keys = peerKeys
=============================================================================
