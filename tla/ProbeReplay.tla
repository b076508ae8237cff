---------------------------- MODULE ProbeReplay ----------------------------
(***************************************************************************)
(* A probe core alone, through its sessions; or two with content loaded,   *)
(* anywhere in their frames, one of which loads the state the other saved. *)
(* From there on both get the same pad, the same changes of options,       *)
(* writes to save memory, resets and states.  Their frontends agree on the *)
(* options and the device, which no saved state holds.                     *)
(*                                                                         *)
(* The first core has the variables of ProbeCore, the second those below.  *)
(***************************************************************************)
EXTENDS ProbeCore

VARIABLES
    peerTable, peerUpdated, peerLife, peerFrameNumber, peerTonePhase, peerCursorX,
    peerSaveRam, peerToneEnabled, peerMonochrome, peerJoypad, peerMessageVersion,
    peerVideo, peerAudio,
    lockstep     \* the state was handed over

Peer == INSTANCE ProbeCore WITH
    table <- peerTable, updated <- peerUpdated, life <- peerLife,
    frameNumber <- peerFrameNumber, tonePhase <- peerTonePhase,
    cursorX <- peerCursorX, saveRam <- peerSaveRam,
    toneEnabled <- peerToneEnabled, monochrome <- peerMonochrome,
    joypad <- peerJoypad, messageVersion <- peerMessageVersion,
    video <- peerVideo, audio <- peerAudio

peerVars ==
    <<peerTable, peerUpdated, peerLife, peerFrameNumber, peerTonePhase, peerCursorX,
      peerSaveRam, peerToneEnabled, peerMonochrome, peerJoypad, peerMessageVersion,
      peerVideo, peerAudio>>
replayVars == <<vars, peerVars, lockstep>>

SameFrontend ==
    /\ table = peerTable /\ updated = peerUpdated
    /\ toneEnabled = peerToneEnabled /\ monochrome = peerMonochrome
    /\ joypad = peerJoypad

Single == Init /\ Peer!Init /\ peerTable = [o \in Options |-> "none"]

ReplayInit ==
    /\ Single \/ (AnyMoment /\ Peer!AnyMoment /\ SameFrontend)
    /\ lockstep = FALSE

Alone == peerLife = "cold" /\ Next /\ UNCHANGED <<peerVars, lockstep>>

HandOver ==
    /\ ~lockstep /\ lockstep' = TRUE
    /\ Peer!Unserialize(Serialized)
    /\ UNCHANGED vars

Together ==
    /\ lockstep
    /\ \/ \E pad \in Pads : RunFrame(pad) /\ Peer!RunFrame(pad)
       \/ \E o \in Options, a \in Answers : SetOption(o, a) /\ Peer!SetOption(o, a)
       \/ \E byte \in 0 .. ByteModulus - 1 : WriteSaveRam(byte) /\ Peer!WriteSaveRam(byte)
       \/ Reset /\ Peer!Reset
       \/ \E s \in OfferedStates : Unserialize(s) /\ Peer!Unserialize(s)
       \/ \E isJoypad \in BOOLEAN :
              SetControllerPortDevice(isJoypad) /\ Peer!SetControllerPortDevice(isJoypad)
    /\ UNCHANGED lockstep

ReplayNext == Alone \/ HandOver \/ Together

ReplaySpec == ReplayInit /\ [][ReplayNext]_replayVars

----------------------------------------------------------------------------
(* Properties.                                                             *)

\* A probe that loads the state of another gives the same pictures and the same
\* audio as the other from then on, and its next saved state is the same,
\* whatever either one ran before (Serialize, Unserialize, RunFrame).
ReplaysExactly ==
    lockstep =>
        /\ Serialized = Peer!Serialized
        /\ video = peerVideo /\ audio = peerAudio
=============================================================================
