---------------------------- MODULE CoreContract ----------------------------
(***************************************************************************)
(* What an ILibretroCore is promised by its host, whatever the frontend    *)
(* does and whatever the core throws: it is initialised before it is given *)
(* content, it is given one content at a time, every content and every     *)
(* initialisation is torn down once, and after it threw it is only ever    *)
(* torn down.                                                              *)
(*                                                                         *)
(* phase   where the core is in its own life:                              *)
(*         "cold" -> "ready" (Initialize) -> "loaded" (LoadContent)        *)
(* broken  it threw, or allocated managed memory during a frame, and the   *)
(*         failure has not been cleared by a teardown                      *)
(***************************************************************************)
VARIABLES phase, broken

contract == <<phase, broken>>

Phases == {"cold", "ready", "loaded"}

ContractTypeOK == phase \in Phases /\ broken \in BOOLEAN

ContractInit == phase = "cold" /\ broken = FALSE

\* The outcome of a call that returned or threw.
Returns == UNCHANGED broken
Throws  == broken' = TRUE

\* The frontend may register its environment again, even after a failure.
ConfigureEnvironment ==
    phase = "cold" /\ UNCHANGED phase /\ (Returns \/ Throws)

\* A failed initialisation is followed at once by the core's Deinitialize.
InitializeCore ==
    /\ phase = "cold" /\ ~broken
    /\ \/ phase' = "ready" /\ Returns
       \/ UNCHANGED phase /\ Throws

\* A rejected load leaves nothing behind; one that threw is unloaded at once.
LoadContent ==
    /\ phase = "ready" /\ ~broken
    /\ \/ phase' = "loaded" /\ Returns
       \/ UNCHANGED phase /\ (Returns \/ Throws)

\* Controller changes, frames, resets, saved states, A/V information.
Use ==
    phase # "cold" /\ ~broken /\ UNCHANGED phase /\ (Returns \/ Throws)

UnloadContent ==
    phase = "loaded" /\ phase' = "ready" /\ (Returns \/ Throws)

\* The end of retro_deinit: content and core are gone, the failure is cleared.
Teardown == phase' = "cold" /\ broken' = FALSE

ContractNext ==
    \/ ConfigureEnvironment \/ InitializeCore \/ LoadContent
    \/ Use \/ UnloadContent \/ Teardown

ContractSpec == ContractInit /\ [][ContractNext]_contract
=============================================================================
