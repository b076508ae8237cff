---------------------------- MODULE LibretroHost ----------------------------
(***************************************************************************)
(* LibretroHost<TCore> behind the retro_* exports of a publishing          *)
(* assembly: the lifecycle, the callback registrations, the failure latch, *)
(* the pinned memory regions and the serialized-state size.                *)
(*                                                                         *)
(* Each action is one export, run to its end with every call it makes into *)
(* the core and the catch of the export boundary.  retro_run alone is two  *)
(* steps, since the frame hands control to the frontend's callbacks and    *)
(* the frontend may call other exports from them.  A call the code refuses *)
(* (an early return that changes nothing) is a stuttering step.            *)
(*                                                                         *)
(* The core is any ILibretroCore: each of its methods returns or throws.   *)
(* Three variables are what the core has seen, not fields of the host:     *)
(* corePhase (its own lifecycle, "misused" after a call out of order),     *)
(* coreBroke (it threw, or allocated during a frame, since the last        *)
(* teardown) and session (what it reported when its content was loaded).   *)
(***************************************************************************)
EXTENDS Integers

CONSTANTS
    Environments,     \* environment callbacks a frontend may register
    Null,             \* a null function pointer, or no value
    Regions,          \* memory region identifiers, pinned in ascending order
    StateSizes,       \* the SerializedStateSize values a core may report
    RequirementSets,  \* the RequiredFrameCallbacks values a core may report
    LogShim,          \* the native log helper is linked into this build
    FaultyUnpin,      \* regions whose memory manager may throw from Unpin
    ReentrantCalls    \* exports the frontend calls from a frame's callbacks

FrameCallbacks == {"VideoRefresh", "AudioSample", "AudioSampleBatch",
                   "InputPoll", "InputState"}

SoftwareCore == {"Environment", "Video", "Audio", "InputPoll", "InputState"}

HostExports == {"SetEnvironment", "SetCallback", "Initialize", "LoadGame",
                "SetControllerPortDevice", "Reset", "Serialize", "Unserialize",
                "GetSystemAvInfo", "UnloadGame", "Deinitialize"}

ASSUME HostAssumption ==
    /\ Null \notin Environments
    /\ Regions \subseteq Nat
    /\ StateSizes \subseteq Int
    /\ LogShim \in BOOLEAN
    /\ FaultyUnpin \subseteq Regions
    /\ ReentrantCalls \subseteq HostExports

VARIABLES
    state,        \* _state
    failed,       \* _failed
    env,          \* _callbacks.Environment
    callbacks,    \* the other members of _callbacks that are not null
    logger,       \* _logger: the environment that supplied it, or Null
    bitmasks,     \* _supportsInputBitmasks: the environment that said so
    pins,         \* the regions whose MemoryHandle is held
    stateSize,    \* _serializedStateSize
    frame,        \* the LibretroFrameContext of the running frame, or Null
                  \* (outlived is history: the content it was begun for is gone)
    corePhase, coreBroke, session

registration == <<env, callbacks, logger, bitmasks>>
content == <<pins, stateSize, session>>
vars == <<state, failed, registration, content, frame, corePhase, coreBroke>>

----------------------------------------------------------------------------
(* What the core sees.                                                     *)

NoSession == [regions |-> {}, size |-> 0]

OnInitialize(p)   == IF p = "cold"   THEN "ready"  ELSE "misused"
OnLoad(p)         == IF p = "ready"  THEN "loaded" ELSE "misused"
OnUnload(p)       == IF p = "loaded" THEN "ready"  ELSE "misused"
OnDeinitialize(p) == IF p = "ready"  THEN "cold"   ELSE "misused"

\* A call of the session is in order only on loaded content (a device change
\* also before it), and never on a core that failed.
OnUse(p, allowed) == IF p \in allowed /\ ~coreBroke THEN p ELSE "misused"

----------------------------------------------------------------------------
(* Helpers of the host.                                                    *)

\* An export reached from a frame's callback, or between frames.
MayCall(export) == frame = Null \/ export \in ReentrantCalls

\* RetroLogger.Write calls the native helper only for a non-null callback;
\* a build without the helper throws when it tries to bind it.
WriteThrows(l) == l # Null /\ ~LogShim

\* Variant that must break a property: the input-state callback stands for both.
HasRequiredCallbackNoPoll(requirement) ==
    CASE requirement = "Environment" -> env # Null
      [] requirement = "Video"       -> "VideoRefresh" \in callbacks
      [] requirement = "Audio"       -> {"AudioSample", "AudioSampleBatch"} \cap callbacks # {}
      [] requirement \in {"InputPoll", "InputState"} -> "InputState" \in callbacks
      [] OTHER                       -> FALSE

HasRequiredCallback(requirement) ==
    CASE requirement = "Environment" -> env # Null
      [] requirement = "Video"       -> "VideoRefresh" \in callbacks
      [] requirement = "Audio"       -> {"AudioSample", "AudioSampleBatch"} \cap callbacks # {}
      [] requirement = "InputPoll"   -> "InputPoll" \in callbacks
      [] requirement = "InputState"  -> "InputState" \in callbacks
      [] OTHER                       -> FALSE

HasValidCallbackRequirements(requirements) == requirements \subseteq SoftwareCore

HasRequiredCallbacks(requirements) ==
    /\ HasValidCallbackRequirements(requirements)
    /\ \A r \in requirements : HasRequiredCallback(r)

\* PinMemoryRegions: every advertised region, or those before the one whose
\* GetMemory or Pin threw.  A null pointer disposes its handle before it
\* throws, and that too may fail and leave the handle held.
Pinned(advertised) == pins \cup advertised

PartlyPinned(advertised) ==
    {pins}
        \cup { pins \cup {q \in advertised : q < r} : r \in Regions }
        \cup { pins \cup {q \in advertised : q <= r} : r \in advertised \cap FaultyUnpin }

\* ReleaseContentResources: all four regions, or those before the one whose
\* Dispose threw, which stays held with the ones after it.
ReleaseThrows(held) ==
    { {q \in held : q >= r} : r \in held \cap FaultyUnpin }

----------------------------------------------------------------------------
Init ==
    /\ state = "Uninitialized"
    /\ failed = FALSE
    /\ env = Null
    /\ callbacks = {}
    /\ logger = Null
    /\ bitmasks = Null
    /\ pins = {}
    /\ stateSize = 0
    /\ session = NoSession
    /\ frame = Null
    /\ corePhase = "cold"
    /\ coreBroke = FALSE

\* Variants that must break a property: the registration accepted in any state,
\* the last logger kept when none is granted, a failed log line not latched.
SetEnvironmentAnytime(e, granted) ==
    /\ MayCall("SetEnvironment")
    /\ env' = e
    /\ logger' = IF granted /\ e # Null THEN e ELSE Null
    /\ failed' = (failed \/ WriteThrows(logger'))
    /\ UNCHANGED <<state, callbacks, bitmasks, content, frame, corePhase, coreBroke>>

SetEnvironmentKeepsLogger(e, granted) ==
    /\ MayCall("SetEnvironment")
    /\ state = "Uninitialized"
    /\ env' = e
    /\ logger' = IF granted /\ e # Null THEN e ELSE logger
    /\ UNCHANGED <<state, failed, callbacks, bitmasks, content, frame, corePhase, coreBroke>>

SetEnvironmentLatchesNothing(e, granted) ==
    /\ MayCall("SetEnvironment")
    /\ state = "Uninitialized"
    /\ env' = e
    /\ logger' = IF granted /\ e # Null THEN e ELSE Null
    /\ UNCHANGED <<state, failed, callbacks, bitmasks, content, frame, corePhase, coreBroke>>

\* retro_set_environment.  The frontend may grant a log callback or not.
SetEnvironment(e, granted) ==
    /\ MayCall("SetEnvironment")
    /\ state = "Uninitialized"
    /\ env' = e
    /\ logger' = IF granted /\ e # Null THEN e ELSE Null
    /\ corePhase' = IF corePhase = "cold" THEN "cold" ELSE "misused"
    /\ \/ /\ failed' = (failed \/ WriteThrows(logger'))
          /\ UNCHANGED coreBroke
       \/ failed' = TRUE /\ coreBroke' = TRUE
    /\ UNCHANGED <<state, callbacks, bitmasks, content, frame>>

\* retro_set_video_refresh and its four siblings, with a function or null.
SetCallback(c, set) ==
    /\ MayCall("SetCallback")
    /\ callbacks' = IF set THEN callbacks \cup {c} ELSE callbacks \ {c}
    /\ UNCHANGED <<state, failed, env, logger, bitmasks, content, frame,
                   corePhase, coreBroke>>

\* Variant that must break a property: the export returns without recording it.
SwallowFailure == UNCHANGED failed

\* An exception that leaves the host reaches the export, which records it.
RecordFailure == failed' = TRUE

\* The RequiredFrameCallbacks getter threw, outside every try of the host.
RequirementsThrow ==
    /\ RecordFailure
    /\ coreBroke' = TRUE
    /\ UNCHANGED <<state, registration, content, frame, corePhase>>

Initialize(requirements, granted) ==
    /\ MayCall("Initialize")
    /\ state = "Uninitialized" /\ ~failed
    /\ HasRequiredCallback("Environment")
    /\ HasValidCallbackRequirements(requirements)
    /\ \/ \* LibretroAbi.IsSupportedLayout() is false in this build
          /\ failed' = TRUE
          /\ UNCHANGED <<state, registration, content, frame, corePhase, coreBroke>>
       \/ /\ bitmasks' = IF granted THEN env ELSE Null
          /\ \/ \* the core initialised, and the log line may have thrown
                /\ state' = "Initialized"
                /\ failed' = WriteThrows(logger)
                /\ corePhase' = IF WriteThrows(logger)
                                THEN OnDeinitialize(OnInitialize(corePhase))
                                ELSE OnInitialize(corePhase)
                /\ UNCHANGED coreBroke
             \/ \* the core threw, and is deinitialised
                /\ failed' = TRUE
                /\ coreBroke' = TRUE
                /\ corePhase' = OnDeinitialize(OnInitialize(corePhase))
                /\ UNCHANGED state
          /\ UNCHANGED <<env, callbacks, logger, content, frame>>

InitializeThrows ==
    /\ MayCall("Initialize")
    /\ state = "Uninitialized" /\ ~failed /\ env # Null
    /\ RequirementsThrow

----------------------------------------------------------------------------
(* retro_load_game.  A null buffer with a size, or one past int.MaxValue,  *)
(* is refused before the core sees it; a load the core rejects changes     *)
(* nothing the host keeps.                                                 *)

LoadGuard == MayCall("LoadGame") /\ state = "Initialized" /\ ~failed

\* Variant that must break a property: the core is not told to unload.
LoadGameCatchNoUnload(held, size) ==
    /\ failed' = TRUE
    /\ pins' = {}
    /\ stateSize' = 0
    /\ corePhase' = OnLoad(corePhase)
    /\ UNCHANGED <<registration, session, frame>>

\* The catch: release, unload, latch.  A Dispose that throws leaves the catch
\* before the size is cleared and the core is told to unload.
LoadGameCatch(held, size) ==
    /\ failed' = TRUE
    /\ \/ /\ pins' = {}
          /\ stateSize' = 0
          /\ corePhase' = OnUnload(OnLoad(corePhase))
       \/ /\ pins' \in ReleaseThrows(held)
          /\ stateSize' = size
          /\ corePhase' = OnLoad(corePhase)
    /\ UNCHANGED <<registration, session, frame>>

\* The core accepted the content.  The log line comes after the state change,
\* inside the try.
LoadGameSucceeds(advertised, size) ==
    /\ LoadGuard
    /\ size >= 0
    /\ state' = "ContentLoaded"
    /\ UNCHANGED coreBroke
    /\ IF WriteThrows(logger)
       THEN LoadGameCatch(Pinned(advertised), size)
       ELSE /\ pins' = Pinned(advertised)
            /\ stateSize' = size
            /\ session' = [regions |-> advertised, size |-> size]
            /\ corePhase' = OnLoad(corePhase)
            /\ UNCHANGED <<failed, registration, frame>>

\* The core threw while loading, or one of its regions did while pinning.
LoadGameThrows(advertised) ==
    /\ LoadGuard
    /\ coreBroke' = TRUE
    /\ UNCHANGED state
    /\ \E held \in PartlyPinned(advertised) : LoadGameCatch(held, stateSize)

\* A negative size is refused by the host itself, before anything is pinned.
LoadGameNegativeSize(size) ==
    /\ LoadGuard
    /\ size < 0
    /\ UNCHANGED <<state, coreBroke>>
    /\ LoadGameCatch(pins, stateSize)

----------------------------------------------------------------------------
(* Calls on an initialised or loaded core: one call, which may throw.      *)

UseCore(allowed) ==
    /\ corePhase' = OnUse(corePhase, allowed)
    /\ \/ UNCHANGED <<failed, coreBroke>>
       \/ failed' = TRUE /\ coreBroke' = TRUE
    /\ UNCHANGED <<state, registration, content, frame>>

\* Variant that must break a property: the latch is not looked at.
UsableWhenFailed == state = "ContentLoaded"

Usable == state = "ContentLoaded" /\ ~failed

GetSystemAvInfo == MayCall("GetSystemAvInfo") /\ Usable /\ UseCore({"loaded"})

Reset == MayCall("Reset") /\ Usable /\ UseCore({"loaded"})

\* The log line after the call can throw as well as the core.
SetControllerPortDevice ==
    /\ MayCall("SetControllerPortDevice")
    /\ state # "Uninitialized" /\ ~failed
    /\ corePhase' = OnUse(corePhase, {"ready", "loaded"})
    /\ \/ failed' = WriteThrows(logger) /\ UNCHANGED coreBroke
       \/ failed' = TRUE /\ coreBroke' = TRUE
    /\ UNCHANGED <<state, registration, content, frame>>

\* The caller's buffer has exactly the size cached at load; the core is given
\* a span of that size, which must be the size it reported.
StateTransfer(size) ==
    /\ Usable
    /\ stateSize > 0 /\ size = stateSize
    /\ UseCore(IF size = session.size THEN {"loaded"} ELSE {})

Serialize(size)   == MayCall("Serialize")   /\ StateTransfer(size)
Unserialize(size) == MayCall("Unserialize") /\ StateTransfer(size)

----------------------------------------------------------------------------
(* retro_run: the callbacks are copied into the frame's context, and the   *)
(* core's RunFrame calls them until it returns or throws.                  *)

RunBegin(requirements) ==
    /\ frame = Null
    /\ Usable
    /\ HasRequiredCallbacks(requirements)
    /\ frame' = [env |-> env, callbacks |-> callbacks, logger |-> logger,
                 bitmasks |-> bitmasks, needs |-> requirements, outlived |-> FALSE]
    /\ corePhase' = OnUse(corePhase, {"loaded"})
    /\ UNCHANGED <<state, failed, registration, content, coreBroke>>

RunThrows == frame = Null /\ Usable /\ RequirementsThrow

\* Variant that must break a property: the tripwire is read before the catch and
\* what it found is lost when the frame returned.
RunEndTripwireLost ==
    /\ frame # Null
    /\ frame' = Null
    /\ \E threw, allocated \in BOOLEAN :
        /\ failed' = (failed \/ threw)
        /\ coreBroke' = (coreBroke \/ threw \/ allocated)
    /\ UNCHANGED <<state, registration, content, corePhase>>

\* The frame returned or threw, and may have allocated on the managed heap.
RunEnd ==
    /\ frame # Null
    /\ frame' = Null
    /\ \E threw, allocated \in BOOLEAN :
        /\ failed' = (failed \/ threw \/ allocated)
        /\ coreBroke' = (coreBroke \/ threw \/ allocated)
    /\ UNCHANGED <<state, registration, content, corePhase>>

----------------------------------------------------------------------------
(* retro_unload_game and retro_deinit release what the host holds in a     *)
(* finally, so they complete whatever the core throws; only a Dispose that *)
(* throws leaves them half way.                                            *)

\* Variant that must break a property: the cached size survives the content.
ReleaseOnlyPins ==
    pins' = {} /\ session' = NoSession /\ UNCHANGED stateSize

ReleaseContentResources ==
    pins' = {} /\ stateSize' = 0 /\ session' = NoSession

\* A frame that runs goes on without its content.
Outlives == frame' = IF frame = Null THEN Null ELSE [frame EXCEPT !.outlived = TRUE]

UnloadGame ==
    /\ MayCall("UnloadGame")
    /\ state = "ContentLoaded"
    /\ corePhase' = OnUnload(corePhase)
    /\ \E threw \in BOOLEAN :
        /\ coreBroke' = (coreBroke \/ threw)
        /\ \/ /\ ReleaseContentResources
              /\ Outlives
              /\ state' = "Initialized"
              /\ failed' = (failed \/ threw \/ WriteThrows(logger))
           \/ /\ pins' \in ReleaseThrows(pins)
              /\ RecordFailure
              /\ UNCHANGED <<state, stateSize, session, frame>>
    /\ UNCHANGED registration

\* Variant that must break a property: a capability of the frontend is kept.
TeardownKeepsBitmasks ==
    /\ env' = Null /\ callbacks' = {} /\ logger' = Null
    /\ state' = "Uninitialized"
    /\ failed' = FALSE
    /\ UNCHANGED bitmasks

\* What retro_deinit leaves: the host as constructed.
LogicalTeardown ==
    /\ env' = Null /\ callbacks' = {}
    /\ logger' = Null
    /\ state' = "Uninitialized"
    /\ bitmasks' = Null
    /\ failed' = FALSE

\* Exceptions of the core are swallowed here.
Deinitialize ==
    /\ MayCall("Deinitialize")
    /\ \/ /\ state = "Uninitialized"
          /\ LogicalTeardown
          /\ UNCHANGED <<content, frame, corePhase>>
          /\ coreBroke' = FALSE
       \/ /\ state = "Initialized"
          /\ LogicalTeardown
          /\ UNCHANGED <<content, frame>>
          /\ corePhase' = OnDeinitialize(corePhase)
          /\ coreBroke' = FALSE
       \/ /\ state = "ContentLoaded"
          /\ LogicalTeardown
          /\ ReleaseContentResources
          /\ Outlives
          /\ corePhase' = OnDeinitialize(OnUnload(corePhase))
          /\ coreBroke' = FALSE
       \/ /\ state = "ContentLoaded"
          /\ pins' \in ReleaseThrows(pins)
          /\ RecordFailure
          /\ corePhase' = OnUnload(corePhase)
          /\ coreBroke' \in {coreBroke, TRUE}
          /\ UNCHANGED <<state, registration, stateSize, session, frame>>

----------------------------------------------------------------------------
Next ==
    \/ \E e \in Environments \cup {Null}, granted \in BOOLEAN : SetEnvironment(e, granted)
    \/ \E c \in FrameCallbacks, set \in BOOLEAN : SetCallback(c, set)
    \/ \E r \in RequirementSets, granted \in BOOLEAN : Initialize(r, granted)
    \/ InitializeThrows
    \/ \E advertised \in SUBSET Regions :
        \/ \E size \in StateSizes : LoadGameSucceeds(advertised, size)
        \/ LoadGameThrows(advertised)
    \/ \E size \in StateSizes : LoadGameNegativeSize(size)
    \/ GetSystemAvInfo
    \/ Reset
    \/ SetControllerPortDevice
    \/ \E size \in StateSizes : Serialize(size) \/ Unserialize(size)
    \/ \E r \in RequirementSets : RunBegin(r)
    \/ RunThrows
    \/ RunEnd
    \/ UnloadGame
    \/ Deinitialize

Spec == Init /\ [][Next]_vars

----------------------------------------------------------------------------
(* Properties.  Most hold where every memory manager can unpin.            *)

SoundPlatform == FaultyUnpin = {}

\* Every variable has its type, on any platform.
TypeOK ==
    /\ state \in {"Uninitialized", "Initialized", "ContentLoaded"}
    /\ failed \in BOOLEAN
    /\ env \in Environments \cup {Null}
    /\ callbacks \subseteq FrameCallbacks
    /\ logger \in Environments \cup {Null}
    /\ bitmasks \in Environments \cup {Null}
    /\ pins \subseteq Regions
    /\ stateSize \in StateSizes \cup {0}
    /\ session \in [regions : SUBSET Regions, size : StateSizes \cup {0}]
    /\ frame = Null \/ frame \in
         [env : Environments \cup {Null}, callbacks : SUBSET FrameCallbacks,
          logger : Environments \cup {Null}, bitmasks : Environments \cup {Null},
          needs : RequirementSets, outlived : BOOLEAN]
    /\ corePhase \in {"cold", "ready", "loaded", "misused"}
    /\ coreBroke \in BOOLEAN

\* The core is exactly as far in its life as the host believes: every
\* initialisation and every content was torn down once, on the success paths,
\* in the catch blocks of Initialize and LoadGame and in the two teardowns, and
\* no call ever reached it out of order.
CoreFollowsState ==
    CASE state = "Uninitialized" -> corePhase = "cold"
      [] state = "Initialized"   -> corePhase = "ready"
      [] state = "ContentLoaded" -> corePhase = "loaded"

\* The host holds pins and a state size exactly while content is loaded, a
\* failed host included (save data stays readable), and they are what the core
\* reported when that content was loaded.
ResourcesFollowContent ==
    IF state = "ContentLoaded"
    THEN session = [regions |-> pins, size |-> stateSize]
    ELSE pins = {} /\ stateSize = 0 /\ session = NoSession

\* The logger was granted by the environment now registered; once the core is
\* initialised that environment is there and granted the bitmask capability in
\* use, though a frontend may have registered several around failed attempts.
CapabilitiesFromEnvironment ==
    /\ logger \in {Null, env}
    /\ state # "Uninitialized" => env # Null /\ bitmasks \in {Null, env}

\* A logger whose every line throws is caught when it is registered: no later
\* line, such as those written inside the try after a state change, can throw.
UnboundLoggerNeverInUse ==
    WriteThrows(logger) => failed /\ state = "Uninitialized"

\* A core that threw anywhere, or allocated on the managed heap during a frame, is
\* latched as failed until the teardown, whatever the frontend calls meanwhile.
CoreFailureLatched == coreBroke => failed

\* The context of a running frame holds every callback the core required, audio
\* by either of its two, though the frontend may replace callbacks during the
\* frame.  Until the frontend itself ends the content from within the frame, the
\* content stays loaded and the context's environment and capabilities are the
\* host's; a later session loaded from the same frame may have others.
FrameServed ==
    frame # Null =>
        /\ frame.env # Null
        /\ IF frame.outlived
           THEN {"UnloadGame", "Deinitialize"} \cap ReentrantCalls # {}
           ELSE /\ state = "ContentLoaded"
                /\ frame.env = env /\ frame.logger = logger /\ frame.bitmasks = bitmasks
        /\ frame.needs \subseteq SoftwareCore
        /\ "Video" \in frame.needs => "VideoRefresh" \in frame.callbacks
        /\ "Audio" \in frame.needs =>
             "AudioSample" \in frame.callbacks \/ "AudioSampleBatch" \in frame.callbacks
        /\ {"InputPoll", "InputState"} \cap frame.needs \subseteq frame.callbacks

\* A teardown cut short by a region that cannot be unpinned leaves the host
\* failed: no session call reaches content the core was already told to unload.
NoUseAfterUnload ==
    state = "ContentLoaded" /\ corePhase = "ready" => failed

\* The latch is cleared only by a whole logical teardown: nothing of the failed
\* session is left in the host or in the core.
FailureClearedByTeardown ==
    [][failed /\ ~failed' =>
        /\ state' = "Uninitialized" /\ corePhase' = "cold" /\ ~coreBroke'
        /\ env' = Null /\ callbacks' = {} /\ logger' = Null /\ bitmasks' = Null
        /\ pins' = {} /\ stateSize' = 0]_vars

\* The memory pointers and the state size handed to the frontend are those of
\* the whole loaded session: no reset, frame, state load or failure changes them.
SessionResourcesStable ==
    [][state = "ContentLoaded" /\ state' = "ContentLoaded" =>
        UNCHANGED <<pins, stateSize, env, logger, bitmasks>>]_vars

\* retro_deinit always completes the logical teardown (PHASE-2.md).
TeardownCompletes == [][Deinitialize => state' = "Uninitialized"]_vars

\* The core sees only what an ILibretroCore is promised.
Contract == INSTANCE CoreContract WITH phase <- corePhase, broken <- coreBroke
ImplementsContract == Contract!ContractSpec
=============================================================================
