------------------------- MODULE LibretroHostProofs -------------------------
EXTENDS LibretroHost, TLAPS

\* The empty session is a session.
LEMMA NoSessionType ==
    NoSession \in [regions : SUBSET Regions, size : StateSizes \cup {0}]
  BY DEF NoSession

\* Pinning and releasing only ever leave regions of the core held.
LEMMA HeldAreRegions ==
    ASSUME pins \subseteq Regions, NEW advertised \in SUBSET Regions
    PROVE  /\ Pinned(advertised) \subseteq Regions
           /\ PartlyPinned(advertised) \subseteq SUBSET Regions
           /\ \A held \in SUBSET Regions : ReleaseThrows(held) \subseteq SUBSET Regions
  BY DEF Pinned, PartlyPinned, ReleaseThrows

\* The catch of LoadGame keeps the types, whatever was pinned before it.
LEMMA CatchType ==
    ASSUME TypeOK, NEW held \in SUBSET Regions, NEW size \in StateSizes \cup {0},
           LoadGameCatch(held, size)
    PROVE  /\ failed' \in BOOLEAN /\ pins' \subseteq Regions
           /\ stateSize' \in StateSizes \cup {0}
           /\ corePhase' \in {"cold", "ready", "loaded", "misused"}
           /\ UNCHANGED <<registration, session, frame>>
<1>1. pins' \subseteq Regions
  BY HeldAreRegions DEF LoadGameCatch, TypeOK
<1> QED
  BY <1>1 DEF LoadGameCatch, TypeOK, OnLoad, OnUnload

\* A frame whose content ends goes on with what it was given.
LEMMA OutlivingFrame ==
    ASSUME TypeOK, Outlives
    PROVE  /\ frame = Null => frame' = Null
           /\ frame # Null =>
                /\ frame' \in
                     [env : Environments \cup {Null}, callbacks : SUBSET FrameCallbacks,
                      logger : Environments \cup {Null}, bitmasks : Environments \cup {Null},
                      needs : RequirementSets, outlived : BOOLEAN]
                /\ frame'.outlived
                /\ frame'.env = frame.env
                /\ frame'.callbacks = frame.callbacks
                /\ frame'.needs = frame.needs
<1>1. CASE frame = Null
  BY <1>1 DEF Outlives
<1>2. CASE frame # Null
  <2>1. frame \in
         [env : Environments \cup {Null}, callbacks : SUBSET FrameCallbacks,
          logger : Environments \cup {Null}, bitmasks : Environments \cup {Null},
          needs : RequirementSets, outlived : BOOLEAN]
    BY <1>2 DEF TypeOK
  <2>2. frame' = [frame EXCEPT !.outlived = TRUE]
    BY <1>2 DEF Outlives
  <2> QED
    BY <1>2, <2>1, <2>2
<1> QED
  BY <1>1, <1>2

\* The variables have their types, for every core, platform and frontend.
THEOREM TypeCorrect == Spec => []TypeOK
<1>1. Init => TypeOK
  BY NoSessionType DEF Init, TypeOK
<1>2. TypeOK /\ [Next]_vars => TypeOK'
  <2> SUFFICES ASSUME TypeOK, [Next]_vars PROVE TypeOK'
    OBVIOUS
  <2> USE DEF TypeOK, registration, content, OnInitialize, OnLoad, OnUnload, OnDeinitialize, OnUse,
       WriteThrows
  <2>1. ASSUME NEW e \in Environments \cup {Null}, NEW granted \in BOOLEAN, SetEnvironment(e, granted) PROVE TypeOK'
    BY <2>1, HostAssumption DEF SetEnvironment
  <2>2. ASSUME NEW c \in FrameCallbacks, NEW set \in BOOLEAN, SetCallback(c, set) PROVE TypeOK'
    BY <2>2, HostAssumption DEF SetCallback
  <2>3. ASSUME NEW r \in RequirementSets, NEW granted \in BOOLEAN, Initialize(r, granted) PROVE TypeOK'
    BY <2>3, HostAssumption DEF Initialize
  <2>4. ASSUME InitializeThrows PROVE TypeOK'
    BY <2>4, HostAssumption DEF InitializeThrows, RequirementsThrow, RecordFailure
  <2>5. ASSUME NEW advertised \in SUBSET Regions, NEW size \in StateSizes,
               LoadGameSucceeds(advertised, size)
        PROVE  TypeOK'
    <3>1. Pinned(advertised) \in SUBSET Regions
      BY HeldAreRegions
    <3>2. CASE logger # Null /\ ~LogShim
      <4>1. LoadGameCatch(Pinned(advertised), size) /\ state' = "ContentLoaded" /\ UNCHANGED coreBroke
        BY <2>5, <3>2 DEF LoadGameSucceeds
      <4> QED
        BY <4>1, <3>1, CatchType
    <3>3. CASE ~(logger # Null /\ ~LogShim)
      BY <2>5, <3>1, <3>3 DEF LoadGameSucceeds
    <3> QED
      BY <3>2, <3>3
  <2>6. ASSUME NEW advertised \in SUBSET Regions, LoadGameThrows(advertised) PROVE TypeOK'
    <3>1. PICK held \in PartlyPinned(advertised) : LoadGameCatch(held, stateSize)
      BY <2>6 DEF LoadGameThrows
    <3>2. held \in SUBSET Regions
      BY HeldAreRegions
    <3> QED
      BY <2>6, <3>1, <3>2, CatchType DEF LoadGameThrows
  <2>7. ASSUME NEW size \in StateSizes, LoadGameNegativeSize(size) PROVE TypeOK'
    BY <2>7, HostAssumption DEF LoadGameNegativeSize, LoadGameCatch, LoadGuard, ReleaseThrows
  <2>8. ASSUME GetSystemAvInfo PROVE TypeOK'
    BY <2>8, HostAssumption DEF GetSystemAvInfo, UseCore, Usable
  <2>9. ASSUME Reset PROVE TypeOK'
    BY <2>9, HostAssumption DEF Reset, UseCore, Usable
  <2>10. ASSUME SetControllerPortDevice PROVE TypeOK'
    BY <2>10, HostAssumption DEF SetControllerPortDevice
  <2>11. ASSUME NEW size \in StateSizes, Serialize(size) PROVE TypeOK'
    BY <2>11, HostAssumption DEF Serialize, StateTransfer, UseCore, Usable
  <2>12. ASSUME NEW size \in StateSizes, Unserialize(size) PROVE TypeOK'
    BY <2>12, HostAssumption DEF Unserialize, StateTransfer, UseCore, Usable
  <2>13. ASSUME NEW r \in RequirementSets, RunBegin(r) PROVE TypeOK'
    BY <2>13, HostAssumption DEF RunBegin, Usable
  <2>14. ASSUME RunThrows PROVE TypeOK'
    BY <2>14, HostAssumption DEF RunThrows, RequirementsThrow, RecordFailure, Usable
  <2>15. ASSUME RunEnd PROVE TypeOK'
    BY <2>15, HostAssumption DEF RunEnd
  <2>16. ASSUME UnloadGame PROVE TypeOK'
    <3>1. (frame = Null \/ frame \in
             [env : Environments \cup {Null}, callbacks : SUBSET FrameCallbacks,
              logger : Environments \cup {Null}, bitmasks : Environments \cup {Null},
              needs : RequirementSets, outlived : BOOLEAN])'
      BY <2>16, OutlivingFrame DEF UnloadGame
    <3> QED
      BY <2>16, <3>1, NoSessionType, HostAssumption DEF UnloadGame, ReleaseContentResources, ReleaseThrows, RecordFailure
  <2>17. ASSUME Deinitialize PROVE TypeOK'
    <3>1. (frame = Null \/ frame \in
             [env : Environments \cup {Null}, callbacks : SUBSET FrameCallbacks,
              logger : Environments \cup {Null}, bitmasks : Environments \cup {Null},
              needs : RequirementSets, outlived : BOOLEAN])'
      BY <2>17, OutlivingFrame DEF Deinitialize
    <3> QED
      BY <2>17, <3>1, NoSessionType, HostAssumption DEF Deinitialize, ReleaseContentResources, ReleaseThrows, RecordFailure, LogicalTeardown
  <2>18. CASE UNCHANGED vars
    BY <2>18 DEF vars
  <2> QED
    BY <2>1, <2>2, <2>3, <2>4, <2>5, <2>6, <2>7, <2>8, <2>9, <2>10, <2>11, <2>12, <2>13, <2>14, <2>15, <2>16, <2>17, <2>18 DEF Next
<1> QED
  BY <1>1, <1>2, PTL DEF Spec

----------------------------------------------------------------------------
(* The safety of the host.  The named invariants are inductive together:   *)
(* each of them is what makes the step of another one go through.          *)

HostInv ==
    /\ CoreFollowsState
    /\ ResourcesFollowContent
    /\ CapabilitiesFromEnvironment
    /\ UnboundLoggerNeverInUse
    /\ CoreFailureLatched
    /\ FrameServed

\* Where every memory manager can unpin, releasing always completes.
LEMMA ReleaseCompletes ==
    ASSUME SoundPlatform PROVE \A held : ReleaseThrows(held) = {}
  BY DEF SoundPlatform, ReleaseThrows

\* Initialisation and frames rely on an environment being registered.
LEMMA EnvironmentRequired == HasRequiredCallback("Environment") => env # Null
  BY DEF HasRequiredCallback

\* The constructed host satisfies the invariant.
LEMMA HostInvInit == Init => HostInv
  BY DEF Init, HostInv, CoreFollowsState, ResourcesFollowContent,
         CapabilitiesFromEnvironment, UnboundLoggerNeverInUse,
         CoreFailureLatched, FrameServed, WriteThrows

\* Every step of the host preserves the invariant.
LEMMA HostInvStep ==
    ASSUME SoundPlatform, TypeOK, HostInv, [Next]_vars PROVE HostInv'
<1> USE DEF HostInv, CoreFollowsState, ResourcesFollowContent,
            CapabilitiesFromEnvironment, UnboundLoggerNeverInUse,
            CoreFailureLatched, FrameServed, TypeOK,
            OnInitialize, OnLoad, OnUnload, OnDeinitialize, OnUse,
            registration, content, WriteThrows, NoSession
<1>1. ASSUME NEW e \in Environments \cup {Null}, NEW granted \in BOOLEAN,
             SetEnvironment(e, granted)
      PROVE  HostInv'
  BY <1>1, HostAssumption
  DEF SetEnvironment
<1>2. ASSUME NEW c \in FrameCallbacks, NEW set \in BOOLEAN,
             SetCallback(c, set)
      PROVE  HostInv'
  BY <1>2, HostAssumption
  DEF SetCallback
<1>3. ASSUME NEW r \in RequirementSets, NEW granted \in BOOLEAN,
             Initialize(r, granted)
      PROVE  HostInv'
  <2>1. env # Null /\ state = "Uninitialized" /\ corePhase = "cold" /\ pins = {} /\ ~(logger # Null /\ ~LogShim)
    BY <1>3, EnvironmentRequired DEF Initialize
  <2>2. CoreFollowsState'
    BY <1>3, <2>1 DEF Initialize
  <2>3. ResourcesFollowContent' /\ FrameServed'
    BY <1>3, <2>1 DEF Initialize
  <2>4. CapabilitiesFromEnvironment'
    BY <1>3, <2>1 DEF Initialize
  <2>5. UnboundLoggerNeverInUse' /\ CoreFailureLatched'
    BY <1>3, <2>1 DEF Initialize
  <2> QED
    BY <2>2, <2>3, <2>4, <2>5
<1>4. ASSUME InitializeThrows
      PROVE  HostInv'
  BY <1>4, HostAssumption
  DEF InitializeThrows, RequirementsThrow, RecordFailure
<1>5. ASSUME NEW advertised \in SUBSET Regions, NEW size \in StateSizes,
             LoadGameSucceeds(advertised, size)
      PROVE  HostInv'
  BY <1>5, ReleaseCompletes, HostAssumption
  DEF LoadGameSucceeds, LoadGuard, Pinned
<1>6. ASSUME NEW advertised \in SUBSET Regions,
             LoadGameThrows(advertised)
      PROVE  HostInv'
  BY <1>6, ReleaseCompletes, HostAssumption
  DEF LoadGameThrows, LoadGameCatch, LoadGuard
<1>7. ASSUME NEW size \in StateSizes,
             LoadGameNegativeSize(size)
      PROVE  HostInv'
  BY <1>7, ReleaseCompletes, HostAssumption
  DEF LoadGameNegativeSize, LoadGameCatch, LoadGuard
<1>8. ASSUME GetSystemAvInfo
      PROVE  HostInv'
  BY <1>8, HostAssumption
  DEF GetSystemAvInfo, UseCore, Usable
<1>9. ASSUME Reset
      PROVE  HostInv'
  BY <1>9, HostAssumption
  DEF Reset, UseCore, Usable
<1>10. ASSUME SetControllerPortDevice
      PROVE  HostInv'
  <2>1. ~(logger # Null /\ ~LogShim) /\ ~failed /\ ~coreBroke
    BY <1>10 DEF SetControllerPortDevice
  <2>2. CoreFailureLatched' /\ UnboundLoggerNeverInUse'
    BY <1>10, <2>1 DEF SetControllerPortDevice
  <2> QED
    BY <1>10, <2>1, <2>2 DEF SetControllerPortDevice
<1>11. ASSUME NEW size \in StateSizes,
             Serialize(size)
      PROVE  HostInv'
  BY <1>11, HostAssumption
  DEF Serialize, StateTransfer, UseCore, Usable
<1>12. ASSUME NEW size \in StateSizes,
             Unserialize(size)
      PROVE  HostInv'
  BY <1>12, HostAssumption
  DEF Unserialize, StateTransfer, UseCore, Usable
<1>13. ASSUME NEW r \in RequirementSets,
             RunBegin(r)
      PROVE  HostInv'
  BY <1>13, HostAssumption
  DEF RunBegin, Usable, HasRequiredCallbacks,
      HasRequiredCallback, HasValidCallbackRequirements, FrameCallbacks, SoftwareCore
<1>14. ASSUME RunThrows
      PROVE  HostInv'
  BY <1>14, HostAssumption
  DEF RunThrows, RequirementsThrow, RecordFailure, Usable
<1>15. ASSUME RunEnd
      PROVE  HostInv'
  <2>1. /\ UNCHANGED <<state, env, callbacks, logger, bitmasks, pins, stateSize, session, corePhase>>
        /\ failed => failed'
        /\ frame' = Null
        /\ coreBroke' => coreBroke \/ failed'
    BY <1>15 DEF RunEnd
  <2>2. CoreFollowsState' /\ ResourcesFollowContent' /\ CapabilitiesFromEnvironment'
    BY <2>1
  <2>3. UnboundLoggerNeverInUse' /\ CoreFailureLatched' /\ FrameServed'
    BY <2>1
  <2> QED
    BY <2>2, <2>3
<1>16. ASSUME UnloadGame
      PROVE  HostInv'
  <2>1. FrameServed'
    <3>1. CASE Outlives
      BY <1>16, <3>1, OutlivingFrame, HostAssumption DEF UnloadGame, MayCall
    <3>2. CASE UNCHANGED <<state, frame>>
      BY <1>16, <3>2 DEF UnloadGame
    <3> QED
      BY <1>16, <3>1, <3>2 DEF UnloadGame
  <2> QED
    BY <1>16, <2>1, ReleaseCompletes, HostAssumption
    DEF UnloadGame, ReleaseContentResources, RecordFailure, SoundPlatform
<1>17. ASSUME Deinitialize
      PROVE  HostInv'
  <2>1. FrameServed'
    <3>1. CASE Outlives
      BY <1>17, <3>1, OutlivingFrame, HostAssumption DEF Deinitialize, MayCall
    <3>2. CASE UNCHANGED <<state, registration, frame>>
      BY <1>17, <3>2 DEF Deinitialize
    <3>3. CASE state # "ContentLoaded" /\ UNCHANGED frame
      BY <1>17, <3>3 DEF Deinitialize
    <3> QED
      BY <1>17, <3>1, <3>2, <3>3 DEF Deinitialize
  <2> QED
    BY <1>17, <2>1, ReleaseCompletes, HostAssumption
    DEF Deinitialize, ReleaseContentResources, RecordFailure, LogicalTeardown, SoundPlatform
<1>18. CASE UNCHANGED vars
  BY <1>18 DEF vars
<1> QED
  BY <1>1, <1>2, <1>3, <1>4, <1>5, <1>6, <1>7, <1>8, <1>9,
     <1>10, <1>11, <1>12, <1>13, <1>14, <1>15, <1>16, <1>17, <1>18 DEF Next

\* On a sound platform every safety invariant of the host holds always: the
\* core's life follows the host's state, its resources are held exactly while
\* content is loaded, capabilities come from the environment in use, a logger
\* that cannot write is never used, a core that threw is latched, and a frame
\* has every callback it requires.
THEOREM HostSafe == ASSUME SoundPlatform PROVE Spec => []HostInv
<1>1. TypeOK /\ HostInv /\ [Next]_vars => HostInv'
  BY HostInvStep
<1> QED
  BY <1>1, HostInvInit, TypeCorrect, PTL DEF Spec

\* No call reaches the core out of order and every one of its lives is torn
\* down once, in the catch blocks of Initialize and LoadGame too.
THEOREM CoreDrivenInOrder == ASSUME SoundPlatform PROVE Spec => []CoreFollowsState
<1>1. HostInv => CoreFollowsState
  BY DEF HostInv
<1> QED
  BY <1>1, HostSafe, PTL

\* However the core fails, the latch is set until the teardown that follows.
THEOREM FailuresLatched == ASSUME SoundPlatform PROVE Spec => []CoreFailureLatched
<1>1. HostInv => CoreFailureLatched
  BY DEF HostInv
<1> QED
  BY <1>1, HostSafe, PTL

\* Pinned regions and the state size are held exactly while content is loaded,
\* and are those the core reported for it.
THEOREM ResourcesHeldForContent ==
    ASSUME SoundPlatform PROVE Spec => []ResourcesFollowContent
<1>1. HostInv => ResourcesFollowContent
  BY DEF HostInv
<1> QED
  BY <1>1, HostSafe, PTL

\* The logger and the bitmask capability never outlive the environment that
\* granted them, however often a frontend registers one around failures.
THEOREM CapabilitiesNeverStale ==
    ASSUME SoundPlatform PROVE Spec => []CapabilitiesFromEnvironment
<1>1. HostInv => CapabilitiesFromEnvironment
  BY DEF HostInv
<1> QED
  BY <1>1, HostSafe, PTL

\* In a build without the native log helper no line is ever written after a
\* state change of the host.
THEOREM LoggerNeverInterrupts ==
    ASSUME SoundPlatform PROVE Spec => []UnboundLoggerNeverInUse
<1>1. HostInv => UnboundLoggerNeverInUse
  BY DEF HostInv
<1> QED
  BY <1>1, HostSafe, PTL

\* A running frame has every callback the core required, and keeps its content
\* unless the frontend itself ends it.
THEOREM FramesServed == ASSUME SoundPlatform PROVE Spec => []FrameServed
<1>1. HostInv => FrameServed
  BY DEF HostInv
<1> QED
  BY <1>1, HostSafe, PTL

\* On every platform, faulty or not: an interrupted teardown leaves the host
\* failed, so no call of the session reaches content the core was told to unload.
THEOREM NeverUsedAfterUnload == Spec => []NoUseAfterUnload
<1>1. Init => NoUseAfterUnload
  BY DEF Init, NoUseAfterUnload
<1>2. TypeOK /\ NoUseAfterUnload /\ [Next]_vars => NoUseAfterUnload'
  <2> SUFFICES ASSUME TypeOK, NoUseAfterUnload, [Next]_vars PROVE NoUseAfterUnload'
    OBVIOUS
  <2> USE DEF TypeOK, NoUseAfterUnload, registration, content, RequirementsThrow, RecordFailure,
              UseCore, LoadGameCatch, LoadGuard, Usable, StateTransfer, OnUse
  <2>1. ASSUME NEW e \in Environments \cup {Null}, NEW granted \in BOOLEAN,
               SetEnvironment(e, granted)
        PROVE  NoUseAfterUnload'
    BY <2>1 DEF SetEnvironment
  <2>2. ASSUME NEW c \in FrameCallbacks, NEW set \in BOOLEAN, SetCallback(c, set)
        PROVE  NoUseAfterUnload'
    BY <2>2 DEF SetCallback
  <2>3. ASSUME NEW r \in RequirementSets, NEW granted \in BOOLEAN,
               Initialize(r, granted) \/ RunBegin(r)
        PROVE  NoUseAfterUnload'
    BY <2>3 DEF Initialize, RunBegin
  <2>4. ASSUME NEW advertised \in SUBSET Regions, LoadGameThrows(advertised)
        PROVE  NoUseAfterUnload'
    BY <2>4 DEF LoadGameThrows
  <2>5. ASSUME NEW advertised \in SUBSET Regions, NEW size \in StateSizes,
               LoadGameSucceeds(advertised, size)
        PROVE  NoUseAfterUnload'
    BY <2>5 DEF LoadGameSucceeds, OnLoad
  <2>6. ASSUME NEW size \in StateSizes,
               LoadGameNegativeSize(size) \/ Serialize(size) \/ Unserialize(size)
        PROVE  NoUseAfterUnload'
    BY <2>6 DEF LoadGameNegativeSize, Serialize, Unserialize
  <2>7. CASE \/ InitializeThrows \/ GetSystemAvInfo \/ Reset \/ SetControllerPortDevice
             \/ RunThrows \/ RunEnd
    BY <2>7 DEF InitializeThrows, GetSystemAvInfo, Reset, SetControllerPortDevice, RunThrows, RunEnd
  <2>8. CASE UnloadGame
    BY <2>8 DEF UnloadGame
  <2>9. CASE Deinitialize
    BY <2>9 DEF Deinitialize, LogicalTeardown
  <2>10. CASE UNCHANGED vars
    BY <2>10 DEF vars
  <2> QED
    BY <2>1, <2>2, <2>3, <2>4, <2>5, <2>6, <2>7, <2>8, <2>9, <2>10 DEF Next
<1> QED
  BY <1>1, <1>2, TypeCorrect, PTL DEF Spec

----------------------------------------------------------------------------
(* What a step of the host may never do, and what a core is promised.      *)

\* The failure latch is cleared by a whole logical teardown and nothing else.
THEOREM LatchClearedByTeardown ==
    ASSUME SoundPlatform PROVE Spec => FailureClearedByTeardown
<1> DEFINE Cleared ==
        failed /\ ~failed' =>
            /\ state' = "Uninitialized" /\ corePhase' = "cold" /\ ~coreBroke'
            /\ env' = Null /\ callbacks' = {} /\ logger' = Null /\ bitmasks' = Null
            /\ pins' = {} /\ stateSize' = 0
<1>1. TypeOK /\ HostInv /\ [Next]_vars => [Cleared]_vars
  <2> SUFFICES ASSUME TypeOK, HostInv, [Next]_vars, failed, ~failed' PROVE Cleared
    OBVIOUS
  <2> USE DEF registration, content, RequirementsThrow, RecordFailure, UseCore,
              LoadGameCatch, LoadGuard, Usable, StateTransfer
  <2>1. ~UNCHANGED failed
    OBVIOUS
  <2>2. CASE Deinitialize
    BY <2>2, ReleaseCompletes
    DEF Deinitialize, LogicalTeardown, ReleaseContentResources, HostInv, CoreFollowsState,
        ResourcesFollowContent, OnUnload, OnDeinitialize
  <2>3. CASE UnloadGame
    BY <2>3, ReleaseCompletes DEF UnloadGame
  <2>4. ASSUME NEW e \in Environments \cup {Null}, NEW granted \in BOOLEAN,
               SetEnvironment(e, granted)
        PROVE  Cleared
    BY <2>4 DEF SetEnvironment
  <2>5. ASSUME NEW c \in FrameCallbacks, NEW set \in BOOLEAN, SetCallback(c, set)
        PROVE  Cleared
    BY <2>5 DEF SetCallback
  <2>6. ASSUME NEW r \in RequirementSets, NEW granted \in BOOLEAN,
               Initialize(r, granted) \/ RunBegin(r)
        PROVE  Cleared
    BY <2>6 DEF Initialize, RunBegin
  <2>7. ASSUME NEW advertised \in SUBSET Regions, LoadGameThrows(advertised)
        PROVE  Cleared
    BY <2>7 DEF LoadGameThrows
  <2>8. ASSUME NEW advertised \in SUBSET Regions, NEW size \in StateSizes,
               LoadGameSucceeds(advertised, size)
        PROVE  Cleared
    BY <2>8 DEF LoadGameSucceeds
  <2>9. ASSUME NEW size \in StateSizes,
               LoadGameNegativeSize(size) \/ Serialize(size) \/ Unserialize(size)
        PROVE  Cleared
    BY <2>9 DEF LoadGameNegativeSize, Serialize, Unserialize
  <2>10. CASE \/ InitializeThrows \/ GetSystemAvInfo \/ Reset \/ SetControllerPortDevice
             \/ RunThrows \/ RunEnd
    BY <2>10 DEF InitializeThrows, GetSystemAvInfo, Reset, SetControllerPortDevice, RunThrows, RunEnd
  <2>11. CASE UNCHANGED vars
    BY <2>1, <2>11 DEF vars
  <2> QED
    BY <2>2, <2>3, <2>4, <2>5, <2>6, <2>7, <2>8, <2>9, <2>10, <2>11 DEF Next
<1> QED
  BY <1>1, HostSafe, TypeCorrect, PTL DEF Spec, FailureClearedByTeardown

\* What the frontend was handed for a session stays as it is until the session
\* ends: only a load, an unload or a teardown changes it.
THEOREM SessionKeepsResources ==
    ASSUME SoundPlatform PROVE Spec => SessionResourcesStable
<1> DEFINE Stable ==
        state = "ContentLoaded" /\ state' = "ContentLoaded" =>
            UNCHANGED <<pins, stateSize, env, logger, bitmasks>>
<1>1. [Next]_vars => [Stable]_vars
  <2> SUFFICES ASSUME [Next]_vars, state = "ContentLoaded", state' = "ContentLoaded"
               PROVE  UNCHANGED <<pins, stateSize, env, logger, bitmasks>>
    OBVIOUS
  <2> USE DEF registration, content, RequirementsThrow, UseCore, LoadGuard, StateTransfer
  <2>1. CASE Deinitialize
    BY <2>1, ReleaseCompletes DEF Deinitialize, LogicalTeardown
  <2>2. CASE UnloadGame
    BY <2>2, ReleaseCompletes DEF UnloadGame
  <2>3. ASSUME NEW e \in Environments \cup {Null}, NEW granted \in BOOLEAN,
               SetEnvironment(e, granted)
        PROVE  FALSE
    BY <2>3 DEF SetEnvironment
  <2>4. ASSUME NEW c \in FrameCallbacks, NEW set \in BOOLEAN, SetCallback(c, set)
        PROVE  UNCHANGED <<pins, stateSize, env, logger, bitmasks>>
    BY <2>4 DEF SetCallback
  <2>5. ASSUME NEW r \in RequirementSets, NEW granted \in BOOLEAN, Initialize(r, granted)
        PROVE  FALSE
    BY <2>5 DEF Initialize
  <2>6. ASSUME NEW r \in RequirementSets, RunBegin(r)
        PROVE  UNCHANGED <<pins, stateSize, env, logger, bitmasks>>
    BY <2>6 DEF RunBegin
  <2>7. ASSUME NEW advertised \in SUBSET Regions, LoadGameThrows(advertised)
        PROVE  FALSE
    BY <2>7 DEF LoadGameThrows
  <2>8. ASSUME NEW advertised \in SUBSET Regions, NEW size \in StateSizes,
               LoadGameSucceeds(advertised, size)
        PROVE  FALSE
    BY <2>8 DEF LoadGameSucceeds
  <2>9. ASSUME NEW size \in StateSizes, LoadGameNegativeSize(size)
        PROVE  FALSE
    BY <2>9 DEF LoadGameNegativeSize
  <2>10. ASSUME NEW size \in StateSizes, Serialize(size) \/ Unserialize(size)
         PROVE  UNCHANGED <<pins, stateSize, env, logger, bitmasks>>
    BY <2>10 DEF Serialize, Unserialize
  <2>11. CASE \/ InitializeThrows \/ GetSystemAvInfo \/ Reset \/ SetControllerPortDevice
              \/ RunThrows \/ RunEnd \/ UNCHANGED vars
    BY <2>11 DEF InitializeThrows, GetSystemAvInfo, Reset, SetControllerPortDevice,
                 RunThrows, RunEnd, vars
  <2> QED
    BY <2>1, <2>2, <2>3, <2>4, <2>5, <2>6, <2>7, <2>8, <2>9, <2>10, <2>11 DEF Next
<1> QED
  BY <1>1, PTL DEF Spec, SessionResourcesStable

\* A region whose memory manager throws is the one thing that keeps a teardown from
\* completing: without one retro_deinit always leaves the host as constructed,
\* whatever the core throws and whenever it is called (Deinitialize,
\* LibretroHost.cs, and PHASE-2.md).
THEOREM TeardownsComplete == ASSUME SoundPlatform PROVE Spec => TeardownCompletes
<1>1. Deinitialize => state' = "Uninitialized"
  BY ReleaseCompletes DEF Deinitialize, LogicalTeardown
<1> QED
  BY <1>1, PTL DEF TeardownCompletes

\* The core only ever sees what an ILibretroCore is promised: every step of the
\* host is a step of the contract or leaves the core alone.
THEOREM HostImplementsContract ==
    ASSUME SoundPlatform PROVE Spec => ImplementsContract
<1>1. Init => Contract!ContractInit
  BY DEF Init, Contract!ContractInit
<1>2. TypeOK /\ HostInv /\ [Next]_vars => [Contract!ContractNext]_(Contract!contract)
  <2> SUFFICES ASSUME TypeOK, HostInv, [Next]_vars
               PROVE  Contract!ContractNext \/ UNCHANGED <<corePhase, coreBroke>>
    BY DEF Contract!contract
  <2> USE DEF TypeOK, HostInv, CoreFollowsState, CoreFailureLatched, UnboundLoggerNeverInUse,
              OnInitialize, OnLoad, OnUnload, OnDeinitialize, OnUse, RequirementsThrow,
              RecordFailure, UseCore, LoadGameCatch, LoadGuard, Usable, StateTransfer,
              Contract!ContractNext, Contract!Returns, Contract!Throws
  <2>1. ASSUME NEW e \in Environments \cup {Null}, NEW granted \in BOOLEAN, SetEnvironment(e, granted)
        PROVE  Contract!ContractNext \/ UNCHANGED <<corePhase, coreBroke>>
    BY <2>1 DEF SetEnvironment, Contract!ConfigureEnvironment
  <2>2. ASSUME NEW c \in FrameCallbacks, NEW set \in BOOLEAN, SetCallback(c, set)
        PROVE  Contract!ContractNext \/ UNCHANGED <<corePhase, coreBroke>>
    BY <2>2 DEF SetCallback
  <2>3. ASSUME NEW r \in RequirementSets, NEW granted \in BOOLEAN, Initialize(r, granted)
        PROVE  Contract!ContractNext \/ UNCHANGED <<corePhase, coreBroke>>
    BY <2>3 DEF Initialize, Contract!InitializeCore
  <2>4. ASSUME InitializeThrows
        PROVE  Contract!ContractNext \/ UNCHANGED <<corePhase, coreBroke>>
    BY <2>4 DEF InitializeThrows, Contract!InitializeCore
  <2>5. ASSUME NEW advertised \in SUBSET Regions, NEW size \in StateSizes, LoadGameSucceeds(advertised, size)
        PROVE  Contract!ContractNext \/ UNCHANGED <<corePhase, coreBroke>>
    BY <2>5, ReleaseCompletes DEF LoadGameSucceeds, Contract!LoadContent
  <2>6. ASSUME NEW advertised \in SUBSET Regions, LoadGameThrows(advertised)
        PROVE  Contract!ContractNext \/ UNCHANGED <<corePhase, coreBroke>>
    <3>1. corePhase = "ready" /\ coreBroke = FALSE /\ coreBroke' = TRUE
      BY <2>6 DEF LoadGameThrows
    <3>2. corePhase' = corePhase
      BY <2>6, <3>1, ReleaseCompletes DEF LoadGameThrows
    <3> QED
      BY <3>1, <3>2 DEF Contract!LoadContent
  <2>7. ASSUME NEW size \in StateSizes, LoadGameNegativeSize(size)
        PROVE  Contract!ContractNext \/ UNCHANGED <<corePhase, coreBroke>>
    BY <2>7, ReleaseCompletes DEF LoadGameNegativeSize, Contract!LoadContent
  <2>8. ASSUME GetSystemAvInfo
        PROVE  Contract!ContractNext \/ UNCHANGED <<corePhase, coreBroke>>
    BY <2>8 DEF GetSystemAvInfo, Contract!Use
  <2>9. ASSUME Reset
        PROVE  Contract!ContractNext \/ UNCHANGED <<corePhase, coreBroke>>
    BY <2>9 DEF Reset, Contract!Use
  <2>10. ASSUME SetControllerPortDevice
        PROVE  Contract!ContractNext \/ UNCHANGED <<corePhase, coreBroke>>
    BY <2>10 DEF SetControllerPortDevice, Contract!Use
  <2>11. ASSUME NEW size \in StateSizes, Serialize(size)
        PROVE  Contract!ContractNext \/ UNCHANGED <<corePhase, coreBroke>>
    BY <2>11 DEF Serialize, ResourcesFollowContent, Contract!Use
  <2>12. ASSUME NEW size \in StateSizes, Unserialize(size)
        PROVE  Contract!ContractNext \/ UNCHANGED <<corePhase, coreBroke>>
    BY <2>12 DEF Unserialize, ResourcesFollowContent, Contract!Use
  <2>13. ASSUME NEW r \in RequirementSets, RunBegin(r)
        PROVE  Contract!ContractNext \/ UNCHANGED <<corePhase, coreBroke>>
    BY <2>13 DEF RunBegin, Contract!Use
  <2>14. ASSUME RunThrows
        PROVE  Contract!ContractNext \/ UNCHANGED <<corePhase, coreBroke>>
    BY <2>14 DEF RunThrows, Contract!Use
  <2>15. ASSUME RunEnd
        PROVE  Contract!ContractNext \/ UNCHANGED <<corePhase, coreBroke>>
    <3>1. CASE UNCHANGED coreBroke
      BY <2>15, <3>1 DEF RunEnd
    <3>2. CASE coreBroke' # coreBroke
      <4>1. corePhase' = corePhase /\ coreBroke = FALSE /\ coreBroke' = TRUE
        BY <2>15, <3>2 DEF RunEnd
      <4>2. CASE corePhase = "loaded"
        BY <4>1, <4>2 DEF Contract!Use
      <4>3. CASE corePhase = "ready"
        BY <4>1, <4>3 DEF Contract!Use
      <4>4. CASE corePhase = "cold"
        BY <4>1, <4>4 DEF Contract!ConfigureEnvironment
      <4>5. corePhase \in {"cold", "ready", "loaded"}
        BY DEF CoreFollowsState
      <4> QED
        BY <4>2, <4>3, <4>4, <4>5
    <3> QED
      BY <3>1, <3>2
  <2>16. ASSUME UnloadGame
        PROVE  Contract!ContractNext \/ UNCHANGED <<corePhase, coreBroke>>
    BY <2>16, ReleaseCompletes DEF UnloadGame, Contract!UnloadContent
  <2>17. ASSUME Deinitialize
        PROVE  Contract!ContractNext \/ UNCHANGED <<corePhase, coreBroke>>
    BY <2>17, ReleaseCompletes DEF Deinitialize, MayCall, Contract!Teardown
  <2>18. CASE UNCHANGED vars
    BY <2>18 DEF vars
  <2> QED
    BY <2>1, <2>2, <2>3, <2>4, <2>5, <2>6, <2>7, <2>8, <2>9,
       <2>10, <2>11, <2>12, <2>13, <2>14, <2>15, <2>16, <2>17, <2>18
    DEF Next
<1> QED
  BY <1>1, <1>2, HostSafe, TypeCorrect, PTL DEF Spec, ImplementsContract, Contract!ContractSpec

=============================================================================
