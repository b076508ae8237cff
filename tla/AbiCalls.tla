------------------------------ MODULE AbiCalls ------------------------------
(***************************************************************************)
(* A call across the C boundary.  The caller puts each argument into a     *)
(* register by its own declaration and leaves the rest of the register as  *)
(* it is; the callee takes from it what its own declaration says.  The     *)
(* frontend's side is declared in libretro.h, the core's in the            *)
(* UnmanagedCallersOnly exports and the function pointer types of          *)
(* RetroFrontendCallbacks, and nothing compares them.                      *)
(***************************************************************************)
EXTENDS Integers, Sequences

CONSTANT Patterns    \* the contents of a register that are considered: eight bytes,
                     \* little-endian

Signature(result, parameters) == [result |-> result, parameters |-> parameters]

----------------------------------------------------------------------------
(* libretro.h, and the native helper.                                      *)

retro_environment_t == Signature("bool", <<"unsigned", "pointer">>)
retro_video_refresh_t == Signature("void", <<"pointer", "unsigned", "unsigned", "size_t">>)
retro_audio_sample_t == Signature("void", <<"int16_t", "int16_t">>)
retro_audio_sample_batch_t == Signature("size_t", <<"pointer", "size_t">>)
retro_input_poll_t == Signature("void", << >>)
retro_input_state_t ==
    Signature("int16_t", <<"unsigned", "unsigned", "unsigned", "unsigned">>)

\* libretro_core_log_message, whose call LogLine has.
libretro_log_shim == Signature("void", <<"pointer", "enum", "pointer">>)

retro_set_environment == Signature("void", <<"pointer">>)
retro_set_video_refresh == Signature("void", <<"pointer">>)
retro_set_audio_sample == Signature("void", <<"pointer">>)
retro_set_audio_sample_batch == Signature("void", <<"pointer">>)
retro_set_input_poll == Signature("void", <<"pointer">>)
retro_set_input_state == Signature("void", <<"pointer">>)
retro_init == Signature("void", << >>)
retro_deinit == Signature("void", << >>)
retro_api_version == Signature("unsigned", << >>)
retro_get_system_info == Signature("void", <<"pointer">>)
retro_get_system_av_info == Signature("void", <<"pointer">>)
retro_set_controller_port_device == Signature("void", <<"unsigned", "unsigned">>)
retro_reset == Signature("void", << >>)
retro_run == Signature("void", << >>)
retro_serialize_size == Signature("size_t", << >>)
retro_serialize == Signature("bool", <<"pointer", "size_t">>)
retro_unserialize == Signature("bool", <<"pointer", "size_t">>)
retro_cheat_reset == Signature("void", << >>)
retro_cheat_set == Signature("void", <<"unsigned", "bool", "pointer">>)
retro_load_game == Signature("bool", <<"pointer">>)
retro_load_game_special == Signature("bool", <<"unsigned", "pointer", "size_t">>)
retro_unload_game == Signature("void", << >>)
retro_get_region == Signature("unsigned", << >>)
retro_get_memory_data == Signature("pointer", <<"unsigned">>)
retro_get_memory_size == Signature("size_t", <<"unsigned">>)

Native ==
    [environment |-> retro_environment_t, video_refresh |-> retro_video_refresh_t,
     audio_sample |-> retro_audio_sample_t,
     audio_sample_batch |-> retro_audio_sample_batch_t,
     input_poll |-> retro_input_poll_t, input_state |-> retro_input_state_t,
     log_message |-> libretro_log_shim,
     set_environment |-> retro_set_environment,
     set_video_refresh |-> retro_set_video_refresh,
     set_audio_sample |-> retro_set_audio_sample,
     set_audio_sample_batch |-> retro_set_audio_sample_batch,
     set_input_poll |-> retro_set_input_poll, set_input_state |-> retro_set_input_state,
     init |-> retro_init, deinit |-> retro_deinit, api_version |-> retro_api_version,
     get_system_info |-> retro_get_system_info,
     get_system_av_info |-> retro_get_system_av_info,
     set_controller_port_device |-> retro_set_controller_port_device,
     reset |-> retro_reset, run |-> retro_run, serialize_size |-> retro_serialize_size,
     serialize |-> retro_serialize, unserialize |-> retro_unserialize,
     cheat_reset |-> retro_cheat_reset, cheat_set |-> retro_cheat_set,
     load_game |-> retro_load_game, load_game_special |-> retro_load_game_special,
     unload_game |-> retro_unload_game, get_region |-> retro_get_region,
     get_memory_data |-> retro_get_memory_data,
     get_memory_size |-> retro_get_memory_size]

----------------------------------------------------------------------------
(* RetroFrontendCallbacks.cs, RetroLogger.cs, LibretroExports.cs.          *)

RetroFrontendCallbacks ==
    [environment |-> Signature("byte", <<"uint", "pointer">>),
     video_refresh |-> Signature("void", <<"pointer", "uint", "uint", "nuint">>),
     audio_sample |-> Signature("void", <<"short", "short">>),
     audio_sample_batch |-> Signature("nuint", <<"pointer", "nuint">>),
     input_poll |-> Signature("void", << >>),
     input_state |-> Signature("short", <<"uint", "uint", "uint", "uint">>)]

LogMessage == [log_message |-> Signature("void", <<"pointer", "int", "pointer">>)]

Registration ==
    [f \in {"set_environment", "set_video_refresh", "set_audio_sample",
            "set_audio_sample_batch", "set_input_poll", "set_input_state"} |->
        Signature("void", <<"pointer">>)]

States ==
    [serialize_size |-> Signature("nuint", << >>),
     serialize |-> Signature("byte", <<"pointer", "nuint">>),
     unserialize |-> Signature("byte", <<"pointer", "nuint">>)]

\* Variant that must break a property: a bool argument read as a C int.
ContentWithIntFlag ==
    [load_game |-> Signature("byte", <<"pointer">>),
     load_game_special |-> Signature("byte", <<"uint", "pointer", "nuint">>),
     unload_game |-> Signature("void", << >>),
     cheat_reset |-> Signature("void", << >>),
     cheat_set |-> Signature("void", <<"uint", "int", "pointer">>),
     get_memory_data |-> Signature("pointer", <<"uint">>),
     get_memory_size |-> Signature("nuint", <<"uint">>)]

Content ==
    [load_game |-> Signature("byte", <<"pointer">>),
     load_game_special |-> Signature("byte", <<"uint", "pointer", "nuint">>),
     unload_game |-> Signature("void", << >>),
     cheat_reset |-> Signature("void", << >>),
     cheat_set |-> Signature("void", <<"uint", "byte", "pointer">>),
     get_memory_data |-> Signature("pointer", <<"uint">>),
     get_memory_size |-> Signature("nuint", <<"uint">>)]

Running ==
    [init |-> Signature("void", << >>), deinit |-> Signature("void", << >>),
     api_version |-> Signature("uint", << >>),
     get_system_info |-> Signature("void", <<"pointer">>),
     get_system_av_info |-> Signature("void", <<"pointer">>),
     set_controller_port_device |-> Signature("void", <<"uint", "uint">>),
     reset |-> Signature("void", << >>), run |-> Signature("void", << >>),
     get_region |-> Signature("uint", << >>)]

Exports ==
    [f \in DOMAIN Registration \cup DOMAIN States \cup DOMAIN Content \cup DOMAIN Running |->
        IF f \in DOMAIN Registration THEN Registration[f]
        ELSE IF f \in DOMAIN States THEN States[f]
        ELSE IF f \in DOMAIN Content THEN Content[f] ELSE Running[f]]

----------------------------------------------------------------------------
(* A call is from managed code to native code, or an export's.             *)

Outgoing == DOMAIN RetroFrontendCallbacks \cup DOMAIN LogMessage
Functions == Outgoing \cup DOMAIN Exports

Managed(f) ==
    IF f \in DOMAIN RetroFrontendCallbacks THEN RetroFrontendCallbacks[f]
    ELSE IF f \in DOMAIN LogMessage THEN LogMessage[f] ELSE Exports[f]

Caller(f) == IF f \in Outgoing THEN Managed(f) ELSE Native[f]
Callee(f) == IF f \in Outgoing THEN Native[f] ELSE Managed(f)

\* On a 64-bit platform.
Width(type) ==
    CASE type \in {"pointer", "size_t", "nuint"} -> 8
      [] type \in {"unsigned", "uint", "enum", "int"} -> 4
      [] type \in {"int16_t", "short"} -> 2
      [] OTHER -> 1

Signed(type) == type \in {"int16_t", "short", "enum", "int"}

\* Of which the bytes beyond the type's width are no part.  A bool is 0 or 1:
\* _Bool has no other value, and the exports return no other.
Values(type) == IF type \in {"bool", "byte"} THEN {<<0>>, <<1>>} ELSE Patterns

Negative(type, bytes) == Signed(type) /\ bytes[Width(type)] >= 128

\* A value as eight bytes.
Extended(type, bytes) ==
    [i \in 1 .. 8 |-> IF i <= Width(type) THEN bytes[i]
                      ELSE IF Negative(type, bytes) THEN 255 ELSE 0]

VARIABLES
    function,
    callStage,      \* "passing", "running", "returned"
    passed,         \* arguments so far
    sent, taken     \* the last value that crossed, at either end

callVars == <<function, callStage, passed, sent, taken>>

Nothing == [i \in 1 .. 8 |-> 0]

CallInit ==
    /\ function \in Functions
    /\ callStage = "passing" /\ passed = 0
    /\ sent = Nothing /\ taken = Nothing

\* A value in a register whose other bytes stay as they are.
Register(type, value, left) ==
    [i \in 1 .. 8 |-> IF i <= Width(type) THEN value[i] ELSE left[i]]

Cross(from, to) ==
    \E value \in Values(from), left \in Patterns :
        /\ sent' = Extended(from, value)
        /\ taken' = Extended(to, Register(from, value, left))

PassArgument ==
    /\ callStage = "passing"
    /\ passed < Len(Caller(function).parameters)
    /\ passed < Len(Callee(function).parameters)
    /\ passed' = passed + 1
    /\ Cross(Caller(function).parameters[passed'], Callee(function).parameters[passed'])
    /\ UNCHANGED <<function, callStage>>

Enter ==
    /\ callStage = "passing"
    /\ passed = Len(Caller(function).parameters)
    /\ callStage' = "running"
    /\ UNCHANGED <<function, passed, sent, taken>>

Return ==
    /\ callStage = "running"
    /\ callStage' = "returned"
    /\ IF Callee(function).result = "void"
       THEN UNCHANGED <<sent, taken>>
       ELSE Cross(Callee(function).result, Caller(function).result)
    /\ UNCHANGED <<function, passed>>

CallNext == PassArgument \/ Enter \/ Return

CallSpec == CallInit /\ [][CallNext]_callVars

----------------------------------------------------------------------------
(* Properties.                                                             *)

\* Every argument arrives as it was passed and every result as it was returned,
\* whatever else the registers held; a function runs with as many arguments as it
\* takes, and a caller that takes a result gets one: both sides declare the same
\* widths and signs (libretro.h against LibretroExports, RetroFrontendCallbacks
\* and RetroLogger).
ValuesArrive ==
    /\ taken = sent
    /\ callStage = "running" => passed = Len(Callee(function).parameters)
    /\ callStage = "returned" =>
           (Callee(function).result = "void" <=> Caller(function).result = "void")
=============================================================================
