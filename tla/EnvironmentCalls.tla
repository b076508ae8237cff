-------------------------- MODULE EnvironmentCalls --------------------------
(***************************************************************************)
(* One call of RetroEnvironment: the C# method picks a number, points at   *)
(* some memory and calls the frontend, which knows nothing but the number  *)
(* and the pointer and takes both as libretro.h says; the method then      *)
(* reads the memory back.  Nothing checks that both mean the same command  *)
(* or the same type.                                                       *)
(*                                                                         *)
(* Memory holds a sequence of numbers; what either side means by them is a *)
(* sequence of sets of names, singletons but for flags.                    *)
(***************************************************************************)
EXTENDS LibretroInterface

CONSTANT None     \* no command

----------------------------------------------------------------------------
(* LibretroConstants.cs.                                                   *)

EnvironmentExperimental == 65536

\* Variant that must break a property: a command without its flag, which a
\* frontend that masks it never notices.
BitmasksWithoutFlag ==
    [SetMessage |-> 6, GetSystemDirectory |-> 9, SetPixelFormat |-> 10,
     SetInputDescriptors |-> 11, GetVariable |-> 15, GetVariableUpdate |-> 17,
     SetSupportNoGame |-> 18, GetLogInterface |-> 27, GetContentDirectory |-> 30,
     GetCoreAssetsDirectory |-> 30, GetSaveDirectory |-> 31, SetControllerInfo |-> 35,
     GetLanguage |-> 39, GetAudioVideoEnable |-> 47 + EnvironmentExperimental,
     GetFastForwarding |-> 49 + EnvironmentExperimental, GetInputBitmasks |-> 51,
     GetMessageInterfaceVersion |-> 59, SetMessageExtended |-> 60, SetCoreOptionsV2 |-> 67]

RetroEnvironmentCommand ==
    [SetMessage |-> 6, GetSystemDirectory |-> 9, SetPixelFormat |-> 10,
     SetInputDescriptors |-> 11, GetVariable |-> 15, GetVariableUpdate |-> 17,
     SetSupportNoGame |-> 18, GetLogInterface |-> 27, GetContentDirectory |-> 30,
     GetCoreAssetsDirectory |-> 30, GetSaveDirectory |-> 31, SetControllerInfo |-> 35,
     GetLanguage |-> 39, GetAudioVideoEnable |-> 47 + EnvironmentExperimental,
     GetFastForwarding |-> 49 + EnvironmentExperimental,
     GetInputBitmasks |-> 51 + EnvironmentExperimental,
     GetMessageInterfaceVersion |-> 59, SetMessageExtended |-> 60, SetCoreOptionsV2 |-> 67]

RetroPixelFormats == <<"ZeroRgb1555", "Xrgb8888", "Rgb565">>

RetroPixelFormat == And(Numbered(RetroPixelFormats), "Unknown", IntMax)

RetroDevice ==
    Numbered(<<"None", "Joypad", "Mouse", "Keyboard", "LightGun", "Analog", "Pointer">>)

RetroJoypadIds ==
    <<"B", "Y", "Select", "Start", "Up", "Down", "Left", "Right",
      "A", "X", "L", "R", "L2", "R2", "L3", "R3">>

RetroJoypadId == And(Numbered(RetroJoypadIds), "Mask", 256)

RetroLanguages ==
    <<"English", "Japanese", "French", "Spanish", "German", "Italian", "Dutch",
      "PortugueseBrazil", "PortuguesePortugal", "Russian", "Korean",
      "ChineseTraditional", "ChineseSimplified", "Esperanto", "Polish",
      "Vietnamese", "Arabic", "Greek", "Turkish", "Slovak", "Persian", "Hebrew",
      "Asturian", "Finnish", "Indonesian", "Swedish", "Ukrainian", "Czech",
      "CatalanValencia", "Catalan", "BritishEnglish", "Hungarian", "Belarusian",
      "Galician", "Norwegian", "Irish", "Thai", "Last">>

RetroLanguage == And(Numbered(RetroLanguages), "Unknown", IntMax)

RetroAudioVideoEnableFlags ==
    [Video |-> 1, Audio |-> 2, FastSaveStates |-> 4, HardDisableAudio |-> 8]

RetroLogLevel == Numbered(<<"Debug", "Info", "Warning", "Error">>)
RetroMessageTarget == Numbered(<<"All", "OnScreenDisplay", "Log">>)
RetroMessageType == Numbered(<<"Notification", "NotificationAlternate", "Status", "Progress">>)

----------------------------------------------------------------------------
(* What a memory of some type holds, and how many bytes it is.             *)

Truth == [no |-> 0, yes |-> 1]
Address == [null |-> 0, something |-> 1]
Count == Numbered(<<"zero", "one", "two">>)

\* By the header's types.
NativeTypes ==
    [bool |-> <<Truth>>, unsigned |-> <<Count>>, string |-> <<Address>>,
     retro_pixel_format |-> <<retro_pixel_format>>, retro_language |-> <<retro_language>>,
     retro_av_enable_flags |-> <<retro_av_enable_flags>>,
     retro_log_callback |-> <<Address>>, retro_variable |-> <<Address>>,
     retro_message |-> <<Address>>, retro_core_options_v2 |-> <<Address>>,
     retro_controller_info |-> <<RETRO_DEVICE>>,
     retro_input_descriptor |-> <<RETRO_DEVICE, RETRO_DEVICE_ID_JOYPAD>>,
     retro_message_ext |-> <<retro_log_level, retro_message_target, retro_message_type>>]

\* By the types of the C# methods' locals and parameters.
ManagedTypes ==
    [byte |-> <<Truth>>, uint |-> <<Count>>, pointer |-> <<Address>>,
     int |-> <<RetroPixelFormat>>, RetroLanguage |-> <<RetroLanguage>>,
     RetroAudioVideoEnableFlags |-> <<RetroAudioVideoEnableFlags>>,
     RetroLogCallback |-> <<Address>>, RetroVariable |-> <<Address>>,
     RetroMessage |-> <<Address>>, RetroCoreOptionsV2 |-> <<Address>>,
     RetroControllerInfo |-> <<RetroDevice>>,
     RetroInputDescriptor |-> <<RetroDevice, RetroJoypadId>>,
     RetroMessageExtended |-> <<RetroLogLevel, RetroMessageTarget, RetroMessageType>>]

\* On a 64-bit platform.  Any other structure is taken to be larger than all.
DataWidth(type) ==
    CASE type \in {"bool", "byte"} -> 1
      [] type \in {"unsigned", "float", "retro_pixel_format", "retro_language",
                   "retro_av_enable_flags", "uint", "int", "RetroLanguage",
                   "RetroAudioVideoEnableFlags"} -> 4
      [] type \in {"string", "uint64_t", "retro_log_callback", "pointer",
                   "RetroLogCallback"} -> 8
      [] type \in {"retro_variable", "retro_message", "retro_controller_info",
                   "retro_core_options_v2", "RetroVariable", "RetroMessage",
                   "RetroControllerInfo", "RetroCoreOptionsV2"} -> 16
      [] type \in {"retro_input_descriptor", "RetroInputDescriptor"} -> 24
      [] type \in {"retro_message_ext", "RetroMessageExtended"} -> 32
      [] OTHER -> 4096

Flags(enumeration) == "HardDisableAudio" \in DOMAIN enumeration

\* One name has its own number, flags have the sum of theirs.
Number(enumeration, names) ==
    IF Flags(enumeration)
    THEN LET bit(name) == IF name \in names THEN enumeration[name] ELSE 0
         IN  bit("Video") + bit("Audio") + bit("FastSaveStates") + bit("HardDisableAudio")
    ELSE enumeration[CHOOSE name \in names : TRUE]

Numbers(enumerations, meaning) ==
    [i \in DOMAIN enumerations |-> Number(enumerations[i], meaning[i])]

\* A number that no name has means nothing, the empty set.
Understood(enumeration, number) ==
    {name \in DOMAIN enumeration :
        IF Flags(enumeration) THEN (number \div enumeration[name]) % 2 = 1
                              ELSE number = enumeration[name]}

Meaning(enumerations, numbers) ==
    [i \in DOMAIN enumerations |-> Understood(enumerations[i], numbers[i])]

\* What can be meant by an enumeration.
Meanings(enumeration) ==
    IF Flags(enumeration) THEN SUBSET DOMAIN enumeration
                          ELSE {{name} : name \in DOMAIN enumeration}

----------------------------------------------------------------------------

VARIABLES
    frontend,      \* [present, masks : BOOLEAN]: a callback is set, and it
                   \* clears the experimental bit before it looks a command up
    askStage,      \* "idle", "asked", "answered", "returned"
    command,       \* the C# name
    data,          \* where the pointer leads: [null, type, numbers]
    said, heard,   \* what the side that tells something means, and what the
                   \* other one makes of it
    served,        \* the command the frontend takes it for
    accepted,      \* the frontend's result
    returned       \* the method's

askVars == <<frontend, askStage, command, data, said, heard, served, accepted, returned>>

Null == [null |-> TRUE, type |-> "none", numbers |-> << >>]
To(type, meaning) ==
    [null |-> FALSE, type |-> type, numbers |-> Numbers(ManagedTypes[type], meaning)]

AskInit ==
    /\ frontend \in [present : BOOLEAN, masks : BOOLEAN]
    /\ askStage = "idle" /\ command = "none"
    /\ data = Null
    /\ said = << >> /\ heard = << >>
    /\ served = None
    /\ accepted = FALSE /\ returned = FALSE

----------------------------------------------------------------------------
(* RetroEnvironment, up to the call.                                       *)

Invoke(name, memory, meaning) ==
    /\ askStage = "idle"
    /\ askStage' = IF frontend.present THEN "asked" ELSE "answered"
    /\ command' = name
    /\ data' = memory
    /\ said' = meaning
    /\ UNCHANGED <<frontend, heard, served, accepted, returned>>

Tell(name, type, meaning) == Invoke(name, To(type, meaning), meaning)
Ask(name, type, initially) == Invoke(name, To(type, <<initially>>), << >>)

\* The method returns false by itself.
Refuse(name) ==
    /\ askStage = "idle"
    /\ askStage' = "answered"
    /\ command' = name
    /\ UNCHANGED <<frontend, data, said, heard, served, accepted, returned>>

SetPixelFormat ==
    \E format \in Meanings(RetroPixelFormat) : Tell("SetPixelFormat", "int", <<format>>)

SetSupportNoGame ==
    \E supported \in Meanings(Truth) : Tell("SetSupportNoGame", "byte", <<supported>>)

SetInputDescriptors ==
    \/ Refuse("SetInputDescriptors")
    \/ \E button \in Meanings(RetroJoypadId) \ {{"Mask"}} :
           Tell("SetInputDescriptors", "RetroInputDescriptor", <<{"Joypad"}, button>>)

SetControllerInfo ==
    \/ Refuse("SetControllerInfo")
    \/ \E device \in Meanings(RetroDevice) :
           Tell("SetControllerInfo", "RetroControllerInfo", <<device>>)

SupportsInputBitmasks == Invoke("GetInputBitmasks", Null, << >>)

SetCoreOptionsV2 ==
    \/ Invoke("SetCoreOptionsV2", Null, << >>)
    \/ Tell("SetCoreOptionsV2", "RetroCoreOptionsV2", <<{"something"}>>)

GetLogInterface == Ask("GetLogInterface", "RetroLogCallback", {"null"})
GetVariableUpdate == Ask("GetVariableUpdate", "byte", {"no"})

GetVariable ==
    \/ Refuse("GetVariable")
    \/ Ask("GetVariable", "RetroVariable", {"null"})

GetDirectory(name) == Ask(name, "pointer", {"null"})

GetDirectories ==
    \E name \in {"GetSystemDirectory", "GetSaveDirectory", "GetContentDirectory",
                 "GetCoreAssetsDirectory"} : GetDirectory(name)

GetLanguage == Ask("GetLanguage", "RetroLanguage", {"English"})

\* Variant that must break a property: the flags in a byte.
AudioVideoEnableInAByte == Ask("GetAudioVideoEnable", "byte", {"yes"})

GetAudioVideoEnable ==
    Ask("GetAudioVideoEnable", "RetroAudioVideoEnableFlags", {"Video", "Audio"})

GetFastForwarding == Ask("GetFastForwarding", "byte", {"no"})
GetMessageInterfaceVersion == Ask("GetMessageInterfaceVersion", "uint", {"zero"})

SetMessage ==
    \/ Refuse("SetMessage")
    \/ Tell("SetMessage", "RetroMessage", <<{"something"}>>)

SetMessageExtended ==
    \/ Refuse("SetMessageExtended")
    \/ \E level \in Meanings(RetroLogLevel), target \in Meanings(RetroMessageTarget),
          type \in Meanings(RetroMessageType) :
           Tell("SetMessageExtended", "RetroMessageExtended", <<level, target, type>>)

----------------------------------------------------------------------------
(* The frontend.                                                           *)

Masked(number) ==
    IF number >= RETRO_ENVIRONMENT_EXPERIMENTAL
    THEN number - RETRO_ENVIRONMENT_EXPERIMENTAL ELSE number

Handled(number) ==
    {c \in Commands : IF frontend.masks THEN Masked(c.number) = Masked(number)
                                        ELSE c.number = number}

\* It makes sense of memory only where the numbers are those it expects.
Readable(c) == c.type \in DOMAIN NativeTypes /\ Len(NativeTypes[c.type]) = Len(data.numbers)

\* An older frontend, or none of the header's numbers.
UnknownCommand ==
    /\ askStage = "asked"
    /\ askStage' = "answered"
    /\ UNCHANGED <<frontend, command, data, said, heard, served, accepted, returned>>

\* It reads what it is told, or looks at nothing; it may still decline.
Serve ==
    /\ askStage = "asked"
    /\ \E c \in Handled(RetroEnvironmentCommand[command]) :
           /\ c.access \in {"in", "none"} \/ data.null
           /\ served' = c
           /\ heard' = IF c.access = "in" /\ Readable(c)
                       THEN Meaning(NativeTypes[c.type], data.numbers) ELSE heard
    /\ accepted' \in BOOLEAN
    /\ askStage' = "answered"
    /\ UNCHANGED <<frontend, command, data, said, returned>>

\* It writes an answer, and may decline even then: GET_VARIABLE clears the
\* value of a key it does not know.
Answer ==
    /\ askStage = "asked"
    /\ ~data.null
    /\ \E c \in Handled(RetroEnvironmentCommand[command]) :
           /\ c.access \in {"out", "inout"}
           /\ Readable(c)
           /\ served' = c
           /\ \E answer \in Meanings(NativeTypes[c.type][1]) :
                  /\ said' = <<answer>>
                  /\ data' = [data EXCEPT !.numbers = Numbers(NativeTypes[c.type], said')]
    /\ accepted' \in BOOLEAN
    /\ askStage' = "answered"
    /\ UNCHANGED <<frontend, command, heard, returned>>

----------------------------------------------------------------------------
(* RetroEnvironment, after the call.                                       *)

Queries == {"GetLogInterface", "GetVariableUpdate", "GetVariable", "GetSystemDirectory",
            "GetSaveDirectory", "GetContentDirectory", "GetCoreAssetsDirectory",
            "GetLanguage", "GetAudioVideoEnable", "GetFastForwarding",
            "GetMessageInterfaceVersion"}

Default(name) ==
    CASE name = "GetLanguage" -> <<{"English"}>>
      [] name = "GetAudioVideoEnable" -> <<{"Video", "Audio"}>>
      [] name = "GetMessageInterfaceVersion" -> <<{"zero"}>>
      [] name \in {"GetVariableUpdate", "GetFastForwarding"} -> <<{"no"}>>
      [] OTHER -> <<{"null"}>>

\* Variant that must break a property: the memory is read whatever came back.
ReturnWhateverIsThere ==
    /\ askStage = "answered"
    /\ askStage' = "returned"
    /\ heard' = IF command \notin Queries THEN heard
                ELSE IF data.null THEN Default(command)
                ELSE Meaning(ManagedTypes[data.type], data.numbers)
    /\ returned' = (accepted /\ (command = "GetLogInterface" => heard' # <<{"null"}>>))
    /\ UNCHANGED <<frontend, command, data, said, served, accepted>>

\* A logger without a function is no logger.
ReturnAnswer ==
    /\ askStage = "answered"
    /\ askStage' = "returned"
    /\ heard' = IF command \notin Queries THEN heard
                ELSE IF accepted THEN Meaning(ManagedTypes[data.type], data.numbers)
                ELSE Default(command)
    /\ returned' = (accepted /\ (command = "GetLogInterface" => heard' # <<{"null"}>>))
    /\ UNCHANGED <<frontend, command, data, said, served, accepted>>

----------------------------------------------------------------------------

Call ==
    \/ SetPixelFormat \/ SetSupportNoGame \/ SetInputDescriptors \/ SetControllerInfo
    \/ SupportsInputBitmasks \/ SetCoreOptionsV2 \/ GetLogInterface \/ GetVariableUpdate
    \/ GetVariable \/ GetDirectories \/ GetLanguage \/ GetAudioVideoEnable
    \/ GetFastForwarding \/ GetMessageInterfaceVersion \/ SetMessage \/ SetMessageExtended

AskNext == Call \/ UnknownCommand \/ Serve \/ Answer \/ ReturnAnswer

AskSpec == AskInit /\ [][AskNext]_askVars

----------------------------------------------------------------------------
(* Properties.                                                             *)

\* The header's command that a C# name stands for.
Named ==
    [SetMessage |-> SET_MESSAGE, GetSystemDirectory |-> GET_SYSTEM_DIRECTORY,
     SetPixelFormat |-> SET_PIXEL_FORMAT, SetInputDescriptors |-> SET_INPUT_DESCRIPTORS,
     GetVariable |-> GET_VARIABLE, GetVariableUpdate |-> GET_VARIABLE_UPDATE,
     SetSupportNoGame |-> SET_SUPPORT_NO_GAME, GetLogInterface |-> GET_LOG_INTERFACE,
     GetContentDirectory |-> GET_CONTENT_DIRECTORY,
     GetCoreAssetsDirectory |-> GET_CORE_ASSETS_DIRECTORY,
     GetSaveDirectory |-> GET_SAVE_DIRECTORY, SetControllerInfo |-> SET_CONTROLLER_INFO,
     GetLanguage |-> GET_LANGUAGE, GetAudioVideoEnable |-> GET_AUDIO_VIDEO_ENABLE,
     GetFastForwarding |-> GET_FASTFORWARDING, GetInputBitmasks |-> GET_INPUT_BITMASKS,
     GetMessageInterfaceVersion |-> GET_MESSAGE_INTERFACE_VERSION,
     SetMessageExtended |-> SET_MESSAGE_EXT, SetCoreOptionsV2 |-> SET_CORE_OPTIONS_V2]

\* The number a method sends is the one of the command it is named for and of no
\* other of the header's, both for a frontend that compares numbers and for one
\* that clears the experimental bit first (RetroEnvironmentCommand).
ServedAsNamed ==
    askStage = "asked" => Handled(RetroEnvironmentCommand[command]) = {Named[command]}

\* The frontend reads or writes no more bytes than the method points at, and
\* finds NULL only where the header gives it a meaning: it goes by the header's
\* type whatever the method passed (RetroEnvironment).
WithinTheData ==
    served # None =>
        IF data.null THEN served.orNull
                     ELSE served.access # "none" => DataWidth(served.type) <= DataWidth(data.type)

\* What one side says with an accepted call is what the other understands,
\* number for number and flag for flag; a question that is declined has the
\* answer the header gives it, whatever the frontend wrote before it declined;
\* and a method returns true exactly for an accepted call, but that a logger
\* without a function is none (RetroEnvironment, LibretroConstants).
HeardAsSaid ==
    askStage = "returned" =>
        /\ accepted /\ ~data.null => heard = said
        /\ ~accepted /\ command \in Queries =>
               heard = CASE command = "GetLanguage" -> <<{"English"}>>
                         [] command = "GetAudioVideoEnable" -> <<{"Video", "Audio"}>>
                         [] command = "GetMessageInterfaceVersion" -> <<{"zero"}>>
                         [] command \in {"GetVariableUpdate", "GetFastForwarding"} -> <<{"no"}>>
                         [] OTHER -> <<{"null"}>>
        /\ returned <=> accepted /\ ~(command = "GetLogInterface" /\ heard = <<{"null"}>>)
=============================================================================
