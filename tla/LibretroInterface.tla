------------------------- MODULE LibretroInterface -------------------------
(***************************************************************************)
(* What libretro.h fixes for the commands of the environment callback and  *)
(* for the numbers that calls carry: a command's number, the type of the   *)
(* data its pointer leads to, whether the frontend reads or writes it, and *)
(* whether the pointer may be NULL.  A command the core does not use is    *)
(* here because its number is taken.  Enumerations go by the C# names of   *)
(* their members.                                                          *)
(***************************************************************************)
EXTENDS Integers, SequencesExt

----------------------------------------------------------------------------
(* Numbers with a meaning.                                                 *)

IntMax == 2147483647

\* One name after another, from 0.
Numbered(names) ==
    [name \in ToSet(names) |-> CHOOSE i \in 0 .. Len(names) - 1 : names[i + 1] = name]

And(numbers, name, number) ==
    [n \in DOMAIN numbers \cup {name} |-> IF n = name THEN number ELSE numbers[n]]

RETRO_DEVICE ==
    Numbered(<<"None", "Joypad", "Mouse", "Keyboard", "LightGun", "Analog", "Pointer">>)

RETRO_DEVICE_IDS_JOYPAD ==
    <<"B", "Y", "Select", "Start", "Up", "Down", "Left", "Right",
      "A", "X", "L", "R", "L2", "R2", "L3", "R3">>

RETRO_DEVICE_ID_JOYPAD == And(Numbered(RETRO_DEVICE_IDS_JOYPAD), "Mask", 256)

retro_languages ==
    <<"English", "Japanese", "French", "Spanish", "German", "Italian", "Dutch",
      "PortugueseBrazil", "PortuguesePortugal", "Russian", "Korean",
      "ChineseTraditional", "ChineseSimplified", "Esperanto", "Polish",
      "Vietnamese", "Arabic", "Greek", "Turkish", "Slovak", "Persian", "Hebrew",
      "Asturian", "Finnish", "Indonesian", "Swedish", "Ukrainian", "Czech",
      "CatalanValencia", "Catalan", "BritishEnglish", "Hungarian", "Belarusian",
      "Galician", "Norwegian", "Irish", "Thai">>

retro_language == Numbered(retro_languages)

retro_av_enable_flags ==
    [Video |-> 1, Audio |-> 2, FastSaveStates |-> 4, HardDisableAudio |-> 8]

retro_log_level == Numbered(<<"Debug", "Info", "Warning", "Error">>)

retro_pixel_formats == <<"ZeroRgb1555", "Xrgb8888", "Rgb565", "Xrgb2101010", "Hdr10">>

retro_pixel_format == And(Numbered(retro_pixel_formats), "Unknown", IntMax)

retro_message_target == Numbered(<<"All", "OnScreenDisplay", "Log">>)

retro_message_type ==
    Numbered(<<"Notification", "NotificationAlternate", "Status", "Progress">>)

----------------------------------------------------------------------------
(* The commands.                                                           *)

RETRO_ENVIRONMENT_EXPERIMENTAL == 65536

Command(number, access, type) ==
    [number |-> number, access |-> access, type |-> type, orNull |-> FALSE]

In(number, type) == Command(number, "in", type)
Out(number, type) == Command(number, "out", type)
InOut(number, type) == Command(number, "inout", type)

\* The data pointer is not looked at.
Ignoring(number) == [Command(number, "none", "none") EXCEPT !.orNull = TRUE]

\* NULL has a meaning.
OrNull(command) == [command EXCEPT !.orNull = TRUE]

Experimental(command) == [command EXCEPT !.number = @ + RETRO_ENVIRONMENT_EXPERIMENTAL]

SET_ROTATION == In(1, "unsigned")
GET_OVERSCAN == Out(2, "bool")
GET_CAN_DUPE == Out(3, "bool")
SET_MESSAGE == In(6, "retro_message")
SHUTDOWN == Ignoring(7)
SET_PERFORMANCE_LEVEL == In(8, "unsigned")
GET_SYSTEM_DIRECTORY == Out(9, "string")
SET_PIXEL_FORMAT == In(10, "retro_pixel_format")
SET_INPUT_DESCRIPTORS == In(11, "retro_input_descriptor")
SET_KEYBOARD_CALLBACK == In(12, "retro_keyboard_callback")
SET_DISK_CONTROL_INTERFACE == OrNull(In(13, "retro_disk_control_callback"))
SET_HW_RENDER == OrNull(InOut(14, "retro_hw_render_callback"))
GET_VARIABLE == OrNull(InOut(15, "retro_variable"))
SET_VARIABLES == OrNull(In(16, "retro_variable"))
GET_VARIABLE_UPDATE == Out(17, "bool")
SET_SUPPORT_NO_GAME == In(18, "bool")
GET_LIBRETRO_PATH == Out(19, "string")
SET_FRAME_TIME_CALLBACK == In(21, "retro_frame_time_callback")
SET_AUDIO_CALLBACK == OrNull(In(22, "retro_audio_callback"))
GET_RUMBLE_INTERFACE == Out(23, "retro_rumble_interface")
GET_INPUT_DEVICE_CAPABILITIES == Out(24, "uint64_t")
GET_SENSOR_INTERFACE == Experimental(Out(25, "retro_sensor_interface"))
GET_CAMERA_INTERFACE == Experimental(InOut(26, "retro_camera_callback"))
GET_LOG_INTERFACE == Out(27, "retro_log_callback")
GET_PERF_INTERFACE == Out(28, "retro_perf_callback")
GET_LOCATION_INTERFACE == Out(29, "retro_location_callback")
GET_CORE_ASSETS_DIRECTORY == Out(30, "string")
GET_CONTENT_DIRECTORY == GET_CORE_ASSETS_DIRECTORY
GET_SAVE_DIRECTORY == Out(31, "string")
SET_SYSTEM_AV_INFO == OrNull(In(32, "retro_system_av_info"))
SET_PROC_ADDRESS_CALLBACK == In(33, "retro_get_proc_address_interface")
SET_SUBSYSTEM_INFO == In(34, "retro_subsystem_info")
SET_CONTROLLER_INFO == In(35, "retro_controller_info")
SET_MEMORY_MAPS == Experimental(In(36, "retro_memory_map"))
SET_GEOMETRY == In(37, "retro_game_geometry")
GET_USERNAME == Out(38, "string")
GET_LANGUAGE == Out(39, "retro_language")
GET_CURRENT_SOFTWARE_FRAMEBUFFER == Experimental(InOut(40, "retro_framebuffer"))
GET_HW_RENDER_INTERFACE == Experimental(Out(41, "pointer"))
SET_SUPPORT_ACHIEVEMENTS == Experimental(In(42, "bool"))
SET_HW_RENDER_CONTEXT_NEGOTIATION_INTERFACE ==
    Experimental(In(43, "retro_hw_render_context_negotiation_interface"))
SET_HW_SHARED_CONTEXT == Experimental(Ignoring(44))
GET_VFS_INTERFACE == Experimental(InOut(45, "retro_vfs_interface_info"))
GET_LED_INTERFACE == Experimental(OrNull(Out(46, "retro_led_interface")))
GET_AUDIO_VIDEO_ENABLE == Experimental(OrNull(Out(47, "retro_av_enable_flags")))
GET_MIDI_INTERFACE == Experimental(OrNull(Out(48, "retro_midi_interface")))
GET_FASTFORWARDING == Experimental(Out(49, "bool"))
GET_TARGET_REFRESH_RATE == Experimental(Out(50, "float"))
GET_INPUT_BITMASKS == Experimental(Ignoring(51))
GET_CORE_OPTIONS_VERSION == Out(52, "unsigned")
SET_CORE_OPTIONS == OrNull(In(53, "retro_core_option_definition"))
SET_CORE_OPTIONS_INTL == In(54, "retro_core_options_intl")
SET_CORE_OPTIONS_DISPLAY == OrNull(In(55, "retro_core_option_display"))
GET_PREFERRED_HW_RENDER == Out(56, "retro_hw_context_type")
GET_DISK_CONTROL_INTERFACE_VERSION == Out(57, "unsigned")
SET_DISK_CONTROL_EXT_INTERFACE == OrNull(In(58, "retro_disk_control_ext_callback"))
GET_MESSAGE_INTERFACE_VERSION == Out(59, "unsigned")
SET_MESSAGE_EXT == In(60, "retro_message_ext")
GET_INPUT_MAX_USERS == Out(61, "unsigned")
SET_AUDIO_BUFFER_STATUS_CALLBACK == OrNull(In(62, "retro_audio_buffer_status_callback"))
SET_MINIMUM_AUDIO_LATENCY == OrNull(In(63, "unsigned"))
SET_FASTFORWARDING_OVERRIDE == OrNull(In(64, "retro_fastforwarding_override"))
SET_CONTENT_INFO_OVERRIDE == OrNull(In(65, "retro_system_content_info_override"))
GET_GAME_INFO_EXT == Out(66, "pointer")
SET_CORE_OPTIONS_V2 == OrNull(In(67, "retro_core_options_v2"))
SET_CORE_OPTIONS_V2_INTL == In(68, "retro_core_options_v2_intl")
SET_CORE_OPTIONS_UPDATE_DISPLAY_CALLBACK ==
    OrNull(In(69, "retro_core_options_update_display_callback"))
SET_VARIABLE == OrNull(In(70, "retro_variable"))
GET_THROTTLE_STATE == Experimental(Out(71, "retro_throttle_state"))
GET_SAVESTATE_CONTEXT == Experimental(OrNull(Out(72, "retro_savestate_context")))
GET_HW_RENDER_CONTEXT_NEGOTIATION_INTERFACE_SUPPORT ==
    Experimental(Out(73, "retro_hw_render_context_negotiation_interface"))
GET_JIT_CAPABLE == Out(74, "bool")
GET_MICROPHONE_INTERFACE == Experimental(OrNull(Out(75, "retro_microphone_interface")))
GET_DEVICE_POWER == Experimental(OrNull(Out(77, "retro_device_power")))
SET_NETPACKET_INTERFACE == In(78, "retro_netpacket_callback")
GET_PLAYLIST_DIRECTORY == Out(79, "string")
GET_FILE_BROWSER_START_DIRECTORY == Out(80, "string")
GET_TARGET_SAMPLE_RATE == Experimental(Out(81, "unsigned"))
GET_NETPLAY_CLIENT_INDEX == Experimental(Out(82, "unsigned"))
EXEC_MEM_ALLOC == InOut(83, "retro_exec_mem_alloc")
EXEC_MEM_FREE == In(84, "retro_exec_mem_free")
GET_AUDIO_SAMPLE_BATCH_FLOAT == Experimental(Out(85, "retro_audio_sample_float_callback"))
GET_MEMORY_STATUS == Experimental(Out(86, "retro_memory_status"))
SET_SERIALIZATION_QUIRKS == InOut(87, "uint64_t")
GET_SCREEN_10BPC_CAPABLE == Experimental(Out(88, "bool"))
GET_HDR_PAPER_WHITE_NITS == Experimental(Out(89, "float"))
GET_HDR_EXPAND_GAMUT == Experimental(Out(90, "unsigned"))
GET_HDR_OUTPUT_MODE == Experimental(Out(91, "unsigned"))
GET_HDR_MAX_NITS == Experimental(Out(92, "float"))
GET_VFS_AUTHORIZED_LOCATIONS == Experimental(OrNull(Out(93, "retro_vfs_authorized_locations")))

Commands ==
    {SET_ROTATION, GET_OVERSCAN, GET_CAN_DUPE, SET_MESSAGE, SHUTDOWN,
     SET_PERFORMANCE_LEVEL, GET_SYSTEM_DIRECTORY, SET_PIXEL_FORMAT,
     SET_INPUT_DESCRIPTORS, SET_KEYBOARD_CALLBACK, SET_DISK_CONTROL_INTERFACE,
     SET_HW_RENDER, GET_VARIABLE, SET_VARIABLES, GET_VARIABLE_UPDATE,
     SET_SUPPORT_NO_GAME, GET_LIBRETRO_PATH, SET_FRAME_TIME_CALLBACK,
     SET_AUDIO_CALLBACK, GET_RUMBLE_INTERFACE, GET_INPUT_DEVICE_CAPABILITIES,
     GET_SENSOR_INTERFACE, GET_CAMERA_INTERFACE, GET_LOG_INTERFACE, GET_PERF_INTERFACE,
     GET_LOCATION_INTERFACE, GET_CORE_ASSETS_DIRECTORY, GET_CONTENT_DIRECTORY,
     GET_SAVE_DIRECTORY, SET_SYSTEM_AV_INFO, SET_PROC_ADDRESS_CALLBACK,
     SET_SUBSYSTEM_INFO, SET_CONTROLLER_INFO, SET_MEMORY_MAPS, SET_GEOMETRY,
     GET_USERNAME, GET_LANGUAGE, GET_CURRENT_SOFTWARE_FRAMEBUFFER,
     GET_HW_RENDER_INTERFACE, SET_SUPPORT_ACHIEVEMENTS,
     SET_HW_RENDER_CONTEXT_NEGOTIATION_INTERFACE, SET_HW_SHARED_CONTEXT,
     GET_VFS_INTERFACE, GET_LED_INTERFACE, GET_AUDIO_VIDEO_ENABLE, GET_MIDI_INTERFACE,
     GET_FASTFORWARDING, GET_TARGET_REFRESH_RATE, GET_INPUT_BITMASKS,
     GET_CORE_OPTIONS_VERSION, SET_CORE_OPTIONS, SET_CORE_OPTIONS_INTL,
     SET_CORE_OPTIONS_DISPLAY, GET_PREFERRED_HW_RENDER,
     GET_DISK_CONTROL_INTERFACE_VERSION, SET_DISK_CONTROL_EXT_INTERFACE,
     GET_MESSAGE_INTERFACE_VERSION, SET_MESSAGE_EXT, GET_INPUT_MAX_USERS,
     SET_AUDIO_BUFFER_STATUS_CALLBACK, SET_MINIMUM_AUDIO_LATENCY,
     SET_FASTFORWARDING_OVERRIDE, SET_CONTENT_INFO_OVERRIDE, GET_GAME_INFO_EXT,
     SET_CORE_OPTIONS_V2, SET_CORE_OPTIONS_V2_INTL,
     SET_CORE_OPTIONS_UPDATE_DISPLAY_CALLBACK, SET_VARIABLE, GET_THROTTLE_STATE,
     GET_SAVESTATE_CONTEXT, GET_HW_RENDER_CONTEXT_NEGOTIATION_INTERFACE_SUPPORT,
     GET_JIT_CAPABLE, GET_MICROPHONE_INTERFACE, GET_DEVICE_POWER,
     SET_NETPACKET_INTERFACE, GET_PLAYLIST_DIRECTORY, GET_FILE_BROWSER_START_DIRECTORY,
     GET_TARGET_SAMPLE_RATE, GET_NETPLAY_CLIENT_INDEX, EXEC_MEM_ALLOC, EXEC_MEM_FREE,
     GET_AUDIO_SAMPLE_BATCH_FLOAT, GET_MEMORY_STATUS, SET_SERIALIZATION_QUIRKS,
     GET_SCREEN_10BPC_CAPABLE, GET_HDR_PAPER_WHITE_NITS, GET_HDR_EXPAND_GAMUT,
     GET_HDR_OUTPUT_MODE, GET_HDR_MAX_NITS, GET_VFS_AUTHORIZED_LOCATIONS}
=============================================================================
