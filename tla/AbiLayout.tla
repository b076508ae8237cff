----------------------------- MODULE AbiLayout -----------------------------
(***************************************************************************)
(* The structures that cross the C boundary, written twice: in libretro.h  *)
(* and, by hand, in C#.  Each compiler places a structure's fields one     *)
(* after the other, each at the next multiple of its alignment; the core   *)
(* compares the offsets of the C# ones with a table before it starts.      *)
(*                                                                         *)
(* A structure is the sequence of its fields' types; it goes by its C#     *)
(* name on both sides.  The one array there is, of an option's values, is  *)
(* the type RetroCoreOptionValues.                                         *)
(***************************************************************************)
EXTENDS Integers, SequencesExt

CONSTANTS
    Platforms,                \* [pointer, native, managed : {4, 8}]: the size of
                              \* a pointer, the alignment of a double in C and C#
    CoreOptionValuesMaximum   \* 128

\* A platform with 64-bit pointers aligns doubles to eight bytes in either
\* compiler.
ASSUME LayoutAssumption ==
    /\ Platforms \subseteq [pointer : {4, 8}, native : {4, 8}, managed : {4, 8}]
    /\ \A abi \in Platforms : abi.pointer = 8 => abi.native = 8 /\ abi.managed = 8
    /\ CoreOptionValuesMaximum = 128

Pointers(n) == [i \in 1 .. n |-> "pointer"]
Words(n) == [i \in 1 .. n |-> "unsigned"]

----------------------------------------------------------------------------
(* libretro.h.                                                             *)

retro_controller_description == <<"pointer", "unsigned">>
retro_controller_info == <<"pointer", "unsigned">>
retro_log_callback == Pointers(1)
retro_message == <<"pointer", "unsigned">>
retro_message_ext == <<"pointer", "unsigned", "unsigned", "enum", "enum", "enum", "byte">>
retro_input_descriptor == Words(4) \o Pointers(1)
retro_system_info == Pointers(3) \o <<"byte", "byte">>
retro_game_geometry == Words(4) \o <<"float">>
retro_system_timing == <<"double", "double">>
retro_system_av_info == <<"RetroGameGeometry", "RetroSystemTiming">>
retro_variable == Pointers(2)
retro_core_option_value == Pointers(2)
retro_core_option_v2_category == Pointers(3)
retro_core_option_v2_definition == Pointers(6) \o <<"RetroCoreOptionValues">> \o Pointers(1)
retro_core_options_v2 == Pointers(2)
retro_game_info == Pointers(2) \o <<"size_t">> \o Pointers(1)

NativeStructures ==
    [RetroSystemInfo |-> retro_system_info, RetroGameGeometry |-> retro_game_geometry,
     RetroSystemTiming |-> retro_system_timing, RetroSystemAvInfo |-> retro_system_av_info,
     RetroGameInfo |-> retro_game_info, RetroInputDescriptor |-> retro_input_descriptor,
     RetroControllerDescription |-> retro_controller_description,
     RetroControllerInfo |-> retro_controller_info, RetroVariable |-> retro_variable,
     RetroMessage |-> retro_message, RetroMessageExtended |-> retro_message_ext,
     RetroLogCallback |-> retro_log_callback,
     RetroCoreOptionValue |-> retro_core_option_value,
     RetroCoreOptionV2Category |-> retro_core_option_v2_category,
     RetroCoreOptionV2Definition |-> retro_core_option_v2_definition,
     RetroCoreOptionsV2 |-> retro_core_options_v2]

----------------------------------------------------------------------------
(* LibretroTypes.cs.                                                       *)

\* Variant that must break a property: a count as wide as a pointer, which
\* leaves every offset and the size as they are.
CountAsWideAsPointer == <<"pointer", "size_t">>

RetroControllerInfo == <<"pointer", "unsigned">>

RetroMessageExtended ==
    <<"pointer", "unsigned", "unsigned", "enum", "enum", "enum", "byte">>

ManagedStructures ==
    [RetroSystemInfo |-> Pointers(3) \o <<"byte", "byte">>,
     RetroGameGeometry |-> Words(4) \o <<"float">>,
     RetroSystemTiming |-> <<"double", "double">>,
     RetroSystemAvInfo |-> <<"RetroGameGeometry", "RetroSystemTiming">>,
     RetroGameInfo |-> Pointers(2) \o <<"size_t">> \o Pointers(1),
     RetroInputDescriptor |-> Words(4) \o Pointers(1),
     RetroControllerDescription |-> <<"pointer", "unsigned">>,
     RetroControllerInfo |-> RetroControllerInfo,
     RetroVariable |-> Pointers(2),
     RetroMessage |-> <<"pointer", "unsigned">>,
     RetroMessageExtended |-> RetroMessageExtended,
     RetroLogCallback |-> Pointers(1),
     RetroCoreOptionValue |-> Pointers(2),
     RetroCoreOptionV2Category |-> Pointers(3),
     RetroCoreOptionV2Definition |->
         Pointers(6) \o <<"RetroCoreOptionValues">> \o Pointers(1),
     RetroCoreOptionsV2 |-> Pointers(2),
     RetroFrontendCallbacks |-> Pointers(6)]

\* Those that both sides have; the callbacks stay on the C# side.
Structures == DOMAIN NativeStructures
Fields(side) == IF side = "native" THEN NativeStructures ELSE ManagedStructures

----------------------------------------------------------------------------
(* The rule of both compilers.                                             *)

AlignUp(offset, alignment) == ((offset + alignment - 1) \div alignment) * alignment

ScalarSize(abi, type) ==
    CASE type \in {"pointer", "size_t"} -> abi.pointer
      [] type \in {"unsigned", "enum", "float"} -> 4
      [] type = "double" -> 8
      [] OTHER -> 1

ScalarAlignment(abi, side, type) ==
    IF type = "double" THEN abi[side] ELSE ScalarSize(abi, type)

\* Where a field of this extent lands after those that end at free.
PlacedAt(free, extent) == AlignUp(free, extent.alignment)

\* Where each field ends, after the 0 of none.
Ends(extents) ==
    LET end[i \in 0 .. Len(extents)] ==
            IF i = 0 THEN 0
            ELSE PlacedAt(end[i - 1], extents[i]) + extents[i].size
    IN  end

\* A structure is padded to a multiple of the strictest alignment of its fields.
Structure(extents) ==
    LET strictest == Max({1} \cup {extents[i].alignment : i \in DOMAIN extents})
    IN  [size |-> AlignUp(Ends(extents)[Len(extents)], strictest), alignment |-> strictest]

Scalar(abi, side, type) ==
    [size |-> ScalarSize(abi, type), alignment |-> ScalarAlignment(abi, side, type)]

Flat(abi, side, type) ==
    LET fields == Fields(side)[type]
    IN  Structure([i \in DOMAIN fields |-> Scalar(abi, side, fields[i])])

\* An array of both sides' retro_core_option_value.
ValuesExtent(abi, side) ==
    [Flat(abi, side, "RetroCoreOptionValue") EXCEPT !.size = CoreOptionValuesMaximum * @]

\* A field is that array, a structure of scalars, or a scalar: structures nest no
\* further.
Field(abi, side, type) ==
    CASE type = "RetroCoreOptionValues" -> ValuesExtent(abi, side)
      [] type \in DOMAIN Fields(side) -> Flat(abi, side, type)
      [] OTHER -> Scalar(abi, side, type)

Extents(abi, side, type) ==
    LET fields == Fields(side)[type]
    IN  [i \in DOMAIN fields |-> Field(abi, side, fields[i])]

\* The size and the alignment of a structure, and where its fields start.
Extent(abi, side, type) == Structure(Extents(abi, side, type))

Offsets(abi, side, type) ==
    LET extents == Extents(abi, side, type)
    IN  [i \in DOMAIN extents |-> PlacedAt(Ends(extents)[i - 1], extents[i])]

----------------------------------------------------------------------------
(* LibretroAbi.cs.                                                         *)

\* The sizes and, where they are compared, the offsets.
Expected ==
    [RetroSystemInfo |-> [size |-> 32, at |-> <<0, 8, 16, 24, 25>>],
     RetroGameGeometry |-> [size |-> 20, at |-> <<0, 4, 8, 12, 16>>],
     RetroSystemTiming |-> [size |-> 16, at |-> <<0, 8>>],
     RetroSystemAvInfo |-> [size |-> 40, at |-> <<0, 24>>],
     RetroGameInfo |-> [size |-> 32, at |-> <<0, 8, 16, 24>>],
     RetroInputDescriptor |-> [size |-> 24, at |-> <<0, 4, 8, 12, 16>>],
     RetroControllerDescription |-> [size |-> 16, at |-> <<0, 8>>],
     RetroControllerInfo |-> [size |-> 16, at |-> <<0, 8>>],
     RetroVariable |-> [size |-> 16, at |-> <<0, 8>>],
     RetroMessage |-> [size |-> 16, at |-> <<0, 8>>],
     RetroMessageExtended |-> [size |-> 32, at |-> <<0, 8, 12, 16, 20, 24, 28>>],
     RetroLogCallback |-> [size |-> 8, at |-> <<0>>],
     RetroCoreOptionV2Category |-> [size |-> 24, at |-> <<0, 8, 16>>],
     RetroCoreOptionV2Definition |->
         [size |-> 2104, at |-> <<0, 8, 16, 24, 32, 40, 48, 2096>>],
     RetroCoreOptionsV2 |-> [size |-> 16, at |-> <<0, 8>>],
     RetroFrontendCallbacks |-> [size |-> 48, at |-> <<0, 8, 16, 24, 32, 40>>]]

SizeOf(abi, type) == Extent(abi, "managed", type).size

IsSupportedLayout(abi) ==
    /\ abi.pointer = 8
    /\ \A type \in DOMAIN Expected :
           /\ SizeOf(abi, type) = Expected[type].size
           /\ Offsets(abi, "managed", type) = Expected[type].at
    /\ SizeOf(abi, "RetroCoreOptionValue") = 16
    /\ ValuesExtent(abi, "managed").size
           = CoreOptionValuesMaximum * SizeOf(abi, "RetroCoreOptionValue")

Supported == [abi \in Platforms |-> IsSupportedLayout(abi)]

----------------------------------------------------------------------------
(* The two compilers place the fields of a structure side by side.         *)

VARIABLES
    platform, structure,
    placed,            \* fields placed so far
    native, managed    \* where the last one placed starts and ends

layoutVars == <<platform, structure, placed, native, managed>>

Sides == {"native", "managed"}

Place(side, free, i) ==
    LET extent == Extents(platform, side, structure)[i]
        at == PlacedAt(free, extent)
    IN  [at |-> at, free |-> at + extent.size]

NothingPlaced == [at |-> 0, free |-> 0]

LayoutInit ==
    /\ platform \in Platforms
    /\ structure \in Structures
    /\ placed = 0
    /\ native = NothingPlaced /\ managed = NothingPlaced

PlaceField ==
    /\ placed < Len(ManagedStructures[structure])
    /\ placed < Len(NativeStructures[structure])
    /\ placed' = placed + 1
    /\ native' = Place("native", native.free, placed')
    /\ managed' = Place("managed", managed.free, placed')
    /\ UNCHANGED <<platform, structure>>

LayoutNext == PlaceField

LayoutSpec == LayoutInit /\ [][LayoutNext]_layoutVars

----------------------------------------------------------------------------
(* Properties.                                                             *)

\* Exactly the platforms with 64-bit pointers are accepted, whatever either
\* compiler does with doubles; there each field is at the same bytes in C and in
\* C#, its last byte as much as its first, and both sides have the same fields.
\* The offsets of the C# side, which are all the code compares, leave the widths
\* and the C side open (LibretroAbi.IsSupportedLayout).
AcceptedFieldsCoincide ==
    /\ Supported[platform] <=> platform.pointer = 8
    /\ Supported[platform] =>
           /\ native = managed
           /\ Len(NativeStructures[structure]) = Len(ManagedStructures[structure])
           /\ Extent(platform, "native", structure) = Extent(platform, "managed", structure)
=============================================================================
