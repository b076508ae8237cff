# Libretro.CoreKit in TLA+

Libretro.CoreKit lets a libretro core be written in C# and published as a native
library. This directory holds TLA+ models of its host, of its two cores (a CHIP-8
interpreter and a probe), of their saved states, and of the C boundary itself: the numbers,
structures and calls that `libretro.h` and the C# sources declare apart from each other.
TLC checks them on small instances; TLAPS proves the properties that matter most for every
instance.

Paths below are relative to the repository; `Core/` is `src/Libretro.Core/` and
`Chip8/` is `src/Libretro.NativeAot.Chip8/` and `Probe/` is `src/Libretro.NativeAot.Probe/`, all below
`src/`; `libretro.h` is `eng/libretro/libretro.h`.

## Inventory

| Component | State | Operations | Correct when |
|---|---|---|---|
| `LibretroHost<TCore>` (`Core/Hosting/LibretroHost.cs`) | lifecycle state, failure latch, callback table, logger, bitmask capability, four pinned regions, cached state size | the `retro_*` entry points | the core is driven in order whatever the frontend calls and whatever the core throws; resources are held exactly while content is loaded; a failure is latched until a whole teardown |
| `ILibretroCore` (`Core/Hosting/ILibretroCore.cs`) | that of the implementation | 13 members | it may rely on the order of its calls |
| `Chip8Core` (`Chip8/Core/Chip8Core.cs`) | content, memory, registers, stack, timers, display, random and audio state, keys, quirks, controller device | content sessions, frames, saved states | no program makes it throw; every state it reaches is one it accepts; a halt is contained and final |
| `LibretroFrameContext` (`Core/Hosting/LibretroContexts.cs`) | copies of the callbacks, a polled flag | poll, submit video, submit audio | input is polled once per frame; spans are checked before they are handed out |
| `RetroEnvironment` (`Core/Environment`) | a function pointer | queries and registrations | the command is the one its name says, the frontend finds the data it expects, a refused query has its documented default |
| `RetroLogger` and the log helper (`Core/Logging`, `Core/Native`) | a function pointer | `Write` | a line never disturbs the caller and is logged as it is |
| exports and runtimes (`Chip8/Native`, `Chip8/Core/Chip8Runtime.cs`, and the Probe's) | one static host | forwarding, catching | no exception leaves the library; every one is latched |
| `ProbeCore` (`Probe/Core/ProbeCore.cs`) | cursor, frame number, tone phase, save memory, options | as `Chip8Core` | every state is one it accepts; a loaded state replays; nothing of a session is left in the next |
| ABI types (`Core/Abi`) and `libretro.h` | constants, written twice | the layout check | both sides mean the same bytes and the same numbers |
| metadata, option and input tables | constants | | |
| packaging scripts, native test hosts, the RetroArch harness | | | not models' subject |

### How they interact

The frontend calls an export; the export calls the one static host inside a catch
that records a failure; the host checks its state and calls the core inside a
catch of its own. The core and the host call back into the frontend: the
environment callback (options, capabilities, log), and inside `retro_run` the
video, audio and input callbacks. There are no threads and nothing is
asynchronous, but three things make the order of events hard:

- the frontend is free to call exports in any order, repeatedly, and from the
  callbacks of a running frame;
- every call into a core (and every memory manager a core hands out) may throw,
  between any two steps of an operation, including inside the cleanup;
- one process runs many sessions over the same host and the same core instance,
  so anything not reset leaks into the next one.

`PROJECT.json` lists the hazards at their lines, with the properties that watch them.

## Modules

| Module | What it is |
|---|---|
| `CoreContract` | the abstract specification: what an `ILibretroCore` is promised |
| `LibretroHost` | the host behind its exports, over an arbitrary core |
| `LibretroHostProofs` | theorems about the host |
| `MCLibretroHost` | its instances for TLC |
| `FrameContext` | what a core does with the frontend within a frame |
| `FrameContextProofs` | theorems about it |
| `MCFrameContext` | its instances for TLC |
| `Chip8Core` | the CHIP-8 core, with the sizes of the machine as constants |
| `Chip8CoreProofs` | theorems about it |
| `MCChip8Core` | its instances for TLC |
| `Chip8State` | its saved states, byte by byte |
| `Chip8Random` | its pseudo-random generator, bit by bit |
| `SpriteContract` | the abstract specification: what drawing a sprite amounts to |
| `Chip8Display` | the loop of `DrawSprite` |
| `Chip8DataProofs` | theorems about states, generator and sprites |
| `MCChip8Data` | an instance of the three for TLC |
| `Chip8Options` | the quirks and the keys a frame depends on, over an opaque machine |
| `Chip8Replay`, `Chip8ReplayProofs`, `MCChip8Replay` | such a core alone, or two, one loading the other's state |
| `ProbeCore` | the probe core |
| `ProbeReplay`, `ProbeReplayProofs`, `MCProbeReplay` | one of them alone, or two, one loading the other's state |
| `LibretroInterface` | the commands and enumerations of `libretro.h` |
| `EnvironmentCalls` | one call of `RetroEnvironment`, against a frontend that goes by `libretro.h` |
| `AbiCalls` | one call of an export or a callback, by both sides' declarations |
| `AbiLayout` | the structures of both sides, placed field by field |
| `LogLine` | a log line from a span of memory to the frontend's `printf` |
| `BoundaryProofs` | theorems about the four: calls, structures, commands, log lines |
| `MCBoundary` | an instance of the four for TLC |
| `NumberFacts` | induction, iteration and remainders, for the proofs |

`Chip8Core` and `Chip8Options`, `Chip8State`, `Chip8Display` and `Chip8Random` are views of one C# class,
each with the data the others abstract: `Chip8Core` has the control of the interpreter over
arbitrary bytes, the others the data that something can be wrong with.

### CoreContract

Two variables: how far the core is in its life (`cold`, `ready`, `loaded`) and
whether it broke since the last teardown: threw, or allocated on the managed heap during a frame. A core is initialised before it is given
content, holds one content at a time, sees every content and every
initialisation torn down once, and after it broke is only torn down (or
configured again while cold, which `SetEnvironment` really does).
`LibretroHost!ImplementsContract` is the refinement: `phase` is `corePhase`,
`broken` is `coreBroke`.

### LibretroHost

| Variable | Code |
|---|---|
| `state`, `failed` | `_state`, `_failed` |
| `env`, `callbacks` | `_callbacks`: the environment separately, of the others which are not null |
| `logger`, `bitmasks` | `_logger`, `_supportsInputBitmasks`, each with the environment that granted it |
| `pins`, `stateSize` | the regions whose `MemoryHandle` is held, `_serializedStateSize` |
| `frame` | the `LibretroFrameContext` on the stack of a running `Run`; `frame.outlived` is history: its content was ended from within |
| `corePhase`, `coreBroke`, `session` | what the core has seen: no field of the host, but what the properties are about |

One action is one export run to its end, its catch blocks and the export's
`RecordFailure` included. `Run` is two actions, `RunBegin` and `RunEnd`, because the
frame gives control to the frontend, which may call any export of
`ReentrantCalls` in between. A refused call changes nothing and is a stuttering step;
`GetSystemInfo`, `SerializeSize`, `GetMemoryData` and `GetMemorySize` only read.

Every call into the core has two outcomes. `LoadGame` is three actions, for where
it can fail: the core or a pin throws (`LoadGameThrows`, with any
prefix of the regions pinned by then), the core reports a negative size, or
everything succeeds up to the log line. `ReleaseThrows` are the ways the release of
the regions can be cut short by an `Unpin` that throws, possible only for regions in
`FaultyUnpin`. `WriteThrows` is a log line in a build that does not link the native
log helper (`LogShim`).

In the runs the frontend may call every export but `retro_run` from a frame: no export looks at whether a
frame is running. It may end the content (`retro_unload_game`, `retro_deinit`), and go on
to register another environment, initialise and load again before the callback returns; the frame then outlives
its content (`Outlives`), and `RunEnd` says what the host makes of it. The host's record still agrees with the core,
its pins with the content, and a throw or an allocation is latched. `FrameServed` says what a frame can rely on: always
the copies of the callbacks it was begun with; until the frontend itself ends the content from within, also that the
content is loaded and that the context's environment and capabilities are the host's. After that a frame keeps the
environment of the session it was begun in, whatever the host has by then. One consequence is surprising and allowed: a
frame that throws after a `retro_deinit` from its own callback leaves the fresh host latched, until `retro_deinit` is
called once more.

Left out: `retro_run` called from a frame's callback, exports called from the
environment callback while another export runs, and threads. A frontend does none of these.

### FrameContext

| Variable | Code |
|---|---|
| `callbacks`, `bitmasks`, `enable` | `_callbacks`, `_supportsInputBitmasks`, `AudioVideoEnable` |
| `inputPolled` | `_inputPolled` |
| `running`, `failed` | the context is on the stack of `Run`; `RunFrame` threw |
| `live`, `latched`, `polls` | the frontend's side: buttons held, buttons it answers with since its last poll, polls of this frame |
| `reads`, `shown` | what crossed the boundary in this frame: pad values, the last picture |
| `span`, `playing`, `next` | the audio span submitted last; `SubmitAudio` is in its loop over the stereo frames; the loop's counter |
| `heard`, `told` | what the frontend got of that span, as positions of samples in it; what `SubmitAudio` returned for it |

The core is arbitrary: it calls `PollRetroPad`, `SubmitVideo` and `SubmitAudio` in any
order, while the player presses buttons (`Press`). `SubmitAudio` has an outcome for each of its returns; with the callback
for single samples it is a loop (`AudioSample`, `AllSamplesPlayed`), in which the core does nothing else. A call that is refused changes
nothing. Two things are modelled by what they do: the frontend answers with a
C `short`, so the button in the sign bit makes the answer negative before
`(ushort)` makes it a mask again; and the size computations are `checked` and leave
`RunFrame` when they exceed a `nuint`. A frontend is assumed to answer from its last poll,
as the libretro interface asks, and to take at most as many audio frames as it was offered.

`LibretroHost` keeps the context as its variable `frame` and abstracts what a frame does with
it; `FrameContext` has the frame alone. The callbacks do not change within a frame here,
which is what `FrameServed` establishes of the host: the context is a copy.

### Chip8Core

The machine's sizes are constants, so TLC checks a machine of four bytes while the
proofs hold for one of 4096. One action of a frame is one instruction;
`BeginFrame` is `RunFrame` up to its loop, `EndFrame` what follows the loop.

Memory bytes, pixels and random bytes are not kept. A program may write anywhere
and the frontend may patch memory through system RAM, so the model fetches an
arbitrary instruction with arbitrary operands at every step, and every byte read
is arbitrary. This has more behaviours than the code, so what holds of all of them
holds of the code. Instructions of the same shape share a definition:
`Skip` is 3xnn, 4xnn, 5xy0, 9xy0, Ex9E and ExA1, `SetRegister` is 6xnn, 7xnn, Cxnn and
Fx07, `Arithmetic` is 8xyN. `faulted` becomes true when an address outside memory is
touched, which in the code is an exception out of `RunFrame`.

The core is driven in the order of `CoreContract`, which the host is shown to keep.
`Spec` has weak fairness of `RunFrame` only: a frame that has begun runs to its end,
since nothing in `RunFrame` waits and its calls into the frontend return. Nothing
obliges the frontend to begin another frame, or to press a key.

### Chip8State

`Serialize` fills the frontend's buffer (`Save`), `Unserialize` validates and reads it (`Load`), and in
between any byte of it may change (`Damage`). Offsets, order and little-endian words are the
code's; the sizes are constants, that of a byte included. `Unserialized` and `Accepts` are the two
halves of the C# method. The machine may go anywhere (`Execute`), from a set of
machines `Reached` that the run chooses at the boundaries.

### Chip8Random

`_randomState` is its bits: `NextRandomByte` is three exclusive-ors with shifts. `Unserialize` takes any
word but zero. What the model leaves out is which byte of the word a program is given.

### Chip8Display

One action is one bit of the loop (`DrawBit`), so that the order in which pixels are inverted and the
flag is set is the code's; `ImplementsContract` is the refinement of
`SpriteContract`, in which the whole sprite is one step and wrapping is a remainder in the plane. `At` maps
an index of `_display` to the coordinates of the screen.

### Chip8Options and Chip8Replay

| Variable | Code |
|---|---|
| `table`, `updated` | the frontend's options and what it answers to `GET_VARIABLE_UPDATE` |
| `quirks`, `keys`, `joypad` | `_quirks`, `_keys`, `_controllerDevice` |
| `machine` | everything else a state holds |
| `step` | a frame before it reads the pad, and before it runs its instructions |
| `restored` | history: the quirks of the state loaded since the options were last read |

`UpdateCoreOptions` asks for each option in turn; the frontend is assumed not to change its options
inside its own handler of that query, so the reads are one step. `libretro.h:1023-1024` describes the update flag as
set since the variables were last queried; the repository's test frontend keeps it until it is asked
for. Both are in the model: after a load the flag may be clear or as it was.

`Chip8Replay` has either one such core in all its sessions (`Single`, `Alone`), or two with content loaded,
each at `AnyMoment` of a history of its own. `HandOver` is `Serialize` on one and
`Unserialize` on the other; from then on `Together` gives both the same pad, resets and states.
That the second starts at any typed moment and not at one its history leads to makes the theorem stronger, and the run small.

Their frontends differ as they may, at the hand-over and by later changes of either one (`OneFrontend`): in the device, in
the options, in a change that is announced and not yet read. A frame takes two of these from its frontend: the
device, and the options if a change is announced. Where they differ (`SameFrontend` is false), the next frame
does tell the cores apart, as `Chip8Core.cs:168-175` says it must: a pending change is read over the quirks just restored,
and another device releases the keys. Such a frame ends the comparison and is not followed further. What
`ReplaysExactly` claims is that nothing else does: not the keys held, not the device or the options before that frame, not a
difference in the options without an announcement, and not a change that both frontends announce alike. Two cores that parted
may meet again, and then are two at `AnyMoment`.

### ProbeCore and ProbeReplay

The same, for the probe, whose machine is small enough to be modelled whole: a picture is what decides its
pixels, a batch of audio its amplitude and first phase. Phases are counted in steps
of a turn instead of `double`s; a rounding error of one platform is the same in both cores. A state
holds everything but the options and the device, so for two probes to play alike their frontends must agree on
these (`SameFrontend`), unlike two CHIP-8 cores, whose states hold the quirks.

### LibretroInterface, EnvironmentCalls, AbiCalls, AbiLayout

The boundary is declared twice and compared by no compiler. These modules have both declarations and let
them meet.

- `LibretroInterface` is the header alone: every command of the environment callback with its number, the type of its
  data, its direction and the meaning of NULL, and the enumerations. The header gives the types of
  `void *data` only in the comments of the commands. Commands the cores never use are there
  because their numbers are taken: a wrong number in C# is harmless only if nobody has it.
- `EnvironmentCalls` is one call: the C# method (`Call`) picks a number and points at some memory; the frontend
  looks the number up, with or without masking the experimental bit, and reads (`Serve`) or writes
  (`Answer`) by the header's type; `Return` reads the memory back by the C# type.
- `AbiCalls` is one call of an export or a callback, a register for each argument, of which a declaration uses
  the low bytes and leaves the others as they are. `Patterns` is what a register may hold; `sent` and `taken` are
  the value at either end, extended to eight bytes by the sign of its declared type.
- `AbiLayout` places the fields of each structure as a compiler does, for the C and the C# one, and evaluates
  `IsSupportedLayout` on the result. A field is a scalar, a structure of scalars or the array of option values; none nests
  further. `LayoutAssumption` says of the platforms that a pointer and the alignment of a `double` are of 4 or 8 bytes,
  the latter chosen by each compiler for itself, but 8 in both where pointers have 64 bits.

### LogLine

`Write` validates the level and the terminator, the native helper hands the line over under the format
`%s`, and the frontend's `printf` (external) reads byte by byte to a terminator, past the span if there is none.

`MCBoundary` and `MCChip8Data` are sums: their modules share no variable, and a behaviour is one
of one of them with the others at rest. The modules of the boundary speak of one call, one line or one structure
from every initial choice, so their behaviours end: deadlock is not checked there.

### Variants

The definitions that begin with "Variant" in their comment are not part of the
specifications. Each is a plausible error in one definition, used to see that a
property is able to fail.

## Runs

| Run | Shows | Instance |
|---|---|---|
| `host` | the lifecycle, the resources, the latch and the refinement of `CoreContract` | two environments, two regions, sizes -1, 0, 8, three requirement sets, every export re-entrant |
| `host_faulty_unpin` | an interrupted teardown still blocks the session; no log line throws after a state change | as above, without the log helper, every region may throw from `Unpin` |
| `host_teardown` | finding: `retro_deinit` does not always complete | as `host`, the first region may throw |
| `chip8_core` | addresses stay in memory, states are accepted back, a halt is contained, every frame ends | 4 bytes of memory, bytes of 3 values, 2 registers, 1 stack slot, 1 quirk, 2 instructions a frame, a wave of 1 phase |
| `chip8_halted_state` | finding: a frame begun halted still changes the saved state | as above, with a wave of 2 phases: a timer of two outlasts the frame that halts |
| `chip8_polling` | finding: a frame may not poll | as above, bytes of 2 values |
| `chip8_replay` | quirks come whole from one source; a change takes effect without a reload; a loaded state replays | 2 options, 1 key, 2 buttons, a machine of 3 states; one core, or two |
| `chip8_data` | saved states reload and whatever is accepted is one some machine saves; the generator never reaches zero and merges no sequences; a sprite is one inversion of what it covers | states of a machine of 3 bytes, bytes of 3 values, up to 2 damaged; words of 8 bits, shifts 3, 5 and 2; all sprites of 2 by 2 over all screens of 3 by 2 |
| `probe_replay` | states accepted back, options in force, nothing left behind, a loaded state replays | a picture of 4 columns, a turn of 3 steps, a counter of 6 frames; one core, or two |
| `frame_pads` | pads are polled once, read steadily and decoded in both ways | two ports, two buttons, every way the input callbacks can be set |
| `frame_output` | pictures lie in their span, what is heard of a span is what was submitted and what is reported | widths and heights 0 to 3, pixels of 2 bytes, a `nuint` of 5 bits, audio spans of 0, 1, 2 and 6 samples |
| `boundary` | layouts, calls, commands and log lines mean the same on both sides of the C boundary | every structure, function, method, argument and answer; registers of 4 patterns, the least and greatest of each width among them; all lines of up to 4 bytes |

The runs check no type invariant but that of the saved states, which says that accepted bytes are a machine the
interpreter can run: those of the other modules are theorems.

Why the bounds are enough. The host compares environments only with null and with
each other, so two show every stale one. Two regions show every partial pin and
release: none, one, both. The sizes are the negative one it refuses, the one that
means no states, and a proper one. Requirement sets are none, all, and one with an
unknown flag. The scaled machine keeps every boundary of the real one within reach
of a few instructions: the last word of memory, a skip over it, a jump to its end,
the full and the empty stack, the index at both ends and the last glyph. The
states offered for loading are the largest accepted one, one with a wild word
above the stack pointer, and one past each limit. The theorems below do not
depend on any of these numbers.

Two buttons are the least with one in the sign bit and one below it, two ports the least
with one poll between two reads. Among the pictures are those with a short span, a pitch
below the row, a pitch that leaves gaps, and each of the sizes that overflows five bits. An
audio span of six samples is three stereo frames: the first, the last and one between.

Bytes of three values are the least with which an offset jump passes the end of memory. The quirk of `chip8_core` is
the one that changes an address. `JumpWithVx` only adds another register to fewer addresses, and any register holds any
value here (the two finding runs turn it on); the others affect register values alone, and the theorems hold with all of
them. A wave of one phase still shows a phase that is not wrapped, which is refused when the state is loaded. Two instructions a frame are the
least with one that follows another in the same frame.

Of a saved state three machines are enough to start from, since two damaged bytes lead
from any of them over every limit `Unserialize` checks. The generator's eight bits are the least with three
different shifts of which one is more than half a word, like the 17 of 32. A sprite as high as the screen
and almost as wide wraps in both directions at once. The counters of the probe are so short that
they wrap within a few frames, and its save memory has one bit. The boundary modules
have no bound but the values: every structure, command, function and enumeration member is in them.

Fairness. `chip8_core` assumes only that a frame that has begun goes on: `RunFrame` is a loop of a fixed number of
instructions without a wait. `chip8_replay` assumes also, of a core alone, that the
frontend keeps running frames while content is loaded, which is what a frontend does; without frames no
option can take effect. Of two cores it assumes nothing. Nothing obliges it to announce a change but the `SetOption` action, which does so
as `libretro.h:1019-1021` asks. All other runs are of safety alone.

Deadlock is checked in every run but `boundary`: the frontend can always call something, or
the player press a button.

## Findings

- **`TeardownCompletes`** `src/PHASE-2.md:80-81` says the host always completes logical
  teardown. `ReleaseContentResources` (`LibretroHost.cs:397`, and 289 for
  `UnloadGame`) runs in a `finally` with nothing around it: a core whose memory
  manager throws from `Unpin` leaves the host in `ContentLoaded`, with its
  callbacks, its latch set and the core never deinitialised. The shipped cores use
  arrays, whose handles cannot throw. `NoUseAfterUnload` shows what remains safe.
- **`HaltedStateStable`** `src/PHASE-4.md:40-41` says later frames leave halted state
  unchanged. The property looks at frames that begin halted. Timers and the audio phase of a halted
  machine go on in them (`Chip8Core.cs:182-192`), and both are part of the saved state: a timer set to two before the halt is
  one after the frame that halted and zero after the next. What does hold is
  `HaltedMachineFrozen`: program counter, index, registers and stack.
- **`EveryFramePolls`** `src/PHASE-0.md:315` asks for a poll in every `retro_run`, as does
  `eng/libretro/libretro.h:8184`. With a device other than the joypad on port 0
  neither core polls (`Chip8Core.cs:173`).

## Proofs

`LibretroHostProofs`. `TypeCorrect` and `NeverUsedAfterUnload` need no assumption on the platform. The other safety
invariants and the action properties are proved under `SoundPlatform`, that no memory manager throws from
`Unpin`; without it they are false, as `host_teardown` shows. No theorem restricts what the frontend calls from a frame.

`NeverUsedAfterUnload` is about what is left then: an `Unpin` that throws may leave the host in `ContentLoaded` over
content the core has unloaded, but then the host is latched, and stays so until a teardown runs to its end.

The inductive invariant is `HostInv`, the conjunction of the six safety properties. No
one of them is inductive alone: that `LoadGame`'s catch unloads the core exactly once
needs `UnboundLoggerNeverInUse` (the log line after the state change cannot throw);
that a state transfer uses the right size needs `ResourcesFollowContent`; that
`Deinitialize` leaves the core cold needs `CoreFollowsState`; that a frame's end is a
use of loaded content needs `FrameServed`. `HostInvStep` has one step per action.
`LatchClearedByTeardown`, `SessionKeepsResources` and `HostImplementsContract` follow action by action from
the invariant.

`TeardownsComplete` is the other side of the finding `TeardownCompletes`: the memory manager is all that stands in the
way. On a sound platform a `retro_deinit` completes whatever the core throws and whatever state the host is in.

`FrameContextProofs`. The inductive invariant is `FrameInv`: types, `RowsInSpan`,
`AudioInv` and `ReadsFollowPoll`, which ties the flag to the polls and the reads: while it is
clear nothing has been read, once it is set the poll has happened, and every value read is the
decoding of what the frontend has latched. `PolledBeforeRead` and `SteadyInput` follow from it
and are not inductive without the flag. `FittingRows` is the arithmetic: if the last
row fits, all do. `AudioInv` adds to `AudioAccounted` what holds in the middle of the loop (`PlayedSoFar`): a frame has been
delivered for each round, so that at its end the number returned is the number delivered. `PadsDecoded` follows from the same invariant and from two facts about words.
`MaskBits`: after each round of the loop over the buttons the mask is below the next power of two and its bits are the
buttons passed. `ShortRoundTrip`: a C `short` made of a mask and cast to `ushort` is that mask, the sign bit included.

`Chip8CoreProofs`. `Chip8Assumption` (in `Chip8Core`) says that the sizes are numbers that
fit together: a byte value is an address, the font and the start of the program lie in memory.
The inductive invariant is `MachineInv`: types, no fault, and `InRange`, which is what
`Unserialize` asks of a state, required of the machine at all times. `InRange` is just strong
enough: the counter may be two past the end because a skip of the last instruction
may be taken, and return addresses reach the end itself, so the bounds of the code
are those the interpreter needs and no state is refused that could be saved. Each group of instructions
has a lemma, built from what `Fetch`, `Halt`, `Set` and `Goto` keep.
`EndingsBounded` and `InstructionBounded` bound what one instruction can change, from
which `FailureIsContained`, `HaltIsFinal` and `SessionsStartClean` follow.

Three more theorems go with the properties of this core that are not safety or do not hold.
`FramesAdvance` is the safety half of `FramesEnd`: every step of a frame ends it or passes an instruction, `Fx0A` without
a key included. `FramesPollForJoypad` and `HaltedStatesSettle` are the exact conditions under
which the two documented promises among the findings hold: with a joypad in port 0 a frame polls, and only then;
and of a halted machine nothing that is saved changes once both timers have run down.

`Chip8DataProofs`, of the saved states: `RoundTrip` (what was saved is accepted and restored field for field) and
`Canonical` (what is accepted is saved as the same bytes) are inverse to each other and rest on one fact about
little-endian words, proved for every size of a byte. `AcceptedRunnable` is that accepted bytes hold a machine the
interpreter can run. The inductive invariant is types and `BufferOfSaved`: while nothing was damaged the buffer is that
of the machine saved. `StateAssumption`: sizes are numbers, a quirk mask fits a byte, the magic and the version fit
their words.

Of the generator: for every width and every three shifts of at least one, a draw is injective: two words that differ
draw words that differ, first at the lowest bit where a left shift left them apart, from the other end for the right
shift. Zero draws zero, so nothing else does, and a generator that starts alive stays alive.

Of the sprites: assumed is that a sprite is no wider and no higher than the screen (8 by 15 on 64 by 32): otherwise a
wrapping sprite would meet itself. From it, different bits have different targets; `PartlyDrawn` then says at every step
what has been drawn, and the refinement reads off the last step.

`Chip8ReplayProofs`. `Execute` is any function of the machine, the quirks and the keys, so the theorem holds of any content.
`QuirksHaveASource` is inductive; replay needs `SameInputs` beside it: within a frame both cores have the same device, for
neither frontend can change it there, so that before the pad is read they may hold different keys and after it do not.
Nothing is assumed of the frontends but what `SameFrontend` asks of a frame that is followed.

`ProbeReplayProofs`. `AlwaysReplaysExactly` rests on `SameFrontend` and, in lockstep, `SameCores`: it needs of a batch of
audio only that the phase after it is a function of the phase before. `ReachableStatesAccepted` needs more, that the phase
stays within a turn: a sample adds a step smaller than a turn and wraps once (`AdvanceInTurn`), and `BatchInTurn` carries
that over a batch of any length. The cursor stays in the picture because a box fits it.

`BoundaryProofs`. `ValuesAlwaysArrive` holds for any `Patterns`: a value crosses unchanged between two types of the same
width and sign (`CrossesUnchanged`), and the two declarations of each of the functions are `Compatible`, group by
group of the exports as the source has them. The invariant `CallInv` adds that no more is passed than there are parameters.

Of the structures, `AlwaysAcceptedFieldsCoincide` holds for any set of platforms that `LayoutAssumption` admits. `EndsSteps`
is that the recursion over the fields obeys its equation; `Laid` is then a layout without recursion, and `LaidOut` that a
structure has no other. With 64-bit pointers every C# structure is computed field by field, so the check of the core accepts
those platforms and no others (`SupportedExactly`). There the declarations of C and C# agree (`SameDeclarations`) and so do
the extents (`SameExtents`); the invariant `LayoutInv` is that the field placed last starts at the same byte in both.

Of the commands, `AlwaysServedAsNamed`, `AlwaysWithinTheData` and `AlwaysHeardAsSaid` have the invariant `AskInv`: that the
call was made by one of the methods, that an accepted answer is in the memory it pointed at, and the first two
properties. They rest on three groups of facts. No two commands of the header share a number, with the experimental
bit or without (`NumbersUnshared`), so the frontend handles what the method means or nothing (`HandledAsNamed`). The
types the methods point at are the header's, sent (`TypesTold`) and answered (`TypesAnswered`). What the enumerations and
flags are converted to and back is what was meant (`PixelFormatRoundTrip`, `LanguageRoundTrip`, `FlagsRoundTrip`,
`SameRoundTrip`).

`AlwaysLoggedVerbatim` holds for any bytes, levels and length. Its invariant `LineInv` says that past the checks of
`Write` the span has one terminator, its last byte, and that the frontend has received exactly the bytes it has passed.

`NumberFacts` has what several of these need. The induction theorems of the library take an operator for the
property, which the provers here cannot instantiate; their facts about well-founded sets do not, and from them a set of
numbers has a least element, so a set that has 0 and every successor has all numbers (`Induction`). Used so, a property is
the set of numbers that have it. A recursive function (`Pow2`, the mask of `Mask`, the phase of
`PhaseAfterBatch`, the `Ends` of a layout) is a choice of some function that satisfies its equation. `Iteration` is that
there is one, by induction on the length of its domain; what it computes is a second induction (`HandedOn`).

Only model-checked:

- `FramesEnd` and `AloneOptionsTakeEffect`, which are liveness properties under fairness. Every other property of a run
  that passes is a theorem, for all values of the constants.

## Plan

Done: the host and its contract, the frame context, the CHIP-8 core in its control, saved states, generator,
sprites, options and replay, the probe core and its replay, the C boundary and the log line; and the theorems about all
of them.

Left:

- `LibretroSession`: host, frame and one of the cores in one state space. The refinement of `CoreContract` already gives
  the cores their order of calls, so this would add only what a frame's callbacks do to the core in its middle.

## Not modelled

- The contents of option and input tables, of log lines and of the system's metadata: constants, copied once.
- The colours of pixels and the samples of audio; what decides them is modelled.
- The message the probe shows when it is ready (`Probe/Core/ProbeCore.cs:322`): nothing it does afterwards depends on it.
- Whether an option the frontend does not answer ought to keep the value a loaded state gave it, into the next content: the
  code does so, no document of the repository rules it out, and the properties allow it.
- Interfaces of `libretro.h` that no core here asks for (disks, rumble, cameras, hardware rendering, networking): only the
  numbers of their commands.
- A saved state taken from a callback in the middle of a frame (`Probe/Core/ProbeCore.cs:128`): libretro does not say
  whether a frontend may, and the host neither forbids it nor promises anything of it.
- That `SET_CORE_OPTIONS_V2` is sent without asking `GET_CORE_OPTIONS_VERSION` first, which the header recommends: a
  frontend that does not know the command declines it, which is modelled.
- The native test hosts, the RetroArch harness, the packaging and release scripts: sequential, without a state to model.
