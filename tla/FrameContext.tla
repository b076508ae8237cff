---------------------------- MODULE FrameContext ----------------------------
(***************************************************************************)
(* LibretroFrameContext: what a core may do with the frontend during one   *)
(* retro_run.  The host begins the frame with copies of the callbacks and  *)
(* the answers of three environment queries; the core polls pads, submits  *)
(* video and audio, any number of times in any order, and returns; the     *)
(* player presses and releases buttons all the while.                      *)
(***************************************************************************)
EXTENDS Integers, Sequences

CONSTANTS
    Ports,               \* controller ports
    ButtonCount,         \* RetroJoypadId B to R3: 16
    CallbackSets,        \* the callbacks a frame may find set
    EnableAnswers,       \* what GetAudioVideoEnable may answer, or NoAnswer
    NoAnswer,            \* the frontend refuses the query
    PixelBytes,          \* sizeof(uint)
    NuintMax,            \* the largest nuint
    SpanLengths,         \* pixels of the spans a core submits
    Extents, Pitches,    \* widths and heights, and pitches, it submits with them
    AudioLengths,        \* samples of the audio spans it submits
    NoVideo              \* no picture was handed over

Buttons == 0 .. ButtonCount - 1

ASSUME FrameAssumption ==
    /\ ButtonCount \in Nat \ {0}
    /\ PixelBytes \in Nat /\ NuintMax \in Nat
    /\ SpanLengths \subseteq Nat /\ Extents \subseteq Nat /\ Pitches \subseteq Nat
    /\ AudioLengths \subseteq Nat
    /\ EnableAnswers \subseteq (SUBSET {"Video", "Audio"}) \cup {NoAnswer}
    /\ \A length \in SpanLengths, width, height \in Extents, pitch \in Pitches :
         NoVideo # [length |-> length, width |-> width, height |-> height, pitch |-> pitch]

VARIABLES
    running,        \* a frame runs: the core holds the context
    failed,         \* RunFrame threw, which the host has latched
    callbacks,      \* _callbacks: those that are not null
    bitmasks,       \* _supportsInputBitmasks
    enable,         \* AudioVideoEnable
    inputPolled,    \* _inputPolled
    live,           \* the buttons held down now
    latched,        \* those the frontend answers with, since its last poll
    polls,          \* calls of InputPoll in this frame
    reads,          \* what PollRetroPad returned in this frame, by port
    shown,          \* the arguments of the last picture VideoRefresh got
    span,           \* samples of the audio span submitted last in this frame
    playing,        \* SubmitAudio is in its loop over the stereo frames
    next,           \* the loop's counter: frame
    heard,          \* what the frontend got of the span: pairs of its samples
    told            \* how many stereo frames SubmitAudio returned for it

context == <<callbacks, bitmasks, enable>>
input == <<inputPolled, latched, polls, reads>>
audio == <<span, playing, next, heard, told>>
vars == <<running, failed, context, input, live, shown, audio>>

----------------------------------------------------------------------------
(* Pads.  The frontend answers with a C short, whose sign bit is R3.       *)

\* 1 << n
Pow2[n \in 0 .. ButtonCount] == IF n = 0 THEN 1 ELSE 2 * Pow2[n - 1]

\* The loop over the buttons: mask |= 1 << id for those that are pressed.
Mask(buttons) ==
    LET below[n \in 0 .. ButtonCount] ==
            IF n = 0 THEN 0
            ELSE below[n - 1] + (IF n - 1 \in buttons THEN Pow2[n - 1] ELSE 0)
    IN  below[ButtonCount]

AsShort(word) == IF word >= Pow2[ButtonCount - 1] THEN word - Pow2[ButtonCount] ELSE word
AsUshort(short) == short % Pow2[ButtonCount]

\* retro_input_state, for the mask and for a button.
InputStateMask(buttons) == AsShort(Mask(buttons))
InputState(buttons, id) == IF id \in buttons THEN 1 ELSE 0

\* Variant that must break a property: the last button is left out of the loop.
PadValueBelowLast(buttons) ==
    IF "InputState" \notin callbacks THEN 0
    ELSE IF bitmasks THEN AsUshort(InputStateMask(buttons))
    ELSE Mask({id \in Buttons : id < ButtonCount - 1 /\ InputState(buttons, id) # 0})

PadValue(buttons) ==
    IF "InputState" \notin callbacks THEN 0
    ELSE IF bitmasks THEN AsUshort(InputStateMask(buttons))
    ELSE Mask({id \in Buttons : InputState(buttons, id) # 0})

\* How a core looks at a button of the value: input & (1 << id).
IsPressed(value, id) == (value \div Pow2[id]) % 2 = 1

----------------------------------------------------------------------------
(* Video: the arithmetic is checked, and throws beyond NuintMax.           *)

RowBytes(p) == p.width * PixelBytes
RequiredBytes(p) == p.pitch * (p.height - 1) + RowBytes(p)
AvailableBytes(p) == p.length * PixelBytes

Overflows(p) ==
    \/ RowBytes(p) > NuintMax
    \/ p.pitch * (p.height - 1) > NuintMax
    \/ RequiredBytes(p) > NuintMax
    \/ AvailableBytes(p) > NuintMax

\* Variant that must break a property: one row is compared, not all.
FitsFirstRow(p) == p.pitch >= RowBytes(p) /\ AvailableBytes(p) >= RowBytes(p)

Fits(p) == p.pitch >= RowBytes(p) /\ AvailableBytes(p) >= RequiredBytes(p)

Pictures == [length : SpanLengths, width : Extents, height : Extents, pitch : Pitches]

----------------------------------------------------------------------------
Init ==
    /\ running = FALSE /\ failed = FALSE
    /\ callbacks \in CallbackSets
    /\ bitmasks = FALSE
    /\ enable = {}
    /\ inputPolled = FALSE
    /\ live = [p \in Ports |-> {}]
    /\ latched = [p \in Ports |-> {}]
    /\ polls = 0
    /\ reads = [p \in Ports |-> {}]
    /\ shown = NoVideo
    /\ span = 0 /\ playing = FALSE /\ next = 0 /\ heard = <<>> /\ told = 0

\* GetAudioVideoEnable: a refused query enables both.
AudioVideoEnable(answer) == IF answer = NoAnswer THEN {"Video", "Audio"} ELSE answer

\* A call of SubmitAudio is over at once, or there was none: the frontend has got `got`, the core is told n.
ReturnAudio(got, n) ==
    /\ heard' = got /\ told' = n
    /\ playing' = FALSE /\ next' = 0

\* Variant that must break a property: the context of the last frame is kept.
BeginFramePolled(set, granted, answer) ==
    /\ ~running /\ ~failed
    /\ running' = TRUE
    /\ callbacks' = set
    /\ bitmasks' = granted
    /\ enable' = AudioVideoEnable(answer)
    /\ polls' = 0
    /\ reads' = [p \in Ports |-> {}]
    /\ shown' = NoVideo
    /\ span' = 0 /\ ReturnAudio(<<>>, 0)
    /\ UNCHANGED <<failed, inputPolled, live, latched>>

\* Run creates the context.
BeginFrame(set, granted, answer) ==
    /\ ~running /\ ~failed
    /\ running' = TRUE
    /\ callbacks' = set
    /\ bitmasks' = granted
    /\ enable' = AudioVideoEnable(answer)
    /\ inputPolled' = FALSE
    /\ polls' = 0
    /\ reads' = [p \in Ports |-> {}]
    /\ shown' = NoVideo
    /\ span' = 0 /\ ReturnAudio(<<>>, 0)
    /\ UNCHANGED <<failed, live, latched>>

\* The core has control, and is not inside a call of SubmitAudio.
InCore == running /\ ~playing

\* The player, at any time.
Press(port, buttons) ==
    /\ live' = [live EXCEPT ![port] = buttons]
    /\ UNCHANGED <<running, failed, context, input, shown, audio>>

\* Variant that must break a property: every call polls again.
PollEveryTime(port) ==
    /\ InCore
    /\ IF "InputPoll" \in callbacks
       THEN latched' = live /\ polls' = polls + 1
       ELSE UNCHANGED <<latched, polls>>
    /\ reads' = [reads EXCEPT ![port] = @ \cup {PadValue(latched'[port])}]
    /\ UNCHANGED <<running, failed, context, inputPolled, live, shown, audio>>

\* The first call of a frame makes the frontend poll.
PollRetroPad(port) ==
    /\ InCore
    /\ IF ~inputPolled /\ "InputPoll" \in callbacks
       THEN latched' = live /\ polls' = polls + 1
       ELSE UNCHANGED <<latched, polls>>
    /\ inputPolled' = TRUE
    /\ reads' = [reads EXCEPT ![port] = @ \cup {PadValue(latched'[port])}]
    /\ UNCHANGED <<running, failed, context, live, shown, audio>>

\* A picture without pixels, one that does not fit, a disabled display and a
\* missing callback change nothing; an overflow leaves RunFrame.
SubmitVideo(p) ==
    /\ InCore
    /\ p.width # 0 /\ p.height # 0
    /\ \/ /\ Overflows(p)
          /\ running' = FALSE /\ failed' = TRUE
          /\ UNCHANGED shown
       \/ /\ ~Overflows(p) /\ Fits(p)
          /\ "Video" \in enable /\ "VideoRefresh" \in callbacks
          /\ shown' = p
          /\ UNCHANGED <<running, failed>>
    /\ UNCHANGED <<context, input, live, audio>>

\* The stereo frames of the span, and the two samples of one of them.
Frames(length) == length \div 2
Stereo(frame) == <<2 * frame, 2 * frame + 1>>

\* The first of a span's frames, which AudioSampleBatch reads from its start.
FirstFrames(n) == [f \in 1 .. n |-> Stereo(f - 1)]

\* An odd number of samples, or none, is refused; disabled audio counts as taken
\* without being delivered.  A frontend with the batch callback takes the span in
\* part or whole and says how much; one with the other callback is given one
\* frame after the other.
SubmitAudio(length) ==
    /\ InCore
    /\ span' = length
    /\ \/ (length % 2 = 1 \/ length = 0) /\ ReturnAudio(<<>>, 0)
       \/ /\ length % 2 = 0 /\ length # 0
          /\ \/ "Audio" \notin enable /\ ReturnAudio(<<>>, Frames(length))
             \/ /\ "Audio" \in enable
                /\ \/ /\ "AudioSampleBatch" \in callbacks
                      /\ \E taken \in 0 .. Frames(length) :
                             ReturnAudio(FirstFrames(taken), taken)
                   \/ /\ callbacks \cap {"AudioSampleBatch", "AudioSample"} = {}
                      /\ ReturnAudio(<<>>, 0)
                   \/ /\ "AudioSampleBatch" \notin callbacks
                      /\ "AudioSample" \in callbacks
                      /\ playing' = TRUE /\ next' = 0
                      /\ heard' = <<>> /\ told' = 0
    /\ UNCHANGED <<running, failed, context, input, live, shown>>

\* Variant that must break a property: the channels are taken for one.
AudioSampleOfMono ==
    /\ playing /\ next < Frames(span)
    /\ heard' = Append(heard, <<next, next + 1>>)
    /\ next' = next + 1
    /\ UNCHANGED <<running, failed, context, input, live, shown, span, playing, told>>

\* One round of the loop: the frontend gets a sample of each channel.
AudioSample ==
    /\ playing /\ next < Frames(span)
    /\ heard' = Append(heard, Stereo(next))
    /\ next' = next + 1
    /\ UNCHANGED <<running, failed, context, input, live, shown, span, playing, told>>

\* The loop is over and SubmitAudio returns every frame of the span.
AllSamplesPlayed ==
    /\ playing /\ next >= Frames(span)
    /\ playing' = FALSE
    /\ told' = Frames(span)
    /\ UNCHANGED <<running, failed, context, input, live, shown, span, next, heard>>

\* RunFrame returns.
EndFrame ==
    /\ InCore
    /\ running' = FALSE
    /\ UNCHANGED <<failed, context, input, live, shown, audio>>

Next ==
    \/ \E set \in CallbackSets, granted \in BOOLEAN, answer \in EnableAnswers :
         BeginFrame(set, granted, answer)
    \/ \E port \in Ports :
         \/ PollRetroPad(port)
         \/ \E buttons \in SUBSET Buttons : Press(port, buttons)
    \/ \E p \in Pictures : SubmitVideo(p)
    \/ \E length \in AudioLengths : SubmitAudio(length)
    \/ AudioSample
    \/ AllSamplesPlayed
    \/ EndFrame

Spec == Init /\ [][Next]_vars

----------------------------------------------------------------------------
(* Properties.                                                             *)

TypeOK ==
    /\ running \in BOOLEAN /\ failed \in BOOLEAN
    /\ callbacks \in CallbackSets
    /\ bitmasks \in BOOLEAN
    /\ enable \subseteq {"Video", "Audio"}
    /\ inputPolled \in BOOLEAN
    /\ live \in [Ports -> SUBSET Buttons]
    /\ latched \in [Ports -> SUBSET Buttons]
    /\ polls \in {0, 1}
    /\ DOMAIN reads = Ports
    /\ shown \in Pictures \cup {NoVideo}
    /\ span \in AudioLengths \cup {0}
    /\ playing \in BOOLEAN /\ next \in Nat
    /\ heard \in Seq(Nat \X Nat) /\ told \in Nat

\* However often a core reads its pads, and on however many ports, the frontend
\* polls once a frame, before the first value is read.
PolledBeforeRead ==
    (\E p \in Ports : reads[p] # {}) =>
        polls = (IF "InputPoll" \in callbacks THEN 1 ELSE 0)

\* All that a core reads of one pad in one frame is the same, though the player
\* presses buttons between two reads.
SteadyInput == \A p \in Ports : \A v, w \in reads[p] : v = w

\* Every button reads as the frontend latched it, by bitmask and button by
\* button, the one in the sign bit too.
PadsDecoded ==
    "InputState" \in callbacks =>
        \A p \in Ports : \A v \in reads[p] : \A id \in Buttons :
            IsPressed(v, id) <=> id \in latched[p]

\* Every row of a picture handed to the frontend lies within the core's span.
RowsInSpan ==
    shown # NoVideo =>
        \A row \in 0 .. shown.height - 1 :
            row * shown.pitch + shown.width * PixelBytes <= shown.length * PixelBytes

\* Whichever way a span takes to the frontend, at once, in part, sample by sample
\* or not at all: what it got are the span's own stereo frames, the first of
\* them, in their order and both channels in place, and when SubmitAudio has
\* returned the core was told of exactly those (or of a span that was dropped
\* because audio is disabled).
AudioAccounted ==
    /\ \A f \in 1 .. Len(heard) : heard[f] = <<2 * f - 2, 2 * f - 1>> /\ 2 * f <= span
    /\ ~playing => Len(heard) = (IF "Audio" \in enable THEN told ELSE 0)
=============================================================================
