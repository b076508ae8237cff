------------------------- MODULE FrameContextProofs -------------------------
(***************************************************************************)
(* For any numbers of ports, buttons, pixels and samples: one poll a frame, *)
(* steady and rightly decoded input, pictures within the core's span, and  *)
(* audio that is accounted for.                                            *)
(*                                                                         *)
(* The decoding rests on the bits of a sum of different powers of two,     *)
(* which the loop over the buttons builds: after each round the buttons    *)
(* passed are the bits of a number below the next power.                   *)
(***************************************************************************)
EXTENDS FrameContext, NumberFacts

----------------------------------------------------------------------------
(* Words as sets of bits.                                                  *)

\* The number of buttons, alone.
LEMMA ButtonsNat == ButtonCount \in Nat \ {0}
BY ONLY FrameAssumption DEF FrameAssumption

\* The recursion of the powers of two defines a function.
LEMMA PowerLoop ==
    \A n \in 0 .. ButtonCount : Pow2[n] = IF n = 0 THEN 1 ELSE 2 * Pow2[n - 1]
<1> DEFINE step == [n \in 1 .. ButtonCount |-> [x \in Nat |-> 2 * x]]
           Body(f) == [n \in 0 .. ButtonCount |-> IF n = 0 THEN 1 ELSE 2 * f[n - 1]]
<1>1. \A n \in 1 .. ButtonCount : \A x \in Nat : step[n][x] = 2 * x /\ step[n][x] \in Nat
    OBVIOUS
<1>2. PICK f : Iterates(f, ButtonCount, 1, step) /\ \A n \in 0 .. ButtonCount : f[n] \in Nat
    <2> HIDE DEF step
    <2> QED BY <1>1, ButtonsNat, Iteration
<1>3. f = Body(f)
    <2>1. \A n \in 0 .. ButtonCount : n # 0 => n \in 1 .. ButtonCount /\ n - 1 \in 0 .. ButtonCount
        BY ButtonsNat
    <2>2. \A n \in 0 .. ButtonCount : n # 0 => step[n][f[n - 1]] = 2 * f[n - 1]
        <3> HIDE DEF step
        <3> QED BY <1>1, <1>2, <2>1
    <2> HIDE DEF step
    <2> QED BY <1>2, <2>2 DEF Iterates
<1>4. Pow2 = Body(Pow2)
    <2>1. \E g : g = Body(g)
        BY <1>3
    <2> QED BY <2>1 DEF Pow2
<1> QED BY <1>4

\* A power of two is positive, and an even multiple of every lower one.
LEMMA Powers ==
    ASSUME NEW n \in 0 .. ButtonCount
    PROVE  /\ Pow2[n] \in Nat \ {0}
           /\ \A m \in 0 .. n - 1 : \E k \in Nat : Pow2[n] = Pow2[m] * (2 * k)
<1> DEFINE Fact(i) == /\ \A m \in 0 .. i : Pow2[m] \in Nat \ {0}
                      /\ \A m \in 0 .. i - 1 : \E k \in Nat : Pow2[i] = Pow2[m] * (2 * k)
           S == {i \in Nat : i <= ButtonCount => Fact(i)}
<1>1. 0 \in S
    <2>1. Pow2[0] = 1
        BY PowerLoop, ButtonsNat
    <2>2. \A m \in 0 .. 0 : m = 0
        OBVIOUS
    <2> QED BY <2>1, <2>2
<1>2. ASSUME NEW i \in S PROVE i + 1 \in S
    <2>1. SUFFICES ASSUME i + 1 <= ButtonCount PROVE Fact(i + 1)
        OBVIOUS
    <2>2. Fact(i) /\ i \in Nat
        BY <2>1, ButtonsNat
    <2>3. Pow2[i + 1] = 2 * Pow2[i]
        <3>1. i + 1 \in 0 .. ButtonCount /\ i + 1 # 0 /\ (i + 1) - 1 = i
            BY <2>1, <2>2, ButtonsNat
        <3> QED BY <3>1, PowerLoop
    <2>4. ASSUME NEW m \in 0 .. (i + 1) - 1
          PROVE  \E k \in Nat : Pow2[i + 1] = Pow2[m] * (2 * k)
        <3>1. CASE m = i
            <4>1. Pow2[i + 1] = Pow2[m] * (2 * 1)
                BY <2>2, <2>3, <3>1
            <4> QED BY <4>1
        <3>2. CASE m # i
            <4>1. m \in 0 .. i - 1 /\ m \in 0 .. ButtonCount
                BY <2>1, <2>2, <3>2, ButtonsNat
            <4>2. PICK k \in Nat : Pow2[i] = Pow2[m] * (2 * k)
                BY <2>2, <4>1
            <4>3. Pow2[i + 1] = Pow2[m] * (2 * (2 * k))
                <5>1. Pow2[m] \in Nat
                    BY <2>2, <4>1
                <5>2. 2 * (Pow2[m] * (2 * k)) = Pow2[m] * (2 * (2 * k))
                    BY <5>1
                <5> QED BY <2>3, <4>2, <5>2
            <4>4. 2 * k \in Nat
                OBVIOUS
            <4> QED BY <4>3, <4>4
        <3> QED BY <3>1, <3>2
    <2>5. ASSUME NEW m \in 0 .. i + 1 PROVE Pow2[m] \in Nat \ {0}
        <3>1. m \in 0 .. i \/ m = i + 1
            BY <2>2
        <3>2. Pow2[i + 1] \in Nat \ {0}
            BY <2>2, <2>3
        <3> QED BY <2>2, <3>1, <3>2
    <2> QED BY <2>4, <2>5
<1>3. n \in S
    <2>1. S \in SUBSET Nat
        OBVIOUS
    <2> HIDE DEF S
    <2>2. Nat \subseteq S
        BY <1>1, <1>2, <2>1, Induction
    <2> QED BY <2>2, ButtonsNat
<1> QED BY <1>3, ButtonsNat

\* The loop over the buttons defines a function.
LEMMA MaskLoop ==
    ASSUME NEW buttons
    PROVE  \E below :
               /\ Mask(buttons) = below[ButtonCount]
               /\ \A n \in 0 .. ButtonCount : below[n] =
                      IF n = 0 THEN 0
                      ELSE below[n - 1] + (IF n - 1 \in buttons THEN Pow2[n - 1] ELSE 0)
<1> DEFINE Bit(n) == IF n \in buttons THEN Pow2[n] ELSE 0
           step == [n \in 1 .. ButtonCount |-> [x \in Nat |-> x + Bit(n - 1)]]
           Body(f) == [n \in 0 .. ButtonCount |-> IF n = 0 THEN 0 ELSE f[n - 1] + Bit(n - 1)]
<1>1. \A n \in 1 .. ButtonCount : \A x \in Nat :
          step[n][x] = x + Bit(n - 1) /\ step[n][x] \in Nat
    <2>1. \A n \in 1 .. ButtonCount : Bit(n - 1) \in Nat
        BY Powers, ButtonsNat
    <2> HIDE DEF Bit
    <2> QED BY <2>1
<1>2. PICK f : Iterates(f, ButtonCount, 0, step) /\ \A n \in 0 .. ButtonCount : f[n] \in Nat
    <2> HIDE DEF step
    <2> QED BY <1>1, ButtonsNat, Iteration
<1>3. f = Body(f)
    <2> HIDE DEF Bit, step
    <2>1. \A n \in 0 .. ButtonCount : n # 0 => n \in 1 .. ButtonCount /\ n - 1 \in 0 .. ButtonCount
        BY ButtonsNat
    <2>2. \A n \in 0 .. ButtonCount : n # 0 => step[n][f[n - 1]] = f[n - 1] + Bit(n - 1)
        BY <1>1, <1>2, <2>1
    <2> QED BY <1>2, <2>2 DEF Iterates
<1> DEFINE below == CHOOSE g : g = Body(g)
<1>4. below = Body(below)
    <2> HIDE DEF Body
    <2> QED BY <1>3
<1>5. Mask(buttons) = below[ButtonCount]
    BY DEF Mask
<1> HIDE DEF below
<1> QED BY <1>4, <1>5

\* A button is a bit of the mask if and only if it is pressed (1 << id), and the
\* mask is a word of as many bits as there are buttons.
LEMMA MaskBits ==
    ASSUME NEW buttons
    PROVE  /\ Mask(buttons) \in 0 .. Pow2[ButtonCount] - 1
           /\ \A id \in Buttons : IsPressed(Mask(buttons), id) <=> id \in buttons
<1>1. PICK below :
          /\ Mask(buttons) = below[ButtonCount]
          /\ \A n \in 0 .. ButtonCount : below[n] =
                 IF n = 0 THEN 0
                 ELSE below[n - 1] + (IF n - 1 \in buttons THEN Pow2[n - 1] ELSE 0)
    BY MaskLoop
<1> DEFINE Fact(n) == /\ below[n] \in 0 .. Pow2[n] - 1
                      /\ \A id \in 0 .. n - 1 :
                             (below[n] \div Pow2[id]) % 2 = 1 <=> id \in buttons
           S == {n \in Nat : n <= ButtonCount => Fact(n)}
<1>2. 0 \in S
    <2>1. below[0] = 0 /\ Pow2[0] = 1
        BY <1>1, PowerLoop, ButtonsNat
    <2> QED BY <2>1
<1>3. ASSUME NEW n \in S PROVE n + 1 \in S
    <2>1. SUFFICES ASSUME n + 1 <= ButtonCount PROVE Fact(n + 1)
        OBVIOUS
    <2>2. Fact(n) /\ n \in 0 .. ButtonCount /\ n + 1 \in 0 .. ButtonCount
        BY <2>1, ButtonsNat
    <2> DEFINE b == IF n \in buttons THEN 1 ELSE 0
    <2>3. Pow2[n] \in Nat \ {0} /\ below[n] \in 0 .. Pow2[n] - 1 /\ b \in {0, 1}
        BY <2>2, Powers
    <2>4. below[n + 1] = Pow2[n] * b + below[n]
        <3>1. n + 1 # 0 /\ (n + 1) - 1 = n
            BY <2>2
        <3>2. below[n + 1] = below[n] + (IF n \in buttons THEN Pow2[n] ELSE 0)
            BY <1>1, <2>2, <3>1
        <3> QED BY <2>3, <3>2
    <2>5. Pow2[n + 1] = 2 * Pow2[n]
        <3>1. n + 1 # 0 /\ (n + 1) - 1 = n
            BY <2>2
        <3> QED BY <2>2, <3>1, PowerLoop
    <2>6. below[n + 1] \in 0 .. Pow2[n + 1] - 1
        BY <2>3, <2>4, <2>5
    <2>7. (below[n + 1] \div Pow2[n]) % 2 = 1 <=> n \in buttons
        <3>1. below[n + 1] \div Pow2[n] = b
            <4> HIDE DEF b
            <4>1. b \in Int
                BY <2>3
            <4> QED BY <2>3, <2>4, <4>1, Remainder
        <3> QED BY <3>1
    <2>8. ASSUME NEW id \in 0 .. n - 1
          PROVE  (below[n + 1] \div Pow2[id]) % 2 = 1 <=> id \in buttons
        <3>1. Pow2[id] \in Nat \ {0}
            <4>1. id \in 0 .. ButtonCount
                BY <2>2, ButtonsNat
            <4> QED BY <4>1, Powers
        <3>2. PICK k \in Nat : Pow2[n] = Pow2[id] * (2 * k)
            BY <2>2, Powers
        <3> DEFINE q == below[n] \div Pow2[id]
                   r == below[n] % Pow2[id]
        <3>3. q \in Int /\ r \in 0 .. Pow2[id] - 1 /\ below[n] = Pow2[id] * q + r
            <4>1. below[n] \in Int
                BY <2>3
            <4> QED BY <3>1, <4>1, Division
        <3>4. q % 2 = 1 <=> id \in buttons
            BY <2>2
        <3> HIDE DEF q, r, b
        <3>5. PICK j \in Int : j = k * b
            BY <2>3
        <3>6. Pow2[n] * b = Pow2[id] * (2 * j)
            <4>1. \A P \in Nat, B \in {0, 1} : (P * (2 * k)) * B = P * (2 * (k * B))
                OBVIOUS
            <4> QED BY <2>3, <3>1, <3>2, <3>5, <4>1
        <3>7. below[n + 1] = Pow2[id] * (q + 2 * j) + r
            <4>1. Pow2[id] * (2 * j) + (Pow2[id] * q + r) = Pow2[id] * (q + 2 * j) + r
                BY <3>1, <3>3
            <4> QED BY <2>4, <3>3, <3>6, <4>1
        <3>8. below[n + 1] \div Pow2[id] = q + 2 * j
            <4>1. PICK t \in Int : t = q + 2 * j
                BY <3>3
            <4>2. below[n + 1] = Pow2[id] * t + r
                BY <3>7, <4>1
            <4>3. (Pow2[id] * t + r) \div Pow2[id] = t
                BY <3>1, <3>3, Remainder
            <4> QED BY <4>1, <4>2, <4>3
        <3>9. (q + 2 * j) % 2 = q % 2
            BY <3>3
        <3> QED BY <3>4, <3>8, <3>9
    <2>9. \A id \in 0 .. (n + 1) - 1 : id \in 0 .. n - 1 \/ id = n
        BY <2>2
    <2> QED BY <2>6, <2>7, <2>8, <2>9
<1>4. Fact(ButtonCount)
    <2>1. S \in SUBSET Nat
        OBVIOUS
    <2> HIDE DEF S
    <2>2. Nat \subseteq S
        BY <1>2, <1>3, <2>1, Induction
    <2>3. ButtonCount \in S
        BY <2>2, ButtonsNat
    <2> QED BY <2>3, ButtonsNat DEF S
<1> QED BY <1>1, <1>4 DEF Buttons, IsPressed

\* A word that the frontend returns as a short is the same again as a ushort,
\* its sign bit included.
LEMMA ShortRoundTrip ==
    ASSUME NEW word \in 0 .. Pow2[ButtonCount] - 1
    PROVE  AsUshort(AsShort(word)) = word
<1>1. Pow2[ButtonCount] \in Nat \ {0}
    <2>1. ButtonCount \in 0 .. ButtonCount
        BY ButtonsNat
    <2> QED BY <2>1, Powers
<1>2. word % Pow2[ButtonCount] = word
    BY <1>1, Around
<1>3. (word - Pow2[ButtonCount]) % Pow2[ButtonCount] = word
    <2>1. word - Pow2[ButtonCount] \in Int
          /\ (word - Pow2[ButtonCount]) + Pow2[ButtonCount] = word
        BY <1>1
    <2> QED BY <1>1, <2>1, Around
<1> QED BY <1>2, <1>3 DEF AsUshort, AsShort

\* The value a core gets of a pad has the bits of the buttons pressed on it, by
\* bitmask and button by button.
LEMMA PadBits ==
    ASSUME NEW buttons \in SUBSET Buttons, "InputState" \in callbacks, NEW id \in Buttons
    PROVE  IsPressed(PadValue(buttons), id) <=> id \in buttons
<1>1. CASE bitmasks
    <2>1. PadValue(buttons) = Mask(buttons)
        BY <1>1, MaskBits, ShortRoundTrip DEF PadValue, InputStateMask
    <2> QED BY <2>1, MaskBits
<1>2. CASE ~bitmasks
    <2>1. {other \in Buttons : InputState(buttons, other) # 0} = buttons
        BY DEF InputState
    <2>2. PadValue(buttons) = Mask(buttons)
        BY <1>2, <2>1 DEF PadValue
    <2> QED BY <2>2, MaskBits
<1> QED BY <1>1, <1>2

----------------------------------------------------------------------------
(* The invariant of a frame.                                               *)

\* The first read of a frame polls, and fixes what every later one returns.
ReadsFollowPoll ==
    /\ ~inputPolled => polls = 0 /\ \A p \in Ports : reads[p] = {}
    /\ inputPolled => polls = (IF "InputPoll" \in callbacks THEN 1 ELSE 0)
    /\ \A p \in Ports : reads[p] \subseteq {PadValue(latched[p])}

\* In the loop over the stereo frames the frontend has got one a round.
PlayedSoFar ==
    playing => "Audio" \in enable /\ next <= Frames(span) /\ Len(heard) = next

AudioInv == AudioAccounted /\ PlayedSoFar

FrameInv == TypeOK /\ ReadsFollowPoll /\ RowsInSpan /\ AudioInv

\* The sizes are numbers.
LEMMA FrameSizes ==
    /\ PixelBytes \in Nat
    /\ SpanLengths \subseteq Nat /\ Extents \subseteq Nat /\ Pitches \subseteq Nat
    /\ AudioLengths \subseteq Nat
  BY ONLY FrameAssumption DEF FrameAssumption

\* What is enabled, whatever the frontend answers.
LEMMA EnableTypes ==
    ASSUME NEW answer \in EnableAnswers
    PROVE  AudioVideoEnable(answer) \subseteq {"Video", "Audio"}
<1>1. EnableAnswers \subseteq (SUBSET {"Video", "Audio"}) \cup {NoAnswer}
  BY ONLY FrameAssumption DEF FrameAssumption
<1> QED
  BY <1>1 DEF AudioVideoEnable

\* A picture whose last row fits has all its rows within the span.
LEMMA FittingRows ==
    ASSUME NEW p \in Pictures, p.height # 0, Fits(p), NEW row \in 0 .. p.height - 1
    PROVE  row * p.pitch + p.width * PixelBytes <= p.length * PixelBytes
<1>1. /\ p.pitch \in Nat /\ p.height \in Nat /\ p.width \in Nat /\ p.length \in Nat
      /\ PixelBytes \in Nat /\ row \in Nat
  <2>1. p.pitch \in Pitches /\ p.height \in Extents /\ p.width \in Extents
        /\ p.length \in SpanLengths
    BY DEF Pictures
  <2>2. p.height \in Nat /\ PixelBytes \in Nat
    BY <2>1, FrameSizes
  <2>3. row \in Nat
    BY <2>2
  <2> QED
    BY <2>1, <2>2, <2>3, FrameSizes
<1>2. /\ p.width * PixelBytes \in Nat /\ p.length * PixelBytes \in Nat
      /\ row * p.pitch \in Nat /\ p.pitch * (p.height - 1) \in Int
  BY <1>1
<1>3. row * p.pitch <= p.pitch * (p.height - 1)
  <2>1. \A a, b, c \in Nat : a <= b => a * c <= c * b
    OBVIOUS
  <2>2. p.height - 1 \in Nat /\ row <= p.height - 1
    BY <1>1
  <2> QED
    BY <1>1, <2>1, <2>2
<1>4. p.pitch * (p.height - 1) + p.width * PixelBytes <= p.length * PixelBytes
  BY DEF Fits, RequiredBytes, RowBytes, AvailableBytes
<1> QED
  BY <1>2, <1>3, <1>4

\* The context as the host creates it.
LEMMA BeginKeeps ==
    ASSUME FrameInv, NEW set \in CallbackSets, NEW granted \in BOOLEAN,
           NEW answer \in EnableAnswers, BeginFrame(set, granted, answer)
    PROVE  FrameInv'
<1>1. enable' \subseteq {"Video", "Audio"}
  BY EnableTypes DEF BeginFrame
<1>2. /\ reads' = [p \in Ports |-> {}] /\ polls' = 0 /\ inputPolled' = FALSE
      /\ shown' = NoVideo
      /\ span' = 0 /\ playing' = FALSE /\ next' = 0 /\ heard' = <<>> /\ told' = 0
      /\ running' = TRUE /\ callbacks' = set /\ bitmasks' = granted
      /\ UNCHANGED <<failed, live, latched>>
  BY DEF BeginFrame, ReturnAudio
<1>3. TypeOK'
  <2>1. <<>> \in Seq(Nat \X Nat)
    OBVIOUS
  <2>2. DOMAIN reads' = Ports
    BY <1>2
  <2> QED
    BY <1>1, <1>2, <2>1, <2>2 DEF FrameInv, TypeOK
<1>4. ReadsFollowPoll'
  BY <1>2 DEF ReadsFollowPoll
<1>5. RowsInSpan' /\ AudioInv'
  BY <1>2 DEF RowsInSpan, AudioInv, AudioAccounted, PlayedSoFar
<1> QED
  BY <1>3, <1>4, <1>5 DEF FrameInv

\* Reading a pad.
LEMMA PollKeeps ==
    ASSUME FrameInv, NEW port \in Ports, PollRetroPad(port) PROVE FrameInv'
<1>1. /\ inputPolled' = TRUE
      /\ reads' = [reads EXCEPT ![port] = @ \cup {PadValue(latched'[port])}]
      /\ UNCHANGED <<running, failed, callbacks, bitmasks, enable, live, shown,
                     span, playing, next, heard, told>>
  BY DEF PollRetroPad, context, audio
<1>2. CASE ~inputPolled /\ "InputPoll" \in callbacks
  <2>1. latched' = live /\ polls' = 1 /\ \A p \in Ports : reads[p] = {}
    BY <1>2 DEF PollRetroPad, FrameInv, ReadsFollowPoll
  <2>2. TypeOK'
    BY <1>1, <2>1 DEF FrameInv, TypeOK
  <2>3. \A p \in Ports : reads'[p] \subseteq {PadValue(latched'[p])}
    BY <1>1, <2>1
  <2>4. ReadsFollowPoll'
    BY <1>1, <1>2, <2>1, <2>3 DEF ReadsFollowPoll, PadValue
  <2> QED
    BY <1>1, <2>2, <2>4 DEF FrameInv, RowsInSpan, AudioInv, AudioAccounted, PlayedSoFar
<1>3. CASE ~(~inputPolled /\ "InputPoll" \in callbacks)
  <2>1. UNCHANGED <<latched, polls>>
    BY <1>3 DEF PollRetroPad
  <2>2. TypeOK'
    BY <1>1, <2>1 DEF FrameInv, TypeOK
  <2>3. \A p \in Ports : reads'[p] \subseteq {PadValue(latched'[p])}
    BY <1>1, <2>1 DEF FrameInv, ReadsFollowPoll
  <2>4. ReadsFollowPoll'
    BY <1>1, <1>3, <2>1, <2>3 DEF FrameInv, ReadsFollowPoll, PadValue
  <2> QED
    BY <1>1, <2>2, <2>4 DEF FrameInv, RowsInSpan, AudioInv, AudioAccounted, PlayedSoFar
<1> QED
  BY <1>2, <1>3

\* Submitting a picture.
LEMMA VideoKeeps ==
    ASSUME FrameInv, NEW p \in Pictures, SubmitVideo(p) PROVE FrameInv'
<1>1. /\ UNCHANGED <<callbacks, bitmasks, enable, inputPolled, latched, polls, reads, live,
                     span, playing, next, heard, told>>
      /\ running' \in BOOLEAN /\ failed' \in BOOLEAN
      /\ shown' = shown \/ (shown' = p /\ p.height # 0 /\ Fits(p))
  BY DEF SubmitVideo, context, input, audio, FrameInv, TypeOK
<1>2. TypeOK'
  BY <1>1 DEF FrameInv, TypeOK
<1>3. ReadsFollowPoll'
  BY <1>1 DEF FrameInv, ReadsFollowPoll, PadValue
<1>4. RowsInSpan'
  BY <1>1, FittingRows DEF FrameInv, RowsInSpan
<1> QED
  BY <1>1, <1>2, <1>3, <1>4 DEF FrameInv, AudioInv, AudioAccounted, PlayedSoFar

\* A step that only touches the audio keeps what is known of pads and pictures.
LEMMA AudioOnly ==
    ASSUME FrameInv,
           UNCHANGED <<running, failed, callbacks, bitmasks, enable, inputPolled, latched,
                       polls, reads, live, shown>>,
           span' \in AudioLengths \cup {0}, playing' \in BOOLEAN, next' \in Nat,
           heard' \in Seq(Nat \X Nat), told' \in Nat, AudioInv'
    PROVE  FrameInv'
<1>1. TypeOK'
  BY DEF FrameInv, TypeOK
<1>2. ReadsFollowPoll'
  BY DEF FrameInv, ReadsFollowPoll, PadValue
<1> QED
  BY <1>1, <1>2 DEF FrameInv, RowsInSpan

\* The frames the frontend takes from a span at once.
LEMMA TakenFrames ==
    ASSUME NEW length \in Nat, NEW n \in 0 .. Frames(length)
    PROVE  /\ FirstFrames(n) \in Seq(Nat \X Nat) /\ Len(FirstFrames(n)) = n
           /\ \A f \in 1 .. n :
                 FirstFrames(n)[f] = <<2 * f - 2, 2 * f - 1>> /\ 2 * f <= length
<1>1. Frames(length) \in Nat /\ n \in Nat /\ 2 * Frames(length) <= length
  BY DEF Frames
<1>2. \A f \in 1 .. n : Stereo(f - 1) = <<2 * f - 2, 2 * f - 1>> /\ Stereo(f - 1) \in Nat \X Nat
  BY <1>1 DEF Stereo
<1>3. FirstFrames(n) \in [1 .. n -> Nat \X Nat]
  BY <1>2 DEF FirstFrames
<1>4. FirstFrames(n) \in Seq(Nat \X Nat) /\ Len(FirstFrames(n)) = n
  BY <1>1, <1>3
<1> QED
  BY <1>1, <1>2, <1>4 DEF FirstFrames

\* Submitting audio: refused, dropped, taken by the batch, or begun sample by sample.
LEMMA AudioKeeps ==
    ASSUME FrameInv, NEW length \in AudioLengths, SubmitAudio(length) PROVE FrameInv'
<1>1. /\ UNCHANGED <<running, failed, callbacks, bitmasks, enable, inputPolled, latched, polls,
                     reads, live, shown>>
      /\ span' = length /\ length \in Nat /\ Frames(length) \in Nat
  BY FrameSizes DEF SubmitAudio, context, input, Frames
<1>2. ASSUME NEW n \in Nat, ReturnAudio(<<>>, n), n = 0 \/ "Audio" \notin enable
      PROVE  FrameInv'
  <2>1. heard' = <<>> /\ told' = n /\ playing' = FALSE /\ next' = 0
    BY <1>2 DEF ReturnAudio
  <2>2. <<>> \in Seq(Nat \X Nat) /\ Len(<<>>) = 0
    OBVIOUS
  <2>3. AudioInv'
    BY <1>1, <1>2, <2>1, <2>2 DEF AudioInv, AudioAccounted, PlayedSoFar
  <2> QED
    BY <1>1, <2>1, <2>2, <2>3, AudioOnly
<1>3. CASE ReturnAudio(<<>>, 0) \/ ("Audio" \notin enable /\ ReturnAudio(<<>>, Frames(length)))
  BY <1>1, <1>2, <1>3
<1>4. ASSUME "Audio" \in enable,
             NEW taken \in 0 .. Frames(length), ReturnAudio(FirstFrames(taken), taken)
      PROVE  FrameInv'
  <2>1. /\ heard' \in Seq(Nat \X Nat) /\ Len(heard') = taken
        /\ \A f \in 1 .. taken : heard'[f] = <<2 * f - 2, 2 * f - 1>> /\ 2 * f <= span'
    BY <1>1, <1>4, TakenFrames DEF ReturnAudio
  <2>2. told' = taken /\ taken \in Nat /\ playing' = FALSE /\ next' = 0
    BY <1>1, <1>4 DEF ReturnAudio
  <2>3. AudioInv'
    BY <1>1, <1>4, <2>1, <2>2 DEF AudioInv, AudioAccounted, PlayedSoFar
  <2> QED
    BY <1>1, <2>1, <2>2, <2>3, AudioOnly
<1>5. CASE "Audio" \in enable /\ playing' = TRUE /\ next' = 0 /\ heard' = <<>> /\ told' = 0
  <2>1. AudioInv'
    BY <1>1, <1>5 DEF AudioInv, AudioAccounted, PlayedSoFar, Frames
  <2>2. <<>> \in Seq(Nat \X Nat)
    OBVIOUS
  <2> QED
    BY <1>1, <1>5, <2>1, <2>2, AudioOnly
<1> QED
  BY <1>2, <1>3, <1>4, <1>5 DEF SubmitAudio

\* A round of the loop.
LEMMA SampleKeeps == FrameInv /\ AudioSample => FrameInv'
<1> SUFFICES ASSUME FrameInv, AudioSample PROVE FrameInv'
  OBVIOUS
<1>1. /\ UNCHANGED <<running, failed, callbacks, bitmasks, enable, inputPolled, latched, polls,
                     reads, live, shown, span, playing, told>>
      /\ playing /\ next < Frames(span) /\ next' = next + 1
      /\ heard' = Append(heard, Stereo(next))
  BY DEF AudioSample, context, input
<1>2. /\ "Audio" \in enable /\ Len(heard) = next /\ next \in Nat /\ told \in Nat
      /\ heard \in Seq(Nat \X Nat)
      /\ \A f \in 1 .. Len(heard) : heard[f] = <<2 * f - 2, 2 * f - 1>> /\ 2 * f <= span
      /\ span \in AudioLengths \cup {0} /\ playing \in BOOLEAN
  BY <1>1 DEF FrameInv, TypeOK, AudioInv, AudioAccounted, PlayedSoFar
<1>3. span \in Nat /\ Frames(span) \in Nat /\ 2 * Frames(span) <= span
  BY <1>2, FrameSizes DEF Frames
<1>4. Stereo(next) \in Nat \X Nat
  BY <1>2 DEF Stereo
<1>5. heard' \in Seq(Nat \X Nat) /\ Len(heard') = next + 1
  BY <1>1, <1>2, <1>4
<1>6. \A f \in 1 .. next + 1 : heard'[f] = <<2 * f - 2, 2 * f - 1>> /\ 2 * f <= span
  <2> SUFFICES ASSUME NEW f \in 1 .. next + 1
               PROVE  heard'[f] = <<2 * f - 2, 2 * f - 1>> /\ 2 * f <= span
    OBVIOUS
  <2>1. CASE f \in 1 .. next
    BY <1>1, <1>2, <1>4, <2>1
  <2>2. CASE f = next + 1
    <3>1. heard'[f] = Stereo(next)
      BY <1>1, <1>2, <1>4, <2>2
    <3>2. 2 * next = 2 * f - 2 /\ 2 * next + 1 = 2 * f - 1
      BY <1>2, <2>2
    <3>3. 2 * f <= span
      BY <1>1, <1>2, <1>3, <2>2
    <3> QED
      BY <3>1, <3>2, <3>3 DEF Stereo
  <2> QED
    BY <1>2, <2>1, <2>2
<1>7. AudioAccounted'
  <2>1. Len(heard') = next + 1 /\ span' = span /\ playing'
    BY <1>1, <1>5
  <2>2. \A f \in 1 .. Len(heard') : heard'[f] = <<2 * f - 2, 2 * f - 1>> /\ 2 * f <= span'
    BY ONLY <1>6, <2>1
  <2> QED
    BY ONLY <2>1, <2>2 DEF AudioAccounted
<1>8. PlayedSoFar'
  <2>1. span' = span /\ enable' = enable /\ next' = next + 1
    BY <1>1
  <2>2. next + 1 <= Frames(span)
    BY ONLY <1>1, <1>2, <1>3
  <2>3. Frames(span)' = Frames(span)
    BY ONLY <2>1 DEF Frames
  <2> QED
    BY ONLY <1>2, <1>5, <2>1, <2>2, <2>3 DEF PlayedSoFar
<1>9. AudioInv'
  BY ONLY <1>7, <1>8 DEF AudioInv
<1> QED
  BY <1>1, <1>2, <1>5, <1>9, AudioOnly

\* The end of the loop: as many frames were delivered as are returned.
LEMMA LoopEndKeeps == FrameInv /\ AllSamplesPlayed => FrameInv'
<1> SUFFICES ASSUME FrameInv, AllSamplesPlayed PROVE FrameInv'
  OBVIOUS
<1>1. /\ UNCHANGED <<running, failed, callbacks, bitmasks, enable, inputPolled, latched, polls,
                     reads, live, shown, span, next, heard>>
      /\ playing /\ next >= Frames(span) /\ playing' = FALSE /\ told' = Frames(span)
  BY DEF AllSamplesPlayed, context, input
<1>2. /\ "Audio" \in enable /\ next <= Frames(span) /\ Len(heard) = next /\ next \in Nat
      /\ heard \in Seq(Nat \X Nat) /\ span \in AudioLengths \cup {0} /\ AudioAccounted
  BY <1>1 DEF FrameInv, TypeOK, AudioInv, PlayedSoFar
<1>3. Frames(span) \in Nat
  BY <1>2, FrameSizes DEF Frames
<1>4. Len(heard) = Frames(span)
  BY ONLY <1>1, <1>2, <1>3
<1>5. AudioAccounted'
  <2>1. heard' = heard /\ span' = span /\ enable' = enable /\ told' = Frames(span)
    BY <1>1
  <2> QED
    BY ONLY <1>2, <1>4, <2>1 DEF AudioAccounted
<1>6. AudioInv'
  BY ONLY <1>1, <1>5 DEF AudioInv, PlayedSoFar
<1> QED
  BY <1>1, <1>2, <1>3, <1>6, AudioOnly

\* The frame's invariant holds always.
LEMMA FrameAlways == Spec => []FrameInv
<1>1. Init => FrameInv
  <2> SUFFICES ASSUME Init PROVE FrameInv
    OBVIOUS
  <2>1. TypeOK
    <3>1. <<>> \in Seq(Nat \X Nat)
      OBVIOUS
    <3>2. [p \in Ports |-> {}] \in [Ports -> SUBSET Buttons]
      OBVIOUS
    <3>3. DOMAIN reads = Ports
      BY DEF Init
    <3> QED
      BY <3>1, <3>2, <3>3 DEF Init, TypeOK
  <2>2. ReadsFollowPoll /\ RowsInSpan /\ AudioInv
    BY DEF Init, ReadsFollowPoll, RowsInSpan, AudioInv, AudioAccounted, PlayedSoFar
  <2> QED
    BY <2>1, <2>2 DEF FrameInv
<1>2. FrameInv /\ [Next]_vars => FrameInv'
  <2> SUFFICES ASSUME FrameInv, [Next]_vars PROVE FrameInv'
    OBVIOUS
  <2>1. ASSUME NEW set \in CallbackSets, NEW granted \in BOOLEAN,
               NEW answer \in EnableAnswers, BeginFrame(set, granted, answer)
        PROVE  FrameInv'
    BY <2>1, BeginKeeps
  <2>2. ASSUME NEW port \in Ports, PollRetroPad(port) PROVE FrameInv'
    BY <2>2, PollKeeps
  <2>3. ASSUME NEW port \in Ports, NEW buttons \in SUBSET Buttons, Press(port, buttons)
        PROVE  FrameInv'
    <3>1. /\ live' \in [Ports -> SUBSET Buttons]
          /\ UNCHANGED <<running, failed, callbacks, bitmasks, enable, inputPolled, latched, polls,
                         reads, shown, span, playing, next, heard, told>>
      BY <2>3 DEF Press, context, input, audio, FrameInv, TypeOK
    <3>2. TypeOK'
      BY <3>1 DEF FrameInv, TypeOK
    <3>3. ReadsFollowPoll'
      BY <3>1 DEF FrameInv, ReadsFollowPoll, PadValue
    <3> QED
      BY <3>1, <3>2, <3>3 DEF FrameInv, RowsInSpan, AudioInv, AudioAccounted, PlayedSoFar
  <2>4. ASSUME NEW p \in Pictures, SubmitVideo(p) PROVE FrameInv'
    BY <2>4, VideoKeeps
  <2>5. ASSUME NEW length \in AudioLengths, SubmitAudio(length) PROVE FrameInv'
    BY <2>5, AudioKeeps
  <2>6. CASE AudioSample
    BY <2>6, SampleKeeps
  <2>7. CASE AllSamplesPlayed
    BY <2>7, LoopEndKeeps
  <2>8. CASE EndFrame \/ UNCHANGED vars
    <3>1. /\ running' \in BOOLEAN
          /\ UNCHANGED <<failed, callbacks, bitmasks, enable, inputPolled, live, latched, polls,
                         reads, shown, span, playing, next, heard, told>>
      BY <2>8 DEF EndFrame, vars, context, input, audio, FrameInv, TypeOK
    <3>2. TypeOK'
      BY <3>1 DEF FrameInv, TypeOK
    <3>3. ReadsFollowPoll'
      BY <3>1 DEF FrameInv, ReadsFollowPoll, PadValue
    <3> QED
      BY <3>1, <3>2, <3>3 DEF FrameInv, RowsInSpan, AudioInv, AudioAccounted, PlayedSoFar
  <2> QED
    BY <2>1, <2>2, <2>3, <2>4, <2>5, <2>6, <2>7, <2>8 DEF Next
<1> QED
  BY <1>1, <1>2, PTL DEF Spec

\* The variables of a frame have their types; in particular it polls at most once.
THEOREM FrameTypes == Spec => []TypeOK
<1>1. FrameInv => TypeOK
  BY DEF FrameInv
<1> QED
  BY <1>1, FrameAlways, PTL

\* No pad is read before the one poll of its frame.
THEOREM ReadsArePolled == Spec => []PolledBeforeRead
<1>1. FrameInv => PolledBeforeRead
  BY DEF FrameInv, ReadsFollowPoll, PolledBeforeRead
<1> QED
  BY <1>1, FrameAlways, PTL

\* All reads of a pad in one frame agree.
THEOREM InputIsSteady == Spec => []SteadyInput
<1>1. FrameInv => SteadyInput
  BY DEF FrameInv, ReadsFollowPoll, SteadyInput
<1> QED
  BY <1>1, FrameAlways, PTL

\* Every button reads as the frontend latched it, of any number of buttons and
\* with a bitmask or without (PollRetroPad).
THEOREM PadsAreDecoded == Spec => []PadsDecoded
<1>1. FrameInv => PadsDecoded
  <2> SUFFICES ASSUME FrameInv, "InputState" \in callbacks, NEW p \in Ports,
                      NEW v \in reads[p], NEW id \in Buttons
               PROVE  IsPressed(v, id) <=> id \in latched[p]
    BY DEF PadsDecoded
  <2>1. v = PadValue(latched[p]) /\ latched[p] \in SUBSET Buttons
    BY DEF FrameInv, TypeOK, ReadsFollowPoll
  <2> QED
    BY <2>1, PadBits
<1> QED
  BY <1>1, FrameAlways, PTL

\* The frontend never reads a picture past the end of the core's span.
THEOREM PicturesInSpan == Spec => []RowsInSpan
<1>1. FrameInv => RowsInSpan
  BY DEF FrameInv
<1> QED
  BY <1>1, FrameAlways, PTL

\* Of a span of any length the frontend gets the first stereo frames, in order, and
\* the core is told of just as many, on every path through SubmitAudio.
THEOREM AudioIsAccounted == Spec => []AudioAccounted
<1>1. FrameInv => AudioAccounted
  BY DEF FrameInv, AudioInv
<1> QED
  BY <1>1, FrameAlways, PTL
=============================================================================
