--------------------------- MODULE MCFrameContext ---------------------------
(* Small instances of FrameContext: one for the pads, one for the output.  *)
EXTENDS FrameContext

\* Every way the input callbacks can be set, and the output callbacks.
InputCallbacks == SUBSET {"InputPoll", "InputState"}
OutputCallbacks == SUBSET {"VideoRefresh", "AudioSampleBatch", "AudioSample"}

Nothing == {}
NoEnableAnswer == {NoAnswer}
AllEnableAnswers == (SUBSET {"Video", "Audio"}) \cup {NoAnswer}

\* A nuint of five bits, so that a large pitch overflows.
SmallLengths == {0, 1, 3, 4, 6, 7}
SmallExtents == 0 .. 3
SmallPitches == {0, 2, 4, 6, 16, 31}
SmallAudio == {0, 1, 2, 6}
=============================================================================
