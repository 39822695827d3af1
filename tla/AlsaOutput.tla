------------------------------ MODULE AlsaOutput ------------------------------
(***************************************************************************)
(* The PCM output of a stream: aml_output_manager.c with the playback      *)
(* device of standard_alsa_manager.c under it and the volume ramp of       *)
(* aml_audio_ease.c, all under src/src/audio_hal.                          *)
(*                                                                         *)
(* The unit is a frame.  delay_ring_buf is the queue that RingBuffer is     *)
(* shown to be: only how much it holds is kept.  The last DELAY_TIME ms    *)
(* stay in it, to be faded out when the output is closed.                  *)
(***************************************************************************)
EXTENDS Integers

CONSTANTS
  OutputFrames,  \* OUTPUT_FRAMES
  DelayFrames,   \* delay_size, and the frames of DELAY_TIME ms
  DelayBuf,      \* delay_buf_size
  EaseIn,        \* frames of the 200 ms in which an output is faded in
  SilenceFrames,       \* frames of silence after the fade out, rate / 10
  MaxWritten,    \* bound: frames of one call
  MaxPlayed      \* bound: frames accepted while the output is open

ASSUME OutputAssumption ==
  /\ OutputFrames \in Nat \ {0} /\ SilenceFrames \in Nat /\ MaxWritten \in Nat
  /\ DelayFrames \in Nat /\ DelayFrames > 1
  /\ DelayBuf \in Nat /\ DelayBuf > DelayFrames
  /\ EaseIn \in Nat /\ EaseIn > 1

VARIABLES
  output,          \* closed, idle, write, fade or silence
  accepted,        \* frames taken since the output was opened
  delay_ring_buf,  \* frames in the ring
  ease,            \* the ramp of audio_ease
  buffer,          \* length of the buffer that pieces are read into
  piece, count,    \* what standard_alsa_output_write got, and has still to write
  silence_frame

outvars == <<output, accepted, delay_ring_buf, ease, buffer, piece, count,
             silence_frame>>

\* Volume 1.0, in steps that both ramps meet exactly
FullVolume == (DelayFrames - 1) * (EaseIn - 1)

\* aml_audio_ease_config
Ease(from, to, frames) == [start |-> from, target |-> to, frames |-> frames, elapsed |-> 0]

\* Mutant: the fade out takes as long as the fade in
FadeOut_slow == Ease(FullVolume, 0, EaseIn)

\* aml_output_open: volume 0, then 200 ms to 1.0.  aml_output_close: volume
\* 1.0, then DELAY_TIME to 0.
FadeIn  == Ease(0, FullVolume, EaseIn)
FadeOut == Ease(FullVolume, 0, DelayFrames)

\* floatEaseNext, for the k-th frame of the ramp; past its end it stays
EasedVolume(k) ==
  LET at == IF k < ease.frames THEN k ELSE ease.frames - 1
  IN  ease.start + ((ease.target - ease.start) * at) \div (ease.frames - 1)

\* aml_audio_ease_process, for n frames
aml_audio_ease_process(n) ==
  [ease EXCEPT !.elapsed = IF @ + n < ease.frames THEN @ + n ELSE ease.frames]

\* The volume aml_audio_ease_process left
CurrentVolume == IF ease.elapsed = 0 THEN ease.start ELSE EasedVolume(ease.elapsed - 1)

AlsaInit ==
  /\ output = "closed" /\ accepted = 0 /\ delay_ring_buf = 0
  /\ ease = FadeIn /\ buffer = 0 /\ piece = 0 /\ count = 0
  /\ silence_frame = 0

-----------------------------------------------------------------------------
aml_output_open ==
  /\ output = "closed"
  /\ output' = "idle" /\ accepted' = 0 /\ delay_ring_buf' = 0 /\ ease' = FadeIn
  /\ UNCHANGED <<buffer, piece, count, silence_frame>>

\* "Can't write to delay buffer" drops the caller's frames
Fits(n) == DelayBuf - delay_ring_buf > n

aml_output_write_pcm(n) ==
  /\ output = "idle" /\ accepted + n <= MaxPlayed
  /\ output' = "write" /\ buffer' = n
  /\ IF Fits(n)
     THEN /\ accepted' = accepted + n
          /\ delay_ring_buf' = delay_ring_buf + n
     ELSE UNCHANGED <<accepted, delay_ring_buf>>
  /\ UNCHANGED <<ease, piece, count, silence_frame>>

\* How much of the ring is left alone
Kept == IF output = "write" THEN DelayFrames ELSE 0

\* Both loops: a piece leaves the ring for the buffer, is eased and written
NextPiece ==
  LET avail == delay_ring_buf - Kept
      n == IF avail < OutputFrames THEN avail ELSE OutputFrames
  IN  /\ output \in {"write", "fade"} /\ count = 0 /\ avail > 0
      /\ delay_ring_buf' = delay_ring_buf - n
      /\ piece' = n
      /\ ease' = aml_audio_ease_process(n)
      /\ count' = n
      /\ UNCHANGED <<output, accepted, buffer, silence_frame>>

\* snd_pcm_writei takes k frames, from the start of the buffer again after a
\* short write.  EINTR, a resumed or a prepared device change nothing.
standard_alsa_output_write(k) ==
  /\ count > 0 /\ k <= count
  /\ count' = count - k
  /\ UNCHANGED <<output, accepted, delay_ring_buf, ease, buffer, piece, silence_frame>>

\* Mutant: a failed write ends the loop over the pieces
GiveUp_all ==
  /\ count > 0 /\ count' = 0
  /\ output' = IF output = "write" THEN "idle" ELSE output
  /\ UNCHANGED <<accepted, delay_ring_buf, ease, buffer, piece, silence_frame>>

\* One second has passed, or the device cannot be prepared
GiveUp ==
  /\ count > 0 /\ count' = 0
  /\ UNCHANGED <<output, accepted, delay_ring_buf, ease, buffer, piece, silence_frame>>

WriteReturns ==
  /\ output = "write" /\ count = 0 /\ delay_ring_buf <= DelayFrames
  /\ output' = "idle"
  /\ UNCHANGED <<accepted, delay_ring_buf, ease, buffer, piece, count, silence_frame>>

\* Only a running device with frames to play is faded out
aml_output_close(running) ==
  /\ output = "idle"
  /\ buffer' = OutputFrames
  /\ IF running
     THEN output' = "fade" /\ ease' = FadeOut /\ silence_frame' = SilenceFrames
     ELSE output' = "silence" /\ UNCHANGED ease /\ silence_frame' = 0
  /\ UNCHANGED <<accepted, delay_ring_buf, piece, count>>

\* The delayed frames are out
Faded ==
  /\ output = "fade" /\ count = 0 /\ delay_ring_buf = 0
  /\ output' = "silence"
  /\ UNCHANGED <<accepted, delay_ring_buf, ease, buffer, piece, count, silence_frame>>

WriteSilence ==
  /\ output = "silence" /\ count = 0 /\ silence_frame > 0
  /\ silence_frame' = silence_frame - OutputFrames
  /\ piece' = OutputFrames
  /\ count' = OutputFrames
  /\ UNCHANGED <<output, accepted, delay_ring_buf, ease, buffer>>

standard_alsa_output_close ==
  /\ output = "silence" /\ count = 0 /\ silence_frame <= 0
  /\ output' = "closed" /\ delay_ring_buf' = 0
  /\ piece' = 0 /\ buffer' = 0 /\ silence_frame' = 0 /\ accepted' = 0
  /\ UNCHANGED <<ease, count>>

AlsaNext ==
  \/ aml_output_open \/ NextPiece \/ GiveUp \/ WriteReturns
  \/ Faded \/ WriteSilence \/ standard_alsa_output_close
  \/ \E n \in 1..MaxWritten : aml_output_write_pcm(n)
  \/ \E k \in 1..OutputFrames : standard_alsa_output_write(k)
  \/ \E running \in BOOLEAN : aml_output_close(running)

AlsaSpec == AlsaInit /\ [][AlsaNext]_outvars

-----------------------------------------------------------------------------
(* Properties *)

\* aml_output_write_pcm reads the pieces back into its caller's buffer, however
\* short that is: a piece is never longer, because the ring never holds more than
\* the delay between two calls, also when a call was dropped or a write failed.
PiecesFitBuffer == count > 0 => piece <= buffer

\* An output that accepted the delay's worth of frames is silent when the ring is
\* empty: the ramp ends with the last of them, neither before nor after.
FadeReachesSilence ==
  /\ output = "silence" /\ silence_frame > 0 /\ accepted >= DelayFrames => CurrentVolume = 0
  /\ output = "fade" /\ delay_ring_buf > 0 => CurrentVolume > 0
=============================================================================
