------------------------------ MODULE AudioDelay ------------------------------
(***************************************************************************)
(* The audio delay of src/src/audio_hal/aml_audio_delay.c, the last step   *)
(* of audio_hal_data_processing: a circular buffer that each block goes    *)
(* through.  The device has one, which every stream that opens makes anew  *)
(* and every stream that closes frees.  No mutex guards it: the model      *)
(* takes one call at a time.                                               *)
(***************************************************************************)
EXTENDS Integers, Sequences

CONSTANTS
  Samples, Silent,  \* values of a sample, and the one memset writes
  Rates,            \* samples of one ms
  DelayMax,         \* adev->delay_max
  MaxDelayTime,     \* bound on what is asked for
  FrameMax          \* ONE_FRAME_MAX_MS: the longest block

\* The buffer holds the longest delay and a block, both at the highest rate
DelayBufSize == (CHOOSE r \in Rates : \A s \in Rates : s <= r) * (DelayMax + FrameMax)

ASSUME DelayAssumption ==
  /\ Silent \in Samples
  /\ Rates \subseteq Nat \ {0} /\ DelayMax \in Nat /\ MaxDelayTime \in Nat
  /\ FrameMax \in Nat \ {0} /\ DelayBufSize \in Nat \ {0}
  /\ \A r \in Rates : r * (DelayMax + FrameMax) <= DelayBufSize

VARIABLES
  adev_delay_time,   \* adev->delay_time
  delay_handle,      \* adev->delay_handle is not NULL
  delay_time,        \* delay_handle->delay_time
  delay_buf, delay_wp, delay_rp,
  delayed,           \* what the caller got of its buffer from the last call
  delayed_rate       \* the rate of the last block that went through

handlevars == <<delay_time, delay_buf, delay_wp, delay_rp>>
delayvars == <<adev_delay_time, delay_handle, handlevars, delayed, delayed_rate>>

DelayAddresses == 0..DelayBufSize - 1
SilentBuf == [a \in DelayAddresses |-> Silent]

\* Before the first stream is opened
DelayInit ==
  /\ adev_delay_time = 0 /\ delay_handle = FALSE /\ delay_time = 0
  /\ delay_buf = SilentBuf /\ delay_wp = 0 /\ delay_rp = 0
  /\ delayed = <<>> /\ delayed_rate \in Rates

-----------------------------------------------------------------------------
\* "delay_time" of adev_set_parameters
SetDelayTime(t) ==
  /\ adev_delay_time' = t
  /\ UNCHANGED <<delay_handle, handlevars, delayed, delayed_rate>>

NewHandle ==
  /\ delay_time' = 0 /\ delay_buf' = SilentBuf /\ delay_wp' = 0 /\ delay_rp' = 0
  /\ UNCHANGED <<adev_delay_time, delayed, delayed_rate>>

\* By adev_open_output_stream, whether or not another stream has made one
aml_audiodelay_init == delay_handle' = TRUE /\ NewHandle

\* By adev_close_output_stream, whether or not another stream is open.  What was in the
\* handle is gone with it.
aml_audiodelay_close == delay_handle' = FALSE /\ NewHandle

\* Both memcpy of a block into the buffer, and of one out of it
DelayIn(buf, p, data) ==
  [a \in DelayAddresses |->
     LET avail == DelayBufSize - p IN
     IF Len(data) > avail /\ a < Len(data) - avail THEN data[avail + a + 1]
     ELSE IF p <= a /\ a < p + Len(data) THEN data[a - p + 1]
     ELSE buf[a]]

DelayOut(buf, p, n) ==
  [i \in 1..n |-> IF n > DelayBufSize - p /\ i > DelayBufSize - p
                  THEN buf[i - (DelayBufSize - p) - 1] ELSE buf[p + i - 1]]

\* Mutant: a block that wraps leaves the pointer at the start of the buffer
DelayAdvance_start(p, n) == IF n > DelayBufSize - p THEN 0 ELSE (p + n) % DelayBufSize

DelayAdvance(p, n) ==
  IF n > DelayBufSize - p THEN n - (DelayBufSize - p) ELSE (p + n) % DelayBufSize

Clamped == IF adev_delay_time > DelayMax THEN DelayMax ELSE adev_delay_time

\* Without a handle the call fails, and its caller writes nothing
ProcessWithoutHandle ==
  /\ ~delay_handle /\ delayed' = <<>>
  /\ UNCHANGED <<adev_delay_time, delay_handle, handlevars, delayed_rate>>

\* The block is written, and then as much is read, from where the last block ended;
\* a new delay starts from an empty buffer
aml_audiodelay_process(data, rate) ==
  LET changed == delay_time # Clamped
      from == IF changed THEN SilentBuf ELSE delay_buf
      w == IF changed THEN 0 ELSE delay_wp
      r == IF changed THEN (DelayBufSize - rate * Clamped) % DelayBufSize ELSE delay_rp
      buf == DelayIn(from, w, data)
  IN  /\ delay_handle /\ UNCHANGED delay_handle
      /\ adev_delay_time' = Clamped /\ delay_time' = Clamped /\ delayed_rate' = rate
      /\ IF Clamped = 0
         THEN /\ delayed' = data
              /\ delay_buf' = from /\ delay_wp' = w /\ delay_rp' = r
         ELSE /\ delay_buf' = buf
              /\ delay_wp' = DelayAdvance(w, Len(data))
              /\ delay_rp' = DelayAdvance(r, Len(data))
              /\ delayed' = DelayOut(buf, r, Len(data))

DelayNext ==
  \/ \E t \in 0..MaxDelayTime : SetDelayTime(t)
  \/ aml_audiodelay_init \/ aml_audiodelay_close \/ ProcessWithoutHandle
  \/ \E rate \in Rates : \E n \in 1..rate * FrameMax : \E data \in [1..n -> Samples] :
       aml_audiodelay_process(data, rate)

DelaySpec == DelayInit /\ [][DelayNext]_delayvars

-----------------------------------------------------------------------------
(* Properties *)

\* The samples between the two pointers
Delayed ==
  LET n == IF delay_wp >= delay_rp THEN delay_wp - delay_rp
                                   ELSE delay_wp + DelayBufSize - delay_rp
  IN  DelayOut(delay_buf, delay_rp, n)

Line == INSTANCE DelayLine WITH asked <- Clamped, open <- delay_handle,
                                runs <- delay_time, line <- Delayed, heard <- delayed,
                                LongestBlock <- FrameMax, LongestDelay <- DelayMax

\* Through every wrap of the two pointers, every handle made anew and every change of
\* the delay, every sample comes out once, in order, and behind exactly as many as the
\* delay asked for is long at the rate it was first met with.  Nothing but another
\* delay or another handle starts the buffer anew.
ImplementsDelayLine == Line!Spec
=============================================================================
