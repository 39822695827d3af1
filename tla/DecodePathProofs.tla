-------------------------- MODULE DecodePathProofs --------------------------
(***************************************************************************)
(* Proofs about the decoding path: what is detected of an input, the       *)
(* format it carries and the sampling rate of SPDIF, what the decoder of   *)
(* bursts is given of it, and the PCM output that fades out what it kept.  *)
(***************************************************************************)
EXTENDS SpdifInput, FormatParser, AlsaOutput, DecoderInput,
        SequenceTheorems, FiniteSetTheorems, TLAPS

(***************************************************************************)
(* The PCM output.  OutputInv is inductive: what the ring holds between    *)
(* two calls is what was accepted, up to the delay; in the fade, what the  *)
(* ramp has covered and what the ring still holds make up the delay.       *)
(***************************************************************************)

OutputStates == {"closed", "idle", "write", "fade", "silence"}

OutputTypeInv ==
  /\ output \in OutputStates
  /\ accepted \in Nat /\ delay_ring_buf \in Nat
  /\ buffer \in Nat /\ piece \in Nat /\ count \in Nat
  /\ silence_frame \in Int

\* Between two calls nothing is left to write, and the ring holds the delay at most.
RingInv ==
  /\ output \in {"closed", "idle"} => count = 0 /\ delay_ring_buf <= DelayFrames
  /\ output = "write" => delay_ring_buf <= DelayFrames + buffer
  /\ output = "fade" => delay_ring_buf <= DelayFrames
  /\ output \in {"fade", "silence"} => buffer = OutputFrames

\* What was read of the ring for this write fits the buffer it was read into.
PieceInv == count > 0 => count <= piece /\ piece <= buffer

\* The ring keeps all that was accepted until that is the delay, and the delay then.
KeptInv ==
  output \in {"idle", "write", "fade"} =>
    \/ accepted >= DelayFrames /\ (output # "fade" => delay_ring_buf >= DelayFrames)
    \/ accepted < DelayFrames /\ (output # "fade" => delay_ring_buf = accepted)

\* How far the fade out is
FadingOut == /\ ease = [FadeOut EXCEPT !.elapsed = ease.elapsed]
             /\ ease.elapsed \in Nat

FadeInv ==
  /\ output = "fade" =>
       /\ FadingOut
       /\ ease.elapsed + delay_ring_buf <= DelayFrames
       /\ accepted >= DelayFrames => ease.elapsed + delay_ring_buf = DelayFrames
  /\ output = "silence" /\ silence_frame > 0 =>
       /\ FadingOut
       /\ accepted >= DelayFrames => ease.elapsed = DelayFrames

OutputInv == OutputTypeInv /\ RingInv /\ PieceInv /\ KeptInv /\ FadeInv

\* What the steps need of the constants
LEMMA OutputConstants ==
  /\ OutputFrames \in Nat /\ OutputFrames > 0 /\ SilenceFrames \in Nat
  /\ MaxWritten \in Nat
  /\ DelayFrames \in Nat /\ DelayFrames > 1 /\ DelayBuf \in Nat
  /\ EaseIn \in Nat /\ EaseIn > 1
BY OutputAssumption DEF OutputAssumption

LEMMA OutputInitial ==
  ASSUME AlsaInit PROVE OutputInv
<1> USE OutputConstants
<1>1. OutputTypeInv
  BY DEF AlsaInit, OutputTypeInv, OutputStates
<1>2. RingInv /\ PieceInv /\ KeptInv /\ FadeInv
  BY DEF AlsaInit, RingInv, PieceInv, KeptInv, FadeInv
<1>3. QED
  BY <1>1, <1>2 DEF OutputInv

\* A piece on its way to the buffer: within the call it is what is above the
\* delay, in the fade what the ramp has still to cover.
LEMMA NextPieceKeeps ==
  ASSUME OutputInv, NextPiece
  PROVE  OutputInv'
<1> USE OutputConstants
<1>1. PICK n \in Nat :
        /\ n > 0 /\ n <= OutputFrames /\ n <= delay_ring_buf - Kept
        /\ delay_ring_buf' = delay_ring_buf - n
        /\ piece' = n /\ count' = n
        /\ ease' = aml_audio_ease_process(n)
  <2> DEFINE avail == delay_ring_buf - Kept
             n == IF avail < OutputFrames THEN avail ELSE OutputFrames
  <2>1. /\ avail \in Int /\ avail > 0
        /\ delay_ring_buf' = delay_ring_buf - n
        /\ piece' = n /\ count' = n
        /\ ease' = aml_audio_ease_process(n)
    BY DEF OutputInv, OutputTypeInv, NextPiece, Kept
  <2>2. n \in Nat /\ n > 0 /\ n <= OutputFrames /\ n <= avail
    BY <2>1
  <2> HIDE DEF n
  <2>3. QED
    BY <2>1, <2>2
<1>2. output \in {"write", "fade"} /\ output' = output /\ accepted' = accepted
      /\ buffer' = buffer /\ silence_frame' = silence_frame
  BY DEF NextPiece
<1>3. OutputTypeInv'
  BY <1>1, <1>2 DEF OutputInv, OutputTypeInv, OutputStates, Kept
<1>4. CASE output = "write"
  <2>1. Kept = DelayFrames
    BY <1>4 DEF Kept
  <2>2. n <= buffer /\ delay_ring_buf' >= DelayFrames /\ accepted >= DelayFrames
        /\ delay_ring_buf' <= DelayFrames + buffer
    BY <1>1, <1>4, <2>1 DEF OutputInv, OutputTypeInv, RingInv, KeptInv
  <2>3. RingInv' /\ PieceInv' /\ KeptInv' /\ FadeInv'
    BY <1>1, <1>2, <1>3, <1>4, <2>2
       DEF OutputTypeInv, RingInv, PieceInv, KeptInv, FadeInv
  <2>4. QED
    BY <1>3, <2>3 DEF OutputInv
<1>5. CASE output = "fade"
  <2>1. Kept = 0
    BY <1>5 DEF Kept
  <2>2. /\ FadingOut /\ ease.elapsed + delay_ring_buf <= DelayFrames
        /\ accepted >= DelayFrames => ease.elapsed + delay_ring_buf = DelayFrames
        /\ buffer = OutputFrames /\ delay_ring_buf <= DelayFrames
    BY <1>5 DEF OutputInv, RingInv, FadeInv
  <2>3. ease' = [FadeOut EXCEPT !.elapsed = ease.elapsed + n]
    BY <1>1, <2>1, <2>2 DEF FadingOut, FadeOut, Ease, aml_audio_ease_process,
                            OutputInv, OutputTypeInv
  <2>4. ease'.elapsed = ease.elapsed + n
    BY <2>3 DEF FadeOut, Ease
  <2>5. FadingOut'
    BY <1>1, <2>2, <2>3, <2>4 DEF FadingOut, FadeOut, Ease
  <2>6. RingInv' /\ PieceInv' /\ KeptInv'
    BY <1>1, <1>2, <1>3, <1>5, <2>2 DEF OutputInv, OutputTypeInv, RingInv, PieceInv, KeptInv
  <2>7. FadeInv'
    BY <1>1, <1>2, <1>5, <2>2, <2>4, <2>5 DEF FadeInv, OutputInv, OutputTypeInv, FadingOut
  <2>8. QED
    BY <1>3, <2>6, <2>7 DEF OutputInv
<1>6. QED
  BY <1>2, <1>4, <1>5

\* The other steps
LEMMA OutputSteps ==
  ASSUME OutputInv, AlsaNext \/ UNCHANGED outvars
  PROVE  OutputInv'
<1> USE OutputConstants
<1>1. CASE aml_output_open
  BY <1>1 DEF aml_output_open, OutputInv, OutputTypeInv, OutputStates, RingInv,
              PieceInv, KeptInv, FadeInv
<1>2. CASE NextPiece
  BY <1>2, NextPieceKeeps
<1>3. CASE GiveUp
  BY <1>3 DEF GiveUp, OutputInv, OutputTypeInv, RingInv, PieceInv, KeptInv, FadeInv,
              FadingOut
<1>4. CASE WriteReturns
  BY <1>4 DEF WriteReturns, OutputInv, OutputTypeInv, OutputStates, RingInv,
              PieceInv, KeptInv, FadeInv
<1>5. CASE Faded
  BY <1>5 DEF Faded, OutputInv, OutputTypeInv, OutputStates, RingInv,
              PieceInv, KeptInv, FadeInv, FadingOut
<1>6. CASE WriteSilence
  BY <1>6 DEF WriteSilence, OutputInv, OutputTypeInv, RingInv,
              PieceInv, KeptInv, FadeInv, FadingOut
<1>7. CASE standard_alsa_output_close
  BY <1>7 DEF standard_alsa_output_close, OutputInv, OutputTypeInv, OutputStates,
              RingInv, PieceInv, KeptInv, FadeInv
<1>8. ASSUME NEW n \in 1..MaxWritten, aml_output_write_pcm(n) PROVE OutputInv'
  <2>1. CASE Fits(n)
    BY <1>8, <2>1 DEF aml_output_write_pcm, OutputInv, OutputTypeInv, OutputStates,
                      RingInv, PieceInv, KeptInv, FadeInv
  <2>2. CASE ~Fits(n)
    BY <1>8, <2>2 DEF aml_output_write_pcm, OutputInv, OutputTypeInv, OutputStates,
                      RingInv, PieceInv, KeptInv, FadeInv
  <2>3. QED
    BY <2>1, <2>2
<1>9. ASSUME NEW k \in 1..OutputFrames, standard_alsa_output_write(k) PROVE OutputInv'
  BY <1>9 DEF standard_alsa_output_write, OutputInv, OutputTypeInv, OutputStates,
              RingInv, PieceInv, KeptInv, FadeInv, FadingOut
<1>10. ASSUME NEW running \in BOOLEAN, aml_output_close(running) PROVE OutputInv'
  <2>1. /\ output = "idle" /\ output' \in {"fade", "silence"} /\ buffer' = OutputFrames
        /\ UNCHANGED <<accepted, delay_ring_buf, piece, count>>
        /\ silence_frame' \in Int
        /\ output' = "fade" => ease' = FadeOut
        /\ output' = "silence" => silence_frame' = 0
    BY <1>10 DEF aml_output_close
  <2>2. OutputTypeInv' /\ RingInv' /\ PieceInv' /\ KeptInv'
    BY <2>1 DEF OutputInv, OutputTypeInv, OutputStates, RingInv, PieceInv, KeptInv
  <2>3. FadeInv'
    BY <2>1 DEF OutputInv, OutputTypeInv, RingInv, KeptInv, FadeInv, FadingOut, FadeOut, Ease
  <2>4. QED
    BY <2>2, <2>3 DEF OutputInv
<1>11. CASE UNCHANGED outvars
  BY <1>11 DEF outvars, OutputInv, OutputTypeInv, RingInv, PieceInv, KeptInv, FadeInv,
               FadingOut
<1>12. QED
  BY <1>1, <1>2, <1>3, <1>4, <1>5, <1>6, <1>7, <1>8, <1>9, <1>10, <1>11 DEF AlsaNext

LEMMA OutputInvariant == AlsaSpec => []OutputInv
<1>1. AlsaInit => OutputInv
  BY OutputInitial
<1>2. OutputInv /\ [AlsaNext]_outvars => OutputInv'
  BY OutputSteps
<1>3. QED
  BY <1>1, <1>2, PTL DEF AlsaSpec

\* No write of the PCM output reads more of the ring than its caller's buffer holds:
\* aml_output_write_pcm leaves no more than the delay behind, whatever is dropped,
\* refused by the device or given up.
THEOREM PiecesCorrect == AlsaSpec => []PiecesFitBuffer
<1>1. OutputInv => PiecesFitBuffer
  BY DEF OutputInv, PieceInv, PiecesFitBuffer
<1>2. QED
  BY <1>1, OutputInvariant, PTL

(***************************************************************************)
(* The volume of the fade out is a quotient, and an exact one.             *)
(***************************************************************************)

\* A multiple of b, divided by b
LEMMA ExactQuotient ==
  ASSUME NEW a \in Int, NEW b \in Int, b > 0
  PROVE  (a * b) \div b = a
<1> DEFINE q == (a * b) \div b
           r == (a * b) % b
<1>1. q \in Int /\ r \in Int /\ a * b = b * q + r /\ 0 <= r /\ r < b
  OBVIOUS
<1> HIDE DEF q, r
<1>2. (a - q) * b = r
  BY <1>1
<1>3. CASE a - q > 0
  <2>1. (a - q) * b >= b
    BY <1>1, <1>3
  <2>2. QED
    BY <1>1, <1>2, <2>1
<1>4. CASE a - q < 0
  <2>1. (a - q) * b <= -b
    BY <1>1, <1>4
  <2>2. QED
    BY <1>1, <1>2, <2>1
<1>5. CASE a - q = 0
  BY <1>1, <1>5 DEF q
<1>6. QED
  BY <1>1, <1>3, <1>4, <1>5

\* The k-th frame of the fade out has k steps of the ramp taken off the full volume.
LEMMA FadedVolume ==
  ASSUME FadingOut, NEW k \in Nat, k < DelayFrames
  PROVE  EasedVolume(k) = (EaseIn - 1) * (DelayFrames - 1 - k)
<1> USE OutputConstants
<1> DEFINE a == (0 - (EaseIn - 1)) * k
           b == DelayFrames - 1
<1>1. ease.start = FullVolume /\ ease.target = 0 /\ ease.frames = DelayFrames
  BY DEF FadingOut, FadeOut, Ease
<1>2. FullVolume = b * (EaseIn - 1)
  BY DEF FullVolume
<1>3. EasedVolume(k) = FullVolume + ((0 - FullVolume) * k) \div b
  BY <1>1 DEF EasedVolume
<1>4. (0 - FullVolume) * k = a * b
  BY <1>2
<1>5. a \in Int /\ b \in Int /\ b > 0
  OBVIOUS
<1> HIDE DEF a, b
<1>6. (a * b) \div b = a
  BY <1>5, ExactQuotient
<1>7. EasedVolume(k) = b * (EaseIn - 1) + a
  BY <1>2, <1>3, <1>4, <1>6
<1>8. QED
  BY <1>7 DEF a, b

\* How loud the ramp left the last frame it eased
LEMMA FadeVolume ==
  ASSUME FadingOut, ease.elapsed <= DelayFrames
  PROVE  CurrentVolume = (IF ease.elapsed = 0 THEN FullVolume
                          ELSE (EaseIn - 1) * (DelayFrames - ease.elapsed))
<1> USE OutputConstants
<1>1. ease.start = FullVolume /\ ease.elapsed \in Nat
  BY DEF FadingOut, FadeOut, Ease
<1>2. CASE ease.elapsed = 0
  BY <1>1, <1>2 DEF CurrentVolume
<1>3. CASE ease.elapsed # 0
  <2> DEFINE k == ease.elapsed - 1
  <2>1. k \in Nat /\ k < DelayFrames /\ DelayFrames - 1 - k = DelayFrames - ease.elapsed
    BY <1>1, <1>3
  <2>2. CurrentVolume = EasedVolume(k)
    BY <1>3 DEF CurrentVolume
  <2> HIDE DEF k
  <2>3. EasedVolume(k) = (EaseIn - 1) * (DelayFrames - 1 - k)
    BY <2>1, FadedVolume
  <2>4. QED
    BY <1>3, <2>1, <2>2, <2>3
<1>4. QED
  BY <1>2, <1>3

\* A closed output that had its delay's worth of frames falls silent with the last
\* of them: the ramp of aml_output_close and the ring of the writes before it are
\* of the same length, and neither loses a frame to a device that refuses some.
THEOREM FadeCorrect == AlsaSpec => []FadeReachesSilence
<1> USE OutputConstants
<1>1. ASSUME OutputInv, output = "silence", silence_frame > 0, accepted >= DelayFrames
      PROVE  CurrentVolume = 0
  <2>1. FadingOut /\ ease.elapsed = DelayFrames
    BY <1>1 DEF OutputInv, FadeInv
  <2>2. CurrentVolume = (EaseIn - 1) * (DelayFrames - DelayFrames)
    BY <2>1, FadeVolume
  <2>3. QED
    BY <2>2
<1>2. ASSUME OutputInv, output = "fade", delay_ring_buf > 0
      PROVE  CurrentVolume > 0
  <2>1. FadingOut /\ ease.elapsed \in Nat /\ ease.elapsed < DelayFrames
    BY <1>2 DEF OutputInv, OutputTypeInv, FadeInv, FadingOut
  <2>2. CASE ease.elapsed = 0
    <3>1. CurrentVolume = FullVolume
      BY <2>1, <2>2, FadeVolume
    <3>2. QED
      BY <3>1 DEF FullVolume
  <2>3. CASE ease.elapsed # 0
    <3>1. CurrentVolume = (EaseIn - 1) * (DelayFrames - ease.elapsed)
      BY <2>1, <2>3, FadeVolume
    <3>2. QED
      BY <2>1, <3>1
  <2>4. QED
    BY <2>2, <2>3
<1>3. OutputInv => FadeReachesSilence
  BY <1>1, <1>2 DEF FadeReachesSilence
<1>4. QED
  BY <1>3, OutputInvariant, PTL

(***************************************************************************)
(* The parser.  ParserInv is inductive: while it is not synchronised, what *)
(* it counted went by since the last burst; while it is, it counts just    *)
(* what went by, and lets go after two packages.  The thread's count is    *)
(* behind as well, since the hardware may start it again.                  *)
(***************************************************************************)

ParserStates == {"none", "unsync", "syncing", "synced"}
HandleTypes == RawTypes \cup {"mute", "lpcm"}
ThreadTypes == RawTypes \cup {"mute", "lpcm", "pause"}

ParserTypeInv ==
  /\ preset \in {"none", "pcm", "bitstream"}
  /\ handle \in [state : ParserStates, audio_type : HandleTypes,
                 parsed_size : Nat, package_size : Nat]
  /\ thread \in [audio_type : ThreadTypes, read_bytes : Nat, package_size : Nat]
  /\ quiet \in Nat /\ quiet <= SizeCap

\* Two packages can be told from the bound of the history
PackageInv == 2 * handle.package_size < SizeCap /\ 2 * thread.package_size < SizeCap

\* n bytes went by without a burst, as far as the history tells
QuietFor(n) == n <= quiet \/ quiet = SizeCap

Synchronised == handle.state \in {"syncing", "synced"}

UnsyncInv ==
  ~Synchronised =>
    /\ handle.audio_type \in {"mute", "lpcm"}
    /\ handle.audio_type = "mute" => QuietFor(handle.parsed_size)
    /\ handle.audio_type = "lpcm" => quiet > IecCheckSize /\ preset # "bitstream"
    /\ last \in RawTypes => quiet > 2 * handle.package_size
    /\ handle.state = "none" =>
         last = "none" /\ handle.audio_type = "mute" /\ handle.parsed_size = 0

SyncInv ==
  Synchronised =>
    /\ handle.audio_type \in RawTypes /\ last = handle.audio_type
    /\ handle.parsed_size = quiet /\ quiet <= 2 * handle.package_size

ThreadInv ==
  last \in RawTypes =>
    /\ thread.audio_type \in RawTypes \cup {"lpcm"}
    /\ thread.audio_type \in RawTypes => QuietFor(thread.read_bytes)
    /\ thread.audio_type = "lpcm" => quiet > 2 * thread.package_size

ParserInv == ParserTypeInv /\ PackageInv /\ UnsyncInv /\ SyncInv /\ ThreadInv

\* What the steps need of the constants
LEMMA ParserConstants ==
  /\ BlockSizes \subseteq Nat \ {0} /\ IecCheckSize \in Nat /\ SizeCap \in Nat
  /\ IecCheckSize < SizeCap
  /\ TypePresets \subseteq {"none", "pcm", "bitstream"}
BY ParserAssumption DEF ParserAssumption

\* A block with a burst is never samples, and one without is always.
LEMMA BurstTypes ==
  ASSUME NEW b \in Blocks
  PROVE  /\ HasBurst(b) => AudioType(b) \in RawTypes \cup {"pause", "mute"}
         /\ ~HasBurst(b) => AudioType(b) = "lpcm"
<1>1. b.data \in {"zero", "pcm"} \cup DataTypes \cup {"undefined"}
  BY DEF Blocks
<1>2. DataTypes \subseteq RawTypes \cup {"null", "pause"}
  BY ParserAssumption DEF ParserAssumption, Silences
<1>3. ASSUME ~HasBurst(b) PROVE AudioType(b) = "lpcm"
  <2>1. b.data \in {"zero", "pcm"} /\ ~b.mat
    BY <1>2, <1>3 DEF HasBurst, Blocks, RawTypes
  <2>2. QED
    BY <1>3, <2>1 DEF AudioType
<1>4. CASE HasBurst(b)
  <2>1. b.data \in RawTypes \cup {"null", "pause", "undefined"}
    BY <1>1, <1>2, <1>4 DEF HasBurst
  <2>2. QED
    BY <1>4, <2>1 DEF AudioType, RawTypes
<1>5. QED
  BY <1>3, <1>4

\* The size of a package stays below the bound, and only a burst changes it.
LEMMA PackageSizes ==
  ASSUME NEW b \in Blocks, NEW p \in Nat, 2 * p < SizeCap
  PROVE  /\ PackageSize(b, p) \in Nat /\ 2 * PackageSize(b, p) < SizeCap
         /\ ~HasBurst(b) => PackageSize(b, p) = p
<1>1. DataTypes \subseteq RawTypes \cup {"null", "pause"}
      /\ \A t \in DataTypes : Package[t] \in Nat /\ 2 * Package[t] < SizeCap
  BY ParserAssumption DEF ParserAssumption, Silences
<1>2. b.data \in DataTypes => HasBurst(b)
  BY <1>1 DEF HasBurst, RawTypes
<1>3. QED
  BY <1>1, <1>2 DEF PackageSize

LEMMA ParserInitial ==
  ASSUME ParserInit PROVE ParserInv
<1> USE ParserConstants
<1>1. ParserTypeInv /\ PackageInv
  BY DEF ParserInit, ParserTypeInv, PackageInv, ParserStates, HandleTypes, ThreadTypes
<1>2. UnsyncInv /\ SyncInv /\ ThreadInv
  BY DEF ParserInit, UnsyncInv, SyncInv, ThreadInv, Synchronised, QuietFor, RawTypes
<1>3. QED
  BY <1>1, <1>2 DEF ParserInv

LEMMA CreateKeeps ==
  ASSUME ParserInv, ParserCreate
  PROVE  ParserInv'
<1> USE ParserConstants
<1>1. handle' = [handle EXCEPT !.state = "unsync"] /\ preset' \in TypePresets
      /\ thread' = thread /\ last' = last /\ quiet' = quiet /\ handle.state = "none"
  BY DEF ParserCreate
<1>2. ParserTypeInv
  BY DEF ParserInv
<1>3. /\ handle'.state = "unsync" /\ handle'.audio_type = handle.audio_type
      /\ handle'.parsed_size = handle.parsed_size
      /\ handle'.package_size = handle.package_size
      /\ ParserTypeInv'
  BY <1>1, <1>2 DEF ParserTypeInv, ParserStates
<1>4. /\ last = "none" /\ handle.audio_type = "mute" /\ handle.parsed_size = 0
  BY <1>1 DEF ParserInv, UnsyncInv, Synchronised
<1>5. PackageInv'
  BY <1>1, <1>3 DEF ParserInv, PackageInv
<1>6. UnsyncInv' /\ SyncInv' /\ ThreadInv'
  BY <1>1, <1>2, <1>3, <1>4
     DEF UnsyncInv, SyncInv, ThreadInv, Synchronised, QuietFor, RawTypes, ParserTypeInv
<1>7. QED
  BY <1>3, <1>5, <1>6 DEF ParserInv

\* The history of a block
LEMMA HistoryStep ==
  ASSUME ParserInv, NEW b \in Blocks, NEW n \in BlockSizes, ParserFeed(b, n)
  PROVE  /\ n \in Nat /\ n > 0
         /\ HasBurst(b) => quiet' = 0 /\ last' = AudioType(b)
         /\ ~HasBurst(b) => /\ last' = last
                            /\ quiet' = IF quiet + n > SizeCap THEN SizeCap ELSE quiet + n
         /\ quiet' \in Nat /\ quiet' <= SizeCap /\ preset' = preset
<1>1. n \in Nat /\ n > 0 /\ SizeCap \in Nat
  BY ParserConstants
<1>2. QED
  BY <1>1 DEF ParserInv, ParserTypeInv, ParserFeed

\* What feeding a block without a burst comes to
LEMMA FedSamples ==
  ASSUME NEW g, NEW n
  PROVE  Fed(g, "lpcm", n) = IF g.state = "unsync" THEN CountUnsync(g, n)
                             ELSE CountSync(g, n)
<1> DEFINE u == CountUnsync(g, n)
           s == CountSync(g, n)
           U == Unsync(g)
           F1 == Found(g, "syncing", "lpcm")
           F2 == Found(g, "synced", "lpcm")
<1>1. Fed(g, "lpcm", n) =
        CASE "lpcm" = "lpcm" /\ g.state = "unsync" -> u
          [] "lpcm" = "lpcm" /\ g.state # "unsync" -> s
          [] "lpcm" \in {"pause", "mute"} -> U
          [] "lpcm" \in RawTypes /\ g.state = "unsync" -> F1
          [] OTHER -> F2
  BY DEF Fed
<1> HIDE DEF u, s, U, F1, F2
<1>2. Fed(g, "lpcm", n) = IF g.state = "unsync" THEN u ELSE s
  BY <1>1 DEF RawTypes
<1>3. QED
  BY <1>2 DEF u, s

\* The parser that is fed, without a burst
LEMMA HandleQuiet ==
  ASSUME ParserInv, NEW b \in Blocks, NEW n \in BlockSizes, ParserFeed(b, n), ~HasBurst(b)
  PROVE  /\ handle' \in [state : ParserStates, audio_type : HandleTypes,
                         parsed_size : Nat, package_size : Nat]
         /\ handle'.package_size = handle.package_size
         /\ UnsyncInv' /\ SyncInv'
<1> USE ParserConstants
<1>1. /\ n \in Nat /\ n > 0 /\ last' = last /\ preset' = preset
      /\ quiet' = IF quiet + n > SizeCap THEN SizeCap ELSE quiet + n
  BY HistoryStep
<1>2. /\ handle \in [state : ParserStates, audio_type : HandleTypes,
                     parsed_size : Nat, package_size : Nat]
      /\ quiet \in Nat /\ quiet <= SizeCap /\ 2 * handle.package_size < SizeCap
      /\ UnsyncInv /\ SyncInv
  BY DEF ParserInv, ParserTypeInv, PackageInv
<1>3. handle.state # "none"
  BY DEF ParserFeed
<1>4. CASE Ignored(b)
  <2>1. handle' = handle /\ handle.audio_type = "mute" /\ handle.parsed_size = 0
    BY <1>4 DEF ParserFeed, feeddata_audio_type_parse, Ignored
  <2>2. ~Synchronised
    BY <1>2, <2>1 DEF SyncInv, RawTypes
  <2>3. UnsyncInv' /\ SyncInv'
    BY <1>1, <1>2, <1>3, <2>1, <2>2 DEF UnsyncInv, SyncInv, Synchronised, QuietFor
  <2>4. QED
    BY <1>2, <2>1, <2>3
<1>5. CASE ~Ignored(b)
  <2> DEFINE h == [handle EXCEPT !.package_size = PackageSize(b, @)]
  <2>1. h = handle
    BY <1>2, PackageSizes
  <2>2. AudioType(b) = "lpcm"
    BY BurstTypes
  <2>3. handle' = Preset(Fed(handle, "lpcm", n))
    BY <1>5, <2>1, <2>2 DEF ParserFeed, feeddata_audio_type_parse
  <2>4. CASE Synchronised
    <3>1. handle.state # "unsync" /\ handle.audio_type \in RawTypes
          /\ handle.parsed_size = quiet
      BY <1>2, <2>4 DEF Synchronised, SyncInv
    <3>2. Fed(handle, "lpcm", n) = CountSync(handle, n)
      BY <3>1 DEF Fed
    <3>3. CASE handle.parsed_size + n > handle.package_size * 2
      <4>1. CountSync(handle, n) = Unsync(handle)
        BY <3>3 DEF CountSync
      <4>2. handle' = Unsync(handle)
        BY <1>2, <2>3, <3>2, <4>1 DEF Preset, Unsync
      <4>3. /\ handle'.state = "unsync" /\ handle'.audio_type = "mute"
            /\ handle'.parsed_size = 0 /\ handle'.package_size = handle.package_size
            /\ handle' \in [state : ParserStates, audio_type : HandleTypes,
                            parsed_size : Nat, package_size : Nat]
        BY <1>2, <4>2 DEF Unsync, ParserStates, HandleTypes
      <4>4. quiet' > 2 * handle'.package_size /\ quiet' \in Nat
        BY <1>1, <1>2, <3>1, <3>3, <4>3
      <4>5. UnsyncInv' /\ SyncInv'
        BY <4>3, <4>4 DEF UnsyncInv, SyncInv, Synchronised, QuietFor
      <4>6. QED
        BY <4>3, <4>5
    <3>4. CASE ~(handle.parsed_size + n > handle.package_size * 2)
      <4>1. CountSync(handle, n) = [handle EXCEPT !.parsed_size = @ + n]
        BY <3>4 DEF CountSync
      <4>2. handle' = [handle EXCEPT !.parsed_size = @ + n]
        BY <1>2, <2>3, <3>1, <3>2, <4>1 DEF Preset, RawTypes
      <4>3. /\ handle'.state = handle.state /\ handle'.audio_type = handle.audio_type
            /\ handle'.parsed_size = handle.parsed_size + n
            /\ handle'.package_size = handle.package_size
            /\ handle' \in [state : ParserStates, audio_type : HandleTypes,
                            parsed_size : Nat, package_size : Nat]
        BY <1>1, <1>2, <4>2
      <4>4. quiet' = quiet + n
        BY <1>1, <1>2, <3>1, <3>4
      <4>5. UnsyncInv' /\ SyncInv'
        BY <1>1, <1>2, <2>4, <3>1, <3>4, <4>3, <4>4 DEF UnsyncInv, SyncInv, Synchronised
      <4>6. QED
        BY <4>3, <4>5
    <3>5. QED
      BY <3>3, <3>4
  <2>5. CASE ~Synchronised
    <3>1. handle.state = "unsync" /\ handle.audio_type \in {"mute", "lpcm"}
      BY <1>2, <1>3, <2>5 DEF Synchronised, UnsyncInv, ParserStates
    <3>2. Fed(handle, "lpcm", n) = CountUnsync(handle, n)
      BY <3>1, FedSamples
    <3>3. last \in RawTypes => quiet' > 2 * handle.package_size
      BY <1>1, <1>2, <2>5 DEF UnsyncInv
    <3>4. CASE handle.audio_type = "lpcm"
      <4>1. /\ quiet > IecCheckSize /\ preset # "bitstream"
        BY <1>2, <2>5, <3>4 DEF UnsyncInv
      <4>2. handle' = [handle EXCEPT !.parsed_size = 0, !.audio_type = "lpcm"]
        BY <2>3, <3>2, <3>4, <4>1 DEF CountUnsync, Preset
      <4>3. /\ handle'.state = "unsync" /\ handle'.audio_type = "lpcm"
            /\ handle'.package_size = handle.package_size
            /\ handle' \in [state : ParserStates, audio_type : HandleTypes,
                            parsed_size : Nat, package_size : Nat]
        BY <1>2, <3>1, <4>2 DEF HandleTypes
      <4>4. quiet' > IecCheckSize
        BY <1>1, <1>2, <4>1
      <4>5. UnsyncInv' /\ SyncInv'
        BY <1>1, <3>3, <4>1, <4>3, <4>4 DEF UnsyncInv, SyncInv, Synchronised
      <4>6. QED
        BY <4>3, <4>5
    <3>5. CASE handle.audio_type = "mute" /\ handle.parsed_size + n <= IecCheckSize
      <4>1. QuietFor(handle.parsed_size)
        BY <1>2, <2>5, <3>5 DEF UnsyncInv
      <4>2. handle' = [handle EXCEPT !.parsed_size = @ + n, !.audio_type = "mute"]
        BY <1>2, <2>3, <3>2, <3>5 DEF CountUnsync, Preset
      <4>3. /\ handle'.state = "unsync" /\ handle'.audio_type = "mute"
            /\ handle'.parsed_size = handle.parsed_size + n
            /\ handle'.package_size = handle.package_size
            /\ handle' \in [state : ParserStates, audio_type : HandleTypes,
                            parsed_size : Nat, package_size : Nat]
        <5>1. handle.parsed_size + n \in Nat /\ handle.package_size \in Nat
          BY <1>1, <1>2
        <5>2. QED
          BY <1>2, <3>1, <4>2, <5>1 DEF HandleTypes
      <4>4. QuietFor(handle.parsed_size)'
        BY <1>1, <1>2, <4>1, <4>3 DEF QuietFor
      <4>5. UnsyncInv' /\ SyncInv'
        BY <1>1, <3>3, <4>1, <4>3, <4>4 DEF UnsyncInv, SyncInv, Synchronised
      <4>6. QED
        BY <4>3, <4>5
    <3>6. CASE handle.audio_type = "mute" /\ handle.parsed_size + n > IecCheckSize
      <4>1. QuietFor(handle.parsed_size)
        BY <1>2, <2>5, <3>6 DEF UnsyncInv
      <4>2. quiet' > IecCheckSize
        BY <1>1, <1>2, <3>6, <4>1 DEF QuietFor
      <4> DEFINE f == [handle EXCEPT !.parsed_size = @ + n, !.audio_type = "lpcm"]
      <4>3. handle' = Preset(f)
        <5>1. ~(handle.parsed_size + n <= IecCheckSize)
          BY <1>1, <1>2, <3>6
        <5>2. CountUnsync(handle, n) = f
          BY <3>6, <5>1 DEF CountUnsync
        <5>3. QED
          BY <2>3, <3>2, <5>2
      <4>4. /\ f.state = "unsync" /\ f.audio_type = "lpcm"
            /\ f.package_size = handle.package_size
            /\ f \in [state : ParserStates, audio_type : HandleTypes,
                      parsed_size : Nat, package_size : Nat]
        <5>1. handle.parsed_size + n \in Nat
          BY <1>1, <1>2
        <5>2. QED
          BY <1>2, <3>1, <5>1 DEF HandleTypes
      <4> HIDE DEF f
      <4>5. CASE preset = "bitstream"
        <5>1. handle' = [f EXCEPT !.parsed_size = 0, !.audio_type = "mute"]
          BY <4>3, <4>4, <4>5 DEF Preset
        <5>2. /\ handle'.state = "unsync" /\ handle'.audio_type = "mute"
              /\ handle'.parsed_size = 0 /\ handle'.package_size = handle.package_size
              /\ handle' \in [state : ParserStates, audio_type : HandleTypes,
                              parsed_size : Nat, package_size : Nat]
          BY <4>4, <5>1 DEF HandleTypes
        <5>3. UnsyncInv' /\ SyncInv'
          BY <1>1, <1>2, <3>3, <5>2, <4>2 DEF UnsyncInv, SyncInv, Synchronised, QuietFor
        <5>4. QED
          BY <5>2, <5>3
      <4>6. CASE preset # "bitstream"
        <5>1. handle' = f
          BY <4>3, <4>6 DEF Preset
        <5>2. UnsyncInv' /\ SyncInv'
          BY <1>1, <3>3, <4>2, <4>4, <4>6, <5>1 DEF UnsyncInv, SyncInv, Synchronised
        <5>3. QED
          BY <4>4, <5>1, <5>2
      <4>7. QED
        BY <4>5, <4>6
    <3>7. QED
      BY <1>1, <1>2, <3>1, <3>4, <3>5, <3>6
  <2>6. QED
    BY <2>4, <2>5
<1>6. QED
  BY <1>4, <1>5

\* The parser that is fed, with a burst
LEMMA HandleBurst ==
  ASSUME ParserInv, NEW b \in Blocks, NEW n \in BlockSizes, ParserFeed(b, n), HasBurst(b)
  PROVE  /\ handle' \in [state : ParserStates, audio_type : HandleTypes,
                         parsed_size : Nat, package_size : Nat]
         /\ 2 * handle'.package_size < SizeCap
         /\ UnsyncInv' /\ SyncInv'
<1> USE ParserConstants
<1> DEFINE p == PackageSize(b, handle.package_size)
           h == [handle EXCEPT !.package_size = p]
           type == AudioType(b)
<1>1. quiet' = 0 /\ last' = type
  BY HistoryStep
<1>2. handle \in [state : ParserStates, audio_type : HandleTypes,
                  parsed_size : Nat, package_size : Nat]
      /\ 2 * handle.package_size < SizeCap
  BY DEF ParserInv, ParserTypeInv, PackageInv
<1>3. p \in Nat /\ 2 * p < SizeCap
  BY <1>2, PackageSizes
<1>4. type \in RawTypes \cup {"pause", "mute"}
  BY BurstTypes
<1>5. handle' = Preset(Fed(h, type, n))
  <2>1. ~Ignored(b)
    BY DEF Ignored, HasBurst
  <2>2. QED
    BY <1>2, <2>1 DEF ParserFeed, feeddata_audio_type_parse
<1> HIDE DEF p, type
<1>6. /\ h.state = handle.state /\ h.package_size = p
      /\ h \in [state : ParserStates, audio_type : HandleTypes,
                parsed_size : Nat, package_size : Nat]
  BY <1>2, <1>3
<1> HIDE DEF h
<1>7. CASE type \in {"pause", "mute"}
  <2>1. Fed(h, type, n) = Unsync(h)
    BY <1>7 DEF Fed, RawTypes
  <2>2. handle' = Unsync(h)
    BY <1>5, <1>6, <2>1 DEF Preset, Unsync
  <2>3. /\ handle'.state = "unsync" /\ handle'.audio_type = "mute"
        /\ handle'.parsed_size = 0 /\ handle'.package_size = p
        /\ handle' \in [state : ParserStates, audio_type : HandleTypes,
                        parsed_size : Nat, package_size : Nat]
    BY <1>6, <2>2 DEF Unsync, ParserStates, HandleTypes
  <2>4. UnsyncInv' /\ SyncInv'
    BY <1>1, <1>7, <2>3 DEF UnsyncInv, SyncInv, Synchronised, QuietFor, RawTypes
  <2>5. QED
    BY <1>3, <2>3, <2>4
<1>8. CASE type \in RawTypes
  <2>1. PICK state \in {"syncing", "synced"} : Fed(h, type, n) = Found(h, state, type)
    <3>1. type \notin {"lpcm", "pause", "mute"}
      BY <1>8 DEF RawTypes
    <3>2. CASE h.state = "unsync"
      BY <1>8, <3>1, <3>2 DEF Fed
    <3>3. CASE h.state # "unsync"
      BY <1>8, <3>1, <3>3 DEF Fed
    <3>4. QED
      BY <3>2, <3>3
  <2>2. handle' = Found(h, state, type)
    BY <1>5, <1>6, <1>8, <2>1 DEF Preset, Found, RawTypes
  <2>3. /\ handle'.state = state /\ handle'.audio_type = type
        /\ handle'.parsed_size = 0 /\ handle'.package_size = p
        /\ handle' \in [state : ParserStates, audio_type : HandleTypes,
                        parsed_size : Nat, package_size : Nat]
    BY <1>6, <1>8, <2>2 DEF Found, ParserStates, HandleTypes
  <2>4. UnsyncInv' /\ SyncInv'
    BY <1>1, <1>3, <1>8, <2>1, <2>3 DEF UnsyncInv, SyncInv, Synchronised
  <2>5. QED
    BY <1>3, <2>3, <2>4
<1>9. QED
  BY <1>4, <1>7, <1>8

\* The parser thread
LEMMA ThreadStep ==
  ASSUME ParserInv, NEW b \in Blocks, NEW n \in BlockSizes, ParserFeed(b, n)
  PROVE  /\ thread' \in [audio_type : ThreadTypes, read_bytes : Nat, package_size : Nat]
         /\ 2 * thread'.package_size < SizeCap
         /\ ThreadInv'
<1> USE ParserConstants
<1> DEFINE p == PackageSize(b, thread.package_size)
           t == [thread EXCEPT !.package_size = p]
<1>1. /\ n \in Nat /\ n > 0
      /\ HasBurst(b) => quiet' = 0 /\ last' = AudioType(b)
      /\ ~HasBurst(b) => /\ last' = last
                         /\ quiet' = IF quiet + n > SizeCap THEN SizeCap ELSE quiet + n
  BY HistoryStep
<1>2. /\ thread \in [audio_type : ThreadTypes, read_bytes : Nat, package_size : Nat]
      /\ 2 * thread.package_size < SizeCap /\ quiet \in Nat /\ quiet <= SizeCap
      /\ ThreadInv
  BY DEF ParserInv, ParserTypeInv, PackageInv
<1>3. /\ p \in Nat /\ 2 * p < SizeCap
      /\ ~HasBurst(b) => p = thread.package_size
  BY <1>2, PackageSizes
<1>4. PICK cur \in Detected(b) : thread' = update_audio_type(t, cur, n)
  BY DEF ParserFeed, ThreadReads
<1>5. /\ HasBurst(b) => cur = AudioType(b) /\ cur \in RawTypes \cup {"pause", "mute"}
      /\ ~HasBurst(b) => cur \in {"lpcm", "ac3"}
  BY BurstTypes DEF Detected, RawTypes
<1>6. cur \in ThreadTypes
  BY <1>5 DEF ThreadTypes, RawTypes
<1> HIDE DEF p
<1>7. /\ t.audio_type = thread.audio_type /\ t.read_bytes = thread.read_bytes
      /\ t.package_size = p
      /\ t \in [audio_type : ThreadTypes, read_bytes : Nat, package_size : Nat]
  BY <1>2, <1>3
<1> HIDE DEF t
\* The type is what was detected, and the count begins again
<1>8. CASE thread' = [t EXCEPT !.audio_type = cur, !.read_bytes = 0]
  <2>1. /\ thread'.audio_type = cur /\ thread'.read_bytes = 0 /\ thread'.package_size = p
        /\ thread' \in [audio_type : ThreadTypes, read_bytes : Nat, package_size : Nat]
    BY <1>6, <1>7, <1>8
  <2>2. CASE cur # "lpcm"
    <3>1. last' \in RawTypes => cur \in RawTypes
      BY <1>1, <1>5, <2>2 DEF RawTypes
    <3>2. QED
      BY <1>1, <1>2, <1>3, <2>1, <2>2, <3>1 DEF ThreadInv, QuietFor
  <2>3. CASE cur = "lpcm" /\ t.audio_type = "lpcm"
    <3>1. ~HasBurst(b)
      BY <1>5, <2>3 DEF RawTypes
    <3>2. last \in RawTypes => quiet' > 2 * p
      BY <1>1, <1>2, <1>3, <1>7, <2>3, <3>1 DEF ThreadInv
    <3>3. QED
      BY <1>1, <1>3, <2>1, <2>3, <3>1, <3>2 DEF ThreadInv, RawTypes
  <2>4. CASE cur = "lpcm" /\ t.audio_type # "lpcm"
    BY <1>4, <1>7, <1>8, <2>1, <2>4 DEF update_audio_type
  <2>5. QED
    BY <2>2, <2>3, <2>4
\* Samples after another type: at first they only count
<1>9. CASE cur = "lpcm" /\ t.audio_type # "lpcm"
  <2>1. ~HasBurst(b)
    BY <1>5, <1>9 DEF RawTypes
  <2>2. t.read_bytes \in Nat /\ p = thread.package_size
    BY <1>3, <1>7, <2>1
  <2>3. CASE t.read_bytes > t.package_size * 2
    <3>1. thread' = [t EXCEPT !.audio_type = "lpcm", !.read_bytes = n]
      BY <1>4, <1>9, <2>3 DEF update_audio_type
    <3>2. /\ thread'.audio_type = "lpcm" /\ thread'.package_size = p
          /\ thread' \in [audio_type : ThreadTypes, read_bytes : Nat, package_size : Nat]
      BY <1>1, <1>7, <3>1 DEF ThreadTypes
    <3>3. last \in RawTypes => QuietFor(thread.read_bytes)
      BY <1>2, <1>7, <1>9 DEF ThreadInv
    <3>4. last \in RawTypes => quiet' > 2 * p
      BY <1>1, <1>2, <1>3, <1>7, <2>1, <2>3, <3>3 DEF QuietFor
    <3>5. QED
      BY <1>1, <1>3, <2>1, <3>2, <3>4 DEF ThreadInv, RawTypes
  <2>4. CASE ~(t.read_bytes > t.package_size * 2)
    <3>1. thread' = [t EXCEPT !.read_bytes = @ + n]
      BY <1>4, <1>9, <2>4 DEF update_audio_type
    <3>2. /\ thread'.audio_type = t.audio_type /\ thread'.package_size = p
          /\ thread'.read_bytes = t.read_bytes + n
          /\ thread' \in [audio_type : ThreadTypes, read_bytes : Nat, package_size : Nat]
      BY <1>1, <1>7, <2>2, <3>1
    <3>3. last \in RawTypes => QuietFor(thread.read_bytes)
                               /\ thread.audio_type \in RawTypes
      BY <1>2, <1>7, <1>9 DEF ThreadInv
    <3>4. last \in RawTypes => QuietFor(thread.read_bytes)'
      BY <1>1, <1>2, <1>7, <2>1, <3>2, <3>3 DEF QuietFor
    <3>5. QED
      BY <1>1, <1>3, <1>7, <2>1, <3>2, <3>3, <3>4 DEF ThreadInv, RawTypes
  <2>5. QED
    BY <2>3, <2>4
<1>10. CASE cur = t.audio_type
  <2>1. thread' = [t EXCEPT !.read_bytes = 0]
    BY <1>4, <1>10 DEF update_audio_type
  <2>2. thread' = [t EXCEPT !.audio_type = cur, !.read_bytes = 0]
    BY <1>7, <1>10, <2>1
  <2>3. QED
    BY <1>8, <2>2
<1>11. CASE cur # t.audio_type /\ cur # "lpcm"
  <2>1. thread' = [t EXCEPT !.audio_type = cur, !.read_bytes = 0]
    BY <1>4, <1>11 DEF update_audio_type
  <2>2. QED
    BY <1>8, <2>1
<1>12. QED
  BY <1>9, <1>10, <1>11

LEMMA FeedKeeps ==
  ASSUME ParserInv, NEW b \in Blocks, NEW n \in BlockSizes, ParserFeed(b, n)
  PROVE  ParserInv'
<1>1. /\ handle' \in [state : ParserStates, audio_type : HandleTypes,
                      parsed_size : Nat, package_size : Nat]
      /\ 2 * handle'.package_size < SizeCap
      /\ UnsyncInv' /\ SyncInv'
  BY HandleQuiet, HandleBurst DEF ParserInv, PackageInv
<1>2. /\ thread' \in [audio_type : ThreadTypes, read_bytes : Nat, package_size : Nat]
      /\ 2 * thread'.package_size < SizeCap
      /\ ThreadInv'
  BY ThreadStep
<1>3. quiet' \in Nat /\ quiet' <= SizeCap /\ preset' = preset
  BY HistoryStep
<1>4. ParserTypeInv' /\ PackageInv'
  BY <1>1, <1>2, <1>3 DEF ParserInv, ParserTypeInv, PackageInv
<1>5. QED
  BY <1>1, <1>2, <1>4 DEF ParserInv

LEMMA ParserInvariant == ParserSpec => []ParserInv
<1>1. ParserInit => ParserInv
  BY ParserInitial
<1>2. ParserInv /\ [ParserNext]_parservars => ParserInv'
  <2>1. CASE ParserCreate /\ ParserInv
    BY <2>1, CreateKeeps
  <2>2. ASSUME ParserInv, NEW b \in Blocks, NEW n \in BlockSizes, ParserFeed(b, n)
        PROVE  ParserInv'
    BY <2>2, FeedKeeps
  <2>3. CASE ParserInv /\ UNCHANGED parservars
    BY <2>3 DEF parservars, ParserInv, ParserTypeInv, PackageInv, UnsyncInv, SyncInv,
                ThreadInv, Synchronised, QuietFor
  <2>4. QED
    BY <2>1, <2>2, <2>3 DEF ParserNext
<1>3. QED
  BY <1>1, <1>2, PTL DEF ParserSpec

\* Whatever bursts, samples and silences follow one another, in blocks of whatever
\* sizes, feeddata_audio_type_parse calls the input PCM only after iec_check_size
\* bytes without a burst, and its state and its type agree.
THEOREM SettledCorrect == ParserSpec => []PcmIsSettled
<1>1. ASSUME ParserInv PROVE PcmIsSettled
  <2>1. CASE Synchronised
    BY <1>1, <2>1 DEF ParserInv, SyncInv, Synchronised, PcmIsSettled, RawTypes
  <2>2. CASE ~Synchronised
    BY <1>1, <2>2 DEF ParserInv, UnsyncInv, Synchronised, PcmIsSettled, RawTypes
  <2>3. QED
    BY <2>1, <2>2
<1>2. QED
  BY <1>1, ParserInvariant, PTL

\* Neither parser lets go of a bitstream whose bursts come every two packages: the
\* one that is fed counts from the last burst, and the thread never counts more than
\* went by since it.
THEOREM TrackedCorrect == ParserSpec => []BurstsAreTracked
<1>1. ASSUME ParserInv, last \in RawTypes, quiet <= 2 * handle.package_size
      PROVE  handle.audio_type = last
  <2>1. Synchronised
    BY <1>1 DEF ParserInv, ParserTypeInv, UnsyncInv
  <2>2. QED
    BY <1>1, <2>1 DEF ParserInv, SyncInv
<1>2. ASSUME ParserInv, last \in RawTypes, quiet <= 2 * thread.package_size
      PROVE  thread.audio_type \in RawTypes
  BY <1>2 DEF ParserInv, ParserTypeInv, ThreadInv
<1>3. ParserInv => BurstsAreTracked
  BY <1>1, <1>2 DEF BurstsAreTracked
<1>4. QED
  BY <1>3, ParserInvariant, PTL

-----------------------------------------------------------------------------
(***************************************************************************)
(* The sampling rate.  Neither property is inductive: what a rate lacks to *)
(* be confirmed, or to be reported, depends on the phase                   *)
(* aml_spdifin_getinfo is in.  SpdifInv says it phase by phase.            *)
(***************************************************************************)


SpdifPhases == {"unstable", "unstable_to_stable", "stable", "stable_to_unstable"}

SpdifTypeOK ==
  /\ status \in SpdifPhases
  /\ samplerate \in SpdifRates \cup {NoRate}
  /\ output_rate \in SpdifRates \cup {NoRate}
  /\ asked \in SpdifRates \cup {NoRate}
  /\ confirmed \in SpdifRates \cup {NoRate}
  /\ since_begin \in Nat /\ run \in Nat /\ lost \in Nat

\* Nothing is reported; a rate that is there has come while the former one was
\* being given up.
UnstableInv ==
  status = "unstable" =>
    /\ output_rate = NoRate
    /\ asked # NoRate => run < Detecting + MaxGap

\* The rate has been there since begin_time, and not much longer.
UnstableToStableInv ==
  status = "unstable_to_stable" =>
    /\ output_rate = NoRate
    /\ asked = samplerate /\ asked # NoRate
    /\ since_begin < Detecting /\ since_begin <= run
    /\ run < since_begin + Detecting + 2 * MaxGap

StableInv ==
  status = "stable" =>
    /\ output_rate = samplerate /\ asked = samplerate /\ confirmed = samplerate
    /\ samplerate # NoRate
    /\ lost = 0

\* begin_time is when the rate was missed first
StableToUnstableInv ==
  status = "stable_to_unstable" =>
    /\ output_rate = samplerate /\ confirmed = samplerate /\ samplerate # NoRate
    /\ asked # samplerate
    /\ lost = since_begin /\ lost < Detecting
    /\ run <= lost

SpdifInv ==
  SpdifTypeOK /\ UnstableInv /\ UnstableToStableInv /\ StableInv /\ StableToUnstableInv

-----------------------------------------------------------------------------
(* Time *)

\* A time and its successor are numbers, and the cap cuts none that matters here.
LEMMA LaterFacts ==
  ASSUME NEW t \in Nat, NEW gap \in 1..MaxGap
  PROVE  /\ Later(t, gap) \in Nat
         /\ Later(t, gap) <= t + gap /\ Later(t, gap) <= t + MaxGap
         /\ t < Detecting => Later(t, gap) = t + gap
         /\ t >= Detecting => Later(t, gap) >= Detecting
  BY SpdifAssumption DEF Later, SpdifCap

\* Of two times the longer one stays the longer one.
LEMMA LaterMonotone ==
  ASSUME NEW t \in Nat, NEW u \in Nat, t <= u, NEW gap \in 1..MaxGap
  PROVE  Later(t, gap) <= Later(u, gap)
  BY SpdifAssumption DEF Later, SpdifCap

\* Every answer is of its type.
LEMMA GetInfoType ==
  ASSUME SpdifTypeOK, NEW rate \in SpdifRates \cup {NoRate}, NEW gap \in 1..MaxGap,
         aml_spdifin_getinfo(rate, gap)
  PROVE  SpdifTypeOK'
<1> USE DEF SpdifTypeOK, SpdifPhases
<1>1. Later(since_begin, gap) \in Nat /\ Later(run, gap) \in Nat /\ Later(lost, gap) \in Nat
  BY LaterFacts
<1>2. /\ asked' \in SpdifRates \cup {NoRate} /\ run' \in Nat
      /\ confirmed' \in SpdifRates \cup {NoRate} /\ lost' \in Nat
  BY <1>1 DEF aml_spdifin_getinfo
<1>3. /\ status' \in SpdifPhases /\ samplerate' \in SpdifRates \cup {NoRate}
      /\ output_rate' \in SpdifRates \cup {NoRate} /\ since_begin' \in Nat
  BY <1>1 DEF aml_spdifin_getinfo, Unstable, UnstableToStable, Stable, StableToUnstable, Answer
<1> QED BY <1>2, <1>3

-----------------------------------------------------------------------------
(* A call in each phase *)

\* While nothing is stable the rate that comes up has not been there for longer
\* than the former one took to be given up, and a gap.
LEMMA UnstableStep ==
  ASSUME SpdifInv, NEW rate \in SpdifRates \cup {NoRate}, NEW gap \in 1..MaxGap,
         aml_spdifin_getinfo(rate, gap), status = "unstable"
  PROVE  SpdifInv'
<1>1. SpdifTypeOK' BY GetInfoType DEF SpdifInv
<1>2. /\ status' = IF rate = NoRate THEN "unstable" ELSE "unstable_to_stable"
      /\ samplerate' = rate /\ since_begin' = 0 /\ output_rate' = NoRate /\ asked' = rate
  BY DEF aml_spdifin_getinfo, Unstable, UnstableToStable, Stable, StableToUnstable, Answer
<1>3. /\ run' \in Nat
      /\ rate # NoRate => run' < Detecting + 2 * MaxGap
  <2>1. CASE rate = asked
    <3>1. run' = Later(run, gap) BY <2>1 DEF aml_spdifin_getinfo
    <3>2. asked # NoRate => run < Detecting + MaxGap BY DEF SpdifInv, UnstableInv
    <3>3. run \in Nat BY DEF SpdifInv, SpdifTypeOK
    <3> QED BY <2>1, <3>1, <3>2, <3>3, LaterFacts, SpdifAssumption
  <2>2. CASE rate # asked
    <3>1. run' = 0 BY <2>2 DEF aml_spdifin_getinfo
    <3> QED BY <3>1, SpdifAssumption
  <2> QED BY <2>1, <2>2
<1>4. UnstableInv' /\ UnstableToStableInv'
  BY <1>2, <1>3, SpdifAssumption DEF UnstableInv, UnstableToStableInv
<1>5. StableInv' /\ StableToUnstableInv'
  BY <1>2 DEF StableInv, StableToUnstableInv
<1> QED BY <1>1, <1>4, <1>5 DEF SpdifInv

\* A rate that lasts for Detecting after begin_time has been seen for as long.
LEMMA UnstableToStableStep ==
  ASSUME SpdifInv, NEW rate \in SpdifRates \cup {NoRate}, NEW gap \in 1..MaxGap,
         aml_spdifin_getinfo(rate, gap), status = "unstable_to_stable"
  PROVE  SpdifInv'
<1> DEFINE elapsed == Later(since_begin, gap)
<1>1. SpdifTypeOK' BY GetInfoType DEF SpdifInv
<1>2. /\ output_rate = NoRate /\ asked = samplerate /\ asked # NoRate
      /\ since_begin < Detecting /\ since_begin <= run
      /\ run < since_begin + Detecting + 2 * MaxGap
      /\ since_begin \in Nat /\ run \in Nat
  BY DEF SpdifInv, UnstableToStableInv, SpdifTypeOK
<1>3. UnstableToStable(rate, elapsed)
  BY DEF aml_spdifin_getinfo, Unstable, UnstableToStable, Stable, StableToUnstable
<1>4. /\ elapsed = since_begin + gap
      /\ Later(run, gap) \in Nat /\ elapsed <= Later(run, gap)
      /\ Later(run, gap) <= run + gap
  BY <1>2, LaterFacts, LaterMonotone
<1>5. asked' = rate BY DEF aml_spdifin_getinfo
<1>6. CASE samplerate # rate
  <2>1. status' = "unstable" /\ output_rate' = NoRate
    BY <1>3, <1>6 DEF UnstableToStable, Answer
  <2>2. run' = 0 BY <1>2, <1>6 DEF aml_spdifin_getinfo
  <2> QED
    BY <1>1, <2>1, <2>2, SpdifAssumption
    DEF SpdifInv, UnstableInv, UnstableToStableInv, StableInv, StableToUnstableInv
<1>7. CASE samplerate = rate /\ Expired(elapsed)
  <2>1. status' = "stable" /\ samplerate' = rate /\ output_rate' = rate
    BY <1>3, <1>7 DEF UnstableToStable, Answer
  <2>2. run' = Later(run, gap) BY <1>2, <1>7 DEF aml_spdifin_getinfo
  <2>3. run' >= Detecting
    BY <1>2, <1>4, <1>7, <2>2, SpdifAssumption DEF Expired
  <2>4. confirmed' = rate BY <1>2, <1>7, <2>3 DEF aml_spdifin_getinfo
  <2>5. lost' = 0 BY <1>2, <1>7, <2>1 DEF aml_spdifin_getinfo
  <2> QED
    BY <1>1, <1>2, <1>5, <1>7, <2>1, <2>4, <2>5
    DEF SpdifInv, UnstableInv, UnstableToStableInv, StableInv, StableToUnstableInv
<1>8. CASE samplerate = rate /\ ~Expired(elapsed)
  <2>1. /\ status' = "unstable_to_stable" /\ samplerate' = rate /\ output_rate' = NoRate
        /\ since_begin' = elapsed
    BY <1>3, <1>8 DEF UnstableToStable, Answer
  <2>2. run' = Later(run, gap) BY <1>2, <1>8 DEF aml_spdifin_getinfo
  <2>3. elapsed < Detecting BY <1>2, <1>4, <1>8, SpdifAssumption DEF Expired
  <2>4. run' < elapsed + Detecting + 2 * MaxGap
    BY <1>2, <1>4, <2>2, SpdifAssumption
  <2> QED
    BY <1>1, <1>2, <1>4, <1>5, <1>8, <2>1, <2>2, <2>3, <2>4
    DEF SpdifInv, UnstableInv, UnstableToStableInv, StableInv, StableToUnstableInv
<1> QED BY <1>6, <1>7, <1>8

\* The first call that misses the stable rate starts the time it may be away.
LEMMA StableStep ==
  ASSUME SpdifInv, NEW rate \in SpdifRates \cup {NoRate}, NEW gap \in 1..MaxGap,
         aml_spdifin_getinfo(rate, gap), status = "stable"
  PROVE  SpdifInv'
<1>1. SpdifTypeOK' BY GetInfoType DEF SpdifInv
<1>2. /\ output_rate = samplerate /\ asked = samplerate /\ confirmed = samplerate
      /\ samplerate # NoRate
  BY DEF SpdifInv, StableInv
<1>3. Stable(rate, Later(since_begin, gap))
  BY DEF aml_spdifin_getinfo, Unstable, UnstableToStable, Stable, StableToUnstable
<1>4. asked' = rate /\ samplerate' = samplerate /\ output_rate' = samplerate
  BY <1>3 DEF aml_spdifin_getinfo, Stable, Answer
<1>5. lost' = 0 BY <1>2 DEF aml_spdifin_getinfo
<1>6. CASE rate = samplerate
  <2>1. status' = "stable" BY <1>3, <1>6 DEF Stable, Answer
  <2>2. confirmed' = samplerate BY <1>2, <1>6 DEF aml_spdifin_getinfo
  <2> QED
    BY <1>1, <1>2, <1>4, <1>5, <1>6, <2>1, <2>2
    DEF SpdifInv, UnstableInv, UnstableToStableInv, StableInv, StableToUnstableInv
<1>7. CASE rate # samplerate
  <2>1. status' = "stable_to_unstable" /\ since_begin' = 0 BY <1>3, <1>7 DEF Stable, Answer
  <2>2. run' = 0 BY <1>2, <1>7 DEF aml_spdifin_getinfo
  <2>3. confirmed' = samplerate
    BY <1>2, <2>2, SpdifAssumption DEF aml_spdifin_getinfo
  <2> QED
    BY <1>1, <1>2, <1>4, <1>5, <1>7, <2>1, <2>2, <2>3, SpdifAssumption
    DEF SpdifInv, UnstableInv, UnstableToStableInv, StableInv, StableToUnstableInv
<1> QED BY <1>6, <1>7

\* A rate that is missed is given up after Detecting, or is back before.
LEMMA StableToUnstableStep ==
  ASSUME SpdifInv, NEW rate \in SpdifRates \cup {NoRate}, NEW gap \in 1..MaxGap,
         aml_spdifin_getinfo(rate, gap), status = "stable_to_unstable"
  PROVE  SpdifInv'
<1> DEFINE elapsed == Later(since_begin, gap)
<1>1. SpdifTypeOK' BY GetInfoType DEF SpdifInv
<1>2. /\ output_rate = samplerate /\ confirmed = samplerate /\ samplerate # NoRate
      /\ asked # samplerate /\ lost = since_begin /\ lost < Detecting /\ run <= lost
      /\ lost \in Nat /\ run \in Nat
  BY DEF SpdifInv, StableToUnstableInv, SpdifTypeOK
<1>3. StableToUnstable(rate, elapsed)
  BY DEF aml_spdifin_getinfo, Unstable, UnstableToStable, Stable, StableToUnstable
<1>4. /\ elapsed = lost + gap /\ elapsed = Later(lost, gap)
      /\ Later(run, gap) = run + gap
  <2>1. elapsed = Later(lost, gap) BY <1>2
  <2>2. lost < Detecting /\ run < Detecting BY <1>2, SpdifAssumption
  <2>3. Later(lost, gap) = lost + gap BY <1>2, <2>2, LaterFacts
  <2>4. Later(run, gap) = run + gap BY <1>2, <2>2, LaterFacts
  <2> QED BY <2>1, <2>3, <2>4
<1>5. asked' = rate /\ samplerate' = samplerate
  BY <1>3 DEF aml_spdifin_getinfo, StableToUnstable, Answer
<1>6. run' \in Nat /\ run' <= elapsed
  BY <1>2, <1>4, SpdifAssumption DEF aml_spdifin_getinfo
<1>7. CASE rate = samplerate
  <2>1. status' = "stable" /\ output_rate' = samplerate
    BY <1>3, <1>7 DEF StableToUnstable, Answer
  <2>2. run' = 0 BY <1>2, <1>7 DEF aml_spdifin_getinfo
  <2>3. confirmed' = samplerate
    BY <1>2, <1>7 DEF aml_spdifin_getinfo
  <2>4. lost' = 0 BY <1>2, <1>7 DEF aml_spdifin_getinfo
  <2> QED
    BY <1>1, <1>2, <1>5, <1>7, <2>1, <2>3, <2>4
    DEF SpdifInv, UnstableInv, UnstableToStableInv, StableInv, StableToUnstableInv
<1>8. CASE rate # samplerate /\ Expired(elapsed)
  <2>1. status' = "unstable" /\ output_rate' = NoRate
    BY <1>3, <1>8 DEF StableToUnstable, Answer
  <2>2. run' < Detecting + MaxGap BY <1>2, <1>4, <1>6, SpdifAssumption
  <2> QED
    BY <1>1, <2>1, <2>2
    DEF SpdifInv, UnstableInv, UnstableToStableInv, StableInv, StableToUnstableInv
<1>9. CASE rate # samplerate /\ ~Expired(elapsed)
  <2>1. /\ status' = "stable_to_unstable" /\ output_rate' = samplerate
        /\ since_begin' = elapsed
    BY <1>3, <1>9 DEF StableToUnstable, Answer
  <2>2. elapsed < Detecting BY <1>2, <1>4, <1>9, SpdifAssumption DEF Expired
  <2>3. lost' = elapsed BY <1>2, <1>4, <1>9, <2>1 DEF aml_spdifin_getinfo
  <2>4. confirmed' = samplerate
    <3>1. run' < Detecting BY <1>2, <1>4, <1>6, <2>2, SpdifAssumption
    <3> QED BY <1>2, <1>6, <3>1, SpdifAssumption DEF aml_spdifin_getinfo
  <2> QED
    BY <1>1, <1>2, <1>5, <1>6, <1>9, <2>1, <2>2, <2>3, <2>4
    DEF SpdifInv, UnstableInv, UnstableToStableInv, StableInv, StableToUnstableInv
<1> QED BY <1>7, <1>8, <1>9

-----------------------------------------------------------------------------
(* The theorems *)

\* The phases keep what they say, however the hardware's rate moves.
THEOREM SpdifInvariant == SpdifSpec => []SpdifInv
<1>1. SpdifInit => SpdifInv
  BY SpdifAssumption
  DEF SpdifInit, SpdifInv, SpdifTypeOK, SpdifPhases, UnstableInv, UnstableToStableInv,
      StableInv, StableToUnstableInv
<1>2. SpdifInv /\ [SpdifNext]_spdifvars => SpdifInv'
  <2> SUFFICES ASSUME SpdifInv, [SpdifNext]_spdifvars PROVE SpdifInv'
    OBVIOUS
  <2>1. ASSUME NEW rate \in SpdifRates \cup {NoRate}, NEW gap \in 1..MaxGap,
               aml_spdifin_getinfo(rate, gap)
        PROVE  SpdifInv'
    <3>1. status \in SpdifPhases BY DEF SpdifInv, SpdifTypeOK
    <3> QED
      BY <2>1, <3>1, UnstableStep, UnstableToStableStep, StableStep, StableToUnstableStep
      DEF SpdifPhases
  <2>2. CASE UNCHANGED spdifvars
    BY <2>2
    DEF spdifvars, SpdifInv, SpdifTypeOK, UnstableInv, UnstableToStableInv, StableInv,
        StableToUnstableInv
  <2> QED BY <2>1, <2>2 DEF SpdifNext
<1> QED BY <1>1, <1>2, PTL DEF SpdifSpec

\* aml_spdifin_getinfo reports a rate only once every call of the detecting time saw
\* it, and no longer than that time after it was seen last.
THEOREM SpdifConfirmed == SpdifSpec => []ReportedRateIsConfirmed
<1>1. SpdifInv => ReportedRateIsConfirmed
  BY SpdifAssumption
  DEF SpdifInv, SpdifTypeOK, SpdifPhases, UnstableInv, UnstableToStableInv, StableInv,
      StableToUnstableInv, ReportedRateIsConfirmed
<1> QED BY <1>1, SpdifInvariant, PTL

\* A rate, or silence, that every call saw for twice the detecting time and two gaps
\* is what aml_spdifin_getinfo answers, whichever phase it came in.
THEOREM SpdifSteady == SpdifSpec => []SteadyRateIsReported
<1>1. SpdifInv => SteadyRateIsReported
  BY SpdifAssumption
  DEF SpdifInv, SpdifTypeOK, SpdifPhases, UnstableInv, UnstableToStableInv, StableInv,
      StableToUnstableInv, SteadyRateIsReported
<1> QED BY <1>1, SpdifInvariant, PTL

-----------------------------------------------------------------------------
(***************************************************************************)
(* The decoder's input, for every length of a burst and of its payload.    *)
(* DecoderInv is inductive: once the first header was read, the place of   *)
(* the input in its burst determines everything the decoder keeps: what it *)
(* has gathered of the payload, what it still lacks and the distance to    *)
(* the last header, which decides at the next one whether what was         *)
(* gathered is kept.                                                       *)
(***************************************************************************)

\* The first m units of the payload of burst b, and the first c payloads.
Part(b, m) == [k \in 1..m |-> [burst |-> b, place |-> k]]
Whole(c) == [j \in 1..c |-> Frame(j - 1)]

\* Before the first header nothing is gathered.
Unsynced ==
  /\ pos <= first
  /\ inbuf = <<>> /\ decoded = <<>>
  /\ raw_deficiency = 0 /\ burst_payload_size = 0

\* k units of burst b were read, its header included.
Synced(b, k) ==
  /\ pos = first + b * MatBytes + k
  /\ last_consumed_bytes = k /\ burst_payload_size = Payload
  /\ \/ /\ k <= Payload
        /\ raw_deficiency = Payload + 1 - k
        /\ inbuf = Part(b, k - 1) /\ decoded = Whole(b)
     \/ /\ k > Payload
        /\ raw_deficiency = 0
        /\ inbuf = <<>> /\ decoded = Whole(b + 1)

DecoderInv ==
  /\ first \in Nat /\ pos \in Nat /\ last_consumed_bytes \in Nat
  /\ Unsynced \/ \E b \in 0..(MaxBursts - 1), k \in 1..MatBytes : Synced(b, k)

-----------------------------------------------------------------------------
(* The arithmetic of bursts, and sequences of units *)

\* What the input and the buffers are made of
Cells == [burst : Int, place : Int]

\* A function from 1 to n is a sequence.
LEMMA FunctionIsSeq ==
  ASSUME NEW S, NEW n \in Nat, NEW f \in [1..n -> S]
  PROVE  f \in Seq(S) /\ Len(f) = n
OBVIOUS

\* Two multiples are as far apart as what they are multiples of.
LEMMA Multiples ==
  ASSUME NEW M \in Nat, NEW x \in Int, NEW y \in Int, x < y
  PROVE  x * M \in Int /\ y * M \in Int /\ x * M + M <= y * M
<1>1. PICK d \in Nat : y = x + 1 + d
  <2>1. y - x - 1 \in Nat
    OBVIOUS
  <2> QED
    BY <2>1
<1>2. y * M = x * M + M + d * M
  BY <1>1
<1>3. d * M \in Nat /\ x * M \in Int /\ y * M \in Int
  BY <1>1
<1> QED
  BY <1>2, <1>3

\* The burst of a unit and its place in it
LEMMA DivMod ==
  ASSUME NEW M \in Nat \ {0}, NEW b \in Nat, NEW o \in 0..(M - 1)
  PROVE  (b * M + o) \div M = b /\ (b * M + o) % M = o
<1> DEFINE x == b * M + o
<1> DEFINE q == x \div M
<1> DEFINE r == x % M
<1>1. b * M \in Nat /\ x \in Nat
  OBVIOUS
<1>2. q \in Int /\ r \in 0..(M - 1) /\ x = M * q + r
  BY <1>1
<1>3. q * M + r = b * M + o
  BY <1>2
<1> HIDE DEF x, q, r
<1>4. q * M \in Int /\ b * M \in Int
  BY <1>2
<1>5. q = b
  <2>1. ~(q < b)
    BY <1>2, <1>3, <1>4, Multiples
  <2>2. ~(b < q)
    BY <1>2, <1>3, <1>4, Multiples
  <2> QED
    BY <1>2, <2>1, <2>2
<1>6. r = o
  BY <1>2, <1>3, <1>4, <1>5
<1> QED
  BY <1>5, <1>6 DEF q, r, x

\* The o-th unit from the header of burst b on
LEMMA UnitAt ==
  ASSUME first \in Nat, NEW b \in Nat, NEW o \in 0..(MatBytes - 1)
  PROVE  Unit(first + b * MatBytes + o) = [burst |-> b, place |-> o]
<1>1. b * MatBytes \in Nat
  BY BurstAssumption
<1>2. (first + b * MatBytes + o) - first = b * MatBytes + o
  BY <1>1, BurstAssumption
<1>3. (b * MatBytes + o) \div MatBytes = b /\ (b * MatBytes + o) % MatBytes = o
  BY DivMod, BurstAssumption
<1> QED
  BY <1>2, <1>3 DEF Unit

\* Unit p comes after the header of burst b and m more of its units.
After(p, b, m) == p = first + b * MatBytes + m + 1

\* Units that no header cuts
LEMMA UnitsOfBurst ==
  ASSUME first \in Nat, NEW b \in Nat, NEW m \in Nat, NEW n \in Nat, m + n < MatBytes,
         NEW p, After(p, b, m)
  PROVE  /\ Units(p, n) \in Seq(Cells) /\ Len(Units(p, n)) = n
         /\ \A i \in 1..n : Units(p, n)[i] = [burst |-> b, place |-> m + i]
<1>1. b * MatBytes \in Nat /\ MatBytes \in Nat
  BY BurstAssumption
<1>2. ASSUME NEW i \in 1..n PROVE Unit(p + i - 1) = [burst |-> b, place |-> m + i]
  <2>1. m + i \in 0..(MatBytes - 1)
    BY <1>1
  <2>2. p + i - 1 = first + b * MatBytes + (m + i)
    BY <1>1 DEF After
  <2> QED
    BY <2>1, <2>2, UnitAt
<1>3. \A i \in 1..n : Units(p, n)[i] = [burst |-> b, place |-> m + i]
  BY <1>2 DEF Units
<1>4. Units(p, n) \in [1..n -> Cells]
  <2>1. ASSUME NEW i \in 1..n PROVE Unit(p + i - 1) \in Cells
    <3>1. m + i \in Int /\ b \in Int
      OBVIOUS
    <3>2. [burst |-> b, place |-> m + i] \in Cells
      BY <3>1 DEF Cells
    <3> QED
      BY <1>2, <3>2
  <2> QED
    BY <2>1 DEF Units
<1> QED
  BY <1>3, <1>4, FunctionIsSeq

\* A part of a payload, unit by unit
LEMMA PartType ==
  ASSUME NEW b \in Nat, NEW m \in Nat
  PROVE  /\ Part(b, m) \in Seq(Cells) /\ Len(Part(b, m)) = m
         /\ \A i \in 1..m : Part(b, m)[i] = [burst |-> b, place |-> i]
<1>1. Part(b, m) \in [1..m -> Cells]
  BY DEF Part, Cells
<1> QED
  BY <1>1 DEF Part

\* What a concatenation is, element by element
LEMMA ConcatIs ==
  ASSUME NEW S, NEW s \in Seq(S), NEW t \in Seq(S), NEW u \in Seq(S),
         Len(u) = Len(s) + Len(t),
         \A i \in 1..Len(s) : u[i] = s[i],
         \A i \in 1..Len(t) : u[Len(s) + i] = t[i]
  PROVE  s \o t = u
<1>1. Len(s) \in Nat /\ Len(t) \in Nat
  BY LenProperties
<1>2. /\ s \o t \in Seq(S) /\ Len(s \o t) = Len(s) + Len(t)
      /\ \A i \in 1..(Len(s) + Len(t)) : (s \o t)[i] = IF i <= Len(s) THEN s[i] ELSE t[i - Len(s)]
  BY ConcatProperties
<1>3. ASSUME NEW i \in 1..(Len(s) + Len(t)) PROVE (s \o t)[i] = u[i]
  <2>1. CASE i <= Len(s)
    <3>1. i \in 1..Len(s)
      BY <1>1, <2>1
    <3> QED
      BY <1>2, <2>1, <3>1
  <2>2. CASE ~(i <= Len(s))
    <3>1. i - Len(s) \in 1..Len(t) /\ Len(s) + (i - Len(s)) = i
      BY <1>1, <2>2
    <3>2. u[i] = t[i - Len(s)]
      BY <3>1
    <3> QED
      BY <1>2, <2>2, <3>2
  <2> QED
    BY <2>1, <2>2
<1> QED
  BY <1>2, <1>3, SeqEqual

\* s and t together are u: a name for it, so that the provers find where it applies
Makes(s, t, u) == s \o t = u

\* A payload goes on where it was left.
LEMMA PartRead ==
  ASSUME first \in Nat, NEW b \in Nat, NEW m \in Nat, NEW n \in Nat, NEW w \in Nat,
         w < MatBytes, m + n <= w, w <= m + n, NEW p, After(p, b, m)
  PROVE  Makes(Part(b, m), Units(p, n), Part(b, w))
<1> DEFINE s == Part(b, m)
<1> DEFINE rest == Units(p, n)
<1> DEFINE u == Part(b, w)
<1>1. m + n = w /\ m + n < MatBytes
  BY BurstAssumption
<1>2. rest \in Seq(Cells) /\ Len(rest) = n
  BY <1>1, UnitsOfBurst
<1>3. s \in Seq(Cells) /\ Len(s) = m /\ u \in Seq(Cells) /\ Len(u) = w
  BY PartType
<1>4. ASSUME NEW i \in 1..m PROVE u[i] = s[i]
  <2>1. s[i] = [burst |-> b, place |-> i]
    BY PartType
  <2>2. i \in 1..w
    BY <1>1
  <2>3. u[i] = [burst |-> b, place |-> i]
    BY <2>2, PartType
  <2> QED
    BY <2>1, <2>3
<1>5. ASSUME NEW i \in 1..n PROVE u[m + i] = rest[i]
  <2>1. m + i \in 1..w
    BY <1>1
  <2>2. u[m + i] = [burst |-> b, place |-> m + i]
    BY <2>1, PartType
  <2>3. rest[i] = [burst |-> b, place |-> m + i]
    BY <1>1, UnitsOfBurst
  <2> QED
    BY <2>2, <2>3
<1>6. /\ Len(u) = Len(s) + Len(rest)
      /\ \A i \in 1..Len(s) : u[i] = s[i]
      /\ \A i \in 1..Len(rest) : u[Len(s) + i] = rest[i]
  BY <1>1, <1>2, <1>3, <1>4, <1>5
<1> HIDE DEF s, rest, u
<1>7. s \o rest = u
  BY <1>2, <1>3, <1>6, ConcatIs
<1> QED
  BY <1>7 DEF Makes, s, rest, u

\* The payload from the header on
LEMMA UnitsFromHeader ==
  ASSUME first \in Nat, NEW b \in Nat, NEW n \in Nat, n < MatBytes, NEW p, After(p, b, 0)
  PROVE  Units(p, n) = Part(b, n)
<1> DEFINE rest == Units(p, n)
<1> DEFINE u == Part(b, n)
<1>0. 0 \in Nat /\ 0 + n < MatBytes
  OBVIOUS
<1>1. rest \in Seq(Cells) /\ Len(rest) = n
  BY <1>0, UnitsOfBurst
<1>2. u \in Seq(Cells) /\ Len(u) = n
  BY PartType
<1>3. ASSUME NEW i \in 1..n PROVE rest[i] = u[i]
  <2>1. rest[i] = [burst |-> b, place |-> 0 + i]
    BY <1>0, UnitsOfBurst
  <2>2. u[i] = [burst |-> b, place |-> i]
    BY PartType
  <2> QED
    BY <2>1, <2>2
<1> HIDE DEF rest, u
<1>4. rest = u
  BY <1>1, <1>2, <1>3, SeqEqual
<1> QED
  BY <1>4 DEF rest, u

LEMMA NoUnits == ASSUME NEW p PROVE Units(p, 0) = <<>>
BY DEF Units

LEMMA NoPart == ASSUME NEW b PROVE Part(b, 0) = <<>> /\ Whole(0) = <<>>
BY DEF Part, Whole

-----------------------------------------------------------------------------
(* What a call of the decoder takes *)

\* The first payloads, one by one
LEMMA WholeType ==
  ASSUME NEW c \in Nat
  PROVE  /\ Whole(c) \in Seq(Seq(Cells)) /\ Len(Whole(c)) = c
         /\ \A j \in 1..c : Whole(c)[j] = Part(j - 1, Payload)
<1>1. ASSUME NEW j \in 1..c PROVE Frame(j - 1) = Part(j - 1, Payload)
  BY DEF Frame, Part
<1>2. ASSUME NEW j \in 1..c PROVE Part(j - 1, Payload) \in Seq(Cells)
  BY PartType, BurstAssumption
<1>3. Whole(c) = [j \in 1..c |-> Part(j - 1, Payload)]
  BY <1>1 DEF Whole
<1>4. Whole(c) \in [1..c -> Seq(Cells)]
  BY <1>2, <1>3
<1> QED
  BY <1>3, <1>4

\* The next payloads go after the first ones.
LEMMA WholeGrows ==
  ASSUME NEW c \in Nat, NEW q \in Nat, NEW w \in Nat, w = c + q,
         NEW more, more = [j \in 1..q |-> Part(c + j - 1, Payload)]
  PROVE  Whole(c) \o more = Whole(w)
<1> DEFINE s == Whole(c)
<1> DEFINE u == Whole(w)
<1>1. ASSUME NEW j \in 1..q PROVE Part(c + j - 1, Payload) \in Seq(Cells)
  BY PartType, BurstAssumption
<1>2. more \in [1..q -> Seq(Cells)]
  BY <1>1
<1>3. more \in Seq(Seq(Cells)) /\ Len(more) = q
  BY <1>2, FunctionIsSeq
<1>4. s \in Seq(Seq(Cells)) /\ Len(s) = c /\ u \in Seq(Seq(Cells)) /\ Len(u) = w
  BY WholeType
<1>5. ASSUME NEW j \in 1..c PROVE u[j] = s[j]
  <2>1. j \in 1..w
    OBVIOUS
  <2> QED
    BY <2>1, WholeType
<1>6. ASSUME NEW j \in 1..q PROVE u[c + j] = more[j]
  <2>1. c + j \in 1..w /\ (c + j) - 1 = c + j - 1
    OBVIOUS
  <2>2. u[c + j] = Part((c + j) - 1, Payload)
    BY <2>1, WholeType
  <2> QED
    BY <2>1, <2>2
<1>7. /\ Len(u) = Len(s) + Len(more)
      /\ \A j \in 1..Len(s) : u[j] = s[j]
      /\ \A j \in 1..Len(more) : u[Len(s) + j] = more[j]
  BY <1>3, <1>4, <1>5, <1>6
<1> HIDE DEF s, u
<1>8. s \o more = u
  BY <1>3, <1>4, <1>7, ConcatIs
<1> QED
  BY <1>8 DEF s, u

\* The decoder takes the q whole payloads of a buffer and leaves the rest of it.
LEMMA DecodeWhole ==
  ASSUME NEW c \in Nat, decoded = Whole(c), NEW buf \in Seq(Cells), Decode(buf, Payload),
         NEW q \in Nat, NEW m \in 0..(Payload - 1), Len(buf) = q * Payload + m,
         \A j \in 1..q : SubSeq(buf, (j - 1) * Payload + 1, j * Payload)
                           = Part(c + j - 1, Payload)
  PROVE  /\ decoded' = Whole(c + q)
         /\ inbuf' = SubSeq(buf, q * Payload + 1, Len(buf))
<1>1. Payload \in Nat \ {0}
  BY BurstAssumption
<1>2. Len(buf) \div Payload = q
  BY <1>1, DivMod
<1> DEFINE taken == [j \in 1..q |-> SubSeq(buf, (j - 1) * Payload + 1, j * Payload)]
<1>3. /\ decoded' = Whole(c) \o taken
      /\ inbuf' = SubSeq(buf, q * Payload + 1, Len(buf))
  BY <1>1, <1>2 DEF Decode
<1>4. taken = [j \in 1..q |-> Part(c + j - 1, Payload)]
  OBVIOUS
<1> HIDE DEF taken
<1>5. c + q \in Nat
  OBVIOUS
<1>6. Whole(c) \o taken = Whole(c + q)
  BY <1>4, <1>5, WholeGrows
<1> QED
  BY <1>3, <1>6

\* A part of a payload stays, a whole one is taken.
LEMMA DecodePart ==
  ASSUME NEW c \in Nat, decoded = Whole(c), NEW m \in 0..Payload, Decode(Part(c, m), Payload)
  PROVE  IF m < Payload THEN decoded' = Whole(c) /\ inbuf' = Part(c, m)
                        ELSE decoded' = Whole(c + 1) /\ inbuf' = <<>>
<1> DEFINE buf == Part(c, m)
<1>1. Payload \in Nat \ {0}
  BY BurstAssumption
<1>2. buf \in Seq(Cells) /\ Len(buf) = m
  BY PartType
<1> HIDE DEF buf
<1>3. SubSeq(buf, 1, Len(buf)) = buf
  BY <1>2, SubSeqFull
<1>4. CASE m < Payload
  <2>1. m \in 0..(Payload - 1) /\ Len(buf) = 0 * Payload + m /\ 0 * Payload + 1 = 1 /\ c + 0 = c
    BY <1>1, <1>2, <1>4
  <2>2. Decode(buf, Payload)
    BY DEF buf
  <2>3. decoded' = Whole(c + 0) /\ inbuf' = SubSeq(buf, 0 * Payload + 1, Len(buf))
    BY <1>2, <2>1, <2>2, DecodeWhole
  <2> QED
    BY <1>3, <1>4, <2>1, <2>3 DEF buf
<1>5. CASE m = Payload
  <2>1. /\ 0 \in 0..(Payload - 1) /\ Len(buf) = 1 * Payload + 0
        /\ (1 - 1) * Payload + 1 = 1 /\ 1 * Payload = Payload /\ c + 1 - 1 = c
    BY <1>1, <1>2, <1>5
  <2>2. Decode(buf, Payload)
    BY DEF buf
  <2>3. SubSeq(buf, 1, Payload) = Part(c, Payload)
    BY <1>2, <1>3, <1>5 DEF buf
  <2>4. ASSUME NEW j \in 1..1
        PROVE  SubSeq(buf, (j - 1) * Payload + 1, j * Payload) = Part(c + j - 1, Payload)
    <3>1. j = 1
      OBVIOUS
    <3> QED
      BY <2>1, <2>3, <3>1
  <2>5. decoded' = Whole(c + 1) /\ inbuf' = SubSeq(buf, 1 * Payload + 1, Len(buf))
    BY <1>2, <2>1, <2>2, <2>4, DecodeWhole
  <2>6. SubSeq(buf, 1 * Payload + 1, Len(buf)) = <<>>
    BY <1>1, <1>2, <1>5, <2>1, SubSeqEmpty
  <2> QED
    BY <1>5, <2>5, <2>6
<1> QED
  BY <1>1, <1>4, <1>5

\* What follows a whole payload
LEMMA Joined ==
  ASSUME NEW c \in Nat, NEW m \in 0..Payload
  PROVE  LET buf == Part(c, Payload) \o Part(c + 1, m) IN
         /\ buf \in Seq(Cells) /\ Len(buf) = Payload + m
         /\ SubSeq(buf, 1, Payload) = Part(c, Payload)
         /\ SubSeq(buf, Payload + 1, Payload + m) = Part(c + 1, m)
<1> DEFINE s == Part(c, Payload)
<1> DEFINE u == Part(c + 1, m)
<1> DEFINE buf == s \o u
<1>1. Payload \in Nat \ {0}
  BY BurstAssumption
<1>2. s \in Seq(Cells) /\ Len(s) = Payload /\ u \in Seq(Cells) /\ Len(u) = m
  <2>1. m \in Nat /\ c + 1 \in Nat
    BY <1>1
  <2> QED
    BY <1>1, <2>1, PartType
<1> HIDE DEF s, u
<1>3. /\ buf \in Seq(Cells) /\ Len(buf) = Len(s) + Len(u)
      /\ \A i \in 1..(Len(s) + Len(u)) : buf[i] = IF i <= Len(s) THEN s[i] ELSE u[i - Len(s)]
  BY <1>2, ConcatProperties
<1> HIDE DEF buf
<1>4. SubSeq(buf, 1, Payload) = s
  <2> DEFINE front == SubSeq(buf, 1, Payload)
  <2>1. \A i \in 1..Payload : buf[i] \in Cells
    BY <1>1, <1>2, <1>3, ElementOfSeq
  <2>2. /\ front \in Seq(Cells) /\ Len(front) = Payload
        /\ \A i \in 1..Payload : front[i] = buf[i]
    BY <1>1, <2>1, SubSeqProperties
  <2>3. \A i \in 1..Payload : front[i] = s[i]
    BY <1>1, <1>2, <1>3, <2>2
  <2> HIDE DEF front
  <2>4. front = s
    BY <1>2, <2>2, <2>3, SeqEqual
  <2> QED
    BY <2>4 DEF front
<1>5. SubSeq(buf, Payload + 1, Payload + m) = u
  <2> DEFINE back == SubSeq(buf, Payload + 1, Payload + m)
  <2>1. \A i \in (Payload + 1)..(Payload + m) : buf[i] \in Cells
    BY <1>1, <1>2, <1>3, ElementOfSeq
  <2>2. /\ back \in Seq(Cells) /\ Len(back) = m
        /\ \A i \in 1..m : back[i] = buf[Payload + i]
    BY <1>1, <2>1, SubSeqProperties
  <2>3. ASSUME NEW i \in 1..m PROVE back[i] = u[i]
    <3>1. Payload + i \in 1..(Len(s) + Len(u)) /\ ~(Payload + i <= Len(s))
          /\ (Payload + i) - Len(s) = i
      BY <1>1, <1>2
    <3>2. buf[Payload + i] = u[i]
      BY <1>3, <3>1
    <3> QED
      BY <2>2, <3>2
  <2> HIDE DEF back
  <2>4. back = u
    BY <1>2, <2>2, <2>3, SeqEqual
  <2> QED
    BY <2>4 DEF back
<1> QED
  BY <1>2, <1>3, <1>4, <1>5 DEF s, u, buf

\* Behind a whole payload, which is taken, the same holds of the part of the next.
LEMMA DecodeNext ==
  ASSUME NEW c \in Nat, decoded = Whole(c), NEW m \in 0..Payload,
         Decode(Part(c, Payload) \o Part(c + 1, m), Payload)
  PROVE  IF m < Payload THEN decoded' = Whole(c + 1) /\ inbuf' = Part(c + 1, m)
                        ELSE decoded' = Whole(c + 2) /\ inbuf' = <<>>
<1> DEFINE buf == Part(c, Payload) \o Part(c + 1, m)
<1>1. Payload \in Nat \ {0}
  BY BurstAssumption
<1>2. /\ buf \in Seq(Cells) /\ Len(buf) = Payload + m
      /\ SubSeq(buf, 1, Payload) = Part(c, Payload)
      /\ SubSeq(buf, Payload + 1, Payload + m) = Part(c + 1, m)
  BY Joined
<1>3. Decode(buf, Payload)
  OBVIOUS
<1> HIDE DEF buf
<1>4. CASE m < Payload
  <2>1. m \in 0..(Payload - 1) /\ Len(buf) = 1 * Payload + m
        /\ (1 - 1) * Payload + 1 = 1 /\ 1 * Payload = Payload /\ c + 1 - 1 = c
    BY <1>1, <1>2, <1>4
  <2>2. ASSUME NEW j \in 1..1
        PROVE  SubSeq(buf, (j - 1) * Payload + 1, j * Payload) = Part(c + j - 1, Payload)
    <3>1. j = 1
      OBVIOUS
    <3> QED
      BY <1>2, <2>1, <3>1
  <2>3. decoded' = Whole(c + 1) /\ inbuf' = SubSeq(buf, 1 * Payload + 1, Len(buf))
    BY <1>2, <1>3, <2>1, <2>2, DecodeWhole
  <2> QED
    BY <1>2, <1>4, <2>1, <2>3
<1>5. CASE m = Payload
  <2>1. /\ 0 \in 0..(Payload - 1) /\ Len(buf) = 2 * Payload + 0
        /\ (1 - 1) * Payload + 1 = 1 /\ 1 * Payload = Payload /\ c + 1 - 1 = c
        /\ (2 - 1) * Payload + 1 = Payload + 1 /\ 2 * Payload = Payload + m /\ c + 2 - 1 = c + 1
    BY <1>1, <1>2, <1>5
  <2>2. ASSUME NEW j \in 1..2
        PROVE  SubSeq(buf, (j - 1) * Payload + 1, j * Payload) = Part(c + j - 1, Payload)
    <3>1. CASE j = 1
      BY <1>2, <2>1, <3>1
    <3>2. CASE j = 2
      BY <1>2, <1>5, <2>1, <3>2
    <3> QED
      BY <3>1, <3>2
  <2>3. decoded' = Whole(c + 2) /\ inbuf' = SubSeq(buf, 2 * Payload + 1, Len(buf))
    BY <1>2, <1>3, <2>1, <2>2, DecodeWhole
  <2>4. SubSeq(buf, 2 * Payload + 1, Len(buf)) = <<>>
    BY <1>1, <2>1, SubSeqEmpty
  <2> QED
    BY <1>5, <2>3, <2>4
<1> QED
  BY <1>1, <1>4, <1>5

-----------------------------------------------------------------------------
(* The steps *)

\* Where the headers are before the first one was read, and in the burst at hand
LEMMA FirstHeader ==
  ASSUME first \in Nat, pos \in Nat, pos <= first, NEW n \in 1..MatBytes
  PROVE  Headers(pos, n) = IF first < pos + n THEN {first - pos} ELSE {}
<1>1. MatBytes \in Nat \ {0}
  BY BurstAssumption
<1>2. ASSUME NEW o \in 0..(n - 1), pos + o >= first
      PROVE  Unit(pos + o).place = 0 <=> o = first - pos
  <2> DEFINE d == pos + o - first
  <2>1. d \in 0..(MatBytes - 1) /\ pos + o = first + 0 * MatBytes + d
    BY <1>1, <1>2
  <2> HIDE DEF d
  <2>2. Unit(first + 0 * MatBytes + d) = [burst |-> 0, place |-> d]
    BY <2>1, UnitAt
  <2>3. Unit(pos + o).place = d
    BY <2>1, <2>2
  <2> QED
    BY <2>3 DEF d
<1>3. ASSUME NEW o PROVE o \in Headers(pos, n) <=> first < pos + n /\ o = first - pos
  <2>1. first < pos + n /\ o = first - pos => o \in 0..(n - 1) /\ pos + o >= first
    BY <1>1
  <2>2. o \in Headers(pos, n) <=> o \in 0..(n - 1) /\ pos + o >= first /\ Unit(pos + o).place = 0
    BY DEF Headers
  <2>3. o \in 0..(n - 1) /\ pos + o >= first /\ o = first - pos => first < pos + n
    BY <1>1
  <2> QED
    BY <1>2, <2>1, <2>2, <2>3
<1> QED
  BY <1>3

\* The only header ahead in less than two bursts is that of the next burst.
LEMMA NextHeader ==
  ASSUME first \in Nat, NEW b \in Nat, NEW m \in 0..(MatBytes - 1), NEW p, After(p, b, m),
         NEW n \in Nat, m + n < 2 * MatBytes, NEW h \in Nat, m + 1 + h = MatBytes
  PROVE  Headers(p, n) = IF h < n THEN {h} ELSE {}
<1>1. MatBytes \in Nat \ {0} /\ b * MatBytes \in Nat
  BY BurstAssumption
<1>2. ASSUME NEW o \in 0..(n - 1) PROVE p + o >= first /\ (Unit(p + o).place = 0 <=> o = h)
  <2> DEFINE e == m + 1 + o
  <2>1. e \in 1..(2 * MatBytes - 1) /\ p + o = first + b * MatBytes + e
    BY <1>1 DEF After
  <2>2. p + o >= first
    BY <1>1, <2>1
  <2> HIDE DEF e
  <2>3. CASE e < MatBytes
    <3>1. e \in 0..(MatBytes - 1)
      BY <1>1, <2>1, <2>3
    <3>2. Unit(first + b * MatBytes + e) = [burst |-> b, place |-> e]
      BY <3>1, UnitAt
    <3>3. Unit(p + o).place = e
      BY <2>1, <3>2
    <3> QED
      BY <1>1, <2>1, <2>2, <2>3, <3>3 DEF e
  <2>4. CASE e >= MatBytes
    <3> DEFINE d == e - MatBytes
    <3>1. d \in 0..(MatBytes - 1) /\ b + 1 \in Nat
      BY <1>1, <2>1, <2>4
    <3>2. (b + 1) * MatBytes = b * MatBytes + MatBytes
      BY <1>1
    <3>3. p + o = first + (b + 1) * MatBytes + d
      BY <1>1, <2>1, <3>2
    <3> HIDE DEF d
    <3>4. Unit(first + (b + 1) * MatBytes + d) = [burst |-> b + 1, place |-> d]
      BY <3>1, UnitAt
    <3>5. Unit(p + o).place = d
      BY <3>3, <3>4
    <3> QED
      BY <1>1, <2>2, <3>5 DEF d, e
  <2> QED
    BY <1>1, <2>1, <2>3, <2>4
<1>3. ASSUME NEW o PROVE o \in Headers(p, n) <=> h < n /\ o = h
  <2>1. h < n /\ o = h => o \in 0..(n - 1)
    BY <1>1
  <2>2. o \in Headers(p, n) <=> o \in 0..(n - 1) /\ p + o >= first /\ Unit(p + o).place = 0
    BY DEF Headers
  <2>3. o \in 0..(n - 1) /\ o = h => h < n
    BY <1>1
  <2> QED
    BY <1>2, <2>1, <2>2, <2>3
<1> QED
  BY <1>3

\* What a block does, without and with a header in it
LEMMA SpacedStep ==
  ASSUME NEW n \in 1..MatBytes, aml_decoder_process(n),
         NEW fill, fill = Filled(n), Headers(pos + fill, n - fill) = {}
  PROVE  /\ pos' = pos + n /\ first' = first
         /\ raw_deficiency' = raw_deficiency - fill
         /\ burst_payload_size' = burst_payload_size
         /\ last_consumed_bytes' = last_consumed_bytes + n
         /\ Decode(inbuf \o Units(pos, fill), burst_payload_size)
BY DEF aml_decoder_process, Spaced

LEMMA UnpackedStep ==
  ASSUME NEW n \in 1..MatBytes, aml_decoder_process(n),
         NEW fill, fill = Filled(n), NEW o, Headers(pos + fill, n - fill) = {o},
         NEW valid, valid = Lesser(Payload, n - fill - (o + 1))
  PROVE  LET new == Units(pos + fill + o + 1, valid) IN
         /\ pos' = pos + n /\ first' = first /\ pos + n <= first + MaxBursts * MatBytes
         /\ raw_deficiency' = Payload - valid
         /\ burst_payload_size' = Payload
         /\ last_consumed_bytes' = n - fill - o
         /\ Decode(IF last_consumed_bytes + fill + o = MatBytes
                   THEN (inbuf \o Units(pos, fill)) \o new ELSE new, Payload)
<1>1. (CHOOSE x \in {o} : TRUE) = o
  OBVIOUS
<1> QED
  BY <1>1 DEF aml_decoder_process, Unpacked

\* What the state is when k units of burst c were read
LEMMA SyncedNext ==
  ASSUME NEW c \in Nat, NEW k \in 1..MatBytes, NEW m, m = Lesser(Payload, k - 1),
         pos' = first' + c * MatBytes + k, last_consumed_bytes' = k,
         burst_payload_size' = Payload, raw_deficiency' = Payload - m,
         IF k <= Payload THEN decoded' = Whole(c) /\ inbuf' = Part(c, m)
                         ELSE decoded' = Whole(c + 1) /\ inbuf' = <<>>
  PROVE  Synced(c, k)'
<1>1. Payload \in Nat \ {0} /\ MatBytes \in Nat
  BY BurstAssumption
<1>2. CASE k <= Payload
  <2>1. m = k - 1 /\ raw_deficiency' = Payload + 1 - k
    BY <1>1, <1>2 DEF Lesser
  <2>2. inbuf' = Part(c, k - 1) /\ decoded' = Whole(c)
    BY <1>2, <2>1
  <2> QED
    BY <1>2, <2>1, <2>2 DEF Synced, Whole, Part, Frame
<1>3. CASE k > Payload
  <2>1. m = Payload /\ raw_deficiency' = 0
    BY <1>1, <1>3 DEF Lesser
  <2>2. inbuf' = <<>> /\ decoded' = Whole(c + 1)
    BY <1>1, <1>3
  <2> QED
    BY <1>3, <2>1, <2>2 DEF Synced, Whole, Frame
<1> QED
  BY <1>1, <1>2, <1>3

\* The counters stay counters.
LEMMA SyncedType ==
  ASSUME DecoderInv, NEW n \in 1..MatBytes, aml_decoder_process(n),
         NEW b \in Nat, NEW k \in 1..MatBytes, Synced(b, k)'
  PROVE  first' \in Nat /\ pos' \in Nat /\ last_consumed_bytes' \in Nat
BY BurstAssumption DEF DecoderInv, Synced, aml_decoder_process

\* The first header is read.
LEMMA BeginsBurst ==
  ASSUME DecoderInv, Unsynced, NEW n \in 1..MatBytes, aml_decoder_process(n), first < pos + n
  PROVE  \E k \in 1..MatBytes : Synced(0, k)'
<1>1. MatBytes \in Nat \ {0} /\ Payload \in 1..(MatBytes - 1)
  BY BurstAssumption
<1>2. PICK k \in 1..MatBytes :
        first \in Nat /\ pos \in Nat /\ pos <= first /\ k = pos + n - first
  BY <1>1 DEF DecoderInv, Unsynced
<1> DEFINE o == first - pos
<1> DEFINE m == Lesser(Payload, k - 1)
<1>3. m \in 0..Payload /\ m < MatBytes /\ (m < Payload <=> k <= Payload)
  BY <1>1, <1>2 DEF Lesser
<1>4. 0 = Filled(n)
  BY <1>1 DEF Filled, Lesser, Unsynced
<1>5. Headers(pos + 0, n - 0) = {o}
  BY <1>2, FirstHeader
<1>6. m = Lesser(Payload, n - 0 - (o + 1))
  <2>1. n - 0 - (o + 1) = k - 1
    BY <1>1, <1>2
  <2> QED
    BY <2>1
<1>7. Units(pos + 0 + o + 1, m) = Part(0, m)
  <2>1. After(pos + 0 + o + 1, 0, 0) /\ m \in Nat /\ 0 \in Nat
    BY <1>1, <1>2, <1>3 DEF After
  <2> HIDE DEF m, o
  <2> QED
    BY <1>2, <1>3, <2>1, UnitsFromHeader
<1> HIDE DEF o, m
<1>8. /\ pos' = pos + n /\ first' = first
      /\ raw_deficiency' = Payload - m /\ burst_payload_size' = Payload
      /\ last_consumed_bytes' = n - 0 - o
      /\ Decode(IF last_consumed_bytes + 0 + o = MatBytes
                THEN (inbuf \o Units(pos, 0)) \o Units(pos + 0 + o + 1, m)
                ELSE Units(pos + 0 + o + 1, m), Payload)
  BY <1>4, <1>5, <1>6, UnpackedStep
<1>9. (inbuf \o Units(pos, 0)) \o Part(0, m) = Part(0, m)
  <2>1. inbuf \o Units(pos, 0) = <<>>
    BY NoUnits DEF Unsynced
  <2>2. Part(0, m) \in Seq(Cells)
    <3>1. m \in Nat
      BY <1>1, <1>3
    <3> QED
      BY <3>1, PartType
  <2> QED
    BY <2>1, <2>2, ConcatEmptySeq
<1>10. Decode(Part(0, m), Payload)
  BY <1>7, <1>8, <1>9
<1>11. decoded = Whole(0)
  BY NoPart DEF Unsynced
<1>12. IF m < Payload THEN decoded' = Whole(0) /\ inbuf' = Part(0, m)
                      ELSE decoded' = Whole(0 + 1) /\ inbuf' = <<>>
  BY <1>3, <1>10, <1>11, DecodePart
<1>13. pos' = first' + k /\ last_consumed_bytes' = k
  BY <1>1, <1>2, <1>8 DEF o
<1>14. m = Lesser(Payload, k - 1)
  BY DEF m
<1>15. Synced(0, k)'
  <2> DEFINE c == 0
  <2>1. c \in Nat /\ pos' = first' + c * MatBytes + k
    BY <1>1, <1>2, <1>8, <1>13
  <2>2. IF k <= Payload THEN decoded' = Whole(c) /\ inbuf' = Part(c, m)
                        ELSE decoded' = Whole(c + 1) /\ inbuf' = <<>>
    BY <1>3, <1>12
  <2> HIDE DEF c
  <2>3. Synced(c, k)'
    BY <1>8, <1>13, <1>14, <2>1, <2>2, SyncedNext
  <2> QED
    BY <2>3 DEF c
<1> QED
  BY <1>15

\* The payload of the burst at hand goes on.
LEMMA GoesOnInBurst ==
  ASSUME DecoderInv, NEW b \in 0..(MaxBursts - 1), NEW k \in 1..MatBytes, Synced(b, k),
         NEW n \in 1..MatBytes, aml_decoder_process(n), n <= MatBytes - k
  PROVE  Synced(b, k + n)' /\ k + n \in 1..MatBytes
<1> DEFINE fill == Filled(n)
<1> DEFINE m == Lesser(Payload, k + n - 1)
<1>1. /\ MatBytes \in Nat \ {0} /\ Payload \in 1..(MatBytes - 1) /\ MaxBursts \in Nat
      /\ b * MatBytes \in Nat /\ b \in Nat /\ b + 1 \in Nat
  BY BurstAssumption
<1>2. first \in Nat /\ k + n \in 1..MatBytes
  BY <1>1 DEF DecoderInv
<1>3. /\ fill \in 0..n /\ fill <= MatBytes - k
      /\ k <= Payload => fill = m - (k - 1) /\ k - 1 <= m
      /\ k > Payload => fill = 0 /\ m = Payload
  BY <1>1, <1>2 DEF Filled, Lesser, Synced
<1>4. m \in 0..Payload /\ m < MatBytes /\ (m < Payload <=> k + n <= Payload)
  BY <1>1, <1>2 DEF Lesser
<1>5. m = Lesser(Payload, k + n - 1)
  OBVIOUS
<1>6. fill = Filled(n)
  OBVIOUS
<1> HIDE DEF fill, m
<1>7. pos + fill = first + b * MatBytes + k + fill
  BY <1>1, <1>2, <1>3 DEF Synced
<1>8. Headers(pos + fill, n - fill) = {}
  <2> DEFINE p == pos + fill
  <2> DEFINE r == n - fill
  <2> DEFINE d == k + fill - 1
  <2> DEFINE h == MatBytes - k - fill
  <2>1. /\ After(p, b, d) /\ d \in 0..(MatBytes - 1)
        /\ r \in Nat /\ h \in Nat /\ d + r < 2 * MatBytes /\ d + 1 + h = MatBytes
        /\ (h < r <=> MatBytes - k < n)
    BY <1>1, <1>2, <1>3, <1>7 DEF After
  <2> HIDE DEF p, r, d, h
  <2>2. Headers(p, r) = IF h < r THEN {h} ELSE {}
    BY <1>1, <1>2, <2>1, NextHeader
  <2> QED
    BY <1>1, <2>1, <2>2 DEF p, r
<1>9. /\ pos' = pos + n /\ first' = first /\ raw_deficiency' = raw_deficiency - fill
      /\ burst_payload_size' = burst_payload_size
      /\ last_consumed_bytes' = last_consumed_bytes + n
      /\ Decode(inbuf \o Units(pos, fill), burst_payload_size)
  BY <1>6, <1>8, SpacedStep
<1>10. /\ pos' = first' + b * MatBytes + (k + n) /\ last_consumed_bytes' = k + n
       /\ burst_payload_size' = Payload /\ raw_deficiency' = Payload - m
  BY <1>1, <1>2, <1>3, <1>4, <1>9 DEF Synced
<1>11. IF k + n <= Payload THEN decoded' = Whole(b) /\ inbuf' = Part(b, m)
                           ELSE decoded' = Whole(b + 1) /\ inbuf' = <<>>
  <2>1. CASE k <= Payload
    <3>1. inbuf = Part(b, k - 1) /\ decoded = Whole(b)
      BY <1>1, <2>1 DEF Synced
    <3> DEFINE g == k - 1
    <3>2. /\ g \in Nat /\ fill \in Nat /\ m \in Nat /\ m < MatBytes
          /\ g + fill <= m /\ m <= g + fill
          /\ After(pos, b, g) /\ first \in Nat /\ b \in Nat
      BY <1>1, <1>2, <1>3, <1>4, <2>1 DEF Synced, After
    <3> HIDE DEF g
    <3>3. Makes(Part(b, g), Units(pos, fill), Part(b, m))
      BY <3>2, PartRead
    <3>5. Decode(Part(b, m), Payload)
      BY <1>9, <3>1, <3>3 DEF Synced, Makes, g
    <3>6. IF m < Payload THEN decoded' = Whole(b) /\ inbuf' = Part(b, m)
                         ELSE decoded' = Whole(b + 1) /\ inbuf' = <<>>
      BY <1>1, <1>4, <3>1, <3>5, DecodePart
    <3> QED
      BY <1>4, <3>6
  <2>2. CASE k > Payload
    <3>1. inbuf = <<>> /\ decoded = Whole(b + 1)
      BY <1>1, <2>2 DEF Synced
    <3>2. inbuf \o Units(pos, fill) = <<>>
      BY <1>3, <2>2, <3>1, NoUnits
    <3>3. Decode(Part(b + 1, 0), Payload)
      BY <1>9, <3>2, NoPart DEF Synced
    <3>4. 0 \in 0..Payload /\ 0 < Payload
      BY <1>1
    <3>5. decoded' = Whole(b + 1) /\ inbuf' = Part(b + 1, 0)
      BY <1>1, <3>1, <3>3, <3>4, DecodePart
    <3>6. ~(k + n <= Payload)
      BY <1>1, <2>2
    <3> QED
      BY <3>5, <3>6, NoPart
  <2> QED
    BY <1>1, <2>1, <2>2
<1>12. Synced(b, k + n)'
  BY <1>1, <1>2, <1>5, <1>10, <1>11, SyncedNext
<1> QED
  BY <1>2, <1>12

\* The next header is read: what was gathered is a whole payload, and is kept.
LEMMA BeginsNextBurst ==
  ASSUME DecoderInv, NEW b \in 0..(MaxBursts - 1), NEW k \in 1..MatBytes, Synced(b, k),
         NEW n \in 1..MatBytes, aml_decoder_process(n), n > MatBytes - k
  PROVE  b + 1 \in 0..(MaxBursts - 1) /\ \E j \in 1..MatBytes : Synced(b + 1, j)'
<1> DEFINE fill == Filled(n)
<1> DEFINE o == MatBytes - k - fill
<1> DEFINE j == n - (MatBytes - k)
<1> DEFINE m == Lesser(Payload, j - 1)
<1>1. /\ MatBytes \in Nat \ {0} /\ Payload \in 1..(MatBytes - 1) /\ MaxBursts \in Nat
      /\ b * MatBytes \in Nat /\ b \in Nat /\ b + 1 \in Nat
      /\ (b + 1) * MatBytes = b * MatBytes + MatBytes
  BY BurstAssumption
<1>2. first \in Nat /\ j \in 1..MatBytes
  BY <1>1 DEF DecoderInv
<1>3. /\ fill \in 0..n /\ fill <= MatBytes - k
      /\ k <= Payload => fill = Payload + 1 - k
      /\ k > Payload => fill = 0
  BY <1>1, <1>2 DEF Filled, Lesser, Synced
<1>4. m \in 0..Payload /\ m < MatBytes /\ (m < Payload <=> j <= Payload)
  BY <1>1, <1>2 DEF Lesser
<1>5. m = Lesser(Payload, j - 1) /\ fill = Filled(n) /\ j = n - (MatBytes - k)
  OBVIOUS
<1>6. o = MatBytes - k - fill
  OBVIOUS
<1> HIDE DEF fill, m, o, j
<1>7. pos + fill = first + b * MatBytes + k + fill
  BY <1>1, <1>2, <1>3 DEF Synced
<1>8. Headers(pos + fill, n - fill) = {o}
  <2> DEFINE p == pos + fill
  <2> DEFINE r == n - fill
  <2> DEFINE d == k + fill - 1
  <2> DEFINE h == MatBytes - k - fill
  <2>1. /\ After(p, b, d) /\ d \in 0..(MatBytes - 1)
        /\ r \in Nat /\ h \in Nat /\ d + r < 2 * MatBytes /\ d + 1 + h = MatBytes
        /\ (h < r <=> MatBytes - k < n)
    BY <1>1, <1>2, <1>3, <1>7 DEF After
  <2> HIDE DEF p, r, d, h
  <2>2. Headers(p, r) = IF h < r THEN {h} ELSE {}
    BY <1>1, <1>2, <2>1, NextHeader
  <2> QED
    BY <1>1, <1>6, <2>1, <2>2 DEF p, r, h
<1>9. m = Lesser(Payload, n - fill - (o + 1))
  <2>1. n - fill - (o + 1) = j - 1
    BY <1>1, <1>3, <1>5, <1>6
  <2> QED
    BY <1>5, <2>1
<1>10. /\ pos' = pos + n /\ first' = first /\ pos + n <= first + MaxBursts * MatBytes
       /\ raw_deficiency' = Payload - m /\ burst_payload_size' = Payload
       /\ last_consumed_bytes' = n - fill - o
       /\ Decode(IF last_consumed_bytes + fill + o = MatBytes
                 THEN (inbuf \o Units(pos, fill)) \o Units(pos + fill + o + 1, m)
                 ELSE Units(pos + fill + o + 1, m), Payload)
  BY <1>5, <1>8, <1>9, UnpackedStep
<1>11. pos' = first' + (b + 1) * MatBytes + j /\ last_consumed_bytes' = j
  BY <1>1, <1>2, <1>3, <1>5, <1>6, <1>10 DEF Synced
<1>12. b + 1 < MaxBursts
  <2>1. pos + n > first + (b + 1) * MatBytes
    BY <1>1, <1>2 DEF Synced
  <2>2. (b + 1) * MatBytes < MaxBursts * MatBytes
    BY <1>1, <1>2, <1>10, <2>1 DEF DecoderInv
  <2>3. ~(MaxBursts < b + 1)
    BY <1>1, <2>2, Multiples
  <2>4. MaxBursts # b + 1
    BY <1>1, <2>2
  <2> QED
    BY <1>1, <2>3, <2>4
<1>13. Units(pos + fill + o + 1, m) = Part(b + 1, m)
  <2>1. After(pos + fill + o + 1, b + 1, 0) /\ m \in Nat
    BY <1>1, <1>2, <1>3, <1>4, <1>6 DEF Synced, After
  <2> QED
    BY <1>1, <1>2, <1>4, <2>1, UnitsFromHeader
<1>14. last_consumed_bytes + fill + o = MatBytes
  BY <1>1, <1>3, <1>6 DEF Synced
<1>15. Decode((inbuf \o Units(pos, fill)) \o Part(b + 1, m), Payload)
  BY <1>10, <1>13, <1>14
<1>16. IF j <= Payload THEN decoded' = Whole(b + 1) /\ inbuf' = Part(b + 1, m)
                       ELSE decoded' = Whole((b + 1) + 1) /\ inbuf' = <<>>
  <2>1. CASE k <= Payload
    <3>1. inbuf = Part(b, k - 1) /\ decoded = Whole(b)
      BY <1>1, <2>1 DEF Synced
    <3> DEFINE g == k - 1
    <3>2. /\ g \in Nat /\ fill \in Nat /\ Payload \in Nat /\ Payload < MatBytes
          /\ g + fill <= Payload /\ Payload <= g + fill
          /\ After(pos, b, g) /\ first \in Nat /\ b \in Nat
      BY <1>1, <1>2, <1>3, <2>1 DEF Synced, After
    <3> HIDE DEF g
    <3>3. Makes(Part(b, g), Units(pos, fill), Part(b, Payload))
      BY <3>2, PartRead
    <3>5. Decode(Part(b, Payload) \o Part(b + 1, m), Payload)
      BY <1>15, <3>1, <3>3 DEF Makes, g
    <3>6. IF m < Payload THEN decoded' = Whole(b + 1) /\ inbuf' = Part(b + 1, m)
                         ELSE decoded' = Whole(b + 2) /\ inbuf' = <<>>
      BY <1>1, <1>4, <3>1, <3>5, DecodeNext
    <3>7. b + 2 = (b + 1) + 1
      BY <1>1
    <3> QED
      BY <1>4, <3>6, <3>7
  <2>2. CASE k > Payload
    <3>1. inbuf = <<>> /\ decoded = Whole(b + 1)
      BY <1>1, <2>2 DEF Synced
    <3>2. inbuf \o Units(pos, fill) = <<>>
      BY <1>3, <2>2, <3>1, NoUnits
    <3>3. Part(b + 1, m) \in Seq(Cells)
      <4>1. m \in Nat /\ b + 1 \in Nat
        BY <1>1, <1>4
      <4> QED
        BY <4>1, PartType
    <3>4. Decode(Part(b + 1, m), Payload)
      BY <1>15, <3>2, <3>3, ConcatEmptySeq
    <3>5. IF m < Payload THEN decoded' = Whole(b + 1) /\ inbuf' = Part(b + 1, m)
                         ELSE decoded' = Whole((b + 1) + 1) /\ inbuf' = <<>>
      BY <1>1, <1>4, <3>1, <3>4, DecodePart
    <3> QED
      BY <1>4, <3>5
  <2> QED
    BY <1>1, <2>1, <2>2
<1>17. Synced(b + 1, j)'
  BY <1>1, <1>2, <1>5, <1>10, <1>11, <1>16, SyncedNext
<1> QED
  BY <1>1, <1>2, <1>12, <1>17

\* Every step keeps the invariant.
LEMMA DecoderStep == ASSUME DecoderInv, [DecoderNext]_decvars PROVE DecoderInv'
<1>1. MatBytes \in Nat \ {0} /\ MaxBursts \in Nat \ {0}
  BY BurstAssumption
<1>2. CASE DecoderStart
  <2>1. Unsynced
    <3>1. ASSUME NEW b \in 0..(MaxBursts - 1), NEW k \in 1..MatBytes, Synced(b, k) PROVE FALSE
      <4>1. b * MatBytes \in Nat
        BY <1>1
      <4> QED
        BY <1>1, <1>2, <3>1, <4>1 DEF Synced, DecoderStart
    <3> QED
      BY <3>1 DEF DecoderInv
  <2>2. first' \in Nat /\ first' >= 0
    BY <1>1, <1>2 DEF DecoderStart
  <2> QED
    BY <1>2, <2>1, <2>2 DEF DecoderInv, Unsynced, DecoderStart
<1>3. ASSUME NEW n \in 1..MatBytes, aml_decoder_process(n) PROVE DecoderInv'
  <2>1. CASE Unsynced /\ first >= pos + n
    <3>1. first \in Nat /\ pos \in Nat /\ last_consumed_bytes \in Nat
      BY DEF DecoderInv
    <3>2. 0 = Filled(n)
      BY <1>1, <2>1 DEF Filled, Lesser, Unsynced
    <3>3. Headers(pos + 0, n - 0) = {}
      BY <1>1, <2>1, <3>1, FirstHeader DEF Unsynced
    <3>4. /\ pos' = pos + n /\ first' = first /\ raw_deficiency' = raw_deficiency - 0
          /\ burst_payload_size' = burst_payload_size
          /\ last_consumed_bytes' = last_consumed_bytes + n
          /\ Decode(inbuf \o Units(pos, 0), burst_payload_size)
      BY <1>3, <3>2, <3>3, SpacedStep
    <3>5. inbuf \o Units(pos, 0) = <<>>
      BY <2>1, NoUnits DEF Unsynced
    <3>6. Decode(<<>>, 0)
      BY <2>1, <3>4, <3>5 DEF Unsynced
    <3>7. inbuf' = <<>> /\ decoded' = <<>>
      BY <2>1, <3>6 DEF Decode, Unsynced
    <3> QED
      BY <1>1, <2>1, <3>1, <3>4, <3>7 DEF DecoderInv, Unsynced
  <2>2. CASE Unsynced /\ first < pos + n
    <3>1. PICK k \in 1..MatBytes : Synced(0, k)'
      BY <1>3, <2>2, BeginsBurst
    <3>2. 0 \in 0..(MaxBursts - 1)
      BY <1>1
    <3> QED
      BY <1>1, <1>3, <3>1, <3>2, SyncedType DEF DecoderInv
  <2>3. ASSUME NEW b \in 0..(MaxBursts - 1), NEW k \in 1..MatBytes, Synced(b, k)
        PROVE  DecoderInv'
    <3>1. CASE n <= MatBytes - k
      <4>1. Synced(b, k + n)' /\ k + n \in 1..MatBytes
        BY <1>3, <2>3, <3>1, GoesOnInBurst
      <4> QED
        BY <1>3, <4>1, SyncedType DEF DecoderInv
    <3>2. CASE n > MatBytes - k
      <4>1. b + 1 \in 0..(MaxBursts - 1) /\ \E j \in 1..MatBytes : Synced(b + 1, j)'
        BY <1>3, <2>3, <3>2, BeginsNextBurst
      <4> QED
        BY <1>3, <4>1, SyncedType DEF DecoderInv
    <3> QED
      BY <1>1, <3>1, <3>2
  <2> QED
    BY <1>1, <2>1, <2>2, <2>3 DEF DecoderInv
<1>4. CASE UNCHANGED decvars
  BY <1>4 DEF decvars, DecoderInv, Unsynced, Synced, Whole, Part, Frame
<1> QED
  BY <1>2, <1>3, <1>4 DEF DecoderNext

\* The bursts whose payload was read to its end are the first ones.
LEMMA CompleteIs ==
  ASSUME first \in Nat, pos \in Nat, NEW c \in 0..MaxBursts,
         \A b \in 0..(MaxBursts - 1) : first + b * MatBytes + Payload < pos <=> b < c
  PROVE  Complete = c
<1>1. {b \in 0..(MaxBursts - 1) : first + b * MatBytes + Payload < pos} = 0..(c - 1)
  <2> DEFINE wholly(b) == first + b * MatBytes + Payload < pos
  <2>1. \A b \in 0..(MaxBursts - 1) : wholly(b) <=> b < c
    OBVIOUS
  <2> HIDE DEF wholly
  <2>2. {b \in 0..(MaxBursts - 1) : wholly(b)} = 0..(c - 1)
    BY <2>1, BurstAssumption
  <2> QED
    BY <2>2 DEF wholly
<1>2. Cardinality(0..(c - 1)) = c
  <2>1. 0 \in Int /\ c - 1 \in Int
    BY BurstAssumption
  <2>2. Cardinality(0..(c - 1)) = IF 0 > c - 1 THEN 0 ELSE (c - 1) - 0 + 1
    BY <2>1, FS_Interval
  <2> QED
    BY <2>2, BurstAssumption
<1> QED
  BY <1>1, <1>2 DEF Complete

\* The invariant says what the library was given.
LEMMA DecoderInvIsEnough == ASSUME DecoderInv PROVE FramesAreWhole
<1>1. MatBytes \in Nat \ {0} /\ MaxBursts \in Nat \ {0} /\ Payload \in 1..(MatBytes - 1)
  BY BurstAssumption
<1>2. first \in Nat /\ pos \in Nat
  BY DEF DecoderInv
<1>3. CASE Unsynced
  <2>1. ASSUME NEW b \in 0..(MaxBursts - 1)
        PROVE  ~(first + b * MatBytes + Payload < pos) /\ ~(b < 0)
    <3>1. b * MatBytes \in Nat
      BY <1>1
    <3> QED
      BY <1>1, <1>2, <1>3, <3>1 DEF Unsynced
  <2>2. 0 \in 0..MaxBursts
    BY <1>1
  <2>3. Complete = 0
    BY <1>2, <2>1, <2>2, CompleteIs
  <2> QED
    BY <1>3, <2>3 DEF FramesAreWhole, Unsynced
<1>4. ASSUME NEW b \in 0..(MaxBursts - 1), NEW k \in 1..MatBytes, Synced(b, k)
      PROVE  FramesAreWhole
  <2>1. PICK c \in 0..MaxBursts : c = IF k <= Payload THEN b ELSE b + 1
    BY <1>1
  <2>2. ASSUME NEW d \in 0..(MaxBursts - 1)
        PROVE  first + d * MatBytes + Payload < pos <=> d < c
    <3>1. /\ d * MatBytes \in Int /\ b * MatBytes \in Int
          /\ d < b => d * MatBytes + MatBytes <= b * MatBytes
          /\ b < d => b * MatBytes + MatBytes <= d * MatBytes
      BY <1>1, Multiples
    <3>2. pos = first + b * MatBytes + k
      BY <1>4 DEF Synced
    <3>3. CASE d < b
      BY <1>1, <1>2, <2>1, <3>1, <3>2, <3>3
    <3>4. CASE d = b
      BY <1>1, <1>2, <2>1, <3>1, <3>2, <3>4
    <3>5. CASE b < d
      BY <1>1, <1>2, <2>1, <3>1, <3>2, <3>5
    <3> QED
      BY <1>1, <3>3, <3>4, <3>5
  <2>3. Complete = c
    BY <1>2, <2>2, CompleteIs
  <2>4. decoded = Whole(c)
    BY <1>1, <1>4, <2>1 DEF Synced
  <2> QED
    BY <2>3, <2>4 DEF FramesAreWhole, Whole
<1> QED
  BY <1>3, <1>4 DEF DecoderInv

-----------------------------------------------------------------------------

\* What the decoder keeps between two calls is determined by where in a burst the input is.
THEOREM DecoderCorrect == DecoderSpec => []DecoderInv
<1>1. DecoderInit => DecoderInv
  BY DEF DecoderInit, DecoderInv, Unsynced
<1>2. DecoderInv /\ [DecoderNext]_decvars => DecoderInv'
  BY DecoderStep
<1> QED
  BY <1>1, <1>2, PTL DEF DecoderSpec

\* Wherever the input begins and however it is cut into blocks, aml_decoder_process
\* hands over the payload of every burst whose end was read, whole, in order, and
\* nothing else, for every length of a burst and of its payload.
THEOREM FramesStayWhole == DecoderSpec => []FramesAreWhole
<1>1. DecoderInv => FramesAreWhole
  BY DecoderInvIsEnough
<1> QED
  BY <1>1, DecoderCorrect, PTL
=============================================================================
