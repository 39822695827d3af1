---------------------------- MODULE FrameDecoders -----------------------------
(***************************************************************************)
(* How the Dolby and the DTS decoder cut their input into frames:          *)
(* dcv_decoder_process_patch (aml_dcv_dec_api.c) and                       *)
(* dca_decoder_process_patch (aml_dca_dec_api.c), both under               *)
(* src/src/audio_hal.  Both gather blocks in inbuf and give the library at *)
(* most one frame a call, from the raw stream or from IEC 61937 bursts.    *)
(*                                                                         *)
(* The unit is two bytes; blocks are frames of two such samples.  What a   *)
(* library makes of a frame is left out, and how much it takes of one is   *)
(* its choice, but no more than it was handed.                             *)
(***************************************************************************)
EXTENDS Integers, Sequences, SequencesExt, FiniteSetsExt

CONSTANTS
  Modes,         \* inputs: the decoders, and whether the stream is IEC 61937
  FrameSizes,    \* how long a frame may be
  BurstPeriod,   \* from a header to the next one in IEC 61937
  MaxFrames,     \* bound: frames of the stream
  Leads,         \* how many units may come before the first header
  MaxBlock,      \* bound: units of one call
  MinScan,       \* the 16 bytes at which the Dolby scan stops
  Gather,        \* MAX_DECODER_FRAME_LENGTH of the DTS decoder
  HdAppend,      \* IEC_DTS_HD_APPEND_LNGTH
  Refusing       \* whether a frame may come of which nothing is taken: the DTS library
                 \* refuses it, or a burst for the Dolby decoder has no payload

IecHead == 4     \* IEC61937_HEADER_LENGTH
IecPd == 3       \* IEC61937_PD_OFFSET

ASSUME FrameAssumption ==
  /\ Modes \subseteq [lib : {"dcv", "dca"}, iec : BOOLEAN]
  /\ FrameSizes # {} /\ FrameSizes \subseteq Nat \ {0} /\ BurstPeriod \in Nat
  /\ \A s \in FrameSizes : IecHead + HdAppend + s <= BurstPeriod
  /\ MaxFrames \in Nat /\ Leads \subseteq Nat /\ MaxBlock \in Nat
  /\ MinScan \in Nat /\ HdAppend \in Nat /\ Gather \in Nat /\ 2 * IecHead <= Gather
  /\ Refusing \in BOOLEAN

VARIABLES
  frame_mode,          \* input: the decoder, aml_dec->is_iec61937
  frame_sizes, frame_types,  \* input: of the frames and bursts
  stream,        \* input: its units
  frame_begins,  \* input: where in the stream the frames, or their bursts, begin
  frame_pos,     \* units of the stream that were read
  frame_inbuf,   \* inbuf, as long as remain_size says
  frame_remain,  \* remain_size
  given          \* the frames that were handed to the library, of raw DTS what it took

inputvars == <<frame_mode, frame_sizes, frame_types, frame_begins, stream>>
framevars == <<inputvars, frame_pos, frame_inbuf, frame_remain, given>>

Cell(f, p) == [frame |-> f, place |-> p]
Junk == Cell(0, 0)
Junks(n) == [i \in 1..n |-> Junk]

\* DTS-HD has a header of its own behind that of the burst, and "error" is one with a
\* bad header; "empty" has the length 0, and the decoder does not know "other"
Carrying == {"core", "hd"}
Extra(t) == IF t \in {"hd", "error"} THEN HdAppend ELSE 0

\* The units a frame takes in a stream: places count from the payload, so that the
\* header of a burst ends at 0, and that of DTS-HD lies between the two
RawFrame(f, size) == [i \in 1..size |-> Cell(f, i)]
BurstOf(f, size, t) ==
  [i \in 1..BurstPeriod |->
    IF i <= IecHead + Extra(t) + size THEN Cell(f, i - IecHead - Extra(t)) ELSE Junk]

\* Where the payload of the frame at hand begins, after the first header
ExtraHeader(f) == Extra(frame_types[f])
HeaderPlace(f) == 1 - IecHead - ExtraHeader(f)

FrameTypes(mode) ==
  IF ~mode.iec THEN {"core"}
  ELSE IF mode.lib = "dca" THEN {"core", "hd", "error", "empty", "other"}
  ELSE IF Refusing THEN {"core", "empty", "other"} ELSE {"core", "other"}

FrameInit ==
  /\ frame_mode = [lib |-> "none", iec |-> FALSE]
  /\ frame_sizes = <<>> /\ frame_types = <<>> /\ stream = <<>> /\ frame_begins = <<>>
  /\ frame_pos = 0 /\ frame_inbuf = <<>> /\ frame_remain = 0 /\ given = <<>>

\* The input is chosen first: what lies before the first frame, then frame by frame
FrameStart ==
  /\ frame_mode.lib = "none"
  /\ frame_mode' \in Modes
  /\ \E lead \in Leads : stream' = Junks(lead)
  /\ UNCHANGED <<frame_sizes, frame_types, frame_begins, frame_pos, frame_inbuf, frame_remain, given>>

FrameComes(size, t) ==
  LET f == Len(frame_sizes) + 1 IN
  /\ frame_mode.lib # "none" /\ f <= MaxFrames
  /\ frame_sizes' = Append(frame_sizes, size) /\ frame_types' = Append(frame_types, t)
  /\ frame_begins' = Append(frame_begins, Len(stream) + 1)
  /\ stream' = stream \o (IF frame_mode.iec THEN BurstOf(f, size, t) ELSE RawFrame(f, size))
  /\ UNCHANGED <<frame_mode, frame_pos, frame_inbuf, frame_remain, given>>

-----------------------------------------------------------------------------
\* The sync words of frames and of bursts.  The Dolby scan passes by a burst that it
\* does not know.
AtFrame(c) == c.frame > 0 /\ c.place = 1
AtBurst(c) == c.frame > 0 /\ c.place = HeaderPlace(c.frame)
KnownFrame(c) == frame_types[c.frame] \in Carrying
IsHeader(c) ==
  IF frame_mode.iec
  THEN AtBurst(c) /\ (frame_mode.lib = "dcv" => frame_types[c.frame] # "other")
  ELSE AtFrame(c)

\* n units from the i-th on; what is not there is whatever the buffer held before
UnitsFrom(buf, i, n) == [k \in 1..n |-> IF i + k - 1 <= Len(buf) THEN buf[i + k - 1] ELSE Junk]
Remaining(buf, i) == SubSeq(buf, i, Len(buf))

\* Where a scan that stops at the last `stop` units finds a header, else where it ends
FoundAt(buf, stop) == {i \in DOMAIN buf : IsHeader(buf[i]) /\ Len(buf) - i + 1 > stop}
ScanEnd(buf, stop) == IF Len(buf) > stop THEN Len(buf) - stop + 1 ELSE 1

KeepInput(buf) == frame_inbuf' = buf /\ frame_remain' = Len(buf) /\ UNCHANGED given

\* Mutant: what the library took stays in the buffer
Consume_keep(buf, i, n, used) ==
  /\ given' = given \o UnitsFrom(buf, i, n)
  /\ frame_remain' = Len(buf) /\ frame_inbuf' = buf

\* Mutant: the rest of the buffer is dropped with the frame
Consume_all(buf, i, n, used) ==
  /\ given' = given \o UnitsFrom(buf, i, n)
  /\ frame_remain' = 0 /\ frame_inbuf' = <<>>

\* The library is handed n units from the i-th; `used` of the buffer are gone
Consume(buf, i, n, used) ==
  /\ given' = given \o UnitsFrom(buf, i, n)
  /\ frame_remain' = Len(buf) - used
  /\ frame_inbuf' = Remaining(buf, used + 1)

\* Nothing is taken of the frame at `at`.  remain_size is less by what was skipped before
\* it and by its header, but nothing moved: the end of the buffer is lost.
LeaveFrame(buf, at, offset) == KeepInput(SubSeq(buf, 1, Len(buf) - (at - 1) - offset))

-----------------------------------------------------------------------------
\* An incomplete frame is kept for the next call.  The frame of a burst counts as
\* complete when the rest is as long as it, with the header counted in.  The library is
\* called until it has taken the whole frame.
dcv_decoder_process_patch(buf) ==
  LET found == FoundAt(buf, MinScan)
      at == Min(found)
      size == frame_sizes[buf[at].frame]
      offset == IF frame_mode.iec THEN IecHead ELSE 0
  IN  IF found = {} THEN KeepInput(Remaining(buf, ScanEnd(buf, MinScan)))
      ELSE IF ~KnownFrame(buf[at]) THEN LeaveFrame(buf, at, offset)
      ELSE IF Len(buf) - at + 1 < size THEN KeepInput(Remaining(buf, at))
      ELSE Consume(buf, at + offset, size, at - 1 + offset + size)

\* A burst that carries nothing is left at its length field or behind its headers
SkippedHeader(f) == IF frame_types[f] = "other" THEN IecPd ELSE IecHead + ExtraHeader(f)

\* Nothing is looked at before Gather units are there.  Without a header the scan
\* moves nothing: the front of the buffer is kept for its end.
dca_decoder_process_patch(buf) ==
  LET found == FoundAt(buf, IecHead)
      at == Min(found)
      f == buf[at].frame
      size == frame_sizes[f]
      offset == IecHead + ExtraHeader(f)
      behind == at + SkippedHeader(f)
  IN  IF Len(buf) < Gather THEN KeepInput(buf)
      ELSE IF ~frame_mode.iec
      THEN \E n \in 0..Len(buf) : Consume(buf, 1, n, n)
      ELSE IF found = {} THEN KeepInput(SubSeq(buf, 1, IecHead))
      ELSE IF ~KnownFrame(buf[at])
      THEN KeepInput(Remaining(buf, IF Len(buf) + 1 < behind THEN at ELSE behind))
      ELSE IF Len(buf) - at + 1 < size + offset THEN KeepInput(Remaining(buf, at))
      ELSE \/ \E taken \in 1..size : Consume(buf, at + offset, size, at - 1 + offset + taken)
           \/ Refusing /\ LeaveFrame(buf, at, offset)

f_process(n) ==
  LET buf == frame_inbuf \o SubSeq(stream, frame_pos + 1, frame_pos + n) IN
  /\ frame_mode.lib # "none" /\ Len(frame_sizes) = MaxFrames
  /\ frame_remain >= 0 /\ frame_pos + n <= Len(stream)
  /\ frame_pos' = frame_pos + n
  /\ \/ frame_mode.lib = "dcv" /\ dcv_decoder_process_patch(buf)
     \/ frame_mode.lib = "dca" /\ dca_decoder_process_patch(buf)
  /\ UNCHANGED inputvars

FrameNext ==
  \/ FrameStart
  \/ \E size \in FrameSizes, t \in FrameTypes(frame_mode) : FrameComes(size, t)
  \/ \E n \in 1..MaxBlock : n % 2 = 0 /\ f_process(n)

FrameSpec == FrameInit /\ [][FrameNext]_framevars

-----------------------------------------------------------------------------
(* What the properties need of the input; the code checks neither. *)

\* No block is longer than what a frame takes in the stream.
BlocksFitFrames ==
  \A mode \in Modes, size \in FrameSizes : MaxBlock <= IF mode.iec THEN BurstPeriod ELSE size

\* What the DTS decoder gathers reaches beyond the header of the next burst, whatever
\* lies before it.
HeadersAreMet ==
  /\ \A lead \in Leads : lead + IecHead < Gather
  /\ BurstPeriod + IecHead <= Gather

-----------------------------------------------------------------------------
(* Properties *)

FrameSize(f) == IF f = 0 THEN 0 ELSE frame_sizes[f]

\* Frame g may come next after frame f: any that carries something
FrameAfter(f, g) == g \in (f + 1)..Len(frame_sizes) /\ frame_types[g] \in Carrying

\* The first frame after f that carries something
NextKnown(f, g) ==
  FrameAfter(f, g) /\ \A h \in (f + 1)..(g - 1) : frame_types[h] \notin Carrying

\* Unit d comes next after unit c: the same frame goes on, or c was its last unit and
\* the next one begins.  What lies before the first frame is a frame 0 of no length.
Continues(c, d) ==
  d.frame = c.frame /\ d.place = c.place + 1 /\ d.place <= FrameSize(d.frame)
Begins(c, d) == c.place = FrameSize(c.frame) /\ d.place = 1
Follows(c, d) == Continues(c, d) \/ (Begins(c, d) /\ NextKnown(c.frame, d.frame))
FollowsLater(c, d) == Continues(c, d) \/ (Begins(c, d) /\ FrameAfter(c.frame, d.frame))

GivenBefore(i) == IF i = 1 THEN Junk ELSE given[i - 1]

\* A raw DTS stream is handed over as it is, with what lies before its first frame
RawLead(i) ==
  ~frame_mode.iec /\ frame_mode.lib = "dca" /\ GivenBefore(i) = Junk /\ given[i] = Junk

\* However the stream is cut into blocks, and whatever the period of its bursts, the
\* libraries are given whole frames, each at most once and in order, and nothing that
\* lies between: a frame that is not complete waits for the next block.
WholeFramesGiven ==
  \A i \in DOMAIN given : FollowsLater(GivenBefore(i), given[i]) \/ RawLead(i)

\* And they are given all of them.  HeadersAreMet is needed: a header that a full inbuf
\* of the DTS decoder holds in its last bytes, where the scan does not look, is dropped
\* with its frame.
FramesInOrder ==
  \A i \in DOMAIN given : Follows(GivenBefore(i), given[i]) \/ RawLead(i)

\* A call gives the library one frame and takes one block.  As no block is longer
\* than what a frame takes in the stream, inbuf stays below what the decoder waits
\* for, a frame and a block: nothing checks that it does.  How much of a raw DTS
\* stream is taken is the library's choice.
InbufBounded ==
  frame_mode.iec \/ frame_mode.lib = "dcv" =>
    frame_remain <= (IF frame_mode.lib = "dca" THEN Gather + HdAppend + IecHead ELSE MinScan)
                    + Max(FrameSizes) + MaxBlock
=============================================================================
