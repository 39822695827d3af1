---------------------------- MODULE DecoderInput ----------------------------
(***************************************************************************)
(* How IEC 61937 bursts become frames of the decoder: aml_decoder_process  *)
(* (src/src/audio_hal/aml_dec_api.c) with the two unpacking functions of   *)
(* audio_format_parse.c and the decoding loop of aml_datmos_api.c, for MAT *)
(* bursts (TrueHD).                                                        *)
(*                                                                         *)
(* The unit is a burst header, eight bytes: blocks are frames of eight     *)
(* channels, so none cuts a header.                                        *)
(***************************************************************************)
EXTENDS Integers, Sequences, FiniteSets

CONSTANTS
  MatBytes,     \* IEC61937_MAT_BYTES: from a header to the next one
  Payload,      \* payload of a burst
  MaxBursts     \* bound: bursts of the input

ASSUME BurstAssumption == /\ MatBytes \in Nat \ {0} /\ MaxBursts \in Nat \ {0}
                          /\ Payload \in 1..(MatBytes - 1)

VARIABLES
  first,              \* input: where the first header is
  pos,                \* input: units given to the decoder
  inbuf,              \* inbuf and inbuf_wt
  raw_deficiency, burst_payload_size, last_consumed_bytes,
  decoded             \* what the library was given, block by block

decvars == <<first, pos, inbuf, raw_deficiency, burst_payload_size,
             last_consumed_bytes, decoded>>

Lesser(a, b) == IF a < b THEN a ELSE b

\* A unit of the input: its burst and its place in it, 0 for the header.
Unit(i) == [burst |-> (i - first) \div MatBytes, place |-> (i - first) % MatBytes]
Units(i, n) == [k \in 1..n |-> Unit(i + k - 1)]

DecoderInit ==
  /\ first = 0 /\ pos = 0 /\ inbuf = <<>>
  /\ raw_deficiency = 0 /\ burst_payload_size = 0 /\ last_consumed_bytes = 0
  /\ decoded = <<>>

\* The input begins anywhere in a burst.
DecoderStart ==
  /\ pos = 0 /\ first = 0
  /\ first' \in 1..(MatBytes - 1)
  /\ UNCHANGED <<pos, inbuf, raw_deficiency, burst_payload_size,
                 last_consumed_bytes, decoded>>

-----------------------------------------------------------------------------

\* Mutant: a payload that is cut once is not filled up from the next block.
Filled_never(n) == 0

\* fill_in_the_remaining_data
Filled(n) == Lesser(raw_deficiency, n)

\* The headers audio_type_parse may find in n units from i, as offsets.
Headers(i, n) == {o \in 0..(n - 1) : i + o >= first /\ Unit(i + o).place = 0}

\* decode_IEC61937_to_raw_data and the accounting around it: n units from i, a
\* header at offset o.  What was gathered is dropped unless the last header is
\* as far away as it must be.
Unpacked(i, n, o, fill) ==
  LET valid == Lesser(Payload, n - (o + 1))
      new   == Units(i + o + 1, valid)
      old   == inbuf \o Units(pos, fill)
  IN  [inbuf |-> IF last_consumed_bytes + fill + o = MatBytes THEN old \o new ELSE new,
       raw_deficiency |-> Payload - valid,
       burst_payload_size |-> Payload,
       last_consumed_bytes |-> n - o]

\* Without a header it is the spacing of the burst.
Spaced(n, fill) ==
  [inbuf |-> inbuf \o Units(pos, fill),
   raw_deficiency |-> raw_deficiency - fill,
   burst_payload_size |-> burst_payload_size,
   last_consumed_bytes |-> last_consumed_bytes + n]

\* datmos_decoder_process_patch: as many payloads as are complete.
Decode(buffer, burst) ==
  LET blocks == IF burst = 0 THEN 0 ELSE Len(buffer) \div burst IN
  /\ decoded' = decoded \o [j \in 1..blocks |-> SubSeq(buffer, (j - 1) * burst + 1, j * burst)]
  /\ inbuf' = SubSeq(buffer, blocks * burst + 1, Len(buffer))

aml_decoder_process(n) ==
  LET fill == Filled(n)
      headers == Headers(pos + fill, n - fill)
      new == IF headers = {} THEN Spaced(n, fill)
             ELSE Unpacked(pos + fill, n - fill, CHOOSE o \in headers : TRUE, fill)
  IN  /\ pos + n <= first + MaxBursts * MatBytes
      /\ Cardinality(headers) <= 1
      /\ pos' = pos + n
      /\ raw_deficiency' = new.raw_deficiency
      /\ burst_payload_size' = new.burst_payload_size
      /\ last_consumed_bytes' = new.last_consumed_bytes
      /\ Decode(new.inbuf, new.burst_payload_size)
      /\ UNCHANGED first

DecoderNext == DecoderStart \/ \E n \in 1..MatBytes : aml_decoder_process(n)

DecoderSpec == DecoderInit /\ [][DecoderNext]_decvars

-----------------------------------------------------------------------------
(* Properties *)

Frame(burst) == [k \in 1..Payload |-> [burst |-> burst, place |-> k]]

\* Bursts whose payload has been given to its end, from the first header on.
Complete == Cardinality({b \in 0..(MaxBursts - 1) : first + b * MatBytes + Payload < pos})

\* However the input is cut into blocks, the library is given the payload of every
\* burst whose end was read, whole, in order, and nothing else.
FramesAreWhole == decoded = [j \in 1..Complete |-> Frame(j - 1)]
=============================================================================
