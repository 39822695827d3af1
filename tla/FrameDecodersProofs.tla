------------------------- MODULE FrameDecodersProofs -------------------------
(***************************************************************************)
(* Proofs about FrameDecoders for every stream, every block and every      *)
(* number of frames: inbuf does not grow, and the frames are given whole,  *)
(* at most once, and, where every header can be met, all in order.         *)
(*                                                                         *)
(* InputInv says how the frames lie in the stream; BufferInv, that a       *)
(* header in inbuf is the one of the stream at that place; DepthInv, that  *)
(* either inbuf is short or the last header that was passed is near: as    *)
(* each call takes a block and passes a frame, it does not fall behind.    *)
(* OrderInv says which frames were passed, and that the next header is not *)
(* behind what inbuf holds; WholeInv, which needs less of the input, that  *)
(* from each header on inbuf holds the stream, and only headers that are   *)
(* behind the frame given last.                                            *)
(***************************************************************************)
EXTENDS FrameDecoders, SequenceTheorems, FiniteSetTheorems, TLAPS

NoMode == [lib |-> "none", iec |-> FALSE]
Cells == [frame : Nat, place : Int]
Arrived == Len(frame_sizes)
BurstTypes == {"core", "hd", "error", "empty", "other"}

\* The first unit of a frame, or of its burst, what it takes in the stream and where
\* in it the payload begins
IsStart(c) == IF frame_mode.iec THEN AtBurst(c) ELSE AtFrame(c)
Units(f) == IF frame_mode.iec THEN BurstPeriod ELSE frame_sizes[f]
Offset(f) == IF frame_mode.iec THEN IecHead + ExtraHeader(f) ELSE 0

InputTypeInv ==
  /\ frame_mode \in Modes \cup {NoMode}
  /\ frame_sizes \in Seq(FrameSizes)
  /\ frame_types \in Seq(BurstTypes)
  /\ frame_begins \in Seq(Nat \ {0})
  /\ stream \in Seq(Cells)
  /\ Len(frame_types) = Arrived /\ Len(frame_begins) = Arrived /\ Arrived <= MaxFrames
  /\ \A f \in 1..Arrived : frame_types[f] \in FrameTypes(frame_mode)
  /\ frame_mode = NoMode => Arrived = 0 /\ stream = <<>>

\* What comes before the first frame
LeadInv ==
  /\ Arrived = 0 => /\ frame_mode # NoMode => Len(stream) \in Leads
                    /\ \A q \in 1..Len(stream) : stream[q] = Junk
  /\ Arrived > 0 => frame_begins[1] - 1 \in Leads

\* The frames lie one behind the other up to the end.
PlacesInv ==
  /\ \A f \in 1..Arrived : frame_begins[f] + Units(f) <= Len(stream) + 1
  /\ Arrived > 0 => frame_begins[Arrived] + Units(Arrived) = Len(stream) + 1
  /\ \A f, g \in 1..Arrived : f < g => frame_begins[f] + Units(f) <= frame_begins[g]
  /\ \A f \in 1..Arrived : f < Arrived => frame_begins[f] + Units(f) = frame_begins[f + 1]

\* Each begins with a header, as nothing else does, and has its payload behind it.
ContentInv ==
  /\ \A f \in 1..Arrived : stream[frame_begins[f]].frame = f /\ IsStart(stream[frame_begins[f]])
  /\ \A q \in 1..Len(stream) :
       /\ stream[q].frame \in 0..Arrived
       /\ IsStart(stream[q]) => frame_begins[stream[q].frame] = q
  /\ \A f \in 1..Arrived : \A i \in 1..frame_sizes[f] :
       stream[frame_begins[f] + Offset(f) + i - 1] = Cell(f, i)

\* In a raw stream nothing lies between the frames.
Comes(c, d) ==
  \/ c = Junk /\ d = Junk
  \/ d.frame \in 1..Arrived /\ Follows(c, d)
Before(s, i) == IF i = 1 THEN Junk ELSE s[i - 1]
RawInv ==
  ~frame_mode.iec => \A q \in 1..Len(stream) : Comes(Before(stream, q), stream[q])

InputInv == InputTypeInv /\ LeadInv /\ PlacesInv /\ ContentInv /\ RawInv

\* Where pos units were read and buf holds the last of them, its headers are those of
\* the stream.
HeadersIn(buf, pos) ==
  \A i \in 1..Len(buf) : IsStart(buf[i]) =>
    /\ buf[i].frame \in 1..Arrived
    /\ frame_begins[buf[i].frame] = pos - Len(buf) + i

BufferInv ==
  /\ frame_pos \in 0..Len(stream) /\ frame_inbuf \in Seq(Cells)
  /\ frame_remain \in Int /\ given \in Seq(Cells)
  /\ Arrived < MaxFrames \/ frame_mode = NoMode =>
       frame_pos = 0 /\ frame_inbuf = <<>> /\ frame_remain = 0 /\ given = <<>>
  /\ frame_remain = Len(frame_inbuf) \/ (frame_remain < 0 /\ frame_inbuf = <<>>)
  /\ HeadersIn(frame_inbuf, frame_pos)

\* What a decoder that waits has at most
Waiting ==
  (IF frame_mode.lib = "dca" THEN Gather + HdAppend + IecHead ELSE MinScan) + Max(FrameSizes)

Bounded == frame_mode.iec \/ frame_mode.lib = "dcv"

DepthInv ==
  Bounded =>
    \/ frame_remain <= Waiting
    \/ \E f \in 1..Arrived :
         /\ frame_begins[f] <= frame_pos - frame_remain
         /\ frame_pos - frame_begins[f] + 1 <= Waiting + MaxBlock

\* The decoders that look for every header, and the one that looks for none
Framed == frame_mode = [lib |-> "dcv", iec |-> FALSE] \/ frame_mode = [lib |-> "dca", iec |-> TRUE]
Verbatim == frame_mode = [lib |-> "dca", iec |-> FALSE]

\* buf holds the last of pos units
Contiguous(buf, pos) ==
  /\ Len(buf) <= pos
  /\ \A i \in 1..Len(buf) : buf[i] = stream[pos - Len(buf) + i]

\* The first h frames were given, or are not known; c was given last.
LastGiven == IF given = <<>> THEN Junk ELSE given[Len(given)]
GivenUpTo(h, c) ==
  \E k \in 0..h : /\ c = Cell(k, FrameSize(k))
                  /\ \A g \in (k + 1)..h : frame_types[g] \notin Carrying

\* buf begins behind the header of frame h, and not behind that of the next one. When
\* the last frame was given, what the DTS decoder keeps need not be what it read last.
Left(h, buf, pos) ==
  IF h < Arrived
  THEN /\ Contiguous(buf, pos)
       /\ h > 0 => frame_begins[h] <= pos - Len(buf)
       /\ pos - Len(buf) < frame_begins[h + 1]
  ELSE /\ \A i \in 1..Len(buf) : ~ IsStart(buf[i])
       /\ Arrived > 0 => frame_begins[Arrived] <= pos

OrderInv ==
  /\ Framed => \E h \in 0..Arrived :
       GivenUpTo(h, LastGiven) /\ Left(h, frame_inbuf, frame_pos)
  /\ Verbatim => /\ Contiguous(frame_inbuf, frame_pos)
                 /\ Len(given) = frame_pos - Len(frame_inbuf)
                 /\ \A i \in 1..Len(given) : given[i] = stream[i]
  /\ FramesInOrder

-----------------------------------------------------------------------------
(* Sequences, minima and maxima *)

\* A function from 1 to n is a sequence.
LEMMA FunctionIsSeq ==
  ASSUME NEW S, NEW n \in Nat, NEW f \in [1..n -> S]
  PROVE  f \in Seq(S) /\ Len(f) = n
OBVIOUS

\* A finite set of integers has a least element: the one that the least number of
\* elements is not above.
LEMMA LeastExists ==
  ASSUME NEW S, S \subseteq Int, IsFiniteSet(S), S # {}
  PROVE  \E x \in S : \A y \in S : x <= y
<1> DEFINE n == Cardinality(S)
<1> DEFINE Below(x) == {y \in S : y <= x}
<1> DEFINE f == [x \in S |-> Cardinality(Below(x))]
<1>1. n \in Nat /\ n # 0
  BY FS_CardinalityType, FS_EmptySet
<1>2. ASSUME NEW x \in S
      PROVE  IsFiniteSet(Below(x)) /\ Cardinality(Below(x)) \in 1..n
  <2>1. Below(x) \in SUBSET S /\ x \in Below(x)
    OBVIOUS
  <2>2. IsFiniteSet(Below(x)) /\ Cardinality(Below(x)) <= n
    BY <2>1, FS_Subset
  <2>3. Cardinality(Below(x)) \in Nat /\ Cardinality(Below(x)) # 0
    BY <2>1, <2>2, FS_CardinalityType, FS_EmptySet
  <2> QED
    BY <1>1, <2>2, <2>3
<1>3. f \in [S -> 1..n]
  BY <1>2
<1>4. ASSUME NEW x \in S, NEW y \in S, x < y
      PROVE  f[x] # f[y]
  <2>1. \A z \in S : z <= x => z <= y
    BY <1>4
  <2>2. y <= y /\ ~ (y <= x)
    BY <1>4
  <2>3. Below(x) \in SUBSET Below(y) /\ y \in Below(y) /\ y \notin Below(x)
    BY <2>1, <2>2
  <2>4. Cardinality(Below(x)) # Cardinality(Below(y))
    BY <1>2, <2>3, FS_Subset
  <2> QED
    BY <2>4
<1>5. \A x, y \in S : f[x] = f[y] => x = y
  BY <1>4
<1> HIDE DEF f, Below, n
<1>6. f \in Injection(S, 1..n)
  BY <1>3, <1>5 DEF Injection, IsInjective
<1>7. IsFiniteSet(1..n) /\ Cardinality(1..n) = n
  BY <1>1, FS_Interval
<1>8. f \in Surjection(S, 1..n)
  BY <1>6, <1>7, FS_Injection DEF n
<1>9. PICK x \in S : f[x] = 1
  BY <1>1, <1>8 DEF Surjection
<1>10. Cardinality(Below(x)) = 1 /\ IsFiniteSet(Below(x))
  BY <1>2, <1>9 DEF f
<1>11. PICK z : Below(x) = {z}
  BY <1>10, FS_Singleton
<1>12. x \in Below(x)
  BY DEF Below
<1>13. \A y \in S : y <= x => y = x
  BY <1>11, <1>12 DEF Below
<1> QED
  BY <1>13

LEMMA MinIs ==
  ASSUME NEW S, S \subseteq Int, IsFiniteSet(S), S # {}
  PROVE  Min(S) \in S /\ \A y \in S : Min(S) <= y
<1>1. \E x \in S : \A y \in S : x <= y
  BY LeastExists
<1> QED
  BY <1>1 DEF Min

\* A frame is at most Max(FrameSizes) long.
LEMMA MaxIs == Max(FrameSizes) \in FrameSizes /\ \A s \in FrameSizes : s <= Max(FrameSizes)
<1> DEFINE Rests == {BurstPeriod - s : s \in FrameSizes}
<1>1. Rests \subseteq 0..BurstPeriod /\ Rests # {}
  <2>1. \A s \in FrameSizes : BurstPeriod - s \in 0..BurstPeriod
    BY FrameAssumption DEF IecHead
  <2> QED
    BY <2>1, FrameAssumption
<1>2. Rests \subseteq Int /\ IsFiniteSet(Rests)
  <2>1. IsFiniteSet(0..BurstPeriod)
    BY FrameAssumption, FS_Interval
  <2>2. Rests \in SUBSET (0..BurstPeriod)
    BY <1>1
  <2>3. IsFiniteSet(Rests)
    BY <2>1, <2>2, FS_Subset
  <2>4. 0..BurstPeriod \subseteq Int
    OBVIOUS
  <2> QED
    BY <1>1, <2>3, <2>4
<1>3. PICK x \in Rests : \A y \in Rests : x <= y
  BY <1>1, <1>2, LeastExists
<1>4. PICK m \in FrameSizes : x = BurstPeriod - m
  BY <1>3
<1>5. \A s \in FrameSizes : s <= m
  <2>1. SUFFICES ASSUME NEW s \in FrameSizes PROVE s <= m
    OBVIOUS
  <2>2. BurstPeriod - m <= BurstPeriod - s
    BY <1>3, <1>4
  <2> QED
    BY <2>2, FrameAssumption
<1>6. \E b \in FrameSizes : \A s \in FrameSizes : b >= s
  BY <1>5, FrameAssumption
<1>7. Max(FrameSizes) \in FrameSizes /\ \A s \in FrameSizes : Max(FrameSizes) >= s
  BY <1>6 DEF Max
<1> QED
  BY <1>7, FrameAssumption

-----------------------------------------------------------------------------
(* How the frames lie in the stream *)

\* Mode and types of what was chosen
LEMMA ModeIs ==
  ASSUME InputTypeInv
  PROVE  /\ frame_mode.iec \in BOOLEAN
         /\ frame_mode.lib = "none" <=> frame_mode = NoMode
         /\ frame_mode.lib # "none" => frame_mode \in Modes
         /\ frame_mode \in Modes => frame_mode.lib \in {"dcv", "dca"}
<1>1. frame_mode \in Modes => /\ frame_mode \in [lib : {"dcv", "dca"}, iec : BOOLEAN]
                              /\ frame_mode.lib \in {"dcv", "dca"}
                              /\ frame_mode.iec \in BOOLEAN
  BY FrameAssumption
<1>2. NoMode.lib = "none" /\ NoMode.iec = FALSE
  BY DEF NoMode
<1>3. frame_mode \in Modes \/ frame_mode = NoMode
  BY DEF InputTypeInv
<1> QED
  BY <1>1, <1>2, <1>3

\* A frame fits in what it takes in the stream.
LEMMA FrameFits ==
  ASSUME InputTypeInv, NEW f \in 1..Arrived
  PROVE  /\ frame_sizes[f] \in FrameSizes /\ frame_sizes[f] \in Nat \ {0}
         /\ frame_begins[f] \in Nat \ {0} /\ Units(f) \in Nat \ {0}
         /\ ExtraHeader(f) \in Nat /\ Offset(f) \in Nat
         /\ Offset(f) + frame_sizes[f] <= Units(f)
<1>1. frame_sizes[f] \in FrameSizes /\ frame_begins[f] \in Nat \ {0}
  BY ElementOfSeq DEF InputTypeInv, Arrived
<1>2. /\ frame_sizes[f] \in Nat \ {0} /\ BurstPeriod \in Nat /\ HdAppend \in Nat
      /\ 4 + HdAppend + frame_sizes[f] <= BurstPeriod
  BY <1>1, FrameAssumption DEF IecHead
<1>3. ExtraHeader(f) = 0 \/ ExtraHeader(f) = HdAppend
  BY DEF ExtraHeader, Extra
<1>4. CASE frame_mode.iec
  <2>1. Units(f) = BurstPeriod /\ Offset(f) = 4 + ExtraHeader(f)
    BY <1>4 DEF Units, Offset, IecHead
  <2> QED
    BY <1>1, <1>2, <1>3, <2>1
<1>5. CASE ~ frame_mode.iec
  <2>1. Units(f) = frame_sizes[f] /\ Offset(f) = 0
    BY <1>5 DEF Units, Offset
  <2> QED
    BY <1>1, <1>2, <1>3, <2>1
<1> QED
  BY <1>4, <1>5

\* What lies between the frames is no header.
LEMMA JunkIsNoStart ==
  ASSUME NEW c, c.frame = 0
  PROVE  ~ IsStart(c) /\ ~ IsStart(c)'
BY DEF IsStart, AtBurst, AtFrame

LEMMA StartKeepsInput ==
  ASSUME InputInv, FrameStart
  PROVE  InputInv'
<1>1. frame_mode = NoMode /\ Arrived = 0 /\ frame_mode' \in Modes
  BY ModeIs DEF InputInv, InputTypeInv, FrameStart
<1>2. PICK lead \in Leads : stream' = Junks(lead)
  BY DEF FrameStart
<1>3. lead \in Nat /\ Junk \in Cells
  BY FrameAssumption DEF Junk, Cell, Cells
<1>4. /\ stream' \in Seq(Cells) /\ Len(stream') = lead
      /\ \A q \in 1..lead : stream'[q] = Junk
  BY <1>2, <1>3, FunctionIsSeq DEF Junks
<1>5. /\ Arrived' = 0
      /\ UNCHANGED <<frame_sizes, frame_types, frame_begins>>
  BY <1>1 DEF FrameStart, Arrived
<1>6. frame_mode' # NoMode
  BY <1>1, FrameAssumption DEF NoMode
<1>7. InputTypeInv'
  BY <1>1, <1>4, <1>5, <1>6 DEF InputInv, InputTypeInv, Arrived
<1>8. LeadInv'
  BY <1>2, <1>4, <1>5 DEF LeadInv
<1>9. PlacesInv'
  BY <1>5 DEF PlacesInv
<1>10. ContentInv'
  <2>1. SUFFICES ASSUME NEW q \in 1..Len(stream')
                 PROVE  stream'[q].frame = 0 /\ ~ IsStart(stream[q])'
    BY <1>5 DEF ContentInv
  <2>2. PICK c : c = stream'[q]
    OBVIOUS
  <2>3. c.frame = 0
    BY <1>4, <2>2 DEF Junk, Cell
  <2>4. IsStart(stream[q])' <=> IsStart(c)'
    BY <2>2 DEF IsStart, AtBurst, AtFrame
  <2> QED
    BY <2>2, <2>3, <2>4, JunkIsNoStart
<1>11. RawInv'
  <2>1. \A q \in 1..Len(stream') : Before(stream', q) = Junk /\ stream'[q] = Junk
    BY <1>3, <1>4 DEF Before
  <2> QED
    BY <2>1 DEF RawInv, Comes, Before
<1> QED
  BY <1>7, <1>8, <1>9, <1>10, <1>11 DEF InputInv

\* What a new frame adds
Block(size, t) ==
  IF frame_mode.iec THEN BurstOf(Arrived + 1, size, t) ELSE RawFrame(Arrived + 1, size)
BlockLen(size) == IF frame_mode.iec THEN BurstPeriod ELSE size
BlockOffset(t) == IF frame_mode.iec THEN IecHead + Extra(t) ELSE 0

LEMMA BlockIs ==
  ASSUME InputInv, NEW size \in FrameSizes, NEW t
  PROVE  /\ size \in Nat \ {0} /\ Extra(t) \in Nat /\ BlockOffset(t) \in Nat
         /\ BlockOffset(t) + size <= BlockLen(size) /\ BlockLen(size) \in Nat \ {0}
         /\ Block(size, t) \in Seq(Cells) /\ Len(Block(size, t)) = BlockLen(size)
         /\ \A i \in 1..BlockLen(size) :
              Block(size, t)[i] = IF i <= BlockOffset(t) + size
                                  THEN Cell(Arrived + 1, i - BlockOffset(t)) ELSE Junk
<1>1. /\ size \in Nat \ {0} /\ Extra(t) \in Nat
      /\ BlockOffset(t) \in Nat /\ BlockOffset(t) + size <= BlockLen(size)
      /\ BlockLen(size) \in Nat \ {0}
  BY FrameAssumption DEF Extra, BlockOffset, BlockLen, IecHead
<1>2. Arrived + 1 \in Nat
  BY DEF InputInv, InputTypeInv, Arrived
<1> DEFINE c(i) == IF i <= BlockOffset(t) + size
                   THEN Cell(Arrived + 1, i - BlockOffset(t)) ELSE Junk
<1>3. \A i \in 1..BlockLen(size) : c(i) \in Cells
  BY <1>1, <1>2 DEF Cell, Junk, Cells
<1>4. Block(size, t) = [i \in 1..BlockLen(size) |-> c(i)]
  <2>1. CASE frame_mode.iec
    <3>1. \A i \in 1..BurstPeriod : c(i) = IF i <= IecHead + Extra(t) + size
            THEN Cell(Arrived + 1, i - IecHead - Extra(t)) ELSE Junk
      BY <1>1, <2>1 DEF BlockOffset, IecHead
    <3> QED
      BY <2>1, <3>1 DEF Block, BurstOf, BlockLen
  <2>2. CASE ~ frame_mode.iec
    <3>1. \A i \in 1..size : c(i) = Cell(Arrived + 1, i)
      BY <1>1, <2>2 DEF BlockOffset
    <3> QED
      BY <2>2, <3>1 DEF Block, RawFrame, BlockLen
  <2> QED
    BY <2>1, <2>2
<1> HIDE DEF c
<1>5. Block(size, t) \in Seq(Cells) /\ Len(Block(size, t)) = BlockLen(size)
  <2>1. [i \in 1..BlockLen(size) |-> c(i)] \in [1..BlockLen(size) -> Cells]
    BY <1>3
  <2> QED
    BY <1>1, <1>4, <2>1, FunctionIsSeq
<1>6. \A i \in 1..BlockLen(size) : Block(size, t)[i] = c(i)
  BY <1>4
<1> QED
  BY <1>1, <1>5, <1>6 DEF c

\* After a new frame
LEMMA InputGrows ==
  ASSUME InputInv, NEW size \in FrameSizes, NEW t \in FrameTypes(frame_mode),
         FrameComes(size, t)
  PROVE  /\ Arrived \in Nat /\ Arrived' = Arrived + 1 /\ Arrived' <= MaxFrames
         /\ frame_mode' = frame_mode /\ frame_mode \in Modes
         /\ frame_sizes' \in Seq(FrameSizes)
         /\ frame_types' \in Seq(BurstTypes)
         /\ frame_begins' \in Seq(Nat \ {0})
         /\ Len(frame_types') = Arrived' /\ Len(frame_begins') = Arrived'
         /\ \A f \in 1..Arrived : /\ frame_sizes'[f] = frame_sizes[f]
                                  /\ frame_types'[f] = frame_types[f]
                                  /\ frame_begins'[f] = frame_begins[f]
         /\ frame_sizes'[Arrived'] = size /\ frame_types'[Arrived'] = t
         /\ frame_begins'[Arrived'] = Len(stream) + 1
         /\ Len(stream) \in Nat /\ stream' \in Seq(Cells)
         /\ Len(stream') = Len(stream) + BlockLen(size)
         /\ \A q \in 1..Len(stream) : stream'[q] = stream[q]
         /\ \A i \in 1..BlockLen(size) : stream'[Len(stream) + i] = Block(size, t)[i]
<1>1. /\ frame_sizes \in Seq(FrameSizes) /\ frame_types \in Seq(BurstTypes)
      /\ frame_begins \in Seq(Nat \ {0}) /\ stream \in Seq(Cells)
      /\ Arrived = Len(frame_sizes) /\ Len(frame_types) = Arrived
      /\ Len(frame_begins) = Arrived
  BY DEF InputInv, InputTypeInv, Arrived
<1>2. t \in BurstTypes /\ Len(stream) \in Nat /\ Len(stream) + 1 \in Nat \ {0}
  BY <1>1 DEF FrameTypes, BurstTypes
<1>3. /\ frame_mode.lib # "none" /\ Arrived + 1 <= MaxFrames /\ frame_mode' = frame_mode
      /\ frame_sizes' = Append(frame_sizes, size) /\ frame_types' = Append(frame_types, t)
      /\ frame_begins' = Append(frame_begins, Len(stream) + 1)
      /\ stream' = stream \o Block(size, t)
  BY DEF FrameComes, Arrived, Block
<1>4. frame_mode \in Modes
  BY <1>3, ModeIs DEF InputInv
<1>5. /\ frame_sizes' \in Seq(FrameSizes) /\ Len(frame_sizes') = Arrived + 1
      /\ \A f \in 1..Arrived : frame_sizes'[f] = frame_sizes[f]
      /\ frame_sizes'[Arrived + 1] = size
  BY <1>1, <1>3, AppendProperties
<1>6. /\ frame_types' \in Seq(BurstTypes) /\ Len(frame_types') = Arrived + 1
      /\ \A f \in 1..Arrived : frame_types'[f] = frame_types[f]
      /\ frame_types'[Arrived + 1] = t
  BY <1>1, <1>2, <1>3, AppendProperties
<1>7. /\ frame_begins' \in Seq(Nat \ {0}) /\ Len(frame_begins') = Arrived + 1
      /\ \A f \in 1..Arrived : frame_begins'[f] = frame_begins[f]
      /\ frame_begins'[Arrived + 1] = Len(stream) + 1
  BY <1>1, <1>2, <1>3, AppendProperties
<1>8. /\ Block(size, t) \in Seq(Cells) /\ Len(Block(size, t)) = BlockLen(size)
      /\ BlockLen(size) \in Nat
  BY BlockIs
<1>9. /\ stream' \in Seq(Cells) /\ Len(stream') = Len(stream) + BlockLen(size)
      /\ \A q \in 1..Len(stream) + BlockLen(size) :
           stream'[q] = IF q <= Len(stream) THEN stream[q] ELSE Block(size, t)[q - Len(stream)]
  <2> DEFINE B == Block(size, t)
  <2>1. B \in Seq(Cells)
    BY <1>8
  <2> HIDE DEF B
  <2>2. /\ stream \o B \in Seq(Cells) /\ Len(stream \o B) = Len(stream) + Len(B)
        /\ \A q \in 1..Len(stream) + Len(B) :
             (stream \o B)[q] = IF q <= Len(stream) THEN stream[q] ELSE B[q - Len(stream)]
    BY <1>1, <2>1, ConcatProperties
  <2>3. stream' = stream \o B /\ Len(B) = BlockLen(size)
    BY <1>3, <1>8 DEF B
  <2>4. /\ stream' \in Seq(Cells) /\ Len(stream') = Len(stream) + BlockLen(size)
        /\ \A q \in 1..Len(stream) + BlockLen(size) :
             stream'[q] = IF q <= Len(stream) THEN stream[q] ELSE B[q - Len(stream)]
    BY <2>2, <2>3
  <2> QED
    BY <2>4 DEF B
<1>10. \A q \in 1..Len(stream) : stream'[q] = stream[q]
  BY <1>2, <1>8, <1>9
<1>11. \A i \in 1..BlockLen(size) : stream'[Len(stream) + i] = Block(size, t)[i]
  BY <1>2, <1>8, <1>9
<1>12. Arrived' = Arrived + 1 /\ Arrived \in Nat
  BY <1>1, <1>5 DEF Arrived
<1> QED
  BY <1>2, <1>3, <1>4, <1>5, <1>6, <1>7, <1>9, <1>10, <1>11, <1>12

\* What a new frame leaves as it is, and what is true of it
LEMMA PlacesGrow ==
  ASSUME InputInv, NEW size \in FrameSizes, NEW t \in FrameTypes(frame_mode),
         FrameComes(size, t)
  PROVE  /\ \A f \in 1..Arrived : Units(f)' = Units(f) /\ Offset(f)' = Offset(f)
         /\ \A f \in Nat : f = Arrived + 1 =>
              Units(f)' = BlockLen(size) /\ Offset(f)' = BlockOffset(t)
         /\ \A c \in Cells : c.frame <= Arrived => (IsStart(c)' <=> IsStart(c))
         /\ \A c \in Cells : c.frame = Arrived + 1 =>
              (IsStart(c)' <=> c.place = 1 - BlockOffset(t))
<1>1. /\ Arrived \in Nat /\ Arrived' = Arrived + 1 /\ frame_mode' = frame_mode
      /\ \A f \in 1..Arrived : /\ frame_sizes'[f] = frame_sizes[f]
                               /\ frame_types'[f] = frame_types[f]
      /\ frame_sizes'[Arrived + 1] = size /\ frame_types'[Arrived + 1] = t
  BY InputGrows
<1>2. \A f \in 1..Arrived : ExtraHeader(f)' = ExtraHeader(f)
  BY <1>1 DEF ExtraHeader, Extra
<1>3. \A f \in Nat : f = Arrived + 1 => ExtraHeader(f)' = Extra(t)
  BY <1>1 DEF ExtraHeader
<1>4. \A f \in 1..Arrived : Units(f)' = Units(f) /\ Offset(f)' = Offset(f)
  BY <1>1, <1>2 DEF Units, Offset
<1>5. \A f \in Nat : f = Arrived + 1 =>
        Units(f)' = BlockLen(size) /\ Offset(f)' = BlockOffset(t)
  BY <1>1, <1>3 DEF Units, Offset, BlockLen, BlockOffset
<1>6. ASSUME NEW c \in Cells, c.frame <= Arrived
      PROVE  IsStart(c)' <=> IsStart(c)
  <2>1. c.frame \in Nat /\ c.place \in Int
    BY DEF Cells
  <2>2. c.frame > 0 => HeaderPlace(c.frame)' = HeaderPlace(c.frame)
    BY <1>1, <1>2, <1>6, <2>1 DEF HeaderPlace
  <2> QED
    BY <1>1, <2>2 DEF IsStart, AtBurst, AtFrame
<1>7. ASSUME NEW c \in Cells, c.frame = Arrived + 1
      PROVE  IsStart(c)' <=> c.place = 1 - BlockOffset(t)
  <2>1. c.frame > 0 /\ c.place \in Int /\ Extra(t) \in Nat
    BY <1>1, <1>7, BlockIs DEF Cells
  <2>2. HeaderPlace(c.frame)' = 1 - IecHead - Extra(t)
    BY <1>1, <1>3, <1>7, <2>1 DEF HeaderPlace
  <2>3. CASE frame_mode.iec
    BY <1>1, <2>1, <2>2, <2>3 DEF IsStart, AtBurst, BlockOffset, IecHead
  <2>4. CASE ~ frame_mode.iec
    BY <1>1, <2>1, <2>4 DEF IsStart, AtFrame, BlockOffset
  <2> QED
    BY <2>3, <2>4
<1> QED
  BY <1>4, <1>5, <1>6, <1>7

\* The parts of InputInv one by one
LEMMA FrameKeepsTypes ==
  ASSUME InputInv, NEW size \in FrameSizes, NEW t \in FrameTypes(frame_mode),
         FrameComes(size, t)
  PROVE  InputTypeInv'
<1>1. /\ frame_sizes' \in Seq(FrameSizes) /\ frame_types' \in Seq(BurstTypes)
      /\ frame_begins' \in Seq(Nat \ {0}) /\ stream' \in Seq(Cells)
      /\ Len(frame_types') = Arrived' /\ Len(frame_begins') = Arrived'
      /\ Arrived' <= MaxFrames /\ frame_mode' = frame_mode /\ frame_mode \in Modes
  BY InputGrows
<1>2. frame_mode # NoMode
  BY <1>1, ModeIs, FrameAssumption DEF InputInv, NoMode
<1>3. \A f \in 1..Arrived' : frame_types'[f] \in FrameTypes(frame_mode')
  <2>1. SUFFICES ASSUME NEW f \in 1..Arrived' PROVE frame_types'[f] \in FrameTypes(frame_mode')
    OBVIOUS
  <2>2. f \in 1..Arrived \/ f = Arrived'
    BY InputGrows
  <2>3. CASE f \in 1..Arrived
    BY <1>1, <2>3, InputGrows DEF InputInv, InputTypeInv
  <2>4. CASE f = Arrived'
    BY <1>1, <2>4, InputGrows
  <2> QED
    BY <2>2, <2>3, <2>4
<1> QED
  BY <1>1, <1>2, <1>3 DEF InputTypeInv

LEMMA FrameKeepsPlaces ==
  ASSUME InputInv, NEW size \in FrameSizes, NEW t \in FrameTypes(frame_mode),
         FrameComes(size, t)
  PROVE  LeadInv' /\ PlacesInv'
<1>1. /\ Arrived \in Nat /\ Arrived' = Arrived + 1 /\ frame_mode \in Modes
      /\ \A f \in 1..Arrived : frame_begins'[f] = frame_begins[f]
      /\ frame_begins'[Arrived + 1] = Len(stream) + 1
      /\ Len(stream) \in Nat /\ Len(stream') = Len(stream) + BlockLen(size)
  BY InputGrows
<1>2. BlockLen(size) \in Nat \ {0}
  BY BlockIs
<1>3. /\ \A f \in 1..Arrived : Units(f)' = Units(f)
      /\ \A f \in Nat : f = Arrived + 1 => Units(f)' = BlockLen(size)
  BY PlacesGrow
<1>4. \A f \in 1..Arrived : frame_begins[f] \in Nat /\ Units(f) \in Nat
  <2>1. SUFFICES ASSUME NEW f \in 1..Arrived
                 PROVE  frame_begins[f] \in Nat /\ Units(f) \in Nat
    OBVIOUS
  <2>2. frame_sizes[f] \in FrameSizes /\ frame_begins[f] \in Nat
    BY ElementOfSeq DEF InputInv, InputTypeInv, Arrived
  <2> QED
    BY <2>2, FrameAssumption DEF Units
<1>5. LeadInv'
  <2>1. CASE Arrived = 0
    <3>1. frame_mode # NoMode
      BY <1>1, FrameAssumption DEF NoMode
    <3>2. Len(stream) \in Leads
      BY <2>1, <3>1 DEF InputInv, LeadInv
    <3>3. frame_begins'[1] - 1 = Len(stream)
      BY <1>1, <2>1
    <3> QED
      BY <1>1, <2>1, <3>2, <3>3 DEF LeadInv
  <2>2. CASE Arrived # 0
    BY <1>1, <2>2 DEF InputInv, LeadInv
  <2> QED
    BY <2>1, <2>2
<1>6. \A f \in 1..Arrived : frame_begins[f] + Units(f) <= Len(stream) + 1
  BY DEF InputInv, PlacesInv
<1>7. \A f \in 1..Arrived' : (frame_begins[f] + Units(f))' <= Len(stream') + 1
  <2>1. SUFFICES ASSUME NEW f \in 1..Arrived'
                 PROVE  (frame_begins[f] + Units(f))' <= Len(stream') + 1
    OBVIOUS
  <2>2. CASE f \in 1..Arrived
    <3>1. (frame_begins[f] + Units(f))' = frame_begins[f] + Units(f)
      BY <1>1, <1>3, <2>2
    <3>2. frame_begins[f] + Units(f) <= Len(stream) + 1
      BY <1>6, <2>2
    <3>3. frame_begins[f] + Units(f) \in Int
      BY <1>4, <2>2
    <3> QED
      BY <1>1, <1>2, <3>1, <3>2, <3>3
  <2>3. CASE f = Arrived + 1
    BY <1>1, <1>2, <1>3, <2>3
  <2> QED
    BY <1>1, <2>2, <2>3
<1>8. (frame_begins[Arrived] + Units(Arrived))' = Len(stream') + 1
  BY <1>1, <1>2, <1>3
<1>9. \A f, g \in 1..Arrived' : f < g => (frame_begins[f] + Units(f))' <= frame_begins'[g]
  <2>1. SUFFICES ASSUME NEW f \in 1..Arrived', NEW g \in 1..Arrived', f < g
                 PROVE  (frame_begins[f] + Units(f))' <= frame_begins'[g]
    OBVIOUS
  <2>2. f \in 1..Arrived
    BY <1>1, <2>1
  <2>3. (frame_begins[f] + Units(f))' = frame_begins[f] + Units(f)
    BY <1>1, <1>3, <2>2
  <2>4. CASE g \in 1..Arrived
    <3>1. frame_begins[f] + Units(f) <= frame_begins[g]
      BY <2>1, <2>2, <2>4 DEF InputInv, PlacesInv
    <3> QED
      BY <1>1, <2>3, <2>4, <3>1
  <2>5. CASE g = Arrived + 1
    BY <1>1, <1>6, <2>2, <2>3, <2>5
  <2> QED
    BY <1>1, <2>4, <2>5
<1>10. \A f \in 1..Arrived' : f < Arrived' =>
         (frame_begins[f] + Units(f))' = (frame_begins[f + 1])'
  <2>1. SUFFICES ASSUME NEW f \in 1..Arrived
                 PROVE  (frame_begins[f] + Units(f))' = (frame_begins[f + 1])'
    BY <1>1
  <2>2. (frame_begins[f] + Units(f))' = frame_begins[f] + Units(f)
    BY <1>1, <1>3
  <2>3. CASE f < Arrived
    <3>1. frame_begins[f] + Units(f) = frame_begins[f + 1] /\ f + 1 \in 1..Arrived
      BY <1>1, <2>3 DEF InputInv, PlacesInv
    <3> QED
      BY <1>1, <2>2, <3>1
  <2>4. CASE f = Arrived
    <3>1. frame_begins[f] + Units(f) = Len(stream) + 1
      BY <1>1, <2>4 DEF InputInv, PlacesInv
    <3> QED
      BY <1>1, <2>2, <2>4, <3>1
  <2> QED
    BY <1>1, <2>3, <2>4
<1>11. PlacesInv'
  BY <1>7, <1>8, <1>9, <1>10 DEF PlacesInv
<1> QED
  BY <1>5, <1>11

LEMMA FrameKeepsContent ==
  ASSUME InputInv, NEW size \in FrameSizes, NEW t \in FrameTypes(frame_mode),
         FrameComes(size, t)
  PROVE  ContentInv'
<1>1. /\ Arrived \in Nat /\ Arrived' = Arrived + 1
      /\ \A f \in 1..Arrived : frame_begins'[f] = frame_begins[f]
      /\ \A f \in 1..Arrived : frame_sizes'[f] = frame_sizes[f]
      /\ frame_begins'[Arrived + 1] = Len(stream) + 1 /\ frame_sizes'[Arrived + 1] = size
      /\ Len(stream) \in Nat /\ Len(stream') = Len(stream) + BlockLen(size)
      /\ stream' \in Seq(Cells) /\ stream \in Seq(Cells)
      /\ \A q \in 1..Len(stream) : stream'[q] = stream[q]
      /\ \A i \in 1..BlockLen(size) : stream'[Len(stream) + i] = Block(size, t)[i]
  <2>1. stream \in Seq(Cells)
    BY DEF InputInv, InputTypeInv
  <2> QED
    BY <2>1, InputGrows
<1>2. /\ BlockLen(size) \in Nat \ {0} /\ BlockOffset(t) \in Nat /\ size \in Nat \ {0}
      /\ BlockOffset(t) + size <= BlockLen(size)
      /\ \A i \in 1..BlockLen(size) :
           Block(size, t)[i] = IF i <= BlockOffset(t) + size
                               THEN Cell(Arrived + 1, i - BlockOffset(t)) ELSE Junk
  BY BlockIs
<1>3. /\ \A f \in 1..Arrived : Offset(f)' = Offset(f)
      /\ \A f \in Nat : f = Arrived + 1 => Offset(f)' = BlockOffset(t)
      /\ \A c \in Cells : c.frame <= Arrived => (IsStart(c)' <=> IsStart(c))
      /\ \A c \in Cells : c.frame = Arrived + 1 =>
           (IsStart(c)' <=> c.place = 1 - BlockOffset(t))
  BY PlacesGrow
<1>4. /\ \A f \in 1..Arrived : stream[frame_begins[f]].frame = f /\ IsStart(stream[frame_begins[f]])
      /\ \A q \in 1..Len(stream) :
           /\ stream[q].frame \in 0..Arrived
           /\ IsStart(stream[q]) => frame_begins[stream[q].frame] = q
      /\ \A f \in 1..Arrived : \A i \in 1..frame_sizes[f] :
           stream[frame_begins[f] + Offset(f) + i - 1] = Cell(f, i)
  BY DEF InputInv, ContentInv
<1>5. \A f \in 1..Arrived : \A i \in 1..frame_sizes[f] :
        /\ frame_begins[f] \in 1..Len(stream) /\ frame_sizes[f] \in Nat
        /\ frame_begins[f] + Offset(f) + i - 1 \in 1..Len(stream)
  <2>1. SUFFICES ASSUME NEW f \in 1..Arrived, NEW i \in 1..frame_sizes[f]
                 PROVE  /\ frame_begins[f] \in 1..Len(stream) /\ frame_sizes[f] \in Nat
                        /\ frame_begins[f] + Offset(f) + i - 1 \in 1..Len(stream)
    OBVIOUS
  <2>2. /\ frame_sizes[f] \in Nat \ {0} /\ frame_begins[f] \in Nat \ {0}
        /\ Units(f) \in Nat \ {0} /\ Offset(f) \in Nat
        /\ Offset(f) + frame_sizes[f] <= Units(f)
    BY FrameFits DEF InputInv
  <2>3. frame_begins[f] + Units(f) <= Len(stream) + 1 /\ Len(stream) \in Nat
    BY <1>1 DEF InputInv, PlacesInv
  <2>4. PICK b, u, o, z, l : /\ b = frame_begins[f] /\ u = Units(f) /\ o = Offset(f)
                             /\ z = frame_sizes[f] /\ l = Len(stream)
    OBVIOUS
  <2>5. /\ b \in Nat \ {0} /\ u \in Nat \ {0} /\ o \in Nat /\ z \in Nat \ {0} /\ l \in Nat
        /\ o + z <= u /\ b + u <= l + 1 /\ i \in 1..z
    BY <2>2, <2>3, <2>4
  <2>6. b \in 1..l /\ b + o + i - 1 \in 1..l
    BY ONLY <2>5, SMT
  <2> QED
    BY <2>2, <2>4, <2>6
<1>6. \A f \in 1..Arrived : frame_begins[f] \in 1..Len(stream)
  <2>1. \A f \in 1..Arrived : 1 \in 1..frame_sizes[f]
    BY FrameFits DEF InputInv
  <2> QED
    BY <1>5, <2>1
<1>7. \A q \in 1..Len(stream) : stream[q] \in Cells /\ stream[q].frame <= Arrived
  BY <1>1, <1>4, ElementOfSeq
\* The units of the new block
<1>8. ASSUME NEW i \in 1..BlockLen(size), NEW c, c = stream'[Len(stream) + i]
      PROVE  /\ c \in Cells /\ c.frame \in 0..Arrived'
             /\ IsStart(c)' => c.frame = Arrived + 1 /\ i = 1
             /\ i = 1 => c.frame = Arrived + 1 /\ IsStart(c)'
             /\ i \in (BlockOffset(t) + 1)..(BlockOffset(t) + size) =>
                  c = Cell(Arrived + 1, i - BlockOffset(t))
  <2>1. c = IF i <= BlockOffset(t) + size THEN Cell(Arrived + 1, i - BlockOffset(t)) ELSE Junk
    <3>1. c = Block(size, t)[i]
      BY <1>1, <1>8
    <3> QED
      BY ONLY <1>2, <3>1, i \in 1..BlockLen(size)
  <2>2. CASE i <= BlockOffset(t) + size
    <3>1. c.frame = Arrived + 1 /\ c.place = i - BlockOffset(t) /\ c \in Cells
      BY <1>1, <1>2, <2>1, <2>2 DEF Cell, Cells
    <3>2. IsStart(c)' <=> i - BlockOffset(t) = 1 - BlockOffset(t)
      BY <1>3, <3>1
    <3>3. IsStart(c)' <=> i = 1
      BY <1>2, <3>2
    <3> QED
      BY <1>1, <2>1, <2>2, <3>1, <3>3
  <2>3. CASE ~ (i <= BlockOffset(t) + size)
    <3>1. c = Junk /\ c.frame = 0 /\ c \in Cells
      BY <2>1, <2>3 DEF Junk, Cell, Cells
    <3>2. ~ IsStart(c)'
      BY <3>1, JunkIsNoStart
    <3>3. i # 1 /\ i \notin (BlockOffset(t) + 1)..(BlockOffset(t) + size)
      BY <1>2, <2>3
    <3> QED
      BY <1>1, <3>1, <3>2, <3>3
  <2> QED
    BY <2>2, <2>3
<1>9. \A f \in 1..Arrived' : (stream[frame_begins[f]].frame)' = f /\ IsStart(stream[frame_begins[f]])'
  <2>1. SUFFICES ASSUME NEW f \in 1..Arrived'
                 PROVE  (stream[frame_begins[f]].frame)' = f /\ IsStart(stream[frame_begins[f]])'
    OBVIOUS
  <2>2. PICK c : c = (stream[frame_begins[f]])'
    OBVIOUS
  <2>3. IsStart(stream[frame_begins[f]])' <=> IsStart(c)'
    BY <2>2 DEF IsStart, AtBurst, AtFrame
  <2>4. CASE f \in 1..Arrived
    <3>1. c = stream[frame_begins[f]]
      BY <1>1, <1>6, <2>2, <2>4
    <3>2. c \in Cells /\ c.frame = f /\ IsStart(c) /\ c.frame <= Arrived
      BY <1>4, <1>6, <1>7, <2>4, <3>1
    <3>3. IsStart(c)'
      BY <1>3, <3>2
    <3> QED
      BY <2>2, <2>3, <3>2, <3>3
  <2>5. CASE f = Arrived + 1
    <3>1. 1 \in 1..BlockLen(size) /\ c = stream'[Len(stream) + 1]
      BY <1>1, <1>2, <2>2, <2>5
    <3>2. c.frame = Arrived + 1 /\ IsStart(c)'
      BY <1>8, <3>1
    <3> QED
      BY <2>2, <2>3, <2>5, <3>2
  <2>6. f \in 1..Arrived \/ f = Arrived + 1
    BY <1>1
  <2> QED
    BY <2>4, <2>5, <2>6
<1>10. \A q \in 1..Len(stream') :
         /\ (stream[q].frame)' \in 0..Arrived'
         /\ IsStart(stream[q])' => (frame_begins[stream[q].frame])' = q
  <2>1. SUFFICES ASSUME NEW q \in 1..Len(stream')
                 PROVE  /\ stream'[q].frame \in 0..Arrived'
                        /\ IsStart(stream[q])' => frame_begins'[stream'[q].frame] = q
    OBVIOUS
  <2>2. PICK c : c = stream'[q]
    OBVIOUS
  <2>3. IsStart(stream[q])' <=> IsStart(c)'
    BY <2>2 DEF IsStart, AtBurst, AtFrame
  <2>4. CASE q \in 1..Len(stream)
    <3>1. c = stream[q]
      BY <1>1, <2>2, <2>4
    <3>2. /\ c \in Cells /\ c.frame \in 0..Arrived /\ c.frame <= Arrived
          /\ IsStart(c) => frame_begins[c.frame] = q
      BY <1>4, <1>7, <2>4, <3>1
    <3>3. IsStart(c)' <=> IsStart(c)
      BY <1>3, <3>2
    <3>4. IsStart(c) => c.frame # 0
      BY JunkIsNoStart
    <3> QED
      BY <1>1, <2>2, <2>3, <3>2, <3>3, <3>4
  <2>5. CASE q \notin 1..Len(stream)
    <3>1. PICK i \in 1..BlockLen(size) : q = Len(stream) + i
      <4>1. q - Len(stream) \in 1..BlockLen(size) /\ q = Len(stream) + (q - Len(stream))
        BY <1>1, <1>2, <2>5
      <4> QED
        BY <4>1
    <3>2. /\ c.frame \in 0..Arrived'
          /\ IsStart(c)' => c.frame = Arrived + 1 /\ i = 1
      BY <1>8, <2>2, <3>1
    <3> QED
      BY <1>1, <2>2, <2>3, <3>1, <3>2
  <2> QED
    BY <2>4, <2>5
<1>11. \A f \in 1..Arrived' : \A i \in 1..frame_sizes'[f] :
         (stream[frame_begins[f] + Offset(f) + i - 1])' = Cell(f, i)
  <2>1. SUFFICES ASSUME NEW f \in 1..Arrived', NEW i \in 1..frame_sizes'[f]
                 PROVE  stream'[frame_begins'[f] + Offset(f)' + i - 1] = Cell(f, i)
    OBVIOUS
  <2>2. CASE f \in 1..Arrived
    <3>1. /\ frame_begins'[f] = frame_begins[f] /\ Offset(f)' = Offset(f)
          /\ i \in 1..frame_sizes[f]
      BY <1>1, <1>3, <2>2
    <3>2. stream[frame_begins[f] + Offset(f) + i - 1] = Cell(f, i)
      BY <1>4, <2>2, <3>1
    <3>3. frame_begins[f] + Offset(f) + i - 1 \in 1..Len(stream)
      BY <1>5, <2>2, <3>1
    <3> QED
      BY <1>1, <3>1, <3>2, <3>3
  <2>3. CASE f = Arrived + 1
    <3>1. /\ frame_begins'[f] = Len(stream) + 1 /\ Offset(f)' = BlockOffset(t)
          /\ i \in 1..size
      BY <1>1, <1>3, <2>3
    <3>2. /\ BlockOffset(t) + i \in 1..BlockLen(size)
          /\ BlockOffset(t) + i \in (BlockOffset(t) + 1)..(BlockOffset(t) + size)
          /\ (BlockOffset(t) + i) - BlockOffset(t) = i
      BY <1>2, <3>1
    <3>3. stream'[Len(stream) + (BlockOffset(t) + i)] = Cell(Arrived + 1, i)
      BY ONLY <1>8, <3>2
    <3>4. frame_begins'[f] + Offset(f)' + i - 1 = Len(stream) + (BlockOffset(t) + i)
      BY <1>1, <1>2, <3>1
    <3> QED
      BY <2>3, <3>3, <3>4
  <2>4. f \in 1..Arrived \/ f = Arrived + 1
    BY <1>1
  <2> QED
    BY <2>2, <2>3, <2>4
<1> QED
  BY <1>9, <1>10, <1>11 DEF ContentInv

\* In a raw stream the new frame follows the last one.
LEMMA FrameKeepsRaw ==
  ASSUME InputInv, NEW size \in FrameSizes, NEW t \in FrameTypes(frame_mode),
         FrameComes(size, t)
  PROVE  RawInv'
<1>1. /\ Arrived \in Nat /\ Arrived' = Arrived + 1 /\ frame_mode' = frame_mode
      /\ \A f \in 1..Arrived : /\ frame_sizes'[f] = frame_sizes[f]
                               /\ frame_types'[f] = frame_types[f]
      /\ frame_sizes'[Arrived + 1] = size /\ frame_types'[Arrived + 1] = t
      /\ Len(stream) \in Nat /\ Len(stream') = Len(stream) + BlockLen(size)
      /\ \A q \in 1..Len(stream) : stream'[q] = stream[q]
      /\ \A i \in 1..BlockLen(size) : stream'[Len(stream) + i] = Block(size, t)[i]
      /\ Len(frame_sizes) = Arrived /\ Len(frame_sizes') = Arrived + 1
  BY InputGrows DEF Arrived
<1>2. SUFFICES ASSUME ~ frame_mode.iec, NEW q \in 1..Len(stream')
               PROVE  (Comes(Before(stream, q), stream[q]))'
  BY <1>1 DEF RawInv
<1>3. /\ BlockLen(size) = size /\ size \in Nat \ {0} /\ t = "core"
      /\ \A i \in 1..size : Block(size, t)[i] = Cell(Arrived + 1, i)
  <2>1. BlockLen(size) = size /\ BlockOffset(t) = 0 /\ t = "core"
    BY <1>2 DEF BlockLen, BlockOffset, FrameTypes
  <2>2. /\ size \in Nat \ {0}
        /\ \A i \in 1..size : Block(size, t)[i] = Cell(Arrived + 1, i - 0)
    BY <2>1, BlockIs
  <2>3. \A i \in 1..size : i - 0 = i
    BY <2>2
  <2> QED
    BY <2>1, <2>2, <2>3
<1>4. \A f \in 1..Arrived : frame_sizes[f] \in Nat \ {0} /\ frame_types[f] = "core"
  <2>1. \A f \in 1..Arrived : frame_types[f] \in FrameTypes(frame_mode)
    BY DEF InputInv, InputTypeInv
  <2> QED
    BY <1>2, <2>1, FrameFits DEF InputInv, FrameTypes
<1>5. PICK c, d : c = (Before(stream, q))' /\ d = (stream[q])'
  OBVIOUS
<1>6. Before(stream, q)' = IF q = 1 THEN Junk ELSE stream'[q - 1]
  BY DEF Before, Junk, Cell
<1>7. SUFFICES Comes(c, d)'
  <2>1. Comes(c, d)' <=> (Comes(Before(stream, q), stream[q]))'
    BY <1>5 DEF Comes, Follows, Continues, Begins, NextKnown, FrameAfter, FrameSize, Arrived
  <2> QED
    BY <2>1
<1>8. \A f \in 0..Arrived : FrameSize(f)' = FrameSize(f)
  BY <1>1 DEF FrameSize
<1>9. CASE q \in 1..Len(stream)
  <2>1. c = Before(stream, q) /\ d = stream[q]
    BY <1>1, <1>5, <1>6, <1>9 DEF Before
  <2>2. Comes(c, d)
    BY <1>2, <1>9, <2>1 DEF InputInv, RawInv
  <2>3. CASE c = Junk /\ d = Junk
    BY <2>3 DEF Comes, Junk, Cell
  <2>4. CASE d.frame \in 1..Arrived /\ Follows(c, d)
    <3>1. FrameSize(d.frame)' = FrameSize(d.frame)
      BY <1>8, <2>4
    <3>2. c.frame \in 0..Arrived
      <4>1. CASE q = 1
        BY <1>1, <2>1, <4>1 DEF Before, Junk, Cell
      <4>2. CASE q # 1
        BY <1>1, <1>9, <2>1, <4>2 DEF Before, InputInv, ContentInv
      <4> QED
        BY <4>1, <4>2
    <3>3. FrameSize(c.frame)' = FrameSize(c.frame)
      BY <1>8, <3>2
    <3>4. NextKnown(c.frame, d.frame) => NextKnown(c.frame, d.frame)'
      <4>1. SUFFICES ASSUME NextKnown(c.frame, d.frame) PROVE NextKnown(c.frame, d.frame)'
        OBVIOUS
      <4>2. PICK f, g : f = c.frame /\ g = d.frame
        OBVIOUS
      <4>3. /\ g \in (f + 1)..Arrived /\ frame_types[g] \in Carrying /\ f \in Nat /\ g \in Nat
            /\ \A h \in (f + 1)..(g - 1) : frame_types[h] \notin Carrying
        BY <1>1, <2>4, <3>2, <4>1, <4>2 DEF NextKnown, FrameAfter, Arrived
      <4>4. /\ g \in (f + 1)..Len(frame_sizes') /\ frame_types'[g] \in Carrying
            /\ \A h \in (f + 1)..(g - 1) : frame_types'[h] \notin Carrying
        BY <1>1, <4>3
      <4> QED
        BY <4>2, <4>4 DEF NextKnown, FrameAfter
    <3>5. Follows(c, d)'
      BY <2>4, <3>1, <3>3, <3>4 DEF Follows, Continues, Begins
    <3> QED
      BY <1>1, <2>4, <3>5 DEF Comes
  <2> QED
    BY <2>2, <2>3, <2>4 DEF Comes
<1>10. CASE q \notin 1..Len(stream)
  <2>1. PICK i \in 1..size : q = Len(stream) + i
    <3>1. q - Len(stream) \in 1..size /\ q = Len(stream) + (q - Len(stream))
      BY <1>1, <1>3, <1>10
    <3> QED
      BY <3>1
  <2>2. d = Cell(Arrived + 1, i) /\ d.frame = Arrived + 1 /\ d.place = i
    <3>1. stream'[q] = Cell(Arrived + 1, i)
      BY <1>1, <1>3, <2>1
    <3> QED
      BY <1>5, <3>1 DEF Cell
  <2>3. \A f \in Nat : f = Arrived + 1 => FrameSize(f)' = size
    BY <1>1 DEF FrameSize
  <2>4. CASE i > 1
    <3>1. i - 1 \in 1..size /\ q - 1 = Len(stream) + (i - 1) /\ q # 1
      BY <1>1, <1>3, <2>1, <2>4
    <3>2. c = Cell(Arrived + 1, i - 1) /\ c.frame = Arrived + 1 /\ c.place = i - 1
      <4>1. PICK j \in 1..size : j = i - 1
        BY <3>1
      <4>2. c = stream'[q - 1] /\ q - 1 = Len(stream) + j
        BY <1>5, <1>6, <3>1, <4>1
      <4>3. stream'[Len(stream) + j] = Cell(Arrived + 1, j)
        BY <1>1, <1>3
      <4> QED
        BY <4>1, <4>2, <4>3 DEF Cell
    <3>3. FrameSize(d.frame)' = size
      BY <1>1, <2>2, <2>3
    <3>4. d.frame = c.frame /\ d.place = c.place + 1 /\ d.place <= size
      BY <1>3, <2>2, <3>2
    <3>5. Follows(c, d)'
      BY <3>3, <3>4 DEF Follows, Continues
    <3> QED
      BY <1>1, <2>2, <3>5 DEF Comes
  <2>5. CASE i = 1
    <3>1. c.frame = Arrived /\ c.place = FrameSize(Arrived)
      <4>1. CASE Arrived = 0
        <5>1. c = Junk
          <6>1. CASE q = 1
            BY <1>5, <1>6, <6>1
          <6>2. CASE q # 1
            <7>1. q - 1 \in 1..Len(stream)
              BY <1>1, <2>1, <2>5, <6>2
            <7>2. stream[q - 1] = Junk
              BY <4>1, <7>1 DEF InputInv, LeadInv
            <7> QED
              BY <1>1, <1>5, <1>6, <6>2, <7>1, <7>2
          <6> QED
            BY <6>1, <6>2
        <5> QED
          BY <4>1, <5>1 DEF Junk, Cell, FrameSize
      <4>2. CASE Arrived # 0
        <5>1. Arrived \in 1..Arrived /\ frame_sizes[Arrived] \in Nat \ {0}
          BY <1>1, <1>4, <4>2
        <5>2. frame_begins[Arrived] + Units(Arrived) = Len(stream) + 1
          BY <1>1, <4>2 DEF InputInv, PlacesInv
        <5>3. Units(Arrived) = frame_sizes[Arrived] /\ Offset(Arrived) = 0
          BY <1>2 DEF Units, Offset
        <5>4. frame_begins[Arrived] \in Nat \ {0}
          BY <5>1, FrameFits DEF InputInv
        <5>5. frame_sizes[Arrived] \in 1..frame_sizes[Arrived]
          BY <5>1
        <5>6. stream[frame_begins[Arrived] + Offset(Arrived) + frame_sizes[Arrived] - 1]
                = Cell(Arrived, frame_sizes[Arrived])
          BY <5>1, <5>5 DEF InputInv, ContentInv
        <5>7. /\ frame_begins[Arrived] + Offset(Arrived) + frame_sizes[Arrived] - 1 = q - 1
              /\ q # 1 /\ q - 1 \in 1..Len(stream)
          <6>1. /\ frame_begins[Arrived] + frame_sizes[Arrived] = q /\ q \in Nat
                /\ q = Len(stream) + 1
            BY <1>1, <2>1, <2>5, <5>2, <5>3
          <6> QED
            BY <1>1, <5>1, <5>3, <5>4, <6>1
        <5>8. c = Cell(Arrived, frame_sizes[Arrived])
          BY <1>1, <1>5, <1>6, <5>6, <5>7
        <5> QED
          BY <4>2, <5>8 DEF Cell, FrameSize
      <4> QED
        BY <4>1, <4>2
    <3>2. c.place = FrameSize(c.frame)'
      BY <1>1, <1>8, <3>1
    <3>3. NextKnown(c.frame, d.frame)'
      <4>1. PICK f, g : f = c.frame /\ g = d.frame
        OBVIOUS
      <4>2. /\ g \in (f + 1)..Len(frame_sizes') /\ frame_types'[g] \in Carrying
            /\ \A h \in (f + 1)..(g - 1) : frame_types'[h] \notin Carrying
        BY <1>1, <1>3, <2>2, <3>1, <4>1 DEF Carrying
      <4> QED
        BY <4>1, <4>2 DEF NextKnown, FrameAfter
    <3>4. Follows(c, d)'
      BY <2>2, <2>5, <3>2, <3>3 DEF Follows, Begins
    <3> QED
      BY <1>1, <2>2, <3>4 DEF Comes
  <2> QED
    BY <1>3, <2>4, <2>5
<1> QED
  BY <1>9, <1>10

\* InputInv is kept while the input is built, and no call touches the input.
LEMMA InputIsKept ==
  ASSUME InputInv, [FrameNext]_framevars
  PROVE  InputInv'
<1>1. CASE FrameStart
  BY <1>1, StartKeepsInput
<1>2. CASE \E size \in FrameSizes, t \in FrameTypes(frame_mode) : FrameComes(size, t)
  BY <1>2, FrameKeepsTypes, FrameKeepsPlaces, FrameKeepsContent, FrameKeepsRaw DEF InputInv
<1>3. CASE UNCHANGED inputvars
  <2>1. /\ frame_mode' = frame_mode /\ frame_sizes' = frame_sizes
        /\ frame_types' = frame_types /\ frame_begins' = frame_begins /\ stream' = stream
    BY <1>3 DEF inputvars
  <2>2. InputTypeInv' /\ LeadInv' /\ PlacesInv'
    BY <2>1 DEF InputInv, InputTypeInv, LeadInv, PlacesInv, Units, Arrived
  <2>3. ContentInv'
    BY <2>1 DEF InputInv, ContentInv, Arrived, IsStart, AtBurst, AtFrame, HeaderPlace,
                ExtraHeader, Offset
  <2>4. RawInv'
    BY <2>1 DEF InputInv, RawInv, Comes, Follows, Continues, Begins, Before, FrameSize, NextKnown,
                FrameAfter, Arrived
  <2> QED
    BY <2>2, <2>3, <2>4 DEF InputInv
<1>4. \A n : f_process(n) => UNCHANGED inputvars
  BY DEF f_process
<1> QED
  BY <1>1, <1>2, <1>3, <1>4 DEF FrameNext, framevars

LEMMA InputStarts == FrameInit => InputInv
<1> SUFFICES ASSUME FrameInit PROVE InputInv
  OBVIOUS
<1>1. /\ frame_mode = NoMode /\ frame_sizes = <<>> /\ frame_types = <<>> /\ stream = <<>>
      /\ frame_begins = <<>>
  BY DEF FrameInit, NoMode
<1>2. Arrived = 0 /\ Len(frame_types) = 0 /\ Len(frame_begins) = 0 /\ Len(stream) = 0
  BY <1>1 DEF Arrived
<1>3. InputTypeInv
  BY <1>1, <1>2, FrameAssumption DEF InputTypeInv
<1> QED
  BY <1>1, <1>2, <1>3 DEF InputInv, LeadInv, PlacesInv, ContentInv, RawInv

-----------------------------------------------------------------------------
(* What a call reads, and what it leaves *)

\* What a call works on: what was kept, and a block of the stream
LEMMA CallReads ==
  ASSUME InputInv, BufferInv, NEW n \in 1..MaxBlock, f_process(n)
  PROVE  \E buf \in Seq(Cells) :
           /\ Len(buf) = Len(frame_inbuf) + n /\ Len(frame_inbuf) \in Nat /\ Len(buf) > 0
           /\ \A i \in 1..Len(frame_inbuf) : buf[i] = frame_inbuf[i]
           /\ \A i \in 1..n : buf[Len(frame_inbuf) + i] = stream[frame_pos + i]
           /\ frame_remain = Len(frame_inbuf) /\ Arrived = MaxFrames
           /\ frame_pos \in Nat /\ frame_pos' = frame_pos + n /\ frame_pos + n <= Len(stream)
           /\ frame_mode \in Modes /\ UNCHANGED inputvars /\ HeadersIn(buf, frame_pos + n)
           /\ \/ frame_mode.lib = "dcv" /\ dcv_decoder_process_patch(buf)
              \/ frame_mode.lib = "dca" /\ dca_decoder_process_patch(buf)
<1>1. /\ stream \in Seq(Cells) /\ frame_inbuf \in Seq(Cells) /\ frame_pos \in Nat
      /\ Len(stream) \in Nat /\ Len(frame_inbuf) \in Nat /\ n \in Nat \ {0}
      /\ MaxBlock \in Nat
  BY FrameAssumption DEF InputInv, InputTypeInv, BufferInv
<1>2. /\ frame_pos' = frame_pos + n /\ frame_pos + n <= Len(stream) /\ frame_remain >= 0
      /\ frame_mode.lib # "none" /\ Arrived = MaxFrames /\ UNCHANGED inputvars
  BY DEF f_process, Arrived
<1>3. frame_remain = Len(frame_inbuf)
  BY <1>2 DEF BufferInv
<1>4. frame_mode \in Modes
  BY <1>2, ModeIs DEF InputInv
<1> DEFINE block == SubSeq(stream, frame_pos + 1, frame_pos + n)
<1>5. /\ block \in Seq(Cells) /\ Len(block) = n
      /\ \A i \in 1..n : block[i] = stream[frame_pos + i]
  <2>1. \A i \in (frame_pos + 1)..(frame_pos + n) : stream[i] \in Cells
    BY <1>1, <1>2, ElementOfSeq
  <2>2. /\ block \in Seq(Cells)
        /\ Len(block) = IF frame_pos + 1 <= frame_pos + n
                        THEN (frame_pos + n) - (frame_pos + 1) + 1 ELSE 0
        /\ \A i \in 1..(frame_pos + n) - (frame_pos + 1) + 1 :
             block[i] = stream[(frame_pos + 1) + i - 1]
    BY <1>1, <2>1, SubSeqProperties
  <2>3. /\ frame_pos + 1 <= frame_pos + n /\ (frame_pos + n) - (frame_pos + 1) + 1 = n
        /\ \A i \in 1..n : (frame_pos + 1) + i - 1 = frame_pos + i
    BY <1>1
  <2> HIDE DEF block
  <2> QED
    BY <2>2, <2>3
<1>6. PICK b : b = block
  OBVIOUS
<1> HIDE DEF block
<1>7. PICK buf : buf = frame_inbuf \o b
  OBVIOUS
<1>8. /\ buf \in Seq(Cells) /\ Len(buf) = Len(frame_inbuf) + n
      /\ \A i \in 1..Len(frame_inbuf) + n :
           buf[i] = IF i <= Len(frame_inbuf) THEN frame_inbuf[i] ELSE b[i - Len(frame_inbuf)]
  <2>1. b \in Seq(Cells) /\ Len(b) = n
    BY <1>5, <1>6
  <2> QED
    BY <1>1, <1>7, <2>1, ConcatProperties
<1>9. /\ \A i \in 1..Len(frame_inbuf) : buf[i] = frame_inbuf[i]
      /\ \A i \in 1..n : buf[Len(frame_inbuf) + i] = stream[frame_pos + i]
  <2>1. \A i \in 1..Len(frame_inbuf) : buf[i] = frame_inbuf[i]
    BY <1>1, <1>8
  <2>2. ASSUME NEW i \in 1..n
        PROVE  buf[Len(frame_inbuf) + i] = stream[frame_pos + i]
    <3>1. /\ Len(frame_inbuf) + i \in 1..Len(frame_inbuf) + n
          /\ ~ (Len(frame_inbuf) + i <= Len(frame_inbuf))
          /\ (Len(frame_inbuf) + i) - Len(frame_inbuf) = i
      BY <1>1
    <3>2. buf[Len(frame_inbuf) + i] = b[i]
      BY <1>8, <3>1
    <3> QED
      BY <1>5, <1>6, <3>2
  <2> QED
    BY <2>1, <2>2
<1>10. HeadersIn(buf, frame_pos + n)
  <2>1. PICK p : p = frame_pos + n
    OBVIOUS
  <2>2. SUFFICES HeadersIn(buf, p)
    BY <2>1
  <2>3. SUFFICES ASSUME NEW i \in 1..Len(buf), IsStart(buf[i])
                 PROVE  /\ buf[i].frame \in 1..Arrived
                        /\ frame_begins[buf[i].frame] = p - Len(buf) + i
    BY DEF HeadersIn
  <2>4. CASE i <= Len(frame_inbuf)
    <3>1. i \in 1..Len(frame_inbuf) /\ buf[i] = frame_inbuf[i]
      BY <1>1, <1>9, <2>4
    <3>2. /\ buf[i].frame \in 1..Arrived
          /\ frame_begins[buf[i].frame] = frame_pos - Len(frame_inbuf) + i
      BY <2>3, <3>1 DEF BufferInv, HeadersIn
    <3> QED
      BY <1>1, <1>8, <2>1, <3>2
  <2>5. CASE ~ (i <= Len(frame_inbuf))
    <3>1. PICK j \in 1..n : i = Len(frame_inbuf) + j
      <4>1. i - Len(frame_inbuf) \in 1..n /\ i = Len(frame_inbuf) + (i - Len(frame_inbuf))
        BY <1>1, <1>8, <2>5
      <4> QED
        BY <4>1
    <3>2. buf[i] = stream[frame_pos + j] /\ frame_pos + j \in 1..Len(stream)
      BY <1>1, <1>2, <1>9, <3>1
    <3>3. /\ buf[i].frame \in 0..Arrived /\ buf[i].frame # 0
          /\ frame_begins[buf[i].frame] = frame_pos + j
      BY <2>3, <3>2, JunkIsNoStart DEF InputInv, ContentInv
    <3> QED
      BY <1>1, <1>8, <2>1, <3>1, <3>3
  <2> QED
    BY <2>4, <2>5
<1>11. \/ frame_mode.lib = "dcv" /\ dcv_decoder_process_patch(buf)
       \/ frame_mode.lib = "dca" /\ dca_decoder_process_patch(buf)
  BY <1>6, <1>7 DEF f_process, block
<1>12. Len(buf) > 0
  BY <1>1, <1>8
<1> HIDE DEF HeadersIn
<1> QED
  BY <1>1, <1>2, <1>3, <1>4, <1>8, <1>9, <1>10, <1>11, <1>12, Zenon

\* The rest of a buffer
LEMMA RemainingIs ==
  ASSUME NEW buf \in Seq(Cells), NEW k \in Nat \ {0}
  PROVE  /\ Remaining(buf, k) \in Seq(Cells) /\ Len(buf) \in Nat
         /\ Len(Remaining(buf, k)) = IF k <= Len(buf) THEN Len(buf) - k + 1 ELSE 0
         /\ \A i \in 1..Len(buf) - k + 1 : Remaining(buf, k)[i] = buf[k + i - 1]
         /\ \A pos \in Int : HeadersIn(buf, pos) => HeadersIn(Remaining(buf, k), pos)
<1>1. Len(buf) \in Nat /\ \A i \in k..Len(buf) : buf[i] \in Cells
  BY ElementOfSeq
<1>2. /\ Remaining(buf, k) \in Seq(Cells)
      /\ Len(Remaining(buf, k)) = IF k <= Len(buf) THEN Len(buf) - k + 1 ELSE 0
      /\ \A i \in 1..Len(buf) - k + 1 : Remaining(buf, k)[i] = buf[k + i - 1]
  BY <1>1, SubSeqProperties DEF Remaining
<1>3. ASSUME NEW pos \in Int, HeadersIn(buf, pos)
      PROVE  HeadersIn(Remaining(buf, k), pos)
  <2> DEFINE rest == Remaining(buf, k)
  <2>1. SUFFICES ASSUME NEW i \in 1..Len(rest), IsStart(rest[i])
                 PROVE  /\ rest[i].frame \in 1..Arrived
                        /\ frame_begins[rest[i].frame] = pos - Len(rest) + i
    BY DEF HeadersIn
  <2>2. /\ k <= Len(buf) /\ Len(rest) = Len(buf) - k + 1
        /\ i \in 1..Len(buf) - k + 1 /\ k + i - 1 \in 1..Len(buf)
    BY <1>1, <1>2, <2>1
  <2>3. rest[i] = buf[k + i - 1]
    BY <1>2, <2>2
  <2>4. /\ rest[i].frame \in 1..Arrived
        /\ frame_begins[rest[i].frame] = pos - Len(buf) + (k + i - 1)
    BY <1>3, <2>1, <2>2, <2>3 DEF HeadersIn
  <2> QED
    BY <1>1, <2>2, <2>4
<1> QED
  BY <1>1, <1>2, <1>3

\* What a scan finds
LEMMA FoundIs ==
  ASSUME NEW buf \in Seq(Cells), NEW stop \in Nat
  PROVE  /\ FoundAt(buf, stop) = {} => \A i \in 1..Len(buf) - stop : ~ IsHeader(buf[i])
         /\ FoundAt(buf, stop) # {} =>
              LET at == Min(FoundAt(buf, stop)) IN
              /\ at \in 1..Len(buf) /\ Len(buf) - at + 1 > stop /\ IsHeader(buf[at])
              /\ \A i \in 1..at - 1 : ~ IsHeader(buf[i])
<1>1. Len(buf) \in Nat /\ DOMAIN buf = 1..Len(buf)
  BY LenProperties
<1>2. FoundAt(buf, stop) = {i \in 1..Len(buf) : IsHeader(buf[i]) /\ Len(buf) - i + 1 > stop}
  BY <1>1 DEF FoundAt
<1>3. ASSUME FoundAt(buf, stop) = {}, NEW i \in 1..Len(buf) - stop
      PROVE  ~ IsHeader(buf[i])
  <2>1. i \in 1..Len(buf) /\ Len(buf) - i + 1 > stop
    BY <1>1
  <2> QED
    BY <1>2, <1>3, <2>1
<1>4. ASSUME FoundAt(buf, stop) # {}, NEW at, at = Min(FoundAt(buf, stop))
      PROVE  /\ at \in 1..Len(buf) /\ Len(buf) - at + 1 > stop /\ IsHeader(buf[at])
             /\ \A i \in 1..at - 1 : ~ IsHeader(buf[i])
  <2>1. FoundAt(buf, stop) \in SUBSET (1..Len(buf)) /\ FoundAt(buf, stop) \subseteq Int
    BY <1>1, <1>2
  <2>2. IsFiniteSet(FoundAt(buf, stop))
    <3>1. IsFiniteSet(1..Len(buf))
      BY <1>1, FS_Interval
    <3> QED
      BY <2>1, <3>1, FS_Subset
  <2>3. at \in FoundAt(buf, stop) /\ \A i \in FoundAt(buf, stop) : at <= i
    BY <1>4, <2>1, <2>2, MinIs
  <2>4. at \in 1..Len(buf) /\ Len(buf) - at + 1 > stop /\ IsHeader(buf[at])
    BY <1>2, <2>3
  <2>5. ASSUME NEW i \in 1..at - 1, IsHeader(buf[i])
        PROVE  FALSE
    <3>1. i \in 1..Len(buf) /\ Len(buf) - i + 1 > stop /\ ~ (at <= i)
      BY <1>1, <2>4, <2>5
    <3> QED
      BY <1>2, <2>3, <2>5, <3>1
  <2> QED
    BY <2>4, <2>5
<1> QED
  BY <1>3, <1>4

LEMMA HeaderIsStart ==
  ASSUME NEW c, IsHeader(c)
  PROVE  IsStart(c)
BY DEF IsHeader, IsStart

\* A header in the buffer, and the frame behind it
LEMMA HeaderHasFrame ==
  ASSUME InputInv, NEW buf \in Seq(Cells), NEW pos \in Int, HeadersIn(buf, pos),
         NEW at \in 1..Len(buf), IsHeader(buf[at])
  PROVE  /\ buf[at].frame \in 1..Arrived /\ frame_begins[buf[at].frame] = pos - Len(buf) + at
         /\ frame_sizes[buf[at].frame] \in FrameSizes
         /\ frame_sizes[buf[at].frame] \in Nat \ {0}
         /\ ExtraHeader(buf[at].frame) \in {0, HdAppend}
<1>1. buf[at].frame \in 1..Arrived /\ frame_begins[buf[at].frame] = pos - Len(buf) + at
  BY HeaderIsStart DEF HeadersIn
<1>2. PICK f \in 1..Arrived : f = buf[at].frame
  BY <1>1
<1>3. frame_sizes[f] \in FrameSizes /\ frame_sizes[f] \in Nat \ {0}
  BY FrameFits DEF InputInv
<1>4. ExtraHeader(f) \in {0, HdAppend}
  BY DEF ExtraHeader, Extra
<1> QED
  BY <1>1, <1>2, <1>3, <1>4

\* The Dolby scan stops at frames that carry something.
LEMMA DolbyKnows ==
  ASSUME InputInv, ~Refusing, frame_mode.lib = "dcv", NEW c, c.frame \in 1..Arrived, IsHeader(c)
  PROVE  KnownFrame(c)
<1>1. frame_types[c.frame] \in FrameTypes(frame_mode)
  BY DEF InputInv, InputTypeInv
<1>2. frame_types[c.frame] \in {"core", "other"}
  BY <1>1 DEF FrameTypes
<1>3. frame_types[c.frame] = "core"
  BY <1>1, <1>2 DEF IsHeader, FrameTypes
<1> QED
  BY <1>3 DEF KnownFrame, Carrying

\* What the DTS decoder skips of a burst that carries nothing
LEMMA SkipIs ==
  ASSUME NEW f
  PROVE  /\ SkippedHeader(f) \in Nat /\ 3 <= SkippedHeader(f)
         /\ SkippedHeader(f) <= IecHead + ExtraHeader(f)
         /\ SkippedHeader(f) <= 4 + HdAppend
<1>1. HdAppend \in Nat /\ ExtraHeader(f) \in {0, HdAppend}
  BY FrameAssumption DEF ExtraHeader, Extra
<1> QED
  BY <1>1 DEF SkippedHeader, IecHead, IecPd

\* What a call must leave
LEMMA BufferIsLeft ==
  ASSUME InputInv, UNCHANGED inputvars, Arrived = MaxFrames, frame_mode \in Modes,
         frame_pos' \in 0..Len(stream), NEW b \in Seq(Cells), frame_inbuf' = b,
         HeadersIn(b, frame_pos'), given' \in Seq(Cells), frame_remain' \in Int,
         frame_remain' = Len(b) \/ (frame_remain' < 0 /\ b = <<>>)
  PROVE  BufferInv'
<1>1. /\ Arrived' = Arrived /\ frame_mode' = frame_mode /\ stream' = stream
      /\ Arrived \in Nat
  BY DEF inputvars, Arrived, InputInv, InputTypeInv
<1>2. frame_mode # NoMode
  BY ModeIs, FrameAssumption DEF InputInv, NoMode
<1>3. PICK p : p = frame_pos'
  OBVIOUS
<1>4. HeadersIn(b, p)'
  BY <1>3 DEF inputvars, HeadersIn, Arrived, IsStart, AtBurst, AtFrame, HeaderPlace, ExtraHeader
<1>5. HeadersIn(frame_inbuf, frame_pos)'
  BY <1>3, <1>4 DEF HeadersIn, IsStart, AtBurst, AtFrame, HeaderPlace, ExtraHeader
<1> QED
  BY <1>1, <1>2, <1>5 DEF BufferInv

LEMMA UnitsAreCells ==
  ASSUME NEW buf \in Seq(Cells), NEW i \in Nat \ {0}, NEW n \in Nat
  PROVE  /\ UnitsFrom(buf, i, n) \in Seq(Cells) /\ Len(UnitsFrom(buf, i, n)) = n
         /\ \A k \in 1..n : UnitsFrom(buf, i, n)[k] =
              IF i + k - 1 <= Len(buf) THEN buf[i + k - 1] ELSE Junk
<1> DEFINE u(k) == IF i + k - 1 <= Len(buf) THEN buf[i + k - 1] ELSE Junk
<1>1. \A k \in 1..n : u(k) \in Cells
  <2>1. SUFFICES ASSUME NEW k \in 1..n PROVE u(k) \in Cells
    OBVIOUS
  <2>2. i + k - 1 <= Len(buf) => i + k - 1 \in 1..Len(buf)
    OBVIOUS
  <2>3. i + k - 1 <= Len(buf) => buf[i + k - 1] \in Cells
    BY <2>2, ElementOfSeq
  <2>4. Junk \in Cells
    BY DEF Junk, Cell, Cells
  <2> QED
    BY <2>3, <2>4
<1> HIDE DEF u
<1>2. [k \in 1..n |-> u(k)] \in [1..n -> Cells]
  BY <1>1
<1>3. [k \in 1..n |-> u(k)] \in Seq(Cells) /\ Len([k \in 1..n |-> u(k)]) = n
  BY <1>2, FunctionIsSeq
<1>4. UnitsFrom(buf, i, n) = [k \in 1..n |-> u(k)]
  BY DEF UnitsFrom, u
<1>5. \A k \in 1..n : [j \in 1..n |-> u(j)][k] = u(k)
  OBVIOUS
<1> QED
  BY <1>3, <1>4, <1>5 DEF u

LEMMA CallKeepsBuffer ==
  ASSUME ~Refusing, InputInv, BufferInv, NEW n \in 1..MaxBlock, f_process(n)
  PROVE  BufferInv'
<1>1. PICK buf \in Seq(Cells) :
        /\ Len(buf) = Len(frame_inbuf) + n /\ Len(frame_inbuf) \in Nat /\ Len(buf) > 0
        /\ Arrived = MaxFrames /\ frame_mode \in Modes /\ UNCHANGED inputvars
        /\ frame_pos \in Nat /\ frame_pos' = frame_pos + n /\ frame_pos + n <= Len(stream)
        /\ HeadersIn(buf, frame_pos + n)
        /\ \/ frame_mode.lib = "dcv" /\ dcv_decoder_process_patch(buf)
           \/ frame_mode.lib = "dca" /\ dca_decoder_process_patch(buf)
  BY CallReads
<1>2. PICK p \in Nat : p = frame_pos'
  BY <1>1
<1>3. /\ p \in 0..Len(stream) /\ HeadersIn(buf, p) /\ Len(buf) \in Nat /\ Len(stream) \in Nat
      /\ given \in Seq(Cells)
  BY <1>1, <1>2 DEF InputInv, InputTypeInv, BufferInv
<1>4. ASSUME NEW b \in Seq(Cells), HeadersIn(b, p), KeepInput(b)
      PROVE  BufferInv'
  <2>1. frame_inbuf' = b /\ frame_remain' = Len(b) /\ given' = given /\ Len(b) \in Int
    BY <1>4 DEF KeepInput
  <2> QED
    BY <1>1, <1>2, <1>3, <1>4, <2>1, BufferIsLeft
<1>5. ASSUME NEW k \in Nat \ {0}, KeepInput(Remaining(buf, k))
      PROVE  BufferInv'
  BY <1>3, <1>4, <1>5, RemainingIs
<1>6. ASSUME NEW i \in Nat \ {0}, NEW m \in Nat, NEW used \in Nat, Consume(buf, i, m, used)
      PROVE  BufferInv'
  <2>1. /\ given' = given \o UnitsFrom(buf, i, m) /\ frame_remain' = Len(buf) - used
        /\ frame_inbuf' = Remaining(buf, used + 1)
    BY <1>6 DEF Consume
  <2>2. given' \in Seq(Cells)
    <3>1. UnitsFrom(buf, i, m) \in Seq(Cells)
      BY UnitsAreCells
    <3> QED
      BY <1>3, <2>1, <3>1, ConcatProperties
  <2>3. PICK b : b = Remaining(buf, used + 1)
    OBVIOUS
  <2>4. /\ b \in Seq(Cells) /\ HeadersIn(b, p)
        /\ Len(b) = IF used + 1 <= Len(buf) THEN Len(buf) - (used + 1) + 1 ELSE 0
    <3>1. PICK k \in Nat \ {0} : k = used + 1
      OBVIOUS
    <3>2. /\ Remaining(buf, k) \in Seq(Cells)
          /\ Len(Remaining(buf, k)) = IF k <= Len(buf) THEN Len(buf) - k + 1 ELSE 0
      BY RemainingIs
    <3>3. HeadersIn(Remaining(buf, k), p)
      <4>1. p \in Int
        OBVIOUS
      <4> QED
        BY <1>3, <4>1, RemainingIs
    <3> QED
      BY <2>3, <3>1, <3>2, <3>3
  <2>5. frame_remain' \in Int /\ (frame_remain' = Len(b) \/ (frame_remain' < 0 /\ b = <<>>))
    <3>1. CASE used <= Len(buf)
      BY <1>3, <2>1, <2>4, <3>1
    <3>2. CASE ~ (used <= Len(buf))
      <4>1. Len(b) = 0 /\ Len(buf) - used < 0 /\ Len(buf) - used \in Int
        BY <1>3, <2>4, <3>2
      <4>2. b = <<>>
        BY <2>4, <4>1, EmptySeq
      <4> QED
        BY <2>1, <4>1, <4>2
    <3> QED
      BY <3>1, <3>2
  <2> QED
    BY <1>1, <1>2, <1>3, <2>1, <2>2, <2>3, <2>4, <2>5, BufferIsLeft
<1>7. ASSUME NEW at \in 1..Len(buf), IsHeader(buf[at])
      PROVE  /\ buf[at].frame \in 1..Arrived
             /\ frame_sizes[buf[at].frame] \in Nat \ {0}
             /\ ExtraHeader(buf[at].frame) \in Nat
  <2>1. p \in Int
    OBVIOUS
  <2>2. /\ buf[at].frame \in 1..Arrived
        /\ frame_sizes[buf[at].frame] \in Nat \ {0}
        /\ ExtraHeader(buf[at].frame) \in {0, HdAppend}
    BY <1>3, <1>7, <2>1, HeaderHasFrame
  <2> QED
    BY <2>2, FrameAssumption
<1>8. CASE frame_mode.lib = "dcv" /\ dcv_decoder_process_patch(buf)
  <2> DEFINE found == FoundAt(buf, MinScan)
  <2>1. MinScan \in Nat
    BY FrameAssumption
  <2>2. CASE found = {}
    <3>1. KeepInput(Remaining(buf, ScanEnd(buf, MinScan)))
      BY <1>8, <2>2 DEF dcv_decoder_process_patch
    <3>2. ScanEnd(buf, MinScan) \in Nat \ {0}
      BY <1>3, <2>1 DEF ScanEnd
    <3> QED
      BY <1>5, <3>1, <3>2
  <2>3. CASE found # {}
    <3>1. PICK at, size, offset : /\ at = Min(found) /\ size = frame_sizes[buf[at].frame]
                                  /\ offset = IF frame_mode.iec THEN IecHead ELSE 0
      OBVIOUS
    <3>2. at \in 1..Len(buf) /\ IsHeader(buf[at])
      BY <2>1, <2>3, <3>1, FoundIs
    <3>3. size \in Nat \ {0} /\ offset \in Nat
      BY <1>7, <3>1, <3>2 DEF IecHead
    <3>4. \/ KeepInput(Remaining(buf, at))
          \/ Consume(buf, at + offset, size, at - 1 + offset + size)
      <4>1. KnownFrame(buf[at])
        BY <1>7, <1>8, <3>2, DolbyKnows
      <4> QED
        BY <1>8, <2>3, <3>1, <4>1 DEF dcv_decoder_process_patch
    <3>5. /\ at \in Nat \ {0} /\ at + offset \in Nat \ {0}
          /\ size \in Nat /\ at - 1 + offset + size \in Nat
      BY <1>3, <3>2, <3>3
    <3> QED
      BY <1>5, <1>6, <3>4, <3>5
  <2> QED
    BY <2>2, <2>3
<1>9. CASE frame_mode.lib = "dca" /\ dca_decoder_process_patch(buf)
  <2> DEFINE found == FoundAt(buf, IecHead)
  <2>1. IecHead \in Nat
    BY DEF IecHead
  <2>2. CASE Len(buf) < Gather
    <3>1. KeepInput(buf)
      BY <1>9, <2>2 DEF dca_decoder_process_patch
    <3> QED
      BY <1>3, <1>4, <3>1
  <2>3. CASE ~ (Len(buf) < Gather) /\ ~ frame_mode.iec
    <3>1. PICK m \in 0..Len(buf) : Consume(buf, 1, m, m)
      BY <1>9, <2>3 DEF dca_decoder_process_patch
    <3> QED
      BY <1>3, <1>6, <3>1
  <2>4. CASE ~ (Len(buf) < Gather) /\ frame_mode.iec /\ found = {}
    <3>1. KeepInput(SubSeq(buf, 1, IecHead))
      BY <1>9, <2>4 DEF dca_decoder_process_patch
    <3>2. 8 <= Len(buf)
      BY <1>3, <2>4, FrameAssumption DEF IecHead
    <3>3. PICK b : b = SubSeq(buf, 1, IecHead)
      OBVIOUS
    <3>4. \A i \in 1..4 : buf[i] \in Cells /\ i \in 1..Len(buf)
      BY <1>3, <3>2, ElementOfSeq
    <3>5. /\ b \in Seq(Cells) /\ Len(b) = 4
          /\ \A i \in 1..4 : b[i] = buf[i]
      <4>1. /\ b \in Seq(Cells) /\ Len(b) = IF 1 <= 4 THEN 4 - 1 + 1 ELSE 0
            /\ \A i \in 1..4 - 1 + 1 : b[i] = buf[1 + i - 1]
        BY <3>3, <3>4, SubSeqProperties DEF IecHead
      <4>2. \A i \in 1..4 : 1 + i - 1 = i
        OBVIOUS
      <4> QED
        BY <4>1, <4>2
    <3>6. \A i \in 1..4 : ~ IsStart(b[i])
      <4>1. \A i \in 1..4 : i \in 1..Len(buf) - IecHead
        BY <1>3, <3>2 DEF IecHead
      <4>2. \A i \in 1..4 : ~ IsHeader(buf[i])
        BY <2>1, <2>4, <4>1, FoundIs
      <4>3. \A c : IsHeader(c) <=> IsStart(c)
        BY <1>9, <2>4 DEF IsHeader, IsStart
      <4> QED
        BY <3>5, <4>2, <4>3
    <3>7. HeadersIn(b, p)
      BY <3>5, <3>6 DEF HeadersIn
    <3> QED
      BY <1>4, <3>1, <3>3, <3>5, <3>7
  <2>5. CASE ~ (Len(buf) < Gather) /\ frame_mode.iec /\ found # {}
    <3>1. PICK at, size, offset :
            /\ at = Min(found) /\ size = frame_sizes[buf[at].frame]
            /\ offset = IecHead + ExtraHeader(buf[at].frame)
      OBVIOUS
    <3>2. at \in 1..Len(buf) /\ IsHeader(buf[at])
      BY <2>1, <2>5, <3>1, FoundIs
    <3>3. size \in Nat \ {0} /\ offset \in Nat
      BY <1>7, <3>1, <3>2 DEF IecHead
    <3>6. PICK behind : behind = at + SkippedHeader(buf[at].frame)
      OBVIOUS
    <3>4. \/ KeepInput(Remaining(buf, at))
          \/ KeepInput(Remaining(buf, behind))
          \/ \E taken \in 1..size : Consume(buf, at + offset, size, at - 1 + offset + taken)
      BY <1>9, <2>5, <3>1, <3>6 DEF dca_decoder_process_patch
    <3>5. /\ at \in Nat \ {0} /\ at + offset \in Nat \ {0} /\ behind \in Nat \ {0}
          /\ size \in Nat /\ \A taken \in 1..size : at - 1 + offset + taken \in Nat
      BY <1>3, <3>2, <3>3, <3>6, SkipIs
    <3> QED
      BY <1>5, <1>6, <3>4, <3>5
  <2> QED
    BY <2>2, <2>3, <2>4, <2>5
<1> QED
  BY <1>1, <1>8, <1>9

LEMMA BufferIsKept ==
  ASSUME ~Refusing, InputInv, BufferInv, InputInv', [FrameNext]_framevars
  PROVE  BufferInv'
<1>1. CASE FrameStart \/ \E size \in FrameSizes, t \in FrameTypes(frame_mode) : FrameComes(size, t)
  <2>1. Arrived < MaxFrames \/ frame_mode = NoMode
    <3>1. FrameStart => frame_mode = NoMode
      BY ModeIs DEF FrameStart, InputInv
    <3>2. \A size, t : FrameComes(size, t) => Arrived < MaxFrames
      BY FrameAssumption DEF FrameComes, Arrived, InputInv, InputTypeInv
    <3> QED
      BY <1>1, <3>1, <3>2
  <2>2. frame_pos = 0 /\ frame_inbuf = <<>> /\ frame_remain = 0 /\ given = <<>>
    BY <2>1 DEF BufferInv
  <2>3. frame_pos' = 0 /\ frame_inbuf' = <<>> /\ frame_remain' = 0 /\ given' = <<>>
    BY <1>1, <2>2 DEF FrameStart, FrameComes
  <2>4. Len(stream') \in Nat
    BY DEF InputInv, InputTypeInv
  <2> QED
    BY <2>3, <2>4 DEF BufferInv, HeadersIn
<1>2. CASE \E n \in 1..MaxBlock : n % 2 = 0 /\ f_process(n)
  BY <1>2, CallKeepsBuffer
<1>3. CASE UNCHANGED framevars
  BY <1>3 DEF framevars, inputvars, BufferInv, HeadersIn, Arrived, IsStart, AtBurst, AtFrame,
              HeaderPlace, ExtraHeader
<1> QED
  BY <1>1, <1>2, <1>3 DEF FrameNext

LEMMA BufferStarts == FrameInit => BufferInv
<1> SUFFICES ASSUME FrameInit PROVE BufferInv
  OBVIOUS
<1>1. stream = <<>> /\ frame_pos = 0 /\ frame_inbuf = <<>> /\ frame_remain = 0 /\ given = <<>>
  BY DEF FrameInit
<1> QED
  BY <1>1 DEF BufferInv, HeadersIn

-----------------------------------------------------------------------------
(* inbuf does not grow *)

LEMMA WaitingIs == Waiting \in Nat /\ \A s \in FrameSizes : s <= Max(FrameSizes)
<1>1. Max(FrameSizes) \in Nat /\ \A s \in FrameSizes : s <= Max(FrameSizes)
  BY MaxIs, FrameAssumption
<1> QED
  BY <1>1, FrameAssumption DEF Waiting, IecHead

\* A call that passes a header is no further behind than the one before.
LEMMA DepthIsKept ==
  ASSUME BlocksFitFrames, InputInv, BufferInv, DepthInv, NEW n \in 1..MaxBlock,
         frame_mode \in Modes, UNCHANGED inputvars, Bounded,
         frame_remain \in Nat, frame_pos \in Nat, frame_pos' = frame_pos + n,
         NEW buf \in Seq(Cells), Len(buf) = frame_remain + n, HeadersIn(buf, frame_pos + n),
         NEW at \in 1..Len(buf), IsHeader(buf[at]),
         NEW used \in Nat, at <= used, frame_remain' = Len(buf) - used
  PROVE  DepthInv'
<1> DEFINE g == buf[at].frame
<1>1. g \in 1..Arrived /\ frame_begins[g] = frame_pos + n - Len(buf) + at /\ Arrived \in Nat
  <2>1. PICK p \in Int : p = frame_pos + n
    OBVIOUS
  <2>2. g \in 1..Arrived /\ frame_begins[g] = p - Len(buf) + at
    BY <2>1, HeaderHasFrame
  <2> QED
    BY <2>1, <2>2 DEF InputInv, InputTypeInv, Arrived
<1> HIDE DEF g
<1>2. Waiting \in Nat /\ MaxBlock \in Nat /\ Len(buf) \in Nat
  BY WaitingIs, FrameAssumption
<1>3. frame_begins[g] <= frame_pos' - frame_remain'
  BY <1>1, <1>2
<1>4. frame_pos' - frame_begins[g] + 1 <= Waiting + MaxBlock
  <2>1. frame_pos' - frame_begins[g] + 1 = Len(buf) - at + 1
    BY <1>1, <1>2
  <2>2. CASE frame_remain <= Waiting
    BY <1>2, <2>1, <2>2
  <2>3. CASE \E f \in 1..Arrived : /\ frame_begins[f] <= frame_pos - frame_remain
                                   /\ frame_pos - frame_begins[f] + 1 <= Waiting + MaxBlock
    <3>1. PICK f \in 1..Arrived : /\ frame_begins[f] <= frame_pos - frame_remain
                                  /\ frame_pos - frame_begins[f] + 1 <= Waiting + MaxBlock
      BY <2>3
    <3>2. /\ frame_begins[f] \in Nat /\ Units(f) \in Nat /\ frame_sizes[f] \in FrameSizes
          /\ frame_begins[g] \in Nat /\ Units(g) \in Nat
      BY <1>1, FrameFits DEF InputInv
    <3>3. frame_begins[f] < frame_begins[g]
      BY <1>1, <1>2, <3>1, <3>2
    <3>4. f < g
      <4>1. ~ (g < f)
        <5>1. g < f => frame_begins[g] + Units(g) <= frame_begins[f]
          BY <1>1 DEF InputInv, PlacesInv
        <5> QED
          BY <3>2, <3>3, <5>1
      <4>2. g # f
        BY <3>2, <3>3
      <4> QED
        BY <1>1, <4>1, <4>2
    <3>5. frame_begins[f] + Units(f) <= frame_begins[g]
      BY <1>1, <3>4 DEF InputInv, PlacesInv
    <3>6. MaxBlock <= Units(f)
      BY <3>2 DEF BlocksFitFrames, Units
    <3>7. PICK bf, bg, u, w, p : /\ bf = frame_begins[f] /\ bg = frame_begins[g] /\ u = Units(f)
                                 /\ w = Waiting /\ p = frame_pos
      OBVIOUS
    <3>8. /\ bf \in Nat /\ bg \in Nat /\ u \in Nat /\ w \in Nat /\ p \in Nat
          /\ n \in Nat /\ n <= MaxBlock /\ MaxBlock \in Nat
          /\ p - bf + 1 <= w + MaxBlock /\ bf + u <= bg /\ MaxBlock <= u
      BY <1>2, <3>1, <3>2, <3>5, <3>6, <3>7
    <3>9. PICK q : q = frame_pos'
      OBVIOUS
    <3>10. q = p + n /\ q \in Nat
      BY <3>7, <3>8, <3>9
    <3>11. q - bg + 1 <= w + MaxBlock
      BY ONLY <3>8, <3>10, SMT
    <3> QED
      BY ONLY <3>7, <3>9, <3>11
  <2> QED
    BY <2>2, <2>3 DEF DepthInv
<1>5. g \in 1..Arrived' /\ frame_begins' = frame_begins /\ Waiting' = Waiting
  BY <1>1 DEF inputvars, Arrived, Waiting
<1>6. (frame_begins[g] <= frame_pos - frame_remain)'
  BY <1>3, <1>5
<1>7. (frame_pos - frame_begins[g] + 1 <= Waiting + MaxBlock)'
  BY <1>4, <1>5
<1> QED
  BY <1>5, <1>6, <1>7 DEF DepthInv

LEMMA CallKeepsDepth ==
  ASSUME BlocksFitFrames, ~Refusing, InputInv, BufferInv, DepthInv, NEW n \in 1..MaxBlock, f_process(n)
  PROVE  DepthInv'
<1>1. PICK buf \in Seq(Cells) :
        /\ Len(buf) = Len(frame_inbuf) + n /\ Len(frame_inbuf) \in Nat /\ Len(buf) > 0
        /\ frame_remain = Len(frame_inbuf) /\ frame_mode \in Modes /\ UNCHANGED inputvars
        /\ frame_pos \in Nat /\ frame_pos' = frame_pos + n
        /\ HeadersIn(buf, frame_pos + n)
        /\ \/ frame_mode.lib = "dcv" /\ dcv_decoder_process_patch(buf)
           \/ frame_mode.lib = "dca" /\ dca_decoder_process_patch(buf)
  BY CallReads
<1>2. SUFFICES ASSUME Bounded PROVE DepthInv'
  BY <1>1 DEF DepthInv, Bounded, inputvars
<1>3. /\ Waiting \in Nat /\ Waiting' = Waiting /\ Len(buf) \in Nat
      /\ \A s \in FrameSizes : s <= Max(FrameSizes)
  BY <1>1, WaitingIs DEF inputvars, Waiting
<1>4. Max(FrameSizes) \in Nat
  BY MaxIs, FrameAssumption
<1>5. ASSUME frame_remain' <= Waiting
      PROVE  DepthInv'
  BY <1>3, <1>5 DEF DepthInv
<1>6. ASSUME NEW at \in 1..Len(buf), IsHeader(buf[at])
      PROVE  /\ buf[at].frame \in 1..Arrived
             /\ frame_sizes[buf[at].frame] \in FrameSizes
             /\ frame_sizes[buf[at].frame] \in Nat \ {0}
             /\ ExtraHeader(buf[at].frame) \in {0, HdAppend}
  <2>1. frame_pos + n \in Int
    BY <1>1
  <2> QED
    BY <1>1, <1>6, <2>1, HeaderHasFrame
<1>7. ASSUME NEW at \in 1..Len(buf), IsHeader(buf[at]), NEW used \in Nat, at <= used,
             frame_remain' = Len(buf) - used
      PROVE  DepthInv'
  BY <1>1, <1>2, <1>7, DepthIsKept
<1>8. \A k \in 1..Len(buf) + 1 : Len(Remaining(buf, k)) = Len(buf) - k + 1
  <2>1. SUFFICES ASSUME NEW k \in 1..Len(buf) + 1
                 PROVE  Len(Remaining(buf, k)) = Len(buf) - k + 1
    OBVIOUS
  <2>2. k \in Nat \ {0}
    BY <1>3
  <2>3. Len(Remaining(buf, k)) = IF k <= Len(buf) THEN Len(buf) - k + 1 ELSE 0
    BY <2>2, RemainingIs
  <2> QED
    BY <1>3, <2>3
<1>9. CASE frame_mode.lib = "dcv" /\ dcv_decoder_process_patch(buf)
  <2> DEFINE found == FoundAt(buf, MinScan)
  <2>1. MinScan \in Nat /\ Waiting = MinScan + Max(FrameSizes)
    BY <1>9, FrameAssumption DEF Waiting
  <2>2. CASE found = {}
    <3>1. PICK k : k = ScanEnd(buf, MinScan)
      OBVIOUS
    <3>2. frame_remain' = Len(Remaining(buf, k))
      BY <1>9, <2>2, <3>1 DEF dcv_decoder_process_patch, KeepInput
    <3>3. k \in Nat \ {0} /\ (k = Len(buf) - MinScan + 1 \/ (k = 1 /\ Len(buf) <= MinScan))
      BY <1>3, <2>1, <3>1 DEF ScanEnd
    <3>4. Len(Remaining(buf, k)) = IF k <= Len(buf) THEN Len(buf) - k + 1 ELSE 0
      BY <3>3, RemainingIs
    <3>5. frame_remain' <= MinScan
      BY <1>3, <2>1, <3>2, <3>3, <3>4
    <3> QED
      BY <1>3, <1>4, <1>5, <2>1, <3>2, <3>4, <3>3, <3>5
  <2>3. CASE found # {}
    <3>1. PICK at, size, offset : /\ at = Min(found) /\ size = frame_sizes[buf[at].frame]
                                  /\ offset = IF frame_mode.iec THEN IecHead ELSE 0
      OBVIOUS
    <3>2. at \in 1..Len(buf) /\ IsHeader(buf[at])
      BY <2>1, <2>3, <3>1, FoundIs
    <3>3. size \in FrameSizes /\ size \in Nat \ {0} /\ offset \in Nat /\ size <= Max(FrameSizes)
      BY <1>3, <1>6, <3>1, <3>2 DEF IecHead
    <3>4. CASE KeepInput(Remaining(buf, at)) /\ Len(buf) - at + 1 < size
      <4>1. frame_remain' = Len(buf) - at + 1
        <5>1. at \in 1..Len(buf) + 1
          BY <1>3, <3>2
        <5> QED
          BY <1>8, <3>4, <5>1 DEF KeepInput
      <4> QED
        BY <1>3, <1>4, <1>5, <2>1, <3>2, <3>3, <3>4, <4>1
    <3>5. CASE Consume(buf, at + offset, size, at - 1 + offset + size)
      <4>1. PICK used : used = at - 1 + offset + size
        OBVIOUS
      <4>2. used \in Nat /\ at <= used
        BY <1>3, <3>2, <3>3, <4>1
      <4>3. frame_remain' = Len(buf) - used
        BY <3>5, <4>1 DEF Consume
      <4> QED
        BY <1>7, <3>2, <4>2, <4>3
    <3>6. KnownFrame(buf[at])
      BY <1>6, <1>9, <3>2, DolbyKnows
    <3> QED
      BY <1>9, <2>3, <3>1, <3>4, <3>5, <3>6 DEF dcv_decoder_process_patch
  <2> QED
    BY <2>2, <2>3
<1>10. CASE frame_mode.lib = "dca" /\ dca_decoder_process_patch(buf)
  <2> DEFINE found == FoundAt(buf, IecHead)
  <2>1. /\ IecHead \in Nat /\ Gather \in Nat /\ HdAppend \in Nat /\ frame_mode.iec
        /\ Waiting = Gather + HdAppend + 4 + Max(FrameSizes)
    BY <1>2, <1>10, FrameAssumption DEF Waiting, IecHead, Bounded
  <2>2. CASE Len(buf) < Gather
    <3>1. frame_remain' = Len(buf)
      BY <1>10, <2>2 DEF dca_decoder_process_patch, KeepInput
    <3> QED
      BY <1>3, <1>4, <1>5, <2>1, <2>2, <3>1
  <2>3. CASE ~ (Len(buf) < Gather) /\ found = {}
    <3>1. frame_remain' = Len(SubSeq(buf, 1, IecHead))
      BY <1>10, <2>1, <2>3 DEF dca_decoder_process_patch, KeepInput
    <3>2. \A i \in 1..4 : i \in 1..Len(buf) /\ buf[i] \in Cells
      <4>1. 8 <= Len(buf)
        BY <1>3, <2>3, FrameAssumption DEF IecHead
      <4> QED
        BY <1>3, <4>1, ElementOfSeq
    <3>3. Len(SubSeq(buf, 1, IecHead)) = IF 1 <= 4 THEN 4 - 1 + 1 ELSE 0
      BY <3>2, SubSeqProperties DEF IecHead
    <3> QED
      BY <1>4, <1>5, <2>1, <3>1, <3>3
  <2>4. CASE ~ (Len(buf) < Gather) /\ found # {}
    <3>1. PICK at, size, offset :
            /\ at = Min(found) /\ size = frame_sizes[buf[at].frame]
            /\ offset = IecHead + ExtraHeader(buf[at].frame)
      OBVIOUS
    <3>2. at \in 1..Len(buf) /\ Len(buf) - at + 1 > IecHead /\ IsHeader(buf[at])
      BY <2>1, <2>4, <3>1, FoundIs
    <3>3. /\ size \in FrameSizes /\ size \in Nat \ {0} /\ size <= Max(FrameSizes)
          /\ offset \in Nat /\ offset <= 4 + HdAppend
      <4>1. PICK e : e = ExtraHeader(buf[at].frame)
        OBVIOUS
      <4>2. e \in {0, HdAppend} /\ size \in FrameSizes /\ size \in Nat \ {0}
        BY <1>6, <3>1, <3>2, <4>1
      <4>3. offset = 4 + e
        BY <3>1, <4>1 DEF IecHead
      <4> QED
        BY <1>3, <2>1, <4>2, <4>3
    <3>4. CASE KeepInput(Remaining(buf, at)) /\ Len(buf) - at + 1 < size + offset
      <4>1. frame_remain' = Len(buf) - at + 1
        <5>1. at \in 1..Len(buf) + 1
          BY <1>3, <3>2
        <5> QED
          BY <1>8, <3>4, <5>1 DEF KeepInput
      <4> QED
        BY <1>3, <1>4, <1>5, <2>1, <3>2, <3>3, <3>4, <4>1
    <3>5. ASSUME NEW taken \in 1..size,
                 Consume(buf, at + offset, size, at - 1 + offset + taken)
          PROVE  DepthInv'
      <4>1. PICK used : used = at - 1 + offset + taken
        OBVIOUS
      <4>2. used \in Nat /\ at <= used
        BY <1>3, <3>2, <3>3, <4>1
      <4>3. frame_remain' = Len(buf) - used
        BY <3>5, <4>1 DEF Consume
      <4> QED
        BY <1>7, <3>2, <4>2, <4>3
    <3>6. PICK skip \in Nat : /\ skip = SkippedHeader(buf[at].frame)
                             /\ 3 <= skip /\ skip <= 4 + HdAppend
      BY SkipIs
    <3>7. CASE KeepInput(Remaining(buf, at + skip)) /\ ~ (Len(buf) + 1 < at + skip)
      <4>1. PICK k \in 1..Len(buf) + 1 : k = at + skip
        BY <1>3, <3>2, <3>6, <3>7
      <4>2. PICK used \in Nat : used = at + skip - 1
        BY <1>3, <3>2, <3>6
      <4>3. k = used + 1 /\ at <= used
        <5>1. at \in Nat /\ skip \in Nat /\ 3 <= skip
          BY <1>3, <3>2, <3>6
        <5> QED
          BY ONLY <4>1, <4>2, <5>1
      <4>4. frame_remain' = Len(buf) - used
        <5>1. frame_remain' = Len(buf) - k + 1
          BY <1>8, <3>7, <4>1 DEF KeepInput
        <5> QED
          BY <1>3, <4>3, <5>1
      <4> QED
        BY <1>7, <3>2, <4>3, <4>4
    <3>8. CASE KeepInput(Remaining(buf, at)) /\ Len(buf) + 1 < at + skip
      <4>1. frame_remain' = Len(buf) - at + 1
        <5>1. at \in 1..Len(buf) + 1
          BY <1>3, <3>2
        <5> QED
          BY <1>8, <3>8, <5>1 DEF KeepInput
      <4>2. PICK len, most \in Nat : len = Len(buf) /\ most = Max(FrameSizes)
        BY <1>4
      <4>3. /\ len \in Nat /\ at \in 1..len /\ len + 1 < at + skip /\ skip <= 4 + HdAppend
            /\ Gather \in Nat /\ HdAppend \in Nat
        BY <1>3, <2>1, <3>2, <3>6, <3>8, <4>2
      <4>4. len - at + 1 <= Gather + HdAppend + 4 + most
        BY ONLY <4>3, most \in Nat, skip \in Nat
      <4> QED
        BY <1>5, <2>1, <4>1, <4>2, <4>4
    <3> QED
      BY <1>10, <2>1, <2>4, <3>1, <3>4, <3>5, <3>6, <3>7, <3>8 DEF dca_decoder_process_patch
  <2> QED
    BY <2>2, <2>3, <2>4
<1> QED
  BY <1>1, <1>9, <1>10

\* While no block is longer than what a frame takes in the stream and the library takes
\* something of every frame, no call of a decoder that looks for headers leaves more in
\* inbuf than it waits for and a block.  This does not depend on the period of the bursts.
THEOREM InbufIsBounded ==
  ASSUME BlocksFitFrames, ~Refusing
  PROVE  FrameSpec => []InbufBounded
<1>1. FrameInit => InputInv /\ BufferInv /\ DepthInv
  <2>1. FrameInit => DepthInv
    BY WaitingIs DEF FrameInit, DepthInv
  <2> QED
    BY <2>1, InputStarts, BufferStarts
<1>2. InputInv /\ BufferInv /\ DepthInv /\ [FrameNext]_framevars => (InputInv /\ BufferInv /\ DepthInv)'
  <2>1. SUFFICES ASSUME InputInv, BufferInv, DepthInv, [FrameNext]_framevars
                 PROVE  InputInv' /\ BufferInv' /\ DepthInv'
    OBVIOUS
  <2>2. InputInv' /\ BufferInv'
    BY <2>1, InputIsKept, BufferIsKept
  <2>3. CASE FrameStart \/ \E size \in FrameSizes, t \in FrameTypes(frame_mode) : FrameComes(size, t)
    <3>1. Arrived < MaxFrames \/ frame_mode = NoMode
      <4>1. FrameStart => frame_mode = NoMode
        BY <2>1, ModeIs DEF FrameStart, InputInv
      <4>2. \A size, t : FrameComes(size, t) => Arrived < MaxFrames
        BY <2>1, FrameAssumption DEF FrameComes, Arrived, InputInv, InputTypeInv
      <4> QED
        BY <2>3, <4>1, <4>2
    <3>2. frame_remain' = 0
      BY <2>1, <2>3, <3>1 DEF BufferInv, FrameStart, FrameComes
    <3>3. (Waiting \in Nat)'
      <4>1. Max(FrameSizes) \in Nat
        BY MaxIs, FrameAssumption
      <4> QED
        BY <4>1, FrameAssumption DEF Waiting, IecHead
    <3>4. (frame_remain <= Waiting)'
      BY <3>2, <3>3
    <3> QED
      BY <2>2, <3>4 DEF DepthInv
  <2>4. CASE \E n \in 1..MaxBlock : n % 2 = 0 /\ f_process(n)
    BY <2>1, <2>2, <2>4, CallKeepsDepth
  <2>5. CASE UNCHANGED framevars
    BY <2>1, <2>2, <2>5 DEF framevars, inputvars, DepthInv, Bounded, Waiting, Arrived
  <2> QED
    BY <2>1, <2>3, <2>4, <2>5 DEF FrameNext
<1>3. InputInv /\ BufferInv /\ DepthInv => InbufBounded
  <2>1. SUFFICES ASSUME InputInv, BufferInv, DepthInv, Bounded
                 PROVE  frame_remain <= Waiting + MaxBlock
    BY DEF InbufBounded, Bounded, Waiting
  <2>2. Waiting \in Nat /\ MaxBlock \in Nat /\ frame_remain \in Int /\ frame_pos \in Nat
    BY <2>1, WaitingIs, FrameAssumption DEF BufferInv
  <2>3. CASE frame_remain <= Waiting
    BY <2>2, <2>3
  <2>4. CASE \E f \in 1..Arrived : /\ frame_begins[f] <= frame_pos - frame_remain
                                   /\ frame_pos - frame_begins[f] + 1 <= Waiting + MaxBlock
    <3>1. PICK f \in 1..Arrived : /\ frame_begins[f] <= frame_pos - frame_remain
                                  /\ frame_pos - frame_begins[f] + 1 <= Waiting + MaxBlock
      BY <2>4
    <3>2. frame_begins[f] \in Nat
      BY <2>1, FrameFits DEF InputInv
    <3> QED
      BY <2>2, <3>1, <3>2
  <2> QED
    BY <2>1, <2>3, <2>4 DEF DepthInv
<1> QED
  BY <1>1, <1>2, <1>3, PTL DEF FrameSpec

-----------------------------------------------------------------------------
(* The frames are given in order *)

\* A block that is read leaves the front of the buffer where it is.
LEMMA LeftWithBlock ==
  ASSUME InputInv, NEW b \in Seq(Cells), NEW pos \in Nat, NEW n \in Nat, pos + n <= Len(stream),
         NEW h \in 0..Arrived, Left(h, b, pos),
         NEW buf \in Seq(Cells), Len(buf) = Len(b) + n,
         \A i \in 1..Len(b) : buf[i] = b[i],
         \A i \in 1..n : buf[Len(b) + i] = stream[pos + i]
  PROVE  Left(h, buf, pos + n)
<1>1. Len(b) \in Nat /\ Len(buf) \in Nat /\ Len(stream) \in Nat /\ Arrived \in Nat
  BY DEF InputInv, InputTypeInv, Arrived
<1>2. ASSUME NEW i \in 1..Len(buf), ~ (i <= Len(b))
      PROVE  \E j \in 1..n : i = Len(b) + j /\ buf[i] = stream[pos + j]
  <2>1. i - Len(b) \in 1..n /\ i = Len(b) + (i - Len(b))
    BY <1>1, <1>2
  <2> QED
    BY <2>1
<1>3. CASE h < Arrived
  <2>1. /\ Len(b) <= pos /\ \A i \in 1..Len(b) : b[i] = stream[pos - Len(b) + i]
        /\ h > 0 => frame_begins[h] <= pos - Len(b)
        /\ pos - Len(b) < frame_begins[h + 1]
    BY <1>3 DEF Left, Contiguous
  <2>2. (pos + n) - Len(buf) = pos - Len(b) /\ Len(buf) <= pos + n
    BY <1>1, <2>1
  <2>3. \A i \in 1..Len(buf) : buf[i] = stream[(pos - Len(b)) + i]
    <3>1. SUFFICES ASSUME NEW i \in 1..Len(buf) PROVE buf[i] = stream[(pos - Len(b)) + i]
      OBVIOUS
    <3>2. CASE i <= Len(b)
      <4>1. i \in 1..Len(b)
        BY <1>1, <3>2
      <4> QED
        BY <2>1, <4>1
    <3>3. CASE ~ (i <= Len(b))
      <4>1. PICK j \in 1..n : i = Len(b) + j /\ buf[i] = stream[pos + j]
        BY <1>2, <3>3
      <4>2. (pos - Len(b)) + i = pos + j
        BY <1>1, <4>1
      <4> QED
        BY <4>1, <4>2
    <3> QED
      BY <3>2, <3>3
  <2> QED
    BY <1>3, <2>1, <2>2, <2>3 DEF Left, Contiguous
<1>4. CASE ~ (h < Arrived)
  <2>1. /\ \A i \in 1..Len(b) : ~ IsStart(b[i])
        /\ Arrived > 0 => frame_begins[Arrived] <= pos
    BY <1>4 DEF Left
  <2>2. \A i \in 1..Len(buf) : ~ IsStart(buf[i])
    <3>1. SUFFICES ASSUME NEW i \in 1..Len(buf), IsStart(buf[i]) PROVE FALSE
      OBVIOUS
    <3>2. ~ (i <= Len(b))
      BY <1>1, <2>1, <3>1
    <3>3. PICK j \in 1..n : i = Len(b) + j /\ buf[i] = stream[pos + j]
      BY <1>2, <3>2
    <3>4. PICK g : g = stream[pos + j].frame
      OBVIOUS
    <3>5. g \in 1..Arrived /\ frame_begins[g] = pos + j
      <4>1. pos + j \in 1..Len(stream)
        BY <1>1
      <4> QED
        BY <1>1, <3>1, <3>3, <3>4, <4>1, JunkIsNoStart DEF InputInv, ContentInv
    <3>6. /\ frame_begins[g] \in Nat /\ Units(g) \in Nat /\ Arrived \in 1..Arrived
          /\ frame_begins[Arrived] \in Nat
      <4>1. Arrived \in 1..Arrived
        BY <1>1, <3>5
      <4>2. \A f \in 1..Arrived : frame_begins[f] \in Nat /\ Units(f) \in Nat
        BY FrameFits DEF InputInv
      <4> QED
        BY <3>5, <4>1, <4>2
    <3>7. frame_begins[g] <= frame_begins[Arrived]
      <4>1. CASE g = Arrived
        BY <3>6, <4>1
      <4>2. CASE g < Arrived
        <5>1. frame_begins[g] + Units(g) <= frame_begins[Arrived]
          BY <3>5, <3>6, <4>2 DEF InputInv, PlacesInv
        <5> QED
          BY <3>6, <5>1
      <4> QED
        BY <1>1, <3>5, <4>1, <4>2
    <3> QED
      BY <1>1, <2>1, <3>5, <3>6, <3>7
  <2>3. Arrived > 0 => frame_begins[Arrived] <= pos + n
    <3>1. Arrived > 0 => frame_begins[Arrived] \in Nat
      BY <1>1, FrameFits DEF InputInv
    <3> QED
      BY <2>1, <3>1
  <2> QED
    BY <1>4, <2>2, <2>3 DEF Left
<1> QED
  BY <1>3, <1>4

\* What is left of a buffer that holds the last of pos units holds the last of them.
LEMMA RestIsContiguous ==
  ASSUME NEW buf \in Seq(Cells), NEW pos \in Nat, Contiguous(buf, pos), NEW k \in 1..Len(buf) + 1
  PROVE  /\ Contiguous(Remaining(buf, k), pos)
         /\ pos - Len(Remaining(buf, k)) = pos - Len(buf) + k - 1
<1> DEFINE rest == Remaining(buf, k)
<1>1. Len(buf) \in Nat /\ k \in Nat \ {0} /\ k <= Len(buf) + 1
  OBVIOUS
<1>2. Len(rest) = Len(buf) - k + 1 /\ \A i \in 1..Len(buf) - k + 1 : rest[i] = buf[k + i - 1]
  <2>1. /\ Len(rest) = IF k <= Len(buf) THEN Len(buf) - k + 1 ELSE 0
        /\ \A i \in 1..Len(buf) - k + 1 : rest[i] = buf[k + i - 1]
    BY <1>1, RemainingIs
  <2> HIDE DEF rest
  <2> QED
    BY <1>1, <2>1
<1> HIDE DEF rest
<1>3. Len(buf) <= pos /\ \A i \in 1..Len(buf) : buf[i] = stream[pos - Len(buf) + i]
  BY DEF Contiguous
<1>4. \A i \in 1..Len(rest) : rest[i] = stream[pos - Len(rest) + i]
  <2>1. SUFFICES ASSUME NEW i \in 1..Len(rest) PROVE rest[i] = stream[pos - Len(rest) + i]
    OBVIOUS
  <2>2. k + i - 1 \in 1..Len(buf) /\ rest[i] = buf[k + i - 1]
    BY <1>1, <1>2
  <2>3. pos - Len(buf) + (k + i - 1) = pos - Len(rest) + i
    BY <1>1, <1>2
  <2> QED
    BY <1>3, <2>2, <2>3
<1>5. Len(rest) <= pos /\ pos - Len(rest) = pos - Len(buf) + k - 1
  BY <1>1, <1>2, <1>3
<1> QED
  BY <1>4, <1>5 DEF rest, Contiguous

\* What is left when the front of the buffer moves, but not behind the next header
LEMMA LeftBefore ==
  ASSUME InputInv, NEW buf \in Seq(Cells), NEW pos \in Nat, NEW h \in 0..Arrived,
         Left(h, buf, pos), NEW k \in 1..Len(buf) + 1,
         h < Arrived => pos - Len(buf) + k - 1 < frame_begins[h + 1]
  PROVE  Left(h, Remaining(buf, k), pos)
<1>1. Len(buf) \in Nat /\ k \in Nat \ {0} /\ Arrived \in Nat
  BY DEF InputInv, InputTypeInv, Arrived
<1>2. CASE h < Arrived
  <2>1. /\ Contiguous(buf, pos) /\ pos - Len(buf) < frame_begins[h + 1]
        /\ h > 0 => frame_begins[h] <= pos - Len(buf)
    BY <1>2 DEF Left
  <2>2. /\ Contiguous(Remaining(buf, k), pos)
        /\ pos - Len(Remaining(buf, k)) = pos - Len(buf) + k - 1
    BY <2>1, RestIsContiguous
  <2>3. h > 0 => frame_begins[h] <= pos - Len(buf) + k - 1
    <3>1. h > 0 => frame_begins[h] \in Nat
      BY <1>1, FrameFits DEF InputInv
    <3> QED
      BY <1>1, <2>1, <3>1
  <2> QED
    BY <1>2, <2>2, <2>3 DEF Left
<1>3. CASE ~ (h < Arrived)
  <2>1. /\ \A i \in 1..Len(buf) : ~ IsStart(buf[i])
        /\ Arrived > 0 => frame_begins[Arrived] <= pos
    BY <1>3 DEF Left
  <2>2. /\ Len(Remaining(buf, k)) = IF k <= Len(buf) THEN Len(buf) - k + 1 ELSE 0
        /\ \A i \in 1..Len(buf) - k + 1 : Remaining(buf, k)[i] = buf[k + i - 1]
    BY <1>1, RemainingIs
  <2>3. \A i \in 1..Len(Remaining(buf, k)) :
          k + i - 1 \in 1..Len(buf) /\ Remaining(buf, k)[i] = buf[k + i - 1]
    BY <1>1, <2>2
  <2> QED
    BY <1>3, <2>1, <2>3 DEF Left
<1> QED
  BY <1>2, <1>3

\* What is left when the front of the buffer moves into the next frame
LEMMA LeftBehind ==
  ASSUME InputInv, NEW buf \in Seq(Cells), NEW pos \in Nat, HeadersIn(buf, pos),
         NEW h \in 0..Arrived, h < Arrived, Left(h, buf, pos), NEW k \in 1..Len(buf) + 1,
         frame_begins[h + 1] <= pos - Len(buf) + k - 1,
         pos - Len(buf) + k - 1 < frame_begins[h + 1] + Units(h + 1)
  PROVE  Left(h + 1, Remaining(buf, k), pos)
<1> DEFINE rest == Remaining(buf, k)
<1>1. /\ Len(buf) \in Nat /\ k \in Nat \ {0} /\ k <= Len(buf) + 1 /\ Arrived \in Nat
      /\ h + 1 \in 1..Arrived
  BY DEF InputInv, InputTypeInv, Arrived
<1>2. Contiguous(buf, pos)
  BY DEF Left
<1>3. Contiguous(rest, pos) /\ pos - Len(rest) = pos - Len(buf) + k - 1
  BY <1>2, RestIsContiguous
<1>4. rest \in Seq(Cells) /\ HeadersIn(rest, pos) /\ Len(rest) \in Nat
  <2>1. pos \in Int
    OBVIOUS
  <2>2. rest \in Seq(Cells) /\ HeadersIn(rest, pos)
    BY <1>1, <2>1, RemainingIs
  <2> HIDE DEF rest
  <2> QED
    BY <2>2
<1> HIDE DEF rest
<1>5. CASE h + 1 < Arrived
  <2>1. frame_begins[h + 1] + Units(h + 1) = frame_begins[(h + 1) + 1]
    BY <1>1, <1>5 DEF InputInv, PlacesInv
  <2> QED
    BY <1>1, <1>3, <1>5, <2>1 DEF Left, rest
<1>6. CASE h + 1 = Arrived
  <2>1. frame_begins[h + 1] \in Nat
    BY <1>1, FrameFits DEF InputInv
  <2>2. \A i \in 1..Len(rest) : ~ IsStart(rest[i])
    <3>1. SUFFICES ASSUME NEW i \in 1..Len(rest), IsStart(rest[i]) PROVE FALSE
      OBVIOUS
    <3>2. PICK g : g = rest[i].frame
      OBVIOUS
    <3>3. g \in 1..Arrived /\ frame_begins[g] = pos - Len(rest) + i
      BY <1>4, <3>1, <3>2 DEF HeadersIn
    <3>4. frame_begins[g] \in Nat /\ Units(g) \in Nat
      BY <3>3, FrameFits DEF InputInv
    <3>5. frame_begins[g] <= frame_begins[h + 1]
      <4>1. CASE g = h + 1
        BY <3>4, <4>1
      <4>2. CASE g < h + 1
        <5>1. frame_begins[g] + Units(g) <= frame_begins[h + 1]
          BY <1>1, <3>3, <4>2 DEF InputInv, PlacesInv
        <5> QED
          BY <2>1, <3>4, <5>1
      <4> QED
        BY <1>1, <1>6, <3>3, <4>1, <4>2
    <3>6. PICK begin, header, front : /\ begin = frame_begins[h + 1] /\ header = frame_begins[g]
                                      /\ front = pos - Len(rest)
      OBVIOUS
    <3>7. begin <= front /\ front \in Int /\ begin \in Nat
      BY <1>1, <1>3, <1>4, <2>1, <3>6
    <3>8. header \in Nat /\ header = front + i /\ i \in Nat /\ i > 0 /\ header <= begin
      BY <1>4, <3>3, <3>4, <3>5, <3>6
    <3> QED
      BY ONLY <3>7, <3>8
  <2>3. frame_begins[Arrived] <= pos
    BY <1>1, <1>3, <1>4, <1>6, <2>1
  <2> QED
    BY <1>6, <2>2, <2>3 DEF Left, rest
<1> QED
  BY <1>1, <1>5, <1>6

\* The first header of the buffer is that of the next frame; where a scan finds none,
\* the next frame is not there yet, or its header is in what the scan does not look at.
LEMMA ScanMeetsNext ==
  ASSUME InputInv, Framed, NEW buf \in Seq(Cells), NEW pos \in Nat, HeadersIn(buf, pos),
         NEW h \in 0..Arrived, Left(h, buf, pos), NEW stop \in Nat, pos <= Len(stream)
  PROVE  /\ FoundAt(buf, stop) # {} =>
              LET at == Min(FoundAt(buf, stop)) IN
              h < Arrived /\ buf[at].frame = h + 1 /\ frame_begins[h + 1] = pos - Len(buf) + at
         /\ FoundAt(buf, stop) = {} /\ h < Arrived => pos < frame_begins[h + 1] + stop
<1>1. \A c : IsHeader(c) <=> IsStart(c)
  BY DEF Framed, IsHeader, IsStart
<1>2. Len(buf) \in Nat /\ Arrived \in Nat /\ Len(stream) \in Nat
  BY DEF InputInv, InputTypeInv, Arrived
<1>3. ASSUME h < Arrived
      PROVE  /\ h + 1 \in 1..Arrived /\ frame_begins[h + 1] \in Nat
             /\ Contiguous(buf, pos) /\ pos - Len(buf) < frame_begins[h + 1]
             /\ h > 0 => frame_begins[h] <= pos - Len(buf)
  <2>1. h + 1 \in 1..Arrived
    BY <1>2, <1>3
  <2> QED
    BY <1>3, <2>1, FrameFits DEF Left, InputInv
\* Where the header of the next frame is, if it is in the buffer
<1>4. ASSUME h < Arrived, frame_begins[h + 1] <= pos
      PROVE  \E i \in 1..Len(buf) : /\ frame_begins[h + 1] = pos - Len(buf) + i
                                    /\ IsHeader(buf[i])
  <2>1. PICK b \in Nat : b = frame_begins[h + 1]
    BY <1>3, <1>4
  <2>2. PICK i \in 1..Len(buf) : b = pos - Len(buf) + i
    <3>1. /\ b - (pos - Len(buf)) \in 1..Len(buf)
          /\ b = pos - Len(buf) + (b - (pos - Len(buf)))
      BY <1>2, <1>3, <1>4, <2>1
    <3> QED
      BY <3>1
  <2>3. buf[i] = stream[b]
    BY <1>3, <1>4, <2>2 DEF Contiguous
  <2>4. IsStart(stream[b])
    BY <1>3, <1>4, <2>1 DEF InputInv, ContentInv
  <2> QED
    BY <1>1, <2>1, <2>2, <2>3, <2>4
<1>5. ASSUME FoundAt(buf, stop) # {}, NEW at, at = Min(FoundAt(buf, stop))
      PROVE  /\ h < Arrived /\ buf[at].frame = h + 1
             /\ frame_begins[h + 1] = pos - Len(buf) + at
  <2>1. /\ at \in 1..Len(buf) /\ IsHeader(buf[at]) /\ IsStart(buf[at])
        /\ \A i \in 1..at - 1 : ~ IsHeader(buf[i])
    BY <1>1, <1>5, FoundIs
  <2>2. h < Arrived
    BY <1>2, <2>1 DEF Left
  <2>3. PICK g : g = buf[at].frame
    OBVIOUS
  <2>4. g \in 1..Arrived /\ frame_begins[g] = pos - Len(buf) + at
    BY <2>1, <2>3 DEF HeadersIn
  <2>5. \A f \in 1..Arrived : frame_begins[f] \in Nat /\ Units(f) \in Nat \ {0}
    BY FrameFits DEF InputInv
  <2>6. \A f \in 1..Arrived : f > g => frame_begins[g] < frame_begins[f]
    <3>1. SUFFICES ASSUME NEW f \in 1..Arrived, f > g PROVE frame_begins[g] < frame_begins[f]
      OBVIOUS
    <3>2. frame_begins[g] + Units(g) <= frame_begins[f]
      BY <1>2, <2>4, <3>1 DEF InputInv, PlacesInv
    <3> QED
      BY <2>4, <2>5, <3>1, <3>2
  <2>7. g > h
    <3>1. h # g
      BY <1>2, <1>3, <2>1, <2>2, <2>4
    <3>2. ~ (h > g)
      <4>1. SUFFICES ASSUME h > g PROVE FALSE
        OBVIOUS
      <4>2. h \in 1..Arrived /\ frame_begins[g] < frame_begins[h]
        BY <1>2, <2>4, <2>6, <4>1
      <4>3. frame_begins[h] \in Nat /\ frame_begins[h] <= pos - Len(buf)
        BY <1>3, <2>2, <2>5, <4>2
      <4> QED
        BY <1>2, <2>1, <2>4, <4>2, <4>3
    <3> QED
      BY <1>2, <2>4, <3>1, <3>2
  <2>8. g = h + 1
    <3>1. SUFFICES ASSUME g # h + 1 PROVE FALSE
      OBVIOUS
    <3>2. g > h + 1 /\ h + 1 \in 1..Arrived
      BY <1>2, <2>2, <2>4, <2>7, <3>1
    <3>3. frame_begins[h + 1] + Units(h + 1) <= frame_begins[g]
      BY <2>4, <3>2 DEF InputInv, PlacesInv
    <3>4. PICK bh, bg, u : bh = frame_begins[h + 1] /\ bg = frame_begins[g] /\ u = Units(h + 1)
      OBVIOUS
    <3>5. /\ bh \in Nat /\ bg \in Nat /\ u \in Nat \ {0} /\ bh + u <= bg
          /\ bg = pos - Len(buf) + at
      BY <2>4, <2>5, <3>2, <3>3, <3>4
    <3>6. bh < bg /\ bh <= pos
      BY <1>2, <2>1, <3>5
    <3>7. PICK i \in 1..Len(buf) : bh = pos - Len(buf) + i /\ IsHeader(buf[i])
      BY <1>4, <2>2, <3>4, <3>6
    <3>8. i \in 1..at - 1
      BY <1>2, <2>1, <3>5, <3>6, <3>7
    <3> QED
      BY <2>1, <3>7, <3>8
  <2> QED
    BY <2>2, <2>3, <2>4, <2>8
<1>6. ASSUME FoundAt(buf, stop) = {}, h < Arrived
      PROVE  pos < frame_begins[h + 1] + stop
  <2>1. SUFFICES ASSUME ~ (pos < frame_begins[h + 1] + stop) PROVE FALSE
    OBVIOUS
  <2>2. frame_begins[h + 1] <= pos
    BY <1>3, <1>6, <2>1
  <2>3. PICK i \in 1..Len(buf) : /\ frame_begins[h + 1] = pos - Len(buf) + i
                                 /\ IsHeader(buf[i])
    BY <1>4, <1>6, <2>2
  <2>4. i \in 1..Len(buf) - stop
    BY <1>2, <1>3, <1>6, <2>1, <2>3
  <2> QED
    BY <1>6, <2>3, <2>4, FoundIs
<1> QED
  BY <1>5, <1>6

\* A frame that is handed over as a whole goes on from what was given last.
LEMMA GivenWithFrame ==
  ASSUME InputInv, given \in Seq(Cells), NEW f \in 1..Arrived,
         NEW u \in Seq(Cells), Len(u) = frame_sizes[f],
         \A k \in 1..frame_sizes[f] : u[k] = Cell(f, k), given' = given \o u
  PROVE  /\ given' \in Seq(Cells)
         /\ \A i \in DOMAIN given' :
              \/ /\ i \in DOMAIN given
                 /\ GivenBefore(i)' = GivenBefore(i) /\ given'[i] = given[i]
              \/ GivenBefore(i)' = LastGiven /\ given'[i] = Cell(f, 1)
              \/ \E k \in 2..frame_sizes[f] :
                   GivenBefore(i)' = Cell(f, k - 1) /\ given'[i] = Cell(f, k)
         /\ LastGiven' = Cell(f, frame_sizes[f])
<1>1. Arrived \in Nat /\ Len(given) \in Nat
  BY DEF InputInv, InputTypeInv, Arrived
<1>2. frame_sizes[f] \in Nat \ {0}
  BY FrameFits DEF InputInv
<1>3. /\ given' \in Seq(Cells) /\ Len(given') = Len(given) + frame_sizes[f]
      /\ \A i \in 1..Len(given) : given'[i] = given[i]
      /\ \A k \in 1..frame_sizes[f] : given'[Len(given) + k] = Cell(f, k)
  <2>1. /\ given' \in Seq(Cells) /\ Len(given') = Len(given) + Len(u)
        /\ \A i \in 1..Len(given) + Len(u) :
             given'[i] = IF i <= Len(given) THEN given[i] ELSE u[i - Len(given)]
    BY ConcatProperties
  <2>2. \A i \in 1..Len(given) : given'[i] = given[i]
    BY <1>1, <1>2, <2>1
  <2>3. ASSUME NEW k \in 1..frame_sizes[f]
        PROVE  given'[Len(given) + k] = Cell(f, k)
    <3>1. /\ Len(given) + k \in 1..Len(given) + Len(u) /\ ~ (Len(given) + k <= Len(given))
          /\ (Len(given) + k) - Len(given) = k
      BY <1>1, <1>2
    <3> QED
      BY <2>1, <3>1
  <2> QED
    BY <2>1, <2>2, <2>3
<1>4. ASSUME NEW i \in DOMAIN given'
      PROVE  \/ /\ i \in DOMAIN given
                /\ GivenBefore(i)' = GivenBefore(i) /\ given'[i] = given[i]
             \/ GivenBefore(i)' = LastGiven /\ given'[i] = Cell(f, 1)
             \/ \E k \in 2..frame_sizes[f] :
                  GivenBefore(i)' = Cell(f, k - 1) /\ given'[i] = Cell(f, k)
  <2> DEFINE c == GivenBefore(i)'
             d == given'[i]
  <2>1. i \in 1..Len(given) + frame_sizes[f]
    BY <1>3, LenProperties
  <2>2. c = IF i = 1 THEN Junk ELSE given'[i - 1]
    BY DEF GivenBefore, Junk, Cell
  <2> HIDE DEF c
  <2>3. CASE i <= Len(given)
    <3>1. i \in 1..Len(given) /\ (i # 1 => i - 1 \in 1..Len(given))
      BY <1>1, <2>1, <2>3
    <3>2. d = given[i] /\ c = IF i = 1 THEN Junk ELSE given[i - 1]
      BY <1>3, <1>4, <2>2, <3>1
    <3>3. i \in DOMAIN given
      BY <3>1, LenProperties
    <3> QED
      BY <3>2, <3>3 DEF GivenBefore
  <2>4. CASE i = Len(given) + 1
    <3>1. d = Cell(f, 1)
      BY <1>2, <1>3, <1>4, <2>4
    <3>2. c = LastGiven
      <4>1. CASE given = <<>>
        BY <2>2, <2>4, <4>1 DEF LastGiven
      <4>2. CASE given # <<>>
        <5>1. Len(given) # 0
          BY <4>2, EmptySeq
        <5>2. i # 1 /\ i - 1 = Len(given) /\ Len(given) \in 1..Len(given)
          BY <1>1, <2>4, <5>1
        <5> QED
          BY <1>3, <2>2, <4>2, <5>2 DEF LastGiven
      <4> QED
        BY <4>1, <4>2
    <3> QED
      BY <3>1, <3>2 DEF c
  <2>5. CASE i > Len(given) + 1
    <3>1. PICK k \in 2..frame_sizes[f] : i = Len(given) + k
      <4>1. i - Len(given) \in 2..frame_sizes[f] /\ i = Len(given) + (i - Len(given))
        BY <1>1, <1>2, <2>1, <2>5
      <4> QED
        BY <4>1
    <3>2. d = Cell(f, k)
      BY <1>2, <1>3, <1>4, <3>1
    <3>3. c = Cell(f, k - 1)
      <4>1. k - 1 \in 1..frame_sizes[f] /\ i - 1 = Len(given) + (k - 1) /\ i # 1
        BY <1>1, <1>2, <3>1
      <4> QED
        BY <1>3, <2>2, <4>1
    <3> QED
      BY <3>2, <3>3 DEF c
  <2> QED
    BY <1>1, <2>1, <2>3, <2>4, <2>5 DEF c
<1>5. LastGiven' = Cell(f, frame_sizes[f])
  <2>1. Len(given') # 0 /\ frame_sizes[f] \in 1..frame_sizes[f]
    BY <1>1, <1>2, <1>3
  <2>2. given'[Len(given')] = Cell(f, frame_sizes[f])
    BY <1>3, <2>1
  <2>3. given' # <<>>
    BY <2>1
  <2> QED
    BY <2>2, <2>3 DEF LastGiven
<1> QED
  BY <1>3, <1>4, <1>5

\* Inside a frame that was handed over each unit follows the one before.
LEMMA FrameContinues ==
  ASSUME InputInv, NEW f \in 1..Arrived, NEW k \in 2..frame_sizes[f]
  PROVE  Continues(Cell(f, k - 1), Cell(f, k))
<1>1. frame_sizes[f] \in Nat \ {0} /\ FrameSize(f) = frame_sizes[f]
  BY FrameFits DEF InputInv, FrameSize
<1> QED
  BY <1>1 DEF Continues, Cell

\* A frame that is given whole comes after the last known one.
LEMMA GivenGrows ==
  ASSUME InputInv, UNCHANGED inputvars, given \in Seq(Cells), FramesInOrder,
         NEW f \in 1..Arrived, GivenUpTo(f - 1, LastGiven), frame_types[f] \in Carrying,
         NEW u \in Seq(Cells), Len(u) = frame_sizes[f],
         \A k \in 1..frame_sizes[f] : u[k] = Cell(f, k), given' = given \o u
  PROVE  FramesInOrder' /\ GivenUpTo(f, LastGiven')
<1>1. /\ frame_mode' = frame_mode /\ frame_sizes' = frame_sizes /\ frame_types' = frame_types
      /\ Arrived \in Nat /\ Len(frame_sizes) = Arrived
  BY DEF inputvars, InputInv, InputTypeInv, Arrived
<1>2. frame_sizes[f] \in Nat \ {0} /\ FrameSize(f) = frame_sizes[f]
  BY FrameFits DEF InputInv, FrameSize
\* What is given first of the frame comes after what was given last.
<1>3. Follows(LastGiven, Cell(f, 1))
  <2>1. PICK k \in 0..f - 1 : /\ LastGiven = Cell(k, FrameSize(k))
                              /\ \A g \in (k + 1)..f - 1 : frame_types[g] \notin Carrying
    BY DEF GivenUpTo
  <2>2. NextKnown(k, f)
    BY <1>1, <2>1 DEF NextKnown, FrameAfter
  <2> QED
    BY <2>1, <2>2 DEF Follows, Begins, Cell
<1>4. \A c, d : Follows(c, d)' <=> Follows(c, d)
  BY <1>1 DEF Follows, Continues, Begins, NextKnown, FrameAfter, FrameSize
<1>5. FramesInOrder'
  <2> SUFFICES ASSUME NEW i \in DOMAIN given'
               PROVE  (Follows(GivenBefore(i), given[i]) \/ RawLead(i))'
    BY DEF FramesInOrder
  <2>1. PICK c, d : c = GivenBefore(i)' /\ d = given'[i]
    OBVIOUS
  <2>2. Follows(c, d)' => (Follows(GivenBefore(i), given[i]))'
    BY <2>1
  <2>3. CASE i \in DOMAIN given /\ c = GivenBefore(i) /\ d = given[i]
    <3>1. Follows(c, d) \/ RawLead(i)
      BY <2>3 DEF FramesInOrder
    <3>2. RawLead(i) => RawLead(i)'
      BY <1>1, <2>1, <2>3 DEF RawLead, Junk, Cell
    <3> QED
      BY <1>4, <2>2, <3>1, <3>2
  <2>4. CASE c = LastGiven /\ d = Cell(f, 1)
    BY <1>3, <1>4, <2>2, <2>4
  <2>5. CASE \E k \in 2..frame_sizes[f] : c = Cell(f, k - 1) /\ d = Cell(f, k)
    BY <1>4, <2>2, <2>5, FrameContinues DEF Follows
  <2> QED
    BY <2>1, <2>3, <2>4, <2>5, GivenWithFrame
<1>6. LastGiven' = Cell(f, FrameSize(f))
  BY <1>2, GivenWithFrame
<1> QED
  BY <1>1, <1>5, <1>6 DEF GivenUpTo

\* What a call of a decoder that looks for headers must leave
LEMMA OrderIsLeft ==
  ASSUME UNCHANGED inputvars, Framed, NEW h \in 0..Arrived, NEW b, NEW pos, NEW c,
         frame_inbuf' = b, frame_pos' = pos, LastGiven' = c,
         Left(h, b, pos), GivenUpTo(h, c), FramesInOrder'
  PROVE  OrderInv'
<1>1. /\ frame_mode' = frame_mode /\ frame_sizes' = frame_sizes /\ frame_types' = frame_types
      /\ frame_begins' = frame_begins /\ stream' = stream /\ Arrived' = Arrived
  BY DEF inputvars, Arrived
<1>2. Left(h, b, pos)'
  BY <1>1 DEF Left, Contiguous, IsStart, AtBurst, AtFrame, HeaderPlace, ExtraHeader
<1>3. Left(h, frame_inbuf, frame_pos)'
  BY <1>2 DEF Left, Contiguous, IsStart, AtBurst, AtFrame, HeaderPlace, ExtraHeader
<1>4. GivenUpTo(h, LastGiven)'
  BY <1>1 DEF GivenUpTo, FrameSize
<1>5. ~ Verbatim'
  BY <1>1 DEF Framed, Verbatim
<1> QED
  BY <1>1, <1>3, <1>4, <1>5 DEF OrderInv

LEMMA NothingGiven ==
  ASSUME UNCHANGED inputvars, UNCHANGED given, FramesInOrder
  PROVE  FramesInOrder' /\ LastGiven' = LastGiven
BY DEF inputvars, FramesInOrder, Follows, Continues, Begins, NextKnown, FrameAfter, FrameSize,
       GivenBefore, RawLead, Junk, Cell, LastGiven

\* A frame that is there as a whole is given.
LEMMA FrameIsGiven ==
  ASSUME InputInv, BufferInv, Framed, FramesInOrder, UNCHANGED inputvars,
         NEW buf \in Seq(Cells), NEW pos \in Nat, HeadersIn(buf, pos), frame_pos' = pos,
         NEW h \in 0..Arrived, h < Arrived, Left(h, buf, pos), GivenUpTo(h, LastGiven),
         NEW f, f = h + 1, frame_types[f] \in Carrying,
         NEW at \in 1..Len(buf), frame_begins[f] = pos - Len(buf) + at,
         NEW offset, offset = Offset(f), NEW size, size = frame_sizes[f],
         Len(buf) - at + 1 >= size + offset,
         NEW taken \in 1..size, Consume(buf, at + offset, size, at - 1 + offset + taken)
  PROVE  OrderInv'
<1>1. Len(buf) \in Nat /\ Arrived \in Nat /\ f \in 1..Arrived
  BY DEF InputInv, InputTypeInv, Arrived
<1>2. /\ size \in Nat \ {0} /\ offset \in Nat /\ frame_begins[f] \in Nat
      /\ Units(f) \in Nat /\ offset + size <= Units(f)
  BY <1>1, FrameFits DEF InputInv
<1>3. PICK i \in Nat \ {0} : i = at + offset
  <2>1. at \in Nat \ {0} /\ offset \in Nat
    BY <1>1, <1>2
  <2> QED
    BY ONLY <2>1
<1>4. PICK len \in Nat, begin \in Nat, takes \in Nat :
         /\ len = Len(buf) /\ begin = frame_begins[f] /\ takes = Units(f)
         /\ begin = pos - len + at /\ len - at + 1 >= size + offset /\ offset + size <= takes
  <2>1. Len(buf) \in Nat /\ frame_begins[f] \in Nat /\ Units(f) \in Nat
    BY <1>1, <1>2
  <2>2. /\ frame_begins[f] = pos - Len(buf) + at /\ Len(buf) - at + 1 >= size + offset
        /\ offset + size <= Units(f)
    BY <1>2
  <2> QED
    BY ONLY <2>1, <2>2
<1>5. PICK u : u = UnitsFrom(buf, i, size)
  OBVIOUS
<1>6. Contiguous(buf, pos)
  BY DEF Left
<1>7. u \in Seq(Cells) /\ Len(u) = size /\ \A k \in 1..size : u[k] = Cell(f, k)
  <2>1. /\ u \in Seq(Cells) /\ Len(u) = size
        /\ \A k \in 1..size : u[k] = IF i + k - 1 <= Len(buf) THEN buf[i + k - 1] ELSE Junk
    <3>1. PICK z \in Nat : z = size
      BY <1>2
    <3>2. LET v == UnitsFrom(buf, i, z) IN
          /\ v \in Seq(Cells) /\ Len(v) = z
          /\ \A k \in 1..z : v[k] = IF i + k - 1 <= Len(buf) THEN buf[i + k - 1] ELSE Junk
      BY ONLY UnitsAreCells, buf \in Seq(Cells), i \in Nat \ {0}, z \in Nat
    <3> QED
      BY ONLY <1>5, <3>1, <3>2
  <2>2. ASSUME NEW k \in 1..size
        PROVE  u[k] = Cell(f, k)
    <3>1. /\ i + k - 1 <= Len(buf) /\ i + k - 1 \in 1..Len(buf)
          /\ pos - Len(buf) + (i + k - 1) = frame_begins[f] + offset + k - 1
      <4>1. i + k - 1 <= len /\ i + k - 1 \in 1..len /\ pos - len + (i + k - 1) = begin + offset + k - 1
        BY ONLY <1>2, <1>3, <1>4, <2>2, pos \in Nat, at \in 1..Len(buf)
      <4> QED
        BY <1>4, <4>1
    <3>2. buf[i + k - 1] = stream[frame_begins[f] + offset + k - 1]
      BY <1>6, <3>1 DEF Contiguous
    <3>3. stream[frame_begins[f] + Offset(f) + k - 1] = Cell(f, k)
      <4>1. k \in 1..frame_sizes[f]
        BY <2>2
      <4> QED
        BY <1>1, <4>1 DEF InputInv, ContentInv
    <3> QED
      BY <2>1, <3>1, <3>2, <3>3
  <2> QED
    BY <2>1, <2>2
<1>8. FramesInOrder' /\ GivenUpTo(f, LastGiven')
  <2>1. given' = given \o u
    BY <1>3, <1>5 DEF Consume
  <2>2. given \in Seq(Cells) /\ f - 1 = h
    BY DEF BufferInv
  <2>3. GivenUpTo(f - 1, LastGiven)
    BY <2>2
  <2> QED
    BY <1>1, <1>7, <2>1, <2>2, <2>3, GivenGrows
<1>9. PICK k \in 1..Len(buf) + 1 : k = at - 1 + offset + taken + 1
  <2>1. at - 1 + offset + taken + 1 \in 1..len + 1
    BY ONLY <1>2, <1>4, at \in 1..Len(buf), taken \in 1..size
  <2> QED
    BY <1>4, <2>1
<1>10. Left(f, Remaining(buf, k), pos)
  <2>1. /\ frame_begins[h + 1] <= pos - Len(buf) + k - 1
        /\ pos - Len(buf) + k - 1 < frame_begins[h + 1] + Units(h + 1)
    <3>1. begin <= pos - len + k - 1 /\ pos - len + k - 1 < begin + takes
      BY ONLY <1>2, <1>4, <1>9, pos \in Nat, at \in 1..Len(buf), taken \in 1..size
    <3> QED
      BY <1>4, <3>1
  <2> QED
    BY <2>1, LeftBehind
<1>11. frame_inbuf' = Remaining(buf, k)
  BY <1>9 DEF Consume
<1>12. PICK b, c : b = frame_inbuf' /\ c = LastGiven'
  OBVIOUS
<1>13. f \in 0..Arrived
  BY <1>1
<1> QED
  BY <1>8, <1>10, <1>11, <1>12, <1>13, OrderIsLeft

\* A call of a decoder that looks for headers
LEMMA FramedKeepsOrder ==
  ASSUME HeadersAreMet, ~Refusing, InputInv, BufferInv, OrderInv, Framed,
         NEW n \in 1..MaxBlock, f_process(n)
  PROVE  OrderInv'
<1>1. PICK buf \in Seq(Cells) :
        /\ Len(buf) = Len(frame_inbuf) + n /\ Len(frame_inbuf) \in Nat /\ Len(buf) > 0
        /\ \A i \in 1..Len(frame_inbuf) : buf[i] = frame_inbuf[i]
        /\ \A i \in 1..n : buf[Len(frame_inbuf) + i] = stream[frame_pos + i]
        /\ UNCHANGED inputvars
        /\ frame_pos \in Nat /\ frame_pos' = frame_pos + n /\ frame_pos + n <= Len(stream)
        /\ HeadersIn(buf, frame_pos + n)
        /\ \/ frame_mode.lib = "dcv" /\ dcv_decoder_process_patch(buf)
           \/ frame_mode.lib = "dca" /\ dca_decoder_process_patch(buf)
  BY CallReads
<1>2. PICK pos \in Nat : pos = frame_pos + n
  BY <1>1
<1>3. /\ frame_pos' = pos /\ pos <= Len(stream) /\ HeadersIn(buf, pos) /\ Len(buf) \in Nat
      /\ Arrived \in Nat
  BY <1>1, <1>2 DEF InputInv, InputTypeInv, Arrived
<1>4. PICK h \in 0..Arrived : GivenUpTo(h, LastGiven) /\ Left(h, frame_inbuf, frame_pos)
  BY DEF OrderInv
<1>5. Left(h, buf, pos)
  <2>1. frame_inbuf \in Seq(Cells) /\ n \in Nat
    BY DEF BufferInv
  <2> QED
    BY <1>1, <1>2, <1>4, <2>1, LeftWithBlock
<1>6. FramesInOrder
  BY DEF OrderInv
<1>7. h < Arrived => /\ h + 1 \in 1..Arrived /\ frame_begins[h + 1] \in Nat
                     /\ pos - Len(buf) < frame_begins[h + 1]
                     /\ h > 0 => frame_begins[h] <= pos - Len(buf)
  <2>1. h < Arrived => h + 1 \in 1..Arrived
    BY <1>3
  <2> QED
    BY <1>5, <2>1, FrameFits DEF Left, InputInv
\* What FrameIsGiven asks of the call
<1>14. /\ UNCHANGED inputvars /\ HeadersIn(buf, pos) /\ frame_pos' = pos
       /\ Left(h, buf, pos) /\ GivenUpTo(h, LastGiven) /\ FramesInOrder
  BY <1>1, <1>3, <1>4, <1>5, <1>6
\* The front of the buffer moves, and no frame is passed.
<1>8. ASSUME NEW g \in 0..Arrived, NEW b, KeepInput(b), Left(g, b, pos),
             GivenUpTo(g, LastGiven)
      PROVE  OrderInv'
  <2>1. frame_inbuf' = b /\ UNCHANGED given
    BY <1>8 DEF KeepInput
  <2>2. FramesInOrder' /\ LastGiven' = LastGiven
    BY <1>1, <1>6, <2>1, NothingGiven
  <2>3. PICK c : c = LastGiven'
    OBVIOUS
  <2> QED
    BY <1>1, <1>3, <1>8, <2>1, <2>2, <2>3, OrderIsLeft
<1>9. ASSUME NEW k \in 1..Len(buf) + 1, KeepInput(Remaining(buf, k)),
             h < Arrived => pos - Len(buf) + k - 1 < frame_begins[h + 1]
      PROVE  OrderInv'
  <2>1. Left(h, Remaining(buf, k), pos)
    BY <1>5, <1>9, LeftBefore
  <2> QED
    BY <1>4, <1>8, <1>9, <2>1
\* What a scan finds is the header of the next frame.
<1>10. ASSUME NEW stop \in Nat
      PROVE  /\ FoundAt(buf, stop) # {} =>
                  LET at == Min(FoundAt(buf, stop)) IN
                  /\ h < Arrived /\ buf[at].frame = h + 1
                  /\ frame_begins[h + 1] = pos - Len(buf) + at
             /\ FoundAt(buf, stop) = {} /\ h < Arrived => pos < frame_begins[h + 1] + stop
  BY <1>3, <1>5, ScanMeetsNext
<1>11. ASSUME NEW stop \in Nat, NEW found, found = FoundAt(buf, stop), found # {},
              NEW at, at = Min(found)
       PROVE  /\ at \in 1..Len(buf) /\ IsHeader(buf[at]) /\ Len(buf) - at + 1 > stop
              /\ h < Arrived /\ buf[at].frame = h + 1
              /\ frame_begins[h + 1] = pos - Len(buf) + at
  BY <1>10, <1>11, FoundIs
<1>12. CASE frame_mode.lib = "dcv" /\ dcv_decoder_process_patch(buf)
  <2>1. PICK found : found = FoundAt(buf, MinScan)
    OBVIOUS
  <2>2. MinScan \in Nat /\ ~ frame_mode.iec
    BY <1>12, FrameAssumption DEF Framed
  <2>3. CASE found = {}
    <3>1. PICK k : k = ScanEnd(buf, MinScan)
      OBVIOUS
    <3>2. KeepInput(Remaining(buf, k))
      BY <1>12, <2>1, <2>3, <3>1 DEF dcv_decoder_process_patch
    <3>3. h < Arrived => pos < frame_begins[h + 1] + MinScan
      BY <1>10, <2>1, <2>2, <2>3
    <3>4. k \in 1..Len(buf) + 1 /\ (k = 1 \/ k = Len(buf) - MinScan + 1)
      BY <1>3, <2>2, <3>1 DEF ScanEnd
    <3>5. h < Arrived => pos - Len(buf) + k - 1 < frame_begins[h + 1]
      <4>1. SUFFICES ASSUME h < Arrived PROVE pos - Len(buf) + k - 1 < frame_begins[h + 1]
        OBVIOUS
      <4>2. PICK len \in Nat, begin \in Nat : len = Len(buf) /\ begin = frame_begins[h + 1]
        BY <1>3, <1>7, <4>1
      <4>3. /\ pos < begin + MinScan /\ pos - len < begin
            /\ k = 1 \/ k = len - MinScan + 1
        BY <1>7, <3>3, <3>4, <4>1, <4>2
      <4>4. pos - len + k - 1 < begin
        BY ONLY <2>2, <4>3, len \in Nat, begin \in Nat, pos \in Nat
      <4> QED
        BY <4>2, <4>4
    <3> QED
      BY <1>9, <3>2, <3>4, <3>5
  <2>4. CASE found # {}
    <3>1. PICK at, size : at = Min(found) /\ size = frame_sizes[buf[at].frame]
      OBVIOUS
    <3>2. /\ at \in 1..Len(buf) /\ h < Arrived /\ buf[at].frame = h + 1
          /\ frame_begins[h + 1] = pos - Len(buf) + at
      BY <1>11, <2>1, <2>2, <2>4, <3>1
    <3>5. KnownFrame(buf[at])
      <4>1. buf[at].frame \in 1..Arrived
        BY <1>7, <3>2
      <4> QED
        BY <1>11, <1>12, <2>1, <2>2, <2>4, <3>1, <4>1, DolbyKnows
    <3>3. CASE Len(buf) - at + 1 < size
      <4>1. KeepInput(Remaining(buf, at))
        BY <1>12, <2>1, <2>4, <3>1, <3>3, <3>5 DEF dcv_decoder_process_patch
      <4>2. at \in 1..Len(buf) + 1 /\ pos - Len(buf) + at - 1 < frame_begins[h + 1]
        BY <1>3, <1>7, <3>2
      <4> QED
        BY <1>9, <4>1, <4>2
    <3>4. CASE ~ (Len(buf) - at + 1 < size)
      <4>1. PICK f : f = h + 1
        OBVIOUS
      <4>2. /\ f \in 1..Arrived /\ size = frame_sizes[f] /\ size \in Nat \ {0}
            /\ Offset(f) = 0 /\ frame_types[f] \in Carrying
        <5>1. f \in 1..Arrived /\ size = frame_sizes[f] /\ Offset(f) = 0
          BY <1>7, <2>2, <3>1, <3>2, <4>1 DEF Offset
        <5>2. frame_types[f] \in Carrying
          BY <3>2, <3>5, <4>1 DEF KnownFrame
        <5> QED
          BY <5>1, <5>2, FrameFits DEF InputInv
      <4>3. Consume(buf, at + 0, size, at - 1 + 0 + size)
        BY <1>12, <2>1, <2>2, <2>4, <3>1, <3>4, <3>5 DEF dcv_decoder_process_patch
      <4>4. Len(buf) - at + 1 >= size + 0
        BY <1>3, <3>2, <3>4, <4>2
      <4>5. PICK offset : offset = 0
        OBVIOUS
      <4>6. Consume(buf, at + offset, size, at - 1 + offset + size) /\ offset = Offset(f)
            /\ Len(buf) - at + 1 >= size + offset /\ size \in 1..size
        BY <4>2, <4>3, <4>4, <4>5
      <4> QED
        BY ONLY <1>14, <3>2, <4>1, <4>2, <4>6, FrameIsGiven, InputInv, BufferInv, Framed,
           buf \in Seq(Cells), pos \in Nat, h \in 0..Arrived
    <3> QED
      BY <3>3, <3>4
  <2> QED
    BY <2>3, <2>4
<1>13. CASE frame_mode.lib = "dca" /\ dca_decoder_process_patch(buf)
  <2>1. PICK found : found = FoundAt(buf, IecHead)
    OBVIOUS
  <2>2. IecHead \in Nat /\ IecHead = 4 /\ frame_mode.iec /\ Gather \in Nat
    BY <1>13, FrameAssumption DEF Framed, IecHead
  <2>3. CASE Len(buf) < Gather
    <3>1. KeepInput(buf)
      BY <1>13, <2>3 DEF dca_decoder_process_patch
    <3> QED
      BY <1>4, <1>5, <1>8, <3>1
\* The next header cannot be behind a gathered buffer: there is none left.
  <2>4. CASE ~ (Len(buf) < Gather) /\ found = {}
    <3>1. KeepInput(SubSeq(buf, 1, IecHead))
      BY <1>13, <2>1, <2>2, <2>4 DEF dca_decoder_process_patch
    <3>2. ~ (h < Arrived)
      <4>1. SUFFICES ASSUME h < Arrived PROVE FALSE
        OBVIOUS
      <4>2. pos < frame_begins[h + 1] + 4
        BY <1>10, <2>1, <2>2, <2>4, <4>1
      <4>3. CASE h = 0
        <5>1. frame_begins[1] - 1 \in Leads
          BY <1>3, <4>1 DEF InputInv, LeadInv
        <5>2. frame_begins[1] - 1 + 4 < Gather
          BY <5>1 DEF HeadersAreMet, IecHead
        <5>3. Len(buf) <= pos
          BY <1>5, <4>1 DEF Left, Contiguous
        <5>4. PICK begin \in Nat : begin = frame_begins[1]
          BY <1>7, <4>1, <4>3
        <5>5. pos < begin + 4 /\ begin - 1 + 4 < Gather /\ Len(buf) >= Gather
          BY <1>3, <2>2, <2>4, <4>2, <4>3, <5>2, <5>4
        <5> QED
          BY <1>3, <2>2, <5>3, <5>5
      <4>4. CASE h # 0
        <5>1. h \in 1..Arrived /\ h > 0
          BY <1>3, <4>1, <4>4
        <5>2. frame_begins[h] + BurstPeriod = frame_begins[h + 1]
          BY <2>2, <4>1, <5>1 DEF InputInv, PlacesInv, Units
        <5>3. frame_begins[h] \in Nat /\ BurstPeriod \in Nat /\ BurstPeriod + 4 <= Gather
          BY <5>1, FrameFits, FrameAssumption DEF InputInv, HeadersAreMet, IecHead
        <5> QED
          <6>1. PICK x, y, len : x = frame_begins[h] /\ y = frame_begins[h + 1] /\ len = Len(buf)
            OBVIOUS
          <6>2. /\ x + BurstPeriod = y /\ x <= pos - len /\ pos < y + 4
                /\ x \in Nat /\ y \in Nat
            BY <1>7, <4>1, <4>2, <5>1, <5>2, <5>3, <6>1
          <6>3. BurstPeriod \in Nat /\ BurstPeriod + 4 <= Gather /\ Gather <= len /\ len \in Nat
            BY <1>3, <2>2, <2>4, <5>3, <6>1
          <6> QED
            BY ONLY <2>2, <6>2, <6>3, pos \in Nat
      <4> QED
        BY <4>3, <4>4
    <3>3. 8 <= Len(buf)
      BY <1>3, <2>4, FrameAssumption DEF IecHead
    <3>4. PICK b : b = SubSeq(buf, 1, IecHead)
      OBVIOUS
    <3>5. \A i \in 1..4 : buf[i] \in Cells /\ i \in 1..Len(buf)
      BY <1>3, <3>3, ElementOfSeq
    <3>6. Len(b) = 4 /\ \A i \in 1..4 : b[i] = buf[i]
      <4>1. /\ Len(b) = IF 1 <= 4 THEN 4 - 1 + 1 ELSE 0
            /\ \A i \in 1..4 - 1 + 1 : b[i] = buf[1 + i - 1]
        BY <3>4, <3>5, SubSeqProperties DEF IecHead
      <4>2. \A i \in 1..4 : 1 + i - 1 = i
        OBVIOUS
      <4> QED
        BY <4>1, <4>2
    <3>7. Left(h, b, pos)
      BY <1>5, <3>2, <3>5, <3>6 DEF Left
    <3> QED
      BY <1>4, <1>8, <3>1, <3>4, <3>7
  <2>5. CASE ~ (Len(buf) < Gather) /\ found # {}
    <3>1. PICK at, size, offset :
            /\ at = Min(found) /\ size = frame_sizes[buf[at].frame]
            /\ offset = IecHead + ExtraHeader(buf[at].frame)
      OBVIOUS
    <3>2. /\ at \in 1..Len(buf) /\ h < Arrived /\ buf[at].frame = h + 1
          /\ frame_begins[h + 1] = pos - Len(buf) + at /\ Len(buf) - at + 1 > 4
      BY <1>11, <2>1, <2>2, <2>5, <3>1
    <3>3. PICK f : f = h + 1
      OBVIOUS
    <3>4. /\ f \in 1..Arrived /\ size = frame_sizes[f] /\ size \in Nat \ {0}
          /\ offset = Offset(f) /\ offset \in Nat /\ Units(f) = BurstPeriod
          /\ size + offset <= BurstPeriod
      <4>1. f \in 1..Arrived /\ size = frame_sizes[f] /\ offset = Offset(f)
            /\ Units(f) = BurstPeriod
        BY <1>7, <2>2, <3>1, <3>2, <3>3 DEF Offset, Units
      <4> QED
        BY <4>1, FrameFits DEF InputInv
    <3>5. CASE KnownFrame(buf[at]) /\ Len(buf) - at + 1 < size + offset
      <4>1. KeepInput(Remaining(buf, at))
        BY <1>13, <2>1, <2>2, <2>5, <3>1, <3>5 DEF dca_decoder_process_patch
      <4>2. at \in 1..Len(buf) + 1 /\ pos - Len(buf) + at - 1 < frame_begins[h + 1]
        BY <1>3, <1>7, <3>2
      <4> QED
        BY <1>9, <4>1, <4>2
    <3>6. CASE KnownFrame(buf[at]) /\ ~ (Len(buf) - at + 1 < size + offset)
      <4>1. PICK taken \in 1..size : Consume(buf, at + offset, size, at - 1 + offset + taken)
        BY <1>13, <2>1, <2>2, <2>5, <3>1, <3>6 DEF dca_decoder_process_patch
      <4>2. frame_types[f] \in Carrying
        BY <3>2, <3>3, <3>6 DEF KnownFrame
      <4>3. Len(buf) - at + 1 >= size + offset
        <5>1. PICK len \in Nat : len = Len(buf)
          BY <1>3
        <5>2. at \in 1..len /\ size \in Nat /\ offset \in Nat /\ ~ (len - at + 1 < size + offset)
          BY <3>2, <3>4, <3>6, <5>1
        <5>3. len - at + 1 >= size + offset
          BY ONLY <5>2, len \in Nat
        <5> QED
          BY <5>1, <5>3
      <4> QED
        BY ONLY <1>14, <3>2, <3>3, <3>4, <4>1, <4>2, <4>3, FrameIsGiven, InputInv, BufferInv,
           Framed, buf \in Seq(Cells), pos \in Nat, h \in 0..Arrived
    <3>7. PICK skip \in Nat : skip = SkippedHeader(f) /\ 3 <= skip /\ skip <= offset
      <4>1. SkippedHeader(f) <= offset
        BY <3>1, <3>2, <3>3, SkipIs
      <4> QED
        BY <4>1, SkipIs
    <3>8. CASE ~ KnownFrame(buf[at]) /\ Len(buf) + 1 < at + skip
      <4>1. KeepInput(Remaining(buf, at))
        BY <1>13, <2>1, <2>2, <2>5, <3>1, <3>2, <3>3, <3>7, <3>8 DEF dca_decoder_process_patch
      <4>2. at \in 1..Len(buf) + 1 /\ pos - Len(buf) + at - 1 < frame_begins[h + 1]
        BY <1>3, <1>7, <3>2
      <4> QED
        BY <1>9, <4>1, <4>2
    <3>9. CASE ~ KnownFrame(buf[at]) /\ ~ (Len(buf) + 1 < at + skip)
      <4>1. PICK k \in 1..Len(buf) + 1 : k = at + skip
        BY <1>3, <3>2, <3>7, <3>9
      <4>2. KeepInput(Remaining(buf, k))
        BY <1>13, <2>1, <2>2, <2>5, <3>1, <3>2, <3>3, <3>7, <3>9, <4>1
           DEF dca_decoder_process_patch
      <4>3. BurstPeriod \in Nat /\ frame_begins[h + 1] \in Nat /\ skip < BurstPeriod
        <5>1. frame_begins[h + 1] \in Nat /\ BurstPeriod \in Nat
          BY <1>7, <3>2, FrameAssumption
        <5>2. size \in Nat \ {0} /\ offset \in Nat /\ size + offset <= BurstPeriod
          BY <3>4
        <5>3. skip < BurstPeriod
          BY ONLY <3>7, <5>1, <5>2, skip \in Nat
        <5> QED
          BY <5>1, <5>3
      <4>4. /\ frame_begins[h + 1] <= pos - Len(buf) + k - 1
            /\ pos - Len(buf) + k - 1 < frame_begins[h + 1] + Units(h + 1)
        <5>1. PICK begin \in Nat : begin = frame_begins[h + 1]
          BY <4>3
        <5>2. PICK len \in Nat : len = Len(buf)
          BY <1>3
        <5>3. begin = pos - len + at /\ k = at + skip /\ at \in 1..len
          BY <3>2, <4>1, <5>1, <5>2
        <5>4. begin <= pos - len + k - 1 /\ pos - len + k - 1 < begin + BurstPeriod
          <6>1. /\ begin \in Nat /\ BurstPeriod \in Nat /\ skip \in Nat /\ 3 <= skip
                /\ skip < BurstPeriod
            BY <3>7, <4>3
          <6> QED
            BY ONLY <5>3, <6>1, pos \in Nat, len \in Nat
        <5> QED
          BY <3>3, <3>4, <5>1, <5>2, <5>4
      <4>5. Left(f, Remaining(buf, k), pos)
        BY <1>3, <1>5, <3>2, <3>3, <4>4, LeftBehind
      <4>6. GivenUpTo(f, LastGiven)
        <5>1. PICK j \in 0..h : /\ LastGiven = Cell(j, FrameSize(j))
                                /\ \A g \in (j + 1)..h : frame_types[g] \notin Carrying
          BY <1>4 DEF GivenUpTo
        <5>2. frame_types[f] \notin Carrying
          BY <3>2, <3>3, <3>9 DEF KnownFrame
        <5>3. j \in 0..f /\ \A g \in (j + 1)..f : g \in (j + 1)..h \/ g = f
          BY <3>3
        <5> QED
          BY <5>1, <5>2, <5>3 DEF GivenUpTo
      <4>7. f \in 0..Arrived
        BY <1>3, <3>4
      <4> QED
        BY <1>8, <4>2, <4>5, <4>6, <4>7
    <3> QED
      BY <3>5, <3>6, <3>8, <3>9
  <2> QED
    BY <2>3, <2>4, <2>5
<1> QED
  BY <1>1, <1>12, <1>13

\* A raw DTS stream is handed over as it is.
LEMMA VerbatimKeepsOrder ==
  ASSUME InputInv, BufferInv, OrderInv, Verbatim, NEW n \in 1..MaxBlock, f_process(n)
  PROVE  OrderInv'
<1>1. PICK buf \in Seq(Cells) :
        /\ Len(buf) = Len(frame_inbuf) + n /\ Len(frame_inbuf) \in Nat /\ Len(buf) > 0
        /\ \A i \in 1..Len(frame_inbuf) : buf[i] = frame_inbuf[i]
        /\ \A i \in 1..n : buf[Len(frame_inbuf) + i] = stream[frame_pos + i]
        /\ UNCHANGED inputvars
        /\ frame_pos \in Nat /\ frame_pos' = frame_pos + n /\ frame_pos + n <= Len(stream)
        /\ \/ frame_mode.lib = "dcv" /\ dcv_decoder_process_patch(buf)
           \/ frame_mode.lib = "dca" /\ dca_decoder_process_patch(buf)
  BY CallReads
<1>2. PICK pos \in Nat : pos = frame_pos + n
  BY <1>1
<1>3. /\ frame_pos' = pos /\ pos <= Len(stream) /\ Len(buf) \in Nat /\ Len(stream) \in Nat
      /\ given \in Seq(Cells) /\ Len(given) \in Nat /\ n \in Nat
      /\ frame_mode.lib = "dca" /\ ~ frame_mode.iec
  BY <1>1, <1>2 DEF InputInv, InputTypeInv, BufferInv, Verbatim
<1>4. /\ Contiguous(frame_inbuf, frame_pos) /\ Len(given) = frame_pos - Len(frame_inbuf)
      /\ \A i \in 1..Len(given) : given[i] = stream[i]
  BY DEF OrderInv
<1>5. Contiguous(buf, pos) /\ pos - Len(buf) = Len(given)
  <2>1. /\ Len(frame_inbuf) <= frame_pos
        /\ \A i \in 1..Len(frame_inbuf) :
             frame_inbuf[i] = stream[frame_pos - Len(frame_inbuf) + i]
    BY <1>4 DEF Contiguous
  <2>2. Len(buf) <= pos /\ pos - Len(buf) = Len(given)
    BY <1>1, <1>2, <1>3, <1>4, <2>1
  <2>3. \A i \in 1..Len(buf) : buf[i] = stream[Len(given) + i]
    <3>1. SUFFICES ASSUME NEW i \in 1..Len(buf) PROVE buf[i] = stream[Len(given) + i]
      OBVIOUS
    <3>2. CASE i <= Len(frame_inbuf)
      <4>1. i \in 1..Len(frame_inbuf)
        BY <1>1, <3>2
      <4> QED
        BY <1>1, <1>4, <2>1, <4>1
    <3>3. CASE ~ (i <= Len(frame_inbuf))
      <4>1. PICK j \in 1..n : i = Len(frame_inbuf) + j
        <5>1. /\ i - Len(frame_inbuf) \in 1..n
              /\ i = Len(frame_inbuf) + (i - Len(frame_inbuf))
          BY <1>1, <1>3, <3>3
        <5> QED
          BY <5>1
      <4>2. Len(given) + i = frame_pos + j
        BY <1>1, <1>3, <1>4, <4>1
      <4> QED
        BY <1>1, <4>1, <4>2
    <3> QED
      BY <3>2, <3>3
  <2> QED
    BY <2>2, <2>3 DEF Contiguous
\* Whatever is given and kept, they are the stream together.
<1>6. ASSUME NEW b, frame_inbuf' = b, Contiguous(b, pos), given' \in Seq(Cells),
             Len(given') = pos - Len(b), Len(b) \in Nat,
             \A i \in 1..Len(given') : given'[i] = stream[i]
      PROVE  OrderInv'
  <2>1. /\ frame_mode' = frame_mode /\ stream' = stream /\ frame_sizes' = frame_sizes
        /\ frame_types' = frame_types
    BY <1>1 DEF inputvars
  <2>2. Contiguous(b, pos)'
    BY <1>6, <2>1 DEF Contiguous
  <2>3. Contiguous(frame_inbuf, frame_pos)'
    BY <1>3, <1>6, <2>2 DEF Contiguous
  <2>4. (Len(given) = frame_pos - Len(frame_inbuf))'
    BY <1>3, <1>6
  <2>5. (\A i \in 1..Len(given) : given[i] = stream[i])'
    BY <1>6, <2>1
  <2>6. FramesInOrder'
    <3> SUFFICES ASSUME NEW i \in 1..Len(given')
                 PROVE  (Follows(GivenBefore(i), given[i]) \/ RawLead(i))'
      <4>1. DOMAIN given' = 1..Len(given')
        BY <1>6, LenProperties
      <4> QED
        BY <4>1 DEF FramesInOrder
    <3>1. PICK c, d : c = GivenBefore(i)' /\ d = given'[i]
      OBVIOUS
    <3>2. i \in 1..Len(stream) /\ (i # 1 => i - 1 \in 1..Len(given'))
      BY <1>3, <1>6
    <3>3. c = Before(stream, i) /\ d = stream[i]
      BY <1>6, <3>1, <3>2 DEF Before, GivenBefore, Junk, Cell
    <3>4. Comes(c, d)
      BY <1>3, <3>2, <3>3 DEF InputInv, RawInv
    <3>5. Follows(c, d)' => (Follows(GivenBefore(i), given[i]))'
      BY <3>1
    <3>6. Follows(c, d) => Follows(c, d)'
      BY <2>1 DEF Follows, Continues, Begins, NextKnown, FrameAfter, FrameSize
    <3>7. c = Junk /\ d = Junk => RawLead(i)'
      BY <1>3, <2>1, <3>1 DEF RawLead, Junk, Cell
    <3> QED
      BY <3>4, <3>5, <3>6, <3>7 DEF Comes
  <2>7. ~ Framed'
    BY <1>3, <2>1 DEF Framed
  <2> QED
    BY <2>3, <2>4, <2>5, <2>6, <2>7 DEF OrderInv
<1>7. CASE KeepInput(buf)
  <2>1. frame_inbuf' = buf /\ given' = given
    BY <1>7 DEF KeepInput
  <2> QED
    BY <1>3, <1>4, <1>5, <1>6, <2>1
<1>8. ASSUME NEW m \in 0..Len(buf), Consume(buf, 1, m, m)
      PROVE  OrderInv'
  <2>1. PICK u : u = UnitsFrom(buf, 1, m)
    OBVIOUS
  <2>2. PICK k \in 1..Len(buf) + 1 : k = m + 1
    <3>1. m + 1 \in 1..Len(buf) + 1
      BY <1>3
    <3> QED
      BY <3>1
  <2>3. given' = given \o u /\ frame_inbuf' = Remaining(buf, k)
    BY <1>8, <2>1, <2>2 DEF Consume
  <2>4. /\ u \in Seq(Cells) /\ Len(u) = m
        /\ \A i \in 1..m : u[i] = stream[Len(given) + i]
    <3>1. /\ u \in Seq(Cells) /\ Len(u) = m
          /\ \A i \in 1..m : u[i] = IF 1 + i - 1 <= Len(buf) THEN buf[1 + i - 1] ELSE Junk
      <4>1. m \in Nat /\ 1 \in Nat \ {0}
        OBVIOUS
      <4> QED
        BY <2>1, <4>1, UnitsAreCells
    <3>2. \A i \in 1..m : 1 + i - 1 = i /\ i <= Len(buf) /\ i \in 1..Len(buf)
      BY <1>3
    <3>3. \A i \in 1..Len(buf) : buf[i] = stream[Len(given) + i]
      BY <1>5 DEF Contiguous
    <3> QED
      BY <3>1, <3>2, <3>3
  <2>5. /\ Contiguous(Remaining(buf, k), pos)
        /\ pos - Len(Remaining(buf, k)) = pos - Len(buf) + k - 1
    BY <1>5, RestIsContiguous
  <2>6. /\ given' \in Seq(Cells) /\ Len(given') = Len(given) + m
        /\ \A i \in 1..Len(given') : given'[i] = stream[i]
    <3>1. /\ given' \in Seq(Cells) /\ Len(given') = Len(given) + Len(u)
          /\ \A i \in 1..Len(given) + Len(u) :
               given'[i] = IF i <= Len(given) THEN given[i] ELSE u[i - Len(given)]
      BY <1>3, <2>3, <2>4, ConcatProperties
    <3>2. ASSUME NEW i \in 1..Len(given')
          PROVE  given'[i] = stream[i]
      <4>1. CASE i <= Len(given)
        BY <1>3, <1>4, <3>1, <4>1
      <4>2. CASE ~ (i <= Len(given))
        <5>1. i - Len(given) \in 1..m /\ Len(given) + (i - Len(given)) = i
          BY <1>3, <2>4, <3>1, <4>2
        <5> QED
          BY <2>4, <3>1, <4>2, <5>1
      <4> QED
        BY <4>1, <4>2
    <3> QED
      BY <2>4, <3>1, <3>2
  <2>7. Len(Remaining(buf, k)) \in Nat
    BY RemainingIs
  <2>8. Len(given') = pos - Len(Remaining(buf, k))
    <3>1. PICK x, r : x = Len(given) /\ r = Len(Remaining(buf, k))
      OBVIOUS
    <3>2. /\ x \in Nat /\ r \in Nat /\ Len(given') = x + m /\ m \in Nat
          /\ pos - r = x + k - 1 /\ k = m + 1
      <4>1. pos - Len(Remaining(buf, k)) = Len(given) + k - 1
        BY <1>5, <2>5
      <4> QED
        BY <1>3, <2>2, <2>6, <2>7, <3>1, <4>1
    <3> QED
      BY ONLY <3>1, <3>2
  <2>9. PICK b : b = Remaining(buf, k)
    OBVIOUS
  <2> QED
    BY <1>6, <2>3, <2>5, <2>6, <2>7, <2>8, <2>9
<1> QED
  BY <1>1, <1>3, <1>7, <1>8 DEF dca_decoder_process_patch

\* Before the first call nothing was read.
LEMMA OrderBefore ==
  ASSUME InputInv', UNCHANGED given, given = <<>>, frame_inbuf' = <<>>, frame_pos' = 0
  PROVE  OrderInv'
<1>1. /\ given' = <<>> /\ Len(given') = 0 /\ Len(frame_inbuf') = 0 /\ frame_pos' = 0
      /\ Arrived' \in Nat
  BY DEF InputInv, InputTypeInv, Arrived
<1>2. Contiguous(frame_inbuf, frame_pos)'
  BY <1>1 DEF Contiguous
<1>3. GivenUpTo(0, LastGiven)'
  BY <1>1 DEF GivenUpTo, LastGiven, Junk, FrameSize
<1>4. Left(0, frame_inbuf, frame_pos)'
  <2>1. CASE 0 < Arrived'
    <3>1. frame_begins'[1] \in Nat \ {0}
      <4>1. frame_begins' \in Seq(Nat \ {0}) /\ 1 \in 1..Len(frame_begins')
        BY <1>1, <2>1 DEF InputInv, InputTypeInv
      <4> QED
        BY <4>1, ElementOfSeq
    <3>2. (frame_pos - Len(frame_inbuf) < frame_begins[0 + 1])'
      BY <1>1, <3>1
    <3> QED
      BY <1>2, <2>1, <3>2 DEF Left
  <2>2. CASE ~ (0 < Arrived')
    BY <1>1, <2>2 DEF Left
  <2> QED
    BY <2>1, <2>2
<1>5. FramesInOrder'
  BY <1>1 DEF FramesInOrder
<1>6. 0 \in 0..Arrived'
  BY <1>1
<1>7. (\E h \in 0..Arrived : GivenUpTo(h, LastGiven) /\ Left(h, frame_inbuf, frame_pos))'
  BY <1>3, <1>4, <1>6
<1>8. (Len(given) = frame_pos - Len(frame_inbuf))'
  <2>1. PICK x, y, z : x = Len(given') /\ y = frame_pos' /\ z = Len(frame_inbuf')
    OBVIOUS
  <2>2. x = 0 /\ y = 0 /\ z = 0
    BY <1>1, <2>1
  <2>3. x = y - z
    BY ONLY <2>2
  <2> QED
    BY ONLY <2>1, <2>3
<1>9. (\A i \in 1..Len(given) : given[i] = stream[i])'
  BY <1>1
<1> QED
  BY <1>2, <1>5, <1>7, <1>8, <1>9 DEF OrderInv

\* Where every header can be met and no burst is for the Dolby decoder, whose bursts are
\* cut short, the libraries are given the frames as they are in the stream.
THEOREM FramesAreInOrder ==
  ASSUME HeadersAreMet, ~Refusing, [lib |-> "dcv", iec |-> TRUE] \notin Modes
  PROVE  FrameSpec => []FramesInOrder
<1>1. FrameInit => InputInv /\ BufferInv /\ OrderInv
  <2>1. FrameInit => OrderInv
    BY DEF FrameInit, OrderInv, Framed, Verbatim, FramesInOrder
  <2> QED
    BY <2>1, InputStarts, BufferStarts
<1>2. InputInv /\ BufferInv /\ OrderInv /\ [FrameNext]_framevars => (InputInv /\ BufferInv /\ OrderInv)'
  <2>1. SUFFICES ASSUME InputInv, BufferInv, OrderInv, [FrameNext]_framevars
                 PROVE  InputInv' /\ BufferInv' /\ OrderInv'
    OBVIOUS
  <2>2. InputInv' /\ BufferInv'
    BY <2>1, InputIsKept, BufferIsKept
  <2>3. CASE FrameStart \/ \E size \in FrameSizes, t \in FrameTypes(frame_mode) : FrameComes(size, t)
    <3>1. Arrived < MaxFrames \/ frame_mode = NoMode
      <4>1. FrameStart => frame_mode = NoMode
        BY <2>1, ModeIs DEF FrameStart, InputInv
      <4>2. \A size, t : FrameComes(size, t) => Arrived < MaxFrames
        BY <2>1, FrameAssumption DEF FrameComes, Arrived, InputInv, InputTypeInv
      <4> QED
        BY <2>3, <4>1, <4>2
    <3>2. given = <<>> /\ given' = given /\ frame_inbuf' = <<>> /\ frame_pos' = 0
      BY <2>1, <2>3, <3>1 DEF BufferInv, FrameStart, FrameComes
    <3> QED
      BY <2>2, <3>2, OrderBefore
  <2>4. CASE \E n \in 1..MaxBlock : n % 2 = 0 /\ f_process(n)
    <3>1. PICK n \in 1..MaxBlock : f_process(n)
      BY <2>4
    <3>2. frame_mode \in Modes
      BY <2>1, <3>1, ModeIs DEF InputInv, f_process
    <3>3. Framed \/ Verbatim
      <4>1. frame_mode \in [lib : {"dcv", "dca"}, iec : BOOLEAN]
        BY <3>2, FrameAssumption
      <4>2. PICK l \in {"dcv", "dca"}, i \in BOOLEAN : frame_mode = [lib |-> l, iec |-> i]
        BY <4>1
      <4> QED
        BY <3>2, <4>2 DEF Framed, Verbatim
    <3> QED
      BY <2>1, <2>2, <3>1, <3>3, FramedKeepsOrder, VerbatimKeepsOrder
  <2>5. CASE UNCHANGED framevars
    BY <2>1, <2>2, <2>5 DEF framevars, inputvars, OrderInv, Framed, Verbatim, Contiguous, Left,
       GivenUpTo, LastGiven, FramesInOrder, Follows, Continues, Begins, NextKnown, FrameAfter,
       FrameSize, GivenBefore, RawLead, Junk, Cell, Arrived, IsStart, AtBurst, AtFrame,
       HeaderPlace, ExtraHeader
  <2> QED
    BY <2>1, <2>3, <2>4, <2>5 DEF FrameNext
<1>3. OrderInv => FramesInOrder
  BY DEF OrderInv
<1> QED
  BY <1>1, <1>2, <1>3, PTL DEF FrameSpec

-----------------------------------------------------------------------------
(* Whole frames, whatever the period of the bursts *)

\* From each header on, buf holds the last of pos units of the stream.
Whole(buf, pos) ==
  \A i \in 1..Len(buf) : IsStart(buf[i]) =>
    \A j \in i..Len(buf) : buf[j] = stream[pos - Len(buf) + j]

\* The headers of buf are behind that of frame k.
Ahead(k, buf, pos) ==
  /\ Whole(buf, pos)
  /\ k > 0 => frame_begins[k] <= pos
  /\ \A i \in 1..Len(buf) : IsStart(buf[i]) => buf[i].frame > k

\* The last of what was given was the end of frame k.
GivenLast(k) == LastGiven = Cell(k, FrameSize(k))

WholeInv ==
  /\ Framed => \E k \in 0..Arrived : GivenLast(k) /\ Ahead(k, frame_inbuf, frame_pos)
  /\ Verbatim => OrderInv
  /\ WholeFramesGiven

\* The frame whose header is behind that of another one comes later.
LEMMA BehindIsLater ==
  ASSUME InputInv, NEW f \in 1..Arrived, NEW g \in 1..Arrived, frame_begins[f] < frame_begins[g]
  PROVE  f < g
<1>1. /\ frame_begins[f] \in Nat /\ frame_begins[g] \in Nat /\ Units(g) \in Nat
      /\ Arrived \in Nat
  <2>1. Arrived \in Nat
    BY DEF InputInv, InputTypeInv, Arrived
  <2> QED
    BY <2>1, FrameFits DEF InputInv
<1>2. g < f => frame_begins[g] + Units(g) <= frame_begins[f]
  BY DEF InputInv, PlacesInv
<1>3. f # g
  BY <1>1
<1> QED
  BY <1>1, <1>2, <1>3

\* What a block adds comes from the stream.
LEMMA AheadWithBlock ==
  ASSUME InputInv, NEW b \in Seq(Cells), NEW pos \in Nat, NEW n \in Nat,
         NEW k \in 0..Arrived, Ahead(k, b, pos),
         NEW buf \in Seq(Cells), Len(buf) = Len(b) + n, HeadersIn(buf, pos + n),
         \A i \in 1..Len(b) : buf[i] = b[i],
         \A i \in 1..n : buf[Len(b) + i] = stream[pos + i]
  PROVE  Ahead(k, buf, pos + n)
<1>1. Len(b) \in Nat /\ Len(buf) \in Nat /\ Arrived \in Nat
  BY DEF InputInv, InputTypeInv, Arrived
<1>2. k > 0 => k \in 1..Arrived /\ frame_begins[k] \in Nat /\ frame_begins[k] <= pos
  <2>1. k > 0 => k \in 1..Arrived /\ frame_begins[k] <= pos
    BY <1>1 DEF Ahead
  <2> QED
    BY <2>1, FrameFits DEF InputInv
<1>3. ASSUME NEW i \in 1..Len(buf), IsStart(buf[i]), NEW j \in i..Len(buf)
      PROVE  buf[j] = stream[(pos + n) - Len(buf) + j]
  <2>1. (pos + n) - Len(buf) + j = pos - Len(b) + j
    BY <1>1
  <2>2. CASE j <= Len(b)
    <3>1. i \in 1..Len(b) /\ j \in 1..Len(b) /\ j \in i..Len(b)
      BY <1>1, <2>2
    <3>2. IsStart(b[i]) /\ buf[j] = b[j]
      BY <1>3, <3>1
    <3>3. b[j] = stream[pos - Len(b) + j]
      BY <3>1, <3>2 DEF Ahead, Whole
    <3> QED
      BY <2>1, <3>2, <3>3
  <2>3. CASE ~ (j <= Len(b))
    <3>1. j - Len(b) \in 1..n /\ Len(b) + (j - Len(b)) = j
      BY <1>1, <2>3
    <3>2. buf[j] = stream[pos + (j - Len(b))]
      BY <3>1
    <3>3. pos + (j - Len(b)) = pos - Len(b) + j
      BY <1>1
    <3> QED
      BY <2>1, <3>2, <3>3
  <2> QED
    BY <2>2, <2>3
<1>4. ASSUME NEW i \in 1..Len(buf), IsStart(buf[i])
      PROVE  buf[i].frame > k
  <2>1. CASE i <= Len(b)
    <3>1. i \in 1..Len(b) /\ buf[i] = b[i]
      BY <1>1, <2>1
    <3> QED
      BY <1>4, <3>1 DEF Ahead
  <2>2. CASE ~ (i <= Len(b))
    <3>1. PICK g : g = buf[i].frame
      OBVIOUS
    <3>2. g \in 1..Arrived /\ frame_begins[g] = (pos + n) - Len(buf) + i
      BY <1>4, <3>1 DEF HeadersIn
    <3>3. frame_begins[g] > pos
      BY <1>1, <2>2, <3>2
    <3>4. CASE k = 0
      BY <1>1, <3>1, <3>2, <3>4
    <3>5. CASE k > 0
      <4>1. frame_begins[g] \in Nat
        BY <3>2, FrameFits DEF InputInv
      <4>2. frame_begins[k] < frame_begins[g]
        BY <1>2, <3>3, <3>5, <4>1
      <4>3. k < g
        BY <1>2, <3>2, <3>5, <4>2, BehindIsLater
      <4> QED
        BY <1>1, <3>1, <3>2, <4>3
    <3> QED
      BY <1>1, <3>4, <3>5
  <2> QED
    BY <2>1, <2>2
<1>5. k > 0 => frame_begins[k] <= pos + n
  BY <1>2
<1> QED
  BY <1>3, <1>4, <1>5 DEF Ahead, Whole

\* Where a unit of the rest of a buffer was
LEMMA RestIsIn ==
  ASSUME NEW buf \in Seq(Cells), NEW m \in 1..Len(buf) + 1
  PROVE  LET rest == Remaining(buf, m) IN
         /\ Len(rest) = Len(buf) - m + 1
         /\ \A i \in 1..Len(rest) : m + i - 1 \in 1..Len(buf) /\ rest[i] = buf[m + i - 1]
<1>1. Len(buf) \in Nat /\ m \in Nat \ {0}
  OBVIOUS
<1>2. /\ Len(Remaining(buf, m)) = IF m <= Len(buf) THEN Len(buf) - m + 1 ELSE 0
      /\ \A i \in 1..Len(buf) - m + 1 : Remaining(buf, m)[i] = buf[m + i - 1]
  BY <1>1, RemainingIs
<1>3. Len(Remaining(buf, m)) = Len(buf) - m + 1
  BY <1>1, <1>2
<1>4. ASSUME NEW i \in 1..Len(Remaining(buf, m))
      PROVE  m + i - 1 \in 1..Len(buf) /\ Remaining(buf, m)[i] = buf[m + i - 1]
  <2>1. i \in 1..Len(buf) - m + 1
    BY <1>3
  <2> QED
    BY <1>1, <1>2, <2>1
<1> QED
  BY <1>3, <1>4

LEMMA RestIsWhole ==
  ASSUME NEW buf \in Seq(Cells), NEW pos \in Nat, Whole(buf, pos), NEW m \in 1..Len(buf) + 1
  PROVE  Whole(Remaining(buf, m), pos)
<1> DEFINE rest == Remaining(buf, m)
<1>1. /\ Len(rest) = Len(buf) - m + 1
      /\ \A i \in 1..Len(rest) : m + i - 1 \in 1..Len(buf) /\ rest[i] = buf[m + i - 1]
  BY RestIsIn
<1> HIDE DEF rest
<1>2. ASSUME NEW i \in 1..Len(rest), IsStart(rest[i]), NEW j \in i..Len(rest)
      PROVE  rest[j] = stream[pos - Len(rest) + j]
  <2>1. j \in 1..Len(rest) /\ Len(buf) \in Nat
    BY <1>1
  <2>2. IsStart(buf[m + i - 1]) /\ m + i - 1 \in 1..Len(buf)
    BY <1>1, <1>2
  <2>3. m + j - 1 \in (m + i - 1)..Len(buf) /\ rest[j] = buf[m + j - 1]
    BY <1>1, <1>2, <2>1
  <2>4. buf[m + j - 1] = stream[pos - Len(buf) + (m + j - 1)]
    BY <2>2, <2>3 DEF Whole
  <2>5. pos - Len(buf) + (m + j - 1) = pos - Len(rest) + j
    BY <1>1, <2>1
  <2> QED
    BY <2>3, <2>4, <2>5
<1> QED
  BY <1>2 DEF Whole, rest

LEMMA AheadOfRest ==
  ASSUME NEW buf \in Seq(Cells), NEW pos \in Nat, NEW k, Ahead(k, buf, pos),
         NEW m \in 1..Len(buf) + 1
  PROVE  Ahead(k, Remaining(buf, m), pos)
<1>1. Whole(Remaining(buf, m), pos)
  BY RestIsWhole DEF Ahead
<1>2. \A i \in 1..Len(Remaining(buf, m)) :
        m + i - 1 \in 1..Len(buf) /\ Remaining(buf, m)[i] = buf[m + i - 1]
  BY RestIsIn
<1>3. \A i \in 1..Len(Remaining(buf, m)) :
        IsStart(Remaining(buf, m)[i]) => Remaining(buf, m)[i].frame > k
  BY <1>2 DEF Ahead
<1> QED
  BY <1>1, <1>3 DEF Ahead

\* When a frame is passed, the headers that are left are behind its own.
LEMMA AheadOfFrame ==
  ASSUME InputInv, NEW buf \in Seq(Cells), NEW pos \in Nat, HeadersIn(buf, pos),
         Whole(buf, pos), NEW at \in 1..Len(buf), IsStart(buf[at]),
         NEW f, f = buf[at].frame, NEW m \in 1..Len(buf) + 1, at < m
  PROVE  Ahead(f, Remaining(buf, m), pos)
<1>1. Whole(Remaining(buf, m), pos)
  BY RestIsWhole
<1>2. f \in 1..Arrived /\ frame_begins[f] = pos - Len(buf) + at /\ Len(buf) \in Nat
  BY DEF HeadersIn
<1>3. frame_begins[f] <= pos
  BY <1>2
<1>4. \A i \in 1..Len(Remaining(buf, m)) :
        m + i - 1 \in 1..Len(buf) /\ Remaining(buf, m)[i] = buf[m + i - 1]
  BY RestIsIn
<1>5. ASSUME NEW j \in 1..Len(buf), IsStart(buf[j]), at < j
      PROVE  buf[j].frame > f
  <2>1. PICK g : g = buf[j].frame
    OBVIOUS
  <2>2. g \in 1..Arrived /\ frame_begins[g] = pos - Len(buf) + j
    BY <1>5, <2>1 DEF HeadersIn
  <2>3. frame_begins[f] < frame_begins[g]
    BY <1>2, <1>5, <2>2
  <2>4. f < g
    BY <1>2, <2>2, <2>3, BehindIsLater
  <2> QED
    BY <1>2, <2>1, <2>2, <2>4
<1>6. ASSUME NEW i \in 1..Len(Remaining(buf, m)), IsStart(Remaining(buf, m)[i])
      PROVE  Remaining(buf, m)[i].frame > f
  <2>1. PICK j \in 1..Len(buf) : j = m + i - 1
    BY <1>4
  <2>2. Remaining(buf, m)[i] = buf[j] /\ at < j
    BY <1>2, <1>4, <2>1
  <2> QED
    BY <1>5, <1>6, <2>2
<1> QED
  BY <1>1, <1>3, <1>6 DEF Ahead

\* A frame that is given whole comes after all that were given.
LEMMA WholeGrows ==
  ASSUME InputInv, UNCHANGED inputvars, given \in Seq(Cells), WholeFramesGiven,
         NEW f \in 1..Arrived, NEW k \in 0..f - 1, GivenLast(k), frame_types[f] \in Carrying,
         NEW u \in Seq(Cells), Len(u) = frame_sizes[f],
         \A i \in 1..frame_sizes[f] : u[i] = Cell(f, i), given' = given \o u
  PROVE  WholeFramesGiven' /\ GivenLast(f)'
<1>1. /\ frame_mode' = frame_mode /\ frame_sizes' = frame_sizes /\ frame_types' = frame_types
      /\ Arrived \in Nat /\ Len(frame_sizes) = Arrived
  BY DEF inputvars, InputInv, InputTypeInv, Arrived
<1>2. frame_sizes[f] \in Nat \ {0} /\ FrameSize(f)' = frame_sizes[f]
  BY <1>1, FrameFits DEF InputInv, FrameSize
<1>3. FollowsLater(LastGiven, Cell(f, 1))
  <2>1. FrameAfter(k, f)
    BY <1>1 DEF FrameAfter
  <2> QED
    BY <2>1 DEF GivenLast, FollowsLater, Begins, Cell
<1>4. \A c, d : FollowsLater(c, d)' <=> FollowsLater(c, d)
  BY <1>1 DEF FollowsLater, Continues, Begins, FrameAfter, FrameSize
<1>5. WholeFramesGiven'
  <2> SUFFICES ASSUME NEW i \in DOMAIN given'
               PROVE  (FollowsLater(GivenBefore(i), given[i]) \/ RawLead(i))'
    BY DEF WholeFramesGiven
  <2>1. PICK c, d : c = GivenBefore(i)' /\ d = given'[i]
    OBVIOUS
  <2>2. FollowsLater(c, d)' => (FollowsLater(GivenBefore(i), given[i]))'
    BY <2>1
  <2>3. CASE i \in DOMAIN given /\ c = GivenBefore(i) /\ d = given[i]
    <3>1. FollowsLater(c, d) \/ RawLead(i)
      BY <2>3 DEF WholeFramesGiven
    <3>2. RawLead(i) => RawLead(i)'
      BY <1>1, <2>1, <2>3 DEF RawLead, Junk, Cell
    <3> QED
      BY <1>4, <2>2, <3>1, <3>2
  <2>4. CASE c = LastGiven /\ d = Cell(f, 1)
    BY <1>3, <1>4, <2>2, <2>4
  <2>5. CASE \E j \in 2..frame_sizes[f] : c = Cell(f, j - 1) /\ d = Cell(f, j)
    BY <1>4, <2>2, <2>5, FrameContinues DEF FollowsLater
  <2> QED
    BY <2>1, <2>3, <2>4, <2>5, GivenWithFrame
<1>6. LastGiven' = Cell(f, frame_sizes[f])
  BY GivenWithFrame
<1>7. GivenLast(f)' <=> LastGiven' = Cell(f, FrameSize(f)')
  BY DEF GivenLast, Cell
<1> QED
  BY <1>2, <1>5, <1>6, <1>7

\* What a call of a decoder that looks for headers must leave
LEMMA WholeIsLeft ==
  ASSUME UNCHANGED inputvars, Framed, NEW k \in 0..Arrived, NEW b, NEW pos,
         frame_inbuf' = b, frame_pos' = pos, GivenLast(k)', Ahead(k, b, pos), WholeFramesGiven'
  PROVE  WholeInv'
<1>1. /\ frame_mode' = frame_mode /\ frame_sizes' = frame_sizes /\ frame_types' = frame_types
      /\ frame_begins' = frame_begins /\ stream' = stream /\ Arrived' = Arrived
  BY DEF inputvars, Arrived
<1>2. Ahead(k, b, pos)'
  BY <1>1 DEF Ahead, Whole, IsStart, AtBurst, AtFrame, HeaderPlace, ExtraHeader
<1>3. Ahead(k, frame_inbuf, frame_pos)'
  BY <1>2 DEF Ahead, Whole, IsStart, AtBurst, AtFrame, HeaderPlace, ExtraHeader
<1>4. ~ Verbatim'
  BY <1>1 DEF Framed, Verbatim
<1> QED
  BY <1>1, <1>3, <1>4 DEF WholeInv

\* A frame that is handed over is there as a whole: behind its header inbuf holds the
\* stream.
LEMMA FrameIsWhole ==
  ASSUME InputInv, BufferInv, Framed, WholeFramesGiven, UNCHANGED inputvars,
         NEW buf \in Seq(Cells), NEW pos \in Nat, HeadersIn(buf, pos), frame_pos' = pos,
         NEW k \in 0..Arrived, GivenLast(k), Ahead(k, buf, pos),
         NEW at \in 1..Len(buf), IsStart(buf[at]), NEW f, f = buf[at].frame,
         frame_types[f] \in Carrying, NEW offset, offset = Offset(f),
         NEW size, size = frame_sizes[f], Len(buf) - at + 1 >= size + offset,
         NEW taken \in 1..size, Consume(buf, at + offset, size, at - 1 + offset + taken)
  PROVE  WholeInv'
<1>1. /\ f \in 1..Arrived /\ frame_begins[f] = pos - Len(buf) + at /\ Arrived \in Nat
      /\ Len(buf) \in Nat /\ f > k
  BY DEF HeadersIn, Ahead, InputInv, InputTypeInv, Arrived
<1>2. size \in Nat \ {0} /\ offset \in Nat /\ frame_begins[f] \in Nat
  BY <1>1, FrameFits DEF InputInv
<1>3. PICK i \in Nat \ {0} : i = at + offset
  <2>1. at \in Nat \ {0} /\ offset \in Nat
    BY <1>1, <1>2
  <2> QED
    BY ONLY <2>1
<1>4. PICK len \in Nat, begin \in Nat :
         /\ len = Len(buf) /\ begin = frame_begins[f] /\ begin = pos - len + at
         /\ len - at + 1 >= size + offset /\ at \in 1..len
  BY <1>1, <1>2
<1>5. PICK u : u = UnitsFrom(buf, i, size)
  OBVIOUS
<1>6. u \in Seq(Cells) /\ Len(u) = size /\ \A j \in 1..size : u[j] = Cell(f, j)
  <2>1. /\ u \in Seq(Cells) /\ Len(u) = size
        /\ \A j \in 1..size : u[j] = IF i + j - 1 <= Len(buf) THEN buf[i + j - 1] ELSE Junk
    <3>1. PICK z \in Nat : z = size
      BY <1>2
    <3>2. LET v == UnitsFrom(buf, i, z) IN
          /\ v \in Seq(Cells) /\ Len(v) = z
          /\ \A j \in 1..z : v[j] = IF i + j - 1 <= Len(buf) THEN buf[i + j - 1] ELSE Junk
      BY ONLY UnitsAreCells, buf \in Seq(Cells), i \in Nat \ {0}, z \in Nat
    <3> QED
      BY ONLY <1>5, <3>1, <3>2
  <2>2. ASSUME NEW j \in 1..size
        PROVE  u[j] = Cell(f, j)
    <3>1. /\ i + j - 1 \in at..len /\ i + j - 1 <= len
          /\ pos - len + (i + j - 1) = begin + offset + j - 1
      BY ONLY <1>2, <1>3, <1>4, <2>2, pos \in Nat
    <3>2. buf[i + j - 1] = stream[pos - Len(buf) + (i + j - 1)]
      BY <1>4, <3>1 DEF Ahead, Whole
    <3>3. stream[frame_begins[f] + Offset(f) + j - 1] = Cell(f, j)
      <4>1. j \in 1..frame_sizes[f]
        BY <2>2
      <4> QED
        BY <1>1, <4>1 DEF InputInv, ContentInv
    <3> QED
      BY <1>4, <2>1, <3>1, <3>2, <3>3
  <2> QED
    BY <2>1, <2>2
<1>7. given' = given \o u
  BY <1>3, <1>5 DEF Consume
<1>8. WholeFramesGiven' /\ GivenLast(f)'
  <2>1. k \in 0..f - 1
    BY <1>1
  <2>2. given \in Seq(Cells)
    BY DEF BufferInv
  <2> QED
    BY <1>1, <1>6, <1>7, <2>1, <2>2, WholeGrows
<1>9. PICK m \in 1..Len(buf) + 1 : m = at - 1 + offset + taken + 1 /\ at < m
  <2>1. /\ at - 1 + offset + taken + 1 \in 1..len + 1
        /\ at < at - 1 + offset + taken + 1
    BY ONLY <1>2, <1>4, taken \in 1..size
  <2> QED
    BY <1>4, <2>1
<1>10. Ahead(f, Remaining(buf, m), pos)
  BY <1>9, AheadOfFrame DEF Ahead
<1>11. frame_inbuf' = Remaining(buf, m)
  BY <1>9 DEF Consume
<1>12. f \in 0..Arrived
  BY ONLY <1>1
<1> QED
  BY <1>8, <1>10, <1>11, <1>12, WholeIsLeft

LEMMA CallKeepsWhole ==
  ASSUME ~Refusing, InputInv, BufferInv, WholeInv, Framed,
         NEW n \in 1..MaxBlock, f_process(n)
  PROVE  WholeInv'
<1>1. PICK buf \in Seq(Cells) :
        /\ Len(buf) = Len(frame_inbuf) + n /\ Len(frame_inbuf) \in Nat /\ Len(buf) > 0
        /\ \A i \in 1..Len(frame_inbuf) : buf[i] = frame_inbuf[i]
        /\ \A i \in 1..n : buf[Len(frame_inbuf) + i] = stream[frame_pos + i]
        /\ UNCHANGED inputvars
        /\ frame_pos \in Nat /\ frame_pos' = frame_pos + n
        /\ HeadersIn(buf, frame_pos + n)
        /\ \/ frame_mode.lib = "dcv" /\ dcv_decoder_process_patch(buf)
           \/ frame_mode.lib = "dca" /\ dca_decoder_process_patch(buf)
  BY CallReads
<1>2. PICK pos \in Nat : pos = frame_pos + n
  BY <1>1
<1>3. frame_pos' = pos /\ HeadersIn(buf, pos) /\ Len(buf) \in Nat
  BY <1>1, <1>2
<1>4. PICK k \in 0..Arrived : GivenLast(k) /\ Ahead(k, frame_inbuf, frame_pos)
  BY DEF WholeInv
<1>5. Ahead(k, buf, pos)
  <2>1. frame_inbuf \in Seq(Cells) /\ n \in Nat
    BY DEF BufferInv
  <2> QED
    BY <1>1, <1>2, <1>4, <2>1, AheadWithBlock
<1>6. WholeFramesGiven
  BY DEF WholeInv
\* Nothing is given, and the headers that are kept are some of those that were there.
<1>7. ASSUME NEW b, KeepInput(b), Ahead(k, b, pos)
      PROVE  WholeInv'
  <2>1. frame_inbuf' = b /\ given' = given
    BY <1>7 DEF KeepInput
  <2>2. WholeFramesGiven' /\ GivenLast(k)'
    BY <1>1, <1>4, <1>6, <2>1 DEF inputvars, WholeFramesGiven, FollowsLater, Continues, Begins,
       FrameAfter, FrameSize, GivenBefore, RawLead, Junk, Cell, GivenLast, LastGiven
  <2> QED
    BY <1>1, <1>3, <1>7, <2>1, <2>2, WholeIsLeft
<1>8. ASSUME NEW m \in 1..Len(buf) + 1, KeepInput(Remaining(buf, m))
      PROVE  WholeInv'
  <2>1. Ahead(k, Remaining(buf, m), pos)
    BY <1>5, <1>8, AheadOfRest
  <2> QED
    BY <1>7, <1>8, <2>1
<1>9. ASSUME NEW at \in 1..Len(buf), IsHeader(buf[at]), NEW f, f = buf[at].frame
      PROVE  /\ IsStart(buf[at]) /\ f \in 1..Arrived /\ frame_sizes[f] \in Nat \ {0}
             /\ Offset(f) \in Nat
  <2>1. IsStart(buf[at])
    BY <1>9, HeaderIsStart
  <2>2. f \in 1..Arrived
    BY <1>3, <1>9, <2>1 DEF HeadersIn
  <2> QED
    BY <2>1, <2>2, FrameFits DEF InputInv
<1>10. CASE frame_mode.lib = "dcv" /\ dcv_decoder_process_patch(buf)
  <2>1. PICK found : found = FoundAt(buf, MinScan)
    OBVIOUS
  <2>2. MinScan \in Nat /\ ~ frame_mode.iec
    BY <1>10, FrameAssumption DEF Framed
  <2>3. CASE found = {}
    <3>1. KeepInput(Remaining(buf, ScanEnd(buf, MinScan)))
      BY <1>10, <2>1, <2>3 DEF dcv_decoder_process_patch
    <3>2. ScanEnd(buf, MinScan) \in 1..Len(buf) + 1
      BY <1>3, <2>2 DEF ScanEnd
    <3> QED
      BY <1>8, <3>1, <3>2
  <2>4. CASE found # {}
    <3>1. PICK at, f, size : at = Min(found) /\ f = buf[at].frame /\ size = frame_sizes[f]
      OBVIOUS
    <3>2. at \in 1..Len(buf) /\ IsHeader(buf[at])
      BY <2>1, <2>2, <2>4, <3>1, FoundIs
    <3>3. IsStart(buf[at]) /\ f \in 1..Arrived /\ size \in Nat \ {0}
      BY <1>9, <3>1, <3>2
    <3>4. KnownFrame(buf[at]) /\ frame_types[f] \in Carrying
      BY <1>10, <3>1, <3>2, <3>3, DolbyKnows DEF KnownFrame
    <3>5. CASE Len(buf) - at + 1 < size
      <4>1. KeepInput(Remaining(buf, at))
        BY <1>10, <2>1, <2>4, <3>1, <3>4, <3>5 DEF dcv_decoder_process_patch
      <4>2. at \in 1..Len(buf) + 1
        BY <1>3, <3>2
      <4> QED
        BY <1>8, <4>1, <4>2
    <3>6. CASE ~ (Len(buf) - at + 1 < size)
      <4>1. PICK offset : offset = 0
        OBVIOUS
      <4>2. Consume(buf, at + offset, size, at - 1 + offset + size)
        BY <1>10, <2>1, <2>2, <2>4, <3>1, <3>4, <3>6, <4>1 DEF dcv_decoder_process_patch
      <4>3. Len(buf) - at + 1 >= size + offset /\ size \in 1..size /\ offset = Offset(f)
        BY <1>3, <2>2, <3>2, <3>3, <3>6, <4>1 DEF Offset
      <4> QED
        BY <1>1, <1>3, <1>4, <1>5, <1>6, <3>1, <3>2, <3>3, <3>4, <4>2, <4>3, FrameIsWhole
    <3> QED
      BY <3>5, <3>6
  <2> QED
    BY <2>3, <2>4
<1>11. CASE frame_mode.lib = "dca" /\ dca_decoder_process_patch(buf)
  <2>1. PICK found : found = FoundAt(buf, IecHead)
    OBVIOUS
  <2>2. IecHead \in Nat /\ IecHead = 4 /\ frame_mode.iec /\ Gather \in Nat
    BY <1>11, FrameAssumption DEF Framed, IecHead
  <2>3. CASE Len(buf) < Gather
    <3>1. KeepInput(buf)
      BY <1>11, <2>3 DEF dca_decoder_process_patch
    <3> QED
      BY <1>5, <1>7, <3>1
\* The front of the buffer that is kept has no header.
  <2>4. CASE ~ (Len(buf) < Gather) /\ found = {}
    <3>1. KeepInput(SubSeq(buf, 1, IecHead))
      BY <1>11, <2>1, <2>2, <2>4 DEF dca_decoder_process_patch
    <3>2. 8 <= Len(buf)
      BY <1>3, <2>4, FrameAssumption DEF IecHead
    <3>3. PICK b : b = SubSeq(buf, 1, IecHead)
      OBVIOUS
    <3>4. \A i \in 1..4 : buf[i] \in Cells /\ i \in 1..Len(buf) /\ i \in 1..Len(buf) - IecHead
      BY <1>3, <2>2, <3>2, ElementOfSeq
    <3>5. Len(b) = 4 /\ \A i \in 1..4 : b[i] = buf[i]
      <4>1. /\ Len(b) = IF 1 <= 4 THEN 4 - 1 + 1 ELSE 0
            /\ \A i \in 1..4 - 1 + 1 : b[i] = buf[1 + i - 1]
        BY <3>3, <3>4, SubSeqProperties DEF IecHead
      <4>2. \A i \in 1..4 : 1 + i - 1 = i
        OBVIOUS
      <4> QED
        BY <4>1, <4>2
    <3>6. \A i \in 1..4 : ~ IsStart(b[i])
      <4>1. \A i \in 1..4 : ~ IsHeader(buf[i])
        BY <2>1, <2>2, <2>4, <3>4, FoundIs
      <4>2. \A c : IsHeader(c) <=> IsStart(c)
        BY <1>11, <2>2 DEF IsHeader, IsStart
      <4> QED
        BY <3>5, <4>1, <4>2
    <3>7. Ahead(k, b, pos)
      <4>1. k > 0 => frame_begins[k] <= pos
        BY <1>5 DEF Ahead
      <4> QED
        BY <3>5, <3>6, <4>1 DEF Ahead, Whole
    <3> QED
      BY <1>7, <3>1, <3>3, <3>7
  <2>5. CASE ~ (Len(buf) < Gather) /\ found # {}
    <3>1. PICK at, f, size, offset : /\ at = Min(found) /\ f = buf[at].frame
                                     /\ size = frame_sizes[f] /\ offset = IecHead + ExtraHeader(f)
      OBVIOUS
    <3>2. at \in 1..Len(buf) /\ IsHeader(buf[at])
      BY <2>1, <2>2, <2>5, <3>1, FoundIs
    <3>3. /\ IsStart(buf[at]) /\ f \in 1..Arrived /\ size \in Nat \ {0}
          /\ offset = Offset(f) /\ offset \in Nat
      <4>1. offset = Offset(f)
        BY <2>2, <3>1 DEF Offset
      <4> QED
        BY <1>9, <3>1, <3>2, <4>1
    <3>4. PICK behind : behind = at + SkippedHeader(f)
      OBVIOUS
    <3>5. CASE KeepInput(Remaining(buf, at))
      <4>1. at \in 1..Len(buf) + 1
        BY <1>3, <3>2
      <4> QED
        BY <1>8, <3>5, <4>1
    <3>6. CASE KeepInput(Remaining(buf, behind)) /\ ~ (Len(buf) + 1 < behind)
      <4>1. behind \in 1..Len(buf) + 1
        BY <1>3, <3>2, <3>4, <3>6, SkipIs
      <4> QED
        BY <1>8, <3>6, <4>1
    <3>7. ASSUME frame_types[f] \in Carrying, ~ (Len(buf) - at + 1 < size + offset),
                 NEW taken \in 1..size, Consume(buf, at + offset, size, at - 1 + offset + taken)
          PROVE  WholeInv'
      <4>1. Len(buf) - at + 1 >= size + offset
        BY <1>3, <3>2, <3>3, <3>7
      <4> QED
        BY <1>1, <1>3, <1>4, <1>5, <1>6, <3>1, <3>2, <3>3, <3>7, <4>1, FrameIsWhole
    <3> QED
      BY <1>11, <2>1, <2>2, <2>5, <3>1, <3>4, <3>5, <3>6, <3>7
         DEF dca_decoder_process_patch, KnownFrame
  <2> QED
    BY <2>3, <2>4, <2>5
<1> QED
  BY <1>1, <1>10, <1>11

\* Whatever the period of the bursts, as long as something is taken of every frame and no
\* burst is for the Dolby decoder, the libraries are given whole frames, each at most once
\* and in order.
THEOREM WholeFramesAreGiven ==
  ASSUME ~Refusing, [lib |-> "dcv", iec |-> TRUE] \notin Modes
  PROVE  FrameSpec => []WholeFramesGiven
<1> DEFINE Inv == InputInv /\ BufferInv /\ WholeInv
<1>1. FrameInit => Inv
  <2>1. FrameInit => WholeInv
    BY DEF FrameInit, WholeInv, Framed, Verbatim, WholeFramesGiven
  <2> QED
    BY <2>1, InputStarts, BufferStarts
<1>2. Inv /\ [FrameNext]_framevars => Inv'
  <2>1. SUFFICES ASSUME InputInv, BufferInv, WholeInv, [FrameNext]_framevars
                 PROVE  InputInv' /\ BufferInv' /\ WholeInv'
    OBVIOUS
  <2>2. InputInv' /\ BufferInv'
    BY <2>1, InputIsKept, BufferIsKept
\* Where nothing was given, the frames are in order, and as whole as can be.
  <2>3. OrderInv' /\ given' = <<>> /\ frame_inbuf' = <<>> /\ frame_pos' = 0 => WholeInv'
    <3>1. SUFFICES ASSUME OrderInv', given' = <<>>, frame_inbuf' = <<>>, frame_pos' = 0
                   PROVE  WholeInv'
      OBVIOUS
    <3>2. GivenLast(0)' /\ WholeFramesGiven'
      BY <3>1 DEF GivenLast, LastGiven, Junk, FrameSize, WholeFramesGiven
    <3>3. Ahead(0, frame_inbuf, frame_pos)'
      BY <3>1 DEF Ahead, Whole
    <3>4. 0 \in 0..Arrived'
      BY <2>2 DEF InputInv, InputTypeInv, Arrived
    <3> QED
      BY <3>1, <3>2, <3>3, <3>4 DEF WholeInv
  <2>4. CASE FrameStart \/ \E size \in FrameSizes, t \in FrameTypes(frame_mode) : FrameComes(size, t)
    <3>1. Arrived < MaxFrames \/ frame_mode = NoMode
      <4>1. FrameStart => frame_mode = NoMode
        BY <2>1, ModeIs DEF FrameStart, InputInv
      <4>2. \A size, t : FrameComes(size, t) => Arrived < MaxFrames
        BY <2>1, FrameAssumption DEF FrameComes, Arrived, InputInv, InputTypeInv
      <4> QED
        BY <2>4, <4>1, <4>2
    <3>2. given = <<>> /\ given' = given /\ frame_inbuf' = <<>> /\ frame_pos' = 0
      BY <2>1, <2>4, <3>1 DEF BufferInv, FrameStart, FrameComes
    <3> QED
      BY <2>2, <2>3, <3>2, OrderBefore
  <2>5. CASE \E n \in 1..MaxBlock : n % 2 = 0 /\ f_process(n)
    <3>1. PICK n \in 1..MaxBlock : f_process(n)
      BY <2>5
    <3>2. frame_mode \in Modes
      BY <2>1, <3>1, ModeIs DEF InputInv, f_process
    <3>3. Framed \/ Verbatim
      <4>1. frame_mode \in [lib : {"dcv", "dca"}, iec : BOOLEAN]
        BY <3>2, FrameAssumption
      <4>2. PICK l \in {"dcv", "dca"}, i \in BOOLEAN : frame_mode = [lib |-> l, iec |-> i]
        BY <4>1
      <4> QED
        BY <3>2, <4>2 DEF Framed, Verbatim
    <3>4. CASE Framed
      BY <2>1, <2>2, <3>1, <3>4, CallKeepsWhole
    <3>5. CASE Verbatim
      <4>1. OrderInv'
        BY <2>1, <3>1, <3>5, VerbatimKeepsOrder DEF WholeInv
      <4>2. WholeFramesGiven'
        <5>1. FramesInOrder'
          BY <4>1 DEF OrderInv
        <5> SUFFICES ASSUME NEW i \in DOMAIN given'
                     PROVE  (FollowsLater(GivenBefore(i), given[i]) \/ RawLead(i))'
          BY DEF WholeFramesGiven
        <5>2. (Follows(GivenBefore(i), given[i]) \/ RawLead(i))'
          BY <5>1 DEF FramesInOrder
        <5>3. (Follows(GivenBefore(i), given[i]))' => (FollowsLater(GivenBefore(i), given[i]))'
          BY DEF Follows, FollowsLater, NextKnown
        <5> QED
          BY <5>2, <5>3
      <4>3. ~ Framed'
        BY <3>1, <3>5 DEF f_process, inputvars, Framed, Verbatim
      <4> QED
        BY <2>2, <4>1, <4>2, <4>3 DEF WholeInv
    <3> QED
      BY <3>3, <3>4, <3>5
  <2>6. CASE UNCHANGED framevars
    <3>1. OrderInv => OrderInv'
      BY <2>6 DEF framevars, inputvars, OrderInv, Framed, Verbatim, Contiguous, Left,
         GivenUpTo, LastGiven, FramesInOrder, Follows, Continues, Begins, NextKnown, FrameAfter,
         FrameSize, GivenBefore, RawLead, Junk, Cell, Arrived, IsStart, AtBurst, AtFrame,
         HeaderPlace, ExtraHeader
    <3>2. WholeFramesGiven'
      BY <2>1, <2>6 DEF framevars, inputvars, WholeInv, WholeFramesGiven, FollowsLater,
         Continues, Begins, FrameAfter, FrameSize, GivenBefore, RawLead, Junk, Cell
    <3>3. \A k : GivenLast(k) /\ Ahead(k, frame_inbuf, frame_pos) =>
                 (GivenLast(k) /\ Ahead(k, frame_inbuf, frame_pos))'
      BY <2>6 DEF framevars, inputvars, GivenLast, LastGiven, FrameSize, Junk, Cell, Ahead,
         Whole, IsStart, AtBurst, AtFrame, HeaderPlace, ExtraHeader
    <3> QED
      BY <2>1, <2>2, <2>6, <3>1, <3>2, <3>3 DEF framevars, inputvars, WholeInv, Framed,
         Verbatim, Arrived
  <2> QED
    BY <2>1, <2>2, <2>4, <2>5, <2>6 DEF FrameNext
<1>3. Inv => WholeFramesGiven
  BY DEF WholeInv
<1> QED
  BY <1>1, <1>2, <1>3, PTL DEF FrameSpec

=============================================================================
