----------------------------- MODULE BufferProofs -----------------------------
(***************************************************************************)
(* Proofs about the two buffers that a caller's audio goes round in:       *)
(* HwMixer implements MixQueue and AudioDelay implements DelayLine, for    *)
(* every size of the buffer, every block and every content.  Both rest on  *)
(* the same facts about a window of n places that starts at a pointer and  *)
(* goes on from the start of the buffer when it passes the end.            *)
(***************************************************************************)
EXTENDS HwMixer, AudioDelay, SequenceTheorems, TLAPS

-----------------------------------------------------------------------------
(* A window of a circular buffer of B places *)

\* The place j after p
Place(B, p, j) == IF p + j >= B THEN p + j - B ELSE p + j

\* What is found in the n places from p on
Window(B, mem, p, n) == [i \in 1..n |-> mem[Place(B, p, i - 1)]]

LEMMA PlaceType ==
  ASSUME NEW B \in Nat, NEW p \in 0..B - 1, NEW j \in 0..B
  PROVE  Place(B, p, j) \in 0..B - 1
BY DEF Place

LEMMA PlaceAdd ==
  ASSUME NEW B \in Nat, NEW p \in 0..B - 1, NEW n \in 0..B, NEW j \in Nat, n + j <= B
  PROVE  Place(B, Place(B, p, n), j) = Place(B, p, n + j)
BY DEF Place

LEMMA WindowShape ==
  ASSUME NEW B, NEW mem, NEW p, NEW n \in Nat
  PROVE  /\ Len(Window(B, mem, p, n)) = n
         /\ \A i \in 1..n : Window(B, mem, p, n)[i] = mem[Place(B, p, i - 1)]
BY DEF Window

LEMMA WindowType ==
  ASSUME NEW B \in Nat, NEW S, NEW mem \in [0..B - 1 -> S],
         NEW p \in 0..B - 1, NEW n \in 0..B
  PROVE  Window(B, mem, p, n) \in Seq(S)
<1>1. \A i \in 1..n : mem[Place(B, p, i - 1)] \in S
  <2> TAKE i \in 1..n
  <2>1. i - 1 \in 0..B
    OBVIOUS
  <2>2. Place(B, p, i - 1) \in 0..B - 1
    BY <2>1, PlaceType
  <2> QED
    BY <2>2
<1>2. Window(B, mem, p, n) \in [1..n -> S]
  BY <1>1 DEF Window
<1> QED
  BY <1>2

LEMMA EmptyWindow ==
  ASSUME NEW B, NEW mem, NEW p PROVE Window(B, mem, p, 0) = <<>>
BY DEF Window

\* The first places of a window, and the others
LEMMA WindowFirst ==
  ASSUME NEW B \in Nat, NEW S, NEW mem \in [0..B - 1 -> S],
         NEW p \in 0..B - 1, NEW n \in 0..B, NEW k \in 0..n
  PROVE  SubSeq(Window(B, mem, p, n), 1, k) = Window(B, mem, p, k)
<1> DEFINE all == Window(B, mem, p, n)
           first == Window(B, mem, p, k)
           sub == SubSeq(all, 1, k)
<1>1. /\ all \in Seq(S) /\ Len(all) = n
      /\ \A i \in 1..n : all[i] = mem[Place(B, p, i - 1)]
  <2>1. all \in Seq(S)
    BY WindowType
  <2>2. n \in Nat
    OBVIOUS
  <2> QED
    BY <2>1, <2>2, WindowShape
<1>2. /\ first \in Seq(S) /\ Len(first) = k
      /\ \A i \in 1..k : first[i] = mem[Place(B, p, i - 1)]
  <2>1. k \in 0..B
    OBVIOUS
  <2> QED
    BY <2>1, WindowType, WindowShape
<1> HIDE DEF all, first
<1>3. \A i \in 1..k : all[i] \in S
  BY <1>1, ElementOfSeq
<1>4. /\ sub \in Seq(S)
      /\ Len(sub) = IF 1 <= k THEN k - 1 + 1 ELSE 0
      /\ \A i \in 1..k - 1 + 1 : sub[i] = all[1 + i - 1]
  BY <1>1, <1>3, SubSeqProperties
<1> HIDE DEF sub
<1>5. Len(sub) = k /\ \A i \in 1..k : sub[i] = all[i]
  BY <1>4
<1>6. \A i \in 1..Len(sub) : sub[i] = first[i]
  BY <1>1, <1>2, <1>5
<1>7. sub = first
  BY <1>2, <1>4, <1>5, <1>6, SeqEqual
<1> QED
  BY <1>7 DEF all, first, sub

LEMMA WindowRest ==
  ASSUME NEW B \in Nat, NEW S, NEW mem \in [0..B - 1 -> S],
         NEW p \in 0..B - 1, NEW n \in 0..B, NEW k \in 0..n
  PROVE  SubSeq(Window(B, mem, p, n), k + 1, n) = Window(B, mem, Place(B, p, k), n - k)
<1> DEFINE all == Window(B, mem, p, n)
           q == Place(B, p, k)
           rest == Window(B, mem, q, n - k)
           sub == SubSeq(all, k + 1, n)
<1>1. /\ all \in Seq(S) /\ Len(all) = n
      /\ \A i \in 1..n : all[i] = mem[Place(B, p, i - 1)]
  <2>1. all \in Seq(S)
    BY WindowType
  <2>2. n \in Nat
    OBVIOUS
  <2> QED
    BY <2>1, <2>2, WindowShape
<1>2. q \in 0..B - 1 /\ n - k \in 0..B /\ k \in 0..B
  BY PlaceType
<1>3. \A i \in 1..n - k : Place(B, q, i - 1) = Place(B, p, (k + i) - 1)
  BY DEF Place
<1> HIDE DEF q
<1>4. /\ rest \in Seq(S) /\ Len(rest) = n - k
      /\ \A i \in 1..n - k : rest[i] = mem[Place(B, q, i - 1)]
  <2>1. rest \in Seq(S)
    BY <1>2, WindowType
  <2>2. n - k \in Nat
    OBVIOUS
  <2> QED
    BY <2>1, <2>2, WindowShape
<1> HIDE DEF all, rest
<1>5. \A i \in k + 1..n : all[i] \in S
  BY <1>1, ElementOfSeq
<1>6. /\ sub \in Seq(S)
      /\ Len(sub) = IF k + 1 <= n THEN n - (k + 1) + 1 ELSE 0
      /\ \A i \in 1..n - (k + 1) + 1 : sub[i] = all[k + 1 + i - 1]
  BY <1>1, <1>5, SubSeqProperties
<1> HIDE DEF sub
<1>7. Len(sub) = n - k
  BY <1>6
<1>8. ASSUME NEW i \in 1..n - k PROVE sub[i] = rest[i]
  <2>1. k + i \in 1..n /\ k + 1 + i - 1 = k + i /\ i \in 1..n - (k + 1) + 1
    OBVIOUS
  <2>2. sub[i] = all[k + i]
    BY <1>6, <2>1
  <2>3. all[k + i] = mem[Place(B, p, (k + i) - 1)]
    BY <1>1, <2>1
  <2> QED
    BY <1>3, <1>4, <2>2, <2>3
<1>9. sub = rest
  <2>1. \A i \in 1..Len(sub) : sub[i] = rest[i]
    BY <1>7, <1>8
  <2> QED
    BY <1>4, <1>6, <1>7, <2>1, SeqEqual
<1> QED
  BY <1>9 DEF all, q, rest, sub

\* The data is put where the window of n places ends, and the window is left as it was
Appended(B, S, mem, new, p, n, data) ==
  /\ B \in Nat /\ mem \in [0..B - 1 -> S] /\ new \in [0..B - 1 -> S]
  /\ p \in 0..B - 1 /\ n \in 0..B
  /\ data \in Seq(S) /\ n + Len(data) <= B
  /\ \A j \in 0..Len(data) - 1 : new[Place(B, p, n + j)] = data[j + 1]
  /\ \A j \in 0..n - 1 : new[Place(B, p, j)] = mem[Place(B, p, j)]

IsJoin(all, first, rest) == all = first \o rest

LEMMA WindowAppend ==
  ASSUME NEW B, NEW S, NEW mem, NEW new, NEW p, NEW n, NEW data,
         Appended(B, S, mem, new, p, n, data)
  PROVE  IsJoin(Window(B, new, p, n + Len(data)), Window(B, mem, p, n), data)
<1> USE DEF Appended, IsJoin
<1> DEFINE k == Len(data)
           old == Window(B, mem, p, n)
           all == Window(B, new, p, n + k)
           joined == old \o data
<1>1. /\ old \in Seq(S) /\ Len(old) = n
      /\ \A i \in 1..n : old[i] = mem[Place(B, p, i - 1)]
  <2>1. old \in Seq(S)
    BY WindowType
  <2>2. n \in Nat
    OBVIOUS
  <2> QED
    BY <2>1, <2>2, WindowShape
<1>2. k \in Nat /\ n + k \in 0..B
  OBVIOUS
<1>3. /\ all \in Seq(S) /\ Len(all) = n + k
      /\ \A i \in 1..n + k : all[i] = new[Place(B, p, i - 1)]
  <2>1. all \in Seq(S)
    BY <1>2, WindowType
  <2>2. n + k \in Nat
    BY <1>2
  <2> QED
    BY <2>1, <2>2, WindowShape
<1> HIDE DEF old, all
<1>4. /\ joined \in Seq(S) /\ Len(joined) = n + k
      /\ \A i \in 1..n + k : joined[i] = IF i <= n THEN old[i] ELSE data[i - n]
  BY <1>1, ConcatProperties
<1> HIDE DEF joined
<1>5. ASSUME NEW i \in 1..n + k PROVE all[i] = joined[i]
  <2>1. CASE i <= n
    <3>1. i - 1 \in 0..n - 1 /\ i \in 1..n
      BY <2>1
    <3>2. new[Place(B, p, i - 1)] = mem[Place(B, p, i - 1)]
      BY <3>1
    <3> QED
      BY <1>1, <1>3, <1>4, <2>1, <3>1, <3>2
  <2>2. CASE ~(i <= n)
    <3> DEFINE j == i - 1 - n
    <3>1. j \in 0..k - 1 /\ n + j = i - 1 /\ j + 1 = i - n
      BY <1>2, <2>2
    <3> HIDE DEF j
    <3>2. new[Place(B, p, n + j)] = data[j + 1]
      BY <3>1
    <3>3. joined[i] = data[i - n]
      BY <1>4, <2>2
    <3> QED
      BY <1>3, <3>1, <3>2, <3>3
  <2> QED
    BY <2>1, <2>2
<1>6. \A i \in 1..Len(all) : all[i] = joined[i]
  BY <1>3, <1>5
<1>7. all = joined
  BY <1>3, <1>4, <1>6, SeqEqual
<1> QED
  BY <1>7 DEF all, joined, old

-----------------------------------------------------------------------------
(* The hardware mixer: its pointers *)

\* The bytes that wait
C == aml_hw_mixer_get_content_l

\* What the guard of 64 bytes is for: the pointers are equal only when nothing waits
MixInv == MixTypeOK /\ C <= BufSize - MixGuard

LEMMA ContentNat ==
  ASSUME MixTypeOK
  PROVE  /\ BufSize \in Nat \ {0} /\ MixGuard \in 1..BufSize /\ MaxMix \in Nat
         /\ rp \in 0..BufSize - 1 /\ wp \in 0..BufSize - 1
         /\ C \in 0..BufSize - 1
BY MixSizesAssumption DEF MixTypeOK, MixAddresses, C, aml_hw_mixer_get_content_l

LEMMA AdvanceIsPlace ==
  ASSUME NEW p \in 0..BufSize - 1, NEW n \in 0..BufSize
  PROVE  /\ Advance(p, n) = Place(BufSize, p, n)
         /\ Advance(p, n) \in 0..BufSize - 1
<1>1. BufSize \in Nat /\ (p + n <= BufSize => p + n \in 0..BufSize)
  BY MixSizesAssumption
<1>2. CASE p + n = BufSize
  <2>1. BufSize % BufSize = 0
    BY <1>1
  <2> QED
    BY <1>1, <1>2, <2>1 DEF Advance, Place
<1>3. CASE p + n < BufSize
  <2>1. (p + n) % BufSize = p + n
    BY <1>1, <1>3
  <2> QED
    BY <1>1, <1>3, <2>1 DEF Advance, Place
<1>4. CASE p + n > BufSize
  BY <1>1, <1>4 DEF Advance, Place
<1> QED
  BY <1>1, <1>2, <1>3, <1>4

LEMMA CopyOutIsWindow ==
  ASSUME NEW p \in 0..BufSize - 1, NEW n \in 0..BufSize
  PROVE  CopyOut(p, n) = Window(BufSize, start_buf, p, n)
BY MixSizesAssumption DEF CopyOut, Window, Place

QueuedShape == Queued = Window(BufSize, start_buf, rp, C)

LEMMA QueuedIsWindow == MixTypeOK => QueuedShape
<1> SUFFICES ASSUME MixTypeOK PROVE QueuedShape
  OBVIOUS
<1>1. C \in 0..BufSize
  BY ContentNat
<1> QED
  BY <1>1, ContentNat, CopyOutIsWindow DEF Queued, C, QueuedShape

LEMMA QueuedType ==
  ASSUME MixTypeOK PROVE Queued \in Seq(MixBytes) /\ Len(Queued) = C
<1>1. start_buf \in [0..BufSize - 1 -> MixBytes]
  BY DEF MixTypeOK, MixAddresses
<1>2. C \in 0..BufSize /\ C \in Nat
  BY ContentNat
<1>3. Window(BufSize, start_buf, rp, C) \in Seq(MixBytes)
  BY <1>1, <1>2, ContentNat, WindowType
<1>4. Len(Window(BufSize, start_buf, rp, C)) = C
  BY <1>2, WindowShape
<1> QED
  BY <1>3, <1>4, QueuedIsWindow DEF QueuedShape

\* The space there is for a write is what the queue lacks of its capacity
LEMMA SpaceIsRest ==
  ASSUME MixInv PROVE aml_hw_mixer_get_space = BufSize - MixGuard - C
BY ContentNat DEF MixInv, aml_hw_mixer_get_space, C, aml_hw_mixer_get_content_l

LEMMA RequestType ==
  ASSUME NEW data \in MixRequests
  PROVE  data \in Seq(MixBytes) /\ Len(data) \in Nat
BY MixSizesAssumption DEF MixRequests

-----------------------------------------------------------------------------
(* The hardware mixer: writing and reading *)

\* Byte j of a write lands at the j-th place from its pointer
LEMMA CopyInMem ==
  ASSUME MixTypeOK, NEW data \in Seq(MixBytes), NEW p \in 0..BufSize - 1,
         NEW n \in 0..BufSize, n <= Len(data), CopyIn(p, data, n)
  PROVE  /\ start_buf' \in [0..BufSize - 1 -> MixBytes]
         /\ \A j \in 0..n - 1 : start_buf'[Place(BufSize, p, j)] = data[j + 1]
         /\ \A j \in n..BufSize - 1 :
              start_buf'[Place(BufSize, p, j)] = start_buf[Place(BufSize, p, j)]
<1>1. \A i \in 1..n : data[i] \in MixBytes
  BY ElementOfSeq
<1>2. BufSize \in Nat /\ start_buf \in [0..BufSize - 1 -> MixBytes]
  BY ContentNat DEF MixTypeOK, MixAddresses
<1>3. start_buf' \in [0..BufSize - 1 -> MixBytes]
  BY <1>1, <1>2 DEF CopyIn, MixAddresses
<1>4. \A j \in 0..n - 1 : start_buf'[Place(BufSize, p, j)] = data[j + 1]
  BY <1>2 DEF CopyIn, MixAddresses, Place
<1>5. \A j \in n..BufSize - 1 :
        start_buf'[Place(BufSize, p, j)] = start_buf[Place(BufSize, p, j)]
  BY <1>2 DEF CopyIn, MixAddresses, Place
<1> QED
  BY <1>3, <1>4, <1>5

\* The write pointer is C places after the read pointer
LEMMA WriteAfterContent ==
  ASSUME MixTypeOK, NEW j \in Nat
  PROVE  /\ C + j <= BufSize => Place(BufSize, rp, C + j) = Place(BufSize, wp, j)
         /\ j < C => Place(BufSize, rp, j) = Place(BufSize, wp, BufSize - C + j)
BY ContentNat DEF Place, C, aml_hw_mixer_get_content_l

LEMMA MixAppend ==
  ASSUME MixTypeOK, MixTypeOK', NEW data \in Seq(MixBytes), C + Len(data) < BufSize,
         CopyIn(wp, data, Len(data)), wp' = Advance(wp, Len(data)), rp' = rp
  PROVE  C' = C + Len(data) /\ Queued' = Queued \o data
<1> DEFINE n == Len(data)
<1>1. /\ BufSize \in Nat /\ rp \in 0..BufSize - 1 /\ wp \in 0..BufSize - 1
      /\ C \in 0..BufSize - 1 /\ C \in 0..BufSize
      /\ n \in 0..BufSize /\ C + n < BufSize
  BY ContentNat
<1>2. wp' = Place(BufSize, wp, n)
  BY <1>1, AdvanceIsPlace
<1>3. C' = C + n
  <2> HIDE DEF n
  <2>1. rp' = rp
    OBVIOUS
  <2>2. CASE wp >= rp
    BY <1>1, <1>2, <2>1, <2>2 DEF C, aml_hw_mixer_get_content_l, Place
  <2>3. CASE wp < rp
    BY <1>1, <1>2, <2>1, <2>3 DEF C, aml_hw_mixer_get_content_l, Place
  <2> QED
    BY <1>1, <2>2, <2>3
<1>4. /\ start_buf \in [0..BufSize - 1 -> MixBytes]
      /\ start_buf' \in [0..BufSize - 1 -> MixBytes]
  BY DEF MixTypeOK, MixAddresses
<1>5. \A j \in 0..n - 1 : start_buf'[Place(BufSize, rp, C + j)] = data[j + 1]
  <2> TAKE j \in 0..n - 1
  <2>1. start_buf'[Place(BufSize, wp, j)] = data[j + 1]
    <3>1. n <= Len(data) /\ CopyIn(wp, data, n)
      BY <1>1
    <3> HIDE DEF n
    <3> QED
      BY <1>1, <3>1, CopyInMem
  <2>2. j \in Nat /\ C + j <= BufSize
    BY <1>1
  <2>3. Place(BufSize, rp, C + j) = Place(BufSize, wp, j)
    BY <2>2, WriteAfterContent
  <2> QED
    BY <2>1, <2>3
<1>6. \A j \in 0..C - 1 :
        start_buf'[Place(BufSize, rp, j)] = start_buf[Place(BufSize, rp, j)]
  <2> TAKE j \in 0..C - 1
  <2> DEFINE k == BufSize - C + j
  <2>1. j \in Nat /\ j < C /\ k \in n..BufSize - 1
    BY <1>1
  <2>2. Place(BufSize, rp, j) = Place(BufSize, wp, k)
    BY <2>1, WriteAfterContent
  <2> HIDE DEF k
  <2>3. start_buf'[Place(BufSize, wp, k)] = start_buf[Place(BufSize, wp, k)]
    <3>1. n <= Len(data) /\ CopyIn(wp, data, n)
      BY <1>1
    <3> HIDE DEF n
    <3> QED
      BY <1>1, <2>1, <3>1, CopyInMem
  <2> QED
    BY <2>2, <2>3
<1>7. Window(BufSize, start_buf', rp, C + n) = Window(BufSize, start_buf, rp, C) \o data
  <2>1. Appended(BufSize, MixBytes, start_buf, start_buf', rp, C, data)
    BY <1>1, <1>4, <1>5, <1>6 DEF Appended
  <2>2. IsJoin(Window(BufSize, start_buf', rp, C + n), Window(BufSize, start_buf, rp, C), data)
    BY <2>1, WindowAppend
  <2> QED
    BY <2>2 DEF IsJoin
<1>8. QueuedShape /\ QueuedShape'
  BY QueuedIsWindow, PTL
<1> QED
  BY <1>3, <1>7, <1>8 DEF QueuedShape

\* n bytes of the queue are taken
LEMMA MixTake ==
  ASSUME MixTypeOK, MixTypeOK', NEW n \in 0..C,
         rp' = Advance(rp, n), UNCHANGED <<start_buf, wp>>
  PROVE  /\ C' = C - n
         /\ Queued' = SubSeq(Queued, n + 1, Len(Queued))
         /\ CopyOut(rp, n) = SubSeq(Queued, 1, n)
<1>1. /\ BufSize \in Nat /\ rp \in 0..BufSize - 1 /\ wp \in 0..BufSize - 1
      /\ C \in 0..BufSize - 1 /\ C \in 0..BufSize /\ n \in 0..BufSize
  BY ContentNat
<1>2. rp' = Place(BufSize, rp, n)
  BY <1>1, AdvanceIsPlace
<1>3. C' = C - n
  BY <1>1, <1>2 DEF C, aml_hw_mixer_get_content_l, Place
<1>4. start_buf \in [0..BufSize - 1 -> MixBytes]
  BY DEF MixTypeOK, MixAddresses
<1>5. Queued = Window(BufSize, start_buf, rp, C) /\ Len(Queued) = C
  BY QueuedIsWindow, QueuedType DEF QueuedShape
<1>6. Queued' = Window(BufSize, start_buf, rp', C - n)
  <2>1. QueuedShape'
    BY QueuedIsWindow, PTL
  <2> QED
    BY <1>3, <2>1 DEF QueuedShape
<1>7. CopyOut(rp, n) = Window(BufSize, start_buf, rp, n)
  BY <1>1, CopyOutIsWindow
<1>8. SubSeq(Window(BufSize, start_buf, rp, C), 1, n) = Window(BufSize, start_buf, rp, n)
  BY <1>1, <1>4, WindowFirst
<1>9. SubSeq(Window(BufSize, start_buf, rp, C), n + 1, C)
        = Window(BufSize, start_buf, Place(BufSize, rp, n), C - n)
  BY <1>1, <1>4, WindowRest
<1> QED
  BY <1>2, <1>3, <1>5, <1>6, <1>7, <1>8, <1>9

-----------------------------------------------------------------------------
(* The hardware mixer: the invariant and the refinement *)

LEMMA MixedType ==
  ASSUME NEW count \in Nat, NEW data \in Seq(MixBytes)
  PROVE  Mixed(count, data) \in [count : Nat, data : Seq(MixBytes)]
BY DEF Mixed

LEMMA EmptyMix ==
  ASSUME MixTypeOK, wp = rp PROVE C = 0 /\ Queued = <<>>
<1>1. C = 0
  BY ContentNat DEF C, aml_hw_mixer_get_content_l
<1> QED
  BY <1>1 DEF Queued, CopyOut, C

\* What is copied, and from where: the two cases of a write
LEMMA WriteCases ==
  ASSUME MixInv, NEW data \in MixRequests, aml_hw_mixer_write(data)
  PROVE  /\ ~mix_allocated => UNCHANGED <<start_buf, wp, rp>>
         /\ mix_allocated /\ Len(data) <= BufSize - MixGuard - C =>
              /\ CopyIn(wp, data, Len(data)) /\ wp' = Advance(wp, Len(data)) /\ rp' = rp
         /\ mix_allocated /\ ~(Len(data) <= BufSize - MixGuard - C) =>
              /\ CopyIn(0, data, BufSize - MixGuard - C)
              /\ wp' = Advance(0, BufSize - MixGuard - C) /\ rp' = 0
         /\ mixed' = Mixed(Len(data), <<>>) /\ mix_allocated' = mix_allocated
<1> DEFINE space == aml_hw_mixer_get_space
           n == BufSize - MixGuard - C
           size == Len(data)
<1>1. space = n /\ n \in Nat /\ size \in Nat
  BY SpaceIsRest, ContentNat, RequestType DEF MixInv
<1>2. /\ IF mix_allocated
         THEN /\ rp' = IF space < size THEN 0 ELSE rp
              /\ CopyIn(IF space < size THEN 0 ELSE wp, data,
                        IF size > space THEN space ELSE size)
              /\ wp' = Advance(IF space < size THEN 0 ELSE wp,
                               IF size > space THEN space ELSE size)
         ELSE UNCHANGED <<start_buf, wp, rp>>
      /\ mixed' = Mixed(size, <<>>) /\ mix_allocated' = mix_allocated
  BY DEF aml_hw_mixer_write
<1> HIDE DEF space, n, size
<1>3. CASE size <= n
  <2>1. ~(space < size) /\ ~(size > space)
    BY <1>1, <1>3
  <2>2. (IF space < size THEN 0 ELSE wp) = wp /\ (IF space < size THEN 0 ELSE rp) = rp
        /\ (IF size > space THEN space ELSE size) = size
    BY <2>1
  <2> QED
    BY <1>2, <1>3, <2>2 DEF size, n
<1>4. CASE ~(size <= n)
  <2>1. space < size /\ size > space
    BY <1>1, <1>4
  <2>2. (IF space < size THEN 0 ELSE wp) = 0 /\ (IF space < size THEN 0 ELSE rp) = 0
        /\ (IF size > space THEN space ELSE size) = n
    BY <1>1, <2>1
  <2> QED
    BY <1>2, <1>4, <2>2 DEF size, n
<1> QED
  BY <1>3, <1>4

LEMMA WriteKeepsType ==
  ASSUME MixInv, NEW data \in MixRequests, aml_hw_mixer_write(data)
  PROVE  MixTypeOK'
<1> DEFINE n == BufSize - MixGuard - C
<1>1. /\ BufSize \in Nat /\ wp \in 0..BufSize - 1 /\ rp \in 0..BufSize - 1
      /\ 0 \in 0..BufSize - 1 /\ n \in 0..BufSize /\ MixTypeOK
  BY ContentNat DEF MixInv
<1>2. data \in Seq(MixBytes) /\ Len(data) \in Nat
  BY RequestType
<1>3. mixed' \in [count : Nat, data : Seq(MixBytes)]
  BY <1>2, WriteCases, MixedType, EmptySeq
<1>4. CASE ~mix_allocated
  BY <1>1, <1>3, <1>4, WriteCases DEF MixTypeOK
<1>5. CASE mix_allocated /\ Len(data) <= n
  <2>1. Len(data) \in 0..BufSize /\ Len(data) <= Len(data)
    BY <1>1, <1>2, <1>5
  <2>2. CopyIn(wp, data, Len(data)) /\ wp' = Advance(wp, Len(data)) /\ rp' = rp
    BY <1>5, WriteCases
  <2>3. wp' \in 0..BufSize - 1
    BY <1>1, <2>1, <2>2, AdvanceIsPlace
  <2>4. start_buf' \in [0..BufSize - 1 -> MixBytes]
    BY <1>1, <1>2, <2>1, <2>2, CopyInMem
  <2> QED
    BY <1>1, <1>3, <1>5, <2>2, <2>3, <2>4, WriteCases DEF MixTypeOK, MixAddresses
<1>6. CASE mix_allocated /\ ~(Len(data) <= n)
  <2>1. n <= Len(data)
    BY <1>1, <1>2, <1>6
  <2>2. CopyIn(0, data, n) /\ wp' = Advance(0, n) /\ rp' = 0
    BY <1>6, WriteCases
  <2> HIDE DEF n
  <2>3. wp' \in 0..BufSize - 1
    BY <1>1, <2>2, AdvanceIsPlace
  <2>4. start_buf' \in [0..BufSize - 1 -> MixBytes]
    BY <1>1, <1>2, <2>1, <2>2, CopyInMem
  <2> QED
    BY <1>1, <1>3, <1>6, <2>2, <2>3, <2>4, WriteCases DEF MixTypeOK, MixAddresses
<1> QED
  BY <1>4, <1>5, <1>6

LEMMA WriteIsPut ==
  ASSUME MixInv, MixTypeOK', NEW data \in MixRequests, aml_hw_mixer_write(data)
  PROVE  C' <= BufSize - MixGuard /\ Queue!Put(data)
<1> DEFINE n == BufSize - MixGuard - C
<1>1. /\ BufSize \in Nat /\ 0 \in 0..BufSize - 1 /\ n \in 0..BufSize - 1 /\ n \in 0..BufSize
      /\ MixGuard \in 1..BufSize /\ C \in 0..BufSize - 1 /\ MixTypeOK
  BY ContentNat DEF MixInv
<1>2. data \in Seq(MixBytes) /\ Len(data) \in Nat
  BY RequestType
<1>3. Len(Queued) = C /\ Queued \in Seq(MixBytes)
  BY <1>1, QueuedType
<1>4. mixed' = Queue!Reply(Len(data), <<>>) /\ mix_allocated' = mix_allocated
  BY WriteCases DEF Mixed, Queue!Reply
<1>5. CASE ~mix_allocated
  <2>1. wp' = rp' /\ ~mix_allocated'
    BY <1>1, <1>5, WriteCases DEF MixTypeOK
  <2>2. (MixTypeOK /\ wp = rp => C = 0 /\ Queued = <<>>)'
    BY EmptyMix, PTL
  <2>3. C' = 0 /\ Queued' = <<>>
    BY <2>1, <2>2
  <2>4. Queue!Put(data)
    BY <1>4, <1>5, <2>3, Zenon DEF Queue!Put
  <2> QED
    BY <1>1, <2>3, <2>4
<1>6. CASE mix_allocated /\ Len(data) <= n
  <2>1. CopyIn(wp, data, Len(data)) /\ wp' = Advance(wp, Len(data)) /\ rp' = rp
    BY <1>6, WriteCases
  <2>2. C + Len(data) < BufSize /\ C + Len(data) <= BufSize - MixGuard
    BY <1>1, <1>2, <1>6
  <2>3. C' = C + Len(data) /\ Queued' = Queued \o data
    BY <1>1, <1>2, <2>1, <2>2, MixAppend
  <2>4. Len(data) <= (BufSize - MixGuard) - Len(Queued)
    BY <1>3, <1>6
  <2>5. Queue!Put(data)
    BY <1>4, <1>6, <2>3, <2>4 DEF Queue!Put
  <2> QED
    BY <2>2, <2>3, <2>5
<1>7. CASE mix_allocated /\ ~(Len(data) <= n)
  <2>1. n <= Len(data)
    BY <1>1, <1>2, <1>7
  <2>2. CopyIn(0, data, n) /\ wp' = Advance(0, n) /\ rp' = 0
    BY <1>7, WriteCases
  <2>3. n = (BufSize - MixGuard) - Len(Queued)
    BY <1>3
  <2> DEFINE kept == SubSeq(data, 1, n)
  <2>4. /\ kept \in Seq(MixBytes) /\ Len(kept) = n
        /\ \A i \in 1..n : kept[i] = data[i]
    <3>1. \A i \in 1..n : data[i] \in MixBytes
      BY <1>1, <1>2, <2>1, ElementOfSeq
    <3>2. /\ kept \in Seq(MixBytes)
          /\ Len(kept) = IF 1 <= n THEN n - 1 + 1 ELSE 0
          /\ \A i \in 1..n - 1 + 1 : kept[i] = data[1 + i - 1]
      BY <1>1, <3>1, SubSeqProperties
    <3> HIDE DEF kept, n
    <3> QED
      BY <1>1, <3>2
  <2> HIDE DEF n, kept
  <2>5. wp' = n
    <3>1. Advance(0, n) = Place(BufSize, 0, n)
      BY <1>1, AdvanceIsPlace
    <3> QED
      BY <1>1, <2>2, <3>1 DEF Place
  <2>6. C' = n
    BY <1>1, <2>2, <2>5 DEF C, aml_hw_mixer_get_content_l
  <2>7. Queued' = Window(BufSize, start_buf', 0, n)
    <3>1. QueuedShape'
      BY QueuedIsWindow, PTL
    <3> QED
      BY <2>2, <2>6, <3>1 DEF QueuedShape
  <2>8. \A j \in 0..n - 1 : start_buf'[Place(BufSize, 0, j)] = data[j + 1]
    BY <1>1, <1>2, <2>1, <2>2, CopyInMem
  <2>9. Queued' \in Seq(MixBytes) /\ Len(Queued') = n
        /\ \A i \in 1..n : Queued'[i] = data[i]
    <3>1. (MixTypeOK => Queued \in Seq(MixBytes) /\ Len(Queued) = C)'
      BY QueuedType, PTL
    <3>2. ASSUME NEW i \in 1..n PROVE Queued'[i] = data[i]
      <4>1. i - 1 \in 0..n - 1 /\ (i - 1) + 1 = i /\ n \in Nat
        BY <1>1
      <4>2. start_buf'[Place(BufSize, 0, i - 1)] = data[i]
        BY <2>8, <4>1
      <4>3. Window(BufSize, start_buf', 0, n)[i] = start_buf'[Place(BufSize, 0, i - 1)]
        BY <4>1, WindowShape
      <4> QED
        BY <2>7, <4>2, <4>3
    <3> QED
      BY <2>6, <3>1, <3>2
  <2>10. Queued' = kept
    <3>1. \A i \in 1..Len(Queued') : Queued'[i] = kept[i]
      BY <2>4, <2>9
    <3> QED
      BY <2>4, <2>9, <3>1, SeqEqual
  <2>11. Queue!Put(data)
    <3>1. ~(Len(data) <= (BufSize - MixGuard) - Len(Queued))
      BY <1>7, <2>3 DEF n
    <3>2. Queued' = SubSeq(data, 1, (BufSize - MixGuard) - Len(Queued))
      BY <2>3, <2>10 DEF kept
    <3> QED
      BY <1>4, <1>7, <3>1, <3>2 DEF Queue!Put
  <2>12. C' <= BufSize - MixGuard
    BY <1>1, <2>6 DEF n
  <2> QED
    BY <2>11, <2>12
<1> QED
  BY <1>5, <1>6, <1>7

\* Both reads take n bytes of the queue and leave everything else
LEMMA TakeKeepsType ==
  ASSUME MixInv, NEW n \in 0..C, rp' = Advance(rp, n), UNCHANGED <<mix_allocated, start_buf, wp>>,
         mixed' \in [count : Nat, data : Seq(MixBytes)]
  PROVE  MixTypeOK'
<1>1. /\ BufSize \in Nat /\ rp \in 0..BufSize - 1 /\ C \in 0..BufSize - 1
      /\ n \in 0..BufSize /\ MixTypeOK
  BY ContentNat DEF MixInv
<1>2. rp' \in 0..BufSize - 1 /\ rp' = Place(BufSize, rp, n)
  BY <1>1, AdvanceIsPlace
<1>3. ASSUME ~mix_allocated PROVE rp' = 0
  <2>1. wp = 0 /\ rp = 0 /\ C = 0
    BY <1>1, <1>3, EmptyMix DEF MixTypeOK
  <2>2. n = 0 /\ BufSize > 0
    BY <1>1, <2>1
  <2> QED
    BY <1>1, <1>2, <2>1, <2>2 DEF Place
<1> QED
  BY <1>1, <1>2, <1>3 DEF MixTypeOK, MixAddresses

LEMMA FirstType ==
  ASSUME MixTypeOK, NEW n \in 0..C
  PROVE  CopyOut(rp, n) \in Seq(MixBytes) /\ Len(CopyOut(rp, n)) = n
<1>1. /\ BufSize \in Nat /\ rp \in 0..BufSize - 1 /\ n \in 0..BufSize /\ n \in Nat
      /\ start_buf \in [0..BufSize - 1 -> MixBytes]
  BY ContentNat DEF MixTypeOK, MixAddresses
<1>2. CopyOut(rp, n) = Window(BufSize, start_buf, rp, n)
  BY <1>1, CopyOutIsWindow
<1>3. Window(BufSize, start_buf, rp, n) \in Seq(MixBytes)
  BY <1>1, WindowType
<1>4. Len(Window(BufSize, start_buf, rp, n)) = n
  BY <1>1, WindowShape
<1> QED
  BY <1>2, <1>3, <1>4

LEMMA MixingIsMix ==
  ASSUME MixInv, NEW size \in 0..MaxMix, aml_hw_mixer_mixing(size)
  PROVE  MixInv' /\ Queue!Mix(size)
<1> DEFINE n == IF C < size THEN 0 ELSE size
<1>1. rp' = Advance(rp, n) /\ mixed' = Mixed(0, CopyOut(rp, n))
      /\ UNCHANGED <<mix_allocated, start_buf, wp>>
  BY DEF aml_hw_mixer_mixing, C
<1>2. MixTypeOK /\ C \in 0..BufSize - 1 /\ C <= BufSize - MixGuard /\ n \in 0..C
      /\ BufSize \in Nat /\ MixGuard \in 1..BufSize
  BY ContentNat DEF MixInv
<1>3. Len(Queued) = C
  BY <1>2, QueuedType
<1>4. n = IF size <= Len(Queued) THEN size ELSE 0
  BY <1>2, <1>3, ContentNat
<1> HIDE DEF n
<1>5. CopyOut(rp, n) \in Seq(MixBytes) /\ 0 \in Nat
  BY <1>2, FirstType
<1>6. mixed' \in [count : Nat, data : Seq(MixBytes)]
  BY <1>1, <1>5, MixedType
<1>7. MixTypeOK'
  BY <1>1, <1>2, <1>6, TakeKeepsType
<1>8. /\ C' = C - n
      /\ Queued' = SubSeq(Queued, n + 1, Len(Queued))
      /\ CopyOut(rp, n) = SubSeq(Queued, 1, n)
  BY <1>1, <1>2, <1>7, MixTake
<1>9. C' <= BufSize - MixGuard
  BY <1>2, <1>8
<1>10. Queue!Mix(size)
  BY <1>1, <1>4, <1>8 DEF Queue!Mix, Queue!Reply, Mixed
<1> QED
  BY <1>7, <1>9, <1>10 DEF MixInv

LEMMA ReadIsTake ==
  ASSUME MixInv, NEW size \in 0..MaxMix, aml_hw_mixer_read(size)
  PROVE  MixInv' /\ Queue!Take(size)
<1> DEFINE n == IF C < size THEN C ELSE size
           padding(m) == [i \in 1..m |-> MixZero]
<1>1. rp' = Advance(rp, n) /\ mixed' = Mixed(size, CopyOut(rp, n) \o padding(size - n))
      /\ UNCHANGED <<mix_allocated, start_buf, wp>>
  BY DEF aml_hw_mixer_read, C
<1>2. /\ MixTypeOK /\ C \in 0..BufSize - 1 /\ C <= BufSize - MixGuard /\ n \in 0..C
      /\ size \in Nat /\ n \in Nat /\ size - n \in Nat
      /\ BufSize \in Nat /\ MixGuard \in 1..BufSize
  BY ContentNat DEF MixInv
<1>3. Len(Queued) = C
  BY <1>2, QueuedType
<1>4. n = IF size <= Len(Queued) THEN size ELSE Len(Queued)
  BY <1>2, <1>3, ContentNat
<1> HIDE DEF n
<1>5. CopyOut(rp, n) \o padding(size - n) \in Seq(MixBytes)
  <2>1. CopyOut(rp, n) \in Seq(MixBytes)
    BY <1>2, FirstType
  <2>2. padding(size - n) \in Seq(MixBytes)
    BY <1>2, MixBytesAssumption
  <2> HIDE DEF padding
  <2> QED
    BY <2>1, <2>2, ConcatProperties
<1>6. mixed' \in [count : Nat, data : Seq(MixBytes)]
  BY <1>1, <1>2, <1>5, MixedType
<1>7. MixTypeOK'
  BY <1>1, <1>2, <1>6, TakeKeepsType
<1>8. /\ C' = C - n
      /\ Queued' = SubSeq(Queued, n + 1, Len(Queued))
      /\ CopyOut(rp, n) = SubSeq(Queued, 1, n)
  BY <1>1, <1>2, <1>7, MixTake
<1>9. C' <= BufSize - MixGuard
  BY <1>2, <1>8
<1>10. Queue!Take(size)
  BY <1>1, <1>4, <1>8 DEF Queue!Take, Queue!Reply, Mixed
<1> QED
  BY <1>7, <1>9, <1>10 DEF MixInv

\* Initialisation, reset and release leave both pointers at the start
LEMMA ClearIsEmpty ==
  ASSUME MixInv, aml_hw_mixer_init \/ aml_hw_mixer_reset \/ aml_hw_mixer_deinit
  PROVE  MixInv' /\ Queue!Empty
<1>1. wp' = 0 /\ rp' = 0 /\ mixed' = mixed /\ mix_allocated' \in BOOLEAN
      /\ start_buf' \in [MixAddresses -> MixBytes]
  BY MixBytesAssumption
     DEF MixInv, MixTypeOK, aml_hw_mixer_init, aml_hw_mixer_reset, aml_hw_mixer_deinit
<1>2. MixTypeOK /\ BufSize \in Nat /\ MixGuard \in 1..BufSize /\ 0 \in MixAddresses
  BY ContentNat DEF MixInv, MixAddresses
<1>3. MixTypeOK'
  BY <1>1, <1>2 DEF MixTypeOK
<1>4. (MixTypeOK /\ wp = rp => C = 0 /\ Queued = <<>>)'
  BY EmptyMix, PTL
<1>5. C' = 0 /\ Queued' = <<>>
  BY <1>1, <1>3, <1>4
<1>6. 0 <= BufSize - MixGuard
  BY <1>2
<1> QED
  BY <1>1, <1>3, <1>5, <1>6 DEF MixInv, Queue!Empty

LEMMA MixInitInv == MixInit => MixInv /\ Queue!Init
<1> SUFFICES ASSUME MixInit PROVE MixInv /\ Queue!Init
  OBVIOUS
<1>1. BufSize \in Nat /\ MixGuard \in 1..BufSize /\ 0 \in MixAddresses
  BY MixSizesAssumption DEF MixAddresses
<1>2. mixed \in [count : Nat, data : Seq(MixBytes)]
  BY EmptySeq, MixedType DEF MixInit
<1>3. MixTypeOK
  BY <1>1, <1>2, MixBytesAssumption DEF MixInit, MixTypeOK
<1>4. C = 0 /\ Queued = <<>>
  BY <1>3, EmptyMix DEF MixInit
<1>5. C <= BufSize - MixGuard
  BY <1>1, <1>4
<1> QED
  BY <1>3, <1>4, <1>5 DEF MixInv, MixInit, Queue!Init, Mixed, Queue!Reply

LEMMA MixStep ==
  MixInv /\ [MixNext]_mixvars
    => MixInv' /\ [Queue!Next]_<<Queued, mix_allocated, mixed>>
<1> SUFFICES ASSUME MixInv, [MixNext]_mixvars
             PROVE  MixInv' /\ [Queue!Next]_<<Queued, mix_allocated, mixed>>
  OBVIOUS
<1>1. CASE aml_hw_mixer_init \/ aml_hw_mixer_reset \/ aml_hw_mixer_deinit
  <2>1. MixInv' /\ Queue!Empty
    BY <1>1, ClearIsEmpty
  <2> QED
    BY <2>1, Zenon DEF Queue!Next
<1>2. ASSUME NEW data \in MixRequests, aml_hw_mixer_write(data)
      PROVE  MixInv' /\ Queue!Next
  <2>1. MixTypeOK'
    BY <1>2, WriteKeepsType
  <2>2. C' <= BufSize - MixGuard /\ Queue!Put(data)
    BY <1>2, <2>1, WriteIsPut
  <2>3. data \in Queue!Requests
    BY <1>2 DEF MixRequests, Queue!Requests
  <2> QED
    BY <2>1, <2>2, <2>3, Zenon DEF MixInv, Queue!Next
<1>3. ASSUME NEW n \in 0..MaxMix, aml_hw_mixer_mixing(n)
      PROVE  MixInv' /\ Queue!Next
  <2>1. MixInv' /\ Queue!Mix(n)
    BY <1>3, MixingIsMix
  <2> QED
    BY <1>3, <2>1, Zenon DEF Queue!Next
<1>4. ASSUME NEW n \in 0..MaxMix, aml_hw_mixer_read(n)
      PROVE  MixInv' /\ Queue!Next
  <2>1. MixInv' /\ Queue!Take(n)
    BY <1>4, ReadIsTake
  <2> QED
    BY <1>4, <2>1, Zenon DEF Queue!Next
<1>5. CASE UNCHANGED mixvars
  <2>1. mix_allocated' = mix_allocated /\ start_buf' = start_buf /\ wp' = wp /\ rp' = rp
        /\ mixed' = mixed
    BY <1>5 DEF mixvars
  <2>2. C' = C /\ Queued' = Queued
    BY <2>1 DEF C, Queued, CopyOut, aml_hw_mixer_get_content_l
  <2>3. MixInv'
    BY <2>1, <2>2 DEF MixInv, MixTypeOK
  <2> QED
    BY <2>1, <2>2, <2>3
<1> QED
  BY <1>1, <1>2, <1>3, <1>4, <1>5, Zenon DEF MixNext

\* Whatever the size of the mixer's buffer, the bytes kept free and the blocks, the
\* mixer is the bounded queue of MixQueue: a full buffer is never taken for an empty
\* one, an overflow drops exactly what was queued, and no byte is mixed twice or out
\* of order.
THEOREM MixerIsQueue == MixSpec => ImplementsMixQueue
<1>1. MixSpec => Queue!Init /\ [][Queue!Next]_<<Queued, mix_allocated, mixed>>
  BY MixInitInv, MixStep, PTL DEF MixSpec
<1> QED
  BY <1>1 DEF ImplementsMixQueue, Queue!Spec

-----------------------------------------------------------------------------
(* The audio delay: its pointers *)

\* The samples on their way
L == IF delay_wp >= delay_rp THEN delay_wp - delay_rp
                             ELSE delay_wp + DelayBufSize - delay_rp

DelayTypeOK ==
  /\ adev_delay_time \in Nat /\ delay_handle \in BOOLEAN /\ delay_time \in 0..DelayMax
  /\ delay_buf \in [0..DelayBufSize - 1 -> Samples]
  /\ delay_wp \in 0..DelayBufSize - 1 /\ delay_rp \in 0..DelayBufSize - 1
  /\ delayed \in Seq(Samples)

\* There is room for the longest block of any rate behind the samples on their way,
\* whatever the rate was when the delay was set; and without a delay there are none
DelayInv ==
  /\ DelayTypeOK
  /\ \A r \in Rates : L + r * FrameMax <= DelayBufSize
  /\ delay_time = 0 => L = 0

LEMMA DelaySizes ==
  /\ DelayBufSize \in Nat \ {0} /\ DelayMax \in Nat /\ FrameMax \in Nat \ {0}
  /\ Rates \subseteq Nat \ {0} /\ MaxDelayTime \in Nat /\ Silent \in Samples
BY DelayAssumption

LEMMA ProductsGrow ==
  ASSUME NEW a \in Nat, NEW b \in Nat, a <= b, NEW x \in Nat, NEW y \in Nat, x <= y
  PROVE  a * x \in Nat /\ a * x <= b * y
<1>1. PICK d \in Nat : b = a + d
  <2>1. b - a \in Nat /\ b = a + (b - a)
    OBVIOUS
  <2> QED
    BY <2>1
<1>2. PICK e \in Nat : y = x + e
  <2>1. y - x \in Nat /\ y = x + (y - x)
    OBVIOUS
  <2> QED
    BY <2>1
<1>3. b * y = a * x + a * e + d * x + d * e
  BY <1>1, <1>2
<1>4. a * x \in Nat /\ a * e \in Nat /\ d * x \in Nat /\ d * e \in Nat
  OBVIOUS
<1> QED
  BY <1>3, <1>4

\* The longest delay of one rate and the longest block of another fit together
LEMMA RatesFit ==
  ASSUME NEW q \in Rates, NEW r \in Rates, NEW c \in 0..DelayMax
  PROVE  /\ q * c \in Nat /\ r * FrameMax \in Nat \ {0}
         /\ q * c + r * FrameMax <= DelayBufSize
<1> DEFINE s == IF q <= r THEN r ELSE q
<1>1. /\ q \in Nat \ {0} /\ r \in Nat \ {0} /\ c \in Nat /\ s \in Rates /\ s \in Nat
      /\ q <= s /\ r <= s /\ c <= DelayMax
  BY DelaySizes
<1> HIDE DEF s
<1>2. q * c \in Nat /\ q * c <= s * DelayMax /\ s * DelayMax \in Nat
  BY <1>1, DelaySizes, ProductsGrow
<1>3. r * FrameMax \in Nat /\ r * FrameMax <= s * FrameMax /\ s * FrameMax \in Nat
  BY <1>1, DelaySizes, ProductsGrow
<1>4. 1 * 1 <= r * FrameMax
  BY <1>1, DelaySizes, ProductsGrow
<1>5. s * (DelayMax + FrameMax) <= DelayBufSize
  BY <1>1, DelayAssumption
<1>6. s * (DelayMax + FrameMax) = s * DelayMax + s * FrameMax
  BY <1>1, DelaySizes
<1> QED
  BY <1>2, <1>3, <1>4, <1>5, <1>6, DelaySizes

LEMMA DelayAdvanceIsPlace ==
  ASSUME NEW p \in 0..DelayBufSize - 1, NEW n \in 0..DelayBufSize
  PROVE  /\ DelayAdvance(p, n) = Place(DelayBufSize, p, n)
         /\ DelayAdvance(p, n) \in 0..DelayBufSize - 1
<1> DEFINE B == DelayBufSize
<1>1. B \in Nat \ {0}
  BY DelaySizes
<1>2. DelayAdvance(p, n) = IF n > B - p THEN n - (B - p) ELSE (p + n) % B
  BY DEF DelayAdvance
<1> HIDE DEF B
<1>3. CASE p + n = B
  <2>1. B % B = 0 /\ ~(n > B - p)
    BY <1>1, <1>3
  <2> QED
    BY <1>1, <1>2, <1>3, <2>1 DEF Place, B
<1>4. CASE p + n < B
  <2>1. (p + n) % B = p + n /\ ~(n > B - p)
    BY <1>1, <1>4 DEF B
  <2> QED
    BY <1>1, <1>2, <1>4, <2>1 DEF Place, B
<1>5. CASE p + n > B
  BY <1>1, <1>2, <1>5 DEF Place, B
<1> QED
  BY <1>1, <1>3, <1>4, <1>5 DEF B

LEMMA DelayOutIsWindow ==
  ASSUME NEW buf, NEW p \in 0..DelayBufSize - 1, NEW n \in 0..DelayBufSize
  PROVE  DelayOut(buf, p, n) = Window(DelayBufSize, buf, p, n)
BY DelaySizes DEF DelayOut, Window, Place

LEMMA LineNat ==
  ASSUME DelayTypeOK
  PROVE  /\ L \in 0..DelayBufSize - 1 /\ L \in 0..DelayBufSize /\ L \in Nat
         /\ delay_wp = Place(DelayBufSize, delay_rp, L)
BY DelaySizes DEF DelayTypeOK, L, Place

DelayedShape == Delayed = Window(DelayBufSize, delay_buf, delay_rp, L)

LEMMA DelayedIsWindow == DelayTypeOK => DelayedShape
<1> SUFFICES ASSUME DelayTypeOK PROVE DelayedShape
  OBVIOUS
<1>1. Delayed = DelayOut(delay_buf, delay_rp, L)
  BY DEF Delayed, L
<1>2. delay_rp \in 0..DelayBufSize - 1 /\ L \in 0..DelayBufSize
  BY LineNat DEF DelayTypeOK
<1> QED
  BY <1>1, <1>2, DelayOutIsWindow DEF DelayedShape

\* Sample j of a block lands at the j-th place from the pointer
LEMMA DelayInMem ==
  ASSUME NEW buf \in [0..DelayBufSize - 1 -> Samples], NEW w \in 0..DelayBufSize - 1,
         NEW data \in Seq(Samples), Len(data) <= DelayBufSize
  PROVE  /\ DelayIn(buf, w, data) \in [0..DelayBufSize - 1 -> Samples]
         /\ \A j \in 0..Len(data) - 1 :
              DelayIn(buf, w, data)[Place(DelayBufSize, w, j)] = data[j + 1]
         /\ \A j \in Len(data)..DelayBufSize - 1 :
              DelayIn(buf, w, data)[Place(DelayBufSize, w, j)] = buf[Place(DelayBufSize, w, j)]
<1> DEFINE B == DelayBufSize
           k == Len(data)
           new == DelayIn(buf, w, data)
<1>1. B \in Nat \ {0}
  BY DelaySizes
<1>2. new = [a \in 0..B - 1 |-> IF k > B - w /\ a < k - (B - w) THEN data[(B - w) + a + 1]
                               ELSE IF w <= a /\ a < w + k THEN data[a - w + 1]
                               ELSE buf[a]]
  BY DEF DelayIn, DelayAddresses
<1>3. \A i \in 1..k : data[i] \in Samples
  BY ElementOfSeq
<1>4. /\ w \in 0..B - 1 /\ k \in 0..B /\ buf \in [0..B - 1 -> Samples]
  BY <1>1
<1> HIDE DEF B, new, k
<1>5. new \in [0..B - 1 -> Samples]
  <2>1. ASSUME NEW a \in 0..B - 1, k > B - w, a < k - (B - w)
        PROVE  data[(B - w) + a + 1] \in Samples
    <3>1. (B - w) + a + 1 \in 1..k
      BY <1>1, <1>4, <2>1
    <3> QED
      BY <1>3, <3>1
  <2>2. ASSUME NEW a \in 0..B - 1, w <= a, a < w + k
        PROVE  data[a - w + 1] \in Samples
    <3>1. a - w + 1 \in 1..k
      BY <1>1, <1>4, <2>2
    <3> QED
      BY <1>3, <3>1
  <2> QED
    BY <1>2, <1>4, <2>1, <2>2
<1>6. ASSUME NEW j \in 0..k - 1 PROVE new[Place(B, w, j)] = data[j + 1]
  <2>1. CASE w + j >= B
    <3>1. Place(B, w, j) = w + j - B /\ w + j - B \in 0..B - 1
      BY <1>1, <1>4, <2>1 DEF Place
    <3>2. k > B - w /\ w + j - B < k - (B - w) /\ (B - w) + (w + j - B) + 1 = j + 1
      BY <1>1, <1>4, <2>1
    <3> QED
      BY <1>2, <3>1, <3>2
  <2>2. CASE w + j < B
    <3>1. Place(B, w, j) = w + j /\ w + j \in 0..B - 1
      BY <1>1, <1>4, <2>2 DEF Place
    <3>2. ~(w + j < k - (B - w)) /\ w <= w + j /\ w + j < w + k /\ (w + j) - w + 1 = j + 1
      BY <1>1, <1>4, <2>2
    <3> QED
      BY <1>2, <3>1, <3>2
  <2> QED
    BY <1>1, <1>4, <2>1, <2>2
<1>7. ASSUME NEW j \in k..B - 1 PROVE new[Place(B, w, j)] = buf[Place(B, w, j)]
  <2> DEFINE a == Place(B, w, j)
  <2>1. /\ a \in 0..B - 1
        /\ ~(k > B - w /\ a < k - (B - w)) /\ ~(w <= a /\ a < w + k)
    BY <1>1, <1>4 DEF Place
  <2> HIDE DEF a
  <2>2. new[a] = IF k > B - w /\ a < k - (B - w) THEN data[(B - w) + a + 1]
                 ELSE IF w <= a /\ a < w + k THEN data[a - w + 1] ELSE buf[a]
    BY <1>2, <2>1
  <2>3. new[a] = buf[a]
    BY <2>1, <2>2
  <2> QED
    BY <2>3 DEF a
<1> QED
  BY <1>5, <1>6, <1>7 DEF B, new, k

-----------------------------------------------------------------------------
(* The audio delay: a block goes through *)

\* A block that is written m places behind the pointer it is then read from passes
\* through what was in those places, and as much is left behind
LEMMA BlockPasses ==
  ASSUME NEW from \in [0..DelayBufSize - 1 -> Samples], NEW r \in 0..DelayBufSize - 1,
         NEW m \in 0..DelayBufSize - 1, NEW w, w = Place(DelayBufSize, r, m),
         NEW data \in Seq(Samples), m + Len(data) <= DelayBufSize,
         NEW time \in 0..DelayMax,
         adev_delay_time' = time, delay_time' = time, delay_handle' \in BOOLEAN,
         delay_buf' = DelayIn(from, w, data),
         delay_wp' = DelayAdvance(w, Len(data)), delay_rp' = DelayAdvance(r, Len(data)),
         delayed' = DelayOut(delay_buf', r, Len(data)),
         NEW line, line = Window(DelayBufSize, from, r, m)
  PROVE  DelayTypeOK' /\ L' = m /\ Line!Pass(line, data)
<1> DEFINE B == DelayBufSize
           k == Len(data)
<1>1. /\ B \in Nat \ {0} /\ k \in 0..B /\ k \in 0..m + k /\ m \in 0..B /\ m + k \in 0..B
      /\ (m + k) - k = m /\ m \in Nat /\ DelayMax \in Nat /\ time \in Nat
  <2>1. k \in Nat
    OBVIOUS
  <2> QED
    BY <2>1, DelaySizes
<1>2. w \in 0..B - 1
  BY <1>1, PlaceType
<1>3. /\ delay_buf' \in [0..B - 1 -> Samples]
      /\ \A j \in 0..k - 1 : delay_buf'[Place(B, w, j)] = data[j + 1]
      /\ \A j \in k..B - 1 : delay_buf'[Place(B, w, j)] = from[Place(B, w, j)]
  <2>1. Len(data) <= B
    BY <1>1
  <2>2. delay_buf' = DelayIn(from, w, data)
    OBVIOUS
  <2> DEFINE new == DelayIn(from, w, data)
  <2>3. /\ new \in [0..B - 1 -> Samples]
        /\ \A j \in 0..k - 1 : new[Place(B, w, j)] = data[j + 1]
        /\ \A j \in k..B - 1 : new[Place(B, w, j)] = from[Place(B, w, j)]
    BY <1>2, <2>1, DelayInMem
  <2> HIDE DEF new
  <2> QED
    BY <2>2, <2>3 DEF new
<1>4. /\ delay_wp' = Place(B, w, k) /\ delay_wp' \in 0..B - 1
      /\ delay_rp' = Place(B, r, k) /\ delay_rp' \in 0..B - 1
  BY <1>1, <1>2, DelayAdvanceIsPlace
<1>5. delayed' = Window(B, delay_buf', r, k)
  BY <1>1, DelayOutIsWindow
<1>6. delayed' \in Seq(Samples) /\ Len(delayed') = k
  <2>1. Window(B, delay_buf', r, k) \in Seq(Samples)
    BY <1>1, <1>3, WindowType
  <2>2. Len(Window(B, delay_buf', r, k)) = k
    BY <1>1, WindowShape
  <2> QED
    BY <1>5, <2>1, <2>2
<1>7. DelayTypeOK'
  BY <1>1, <1>3, <1>4, <1>6 DEF DelayTypeOK
<1>8. L' = m
  <2> HIDE DEF B, k
  <2>1. L' = IF delay_wp' >= delay_rp' THEN delay_wp' - delay_rp' ELSE delay_wp' + B - delay_rp'
    BY DEF L, B, DelayBufSize
  <2>2. r \in 0..B - 1 /\ m \in 0..B - 1 /\ w = Place(B, r, m) /\ m + k <= B /\ k \in Nat
    BY <1>1 DEF B, k
  <2>3. CASE r + m >= B
    <3>1. w = r + m - B /\ w + k < B
      BY <1>1, <2>2, <2>3 DEF Place
    <3>2. delay_wp' = w + k
      BY <1>1, <1>4, <2>2, <3>1 DEF Place
    <3>3. CASE r + k < B
      BY <1>1, <1>4, <2>1, <2>2, <3>1, <3>2, <3>3 DEF Place
    <3>4. CASE r + k >= B
      BY <1>1, <1>4, <2>1, <2>2, <3>1, <3>2, <3>4 DEF Place
    <3> QED
      BY <1>1, <2>2, <3>3, <3>4
  <2>4. CASE r + m < B
    <3>1. w = r + m
      BY <2>2, <2>4, <1>1 DEF Place
    <3>2. CASE r + m + k < B
      BY <1>1, <1>4, <2>1, <2>2, <3>1, <3>2 DEF Place
    <3>3. CASE r + m + k >= B
      BY <1>1, <1>4, <2>1, <2>2, <3>1, <3>3 DEF Place
    <3> QED
      BY <1>1, <2>2, <3>2, <3>3
  <2> QED
    BY <1>1, <2>2, <2>3, <2>4
<1>9. IsJoin(Window(B, delay_buf', r, m + k), Window(B, from, r, m), data)
  <2>1. \A j \in 0..k - 1 : delay_buf'[Place(B, r, m + j)] = data[j + 1]
    <3> TAKE j \in 0..k - 1
    <3>1. Place(B, w, j) = Place(B, r, m + j)
      BY <1>1, PlaceAdd
    <3> QED
      BY <1>3, <3>1
  <2>2. \A j \in 0..m - 1 : delay_buf'[Place(B, r, j)] = from[Place(B, r, j)]
    <3> TAKE j \in 0..m - 1
    <3> DEFINE i == B - m + j
    <3>1. i \in k..B - 1
      BY <1>1
    <3>2. Place(B, w, i) = Place(B, r, j)
      <4> HIDE DEF B
      <4> QED
        BY <1>1 DEF Place, B
    <3> HIDE DEF i
    <3> QED
      BY <1>3, <3>1, <3>2
  <2>3. Appended(B, Samples, from, delay_buf', r, m, data)
    BY <1>1, <1>3, <2>1, <2>2 DEF Appended
  <2> QED
    BY <2>3, WindowAppend
<1> DEFINE all == Window(B, delay_buf', r, m + k)
<1>10. all = line \o data
  BY <1>9 DEF IsJoin
<1>11. SubSeq(all, 1, k) = Window(B, delay_buf', r, k)
  BY <1>1, <1>3, WindowFirst
<1>12. SubSeq(all, k + 1, m + k) = Window(B, delay_buf', Place(B, r, k), (m + k) - k)
  <2> DEFINE n == m + k
  <2>1. n \in 0..B /\ k \in 0..n
    BY <1>1
  <2> HIDE DEF n
  <2>2. SubSeq(Window(B, delay_buf', r, n), k + 1, n) = Window(B, delay_buf', Place(B, r, k), n - k)
    <3>1. delay_buf' \in [0..B - 1 -> Samples] /\ B \in Nat
      BY <1>1, <1>3
    <3> HIDE DEF k
    <3> QED
      BY <2>1, <3>1, WindowRest
  <2> QED
    BY <2>2 DEF n
<1>13. Delayed' = Window(B, delay_buf', delay_rp', m)
  <2>1. DelayedShape'
    BY <1>7, DelayedIsWindow, PTL
  <2>2. B' = B
    BY DEF DelayBufSize
  <2> QED
    BY <1>8, <2>1, <2>2 DEF DelayedShape
<1>14. Len(line) = m
  BY <1>1, WindowShape
<1>15. delayed' = SubSeq(line \o data, 1, k)
  <2> HIDE DEF all
  <2> QED
    BY <1>5, <1>10, <1>11
<1>16. Delayed' = SubSeq(line \o data, k + 1, m + k)
  <2> HIDE DEF all
  <2> QED
    BY <1>1, <1>4, <1>10, <1>12, <1>13
<1> QED
  BY <1>7, <1>8, <1>14, <1>15, <1>16 DEF Line!Pass

LEMMA BlockType ==
  ASSUME NEW rate \in Rates, NEW n \in 1..rate * FrameMax, NEW data \in [1..n -> Samples]
  PROVE  /\ data \in Seq(Samples) /\ Len(data) = n /\ Len(data) \in Nat
         /\ Len(data) <= rate * FrameMax /\ Len(data) \in 0..DelayBufSize
<1>1. 0 \in 0..DelayMax /\ rate * 0 = 0
  BY DelaySizes
<1>2. rate * FrameMax \in Nat /\ 0 + rate * FrameMax <= DelayBufSize
  BY <1>1, RatesFit
<1>3. n \in Nat /\ n <= rate * FrameMax
  BY <1>2
<1>4. data \in Seq(Samples) /\ Len(data) = n
  BY <1>3
<1> HIDE <1>1
<1> DEFINE f == rate * FrameMax
<1>5. f \in Nat /\ f <= DelayBufSize /\ n <= f
  BY <1>2, <1>3
<1> HIDE DEF f
<1>6. n \in 0..DelayBufSize
  BY <1>3, <1>5, DelaySizes
<1> QED
  BY <1>3, <1>4, <1>6

-----------------------------------------------------------------------------
(* The audio delay: the invariant and the refinement *)

LEMMA ClampedType ==
  ASSUME DelayTypeOK PROVE Clamped \in 0..DelayMax
BY DelaySizes DEF DelayTypeOK, Clamped

LEMMA SilentWindow ==
  ASSUME NEW p \in 0..DelayBufSize - 1, NEW m \in 0..DelayBufSize
  PROVE  Window(DelayBufSize, SilentBuf, p, m) = [i \in 1..m |-> Silent]
<1>1. \A i \in 1..m : Place(DelayBufSize, p, i - 1) \in DelayAddresses
  <2> TAKE i \in 1..m
  <2>1. i - 1 \in 0..DelayBufSize /\ DelayBufSize \in Nat
    BY DelaySizes
  <2> QED
    BY <2>1, PlaceType DEF DelayAddresses
<1>2. \A i \in 1..m : SilentBuf[Place(DelayBufSize, p, i - 1)] = Silent
  BY <1>1 DEF SilentBuf
<1> QED
  BY <1>2 DEF Window

LEMMA SilentBufType == SilentBuf \in [0..DelayBufSize - 1 -> Samples]
BY DelaySizes DEF SilentBuf, DelayAddresses

LEMMA EmptyLine ==
  ASSUME DelayTypeOK, delay_wp = delay_rp PROVE L = 0 /\ Delayed = <<>>
<1>1. L = 0
  BY LineNat DEF L, DelayTypeOK
<1> QED
  BY <1>1, DelayedIsWindow, EmptyWindow DEF DelayedShape

LEMMA NoLineMeansEqual ==
  ASSUME DelayTypeOK, L = 0 PROVE delay_wp = delay_rp
BY DelaySizes DEF DelayTypeOK, L

\* The room that DelayInv speaks of, for a delay of one rate
LEMMA RoomForBlocks ==
  ASSUME NEW rate \in Rates, NEW c \in 0..DelayMax
  PROVE  /\ rate * c \in 0..DelayBufSize - 1
         /\ \A r \in Rates : rate * c + r * FrameMax <= DelayBufSize
<1>1. \A r \in Rates : rate * c + r * FrameMax <= DelayBufSize
  BY RatesFit
<1> DEFINE d == rate * c
           f == rate * FrameMax
<1>2. d \in Nat /\ f \in Nat \ {0} /\ d + f <= DelayBufSize
  BY RatesFit
<1> HIDE DEF d, f
<1>3. d \in 0..DelayBufSize - 1
  BY <1>2, DelaySizes
<1> QED
  BY <1>1, <1>3 DEF d

\* A block when no delay is asked for
LEMMA DirectPass ==
  ASSUME DelayInv, NEW rate \in Rates, NEW data \in Seq(Samples), Clamped = 0,
         aml_audiodelay_process(data, rate)
  PROVE  DelayInv' /\ Line!Pass([i \in 1..0 |-> Silent], data)
<1> DEFINE B == DelayBufSize
<1>1. DelayTypeOK /\ B \in Nat \ {0} /\ 0 \in 0..B - 1 /\ B % B = 0 /\ 0 \in 0..DelayMax
  <2>1. DelayTypeOK /\ B \in Nat \ {0} /\ DelayMax \in Nat
    BY DelaySizes DEF DelayInv
  <2> HIDE DEF B
  <2> QED
    BY <2>1
<1>2. adev_delay_time' = 0 /\ delay_time' = 0 /\ delayed' = data /\ delay_handle' \in BOOLEAN
  BY <1>1 DEF aml_audiodelay_process, DelayTypeOK
<1>3. /\ delay_buf' \in [0..B - 1 -> Samples]
      /\ delay_wp' = delay_rp' /\ delay_rp' \in 0..B - 1
  <2>1. CASE delay_time = 0
    <3>1. delay_wp = delay_rp
      BY <1>1, <2>1, NoLineMeansEqual DEF DelayInv
    <3>2. delay_buf' = delay_buf /\ delay_wp' = delay_wp /\ delay_rp' = delay_rp
      BY <2>1 DEF aml_audiodelay_process
    <3> QED
      BY <1>1, <3>1, <3>2 DEF DelayTypeOK
  <2>2. CASE delay_time # 0
    <3>1. delay_buf' = SilentBuf /\ delay_wp' = 0 /\ delay_rp' = (B - rate * 0) % B
      BY <2>2 DEF aml_audiodelay_process
    <3>2. rate * 0 = 0 /\ B - 0 = B
      BY <1>1, DelaySizes
    <3> QED
      BY <1>1, <3>1, <3>2, SilentBufType
  <2> QED
    BY <2>1, <2>2
<1>4. DelayTypeOK'
  BY <1>1, <1>2, <1>3 DEF DelayTypeOK
<1>5. L' = 0 /\ Delayed' = <<>>
  <2>1. (DelayTypeOK /\ delay_wp = delay_rp => L = 0 /\ Delayed = <<>>)'
    BY EmptyLine, PTL
  <2> QED
    BY <1>3, <1>4, <2>1
<1>6. \A r \in Rates : L' + r * FrameMax <= B
  BY <1>1, <1>5, RatesFit
<1>7. DelayInv'
  BY <1>4, <1>5, <1>6 DEF DelayInv
<1>8. Line!Pass([i \in 1..0 |-> Silent], data)
  <2> DEFINE none == [i \in 1..0 |-> Silent]
             k == Len(data)
  <2>1. none = <<>> /\ Len(none) = 0 /\ none \o data = data
    OBVIOUS
  <2>2. k \in Nat
    OBVIOUS
  <2>3. SubSeq(data, 1, k) = data /\ SubSeq(data, k + 1, 0 + k) = <<>>
    BY <2>2
  <2>4. delayed' = SubSeq(none \o data, 1, k)
    BY <1>2, <2>1, <2>3
  <2>5. Delayed' = SubSeq(none \o data, k + 1, Len(none) + k)
    BY <1>5, <2>1, <2>3
  <2> QED
    BY <2>4, <2>5 DEF Line!Pass
<1> QED
  BY <1>7, <1>8

\* A block with the delay that is running
LEMMA SamePass ==
  ASSUME DelayInv, NEW rate \in Rates, NEW data \in Seq(Samples),
         Len(data) <= rate * FrameMax, Clamped # 0, delay_time = Clamped,
         aml_audiodelay_process(data, rate)
  PROVE  DelayInv' /\ Line!Pass(Delayed, data)
<1>1. DelayTypeOK /\ delay_time \in 0..DelayMax
  BY DEF DelayInv, DelayTypeOK
<1>2. /\ adev_delay_time' = delay_time /\ delay_time' = delay_time
      /\ delay_handle' = delay_handle /\ delay_handle \in BOOLEAN
      /\ delay_buf' = DelayIn(delay_buf, delay_wp, data)
      /\ delay_wp' = DelayAdvance(delay_wp, Len(data))
      /\ delay_rp' = DelayAdvance(delay_rp, Len(data))
      /\ delayed' = DelayOut(delay_buf', delay_rp, Len(data))
  BY <1>1 DEF aml_audiodelay_process, DelayTypeOK
<1>3. L + Len(data) <= DelayBufSize
  <2> DEFINE f == rate * FrameMax
  <2>1. L + f <= DelayBufSize /\ Len(data) <= f /\ Len(data) \in Nat
    BY DEF DelayInv
  <2>2. f \in Nat
    BY DelaySizes
  <2> HIDE DEF f
  <2> QED
    BY <1>1, <2>1, <2>2, LineNat, DelaySizes
<1>4. /\ delay_buf \in [0..DelayBufSize - 1 -> Samples] /\ delay_rp \in 0..DelayBufSize - 1
      /\ L \in 0..DelayBufSize - 1 /\ delay_wp = Place(DelayBufSize, delay_rp, L)
      /\ Delayed = Window(DelayBufSize, delay_buf, delay_rp, L)
  BY <1>1, LineNat, DelayedIsWindow DEF DelayTypeOK, DelayedShape
<1>5. DelayTypeOK' /\ L' = L /\ Line!Pass(Delayed, data)
  BY <1>1, <1>2, <1>3, <1>4, BlockPasses
<1> QED
  BY <1>2, <1>5 DEF DelayInv, Clamped

\* A block with another delay: it starts from silence
LEMMA NewPass ==
  ASSUME DelayInv, NEW rate \in Rates, NEW data \in Seq(Samples),
         Len(data) <= rate * FrameMax, Clamped # 0, delay_time # Clamped,
         aml_audiodelay_process(data, rate)
  PROVE  DelayInv' /\ Line!Pass([i \in 1..rate * Clamped |-> Silent], data)
<1> DEFINE B == DelayBufSize
           m == rate * Clamped
           r == (B - m) % B
<1>1. DelayTypeOK /\ Clamped \in 0..DelayMax
  BY ClampedType DEF DelayInv
<1>2. m \in 0..B - 1 /\ \A s \in Rates : m + s * FrameMax <= B
  BY <1>1, RoomForBlocks
<1>3. m > 0 /\ Len(data) \in Nat
  <2>1. rate \in Nat /\ 1 <= rate /\ Clamped \in Nat /\ 1 <= Clamped
    BY <1>1, DelaySizes
  <2>2. 1 * 1 <= rate * Clamped
    BY <2>1, ProductsGrow
  <2> QED
    BY <1>2, <2>2, DelaySizes
<1>4. m + Len(data) <= B
  <2> DEFINE f == rate * FrameMax
  <2>1. m + f <= B /\ Len(data) <= f /\ f \in Nat
    BY <1>2, DelaySizes
  <2> HIDE DEF f, m
  <2> QED
    BY <1>2, <1>3, <2>1, DelaySizes
<1>5. /\ adev_delay_time' = Clamped /\ delay_time' = Clamped /\ delay_handle' \in BOOLEAN
      /\ delay_buf' = DelayIn(SilentBuf, 0, data)
      /\ delay_wp' = DelayAdvance(0, Len(data))
      /\ delay_rp' = DelayAdvance(r, Len(data))
      /\ delayed' = DelayOut(delay_buf', r, Len(data))
  BY <1>1 DEF aml_audiodelay_process, DelayTypeOK
<1> HIDE DEF m
<1>6. r = B - m /\ r \in 0..B - 1
  <2>1. B \in Nat \ {0}
    BY DelaySizes
  <2> HIDE DEF B
  <2> QED
    BY <1>2, <1>3, <2>1 DEF B
<1> HIDE DEF r
<1>7. 0 = Place(B, r, m) /\ m \in 0..B
  BY <1>2, <1>6, DelaySizes DEF Place
<1> DEFINE line == [i \in 1..m |-> Silent]
<1>8. line = Window(B, SilentBuf, r, m)
  BY <1>6, <1>7, SilentWindow
<1> HIDE DEF line
<1>9. DelayTypeOK' /\ L' = m /\ Line!Pass(line, data)
  BY <1>1, <1>2, <1>4, <1>5, <1>6, <1>7, <1>8, SilentBufType, BlockPasses
<1>10. DelayInv'
  BY <1>2, <1>5, <1>9 DEF DelayInv
<1> QED
  BY <1>9, <1>10 DEF line, m

LEMMA ProcessIsPlay ==
  ASSUME DelayInv, NEW rate \in Rates, NEW n \in 1..rate * FrameMax,
         NEW data \in [1..n -> Samples], aml_audiodelay_process(data, rate)
  PROVE  DelayInv' /\ Line!Play(rate, data)
<1> DEFINE silence == [i \in 1..rate * Clamped |-> Silent]
<1>1. data \in Seq(Samples) /\ Len(data) <= rate * FrameMax
  BY BlockType
<1>2. Clamped \in 0..DelayMax /\ DelayTypeOK
  BY ClampedType DEF DelayInv
<1>3. /\ delay_handle /\ delay_handle' = delay_handle
      /\ adev_delay_time' = Clamped /\ delay_time' = Clamped
  BY DEF aml_audiodelay_process
<1>4. Clamped' = Clamped
  BY <1>2, <1>3, DelaySizes DEF Clamped
<1>5. CASE Clamped = 0
  <2>1. DelayInv' /\ Line!Pass([i \in 1..0 |-> Silent], data)
    BY <1>1, <1>5, DirectPass
  <2>2. rate * 0 = 0
    BY DelaySizes
  <2>3. delay_time = 0 => Delayed = <<>>
    BY <1>2, NoLineMeansEqual, EmptyLine DEF DelayInv
  <2>4. [i \in 1..0 |-> Silent] = <<>>
    OBVIOUS
  <2>5. silence = <<>> /\ Line!Pass(<<>>, data)
    BY <1>5, <2>1, <2>2, <2>4
  <2>6. Line!Pass(IF delay_time = Clamped THEN Delayed ELSE silence, data)
    BY <1>5, <2>3, <2>5
  <2> QED
    BY <1>3, <1>4, <2>1, <2>6 DEF Line!Play, Line!Silence
<1>6. CASE Clamped # 0 /\ delay_time = Clamped
  <2>1. DelayInv' /\ Line!Pass(Delayed, data)
    BY <1>1, <1>6, SamePass
  <2> QED
    BY <1>3, <1>4, <1>6, <2>1 DEF Line!Play
<1>7. CASE Clamped # 0 /\ delay_time # Clamped
  <2>1. DelayInv' /\ Line!Pass(silence, data)
    BY <1>1, <1>7, NewPass
  <2> QED
    BY <1>3, <1>4, <1>7, <2>1 DEF Line!Play, Line!Silence
<1> QED
  BY <1>5, <1>6, <1>7

\* A handle just made, or none: nothing waits
LEMMA FreshHandle ==
  ASSUME delay_time = 0, delay_buf = SilentBuf, delay_wp = 0, delay_rp = 0,
         adev_delay_time \in Nat, delay_handle \in BOOLEAN, delayed \in Seq(Samples)
  PROVE  DelayInv /\ Delayed = <<>>
<1>1. DelayTypeOK
  BY DelaySizes, SilentBufType DEF DelayTypeOK
<1>2. L = 0 /\ Delayed = <<>>
  BY <1>1, EmptyLine
<1>3. \A r \in Rates : 0 + r * FrameMax <= DelayBufSize
  <2> TAKE r \in Rates
  <2>1. 0 \in 0..DelayMax /\ r * 0 = 0
    BY DelaySizes
  <2>2. r * 0 + r * FrameMax <= DelayBufSize
    BY <2>1, RatesFit
  <2> QED
    BY <2>1, <2>2
<1> QED
  BY <1>1, <1>2, <1>3 DEF DelayInv

LEMMA DelayInitInv == DelayInit => DelayInv /\ Line!Init
<1> SUFFICES ASSUME DelayInit PROVE DelayInv /\ Line!Init
  OBVIOUS
<1>1. DelayInv /\ Delayed = <<>>
  BY FreshHandle, EmptySeq DEF DelayInit
<1>2. Clamped = 0
  BY DelaySizes DEF DelayInit, Clamped
<1> QED
  BY <1>1, <1>2 DEF DelayInit, Line!Init

LEMMA NewHandleStep ==
  ASSUME DelayInv, NewHandle, delay_handle' \in BOOLEAN
  PROVE  DelayInv' /\ Delayed' = <<>> /\ delay_time' = 0
         /\ Clamped' = Clamped /\ delayed' = delayed
<1>1. /\ delay_time' = 0 /\ delay_buf' = SilentBuf' /\ delay_wp' = 0 /\ delay_rp' = 0
      /\ adev_delay_time' \in Nat /\ delayed' \in Seq(Samples)
      /\ adev_delay_time' = adev_delay_time /\ delayed' = delayed
  BY DEF NewHandle, DelayInv, DelayTypeOK, SilentBuf, DelayAddresses, DelayBufSize
<1>2. Clamped' = Clamped
  BY <1>1 DEF Clamped
<1>3. DelayInv' /\ Delayed' = <<>>
  <2>1. (/\ delay_time = 0 /\ delay_buf = SilentBuf /\ delay_wp = 0 /\ delay_rp = 0
         /\ adev_delay_time \in Nat /\ delay_handle \in BOOLEAN /\ delayed \in Seq(Samples)
         => DelayInv /\ Delayed = <<>>)'
    BY FreshHandle, PTL
  <2> QED
    BY <1>1, <2>1
<1> QED
  BY <1>1, <1>2, <1>3

LEMMA DelayStep ==
  DelayInv /\ [DelayNext]_delayvars
    => DelayInv' /\ [Line!Next]_<<Clamped, delay_handle, delay_time, Delayed, delayed>>
<1> DEFINE mapped == <<Clamped, delay_handle, delay_time, Delayed, delayed>>
<1> SUFFICES ASSUME DelayInv, [DelayNext]_delayvars
             PROVE  DelayInv' /\ [Line!Next]_mapped
  OBVIOUS
<1>1. ASSUME NEW rate \in Rates, NEW n \in 1..rate * FrameMax,
             NEW data \in [1..n -> Samples], aml_audiodelay_process(data, rate)
      PROVE  DelayInv' /\ Line!Next
  <2>1. DelayInv' /\ Line!Play(rate, data)
    BY <1>1, ProcessIsPlay
  <2>2. n \in 0..rate * FrameMax
    <3>1. rate * FrameMax \in Nat
      BY DelaySizes
    <3> QED
      BY <3>1
  <2> QED
    BY <2>1, <2>2, Zenon DEF Line!Next
<1>2. ASSUME UNCHANGED handlevars, UNCHANGED delay_handle,
             adev_delay_time' \in Nat, delayed' \in Seq(Samples)
      PROVE  DelayInv' /\ Delayed' = Delayed
  <2>1. L' = L /\ Delayed' = Delayed
    BY <1>2 DEF handlevars, L, Delayed, DelayOut, DelayBufSize
  <2> QED
    BY <1>2, <2>1 DEF handlevars, DelayInv, DelayTypeOK
<1>3. ASSUME NEW t \in 0..MaxDelayTime, SetDelayTime(t)
      PROVE  DelayInv' /\ Line!Next
  <2>1. /\ adev_delay_time' = t /\ t \in Nat /\ delayed' = delayed /\ delayed \in Seq(Samples)
        /\ UNCHANGED handlevars /\ UNCHANGED delay_handle
    BY <1>3, DelaySizes DEF SetDelayTime, DelayInv, DelayTypeOK
  <2>2. DelayInv' /\ Delayed' = Delayed
    BY <1>2, <2>1
  <2>3. Clamped' \in 0..DelayMax
    BY <2>1, DelaySizes DEF Clamped
  <2>4. Line!Ask(Clamped')
    BY <2>1, <2>2 DEF Line!Ask, handlevars
  <2> QED
    BY <2>2, <2>3, <2>4, Zenon DEF Line!Next
<1>4. CASE aml_audiodelay_init
  <2>1. NewHandle /\ delay_handle' = TRUE
    BY <1>4 DEF aml_audiodelay_init
  <2>2. /\ DelayInv' /\ Delayed' = <<>> /\ delay_time' = 0
        /\ Clamped' = Clamped /\ delayed' = delayed
    BY <2>1, NewHandleStep
  <2> QED
    BY <2>1, <2>2 DEF Line!Next, Line!Open
<1>5. CASE aml_audiodelay_close
  <2>1. NewHandle /\ delay_handle' = FALSE
    BY <1>5 DEF aml_audiodelay_close
  <2>2. /\ DelayInv' /\ Delayed' = <<>> /\ delay_time' = 0
        /\ Clamped' = Clamped /\ delayed' = delayed
    BY <2>1, NewHandleStep
  <2> QED
    BY <2>1, <2>2 DEF Line!Next, Line!Close
<1>6. CASE ProcessWithoutHandle
  <2>1. /\ ~delay_handle /\ delayed' = <<>> /\ delayed' \in Seq(Samples)
        /\ adev_delay_time' = adev_delay_time /\ adev_delay_time' \in Nat
        /\ UNCHANGED delay_handle /\ UNCHANGED handlevars
    BY <1>6, EmptySeq DEF ProcessWithoutHandle, DelayInv, DelayTypeOK
  <2>2. DelayInv' /\ Delayed' = Delayed
    BY <1>2, <2>1
  <2>3. Clamped' = Clamped /\ delay_time' = delay_time
    BY <2>1 DEF Clamped, handlevars
  <2> QED
    BY <2>1, <2>2, <2>3 DEF Line!Next, Line!Refuse
<1>7. CASE UNCHANGED delayvars
  <2>1. /\ adev_delay_time' = adev_delay_time /\ adev_delay_time' \in Nat
        /\ delayed' = delayed /\ delayed' \in Seq(Samples)
        /\ UNCHANGED delay_handle /\ UNCHANGED handlevars
    BY <1>7 DEF delayvars, DelayInv, DelayTypeOK
  <2>2. DelayInv' /\ Delayed' = Delayed
    BY <1>2, <2>1
  <2> QED
    BY <2>1, <2>2 DEF Clamped, handlevars
<1> QED
  BY <1>1, <1>3, <1>4, <1>5, <1>6, <1>7, Zenon DEF DelayNext

\* Whatever the rates, the longest delay and the length of the blocks, and however the
\* rate, the delay and the handle change between them: every sample comes out once, in
\* order and behind those that wait, and these are silence of exactly the delay asked
\* for, at the rate of the block that met it first, or what a block before left.
\* Nothing but another delay or another handle starts the buffer anew, and a block
\* never overruns in the circular buffer the samples that wait in it.
THEOREM DelayIsLine == DelaySpec => ImplementsDelayLine
<1>1. DelaySpec => Line!Init
                   /\ [][Line!Next]_<<Clamped, delay_handle, delay_time, Delayed, delayed>>
  BY DelayInitInv, DelayStep, PTL DEF DelaySpec
<1> QED
  BY <1>1 DEF ImplementsDelayLine, Line!Spec, Line!linevars

=============================================================================
