-------------------------- MODULE RingBufferProofs --------------------------
(***************************************************************************)
(* Proofs about RingBuffer for every size, byte alphabet and request       *)
(* length: type correctness and that the buffer implements BoundedFifo.    *)
(***************************************************************************)
EXTENDS RingBuffer, SequenceTheorems, TLAPS

USE SizesAssumption, BytesAssumption

\* What Contents reads, and what is left to write
R == get_read_space
W == get_write_space

-----------------------------------------------------------------------------
(* The arithmetic of the pointers *)

LEMMA Spaces ==
  ASSUME TypeOK, allocated
  PROVE  R \in 0..size /\ W \in 0..size /\ R + W = size
BY DEF TypeOK, R, W, get_read_space, get_write_space, Addresses

LEMMA AbsentIsEmpty == ASSUME TypeOK, ~allocated PROVE R = 0
BY DEF TypeOK, R, get_read_space

LEMMA ReadSpaceNat == ASSUME TypeOK PROVE R \in Nat
BY Spaces, AbsentIsEmpty DEF TypeOK

LEMMA PointerType ==
  ASSUME TypeOK, allocated, NEW p \in 0..size - 1, NEW n \in 0..size
  PROVE  update_pointer(p, n) \in 0..size - 1
BY DEF TypeOK, update_pointer

\* A read of what there is to read finds bytes
LEMMA ReadType ==
  ASSUME TypeOK, allocated, NEW p \in 0..size - 1, NEW n \in 0..size
  PROVE  /\ read_from_buffer(p, n) \in Seq(Bytes)
         /\ Len(read_from_buffer(p, n)) = n
         /\ \A i \in 1..n : read_from_buffer(p, n)[i] = mem[update_pointer(p, i - 1)]
<1>1. \A i \in 1..n : read_from_buffer(p, n)[i] = mem[update_pointer(p, i - 1)]
  BY DEF TypeOK, read_from_buffer, update_pointer
<1>2. \A i \in 1..n : mem[update_pointer(p, i - 1)] \in Bytes
  <2> TAKE i \in 1..n
  <2>1. i - 1 \in 0..size
    BY DEF TypeOK
  <2>2. update_pointer(p, i - 1) \in 0..size - 1
    BY <2>1, PointerType
  <2> QED
    BY <2>2 DEF TypeOK, Addresses
<1>3. read_from_buffer(p, n) \in [1..n -> Bytes]
  BY <1>1, <1>2 DEF read_from_buffer
<1> QED
  BY <1>1, <1>3 DEF TypeOK

\* Contents are R bytes, found from rd on
ContentsShape ==
  /\ Contents \in Seq(Bytes)
  /\ Len(Contents) = R
  /\ \A i \in 1..R : Contents[i] = mem[update_pointer(rd, i - 1)]

LEMMA ContentsType == TypeOK => ContentsShape
<1> SUFFICES ASSUME TypeOK PROVE ContentsShape
  OBVIOUS
<1> USE DEF ContentsShape
<1>1. CASE allocated
  <2>1. rd \in 0..size - 1 /\ R \in 0..size
    BY <1>1, Spaces DEF TypeOK, Addresses
  <2>2. Contents = read_from_buffer(rd, R)
    BY DEF Contents, R
  <2> QED
    BY <1>1, <2>1, <2>2, ReadType
<1>2. CASE ~allocated
  <2>1. R = 0
    BY <1>2, AbsentIsEmpty
  <2>2. Contents = <<>>
    BY <2>1 DEF Contents, R, read_from_buffer
  <2> QED
    BY <2>1, <2>2
<1> QED
  BY <1>1, <1>2

LEMMA DataType ==
  ASSUME NEW data \in Requests
  PROVE  data \in Seq(Bytes) /\ Len(data) \in 0..MaxRequest
BY DEF Requests

-----------------------------------------------------------------------------
(* Writing *)

\* Byte a of the write lands where a reader that starts at wr finds it a-th
LEMMA WriteMem ==
  ASSUME TypeOK, allocated, NEW data \in Seq(Bytes), NEW n \in 0..size,
         n <= Len(data), write_to_buffer(wr, data, n)
  PROVE  /\ mem' \in [Addresses -> Bytes]
         /\ \A j \in 0..n - 1 : mem'[update_pointer(wr, j)] = data[j + 1]
         /\ \A j \in n..size - 1 :
              mem'[update_pointer(wr, j)] = mem[update_pointer(wr, j)]
<1>1. mem' \in [Addresses -> Bytes]
  <2>1. \A i \in 1..n : data[i] \in Bytes
    BY DEF TypeOK
  <2> QED
    BY <2>1 DEF TypeOK, write_to_buffer, Addresses
<1>2. \A j \in 0..n - 1 : mem'[update_pointer(wr, j)] = data[j + 1]
  BY DEF TypeOK, write_to_buffer, Addresses, update_pointer
<1>3. \A j \in n..size - 1 :
        mem'[update_pointer(wr, j)] = mem[update_pointer(wr, j)]
  BY DEF TypeOK, write_to_buffer, Addresses, update_pointer
<1> QED
  BY <1>1, <1>2, <1>3

\* The i-th byte after rd, as seen from wr
LEMMA SeenFromWr ==
  ASSUME TypeOK, allocated, NEW i \in 1..size
  PROVE  update_pointer(rd, i - 1) =
           IF i <= R THEN update_pointer(wr, W + i - 1)
           ELSE update_pointer(wr, i - 1 - R)
BY DEF TypeOK, R, W, get_read_space, get_write_space, update_pointer, Addresses

LEMMA AppendContents ==
  ASSUME TypeOK, TypeOK', allocated, NEW data \in Seq(Bytes), NEW n \in 0..W,
         n <= Len(data), write_to_buffer(wr, data, n),
         wr' = update_pointer(wr, n),
         last_is_write' = (last_is_write \/ n > 0),
         UNCHANGED <<allocated, rd, size>>
  PROVE  Contents' = Contents \o SubSeq(data, 1, n)
<1>1. size \in Nat /\ R \in 0..size /\ W \in 0..size /\ R + W = size
  BY Spaces DEF TypeOK
<1>2. R' = R + n
  <2>1. rd \in 0..size - 1 /\ wr \in 0..size - 1 /\ size \in Nat
    BY DEF TypeOK, Addresses
  <2>2. CASE n = 0
    BY <1>1, <2>1, <2>2 DEF TypeOK, R, get_read_space, update_pointer
  <2>3. CASE n > 0
    <3>1. last_is_write'
      BY <2>3
    <3>2. CASE wr > rd
      BY <1>1, <2>1, <2>3, <3>1, <3>2 DEF R, W, get_read_space, get_write_space, update_pointer
    <3>3. CASE wr < rd
      BY <1>1, <2>1, <2>3, <3>1, <3>3 DEF R, W, get_read_space, get_write_space, update_pointer
    <3>4. CASE wr = rd
      BY <1>1, <2>1, <2>3, <3>1, <3>4 DEF R, W, get_read_space, get_write_space, update_pointer
    <3> QED
      BY <2>1, <3>2, <3>3, <3>4
  <2> QED
    BY <1>1, <2>2, <2>3
<1> DEFINE new == SubSeq(data, 1, n)
<1>3. /\ new \in Seq(Bytes)
      /\ Len(new) = n
      /\ \A i \in 1..n : new[i] = data[i]
  BY <1>1, SubSeqProperties
<1> HIDE DEF new
<1>4. /\ Contents \o new \in Seq(Bytes)
      /\ Len(Contents \o new) = R + n
      /\ \A i \in 1..R + n : (Contents \o new)[i] =
            IF i <= R THEN Contents[i] ELSE new[i - R]
  <2>1. Contents \in Seq(Bytes) /\ Len(Contents) = R
    BY ContentsType DEF ContentsShape
  <2>2. /\ Contents \o new \in Seq(Bytes)
        /\ Len(Contents \o new) = Len(Contents) + Len(new)
        /\ \A i \in 1..Len(Contents) + Len(new) : (Contents \o new)[i] =
              IF i <= Len(Contents) THEN Contents[i] ELSE new[i - Len(Contents)]
    BY <2>1, <1>3, ConcatProperties
  <2> QED
    BY <2>1, <2>2, <1>3
<1>5. /\ Contents' \in Seq(Bytes)
      /\ Len(Contents') = R + n
      /\ \A i \in 1..R + n : Contents'[i] = mem'[update_pointer(rd, i - 1)]
  <2>1. /\ Contents' \in Seq(Bytes)
        /\ Len(Contents') = R'
        /\ \A i \in 1..R' : Contents'[i] = mem'[update_pointer(rd, i - 1)']
    <3>1. ContentsShape'
      BY ContentsType, PTL
    <3> QED
      BY <3>1 DEF ContentsShape
  <2>2. \A i \in 1..R' : update_pointer(rd, i - 1)' = update_pointer(rd, i - 1)
    BY DEF update_pointer
  <2> QED
    BY <1>2, <2>1, <2>2
<1>6. ASSUME NEW i \in 1..R + n
      PROVE  Contents'[i] = (Contents \o new)[i]
  <2>1. i \in 1..size /\ n \in 0..size
    BY <1>1
  <2>2. CASE i <= R
    <3>1. update_pointer(rd, i - 1) = update_pointer(wr, W + i - 1)
      BY <2>1, <2>2, SeenFromWr
    <3>2. W + i - 1 \in n..size - 1
      BY <1>1, <2>2
    <3>3. mem'[update_pointer(wr, W + i - 1)] = mem[update_pointer(wr, W + i - 1)]
      BY <2>1, <3>2, WriteMem
    <3>4. Contents[i] = mem[update_pointer(rd, i - 1)]
      BY <1>1, <2>2, ContentsType DEF ContentsShape
    <3> QED
      BY <1>4, <1>5, <2>2, <3>1, <3>3, <3>4
  <2>3. CASE ~(i <= R)
    <3>1. update_pointer(rd, i - 1) = update_pointer(wr, i - 1 - R)
      BY <1>1, <2>1, <2>3, SeenFromWr
    <3>2. i - 1 - R \in 0..n - 1
      BY <1>1, <2>3
    <3>3. mem'[update_pointer(wr, i - 1 - R)] = data[i - R]
      <4>1. mem'[update_pointer(wr, i - 1 - R)] = data[(i - 1 - R) + 1]
        BY <2>1, <3>2, WriteMem
      <4>2. (i - 1 - R) + 1 = i - R
        BY <1>1, <2>1
      <4> QED
        BY <4>1, <4>2
    <3>4. new[i - R] = data[i - R]
      BY <1>1, <1>3, <2>3
    <3>5. (Contents \o new)[i] = new[i - R]
      BY <1>1, <1>4, <2>1, <2>3
    <3> QED
      BY <1>5, <3>1, <3>3, <3>4, <3>5
  <2> QED
    BY <2>2, <2>3
<1>7. \A i \in 1..Len(Contents') : Contents'[i] = (Contents \o new)[i]
  BY <1>5, <1>6
<1>8. Contents' = Contents \o new
  BY <1>4, <1>5, <1>7, SeqEqual
<1> QED
  BY <1>8 DEF new

\* A covering write of more than fits drops one lap of the buffer
LEMMA OverrunContents ==
  ASSUME TypeOK, TypeOK', allocated, NEW data \in Seq(Bytes),
         NEW n \in 0..size, n = Len(data), n > W,
         write_to_buffer(wr, data, n), wr' = update_pointer(wr, n),
         last_is_write', UNCHANGED <<allocated, rd, size>>
  PROVE  /\ R + n >= size
         /\ Contents' = SubSeq(Contents \o data, size + 1, R + n)
<1>1. /\ size \in Nat /\ R \in 0..size /\ W \in 0..size /\ R + W = size
      /\ R + n > size
  BY Spaces DEF TypeOK
<1>2. R' = R + n - size
  <2>1. rd \in 0..size - 1 /\ wr \in 0..size - 1
    BY DEF TypeOK, Addresses
  <2>2. CASE wr > rd
    BY <1>1, <2>1, <2>2 DEF R, W, get_read_space, get_write_space, update_pointer
  <2>3. CASE wr < rd
    BY <1>1, <2>1, <2>3 DEF R, W, get_read_space, get_write_space, update_pointer
  <2>4. CASE wr = rd
    BY <1>1, <2>1, <2>4 DEF R, W, get_read_space, get_write_space, update_pointer
  <2> QED
    BY <1>1, <2>1, <2>2, <2>3, <2>4
<1> DEFINE all == Contents \o data
<1>3. /\ all \in Seq(Bytes)
      /\ Len(all) = R + n
      /\ \A i \in 1..R + n : i > R => all[i] = data[i - R]
  <2>1. Contents \in Seq(Bytes) /\ Len(Contents) = R
    BY ContentsType DEF ContentsShape
  <2>2. /\ all \in Seq(Bytes)
        /\ Len(all) = Len(Contents) + Len(data)
        /\ \A i \in 1..Len(Contents) + Len(data) : all[i] =
              IF i <= Len(Contents) THEN Contents[i] ELSE data[i - Len(Contents)]
    BY <2>1, ConcatProperties
  <2> HIDE DEF all
  <2>3. Len(Contents) = R /\ Len(data) = n
    BY <2>1
  <2>4. ASSUME NEW i \in 1..R + n, i > R PROVE all[i] = data[i - R]
    BY <1>1, <2>2, <2>3, <2>4
  <2> QED
    BY <2>2, <2>3, <2>4
<1> HIDE DEF all
<1> DEFINE rest == SubSeq(all, size + 1, R + n)
<1>4. /\ rest \in Seq(Bytes)
      /\ Len(rest) = R + n - size
      /\ \A i \in 1..R + n - size : rest[i] = all[size + i]
  <2>1. \A i \in size + 1..R + n : all[i] \in Bytes
    BY <1>1, <1>3, ElementOfSeq
  <2>2. /\ rest \in Seq(Bytes)
        /\ Len(rest) = IF size + 1 <= R + n THEN R + n - (size + 1) + 1 ELSE 0
        /\ \A i \in 1..R + n - (size + 1) + 1 : rest[i] = all[size + 1 + i - 1]
    BY <1>1, <2>1, SubSeqProperties
  <2> QED
    BY <1>1, <2>2
<1> HIDE DEF rest
<1>5. /\ Contents' \in Seq(Bytes)
      /\ Len(Contents') = R + n - size
      /\ \A i \in 1..R + n - size : Contents'[i] = mem'[update_pointer(rd, i - 1)]
  <2>1. ContentsShape'
    BY ContentsType, PTL
  <2>2. \A i \in 1..R' : update_pointer(rd, i - 1)' = update_pointer(rd, i - 1)
    BY DEF update_pointer
  <2> QED
    BY <1>2, <2>1, <2>2 DEF ContentsShape
<1>6. ASSUME NEW i \in 1..R + n - size
      PROVE  Contents'[i] = rest[i]
  <2>1. i \in 1..size /\ i <= R /\ W + i - 1 \in 0..n - 1
    BY <1>1
  <2>2. update_pointer(rd, i - 1) = update_pointer(wr, W + i - 1)
    BY <2>1, SeenFromWr
  <2>3. mem'[update_pointer(wr, W + i - 1)] = data[(W + i - 1) + 1]
    BY <2>1, WriteMem
  <2>4. size + i \in 1..R + n /\ size + i > R /\ (W + i - 1) + 1 = (size + i) - R
    BY <1>1, <2>1
  <2>5. rest[i] = data[(size + i) - R]
    BY <1>3, <1>4, <2>4
  <2> QED
    BY <1>5, <2>2, <2>3, <2>4, <2>5
<1>7. \A i \in 1..Len(Contents') : Contents'[i] = rest[i]
  BY <1>5, <1>6
<1>8. Contents' = rest
  BY <1>4, <1>5, <1>7, SeqEqual
<1> QED
  BY <1>1, <1>8 DEF rest, all

-----------------------------------------------------------------------------
(* Reading *)

LEMMA ReadContents ==
  ASSUME TypeOK, TypeOK', allocated, NEW n \in 0..R,
         rd' = update_pointer(rd, n),
         last_is_write' = (last_is_write /\ n = 0),
         UNCHANGED <<allocated, mem, wr, size>>
  PROVE  /\ Contents' = SubSeq(Contents, n + 1, R)
         /\ read_from_buffer(rd, n) = SubSeq(Contents, 1, n)
<1>1. size \in Nat /\ R \in 0..size /\ n \in 0..size
  BY Spaces DEF TypeOK
<1>2. rd \in 0..size - 1 /\ wr \in 0..size - 1
  BY DEF TypeOK, Addresses
<1>3. R' = R - n
  <2>1. CASE n = 0
    BY <1>1, <1>2, <2>1 DEF TypeOK, R, get_read_space, update_pointer
  <2>2. CASE n > 0
    <3>1. ~last_is_write'
      <4>1. ~(n = 0)
        BY <1>1, <2>2
      <4> QED
        BY <4>1, Zenon
    <3>2. CASE wr > rd
      BY <1>1, <1>2, <2>2, <3>1, <3>2 DEF R, get_read_space, update_pointer
    <3>3. CASE wr < rd
      BY <1>1, <1>2, <2>2, <3>1, <3>3 DEF R, get_read_space, update_pointer
    <3>4. CASE wr = rd
      BY <1>1, <1>2, <2>2, <3>1, <3>4 DEF R, get_read_space, update_pointer
    <3> QED
      BY <1>2, <3>2, <3>3, <3>4
  <2> QED
    BY <1>1, <2>1, <2>2
<1>4. /\ Contents \in Seq(Bytes)
      /\ Len(Contents) = R
      /\ \A i \in 1..R : Contents[i] = mem[update_pointer(rd, i - 1)]
  BY ContentsType DEF ContentsShape
<1>5. \A i \in 1..R : Contents[i] \in Bytes
  BY <1>4, ElementOfSeq
<1>6. Contents' = SubSeq(Contents, n + 1, R)
  <2> DEFINE rest == SubSeq(Contents, n + 1, R)
  <2>1. /\ rest \in Seq(Bytes)
        /\ Len(rest) = IF n + 1 <= R THEN R - (n + 1) + 1 ELSE 0
        /\ \A i \in 1..R - (n + 1) + 1 : rest[i] = Contents[n + 1 + i - 1]
    BY <1>1, <1>5, SubSeqProperties
  <2> HIDE DEF rest
  <2>2. /\ Contents' \in Seq(Bytes)
        /\ Len(Contents') = R - n
        /\ \A i \in 1..R - n : Contents'[i] = mem[update_pointer(rd', i - 1)]
    <3>1. ContentsShape'
      BY ContentsType, PTL
    <3>2. \A i \in 1..R' : update_pointer(rd, i - 1)' = update_pointer(rd', i - 1)
      BY DEF update_pointer
    <3> QED
      BY <1>3, <3>1, <3>2 DEF ContentsShape
  <2>3. ASSUME NEW i \in 1..R - n PROVE Contents'[i] = rest[i]
    <3>1. update_pointer(rd', i - 1) = update_pointer(rd, (n + i) - 1)
      BY <1>1, <1>2 DEF update_pointer
    <3>2. n + i \in 1..R /\ n + 1 + i - 1 = n + i
      BY <1>1
    <3>3. Contents[n + i] = mem[update_pointer(rd, (n + i) - 1)]
      BY <1>4, <3>2
    <3>4. rest[i] = Contents[n + i]
      BY <1>1, <2>1, <3>2
    <3> QED
      BY <2>2, <3>1, <3>3, <3>4
  <2>4. Len(rest) = R - n
    BY <1>1, <2>1
  <2>5. \A i \in 1..Len(Contents') : Contents'[i] = rest[i]
    BY <2>2, <2>3
  <2>6. Contents' = rest
    BY <2>1, <2>2, <2>4, <2>5, SeqEqual
  <2> QED
    BY <2>6 DEF rest
<1>7. read_from_buffer(rd, n) = SubSeq(Contents, 1, n)
  <2> DEFINE got == read_from_buffer(rd, n)
             first == SubSeq(Contents, 1, n)
  <2>1. /\ got \in Seq(Bytes)
        /\ Len(got) = n
        /\ \A i \in 1..n : got[i] = mem[update_pointer(rd, i - 1)]
    BY <1>1, <1>2, ReadType
  <2>2. /\ first \in Seq(Bytes)
        /\ Len(first) = IF 1 <= n THEN n - 1 + 1 ELSE 0
        /\ \A i \in 1..n - 1 + 1 : first[i] = Contents[1 + i - 1]
    BY <1>1, <1>5, SubSeqProperties
  <2> HIDE DEF got, first
  <2>3. Len(first) = n /\ \A i \in 1..n : first[i] = Contents[i]
    BY <1>1, <2>2
  <2>4. \A i \in 1..Len(got) : got[i] = first[i]
    <3> SUFFICES ASSUME NEW i \in 1..n PROVE got[i] = first[i]
      BY <2>1
    <3>1. i \in 1..R
      BY <1>1
    <3> QED
      BY <1>4, <2>1, <2>3, <3>1
  <2>5. got = first
    BY <2>1, <2>2, <2>3, <2>4, SeqEqual
  <2> QED
    BY <2>5 DEF got, first
<1> QED
  BY <1>6, <1>7

-----------------------------------------------------------------------------
(* Type correctness *)

LEMMA InitType == Init => TypeOK
<1> SUFFICES ASSUME Init PROVE TypeOK
  OBVIOUS
<1>1. reply \in [count : Nat, data : Seq(Bytes)]
  BY EmptySeq DEF Init, Reply
<1> QED
  BY <1>1 DEF Init, TypeOK, Addresses

\* The two facts of a write: how much it writes, and that it fits
LEMMA WrittenBytes ==
  ASSUME TypeOK, allocated, NEW data \in Requests, NEW cover \in BOOLEAN,
         cover => Len(data) <= size,
         NEW n, n = IF W < Len(data) /\ ~cover THEN W ELSE Len(data)
  PROVE  n \in 0..size /\ n <= Len(data) /\ (~cover => n <= W)
<1>1. size \in Nat /\ W \in 0..size /\ Len(data) \in Nat
  BY Spaces, DataType DEF TypeOK
<1> QED
  BY <1>1

LEMMA WriteType ==
  ASSUME TypeOK, NEW data \in Requests, NEW cover \in BOOLEAN,
         ring_buffer_write(data, cover)
  PROVE  TypeOK'
<1> DEFINE n == IF get_write_space < Len(data) /\ ~cover
                THEN get_write_space ELSE Len(data)
<1>1. /\ allocated /\ (cover => Len(data) <= size)
      /\ write_to_buffer(wr, data, n)
      /\ wr' = update_pointer(wr, n)
      /\ last_is_write' = (last_is_write \/ n > 0)
      /\ reply' = Reply(n, <<>>)
      /\ UNCHANGED <<allocated, rd, size>>
  BY DEF ring_buffer_write
<1>2. n \in 0..size /\ n <= Len(data)
  BY <1>1, WrittenBytes DEF W
<1> HIDE DEF n
<1>3. mem' \in [Addresses -> Bytes]
  BY <1>1, <1>2, DataType, WriteMem
<1>4. wr' \in 0..size - 1
  BY <1>1, <1>2, PointerType DEF TypeOK, Addresses
<1>5. reply' \in [count : Nat, data : Seq(Bytes)]
  BY <1>1, <1>2, EmptySeq DEF Reply, TypeOK
<1> QED
  BY <1>1, <1>2, <1>3, <1>4, <1>5 DEF TypeOK, Addresses

LEMMA ReadStepType ==
  ASSUME TypeOK, NEW bytes \in 0..MaxRequest, ring_buffer_read(bytes)
  PROVE  TypeOK'
<1> DEFINE n == IF get_read_space < bytes THEN get_read_space ELSE bytes
<1>1. /\ allocated
      /\ rd' = update_pointer(rd, n)
      /\ last_is_write' = (last_is_write /\ n = 0)
      /\ reply' = Reply(n, read_from_buffer(rd, n))
      /\ UNCHANGED <<allocated, mem, wr, size>>
  BY DEF ring_buffer_read
<1>2. n \in 0..size /\ rd \in 0..size - 1
  BY <1>1, Spaces DEF TypeOK, R, Addresses
<1> HIDE DEF n
<1>3. rd' \in 0..size - 1
  BY <1>1, <1>2, PointerType
<1>4. reply' \in [count : Nat, data : Seq(Bytes)]
  BY <1>1, <1>2, ReadType DEF Reply, TypeOK
<1> QED
  BY <1>1, <1>3, <1>4 DEF TypeOK, Addresses

LEMMA NextType == TypeOK /\ [Next]_vars => TypeOK'
<1> SUFFICES ASSUME TypeOK, [Next]_vars PROVE TypeOK'
  OBVIOUS
<1>0. ASSUME NEW n \in 0..MaxSize PROVE zeroed(n) \in [Addresses -> Bytes]
  BY <1>0 DEF TypeOK, zeroed, Addresses
<1>1. ASSUME NEW buffer_size \in 1..MaxSize, ring_buffer_init(buffer_size)
      PROVE  TypeOK'
  <2>1. zeroed(buffer_size) \in [Addresses -> Bytes]
    BY <1>0
  <2>2. 0 \in Addresses
    BY DEF Addresses
  <2>3. mem' \in [Addresses -> Bytes]
    BY <1>1, <2>1 DEF TypeOK, ring_buffer_init
  <2> QED
    BY <1>1, <2>2, <2>3 DEF TypeOK, ring_buffer_init
<1>2. CASE ring_buffer_release
  <2>1. /\ allocated' = FALSE /\ last_is_write' = FALSE
        /\ rd' = 0 /\ wr' = 0 /\ size' = 0
        /\ mem' = mem /\ reply' = reply
    BY <1>2 DEF ring_buffer_release
  <2>2. 0 \in Addresses /\ 0 \in 0..MaxSize
    BY DEF Addresses
  <2> QED
    BY <2>1, <2>2 DEF TypeOK
<1>3. CASE ring_buffer_reset
  <2>1. zeroed(size) \in [Addresses -> Bytes]
    BY <1>0 DEF TypeOK
  <2>2. /\ allocated' = allocated /\ last_is_write' = FALSE
        /\ rd' = 0 /\ wr' = 0 /\ size' = size
        /\ mem' = zeroed(size) /\ reply' = reply
    BY <1>3 DEF ring_buffer_reset
  <2>3. 0 \in Addresses /\ (allocated => 0 < size)
    BY DEF TypeOK, Addresses
  <2> QED
    BY <2>1, <2>2, <2>3 DEF TypeOK
<1>4. CASE absent_buffer
  <2>1. reply' \in [count : Nat, data : Seq(Bytes)]
    BY <1>4, EmptySeq DEF absent_buffer, Reply
  <2> QED
    BY <1>4, <2>1 DEF TypeOK, absent_buffer
<1>5. CASE UNCHANGED vars
  BY <1>5 DEF TypeOK, vars
<1> QED
  BY <1>1, <1>2, <1>3, <1>4, <1>5, WriteType, ReadStepType DEF Next

\* Offsets stay inside the buffer and an absent buffer stays empty, whatever
\* its size and the requests.
THEOREM TypeCorrect == Spec => []TypeOK
BY InitType, NextType, PTL DEF Spec

-----------------------------------------------------------------------------
(* The refinement *)

FifoCapacity == IF allocated THEN size ELSE 0

LEMMA EmptyContents == ASSUME R = 0 PROVE Contents = <<>>
BY DEF R, Contents, read_from_buffer

LEMMA WriteRefines ==
  ASSUME TypeOK, TypeOK', NEW data \in Requests, NEW cover \in BOOLEAN,
         ring_buffer_write(data, cover)
  PROVE  Fifo!Put(data) \/ Fifo!Overwrite(data)
<1> DEFINE n == IF get_write_space < Len(data) /\ ~cover
                THEN get_write_space ELSE Len(data)
<1>1. /\ allocated /\ (cover => Len(data) <= size)
      /\ write_to_buffer(wr, data, n)
      /\ wr' = update_pointer(wr, n)
      /\ last_is_write' = (last_is_write \/ n > 0)
      /\ reply' = Reply(n, <<>>)
      /\ UNCHANGED <<allocated, rd, size>>
  BY DEF ring_buffer_write
<1>2. n \in 0..size /\ n <= Len(data)
  BY <1>1, WrittenBytes DEF W
<1>3. /\ data \in Seq(Bytes) /\ Len(data) \in Nat
      /\ size \in Nat /\ W \in 0..size /\ R \in 0..size /\ R + W = size
  BY <1>1, DataType, Spaces DEF TypeOK
<1>4. Len(Contents) = R /\ Contents \in Seq(Bytes)
  BY ContentsType DEF ContentsShape
<1>5. CASE n <= W
  <2>1. n = Fifo!Lower(Len(data), size - Len(Contents))
    BY <1>2, <1>3, <1>4, <1>5 DEF Fifo!Lower, W
  <2> HIDE DEF n
  <2>2. n \in 0..W
    BY <1>2, <1>3, <1>5
  <2>3. Contents' = Contents \o SubSeq(data, 1, n)
    BY <1>1, <1>2, <1>3, <2>2, AppendContents
  <2> QED
    BY <1>1, <2>1, <2>3 DEF Fifo!Put, Fifo!Reply, Reply
<1>6. CASE ~(n <= W)
  <2>1. cover /\ n = Len(data) /\ n > W /\ n > 0
    BY <1>2, <1>3, <1>6 DEF W
  <2> HIDE DEF n
  <2>2. /\ R + n >= size
        /\ Contents' = SubSeq(Contents \o data, size + 1, R + n)
    BY <1>1, <1>2, <1>3, <2>1, OverrunContents
  <2>3. Len(Contents \o data) = R + n
    BY <1>3, <1>4, <2>1, ConcatProperties
  <2>4. /\ size \in 0..R + n
        /\ R + n - size <= size
        /\ ~(R + n <= size)
    BY <1>2, <1>3, <2>1, <2>2
  <2>5. Contents' = SubSeq(Contents \o data, size + 1, Len(Contents \o data))
    BY <2>2, <2>3
  <2>6. reply' = Fifo!Reply(Len(data), <<>>)
    BY <1>1, <2>1 DEF Fifo!Reply, Reply
  <2>7. /\ size \in 0..Len(Contents \o data)
        /\ Len(Contents \o data) - size <= FifoCapacity
        /\ ~(Len(Contents \o data) <= FifoCapacity)
        /\ Len(data) <= FifoCapacity
        /\ UNCHANGED FifoCapacity
    <3>1. FifoCapacity = size /\ UNCHANGED FifoCapacity
      BY <1>1 DEF FifoCapacity
    <3>2. Len(data) <= size
      BY <1>1, <2>1
    <3>3. Len(Contents \o data) - size <= size
      <4> DEFINE total == Len(Contents \o data)
      <4>1. total = R + n /\ n \in 0..size /\ R \in 0..size /\ size \in Nat
        BY <1>2, <1>3, <2>3
      <4> HIDE DEF total
      <4>2. total - size <= size
        BY <4>1
      <4> QED
        BY <4>2 DEF total
    <3>4. ~(Len(Contents \o data) <= size) /\ size \in 0..Len(Contents \o data)
      BY <2>3, <2>4
    <3> HIDE DEF FifoCapacity
    <3> QED
      BY <3>1, <3>2, <3>3, <3>4
  <2>8. Fifo!Overwrite(data)
    <3> SUFFICES \E dropped \in 0..Len(Contents \o data) :
                   /\ Len(Contents \o data) - dropped <= FifoCapacity
                   /\ Len(Contents \o data) <= FifoCapacity => dropped = 0
                   /\ Contents' = SubSeq(Contents \o data, dropped + 1,
                                         Len(Contents \o data))
      BY <2>6, <2>7, Zenon DEF Fifo!Overwrite, FifoCapacity
    <3> QED
      BY <2>5, <2>7, Zenon
  <2> QED
    BY <2>8
<1> QED
  BY <1>5, <1>6

LEMMA ReadRefines ==
  ASSUME TypeOK, TypeOK', NEW bytes \in 0..MaxRequest, ring_buffer_read(bytes)
  PROVE  Fifo!Get(bytes)
<1> DEFINE n == IF get_read_space < bytes THEN get_read_space ELSE bytes
<1>1. /\ allocated
      /\ rd' = update_pointer(rd, n)
      /\ last_is_write' = (last_is_write /\ n = 0)
      /\ reply' = Reply(n, read_from_buffer(rd, n))
      /\ UNCHANGED <<allocated, mem, wr, size>>
  BY DEF ring_buffer_read
<1>2. Len(Contents) = R /\ R \in 0..size /\ size \in Nat
  BY <1>1, ContentsType, Spaces DEF ContentsShape, TypeOK
<1>3. n \in 0..R /\ n = Fifo!Lower(bytes, Len(Contents))
  BY <1>2 DEF Fifo!Lower, R
<1> HIDE DEF n
<1>4. /\ Contents' = SubSeq(Contents, n + 1, R)
      /\ read_from_buffer(rd, n) = SubSeq(Contents, 1, n)
  BY <1>1, <1>3, ReadContents
<1> QED
  BY <1>1, <1>2, <1>3, <1>4 DEF Fifo!Get, Fifo!Reply, Reply

LEMMA StepRefines ==
  TypeOK /\ TypeOK' /\ [Next]_vars
    => [Fifo!Next]_<<Contents, FifoCapacity, reply>>
<1> SUFFICES ASSUME TypeOK, TypeOK', [Next]_vars
             PROVE  [Fifo!Next]_<<Contents, FifoCapacity, reply>>
  OBVIOUS
<1>1. ASSUME NEW data \in Requests, NEW cover \in BOOLEAN,
             ring_buffer_write(data, cover)
      PROVE  Fifo!Next
  <2>1. data \in Fifo!Requests
    BY DEF Requests, Fifo!Requests
  <2> QED
    BY <1>1, <2>1, WriteRefines DEF Fifo!Next
<1>2. ASSUME NEW bytes \in 0..MaxRequest, ring_buffer_read(bytes)
      PROVE  Fifo!Next
  BY <1>2, ReadRefines DEF Fifo!Next
<1>3. ASSUME NEW buffer_size \in 1..MaxSize, ring_buffer_init(buffer_size)
      PROVE  Fifo!Next \/ UNCHANGED <<Contents, FifoCapacity, reply>>
  <2>1. CASE ~allocated'
    <3>1. UNCHANGED <<allocated, mem, rd, wr, last_is_write, reply>>
      BY <1>3, <2>1 DEF ring_buffer_init
    <3>2. R = 0 /\ R' = 0 /\ FifoCapacity = 0 /\ FifoCapacity' = 0
      BY <1>3, <2>1, <3>1 DEF ring_buffer_init, TypeOK, R, get_read_space, FifoCapacity
    <3>3. Contents = <<>> /\ Contents' = <<>>
      BY <3>2 DEF R, Contents, read_from_buffer
    <3> QED
      BY <3>1, <3>2, <3>3
  <2>2. CASE allocated'
    <3>1. /\ ~allocated /\ allocated' = TRUE /\ size' = buffer_size
          /\ rd' = 0 /\ wr' = 0 /\ last_is_write' = FALSE /\ reply' = reply
      BY <1>3, <2>2 DEF ring_buffer_init
    <3>2. R' = 0
      BY <3>1 DEF R, get_read_space
    <3>3. FifoCapacity = 0 /\ FifoCapacity' = size'
      BY <3>1 DEF FifoCapacity
    <3>4. R' = 0 /\ FifoCapacity = 0 /\ FifoCapacity' \in Nat /\ reply' = reply
      BY <3>1, <3>2, <3>3
    <3>5. Contents' = <<>>
      BY <3>4 DEF R, Contents, read_from_buffer
    <3>6. Fifo!Allocate
      BY <3>4, <3>5 DEF Fifo!Allocate, FifoCapacity
    <3> QED
      BY <3>6 DEF Fifo!Next
  <2> QED
    BY <2>1, <2>2
<1>4. CASE ring_buffer_release
  <2>1. R' = 0 /\ FifoCapacity' = 0 /\ reply' = reply
    BY <1>4 DEF ring_buffer_release, R, get_read_space, FifoCapacity
  <2>2. Contents' = <<>>
    BY <2>1 DEF R, Contents, read_from_buffer
  <2> QED
    BY <2>1, <2>2 DEF Fifo!Next, Fifo!Free, FifoCapacity
<1>5. CASE ring_buffer_reset
  <2>1. R' = 0 /\ FifoCapacity' = FifoCapacity /\ reply' = reply
    BY <1>5 DEF ring_buffer_reset, R, get_read_space, FifoCapacity
  <2>2. Contents' = <<>>
    BY <2>1 DEF R, Contents, read_from_buffer
  <2> QED
    BY <2>1, <2>2 DEF Fifo!Next, Fifo!Clear, FifoCapacity
<1>6. CASE absent_buffer
  <2>1. /\ Contents = <<>> /\ Contents' = <<>>
        /\ FifoCapacity = 0 /\ FifoCapacity' = 0
        /\ reply' = Fifo!Reply(0, <<>>)
    <3>1. /\ ~allocated /\ rd = wr /\ ~last_is_write
          /\ rd' = rd /\ wr' = wr /\ size' = size /\ last_is_write' = last_is_write
      BY <1>6 DEF absent_buffer, TypeOK
    <3>2. ~(wr > rd) /\ ~(wr < rd)
      BY <3>1 DEF TypeOK, Addresses
    <3>3. R = 0
      BY <3>1, <3>2 DEF R, get_read_space
    <3>4. R' = R
      BY <3>1 DEF R, get_read_space
    <3>5. R = 0 /\ R' = 0
      BY <3>3, <3>4
    <3>6. Contents = <<>> /\ Contents' = <<>>
      BY <3>5 DEF R, Contents, read_from_buffer
    <3> QED
      BY <1>6, <3>6 DEF absent_buffer, FifoCapacity, Reply, Fifo!Reply
  <2>2. Fifo!Get(0)
    <3>1. Fifo!Lower(0, Len(<<>>)) = 0
      BY DEF Fifo!Lower
    <3>2. SubSeq(<<>>, 0 + 1, Len(<<>>)) = <<>> /\ SubSeq(<<>>, 1, 0) = <<>>
      OBVIOUS
    <3> QED
      BY <2>1, <3>1, <3>2 DEF Fifo!Get, FifoCapacity
  <2> QED
    BY <2>2 DEF Fifo!Next
<1>7. CASE UNCHANGED vars
  <2>1. UNCHANGED <<Contents, FifoCapacity, reply>>
    BY <1>7 DEF vars, Contents, read_from_buffer, get_read_space, FifoCapacity
  <2> QED
    BY <2>1
<1> QED
  BY <1>1, <1>2, <1>3, <1>4, <1>5, <1>6, <1>7 DEF Next

LEMMA InitRefines == Init => Fifo!Init
<1> SUFFICES ASSUME Init PROVE Fifo!Init
  OBVIOUS
<1>1. R = 0
  BY DEF Init, R, get_read_space
<1> QED
  BY <1>1, EmptyContents DEF Init, Fifo!Init, Reply, Fifo!Reply

\* Whatever the size, the byte values and the lengths asked for, the ring buffer
\* is a first-in first-out queue: every read returns the oldest bytes written
\* and not read, across wraps, partial writes, overruns and resets.
THEOREM RingBufferIsFifo == Spec => ImplementsFifo
<1>1. Spec => Fifo!Init /\ [][Fifo!Next]_<<Contents, FifoCapacity, reply>>
  BY InitRefines, StepRefines, TypeCorrect, PTL DEF Spec
<1> QED
  BY <1>1 DEF ImplementsFifo, Fifo!Spec, FifoCapacity
=============================================================================
