----------------------------- MODULE RingBuffer -----------------------------
(***************************************************************************)
(* The ring buffer of utils/aml_ringbuffer.c.  The HAL puts one between    *)
(* the threads of an audio patch and one, for the fade out, in every       *)
(* output handle.  Each function runs under the buffer's own mutex, so it  *)
(* is one step.  Pointers are offsets from start_addr.                     *)
(***************************************************************************)
EXTENDS Naturals, Sequences

CONSTANTS
  Bytes, Zero,   \* values of a byte, and the one memset writes
  MaxSize,       \* bound on the size of a buffer
  MaxRequest     \* bound on the bytes of one read or write

ASSUME BytesAssumption == Zero \in Bytes
ASSUME SizesAssumption == MaxSize \in Nat \ {0} /\ MaxRequest \in Nat

VARIABLES
  allocated,     \* start_addr is not NULL
  mem,           \* the bytes at start_addr
  rd, wr, size, last_is_write,
  reply          \* what the last read or write returned

vars == <<allocated, mem, rd, wr, size, last_is_write, reply>>

Addresses == 0..MaxSize - 1
Requests == UNION {[1..n -> Bytes] : n \in 0..MaxRequest}
Reply(count, data) == [count |-> count, data |-> data]

TypeOK ==
  /\ allocated \in BOOLEAN
  /\ mem \in [Addresses -> Bytes]
  /\ size \in 0..MaxSize
  /\ rd \in Addresses /\ wr \in Addresses
  /\ last_is_write \in BOOLEAN
  /\ reply \in [count : Nat, data : Seq(Bytes)]
  /\ allocated => rd < size /\ wr < size
  /\ ~allocated => rd = wr /\ ~last_is_write

\* The zeroed struct a buffer is embedded in
Init ==
  /\ allocated = FALSE
  /\ mem = [a \in Addresses |-> Zero]
  /\ rd = 0 /\ wr = 0 /\ size = 0
  /\ last_is_write = FALSE
  /\ reply = Reply(0, <<>>)

-----------------------------------------------------------------------------
get_write_space ==
  IF wr > rd THEN size + rd - wr
  ELSE IF wr < rd THEN rd - wr
  ELSE IF last_is_write THEN 0 ELSE size

get_read_space ==
  IF wr > rd THEN wr - rd
  ELSE IF wr < rd THEN size + wr - rd
  ELSE IF last_is_write THEN size ELSE 0

\* n bytes of data go to pointer p, and on from start_addr when they reach the
\* end of the buffer
write_to_buffer(p, data, n) ==
  LET left_bytes == size - p IN
  mem' = [a \in Addresses |->
            IF a < n - left_bytes /\ left_bytes < n THEN data[left_bytes + a + 1]
            ELSE IF p <= a /\ a < p + n /\ a < size THEN data[a - p + 1]
            ELSE mem[a]]

read_from_buffer(p, n) ==
  LET left_bytes == size - p IN
  [i \in 1..n |-> IF i <= left_bytes THEN mem[p + i - 1]
                  ELSE mem[i - left_bytes - 1]]

\* Mutant: a pointer that reaches the end stays there
update_pointer_late(p, n) == IF p + n > size THEN p + n - size ELSE p + n

update_pointer(p, n) == IF p + n >= size THEN p + n - size ELSE p + n

\* memset: the first n bytes become zero
zeroed(n) == [a \in Addresses |-> IF a < n THEN Zero ELSE mem[a]]

-----------------------------------------------------------------------------
\* A write that does not cover keeps what fits.  One that covers writes all of
\* its data, which callers keep within the buffer.  rd never moves.
ring_buffer_write(data, cover) ==
  LET written_bytes == IF get_write_space < Len(data) /\ ~cover
                       THEN get_write_space ELSE Len(data)
  IN
  /\ allocated
  /\ cover => Len(data) <= size
  /\ write_to_buffer(wr, data, written_bytes)
  /\ wr' = update_pointer(wr, written_bytes)
  /\ last_is_write' = (last_is_write \/ written_bytes > 0)
  /\ reply' = Reply(written_bytes, <<>>)
  /\ UNCHANGED <<allocated, rd, size>>

\* Mutant: last_is_write survives a read
ring_buffer_read_keep(bytes) ==
  LET read_bytes == IF get_read_space < bytes THEN get_read_space ELSE bytes IN
  /\ allocated
  /\ rd' = update_pointer(rd, read_bytes)
  /\ reply' = Reply(read_bytes, read_from_buffer(rd, read_bytes))
  /\ UNCHANGED <<allocated, mem, wr, size, last_is_write>>

ring_buffer_read(bytes) ==
  LET read_bytes == IF get_read_space < bytes THEN get_read_space ELSE bytes IN
  /\ allocated
  /\ rd' = update_pointer(rd, read_bytes)
  /\ last_is_write' = (last_is_write /\ read_bytes = 0)
  /\ reply' = Reply(read_bytes, read_from_buffer(rd, read_bytes))
  /\ UNCHANGED <<allocated, mem, wr, size>>

\* Reads and writes of an absent buffer return 0
absent_buffer ==
  /\ ~allocated
  /\ reply' = Reply(0, <<>>)
  /\ UNCHANGED <<allocated, mem, rd, wr, size, last_is_write>>

\* A failed malloc leaves the size set and start_addr NULL
ring_buffer_init(buffer_size) ==
  /\ ~allocated
  /\ size' = buffer_size
  /\ \/ /\ allocated' = TRUE
        /\ mem' = zeroed(buffer_size)
        /\ rd' = 0 /\ wr' = 0
        /\ last_is_write' = FALSE
     \/ UNCHANGED <<allocated, mem, rd, wr, last_is_write>>
  /\ UNCHANGED reply

ring_buffer_release ==
  /\ allocated' = FALSE
  /\ rd' = 0 /\ wr' = 0 /\ size' = 0
  /\ last_is_write' = FALSE
  /\ UNCHANGED <<mem, reply>>

ring_buffer_reset ==
  /\ allocated
  /\ mem' = zeroed(size)
  /\ rd' = 0 /\ wr' = 0
  /\ last_is_write' = FALSE
  /\ UNCHANGED <<allocated, size, reply>>

Next ==
  \/ \E data \in Requests, cover \in BOOLEAN : ring_buffer_write(data, cover)
  \/ \E bytes \in 0..MaxRequest : ring_buffer_read(bytes)
  \/ \E buffer_size \in 1..MaxSize : ring_buffer_init(buffer_size)
  \/ ring_buffer_release \/ ring_buffer_reset \/ absent_buffer

Spec == Init /\ [][Next]_vars

-----------------------------------------------------------------------------
(* Properties *)

\* The bytes written and not read, oldest first
Contents == read_from_buffer(rd, get_read_space)

Fifo == INSTANCE BoundedFifo WITH
  queue <- Contents,
  capacity <- IF allocated THEN size ELSE 0

\* Through every wrap of the two pointers, a full and an empty buffer, partial
\* writes, resets and reallocation, the buffer is a first-in first-out queue.
ImplementsFifo == Fifo!Spec
=============================================================================
