----------------------------- MODULE BoundedFifo -----------------------------
(***************************************************************************)
(* What a ring buffer promises its users: a queue of at most capacity      *)
(* bytes that gives back what was put in, in order.  RingBuffer is shown   *)
(* to implement it.                                                        *)
(***************************************************************************)
EXTENDS Naturals, Sequences

CONSTANTS
  Bytes,         \* values of a byte
  MaxRequest     \* bound on the bytes of one read or write

VARIABLES
  queue,         \* the bytes not read yet, oldest first
  capacity,      \* 0 while there is no buffer
  reply          \* what the last operation returned: a count, and bytes read

Requests == UNION {[1..n -> Bytes] : n \in 0..MaxRequest}
Reply(count, data) == [count |-> count, data |-> data]
Lower(a, b) == IF a <= b THEN a ELSE b

Init == queue = <<>> /\ capacity = 0 /\ reply = Reply(0, <<>>)

\* A write keeps the first bytes of its data, as many as there is space for
Put(data) ==
  LET n == Lower(Len(data), capacity - Len(queue)) IN
  /\ queue' = queue \o SubSeq(data, 1, n)
  /\ reply' = Reply(n, <<>>)
  /\ UNCHANGED capacity

\* An overwriting write takes all of its data; when that is too much the queue
\* is left with bytes that were the newest, in order
Overwrite(data) ==
  LET all == queue \o data IN
  /\ Len(data) <= capacity
  /\ \E dropped \in 0..Len(all) :
       /\ Len(all) - dropped <= capacity
       /\ Len(all) <= capacity => dropped = 0
       /\ queue' = SubSeq(all, dropped + 1, Len(all))
  /\ reply' = Reply(Len(data), <<>>)
  /\ UNCHANGED capacity

\* A read takes the oldest bytes, as many as are asked for and there are
Get(n) ==
  LET k == Lower(n, Len(queue)) IN
  /\ queue' = SubSeq(queue, k + 1, Len(queue))
  /\ reply' = Reply(k, SubSeq(queue, 1, k))
  /\ UNCHANGED capacity

Clear == queue' = <<>> /\ UNCHANGED <<capacity, reply>>

\* A buffer is allocated, with nothing in it, or freed
Allocate == capacity = 0 /\ queue' = <<>> /\ capacity' \in Nat /\ UNCHANGED reply
Free == queue' = <<>> /\ capacity' = 0 /\ UNCHANGED reply

Next ==
  \/ \E data \in Requests : Put(data) \/ Overwrite(data)
  \/ \E n \in 0..MaxRequest : Get(n)
  \/ Clear \/ Allocate \/ Free

Spec == Init /\ [][Next]_<<queue, capacity, reply>>
=============================================================================
