------------------------------ MODULE MixQueue ------------------------------
(***************************************************************************)
(* What the hardware mixer promises the two output streams it joins: a     *)
(* bounded queue of auxiliary audio.  The auxiliary stream never waits: a  *)
(* write that does not fit drops what was queued.  The main stream takes a *)
(* whole block or nothing.  HwMixer is shown to implement it.              *)
(***************************************************************************)
EXTENDS Naturals, Sequences

CONSTANTS
  Bytes, Silence,  \* values of a byte, and the one that pads a short read
  Capacity,        \* bytes the queue can hold
  MaxRequest       \* bound on the bytes of one call

VARIABLES
  queue,           \* the bytes not mixed yet, oldest first
  present,         \* FALSE while there is no buffer
  reply            \* what the last operation gave: a count, and bytes taken

Requests == UNION {[1..n -> Bytes] : n \in 0..MaxRequest}
Reply(count, data) == [count |-> count, data |-> data]

Init == queue = <<>> /\ present = FALSE /\ reply = Reply(0, <<>>)

\* A write always claims to have taken everything.  When the data does not fit
\* beside what is queued, the queue is emptied, and of the new data only the
\* first bytes are kept, as many as there was space for before.
Put(data) ==
  LET space == Capacity - Len(queue) IN
  /\ queue' = IF ~present THEN <<>>
              ELSE IF Len(data) <= space THEN queue \o data
              ELSE SubSeq(data, 1, space)
  /\ reply' = Reply(Len(data), <<>>)
  /\ UNCHANGED present

\* A block is mixed whole or left for the next turn
Mix(n) ==
  LET k == IF n <= Len(queue) THEN n ELSE 0 IN
  /\ queue' = SubSeq(queue, k + 1, Len(queue))
  /\ reply' = Reply(0, SubSeq(queue, 1, k))
  /\ UNCHANGED present

\* A read gives n bytes, with silence for those that are missing
Take(n) ==
  LET k == IF n <= Len(queue) THEN n ELSE Len(queue) IN
  /\ queue' = SubSeq(queue, k + 1, Len(queue))
  /\ reply' = Reply(n, SubSeq(queue, 1, k) \o [i \in 1..n - k |-> Silence])
  /\ UNCHANGED present

\* The buffer appears, is emptied, or goes
Empty == queue' = <<>> /\ present' \in BOOLEAN /\ UNCHANGED reply

Next ==
  \/ \E data \in Requests : Put(data)
  \/ \E n \in 0..MaxRequest : Mix(n) \/ Take(n)
  \/ Empty

Spec == Init /\ [][Next]_<<queue, present, reply>>
=============================================================================
