------------------------------ MODULE DelayLine ------------------------------
(***************************************************************************)
(* What a delay promises: everything comes out once, in order and behind   *)
(* the samples that were on their way.  Those that are on their way change *)
(* in number only when another delay is asked for than the one that runs,  *)
(* to the number asked for, and then they are silence.                     *)
(* AudioDelay is shown to implement it.                                    *)
(***************************************************************************)
EXTENDS Naturals, Sequences

CONSTANTS
  Samples, Silent,  \* values of a sample, and that of silence
  Rates,            \* samples of one ms
  LongestBlock,     \* the most ms that one call takes
  LongestDelay      \* the longest delay, in ms

VARIABLES
  asked,   \* the delay that is asked for
  open,    \* there is a line
  runs,    \* the delay it runs with
  line,    \* the samples on their way
  heard    \* what the last call gave for what it took

linevars == <<asked, open, runs, line, heard>>

Silence(n) == [i \in 1..n |-> Silent]

\* Samples go in behind those of `from`, and as many come out
Pass(from, data) ==
  /\ heard' = SubSeq(from \o data, 1, Len(data))
  /\ line' = SubSeq(from \o data, Len(data) + 1, Len(from) + Len(data))

Init == asked = 0 /\ ~open /\ runs = 0 /\ line = <<>> /\ heard = <<>>

Ask(t) == asked' = t /\ UNCHANGED <<open, runs, line, heard>>

\* A new line is empty, and runs without a delay
Open == open' /\ runs' = 0 /\ line' = <<>> /\ UNCHANGED <<asked, heard>>

Close == ~open' /\ runs' = 0 /\ line' = <<>> /\ UNCHANGED <<asked, heard>>

Play(rate, data) ==
  /\ open
  /\ Pass(IF runs = asked THEN line ELSE Silence(rate * asked), data)
  /\ runs' = asked /\ UNCHANGED <<asked, open>>

\* Without a line nothing is heard
Refuse == ~open /\ heard' = <<>> /\ UNCHANGED <<asked, open, runs, line>>

Next ==
  \/ \E t \in 0..LongestDelay : Ask(t)
  \/ Open \/ Close \/ Refuse
  \/ \E rate \in Rates : \E k \in 0..rate * LongestBlock :
       \E data \in [1..k -> Samples] : Play(rate, data)

Spec == Init /\ [][Next]_linevars
=============================================================================
