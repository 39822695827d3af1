------------------------------- MODULE MCFair -------------------------------
(***************************************************************************)
(* The output streams beside a patch, and the callback thread: what must   *)
(* happen under the fairness of their threads.  They share no variable, so *)
(* both instances are checked in one run: the initial state chooses the    *)
(* one that moves, and the other stands still.                             *)
(***************************************************************************)
EXTENDS MCOutputStreams, CallbackThread

VARIABLE moves   \* the one that moves

fairvars == <<moves, vars, callbackvars>>

MCFairInit == moves \in {"streams", "callback"} /\ Init /\ CallbackInit

\* A callback thread that is released stays so: nothing is left to do.
Released == release = "freed" /\ UNCHANGED callbackvars

MCFairNext ==
  \/ moves = "streams" /\ Next /\ UNCHANGED <<moves, callbackvars>>
  \/ moves = "callback" /\ CallbackNext /\ UNCHANGED <<moves, vars>>
  \/ moves = "callback" /\ Released /\ UNCHANGED <<moves, vars>>

\* What stands still has begun nothing, and owes nothing.
MCFairSpec == MCFairInit /\ [][MCFairNext]_fairvars /\ Fairness /\ CallbackFairness
=============================================================================
