--------------------------- MODULE CallbackThread ---------------------------
(***************************************************************************)
(* The callbacks of an audio patch (audio_hal/aml_callback_api.c, the list *)
(* variant): clients install and remove them, the patch threads trigger    *)
(* them, and a thread of their own calls them.  Clients and triggers do    *)
(* all their work under the handle's mutex, so each of their calls is one  *)
(* step, taken while the mutex is free.  The thread and release are split  *)
(* at every point where another thread can come in between.                *)
(***************************************************************************)
EXTENDS Naturals, Sequences

CONSTANTS
  Types,       \* audio_callback_type_t
  Ids,         \* process ids of clients
  Funcs,       \* callback functions
  Data,        \* what a trigger passes on
  NoData,
  MaxSlots     \* bound on the callbacks installed at once

ASSUME DataAssumption == NoData \notin Data
ASSUME SlotsAssumption == MaxSlots \in Nat

VARIABLES
  callback_list,  \* aml_audio_cbslot_t, the newest first
  thread_exit,
  thread,         \* where audio_callback_threadloop is; "scan" owns the mutex
  cursor,         \* the slot it looks at
  called,         \* the last call it made
  release         \* where exit_audio_callback is

callbackvars == <<callback_list, thread_exit, thread, cursor, called, release>>

Slots == [type : Types, id : Ids, func : Funcs, data : Data \cup {NoData},
          bTrigger : BOOLEAN]
NoCall == [func |-> NoData, data |-> NoData]

CallbackTypeOK ==
  /\ callback_list \in Seq(Slots)
  /\ Len(callback_list) <= MaxSlots
  /\ thread_exit \in BOOLEAN
  /\ thread \in {"none", "check", "lock", "wait", "woken", "scan", "done"}
  /\ cursor \in 1..Len(callback_list) + 1
  /\ called \in {NoCall} \cup [func : Funcs, data : Data \cup {NoData}]
  /\ release \in {"none", "running", "signal", "join", "freed"}

\* The patch is allocated; init_audio_callback has not run
CallbackInit ==
  /\ callback_list = <<>>
  /\ thread_exit = FALSE
  /\ thread = "none" /\ cursor = 1
  /\ called = NoCall
  /\ release = "none"

-----------------------------------------------------------------------------
(* audio_callback_threadloop *)

\* while (!thread_exit)
ThreadCheck ==
  /\ thread = "check"
  /\ thread' = IF thread_exit THEN "done" ELSE "lock"
  /\ UNCHANGED <<callback_list, thread_exit, cursor, called, release>>

\* The mutex is taken and pthread_cond_wait gives it up again.  Nothing looks
\* at bTrigger or thread_exit in between.
ThreadWait ==
  /\ thread = "lock"
  /\ thread' = "wait"
  /\ UNCHANGED <<callback_list, thread_exit, cursor, called, release>>

\* pthread_cond_wait may return without a signal
SpuriousWakeup ==
  /\ thread = "wait"
  /\ thread' = "woken"
  /\ UNCHANGED <<callback_list, thread_exit, cursor, called, release>>

ThreadScan ==
  /\ thread = "woken"
  /\ thread' = "scan" /\ cursor' = 1
  /\ UNCHANGED <<callback_list, thread_exit, called, release>>

\* Mutant: the loop ends at the first callback it calls
ThreadCall_first ==
  /\ thread = "scan"
  /\ cursor <= Len(callback_list)
  /\ IF callback_list[cursor].bTrigger
     THEN /\ called' = [func |-> callback_list[cursor].func,
                        data |-> callback_list[cursor].data]
          /\ callback_list' = [callback_list EXCEPT ![cursor].bTrigger = FALSE]
          /\ cursor' = Len(callback_list) + 1
     ELSE UNCHANGED <<called, callback_list>> /\ cursor' = cursor + 1
  /\ UNCHANGED <<thread_exit, thread, release>>

\* One round of the loop over the list; the callback runs under the mutex
ThreadCall ==
  /\ thread = "scan"
  /\ cursor <= Len(callback_list)
  /\ IF callback_list[cursor].bTrigger
     THEN /\ called' = [func |-> callback_list[cursor].func,
                        data |-> callback_list[cursor].data]
          /\ callback_list' = [callback_list EXCEPT ![cursor].bTrigger = FALSE]
     ELSE UNCHANGED <<called, callback_list>>
  /\ cursor' = cursor + 1
  /\ UNCHANGED <<thread_exit, thread, release>>

ThreadUnlock ==
  /\ thread = "scan"
  /\ cursor > Len(callback_list)
  /\ thread' = "check" /\ cursor' = 1
  /\ UNCHANGED <<callback_list, thread_exit, called, release>>

-----------------------------------------------------------------------------
(* The calls of clients and patch threads.  A client stops using the handle  *)
(* before it releases the patch.                                             *)

\* pthread_cond_signal reaches the thread only while it waits
Signal == thread' = IF thread = "wait" THEN "woken" ELSE thread

Callable == release = "running" /\ thread # "scan"

init_audio_callback ==
  /\ release = "none"
  /\ release' = "running"
  /\ thread' = "check"
  /\ UNCHANGED <<callback_list, thread_exit, cursor, called>>

\* Mutant: the test is left out
Installed_never(type, func) == FALSE

\* A callback of this type and function is in the list
Installed(type, func) ==
  \E i \in DOMAIN callback_list :
    callback_list[i].type = type /\ callback_list[i].func = func

\* The new slot comes from calloc: not triggered, no data
install_audio_callback(type, id, func) ==
  /\ Callable
  /\ IF Installed(type, func)
     THEN UNCHANGED callback_list
     ELSE /\ Len(callback_list) < MaxSlots
          /\ callback_list' =
               <<[type |-> type, id |-> id, func |-> func, data |-> NoData,
                  bTrigger |-> FALSE]>> \o callback_list
  /\ UNCHANGED <<thread_exit, thread, cursor, called, release>>

SlotsOf(type) == {i \in DOMAIN callback_list : callback_list[i].type = type}
ClientSlots(type, id) == {i \in SlotsOf(type) : callback_list[i].id = id}
IsFirst(i, slots) == i \in slots /\ \A j \in slots : i <= j

Unlinked(i) == [j \in 1..Len(callback_list) - 1 |->
                  callback_list[IF j < i THEN j ELSE j + 1]]

\* Mutant: the mutex is not taken
remove_audio_callback_unlocked(type, id) ==
  /\ release = "running"
  /\ \E i \in DOMAIN callback_list :
       IsFirst(i, ClientSlots(type, id)) /\ callback_list' = Unlinked(i)
  /\ UNCHANGED <<thread_exit, thread, cursor, called, release>>

\* The first slot of this type and client is unlinked and freed
remove_audio_callback(type, id) ==
  /\ Callable
  /\ \E i \in DOMAIN callback_list :
       IsFirst(i, ClientSlots(type, id)) /\ callback_list' = Unlinked(i)
  /\ UNCHANGED <<thread_exit, thread, cursor, called, release>>

\* Only the first slot of the type is triggered
trigger_audio_callback(type, data) ==
  /\ Callable
  /\ \E i \in DOMAIN callback_list :
       /\ IsFirst(i, SlotsOf(type))
       /\ callback_list' = [callback_list EXCEPT ![i].data = data,
                                                 ![i].bTrigger = TRUE]
  /\ Signal
  /\ UNCHANGED <<thread_exit, cursor, called, release>>

-----------------------------------------------------------------------------
(* exit_audio_callback takes no mutex: it sets thread_exit, signals, joins   *)

ExitStart ==
  /\ release = "running"
  /\ thread_exit' = TRUE
  /\ release' = "signal"
  /\ UNCHANGED <<callback_list, thread, cursor, called>>

\* Mutant: the signal is left out
ExitSignal_quiet ==
  /\ release = "signal"
  /\ release' = "join"
  /\ UNCHANGED <<callback_list, thread_exit, thread, cursor, called>>

ExitSignal ==
  /\ release = "signal"
  /\ Signal
  /\ release' = "join"
  /\ UNCHANGED <<callback_list, thread_exit, cursor, called>>

\* Mutant: the thread is not joined
ExitFree_early ==
  /\ release = "join"
  /\ callback_list' = <<>> /\ cursor' = 1
  /\ release' = "freed"
  /\ UNCHANGED <<thread_exit, thread, called>>

\* After the join the list and the handle are freed
ExitFree ==
  /\ release = "join"
  /\ thread = "done"
  /\ callback_list' = <<>>
  /\ release' = "freed"
  /\ UNCHANGED <<thread_exit, thread, cursor, called>>

ThreadStep ==
  ThreadCheck \/ ThreadWait \/ ThreadScan \/ ThreadCall \/ ThreadUnlock

CallbackNext ==
  \/ ThreadStep \/ SpuriousWakeup
  \/ init_audio_callback
  \/ \E type \in Types, id \in Ids, func \in Funcs :
       install_audio_callback(type, id, func)
  \/ \E type \in Types, id \in Ids : remove_audio_callback(type, id)
  \/ \E type \in Types, data \in Data : trigger_audio_callback(type, data)
  \/ ExitStart \/ ExitSignal \/ ExitFree

CallbackSpec == CallbackInit /\ [][CallbackNext]_callbackvars

\* The thread runs whenever it can, and a release goes on once begun.  Clients
\* owe nothing, and nobody owes a spurious wakeup.
CallbackFairness ==
  WF_callbackvars(ThreadStep) /\ WF_callbackvars(ExitSignal) /\ WF_callbackvars(ExitFree)
CallbackFairSpec == CallbackSpec /\ CallbackFairness

-----------------------------------------------------------------------------
(* Properties *)

\* No type has the same function twice, so a trigger cannot call it twice.
NoDuplicate ==
  \A i, j \in DOMAIN callback_list :
    /\ callback_list[i].type = callback_list[j].type
    /\ callback_list[i].func = callback_list[j].func
    => i = j

\* A round of the thread leaves no triggered callback behind it.
ScanLeavesNothing ==
  thread = "scan" =>
    \A i \in DOMAIN callback_list : i < cursor => ~callback_list[i].bTrigger

\* The list and the handle are freed only when the thread has ended.
FreedAfterThread == release = "freed" => thread = "done"

Pending(type, func) ==
  \E i \in SlotsOf(type) :
    callback_list[i].func = func /\ callback_list[i].bTrigger

\* Every callback that is triggered when the thread wakes up, the one of the
\* signal and those whose own signal was lost, is called or removed.
SignalledIsCalled ==
  \A type \in Types, func \in Funcs :
    (thread = "woken" /\ Pending(type, func)) ~> ~Pending(type, func)

\* A release that finds the thread waiting joins it.
WaitingIsReleased ==
  (release = "signal" /\ thread = "wait") ~> (release = "freed")

\* "create a thread to trigger callback": every triggered callback is called
\* or removed.
TriggeredIsCalled ==
  \A type \in Types, func \in Funcs :
    Pending(type, func) ~> ~Pending(type, func)
=============================================================================
