------------------------- MODULE CallbackThreadProofs -------------------------
(***************************************************************************)
(* Proofs about CallbackThread for any number of clients, functions and    *)
(* installed callbacks: types, and the three safety properties of the list *)
(* and of the thread.                                                      *)
(***************************************************************************)
EXTENDS CallbackThread, SequenceTheorems, TLAPS

USE DataAssumption, SlotsAssumption

-----------------------------------------------------------------------------
(* The list *)

\* What there is to know of a list as a function
LEMMA ListType ==
  ASSUME callback_list \in Seq(Slots)
  PROVE  /\ Len(callback_list) \in Nat
         /\ DOMAIN callback_list = 1..Len(callback_list)
         /\ \A i \in DOMAIN callback_list : callback_list[i] \in Slots
BY LenProperties, ElementOfSeq

\* Every change of one slot in place leaves the types and the functions as they are
SameSlots(list) ==
  /\ list \in Seq(Slots) /\ Len(list) = Len(callback_list)
  /\ \A i \in DOMAIN callback_list :
       list[i].type = callback_list[i].type /\ list[i].func = callback_list[i].func

LEMMA TriggerSlots ==
  ASSUME callback_list \in Seq(Slots), NEW i \in DOMAIN callback_list, NEW data \in Data
  PROVE  SameSlots([callback_list EXCEPT ![i].data = data, ![i].bTrigger = TRUE])
<1> DEFINE list == [callback_list EXCEPT ![i].data = data, ![i].bTrigger = TRUE]
           slot == [callback_list[i] EXCEPT !.data = data, !.bTrigger = TRUE]
<1>1. slot \in Slots /\ slot.type = callback_list[i].type /\ slot.func = callback_list[i].func
  BY ListType DEF Slots
<1>2. list = [callback_list EXCEPT ![i] = slot]
  BY ListType DEF Slots
<1>3. i \in 1..Len(callback_list)
  BY ListType
<1>4. /\ list \in Seq(Slots) /\ Len(list) = Len(callback_list)
      /\ \A j \in 1..Len(callback_list) : list[j] = IF j = i THEN slot ELSE callback_list[j]
  BY <1>1, <1>2, <1>3, ExceptSeq
<1> QED
  BY <1>1, <1>4, ListType DEF SameSlots

LEMMA CallSlots ==
  ASSUME callback_list \in Seq(Slots), NEW i \in DOMAIN callback_list
  PROVE  /\ SameSlots([callback_list EXCEPT ![i].bTrigger = FALSE])
         /\ \A j \in DOMAIN callback_list :
              [callback_list EXCEPT ![i].bTrigger = FALSE][j].bTrigger =
                (j # i /\ callback_list[j].bTrigger)
<1> DEFINE list == [callback_list EXCEPT ![i].bTrigger = FALSE]
           slot == [callback_list[i] EXCEPT !.bTrigger = FALSE]
<1>1. /\ slot \in Slots /\ slot.type = callback_list[i].type /\ slot.func = callback_list[i].func
      /\ slot.bTrigger = FALSE
  BY ListType DEF Slots
<1>2. list = [callback_list EXCEPT ![i] = slot]
  BY ListType DEF Slots
<1>3. i \in 1..Len(callback_list)
  BY ListType
<1>4. /\ list \in Seq(Slots) /\ Len(list) = Len(callback_list)
      /\ \A j \in 1..Len(callback_list) : list[j] = IF j = i THEN slot ELSE callback_list[j]
  BY <1>1, <1>2, <1>3, ExceptSeq
<1>5. SameSlots(list)
  BY <1>1, <1>4, ListType DEF SameSlots
<1>6. ASSUME NEW j \in DOMAIN callback_list
      PROVE  list[j].bTrigger = (j # i /\ callback_list[j].bTrigger)
  <2>1. callback_list[j].bTrigger \in BOOLEAN
    BY ListType DEF Slots
  <2>2. CASE j = i
    BY <1>1, <1>3, <1>4, <2>2
  <2>3. CASE j # i
    BY <1>4, <2>1, <2>3, ListType
  <2> QED
    BY <2>2, <2>3
<1> QED
  BY <1>5, <1>6

LEMMA UnlinkedType ==
  ASSUME callback_list \in Seq(Slots), NEW i \in DOMAIN callback_list
  PROVE  /\ Unlinked(i) \in Seq(Slots)
         /\ Len(Unlinked(i)) = Len(callback_list) - 1
         /\ \A j \in 1..Len(callback_list) - 1 :
              Unlinked(i)[j] = callback_list[IF j < i THEN j ELSE j + 1]
<1>1. Len(callback_list) - 1 \in Nat
  BY ListType
<1>2. \A j \in 1..Len(callback_list) - 1 :
        callback_list[IF j < i THEN j ELSE j + 1] \in Slots
  BY ListType
<1>3. Unlinked(i) \in [1..Len(callback_list) - 1 -> Slots]
  BY <1>2 DEF Unlinked
<1> QED
  BY <1>1, <1>3 DEF Unlinked

LEMMA InstallType ==
  ASSUME callback_list \in Seq(Slots), NEW slot \in Slots
  PROVE  /\ <<slot>> \o callback_list \in Seq(Slots)
         /\ Len(<<slot>> \o callback_list) = Len(callback_list) + 1
         /\ DOMAIN (<<slot>> \o callback_list) = 1..Len(callback_list) + 1
         /\ \A j \in 1..Len(callback_list) + 1 :
              (<<slot>> \o callback_list)[j] = IF j = 1 THEN slot ELSE callback_list[j - 1]
<1>1. <<slot>> \in Seq(Slots) /\ Len(<<slot>>) = 1 /\ <<slot>>[1] = slot
  OBVIOUS
<1>2. /\ <<slot>> \o callback_list \in Seq(Slots)
      /\ Len(<<slot>> \o callback_list) = 1 + Len(callback_list)
      /\ \A j \in 1..1 + Len(callback_list) :
           (<<slot>> \o callback_list)[j] = IF j <= 1 THEN <<slot>>[j] ELSE callback_list[j - 1]
  BY <1>1, ConcatProperties
<1>3. DOMAIN (<<slot>> \o callback_list) = 1..Len(<<slot>> \o callback_list)
  BY <1>2, LenProperties
<1> QED
  BY <1>1, <1>2, <1>3, ListType

-----------------------------------------------------------------------------
(* Types *)

\* The place of the thread in the list is kept at the front while it does not scan, and
\* there is no thread before init_audio_callback
ListInv ==
  /\ CallbackTypeOK
  /\ thread # "scan" => cursor = 1
  /\ release = "none" => thread = "none"

LEMMA SignalType ==
  ASSUME ListInv, Signal
  PROVE  /\ thread' \in {"none", "check", "lock", "wait", "woken", "scan", "done"}
         /\ thread' = "scan" <=> thread = "scan"
         /\ thread = "done" => thread' = "done"
BY DEF ListInv, CallbackTypeOK, Signal

LEMMA ThreadListInv == ASSUME ListInv, ThreadStep \/ SpuriousWakeup PROVE ListInv'
<1> USE DEF ListInv, CallbackTypeOK
<1>1. CASE ThreadCheck \/ ThreadWait \/ SpuriousWakeup
  BY <1>1 DEF ThreadCheck, ThreadWait, SpuriousWakeup
<1>2. CASE ThreadScan
  BY <1>2, ListType DEF ThreadScan
<1>3. CASE ThreadCall
  <2>1. cursor \in DOMAIN callback_list /\ cursor + 1 \in 1..Len(callback_list) + 1
    BY <1>3, ListType DEF ThreadCall
  <2>2. /\ callback_list' \in Seq(Slots) /\ Len(callback_list') = Len(callback_list)
        /\ called' \in {NoCall} \cup [func : Funcs, data : Data \cup {NoData}]
    <3>1. CASE callback_list[cursor].bTrigger
      <4>1. callback_list[cursor] \in Slots
        BY <2>1, ListType
      <4>2. called' \in [func : Funcs, data : Data \cup {NoData}]
        BY <1>3, <3>1, <4>1 DEF ThreadCall, Slots
      <4>3. SameSlots(callback_list')
        BY <1>3, <2>1, <3>1, CallSlots DEF ThreadCall
      <4> QED
        BY <4>2, <4>3 DEF SameSlots
    <3>2. CASE ~callback_list[cursor].bTrigger
      BY <1>3, <3>2 DEF ThreadCall
    <3> QED
      BY <3>1, <3>2
  <2> QED
    BY <1>3, <2>1, <2>2 DEF ThreadCall
<1>4. CASE ThreadUnlock
  BY <1>4, ListType DEF ThreadUnlock
<1> QED
  BY <1>1, <1>2, <1>3, <1>4 DEF ThreadStep

LEMMA InstallListInv ==
  ASSUME ListInv, NEW type \in Types, NEW id \in Ids, NEW func \in Funcs,
         install_audio_callback(type, id, func)
  PROVE  ListInv'
<1> DEFINE slot == [type |-> type, id |-> id, func |-> func, data |-> NoData, bTrigger |-> FALSE]
<1>1. CASE UNCHANGED callback_list
  BY <1>1 DEF ListInv, CallbackTypeOK, install_audio_callback
<1>2. CASE Len(callback_list) < MaxSlots /\ callback_list' = <<slot>> \o callback_list
  <2>1. slot \in Slots
    BY DEF Slots
  <2>2. callback_list' \in Seq(Slots) /\ Len(callback_list') = Len(callback_list) + 1
    BY <1>2, <2>1, InstallType DEF ListInv, CallbackTypeOK
  <2>3. Len(callback_list') <= MaxSlots /\ 1 \in 1..Len(callback_list') + 1
    BY <1>2, <2>2, ListType DEF ListInv, CallbackTypeOK
  <2>4. cursor' = 1
    BY DEF ListInv, install_audio_callback, Callable
  <2> QED
    BY <2>2, <2>3, <2>4 DEF ListInv, CallbackTypeOK, install_audio_callback
<1> QED
  BY <1>1, <1>2 DEF install_audio_callback

LEMMA RemoveListInv ==
  ASSUME ListInv, NEW type \in Types, NEW id \in Ids, remove_audio_callback(type, id)
  PROVE  ListInv'
<1>1. PICK i \in DOMAIN callback_list : callback_list' = Unlinked(i)
  BY DEF remove_audio_callback
<1>2. callback_list' \in Seq(Slots) /\ Len(callback_list') = Len(callback_list) - 1
  BY <1>1, UnlinkedType DEF ListInv, CallbackTypeOK
<1>3. Len(callback_list') <= MaxSlots /\ 1 \in 1..Len(callback_list') + 1
  BY <1>1, <1>2, ListType DEF ListInv, CallbackTypeOK
<1>4. cursor' = 1
  BY DEF ListInv, remove_audio_callback, Callable
<1> QED
  BY <1>2, <1>3, <1>4 DEF ListInv, CallbackTypeOK, remove_audio_callback

LEMMA TriggerListInv ==
  ASSUME ListInv, NEW type \in Types, NEW data \in Data, trigger_audio_callback(type, data)
  PROVE  ListInv' /\ SameSlots(callback_list')
<1>1. SameSlots(callback_list')
  <2>1. PICK i \in DOMAIN callback_list :
          callback_list' = [callback_list EXCEPT ![i].data = data, ![i].bTrigger = TRUE]
    BY DEF trigger_audio_callback
  <2>2. callback_list \in Seq(Slots)
    BY DEF ListInv, CallbackTypeOK
  <2>3. SameSlots([callback_list EXCEPT ![i].data = data, ![i].bTrigger = TRUE])
    BY <2>2, TriggerSlots
  <2> QED
    BY <2>1, <2>3
<1>2. /\ callback_list' \in Seq(Slots)
      /\ Len(callback_list') = Len(callback_list) /\ Len(callback_list) \in Nat
  BY <1>1, ListType DEF SameSlots, ListInv, CallbackTypeOK
<1>3. cursor' = 1 /\ release' = "running" /\ UNCHANGED <<thread_exit, called>>
  BY DEF ListInv, trigger_audio_callback, Callable
<1>4. thread' \in {"none", "check", "lock", "wait", "woken", "scan", "done"}
  BY SignalType DEF trigger_audio_callback
<1>5. CallbackTypeOK'
  BY <1>2, <1>3, <1>4 DEF ListInv, CallbackTypeOK
<1> QED
  BY <1>1, <1>3, <1>5 DEF ListInv

LEMMA ExitListInv ==
  ASSUME ListInv, init_audio_callback \/ ExitStart \/ ExitSignal \/ ExitFree
  PROVE  ListInv'
<1> USE DEF ListInv, CallbackTypeOK
<1>1. CASE init_audio_callback
  BY <1>1 DEF init_audio_callback
<1>2. CASE ExitStart
  BY <1>2 DEF ExitStart
<1>3. CASE ExitSignal
  BY <1>3, SignalType DEF ExitSignal
<1>4. CASE ExitFree
  BY <1>4 DEF ExitFree
<1> QED
  BY <1>1, <1>2, <1>3, <1>4

LEMMA NextListInv == ListInv /\ [CallbackNext]_callbackvars => ListInv'
<1> SUFFICES ASSUME ListInv, [CallbackNext]_callbackvars PROVE ListInv'
  OBVIOUS
<1>1. CASE UNCHANGED callbackvars
  BY <1>1 DEF callbackvars, ListInv, CallbackTypeOK
<1> QED
  BY <1>1, ThreadListInv, InstallListInv, RemoveListInv, TriggerListInv, ExitListInv DEF CallbackNext

LEMMA ListInvariant == CallbackSpec => []ListInv
<1>1. CallbackInit => ListInv
  <2> SUFFICES ASSUME CallbackInit PROVE ListInv
    OBVIOUS
  <2>1. callback_list \in Seq(Slots) /\ Len(callback_list) = 0
    BY DEF CallbackInit
  <2>2. cursor = 1 /\ thread = "none" /\ called \in {NoCall} /\ release = "none"
    BY DEF CallbackInit
  <2>3. thread_exit \in BOOLEAN
    BY DEF CallbackInit
  <2>4. CallbackTypeOK
    BY <2>1, <2>2, <2>3 DEF CallbackTypeOK
  <2> QED
    BY <2>2, <2>4 DEF ListInv
<1> QED
  BY <1>1, NextListInv, PTL DEF CallbackSpec

\* Every state of the list, the thread and the release has its type.
THEOREM TypeCorrect == CallbackSpec => []CallbackTypeOK
<1>1. ListInv => CallbackTypeOK
  BY DEF ListInv
<1> QED
  BY <1>1, ListInvariant, PTL

-----------------------------------------------------------------------------
(* The properties *)

LEMMA SameSlotsKeep ==
  ASSUME callback_list \in Seq(Slots), SameSlots(callback_list'), NoDuplicate
  PROVE  NoDuplicate'
<1>1. DOMAIN callback_list' = DOMAIN callback_list
  BY ListType, LenProperties DEF SameSlots
<1> QED
  BY <1>1 DEF SameSlots, NoDuplicate

LEMMA InstallKeeps ==
  ASSUME ListInv, NoDuplicate, NEW type \in Types, NEW id \in Ids, NEW func \in Funcs,
         install_audio_callback(type, id, func)
  PROVE  NoDuplicate'
<1> DEFINE slot == [type |-> type, id |-> id, func |-> func, data |-> NoData, bTrigger |-> FALSE]
<1>1. CASE UNCHANGED callback_list
  BY <1>1 DEF NoDuplicate
<1>2. CASE ~Installed(type, func) /\ callback_list' = <<slot>> \o callback_list
  <2>1. slot \in Slots
    BY DEF Slots
  <2>2. /\ DOMAIN callback_list' = 1..Len(callback_list) + 1
        /\ \A j \in 1..Len(callback_list) + 1 :
             callback_list'[j] = IF j = 1 THEN slot ELSE callback_list[j - 1]
    BY <1>2, <2>1, InstallType DEF ListInv, CallbackTypeOK
  <2>3. \A j \in DOMAIN callback_list : callback_list[j].type # type \/ callback_list[j].func # func
    BY <1>2 DEF Installed
  <2>4. /\ Len(callback_list) \in Nat
        /\ \A j \in 1..Len(callback_list) + 1 : j # 1 => j - 1 \in DOMAIN callback_list
    BY ListType DEF ListInv, CallbackTypeOK
  <2> SUFFICES ASSUME NEW i \in 1..Len(callback_list) + 1, NEW j \in 1..Len(callback_list) + 1,
                      callback_list'[i].type = callback_list'[j].type,
                      callback_list'[i].func = callback_list'[j].func
               PROVE  i = j
    BY <2>2 DEF NoDuplicate
  <2>5. CASE i = 1 \/ j = 1
    BY <2>2, <2>3, <2>4, <2>5
  <2>6. CASE i # 1 /\ j # 1
    <3>1. i - 1 = j - 1
      BY <2>2, <2>4, <2>6 DEF NoDuplicate
    <3> QED
      BY <3>1, <2>4
  <2> QED
    BY <2>5, <2>6
<1> QED
  BY <1>1, <1>2 DEF install_audio_callback

LEMMA RemoveKeeps ==
  ASSUME ListInv, NoDuplicate, NEW type \in Types, NEW id \in Ids, remove_audio_callback(type, id)
  PROVE  NoDuplicate'
<1>1. PICK k \in DOMAIN callback_list : callback_list' = Unlinked(k)
  BY DEF remove_audio_callback
<1> DEFINE from(j) == IF j < k THEN j ELSE j + 1
<1>2. /\ DOMAIN callback_list' = 1..Len(callback_list) - 1
      /\ \A j \in 1..Len(callback_list) - 1 : callback_list'[j] = callback_list[from(j)]
  BY <1>1, UnlinkedType, LenProperties DEF ListInv, CallbackTypeOK
<1>3. /\ \A j \in 1..Len(callback_list) - 1 : from(j) \in DOMAIN callback_list
      /\ \A i, j \in 1..Len(callback_list) - 1 : from(i) = from(j) => i = j
  BY <1>1, ListType DEF ListInv, CallbackTypeOK
<1> QED
  BY <1>2, <1>3 DEF NoDuplicate

\* However installs, removals, triggers and calls interleave, no type has one function
\* twice in the list.
THEOREM NoDuplicateCorrect == CallbackSpec => []NoDuplicate
<1>1. CallbackInit => NoDuplicate
  BY DEF CallbackInit, NoDuplicate
<1>2. ASSUME ListInv, NoDuplicate, [CallbackNext]_callbackvars PROVE NoDuplicate'
  <2>1. CASE UNCHANGED callback_list
    BY <1>2, <2>1 DEF NoDuplicate
  <2>2. CASE ThreadCall
    <3>1. CASE callback_list' = [callback_list EXCEPT ![cursor].bTrigger = FALSE]
      <4>1. cursor \in DOMAIN callback_list
        BY <1>2, <2>2, ListType DEF ThreadCall, ListInv, CallbackTypeOK
      <4>2. SameSlots(callback_list')
        BY <1>2, <3>1, <4>1, CallSlots DEF ListInv, CallbackTypeOK
      <4> QED
        BY <1>2, <4>2, SameSlotsKeep DEF ListInv, CallbackTypeOK
    <3> QED
      BY <2>1, <2>2, <3>1 DEF ThreadCall
  <2>3. ASSUME NEW type \in Types, NEW data \in Data, trigger_audio_callback(type, data)
        PROVE  NoDuplicate'
    BY <1>2, <2>3, TriggerListInv, SameSlotsKeep DEF ListInv, CallbackTypeOK
  <2>4. CASE ExitFree
    BY <2>4 DEF ExitFree, NoDuplicate
  <2> QED
    BY <1>2, <2>1, <2>2, <2>3, <2>4, InstallKeeps, RemoveKeeps
       DEF CallbackNext, ThreadStep, ThreadCheck, ThreadWait, ThreadScan, ThreadUnlock, SpuriousWakeup,
           init_audio_callback, ExitStart, ExitSignal, callbackvars
<1> QED
  BY <1>1, <1>2, ListInvariant, PTL DEF CallbackSpec

\* The list does not change behind the thread while it goes through it: what it has
\* passed is not triggered.
THEOREM ScanCorrect == CallbackSpec => []ScanLeavesNothing
<1>1. CallbackInit => ScanLeavesNothing
  BY DEF CallbackInit, ScanLeavesNothing
<1>2. ASSUME ListInv, ScanLeavesNothing, [CallbackNext]_callbackvars PROVE ScanLeavesNothing'
  <2>1. CASE UNCHANGED <<callback_list, cursor>> /\ (thread' = "scan" => thread = "scan")
    BY <1>2, <2>1 DEF ScanLeavesNothing
  <2>2. CASE ThreadScan
    BY <2>2, <1>2, ListType DEF ThreadScan, ScanLeavesNothing, ListInv, CallbackTypeOK
  <2>3. CASE ThreadCall
    <3>1. /\ cursor \in DOMAIN callback_list /\ cursor' = cursor + 1 /\ thread = "scan"
          /\ DOMAIN callback_list = 1..Len(callback_list) /\ Len(callback_list) \in Nat
      BY <1>2, <2>3, ListType DEF ThreadCall, ListInv, CallbackTypeOK
    <3>2. CASE callback_list[cursor].bTrigger
      <4>1. callback_list' = [callback_list EXCEPT ![cursor].bTrigger = FALSE]
        BY <2>3, <3>2 DEF ThreadCall
      <4>2. \A j \in DOMAIN callback_list :
              callback_list'[j].bTrigger = (j # cursor /\ callback_list[j].bTrigger)
        BY <1>2, <3>1, <4>1, CallSlots DEF ListInv, CallbackTypeOK
      <4> QED
        BY <1>2, <3>1, <4>1, <4>2 DEF ScanLeavesNothing
    <3>3. CASE ~callback_list[cursor].bTrigger
      BY <1>2, <2>3, <3>1, <3>3 DEF ThreadCall, ScanLeavesNothing
    <3> QED
      BY <3>2, <3>3
  <2>4. CASE thread' # "scan"
    BY <2>4 DEF ScanLeavesNothing
  <2>5. ASSUME NEW type \in Types, NEW data \in Data, trigger_audio_callback(type, data)
        PROVE  thread' # "scan"
    BY <1>2, <2>5, SignalType DEF trigger_audio_callback, Callable
  <2>6. ASSUME ExitSignal PROVE thread' = "scan" => thread = "scan"
    BY <1>2, <2>6, SignalType DEF ExitSignal
  <2> QED
    BY <1>2, <2>1, <2>2, <2>3, <2>4, <2>5, <2>6
       DEF CallbackNext, ThreadStep, ThreadCheck, ThreadWait, ThreadUnlock, SpuriousWakeup,
           init_audio_callback, install_audio_callback, remove_audio_callback, Callable,
           ExitStart, ExitSignal, ExitFree, callbackvars
<1> QED
  BY <1>1, <1>2, ListInvariant, PTL DEF CallbackSpec

\* Nothing starts the thread again once it has ended, so what is freed after the join
\* stays unused.
THEOREM FreedCorrect == CallbackSpec => []FreedAfterThread
<1>1. CallbackInit => FreedAfterThread
  BY DEF CallbackInit, FreedAfterThread
<1>2. ASSUME ListInv, FreedAfterThread, [CallbackNext]_callbackvars PROVE FreedAfterThread'
  <2>1. CASE thread = "done" /\ release # "none"
    <3>1. thread' = "done"
      BY <1>2, <2>1, SignalType
         DEF CallbackNext, ThreadStep, ThreadCheck, ThreadWait, ThreadScan, ThreadCall, ThreadUnlock,
             SpuriousWakeup, init_audio_callback, install_audio_callback, remove_audio_callback,
             trigger_audio_callback, ExitStart, ExitSignal, ExitFree, callbackvars
    <3> QED
      BY <3>1 DEF FreedAfterThread
  <2>2. CASE ~(thread = "done" /\ release # "none")
    <3>1. release' # "freed"
      BY <1>2, <2>2
         DEF FreedAfterThread, CallbackNext, ThreadStep, ThreadCheck, ThreadWait, ThreadScan, ThreadCall,
             ThreadUnlock, SpuriousWakeup, init_audio_callback, install_audio_callback,
             remove_audio_callback, trigger_audio_callback, ExitStart, ExitSignal, ExitFree, callbackvars
    <3> QED
      BY <3>1 DEF FreedAfterThread
  <2> QED
    BY <2>1, <2>2
<1> QED
  BY <1>1, <1>2, ListInvariant, PTL DEF CallbackSpec
=============================================================================
