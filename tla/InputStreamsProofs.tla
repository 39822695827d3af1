-------------------------- MODULE InputStreamsProofs --------------------------
(***************************************************************************)
(* Proofs about InputStreams for any number of capture streams and         *)
(* devices: the device's active input is never a stream that was freed,    *)
(* and no ALSA device stays open behind a stream in standby.               *)
(***************************************************************************)
EXTENDS InputStreams, TLAPS

-----------------------------------------------------------------------------
(* The inductive invariant *)

\* What a thread is at, and the calls
Places == {"idle", "lock", "start", "clear", "select", "open", "read", "standby",
           "deselect", "unlock"}
Calls == {"idle", "read", "standby", "route", "restart", "close"}

\* The thread is inside a stream: past the mutex of it
Inside(t) == caller[t].at \notin {"idle", "lock"}

InputTypeInv ==
  /\ in_open \in [Inputs -> BOOLEAN] /\ in_standby \in [Inputs -> BOOLEAN]
  /\ DOMAIN input_handle = Inputs
  /\ in_lock \in [Inputs -> Callers \cup {NoInput}]
  /\ active_input \in Inputs \cup {NoInput}
  /\ caller \in [Callers -> [at : Places, on : Inputs \cup {NoInput}, then : Calls]]

\* Whoever is in a call has a stream that exists, and inside it the mutex
CallersInv ==
  \A t \in Callers :
    /\ caller[t].at = "idle" => caller[t] = Idle
    /\ caller[t].at # "idle" => /\ caller[t].on \in Inputs /\ in_open[caller[t].on]
                                /\ t \in Inputs => caller[t].on = t
    /\ Inside(t) => in_lock[caller[t].on] = t

\* The mutex of a stream is held by a thread inside it
HoldersInv ==
  \A s \in Inputs : in_lock[s] # NoInput =>
    Inside(in_lock[s]) /\ caller[in_lock[s]].on = s

\* A stream is closed by its own thread, while nobody controls it, and what is left of
\* it then is in standby
ClosingInv ==
  \A t \in Callers : caller[t].then = "close" =>
    /\ t \in Inputs /\ caller[Control].on # t
    /\ caller[t].at \in {"lock", "standby", "deselect", "unlock"}
    /\ caller[t].at = "unlock" => in_standby[t]

Starting == {"clear", "select", "open"}

\* The active input exists; one in standby is being started; and one that is being put
\* into standby, or freed, is not it
ActiveInv ==
  /\ ActiveInputIsOpen
  /\ active_input # NoInput /\ in_standby[active_input] =>
       /\ in_lock[active_input] # NoInput
       /\ caller[in_lock[active_input]].at \in Starting
  /\ \A t \in Callers :
       caller[t].at = "deselect" \/ (caller[t].at = "unlock" /\ caller[t].then = "close")
         => active_input # caller[t].on

\* A handle belongs to a stream that exists and runs, and between the close of one and
\* the open of the next there is none
HandleInv ==
  /\ \A s \in Inputs : input_handle[s] # NoInput => in_open[s] /\ ~in_standby[s]
  /\ \A t \in Callers : caller[t].at \in Starting \cup {"deselect", "start"} =>
       input_handle[caller[t].on] = NoInput

InputInv ==
  InputTypeInv /\ CallersInv /\ HoldersInv /\ ClosingInv /\ ActiveInv /\ HandleInv

-----------------------------------------------------------------------------
(* The steps *)

\* A thread that goes on to another place of its call
LEMMA GotoShape ==
  ASSUME InputTypeInv, NEW t \in Callers, NEW a \in Places, Goto(t, a)
  PROVE  /\ caller' \in [Callers -> [at : Places, on : Inputs \cup {NoInput}, then : Calls]]
         /\ caller'[t].at = a /\ caller'[t].on = caller[t].on
         /\ caller'[t].then = caller[t].then
         /\ \A u \in Callers : u # t => caller'[u] = caller[u]
BY DEF InputTypeInv, Goto

\* A thread whose call begins or ends
LEMMA CallerShape ==
  ASSUME InputTypeInv, NEW t \in Callers,
         NEW new \in [at : Places, on : Inputs \cup {NoInput}, then : Calls],
         caller' = [caller EXCEPT ![t] = new]
  PROVE  /\ caller' \in [Callers -> [at : Places, on : Inputs \cup {NoInput}, then : Calls]]
         /\ caller'[t] = new
         /\ \A u \in Callers : u # t => caller'[u] = caller[u]
BY DEF InputTypeInv

\* A thread inside a stream holds its mutex, alone
LEMMA InsideAlone ==
  ASSUME InputTypeInv, CallersInv, NEW t \in Callers, Inside(t)
  PROVE  /\ caller[t].on \in Inputs /\ in_open[caller[t].on]
         /\ in_lock[caller[t].on] = t
         /\ caller[t].at # "idle" /\ caller[t].at # "lock"
         /\ t \in Inputs => caller[t].on = t
         /\ \A u \in Callers : u # t /\ Inside(u) => caller[u].on # caller[t].on
BY DEF CallersInv, Inside

LEMMA StandbyInputCloseKeeps ==
  ASSUME InputInv, NEW t \in Callers, StandbyInputClose(t)
  PROVE  InputInv'
<1> USE InputAssumption
<1> DEFINE s == caller[t].on
<1>1. caller[t].at = "standby" /\ Goto(t, "deselect")
      /\ input_handle' = [input_handle EXCEPT ![s] = NoInput] /\ active_input' = NoInput
      /\ UNCHANGED <<in_open, in_standby, in_lock>>
  BY DEF StandbyInputClose, At, aml_input_close, streamvars, lockvars, devvars
<1>2. InputTypeInv /\ CallersInv /\ Inside(t)
  BY <1>1 DEF InputInv, Inside
<1>3. /\ caller' \in [Callers -> [at : Places, on : Inputs \cup {NoInput}, then : Calls]]
      /\ caller'[t].at = "deselect" /\ caller'[t].on = s /\ caller'[t].then = caller[t].then
      /\ \A u \in Callers : u # t => caller'[u] = caller[u]
  <2>1. "deselect" \in Places
    BY DEF Places
  <2> QED
    BY <1>1, <1>2, <2>1, GotoShape
<1>4. /\ s \in Inputs /\ in_open[s] /\ in_lock[s] = t
      /\ t \in Inputs => s = t
      /\ \A u \in Callers : u # t /\ Inside(u) => caller[u].on # s
  BY <1>2, InsideAlone
<1>5. Control \in Callers /\ NoInput \notin Inputs /\ \A u \in Callers : u \in Inputs \/ u = Control
  BY DEF Callers
<1> HIDE DEF s
<1>10. InputTypeInv'
  BY <1>1, <1>2, <1>3, <1>4
     DEF InputInv, InputTypeInv
<1>11. CallersInv'
  BY <1>1, <1>2, <1>3, <1>4
     DEF InputInv, InputTypeInv, CallersInv, Inside
<1>12. HoldersInv'
  BY <1>1, <1>2, <1>3, <1>4
     DEF InputInv, InputTypeInv, HoldersInv, Inside
<1>13. ClosingInv'
  BY <1>1, <1>2, <1>3, <1>4, <1>5
     DEF InputInv, InputTypeInv, CallersInv, HoldersInv, ClosingInv, Inside
<1>14. ActiveInv'
  BY <1>1, <1>2, <1>3, <1>4, <1>5
     DEF InputInv, InputTypeInv, CallersInv, ActiveInv, ActiveInputIsOpen, Starting, Inside
<1>15. HandleInv'
  BY <1>1, <1>2, <1>3, <1>4
     DEF InputInv, InputTypeInv, CallersInv, HandleInv, Starting, Inside
<1> QED
  BY <1>10, <1>11, <1>12, <1>13, <1>14, <1>15 DEF InputInv

LEMMA StartActiveKeeps ==
  ASSUME InputInv, NEW t \in Callers, StartActive(t)
  PROVE  InputInv'
<1> USE InputAssumption
<1> DEFINE s == caller[t].on
<1>1. PICK at \in {"clear", "open"} :
      /\ caller[t].at = "start" /\ Goto(t, at)
      /\ active_input' = s /\ UNCHANGED <<in_open, in_standby, in_lock, input_handle>>
  BY DEF StartActive, At, aml_input_close, streamvars, lockvars, devvars
<1>2. InputTypeInv /\ CallersInv /\ Inside(t)
  BY <1>1 DEF InputInv, Inside
<1>3. /\ caller' \in [Callers -> [at : Places, on : Inputs \cup {NoInput}, then : Calls]]
      /\ caller'[t].at = at /\ caller'[t].on = s /\ caller'[t].then = caller[t].then
      /\ \A u \in Callers : u # t => caller'[u] = caller[u]
  <2>1. at \in Places
    BY DEF Places
  <2> QED
    BY <1>1, <1>2, <2>1, GotoShape
<1>4. /\ s \in Inputs /\ in_open[s] /\ in_lock[s] = t
      /\ t \in Inputs => s = t
      /\ \A u \in Callers : u # t /\ Inside(u) => caller[u].on # s
  BY <1>2, InsideAlone
<1>5. Control \in Callers /\ NoInput \notin Inputs /\ \A u \in Callers : u \in Inputs \/ u = Control
  BY DEF Callers
<1> HIDE DEF s
<1>10. InputTypeInv'
  BY <1>1, <1>2, <1>3, <1>4
     DEF InputInv, InputTypeInv
<1>11. CallersInv'
  BY <1>1, <1>2, <1>3, <1>4
     DEF InputInv, InputTypeInv, CallersInv, Inside
<1>12. HoldersInv'
  BY <1>1, <1>2, <1>3, <1>4
     DEF InputInv, InputTypeInv, HoldersInv, Inside
<1>13. ClosingInv'
  BY <1>1, <1>2, <1>3, <1>4, <1>5
     DEF InputInv, InputTypeInv, CallersInv, HoldersInv, ClosingInv, Inside
<1>14. ActiveInv'
  BY <1>1, <1>2, <1>3, <1>4, <1>5
     DEF InputInv, InputTypeInv, CallersInv, ActiveInv, ActiveInputIsOpen, Starting, Inside
<1>15. HandleInv'
  BY <1>1, <1>2, <1>3, <1>4
     DEF InputInv, InputTypeInv, CallersInv, HoldersInv, ClosingInv, Inside,
         HandleInv, Starting
<1> QED
  BY <1>10, <1>11, <1>12, <1>13, <1>14, <1>15 DEF InputInv

LEMMA StartClearKeeps ==
  ASSUME InputInv, NEW t \in Callers, StartClear(t)
  PROVE  InputInv'
<1> USE InputAssumption
<1> DEFINE s == caller[t].on
<1>1. caller[t].at = "clear" /\ Goto(t, "select")
      /\ UNCHANGED <<in_open, in_standby, in_lock, input_handle, active_input>>
  BY DEF StartClear, At, aml_input_close, streamvars, lockvars, devvars
<1>2. InputTypeInv /\ CallersInv /\ Inside(t)
  BY <1>1 DEF InputInv, Inside
<1>3. /\ caller' \in [Callers -> [at : Places, on : Inputs \cup {NoInput}, then : Calls]]
      /\ caller'[t].at = "select" /\ caller'[t].on = s /\ caller'[t].then = caller[t].then
      /\ \A u \in Callers : u # t => caller'[u] = caller[u]
  <2>1. "select" \in Places
    BY DEF Places
  <2> QED
    BY <1>1, <1>2, <2>1, GotoShape
<1>4. /\ s \in Inputs /\ in_open[s] /\ in_lock[s] = t
      /\ t \in Inputs => s = t
      /\ \A u \in Callers : u # t /\ Inside(u) => caller[u].on # s
  BY <1>2, InsideAlone
<1>5. Control \in Callers /\ NoInput \notin Inputs /\ \A u \in Callers : u \in Inputs \/ u = Control
  BY DEF Callers
<1> HIDE DEF s
<1>10. InputTypeInv'
  BY <1>1, <1>2, <1>3, <1>4
     DEF InputInv, InputTypeInv
<1>11. CallersInv'
  BY <1>1, <1>2, <1>3, <1>4
     DEF InputInv, InputTypeInv, CallersInv, Inside
<1>12. HoldersInv'
  BY <1>1, <1>2, <1>3, <1>4
     DEF InputInv, InputTypeInv, HoldersInv, Inside
<1>13. ClosingInv'
  BY <1>1, <1>2, <1>3, <1>4, <1>5
     DEF InputInv, InputTypeInv, CallersInv, HoldersInv, ClosingInv, Inside
<1>14. ActiveInv'
  BY <1>1, <1>2, <1>3, <1>4, <1>5
     DEF InputInv, InputTypeInv, CallersInv, ActiveInv, ActiveInputIsOpen, Starting, Inside
<1>15. HandleInv'
  BY <1>1, <1>2, <1>3, <1>4
     DEF InputInv, InputTypeInv, CallersInv, HoldersInv, ClosingInv, Inside,
         HandleInv, Starting
<1> QED
  BY <1>10, <1>11, <1>12, <1>13, <1>14, <1>15 DEF InputInv

LEMMA StartSelectKeeps ==
  ASSUME InputInv, NEW t \in Callers, StartSelect(t)
  PROVE  InputInv'
<1> USE InputAssumption
<1> DEFINE s == caller[t].on
<1>1. caller[t].at = "select" /\ Goto(t, "open")
      /\ UNCHANGED <<in_open, in_standby, in_lock, input_handle, active_input>>
  BY DEF StartSelect, At, aml_input_close, streamvars, lockvars, devvars
<1>2. InputTypeInv /\ CallersInv /\ Inside(t)
  BY <1>1 DEF InputInv, Inside
<1>3. /\ caller' \in [Callers -> [at : Places, on : Inputs \cup {NoInput}, then : Calls]]
      /\ caller'[t].at = "open" /\ caller'[t].on = s /\ caller'[t].then = caller[t].then
      /\ \A u \in Callers : u # t => caller'[u] = caller[u]
  <2>1. "open" \in Places
    BY DEF Places
  <2> QED
    BY <1>1, <1>2, <2>1, GotoShape
<1>4. /\ s \in Inputs /\ in_open[s] /\ in_lock[s] = t
      /\ t \in Inputs => s = t
      /\ \A u \in Callers : u # t /\ Inside(u) => caller[u].on # s
  BY <1>2, InsideAlone
<1>5. Control \in Callers /\ NoInput \notin Inputs /\ \A u \in Callers : u \in Inputs \/ u = Control
  BY DEF Callers
<1> HIDE DEF s
<1>10. InputTypeInv'
  BY <1>1, <1>2, <1>3, <1>4
     DEF InputInv, InputTypeInv
<1>11. CallersInv'
  BY <1>1, <1>2, <1>3, <1>4
     DEF InputInv, InputTypeInv, CallersInv, Inside
<1>12. HoldersInv'
  BY <1>1, <1>2, <1>3, <1>4
     DEF InputInv, InputTypeInv, HoldersInv, Inside
<1>13. ClosingInv'
  BY <1>1, <1>2, <1>3, <1>4, <1>5
     DEF InputInv, InputTypeInv, CallersInv, HoldersInv, ClosingInv, Inside
<1>14. ActiveInv'
  BY <1>1, <1>2, <1>3, <1>4, <1>5
     DEF InputInv, InputTypeInv, CallersInv, ActiveInv, ActiveInputIsOpen, Starting, Inside
<1>15. HandleInv'
  BY <1>1, <1>2, <1>3, <1>4
     DEF InputInv, InputTypeInv, CallersInv, HoldersInv, ClosingInv, Inside,
         HandleInv, Starting
<1> QED
  BY <1>10, <1>11, <1>12, <1>13, <1>14, <1>15 DEF InputInv

LEMMA StandbyDoneKeeps ==
  ASSUME InputInv, NEW t \in Callers, StandbyDone(t)
  PROVE  InputInv'
<1> USE InputAssumption
<1> DEFINE s == caller[t].on
           to == IF caller[t].then = "restart" THEN "start" ELSE "unlock"
<1>1. /\ caller[t].at = "deselect" /\ Goto(t, to)
      /\ in_standby' = [in_standby EXCEPT ![s] = TRUE]
      /\ UNCHANGED <<in_open, in_lock, input_handle, active_input>>
  BY DEF StandbyDone, At, aml_input_close, streamvars, lockvars, devvars
<1>2. InputTypeInv /\ CallersInv
  BY DEF InputInv
<1>3. /\ caller' \in [Callers -> [at : Places, on : Inputs \cup {NoInput}, then : Calls]]
      /\ caller'[t].at = to /\ caller'[t].on = s /\ caller'[t].then = caller[t].then
      /\ \A u \in Callers : u # t => caller'[u] = caller[u]
  <2>1. to \in Places
    BY DEF Places
  <2> HIDE DEF to
  <2> QED
    BY <1>1, <1>2, <2>1, GotoShape
<1>4. /\ s \in Inputs /\ in_open[s] /\ in_lock[s] = t
      /\ t \in Inputs => s = t
      /\ \A u \in Callers : u # t /\ Inside(u) => caller[u].on # s
  <2>1. Inside(t)
    BY <1>1 DEF Inside
  <2> QED
    BY <1>2, <2>1, InsideAlone
<1>5. Control \in Callers /\ NoInput \notin Inputs /\ \A u \in Callers : u \in Inputs \/ u = Control
  BY DEF Callers
<1> HIDE DEF s
<1>10. InputTypeInv'
  BY <1>1, <1>2, <1>3, <1>4, <1>5
     DEF InputInv, InputTypeInv
<1>11. CallersInv'
  BY <1>1, <1>2, <1>3, <1>4, <1>5
     DEF InputInv, InputTypeInv, CallersInv, Inside
<1>12. HoldersInv'
  BY <1>1, <1>2, <1>3, <1>4, <1>5
     DEF InputInv, InputTypeInv, HoldersInv, Inside
<1>13. ClosingInv'
  BY <1>1, <1>2, <1>3, <1>4, <1>5
     DEF InputInv, InputTypeInv, CallersInv, HoldersInv, ClosingInv, Inside
<1>14. ActiveInv'
  <2>1. InputTypeInv /\ ActiveInv /\ active_input # s
    BY <1>1 DEF InputInv, ActiveInv, s
  <2>2. ASSUME active_input # NoInput, in_standby'[active_input]
        PROVE  /\ in_lock[active_input] # NoInput
               /\ caller'[in_lock[active_input]].at \in Starting
    <3> DEFINE h == in_lock[active_input]
    <3>1. in_standby[active_input]
      BY <1>1, <2>1, <2>2 DEF InputTypeInv
    <3>2. h # NoInput /\ caller[h].at \in Starting
      BY <2>1, <2>2, <3>1 DEF ActiveInv
    <3>3. h \in Callers /\ h # t
      BY <1>1, <2>1, <2>2, <3>2 DEF InputTypeInv, Starting
    <3> QED
      BY <1>3, <3>2, <3>3
  <2>3. ASSUME NEW u \in Callers,
               caller'[u].at = "deselect" \/ (caller'[u].at = "unlock" /\ caller'[u].then = "close")
        PROVE  active_input # caller'[u].on
    <3>1. CASE u = t
      BY <1>3, <2>1, <3>1
    <3>2. CASE u # t
      BY <1>3, <2>1, <2>3, <3>2 DEF ActiveInv
    <3> QED
      BY <3>1, <3>2
  <2> QED
    BY <1>1, <2>1, <2>2, <2>3 DEF ActiveInv, ActiveInputIsOpen
<1>15. HandleInv'
  BY <1>1, <1>2, <1>3, <1>4, <1>5
     DEF InputInv, InputTypeInv, CallersInv, HoldersInv, ClosingInv, Inside,
         HandleInv, Starting
<1> QED
  BY <1>10, <1>11, <1>12, <1>13, <1>14, <1>15 DEF InputInv

LEMMA StartOpenKeeps ==
  ASSUME InputInv, NEW t \in Callers, StartOpen(t)
  PROVE  InputInv'
<1> USE InputAssumption
<1> DEFINE s == caller[t].on
           to == IF caller[t].then = "read" THEN "read" ELSE "unlock"
<1>1. /\ caller[t].at = "open" /\ Goto(t, to)
      /\ in_standby' = [in_standby EXCEPT ![s] = FALSE]
      /\ input_handle' = [input_handle EXCEPT ![s] = in_device]
      /\ UNCHANGED <<in_open, in_lock, active_input>>
  BY DEF StartOpen, At, aml_input_close, streamvars, lockvars, devvars
<1>2. InputTypeInv /\ CallersInv
  BY DEF InputInv
<1>3. /\ caller' \in [Callers -> [at : Places, on : Inputs \cup {NoInput}, then : Calls]]
      /\ caller'[t].at = to /\ caller'[t].on = s /\ caller'[t].then = caller[t].then
      /\ \A u \in Callers : u # t => caller'[u] = caller[u]
  <2>1. to \in Places
    BY DEF Places
  <2> HIDE DEF to
  <2> QED
    BY <1>1, <1>2, <2>1, GotoShape
<1>4. /\ s \in Inputs /\ in_open[s] /\ in_lock[s] = t
      /\ t \in Inputs => s = t
      /\ \A u \in Callers : u # t /\ Inside(u) => caller[u].on # s
  <2>1. Inside(t)
    BY <1>1 DEF Inside
  <2> QED
    BY <1>2, <2>1, InsideAlone
<1>5. Control \in Callers /\ NoInput \notin Inputs /\ \A u \in Callers : u \in Inputs \/ u = Control
  BY DEF Callers
<1> HIDE DEF s
<1>10. InputTypeInv'
  BY <1>1, <1>2, <1>3, <1>4, <1>5
     DEF InputInv, InputTypeInv
<1>11. CallersInv'
  BY <1>1, <1>2, <1>3, <1>4, <1>5
     DEF InputInv, InputTypeInv, CallersInv, Inside
<1>12. HoldersInv'
  BY <1>1, <1>2, <1>3, <1>4, <1>5
     DEF InputInv, InputTypeInv, HoldersInv, Inside
<1>13. ClosingInv'
  BY <1>1, <1>2, <1>3, <1>4, <1>5
     DEF InputInv, InputTypeInv, CallersInv, HoldersInv, ClosingInv, Inside
<1>14. ActiveInv'
  <2>1. ActiveInv /\ HoldersInv /\ ClosingInv
    BY DEF InputInv
  <2>2. ASSUME active_input # NoInput, in_standby'[active_input]
        PROVE  /\ in_lock[active_input] # NoInput
               /\ caller'[in_lock[active_input]].at \in Starting
    <3>1. active_input # s /\ in_standby[active_input] /\ active_input \in Inputs
      BY <1>1, <1>2, <1>4, <2>2 DEF InputTypeInv
    <3>2. in_lock[active_input] # NoInput
          /\ caller[in_lock[active_input]].at \in Starting
      BY <2>1, <2>2, <3>1 DEF ActiveInv
    <3>3. in_lock[active_input] \in Callers /\ in_lock[active_input] # t
      BY <1>2, <2>1, <3>1, <3>2 DEF InputTypeInv, HoldersInv, s
    <3> QED
      BY <1>3, <3>2, <3>3
  <2>3. ASSUME NEW u \in Callers,
               caller'[u].at = "deselect" \/ (caller'[u].at = "unlock" /\ caller'[u].then = "close")
        PROVE  active_input # caller'[u].on
    <3>1. CASE u = t
      BY <1>1, <1>3, <2>1, <2>3, <3>1 DEF ClosingInv
    <3>2. CASE u # t
      BY <1>3, <2>1, <2>3, <3>2 DEF ActiveInv
    <3> QED
      BY <3>1, <3>2
  <2> QED
    BY <1>1, <2>1, <2>2, <2>3 DEF ActiveInv, ActiveInputIsOpen
<1>15. HandleInv'
  BY <1>1, <1>2, <1>3, <1>4, <1>5
     DEF InputInv, InputTypeInv, CallersInv, HandleInv, Starting, Inside
<1> QED
  BY <1>10, <1>11, <1>12, <1>13, <1>14, <1>15 DEF InputInv

LEMMA StartFailsKeeps ==
  ASSUME InputInv, NEW t \in Callers, StartFails(t)
  PROVE  InputInv'
<1> USE InputAssumption
<1> DEFINE s == caller[t].on
           to == "unlock"
<1>1. /\ caller[t].at = "open" /\ Goto(t, to)
      /\ in_standby' = [in_standby EXCEPT ![s] = caller[t].then = "read"] /\ active_input' = NoInput
      /\ UNCHANGED <<in_open, in_lock, input_handle>>
  BY DEF StartFails, At, aml_input_close, streamvars, lockvars, devvars
<1>2. InputTypeInv /\ CallersInv
  BY DEF InputInv
<1>3. /\ caller' \in [Callers -> [at : Places, on : Inputs \cup {NoInput}, then : Calls]]
      /\ caller'[t].at = to /\ caller'[t].on = s /\ caller'[t].then = caller[t].then
      /\ \A u \in Callers : u # t => caller'[u] = caller[u]
  <2>1. to \in Places
    BY DEF Places
  <2> HIDE DEF to
  <2> QED
    BY <1>1, <1>2, <2>1, GotoShape
<1>4. /\ s \in Inputs /\ in_open[s] /\ in_lock[s] = t
      /\ t \in Inputs => s = t
      /\ \A u \in Callers : u # t /\ Inside(u) => caller[u].on # s
  <2>1. Inside(t)
    BY <1>1 DEF Inside
  <2> QED
    BY <1>2, <2>1, InsideAlone
<1>5. Control \in Callers /\ NoInput \notin Inputs /\ \A u \in Callers : u \in Inputs \/ u = Control
  BY DEF Callers
<1> HIDE DEF s
<1>10. InputTypeInv'
  BY <1>1, <1>2, <1>3, <1>4, <1>5
     DEF InputInv, InputTypeInv
<1>11. CallersInv'
  BY <1>1, <1>2, <1>3, <1>4, <1>5
     DEF InputInv, InputTypeInv, CallersInv, Inside
<1>12. HoldersInv'
  BY <1>1, <1>2, <1>3, <1>4, <1>5
     DEF InputInv, InputTypeInv, HoldersInv, Inside
<1>13. ClosingInv'
  BY <1>1, <1>2, <1>3, <1>4, <1>5
     DEF InputInv, InputTypeInv, CallersInv, HoldersInv, ClosingInv, Inside
<1>14. ActiveInv'
  BY <1>1, <1>2, <1>3, <1>4, <1>5
     DEF InputInv, InputTypeInv, CallersInv, ActiveInv, ActiveInputIsOpen, Starting, Inside
<1>15. HandleInv'
  BY <1>1, <1>2, <1>3, <1>4, <1>5
     DEF InputInv, InputTypeInv, CallersInv, HoldersInv, ClosingInv, Inside,
         HandleInv, Starting
<1> QED
  BY <1>10, <1>11, <1>12, <1>13, <1>14, <1>15 DEF InputInv

LEMMA ReadInputKeeps ==
  ASSUME InputInv, NEW t \in Inputs, ReadInput(t)
  PROVE  InputInv'
<1> USE InputAssumption
<1>0. t \in Callers
  BY DEF Callers
<1> DEFINE s == caller[t].on
           to == "unlock"
<1>1. /\ caller[t].at = "read" /\ Goto(t, to)
      /\ UNCHANGED <<in_open, in_standby, in_lock, input_handle, active_input>>
  BY DEF ReadInput, At, streamvars, lockvars, devvars
<1>2. InputTypeInv /\ CallersInv
  BY DEF InputInv
<1>3. /\ caller' \in [Callers -> [at : Places, on : Inputs \cup {NoInput}, then : Calls]]
      /\ caller'[t].at = to /\ caller'[t].on = s /\ caller'[t].then = caller[t].then
      /\ \A u \in Callers : u # t => caller'[u] = caller[u]
  <2>1. to \in Places
    BY DEF Places
  <2> HIDE DEF to
  <2> QED
    BY <1>0, <1>1, <1>2, <2>1, GotoShape
<1>4. /\ s \in Inputs /\ in_open[s] /\ in_lock[s] = t
      /\ t \in Inputs => s = t
      /\ \A u \in Callers : u # t /\ Inside(u) => caller[u].on # s
  <2>1. Inside(t)
    BY <1>1 DEF Inside
  <2> QED
    BY <1>0, <1>2, <2>1, InsideAlone
<1>5. Control \in Callers /\ NoInput \notin Inputs /\ \A u \in Callers : u \in Inputs \/ u = Control
  BY DEF Callers
<1> HIDE DEF s
<1>10. InputTypeInv'
  BY <1>0, <1>1, <1>2, <1>3, <1>4, <1>5
     DEF InputInv, InputTypeInv
<1>11. CallersInv'
  BY <1>0, <1>1, <1>2, <1>3, <1>4, <1>5
     DEF InputInv, InputTypeInv, CallersInv, Inside
<1>12. HoldersInv'
  BY <1>0, <1>1, <1>2, <1>3, <1>4, <1>5
     DEF InputInv, InputTypeInv, HoldersInv, Inside
<1>13. ClosingInv'
  BY <1>0, <1>1, <1>2, <1>3, <1>4, <1>5
     DEF InputInv, InputTypeInv, ClosingInv, Inside
<1>14. ActiveInv'
  BY <1>0, <1>1, <1>2, <1>3, <1>4, <1>5
     DEF InputInv, InputTypeInv, CallersInv, HoldersInv, ClosingInv, Inside,
         ActiveInv, ActiveInputIsOpen, Starting
<1>15. HandleInv'
  BY <1>0, <1>1, <1>2, <1>3, <1>4, <1>5
     DEF InputInv, InputTypeInv, CallersInv, HandleInv, Starting, Inside
<1> QED
  BY <1>10, <1>11, <1>12, <1>13, <1>14, <1>15 DEF InputInv

LEMMA StreamLockKeeps ==
  ASSUME InputInv, NEW t \in Callers, StreamLock(t)
  PROVE  InputInv'
<1> USE InputAssumption
<1> DEFINE s == caller[t].on
           to == IF ToStandby(s, caller[t].then) THEN "standby" ELSE "unlock"
<1>1. /\ caller[t].at = "lock" /\ Goto(t, to)
      /\ in_lock[s] = NoInput /\ in_lock' = [in_lock EXCEPT ![s] = t]
      /\ UNCHANGED <<in_open, in_standby, input_handle, active_input>>
  BY DEF StreamLock, At, devvars
<1>2. InputTypeInv /\ CallersInv
  BY DEF InputInv
<1>3. /\ caller' \in [Callers -> [at : Places, on : Inputs \cup {NoInput}, then : Calls]]
      /\ caller'[t].at = to /\ caller'[t].on = s /\ caller'[t].then = caller[t].then
      /\ \A u \in Callers : u # t => caller'[u] = caller[u]
  <2>1. to \in Places
    BY DEF Places
  <2> HIDE DEF to
  <2> QED
    BY <1>1, <1>2, <2>1, GotoShape
<1>4. /\ s \in Inputs /\ in_open[s]
      /\ t \in Inputs => s = t
      /\ \A u \in Callers : u # t /\ Inside(u) => caller[u].on # s
  BY <1>1, <1>2 DEF CallersInv, Inside, InputTypeInv, Callers
<1>6. caller[t].then = "close" => (to = "unlock" => in_standby[s])
  BY DEF ToStandby
<1>7. to \in {"standby", "unlock"}
  OBVIOUS
<1>5. Control \in Callers /\ NoInput \notin Inputs /\ \A u \in Callers : u \in Inputs \/ u = Control
  BY DEF Callers
<1> HIDE DEF s
<1> HIDE DEF to
<1>10. InputTypeInv'
  BY <1>1, <1>2, <1>3, <1>4, <1>5, <1>6, <1>7
     DEF InputInv, InputTypeInv
<1>11. CallersInv'
  BY <1>1, <1>2, <1>3, <1>4, <1>5, <1>6, <1>7
     DEF InputInv, InputTypeInv, CallersInv, Inside
<1>12. HoldersInv'
  BY <1>1, <1>2, <1>3, <1>4, <1>5, <1>6, <1>7
     DEF InputInv, InputTypeInv, HoldersInv, Inside
<1>13. ClosingInv'
  <2>1. ClosingInv /\ InputTypeInv
    BY DEF InputInv
  <2>2. SUFFICES ASSUME NEW u \in Callers, caller'[u].then = "close"
                 PROVE  /\ u \in Inputs /\ caller'[Control].on # u
                        /\ caller'[u].at \in {"lock", "standby", "deselect", "unlock"}
                        /\ caller'[u].at = "unlock" => in_standby'[u]
    BY DEF ClosingInv
  <2>3. caller[u].then = "close" /\ caller'[Control].on = caller[Control].on
    <3>1. \A v \in Callers : caller'[v].then = caller[v].then /\ caller'[v].on = caller[v].on
      <4> TAKE v \in Callers
      <4>1. CASE v = t
        BY <1>3, <4>1 DEF s
      <4>2. CASE v # t
        BY <1>3, <4>2
      <4> QED
        BY <4>1, <4>2
    <3> QED
      BY <1>5, <2>2, <3>1
  <2>4. u \in Inputs /\ caller[Control].on # u
    BY <2>1, <2>3 DEF ClosingInv
  <2>5. CASE u = t
    BY <1>1, <1>3, <1>4, <1>6, <1>7, <2>3, <2>4, <2>5
  <2>6. CASE u # t
    <3>1. caller'[u] = caller[u]
      BY <1>3, <2>6
    <3> QED
      BY <1>1, <2>1, <2>3, <2>4, <3>1 DEF ClosingInv
  <2> QED
    BY <2>5, <2>6
<1>14. ActiveInv'
  <2>1. InputTypeInv /\ ActiveInv
    BY DEF InputInv
  <2>2. ASSUME active_input # NoInput, in_standby[active_input]
        PROVE  /\ active_input # s /\ in_lock'[active_input] # NoInput
               /\ caller'[in_lock'[active_input]].at \in Starting
    <3> DEFINE h == in_lock[active_input]
    <3>1. h # NoInput /\ caller[h].at \in Starting /\ active_input # s
      BY <1>1, <2>1, <2>2 DEF ActiveInv
    <3>2. h \in Callers /\ h # t /\ in_lock'[active_input] = h
      BY <1>1, <1>4, <2>1, <2>2, <3>1 DEF InputTypeInv, Starting
    <3> QED
      BY <1>3, <3>1, <3>2
  <2>3. ASSUME NEW u \in Callers,
               caller'[u].at = "deselect" \/ (caller'[u].at = "unlock" /\ caller'[u].then = "close")
        PROVE  active_input # caller'[u].on
    <3>1. CASE u = t
      <4>1. in_standby[s]
        BY <1>3, <1>6, <1>7, <2>3, <3>1
      <4> QED
        BY <1>3, <1>4, <1>5, <2>2, <3>1, <4>1
    <3>2. CASE u # t
      BY <1>3, <2>1, <2>3, <3>2 DEF ActiveInv
    <3> QED
      BY <3>1, <3>2
  <2> QED
    BY <1>1, <2>1, <2>2, <2>3 DEF ActiveInv, ActiveInputIsOpen
<1>15. HandleInv'
  BY <1>1, <1>2, <1>3, <1>4, <1>5, <1>6, <1>7
     DEF InputInv, InputTypeInv, CallersInv, HandleInv, Starting, Inside
<1> QED
  BY <1>10, <1>11, <1>12, <1>13, <1>14, <1>15 DEF InputInv

LEMMA UnlockKeeps ==
  ASSUME InputInv, NEW t \in Callers, Unlock(t)
  PROVE  InputInv'
<1> USE InputAssumption
<1> DEFINE s == caller[t].on
<1>1. /\ caller[t].at = "unlock"
      /\ caller' = [caller EXCEPT ![t] = [at |-> "idle", on |-> NoInput, then |-> "idle"]]
      /\ in_lock' = [in_lock EXCEPT ![s] = NoInput]
      /\ in_open' = [in_open EXCEPT ![s] = in_open[s] /\ caller[t].then # "close"]
      /\ UNCHANGED <<in_standby, input_handle, active_input>>
  BY DEF Unlock, At, Idle, devvars
<1>2. InputTypeInv /\ CallersInv
  BY DEF InputInv
<1>3. /\ caller' \in [Callers -> [at : Places, on : Inputs \cup {NoInput}, then : Calls]]
      /\ caller'[t] = Idle
      /\ caller'[t].at = "idle" /\ caller'[t].on = NoInput /\ caller'[t].then = "idle"
      /\ \A u \in Callers : u # t => caller'[u] = caller[u]
  <2>1. "idle" \in Places /\ "idle" \in Calls /\ NoInput \in Inputs \cup {NoInput}
    BY DEF Places, Calls
  <2> QED
    BY <1>1, <1>2, <2>1, CallerShape DEF Idle
<1>4. /\ s \in Inputs /\ in_open[s] /\ in_lock[s] = t
      /\ t \in Inputs => s = t
      /\ \A u \in Callers : u # t /\ Inside(u) => caller[u].on # s
  <2>1. Inside(t)
    BY <1>1 DEF Inside
  <2> QED
    BY <1>2, <2>1, InsideAlone
<1>6. ASSUME caller[t].then = "close"
      PROVE  t \in Inputs /\ caller[Control].on # s /\ in_standby[s] /\ active_input # s
  BY <1>1, <1>4, <1>6 DEF InputInv, ClosingInv, ActiveInv
<1>7. ASSUME NEW u \in Callers, u # t, caller[u].at # "idle", caller[u].on = s
      PROVE  caller[t].then # "close"
  BY <1>2, <1>4, <1>6, <1>7 DEF CallersInv, Callers
<1>5. Control \in Callers /\ NoInput \notin Inputs /\ \A u \in Callers : u \in Inputs \/ u = Control
  BY DEF Callers
<1> HIDE DEF s
<1>10. InputTypeInv'
  BY <1>1, <1>2, <1>3, <1>4, <1>5, <1>6, <1>7
     DEF InputInv, InputTypeInv
<1>11. CallersInv'
  BY <1>1, <1>2, <1>3, <1>4, <1>5, <1>6, <1>7
     DEF InputInv, InputTypeInv, CallersInv, Inside
<1>12. HoldersInv'
  BY <1>1, <1>2, <1>3, <1>4, <1>5, <1>6, <1>7
     DEF InputInv, InputTypeInv, HoldersInv, Inside
<1>13. ClosingInv'
  BY <1>1, <1>2, <1>3, <1>4, <1>5, <1>6, <1>7
     DEF InputInv, InputTypeInv, ClosingInv, Inside
<1>14. ActiveInv'
  BY <1>1, <1>2, <1>3, <1>4, <1>5, <1>6, <1>7
     DEF InputInv, InputTypeInv, CallersInv, ActiveInv, ActiveInputIsOpen, Starting, Inside
<1>15. HandleInv'
  BY <1>1, <1>2, <1>3, <1>4, <1>5, <1>6, <1>7
     DEF InputInv, InputTypeInv, CallersInv, HandleInv, Starting, Inside
<1> QED
  BY <1>10, <1>11, <1>12, <1>13, <1>14, <1>15 DEF InputInv

LEMMA ReadLockKeeps ==
  ASSUME InputInv, NEW t \in Inputs, ReadLock(t)
  PROVE  InputInv'
<1> USE InputAssumption
<1> DEFINE to == IF in_standby[t] THEN "start" ELSE "read"
<1>0. t \in Callers
  BY DEF Callers
<1>1. /\ caller[t].at = "idle" /\ in_open[t] /\ in_lock[t] = NoInput
      /\ caller' = [caller EXCEPT ![t] = [at |-> to, on |-> t, then |-> "read"]]
      /\ in_lock' = [in_lock EXCEPT ![t] = t]
      /\ UNCHANGED <<in_open, in_standby, input_handle, active_input>>
  BY DEF ReadLock, At, streamvars, devvars
<1>2. InputTypeInv /\ CallersInv
  BY DEF InputInv
<1>3. /\ caller' \in [Callers -> [at : Places, on : Inputs \cup {NoInput}, then : Calls]]
      /\ caller'[t].at = to /\ caller'[t].on = t /\ caller'[t].then = "read"
      /\ \A u \in Callers : u # t => caller'[u] = caller[u]
  <2>1. to \in Places /\ "read" \in Calls /\ t \in Inputs \cup {NoInput}
    BY DEF Places, Calls
  <2> DEFINE new == [at |-> to, on |-> t, then |-> "read"]
  <2>2. /\ new \in [at : Places, on : Inputs \cup {NoInput}, then : Calls]
        /\ new.at = to /\ new.on = t /\ new.then = "read"
    BY <2>1
  <2>3. caller' = [caller EXCEPT ![t] = new]
    BY <1>1
  <2> HIDE DEF to, new
  <2>4. /\ caller' \in [Callers -> [at : Places, on : Inputs \cup {NoInput}, then : Calls]]
        /\ caller'[t] = new /\ \A u \in Callers : u # t => caller'[u] = caller[u]
    BY <1>0, <1>2, <2>2, <2>3, CallerShape
  <2> QED
    BY <2>2, <2>4
<1>4. \A u \in Callers : Inside(u) => caller[u].on # t
  BY <1>0, <1>1, <1>2 DEF CallersInv
<1>5. Control \in Callers /\ NoInput \notin Inputs /\ \A u \in Callers : u \in Inputs \/ u = Control
  BY DEF Callers
<1>10. InputTypeInv'
  BY <1>0, <1>1, <1>2, <1>3, <1>4, <1>5
     DEF InputInv, InputTypeInv
<1>11. CallersInv'
  BY <1>0, <1>1, <1>2, <1>3, <1>4, <1>5
     DEF InputInv, InputTypeInv, CallersInv, Inside
<1>12. HoldersInv'
  BY <1>0, <1>1, <1>2, <1>3, <1>4, <1>5
     DEF InputInv, InputTypeInv, HoldersInv, Inside
<1>13. ClosingInv'
  BY <1>0, <1>1, <1>2, <1>3, <1>4, <1>5
     DEF InputInv, InputTypeInv, ClosingInv, Inside
<1>14. ActiveInv'
  BY <1>0, <1>1, <1>2, <1>3, <1>4, <1>5
     DEF InputInv, InputTypeInv, CallersInv, ActiveInv, ActiveInputIsOpen, Starting, Inside
<1>15. HandleInv'
  BY <1>0, <1>1, <1>2, <1>3, <1>4, <1>5
     DEF InputInv, InputTypeInv, CallersInv, HandleInv, Starting, Inside
<1> QED
  BY <1>10, <1>11, <1>12, <1>13, <1>14, <1>15 DEF InputInv

LEMMA CallLockKeeps ==
  ASSUME InputInv, NEW s \in Inputs, NEW t \in {s, Control},
         NEW call \in {"standby", "route", "restart", "close"}, CallLock(t, s, call)
  PROVE  InputInv'
<1> USE InputAssumption
<1>0. t \in Callers
  BY DEF Callers
<1>1. /\ caller[t].at = "idle" /\ in_open[s]
      /\ IF t = Control THEN call # "close" /\ ~(caller[s].then = "close")
                        ELSE call = "close" /\ t = s /\ caller[Control].on # s
      /\ caller' = [caller EXCEPT ![t] = [at |-> "lock", on |-> s, then |-> call]]
      /\ UNCHANGED <<in_lock, in_open, in_standby, input_handle, active_input>>
  BY DEF CallLock, At, streamvars, devvars
<1>2. InputTypeInv /\ CallersInv
  BY DEF InputInv
<1>3. /\ caller' \in [Callers -> [at : Places, on : Inputs \cup {NoInput}, then : Calls]]
      /\ caller'[t].at = "lock" /\ caller'[t].on = s /\ caller'[t].then = call
      /\ \A u \in Callers : u # t => caller'[u] = caller[u]
  <2>1. "lock" \in Places /\ call \in Calls /\ s \in Inputs \cup {NoInput}
    BY DEF Places, Calls
  <2> DEFINE new == [at |-> "lock", on |-> s, then |-> call]
  <2>2. /\ new \in [at : Places, on : Inputs \cup {NoInput}, then : Calls]
        /\ new.at = "lock" /\ new.on = s /\ new.then = call
    BY <2>1
  <2>3. caller' = [caller EXCEPT ![t] = new]
    BY <1>1
  <2> HIDE DEF new
  <2>4. /\ caller' \in [Callers -> [at : Places, on : Inputs \cup {NoInput}, then : Calls]]
        /\ caller'[t] = new /\ \A u \in Callers : u # t => caller'[u] = caller[u]
    BY <1>0, <1>2, <2>2, <2>3, CallerShape
  <2> QED
    BY <2>2, <2>4
<1>4. t \in Inputs => s = t
  OBVIOUS
<1>5. Control \in Callers /\ NoInput \notin Inputs /\ \A u \in Callers : u \in Inputs \/ u = Control
  BY DEF Callers
<1>10. InputTypeInv'
  BY <1>0, <1>1, <1>2, <1>3, <1>4, <1>5
     DEF InputInv, InputTypeInv
<1>11. CallersInv'
  BY <1>0, <1>1, <1>2, <1>3, <1>4, <1>5
     DEF InputInv, InputTypeInv, CallersInv, Inside
<1>12. HoldersInv'
  BY <1>0, <1>1, <1>2, <1>3, <1>4, <1>5
     DEF InputInv, InputTypeInv, HoldersInv, Inside
<1>13. ClosingInv'
  BY <1>0, <1>1, <1>2, <1>3, <1>4, <1>5
     DEF InputInv, InputTypeInv, ClosingInv, Inside
<1>14. ActiveInv'
  BY <1>0, <1>1, <1>2, <1>3, <1>4, <1>5
     DEF InputInv, InputTypeInv, CallersInv, ActiveInv, ActiveInputIsOpen, Starting, Inside
<1>15. HandleInv'
  BY <1>0, <1>1, <1>2, <1>3, <1>4, <1>5
     DEF InputInv, InputTypeInv, CallersInv, HandleInv, Starting, Inside
<1> QED
  BY <1>10, <1>11, <1>12, <1>13, <1>14, <1>15 DEF InputInv

LEMMA OpenStreamKeeps ==
  ASSUME InputInv, NEW s \in Inputs, NEW d \in InDevices, adev_open_input_stream(s, d)
  PROVE  InputInv'
<1> USE InputAssumption
<1>1. /\ caller[s].at = "idle" /\ ~in_open[s]
      /\ in_open' = [in_open EXCEPT ![s] = TRUE]
      /\ in_standby' = [in_standby EXCEPT ![s] = TRUE]
      /\ UNCHANGED <<in_lock, input_handle, active_input, caller>>
  BY DEF adev_open_input_stream, At, lockvars, devvars
<1>10. InputTypeInv'
  BY <1>1
     DEF InputInv, InputTypeInv
<1>11. CallersInv'
  BY <1>1
     DEF InputInv, InputTypeInv, CallersInv, Inside
<1>12. HoldersInv'
  BY <1>1
     DEF InputInv, InputTypeInv, HoldersInv, Inside
<1>13. ClosingInv'
  BY <1>1
     DEF InputInv, InputTypeInv, ClosingInv, Inside
<1>14. ActiveInv'
  BY <1>1
     DEF InputInv, InputTypeInv, CallersInv, ActiveInv, ActiveInputIsOpen, Starting, Inside
<1>15. HandleInv'
  BY <1>1
     DEF InputInv, InputTypeInv, CallersInv, HandleInv, Starting, Inside
<1> QED
  BY <1>10, <1>11, <1>12, <1>13, <1>14, <1>15 DEF InputInv

-----------------------------------------------------------------------------
(* The theorems *)

LEMMA InputInitInv == InputInit => InputInv
<1> SUFFICES ASSUME InputInit PROVE InputInv
  OBVIOUS
<1>1. Idle \in [at : Places, on : Inputs \cup {NoInput}, then : Calls]
  BY DEF Idle, Places, Calls
<1>2. InputTypeInv
  BY <1>1 DEF InputInit, InputTypeInv
<1>3. CallersInv
  BY DEF InputInit, CallersInv, Idle, Inside
<1>4. HoldersInv
  BY DEF InputInit, HoldersInv
<1>5. ClosingInv
  BY DEF InputInit, ClosingInv, Idle
<1>6. ActiveInv
  BY DEF InputInit, ActiveInv, ActiveInputIsOpen, Idle
<1>7. HandleInv
  BY DEF InputInit, HandleInv, Idle, Starting
<1> QED
  BY <1>2, <1>3, <1>4, <1>5, <1>6, <1>7 DEF InputInv

LEMMA InputNextInv == InputInv /\ [InputNext]_invars => InputInv'
<1> SUFFICES ASSUME InputInv, [InputNext]_invars PROVE InputInv'
  OBVIOUS
<1>1. ASSUME NEW s \in Inputs, NEW d \in InDevices, adev_open_input_stream(s, d)
      PROVE  InputInv'
  BY <1>1, OpenStreamKeeps
<1>2. ASSUME NEW s \in Inputs, ReadLock(s) \/ ReadInput(s) PROVE InputInv'
  BY <1>2, ReadLockKeeps, ReadInputKeeps
<1>3. ASSUME NEW s \in Inputs, NEW t \in {s, Control},
             NEW call \in {"standby", "route", "restart", "close"}, CallLock(t, s, call)
      PROVE  InputInv'
  BY <1>3, CallLockKeeps
<1>4. ASSUME NEW t \in Callers, StreamLock(t) \/ Unlock(t) PROVE InputInv'
  BY <1>4, StreamLockKeeps, UnlockKeeps
<1>5. ASSUME NEW t \in Callers, StandbyInputClose(t) \/ StandbyDone(t) PROVE InputInv'
  BY <1>5, StandbyInputCloseKeeps, StandbyDoneKeeps
<1>6. ASSUME NEW t \in Callers, StartActive(t) \/ StartClear(t) \/ StartSelect(t) PROVE InputInv'
  BY <1>6, StartActiveKeeps, StartClearKeeps, StartSelectKeeps
<1>7. ASSUME NEW t \in Callers, StartOpen(t) \/ StartFails(t) PROVE InputInv'
  BY <1>7, StartOpenKeeps, StartFailsKeeps
<1>8. CASE UNCHANGED invars
  <2> USE <1>8 DEF invars
  <2>1. InputTypeInv' /\ CallersInv'
    BY DEF InputInv, InputTypeInv, CallersInv, Inside
  <2>2. HoldersInv' /\ ClosingInv'
    BY DEF InputInv, HoldersInv, ClosingInv, Inside
  <2>3. ActiveInv' /\ HandleInv'
    BY DEF InputInv, ActiveInv, HandleInv, ActiveInputIsOpen
  <2> QED
    BY <2>1, <2>2, <2>3 DEF InputInv
<1> QED
  BY <1>1, <1>2, <1>3, <1>4, <1>5, <1>6, <1>7, <1>8, Zenon DEF InputNext

\* However many streams and threads there are, adev->active_input never names a stream
\* that adev_close_input_stream has freed, though in_read sets it without adev->lock:
\* a stream in standby is the active input only while its mutex is held to start it.
THEOREM ActiveInputCorrect == InputSpec => []ActiveInputIsOpen
<1>1. InputInv => ActiveInputIsOpen
  BY DEF InputInv, ActiveInv
<1> QED
  BY <1>1, InputInitInv, InputNextInv, PTL DEF InputSpec

\* Whatever fails to open and whoever restarts a stream, no ALSA device stays open
\* behind a stream that is in standby, or was freed, and that nobody is inside.
THEOREM StandbyHandleCorrect == InputSpec => []StandbyHoldsNoDevice
<1>1. InputInv => StandbyHoldsNoDevice
  BY DEF InputInv, HandleInv, StandbyHoldsNoDevice
<1> QED
  BY <1>1, InputInitInv, InputNextInv, PTL DEF InputSpec

=============================================================================
