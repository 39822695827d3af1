----------------------------- MODULE InputStreams -----------------------------
(***************************************************************************)
(* The capture streams of src/src/audio_hal/audio_hw.c and the open and    *)
(* close of aml_input_manager.c and alsa_manager.c under them.             *)
(*                                                                         *)
(* Every stream has the thread that reads and closes it, the framework's   *)
(* or that of an audio patch; one more thread controls them all.  in_read  *)
(* holds the mutex of its stream only, so what it does to the device's     *)
(* fields is done step by step.  adev_set_mode may change the mode at any  *)
(* time, so each test of AUDIO_MODE_IN_CALL is a choice.  RESAMPLER is not *)
(* defined in the build, and nothing sets parser->decode_enabled, so a     *)
(* read goes to ALSA.                                                      *)
(***************************************************************************)
EXTENDS Naturals

CONSTANTS
  Inputs,        \* capture streams
  InDevices,     \* device bits
  NoInput        \* no stream, no device, nobody

Control == "control"
Callers == Inputs \cup {Control}

ASSUME InputAssumption ==
  NoInput \notin Callers /\ NoInput \notin InDevices /\ Control \notin Inputs

VARIABLES
  in_open, in_standby,   \* of a stream: it exists, in->standby
  in_source_device,      \* in->device
  input_handle,          \* the bits its ALSA device was opened with, or NoInput
  in_lock, in_adev_lock, \* holder of in->lock, and of adev->lock
  active_input,          \* adev->active_input
  in_device,             \* the input bits of adev->in_device
  caller                 \* what a thread is at, and for which stream

invars == <<in_open, in_standby, in_source_device, input_handle, in_lock,
            in_adev_lock, active_input, in_device, caller>>

devvars == <<active_input, in_device>>
streamvars == <<in_open, in_standby, in_source_device, input_handle>>
lockvars == <<in_lock, in_adev_lock>>

Idle == [at |-> "idle", on |-> NoInput, then |-> "idle"]

InputInit ==
  /\ in_open = [s \in Inputs |-> FALSE]
  /\ in_standby = [s \in Inputs |-> TRUE]
  /\ in_source_device = [s \in Inputs |-> NoInput]
  /\ input_handle = [s \in Inputs |-> NoInput]
  /\ in_lock = [s \in Inputs |-> NoInput] /\ in_adev_lock = NoInput
  /\ active_input = NoInput /\ in_device = {}
  /\ caller = [t \in Callers |-> Idle]

Goto(t, at) == caller' = [caller EXCEPT ![t].at = at]
At(t, at) == caller[t].at = at

-----------------------------------------------------------------------------
(* The calls *)

adev_open_input_stream(s, d) ==
  /\ At(s, "idle") /\ ~in_open[s]
  /\ in_open' = [in_open EXCEPT ![s] = TRUE]
  /\ in_standby' = [in_standby EXCEPT ![s] = TRUE]
  /\ in_source_device' = [in_source_device EXCEPT ![s] = d]
  /\ UNCHANGED <<input_handle, lockvars, devvars, caller>>

\* in_read: the mutex of the stream is all it takes
ReadLock(s) ==
  /\ At(s, "idle") /\ in_open[s] /\ in_lock[s] = NoInput
  /\ in_lock' = [in_lock EXCEPT ![s] = s]
  /\ caller' = [caller EXCEPT ![s] =
       [at |-> IF in_standby[s] THEN "start" ELSE "read", on |-> s, then |-> "read"]]
  /\ UNCHANGED <<in_adev_lock, streamvars, devvars>>

\* in_standby, the routing and the frame count of in_set_parameters, and
\* adev_close_input_stream.  Nobody controls a stream that is being closed.
CallLock(t, s, call) ==
  /\ At(t, "idle") /\ in_open[s] /\ in_adev_lock = NoInput
  /\ IF t = Control THEN call # "close" /\ ~(caller[s].then = "close")
                    ELSE call = "close" /\ t = s /\ caller[Control].on # s
  /\ in_adev_lock' = t
  /\ caller' = [caller EXCEPT ![t] = [at |-> "lock", on |-> s, then |-> call]]
  /\ UNCHANGED <<in_lock, streamvars, devvars>>

\* Only the running stream that was started last is started anew by a frame count
ToStandby(s, call) ==
  ~in_standby[s] /\ (call = "restart" => active_input = s)

StreamLock(t) ==
  LET s == caller[t].on IN
  /\ At(t, "lock") /\ in_lock[s] = NoInput
  /\ in_lock' = [in_lock EXCEPT ![s] = t]
  /\ IF caller[t].then = "route"
     THEN \E d \in InDevices \ {in_source_device[s]} :
            in_source_device' = [in_source_device EXCEPT ![s] = d]
     ELSE UNCHANGED in_source_device
  /\ Goto(t, IF ToStandby(s, caller[t].then) THEN "standby" ELSE "unlock")
  /\ UNCHANGED <<in_adev_lock, in_open, in_standby, input_handle, devvars>>

Unlock(t) ==
  LET s == caller[t].on IN
  /\ At(t, "unlock")
  /\ in_lock' = [in_lock EXCEPT ![s] = NoInput]
  /\ in_adev_lock' = IF in_adev_lock = t THEN NoInput ELSE in_adev_lock
  /\ in_open' = [in_open EXCEPT ![s] = @ /\ caller[t].then # "close"]
  /\ caller' = [caller EXCEPT ![t] = Idle]
  /\ UNCHANGED <<in_standby, in_source_device, input_handle, devvars>>

-----------------------------------------------------------------------------
(* do_input_standby *)

\* Mutant: the handle is left to the next open
aml_input_close_kept(s) == UNCHANGED input_handle

aml_input_close(s) == input_handle' = [input_handle EXCEPT ![s] = NoInput]

StandbyInputClose(t) ==
  /\ At(t, "standby")
  /\ aml_input_close(caller[t].on)
  /\ active_input' = NoInput
  /\ Goto(t, "deselect")
  /\ UNCHANGED <<in_open, in_standby, in_source_device, lockvars, in_device>>

\* In a call the devices stay as they are
StandbyDone(t) ==
  /\ At(t, "deselect")
  /\ in_device' \in {{}, in_device}
  /\ in_standby' = [in_standby EXCEPT ![caller[t].on] = TRUE]
  /\ Goto(t, IF caller[t].then = "restart" THEN "start" ELSE "unlock")
  /\ UNCHANGED <<in_open, in_source_device, input_handle, lockvars,
                 active_input>>

-----------------------------------------------------------------------------
(* start_input_stream *)

\* In a call the devices are not selected
StartActive(t) ==
  /\ At(t, "start")
  /\ active_input' = caller[t].on
  /\ \E at \in {"clear", "open"} : Goto(t, at)
  /\ UNCHANGED <<streamvars, lockvars, in_device>>

StartClear(t) ==
  /\ At(t, "clear")
  /\ in_device' = {}
  /\ Goto(t, "select")
  /\ UNCHANGED <<streamvars, lockvars, active_input>>

StartSelect(t) ==
  /\ At(t, "select")
  /\ in_device' = in_device \cup {in_source_device[caller[t].on]}
  /\ Goto(t, "open")
  /\ UNCHANGED <<streamvars, lockvars, active_input>>

\* aml_input_open with the bits that are there by now
StartOpen(t) ==
  LET s == caller[t].on IN
  /\ At(t, "open")
  /\ input_handle' = [input_handle EXCEPT ![s] = in_device]
  /\ in_standby' = [in_standby EXCEPT ![s] = FALSE]
  /\ Goto(t, IF caller[t].then = "read" THEN "read" ELSE "unlock")
  /\ UNCHANGED <<in_open, in_source_device, lockvars, devvars>>

\* Mutant: a stream that could not be opened stays the active one
StartFails_active(t) ==
  LET s == caller[t].on IN
  /\ At(t, "open")
  /\ in_standby' = [in_standby EXCEPT ![s] = caller[t].then = "read"]
  /\ Goto(t, "unlock")
  /\ UNCHANGED <<in_open, in_source_device, input_handle, lockvars, devvars>>

\* A read fails with it.  in_set_parameters does not look, and clears standby.
StartFails(t) ==
  LET s == caller[t].on IN
  /\ At(t, "open")
  /\ active_input' = NoInput
  /\ in_standby' = [in_standby EXCEPT ![s] = caller[t].then = "read"]
  /\ Goto(t, "unlock")
  /\ UNCHANGED <<in_open, in_source_device, input_handle, lockvars, in_device>>

-----------------------------------------------------------------------------
\* Data, or a failed pcm_read; the muting of a tuner that is not stable is left out.
\* Without a handle the program ends here.
ReadInput(s) ==
  /\ At(s, "read") /\ input_handle[s] # NoInput
  /\ Goto(s, "unlock")
  /\ UNCHANGED <<streamvars, lockvars, devvars>>

InputNext ==
  \/ \E s \in Inputs :
       \/ \E d \in InDevices : adev_open_input_stream(s, d)
       \/ ReadLock(s) \/ ReadInput(s)
       \/ \E t \in {s, Control}, call \in {"standby", "route", "restart", "close"} :
            CallLock(t, s, call)
  \/ \E t \in Callers :
       \/ StreamLock(t) \/ Unlock(t) \/ StandbyInputClose(t) \/ StandbyDone(t)
       \/ StartActive(t) \/ StartClear(t) \/ StartSelect(t) \/ StartOpen(t) \/ StartFails(t)

InputSpec == InputInit /\ [][InputNext]_invars

-----------------------------------------------------------------------------
(* Properties *)

\* adev->active_input, which others read with no mutex of the stream, is never a
\* stream that was freed, though a read sets it without adev->lock and a standby of
\* another stream clears it meanwhile.
ActiveInputIsOpen == active_input # NoInput => in_open[active_input]

\* A stream that nobody is inside holds an ALSA device only while it runs: whatever
\* fails and whoever restarts it, no device stays open behind a stream in standby or
\* one that was freed.
StandbyHoldsNoDevice ==
  \A s \in Inputs :
    in_lock[s] = NoInput /\ (in_standby[s] \/ ~in_open[s]) => input_handle[s] = NoInput
=============================================================================
