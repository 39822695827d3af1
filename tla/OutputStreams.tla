---------------------------- MODULE OutputStreams ----------------------------
(***************************************************************************)
(* The output streams of the HAL device (audio_hal/audio_hw.c), at the     *)
(* granularity of its mutexes.  Every open stream has one writer thread,   *)
(* which calls out_write_new; controller threads call standby, pause,      *)
(* resume, flush and close on any stream.  They share the device's use     *)
(* case masks, its bypass flag, the ARC notification and three mutexes:    *)
(* adev->lock, adev->alsa_pcm_lock and adev->trans_lock.  out->lock is     *)
(* only ever taken by a thread that already holds adev->lock, so it        *)
(* excludes nothing more and is not a variable.                            *)
(*                                                                         *)
(* Audio data is left out.  What is kept of a write is which of the three  *)
(* write paths it takes, the device and configuration it asks for, and     *)
(* every change of a shared or per-stream control field on the way.  The   *)
(* device runs without MS12, so continuous_audio_mode is 0.                *)
(***************************************************************************)
EXTENDS Naturals, FiniteSets

CONSTANTS
  Streams,        \* output stream objects; a stream names its writer thread
  Controllers,    \* threads that call the control operations
  Usecases,       \* stream_usecase_t
  Usecase,        \* the use case of each stream (attr_to_usecase)
  NORMAL,         \* STREAM_PCM_NORMAL, bit 0 of a mask
  RawStreams,     \* streams whose hal_format is IEC61937
  PatchStreams,   \* streams written by audio_patch_output_threadloop
  Configs,        \* rate and channel configurations of decoded PCM
  DefaultConfig,  \* 48 kHz, 2 channels
  NoConfig, NoThread, NoStream,
  SerialControl,  \* TRUE: a stream is controlled only between its writes
  MayFail,        \* TRUE: opening a device or creating a decoder may fail
  MaxEvents       \* bound on ARC and routing notifications

Threads == Streams \cup Controllers
OutputDevices == {"PCM", "RAW"}
ControlOps == {"standby", "pause", "close"}

ASSUME ThreadsAssumption ==
  /\ Streams \cap Controllers = {}
  /\ NoThread \notin Threads
  /\ NoStream \notin Streams
ASSUME StreamsAssumption ==
  /\ Usecase \in [Streams -> Usecases]
  /\ NORMAL \in Usecases
  /\ RawStreams \subseteq Streams
  /\ PatchStreams \subseteq Streams
ASSUME ConfigsAssumption == DefaultConfig \in Configs /\ NoConfig \notin Configs
ASSUME BoundsAssumption ==
  SerialControl \in BOOLEAN /\ MayFail \in BOOLEAN /\ MaxEvents \in Nat

VARIABLES
  \* struct aml_audio_device
  lock, alsa_pcm_lock, trans_lock,   \* owners, or NoThread
  usecase_masks,                     \* the set of registered use cases
  bypass_enable,
  arc_hdmi_updated,
  rerouted,                          \* streams whose out_device is not adev's
  events,                            \* notifications so far
  \* struct aml_stream_out
  opened,                            \* streams handed to a client
  status, dev_usecase_masks, write, pause_status, aml_dec,
  output_handle,                     \* configuration of each open handle
  leaked,                            \* a handle was replaced without a close
  \* threads
  pc,
  target, op, ret,                   \* the controllers' calls
  request,                           \* what a writer asks of hw_write
  loaded                             \* masks read by an unlocked update

locks == <<lock, alsa_pcm_lock, trans_lock>>
events_vars == <<arc_hdmi_updated, rerouted, events>>
masks_vars == <<usecase_masks, dev_usecase_masks, write>>
hw_vars == <<status, output_handle, leaked>>
control_vars == <<opened, target, op, ret>>
vars == <<lock, alsa_pcm_lock, trans_lock, usecase_masks, bypass_enable,
          arc_hdmi_updated, rerouted, events, opened, status,
          dev_usecase_masks, write, pause_status, aml_dec, output_handle,
          leaked, pc, target, op, ret, request, loaded>>

Requests == [device : OutputDevices, config : Configs]
DefaultRequest == [device |-> "PCM", config |-> DefaultConfig]
Closed == [d \in OutputDevices |-> NoConfig]

PCs == {"idle",
        "main_check", "main_decode", "cfg_check", "cfg_close", "cfg_bypass",
        "cfg_decoder", "cfg_mixer", "aux_lock", "aux_alsa", "aux_close",
        "hw_trans", "hw_alsa", "hw_format", "hw_open", "hw_io", "hw_tail",
        "sb_check", "sb_alsa", "sb_close", "sb_masks", "sb_store"}

TypeOK ==
  /\ lock \in Threads \cup {NoThread}
  /\ alsa_pcm_lock \in Threads \cup {NoThread}
  /\ trans_lock \in Threads \cup {NoThread}
  /\ usecase_masks \in SUBSET Usecases
  /\ bypass_enable \in BOOLEAN
  /\ arc_hdmi_updated \in BOOLEAN
  /\ rerouted \in SUBSET Streams
  /\ events \in Nat
  /\ opened \in SUBSET Streams
  /\ status \in [Streams -> {"STANDBY", "HW_WRITING", "MIXING"}]
  /\ dev_usecase_masks \in [Streams -> SUBSET Usecases]
  /\ write \in [Streams -> {"NULL", "process", "main", "aux"}]
  /\ pause_status \in [Streams -> BOOLEAN]
  /\ aml_dec \in [Streams -> BOOLEAN]
  /\ output_handle \in [Streams -> [OutputDevices -> Configs \cup {NoConfig}]]
  /\ leaked \in BOOLEAN
  /\ pc \in [Threads -> PCs]
  /\ target \in [Controllers -> Streams \cup {NoStream}]
  /\ op \in [Controllers -> ControlOps]
  /\ ret \in [Controllers -> {"OK", "INVALID_STATE"}]
  /\ request \in [Streams -> Requests]
  /\ loaded \in SUBSET Usecases

Init ==
  /\ lock = NoThread /\ alsa_pcm_lock = NoThread /\ trans_lock = NoThread
  /\ usecase_masks = {}
  /\ bypass_enable = FALSE
  /\ arc_hdmi_updated = FALSE
  /\ rerouted = {}
  /\ events = 0
  /\ opened = {}
  /\ status = [s \in Streams |-> "STANDBY"]
  /\ dev_usecase_masks = [s \in Streams |-> {}]
  /\ write = [s \in Streams |-> "NULL"]
  /\ pause_status = [s \in Streams |-> FALSE]
  /\ aml_dec = [s \in Streams |-> FALSE]
  /\ output_handle = [s \in Streams |-> Closed]
  /\ leaked = FALSE
  /\ pc = [t \in Threads |-> "idle"]
  /\ target = [c \in Controllers |-> NoStream]
  /\ op = [c \in Controllers |-> "standby"]
  /\ ret = [c \in Controllers |-> "OK"]
  /\ request = [s \in Streams |-> DefaultRequest]
  /\ loaded = {}

-----------------------------------------------------------------------------
(* Helpers *)

Goto(t, label) == pc' = [pc EXCEPT ![t] = label]

\* usecase_masks > 1: some use case besides PCM_NORMAL is registered
need_hw_mix(masks) == masks \ {NORMAL} # {}

\* The choice of write function in usecase_change_validate_l
ChosenWrite(s, masks) ==
  IF ~need_hw_mix(masks) THEN "process"
  ELSE IF Usecase[s] = NORMAL THEN "aux" ELSE "main"

\* The stream a thread works on
StreamOf(t) == IF t \in Streams THEN t ELSE target[t]

\* No controller is working on s
Uncontrolled(s) == \A c \in Controllers : target[c] # s

\* Mutant: the whole slot is overwritten
CloseHandles_whole(s) == output_handle' = [output_handle EXCEPT ![s] = NoConfig]
\* Mutant: the loop over the devices starts at 1
CloseHandles_but_first(s) ==
  output_handle' = [output_handle EXCEPT ![s]["RAW"] = NoConfig]

\* aml_output_close: every open handle of the stream is closed and cleared
CloseHandles(s) == output_handle' = [output_handle EXCEPT ![s] = Closed]

-----------------------------------------------------------------------------
(* Opening a stream, and the notifications that ask for a reconfiguration *)

\* adev_open_output_stream_new; the requested device may differ from adev's
OpenStream(s) ==
  /\ s \notin opened
  /\ pc[s] = "idle" /\ Uncontrolled(s)
  /\ opened' = opened \cup {s}
  /\ status' = [status EXCEPT ![s] = "STANDBY"]
  /\ dev_usecase_masks' = [dev_usecase_masks EXCEPT ![s] = {}]
  /\ write' = [write EXCEPT ![s] = "NULL"]
  /\ pause_status' = [pause_status EXCEPT ![s] = FALSE]
  /\ aml_dec' = [aml_dec EXCEPT ![s] = FALSE]
  /\ output_handle' = [output_handle EXCEPT ![s] = Closed]
  /\ rerouted' \in {rerouted, rerouted \cup {s}}
  /\ UNCHANGED <<locks, usecase_masks, bypass_enable, arc_hdmi_updated,
                 events, leaked, pc, target, op, ret, request, loaded>>

\* set_arc_format and the "HDMI ARC Switch" parameter
ArcUpdated ==
  /\ events < MaxEvents
  /\ events' = events + 1
  /\ arc_hdmi_updated' = TRUE
  /\ UNCHANGED <<locks, masks_vars, bypass_enable, rerouted, control_vars,
                 hw_vars, pause_status, aml_dec, pc, request, loaded>>

\* adev_create_audio_patch moves adev->out_device to another sink
RouteChanged ==
  /\ events < MaxEvents
  /\ events' = events + 1
  /\ rerouted' = opened
  /\ UNCHANGED <<locks, masks_vars, bypass_enable, arc_hdmi_updated,
                 control_vars, hw_vars, pause_status, aml_dec, pc, request,
                 loaded>>

-----------------------------------------------------------------------------
(* out_write_new: validate and choose under adev->lock, write after it *)

\* Mutant: a stream that is active is never validated again
MasksUnchanged_active(s) == dev_usecase_masks[s] # {}

\* The branch of usecase_change_validate_l that changes nothing
MasksUnchanged(s) ==
  dev_usecase_masks[s] = usecase_masks /\ usecase_masks # {}

\* Mutant: the use case is assigned instead of added
usecase_change_validate_l_assign(s) ==
  /\ Cardinality(usecase_masks) <= 2
  /\ dev_usecase_masks[s] = {} => Usecase[s] \notin usecase_masks
  /\ usecase_masks' = IF dev_usecase_masks[s] = {}
                      THEN {Usecase[s]}
                      ELSE usecase_masks
  /\ dev_usecase_masks' = [dev_usecase_masks EXCEPT ![s] = usecase_masks']
  /\ write' = [write EXCEPT ![s] = ChosenWrite(s, usecase_masks')]
\* Mutant: a write function once chosen is kept
usecase_change_validate_l_keep(s) ==
  /\ Cardinality(usecase_masks) <= 2
  /\ dev_usecase_masks[s] = {} => Usecase[s] \notin usecase_masks
  /\ usecase_masks' = IF dev_usecase_masks[s] = {}
                      THEN usecase_masks \cup {Usecase[s]}
                      ELSE usecase_masks
  /\ dev_usecase_masks' = [dev_usecase_masks EXCEPT ![s] = usecase_masks']
  /\ write' = [write EXCEPT ![s] =
                 IF @ = "NULL" THEN ChosenWrite(s, usecase_masks') ELSE @]

\* usecase_change_validate_l(s, false).  Both -EINVAL returns change nothing:
\* a refused write is a stuttering step.
usecase_change_validate_l(s) ==
  /\ Cardinality(usecase_masks) <= 2
  /\ dev_usecase_masks[s] = {} => Usecase[s] \notin usecase_masks
  /\ usecase_masks' = IF dev_usecase_masks[s] = {}
                      THEN usecase_masks \cup {Usecase[s]}
                      ELSE usecase_masks
  /\ dev_usecase_masks' = [dev_usecase_masks EXCEPT ![s] = usecase_masks']
  /\ write' = [write EXCEPT ![s] = ChosenWrite(s, usecase_masks')]

\* process_buffer_write sends the stream's own format straight to hw_write
ProcessRequest(s) ==
  [device |-> IF s \in RawStreams THEN "RAW" ELSE "PCM",
   config |-> DefaultConfig]

\* The write function read under the lock, called after it
EntryPoint == [NULL |-> "idle", process |-> "hw_trans",
               main |-> "main_check", aux |-> "aux_lock"]

out_write_new(s) ==
  /\ s \in opened
  /\ pc[s] = "idle"
  /\ lock = NoThread
  /\ SerialControl => Uncontrolled(s)
  /\ \/ MasksUnchanged(s) /\ UNCHANGED masks_vars
     \/ ~MasksUnchanged(s) /\ usecase_change_validate_l(s)
  /\ Goto(s, EntryPoint[write'[s]])
  /\ request' = [request EXCEPT ![s] = ProcessRequest(s)]
  /\ UNCHANGED <<locks, bypass_enable, events_vars, control_vars, hw_vars,
                 pause_status, aml_dec, loaded>>

-----------------------------------------------------------------------------
(* mixer_main_buffer_write and config_output *)

\* The tests for an ARC update and for a changed output device
MainReconfigure(s) ==
  /\ pc[s] = "main_check"
  /\ arc_hdmi_updated \/ s \in rerouted
  /\ arc_hdmi_updated' = FALSE
  /\ rerouted' = rerouted \ {s}
  /\ Goto(s, "cfg_check")
  /\ UNCHANGED <<locks, masks_vars, bypass_enable, events, control_vars,
                 hw_vars, pause_status, aml_dec, request, loaded>>

MainGoOn(s) ==
  /\ pc[s] = "main_check"
  /\ ~arc_hdmi_updated /\ s \notin rerouted
  /\ Goto(s, "main_decode")
  /\ UNCHANGED <<locks, masks_vars, bypass_enable, events_vars, control_vars,
                 hw_vars, pause_status, aml_dec, request, loaded>>

\* An IEC61937 stream under bypass goes to hw_write undecoded
MainBypass(s) ==
  /\ pc[s] = "main_decode"
  /\ bypass_enable /\ s \in RawStreams
  /\ request' = [request EXCEPT ![s] =
                   [device |-> "RAW", config |-> DefaultConfig]]
  /\ Goto(s, "hw_trans")
  /\ UNCHANGED <<locks, masks_vars, bypass_enable, events_vars, control_vars,
                 hw_vars, pause_status, aml_dec, loaded>>

\* Without a decoder config_output is called and the write returns -1
MainNoDecoder(s) ==
  /\ pc[s] = "main_decode"
  /\ ~(bypass_enable /\ s \in RawStreams)
  /\ ~aml_dec[s]
  /\ Goto(s, "cfg_check")
  /\ UNCHANGED <<locks, masks_vars, bypass_enable, events_vars, control_vars,
                 hw_vars, pause_status, aml_dec, request, loaded>>

\* The decoder gives PCM in some configuration, which goes to hw_write, or
\* it fails or gives nothing and the write returns
MainDecode(s) ==
  /\ pc[s] = "main_decode"
  /\ ~(bypass_enable /\ s \in RawStreams)
  /\ aml_dec[s]
  /\ \/ \E c \in Configs :
          /\ request' = [request EXCEPT ![s] = [device |-> "PCM", config |-> c]]
          /\ Goto(s, "hw_trans")
     \/ Goto(s, "idle") /\ UNCHANGED request
  /\ UNCHANGED <<locks, masks_vars, bypass_enable, events_vars, control_vars,
                 hw_vars, pause_status, aml_dec, loaded>>

\* config_output tests the status and closes the output with no lock held
ConfigCheck(s) ==
  /\ pc[s] = "cfg_check"
  /\ Goto(s, IF status[s] = "HW_WRITING" THEN "cfg_close" ELSE "cfg_bypass")
  /\ UNCHANGED <<locks, masks_vars, bypass_enable, events_vars, control_vars,
                 hw_vars, pause_status, aml_dec, request, loaded>>

ConfigClose(s) ==
  /\ pc[s] = "cfg_close"
  /\ CloseHandles(s)
  /\ status' = [status EXCEPT ![s] = "STANDBY"]
  /\ Goto(s, "cfg_bypass")
  /\ UNCHANGED <<locks, masks_vars, bypass_enable, events_vars, control_vars,
                 leaked, pause_status, aml_dec, request, loaded>>

\* The table that decides bypass_enable leaves it 0 for a stream that is not
\* IEC61937.  Nothing guards the flag until it is tested.
ConfigBypass(s) ==
  /\ pc[s] = "cfg_bypass"
  /\ bypass_enable' \in {b \in BOOLEAN : b => s \in RawStreams}
  /\ Goto(s, "cfg_decoder")
  /\ UNCHANGED <<locks, masks_vars, events_vars, control_vars, hw_vars,
                 pause_status, aml_dec, request, loaded>>

\* Without bypass an absent decoder is created (on failure the function returns
\* at once) and a present one is released.
ConfigDecoder(s) ==
  /\ pc[s] = "cfg_decoder"
  /\ \/ bypass_enable /\ UNCHANGED aml_dec /\ Goto(s, "cfg_mixer")
     \/ /\ ~bypass_enable
        /\ aml_dec' = [aml_dec EXCEPT ![s] = ~aml_dec[s]]
        /\ Goto(s, "cfg_mixer")
     \/ /\ ~bypass_enable /\ ~aml_dec[s] /\ MayFail
        /\ Goto(s, "idle") /\ UNCHANGED aml_dec
  /\ UNCHANGED <<locks, masks_vars, bypass_enable, events_vars, control_vars,
                 hw_vars, pause_status, request, loaded>>

\* hw_mixer is initialised or reset under adev->lock, and the write returns
ConfigMixer(s) ==
  /\ pc[s] = "cfg_mixer"
  /\ lock = NoThread
  /\ Goto(s, "idle")
  /\ UNCHANGED <<locks, masks_vars, bypass_enable, events_vars, control_vars,
                 hw_vars, pause_status, aml_dec, request, loaded>>

-----------------------------------------------------------------------------
(* mixer_aux_buffer_write *)

\* Under adev->lock: a stream that must mix gives up the hardware first
AuxLock(s) ==
  /\ pc[s] = "aux_lock"
  /\ lock = NoThread
  /\ IF status[s] = "HW_WRITING" /\ need_hw_mix(usecase_masks)
     THEN lock' = s /\ Goto(s, "aux_alsa") /\ UNCHANGED status
     ELSE /\ status' = [status EXCEPT ![s] =
                          IF @ = "STANDBY" THEN "MIXING" ELSE @]
          /\ Goto(s, "idle")
          /\ UNCHANGED lock
  /\ UNCHANGED <<alsa_pcm_lock, trans_lock, masks_vars, bypass_enable,
                 events_vars, control_vars, output_handle, leaked,
                 pause_status, aml_dec, request, loaded>>

AuxAlsa(s) ==
  /\ pc[s] = "aux_alsa"
  /\ alsa_pcm_lock = NoThread
  /\ alsa_pcm_lock' = s
  /\ Goto(s, "aux_close")
  /\ UNCHANGED <<lock, trans_lock, masks_vars, bypass_enable, events_vars,
                 control_vars, hw_vars, pause_status, aml_dec, request, loaded>>

\* Mutant: the status is left alone
AuxClose_keep(s) ==
  /\ pc[s] = "aux_close"
  /\ CloseHandles(s)
  /\ alsa_pcm_lock' = NoThread
  /\ lock' = NoThread
  /\ Goto(s, "idle")
  /\ UNCHANGED <<trans_lock, masks_vars, bypass_enable, events_vars,
                 control_vars, status, leaked, pause_status, aml_dec, request,
                 loaded>>

AuxClose(s) ==
  /\ pc[s] = "aux_close"
  /\ CloseHandles(s)
  /\ status' = [status EXCEPT ![s] = "MIXING"]
  /\ alsa_pcm_lock' = NoThread
  /\ lock' = NoThread
  /\ Goto(s, "idle")
  /\ UNCHANGED <<trans_lock, masks_vars, bypass_enable, events_vars,
                 control_vars, leaked, pause_status, aml_dec, request, loaded>>

-----------------------------------------------------------------------------
(* hw_write: trans_lock, then alsa_pcm_lock *)

HwTrans(s) ==
  /\ pc[s] = "hw_trans"
  /\ trans_lock = NoThread
  /\ trans_lock' = s
  /\ Goto(s, "hw_alsa")
  /\ UNCHANGED <<lock, alsa_pcm_lock, masks_vars, bypass_enable, events_vars,
                 control_vars, hw_vars, pause_status, aml_dec, request, loaded>>

HwAlsa(s) ==
  /\ pc[s] = "hw_alsa"
  /\ alsa_pcm_lock = NoThread
  /\ alsa_pcm_lock' = s
  /\ Goto(s, "hw_format")
  /\ UNCHANGED <<lock, trans_lock, masks_vars, bypass_enable, events_vars,
                 control_vars, hw_vars, pause_status, aml_dec, request, loaded>>

\* aml_output_getinfo knows only the PCM handle's configuration
FormatChanged(s) ==
  /\ output_handle[s]["PCM"] # NoConfig
  /\ output_handle[s]["PCM"] # request[s].config

\* Mutant: the status is left alone
HwFormat_keep(s) ==
  /\ pc[s] = "hw_format"
  /\ IF status[s] = "HW_WRITING" /\ FormatChanged(s)
     THEN CloseHandles(s) /\ UNCHANGED status
     ELSE UNCHANGED <<output_handle, status>>
  /\ Goto(s, IF status'[s] = "HW_WRITING" THEN "hw_io" ELSE "hw_open")
  /\ UNCHANGED <<locks, masks_vars, bypass_enable, events_vars, control_vars,
                 leaked, pause_status, aml_dec, request, loaded>>

\* An open output in another configuration is closed first
HwFormat(s) ==
  /\ pc[s] = "hw_format"
  /\ IF status[s] = "HW_WRITING" /\ FormatChanged(s)
     THEN CloseHandles(s) /\ status' = [status EXCEPT ![s] = "STANDBY"]
     ELSE UNCHANGED <<output_handle, status>>
  /\ Goto(s, IF status'[s] = "HW_WRITING" THEN "hw_io" ELSE "hw_open")
  /\ UNCHANGED <<locks, masks_vars, bypass_enable, events_vars, control_vars,
                 leaked, pause_status, aml_dec, request, loaded>>

\* aml_output_open stores the new handle over whatever the slot holds
HwOpen(s) ==
  /\ pc[s] = "hw_open"
  /\ output_handle' = [output_handle EXCEPT
                         ![s][request[s].device] = request[s].config]
  /\ leaked' = (leaked \/ output_handle[s][request[s].device] # NoConfig)
  /\ status' = [status EXCEPT ![s] = "HW_WRITING"]
  /\ Goto(s, "hw_io")
  /\ UNCHANGED <<locks, masks_vars, bypass_enable, events_vars, control_vars,
                 pause_status, aml_dec, request, loaded>>

\* What a failed aml_output_open leaves in the slot: nothing, or what it held
\* when the new handle could not even be allocated.
SlotAfterFailure(s) ==
  \/ /\ output_handle' = [output_handle EXCEPT ![s][request[s].device] = NoConfig]
     /\ leaked' = (leaked \/ output_handle[s][request[s].device] # NoConfig)
  \/ UNCHANGED <<output_handle, leaked>>

\* Mutant: trans_lock is kept
HwOpenFails_locked(s) ==
  /\ pc[s] = "hw_open"
  /\ MayFail
  /\ SlotAfterFailure(s)
  /\ alsa_pcm_lock' = NoThread
  /\ Goto(s, "idle")
  /\ UNCHANGED <<lock, trans_lock, masks_vars, bypass_enable, events_vars,
                 control_vars, status, pause_status, aml_dec, request, loaded>>

\* A failed open releases both locks and returns -1
HwOpenFails(s) ==
  /\ pc[s] = "hw_open"
  /\ MayFail
  /\ SlotAfterFailure(s)
  /\ alsa_pcm_lock' = NoThread
  /\ trans_lock' = NoThread
  /\ Goto(s, "idle")
  /\ UNCHANGED <<lock, masks_vars, bypass_enable, events_vars, control_vars,
                 status, pause_status, aml_dec, request, loaded>>

\* aml_output_write_pcm or aml_output_write_raw through the handle.  A call
\* through an absent handle is a crash; NoNullHandle names those states.
HwIo(s) ==
  /\ pc[s] = "hw_io"
  /\ alsa_pcm_lock' = NoThread
  /\ Goto(s, "hw_tail")
  /\ UNCHANGED <<lock, trans_lock, masks_vars, bypass_enable, events_vars,
                 control_vars, hw_vars, pause_status, aml_dec, request, loaded>>

\* Mutant: trans_lock is kept
HwTail_locked(s) ==
  /\ pc[s] = "hw_tail"
  /\ Goto(s, "idle")
  /\ UNCHANGED <<locks, masks_vars, bypass_enable, events_vars,
                 control_vars, hw_vars, pause_status, aml_dec, request, loaded>>

\* Position accounting, still under trans_lock
HwTail(s) ==
  /\ pc[s] = "hw_tail"
  /\ trans_lock' = NoThread
  /\ Goto(s, "idle")
  /\ UNCHANGED <<lock, alsa_pcm_lock, masks_vars, bypass_enable, events_vars,
                 control_vars, hw_vars, pause_status, aml_dec, request, loaded>>

-----------------------------------------------------------------------------
(* The control operations *)

\* out_standby_new, out_pause_new and adev_close_output_stream_new take
\* adev->lock.  A client closes a stream it no longer writes to.
ControlStart(c, s) ==
  /\ pc[c] = "idle" /\ target[c] = NoStream
  /\ s \in opened
  /\ lock = NoThread
  /\ SerialControl => pc[s] = "idle"
  /\ lock' = c
  /\ target' = [target EXCEPT ![c] = s]
  /\ ret' = [ret EXCEPT ![c] = "OK"]
  /\ \E o \in ControlOps :
       /\ o = "close" => pc[s] = "idle"
       /\ op' = [op EXCEPT ![c] = o]
       /\ opened' = IF o = "close" THEN opened \ {s} ELSE opened
  /\ Goto(c, "sb_check")
  /\ UNCHANGED <<alsa_pcm_lock, trans_lock, masks_vars, bypass_enable,
                 events_vars, hw_vars, pause_status, aml_dec, request, loaded>>

\* The patch output thread calls do_output_standby_l with no lock held when
\* the input clock changed
PatchStandby(s) ==
  /\ s \in PatchStreams \cap opened
  /\ pc[s] = "idle"
  /\ SerialControl => Uncontrolled(s)
  /\ Goto(s, "sb_check")
  /\ UNCHANGED <<locks, masks_vars, bypass_enable, events_vars, control_vars,
                 hw_vars, pause_status, aml_dec, request, loaded>>

\* do_output_standby_l reads the status before it takes alsa_pcm_lock
StandbyCheck(t) ==
  /\ pc[t] = "sb_check"
  /\ Goto(t, IF status[StreamOf(t)] = "HW_WRITING" THEN "sb_alsa"
             ELSE "sb_masks")
  /\ UNCHANGED <<locks, masks_vars, bypass_enable, events_vars, control_vars,
                 hw_vars, pause_status, aml_dec, request, loaded>>

StandbyAlsa(t) ==
  /\ pc[t] = "sb_alsa"
  /\ alsa_pcm_lock = NoThread
  /\ alsa_pcm_lock' = t
  /\ Goto(t, "sb_close")
  /\ UNCHANGED <<lock, trans_lock, masks_vars, bypass_enable, events_vars,
                 control_vars, hw_vars, pause_status, aml_dec, request, loaded>>

StandbyClose(t) ==
  /\ pc[t] = "sb_close"
  /\ CloseHandles(StreamOf(t))
  /\ alsa_pcm_lock' = NoThread
  /\ Goto(t, "sb_masks")
  /\ UNCHANGED <<lock, trans_lock, masks_vars, bypass_enable, events_vars,
                 control_vars, status, leaked, pause_status, aml_dec, request,
                 loaded>>

\* Mutant: the device's bit is kept
ClearUsecase_phantom(s) ==
  /\ dev_usecase_masks' = [dev_usecase_masks EXCEPT ![s] = {}]
  /\ write' = [write EXCEPT ![s] = "NULL"]
  /\ UNCHANGED usecase_masks
\* Mutant: the stream's masks are kept
ClearUsecase_stale(s) ==
  /\ usecase_masks' = usecase_masks \ {Usecase[s]}
  /\ write' = [write EXCEPT ![s] = "NULL"]
  /\ UNCHANGED dev_usecase_masks

\* usecase_change_validate_l(s, true)
ClearUsecase(s) ==
  /\ usecase_masks' = usecase_masks \ {Usecase[s]}
  /\ dev_usecase_masks' = [dev_usecase_masks EXCEPT ![s] = {}]
  /\ write' = [write EXCEPT ![s] = "NULL"]

\* The end of do_output_standby_l, under adev->lock; pause then sets
\* pause_status, close frees the stream
StandbyFinish(c) ==
  /\ c \in Controllers
  /\ pc[c] = "sb_masks"
  /\ LET s == target[c] IN
       /\ ClearUsecase(s)
       /\ status' = [status EXCEPT ![s] = "STANDBY"]
       /\ pause_status' = [pause_status EXCEPT ![s] = (op[c] = "pause")]
       /\ aml_dec' = [aml_dec EXCEPT ![s] = @ /\ op[c] # "close"]
  /\ lock' = NoThread
  /\ target' = [target EXCEPT ![c] = NoStream]
  /\ op' = [op EXCEPT ![c] = "standby"]
  /\ Goto(c, "idle")
  /\ UNCHANGED <<alsa_pcm_lock, trans_lock, bypass_enable, events_vars, opened,
                 output_handle, leaked, ret, request, loaded>>

\* The same without the lock: masks are read in one step, written in another
PatchLoadMasks(s) ==
  /\ s \in PatchStreams
  /\ pc[s] = "sb_masks"
  /\ dev_usecase_masks' = [dev_usecase_masks EXCEPT ![s] = {}]
  /\ write' = [write EXCEPT ![s] = "NULL"]
  /\ loaded' = usecase_masks
  /\ Goto(s, "sb_store")
  /\ UNCHANGED <<locks, usecase_masks, bypass_enable, events_vars,
                 control_vars, hw_vars, pause_status, aml_dec, request>>

PatchStoreMasks(s) ==
  /\ s \in PatchStreams
  /\ pc[s] = "sb_store"
  /\ usecase_masks' = loaded \ {Usecase[s]}
  /\ loaded' = {}
  /\ status' = [status EXCEPT ![s] = "STANDBY"]
  /\ pause_status' = [pause_status EXCEPT ![s] = FALSE]
  /\ Goto(s, "idle")
  /\ UNCHANGED <<locks, dev_usecase_masks, write, bypass_enable, events_vars,
                 control_vars, output_handle, leaked, aml_dec, request>>

\* out_resume_new: `standby` is set when the stream is opened and nothing on
\* this write path clears it, so the first test always refuses
out_resume_new(c, s) ==
  /\ pc[c] = "idle" /\ target[c] = NoStream
  /\ s \in opened
  /\ lock = NoThread
  /\ SerialControl => pc[s] = "idle"
  /\ ret' = [ret EXCEPT ![c] = "INVALID_STATE"]
  /\ UNCHANGED <<locks, masks_vars, bypass_enable, events_vars, opened, target,
                 op, hw_vars, pause_status, aml_dec, pc, request, loaded>>

\* out_flush_new takes no lock
out_flush_new(c, s) ==
  /\ pc[c] = "idle" /\ target[c] = NoStream
  /\ s \in opened
  /\ SerialControl => pc[s] = "idle"
  /\ pause_status' = [pause_status EXCEPT ![s] = FALSE]
  /\ UNCHANGED <<locks, masks_vars, bypass_enable, events_vars, control_vars,
                 hw_vars, aml_dec, pc, request, loaded>>

-----------------------------------------------------------------------------
MainStep(s) ==
  \/ MainReconfigure(s) \/ MainGoOn(s) \/ MainBypass(s) \/ MainNoDecoder(s)
  \/ MainDecode(s) \/ ConfigCheck(s) \/ ConfigClose(s) \/ ConfigBypass(s)
  \/ ConfigDecoder(s) \/ ConfigMixer(s)
AuxStep(s) == AuxLock(s) \/ AuxAlsa(s) \/ AuxClose(s)
HwStep(s) ==
  \/ HwTrans(s) \/ HwAlsa(s) \/ HwFormat(s) \/ HwOpen(s) \/ HwOpenFails(s)
  \/ HwIo(s) \/ HwTail(s)
StandbyStep(t) == StandbyCheck(t) \/ StandbyAlsa(t) \/ StandbyClose(t)
PatchStep(s) == PatchStandby(s) \/ PatchLoadMasks(s) \/ PatchStoreMasks(s)
ControlStep(c, s) ==
  ControlStart(c, s) \/ out_resume_new(c, s) \/ out_flush_new(c, s)

Next ==
  \/ \E s \in Streams :
       \/ OpenStream(s) \/ out_write_new(s) \/ MainStep(s) \/ AuxStep(s)
       \/ HwStep(s)
  \/ \E s \in PatchStreams : PatchStep(s)
  \/ \E t \in Threads : StandbyStep(t)
  \/ \E c \in Controllers : StandbyFinish(c)
  \/ \E c \in Controllers, s \in Streams : ControlStep(c, s)
  \/ ArcUpdated \/ RouteChanged

Spec == Init /\ [][Next]_vars

\* The scheduler runs every thread that can run, a mutex passes to a waiting
\* thread in the end, and clients keep writing.  Control calls, notifications
\* and openings are never owed.
WriterStep(s) ==
  \/ out_write_new(s) \/ MainStep(s) \/ AuxStep(s) \/ HwStep(s)
  \/ StandbyStep(s) \/ PatchLoadMasks(s) \/ PatchStoreMasks(s)
Fairness ==
  /\ \A s \in Streams : SF_vars(WriterStep(s))
  /\ \A c \in Controllers : SF_vars(StandbyStep(c) \/ StandbyFinish(c))

FairSpec == Spec /\ Fairness

-----------------------------------------------------------------------------
(* Properties *)

\* Every stream that believes it is active has its use case registered with
\* the device (standby clears both, a write sets both).
ActiveIsRegistered ==
  \A s \in Streams : dev_usecase_masks[s] # {} => Usecase[s] \in usecase_masks

\* No use case stays registered without an active stream that owns it: such
\* a bit would refuse the use case to every later stream.
NoPhantomUsecase ==
  \A u \in usecase_masks :
    \E s \in Streams : Usecase[s] = u /\ dev_usecase_masks[s] # {}

\* A closed stream is inactive once its close has finished: nothing of it
\* stays in the registry when its object is freed.
ClosedIsInactive ==
  \A s \in Streams \ opened :
    dev_usecase_masks[s] = {} \/ \E c \in Controllers : target[c] = s

\* Streams in use cases of their own (attr_to_usecase gives two streams of one
\* kind the same use case)
DistinctUsecases ==
  \A r, s \in Streams : Usecase[r] = Usecase[s] => r = s

\* The write function of an active stream is the one that suits the masks it
\* last saw, so a stream whose masks are current never takes a stale path.
WriteSuitsMasks ==
  \A s \in Streams :
    dev_usecase_masks[s] # {} => write[s] = ChosenWrite(s, dev_usecase_masks[s])

\* Each mutex is held by exactly the thread inside a section it guards: no
\* return path keeps one or releases another thread's, and two threads are
\* never inside sections of the same mutex.
AdevSection(t) ==
  \/ pc[t] \in {"aux_alsa", "aux_close"}
  \/ t \in Controllers /\ pc[t] \in {"sb_check", "sb_alsa", "sb_close", "sb_masks"}
AlsaSection(t) ==
  pc[t] \in {"aux_close", "hw_format", "hw_open", "hw_io", "sb_close"}
TransSection(t) ==
  pc[t] \in {"hw_alsa", "hw_format", "hw_open", "hw_io", "hw_tail"}
LockDiscipline ==
  \A t \in Threads :
    /\ (lock = t) <=> AdevSection(t)
    /\ (alsa_pcm_lock = t) <=> AlsaSection(t)
    /\ (trans_lock = t) <=> TransSection(t)

\* hw_write never writes through an absent output handle.
NoNullHandle ==
  \A s \in Streams :
    pc[s] = "hw_io" => output_handle[s][request[s].device] # NoConfig

\* aml_output_open never replaces a handle that is still open.
NoLeakedHandle == ~leaked

\* Between calls a stream has an open output exactly when its status says it
\* writes to the hardware, and then it is active.
StatusTellsOutput ==
  \A s \in Streams :
    pc[s] = "idle" /\ Uncontrolled(s) =>
      /\ (status[s] = "HW_WRITING") <=> (output_handle[s] # Closed)
      /\ status[s] # "STANDBY" => dev_usecase_masks[s] # {}

\* Every call returns: no thread is left waiting for a mutex for ever.
CallsReturn == \A t \in Threads : (pc[t] # "idle") ~> (pc[t] = "idle")

\* Once a second use case is active, a PCM_NORMAL stream that owns the
\* hardware hands it over and goes on through the mixer, or the mix ends.
NormalHandsOver ==
  \A s \in Streams :
    (Usecase[s] = NORMAL /\ status[s] = "HW_WRITING"
       /\ need_hw_mix(usecase_masks))
      ~> (status[s] # "HW_WRITING" \/ ~need_hw_mix(usecase_masks)
          \/ s \notin opened)
=============================================================================
