------------------------- MODULE OutputStreamsProofs -------------------------
(***************************************************************************)
(* Proofs about OutputStreams for any number of streams and controllers:   *)
(* type correctness, the agreement of the device's use case masks with the *)
(* streams' own, the mutexes, and the output handles against the status    *)
(* of their stream.                                                        *)
(***************************************************************************)
EXTENDS OutputStreams, TLAPS

USE DEF Threads, PCs, Goto, locks, events_vars, masks_vars, hw_vars,
        control_vars

-----------------------------------------------------------------------------
(* Type correctness *)

LEMMA InitTypeOK == Init => TypeOK
<1> SUFFICES ASSUME Init PROVE TypeOK
  OBVIOUS
<1>1. output_handle \in [Streams -> [OutputDevices -> Configs \cup {NoConfig}]]
  BY DEF Init, Closed
<1>2. request \in [Streams -> Requests]
  BY ConfigsAssumption DEF Init, Requests, DefaultRequest, OutputDevices
<1>3. pc \in [Threads -> PCs]
  BY DEF Init
<1>4. op \in [Controllers -> ControlOps]
  BY DEF Init, ControlOps
<1> QED
  BY <1>1, <1>2, <1>3, <1>4 DEF Init, TypeOK

\* aml_output_close leaves every slot a configuration or empty
LEMMA CloseHandlesType ==
  ASSUME TypeOK, NEW s \in Streams, CloseHandles(s)
  PROVE  output_handle' \in [Streams -> [OutputDevices -> Configs \cup {NoConfig}]]
BY DEF TypeOK, CloseHandles, Closed

\* A validated write keeps the masks and the write functions typed
LEMMA ValidateType ==
  ASSUME TypeOK, NEW s \in Streams, usecase_change_validate_l(s)
  PROVE  /\ usecase_masks' \in SUBSET Usecases
         /\ dev_usecase_masks' \in [Streams -> SUBSET Usecases]
         /\ write' \in [Streams -> {"NULL", "process", "main", "aux"}]
<1>1. usecase_masks' \in SUBSET Usecases
  <2>1. Usecase[s] \in Usecases
    BY StreamsAssumption
  <2> QED
    BY <2>1 DEF TypeOK, usecase_change_validate_l
<1>2. dev_usecase_masks' \in [Streams -> SUBSET Usecases]
  BY <1>1 DEF TypeOK, usecase_change_validate_l
<1>3. write' \in [Streams -> {"NULL", "process", "main", "aux"}]
  BY DEF TypeOK, usecase_change_validate_l, ChosenWrite
<1> QED
  BY <1>1, <1>2, <1>3

LEMMA WriteTypeOK == ASSUME TypeOK, NEW s \in Streams, out_write_new(s) PROVE TypeOK'
<1>1. request' \in [Streams -> Requests]
  <2>1. ProcessRequest(s) \in Requests
    BY ConfigsAssumption DEF ProcessRequest, Requests, OutputDevices
  <2> QED
    BY <2>1 DEF TypeOK, out_write_new
<1>2. /\ usecase_masks' \in SUBSET Usecases
      /\ dev_usecase_masks' \in [Streams -> SUBSET Usecases]
      /\ write' \in [Streams -> {"NULL", "process", "main", "aux"}]
  BY ValidateType DEF TypeOK, out_write_new
<1>3. pc' \in [Threads -> PCs]
  <2>1. EntryPoint \in [{"NULL", "process", "main", "aux"} -> PCs]
    BY DEF EntryPoint
  <2> QED
    BY <1>2, <2>1 DEF TypeOK, out_write_new
<1> QED
  BY <1>1, <1>2, <1>3 DEF TypeOK, out_write_new

LEMMA MainTypeOK == ASSUME TypeOK, NEW s \in Streams, MainStep(s) PROVE TypeOK'
<1>1. CASE MainReconfigure(s)
  BY <1>1 DEF TypeOK, MainReconfigure
<1>2. CASE MainGoOn(s)
  BY <1>2 DEF TypeOK, MainGoOn
<1>3. CASE MainBypass(s)
  <2>1. request' \in [Streams -> Requests]
    BY <1>3, ConfigsAssumption DEF TypeOK, MainBypass, Requests, OutputDevices
  <2> QED
    BY <1>3, <2>1 DEF TypeOK, MainBypass
<1>4. CASE MainNoDecoder(s)
  BY <1>4 DEF TypeOK, MainNoDecoder
<1>5. CASE MainDecode(s)
  <2>1. /\ request' \in [Streams -> Requests]
        /\ pc' \in [Threads -> PCs]
    <3>1. CASE Goto(s, "idle") /\ UNCHANGED request
      BY <3>1 DEF TypeOK
    <3>2. ASSUME NEW c \in Configs,
                 request' = [request EXCEPT ![s] =
                               [device |-> "PCM", config |-> c]],
                 Goto(s, "hw_trans")
          PROVE  /\ request' \in [Streams -> Requests]
                 /\ pc' \in [Threads -> PCs]
      BY <3>2 DEF TypeOK, Requests, OutputDevices
    <3> QED
      BY <1>5, <3>1, <3>2 DEF MainDecode
  <2> QED
    BY <1>5, <2>1 DEF TypeOK, MainDecode
<1>6. CASE ConfigCheck(s)
  BY <1>6 DEF TypeOK, ConfigCheck
<1>7. CASE ConfigClose(s)
  BY <1>7, CloseHandlesType DEF TypeOK, ConfigClose
<1>8. CASE ConfigDecoder(s)
  <2>1. Goto(s, "cfg_mixer") \/ Goto(s, "idle")
    BY <1>8 DEF ConfigDecoder
  <2>2. pc' \in [Threads -> PCs]
    BY <2>1 DEF TypeOK
  <2>3. aml_dec' \in [Streams -> BOOLEAN]
    BY <1>8 DEF TypeOK, ConfigDecoder
  <2>4. UNCHANGED <<locks, masks_vars, bypass_enable, events_vars, control_vars, hw_vars,
                    pause_status, request, loaded>>
    BY <1>8 DEF ConfigDecoder
  <2> QED
    BY <2>2, <2>3, <2>4 DEF TypeOK
<1>b. CASE ConfigBypass(s)
  BY <1>b DEF TypeOK, ConfigBypass
<1>9. CASE ConfigMixer(s)
  BY <1>9 DEF TypeOK, ConfigMixer
<1> QED
  BY <1>1, <1>2, <1>3, <1>4, <1>5, <1>6, <1>7, <1>8, <1>b, <1>9 DEF MainStep

LEMMA AuxTypeOK == ASSUME TypeOK, NEW s \in Streams, AuxStep(s) PROVE TypeOK'
<1>1. CASE AuxLock(s)
  <2>1. Goto(s, "aux_alsa") \/ Goto(s, "idle")
    BY <1>1 DEF AuxLock
  <2>2. pc' \in [Threads -> PCs]
    BY <2>1 DEF TypeOK
  <2>3. lock' \in Threads \cup {NoThread}
    BY <1>1 DEF TypeOK, AuxLock
  <2>4. \/ status' = status
        \/ /\ status' = [status EXCEPT ![s] = status'[s]]
           /\ status'[s] \in {"STANDBY", "HW_WRITING", "MIXING"}
    BY <1>1 DEF TypeOK, AuxLock
  <2>5. status' \in [Streams -> {"STANDBY", "HW_WRITING", "MIXING"}]
    BY <2>4 DEF TypeOK
  <2>6. UNCHANGED <<alsa_pcm_lock, trans_lock, masks_vars, bypass_enable, events_vars,
                    control_vars, output_handle, leaked, pause_status, aml_dec, request, loaded>>
    BY <1>1 DEF AuxLock
  <2> QED
    BY <2>2, <2>3, <2>5, <2>6 DEF TypeOK
<1>2. CASE AuxAlsa(s)
  BY <1>2 DEF TypeOK, AuxAlsa
<1>3. CASE AuxClose(s)
  BY <1>3, CloseHandlesType DEF TypeOK, AuxClose
<1> QED
  BY <1>1, <1>2, <1>3 DEF AuxStep

LEMMA HwTypeOK == ASSUME TypeOK, NEW s \in Streams, HwStep(s) PROVE TypeOK'
<1>1. CASE HwTrans(s)
  BY <1>1 DEF TypeOK, HwTrans
<1>2. CASE HwAlsa(s)
  BY <1>2 DEF TypeOK, HwAlsa
<1>3. CASE HwFormat(s)
  <2>1. output_handle' \in [Streams -> [OutputDevices -> Configs \cup {NoConfig}]]
    BY <1>3, CloseHandlesType DEF TypeOK, HwFormat
  <2>2. /\ status' \in [Streams -> {"STANDBY", "HW_WRITING", "MIXING"}]
        /\ pc' \in [Threads -> PCs]
    BY <1>3 DEF TypeOK, HwFormat
  <2> QED
    BY <1>3, <2>1, <2>2 DEF TypeOK, HwFormat
<1>4. CASE HwOpen(s)
  <2>1. output_handle' \in [Streams -> [OutputDevices -> Configs \cup {NoConfig}]]
    BY <1>4 DEF TypeOK, HwOpen, Requests
  <2> QED
    BY <1>4, <2>1 DEF TypeOK, HwOpen
<1>5. CASE HwOpenFails(s)
  <2>1. output_handle' \in [Streams -> [OutputDevices -> Configs \cup {NoConfig}]]
    <3>1. CASE UNCHANGED output_handle
      BY <3>1 DEF TypeOK
    <3>2. CASE output_handle' = [output_handle EXCEPT ![s][request[s].device] = NoConfig]
      BY <3>2 DEF TypeOK, Requests
    <3> QED
      BY <1>5, <3>1, <3>2 DEF HwOpenFails, SlotAfterFailure
  <2>2. leaked' \in BOOLEAN
    BY <1>5 DEF TypeOK, HwOpenFails, SlotAfterFailure
  <2> QED
    BY <1>5, <2>1, <2>2 DEF TypeOK, HwOpenFails
<1>6. CASE HwIo(s)
  BY <1>6 DEF TypeOK, HwIo
<1>7. CASE HwTail(s)
  BY <1>7 DEF TypeOK, HwTail
<1> QED
  BY <1>1, <1>2, <1>3, <1>4, <1>5, <1>6, <1>7 DEF HwStep

LEMMA PatchTypeOK == ASSUME TypeOK, NEW s \in Streams, PatchStep(s) PROVE TypeOK'
<1>1. CASE PatchStandby(s)
  BY <1>1 DEF TypeOK, PatchStandby
<1>2. CASE PatchLoadMasks(s)
  BY <1>2 DEF TypeOK, PatchLoadMasks
<1>3. CASE PatchStoreMasks(s)
  BY <1>3 DEF TypeOK, PatchStoreMasks
<1> QED
  BY <1>1, <1>2, <1>3 DEF PatchStep

LEMMA StandbyTypeOK == ASSUME TypeOK, NEW t \in Threads, StandbyStep(t) PROVE TypeOK'
<1>1. CASE StandbyCheck(t)
  BY <1>1 DEF TypeOK, StandbyCheck
<1>2. CASE StandbyAlsa(t)
  BY <1>2 DEF TypeOK, StandbyAlsa
<1>3. CASE StandbyClose(t)
  <2>1. output_handle' \in [Streams -> [OutputDevices -> Configs \cup {NoConfig}]]
    BY <1>3 DEF TypeOK, StandbyClose, CloseHandles, Closed
  <2> QED
    BY <1>3, <2>1 DEF TypeOK, StandbyClose
<1> QED
  BY <1>1, <1>2, <1>3 DEF StandbyStep

LEMMA FinishTypeOK == ASSUME TypeOK, NEW c \in Controllers, StandbyFinish(c) PROVE TypeOK'
<1>1. op' \in [Controllers -> ControlOps]
  BY DEF TypeOK, StandbyFinish, ClearUsecase, ControlOps
<1>2. /\ usecase_masks' \in SUBSET Usecases
      /\ dev_usecase_masks' \in [Streams -> SUBSET Usecases]
      /\ write' \in [Streams -> {"NULL", "process", "main", "aux"}]
      /\ status' \in [Streams -> {"STANDBY", "HW_WRITING", "MIXING"}]
  BY DEF TypeOK, StandbyFinish, ClearUsecase
<1>3. /\ pause_status' \in [Streams -> BOOLEAN]
      /\ aml_dec' \in [Streams -> BOOLEAN]
  BY DEF TypeOK, StandbyFinish, ClearUsecase
<1> QED
  BY <1>1, <1>2, <1>3 DEF TypeOK, StandbyFinish, ClearUsecase

LEMMA ControlTypeOK ==
  ASSUME TypeOK, NEW c \in Controllers, NEW s \in Streams, ControlStep(c, s)
  PROVE  TypeOK'
<1>1. CASE ControlStart(c, s)
  <2>1. /\ op' \in [Controllers -> ControlOps]
        /\ opened' \in SUBSET Streams
    BY <1>1 DEF TypeOK, ControlStart
  <2> QED
    BY <1>1, <2>1 DEF TypeOK, ControlStart
<1>2. CASE out_resume_new(c, s)
  BY <1>2 DEF TypeOK, out_resume_new
<1>3. CASE out_flush_new(c, s)
  BY <1>3 DEF TypeOK, out_flush_new
<1> QED
  BY <1>1, <1>2, <1>3 DEF ControlStep

LEMMA NextTypeOK == TypeOK /\ [Next]_vars => TypeOK'
<1> SUFFICES ASSUME TypeOK, [Next]_vars PROVE TypeOK'
  OBVIOUS
<1>1. ASSUME NEW s \in Streams, OpenStream(s) PROVE TypeOK'
  BY <1>1 DEF TypeOK, OpenStream, Closed
<1>2. CASE ArcUpdated
  BY <1>2 DEF TypeOK, ArcUpdated
<1>3. CASE RouteChanged
  BY <1>3 DEF TypeOK, RouteChanged
<1>4. CASE UNCHANGED vars
  BY <1>4 DEF TypeOK, vars
<1> QED
  BY <1>1, <1>2, <1>3, <1>4, WriteTypeOK, MainTypeOK, AuxTypeOK, HwTypeOK,
     PatchTypeOK, StandbyTypeOK, FinishTypeOK, ControlTypeOK, StreamsAssumption DEF Next

\* Every reachable state of the device has its type, for any number of
\* streams, controllers, use cases and configurations.
THEOREM TypeCorrect == Spec => []TypeOK
BY InitTypeOK, NextTypeOK, PTL DEF Spec

-----------------------------------------------------------------------------
(* The registry: the device's masks against the streams' *)

\* A controller at work has a stream
ControllerHasTarget ==
  \A c \in Controllers : pc[c] # "idle" => target[c] \in Streams

\* The four properties are inductive together with ControllerHasTarget
RegistryInv ==
  /\ ActiveIsRegistered
  /\ NoPhantomUsecase
  /\ WriteSuitsMasks
  /\ ClosedIsInactive
  /\ ControllerHasTarget

\* What every step but a first write, an opening, a close and the end of a
\* standby leaves alone
Frame ==
  /\ UNCHANGED <<masks_vars, opened, target>>
  /\ \A c \in Controllers : pc'[c] # "idle" => pc[c] # "idle"

LEMMA InitRegistry == Init => RegistryInv
BY DEF Init, RegistryInv, ActiveIsRegistered, NoPhantomUsecase,
       WriteSuitsMasks, ClosedIsInactive, ControllerHasTarget

LEMMA FrameRegistry == RegistryInv /\ Frame => RegistryInv'
<1> SUFFICES ASSUME RegistryInv, Frame PROVE RegistryInv'
  OBVIOUS
<1>1. ActiveIsRegistered' /\ NoPhantomUsecase'
  BY DEF RegistryInv, Frame, ActiveIsRegistered, NoPhantomUsecase
<1>2. WriteSuitsMasks'
  BY DEF RegistryInv, Frame, WriteSuitsMasks, ChosenWrite, need_hw_mix
<1>3. ClosedIsInactive' /\ ControllerHasTarget'
  BY DEF RegistryInv, Frame, ClosedIsInactive, ControllerHasTarget
<1> QED
  BY <1>1, <1>2, <1>3 DEF RegistryInv

LEMMA WriterFrame ==
  ASSUME TypeOK, NEW s \in Streams,
         \/ MainStep(s) \/ AuxStep(s) \/ HwStep(s) \/ PatchStandby(s)
  PROVE  Frame
<1>1. CASE MainStep(s)
  <2>1. UNCHANGED <<masks_vars, opened, target>>
    BY <1>1 DEF MainStep, MainReconfigure, MainGoOn, MainBypass, MainNoDecoder,
       MainDecode, ConfigCheck, ConfigClose, ConfigBypass, ConfigDecoder, ConfigMixer
  <2>2. \E label \in PCs : pc' = [pc EXCEPT ![s] = label]
    BY <1>1 DEF MainStep, MainReconfigure, MainGoOn, MainBypass, MainNoDecoder,
       MainDecode, ConfigCheck, ConfigClose, ConfigBypass, ConfigDecoder, ConfigMixer
  <2> QED
    BY <2>1, <2>2, ThreadsAssumption DEF TypeOK, Frame
<1>2. CASE AuxStep(s)
  BY <1>2, ThreadsAssumption DEF TypeOK, Frame, AuxStep, AuxLock, AuxAlsa, AuxClose
<1>3. CASE HwStep(s)
  <2>1. UNCHANGED <<masks_vars, opened, target>>
    BY <1>3 DEF HwStep, HwTrans, HwAlsa, HwFormat, HwOpen, HwOpenFails, HwIo, HwTail
  <2>2. \E label \in PCs : pc' = [pc EXCEPT ![s] = label]
    BY <1>3 DEF HwStep, HwTrans, HwAlsa, HwFormat, HwOpen, HwOpenFails, HwIo, HwTail
  <2> QED
    BY <2>1, <2>2, ThreadsAssumption DEF TypeOK, Frame
<1>4. CASE PatchStandby(s)
  BY <1>4, ThreadsAssumption DEF TypeOK, Frame, PatchStandby
<1> QED
  BY <1>1, <1>2, <1>3, <1>4

LEMMA StandbyFrame == ASSUME TypeOK, NEW t \in Threads, StandbyStep(t) PROVE Frame
BY DEF TypeOK, Frame, StandbyStep, StandbyCheck, StandbyAlsa, StandbyClose

\* A stream that opens was inactive, so its cleared masks change no answer
LEMMA OpenRegistry ==
  ASSUME TypeOK, RegistryInv, NEW s \in Streams, OpenStream(s)
  PROVE  RegistryInv'
<1>1. dev_usecase_masks' = dev_usecase_masks
  BY DEF TypeOK, RegistryInv, ClosedIsInactive, OpenStream, Uncontrolled
<1>2. ActiveIsRegistered' /\ NoPhantomUsecase'
  BY <1>1 DEF RegistryInv, OpenStream, ActiveIsRegistered, NoPhantomUsecase
<1>3. WriteSuitsMasks'
  <2>1. dev_usecase_masks[s] = {}
    BY DEF RegistryInv, ClosedIsInactive, OpenStream, Uncontrolled
  <2> QED
    BY <1>1, <2>1 DEF TypeOK, RegistryInv, OpenStream, WriteSuitsMasks,
       ChosenWrite, need_hw_mix
<1>4. ClosedIsInactive' /\ ControllerHasTarget'
  BY <1>1 DEF RegistryInv, OpenStream, ClosedIsInactive, ControllerHasTarget
<1> QED
  BY <1>2, <1>3, <1>4 DEF RegistryInv

\* A write that is validated registers its use case before it marks itself
LEMMA WriteRegistry ==
  ASSUME TypeOK, RegistryInv, NEW s \in Streams, out_write_new(s)
  PROVE  RegistryInv'
<1>1. CASE UNCHANGED masks_vars
  <2>1. Frame
    BY <1>1, ThreadsAssumption DEF TypeOK, Frame, out_write_new
  <2> QED
    BY <2>1, FrameRegistry
<1>2. CASE usecase_change_validate_l(s)
  <2> DEFINE masks == usecase_masks'
  <2>1. /\ usecase_masks \subseteq masks
        /\ masks \subseteq usecase_masks \cup {Usecase[s]}
        /\ Usecase[s] \in masks
    BY <1>2 DEF RegistryInv, ActiveIsRegistered, usecase_change_validate_l
  <2>2. dev_usecase_masks' = [dev_usecase_masks EXCEPT ![s] = masks]
    BY <1>2 DEF usecase_change_validate_l
  <2>3. write' = [write EXCEPT ![s] = ChosenWrite(s, masks)]
    BY <1>2 DEF usecase_change_validate_l
  <2>4. ActiveIsRegistered'
    BY <2>1, <2>2 DEF TypeOK, RegistryInv, ActiveIsRegistered
  <2>5. NoPhantomUsecase'
    BY <2>1, <2>2 DEF TypeOK, RegistryInv, NoPhantomUsecase
  <2>6. WriteSuitsMasks'
    BY <2>2, <2>3 DEF TypeOK, RegistryInv, WriteSuitsMasks, ChosenWrite, need_hw_mix
  <2>7. ClosedIsInactive'
    BY <2>2 DEF TypeOK, RegistryInv, ClosedIsInactive, out_write_new
  <2>8. ControllerHasTarget'
    <3>1. UNCHANGED target /\ \A c \in Controllers : pc'[c] = pc[c]
      BY ThreadsAssumption DEF TypeOK, out_write_new
    <3> QED
      BY <3>1 DEF RegistryInv, ControllerHasTarget
  <2> QED
    BY <2>4, <2>5, <2>6, <2>7, <2>8 DEF RegistryInv
<1> QED
  BY <1>1, <1>2 DEF out_write_new

\* The end of a standby takes the stream and its use case out together; no
\* other stream has that use case
LEMMA FinishRegistry ==
  ASSUME DistinctUsecases, TypeOK, RegistryInv,
         NEW c \in Controllers, StandbyFinish(c)
  PROVE  RegistryInv'
<1> DEFINE s == target[c]
<1>1. s \in Streams
  BY DEF RegistryInv, ControllerHasTarget, StandbyFinish, ClearUsecase
<1>2. /\ usecase_masks' = usecase_masks \ {Usecase[s]}
      /\ dev_usecase_masks' = [dev_usecase_masks EXCEPT ![s] = {}]
      /\ write' = [write EXCEPT ![s] = "NULL"]
  BY DEF StandbyFinish, ClearUsecase
<1>3. ActiveIsRegistered'
  BY <1>1, <1>2 DEF TypeOK, RegistryInv, ActiveIsRegistered, DistinctUsecases
<1>4. NoPhantomUsecase'
  BY <1>1, <1>2 DEF TypeOK, RegistryInv, NoPhantomUsecase
<1>5. WriteSuitsMasks'
  BY <1>1, <1>2 DEF TypeOK, RegistryInv, WriteSuitsMasks, ChosenWrite, need_hw_mix
<1>6. ClosedIsInactive'
  BY <1>1, <1>2, ThreadsAssumption
     DEF TypeOK, RegistryInv, ClosedIsInactive, StandbyFinish, ClearUsecase
<1>7. ControllerHasTarget'
  BY DEF TypeOK, RegistryInv, ControllerHasTarget, StandbyFinish, ClearUsecase
<1> QED
  BY <1>3, <1>4, <1>5, <1>6, <1>7 DEF RegistryInv

LEMMA ControlRegistry ==
  ASSUME TypeOK, RegistryInv, NEW c \in Controllers, NEW s \in Streams,
         ControlStep(c, s)
  PROVE  RegistryInv'
<1>1. CASE ControlStart(c, s)
  <2>1. UNCHANGED masks_vars
    BY <1>1 DEF ControlStart
  <2>2. /\ target' = [target EXCEPT ![c] = s]
        /\ opened \ {s} \subseteq opened'
        /\ target[c] = NoStream
    BY <1>1 DEF ControlStart
  <2>3. ActiveIsRegistered' /\ NoPhantomUsecase'
    BY <2>1 DEF RegistryInv, ActiveIsRegistered, NoPhantomUsecase
  <2>4. WriteSuitsMasks'
    BY <2>1 DEF RegistryInv, WriteSuitsMasks, ChosenWrite, need_hw_mix
  <2>5. ClosedIsInactive'
    BY <2>1, <2>2, ThreadsAssumption DEF TypeOK, RegistryInv, ClosedIsInactive
  <2>6. ControllerHasTarget'
    BY <1>1, <2>2 DEF TypeOK, RegistryInv, ControllerHasTarget, ControlStart
  <2> QED
    BY <2>3, <2>4, <2>5, <2>6 DEF RegistryInv
<1>2. CASE out_resume_new(c, s)
  BY <1>2, FrameRegistry DEF Frame, out_resume_new
<1>3. CASE out_flush_new(c, s)
  BY <1>3, FrameRegistry DEF Frame, out_flush_new
<1> QED
  BY <1>1, <1>2, <1>3 DEF ControlStep

LEMMA NextRegistry ==
  ASSUME DistinctUsecases, PatchStreams = {}
  PROVE  TypeOK /\ RegistryInv /\ [Next]_vars => RegistryInv'
<1> SUFFICES ASSUME TypeOK, RegistryInv, [Next]_vars PROVE RegistryInv'
  OBVIOUS
<1>1. CASE ArcUpdated \/ RouteChanged \/ UNCHANGED vars
  BY <1>1, FrameRegistry DEF Frame, ArcUpdated, RouteChanged, vars
<1>2. ASSUME NEW s \in Streams,
             OpenStream(s) \/ out_write_new(s) \/ MainStep(s) \/ AuxStep(s)
               \/ HwStep(s) \/ PatchStep(s)
      PROVE  RegistryInv'
  <2>1. ~PatchLoadMasks(s) /\ ~PatchStoreMasks(s)
    BY DEF PatchLoadMasks, PatchStoreMasks
  <2> QED
    BY <1>2, <2>1, OpenRegistry, WriteRegistry, WriterFrame, FrameRegistry
       DEF PatchStep
<1>3. ASSUME NEW t \in Threads, StandbyStep(t) PROVE RegistryInv'
  BY <1>3, StandbyFrame, FrameRegistry
<1> QED
  BY <1>1, <1>2, <1>3, FinishRegistry, ControlRegistry DEF Next

LEMMA RegistryInvariant ==
  ASSUME DistinctUsecases, PatchStreams = {}
  PROVE  Spec => []RegistryInv
BY InitRegistry, NextRegistry, TypeCorrect, PTL DEF Spec

\* However writes, standbys, pauses, closes and reconfigurations of any number
\* of streams interleave, the device's use case masks agree with the streams'
\* own, every active stream has the write function its masks call for, and a
\* closed stream leaves nothing behind: provided no two streams have the same
\* use case and no patch thread runs its unlocked standby.
THEOREM RegistryCorrect ==
  ASSUME DistinctUsecases, PatchStreams = {}
  PROVE  Spec => [](/\ ActiveIsRegistered
                    /\ NoPhantomUsecase
                    /\ WriteSuitsMasks
                    /\ ClosedIsInactive)
<1>1. RegistryInv => /\ ActiveIsRegistered
                     /\ NoPhantomUsecase
                     /\ WriteSuitsMasks
                     /\ ClosedIsInactive
  BY DEF RegistryInv
<1> QED
  BY <1>1, RegistryInvariant, PTL

-----------------------------------------------------------------------------
(* The mutexes *)

LEMMA InitLocks == Init => LockDiscipline
BY ThreadsAssumption DEF Init, LockDiscipline, AdevSection, AlsaSection, TransSection

\* A step that touches no mutex and does not cross the border of a section
LEMMA FrameLocks ==
  ASSUME LockDiscipline, UNCHANGED locks,
         \A t \in Threads : /\ AdevSection(t)' <=> AdevSection(t)
                            /\ AlsaSection(t)' <=> AlsaSection(t)
                            /\ TransSection(t)' <=> TransSection(t)
  PROVE  LockDiscipline'
BY DEF LockDiscipline

LEMMA NextLocks == TypeOK /\ LockDiscipline /\ [Next]_vars => LockDiscipline'
<1> SUFFICES ASSUME TypeOK, LockDiscipline, [Next]_vars PROVE LockDiscipline'
  OBVIOUS
<1> USE ThreadsAssumption
    DEF TypeOK, LockDiscipline, AdevSection, AlsaSection, TransSection
<1>1. CASE ArcUpdated \/ RouteChanged \/ UNCHANGED vars
  BY <1>1 DEF ArcUpdated, RouteChanged, vars
<1>2. ASSUME NEW s \in Streams, OpenStream(s) \/ out_write_new(s)
      PROVE  LockDiscipline'
  <2>1. CASE OpenStream(s)
    BY <2>1 DEF OpenStream
  <2>2. CASE out_write_new(s)
    <3>1. EntryPoint \in [{"NULL", "process", "main", "aux"} ->
                            {"idle", "hw_trans", "main_check", "aux_lock"}]
      BY DEF EntryPoint
    <3>2. write'[s] \in {"NULL", "process", "main", "aux"}
      BY <2>2, WriteTypeOK
    <3>3. EntryPoint[write'[s]] \in {"idle", "hw_trans", "main_check", "aux_lock"}
      BY <3>1, <3>2
    <3> QED
      BY <2>2, <3>3 DEF out_write_new
  <2> QED
    BY <1>2, <2>1, <2>2
<1>3. ASSUME NEW s \in Streams, MainStep(s) PROVE LockDiscipline'
  <2>1. UNCHANGED locks
    BY <1>3 DEF MainStep, MainReconfigure, MainGoOn, MainBypass, MainNoDecoder,
       MainDecode, ConfigCheck, ConfigClose, ConfigBypass, ConfigDecoder, ConfigMixer
  <2>2. /\ \E label \in {"idle", "main_decode", "cfg_check", "cfg_close",
                         "cfg_bypass", "cfg_decoder", "cfg_mixer", "hw_trans"} :
             pc' = [pc EXCEPT ![s] = label]
        /\ pc[s] \in {"main_check", "main_decode", "cfg_check", "cfg_close",
                      "cfg_bypass", "cfg_decoder", "cfg_mixer"}
    BY <1>3 DEF MainStep, MainReconfigure, MainGoOn, MainBypass, MainNoDecoder,
       MainDecode, ConfigCheck, ConfigClose, ConfigBypass, ConfigDecoder, ConfigMixer
  <2> QED
    BY <2>1, <2>2
<1>4. ASSUME NEW s \in Streams, AuxStep(s) PROVE LockDiscipline'
  <2>1. CASE AuxLock(s)
    BY <2>1 DEF AuxLock
  <2>2. CASE AuxAlsa(s)
    BY <2>2 DEF AuxAlsa
  <2>3. CASE AuxClose(s)
    BY <2>3 DEF AuxClose
  <2> QED
    BY <1>4, <2>1, <2>2, <2>3 DEF AuxStep
<1>5. ASSUME NEW s \in Streams, HwStep(s) PROVE LockDiscipline'
  <2>1. CASE HwTrans(s)
    BY <2>1 DEF HwTrans
  <2>2. CASE HwAlsa(s)
    BY <2>2 DEF HwAlsa
  <2>3. CASE HwFormat(s)
    <3>1. \E label \in {"hw_io", "hw_open"} : pc' = [pc EXCEPT ![s] = label]
      BY <2>3 DEF HwFormat
    <3> QED
      BY <2>3, <3>1 DEF HwFormat
  <2>4. CASE HwOpen(s)
    BY <2>4 DEF HwOpen
  <2>5. CASE HwOpenFails(s)
    BY <2>5 DEF HwOpenFails
  <2>6. CASE HwIo(s)
    BY <2>6 DEF HwIo
  <2>7. CASE HwTail(s)
    BY <2>7 DEF HwTail
  <2> QED
    BY <1>5, <2>1, <2>2, <2>3, <2>4, <2>5, <2>6, <2>7 DEF HwStep
<1>6. ASSUME NEW s \in Streams, PatchStep(s) PROVE LockDiscipline'
  BY <1>6 DEF PatchStep, PatchStandby, PatchLoadMasks, PatchStoreMasks
<1>7. ASSUME NEW t \in Threads, StandbyStep(t) PROVE LockDiscipline'
  <2>1. CASE StandbyCheck(t)
    BY <2>1 DEF StandbyCheck
  <2>2. CASE StandbyAlsa(t)
    BY <2>2 DEF StandbyAlsa
  <2>3. CASE StandbyClose(t)
    BY <2>3 DEF StandbyClose
  <2> QED
    BY <1>7, <2>1, <2>2, <2>3 DEF StandbyStep
<1>8. ASSUME NEW c \in Controllers, StandbyFinish(c) PROVE LockDiscipline'
  BY <1>8 DEF StandbyFinish, ClearUsecase
<1>9. ASSUME NEW c \in Controllers, NEW s \in Streams, ControlStep(c, s)
      PROVE  LockDiscipline'
  BY <1>9 DEF ControlStep, ControlStart, out_resume_new, out_flush_new
<1> QED
  BY <1>1, <1>2, <1>3, <1>4, <1>5, <1>6, <1>7, <1>8, <1>9, StreamsAssumption DEF Next

\* In every interleaving of any number of threads, failed opens included, each
\* of adev->lock, alsa_pcm_lock and trans_lock is held exactly by the thread
\* inside one of its sections, so these sections exclude one another and no
\* return path leaks a mutex.
THEOREM LocksCorrect == Spec => []LockDiscipline
BY InitLocks, NextLocks, TypeCorrect, PTL DEF Spec
-----------------------------------------------------------------------------
(* The output handles, when a stream is controlled only between its writes *)

MainPCs == {"main_check", "main_decode", "cfg_check", "cfg_close", "cfg_bypass", "cfg_decoder",
            "cfg_mixer"}
RequestPCs == {"hw_trans", "hw_alsa", "hw_format", "hw_open", "hw_io"}
WriterPCs == MainPCs \cup RequestPCs \cup {"idle", "aux_lock", "aux_alsa", "aux_close", "hw_tail"}

\* Writers write, controllers control, and a stream under control is not written
PlacesInv ==
  /\ \A s \in Streams : pc[s] \in WriterPCs
  /\ \A c \in Controllers :
       /\ pc[c] \in {"idle", "sb_check", "sb_alsa", "sb_close", "sb_masks"}
       /\ pc[c] = "idle" <=> target[c] = NoStream
       /\ target[c] \in Streams => pc[target[c]] = "idle"

\* The status of a stream against its handles and its masks.  A standby closes
\* the handles some steps before it clears the status.
StatusOf(s) ==
  /\ pc[s] \in {"cfg_bypass", "cfg_decoder", "cfg_mixer", "hw_open"} => status[s] # "HW_WRITING"
  /\ pc[s] = "hw_io" => status[s] = "HW_WRITING"
  /\ status[s] # "STANDBY" \/ pc[s] # "idle" => dev_usecase_masks[s] # {}
  /\ status[s] # "HW_WRITING" => output_handle[s] = Closed
  /\ status[s] = "HW_WRITING" =>
       \/ output_handle[s] # Closed
       \/ \E c \in Controllers : target[c] = s /\ pc[c] = "sb_masks"

StatusInv ==
  /\ \A s \in Streams : StatusOf(s)
  /\ \A c \in Controllers : pc[c] = "sb_masks" => output_handle[target[c]] = Closed
  /\ NoLeakedHandle

LEMMA InitStatus == Init => PlacesInv /\ StatusInv
BY ThreadsAssumption
   DEF Init, PlacesInv, StatusInv, StatusOf, NoLeakedHandle, WriterPCs, MainPCs, RequestPCs

\* A step of the writer of s
WriterMoves(s) ==
  /\ UNCHANGED target
  /\ \E label \in WriterPCs : pc' = [pc EXCEPT ![s] = label]
  /\ pc[s] # "idle" \/ Uncontrolled(s)

\* Nothing changes of any other stream
OthersKeep(s) ==
  \A r \in Streams \ {s} :
    /\ status'[r] = status[r] /\ output_handle'[r] = output_handle[r]
    /\ dev_usecase_masks'[r] = dev_usecase_masks[r]

LEMMA WriterPlaces ==
  ASSUME TypeOK, PlacesInv, NEW s \in Streams, WriterMoves(s)
  PROVE  PlacesInv' /\ Uncontrolled(s) /\ \A c \in Controllers : pc'[c] = pc[c]
<1>1. PICK label \in WriterPCs : pc' = [pc EXCEPT ![s] = label]
  BY DEF WriterMoves
<1>2. \A t \in Threads : pc'[t] = IF t = s THEN label ELSE pc[t]
  BY <1>1 DEF TypeOK
<1>3. \A c \in Controllers : pc'[c] = pc[c]
  BY <1>2, ThreadsAssumption
<1>4. Uncontrolled(s)
  BY DEF WriterMoves, PlacesInv, Uncontrolled
<1> QED
  BY <1>2, <1>3, <1>4 DEF PlacesInv, WriterMoves, Uncontrolled

LEMMA WriterStatus ==
  ASSUME TypeOK, PlacesInv, StatusInv, NEW s \in Streams, WriterMoves(s), OthersKeep(s),
         leaked' = leaked, StatusOf(s)'
  PROVE  StatusInv'
<1>1. Uncontrolled(s) /\ \A c \in Controllers : pc'[c] = pc[c]
  BY WriterPlaces
<1>2. \A r \in Streams \ {s} : pc'[r] = pc[r]
  BY DEF TypeOK, WriterMoves
<1>3. ASSUME NEW r \in Streams PROVE StatusOf(r)'
  BY <1>1, <1>2 DEF StatusInv, StatusOf, OthersKeep, WriterMoves, Closed
<1>4. ASSUME NEW c \in Controllers, pc'[c] = "sb_masks"
      PROVE  output_handle'[target'[c]] = Closed
  <2>1. target[c] \in Streams \ {s}
    BY <1>1, <1>4 DEF TypeOK, PlacesInv, Uncontrolled
  <2> QED
    BY <1>1, <1>4, <2>1 DEF StatusInv, OthersKeep, WriterMoves
<1> QED
  BY <1>3, <1>4 DEF StatusInv, NoLeakedHandle, Closed

LEMMA OpenStatus ==
  ASSUME TypeOK, PlacesInv, StatusInv, NEW s \in Streams, OpenStream(s)
  PROVE  PlacesInv' /\ StatusInv'
<1>1. pc' = [pc EXCEPT ![s] = "idle"]
  BY DEF OpenStream, TypeOK
<1>2. WriterMoves(s)
  BY <1>1 DEF WriterMoves, WriterPCs, OpenStream
<1>3. OthersKeep(s)
  BY DEF TypeOK, OthersKeep, OpenStream
<1>4. StatusOf(s)'
  BY DEF TypeOK, StatusOf, OpenStream, Closed
<1> QED
  BY <1>2, <1>3, <1>4, WriterPlaces, WriterStatus DEF OpenStream

\* A validated write is active from then on
LEMMA WriteActive ==
  ASSUME TypeOK, RegistryInv, NEW s \in Streams, out_write_new(s)
  PROVE  dev_usecase_masks'[s] # {} /\ Usecase[s] \in usecase_masks'
<1>1. CASE MasksUnchanged(s) /\ UNCHANGED masks_vars
  BY <1>1 DEF MasksUnchanged, RegistryInv, ActiveIsRegistered
<1>2. CASE usecase_change_validate_l(s)
  BY <1>2 DEF TypeOK, RegistryInv, ActiveIsRegistered, usecase_change_validate_l
<1> QED
  BY <1>1, <1>2 DEF out_write_new

LEMMA WriteMoves ==
  ASSUME TypeOK, SerialControl, NEW s \in Streams, out_write_new(s)
  PROVE  WriterMoves(s) /\ pc'[s] \in {"idle", "hw_trans", "main_check", "aux_lock"}
<1>1. EntryPoint \in [{"NULL", "process", "main", "aux"} ->
                        {"idle", "hw_trans", "main_check", "aux_lock"}]
  BY DEF EntryPoint
<1>2. write'[s] \in {"NULL", "process", "main", "aux"}
  BY WriteTypeOK DEF TypeOK
<1>3. EntryPoint[write'[s]] \in {"idle", "hw_trans", "main_check", "aux_lock"}
  BY <1>1, <1>2
<1> QED
  BY <1>3 DEF TypeOK, WriterMoves, WriterPCs, MainPCs, RequestPCs, out_write_new

LEMMA WriteStatus ==
  ASSUME TypeOK, RegistryInv, PlacesInv, StatusInv, SerialControl,
         NEW s \in Streams, out_write_new(s)
  PROVE  PlacesInv' /\ StatusInv'
<1>1. OthersKeep(s)
  BY DEF TypeOK, OthersKeep, out_write_new, usecase_change_validate_l
<1>2. StatusOf(s)'
  BY WriteActive, WriteMoves DEF StatusInv, StatusOf, out_write_new, Uncontrolled, Closed
<1> QED
  BY <1>1, <1>2, WriteMoves, WriterPlaces, WriterStatus DEF out_write_new

LEMMA MainStatus ==
  ASSUME TypeOK, PlacesInv, StatusInv, NEW s \in Streams, MainStep(s)
  PROVE  PlacesInv' /\ StatusInv'
<1> USE DEF MainReconfigure, MainGoOn, MainBypass, MainNoDecoder, MainDecode, ConfigCheck,
            ConfigBypass, ConfigDecoder, ConfigMixer
<1>1. WriterMoves(s) /\ UNCHANGED <<leaked, dev_usecase_masks>> /\ pc[s] # "idle"
  BY DEF MainStep, ConfigClose, WriterMoves, WriterPCs, MainPCs, RequestPCs
<1>2. Uncontrolled(s)
  BY <1>1, WriterPlaces
<1>3. CASE ConfigClose(s)
  <2>1. OthersKeep(s)
    BY <1>3 DEF TypeOK, OthersKeep, ConfigClose, CloseHandles
  <2>2. StatusOf(s)'
    BY <1>1, <1>3 DEF TypeOK, StatusInv, StatusOf, ConfigClose, CloseHandles, Closed
  <2> QED
    BY <1>1, <2>1, <2>2, WriterPlaces, WriterStatus
<1>4. CASE ~ConfigClose(s)
  <2>1. UNCHANGED <<status, output_handle>>
    BY <1>4 DEF MainStep
  <2>2. /\ pc'[s] \in {"cfg_bypass", "cfg_decoder", "cfg_mixer"} => status[s] # "HW_WRITING"
        /\ pc'[s] \notin {"hw_io", "hw_open"}
    BY <1>4 DEF TypeOK, MainStep, StatusInv, StatusOf
  <2>3. OthersKeep(s)
    BY <1>1, <2>1 DEF OthersKeep
  <2>4. StatusOf(s)'
    BY <1>1, <1>2, <2>1, <2>2 DEF StatusInv, StatusOf, Uncontrolled, Closed
  <2> QED
    BY <1>1, <2>3, <2>4, WriterPlaces, WriterStatus
<1> QED
  BY <1>3, <1>4

LEMMA AuxStatus ==
  ASSUME TypeOK, PlacesInv, StatusInv, NEW s \in Streams, AuxStep(s)
  PROVE  PlacesInv' /\ StatusInv'
<1>1. WriterMoves(s) /\ UNCHANGED <<leaked, dev_usecase_masks>> /\ pc[s] # "idle"
  BY DEF AuxStep, AuxLock, AuxAlsa, AuxClose, WriterMoves, WriterPCs
<1>2. Uncontrolled(s)
  BY <1>1, WriterPlaces
<1>3. OthersKeep(s)
  <2>1. CASE AuxLock(s) \/ AuxAlsa(s)
    BY <2>1 DEF TypeOK, OthersKeep, AuxLock, AuxAlsa
  <2>2. CASE AuxClose(s)
    BY <2>2 DEF TypeOK, OthersKeep, AuxClose, CloseHandles
  <2> QED
    BY <2>1, <2>2 DEF AuxStep
<1>4. StatusOf(s)'
  <2>1. CASE AuxClose(s)
    BY <1>1, <2>1 DEF TypeOK, StatusInv, StatusOf, AuxClose, CloseHandles, Closed
  <2>2. CASE AuxLock(s)
    <3>1. CASE status' = status
      BY <1>1, <1>2, <2>2, <3>1 DEF TypeOK, StatusInv, StatusOf, Uncontrolled, AuxLock, Closed
    <3>2. CASE status' # status
      BY <1>1, <1>2, <2>2, <3>2 DEF TypeOK, StatusInv, StatusOf, Uncontrolled, AuxLock, Closed
    <3> QED
      BY <3>1, <3>2
  <2>3. CASE AuxAlsa(s)
    BY <1>1, <1>2, <2>3 DEF TypeOK, StatusInv, StatusOf, Uncontrolled, AuxAlsa, Closed
  <2> QED
    BY <2>1, <2>2, <2>3 DEF AuxStep
<1> QED
  BY <1>1, <1>3, <1>4, WriterPlaces, WriterStatus

LEMMA HwStatus ==
  ASSUME TypeOK, PlacesInv, StatusInv, NEW s \in Streams, HwStep(s)
  PROVE  PlacesInv' /\ StatusInv'
<1>1. WriterMoves(s) /\ UNCHANGED dev_usecase_masks /\ pc[s] # "idle"
  BY DEF HwStep, HwTrans, HwAlsa, HwFormat, HwOpen, HwOpenFails, HwIo, HwTail,
         WriterMoves, WriterPCs, RequestPCs
<1>2. Uncontrolled(s)
  BY <1>1, WriterPlaces
<1> USE <1>1, <1>2
<1>3. CASE HwTrans(s) \/ HwAlsa(s) \/ HwIo(s) \/ HwTail(s)
  <2>1. UNCHANGED <<status, output_handle, leaked>>
    BY <1>3 DEF HwTrans, HwAlsa, HwIo, HwTail
  <2>2. pc'[s] \notin {"cfg_bypass", "cfg_decoder", "cfg_mixer", "hw_open", "hw_io"}
    BY <1>3 DEF TypeOK, HwTrans, HwAlsa, HwIo, HwTail
  <2>3. OthersKeep(s) /\ StatusOf(s)'
    BY <2>1, <2>2 DEF OthersKeep, StatusInv, StatusOf, Uncontrolled, Closed
  <2> QED
    BY <2>1, <2>3, WriterPlaces, WriterStatus
<1>4. CASE HwFormat(s)
  <2>1. OthersKeep(s) /\ leaked' = leaked
    BY <1>4 DEF TypeOK, OthersKeep, HwFormat, CloseHandles
  <2>2. StatusOf(s)'
    BY <1>4 DEF TypeOK, StatusInv, StatusOf, HwFormat, CloseHandles, Uncontrolled, Closed
  <2> QED
    BY <2>1, <2>2, WriterPlaces, WriterStatus
<1>5. CASE HwOpen(s)
  <2>1. output_handle[s] = Closed /\ request[s] \in Requests
    BY <1>5 DEF TypeOK, StatusInv, StatusOf, HwOpen
  <2>2. leaked' = leaked
    BY <1>5, <2>1 DEF TypeOK, HwOpen, Closed, Requests
  <2>3. OthersKeep(s)
    BY <1>5 DEF TypeOK, OthersKeep, HwOpen
  <2>4. output_handle'[s][request[s].device] # NoConfig
    BY <1>5, <2>1, ConfigsAssumption DEF TypeOK, HwOpen, Requests
  <2>5. StatusOf(s)'
    BY <1>5, <2>1, <2>4 DEF TypeOK, StatusInv, StatusOf, HwOpen, Closed, Requests
  <2> QED
    BY <2>2, <2>3, <2>5, WriterPlaces, WriterStatus
<1>6. CASE HwOpenFails(s)
  <2>1. output_handle[s] = Closed /\ request[s] \in Requests
    BY <1>6 DEF TypeOK, StatusInv, StatusOf, HwOpenFails
  <2>2. leaked' = leaked
    BY <1>6, <2>1 DEF TypeOK, HwOpenFails, SlotAfterFailure, Closed, Requests
  <2>3. OthersKeep(s)
    BY <1>6 DEF TypeOK, OthersKeep, HwOpenFails, SlotAfterFailure
  <2>4. output_handle'[s] = Closed
    BY <1>6, <2>1 DEF TypeOK, HwOpenFails, SlotAfterFailure, Closed, Requests
  <2>5. StatusOf(s)'
    BY <1>6, <2>4 DEF TypeOK, StatusInv, StatusOf, HwOpenFails, Closed
  <2> QED
    BY <2>2, <2>3, <2>5, WriterPlaces, WriterStatus
<1> QED
  BY <1>3, <1>4, <1>5, <1>6 DEF HwStep

LEMMA ControlStatus ==
  ASSUME TypeOK, LockDiscipline, PlacesInv, StatusInv, SerialControl,
         NEW c \in Controllers, NEW s \in Streams, ControlStep(c, s)
  PROVE  PlacesInv' /\ StatusInv'
<1>1. CASE ControlStart(c, s)
  <2>1. \A d \in Controllers : pc[d] = "idle"
    BY <1>1, ThreadsAssumption DEF LockDiscipline, AdevSection, PlacesInv, ControlStart
  <2>2. /\ pc[s] = "idle" /\ target' = [target EXCEPT ![c] = s]
        /\ pc' = [pc EXCEPT ![c] = "sb_check"]
        /\ UNCHANGED <<status, output_handle, leaked, dev_usecase_masks>>
    BY <1>1 DEF ControlStart
  <2>3. \A r \in Streams : pc'[r] = pc[r]
    BY <2>2, ThreadsAssumption DEF TypeOK
  <2>4. \A d \in Controllers : pc'[d] = IF d = c THEN "sb_check" ELSE "idle"
    BY <2>1, <2>2 DEF TypeOK
  <2>5. PlacesInv'
    BY <2>1, <2>2, <2>3, <2>4, ThreadsAssumption DEF TypeOK, PlacesInv
  <2>6. StatusInv'
    BY <2>1, <2>2, <2>3, <2>4 DEF StatusInv, StatusOf, NoLeakedHandle, Closed
  <2> QED
    BY <2>5, <2>6
<1>2. CASE out_resume_new(c, s)
  BY <1>2 DEF PlacesInv, StatusInv, StatusOf, NoLeakedHandle, Closed, out_resume_new
<1>3. CASE out_flush_new(c, s)
  BY <1>3 DEF PlacesInv, StatusInv, StatusOf, NoLeakedHandle, Closed, out_flush_new
<1> QED
  BY <1>1, <1>2, <1>3 DEF ControlStep

LEMMA StandbyStatus ==
  ASSUME TypeOK, PlacesInv, StatusInv, NEW t \in Threads, StandbyStep(t)
  PROVE  PlacesInv' /\ StatusInv'
<1>1. t \in Controllers /\ StreamOf(t) = target[t] /\ target[t] \in Streams
  <2>1. pc[t] \in {"sb_check", "sb_alsa", "sb_close"}
    BY DEF StandbyStep, StandbyCheck, StandbyAlsa, StandbyClose
  <2>2. t \notin Streams
    BY <2>1 DEF PlacesInv, WriterPCs, MainPCs, RequestPCs
  <2>3. t \in Controllers
    BY <2>2 DEF Threads
  <2>4. target[t] # NoStream /\ target[t] \in Streams \cup {NoStream}
    BY <2>1, <2>3 DEF TypeOK, PlacesInv
  <2> QED
    BY <2>2, <2>3, <2>4 DEF StreamOf
<1>2. UNCHANGED <<target, status, leaked, dev_usecase_masks>>
  BY DEF StandbyStep, StandbyCheck, StandbyAlsa, StandbyClose
<1>3. PICK label \in {"sb_alsa", "sb_close", "sb_masks"} : pc' = [pc EXCEPT ![t] = label]
  BY DEF StandbyStep, StandbyCheck, StandbyAlsa, StandbyClose
<1>4. pc[t] \notin {"idle", "sb_masks"}
  BY DEF StandbyStep, StandbyCheck, StandbyAlsa, StandbyClose
<1>5. /\ \A r \in Streams : pc'[r] = pc[r]
      /\ \A d \in Controllers : pc'[d] = IF d = t THEN label ELSE pc[d]
  BY <1>1, <1>3, ThreadsAssumption DEF TypeOK
<1>6. PlacesInv'
  BY <1>1, <1>2, <1>4, <1>5 DEF PlacesInv
<1>7. CASE StandbyClose(t)
  <2>1. /\ label = "sb_masks"
        /\ \A r \in Streams :
             output_handle'[r] = IF r = target[t] THEN Closed ELSE output_handle[r]
    BY <1>1, <1>3, <1>7 DEF TypeOK, StandbyClose, CloseHandles
  <2>2. \A r \in Streams : StatusOf(r)'
    BY <1>1, <1>2, <1>4, <1>5, <2>1 DEF StatusInv, StatusOf, Closed
  <2>3. ASSUME NEW d \in Controllers, pc'[d] = "sb_masks"
        PROVE  output_handle'[target'[d]] = Closed
    <3>1. target'[d] = target[d]
      BY <1>2
    <3>2. CASE d = t
      BY <1>1, <2>1, <3>1, <3>2
    <3>3. CASE d # t
      <4>1. pc[d] = "sb_masks"
        BY <1>5, <2>3, <3>3
      <4>2. output_handle[target[d]] = Closed /\ target[d] # NoStream
        BY <4>1 DEF PlacesInv, StatusInv
      <4>3. target[d] \in Streams
        BY <4>2 DEF TypeOK
      <4> QED
        BY <2>1, <3>1, <4>2, <4>3
    <3> QED
      BY <3>2, <3>3
  <2> QED
    BY <1>2, <1>6, <2>2, <2>3 DEF StatusInv, NoLeakedHandle, Closed
<1>8. CASE StandbyCheck(t) \/ StandbyAlsa(t)
  <2>1. UNCHANGED output_handle /\ (label = "sb_masks" => status[target[t]] # "HW_WRITING")
    BY <1>1, <1>3, <1>8 DEF TypeOK, StandbyCheck, StandbyAlsa
  <2>2. \A r \in Streams : StatusOf(r)'
    BY <1>2, <1>4, <1>5, <2>1 DEF StatusInv, StatusOf, Closed
  <2>3. \A d \in Controllers : pc'[d] = "sb_masks" => output_handle'[target'[d]] = Closed
    BY <1>1, <1>2, <1>5, <2>1 DEF StatusInv, StatusOf, Closed
  <2> QED
    BY <1>2, <1>6, <2>2, <2>3 DEF StatusInv, NoLeakedHandle, Closed
<1> QED
  BY <1>7, <1>8 DEF StandbyStep

LEMMA FinishStatus ==
  ASSUME TypeOK, PlacesInv, StatusInv, NEW c \in Controllers, StandbyFinish(c)
  PROVE  PlacesInv' /\ StatusInv'
<1>1. PICK s \in Streams : s = target[c]
  BY DEF TypeOK, PlacesInv, StandbyFinish
<1>2. output_handle[s] = Closed /\ pc[s] = "idle"
  BY <1>1 DEF PlacesInv, StatusInv, StandbyFinish
<1>3. /\ target' = [target EXCEPT ![c] = NoStream] /\ pc' = [pc EXCEPT ![c] = "idle"]
      /\ status' = [status EXCEPT ![s] = "STANDBY"]
      /\ dev_usecase_masks' = [dev_usecase_masks EXCEPT ![s] = {}]
      /\ UNCHANGED <<output_handle, leaked>>
  BY <1>1 DEF StandbyFinish, ClearUsecase
<1>4. /\ \A r \in Streams : pc'[r] = pc[r]
      /\ \A d \in Controllers : pc'[d] = IF d = c THEN "idle" ELSE pc[d]
      /\ \A d \in Controllers : target'[d] = IF d = c THEN NoStream ELSE target[d]
  BY <1>3, ThreadsAssumption DEF TypeOK
<1>5. PlacesInv'
  BY <1>4, ThreadsAssumption DEF PlacesInv
<1>6. \A r \in Streams : StatusOf(r)'
  <2>1. StatusOf(s)'
    BY <1>2, <1>3, <1>4 DEF TypeOK, StatusOf, Closed
  <2>2. ASSUME NEW r \in Streams \ {s} PROVE StatusOf(r)'
    <3>1. status'[r] = status[r] /\ dev_usecase_masks'[r] = dev_usecase_masks[r]
      BY <1>3 DEF TypeOK
    <3>2. \A d \in Controllers : target[d] = r => d # c
      BY <1>1
    <3> QED
      BY <1>3, <1>4, <3>1, <3>2 DEF StatusInv, StatusOf, Closed
  <2> QED
    BY <2>1, <2>2
<1>7. \A d \in Controllers : pc'[d] = "sb_masks" => output_handle'[target'[d]] = Closed
  BY <1>3, <1>4 DEF StatusInv
<1> QED
  BY <1>3, <1>5, <1>6, <1>7 DEF StatusInv, NoLeakedHandle, Closed

LEMMA NextStatus ==
  ASSUME SerialControl, PatchStreams = {}
  PROVE  TypeOK /\ LockDiscipline /\ RegistryInv /\ PlacesInv /\ StatusInv /\ [Next]_vars
           => PlacesInv' /\ StatusInv'
<1> SUFFICES ASSUME TypeOK, LockDiscipline, RegistryInv, PlacesInv, StatusInv, [Next]_vars
             PROVE  PlacesInv' /\ StatusInv'
  OBVIOUS
<1>1. CASE ArcUpdated \/ RouteChanged \/ UNCHANGED vars
  BY <1>1 DEF PlacesInv, StatusInv, StatusOf, NoLeakedHandle, Closed, ArcUpdated,
              RouteChanged, vars
<1>2. ASSUME NEW s \in Streams PROVE ~PatchStep(s)
  BY DEF PatchStep, PatchStandby, PatchLoadMasks, PatchStoreMasks, PlacesInv
<1> QED
  BY <1>1, <1>2, OpenStatus, WriteStatus, MainStatus, AuxStatus, HwStatus, ControlStatus,
     StandbyStatus, FinishStatus DEF Next

\* When a stream is controlled only between its writes, no open replaces a handle that is
\* still open, and between calls the status tells whether there is one: whatever failed,
\* was reconfigured or handed over to the mixer before.
THEOREM OutputsCorrect ==
  ASSUME SerialControl, DistinctUsecases, PatchStreams = {}
  PROVE  Spec => [](NoLeakedHandle /\ StatusTellsOutput)
<1>1. PlacesInv /\ StatusInv => NoLeakedHandle /\ StatusTellsOutput
  BY DEF StatusInv, StatusOf, StatusTellsOutput, Uncontrolled
<1>2. Spec => [](PlacesInv /\ StatusInv)
  BY InitStatus, NextStatus, TypeCorrect, LocksCorrect, RegistryInvariant, PTL DEF Spec
<1> QED
  BY <1>1, <1>2, PTL

\* A direct stream of IEC61937 data is the only direct stream: no other one's
\* config_output decides about the bypass of the device
RawAlone ==
  \A r \in RawStreams, s \in Streams : Usecase[r] # NORMAL /\ Usecase[s] # NORMAL => r = s

\* The device a stream writes to
DeviceOf(s) ==
  IF s \in RawStreams /\ (Usecase[s] = NORMAL \/ bypass_enable) THEN "RAW" ELSE "PCM"

\* Only a direct stream is on the main path, an active stream has its own use
\* case among the masks it saw, and it opens and asks for no device but its own
DeviceInvOf(s) ==
  /\ pc[s] \in MainPCs => Usecase[s] # NORMAL
  /\ dev_usecase_masks[s] # {} => Usecase[s] \in dev_usecase_masks[s]
  /\ \A d \in OutputDevices : output_handle[s][d] # NoConfig => d = DeviceOf(s)
  /\ pc[s] \in RequestPCs => request[s].device = DeviceOf(s)
DeviceInv == \A s \in Streams : DeviceInvOf(s)

LEMMA InitDevice == Init => DeviceInv
BY DEF Init, DeviceInv, DeviceInvOf, Closed, MainPCs, RequestPCs

\* A step that leaves a stream where it was, or closes its handles
LEMMA DeviceFrame ==
  ASSUME DeviceInv, UNCHANGED bypass_enable, NEW r \in Streams,
         output_handle'[r] \in {output_handle[r], Closed},
         dev_usecase_masks'[r] \in {dev_usecase_masks[r], {}},
         request'[r] = request[r],
         pc'[r] \in MainPCs => pc[r] \in MainPCs,
         pc'[r] \in RequestPCs => pc[r] \in RequestPCs
  PROVE  DeviceInvOf(r)'
BY DEF DeviceInv, DeviceInvOf, DeviceOf, Closed

\* A step of the writer of s without a say in the bypass
LEMMA WriterDevice ==
  ASSUME TypeOK, DeviceInv, UNCHANGED bypass_enable, NEW s \in Streams, WriterMoves(s),
         OthersKeep(s), \A r \in Streams \ {s} : request'[r] = request[r], DeviceInvOf(s)'
  PROVE  DeviceInv'
<1>1. ASSUME NEW r \in Streams \ {s} PROVE DeviceInvOf(r)'
  BY <1>1, DeviceFrame DEF TypeOK, WriterMoves, OthersKeep
<1> QED
  BY <1>1 DEF DeviceInv

LEMMA WriteDevice ==
  ASSUME DistinctUsecases, TypeOK, RegistryInv, DeviceInv, SerialControl,
         NEW s \in Streams, out_write_new(s)
  PROVE  DeviceInv'
<1>1. WriterMoves(s) /\ OthersKeep(s) /\ dev_usecase_masks'[s] # {}
  <2>1. OthersKeep(s)
    BY DEF TypeOK, OthersKeep, out_write_new, usecase_change_validate_l
  <2> QED
    BY <2>1, WriteMoves, WriteActive
<1>2. Usecase[s] \in dev_usecase_masks'[s]
  <2>1. CASE UNCHANGED masks_vars
    BY <1>1, <2>1 DEF DeviceInv, DeviceInvOf
  <2>2. CASE usecase_change_validate_l(s)
    BY <2>2, WriteActive DEF TypeOK, usecase_change_validate_l
  <2> QED
    BY <2>1, <2>2 DEF out_write_new
<1>3. write'[s] = ChosenWrite(s, dev_usecase_masks'[s])
  BY <1>1, WriteRegistry DEF RegistryInv, WriteSuitsMasks, ChosenWrite, need_hw_mix
<1>4. pc'[s] = EntryPoint[write'[s]] /\ request'[s] = ProcessRequest(s)
  BY DEF TypeOK, out_write_new
<1>5. CASE Usecase[s] = NORMAL
  <2>1. write'[s] \in {"process", "aux"}
    BY <1>3, <1>5 DEF ChosenWrite
  <2>2. pc'[s] \notin MainPCs
    BY <1>4, <2>1 DEF EntryPoint, MainPCs
  <2>3. request'[s].device = DeviceOf(s)'
    BY <1>4, <1>5 DEF ProcessRequest, DeviceOf
  <2>4. DeviceInvOf(s)'
    BY <1>2, <1>5, <2>2, <2>3 DEF DeviceInv, DeviceInvOf, DeviceOf, out_write_new
  <2> QED
    BY <1>1, <2>4, WriterDevice DEF TypeOK, out_write_new
<1>6. CASE Usecase[s] # NORMAL
  <2>1. write'[s] = "main"
    BY <1>2, <1>3, <1>6 DEF ChosenWrite, need_hw_mix
  <2>2. pc'[s] = "main_check"
    BY <1>4, <2>1 DEF EntryPoint
  <2>3. DeviceInvOf(s)'
    BY <1>2, <1>6, <2>2 DEF DeviceInv, DeviceInvOf, DeviceOf, RequestPCs, out_write_new
  <2> QED
    BY <1>1, <2>3, WriterDevice DEF TypeOK, out_write_new
<1> QED
  BY <1>5, <1>6

LEMMA MainDevice ==
  ASSUME RawAlone, TypeOK, StatusInv, DeviceInv, NEW s \in Streams, MainStep(s)
  PROVE  DeviceInv'
<1> USE DEF MainReconfigure, MainGoOn, MainBypass, MainNoDecoder, MainDecode, ConfigCheck,
            ConfigClose, ConfigDecoder, ConfigMixer
<1>1. /\ WriterMoves(s) /\ pc[s] \in MainPCs /\ UNCHANGED dev_usecase_masks
      /\ \A r \in Streams \ {s} : request'[r] = request[r]
  BY DEF TypeOK, MainStep, ConfigBypass, ConfigDecoder, WriterMoves, WriterPCs, MainPCs, RequestPCs
<1>2. Usecase[s] # NORMAL /\ \A r \in Streams \ {s} : pc'[r] = pc[r]
  BY <1>1 DEF TypeOK, WriterMoves, DeviceInv, DeviceInvOf
<1>3. CASE MainBypass(s) \/ MainDecode(s)
  <2>1. UNCHANGED <<status, output_handle, bypass_enable>>
    BY <1>3
  <2>2. pc'[s] \in RequestPCs => request'[s].device = DeviceOf(s)'
    <3>1. CASE MainBypass(s)
      BY <3>1 DEF TypeOK, DeviceOf
    <3>2. CASE MainDecode(s)
      BY <1>2, <3>2 DEF TypeOK, DeviceOf, RequestPCs
    <3> QED
      BY <1>3, <3>1, <3>2
  <2>3. DeviceInvOf(s)'
    BY <1>1, <1>2, <2>1, <2>2 DEF DeviceInv, DeviceInvOf, DeviceOf
  <2> QED
    BY <1>1, <2>1, <2>3, WriterDevice DEF OthersKeep
<1>4. CASE ConfigBypass(s)
  <2>1. status[s] # "HW_WRITING" /\ output_handle[s] = Closed
    BY <1>4 DEF StatusInv, StatusOf, ConfigBypass
  <2>2. UNCHANGED <<status, output_handle, request>> /\ pc'[s] \notin RequestPCs
    BY <1>4 DEF TypeOK, RequestPCs, ConfigBypass
  <2>3. DeviceInvOf(s)'
    BY <1>1, <1>2, <2>1, <2>2 DEF DeviceInv, DeviceInvOf, Closed
  <2>4. ASSUME NEW r \in Streams \ {s} PROVE DeviceInvOf(r)'
    <3>1. DeviceOf(r)' = DeviceOf(r)
      BY <1>2 DEF RawAlone, DeviceOf
    <3> QED
      BY <1>1, <1>2, <2>2, <3>1 DEF DeviceInv, DeviceInvOf
  <2> QED
    BY <2>3, <2>4 DEF DeviceInv
<1>5. CASE MainReconfigure(s) \/ MainGoOn(s) \/ MainNoDecoder(s) \/ ConfigCheck(s)
             \/ ConfigClose(s) \/ ConfigDecoder(s) \/ ConfigMixer(s)
  <2>1. UNCHANGED <<bypass_enable, request>> /\ pc'[s] \notin RequestPCs
    BY <1>5 DEF TypeOK, RequestPCs
  <2>2. \A r \in Streams : output_handle'[r] \in {output_handle[r], Closed}
    BY <1>5 DEF TypeOK, CloseHandles
  <2>3. \A r \in Streams : DeviceInvOf(r)'
    BY <1>1, <1>2, <2>1, <2>2, DeviceFrame
  <2> QED
    BY <2>3 DEF DeviceInv
<1> QED
  BY <1>3, <1>4, <1>5 DEF MainStep

LEMMA HwDevice ==
  ASSUME TypeOK, StatusInv, DeviceInv, NEW s \in Streams, HwStep(s)
  PROVE  DeviceInv'
<1> USE DEF HwTrans, HwAlsa, HwFormat, HwOpen, HwOpenFails, SlotAfterFailure, HwIo, HwTail
<1>1. /\ WriterMoves(s) /\ UNCHANGED <<dev_usecase_masks, bypass_enable, request>>
      /\ pc[s] \in RequestPCs \cup {"hw_tail"} /\ pc'[s] \notin MainPCs
      /\ pc'[s] \in RequestPCs => pc[s] \in RequestPCs
  BY DEF TypeOK, HwStep, WriterMoves, WriterPCs, MainPCs, RequestPCs
<1>2. OthersKeep(s)
  BY <1>1 DEF TypeOK, OthersKeep, HwStep, CloseHandles
<1>3. CASE HwOpen(s)
  <2>1. /\ request[s] \in Requests /\ request[s].device = DeviceOf(s)
        /\ output_handle'[s] = [output_handle[s] EXCEPT ![request[s].device] = request[s].config]
    BY <1>3 DEF TypeOK, DeviceInv, DeviceInvOf, RequestPCs
  <2>2. \A d \in OutputDevices : output_handle'[s][d] # NoConfig => d = DeviceOf(s)
    BY <2>1 DEF TypeOK, DeviceInv, DeviceInvOf, Requests
  <2>3. DeviceInvOf(s)'
    BY <1>1, <2>1, <2>2 DEF DeviceInv, DeviceInvOf, DeviceOf
  <2> QED
    BY <1>1, <1>2, <2>3, WriterDevice
<1>4. CASE ~HwOpen(s)
  <2>1. \A d \in OutputDevices : output_handle'[s][d] \in {output_handle[s][d], NoConfig}
    BY <1>4 DEF TypeOK, HwStep, CloseHandles, Closed, Requests
  <2>2. DeviceInvOf(s)'
    BY <1>1, <2>1 DEF DeviceInv, DeviceInvOf, DeviceOf
  <2> QED
    BY <1>1, <1>2, <2>2, WriterDevice
<1> QED
  BY <1>3, <1>4

LEMMA NextDevice ==
  ASSUME RawAlone, DistinctUsecases, SerialControl, PatchStreams = {}
  PROVE  TypeOK /\ RegistryInv /\ PlacesInv /\ StatusInv /\ DeviceInv /\ [Next]_vars
           => DeviceInv'
<1> SUFFICES ASSUME TypeOK, RegistryInv, PlacesInv, StatusInv, DeviceInv, [Next]_vars
             PROVE  DeviceInv'
  OBVIOUS
<1> DEFINE Keeps ==
      /\ UNCHANGED <<bypass_enable, request>>
      /\ \A r \in Streams :
           /\ output_handle'[r] \in {output_handle[r], Closed}
           /\ dev_usecase_masks'[r] \in {dev_usecase_masks[r], {}}
           /\ pc'[r] \in MainPCs => pc[r] \in MainPCs
           /\ pc'[r] \in RequestPCs => pc[r] \in RequestPCs
<1>1. Keeps => DeviceInv'
  BY DeviceFrame DEF DeviceInv
<1>2. CASE ArcUpdated \/ RouteChanged \/ UNCHANGED vars
  BY <1>1, <1>2 DEF ArcUpdated, RouteChanged, vars
<1>3. ASSUME NEW s \in Streams, OpenStream(s) \/ AuxStep(s) \/ PatchStep(s) PROVE DeviceInv'
  <2>1. Keeps
    BY <1>3 DEF TypeOK, OpenStream, AuxStep, AuxLock, AuxAlsa, AuxClose, CloseHandles,
       PatchStep, PatchStandby, PatchLoadMasks, PatchStoreMasks, MainPCs, RequestPCs
  <2> QED
    BY <1>1, <2>1
<1>4. ASSUME NEW t \in Threads, StandbyStep(t) PROVE DeviceInv'
  <2>1. Keeps
    BY <1>4 DEF TypeOK, StandbyStep, StandbyCheck, StandbyAlsa, StandbyClose, CloseHandles,
       MainPCs, RequestPCs
  <2> QED
    BY <1>1, <2>1
<1>5. ASSUME NEW c \in Controllers, StandbyFinish(c) PROVE DeviceInv'
  <2>1. Keeps
    BY <1>5 DEF TypeOK, StandbyFinish, ClearUsecase, MainPCs, RequestPCs
  <2> QED
    BY <1>1, <2>1
<1>6. ASSUME NEW c \in Controllers, NEW s \in Streams, ControlStep(c, s) PROVE DeviceInv'
  <2>1. Keeps
    BY <1>6 DEF TypeOK, ControlStep, ControlStart, out_resume_new, out_flush_new,
       MainPCs, RequestPCs
  <2> QED
    BY <1>1, <2>1
<1> QED
  BY <1>2, <1>3, <1>4, <1>5, <1>6, WriteDevice, MainDevice, HwDevice DEF Next

\* When in addition no other direct stream has a say in the bypass of an IEC61937 one,
\* hw_write never writes through an absent handle.
THEOREM HandlesCorrect ==
  ASSUME RawAlone, SerialControl, DistinctUsecases, PatchStreams = {}
  PROVE  Spec => []NoNullHandle
<1>1. TypeOK /\ PlacesInv /\ StatusInv /\ DeviceInv => NoNullHandle
  <2> SUFFICES ASSUME TypeOK, PlacesInv, StatusInv, DeviceInv,
                      NEW s \in Streams, pc[s] = "hw_io"
               PROVE  output_handle[s][request[s].device] # NoConfig
    BY DEF NoNullHandle
  <2>1. output_handle[s] # Closed
    BY DEF PlacesInv, StatusInv, StatusOf
  <2>2. PICK d \in OutputDevices : output_handle[s][d] # NoConfig
    BY <2>1 DEF TypeOK, Closed
  <2>3. d = DeviceOf(s) /\ request[s].device = DeviceOf(s)
    BY <2>2 DEF DeviceInv, DeviceInvOf, RequestPCs
  <2> QED
    BY <2>2, <2>3
<1> QED
  BY <1>1, InitStatus, NextStatus, InitDevice, NextDevice, TypeCorrect, LocksCorrect,
     RegistryInvariant, PTL DEF Spec
=============================================================================
