--------------------------- MODULE AudioPatchProofs ---------------------------
(***************************************************************************)
(* What holds of AudioPatch for every client and every failure: no thread  *)
(* runs on a freed patch, triggers a freed callback handle, or writes more *)
(* than fits.  The argument ties the place of the client in its call to    *)
(* the two threads of the patch it works on.  And what holds for a client  *)
(* that uses one source at a time: what it releases is live, and nothing   *)
(* it started is left running.                                             *)
(***************************************************************************)
EXTENDS AudioPatch, TLAPS

InRuns(p) == inpc[p] \notin {"none", "done"}
OutRuns(p) == outpc[p] \notin {"none", "done"}

\* A patch with a thread is live, and nothing of a live patch is freed.
LivePatchInv ==
  \A p \in Patches :
    /\ InRuns(p) \/ OutRuns(p) => patch[p].mem = "live"
    /\ patch[p].mem = "live" => patch[p].ring = "live" /\ patch[p].callback # "freed"
    /\ inpc[p] = "put" => patch[p].level + patch[p].mul <= RingSize

\* What a call that has begun knows of the threads of its patch.
ClientInv ==
  /\ client.pc # "idle" => client.patch \in Patches
  /\ client.pc \in {"start_in", "start_out"} => patch[client.patch].mem = "live"
  /\ client.pc \in {"start_in", "join_out", "free"} => ~InRuns(client.patch)
  /\ client.pc \in {"start_in", "start_out", "undo", "free"} => ~OutRuns(client.patch)

\* The device is patching only with a patch, which is that of the call at work.
DeviceInv ==
  /\ client.pc \notin {"idle", "released"} => audio_patch = client.patch
  /\ audio_patching => audio_patch # NULL \/ client.pc = "released"

PatchInv == LivePatchInv /\ ClientInv /\ DeviceInv

-----------------------------------------------------------------------------
(* The types *)

\* The records of TypeOK by name, so that a step can speak of them.
PatchRecords == [mem : {"none", "live", "freed"}, src : Sources,
                 in_exit : BOOLEAN, out_exit : BOOLEAN,
                 parse : BOOLEAN, callback : {"none", "live", "freed"},
                 ring : {"none", "live", "freed"},
                 level : 0..RingSize, mul : 1..RingSize]
Calls == [pc : {"idle", "start_in", "start_out", "undo", "parse", "callback",
                "created", "failed", "stop_out", "signal", "stop_in",
                "join_in", "join_out", "free", "released"},
          call : {"none", "create", "linein", "release"},
          set : 0..MaxSets, src : Sources, patch : Patches \cup {NULL}]
PatchSets == [id : SetIds, src : [type : {"mix", "device"}, dev : Sources \cup {"none"}],
              sink : {"mix", "device"}]
InPlaces == {"none", "open", "loop", "read", "trigger", "silent", "check", "put", "full", "done"}
OutPlaces == {"none", "open", "loop", "test", "waiting", "woken", "level", "take", "write",
             "trigger", "done"}

LEMMA NoPatchType == NoPatch \in PatchRecords
BY RingAssumption DEF NoPatch, PatchRecords, Sources

LEMMA FreedType ==
  ASSUME TypeOK, NEW p \in Patches
  PROVE  Freed(p) \in PatchRecords
BY NoPatchType DEF TypeOK, Freed, PatchRecords, NoPatch

LEMMA SetIdType == FreeIds # {} => NewId \in SetIds
BY DEF FreeIds, NewId

LEMMA RegisterType ==
  ASSUME TypeOK, NEW src \in [type : {"mix", "device"}, dev : Sources \cup {"none"}],
         NEW sink \in {"mix", "device"}, register_audio_patch(src, sink)
  PROVE  patch_list' \subseteq PatchSets
BY SetIdType DEF TypeOK, register_audio_patch, PatchSets, PatchSet

LEMMA SignalledType ==
  ASSUME TypeOK, NEW p
  PROVE  Signalled(p) \in [Patches -> OutPlaces]
BY DEF TypeOK, Signalled, OutPlaces

LEMMA LevelType ==
  ASSUME TypeOK, NEW p \in Patches, NEW n \in 0..RingSize,
         patch' = [patch EXCEPT ![p].level = n]
  PROVE  patch' \in [Patches -> PatchRecords]
<1>1. patch \in [Patches -> PatchRecords]
  BY DEF TypeOK, PatchRecords
<1>2. [patch[p] EXCEPT !.level = n] \in PatchRecords
  BY <1>1 DEF PatchRecords
<1> QED
  BY <1>1, <1>2

LEMMA DropType ==
  ASSUME TypeOK, NEW p \in Patches, patch' = [patch EXCEPT ![p].level = 0]
  PROVE  patch' \in [Patches -> PatchRecords]
<1>1. 0 \in 0..RingSize
  BY RingAssumption
<1> QED
  BY <1>1, LevelType

LEMMA InputTypeOK == ASSUME TypeOK, NEW p \in Patches, Input(p) PROVE TypeOK'
<1> USE DEF InGoto, device, threads, InPlaces
<1>1. CASE InOpen(p)
  BY <1>1 DEF TypeOK, InOpen, OpenTo
<1>2. CASE InLoop(p)
  <2>1. patch' \in [Patches -> PatchRecords]
    <3>1. CASE UNCHANGED patch
      BY <3>1 DEF TypeOK, PatchRecords
    <3>2. ASSUME NEW m \in Muls, patch' = [patch EXCEPT ![p].mul = m]
          PROVE  patch' \in [Patches -> PatchRecords]
      <4>1. patch \in [Patches -> PatchRecords]
        BY DEF TypeOK, PatchRecords
      <4>2. [patch[p] EXCEPT !.mul = m] \in PatchRecords
        BY <4>1, RingAssumption DEF PatchRecords
      <4> QED
        BY <3>2, <4>1, <4>2
    <3> QED
      BY <1>2, <3>1, <3>2 DEF InLoop
  <2>2. inpc' \in [Patches -> InPlaces]
    BY <1>2 DEF TypeOK, InLoop
  <2> QED
    BY <1>2, <2>1, <2>2 DEF TypeOK, InLoop, PatchRecords
<1>3. CASE InRead(p)
  BY <1>3, SignalledType DEF TypeOK, InRead, ReadTo, OutPlaces
<1>4. CASE InTrigger(p)
  BY <1>4 DEF TypeOK, InTrigger, ReadTo
<1>5. CASE InSilent(p)
  BY <1>5, SignalledType DEF TypeOK, InSilent, OutPlaces
<1>6. CASE InCheck(p)
  <2>1. InGoto(p, "put") \/ InGoto(p, "full")
    BY <1>6 DEF InCheck
  <2>2. inpc' \in [Patches -> InPlaces]
    BY <2>1 DEF TypeOK
  <2> QED
    BY <1>6, <2>2 DEF TypeOK, InCheck
<1>7. CASE InPut(p)
  <2> DEFINE level == patch[p].level + patch[p].mul
  <2>1. level \in Nat
    BY RingAssumption DEF TypeOK
  <2>2. (IF level > RingSize THEN RingSize ELSE level) \in 0..RingSize
    BY <2>1, RingAssumption
  <2>3. patch' \in [Patches -> PatchRecords]
    BY <1>7, <2>2, LevelType DEF InPut
  <2>4. first_start' \in [Patches -> BOOLEAN]
    BY <1>7 DEF InPut, TypeOK
  <2> QED
    BY <1>7, <2>3, <2>4, SignalledType DEF TypeOK, InPut, OutPlaces, PatchRecords
<1>8. CASE InFull(p)
  <2>1. patch' \in [Patches -> PatchRecords]
    BY <1>8, DropType DEF InFull
  <2>2. inpc' \in [Patches -> InPlaces]
    <3>1. InGoto(p, "loop") \/ InGoto(p, "check")
      BY <1>8 DEF InFull
    <3> QED
      BY <3>1 DEF TypeOK
  <2> QED
    BY <1>8, <2>1, <2>2, SignalledType DEF TypeOK, InFull, OutPlaces, PatchRecords
<1> QED
  BY <1>1, <1>2, <1>3, <1>4, <1>5, <1>6, <1>7, <1>8 DEF Input

\* An output thread that only moves on keeps every type.
LEMMA OutMoveType ==
  ASSUME TypeOK, NEW p \in Patches, NEW q \in OutPlaces, OutGoto(p, q),
         UNCHANGED <<device, patch, inpc, outmul, first_start, client>>
  PROVE  TypeOK'
<1>1. outpc' \in [Patches -> OutPlaces]
  BY DEF TypeOK, OutPlaces, OutGoto
<1> QED
  BY <1>1 DEF TypeOK, OutPlaces, device

LEMMA OutputTypeOK == ASSUME TypeOK, NEW p \in Patches, Output(p) PROVE TypeOK'
<1> USE DEF OutGoto, device, threads
<1>1. CASE OutOpen(p)
  BY <1>1 DEF TypeOK, OutOpen, OpenTo
<1>2. CASE OutLoop(p)
  <2>1. outmul' \in [Patches -> 1..RingSize]
    BY <1>2 DEF TypeOK, OutLoop
  <2>2. OutGoto(p, "done") \/ OutGoto(p, "test")
    BY <1>2 DEF OutLoop
  <2>3. outpc' \in [Patches -> OutPlaces]
    BY <2>2 DEF TypeOK, OutPlaces
  <2>4. UNCHANGED device /\ patch' = patch /\ inpc' = inpc
        /\ first_start' = first_start /\ client' = client
    BY <1>2 DEF OutLoop
  <2> HIDE DEF OutGoto
  <2> QED
    BY <2>1, <2>3, <2>4 DEF TypeOK, OutPlaces
<1>3. CASE OutTest(p)
  <2>1. PICK q \in {"waiting", "woken"} : OutGoto(p, q)
    BY <1>3 DEF OutTest
  <2>2. UNCHANGED <<device, patch, inpc, outmul, first_start, client>>
    BY <1>3 DEF OutTest
  <2> HIDE DEF OutGoto, device
  <2> QED
    BY <2>1, <2>2, OutMoveType DEF OutPlaces
<1>4. CASE OutTimeout(p)
  <2>1. OutGoto(p, "woken") /\ UNCHANGED <<device, patch, inpc, outmul, first_start, client>>
    BY <1>4 DEF OutTimeout
  <2> HIDE DEF OutGoto, device
  <2> QED
    BY <2>1, OutMoveType DEF OutPlaces
<1>5. CASE OutWoken(p)
  <2>1. PICK q \in {"done", "level"} : OutGoto(p, q)
    BY <1>5 DEF OutWoken
  <2>2. UNCHANGED <<device, patch, inpc, outmul, first_start, client>>
    BY <1>5 DEF OutWoken
  <2> HIDE DEF OutGoto, device
  <2> QED
    BY <2>1, <2>2, OutMoveType DEF OutPlaces
<1>6. CASE OutLevel(p)
  <2>1. PICK q \in {"take", "loop"} : OutGoto(p, q)
    BY <1>6 DEF OutLevel
  <2>2. UNCHANGED <<device, patch, inpc, outmul, first_start, client>>
    BY <1>6 DEF OutLevel
  <2> HIDE DEF OutGoto, device
  <2> QED
    BY <2>1, <2>2, OutMoveType DEF OutPlaces
<1>7. CASE OutTake(p)
  <2> DEFINE n == IF patch[p].level < outmul[p] THEN patch[p].level ELSE outmul[p]
  <2>1. patch[p].level - n \in 0..RingSize
    BY RingAssumption DEF TypeOK
  <2>2. patch' = [patch EXCEPT ![p].level = patch[p].level - n]
    BY <1>7 DEF OutTake
  <2>3. patch' \in [Patches -> PatchRecords]
    BY <2>1, <2>2, LevelType
  <2> QED
    BY <1>7, <2>3 DEF TypeOK, OutTake, PatchRecords
<1>d. DropIfChanged(p) => patch' \in [Patches -> PatchRecords]
  <2>1. CASE UNCHANGED patch
    BY <2>1 DEF TypeOK, PatchRecords
  <2>2. CASE patch' = [patch EXCEPT ![p].level = 0]
    BY <2>2, DropType
  <2> QED
    BY <2>1, <2>2 DEF DropIfChanged
<1>8. CASE OutWrite(p)
  <2>1. outpc' \in [Patches -> OutPlaces]
    BY <1>8 DEF TypeOK, OutWrite, OutPlaces
  <2> QED
    BY <1>8, <1>d, <2>1 DEF TypeOK, OutWrite, PatchRecords, OutPlaces
<1>9. CASE OutTrigger(p)
  <2>1. outpc' \in [Patches -> OutPlaces]
    BY <1>9 DEF TypeOK, OutTrigger, OutPlaces
  <2> QED
    BY <1>9, <1>d, <2>1 DEF TypeOK, OutTrigger, PatchRecords, OutPlaces
<1> QED
  BY <1>1, <1>2, <1>3, <1>4, <1>5, <1>6, <1>7, <1>8, <1>9 DEF Output

LEMMA AllocType ==
  ASSUME TypeOK, NEW d \in Sources, NEW call \in {"create", "linein"}, NEW set \in 0..MaxSets,
         AllocPatch(d, call, set)
  PROVE  /\ audio_patch' \in Patches \cup {NULL}
         /\ patch' \in [Patches -> PatchRecords]
         /\ client' \in Calls
<1>1. PICK p \in Patches :
        /\ audio_patch' = p
        /\ \/ /\ patch' = [patch EXCEPT ![p] = [NoPatch EXCEPT !.mem = "live", !.src = d,
                                                               !.ring = "live"]]
              /\ client' = [pc |-> "start_in", call |-> call, set |-> set, src |-> d,
                            patch |-> p]
           \/ /\ patch' = [patch EXCEPT ![p] = [NoPatch EXCEPT !.mem = "freed", !.src = d]]
              /\ client' = [pc |-> "failed", call |-> call, set |-> set, src |-> d,
                            patch |-> p]
  BY DEF AllocPatch
<1>2. /\ [NoPatch EXCEPT !.mem = "live", !.src = d, !.ring = "live"] \in PatchRecords
      /\ [NoPatch EXCEPT !.mem = "freed", !.src = d] \in PatchRecords
  BY NoPatchType DEF PatchRecords
<1>3. patch \in [Patches -> PatchRecords]
  BY DEF TypeOK, PatchRecords
<1>4. client' \in Calls
  BY <1>1 DEF Calls
<1> QED
  BY <1>1, <1>2, <1>3, <1>4

LEMMA EnterReleaseType ==
  ASSUME TypeOK, NEW call \in {"linein", "release"}, NEW s \in patch_list,
         EnterRelease(call, s.id)
  PROVE  client' \in Calls
BY BoundsAssumption DEF TypeOK, EnterRelease, Calls, SetIds, Sources

LEMMA AsLineType == ASSUME NEW s \in PatchSets PROVE AsLine(s) \in PatchSets
BY DEF AsLine, PatchSets, DevSource, Sources

\* Steps that only take sets off the list and end what the device does with them
LEMMA FewerSetsParser ==
  ASSUME TypeOK, patch_list' \subseteq patch_list, audio_patching' \in BOOLEAN,
         patch_src' \in PatchSrcs, tuner2mix' \in BOOLEAN,
         aml_parser' \in Parsers \cup {NULL},
         parser' \in [Parsers -> {"none", "live", "freed"}],
         UNCHANGED <<audio_patch, patch, threads, client>>
  PROVE  TypeOK'
<1>1. patch_list' \subseteq PatchSets
  BY DEF TypeOK, PatchSets
<1> QED
  BY <1>1 DEF TypeOK, PatchSets, threads

LEMMA FewerSetsType ==
  ASSUME TypeOK, patch_list' \subseteq patch_list, audio_patching' \in BOOLEAN,
         patch_src' \in PatchSrcs,
         UNCHANGED <<audio_patch, tuner2mix, aml_parser, parser, patch, threads, client>>
  PROVE  TypeOK'
BY FewerSetsParser DEF TypeOK

LEMMA EndReleaseType ==
  ASSUME TypeOK, NEW id, EndRelease(id), client' \in Calls, UNCHANGED <<audio_patch, patch>>
  PROVE  TypeOK'
<1>1. patch_list' \subseteq PatchSets
  BY DEF TypeOK, EndRelease, PatchSets
<1>2. audio_patching' \in BOOLEAN /\ patch_src' \in PatchSrcs
  BY DEF TypeOK, EndRelease, SrcAfterRelease, PatchSrcs
<1>3. UNCHANGED <<tuner2mix, aml_parser, parser, threads, audio_patch, patch>>
  BY DEF EndRelease
<1> QED
  BY <1>1, <1>2, <1>3 DEF TypeOK, PatchSets, Calls, threads

\* The registry and the calls of the client.
LEMMA NewCallTypeOK == ASSUME TypeOK, NewCall PROVE TypeOK'
<1> USE DEF device, threads
<1>1. CASE CreatePlayback
  <2>1. MixSource \in [type : {"mix", "device"}, dev : Sources \cup {"none"}]
    BY DEF MixSource
  <2>2. patch_list' \subseteq PatchSets
    BY <1>1, <2>1, RegisterType DEF CreatePlayback
  <2> QED
    BY <1>1, <2>2 DEF TypeOK, CreatePlayback, PatchSets
<1>2. ASSUME NEW d \in InDevices, CreateCapture(d) PROVE TypeOK'
  <2>1. d \in Sources /\ DevSource(d) \in [type : {"mix", "device"}, dev : Sources \cup {"none"}]
    BY <1>2, ClientAssumption DEF DevSource
  <2>2. patch_list' \subseteq PatchSets
    BY <1>2, <2>1, RegisterType DEF CreateCapture
  <2>3. patch_src' \in PatchSrcs /\ tuner2mix' \in BOOLEAN
    BY <1>2, <2>1 DEF TypeOK, CreateCapture, SrcOf, PatchSrcs, Sources
  <2>4. aml_parser' \in Parsers \cup {NULL} /\ parser' \in [Parsers -> {"none", "live", "freed"}]
    BY <1>2 DEF TypeOK, CreateCapture, create_parser
  <2> QED
    BY <1>2, <2>2, <2>3, <2>4 DEF TypeOK, CreateCapture, PatchSets
<1>3. ASSUME NEW d \in InDevices, CreateDevice(d) PROVE TypeOK'
  <2>1. d \in Sources /\ DevSource(d) \in [type : {"mix", "device"}, dev : Sources \cup {"none"}]
    BY <1>3, ClientAssumption DEF DevSource
  <2>2. patch_list' \subseteq PatchSets
    BY <1>3, <2>1, RegisterType DEF CreateDevice
  <2>3. patch_src' \in PatchSrcs
    BY <1>3, <2>1 DEF TypeOK, CreateDevice, SrcOf, PatchSrcs, Sources
  <2>4. /\ audio_patch' \in Patches \cup {NULL}
        /\ patch' \in [Patches -> PatchRecords]
        /\ client' \in Calls
    <3>1. CASE UNCHANGED <<audio_patch, patch, client>>
      BY <3>1 DEF TypeOK, PatchRecords, Calls
    <3>2. CASE AllocPatch(d, "create", NewId)
      <4>1. NewId \in 0..MaxSets
        BY <1>3, SetIdType, BoundsAssumption DEF CreateDevice, register_audio_patch, SetIds
      <4> QED
        BY <3>2, <2>1, <4>1, AllocType
    <3> QED
      BY <1>3, <3>1, <3>2 DEF CreateDevice
  <2> QED
    BY <1>3, <2>2, <2>3, <2>4 DEF TypeOK, CreateDevice, PatchSets, PatchRecords, Calls
<1>4. ASSUME NEW sink \in {"mix", "device"}, CreateRejected(sink) PROVE TypeOK'
  <2>1. patch_list' \subseteq patch_list /\ UNCHANGED <<audio_patching, patch_src>>
        /\ UNCHANGED <<audio_patch, tuner2mix, aml_parser, parser, patch, threads, client>>
    BY <1>4 DEF CreateRejected
  <2> QED
    BY <2>1, FewerSetsType DEF TypeOK
<1>5. ASSUME NEW s \in patch_list, ReleasePlayback(s) PROVE TypeOK'
  <2>1. patch_list' \subseteq patch_list /\ UNCHANGED <<audio_patching, patch_src>>
        /\ UNCHANGED <<audio_patch, tuner2mix, aml_parser, parser, patch, threads, client>>
    BY <1>5 DEF ReleasePlayback, unregister_audio_patch
  <2> QED
    BY <2>1, FewerSetsType DEF TypeOK
<1>6. ASSUME NEW s \in patch_list, ReleaseCapture(s) PROVE TypeOK'
  <2>1. patch_list' \subseteq patch_list
    BY <1>6 DEF ReleaseCapture, unregister_audio_patch
  <2>2. /\ audio_patching' \in BOOLEAN /\ patch_src' \in PatchSrcs /\ tuner2mix' \in BOOLEAN
        /\ UNCHANGED <<audio_patch, patch, threads, client>>
    BY <1>6 DEF TypeOK, ReleaseCapture, SrcAfterRelease, PatchSrcs
  <2>3. aml_parser' \in Parsers \cup {NULL} /\ parser' \in [Parsers -> {"none", "live", "freed"}]
    BY <1>6 DEF TypeOK, ReleaseCapture, release_parser
  <2> QED
    BY <2>1, <2>2, <2>3, FewerSetsParser
<1>7. ASSUME NEW s \in patch_list, ReleaseDevice(s) PROVE TypeOK'
  <2>1. CASE EnterRelease("release", s.id) /\ UNCHANGED <<device, patch, threads>>
    BY <2>1, EnterReleaseType DEF TypeOK, Calls
  <2>2. CASE EndRelease(s.id) /\ UNCHANGED <<audio_patch, patch, client>>
    BY <2>2, EndReleaseType DEF TypeOK, Calls
  <2> QED
    BY <1>7, <2>1, <2>2 DEF ReleaseDevice
<1>8. ASSUME NEW s \in patch_list, LineInDevice(s) PROVE TypeOK'
  BY <1>8, EnterReleaseType DEF TypeOK, LineInDevice, Calls
<1>9. ASSUME NEW s \in patch_list, LineInCapture(s) PROVE TypeOK'
  <2>1. AsLine(s) \in PatchSets
    BY AsLineType DEF TypeOK, PatchSets
  <2> QED
    BY <1>9, <2>1 DEF TypeOK, LineInCapture, release_parser, PatchSets
<1>10. CASE TunerIn
  BY <1>10 DEF TypeOK, TunerIn, PatchSrcs
<1> QED
  BY <1>1, <1>2, <1>3, <1>4, <1>5, <1>6, <1>7, <1>8, <1>9, <1>10 DEF NewCall

\* A call that has begun works on one patch; only its place changes.
LEMMA ClientType ==
  ASSUME TypeOK, NEW pc \in {"start_out", "undo", "parse", "callback", "created", "failed",
                             "signal", "stop_in", "join_in", "join_out", "free", "released"},
         client' = [client EXCEPT !.pc = pc]
  PROVE  client' \in Calls
BY DEF TypeOK, Calls

LEMMA IdleType == Idle \in Calls
BY BoundsAssumption DEF Idle, Calls, Sources

LEMMA FreePatchType ==
  ASSUME TypeOK, NEW p \in Patches \cup {NULL}, FreePatch(p)
  PROVE  patch' \in [Patches -> PatchRecords]
<1>1. patch \in [Patches -> PatchRecords]
  BY DEF TypeOK, PatchRecords
<1>2. p \in Patches => Freed(p) \in PatchRecords
  BY FreedType
<1> QED
  BY <1>1, <1>2 DEF FreePatch

\* One of the fields a call sets
LEMMA FieldType ==
  ASSUME TypeOK, NEW p \in Patches \cup {NULL}, NEW b \in BOOLEAN,
         \/ patch' = [patch EXCEPT ![p].in_exit = b]
         \/ patch' = [patch EXCEPT ![p].out_exit = b]
         \/ patch' = [patch EXCEPT ![p].parse = b]
         \/ patch' = [patch EXCEPT ![p].callback = "live"]
  PROVE  patch' \in [Patches -> PatchRecords]
<1>1. patch \in [Patches -> PatchRecords]
  BY DEF TypeOK, PatchRecords
<1>2. p \in Patches => /\ [patch[p] EXCEPT !.in_exit = b] \in PatchRecords
                       /\ [patch[p] EXCEPT !.out_exit = b] \in PatchRecords
                       /\ [patch[p] EXCEPT !.parse = b] \in PatchRecords
                       /\ [patch[p] EXCEPT !.callback = "live"] \in PatchRecords
  BY <1>1 DEF PatchRecords
<1> QED
  BY <1>1, <1>2

LEMMA InCallTypeOK == ASSUME TypeOK, InCall PROVE TypeOK'
<1> USE DEF device, threads
<1> DEFINE p == client.patch
<1>0. p \in Patches \cup {NULL}
  BY DEF TypeOK
<1>a. /\ patch \in [Patches -> PatchRecords]
      /\ inpc \in [Patches -> InPlaces] /\ outpc \in [Patches -> OutPlaces]
      /\ client \in Calls
  BY DEF TypeOK, PatchRecords, InPlaces, OutPlaces, Calls
<1>1. CASE StartInput
  <2>1. client' \in Calls
    BY <1>1, ClientType DEF StartInput
  <2>2. patch' \in [Patches -> PatchRecords]
    BY <1>0, <1>1, <1>a, FreePatchType DEF StartInput
  <2>3. inpc' \in [Patches -> InPlaces]
    <3>1. "open" \in InPlaces
      BY DEF InPlaces
    <3> QED
      BY <1>1, <1>a, <3>1 DEF StartInput
  <2>4. first_start' \in [Patches -> BOOLEAN]
    BY <1>1 DEF TypeOK, StartInput
  <2>5. UNCHANGED <<patch_list, audio_patch, audio_patching, patch_src, tuner2mix, aml_parser,
                    parser, outpc, outmul>>
    BY <1>1 DEF StartInput
  <2> QED
    BY <2>1, <2>2, <2>3, <2>4, <2>5 DEF TypeOK, PatchRecords, InPlaces, Calls
<1>2. CASE StartOutput
  <2>1. client' \in Calls
    BY <1>2, ClientType DEF StartOutput
  <2>2. patch' \in [Patches -> PatchRecords]
    BY <1>0, <1>2, <1>a, FieldType DEF StartOutput
  <2>3. outpc' \in [Patches -> OutPlaces]
    BY <1>2, <1>a DEF StartOutput, OutPlaces
  <2> QED
    BY <1>2, <2>1, <2>2, <2>3 DEF TypeOK, StartOutput, PatchRecords, OutPlaces, Calls
<1>3. CASE UndoCreate
  <2>1. client' \in Calls
    BY <1>3, ClientType DEF UndoCreate
  <2>2. patch' \in [Patches -> PatchRecords]
    BY <1>0, <1>3, FreePatchType DEF UndoCreate
  <2> QED
    BY <1>3, <2>1, <2>2 DEF TypeOK, UndoCreate, PatchRecords, Calls
<1>4. CASE CreateParse
  <2>1. client' \in Calls
    BY <1>4, ClientType DEF CreateParse
  <2>2. patch' \in [Patches -> PatchRecords]
    <3>1. PICK ok \in BOOLEAN :
            patch' = [patch EXCEPT ![p].parse = ok /\ patch[p].src \in {"hdmi", "spdif"}]
      BY <1>4 DEF CreateParse
    <3>2. (ok /\ patch[p].src \in {"hdmi", "spdif"}) \in BOOLEAN
      OBVIOUS
    <3> QED
      BY <1>0, <3>1, <3>2, FieldType
  <2> QED
    BY <1>4, <2>1, <2>2 DEF TypeOK, CreateParse, PatchRecords, Calls
<1>5. CASE InitCallback
  <2>1. client' \in Calls
    BY <1>5, ClientType DEF InitCallback
  <2>2. patch' \in [Patches -> PatchRecords]
    BY <1>0, <1>5, <1>a, FieldType DEF InitCallback
  <2> QED
    BY <1>5, <2>1, <2>2 DEF TypeOK, InitCallback, PatchRecords, Calls
<1>6. CASE ReturnCreated
  <2>1. patch_list' \subseteq PatchSets
    BY <1>6, AsLineType DEF TypeOK, ReturnCreated, PatchSets
  <2>2. audio_patching' \in BOOLEAN /\ patch_src' \in PatchSrcs
    BY <1>6 DEF TypeOK, ReturnCreated, PatchSrcs
  <2> QED
    BY <1>6, <2>1, <2>2, IdleType DEF TypeOK, ReturnCreated, PatchSets, Calls
<1>7. CASE ReturnFailed
  <2>1. patch_list' \subseteq PatchSets
    BY <1>7, AsLineType DEF TypeOK, ReturnFailed, PatchSets
  <2> QED
    BY <1>7, <2>1, IdleType DEF TypeOK, ReturnFailed, PatchSets, Calls
<1>8. CASE StopOutput
  <2>1. client' \in Calls
    BY <1>8, ClientType DEF StopOutput
  <2>2. patch' \in [Patches -> PatchRecords]
    BY <1>0, <1>8, <1>a, FieldType DEF StopOutput
  <2> QED
    BY <1>8, <2>1, <2>2 DEF TypeOK, StopOutput, PatchRecords, Calls
<1>9. CASE SignalOutput
  <2>1. client' \in Calls
    BY <1>9, ClientType DEF SignalOutput
  <2> QED
    BY <1>9, <2>1, SignalledType DEF TypeOK, SignalOutput, OutPlaces, Calls
<1>10. CASE StopInput
  <2>1. client' \in Calls
    BY <1>10, ClientType DEF StopInput
  <2>2. patch' \in [Patches -> PatchRecords]
    BY <1>0, <1>10, <1>a, FieldType DEF StopInput
  <2> QED
    BY <1>10, <2>1, <2>2 DEF TypeOK, StopInput, PatchRecords, Calls
<1>11. CASE JoinInput
  BY <1>11, ClientType DEF TypeOK, JoinInput, Calls
<1>12. CASE JoinOutput
  BY <1>12, ClientType DEF TypeOK, JoinOutput, Calls
<1>13. CASE FreeReleased
  <2>1. client' \in Calls
    BY <1>13, ClientType DEF FreeReleased
  <2>2. patch' \in [Patches -> PatchRecords]
    BY <1>0, <1>13, FreePatchType DEF FreeReleased
  <2> QED
    BY <1>13, <2>1, <2>2 DEF TypeOK, FreeReleased, PatchRecords, Calls
<1>14. CASE ReturnReleased
  <2>1. EndRelease(client.set) /\ client' \in Calls /\ UNCHANGED <<audio_patch, patch>>
    BY <1>14, IdleType DEF ReturnReleased
  <2> QED
    BY <2>1, EndReleaseType
<1>15. CASE LineInCreate
  <2>1. /\ audio_patch' \in Patches \cup {NULL}
        /\ patch' \in [Patches -> PatchRecords]
        /\ client' \in Calls
    <3>1. "line" \in Sources /\ client.set \in 0..MaxSets
      BY DEF TypeOK, Sources
    <3> QED
      BY <1>15, <3>1, AllocType DEF LineInCreate
  <2> QED
    BY <1>15, <2>1 DEF TypeOK, LineInCreate, PatchRecords, Calls
<1> QED
  BY <1>1, <1>2, <1>3, <1>4, <1>5, <1>6, <1>7, <1>8, <1>9, <1>10, <1>11, <1>12, <1>13,
     <1>14, <1>15 DEF InCall

LEMMA InitTypeOK == Init => TypeOK
<1> SUFFICES ASSUME Init PROVE TypeOK
  OBVIOUS
<1>1. patch \in [Patches -> PatchRecords]
  BY NoPatchType DEF Init
<1>2. client \in Calls
  BY IdleType DEF Init
<1>3. outmul \in [Patches -> 1..RingSize]
  BY RingAssumption DEF Init
<1> QED
  BY <1>1, <1>2, <1>3 DEF Init, TypeOK, PatchRecords, Calls, PatchSrcs

\* Every state has its type, for any number of patches and sets and any failures.
THEOREM TypeCorrect == Spec => []TypeOK
<1>1. ASSUME TypeOK, [Next]_vars PROVE TypeOK'
  <2>1. CASE UNCHANGED vars
    BY <2>1, <1>1 DEF vars, TypeOK
  <2>2. CASE Next
    BY <1>1, <2>2, NewCallTypeOK, InCallTypeOK, InputTypeOK, OutputTypeOK DEF Next
  <2> QED
    BY <1>1, <2>1, <2>2
<1> QED
  BY <1>1, InitTypeOK, PTL DEF Spec

-----------------------------------------------------------------------------
(* The steps of the two threads *)

\* What every step of a thread leaves as it is: a thread ends and never begins,
\* a patch is neither made nor freed, and a put has its space.
ThreadKeeps ==
  /\ UNCHANGED <<audio_patch, audio_patching, client>>
  /\ \A q \in Patches :
       /\ InRuns(q)' => InRuns(q)
       /\ OutRuns(q)' => OutRuns(q)
       /\ patch'[q].mem = patch[q].mem
       /\ patch'[q].ring = patch[q].ring
       /\ patch'[q].callback = patch[q].callback
       /\ inpc'[q] = "put" => patch'[q].level + patch'[q].mul <= RingSize

LEMMA ThreadKeepsInv == ASSUME PatchInv, ThreadKeeps PROVE PatchInv'
<1>1. LivePatchInv'
  BY DEF PatchInv, ThreadKeeps, LivePatchInv
<1>2. ClientInv'
  BY DEF PatchInv, ThreadKeeps, ClientInv, LivePatchInv, NULL
<1>3. DeviceInv'
  BY DEF PatchInv, ThreadKeeps, DeviceInv
<1> QED
  BY <1>1, <1>2, <1>3 DEF PatchInv

\* A signal ends a wait and no thread.
LEMMA SignalledRuns ==
  ASSUME TypeOK, NEW p \in Patches, outpc' = Signalled(p), NEW q \in Patches, OutRuns(q)'
  PROVE  OutRuns(q)
BY DEF TypeOK, Signalled, OutRuns

LEMMA InputKeeps == ASSUME TypeOK, LivePatchInv, NEW p \in Patches, Input(p) PROVE ThreadKeeps
<1> USE DEF InGoto, device, threads, InRuns
<1>1. CASE InOpen(p)
  BY <1>1 DEF TypeOK, LivePatchInv, ThreadKeeps, InOpen, OpenTo, OutRuns
<1>2. CASE InLoop(p)
  BY <1>2 DEF TypeOK, LivePatchInv, ThreadKeeps, InLoop, OutRuns
<1>3. CASE InRead(p)
  <2>1. \A q \in Patches : OutRuns(q)' => OutRuns(q)
    BY <1>3, SignalledRuns DEF InRead, OutRuns
  <2> QED
    BY <1>3, <2>1 DEF TypeOK, LivePatchInv, ThreadKeeps, InRead, ReadTo
<1>4. CASE InTrigger(p)
  BY <1>4 DEF TypeOK, LivePatchInv, ThreadKeeps, InTrigger, ReadTo, OutRuns
<1>5. CASE InSilent(p)
  <2>1. \A q \in Patches : OutRuns(q)' => OutRuns(q)
    BY <1>5, SignalledRuns DEF InSilent
  <2> QED
    BY <1>5, <2>1 DEF TypeOK, LivePatchInv, ThreadKeeps, InSilent
<1>6. CASE InCheck(p)
  <2>1. RingSize - patch[p].level >= patch[p].mul => patch[p].level + patch[p].mul <= RingSize
    BY RingAssumption DEF TypeOK
  <2> QED
    BY <1>6, <2>1 DEF TypeOK, LivePatchInv, ThreadKeeps, InCheck, OutRuns
<1>7. CASE InPut(p)
  <2>1. \A q \in Patches : OutRuns(q)' => OutRuns(q)
    BY <1>7, SignalledRuns DEF InPut, OutRuns
  <2> QED
    BY <1>7, <2>1 DEF TypeOK, LivePatchInv, ThreadKeeps, InPut
<1>8. CASE InFull(p)
  <2>1. \A q \in Patches : OutRuns(q)' => OutRuns(q)
    BY <1>8, SignalledRuns DEF InFull
  <2> QED
    BY <1>8, <2>1 DEF TypeOK, LivePatchInv, ThreadKeeps, InFull
<1> QED
  BY <1>1, <1>2, <1>3, <1>4, <1>5, <1>6, <1>7, <1>8 DEF Input

LEMMA OutputKeeps == ASSUME TypeOK, LivePatchInv, NEW p \in Patches, Output(p) PROVE ThreadKeeps
<1> USE DEF OutGoto, device, threads, InRuns, OutRuns
<1>1. CASE OutOpen(p)
  BY <1>1 DEF TypeOK, LivePatchInv, ThreadKeeps, OutOpen, OpenTo
<1>2. CASE OutLoop(p)
  BY <1>2 DEF TypeOK, LivePatchInv, ThreadKeeps, OutLoop
<1>3. CASE OutTest(p)
  BY <1>3 DEF TypeOK, LivePatchInv, ThreadKeeps, OutTest
<1>4. CASE OutTimeout(p)
  BY <1>4 DEF TypeOK, LivePatchInv, ThreadKeeps, OutTimeout
<1>5. CASE OutWoken(p)
  BY <1>5 DEF TypeOK, LivePatchInv, ThreadKeeps, OutWoken
<1>6. CASE OutLevel(p)
  BY <1>6 DEF TypeOK, LivePatchInv, ThreadKeeps, OutLevel
<1>7. CASE OutTake(p)
  <2> DEFINE n == IF patch[p].level < outmul[p] THEN patch[p].level ELSE outmul[p]
  <2>1. patch[p].level - n <= patch[p].level
    BY RingAssumption DEF TypeOK
  <2> QED
    BY <1>7, <2>1, RingAssumption DEF TypeOK, LivePatchInv, ThreadKeeps, OutTake
<1>l. 0 <= patch[p].level
  BY RingAssumption DEF TypeOK
<1>8. CASE OutWrite(p)
  BY <1>8, <1>l, RingAssumption
     DEF TypeOK, LivePatchInv, ThreadKeeps, OutWrite, DropIfChanged
<1>9. CASE OutTrigger(p)
  BY <1>9, <1>l, RingAssumption
     DEF TypeOK, LivePatchInv, ThreadKeeps, OutTrigger, DropIfChanged
<1> QED
  BY <1>1, <1>2, <1>3, <1>4, <1>5, <1>6, <1>7, <1>8, <1>9 DEF Output

-----------------------------------------------------------------------------
(* The steps of the client *)

\* A slot that is not live has no thread, so what is put there harms nobody.
LEMMA AllocInv ==
  ASSUME TypeOK, PatchInv, NEW d \in Sources, NEW call, NEW set, AllocPatch(d, call, set),
         UNCHANGED <<inpc, outpc>>
  PROVE  PatchInv'
<1>1. PICK p \in Patches :
        /\ patch[p].mem # "live" /\ audio_patch' = p
        /\ \/ /\ patch' = [patch EXCEPT ![p] = [NoPatch EXCEPT !.mem = "live", !.src = d,
                                                               !.ring = "live"]]
              /\ client' = [pc |-> "start_in", call |-> call, set |-> set, src |-> d,
                            patch |-> p]
           \/ /\ patch' = [patch EXCEPT ![p] = [NoPatch EXCEPT !.mem = "freed", !.src = d]]
              /\ client' = [pc |-> "failed", call |-> call, set |-> set, src |-> d,
                            patch |-> p]
  BY DEF AllocPatch
<1>2. ~InRuns(p) /\ ~OutRuns(p)
  BY <1>1 DEF PatchInv, LivePatchInv
<1>3. p # NULL
  BY DEF Patches, NULL
<1>a. \A q \in Patches \ {p} : patch'[q] = patch[q]
  BY <1>1 DEF TypeOK
<1>b. /\ patch'[p].mem = "live" => patch'[p].ring = "live" /\ patch'[p].callback = "none"
      /\ client'.pc \in {"start_in", "failed"} /\ client'.patch = p
      /\ client'.pc = "start_in" => patch'[p].mem = "live"
  <2>1. patch'[p] \in {[NoPatch EXCEPT !.mem = "live", !.src = d, !.ring = "live"],
                      [NoPatch EXCEPT !.mem = "freed", !.src = d]}
    BY <1>1 DEF TypeOK
  <2>2. patch'[p].mem = "live" => patch'[p].ring = "live" /\ patch'[p].callback = "none"
    BY <2>1 DEF NoPatch
  <2>3. client'.pc = "start_in" => patch'[p].mem = "live"
    <3>1. CASE patch' = [patch EXCEPT ![p] = [NoPatch EXCEPT !.mem = "live", !.src = d,
                                                           !.ring = "live"]]
      <4>1. patch'[p] = [NoPatch EXCEPT !.mem = "live", !.src = d, !.ring = "live"]
        BY <3>1 DEF TypeOK
      <4> QED
        BY <4>1 DEF NoPatch
    <3>2. CASE client'.pc = "failed"
      BY <3>2
    <3> QED
      BY <1>1, <3>1, <3>2
  <2> QED
    BY <1>1, <2>2, <2>3
<1>c. \A q \in Patches : (InRuns(q)' <=> InRuns(q)) /\ (OutRuns(q)' <=> OutRuns(q))
  BY DEF InRuns, OutRuns
<1>4. LivePatchInv'
  <2> SUFFICES ASSUME NEW q \in Patches
               PROVE  /\ InRuns(q)' \/ OutRuns(q)' => patch'[q].mem = "live"
                      /\ patch'[q].mem = "live" =>
                           patch'[q].ring = "live" /\ patch'[q].callback # "freed"
                      /\ inpc'[q] = "put" => patch'[q].level + patch'[q].mul <= RingSize
    BY DEF LivePatchInv, InRuns, OutRuns
  <2>1. CASE q = p
    BY <1>2, <1>b, <1>c, <2>1 DEF InRuns
  <2>2. CASE q # p
    BY <1>a, <1>c, <2>2 DEF PatchInv, LivePatchInv
  <2> QED
    BY <2>1, <2>2
<1>5. ClientInv'
  BY <1>2, <1>b, <1>c DEF ClientInv, InRuns, OutRuns
<1>6. DeviceInv'
  BY <1>1, <1>3 DEF DeviceInv
<1> QED
  BY <1>4, <1>5, <1>6 DEF PatchInv

\* What a free needs: no thread of the patch runs.
LEMMA FreeInv ==
  ASSUME TypeOK, PatchInv, NEW p \in Patches, FreePatch(p), ~InRuns(p), ~OutRuns(p),
         UNCHANGED <<inpc, outpc>>
  PROVE  LivePatchInv'
<1>1. /\ patch'[p].mem = "freed"
      /\ \A q \in Patches : q # p => patch'[q] = patch[q]
  BY DEF TypeOK, FreePatch, Freed, NoPatch
<1>2. inpc[p] # "put"
  BY DEF InRuns
<1> QED
  BY <1>1, <1>2 DEF PatchInv, LivePatchInv, InRuns, OutRuns

LEMMA NewCallInv == ASSUME TypeOK, PatchInv, NewCall PROVE PatchInv'
<1> USE DEF device, threads
<1> DEFINE Quiet == UNCHANGED <<patch, inpc, outpc, client, audio_patch, audio_patching>>
<1>a. Quiet => PatchInv'
  BY DEF PatchInv, LivePatchInv, ClientInv, DeviceInv, InRuns, OutRuns
<1>b. ASSUME NEW call, NEW id, client.pc = "idle", audio_patch # NULL, EnterRelease(call, id),
             UNCHANGED <<patch, inpc, outpc, audio_patch, audio_patching>>
      PROVE  PatchInv'
  <2>1. LivePatchInv'
    BY <1>b DEF PatchInv, LivePatchInv, InRuns, OutRuns
  <2>2. ClientInv'
    BY <1>b DEF TypeOK, ClientInv, EnterRelease
  <2>3. DeviceInv'
    BY <1>b DEF DeviceInv, EnterRelease
  <2> QED
    BY <2>1, <2>2, <2>3 DEF PatchInv
<1>1. CASE CreatePlayback
  BY <1>1, <1>a DEF CreatePlayback
<1>2. ASSUME NEW d \in InDevices, CreateCapture(d) PROVE PatchInv'
  BY <1>2, <1>a DEF CreateCapture
<1>3. ASSUME NEW d \in InDevices, CreateDevice(d) PROVE PatchInv'
  <2>1. CASE UNCHANGED <<audio_patch, patch, client>>
    BY <1>3, <1>a, <2>1 DEF CreateDevice
  <2>2. CASE AllocPatch(d, "create", NewId)
    BY <1>3, <2>2, AllocInv, ClientAssumption DEF CreateDevice
  <2> QED
    BY <1>3, <2>1, <2>2 DEF CreateDevice
<1>4. ASSUME NEW sink \in {"mix", "device"}, CreateRejected(sink) PROVE PatchInv'
  BY <1>4, <1>a DEF CreateRejected
<1>5. ASSUME NEW s \in patch_list, ReleasePlayback(s) PROVE PatchInv'
  BY <1>5, <1>a DEF ReleasePlayback
<1>6. ASSUME NEW s \in patch_list, ReleaseCapture(s) PROVE PatchInv'
  BY <1>6, <1>a DEF ReleaseCapture
<1>7. ASSUME NEW s \in patch_list, ReleaseDevice(s) PROVE PatchInv'
  <2>1. CASE audio_patching /\ EnterRelease("release", s.id) /\ UNCHANGED <<device, patch, threads>>
    <3>1. audio_patch # NULL
      BY <1>7, <2>1 DEF PatchInv, DeviceInv, ReleaseDevice
    <3> QED
      BY <1>7, <2>1, <3>1, <1>b DEF ReleaseDevice
  <2>2. CASE EndRelease(s.id) /\ UNCHANGED <<audio_patch, patch, client>>
    BY <2>2 DEF PatchInv, LivePatchInv, ClientInv, DeviceInv, InRuns, OutRuns, EndRelease
  <2> QED
    BY <1>7, <2>1, <2>2 DEF ReleaseDevice
<1>8. ASSUME NEW s \in patch_list, LineInDevice(s) PROVE PatchInv'
  BY <1>8, <1>b DEF LineInDevice
<1>9. ASSUME NEW s \in patch_list, LineInCapture(s) PROVE PatchInv'
  BY <1>9, <1>a DEF LineInCapture
<1>10. CASE TunerIn
  BY <1>10, <1>a DEF TunerIn
<1> QED
  BY <1>1, <1>2, <1>3, <1>4, <1>5, <1>6, <1>7, <1>8, <1>9, <1>10 DEF NewCall

LEMMA InCallInv == ASSUME TypeOK, PatchInv, InCall PROVE PatchInv'
<1> USE DEF device, threads
<1> DEFINE p == client.patch
<1>0. client.pc # "idle" /\ p \in Patches
  BY DEF InCall, StartInput, StartOutput, UndoCreate, CreateParse, InitCallback, ReturnCreated,
         ReturnFailed, StopOutput, SignalOutput, StopInput, JoinInput, JoinOutput, FreeReleased,
         ReturnReleased, LineInCreate, PatchInv, ClientInv
<1>a. p # NULL
  BY <1>0 DEF Patches, NULL
<1>1. CASE StartInput
  <2>1. CASE /\ inpc' = [inpc EXCEPT ![p] = "open"]
             /\ client' = [client EXCEPT !.pc = "start_out"]
             /\ UNCHANGED <<patch, outpc, audio_patch, audio_patching>>
    <3>1. LivePatchInv'
      BY <1>0, <1>1, <2>1 DEF TypeOK, PatchInv, LivePatchInv, ClientInv, StartInput, InRuns, OutRuns
    <3>2. ClientInv'
      BY <1>0, <1>1, <2>1 DEF TypeOK, PatchInv, ClientInv, StartInput, InRuns, OutRuns
    <3>3. DeviceInv'
      BY <1>1, <2>1 DEF TypeOK, PatchInv, DeviceInv, StartInput
    <3> QED
      BY <3>1, <3>2, <3>3 DEF PatchInv
  <2>2. CASE /\ FreePatch(p)
             /\ client' = [client EXCEPT !.pc = "failed"]
             /\ UNCHANGED <<inpc, outpc, audio_patch, audio_patching>>
    <3>1. LivePatchInv'
      BY <1>0, <1>1, <2>2, FreeInv DEF PatchInv, ClientInv, StartInput
    <3>2. ClientInv' /\ DeviceInv'
      BY <1>0, <1>1, <2>2 DEF TypeOK, PatchInv, ClientInv, DeviceInv, StartInput
    <3> QED
      BY <3>1, <3>2 DEF PatchInv
  <2> QED
    BY <1>1, <2>1, <2>2 DEF StartInput
<1>2. CASE StartOutput
  <2>1. CASE /\ outpc' = [outpc EXCEPT ![p] = "open"]
             /\ client' = [client EXCEPT !.pc = "parse"]
             /\ UNCHANGED <<patch, inpc, audio_patch, audio_patching>>
    <3>1. LivePatchInv'
      BY <1>0, <1>2, <2>1 DEF TypeOK, PatchInv, LivePatchInv, ClientInv, StartOutput, InRuns, OutRuns
    <3>2. ClientInv' /\ DeviceInv'
      BY <1>0, <1>2, <2>1 DEF TypeOK, PatchInv, ClientInv, DeviceInv, StartOutput
    <3> QED
      BY <3>1, <3>2 DEF PatchInv
  <2>2. CASE /\ patch' = [patch EXCEPT ![p].in_exit = TRUE]
             /\ client' = [client EXCEPT !.pc = "undo"]
             /\ UNCHANGED <<inpc, outpc, audio_patch, audio_patching>>
    <3>1. LivePatchInv'
      BY <1>0, <2>2 DEF TypeOK, PatchInv, LivePatchInv, InRuns, OutRuns
    <3>2. ClientInv' /\ DeviceInv'
      BY <1>0, <1>2, <2>2 DEF TypeOK, PatchInv, ClientInv, DeviceInv, StartOutput, OutRuns
    <3> QED
      BY <3>1, <3>2 DEF PatchInv
  <2> QED
    BY <1>2, <2>1, <2>2 DEF StartOutput
<1>3. CASE UndoCreate
  <2>1. LivePatchInv'
    BY <1>0, <1>3, FreeInv DEF PatchInv, ClientInv, UndoCreate, InRuns
  <2>2. ClientInv' /\ DeviceInv'
    BY <1>0, <1>3 DEF TypeOK, PatchInv, ClientInv, DeviceInv, UndoCreate
  <2> QED
    BY <2>1, <2>2 DEF PatchInv
<1>4. CASE CreateParse
  <2>1. \E b : patch' = [patch EXCEPT ![p].parse = b]
    BY <1>4 DEF CreateParse
  <2>2. LivePatchInv'
    BY <1>0, <1>4, <2>1 DEF TypeOK, PatchInv, LivePatchInv, CreateParse, InRuns, OutRuns
  <2>3. ClientInv' /\ DeviceInv'
    BY <1>0, <1>4 DEF TypeOK, PatchInv, ClientInv, DeviceInv, CreateParse
  <2> QED
    BY <2>2, <2>3 DEF PatchInv
<1>5. CASE InitCallback
  <2>1. LivePatchInv'
    BY <1>0, <1>5 DEF TypeOK, PatchInv, LivePatchInv, InitCallback, InRuns, OutRuns
  <2>2. ClientInv' /\ DeviceInv'
    BY <1>0, <1>5 DEF TypeOK, PatchInv, ClientInv, DeviceInv, InitCallback
  <2> QED
    BY <2>1, <2>2 DEF PatchInv
<1>6. CASE ReturnCreated
  BY <1>a, <1>6 DEF PatchInv, LivePatchInv, ClientInv, DeviceInv, ReturnCreated, Idle, InRuns, OutRuns
<1>7. CASE ReturnFailed
  BY <1>a, <1>7 DEF PatchInv, LivePatchInv, ClientInv, DeviceInv, ReturnFailed, Idle, InRuns, OutRuns
<1>8. CASE StopOutput
  <2>1. LivePatchInv'
    BY <1>0, <1>8 DEF TypeOK, PatchInv, LivePatchInv, StopOutput, InRuns, OutRuns
  <2>2. ClientInv' /\ DeviceInv'
    BY <1>0, <1>8 DEF TypeOK, PatchInv, ClientInv, DeviceInv, StopOutput
  <2> QED
    BY <2>1, <2>2 DEF PatchInv
<1>9. CASE SignalOutput
  <2>1. \A q \in Patches : OutRuns(q)' => OutRuns(q)
    BY <1>0, <1>9, SignalledRuns DEF SignalOutput
  <2>2. LivePatchInv'
    BY <1>9, <2>1 DEF PatchInv, LivePatchInv, SignalOutput, InRuns
  <2>3. ClientInv' /\ DeviceInv'
    BY <1>0, <1>9 DEF TypeOK, PatchInv, ClientInv, DeviceInv, SignalOutput
  <2> QED
    BY <2>2, <2>3 DEF PatchInv
<1>10. CASE StopInput
  <2>1. LivePatchInv'
    BY <1>0, <1>10 DEF TypeOK, PatchInv, LivePatchInv, StopInput, InRuns, OutRuns
  <2>2. ClientInv' /\ DeviceInv'
    BY <1>0, <1>10 DEF TypeOK, PatchInv, ClientInv, DeviceInv, StopInput
  <2> QED
    BY <2>1, <2>2 DEF PatchInv
<1>11. CASE JoinInput
  <2>1. LivePatchInv'
    BY <1>11 DEF PatchInv, LivePatchInv, JoinInput, InRuns, OutRuns
  <2>2. ClientInv' /\ DeviceInv'
    BY <1>0, <1>11 DEF TypeOK, PatchInv, ClientInv, DeviceInv, JoinInput, InRuns
  <2> QED
    BY <2>1, <2>2 DEF PatchInv
<1>12. CASE JoinOutput
  <2>1. LivePatchInv'
    BY <1>12 DEF PatchInv, LivePatchInv, JoinOutput, InRuns, OutRuns
  <2>2. ClientInv' /\ DeviceInv'
    BY <1>0, <1>12 DEF TypeOK, PatchInv, ClientInv, DeviceInv, JoinOutput, InRuns, OutRuns
  <2> QED
    BY <2>1, <2>2 DEF PatchInv
<1>13. CASE FreeReleased
  <2>1. LivePatchInv'
    BY <1>0, <1>13, FreeInv DEF PatchInv, ClientInv, FreeReleased
  <2>2. ClientInv' /\ DeviceInv'
    BY <1>0, <1>13 DEF TypeOK, PatchInv, ClientInv, DeviceInv, FreeReleased
  <2> QED
    BY <2>1, <2>2 DEF PatchInv
<1>14. CASE ReturnReleased
  BY <1>14 DEF PatchInv, LivePatchInv, ClientInv, DeviceInv, ReturnReleased, EndRelease, Idle,
               InRuns, OutRuns
<1>15. CASE LineInCreate
  BY <1>15, AllocInv DEF LineInCreate, Sources
<1> QED
  BY <1>1, <1>2, <1>3, <1>4, <1>5, <1>6, <1>7, <1>8, <1>9, <1>10, <1>11, <1>12, <1>13,
     <1>14, <1>15 DEF InCall

-----------------------------------------------------------------------------
(* The theorems *)

\* What ties a call of the client to the threads of its patch holds in every state.
THEOREM PatchInvariant == Spec => []PatchInv
<1>1. Init => PatchInv
  BY DEF Init, PatchInv, LivePatchInv, ClientInv, DeviceInv, InRuns, OutRuns, NoPatch, Idle
<1>2. ASSUME TypeOK, PatchInv, [Next]_vars PROVE PatchInv'
  <2>1. CASE UNCHANGED vars
    BY <2>1, <1>2 DEF vars, PatchInv, LivePatchInv, ClientInv, DeviceInv, InRuns, OutRuns
  <2>2. ASSUME NEW p \in Patches, Input(p) \/ Output(p) PROVE PatchInv'
    BY <1>2, <2>2, InputKeeps, OutputKeeps, ThreadKeepsInv DEF PatchInv
  <2> QED
    BY <1>2, <2>1, <2>2, NewCallInv, InCallInv DEF Next
<1> QED
  BY <1>1, <1>2, TypeCorrect, PTL DEF Spec

\* Whoever starts and stops patches, in whatever order and with whatever failing, no
\* thread of a patch runs on a freed patch or ring.
THEOREM ThreadsCorrect == Spec => []ThreadsUseLivePatch
<1>1. PatchInv => ThreadsUseLivePatch
  BY DEF PatchInv, LivePatchInv, ThreadsUseLivePatch, Running, InRuns, OutRuns
<1> QED
  BY <1>1, PatchInvariant, PTL

\* The same for the callback handle an input thread, or the write of an output thread,
\* triggers.
THEOREM TriggerCorrect == Spec => []TriggerIsSafe
<1>1. PatchInv => TriggerIsSafe
  BY DEF PatchInv, LivePatchInv, TriggerIsSafe, InRuns, OutRuns
<1> QED
  BY <1>1, PatchInvariant, PTL

\* The space an input thread tested is there when it writes, for every size of the
\* ring and every format.
THEOREM PutCorrect == Spec => []PutFits
<1>1. TypeOK /\ PatchInv => PutFits
  BY RingAssumption DEF PatchInv, LivePatchInv, PutFits, TypeOK
<1> QED
  BY <1>1, TypeCorrect, PatchInvariant, PTL

-----------------------------------------------------------------------------
(* The device's pointer to its patch, for a client that uses one source at a time *)

Live(q) == patch[q].mem = "live"
CreatePCs == {"start_in", "start_out", "undo", "parse", "callback", "created", "failed"}

\* Handles are unique, one device set is registered at most and no capture beside it, and
\* a tuner is captured only while a capture is registered.
SetsInv ==
  /\ \A s, t \in patch_list : s.id = t.id => s = t
  /\ \A s, t \in DeviceSets : s = t
  /\ DeviceSets # {} => CaptureSets = {}
  /\ tuner2mix => CaptureSets # {}

\* Between two calls the device is patching exactly while there is a live patch, which is
\* the one it points at and has a set.
IdleInv ==
  client.pc = "idle" =>
    /\ audio_patching =>
         /\ audio_patch \in Patches /\ Live(audio_patch)
         /\ patch_src \notin {"dtv", "inval"}
         /\ \E s \in DeviceSets : s.src.dev = patch[audio_patch].src
    /\ \A q \in Patches : Live(q) => audio_patching /\ q = audio_patch
    /\ \A s \in DeviceSets : s.src.dev = "hdmi" => audio_patching

\* A call works on the only live patch and on a registered device set.
CallInv ==
  client.pc # "idle" =>
    /\ \A q \in Patches : Live(q) => q = client.patch
    /\ Live(client.patch) <=> client.pc \notin {"failed", "released"}
    /\ client.pc \in CreatePCs \ {"failed"} => patch[client.patch].src = client.src
    /\ \E s \in DeviceSets :
         s.id = client.set /\ (client.call = "create" => s.src.dev = client.src)
    /\ client.call # "release" => patch_src \notin {"dtv", "inval"}
    /\ \/ client.call = "create" /\ client.pc \in CreatePCs /\ ~audio_patching
       \/ /\ client.call = "linein" /\ client.pc \notin {"undo", "failed"}
          /\ audio_patching /\ client.src = "line"
       \/ client.call = "release" /\ client.pc \notin CreatePCs

OwnerInv == SetsInv /\ IdleInv /\ CallInv

LEMMA ThreadOwner ==
  ASSUME TypeOK, PatchInv, OwnerInv, NEW p \in Patches, Input(p) \/ Output(p)
  PROVE  OwnerInv'
<1> USE DEF device, threads
<1>1. UNCHANGED <<device, client>>
  BY DEF Input, InOpen, InLoop, InRead, InTrigger, InSilent, InCheck, InPut, InFull, Output,
         OutOpen, OutLoop, OutTest, OutTimeout, OutWoken, OutLevel, OutTake, OutWrite,
         OutTrigger, DropIfChanged
<1>2. \A q \in Patches : patch'[q].mem = patch[q].mem /\ patch'[q].src = patch[q].src
  <2>1. \/ UNCHANGED patch
        \/ \E m : patch' = [patch EXCEPT ![p].mul = m]
        \/ \E n : patch' = [patch EXCEPT ![p].level = n]
    <3>1. CASE Input(p)
      BY <3>1 DEF Input, InOpen, InLoop, InRead, InTrigger, InSilent, InCheck, InPut, InFull
    <3>2. CASE Output(p)
      BY <3>2 DEF Output, OutOpen, OutLoop, OutTest, OutTimeout, OutWoken, OutLevel, OutTake,
                  OutWrite, OutTrigger, DropIfChanged
    <3> QED
      BY <3>1, <3>2
  <2> QED
    BY <2>1 DEF TypeOK
<1>3. client.pc # "idle" => client.patch \in Patches
  BY DEF PatchInv, ClientInv
<1>4. SetsInv' /\ IdleInv'
  BY <1>1, <1>2 DEF OwnerInv, SetsInv, IdleInv, DeviceSets, CaptureSets, Live
<1>5. CallInv'
  BY <1>1, <1>2, <1>3 DEF OwnerInv, CallInv, DeviceSets, Live
<1> QED
  BY <1>4, <1>5 DEF OwnerInv

\* A device set that goes leaves no other
LEMMA RemoveSets ==
  ASSUME SetsInv, NEW s \in DeviceSets, patch_list' = {t \in patch_list : t.id # s.id},
         UNCHANGED tuner2mix
  PROVE  SetsInv' /\ DeviceSets' = {}
<1>1. DeviceSets' = {}
  BY DEF SetsInv, DeviceSets
<1>2. ~tuner2mix
  BY DEF SetsInv
<1> QED
  BY <1>1, <1>2 DEF SetsInv

LEMMA AsLineFields ==
  ASSUME TypeOK, NEW s \in patch_list
  PROVE  /\ AsLine(s).id = s.id /\ AsLine(s).sink = s.sink
         /\ AsLine(s).src.type = "device" /\ AsLine(s).src.dev = "line"
BY DEF TypeOK, AsLine, DevSource

\* A source that turns out to be the line input keeps its set
LEMMA AsLineSets ==
  ASSUME TypeOK, SetsInv, NEW s \in patch_list, s.src.type = "device",
         patch_list' = (patch_list \ {s}) \cup {AsLine(s)}, UNCHANGED tuner2mix
  PROVE  /\ SetsInv'
         /\ s \in DeviceSets => DeviceSets' = {AsLine(s)}
         /\ s \notin DeviceSets => DeviceSets' = DeviceSets
<1>1. \A t, u \in patch_list' : t.id = u.id => t = u
  BY AsLineFields DEF SetsInv
<1>2. /\ s \in DeviceSets => DeviceSets' = {AsLine(s)}
      /\ s \notin DeviceSets => DeviceSets' = DeviceSets
  BY AsLineFields DEF SetsInv, DeviceSets
<1>3. /\ s \in CaptureSets => CaptureSets' # {}
      /\ s \notin CaptureSets => CaptureSets' = CaptureSets
      /\ CaptureSets = {} => CaptureSets' = {}
  BY AsLineFields DEF CaptureSets
<1> QED
  BY <1>1, <1>2, <1>3 DEF SetsInv

LEMMA AsLineOfId ==
  ASSUME SetsInv, NEW s \in patch_list,
         patch_list' = {IF t.id = s.id THEN AsLine(t) ELSE t : t \in patch_list}
  PROVE  patch_list' = (patch_list \ {s}) \cup {AsLine(s)}
BY DEF SetsInv

\* A step inside a call: the call goes on at pc, with the patch live as long as it should
LEMMA CallGoesOn ==
  ASSUME TypeOK, PatchInv, OwnerInv, client.pc # "idle",
         NEW pc, client' = [client EXCEPT !.pc = pc], pc # "idle",
         pc \in CreatePCs <=> client.pc \in CreatePCs,
         client.call = "linein" => pc \notin {"undo", "failed"},
         client.pc # "failed",
         UNCHANGED <<patch_list, audio_patching, patch_src, tuner2mix>>,
         \A q \in Patches : q # client.patch => patch'[q] = patch[q],
         patch'[client.patch].src = patch[client.patch].src,
         patch'[client.patch].mem = "live" <=> pc \notin {"failed", "released"}
  PROVE  OwnerInv'
<1>1. SetsInv'
  BY DEF OwnerInv, SetsInv, DeviceSets, CaptureSets
<1>2. /\ client'.pc = pc /\ client'.patch = client.patch /\ client'.set = client.set
      /\ client'.call = client.call /\ client'.src = client.src
  BY DEF TypeOK
<1>3. client.patch \in Patches
  BY DEF PatchInv, ClientInv
<1>4. \A q \in Patches : Live(q)' => q = client.patch
  BY DEF OwnerInv, CallInv, Live
<1>5. CallInv'
  BY <1>2, <1>3, <1>4 DEF OwnerInv, CallInv, DeviceSets, Live, CreatePCs
<1>6. IdleInv'
  BY <1>2 DEF IdleInv
<1> QED
  BY <1>1, <1>5, <1>6 DEF OwnerInv

LEMMA InCallOwner ==
  ASSUME "linein" \notin Faults, TypeOK, PatchInv, OwnerInv, InCall
  PROVE  OwnerInv'
<1> USE DEF device, threads
<1>1. client.patch \in Patches /\ client.pc # "idle"
  BY DEF InCall, StartInput, StartOutput, UndoCreate, CreateParse, InitCallback, ReturnCreated,
         ReturnFailed, StopOutput, SignalOutput, StopInput, JoinInput, JoinOutput, FreeReleased,
         ReturnReleased, LineInCreate, PatchInv, ClientInv
<1>2. PICK p \in Patches : p = client.patch
  BY <1>1
<1>3. Live(p) <=> client.pc \notin {"failed", "released"}
  BY <1>1, <1>2 DEF OwnerInv, CallInv
<1>4. ASSUME NEW pc \in {"start_out", "parse", "callback", "created", "signal", "stop_in",
                         "join_in", "join_out", "free"},
             client.pc \notin {"failed", "released"},
             client' = [client EXCEPT !.pc = pc], pc \in CreatePCs <=> client.pc \in CreatePCs,
             UNCHANGED device,
             \/ UNCHANGED patch
             \/ \E b : patch' = [patch EXCEPT ![p].in_exit = b]
             \/ \E b : patch' = [patch EXCEPT ![p].out_exit = b]
             \/ \E b : patch' = [patch EXCEPT ![p].parse = b]
             \/ \E b : patch' = [patch EXCEPT ![p].callback = b]
      PROVE  OwnerInv'
  <2>1. /\ \A q \in Patches : q # p => patch'[q] = patch[q]
        /\ patch'[p].src = patch[p].src /\ patch'[p].mem = patch[p].mem
    BY <1>4 DEF TypeOK
  <2> QED
    BY <1>1, <1>2, <1>3, <1>4, <2>1, CallGoesOn DEF Live
<1>5. ASSUME NEW pc \in {"failed", "released"}, client.pc \notin {"failed", "released"},
             client' = [client EXCEPT !.pc = pc], pc = "failed" => client.call # "linein",
             pc \in CreatePCs <=> client.pc \in CreatePCs,
             UNCHANGED <<patch_list, audio_patching, patch_src, tuner2mix>>, FreePatch(p)
      PROVE  OwnerInv'
  <2>1. /\ \A q \in Patches : q # p => patch'[q] = patch[q]
        /\ patch'[p].src = patch[p].src /\ patch'[p].mem = "freed"
    BY <1>5 DEF TypeOK, FreePatch, Freed, NoPatch
  <2> QED
    BY <1>1, <1>2, <1>5, <2>1, CallGoesOn DEF TypeOK
<1>6. CASE StartInput
  BY <1>2, <1>4, <1>5, <1>6 DEF StartInput, CreatePCs
<1>7. CASE StartOutput
  <2>1. CASE client' = [client EXCEPT !.pc = "parse"]
    BY <1>2, <1>4, <1>7, <2>1 DEF StartOutput, CreatePCs
  <2>2. CASE /\ client.call = "create" /\ client' = [client EXCEPT !.pc = "undo"]
             /\ patch' = [patch EXCEPT ![p].in_exit = TRUE]
    <3>1. /\ \A q \in Patches : q # p => patch'[q] = patch[q]
          /\ patch'[p].src = patch[p].src /\ patch'[p].mem = patch[p].mem
      BY <2>2 DEF TypeOK
    <3> QED
      BY <1>1, <1>2, <1>3, <1>7, <2>2, <3>1, CallGoesOn DEF Live, StartOutput, CreatePCs
  <2> QED
    BY <1>2, <1>7, <2>1, <2>2 DEF StartOutput
<1>8. CASE UndoCreate
  <2>1. client.call # "linein"
    BY <1>8 DEF OwnerInv, CallInv, UndoCreate
  <2> QED
    BY <1>2, <1>5, <1>8, <2>1 DEF UndoCreate, CreatePCs
<1>9. CASE CreateParse \/ InitCallback \/ StopOutput \/ SignalOutput \/ StopInput \/ JoinInput
             \/ JoinOutput
  BY <1>2, <1>4, <1>9
     DEF CreateParse, InitCallback, StopOutput, SignalOutput, StopInput, JoinInput, JoinOutput,
         CreatePCs
<1>10. CASE FreeReleased
  BY <1>2, <1>5, <1>10 DEF FreeReleased, CreatePCs
<1>11. CASE ReturnCreated
  <2>1. /\ client' = Idle /\ client'.pc = "idle" /\ Live(p) /\ audio_patch = p
        /\ UNCHANGED <<audio_patch, patch, tuner2mix>> /\ client.call \in {"create", "linein"}
        /\ patch[p].src = client.src
        /\ \A q \in Patches : Live(q) => q = p
    BY <1>2, <1>3, <1>11
       DEF OwnerInv, CallInv, PatchInv, DeviceInv, ReturnCreated, Idle, CreatePCs
  <2>2. PICK s \in DeviceSets :
          s.id = client.set /\ (client.call = "create" => s.src.dev = client.src)
    BY <1>1 DEF OwnerInv, CallInv
  <2>3. audio_patching' /\ patch_src' \notin {"dtv", "inval"}
    BY <1>1, <1>11 DEF OwnerInv, CallInv, ReturnCreated, CreatePCs
  <2>4. SetsInv' /\ \E t \in DeviceSets' : t.src.dev = patch[p].src
    <3>1. CASE client.call = "create"
      BY <1>11, <2>1, <2>2, <3>1 DEF OwnerInv, SetsInv, DeviceSets, CaptureSets, ReturnCreated
    <3>2. CASE client.call = "linein"
      <4>1. s \in patch_list /\ s.src.type = "device"
        BY DEF DeviceSets
      <4>2. patch_list' = (patch_list \ {s}) \cup {AsLine(s)}
        BY <1>11, <2>2, <3>2, <4>1, AsLineOfId DEF OwnerInv, ReturnCreated
      <4>3. SetsInv' /\ DeviceSets' = {AsLine(s)}
        BY <2>1, <4>1, <4>2, AsLineSets DEF OwnerInv
      <4>4. AsLine(s).src.dev = "line" /\ client.src = "line"
        BY <1>1, <3>2, <4>1, AsLineFields DEF OwnerInv, CallInv
      <4> QED
        BY <2>1, <4>3, <4>4
    <3> QED
      BY <2>1, <3>1, <3>2
  <2>5. IdleInv'
    BY <1>2, <2>1, <2>3, <2>4 DEF IdleInv, Live
  <2> QED
    BY <2>1, <2>4, <2>5 DEF OwnerInv, CallInv
<1>12. CASE ReturnFailed
  <2>1. client.call = "create" /\ ~audio_patching
    BY <1>12 DEF OwnerInv, CallInv, ReturnFailed, CreatePCs
  <2>2. /\ client' = Idle /\ client'.pc = "idle" /\ \A q \in Patches : ~Live(q)
        /\ UNCHANGED <<audio_patching, patch, tuner2mix>>
    BY <1>2, <1>3, <1>12 DEF OwnerInv, CallInv, ReturnFailed, Idle
  <2>3. PICK s \in DeviceSets : s.id = client.set
    BY <1>1 DEF OwnerInv, CallInv
  <2>4. SetsInv' /\ DeviceSets' = {}
    BY <1>12, <2>1, <2>3, RemoveSets DEF OwnerInv, ReturnFailed
  <2>5. IdleInv'
    BY <2>1, <2>2, <2>4 DEF IdleInv, Live
  <2> QED
    BY <2>2, <2>4, <2>5 DEF OwnerInv, CallInv
<1>13. CASE ReturnReleased
  <2>1. /\ client' = Idle /\ client'.pc = "idle" /\ \A q \in Patches : ~Live(q)
        /\ UNCHANGED <<patch, tuner2mix>> /\ ~audio_patching'
    BY <1>2, <1>3, <1>13 DEF OwnerInv, CallInv, ReturnReleased, EndRelease, Idle
  <2>2. PICK s \in DeviceSets : s.id = client.set
    BY <1>1 DEF OwnerInv, CallInv
  <2>3. SetsInv' /\ DeviceSets' = {}
    BY <1>13, <2>2, RemoveSets DEF OwnerInv, ReturnReleased, EndRelease
  <2>4. IdleInv'
    BY <2>1, <2>3 DEF IdleInv, Live
  <2> QED
    BY <2>1, <2>3, <2>4 DEF OwnerInv, CallInv
<1>14. CASE LineInCreate
  <2>1. /\ audio_patching /\ patch_src \notin {"dtv", "inval"} /\ \A q \in Patches : ~Live(q)
        /\ UNCHANGED <<patch_list, audio_patching, patch_src, tuner2mix>>
        /\ \E s \in DeviceSets : s.id = client.set
    BY <1>2, <1>3, <1>14 DEF OwnerInv, CallInv, LineInCreate
  <2>2. PICK q \in Patches :
          /\ patch' = [patch EXCEPT ![q] = [NoPatch EXCEPT !.mem = "live", !.src = "line",
                                                          !.ring = "live"]]
          /\ client' = [pc |-> "start_in", call |-> "linein", set |-> client.set,
                        src |-> "line", patch |-> q]
    BY <1>14 DEF LineInCreate, AllocPatch
  <2>3. /\ patch'[q] = [NoPatch EXCEPT !.mem = "live", !.src = "line", !.ring = "live"]
        /\ \A r \in Patches : r # q => patch'[r] = patch[r]
    BY <2>2 DEF TypeOK
  <2>4. patch'[q].mem = "live" /\ patch'[q].src = "line"
    BY <2>3 DEF NoPatch
  <2>5. SetsInv'
    BY <2>1 DEF OwnerInv, SetsInv, DeviceSets, CaptureSets
  <2>6. CallInv'
    BY <2>1, <2>2, <2>3, <2>4 DEF CallInv, Live, CreatePCs, DeviceSets
  <2> QED
    BY <2>2, <2>5, <2>6 DEF OwnerInv, IdleInv
<1> QED
  BY <1>6, <1>7, <1>8, <1>9, <1>10, <1>11, <1>12, <1>13, <1>14 DEF InCall

\* A handle that no set has
LEMMA NewIdIsNew == FreeIds # {} => \A s \in patch_list : s.id # NewId
BY DEF FreeIds, NewId

LEMMA NewPatchFields ==
  ASSUME NEW d
  PROVE  /\ [NoPatch EXCEPT !.mem = "live", !.src = d, !.ring = "live"].mem = "live"
         /\ [NoPatch EXCEPT !.mem = "live", !.src = d, !.ring = "live"].src = d
         /\ [NoPatch EXCEPT !.mem = "freed", !.src = d].mem = "freed"
         /\ [NoPatch EXCEPT !.mem = "freed", !.src = d].src = d
BY DEF NoPatch

\* A call that ends at once and is not about a device set
LEMMA SetsChange ==
  ASSUME OwnerInv, client.pc = "idle", SetsInv', DeviceSets' = DeviceSets,
         audio_patching => UNCHANGED patch_src,
         UNCHANGED <<audio_patch, audio_patching, patch, client>>
  PROVE  OwnerInv'
<1>1. IdleInv'
  BY DEF OwnerInv, IdleInv, Live
<1> QED
  BY <1>1 DEF OwnerInv, CallInv

LEMMA NewCallOwner ==
  ASSUME Exclusive, TypeOK, PatchInv, OwnerInv, NewCall
  PROVE  OwnerInv'
<1> USE DEF device, threads
<1>1. SetsInv /\ (client.pc = "idle" /\ audio_patching => DeviceSets # {})
  BY DEF OwnerInv, IdleInv
<1>2. CASE CreatePlayback
  <2>1. /\ client.pc = "idle"
        /\ UNCHANGED <<audio_patch, audio_patching, patch, client, patch_src, tuner2mix>>
        /\ patch_list' = (patch_list \ Former(MixSource, "device"))
                           \cup {PatchSet(NewId, MixSource, "device")}
        /\ \A s \in patch_list : s.id # NewId
    BY <1>2, NewIdIsNew DEF CreatePlayback, register_audio_patch
  <2>2. DeviceSets' = DeviceSets /\ CaptureSets' = CaptureSets
    BY <2>1 DEF Former, DeviceSets, CaptureSets, PatchSet, MixSource
  <2>3. SetsInv'
    BY <1>1, <2>1, <2>2 DEF SetsInv, PatchSet
  <2> QED
    BY <2>1, <2>2, <2>3, SetsChange
<1>3. ASSUME NEW d \in InDevices, CreateCapture(d) PROVE OwnerInv'
  <2>1. /\ client.pc = "idle" /\ DeviceSets = {}
        /\ UNCHANGED <<audio_patch, audio_patching, patch, client>>
        /\ patch_list' = (patch_list \ Former(DevSource(d), "mix"))
                           \cup {PatchSet(NewId, DevSource(d), "mix")}
        /\ \A s \in patch_list : s.id # NewId
    BY <1>3, NewIdIsNew DEF CreateCapture, register_audio_patch
  <2>2. DeviceSets' = {} /\ PatchSet(NewId, DevSource(d), "mix") \in CaptureSets'
    BY <2>1 DEF DeviceSets, CaptureSets, PatchSet, DevSource
  <2>3. SetsInv'
    BY <1>1, <2>1, <2>2 DEF SetsInv, PatchSet
  <2> QED
    BY <1>1, <2>1, <2>2, <2>3, SetsChange
<1>4. ASSUME NEW d \in InDevices, CreateDevice(d) PROVE OwnerInv'
  <2> DEFINE new == PatchSet(NewId, DevSource(d), "device")
  <2>1. /\ client.pc = "idle" /\ DeviceSets = {} /\ CaptureSets = {} /\ d \in Sources
        /\ UNCHANGED <<audio_patching, tuner2mix>> /\ patch_src' = SrcOf(d)
        /\ patch_list' = (patch_list \ Former(DevSource(d), "device")) \cup {new}
        /\ \A s \in patch_list : s.id # NewId
    BY <1>4, NewIdIsNew, ClientAssumption DEF CreateDevice, register_audio_patch
  <2>2. new.id = NewId /\ new.src.type = "device" /\ new.src.dev = d /\ new.sink = "device"
    BY DEF PatchSet, DevSource
  <2>3. DeviceSets' = {new} /\ CaptureSets' = {}
    BY <2>1, <2>2 DEF DeviceSets, CaptureSets
  <2>4. ~tuner2mix /\ ~audio_patching /\ \A q \in Patches : ~Live(q)
    BY <1>1, <2>1 DEF OwnerInv, SetsInv, IdleInv
  <2> HIDE DEF new
  <2>5. SetsInv'
    BY <1>1, <2>1, <2>2, <2>3, <2>4 DEF SetsInv
  <2>6. CASE d = "tuner" /\ patch_src # "atv" /\ UNCHANGED <<audio_patch, patch, client>>
    <3>1. IdleInv'
      BY <2>1, <2>2, <2>3, <2>4, <2>6 DEF IdleInv, Live
    <3> QED
      BY <2>1, <2>5, <2>6, <3>1 DEF OwnerInv, CallInv
  <2>7. CASE ~(d = "tuner" /\ patch_src # "atv") /\ AllocPatch(d, "create", NewId)
    <3>1. patch_src' \notin {"dtv", "inval"}
      BY <2>1, <2>7 DEF SrcOf, Sources
    <3>2. PICK q \in Patches :
            \/ /\ patch' = [patch EXCEPT ![q] = [NoPatch EXCEPT !.mem = "live", !.src = d,
                                                              !.ring = "live"]]
               /\ client' = [pc |-> "start_in", call |-> "create", set |-> NewId, src |-> d,
                             patch |-> q]
            \/ /\ patch' = [patch EXCEPT ![q] = [NoPatch EXCEPT !.mem = "freed", !.src = d]]
               /\ client' = [pc |-> "failed", call |-> "create", set |-> NewId, src |-> d,
                             patch |-> q]
      BY <2>7 DEF AllocPatch
    <3>3. \A r \in Patches : r # q => patch'[r] = patch[r]
      BY <3>2 DEF TypeOK
    <3>4. /\ client'.pc \in {"start_in", "failed"} /\ client'.call = "create"
          /\ client'.set = NewId /\ client'.src = d /\ client'.patch = q
      BY <3>2
    <3>5. /\ patch'[q].mem = "live" <=> client'.pc # "failed"
          /\ patch'[q].src = d
      <4>1. ASSUME NEW r, patch' = [patch EXCEPT ![q] = r]
            PROVE  patch'[q] = r
        BY <4>1 DEF TypeOK
      <4>2. CASE patch' = [patch EXCEPT ![q] = [NoPatch EXCEPT !.mem = "live", !.src = d,
                                                             !.ring = "live"]]
                 /\ client'.pc = "start_in"
        <5>1. patch'[q] = [NoPatch EXCEPT !.mem = "live", !.src = d, !.ring = "live"]
          BY <4>1, <4>2
        <5>2. patch'[q].mem = "live" /\ patch'[q].src = d
          BY <5>1, NewPatchFields
        <5> QED
          BY <4>2, <5>2
      <4>3. CASE patch' = [patch EXCEPT ![q] = [NoPatch EXCEPT !.mem = "freed", !.src = d]]
                 /\ client'.pc = "failed"
        <5>1. patch'[q] = [NoPatch EXCEPT !.mem = "freed", !.src = d]
          BY <4>1, <4>3
        <5>2. patch'[q].mem = "freed" /\ patch'[q].src = d
          BY <5>1, NewPatchFields
        <5> QED
          BY <4>3, <5>2
      <4> QED
        BY <3>2, <4>2, <4>3
    <3>6. CallInv'
      BY <2>1, <2>2, <2>3, <2>4, <3>1, <3>3, <3>4, <3>5 DEF CallInv, Live, CreatePCs
    <3> QED
      BY <2>5, <3>4, <3>6 DEF OwnerInv, IdleInv
  <2> QED
    BY <1>4, <2>6, <2>7 DEF CreateDevice
<1>5. ASSUME NEW sink \in {"mix", "device"}, CreateRejected(sink) PROVE OwnerInv'
  <2>1. Former(DevSource("none"), sink) = {}
    BY <1>5 DEF CreateRejected, Former, DevSource, CaptureSets
  <2>2. UNCHANGED <<patch_list, patch_src, tuner2mix, audio_patch, audio_patching, patch, client>>
    BY <1>5, <2>1 DEF CreateRejected
  <2> QED
    BY <1>1, <1>5, <2>2, SetsChange DEF CreateRejected, SetsInv, DeviceSets, CaptureSets
<1>6. ASSUME NEW s \in patch_list, ReleasePlayback(s) PROVE OwnerInv'
  <2>1. DeviceSets' = DeviceSets /\ CaptureSets' = CaptureSets
    BY <1>6 DEF ReleasePlayback, unregister_audio_patch, DeviceSets, CaptureSets
  <2>2. SetsInv'
    BY <1>1, <1>6, <2>1 DEF ReleasePlayback, unregister_audio_patch, SetsInv
  <2> QED
    BY <1>6, <2>1, <2>2, SetsChange DEF ReleasePlayback
<1>7. ASSUME NEW s \in patch_list, ReleaseCapture(s) PROVE OwnerInv'
  <2>1. DeviceSets = {} /\ DeviceSets' = {}
    BY <1>1, <1>7 DEF ReleaseCapture, unregister_audio_patch, SetsInv, DeviceSets
  <2>2. SetsInv'
    BY <1>1, <1>7, <2>1 DEF ReleaseCapture, unregister_audio_patch, SetsInv
  <2> QED
    BY <1>1, <1>7, <2>1, <2>2, SetsChange DEF ReleaseCapture
<1>8. ASSUME NEW s \in patch_list, ReleaseDevice(s) PROVE OwnerInv'
  <2>1. s \in DeviceSets /\ client.pc = "idle"
    BY <1>8 DEF ReleaseDevice
  <2>2. CASE /\ audio_patching /\ EnterRelease("release", s.id)
             /\ UNCHANGED <<device, patch, threads>>
    BY <2>1, <2>2 DEF OwnerInv, SetsInv, DeviceSets, CaptureSets, IdleInv, CallInv, Live,
                      EnterRelease, CreatePCs
  <2>3. CASE ~audio_patching /\ EndRelease(s.id) /\ UNCHANGED <<audio_patch, patch, client>>
    <3>1. SetsInv' /\ DeviceSets' = {}
      BY <1>1, <2>1, <2>3, RemoveSets DEF EndRelease
    <3>2. IdleInv'
      BY <2>1, <2>3, <3>1 DEF OwnerInv, IdleInv, EndRelease, Live
    <3> QED
      BY <2>1, <2>3, <3>1, <3>2 DEF OwnerInv, CallInv
  <2> QED
    BY <1>8, <2>1, <2>2, <2>3 DEF ReleaseDevice, OwnerInv, IdleInv
<1>9. ASSUME NEW s \in patch_list, LineInDevice(s) PROVE OwnerInv'
  BY <1>9 DEF LineInDevice, OwnerInv, SetsInv, DeviceSets, CaptureSets, IdleInv, CallInv, Live,
              EnterRelease, CreatePCs
<1>10. ASSUME NEW s \in patch_list, LineInCapture(s) PROVE OwnerInv'
  <2>1. s.src.type = "device" /\ DeviceSets = {} /\ client.pc = "idle"
    BY <1>1, <1>10 DEF LineInCapture, CaptureSets, SetsInv
  <2>2. SetsInv' /\ DeviceSets' = DeviceSets
    BY <1>1, <1>10, <2>1, AsLineSets DEF LineInCapture
  <2> QED
    BY <1>10, <2>2, SetsChange DEF LineInCapture
<1>11. CASE TunerIn
  <2>1. DeviceSets = {} /\ UNCHANGED patch_list
    BY <1>1, <1>11 DEF TunerIn, SetsInv
  <2> QED
    BY <1>1, <1>11, <2>1, SetsChange DEF TunerIn, SetsInv, DeviceSets, CaptureSets
<1> QED
  BY <1>2, <1>3, <1>4, <1>5, <1>6, <1>7, <1>8, <1>9, <1>10, <1>11 DEF NewCall

LEMMA OwnerInvariant ==
  ASSUME Exclusive, "linein" \notin Faults
  PROVE  Spec => []OwnerInv
<1>1. Init => OwnerInv
  BY DEF Init, OwnerInv, SetsInv, IdleInv, CallInv, DeviceSets, CaptureSets, Live, NoPatch, Idle
<1>2. ASSUME TypeOK, PatchInv, OwnerInv, [Next]_vars PROVE OwnerInv'
  <2>1. CASE UNCHANGED vars
    BY <1>2, <2>1 DEF vars, OwnerInv, SetsInv, IdleInv, CallInv, DeviceSets, CaptureSets, Live
  <2> QED
    BY <1>2, <2>1, NewCallOwner, InCallOwner, ThreadOwner DEF Next
<1> QED
  BY <1>1, <1>2, TypeCorrect, PatchInvariant, PTL DEF Spec

\* For a client that releases a source before it uses the next one, and as long as the
\* patch of the line input can be made: a release is of a live patch, whatever failed before.
THEOREM ReleaseCorrect ==
  ASSUME Exclusive, "linein" \notin Faults
  PROVE  Spec => []ReleaseIsOfLivePatch
<1>1. PatchInv /\ OwnerInv => ReleaseIsOfLivePatch
  BY DEF PatchInv, ClientInv, OwnerInv, CallInv, ReleaseIsOfLivePatch, Live, Patches, NULL
<1> QED
  BY <1>1, PatchInvariant, OwnerInvariant, PTL

\* For the same, no patch is left running without a set whose release stops it.
THEOREM ReleasableCorrect ==
  ASSUME Exclusive, "linein" \notin Faults
  PROVE  Spec => []PatchIsReleasable
<1>1. PatchInv /\ OwnerInv => PatchIsReleasable
  BY DEF PatchInv, LivePatchInv, OwnerInv, IdleInv, PatchIsReleasable, Running, Live, InRuns,
         OutRuns
<1> QED
  BY <1>1, PatchInvariant, OwnerInvariant, PTL
=============================================================================
