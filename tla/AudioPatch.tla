----------------------------- MODULE AudioPatch -----------------------------
(***************************************************************************)
(* Audio patches of the device: the registry of patch sets, the device to  *)
(* device patch with its two threads over a ring buffer, and the parser of *)
(* a captured HDMI source (src/src/audio_hal/audio_hw.c).                  *)
(*                                                                         *)
(* Neither the registry nor the pointers of the device have a lock: one    *)
(* client thread makes the calls, as the policy thread of a device does.   *)
(* Its steps interleave with the threads of every patch.                   *)
(***************************************************************************)
EXTENDS Naturals, FiniteSets

CONSTANTS
  MaxPatches,    \* bound: patches allocated at one time
  MaxSets,       \* bound: patch sets registered at one time
  MaxParsers,    \* bound: parsers allocated at one time
  RingSize,      \* ring buffer, in reads of two channels at a low rate
  Muls,          \* period_mul of the formats the input may have
  Threshold,     \* factor of the first signal of a line input
  InDevices,     \* the capture devices clients use, of Sources
  Faults,        \* what may fail
  Exclusive      \* a client releases a source before it uses the next one

Sources == {"hdmi", "line", "spdif", "tuner"}
PatchSrcs == {"dtv", "atv", "linein", "hdmiin", "spdifin", "inval"}
FaultPoints == {"open", "create", "linein", "input", "output", "parse", "parser"}

Patches == 1..MaxPatches
SetIds == 1..MaxSets
Parsers == 1..MaxParsers
NULL == 0

ASSUME BoundsAssumption == /\ MaxPatches \in Nat \ {0}
                           /\ MaxSets \in Nat \ {0}
                           /\ MaxParsers \in Nat \ {0}
ASSUME RingAssumption == /\ RingSize \in Nat \ {0} /\ Threshold \in Nat
                         /\ Muls # {} /\ Muls \subseteq 1..RingSize
ASSUME ClientAssumption == /\ InDevices \subseteq Sources
                           /\ Faults \subseteq FaultPoints
                           /\ Exclusive \in BOOLEAN

VARIABLES
  patch_list,      \* registered patch sets
  audio_patch, audio_patching, patch_src, tuner2mix, aml_parser,
  parser,          \* parser |-> "none", "live" or "freed"
  patch,           \* patch |-> its structure
  inpc, outpc,     \* patch |-> where its two threads are
  outmul,          \* patch |-> period_mul of its output thread
  first_start,     \* patch |-> local of its input thread
  client           \* the call the client is in

device == <<patch_list, audio_patch, audio_patching, patch_src,
            tuner2mix, aml_parser, parser>>
threads == <<inpc, outpc, outmul, first_start>>
vars == <<patch_list, audio_patch, audio_patching, patch_src, tuner2mix,
          aml_parser, parser, patch, inpc, outpc, outmul, first_start, client>>

NoPatch == [mem |-> "none", src |-> "line", in_exit |-> FALSE, out_exit |-> FALSE,
            parse |-> FALSE, callback |-> "none", ring |-> "none",
            level |-> 0, mul |-> 1]

Idle == [pc |-> "idle", call |-> "none", set |-> 0, src |-> "line", patch |-> NULL]

\* A port is a device or a mix; the registry compares the handles of mixes.
\* One playback and one capture mix are enough for a former set to be found.
MixSource == [type |-> "mix", dev |-> "none"]
DevSource(d) == [type |-> "device", dev |-> d]

PatchSet(id, src, sink) == [id |-> id, src |-> src, sink |-> sink]

TypeOK ==
  /\ patch_list \subseteq [id : SetIds,
                           src : [type : {"mix", "device"}, dev : Sources \cup {"none"}],
                           sink : {"mix", "device"}]
  /\ audio_patch \in Patches \cup {NULL} /\ audio_patching \in BOOLEAN
  /\ patch_src \in PatchSrcs /\ tuner2mix \in BOOLEAN
  /\ aml_parser \in Parsers \cup {NULL}
  /\ parser \in [Parsers -> {"none", "live", "freed"}]
  /\ patch \in [Patches -> [mem : {"none", "live", "freed"}, src : Sources,
                            in_exit : BOOLEAN, out_exit : BOOLEAN,
                            parse : BOOLEAN, callback : {"none", "live", "freed"},
                            ring : {"none", "live", "freed"},
                            level : 0..RingSize, mul : 1..RingSize]]
  /\ inpc \in [Patches -> {"none", "open", "loop", "read", "trigger", "silent",
                           "check", "put", "full", "done"}]
  /\ outpc \in [Patches -> {"none", "open", "loop", "test", "waiting", "woken",
                            "level", "take", "write", "trigger", "done"}]
  /\ outmul \in [Patches -> 1..RingSize]
  /\ first_start \in [Patches -> BOOLEAN]
  /\ client \in [pc : {"idle", "start_in", "start_out", "undo", "parse", "callback",
                       "created", "failed", "stop_out", "signal", "stop_in",
                       "join_in", "join_out", "free", "released"},
                 call : {"none", "create", "linein", "release"},
                 set : 0..MaxSets, src : Sources, patch : Patches \cup {NULL}]

Init ==
  /\ patch_list = {}
  /\ audio_patch = NULL /\ audio_patching = FALSE
  /\ patch_src = "inval" /\ tuner2mix = FALSE
  /\ aml_parser = NULL /\ parser = [q \in Parsers |-> "none"]
  /\ patch = [p \in Patches |-> NoPatch]
  /\ inpc = [p \in Patches |-> "none"] /\ outpc = [p \in Patches |-> "none"]
  /\ outmul = [p \in Patches |-> 1]
  /\ first_start = [p \in Patches |-> TRUE]
  /\ client = Idle

-----------------------------------------------------------------------------
(* The registry *)

\* The set that register_audio_patch finds and removes: the former one of the
\* same playback mix, or of the same capture mix.
Former(src, sink) ==
  {s \in patch_list : \/ src.type = "mix" /\ s.src.type = "mix" /\ s.sink = "device"
                      \/ sink = "mix" /\ s.src.type = "device" /\ s.sink = "mix"}

\* Handles come from a counter; here a handle is one that no set has.
FreeIds == SetIds \ {s.id : s \in patch_list}
NewId == CHOOSE id \in FreeIds : TRUE

register_audio_patch(src, sink) ==
  /\ FreeIds # {}
  /\ patch_list' = (patch_list \ Former(src, sink)) \cup {PatchSet(NewId, src, sink)}

unregister_audio_patch(s) == patch_list' = patch_list \ {s}

DeviceSets == {s \in patch_list : s.src.type = "device" /\ s.sink = "device"}
CaptureSets == {s \in patch_list : s.src.type = "device" /\ s.sink = "mix"}

\* patch_src of a capture device; a tuner leaves it as it is.
SrcOf(d) == CASE d = "hdmi" -> "hdmiin" [] d = "line" -> "linein"
              [] d = "spdif" -> "spdifin" [] OTHER -> patch_src

\* Playback mix to device: only routes.
CreatePlayback ==
  /\ client.pc = "idle"
  /\ register_audio_patch(MixSource, "device")
  /\ UNCHANGED <<audio_patch, audio_patching, patch_src, tuner2mix, aml_parser,
                 parser, patch, threads, client>>

\* What create_parser leaves: a parser, or the pointer to the one it freed.
create_parser ==
  \E q \in Parsers :
     /\ parser[q] # "live" /\ \A r \in Parsers : r < q => parser[r] = "live"
     /\ aml_parser' = q
     /\ \/ parser' = [parser EXCEPT ![q] = "live"]
        \/ "parser" \in Faults /\ parser' = [parser EXCEPT ![q] = "freed"]

release_parser ==
  /\ parser' = IF aml_parser = NULL THEN parser
               ELSE [parser EXCEPT ![aml_parser] = "freed"]
  /\ aml_parser' = NULL

\* Device to capture mix.
CreateCapture(d) ==
  /\ client.pc = "idle"
  /\ Exclusive => DeviceSets = {}
  /\ register_audio_patch(DevSource(d), "mix")
  /\ patch_src' = SrcOf(d)
  /\ tuner2mix' = (tuner2mix \/ d = "tuner")
  /\ IF d = "hdmi" THEN create_parser ELSE UNCHANGED <<aml_parser, parser>>
  /\ UNCHANGED <<audio_patch, audio_patching, patch, threads, client>>

\* create_patch as far as the ring buffer; every failure frees the patch and
\* leaves the pointer of the device as it is.
AllocPatch(d, call, set) ==
  \E p \in Patches :
     /\ patch[p].mem # "live" /\ \A q \in Patches : q < p => patch[q].mem = "live"
     /\ audio_patch' = p
     /\ \/ /\ patch' = [patch EXCEPT ![p] = [NoPatch EXCEPT !.mem = "live", !.src = d,
                                                            !.ring = "live"]]
           /\ client' = [pc |-> "start_in", call |-> call, set |-> set, src |-> d,
                         patch |-> p]
        \/ /\ call \in Faults
           /\ patch' = [patch EXCEPT ![p] = [NoPatch EXCEPT !.mem = "freed", !.src = d]]
           /\ client' = [pc |-> "failed", call |-> call, set |-> set, src |-> d,
                         patch |-> p]

\* Device to device.  Only a tuner that is not known to be analogue gets no patch.
\* Nothing here looks for a former patch: the client has to release it first.
CreateDevice(d) ==
  /\ client.pc = "idle"
  /\ Exclusive => CaptureSets \cup DeviceSets = {}
  /\ register_audio_patch(DevSource(d), "device")
  /\ patch_src' = SrcOf(d)
  /\ IF d = "tuner" /\ patch_src # "atv"
       THEN UNCHANGED <<audio_patch, patch, client>>
       ELSE AllocPatch(d, "create", NewId)
  /\ UNCHANGED <<audio_patching, tuner2mix, aml_parser, parser, threads>>

\* A device the HAL does not know: the set is registered and removed again, the
\* former one is not put back.
CreateRejected(sink) ==
  /\ client.pc = "idle"
  /\ Exclusive => CaptureSets \cup DeviceSets = {}
  /\ patch_list' = patch_list \ Former(DevSource("none"), sink)
  /\ UNCHANGED <<audio_patch, audio_patching, patch_src, tuner2mix, aml_parser,
                 parser, patch, threads, client>>

-----------------------------------------------------------------------------
(* create_patch, after the ring buffer *)

\* What is left of a patch is of no interest once it is freed.
Freed(p) == [NoPatch EXCEPT !.mem = "freed", !.src = patch[p].src, !.ring = "freed",
                            !.callback = IF patch[p].callback = "live" THEN "freed"
                                         ELSE "none"]
FreePatch(p) == patch' = [patch EXCEPT ![p] = Freed(p)]

StartInput ==
  LET p == client.patch IN
  /\ client.pc = "start_in"
  /\ \/ /\ inpc' = [inpc EXCEPT ![p] = "open"]
        /\ first_start' = [first_start EXCEPT ![p] = TRUE]
        /\ client' = [client EXCEPT !.pc = "start_out"]
        /\ UNCHANGED patch
     \/ /\ "input" \in Faults /\ client.call = "create"
        /\ FreePatch(p)
        /\ client' = [client EXCEPT !.pc = "failed"]
        /\ UNCHANGED <<inpc, first_start>>
  /\ UNCHANGED <<device, outpc, outmul>>

StartOutput ==
  LET p == client.patch IN
  /\ client.pc = "start_out"
  /\ \/ /\ outpc' = [outpc EXCEPT ![p] = "open"]
        /\ client' = [client EXCEPT !.pc = "parse"]
        /\ UNCHANGED patch
     \/ /\ "output" \in Faults /\ client.call = "create"
        /\ patch' = [patch EXCEPT ![p].in_exit = TRUE]
        /\ client' = [client EXCEPT !.pc = "undo"]
        /\ UNCHANGED outpc
  /\ UNCHANGED <<device, inpc, outmul, first_start>>

UndoCreate ==
  /\ client.pc = "undo"
  /\ inpc[client.patch] = "done"
  /\ FreePatch(client.patch)
  /\ client' = [client EXCEPT !.pc = "failed"]
  /\ UNCHANGED <<device, threads>>

\* The result of creat_audio_type_parse is not looked at.
CreateParse ==
  LET p == client.patch IN
  /\ client.pc = "parse"
  /\ \E ok \in IF "parse" \in Faults THEN BOOLEAN ELSE {TRUE} :
        patch' = [patch EXCEPT ![p].parse = ok /\ patch[p].src \in {"hdmi", "spdif"}]
  /\ client' = [client EXCEPT !.pc = "callback"]
  /\ UNCHANGED <<device, threads>>

InitCallback ==
  /\ client.pc = "callback"
  /\ patch' = [patch EXCEPT ![client.patch].callback = "live"]
  /\ client' = [client EXCEPT !.pc = "created"]
  /\ UNCHANGED <<device, threads>>

\* A set whose source was changed to the line input.
AsLine(s) == [s EXCEPT !.src = DevSource("line")]

\* Mutant: the device is not marked as patching.
ReturnCreated_unmarked ==
  /\ client.pc = "created" /\ client' = Idle
  /\ patch_list' = IF client.call = "create" THEN patch_list
                   ELSE {IF s.id = client.set THEN AsLine(s) ELSE s : s \in patch_list}
  /\ UNCHANGED <<audio_patch, audio_patching, patch_src, tuner2mix, aml_parser,
                 parser, patch, threads>>

ReturnCreated ==
  /\ client.pc = "created"
  /\ \/ /\ client.call = "create"
        /\ audio_patching' = TRUE
        /\ patch_src' = IF client.src = "tuner" THEN "atv" ELSE patch_src
        /\ UNCHANGED patch_list
     \/ /\ client.call = "linein"
        /\ patch_list' = {IF s.id = client.set THEN AsLine(s) ELSE s : s \in patch_list}
        /\ UNCHANGED <<audio_patching, patch_src>>
  /\ client' = Idle
  /\ UNCHANGED <<audio_patch, tuner2mix, aml_parser, parser, patch, threads>>

\* Mutant: a failed create leaves its set registered.
ReturnFailed_registered ==
  /\ client.pc = "failed" /\ client' = Idle
  /\ UNCHANGED <<device, patch, threads>>

ReturnFailed ==
  /\ client.pc = "failed"
  /\ patch_list' = IF client.call = "create"
                     THEN {s \in patch_list : s.id # client.set}
                     ELSE {IF s.id = client.set THEN AsLine(s) ELSE s : s \in patch_list}
  /\ client' = Idle
  /\ UNCHANGED <<audio_patch, audio_patching, patch_src, tuner2mix,
                 aml_parser, parser, patch, threads>>

-----------------------------------------------------------------------------
(* release_patch *)

Signalled(p) == IF outpc[p] = "waiting" THEN [outpc EXCEPT ![p] = "woken"] ELSE outpc

EnterRelease(call, set) ==
  client' = [pc |-> "stop_out", call |-> call, set |-> set, src |-> "line",
             patch |-> audio_patch]

StopOutput ==
  /\ client.pc = "stop_out"
  /\ patch' = [patch EXCEPT ![client.patch].out_exit = TRUE]
  /\ client' = [client EXCEPT !.pc = "signal"]
  /\ UNCHANGED <<device, threads>>

\* The condition is signalled without the mutex of the patch.
SignalOutput ==
  /\ client.pc = "signal"
  /\ outpc' = Signalled(client.patch)
  /\ client' = [client EXCEPT !.pc = "stop_in"]
  /\ UNCHANGED <<device, patch, inpc, outmul, first_start>>

StopInput ==
  /\ client.pc = "stop_in"
  /\ patch' = [patch EXCEPT ![client.patch].in_exit = TRUE]
  /\ client' = [client EXCEPT !.pc = "join_in"]
  /\ UNCHANGED <<device, threads>>

\* Mutants: a thread is not joined.
JoinInput_skipped ==
  /\ client.pc = "join_in" /\ client' = [client EXCEPT !.pc = "join_out"]
  /\ UNCHANGED <<device, patch, threads>>
JoinOutput_skipped ==
  /\ client.pc = "join_out" /\ client' = [client EXCEPT !.pc = "free"]
  /\ UNCHANGED <<device, patch, threads>>

JoinInput ==
  /\ client.pc = "join_in" /\ inpc[client.patch] \in {"none", "done"}
  /\ client' = [client EXCEPT !.pc = "join_out"]
  /\ UNCHANGED <<device, patch, threads>>

JoinOutput ==
  /\ client.pc = "join_out" /\ outpc[client.patch] \in {"none", "done"}
  /\ client' = [client EXCEPT !.pc = "free"]
  /\ UNCHANGED <<device, patch, threads>>

FreeReleased ==
  LET p == client.patch IN
  /\ client.pc = "free"
  /\ FreePatch(p)
  /\ audio_patch' = NULL
  /\ client' = [client EXCEPT !.pc = "released"]
  /\ UNCHANGED <<patch_list, audio_patching, patch_src, tuner2mix,
                 aml_parser, parser, threads>>

-----------------------------------------------------------------------------
(* adev_release_audio_patch and adev_set_parameters *)

SrcAfterRelease == IF patch_src = "atv" THEN "atv" ELSE "inval"

ReleasePlayback(s) ==
  /\ client.pc = "idle" /\ s.src.type = "mix"
  /\ unregister_audio_patch(s)
  /\ UNCHANGED <<audio_patch, audio_patching, patch_src, tuner2mix,
                 aml_parser, parser, patch, threads, client>>

ReleaseCapture(s) ==
  /\ client.pc = "idle" /\ s \in CaptureSets
  /\ IF patch_src = "hdmiin" THEN release_parser ELSE UNCHANGED <<aml_parser, parser>>
  /\ patch_src' = SrcAfterRelease
  /\ tuner2mix' = FALSE
  /\ unregister_audio_patch(s)
  /\ UNCHANGED <<audio_patch, audio_patching, patch, threads, client>>

EndRelease(id) ==
  /\ audio_patching' = FALSE
  /\ patch_src' = SrcAfterRelease
  /\ patch_list' = {s \in patch_list : s.id # id}
  /\ UNCHANGED <<tuner2mix, aml_parser, parser, threads>>

ReleaseDevice(s) ==
  /\ client.pc = "idle" /\ s \in DeviceSets
  /\ IF patch_src \notin {"dtv", "inval"} /\ audio_patching
       THEN EnterRelease("release", s.id) /\ UNCHANGED <<device, patch, threads>>
       ELSE EndRelease(s.id) /\ UNCHANGED <<audio_patch, patch, client>>

ReturnReleased ==
  /\ client.pc = "released" /\ client.call = "release"
  /\ EndRelease(client.set)
  /\ client' = Idle
  /\ UNCHANGED <<audio_patch, patch>>

\* "tuner_in" while a tuner is captured to a mix; otherwise it does nothing here.
TunerIn ==
  /\ client.pc = "idle" /\ tuner2mix
  /\ patch_src' \in {"dtv", "atv"}
  /\ UNCHANGED <<patch_list, audio_patch, audio_patching, tuner2mix,
                 aml_parser, parser, patch, threads, client>>

\* "audio=linein": the HDMI source turns out to be analogue.
LineInDevice(s) ==
  /\ client.pc = "idle" /\ s \in DeviceSets /\ s.src.dev = "hdmi"
  /\ audio_patch # NULL /\ patch_src = "hdmiin"
  /\ EnterRelease("linein", s.id)
  /\ UNCHANGED <<device, patch, threads>>

LineInCreate ==
  /\ client.pc = "released" /\ client.call = "linein"
  /\ AllocPatch("line", "linein", client.set)
  /\ UNCHANGED <<patch_list, audio_patching, patch_src, tuner2mix,
                 aml_parser, parser, threads>>

\* The assignment of patch_src is written as a comparison in the code.
LineInCapture(s) ==
  /\ client.pc = "idle" /\ s \in CaptureSets /\ s.src.dev = "hdmi"
  /\ IF patch_src = "hdmiin" THEN release_parser ELSE UNCHANGED <<aml_parser, parser>>
  /\ patch_list' = (patch_list \ {s}) \cup {AsLine(s)}
  /\ UNCHANGED <<audio_patch, audio_patching, patch_src, tuner2mix,
                 patch, threads, client>>

-----------------------------------------------------------------------------
(* audio_patch_input_threadloop *)

InGoto(p, pc) == inpc' = [inpc EXCEPT ![p] = pc]

\* Where a thread goes whose stream was opened, or was not.
OpenTo == {"loop"} \cup (IF "open" \in Faults THEN {"done"} ELSE {})

InOpen(p) ==
  /\ inpc[p] = "open"
  /\ \E pc \in OpenTo : InGoto(p, pc)
  /\ UNCHANGED <<device, patch, outpc, outmul, first_start, client>>

\* The format of the input decides how much is read at once.
InLoop(p) ==
  /\ inpc[p] = "loop"
  /\ IF patch[p].in_exit
       THEN InGoto(p, "done") /\ UNCHANGED patch
       ELSE /\ InGoto(p, "read")
            /\ \E m \in Muls : patch' = [patch EXCEPT ![p].mul = m]
  /\ UNCHANGED <<device, outpc, outmul, first_start, client>>

\* Where the thread goes after a read: with data to the ring buffer, without to
\* the callback if the format was another one.  SPDIF without a signal goes on.
ReadTo(p) == {"check", "trigger", "silent"} \cup
             (IF patch[p].src = "spdif" THEN {"loop"} ELSE {})

\* The clock of HDMI is looked at after the read; a changed one wakes the output.
InRead(p) ==
  /\ inpc[p] = "read"
  /\ \E pc \in ReadTo(p) : InGoto(p, pc)
  /\ \/ UNCHANGED outpc
     \/ patch[p].src = "hdmi" /\ outpc' = Signalled(p)
  /\ UNCHANGED <<device, patch, outmul, first_start, client>>

\* Without data the callback of a format change is triggered, if there is one.
InTrigger(p) ==
  /\ inpc[p] = "trigger"
  /\ \E pc \in {"silent"} \cup (ReadTo(p) \cap {"loop"}) : InGoto(p, pc)
  /\ UNCHANGED <<device, patch, outpc, outmul, first_start, client>>

InSilent(p) ==
  /\ inpc[p] = "silent"
  /\ InGoto(p, "loop")
  /\ outpc' = Signalled(p)
  /\ UNCHANGED <<device, patch, outmul, first_start, client>>

\* Mutant: any space will do.
InCheck_any(p) ==
  /\ inpc[p] = "check"
  /\ IF RingSize > patch[p].level THEN InGoto(p, "put") ELSE InGoto(p, "full")
  /\ UNCHANGED <<device, patch, outpc, outmul, first_start, client>>

InCheck(p) ==
  /\ inpc[p] = "check"
  /\ IF RingSize - patch[p].level >= patch[p].mul
       THEN InGoto(p, "put") ELSE InGoto(p, "full")
  /\ UNCHANGED <<device, patch, outpc, outmul, first_start, client>>

InThreshold(p) == IF patch[p].src = "line" THEN Threshold * patch[p].mul ELSE 0

InPut(p) ==
  LET level == patch[p].level + patch[p].mul
      enough == ~first_start[p] \/ level >= InThreshold(p)
  IN  /\ inpc[p] = "put"
      /\ patch' = [patch EXCEPT ![p].level = IF level > RingSize THEN RingSize ELSE level]
      /\ first_start' = [first_start EXCEPT ![p] = ~enough]
      /\ outpc' = IF enough THEN Signalled(p) ELSE outpc
      /\ InGoto(p, "loop")
      /\ UNCHANGED <<device, outmul, client>>

\* No space: all that is buffered is dropped, and the write is tried again.
InFull(p) ==
  /\ inpc[p] = "full"
  /\ patch' = [patch EXCEPT ![p].level = 0]
  /\ outpc' = Signalled(p)
  /\ IF patch[p].in_exit THEN InGoto(p, "loop") ELSE InGoto(p, "check")
  /\ UNCHANGED <<device, outmul, first_start, client>>

Input(p) == \/ InOpen(p) \/ InLoop(p) \/ InRead(p) \/ InTrigger(p) \/ InSilent(p)
            \/ InCheck(p) \/ InPut(p) \/ InFull(p)

-----------------------------------------------------------------------------
(* audio_patch_output_threadloop *)

OutGoto(p, pc) == outpc' = [outpc EXCEPT ![p] = pc]

OutOpen(p) ==
  /\ outpc[p] = "open"
  /\ \E pc \in OpenTo : OutGoto(p, pc)
  /\ UNCHANGED <<device, patch, inpc, outmul, first_start, client>>

OutLoop(p) ==
  /\ outpc[p] = "loop"
  /\ outmul' = [outmul EXCEPT ![p] = patch[p].mul]
  /\ IF patch[p].out_exit THEN OutGoto(p, "done") ELSE OutGoto(p, "test")
  /\ UNCHANGED <<device, patch, inpc, first_start, client>>

OutTest(p) ==
  /\ outpc[p] = "test"
  /\ IF patch[p].level < outmul[p] THEN OutGoto(p, "waiting") ELSE OutGoto(p, "woken")
  /\ UNCHANGED <<device, patch, inpc, outmul, first_start, client>>

\* Mutant: the wait without a time, as the code has it commented out.
OutTimeout_never(p) == FALSE /\ UNCHANGED vars

\* The wait is bounded by 300 ms.
OutTimeout(p) ==
  /\ outpc[p] = "waiting"
  /\ OutGoto(p, "woken")
  /\ UNCHANGED <<device, patch, inpc, outmul, first_start, client>>

\* A changed clock puts the stream of the patch into standby here (OutputStreams).
OutWoken(p) ==
  /\ outpc[p] = "woken"
  /\ IF patch[p].out_exit THEN OutGoto(p, "done") ELSE OutGoto(p, "level")
  /\ UNCHANGED <<device, patch, inpc, outmul, first_start, client>>

OutLevel(p) ==
  /\ outpc[p] = "level"
  /\ IF patch[p].level >= outmul[p] THEN OutGoto(p, "take") ELSE OutGoto(p, "loop")
  /\ UNCHANGED <<device, patch, inpc, outmul, first_start, client>>

\* Mutant: what was tested before is taken for granted.
OutTake_all(p) ==
  /\ outpc[p] = "take" /\ OutGoto(p, "write")
  /\ patch' = [patch EXCEPT ![p].level = @ - outmul[p]]
  /\ UNCHANGED <<device, inpc, outmul, first_start, client>>

\* Less than was asked for is read when the input dropped the buffer meanwhile.
OutTake(p) ==
  LET n == IF patch[p].level < outmul[p] THEN patch[p].level ELSE outmul[p] IN
  /\ outpc[p] = "take"
  /\ patch' = [patch EXCEPT ![p].level = @ - n]
  /\ OutGoto(p, "write")
  /\ UNCHANGED <<device, inpc, outmul, first_start, client>>

\* A write that finds another format of the input drops what is buffered.
DropIfChanged(p) ==
  \/ UNCHANGED patch
  \/ /\ patch[p].src \in {"hdmi", "spdif"}
     /\ patch' = [patch EXCEPT ![p].level = 0]

\* A write triggers the callback when the new format is none, before it drops, and
\* when the decoder has its first frame, after that.
OutWrite(p) ==
  /\ outpc[p] = "write"
  /\ DropIfChanged(p)
  /\ \E pc \in {"loop", "trigger"} : OutGoto(p, pc)
  /\ UNCHANGED <<device, inpc, outmul, first_start, client>>

OutTrigger(p) ==
  /\ outpc[p] = "trigger"
  /\ DropIfChanged(p)
  /\ OutGoto(p, "loop")
  /\ UNCHANGED <<device, inpc, outmul, first_start, client>>

Output(p) == \/ OutOpen(p) \/ OutLoop(p) \/ OutTest(p) \/ OutTimeout(p) \/ OutWoken(p)
             \/ OutLevel(p) \/ OutTake(p) \/ OutWrite(p) \/ OutTrigger(p)

-----------------------------------------------------------------------------

\* What a call that has begun does on its own.
InCall == \/ StartInput \/ StartOutput \/ UndoCreate \/ CreateParse \/ InitCallback
          \/ ReturnCreated \/ ReturnFailed \/ StopOutput \/ SignalOutput \/ StopInput
          \/ JoinInput \/ JoinOutput \/ FreeReleased \/ ReturnReleased \/ LineInCreate

NewCall == \/ CreatePlayback \/ TunerIn
           \/ \E d \in InDevices : CreateCapture(d) \/ CreateDevice(d)
           \/ \E sink \in {"mix", "device"} : CreateRejected(sink)
           \/ \E s \in patch_list : \/ ReleasePlayback(s) \/ ReleaseCapture(s)
                                    \/ ReleaseDevice(s) \/ LineInDevice(s)
                                    \/ LineInCapture(s)

Next == NewCall \/ InCall \/ \E p \in Patches : Input(p) \/ Output(p)

Spec == Init /\ [][Next]_vars

\* The kernel schedules every thread, a read of the capture device and a write
\* of a stream return, and a timed wait ends.  No call is owed.
Fairness == /\ WF_vars(InCall)
            /\ \A p \in Patches : WF_vars(Input(p)) /\ WF_vars(Output(p))

FairSpec == Spec /\ Fairness

-----------------------------------------------------------------------------
(* Properties *)

Running(p) == inpc[p] \notin {"none", "done"} \/ outpc[p] \notin {"none", "done"}

\* No thread of a patch runs on a patch or a ring buffer that is freed: the exit
\* flags and the joins of release_patch and of the error paths of create_patch
\* come before every free.
ThreadsUseLivePatch ==
  \A p \in Patches : Running(p) => patch[p].mem = "live" /\ patch[p].ring = "live"

\* The callback that an input thread without data, or the write of an output thread,
\* is about to trigger is not freed under it.  One that is not made yet is ignored.
TriggerIsSafe ==
  \A p \in Patches :
    inpc[p] = "trigger" \/ outpc[p] = "trigger" => patch[p].callback # "freed"

\* adev->audio_patch is released only while it points at a live patch, and a
\* patch is released once.
ReleaseIsOfLivePatch ==
  client.pc \in {"stop_out", "signal", "stop_in", "join_in", "join_out", "free"} =>
    client.patch # NULL /\ patch[client.patch].mem = "live"

\* Between two calls every patch with a thread is the one adev->audio_patch names,
\* a set of it is registered, and releasing that set comes to release_patch.
PatchIsReleasable ==
  client.pc = "idle" =>
    \A p \in Patches : Running(p) =>
      /\ audio_patch = p
      /\ \E s \in DeviceSets : s.src.dev = patch[p].src
      /\ audio_patching /\ patch_src \notin {"dtv", "inval"}

\* The write of the input thread has its space, though the other thread reads and
\* both may drop the buffer between the test and the write.
PutFits ==
  \A p \in Patches : inpc[p] = "put" => RingSize - patch[p].level >= patch[p].mul

\* Every call returns: the joins of a release and of a failed create end, though
\* the condition is signalled without the mutex.
CallsReturn == client.pc # "idle" ~> client.pc = "idle"
=============================================================================
