------------------------------- MODULE MCParts -------------------------------
(***************************************************************************)
(* The parts of the HAL that one thread, or one mutex, keeps to themselves *)
(* share no variable, so their instances are checked in one run: the       *)
(* initial state chooses the part that moves, and the others stand still.  *)
(***************************************************************************)
EXTENDS RingBuffer, HwMixer, FormatParser, DecoderInput, FrameDecoders, AlsaOutput,
        AudioDelay, InputStreams, SpdifInput

VARIABLE part    \* the part that moves

Parts == {"ring", "mixer", "parser", "decoder", "frames", "alsa", "delay",
          "input", "spdif"}

partsvars == <<part, vars, mixvars, parservars, decvars, framevars, outvars, delayvars,
              invars, spdifvars>>

\* Every part but p, and the choice, stay as they are
Only(p) ==
  /\ UNCHANGED part
  /\ IF p = "ring" THEN TRUE ELSE UNCHANGED vars
  /\ IF p = "mixer" THEN TRUE ELSE UNCHANGED mixvars
  /\ IF p = "parser" THEN TRUE ELSE UNCHANGED parservars
  /\ IF p = "decoder" THEN TRUE ELSE UNCHANGED decvars
  /\ IF p = "frames" THEN TRUE ELSE UNCHANGED framevars
  /\ IF p = "alsa" THEN TRUE ELSE UNCHANGED outvars
  /\ IF p = "delay" THEN TRUE ELSE UNCHANGED delayvars
  /\ IF p = "input" THEN TRUE ELSE UNCHANGED invars
  /\ IF p = "spdif" THEN TRUE ELSE UNCHANGED spdifvars

PartsInit ==
  /\ part \in Parts
  /\ Init /\ MixInit /\ ParserInit /\ DecoderInit /\ FrameInit /\ AlsaInit /\ DelayInit
  /\ InputInit /\ SpdifInit

PartsNext ==
  \/ part = "ring" /\ Next /\ Only("ring")
  \/ part = "mixer" /\ MixNext /\ Only("mixer")
  \/ part = "parser" /\ ParserNext /\ Only("parser")
  \/ part = "decoder" /\ DecoderNext /\ Only("decoder")
  \/ part = "frames" /\ FrameNext /\ Only("frames")
  \/ part = "alsa" /\ AlsaNext /\ Only("alsa")
  \/ part = "delay" /\ DelayNext /\ Only("delay")
  \/ part = "input" /\ InputNext /\ Only("input")
  \/ part = "spdif" /\ SpdifNext /\ Only("spdif")

PartsSpec == PartsInit /\ [][PartsNext]_partsvars

\* Package of the parser: AC-3 shorter than DTS, and those that carry nothing
MCPackage == [t \in {"ac3", "dts", "null", "pause"} |-> IF t = "dts" THEN 2 ELSE 1]

\* Inputs of the frame decoders.  Dolby frames in IEC 61937 are in MCFrames.
MCModes == {[lib |-> "dcv", iec |-> FALSE],
            [lib |-> "dca", iec |-> TRUE], [lib |-> "dca", iec |-> FALSE]}

\* The bounds satisfy what the theorems about the frame decoders assume.
ASSUME FrameHypotheses == BlocksFitFrames /\ HeadersAreMet /\ ~Refusing
=============================================================================
