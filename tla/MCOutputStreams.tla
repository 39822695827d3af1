--------------------------- MODULE MCOutputStreams ---------------------------
(* Instances of OutputStreams for TLC: a PCM_NORMAL stream, a raw direct   *)
(* stream and a PCM direct stream, in the combinations the runs name.      *)
EXTENDS OutputStreams

CONSTANTS normal, raw, direct, patch

\* Every stream in a use case of its own
MCUsecase ==
  [s \in Streams |-> CASE s = normal -> NORMAL
                       [] s = raw    -> "RAW_DIRECT"
                       [] OTHER      -> "PCM_DIRECT"]
MCUsecases == {NORMAL, "RAW_DIRECT", "PCM_DIRECT"}
=============================================================================
