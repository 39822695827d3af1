------------------------------ MODULE MCFrames ------------------------------
(***************************************************************************)
(* The decoders of FrameDecoders on IEC 61937 bursts, where what MCParts   *)
(* assumes of them does not hold: Dolby bursts, and DTS frames of which    *)
(* the library takes nothing.                                              *)
(***************************************************************************)
EXTENDS FrameDecoders

DolbyBursts == {[lib |-> "dcv", iec |-> TRUE]}
DtsBursts == {[lib |-> "dca", iec |-> TRUE]}
=============================================================================
