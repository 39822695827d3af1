---------------------------- MODULE FormatParser ----------------------------
(***************************************************************************)
(* Detection of the format of a digital input                              *)
(* (src/src/audio_hal/audio_format_parse.c): the parser the input thread   *)
(* of a patch feeds, and the parser thread of a captured HDMI source.      *)
(*                                                                         *)
(* A block of input is what the parser tells apart in it: silence, samples *)
(* without a sync word, or a burst of a data type, whose payload may begin *)
(* with the MAT signature.                                                 *)
(***************************************************************************)
EXTENDS Naturals

CONSTANTS
  BlockSizes,      \* sizes of the blocks that are fed
  Package,         \* data type of a burst |-> *package_size
  IecCheckSize,    \* iec_check_size
  TypePresets,     \* audio_type_preset of the HDMI driver: -1, 0 or 1
  SizeCap          \* bound of the two history variables

RawTypes == {"ac3", "eac3", "dts", "dtshd", "truehd"}
DataTypes == DOMAIN Package
Silences == {"null", "pause", "undefined"}

Blocks == [data : {"zero", "pcm"}, mat : {FALSE}]
          \cup [data : DataTypes \cup {"undefined"}, mat : BOOLEAN]

ASSUME ParserAssumption ==
  /\ BlockSizes \subseteq Nat \ {0} /\ IecCheckSize \in Nat /\ SizeCap \in Nat
  /\ DataTypes \subseteq (RawTypes \cup Silences) \ {"undefined"}
  /\ Package \in [DataTypes -> Nat]
  /\ TypePresets \subseteq {"none", "pcm", "bitstream"}
  /\ \A t \in DataTypes : 2 * Package[t] < SizeCap
  /\ IecCheckSize < SizeCap

VARIABLES
  preset,      \* type_preset
  handle,      \* state, audio_type, parsed_size, package_size of the fed parser
  thread,      \* audio_type, read_bytes, package_size of the parser thread
  last, quiet  \* history: type of the last burst, bytes since its block (capped)

parservars == <<preset, handle, thread, last, quiet>>

ParserInit ==
  /\ preset = "none"
  /\ handle = [state |-> "none", audio_type |-> "mute", parsed_size |-> 0,
               package_size |-> 0]
  /\ thread = [audio_type |-> "lpcm", read_bytes |-> 0, package_size |-> 0]
  /\ last = "none" /\ quiet = 0

-----------------------------------------------------------------------------
(* audio_type_parse *)

HasBurst(b) == b.data \notin {"zero", "pcm"}

AudioType(b) == CASE ~HasBurst(b) -> "lpcm"
                  [] b.mat -> "truehd"
                  [] b.data = "pause" -> "pause"
                  [] b.data \in {"null", "undefined"} -> "mute"
                  [] OTHER -> b.data

\* An undefined data type leaves the size as it is, and so does a block without one.
PackageSize(b, before) == IF b.data \in DataTypes THEN Package[b.data] ELSE before

-----------------------------------------------------------------------------
(* feeddata_audio_type_parse *)

Unsync(h) == [h EXCEPT !.state = "unsync", !.audio_type = "mute", !.parsed_size = 0]
Found(h, state, type) ==
  [h EXCEPT !.state = state, !.audio_type = type, !.parsed_size = 0]

\* No burst in a parser that is not synchronised: it is samples after a while.
CountUnsync(h, n) ==
  IF h.audio_type = "mute"
    THEN [h EXCEPT !.parsed_size = @ + n,
                   !.audio_type = IF h.parsed_size + n <= IecCheckSize THEN "mute"
                                  ELSE "lpcm"]
    ELSE [h EXCEPT !.parsed_size = 0, !.audio_type = "lpcm"]

\* Mutant: what is not found again is samples.
CountSync_pcm(h, n) == IF h.parsed_size + n > h.package_size * 2
                         THEN [Unsync(h) EXCEPT !.audio_type = "lpcm"]
                         ELSE [h EXCEPT !.parsed_size = @ + n]

\* No burst in one that is: it lasts for two packages.
CountSync(h, n) == IF h.parsed_size + n > h.package_size * 2
                     THEN Unsync(h) ELSE [h EXCEPT !.parsed_size = @ + n]

Fed(h, type, n) ==
  CASE type = "lpcm" /\ h.state = "unsync" -> CountUnsync(h, n)
    [] type = "lpcm" /\ h.state # "unsync" -> CountSync(h, n)
    [] type \in {"pause", "mute"} -> Unsync(h)
    [] type \in RawTypes /\ h.state = "unsync" -> Found(h, "syncing", type)
    [] OTHER -> Found(h, "synced", type)

\* The driver says that it is a bitstream: samples are not believed.
Preset(h) == IF preset = "bitstream" /\ h.audio_type = "lpcm"
               THEN [h EXCEPT !.parsed_size = 0, !.audio_type = "mute"] ELSE h

\* Silence in a parser that has begun nothing changes nothing.
Ignored(b) == b.data = "zero" /\ handle.audio_type = "mute" /\ handle.parsed_size = 0

feeddata_audio_type_parse(b, n) ==
  handle' = IF Ignored(b) THEN handle
            ELSE LET h == [handle EXCEPT !.package_size = PackageSize(b, @)]
                 IN  Preset(Fed(h, AudioType(b), n))

-----------------------------------------------------------------------------
(* audio_type_parse_threadloop *)

\* Without a sync word the hardware is asked, where it can tell.
Detected(b) == IF AudioType(b) = "lpcm" THEN {"lpcm", "ac3"} ELSE {AudioType(b)}

\* Mutant: samples are believed at once.
update_audio_type_now(t, cur, n) == [t EXCEPT !.audio_type = cur, !.read_bytes = 0]

update_audio_type(t, cur, n) ==
  IF t.audio_type = cur THEN [t EXCEPT !.read_bytes = 0]
  ELSE IF cur = "lpcm"
    THEN IF t.read_bytes > t.package_size * 2
           THEN [t EXCEPT !.audio_type = cur, !.read_bytes = n]
           ELSE [t EXCEPT !.read_bytes = @ + n]
    ELSE [t EXCEPT !.audio_type = cur, !.read_bytes = 0]

ThreadReads(b, n) ==
  \E cur \in Detected(b) :
    thread' = update_audio_type([thread EXCEPT !.package_size = PackageSize(b, @)], cur, n)

-----------------------------------------------------------------------------

ParserCreate ==
  /\ handle.state = "none"
  /\ preset' \in TypePresets
  /\ handle' = [handle EXCEPT !.state = "unsync"]
  /\ UNCHANGED <<thread, last, quiet>>

\* Both parsers are given the same input, each in the blocks of its own.
ParserFeed(b, n) ==
  /\ handle.state # "none"
  /\ feeddata_audio_type_parse(b, n)
  /\ ThreadReads(b, n)
  /\ last' = IF HasBurst(b) THEN AudioType(b) ELSE last
  /\ quiet' = IF HasBurst(b) THEN 0
              ELSE IF quiet + n > SizeCap THEN SizeCap ELSE quiet + n
  /\ UNCHANGED preset

ParserNext == ParserCreate \/ \E b \in Blocks, n \in BlockSizes : ParserFeed(b, n)

ParserSpec == ParserInit /\ [][ParserNext]_parservars

-----------------------------------------------------------------------------
(* Properties *)

\* A bitstream is not taken for samples, which would be heard as noise: the input
\* is called PCM only when more than iec_check_size bytes went by without a burst,
\* never when the driver says bitstream, and never straight after a raw type.
PcmIsSettled ==
  /\ handle.audio_type = "lpcm" => quiet > IecCheckSize /\ preset # "bitstream"
  /\ handle.state \in {"syncing", "synced"} <=> handle.audio_type \in RawTypes

\* A bitstream whose bursts come at least every two packages keeps its type in
\* both parsers, however the input is cut into blocks; the thread may be told
\* another raw type by the hardware.
BurstsAreTracked ==
  last \in RawTypes =>
    /\ quiet <= 2 * handle.package_size => handle.audio_type = last
    /\ quiet <= 2 * thread.package_size => thread.audio_type \in RawTypes
=============================================================================
