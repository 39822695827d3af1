------------------------------ MODULE SyncScan ------------------------------
(***************************************************************************)
(* How the parser thread of a captured HDMI source looks for a sync word   *)
(* that two reads cut in two                                               *)
(* (src/src/audio_hal/audio_format_parse.c, audio_type_parse_threadloop).  *)
(***************************************************************************)
EXTENDS Naturals, Sequences

CONSTANTS Bytes,      \* bytes of a read, at least a sync word
          Period      \* bytes from a sync word to the next one, at least two reads

VARIABLES parse_buffer,   \* three bytes of the read before, and the read
          start,          \* input: where the first sync word begins
          pos,            \* input: bytes read
          found           \* reads in which a sync word was found

scanvars == <<parse_buffer, start, pos, found>>

Word == <<1, 2, 3, 4>>

\* A byte of the input is its place in a sync word, or 0.
Byte(i) == IF i >= start /\ (i - start) % Period < 4 THEN ((i - start) % Period) + 1 ELSE 0

\* Sync words that end before byte i.
WordsBefore(i) == IF i < start + 4 THEN 0 ELSE ((i - start - 4) \div Period) + 1

ScanInit ==
  /\ parse_buffer = [i \in 1..(Bytes + 3) |-> 0]
  /\ start \in 0..(Period - 1) /\ pos = 0 /\ found = 0

\* seek_61937_sync_word
Seek(seq) == \E i \in 1..(Len(seq) - 3) : SubSeq(seq, i, i + 3) = Word

\* pcm_read fills the buffer from its fourth byte, audio_type_parse is given as many
\* bytes as were read, and the last three are moved to the front.
ScanRead ==
  LET buffer == SubSeq(parse_buffer, Bytes + 1, Bytes + 3)
                \o [i \in 1..Bytes |-> Byte(pos + i - 1)]
  IN  /\ parse_buffer' = buffer
      /\ pos' = pos + Bytes
      /\ found' = IF Seek(SubSeq(buffer, 1, Bytes)) THEN found + 1 ELSE found
      /\ UNCHANGED start

\* Three words are enough to see one lost.
ScanNext == pos < 3 * Period /\ ScanRead

ScanSpec == ScanInit /\ [][ScanNext]_scanvars

\* Every sync word is found, in the read that ends it or in the next one, though it
\* may begin in the read before ("save last 3 byte", audio_format_parse.c:276).
EveryWordIsFound == found >= WordsBefore(pos - (IF pos >= Bytes THEN Bytes ELSE pos))
=============================================================================
