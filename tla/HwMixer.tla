------------------------------- MODULE HwMixer -------------------------------
(***************************************************************************)
(* The hardware mixer of audio_hal/aml_hw_mixer.c.  While a second use     *)
(* case is active, the PCM_NORMAL stream writes its audio here             *)
(* (mixer_aux_buffer_write) and the main stream adds it to its own         *)
(* (mixer_main_buffer_write).  Each function runs under the mixer's mutex, *)
(* so it is one step.  wp and rp are offsets into start_buf.               *)
(***************************************************************************)
EXTENDS Naturals, Sequences

CONSTANTS
  MixBytes, MixZero,  \* values of a byte, and the one calloc and memset write
  BufSize,            \* AML_HW_MIXER_BUF_SIZE
  MixGuard,           \* the 64 bytes aml_hw_mixer_get_space keeps free
  MaxMix              \* bound on the bytes of one call

ASSUME MixBytesAssumption == MixZero \in MixBytes
ASSUME MixSizesAssumption ==
  /\ BufSize \in Nat /\ MaxMix \in Nat
  /\ MixGuard \in 1..BufSize

VARIABLES
  mix_allocated, \* start_buf is not NULL, and buf_size is BufSize
  start_buf,     \* the bytes at start_buf
  wp, rp,
  mixed          \* what the last call returned, and the bytes it took

mixvars == <<mix_allocated, start_buf, wp, rp, mixed>>

MixAddresses == 0..BufSize - 1
MixRequests == UNION {[1..n -> MixBytes] : n \in 0..MaxMix}
Mixed(count, data) == [count |-> count, data |-> data]

MixTypeOK ==
  /\ mix_allocated \in BOOLEAN
  /\ start_buf \in [MixAddresses -> MixBytes]
  /\ wp \in MixAddresses /\ rp \in MixAddresses
  /\ mixed \in [count : Nat, data : Seq(MixBytes)]
  /\ ~mix_allocated => wp = 0 /\ rp = 0

MixInit ==
  /\ mix_allocated = FALSE
  /\ start_buf = [a \in MixAddresses |-> MixZero]
  /\ wp = 0 /\ rp = 0
  /\ mixed = Mixed(0, <<>>)

-----------------------------------------------------------------------------
aml_hw_mixer_get_content_l == IF wp >= rp THEN wp - rp ELSE wp + BufSize - rp

\* Mutant: nothing is kept free
aml_hw_mixer_get_space_all ==
  IF wp >= rp THEN BufSize - (wp - rp) ELSE rp - wp

aml_hw_mixer_get_space ==
  LET space == IF wp >= rp THEN BufSize - (wp - rp) ELSE rp - wp IN
  IF space > MixGuard THEN space - MixGuard ELSE 0

\* n bytes from pointer p on, and from start_buf when they pass the end
CopyOut(p, n) ==
  [i \in 1..n |-> IF p + n > BufSize /\ i > BufSize - p
                  THEN start_buf[i - (BufSize - p) - 1] ELSE start_buf[p + i - 1]]

\* The same for the first n bytes of data going in
CopyIn(p, data, n) ==
  LET tail == BufSize - p IN
  start_buf' = [a \in MixAddresses |->
            IF p + n > BufSize /\ a < n - tail THEN data[tail + a + 1]
            ELSE IF p <= a /\ a < p + n THEN data[a - p + 1]
            ELSE start_buf[a]]

\* Mutant: a block that ends at the end of the buffer does not wrap
Advance_late(p, n) == IF p + n > BufSize THEN n - (BufSize - p) ELSE p + n

Advance(p, n) ==
  IF p + n > BufSize THEN n - (BufSize - p) ELSE (p + n) % BufSize

-----------------------------------------------------------------------------
\* config_output: initialise once, reset from then on.  A failed calloc leaves
\* no buffer and the next configuration tries again.
aml_hw_mixer_init ==
  /\ ~mix_allocated
  /\ wp' = 0 /\ rp' = 0
  /\ \/ mix_allocated' = TRUE /\ start_buf' = [a \in MixAddresses |-> MixZero]
     \/ UNCHANGED <<mix_allocated, start_buf>>
  /\ UNCHANGED mixed

aml_hw_mixer_reset ==
  /\ mix_allocated
  /\ wp' = 0 /\ rp' = 0
  /\ UNCHANGED <<mix_allocated, start_buf, mixed>>

aml_hw_mixer_deinit ==
  /\ mix_allocated' = FALSE
  /\ wp' = 0 /\ rp' = 0
  /\ UNCHANGED <<start_buf, mixed>>

\* Both pointers go back to the start when the data does not fit, yet the
\* space that was free before still limits what is copied
aml_hw_mixer_write(data) ==
  LET size == Len(data)
      space == aml_hw_mixer_get_space
      start == IF space < size THEN 0 ELSE wp
      write_size == IF size > space THEN space ELSE size
  IN
  /\ IF mix_allocated
     THEN /\ rp' = IF space < size THEN 0 ELSE rp
          /\ CopyIn(start, data, write_size)
          /\ wp' = Advance(start, write_size)
     ELSE UNCHANGED <<start_buf, wp, rp>>
  /\ mixed' = Mixed(size, <<>>)
  /\ UNCHANGED mix_allocated

\* The bytes taken are added, sample by sample, to the caller's buffer
aml_hw_mixer_mixing(size) ==
  LET read_size == IF aml_hw_mixer_get_content_l < size THEN 0 ELSE size IN
  /\ rp' = Advance(rp, read_size)
  /\ mixed' = Mixed(0, CopyOut(rp, read_size))
  /\ UNCHANGED <<mix_allocated, start_buf, wp>>

\* A short read is filled up with zeros
aml_hw_mixer_read(size) ==
  LET cached_size == aml_hw_mixer_get_content_l
      read_size == IF cached_size < size THEN cached_size ELSE size
  IN
  /\ rp' = Advance(rp, read_size)
  /\ mixed' = Mixed(size, CopyOut(rp, read_size)
                            \o [i \in 1..size - read_size |-> MixZero])
  /\ UNCHANGED <<mix_allocated, start_buf, wp>>

MixNext ==
  \/ aml_hw_mixer_init \/ aml_hw_mixer_reset \/ aml_hw_mixer_deinit
  \/ \E data \in MixRequests : aml_hw_mixer_write(data)
  \/ \E n \in 0..MaxMix : aml_hw_mixer_mixing(n) \/ aml_hw_mixer_read(n)

MixSpec == MixInit /\ [][MixNext]_mixvars

-----------------------------------------------------------------------------
(* Properties *)

\* The bytes written and not mixed yet, oldest first
Queued == CopyOut(rp, aml_hw_mixer_get_content_l)

Queue == INSTANCE MixQueue WITH
  Bytes <- MixBytes,
  Silence <- MixZero,
  Capacity <- BufSize - MixGuard,
  MaxRequest <- MaxMix,
  queue <- Queued,
  present <- mix_allocated,
  reply <- mixed

\* Through every wrap of the two pointers and every overflow, the mixer is the
\* bounded queue: a full buffer is never taken for an empty one, and no byte
\* is mixed twice or out of order.
ImplementsMixQueue == Queue!Spec
=============================================================================
