# A verification of the Amlogic audio HAL

TLA+ specifications of the core of `libhalaudio` (`src/src/audio_hal` and
`src/src/utils`), TLC instances that check them, and proofs of the main results
for every value of the constants. Line numbers below are lines of
`src/src/audio_hal/audio_hw.c` unless another file is named.

## 1. The system

The library is one device object, `struct aml_audio_device`, and the streams
opened on it. Clients call it from threads of their own; an audio patch (input
to output inside the HAL) adds two threads and the callback thread, a captured
HDMI source adds a parser thread.

| part | state | operations | works with |
|---|---|---|---|
| output streams (`audio_hw.c`) | per stream: `status`, `dev_usecase_masks`, `write`, `pause_status`, `aml_dec`, `output_handle[]`; per device: `usecase_masks`, `bypass_enable`, `arc_hdmi_updated` and the mutexes `lock`, `alsa_pcm_lock`, `trans_lock` | open, write (`out_write_new` and the three write functions), standby, pause, resume, flush, close | output manager, hardware mixer, decoders; called by clients and by the patch output thread |
| output manager (`aml_output_manager.c`) | the two handles of a stream, with the configuration of each | open, close, write pcm, write raw, getinfo | called from `hw_write`, `config_output`, standby |
| standard ALSA output (`standard_alsa_manager.c`, `aml_audio_ease.c`) | delay ring, volume ramp, frames still to write | open, write with retries, close with fade out and silence | below the output manager |
| hardware mixer (`aml_hw_mixer.c`) | buffer, `wp`, `rp` | init, reset, deinit, write, mixing, read | written by the PCM_NORMAL stream, drained by the main stream |
| ring buffer (`utils/aml_ringbuffer.c`) | buffer, `rd`, `wr`, `last_is_write` | init, release, reset, read, write | between the two patch threads; the delay ring of an output handle |
| audio patch (`create_patch`, `release_patch`, two thread loops) | exit flags, ring buffer, format, callback handle | create, release, read input, write output | input stream, output stream, callback thread, format parser |
| patch registry (`adev_create_audio_patch`, `adev_release_audio_patch`) | list of patch sets, `audio_patch`, `audio_patching`, `patch_src`, `tuner2mix`, `aml_parser` | create, release, the two parameters that switch the input | audio patch, parser thread |
| callback thread (`aml_callback_api.c`) | list of callbacks, `thread_exit`, mutex and condition | init, install, remove, trigger, exit | triggered by the patch threads, called by clients |
| input streams (`audio_hw.c`, `aml_input_manager.c`, `alsa_manager.c`) | per stream: `standby`, `device`, handle, `lock`; per device: `active_input`, `in_device` | open, read, standby, routing, frame count, close | read by clients and by the patch input thread |
| format parser (`audio_format_parse.c`) | state, type, bytes since the last burst | create, feed, release; the parser thread | fed by the patch input thread |
| SPDIF input (`aml_spdif_in.c`) | status, rate, begin time | init, getinfo | asked by the patch input thread |
| decoders (`aml_dec_api.c` and the wrapper of each library) | input buffer, what a burst lacks | init, process, release | called by the main write path |
| audio delay (`aml_audio_delay.c`) | one handle of the device: circular buffer, two pointers | init, close, process, set | last step of the output processing; made anew by every open of a stream, freed by every close |
| resamplers, effects, mixer controls, configuration, and what is not built | see `components` in `PROJECT.json` | | |

**What is hard here.**

- *Several locks, held for part of a call.* A write chooses its write function
  under `adev->lock`, releases it, and then works on state that a standby, a
  close, a pause or another stream's write changes. `hw_write` takes
  `trans_lock` and `alsa_pcm_lock`; the hand-over to the mixer takes
  `adev->lock` and `alsa_pcm_lock`; `config_output` takes none of them for most
  of its work, though its comment asks for `adev->lock`. `in_read` starts a
  capture stream under the mutex of the stream alone.
- *No lock at all.* The two patch threads read the exit flags, the format and
  the ring buffer of a patch that a client frees, and a release signals their
  condition without its mutex.
- *Shared flags.* The use case masks decide the write path of every stream;
  `bypass_enable` is one flag for the device, set from one stream's
  configuration and read by another's write; `patch_src` is one source for all
  patch sets.
- *Pointers that wrap*, in three buffers that tell full from empty in three
  different ways (a flag in the ring buffer, 64 bytes kept free in the mixer, a
  buffer longer than any delay in the audio delay).
- *Signals without the mutex, and waits without a predicate*, in the callback
  thread and in the release of a patch.
- *Blocks that cut what they carry.* Parser and decoders get blocks that end
  anywhere in a burst, a frame or a sync word, and keep the rest in counters.
- *Failures half way*: a device that does not open, a decoder that is not
  created, a patch thread that does not start.

**What makes each part correct.**

- Output streams: an active stream's use case is registered, and every
  registered use case has an active owner; no write goes through an absent
  handle and no open handle is overwritten; `status` tells whether a handle is
  open; every lock is held by exactly the thread in the section it guards and is
  let go on every path; a PCM_NORMAL stream gives up the hardware when a second
  use case starts.
- Standard ALSA output: what is read out of the delay ring fits the buffer it
  goes to; a close fades to silence with the last delayed frame.
- Ring buffer and mixer: each is a bounded queue, in order, without loss beyond
  what its interface states. Audio delay: every sample comes out once, as late
  as asked for, and nothing but another delay or another handle starts it anew.
- Callback thread: what is triggered is called, a removed callback is not, the
  handle is freed after the thread has ended.
- Patch and registry: a release joins both threads before it frees what they
  use, and ends; a patch that runs can be released; a write into the ring whose
  space was tested has that space.
- Input streams: `active_input` is no freed stream, and no device stays open
  behind a stream in standby.
- Format parser: a bitstream is not taken for samples, nor lost between its
  bursts. Decoders: the library gets each frame once, whole and in order,
  however the input is cut.
- SPDIF input: a rate that is reported was there for the detecting time; one
  that lasts is reported.

## 2. Modules

| module | stands for |
|---|---|
| `OutputStreams` | the output streams, the mutexes and the output handles |
| `MCOutputStreams` | its instances for TLC: three kinds of stream and their use cases |
| `OutputStreamsProofs` | proofs about it |
| `AudioPatch`, `AudioPatchProofs` | patch registry, life of a device patch, its two threads; proofs about them |
| `CallbackThread`, `CallbackThreadProofs` | `aml_callback_api.c`, list variant; proofs of its safety |
| `InputStreams`, `InputStreamsProofs` | capture streams, their mutexes and handles; proofs about them |
| `RingBuffer`, `BoundedFifo`, `RingBufferProofs` | `utils/aml_ringbuffer.c`, what it promises, proofs that it keeps it |
| `HwMixer`, `MixQueue` | `aml_hw_mixer.c`, what it promises |
| `AudioDelay`, `DelayLine` | `aml_audio_delay.c`, what it promises |
| `BufferProofs` | proofs that the mixer and the delay keep their promises |
| `AlsaOutput` | the PCM write and close below a stream: delay ring, ramp, retries |
| `FormatParser`, `SyncScan` | the two format parsers; how the thread looks for a sync word in what it reads |
| `DecoderInput` | `aml_decoder_process`: MAT bursts to frames |
| `FrameDecoders`, `FrameDecodersProofs` | the Dolby and the DTS wrapper: blocks to frames; proofs that their buffer is bounded and that frames stay whole and in order |
| `SpdifInput` | `aml_spdif_in.c` |
| `DecodePathProofs` | proofs about `SpdifInput`, `FormatParser`, `AlsaOutput` and `DecoderInput` |
| `MCFair`, `MCParts`, `MCFrames` | instances for TLC |

### OutputStreams

A stream names its writer thread; controllers are the other threads. `pc` says
where a thread stands between two accesses to shared state:

| labels | code |
|---|---|
| `idle` | outside a call |
| `main_check`, `main_decode` | `mixer_main_buffer_write` |
| `cfg_check`, `cfg_close`, `cfg_bypass`, `cfg_decoder`, `cfg_mixer` | `config_output` |
| `aux_lock`, `aux_alsa`, `aux_close` | `mixer_aux_buffer_write` |
| `hw_trans`, `hw_alsa`, `hw_format`, `hw_open`, `hw_io`, `hw_tail` | `hw_write` |
| `sb_check`, `sb_alsa`, `sb_close`, `sb_masks`, `sb_store` | `do_output_standby_l` |

A section that runs under a mutex and touches only what this mutex guards is one
step. What is read without the right mutex is a step of its own: the status test
of `do_output_standby_l` before `alsa_pcm_lock` (5313), the test and the close
in `config_output` (6110), its setting of `bypass_enable` and the test of it (6257), the write function that is called after the unlock
(6962), and the two halves of the update of `usecase_masks` when the patch
thread enters standby without a lock (7426).

Abstractions. Audio data, positions and volumes are left out. A decoder gives
PCM in any configuration of `Configs`, or nothing. `out->lock` is always taken
under `adev->lock` and is no variable. `pause`, `standby` and `close` share the
steps of `do_output_standby_l`; what pause and close do after it, and the free
under a second `adev->lock` in close, is part of the last step, `StandbyFinish`.
The device runs without MS12 (`continuous_audio_mode` is 0): the Makefile builds
no MS12 file. A client closes a stream only when it is not inside a write of it.
`hal_format` is a constant of a stream: the format change of a running patch
stream is not modelled.

`SerialControl` is the one assumption about clients that the runs vary. With
FALSE a stream may be put into standby or paused at any moment of a write; with
TRUE only between writes, as a client with one thread does.

### AudioPatch

Neither the list of patch sets nor the device's pointers have a lock, so one
client thread makes the calls, as the policy thread of a device does. `client`
is where it is in a call: `create_patch` is split at the allocation, at each
thread it starts, at the parser and at the callback handle; `release_patch` at
each exit flag, the signal, the two joins and the free. `inpc` and `outpc` are
the two threads of a patch: the input thread is split at the loop test, the
read, the trigger of the callback, the test of the ring's space, the write and
the drop of a full ring; the output thread at the loop test, the test of the
level before the wait, the wait, the wake-up, the second test, the read, the
write and the callback that the write triggers when the format has changed (6391) or the
decoder has its first frame (6560). Every access to a field of the patch that the other side changes without
a lock is a step of its own.

The ring is a level in reads of the smallest size; `Muls` are the factors
`period_mul` by which formats with more channels or a higher rate read more.
That it is a queue is what `RingBuffer` shows. A patch that is freed keeps its
identity as `freed`, so that a use of it would be a visible state. A write of
the output stream may drop the ring (a new format); a clock change of HDMI wakes
the output thread, whose standby is `OutputStreams`' subject. A callback that is
triggered before `create_patch` has made the handle (7614) is ignored and lost.
The write of another client's stream also looks at `audio_patch` (6381), with no
lock, and may do so while the patch is released: that is not modelled.

`Exclusive` is the assumption about the client: it releases a source before it
uses the next one, as `src/src/test/test.c` does. Nothing in the code asks for
it; without it a second patch replaces the first in `audio_patch` (7550), and
the run `released` shows what the two kinds of set do to each other. `Faults` are
the calls that may fail. Left out: the switch of output format and sample rate within a patch,
which replaces one stream by another, routes, volumes and DTV.

### CallbackThread

Client calls work under the mutex from start to end and are one action each,
enabled while the thread does not own it. The thread is split at the loop test,
at the wait, at the wake-up and at every callback it calls; release is split at
setting `thread_exit`, the signal and the join, for it takes no mutex. A wait
may end spuriously. Clients are assumed to stop before they release the patch,
as `src/src/test/test.c:80` does.

### InputStreams

Each stream has the thread that reads and closes it (a client's, or a patch's);
one more thread controls them all. A call under both mutexes is one step from
the moment it has them; `in_read` (3486) holds `in->lock` only, so what it
changes in the device (`active_input`, `in_device`) and the opening of the
handle are steps between which another stream's standby may come. Whether the
device is in a call (`AUDIO_MODE_IN_CALL`), when starts and standbys leave
`in_device` alone, is a choice at each of them. A start that
fails after a new frame count leaves a stream that runs without a handle, whose
next read would end the program: the model stops such a stream there.

### AlsaOutput

A write passes the delay ring, whose contents stay `DELAY_TIME` behind, and what
comes out of it is written to the device in pieces, with retries and short
writes as the device chooses. `close` fades the delayed frames out and writes
silence. The unit is a frame; the ramp is linear, the only curve anyone selects.

### FormatParser, SyncScan

A block of input is what the parser tells apart: silence, samples, or a burst of
a data type. `FormatParser` feeds the same input to both parsers:
`feeddata_audio_type_parse`, with its four states and the two thresholds, and
the parser thread's `update_audio_type`. What the hardware's own detection says
is a choice. `SyncScan` has the bytes of a sync word one by one, and the window
of the thread's buffer in which it is looked for.

### DecoderInput, FrameDecoders

Both have the input as a sequence of units that know which frame they belong to
and where in it they are, so "whole and in order" is an equation.
`DecoderInput` is `aml_decoder_process` for the Atmos library: three counters
carry a burst from one block to the next. `FrameDecoders` is
`dcv_decoder_process_patch` and `dca_decoder_process_patch`: a buffer, a search
for a header, at most one frame a call. The input is laid out first and frame by
frame: what lies before the first frame (`Leads`), then a size and a type for each
(`FrameComes`), and only then blocks of any number of stereo frames up to `MaxBlock` units are read.

A DTS burst is of a core, of DTS-HD, which has a second header, or it carries
nothing: a DTS-HD header that is wrong (`error`), a length of 0 (`empty`) or a type
that the decoder does not know (`other`). Of these the decoder skips what
`SkippedHeader` says. How much the DTS library takes of a frame is its choice, from
one sample on: what it does not take stays in `inbuf`, where the next scan passes
over it. With `Refusing` it may also take nothing (`LeaveFrame`): `remain_size` is
lower by then and `inbuf` has not moved. The Dolby wrapper calls its library
until the frame is used up (`aml_dcv_dec_api.c:1009-1035`) and has no such case, but
a burst of length 0 leaves the same way. Libraries are taken to use no more than they are
handed. Two details of the data are left out: a DTS frame of 2013 bytes is called one of
2012 (`aml_dca_dec_api.c:514`), and the moves of `inbuf` are `memcpy` calls whose ranges may
overlap.

What the properties need of the input and the code does not check is stated beside
them. `BlocksFitFrames`: no block is longer than what a frame takes in the stream. A
patch reads blocks of 2048 bytes, times `period_mul` (7362, 7399-7407), and the shortest
burst of DTS takes as much (`audio_format_parse.h:39`); with eight channels or a high rate
it depends on what is played, and a client that writes raw Dolby may write any block.
`HeadersAreMet`: what the DTS decoder gathers reaches beyond the next header. The
periods of DTS-HD go to 65536 bytes (`audio_format_parse.h:42`) and the decoder gathers
16384, so this is an assumption about the stream: section 3 says what happens without it, and
`WholeFramesAreGiven` in section 4 what holds all the same.

### RingBuffer, HwMixer, AudioDelay

Every function runs under a mutex and is one action. Pointers are offsets.
`Contents`, `Queued` and `Delayed` are the refinement mappings: the data between
the read and the write pointer, through the wrap. Covering writes are those
their callers make, at most as long as the buffer. `BoundedFifo` leaves open how
much a covering write that overruns drops, and says only that what remains is
the newest part, in order; the code drops much more than it must.
`ring_buffer_reset_size` has no caller and is left out.

`MixQueue` is what the mixer does on overflow and not what one would wish: the
queue is dropped, of the new data a prefix is kept, and the caller is told that
everything was taken.

`DelayLine` is a delay as its user sees it: as many samples come out as go in, behind
those on their way. How many are on their way changes only when another delay is
asked for than the one that runs, and then to that delay's worth at the rate of the
block; a line that is opened anew is empty, and one that is closed gives nothing. `AudioDelay`
has all four functions: `aml_audiodelay_init`, which every open of a stream calls
(3957), `aml_audiodelay_close`, which every close calls (4012), the process and the
setter. Each is one action. That a close may free the handle while another stream's
write is inside the process, which nothing prevents, is not modelled: it would be a use of
freed memory.

### SpdifInput

Only the moments at which the capture thread asks count. Time is the distance
between two calls, at most `MaxGap`; between two calls the rate may have been
anything. Three observers record for how long the calls have seen what they see.

## 3. Runs

| run | instance | shows |
|---|---|---|
| `concurrent` | a normal and a raw stream, one controller at any moment, failing opens | the registry is consistent in both directions, a closed stream leaves nothing behind, the write path suits the masks the stream saw, every mutex is held by the thread inside its sections |
| `serial` | the same streams, control between writes, two PCM configurations, one notification | no absent handle is written to, none is lost, `status` is true |
| `fair` | a normal stream, a patch stream with the unlocked standby, one controller; beside them the callback thread with two clients, two functions, at most two callbacks; fairness of both | every call on a stream returns; the normal stream hands the hardware over; no callback is listed twice or left behind by a round, and all are freed only after the thread; whoever is triggered at a wake-up is called, a release that finds the thread waiting ends |
| `patchlife` | one patch at a time, two sets, three sources, five failures; fairness | no thread runs on a freed patch, ring or callback handle; only a live patch is released; a running patch can be; a tested write fits; every call returns |
| `parts` | nine parts, one at a time | the two queues and the delay keep their promises (three refinements), parsers and decoders find what the input holds however it is cut, the output fades out, input streams and the SPDIF rate behave |
| `bypass` | two direct streams | violated: `NoNullHandle` |
| `unlocked` | a normal and a patch stream | violated: `ActiveIsRegistered` |
| `lost` | one client | violated: `TriggeredIsCalled` |
| `released` | a capture beside a device patch | violated: `PatchIsReleasable` |
| `split` | reads shorter than the distance of sync words | violated: `EveryWordIsFound` |
| `incomplete` | Dolby frames in IEC 61937 | violated: `FramesInOrder` |
| `refused` | DTS frames of which the library may take nothing | violated: `WholeFramesGiven` |

`parts` checks in one run what shares no variable: its initial state chooses the
part that moves, the others stay in their initial state, and each property reads
one part. This is the same as nine runs. `fair` does so with two: in their initial
states neither a stream nor the callback thread has begun anything, so what stands
still is owed no step.

**Bounds.**

- Output streams: two are enough for each of the masks' three regimes (none,
  normal alone, a second use case) and for two writers in one mutex; one
  controller adds the third thread to `alsa_pcm_lock`. `MaxEvents` bounds the
  ARC and routing notifications; one forces the reconfiguration of either stream
  at any moment.
- Patches: with `Exclusive` one patch lives at a time; a freed slot is used
  again. Two sets give a device set beside
  a playback or a capture set and the replacement of a former one. A ring of two reads and
  factors 1 and 2 give full, empty, and a factor that changes between the test
  and the write; the threshold of 2 delays the first signal of a line input.
- Callbacks: two slots of one type, which is all the types there are, give a
  first and a later match.
- Queues: three bytes of buffer give pointers in both orders, both wraps, full
  and empty; requests longer than the buffer give every partial transfer. The code never looks at
  a value, so two of them show a wrong order. In the
  mixer a request as long as the buffer overflows it in every state. The delay
  has two rates, so that a new rate moves the pointers at unequal distances.
- Decoders: three bursts or frames, so that one is cut on both sides; blocks of
  every whole number of stereo frames up to six units; input that begins inside a burst; two frame sizes,
  one longer and one shorter than what the Dolby scan leaves; nearly a whole period
  before the first frame (`incomplete` and `refused` also have none). An ASSUME of `MCParts`
  checks that its values satisfy `BlocksFitFrames` and `HeadersAreMet`. `refused`
  takes the DTS bursts of the same two sizes. Parser: packages of one and
  two blocks and a check size of three, so that every threshold is met from below
  and above.
- SPDIF: a detecting time longer than a gap, so that several calls fall into it.

**What the violated runs say** (details under `findings`):

- `bypass`: a stream that only opened its RAW handle under bypass decodes and
  writes PCM after another stream's configuration clears the flag.
- `unlocked`: the patch thread's standby loses a concurrent registration.
- `lost`: a trigger before the wait is lost, and no later round looks at it
  until something else signals.
- `released`: the release of a capture set puts `patch_src` to none, and the
  release of the device set beside it then leaves its patch and its two threads
  behind. `patchlife` checks the same property for a client with `Exclusive`.
- `split`: a sync word that two reads of the parser thread cut is never seen,
  although the thread keeps three bytes for that purpose.
- `incomplete`: the test for a complete burst forgets the header's eight bytes,
  so the library may be given a frame whose end is still to come. The same
  property holds for raw Dolby and for DTS (`parts`).
- `refused`: a frame of which the DTS library takes nothing is found again by the
  next call, but `remain_size` was lowered, so that the end of the buffer is gone and the frame
  there is given with a piece missing.

**What the code does and no run shows.** The first five can be met in the models as
they are, in an instance with the threads or the sizes named here.

- A standby reads the status before it takes `alsa_pcm_lock` (5313) and sets it
  to standby afterwards (5339). If the writer's thread opens the output in between, the
  stream ends in standby with an open output, and its next open replaces the handle. It
  needs a client that calls standby from another thread than the one that writes, which
  `SerialControl` excludes from `serial`.
- The write function is called after the mutex under which it was chosen (6958), so a
  PCM_NORMAL stream may open the hardware while a second use case has begun to mix. Its
  next write hands it over: `NormalHandsOver` is what holds. `WriteSuitsMasks` reads the
  field `write`, not the pointer that was fetched from it.
- `config_output` closes the handles without the lock its comment asks for (6110); a
  standby of the same stream from another thread may be closing them too.
- The bytes of a delay are computed when `delay_time` changes and not when the rate does
  (`aml_audio_delay.c:146`), so after a change from 44.1 to 48 kHz the delay is no longer
  the milliseconds asked for. `DelayLine` takes the samples at the rate of the first block
  as the promise.
- With `BurstPeriod` longer than `Gather` the order of `FramesInOrder` has gaps: a
  DTS scan that finds no header in a full buffer keeps its first eight bytes and not its last
  (`aml_dca_dec_api.c:433`), so a burst whose header lies there is lost. No frame is cut by
  it.
- A capture stream whose restart after a new frame count failed is no longer in standby
  (3300), so its next read does not start it and uses the absent handle.
- With `"linein"` in `Faults`, that is if `audio=linein` releases its patch and cannot
  create the new one (4510), `audio_patching` stays set and the next release works on
  the freed patch; `patchlife` checks `ReleaseIsOfLivePatch` without that failure.
- The standby of a stream that was refused its use case frees the owner's (6854), which
  is why `RegistryCorrect` below needs distinct use cases.
- Only the legacy write path clears `standby` (1700), so `resume` of a paused stream
  refuses.
- While the DTS library goes on refusing a frame, each call adds a block to `inbuf` and
  takes less off it than that, so `InbufBounded` is not true with `Refusing`. The
  loop of the Dolby wrapper never ends if its library stops taking anything
  (`aml_dcv_dec_api.c:1009`).
- Nothing limits a block: while blocks are longer than the frames of a raw Dolby stream,
  `inbuf` grows with every call (`aml_dcv_dec_api.c:929`).

**Fairness.** `OutputStreams`: strong fairness of every writer and of every
controller that is in a call. The kernel schedules every runnable thread, and a
thread that waits for a mutex which is free again and again gets it; clients
keep writing, since a playing client does. No call of a controller, no
notification and no opening is ever owed. `AudioPatch`: weak fairness of a call
that has begun and of each patch thread, whose reads, writes and timed waits
end; no new call is owed. `CallbackThread`: weak fairness of the thread and of a
release that has begun; neither triggers nor spurious wake-ups are owed.

## 4. Proofs

All theorems hold for every value of the constants under the named assumptions
of the modules, which TLC evaluates in the runs: `ThreadsAssumption` (streams and
controllers are different threads), `StreamsAssumption`, `ConfigsAssumption`,
`BoundsAssumption`, `RingAssumption`, `ClientAssumption`, `DataAssumption` (the
data of a callback is not the mark for none), `SlotsAssumption`,
`BytesAssumption`, `SizesAssumption`, `MixBytesAssumption`, `MixSizesAssumption`,
`DelayAssumption`, `SpdifAssumption`, `InputAssumption`, `FrameAssumption` (a burst
with its headers fits its period), `ParserAssumption` (the bound of the history is beyond two packages and beyond `iec_check_size`) and
`OutputAssumption` (the delay and the fade in are longer than a frame, and the
ring is longer than the delay). A theorem that asks for more says so in its own
ASSUME. Each invariant below was checked by TLC on the instance of the runs
before it was proved.

- `OutputStreamsProofs!TypeCorrect`: `TypeOK`, which is inductive, with one
  lemma per group of actions.
- `OutputStreamsProofs!RegistryCorrect`: `ActiveIsRegistered`, provided there is
  no patch stream and every stream has a use case of its own. Both conditions
  are needed: the run `unlocked` shows it fail with a patch stream, and with a
  shared use case the standby of a refused stream (6854) clears the owner's bit.
  The inductive invariant joins it to the types; most steps frame the four
  variables it reads, and a validated write, an open and the end of a standby are
  the ones that do not.
- `OutputStreamsProofs!LocksCorrect`: `LockDiscipline` for any number of
  threads. It is stated as an equivalence of owner and section for each mutex,
  which makes it inductive on its own: a thread that enters a section found the
  mutex free, so no other thread is in one.
- `OutputStreamsProofs!OutputsCorrect`: `NoLeakedHandle` and
  `StatusTellsOutput`, provided control comes between writes (`SerialControl`),
  use cases are distinct and there is no patch stream. Otherwise the status test of a standby
  (5313) and the close it decides on lie around another thread's open. Two
  invariants carry it: `PlacesInv` says that a stream under control is not inside a
  write, and `StatusInv` what `status` says, at each place of a write or a standby,
  of the masks and of the handles.
- `OutputStreamsProofs!HandlesCorrect`: `NoNullHandle` for the same, and when a
  direct IEC 61937 stream is the only direct stream (`RawAlone`). The run `bypass`
  shows that it fails with two. `DeviceInv` adds that a stream opens and asks
  for no device but the one `bypass_enable` gives it.
- `RingBufferProofs!TypeCorrect`: the pointers stay inside the buffer.
- `RingBufferProofs!RingBufferIsFifo`: `RingBuffer` implements `BoundedFifo` for
  every size. The argument: read space and write space add up to the size; the
  i-th byte of `Contents` is the one at `rd + i` modulo the size; a write of n
  bytes that fit changes only the n bytes after `wr`, none of which is in
  `Contents`, so it appends; a covering write that overruns leaves `rd` where it
  is and keeps a suffix; a read moves `rd` and drops a prefix.
- `DecodePathProofs!SpdifConfirmed` and `SpdifSteady`: the two properties of the
  SPDIF input for every set of rates, detecting time and gap. Neither is
  inductive. `SpdifInv` has one part for each of the four phases: how long the rate
  has been there, or away, relative to `begin_time`, and how old a rate can at most be in
  that phase. `SpdifInvariant` proves it with one lemma per phase.
- `AudioPatchProofs!TypeCorrect`, `ThreadsCorrect`, `TriggerCorrect` and
  `PutCorrect`: `TypeOK`, `ThreadsUseLivePatch`, `TriggerIsSafe` and `PutFits` of
  the patches, for any number of patches, any ring and formats, whether or not the
  client releases a source before the next (`Exclusive`) and whatever fails. That
  a thread runs only on a live patch is not inductive: a free would break it. `PatchInv`
  adds what the client knows at each place of a call: at the free of a release both
  threads have ended, before the output thread is started, and in the undo of a create, it does not
  run, and a patch that is being started is live. A put has its space because only
  the input thread raises the level. A lemma shows that every step of the two threads only ends
  threads and neither makes nor frees a patch (`ThreadKeeps`), so that the steps of
  the client are what is left.

- `AudioPatchProofs!ReleaseCorrect` and `ReleasableCorrect`:
  `ReleaseIsOfLivePatch` and `PatchIsReleasable`, for a client with `Exclusive`
  and unless the patch of a line input cannot be made (`"linein"` in `Faults`); the
  run `released` and section 3 show what happens otherwise. `OwnerInv` relates
  the registered sets to `audio_patch`, `audio_patching` and `patch_src`: between calls
  (`IdleInv`) a live patch is the one `audio_patch` points at and has a device
  set with its source, and within a call (`CallInv`) the only live patch is the
  call's, which gives back what it took apart. `SetsInv` keeps the sets themselves apart:
  one device set, and no capture beside it.
- `CallbackThreadProofs!TypeCorrect`, `NoDuplicateCorrect`, `ScanCorrect` and
  `FreedCorrect`: the four safety properties, for any clients, functions and
  number of slots. `ListInv` is `TypeOK` with two facts about the thread: its
  place in the list is the front unless it is in a round, and there is no thread
  before `init_audio_callback`. With it each of the other three is inductive: an
  install looks for the function first and a removal takes one slot out; both need
  the mutex, which the thread has during a round; and nothing starts a thread
  that has ended.
- `BufferProofs!MixerIsQueue` and `DelayIsLine`: `HwMixer` implements `MixQueue`
  and `AudioDelay` implements `DelayLine`. Both rest on the same lemmas about a
  window of a circular buffer: writing behind it appends, reading moves its
  front. For the mixer the invariant is that what is queued leaves `MixGuard`
  bytes free, so that equal pointers mean empty. For the delay it is that behind
  the waiting samples there is room for the longest block of any rate, so that
  a block never reaches them. A process maps to `Play`, with the samples on
  their way kept while the delay is the one that runs and replaced by exactly the new
  delay's worth of silence when it is not; init, close and the setter map to `Open`,
  `Close` and `Ask`. That the delay is also the milliseconds asked for is not so (section 3).
- `InputStreamsProofs!ActiveInputCorrect` and `StandbyHandleCorrect`:
  `ActiveInputIsOpen` and `StandbyHoldsNoDevice` for any number of streams.
  `in_read` works with the mutex of the stream alone, so the argument is
  about who can be where: `CallersInv` and `HoldersInv` say which mutexes a
  thread has at each place, `ClosingInv` that a closing stream has no other
  caller, and `ActiveInv` and `HandleInv` that a stream in standby is the active
  input, or has a handle, only while its mutex is held.
- `DecodePathProofs!SettledCorrect` and `TrackedCorrect`: `PcmIsSettled` and
  `BurstsAreTracked` for every set of packages, blocks and thresholds.
  `ParserInv` compares each parser's count with what went by since the last
  burst: while it is synchronised the two are equal and at most two packages,
  while it is not the count is behind; the thread's count is always behind.
- `DecodePathProofs!PiecesCorrect` and `FadeCorrect`: `PiecesFitBuffer` and
  `FadeReachesSilence`. `OutputInv` says that between two calls the ring holds what
  was accepted, up to the delay, and that in the fade what the ramp has covered and
  what the ring still holds make up the delay. The volume is a quotient; that it is
  exact (`ExactQuotient`) turns it into the frames that are left.

- `DecodePathProofs!FramesStayWhole`: `FramesAreWhole` for every length of a burst
  and of its payload. The units of the input are numbered, so what was gathered is an
  interval of them. `DecoderInv` says that before the first header nothing is
  gathered, and that from then on the place of `pos` in its burst fixes `inbuf`,
  `raw_deficiency`, `last_consumed_bytes` and the frames decoded so far. A block has two
  cases: it stays inside the burst (`StayStep`), or it meets the next header
  (`CrossStep`), before which the distance to the last one is a whole burst, so that
  what was gathered is kept.

- `FrameDecodersProofs!InbufIsBounded`: `InbufBounded` for every stream, under
  `BlocksFitFrames` and while a library takes something of each frame (`~Refusing`). The bound is not inductive: a call that finds a whole frame adds a
  block and takes the frame off, and whether that makes `inbuf` longer depends on
  what else it holds. `InputInv` says how the stream is laid out: the frames lie one
  behind the other, each begins with a header and has its payload behind it, and nothing
  else looks like a header. `BufferInv` says that a header in `inbuf` is the one
  the stream has at that place. `DepthInv` then bounds what is kept by the distance
  to the last header that was passed: either `inbuf` is short, or some frame
  begins before what it holds and not further back than the bound. A call moves both
  ends: it reads at most one block, and a header it passes is at least as far
  behind the last one as that block is long.
- `FrameDecodersProofs!WholeFramesAreGiven` and `FramesAreInOrder`:
  `WholeFramesGiven` and `FramesInOrder` for every stream, both without `Refusing` and without
  Dolby bursts, which the runs `refused` and `incomplete` show to be cut. The second
  also has `HeadersAreMet`, which the first does without: periods longer than the DTS buffer
  lose frames (section 3), but never a part of one. The order invariant names the frame up to
  which everything was given, was lost or carries nothing, and says that what is kept
  begins behind that frame's header and not behind the next one: so the first header
  that is found is a later frame's, and its payload is what `ContentInv` says. After
  the last frame there is no header left to find. `HeadersAreMet` is used once, to show
  that a scan that finds nothing forgets nothing but what lies after the last frame. A raw DTS stream is one argument: what was given and
  what is kept are the stream read so far (`Verbatim`), in which one frame follows the other
  (`RawInv`).

Every invariant a passing run checks is proved. Only model-checked is what needs
fairness (`CallsReturn` of both modules, `NormalHandsOver`, `SignalledIsCalled`,
`WaitingIsReleased`), which is beyond the prover.

## 5. Not modelled

*Built, but never reached.* `adev_open` installs `adev_open_output_stream_new`
unconditionally (`if (1)`), which replaces the entry points of every stream.
Nothing calls `out_write_legacy` (1766-2385), `out_write_direct` (2604-2940),
`start_output_stream` and its variants (534-776), `aml_hal_mixer` (352-447) or,
through them, `audio_hwsync.c`. The decoder threads, `Write_buffer` and
`dcv_decode_init` are started only inside `#if 0` (3496-3531), and nothing sets
`decode_enabled` of a parser. `in_reset_preroid_size`, `ring_buffer_reset_size`
and the software mixer have no caller.

*Not built.* `RESAMPLER`, `SUPPORT_AUDIO_ROUTE` (without it `audio_route.c` is
empty), `ENABLE_AVSYNC_TUNING`, `SPDIF_ENCODER`, `NOISE_GATE`, `ENABLE_MS12` and
`ENABLE_DTV` are not defined; `audio_hw_dtv.c`, `audio_hw_ms12.c`,
`audio_policy.c` and `libms12` are not among the Makefile's objects; `rcaudio`
has no Makefile, and `audio_hw.c:5089` has a stub in its place.

*Vendored*: tinyalsa, speex_rate, cJSON. What remains of the sources after these
three groups is a small part of the tree, and much of it is per-sample
arithmetic without state between blocks (volume, levels, channel maps, bass
management, sample conversion), text parsing, mixer controls and logging. A model of
one of these would repeat it line by line.

*Part of a modelled component, but left out*:

- The second SPDIF output (`aml_audio_spdif_output`), whose failed open returns
  with `alsa_pcm_lock` held (5461).
- The two short branches of `mixer_main_buffer_write`: a format without a decoder
  that is mixed as it is (6648-6665), and the new start of a Dolby decoder after
  an error (6575-6588), which leaves a decoder or none, as `ConfigDecoder` does.
- The change of output format and sample rate inside a running patch, and so a
  patch stream whose `hal_format` changes.
- What the closed decoder libraries do with a frame, and AC-3 bursts of the Atmos
  library.
- Freed memory. Close frees the stream and writes to it afterwards (7063), and frees the
  delay that another stream's write may be inside (4012).
- The writes of other clients' streams that use `audio_patch` while it is released (6381).
- Which frames a retry of `snd_pcm_writei` repeats: `AlsaOutput` counts frames,
  and the loop starts again from the front of its buffer
  (`standard_alsa_manager.c:302`).
- `delay_max` is a constant of `AudioDelay`: the setter may change it between the
  clamp and the use (`aml_audio_delay.c:141`).

*Seen while reading, without a property*: three use cases can be registered
because more than two are counted before the new one is added (6866); the main
stream asks the mixer for as many bytes as it was given encoded data (6615);
only the newest callback of a type is triggered, so
that a second client silences the first (`aml_callback_api.c:138`);
`aml_hw_mixer_init` makes the mutex anew while a main stream may hold it
(`aml_hw_mixer.c:32`); `linein` compares where it means to assign (4526).

## 6. Plan

1. The second SPDIF output beside `hw_write`, with the mutex it leaves locked.
2. Dynamic `hal_format` of a patch stream in `OutputStreams`.
