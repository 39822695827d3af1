------------------------------ MODULE SpdifInput ------------------------------
(***************************************************************************)
(* How the SPDIF input decides on its sample rate                          *)
(* (src/src/audio_hal/aml_spdif_in.c): a rate must last for                *)
(* SPDIFIN_DETECTING_DURATION before it is reported, and its absence as    *)
(* long before it is given up.  Only the moments at which the capture      *)
(* thread asks count; the rate may be anything between two of them.        *)
(***************************************************************************)
EXTENDS Naturals

CONSTANTS
  SpdifRates,     \* rates of the hardware
  NoRate,         \* 0: no signal
  Detecting,      \* SPDIFIN_DETECTING_DURATION
  MaxGap          \* longest time between two calls

ASSUME SpdifAssumption ==
  /\ NoRate \notin SpdifRates
  /\ Detecting \in Nat \ {0} /\ MaxGap \in Nat \ {0}

VARIABLES
  status, samplerate,   \* of aml_spdif_in_t
  since_begin,          \* time from begin_time to the last call
  output_rate,          \* what the last call answered
  asked,                \* the rate it saw
  run,                  \* observer: time for which every call saw that rate
  confirmed,            \* observer: the last rate that was seen for Detecting
  lost                  \* observer: time for which no call saw output_rate

spdifvars == <<status, samplerate, since_begin, output_rate, asked, run, confirmed, lost>>

SpdifCap == 2 * (Detecting + MaxGap)
Later(t, gap) == IF t + gap < SpdifCap THEN t + gap ELSE SpdifCap

\* aml_spdifin_init
SpdifInit ==
  /\ status = "unstable" /\ samplerate = NoRate /\ since_begin = 0 /\ output_rate = NoRate
  /\ asked = NoRate /\ run = 0 /\ confirmed = NoRate /\ lost = 0

\* Mutants: the first look is believed; a rate is never believed, nor given up
Expired_always(t) == TRUE
Expired_never(t) == FALSE

Expired(t) == t >= Detecting

-----------------------------------------------------------------------------
(* aml_spdifin_getinfo, `elapsed` after begin_time with the hardware at `rate` *)

Answer(st, rate, begin, out) ==
  status' = st /\ samplerate' = rate /\ since_begin' = begin /\ output_rate' = out

Unstable(rate) ==
  /\ status = "unstable"
  /\ Answer(IF rate = NoRate THEN "unstable" ELSE "unstable_to_stable", rate, 0, NoRate)

UnstableToStable(rate, elapsed) ==
  /\ status = "unstable_to_stable"
  /\ IF samplerate # rate THEN Answer("unstable", rate, elapsed, NoRate)
     ELSE IF Expired(elapsed) THEN Answer("stable", rate, elapsed, rate)
     ELSE Answer(status, samplerate, elapsed, NoRate)

Stable(rate, elapsed) ==
  /\ status = "stable"
  /\ IF samplerate = rate THEN Answer(status, samplerate, elapsed, samplerate)
     ELSE Answer("stable_to_unstable", samplerate, 0, samplerate)

\* A rate that comes back in time is still the stable one
StableToUnstable(rate, elapsed) ==
  /\ status = "stable_to_unstable"
  /\ IF samplerate = rate THEN Answer("stable", samplerate, elapsed, samplerate)
     ELSE IF Expired(elapsed) THEN Answer("unstable", samplerate, elapsed, NoRate)
     ELSE Answer(status, samplerate, elapsed, samplerate)

aml_spdifin_getinfo(rate, gap) ==
  /\ LET elapsed == Later(since_begin, gap) IN
       \/ Unstable(rate)
       \/ UnstableToStable(rate, elapsed)
       \/ Stable(rate, elapsed)
       \/ StableToUnstable(rate, elapsed)
  /\ asked' = rate
  /\ run' = IF rate = asked THEN Later(run, gap) ELSE 0
  /\ confirmed' = IF rate # NoRate /\ run' >= Detecting THEN rate ELSE confirmed
  /\ lost' = IF output_rate' = output_rate /\ output_rate \notin {rate, asked}
             THEN Later(lost, gap) ELSE 0

SpdifNext ==
  \E rate \in SpdifRates \cup {NoRate}, gap \in 1..MaxGap : aml_spdifin_getinfo(rate, gap)

SpdifSpec == SpdifInit /\ [][SpdifNext]_spdifvars

-----------------------------------------------------------------------------
(* Properties *)

\* A rate that is reported was seen by every call for the detecting time, no other
\* rate was since, and it has not been away for as long: dither shows neither a new
\* rate nor silence.
ReportedRateIsConfirmed ==
  output_rate # NoRate => output_rate = confirmed /\ lost < Detecting

\* A rate that lasts is reported in the end, whatever came before: at most one
\* detecting time to give the former rate up, one for the new one, and a call after each.
SteadyRateIsReported ==
  run >= 2 * (Detecting + MaxGap) => output_rate = asked
=============================================================================
