---------------------------- MODULE AdcSampling ----------------------------
(***************************************************************************)
(* Analog sampling: adcSampleThread converts all channels BufDepth times   *)
(* into samples[], by DMA, again and again, while the communication thread *)
(* reads samples[] in processStatus without any lock (adcSampleMutex is    *)
(* never used).                                                            *)
(*                                                                         *)
(* A sample is the number of the conversion it comes from, 0 for the       *)
(* initial zero of samples[].  The ADC interrupt (overflow) and the DMA    *)
(* stream's interrupt have the same priority: each handler is one step.    *)
(* A failed assertion, or a use of a null group, sets panic.               *)
(***************************************************************************)
EXTENDS Integers

CONSTANTS
  NumChannels,               \* ADC_GRP1_NUM_CHANNELS (6)
  BufDepth,                  \* ADC_GRP1_BUF_DEPTH (4)
  MaxConversions             \* bound: conversions started

ASSUME AdcAssumption ==
  /\ NumChannels \in Nat \ {0}
  /\ BufDepth \in Nat \ {0}
  /\ MaxConversions \in Nat

Size == NumChannels * BufDepth

Indices == 0..(Size - 1)

VARIABLES
  adcState,                  \* ADCD1.state
  grpp,                      \* is ADCD1.grpp set?
  thread,                    \* is ADCD1.thread set?
  ndtr,                      \* transfers the DMA stream has left
  streamOn,                  \* the stream's EN and interrupt enables
  tcif, teif,                \* its transfer complete and error flags
  adcOn,                     \* is the ADC converting?
  ovr, ovrie,                \* overflow, and its interrupt enable
  samples,                   \* samples[]
  sampler,                   \* where adcSampleThread is
  conversion,                \* conversions started (history)
  faulted,                   \* the ADC overflowed or the DMA failed (history)
  status,                    \* the communication thread: "blocked" or "reading"
  seen,                      \* samples processStatus has loaded
  panic

drvVars == <<adcState, grpp, thread>>
dmaVars == <<ndtr, streamOn, tcif, teif>>
adcVars == <<adcOn, ovr, ovrie>>
commVars == <<status, seen>>
vars == <<drvVars, dmaVars, adcVars, samples, sampler, conversion, faulted, commVars, panic>>

NotLoaded == -1

(* After ADCinit.                                                          *)
Init ==
  /\ adcState = "READY"
  /\ grpp = FALSE
  /\ thread = FALSE
  /\ ndtr = 0
  /\ streamOn = FALSE
  /\ tcif = FALSE
  /\ teif = FALSE
  /\ adcOn = FALSE
  /\ ovr = FALSE
  /\ ovrie = FALSE
  /\ samples = [i \in Indices |-> 0]
  /\ sampler = "loop"
  /\ conversion = 0
  /\ faulted = FALSE
  /\ status = "blocked"
  /\ seen = [i \in Indices |-> NotLoaded]
  /\ panic = "none"

-----------------------------------------------------------------------------
(* adcSampleThread                                                         *)

(* Fault: the sampling thread gets a priority of its own.                  *)
SamplerHasCpuAlways == TRUE

(***************************************************************************)
(* Both threads have NORMALPRIO and there are no time slices: the sampler  *)
(* runs only after the communication thread has blocked.                   *)
(***************************************************************************)
SamplerHasCpu == status = "blocked"

(* adcConvert: start the conversion and suspend, in one critical section.  *)
AdcConvert ==
  /\ panic = "none"
  /\ sampler = "loop"
  /\ SamplerHasCpu
  /\ conversion < MaxConversions
  /\ panic' = IF thread THEN "already_waiting"
              ELSE IF adcState # "READY" THEN "not_ready"
              ELSE panic
  /\ adcState' = "ACTIVE"
  /\ grpp' = TRUE
  /\ thread' = TRUE
  /\ ndtr' = Size
  /\ streamOn' = TRUE
  /\ adcOn' = TRUE
  /\ ovr' = FALSE
  /\ ovrie' = TRUE
  /\ sampler' = "suspended"
  /\ conversion' = conversion + 1
  /\ UNCHANGED <<tcif, teif, samples, commVars, faulted>>

(* It returns; the loop ignores the message.                               *)
AdcConvertReturns ==
  /\ panic = "none"
  /\ sampler = "ready"
  /\ SamplerHasCpu
  /\ sampler' = "loop"
  /\ UNCHANGED <<drvVars, dmaVars, adcVars, samples, conversion, commVars, panic, faulted>>

-----------------------------------------------------------------------------
(* The hardware.                                                           *)

(* The next sample goes to memory; the last one ends the transfer.         *)
DmaTransfer ==
  /\ panic = "none"
  /\ adcOn
  /\ streamOn
  /\ ndtr > 0
  /\ samples' = [samples EXCEPT ![Size - ndtr] = conversion]
  /\ ndtr' = ndtr - 1
  /\ tcif' = (tcif \/ ndtr = 1)
  /\ UNCHANGED <<drvVars, streamOn, teif, adcVars, sampler, conversion, commVars, panic, faulted>>

DmaFails ==
  /\ panic = "none"
  /\ adcOn
  /\ streamOn
  /\ ndtr > 0
  /\ teif' = TRUE
  /\ adcOn' = FALSE
  /\ faulted' = TRUE
  /\ UNCHANGED <<drvVars, ndtr, streamOn, tcif, ovr, ovrie, samples, sampler,
                 conversion, commVars, panic>>

(* A result the DMA did not fetch in time; also after the last transfer,   *)
(* as the ADC goes on until it is stopped, or after a DMA failure.         *)
AdcOverflow ==
  /\ panic = "none"
  /\ ovrie
  /\ ~ovr
  /\ ovr' = TRUE
  /\ adcOn' = FALSE
  /\ faulted' = TRUE
  /\ UNCHANGED <<drvVars, dmaVars, ovrie, samples, sampler, conversion, commVars, panic>>

-----------------------------------------------------------------------------
(* The interrupts.                                                         *)

(* Fault: pending flags of the stream survive the stop.                    *)
AdcStopConversionKeepsFlags(flagged) ==
  /\ streamOn' = FALSE
  /\ tcif' = (tcif /\ ~flagged)
  /\ teif' = (teif /\ ~flagged)
  /\ adcOn' = FALSE
  /\ ovrie' = FALSE

(***************************************************************************)
(* adc_lld_stop_conversion: dmaStreamDisable also clears the stream's      *)
(* flags, those (flagged) the handler has cleared before it included.      *)
(***************************************************************************)
AdcStopConversion(flagged) ==
  /\ streamOn' = FALSE
  /\ tcif' = FALSE
  /\ teif' = FALSE
  /\ adcOn' = FALSE
  /\ ovrie' = FALSE

(* Fault: after an error the thread is left waiting.                       *)
AdcEndsSilently(msg) ==
  /\ adcState' = "READY"
  /\ grpp' = FALSE
  /\ IF msg = "OK"
     THEN thread' = FALSE /\ sampler' = IF thread THEN "ready" ELSE sampler
     ELSE UNCHANGED <<thread, sampler>>

(* The common end of _adc_isr_full_code and _adc_isr_error_code, without   *)
(* callbacks: the group is reset and the thread resumed.                   *)
AdcEnds(msg) ==
  /\ adcState' = "READY"
  /\ grpp' = FALSE
  /\ thread' = FALSE
  /\ sampler' = IF thread THEN "ready" ELSE sampler

(* Fault: one transfer left is taken for none.                             *)
OverflowMattersLate == ndtr > 1 /\ grpp

OverflowMatters == ndtr > 0 /\ grpp

AdcHandler ==
  /\ panic = "none"
  /\ ovr
  /\ ovrie
  /\ ovr' = FALSE
  /\ IF OverflowMatters
     THEN AdcStopConversion(FALSE) /\ AdcEnds("TIMEOUT")
     ELSE UNCHANGED <<drvVars, streamOn, tcif, teif, adcOn, ovrie, sampler>>
  /\ UNCHANGED <<ndtr, samples, conversion, commVars, panic, faulted>>

(* An error is handled without looking at the group.                       *)
DmaHandler ==
  /\ panic = "none"
  /\ tcif \/ teif
  /\ IF teif
     THEN /\ panic' = IF grpp THEN panic ELSE "null_group"
          /\ AdcStopConversion(TRUE)
          /\ AdcEnds("TIMEOUT")
     ELSE IF grpp
     THEN AdcStopConversion(TRUE) /\ AdcEnds("OK") /\ UNCHANGED panic
     ELSE /\ tcif' = FALSE
          /\ UNCHANGED <<drvVars, streamOn, teif, adcOn, ovrie, sampler, panic>>
  /\ UNCHANGED <<ndtr, ovr, samples, conversion, commVars, faulted>>

-----------------------------------------------------------------------------
(* processStatus: the loads of one status, in any order the compiler likes.*)

StatusStart ==
  /\ panic = "none"
  /\ status = "blocked"
  /\ status' = "reading"
  /\ seen' = [i \in Indices |-> NotLoaded]
  /\ UNCHANGED <<drvVars, dmaVars, adcVars, samples, sampler, conversion, panic, faulted>>

StatusLoad(i) ==
  /\ panic = "none"
  /\ status = "reading"
  /\ seen[i] = NotLoaded
  /\ seen' = [seen EXCEPT ![i] = samples[i]]
  /\ UNCHANGED <<drvVars, dmaVars, adcVars, samples, sampler, conversion, status, panic, faulted>>

(* The reply is written and the thread blocks in its next read or write.   *)
StatusEnd ==
  /\ panic = "none"
  /\ status = "reading"
  /\ \A i \in Indices : seen[i] # NotLoaded
  /\ status' = "blocked"
  /\ UNCHANGED <<drvVars, dmaVars, adcVars, samples, sampler, conversion, seen, panic, faulted>>

-----------------------------------------------------------------------------
Next ==
  \/ AdcConvert
  \/ AdcConvertReturns
  \/ DmaTransfer
  \/ DmaFails
  \/ AdcOverflow
  \/ AdcHandler
  \/ DmaHandler
  \/ StatusStart
  \/ \E i \in Indices : StatusLoad(i)
  \/ StatusEnd

(* The ADC converts and interrupts are served.  Nothing is assumed of the  *)
(* threads: on a channel that is not connected the communication thread    *)
(* never blocks, and its peer never runs.                                  *)
Fairness ==
  /\ WF_vars(DmaTransfer)
  /\ WF_vars(AdcHandler)
  /\ WF_vars(DmaHandler)

Spec == Init /\ [][Next]_vars

FairSpec == Spec /\ Fairness

-----------------------------------------------------------------------------
(* Properties.                                                             *)

(* The type invariant.                                                     *)
TypeOK ==
  /\ adcState \in {"READY", "ACTIVE"}
  /\ grpp \in BOOLEAN
  /\ thread \in BOOLEAN
  /\ ndtr \in 0..Size
  /\ streamOn \in BOOLEAN
  /\ tcif \in BOOLEAN
  /\ teif \in BOOLEAN
  /\ adcOn \in BOOLEAN
  /\ ovr \in BOOLEAN
  /\ ovrie \in BOOLEAN
  /\ samples \in [Indices -> Nat]
  /\ sampler \in {"loop", "suspended", "ready"}
  /\ conversion \in Nat
  /\ faulted \in BOOLEAN
  /\ status \in {"blocked", "reading"}
  /\ seen \in [Indices -> Nat \union {NotLoaded}]
  /\ panic \in {"none", "already_waiting", "not_ready", "null_group"}

(***************************************************************************)
(* The driver is ready whenever the thread comes back, and the DMA error   *)
(* path never meets a group that the overflow handler has already reset:   *)
(* stopping the stream withdrew the DMA interrupt with it.                 *)
(***************************************************************************)
NoPanic == panic = "none"

(***************************************************************************)
(* Until a fault the samples of one status come from at most two          *)
(* conversions, the one under way and the one before it, although no lock  *)
(* protects samples[]: none can start while the communication thread runs. *)
(* Otherwise an average could mix any number of conversions.               *)
(***************************************************************************)
TwoConversionsAtMost ==
  ~faulted /\ status = "reading" =>
    \A i \in Indices : seen[i] \in {NotLoaded, conversion - 1, conversion}

(***************************************************************************)
(* A suspended sampler has something to wake it: transfers still to come,  *)
(* or an interrupt that will be served and will resume it.                 *)
(***************************************************************************)
SamplerWillWake ==
  sampler = "suspended" =>
    /\ thread /\ grpp
    /\ \/ adcOn /\ ndtr > 0
       \/ tcif \/ teif
       \/ ovr /\ ovrie /\ ndtr > 0

(* Driver, hardware and thread agree on the conversion under way.          *)
AdcConsistent == TypeOK /\ SamplerWillWake

(***************************************************************************)
(* Every conversion ends and makes the sampler ready, also after an        *)
(* overflow or a DMA failure and whatever the communication thread does.   *)
(* When it then runs is the scheduler's matter (Scheduling).               *)
(***************************************************************************)
SamplerIsResumed == sampler = "suspended" ~> sampler = "ready"
=============================================================================
