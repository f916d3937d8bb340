-------------------------- MODULE AdcSamplingProofs --------------------------
(***************************************************************************)
(* Safety of the analog sampling for every number of channels, every depth *)
(* of the sample buffer and any number of conversions.                     *)
(***************************************************************************)
EXTENDS AdcSampling, TLAPS

(* The type invariant in two halves: the flags, and everything else.       *)
Bits ==
  {grpp, thread, streamOn, tcif, teif, adcOn, ovr, ovrie, faulted} \subseteq BOOLEAN

Ranges ==
  /\ adcState \in {"READY", "ACTIVE"}
  /\ ndtr \in 0..Size
  /\ samples \in [Indices -> Nat]
  /\ sampler \in {"loop", "suspended", "ready"}
  /\ conversion \in Nat
  /\ status \in {"blocked", "reading"}
  /\ seen \in [Indices -> Nat \union {NotLoaded}]
  /\ panic \in {"none", "already_waiting", "not_ready", "null_group"}

(***************************************************************************)
(* The thread is suspended exactly while the driver has a group, and the   *)
(* stream, its flags and its interrupts are on for no longer than that.    *)
(***************************************************************************)
OneConversion ==
  /\ thread <=> sampler = "suspended"
  /\ grpp <=> sampler = "suspended"
  /\ adcState = "ACTIVE" <=> sampler = "suspended"
  /\ streamOn => sampler = "suspended"
  /\ tcif \/ teif => streamOn
  /\ tcif => ndtr = 0
  /\ NoPanic

(***************************************************************************)
(* Until a fault, the DMA has written this conversion's samples up to its  *)
(* position, behind it are those of the conversion before; between two     *)
(* conversions all samples are of the last one.                            *)
(***************************************************************************)
SamplesUpToDate ==
  ~faulted =>
    /\ ~teif /\ ~ovr
    /\ \A i \in Indices :
         samples[i] = IF sampler = "suspended" /\ i >= Size - ndtr
                      THEN conversion - 1 ELSE conversion

(* The inductive invariant.                                                *)
KInv ==
  /\ Ranges
  /\ OneConversion
  /\ SamplerWillWake
  /\ SamplesUpToDate
  /\ TwoConversionsAtMost

IInv == Bits /\ KInv

(* The halves make the type invariant.                                     *)
LEMMA TypeHalves == TypeOK <=> Bits /\ Ranges
BY Zenon DEF TypeOK, Bits, Ranges

(* There is at least one sample, and their number never changes.           *)
LEMMA SizeType == Size \in Nat /\ Size > 0 /\ Size' = Size /\ Indices' = Indices
<1>1. \A a, b \in Nat \ {0} : a * b \in Nat /\ a * b > 0
  OBVIOUS
<1>2. Size' = Size /\ Indices' = Indices
  BY DEF Size, Indices
<1> QED
  BY <1>1, <1>2, AdcAssumption DEF Size

(* Every flag is assigned a flag.                                          *)
LEMMA BitsStep == Bits /\ [Next]_vars => Bits'
<1> SUFFICES ASSUME Bits, [Next]_vars PROVE Bits'
  OBVIOUS
<1> USE DEF Bits, drvVars, dmaVars, adcVars, commVars
<1>1. CASE AdcConvert \/ AdcConvertReturns
  BY <1>1, Zenon DEF AdcConvert, AdcConvertReturns
<1>2. CASE DmaTransfer \/ DmaFails \/ AdcOverflow
  BY <1>2, Zenon DEF DmaTransfer, DmaFails, AdcOverflow
<1>3. CASE AdcHandler
  BY <1>3, Zenon DEF AdcHandler, AdcStopConversion, AdcEnds
<1>4. CASE DmaHandler
  BY <1>4, Zenon DEF DmaHandler, AdcStopConversion, AdcEnds
<1>5. CASE StatusStart \/ (\E i \in Indices : StatusLoad(i)) \/ StatusEnd
  BY <1>5, Zenon DEF StatusStart, StatusLoad, StatusEnd
<1>6. CASE UNCHANGED vars
  BY <1>6, Zenon DEF vars
<1> QED
  BY <1>1, <1>2, <1>3, <1>4, <1>5, <1>6, Zenon DEF Next

-----------------------------------------------------------------------------
(* After ADCinit nothing is converting and all samples are zero.           *)
LEMMA InitEstablishes == Init => IInv
<1>1. Init => Bits
  BY Zenon DEF Init, Bits
<1>2. Init => KInv
  BY SizeType
  DEF Init, KInv, Ranges, OneConversion, NoPanic, SamplerWillWake, SamplesUpToDate,
      TwoConversionsAtMost
<1> QED
  BY <1>1, <1>2 DEF IInv

(* adcConvert meets a ready driver, and a buffer of the last conversion.   *)
LEMMA AdcConvertStep == IInv /\ AdcConvert => KInv'
<1> SUFFICES ASSUME IInv, AdcConvert PROVE KInv'
  OBVIOUS
<1>1. sampler = "loop" /\ ~thread /\ adcState = "READY" /\ ~tcif /\ ~teif
  BY DEF IInv, KInv, Ranges, OneConversion, AdcConvert
<1>2. /\ panic' = "none" /\ adcState' = "ACTIVE" /\ grpp' /\ thread' /\ ndtr' = Size
      /\ streamOn' /\ adcOn' /\ ~ovr' /\ ovrie' /\ sampler' = "suspended"
      /\ conversion' = conversion + 1 /\ status = "blocked"
      /\ UNCHANGED <<tcif, teif, samples, status, seen, faulted>>
  BY <1>1 DEF AdcConvert, SamplerHasCpu, commVars, IInv, KInv, OneConversion, NoPanic
<1>3. Ranges'
  BY <1>2, SizeType DEF IInv, KInv, Ranges
<1>4. OneConversion' /\ SamplerWillWake'
  BY <1>1, <1>2, SizeType DEF OneConversion, NoPanic, SamplerWillWake
<1>5. SamplesUpToDate'
  BY <1>1, <1>2, SizeType DEF IInv, KInv, Ranges, SamplesUpToDate, Indices
<1>6. TwoConversionsAtMost'
  BY <1>2 DEF TwoConversionsAtMost
<1> QED
  BY <1>3, <1>4, <1>5, <1>6 DEF KInv

(* A transfer writes the sample at the DMA's position; the last one ends   *)
(* the conversion.                                                         *)
LEMMA DmaTransferStep == IInv /\ DmaTransfer => KInv'
<1> SUFFICES ASSUME IInv, DmaTransfer PROVE KInv'
  OBVIOUS
<1>1. tcif' <=> tcif \/ ndtr = 1
  BY Zenon DEF DmaTransfer
<1>2. /\ adcOn /\ streamOn /\ ndtr > 0 /\ ndtr' = ndtr - 1
      /\ samples' = [samples EXCEPT ![Size - ndtr] = conversion]
      /\ UNCHANGED <<adcState, grpp, thread, streamOn, teif, adcOn, ovr, ovrie,
                     sampler, conversion, status, seen, panic, faulted>>
  BY DEF DmaTransfer, drvVars, adcVars, commVars
<1>3. sampler = "suspended" /\ Size - ndtr \in Indices
  BY <1>2, SizeType DEF IInv, KInv, Ranges, OneConversion, Indices
<1>4. Ranges'
  BY <1>2, <1>3, SizeType DEF IInv, KInv, Ranges
<1>5. OneConversion' /\ SamplerWillWake'
  BY <1>1, <1>2, SizeType DEF IInv, KInv, Ranges, OneConversion, NoPanic, SamplerWillWake
<1>6. SamplesUpToDate'
  BY <1>2, <1>3, SizeType DEF IInv, KInv, Ranges, SamplesUpToDate, Indices
<1>7. TwoConversionsAtMost'
  BY <1>2 DEF IInv, KInv, TwoConversionsAtMost
<1> QED
  BY <1>4, <1>5, <1>6, <1>7 DEF KInv

(* The failures of the hardware only start interrupts, and are remembered. *)
LEMMA FailureStep == IInv /\ (DmaFails \/ AdcOverflow) => KInv'
<1> SUFFICES ASSUME IInv, DmaFails \/ AdcOverflow PROVE KInv'
  OBVIOUS
<1> USE DEF drvVars, dmaVars, commVars
<1>1. /\ faulted' /\ ~adcOn'
      /\ UNCHANGED <<adcState, grpp, thread, ndtr, streamOn, tcif, ovrie, samples,
                     sampler, conversion, status, seen, panic>>
  BY DEF DmaFails, AdcOverflow
<1>2. \/ teif' /\ streamOn /\ UNCHANGED ovr
      \/ ovrie /\ ovr' /\ UNCHANGED teif
  BY DEF DmaFails, AdcOverflow
<1>3. Ranges' /\ SamplesUpToDate' /\ TwoConversionsAtMost'
  BY <1>1 DEF IInv, KInv, Ranges, SamplesUpToDate, TwoConversionsAtMost
<1>4. OneConversion' /\ SamplerWillWake'
  BY <1>1, <1>2 DEF IInv, KInv, OneConversion, NoPanic, SamplerWillWake
<1> QED
  BY <1>3, <1>4 DEF KInv

(***************************************************************************)
(* Both handlers end a conversion in the same way, and only with a group;  *)
(* without a fault, after the last transfer.                               *)
(***************************************************************************)
LEMMA ConversionEnds ==
  ASSUME IInv, AdcStopConversion(TRUE) \/ AdcStopConversion(FALSE), NEW msg, AdcEnds(msg),
         grpp, panic' = "none",
         ~faulted => ndtr = 0,
         ovr' => ovr,
         UNCHANGED <<ndtr, samples, conversion, commVars, faulted>>
  PROVE  KInv'
<1>1. /\ ~streamOn' /\ ~tcif' /\ ~teif' /\ ~adcOn' /\ ~ovrie'
      /\ adcState' = "READY" /\ ~grpp' /\ ~thread' /\ sampler' = "ready"
  BY DEF AdcStopConversion, AdcEnds, IInv, KInv, OneConversion
<1>2. UNCHANGED <<status, seen>>
  BY DEF commVars
<1>3. Ranges' /\ TwoConversionsAtMost'
  BY <1>1, <1>2 DEF IInv, KInv, Ranges, TwoConversionsAtMost
<1>4. OneConversion' /\ SamplerWillWake'
  BY <1>1 DEF IInv, KInv, OneConversion, NoPanic, SamplerWillWake
<1>5. SamplesUpToDate'
  <2> SUFFICES ASSUME ~faulted PROVE ~ovr' /\ \A i \in Indices : samples[i] = conversion
    BY <1>1 DEF SamplesUpToDate
  <2>1. ndtr = 0 /\ ~ovr
    BY DEF IInv, KInv, SamplesUpToDate
  <2>2. ASSUME NEW i \in Indices PROVE samples[i] = conversion
    <3>1. ~(i >= Size - ndtr)
      BY <2>1, SizeType DEF Indices
    <3> QED
      BY <3>1 DEF IInv, KInv, SamplesUpToDate
  <2> QED
    BY <2>1, <2>2
<1> QED
  BY <1>3, <1>4, <1>5 DEF KInv

(* The overflow interrupt: it ends the conversion, or the transfer complete*)
(* interrupt is pending and will.                                          *)
LEMMA AdcHandlerStep == IInv /\ AdcHandler => KInv'
<1> SUFFICES ASSUME IInv, AdcHandler PROVE KInv'
  OBVIOUS
<1>1. /\ faulted /\ ovr /\ ~ovr'
      /\ UNCHANGED <<ndtr, samples, conversion, commVars, panic, faulted>>
  BY DEF AdcHandler, IInv, KInv, SamplesUpToDate
<1>2. panic' = "none"
  BY <1>1 DEF IInv, KInv, OneConversion, NoPanic
<1>3. CASE OverflowMatters
  BY <1>1, <1>2, <1>3, ConversionEnds DEF AdcHandler, OverflowMatters
<1>4. CASE ~OverflowMatters
  <2>1. UNCHANGED <<adcState, grpp, thread, streamOn, tcif, teif, adcOn, ovrie, sampler>>
    BY <1>4 DEF AdcHandler, drvVars
  <2>2. UNCHANGED <<status, seen>>
    BY <1>1 DEF commVars
  <2>3. Ranges' /\ TwoConversionsAtMost' /\ SamplesUpToDate'
    BY <1>1, <2>1, <2>2 DEF IInv, KInv, Ranges, TwoConversionsAtMost, SamplesUpToDate
  <2>4. OneConversion' /\ SamplerWillWake'
    BY <1>1, <1>4, <2>1 DEF IInv, KInv, Ranges, OneConversion, NoPanic, SamplerWillWake,
       OverflowMatters
  <2> QED
    BY <2>3, <2>4 DEF KInv
<1> QED
  BY <1>3, <1>4

(* The stream's interrupt always finds a group.                            *)
LEMMA DmaHandlerStep == IInv /\ DmaHandler => KInv'
<1> SUFFICES ASSUME IInv, DmaHandler PROVE KInv'
  OBVIOUS
<1>1. grpp /\ (teif => faulted) /\ (tcif => ndtr = 0) /\ panic = "none"
  BY DEF DmaHandler, IInv, KInv, OneConversion, SamplesUpToDate, NoPanic
<1>2. /\ AdcStopConversion(TRUE) /\ \E msg : AdcEnds(msg)
      /\ panic' = "none" /\ (~faulted => ndtr = 0)
      /\ (ovr' => ovr) /\ UNCHANGED <<ndtr, samples, conversion, commVars, faulted>>
  BY <1>1 DEF DmaHandler
<1> QED
  BY <1>1, <1>2, ConversionEnds

(* A status loads samples while no conversion can start.                   *)
LEMMA ThreadStep ==
  IInv /\ (\/ AdcConvertReturns \/ StatusStart
           \/ (\E i \in Indices : StatusLoad(i)) \/ StatusEnd) => KInv'
<1> SUFFICES ASSUME IInv,
                    \/ AdcConvertReturns \/ StatusStart
                    \/ (\E i \in Indices : StatusLoad(i)) \/ StatusEnd
             PROVE  KInv'
  OBVIOUS
<1> USE DEF drvVars, dmaVars, adcVars, commVars
<1>1. /\ UNCHANGED <<adcState, grpp, thread, ndtr, streamOn, tcif, teif, adcOn, ovr,
                     ovrie, samples, conversion, faulted, panic>>
      /\ sampler' = sampler \/ (sampler = "ready" /\ sampler' = "loop")
  BY DEF AdcConvertReturns, StatusStart, StatusLoad, StatusEnd
<1>2. OneConversion' /\ SamplerWillWake' /\ SamplesUpToDate'
  BY <1>1 DEF IInv, KInv, OneConversion, NoPanic, SamplerWillWake, SamplesUpToDate
<1>3. Ranges' /\ TwoConversionsAtMost'
  <2>1. CASE AdcConvertReturns \/ StatusEnd
    BY <1>1, <2>1 DEF IInv, KInv, Ranges, TwoConversionsAtMost, AdcConvertReturns, StatusEnd
  <2>2. CASE StatusStart
    BY <1>1, <2>2 DEF IInv, KInv, Ranges, TwoConversionsAtMost, StatusStart
  <2>3. ASSUME NEW i \in Indices, StatusLoad(i) PROVE Ranges' /\ TwoConversionsAtMost'
    <3>1. seen' = [seen EXCEPT ![i] = samples[i]] /\ UNCHANGED <<status, sampler>>
      BY <2>3 DEF StatusLoad
    <3>2. Ranges'
      BY <1>1, <3>1 DEF IInv, KInv, Ranges
    <3>3. ~faulted => samples[i] \in {conversion - 1, conversion}
      BY DEF IInv, KInv, SamplesUpToDate
    <3>4. TwoConversionsAtMost'
      BY <1>1, <3>1, <3>3 DEF IInv, KInv, Ranges, TwoConversionsAtMost
    <3> QED
      BY <3>2, <3>4
  <2> QED
    BY <2>1, <2>2, <2>3
<1> QED
  BY <1>2, <1>3 DEF KInv

(* The invariant is inductive.                                             *)
THEOREM Inductive == Spec => []IInv
<1>1. IInv /\ UNCHANGED vars => KInv'
  BY DEF IInv, KInv, vars, drvVars, dmaVars, adcVars, commVars, Ranges, OneConversion,
     NoPanic, SamplerWillWake, SamplesUpToDate, TwoConversionsAtMost
<1>2. IInv /\ Next => KInv'
  BY AdcConvertStep, DmaTransferStep, FailureStep, AdcHandlerStep, DmaHandlerStep,
     ThreadStep, Zenon
  DEF Next
<1>3. IInv /\ [Next]_vars => IInv'
  BY <1>1, <1>2, BitsStep, Zenon DEF IInv
<1> QED
  BY <1>3, InitEstablishes, PTL DEF Spec

(***************************************************************************)
(* adcConvert never finds the driver busy or a thread already waiting, and *)
(* no error interrupt meets a group that is already gone.                  *)
(***************************************************************************)
THEOREM DriverNeverPanics == Spec => []NoPanic
<1>1. IInv => NoPanic
  BY DEF IInv, KInv, OneConversion
<1> QED
  BY <1>1, Inductive, PTL

(***************************************************************************)
(* Without a lock on samples[], a status still never mixes samples of more *)
(* than two consecutive conversions, for any number and depth of channels. *)
(***************************************************************************)
THEOREM StatusIsRecent == Spec => []TwoConversionsAtMost
<1>1. IInv => TwoConversionsAtMost
  BY DEF IInv, KInv
<1> QED
  BY <1>1, Inductive, PTL

(***************************************************************************)
(* A suspended sampler always has a transfer to come or an interrupt that  *)
(* will resume it, also after an overflow or a failure of the DMA.         *)
(***************************************************************************)
THEOREM SamplerIsNeverStranded == Spec => []AdcConsistent
<1>1. IInv => AdcConsistent
  BY TypeHalves DEF IInv, KInv, AdcConsistent
<1> QED
  BY <1>1, Inductive, PTL
=============================================================================
