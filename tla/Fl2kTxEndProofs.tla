--------------------------- MODULE Fl2kTxEndProofs ---------------------------
(***************************************************************************)
(* Theorems about the transmit engine that count its transfers or follow   *)
(* its end.  Whatever fails, two buffers are never with libusb; as long as *)
(* it streams the pipeline is full; after a single stop the transfers are  *)
(* freed when libusb holds none and the device when no thread uses it.     *)
(* But for the first, each theorem assumes of the faults, the stops and    *)
(* libusb only what it needs: TLC finds a counterexample to the property   *)
(* when any one of the assumptions is dropped.                             *)
(***************************************************************************)
EXTENDS Fl2kTxProofs, FiniteSetTheorems

USE DEF control, buffers, usb, uwVars, cbLocals, cbVars, swLocals, swVars,
        appVars, Open, UwAt, CbAt, SwAt, StopAt

-----------------------------------------------------------------------------
(* The buffers no transfer of which was submitted: those of the sample     *)
(* worker and the blocks that wait.                                        *)
Spare == {b \in Buf : state[b] # "SUBMITTED"}

(* No buffer is lost to the sample worker.  fl2k_start_tx makes two more   *)
(* buffers than it submits, and _libusb_callback takes one of them only in *)
(* exchange for the one that completed: whatever fails, two are never with *)
(* libusb, so that one block can be converted while another one waits.     *)
TwoToSpare == Cardinality(Spare) >= 2

(* It is inductive with the ownership of the buffers: the callback has     *)
(* chosen a FILLED buffer and gives a SUBMITTED one back.                  *)
THEOREM NoBufferIsLost == Spec => []TwoToSpare
<1>1. IsFiniteSet(Buf) /\ Cardinality(Buf) = XferNum + 2
  BY BufFacts, ConstantsAssumption, FS_Interval DEF Buf, XferBufNum
<1>2. Init => TwoToSpare
  <2>1. Init => Spare = Buf
    BY DEF Init, Spare
  <2> QED BY <1>1, <2>1, ConstantsAssumption DEF TwoToSpare
<1>3. ASSUME Inv, TwoToSpare, [Next]_vars PROVE TwoToSpare'
  <2> USE <1>3 DEF Inv, Basics, TypeOK, Spare
  <2>1. CASE CbSubmitNext
    <3>1. /\ cb = "scan" /\ next_buf \in Spare /\ cb_xfer \in Buf \ Spare
          /\ state' = [state EXCEPT ![next_buf] = "SUBMITTED",
                                   ![cb_xfer] = "EMPTY"]
      BY <2>1, BufFacts DEF CbSubmitNext, ScanDone, Ownership
    <3>2. Spare' = (Spare \ {next_buf}) \cup {cb_xfer}
      BY <3>1
    <3>3. IsFiniteSet(Spare)
      <4>1. Spare \in SUBSET Buf
        OBVIOUS
      <4> QED BY <1>1, <4>1, FS_Subset
    <3>4. /\ IsFiniteSet(Spare \ {next_buf})
          /\ Cardinality(Spare \ {next_buf}) = Cardinality(Spare) - 1
      BY <3>1, <3>3, FS_RemoveElement
    <3>5. Cardinality(Spare') = Cardinality(Spare \ {next_buf}) + 1
      <4>1. cb_xfer \notin Spare \ {next_buf}
        BY <3>1
      <4>2. Cardinality((Spare \ {next_buf}) \cup {cb_xfer})
              = Cardinality(Spare \ {next_buf}) + 1
        BY <3>4, <4>1, FS_AddElement
      <4> QED BY <3>2, <4>2
    <3>6. Cardinality(Spare) \in Nat
      BY <3>3, FS_CardinalityType
    <3> QED BY <3>4, <3>5, <3>6 DEF TwoToSpare
  <2>2. CASE SwPublish
    <3>1. sw_xfer \in Buf /\ state[sw_xfer] = "EMPTY"
      BY <2>2 DEF SwPublish, Ownership
    <3>2. Spare' = Spare
      BY <2>2, <3>1 DEF SwPublish
    <3> QED BY <3>2 DEF TwoToSpare
  <2>3. CASE StartTx
    <3>1. PICK k \in 0 .. XferNum : AllocSubmit(k)
      BY <2>3 DEF StartTx
    <3>2. ASSUME NEW b \in XferNum .. XferNum + 1 PROVE b \in Spare'
      <4>1. b \in Buf /\ ~(b < XferNum)
        BY BufFacts, ConstantsAssumption DEF XferBufNum
      <4>2. state' = [c \in Buf |-> IF c <= k /\ c < XferNum THEN "SUBMITTED"
                                                            ELSE "EMPTY"]
        BY <3>1 DEF AllocSubmit
      <4> QED BY <4>1, <4>2
    <3>3. IsFiniteSet(Spare')
      <4>1. Spare' \in SUBSET Buf
        OBVIOUS
      <4> QED BY <1>1, <4>1, FS_Subset
    <3>4. Cardinality(XferNum .. XferNum + 1) = 2
      BY ConstantsAssumption, FS_Interval
    <3>5. Cardinality(XferNum .. XferNum + 1) <= Cardinality(Spare')
      <4>1. XferNum .. XferNum + 1 \in SUBSET Spare'
        BY <3>2
      <4> QED BY <3>3, <4>1, FS_Subset
    <3> QED BY <3>4, <3>5 DEF TwoToSpare
  <2>4. CASE UNCHANGED state
    <3>1. Spare' = Spare
      BY <2>4
    <3> QED BY <3>1 DEF TwoToSpare
  <2>5. CASE ~CbSubmitNext /\ ~SwPublish /\ ~StartTx
    <3>1. ASSUME NEW b \in Buf, Dispatch(b) PROVE UNCHANGED state
      BY <3>1 DEF Dispatch
    <3>2. ASSUME CbStep PROVE UNCHANGED state
      BY <2>5, <3>2 DEF CbStep, CbScan, CbResubmit, CbSignal, CbCount, CbError
    <3>3. ASSUME NEW c \in Callers, StopRead(c) \/ StopStep(c)
          PROVE  UNCHANGED state
      BY <3>3 DEF StopRead, StopStep, StopCancel, StopFlag, StopForce
    <3>4. ASSUME UwStep PROVE UNCHANGED state
      BY <3>4 DEF UwStep, UwRun, UwEventsReturn, UwPoll, UwDrainReturn, UwCheck,
         UwCancel, UwFlushReturn, UwCancelEnd, UwLastFlushReturn, UwJoin,
         UwFinish
    <3>5. ASSUME SwStep \/ SpuriousWakeup \/ Unplug PROVE UNCHANGED state
      BY <2>5, <3>5 DEF SwStep, SwTop, SwCallback, SwScan, SwScanEnd, SwWoken,
         SwConvert, SwExit, SpuriousWakeup, Unplug
    <3>6. ASSUME AppStep PROVE UNCHANGED state
      BY <2>5, <3>6 DEF AppStep, StartTxFails, SpawnUsbWorker,
         SpawnSampleWorker, SetRateBegin, SetRateEnd, CloseBegin, CloseFinish
    <3>7. ASSUME UNCHANGED vars PROVE UNCHANGED state
      BY <3>7 DEF vars
    <3> QED
      BY <2>4, <3>1, <3>2, <3>3, <3>4, <3>5, <3>6, <3>7 DEF Next
  <2> QED BY <2>1, <2>2, <2>3, <2>5
<1> QED BY <1>2, <1>3, Invariance, PTL DEF Spec

-----------------------------------------------------------------------------
(* The USB worker leaves its first loop only when streaming is over, which *)
(* it never is again, and cancels nothing before.                          *)
Streaming ==
  /\ uw \in Winding => async_status # "RUNNING"
  /\ async_status = "RUNNING" => cancelling = {}

(* It holds in every state. *)
LEMMA StreamingInvariant == Spec => []Streaming
<1>1. Init => Streaming
  BY DEF Init, Streaming, Winding
<1>2. Inv /\ Streaming /\ [Next]_vars => Streaming'
  <2> SUFFICES ASSUME Inv, Streaming, [Next]_vars PROVE Streaming'
    OBVIOUS
  <2> USE DEF Inv, Basics, TypeOK, Starting, Streaming, Winding
  <2>1. ASSUME NEW b \in Buf, Dispatch(b) PROVE Streaming'
    BY <2>1 DEF Dispatch
  <2>2. CASE CbStep
    BY <2>2 DEF CbStep, CbScan, CbSubmitNext, CbResubmit, CbSignal, CbCount,
       CbError
  <2>3. ASSUME NEW c \in Callers, StopRead(c) \/ StopStep(c) PROVE Streaming'
    BY <2>3 DEF StopRead, StopStep, StopCancel, StopFlag, StopForce
  <2>4. CASE UwStep
    BY <2>4 DEF UwStep, UwRun, UwEventsReturn, UwPoll, UwDrainReturn, UwCheck,
       UwCancel, UwFlushReturn, UwCancelEnd, UwLastFlushReturn, UwJoin, UwFinish
  <2>5. CASE SwStep \/ SpuriousWakeup \/ Unplug
    BY <2>5 DEF SwStep, SwTop, SwCallback, SwScan, SwScanEnd, SwWoken,
       SwConvert, SwPublish, SwExit, SpuriousWakeup, Unplug
  <2>6. CASE AppStep
    <3>1. CASE StartTx
      <4>1. cancelling = {}
        BY <3>1 DEF StartTx
      <4> QED BY <3>1, <4>1 DEF StartTx
    <3>2. CASE StartTxFails
      <4>1. cancelling = {}
        BY <3>2 DEF StartTxFails
      <4> QED BY <3>2, <4>1 DEF StartTxFails
    <3>3. CASE SpawnUsbWorker \/ SpawnSampleWorker
      BY <3>3 DEF SpawnUsbWorker, SpawnSampleWorker, SpawnResults
    <3>4. CASE SetRateBegin \/ SetRateEnd \/ CloseBegin \/ CloseFinish
      BY <3>4 DEF SetRateBegin, SetRateEnd, CloseBegin, CloseFinish
    <3> QED BY <2>6, <3>1, <3>2, <3>3, <3>4 DEF AppStep
  <2>7. CASE UNCHANGED vars
    BY <2>7 DEF vars
  <2> QED
    BY <2>1, <2>2, <2>3, <2>4, <2>5, <2>6, <2>7 DEF Next
<1> QED BY <1>1, <1>2, Invariance, PTL DEF Spec

-----------------------------------------------------------------------------
(* Without failing transfers the callback never stops the stream, and the  *)
(* device stays.                                                           *)
Healthy ==
  /\ plugged = TRUE /\ dev_lost = FALSE /\ notified = FALSE
  /\ cb \notin {"error", "stop", "signal_error"}
  /\ cb_r # "no_device"
  /\ "submit" \notin Faults => cb_r = "ok"
  /\ stop["callback"] = "idle"

(* It holds in every state if nothing but events and threads fails. *)
LEMMA HealthyInvariant ==
  ASSUME Faults \cap {"xfer", "unplug"} = {} PROVE Spec => []Healthy
<1>1. Init => Healthy
  BY DEF Init, Healthy, Callers
<1>2. Inv /\ Healthy /\ [Next]_vars => Healthy'
  <2> SUFFICES ASSUME Inv, Healthy, [Next]_vars PROVE Healthy'
    OBVIOUS
  <2> USE DEF Inv, Basics, TypeOK, Healthy
  <2>1. ASSUME NEW b \in Buf, Dispatch(b) PROVE Healthy'
    <3>1. PICK status \in Outcomes(b) : cb' = CbEntry(status)
      BY <2>1 DEF Dispatch
    <3>2. status # "ERROR"
      BY <3>1 DEF Outcomes
    <3>3. cb' \in {"scan", "idle"}
      BY <3>1, <3>2 DEF CbEntry
    <3> QED BY <2>1, <3>3 DEF Dispatch
  <2>2. CASE CbStep
    <3>1. CASE CbSubmitNext \/ CbResubmit
      <4>1. PICK r \in SubmitResults : cb_r' = r
        BY <3>1 DEF CbSubmitNext, CbResubmit
      <4>2. r \in {"ok", "fail"} /\ ("submit" \notin Faults => r = "ok")
        BY DEF SubmitResults
      <4>3. /\ cb' \in {"signal", "signal_underflow"}
            /\ UNCHANGED <<plugged, dev_lost, notified, stop>>
        BY <3>1 DEF CbSubmitNext, CbResubmit
      <4> QED BY <4>1, <4>2, <4>3
    <3>2. CASE CbScan \/ CbSignal \/ CbCount \/ CbError
      BY <3>2 DEF CbScan, CbSignal, CbCount, CbError, CbAfterSubmit
    <3> QED BY <2>2, <3>1, <3>2 DEF CbStep
  <2>3. ASSUME NEW c \in Callers, StopRead(c) \/ StopStep(c) PROVE Healthy'
    BY <2>3 DEF StopRead, MayStop, StopStep, StopCancel, StopFlag, StopForce,
       AfterStop, Callers
  <2>4. CASE UwStep
    BY <2>4 DEF UwStep, UwRun, UwEventsReturn, UwPoll, UwDrainReturn, UwCheck,
       UwCancel, UwFlushReturn, UwCancelEnd, UwLastFlushReturn, UwJoin, UwFinish
  <2>5. CASE SwStep \/ SpuriousWakeup \/ Unplug
    BY <2>5 DEF SwStep, SwTop, SwCallback, SwScan, SwScanEnd, SwWoken,
       SwConvert, SwPublish, SwExit, SpuriousWakeup, Unplug
  <2>6. CASE AppStep
    BY <2>6 DEF AppStep, StartTx, StartTxFails, SpawnUsbWorker,
       SpawnSampleWorker, SetRateBegin, SetRateEnd, CloseBegin, CloseFinish
  <2>7. CASE UNCHANGED vars
    BY <2>7 DEF vars
  <2> QED
    BY <2>1, <2>2, <2>3, <2>4, <2>5, <2>6, <2>7 DEF Next
<1> QED BY <1>1, <1>2, Invariance, PTL DEF Spec

-----------------------------------------------------------------------------
(* The transfers in flight are finitely many, so that they can be counted. *)
LEMMA InFlightFinite == TypeOK => IsFiniteSet(inflight)
<1>1. IsFiniteSet(Buf)
  BY BufFacts, FS_Interval DEF Buf
<1> QED BY <1>1, FS_Subset DEF TypeOK

(* Submitting a transfer that libusb does not hold. *)
LEMMA SubmitAdds ==
  ASSUME TypeOK, Healthy, "submit" \notin Faults, NEW b, b \notin inflight,
         NEW r \in SubmitResults, Submit(b, r)
  PROVE  Cardinality(inflight') = Cardinality(inflight) + 1
<1>1. inflight' = inflight \cup {b}
  BY DEF Healthy, SubmitResults, Submit
<1> QED BY <1>1, InFlightFinite, FS_AddElement

(* While the engine streams and no submission and no transfer fails, all   *)
(* transfers are in flight but for the one the callback replaces: the      *)
(* device never runs dry, whoever stops and whatever else fails.           *)
THEOREM PipelineStaysFull ==
  ASSUME Faults \subseteq {"events", "spawn"} PROVE Spec => []PipelineFull
<1>1. Init => PipelineFull
  BY DEF Init, PipelineFull
<1>2. ASSUME Inv, Streaming, Healthy, PipelineFull, [Next]_vars
      PROVE  PipelineFull'
  <2> USE <1>2 DEF Inv, Basics, TypeOK, Starting, PipelineFull
  <2>1. ASSUME NEW b \in Buf, Dispatch(b) PROVE PipelineFull'
    <3>1. /\ cb = "idle" /\ b \in inflight /\ inflight' = inflight \ {b}
          /\ UNCHANGED async_status
      BY <2>1 DEF Dispatch
    <3>2. ASSUME async_status = "RUNNING" PROVE cb' = "scan"
      <4>1. PICK status \in Outcomes(b) : cb' = CbEntry(status)
        BY <2>1 DEF Dispatch
      <4>2. status = "COMPLETED"
        BY <3>2, <4>1 DEF Outcomes, Streaming, Healthy
      <4> QED BY <3>2, <4>1, <4>2 DEF CbEntry
    <3>3. Cardinality(inflight') = Cardinality(inflight) - 1
      BY <3>1, InFlightFinite, FS_RemoveElement
    <3> QED BY <3>1, <3>2, <3>3, ConstantsAssumption
  <2>2. CASE CbSubmitNext
    <3>1. PICK r \in SubmitResults : Submit(next_buf, r)
      BY <2>2 DEF CbSubmitNext
    <3>2. /\ cb = "scan" /\ cb' = "signal" /\ UNCHANGED async_status
          /\ next_buf \notin inflight
      BY <2>2 DEF CbSubmitNext, ScanDone, Ownership
    <3>3. Cardinality(inflight') = Cardinality(inflight) + 1
      BY <3>1, <3>2, SubmitAdds
    <3> QED BY <3>2, <3>3, ConstantsAssumption
  <2>3. CASE CbResubmit
    <3>1. PICK r \in SubmitResults : Submit(cb_xfer, r)
      BY <2>3 DEF CbResubmit
    <3>2. /\ cb = "scan" /\ cb' = "signal_underflow" /\ UNCHANGED async_status
          /\ cb_xfer \notin inflight
      BY <2>3 DEF CbResubmit, ScanDone, Ownership
    <3>3. Cardinality(inflight') = Cardinality(inflight) + 1
      BY <3>1, <3>2, SubmitAdds
    <3> QED BY <3>2, <3>3, ConstantsAssumption
  <2>4. CASE CbScan \/ CbSignal \/ CbCount \/ CbError
    BY <2>4 DEF CbScan, CbSignal, CbCount, CbError, CbAfterSubmit
  <2>5. ASSUME NEW c \in Callers, StopRead(c) \/ StopStep(c)
        PROVE  PipelineFull'
    BY <2>5 DEF StopRead, MayStop, StopStep, StopCancel, StopFlag, StopForce,
       AfterStop, Resting
  <2>6. CASE UwStep
    BY <2>6 DEF UwStep, UwRun, UwEventsReturn, UwPoll, UwDrainReturn, UwCheck,
       UwCancel, UwFlushReturn, UwCancelEnd, UwLastFlushReturn, UwJoin, UwFinish
  <2>7. CASE SwStep \/ SpuriousWakeup \/ Unplug
    BY <2>7 DEF SwStep, SwTop, SwCallback, SwScan, SwScanEnd, SwWoken,
       SwConvert, SwPublish, SwExit, SpuriousWakeup, Unplug
  <2>8. CASE StartTx
    <3>1. PICK k \in 0 .. XferNum : AllocSubmit(k)
      BY <2>8 DEF StartTx
    <3>2. inflight' = 0 .. XferNum - 1
      BY <3>1 DEF AllocSubmit, Healthy
    <3>3. Cardinality(inflight') = XferNum
      BY <3>2, ConstantsAssumption, FS_Interval
    <3>4. cb' = "idle"
      BY <2>8 DEF StartTx
    <3> QED BY <3>3, <3>4, ConstantsAssumption
  <2>9. CASE AppStep /\ ~StartTx
    BY <2>9 DEF AppStep, StartTxFails, SpawnUsbWorker, SpawnSampleWorker,
       SetRateBegin, SetRateEnd, CloseBegin, CloseFinish
  <2>10. CASE UNCHANGED vars
    BY <2>10 DEF vars
  <2> QED
    BY <2>1, <2>2, <2>3, <2>4, <2>5, <2>6, <2>7, <2>8, <2>9, <2>10
       DEF Next, CbStep
<1>3. Spec => []Healthy
  BY HealthyInvariant
<1> QED
  BY <1>1, <1>2, <1>3, Invariance, StreamingInvariant, PTL DEF Spec

-----------------------------------------------------------------------------
(* The course of the one stop there is: it is never forced, and streaming  *)
(* is over only before fl2k_start_tx or when the USB worker has ended.     *)
SingleStop ==
  /\ \A c \in Callers : stop[c] # "force"
  /\ stop["app"] = "idle" \/ stop["sample"] = "idle"
  /\ stops = 0 => /\ \A c \in Callers : stop[c] = "idle"
                  /\ async_status # "CANCELING" /\ uw \notin Winding
  /\ \A c \in Callers : stop[c] = "cancel" => async_status = "RUNNING"
  /\ async_status = "INACTIVE" => app = "open" \/ uw = "done"

(* A step keeps it if the application stops once. *)
LEMMA SingleStopStep ==
  ASSUME MaxStops <= 1, Inv, Streaming, Healthy, SingleStop, [Next]_vars
  PROVE  SingleStop'
<1> USE ConstantsAssumption DEF Inv, Basics, TypeOK, Starting, SingleStop,
        Callers, Winding
<1>1. ASSUME NEW b \in Buf, Dispatch(b) PROVE SingleStop'
  BY <1>1 DEF Dispatch
<1>2. CASE CbStep
  BY <1>2 DEF CbStep, CbScan, CbSubmitNext, CbResubmit, CbSignal, CbCount,
     CbError
<1>3. ASSUME NEW c \in Callers, StopRead(c) PROVE SingleStop'
  <2>1. c # "callback" /\ stops = 0 /\ stops' = 1 /\ async_status # "CANCELING"
    BY <1>3 DEF StopRead, MayStop, Healthy
  <2>2. /\ stop'[c] \in {"idle", "cancel"}
        /\ stop'[c] = "cancel" => async_status = "RUNNING"
        /\ \A d \in Callers : d # c => stop'[d] = "idle"
        /\ UNCHANGED <<async_status, app, uw>>
    BY <1>3, <2>1 DEF StopRead
  <2> QED BY <2>1, <2>2
<1>4. ASSUME NEW c \in Callers, StopStep(c) PROVE SingleStop'
  <2>1. CASE StopCancel(c)
    <3>1. /\ stop[c] = "cancel" /\ stop' = [stop EXCEPT ![c] = "flag"]
          /\ stops # 0 /\ async_status' = "CANCELING"
          /\ UNCHANGED <<app, uw, stops>>
      BY <2>1 DEF StopCancel
    <3>2. \A d \in Callers : d # c => stop[d] = "idle"
      BY <3>1 DEF Healthy
    <3> QED BY <3>1, <3>2
  <2>2. CASE StopFlag(c)
    BY <2>2 DEF StopFlag
  <2>3. ~StopForce(c)
    BY DEF StopForce
  <2> QED BY <1>4, <2>1, <2>2, <2>3 DEF StopStep
<1>5. CASE UwStep
  <2>1. CASE UwFinish
    BY <2>1 DEF UwFinish, Streaming
  <2>2. CASE UwStep /\ ~UwFinish
    BY <2>2 DEF UwStep, UwRun, UwEventsReturn, UwPoll, UwDrainReturn, UwCheck,
       UwCancel, UwFlushReturn, UwCancelEnd, UwLastFlushReturn, UwJoin
  <2> QED BY <1>5, <2>1, <2>2
<1>6. CASE SwStep \/ SpuriousWakeup \/ Unplug
  BY <1>6 DEF SwStep, SwTop, SwCallback, SwScan, SwScanEnd, SwWoken, SwConvert,
     SwPublish, SwExit, SpuriousWakeup, Unplug
<1>7. CASE AppStep
  BY <1>7 DEF AppStep, StartTx, StartTxFails, SpawnUsbWorker,
     SpawnSampleWorker, SpawnResults, SetRateBegin, SetRateEnd, CloseBegin,
     MayClose, CloseFinish
<1>8. CASE UNCHANGED vars
  BY <1>8 DEF vars
<1> QED
  BY <1>1, <1>2, <1>3, <1>4, <1>5, <1>6, <1>7, <1>8 DEF Next

(* So it holds in every state. *)
LEMMA SingleStopInvariant ==
  ASSUME MaxStops <= 1, Faults \cap {"xfer", "unplug"} = {}
  PROVE  Spec => []SingleStop
<1>1. Init => SingleStop
  BY DEF Init, SingleStop, Callers, Winding
<1>2. Inv /\ Streaming /\ Healthy /\ SingleStop /\ [Next]_vars => SingleStop'
  BY SingleStopStep
<1>3. Spec => []Healthy
  BY HealthyInvariant
<1> QED
  BY <1>1, <1>2, <1>3, Invariance, StreamingInvariant, PTL DEF Spec

(* When the device may be closed: nobody is inside fl2k_stop_tx and nobody *)
(* will be, and the USB worker ends after the sample worker, which was     *)
(* created before the stop.                                                *)
Ending ==
  /\ stops > 0 => app \notin {"open", "spawn_usb", "spawn_sample"}
  /\ uw \in {"finish", "done"} => sw \in {"done", "unborn"}
  /\ app \in {"failed", "closing", "closed"} =>
       /\ \A c \in Callers : stop[c] = "idle"
       /\ stops > 0 \/ sw = "unborn"
  /\ app = "closed" => uw = "done"

(* A step keeps it as long as there is a single stop. *)
LEMMA EndingStep ==
  ASSUME MaxStops <= 1, StopWhen \subseteq {"started", "set_rate"},
         Inv, Streaming, Healthy, SingleStop, Ending, [Next]_vars
  PROVE  Ending'
<1> USE ConstantsAssumption DEF Inv, Basics, TypeOK, Starting, Ending
<1>1. ASSUME NEW b \in Buf, Dispatch(b) PROVE Ending'
  BY <1>1 DEF Dispatch
<1>2. CASE CbStep
  BY <1>2 DEF CbStep, CbScan, CbSubmitNext, CbResubmit, CbSignal, CbCount,
     CbError
<1>3. ASSUME NEW c \in Callers, StopRead(c) PROVE Ending'
  <2>1. /\ stops' = 1 /\ stops = 0 /\ UNCHANGED <<app, uw, sw>>
        /\ app \in {"started", "set_rate"} \/ sw = "callback"
    BY <1>3 DEF StopRead, MayStop, Healthy, Callers
  <2>2. app \notin {"open", "spawn_usb", "spawn_sample", "failed", "closing",
                    "closed"}
    BY <2>1
  <2> QED BY <2>1, <2>2
<1>4. ASSUME NEW c \in Callers, StopStep(c) PROVE Ending'
  BY <1>4 DEF StopStep, StopCancel, StopFlag, StopForce
<1>5. CASE UwStep
  BY <1>5 DEF UwStep, UwRun, UwEventsReturn, UwPoll, UwDrainReturn, UwCheck,
     UwCancel, UwFlushReturn, UwCancelEnd, UwLastFlushReturn, UwJoin, UwFinish
<1>6. CASE SwStep \/ SpuriousWakeup \/ Unplug
  BY <1>6 DEF SwStep, SwTop, SwCallback, SwScan, SwScanEnd, SwWoken, SwConvert,
     SwPublish, SwExit, SpuriousWakeup, Unplug
<1>7. CASE AppStep
  <2>1. CASE SpawnSampleWorker
    <3>1. stops = 0
      BY <2>1 DEF SpawnSampleWorker
    <3>2. uw \notin {"finish", "done"}
      BY <2>1, <3>1 DEF SpawnSampleWorker, Streaming, Winding, SingleStop
    <3> QED BY <2>1, <3>1, <3>2 DEF SpawnSampleWorker
  <2>2. CASE CloseBegin
    BY <2>2 DEF CloseBegin, MayClose, Healthy, Callers
  <2>3. CASE CloseFinish
    BY <2>3 DEF CloseFinish, SingleStop
  <2>4. CASE StartTx \/ StartTxFails \/ SpawnUsbWorker \/ SetRateBegin
             \/ SetRateEnd
    BY <2>4 DEF StartTx, StartTxFails, SpawnUsbWorker, SpawnResults,
       SetRateBegin, SetRateEnd, Callers
  <2> QED BY <1>7, <2>1, <2>2, <2>3, <2>4 DEF AppStep
<1>8. CASE UNCHANGED vars
  BY <1>8 DEF vars
<1> QED
  BY <1>1, <1>2, <1>3, <1>4, <1>5, <1>6, <1>7, <1>8 DEF Next

(* After a single stop, made once streaming has started, fl2k_close frees  *)
(* the device when both workers have ended and no call of fl2k_stop_tx is  *)
(* under way: whatever submissions, event handling and the creation of     *)
(* threads do, as long as no transfer fails.                               *)
THEOREM NobodyUsesFreed ==
  ASSUME MaxStops <= 1, StopWhen \subseteq {"started", "set_rate"},
         Faults \cap {"xfer", "unplug"} = {}
  PROVE  Spec => []NoUseAfterFree
<1>1. Init => Ending
  BY ConstantsAssumption DEF Init, Ending
<1>2. Inv /\ Streaming /\ Healthy /\ SingleStop /\ Ending /\ [Next]_vars
        => Ending'
  BY EndingStep
<1>3. Ending => NoUseAfterFree
  BY DEF Ending, NoUseAfterFree
<1>4. Spec => []Healthy /\ []SingleStop
  BY HealthyInvariant, SingleStopInvariant
<1> QED
  BY <1>1, <1>2, <1>3, <1>4, Invariance, StreamingInvariant, PTL DEF Spec

-----------------------------------------------------------------------------
(* What a pass of the cancel loop has achieved: with cancellation reaped   *)
(* by the next event handling, no transfer below uw_i is in flight, and    *)
(* none at all when the loop is left.                                      *)
Reaping ==
  /\ \A b \in Buf :
       xfer_status[b] = "CANCELLED" => uw \in Winding /\ b \notin inflight
  /\ uw \in {"cancel", "flush"} => \A b \in inflight : b >= uw_i
  /\ cancelling = IF uw = "flush" THEN inflight \cap {uw_i} ELSE {}
  /\ uw \in {"last_flush", "join", "finish", "done"} => inflight = {}
  /\ xfers = "freed" => /\ inflight = {} /\ uw \in {"unborn", "finish", "done"}
                        /\ app \notin {"open", "spawn_usb"}

(* A step keeps it as long as cancelled transfers are reaped at once. *)
LEMMA ReapingStep ==
  ASSUME PromptCancel, Faults \cap {"xfer", "unplug", "events"} = {},
         Inv, Quiet, Healthy, SingleStop, Reaping, [Next]_vars
  PROVE  Reaping'
<1> USE BufFacts DEF Inv, Basics, TypeOK, Starting, Quiet, Winding, Reaping
<1>1. ASSUME NEW b \in Buf, Dispatch(b) PROVE Reaping'
  <2>1. /\ inflight' = inflight \ {b} /\ cancelling' = cancelling \ {b}
        /\ UNCHANGED <<uw, uw_i, xfers>>
    BY <1>1 DEF Dispatch
  <2>2. PICK status \in Outcomes(b) :
          xfer_status' = [xfer_status EXCEPT ![b] = status]
    BY <1>1 DEF Dispatch
  <2>3. status = "CANCELLED" => b \in cancelling
    BY DEF Outcomes
  <2>4. app \notin {"open", "spawn_usb"} /\ UNCHANGED app
    BY <1>1 DEF Dispatch, EventHandlers
  <2>5. \A c \in Buf : xfer_status'[c] = "CANCELLED"
                       => uw \in Winding /\ c \notin inflight'
    BY <2>1, <2>2, <2>3
  <2> QED BY <2>1, <2>4, <2>5
<1>2. CASE CbStep
  <2>1. CASE CbSubmitNext \/ CbResubmit
    <3>1. cb = "scan" /\ UNCHANGED <<cancelling, uw, xfers, xfer_status>>
      BY <2>1 DEF CbSubmitNext, CbResubmit, ScanDone
    <3>2. uw = "events"
      BY <3>1
    <3> QED BY <3>1, <3>2
  <2>2. CASE CbScan \/ CbSignal \/ CbCount \/ CbError
    BY <2>2 DEF CbScan, CbSignal, CbCount, CbError
  <2> QED BY <1>2, <2>1, <2>2 DEF CbStep
<1>3. ASSUME NEW c \in Callers, StopRead(c) \/ StopStep(c) PROVE Reaping'
  BY <1>3 DEF StopRead, StopStep, StopCancel, StopFlag, StopForce
<1>4. CASE UwStep
  <2>1. CASE UwRun \/ UwEventsReturn \/ UwDrainReturn \/ UwCheck
    BY <2>1 DEF UwRun, UwEventsReturn, UwDrainReturn, UwCheck
  <2>2. CASE UwPoll
    BY <2>2 DEF UwPoll, SingleStop
  <2>3. CASE UwCancel
    BY <2>3 DEF UwCancel
  <2>4. CASE UwFlushReturn
    BY <2>4 DEF UwFlushReturn, FlushDone
  <2>5. CASE UwCancelEnd \/ UwLastFlushReturn
    BY <2>5 DEF UwCancelEnd, UwLastFlushReturn
  <2>6. CASE UwJoin \/ UwFinish
    BY <2>6 DEF UwJoin, UwFinish
  <2> QED BY <1>4, <2>1, <2>2, <2>3, <2>4, <2>5, <2>6 DEF UwStep
<1>5. CASE SwStep \/ SpuriousWakeup \/ Unplug
  BY <1>5 DEF SwStep, SwTop, SwCallback, SwScan, SwScanEnd, SwWoken, SwConvert,
     SwPublish, SwExit, SpuriousWakeup, Unplug
<1>6. CASE AppStep
  <2>1. CASE StartTx
    <3>1. xfers' = "live"
      BY <2>1 DEF StartTx, AllocSubmit
    <3>2. /\ uw = "unborn" /\ uw' = "unborn"
          /\ UNCHANGED <<cancelling, xfer_status>>
      BY <2>1 DEF StartTx
    <3> QED BY <3>1, <3>2
  <2>2. CASE AppStep /\ ~StartTx
    BY <2>2 DEF AppStep, StartTxFails, SpawnUsbWorker, SpawnSampleWorker,
       SpawnResults, SetRateBegin, SetRateEnd, CloseBegin, CloseFinish
  <2> QED BY <1>6, <2>1, <2>2
<1>7. CASE UNCHANGED vars
  BY <1>7 DEF vars
<1> QED
  BY <1>1, <1>2, <1>3, <1>4, <1>5, <1>6, <1>7 DEF Next

(* After a single stop the transfers and their buffers are freed when      *)
(* libusb holds none of them: one pass of the cancel loop reaps every      *)
(* transfer, as long as none fails, event handling neither, a cancelled    *)
(* transfer is reaped promptly and no other thread handles events.         *)
THEOREM NothingPendingWhenFreed ==
  ASSUME MaxStops <= 1, ~ControlTransfers, PromptCancel,
         Faults \subseteq {"submit", "nomem", "spawn"}
  PROVE  Spec => []NoPendingAfterFree
<1>1. Init => Reaping
  BY DEF Init, Reaping, Winding
<1>2. Init => Quiet
  BY DEF Init, Quiet, Winding
<1>3. Inv /\ Quiet /\ [Next]_vars => Quiet'
  BY QuietStep
<1>4. Inv /\ Quiet /\ Healthy /\ SingleStop /\ Reaping /\ [Next]_vars
        => Reaping'
  BY ReapingStep
<1>5. Reaping => NoPendingAfterFree
  BY DEF Reaping, NoPendingAfterFree
<1>6. Spec => []Healthy /\ []SingleStop
  BY HealthyInvariant, SingleStopInvariant
<1> QED
  BY <1>1, <1>2, <1>3, <1>4, <1>5, <1>6, Invariance, PTL DEF Spec

=============================================================================
