---------------------------- MODULE Fl2kTxProofs ----------------------------
(***************************************************************************)
(* Theorems about the transmit engine, for every number of transfers,      *)
(* every combination of faults and every schedule.                         *)
(*                                                                         *)
(* The inductive invariant has six parts.  TypeOK, Starting, Counting and  *)
(* Resting carry each other (Basics); Ownership, which says who may touch  *)
(* which buffer, rests on them; Scanning, which says what the callback's   *)
(* scan has established so far, rests on all of them.                      *)
(***************************************************************************)
EXTENDS Fl2kTx, TLAPS

USE DEF control, buffers, usb, uwVars, cbLocals, cbVars, swLocals, swVars,
        appVars, Open, UwAt, CbAt, SwAt, StopAt

(* Before fl2k_start_tx nothing is under way, and while it runs the        *)
(* threads it has not created yet do nothing.                              *)
Starting ==
  /\ app = "open" =>
       /\ cb = "idle"
       /\ inflight = {}
       /\ state = [b \in Buf |-> "EMPTY"]
       /\ stop = [c \in Callers |-> "idle"]
  /\ app \in {"open", "spawn_usb"} => uw = "unborn"
  /\ app \in {"open", "spawn_usb", "spawn_sample"} => sw = "unborn"

(* The block just converted has the last number given out. *)
Counting == sw = "publish" => buf_cnt > 0 /\ seq[sw_xfer] = buf_cnt - 1

(* Outside its scan the callback has no scan's locals, and it is where it  *)
(* calls fl2k_stop_tx as long as that call lasts.                          *)
Resting ==
  /\ cb # "scan" => cb_i = 0 /\ next_buf = -1
  /\ stop["callback"] # "idle" => cb = "stop"

(* What libusb holds is SUBMITTED; the callback holds one more such        *)
(* transfer while it scans, and has chosen a FILLED one; the sample worker *)
(* writes into an EMPTY one.                                               *)
Ownership ==
  /\ \A b \in inflight : state[b] = "SUBMITTED"
  /\ cb = "scan" => cb_xfer \notin inflight /\ state[cb_xfer] = "SUBMITTED"
  /\ cb = "scan" /\ next_buf >= 0 => state[next_buf] = "FILLED"
  /\ sw \in {"convert", "publish"} => state[sw_xfer] = "EMPTY"

(* The scan has looked at the transfers below cb_i: of the blocks          *)
(* published before it began, none of those is older than its choice.      *)
Scanning ==
  /\ cb = "scan" => cb_base <= Published
  /\ cb = "scan" =>
       \A b \in Buf : b < cb_i /\ state[b] = "FILLED" /\ seq[b] < cb_base =>
         next_buf >= 0 /\ seq[next_buf] <= seq[b]

Basics == TypeOK /\ Starting /\ Counting /\ Resting

Inv == Basics /\ Ownership /\ Scanning

-----------------------------------------------------------------------------
(* The indices of the transfers. *)
LEMMA BufFacts ==
  /\ XferBufNum \in Nat /\ XferNum < XferBufNum
  /\ \A i : i \in Buf <=> i \in Int /\ 0 <= i /\ i < XferBufNum
BY ConstantsAssumption DEF XferBufNum, Buf

(* The engine starts in the invariant. *)
LEMMA InitInv == Init => Inv
<1> SUFFICES ASSUME Init PROVE Inv
  OBVIOUS
<1>1. TypeOK
  <2>1. state \in [Buf -> {"EMPTY", "SUBMITTED", "FILLED"}] /\ seq \in [Buf -> Nat]
    BY DEF Init
  <2>2. xfer_status \in [Buf -> {"COMPLETED", "CANCELLED", "ERROR"}]
    BY DEF Init
  <2>3. stop \in [Callers -> {"idle", "cancel", "flag", "force"}]
    BY DEF Init
  <2>4. /\ underflow_cnt \in 0 .. CounterRange - 1
        /\ underflows \in 0 .. CounterRange - 1
        /\ uw_i \in 0 .. XferBufNum /\ cb_i \in 0 .. XferBufNum
        /\ sw_xfer \in 0 .. XferBufNum /\ cb_xfer \in Buf
        /\ next_buf \in Buf \cup {-1} /\ stops \in 0 .. MaxStops
        /\ reported \in 0 .. CounterRange - 1 \cup {Uninitialized}
        /\ cb_base \in Nat /\ buf_cnt \in Nat
    BY ConstantsAssumption, BufFacts DEF Init
  <2>5. inflight \subseteq Buf /\ cancelling \subseteq inflight
    BY DEF Init
  <2> QED
    BY <2>1, <2>2, <2>3, <2>4, <2>5 DEF Init, TypeOK
<1>2. Starting
  BY DEF Init, Starting
<1>3. Counting /\ Resting
  BY DEF Init, Counting, Resting, Callers
<1>4. Ownership
  BY DEF Init, Ownership
<1>5. Scanning
  BY DEF Init, Scanning
<1> QED
  BY <1>1, <1>2, <1>3, <1>4, <1>5 DEF Inv, Basics

-----------------------------------------------------------------------------
(* Every step keeps the types, and what holds before the threads run. *)
LEMMA BasicsStep == Basics /\ [Next]_vars => Basics'
<1> SUFFICES ASSUME Basics, [Next]_vars PROVE Basics'
  OBVIOUS
<1> USE ConstantsAssumption, BufFacts DEF Basics, TypeOK, Starting, Counting,
        Resting, Callers
<1>1. ASSUME NEW b \in Buf, Dispatch(b) PROVE Basics'
  <2>1. PICK status \in Outcomes(b) :
          /\ xfer_status' = [xfer_status EXCEPT ![b] = status]
          /\ cb' = CbEntry(status)
    BY <1>1 DEF Dispatch
  <2>2. status \in {"COMPLETED", "CANCELLED", "ERROR"}
    BY DEF Outcomes
  <2>3. cb' \in {"scan", "error", "idle"}
    BY <2>1 DEF CbEntry
  <2>4. cb_by' \in {"usb", "app"}
    BY <1>1 DEF Dispatch, EventHandlers
  <2>5. cb_xfer' \in Buf /\ cb_base' \in Nat
    BY <1>1 DEF Dispatch, Published
  <2> QED
    BY <1>1, <2>1, <2>2, <2>3, <2>4, <2>5 DEF Dispatch
<1>2. CASE CbScan
  BY <1>2 DEF CbScan
<1>3. CASE CbSubmitNext
  BY <1>3 DEF CbSubmitNext, ScanDone, SubmitResults, Submit, ForgetScan
<1>4. CASE CbResubmit
  BY <1>4 DEF CbResubmit, ScanDone, SubmitResults, Submit, ForgetScan
<1>5. CASE CbSignal
  BY <1>5 DEF CbSignal, CbAfterSubmit
<1>6. CASE CbCount
  BY <1>6 DEF CbCount, CbAfterSubmit
<1>7. CASE CbError
  BY <1>7 DEF CbError
<1>8. ASSUME NEW c \in Callers, StopRead(c) PROVE Basics'
  BY <1>8 DEF StopRead, MayStop, AfterStop
<1>9. ASSUME NEW c \in Callers, StopStep(c) PROVE Basics'
  <2>1. CASE StopCancel(c)
    BY <2>1 DEF StopCancel
  <2>2. CASE StopFlag(c)
    BY <2>2 DEF StopFlag, AfterStop
  <2>3. CASE StopForce(c)
    BY <2>3 DEF StopForce, AfterStop
  <2> QED
    BY <1>9, <2>1, <2>2, <2>3 DEF StopStep
<1>10. CASE UwStep
  <2>1. CASE UwRun \/ UwEventsReturn \/ UwPoll \/ UwDrainReturn
    BY <2>1 DEF UwRun, UwEventsReturn, UwPoll, UwDrainReturn
  <2>2. CASE UwCheck
    BY <2>2 DEF UwCheck
  <2>3. CASE UwCancel
    BY <2>3 DEF UwCancel
  <2>4. CASE UwFlushReturn \/ UwCancelEnd \/ UwLastFlushReturn
    BY <2>4 DEF UwFlushReturn, UwCancelEnd, UwLastFlushReturn
  <2>5. CASE UwJoin \/ UwFinish
    BY <2>5 DEF UwJoin, UwFinish
  <2> QED
    BY <1>10, <2>1, <2>2, <2>3, <2>4, <2>5 DEF UwStep
<1>11. CASE SwStep \/ SpuriousWakeup
  <2>1. CASE SwTop
    BY <2>1 DEF SwTop
  <2>2. CASE SwCallback \/ SwScanEnd \/ SpuriousWakeup \/ SwWoken \/ SwExit
    BY <2>2 DEF SwCallback, SwScanEnd, SpuriousWakeup, SwWoken, SwExit
  <2>3. CASE SwScan
    BY <2>3 DEF SwScan
  <2>4. CASE SwConvert
    BY <2>4 DEF SwConvert
  <2>5. CASE SwPublish
    BY <2>5 DEF SwPublish
  <2> QED
    BY <1>11, <2>1, <2>2, <2>3, <2>4, <2>5 DEF SwStep
<1>12. CASE AppStep
  <2>1. CASE StartTx
    <3>1. PICK k \in 0 .. XferNum : AllocSubmit(k)
      BY <2>1 DEF StartTx
    <3>2. inflight' \subseteq Buf /\ cancelling' \subseteq inflight'
      <4>1. inflight' = 0 .. k - 1
        BY <3>1 DEF AllocSubmit
      <4>2. inflight' \subseteq Buf
        BY ConstantsAssumption, <4>1 DEF Buf, XferBufNum
      <4>3. cancelling' = {}
        BY <2>1 DEF StartTx
      <4> QED
        BY <4>2, <4>3
    <3>3. state' \in [Buf -> {"EMPTY", "SUBMITTED", "FILLED"}] /\ xfers' = "live"
      BY ONLY <3>1 DEF AllocSubmit
    <3>4. TypeOK'
      BY <2>1, <3>2, <3>3, ZenonT(40) DEF StartTx
    <3>5. (Starting /\ Counting /\ Resting)'
      BY <2>1 DEF StartTx
    <3> QED BY <3>4, <3>5
  <2>2. CASE StartTxFails
    BY <2>2, ZenonT(40) DEF StartTxFails
  <2>3. CASE SpawnUsbWorker \/ SpawnSampleWorker
    BY <2>3 DEF SpawnUsbWorker, SpawnSampleWorker, SpawnResults
  <2>4. CASE SetRateBegin \/ SetRateEnd
    BY <2>4 DEF SetRateBegin, SetRateEnd
  <2>5. CASE CloseBegin \/ CloseFinish
    BY <2>5 DEF CloseBegin, MayClose, CloseFinish
  <2> QED
    BY <1>12, <2>1, <2>2, <2>3, <2>4, <2>5 DEF AppStep
<1>13. CASE Unplug
  <2>1. plugged' \in BOOLEAN
    BY <1>13 DEF Unplug
  <2> QED
    BY <1>13, <2>1 DEF Unplug
<1>14. CASE UNCHANGED vars
  BY <1>14 DEF vars
<1> QED
  BY <1>1, <1>2, <1>3, <1>4, <1>5, <1>6, <1>7, <1>8, <1>9, <1>10, <1>11,
     <1>12, <1>13, <1>14 DEF Next, CbStep

-----------------------------------------------------------------------------
(* Every step keeps the ownership of the buffers. *)
LEMMA OwnershipStep == Basics /\ Ownership /\ [Next]_vars => Ownership'
<1> SUFFICES ASSUME Basics, Ownership, [Next]_vars PROVE Ownership'
  OBVIOUS
<1> USE ConstantsAssumption, BufFacts DEF Basics, TypeOK, Starting, Resting,
        Ownership
<1>1. ASSUME NEW b \in Buf, Dispatch(b) PROVE Ownership'
  <2>1. cb' = "scan" => cb_xfer' = b
    BY <1>1 DEF Dispatch
  <2>2. cb_i = cb_i' /\ next_buf' = next_buf /\ cb = "idle"
    BY <1>1 DEF Dispatch
  <2> QED
    BY <1>1, <2>1, <2>2 DEF Dispatch
<1>2. CASE CbScan
  BY <1>2 DEF CbScan
<1>3. CASE CbSubmitNext
  BY <1>3 DEF CbSubmitNext, ScanDone, Submit, ForgetScan
<1>4. CASE CbResubmit
  BY <1>4 DEF CbResubmit, ScanDone, Submit, ForgetScan
<1>5. CASE CbSignal \/ CbCount \/ CbError
  BY <1>5 DEF CbSignal, CbCount, CbError, CbAfterSubmit
<1>6. ASSUME NEW c \in Callers, StopRead(c) \/ StopStep(c) PROVE Ownership'
  BY <1>6 DEF StopRead, StopStep, StopCancel, StopFlag, StopForce, AfterStop
<1>7. CASE UwStep
  BY <1>7 DEF UwStep, UwRun, UwEventsReturn, UwPoll, UwDrainReturn, UwCheck,
     UwCancel, UwFlushReturn, UwCancelEnd, UwLastFlushReturn, UwJoin, UwFinish
<1>8. CASE SwStep \/ SpuriousWakeup
  <2>1. CASE SwScan
    BY <2>1 DEF SwScan
  <2>2. CASE SwConvert
    BY <2>2 DEF SwConvert
  <2>3. CASE SwPublish
    BY <2>3 DEF SwPublish
  <2>4. CASE SwTop \/ SwCallback \/ SwScanEnd \/ SpuriousWakeup \/ SwWoken \/ SwExit
    BY <2>4 DEF SwTop, SwCallback, SwScanEnd, SpuriousWakeup, SwWoken, SwExit
  <2> QED
    BY <1>8, <2>1, <2>2, <2>3, <2>4 DEF SwStep
<1>9. CASE AppStep
  <2>1. CASE StartTx
    <3>1. PICK k \in 0 .. XferNum : AllocSubmit(k)
      BY <2>1 DEF StartTx
    <3>2. ASSUME NEW b \in 0 .. k - 1
          PROVE  b \in Buf /\ b <= k /\ b < XferNum
      OBVIOUS
    <3>3. inflight' = 0 .. k - 1
      BY <3>1 DEF AllocSubmit
    <3>4. \A b \in inflight' : state'[b] = "SUBMITTED"
      BY <3>1, <3>2, <3>3 DEF AllocSubmit
    <3> QED
      BY <2>1, <3>4 DEF StartTx
  <2>2. CASE AppStep /\ ~StartTx
    BY <2>2 DEF AppStep, StartTxFails, SpawnUsbWorker, SpawnSampleWorker,
       SpawnResults, SetRateBegin, SetRateEnd, CloseBegin, CloseFinish
  <2> QED
    BY <1>9, <2>1, <2>2
<1>10. CASE Unplug
  BY <1>10 DEF Unplug
<1>11. CASE UNCHANGED vars
  BY <1>11 DEF vars
<1> QED
  BY <1>1, <1>2, <1>3, <1>4, <1>5, <1>6, <1>7, <1>8, <1>9, <1>10, <1>11
     DEF Next, CbStep

-----------------------------------------------------------------------------
(* Every step keeps what the scan has established. *)
LEMMA ScanningStep ==
  Basics /\ Ownership /\ Scanning /\ [Next]_vars => Scanning'
<1> SUFFICES ASSUME Basics, Ownership, Scanning, [Next]_vars PROVE Scanning'
  OBVIOUS
<1> USE ConstantsAssumption, BufFacts DEF Basics, TypeOK, Starting, Counting,
        Resting, Scanning, Published
<1>1. ASSUME NEW b \in Buf, Dispatch(b) PROVE Scanning'
  BY <1>1 DEF Dispatch
<1>2. CASE CbScan
  <2>1. cb_i \in Buf /\ cb_i' = cb_i + 1 /\ UNCHANGED <<cb, cb_base, state, seq>>
    BY <1>2 DEF CbScan
  <2>2. ASSUME NEW b \in Buf, b < cb_i', state[b] = "FILLED", seq[b] < cb_base
        PROVE  next_buf' >= 0 /\ seq[next_buf'] <= seq[b]
    <3>1. CASE state[cb_i] = "FILLED" /\ (next_buf < 0 \/ seq[cb_i] < seq[next_buf])
      BY <1>2, <2>1, <2>2, <3>1 DEF CbScan
    <3>2. CASE ~(state[cb_i] = "FILLED" /\ (next_buf < 0 \/ seq[cb_i] < seq[next_buf]))
      BY <1>2, <2>1, <2>2, <3>2 DEF CbScan
    <3> QED
      BY <3>1, <3>2
  <2> QED
    BY <1>2, <2>1, <2>2 DEF CbScan
<1>3. CASE CbSubmitNext \/ CbResubmit
  BY <1>3 DEF CbSubmitNext, CbResubmit, ScanDone, ForgetScan
<1>4. CASE CbSignal \/ CbCount \/ CbError
  BY <1>4 DEF CbSignal, CbCount, CbError, CbAfterSubmit
<1>5. ASSUME NEW c \in Callers, StopRead(c) \/ StopStep(c) PROVE Scanning'
  BY <1>5 DEF StopRead, StopStep, StopCancel, StopFlag, StopForce, AfterStop,
     MayStop
<1>6. CASE UwStep
  BY <1>6 DEF UwStep, UwRun, UwEventsReturn, UwPoll, UwDrainReturn, UwCheck,
     UwCancel, UwFlushReturn, UwCancelEnd, UwLastFlushReturn, UwJoin, UwFinish
<1>7. CASE SwStep \/ SpuriousWakeup
  <2>1. CASE SwConvert
    BY <2>1 DEF SwConvert, Ownership
  <2>2. CASE SwPublish
    BY <2>2 DEF SwPublish, Ownership
  <2>3. CASE SwTop \/ SwCallback \/ SwScan \/ SwScanEnd \/ SpuriousWakeup
             \/ SwWoken \/ SwExit
    BY <2>3 DEF SwTop, SwCallback, SwScan, SwScanEnd, SpuriousWakeup, SwWoken,
       SwExit
  <2> QED
    BY <1>7, <2>1, <2>2, <2>3 DEF SwStep
<1>8. CASE AppStep
  <2>1. CASE StartTx
    BY <2>1 DEF StartTx
  <2>2. CASE AppStep /\ ~StartTx
    BY <2>2 DEF AppStep, StartTxFails, SpawnUsbWorker, SpawnSampleWorker,
       SpawnResults, SetRateBegin, SetRateEnd, CloseBegin, CloseFinish
  <2> QED
    BY <1>8, <2>1, <2>2
<1>9. CASE Unplug
  BY <1>9 DEF Unplug
<1>10. CASE UNCHANGED vars
  BY <1>10 DEF vars
<1> QED
  BY <1>1, <1>2, <1>3, <1>4, <1>5, <1>6, <1>7, <1>8, <1>9, <1>10
     DEF Next, CbStep

-----------------------------------------------------------------------------
(* The invariant holds in every state. *)
LEMMA Invariance == Spec => []Inv
<1>1. Inv /\ [Next]_vars => Inv'
  BY BasicsStep, OwnershipStep, ScanningStep DEF Inv
<1> QED
  BY <1>1, InitInv, PTL DEF Spec

(* Every variable keeps its type. *)
THEOREM TypeCorrect == Spec => []TypeOK
<1>1. Inv => TypeOK
  BY DEF Inv, Basics
<1> QED
  BY <1>1, Invariance, PTL

(* The sample worker never writes into a buffer that libusb holds, or that *)
(* the callback is about to submit.                                        *)
THEOREM WriterIsExclusive == Spec => []WriterExclusive
<1>1. Inv => WriterExclusive
  BY BufFacts DEF Inv, Basics, TypeOK, Ownership, WriterExclusive
<1> QED
  BY <1>1, Invariance, PTL

(* The callback never passes over a block published before its scan for a  *)
(* newer one, and never counts an underflow while there is such a block.   *)
THEOREM OldestGoesFirst == Spec => []OldestFilledFirst
<1>1. Inv => OldestFilledFirst
  BY BufFacts DEF Inv, Scanning, OldestFilledFirst, ScanDone
<1> QED
  BY <1>1, Invariance, PTL

-----------------------------------------------------------------------------
(* Two more of the properties speak of steps.  First: which steps touch    *)
(* seq and the state of a FILLED buffer at all.                            *)
Stable(b) ==
  /\ b \in inflight \/ state[b] = "FILLED" => seq'[b] = seq[b]
  /\ state[b] = "FILLED" => state'[b] \in {"FILLED", "SUBMITTED"}

(* No step overwrites a block. *)
LEMMA StableStep == Inv /\ [Next]_vars => \A b \in Buf : Stable(b)
<1> SUFFICES ASSUME Inv, [Next]_vars, NEW b \in Buf PROVE Stable(b)
  OBVIOUS
<1> USE BufFacts DEF Inv, Basics, TypeOK, Ownership, Stable
<1>1. CASE CbSubmitNext
  BY <1>1 DEF CbSubmitNext, ScanDone
<1>2. CASE SwConvert
  BY <1>2 DEF SwConvert
<1>3. CASE SwPublish
  BY <1>3 DEF SwPublish
<1>4. CASE StartTx
  BY <1>4 DEF StartTx, Starting
<1>5. CASE UNCHANGED <<state, seq>>
  BY <1>5
<1>6. CASE Next /\ ~CbSubmitNext /\ ~SwConvert /\ ~SwPublish /\ ~StartTx
  <2>1. UNCHANGED <<state, seq>>
    <3>1. ASSUME NEW t \in Buf, Dispatch(t) PROVE UNCHANGED <<state, seq>>
      BY <3>1 DEF Dispatch
    <3>2. CASE CbStep /\ ~CbSubmitNext
      BY <3>2 DEF CbStep, CbScan, CbResubmit, CbSignal, CbCount, CbError
    <3>3. ASSUME NEW c \in Callers, StopRead(c) \/ StopStep(c)
          PROVE  UNCHANGED <<state, seq>>
      BY <3>3 DEF StopRead, StopStep, StopCancel, StopFlag, StopForce
    <3>4. CASE UwStep
      BY <3>4 DEF UwStep, UwRun, UwEventsReturn, UwPoll, UwDrainReturn,
         UwCheck, UwCancel, UwFlushReturn, UwCancelEnd, UwLastFlushReturn,
         UwJoin, UwFinish
    <3>5. CASE SwStep /\ ~SwConvert /\ ~SwPublish
      BY <3>5 DEF SwStep, SwTop, SwCallback, SwScan, SwScanEnd, SwWoken, SwExit
    <3>6. CASE AppStep /\ ~StartTx
      BY <3>6 DEF AppStep, StartTxFails, SpawnUsbWorker, SpawnSampleWorker,
         SetRateBegin, SetRateEnd, CloseBegin, CloseFinish
    <3>7. CASE SpuriousWakeup \/ Unplug
      BY <3>7 DEF SpuriousWakeup, Unplug
    <3> QED
      BY <1>6, <3>1, <3>2, <3>3, <3>4, <3>5, <3>6, <3>7 DEF Next
  <2> QED
    BY <2>1
<1> QED
  BY <1>1, <1>2, <1>3, <1>4, <1>5, <1>6 DEF vars

(* A block is not overwritten while it waits in a FILLED buffer or is      *)
(* being sent, and a FILLED buffer is only ever given to libusb.           *)
THEOREM BlocksAreStable == Spec => BlockIsStable
<1>1. Inv /\ [Next]_vars =>
        [\A b \in Buf :
           /\ b \in inflight \/ state[b] = "FILLED" => seq'[b] = seq[b]
           /\ state[b] = "FILLED" => state'[b] \in {"FILLED", "SUBMITTED"}]_vars
  BY StableStep DEF Stable
<1> QED
  BY <1>1, Invariance, PTL DEF Spec, BlockIsStable

-----------------------------------------------------------------------------
(* Second: as long as only the USB worker handles events, the callback     *)
(* runs where that worker handles them; and once the worker has left its   *)
(* first loop streaming is over for good.                                  *)
Winding == {"poll", "drain", "check", "cancel", "flush", "last_flush", "join",
            "finish", "done"}

Quiet ==
  /\ app # "set_rate"
  /\ cb_by = "usb"
  /\ cb # "idle" => uw \in {"events", "drain", "flush", "last_flush"}
  /\ uw \in Winding => async_status # "RUNNING" /\ cb # "scan"

(* A step keeps it. *)
LEMMA QuietStep ==
  ASSUME ~ControlTransfers, Inv, Quiet, [Next]_vars PROVE Quiet'
<1> USE DEF Inv, Basics, TypeOK, Starting, Quiet, Winding
<1>1. ASSUME NEW b \in Buf, Dispatch(b) PROVE Quiet'
  <2>1. uw \in {"events", "drain", "flush", "last_flush"} /\ cb_by' = "usb"
    BY <1>1 DEF Dispatch, EventHandlers
  <2>2. async_status # "RUNNING" => cb' # "scan"
    BY <1>1 DEF Dispatch, CbEntry
  <2> QED
    BY <1>1, <2>1, <2>2 DEF Dispatch
<1>2. CASE CbStep
  BY <1>2 DEF CbStep, CbScan, CbSubmitNext, CbResubmit, CbSignal, CbCount,
     CbError, CbAfterSubmit, ScanDone
<1>3. ASSUME NEW c \in Callers, StopRead(c) PROVE Quiet'
  BY <1>3 DEF StopRead, MayStop, AfterStop, Resting
<1>4. ASSUME NEW c \in Callers, StopStep(c) PROVE Quiet'
  BY <1>4 DEF StopStep, StopCancel, StopFlag, StopForce, AfterStop, Resting
<1>5. CASE UwStep
  BY <1>5 DEF UwStep, UwRun, UwEventsReturn, UwMayReturn, UwPoll,
     UwDrainReturn, UwCheck, UwCancel, UwFlushReturn, FlushDone, UwCancelEnd,
     UwLastFlushReturn, UwJoin, UwFinish
<1>6. CASE SwStep \/ SpuriousWakeup \/ Unplug
  BY <1>6 DEF SwStep, SwTop, SwCallback, SwScan, SwScanEnd, SwWoken, SwConvert,
     SwPublish, SwExit, SpuriousWakeup, Unplug
<1>7. CASE AppStep
  BY <1>7 DEF AppStep, StartTx, StartTxFails, SpawnUsbWorker,
     SpawnSampleWorker, SpawnResults, SetRateBegin, SetRateEnd, CloseBegin,
     CloseFinish
<1>8. CASE UNCHANGED vars
  BY <1>8 DEF vars
<1> QED
  BY <1>1, <1>2, <1>3, <1>4, <1>5, <1>6, <1>7, <1>8 DEF Next

(* Without control transfers during streaming, no transfer is submitted    *)
(* any more once the USB worker looks for transfers to cancel.             *)
THEOREM CancellingIsFinal ==
  ASSUME ~ControlTransfers PROVE Spec => NoSubmitWhileCancelling
<1>1. Init => Quiet
  BY DEF Init, Quiet, Winding
<1>2. Inv /\ Quiet /\ [Next]_vars => Quiet'
  BY QuietStep
<1>3. ASSUME Inv, Quiet, [Next]_vars,
             uw \in {"check", "cancel", "flush", "last_flush", "join", "finish"}
      PROVE  inflight' \subseteq inflight
  <2> USE <1>3 DEF Inv, Basics, TypeOK, Starting, Quiet, Winding
  <2>1. ASSUME NEW b \in Buf, Dispatch(b) PROVE inflight' \subseteq inflight
    BY <2>1 DEF Dispatch
  <2>2. CASE CbStep
    BY <2>2 DEF CbStep, CbScan, CbSubmitNext, CbResubmit, ScanDone, CbSignal,
       CbCount, CbError
  <2>3. ASSUME NEW c \in Callers, StopRead(c) \/ StopStep(c)
        PROVE  inflight' \subseteq inflight
    BY <2>3 DEF StopRead, StopStep, StopCancel, StopFlag, StopForce
  <2>4. CASE UwStep
    BY <2>4 DEF UwStep, UwRun, UwEventsReturn, UwPoll, UwDrainReturn, UwCheck,
       UwCancel, UwFlushReturn, UwCancelEnd, UwLastFlushReturn, UwJoin, UwFinish
  <2>5. CASE SwStep \/ SpuriousWakeup \/ Unplug
    BY <2>5 DEF SwStep, SwTop, SwCallback, SwScan, SwScanEnd, SwWoken,
       SwConvert, SwPublish, SwExit, SpuriousWakeup, Unplug
  <2>6. CASE AppStep
    BY <2>6 DEF AppStep, StartTx, StartTxFails, SpawnUsbWorker,
       SpawnSampleWorker, SetRateBegin, SetRateEnd, CloseBegin, CloseFinish
  <2>7. CASE UNCHANGED vars
    BY <2>7 DEF vars
  <2> QED
    BY <2>1, <2>2, <2>3, <2>4, <2>5, <2>6, <2>7 DEF Next
<1>4. Inv /\ Quiet /\ [Next]_vars =>
        [(uw \in {"check", "cancel", "flush", "last_flush", "join", "finish"})
           => inflight' \subseteq inflight]_vars
  BY <1>3
<1> QED
  BY <1>1, <1>2, <1>4, Invariance, PTL DEF Spec, NoSubmitWhileCancelling

-----------------------------------------------------------------------------
(* The engine implements the abstract stream.  Blocks that wait have       *)
(* different numbers, all of them given out; and streaming has not begun   *)
(* before fl2k_start_tx.                                                   *)
Numbered ==
  /\ \A b \in Buf : state[b] = "FILLED" => seq[b] < Published
  /\ \A b, c \in Buf :
       state[b] = "FILLED" /\ state[c] = "FILLED" /\ seq[b] = seq[c] => b = c
  /\ app = "open" => async_status = "INACTIVE" /\ buf_cnt = 0

(* The steps that neither fill, empty nor number a buffer. *)
LEMMA OtherSteps ==
  ASSUME Inv, [Next]_vars, ~CbSubmitNext, ~SwConvert, ~SwPublish, ~StartTx
  PROVE  UNCHANGED <<state, seq, buf_cnt, Published>>
<1> USE DEF Published
<1>1. ASSUME NEW t \in Buf, Dispatch(t)
      PROVE  UNCHANGED <<state, seq, buf_cnt, Published>>
  BY <1>1 DEF Dispatch
<1>2. CASE CbStep
  BY <1>2 DEF CbStep, CbScan, CbResubmit, CbSignal, CbCount, CbError
<1>3. ASSUME NEW c \in Callers, StopRead(c) \/ StopStep(c)
      PROVE  UNCHANGED <<state, seq, buf_cnt, Published>>
  BY <1>3 DEF StopRead, StopStep, StopCancel, StopFlag, StopForce
<1>4. CASE UwStep
  BY <1>4 DEF UwStep, UwRun, UwEventsReturn, UwPoll, UwDrainReturn,
     UwCheck, UwCancel, UwFlushReturn, UwCancelEnd, UwLastFlushReturn,
     UwJoin, UwFinish
<1>5. CASE SwStep
  BY <1>5 DEF SwStep, SwTop, SwCallback, SwScan, SwScanEnd, SwWoken, SwExit
<1>6. CASE AppStep
  <2>1. CASE SpawnSampleWorker
    BY <2>1 DEF SpawnSampleWorker, SpawnResults, Inv, Basics, Starting
  <2>2. CASE ~SpawnSampleWorker
    BY <1>6, <2>2 DEF AppStep, StartTxFails, SpawnUsbWorker, SetRateBegin,
       SetRateEnd, CloseBegin, CloseFinish
  <2> QED
    BY <2>1, <2>2
<1>7. CASE SpuriousWakeup \/ Unplug
  BY <1>7 DEF SpuriousWakeup, Unplug
<1>8. CASE UNCHANGED vars
  BY <1>8 DEF vars
<1> QED
  BY <1>1, <1>2, <1>3, <1>4, <1>5, <1>6, <1>7, <1>8 DEF Next

(* Which steps leave the application's side of Phase, and async_status.    *)
LEMMA PhaseSteps ==
  ASSUME Inv, Numbered, [Next]_vars
  PROVE  /\ app' = "open" => app = "open" /\ async_status' = async_status
         /\ app = "open" /\ app' # "open" => StartTx \/ StartTxFails
         /\ async_status' # async_status =>
              \/ StartTx \/ StartTxFails
              \/ app # "open" /\ async_status' # "RUNNING"
<1> USE DEF Inv, Basics, TypeOK, Starting, Numbered
<1>1. ASSUME NEW t \in Buf, Dispatch(t) PROVE UNCHANGED <<app, async_status>>
  BY <1>1 DEF Dispatch
<1>2. CASE CbStep
  BY <1>2 DEF CbStep, CbScan, CbSubmitNext, CbResubmit, CbSignal, CbCount,
     CbError
<1>3. ASSUME NEW c \in Callers, StopRead(c) \/ StopStep(c)
      PROVE  /\ UNCHANGED app
             /\ async_status' # async_status =>
                  app # "open" /\ async_status' # "RUNNING"
  BY <1>3 DEF StopRead, StopStep, StopCancel, StopFlag, StopForce
<1>4. CASE UwStep
  BY <1>4 DEF UwStep, UwRun, UwEventsReturn, UwPoll, UwDrainReturn,
     UwCheck, UwCancel, UwFlushReturn, UwCancelEnd, UwLastFlushReturn,
     UwJoin, UwFinish
<1>5. CASE SwStep \/ SpuriousWakeup \/ Unplug
  BY <1>5 DEF SwStep, SwTop, SwCallback, SwScan, SwScanEnd, SwWoken, SwConvert,
     SwPublish, SwExit, SpuriousWakeup, Unplug
<1>6. CASE AppStep
  BY <1>6 DEF AppStep, StartTx, StartTxFails, SpawnUsbWorker,
     SpawnSampleWorker, SetRateBegin, SetRateEnd, CloseBegin, CloseFinish,
     MayClose
<1>7. CASE UNCHANGED vars
  BY <1>7 DEF vars
<1> QED
  BY <1>1, <1>2, <1>3, <1>4, <1>5, <1>6, <1>7 DEF Next

(* A step keeps it. *)
LEMMA NumberedStep == Inv /\ Numbered /\ [Next]_vars => Numbered'
<1> SUFFICES ASSUME Inv, Numbered, [Next]_vars PROVE Numbered'
  OBVIOUS
<1> USE BufFacts DEF Inv, Basics, TypeOK, Starting, Counting, Ownership,
        Numbered, Published
<1>1. app' = "open" => async_status' = "INACTIVE" /\ buf_cnt' = 0
  <2>1. CASE CbSubmitNext \/ SwConvert \/ SwPublish
    BY <2>1, PhaseSteps DEF CbSubmitNext, SwConvert, SwPublish
  <2>2. CASE StartTx
    BY <2>2 DEF StartTx
  <2>3. CASE UNCHANGED buf_cnt
    BY <2>3, PhaseSteps
  <2> QED
    BY <2>1, <2>2, <2>3, OtherSteps
<1>2. /\ \A b \in Buf : state'[b] = "FILLED" => seq'[b] < Published'
      /\ \A b, c \in Buf :
           state'[b] = "FILLED" /\ state'[c] = "FILLED" /\ seq'[b] = seq'[c]
             => b = c
  <2>1. CASE CbSubmitNext
    BY <2>1 DEF CbSubmitNext
  <2>2. CASE SwConvert
    BY <2>2 DEF SwConvert
  <2>3. CASE SwPublish
    BY <2>3 DEF SwPublish
  <2>4. CASE StartTx
    <3>1. PICK k \in 0 .. XferNum : AllocSubmit(k)
      BY <2>4 DEF StartTx
    <3> QED
      BY <3>1 DEF AllocSubmit
  <2>5. CASE UNCHANGED <<state, seq, buf_cnt, Published>>
    BY <2>5
  <2> QED
    BY <2>1, <2>2, <2>3, <2>4, <2>5, OtherSteps
<1> QED
  BY <1>1, <1>2

(* Every step of the engine is a step of the stream, or none. *)
LEMMA StreamStep ==
  Inv /\ Numbered /\ Numbered' /\ [Next]_vars => [Stream!Next]_(Stream!vars)
<1> SUFFICES ASSUME Inv, Numbered, Numbered', [Next]_vars
             PROVE  [Stream!Next]_(Stream!vars)
  OBVIOUS
<1> DEFINE Snapshot == IF cb = "scan" THEN {n \in Waiting : n < cb_base} ELSE {}
<1> USE BufFacts DEF Inv, Basics, TypeOK, Starting, Ownership, Numbered
<1>1. UNCHANGED <<state, seq>> => UNCHANGED Waiting
  BY DEF Waiting
<1>2. ASSUME UNCHANGED <<app, async_status>> PROVE UNCHANGED Phase
  BY <1>2 DEF Phase
<1>3. ASSUME UNCHANGED <<state, seq, Published, Phase>>,
             (cb' = "scan") = (cb = "scan"),
             cb = "scan" => UNCHANGED cb_base
      PROVE  UNCHANGED Stream!vars
  <2>1. UNCHANGED Waiting /\ UNCHANGED Published /\ UNCHANGED Phase
    BY ONLY <1>1, <1>3
  <2>2. UNCHANGED Snapshot
    <3> HIDE DEF Waiting
    <3>1. cb = "scan" => {n \in Waiting' : n < cb_base'} = {n \in Waiting : n < cb_base}
      BY ONLY <1>3, <2>1
    <3> QED BY ONLY <1>3, <3>1
  <2> QED BY ONLY <1>3, <2>1, <2>2 DEF Stream!vars
<1>4. ASSUME NEW b \in Buf, Dispatch(b) PROVE [Stream!Next]_(Stream!vars)
  <2>1. /\ cb = "idle" /\ UNCHANGED <<state, seq, Published, Phase>>
        /\ cb' = "scan" => cb_base' = Published
    BY <1>2, <1>4 DEF Dispatch, Published
  <2>2. CASE cb' = "scan"
    <3>1. async_status = "RUNNING"
      BY <1>4, <2>2 DEF Dispatch, CbEntry
    <3>2. Phase = "running"
      BY <3>1 DEF Phase
    <3>3. \A n \in Waiting : n < Published
      BY DEF Waiting
    <3>4. Snapshot' = Waiting
      BY <1>1, <2>1, <2>2, <3>3
    <3>5. Stream!Look
      BY <1>1, <2>1, <2>2, <3>2, <3>4 DEF Stream!Look
    <3> QED
      BY <3>5 DEF Stream!Next
  <2>3. CASE cb' # "scan"
    BY <1>3, <2>1, <2>3
  <2> QED
    BY <2>2, <2>3
<1>5. CASE CbScan
  <2>1. UNCHANGED <<state, seq, Published, Phase, cb, cb_base>>
    BY <1>2, <1>5 DEF CbScan, Published
  <2> QED
    BY <1>3, <2>1
<1>6. CASE CbSubmitNext
  <2> DEFINE n == seq[next_buf]
  <2>1. /\ cb = "scan" /\ cb' = "signal" /\ next_buf \in Buf
        /\ state[next_buf] = "FILLED" /\ cb_i = XferBufNum
        /\ UNCHANGED <<seq, Published, Phase>>
    BY <1>2, <1>6 DEF CbSubmitNext, ScanDone, Published
  <2>2. state' = [state EXCEPT ![next_buf] = "SUBMITTED", ![cb_xfer] = "EMPTY"]
    BY <1>6 DEF CbSubmitNext
  <2>3. \A b \in Buf : state'[b] = "FILLED" <=> state[b] = "FILLED" /\ b # next_buf
    BY <2>1, <2>2
  <2>4. n \in Waiting /\ Waiting' = Waiting \ {n}
    BY <2>1, <2>3 DEF Waiting
  <2>5. \A m \in Snapshot : n <= m
    BY <2>1 DEF Waiting, Scanning
  <2>6. \E k \in Waiting : Stream!Send(k)
    BY <2>1, <2>4, <2>5 DEF Stream!Send
  <2> QED
    BY <2>6 DEF Stream!Next
<1>7. CASE CbResubmit
  <2>1. /\ cb = "scan" /\ cb' = "signal_underflow" /\ next_buf < 0
        /\ cb_i = XferBufNum /\ UNCHANGED <<state, seq, Published, Phase>>
    BY <1>2, <1>7 DEF CbResubmit, ScanDone, Published
  <2>2. Snapshot = {}
    BY <2>1 DEF Waiting, Scanning
  <2>3. Stream!Repeat
    BY <1>1, <2>1, <2>2 DEF Stream!Repeat
  <2> QED
    BY <2>3 DEF Stream!Next
<1>8. CASE CbSignal \/ CbCount \/ CbError
  <2>1. cb # "scan" /\ cb' # "scan" /\ UNCHANGED <<app, async_status>>
    BY <1>8 DEF CbSignal, CbCount, CbError, CbAfterSubmit
  <2>2. UNCHANGED <<state, seq, Published>>
    BY <1>8, OtherSteps DEF CbSignal, CbCount, CbError, CbSubmitNext, SwConvert,
       SwPublish, StartTx, CbAfterSubmit, Published
  <2> QED
    BY <1>2, <1>3, <2>1, <2>2
<1>9. ASSUME NEW c \in Callers, StopRead(c) \/ StopStep(c)
      PROVE  [Stream!Next]_(Stream!vars)
  <2>1. /\ (cb' = "scan") = (cb = "scan")
        /\ UNCHANGED <<state, seq, Published, cb_base, app>>
    BY <1>9 DEF StopRead, MayStop, StopStep, StopCancel, StopFlag, StopForce,
       AfterStop, Resting, Published
  <2>2. CASE UNCHANGED async_status
    BY <1>2, <1>3, <2>1, <2>2
  <2>3. CASE async_status' # async_status
    <3>1. app # "open" /\ app' # "open" /\ async_status' # "RUNNING"
      BY <1>9, <2>3 DEF StopRead, StopStep, StopCancel, StopFlag, StopForce
    <3>2. Phase' = "stopped" /\ Phase \in {"running", "stopped"}
      BY <3>1 DEF Phase
    <3>3. CASE Phase = "running"
      <4>1. UNCHANGED <<Published, Waiting, Snapshot>>
        BY <1>1, <2>1
      <4>2. Stream!Stop
        BY <2>1, <3>2, <3>3, <4>1 DEF Stream!Stop
      <4> QED
        BY <4>2 DEF Stream!Next
    <3>4. CASE Phase = "stopped"
      BY <1>3, <2>1, <3>2, <3>4
    <3> QED
      BY <3>2, <3>3, <3>4
  <2> QED
    BY <2>2, <2>3
<1>10. CASE UwStep
  <2>1. UNCHANGED <<state, seq, Published, cb, cb_base, app>>
    BY <1>10 DEF UwStep, UwRun, UwEventsReturn, UwPoll, UwDrainReturn, UwCheck,
       UwCancel, UwFlushReturn, UwCancelEnd, UwLastFlushReturn, UwJoin,
       UwFinish, Published
  <2>2. CASE UNCHANGED async_status
    BY <1>2, <1>3, <2>1, <2>2
  <2>3. CASE async_status' # async_status
    <3>1. app # "open" /\ async_status' # "RUNNING"
      BY <1>10, <2>3 DEF UwStep, UwRun, UwEventsReturn, UwPoll, UwDrainReturn,
         UwCheck, UwCancel, UwFlushReturn, UwCancelEnd, UwLastFlushReturn,
         UwJoin, UwFinish
    <3>2. Phase' = "stopped" /\ Phase \in {"running", "stopped"}
      BY <2>1, <3>1 DEF Phase
    <3>3. CASE Phase = "running"
      <4>1. UNCHANGED <<Published, Waiting, Snapshot>>
        BY <1>1, <2>1
      <4>2. Stream!Stop
        BY <2>1, <3>2, <3>3, <4>1 DEF Stream!Stop
      <4> QED
        BY <4>2 DEF Stream!Next
    <3>4. CASE Phase = "stopped"
      BY <1>3, <2>1, <3>2, <3>4
    <3> QED
      BY <3>2, <3>3, <3>4
  <2> QED
    BY <2>2, <2>3
<1>11. CASE SwConvert
  <2>1. UNCHANGED <<state, cb, cb_base, Phase>> /\ sw = "convert"
    BY <1>2, <1>11 DEF SwConvert
  <2>2. UNCHANGED Published
    BY <1>11 DEF SwConvert, Published
  <2>3. \A b \in Buf : state[b] = "FILLED" => seq'[b] = seq[b]
    BY <1>11 DEF SwConvert
  <2>4. UNCHANGED Waiting
    BY <2>1, <2>3 DEF Waiting
  <2> QED
    BY <2>1, <2>2, <2>4 DEF Stream!vars
<1>12. CASE SwPublish
  <2>1. /\ UNCHANGED <<seq, cb, cb_base, Phase>> /\ sw = "publish"
        /\ sw_xfer \in Buf /\ seq[sw_xfer] = Published
        /\ Published' = Published + 1
    BY <1>2, <1>12 DEF SwPublish, Published, Counting
  <2>2. \A b \in Buf : state'[b] = "FILLED" <=> state[b] = "FILLED" \/ b = sw_xfer
    BY <1>12, <2>1 DEF SwPublish
  <2>3. Waiting' = Waiting \cup {Published}
    BY <2>1, <2>2 DEF Waiting
  <2>4. cb = "scan" => cb_base <= Published
    BY DEF Scanning
  <2>5. UNCHANGED Snapshot
    <3>1. CASE cb = "scan"
      <4>1. Published \in Int /\ cb_base \in Int
        BY <2>1 DEF Published
      <4>2. {k \in Waiting \cup {Published} : k < cb_base}
              = {k \in Waiting : k < cb_base}
        BY <2>4, <3>1, <4>1
      <4> QED
        BY <2>1, <2>3, <3>1, <4>2
    <3>2. CASE cb # "scan"
      BY <2>1, <3>2
    <3> QED
      BY <3>1, <3>2
  <2>6. app # "open"
    BY <2>1
  <2>7. Phase # "idle"
    BY <2>6 DEF Phase
  <2>8. Stream!Supply
    BY <2>1, <2>3, <2>5, <2>7 DEF Stream!Supply
  <2> QED
    BY <2>8 DEF Stream!Next
<1>13. CASE (SwStep /\ ~SwConvert /\ ~SwPublish) \/ SpuriousWakeup \/ Unplug
  <2>1. UNCHANGED <<state, seq, Published, cb, cb_base, app, async_status>>
    BY <1>13 DEF SwStep, SwTop, SwCallback, SwScan, SwScanEnd, SwWoken, SwExit,
       SpuriousWakeup, Unplug, Published
  <2> QED
    BY <1>2, <1>3, <2>1
<1>14. CASE StartTx
  <2>1. PICK k \in 0 .. XferNum : AllocSubmit(k)
    BY <1>14 DEF StartTx
  <2>2. Waiting = {} /\ Waiting' = {}
    BY <1>14, <2>1 DEF StartTx, AllocSubmit, Waiting
  <2>3. UNCHANGED <<cb, Published>> /\ cb = "idle"
    BY <1>14 DEF StartTx, Published
  <2>4. Phase = "idle" /\ Phase' = "running"
    BY <1>14 DEF StartTx, Phase
  <2>5. Stream!Start
    BY <2>2, <2>3, <2>4 DEF Stream!Start
  <2> QED
    BY <2>5 DEF Stream!Next
<1>15. CASE StartTxFails
  <2>1. UNCHANGED <<cb, Published, state, seq>> /\ cb = "idle"
    BY <1>15 DEF StartTxFails, Published
  <2>2. Phase = "idle" /\ Phase' = "running"
    BY <1>15 DEF StartTxFails, Phase
  <2>3. Stream!Start
    BY <1>1, <2>1, <2>2 DEF Stream!Start
  <2> QED
    BY <2>3 DEF Stream!Next
<1>16. CASE AppStep /\ ~StartTx /\ ~StartTxFails
  <2>1. /\ UNCHANGED <<state, seq, cb, cb_base, async_status>>
        /\ app # "open" /\ app' # "open"
    BY <1>16 DEF AppStep, SpawnUsbWorker, SpawnSampleWorker, SetRateBegin,
       SetRateEnd, CloseBegin, CloseFinish, MayClose
  <2>2. UNCHANGED Phase
    BY <2>1 DEF Phase
  <2>3. UNCHANGED Published
    BY <1>16, OtherSteps, <2>1 DEF AppStep, CbSubmitNext, SwConvert, SwPublish,
       SpawnUsbWorker, SpawnSampleWorker, SpawnResults, SetRateBegin,
       SetRateEnd, CloseBegin, CloseFinish, Published
  <2> QED
    BY <1>3, <2>1, <2>2, <2>3
<1>17. CASE UNCHANGED vars
  <2>1. UNCHANGED <<state, seq, Published, cb, cb_base, app, async_status>>
    BY <1>17 DEF vars, Published
  <2> QED
    BY <1>2, <1>3, <2>1
<1> QED
  BY <1>4, <1>5, <1>6, <1>7, <1>8, <1>9, <1>10, <1>11, <1>12, <1>13, <1>14,
     <1>15, <1>16, <1>17 DEF Next, CbStep

(* The engine implements the stream: blocks are sent at most once, never   *)
(* behind one that waited when the callback began to look, and repeated    *)
(* only when none waited.                                                  *)
THEOREM EngineIsAStream == Spec => ImplementsStream
<1>1. Init => Numbered
  BY DEF Init, Numbered, Published
<1>2. Init => Stream!Init
  BY DEF Init, Stream!Init, Phase, Published, Waiting
<1>3. Inv /\ Numbered /\ [Next]_vars => Numbered'
  BY NumberedStep
<1>4. Inv /\ Numbered /\ Numbered' /\ [Next]_vars
        => [Stream!Next]_(Stream!vars)
  BY StreamStep
<1> QED
  BY <1>1, <1>2, <1>3, <1>4, Invariance, PTL
     DEF Spec, ImplementsStream, Stream!Spec

=============================================================================
