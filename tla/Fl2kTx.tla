------------------------------- MODULE Fl2kTx -------------------------------
(***************************************************************************)
(* The transmit engine of libosmo-fl2k (src/libosmo-fl2k.c): one session   *)
(* from fl2k_start_tx to fl2k_close.  Four parties run concurrently:       *)
(*                                                                         *)
(*   - the application thread: fl2k_start_tx, fl2k_stop_tx, fl2k_close;    *)
(*   - the USB worker: fl2k_usb_worker, and, from within libusb's event    *)
(*     handling, _libusb_callback;                                         *)
(*   - the sample worker: fl2k_sample_worker, which calls the              *)
(*     application's callback for blocks of samples;                       *)
(*   - libusb and the device, which complete, fail and cancel transfers    *)
(*     (external: modelled from how the code uses them).                   *)
(*                                                                         *)
(* They share struct fl2k_dev without a lock: async_status, async_cancel,  *)
(* dev_lost, underflow_cnt and the state and seq of every transfer.  Each  *)
(* access another thread can observe is a step of its own.  The model      *)
(* takes one thread's stores to become visible in program order.           *)
(***************************************************************************)
EXTENDS Integers, FiniteSets

CONSTANTS
  XferNum,       \* dev->xfer_num, the number of transfers kept in flight
  MaxBlocks,     \* bound: blocks the application supplies before it blocks
  MaxStops,      \* bound: calls of fl2k_stop_tx by the application
  CounterRange,  \* values of underflow_cnt before it wraps; 2^32 in the code
  StopWhen,      \* where the application's thread may be when its signal
                 \* handler, or another of its threads, stops
  ControlTransfers, \* TRUE: the application may set the sample rate, a series
                 \* of control transfers, while streaming
  Faults,        \* what may go wrong, a subset of AllFaults
  PromptCancel   \* TRUE: a cancelled transfer is reaped by the next event
                 \* handling, as Linux usbfs does; FALSE: at any later time,
                 \* all that libusb_cancel_transfer promises

(* "submit": libusb_submit_transfer fails; "xfer": a transfer ends with an *)
(* error; "unplug": the device goes away; "events": event handling fails;  *)
(* "nomem": a buffer cannot be allocated; "spawn": pthread_create fails.   *)
AllFaults == {"submit", "xfer", "unplug", "events", "nomem", "spawn"}

ASSUME ConstantsAssumption ==
  /\ XferNum \in Nat \ {0}
  /\ MaxBlocks \in Nat
  /\ MaxStops \in Nat
  /\ CounterRange \in Nat \ {0}
  /\ StopWhen \subseteq {"spawn_usb", "spawn_sample", "started", "set_rate"}
  /\ ControlTransfers \in BOOLEAN
  /\ Faults \subseteq AllFaults
  /\ PromptCancel \in BOOLEAN

(* Two spare buffers can be filled while the others are submitted. *)
XferBufNum == XferNum + 2
Buf        == 0 .. XferBufNum - 1

(* Who calls fl2k_stop_tx: the application, on its own thread or from its  *)
(* callback in the sample worker, and _libusb_callback.                    *)
Callers == {"app", "sample", "callback"}

(* data_info before the sample worker first clears it. *)
Uninitialized == -1

VARIABLES
  async_status, async_cancel, dev_lost, underflow_cnt,
  state, seq,      \* xfer_info[b].state, xfer_info[b].seq
  xfers,           \* dev->xfer and dev->xfer_buf: "none", "live" or "freed"
  xfer_status,     \* xfer[b]->status, written when the transfer ends
  inflight,        \* transfers libusb holds
  cancelling,      \* those of them it was asked to cancel
  plugged,
  uw,              \* USB worker's program counter
  uw_i,            \* index of its cancel loop
  next_status,
  cb,              \* program counter of the running _libusb_callback
  cb_by,           \* the thread it runs on, "usb" or "app"
  cb_xfer,         \* the transfer it was called for
  cb_i, next_buf,  \* locals of fl2k_get_next_xfer
  cb_r,            \* result of its libusb_submit_transfer
  cb_base,         \* history: blocks published when its scan began
  sw,              \* sample worker's program counter
  sw_xfer,         \* index of its scan, then the transfer found
  buf_cnt, underflows,
  reported,        \* data_info.underflow_cnt
  app,             \* application's program counter
  stop,            \* program counter of each caller inside fl2k_stop_tx
  stops,           \* calls of fl2k_stop_tx by the application so far
  notified         \* the callback was called with device_error

control  == <<async_status, async_cancel, dev_lost>>
buffers  == <<state, seq>>
usb      == <<xfer_status, inflight, cancelling, plugged>>
uwVars   == <<uw, uw_i, next_status>>
cbLocals == <<cb_by, cb_xfer, cb_i, next_buf, cb_r, cb_base>>
cbVars   == <<cb, cbLocals>>
swLocals == <<sw_xfer, buf_cnt, underflows, reported, notified>>
swVars   == <<sw, swLocals>>
appVars  == <<app, stop, stops>>
vars     == <<control, underflow_cnt, buffers, xfers, usb, uwVars, cbVars,
              swVars, appVars>>

-----------------------------------------------------------------------------
(* The state fl2k_open leaves behind: a cleared device structure. *)
Init ==
  /\ async_status = "INACTIVE" /\ async_cancel = FALSE /\ dev_lost = FALSE
  /\ underflow_cnt = 0
  /\ state = [b \in Buf |-> "EMPTY"] /\ seq = [b \in Buf |-> 0]
  /\ xfers = "none"
  /\ xfer_status = [b \in Buf |-> "COMPLETED"]
  /\ inflight = {} /\ cancelling = {} /\ plugged = TRUE
  /\ uw = "unborn" /\ uw_i = 0 /\ next_status = "INACTIVE"
  /\ cb = "idle" /\ cb_by = "usb" /\ cb_xfer = 0 /\ cb_i = 0 /\ next_buf = -1
  /\ cb_r = "ok" /\ cb_base = 0
  /\ sw = "unborn" /\ sw_xfer = 0 /\ buf_cnt = 0 /\ underflows = 0
  /\ reported = Uninitialized
  /\ app = "open" /\ stop = [c \in Callers |-> "idle"] /\ stops = 0
  /\ notified = FALSE

(* Blocks whose buffer the sample worker has marked FILLED so far. *)
Published == IF sw = "publish" THEN buf_cnt - 1 ELSE buf_cnt

-----------------------------------------------------------------------------
(* Once fl2k_close has freed the device the session is over: what a thread *)
(* still running would do with the memory is undefined.  Every step but    *)
(* the application's starts from a place of its thread while it is Open.   *)
Open == app # "closed"

UwAt(places)     == Open /\ uw \in places
CbAt(places)     == Open /\ cb \in places
SwAt(places)     == Open /\ sw \in places
StopAt(c, place) == Open /\ stop[c] = place

-----------------------------------------------------------------------------
(* libusb and the device *)

(* What libusb_submit_transfer may return. *)
SubmitResults ==
  IF plugged THEN {"ok"} \cup (IF "submit" \in Faults THEN {"fail"} ELSE {})
             ELSE {"no_device"}

(* Submitting transfer b with result r. *)
Submit(b, r) == inflight' = IF r = "ok" THEN inflight \cup {b} ELSE inflight

Unplug ==
  /\ Open
  /\ "unplug" \in Faults
  /\ plugged
  /\ plugged' = FALSE
  /\ UNCHANGED <<control, underflow_cnt, buffers, xfers, xfer_status,
                 inflight, cancelling, uwVars, cbVars, swVars, appVars>>

(* How a transfer in flight may end. *)
Outcomes(b) ==
  (IF plugged THEN {"COMPLETED"} ELSE {})
    \cup (IF b \in cancelling THEN {"CANCELLED"} ELSE {})
    \cup (IF "xfer" \in Faults \/ ~plugged THEN {"ERROR"} ELSE {})

-----------------------------------------------------------------------------
(* Event handling: the USB worker does it in its loops, and so does every  *)
(* thread inside a control transfer.  Whoever does holds libusb's event    *)
(* lock, so that one _libusb_callback runs at a time.                      *)
EventHandlers ==
  (IF uw \in {"events", "drain", "flush", "last_flush"} THEN {"usb"} ELSE {})
    \cup (IF app = "set_rate" THEN {"app"} ELSE {})

(* _libusb_callback, for transfer b.  A cancelled transfer needs nothing;  *)
(* a completed one only while streaming.  What libusb makes of a transfer  *)
(* freed in flight is undefined: here it never ends.                       *)
(* Mutation: the callback does not test async_status. *)
CbEntryWhenever(status) ==
  CASE status = "COMPLETED" -> "scan"
    [] status = "ERROR" -> "error"
    [] OTHER -> "idle"

CbEntry(status) ==
  CASE status = "COMPLETED" /\ async_status = "RUNNING" -> "scan"
    [] status = "ERROR" -> "error"
    [] OTHER -> "idle"

Dispatch(b) ==
  /\ xfers = "live"
  /\ CbAt({"idle"})
  /\ b \in inflight
  /\ cb_by' \in EventHandlers
  /\ \E status \in Outcomes(b) :
       /\ xfer_status' = [xfer_status EXCEPT ![b] = status]
       /\ cb' = CbEntry(status)
  /\ inflight' = inflight \ {b}
  /\ cancelling' = cancelling \ {b}
  /\ IF cb' = "scan" THEN cb_xfer' = b /\ cb_base' = Published
                     ELSE UNCHANGED <<cb_xfer, cb_base>>
  /\ cb_r' = "ok"
  /\ UNCHANGED <<control, underflow_cnt, buffers, xfers, plugged, uwVars, cb_i,
                 next_buf, swVars, appVars>>

(* Mutation: the newest block is chosen. *)
CbScanNewest ==
  /\ CbAt({"scan"})
  /\ cb_i < XferBufNum
  /\ next_buf' = IF /\ state[cb_i] = "FILLED"
                    /\ next_buf < 0 \/ seq[cb_i] > seq[next_buf]
                 THEN cb_i ELSE next_buf
  /\ cb_i' = cb_i + 1
  /\ UNCHANGED <<control, underflow_cnt, buffers, xfers, usb, uwVars, cb, cb_by,
                 cb_xfer, cb_r, cb_base, swVars, appVars>>

(* fl2k_get_next_xfer(dev, BUF_FILLED), one transfer per step: the sample  *)
(* worker may fill buffers meanwhile.  next_seq is seq[next_buf], which    *)
(* nobody changes while the buffer is FILLED.                              *)
CbScan ==
  /\ CbAt({"scan"})
  /\ cb_i < XferBufNum
  /\ next_buf' = IF /\ state[cb_i] = "FILLED"
                    /\ next_buf < 0 \/ seq[cb_i] < seq[next_buf]
                 THEN cb_i ELSE next_buf
  /\ cb_i' = cb_i + 1
  /\ UNCHANGED <<control, underflow_cnt, buffers, xfers, usb, uwVars, cb, cb_by,
                 cb_xfer, cb_r, cb_base, swVars, appVars>>

ScanDone == CbAt({"scan"}) /\ cb_i = XferBufNum

(* The locals of a scan are dead after it: set to their initial values, so *)
(* that stale ones tell no states apart.                                   *)
ForgetScan == cb_xfer' = 0 /\ cb_i' = 0 /\ next_buf' = -1 /\ cb_base' = 0

(* Mutation: the states of the two transfers are swapped. *)
CbSubmitNextSwapped ==
  /\ ScanDone
  /\ next_buf >= 0
  /\ \E r \in SubmitResults : cb_r' = r /\ Submit(next_buf, r)
  /\ state' = [state EXCEPT ![cb_xfer] = "SUBMITTED", ![next_buf] = "EMPTY"]
  /\ cb' = "signal"
  /\ ForgetScan
  /\ UNCHANGED <<control, underflow_cnt, seq, xfers, xfer_status, cancelling,
                 plugged, uwVars, cb_by, swVars, appVars>>

(* A filled buffer was found: it takes the place of the completed one. *)
CbSubmitNext ==
  /\ ScanDone
  /\ next_buf >= 0
  /\ \E r \in SubmitResults : cb_r' = r /\ Submit(next_buf, r)
  /\ state' = [state EXCEPT ![next_buf] = "SUBMITTED", ![cb_xfer] = "EMPTY"]
  /\ cb' = "signal"
  /\ ForgetScan
  /\ UNCHANGED <<control, underflow_cnt, seq, xfers, xfer_status, cancelling,
                 plugged, uwVars, cb_by, swVars, appVars>>

(* Mutation: without a filled buffer the transfer is dropped. *)
CbResubmitDropped ==
  /\ ScanDone
  /\ next_buf < 0
  /\ cb_r' = "ok"
  /\ cb' = "signal_underflow"
  /\ ForgetScan
  /\ UNCHANGED <<control, underflow_cnt, buffers, xfers, usb, uwVars, cb_by,
                 swVars, appVars>>

(* No filled buffer: the old samples are sent again, an underflow. *)
CbResubmit ==
  /\ ScanDone
  /\ next_buf < 0
  /\ \E r \in SubmitResults : cb_r' = r /\ Submit(cb_xfer, r)
  /\ cb' = "signal_underflow"
  /\ ForgetScan
  /\ UNCHANGED <<control, underflow_cnt, buffers, xfers, xfer_status,
                 cancelling, plugged, uwVars, cb_by, swVars, appVars>>

(* Only the loss of the device is acted upon, no other failed submission. *)
CbAfterSubmit == IF cb_r = "no_device" THEN "error" ELSE "idle"

(* Mutation: nobody is signalled. *)
CbSignalMissing ==
  /\ CbAt({"signal", "signal_underflow", "signal_error"})
  /\ cb' = CASE cb = "signal" -> CbAfterSubmit
             [] cb = "signal_underflow" -> "count"
             [] OTHER -> "idle"
  /\ UNCHANGED <<control, underflow_cnt, buffers, xfers, usb, uwVars,
                 cbLocals, swVars, appVars>>

(* pthread_cond_signal: without a waiter it has no effect, and none of its *)
(* callers holds buf_mutex.                                                *)
CbSignal ==
  /\ CbAt({"signal", "signal_underflow", "signal_error"})
  /\ sw' = IF sw = "wait" THEN "woken" ELSE sw
  /\ cb' = CASE cb = "signal" -> CbAfterSubmit
             [] cb = "signal_underflow" -> "count"
             [] OTHER -> "idle"
  /\ UNCHANGED <<control, underflow_cnt, buffers, xfers, usb, uwVars,
                 cbLocals, swLocals, appVars>>

(* Mutation: the counter is wider than the code's. *)
CbCountUnbounded ==
  /\ CbAt({"count"})
  /\ underflow_cnt' = underflow_cnt + 1
  /\ cb' = CbAfterSubmit
  /\ UNCHANGED <<control, buffers, xfers, usb, uwVars, cbLocals, swVars,
                 appVars>>

CbCount ==
  /\ CbAt({"count"})
  /\ underflow_cnt' = (underflow_cnt + 1) % CounterRange
  /\ cb' = CbAfterSubmit
  /\ UNCHANGED <<control, buffers, xfers, usb, uwVars, cbLocals, swVars,
                 appVars>>

(* The transfer failed, or the device is gone: stop, then wake the sample  *)
(* worker.                                                                 *)
CbError ==
  /\ CbAt({"error"})
  /\ dev_lost' = TRUE
  /\ cb' = "stop"
  /\ UNCHANGED <<async_status, async_cancel, underflow_cnt, buffers, xfers,
                 usb, uwVars, cbLocals, swVars, appVars>>

-----------------------------------------------------------------------------
(* fl2k_stop_tx, called by c: the test of async_status and the stores that *)
(* follow it are separate steps.  A call that finds INACTIVE changes       *)
(* nothing.                                                                *)
AfterStop(c) == IF c = "callback" THEN "signal_error" ELSE cb

MayStop(c) ==
  /\ StopAt(c, "idle")
  /\ CASE c = "app"    -> app \in StopWhen /\ stops < MaxStops
       [] c = "sample" -> sw = "callback" /\ stops < MaxStops
       [] OTHER        -> cb = "stop"

StopRead(c) ==
  /\ MayStop(c)
  /\ stop' = [stop EXCEPT ![c] = CASE async_status = "RUNNING"   -> "cancel"
                                   [] async_status = "CANCELING" -> "force"
                                   [] OTHER                      -> "idle"]
  /\ stops' = IF c = "callback" THEN stops ELSE stops + 1
  /\ cb' = IF async_status = "INACTIVE" THEN AfterStop(c) ELSE cb
  /\ UNCHANGED <<control, underflow_cnt, buffers, xfers, usb, uwVars,
                 cbLocals, swVars, app>>

StopCancel(c) ==
  /\ StopAt(c, "cancel")
  /\ async_status' = "CANCELING"
  /\ stop' = [stop EXCEPT ![c] = "flag"]
  /\ UNCHANGED <<async_cancel, dev_lost, underflow_cnt, buffers, xfers, usb,
                 uwVars, cbVars, swVars, app, stops>>

StopFlag(c) ==
  /\ StopAt(c, "flag")
  /\ async_cancel' = TRUE
  /\ stop' = [stop EXCEPT ![c] = "idle"]
  /\ cb' = AfterStop(c)
  /\ UNCHANGED <<async_status, dev_lost, underflow_cnt, buffers, xfers, usb,
                 uwVars, cbLocals, swVars, app, stops>>

StopForce(c) ==
  /\ StopAt(c, "force")
  /\ async_status' = "INACTIVE"
  /\ stop' = [stop EXCEPT ![c] = "idle"]
  /\ cb' = AfterStop(c)
  /\ UNCHANGED <<async_cancel, dev_lost, underflow_cnt, buffers, xfers, usb,
                 uwVars, cbLocals, swVars, app, stops>>

StopStep(c) == StopCancel(c) \/ StopFlag(c) \/ StopForce(c)

-----------------------------------------------------------------------------
(* fl2k_usb_worker *)

(* while (FL2K_RUNNING == dev->async_status) *)
UwRun ==
  /\ UwAt({"run"})
  /\ uw' = IF async_status = "RUNNING" THEN "events" ELSE "poll"
  /\ UNCHANGED <<control, underflow_cnt, buffers, xfers, usb, uw_i,
                 next_status, cbVars, swVars, appVars>>

(* The worker's event handling does not return from within the callback;   *)
(* it does while another thread handles events.                            *)
UwMayReturn == cb = "idle" \/ cb_by = "app"

(* libusb_handle_events_timeout_completed returns, whatever it returns. *)
UwEventsReturn ==
  /\ UwAt({"events"})
  /\ UwMayReturn
  /\ uw' = "run"
  /\ UNCHANGED <<control, underflow_cnt, buffers, xfers, usb, uw_i,
                 next_status, cbVars, swVars, appVars>>

(* while (FL2K_INACTIVE != dev->async_status); with async_cancel set the   *)
(* call that follows returns at once, without handling an event.           *)
UwPoll ==
  /\ UwAt({"poll"})
  /\ uw' = CASE async_status = "INACTIVE" -> "join"
             [] async_status # "INACTIVE" /\ async_cancel -> "check"
             [] OTHER -> "drain"
  /\ UNCHANGED <<control, underflow_cnt, buffers, xfers, usb, uw_i,
                 next_status, cbVars, swVars, appVars>>

(* It returns 0, LIBUSB_ERROR_INTERRUPTED or another error. *)
UwDrainReturn ==
  /\ UwAt({"drain"})
  /\ UwMayReturn
  /\ uw' \in IF "events" \in Faults THEN {"check", "poll", "join"} ELSE {"check"}
  /\ UNCHANGED <<control, underflow_cnt, buffers, xfers, usb, uw_i,
                 next_status, cbVars, swVars, appVars>>

(* Mutation: next_status keeps the value of the pass before. *)
UwCheckNoReset ==
  /\ UwAt({"check"})
  /\ IF async_status = "CANCELING"
       THEN uw' = "cancel" /\ uw_i' = 0
       ELSE uw' = "poll" /\ UNCHANGED uw_i
  /\ UNCHANGED <<control, underflow_cnt, buffers, xfers, usb, next_status,
                 cbVars, swVars, appVars>>

UwCheck ==
  /\ UwAt({"check"})
  /\ IF async_status = "CANCELING"
       THEN uw' = "cancel" /\ uw_i' = 0 /\ next_status' = "INACTIVE"
       ELSE uw' = "poll" /\ UNCHANGED <<uw_i, next_status>>
  /\ UNCHANGED <<control, underflow_cnt, buffers, xfers, usb, cbVars, swVars,
                 appVars>>

(* libusb_cancel_transfer succeeds on a transfer in flight it was not yet  *)
(* asked to cancel, and returns LIBUSB_ERROR_NOT_FOUND on every other.     *)
UwCancel ==
  /\ UwAt({"cancel"})
  /\ uw_i < XferBufNum
  /\ IF xfer_status[uw_i] = "CANCELLED"
       THEN /\ uw_i' = uw_i + 1
            /\ UNCHANGED <<uw, next_status, cancelling>>
       ELSE /\ uw' = "flush"
            /\ IF uw_i \in inflight \ cancelling
                 THEN /\ cancelling' = cancelling \cup {uw_i}
                      /\ next_status' = "CANCELING"
                 ELSE UNCHANGED <<cancelling, next_status>>
            /\ UNCHANGED uw_i
  /\ UNCHANGED <<control, underflow_cnt, buffers, xfers, xfer_status, inflight,
                 plugged, cbVars, swVars, appVars>>

(* Event handling with a zero timeout returns: it has reaped nothing when  *)
(* another thread holds the event lock.                                    *)
FlushDone ==
  /\ UwMayReturn
  /\ PromptCancel => cancelling = {} \/ app = "set_rate"

UwFlushReturn ==
  /\ UwAt({"flush"})
  /\ FlushDone
  /\ uw' = "cancel"
  /\ uw_i' = uw_i + 1
  /\ UNCHANGED <<control, underflow_cnt, buffers, xfers, usb, next_status,
                 cbVars, swVars, appVars>>

(* Mutation: the loop runs to xfer_num, not to xfer_buf_num. *)
UwCancelEndShort ==
  /\ UwAt({"cancel"})
  /\ uw_i = XferNum
  /\ uw' = IF dev_lost \/ next_status = "INACTIVE" THEN "last_flush" ELSE "poll"
  /\ uw_i' = 0
  /\ UNCHANGED <<control, underflow_cnt, buffers, xfers, usb, next_status,
                 cbVars, swVars, appVars>>

(* A pass that cancelled nothing, or a lost device, ends the loop. *)
UwCancelEnd ==
  /\ UwAt({"cancel"})
  /\ uw_i = XferBufNum
  /\ uw' = IF dev_lost \/ next_status = "INACTIVE" THEN "last_flush" ELSE "poll"
  /\ uw_i' = 0
  /\ UNCHANGED <<control, underflow_cnt, buffers, xfers, usb, next_status,
                 cbVars, swVars, appVars>>

UwLastFlushReturn ==
  /\ UwAt({"last_flush"})
  /\ FlushDone
  /\ uw' = "join"
  /\ UNCHANGED <<control, underflow_cnt, buffers, xfers, usb, uw_i,
                 next_status, cbVars, swVars, appVars>>

(* pthread_join of the sample worker, then _fl2k_free_async_buffers.       *)
(* Joining a thread that was never created is undefined: here it returns.  *)
UwJoin ==
  /\ UwAt({"join"})
  /\ sw \in {"done", "unborn"}
  /\ xfers' = "freed"
  /\ uw' = "finish"
  /\ UNCHANGED <<control, underflow_cnt, buffers, usb, uw_i, next_status,
                 cbVars, swVars, appVars>>

UwFinish ==
  /\ UwAt({"finish"})
  /\ async_status' = next_status
  /\ uw' = "done"
  /\ UNCHANGED <<async_cancel, dev_lost, underflow_cnt, buffers, xfers, usb,
                 uw_i, next_status, cbVars, swVars, appVars>>

-----------------------------------------------------------------------------
(* fl2k_sample_worker *)

(* The loop's test; data_info is set up, a growing underflow_cnt noted. *)
SwTop ==
  /\ SwAt({"top"})
  /\ IF async_status = "RUNNING"
       THEN /\ reported' = underflow_cnt
            /\ underflows' = IF underflow_cnt > underflows THEN underflow_cnt
                                                          ELSE underflows
            /\ sw' = "callback"
       ELSE /\ sw' = "exit"
            /\ UNCHANGED <<reported, underflows>>
  /\ UNCHANGED <<control, underflow_cnt, buffers, xfers, usb, uwVars, cbVars,
                 sw_xfer, buf_cnt, notified, appVars>>

(* The application's callback returns with a block: after the last one it  *)
(* waits for more until it sees that streaming was stopped.                *)
SwCallback ==
  /\ SwAt({"callback"})
  /\ stop["sample"] = "idle"
  /\ buf_cnt < MaxBlocks \/ async_status # "RUNNING"
  /\ sw' = "scan"
  /\ sw_xfer' = 0
  /\ UNCHANGED <<control, underflow_cnt, buffers, xfers, usb, uwVars, cbVars,
                 buf_cnt, underflows, reported, notified, appVars>>

(* Mutation: any buffer that is not filled passes for empty. *)
SwScanNotFilled ==
  /\ SwAt({"scan", "rescan"})
  /\ sw_xfer < XferBufNum
  /\ IF state[sw_xfer] # "FILLED" THEN sw' = "convert" /\ UNCHANGED sw_xfer
                                  ELSE sw_xfer' = sw_xfer + 1 /\ UNCHANGED sw
  /\ UNCHANGED <<control, underflow_cnt, buffers, xfers, usb, uwVars, cbVars,
                 buf_cnt, underflows, reported, notified, appVars>>

(* fl2k_get_next_xfer(dev, BUF_EMPTY), one transfer per step; "rescan" is  *)
(* the second try, after pthread_cond_wait.                                *)
SwScan ==
  /\ SwAt({"scan", "rescan"})
  /\ sw_xfer < XferBufNum
  /\ IF state[sw_xfer] = "EMPTY" THEN sw' = "convert" /\ UNCHANGED sw_xfer
                                 ELSE sw_xfer' = sw_xfer + 1 /\ UNCHANGED sw
  /\ UNCHANGED <<control, underflow_cnt, buffers, xfers, usb, uwVars, cbVars,
                 buf_cnt, underflows, reported, notified, appVars>>

(* No empty buffer: wait, or skip the block after the second try.  Nothing *)
(* keeps a signal from coming between the scan and the wait.               *)
SwScanEnd ==
  /\ SwAt({"scan", "rescan"})
  /\ sw_xfer = XferBufNum
  /\ sw' = IF sw = "scan" THEN "wait" ELSE "top"
  /\ sw_xfer' = 0
  /\ UNCHANGED <<control, underflow_cnt, buffers, xfers, usb, uwVars, cbVars,
                 buf_cnt, underflows, reported, notified, appVars>>

(* pthread_cond_wait may return without a signal. *)
SpuriousWakeup ==
  /\ SwAt({"wait"})
  /\ sw' = "woken"
  /\ UNCHANGED <<control, underflow_cnt, buffers, xfers, usb, uwVars, cbVars,
                 swLocals, appVars>>

SwWoken ==
  /\ SwAt({"woken"})
  /\ sw' = IF async_status = "RUNNING" THEN "rescan" ELSE "exit"
  /\ UNCHANGED <<control, underflow_cnt, buffers, xfers, usb, uwVars, cbVars,
                 swLocals, appVars>>

(* The block is written into the buffer, then xfer_info->seq = buf_cnt++. *)
SwConvert ==
  /\ SwAt({"convert"})
  /\ seq' = [seq EXCEPT ![sw_xfer] = buf_cnt]
  /\ buf_cnt' = buf_cnt + 1
  /\ sw' = "publish"
  /\ UNCHANGED <<control, underflow_cnt, state, xfers, usb, uwVars, cbVars,
                 sw_xfer, underflows, reported, notified, appVars>>

SwPublish ==
  /\ SwAt({"publish"})
  /\ state' = [state EXCEPT ![sw_xfer] = "FILLED"]
  /\ sw' = "top"
  /\ sw_xfer' = 0
  /\ UNCHANGED <<control, underflow_cnt, seq, xfers, usb, uwVars, cbVars,
                 buf_cnt, underflows, reported, notified, appVars>>

(* The application is told when the device was lost. *)
SwExit ==
  /\ SwAt({"exit"})
  /\ notified' = dev_lost
  /\ sw' = "done"
  /\ UNCHANGED <<control, underflow_cnt, buffers, xfers, usb, uwVars, cbVars,
                 sw_xfer, buf_cnt, underflows, reported, appVars>>

-----------------------------------------------------------------------------
(* fl2k_start_tx and fl2k_close, as the application calls them *)

(* fl2k_alloc_submit_transfers: the transfers are submitted in order until *)
(* one fails, which is marked SUBMITTED like the others; the result is 0.  *)
AllocSubmit(k) ==
  /\ k = XferNum \/ "submit" \in Faults \/ ~plugged
  /\ k = 0 \/ plugged
  /\ inflight' = 0 .. k - 1
  /\ state' = [b \in Buf |-> IF b <= k /\ b < XferNum THEN "SUBMITTED"
                                                     ELSE "EMPTY"]
  /\ xfers' = "live"

StartTx ==
  /\ app = "open"
  /\ \E k \in 0 .. XferNum : AllocSubmit(k)
  /\ async_status' = "RUNNING"
  /\ async_cancel' = FALSE
  /\ app' = "spawn_usb"
  /\ UNCHANGED <<dev_lost, underflow_cnt, seq, xfer_status, cancelling,
                 plugged, uwVars, cbVars, swVars, stop, stops>>

(* Without memory for the buffers it frees what there is and fails. *)
StartTxFails ==
  /\ app = "open"
  /\ "nomem" \in Faults
  /\ async_status' = "RUNNING"
  /\ async_cancel' = FALSE
  /\ xfers' = "freed"
  /\ app' = "failed"
  /\ UNCHANGED <<dev_lost, underflow_cnt, buffers, usb, uwVars, cbVars, swVars,
                 stop, stops>>

(* pthread_create returns a positive error number, which "r < 0" misses. *)
SpawnResults(entry) ==
  {entry} \cup (IF "spawn" \in Faults THEN {"unborn"} ELSE {})

SpawnUsbWorker ==
  /\ app = "spawn_usb"
  /\ uw' \in SpawnResults("run")
  /\ app' = "spawn_sample"
  /\ UNCHANGED <<control, underflow_cnt, buffers, xfers, usb, uw_i,
                 next_status, cbVars, swVars, stop, stops>>

SpawnSampleWorker ==
  /\ app = "spawn_sample"
  /\ sw' \in SpawnResults("top")
  /\ app' = "started"
  /\ UNCHANGED <<control, underflow_cnt, buffers, xfers, usb, uwVars, cbVars,
                 swLocals, stop, stops>>

(* fl2k_set_sample_rate, which the applications call once streaming has    *)
(* started: the register accesses are synchronous control transfers, in    *)
(* which libusb handles events on the calling thread.                      *)
SetRateBegin ==
  /\ ControlTransfers
  /\ app = "started"
  /\ app' = "set_rate"
  /\ UNCHANGED <<control, underflow_cnt, buffers, xfers, usb, uwVars, cbVars,
                 swVars, stop, stops>>

SetRateEnd ==
  /\ app = "set_rate"
  /\ cb = "idle" \/ cb_by = "usb"
  /\ app' = "started"
  /\ UNCHANGED <<control, underflow_cnt, buffers, xfers, usb, uwVars, cbVars,
                 swVars, stop, stops>>

(* The application closes the device when it could not start, when it has  *)
(* stopped it, or when it was told of its loss.  With dev_lost set         *)
(* fl2k_close frees the device at once, otherwise it waits for INACTIVE.   *)
MayClose ==
  \/ app = "failed"
  \/ /\ app = "started"
     /\ stop["app"] = "idle"
     /\ notified \/ (stops > 0 /\ stop["sample"] = "idle")

CloseBegin ==
  /\ MayClose
  /\ app' = IF dev_lost THEN "closed" ELSE "closing"
  /\ UNCHANGED <<control, underflow_cnt, buffers, xfers, usb, uwVars, cbVars,
                 swVars, stop, stops>>

(* Mutation: fl2k_close does not wait. *)
CloseFinishAtOnce ==
  /\ app = "closing"
  /\ app' = "closed"
  /\ UNCHANGED <<control, underflow_cnt, buffers, xfers, usb, uwVars, cbVars,
                 swVars, stop, stops>>

CloseFinish ==
  /\ app = "closing"
  /\ async_status = "INACTIVE"
  /\ app' = "closed"
  /\ UNCHANGED <<control, underflow_cnt, buffers, xfers, usb, uwVars, cbVars,
                 swVars, stop, stops>>

-----------------------------------------------------------------------------
CbStep == CbScan \/ CbSubmitNext \/ CbResubmit \/ CbSignal \/ CbCount \/ CbError

UwStep ==
  \/ UwRun \/ UwEventsReturn \/ UwPoll \/ UwDrainReturn \/ UwCheck \/ UwCancel
  \/ UwFlushReturn \/ UwCancelEnd \/ UwLastFlushReturn \/ UwJoin \/ UwFinish

SwStep ==
  \/ SwTop \/ SwCallback \/ SwScan \/ SwScanEnd \/ SwWoken \/ SwConvert
  \/ SwPublish \/ SwExit

AppStep ==
  \/ StartTx \/ StartTxFails \/ SpawnUsbWorker \/ SpawnSampleWorker
  \/ SetRateBegin \/ SetRateEnd \/ CloseBegin \/ CloseFinish

Next ==
  \/ \E b \in Buf : Dispatch(b)
  \/ CbStep
  \/ \E c \in Callers : StopRead(c) \/ StopStep(c)
  \/ UwStep
  \/ SwStep
  \/ AppStep
  \/ SpuriousWakeup
  \/ Unplug

Spec == Init /\ [][Next]_vars

(***************************************************************************)
(* Fairness.  A thread that can run does; inside fl2k_stop_tx a call goes  *)
(* on; libusb reports every transfer that it can report infinitely often   *)
(* (bulk transfers of an endpoint finish in order, so that none is passed  *)
(* over for ever).  Nothing makes the application stop or close, wakes a   *)
(* waiter without a signal, unplugs the device or makes a call fail.       *)
(***************************************************************************)
Fairness ==
  /\ WF_vars(CbStep)
  /\ WF_vars(UwStep)
  /\ WF_vars(SwStep)
  /\ WF_vars(StopRead("callback"))
  /\ \A c \in Callers : WF_vars(StopStep(c))
  /\ WF_vars(SpawnUsbWorker \/ SpawnSampleWorker)
  /\ WF_vars(SetRateEnd)
  /\ WF_vars(CloseFinish)
  /\ \A b \in Buf : SF_vars(Dispatch(b))

FairSpec == Spec /\ Fairness

-----------------------------------------------------------------------------
(* Every variable holds a value the C program can give it. *)
TypeOK ==
  /\ async_status \in {"INACTIVE", "CANCELING", "RUNNING"}
  /\ async_cancel \in BOOLEAN
  /\ dev_lost \in BOOLEAN
  /\ underflow_cnt \in 0 .. CounterRange - 1
  /\ state \in [Buf -> {"EMPTY", "SUBMITTED", "FILLED"}]
  /\ seq \in [Buf -> Nat]
  /\ xfers \in {"none", "live", "freed"}
  /\ xfer_status \in [Buf -> {"COMPLETED", "CANCELLED", "ERROR"}]
  /\ inflight \subseteq Buf
  /\ cancelling \subseteq inflight
  /\ plugged \in BOOLEAN
  /\ uw \in {"unborn", "run", "events", "poll", "drain", "check", "cancel",
             "flush", "last_flush", "join", "finish", "done"}
  /\ uw_i \in 0 .. XferBufNum
  /\ uw = "flush" => uw_i \in Buf
  /\ next_status \in {"INACTIVE", "CANCELING"}
  /\ cb \in {"idle", "scan", "signal", "signal_underflow", "count", "error",
             "stop", "signal_error"}
  /\ cb_by \in {"usb", "app"}
  /\ cb_xfer \in Buf
  /\ cb_i \in 0 .. XferBufNum
  /\ next_buf \in Buf \cup {-1}
  /\ cb_r \in {"ok", "fail", "no_device"}
  /\ cb_base \in Nat
  /\ sw \in {"unborn", "top", "callback", "scan", "wait", "woken", "rescan",
             "convert", "publish", "exit", "done"}
  /\ sw_xfer \in 0 .. XferBufNum
  /\ sw \in {"convert", "publish"} => sw_xfer \in Buf
  /\ buf_cnt \in Nat
  /\ underflows \in 0 .. CounterRange - 1
  /\ reported \in 0 .. CounterRange - 1 \cup {Uninitialized}
  /\ app \in {"open", "spawn_usb", "spawn_sample", "started", "failed",
              "set_rate", "closing", "closed"}
  /\ stop \in [Callers -> {"idle", "cancel", "flag", "force"}]
  /\ stops \in 0 .. MaxStops
  /\ notified \in BOOLEAN

(* The buffer the sample worker converts a block into is its own: it is    *)
(* empty, libusb does not read from it and the callback that runs is not   *)
(* about to give it to libusb (fl2k_sample_worker against                  *)
(* _libusb_callback, which share the buffers without a lock).              *)
WriterExclusive ==
  sw \in {"convert", "publish"} =>
    /\ state[sw_xfer] = "EMPTY"
    /\ sw_xfer \notin inflight
    /\ cb = "scan" => sw_xfer \notin {cb_xfer, next_buf}

(* A block that waits in a FILLED buffer, or that libusb is sending, is    *)
(* not overwritten; a FILLED buffer is only ever given to libusb.          *)
BlockIsStable ==
  [][\A b \in Buf :
       /\ b \in inflight \/ state[b] = "FILLED" => seq'[b] = seq[b]
       /\ state[b] = "FILLED" => state'[b] \in {"FILLED", "SUBMITTED"}]_vars

(* When the callback has scanned all buffers, it has chosen a block no     *)
(* newer than any that was published before the scan began, and has found  *)
(* one if there was any: an underflow is real.                             *)
OldestFilledFirst ==
  ScanDone =>
    \A b \in Buf : state[b] = "FILLED" /\ seq[b] < cb_base =>
      next_buf >= 0 /\ seq[next_buf] <= seq[b]

(* Once the USB worker goes about cancelling transfers, none is submitted  *)
(* behind its back, so that the pass that finds nothing to cancel can be   *)
(* the last one.                                                           *)
NoSubmitWhileCancelling ==
  [][(uw \in {"check", "cancel", "flush", "last_flush", "join", "finish"})
        => inflight' \subseteq inflight]_vars

(* "We need to re-submit the transfer in any case": while streaming goes   *)
(* well, xfer_num transfers are in flight but for the one the callback     *)
(* holds.                                                                  *)
PipelineFull ==
  async_status = "RUNNING" =>
    Cardinality(inflight) = XferNum - IF cb = "scan" THEN 1 ELSE 0

(* The transfers and their buffers are freed only when libusb holds none.  *)
NoPendingAfterFree == xfers = "freed" => inflight = {}

(* When fl2k_close frees the device, no thread uses it any more. *)
NoUseAfterFree ==
  app = "closed" =>
    /\ uw \in {"unborn", "done"}
    /\ sw \in {"unborn", "done"}
    /\ \A c \in Callers : stop[c] = "idle"

(* Every block the application supplied is sent, unless streaming is       *)
(* stopped first, by the application or by a failing transfer.             *)
FilledIsSent ==
  \A b \in Buf :
    state[b] = "FILLED" ~> state[b] = "SUBMITTED" \/ async_status # "RUNNING"

(* The sample worker that found no empty buffer gets one while streaming   *)
(* goes on: a signal it misses between its scan and its wait is followed   *)
(* by another.                                                             *)
WaiterResumes == sw = "wait" ~> sw = "convert" \/ async_status # "RUNNING"

(* The cancel loop of the USB worker ends, although transfers and event    *)
(* handling may fail while it cancels.                                     *)
CancelLoopExits ==
  async_status = "CANCELING" ~> uw \in {"join", "finish", "done"} \/ ~Open

-----------------------------------------------------------------------------
(* The engine as the application sees it: the blocks in FILLED buffers     *)
(* wait, and a scan of the callback looks at them.                         *)
Waiting == {seq[b] : b \in {c \in Buf : state[c] = "FILLED"}}

Phase ==
  CASE async_status = "RUNNING" -> "running"
    [] async_status # "RUNNING" /\ app = "open" -> "idle"
    [] OTHER -> "stopped"

Stream == INSTANCE Fl2kStream
            WITH phase <- Phase, next <- Published, waiting <- Waiting,
                 looking <- cb = "scan",
                 snapshot <- IF cb = "scan" THEN {n \in Waiting : n < cb_base}
                                            ELSE {}

(* The engine (fl2k_sample_worker, _libusb_callback and fl2k_stop_tx,      *)
(* interleaved) implements the stream of Fl2kStream: blocks are numbered   *)
(* without gaps, sent at most once, never behind one that waited when the  *)
(* callback began to look, and not looked for after a stop.                *)
ImplementsStream == Stream!Spec

-----------------------------------------------------------------------------
(* What the documentation and the comments say, and the code does not do.  *)

(* "Cancel all pending asynchronous operations on the device"              *)
(* (fl2k_stop_tx): a stop brings the session to its end.  A sample worker  *)
(* that waits for an empty buffer is not woken by a stop, and the USB      *)
(* worker waits for it.                                                    *)
StopCompletes ==
  async_status = "CANCELING" ~> async_status = "INACTIVE" \/ ~Open

=============================================================================
