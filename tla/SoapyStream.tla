----------------------------- MODULE SoapyStream -----------------------------
(***************************************************************************)
(* The stream of the SoapySDR driver (src/SoapySDR/Streaming.cpp): a ring  *)
(* of buffers between the application's thread, which writes, and          *)
(* tx_callback, which the library's sample worker calls for the next one.  *)
(* Two more threads may poll readStreamStatus and set the sample rate.     *)
(*                                                                         *)
(* buf_count counts the free buffers.  The free ones begin at buf_head and *)
(* the filled ones at buf_tail; buf_head belongs to the writer, buf_tail   *)
(* to the callback.  The library (Fl2kTx) is reduced to its calls.         *)
(***************************************************************************)
EXTENDS Integers, Sequences

CONSTANTS
  Buffs,      \* asyncBuffs, the number of buffers of the ring
  Word,       \* 2^64 in the code: the size of a size_t
  Elems,      \* elements of one buffer
  Requests,   \* numbers of elements a call of writeStream may ask for
  Formats,    \* the formats the application may choose
  MaxBlocks,  \* bound: buffers filled
  MaxStarts,  \* bound: calls of activateStream
  MaxRates,   \* bound: calls of setSampleRate
  Underflows, \* TRUE: the library may run out of blocks and count underflows
  Abandons    \* TRUE: the application may deactivate the stream while the
              \* buffer it writes is not full

AllFormats == {"F32", "S16", "S8", "U16", "U8"}

ASSUME StreamAssumption ==
  /\ Buffs \in Nat \ {0}
  /\ Word \in Nat /\ Word > Buffs
  /\ Elems \in Nat \ {0}
  /\ Requests \subseteq 1 .. Elems
  /\ Formats \subseteq AllFormats
  /\ MaxBlocks \in Nat /\ MaxStarts \in Nat /\ MaxRates \in Nat
  /\ Underflows \in BOOLEAN /\ Abandons \in BOOLEAN

Slot == 0 .. Buffs - 1
None == -1

VARIABLES
  buf_head, buf_tail, buf_count, resetBuffer, underflowEvent,
  bufferedElems,  \* elements left in the buffer the writer holds
  handle,         \* _currentHandle
  size,           \* _buffs.size()
  txFormat,
  wr,             \* program counter of the application's thread
  want,           \* numElems of the running writeStream
  left,           \* buffers deactivateStream has still to release
  closing,        \* deactivateStream was called by closeStream
  starts, rates,  \* calls so far
  st,             \* program counter of readStreamStatus
  cb,             \* program counter of tx_callback
  taken,          \* the buffer tx_callback hands out
  engine,         \* the library: "off", "on", "last" (one more call may come)
                  \* or "ending"
  underflowed,    \* data_info->underflow_cnt > 0; the count is a total
  converting,     \* the buffer the library converts, or None
  content,        \* history: number of the block written into a buffer
  blocks,         \* history: number of the last block begun
  queue,          \* history: blocks released, neither handed out nor drained
  faults          \* history: why the ring's counters may be wrong

ring    == <<buf_head, buf_count, buf_tail>>
flags   == <<resetBuffer, underflowEvent>>
write   == <<bufferedElems, handle, want>>
session == <<size, txFormat, left, closing, starts>>
library == <<engine, underflowed, converting>>
callback == <<cb, taken>>
blockVars == <<content, blocks, queue>>
vars == <<ring, flags, write, session, wr, rates, st, callback, library,
          blockVars, faults>>

(* The constructor, which leaves the atomics _buf_count and                *)
(* _underflowEvent uninitialized; setupStream sets the first.              *)
Init ==
  /\ buf_head = 0 /\ buf_tail = 0 /\ buf_count = 0
  /\ resetBuffer = FALSE /\ underflowEvent \in BOOLEAN
  /\ bufferedElems = 0 /\ handle = 0 /\ want = 0
  /\ size = 0 /\ txFormat = "F32" /\ left = 0 /\ closing = FALSE /\ starts = 0
  /\ wr = "closed" /\ rates = 0 /\ st = "idle"
  /\ cb = "idle" /\ taken = 0
  /\ engine = "off" /\ underflowed = FALSE /\ converting = None
  /\ content = [b \in Slot |-> 0] /\ blocks = 0 /\ queue = <<>>
  /\ faults = {}

-----------------------------------------------------------------------------
(* setupStream, activateStream, deactivateStream, closeStream              *)

(* The buffers are allocated; nothing else of an earlier stream is reset.  *)
Setup ==
  /\ wr = "closed" /\ engine = "off"
  /\ txFormat' \in Formats
  /\ buf_tail' = 0 /\ buf_head' = 0 /\ buf_count' = Buffs
  /\ size' = Buffs
  /\ content' = [b \in Slot |-> 0] /\ queue' = <<>>
  /\ wr' = "inactive"
  /\ UNCHANGED <<flags, write, left, closing, starts, rates, st, callback,
                 library, blocks, faults>>

(* Mutation: the old data is not marked for the drain. *)
ActivateNoReset ==
  /\ wr = "inactive" /\ engine = "off" /\ starts < MaxStarts
  /\ bufferedElems' = 0
  /\ engine' \in {"on", "off"}
  /\ starts' = starts + 1
  /\ wr' = "idle"
  /\ UNCHANGED <<ring, flags, handle, want, size, txFormat, left, closing,
                 rates, st, callback, underflowed, converting, blockVars,
                 faults>>

(* The application is taken to wait for the end of the last session, which *)
(* nothing in the interface tells it of.  fl2k_start_tx may fail.  A       *)
(* buffer the writer held is forgotten, not released.                      *)
Activate ==
  /\ wr = "inactive" /\ engine = "off" /\ starts < MaxStarts
  /\ resetBuffer' = TRUE
  /\ bufferedElems' = 0
  /\ engine' \in {"on", "off"}
  /\ starts' = starts + 1
  /\ wr' = "idle"
  /\ UNCHANGED <<ring, underflowEvent, handle, want, size, txFormat, left,
                 closing, rates, st, callback, underflowed, converting,
                 blockVars, faults>>

(* Every buffer is released, whether the writer holds it or not.           *)
Deactivate ==
  /\ wr \in {"idle", "inactive"}
  /\ Abandons \/ bufferedElems = 0
  /\ closing' \in {c \in BOOLEAN : wr = "inactive" => c}
  /\ left' = size
  /\ wr' = "release"
  /\ UNCHANGED <<ring, flags, write, size, txFormat, starts, rates, st,
                 callback, library, blockVars, faults>>

ReleaseOne ==
  /\ wr = "release" /\ left > 0
  /\ buf_count' = buf_count - 1
  /\ left' = left - 1
  /\ faults' = faults \cup {"stop"}
  /\ UNCHANGED <<buf_head, buf_tail, flags, write, size, txFormat, closing,
                 starts, wr, rates, st, callback, library, blockVars>>

(* fl2k_stop_tx; closeStream then frees the buffers. *)
StopTx ==
  /\ wr = "release" /\ left = 0
  /\ engine' = IF engine = "on" THEN "last" ELSE engine
  /\ size' = IF closing THEN 0 ELSE size
  /\ wr' = IF closing THEN "closed" ELSE "inactive"
  /\ UNCHANGED <<ring, flags, write, txFormat, left, closing, starts, rates,
                 st, callback, underflowed, converting, blockVars, faults>>

-----------------------------------------------------------------------------
(* writeStream and acquireWriteBuffer *)

(* releaseWriteBuffer, of the block the writer has filled so far. *)
Release ==
  /\ buf_count' = buf_count - 1
  /\ queue' = Append(queue, content[handle])

(* "Drop the remainder of the buffer on reset", or go on with it, or get a *)
(* buffer.                                                                 *)
WriteStream(n) ==
  /\ wr = "idle"
  /\ blocks < MaxBlocks \/ (bufferedElems # 0 /\ ~resetBuffer)
  /\ want' = n
  /\ IF resetBuffer /\ bufferedElems # 0
       THEN bufferedElems' = 0 /\ Release
       ELSE UNCHANGED <<bufferedElems, buf_count, queue>>
  /\ wr' = IF bufferedElems' = 0 THEN "acquire" ELSE "fill"
  /\ UNCHANGED <<buf_head, buf_tail, flags, handle, session, rates, st,
                 callback, library, content, blocks, faults>>

(* Mutation: the counter is reset, the head stays. *)
DrainCountOnly ==
  /\ buf_head' = buf_head
  /\ buf_count' = size
  /\ queue' = <<>>
  /\ faults' = IF cb \in {"take", "count"}
                 THEN (faults \ {"stop"}) \cup {"race"}
                 ELSE faults \ {"stop", "race"}

(* (_buf_head + _buf_count.exchange(_buffs.size())) % _buffs.size(), where *)
(* a negative count is converted to a size_t.                              *)
Drain ==
  /\ buf_head' = ((buf_head + buf_count) % Word) % size
  /\ buf_count' = size
  /\ queue' = <<>>
  /\ faults' = IF cb \in {"take", "count"}
                 THEN (faults \ {"stop"}) \cup {"race"}
                 ELSE faults \ {"stop", "race"}

AcquireReset ==
  /\ wr = "acquire"
  /\ IF resetBuffer THEN Drain /\ wr' = "reset"
                    ELSE /\ wr' = "event"
                         /\ UNCHANGED <<buf_head, buf_count, queue, faults>>
  /\ UNCHANGED <<buf_tail, flags, write, session, rates, st, callback, library,
                 content, blocks>>

AcquireResetDone ==
  /\ wr \in {"reset", "reset_event"}
  /\ IF wr = "reset"
       THEN resetBuffer' = FALSE /\ wr' = "reset_event" /\ UNCHANGED underflowEvent
       ELSE underflowEvent' = FALSE /\ wr' = "event" /\ UNCHANGED resetBuffer
  /\ UNCHANGED <<ring, write, session, rates, st, callback, library, blockVars,
                 faults>>

AcquireEvent ==
  /\ wr = "event"
  /\ IF underflowEvent THEN Drain /\ wr' = "underflow"
                       ELSE /\ wr' = "lock"
                            /\ UNCHANGED <<buf_head, buf_count, queue, faults>>
  /\ UNCHANGED <<buf_tail, flags, write, session, rates, st, callback, library,
                 content, blocks>>

(* The call returns SOAPY_SDR_UNDERFLOW. *)
AcquireUnderflow ==
  /\ wr = "underflow"
  /\ underflowEvent' = FALSE
  /\ wr' = "idle"
  /\ UNCHANGED <<ring, resetBuffer, write, session, rates, st, callback,
                 library, blockVars, faults>>

(* Mutation: the head is not advanced. *)
AcquireBufferAgain ==
  /\ wr = "lock"
  /\ IF buf_count # 0
       THEN /\ handle' = buf_head
            /\ bufferedElems' = Elems
            /\ blocks' = blocks + 1
            /\ wr' = "fill"
       ELSE /\ wr' = "wait"
            /\ UNCHANGED <<handle, bufferedElems, blocks>>
  /\ UNCHANGED <<ring, flags, want, session, rates, st, callback, library,
                 content, queue, faults>>

(* Under the mutex: the predicate of wait_for, then the extraction. *)
AcquireBuffer ==
  /\ wr = "lock"
  /\ IF buf_count # 0
       THEN /\ handle' = buf_head
            /\ buf_head' = (buf_head + 1) % size
            /\ bufferedElems' = Elems
            /\ blocks' = blocks + 1
            /\ wr' = "fill"
       ELSE /\ wr' = "wait"
            /\ UNCHANGED <<handle, buf_head, bufferedElems, blocks>>
  /\ UNCHANGED <<buf_tail, buf_count, flags, want, session, rates, st,
                 callback, library, content, queue, faults>>

(* The timeout: the predicate decides once more. *)
AcquireTimeout ==
  /\ wr = "wait"
  /\ wr' = IF buf_count # 0 THEN "lock" ELSE "idle"
  /\ UNCHANGED <<ring, flags, write, session, rates, st, callback, library,
                 blockVars, faults>>

(* writeStreamForChannel: the 8-bit formats copy nothing. *)
Written == IF txFormat \in {"F32", "S16", "U16"}
             THEN [content EXCEPT ![handle] = blocks] ELSE content

(* The samples are in the buffer; a full one is released. *)
Fill ==
  /\ wr = "fill"
  /\ content' = Written
  /\ bufferedElems' = IF want < bufferedElems THEN bufferedElems - want ELSE 0
  /\ IF bufferedElems' = 0
       THEN buf_count' = buf_count - 1 /\ queue' = Append(queue, content'[handle])
       ELSE UNCHANGED <<buf_count, queue>>
  /\ want' = 0
  /\ wr' = "idle"
  /\ UNCHANGED <<buf_head, buf_tail, flags, handle, session, rates, st,
                 callback, library, blocks, faults>>

-----------------------------------------------------------------------------
(* Other threads of the application: readStreamStatus and setSampleRate    *)

(* The event is seen, then cleared and reported. *)
Status ==
  /\ IF st = "idle"
       THEN underflowEvent /\ st' = "clear" /\ UNCHANGED underflowEvent
       ELSE underflowEvent' = FALSE /\ st' = "idle"
  /\ UNCHANGED <<ring, resetBuffer, write, session, wr, rates, callback,
                 library, blockVars, faults>>

SetSampleRate ==
  /\ wr # "closed" /\ rates < MaxRates
  /\ resetBuffer' = TRUE
  /\ rates' = rates + 1
  /\ UNCHANGED <<ring, underflowEvent, write, session, wr, st, callback,
                 library, blockVars, faults>>

-----------------------------------------------------------------------------
(* tx_callback and the library *)

(* The library is done with the last buffer and calls for the next one.    *)
Called ==
  /\ engine \in {"on", "last"} /\ cb = "idle"
  /\ engine' = IF engine = "last" THEN "ending" ELSE engine
  /\ converting' = None
  /\ UNCHANGED <<ring, resetBuffer, write, session, wr, rates, st, taken,
                 underflowed, blockVars, faults>>

(* _buf_count >= _buffs.size() compares as size_t, in which a negative     *)
(* count is large; nothing is handed out.                                  *)
CbUnderflow ==
  /\ Called
  /\ underflowed \/ buf_count < 0 \/ buf_count >= size
  /\ underflowEvent' = TRUE
  /\ UNCHANGED cb

(* Mutation: any number of free buffers will do. *)
CbCheckAny ==
  /\ Called
  /\ ~underflowed
  /\ cb' = "take"
  /\ UNCHANGED underflowEvent

CbCheck ==
  /\ Called
  /\ ~underflowed /\ buf_count \in 0 .. size - 1
  /\ cb' = "take"
  /\ UNCHANGED underflowEvent

(* The buffer at the tail is handed out.  With the buffers cleared by      *)
(* closeStream the modulus would be 0: undefined, here the end.            *)
CbTake ==
  /\ cb = "take" /\ size # 0
  /\ taken' = buf_tail
  /\ buf_tail' = (buf_tail + 1) % size
  /\ queue' = IF queue = <<>> THEN queue ELSE Tail(queue)
  /\ cb' = "count"
  /\ UNCHANGED <<buf_head, buf_count, flags, write, session, wr, rates, st,
                 library, content, blocks, faults>>

(* Under the mutex, which the writer gives up only in its wait. *)
CbCount ==
  /\ cb = "count"
  /\ buf_count' = buf_count + 1
  /\ cb' = "notify"
  /\ UNCHANGED <<buf_head, buf_tail, flags, write, session, wr, rates, st,
                 taken, library, blockVars, faults>>

(* Mutation: nobody is notified. *)
CbNotifyNobody ==
  /\ cb = "notify"
  /\ cb' = "idle"
  /\ converting' = taken
  /\ taken' = 0
  /\ UNCHANGED <<ring, flags, write, session, wr, rates, st, engine,
                 underflowed, blockVars, faults>>

(* notify_one; the callback returns and the library converts the buffer,   *)
(* which counts as free already.                                           *)
CbNotify ==
  /\ cb = "notify"
  /\ wr' = IF wr = "wait" THEN "lock" ELSE wr
  /\ cb' = "idle"
  /\ converting' = taken
  /\ taken' = 0
  /\ UNCHANGED <<ring, flags, write, session, rates, st, engine,
                 underflowed, blockVars, faults>>

(* The library counts its first underflow, loses the device, which it      *)
(* reports in a last call tx_callback takes for any other, or ends.        *)
EngineUnderflow ==
  /\ Underflows /\ engine = "on"
  /\ underflowed' = TRUE
  /\ UNCHANGED <<ring, flags, write, session, wr, rates, st, callback, engine,
                 converting, blockVars, faults>>

DeviceLost ==
  /\ engine = "on"
  /\ engine' = "last"
  /\ UNCHANGED <<ring, flags, write, session, wr, rates, st, callback,
                 underflowed, converting, blockVars, faults>>

EngineEnd ==
  /\ engine \in {"last", "ending"} /\ cb = "idle"
  /\ engine' = "off"
  /\ converting' = None
  /\ UNCHANGED <<ring, flags, write, session, wr, rates, st, callback,
                 underflowed, blockVars, faults>>

-----------------------------------------------------------------------------
CbStep == CbUnderflow \/ CbCheck \/ CbTake \/ CbCount \/ CbNotify

Acquire ==
  \/ AcquireReset \/ AcquireResetDone \/ AcquireEvent \/ AcquireUnderflow
  \/ AcquireBuffer \/ Fill

Next ==
  \/ Setup \/ Activate \/ Deactivate \/ ReleaseOne \/ StopTx
  \/ \E n \in Requests : WriteStream(n)
  \/ Acquire \/ AcquireTimeout
  \/ Status \/ SetSampleRate
  \/ CbStep
  \/ EngineUnderflow \/ DeviceLost \/ EngineEnd

Spec == Init /\ [][Next]_vars

(* The library's sample worker and a writer inside a call run; nothing     *)
(* makes the application write, stop or poll, and no timeout is due.       *)
Fairness == WF_vars(CbStep) /\ WF_vars(Acquire)

FairSpec == Spec /\ Fairness

-----------------------------------------------------------------------------
(* Is the writer between acquireWriteBuffer and releaseWriteBuffer? *)
Holds == IF wr = "fill" \/ bufferedElems # 0 THEN 1 ELSE 0

(* Is tx_callback between the tail's step and the count's? *)
Between == IF cb = "count" THEN 1 ELSE 0

(* "Give the driver the next filled buffer" (tx_callback): the buffer      *)
(* handed out holds the oldest block that was released and not drained.    *)
(* So it is unless a drain came between the callback's test and its count, *)
(* or the stream was deactivated and not drained since.  With Abandons it  *)
(* is not: "Drop the remainder of the buffer on reset" (writeStream) never *)
(* happens after a restart, because activateStream forgets the elements    *)
(* left, and buf_head stays one buffer ahead.                              *)
HandsOutOldest ==
  [][cb = "take" /\ cb' = "count" /\ faults = {} =>
       queue # <<>> /\ content[taken'] = Head(queue)]_vars

(* The two ends of the ring and the count of free buffers agree, but for   *)
(* the buffer between the callback's steps (acquireWriteBuffer,            *)
(* releaseWriteBuffer and tx_callback, which have no lock in common).      *)
RingAligned ==
  size # 0 /\ faults = {} =>
    /\ Len(queue) + buf_count + Between = Buffs
    /\ (buf_head - Holds + buf_count + Between - buf_tail) % Buffs = 0

(* After a restart the drain comes before the first write: the counters,   *)
(* off since deactivateStream released what nobody held, are set right.    *)
DrainedBeforeWritten == wr = "fill" => "stop" \notin faults

(* tx_callback declares a buffer free before the library has converted it: *)
(* the writer gets it early, but only when all others are filled.          *)
WriterBehindDriver ==
  faults = {} /\ wr = "fill" /\ handle = converting
    => Len(queue) >= Buffs - 1

(* A writer that waits for a buffer is woken: the count is incremented     *)
(* under the mutex, the notification follows it.                           *)
WriterIsWoken ==
  wr = "wait" ~> wr # "wait" \/ underflowed \/ engine # "on" \/ faults # {}

=============================================================================
