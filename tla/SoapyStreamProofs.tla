-------------------------- MODULE SoapyStreamProofs --------------------------
(***************************************************************************)
(* The ring of the SoapySDR driver, for every number of buffers, starts    *)
(* and polling threads and every schedule: the drain after a restart, and, *)
(* while it is not spoiled, what the callback hands out.                   *)
(*                                                                         *)
(* The theorems on the ring need Word % Buffs = 0: a drain adds buf_count, *)
(* which deactivateStream may have made negative, as a size_t, and the sum *)
(* is the right slot only when the number of buffers divides 2^64.  The    *)
(* default, four, does.  They need ~Abandons for the reason HandsOutOldest *)
(* gives.                                                                  *)
(***************************************************************************)
EXTENDS SoapyStream, Numbers, SequenceTheorems

USE StreamAssumption DEF ring, flags, write, session, library, callback,
                         blockVars

(* Counters that deactivateStream has spoiled are not used before the next *)
(* activateStream, and from then on resetBuffer announces their drain.     *)
Announced ==
  "stop" \in faults =>
    \/ wr \in {"closed", "inactive", "release"}
    \/ resetBuffer /\ wr \in {"idle", "acquire"}

(* It holds in every state. *)
LEMMA AnnouncedInvariant == Spec => []Announced
<1>1. Init => Announced
  BY DEF Init, Announced
<1>2. Announced /\ [Next]_vars => Announced'
  <2> SUFFICES ASSUME Announced, [Next]_vars PROVE Announced'
    OBVIOUS
  <2> USE DEF Announced
  <2>1. CASE Setup \/ Activate \/ Deactivate \/ ReleaseOne \/ StopTx
    BY <2>1 DEF Setup, Activate, Deactivate, ReleaseOne, StopTx
  <2>2. ASSUME NEW n \in Requests, WriteStream(n) PROVE Announced'
    BY <2>2 DEF WriteStream, Release
  <2>3. CASE AcquireReset
    BY <2>3 DEF AcquireReset, Drain
  <2>4. CASE AcquireEvent
    BY <2>4 DEF AcquireEvent, Drain
  <2>5. CASE AcquireResetDone \/ AcquireUnderflow \/ AcquireBuffer \/ Fill
               \/ AcquireTimeout
    BY <2>5 DEF AcquireResetDone, AcquireUnderflow, AcquireBuffer, Fill,
                AcquireTimeout
  <2>6. CASE Status \/ SetSampleRate
    BY <2>6 DEF Status, SetSampleRate
  <2>7. CASE CbUnderflow \/ CbCheck \/ CbTake \/ CbCount
    BY <2>7 DEF CbUnderflow, CbCheck, Called, CbTake, CbCount
  <2>8. CASE CbNotify
    BY <2>8 DEF CbNotify
  <2>9. CASE EngineUnderflow \/ DeviceLost \/ EngineEnd \/ UNCHANGED vars
    BY <2>9 DEF EngineUnderflow, DeviceLost, EngineEnd, vars
  <2> QED
    BY <2>1, <2>2, <2>3, <2>4, <2>5, <2>6, <2>7, <2>8, <2>9
    DEF Next, Acquire, CbStep
<1> QED BY <1>1, <1>2, PTL DEF Spec

(* After a restart acquireWriteBuffer drains the ring before a buffer is   *)
(* written, wherever setSampleRate, the callback and the loss of the       *)
(* device come between.                                                    *)
THEOREM DrainComesFirst == Spec => []DrainedBeforeWritten
<1>1. Announced => DrainedBeforeWritten
  BY DEF Announced, DrainedBeforeWritten
<1> QED BY <1>1, AnnouncedInvariant, PTL

-----------------------------------------------------------------------------
(* A writer waits only for an empty ring of a stream that is set up, or    *)
(* the notification of the buffer that came since is still to come.        *)
WakeupIsDue ==
  wr = "wait" => cb = "notify" \/ (buf_count = 0 /\ size = Buffs)

(* THEOREM: no notification is lost between the writer's test and its      *)
(* wait, whatever drains and starts came before: while it waits nothing is *)
(* free that it was not told of, and the next call of tx_callback that has *)
(* no underflow to report finds its test passed (acquireWriteBuffer,       *)
(* tx_callback).                                                           *)
THEOREM NoWakeupIsLost == Spec => []WakeupIsDue
<1> DEFINE Waking == WakeupIsDue /\ (wr # "closed" => size = Buffs)
<1>1. Init => Waking
  BY DEF Init, WakeupIsDue
<1>2. Waking /\ [Next]_vars => Waking'
  <2> SUFFICES ASSUME Waking, [Next]_vars PROVE Waking'
    OBVIOUS
  <2> USE DEF WakeupIsDue
  <2>1. CASE Setup \/ Activate \/ Deactivate \/ ReleaseOne \/ StopTx
    BY <2>1 DEF Setup, Activate, Deactivate, ReleaseOne, StopTx
  <2>2. ASSUME NEW n \in Requests, WriteStream(n) PROVE Waking'
    BY <2>2 DEF WriteStream
  <2>3. CASE AcquireReset \/ AcquireResetDone
    BY <2>3 DEF AcquireReset, AcquireResetDone
  <2>4. CASE AcquireEvent \/ AcquireUnderflow \/ AcquireTimeout
    BY <2>4 DEF AcquireEvent, AcquireUnderflow, AcquireTimeout
  <2>5. CASE AcquireBuffer \/ Fill
    BY <2>5 DEF AcquireBuffer, Fill
  <2>6. CASE Status \/ SetSampleRate
    BY <2>6 DEF Status, SetSampleRate
  <2>7. CASE CbUnderflow \/ CbCheck \/ CbTake \/ CbCount
    BY <2>7 DEF CbUnderflow, CbCheck, Called, CbTake, CbCount
  <2>8. CASE CbNotify
    BY <2>8 DEF CbNotify
  <2>9. CASE EngineUnderflow \/ DeviceLost \/ EngineEnd \/ UNCHANGED vars
    BY <2>9 DEF EngineUnderflow, DeviceLost, EngineEnd, vars
  <2> QED
    BY <2>1, <2>2, <2>3, <2>4, <2>5, <2>6, <2>7, <2>8, <2>9
    DEF Next, Acquire, CbStep
<1> QED BY <1>1, <1>2, PTL DEF Spec

-----------------------------------------------------------------------------
(* The types of what the ring is made of. *)
RingTypes ==
  /\ buf_head \in Slot /\ buf_tail \in Slot /\ buf_count \in Int
  /\ handle \in Slot /\ taken \in Slot
  /\ size \in {0, Buffs} /\ left \in 0 .. Buffs
  /\ bufferedElems \in 0 .. Elems /\ want \in 0 .. Elems
  /\ content \in [Slot -> Int] /\ blocks \in Int
  /\ queue \in Seq(Int)

(* What the program counters say of the rest: the buffers exist while a    *)
(* stream is set up, an element is left only in the buffer that is filled, *)
(* the library that is off calls and converts nothing, and deactivateStream*)
(* leaves its mark with the first buffer it releases.                      *)
Phases ==
  /\ size = 0 => wr = "closed"
  /\ wr \notin {"idle", "fill"} => bufferedElems = 0
  /\ wr = "fill" => bufferedElems # 0
  /\ engine = "off" => cb = "idle" /\ converting = None
  /\ wr = "release" /\ left # size => faults # {}

(* Buffers deactivateStream has released so far. *)
Released == IF wr = "release" THEN size - left ELSE 0

(* How far the free buffers reach round the ring from the head, the tail   *)
(* taken as the origin.                                                    *)
Ahead == buf_head - Holds + buf_count + Between + Released - buf_tail

(* RingAligned's second conjunct with no condition on the faults: modulo   *)
(* the ring, head and count agree with the tail even when the count is     *)
(* wrong.  It is what a drain needs to set the head right.                 *)
Aligned == Ahead % Buffs = 0

(* While nothing is spoiled every buffer is free, filled or on its way. *)
Counted ==
  size # 0 /\ faults = {} =>
    /\ Len(queue) + buf_count + Between = Buffs
    /\ buf_count >= Holds
    /\ cb = "take" => queue # <<>>

(* The writer's, the callback's and the library's buffers, by the ring's ends. *)
Held ==
  /\ bufferedElems # 0 => handle = (buf_head - 1) % Buffs
  /\ cb \in {"count", "notify"} => taken = (buf_tail - 1) % Buffs
  /\ converting # None => cb = "idle" /\ converting = (buf_tail - 1) % Buffs

(* The slot of the i-th filled buffer. *)
At(i) == (buf_tail + i - 1) % Buffs

(* The filled buffers hold the released blocks, oldest first. *)
Stored ==
  size # 0 /\ faults = {} =>
    \A i \in 1 .. Len(queue) : content[At(i)] = queue[i]

(* A step keeps the types. *)
LEMMA RingTypesStep ==
  ASSUME RingTypes, Phases, [Next]_vars PROVE RingTypes'
<1> USE DEF RingTypes, Phases
<1>0. /\ \A x \in Int : x % Buffs \in Slot
      /\ 0 \in Slot /\ Slot \subseteq Int
      /\ \A x \in Int : Append(queue, x) \in Seq(Int)
      /\ \A b \in Slot : content[b] \in Int
      /\ queue # <<>> => Tail(queue) \in Seq(Int)
      /\ <<>> \in Seq(Int)
      /\ \A x \in Int : x % Word \in Int
  <2>1. \A x \in Int : x % Buffs \in Slot
    BY ModDef DEF Slot
  <2>2. \A x \in Int : x % Word \in Int
    BY ModDef
  <2>3. queue # <<>> => Tail(queue) \in Seq(Int)
    BY HeadTailProperties
  <2>4. 0 \in Slot /\ Slot \subseteq Int
    BY DEF Slot
  <2> QED BY <2>1, <2>2, <2>3, <2>4, AppendProperties, EmptySeq
<1>1. CASE Setup
  BY <1>0, <1>1 DEF Setup
<1>2. CASE Activate \/ Deactivate \/ ReleaseOne \/ StopTx
  <2>1. CASE Activate
    BY <2>1 DEF Activate
  <2>2. CASE Deactivate
    BY <2>2 DEF Deactivate
  <2>3. CASE ReleaseOne
    BY <2>3 DEF ReleaseOne
  <2>4. CASE StopTx
    BY <2>4 DEF StopTx
  <2> QED BY <1>2, <2>1, <2>2, <2>3, <2>4
<1>3. ASSUME NEW n \in Requests, WriteStream(n) PROVE RingTypes'
  <2>1. content[handle] \in Int /\ Append(queue, content[handle]) \in Seq(Int)
    BY <1>0
  <2>2. n \in 0 .. Elems
    OBVIOUS
  <2>3. CASE resetBuffer /\ bufferedElems # 0
    <3>1. queue' = Append(queue, content[handle]) /\ buf_count' \in Int
          /\ bufferedElems' = 0
      BY <1>3, <2>3 DEF WriteStream, Release
    <3> QED BY <1>3, <2>1, <2>2, <3>1 DEF WriteStream
  <2>4. CASE ~(resetBuffer /\ bufferedElems # 0)
    BY <1>3, <2>2, <2>4 DEF WriteStream
  <2> QED BY <2>3, <2>4
<1>4. CASE AcquireReset
  <2>1. CASE resetBuffer
    <3>1. size = Buffs
      BY <1>4 DEF AcquireReset
    <3>2. (buf_head + buf_count) % Word \in Int
      BY <1>0
    <3>3. buf_head' \in Slot
      BY <1>0, <1>4, <2>1, <3>1, <3>2 DEF AcquireReset, Drain
    <3> QED BY <1>0, <1>4, <2>1, <3>3 DEF AcquireReset, Drain
  <2>2. CASE ~resetBuffer
    BY <1>4, <2>2 DEF AcquireReset
  <2> QED BY <2>1, <2>2
<1>5. CASE AcquireEvent
  <2>1. CASE underflowEvent
    <3>1. size = Buffs
      BY <1>5 DEF AcquireEvent
    <3>2. (buf_head + buf_count) % Word \in Int
      BY <1>0
    <3>3. buf_head' \in Slot
      BY <1>0, <1>5, <2>1, <3>1, <3>2 DEF AcquireEvent, Drain
    <3> QED BY <1>0, <1>5, <2>1, <3>3 DEF AcquireEvent, Drain
  <2>2. CASE ~underflowEvent
    BY <1>5, <2>2 DEF AcquireEvent
  <2> QED BY <2>1, <2>2
<1>6. CASE AcquireResetDone \/ AcquireUnderflow \/ AcquireTimeout
  BY <1>6 DEF AcquireResetDone, AcquireUnderflow, AcquireTimeout
<1>7. CASE AcquireBuffer
  <2>1. size = Buffs
    BY <1>7 DEF AcquireBuffer
  <2>2. (buf_head + 1) % Buffs \in Slot
    BY DEF Slot
  <2>3. buf_head' \in Slot /\ handle' \in Slot
    BY <1>7, <2>1, <2>2 DEF AcquireBuffer
  <2>4. bufferedElems' \in 0 .. Elems /\ blocks' \in Int
    BY <1>7 DEF AcquireBuffer
  <2> QED BY <1>7, <2>3, <2>4 DEF AcquireBuffer
<1>8. CASE Fill
  <2>1. content' \in [Slot -> Int]
    BY <1>8 DEF Fill, Written
  <2>2. Append(queue, content'[handle]) \in Seq(Int)
    BY <1>0, <2>1
  <2>3. bufferedElems' \in 0 .. Elems
    <3>1. bufferedElems' = IF want < bufferedElems THEN bufferedElems - want ELSE 0
      BY <1>8 DEF Fill
    <3>2. want \in Int /\ bufferedElems \in 0 .. Elems /\ want >= 0
      OBVIOUS
    <3> QED BY ONLY <3>1, <3>2, StreamAssumption
  <2>4. queue' \in Seq(Int) /\ buf_count' \in Int
    <3> DEFINE longer == Append(queue, content'[handle])
    <3>1. \/ buf_count' = buf_count - 1 /\ queue' = longer
          \/ buf_count' = buf_count /\ queue' = queue
      BY <1>8 DEF Fill
    <3>2. buf_count \in Int /\ queue \in Seq(Int) /\ longer \in Seq(Int)
      BY <2>2
    <3> HIDE DEF longer
    <3>3. queue' \in Seq(Int)
      BY ONLY <3>1, <3>2
    <3>4. buf_count' \in Int
      BY ONLY <3>1, <3>2
    <3> QED BY <3>3, <3>4
  <2>5. want' \in 0 .. Elems
    BY <1>8 DEF Fill
  <2>6. /\ buf_head' = buf_head /\ buf_tail' = buf_tail /\ handle' = handle
        /\ size' = size /\ left' = left /\ taken' = taken /\ blocks' = blocks
    BY <1>8 DEF Fill
  <2> QED BY <2>1, <2>3, <2>4, <2>5, <2>6
<1>9. CASE Status \/ SetSampleRate
  BY <1>9 DEF Status, SetSampleRate
<1>10. CASE CbUnderflow \/ CbCheck
  BY <1>10 DEF CbUnderflow, CbCheck, Called
<1>11. CASE CbTake
  <2>1. size = Buffs
    BY <1>11 DEF CbTake
  <2>2. (buf_tail + 1) % Buffs \in Slot
    BY DEF Slot
  <2> QED BY <1>0, <1>11, <2>1, <2>2 DEF CbTake
<1>12. CASE CbCount
  BY <1>12 DEF CbCount
<1>14. CASE CbNotify
  BY <1>0, <1>14 DEF CbNotify
<1>13. CASE EngineUnderflow \/ DeviceLost \/ EngineEnd \/ UNCHANGED vars
  BY <1>13 DEF EngineUnderflow, DeviceLost, EngineEnd, vars
<1> QED
  BY <1>1, <1>2, <1>3, <1>4, <1>5, <1>6, <1>7, <1>8, <1>9, <1>10, <1>11, <1>12,
     <1>13, <1>14
  DEF Next, Acquire, CbStep

(* A step keeps the phases. *)
LEMMA PhasesStep ==
  ASSUME ~Abandons, RingTypes, Phases, [Next]_vars PROVE Phases'
<1> USE DEF RingTypes, Phases
<1>1. CASE Setup
  BY <1>1 DEF Setup
<1>2. CASE Activate \/ Deactivate \/ ReleaseOne \/ StopTx
  BY <1>2 DEF Activate, Deactivate, ReleaseOne, StopTx
<1>3. ASSUME NEW n \in Requests, WriteStream(n) PROVE Phases'
  BY <1>3 DEF WriteStream, Release
<1>4. CASE AcquireReset
  BY <1>4 DEF AcquireReset, Drain
<1>5. CASE AcquireEvent
  BY <1>5 DEF AcquireEvent, Drain
<1>6. CASE AcquireResetDone \/ AcquireUnderflow \/ AcquireTimeout
  BY <1>6 DEF AcquireResetDone, AcquireUnderflow, AcquireTimeout
<1>7. CASE AcquireBuffer
  BY <1>7 DEF AcquireBuffer
<1>8. CASE Fill
  BY <1>8 DEF Fill
<1>9. CASE Status \/ SetSampleRate
  BY <1>9 DEF Status, SetSampleRate
<1>10. CASE CbUnderflow \/ CbCheck
  BY <1>10 DEF CbUnderflow, CbCheck, Called
<1>11. CASE CbTake \/ CbCount \/ CbNotify
  BY <1>11 DEF CbTake, CbCount, CbNotify
<1>13. CASE EngineUnderflow \/ DeviceLost \/ EngineEnd \/ UNCHANGED vars
  BY <1>13 DEF EngineUnderflow, DeviceLost, EngineEnd, vars
<1> QED
  BY <1>1, <1>2, <1>3, <1>4, <1>5, <1>6, <1>7, <1>8, <1>9, <1>10, <1>11, <1>13
  DEF Next, Acquire, CbStep

(* A step moves Ahead by nothing or by one turn; a drain sets it right.    *)
LEMMA AlignedStep ==
  ASSUME ~Abandons, Word % Buffs = 0, RingTypes, Phases, Phases', Aligned, [Next]_vars
  PROVE  Aligned'
<1> USE DEF RingTypes, Phases, Aligned, Holds, Between, Released
<1>0. /\ Ahead \in Int /\ Slot \subseteq Int
      /\ \A t \in Slot : (t + 1) % Buffs = IF t + 1 = Buffs THEN 0 ELSE t + 1
  <2>1. Slot \subseteq Int
    BY DEF Slot
  <2>2. Ahead \in Int
    BY <2>1 DEF Ahead
  <2> QED BY <2>1, <2>2, ModStep DEF Slot
<1>a. ASSUME Ahead' = Ahead PROVE Aligned'
  BY <1>a
<1>b. ASSUME Ahead' = Ahead - Buffs \/ Ahead' = Ahead + Buffs PROVE Aligned'
  <2>1. (Ahead + Buffs) % Buffs = Ahead % Buffs /\ (Ahead - Buffs) % Buffs = Ahead % Buffs
    BY <1>0, ModTurn
  <2> QED BY <1>b, <2>1
<1>1. CASE Setup
  <2>1. Ahead' = Buffs
    BY <1>1 DEF Setup, Ahead
  <2> QED BY <2>1
<1>2. CASE Activate \/ Deactivate \/ ReleaseOne
  <2>1. CASE Activate
    BY <1>a, <2>1 DEF Activate, Ahead
  <2>2. CASE Deactivate
    BY <1>a, <2>2 DEF Deactivate, Ahead
  <2>3. CASE ReleaseOne
    BY <1>0, <1>a, <2>3 DEF ReleaseOne, Ahead
  <2> QED BY <1>2, <2>1, <2>2, <2>3
<1>3. CASE StopTx
  BY <1>0, <1>b, <1>3 DEF StopTx, Ahead
<1>4. ASSUME NEW n \in Requests, WriteStream(n) PROVE Aligned'
  <2>1. CASE resetBuffer /\ bufferedElems # 0
    <3>1. Holds' = Holds - 1 /\ buf_count' = buf_count - 1 /\ Holds \in Int
      BY <1>4, <2>1 DEF WriteStream, Release
    <3>2. /\ Between' = Between /\ Released' = Released /\ Released = 0
          /\ buf_head' = buf_head /\ buf_tail' = buf_tail /\ Between \in Int
      BY <1>4 DEF WriteStream
    <3>3. buf_head \in Int /\ buf_tail \in Int /\ buf_count \in Int
      BY <1>0
    <3>4. Ahead' = Ahead
      BY ONLY <3>1, <3>2, <3>3 DEF Ahead
    <3> QED BY <1>a, <3>4
  <2>2. CASE ~(resetBuffer /\ bufferedElems # 0)
    BY <1>4, <1>a, <2>2 DEF WriteStream, Ahead
  <2> QED BY <2>1, <2>2
<1>d. ASSUME Drain, size = Buffs, Holds = 0, Holds' = 0, wr # "release", wr' # "release",
             cb' = cb, buf_tail' = buf_tail, size' = size
      PROVE  Aligned'
  <2> DEFINE s == buf_head + buf_count
  <2>1. s \in Int
    BY <1>0
  <2>2. buf_head' = (s % Word) % Buffs
    BY <1>d DEF Drain
  <2>3. Ahead = s + (Between - buf_tail) /\ Between - buf_tail \in Int
    BY <1>0, <1>d DEF Ahead
  <2>4. buf_count' = Buffs
    BY <1>d DEF Drain
  <2>5. Ahead' = buf_head' + (Between - buf_tail) + Buffs
    <3>1. Released' = 0 /\ Between' = Between /\ buf_head' \in Int /\ buf_tail \in Int
          /\ Between \in Int
      BY <1>0, <1>d, <2>2
    <3>2. Ahead' = buf_head' - 0 + Buffs + Between + 0 - buf_tail
      BY <1>d, <2>4, <3>1 DEF Ahead
    <3> QED BY ONLY <3>1, <3>2, StreamAssumption
  <2> HIDE DEF s, Between
  <2>6. (s % Word) % Buffs = s % Buffs
    <3>1. Word \in Nat \ {0} /\ Buffs \in Nat \ {0} /\ Word % Buffs = 0
      OBVIOUS
    <3> QED BY ONLY <2>1, <3>1, ModMod
  <2>7. s % Buffs \in 0 .. Buffs - 1 /\ (s % Buffs) % Buffs = s % Buffs
    <3>1. s % Buffs \in 0 .. Buffs - 1
      BY ONLY <2>1, StreamAssumption, ModDef
    <3> DEFINE r == s % Buffs
    <3> HIDE DEF r
    <3>2. r % Buffs = r
      BY ONLY <3>1, StreamAssumption, ModSmall DEF r
    <3> QED BY <3>1, <3>2 DEF r
  <2> DEFINE h == buf_head'
             c == Between - buf_tail
             e == h + c
  <2>8. h \in Int /\ h % Buffs = s % Buffs /\ c \in Int /\ e \in Int
    BY <2>2, <2>3, <2>6, <2>7
  <2> HIDE DEF h, c
  <2>9. e % Buffs = (s + c) % Buffs
    BY ONLY <2>1, <2>8, StreamAssumption, ModAdd
  <2> HIDE DEF e
  <2>10. (e + Buffs) % Buffs = e % Buffs
    BY ONLY <2>8, StreamAssumption, ModTurn
  <2>11. Ahead' = e + Buffs /\ Ahead = s + c
    BY <2>3, <2>5 DEF h, c, e
  <2> QED BY <2>9, <2>10, <2>11
<1>5. CASE AcquireReset
  <2>1. CASE resetBuffer
    BY <1>5, <2>1, <1>d DEF AcquireReset
  <2>2. CASE ~resetBuffer
    BY <1>5, <2>2, <1>a DEF AcquireReset, Ahead
  <2> QED BY <2>1, <2>2
<1>6. CASE AcquireEvent
  <2>1. CASE underflowEvent
    BY <1>6, <2>1, <1>d DEF AcquireEvent
  <2>2. CASE ~underflowEvent
    BY <1>6, <2>2, <1>a DEF AcquireEvent, Ahead
  <2> QED BY <2>1, <2>2
<1>7. CASE AcquireResetDone \/ AcquireUnderflow \/ AcquireTimeout
  BY <1>7, <1>a DEF AcquireResetDone, AcquireUnderflow, AcquireTimeout, Ahead
<1>8. CASE AcquireBuffer
  <2>1. size = Buffs /\ bufferedElems = 0
    BY <1>8 DEF AcquireBuffer
  <2>2. CASE buf_count # 0
    <3>1. Holds' = 1 /\ Holds = 0
      BY <1>8, <2>1, <2>2 DEF AcquireBuffer
    <3>2. buf_head' = IF buf_head + 1 = Buffs THEN 0 ELSE buf_head + 1
      BY <1>0, <1>8, <2>1, <2>2 DEF AcquireBuffer
    <3>3. /\ buf_count' = buf_count /\ Between' = Between
          /\ Released' = Released /\ buf_tail' = buf_tail
      BY <1>8, <2>2 DEF AcquireBuffer
    <3>4. /\ buf_head \in Int /\ buf_count \in Int /\ buf_tail \in Int
          /\ Between \in Int /\ Released \in Int
      BY <1>0
    <3> HIDE DEF Holds, Between, Released
    <3>5. Ahead' = Ahead \/ Ahead' = Ahead - Buffs
      BY ONLY <3>1, <3>2, <3>3, <3>4, StreamAssumption DEF Ahead
    <3> QED BY <1>a, <1>b, <3>5
  <2>3. CASE buf_count = 0
    BY <1>8, <2>1, <2>3, <1>a DEF AcquireBuffer, Ahead
  <2> QED BY <2>2, <2>3
<1>9. CASE Fill
  <2>1. CASE bufferedElems' = 0
    <3>1. Holds' = Holds - 1 /\ buf_count' = buf_count - 1 /\ Holds \in Int
      BY <1>9, <2>1 DEF Fill
    <3>2. /\ Between' = Between /\ Released' = Released /\ Released = 0
          /\ buf_head' = buf_head /\ buf_tail' = buf_tail /\ Between \in Int
      BY <1>9 DEF Fill
    <3>3. buf_head \in Int /\ buf_tail \in Int /\ buf_count \in Int
      BY <1>0
    <3>4. Ahead' = Ahead
      BY ONLY <3>1, <3>2, <3>3 DEF Ahead
    <3> QED BY <1>a, <3>4
  <2>2. CASE bufferedElems' # 0
    BY <1>0, <1>9, <2>2, <1>a DEF Fill, Ahead
  <2> QED BY <2>1, <2>2
<1>10. CASE Status \/ SetSampleRate
  BY <1>10, <1>a DEF Status, SetSampleRate, Ahead
<1>11. CASE CbUnderflow \/ CbCheck
  BY <1>11, <1>a DEF CbUnderflow, CbCheck, Called, Ahead
<1>12. CASE CbTake
  <2>1. size = Buffs
    BY <1>12 DEF CbTake
  <2>2. buf_tail' = IF buf_tail + 1 = Buffs THEN 0 ELSE buf_tail + 1
    BY <1>0, <1>12, <2>1 DEF CbTake
  <2>3. Ahead' = Ahead \/ Ahead' = Ahead + Buffs
    <3>1. /\ Between = 0 /\ Between' = 1 /\ Released' = Released /\ Released \in Int
          /\ Holds' = Holds /\ Holds \in Int
          /\ buf_head' = buf_head /\ buf_count' = buf_count
      BY <1>12 DEF CbTake
    <3>2. buf_head \in Int /\ buf_tail \in Int /\ buf_count \in Int
      BY <1>0
    <3> QED BY ONLY <2>2, <3>1, <3>2, StreamAssumption DEF Ahead
  <2> QED BY <1>a, <1>b, <2>3
<1>13. CASE CbCount \/ CbNotify
  <2>1. CASE CbCount
    BY <1>0, <2>1, <1>a DEF CbCount, Ahead
  <2>2. CASE CbNotify
    BY <2>2, <1>a DEF CbNotify, Ahead
  <2> QED BY <1>13, <2>1, <2>2
<1>14. CASE EngineUnderflow \/ DeviceLost \/ EngineEnd \/ UNCHANGED vars
  BY <1>14, <1>a DEF EngineUnderflow, DeviceLost, EngineEnd, vars, Ahead
<1> QED
  BY <1>1, <1>2, <1>3, <1>4, <1>5, <1>6, <1>7, <1>8, <1>9, <1>10, <1>11, <1>12,
     <1>13, <1>14
  DEF Next, Acquire, CbStep

(* A step counts a buffer on one side only. *)
LEMMA CountedStep ==
  ASSUME RingTypes, Phases, Phases', Counted, [Next]_vars PROVE Counted'
<1> USE DEF RingTypes, Phases, Counted, Holds, Between
<1>0. /\ Len(queue) \in Nat /\ Len(<<>>) = 0
      /\ queue # <<>> => Len(Tail(queue)) = Len(queue) - 1 /\ Len(queue) > 0
      /\ queue = <<>> => Len(queue) = 0
      /\ \A x \in Int : /\ Len(Append(queue, x)) = Len(queue) + 1
                        /\ Append(queue, x) # <<>>
  <2>1. queue \in Seq(Int)
    OBVIOUS
  <2>2. Len(queue) \in Nat /\ Len(<<>>) = 0 /\ (queue = <<>> => Len(queue) = 0)
    BY ONLY <2>1, EmptySeq, LenProperties
  <2>3. queue # <<>> => Len(Tail(queue)) = Len(queue) - 1 /\ Len(queue) > 0
    BY ONLY <2>1, <2>2, HeadTailProperties, EmptySeq
  <2>4. \A x \in Int : /\ Len(Append(queue, x)) = Len(queue) + 1
                       /\ Append(queue, x) # <<>>
    BY ONLY <2>1, AppendProperties
  <2> QED BY ONLY <2>2, <2>3, <2>4
<1>1. CASE Setup
  BY <1>0, <1>1 DEF Setup
<1>2. CASE Activate \/ Deactivate \/ ReleaseOne \/ StopTx
  <2>1. CASE Activate
    BY <2>1 DEF Activate
  <2>2. CASE Deactivate
    BY <2>2 DEF Deactivate
  <2>3. CASE ReleaseOne
    BY <2>3 DEF ReleaseOne
  <2>4. CASE StopTx
    BY <2>4 DEF StopTx
  <2> QED BY <1>2, <2>1, <2>2, <2>3, <2>4
<1>3. ASSUME NEW n \in Requests, WriteStream(n) PROVE Counted'
  <2>1. CASE resetBuffer /\ bufferedElems # 0
    <3>1. content[handle] \in Int
      OBVIOUS
    <3>2. Len(queue') = Len(queue) + 1 /\ queue' # <<>>
      BY <1>0, <1>3, <2>1, <3>1 DEF WriteStream, Release
    <3>3. Holds' = 0 /\ Holds = 1 /\ buf_count' = buf_count - 1
      BY <1>3, <2>1 DEF WriteStream, Release
    <3>4. Between' = Between /\ size' = size /\ faults' = faults /\ cb' = cb
      BY <1>3 DEF WriteStream
    <3>5. Len(queue) \in Nat /\ buf_count \in Int
      BY <1>0
    <3>6. Counted /\ Between \in Int
      OBVIOUS
    <3> HIDE DEF Holds, Between
    <3> QED BY ONLY <3>2, <3>3, <3>4, <3>5, <3>6 DEF Counted
  <2>2. CASE ~(resetBuffer /\ bufferedElems # 0)
    BY <1>3, <2>2 DEF WriteStream
  <2> QED BY <2>1, <2>2
<1>d. ASSUME Drain, size = Buffs, Holds' = 0, cb' = cb, size' = size PROVE Counted'
  <2>1. CASE cb \in {"take", "count"}
    <3>1. "race" \in faults'
      BY <1>d, <2>1 DEF Drain
    <3> QED BY <3>1
  <2>2. CASE cb \notin {"take", "count"}
    <3>1. Len(queue') = 0 /\ buf_count' = Buffs /\ Between' = 0 /\ cb' # "take"
      BY <1>0, <1>d, <2>2 DEF Drain
    <3> QED BY <1>d, <3>1
  <2> QED BY <2>1, <2>2
<1>4. CASE AcquireReset
  <2>1. CASE resetBuffer
    BY <1>4, <2>1, <1>d DEF AcquireReset
  <2>2. CASE ~resetBuffer
    BY <1>4, <2>2 DEF AcquireReset
  <2> QED BY <2>1, <2>2
<1>5. CASE AcquireEvent
  <2>1. CASE underflowEvent
    BY <1>5, <2>1, <1>d DEF AcquireEvent
  <2>2. CASE ~underflowEvent
    BY <1>5, <2>2 DEF AcquireEvent
  <2> QED BY <2>1, <2>2
<1>6. CASE AcquireResetDone \/ AcquireUnderflow \/ AcquireTimeout
  BY <1>6 DEF AcquireResetDone, AcquireUnderflow, AcquireTimeout
<1>7. CASE AcquireBuffer
  BY <1>7 DEF AcquireBuffer
<1>8. CASE Fill
  <2>1. content'[handle] \in Int
    BY <1>8 DEF Fill, Written
  <2>2. CASE bufferedElems' = 0
    <3>2. Len(queue') = Len(queue) + 1 /\ queue' # <<>>
      BY <1>0, <1>8, <2>1, <2>2 DEF Fill
    <3>3. Holds' = 0 /\ Holds = 1 /\ buf_count' = buf_count - 1
      BY <1>8, <2>2 DEF Fill
    <3>4. Between' = Between /\ size' = size /\ faults' = faults /\ cb' = cb
      BY <1>8 DEF Fill
    <3>5. Len(queue) \in Nat /\ buf_count \in Int
      BY <1>0
    <3>6. Counted /\ Between \in Int
      OBVIOUS
    <3> HIDE DEF Holds, Between
    <3> QED BY ONLY <3>2, <3>3, <3>4, <3>5, <3>6 DEF Counted
  <2>3. CASE bufferedElems' # 0
    BY <1>8, <2>3 DEF Fill
  <2> QED BY <2>2, <2>3
<1>9. CASE Status \/ SetSampleRate
  BY <1>9 DEF Status, SetSampleRate
<1>10. CASE CbUnderflow
  BY <1>10 DEF CbUnderflow, Called
<1>11. CASE CbCheck
  BY <1>0, <1>11 DEF CbCheck, Called
<1>12. CASE CbTake
  BY <1>0, <1>12 DEF CbTake
<1>13. CASE CbCount
  BY <1>13 DEF CbCount
<1>14. CASE CbNotify
  BY <1>14 DEF CbNotify
<1>15. CASE EngineUnderflow \/ DeviceLost \/ EngineEnd \/ UNCHANGED vars
  BY <1>15 DEF EngineUnderflow, DeviceLost, EngineEnd, vars
<1> QED
  BY <1>1, <1>2, <1>3, <1>4, <1>5, <1>6, <1>7, <1>8, <1>9, <1>10, <1>11, <1>12,
     <1>13, <1>14, <1>15
  DEF Next, Acquire, CbStep

(* A step that takes a buffer moves the end it came from past it. *)
LEMMA HeldStep ==
  ASSUME RingTypes, Phases, Phases', Held, [Next]_vars PROVE Held'
<1> USE DEF RingTypes, Phases, Held
<1>0. ASSUME NEW t \in Slot
      PROVE  t # None /\ (((t + 1) % Buffs) - 1) % Buffs = t
  <2>1. t \in 0 .. Buffs - 1
    BY DEF Slot
  <2>2. (((t + 1) % Buffs) - 1) % Buffs = t
    BY ONLY <2>1, StreamAssumption, ModStep
  <2> QED BY <2>1, <2>2 DEF None
<1>1. CASE Setup
  BY <1>1 DEF Setup
<1>2. CASE Activate \/ Deactivate \/ ReleaseOne \/ StopTx
  BY <1>2 DEF Activate, Deactivate, ReleaseOne, StopTx
<1>3. ASSUME NEW n \in Requests, WriteStream(n) PROVE Held'
  BY <1>3 DEF WriteStream, Release
<1>4. CASE AcquireReset
  BY <1>4 DEF AcquireReset, Drain
<1>5. CASE AcquireEvent
  BY <1>5 DEF AcquireEvent, Drain
<1>6. CASE AcquireResetDone \/ AcquireUnderflow \/ AcquireTimeout
  BY <1>6 DEF AcquireResetDone, AcquireUnderflow, AcquireTimeout
<1>7. CASE AcquireBuffer
  <2>1. size = Buffs
    BY <1>7 DEF AcquireBuffer
  <2>2. CASE buf_count # 0
    <3>1. handle' = buf_head /\ buf_head' = (buf_head + 1) % Buffs
      BY <1>7, <2>1, <2>2 DEF AcquireBuffer
    <3>2. handle' = (buf_head' - 1) % Buffs
      BY <1>0, <3>1
    <3> QED BY <1>7, <3>2 DEF AcquireBuffer
  <2>3. CASE buf_count = 0
    BY <1>7, <2>3 DEF AcquireBuffer
  <2> QED BY <2>2, <2>3
<1>8. CASE Fill
  BY <1>8 DEF Fill
<1>9. CASE Status \/ SetSampleRate
  BY <1>9 DEF Status, SetSampleRate
<1>10. CASE CbUnderflow \/ CbCheck
  BY <1>10 DEF CbUnderflow, CbCheck, Called
<1>11. CASE CbTake
  <2>1. taken' = buf_tail /\ buf_tail' = (buf_tail + 1) % Buffs
    BY <1>11 DEF CbTake
  <2>2. taken' = (buf_tail' - 1) % Buffs
    BY <1>0, <2>1
  <2> QED BY <1>11, <2>2 DEF CbTake
<1>12. CASE CbCount
  BY <1>12 DEF CbCount
<1>13. CASE CbNotify
  BY <1>13 DEF CbNotify
<1>14. CASE EngineUnderflow \/ DeviceLost \/ EngineEnd \/ UNCHANGED vars
  BY <1>14 DEF EngineUnderflow, DeviceLost, EngineEnd, vars
<1> QED
  BY <1>1, <1>2, <1>3, <1>4, <1>5, <1>6, <1>7, <1>8, <1>9, <1>10, <1>11, <1>12,
     <1>13, <1>14
  DEF Next, Acquire, CbStep

(* The buffer the writer holds is the one behind the filled ones. *)
LEMMA HeldIsNext ==
  ASSUME RingTypes, Phases, Aligned, Counted, Held,
         size # 0, faults = {}, bufferedElems # 0
  PROVE  /\ Len(queue) < Buffs
         /\ handle = (buf_tail + Len(queue)) % Buffs
<1>1. /\ Len(queue) + buf_count + Between = Buffs
      /\ Holds = 1 /\ buf_count >= 1
  BY DEF Counted, Holds
<1>2. Released = 0
  BY DEF RingTypes, Phases, Released
<1>3. Between \in {0, 1} /\ Len(queue) \in Nat /\ buf_head \in Int /\ buf_tail \in Int
      /\ buf_count \in Int
  BY LenProperties DEF Between, RingTypes, Slot
<1> DEFINE a == buf_head - 1
           b == buf_tail + Len(queue)
<1>4. a \in Int /\ b \in Int
  BY <1>3
<1>5. (a - b) + Buffs = Ahead
  BY <1>1, <1>2, <1>3 DEF Ahead
<1>6. a % Buffs = b % Buffs
  <2> DEFINE d == a - b
             z == 0
  <2>1. d \in Int /\ a = d + b /\ z \in Int /\ z + b = b
    BY <1>4
  <2>2. (d + Buffs) % Buffs = 0
    BY <1>5 DEF Aligned
  <2> HIDE DEF a, b, d
  <2>3. d % Buffs = 0
    BY ONLY <2>1, <2>2, StreamAssumption, ModTurn
  <2>4. d % Buffs = z % Buffs
    BY ONLY <2>3, StreamAssumption, ModSmall
  <2>a. d \in Int /\ z \in Int
    BY <2>1
  <2> HIDE DEF z
  <2>5. (d + b) % Buffs = (z + b) % Buffs
    BY ONLY <1>4, <2>a, <2>4, StreamAssumption, ModAdd
  <2> QED BY <1>4, <2>1, <2>5
<1>7. handle = a % Buffs
  BY DEF Held
<1> QED BY <1>1, <1>3, <1>6, <1>7

(* A step writes no filled buffer, and both ends of the queue follow the   *)
(* tail and the head.                                                      *)
LEMMA StoredStep ==
  ASSUME RingTypes, RingTypes', Phases, Aligned, Counted, Held, Stored, [Next]_vars
  PROVE  Stored'
<1> USE DEF RingTypes, Phases, Stored
<1>1. CASE Setup
  BY <1>1 DEF Setup
<1>2. CASE Activate \/ Deactivate \/ ReleaseOne \/ StopTx
  BY <1>2 DEF Activate, Deactivate, ReleaseOne, StopTx, At
<1>a. ASSUME size # 0, faults = {}, bufferedElems # 0,
             NEW i \in 1 .. Len(queue)
      PROVE  At(i) # handle /\ At(i) \in Slot
  <2>1. Len(queue) < Buffs /\ handle = (buf_tail + Len(queue)) % Buffs
    BY <1>a, HeldIsNext
  <2>2. Len(queue) \in Nat /\ buf_tail \in Int /\ i \in Int
    BY LenProperties DEF Slot
  <2> DEFINE a == buf_tail + i - 1
             b == buf_tail + Len(queue)
  <2>3. a \in Int /\ b \in Int /\ b - a < Buffs /\ a - b < Buffs /\ a # b
    BY ONLY <2>1, <2>2, i \in 1 .. Len(queue), StreamAssumption
  <2> HIDE DEF a, b
  <2>4. a % Buffs # b % Buffs
    BY ONLY <2>3, StreamAssumption, ModClose
  <2>5. a % Buffs \in 0 .. Buffs - 1
    BY ONLY <2>3, StreamAssumption, ModDef
  <2> QED BY <2>1, <2>4, <2>5 DEF a, b, At, Slot
<1>b. ASSUME size # 0, faults = {}, bufferedElems # 0, buf_tail' = buf_tail,
             content' = content \/ content' = Written,
             queue' = Append(queue, content'[handle])
      PROVE  \A i \in 1 .. Len(queue') : content'[At(i)'] = queue'[i]
  <2>1. content'[handle] \in Int
    OBVIOUS
  <2>2. /\ Len(queue') = Len(queue) + 1 /\ Len(queue) \in Nat
        /\ \A i \in 1 .. Len(queue) : queue'[i] = queue[i]
        /\ queue'[Len(queue) + 1] = content'[handle]
    BY <1>b, <2>1, AppendProperties, LenProperties
  <2>3. \A i \in 1 .. Len(queue) : content'[At(i)] = content[At(i)]
    <3> SUFFICES ASSUME NEW i \in 1 .. Len(queue)
                 PROVE  content'[At(i)] = content[At(i)]
      OBVIOUS
    <3>1. At(i) # handle /\ At(i) \in Slot
      BY <1>a, <1>b
    <3> HIDE DEF At
    <3> QED BY <1>b, <3>1 DEF Written
  <2>5. handle = At(Len(queue) + 1)
    <3>1. (buf_tail + (Len(queue) + 1)) - 1 = buf_tail + Len(queue)
      BY <2>2 DEF Slot
    <3> QED BY <1>b, <3>1, HeldIsNext DEF At
  <2> SUFFICES ASSUME NEW i \in 1 .. Len(queue') PROVE content'[At(i)] = queue'[i]
    BY <1>b DEF At
  <2>6. CASE i = Len(queue) + 1
    BY <2>2, <2>5, <2>6
  <2>7. CASE i \in 1 .. Len(queue)
    <3>1. content[At(i)] = queue[i]
      BY <1>b, <2>7
    <3> QED BY <2>2, <2>3, <2>7, <3>1
  <2>8. i = Len(queue) + 1 \/ i \in 1 .. Len(queue)
    BY ONLY <2>2, i \in 1 .. Len(queue')
  <2> QED BY <2>6, <2>7, <2>8
<1>3. ASSUME NEW n \in Requests, WriteStream(n) PROVE Stored'
  <2>1. CASE resetBuffer /\ bufferedElems # 0
    <3>1. /\ content' = content /\ buf_tail' = buf_tail /\ size' = size
          /\ faults' = faults /\ queue' = Append(queue, content'[handle])
      BY <1>3, <2>1 DEF WriteStream, Release
    <3> QED BY <1>b, <2>1, <3>1
  <2>2. CASE ~(resetBuffer /\ bufferedElems # 0)
    BY <1>3, <2>2 DEF WriteStream, At
  <2> QED BY <2>1, <2>2
<1>4. CASE AcquireReset
  BY <1>4 DEF AcquireReset, Drain, At
<1>5. CASE AcquireEvent
  BY <1>5 DEF AcquireEvent, Drain, At
<1>6. CASE AcquireResetDone \/ AcquireUnderflow \/ AcquireTimeout
  BY <1>6 DEF AcquireResetDone, AcquireUnderflow, AcquireTimeout, At
<1>7. CASE AcquireBuffer
  BY <1>7 DEF AcquireBuffer, At
<1>8. CASE Fill
  <2>1. bufferedElems # 0 /\ buf_tail' = buf_tail /\ size' = size /\ faults' = faults
        /\ content' = Written
    BY <1>8 DEF Fill
  <2>2. CASE bufferedElems' = 0
    <3>1. queue' = Append(queue, content'[handle])
      BY <1>8, <2>2 DEF Fill
    <3> QED BY <1>b, <2>1, <3>1
  <2>3. CASE bufferedElems' # 0
    <3>1. queue' = queue
      BY <1>8, <2>3 DEF Fill
    <3>2. ASSUME size # 0, faults = {}, NEW i \in 1 .. Len(queue)
          PROVE  content'[At(i)] = queue[i]
      <4>1. At(i) # handle /\ At(i) \in Slot
        BY <1>a, <2>1, <3>2
      <4>2. content'[At(i)] = content[At(i)]
        BY <2>1, <4>1 DEF Written
      <4> QED BY <3>2, <4>2
    <3> QED BY <2>1, <3>1, <3>2 DEF At
  <2> QED BY <2>2, <2>3
<1>9. CASE Status \/ SetSampleRate
  BY <1>9 DEF Status, SetSampleRate, At
<1>10. CASE CbUnderflow \/ CbCheck
  BY <1>10 DEF CbUnderflow, CbCheck, Called, At
<1>11. CASE CbTake
  <2> SUFFICES ASSUME size # 0, faults = {}, NEW i \in 1 .. Len(queue')
               PROVE  content'[At(i)'] = queue'[i]
    BY <1>11 DEF CbTake
  <2>1. queue # <<>> /\ queue' = Tail(queue)
    BY <1>11 DEF CbTake, Counted
  <2>2. /\ Len(queue') = Len(queue) - 1 /\ Len(queue) \in Nat
        /\ queue'[i] = queue[i + 1] /\ i \in Int /\ i + 1 \in 1 .. Len(queue)
    BY <2>1, HeadTailProperties, LenProperties
  <2> DEFINE a == buf_tail'
             b == buf_tail + 1
             c == i - 1
  <2>3. a = b % Buffs /\ b \in Int /\ c \in Int
    BY <1>11, <2>2 DEF CbTake, Slot
  <2>4. At(i)' = (a + c) % Buffs /\ At(i + 1) = (b + c) % Buffs
    BY <2>2, <2>3 DEF At, Slot
  <2> HIDE DEF a, b, c
  <2>5. a \in 0 .. Buffs - 1
    BY ONLY <2>3, StreamAssumption, ModDef
  <2>6. a % Buffs = b % Buffs
    BY ONLY <2>3, <2>5, StreamAssumption, ModSmall
  <2>9. a \in Int /\ b \in Int /\ c \in Int
    BY <2>3, <2>5
  <2>7. (a + c) % Buffs = (b + c) % Buffs
    BY ONLY <2>6, <2>9, StreamAssumption, ModAdd
  <2>8. content' = content
    BY <1>11 DEF CbTake
  <2> QED BY <2>2, <2>4, <2>7, <2>8
<1>12. CASE CbCount \/ CbNotify
  BY <1>12 DEF CbCount, CbNotify, At
<1>13. CASE EngineUnderflow \/ DeviceLost \/ EngineEnd \/ UNCHANGED vars
  BY <1>13 DEF EngineUnderflow, DeviceLost, EngineEnd, vars, At
<1> QED
  BY <1>1, <1>2, <1>3, <1>4, <1>5, <1>6, <1>7, <1>8, <1>9, <1>10, <1>11, <1>12,
     <1>13
  DEF Next, Acquire, CbStep

(* The inductive invariant. *)
RingInv ==
  /\ RingTypes /\ Phases
  /\ Aligned /\ Counted /\ Held /\ Stored

(* It holds in every state. *)
LEMMA RingInvariant ==
  ASSUME ~Abandons, Word % Buffs = 0 PROVE Spec => []RingInv
<1>1. Init => RingInv
  <2> SUFFICES ASSUME Init PROVE RingInv
    OBVIOUS
  <2>1. RingTypes
    BY EmptySeq DEF Init, RingTypes, Slot
  <2>2. Phases /\ Counted /\ Held /\ Stored
    BY DEF Init, Phases, Counted, Held, Stored
  <2>3. Ahead = 0
    BY DEF Init, Ahead, Holds, Between, Released
  <2>4. Aligned
    BY <2>3, ModSmall DEF Aligned
  <2> QED BY <2>1, <2>2, <2>4 DEF RingInv
<1>2. RingInv /\ [Next]_vars => RingInv'
  <2> SUFFICES ASSUME RingInv, [Next]_vars PROVE RingInv'
    OBVIOUS
  <2>1. RingTypes /\ Phases /\ Aligned /\ Counted /\ Held /\ Stored
    BY DEF RingInv
  <2>2. RingTypes' /\ Phases'
    BY <2>1, RingTypesStep, PhasesStep
  <2>3. Aligned' /\ Counted' /\ Held' /\ Stored'
    BY <2>1, <2>2, AlignedStep, CountedStep, HeldStep, StoredStep
  <2> QED BY <2>2, <2>3 DEF RingInv
<1> QED BY <1>1, <1>2, PTL DEF Spec

(* The ends of the ring and the count of free buffers agree in every       *)
(* state, though acquireWriteBuffer, releaseWriteBuffer and tx_callback    *)
(* have no lock in common.                                                 *)
THEOREM RingStaysAligned ==
  ASSUME ~Abandons, Word % Buffs = 0 PROVE Spec => []RingAligned
<1>1. RingInv => RingAligned
  <2> SUFFICES ASSUME RingInv, size # 0, faults = {}
               PROVE  /\ Len(queue) + buf_count + Between = Buffs
                      /\ (buf_head - Holds + buf_count + Between - buf_tail) % Buffs = 0
    BY DEF RingAligned
  <2>1. Released = 0
    BY DEF RingInv, RingTypes, Phases, Released
  <2>2. buf_head - Holds + buf_count + Between - buf_tail = Ahead
    BY <2>1 DEF RingInv, RingTypes, Ahead, Holds, Between, Slot
  <2> QED BY <2>2 DEF RingInv, Aligned, Counted
<1> QED BY <1>1, RingInvariant, PTL

(* tx_callback hands out the oldest block that was released and not        *)
(* drained.                                                                *)
THEOREM OldestIsHandedOut ==
  ASSUME ~Abandons, Word % Buffs = 0 PROVE Spec => HandsOutOldest
<1> DEFINE Oldest ==
      cb = "take" /\ cb' = "count" /\ faults = {} =>
        queue # <<>> /\ content[taken'] = Head(queue)
<1>1. RingInv /\ [Next]_vars => [Oldest]_vars
  <2> SUFFICES ASSUME RingInv, Next, cb = "take", cb' = "count", faults = {}
               PROVE  queue # <<>> /\ content[taken'] = Head(queue)
    OBVIOUS
  <2>1. CbTake
    <3> USE DEF Next, Acquire, CbStep
    <3>1. CASE Setup \/ Activate \/ Deactivate \/ ReleaseOne \/ StopTx
      BY <3>1 DEF Setup, Activate, Deactivate, ReleaseOne, StopTx
    <3>2. CASE \E n \in Requests : WriteStream(n)
      BY <3>2 DEF WriteStream
    <3>3. CASE AcquireReset \/ AcquireResetDone \/ AcquireEvent \/ AcquireUnderflow
      BY <3>3 DEF AcquireReset, AcquireResetDone, AcquireEvent, AcquireUnderflow
    <3>4. CASE AcquireBuffer \/ Fill \/ AcquireTimeout \/ Status \/ SetSampleRate
      BY <3>4 DEF AcquireBuffer, Fill, AcquireTimeout, Status, SetSampleRate
    <3>5. CASE CbUnderflow \/ CbCheck \/ CbCount \/ CbNotify
      BY <3>5 DEF CbUnderflow, CbCheck, Called, CbCount, CbNotify
    <3>6. CASE EngineUnderflow \/ DeviceLost \/ EngineEnd
      BY <3>6 DEF EngineUnderflow, DeviceLost, EngineEnd
    <3> QED BY <3>1, <3>2, <3>3, <3>4, <3>5, <3>6
  <2>2. size # 0 /\ taken' = buf_tail
    BY <2>1 DEF CbTake
  <2>3. queue # <<>>
    BY <2>2 DEF RingInv, Counted
  <2>4. Len(queue) \in Nat \ {0} /\ buf_tail \in 0 .. Buffs - 1
    BY <2>3, EmptySeq DEF RingInv, RingTypes, Slot
  <2>5. content[At(1)] = queue[1]
    BY <2>2, <2>4 DEF RingInv, Stored
  <2>6. At(1) = buf_tail
    <3>1. buf_tail + 1 - 1 = buf_tail
      BY <2>4
    <3>2. buf_tail % Buffs = buf_tail
      BY ONLY <2>4, StreamAssumption, ModSmall
    <3> QED BY <3>1, <3>2 DEF At
  <2>7. Head(queue) = queue[1]
    BY <2>3 DEF RingInv, RingTypes
  <2> QED BY <2>2, <2>3, <2>5, <2>6, <2>7
<1> QED BY <1>1, RingInvariant, PTL DEF Spec, HandsOutOldest

(* acquireWriteBuffer hands the writer a buffer the library still converts *)
(* only when all the others are filled.                                    *)
THEOREM WriterStaysBehind ==
  ASSUME ~Abandons, Word % Buffs = 0 PROVE Spec => []WriterBehindDriver
<1>1. RingInv => WriterBehindDriver
  <2> SUFFICES ASSUME RingInv, faults = {}, wr = "fill", handle = converting
               PROVE  Len(queue) >= Buffs - 1
    BY DEF WriterBehindDriver
  <2> USE DEF RingInv
  <2>1. size # 0 /\ bufferedElems # 0
    BY DEF Phases
  <2>2. Len(queue) < Buffs /\ handle = (buf_tail + Len(queue)) % Buffs
    BY <2>1, HeldIsNext
  <2>3. converting = (buf_tail - 1) % Buffs
    BY DEF Held, RingTypes, Slot, None
  <2>4. Len(queue) \in Nat /\ buf_tail \in Int
    BY LenProperties DEF RingTypes, Slot
  <2> DEFINE a == buf_tail + Len(queue)
             b == buf_tail - 1
  <2>5. a \in Int /\ b \in Int /\ a # b /\ b - a < Buffs /\ a - b = Len(queue) + 1
    BY <2>4
  <2>6. a % Buffs = b % Buffs
    BY <2>2, <2>3
  <2> HIDE DEF a, b
  <2>7. ~(a - b < Buffs)
    BY ONLY <2>5, <2>6, StreamAssumption, ModClose
  <2> QED BY <2>4, <2>5, <2>7
<1> QED BY <1>1, RingInvariant, PTL

=============================================================================
