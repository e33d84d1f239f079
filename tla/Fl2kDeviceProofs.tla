-------------------------- MODULE Fl2kDeviceProofs --------------------------
(***************************************************************************)
(* The calls on a device, for every number of devices, buffers, polls and  *)
(* calls: what an open leaves behind, whose completion an I2C call takes,  *)
(* and what is freed.                                                      *)
(***************************************************************************)
EXTENDS Fl2kDevice, Numbers, FiniteSetTheorems

USE DeviceAssumption DEF busVars, i2cVars, bufVars

AtOpen == {"err", "open", "detach", "claim0", "claim1", "init"}

AtI2c == {"i2c_data", "i2c_read", "i2c_start", "i2c_poll", "i2c_done",
          "i2c_fail"}

(* What the I2C calls leave alone, and where they take the process. *)
LEMMA I2cFrame ==
  ASSUME I2cBegin \/ I2cPrepare \/ I2cStart \/ DeviceCompletes \/ I2cPoll
           \/ I2cEnd
  PROVE  /\ UNCHANGED <<busVars, bufVars>>
         /\ UNCHANGED pc \/ {pc, pc'} \subseteq {"idle"} \cup AtI2c
         /\ UNCHANGED pc \/ dev # 0 \/ pc \in AtI2c
<1> USE DEF AtI2c
<1>1. CASE I2cBegin
  BY <1>1 DEF I2cBegin
<1>2. CASE I2cPrepare
  BY <1>2 DEF I2cPrepare
<1>3. CASE I2cStart
  BY <1>3 DEF I2cStart
<1>4. CASE DeviceCompletes
  BY <1>4 DEF DeviceCompletes
<1>5. CASE I2cPoll
  <2>1. pc = "i2c_poll" /\ pc' \in AtI2c /\ UNCHANGED <<busVars, bufVars>>
    BY <1>5 DEF I2cPoll
  <2> QED BY <2>1
<1>6. CASE I2cEnd
  BY <1>6 DEF I2cEnd
<1> QED BY <1>1, <1>2, <1>3, <1>4, <1>5, <1>6

(* How far an open has come, for its own handle and claims.                *)
Opening ==
  /\ pc \in AtOpen => dev = 0 /\ opens # 0 /\ contexts = 1
  /\ pc \notin AtOpen => contexts = IF dev = 0 THEN 0 ELSE 1
  /\ dev = 0 => pc \in AtOpen \cup {"idle"}
  /\ pc \in {"detach", "claim0", "claim1", "init"} => opens \in handles
  /\ pc \in {"claim0", "claim1", "init"} => (driver => query = -1)
  /\ pc \in {"claim1", "init"} => <<opens, 0>> \in claimed
  /\ pc = "init" => <<opens, 1>> \in claimed
  /\ dev # 0 => /\ dev \in handles /\ (driver => query = -1)
                /\ <<dev, 0>> \in claimed /\ <<dev, 1>> \in claimed

(* Without a failed open there is one handle at most, which has all claims. *)
Clean ==
  ~broken =>
    /\ dev # 0 => handles = {dev} /\ \A c \in claimed : c[1] = dev
    /\ dev = 0 /\ pc \in {"idle", "open", "err"} => handles = {}
    /\ pc \in {"detach", "claim0", "claim1", "init"} => handles = {opens}
    /\ dev = 0 /\ pc \notin {"claim1", "init"} => claimed = {}
    /\ pc \in {"claim1", "init"} => \A c \in claimed : c[1] = opens

OpenTypes ==
  /\ opens \in Nat /\ dev \in Nat /\ contexts \in Nat
  /\ claimed \subseteq Nat \X Interfaces

OpenInv == OpenTypes /\ Opening /\ Clean

(* They hold in every state. *)
LEMMA OpenInvariant == Spec => []OpenInv
<1>1. Init => OpenInv
  BY DEF Init, Interfaces, OpenInv, OpenTypes, Opening, Clean, AtOpen
<1>2. OpenInv /\ [Next]_vars => OpenInv'
  <2> SUFFICES ASSUME OpenInv, [Next]_vars PROVE OpenInv'
    OBVIOUS
  <2> USE DEF OpenInv, OpenTypes, Opening, Clean, AtOpen
  <2>1. CASE OpenBegin
    BY <2>1 DEF OpenBegin
  <2>2. CASE OpenHandle
    BY <2>2 DEF OpenHandle
  <2>3. CASE OpenDetach
    BY <2>3 DEF OpenDetach
  <2>4. CASE OpenClaim
    BY <2>4 DEF OpenClaim, Interfaces
  <2>5. CASE OpenInit
    BY <2>5 DEF OpenInit
  <2>6. CASE OpenFailed
    BY <2>6 DEF OpenFailed
  <2>7. CASE fl2k_close
    BY <2>7 DEF fl2k_close, Interfaces
  <2>8. CASE Plug
    BY <2>8 DEF Plug
  <2>9. CASE I2cBegin \/ I2cPrepare \/ I2cStart \/ DeviceCompletes \/ I2cPoll
               \/ I2cEnd
    <3>1. UNCHANGED busVars
          /\ (UNCHANGED pc \/ {pc, pc'} \subseteq {"idle"} \cup AtI2c)
          /\ (UNCHANGED pc \/ dev # 0 \/ pc \in AtI2c)
      BY <2>9, I2cFrame
    <3> QED BY <3>1 DEF AtI2c
  <2>11. CASE AllocZeroCopy \/ AllocHeap
    BY <2>11 DEF AllocZeroCopy, AllocHeap
  <2>12. CASE Finish \/ FreeBuffers \/ UNCHANGED vars
    BY <2>12 DEF Finish, FreeBuffers, vars
  <2> QED
    BY <2>1, <2>2, <2>3, <2>4, <2>5, <2>6, <2>7, <2>8, <2>9, <2>11, <2>12
       DEF Next
<1> QED BY <1>1, <1>2, PTL DEF Spec

(* fl2k_open succeeds only with both interfaces claimed by the new handle, *)
(* whatever earlier opens have left claimed, and with the mass storage     *)
(* driver away unless the query for it failed.                             *)
THEOREM OpenDeviceIsReady == Spec => []OpenIsReady
<1>1. OpenInv => OpenIsReady
  BY DEF OpenInv, OpenTypes, Opening, OpenIsReady, Interfaces
<1> QED BY <1>1, OpenInvariant, PTL

(* Between the calls nothing is left of a device that is not open, unless  *)
(* an open failed after libusb_open.                                       *)
THEOREM ClosedLeavesNothing == Spec => []NothingLeftBehind
<1>1. OpenInv => NothingLeftBehind
  BY DEF OpenInv, Opening, Clean, NothingLeftBehind, Interfaces, AtOpen
<1> QED BY <1>1, OpenInvariant, PTL

-----------------------------------------------------------------------------
(* While an I2C call polls, the bus works for this call or for one that    *)
(* was given up and pending when it started; bit 31, which the start       *)
(* cleared, was set for one of these.                                      *)
Polling ==
  /\ pc \in {"i2c_poll", "i2c_done"} =>
       /\ pending \subseteq late \cup {calls}
       /\ register.done => register.owner \in late \cup {calls}
  /\ pc = "i2c_done" /\ ~short => register.done

Registers == [done : BOOLEAN, owner : Nat, repeat : BOOLEAN]

PollTypes == /\ register \in Registers /\ pending \subseteq Nat
             /\ calls \in Nat /\ short \in BOOLEAN

PollInv == PollTypes /\ Polling

(* It holds in every state. *)
LEMMA PollingInvariant == Spec => []PollInv
<1> USE DEF PollInv, PollTypes, Polling
<1>1. Init => PollInv
  <2>1. NoRegister \in Registers
    BY DEF NoRegister, Registers
  <2>2. Init => pc = "idle" /\ register = NoRegister /\ pending = {} /\ calls = 0
    BY DEF Init
  <2>3. Init => short \in BOOLEAN
    BY Zenon DEF Init
  <2>4. Init => Polling
    BY <2>2
  <2>5. Init => PollTypes
    BY <2>1, <2>2, <2>3
  <2> QED BY <2>4, <2>5
<1> USE DEF Registers
<1>2. PollInv /\ [Next]_vars => PollInv'
  <2> SUFFICES ASSUME PollInv, [Next]_vars PROVE PollInv'
    OBVIOUS
  <2>1. CASE Plug \/ OpenBegin \/ OpenHandle \/ OpenDetach \/ OpenClaim
               \/ OpenFailed
    BY <2>1 DEF Plug, OpenBegin, OpenHandle, OpenDetach, OpenClaim, OpenFailed
  <2>2. CASE OpenInit
    BY <2>2 DEF OpenInit
  <2>3. CASE fl2k_close
    BY <2>3 DEF fl2k_close, NoRegister
  <2>4. CASE I2cBegin \/ I2cPrepare \/ I2cEnd
    <3>1. CASE I2cBegin
      BY <3>1 DEF I2cBegin
    <3>2. CASE I2cPrepare
      BY <3>2 DEF I2cPrepare
    <3>3. CASE I2cEnd
      BY <3>3 DEF I2cEnd
    <3> QED BY <2>4, <3>1, <3>2, <3>3
  <2>5. CASE I2cStart
    <3>1. /\ UNCHANGED <<calls, short>> /\ pc' # "i2c_done"
          /\ pc' = "i2c_poll" => register' = NoRegister
                                /\ pending' = late' \cup {calls}
          /\ register' \in {register, NoRegister}
          /\ pending' \in {pending, pending \cup {calls}}
      BY <2>5 DEF I2cStart
    <3>2. NoRegister \in Registers /\ ~NoRegister.done
      BY DEF NoRegister
    <3>3. PollTypes'
      BY <3>1, <3>2
    <3> QED BY <3>1, <3>2, <3>3
  <2>6. CASE DeviceCompletes
    BY <2>6 DEF DeviceCompletes
  <2>7. CASE I2cPoll
    BY <2>7 DEF I2cPoll
  <2>8. CASE AllocZeroCopy \/ AllocHeap \/ Finish \/ FreeBuffers
               \/ UNCHANGED vars
    BY <2>8 DEF AllocZeroCopy, AllocHeap, Finish, FreeBuffers, vars
  <2> QED BY <2>1, <2>2, <2>3, <2>4, <2>5, <2>6, <2>7, <2>8 DEF Next
<1> QED BY <1>1, <1>2, PTL DEF Spec

(* The completion that an I2C call takes is that of its own operation or   *)
(* of one that was given up and pending at its start, which the code does  *)
(* not tell apart; never one that ended before the start.                  *)
THEOREM FreshCompletion == Spec => []CompletionIsFresh
<1>1. PollInv => CompletionIsFresh
  BY DEF PollInv, PollTypes, Polling, CompletionIsFresh
<1> QED BY <1>1, PollingInvariant, PTL

-----------------------------------------------------------------------------
(* Which of the pointers have memory of their own behind them: none after  *)
(* the fallback to user space, those that are not null when they are freed *)
(* and none between two streams.                                           *)
Allocated ==
  LET kind == IF use_zerocopy THEN "zc" ELSE "heap"
  IN /\ ~badFree
     /\ pc \notin {"streaming", "free"} => \A b \in Bufs : live[b] = "none"
     /\ pc = "heap" => ~use_zerocopy
                       /\ \A b \in Bufs : xfer_buf[b] \in {"null", "zc"}
     /\ pc \in {"streaming", "free"} =>
          \A b \in Bufs : IF xfer_buf[b] = "null" THEN live[b] = "none"
                                                  ELSE live[b] = kind

BufferInv == stale \in BOOLEAN /\ (~stale => Allocated)

(* It holds in every state. *)
LEMMA BufferInvariant == Spec => []BufferInv
<1>1. Init => BufferInv
  BY DEF Init, BufferInv, Allocated
<1>2. BufferInv /\ [Next]_vars => BufferInv'
  <2> SUFFICES ASSUME BufferInv, [Next]_vars PROVE BufferInv'
    OBVIOUS
  <2> USE DEF BufferInv, Allocated
  <2>1. CASE Plug \/ OpenBegin \/ OpenHandle \/ OpenDetach \/ OpenClaim
               \/ OpenInit \/ OpenFailed \/ fl2k_close
    BY <2>1 DEF Plug, OpenBegin, OpenHandle, OpenDetach, OpenClaim, OpenInit,
                OpenFailed, fl2k_close
  <2>2. CASE I2cBegin \/ I2cPrepare \/ I2cStart \/ DeviceCompletes \/ I2cPoll
               \/ I2cEnd
    <3>1. UNCHANGED bufVars
          /\ (UNCHANGED pc \/ {pc, pc'} \subseteq {"idle"} \cup AtI2c)
      BY <2>2, I2cFrame
    <3> QED BY <3>1 DEF AtI2c
  <2>3. CASE AllocZeroCopy
    BY <2>3 DEF AllocZeroCopy, Bufs
  <2>4. CASE AllocHeap
    <3>1. PICK n \in 0 .. XferBufNum :
            /\ xfer_buf' = [b \in Bufs |-> IF b <= n THEN "heap"
                                           ELSE IF b = n + 1 THEN "null"
                                           ELSE xfer_buf[b]]
            /\ live' = [b \in Bufs |-> IF b <= n THEN "heap" ELSE "none"]
            /\ pc' = IF n = XferBufNum THEN "streaming" ELSE "free"
            /\ stale' = (stale \/ \E b \in n + 2 .. XferBufNum :
                                     xfer_buf[b] = "zc")
      BY <2>4 DEF AllocHeap
    <3>2. stale' \in BOOLEAN
      BY <3>1
    <3>3. ASSUME ~stale' PROVE Allocated'
      <4>1. /\ ~stale /\ ~badFree /\ ~use_zerocopy
            /\ \A b \in Bufs : xfer_buf[b] \in {"null", "zc"}
            /\ \A b \in n + 2 .. XferBufNum : xfer_buf[b] # "zc"
        BY <2>4, <3>1, <3>3 DEF AllocHeap
      <4>2. /\ badFree' = badFree /\ use_zerocopy' = use_zerocopy
            /\ pc' \in {"streaming", "free"}
        BY <2>4, <3>1 DEF AllocHeap
      <4>3. ASSUME NEW b \in Bufs
            PROVE  IF xfer_buf'[b] = "null" THEN live'[b] = "none"
                                            ELSE live'[b] = "heap"
        BY <3>1, <4>1 DEF Bufs
      <4> QED BY <4>1, <4>2, <4>3
    <3> QED BY <3>2, <3>3
  <2>5. CASE FreeBuffers
    BY <2>5 DEF FreeBuffers
  <2>6. CASE Finish \/ UNCHANGED vars
    BY <2>6 DEF Finish, vars
  <2> QED BY <2>1, <2>2, <2>3, <2>4, <2>5, <2>6 DEF Next
<1> QED BY <1>1, <1>2, PTL DEF Spec

(* Every buffer is freed once and as what it was allocated, unless freed   *)
(* pointers were left in xfer_buf.                                         *)
THEOREM BuffersAreFreedOnce == Spec => []BuffersFreedOnce
<1>1. BufferInv => BuffersFreedOnce
  BY DEF BufferInv, Allocated, BuffersFreedOnce
<1> QED BY <1>1, BufferInvariant, PTL

-----------------------------------------------------------------------------
(* The known devices among the first n entries of the list, and how many. *)
KnownUpTo(list, n) == {m \in 1 .. n : list[m]}
K(list, n) == Cardinality(KnownUpTo(list, n))

(* A device list and its entries. *)
LEMMA ListTypes ==
  ASSUME NEW list \in Lists
  PROVE  /\ Len(list) \in 0 .. MaxDevices /\ DOMAIN list = 1 .. Len(list)
         /\ \A n \in 1 .. Len(list) : list[n] \in BOOLEAN
BY DEF Lists

(* How the number of known devices grows along the list. *)
LEMMA KnownFacts ==
  ASSUME NEW list \in Lists
  PROVE  /\ K(list, 0) = 0
         /\ \A n \in 0 .. Len(list) : K(list, n) \in 0 .. n
         /\ \A n \in 1 .. Len(list) :
              K(list, n) = K(list, n - 1) + IF list[n] THEN 1 ELSE 0
         /\ \A m, n \in 0 .. Len(list) : m <= n => K(list, m) <= K(list, n)
<1> DEFINE L == Len(list)
<1>1. L \in Nat /\ \A n \in 1 .. L : list[n] \in BOOLEAN
  BY ListTypes
<1> HIDE DEF L
<1>2. ASSUME NEW n \in 0 .. L
      PROVE  IsFiniteSet(KnownUpTo(list, n)) /\ K(list, n) \in 0 .. n
  <2>1. n \in Int /\ 1 \in Int
    BY <1>1
  <2>2. IsFiniteSet(1 .. n)
        /\ Cardinality(1 .. n) = IF 1 > n THEN 0 ELSE n - 1 + 1
    BY ONLY <2>1, FS_Interval
  <2>3. KnownUpTo(list, n) \in SUBSET (1 .. n)
    BY DEF KnownUpTo
  <2>4. /\ IsFiniteSet(KnownUpTo(list, n))
        /\ K(list, n) <= Cardinality(1 .. n)
    BY <2>2, <2>3, FS_Subset DEF K
  <2>5. K(list, n) \in Nat
    BY <2>4, FS_CardinalityType DEF K
  <2> QED BY <1>1, <2>1, <2>2, <2>4, <2>5
<1>3. K(list, 0) = 0
  BY <1>1, <1>2
<1>4. ASSUME NEW n \in 1 .. L
      PROVE  K(list, n) = K(list, n - 1) + IF list[n] THEN 1 ELSE 0
  <2>1. n - 1 \in 0 .. L
    BY <1>1
  <2>2. IsFiniteSet(KnownUpTo(list, n - 1)) /\ K(list, n - 1) \in Nat
    BY <1>1, <1>2, <2>1
  <2>3. CASE list[n]
    <3>1. KnownUpTo(list, n) = KnownUpTo(list, n - 1) \cup {n}
      BY <1>1, <2>3 DEF KnownUpTo
    <3>2. n \notin KnownUpTo(list, n - 1)
      BY <1>1 DEF KnownUpTo
    <3> QED BY <2>2, <2>3, <3>1, <3>2, FS_AddElement DEF K
  <2>4. CASE ~ list[n]
    <3>1. KnownUpTo(list, n) = KnownUpTo(list, n - 1)
      BY <1>1, <2>4 DEF KnownUpTo
    <3> QED BY <2>2, <2>4, <3>1 DEF K
  <2> QED BY <2>3, <2>4
<1>5. ASSUME NEW m \in 0 .. L, NEW n \in 0 .. L, m <= n
      PROVE  K(list, m) <= K(list, n)
  <2>1. KnownUpTo(list, m) \in SUBSET KnownUpTo(list, n)
    BY <1>1, <1>5 DEF KnownUpTo
  <2> QED BY <1>2, <2>1, FS_Subset DEF K
<1> QED BY <1>2, <1>3, <1>4, <1>5 DEF L

(* device_count after n entries is the number of known devices among them. *)
LEMMA CountIsKnown ==
  ASSUME NEW list \in Lists
  PROVE  \A n \in 0 .. Len(list) : Count(list)[n] = K(list, n)
<1> DEFINE L == Len(list)
           k == [n \in 0 .. L |-> K(list, n)]
           c == Count(list)
<1>1. L \in Nat
  BY ListTypes
<1>2. k = [n \in 0 .. L |->
             IF n = 0 THEN 0 ELSE k[n - 1] + IF list[n] THEN 1 ELSE 0]
  BY <1>1, KnownFacts
<1>3. c = [n \in 0 .. L |->
             IF n = 0 THEN 0 ELSE c[n - 1] + IF list[n] THEN 1 ELSE 0]
  <2>1. \E d : d = [n \in 0 .. L |->
             IF n = 0 THEN 0 ELSE d[n - 1] + IF list[n] THEN 1 ELSE 0]
    BY <1>2
  <2> QED BY <2>1 DEF Count
<1> HIDE DEF c
<1> DEFINE T == {n \in 0 .. L : c[n] # K(list, n)}
<1>4. ASSUME T # {} PROVE FALSE
  <2>1. PICK n \in T : \A m \in T : n <= m
    <3>1. T \subseteq Nat
      BY <1>1
    <3> HIDE DEF T
    <3> QED BY ONLY <3>1, <1>4, SmallestNat, Zenon
  <2>2. n # 0
    BY <1>1, <1>3, <2>1, KnownFacts
  <2>3. n \in 1 .. L /\ n - 1 \in 0 .. L /\ n - 1 \notin T
    BY <1>1, <2>1, <2>2
  <2>4. c[n - 1] = K(list, n - 1)
    BY <2>3
  <2>5. c[n] = c[n - 1] + IF list[n] THEN 1 ELSE 0
    BY <1>3, <2>2, <2>3
  <2>6. K(list, n) = K(list, n - 1) + IF list[n] THEN 1 ELSE 0
    BY <2>3, KnownFacts
  <2> QED BY <2>1, <2>4, <2>5, <2>6
<1> QED BY <1>4 DEF c, L

(* Every index below the number of known devices has its device: the one   *)
(* at which the count gets past it.                                        *)
LEMMA IndexedDevice ==
  ASSUME NEW list \in Lists, NEW k \in Nat, k < K(list, Len(list))
  PROVE  \E d \in 1 .. Len(list) :
           /\ list[d] /\ K(list, d) = k + 1 /\ K(list, d - 1) = k
           /\ \A n \in 1 .. Len(list) : K(list, n) = k + 1 => d <= n
           /\ \A n \in 1 .. Len(list) : list[n] /\ K(list, n) = k + 1 => n = d
<1> DEFINE L == Len(list)
           T == {n \in 0 .. L : K(list, n) > k}
<1>1. L \in Nat
  BY ListTypes
<1>2. PICK d \in T : \A m \in T : d <= m
  <2>1. L \in T /\ T \subseteq Nat
    BY <1>1
  <2> HIDE DEF T
  <2> QED BY ONLY <2>1, SmallestNat, Zenon
<1>3. d \in 0 .. L /\ K(list, d) > k
  BY <1>2
<1>4. \A m \in 0 .. L : K(list, m) > k => d <= m
  BY <1>2
<1>5. d \in 1 .. L /\ d - 1 \in 0 .. L
  BY <1>1, <1>3, KnownFacts
<1>6. ~ (K(list, d - 1) > k)
  BY <1>1, <1>4, <1>5
<1>7. /\ K(list, d) = K(list, d - 1) + IF list[d] THEN 1 ELSE 0
      /\ K(list, d) \in Int /\ K(list, d - 1) \in Int
  BY <1>1, <1>5, KnownFacts
<1>8. list[d] /\ K(list, d) = k + 1 /\ K(list, d - 1) = k
  BY <1>3, <1>6, <1>7
<1>9. ASSUME NEW n \in 1 .. L, K(list, n) = k + 1 PROVE d <= n
  BY <1>1, <1>4, <1>9
<1>10. ASSUME NEW n \in 1 .. L, list[n], K(list, n) = k + 1 PROVE n = d
  <2>1. d <= n
    BY <1>9, <1>10
  <2>2. K(list, n) = K(list, n - 1) + 1 /\ n - 1 \in 0 .. L
        /\ K(list, n - 1) \in Int
    BY <1>1, <1>10, KnownFacts
  <2>3. K(list, n - 1) = k
    BY <1>10, <2>2
  <2>4. d <= n - 1 => K(list, d) <= K(list, n - 1)
    BY <1>5, <2>2, KnownFacts
  <2> QED BY <1>1, <1>5, <1>8, <2>1, <2>3, <2>4
<1> QED BY <1>5, <1>8, <1>9, <1>10

(* What fl2k_open and fl2k_get_device_name compare: the count is small, so *)
(* that it wraps only before the first known device.                       *)
LEMMA ComparedIndex ==
  ASSUME NEW list \in Lists, NEW n \in DOMAIN list, NEW k \in 0 .. MaxDevices
  PROVE  k = (Count(list)[n] - 1) % Word <=> K(list, n) = k + 1
<1> DEFINE c == K(list, n)
<1>1. /\ n \in 1 .. Len(list) /\ n \in 0 .. Len(list)
      /\ Len(list) \in Nat /\ Len(list) <= MaxDevices
  BY ListTypes
<1>2. Count(list)[n] = c
  BY <1>1, CountIsKnown
<1>3. c \in 0 .. n
  BY <1>1, KnownFacts
<1> HIDE DEF c
<1>4. c \in 0 .. MaxDevices
  BY <1>1, <1>3
<1>5. (c - 1) % Word = IF c = 0 THEN Word - 1 ELSE c - 1
  <2>1. c = 0 => (c - 1) % Word = Word - 1
    BY <1>4
  <2>2. c # 0 => (c - 1) % Word = c - 1
    BY <1>4
  <2> QED BY <2>1, <2>2
<1> QED BY <1>2, <1>4, <1>5 DEF c

(* THEOREM: for every list of devices the index that opens, names and      *)
(* counts a device is the same (fl2k_open, fl2k_get_device_name,           *)
(* fl2k_get_device_count).                                                 *)
THEOREM IndicesDoAgree == Spec => []IndicesAgree
<1>1. Spec => [](bus \in Lists)
  <2>1. Init => bus \in Lists
    BY DEF Init
  <2>2. bus \in Lists /\ [Next]_vars => (bus \in Lists)'
    <3> SUFFICES ASSUME bus \in Lists, [Next]_vars PROVE bus' \in Lists
      OBVIOUS
    <3>1. CASE Plug
      BY <3>1 DEF Plug
    <3>2. CASE OpenBegin \/ OpenHandle \/ OpenDetach \/ OpenClaim
               \/ OpenInit \/ OpenFailed \/ fl2k_close
      BY <3>2 DEF OpenBegin, OpenHandle, OpenDetach, OpenClaim, OpenInit,
         OpenFailed, fl2k_close
    <3>3. CASE I2cBegin \/ I2cPrepare \/ I2cStart \/ DeviceCompletes
               \/ I2cPoll \/ I2cEnd
      BY <3>3, I2cFrame
    <3>4. CASE AllocZeroCopy \/ AllocHeap \/ Finish \/ FreeBuffers
               \/ UNCHANGED vars
      BY <3>4 DEF AllocZeroCopy, AllocHeap, Finish, FreeBuffers, vars
    <3> QED BY <3>1, <3>2, <3>3, <3>4 DEF Next
  <2> QED BY <2>1, <2>2, PTL DEF Spec
<1>2. bus \in Lists => IndicesAgree
  <2> SUFFICES ASSUME bus \in Lists PROVE IndicesAgree
    OBVIOUS
  <2> DEFINE L == Len(bus)
             known == {n \in DOMAIN bus : bus[n]}
             Nth(k) == CHOOSE n \in known : Cardinality({m \in known : m < n}) = k
  <2>1. DOMAIN bus = 1 .. L /\ L \in Nat /\ L <= MaxDevices
    BY ListTypes
  <2>2. Cardinality(known) = K(bus, L)
    BY <2>1 DEF K, KnownUpTo
  <2>3. fl2k_get_device_count(bus) = K(bus, L)
    BY <2>1, CountIsKnown DEF fl2k_get_device_count
  <2>4. \A n \in known : Cardinality({m \in known : m < n}) = K(bus, n - 1)
    <3> SUFFICES ASSUME NEW n \in known
                 PROVE  Cardinality({m \in known : m < n}) = K(bus, n - 1)
      OBVIOUS
    <3>1. {m \in known : m < n} = KnownUpTo(bus, n - 1)
      BY <2>1 DEF KnownUpTo
    <3> QED BY <3>1 DEF K
  <2>5. ASSUME NEW k \in 0 .. K(bus, L) - 1
        PROVE  OpenedDevice(bus, k) = Nth(k) /\ NamedDevice(bus, k) = Nth(k)
    <3>1. K(bus, L) \in 0 .. L
      BY <2>1, KnownFacts
    <3>2. k \in Nat /\ k < K(bus, L) /\ k \in 0 .. MaxDevices
      BY <2>1, <3>1
    <3>3. PICK d \in 1 .. L :
            /\ bus[d] /\ K(bus, d) = k + 1 /\ K(bus, d - 1) = k
            /\ \A n \in 1 .. L : K(bus, n) = k + 1 => d <= n
            /\ \A n \in 1 .. L : bus[n] /\ K(bus, n) = k + 1 => n = d
      BY <3>2, IndexedDevice
    <3>4. \A n \in DOMAIN bus :
            k = (Count(bus)[n] - 1) % Word <=> K(bus, n) = k + 1
      BY <3>2, ComparedIndex
    <3>5. Nth(k) = d
      <4>1. d \in known /\ Cardinality({m \in known : m < d}) = k
        BY <2>1, <2>4, <3>3
      <4>2. ASSUME NEW n \in known, Cardinality({m \in known : m < n}) = k
            PROVE  n = d
        <5>1. n \in 1 .. L /\ bus[n] /\ K(bus, n - 1) = k
          BY <2>1, <2>4, <4>2
        <5>2. K(bus, n) = k + 1
          BY <5>1, KnownFacts
        <5> QED BY <3>3, <5>1, <5>2
      <4> HIDE DEF known
      <4> QED BY <4>1, <4>2
    <3>6. OpenedDevice(bus, k) = d
      <4> DEFINE found == {n \in DOMAIN bus : k = (Count(bus)[n] - 1) % Word}
      <4>1. d \in found /\ \A n \in found : d <= n
        BY <2>1, <3>3, <3>4
      <4>2. \A n \in found : n \in Int
        BY <2>1
      <4>3. OpenedDevice(bus, k) = Min(found)
        BY <4>1 DEF OpenedDevice
      <4> HIDE DEF found
      <4>4. \A n \in found : (\A m \in found : n <= m) => n = d
        BY <4>1, <4>2
      <4> QED BY <4>1, <4>3, <4>4 DEF Min
    <3>7. NamedDevice(bus, k) = d
      <4> DEFINE found == {n \in DOMAIN bus :
                             bus[n] /\ k = (Count(bus)[n] - 1) % Word}
      <4>1. d \in found /\ \A n \in found : n = d
        BY <2>1, <3>3, <3>4
      <4>2. NamedDevice(bus, k) = Min(found)
        BY <4>1 DEF NamedDevice
      <4> HIDE DEF found
      <4>3. d <= d
        BY <2>1
      <4> QED BY <4>1, <4>2, <4>3 DEF Min
    <3> QED BY <3>5, <3>6, <3>7
  <2>6. ASSUME NEW k \in K(bus, L) .. MaxDevices
        PROVE  OpenedDevice(bus, k) = 0
    <3>1. K(bus, L) \in 0 .. L
      BY <2>1, KnownFacts
    <3>2. k \in 0 .. MaxDevices /\ k >= K(bus, L)
      BY <2>1, <3>1
    <3>3. ASSUME NEW n \in DOMAIN bus PROVE k # (Count(bus)[n] - 1) % Word
      <4>1. K(bus, n) <= K(bus, L) /\ K(bus, n) \in Int
        BY <2>1, KnownFacts
      <4> QED BY <3>1, <3>2, <4>1, ComparedIndex
    <3> QED BY <3>3 DEF OpenedDevice
  <2> QED BY <2>2, <2>3, <2>5, <2>6 DEF IndicesAgree
<1> QED BY <1>1, <1>2, PTL

=============================================================================
