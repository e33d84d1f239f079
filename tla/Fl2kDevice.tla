----------------------------- MODULE Fl2kDevice -----------------------------
(***************************************************************************)
(* One process's calls of src/libosmo-fl2k.c, one after the other: finding *)
(* and opening a device, the I2C bus behind its registers, the allocation  *)
(* and release of the transfers' buffers, and the close.  Against it work  *)
(* the bus, where devices come and go, the device, which takes its time    *)
(* for an I2C operation, and every call that may fail.                     *)
(***************************************************************************)
EXTENDS Integers, Sequences, FiniteSets, FiniteSetsExt

CONSTANTS
  MaxDevices,  \* bound: devices on the bus
  Word,        \* 2^32 in the code: indices and counts are uint32_t
  XferBufNum,  \* dev->xfer_buf_num
  Polls,       \* 10 in the code: polls of an I2C operation
  MaxOpens,    \* bound: calls of fl2k_open
  MaxCalls,    \* bound: calls of fl2k_i2c_read, fl2k_i2c_write
  MaxStarts    \* bound: calls of fl2k_start_tx

ASSUME DeviceAssumption ==
  /\ MaxDevices \in Nat /\ XferBufNum \in Nat \ {0} /\ Polls \in Nat \ {0}
  /\ Word \in Nat /\ Word > MaxDevices + 1
  /\ MaxOpens \in Nat /\ MaxCalls \in Nat /\ MaxStarts \in Nat

VARIABLES
  bus,       \* libusb's device list: TRUE for one of known_devices
  pc,        \* where the process is
  opens,     \* calls of fl2k_open so far; the handle is the call's number
  handles,   \* handles that libusb_open returned and nobody closed
  claimed,   \* <<handle, interface>>: the claims that stand
  contexts,  \* libusb contexts in use
  driver,    \* the mass storage driver is on the device that is opened
  query,     \* libusb_kernel_driver_active of it: 1, 0 or -1 (an error)
  dev,       \* the handle of the device the process has open, or 0
  broken,    \* history: an open failed after libusb_open
  calls,     \* I2C calls so far
  polls,     \* the running one's, whose number is calls
  register,  \* 0x8020: bit 31 (done, whose operation set it) and 30 (repeat)
  pending,   \* operations on the I2C bus, by their call's number
  late,      \* history: those that were when the running call's was started
  short,     \* history: its last poll was a short read
  starts,
  xfer_buf,  \* what each pointer was assigned last
  live,      \* the memory behind it: "none", "zc" or "heap"
  use_zerocopy,
  badFree,   \* history: memory freed that was not allocated so
  stale      \* history: a malloc failed after the fallback to user space

busVars == <<bus, opens, handles, claimed, contexts, driver, query, dev,
             broken>>
i2cVars == <<calls, polls, register, pending, late, short>>
bufVars == <<starts, xfer_buf, live, use_zerocopy, badFree, stale>>
vars == <<pc, busVars, i2cVars, bufVars>>

Interfaces == {0, 1}
Bufs == 1 .. XferBufNum
Lists == UNION {[1 .. n -> BOOLEAN] : n \in 0 .. MaxDevices}
NoRegister == [done |-> FALSE, owner |-> 0, repeat |-> FALSE]

Init ==
  /\ bus \in Lists /\ pc = "idle"
  /\ opens = 0 /\ handles = {} /\ claimed = {} /\ contexts = 0
  /\ driver = FALSE /\ query = 0 /\ dev = 0 /\ broken = FALSE
  /\ calls = 0 /\ polls = 0 /\ pending = {} /\ late = {} /\ short = FALSE
  /\ register = NoRegister
  /\ starts = 0 /\ use_zerocopy = FALSE
  /\ xfer_buf = [b \in Bufs |-> "null"] /\ live = [b \in Bufs |-> "none"]
  /\ badFree = FALSE /\ stale = FALSE

-----------------------------------------------------------------------------
(* Enumeration.  The loops over the list as functions of its length.       *)

(* device_count after the first n entries. *)
Count(list) ==
  LET c[n \in 0 .. Len(list)] ==
        IF n = 0 THEN 0 ELSE c[n - 1] + IF list[n] THEN 1 ELSE 0
  IN c

fl2k_get_device_count(list) == Count(list)[Len(list)]

(* Mutation: the count is compared as it is. *)
OpenedDeviceOffByOne(list, index) ==
  LET found == {n \in DOMAIN list : index = Count(list)[n] % Word}
  IN IF found = {} THEN 0 ELSE Min(found)

(* The entry at which the loop of fl2k_open breaks, 0 if it does not: with *)
(* no known device so far device_count - 1 is the largest uint32_t.        *)
OpenedDevice(list, index) ==
  LET found == {n \in DOMAIN list : index = (Count(list)[n] - 1) % Word}
  IN IF found = {} THEN 0 ELSE Min(found)

(* The entry whose name fl2k_get_device_name returns, 0 for none: without  *)
(* a match it is the last entry of the list, if that is a known device.    *)
NamedDevice(list, index) ==
  LET found == {n \in DOMAIN list :
                  list[n] /\ index = (Count(list)[n] - 1) % Word}
  IN IF found # {} THEN Min(found)
     ELSE IF list # <<>> /\ list[Len(list)] THEN Len(list) ELSE 0

(* Devices come and go between the calls, but for the one that is open.    *)
Plug ==
  /\ pc = "idle" /\ dev = 0 /\ opens < MaxOpens
  /\ bus' \in Lists
  /\ UNCHANGED <<pc, opens, handles, claimed, contexts, driver, query, dev,
                 broken, i2cVars, bufVars>>

-----------------------------------------------------------------------------
(* fl2k_open and fl2k_close *)

OpenBegin ==
  /\ pc = "idle" /\ dev = 0 /\ opens < MaxOpens
  /\ opens' = opens + 1
  /\ contexts' = contexts + 1
  /\ \E index \in 0 .. MaxDevices :
       pc' = IF OpenedDevice(bus, index) = 0 THEN "err" ELSE "open"
  /\ UNCHANGED <<bus, handles, claimed, driver, query, dev, broken, i2cVars,
                 bufVars>>

(* libusb_open, of a device that may have the driver of the mass storage   *)
(* class on it.                                                            *)
OpenHandle ==
  /\ pc = "open"
  /\ \/ /\ handles' = handles \cup {opens}
        /\ driver' \in BOOLEAN
        /\ pc' = "detach"
     \/ pc' = "err" /\ UNCHANGED <<handles, driver>>
  /\ UNCHANGED <<bus, opens, claimed, contexts, query, dev, broken, i2cVars,
                 bufVars>>

(* A driver that is found is detached.  After a query that fails the code  *)
(* goes on, as if there were none.                                         *)
OpenDetach ==
  /\ pc = "detach"
  /\ query' \in {IF driver THEN 1 ELSE 0, -1}
  /\ \/ query' # 1 /\ pc' = "claim0" /\ UNCHANGED <<driver, broken>>
     \/ query' = 1 /\ pc' = "claim0" /\ driver' = FALSE /\ UNCHANGED broken
     \/ query' = 1 /\ pc' = "err" /\ broken' = TRUE /\ UNCHANGED driver
  /\ UNCHANGED <<bus, opens, handles, claimed, contexts, dev, i2cVars, bufVars>>

(* Mutation: the second claim's result is not tested. *)
OpenClaimOnce ==
  /\ pc \in {"claim0", "claim1"}
  /\ LET i == IF pc = "claim0" THEN 0 ELSE 1
         next == IF i = 0 THEN "claim1" ELSE "init"
     IN \/ claimed' = claimed \cup {<<opens, i>>} /\ pc' = next
           /\ UNCHANGED broken
        \/ broken' = TRUE /\ pc' = (IF i = 0 THEN "err" ELSE next)
           /\ UNCHANGED claimed
  /\ UNCHANGED <<bus, opens, handles, contexts, driver, query, dev, i2cVars,
                 bufVars>>

(* libusb_claim_interface may succeed or fail, whatever an earlier open    *)
(* has left claimed.                                                       *)
OpenClaim ==
  /\ pc \in {"claim0", "claim1"}
  /\ LET i == IF pc = "claim0" THEN 0 ELSE 1
     IN \/ /\ claimed' = claimed \cup {<<opens, i>>}
           /\ pc' = IF i = 0 THEN "claim1" ELSE "init"
           /\ UNCHANGED broken
        \/ pc' = "err" /\ broken' = TRUE /\ UNCHANGED claimed
  /\ UNCHANGED <<bus, opens, handles, contexts, driver, query, dev, i2cVars,
                 bufVars>>

(* fl2k_init_device writes the registers and ignores what fails.  0xdf0000cc *)
(* in 0x8020 has bits 31, 30 and 28 set: operation 0, a read that repeats. *)
(* Calls made before a close, or of another process, may be pending too.   *)
OpenInit ==
  /\ pc = "init"
  /\ dev' = opens
  /\ register' \in [done : BOOLEAN, owner : {0}, repeat : BOOLEAN]
  /\ pending' \in SUBSET (0 .. calls)
  /\ pc' = "idle"
  /\ UNCHANGED <<bus, opens, handles, claimed, contexts, driver, query, broken,
                 calls, polls, late, short, bufVars>>

(* Mutation: the context is not left. *)
OpenFailedStays ==
  /\ pc = "err"
  /\ pc' = "idle"
  /\ UNCHANGED <<busVars, i2cVars, bufVars>>

(* The context is left; the handle and what it has claimed stay. *)
OpenFailed ==
  /\ pc = "err"
  /\ contexts' = contexts - 1
  /\ pc' = "idle" /\ driver' = FALSE /\ query' = 0
  /\ UNCHANGED <<bus, opens, handles, claimed, dev, broken, i2cVars, bufVars>>

(* Once streaming is over; libusb_close releases every interface.  What    *)
(* the device does until the next open is a choice of OpenInit.            *)
fl2k_close ==
  /\ pc = "idle" /\ dev # 0
  /\ handles' = handles \ {dev}
  /\ claimed' = {c \in claimed : c[1] # dev}
  /\ contexts' = contexts - 1
  /\ dev' = 0 /\ driver' = FALSE /\ query' = 0
  /\ pending' = {} /\ late' = {} /\ register' = NoRegister
  /\ UNCHANGED <<bus, pc, opens, broken, calls, polls, short, bufVars>>

-----------------------------------------------------------------------------
(* fl2k_i2c_read and fl2k_i2c_write *)

I2cBegin ==
  /\ pc = "idle" /\ dev # 0 /\ calls < MaxCalls
  /\ calls' = calls + 1
  /\ pc' \in {"i2c_data", "i2c_read"}
  /\ UNCHANGED <<busVars, polls, register, pending, late, short, bufVars>>

(* The data goes to 0x8028; register 0x8020 is read.  A transfer may fail, *)
(* which ends the call; a short read passes, and the mask cuts off what it *)
(* says of bits 30 and 31.                                                 *)
I2cPrepare ==
  /\ pc \in {"i2c_data", "i2c_read"}
  /\ pc' \in {IF pc = "i2c_data" THEN "i2c_read" ELSE "i2c_start", "i2c_fail"}
  /\ UNCHANGED <<busVars, i2cVars, bufVars>>

(* Mutation: the mask keeps bit 31. *)
I2cStartKeepDone ==
  /\ pc = "i2c_start"
  /\ \/ /\ register' = [register EXCEPT !.repeat = FALSE]
        /\ pending' = pending \cup {calls} /\ late' = pending
        /\ pc' \in {"i2c_poll", "i2c_fail"}
     \/ pc' = "i2c_fail" /\ UNCHANGED <<register, pending, late>>
  /\ UNCHANGED <<busVars, calls, polls, short, bufVars>>

(* The mask clears bits 30 and 31; bit 28 starts the operation.  Nothing   *)
(* takes back the ones that are on the bus still.  A write that fails may  *)
(* have reached the device.                                                *)
I2cStart ==
  /\ pc = "i2c_start"
  /\ \/ /\ register' = NoRegister
        /\ pending' = pending \cup {calls} /\ late' = pending
        /\ pc' \in {"i2c_poll", "i2c_fail"}
     \/ pc' = "i2c_fail" /\ UNCHANGED <<register, pending, late>>
  /\ UNCHANGED <<busVars, calls, polls, short, bufVars>>

(* The device: an operation ends, with the slave's answer or without, in   *)
(* whatever order; the one that repeats does not leave the bus.            *)
DeviceCompletes ==
  /\ \E c \in pending :
       /\ register' = [done |-> TRUE, owner |-> c,
                      repeat |-> register.repeat]
       /\ pending' = IF c = 0 /\ register.repeat THEN pending
                     ELSE pending \ {c}
  /\ UNCHANGED <<pc, busVars, calls, polls, late, short, bufVars>>

(* One round of the loop, whose read fails, or is short and leaves garbage *)
(* for bit 31, or reads the register.                                      *)
I2cPoll ==
  /\ pc = "i2c_poll"
  /\ polls' = polls + 1
  /\ \/ pc' = "i2c_fail" /\ UNCHANGED short
     \/ /\ short' \in BOOLEAN
        /\ \E done \in IF short' THEN BOOLEAN ELSE {register.done} :
             pc' = IF done THEN "i2c_done"
                   ELSE IF polls' = Polls THEN "i2c_fail" ELSE "i2c_poll"
  /\ UNCHANGED <<busVars, calls, register, pending, late, bufVars>>

(* The call returns: "i2c_fail" stands for FL2K_ERROR_TIMEOUT and a failed *)
(* transfer, "i2c_done" for FL2K_ERROR_NOT_FOUND and success, for a read   *)
(* with the data that it fetches from 0x8024.                              *)
I2cEnd ==
  /\ pc \in {"i2c_done", "i2c_fail"}
  /\ pc' = "idle"
  /\ polls' = 0 /\ late' = {} /\ short' = FALSE
  /\ UNCHANGED <<busVars, calls, register, pending, bufVars>>

-----------------------------------------------------------------------------
(* fl2k_alloc_submit_transfers and _fl2k_free_async_buffers *)

(* Zero-copy buffers 1 to n are allocated; the last of them may show the   *)
(* kernel's mmap() bug, or no more are to be had.  All are freed then.     *)
AllocZeroCopy ==
  /\ pc = "idle" /\ dev # 0 /\ starts < MaxStarts
  /\ starts' = starts + 1
  /\ \E n \in 0 .. XferBufNum, ok \in BOOLEAN :
       /\ ok => n = XferBufNum
       /\ xfer_buf' = [b \in Bufs |-> IF b <= n THEN "zc" ELSE "null"]
       /\ live' = [b \in Bufs |-> IF ok THEN "zc" ELSE "none"]
       /\ use_zerocopy' = ok
       /\ pc' = IF ok THEN "streaming" ELSE "heap"
  /\ UNCHANGED <<busVars, i2cVars, badFree, stale>>

(* malloc for each buffer; the first that fails ends it, and what the      *)
(* pointers behind it held stays.                                          *)
AllocHeap ==
  /\ pc = "heap"
  /\ \E n \in 0 .. XferBufNum :
       /\ xfer_buf' = [b \in Bufs |-> IF b <= n THEN "heap"
                                      ELSE IF b = n + 1 THEN "null"
                                      ELSE xfer_buf[b]]
       /\ live' = [b \in Bufs |-> IF b <= n THEN "heap" ELSE "none"]
       /\ pc' = IF n = XferBufNum THEN "streaming" ELSE "free"
       /\ stale' = (stale \/ \E b \in n + 2 .. XferBufNum : xfer_buf[b] = "zc")
  /\ UNCHANGED <<busVars, i2cVars, starts, use_zerocopy, badFree>>

(* The stream ends, or its start fails. *)
Finish ==
  /\ pc = "streaming"
  /\ pc' = "free"
  /\ UNCHANGED <<busVars, i2cVars, bufVars>>

(* Mutation: use_zerocopy is not asked. *)
FreeBuffersHeap ==
  /\ pc = "free"
  /\ badFree' = (badFree \/ \E b \in Bufs :
                               xfer_buf[b] # "null" /\ live[b] # "heap")
  /\ live' = [b \in Bufs |-> IF live[b] = "heap" THEN "none" ELSE live[b]]
  /\ pc' = "idle"
  /\ UNCHANGED <<busVars, i2cVars, starts, xfer_buf, use_zerocopy, stale>>

(* Every pointer is freed, as what use_zerocopy says. *)
FreeBuffers ==
  /\ pc = "free"
  /\ LET kind == IF use_zerocopy THEN "zc" ELSE "heap"
     IN /\ badFree' = (badFree \/ \E b \in Bufs :
                                    xfer_buf[b] # "null" /\ live[b] # kind)
        /\ live' = [b \in Bufs |-> IF xfer_buf[b] # "null" /\ live[b] = kind
                                     THEN "none" ELSE live[b]]
  /\ pc' = "idle"
  /\ UNCHANGED <<busVars, i2cVars, starts, xfer_buf, use_zerocopy, stale>>

-----------------------------------------------------------------------------
Next ==
  \/ Plug
  \/ OpenBegin \/ OpenHandle \/ OpenDetach \/ OpenClaim \/ OpenInit
  \/ OpenFailed
  \/ fl2k_close
  \/ I2cBegin \/ I2cPrepare \/ I2cStart \/ DeviceCompletes \/ I2cPoll \/ I2cEnd
  \/ AllocZeroCopy \/ AllocHeap \/ Finish \/ FreeBuffers

Spec == Init /\ [][Next]_vars

-----------------------------------------------------------------------------
(* The device that an index opens, names and counts is the same: the known *)
(* device with as many before it in the list ("index of the device",       *)
(* fl2k_open, fl2k_get_device_name, fl2k_get_device_count).                *)
IndicesAgree ==
  LET known == {n \in DOMAIN bus : bus[n]}
      Nth(k) == CHOOSE n \in known : Cardinality({m \in known : m < n}) = k
  IN /\ fl2k_get_device_count(bus) = Cardinality(known)
     /\ \A k \in 0 .. Cardinality(known) - 1 :
          OpenedDevice(bus, k) = Nth(k) /\ NamedDevice(bus, k) = Nth(k)
     /\ \A k \in Cardinality(known) .. MaxDevices : OpenedDevice(bus, k) = 0

(* fl2k_open succeeds only with both interfaces claimed by the new handle, *)
(* whatever earlier opens have left, and with the mass storage driver      *)
(* away, unless the query for it failed.                                   *)
OpenIsReady ==
  dev # 0 => /\ dev \in handles
             /\ \A i \in Interfaces : <<dev, i>> \in claimed
             /\ driver => query = -1

(* Between the calls nothing is left of a device that is not open, unless  *)
(* an open failed after libusb_open, whose handle nobody closes.           *)
NothingLeftBehind ==
  pc = "idle" /\ dev = 0 =>
    contexts = 0 /\ (~broken => handles = {} /\ claimed = {})

(* A completion that a call takes is that of its own operation, or of one  *)
(* that was given up and still on the bus when the call started its own:   *)
(* the code has nothing to tell these apart.  It is never one that ended   *)
(* before (fl2k_i2c_read, fl2k_i2c_write: bit 31 is cleared).              *)
CompletionIsFresh ==
  pc = "i2c_done" /\ ~short => register.owner \in late \cup {calls}

(* Buffers are freed once and as what they were allocated, and all of them *)
(* are, although the allocation may fall back to user space or stop half   *)
(* way; but not after both, when freed pointers are left in xfer_buf.      *)
BuffersFreedOnce ==
  ~stale => ~badFree /\ (pc = "idle" => \A b \in Bufs : live[b] = "none")

=============================================================================
