---------------------------- MODULE Fl2kFmProofs ----------------------------
(***************************************************************************)
(* The FM transmitter, for every size of its buffers and its ring, every   *)
(* rate and every schedule: the double buffer, the carrier in it, and the  *)
(* ring of frequencies.                                                    *)
(***************************************************************************)
EXTENDS Fl2kFm, Numbers, SequenceTheorems

USE DEF ringVars, worker, params, modulator, library

(* The two pointers name different buffers; unless a wait for the callback *)
(* has returned without a signal, fm_worker owns the buffer that the       *)
(* library converts only while it waits for it.                            *)
TwoBuffers ==
  /\ fmbuf \in Buffers /\ txbuf \in Buffers /\ fmbuf # txbuf
  /\ fm # "cb_wait" /\ ~spurious => fmbuf # converting

(* It holds in every state. *)
LEMMA TwoBuffersInvariant == Spec => []TwoBuffers
<1>1. Init => TwoBuffers
  BY DEF Init, TwoBuffers, Buffers, None
<1>2. TwoBuffers /\ [Next]_vars => TwoBuffers'
  <2> SUFFICES ASSUME TwoBuffers, [Next]_vars PROVE TwoBuffers'
    OBVIOUS
  <2> USE DEF TwoBuffers
  <2>1. CASE FmExit \/ FmRead \/ FmFill \/ FmRest \/ FmSignal
    BY <2>1 DEF FmExit, FmRead, FmFill, FmRest, FmSignal
  <2>2. CASE FmSwap
    BY <2>2 DEF FmSwap
  <2>3. CASE MainStart \/ ModLen \/ ModBlock \/ ModFread \/ ModWrite
               \/ MainClose \/ SigStop \/ SigExit
    BY <2>3 DEF MainStart, ModLen, ModBlock, ModFread, ModWrite, MainClose,
                SigStop, SigExit
  <2>4. CASE CbSignal \/ CbDeviceError
    BY <2>4 DEF CbSignal, CbDeviceError, Buffers, None
  <2>5. CASE CbReturn
    BY <2>5 DEF CbReturn
  <2>6. CASE SpuriousWakeup
    BY <2>6 DEF SpuriousWakeup
  <2>7. CASE EngineStopped \/ UNCHANGED vars
    BY <2>7 DEF EngineStopped, vars
  <2> QED BY <2>1, <2>2, <2>3, <2>4, <2>5, <2>6, <2>7 DEF Next, FmStep, CbStep
<1> QED BY <1>1, <1>2, PTL DEF Spec

(* fm_worker writes the buffer the library converts only after a wait for  *)
(* the callback that has returned without a signal, and then only until    *)
(* the next callback: sharing the pointers with the callback, with no      *)
(* mutex held, and losing signals make it do so never.                     *)
THEOREM TxBufIsUntouched == Spec => TxBufUntouched
<1>1. TwoBuffers => [made' # made /\ fm \in {"fill", "rest"} /\ ~spurious
                       => fmbuf # converting]_vars
  BY DEF TwoBuffers
<1> QED BY <1>1, TwoBuffersInvariant, PTL DEF TxBufUntouched

-----------------------------------------------------------------------------
(* The carrier's samples are counted modulo two buffers. *)
M == 2 * FL2K_BUF_LEN

(* The types of fm_worker's variables. *)
CarrierTypes ==
  /\ len \in 0 .. FL2K_BUF_LEN /\ carrier_per_signal \in 0 .. FL2K_BUF_LEN
  /\ made \in Numbers /\ origin \in [Buffers -> Numbers]

(* Between two signals the carrier has gone on for len samples since the   *)
(* start of fmbuf, and that start continues txbuf; with a buffer full and  *)
(* the rest of the signal to come it has gone on for a buffer since the    *)
(* start of txbuf, and something is left of the signal.                    *)
Carrier ==
  /\ fm \notin {"cb_wait", "rest"} =>
       /\ made = (origin[fmbuf] + len) % M
       /\ IF buf_prefilled
            THEN origin[txbuf] = (origin[fmbuf] - FL2K_BUF_LEN) % M
            ELSE origin[txbuf] = 0 /\ origin[fmbuf] = 0
  /\ fm \in {"cb_wait", "rest"} =>
       /\ made = (origin[txbuf] + FL2K_BUF_LEN) % M
       /\ len + carrier_per_signal > FL2K_BUF_LEN
  /\ mod = "start" => carrier_per_signal = 0 /\ len = 0

(* With n samples at position len of fmbuf its start stays where it was,   *)
(* and the carrier goes on.                                                *)
LEMMA GenerateContinues ==
  ASSUME CarrierTypes, TwoBuffers, made = (origin[fmbuf] + len) % M,
         NEW n \in 0 .. FL2K_BUF_LEN, Generate(fmbuf, len, n)
  PROVE  origin' = origin /\ made' = (origin[fmbuf] + (len + n)) % M
<1> DEFINE o == origin[fmbuf]
<1>1. /\ o \in 0 .. M - 1 /\ M \in Nat \ {0} /\ len \in Nat /\ n \in Nat
      /\ origin \in [Buffers -> Numbers]
  BY FmAssumption DEF CarrierTypes, TwoBuffers, Numbers, M
<1>2. made = (o + len) % M /\ made' = (made + n) % M /\ made \in Int
  BY <1>1, ModDef DEF Generate, M
<1> HIDE DEF o, M
<1>3. made' = (o + (len + n)) % M
  <2> DEFINE a == o + len
  <2>1. a \in Int /\ made = a % M /\ a + n = o + (len + n)
    BY <1>1, <1>2
  <2> HIDE DEF a
  <2>2. made % M = a % M
    <3>1. made \in 0 .. M - 1
      BY ONLY <1>1, <2>1, ModDef
    <3> QED BY ONLY <1>1, <2>1, <3>1, ModSmall
  <2>3. (made + n) % M = (a + n) % M
    <3>1. M \in Nat \ {0} /\ made \in Int /\ a \in Int /\ n \in Int
      BY <1>1, <1>2, <2>1
    <3> QED BY ONLY <2>2, <3>1, ModAdd
  <2> QED BY <1>2, <2>1, <2>3
<1>4. (made - len) % M = o
  <2> DEFINE a == o + len
             c == -len
  <2>1. a \in Int /\ c \in Int /\ made = a % M /\ a + c = o /\ made + c = made - len
    BY <1>1, <1>2
  <2> HIDE DEF a, c
  <2>2. made % M = a % M
    <3>1. made \in 0 .. M - 1
      BY ONLY <1>1, <2>1, ModDef
    <3> QED BY ONLY <1>1, <2>1, <3>1, ModSmall
  <2>3. (made + c) % M = (a + c) % M
    BY ONLY <1>1, <1>2, <2>1, <2>2, ModAdd
  <2>4. o % M = o
    BY ONLY <1>1, ModSmall
  <2> QED BY <2>1, <2>3, <2>4
<1>5. origin' = [origin EXCEPT ![fmbuf] = o]
  <2>1. origin' = [origin EXCEPT ![fmbuf] =
                     IF n = 0 THEN origin[fmbuf]
                     ELSE IF len = 0 \/ origin[fmbuf] = (made - len) % M
                            THEN (made - len) % M ELSE None]
    BY DEF Generate, M
  <2> QED BY <1>4, <2>1 DEF o
<1>6. origin' = origin
  BY <1>1, <1>5 DEF o
<1> QED BY <1>3, <1>6 DEF o

(* A step keeps the types. *)
LEMMA CarrierTypesStep ==
  ASSUME CarrierTypes, TwoBuffers, Carrier, [Next]_vars PROVE CarrierTypes'
<1> USE DEF CarrierTypes
<1>0. M \in Nat \ {0} /\ Numbers = 0 .. M - 1
  BY FmAssumption DEF M, Numbers
<1>1. CASE FmFill
  <2>1. fm \notin {"cb_wait", "rest"} /\ carrier_per_signal \in 0 .. FL2K_BUF_LEN
        /\ Generate(fmbuf, len, carrier_per_signal)
    BY <1>1 DEF FmFill
  <2>2. origin' = origin /\ made' = (origin[fmbuf] + (len + carrier_per_signal)) % M
    BY <2>1, GenerateContinues DEF Carrier
  <2>3. origin[fmbuf] + (len + carrier_per_signal) \in Int
    BY DEF TwoBuffers, Numbers
  <2>4. made' \in Numbers
    BY <1>0, <2>2, <2>3, ModDef
  <2> QED BY <1>1, <2>2, <2>4, FmAssumption DEF FmFill
<1>2. CASE FmSwap
  <2>1. fm \notin {"cb_wait", "rest"} /\ FL2K_BUF_LEN - len \in 0 .. FL2K_BUF_LEN
        /\ Generate(fmbuf, len, FL2K_BUF_LEN - len)
    BY <1>2, FmAssumption DEF FmSwap
  <2>2. origin' = origin /\ made' = (origin[fmbuf] + (len + (FL2K_BUF_LEN - len))) % M
    BY <2>1, GenerateContinues DEF Carrier
  <2>3. origin[fmbuf] + (len + (FL2K_BUF_LEN - len)) \in Int
    BY FmAssumption DEF TwoBuffers, Numbers
  <2>4. made' \in Numbers
    BY <1>0, <2>2, <2>3, ModDef
  <2> QED BY <1>2, <2>2, <2>4 DEF FmSwap
<1>3. CASE FmRest
  <2> DEFINE r == carrier_per_signal - (FL2K_BUF_LEN - len)
  <2>1. r \in 0 .. FL2K_BUF_LEN /\ r # 0
    BY <1>3, FmAssumption DEF FmRest, Carrier
  <2>2. made + r \in Int /\ made - 0 \in Int
    BY <2>1 DEF Numbers
  <2>3. Generate(fmbuf, 0, r) /\ len' = r /\ carrier_per_signal' = carrier_per_signal
    BY <1>3 DEF FmRest
  <2> HIDE DEF r
  <2>4. made' = (made + r) % M /\ origin' = [origin EXCEPT ![fmbuf] = (made - 0) % M]
    BY <2>1, <2>3 DEF Generate, M
  <2>5. made' \in Numbers /\ (made - 0) % M \in Numbers
    BY <1>0, <2>2, <2>4, ModDef
  <2> QED BY <2>1, <2>3, <2>4, <2>5
<1>4. CASE FmExit \/ FmRead \/ FmSignal
  BY <1>4 DEF FmExit, FmRead, FmSignal
<1>5. CASE MainStart
  BY <1>5, FmAssumption DEF MainStart
<1>6. CASE ModLen \/ ModBlock \/ ModFread \/ ModWrite \/ MainClose
  BY <1>6 DEF ModLen, ModBlock, ModFread, ModWrite, MainClose
<1>7. CASE SigStop \/ SigExit
  BY <1>7 DEF SigStop, SigExit
<1>8. CASE CbSignal \/ CbReturn \/ EngineStopped \/ CbDeviceError
  BY <1>8 DEF CbSignal, CbReturn, EngineStopped, CbDeviceError
<1>9. CASE SpuriousWakeup \/ UNCHANGED vars
  BY <1>9 DEF SpuriousWakeup, vars
<1> QED
  BY <1>1, <1>2, <1>3, <1>4, <1>5, <1>6, <1>7, <1>8, <1>9 DEF Next, FmStep, CbStep

(* The modulator, the library and the signals leave the carrier alone;     *)
(* fm_worker's three steps carry it on.                                    *)
LEMMA CarrierStep ==
  ASSUME CarrierTypes, CarrierTypes', TwoBuffers, Carrier, [Next]_vars
  PROVE  Carrier'
<1> USE DEF CarrierTypes
<1>0. M \in Nat \ {0} /\ Numbers = 0 .. M - 1
  BY FmAssumption DEF M, Numbers
<1>1. CASE FmFill
  <2>1. fm \notin {"cb_wait", "rest"} /\ carrier_per_signal \in 0 .. FL2K_BUF_LEN
        /\ Generate(fmbuf, len, carrier_per_signal)
    BY <1>1 DEF FmFill
  <2>2. origin' = origin /\ made' = (origin[fmbuf] + (len + carrier_per_signal)) % M
    BY <2>1, GenerateContinues DEF Carrier
  <2>3. /\ len' = len + carrier_per_signal /\ fm' = "signal"
        /\ fmbuf' = fmbuf /\ txbuf' = txbuf /\ buf_prefilled' = buf_prefilled
        /\ carrier_per_signal' = carrier_per_signal /\ mod' = mod
    BY <1>1 DEF FmFill
  <2> QED BY <2>1, <2>2, <2>3 DEF Carrier
<1>2. CASE FmSwap
  <2>1. fm \notin {"cb_wait", "rest"} /\ FL2K_BUF_LEN - len \in 0 .. FL2K_BUF_LEN
        /\ Generate(fmbuf, len, FL2K_BUF_LEN - len)
    BY <1>2, FmAssumption DEF FmSwap
  <2>2. origin' = origin /\ made' = (origin[fmbuf] + (len + (FL2K_BUF_LEN - len))) % M
    BY <2>1, GenerateContinues DEF Carrier
  <2>3. len + (FL2K_BUF_LEN - len) = FL2K_BUF_LEN
    BY FmAssumption
  <2>4. origin[fmbuf] = origin'[txbuf']
    BY <1>2, <2>1, <2>2 DEF FmSwap, Carrier
  <2>5. /\ len' + carrier_per_signal' > FL2K_BUF_LEN
        /\ fm' \in {"cb_wait", "rest"} /\ mod' = mod
        /\ len' = len /\ carrier_per_signal' = carrier_per_signal
    BY <1>2 DEF FmSwap
  <2> QED BY <2>2, <2>3, <2>4, <2>5 DEF Carrier
<1>3. CASE FmRest
  <2> DEFINE r == carrier_per_signal - (FL2K_BUF_LEN - len)
             o == origin[txbuf]
             c == -FL2K_BUF_LEN
  <2>1. r \in 0 .. FL2K_BUF_LEN /\ r # 0 /\ fm = "rest" /\ mod # "start"
    BY <1>3, FmAssumption DEF FmRest, Carrier
  <2>2. made + r \in Int /\ made - 0 = made /\ made \in 0 .. M - 1
    BY <1>0, <2>1
  <2>3. /\ Generate(fmbuf, 0, r) /\ len' = r /\ fm' = "signal" /\ mod' = mod
        /\ buf_prefilled' = TRUE /\ fmbuf' = fmbuf /\ txbuf' = txbuf
    BY <1>3 DEF FmRest
  <2>4. made = (o + FL2K_BUF_LEN) % M /\ o \in 0 .. M - 1
    BY <1>0, <2>1 DEF Carrier, TwoBuffers
  <2>5. c \in Int /\ FL2K_BUF_LEN \in Int /\ made + c = made - FL2K_BUF_LEN
        /\ (o + FL2K_BUF_LEN) + c = o
    BY <2>2, <2>4, FmAssumption
  <2> HIDE DEF r, o, c
  <2>6. made % M = made
    BY ONLY <1>0, <2>2, ModSmall
  <2>7. made' = (made + r) % M /\ origin' = [origin EXCEPT ![fmbuf] = made]
    BY <2>1, <2>2, <2>3, <2>6 DEF Generate, M
  <2>8. origin'[fmbuf] = made /\ origin'[txbuf] = o
    BY <2>7 DEF TwoBuffers, o
  <2>9. (made - FL2K_BUF_LEN) % M = o
    <3> DEFINE a == o + FL2K_BUF_LEN
    <3>1. a \in Int /\ made = a % M
      BY <2>4, <2>5
    <3>3. a + c = o
      BY <2>5
    <3>a. made \in Int /\ c \in Int
      BY <2>2, <2>5
    <3> HIDE DEF a
    <3>2. (made + c) % M = (a + c) % M
      BY ONLY <1>0, <2>6, <3>1, <3>a, ModAdd
    <3>4. o % M = o
      BY ONLY <1>0, <2>4, ModSmall
    <3> QED BY <2>5, <3>2, <3>3, <3>4
  <2> QED BY <2>1, <2>3, <2>7, <2>8, <2>9 DEF Carrier
<1>4. CASE FmExit \/ FmRead \/ FmSignal
  <2>1. CASE FmExit
    BY <2>1 DEF FmExit, Carrier
  <2>2. CASE FmRead
    BY <2>2 DEF FmRead, Carrier
  <2>3. CASE FmSignal
    BY <2>3 DEF FmSignal, FmCondSignal, Carrier
  <2> QED BY <1>4, <2>1, <2>2, <2>3
<1>5. CASE MainStart
  <2>1. mod = "start" /\ len + carrier_per_signal <= FL2K_BUF_LEN
    BY <1>5, FmAssumption DEF MainStart, Carrier
  <2>2. fm \notin {"cb_wait", "rest"}
    BY <2>1, FmAssumption DEF Carrier
  <2> QED BY <1>5, <2>2 DEF MainStart, Carrier
<1>6. CASE ModLen \/ ModBlock \/ ModFread \/ ModWrite \/ MainClose
  BY <1>6 DEF ModLen, ModBlock, ModFread, ModWrite, MainClose, Carrier
<1>7. CASE SigStop \/ SigExit
  BY <1>7 DEF SigStop, SigExit, FmCondSignal, Carrier
<1>8. CASE CbSignal \/ CbReturn \/ EngineStopped \/ CbDeviceError
  BY <1>8 DEF CbSignal, CbReturn, EngineStopped, CbDeviceError, FmCondSignal, Carrier
<1>9. CASE SpuriousWakeup \/ UNCHANGED vars
  BY <1>9 DEF SpuriousWakeup, vars, Carrier
<1> QED
  BY <1>1, <1>2, <1>3, <1>4, <1>5, <1>6, <1>7, <1>8, <1>9 DEF Next, FmStep, CbStep

(* Both hold in every state. *)
LEMMA CarrierInvariant == Spec => [](CarrierTypes /\ Carrier)
<1> USE DEF CarrierTypes
<1>0. M \in Nat \ {0} /\ Numbers = 0 .. M - 1 /\ 0 \in Numbers
  BY FmAssumption DEF M, Numbers
<1>1. Init => CarrierTypes /\ Carrier
  <2> SUFFICES ASSUME Init PROVE CarrierTypes /\ Carrier
    OBVIOUS
  <2>1. CarrierTypes
    BY <1>0, FmAssumption DEF Init
  <2>2. origin[fmbuf] = 0 /\ origin[txbuf] = 0 /\ made = 0
    BY DEF Init, Buffers
  <2>3. origin[fmbuf] + len = 0
    BY <2>2 DEF Init
  <2>4. 0 % M = 0
    BY <1>0, ModSmall
  <2> QED BY <2>1, <2>2, <2>3, <2>4 DEF Init, Carrier
<1>2. TwoBuffers /\ (CarrierTypes /\ Carrier) /\ [Next]_vars => (CarrierTypes /\ Carrier)'
  BY CarrierTypesStep, CarrierStep
<1> QED BY <1>1, <1>2, TwoBuffersInvariant, PTL DEF Spec

(* The buffers handed over to the library hold one carrier without a gap   *)
(* or a repetition: whatever the rate, where the signals end in the        *)
(* buffers and however fm_worker waits, the buffer that is swapped out is  *)
(* full and continues the one before.                                      *)
THEOREM CarrierDoesContinue == Spec => CarrierContinues
<1> DEFINE Handed ==
      txbuf' # txbuf =>
        /\ origin'[txbuf'] # None
        /\ origin[txbuf] = (origin'[txbuf'] - FL2K_BUF_LEN) % (2 * FL2K_BUF_LEN)
        /\ made' = (origin'[txbuf'] + FL2K_BUF_LEN) % (2 * FL2K_BUF_LEN)
<1>1. TwoBuffers /\ CarrierTypes /\ Carrier /\ [Next]_vars => [Handed]_vars
  <2> SUFFICES ASSUME TwoBuffers, CarrierTypes, Carrier, Next, txbuf' # txbuf
               PROVE  Handed
    OBVIOUS
  <2>1. FmSwap
    <3>1. CASE FmExit \/ FmRead \/ FmFill \/ FmRest \/ FmSignal
      BY <3>1 DEF FmExit, FmRead, FmFill, FmRest, FmSignal
    <3>2. CASE MainStart \/ ModLen \/ ModBlock \/ ModFread \/ ModWrite \/ MainClose
      BY <3>2 DEF MainStart, ModLen, ModBlock, ModFread, ModWrite, MainClose
    <3>3. CASE SigStop \/ SigExit \/ CbSignal \/ CbReturn \/ EngineStopped
                 \/ CbDeviceError \/ SpuriousWakeup
      BY <3>3 DEF SigStop, SigExit, CbSignal, CbReturn, EngineStopped,
                  CbDeviceError, SpuriousWakeup
    <3> QED BY <3>1, <3>2, <3>3 DEF Next, FmStep, CbStep
  <2>2. /\ fm \notin {"cb_wait", "rest"} /\ buf_prefilled /\ txbuf' = fmbuf
        /\ FL2K_BUF_LEN - len \in 0 .. FL2K_BUF_LEN
        /\ Generate(fmbuf, len, FL2K_BUF_LEN - len)
    BY <2>1, FmAssumption DEF FmSwap, CarrierTypes
  <2>3. origin' = origin /\ made' = (origin[fmbuf] + (len + (FL2K_BUF_LEN - len))) % M
    BY <2>2, GenerateContinues DEF Carrier
  <2>4. len + (FL2K_BUF_LEN - len) = FL2K_BUF_LEN
    BY FmAssumption DEF CarrierTypes
  <2>5. origin[txbuf] = (origin[fmbuf] - FL2K_BUF_LEN) % M
    BY <2>2 DEF Carrier
  <2>6. origin[fmbuf] # None
    BY DEF CarrierTypes, TwoBuffers, Numbers, None
  <2> QED BY <2>2, <2>3, <2>4, <2>5, <2>6 DEF M
<1> QED BY <1>1, TwoBuffersInvariant, CarrierInvariant, PTL DEF Spec, CarrierContinues

-----------------------------------------------------------------------------
(* The types of the ring and of what the modulator has still to write.     *)
RingTypes ==
  /\ readpos \in Ring /\ writepos \in Ring /\ lastwritepos \in Ring
  /\ unread \in Seq(Ring) /\ samples \in 0 .. BUFFER_SAMPLES
  /\ mod = "write" => samples # 0

(* Entries from readpos to writepos, none if the positions are equal.      *)
Gap == IF readpos <= writepos THEN writepos - readpos
                              ELSE writepos - readpos + BUFFER_SAMPLES

(* The place d entries before writepos. *)
Back(d) == IF d <= writepos THEN writepos - d ELSE writepos - d + BUFFER_SAMPLES

(* What fm_worker has not read lies right behind writepos. *)
Consecutive ==
  ~overtaken =>
    \A i \in 1 .. Len(unread) : unread[i] = Back(Len(unread) + 1 - i)

(* It lies between the positions; equal ones are a full ring, except for a *)
(* modulator that has measured its room: what it has still to write fits.  *)
Window ==
  ~overtaken =>
    IF mod \in {"fread", "write"}
      THEN Len(unread) <= Gap /\ samples + Gap <= BUFFER_SAMPLES
      ELSE Len(unread) <= IF Gap = 0 THEN BUFFER_SAMPLES ELSE Gap

(* lastwritepos is where the newest of it lies. *)
Newest == ~overtaken /\ unread # <<>> => lastwritepos = unread[Len(unread)]

(* The inductive invariant of the ring. *)
RingInv == RingTypes /\ Consecutive /\ Window /\ Newest /\ SlopeBeforeUse

(* A position moves on by one, or round. *)
LEMMA RingStep ==
  ASSUME NEW p \in Ring
  PROVE  /\ (p + 1) % BUFFER_SAMPLES \in Ring
         /\ (p + 1) % BUFFER_SAMPLES = IF p + 1 = BUFFER_SAMPLES THEN 0 ELSE p + 1
<1>1. p \in 0 .. BUFFER_SAMPLES - 1 /\ BUFFER_SAMPLES \in Nat \ {0}
  BY FmAssumption DEF Ring
<1>2. (p + 1) % BUFFER_SAMPLES = IF p + 1 = BUFFER_SAMPLES THEN 0 ELSE p + 1
  BY <1>1, ModStep
<1> QED BY <1>1, <1>2 DEF Ring

(* The length of what is not read. *)
LEMMA UnreadLength ==
  ASSUME RingTypes
  PROVE  /\ Len(unread) \in Nat
         /\ unread = <<>> <=> Len(unread) = 0
         /\ \A i \in 1 .. Len(unread) : unread[i] \in Ring
BY LenProperties, EmptySeq, ElementOfSeq DEF RingTypes

(* Only at the place it is written to may a frequency be lost, and there   *)
(* is room: the place is behind none of those not read.                    *)
LEMMA RoomToWrite ==
  ASSUME RingInv, mod = "write", ~overtaken
  PROVE  /\ Len(unread) < BUFFER_SAMPLES
         /\ \A i \in 1 .. Len(unread) : unread[i] # writepos
<1> USE FmAssumption DEF RingInv, RingTypes, Ring
<1>1. Len(unread) <= Gap /\ Gap < BUFFER_SAMPLES /\ Len(unread) \in Nat /\ Gap \in Nat
  BY UnreadLength DEF Window, Gap
<1>2. ASSUME NEW i \in 1 .. Len(unread) PROVE unread[i] # writepos
  <2>1. unread[i] = Back(Len(unread) + 1 - i)
    BY DEF Consecutive
  <2>2. Len(unread) + 1 - i \in 1 .. BUFFER_SAMPLES - 1
    BY <1>1
  <2> QED BY <2>1, <2>2 DEF Back
<1> QED BY <1>1, <1>2

(* modulate_sample writes behind everything that is not read. *)
LEMMA WriteKeepsRing ==
  ASSUME RingInv, ModWrite PROVE RingInv'
<1> USE FmAssumption
<1>1. /\ writepos \in Ring /\ lastwritepos \in Ring /\ readpos \in Ring
      /\ unread \in Seq(Ring) /\ samples \in 1 .. BUFFER_SAMPLES
      /\ Len(unread) \in Nat
  BY UnreadLength DEF RingInv, RingTypes, ModWrite
<1>2. /\ mod = "write"
      /\ IF overtaken THEN UNCHANGED <<unread, sloped>>
                      ELSE /\ unread' = Append(unread, writepos)
                           /\ sloped' = (sloped \cup {lastwritepos}) \ {writepos}
      /\ lastwritepos' = writepos /\ readpos' = readpos /\ overtaken' = overtaken
      /\ samples' = samples - 1
      /\ mod' = IF samples' = 0 THEN "len" ELSE "write"
      /\ writepos' = IF writepos + 1 = BUFFER_SAMPLES THEN 0 ELSE writepos + 1
  BY <1>1, RingStep DEF ModWrite
<1>3. ~overtaken =>
        /\ unread' \in Seq(Ring) /\ Len(unread') = Len(unread) + 1
        /\ \A i \in 1 .. Len(unread) : unread'[i] = unread[i]
        /\ unread'[Len(unread) + 1] = writepos
  BY <1>1, <1>2, AppendProperties
<1>4. RingTypes'
  <2>1. unread' \in Seq(Ring)
    BY <1>1, <1>2, <1>3
  <2> QED BY <1>1, <1>2, <2>1 DEF RingTypes, Ring
<1> SUFFICES ASSUME ~overtaken PROVE (Consecutive /\ Window /\ Newest /\ SlopeBeforeUse)'
  BY <1>2, <1>4 DEF RingInv, Consecutive, Window, Newest, SlopeBeforeUse
<1>5. /\ Len(unread) < BUFFER_SAMPLES
      /\ \A i \in 1 .. Len(unread) : unread[i] # writepos
  BY <1>2, RoomToWrite
<1>6. Consecutive'
  <2> SUFFICES ASSUME NEW i \in 1 .. Len(unread'), NEW d, d = Len(unread') + 1 - i
               PROVE  unread'[i] = IF d <= writepos' THEN writepos' - d
                                   ELSE writepos' - d + BUFFER_SAMPLES
    BY DEF Consecutive, Back
  <2>1. CASE i \in 1 .. Len(unread)
    <3>1. unread'[i] = Back(Len(unread) + 1 - i)
      BY <1>3, <2>1 DEF RingInv, Consecutive
    <3>2. /\ Len(unread) + 1 - i \in 1 .. BUFFER_SAMPLES - 1
          /\ d = (Len(unread) + 1 - i) + 1
      BY <1>1, <1>3, <1>5, <2>1
    <3> DEFINE e == Len(unread) + 1 - i
    <3>3. unread'[i] = Back(e) /\ e \in 1 .. BUFFER_SAMPLES - 1 /\ d = e + 1
      BY <1>3, <2>1, <3>1, <3>2
    <3>4. /\ writepos \in 0 .. BUFFER_SAMPLES - 1
          /\ writepos' = IF writepos + 1 = BUFFER_SAMPLES THEN 0 ELSE writepos + 1
      BY <1>1, <1>2 DEF Ring
    <3> HIDE DEF e
    <3>5. CASE e <= writepos
      BY ONLY <3>3, <3>4, <3>5, FmAssumption DEF Back
    <3>6. CASE e > writepos
      BY ONLY <3>3, <3>4, <3>6, FmAssumption DEF Back
    <3>7. e <= writepos \/ e > writepos
      BY <3>3, <3>4
    <3> QED BY ONLY <3>5, <3>6, <3>7
  <2>2. CASE i = Len(unread) + 1
    <3>1. d = 1 /\ unread'[i] = writepos
      BY <1>1, <1>3, <2>2
    <3>2. /\ writepos \in 0 .. BUFFER_SAMPLES - 1
          /\ writepos' = IF writepos + 1 = BUFFER_SAMPLES THEN 0 ELSE writepos + 1
      BY <1>1, <1>2 DEF Ring
    <3> QED BY ONLY <3>1, <3>2, FmAssumption
  <2> QED BY <1>1, <1>3, <2>1, <2>2
<1>7. Window'
  <2>1. Len(unread) <= Gap /\ samples + Gap <= BUFFER_SAMPLES
    BY <1>2 DEF RingInv, Window
  <2>2. Gap \in 0 .. BUFFER_SAMPLES - 1
    BY <1>1 DEF Gap, Ring
  <2>3. Gap' = IF Gap + 1 = BUFFER_SAMPLES THEN 0 ELSE Gap + 1
    BY <1>1, <1>2 DEF Gap, Ring
  <2> HIDE DEF Gap
  <2> QED BY <1>1, <1>2, <1>3, <2>1, <2>2, <2>3 DEF Window
<1>8. Newest'
  BY <1>1, <1>2, <1>3 DEF Newest
<1>9. SlopeBeforeUse'
  <2> SUFFICES ASSUME NEW i \in 1 .. Len(unread) PROVE unread[i] \in sloped'
    BY <1>1, <1>3 DEF SlopeBeforeUse
  <2>1. unread[i] # writepos
    BY <1>5
  <2>2. CASE i \in 1 .. Len(unread) - 1
    BY <1>2, <2>1, <2>2 DEF RingInv, SlopeBeforeUse
  <2>3. CASE i = Len(unread)
    <3>1. unread # <<>>
      BY <1>1, EmptySeq
    <3> QED BY <1>2, <2>1, <2>3, <3>1 DEF RingInv, Newest
  <2> QED BY <1>1, <2>2, <2>3
<1> QED BY <1>6, <1>7, <1>8, <1>9

(* fm_worker reads the oldest entry, or one that it has read before, unless*)
(* it passes the modulator.                                                *)
LEMMA ReadKeepsRing ==
  ASSUME RingInv, FmRead PROVE RingInv'
<1> USE FmAssumption
<1>1. /\ writepos \in Ring /\ lastwritepos \in Ring /\ readpos \in Ring
      /\ unread \in Seq(Ring) /\ samples \in 0 .. BUFFER_SAMPLES
      /\ Len(unread) \in Nat
  BY UnreadLength DEF RingInv, RingTypes
<1>2. /\ unread' = IF overtaken' THEN <<>>
                    ELSE IF unread # <<>> /\ Head(unread) = readpos THEN Tail(unread)
                    ELSE unread
      /\ sloped' = IF overtaken' THEN {} ELSE sloped
      /\ overtaken' = (overtaken \/ (readpos = writepos /\ mod \in {"fread", "write"}))
      /\ writepos' = writepos /\ lastwritepos' = lastwritepos
      /\ samples' = samples /\ mod' = mod
      /\ readpos' = IF readpos + 1 = BUFFER_SAMPLES THEN 0 ELSE readpos + 1
  BY <1>1, RingStep DEF FmRead
<1>3. unread # <<>> =>
        /\ Tail(unread) \in Seq(Ring) /\ Len(Tail(unread)) = Len(unread) - 1
        /\ \A i \in 1 .. Len(Tail(unread)) : Tail(unread)[i] = unread[i + 1]
        /\ Len(unread) \in Nat \ {0} /\ Head(unread) = unread[1]
  BY <1>1, HeadTailProperties, EmptySeq
<1>4. RingTypes'
  <2>1. unread' \in Seq(Ring)
    BY <1>1, <1>2, <1>3, EmptySeq
  <2>2. readpos' \in Ring
    BY <1>1, <1>2 DEF Ring
  <2> QED BY <1>2, <2>1, <2>2 DEF RingInv, RingTypes
<1> SUFFICES ASSUME ~overtaken'
             PROVE  (Consecutive /\ Window /\ Newest /\ SlopeBeforeUse)'
  BY <1>4 DEF RingInv, Consecutive, Window, Newest, SlopeBeforeUse
<1>5. /\ Gap \in 0 .. BUFFER_SAMPLES - 1
      /\ Gap' = IF Gap = 0 THEN BUFFER_SAMPLES - 1 ELSE Gap - 1
      /\ mod \in {"fread", "write"} => Gap # 0
  <2>1. Gap \in 0 .. BUFFER_SAMPLES - 1
    BY <1>1 DEF Gap, Ring
  <2>2. Gap' = IF Gap = 0 THEN BUFFER_SAMPLES - 1 ELSE Gap - 1
    BY <1>1, <1>2 DEF Gap, Ring
  <2>3. mod \in {"fread", "write"} => readpos # writepos
    BY <1>2
  <2>4. readpos # writepos => Gap # 0
    BY <1>1 DEF Gap, Ring
  <2> QED BY <2>1, <2>2, <2>3, <2>4
<1>6. ~overtaken
  BY <1>2
<1>7. CASE unread # <<>> /\ Head(unread) = readpos
  <2>1. unread' = Tail(unread)
    BY <1>2, <1>7
  <2>2. Consecutive'
    <3> SUFFICES ASSUME NEW i \in 1 .. Len(unread'), NEW d, d = Len(unread') + 1 - i
                 PROVE  unread'[i] = IF d <= writepos' THEN writepos' - d
                                     ELSE writepos' - d + BUFFER_SAMPLES
      BY DEF Consecutive, Back
    <3>1. i + 1 \in 1 .. Len(unread) /\ unread'[i] = unread[i + 1]
      BY <1>3, <1>7, <2>1
    <3>2. unread[i + 1] = Back(Len(unread) + 1 - (i + 1))
      BY <1>6, <3>1 DEF RingInv, Consecutive
    <3>3. Len(unread) + 1 - (i + 1) = d
      BY <1>3, <1>7, <2>1
    <3> QED BY <1>2, <3>1, <3>2, <3>3 DEF Back
  <2>3. Window'
    <3> HIDE DEF Gap
    <3> QED BY <1>1, <1>2, <1>3, <1>5, <1>6, <1>7, <2>1 DEF RingInv, Window
  <2>4. Newest'
    <3> SUFFICES ASSUME unread' # <<>> PROVE lastwritepos' = unread'[Len(unread')]
      BY DEF Newest
    <3>1. Len(unread') \in Nat \ {0}
      BY <1>3, <1>7, <2>1, EmptySeq
    <3>2. unread'[Len(unread')] = unread[Len(unread)]
      BY <1>3, <1>7, <2>1, <3>1
    <3> QED BY <1>2, <1>6, <1>7, <3>2 DEF RingInv, Newest
  <2>5. SlopeBeforeUse'
    <3> SUFFICES ASSUME NEW i \in 1 .. Len(unread') - 1 PROVE unread'[i] \in sloped
      BY <1>2 DEF SlopeBeforeUse
    <3>1. i + 1 \in 1 .. Len(unread) - 1 /\ unread'[i] = unread[i + 1]
      BY <1>3, <1>7, <2>1
    <3> QED BY <1>6, <3>1 DEF RingInv, SlopeBeforeUse
  <2> QED BY <2>2, <2>3, <2>4, <2>5
<1>8. CASE ~(unread # <<>> /\ Head(unread) = readpos)
  <2>1. unread' = unread
    BY <1>2, <1>8
  <2>2. Consecutive' /\ Newest' /\ SlopeBeforeUse'
    BY <1>2, <1>6, <2>1 DEF RingInv, Consecutive, Newest, SlopeBeforeUse, Back
  <2>3. Len(unread) <= IF Gap = 0 THEN BUFFER_SAMPLES ELSE Gap
    <3> HIDE DEF Gap
    <3> QED BY <1>5, <1>6 DEF RingInv, Window
  <2>4. Len(unread) # IF Gap = 0 THEN BUFFER_SAMPLES ELSE Gap
    <3> SUFFICES ASSUME Len(unread) = IF Gap = 0 THEN BUFFER_SAMPLES ELSE Gap
                 PROVE  FALSE
      OBVIOUS
    <3>1. unread # <<>>
      BY <1>5, EmptySeq
    <3>2. Head(unread) = Back(Len(unread))
      <4>1. 1 \in 1 .. Len(unread) /\ Len(unread) + 1 - 1 = Len(unread)
        BY <1>3, <3>1
      <4>2. unread[1] = Back(Len(unread) + 1 - 1)
        BY <1>6, <4>1 DEF RingInv, Consecutive
      <4> QED BY <1>3, <3>1, <4>1, <4>2
    <3>3. Back(Len(unread)) = readpos
      BY <1>1 DEF Back, Gap, Ring
    <3> QED BY <1>8, <3>1, <3>2, <3>3
  <2>5. Window'
    <3>1. mod \in {"fread", "write"} => samples + Gap <= BUFFER_SAMPLES
      BY <1>6 DEF RingInv, Window
    <3> HIDE DEF Gap
    <3> QED BY <1>1, <1>2, <1>5, <2>1, <2>3, <2>4, <3>1 DEF Window
  <2> QED BY <2>2, <2>5
<1> QED BY <1>7, <1>8

(* The modulator's loop measures its room, or the signal wakes it.         *)
LEMMA ModulatorKeepsRing ==
  ASSUME RingInv, UNCHANGED ringVars,
         \/ ModLen \/ ModFread
         \/ samples' = samples /\ (mod' = mod \/ {mod, mod'} \cap {"fread", "write"} = {})
  PROVE  RingInv'
<1> USE FmAssumption
<1>1. /\ writepos \in Ring /\ readpos \in Ring /\ samples \in 0 .. BUFFER_SAMPLES
      /\ Len(unread) \in Nat
  BY UnreadLength DEF RingInv, RingTypes
<1>2. (Consecutive /\ Newest /\ SlopeBeforeUse)'
  BY DEF RingInv, Consecutive, Newest, SlopeBeforeUse, Back
<1>3. Gap \in 0 .. BUFFER_SAMPLES - 1 /\ Gap' = Gap
  BY <1>1 DEF Gap, Ring
<1>4. CASE ModLen
  <2>1. mod = "len" /\ mod' # "write" /\ (mod' = "fread" => samples' = writelen /\ writelen > 1)
        /\ (mod' # "fread" => samples' = 0)
    BY <1>4 DEF ModLen
  <2>2. writelen > 1 => writelen \in 0 .. BUFFER_SAMPLES /\ Gap # 0 /\ writelen + Gap <= BUFFER_SAMPLES
    BY <1>1 DEF writelen, Gap, Ring
  <2> HIDE DEF Gap
  <2>3. Window'
    BY <1>1, <1>3, <2>1, <2>2 DEF RingInv, Window
  <2>4. RingTypes'
    BY <2>1, <2>2 DEF RingInv, RingTypes
  <2> QED BY <1>2, <2>3, <2>4 DEF RingInv
<1>5. CASE ModFread
  <2>1. /\ mod = "fread" /\ samples' \in 0 .. samples
        /\ mod' = IF samples' = 0 THEN "len" ELSE "write"
    BY <1>1, <1>5 DEF ModFread
  <2> HIDE DEF Gap
  <2>2. Window'
    <3>1. overtaken' = overtaken /\ unread' = unread
      OBVIOUS
    <3> SUFFICES ASSUME ~overtaken
                 PROVE  /\ Len(unread) <= Gap /\ samples' + Gap <= BUFFER_SAMPLES
                        /\ Len(unread) <= IF Gap = 0 THEN BUFFER_SAMPLES ELSE Gap
      BY <1>3, <3>1 DEF Window
    <3>2. Len(unread) <= Gap /\ samples + Gap <= BUFFER_SAMPLES
      BY <2>1 DEF RingInv, Window
    <3>3. PICK n \in 0 .. samples : samples' = n
      BY <2>1
    <3>4. n + Gap <= BUFFER_SAMPLES
      BY <1>1, <1>3, <3>2
    <3> QED BY <1>1, <1>3, <3>2, <3>3, <3>4
  <2>3. RingTypes'
    BY <1>1, <2>1 DEF RingInv, RingTypes
  <2> QED BY <1>2, <2>2, <2>3 DEF RingInv
<1>6. CASE samples' = samples /\ (mod' = mod \/ {mod, mod'} \cap {"fread", "write"} = {})
  <2> HIDE DEF Gap
  <2>1. \/ mod' = mod
        \/ mod \notin {"fread", "write"} /\ mod' \notin {"fread", "write"}
    BY <1>6
  <2>2. Window' /\ RingTypes'
    BY <1>3, <1>6, <2>1 DEF RingInv, Window, RingTypes
  <2> QED BY <1>2, <2>2 DEF RingInv
<1> QED BY <1>4, <1>5, <1>6

(* It holds in every state. *)
LEMMA RingInvariant == Spec => []RingInv
<1>1. Init => RingInv
  <2> SUFFICES ASSUME Init PROVE RingInv
    OBVIOUS
  <2>1. unread = <<>> /\ Len(unread) = 0 /\ unread \in Seq(Ring)
    BY EmptySeq DEF Init
  <2>2. RingTypes
    BY <2>1, FmAssumption DEF Init, RingTypes, Ring
  <2>3. Window
    BY <2>1, FmAssumption DEF Init, Window, Gap
  <2>4. Consecutive /\ Newest /\ SlopeBeforeUse
    BY <2>1 DEF Consecutive, Newest, SlopeBeforeUse
  <2> QED BY <2>2, <2>3, <2>4 DEF RingInv
<1>2. RingInv /\ [Next]_vars => RingInv'
  <2> SUFFICES ASSUME RingInv, [Next]_vars PROVE RingInv'
    OBVIOUS
  <2>1. CASE FmRead
    BY <2>1, ReadKeepsRing
  <2>2. CASE ModWrite
    BY <2>2, WriteKeepsRing
  <2>3. CASE ModLen \/ ModFread
    BY <2>3, ModulatorKeepsRing DEF ModLen, ModFread
  <2>4. CASE FmExit \/ FmFill \/ FmSwap \/ FmRest
    BY <2>4, ModulatorKeepsRing DEF FmExit, FmFill, FmSwap, FmRest
  <2>5. CASE FmSignal \/ SigExit \/ CbDeviceError
    BY <2>5, ModulatorKeepsRing DEF FmSignal, SigExit, CbDeviceError, FmCondSignal
  <2>6. CASE MainStart \/ ModBlock \/ MainClose \/ SigStop
    BY <2>6, ModulatorKeepsRing DEF MainStart, ModBlock, MainClose, SigStop
  <2>7. CASE CbSignal \/ CbReturn \/ EngineStopped \/ UNCHANGED vars
    BY <2>7, ModulatorKeepsRing DEF CbSignal, CbReturn, EngineStopped, vars
  <2>8. CASE SpuriousWakeup
    BY <2>8, ModulatorKeepsRing DEF SpuriousWakeup
  <2> QED
    BY <2>1, <2>2, <2>3, <2>4, <2>5, <2>6, <2>7, <2>8 DEF Next, FmStep, CbStep
<1> QED BY <1>1, <1>2, PTL DEF Spec

(* Until fm_worker passes the modulator within a write, no frequency is    *)
(* overwritten that was not used, although the modulator has measured its  *)
(* room before it waited for its file.                                     *)
THEOREM NoSampleIsLost == Spec => NoSampleLost
<1>1. RingInv /\ [Next]_vars =>
        [mod = "write" /\ samples' # samples /\ ~overtaken
           => \A i \in DOMAIN unread : unread[i] # writepos]_vars
  <2> SUFFICES ASSUME RingInv, mod = "write", ~overtaken
               PROVE  \A i \in DOMAIN unread : unread[i] # writepos
    OBVIOUS
  <2>1. DOMAIN unread = 1 .. Len(unread)
    BY LenProperties DEF RingInv, RingTypes
  <2> QED BY <2>1, RoomToWrite
<1> QED BY <1>1, RingInvariant, PTL DEF Spec, NoSampleLost

(* Until then every frequency not yet used but the newest has its own      *)
(* slope.                                                                  *)
THEOREM SlopeIsKnown == Spec => []SlopeBeforeUse
BY RingInvariant, PTL DEF RingInv
=============================================================================
