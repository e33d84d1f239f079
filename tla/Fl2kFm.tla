------------------------------- MODULE Fl2kFm -------------------------------
(***************************************************************************)
(* The FM transmitter (src/fl2k_fm.c).  The modulator, on the main thread, *)
(* turns audio samples into pairs of a frequency and a slope and puts them *)
(* into a ring; fm_worker reads one pair after the other, makes            *)
(* carrier_per_signal samples of the carrier of each and fills two buffers *)
(* in turn, of which the library's sample worker converts one.  All they   *)
(* share are plain variables and two condition variables, waited for       *)
(* without a predicate: a wait may also return without a signal.           *)
(***************************************************************************)
EXTENDS Integers, Sequences

CONSTANTS
  BUFFER_SAMPLES,  \* entries of the ring, a power of two
  AUDIO_BUF_SIZE,  \* most samples one fread may return
  FL2K_BUF_LEN,    \* samples of a buffer
  CarrierRates,    \* possible values of samp_rate / input_freq
  StereoFlags      \* possible values of stereo_flag

ASSUME FmAssumption ==
  /\ BUFFER_SAMPLES \in Nat /\ BUFFER_SAMPLES > 1
  /\ AUDIO_BUF_SIZE \in 1 .. BUFFER_SAMPLES
  /\ FL2K_BUF_LEN \in Nat \ {0}
  /\ CarrierRates \subseteq 1 .. FL2K_BUF_LEN
  /\ StereoFlags \subseteq BOOLEAN

Ring == 0 .. BUFFER_SAMPLES - 1
Buffers == {1, 2}
None == -1

VARIABLES
  readpos, writepos, lastwritepos,
  stereo_flag,         \* two audio samples make one entry
  carrier_per_signal,  \* 0 until main has computed it
  do_exit,
  fm,          \* program counter of fm_worker
  len,         \* samples in fmbuf
  fmbuf, txbuf, buf_prefilled,
  mod,         \* program counter of the main thread
  samples,     \* samples the modulator has still to write
  sig,         \* program counter of the signal handler
  engine,      \* the library: "off", "on" or "last", one more callback
  cb,          \* program counter of fl2k_callback
  converting,  \* the buffer the library converts, or None
  spurious,    \* history: since the last callback fm_worker's wait for one
               \* has returned without a signal
  overtaken,   \* history: fm_worker passed the modulator while it wrote
  unread,      \* history until then: positions written and not read since,
               \* oldest first
  sloped,      \* history until then: positions whose slope belongs to their
               \* frequency
  made,        \* history: carrier samples made, modulo 2 * FL2K_BUF_LEN
  origin       \* history: number of the carrier sample at the start of each
               \* buffer, None if what follows does not continue it

ringVars == <<readpos, writepos, lastwritepos, unread, sloped, overtaken>>
worker == <<fm, len, fmbuf, txbuf, buf_prefilled, made, origin>>
params == <<carrier_per_signal, stereo_flag>>
modulator == <<mod, samples, params>>
library == <<engine, cb, converting, spurious>>
vars == <<ringVars, worker, modulator, library, do_exit, sig>>

Numbers == 0 .. 2 * FL2K_BUF_LEN - 1

(* The threads run once main has created fm_worker. *)
Init ==
  /\ readpos = 0 /\ writepos = 1 /\ lastwritepos = 1
  /\ stereo_flag \in StereoFlags
  /\ carrier_per_signal = 0 /\ do_exit = FALSE
  /\ fm = "read" /\ len = 0
  /\ fmbuf = 1 /\ txbuf = 2 /\ buf_prefilled = FALSE
  /\ mod = "start" /\ samples = 0 /\ sig = "none"
  /\ engine = "off" /\ cb = "idle" /\ converting = None /\ spurious = FALSE
  /\ unread = <<>> /\ sloped = {} /\ overtaken = FALSE
  /\ made = 0 /\ origin = [b \in Buffers |-> 0]

-----------------------------------------------------------------------------
(* fm_worker *)

FmExit ==
  /\ fm = "read" /\ do_exit
  /\ fm' = "exit"
  /\ UNCHANGED <<ringVars, len, fmbuf, txbuf, buf_prefilled, made, origin,
                 modulator, library, do_exit, sig>>

(* The entry at readpos is used, whether it is new or not.  A new one is   *)
(* the oldest of them, until fm_worker has passed the modulator.           *)
FmRead ==
  /\ fm = "read" /\ ~do_exit
  /\ readpos' = (readpos + 1) % BUFFER_SAMPLES
  /\ overtaken' = \/ overtaken
                   \/ (readpos = writepos /\ mod \in {"fread", "write"})
  /\ unread' = IF overtaken' THEN <<>>
               ELSE IF unread # <<>> /\ Head(unread) = readpos THEN Tail(unread)
               ELSE unread
  /\ sloped' = IF overtaken' THEN {} ELSE sloped
  /\ fm' = "fill"
  /\ UNCHANGED <<writepos, lastwritepos, len, fmbuf, txbuf,
                 buf_prefilled, made, origin, modulator, library, do_exit, sig>>

(* dds_real_buf: n samples of the carrier at position p of buffer b. *)
Generate(b, p, n) ==
  /\ made' = (made + n) % (2 * FL2K_BUF_LEN)
  /\ LET start == (made - p) % (2 * FL2K_BUF_LEN)
     IN origin' = [origin EXCEPT ![b] =
                     IF n = 0 THEN @
                     ELSE IF p = 0 \/ @ = start THEN start ELSE None]

(* Room for all samples of the signal: the else branch. *)
FmFill ==
  /\ fm = "fill" /\ len + carrier_per_signal <= FL2K_BUF_LEN
  /\ Generate(fmbuf, len, carrier_per_signal)
  /\ len' = len + carrier_per_signal
  /\ fm' = "signal"
  /\ UNCHANGED <<ringVars, fmbuf, txbuf, buf_prefilled, modulator, library,
                 do_exit, sig>>

(* Mutation: the next buffer is begun without waiting for the callback. *)
FmSwapNoWait ==
  /\ fm = "fill" /\ len + carrier_per_signal > FL2K_BUF_LEN
  /\ Generate(fmbuf, len, FL2K_BUF_LEN - len)
  /\ IF buf_prefilled THEN fmbuf' = txbuf /\ txbuf' = fmbuf
                      ELSE UNCHANGED <<fmbuf, txbuf>>
  /\ fm' = "rest"
  /\ UNCHANGED <<ringVars, len, buf_prefilled, modulator, library, do_exit,
                 sig>>

(* The end of the buffer is filled and, but for the first time, the        *)
(* buffers are swapped and the callback waited for.                        *)
FmSwap ==
  /\ fm = "fill" /\ len + carrier_per_signal > FL2K_BUF_LEN
  /\ Generate(fmbuf, len, FL2K_BUF_LEN - len)
  /\ IF buf_prefilled THEN fmbuf' = txbuf /\ txbuf' = fmbuf /\ fm' = "cb_wait"
                      ELSE UNCHANGED <<fmbuf, txbuf>> /\ fm' = "rest"
  /\ UNCHANGED <<ringVars, len, buf_prefilled, modulator, library, do_exit,
                 sig>>

(* Mutation: the remaining samples are not counted. *)
FmRestLost ==
  /\ fm = "rest"
  /\ Generate(fmbuf, 0, carrier_per_signal - (FL2K_BUF_LEN - len))
  /\ len' = 0
  /\ buf_prefilled' = TRUE
  /\ fm' = "signal"
  /\ UNCHANGED <<ringVars, fmbuf, txbuf, modulator, library, do_exit, sig>>

(* The remaining samples, at the start of the other buffer. *)
FmRest ==
  /\ fm = "rest"
  /\ LET remaining == carrier_per_signal - (FL2K_BUF_LEN - len)
     IN Generate(fmbuf, 0, remaining) /\ len' = remaining
  /\ buf_prefilled' = TRUE
  /\ fm' = "signal"
  /\ UNCHANGED <<ringVars, fmbuf, txbuf, modulator, library, do_exit, sig>>

(* pthread_cond_signal(&fm_cond), which reaches a modulator that waits. *)
FmCondSignal == mod' = IF mod = "wait" THEN "len" ELSE mod

(* Mutation: the modulator is not signalled. *)
FmSignalNobody ==
  /\ fm = "signal"
  /\ fm' = "read"
  /\ UNCHANGED <<ringVars, len, fmbuf, txbuf, buf_prefilled, made, origin,
                 modulator, library, do_exit, sig>>

FmSignal ==
  /\ fm = "signal"
  /\ FmCondSignal
  /\ fm' = "read"
  /\ UNCHANGED <<ringVars, len, fmbuf, txbuf, buf_prefilled, made, origin,
                 samples, params, library, do_exit, sig>>

-----------------------------------------------------------------------------
(* The main thread *)

(* fl2k_start_tx, which may fail unnoticed, and the constants needed. *)
MainStart ==
  /\ mod = "start"
  /\ engine' \in {"on", "off"}
  /\ carrier_per_signal' \in CarrierRates
  /\ mod' = "len"
  /\ UNCHANGED <<ringVars, worker, samples, stereo_flag, cb, converting,
                 spurious, do_exit, sig>>

(* Mutation: a full ring is taken for an empty one. *)
WritelenFull ==
  LET rp == IF readpos <= writepos THEN readpos + BUFFER_SAMPLES ELSE readpos
      room == rp - writepos
  IN IF room > AUDIO_BUF_SIZE THEN AUDIO_BUF_SIZE ELSE room

(* From one reading of readpos.  Equal positions are a full ring. *)
writelen ==
  LET rp == IF readpos < writepos THEN readpos + BUFFER_SAMPLES ELSE readpos
      room == rp - writepos
  IN IF room > AUDIO_BUF_SIZE THEN AUDIO_BUF_SIZE ELSE room

(* The loop of fm_modulator_mono or fm_modulator_stereo; "block" is before *)
(* the wait for fm_cond, whose mutex nobody else takes.                    *)
ModLen ==
  /\ mod = "len"
  /\ LET n == writelen
         room == n > 1 /\ (stereo_flag => n % 2 = 0)
     IN /\ samples' = IF ~do_exit /\ room THEN n ELSE 0
        /\ mod' = IF do_exit THEN "close" ELSE IF room THEN "fread" ELSE "block"
  /\ UNCHANGED <<ringVars, worker, params, library, do_exit, sig>>

ModBlock ==
  /\ mod = "block"
  /\ mod' = "wait"
  /\ UNCHANGED <<ringVars, worker, samples, params, library, do_exit, sig>>

(* fread may return fewer samples, and none at the end of the file; of a   *)
(* single one stereo makes no entry.                                       *)
ModFread ==
  /\ mod = "fread"
  /\ \E n \in 0 .. samples :
       /\ samples' = IF stereo_flag THEN n \div 2 ELSE n
       /\ do_exit' = (do_exit \/ n = 0)
  /\ mod' = IF samples' = 0 THEN "len" ELSE "write"
  /\ UNCHANGED <<ringVars, worker, params, library, sig>>

(* Mutation: the slope is stored with the sample it leads to, not its own. *)
ModWriteSlopeAhead ==
  /\ mod = "write"
  /\ IF overtaken THEN UNCHANGED <<unread, sloped>>
                  ELSE /\ sloped' = sloped \ {writepos}
                       /\ unread' = Append(unread, writepos)
  /\ lastwritepos' = writepos
  /\ writepos' = (writepos + 1) % BUFFER_SAMPLES
  /\ samples' = samples - 1
  /\ mod' = IF samples' = 0 THEN "len" ELSE "write"
  /\ UNCHANGED <<readpos, overtaken, worker, params, library, do_exit, sig>>

(* modulate_sample: the slope up to this frequency belongs to the entry    *)
(* before.                                                                 *)
ModWrite ==
  /\ mod = "write"
  /\ IF overtaken THEN UNCHANGED <<unread, sloped>>
                  ELSE /\ sloped' = (sloped \cup {lastwritepos}) \ {writepos}
                       /\ unread' = Append(unread, writepos)
  /\ lastwritepos' = writepos
  /\ writepos' = (writepos + 1) % BUFFER_SAMPLES
  /\ samples' = samples - 1
  /\ mod' = IF samples' = 0 THEN "len" ELSE "write"
  /\ UNCHANGED <<readpos, overtaken, worker, params, library, do_exit, sig>>

(* fl2k_close, which waits for the library to have stopped. *)
MainClose ==
  /\ mod = "close" /\ engine = "off"
  /\ mod' = "closed"
  /\ UNCHANGED <<ringVars, worker, samples, params, library, do_exit, sig>>

-----------------------------------------------------------------------------
(* sighandler: on a thread of its own or within any other *)

SigStop ==
  /\ sig = "none" /\ mod # "start"
  /\ engine' = IF engine = "on" THEN "last" ELSE engine
  /\ sig' = "exit"
  /\ UNCHANGED <<ringVars, worker, modulator, cb, converting, spurious,
                 do_exit>>

SigExit ==
  /\ sig = "exit"
  /\ do_exit' = TRUE
  /\ FmCondSignal
  /\ sig' = "done"
  /\ UNCHANGED <<ringVars, worker, samples, params, library>>

-----------------------------------------------------------------------------
(* fl2k_callback and the library *)

(* Mutation: fm_worker is not signalled. *)
CbSignalNobody ==
  /\ engine # "off" /\ cb = "idle"
  /\ converting' = None /\ spurious' = FALSE
  /\ cb' = "return"
  /\ UNCHANGED <<ringVars, worker, modulator, engine, do_exit, sig>>

(* The library has converted the last buffer and calls for the next one.   *)
CbSignal ==
  /\ engine # "off" /\ cb = "idle"
  /\ converting' = None /\ spurious' = FALSE
  /\ cb' = "return"
  /\ fm' = IF fm = "cb_wait" THEN "rest" ELSE fm
  /\ UNCHANGED <<ringVars, len, fmbuf, txbuf, buf_prefilled, made, origin,
                 modulator, engine, do_exit, sig>>

(* txbuf is returned. *)
CbReturn ==
  /\ cb = "return"
  /\ converting' = txbuf
  /\ cb' = "idle"
  /\ engine' = IF engine = "last" THEN "off" ELSE engine
  /\ UNCHANGED <<ringVars, worker, modulator, spurious, do_exit, sig>>

(* The library ends: stopped, or with the device lost, which it reports in *)
(* a callback of its own.                                                  *)
EngineStopped ==
  /\ engine = "last" /\ cb = "idle"
  /\ engine' = "off"
  /\ UNCHANGED <<ringVars, worker, modulator, cb, converting, spurious,
                 do_exit, sig>>

CbDeviceError ==
  /\ engine # "off" /\ cb = "idle"
  /\ do_exit' = TRUE
  /\ FmCondSignal
  /\ fm' = IF fm = "cb_wait" THEN "rest" ELSE fm
  /\ engine' = "off" /\ converting' = None /\ spurious' = FALSE
  /\ UNCHANGED <<ringVars, len, fmbuf, txbuf, buf_prefilled, made, origin,
                 samples, params, cb, sig>>

-----------------------------------------------------------------------------
(* pthread_cond_wait may return without a signal.  The modulator tests its *)
(* room again then, but fm_worker goes on.                                 *)
SpuriousWakeup ==
  /\ \/ fm = "cb_wait" /\ fm' = "rest" /\ spurious' = TRUE /\ UNCHANGED mod
     \/ mod = "wait" /\ mod' = "len" /\ UNCHANGED <<fm, spurious>>
  /\ UNCHANGED <<ringVars, len, fmbuf, txbuf, buf_prefilled, made, origin,
                 samples, params, engine, cb, converting, do_exit, sig>>

-----------------------------------------------------------------------------
FmStep == FmExit \/ FmRead \/ FmFill \/ FmSwap \/ FmRest \/ FmSignal
CbStep == CbSignal \/ CbReturn

Next ==
  \/ FmStep
  \/ MainStart \/ ModLen \/ ModBlock \/ ModFread \/ ModWrite \/ MainClose
  \/ SigStop \/ SigExit
  \/ CbStep \/ EngineStopped \/ CbDeviceError
  \/ SpuriousWakeup

Spec == Init /\ [][Next]_vars

(* fm_worker runs and the library goes on calling.  The modulator may be   *)
(* held by its file for ever.                                              *)
FairSpec == Spec /\ WF_vars(FmStep) /\ WF_vars(CbStep)

-----------------------------------------------------------------------------
(* fm_worker writes the buffer the library converts only after its wait    *)
(* for the callback has returned without a signal, and then only until the *)
(* next callback.  Signals may be lost, and the callback reads txbuf after *)
(* its signal: neither makes it do so.                                     *)
TxBufUntouched ==
  [][made' # made /\ fm \in {"fill", "rest"} /\ ~spurious
       => fmbuf # converting]_vars

(* Buffers are swapped when full, and what a buffer holds continues the    *)
(* carrier of the one handed over before: the part of a signal that did    *)
(* not fit is at the start of the next buffer.                             *)
CarrierContinues ==
  [][txbuf' # txbuf =>
       /\ origin'[txbuf'] # None
       /\ origin[txbuf] = (origin'[txbuf'] - FL2K_BUF_LEN) % (2 * FL2K_BUF_LEN)
       /\ made' = (origin'[txbuf'] + FL2K_BUF_LEN) % (2 * FL2K_BUF_LEN)]_vars

(* Every frequency is used before its place is written again, although     *)
(* writelen may be old when the entries are written; not so once fm_worker *)
(* has passed the modulator within a write, which nothing prevents.        *)
NoSampleLost ==
  [][mod = "write" /\ samples' # samples /\ ~overtaken
       => \A i \in DOMAIN unread : unread[i] # writepos]_vars

(* A frequency is used with its own slope, but for the newest one, whose   *)
(* slope is known with the next sample only.                               *)
SlopeBeforeUse ==
  ~overtaken => \A i \in 1 .. Len(unread) - 1 : unread[i] \in sloped

(* The modulator does not wait for ever for a place in the ring: its       *)
(* signal may be lost, but another follows while the library streams.      *)
ModulatorIsWoken == mod = "wait" ~> mod # "wait" \/ engine # "on" \/ do_exit

(* fm_worker does not wait for ever for the callback. *)
WorkerIsWoken == fm = "cb_wait" ~> fm # "cb_wait" \/ engine # "on"

=============================================================================
