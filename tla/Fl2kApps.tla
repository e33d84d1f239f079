------------------------------ MODULE Fl2kApps ------------------------------
(***************************************************************************)
(* The three streaming applications: fl2k_file plays a file, fl2k_tcp what *)
(* a server sends, fl2k_test a square wave whose rate it measures.  Each   *)
(* has a main thread that waits for do_exit, a signal handler, and a       *)
(* callback that the library's sample worker runs and that fills txbuf.    *)
(* The library (Fl2kTx) is reduced to its status and its calls.            *)
(***************************************************************************)
EXTENDS Integers

CONSTANTS
  Programs,     \* which of "file", "tcp", "test" are run
  FL2K_BUF_LEN, \* samples of a buffer
  FileLengths,  \* lengths of the file
  CbDrop,       \* 20 in the code: callbacks of fl2k_test not measured
  Duration,     \* ppm_duration, in seconds
  DumpTime,     \* PPM_DUMP_TIME, in seconds
  MaxSamples,   \* bound: buffers of one measurement
  MaxSignals    \* bound: signals caught

ASSUME AppsAssumption ==
  /\ Programs \subseteq {"file", "tcp", "test"}
  /\ FL2K_BUF_LEN \in Nat \ {0} /\ FileLengths \subseteq Nat
  /\ CbDrop \in Nat /\ Duration \in Nat \ {0} /\ DumpTime \in Nat
  /\ MaxSamples \in Nat /\ MaxSignals \in Nat

VARIABLES
  program, do_exit,
  main,      \* program counter of main
  sig,       \* that of the signal handler: steps it has still to do
  signals,   \* signals caught so far
  early,     \* history: the handler stopped the library before main started it
  status,    \* dev->async_status
  lost,      \* dev->dev_lost
  forced,    \* history: fl2k_stop_tx was called while it was cancelling
  cb,        \* program counter of fl2k_callback
  left,      \* samples missing in txbuf
  repeat, length, pos,  \* the file's option, length and position
  played,    \* history: samples handed out, modulo the file's length
  connected,
  overrun,   \* history: recv has failed and left has grown
  cb_cnt, ppm_init,
  elapsed,   \* seconds from ppm_recent to now
  nsamples,  \* buffers counted
  since      \* history: callbacks since ppm_recent

threads == <<main, sig, signals, early>>
library == <<status, lost, forced>>
fileVars == <<repeat, length, pos, played>>
tcpVars == <<connected, overrun>>
testVars == <<cb_cnt, ppm_init, elapsed, nsamples, since>>
vars == <<program, do_exit, threads, library, cb, left, fileVars, tcpVars,
          testVars>>

Init ==
  /\ program \in Programs /\ do_exit = FALSE
  /\ main = "open" /\ sig = {} /\ signals = 0 /\ early = FALSE
  /\ status = "INACTIVE" /\ lost = FALSE /\ forced = FALSE
  /\ cb = "idle" /\ left = 0
  /\ repeat \in {r \in BOOLEAN : program # "file" => ~r}
  /\ length \in IF program = "file" THEN FileLengths ELSE {0}
  /\ pos = 0 /\ played = 0
  /\ connected = FALSE /\ overrun = FALSE
  /\ cb_cnt = 0 /\ ppm_init = "NO" /\ elapsed = 0 /\ nsamples = 0 /\ since = 0

-----------------------------------------------------------------------------
(* The library's part *)

(* fl2k_stop_tx: the first call cancels, the next one forces INACTIVE.     *)
fl2k_stop_tx ==
  /\ status' = IF status = "RUNNING" THEN "CANCELING" ELSE "INACTIVE"
  /\ forced' = (forced \/ status = "CANCELING")

(* The workers end once the callback has returned.                         *)
EngineEnds ==
  /\ status = "CANCELING" /\ cb = "idle"
  /\ status' = "INACTIVE"
  /\ UNCHANGED <<program, do_exit, threads, lost, forced, cb, left, fileVars,
                 tcpVars, testVars>>

(* A transfer fails; the sample worker reports it in its last call, in     *)
(* which every callback does the same.                                     *)
DeviceLost ==
  /\ status = "RUNNING" /\ ~lost
  /\ lost' = TRUE
  /\ UNCHANGED <<program, do_exit, threads, status, forced, cb, left, fileVars,
                 tcpVars, testVars>>

CbDeviceError ==
  /\ lost /\ status # "INACTIVE" /\ cb = "idle"
  /\ do_exit' = TRUE
  /\ status' = "INACTIVE"
  /\ UNCHANGED <<program, threads, lost, forced, cb, left, fileVars, tcpVars,
                 testVars>>

(* Is a callback called? *)
Called == status = "RUNNING" /\ ~lost /\ cb = "idle"

-----------------------------------------------------------------------------
(* main and sighandler *)

(* The device is opened and streaming begins. *)
MainStart ==
  /\ main = "open"
  /\ status' = "RUNNING"
  /\ main' = IF program = "tcp" THEN "connect" ELSE "loop"
  /\ UNCHANGED <<program, do_exit, sig, signals, early, lost, forced, cb, left,
                 fileVars, tcpVars, testVars>>

(* connect succeeds, or it is tried again until do_exit. *)
MainConnect ==
  /\ main = "connect"
  /\ \/ connected' = TRUE /\ main' = "loop"
     \/ do_exit /\ main' = "close" /\ UNCHANGED connected
  /\ UNCHANGED <<program, do_exit, sig, signals, early, library, cb, left, fileVars,
                 overrun, testVars>>

MainExit ==
  /\ main = "loop" /\ do_exit
  /\ main' = "close"
  /\ UNCHANGED <<program, do_exit, sig, signals, early, library, cb, left, fileVars,
                 tcpVars, testVars>>

(* Mutation: fl2k_close is left out. *)
MainFreeAtOnce ==
  /\ main = "close"
  /\ main' = "freed"
  /\ UNCHANGED <<program, do_exit, sig, signals, early, library, cb, left, fileVars,
                 tcpVars, testVars>>

(* fl2k_close, which waits unless the device is lost; txbuf is freed. *)
MainClose ==
  /\ main = "close" /\ (lost \/ status = "INACTIVE")
  /\ main' = "freed"
  /\ UNCHANGED <<program, do_exit, sig, signals, early, library, cb, left, fileVars,
                 tcpVars, testVars>>

(* fl2k_test installs its handler before it starts to stream, the others   *)
(* after; it stays installed while fl2k_close waits.                       *)
Caught ==
  /\ main \in {"connect", "loop", "close"} \/ (main = "open" /\ program = "test")
  /\ sig = {} /\ signals < MaxSignals

(* Mutation: the handler sets do_exit only. *)
SignalNoStop ==
  /\ Caught
  /\ sig' = {"exit"}
  /\ signals' = signals + 1
  /\ UNCHANGED <<program, do_exit, main, early, library, cb, left, fileVars,
                 tcpVars, testVars>>

Signal ==
  /\ Caught
  /\ sig' = {"stop", "exit"}
  /\ signals' = signals + 1
  /\ UNCHANGED <<program, do_exit, main, early, library, cb, left, fileVars,
                 tcpVars, testVars>>

(* fl2k_tcp sets do_exit before it stops, the others after. *)
SignalStop ==
  /\ "stop" \in sig /\ main # "freed"
  /\ program = "tcp" => "exit" \notin sig
  /\ fl2k_stop_tx
  /\ early' = (early \/ main = "open")
  /\ sig' = sig \ {"stop"}
  /\ UNCHANGED <<program, do_exit, main, signals, lost, cb, left, fileVars,
                 tcpVars, testVars>>

SignalExit ==
  /\ "exit" \in sig
  /\ program # "tcp" => "stop" \notin sig
  /\ do_exit' = TRUE
  /\ sig' = sig \ {"exit"}
  /\ UNCHANGED <<program, main, signals, early, library, cb, left, fileVars,
                 tcpVars, testVars>>

-----------------------------------------------------------------------------
(* The callbacks of fl2k_file and fl2k_tcp *)

(* Without a connection fl2k_tcp hands out nothing. *)
CbBegin ==
  /\ Called /\ (program = "file" \/ (program = "tcp" /\ connected))
  /\ left' = FL2K_BUF_LEN
  /\ cb' = "fill"
  /\ UNCHANGED <<program, do_exit, threads, library, fileVars, tcpVars,
                 testVars>>

(* The loop's condition; the buffer is handed out whatever it holds. *)
CbEnd ==
  /\ cb = "fill" /\ (do_exit \/ left <= 0)
  /\ cb' = "idle"
  /\ played' = IF program = "file" /\ length > 0
                 THEN (played + FL2K_BUF_LEN - left) % length ELSE 0
  /\ UNCHANGED <<program, do_exit, threads, library, left, repeat, length, pos,
                 tcpVars, testVars>>

(* Mutation: the file is rewound without keeping what was read. *)
FileReadAgain ==
  /\ program = "file" /\ cb = "fill" /\ ~do_exit /\ left > 0
  /\ LET r == IF length - pos < left THEN length - pos ELSE left
         eof == r < left
     IN /\ left' = IF eof THEN left ELSE left - r
        /\ IF ~eof THEN pos' = pos + r /\ UNCHANGED <<do_exit, status, forced>>
           ELSE IF repeat /\ r > 0
             THEN pos' = 0 /\ UNCHANGED <<do_exit, status, forced>>
             ELSE pos' = pos + r /\ do_exit' = TRUE /\ fl2k_stop_tx
  /\ UNCHANGED <<program, threads, lost, cb, repeat, length, played, tcpVars,
                 testVars>>

(* Mutation: the option is not heeded. *)
FileReadOnce ==
  /\ program = "file" /\ cb = "fill" /\ ~do_exit /\ left > 0
  /\ LET r == IF length - pos < left THEN length - pos ELSE left
         eof == r < left
     IN /\ left' = left - r
        /\ pos' = pos + r
        /\ IF ~eof THEN UNCHANGED <<do_exit, status, forced>>
                   ELSE do_exit' = TRUE /\ fl2k_stop_tx
  /\ UNCHANGED <<program, threads, lost, cb, repeat, length, played, tcpVars,
                 testVars>>

(* fread reaches the end of the file only when it wanted more: an end at a *)
(* buffer's end is seen by the next call, which reads nothing and so does  *)
(* not repeat.                                                             *)
FileRead ==
  /\ program = "file" /\ cb = "fill" /\ ~do_exit /\ left > 0
  /\ LET r == IF length - pos < left THEN length - pos ELSE left
         eof == r < left
     IN /\ left' = left - r
        /\ IF ~eof THEN pos' = pos + r /\ UNCHANGED <<do_exit, status, forced>>
           ELSE IF repeat /\ r > 0
             THEN pos' = 0 /\ UNCHANGED <<do_exit, status, forced>>
             ELSE pos' = pos + r /\ do_exit' = TRUE /\ fl2k_stop_tx
  /\ UNCHANGED <<program, threads, lost, cb, repeat, length, played, tcpVars,
                 testVars>>

(* recv returns what there is, 0 once the server has closed, or -1, which  *)
(* is subtracted like a length; select may time out, a stuttering step.    *)
TcpReceive ==
  /\ program = "tcp" /\ cb = "fill" /\ ~do_exit /\ left > 0
  /\ \E received \in -1 .. left :
       /\ received = -1 => ~overrun
       /\ left' = left - received
       /\ overrun' = (overrun \/ received = -1)
       /\ IF received = 0 THEN do_exit' = TRUE /\ fl2k_stop_tx
                          ELSE UNCHANGED <<do_exit, status, forced>>
  /\ UNCHANGED <<program, threads, lost, cb, fileVars, connected, testVars>>

-----------------------------------------------------------------------------
(* fl2k_test: its callback and ppm_test *)

Tick ==
  /\ program = "test" /\ ppm_init # "NO" /\ elapsed <= Duration
  /\ elapsed' = elapsed + 1
  /\ UNCHANGED <<program, do_exit, threads, library, cb, left, fileVars,
                 tcpVars, cb_cnt, ppm_init, nsamples, since>>

TestCallback ==
  /\ program = "test" /\ Called /\ cb_cnt <= CbDrop
  /\ cb_cnt' = cb_cnt + 1
  /\ UNCHANGED <<program, do_exit, threads, library, cb, left, fileVars,
                 tcpVars, ppm_init, elapsed, nsamples, since>>

(* The first call sets ppm_recent DumpTime ahead, the next one starts the  *)
(* measurement unless that time is over, when no later one does either.    *)
PpmInit ==
  /\ program = "test" /\ Called /\ cb_cnt > CbDrop /\ ppm_init # "RUN"
  /\ IF ppm_init = "NO"
       THEN ppm_init' = "DUMP" /\ elapsed' = -DumpTime /\ UNCHANGED since
       ELSE IF elapsed > 0
         THEN UNCHANGED <<ppm_init, elapsed, since>>
         ELSE ppm_init' = "RUN" /\ elapsed' = 0 /\ since' = 0
  /\ UNCHANGED <<program, do_exit, threads, library, cb, left, fileVars,
                 tcpVars, cb_cnt, nsamples>>

(* Mutation: the samples are not reset. *)
PpmRunNoReset ==
  /\ program = "test" /\ Called /\ cb_cnt > CbDrop /\ ppm_init = "RUN"
  /\ nsamples < MaxSamples
  /\ nsamples' = nsamples + 1
  /\ since' = IF elapsed < Duration THEN since + 1 ELSE 0
  /\ elapsed' = IF elapsed < Duration THEN elapsed ELSE 0
  /\ UNCHANGED <<program, do_exit, threads, library, cb, left, fileVars,
                 tcpVars, cb_cnt, ppm_init>>

(* The buffer is counted; after Duration the rate is reported and the next *)
(* measurement begins.                                                     *)
PpmRun ==
  /\ program = "test" /\ Called /\ cb_cnt > CbDrop /\ ppm_init = "RUN"
  /\ nsamples < MaxSamples
  /\ IF elapsed < Duration
       THEN nsamples' = nsamples + 1 /\ since' = since + 1 /\ UNCHANGED elapsed
       ELSE nsamples' = 0 /\ since' = 0 /\ elapsed' = 0
  /\ UNCHANGED <<program, do_exit, threads, library, cb, left, fileVars,
                 tcpVars, cb_cnt, ppm_init>>

-----------------------------------------------------------------------------
CbStep == CbBegin \/ CbEnd \/ FileRead \/ TcpReceive

MainStep == MainStart \/ MainConnect \/ MainExit \/ MainClose

Next ==
  \/ MainStep \/ Signal \/ SignalStop \/ SignalExit
  \/ EngineEnds \/ DeviceLost \/ CbDeviceError
  \/ CbStep
  \/ Tick \/ TestCallback \/ PpmInit \/ PpmRun

Spec == Init /\ [][Next]_vars

(* main and the handler run.  That a server accepts, that a file or a      *)
(* server answers and that a stopped library ends is not assumed.          *)
FairSpec ==
  /\ Spec /\ WF_vars(do_exit /\ MainStep) /\ WF_vars(SignalStop \/ SignalExit)

-----------------------------------------------------------------------------
(* fl2k_file plays the file without a gap or a repetition, also across the *)
(* end of the file in the middle of a buffer.                              *)
FileIsContinuous ==
  program = "file" /\ cb = "fill" /\ length > 0 =>
    (played + FL2K_BUF_LEN - left) % length = pos % length

(* With "-r 1" fl2k_file ends by itself only where the end of the file is  *)
(* the end of a buffer - which, as the buffers move along the file, it is  *)
(* once in at most FL2K_BUF_LEN rounds, whatever its length.               *)
RepeatsUnlessAligned ==
  [][program = "file" /\ repeat /\ cb = "fill" /\ status' # status /\ sig' = sig
       => left = FL2K_BUF_LEN /\ pos = length]_vars

(* txbuf is freed only when no callback fills it, unless a second stop has *)
(* declared the library INACTIVE or the device is lost (fl2k_close, main). *)
TxBufAlive == main = "freed" /\ ~forced /\ ~lost => cb = "idle"

(* What ppm_test reports was counted in the interval it is divided by.     *)
CountsItsInterval == ppm_init = "RUN" => nsamples = since

(* Once do_exit is set, whoever set it - the signal handlers, the end of   *)
(* the data or the loss of the device - main comes to fl2k_close, and the  *)
(* library it waits for has been stopped.  Not so in fl2k_test, if the     *)
(* handler came before the start of the stream.                            *)
ExitStops ==
  do_exit ~> main = "freed" \/ (main = "close" /\ status # "RUNNING") \/ early

=============================================================================
