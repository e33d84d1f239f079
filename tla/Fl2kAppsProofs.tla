--------------------------- MODULE Fl2kAppsProofs ---------------------------
(***************************************************************************)
(* The streaming applications, for every size of their buffers and files   *)
(* and every schedule: when txbuf may be freed, that who ends the program  *)
(* stops the library, what the rate measurement counts, when a repeated    *)
(* file ends, and that it has no gap.                                      *)
(***************************************************************************)
EXTENDS Fl2kApps, Numbers

USE DEF threads, library, fileVars, tcpVars, testVars

(* fl2k_stop_tx, by the handler or a callback, and then the end of the     *)
(* workers: only a second stop makes the library INACTIVE too early.       *)
Closing ==
  /\ status \in {"INACTIVE", "CANCELING", "RUNNING"}
  /\ status = "INACTIVE" /\ ~forced /\ ~lost => cb = "idle"
  /\ main = "open" => status = "INACTIVE" /\ cb = "idle"
  /\ main = "freed" => lost \/ status = "INACTIVE"

(* It holds throughout. *)
LEMMA ClosingInvariant == Spec => []Closing
<1>1. Init => Closing
  BY DEF Init, Closing
<1>2. Closing /\ [Next]_vars => Closing'
  <2> SUFFICES ASSUME Closing, [Next]_vars PROVE Closing'
    OBVIOUS
  <2> USE DEF Closing
  <2>1. CASE MainStep
    BY <2>1 DEF MainStep, MainStart, MainConnect, MainExit, MainClose
  <2>2. CASE Signal \/ SignalStop \/ SignalExit
    BY <2>2 DEF Signal, SignalStop, SignalExit, fl2k_stop_tx
  <2>3. CASE EngineEnds \/ DeviceLost \/ CbDeviceError
    BY <2>3 DEF EngineEnds, DeviceLost, CbDeviceError
  <2>4. CASE CbBegin \/ CbEnd
    BY <2>4 DEF CbBegin, CbEnd, Called
  <2>5. CASE FileRead \/ TcpReceive
    <3>1. /\ cb = "fill" /\ UNCHANGED <<main, cb, lost>>
          /\ UNCHANGED <<status, forced>> \/ fl2k_stop_tx
      BY <2>5 DEF FileRead, TcpReceive
    <3> QED BY <3>1 DEF fl2k_stop_tx
  <2>6. CASE Tick \/ TestCallback \/ PpmInit \/ PpmRun \/ UNCHANGED vars
    BY <2>6 DEF Tick, TestCallback, PpmInit, PpmRun, vars
  <2> QED BY <2>1, <2>2, <2>3, <2>4, <2>5, <2>6 DEF Next, CbStep
<1> QED BY <1>1, <1>2, PTL DEF Spec

(* After fl2k_close no callback fills txbuf any more, if there was one     *)
(* stop and the device is not lost.                                        *)
THEOREM BufferOutlivesCallbacks == Spec => []TxBufAlive
<1>1. Closing => TxBufAlive
  BY DEF Closing, TxBufAlive
<1> QED BY <1>1, ClosingInvariant, PTL

-----------------------------------------------------------------------------
(* Who sets do_exit has stopped the library, or is about to; only the      *)
(* handler of fl2k_test may have come too early.                           *)
StopIsDue == do_exit => status # "RUNNING" \/ "stop" \in sig \/ early

(* THEOREM: fl2k_close, which main calls after do_exit and which waits for *)
(* the library to be INACTIVE, waits only for a library that is stopped or *)
(* will be, whichever of the handlers and callbacks set do_exit, and in    *)
(* whichever order - but for a handler that ran before fl2k_start_tx, as   *)
(* in fl2k_test it can (fl2k_file, fl2k_tcp, fl2k_test; not fl2k_fm).      *)
THEOREM ExitStopsLibrary == Spec => []StopIsDue
<1> DEFINE Stopping ==
      /\ do_exit \/ "exit" \in sig
           => status # "RUNNING" \/ "stop" \in sig \/ early
      /\ main = "open" =>
           /\ status = "INACTIVE" /\ cb = "idle"
           /\ do_exit \/ "exit" \in sig => "stop" \in sig \/ early
<1>1. Init => Stopping
  BY DEF Init
<1>2. Stopping /\ [Next]_vars => Stopping'
  <2> SUFFICES ASSUME Stopping, [Next]_vars PROVE Stopping'
    OBVIOUS
  <2>1. CASE MainStep
    BY <2>1 DEF MainStep, MainStart, MainConnect, MainExit, MainClose
  <2>2. CASE Signal \/ SignalStop \/ SignalExit
    BY <2>2 DEF Signal, SignalStop, SignalExit, fl2k_stop_tx
  <2>3. CASE EngineEnds \/ DeviceLost \/ CbDeviceError
    BY <2>3 DEF EngineEnds, DeviceLost, CbDeviceError
  <2>4. CASE CbBegin \/ CbEnd
    BY <2>4 DEF CbBegin, CbEnd, Called
  <2>5. CASE FileRead \/ TcpReceive
    <3>1. /\ cb = "fill" /\ UNCHANGED <<main, cb, sig, early>>
          /\ UNCHANGED <<do_exit, status>> \/ fl2k_stop_tx
      BY <2>5 DEF FileRead, TcpReceive
    <3> QED BY <3>1 DEF fl2k_stop_tx
  <2>6. CASE Tick \/ TestCallback \/ PpmInit \/ PpmRun \/ UNCHANGED vars
    BY <2>6 DEF Tick, TestCallback, PpmInit, PpmRun, vars
  <2> QED BY <2>1, <2>2, <2>3, <2>4, <2>5, <2>6 DEF Next, CbStep
<1>3. Stopping => StopIsDue
  BY DEF StopIsDue
<1> QED BY <1>1, <1>2, <1>3, PTL DEF Spec

-----------------------------------------------------------------------------
(* Before the measurement nothing is counted. *)
Counted ==
  /\ CountsItsInterval
  /\ ppm_init # "RUN" => nsamples = 0

(* What ppm_test reports was counted in the interval it is divided by.     *)
THEOREM IntervalIsCounted == Spec => []CountsItsInterval
<1> USE DEF Counted, CountsItsInterval
<1>1. Init => Counted
  BY DEF Init
<1>2. Counted /\ [Next]_vars => Counted'
  <2> SUFFICES ASSUME Counted, [Next]_vars PROVE Counted'
    OBVIOUS
  <2>1. CASE MainStep \/ Signal \/ SignalStop \/ SignalExit
    BY <2>1 DEF MainStep, MainStart, MainConnect, MainExit, MainClose, Signal,
                SignalStop, SignalExit
  <2>2. CASE EngineEnds \/ DeviceLost \/ CbDeviceError
    BY <2>2 DEF EngineEnds, DeviceLost, CbDeviceError
  <2>3. CASE CbStep
    BY <2>3 DEF CbStep, CbBegin, CbEnd, FileRead, TcpReceive
  <2>4. CASE Tick \/ TestCallback \/ UNCHANGED vars
    BY <2>4 DEF Tick, TestCallback, vars
  <2>5. CASE PpmInit
    BY <2>5 DEF PpmInit
  <2>6. CASE PpmRun
    BY <2>6 DEF PpmRun
  <2> QED BY <2>1, <2>2, <2>3, <2>4, <2>5, <2>6 DEF Next
<1>3. Counted => CountsItsInterval
  OBVIOUS
<1> QED BY <1>1, <1>2, <1>3, PTL DEF Spec

-----------------------------------------------------------------------------
(* In the middle of a buffer the callback of fl2k_file is not at the end   *)
(* of the file it repeats: it has rewound it, or has just begun it.        *)
Rewound ==
  /\ length \in Nat /\ pos \in 0 .. length
  /\ program = "file" => left <= FL2K_BUF_LEN /\ left \in Nat
  /\ main = "open" => status = "INACTIVE" /\ cb = "idle"
  /\ program = "file" /\ repeat /\ cb = "fill" /\ ~do_exit
       /\ left \in 1 .. FL2K_BUF_LEN - 1
       => pos < length

(* It holds throughout. *)
LEMMA RewoundInvariant == Spec => []Rewound
<1> USE AppsAssumption
<1>1. Init => Rewound
  BY DEF Init, Rewound
<1>2. Rewound /\ [Next]_vars => Rewound'
  <2> SUFFICES ASSUME Rewound, [Next]_vars PROVE Rewound'
    OBVIOUS
  <2> USE DEF Rewound
  <2>1. CASE MainStep \/ Signal \/ SignalStop \/ SignalExit
    BY <2>1 DEF MainStep, MainStart, MainConnect, MainExit, MainClose, Signal,
                SignalStop, SignalExit, fl2k_stop_tx
  <2>2. CASE EngineEnds \/ DeviceLost \/ CbDeviceError
    BY <2>2 DEF EngineEnds, DeviceLost, CbDeviceError
  <2>3. CASE CbBegin
    BY <2>3 DEF CbBegin, Called
  <2>4. CASE CbEnd
    BY <2>4 DEF CbEnd
  <2>5. CASE FileRead
    BY <2>5 DEF FileRead
  <2>6. CASE TcpReceive
    BY <2>6 DEF TcpReceive
  <2>7. CASE Tick \/ TestCallback \/ PpmInit \/ PpmRun \/ UNCHANGED vars
    BY <2>7 DEF Tick, TestCallback, PpmInit, PpmRun, vars
  <2> QED BY <2>1, <2>2, <2>3, <2>4, <2>5, <2>6, <2>7 DEF Next, CbStep
<1> QED BY <1>1, <1>2, PTL DEF Spec

(* A file that is repeated ends by itself only at the end of a buffer.     *)
THEOREM RepeatedFileEnds == Spec => RepeatsUnlessAligned
<1> USE AppsAssumption
<1> DEFINE Aligned ==
      program = "file" /\ repeat /\ cb = "fill" /\ status' # status
        /\ sig' = sig => left = FL2K_BUF_LEN /\ pos = length
<1>1. Rewound /\ [Next]_vars => [Aligned]_vars
  <2> SUFFICES ASSUME Rewound, Next, program = "file", repeat, cb = "fill",
                      status' # status, sig' = sig
               PROVE  left = FL2K_BUF_LEN /\ pos = length
    OBVIOUS
  <2>1. FileRead
    <3>1. ~MainStart
      BY DEF MainStart, Rewound
    <3>2. ~SignalStop
      BY DEF SignalStop
    <3> QED
      BY <3>1, <3>2
      DEF Next, MainStep, MainConnect, MainExit, MainClose, Signal, SignalExit,
          EngineEnds, DeviceLost, CbDeviceError, CbStep, CbBegin, CbEnd,
          TcpReceive, Tick, TestCallback, PpmInit, PpmRun
  <2> QED BY <2>1 DEF FileRead, Rewound
<1> QED BY <1>1, RewoundInvariant, PTL DEF Spec, RepeatsUnlessAligned

-----------------------------------------------------------------------------
(* Samples of the running callback that are in txbuf. *)
Filled == IF cb = "fill" THEN FL2K_BUF_LEN - left ELSE 0

(* What was handed out and what is in txbuf end at the file's position.    *)
Continuous ==
  program = "file" /\ length > 0 =>
    /\ played \in 0 .. length - 1
    /\ (played + Filled) % length = pos % length

(* A read, and the rewind that may follow it, leaves no gap. *)
LEMMA ReadContinues ==
  ASSUME Rewound, Continuous, FileRead PROVE Continuous'
<1> USE AppsAssumption DEF Rewound
<1> SUFFICES ASSUME length > 0
             PROVE  /\ played \in 0 .. length - 1
                    /\ (played + Filled') % length = pos' % length
  BY DEF FileRead, Continuous
<1> DEFINE r == IF length - pos < left THEN length - pos ELSE left
           a == played + Filled
           b == pos + r
<1>1. /\ program = "file" /\ cb = "fill" /\ cb' = "fill" /\ left' = left - r
      /\ pos' = b \/ (pos' = 0 /\ r < left)
  BY DEF FileRead
<1>2. r \in Int /\ left \in Int /\ pos \in Int /\ length \in Nat \ {0}
  BY <1>1
<1>3. played \in 0 .. length - 1 /\ a % length = pos % length
  BY <1>1 DEF Continuous
<1>4. a \in Int /\ played + Filled' = a + r
  BY <1>1, <1>2, <1>3 DEF Filled
<1>5. r < left => b = length
  BY <1>2
<1> HIDE DEF r, a, Filled
<1>6. (a + r) % length = b % length
  BY ONLY <1>2, <1>3, <1>4, ModAdd
<1>7. CASE pos' = b
  BY <1>3, <1>4, <1>6, <1>7
<1>8. CASE pos' = 0 /\ r < left
  <2>1. length % length = 0 /\ 0 % length = 0
    <3>1. 0 + length = length /\ 0 % length = 0
      BY <1>2
    <3>2. (0 + length) % length = 0 % length
      BY ONLY <1>2, ModTurn
    <3> QED BY <3>1, <3>2
  <2> QED BY <1>3, <1>4, <1>5, <1>6, <1>8, <2>1
<1> QED BY <1>1, <1>7, <1>8

(* It holds in every state. *)
LEMMA ContinuousInvariant == Spec => []Continuous
<1> USE AppsAssumption
<1>1. Init => Continuous
  BY DEF Init, Continuous, Filled
<1>2. Rewound /\ Rewound' /\ Continuous /\ [Next]_vars => Continuous'
  <2> SUFFICES ASSUME Rewound, Continuous, [Next]_vars PROVE Continuous'
    OBVIOUS
  <2> USE DEF Continuous, Filled
  <2>1. CASE MainStep \/ Signal \/ SignalStop \/ SignalExit
    BY <2>1 DEF MainStep, MainStart, MainConnect, MainExit, MainClose, Signal,
                SignalStop, SignalExit
  <2>2. CASE EngineEnds \/ DeviceLost \/ CbDeviceError
    BY <2>2 DEF EngineEnds, DeviceLost, CbDeviceError
  <2>3. CASE CbBegin
    BY <2>3 DEF CbBegin, Called
  <2>4. CASE CbEnd
    <3> SUFFICES ASSUME program = "file", length > 0
                 PROVE  played' \in 0 .. length - 1 /\ (played' + 0) % length = pos % length
      BY <2>4 DEF CbEnd
    <3>1. /\ played' = (played + FL2K_BUF_LEN - left) % length
          /\ (played + (FL2K_BUF_LEN - left)) % length = pos % length
          /\ played \in Int /\ left \in Int /\ length \in Nat \ {0} /\ pos \in Int
      BY <2>4 DEF CbEnd, Rewound
    <3>2. played' = pos % length
      <4>1. played + FL2K_BUF_LEN - left = played + (FL2K_BUF_LEN - left)
        BY <3>1
      <4> QED BY <3>1, <4>1
    <3> DEFINE p == pos % length
    <3>3. p \in 0 .. length - 1
      BY ONLY <3>1, ModDef
    <3> HIDE DEF p
    <3>4. p % length = p
      BY ONLY <3>1, <3>3, ModSmall
    <3> QED BY <3>1, <3>2, <3>3, <3>4 DEF p
  <2>5. CASE FileRead
    BY <2>5, ReadContinues
  <2>6. CASE TcpReceive
    BY <2>6 DEF TcpReceive
  <2>7. CASE Tick \/ TestCallback \/ PpmInit \/ PpmRun \/ UNCHANGED vars
    BY <2>7 DEF Tick, TestCallback, PpmInit, PpmRun, vars
  <2> QED BY <2>1, <2>2, <2>3, <2>4, <2>5, <2>6, <2>7 DEF Next, CbStep
<1> QED BY <1>1, <1>2, RewoundInvariant, PTL DEF Spec

(* fl2k_file plays a file of any length without a gap or a repetition, also*)
(* across its end in the middle of a buffer.                               *)
THEOREM FileStaysContinuous == Spec => []FileIsContinuous
<1>1. Rewound /\ Continuous => FileIsContinuous
  <2> SUFFICES ASSUME Rewound, Continuous, program = "file", cb = "fill", length > 0
               PROVE  (played + FL2K_BUF_LEN - left) % length = pos % length
    BY DEF FileIsContinuous
  <2>1. played + FL2K_BUF_LEN - left = played + Filled
    BY AppsAssumption DEF Rewound, Continuous, Filled
  <2> QED BY <2>1 DEF Continuous
<1> QED BY <1>1, RewoundInvariant, ContinuousInvariant, PTL
=============================================================================
