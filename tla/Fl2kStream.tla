----------------------------- MODULE Fl2kStream -----------------------------
(***************************************************************************)
(* What the transmit engine of libosmo-fl2k promises the application,      *)
(* without its threads, transfers and buffers.  The application supplies   *)
(* blocks, numbered from 0.  Each time a transfer completes the engine     *)
(* looks at the blocks that wait: it sends one none of those is older      *)
(* than, or, if none waits, repeats what it sent last.  A block supplied   *)
(* while it looks may be taken or overlooked.  No block is sent twice, and *)
(* the engine does not look for blocks once it was stopped.                *)
(***************************************************************************)
EXTENDS Integers

VARIABLES
  phase,     \* "idle", "running" or "stopped"
  next,      \* number of the next block
  waiting,   \* blocks supplied and not yet sent
  looking,   \* the engine looks for a block to send
  snapshot   \* the blocks that waited when it began to

vars == <<phase, next, waiting, looking, snapshot>>

Init ==
  /\ phase = "idle"
  /\ next = 0
  /\ waiting = {}
  /\ looking = FALSE
  /\ snapshot = {}

Start ==
  /\ phase = "idle"
  /\ phase' = "running"
  /\ UNCHANGED <<next, waiting, looking, snapshot>>

Stop ==
  /\ phase = "running"
  /\ phase' = "stopped"
  /\ UNCHANGED <<next, waiting, looking, snapshot>>

(* The application's callback has returned a block: also after a stop, of  *)
(* which the application may not know yet.                                 *)
Supply ==
  /\ phase # "idle"
  /\ waiting' = waiting \cup {next}
  /\ next' = next + 1
  /\ UNCHANGED <<phase, looking, snapshot>>

Look ==
  /\ phase = "running"
  /\ ~looking
  /\ looking' = TRUE
  /\ snapshot' = waiting
  /\ UNCHANGED <<phase, next, waiting>>

Send(n) ==
  /\ looking
  /\ n \in waiting
  /\ \A m \in snapshot : n <= m
  /\ waiting' = waiting \ {n}
  /\ looking' = FALSE
  /\ snapshot' = {}
  /\ UNCHANGED <<phase, next>>

(* An underflow: the last block goes out again. *)
Repeat ==
  /\ looking
  /\ snapshot = {}
  /\ looking' = FALSE
  /\ UNCHANGED <<phase, next, waiting, snapshot>>

Next == Start \/ Stop \/ Supply \/ Look \/ (\E n \in waiting : Send(n)) \/ Repeat

Spec == Init /\ [][Next]_vars

=============================================================================
