--------------------------- MODULE ReplicatedLog ---------------------------
(***************************************************************************)
(* What the services above Raft (applier of config.go, KVServer) are       *)
(* promised on applyCh: one log of commands that clients have started,     *)
(* each at one index, of which every service applies a prefix.  A service  *)
(* falls back to a shorter prefix only by a restart.                       *)
(***************************************************************************)
EXTENDS Naturals, Sequences

CONSTANT Server

VARIABLES
  proposed,   \* commands 1 .. proposed have been given to Start
  decided,    \* the log, as far as some service has seen it
  applied     \* what each service has applied

logVars == <<proposed, decided, applied>>

Init ==
  /\ proposed \in Nat /\ decided = <<>>
  /\ applied = [s \in Server |-> <<>>]

Propose ==
  /\ proposed' = proposed + 1
  /\ UNCHANGED <<decided, applied>>

\* A service applies the first command that no service has applied before it.
Decide(s) ==
  /\ applied[s] = decided
  /\ \E c \in 1 .. proposed :
       /\ \A i \in DOMAIN decided : decided[i] # c
       /\ decided' = Append(decided, c)
  /\ applied' = [applied EXCEPT ![s] = decided']
  /\ UNCHANGED proposed

\* It applies the next command of the log, or takes a snapshot of it over.
Advance(s) ==
  /\ \E n \in Len(applied[s]) + 1 .. Len(decided) :
       applied' = [applied EXCEPT ![s] = SubSeq(decided, 1, n)]
  /\ UNCHANGED <<proposed, decided>>

Restart(s) ==
  /\ \E n \in 0 .. Len(applied[s]) :
       applied' = [applied EXCEPT ![s] = SubSeq(decided, 1, n)]
  /\ UNCHANGED <<proposed, decided>>

Next ==
  \/ Propose
  \/ \E s \in Server : Decide(s) \/ Advance(s) \/ Restart(s)

Spec == Init /\ [][Next]_logVars
=============================================================================
