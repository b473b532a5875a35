--------------------------- MODULE AccountSession ---------------------------
(***************************************************************************)
(* What the reconciler promises about cloud accounts, with no process-wide *)
(* state in sight: a worker serves one control plane at a time, no control *)
(* plane is served twice at once, the section in which handles are built   *)
(* belongs to one worker at a time, and the handles a worker opens act in  *)
(* the account of the control plane it serves and in no other, until the   *)
(* worker is done.  KopsSession.tla implements it.                         *)
(***************************************************************************)

CONSTANTS
  Workers,   \* the controller's worker goroutines
  KCPs,      \* the KopsControlPlanes, each with an account of its own
  NoKCP,
  NoWorker

VARIABLES
  serving,   \* worker -> the control plane it reconciles, or NoKCP
  turn,      \* the worker that may build handles, or NoWorker
  accounts   \* worker -> the accounts its handles act in

vars == <<serving, turn, accounts>>

Init ==
  /\ serving = [w \in Workers |-> NoKCP]
  /\ turn = NoWorker
  /\ accounts = [w \in Workers |-> {}]

Accept(w, k) ==
  /\ serving[w] = NoKCP
  /\ \A v \in Workers : serving[v] # k
  /\ serving' = [serving EXCEPT ![w] = k]
  /\ UNCHANGED <<turn, accounts>>

Enter(w) ==
  /\ serving[w] # NoKCP
  /\ turn = NoWorker
  /\ turn' = w
  /\ UNCHANGED <<serving, accounts>>

\* Building or binding a handle: only in turn, only in the served account.
Open(w) ==
  /\ turn = w
  /\ accounts' = [accounts EXCEPT ![w] = {serving[w]}]
  /\ UNCHANGED <<serving, turn>>

Leave(w) ==
  /\ turn = w
  /\ turn' = NoWorker
  /\ UNCHANGED <<serving, accounts>>

Finish(w) ==
  /\ turn # w
  /\ serving[w] # NoKCP
  /\ serving' = [serving EXCEPT ![w] = NoKCP]
  /\ accounts' = [accounts EXCEPT ![w] = {}]
  /\ UNCHANGED turn

Next ==
  \E w \in Workers :
    \/ \E k \in KCPs : Accept(w, k)
    \/ Enter(w)
    \/ Open(w)
    \/ Leave(w)
    \/ Finish(w)

Spec == Init /\ [][Next]_vars
=============================================================================
