----------------------------- MODULE KopsSecrets -----------------------------
(***************************************************************************)
(* The kops secrets of one cluster.                                        *)
(*                                                                         *)
(* A control plane may refer to a Kubernetes Secret.  Reconcile mirrors    *)
(* the entries of that Secret into the kops secret store, where kops keeps *)
(* secrets of its own, and remembers in status.secrets which entries it    *)
(* put there.  The list is the only thing that tells it later what to take *)
(* out again, and it reaches the API server only in the deferred save, and *)
(* not at all once the control plane is in deletion (a deletion that is    *)
(* protected runs the whole of Reconcile; one that is not never comes      *)
(* here).                                                                  *)
(*                                                                         *)
(* One action is one call that writes the store or an object; users change *)
(* the Secret and the control plane between any two of them.               *)
(***************************************************************************)
EXTENDS Naturals

CONSTANTS
  Names,     \* names of secrets, which users may take for entries
  Values,
  None,      \* no such secret
  MaxFaults  \* bound on failing calls and crashes

ASSUME ValuesAssumption == None \notin Values
ASSUME MaxFaultsAssumption == MaxFaults \in Nat

VARIABLES
  secret,   \* the entries of the Kubernetes Secret
  store,    \* the kops secret store
  kcp,      \* the control plane in the API server
  cache,    \* the informer's copy of it
  behind,   \* that copy is not the latest version
  mem,      \* Reconcile's copy
  stale,    \* that copy is not the latest version
  data,     \* the entries Reconcile has read
  todo,     \* the entries a loop has still to visit
  failed,   \* a call of ReconcileKopsSecrets failed
  pc,
  faults

objects == <<kcp, cache, behind>>
vars == <<secret, store, objects, mem, stale, data, todo, failed, pc, faults>>

Maybe == Values \union {None}
NoEntries == [n \in Names |-> None]
ControlPlane ==
  [refers : BOOLEAN, deleting : BOOLEAN, secrets : SUBSET Names, ready : BOOLEAN]
Fresh == [refers |-> TRUE, deleting |-> FALSE, secrets |-> {}, ready |-> FALSE]

\* kops may keep secrets of its own under any name.
Init ==
  /\ secret = NoEntries
  /\ store \in [Names -> Maybe]
  /\ kcp = Fresh /\ cache = Fresh /\ behind = FALSE
  /\ mem = Fresh /\ stale = FALSE
  /\ data = NoEntries
  /\ todo = {}
  /\ failed = FALSE
  /\ pc = "idle"
  /\ faults = 0

-----------------------------------------------------------------------------
\* Users change the entries of the Secret.
ChangeEntry(n, v) ==
  /\ secret[n] # v
  /\ secret' = [secret EXCEPT ![n] = v]
  /\ UNCHANGED <<store, objects, mem, stale, data, todo, failed, pc, faults>>

\* A write of the control plane makes a version that cache and copy are behind.
Writes(k) ==
  /\ kcp' = k
  /\ behind' = TRUE
  /\ stale' = (pc # "idle")
  /\ UNCHANGED cache

\* Users edit the control plane, and perhaps whether it refers to the Secret.
EditControlPlane(b) ==
  /\ Writes([kcp EXCEPT !.refers = b])
  /\ UNCHANGED <<secret, store, mem, data, todo, failed, pc, faults>>

\* The control plane is deleted; its finalizer holds it, its protection keeps it.
Delete ==
  /\ ~kcp.deleting
  /\ Writes([kcp EXCEPT !.deleting = TRUE])
  /\ UNCHANGED <<secret, store, mem, data, todo, failed, pc, faults>>

Sync ==
  /\ behind
  /\ cache' = kcp
  /\ behind' = FALSE
  /\ UNCHANGED <<secret, store, kcp, mem, stale, data, todo, failed, pc, faults>>

-----------------------------------------------------------------------------
Present(d) == {n \in Names : d[n] # None}
Fault == faults < MaxFaults /\ faults' = faults + 1

\* What is listed and no longer wanted.
Removed_SkipsEmpty(listed, d) == IF Present(d) = {} THEN {} ELSE listed \ Present(d)
Removed_Unlisted(listed, d) == Names \ Present(d)
Removed(listed, d) == listed \ Present(d)

\* Reconcile takes the control plane from the cache, and up to here may fail
\* elsewhere and go straight to the save.
Start ==
  /\ pc = "idle"
  /\ \/ pc' = "read" /\ UNCHANGED faults
     \/ pc' = "save" /\ Fault
  /\ mem' = cache
  /\ stale' = behind
  /\ UNCHANGED <<secret, store, objects, data, todo, failed>>

\* The Secret is read once, when there is one to read.
ReadSecret ==
  /\ pc = "read"
  /\ \/ /\ mem.refers
        /\ pc' = "delete"
        /\ data' = secret
        /\ todo' = Removed(mem.secrets, secret)
        /\ UNCHANGED <<failed, faults>>
     \/ /\ mem.refers
        /\ pc' = "mark"
        /\ Fault /\ failed' = TRUE
        /\ UNCHANGED <<data, todo>>
     \/ /\ ~mem.refers
        /\ pc' = "mark"
        /\ UNCHANGED <<data, todo, failed, faults>>
  /\ UNCHANGED <<secret, store, objects, mem, stale>>

\* A call on the store fails, and both loops are over: ReconcileKopsSecrets
\* returns nil all the same.
StoreFails ==
  /\ Fault
  /\ failed' = TRUE
  /\ pc' = "mark"
  /\ todo' = {}
  /\ UNCHANGED <<store, mem>>

DeleteEntry_ListFirst(n) ==
  /\ pc = "delete" /\ n \in todo
  /\ mem' = [mem EXCEPT !.secrets = @ \ {n}]
  /\ \/ /\ store' = [store EXCEPT ![n] = None]
        /\ todo' = todo \ {n}
        /\ UNCHANGED <<pc, failed, faults>>
     \/ Fault /\ failed' = TRUE /\ pc' = "mark" /\ todo' = {} /\ UNCHANGED store
  /\ UNCHANGED <<secret, objects, stale, data>>

\* reconcileKopsSecretsDelete: out of the store, then off the list.
DeleteEntry(n) ==
  /\ pc = "delete" /\ n \in todo
  /\ \/ /\ store' = [store EXCEPT ![n] = None]
        /\ mem' = [mem EXCEPT !.secrets = @ \ {n}]
        /\ todo' = todo \ {n}
        /\ UNCHANGED <<pc, failed, faults>>
     \/ StoreFails
  /\ UNCHANGED <<secret, objects, stale, data>>

DeletedAll ==
  /\ pc = "delete" /\ todo = {}
  /\ pc' = "set"
  /\ todo' = Present(data)
  /\ UNCHANGED <<secret, store, objects, mem, stale, data, failed, faults>>

SetEntry_ListFirst(n) ==
  /\ pc = "set" /\ n \in todo
  /\ mem' = [mem EXCEPT !.secrets = @ \union {n}]
  /\ \/ /\ store' = [store EXCEPT ![n] = data[n]]
        /\ todo' = todo \ {n}
        /\ UNCHANGED <<pc, failed, faults>>
     \/ Fault /\ failed' = TRUE /\ pc' = "mark" /\ todo' = {} /\ UNCHANGED store
  /\ UNCHANGED <<secret, objects, stale, data>>

SetEntry_CreatesOnly(n) ==
  /\ pc = "set" /\ n \in todo
  /\ store' = IF store[n] = None THEN [store EXCEPT ![n] = data[n]] ELSE store
  /\ mem' = [mem EXCEPT !.secrets = @ \union {n}]
  /\ todo' = todo \ {n}
  /\ UNCHANGED <<secret, objects, stale, data, pc, failed, faults>>

SetEntry_ListsCreated(n) ==
  /\ pc = "set" /\ n \in todo
  /\ store' = [store EXCEPT ![n] = data[n]]
  /\ mem' = IF store[n] = None THEN [mem EXCEPT !.secrets = @ \union {n}] ELSE mem
  /\ todo' = todo \ {n}
  /\ UNCHANGED <<secret, objects, stale, data, pc, failed, faults>>

\* reconcileKopsSecretsNormal, in the random order of a Go map: created or
\* replaced in the store, then on the list.
SetEntry(n) ==
  /\ pc = "set" /\ n \in todo
  /\ \/ /\ store' = [store EXCEPT ![n] = data[n]]
        /\ mem' = [mem EXCEPT !.secrets = @ \union {n}]
        /\ todo' = todo \ {n}
        /\ UNCHANGED <<pc, failed, faults>>
     \/ StoreFails
  /\ UNCHANGED <<secret, objects, stale, data>>

SetAll ==
  /\ pc = "set" /\ todo = {}
  /\ pc' = "mark"
  /\ UNCHANGED <<secret, store, objects, mem, stale, data, todo, failed, faults>>

\* The condition is marked false on an error, and then true in any case.
MarkReady ==
  /\ pc = "mark"
  /\ pc' = "save"
  /\ mem' = [mem EXCEPT !.ready = TRUE]
  /\ UNCHANGED <<secret, store, objects, stale, data, todo, failed, faults>>

Forgets_KeepsCopy ==
  /\ pc' = "idle"
  /\ data' = NoEntries
  /\ todo' = {} /\ failed' = FALSE
  /\ UNCHANGED mem

Forgets ==
  /\ pc' = "idle"
  /\ mem' = Fresh /\ data' = NoEntries
  /\ todo' = {} /\ failed' = FALSE

\* The deferred function updates the control plane and, unless the copy is in
\* deletion, its status: list and condition.  A stale copy is refused, which is an
\* event and no more.
Save ==
  /\ pc = "save"
  /\ stale' = FALSE
  /\ Forgets
  /\ \/ /\ ~stale
        /\ kcp' = IF mem.deleting THEN kcp ELSE mem
        /\ behind' = TRUE
        /\ UNCHANGED <<cache, faults>>
     \/ stale /\ UNCHANGED <<objects, faults>>
     \/ Fault /\ UNCHANGED objects
  /\ UNCHANGED <<secret, store>>

\* The process dies; its successor fills the cache anew.
Crash ==
  /\ pc # "idle"
  /\ Fault
  /\ Forgets
  /\ stale' = FALSE
  /\ cache' = kcp /\ behind' = FALSE
  /\ UNCHANGED <<secret, store, kcp>>

Reconcile ==
  \/ Start
  \/ ReadSecret
  \/ \E n \in Names : DeleteEntry(n) \/ SetEntry(n)
  \/ DeletedAll
  \/ SetAll
  \/ MarkReady
  \/ Save

Next ==
  \/ \E n \in Names, v \in Maybe : ChangeEntry(n, v)
  \/ \E b \in BOOLEAN : EditControlPlane(b)
  \/ Delete
  \/ Sync
  \/ Crash
  \/ Reconcile

Spec == Init /\ [][Next]_vars

\* The queue requeues, calls return, and the watch delivers.
Fairness == WF_vars(Reconcile) /\ WF_vars(Sync)

FairSpec == Spec /\ Fairness

-----------------------------------------------------------------------------
(***************************************************************************)
(* Properties.                                                             *)
(***************************************************************************)
\* Type invariant; between two calls of Reconcile nothing is left of the first.
TypeOK ==
  /\ secret \in [Names -> Maybe]
  /\ store \in [Names -> Maybe]
  /\ kcp \in ControlPlane /\ cache \in ControlPlane /\ mem \in ControlPlane
  /\ behind \in BOOLEAN /\ stale \in BOOLEAN /\ failed \in BOOLEAN
  /\ data \in [Names -> Maybe]
  /\ todo \subseteq Names
  /\ pc \in {"idle", "read", "delete", "set", "mark", "save"}
  /\ faults \in 0 .. MaxFaults
  /\ pc = "idle" => ~stale /\ ~failed /\ todo = {} /\ mem = Fresh

\* Only what status.secrets lists is taken out of the store: the secrets kops
\* keeps there itself stay.  A copy that was overtaken may have an older list.
OnlyListedDeleted ==
  [][\A n \in Names :
       store[n] # None /\ store'[n] = None => n \in kcp.secrets \/ stale]_vars

\* status.secrets drops an entry in the API server only once its secret has left
\* the store, whichever call failed in between: it stays reachable for deletion.
NothingForgotten ==
  [][\A n \in kcp.secrets \ kcp'.secrets : store[n] = None]_vars

\* status.secrets gains an entry in the API server only while its secret is in
\* the store, whichever call failed: nobody is told of a secret there is not.
NothingInvented ==
  [][\A n \in kcp'.secrets \ kcp.secrets : store[n] # None]_vars

\* kopscontrolplane_types.go:30, "reports on the successful reconcile of the
\* Kops Secrets": the condition is not true after a reconcile that failed.
ReadyMeansReconciled == pc = "save" /\ failed => ~mem.ready

\* An entry that stays in the Secret ends up in the store with its value,
\* however often the control plane is edited meanwhile.
EntriesConverge ==
  \A n \in Names : \A v \in Values :
    <>[](secret[n] = v /\ kcp.refers) => <>[](store[n] = v)

\* An entry that stays out of the Secret leaves the store, if it is listed.
RemovalsConverge ==
  \A n \in Names :
    <>[](secret[n] = None /\ kcp.refers) => <>[](n \in kcp.secrets => store[n] = None)

\* A list that lost an entry to a failed save gets it back while the entry is
\* there, unless edits make every save a conflict, or the control plane is in
\* deletion: the list stays as it is then, whatever is stored.
ListingHeals ==
  \A n \in Names :
    <>[](secret[n] # None /\ kcp.refers /\ ~kcp.deleting /\ ~stale)
      => <>[](n \in kcp.secrets)
=============================================================================
