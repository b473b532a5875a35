-------------------------- MODULE KopsSecretsProofs --------------------------
(***************************************************************************)
(* Proofs about KopsSecrets, for any names, values and number of faults.   *)
(*                                                                         *)
(* NothingForgotten is about the save, whose copy was taken long before.   *)
(* IInv says what a copy that the API server would still accept has become *)
(* in the meantime: whatever it no longer lists is out of the store, and   *)
(* whatever it lists in addition is in there (NothingInvented).            *)
(***************************************************************************)
EXTENDS KopsSecrets, TLAPS

\* A cached copy that is not behind is the latest version.
CacheFresh == ~behind => cache = kcp

\* An acceptable copy has the list of the API server until the first loop, which
\* visits the unwanted entries on it; the second visits the wanted ones.
LoopInv ==
  /\ pc = "read" /\ ~stale => mem.secrets = kcp.secrets
  /\ pc = "delete" => \A n \in todo : data[n] = None /\ (~stale => n \in kcp.secrets)
  /\ pc = "set" => \A n \in todo : data[n] # None

\* An acceptable copy lists what the API server does when the entries are read.
\* What it drops later is out of the store, and not yet to be put there again.
DroppedIsGone ==
  pc # "idle" /\ ~stale =>
    \A n \in kcp.secrets \ mem.secrets :
      /\ pc # "read"
      /\ store[n] = None
      /\ pc \in {"delete", "set"} => data[n] = None

\* What it lists in addition is in the store.
AddedIsThere ==
  pc # "idle" /\ ~stale => \A n \in mem.secrets \ kcp.secrets : store[n] # None

IInv ==
  /\ TypeOK
  /\ CacheFresh
  /\ LoopInv
  /\ DroppedIsGone
  /\ AddedIsThere
-----------------------------------------------------------------------------
\* The records the API server and the copies are made of.
LEMMA RecordFacts ==
  /\ Fresh \in ControlPlane
  /\ \A k \in ControlPlane :
       /\ \A b \in BOOLEAN : [k EXCEPT !.refers = b] \in ControlPlane
       /\ [k EXCEPT !.deleting = TRUE] \in ControlPlane
       /\ [k EXCEPT !.ready = TRUE] \in ControlPlane
BY DEF ControlPlane, Fresh

LEMMA FaultTyped == faults \in 0 .. MaxFaults /\ Fault => faults' \in 0 .. MaxFaults
BY MaxFaultsAssumption DEF Fault

\* What is no longer wanted are entries.
LEMMA RemovedTyped ==
  ASSUME NEW k \in ControlPlane, NEW d PROVE Removed(k.secrets, d) \subseteq Names
BY DEF ControlPlane, Removed

\* Every step keeps the types.
LEMMA TypeStep == TypeOK /\ [Next]_vars => TypeOK'
<1> SUFFICES ASSUME TypeOK, [Next]_vars PROVE TypeOK'
  OBVIOUS
<1> USE FaultTyped DEF TypeOK, objects
<1>1. ASSUME NEW n \in Names, NEW v \in Maybe, ChangeEntry(n, v) PROVE TypeOK'
  BY <1>1 DEF ChangeEntry
<1>2. ASSUME NEW b \in BOOLEAN, EditControlPlane(b) PROVE TypeOK'
  BY <1>2, RecordFacts DEF EditControlPlane, Writes
<1>3. CASE Sync
  BY <1>3 DEF Sync
<1>4. CASE Crash
  BY <1>4, RecordFacts DEF Crash, Forgets, NoEntries, Maybe
<1>5. CASE Start
  BY <1>5 DEF Start
<1>6. CASE ReadSecret
  BY <1>6, RemovedTyped DEF ReadSecret
<1>7. ASSUME NEW n \in Names, DeleteEntry(n) PROVE TypeOK'
  <2>1. store' \in [Names -> Maybe]
    BY <1>7 DEF DeleteEntry, StoreFails, Maybe
  <2>2. mem' \in ControlPlane
    BY <1>7 DEF DeleteEntry, StoreFails, ControlPlane
  <2>3. todo' \subseteq Names /\ pc' \in {"delete", "mark"}
    BY <1>7 DEF DeleteEntry, StoreFails
  <2>4. faults' \in 0 .. MaxFaults /\ failed' \in BOOLEAN
    BY <1>7 DEF DeleteEntry, StoreFails
  <2>5. UNCHANGED <<secret, kcp, cache, behind, stale, data>>
    BY <1>7 DEF DeleteEntry
  <2> QED
    BY <2>1, <2>2, <2>3, <2>4, <2>5
<1>8. ASSUME NEW n \in Names, SetEntry(n) PROVE TypeOK'
  <2>1. store' \in [Names -> Maybe]
    BY <1>8 DEF SetEntry, StoreFails
  <2>2. mem' \in ControlPlane
    BY <1>8 DEF SetEntry, StoreFails, ControlPlane
  <2>3. todo' \subseteq Names /\ pc' \in {"set", "mark"}
    BY <1>8 DEF SetEntry, StoreFails
  <2>4. faults' \in 0 .. MaxFaults /\ failed' \in BOOLEAN
    BY <1>8 DEF SetEntry, StoreFails
  <2>5. UNCHANGED <<secret, kcp, cache, behind, stale, data>>
    BY <1>8 DEF SetEntry
  <2> QED
    BY <2>1, <2>2, <2>3, <2>4, <2>5
<1>9. CASE DeletedAll \/ SetAll \/ MarkReady
  BY <1>9, RecordFacts DEF DeletedAll, SetAll, MarkReady, Present
<1>10. CASE Save
  BY <1>10, RecordFacts DEF Save, Forgets, NoEntries, Maybe
<1>11. CASE UNCHANGED vars
  BY <1>11 DEF vars
<1>12. CASE Delete
  BY <1>12, RecordFacts DEF Delete, Writes
<1> QED
  BY <1>1, <1>2, <1>3, <1>4, <1>5, <1>6, <1>7, <1>8, <1>9, <1>10, <1>11, <1>12 DEF Next, Reconcile

\* Only the watch and a restart change the cache, and every write is noticed.
LEMMA CacheStep == TypeOK /\ CacheFresh /\ [Next]_vars => CacheFresh'
<1> SUFFICES ASSUME TypeOK, CacheFresh, [Next]_vars PROVE CacheFresh'
  OBVIOUS
<1>1. CASE \/ \E b \in BOOLEAN : EditControlPlane(b)
           \/ Delete
           \/ Sync
           \/ Crash
           \/ Save
  BY <1>1 DEF EditControlPlane, Delete, Writes, Sync, Crash, Save, CacheFresh, objects
<1>2. CASE ~(\/ \E b \in BOOLEAN : EditControlPlane(b)
             \/ Delete
             \/ Sync
             \/ Crash
             \/ Save)
  <2>1. UNCHANGED objects
    BY <1>2 DEF Next, Reconcile, ChangeEntry, Start, ReadSecret, DeleteEntry, SetEntry,
       DeletedAll, SetAll, MarkReady, vars
  <2> QED
    BY <2>1 DEF CacheFresh, objects
<1> QED
  BY <1>1, <1>2

\* The loops visit what they should.
LEMMA LoopStep == TypeOK /\ CacheFresh /\ LoopInv /\ [Next]_vars => LoopInv'
<1> SUFFICES ASSUME TypeOK, CacheFresh, LoopInv, [Next]_vars PROVE LoopInv'
  OBVIOUS
<1> USE DEF LoopInv, objects
<1>1. CASE ReadSecret
  BY <1>1 DEF ReadSecret, Removed, Present, TypeOK, ControlPlane
<1>2. CASE DeletedAll
  BY <1>2 DEF DeletedAll, Present
<1>3. ASSUME NEW n \in Names, DeleteEntry(n) \/ SetEntry(n) PROVE LoopInv'
  BY <1>3 DEF DeleteEntry, SetEntry, StoreFails
<1>4. CASE Start \/ SetAll \/ MarkReady \/ Save \/ Crash
  BY <1>4 DEF Start, SetAll, MarkReady, Save, Crash, Forgets, CacheFresh
<1>5. CASE \/ \E n \in Names, v \in Maybe : ChangeEntry(n, v)
           \/ Sync
           \/ UNCHANGED vars
  BY <1>5 DEF ChangeEntry, Sync, vars
<1>6. ASSUME NEW b \in BOOLEAN, EditControlPlane(b) \/ Delete PROVE LoopInv'
  <2>1. UNCHANGED <<pc, data, todo>> /\ stale' = (pc # "idle")
    BY <1>6 DEF EditControlPlane, Delete, Writes
  <2> QED
    BY <2>1
<1> QED
  BY <1>1, <1>2, <1>3, <1>4, <1>5, <1>6 DEF Next, Reconcile

\* An acceptable copy has dropped only what left the store.
LEMMA DroppedStep == IInv /\ [Next]_vars => DroppedIsGone'
<1> SUFFICES ASSUME IInv, [Next]_vars PROVE DroppedIsGone'
  OBVIOUS
<1> USE DEF IInv, DroppedIsGone, objects
<1>1. CASE Start
  BY <1>1 DEF Start, CacheFresh, TypeOK
<1>2. CASE ReadSecret
  BY <1>2 DEF ReadSecret
<1>3. ASSUME NEW n \in Names, DeleteEntry(n) PROVE DroppedIsGone'
  <2>1. data[n] = None
    BY <1>3 DEF DeleteEntry, LoopInv
  <2>2. UNCHANGED <<kcp, stale, data>> /\ pc = "delete"
    BY <1>3 DEF DeleteEntry
  <2>3. CASE StoreFails
    BY <2>2, <2>3 DEF StoreFails
  <2>4. CASE ~StoreFails
    <3>1. /\ store' = [store EXCEPT ![n] = None]
          /\ mem'.secrets = mem.secrets \ {n}
          /\ pc' = pc
      BY <1>3, <2>4 DEF DeleteEntry, TypeOK, ControlPlane
    <3> QED
      BY <2>1, <2>2, <3>1 DEF TypeOK, ControlPlane
  <2> QED
    BY <2>3, <2>4
<1>4. ASSUME NEW n \in Names, SetEntry(n) PROVE DroppedIsGone'
  <2>1. data[n] # None
    BY <1>4 DEF SetEntry, LoopInv
  <2>2. UNCHANGED <<kcp, stale, data>> /\ pc = "set"
    BY <1>4 DEF SetEntry
  <2>3. CASE StoreFails
    BY <2>2, <2>3 DEF StoreFails
  <2>4. CASE ~StoreFails
    <3>1. /\ store' = [store EXCEPT ![n] = data[n]]
          /\ mem'.secrets = mem.secrets \union {n}
          /\ pc' = pc
      BY <1>4, <2>4 DEF SetEntry, TypeOK, ControlPlane
    <3> QED
      BY <2>1, <2>2, <3>1 DEF TypeOK, ControlPlane
  <2> QED
    BY <2>3, <2>4
<1>5. CASE DeletedAll \/ SetAll
  BY <1>5 DEF DeletedAll, SetAll
<1>6. CASE MarkReady
  <2>1. mem'.secrets = mem.secrets
    BY <1>6 DEF MarkReady, TypeOK, ControlPlane
  <2> QED
    BY <1>6, <2>1 DEF MarkReady
<1>7. CASE Save \/ Crash
  BY <1>7 DEF Save, Crash, Forgets
<1>8. ASSUME NEW b \in BOOLEAN, EditControlPlane(b) \/ Delete PROVE DroppedIsGone'
  BY <1>8 DEF EditControlPlane, Delete, Writes
<1>9. CASE \/ \E n \in Names, v \in Maybe : ChangeEntry(n, v)
           \/ Sync
           \/ UNCHANGED vars
  BY <1>9 DEF ChangeEntry, Sync, vars
<1> QED
  BY <1>1, <1>2, <1>3, <1>4, <1>5, <1>6, <1>7, <1>8, <1>9 DEF Next, Reconcile

\* An acceptable copy has added only what is in the store.
LEMMA AddedStep == IInv /\ [Next]_vars => AddedIsThere'
<1> SUFFICES ASSUME IInv, [Next]_vars PROVE AddedIsThere'
  OBVIOUS
<1> USE DEF IInv, AddedIsThere, objects
<1>1. CASE Start
  BY <1>1 DEF Start, CacheFresh, TypeOK
<1>2. ASSUME NEW n \in Names, DeleteEntry(n) PROVE AddedIsThere'
  <2>1. UNCHANGED <<kcp, stale>> /\ pc = "delete"
    BY <1>2 DEF DeleteEntry
  <2>2. CASE StoreFails
    BY <2>1, <2>2 DEF StoreFails
  <2>3. CASE ~StoreFails
    <3>1. /\ store' = [store EXCEPT ![n] = None]
          /\ mem'.secrets = mem.secrets \ {n}
      BY <1>2, <2>3 DEF DeleteEntry, TypeOK, ControlPlane
    <3> QED
      BY <2>1, <3>1 DEF TypeOK, ControlPlane
  <2> QED
    BY <2>2, <2>3
<1>3. ASSUME NEW n \in Names, SetEntry(n) PROVE AddedIsThere'
  <2>1. data[n] # None
    BY <1>3 DEF SetEntry, LoopInv
  <2>2. UNCHANGED <<kcp, stale>> /\ pc = "set"
    BY <1>3 DEF SetEntry
  <2>3. CASE StoreFails
    BY <2>2, <2>3 DEF StoreFails
  <2>4. CASE ~StoreFails
    <3>1. /\ store' = [store EXCEPT ![n] = data[n]]
          /\ mem'.secrets = mem.secrets \union {n}
      BY <1>3, <2>4 DEF SetEntry, TypeOK, ControlPlane
    <3> QED
      BY <2>1, <2>2, <3>1 DEF TypeOK, ControlPlane
  <2> QED
    BY <2>3, <2>4
<1>4. CASE ReadSecret \/ DeletedAll \/ SetAll
  BY <1>4 DEF ReadSecret, DeletedAll, SetAll
<1>5. CASE MarkReady
  <2>1. mem'.secrets = mem.secrets
    BY <1>5 DEF MarkReady, TypeOK, ControlPlane
  <2> QED
    BY <1>5, <2>1 DEF MarkReady
<1>6. CASE Save \/ Crash
  BY <1>6 DEF Save, Crash, Forgets
<1>7. ASSUME NEW b \in BOOLEAN, EditControlPlane(b) \/ Delete PROVE AddedIsThere'
  BY <1>7 DEF EditControlPlane, Delete, Writes
<1>8. CASE \/ \E n \in Names, v \in Maybe : ChangeEntry(n, v)
           \/ Sync
           \/ UNCHANGED vars
  BY <1>8 DEF ChangeEntry, Sync, vars
<1> QED
  BY <1>1, <1>2, <1>3, <1>4, <1>5, <1>6, <1>7, <1>8 DEF Next, Reconcile

LEMMA InitIInv == Init => IInv
<1> SUFFICES ASSUME Init PROVE IInv
  OBVIOUS
<1>1. NoEntries \in [Names -> Maybe]
  BY DEF NoEntries, Maybe
<1>2. faults \in 0 .. MaxFaults
  BY MaxFaultsAssumption DEF Init
<1>3. TypeOK
  BY <1>1, <1>2, RecordFacts DEF Init, TypeOK
<1> QED
  BY <1>3 DEF Init, IInv, CacheFresh, LoopInv, DroppedIsGone, AddedIsThere

\* IInv holds throughout.
THEOREM Invariance == Spec => []IInv
<1>1. IInv /\ [Next]_vars => IInv'
  BY TypeStep, CacheStep, LoopStep, DroppedStep, AddedStep DEF IInv
<1> QED
  BY <1>1, InitIInv, PTL DEF Spec

\* The types are correct in every instance.
THEOREM TypeCorrect == Spec => []TypeOK
<1>1. IInv => TypeOK
  BY DEF IInv
<1> QED
  BY <1>1, Invariance, PTL

\* Unless the copy was overtaken, the controller takes nothing out of the store
\* but what the API server lists, whatever else is kept there.
THEOREM UnlistedStays == Spec => OnlyListedDeleted
<1>1. ASSUME IInv, [Next]_vars
      PROVE  [\A n \in Names :
                store[n] # None /\ store'[n] = None => n \in kcp.secrets \/ stale]_vars
  <2> SUFFICES ASSUME Next, NEW n \in Names, store[n] # None, store'[n] = None
               PROVE  n \in kcp.secrets \/ stale
    BY <1>1
  <2>1. ASSUME NEW m \in Names, DeleteEntry(m) PROVE n \in kcp.secrets \/ stale
    <3>1. pc = "delete" /\ m \in todo /\ store' \in {store, [store EXCEPT ![m] = None]}
      BY <2>1 DEF DeleteEntry, StoreFails
    <3>2. n = m
      BY <1>1, <3>1 DEF IInv, TypeOK
    <3> QED
      BY <1>1, <3>1, <3>2 DEF IInv, LoopInv
  <2>2. ASSUME NEW m \in Names, SetEntry(m) PROVE FALSE
    <3>1. pc = "set" /\ m \in todo /\ store' \in {store, [store EXCEPT ![m] = data[m]]}
      BY <2>2 DEF SetEntry, StoreFails
    <3> QED
      BY <1>1, <3>1 DEF IInv, TypeOK, LoopInv
  <2>3. CASE ~ \E m \in Names : DeleteEntry(m) \/ SetEntry(m)
    <3>1. store' = store
      BY <2>3 DEF Next, Reconcile, ChangeEntry, EditControlPlane, Delete, Sync, Crash, Start,
         ReadSecret, DeletedAll, SetAll, MarkReady, Save
    <3> QED
      BY <3>1
  <2> QED
    BY <2>1, <2>2, <2>3
<1> QED
  BY <1>1, Invariance, PTL DEF Spec, OnlyListedDeleted

\* The saved list changes only in a save, which writes the whole copy.
LEMMA ListSaved ==
  TypeOK /\ Next /\ kcp'.secrets # kcp.secrets => pc = "save" /\ ~stale /\ kcp' = mem
<1> SUFFICES ASSUME TypeOK, Next, kcp'.secrets # kcp.secrets
             PROVE  pc = "save" /\ ~stale /\ kcp' = mem
  OBVIOUS
<1>1. CASE Save
  BY <1>1 DEF Save, objects
<1>2. ASSUME NEW b \in BOOLEAN, EditControlPlane(b) \/ Delete PROVE FALSE
  <2>1. kcp'.secrets = kcp.secrets
    BY <1>2 DEF EditControlPlane, Delete, Writes, TypeOK, ControlPlane
  <2> QED
    BY <2>1
<1>3. CASE ~(Save \/ Delete \/ \E b \in BOOLEAN : EditControlPlane(b))
  <2>1. kcp' = kcp
    BY <1>3 DEF Next, Reconcile, ChangeEntry, Sync, Crash, Start, ReadSecret, DeleteEntry,
       SetEntry, DeletedAll, SetAll, MarkReady, objects
  <2> QED
    BY <2>1
<1> QED
  BY <1>1, <1>2, <1>3

\* Whatever fails, and whatever users do meanwhile, the saved list loses a name
\* only after the store has lost its secret.
THEOREM ListKeptUntilDeleted == Spec => NothingForgotten
<1>1. ASSUME IInv, [Next]_vars
      PROVE  [\A n \in kcp.secrets \ kcp'.secrets : store[n] = None]_vars
  <2> SUFFICES ASSUME Next, NEW n \in kcp.secrets \ kcp'.secrets PROVE store[n] = None
    BY <1>1
  <2> QED
    BY <1>1, ListSaved DEF IInv, DroppedIsGone
<1> QED
  BY <1>1, Invariance, PTL DEF Spec, NothingForgotten

\* Nor does it gain one before the store has the secret.
THEOREM ListedWhenStored == Spec => NothingInvented
<1>1. ASSUME IInv, [Next]_vars
      PROVE  [\A n \in kcp'.secrets \ kcp.secrets : store[n] # None]_vars
  <2> SUFFICES ASSUME Next, NEW n \in kcp'.secrets \ kcp.secrets PROVE store[n] # None
    BY <1>1
  <2> QED
    BY <1>1, ListSaved DEF IInv, AddedIsThere
<1> QED
  BY <1>1, Invariance, PTL DEF Spec, NothingInvented
=============================================================================
