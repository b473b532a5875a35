------------------------- MODULE ControlPlaneProofs -------------------------
(***************************************************************************)
(* Proofs about ControlPlane, for any number of pools and of faults.       *)
(*                                                                         *)
(* The inductive invariant IInv says, beside the types, what a copy that   *)
(* lost its finalizer stands for, and what each point of the deletion path *)
(* has left behind.                                                        *)
(***************************************************************************)
EXTENDS ControlPlane, TLAPS

\* The types alone, without what ties the program counter to the copies.
Typed ==
  /\ obj \in [Objects -> Object]
  /\ cache \in [Objects -> Object]
  /\ behind \subseteq Objects
  /\ mem \in [Objects -> Object]
  /\ stale \subseteq Objects
  /\ pc \in PCs
  /\ todo \subseteq Pools
  /\ cluster \in BOOLEAN
  /\ ssh \in BOOLEAN
  /\ igs \subseteq Pools
  /\ infra \in BOOLEAN
  /\ asgs \subseteq Pools
  /\ faults \in 0 .. MaxFaults

\* Reconcile holds a copy of the control plane from its start to its return,
\* and no copies beyond.
HoldsControlPlane ==
  /\ pc = "idle" <=> mem[KCP] = Absent
  /\ pc = "idle" => \A o \in Objects : mem[o] = Absent

\* An object or a copy that is absent is Absent: there is nothing else to it.
Canonical ==
  \A o \in Objects :
    /\ obj[o].phase = "absent" => obj[o] = Absent
    /\ cache[o].phase = "absent" => cache[o] = Absent
    /\ mem[o].phase = "absent" => mem[o] = Absent

\* What is not behind is the latest version, and a copy that is not stale tells
\* the truth about deletion and protection.
Coherent ==
  /\ \A o \in Objects \ behind : cache[o] = obj[o]
  /\ \A o \in Objects \ stale :
       mem[o] # Absent =>
         obj[o].phase = mem[o].phase /\ obj[o].protected = mem[o].protected

\* The loops visit pools that Reconcile holds.
TodoHeld == todo \subseteq Held

\* What is in deletion has its finalizer, in the API server and in the cache.
DeletingHeld ==
  \A o \in Objects :
    /\ obj[o].phase = "deleting" => obj[o].fin
    /\ cache[o].phase = "deleting" => cache[o].fin

\* A copy in deletion that lost its finalizer stands for work that is done.
LosesFinalizer(o) == mem[o].phase = "deleting" /\ ~mem[o].fin
ReleasedWhenDone ==
  /\ LosesFinalizer(KCP) => pc = "save" /\ NothingLeft
  /\ \A p \in Pools : LosesFinalizer(p) => p \notin igs

\* Each point of the two paths stands on what the one before achieved.
PathInv ==
  /\ pc = "apply" => cluster
  /\ pc = "kopsDelete" => NothingInCloud
  /\ pc = "release" => NothingLeft

IInv ==
  /\ Typed
  /\ HoldsControlPlane
  /\ Canonical
  /\ Coherent
  /\ TodoHeld
  /\ DeletingHeld
  /\ ReleasedWhenDone
  /\ PathInv
  /\ StateOutlivesCloud
-----------------------------------------------------------------------------
\* The records the API server and the copies are made of.
LEMMA ObjectFacts ==
  /\ Absent \in Object
  /\ Created \in Object
  /\ \A r \in Object :
       /\ [r EXCEPT !.phase = "deleting"] \in Object
       /\ [r EXCEPT !.fin = TRUE] \in Object
       /\ [r EXCEPT !.fin = FALSE] \in Object
       /\ [r EXCEPT !.protected = TRUE] \in Object
       /\ [r EXCEPT !.protected = FALSE] \in Object
BY DEF Object, Absent, Created

\* A counted fault keeps to its bound.
LEMMA FaultTyped == faults \in 0 .. MaxFaults /\ Fault => faults' \in 0 .. MaxFaults
BY MaxFaultsAssumption DEF Fault

\* The steps by what they may change: those of users, Cluster API and the watch,
WorldStep ==
  \/ \E p \in Pools : CreatePool(p)
  \/ \E o \in Objects : Delete(o) \/ Sync(o)
  \/ Protect
  \/ Unprotect

\* those that work on the kops state and in the cloud,
WorkStep == CreateOrUpdateCluster \/ Apply \/ Observe \/ Destroy \/ KopsDelete

\* those that take, change or give up copies,
ListStep == ListPools("list", "pools") \/ ListPools("listForDeletion", "destroy")
CopyStep ==
  \/ Start
  \/ ListStep
  \/ \E p \in Pools : ReconcilePool(p) \/ ReleasePool(p)
  \/ ReleaseControlPlane

\* and those after which Reconcile has fewer copies.
ReturnStep == (\E p \in Pools : SavePool(p)) \/ SaveControlPlane \/ Crash

LEMMA StepGroups ==
  [Next]_vars => WorldStep \/ WorkStep \/ CopyStep \/ ReturnStep \/ UNCHANGED vars
BY DEF Next, Environment, Reconcile, WorldStep, WorkStep, ListStep, CopyStep, ReturnStep, NotFound

LEMMA WorldFrame == WorldStep => UNCHANGED <<mem, pc, todo, state, aws, faults>>
BY DEF WorldStep, CreatePool, Delete, Sync, Protect, Unprotect

LEMMA WorkFrame ==
  WorkStep =>
    /\ UNCHANGED <<api, mem, stale>>
    /\ todo' = todo \/ todo' = Held
    /\ pc \in {"pools", "apply", "observe", "destroy", "kopsDelete"}
    /\ pc' \in {"apply", "observe", "kopsDelete", "release", "save"}
    /\ pc' \in {"kopsDelete", "release"} => pc \in {"destroy", "kopsDelete"}
BY DEF WorkStep, CreateOrUpdateCluster, Apply, Observe, Destroy, KopsDelete, Fails, Returns

LEMMA CopyFrame == CopyStep => UNCHANGED <<api, cluster, ssh, aws>>
BY DEF CopyStep, ListStep, Start, ListPools, ReconcilePool, ReleasePool, ReleaseControlPlane, state

LEMMA ReturnFrame == ReturnStep => UNCHANGED <<state, aws>> /\ pc' \in {pc, "idle"}
BY DEF ReturnStep, SavePool, SaveControlPlane, Crash, Forgets

\* Every step keeps the types.
LEMMA TypedStep == Typed /\ [Next]_vars => Typed'
<1> SUFFICES ASSUME Typed, [Next]_vars PROVE Typed'
  OBVIOUS
<1> USE PoolsAssumption, ObjectFacts, FaultTyped DEF api, state, aws, Typed, Objects, PCs
<1>1. ASSUME NEW p \in Pools, CreatePool(p) PROVE Typed'
  BY <1>1 DEF CreatePool, Writes
<1>2. ASSUME NEW o \in Objects, Delete(o) PROVE Typed'
  BY <1>2 DEF Delete, Writes
<1>3. ASSUME NEW o \in Objects, Sync(o) PROVE Typed'
  BY <1>3 DEF Sync
<1>4. CASE Protect \/ Unprotect
  <2>1. obj[KCP] \in Object
    OBVIOUS
  <2>2. [obj[KCP] EXCEPT !.protected = TRUE] \in Object /\ [obj[KCP] EXCEPT !.protected = FALSE] \in Object
    BY <2>1
  <2>3. obj' \in [Objects -> Object] /\ behind' \subseteq Objects /\ stale' \subseteq Objects
    BY <1>4, <2>2, ZenonT(30) DEF Protect, Unprotect, Writes
  <2>4. UNCHANGED <<cache, mem, pc, todo, state, aws, faults>>
    BY <1>4, WorldFrame DEF WorldStep, Protect, Unprotect, Writes
  <2> QED
    BY <2>3, <2>4
<1>5. CASE WorkStep
  <2>1. todo' \subseteq Pools /\ pc' \in PCs /\ UNCHANGED <<api, mem, stale>>
    BY <1>5, WorkFrame DEF Held
  <2>2. CASE CreateOrUpdateCluster
    BY <2>1, <2>2 DEF CreateOrUpdateCluster, Fails
  <2>3. CASE Apply
    BY <2>1, <2>3 DEF Apply, Fails
  <2>4. CASE Observe
    BY <2>1, <2>4 DEF Observe
  <2>5. CASE Destroy
    BY <2>1, <2>5 DEF Destroy, Fails
  <2>6. CASE KopsDelete
    BY <2>1, <2>6 DEF KopsDelete, Fails
  <2> QED
    BY <1>5, <2>2, <2>3, <2>4, <2>5, <2>6 DEF WorkStep
<1>6. CASE Start
  <2>1. \A r \in Object : mem' = [mem EXCEPT ![KCP] = r] => mem' \in [Objects -> Object]
    OBVIOUS
  <2>2. cache[KCP] \in Object /\ [cache[KCP] EXCEPT !.fin = TRUE] \in Object
    OBVIOUS
  <2>3. mem' \in [Objects -> Object]
    BY <1>6, <2>1, <2>2 DEF Start
  <2> QED
    BY <1>6, <2>3 DEF Start, Fails, Returns, Held
<1>7. CASE ListStep
  BY <1>7 DEF ListStep, ListPools, Fails, Returns, Held
<1>8. ASSUME NEW p \in Pools, ReconcilePool(p) PROVE Typed'
  <2>1. mem[p] \in Object
    OBVIOUS
  <2>2. [mem[p] EXCEPT !.fin = TRUE] \in Object /\ [mem[p] EXCEPT !.fin = FALSE] \in Object
    BY <2>1
  <2>3. mem' \in [Objects -> Object]
    BY <1>8, <2>2 DEF ReconcilePool, DeletePool, CreateOrUpdatePool
  <2> QED
    BY <1>8, <2>3 DEF ReconcilePool, DeletePool, CreateOrUpdatePool
<1>9. ASSUME NEW p \in Pools, ReleasePool(p) PROVE Typed'
  <2>1. [cache[p] EXCEPT !.fin = FALSE] \in Object
    OBVIOUS
  <2>2. mem' \in [Objects -> Object]
    BY <1>9, <2>1 DEF ReleasePool
  <2> QED
    BY <1>9, <2>2 DEF ReleasePool, Fails, Returns, Held
<1>10. CASE ReleaseControlPlane
  <2>1. mem[KCP] \in Object
    OBVIOUS
  <2>2. [mem[KCP] EXCEPT !.fin = FALSE] \in Object
    BY <2>1
  <2>3. mem' \in [Objects -> Object]
    BY <1>10, <2>2 DEF ReleaseControlPlane
  <2> QED
    BY <1>10, <2>3 DEF ReleaseControlPlane, Fails, Returns, Held
<1>11. ASSUME NEW p \in Pools, SavePool(p) PROVE Typed'
  BY <1>11 DEF SavePool, Update
<1>12. CASE SaveControlPlane
  BY <1>12 DEF SaveControlPlane, Update, Forgets
<1>13. CASE Crash
  BY <1>13 DEF Crash, Forgets
<1>14. CASE UNCHANGED vars
  BY <1>14 DEF vars
<1> QED
  BY <1>1, <1>2, <1>3, <1>4, <1>5, <1>6, <1>7, <1>8, <1>9, <1>10, <1>11, <1>12, <1>13, <1>14,
     StepGroups DEF WorldStep, CopyStep, ReturnStep

\* Every step keeps absent objects and copies free of contents.
LEMMA CanonicalStep == Typed /\ HoldsControlPlane /\ Canonical /\ [Next]_vars => Canonical'
<1> SUFFICES ASSUME Typed, HoldsControlPlane, Canonical, [Next]_vars PROVE Canonical'
  OBVIOUS
<1> USE PoolsAssumption DEF api, Typed, Objects, Canonical, Object, Absent
<1>1. ASSUME NEW p \in Pools, CreatePool(p) PROVE Canonical'
  BY <1>1 DEF CreatePool, Writes, Created
<1>2. ASSUME NEW o \in Objects, Delete(o) PROVE Canonical'
  BY <1>2 DEF Delete, Writes
<1>3. ASSUME NEW o \in Objects, Sync(o) PROVE Canonical'
  BY <1>3 DEF Sync
<1>4. CASE Protect \/ Unprotect
  BY <1>4 DEF Protect, Unprotect, Writes
<1>5. CASE WorkStep \/ UNCHANGED vars
  BY <1>5, WorkFrame DEF vars
<1>6. CASE Start
  BY <1>6 DEF Start
<1>7. CASE ListStep
  BY <1>7 DEF ListStep, ListPools
<1>8. ASSUME NEW p \in Pools, ReconcilePool(p) PROVE Canonical'
  BY <1>8, SMTT(20) DEF ReconcilePool, DeletePool, CreateOrUpdatePool
<1>9. ASSUME NEW p \in Pools, ReleasePool(p) PROVE Canonical'
  BY <1>9 DEF ReleasePool
<1>10. CASE ReleaseControlPlane
  BY <1>10 DEF ReleaseControlPlane, HoldsControlPlane
<1>11. ASSUME NEW p \in Pools, SavePool(p) PROVE Canonical'
  <2>1. obj' = obj \/ obj' = [obj EXCEPT ![p] = Absent] \/ obj' = [obj EXCEPT ![p] = mem[p]]
    BY <1>11 DEF SavePool, Update
  <2>2. \A o \in Objects : obj'[o].phase = "absent" => obj'[o] = Absent
    BY <2>1
  <2>3. mem' = [mem EXCEPT ![p] = Absent] /\ cache' = cache
    BY <1>11 DEF SavePool, Update
  <2> QED
    BY <2>2, <2>3
<1>12. CASE SaveControlPlane \/ Crash
  <2>1. \/ obj' = obj /\ (cache' = cache \/ cache' = obj)
        \/ /\ obj' = [obj EXCEPT ![KCP] = Absent] \/ obj' = [obj EXCEPT ![KCP] = mem[KCP]]
           /\ cache' = cache
    BY <1>12 DEF SaveControlPlane, Update, Crash
  <2>2. /\ \A o \in Objects : obj'[o].phase = "absent" => obj'[o] = Absent
        /\ \A o \in Objects : cache'[o].phase = "absent" => cache'[o] = Absent
    BY <2>1
  <2>3. mem' = [o \in Objects |-> Absent]
    BY <1>12 DEF SaveControlPlane, Crash, Forgets
  <2> QED
    BY <2>2, <2>3
<1> QED
  BY <1>1, <1>2, <1>3, <1>4, <1>5, <1>6, <1>7, <1>8, <1>9, <1>10, <1>11, <1>12,
     StepGroups DEF WorldStep, CopyStep, ReturnStep

\* Every step keeps the copy of the control plane inside Reconcile.
LEMMA HoldsStep ==
  Typed /\ HoldsControlPlane /\ Canonical /\ [Next]_vars => HoldsControlPlane'
<1> SUFFICES ASSUME Typed, HoldsControlPlane, Canonical, [Next]_vars PROVE HoldsControlPlane'
  OBVIOUS
<1> USE PoolsAssumption DEF Typed, Objects, HoldsControlPlane
<1>1. CASE WorldStep \/ WorkStep \/ UNCHANGED vars
  BY <1>1, WorldFrame, WorkFrame DEF vars
<1>2. CASE Start
  BY <1>2 DEF Start, Canonical, Object, Absent, Fails, Returns
<1>3. CASE ListStep
  BY <1>3 DEF ListStep, ListPools, Fails, Returns
<1>4. ASSUME NEW p \in Pools, ReconcilePool(p) \/ ReleasePool(p) PROVE HoldsControlPlane'
  BY <1>4 DEF ReconcilePool, DeletePool, CreateOrUpdatePool, ReleasePool, Fails, Returns
<1>5. CASE ReleaseControlPlane
  BY <1>5 DEF ReleaseControlPlane, Canonical, Object, Absent, Fails, Returns
<1>6. ASSUME NEW p \in Pools, SavePool(p) PROVE HoldsControlPlane'
  BY <1>6 DEF SavePool
<1>7. CASE SaveControlPlane \/ Crash
  BY <1>7 DEF SaveControlPlane, Crash, Forgets
<1> QED
  BY <1>1, <1>2, <1>3, <1>4, <1>5, <1>6, <1>7, StepGroups DEF CopyStep, ReturnStep

\* Every step keeps finalizers on what is in deletion.
LEMMA DeletingStep ==
  Typed /\ DeletingHeld /\ Canonical /\ HoldsControlPlane /\ [Next]_vars => DeletingHeld'
<1> SUFFICES ASSUME Typed, DeletingHeld, Canonical, HoldsControlPlane, [Next]_vars
             PROVE  DeletingHeld'
  OBVIOUS
<1> USE PoolsAssumption DEF api, Typed, Objects, DeletingHeld, Object, Absent
<1>1. ASSUME NEW p \in Pools, CreatePool(p) PROVE DeletingHeld'
  BY <1>1 DEF CreatePool, Writes, Created
<1>2. ASSUME NEW o \in Objects, Delete(o) PROVE DeletingHeld'
  BY <1>2 DEF Delete, Writes
<1>3. ASSUME NEW o \in Objects, Sync(o) PROVE DeletingHeld'
  BY <1>3 DEF Sync
<1>4. CASE Protect \/ Unprotect
  BY <1>4 DEF Protect, Unprotect, Writes
<1>5. CASE WorkStep \/ CopyStep \/ UNCHANGED vars
  BY <1>5, WorkFrame, CopyFrame DEF vars
<1>6. ASSUME NEW p \in Pools, SavePool(p) PROVE DeletingHeld'
  BY <1>6 DEF SavePool, Update
<1>7. CASE SaveControlPlane
  BY <1>7 DEF SaveControlPlane, Update
<1>8. CASE Crash
  BY <1>8 DEF Crash
<1> QED
  BY <1>1, <1>2, <1>3, <1>4, <1>5, <1>6, <1>7, <1>8, StepGroups DEF WorldStep, ReturnStep

\* Every step keeps the loops to the pools that are held.
LEMMA TodoStep == Typed /\ HoldsControlPlane /\ Canonical /\ TodoHeld /\ [Next]_vars => TodoHeld'
<1> SUFFICES ASSUME Typed, HoldsControlPlane, Canonical, TodoHeld, [Next]_vars PROVE TodoHeld'
  OBVIOUS
<1> USE PoolsAssumption DEF Typed, Objects, TodoHeld, Held
<1>1. CASE WorldStep \/ WorkStep \/ UNCHANGED vars
  BY <1>1, WorldFrame, WorkFrame DEF vars
<1>2. CASE Start
  BY <1>2 DEF Start, HoldsControlPlane, Fails, Returns
<1>3. CASE ListStep
  <2>1. \/ /\ todo' = {p \in Pools : obj[p] # Absent}
           /\ \A p \in Pools : mem'[p] = obj[p]
        \/ todo' = Held /\ mem' = mem
    BY <1>3 DEF ListStep, ListPools, Fails, Returns
  <2>2. CASE todo' = Held /\ mem' = mem
    BY <2>2
  <2>3. CASE /\ todo' = {p \in Pools : obj[p] # Absent}
             /\ \A p \in Pools : mem'[p] = obj[p]
    <3>1. \A p \in todo' : p \in Pools /\ mem'[p] # Absent
      BY <2>3
    <3> QED
      BY <3>1
  <2> QED
    BY <2>1, <2>2, <2>3
<1>4. ASSUME NEW p \in Pools, ReconcilePool(p) PROVE TodoHeld'
  BY <1>4 DEF ReconcilePool, DeletePool, CreateOrUpdatePool
<1>5. ASSUME NEW p \in Pools, ReleasePool(p) PROVE TodoHeld'
  BY <1>5 DEF ReleasePool, Fails, Returns
<1>6. CASE ReleaseControlPlane
  BY <1>6 DEF ReleaseControlPlane, Fails, Returns
<1>7. ASSUME NEW p \in Pools, SavePool(p) PROVE TodoHeld'
  BY <1>7 DEF SavePool
<1>8. CASE SaveControlPlane \/ Crash
  BY <1>8 DEF SaveControlPlane, Crash, Forgets
<1> QED
  BY <1>1, <1>2, <1>3, <1>4, <1>5, <1>6, <1>7, <1>8, StepGroups DEF CopyStep, ReturnStep

\* Every step keeps the cache and the copies as good as their versions.
LEMMA CoherentStep == Typed /\ HoldsControlPlane /\ Coherent /\ [Next]_vars => Coherent'
<1> SUFFICES ASSUME Typed, HoldsControlPlane, Coherent, [Next]_vars PROVE Coherent'
  OBVIOUS
<1> USE PoolsAssumption DEF api, Typed, Objects, Coherent, Object, Absent
<1>1. ASSUME NEW p \in Pools, CreatePool(p) PROVE Coherent'
  BY <1>1 DEF CreatePool, Writes
<1>2. ASSUME NEW o \in Objects, Delete(o) PROVE Coherent'
  BY <1>2 DEF Delete, Writes
<1>3. ASSUME NEW o \in Objects, Sync(o) PROVE Coherent'
  BY <1>3 DEF Sync
<1>4. CASE Protect \/ Unprotect
  BY <1>4 DEF Protect, Unprotect, Writes
<1>5. CASE WorkStep \/ UNCHANGED vars
  BY <1>5, WorkFrame DEF vars
<1>6. CASE Start
  BY <1>6 DEF Start, HoldsControlPlane
<1>7. CASE ListStep
  BY <1>7 DEF ListStep, ListPools
<1>8. ASSUME NEW p \in Pools, ReconcilePool(p) PROVE Coherent'
  BY <1>8 DEF ReconcilePool, DeletePool, CreateOrUpdatePool
<1>9. ASSUME NEW p \in Pools, ReleasePool(p) PROVE Coherent'
  BY <1>9 DEF ReleasePool
<1>10. CASE ReleaseControlPlane
  BY <1>10 DEF ReleaseControlPlane, HoldsControlPlane
<1>11. ASSUME NEW p \in Pools, SavePool(p) PROVE Coherent'
  BY <1>11 DEF SavePool, Update
<1>12. CASE SaveControlPlane
  BY <1>12 DEF SaveControlPlane, Update, Forgets
<1>13. CASE Crash
  BY <1>13 DEF Crash, Forgets
<1> QED
  BY <1>1, <1>2, <1>3, <1>4, <1>5, <1>6, <1>7, <1>8, <1>9, <1>10, <1>11, <1>12, <1>13,
     StepGroups DEF WorldStep, CopyStep, ReturnStep

\* A copy loses its finalizer when the work it guards is done.
LEMMA ReleasedStep ==
  Typed /\ HoldsControlPlane /\ Canonical /\ DeletingHeld /\ PathInv /\ ReleasedWhenDone /\ [Next]_vars
    => ReleasedWhenDone'
<1> SUFFICES ASSUME Typed, HoldsControlPlane, Canonical, DeletingHeld, PathInv, ReleasedWhenDone,
                    [Next]_vars
             PROVE  ReleasedWhenDone'
  OBVIOUS
<1> USE PoolsAssumption
    DEF state, aws, Typed, Objects, ReleasedWhenDone, LosesFinalizer, NothingLeft, NothingInCloud
<1>1. CASE WorldStep \/ UNCHANGED vars
  <2>1. UNCHANGED <<mem, pc, state, aws>>
    BY <1>1, WorldFrame DEF vars
  <2> QED
    BY <2>1
<1>2. CASE WorkStep
  <2>1. ~LosesFinalizer(KCP) /\ ~LosesFinalizer(KCP)'
    BY <1>2, WorkFrame
  <2>2. igs' \subseteq igs
    BY <1>2 DEF WorkStep, CreateOrUpdateCluster, Apply, Observe, Destroy, KopsDelete
  <2> QED
    BY <1>2, <2>1, <2>2, WorkFrame
<1>3. CASE Start
  BY <1>3 DEF Start, HoldsControlPlane, DeletingHeld, Object, Absent, Fails, Returns
<1>4. CASE ListStep
  BY <1>4 DEF ListStep, ListPools, DeletingHeld
<1>5. ASSUME NEW p \in Pools, ReconcilePool(p) PROVE ReleasedWhenDone'
  BY <1>5 DEF ReconcilePool, DeletePool, CreateOrUpdatePool, Object
<1>6. ASSUME NEW p \in Pools, ReleasePool(p) PROVE ReleasedWhenDone'
  BY <1>6 DEF ReleasePool, PathInv, Fails, Returns
<1>7. CASE ReleaseControlPlane
  BY <1>7 DEF ReleaseControlPlane, PathInv, Fails, Returns
<1>8. ASSUME NEW p \in Pools, SavePool(p) PROVE ReleasedWhenDone'
  BY <1>8 DEF SavePool, Absent
<1>9. CASE SaveControlPlane \/ Crash
  <2>1. mem' = [o \in Objects |-> Absent]
    BY <1>9 DEF SaveControlPlane, Crash, Forgets
  <2>2. \A o \in Objects : mem'[o].phase # "deleting"
    BY <2>1 DEF Absent
  <2> QED
    BY <2>2
<1> QED
  BY <1>1, <1>2, <1>3, <1>4, <1>5, <1>6, <1>7, <1>8, <1>9, StepGroups DEF CopyStep, ReturnStep

\* Each point of the two paths stands on the one before.
LEMMA PathStep == Typed /\ PathInv /\ [Next]_vars => PathInv'
<1> SUFFICES ASSUME Typed, PathInv, [Next]_vars PROVE PathInv'
  OBVIOUS
<1> USE DEF state, aws, PathInv, NothingLeft, NothingInCloud
<1>1. CASE WorldStep \/ ReturnStep \/ UNCHANGED vars
  BY <1>1, WorldFrame, ReturnFrame DEF vars
<1>2. CASE CreateOrUpdateCluster \/ Apply \/ Observe
  BY <1>2 DEF CreateOrUpdateCluster, Apply, Observe, Fails, Returns
<1>3. CASE Destroy
  BY <1>3 DEF Destroy, Fails, Returns
<1>4. CASE KopsDelete
  BY <1>4 DEF KopsDelete, Fails, Returns
<1>5. CASE CopyStep
  BY <1>5 DEF CopyStep, Start, ListStep, ListPools, ReconcilePool, ReleasePool,
     ReleaseControlPlane, Fails, Returns
<1> QED
  BY <1>1, <1>2, <1>3, <1>4, <1>5, StepGroups DEF WorkStep

\* The kops state outlives the cloud resources.
LEMMA StateStep == Typed /\ PathInv /\ StateOutlivesCloud /\ [Next]_vars => StateOutlivesCloud'
<1> SUFFICES ASSUME Typed, PathInv, StateOutlivesCloud, [Next]_vars PROVE StateOutlivesCloud'
  OBVIOUS
<1> USE DEF Typed, state, aws, StateOutlivesCloud
<1>1. CASE WorldStep \/ CopyStep \/ ReturnStep \/ UNCHANGED vars
  BY <1>1, WorldFrame, CopyFrame, ReturnFrame DEF vars
<1>2. CASE CreateOrUpdateCluster
  BY <1>2 DEF CreateOrUpdateCluster
<1>3. CASE Apply
  BY <1>3 DEF Apply, PathInv
<1>4. CASE Observe
  BY <1>4 DEF Observe
<1>5. CASE Destroy
  BY <1>5 DEF Destroy
<1>6. CASE KopsDelete
  BY <1>6 DEF KopsDelete, PathInv, NothingInCloud
<1> QED
  BY <1>1, <1>2, <1>3, <1>4, <1>5, <1>6, StepGroups DEF WorkStep

-----------------------------------------------------------------------------
\* The inductive invariant holds of every behaviour.
THEOREM Invariance == Spec => []IInv
<1>1. Init => IInv
  <2> SUFFICES ASSUME Init PROVE IInv
    OBVIOUS
  <2>1. obj \in [Objects -> Object] /\ mem \in [Objects -> Object]
    BY ObjectFacts DEF Init
  <2>2. faults \in 0 .. MaxFaults
    BY MaxFaultsAssumption DEF Init
  <2>3. Typed
    BY <2>1, <2>2 DEF Init, Typed, PCs
  <2>4. \A o \in Objects : obj[o] \in {Absent, Created} /\ cache[o] = obj[o] /\ mem[o] = Absent
    BY DEF Init
  <2>5. /\ Absent.phase = "absent" /\ ~Absent.fin
        /\ Created.phase = "live" /\ KCP \in Objects
    BY DEF Absent, Created, Objects
  <2>6. pc = "idle" /\ todo = {} /\ ~infra /\ asgs = {}
    BY DEF Init
  <2>7. Pools \subseteq Objects
    BY DEF Objects
  <2> QED
    BY <2>3, <2>4, <2>5, <2>6, <2>7 DEF IInv, HoldsControlPlane, Canonical, Coherent, TodoHeld, DeletingHeld,
       ReleasedWhenDone, LosesFinalizer, PathInv, StateOutlivesCloud
<1>2. IInv /\ [Next]_vars => IInv'
  BY TypedStep, CanonicalStep, HoldsStep, CoherentStep, TodoStep, DeletingStep, ReleasedStep, PathStep,
     StateStep DEF IInv
<1> QED
  BY <1>1, <1>2, PTL DEF Spec

\* The variables keep to their types, and the control plane's copy to Reconcile.
THEOREM TypeCorrect == Spec => []TypeOK
<1>1. IInv => TypeOK
  BY DEF IInv, Typed, HoldsControlPlane, TypeOK
<1> QED
  BY <1>1, Invariance, PTL

\* As long as the cloud holds anything of the cluster, the kops state does too,
\* however the calls fail and the process crashes.
THEOREM StateIsLast == Spec => []StateOutlivesCloud
<1>1. IInv => StateOutlivesCloud
  BY DEF IInv
<1> QED
  BY <1>1, Invariance, PTL

\* A control plane whose finalizer is in the API server does not disappear while
\* anything is left of its cluster.
THEOREM HeldUntilDone == Spec => ControlPlaneHeld
<1>1. ASSUME IInv, [Next]_vars
      PROVE  [obj[KCP].fin /\ obj'[KCP] = Absent => NothingLeft]_vars
  <2> SUFFICES ASSUME Next, obj[KCP].fin, obj'[KCP] = Absent
               PROVE  NothingLeft
    BY <1>1
  <2>1. Typed /\ HoldsControlPlane /\ Canonical /\ ReleasedWhenDone
    BY <1>1 DEF IInv
  <2>2. ~Absent.fin /\ ~Created.fin
    BY DEF Absent, Created
  <2>3. obj'[KCP] # obj[KCP]
    BY <2>2
  <2>4. CASE SaveControlPlane
    <3>1. obj'[KCP] = IF LosesFinalizer(KCP) THEN Absent ELSE mem[KCP]
      BY <2>1, <2>3, <2>4 DEF SaveControlPlane, Update, Typed, Objects, api, LosesFinalizer
    <3>2. mem[KCP] # Absent
      BY <2>1, <2>4 DEF SaveControlPlane, HoldsControlPlane
    <3> QED
      BY <2>1, <3>1, <3>2 DEF ReleasedWhenDone
  <2>5. CASE Delete(KCP) \/ Protect \/ Unprotect
    <3>1. PICK r : obj' = [obj EXCEPT ![KCP] = r] /\ r.fin
      BY <2>1, <2>5 DEF Delete, Protect, Unprotect, Writes, Typed, Objects, Object
    <3> QED
      BY <2>1, <2>2, <3>1 DEF Typed, Objects
  <2>6. CASE ~(SaveControlPlane \/ Delete(KCP) \/ Protect \/ Unprotect)
    <3>1. CASE \E p \in Pools : CreatePool(p) \/ Delete(p) \/ SavePool(p)
      <4>1. PICK p \in Pools : CreatePool(p) \/ Delete(p) \/ SavePool(p)
        BY <3>1
      <4>2. obj' = obj \/ \E r : obj' = [obj EXCEPT ![p] = r]
        BY <4>1 DEF CreatePool, Delete, SavePool, Update, Writes, api
      <4>3. p # KCP
        BY PoolsAssumption
      <4> QED
        BY <2>1, <2>3, <4>2, <4>3 DEF Typed, Objects
    <3>2. CASE ~\E p \in Pools : CreatePool(p) \/ Delete(p) \/ SavePool(p)
      <4>1. obj' = obj
        BY <2>6, <3>2 DEF Next, Environment, Reconcile, Sync, Crash, Start, NotFound, ListPools,
           ReconcilePool, ReleasePool, CreateOrUpdateCluster, Apply, Observe, Destroy, KopsDelete,
           ReleaseControlPlane, Objects, api, vars
      <4> QED
        BY <2>3, <4>1
    <3> QED
      BY <3>1, <3>2
  <2> QED
    BY <2>4, <2>5, <2>6
<1> QED
  BY <1>1, Invariance, PTL DEF Spec, ControlPlaneHeld

\* A pool whose finalizer is in the API server does not disappear while its
\* instance group is in the kops state.
THEOREM PoolHeldUntilDone == Spec => PoolHeld
<1>1. ASSUME IInv, [Next]_vars
      PROVE  [\A p \in Pools : obj[p].fin /\ obj'[p] = Absent => p \notin igs]_vars
  <2> SUFFICES ASSUME Next, NEW p \in Pools, obj[p].fin, obj'[p] = Absent
               PROVE  p \notin igs
    BY <1>1
  <2>1. Typed /\ TodoHeld /\ ReleasedWhenDone
    BY <1>1 DEF IInv
  <2>2. ~Absent.fin /\ p \in Objects /\ p # KCP
    BY PoolsAssumption DEF Absent, Objects
  <2>3. obj'[p] # obj[p]
    BY <2>2
  <2>4. CASE SavePool(p)
    <3>1. mem[p] # Absent
      BY <2>1, <2>4 DEF SavePool, First, TodoHeld, Held
    <3>2. obj'[p] = IF LosesFinalizer(p) THEN Absent ELSE mem[p]
      BY <2>1, <2>2, <2>3, <2>4 DEF SavePool, Update, Typed, api, LosesFinalizer
    <3> QED
      BY <2>1, <3>1, <3>2 DEF ReleasedWhenDone
  <2>5. CASE CreatePool(p) \/ Delete(p)
    <3>1. PICK r : obj' = [obj EXCEPT ![p] = r] /\ (r.fin \/ r = Created)
      BY <2>1, <2>2, <2>5 DEF CreatePool, Delete, Writes, Typed, Object
    <3> QED
      BY <2>1, <2>2, <3>1 DEF Typed, Created, Absent
  <2>6. CASE ~(SavePool(p) \/ CreatePool(p) \/ Delete(p))
    <3>1. obj' = obj \/ \E o \in Objects \ {p} : \E r : obj' = [obj EXCEPT ![o] = r]
      <4>1. CASE \E o \in Objects \ {p} : \/ o \in Pools /\ (CreatePool(o) \/ SavePool(o))
                                          \/ Delete(o)
        BY <4>1 DEF CreatePool, Delete, SavePool, Update, Writes, api
      <4>2. CASE SaveControlPlane \/ Protect \/ Unprotect
        BY <2>2, <4>2 DEF SaveControlPlane, Protect, Unprotect, Update, Writes, api, Objects
      <4>3. CASE ~(\/ \E o \in Objects \ {p} : \/ o \in Pools /\ (CreatePool(o) \/ SavePool(o))
                                               \/ Delete(o)
                   \/ SaveControlPlane \/ Protect \/ Unprotect)
        BY <2>6, <4>3 DEF Next, Environment, Reconcile, Sync, Crash, Start, NotFound, ListPools,
           ReconcilePool, ReleasePool, CreateOrUpdateCluster, Apply, Observe, Destroy, KopsDelete,
           ReleaseControlPlane, Objects, api, vars
      <4> QED
        BY <4>1, <4>2, <4>3
    <3> QED
      BY <2>1, <2>2, <2>3, <3>1 DEF Typed
  <2> QED
    BY <2>4, <2>5, <2>6
<1> QED
  BY <1>1, Invariance, PTL DEF Spec, PoolHeld

\* Without a failure, the step that adds the cluster adds its key.
KeyInv == faults = 0 /\ cluster => ssh

LEMMA KeyStep == Typed /\ KeyInv /\ [Next]_vars => KeyInv'
<1> SUFFICES ASSUME Typed, KeyInv, [Next]_vars PROVE KeyInv'
  OBVIOUS
<1> USE DEF KeyInv, state
<1>1. Fault => faults' # 0
  BY DEF Fault, Typed
<1>2. faults' = 0 => faults = 0
  <2>1. Fault \/ UNCHANGED faults
    BY DEF Next, Environment, Reconcile, CreatePool, Delete, Sync, Protect, Unprotect, Crash, Start,
       NotFound, ListPools, ReconcilePool, DeletePool, CreateOrUpdatePool, ReleasePool, SavePool,
       Update, CreateOrUpdateCluster, Apply, Observe, Destroy, KopsDelete, ReleaseControlPlane,
       SaveControlPlane, Fails, vars
  <2> QED
    BY <1>1, <2>1
<1>3. CASE WorldStep \/ CopyStep \/ ReturnStep \/ UNCHANGED vars
  BY <1>2, <1>3, WorldFrame, CopyFrame, ReturnFrame DEF vars
<1>4. CASE CreateOrUpdateCluster
  BY <1>1, <1>2, <1>4 DEF CreateOrUpdateCluster, Fails, Typed
<1>5. CASE KopsDelete
  BY <1>1, <1>5 DEF KopsDelete, Fails
<1>6. CASE Apply \/ Observe \/ Destroy
  BY <1>2, <1>6 DEF Apply, Observe, Destroy
<1> QED
  BY <1>3, <1>4, <1>5, <1>6, StepGroups DEF WorkStep

\* Until the first failure, what kopscontrolplane_types.go:78 says of the key is
\* so: terraform's files are generated from a state that has it.
THEOREM KeyUnlessFault == Spec => [](faults = 0 => SSHKeyInState)
<1>1. Init => KeyInv
  BY DEF Init, KeyInv
<1>2. IInv /\ KeyInv => (faults = 0 => SSHKeyInState)
  BY DEF IInv, PathInv, KeyInv, SSHKeyInState
<1>3. IInv => Typed
  BY DEF IInv
<1> QED
  BY <1>1, <1>2, <1>3, KeyStep, Invariance, PTL DEF Spec
=============================================================================
