------------------------- MODULE ClusterLifeProofs -------------------------
(***************************************************************************)
(* ControlPlane implements ClusterLife, for any number of pools and of     *)
(* faults.                                                                 *)
(*                                                                         *)
(* Most steps do not touch what is known of the control plane (KCPFrame).  *)
(* What the others need beside ControlPlane's own invariant is LifeInv: a  *)
(* reconciliation stays on the path that its copy chose, a deletion is     *)
(* seen only where there is one, a copy that is not stale is as new as the *)
(* cache and knows of a finalizer, and who disappeared after a deletion    *)
(* left nothing.                                                           *)
(***************************************************************************)
EXTENDS ControlPlaneProofs

\* The path that Reconcile is on is the one its copy called for.
PathChosen ==
  /\ pc \in {"list", "pools", "apply"} => Believes(mem[KCP])
  /\ pc \in {"listForDeletion", "destroy", "kopsDelete", "release"} => Final(mem[KCP])
  /\ LosesFinalizer(KCP) => Final(mem[KCP])

\* A live control plane has not been seen in deletion, and one that is there is
\* in the cache.
DeletionSeen ==
  /\ obj[KCP].phase = "live" => Unseen
  /\ obj[KCP] # Absent => cache[KCP] # Absent

\* The cache is behind only where Reconcile's copy is stale.
CopyCurrent == mem[KCP] # Absent /\ KCP \in behind => KCP \in stale

\* A save that is accepted does not take a finalizer back, unless it releases.
FinalizerKnown ==
  KCP \notin stale /\ mem[KCP] # Absent /\ obj[KCP].fin
    => mem[KCP].fin \/ LosesFinalizer(KCP)

\* A control plane that disappeared after its deletion left nothing, and nobody
\* who would build.
GoneClean ==
  obj[KCP] = Absent /\ ~Unseen
    => NothingLeft /\ ~Believes(mem[KCP]) /\ ~Believes(cache[KCP])

LifeInv == PathChosen /\ DeletionSeen /\ CopyCurrent /\ FinalizerKnown /\ GoneClean

\* Steps that concern pools.
PoolStep ==
  \E p \in Pools :
    CreatePool(p) \/ Delete(p) \/ Sync(p) \/ ReconcilePool(p) \/ ReleasePool(p) \/ SavePool(p)

\* Steps that concern the control plane itself.
KCPStep ==
  \/ Delete(KCP) \/ Sync(KCP) \/ Protect \/ Unprotect \/ Crash
  \/ Start \/ ReleaseControlPlane \/ SaveControlPlane

LEMMA StepKinds ==
  ASSUME [Next]_vars
  PROVE  PoolStep \/ ListStep \/ WorkStep \/ KCPStep \/ UNCHANGED vars
<1>1. CASE Environment
  BY <1>1 DEF Environment, PoolStep, KCPStep, Objects
<1>2. CASE Reconcile
  BY <1>2 DEF Reconcile, PoolStep, ListStep, WorkStep, KCPStep, NotFound
<1> QED
  BY <1>1, <1>2 DEF Next

\* What there is to know of the control plane.
SameKCP ==
  /\ obj'[KCP] = obj[KCP]
  /\ cache'[KCP] = cache[KCP]
  /\ mem'[KCP] = mem[KCP]
  /\ KCP \in stale' <=> KCP \in stale
  /\ KCP \in behind' <=> KCP \in behind

\* Steps of the other kinds leave the control plane and its copies alone.
LEMMA KCPFrame ==
  ASSUME Typed, PoolStep \/ ListStep \/ WorkStep \/ UNCHANGED vars
  PROVE  SameKCP
<1> USE PoolsAssumption DEF Typed, Objects, SameKCP, api
<1>1. CASE PoolStep
  <2>1. PICK p \in Pools : CreatePool(p) \/ Delete(p) \/ Sync(p)
                           \/ ReconcilePool(p) \/ ReleasePool(p) \/ SavePool(p)
    BY <1>1 DEF PoolStep
  <2>2. p # KCP
    OBVIOUS
  <2>3. CASE CreatePool(p) \/ Delete(p)
    BY <2>2, <2>3 DEF CreatePool, Delete, Writes
  <2>4. CASE Sync(p)
    BY <2>2, <2>4 DEF Sync
  <2>5. CASE ReconcilePool(p)
    BY <2>2, <2>5 DEF ReconcilePool, DeletePool, CreateOrUpdatePool
  <2>6. CASE ReleasePool(p)
    BY <2>2, <2>6 DEF ReleasePool
  <2>7. CASE SavePool(p)
    BY <2>2, <2>7 DEF SavePool, Update
  <2> QED
    BY <2>1, <2>3, <2>4, <2>5, <2>6, <2>7
<1>2. CASE ListStep
  BY <1>2 DEF ListStep, ListPools
<1>3. CASE WorkStep
  BY <1>3 DEF WorkStep, CreateOrUpdateCluster, Apply, Observe, Destroy, KopsDelete
<1>4. CASE UNCHANGED vars
  BY <1>4 DEF vars
<1> QED
  BY <1>1, <1>2, <1>3, <1>4

\* Steps that leave the kops state and the cloud as they are.
LEMMA AmountFrame ==
  ASSUME KCPStep \/ ListStep \/ UNCHANGED vars
  PROVE  UNCHANGED <<state, aws>>
BY DEF KCPStep, ListStep, Delete, Sync, Protect, Unprotect, Crash, Start, ReleaseControlPlane,
       SaveControlPlane, ListPools, vars

\* Steps of the other kinds stay on the path they are on.
LEMMA PathFrame ==
  ASSUME PoolStep \/ ListStep \/ WorkStep \/ UNCHANGED vars
  PROVE  /\ pc' \in {"list", "pools", "apply"} => pc \in {"list", "pools", "apply"}
         /\ pc' \in {"listForDeletion", "destroy", "kopsDelete", "release"}
              => pc \in {"listForDeletion", "destroy", "kopsDelete", "release"}
<1>1. CASE PoolStep
  <2>1. pc' \in {pc, "save"}
    BY <1>1 DEF PoolStep, CreatePool, Delete, Sync, ReconcilePool, ReleasePool, SavePool, Fails, Returns
  <2> QED
    BY <2>1
<1>2. CASE ListStep
  BY <1>2 DEF ListStep, ListPools, Fails, Returns
<1>3. CASE WorkStep
  BY <1>3 DEF WorkStep, CreateOrUpdateCluster, Apply, Observe, Destroy, KopsDelete, Fails, Returns
<1>4. CASE UNCHANGED vars
  BY <1>4 DEF vars
<1> QED
  BY <1>1, <1>2, <1>3, <1>4

\* Off the building path nothing comes from nothing.
LEMMA NothingFromNothing ==
  ASSUME NothingLeft, pc \notin {"list", "pools", "apply"}, [Next]_vars
  PROVE  NothingLeft'
<1> USE DEF NothingLeft, NothingInCloud, state, aws
<1>1. CASE PoolStep
  BY <1>1 DEF PoolStep, CreatePool, Delete, Sync, ReconcilePool, ReleasePool, SavePool
<1>2. CASE WorkStep
  <2>1. CASE Destroy
    <3>1. infra' \in {infra, FALSE} /\ asgs' \subseteq asgs
      BY <2>1, Zenon DEF Destroy
    <3>2. ~infra'
      BY <3>1, Zenon
    <3>3. UNCHANGED state
      BY <2>1 DEF Destroy
    <3> QED
      BY <3>1, <3>2, <3>3
  <2>2. CASE KopsDelete
    <3>1. cluster' \in {cluster, FALSE} /\ ssh' \in {ssh, FALSE} /\ igs' \subseteq igs
      BY <2>2, Zenon DEF KopsDelete
    <3>2. ~cluster' /\ ~ssh'
      <4>1. ~cluster'
        BY <3>1, Zenon
      <4>2. ~ssh'
        BY <3>1, Zenon
      <4> QED
        BY <4>1, <4>2
    <3>3. UNCHANGED aws
      BY <2>2 DEF KopsDelete
    <3> QED
      BY <3>1, <3>2, <3>3
  <2>3. ~CreateOrUpdateCluster /\ ~Apply
    BY DEF CreateOrUpdateCluster, Apply
  <2>4. CASE Observe
    BY <2>4 DEF Observe
  <2> QED
    BY <1>2, <2>1, <2>2, <2>3, <2>4 DEF WorkStep
<1>3. CASE KCPStep \/ ListStep \/ UNCHANGED vars
  BY <1>3, AmountFrame
<1> QED
  BY <1>1, <1>2, <1>3, StepKinds
-----------------------------------------------------------------------------
\* The control plane's records, as far as the steps below look into them.
LEMMA RecordFacts ==
  /\ Absent.phase = "absent" /\ ~Absent.fin /\ ~Absent.protected
  /\ \A r \in Object :
       /\ LET d == [r EXCEPT !.phase = "deleting"]
          IN  d.phase = "deleting" /\ d.fin = r.fin /\ d.protected = r.protected
       /\ LET f == [r EXCEPT !.fin = TRUE]
          IN  f.phase = r.phase /\ f.fin /\ f.protected = r.protected
       /\ LET f == [r EXCEPT !.fin = FALSE]
          IN  f.phase = r.phase /\ ~f.fin /\ f.protected = r.protected
       /\ LET q == [r EXCEPT !.protected = TRUE]
          IN  q.phase = r.phase /\ q.fin = r.fin /\ q.protected
       /\ LET q == [r EXCEPT !.protected = FALSE]
          IN  q.phase = r.phase /\ q.fin = r.fin /\ ~q.protected
BY DEF Absent, Object

\* Setting the protection, or giving it up, leaves the rest of an object that
\* exists alone.
LEMMA ProtectionWritten ==
  ASSUME Typed, Canonical, Protect \/ Unprotect
  PROVE  /\ obj[KCP] # Absent
         /\ \/ obj'[KCP] = [obj[KCP] EXCEPT !.protected = TRUE]
            \/ obj'[KCP] = [obj[KCP] EXCEPT !.protected = FALSE]
<1>1. KCP \in DOMAIN obj
  BY DEF Typed, Objects
<1>2. CASE Protect
  <2>1. obj[KCP] # Absent /\ obj' = [obj EXCEPT ![KCP] = [obj[KCP] EXCEPT !.protected = TRUE]]
    BY <1>2, Zenon DEF Protect, Writes
  <2> QED
    BY ONLY <1>1, <2>1, Zenon
<1>3. CASE Unprotect
  <2>1. obj[KCP].protected /\ obj' = [obj EXCEPT ![KCP] = [obj[KCP] EXCEPT !.protected = FALSE]]
    BY <1>3, Zenon DEF Unprotect, Writes
  <2>2. obj'[KCP] = [obj[KCP] EXCEPT !.protected = FALSE]
    BY ONLY <1>1, <2>1, Zenon
  <2>3. ~Absent.protected
    BY DEF Absent
  <2>4. obj[KCP] # Absent
    BY ONLY <2>1, <2>3, Zenon
  <2> QED
    BY <2>2, <2>4
<1> QED
  BY <1>2, <1>3

\* What the writes to the API server, of users and of Reconcile, make of the
\* control plane.
LEMMA KCPWritten ==
  ASSUME Typed, Canonical, KCPStep
  PROVE  \/ obj'[KCP] = obj[KCP]
         \/ obj[KCP].phase = "live" /\ ~obj[KCP].fin /\ obj'[KCP] = Absent
         \/ /\ obj[KCP].phase = "live" /\ obj[KCP].fin
            /\ obj'[KCP].phase = "deleting" /\ obj'[KCP].fin
            /\ obj'[KCP].protected = obj[KCP].protected
         \/ /\ obj[KCP] # Absent /\ obj'[KCP] # Absent
            /\ obj'[KCP].phase = obj[KCP].phase /\ obj'[KCP].fin = obj[KCP].fin
         \/ /\ SaveControlPlane /\ KCP \notin stale /\ obj[KCP] # Absent
            /\ obj'[KCP] = IF LosesFinalizer(KCP) THEN Absent ELSE mem[KCP]
<1> USE RecordFacts DEF Typed, Objects, api
<1>0. obj[KCP] \in Object
  OBVIOUS
<1>1. CASE Delete(KCP)
  BY <1>0, <1>1 DEF Delete, Writes
<1>2. CASE Protect \/ Unprotect
  <2>1. /\ obj[KCP] # Absent
        /\ \/ obj'[KCP] = [obj[KCP] EXCEPT !.protected = TRUE]
           \/ obj'[KCP] = [obj[KCP] EXCEPT !.protected = FALSE]
    BY <1>2, ProtectionWritten
  <2>2. obj'[KCP].phase = obj[KCP].phase /\ obj'[KCP].fin = obj[KCP].fin
    BY ONLY <1>0, <2>1 DEF Object
  <2>3. obj[KCP].phase # "absent"
    BY <2>1 DEF Canonical
  <2> QED
    BY <2>1, <2>2, <2>3
<1>4. CASE SaveControlPlane
  BY <1>4 DEF SaveControlPlane, Update, LosesFinalizer
<1>5. CASE Sync(KCP) \/ Crash \/ Start \/ ReleaseControlPlane
  BY <1>5 DEF Sync, Crash, Start, ReleaseControlPlane
<1> QED
  BY <1>1, <1>2, <1>4, <1>5 DEF KCPStep

\* A KCPStep leaves the pc on its path, or starts one with a fresh copy.
LEMMA KCPCopies ==
  ASSUME Typed, HoldsControlPlane, KCPStep
  PROVE  \/ mem'[KCP] = mem[KCP] /\ pc' = pc
         \/ mem'[KCP] = Absent /\ pc' = "idle"
         \/ /\ Start
            /\ mem'[KCP] \in Object
            /\ mem'[KCP].phase = cache[KCP].phase
            /\ mem'[KCP].protected = cache[KCP].protected
            /\ cache[KCP].fin => mem'[KCP].fin
         \/ /\ ReleaseControlPlane /\ pc = "release"
            /\ pc' = "save"
            /\ mem'[KCP] \in Object
            /\ mem'[KCP].phase = mem[KCP].phase
            /\ mem'[KCP].protected = mem[KCP].protected
<1> USE RecordFacts, ObjectFacts DEF Typed, Objects
<1>1. CASE Delete(KCP) \/ Protect \/ Unprotect \/ Sync(KCP)
  BY <1>1 DEF Delete, Protect, Unprotect, Sync
<1>2. CASE Crash \/ SaveControlPlane
  BY <1>2 DEF Crash, SaveControlPlane, Forgets
<1>3. CASE Start
  <2>1. mem'[KCP] \in {cache[KCP], [cache[KCP] EXCEPT !.fin = TRUE]}
    BY <1>3 DEF Start
  <2>2. cache[KCP] \in Object
    OBVIOUS
  <2>3. /\ mem'[KCP] \in Object
        /\ mem'[KCP].phase = cache[KCP].phase
        /\ mem'[KCP].protected = cache[KCP].protected
        /\ cache[KCP].fin => mem'[KCP].fin
    <3>1. CASE mem'[KCP] = cache[KCP]
      BY <2>2, <3>1
    <3>2. CASE mem'[KCP] = [cache[KCP] EXCEPT !.fin = TRUE]
      BY ONLY <2>2, <3>2 DEF Object
    <3> QED
      BY <2>1, <3>1, <3>2
  <2> QED
    BY <1>3, <2>3
<1>4. CASE ReleaseControlPlane
  <2>1. mem'[KCP] \in {mem[KCP], [mem[KCP] EXCEPT !.fin = FALSE]}
    BY <1>4 DEF ReleaseControlPlane
  <2>2. mem[KCP] \in Object
    OBVIOUS
  <2>3. pc = "release" /\ pc' = "save"
    BY <1>4 DEF ReleaseControlPlane, Fails, Returns
  <2>4. /\ mem'[KCP] \in Object
        /\ mem'[KCP].phase = mem[KCP].phase
        /\ mem'[KCP].protected = mem[KCP].protected
    <3>1. CASE mem'[KCP] = mem[KCP]
      BY <2>2, <3>1
    <3>2. CASE mem'[KCP] = [mem[KCP] EXCEPT !.fin = FALSE]
      BY ONLY <2>2, <3>2 DEF Object
    <3> QED
      BY <2>1, <3>1, <3>2
  <2> QED
    BY <1>4, <2>3, <2>4
<1> QED
  BY <1>1, <1>2, <1>3, <1>4 DEF KCPStep

\* The cached control plane changes only to what the API server has.
LEMMA KCPCached ==
  ASSUME Typed, KCPStep
  PROVE  cache'[KCP] = cache[KCP] \/ (cache'[KCP] = obj[KCP] /\ obj' = obj)
BY DEF Typed, Objects, KCPStep, Delete, Sync, Protect, Unprotect, Crash, Start,
       ReleaseControlPlane, SaveControlPlane, Update, Writes, api

\* Who sees a final deletion after a step of this kind had seen it before, in the
\* copy or in the cache.
LEMMA SeenBefore ==
  ASSUME Typed, HoldsControlPlane, KCPStep, Final(mem'[KCP])
  PROVE  Final(mem[KCP]) \/ (Final(cache[KCP]) /\ cache' = cache)
BY KCPCopies, RecordFacts DEF Final, Start, api

\* A copy that is not stale, the cached one and the API server agree.
LEMMA CurrentCache ==
  ASSUME IInv, LifeInv, mem[KCP] # Absent, KCP \notin stale
  PROVE  cache[KCP] = obj[KCP] /\ (Final(mem[KCP]) <=> Final(obj[KCP]))
BY DEF IInv, LifeInv, Coherent, CopyCurrent, Objects, Final

\* The parts of LifeInv, step by step: the path,
LEMMA PathChosenStep ==
  ASSUME IInv, LifeInv, KCPStep
  PROVE  PathChosen'
<1> USE RecordFacts DEF IInv, LifeInv, PathChosen, LosesFinalizer, Believes, Final
<1>1. CASE mem'[KCP] = mem[KCP] /\ pc' = pc
  BY <1>1
<1>2. CASE mem'[KCP] = Absent /\ pc' = "idle"
  BY <1>2
<1>3. CASE /\ Start
           /\ mem'[KCP] \in Object
           /\ mem'[KCP].phase = cache[KCP].phase
           /\ mem'[KCP].protected = cache[KCP].protected
           /\ cache[KCP].fin => mem'[KCP].fin
  <2>1. ~LosesFinalizer(KCP)'
    BY <1>3 DEF DeletingHeld, Objects
  <2>2. cache[KCP].phase # "absent"
    BY <1>3 DEF Start, Canonical, Objects
  <2>3. mem'[KCP] # Absent
    BY <1>3, <2>2
  <2>4. \/ pc' = "listForDeletion" /\ Final(cache[KCP])
        \/ pc' = "list" /\ ~Final(cache[KCP])
        \/ pc' = "save"
    BY <1>3 DEF Start, Fails, Returns, ShouldDelete
  <2> QED
    BY <1>3, <2>1, <2>3, <2>4
<1>4. CASE /\ ReleaseControlPlane /\ pc = "release"
           /\ pc' = "save"
           /\ mem'[KCP] \in Object
           /\ mem'[KCP].phase = mem[KCP].phase
           /\ mem'[KCP].protected = mem[KCP].protected
  BY <1>4
<1> QED
  BY <1>1, <1>2, <1>3, <1>4, KCPCopies

\* what was seen of the deletion,
LEMMA DeletionSeenStep ==
  ASSUME IInv, LifeInv, KCPStep
  PROVE  DeletionSeen'
<1> USE RecordFacts DEF IInv, LifeInv, DeletionSeen, Unseen
<1>1. CASE obj'[KCP] = Absent
  BY <1>1
<1>2. CASE obj'[KCP] # Absent
  <2>1. obj[KCP] # Absent /\ (obj'[KCP].phase = "live" => obj[KCP].phase = "live")
    <3>1. CASE SaveControlPlane /\ KCP \notin stale /\ obj[KCP] # Absent
               /\ obj'[KCP] = IF LosesFinalizer(KCP) THEN Absent ELSE mem[KCP]
      <4>1. mem[KCP] # Absent
        BY <3>1 DEF SaveControlPlane, HoldsControlPlane
      <4>2. obj[KCP].phase = mem[KCP].phase
        BY <3>1, <4>1 DEF Coherent, Objects
      <4> QED
        BY <1>2, <3>1, <4>2
    <3> QED
      BY <1>2, <3>1, KCPWritten
  <2>2. cache'[KCP] # Absent
    BY <2>1, KCPCached
  <2>3. obj'[KCP].phase = "live" => ~Final(cache'[KCP])
    BY <2>1, KCPCached DEF Final
  <2>4. obj'[KCP].phase = "live" => ~Final(mem'[KCP])
    BY <2>1, SeenBefore
  <2> QED
    BY <2>2, <2>3, <2>4 DEF Final
<1> QED
  BY <1>1, <1>2

\* what the copy has to do with the cache,
LEMMA CopyCurrentStep ==
  ASSUME IInv, LifeInv, KCPStep
  PROVE  CopyCurrent'
<1> USE DEF IInv, LifeInv, CopyCurrent, Typed, Objects
<1>1. CASE Delete(KCP) \/ Protect \/ Unprotect
  BY <1>1 DEF Delete, Protect, Unprotect, Writes
<1>2. CASE Sync(KCP)
  BY <1>2 DEF Sync
<1>3. CASE Crash \/ SaveControlPlane
  BY <1>3 DEF Crash, SaveControlPlane, Forgets
<1>4. CASE Start
  BY <1>4 DEF Start, api
<1>5. CASE ReleaseControlPlane
  <2>1. mem[KCP] # Absent /\ UNCHANGED <<behind, stale>>
    BY <1>5 DEF ReleaseControlPlane, HoldsControlPlane, api
  <2> QED
    BY <2>1
<1> QED
  BY <1>1, <1>2, <1>3, <1>4, <1>5 DEF KCPStep

\* what is known of a finalizer,
LEMMA FinalizerKnownStep ==
  ASSUME IInv, LifeInv, KCPStep
  PROVE  FinalizerKnown'
<1> USE DEF IInv, Typed, Objects, FinalizerKnown, LifeInv
<1>1. CASE Delete(KCP) \/ Protect \/ Unprotect
  <2>1. mem' = mem /\ (mem[KCP] # Absent => KCP \in stale')
    BY <1>1 DEF Delete, Protect, Unprotect, Writes
  <2> QED
    BY <2>1
<1>2. CASE Sync(KCP)
  BY <1>2 DEF Sync, LosesFinalizer
<1>3. CASE Crash \/ SaveControlPlane
  BY <1>3 DEF Crash, SaveControlPlane, Forgets
<1>4. CASE Start
  <2>1. KCP \notin stale' => cache[KCP] = obj[KCP]
    BY <1>4 DEF Start, Coherent
  <2>2. obj' = obj
    BY <1>4 DEF Start, api
  <2>3. cache[KCP].fin => mem'[KCP].fin
    <3>1. mem'[KCP] \in {cache[KCP], [cache[KCP] EXCEPT !.fin = TRUE]} /\ cache[KCP] \in Object
      BY <1>4 DEF Start
    <3> QED
      BY ONLY <3>1 DEF Object
  <2> QED
    BY <2>1, <2>2, <2>3
<1>5. CASE ReleaseControlPlane
  <2>1. obj' = obj /\ stale' = stale
    BY <1>5 DEF ReleaseControlPlane, api
  <2>2. mem'[KCP] = mem[KCP] \/ mem'[KCP] = [mem[KCP] EXCEPT !.fin = FALSE]
    BY <1>5 DEF ReleaseControlPlane
  <2>3. mem[KCP].phase = "deleting"
    BY <1>5 DEF ReleaseControlPlane, PathChosen, Final
  <2>4. CASE mem'[KCP] = mem[KCP]
    BY <2>1, <2>4 DEF LosesFinalizer
  <2>5. CASE mem'[KCP] = [mem[KCP] EXCEPT !.fin = FALSE]
    <3>1. mem[KCP] \in Object
      OBVIOUS
    <3>2. mem'[KCP].phase = "deleting" /\ ~mem'[KCP].fin
      BY ONLY <2>3, <2>5, <3>1 DEF Object
    <3> QED
      BY <3>2 DEF LosesFinalizer
  <2> QED
    BY <2>2, <2>4, <2>5
<1> QED
  BY <1>1, <1>2, <1>3, <1>4, <1>5 DEF KCPStep

\* and what is left of who disappeared.
LEMMA GoneCleanStep ==
  ASSUME IInv, LifeInv, KCPStep
  PROVE  GoneClean'
<1> SUFFICES ASSUME obj'[KCP] = Absent,
                    Final(cache'[KCP]) \/ Final(mem'[KCP])
             PROVE  NothingLeft' /\ ~Believes(mem'[KCP]) /\ ~Believes(cache'[KCP])
  BY DEF GoneClean, Believes, Final, Unseen
<1>1. UNCHANGED <<state, aws>>
  BY AmountFrame
<1>2. NothingLeft => NothingLeft'
  BY <1>1 DEF NothingLeft, NothingInCloud, state, aws
<1>3. ~Believes(Absent) /\ ~Final(Absent)
  BY RecordFacts DEF Believes, Final
<1>4. CASE obj[KCP] = Absent
  <2>1. ~Unseen
    BY <1>3, <1>4, SeenBefore, KCPCached DEF IInv, Unseen
  <2>2. NothingLeft /\ ~Believes(mem[KCP]) /\ ~Believes(cache[KCP])
    BY <1>4, <2>1 DEF LifeInv, GoneClean
  <2>3. ~Believes(cache'[KCP])
    BY <1>3, <1>4, <2>2, KCPCached DEF IInv
  <2>4. ~Believes(mem'[KCP])
    <3>1. CASE mem'[KCP] = mem[KCP]
      BY <2>2, <3>1
    <3>2. CASE mem'[KCP] = Absent
      BY <1>3, <3>2
    <3>3. CASE Start /\ mem'[KCP].phase = cache[KCP].phase
               /\ mem'[KCP].protected = cache[KCP].protected
      BY <2>2, <3>3 DEF Believes, Final, Start
    <3>4. CASE mem'[KCP].phase = mem[KCP].phase /\ mem'[KCP].protected = mem[KCP].protected
               /\ ReleaseControlPlane /\ pc = "release"
      BY <3>4 DEF Believes, Final, LifeInv, PathChosen
    <3> QED
      BY <3>1, <3>2, <3>3, <3>4, KCPCopies DEF IInv
  <2> QED
    BY <1>2, <2>2, <2>3, <2>4
<1>5. CASE obj[KCP] # Absent
  <2>1. CASE obj[KCP].phase = "live" /\ ~obj[KCP].fin
    <3>1. ~Final(cache[KCP]) /\ ~Final(mem[KCP])
      BY <2>1 DEF LifeInv, DeletionSeen, Unseen
    <3>2. ~Final(mem'[KCP])
      BY <3>1, SeenBefore DEF IInv
    <3>3. cache'[KCP] = cache[KCP]
      BY <1>5, KCPCached DEF IInv
    <3> QED
      BY <3>1, <3>2, <3>3
  <2>2. CASE SaveControlPlane /\ KCP \notin stale
             /\ obj'[KCP] = IF LosesFinalizer(KCP) THEN Absent ELSE mem[KCP]
    <3>1. mem[KCP] # Absent /\ mem'[KCP] = Absent /\ cache' = cache
      BY <2>2 DEF SaveControlPlane, Forgets, IInv, HoldsControlPlane, Objects, Update, api
    <3>2. NothingLeft /\ Final(mem[KCP])
      BY <2>2, <3>1 DEF IInv, ReleasedWhenDone, LifeInv, PathChosen
    <3>3. Final(cache[KCP])
      BY <2>2, <3>1, <3>2, CurrentCache
    <3> QED
      BY <1>2, <1>3, <3>1, <3>2, <3>3 DEF Believes
  <2>3. obj[KCP].phase # "absent" /\ obj'[KCP].phase = "absent"
    BY <1>5, RecordFacts DEF IInv, Canonical, Objects
  <2>4. \/ obj[KCP].phase = "live" /\ ~obj[KCP].fin
        \/ /\ SaveControlPlane /\ KCP \notin stale
           /\ obj'[KCP] = IF LosesFinalizer(KCP) THEN Absent ELSE mem[KCP]
    BY <2>3, KCPWritten DEF IInv
  <2> QED
    BY <2>1, <2>2, <2>4
<1> QED
  BY <1>4, <1>5

\* A step of another kind than KCPStep leaves all five as they are.
LEMMA LifeFrame ==
  ASSUME IInv, LifeInv, [Next]_vars, PoolStep \/ ListStep \/ WorkStep \/ UNCHANGED vars
  PROVE  LifeInv'
<1>1. SameKCP
  BY KCPFrame DEF IInv
<1>2. PathChosen'
  BY <1>1, PathFrame DEF LifeInv, PathChosen, SameKCP, Believes, Final, LosesFinalizer
<1>3. DeletionSeen' /\ CopyCurrent' /\ FinalizerKnown'
  BY <1>1 DEF LifeInv, DeletionSeen, CopyCurrent, FinalizerKnown, SameKCP, Unseen, Final,
              LosesFinalizer
<1>4. GoneClean'
  <2> SUFFICES ASSUME obj[KCP] = Absent, ~Unseen
               PROVE  NothingLeft' /\ ~Believes(mem[KCP]) /\ ~Believes(cache[KCP])
    BY <1>1 DEF GoneClean, SameKCP, Unseen, Believes, Final
  <2>1. NothingLeft /\ ~Believes(mem[KCP]) /\ ~Believes(cache[KCP])
    BY DEF LifeInv, GoneClean
  <2>2. pc \notin {"list", "pools", "apply"}
    BY <2>1 DEF LifeInv, PathChosen
  <2> QED
    BY <2>1, <2>2, NothingFromNothing
<1> QED
  BY <1>2, <1>3, <1>4 DEF LifeInv

\* LifeInv holds of every behaviour, beside IInv.
THEOREM LifeInvariance == Spec => [](IInv /\ LifeInv)
<1>1. Init => LifeInv
  <2> SUFFICES ASSUME Init PROVE LifeInv
    OBVIOUS
  <2>1. mem[KCP] = Absent /\ pc = "idle" /\ cache[KCP] = obj[KCP] /\ obj[KCP] = Created
    BY DEF Init, Objects
  <2>2. ~Final(Absent) /\ ~Final(Created) /\ Created # Absent
        /\ Absent.phase = "absent"
    BY DEF Absent, Created, Final
  <2> QED
    BY <2>1, <2>2 DEF LifeInv, PathChosen, DeletionSeen, CopyCurrent, FinalizerKnown, GoneClean,
       LosesFinalizer, Unseen
<1>2. IInv /\ LifeInv /\ [Next]_vars => LifeInv'
  BY StepKinds, LifeFrame, PathChosenStep, DeletionSeenStep, CopyCurrentStep, FinalizerKnownStep,
     GoneCleanStep
     DEF LifeInv
<1> QED
  BY <1>1, <1>2, Invariance, PTL DEF Spec
-----------------------------------------------------------------------------
\* The stages, one by one,
StageTable ==
  /\ obj[KCP] = Absent /\ Lingers => Stage = "forsaken"
  /\ obj[KCP] = Absent /\ ~Lingers => Stage = "gone"
  /\ obj[KCP] # Absent /\ Final(cache[KCP]) => Stage = "doomed"
  /\ obj[KCP] # Absent /\ ~Final(cache[KCP]) /\ Final(obj[KCP]) => Stage = "ending"
  /\ obj[KCP] # Absent /\ ~Final(cache[KCP]) /\ ~Final(obj[KCP]) /\ obj[KCP].fin
       => Stage = "held"
  /\ obj[KCP] # Absent /\ ~Final(cache[KCP]) /\ ~Final(obj[KCP]) /\ ~obj[KCP].fin
       => Stage = "new"

\* in this state and in the next.
LEMMA StageFacts == StageTable /\ StageTable'
<1>1. StageTable
  <2>1. ~Final(Absent)
    BY RecordFacts DEF Final
  <2> QED
    BY <2>1 DEF Stage, StageTable
<1> QED
  BY <1>1, PTL

\* What the reconciliation under way does, in this state and in the next.
WorkTable ==
  /\ mem[KCP] = Absent => Work = "none"
  /\ Final(mem[KCP]) => Work = "clear"
  /\ Believes(mem[KCP]) => Work = "build"

LEMMA WorkFacts == WorkTable /\ WorkTable'
<1>1. WorkTable
  <2>1. ~Final(Absent)
    BY RecordFacts DEF Final
  <2> QED
    BY <2>1 DEF Work, WorkTable, Believes
<1> QED
  BY <1>1, PTL

\* An amount is one, and says whether the whole is there and whether anything is.
LEMMA AmountFacts ==
  ASSUME NEW w \in BOOLEAN, NEW q \in BOOLEAN
  PROVE  /\ Amount(w, q) \in Life!Amounts
         /\ Amount(w, q) = "whole" <=> w
         /\ Amount(w, q) = "none" <=> ~w /\ ~q
BY DEF Amount, Life!Amounts

\* Nothing is left in the one specification when nothing is in the other.
LEMMA NothingFacts == Typed => (Life!NothingLeft <=> NothingLeft)
BY AmountFacts DEF Typed, KopsAmount, CloudAmount, Life!NothingLeft, NothingLeft, NothingInCloud

\* The amounts follow the state and the cloud.
LEMMA AmountsKept ==
  /\ UNCHANGED state => UNCHANGED KopsAmount
  /\ UNCHANGED aws => UNCHANGED CloudAmount
  /\ UNCHANGED <<state, aws>> => (NothingLeft <=> NothingLeft')
BY DEF state, aws, KopsAmount, CloudAmount, Amount, NothingLeft, NothingInCloud

\* Steps of the other kinds leave stage and work alone, but for what lingers.
LEMMA StageFrame ==
  ASSUME SameKCP, obj[KCP] # Absent \/ Believes(mem[KCP]) \/ (NothingLeft <=> NothingLeft')
  PROVE  UNCHANGED <<Stage, Work>>
<1>1. UNCHANGED Work
  BY DEF Work, SameKCP, Final
<1>2. CASE obj[KCP] # Absent
  BY <1>1, <1>2 DEF Stage, SameKCP, Final
<1>3. CASE obj[KCP] = Absent
  <2>1. Lingers' <=> Lingers
    BY <1>3 DEF Lingers, SameKCP, Believes, Final
  <2> QED
    BY <1>1, <1>3, <2>1, RecordFacts DEF Stage, SameKCP, Final
<1> QED
  BY <1>2, <1>3

\* On the building path Reconcile builds, and the cluster is not gone.
LEMMA BuildingStage ==
  ASSUME IInv, LifeInv, pc \in {"list", "pools", "apply"}
  PROVE  Believes(mem[KCP]) /\ Work = "build" /\ Stage # "gone"
<1>1. Believes(mem[KCP])
  BY DEF LifeInv, PathChosen
<1>2. Lingers
  BY <1>1 DEF Lingers
<1>3. obj[KCP] = Absent => Stage = "forsaken"
  BY <1>2, StageFacts DEF StageTable
<1>4. obj[KCP] # Absent => Stage \in {"doomed", "ending", "held", "new"}
  BY StageFacts DEF StageTable
<1> QED
  BY <1>1, <1>3, <1>4, WorkFacts DEF WorkTable

\* Steps on the building path build.
LEMMA BuildStep ==
  ASSUME IInv, LifeInv, [Next]_vars, PoolStep \/ CreateOrUpdateCluster \/ Apply
  PROVE  Life!Build \/ UNCHANGED <<Stage, Work, KopsAmount, CloudAmount>>
<1> USE DEF IInv
<1>1. Typed' /\ SameKCP
  BY TypedStep, KCPFrame DEF WorkStep
<1>2. /\ KopsAmount' \in Life!Amounts /\ CloudAmount' \in Life!Amounts
      /\ KopsAmount' = "whole" <=> cluster'
      /\ CloudAmount' = "whole" <=> infra'
  BY <1>1, AmountFacts DEF Typed, KopsAmount, CloudAmount
<1>3. /\ KopsAmount = "whole" <=> cluster
      /\ CloudAmount = "whole" <=> infra
  BY AmountFacts DEF Typed, KopsAmount, CloudAmount
<1>4. ASSUME pc \in {"list", "pools", "apply"}, UNCHANGED aws, cluster => cluster'
      PROVE  Life!Build
  <2>1. Work = "build" /\ Stage # "gone" /\ UNCHANGED <<Stage, Work>>
    BY <1>1, <1>4, BuildingStage, StageFrame
  <2>2. UNCHANGED CloudAmount
    BY <1>4, AmountsKept
  <2>3. Life!Builds(KopsAmount, KopsAmount')
    BY <1>2, <1>3, <1>4 DEF Life!Builds
  <2> QED
    BY <2>1, <2>2, <2>3 DEF Life!Build
<1>5. CASE CreateOrUpdateCluster
  <2>1. pc = "pools" /\ UNCHANGED aws
    BY <1>5 DEF CreateOrUpdateCluster
  <2>2. cluster' = TRUE \/ cluster' \in {cluster, TRUE}
    BY <1>5 DEF CreateOrUpdateCluster
  <2>3. cluster => cluster'
    BY <2>2, Zenon
  <2> QED
    BY <1>4, <2>1, <2>3
<1>6. CASE Apply
  <2>1. pc = "apply" /\ UNCHANGED state
    BY <1>6 DEF Apply
  <2>2. infra' = TRUE \/ infra' \in {infra, TRUE}
    BY <1>6 DEF Apply
  <2>3. infra => infra'
    BY <2>2, Zenon
  <2>4. cluster
    BY <2>1 DEF PathInv
  <2>5. Work = "build" /\ Stage # "gone" /\ UNCHANGED <<Stage, Work>>
    BY <1>1, <2>1, BuildingStage, StageFrame
  <2>6. UNCHANGED KopsAmount
    BY <2>1, AmountsKept
  <2>7. Life!Builds(CloudAmount, CloudAmount')
    BY <1>2, <1>3, <2>3 DEF Life!Builds
  <2> QED
    BY <1>3, <2>4, <2>5, <2>6, <2>7 DEF Life!Build
<1>7. CASE PoolStep
  <2>1. CASE \E p \in Pools : ReconcilePool(p)
    <3>1. pc = "pools" /\ UNCHANGED <<cluster, aws>>
      BY <2>1 DEF ReconcilePool
    <3> QED
      BY <1>4, <3>1
  <2>2. CASE ~\E p \in Pools : ReconcilePool(p)
    <3>1. UNCHANGED <<state, aws>>
      BY <1>7, <2>2 DEF PoolStep, CreatePool, Delete, Sync, ReleasePool, SavePool
    <3> QED
      BY <1>1, <3>1, AmountsKept, StageFrame
  <2> QED
    BY <2>1, <2>2
<1> QED
  BY <1>5, <1>6, <1>7

\* Steps that destroy take down.
LEMMA TakeDownStep ==
  ASSUME IInv, LifeInv, [Next]_vars, Destroy \/ KopsDelete
  PROVE  Life!TakeDown
<1> USE DEF IInv
<1>1. Typed' /\ SameKCP
  BY TypedStep, KCPFrame DEF WorkStep
<1>2. pc \in {"destroy", "kopsDelete"}
  BY DEF Destroy, KopsDelete
<1>3. /\ KopsAmount' \in Life!Amounts /\ CloudAmount' \in Life!Amounts
      /\ KopsAmount' = "whole" <=> cluster'
      /\ CloudAmount' = "whole" <=> infra'
      /\ KopsAmount' = "none" <=> ~cluster' /\ ~ssh' /\ igs' = {}
      /\ CloudAmount' = "none" <=> ~infra' /\ asgs' = {}
  BY <1>1, AmountFacts DEF Typed, KopsAmount, CloudAmount
<1>4. /\ KopsAmount = "whole" <=> cluster
      /\ CloudAmount = "whole" <=> infra
      /\ KopsAmount = "none" <=> ~cluster /\ ~ssh /\ igs = {}
      /\ CloudAmount = "none" <=> ~infra /\ asgs = {}
  BY AmountFacts DEF Typed, KopsAmount, CloudAmount
<1>5. Final(mem[KCP])
  BY <1>2 DEF LifeInv, PathChosen
<1>6. Work = "clear"
  BY <1>5, WorkFacts DEF WorkTable
<1>7. UNCHANGED <<Stage, Work>>
  <2>1. obj[KCP] = Absent => NothingLeft
    BY <1>5 DEF LifeInv, GoneClean, Unseen
  <2>2. NothingLeft => NothingLeft'
    BY <1>2, NothingFromNothing
  <2> QED
    BY <1>1, <2>1, <2>2, StageFrame
<1>8. CASE Destroy
  <2>1. infra' = FALSE \/ infra' \in {infra, FALSE}
    BY <1>8 DEF Destroy
  <2>2. infra' => infra
    BY <2>1, Zenon
  <2>3. asgs' \subseteq asgs /\ UNCHANGED state
    BY <1>8, Zenon DEF Destroy
  <2>4. Life!TakesDown(CloudAmount, CloudAmount')
    BY <1>3, <1>4, <2>2, <2>3 DEF Life!TakesDown
  <2> QED
    BY <1>6, <1>7, <2>3, <2>4, AmountsKept DEF Life!TakeDown
<1>9. CASE KopsDelete
  <2>1. cluster' \in {cluster, FALSE} /\ ssh' \in {ssh, FALSE} /\ igs' \subseteq igs
    BY <1>9, Zenon DEF KopsDelete
  <2>2. (cluster' => cluster) /\ (ssh' => ssh)
    <3>1. cluster' => cluster
      BY <2>1, Zenon
    <3>2. ssh' => ssh
      BY <2>1, Zenon
    <3> QED
      BY <3>1, <3>2
  <2>3. UNCHANGED aws /\ pc = "kopsDelete"
    BY <1>9 DEF KopsDelete
  <2>4. CloudAmount = "none"
    BY <1>4, <2>3 DEF PathInv, NothingInCloud
  <2>5. Life!TakesDown(KopsAmount, KopsAmount')
    BY <1>3, <1>4, <2>1, <2>2 DEF Life!TakesDown
  <2> QED
    BY <1>6, <1>7, <2>3, <2>4, <2>5, AmountsKept DEF Life!TakeDown
<1> QED
  BY <1>8, <1>9

-----------------------------------------------------------------------------
\* Steps that concern the control plane itself.  They leave kops state and cloud
\* as they are, and change the stage, the work or both.
Turned(from, to) == Stage \in from /\ Stage' = to
Idled == Work' = "none"

LEMMA KCPStepFacts ==
  ASSUME IInv, LifeInv, KCPStep
  PROVE  /\ UNCHANGED <<KopsAmount, CloudAmount>>
         /\ NothingLeft <=> NothingLeft'
         /\ Life!NothingLeft <=> NothingLeft
BY AmountFrame, AmountsKept, NothingFacts DEF IInv

\* Reconcile begins to build or to take down, as the cache says.
LEMMA StartStep ==
  ASSUME IInv, LifeInv, Start
  PROVE  \/ Life!Begin("build", {"new", "held", "ending", "forsaken"})
         \/ Life!Begin("clear", {"doomed", "gone"})
<1> USE DEF IInv
<1>1. UNCHANGED <<KopsAmount, CloudAmount>> /\ (NothingLeft <=> NothingLeft')
  BY KCPStepFacts DEF KCPStep
<1>2. obj' = obj /\ cache' = cache /\ mem[KCP] = Absent /\ cache[KCP] # Absent
  BY DEF Start, HoldsControlPlane, api
<1>3. mem'[KCP].phase = cache[KCP].phase /\ mem'[KCP].protected = cache[KCP].protected
  <2>1. Absent.phase = "absent" /\ cache[KCP].phase # "absent"
    BY <1>2, RecordFacts DEF Canonical, Objects
  <2> QED
    BY <1>2, <2>1, KCPCopies DEF KCPStep, Start, ReleaseControlPlane, HoldsControlPlane, PCs,
       Fails, Returns
<1>4. mem'[KCP] # Absent
  BY <1>2, <1>3, RecordFacts DEF Canonical, Objects
<1>5. Final(mem'[KCP]) <=> Final(cache[KCP])
  BY <1>3 DEF Final
<1>6. Work = "none" /\ Work' = IF Final(cache[KCP]) THEN "clear" ELSE "build"
  BY <1>2, <1>4, <1>5, WorkFacts DEF WorkTable, Believes
<1>7. CASE Final(cache[KCP])
  <2>1. obj[KCP] = Absent => ~Lingers /\ ~Lingers'
    BY <1>1, <1>2, <1>4, <1>5, <1>7 DEF LifeInv, GoneClean, Unseen, Lingers, Believes
  <2>2. Stage \in {"doomed", "gone"} /\ Stage' = Stage
    BY <1>2, <1>7, <2>1, StageFacts DEF StageTable
  <2> QED
    BY <1>1, <1>6, <1>7, <2>2 DEF Life!Begin
<1>8. CASE ~Final(cache[KCP])
  <2>1. Lingers /\ Lingers'
    BY <1>2, <1>8 DEF Lingers, Believes
  <2>2. Stage \in {"new", "held", "ending", "forsaken"} /\ Stage' = Stage
    BY <1>2, <1>8, <2>1, StageFacts DEF StageTable
  <2> QED
    BY <1>1, <1>6, <1>8, <2>2 DEF Life!Begin
<1> QED
  BY <1>7, <1>8

\* What users and Cluster API do turns the stage and leaves the work.
LEMMA UserStep ==
  ASSUME IInv, LifeInv, Delete(KCP) \/ Protect \/ Unprotect
  PROVE  \/ Life!End \/ Life!Spare \/ Life!Vanish
         \/ UNCHANGED <<Stage, Work, KopsAmount, CloudAmount>>
<1> USE DEF IInv
<1>1. UNCHANGED <<KopsAmount, CloudAmount>> /\ (NothingLeft <=> NothingLeft')
  BY KCPStepFacts DEF KCPStep
<1>2. cache' = cache /\ mem' = mem
  BY DEF Delete, Protect, Unprotect, Writes
<1>3. UNCHANGED Work
  BY <1>2 DEF Work, Final
<1>4. SUFFICES \/ Turned({"held"}, "ending")
               \/ Turned({"ending"}, "held")
               \/ Turned({"new"}, "forsaken")
               \/ UNCHANGED Stage
  BY <1>1, <1>3 DEF Turned, Life!End, Life!Spare, Life!Vanish, Life!Turn
<1> USE RecordFacts
<1>5. obj[KCP] # Absent /\ obj[KCP] \in Object /\ obj[KCP].phase # "absent"
  BY DEF Delete, Protect, Unprotect, Typed, Objects, Canonical
<1>6. CASE Final(cache[KCP])
  <2>1. obj'[KCP] # Absent
    <3>1. ~Delete(KCP)
      BY <1>6 DEF LifeInv, DeletionSeen, Unseen, Delete
    <3>2. \/ obj'[KCP] = [obj[KCP] EXCEPT !.protected = TRUE]
          \/ obj'[KCP] = [obj[KCP] EXCEPT !.protected = FALSE]
      BY <3>1, ProtectionWritten
    <3>3. obj'[KCP].phase = obj[KCP].phase
      BY ONLY <1>5, <3>2 DEF Object
    <3> QED
      BY ONLY <1>5, <3>3, RecordFacts
  <2> QED
    BY <1>2, <1>5, <1>6, <2>1, StageFacts DEF StageTable
<1>7. CASE ~Final(cache[KCP])
  <2>1. CASE obj[KCP].phase = "live" /\ ~obj[KCP].fin /\ obj'[KCP] = Absent
    <3>1. Lingers'
      BY <1>2, <1>5, <1>7 DEF Lingers, Believes, LifeInv, DeletionSeen, Final
    <3>2. Stage = "new"
      BY <1>5, <1>7, <2>1, StageFacts DEF StageTable, Final
    <3> QED
      BY <2>1, <3>1, <3>2, StageFacts DEF StageTable, Turned
  <2>2. CASE obj'[KCP] # Absent /\ obj'[KCP].fin = obj[KCP].fin
             /\ (obj[KCP].fin \/ (obj[KCP].phase = "live" /\ obj'[KCP].phase = "live"))
    BY <1>2, <1>5, <1>7, <2>2, StageFacts DEF StageTable, Turned, Final
  <2>3. \/ obj[KCP].phase = "live" /\ ~obj[KCP].fin /\ obj'[KCP] = Absent
        \/ obj'[KCP] # Absent /\ obj'[KCP].fin = obj[KCP].fin
           /\ (obj[KCP].fin \/ (obj[KCP].phase = "live" /\ obj'[KCP].phase = "live"))
    <3>1. obj[KCP].phase = "live" \/ obj[KCP].fin
      BY <1>5 DEF DeletingHeld, Objects, Object
    <3>2. CASE Delete(KCP)
      BY <1>5, <3>2 DEF Delete, Writes, Typed, Objects
    <3>3. CASE Protect \/ Unprotect
      <4>1. \/ obj'[KCP] = [obj[KCP] EXCEPT !.protected = TRUE]
            \/ obj'[KCP] = [obj[KCP] EXCEPT !.protected = FALSE]
        BY <3>3, ProtectionWritten
      <4>2. obj'[KCP].phase = obj[KCP].phase /\ obj'[KCP].fin = obj[KCP].fin
        BY ONLY <1>5, <4>1 DEF Object
      <4> QED
        BY <1>5, <3>1, <4>2
    <3> QED
      BY <3>2, <3>3
  <2> QED
    BY <2>1, <2>2, <2>3
<1> QED
  BY <1>6, <1>7

\* The cache catches up, with the watch or with a new process.
LEMMA CatchUpStep ==
  ASSUME IInv, LifeInv, Sync(KCP) \/ Crash
  PROVE  \/ Life!Doom \/ Life!Spare \/ Life!Leave \/ Life!Finish
         \/ UNCHANGED <<Stage, Work, KopsAmount, CloudAmount>>
<1> USE DEF IInv
<1> USE RecordFacts
<1>1. /\ UNCHANGED <<KopsAmount, CloudAmount>> /\ (NothingLeft <=> NothingLeft')
      /\ Life!NothingLeft <=> NothingLeft
  BY KCPStepFacts DEF KCPStep
<1>2. obj' = obj /\ cache'[KCP] = obj[KCP] /\ mem'[KCP] \in {mem[KCP], Absent}
  BY DEF Sync, Crash, Forgets, Typed, Objects
<1>3. Work' \in {Work, "none"}
  BY <1>2, WorkFacts DEF WorkTable, Work, Final
<1>4. SUFFICES \/ Turned({"ending"}, "doomed")
               \/ Turned({"doomed"}, "held")
               \/ NothingLeft /\ Idled /\ Turned({"forsaken"}, "gone")
               \/ UNCHANGED Stage
  BY <1>1, <1>3 DEF Turned, Idled, Life!Doom, Life!Spare, Life!Leave, Life!Finish, Life!Turn
<1>5. CASE obj[KCP] = Absent
  <2>1. CASE Lingers /\ ~Lingers'
    <3>1. NothingLeft
      BY <1>1, <2>1 DEF Lingers
    <3>2. Unseen
      BY <1>5, <2>1, <3>1 DEF LifeInv, GoneClean, Lingers
    <3>3. mem'[KCP] = Absent
      BY <1>2, <2>1, <3>2 DEF Lingers, Believes, Unseen, Final
    <3> QED
      BY <1>2, <1>5, <2>1, <3>1, <3>3, StageFacts, WorkFacts DEF StageTable, WorkTable, Turned, Idled
  <2>2. CASE ~Lingers /\ Lingers'
    BY <1>1, <1>2, <1>5, <2>2 DEF Lingers, Believes
  <2>3. CASE Lingers <=> Lingers'
    BY <1>2, <1>5, <2>3, StageFacts DEF StageTable
  <2> QED
    BY <2>1, <2>2, <2>3
<1>6. CASE obj[KCP] # Absent /\ Final(cache[KCP])
  <2>1. obj[KCP].fin
    <3>1. obj[KCP].phase \notin {"absent", "live"}
      BY <1>6 DEF LifeInv, DeletionSeen, Unseen, Canonical, Objects
    <3> QED
      BY <3>1 DEF DeletingHeld, Typed, Objects, Object
  <2> QED
    BY <1>2, <1>6, <2>1, StageFacts DEF StageTable, Turned, Final
<1>7. CASE obj[KCP] # Absent /\ ~Final(cache[KCP])
  BY <1>2, <1>7, StageFacts DEF StageTable, Turned, Final
<1> QED
  BY <1>5, <1>6, <1>7

\* Reconcile's save of the control plane holds it, releases it, or says nothing new.
LEMMA SaveStep ==
  ASSUME IInv, LifeInv, SaveControlPlane
  PROVE  Life!Hold \/ Life!Leave \/ Life!Release \/ Life!Finish
<1> USE DEF IInv
<1> USE RecordFacts
<1>1. /\ UNCHANGED <<KopsAmount, CloudAmount>> /\ (NothingLeft <=> NothingLeft')
      /\ Life!NothingLeft <=> NothingLeft
  BY KCPStepFacts DEF KCPStep
<1>2. mem[KCP] # Absent /\ mem'[KCP] = Absent /\ cache' = cache
  BY DEF SaveControlPlane, Forgets, HoldsControlPlane, Objects, Update, api
<1>3. Idled
  BY <1>2, WorkFacts DEF WorkTable, Idled
<1>4. ~Believes(Absent) /\ ~Final(Absent)
  BY DEF Believes, Final
<1>5. SUFFICES \/ Turned({"new"}, "held")
               \/ NothingLeft /\ Turned({"forsaken"}, "gone")
               \/ NothingLeft /\ Work = "clear" /\ Turned({"doomed"}, "gone")
               \/ UNCHANGED Stage
  BY <1>1, <1>3 DEF Turned, Idled, Life!Hold, Life!Leave, Life!Release, Life!Finish, Life!Turn
<1>6. CASE KCP \notin stale /\ obj[KCP] # Absent
           /\ obj'[KCP] = IF LosesFinalizer(KCP) THEN Absent ELSE mem[KCP]
  <2>1. cache[KCP] = obj[KCP] /\ (Final(mem[KCP]) <=> Final(obj[KCP]))
    BY <1>2, <1>6, CurrentCache
  <2>2. CASE LosesFinalizer(KCP)
    <3>1. Final(mem[KCP]) /\ NothingLeft
      BY <2>2 DEF LifeInv, PathChosen, ReleasedWhenDone
    <3>2. ~Lingers'
      BY <1>1, <1>2, <1>4, <2>1, <3>1 DEF Lingers, Believes
    <3> QED
      BY <1>2, <1>6, <2>1, <2>2, <3>1, <3>2, StageFacts, WorkFacts DEF StageTable, WorkTable, Turned
  <2>3. CASE ~LosesFinalizer(KCP)
    <3>1. obj'[KCP] = mem[KCP] /\ (obj[KCP].fin => obj'[KCP].fin)
      BY <1>2, <1>6, <2>3 DEF LifeInv, FinalizerKnown
    <3> QED
      BY <1>2, <1>6, <2>1, <3>1, StageFacts DEF StageTable, Turned, Final
  <2> QED
    BY <2>2, <2>3
<1>7. CASE obj'[KCP] = obj[KCP]
  <2>1. CASE obj[KCP] = Absent
    <3>1. Lingers' => Lingers
      BY <1>1, <1>2, <1>4 DEF Lingers
    <3>2. ~Lingers' => NothingLeft
      BY <1>1 DEF Lingers
    <3> QED
      BY <1>7, <2>1, <3>1, <3>2, StageFacts DEF StageTable, Turned
  <2>2. CASE obj[KCP] # Absent
    BY <1>2, <1>7, <2>2, StageFacts DEF StageTable, Final
  <2> QED
    BY <2>1, <2>2
<1> QED
  BY <1>6, <1>7 DEF SaveControlPlane, Update, LosesFinalizer, api, Typed, Objects

\* Taking the finalizer off the copy shows in neither.
LEMMA ReleaseStep ==
  ASSUME IInv, LifeInv, ReleaseControlPlane
  PROVE  UNCHANGED <<Stage, Work, KopsAmount, CloudAmount>>
<1> USE DEF IInv
<1>1. UNCHANGED <<KopsAmount, CloudAmount>> /\ (NothingLeft <=> NothingLeft')
  BY KCPStepFacts DEF KCPStep
<1>2. UNCHANGED <<obj, cache>> /\ Final(mem[KCP])
  BY DEF ReleaseControlPlane, LifeInv, PathChosen, api
<1>3. mem'[KCP].phase = mem[KCP].phase /\ mem'[KCP].protected = mem[KCP].protected
  <2>1. mem'[KCP] \in {mem[KCP], [mem[KCP] EXCEPT !.fin = FALSE]} /\ mem[KCP] \in Object
    BY DEF ReleaseControlPlane, Typed, Objects
  <2> QED
    BY ONLY <2>1 DEF Object
<1>4. Final(mem'[KCP])
  BY <1>2, <1>3 DEF Final
<1>5. Lingers' <=> Lingers
  BY <1>1, <1>2, <1>4 DEF Lingers, Believes
<1>6. UNCHANGED Work
  BY <1>2, <1>4, WorkFacts DEF WorkTable
<1>7. UNCHANGED Stage
  BY <1>2, <1>5 DEF Stage
<1> QED
  BY <1>1, <1>6, <1>7

\* Reconcile, the cache and whoever writes to the API server keep ClusterLife's
\* promise, with stale copies, refused saves, failing calls and crashes.
THEOREM LifeRefinement == Spec => ImplementsClusterLife
<1>1. Init => Life!Init
  <2> SUFFICES ASSUME Init PROVE Life!Init
    OBVIOUS
  <2>1. /\ obj[KCP] = Created /\ cache[KCP] = Created /\ mem[KCP] = Absent
        /\ ~cluster /\ ~ssh /\ igs = {} /\ ~infra /\ asgs = {}
    BY DEF Init, Objects
  <2>2. Created # Absent /\ ~Final(Created) /\ ~Created.fin
    BY DEF Created, Absent, Final
  <2> QED
    BY <2>1, <2>2, StageFacts, WorkFacts
       DEF StageTable, WorkTable, Life!Init, KopsAmount, CloudAmount, Amount
<1>2. IInv /\ LifeInv /\ [Next]_vars => [Life!Next]_(Life!vars)
  <2> SUFFICES ASSUME IInv, LifeInv, [Next]_vars
               PROVE  Life!Next \/ UNCHANGED <<Stage, Work, KopsAmount, CloudAmount>>
    BY DEF Life!vars
  <2>1. CASE PoolStep \/ CreateOrUpdateCluster \/ Apply
    BY <2>1, BuildStep DEF Life!Next
  <2>2. CASE Destroy \/ KopsDelete
    BY <2>2, TakeDownStep DEF Life!Next
  <2>3. CASE KCPStep
    <3>1. CASE Start
      BY <3>1, StartStep DEF Life!Next
    <3>2. CASE Delete(KCP) \/ Protect \/ Unprotect
      BY <3>2, UserStep DEF Life!Next
    <3>3. CASE Sync(KCP) \/ Crash
      BY <3>3, CatchUpStep DEF Life!Next
    <3>4. CASE SaveControlPlane
      BY <3>4, SaveStep DEF Life!Next
    <3>5. CASE ReleaseControlPlane
      BY <3>5, ReleaseStep
    <3> QED
      BY <2>3, <3>1, <3>2, <3>3, <3>4, <3>5 DEF KCPStep
  <2>4. CASE ListStep \/ Observe \/ UNCHANGED vars
    <3>1. SameKCP
      BY <2>4, KCPFrame DEF WorkStep, IInv
    <3>2. UNCHANGED <<state, aws>>
      BY <2>4, AmountFrame DEF Observe
    <3> QED
      BY <3>1, <3>2, AmountsKept, StageFrame
  <2> QED
    BY <2>1, <2>2, <2>3, <2>4, StepKinds DEF WorkStep
<1> QED
  BY <1>1, <1>2, LifeInvariance, PTL DEF Spec, ImplementsClusterLife, Life!Spec

\* Who was held once leaves nothing behind when it disappears, and nothing comes
\* back after that.
THEOREM GoneForGood == Spec => CleanForGood
<1> DEFINE OnceHeld == Stage \in {"held", "ending", "doomed", "gone"}
<1>1. Typed /\ DeletingHeld /\ Canonical /\ obj[KCP].fin => OnceHeld
  <2> SUFFICES ASSUME Typed, Canonical, obj[KCP].fin PROVE OnceHeld
    OBVIOUS
  <2>1. obj[KCP] # Absent
    BY RecordFacts
  <2> QED
    BY <2>1, StageFacts DEF StageTable
<1>2. OnceHeld /\ [Life!Next]_(Life!vars) => OnceHeld'
  BY DEF Life!vars, Life!Next, Life!Begin, Life!Finish, Life!Turn, Life!Hold, Life!End, Life!Doom,
         Life!Spare, Life!Vanish, Life!Leave, Life!Release, Life!Build, Life!TakeDown
<1>3. OnceHeld => (obj[KCP] = Absent => NothingLeft)
  BY StageFacts DEF StageTable, Lingers
<1>4. Spec => [][Life!Next]_(Life!vars)
  BY LifeRefinement DEF ImplementsClusterLife, Life!Spec
<1>5. IInv => (obj[KCP].fin => OnceHeld)
  BY <1>1 DEF IInv
<1> HIDE DEF OnceHeld
<1> QED
  BY <1>2, <1>3, <1>4, <1>5, Invariance, PTL DEF CleanForGood

\* What ClusterLife promises of itself, and ControlPlane with it: the cloud never
\* outlives the kops state, and what was deleted in order left nothing.
THEOREM LifePromise ==
  Life!Spec => [](/\ CloudAmount # "none" => KopsAmount = "whole"
                  /\ Stage = "gone" => Life!NothingLeft)
<1> DEFINE Promise == /\ CloudAmount # "none" => KopsAmount = "whole"
                      /\ Stage = "gone" => Life!NothingLeft
<1>1. Life!Init => Promise
  BY DEF Life!Init
<1>2. Promise /\ [Life!Next]_(Life!vars) => Promise'
  <2> SUFFICES ASSUME Promise, [Life!Next]_(Life!vars) PROVE Promise'
    OBVIOUS
  <2>1. CASE Life!Build
    BY <2>1 DEF Life!Build, Life!Builds, Life!NothingLeft
  <2>2. CASE Life!TakeDown
    BY <2>2 DEF Life!TakeDown, Life!TakesDown, Life!NothingLeft
  <2>3. CASE Life!Hold \/ Life!End \/ Life!Doom \/ Life!Spare \/ Life!Vanish
    BY <2>3 DEF Life!Hold, Life!End, Life!Doom, Life!Spare, Life!Vanish, Life!Turn, Life!NothingLeft
  <2>4. CASE Life!Leave \/ Life!Release
    BY <2>4 DEF Life!Leave, Life!Release, Life!Turn, Life!NothingLeft
  <2>5. CASE \/ Life!Begin("build", {"new", "held", "ending", "forsaken"})
             \/ Life!Begin("clear", {"doomed", "gone"})
             \/ Life!Finish \/ UNCHANGED Life!vars
    BY <2>5 DEF Life!Begin, Life!Finish, Life!NothingLeft, Life!vars
  <2> QED
    BY <2>1, <2>2, <2>3, <2>4, <2>5 DEF Life!Next
<1> HIDE DEF Promise
<1> QED
  BY <1>1, <1>2, PTL DEF Life!Spec, Promise

\* Protection that came in time keeps the cluster and stays in time, under stale
\* copies, refused saves and crashes alike.
THEOREM ProtectionKeeps == Spec => ProtectedKept
<1>1. ASSUME IInv, LifeInv, [Next]_vars
      PROVE  [InTime => /\ (infra => infra') /\ (cluster => cluster')
                        /\ (obj'[KCP].protected => InTime')]_vars
  <2> SUFFICES ASSUME Next, InTime
               PROVE  /\ (infra => infra') /\ (cluster => cluster')
                      /\ (obj'[KCP].protected => InTime')
    BY <1>1
  <2>1. Typed /\ Unseen /\ obj[KCP].protected
    BY <1>1 DEF IInv, LifeInv, DeletionSeen, InTime
  <2>2. ~Destroy /\ ~KopsDelete
    BY <1>1, <2>1 DEF LifeInv, PathChosen, Unseen, Destroy, KopsDelete
  <2>3. (infra => infra') /\ (cluster => cluster')
    <3>1. CASE CreateOrUpdateCluster \/ Apply
      BY <2>1, <3>1 DEF CreateOrUpdateCluster, Apply, Typed, state, aws
    <3>2. CASE ~(CreateOrUpdateCluster \/ Apply)
      <4>1. infra' = infra /\ cluster' = cluster
        BY <2>2, <3>2, StepGroups, WorldFrame, CopyFrame, ReturnFrame
           DEF WorkStep, Observe, state, aws, vars
      <4> QED
        BY <4>1
    <3> QED
      BY <3>1, <3>2
  <2>4. Unseen'
    <3>1. CASE KCPStep
      <4>1. ~Final(obj[KCP])
        BY <2>1 DEF Final
      <4>2. ~Final(cache'[KCP])
        BY <2>1, <3>1, <4>1, KCPCached DEF Unseen
      <4>3. ~Final(mem'[KCP])
        BY <1>1, <2>1, <3>1, SeenBefore DEF Unseen, IInv
      <4> QED
        BY <4>2, <4>3 DEF Unseen, Final
    <3>2. CASE PoolStep \/ ListStep \/ WorkStep \/ UNCHANGED vars
      BY <2>1, <3>2, KCPFrame DEF SameKCP, Unseen, Final
    <3> QED
      BY <3>1, <3>2, StepKinds
  <2> QED
    BY <2>3, <2>4 DEF InTime
<1> QED
  BY <1>1, LifeInvariance, PTL DEF Spec, ProtectedKept
=============================================================================
