---------------------------- MODULE ControlPlane ----------------------------
(***************************************************************************)
(* The life of one KopsControlPlane and its KopsMachinePools.              *)
(*                                                                         *)
(* Reconcile reads the control plane from the informer cache and the pools *)
(* from the API server, changes finalizers in its own copies only, manages *)
(* the kops state store and the cloud in between, and writes the copies    *)
(* back in a deferred function, under optimistic concurrency.  Around it   *)
(* users and Cluster API create, protect and delete the objects, the cache *)
(* lags, calls fail and the process crashes.                               *)
(*                                                                         *)
(* One action is one stretch of Reconcile in which nothing that matters to *)
(* others changes but at its end.  The workqueue gives a control plane to  *)
(* one worker at a time; KopsSession.tla has several workers.              *)
(***************************************************************************)
EXTENDS Naturals, FiniteSets

CONSTANTS
  Pools,      \* the KopsMachinePools, numbered in the order of their names
  KCP,        \* the KopsControlPlane
  MaxFaults   \* bound on failing calls and crashes

ASSUME PoolsAssumption == Pools \subseteq Nat /\ KCP \notin Pools
ASSUME MaxFaultsAssumption == MaxFaults \in Nat

VARIABLES
  obj,      \* the objects in the API server
  cache,    \* the informer's copies
  behind,   \* the objects whose cached copy is not the latest version
  mem,      \* Reconcile's copies, Absent for those it does not hold
  stale,    \* the copies that are not the latest version
  pc,       \* what Reconcile does next
  todo,     \* pools a loop of Reconcile has still to visit
  cluster,  \* the kops state store holds the cluster's spec,
  ssh,      \* the SSH public key,
  igs,      \* and these instance groups
  infra,    \* the cluster's own cloud resources exist,
  asgs,     \* and these autoscaling groups
  faults    \* failing calls and crashes so far

api == <<obj, cache, behind>>
state == <<cluster, ssh, igs>>
aws == <<infra, asgs>>
vars == <<api, mem, stale, pc, todo, state, aws, faults>>

Objects == Pools \union {KCP}

Object == [phase : {"absent", "live", "deleting"}, fin : BOOLEAN, protected : BOOLEAN]
Absent == [phase |-> "absent", fin |-> FALSE, protected |-> FALSE]
Created == [Absent EXCEPT !.phase = "live"]

PCs == {"idle", "list", "pools", "apply", "observe",
        "listForDeletion", "destroy", "kopsDelete", "release", "save"}

Init ==
  /\ obj \in [Objects -> {Absent, Created}]
  /\ obj[KCP] = Created
  /\ cache = obj
  /\ behind = {}
  /\ mem = [o \in Objects |-> Absent]
  /\ stale = {}
  /\ pc = "idle"
  /\ todo = {}
  /\ cluster = FALSE /\ ssh = FALSE /\ igs = {}
  /\ infra = FALSE /\ asgs = {}
  /\ faults = 0

-----------------------------------------------------------------------------
(***************************************************************************)
(* The API server and those who write to it.                               *)
(***************************************************************************)
\* Every write makes a new version, which the cache and a copy are behind.
Writes(o, r) ==
  /\ obj' = [obj EXCEPT ![o] = r]
  /\ behind' = behind \union {o}
  /\ stale' = IF mem[o] = Absent THEN stale ELSE stale \union {o}
  /\ UNCHANGED cache

CreatePool(p) ==
  /\ obj[KCP].phase = "live"
  /\ obj[p] = Absent
  /\ Writes(p, Created)
  /\ UNCHANGED <<mem, pc, todo, state, aws, faults>>

\* An object that nobody's finalizer holds disappears at once.  A pool is
\* deleted by a user or when its owner, a MachinePool, is.
Delete(o) ==
  /\ obj[o].phase = "live"
  /\ Writes(o, IF obj[o].fin THEN [obj[o] EXCEPT !.phase = "deleting"] ELSE Absent)
  /\ UNCHANGED <<mem, pc, todo, state, aws, faults>>

\* Users protect a control plane, and give the protection up, at any time, in
\* deletion too.
Protect ==
  /\ obj[KCP] # Absent /\ ~obj[KCP].protected
  /\ Writes(KCP, [obj[KCP] EXCEPT !.protected = TRUE])
  /\ UNCHANGED <<mem, pc, todo, state, aws, faults>>

Unprotect ==
  /\ obj[KCP].protected
  /\ Writes(KCP, [obj[KCP] EXCEPT !.protected = FALSE])
  /\ UNCHANGED <<mem, pc, todo, state, aws, faults>>

\* The watch brings the cached copy up to date.
Sync(o) ==
  /\ o \in behind
  /\ cache' = [cache EXCEPT ![o] = obj[o]]
  /\ behind' = behind \ {o}
  /\ UNCHANGED <<obj, mem, stale, pc, todo, state, aws, faults>>

-----------------------------------------------------------------------------
(***************************************************************************)
(* Reconcile.                                                              *)
(***************************************************************************)
Held == {p \in Pools : mem[p] # Absent}
First(p) == p \in todo /\ \A q \in todo : p <= q

\* Reconcile returns: the deferred function saves the pools it holds in turn.
Returns == pc' = "save" /\ todo' = Held

\* A call fails and Reconcile returns its error.
Fault == faults < MaxFaults /\ faults' = faults + 1
Fails == Fault /\ Returns

ShouldDelete_Unprotected(k) == k.phase = "deleting"

\* shouldDeleteCluster
ShouldDelete(k) == k.phase = "deleting" /\ ~k.protected

\* The control plane comes from the cache; unless it is to be deleted, it gets
\* its finalizer, in the copy.  Reconcile returns early when the Cluster that
\* owns it is paused or the AWS secret cannot be read.
Start ==
  /\ pc = "idle"
  /\ cache[KCP] # Absent
  /\ stale' = behind \intersect {KCP}
  /\ \/ /\ ShouldDelete(cache[KCP])
        /\ pc' = "listForDeletion"
        /\ mem' = [mem EXCEPT ![KCP] = cache[KCP]]
        /\ UNCHANGED <<todo, faults>>
     \/ /\ ~ShouldDelete(cache[KCP])
        /\ pc' = "list"
        /\ mem' = [mem EXCEPT ![KCP] = [cache[KCP] EXCEPT !.fin = TRUE]]
        /\ UNCHANGED <<todo, faults>>
     \/ Fails /\ mem' = [mem EXCEPT ![KCP] = cache[KCP]]
  /\ UNCHANGED <<api, state, aws>>

\* A control plane that is gone is read again, in vain, every five minutes.
NotFound ==
  /\ pc = "idle"
  /\ cache[KCP] = Absent
  /\ UNCHANGED vars

\* GetKopsMachinePoolsWithLabel reads the pools from the API server.
ListPools(from, to) ==
  /\ pc = from
  /\ \/ /\ pc' = to
        /\ mem' = [o \in Objects |-> IF o \in Pools THEN obj[o] ELSE mem[o]]
        /\ todo' = {p \in Pools : obj[p] # Absent}
        /\ UNCHANGED faults
     \/ Fails /\ UNCHANGED mem
  /\ UNCHANGED <<api, stale, state, aws>>

DeletePool_GroupMustExist(p) ==
  /\ mem[p].phase = "deleting"
  /\ igs' = igs \ {p}
  /\ mem' = IF p \in igs THEN [mem EXCEPT ![p].fin = FALSE] ELSE mem
  /\ UNCHANGED faults

DeletePool_WrongGroup(p) ==
  /\ mem[p].phase = "deleting"
  /\ igs' = igs \ {q \in igs : \A r \in igs : q <= r}
  /\ mem' = [mem EXCEPT ![p].fin = FALSE]
  /\ UNCHANGED faults

\* reconcileKopsMachinePool for a pool that is being deleted: the instance
\* group, then the owner, then the finalizer.
DeletePool(p) ==
  /\ mem[p].phase = "deleting"
  /\ \/ /\ igs' = igs \ {p}
        /\ mem' = [mem EXCEPT ![p].fin = FALSE]
        /\ UNCHANGED faults
     \/ Fault /\ igs' \in {igs, igs \ {p}} /\ UNCHANGED mem

\* and for a pool that is to stay: finalizer, then instance group.
CreateOrUpdatePool(p) ==
  /\ mem[p].phase = "live"
  /\ mem' = [mem EXCEPT ![p].fin = TRUE]
  /\ \/ igs' = igs \union {p} /\ UNCHANGED faults
     \/ Fault /\ UNCHANGED igs

\* The loop goes on after a pool that failed.
ReconcilePool(p) ==
  /\ pc = "pools" /\ First(p)
  /\ todo' = todo \ {p}
  /\ DeletePool(p) \/ CreateOrUpdatePool(p)
  /\ UNCHANGED <<api, stale, pc, cluster, ssh, aws>>

\* createOrUpdateKopsCluster, after addons, flags, cloud and spec population:
\* only the path that creates the cluster adds the SSH key.
CreateOrUpdateCluster ==
  /\ pc = "pools" /\ todo = {}
  /\ \/ /\ pc' = "apply"
        /\ cluster' = TRUE
        /\ ssh' = (ssh \/ ~cluster)
        /\ UNCHANGED <<todo, faults>>
     \/ Fails /\ cluster' \in {cluster, TRUE} /\ UNCHANGED ssh
  /\ UNCHANGED <<api, mem, stale, igs, aws>>

Apply_OnlyAdds ==
  /\ pc = "apply"
  /\ pc' = "observe"
  /\ infra' = TRUE
  /\ asgs' = asgs \union igs
  /\ UNCHANGED <<api, mem, stale, state, todo, faults>>

\* Terraform files are generated from the kops state and applied.  A failure
\* may leave any part done.
Apply ==
  /\ pc = "apply"
  /\ \/ /\ pc' = "observe"
        /\ infra' = TRUE
        /\ asgs' = igs
        /\ UNCHANGED <<todo, faults>>
     \/ /\ Fails
        /\ infra' \in {infra, TRUE}
        /\ asgs' \in {s \in SUBSET (asgs \union igs) : asgs \intersect igs \subseteq s}
  /\ UNCHANGED <<api, mem, stale, state>>

\* updateKopsMachinePoolWithProviderIDList and the validation of the cluster
\* end in a return, with an error or without.
Observe ==
  /\ pc = "observe"
  /\ Returns
  /\ UNCHANGED <<api, mem, stale, state, aws, faults>>

Destroy_ErrorIgnored ==
  /\ pc = "destroy"
  /\ pc' = "kopsDelete"
  /\ \/ infra' = FALSE /\ asgs' = {} /\ UNCHANGED faults
     \/ Fault /\ UNCHANGED aws
  /\ UNCHANGED <<api, mem, stale, state, todo>>

\* terraform destroy
Destroy ==
  /\ pc = "destroy"
  /\ \/ /\ pc' = "kopsDelete"
        /\ infra' = FALSE
        /\ asgs' = {}
        /\ UNCHANGED <<todo, faults>>
     \/ /\ Fails
        /\ infra' \in {infra, FALSE}
        /\ asgs' \in SUBSET asgs
  /\ UNCHANGED <<api, mem, stale, state>>

KopsDelete_ErrorIgnored ==
  /\ pc = "kopsDelete"
  /\ pc' = "release"
  /\ \/ cluster' = FALSE /\ ssh' = FALSE /\ igs' = {} /\ UNCHANGED faults
     \/ Fault /\ UNCHANGED state
  /\ UNCHANGED <<api, mem, stale, aws, todo>>

KopsDelete_StateMustExist ==
  /\ pc = "kopsDelete"
  /\ IF cluster
     THEN pc' = "release" /\ UNCHANGED todo
     ELSE Returns
  /\ cluster' = FALSE /\ ssh' = FALSE /\ igs' = {}
  /\ UNCHANGED <<api, mem, stale, aws, faults>>

\* KopsDeleteResources: leftovers in the cloud, then the kops state.
KopsDelete ==
  /\ pc = "kopsDelete"
  /\ \/ /\ pc' = "release"
        /\ cluster' = FALSE /\ ssh' = FALSE /\ igs' = {}
        /\ UNCHANGED <<todo, faults>>
     \/ /\ Fails
        /\ cluster' \in {cluster, FALSE}
        /\ ssh' \in {ssh, FALSE}
        /\ igs' \in SUBSET igs
  /\ UNCHANGED <<api, mem, stale, aws>>

\* DeleteOwnerResources waits three seconds for Cluster API to mark the pool
\* (Delete above), then the pool is read again, from the cache, and loses its
\* finalizer in the copy.
ReleasePool(p) ==
  /\ pc = "release" /\ First(p)
  /\ \/ /\ cache[p] # Absent
        /\ mem' = [mem EXCEPT ![p] = [cache[p] EXCEPT !.fin = FALSE]]
        /\ stale' = (stale \ {p}) \union (behind \intersect {p})
        /\ todo' = todo \ {p}
        /\ UNCHANGED <<pc, faults>>
     \/ /\ cache[p] = Absent
        /\ Returns
        /\ UNCHANGED <<mem, stale, faults>>
     \/ Fails /\ UNCHANGED <<mem, stale>>
  /\ UNCHANGED <<api, state, aws>>

\* Then the control plane's owner, and its own finalizer, again in the copy.
ReleaseControlPlane ==
  /\ pc = "release" /\ todo = {}
  /\ \/ Returns /\ mem' = [mem EXCEPT ![KCP].fin = FALSE] /\ UNCHANGED faults
     \/ Fails /\ UNCHANGED mem
  /\ UNCHANGED <<api, stale, state, aws>>

\* Update sends a copy back.  It is refused when the copy is stale, and an
\* object in deletion disappears with its finalizer.  Failures are events only.
Update(o) ==
  \/ /\ o \notin stale /\ obj[o] # Absent
     /\ obj' = [obj EXCEPT ![o] =
                  IF mem[o].phase = "deleting" /\ ~mem[o].fin THEN Absent ELSE mem[o]]
     /\ behind' = behind \union {o}
     /\ UNCHANGED <<cache, faults>>
  \/ /\ o \in stale \/ obj[o] = Absent
     /\ UNCHANGED <<api, faults>>
  \/ Fault /\ UNCHANGED api

SavePool(p) ==
  /\ pc = "save" /\ First(p)
  /\ Update(p)
  /\ todo' = todo \ {p}
  /\ mem' = [mem EXCEPT ![p] = Absent]
  /\ stale' = stale \ {p}
  /\ UNCHANGED <<pc, state, aws>>

Forgets_KeepsCopies ==
  /\ pc' = "idle"
  /\ todo' = {}
  /\ UNCHANGED <<mem, stale>>

\* What Reconcile holds is gone with its return.
Forgets ==
  /\ pc' = "idle"
  /\ mem' = [o \in Objects |-> Absent]
  /\ stale' = {}
  /\ todo' = {}

SaveControlPlane ==
  /\ pc = "save" /\ todo = {}
  /\ Update(KCP)
  /\ Forgets
  /\ UNCHANGED <<state, aws>>

\* The process dies between two steps; its successor fills the cache anew.
Crash ==
  /\ pc # "idle"
  /\ Fault
  /\ Forgets
  /\ cache' = obj /\ behind' = {}
  /\ UNCHANGED <<obj, state, aws>>

Environment ==
  \/ \E p \in Pools : CreatePool(p)
  \/ \E o \in Objects : Delete(o) \/ Sync(o)
  \/ Protect
  \/ Unprotect
  \/ Crash

Reconcile ==
  \/ Start
  \/ NotFound
  \/ ListPools("list", "pools")
  \/ ListPools("listForDeletion", "destroy")
  \/ \E p \in Pools : ReconcilePool(p) \/ ReleasePool(p) \/ SavePool(p)
  \/ CreateOrUpdateCluster
  \/ Apply
  \/ Observe
  \/ Destroy
  \/ KopsDelete
  \/ ReleaseControlPlane
  \/ SaveControlPlane

Next == Environment \/ Reconcile

Spec == Init /\ [][Next]_vars

\* The queue retries and requeues, calls return, and the watch delivers.
Fairness ==
  /\ WF_vars(Reconcile)
  /\ \A o \in Objects : WF_vars(Sync(o))

FairSpec == Spec /\ Fairness

-----------------------------------------------------------------------------
(***************************************************************************)
(* Properties.                                                             *)
(***************************************************************************)
\* Type invariant, with the worker holding copies only inside Reconcile.
TypeOK ==
  /\ obj \in [Objects -> Object]
  /\ cache \in [Objects -> Object]
  /\ behind \subseteq Objects
  /\ mem \in [Objects -> Object]
  /\ stale \subseteq Objects
  /\ pc \in PCs
  /\ todo \subseteq Pools
  /\ cluster \in BOOLEAN
  /\ ssh \in BOOLEAN
  /\ igs \subseteq Pools
  /\ infra \in BOOLEAN
  /\ asgs \subseteq Pools
  /\ faults \in 0 .. MaxFaults
  /\ pc = "idle" <=> mem[KCP] = Absent

NothingInCloud == ~infra /\ asgs = {}
NothingLeft == NothingInCloud /\ ~cluster /\ ~ssh /\ igs = {}

\* A control plane whose finalizer reached the API server disappears only when
\* nothing of its cluster is left, in the cloud or in the kops state.
ControlPlaneHeld ==
  [][obj[KCP].fin /\ obj'[KCP] = Absent => NothingLeft]_vars

\* And nothing comes back: no reconciliation builds from a stale copy or cache
\* after the control plane has gone.
CleanForGood == [](obj[KCP].fin => [](obj[KCP] = Absent => NothingLeft))

\* A pool whose finalizer reached the API server disappears only when its
\* instance group has left the kops state.
PoolHeld ==
  [][\A p \in Pools : obj[p].fin /\ obj'[p] = Absent => p \notin igs]_vars

\* The kops state, which terraform's files are generated from and which the
\* deletion works on, outlives the cloud resources.
StateOutlivesCloud == infra \/ asgs # {} => cluster

\* The deletion of a control plane is final while it is not protected (any more).
Final(k) == k.phase = "deleting" /\ ~k.protected

\* Neither the cache nor Reconcile has the control plane in a final deletion.
Unseen == ~Final(cache[KCP]) /\ ~Final(mem[KCP])

\* Protection comes in time while the control plane is live, and in deletion
\* as long as nobody saw it unprotected there.
InTime == obj[KCP].protected /\ (obj[KCP].phase = "live" \/ Unseen)

\* Protection that came in time keeps the cluster, and stays in time until it is
\* given up, whatever is asked of the control plane.  Protection that comes
\* later may find a destroy under way.
ProtectedKept ==
  [][InTime => /\ (infra => infra') /\ (cluster => cluster')
               /\ (obj'[KCP].protected => InTime')]_vars

\* A copy after which Reconcile builds.
Believes(k) == k # Absent /\ ~Final(k)

Amount(whole, part) == IF whole THEN "whole" ELSE IF part THEN "part" ELSE "none"
KopsAmount == Amount(cluster, ssh \/ igs # {})
CloudAmount == Amount(infra, asgs # {})

Lingers == Believes(cache[KCP]) \/ Believes(mem[KCP]) \/ ~NothingLeft
Stage ==
  CASE obj[KCP] = Absent /\ Lingers -> "forsaken"
    [] obj[KCP] = Absent /\ ~Lingers -> "gone"
    [] obj[KCP] # Absent /\ Final(cache[KCP]) -> "doomed"
    [] Final(obj[KCP]) /\ ~Final(cache[KCP]) -> "ending"
    [] OTHER -> IF obj[KCP].fin THEN "held" ELSE "new"

Work ==
  IF mem[KCP] = Absent THEN "none" ELSE IF Final(mem[KCP]) THEN "clear" ELSE "build"

\* Reconcile keeps the promise of ClusterLife: with stale copies, refused saves,
\* failing calls and crashes, no reconciliation both builds and takes down, none
\* begins to take down but on a deletion, and what is held goes last and leaves
\* nothing that could come back.
Life == INSTANCE ClusterLife
  WITH stage <- Stage, work <- Work, kops <- KopsAmount, cloud <- CloudAmount
ImplementsClusterLife == Life!Spec

\* kopscontrolplane_types.go:39, "allows the controller to clean up resources
\* on delete": a control plane that is gone has left no cloud resources.
NothingOrphaned ==
  obj[KCP] = Absent /\ pc = "idle" => NothingInCloud

\* The test "should delete cluster": when the control plane is about to lose its
\* finalizer in the API server, its pools have lost theirs.
PoolsReleased ==
  pc = "save" /\ todo = {} /\ mem[KCP].phase = "deleting" /\ ~mem[KCP].fin
    => \A p \in Pools : ~obj[p].fin

\* kopscontrolplane_types.go:78, "SSHPublicKey is the SSH public key added in
\* the nodes": terraform's files are generated from a state that has the key.
SSHKeyInState == pc = "apply" => ssh

\* A control plane that is deleted, and not protected, disappears in the end, if
\* it is not protected again.
DeletionCompletes == Final(obj[KCP]) ~> obj[KCP] = Absent \/ obj[KCP].protected

\* While the control plane lives, a deleted pool disappears in the end.
PoolDeletionCompletes ==
  []<>(obj[KCP].phase # "live") \/ \A p \in Pools :
    obj[p].phase = "deleting" ~> obj[p].phase # "deleting"

\* An instance group that left the kops state takes its autoscaling group with
\* it in the end, if its control plane is held.
InstanceGroupsConverge ==
  \A p \in Pools : p \notin igs /\ obj[KCP].fin ~> p \notin asgs \/ p \in igs
=============================================================================
