# Verification of the kubernetes-kops-operator

TLA+ models of the operator in `src/`, the TLC configurations that check them
on small instances, and TLAPS proofs that hold for every instance.

Line numbers without a path are lines of
`src/controllers/controlplane/kopscontrolplane_controller.go`.

## The system

The operator reconciles `KopsControlPlane` objects (KCP) and their
`KopsMachinePool` objects (KMP) of Cluster API. One controller runs
`Reconcile` (576-1008) for a KCP in one of several worker goroutines of one
process (`WORKER_COUNT`, 5 by default). A reconciliation writes the kops state
store (S3) with the kops libraries, generates terraform files from it, and
applies them. There is no controller for pools: a change of a pool makes its
KCP reconcile.

| Component | State it keeps | Operations | Where |
|---|---|---|---|
| Workers and process-wide kops state | `Mux`; `AWS_*` variables, the global `vfs.Context`, feature flags, awsup's cloud table; each worker's clientset and cloud handle | lock, build handles, use them, unlock, deferred unlock | 576-1008, `pkg/utils/kops_utils.go` 56-126, 422-462 |
| Life of KCP and KMPs | finalizers, deletion and protection of the objects; Reconcile's copies; cluster, SSH key and instance groups in the kops state; cloud resources | normal path, deletion path, deferred save | 148-160, 378-445, 641-1176, `kops_utils.go` 312-405 |
| Kops secrets | the Secret's entries, the store, `status.secrets`, a condition | delete unlisted, create or replace, mark | 908-912, 1240-1256, `kops_utils.go` 226-310 |
| Terraform execution | plugin cache and its flock, shared `.terraform.lock.hcl`, `.terraform` of each directory | init with cleaning and retries, apply, plan, destroy | `pkg/utils/terraform_utils.go` 31-147, 216-427 |
| Terraform directory | `/tmp/<cluster>` | generate, modify, clean up | 162-375, `terraform_utils.go` 150-214, 429-451 |
| Status of a reconciliation | conditions, `Ready`, `Paused`, provider IDs, error metric | set along the way, saved at the end | 697-704, 984-1036, `kops_utils.go` 128-167, `metrics/` |
| Events and queue | queue of KCP keys | predicates, pool map function, requeue delays | 82-87, 1179-1237 |
| Dry run | none of its own | plan the selected KCPs one by one | `main.go` 233-266 |
| Karpenter resources | none | node classes, pools, addon | 162-347, 541-561, 860-866, `pkg/utils/karpenter_utils.go` |
| Kubeconfig issue | a Secret per cluster | issue, renew | 477-539, `kops_utils.go` 169-224 |
| Pure helpers | none | service CIDR, resource names, order of pools | `pkg/kops/kops.go` |

How they interact: workers share the process-wide state under the Mux, and the
terraform plugin cache under a file lock. Reconcile reads the KCP from the
informer cache and the pools from the API server (`APIReader`), works on copies,
and writes them back only in its deferred function (641-697) under optimistic
concurrency, where a refusal is an event and no more. Cluster API and users
write the same objects at any time. The kops state is what terraform's files
are generated from and what a deletion works on.

What is hard here, and what would make each part correct:

- *Concurrency.* The kops libraries keep credentials and flags in globals. A
  handle must act in its own cluster's account also after the unlock, whatever
  fails and in whatever order workers run (`SessionIsolated`, `NothingLateBound`).
- *Partial failure.* Any call may fail. The Mux must be released, resources must
  not be forgotten, and retries from the start must get through
  (`MuxDiscipline`, `StateOutlivesCloud`, `DeletionCompletes`).
- *Stale copies, lost saves.* Finalizers and `status.secrets` live in memory for
  minutes before they are saved, and a save writes the whole object back
  (`CleanForGood`, `PoolHeld`, `NothingForgotten`, `NothingInvented`, `EditsKept`).
- *Crashes.* In-memory changes go, effects on state and cloud stay, and so do
  the terraform directory and the plugin cache, whole or damaged
  (`DeletionCarriedOut`, `InitDelivers`, `AwsHeals`).
- *Lost wake-ups.* Most of what Reconcile reads changes without an event that
  passes the three filters (`NeverForgotten`, `SpecConverges`, `PausedConverges`).

`PROJECT.json` lists the hazards line by line with the properties aimed at them.

## Modules

| Module | Role |
|---|---|
| `KopsSession` | workers, Mux, process-wide state, handles |
| `AccountSession` | what KopsSession promises: no process-wide state, handles act in the served account |
| `ClusterLife` | what ControlPlane promises: one cluster's life with no caches, copies, retries or steps |
| `ControlPlane` | one KCP, its pools, API server, cache, kops state, cloud |
| `KopsSecrets` | one cluster's secrets |
| `PluginCache` | terraform runs of several clusters over one plugin cache |
| `ReconcileLoop` | what wakes a KCP's key, and what its reconciliations leave to each other |
| `MCKopsSession`, `MCControlPlane`, `MCKopsSecrets`, `MCPluginCache` | the instances TLC checks (`ReconcileLoop` is checked as it is) |
| `KopsSessionProofs`, `ControlPlaneProofs`, `ClusterLifeProofs`, `KopsSecretsProofs`, `PluginCacheProofs`, `ReconcileLoopProofs` | theorems and proofs |

The modules share no variables: each takes Reconcile at the grain its own
questions need. `KopsSession` has the calls of many workers and no objects,
`ControlPlane` and `KopsSecrets` the objects of one KCP with every write, and
`ReconcileLoop` whole reconciliations one after the other. `ControlPlane`
assumes that a KCP is reconciled again and that terraform's retries end; these
are `NeverForgotten` and `CallsReturn` of the other two.

Operators whose name has a suffix (`Lock_Unguarded`, `Apply_OnlyAdds`, ...)
are not part of a specification. Each is the operator before the underscore
with a plausible bug, and shows that a property would notice it.

### KopsSession

A worker's `pc` names the call of Reconcile it makes next; each action is one
call that reads or writes shared state. Failing calls go to `"return"`, where
the deferred function unlocks if `shouldUnlock` is set, then to `"save"`.

- Normal path: `list` 821, `clientset` 829, `keyId`/`secretKey` 835, `pools`
  841-871, `flags` 873-884, `cloud` 886, `state` 892-942, `kubeconfig` 957-969
  (unlock), `apply` 971-990, `validate` 992-1006.
- Deletion: `destroy` 732-754 *before* the lock, `clientset` 759, `keyId`,
  `cloud` 771, `kopsDelete` 781-788 (unlock), `owners` 790-812. There is no
  `flags` on this path.
- Dry run (`dryRun`, fixed for the life of the process): like the normal path,
  with `plan` under the Mux instead of kubeconfig and apply. main makes the
  plans one after the other.
- `bound[w]` is what the VFS context of `w` resolved: kops creates its S3
  client from the environment at the first use, which is why the order of 829
  and 835 does no harm. This is external code, modelled from how it is used.
- Credentials are pairs: `SetEnvVarsFromAWSCredentials` sets two variables one
  after the other and can fail between them. Control planes stand for accounts,
  the hardest case (with shared accounts fewer mix-ups are visible).
- Feature flags: the normal path switches a fixed list off (`Reset`,
  `kops_utils.go` 91) before it switches the KCP's own on, which
  `spec.spotInst.featureFlags` may name from outside that list (101-107). Such a
  flag stays on for every later cluster of the process. `SpotinstOceanTemplate`
  stands for those flags, and `OwnFlags` does not say that they are off.
- A panic in a handler runs the deferred function like an error and is caught
  by controller-runtime.

### ControlPlane

`obj` is the API server, `cache`/`behind` the informer, `mem`/`stale` the
copies of Reconcile. Every write makes a version; `Update` is refused when the
copy is stale. `igs` and `asgs` are the instance groups in the kops state and
the autoscaling groups in the cloud, `infra` the rest of the cluster.

- Normal path: `Start` (finalizer in the copy, 815), `ListPools`,
  `ReconcilePool` (1038-1093), `CreateOrUpdateCluster` (378-445), `Apply`,
  `Observe`, `SavePool`, `SaveControlPlane`.
- Deletion: `ListPools`, `Destroy`, `KopsDelete`, `ReleasePool` (790-804),
  `ReleaseControlPlane` (806-811), the saves.
- The environment creates pools for a live KCP, deletes objects, sets and
  removes protection at any time, during the deletion too, delivers cache
  updates, and crashes the process.
- Deleting an owner makes Cluster API delete the object. That is the
  environment's `Delete`, which may come during the three-second sleep of
  `DeleteOwnerResources`, later, or have come long before.
- A failing `Apply`, `Destroy` or `KopsDelete` leaves any part done.
- A paused Cluster or unreadable AWS credentials end a reconciliation early;
  they count as faults, so that fairness says something about the rest.
- Deleting a missing instance group or state is no error (S3's semantics).
- `ClusterLife` says what all this is for. A KCP is `new` until its finalizer
  reaches the API server, then `held`; `ending` in an unprotected deletion that
  the cache does not know of, and `doomed` when it does; protection that is set
  again takes it back to `held`. It is `gone` when it disappeared with nothing
  left, `forsaken` when it disappeared from `new` and something is left or may
  still be built. A reconciliation builds or clears (`work`), never both; it
  begins to clear only what is doomed, and what it began goes on whatever
  becomes of the stage. Kops state and cloud hold none, a part or the whole of
  the cluster. `Stage`, `Work`, `KopsAmount` and `CloudAmount` are the mapping.
- Protection set during the deletion comes too late when a reconciliation has
  read the KCP before it: the decision of 602/729 is not taken again before the
  destroy (749). `InTime` says which protection holds: that of a live KCP, and
  in deletion that of a KCP which neither cache nor Reconcile saw unprotected
  there.
- Left out: SpotInst and Karpenter pools (they differ in `Observe` only),
  `Ready`, the rendering of the files. The two reads of the instance groups,
  for the files and for `asgs`, are made by the one worker that has the key.

### KopsSecrets

`data` is the Secret as read once (286), `mem` the KCP's copy with the list and
the condition, `store` the kops secret store, in which kops may have a secret of
its own under any name. `failed` records that a call of `ReconcileKopsSecrets`
failed, which the code forgets at 291-298. Deletion loop (240-253) and creation
loop (258-279) take one entry a step. The order of the first is the list's in
the code and free in the model, the second is a Go map's. The cached Secret may
lag like the KCP: a late read is the same as a user who acted later.

A KCP in deletion gets here while it is protected, and then its status is not
saved (672): the store changes and the list does not. `deleting` is such a
deletion. One that is not protected never gets here: it takes the whole kops
state away and is `ControlPlane`'s matter.

### PluginCache

Line numbers here are of `pkg/utils/terraform_utils.go`. A cluster has a
worker and a directory; `flock` is the lock on the cache (31-61), `cache` the
state of each provider's package, `lock` the `.terraform.lock.hcl` of each
directory and `shared` the one beside terraform's executable.

- `LockPluginCache` is the lock, the validation (250, which removes packages
  with an empty executable) and the copy of the shared lock file (256) into a
  directory that has none. Only the failure of the lock is an error
  (`LockFails`). A validation that fails leaves some of its work undone, a copy
  that fails leaves no file or an empty one; both are logged, and init goes on.
- `warned` is that log, of the copy: the clusters which work without the shared
  lock file because it was not to be had. It has no other counterpart.
- An attempt at `terraform init` takes the providers one by one: a package that
  the directory's lock file knows is linked, another one is downloaded over
  what is there. `TextFileBusy`, `Refused`: the retriable errors (126-147). On
  a refused package the one of `aws` is removed, once in an init and not after
  the last attempt (280-293), unless the cleaning fails, which is logged too.
  `InitFails` is any other error. `InitSucceeds` saves the shared lock file if
  there is none (304), or leaves an empty one that stays; `UnlockPluginCache` is
  the deferred unlock. It closes the file, which gives the flock up, even when
  unlocking fails (239-242).
- `Execute`, `PluginsMissing`, `Finish`: apply, plan or destroy, outside the
  lock. Their retries (321-427) do not run init again.
- `DownloadKilled` and `Crash` damage packages. A restart finds the old disk or
  an empty one (`main.go` 148-174).
- How terraform uses its cache is external, and modelled as the code expects
  it. Left out: retries that wait for nothing but time (network, API limits),
  and `Upgrade(true)` finding a new version, which is a new download.

### ReconcileLoop

`kcp`, `cache` and `mem` are the KCP in the API server, the informer and
Reconcile. `gen` is the generation, `ours` the controller class; `addon`
stands for the Karpenter addon in its spec.

- `Passes` are the event filters (1180-1191): the class is the new object's, an
  update counts only with a new generation, and an object that has the paused
  annotation itself (`muted`) is filtered whatever happens to it. `News` is the
  first two. `DeliverPool` is the map function (1195-1227), whose failed reads
  drop the event, as the pool's own annotation does.
- `missed` is set when an event that had news was filtered by the annotation
  while nothing else would bring the key back, and reset when the key is queued;
  no action looks at it. Taking the annotation off makes no generation, so
  nothing tells of it.
- `dirty`, `timer`: the key is in the queue, or a delayed one is due. `Start`
  reads the cache and returns early for a KCP that is gone (603, requeued all
  the same), of another class (614, not requeued), without readable owner
  (counted as a fault), or paused (698). Unreadable credentials or a bad CIDR
  (`StartFails`, 706-727) come after the deferred function and save a status.
- `spec` is what `kopsCluster` was made of (712-717). `Generate` sets the addon
  (861) in the copy only, so it reaches `spec` in the next reconciliation.
  `EditSpec` may take it off again.
- `files` is `/tmp/<cluster>`: `kubernetes.tf` of kops, `karpenter.tf` of
  162-291, `provider.tf` of the deletion path. `Clean` (679-686) empties it if
  `cleanupTerraformDirectory` says so, a crash keeps it or takes it.
- `Save` and `SaveStatus` are the two writes of 665-677; the second is left out
  for a KCP that is being deleted.
- `SavePools` are the writes of 651-663 before them. They write provider IDs in
  the order AWS lists the instances (1030) and node labels (1040-1046), so each
  may make a generation of a pool, whose event wakes the KCP's key. The model
  leaves it free whether one does.
- Left out: finalizers and the pools themselves (they are in `ControlPlane`),
  and the SpotInst and security-group overrides, which are files of the same
  kind.

## Runs

`tlc -workers 2 -config <run>.cfg <module>`; the longest takes two to three minutes.

| Run | Instance | Shows |
|---|---|---|
| `KopsSession_Workers` | 2 workers, 2 KCPs (one SpotInst with flags inside and outside the reset list, one Karpenter), dry run or not | all safety properties, refinement of `AccountSession`, `Finishes` |
| `KopsSession_DeleteFlags` | the same | *violated*: SpotInst flag on deletion |
| `ControlPlane_Life` | 1 pool, 2 faults | safety and liveness of the objects' life, refinement of `ClusterLife` |
| `ControlPlane_TwoPools` | 2 pools, no faults | `PoolHeld` with loops over several pools |
| `ControlPlane_NothingOrphaned` | 1 pool, no faults | *violated*: finalizer saved too late |
| `ControlPlane_PoolsReleased` | 1 pool, no faults | *violated*: refused save at the end of a deletion |
| `ControlPlane_SSHKey` | 1 pool, 1 fault | *violated*: the key is never added again |
| `KopsSecrets_Mirror` | 1 name (an entry's or kops' own), 2 values, deletion, 2 faults | safety and liveness of the mirror |
| `KopsSecrets_Condition` | the same, 1 fault | *violated*: condition true after a failure |
| `PluginCache_Workers` | 2 SpotInst clusters and 1 without, 2 attempts, 1 fault | init delivers, cleaning is the only harm to running terraform, aws is downloaded over only by who missed a lock file, calls return, aws heals, everyone runs |
| `ReconcileLoop_Requeues` | 2 edits, 1 fault, with cleanup | the key is lost to nothing but the paused annotation, users' edits are kept; spec, manifest, status and deletions converge; no busy loop of its own |
| `ReconcileLoop_LeftoverFiles` | 1 edit, no faults, without cleanup | *violated*: duplicate provider blocks on deletion |

Why the bounds are enough. *Workers*: interference needs one worker that
overwrites and one that suffers; the theorems cover any number. *Faults*
(`MaxFaults`, failing calls and crashes together): two allow a failure during
the recovery from a failure; the bound is needed for liveness, since a
reconciliation that always fails achieves nothing, and the safety theorems hold
for any bound. *Pools*: they meet only in the loops, which `TwoPools` and the
theorem `PoolHeldUntilDone` cover. *Entries*: they meet only in that a failure
ends both loops, and each entry's own call can fail. *Clusters of the cache*:
one cleans, one suffers, and a third is new and downloads. *Attempts*
(`MaxRetries`, 5 in the code): two tell the first, the cleaning one, from the
last. *Edits* (`MaxEdits`): two changes by users or the cluster, so that one can
undo the other or come while the first is carried out; what is quiet in the end
is what the liveness properties speak of. Annotations that are there from the
beginning (`Init`) cost no edit. Nothing else is bounded.

`ReconcileLoop_Requeues` and `ReconcileLoop_LeftoverFiles` do not check for
deadlock: a KCP that was handed to another controller leaves nothing to do.

### Properties worth explaining

- `StateOutlivesCloud`: without the kops state neither terraform's files nor
  the deletion of leftovers would know of the cloud resources.
- `CleanForGood`/`PoolHeld` speak of finalizers that *reached the API server*;
  that they reach it late is `NothingOrphaned`, which is violated. The former
  also says that nothing is built once more from a stale copy or cache.
- `MuxDiscipline` relates the Mux to what every worker believes of it: it is
  held by the one worker in the section, `shouldUnlock` is set there and nowhere
  else, and no return, error or panic leaves it held.
- `OwnFlags`: the cloud has every flag its KCP asks for and no other one of the
  reset list. Of other flags it says nothing, as those of earlier clusters stay.
- `ProtectedKept`: protection that is `InTime` keeps cluster and cloud, and stays
  in time until it is given up. The second half is what makes it a promise: no
  order of stale copies and saves turns protection in time into one too late.
- `EditsKept`: `Update` writes the whole KCP back. A copy that is minutes old
  takes back no class, annotation or deletion that users wrote meanwhile.
- `PoolDeletionCompletes` excuses a KCP that does not stay live: there
  `PoolsReleased` shows what goes wrong.
- `NothingInvented`: `status.secrets` gains a name only while its secret is in
  the store, although it is extended in memory long before it is saved.
- `OnlyListedDeleted`: the list alone tells what may be deleted, so kops' own
  secrets stay until an entry of their name is mirrored over them (264-272).
- `ListingHeals`: a name lost by a refused save comes back while its entry is
  there, unless the KCP is in deletion, whose list is not saved any more (672).
  If the entry is removed first, the secret stays in the store for good
  (`RemovalsConverge` says "if it is listed").
- `AwsNotOverwritten`: a good `aws` is linked, not downloaded over, once the
  shared lock file has it. The exception is a cluster whose log has the warning
  of a failed copy (256-258), until an init of its own succeeds.
- `LostOnlyToCleaning` says what the code leaves open: `cleanCorruptedProvider`
  does take plugins from terraform that runs outside the lock. `EveryoneRuns`
  shows that all get their turn nevertheless. Its premises are what the code
  does not give. A package other than `aws` that stays broken is never cleaned,
  while each init that meets it cleans `aws` under the others. And the shared
  lock file is written once: if that cluster had no SpotInst, a new SpotInst
  cluster downloads over a package that another may be running, for as long as
  that goes on ("text file busy"). The same goes for a
  directory that a failed copy left with an empty lock file.
- `NeverForgotten`: a KCP of the controller's class is in the queue, due, or
  announced, or the filter of 1189 has lost it (`missed`). That can really
  happen: a KCP that is paused by its own annotation when the operator starts,
  and resumed later, is reconciled only when its spec or a pool changes. No doc
  of the repository says what the annotation should do, so this is no finding.
- The convergence properties of `ReconcileLoop` (`<>[]`) say what holds from
  some point on, once users have stopped. `Suspended` excuses a KCP that is
  paused, deleted or `Unseen`: another class's, or lost by 1189.
  `DeletionCarriedOut` covers protection that is given up after the deletion: no
  event tells of it, the requeue does.
- `ManifestConverges` and `DeletionCarriedOut` are checked with cleanup. Without
  it they fail: a `karpenter.tf` stays when the last Karpenter pool goes, and
  see counterexample 6.
- `Settles`: the controller's saves of the KCP cease to pass the filters, provided
  that the saves of pools cease to make events. The proviso is the code's: AWS
  may list the instances in another order each time, and nothing bounds that.

### Fairness

- `KopsSession`: `WF(Proceed(w))` - every call returns; terraform's retries are
  bounded by five, API and S3 calls have timeouts. `SF(Lock(w))` - Go's Mutex
  hands over to the longest waiter after a millisecond (starvation mode).
  Beginning a reconciliation is not fair: there may be nothing to do.
- `ControlPlane`, `KopsSecrets`: `WF(Reconcile)` - every result requeues (1, 5
  or 20 minutes, 82-87) and errors are retried; `WF(Sync)` - the watch delivers.
  Users owe nothing.
- `PluginCache`: `WF(Begin(c))` - reconciliations come again; `WF(Proceed(c))` -
  terraform returns; `SF(LockPluginCache(c))` - flock serves waiters, and a
  worker that gave the lock up does not want it back for minutes.
- `ReconcileLoop`: `WF` of `Reconcile`, `Deliver`, `DeliverPool` and
  `TimerFires` - workers take keys, calls return, the watch delivers, delayed
  keys come due. None of the environment.

## What the counterexamples show

1. **SpotInst on deletion** (771). The deletion path does not parse the feature
   flags. After a restart, or after another cluster, its cloud is built without
   SpotInst although the KCP enables it, or the reverse (README.md:39).
2. **Late finalizers** (816, 1082). They are saved only after terraform
   applied. A KCP deleted in its first reconciliation disappears at once, the
   cluster stays in the cloud, and the next read of the KCP is NotFound. A pool
   deleted while its instance group is created goes the same way.
3. **Unreleased pools** (798, 653). The pool is read again from the cache. When
   that lags behind the deletion of the owner, the save is refused, the KCP's
   finalizer goes all the same, and the pool keeps its own for ever.
4. **SSH key** (385). Only the path that creates the cluster adds the key.
5. **Secrets condition** (910-912). `MarkFalse` is followed by `MarkTrue`.
6. **Leftover files on deletion** (742-746). The deletion writes `provider.tf`
   because it generates no kops files. Without `cleanupTerraformDirectory` those
   of the last normal reconciliation are still there, and `kubernetes.tf` has
   the same two `provider "aws"` blocks. Terraform refuses a duplicate
   configuration, so destroy fails until the container is replaced. (With
   cleanup a crash leaves the files as well; the failed deletion cleans up, and
   the next one gets through.)

## Proofs

`tlapm <module>Proofs.tla`. Assumptions: the sentinels are no workers, KCPs,
values or clusters; SpotInst KCPs are KCPs, and the flags they name are kops
flags other than Karpenter's; pools are numbers and the KCP is not one;
`MaxFaults` and `MaxEdits` are natural numbers; every cluster needs `aws`, and
the retry loops make at least two attempts.

**KopsSessionProofs.** No safety property of the handles is inductive: that a
clientset uses its own account depends on what the environment held at its
first use. `IInv` joins the types, the agreement of Mux, `pc` and
`shouldUnlock` (`MuxDiscipline`), and for each worker what environment, VFS context
and handles hold at each `pc` (`SessionInv`). Claims about globals are made
only for a `pc` inside the section, and `MuxDiscipline` puts one worker there
(`MutualExclusion`); so a
step of another worker cannot disturb them (`SessionFrame`). From `IInv` follow
all safety properties, and `Refinement`: each action is a step of
`AccountSession` or stutters. `OwnFlags` needs one fact more (`FlagFacts`): at
`cloud` on the normal path the flags of the reset list are the KCP's own and all
it asks for are on, because parsing removes before it adds (`ParsedIsOwn`) and
nobody else is in the section.

**ControlPlaneProofs.** `HeldUntilDone` is about a save whose copy lost its
finalizer many steps before. `ReleasedWhenDone` says what such a copy stands
for: only the deletion path makes it, each point of which implies what the one
before achieved (`PathInv`). A copy that is not stale agrees with the API server
(`Coherent`), and what is in deletion there has its finalizer (`DeletingHeld`).
Steps come in four groups, by what they leave alone (`StepGroups`, `WorldFrame`,
`WorkFrame`, `CopyFrame`, `ReturnFrame`), so that each part of the invariant
looks at the steps that can disturb it. `KeyUnlessFault` says when
counterexample 4 cannot happen: until the first failure.

**ClusterLifeProofs.** `LifeRefinement`: each step of `ControlPlane` is a step
of `ClusterLife` or stutters. Most steps do not touch what is known of the KCP
(`KCPFrame`); for the others the invariant above does not do. `Stage` depends on
what the cache and Reconcile *believe*, so `LifeInv` adds that a reconciliation
stays on the path its copy called for (`PathChosen`), that whoever saw a
deletion was right and the cache knows the KCP (`DeletionSeen`), that the cache
is behind only where the copy is stale (`CopyCurrent`), that an acceptable copy
knows of a finalizer (`FinalizerKnown`: a save does not take it back), and that
a KCP that disappeared after its deletion left nothing and nobody who would
build (`GoneClean`). `GoneForGood` follows from the refinement: stages from
`held` on lead to `gone` only. `LifePromise` is what `ClusterLife` guarantees of
itself, and so to whoever relies on it. `ProtectionKeeps` needs `PathChosen`
(who destroys has a copy that saw the deletion unprotected) and what setting
protection leaves alone (`ProtectionWritten`).

**KopsSecretsProofs.** `NothingForgotten` is about a save too. `DroppedIsGone`
says that what an acceptable copy no longer lists is out of the store and not
about to be put back; `LoopInv` says what the loops visit, `CacheFresh` where
the copy came from. `ListedWhenStored` (`NothingInvented`) needs that a name
enters a copy's list only after its value is in the store (`AddedIsThere`).
`UnlistedStays` follows from `LoopInv`: the deletion loop visits what an
acceptable copy still lists.

**PluginCacheProofs.** `InitDelivers` spans an init whose providers are
installed one by one. The invariant says that the lock's holder is the only one
between `init` and the unlock (`OneInTurn`), that what it is downloading is
still on its list, and that what it has installed in this attempt is good:
cleaning starts a new attempt, and so a new list. `AwsNotOverwritten` and
`LostOnlyToCleaning` are step properties from the same invariant; the first
needs that once the shared lock file has `aws`, so has the lock file of whoever
is in turn, unless its log says otherwise (`LockFilesHaveAws`).

**ReconcileLoopProofs.** `NeverForgotten` is about an event that a filter drops
(`KeyIsKept`). `CacheInv` says that versions of one generation have one class,
so a dropped update changes nothing that matters to the class, and that an
informer that is not behind has the latest version; `CopyInv` that what
Reconcile writes back is based on the latest version; `ResultInv` that past the
early returns every result requeues. `KeptIfNeverPaused` is the case in which
1189 loses nothing: then an event that passes all filters is under way.
`GenBound` counts two generations an edit, its own and one to set the addon that
it took off; `OneOwnGeneration` says that the controller makes no other: its
save raises the generation only where it sets the addon. `EditsAreKept` follows
from `CopyInv`, and from `DestroyInv` where a save ends the object.
`NeverBackwards` says that terraform never applies an older generation over a
newer one, with a lagging informer and across crashes: generations only grow
(`GenerationsGrow`), and what was applied is never ahead of the informer or of a
reconciliation under way (`OrderInv`). `CleanedBeforeDestroy` says when
counterexample 6 cannot happen: with cleanup, until the first failure or crash
(`DirectoryInv`).

Only model-checked: liveness (`Finishes`, `DeletionCompletes`,
`PoolDeletionCompletes`, `InstanceGroupsConverge`, `EntriesConverge`,
`RemovalsConverge`, `ListingHeals`, `CallsReturn`, `AwsHeals`, `EveryoneRuns`,
and the convergence properties of `ReconcileLoop`), which is out of the
prover's reach.

## Not modelled

- The other conditions and the consecutive-errors metric: written along the way
  and read by nothing in the operator. Of the provider ID lists and labels of
  pools only the events of their saves are modelled.
- Two controller classes at work on one cluster after a hand-over: the old
  controller finishes what it began, and terraform's backend has no state lock
  (`templates/backend.tf.tpl`). This needs a model of the backend.
- The choice of control planes in a dry run and its exit code: one filter and
  one return (`main.go` 233-266).
- Pure functions of one object (service cluster IP range, eviction thresholds,
  label merge, evaluation of a validation): their table-driven tests cover them.
- Rendering of templates and HCL, certificates and kubeconfig contents, AMI
  lookup, generated deep copies, flags and probes of `main.go`, test fixtures in
  `pkg/helpers`. They hold no state between steps.

Worth doing next: the hand-over between two controllers.
