---------------------------- MODULE KopsSession ----------------------------
(***************************************************************************)
(* The reconciler's workers and the process-wide state of the kops         *)
(* libraries.                                                              *)
(*                                                                         *)
(* Every worker goroutine runs KopsControlPlaneReconciler.Reconcile for a  *)
(* control plane of its own.  On the way it overwrites state that belongs  *)
(* to the whole process: the AWS_* environment variables, the global       *)
(* vfs.Context, the kops feature flags and the table of AWS cloud          *)
(* instances.  The reconciler's Mux is what keeps one control plane's      *)
(* credentials and flags out of another one's kops clientset and cloud     *)
(* handle, which are then used after the unlock as well.                   *)
(*                                                                         *)
(* One action is one call that reads or writes that state.  Reads of the   *)
(* API server, terraform and the kops state store appear here only as      *)
(* calls that may fail; ControlPlane.tla models what they do.              *)
(***************************************************************************)
EXTENDS FiniteSets

CONSTANTS
  Workers,        \* MaxConcurrentReconciles worker goroutines
  KCPs,           \* KopsControlPlanes of the controller's class
  NoKCP,
  NoWorker,
  SpotinstKCPs,   \* those with spec.spotInst.enabled
  FeatureFlags,   \* control plane -> flags its spec.spotInst.featureFlags names
  KarpenterKCPs   \* those with spec.kopsClusterSpec.karpenter.enabled

\* What the normal path switches off before it switches on: "-Karpenter" and
\* the list of ParseSpotinstFeatureflags, of which SpotinstOcean stands for its
\* other members.  SpotinstOceanTemplate stands for the kops flags not in it.
Reset == {"Spotinst", "SpotinstOcean"}
Parsed == Reset \union {"Karpenter"}
Flags == Parsed \union {"SpotinstOceanTemplate"}

ASSUME SentinelsAssumption == NoKCP \notin KCPs /\ NoWorker \notin Workers
ASSUME FeatureFlagsAssumption ==
  /\ SpotinstKCPs \subseteq KCPs
  /\ FeatureFlags \in [KCPs -> SUBSET (Flags \ {"Karpenter"})]

VARIABLES
  dryRun,        \* the process was started with --dry-run
  pc,            \* worker -> the call of Reconcile it makes next
  job,           \* worker -> the control plane it reconciles
  deleting,      \* worker -> shouldDeleteCluster held for it
  shouldUnlock,  \* worker -> Reconcile's local variable
  mux,           \* the holder of the reconciler's Mux
  env,           \* AWS_ACCESS_KEY_ID and AWS_SECRET_ACCESS_KEY
  vfs,           \* the worker whose NewVFSContext is the global vfs.Context
  bound,         \* worker -> credentials its VFS context resolved
  flags,         \* the enabled kops feature flags
  instances,     \* awsup's table of cloud instances: the cached cloud or none
  context,       \* worker -> the VFS context its kops clientset uses
  cloud          \* worker -> the cloud handle it holds

globals == <<mux, env, vfs, bound, flags, instances>>
locals == <<pc, job, deleting, shouldUnlock, context, cloud>>
vars == <<dryRun, globals, locals>>

Unset == [id |-> NoKCP, secret |-> NoKCP]
Own(k) == [id |-> k, secret |-> k]
Credentials == [id : KCPs \union {NoKCP}, secret : KCPs \union {NoKCP}]

Clouds == [credentials : Credentials, flags : SUBSET Flags]
NoCloud == [credentials |-> Unset, flags |-> {}]

KarpenterFlags(k) == IF k \in KarpenterKCPs THEN {"Karpenter"} ELSE {}
SpotinstFlags(k) == IF k \in SpotinstKCPs THEN {"Spotinst"} \union FeatureFlags[k] ELSE {}
FlagsOf(k) == KarpenterFlags(k) \union SpotinstFlags(k)

\* Calls made with the Mux held, and those made after it was released.
Locked == {"list", "clientset", "keyId", "secretKey", "pools", "flags",
           "cloud", "state", "kubeconfig", "plan", "kopsDelete"}
Unlocked == {"apply", "validate", "owners"}
PCs == Locked \union Unlocked \union {"idle", "destroy", "lock", "return", "save"}

Init ==
  /\ dryRun \in BOOLEAN
  /\ pc = [w \in Workers |-> "idle"]
  /\ job = [w \in Workers |-> NoKCP]
  /\ deleting = [w \in Workers |-> FALSE]
  /\ shouldUnlock = [w \in Workers |-> FALSE]
  /\ mux = NoWorker
  /\ env = Unset
  /\ vfs = NoWorker
  /\ bound = [w \in Workers |-> Unset]
  /\ flags = {}
  /\ instances = NoCloud
  /\ context = [w \in Workers |-> NoWorker]
  /\ cloud = [w \in Workers |-> NoCloud]

-----------------------------------------------------------------------------
Goes(w, from, to) ==
  /\ pc[w] = from
  /\ pc' = [pc EXCEPT ![w] = to]
  /\ UNCHANGED dryRun

\* A call that returns to its caller's next call, or fails and makes
\* Reconcile return.
Calls(w, from, to) == Goes(w, from, to) \/ Goes(w, from, "return")

\* The workqueue never hands one key to two workers.  Before the lock the
\* handler reads the control plane, its owner and the AWS secret, and decides
\* between deletion, the normal path and an early return.  Dry runs are made
\* one after the other by main, in a loop of its own (which it leaves at the
\* first error: to stop there is among the behaviours).
Begin(w, k) ==
  /\ \A v \in Workers : job[v] # k
  /\ dryRun => \A v \in Workers : job[v] = NoKCP
  /\ \/ /\ Goes(w, "idle", "destroy")
        /\ ~dryRun
        /\ deleting' = [deleting EXCEPT ![w] = TRUE]
     \/ /\ Goes(w, "idle", "lock") \/ Goes(w, "idle", "return")
        /\ deleting' = [deleting EXCEPT ![w] = FALSE]
  /\ job' = [job EXCEPT ![w] = k]
  /\ UNCHANGED <<globals, shouldUnlock, context, cloud>>

\* Terraform destroy runs before the lock, on credentials passed explicitly.
Destroy(w) ==
  /\ Calls(w, "destroy", "lock")
  /\ UNCHANGED <<globals, job, deleting, shouldUnlock, context, cloud>>

Lock_NormalPathOnly(w) ==
  /\ Goes(w, "lock", IF deleting[w] THEN "clientset" ELSE "list")
  /\ IF deleting[w]
     THEN UNCHANGED <<mux, shouldUnlock>>
     ELSE /\ mux = NoWorker
          /\ mux' = w
          /\ shouldUnlock' = [shouldUnlock EXCEPT ![w] = TRUE]
  /\ UNCHANGED <<env, vfs, bound, flags, instances, job, deleting, context, cloud>>

\* Mux.Lock.
Lock(w) ==
  /\ mux = NoWorker
  /\ Goes(w, "lock", IF deleting[w] THEN "clientset" ELSE "list")
  /\ mux' = w
  /\ shouldUnlock' = [shouldUnlock EXCEPT ![w] = TRUE]
  /\ UNCHANGED <<env, vfs, bound, flags, instances, job, deleting, context, cloud>>

ListPools(w) ==
  /\ Calls(w, "list", "clientset")
  /\ UNCHANGED <<globals, job, deleting, shouldUnlock, context, cloud>>

GetKopsClientset_SharedContext(w) ==
  LET c == IF vfs = NoWorker THEN w ELSE vfs IN
  /\ Calls(w, "clientset", "keyId")
  /\ vfs' = c
  /\ context' = [context EXCEPT ![w] = c]
  /\ UNCHANGED <<mux, env, bound, flags, instances, job, deleting, shouldUnlock, cloud>>

\* A new VFS context resolves no credentials until it is used.
GetKopsClientset(w) ==
  /\ Calls(w, "clientset", "keyId")
  /\ vfs' = w
  /\ bound' = [bound EXCEPT ![w] = Unset]
  /\ context' = [context EXCEPT ![w] = w]
  /\ UNCHANGED <<mux, env, flags, instances, job, deleting, shouldUnlock, cloud>>

\* SetEnvVarsFromAWSCredentials unsets both variables, then sets them in turn.
SetAccessKeyID(w) ==
  /\ Calls(w, "keyId", "secretKey")
  /\ env' = [id |-> job[w], secret |-> NoKCP]
  /\ UNCHANGED <<mux, vfs, bound, flags, instances, job, deleting, shouldUnlock,
                 context, cloud>>

SetSecretAccessKey_Dropped(w) ==
  /\ Calls(w, "secretKey", IF deleting[w] THEN "cloud" ELSE "pools")
  /\ UNCHANGED <<globals, job, deleting, shouldUnlock, context, cloud>>

SetSecretAccessKey(w) ==
  /\ Calls(w, "secretKey", IF deleting[w] THEN "cloud" ELSE "pools")
  /\ env' = [env EXCEPT !.secret = job[w]]
  /\ UNCHANGED <<mux, vfs, bound, flags, instances, job, deleting, shouldUnlock,
                 context, cloud>>

\* The first use of a VFS context resolves the environment's credentials.
Uses(w) ==
  bound' = IF bound[context[w]] = Unset
           THEN [bound EXCEPT ![context[w]] = env]
           ELSE bound

\* The loop over the machine pools, then the addons, in the kops state store.
ReconcilePoolsAndAddons(w) ==
  /\ Calls(w, "pools", "flags")
  /\ Uses(w)
  /\ UNCHANGED <<mux, env, vfs, flags, instances, job, deleting, shouldUnlock,
                 context, cloud>>

\* "-Karpenter" and then "Karpenter" for the control planes that want it.
KarpenterParsed(f, k) == (f \ {"Karpenter"}) \union KarpenterFlags(k)

\* "-Spotinst,..." and then, for the control planes that want it, "Spotinst" and
\* every flag of their own list, be it in the list that was switched off or not.
SpotinstParsed_NoReset(f, k) == f \union SpotinstFlags(k)
SpotinstParsed(f, k) == (f \ Reset) \union SpotinstFlags(k)

\* Without SPOTINST_TOKEN or SPOTINST_ACCOUNT the parse fails after the reset.
ParseFeatureFlags(w) ==
  /\ \/ /\ Goes(w, "flags", "cloud")
        /\ flags' = SpotinstParsed(KarpenterParsed(flags, job[w]), job[w])
     \/ /\ Goes(w, "flags", "return")
        /\ job[w] \in SpotinstKCPs
        /\ flags' = KarpenterParsed(flags, job[w]) \ Reset
  /\ UNCHANGED <<mux, env, vfs, bound, instances, job, deleting, shouldUnlock,
                 context, cloud>>

BuildCloud_NoReset(w) ==
  /\ instances' = IF instances = NoCloud
                  THEN [credentials |-> env, flags |-> flags]
                  ELSE instances
  /\ \/ /\ Goes(w, "cloud", IF deleting[w] THEN "kopsDelete" ELSE "state")
        /\ cloud' = [cloud EXCEPT ![w] = instances']
     \/ Goes(w, "cloud", "return") /\ UNCHANGED cloud
  /\ UNCHANGED <<mux, env, vfs, bound, flags, job, deleting, shouldUnlock, context>>

\* ResetAWSCloudInstances empties the table, then the cloud is built from the
\* environment and the feature flags of the moment and kept in the table.
BuildCloud(w) ==
  /\ \/ /\ Goes(w, "cloud", IF deleting[w] THEN "kopsDelete" ELSE "state")
        /\ instances' = [credentials |-> env, flags |-> flags]
        /\ cloud' = [cloud EXCEPT ![w] = instances']
     \/ /\ Goes(w, "cloud", "return")
        /\ instances' = NoCloud
        /\ UNCHANGED cloud
  /\ UNCHANGED <<mux, env, vfs, bound, flags, job, deleting, shouldUnlock, context>>

\* Spec population, kops state, secrets and the generation of terraform files.
ManageState(w) ==
  /\ Calls(w, "state", IF dryRun THEN "plan" ELSE "kubeconfig")
  /\ Uses(w)
  /\ UNCHANGED <<mux, env, vfs, flags, instances, job, deleting, shouldUnlock,
                 context, cloud>>

Unlocks(w) == mux' = NoWorker /\ shouldUnlock' = [shouldUnlock EXCEPT ![w] = FALSE]

\* A critical call: unlock and go on, or fail with the Mux still held.
UnlocksAfter(w, from, to) ==
  \/ Goes(w, from, to) /\ Unlocks(w)
  \/ Goes(w, from, "return") /\ UNCHANGED <<mux, shouldUnlock>>

ReconcileKubeconfig_EarlyUnlock(w) ==
  /\ Goes(w, "kubeconfig", "apply") \/ Goes(w, "kubeconfig", "return")
  /\ mux' = NoWorker
  /\ UNCHANGED <<env, vfs, bound, flags, instances, job, deleting, shouldUnlock,
                 context, cloud>>

ReconcileKubeconfig(w) ==
  /\ UnlocksAfter(w, "kubeconfig", "apply")
  /\ UNCHANGED <<env, vfs, bound, flags, instances, job, deleting, context, cloud>>

\* In dry-run mode the lock covers terraform plan.
Plan(w) ==
  /\ UnlocksAfter(w, "plan", "return")
  /\ UNCHANGED <<env, vfs, bound, flags, instances, job, deleting, context, cloud>>

\* KopsDeleteResources runs inside the lock, on the handle and the clientset.
KopsDelete(w) ==
  /\ UnlocksAfter(w, "kopsDelete", "owners")
  /\ Uses(w)
  /\ UNCHANGED <<env, vfs, flags, instances, job, deleting, context, cloud>>

Apply(w) ==
  /\ Calls(w, "apply", "validate")
  /\ UNCHANGED <<globals, job, deleting, shouldUnlock, context, cloud>>

Validate_WaitsForHealth(w) ==
  /\ pc[w] = "validate"
  /\ UNCHANGED vars

\* After the unlock the clientset lists the instance groups and the cloud
\* handle validates the cluster.
Validate(w) ==
  /\ Goes(w, "validate", "return")
  /\ Uses(w)
  /\ UNCHANGED <<mux, env, vfs, flags, instances, job, deleting, shouldUnlock,
                 context, cloud>>

DeleteOwners(w) ==
  /\ Goes(w, "owners", "return")
  /\ UNCHANGED <<globals, job, deleting, shouldUnlock, context, cloud>>

\* The deferred function unlocks first when a failing call left the Mux held,
DeferredUnlock(w) ==
  /\ Goes(w, "return", "save")
  /\ IF shouldUnlock[w] THEN Unlocks(w) ELSE UNCHANGED <<mux, shouldUnlock>>
  /\ UNCHANGED <<env, vfs, bound, flags, instances, job, deleting, context, cloud>>

Save_KeepsHandles(w) ==
  /\ Goes(w, "save", "idle")
  /\ job' = [job EXCEPT ![w] = NoKCP]
  /\ deleting' = [deleting EXCEPT ![w] = FALSE]
  /\ UNCHANGED <<globals, shouldUnlock, context, cloud>>

\* and then saves the objects; the worker's locals are gone afterwards.
Save(w) ==
  /\ Goes(w, "save", "idle")
  /\ job' = [job EXCEPT ![w] = NoKCP]
  /\ deleting' = [deleting EXCEPT ![w] = FALSE]
  /\ context' = [context EXCEPT ![w] = NoWorker]
  /\ cloud' = [cloud EXCEPT ![w] = NoCloud]
  /\ UNCHANGED <<globals, shouldUnlock>>

Proceed(w) ==
  \/ Destroy(w)
  \/ ListPools(w)
  \/ GetKopsClientset(w)
  \/ SetAccessKeyID(w)
  \/ SetSecretAccessKey(w)
  \/ ReconcilePoolsAndAddons(w)
  \/ ParseFeatureFlags(w)
  \/ BuildCloud(w)
  \/ ManageState(w)
  \/ ReconcileKubeconfig(w)
  \/ Plan(w)
  \/ KopsDelete(w)
  \/ Apply(w)
  \/ Validate(w)
  \/ DeleteOwners(w)
  \/ DeferredUnlock(w)
  \/ Save(w)

Next ==
  \E w \in Workers :
    \/ \E k \in KCPs : Begin(w, k)
    \/ Lock(w)
    \/ Proceed(w)

Spec == Init /\ [][Next]_vars

\* Every call returns (terraform's retries are bounded, see the README), and
\* sync.Mutex in starvation mode hands over to the waiter at the queue's head.
Fairness == \A w \in Workers : WF_vars(Proceed(w)) /\ SF_vars(Lock(w))

FairSpec == Spec /\ Fairness
-----------------------------------------------------------------------------
(***************************************************************************)
(* Properties.                                                             *)
(***************************************************************************)
Typed ==
  /\ dryRun \in BOOLEAN
  /\ pc \in [Workers -> PCs]
  /\ job \in [Workers -> KCPs \union {NoKCP}]
  /\ deleting \in [Workers -> BOOLEAN]
  /\ shouldUnlock \in [Workers -> BOOLEAN]
  /\ mux \in Workers \union {NoWorker}
  /\ env \in Credentials
  /\ vfs \in Workers \union {NoWorker}
  /\ bound \in [Workers -> Credentials]
  /\ flags \in SUBSET Flags
  /\ instances \in Clouds
  /\ context \in [Workers -> Workers \union {NoWorker}]
  /\ cloud \in [Workers -> Clouds]

NothingHeldIdle ==
  \A w \in Workers :
    /\ pc[w] = "idle" => job[w] = NoKCP /\ context[w] = NoWorker /\ cloud[w] = NoCloud
    /\ pc[w] # "idle" => job[w] \in KCPs

\* Type invariant: the variables keep to their types, and what a worker holds
\* of a control plane lives exactly as long as its call of Reconcile.
TypeOK == Typed /\ NothingHeldIdle

\* Every call between Mux.Lock and Mux.Unlock is made by the worker that holds
\* the Mux.
MuxHeldInSection == \A w \in Workers : pc[w] \in Locked => mux = w

\* Reconcile's shouldUnlock tells the truth.
UnlockFlagAgrees == \A w \in Workers : shouldUnlock[w] <=> mux = w

\* No worker leaves Reconcile, whichever call failed, with the Mux held.
NoLeakedLock == \A w \in Workers : mux = w => pc[w] \in Locked \union {"return"}

\* The Mux, the control flow and shouldUnlock agree on every path: no two workers
\* are between Lock and Unlock, and the deferred function neither unlocks a Mux
\* its worker does not hold (a fatal error in Go) nor leaves one that it does.
MuxDiscipline == MuxHeldInSection /\ UnlockFlagAgrees /\ NoLeakedLock

\* The accounts that a worker's kops clientset and cloud handle act in.
AccountsOf(c) == {c.id, c.secret}
AccountsOpen(w) ==
  (IF context[w] = NoWorker \/ bound[context[w]] = Unset
   THEN {} ELSE AccountsOf(bound[context[w]]))
  \union (IF cloud[w] = NoCloud THEN {} ELSE AccountsOf(cloud[w].credentials))

\* A clientset or cloud handle acts with the complete credentials of the
\* control plane its worker reconciles, and goes on doing so after the unlock,
\* when other workers have overwritten the process-wide state.
SessionIsolated == \A w \in Workers : AccountsOpen(w) \subseteq {job[w]}

\* After the unlock nothing is left to be resolved from the environment, which
\* by then may hold another control plane's credentials.
NothingLateBound ==
  \A w \in Workers :
    pc[w] \in {"apply", "validate"} => bound[context[w]] = Own(job[w])

\* On the normal path the cloud is built, and the kops state managed, under
\* every feature flag the control plane asks for, and under no other one of
\* those that the parsing switches off first.  A flag outside of that list stays
\* on from any earlier cluster that named it.
OwnFlags ==
  \A w \in Workers :
    pc[w] \in {"state", "kubeconfig", "plan", "apply", "validate"} =>
      /\ FlagsOf(job[w]) \subseteq cloud[w].flags
      /\ cloud[w].flags \intersect Parsed \subseteq FlagsOf(job[w])

\* README.md:39, "Manages SpotInst resources when enabled": a cloud handle
\* talks to SpotInst exactly when its control plane enables it.
SpotinstWhenEnabled ==
  \A w \in Workers :
    cloud[w] # NoCloud => ("Spotinst" \in cloud[w].flags <=> job[w] \in SpotinstKCPs)

\* The process-wide environment, VFS context, feature flags and cloud table
\* change only at the hands of the worker that holds the Mux.
GlobalsWrittenInTurn ==
  [][<<env, vfs, flags, instances>>' # <<env, vfs, flags, instances>>
       => mux # NoWorker /\ mux' = mux /\ pc[mux] # pc'[mux]]_vars

\* Every reconciliation ends, whatever fails on the way: no worker waits for
\* the Mux for ever.
Finishes == \A w \in Workers : pc[w] # "idle" ~> pc[w] = "idle"

\* KopsSession implements AccountSession.
Abstract == INSTANCE AccountSession
  WITH serving <- job, turn <- mux, accounts <- [w \in Workers |-> AccountsOpen(w)]

\* Seen through its handles, the reconciler keeps AccountSession's promise.
ImplementsAccountSession == Abstract!Spec
=============================================================================
