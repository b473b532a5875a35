---------------------------- MODULE ReconcileLoop ----------------------------
(***************************************************************************)
(* What makes a control plane reconciled again, and what the               *)
(* reconciliations of one control plane leave to each other.               *)
(*                                                                         *)
(* A key comes into the work queue by an event that passes the filters of  *)
(* SetupWithManager, or when the time that the last result named is over.  *)
(* The filters keep back updates without a new generation, and whatever    *)
(* happens to an object that has the paused annotation itself.             *)
(* Most of what Reconcile reads changes without such an event: the Cluster *)
(* and its pause, annotations, the health of the cluster.  From one        *)
(* reconciliation to the next go the control plane's saved spec, where     *)
(* Karpenter's addon is set too late for the present one, its status, and  *)
(* the directory of terraform's files.                                     *)
(*                                                                         *)
(* Finalizers, and what fails within a reconciliation, are in              *)
(* ControlPlane.tla; here a reconciliation has fewer, longer steps, and of *)
(* the pools there are only Karpenter and the events.                      *)
(***************************************************************************)
EXTENDS Naturals

CONSTANTS
  Cleanup,    \* cleanupTerraformDirectory
  MaxEdits,   \* bound on what users and the cluster do
  MaxFaults   \* bound on failures and crashes

ASSUME ConstantsAssumption ==
  Cleanup \in BOOLEAN /\ MaxEdits \in Nat /\ MaxFaults \in Nat

VARIABLES
  kcp,        \* the KopsControlPlane in the API server,
  cache,      \* in the informer
  mem,        \* and in Reconcile
  behind,     \* the informer has not seen the latest version
  stale,      \* nor has Reconcile's copy
  paused,     \* the Cluster's pause annotation
  karpenter,  \* a pool has Karpenter node pools
  poolEvent,  \* the informer has not seen the latest change of a pool
  healthy,    \* the cluster would pass a validation
  dirty,      \* the key is to be processed
  timer,      \* and will be, when a requeue is due
  missed,     \* the annotation alone has kept it out of the queue
  pc,         \* what Reconcile does next
  again,      \* its result has a time to requeue after, or an error
  spec,       \* generation and addon that kopsCluster was made from
  files,      \* in the terraform directory
  applied,    \* generation and addon that terraform applied last
  manifest,   \* the manifest of Karpenter's resources is in the bucket
  edits, faults

world == <<paused, karpenter, healthy, edits>>
api == <<kcp, behind, stale>>
queue == <<dirty, timer, missed>>
copies == <<mem, pc, again, spec>>
cloud == <<applied, manifest>>
vars == <<api, cache, world, poolEvent, queue, copies, files, cloud, faults>>

\* A generation for each edit, and one to set the addon that it took off.
Generations == 0 .. 2 * MaxEdits + 2

ControlPlane ==
  [phase : {"absent", "live", "deleting"}, gen : Generations, ours : BOOLEAN,
   protected : BOOLEAN, muted : BOOLEAN,  \* annotations, the latter its own pause
   addon : BOOLEAN, ready : BOOLEAN, paused : BOOLEAN]

Version(phase, gen, protected, muted) ==
  [phase |-> phase, gen |-> gen, ours |-> TRUE, protected |-> protected, muted |-> muted,
   addon |-> FALSE, ready |-> FALSE, paused |-> FALSE]
Absent == Version("absent", 0, FALSE, FALSE)

Spec0 == [gen |-> 0, addon |-> FALSE]
Specs == [gen : Generations, addon : BOOLEAN]

\* Backend and data are in every configuration and leave no trace.
Files == {"kubernetes.tf", "karpenter.tf", "provider.tf"}

Busy == {"reconcile", "apply", "validate", "destroy", "save", "status", "clean"}

\* A control plane that users have made, of a cluster that does not exist yet.
Init ==
  /\ \E protected, muted \in BOOLEAN : kcp = Version("live", 1, protected, muted)
  /\ cache = Absent /\ behind = TRUE
  /\ mem = Absent /\ stale = FALSE
  /\ paused \in BOOLEAN /\ karpenter \in BOOLEAN /\ healthy = FALSE
  /\ poolEvent = FALSE
  /\ dirty = FALSE /\ timer = FALSE /\ missed = FALSE
  /\ pc = "idle" /\ again = FALSE /\ spec = Spec0
  /\ files = {}
  /\ applied = Spec0 /\ manifest = FALSE
  /\ edits = 0 /\ faults = 0

-----------------------------------------------------------------------------
(***************************************************************************)
(* What happens around the controller.                                     *)
(***************************************************************************)
Edits == edits < MaxEdits /\ edits' = edits + 1
Fault == faults < MaxFaults /\ faults' = faults + 1

Writes(k) ==
  /\ kcp' = k
  /\ behind' = TRUE
  /\ stale' = (pc # "idle")

\* A new spec, with or without the addon that the controller has set, or the
\* hand-over to or from another controller.
EditSpec ==
  /\ kcp.phase = "live"
  /\ Edits
  /\ \E ours \in BOOLEAN, addon \in {kcp.addon, FALSE} :
       Writes([kcp EXCEPT !.gen = @ + 1, !.ours = ours, !.addon = addon])
  /\ UNCHANGED <<cache, paused, karpenter, healthy, poolEvent, queue, copies, files, cloud, faults>>

\* A finalizer is there.  The API server makes a new generation.
Delete ==
  /\ kcp.phase = "live"
  /\ Edits
  /\ Writes([kcp EXCEPT !.phase = "deleting", !.gen = @ + 1])
  /\ UNCHANGED <<cache, paused, karpenter, healthy, poolEvent, queue, copies, files, cloud, faults>>

\* Protection or pause of the control plane itself: no new generation.
Annotate ==
  /\ kcp.phase # "absent"
  /\ Edits
  /\ \/ Writes([kcp EXCEPT !.protected = ~@])
     \/ Writes([kcp EXCEPT !.muted = ~@])
  /\ UNCHANGED <<cache, paused, karpenter, healthy, poolEvent, queue, copies, files, cloud, faults>>

\* The Cluster is paused or resumed, the cluster fails or recovers.
ChangeWorld ==
  /\ Edits
  /\ \/ paused' = ~paused /\ UNCHANGED healthy
     \/ healthy' = ~healthy /\ UNCHANGED paused
  /\ UNCHANGED <<api, cache, karpenter, poolEvent, queue, copies, files, cloud, faults>>

ChangePools ==
  /\ Edits
  /\ karpenter' = ~karpenter
  /\ poolEvent' = TRUE
  /\ UNCHANGED <<api, cache, paused, healthy, queue, copies, files, cloud, faults>>

-----------------------------------------------------------------------------
(***************************************************************************)
(* The manager: events, filters and the work queue.                        *)
(***************************************************************************)
\* A key that is being processed is processed once more afterwards.
Wakes == dirty' = TRUE /\ missed' = FALSE /\ UNCHANGED timer

\* The key is in the queue, or the controller will put it there itself.
Known == dirty \/ timer \/ pc # "idle"

\* GenerationChangedPredicate filters updates only; the class is the new one's.
News(old, new) ==
  /\ new.ours
  /\ old.phase = "absent" \/ new.phase = "absent" \/ new.gen # old.gen

Passes_EveryUpdate(old, new) == new.ours /\ ~new.muted

\* ResourceNotPaused reads the annotation of the new object.
Passes(old, new) == News(old, new) /\ ~new.muted

\* The watch delivers the latest version.
Deliver ==
  /\ behind
  /\ cache' = kcp /\ behind' = FALSE
  /\ \/ Passes(cache, kcp) /\ Wakes
     \/ /\ ~Passes(cache, kcp)
        /\ missed' = IF News(cache, kcp) THEN ~Known ELSE missed
        /\ UNCHANGED <<dirty, timer>>
  /\ UNCHANGED <<kcp, stale, world, poolEvent, copies, files, cloud, faults>>

\* kopsMachinePoolToInfrastructureMapFunc.  The pool's own annotation filters its
\* events too, and the reads may fail.
DeliverPool ==
  /\ poolEvent
  /\ poolEvent' = FALSE
  /\ \/ cache.phase # "absent" /\ cache.ours /\ Wakes
     \/ UNCHANGED queue
  /\ UNCHANGED <<api, cache, world, copies, files, cloud, faults>>

TimerFires ==
  /\ timer
  /\ timer' = FALSE /\ dirty' = TRUE
  /\ UNCHANGED <<missed, api, cache, world, poolEvent, copies, files, cloud, faults>>

-----------------------------------------------------------------------------
(***************************************************************************)
(* Reconcile.                                                              *)
(***************************************************************************)
\* The result is known and the deferred function runs.
Returns == pc' = "save" /\ again' = TRUE

\* Reconcile returns before the deferred function is there.
ReturnsEarly(requeues) ==
  /\ timer' = (timer \/ requeues)
  /\ UNCHANGED <<mem, stale, pc, again, spec>>

ShouldDelete(k) == k.phase = "deleting" /\ ~k.protected

StartsOn_KeepsPaused(k, to) ==
  /\ mem' = [k EXCEPT !.ready = FALSE]
  /\ spec' = [gen |-> k.gen, addon |-> k.addon]
  /\ pc' = to
  /\ UNCHANGED again

StartsOn(k, to) ==
  /\ mem' = [k EXCEPT !.paused = FALSE, !.ready = FALSE]
  /\ spec' = [gen |-> k.gen, addon |-> k.addon]
  /\ pc' = to
  /\ UNCHANGED again

PausedReturn_NotRequeued ==
  /\ paused
  /\ mem' = [cache EXCEPT !.paused = TRUE]
  /\ pc' = "save" /\ again' = FALSE
  /\ UNCHANGED <<spec, faults>>

\* The status that is saved tells of the pause, and keeps what it had else.
PausedReturn ==
  /\ paused
  /\ mem' = [cache EXCEPT !.paused = TRUE]
  /\ Returns
  /\ UNCHANGED <<spec, faults>>

\* The credentials or the service range cannot be had: the status is saved.
StartFails ==
  /\ ~paused
  /\ Fault
  /\ mem' = [cache EXCEPT !.paused = FALSE, !.ready = FALSE]
  /\ Returns
  /\ UNCHANGED spec

\* What the queue gives out is read from the informer: a control plane that is
\* gone, is another controller's, has no Cluster to be read, or is paused.
\* kopsCluster is made of the spec as it is read.
Start ==
  /\ pc = "idle" /\ dirty
  /\ dirty' = FALSE
  /\ \/ /\ cache.phase = "absent"
        /\ ReturnsEarly(TRUE)
        /\ UNCHANGED faults
     \/ /\ cache.phase # "absent" /\ ~cache.ours
        /\ ReturnsEarly(FALSE)
        /\ UNCHANGED faults
     \/ /\ cache.phase # "absent" /\ cache.ours
        /\ Fault
        /\ ReturnsEarly(TRUE)
     \/ /\ cache.phase # "absent" /\ cache.ours
        /\ \/ PausedReturn
           \/ StartFails
           \/ /\ ~paused
              /\ StartsOn(cache, IF ShouldDelete(cache) THEN "destroy" ELSE "reconcile")
              /\ UNCHANGED faults
        /\ stale' = behind
        /\ UNCHANGED timer
  /\ UNCHANGED <<kcp, cache, behind, world, poolEvent, missed, files, cloud>>

Generated == {"kubernetes.tf"} \union (IF karpenter THEN {"karpenter.tf"} ELSE {})

Generate_AddonNotSaved ==
  /\ pc = "reconcile"
  /\ \/ files' = files \union Generated /\ pc' = "apply" /\ UNCHANGED <<again, faults>>
     \/ Fault /\ Returns /\ UNCHANGED files
  /\ UNCHANGED <<api, cache, world, poolEvent, queue, mem, spec, cloud>>

\* The pools are listed and the addon is set in the copy, not in kopsCluster.
\* State and files are generated, up to a failure, over the files that are
\* there.
Generate ==
  /\ pc = "reconcile"
  /\ mem' = [mem EXCEPT !.addon = @ \/ karpenter]
  /\ \/ files' = files \union Generated /\ pc' = "apply" /\ UNCHANGED <<again, faults>>
     \/ /\ Fault
        /\ Returns
        /\ \E done \in {{}, {"kubernetes.tf"}} : files' = files \union done
  /\ UNCHANGED <<api, cache, world, poolEvent, queue, spec, cloud>>

\* Terraform refuses the provider blocks of kubernetes.tf and provider.tf.
Duplicate == {"kubernetes.tf", "provider.tf"} \subseteq files

\* ApplyTerraform makes the bucket what the files say.
Apply ==
  /\ pc = "apply"
  /\ \/ /\ ~Duplicate
        /\ applied' = spec
        /\ manifest' = ("karpenter.tf" \in files)
        /\ pc' = "validate"
        /\ UNCHANGED <<again, faults>>
     \/ Duplicate /\ Returns /\ UNCHANGED <<cloud, faults>>
     \/ Fault /\ Returns /\ UNCHANGED cloud
  /\ UNCHANGED <<api, cache, world, poolEvent, queue, mem, spec, files>>

Validate_RequeuedIfUnready ==
  /\ pc = "validate"
  /\ \/ mem' = [mem EXCEPT !.ready = healthy] /\ UNCHANGED faults
     \/ Fault /\ UNCHANGED mem
  /\ pc' = "save"
  /\ again' = ~mem'.ready
  /\ UNCHANGED <<api, cache, world, poolEvent, queue, spec, files, cloud>>

\* The autoscaling groups and the cluster are looked at; without them or with
\* an error the control plane stays unready.
Validate ==
  /\ pc = "validate"
  /\ \/ mem' = [mem EXCEPT !.ready = healthy] /\ UNCHANGED faults
     \/ Fault /\ UNCHANGED mem
  /\ Returns
  /\ UNCHANGED <<api, cache, world, poolEvent, queue, spec, files, cloud>>

\* The deletion path writes the provider blocks, destroys and deletes, and
\* takes the finalizer from the copy, whose save is the end of the object.
Destroy ==
  /\ pc = "destroy"
  /\ \/ /\ ~("kubernetes.tf" \in files)
        /\ files' = files \union {"provider.tf"}
        /\ applied' = Spec0 /\ manifest' = FALSE
        /\ mem' = [mem EXCEPT !.phase = "absent"]
        /\ UNCHANGED faults
     \/ /\ "kubernetes.tf" \in files
        /\ files' = files \union {"provider.tf"}
        /\ UNCHANGED <<mem, cloud, faults>>
     \/ /\ Fault
        /\ \E done \in {{}, {"provider.tf"}} : files' = files \union done
        /\ UNCHANGED <<mem, cloud>>
  /\ Returns
  /\ UNCHANGED <<api, cache, world, poolEvent, queue, spec>>

Updated_AlwaysNew == [mem EXCEPT !.ready = kcp.ready, !.paused = kcp.paused, !.gen = @ + 1]

\* The whole copy but its status goes back; a spec that differs is a new
\* generation.
Updated ==
  [mem EXCEPT !.ready = kcp.ready, !.paused = kcp.paused,
              !.gen = IF mem.addon = kcp.addon THEN @ ELSE @ + 1]

\* Each pool is written back before, with the provider IDs as AWS listed them,
\* the label of its name, and without the finalizer if it goes: there may be a
\* new generation, or an end, and an event of it.
SavePools == poolEvent' \in {poolEvent, poolEvent \/ spec # Spec0}

Save_Overwrites ==
  /\ pc = "save"
  /\ SavePools
  /\ \/ kcp' = Updated /\ behind' = TRUE /\ UNCHANGED <<mem, faults>>
     \/ Fault /\ UNCHANGED <<kcp, behind, mem>>
  /\ pc' = "status"
  /\ UNCHANGED <<stale, cache, world, queue, again, spec, files, cloud>>

\* The update is refused if the copy is stale, or fails, as an event only.
Save ==
  /\ pc = "save"
  /\ SavePools
  /\ \/ /\ ~stale
        /\ kcp' = Updated
        /\ behind' = TRUE
        /\ mem' = [Updated EXCEPT !.ready = mem.ready, !.paused = mem.paused]
        /\ UNCHANGED faults
     \/ stale /\ UNCHANGED <<kcp, behind, mem, faults>>
     \/ Fault /\ UNCHANGED <<kcp, behind, mem>>
  /\ pc' = "status"
  /\ UNCHANGED <<stale, cache, world, queue, again, spec, files, cloud>>

\* The status follows, unless the control plane is being deleted.
SaveStatus ==
  /\ pc = "status"
  /\ \/ /\ mem.phase = "live" /\ ~stale
        /\ kcp' = [kcp EXCEPT !.ready = mem.ready, !.paused = mem.paused]
        /\ behind' = TRUE
        /\ UNCHANGED faults
     \/ /\ mem.phase # "live" \/ stale
        /\ UNCHANGED <<kcp, behind, faults>>
     \/ Fault /\ UNCHANGED <<kcp, behind>>
  /\ pc' = "clean"
  /\ UNCHANGED <<stale, cache, world, poolEvent, queue, mem, again, spec, files, cloud>>

Forgets == mem' = Absent /\ stale' = FALSE /\ pc' = "idle" /\ again' = FALSE /\ spec' = Spec0

Clean_OnSuccessOnly ==
  /\ pc = "clean"
  /\ files' = IF Cleanup /\ mem.ready THEN {} ELSE files
  /\ timer' = (timer \/ again)
  /\ Forgets
  /\ UNCHANGED <<kcp, behind, cache, world, poolEvent, dirty, missed, cloud, faults>>

Clean_Never ==
  /\ pc = "clean"
  /\ timer' = (timer \/ again)
  /\ Forgets
  /\ UNCHANGED <<files, kcp, behind, cache, world, poolEvent, dirty, missed, cloud, faults>>

\* CleanupTerraformDirectory, and the queue gets the result.
Clean ==
  /\ pc = "clean"
  /\ files' = IF Cleanup THEN {} ELSE files
  /\ timer' = (timer \/ again)
  /\ Forgets
  /\ UNCHANGED <<kcp, behind, cache, world, poolEvent, dirty, missed, cloud, faults>>

\* The queue and the informers are gone.  The new process lists everything; it
\* finds the directory if its container is the old one.
Crash ==
  /\ Fault
  /\ cache' = Absent /\ behind' = (kcp.phase # "absent")
  /\ poolEvent' \in BOOLEAN
  /\ dirty' = FALSE /\ timer' = FALSE /\ missed' = FALSE
  /\ Forgets
  /\ files' \in {files, {}}
  /\ UNCHANGED <<kcp, world, cloud>>

Environment ==
  \/ EditSpec
  \/ Delete
  \/ Annotate
  \/ ChangeWorld
  \/ ChangePools
  \/ Crash

Reconcile ==
  \/ Start
  \/ Generate
  \/ Apply
  \/ Validate
  \/ Destroy
  \/ Save
  \/ SaveStatus
  \/ Clean

Next == Environment \/ Reconcile \/ Deliver \/ DeliverPool \/ TimerFires

Spec == Init /\ [][Next]_vars

\* Workers take what is in the queue, calls return, timers fire and the watch
\* delivers.
Fairness == WF_vars(Reconcile) /\ WF_vars(Deliver) /\ WF_vars(DeliverPool) /\ WF_vars(TimerFires)

FairSpec == Spec /\ Fairness

-----------------------------------------------------------------------------
(***************************************************************************)
(* Properties.                                                             *)
(***************************************************************************)
\* Type invariant.
TypeOK ==
  /\ kcp \in ControlPlane /\ cache \in ControlPlane /\ mem \in ControlPlane
  /\ behind \in BOOLEAN /\ stale \in BOOLEAN
  /\ paused \in BOOLEAN /\ karpenter \in BOOLEAN /\ healthy \in BOOLEAN
  /\ poolEvent \in BOOLEAN
  /\ dirty \in BOOLEAN /\ timer \in BOOLEAN /\ missed \in BOOLEAN
  /\ pc \in Busy \union {"idle"}
  /\ again \in BOOLEAN
  /\ spec \in Specs /\ applied \in Specs
  /\ files \subseteq Files
  /\ manifest \in BOOLEAN
  /\ edits \in 0 .. MaxEdits /\ faults \in 0 .. MaxFaults

\* The controller loses sight of a control plane of its class only by the filter
\* of ResourceNotPaused (1189).  Else it is in the queue or will be, by its
\* present reconciliation, a requeue that is due, or an event under way.
NeverForgotten ==
  kcp.phase # "absent" /\ kcp.ours => Known \/ missed \/ (behind /\ News(cache, kcp))

\* The deferred function (665-677) writes the whole object back, minutes after it
\* was read.  What users wrote in the meantime is not undone: class, annotations
\* and deletion stay what they made them, and the object ends only while its
\* latest version is an unprotected deletion.
EditsKept ==
  [][edits' = edits =>
       /\ kcp'.ours = kcp.ours /\ kcp'.protected = kcp.protected /\ kcp'.muted = kcp.muted
       /\ kcp'.phase = kcp.phase \/ (ShouldDelete(kcp) /\ kcp'.phase = "absent")]_vars

\* No reconciliation is due: the control plane is another controller's, or the
\* filter of 1189 has lost it, for which no doc has a word.
Unseen == ~kcp.ours \/ missed

\* No doc asks for anything while the Cluster is paused, and a deletion takes
\* over otherwise.
Suspended == Unseen \/ kcp.phase # "live" \/ paused

\* When users leave it alone, the control plane's spec gets to terraform, and
\* with it the addon of a pool that wants Karpenter, although it is set too late,
\* users may take it off, and no event tells of a Cluster that is resumed.
SpecConverges ==
  <>[](Suspended \/ (applied = [gen |-> kcp.gen, addon |-> kcp.addon] /\ (karpenter => kcp.addon)))

\* Karpenter's manifest is in the bucket if and only if a pool wants it.
ManifestConverges == <>[](Suspended \/ (manifest <=> karpenter))

\* Ready tells of the cluster's health, which changes without an event, and is
\* not left by a reconciliation that failed.
ReadyConverges == <>[](Suspended \/ (kcp.ready <=> healthy))

\* Paused tells of the Cluster's pause, which changes without an event.
PausedConverges == <>[](Unseen \/ kcp.phase # "live" \/ (kcp.paused <=> paused))

\* A deletion is carried out, also if its protection is given up afterwards, of
\* which no event tells, and whatever files earlier reconciliations left.
DeletionCarriedOut == <>[](kcp.phase = "deleting" => Unseen \/ kcp.protected \/ paused)

\* kopscontrolplane_controller.go:1190, "ensure that we don't process a
\* KopsControlPlane because of Status updates": unless the pools' saves go on
\* changing them, what the controller saves itself ceases to pass the filters.
Settles == <>[]~poolEvent => <>[](behind => ~Passes(cache, kcp))

\* kopscontrolplane_controller.go:742, "this is normally created, but when
\* deleting we don't create the kops resources files": terraform destroy finds
\* no other file with the blocks of provider.tf.
NoKopsFilesOnDestroy == pc = "destroy" => "kubernetes.tf" \notin files
=============================================================================
