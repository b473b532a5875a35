----------------------------- MODULE PluginCache -----------------------------
(***************************************************************************)
(* The terraform runs of several control planes over one plugin cache.     *)
(*                                                                         *)
(* A reconciliation ends in ApplyTerraform, PlanTerraform or               *)
(* DestroyTerraform, each of which runs terraform init and then terraform  *)
(* proper in the control plane's own directory.  The provider packages lie *)
(* in one cache that all directories link into.  Init runs under a file    *)
(* lock on the cache and repairs what an earlier one left broken; what     *)
(* follows runs outside it, and finds the cache as the others leave it.    *)
(* Where the repairs fail, init logs a warning and goes on.                *)
(*                                                                         *)
(* How terraform treats the cache is modelled as the code expects it: a    *)
(* cached package is linked if the directory's lock file has its checksums *)
(* and is downloaded over otherwise; one that does not match its checksums *)
(* is refused or downloaded anew, depending on the terraform in use        *)
(* (TERRAFORM_VERSION); and an executable that runs cannot be overwritten. *)
(***************************************************************************)
EXTENDS Naturals

CONSTANTS
  Clusters,    \* control planes, with a worker and a directory each
  Providers,
  Aws,         \* the provider that every cluster needs
  Needs,       \* cluster -> the providers its files require
  None,
  MaxRetries,  \* attempts at init and at the run proper
  MaxFaults    \* bound on failures and crashes

ASSUME NeedsAssumption ==
  /\ Aws \in Providers
  /\ Needs \in [Clusters -> SUBSET Providers]
  /\ \A c \in Clusters : Aws \in Needs[c]
  /\ None \notin Clusters \union Providers
ASSUME BoundsAssumption == MaxRetries \in Nat \ {0, 1} /\ MaxFaults \in Nat

VARIABLES
  flock,    \* the cluster whose init holds the lock on the cache
  cache,    \* provider -> its package in the cache
  shared,   \* providers with checksums in the lock file beside terraform
  lock,     \* cluster -> and in the lock file of its directory
  warned,   \* clusters whose log says that they did not get the shared one
  pc,       \* cluster -> what its worker does next
  todo,     \* cluster -> providers that this attempt at init has to install
  fetched,  \* cluster -> the providers it is downloading, one at most
  attempt,  \* cluster -> number of the attempt, of init or of the run
  cleaned,  \* cluster -> cleanedCache
  faults

locals == <<pc, todo, fetched, attempt, cleaned>>
disk == <<cache, shared, lock, warned>>
vars == <<flock, disk, locals, faults>>

\* A download in progress, and what a killed one leaves: files of no length,
\* or some of the content.
Packages == {"absent", "partial", "empty", "broken", "good"}

\* A lock file is the set of its providers, none if a failed write left it empty.
NoFile == {None}
LockFiles == (SUBSET Providers) \union {NoFile}

InTurn == {"init", "download", "done", "failed"}
PCs == InTurn \union {"idle", "wait", "run", "executing"}

Init ==
  /\ flock = None
  /\ cache = [p \in Providers |-> "absent"]
  /\ shared = NoFile
  /\ lock = [c \in Clusters |-> NoFile]
  /\ warned = {}
  /\ pc = [c \in Clusters |-> "idle"]
  /\ todo = [c \in Clusters |-> {}]
  /\ fetched = [c \in Clusters |-> {}]
  /\ attempt = [c \in Clusters |-> 1]
  /\ cleaned = [c \in Clusters |-> FALSE]
  /\ faults = 0

-----------------------------------------------------------------------------
Goes(c, from, to) == pc[c] = from /\ pc' = [pc EXCEPT ![c] = to]

Fault == faults < MaxFaults /\ faults' = faults + 1

Good(c) == \A p \in Needs[c] : cache[p] = "good"

\* Running executables of a package keep it from being overwritten.
Busy(p) == \E c \in Clusters : pc[c] = "executing" /\ p \in Needs[c]

\* A cached package is linked if the directory's lock file has its checksums.
Linkable(c, p) == cache[p] = "good" /\ p \in lock[c]

\* A reconciliation has generated its files and calls terraform.
Begin(c) ==
  /\ Goes(c, "idle", "wait")
  /\ UNCHANGED <<flock, disk, todo, fetched, attempt, cleaned, faults>>

\* The lock on the cache cannot be had: an error of the reconciliation.
LockFails(c) ==
  /\ Goes(c, "wait", "idle")
  /\ Fault
  /\ UNCHANGED <<flock, disk, todo, fetched, attempt, cleaned>>

\* copyFileIfMissing
Copied(from, to) == IF to = NoFile THEN from ELSE to

\* What it leaves when it fails.
Uncopied == {NoFile, {}}

Validated_AnySize == [p \in Providers |-> "absent"]

\* validatePluginCache removes packages whose executable is empty.
Validated == [p \in Providers |-> IF cache[p] = "empty" THEN "absent" ELSE cache[p]]

\* When it fails, it leaves some of them, or parts.
HalfValidated ==
  {[p \in Providers |-> IF cache[p] = "empty" THEN left[p] ELSE cache[p]] :
     left \in [Providers -> {"absent", "empty", "broken"}]}

StartsInit(c) ==
  /\ Goes(c, "wait", "init")
  /\ todo' = [todo EXCEPT ![c] = Needs[c]]
  /\ attempt' = [attempt EXCEPT ![c] = 1]
  /\ cleaned' = [cleaned EXCEPT ![c] = FALSE]
  /\ UNCHANGED fetched

LockPluginCache_Unguarded(c) ==
  /\ flock' = c
  /\ StartsInit(c)
  /\ cache' = Validated
  /\ lock' = [lock EXCEPT ![c] = Copied(shared, @)]
  /\ UNCHANGED <<shared, warned, faults>>

LockPluginCache_NoSharedLock(c) ==
  /\ flock = None
  /\ flock' = c
  /\ StartsInit(c)
  /\ cache' = Validated
  /\ UNCHANGED <<shared, lock, warned, faults>>

\* Having the lock, initTerraform validates the cache and takes the shared
\* lock file over into a directory that has none.  If either fails, it goes on.
LockPluginCache(c) ==
  /\ flock = None
  /\ flock' = c
  /\ StartsInit(c)
  /\ \/ /\ cache' = Validated
        /\ lock' = [lock EXCEPT ![c] = Copied(shared, @)]
        /\ UNCHANGED <<warned, faults>>
     \/ /\ Fault
        /\ cache' \in HalfValidated
        /\ lock' = [lock EXCEPT ![c] = Copied(shared, @)]
        /\ UNCHANGED warned
     \/ /\ Fault
        /\ lock[c] = NoFile /\ shared # NoFile
        /\ cache' = Validated
        /\ lock' \in {[lock EXCEPT ![c] = f] : f \in Uncopied}
        /\ warned' = warned \union {c}
  /\ UNCHANGED shared

-----------------------------------------------------------------------------
(***************************************************************************)
(* Attempts at terraform init.                                             *)
(***************************************************************************)
LinkFromCache(c, p) ==
  /\ Goes(c, "init", "init")
  /\ p \in todo[c]
  /\ Linkable(c, p)
  /\ todo' = [todo EXCEPT ![c] = @ \ {p}]
  /\ UNCHANGED <<flock, disk, fetched, attempt, cleaned, faults>>

Download(c, p) ==
  /\ Goes(c, "init", "download")
  /\ p \in todo[c]
  /\ ~Linkable(c, p)
  /\ ~Busy(p)
  /\ cache' = [cache EXCEPT ![p] = "partial"]
  /\ fetched' = [fetched EXCEPT ![c] = {p}]
  /\ UNCHANGED <<flock, shared, lock, warned, todo, attempt, cleaned, faults>>

Downloaded(c) ==
  /\ Goes(c, "download", "init")
  /\ cache' = [p \in Providers |-> IF p \in fetched[c] THEN "good" ELSE cache[p]]
  /\ todo' = [todo EXCEPT ![c] = @ \ fetched[c]]
  /\ fetched' = [fetched EXCEPT ![c] = {}]
  /\ UNCHANGED <<flock, shared, lock, warned, attempt, cleaned, faults>>

\* Any error of init that is not retriable.
InitFails(c) ==
  /\ Goes(c, "init", "failed")
  /\ Fault
  /\ UNCHANGED <<flock, disk, todo, fetched, attempt, cleaned>>

\* Terraform is killed, or the disk is full, in a download: no better.
DownloadKilled(c) ==
  /\ Goes(c, "download", "failed")
  /\ Fault
  /\ \E left \in {"empty", "broken"} :
       cache' = [p \in Providers |-> IF p \in fetched[c] THEN left ELSE cache[p]]
  /\ fetched' = [fetched EXCEPT ![c] = {}]
  /\ UNCHANGED <<flock, shared, lock, warned, todo, attempt, cleaned>>

Retries_OffByOne(c) ==
  IF attempt[c] <= MaxRetries
  THEN /\ Goes(c, "init", "init")
       /\ attempt' = [attempt EXCEPT ![c] = @ + 1]
       /\ todo' = [todo EXCEPT ![c] = Needs[c]]
  ELSE /\ Goes(c, "init", "failed")
       /\ UNCHANGED <<attempt, todo>>

\* The next attempt at init, or the end of the last one.
Retries(c) ==
  IF attempt[c] < MaxRetries
  THEN /\ Goes(c, "init", "init")
       /\ attempt' = [attempt EXCEPT ![c] = @ + 1]
       /\ todo' = [todo EXCEPT ![c] = Needs[c]]
  ELSE /\ Goes(c, "init", "failed")
       /\ UNCHANGED <<attempt, todo>>

\* "text file busy": the package is to be downloaded over one that runs.
TextFileBusy(c, p) ==
  /\ p \in todo[c]
  /\ ~Linkable(c, p)
  /\ Busy(p)
  /\ Retries(c)
  /\ UNCHANGED <<flock, disk, fetched, cleaned, faults>>

\* "cached package for", "does not match", "checksums"
Mismatch(c, p) ==
  /\ p \in todo[c]
  /\ cache[p] \in {"empty", "broken"} /\ p \in lock[c]

Refused_NeverCleans(c, p) ==
  /\ Mismatch(c, p)
  /\ Retries(c)
  /\ UNCHANGED <<flock, disk, fetched, cleaned, faults>>

\* cleanCorruptedProvider removes nothing of aws, or a part.
CleaningFails ==
  /\ Fault
  /\ cache[Aws] # "absent"
  /\ cache' \in {cache, [cache EXCEPT ![Aws] = "broken"]}

\* Whichever package was refused, the one of aws is removed, once in an init
\* and not after its last attempt.
Refused(c, p) ==
  /\ Mismatch(c, p)
  /\ Retries(c)
  /\ IF attempt[c] < MaxRetries /\ ~cleaned[c]
     THEN /\ cleaned' = [cleaned EXCEPT ![c] = TRUE]
          /\ \/ cache' = [cache EXCEPT ![Aws] = "absent"] /\ UNCHANGED faults
             \/ CleaningFails
     ELSE UNCHANGED <<cache, cleaned, faults>>
  /\ UNCHANGED <<flock, shared, lock, warned, fetched>>

InitSucceeds_NoSharedLock(c) ==
  /\ Goes(c, "init", "done")
  /\ todo[c] = {}
  /\ lock' = [lock EXCEPT ![c] = Needs[c]]
  /\ warned' = warned \ {c}
  /\ UNCHANGED <<flock, cache, shared, todo, fetched, attempt, cleaned, faults>>

\* Terraform writes the directory's lock file, which becomes the shared one if
\* there is none and it can be saved.
InitSucceeds(c) ==
  /\ Goes(c, "init", "done")
  /\ todo[c] = {}
  /\ lock' = [lock EXCEPT ![c] = Needs[c]]
  /\ warned' = warned \ {c}
  /\ \/ shared' = Copied(Needs[c], shared) /\ UNCHANGED faults
     \/ shared = NoFile /\ Fault /\ shared' \in Uncopied
  /\ UNCHANGED <<flock, cache, todo, fetched, attempt, cleaned>>

\* The deferred unlock of initTerraform, which closes the file and so gives the
\* lock up even when it fails; the error of initTerraform ends the reconciliation.
UnlockPluginCache(c) ==
  /\ Goes(c, "done", "run") \/ Goes(c, "failed", "idle")
  /\ flock' = None
  /\ attempt' = [attempt EXCEPT ![c] = 1]
  /\ UNCHANGED <<disk, todo, fetched, cleaned, faults>>

-----------------------------------------------------------------------------
(***************************************************************************)
(* Terraform apply, plan or destroy.                                       *)
(***************************************************************************)
Execute(c) ==
  /\ Goes(c, "run", "executing")
  /\ Good(c)
  /\ UNCHANGED <<flock, disk, todo, fetched, attempt, cleaned, faults>>

RunRetries_Forever(c, from) ==
  /\ Goes(c, from, "run")
  /\ UNCHANGED attempt

\* The next attempt at the run, without another init, or the error.
RunRetries(c, from) ==
  IF attempt[c] < MaxRetries
  THEN /\ Goes(c, from, "run")
       /\ attempt' = [attempt EXCEPT ![c] = @ + 1]
  ELSE /\ Goes(c, from, "idle")
       /\ UNCHANGED attempt

\* "Required plugins are not installed", at the start or in the middle.
PluginsMissing(c) ==
  /\ ~Good(c)
  /\ RunRetries(c, "run") \/ RunRetries(c, "executing")
  /\ UNCHANGED <<flock, disk, todo, fetched, cleaned, faults>>

\* Success, or an error that is not retriable.
Finish(c) ==
  /\ Goes(c, "executing", "idle")
  /\ UNCHANGED <<flock, disk, todo, fetched, attempt, cleaned, faults>>

\* The process dies and its locks with it.  The next one finds the disk as it
\* is, where a package may have lost what was not yet written, or, in a new
\* container, an empty one.
Crash ==
  /\ Fault
  /\ flock' = None
  /\ \/ /\ \E left \in {"empty", "broken"}, some \in SUBSET Providers :
             cache' = [p \in Providers |->
                         IF cache[p] = "partial" \/ (cache[p] = "good" /\ p \in some)
                         THEN left ELSE cache[p]]
        /\ UNCHANGED <<shared, lock, warned>>
     \/ /\ cache' = [p \in Providers |-> "absent"]
        /\ shared' = NoFile
        /\ lock' = [c \in Clusters |-> NoFile]
        /\ warned' = {}
  /\ pc' = [c \in Clusters |-> "idle"]
  /\ todo' = [c \in Clusters |-> {}]
  /\ fetched' = [c \in Clusters |-> {}]
  /\ attempt' = [c \in Clusters |-> 1]
  /\ cleaned' = [c \in Clusters |-> FALSE]

\* What a worker does once it has the lock, and after it.
Proceed(c) ==
  \/ \E p \in Providers :
       LinkFromCache(c, p) \/ Download(c, p) \/ TextFileBusy(c, p) \/ Refused(c, p)
  \/ Downloaded(c)
  \/ InitFails(c)
  \/ DownloadKilled(c)
  \/ InitSucceeds(c)
  \/ UnlockPluginCache(c)
  \/ Execute(c)
  \/ PluginsMissing(c)
  \/ Finish(c)

Next ==
  \/ \E c \in Clusters : Begin(c) \/ LockFails(c) \/ LockPluginCache(c) \/ Proceed(c)
  \/ Crash

Spec == Init /\ [][Next]_vars

\* Reconciliations come again, terraform returns, and flock serves waiters: a
\* worker that gave the lock up does not want it back for minutes.
Fairness ==
  \A c \in Clusters :
    WF_vars(Begin(c)) /\ WF_vars(Proceed(c)) /\ SF_vars(LockPluginCache(c))

FairSpec == Spec /\ Fairness

-----------------------------------------------------------------------------
(***************************************************************************)
(* Properties.                                                             *)
(***************************************************************************)
\* Type invariant; an attempt is numbered within the bound of the loops.
TypeOK ==
  /\ flock \in Clusters \union {None}
  /\ cache \in [Providers -> Packages]
  /\ shared \in LockFiles
  /\ lock \in [Clusters -> LockFiles]
  /\ warned \subseteq Clusters
  /\ pc \in [Clusters -> PCs]
  /\ todo \in [Clusters -> SUBSET Providers]
  /\ fetched \in [Clusters -> SUBSET Providers]
  /\ attempt \in [Clusters -> 1 .. MaxRetries]
  /\ cleaned \in [Clusters -> BOOLEAN]
  /\ faults \in 0 .. MaxFaults

\* When initTerraform is through, every plugin the cluster needs is complete in
\* the cache, whoever downloaded it and whatever was cleaned in between.
InitDelivers == \A c \in Clusters : pc[c] = "done" => Good(c)

\* Terraform that is running loses a plugin only to cleanCorruptedProvider:
\* neither the validation of the cache nor another one's download takes it.
LostOnlyToCleaning ==
  [][\A c \in Clusters :
       pc[c] = "executing" /\ Good(c) /\ pc'[c] = "executing" /\ ~Good(c)'
         => \E d \in Clusters : ~cleaned[d] /\ cleaned'[d]]_vars

\* Once the shared lock file has aws, a cluster downloads over the package that
\* others work with only if its log says that it did not get that file, in this
\* init or in one it did not recover from.
AwsNotOverwritten ==
  [][cache[Aws] = "good" /\ cache'[Aws] = "partial"
       => Aws \notin shared \/ flock \in warned]_vars

\* Every call of terraform returns: nobody waits for the lock for ever.
CallsReturn == \A c \in Clusters : pc[c] = "wait" ~> pc[c] = "idle"

\* A package of aws that a killed download or a crash left broken is replaced.
AwsHeals == cache[Aws] \in {"empty", "broken"} ~> cache[Aws] = "good"

\* Every cluster gets its terraform to run again and again once its own lock
\* file has what it needs beside aws.  Two things can keep it from running: a
\* package but aws that stays broken, and a directory that a failed copy has left
\* with an empty lock file, from which aws is downloaded over again and again.
EveryoneRuns ==
  /\ \A p \in Providers \ {Aws} : <>[](cache[p] # "broken")
  /\ \A c \in Clusters : <>[](lock[c] # {})
  => \A c \in Clusters :
       <>[](Needs[c] \ {Aws} \subseteq lock[c]) => []<>(pc[c] = "executing")
=============================================================================
