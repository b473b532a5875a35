-------------------------- MODULE PluginCacheProofs --------------------------
(***************************************************************************)
(* Proofs about PluginCache, for any clusters, providers, retries and      *)
(* faults.                                                                 *)
(*                                                                         *)
(* InitDelivers rests on the lock alone: of the steps that make a package  *)
(* worse, all but a crash are taken by the cluster whose turn it is, and   *)
(* the ones it takes put the package back on its list.  The lock files     *)
(* matter for AwsNotOverwritten: whoever has a turn while the shared one   *)
(* has the checksums of aws has them, too, or a warning in its log.        *)
(***************************************************************************)
EXTENDS PluginCache, TLAPS

\* One cluster has its turn, the holder of the lock.
OneTurn == \A c \in Clusters : pc[c] \in InTurn <=> flock = c

\* What the attempt no longer has to install is complete.
Installed ==
  \A c \in Clusters :
    /\ pc[c] \in {"init", "download", "done"} =>
         \A p \in Needs[c] \ todo[c] : cache[p] = "good"
    /\ pc[c] = "done" => todo[c] = {}
    /\ pc[c] = "download" =>
         fetched[c] \subseteq todo[c] /\ \A p \in fetched[c] : cache[p] = "partial"

\* Lock files have the checksums of aws, unless a failed write left them empty:
\* the shared one, which stays so, or one whose cluster was warned.  In its turn
\* a cluster has taken over what the shared one has.
LockFilesHaveAws ==
  /\ shared \in Uncopied \/ Aws \in shared
  /\ \A c \in Clusters :
       /\ lock[c] = NoFile \/ Aws \in lock[c] \/ c \in warned \/ shared = {}
       /\ pc[c] \in {"init", "download"} /\ Aws \in shared => Aws \in lock[c] \/ c \in warned

IInv == TypeOK /\ OneTurn /\ Installed /\ LockFilesHaveAws
-----------------------------------------------------------------------------
LEMMA FaultTyped == faults \in 0 .. MaxFaults /\ Fault => faults' \in 0 .. MaxFaults
BY BoundsAssumption DEF Fault

\* Every step keeps the types.
LEMMA TypeStep == TypeOK /\ [Next]_vars => TypeOK'
<1> SUFFICES ASSUME TypeOK, [Next]_vars PROVE TypeOK'
  OBVIOUS
<1> USE FaultTyped, NeedsAssumption, BoundsAssumption
    DEF TypeOK, Packages, PCs, InTurn, Goes, disk
<1>1. ASSUME NEW c \in Clusters, Begin(c) \/ LockFails(c) \/ InitFails(c) PROVE TypeOK'
  BY <1>1 DEF Begin, LockFails, InitFails
<1>2. ASSUME NEW c \in Clusters, LockPluginCache(c) PROVE TypeOK'
  <2>1. cache' \in [Providers -> Packages]
    BY <1>2 DEF LockPluginCache, Validated, HalfValidated
  <2>2. /\ lock' \in [Clusters -> LockFiles]
        /\ warned' \subseteq Clusters
        /\ faults' \in 0 .. MaxFaults
    BY <1>2 DEF LockPluginCache, Copied, Uncopied, LockFiles
  <2>3. /\ pc' \in [Clusters -> PCs]
        /\ todo' \in [Clusters -> SUBSET Providers]
        /\ attempt' \in [Clusters -> 1 .. MaxRetries]
        /\ cleaned' \in [Clusters -> BOOLEAN]
    BY <1>2 DEF LockPluginCache, StartsInit
  <2> QED
    BY <1>2, <2>1, <2>2, <2>3 DEF LockPluginCache, StartsInit
<1>3. ASSUME NEW c \in Clusters, NEW p \in Providers, LinkFromCache(c, p) PROVE TypeOK'
  BY <1>3 DEF LinkFromCache
<1>4. ASSUME NEW c \in Clusters, NEW p \in Providers, Download(c, p) PROVE TypeOK'
  BY <1>4 DEF Download
<1>5. ASSUME NEW c \in Clusters, NEW p \in Providers, TextFileBusy(c, p) PROVE TypeOK'
  BY <1>5 DEF TextFileBusy, Retries
<1>6. ASSUME NEW c \in Clusters, NEW p \in Providers, Refused(c, p) PROVE TypeOK'
  <2>1. cache' \in [Providers -> Packages] /\ cleaned' \in [Clusters -> BOOLEAN]
    BY <1>6 DEF Refused, CleaningFails
  <2>4. faults' \in 0 .. MaxFaults
    BY <1>6 DEF Refused, CleaningFails
  <2>2. /\ pc' \in [Clusters -> PCs]
        /\ todo' \in [Clusters -> SUBSET Providers]
        /\ attempt' \in [Clusters -> 1 .. MaxRetries]
    BY <1>6 DEF Refused, Retries
  <2> QED
    BY <1>6, <2>1, <2>2, <2>4 DEF Refused
<1>7. ASSUME NEW c \in Clusters, Downloaded(c) PROVE TypeOK'
  BY <1>7 DEF Downloaded
<1>8. ASSUME NEW c \in Clusters, DownloadKilled(c) PROVE TypeOK'
  BY <1>8 DEF DownloadKilled
<1>9. ASSUME NEW c \in Clusters, InitSucceeds(c) PROVE TypeOK'
  BY <1>9 DEF InitSucceeds, Copied, Uncopied, LockFiles
<1>10. ASSUME NEW c \in Clusters, UnlockPluginCache(c) PROVE TypeOK'
  BY <1>10 DEF UnlockPluginCache
<1>11. ASSUME NEW c \in Clusters, Execute(c) PROVE TypeOK'
  BY <1>11 DEF Execute
<1>12. ASSUME NEW c \in Clusters, PluginsMissing(c) PROVE TypeOK'
  BY <1>12 DEF PluginsMissing, RunRetries
<1>13. ASSUME NEW c \in Clusters, Finish(c) PROVE TypeOK'
  BY <1>13 DEF Finish
<1>14. CASE Crash
  <2>1. cache' \in [Providers -> Packages] /\ faults' \in 0 .. MaxFaults
    BY <1>14 DEF Crash
  <2>2. NoFile \in LockFiles
    BY DEF LockFiles
  <2>3. shared' \in LockFiles /\ lock' \in [Clusters -> LockFiles] /\ warned' \subseteq Clusters
    BY <1>14, <2>2 DEF Crash
  <2> QED
    BY <1>14, <2>1, <2>3 DEF Crash
<1>15. CASE UNCHANGED vars
  BY <1>15 DEF vars, locals, disk
<1> QED
  BY <1>1, <1>2, <1>3, <1>4, <1>5, <1>6, <1>7, <1>8, <1>9, <1>10, <1>11, <1>12, <1>13,
     <1>14, <1>15 DEF Next, Proceed

\* The lock is taken when nobody has it and given up at the end of the turn.
LEMMA TurnStep == TypeOK /\ OneTurn /\ [Next]_vars => OneTurn'
<1> SUFFICES ASSUME TypeOK, OneTurn, [Next]_vars PROVE OneTurn'
  OBVIOUS
<1> USE NeedsAssumption DEF TypeOK, OneTurn, InTurn, Goes, disk
<1>1. ASSUME NEW c \in Clusters, Begin(c) \/ LockFails(c) \/ Execute(c) \/ Finish(c)
      PROVE OneTurn'
  BY <1>1 DEF Begin, LockFails, Execute, Finish
<1>2. ASSUME NEW c \in Clusters, LockPluginCache(c) PROVE OneTurn'
  BY <1>2 DEF LockPluginCache, StartsInit
<1>3. ASSUME NEW c \in Clusters, NEW p \in Providers, LinkFromCache(c, p) \/ Download(c, p)
      PROVE OneTurn'
  BY <1>3 DEF LinkFromCache, Download
<1>4. ASSUME NEW c \in Clusters, NEW p \in Providers, TextFileBusy(c, p) PROVE OneTurn'
  BY <1>4 DEF TextFileBusy, Retries
<1>5. ASSUME NEW c \in Clusters, NEW p \in Providers, Refused(c, p) PROVE OneTurn'
  BY <1>5 DEF Refused, Retries
<1>6. ASSUME NEW c \in Clusters,
             Downloaded(c) \/ InitFails(c) \/ DownloadKilled(c) \/ InitSucceeds(c)
      PROVE OneTurn'
  BY <1>6 DEF Downloaded, InitFails, DownloadKilled, InitSucceeds
<1>7. ASSUME NEW c \in Clusters, UnlockPluginCache(c) PROVE OneTurn'
  BY <1>7 DEF UnlockPluginCache
<1>8. ASSUME NEW c \in Clusters, PluginsMissing(c) PROVE OneTurn'
  BY <1>8 DEF PluginsMissing, RunRetries
<1>9. CASE Crash
  BY <1>9 DEF Crash
<1>10. CASE UNCHANGED vars
  BY <1>10 DEF vars, locals, disk
<1> QED
  BY <1>1, <1>2, <1>3, <1>4, <1>5, <1>6, <1>7, <1>8, <1>9, <1>10 DEF Next, Proceed

\* Nothing that an attempt has installed is taken from it during its turn.
LEMMA InstalledStep == TypeOK /\ OneTurn /\ Installed /\ [Next]_vars => Installed'
<1> SUFFICES ASSUME TypeOK, OneTurn, Installed, [Next]_vars PROVE Installed'
  OBVIOUS
<1> USE NeedsAssumption DEF TypeOK, OneTurn, InTurn, Goes, disk, Installed
<1>1. ASSUME NEW c \in Clusters,
             Begin(c) \/ LockFails(c) \/ InitFails(c) \/ Execute(c) \/ Finish(c)
      PROVE Installed'
  BY <1>1 DEF Begin, LockFails, InitFails, Execute, Finish
<1>2. ASSUME NEW c \in Clusters, LockPluginCache(c) PROVE Installed'
  <2>1. \A p \in Providers : cache[p] = "good" => cache'[p] = "good"
    BY <1>2 DEF LockPluginCache, Validated, HalfValidated
  <2> QED
    BY <1>2, <2>1 DEF LockPluginCache, StartsInit
<1>3. ASSUME NEW c \in Clusters, NEW p \in Providers, LinkFromCache(c, p) PROVE Installed'
  BY <1>3 DEF LinkFromCache, Linkable
<1>4. ASSUME NEW c \in Clusters, NEW p \in Providers, Download(c, p) PROVE Installed'
  BY <1>4 DEF Download
<1>5. ASSUME NEW c \in Clusters, NEW p \in Providers, TextFileBusy(c, p) PROVE Installed'
  BY <1>5 DEF TextFileBusy, Retries
<1>6. ASSUME NEW c \in Clusters, NEW p \in Providers, Refused(c, p) PROVE Installed'
  BY <1>6 DEF Refused, CleaningFails, Retries
<1>7. ASSUME NEW c \in Clusters, Downloaded(c) PROVE Installed'
  BY <1>7 DEF Downloaded
<1>8. ASSUME NEW c \in Clusters, DownloadKilled(c) PROVE Installed'
  BY <1>8 DEF DownloadKilled
<1>9. ASSUME NEW c \in Clusters, InitSucceeds(c) PROVE Installed'
  BY <1>9 DEF InitSucceeds
<1>10. ASSUME NEW c \in Clusters, UnlockPluginCache(c) PROVE Installed'
  BY <1>10 DEF UnlockPluginCache
<1>11. ASSUME NEW c \in Clusters, PluginsMissing(c) PROVE Installed'
  BY <1>11 DEF PluginsMissing, RunRetries
<1>12. CASE Crash
  BY <1>12 DEF Crash
<1>13. CASE UNCHANGED vars
  BY <1>13 DEF vars, locals, disk
<1> QED
  BY <1>1, <1>2, <1>3, <1>4, <1>5, <1>6, <1>7, <1>8, <1>9, <1>10, <1>11, <1>12, <1>13
     DEF Next, Proceed

\* Lock files are copied whole and written with all that the cluster needs.
LEMMA LockFilesStep == TypeOK /\ OneTurn /\ LockFilesHaveAws /\ [Next]_vars => LockFilesHaveAws'
<1> SUFFICES ASSUME TypeOK, OneTurn, LockFilesHaveAws, [Next]_vars PROVE LockFilesHaveAws'
  OBVIOUS
<1> USE NeedsAssumption DEF TypeOK, OneTurn, InTurn, Goes, disk, LockFilesHaveAws
<1>1. ASSUME NEW c \in Clusters, LockPluginCache(c) PROVE LockFilesHaveAws'
  <2>1. UNCHANGED shared /\ pc' = [pc EXCEPT ![c] = "init"] /\ flock = None
    BY <1>1 DEF LockPluginCache, StartsInit
  <2>2. CASE lock' = [lock EXCEPT ![c] = Copied(shared, @)] /\ UNCHANGED warned
    BY <2>1, <2>2 DEF Copied, Uncopied, NoFile
  <2>3. CASE /\ \E f \in Uncopied : lock' = [lock EXCEPT ![c] = f]
             /\ warned' = warned \union {c}
    BY <2>1, <2>3 DEF Uncopied
  <2> QED
    BY <1>1, <2>2, <2>3 DEF LockPluginCache
<1>2. ASSUME NEW c \in Clusters, InitSucceeds(c) PROVE LockFilesHaveAws'
  <2>1. /\ pc' = [pc EXCEPT ![c] = "done"]
        /\ lock' = [lock EXCEPT ![c] = Needs[c]]
        /\ warned' = warned \ {c}
        /\ flock = c
    BY <1>2 DEF InitSucceeds
  <2>2. shared' = shared \/ (shared = NoFile /\ shared' \in Uncopied \union {Needs[c]})
    BY <1>2 DEF InitSucceeds, Copied
  <2> QED
    BY <2>1, <2>2 DEF Uncopied, NoFile
<1>3. ASSUME NEW c \in Clusters, NEW p \in Providers,
             LinkFromCache(c, p) \/ Download(c, p) \/ TextFileBusy(c, p) \/ Refused(c, p)
      PROVE LockFilesHaveAws'
  BY <1>3 DEF LinkFromCache, Download, TextFileBusy, Refused, Retries
<1>4. ASSUME NEW c \in Clusters,
             Begin(c) \/ LockFails(c) \/ InitFails(c) \/ Downloaded(c) 
             \/ DownloadKilled(c) \/ Execute(c) \/ UnlockPluginCache(c) \/ PluginsMissing(c) \/ Finish(c)
      PROVE LockFilesHaveAws'
  BY <1>4 DEF Begin, LockFails, InitFails, Downloaded, DownloadKilled, Execute,
     UnlockPluginCache, PluginsMissing, RunRetries, Finish
<1>5. CASE Crash
  BY <1>5 DEF Crash, Uncopied, NoFile
<1>6. CASE UNCHANGED vars
  BY <1>6 DEF vars, locals, disk
<1> QED
  BY <1>1, <1>2, <1>3, <1>4, <1>5, <1>6 DEF Next, Proceed

-----------------------------------------------------------------------------
\* The inductive invariant.
THEOREM Invariance == Spec => []IInv
<1>1. Init => IInv
  <2> SUFFICES ASSUME Init PROVE IInv
    OBVIOUS
  <2>1. NoFile \in LockFiles
    BY DEF LockFiles
  <2>2. TypeOK
    BY <2>1, NeedsAssumption, BoundsAssumption DEF Init, TypeOK, Packages, PCs, InTurn
  <2>3. OneTurn /\ Installed
    BY NeedsAssumption DEF Init, OneTurn, Installed, InTurn
  <2>4. LockFilesHaveAws
    BY DEF Init, LockFilesHaveAws, Uncopied
  <2> QED
    BY <2>2, <2>3, <2>4 DEF IInv
<1>2. IInv /\ [Next]_vars => IInv'
  BY TypeStep, TurnStep, InstalledStep, LockFilesStep DEF IInv
<1> QED
  BY <1>1, <1>2, PTL DEF Spec

\* The variables keep their types and the loops their number of attempts.
THEOREM TypeCorrect == Spec => []TypeOK
<1>1. IInv => TypeOK
  BY DEF IInv
<1> QED
  BY <1>1, Invariance, PTL

\* The plugin cache belongs to one cluster at a time: between taking the lock and
\* giving it up, with failing inits, cleaning and crashes, nobody else is there.
THEOREM OneInTurn ==
  Spec => [](\A c, d \in Clusters : pc[c] \in InTurn /\ pc[d] \in InTurn => c = d)
<1>1. IInv => \A c, d \in Clusters : pc[c] \in InTurn /\ pc[d] \in InTurn => c = d
  BY DEF IInv, OneTurn
<1> QED
  BY <1>1, Invariance, PTL

\* Init ends with every plugin of its cluster complete, for any number of
\* clusters that share the cache and any number of faults.
THEOREM InitIsSound == Spec => []InitDelivers
<1>1. IInv => InitDelivers
  BY DEF IInv, Installed, InitDelivers, Good
<1> QED
  BY <1>1, Invariance, PTL

\* Once the shared lock file has aws, nobody downloads over a good aws without a
\* warning in its log.
THEOREM AwsIsLinked == Spec => AwsNotOverwritten
<1>1. ASSUME IInv, [Next]_vars
      PROVE  [cache[Aws] = "good" /\ cache'[Aws] = "partial"
                => Aws \notin shared \/ flock \in warned]_vars
  <2> SUFFICES ASSUME Next, cache[Aws] = "good", cache'[Aws] = "partial", Aws \in shared
               PROVE  flock \in warned
    BY <1>1
  <2>1. Aws \in Providers
    BY NeedsAssumption
  <2>2. ~Crash
    BY <2>1 DEF Crash
  <2>3. PICK c \in Clusters : \E p \in Providers : Download(c, p)
    <3> USE <1>1, <2>1 DEF IInv, TypeOK, disk
    <3>1. ASSUME NEW c \in Clusters, NEW p \in Providers,
                 LinkFromCache(c, p) \/ TextFileBusy(c, p) \/ Refused(c, p)
          PROVE  FALSE
      BY <3>1 DEF LinkFromCache, TextFileBusy, Refused, CleaningFails
    <3>2. ASSUME NEW c \in Clusters, LockPluginCache(c) \/ Downloaded(c) \/ DownloadKilled(c)
          PROVE  FALSE
      BY <3>2 DEF LockPluginCache, Validated, HalfValidated, Downloaded, DownloadKilled
    <3>3. ASSUME NEW c \in Clusters,
                 Begin(c) \/ LockFails(c) \/ InitFails(c) \/ InitSucceeds(c)
                 \/ UnlockPluginCache(c) \/ Execute(c) \/ PluginsMissing(c) \/ Finish(c)
          PROVE  FALSE
      BY <3>3 DEF Begin, LockFails, InitFails, InitSucceeds, UnlockPluginCache, Execute, PluginsMissing, Finish
    <3> QED
      BY <2>2, <3>1, <3>2, <3>3 DEF Next, Proceed
  <2>4. PICK p \in Providers : Download(c, p)
    BY <2>3
  <2>5. p = Aws
    BY <1>1, <2>1, <2>4 DEF Download, IInv, TypeOK
  <2>6. pc[c] = "init" /\ Aws \notin lock[c]
    BY <2>4, <2>5 DEF Download, Linkable, Goes
  <2> QED
    BY <1>1, <2>6 DEF IInv, LockFilesHaveAws, OneTurn, InTurn
<1> QED
  BY <1>1, Invariance, PTL DEF Spec, AwsNotOverwritten

\* Running terraform loses a plugin only to cleanCorruptedProvider.
THEOREM OnlyCleaningTakes == Spec => LostOnlyToCleaning
<1> DEFINE Lost(c) == pc[c] = "executing" /\ Good(c) /\ pc'[c] = "executing" /\ ~Good(c)'
           Cleaning == \E d \in Clusters : ~cleaned[d] /\ cleaned'[d]
<1>1. ASSUME IInv, [Next]_vars
      PROVE  [\A c \in Clusters : Lost(c) => Cleaning]_vars
  <2> SUFFICES ASSUME Next, NEW c \in Clusters, Lost(c) PROVE Cleaning
    BY <1>1
  <2> USE <1>1, NeedsAssumption DEF IInv, TypeOK, Good, Goes, disk
  <2>1. ASSUME NEW d \in Clusters, NEW p \in Providers, Refused(d, p) PROVE Cleaning
    BY <2>1 DEF Refused
  <2>2. ASSUME NEW d \in Clusters, NEW p \in Providers,
               LinkFromCache(d, p) \/ TextFileBusy(d, p)
        PROVE  FALSE
    BY <2>2 DEF LinkFromCache, TextFileBusy
  <2>3. ASSUME NEW d \in Clusters, NEW p \in Providers, Download(d, p) PROVE FALSE
    BY <2>3 DEF Download, Busy
  <2>4. ASSUME NEW d \in Clusters, LockPluginCache(d) PROVE FALSE
    <3>1. \A p \in Providers : cache[p] = "good" => cache'[p] = "good"
      BY <2>4 DEF LockPluginCache, Validated, HalfValidated
    <3> QED
      BY <3>1
  <2>5. ASSUME NEW d \in Clusters, Downloaded(d) PROVE FALSE
    BY <2>5 DEF Downloaded
  <2>6. ASSUME NEW d \in Clusters, DownloadKilled(d) PROVE FALSE
    BY <2>6 DEF DownloadKilled, Installed
  <2>7. ASSUME NEW d \in Clusters,
               Begin(d) \/ LockFails(d) \/ InitFails(d) \/ InitSucceeds(d)
               \/ UnlockPluginCache(d) \/ Execute(d) \/ PluginsMissing(d) \/ Finish(d)
        PROVE  FALSE
    BY <2>7 DEF Begin, LockFails, InitFails, InitSucceeds, UnlockPluginCache, Execute, PluginsMissing, Finish
  <2>8. ~Crash
    BY DEF Crash
  <2> QED
    BY <2>1, <2>2, <2>3, <2>4, <2>5, <2>6, <2>7, <2>8 DEF Next, Proceed
<1> QED
  BY <1>1, Invariance, PTL DEF Spec, LostOnlyToCleaning
=============================================================================
