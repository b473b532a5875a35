-------------------------- MODULE KopsSessionProofs --------------------------
(***************************************************************************)
(* Proofs about KopsSession, for any number of workers and control planes. *)
(*                                                                         *)
(* The inductive invariant IInv has three parts: the types, the agreement  *)
(* of the Mux with each worker's program counter and shouldUnlock flag,    *)
(* and, for each worker, what the process-wide state and its own handles   *)
(* hold at each point of its call of Reconcile.  The second part is what   *)
(* makes the third inductive: a worker's facts about the process-wide      *)
(* state are only claimed inside the section, and only the worker inside   *)
(* the section writes that state.                                          *)
(***************************************************************************)
EXTENDS KopsSession, TLAPS

\* Before the clientset there are no handles.
Fresh(w) ==
  pc[w] \in {"destroy", "lock", "list", "clientset"} =>
    context[w] = NoWorker /\ cloud[w] = NoCloud

\* From the clientset to the unlock the global VFS context is the worker's.
OwnContext(w) ==
  pc[w] \in Locked \ {"list", "clientset"} => context[w] = w /\ vfs = w

\* Until both variables of the environment are set nothing was resolved.
Unresolved(w) ==
  /\ pc[w] \in {"keyId", "secretKey"} => bound[w] = Unset
  /\ pc[w] = "secretKey" => env = [id |-> job[w], secret |-> NoKCP]

\* From then to the unlock the environment is the control plane's own.
OwnEnvironment(w) ==
  pc[w] \in {"pools", "flags", "cloud", "state", "kubeconfig", "plan", "kopsDelete"}
    => env = Own(job[w])

\* The handles are the control plane's own, ever after.
OwnHandles(w) ==
  /\ context[w] \in {NoWorker, w}
  /\ context[w] = w => bound[w] \in {Unset, Own(job[w])}
  /\ cloud[w] = NoCloud \/ cloud[w].credentials = Own(job[w])

\* From the machine pools on the normal path has resolved its credentials.
Resolved(w) ==
  \/ pc[w] \in {"flags", "state", "kubeconfig", "plan", "apply", "validate"}
  \/ pc[w] = "cloud" /\ ~deleting[w]
  => context[w] = w /\ bound[w] = Own(job[w])

\* Once built, the cloud handle stays.
CloudBuilt(w) ==
  pc[w] \in {"state", "kubeconfig", "plan", "kopsDelete", "apply", "validate", "owners"}
    => cloud[w] # NoCloud

SessionInv(w) ==
  /\ Fresh(w)
  /\ OwnContext(w)
  /\ Unresolved(w)
  /\ OwnEnvironment(w)
  /\ OwnHandles(w)
  /\ Resolved(w)
  /\ CloudBuilt(w)

IInv == TypeOK /\ MuxDiscipline /\ \A w \in Workers : SessionInv(w)

-----------------------------------------------------------------------------
\* Parsing turns feature flags into feature flags.
LEMMA ParsedIsFlags ==
  ASSUME NEW f \in SUBSET Flags, NEW k
  PROVE  /\ SpotinstParsed(KarpenterParsed(f, k), k) \in SUBSET Flags
         /\ KarpenterParsed(f, k) \ Reset \in SUBSET Flags
BY FeatureFlagsAssumption
   DEF SpotinstParsed, KarpenterParsed, SpotinstFlags, KarpenterFlags, Flags, Parsed, Reset

\* Every step keeps the variables' types.
LEMMA TypedStep == Typed /\ [Next]_vars => Typed'
<1> SUFFICES ASSUME Typed, [Next]_vars PROVE Typed'
  OBVIOUS
<1> USE SentinelsAssumption
<1> USE DEF Typed, PCs, Locked, Unlocked, Credentials, Clouds, NoCloud, Unset, Goes,
            Calls, globals, locals
<1>1. ASSUME NEW w \in Workers, NEW k \in KCPs, Begin(w, k) PROVE Typed'
  <2>1. pc' \in [Workers -> PCs] /\ dryRun' \in BOOLEAN
    BY <1>1, ZenonT(30) DEF Begin
  <2>2. job' \in [Workers -> KCPs \union {NoKCP}] /\ deleting' \in [Workers -> BOOLEAN]
    BY <1>1 DEF Begin
  <2> QED
    BY <1>1, <2>1, <2>2 DEF Begin
<1>2. ASSUME NEW w \in Workers, Lock(w) PROVE Typed'
  BY <1>2 DEF Lock
<1>3. ASSUME NEW w \in Workers, Destroy(w) PROVE Typed'
  BY <1>3 DEF Destroy
<1>4. ASSUME NEW w \in Workers, ListPools(w) PROVE Typed'
  BY <1>4 DEF ListPools
<1>5. ASSUME NEW w \in Workers, GetKopsClientset(w) PROVE Typed'
  BY <1>5 DEF GetKopsClientset
<1>6. ASSUME NEW w \in Workers, SetAccessKeyID(w) PROVE Typed'
  BY <1>6 DEF SetAccessKeyID
<1>7. ASSUME NEW w \in Workers, SetSecretAccessKey(w) PROVE Typed'
  BY <1>7, ZenonT(30) DEF SetSecretAccessKey
<1>8. ASSUME NEW w \in Workers, ReconcilePoolsAndAddons(w) PROVE Typed'
  BY <1>8 DEF ReconcilePoolsAndAddons, Uses
<1>9. ASSUME NEW w \in Workers, ParseFeatureFlags(w) PROVE Typed'
  <2>1. PICK k : \/ flags' = SpotinstParsed(KarpenterParsed(flags, k), k)
                  \/ flags' = KarpenterParsed(flags, k) \ Reset
    BY <1>9 DEF ParseFeatureFlags
  <2>2. flags \in SUBSET Flags
    OBVIOUS
  <2>3. flags' \in SUBSET Flags
    BY ONLY <2>1, <2>2, ParsedIsFlags
  <2> QED
    BY <1>9, <2>3 DEF ParseFeatureFlags
<1>10. ASSUME NEW w \in Workers, BuildCloud(w) PROVE Typed'
  <2>1. instances' \in Clouds
    BY <1>10 DEF BuildCloud
  <2>2. cloud' = cloud \/ cloud' = [cloud EXCEPT ![w] = instances']
    BY <1>10 DEF BuildCloud
  <2>3. cloud' \in [Workers -> Clouds]
    BY <2>1, <2>2
  <2>4. pc' \in [Workers -> PCs]
    BY <1>10, SMTT(20) DEF BuildCloud
  <2> QED
    BY <1>10, <2>1, <2>3, <2>4 DEF BuildCloud
<1>11. ASSUME NEW w \in Workers, ManageState(w) PROVE Typed'
  BY <1>11, ZenonT(30) DEF ManageState, Uses
<1>12. ASSUME NEW w \in Workers, ReconcileKubeconfig(w) PROVE Typed'
  BY <1>12, ZenonT(30) DEF ReconcileKubeconfig, UnlocksAfter, Unlocks
<1>13. ASSUME NEW w \in Workers, Plan(w) PROVE Typed'
  BY <1>13 DEF Plan, UnlocksAfter, Unlocks
<1>14. ASSUME NEW w \in Workers, KopsDelete(w) PROVE Typed'
  BY <1>14, ZenonT(30) DEF KopsDelete, Uses, UnlocksAfter, Unlocks
<1>15. ASSUME NEW w \in Workers, Apply(w) PROVE Typed'
  BY <1>15 DEF Apply
<1>16. ASSUME NEW w \in Workers, Validate(w) PROVE Typed'
  BY <1>16 DEF Validate, Uses
<1>17. ASSUME NEW w \in Workers, DeleteOwners(w) PROVE Typed'
  BY <1>17 DEF DeleteOwners
<1>18. ASSUME NEW w \in Workers, DeferredUnlock(w) PROVE Typed'
  BY <1>18 DEF DeferredUnlock, Unlocks
<1>19. ASSUME NEW w \in Workers, Save(w) PROVE Typed'
  BY <1>19 DEF Save
<1>20. CASE UNCHANGED vars
  BY <1>20 DEF vars
<1> QED
  BY <1>1, <1>2, <1>3, <1>4, <1>5, <1>6, <1>7, <1>8, <1>9, <1>10, <1>11, <1>12, <1>13, <1>14, <1>15, <1>16, <1>17, <1>18, <1>19, <1>20 DEF Next, Proceed

\* Every step keeps idle workers empty-handed.
LEMMA IdleStep == Typed /\ NothingHeldIdle /\ [Next]_vars => NothingHeldIdle'
<1> SUFFICES ASSUME Typed, NothingHeldIdle, [Next]_vars PROVE NothingHeldIdle'
  OBVIOUS
<1> USE SentinelsAssumption
<1> USE DEF Typed, NothingHeldIdle, Goes, Calls, globals, locals
<1>1. ASSUME NEW w \in Workers, NEW k \in KCPs, Begin(w, k) PROVE NothingHeldIdle'
  BY <1>1 DEF Begin
<1>2. ASSUME NEW w \in Workers, Lock(w) PROVE NothingHeldIdle'
  BY <1>2 DEF Lock
<1>3. ASSUME NEW w \in Workers, Destroy(w) PROVE NothingHeldIdle'
  BY <1>3 DEF Destroy
<1>4. ASSUME NEW w \in Workers, ListPools(w) PROVE NothingHeldIdle'
  BY <1>4 DEF ListPools
<1>5. ASSUME NEW w \in Workers, GetKopsClientset(w) PROVE NothingHeldIdle'
  BY <1>5 DEF GetKopsClientset
<1>6. ASSUME NEW w \in Workers, SetAccessKeyID(w) PROVE NothingHeldIdle'
  BY <1>6 DEF SetAccessKeyID
<1>7. ASSUME NEW w \in Workers, SetSecretAccessKey(w) PROVE NothingHeldIdle'
  BY <1>7 DEF SetSecretAccessKey
<1>8. ASSUME NEW w \in Workers, ReconcilePoolsAndAddons(w) PROVE NothingHeldIdle'
  BY <1>8 DEF ReconcilePoolsAndAddons, Uses
<1>9. ASSUME NEW w \in Workers, ParseFeatureFlags(w) PROVE NothingHeldIdle'
  BY <1>9 DEF ParseFeatureFlags
<1>10. ASSUME NEW w \in Workers, BuildCloud(w) PROVE NothingHeldIdle'
  BY <1>10 DEF BuildCloud
<1>11. ASSUME NEW w \in Workers, ManageState(w) PROVE NothingHeldIdle'
  BY <1>11 DEF ManageState, Uses
<1>12. ASSUME NEW w \in Workers, ReconcileKubeconfig(w) PROVE NothingHeldIdle'
  BY <1>12 DEF ReconcileKubeconfig, UnlocksAfter, Unlocks
<1>13. ASSUME NEW w \in Workers, Plan(w) PROVE NothingHeldIdle'
  BY <1>13 DEF Plan, UnlocksAfter, Unlocks
<1>14. ASSUME NEW w \in Workers, KopsDelete(w) PROVE NothingHeldIdle'
  BY <1>14 DEF KopsDelete, Uses, UnlocksAfter, Unlocks
<1>15. ASSUME NEW w \in Workers, Apply(w) PROVE NothingHeldIdle'
  BY <1>15 DEF Apply
<1>16. ASSUME NEW w \in Workers, Validate(w) PROVE NothingHeldIdle'
  BY <1>16 DEF Validate, Uses
<1>17. ASSUME NEW w \in Workers, DeleteOwners(w) PROVE NothingHeldIdle'
  BY <1>17 DEF DeleteOwners
<1>18. ASSUME NEW w \in Workers, DeferredUnlock(w) PROVE NothingHeldIdle'
  BY <1>18 DEF DeferredUnlock, Unlocks
<1>19. ASSUME NEW w \in Workers, Save(w) PROVE NothingHeldIdle'
  BY <1>19 DEF Save
<1>20. CASE UNCHANGED vars
  BY <1>20 DEF vars
<1> QED
  BY <1>1, <1>2, <1>3, <1>4, <1>5, <1>6, <1>7, <1>8, <1>9, <1>10, <1>11, <1>12, <1>13, <1>14, <1>15, <1>16, <1>17, <1>18, <1>19, <1>20 DEF Next, Proceed

\* Every step keeps the Mux, the program counters and the flags in agreement.
LEMMA MuxStep == Typed /\ MuxDiscipline /\ [Next]_vars => MuxDiscipline'
<1> SUFFICES ASSUME Typed, MuxDiscipline, [Next]_vars PROVE MuxDiscipline'
  OBVIOUS
<1> USE SentinelsAssumption
<1> USE DEF Typed, MuxDiscipline, MuxHeldInSection, UnlockFlagAgrees, NoLeakedLock, Locked, Goes, Calls,
            globals, locals
<1>1. ASSUME NEW w \in Workers, NEW k \in KCPs, Begin(w, k) PROVE MuxDiscipline'
  BY <1>1 DEF Begin
<1>2. ASSUME NEW w \in Workers, Lock(w) PROVE MuxDiscipline'
  BY <1>2 DEF Lock
<1>3. ASSUME NEW w \in Workers, Destroy(w) PROVE MuxDiscipline'
  BY <1>3 DEF Destroy
<1>4. ASSUME NEW w \in Workers, ListPools(w) PROVE MuxDiscipline'
  BY <1>4 DEF ListPools
<1>5. ASSUME NEW w \in Workers, GetKopsClientset(w) PROVE MuxDiscipline'
  BY <1>5 DEF GetKopsClientset
<1>6. ASSUME NEW w \in Workers, SetAccessKeyID(w) PROVE MuxDiscipline'
  BY <1>6 DEF SetAccessKeyID
<1>7. ASSUME NEW w \in Workers, SetSecretAccessKey(w) PROVE MuxDiscipline'
  BY <1>7 DEF SetSecretAccessKey
<1>8. ASSUME NEW w \in Workers, ReconcilePoolsAndAddons(w) PROVE MuxDiscipline'
  BY <1>8 DEF ReconcilePoolsAndAddons
<1>9. ASSUME NEW w \in Workers, ParseFeatureFlags(w) PROVE MuxDiscipline'
  BY <1>9 DEF ParseFeatureFlags
<1>10. ASSUME NEW w \in Workers, BuildCloud(w) PROVE MuxDiscipline'
  BY <1>10 DEF BuildCloud
<1>11. ASSUME NEW w \in Workers, ManageState(w) PROVE MuxDiscipline'
  BY <1>11 DEF ManageState
<1>12. ASSUME NEW w \in Workers, ReconcileKubeconfig(w) PROVE MuxDiscipline'
  BY <1>12 DEF ReconcileKubeconfig, UnlocksAfter, Unlocks
<1>13. ASSUME NEW w \in Workers, Plan(w) PROVE MuxDiscipline'
  BY <1>13 DEF Plan, UnlocksAfter, Unlocks
<1>14. ASSUME NEW w \in Workers, KopsDelete(w) PROVE MuxDiscipline'
  BY <1>14 DEF KopsDelete, UnlocksAfter, Unlocks
<1>15. ASSUME NEW w \in Workers, Apply(w) PROVE MuxDiscipline'
  BY <1>15 DEF Apply
<1>16. ASSUME NEW w \in Workers, Validate(w) PROVE MuxDiscipline'
  BY <1>16 DEF Validate
<1>17. ASSUME NEW w \in Workers, DeleteOwners(w) PROVE MuxDiscipline'
  BY <1>17 DEF DeleteOwners
<1>18. ASSUME NEW w \in Workers, DeferredUnlock(w) PROVE MuxDiscipline'
  BY <1>18 DEF DeferredUnlock, Unlocks
<1>19. ASSUME NEW w \in Workers, Save(w) PROVE MuxDiscipline'
  BY <1>19 DEF Save
<1>20. CASE UNCHANGED vars
  BY <1>20 DEF vars
<1> QED
  BY <1>1, <1>2, <1>3, <1>4, <1>5, <1>6, <1>7, <1>8, <1>9, <1>10, <1>11, <1>12, <1>13, <1>14, <1>15, <1>16, <1>17, <1>18, <1>19, <1>20 DEF Next, Proceed

\* A worker's session facts survive the steps of the others: those leave its
\* locals and its VFS context alone, and the process-wide state too while the
\* worker is in the section.
LEMMA SessionFrame ==
  ASSUME NEW v \in Workers, SessionInv(v),
         pc'[v] = pc[v], job'[v] = job[v], deleting'[v] = deleting[v],
         context'[v] = context[v], cloud'[v] = cloud[v],
         context[v] = v => bound'[v] = bound[v],
         pc[v] \in Locked => env' = env /\ vfs' = vfs
  PROVE  SessionInv(v)'
BY DEF SessionInv, Fresh, OwnContext, Unresolved, OwnEnvironment, OwnHandles, Resolved,
       CloudBuilt, Locked

\* The section belongs to one worker at a time.
LEMMA OneInSection ==
  ASSUME MuxDiscipline, NEW v \in Workers, NEW w \in Workers, v # w, pc[w] \in Locked
  PROVE  pc[v] \notin Locked
BY DEF MuxDiscipline, MuxHeldInSection

\* Every step keeps what the workers' sessions hold.
LEMMA SessionStep == IInv /\ [Next]_vars => \A v \in Workers : SessionInv(v)'
<1> SUFFICES ASSUME IInv, [Next]_vars, NEW v \in Workers PROVE SessionInv(v)'
  OBVIOUS
<1> USE SentinelsAssumption
<1> USE DEF globals, locals
<1>0. /\ Typed
      /\ NothingHeldIdle
      /\ MuxDiscipline
      /\ \A u \in Workers : SessionInv(u)
  BY DEF IInv, TypeOK
<1>1. ASSUME NEW w \in Workers, NEW k \in KCPs, Begin(w, k) PROVE SessionInv(v)'
  <2>1. CASE v = w
    BY <1>0, <1>1, <2>1 DEF Begin, SessionInv, Fresh, OwnContext, Unresolved, OwnEnvironment,
        OwnHandles, Resolved, CloudBuilt, Typed, NothingHeldIdle, Goes, Calls, Locked, Unset,
        Own, NoCloud
  <2>2. CASE v # w
    BY <1>0, <1>1, <2>2, SessionFrame, OneInSection DEF Begin, Typed, Goes, Calls, Locked,
        SessionInv, OwnHandles
  <2> QED
    BY <2>1, <2>2
<1>2. ASSUME NEW w \in Workers, Lock(w) PROVE SessionInv(v)'
  <2>1. CASE v = w
    BY <1>0, <1>2, <2>1 DEF Lock, SessionInv, Fresh, OwnContext, Unresolved, OwnEnvironment,
        OwnHandles, Resolved, CloudBuilt, Typed, NothingHeldIdle, Goes, Calls, Locked, Unset,
        Own, NoCloud
  <2>2. CASE v # w
    BY <1>0, <1>2, <2>2, SessionFrame, OneInSection DEF Lock, Typed, Goes, Calls, Locked,
        SessionInv, OwnHandles
  <2> QED
    BY <2>1, <2>2
<1>3. ASSUME NEW w \in Workers, Destroy(w) PROVE SessionInv(v)'
  <2>1. CASE v = w
    BY <1>0, <1>3, <2>1 DEF Destroy, SessionInv, Fresh, OwnContext, Unresolved,
        OwnEnvironment, OwnHandles, Resolved, CloudBuilt, Typed, NothingHeldIdle, Goes, Calls,
        Locked, Unset, Own, NoCloud
  <2>2. CASE v # w
    BY <1>0, <1>3, <2>2, SessionFrame, OneInSection DEF Destroy, Typed, Goes, Calls, Locked,
        SessionInv, OwnHandles
  <2> QED
    BY <2>1, <2>2
<1>4. ASSUME NEW w \in Workers, ListPools(w) PROVE SessionInv(v)'
  <2>1. CASE v = w
    BY <1>0, <1>4, <2>1 DEF ListPools, SessionInv, Fresh, OwnContext, Unresolved,
        OwnEnvironment, OwnHandles, Resolved, CloudBuilt, Typed, NothingHeldIdle, Goes, Calls,
        Locked, Unset, Own, NoCloud
  <2>2. CASE v # w
    BY <1>0, <1>4, <2>2, SessionFrame, OneInSection DEF ListPools, Typed, Goes, Calls, Locked,
        SessionInv, OwnHandles
  <2> QED
    BY <2>1, <2>2
<1>5. ASSUME NEW w \in Workers, GetKopsClientset(w) PROVE SessionInv(v)'
  <2>1. CASE v = w
    BY <1>0, <1>5, <2>1 DEF GetKopsClientset, SessionInv, Fresh, OwnContext, Unresolved,
        OwnEnvironment, OwnHandles, Resolved, CloudBuilt, Typed, NothingHeldIdle, Goes, Calls,
        Locked, Unset, Own, NoCloud
  <2>2. CASE v # w
    BY <1>0, <1>5, <2>2, SessionFrame, OneInSection DEF GetKopsClientset, Typed, Goes, Calls,
        Locked, SessionInv, OwnHandles
  <2> QED
    BY <2>1, <2>2
<1>6. ASSUME NEW w \in Workers, SetAccessKeyID(w) PROVE SessionInv(v)'
  <2>1. CASE v = w
    BY <1>0, <1>6, <2>1 DEF SetAccessKeyID, SessionInv, Fresh, OwnContext, Unresolved,
        OwnEnvironment, OwnHandles, Resolved, CloudBuilt, Typed, NothingHeldIdle, Goes, Calls,
        Locked, Unset, Own, NoCloud
  <2>2. CASE v # w
    BY <1>0, <1>6, <2>2, SessionFrame, OneInSection DEF SetAccessKeyID, Typed, Goes, Calls,
        Locked, SessionInv, OwnHandles
  <2> QED
    BY <2>1, <2>2
<1>7. ASSUME NEW w \in Workers, SetSecretAccessKey(w) PROVE SessionInv(v)'
  <2>1. CASE v = w
    BY <1>0, <1>7, <2>1 DEF SetSecretAccessKey, SessionInv, Fresh, OwnContext, Unresolved,
        OwnEnvironment, OwnHandles, Resolved, CloudBuilt, Typed, NothingHeldIdle, Goes, Calls,
        Locked, Unset, Own, NoCloud
  <2>2. CASE v # w
    BY <1>0, <1>7, <2>2, SessionFrame, OneInSection DEF SetSecretAccessKey, Typed, Goes,
        Calls, Locked, SessionInv, OwnHandles
  <2> QED
    BY <2>1, <2>2
<1>8. ASSUME NEW w \in Workers, ReconcilePoolsAndAddons(w) PROVE SessionInv(v)'
  <2>1. CASE v = w
    BY <1>0, <1>8, <2>1 DEF ReconcilePoolsAndAddons, Uses, SessionInv, Fresh, OwnContext,
        Unresolved, OwnEnvironment, OwnHandles, Resolved, CloudBuilt, Typed, NothingHeldIdle,
        Goes, Calls, Locked, Unset, Own, NoCloud
  <2>2. CASE v # w
    BY <1>0, <1>8, <2>2, SessionFrame, OneInSection DEF ReconcilePoolsAndAddons, Uses, Typed,
        Goes, Calls, Locked, SessionInv, OwnHandles
  <2> QED
    BY <2>1, <2>2
<1>9. ASSUME NEW w \in Workers, ParseFeatureFlags(w) PROVE SessionInv(v)'
  <2>1. CASE v = w
    BY <1>0, <1>9, <2>1 DEF ParseFeatureFlags, SessionInv, Fresh, OwnContext, Unresolved,
        OwnEnvironment, OwnHandles, Resolved, CloudBuilt, Typed, NothingHeldIdle, Goes, Calls,
        Locked, Unset, Own, NoCloud
  <2>2. CASE v # w
    BY <1>0, <1>9, <2>2, SessionFrame, OneInSection DEF ParseFeatureFlags, Typed, Goes, Calls,
        Locked, SessionInv, OwnHandles
  <2> QED
    BY <2>1, <2>2
<1>10. ASSUME NEW w \in Workers, BuildCloud(w) PROVE SessionInv(v)'
  <2>1. CASE v = w
    <3>1. pc[w] = "cloud" /\ job[w] \in KCPs /\ env = Own(job[w])
      BY <1>0, <1>10, <2>1 DEF BuildCloud, Goes, NothingHeldIdle, SessionInv, OwnEnvironment
    <3>2. CASE Goes(w, "cloud", IF deleting[w] THEN "kopsDelete" ELSE "state")
      <4>1. cloud'[w] = [credentials |-> Own(job[w]), flags |-> flags]
        BY <1>0, <1>10, <3>1, <3>2 DEF BuildCloud, Goes, Typed
      <4>2. cloud'[w].credentials = Own(job'[w]) /\ cloud'[w] # NoCloud
        BY <1>10, <3>1, <4>1 DEF BuildCloud, Own, NoCloud, Unset
      <4> QED
        BY <1>0, <1>10, <2>1, <3>1, <3>2, <4>2 DEF BuildCloud, Goes, Typed, Locked, SessionInv,
           Fresh, OwnContext, Unresolved, OwnEnvironment, OwnHandles, Resolved, CloudBuilt
    <3>3. CASE Goes(w, "cloud", "return") /\ UNCHANGED cloud
      BY <1>0, <1>10, <2>1, <3>1, <3>3 DEF BuildCloud, Goes, Typed, Locked, SessionInv, Fresh,
         OwnContext, Unresolved, OwnEnvironment, OwnHandles, Resolved, CloudBuilt
    <3> QED
      BY <1>10, <3>2, <3>3 DEF BuildCloud
  <2>2. CASE v # w
    BY <1>0, <1>10, <2>2, SessionFrame, OneInSection DEF BuildCloud, Typed, Goes, Calls,
        Locked, SessionInv, OwnHandles
  <2> QED
    BY <2>1, <2>2
<1>11. ASSUME NEW w \in Workers, ManageState(w) PROVE SessionInv(v)'
  <2>1. CASE v = w
    BY <1>0, <1>11, <2>1 DEF ManageState, Uses, SessionInv, Fresh, OwnContext, Unresolved,
        OwnEnvironment, OwnHandles, Resolved, CloudBuilt, Typed, NothingHeldIdle, Goes, Calls,
        Locked, Unset, Own, NoCloud
  <2>2. CASE v # w
    BY <1>0, <1>11, <2>2, SessionFrame, OneInSection DEF ManageState, Uses, Typed, Goes,
        Calls, Locked, SessionInv, OwnHandles
  <2> QED
    BY <2>1, <2>2
<1>12. ASSUME NEW w \in Workers, ReconcileKubeconfig(w) PROVE SessionInv(v)'
  <2>1. CASE v = w
    BY <1>0, <1>12, <2>1 DEF ReconcileKubeconfig, UnlocksAfter, Unlocks, SessionInv, Fresh,
        OwnContext, Unresolved, OwnEnvironment, OwnHandles, Resolved, CloudBuilt, Typed,
        NothingHeldIdle, Goes, Calls, Locked, Unset, Own, NoCloud
  <2>2. CASE v # w
    BY <1>0, <1>12, <2>2, SessionFrame, OneInSection DEF ReconcileKubeconfig, UnlocksAfter,
        Unlocks, Typed, Goes, Calls, Locked, SessionInv, OwnHandles
  <2> QED
    BY <2>1, <2>2
<1>13. ASSUME NEW w \in Workers, Plan(w) PROVE SessionInv(v)'
  <2>1. CASE v = w
    BY <1>0, <1>13, <2>1 DEF Plan, UnlocksAfter, Unlocks, SessionInv, Fresh, OwnContext,
        Unresolved, OwnEnvironment, OwnHandles, Resolved, CloudBuilt, Typed, NothingHeldIdle,
        Goes, Calls, Locked, Unset, Own, NoCloud
  <2>2. CASE v # w
    BY <1>0, <1>13, <2>2, SessionFrame, OneInSection DEF Plan, UnlocksAfter, Unlocks, Typed,
        Goes, Calls, Locked, SessionInv, OwnHandles
  <2> QED
    BY <2>1, <2>2
<1>14. ASSUME NEW w \in Workers, KopsDelete(w) PROVE SessionInv(v)'
  <2>1. CASE v = w
    BY <1>0, <1>14, <2>1 DEF KopsDelete, Uses, UnlocksAfter, Unlocks, SessionInv, Fresh,
        OwnContext, Unresolved, OwnEnvironment, OwnHandles, Resolved, CloudBuilt, Typed,
        NothingHeldIdle, Goes, Calls, Locked, Unset, Own, NoCloud
  <2>2. CASE v # w
    BY <1>0, <1>14, <2>2, SessionFrame, OneInSection DEF KopsDelete, Uses, UnlocksAfter,
        Unlocks, Typed, Goes, Calls, Locked, SessionInv, OwnHandles
  <2> QED
    BY <2>1, <2>2
<1>15. ASSUME NEW w \in Workers, Apply(w) PROVE SessionInv(v)'
  <2>1. CASE v = w
    BY <1>0, <1>15, <2>1 DEF Apply, SessionInv, Fresh, OwnContext, Unresolved, OwnEnvironment,
        OwnHandles, Resolved, CloudBuilt, Typed, NothingHeldIdle, Goes, Calls, Locked, Unset,
        Own, NoCloud
  <2>2. CASE v # w
    BY <1>0, <1>15, <2>2, SessionFrame, OneInSection DEF Apply, Typed, Goes, Calls, Locked,
        SessionInv, OwnHandles
  <2> QED
    BY <2>1, <2>2
<1>16. ASSUME NEW w \in Workers, Validate(w) PROVE SessionInv(v)'
  <2>1. CASE v = w
    BY <1>0, <1>16, <2>1 DEF Validate, Uses, SessionInv, Fresh, OwnContext, Unresolved,
        OwnEnvironment, OwnHandles, Resolved, CloudBuilt, Typed, NothingHeldIdle, Goes, Calls,
        Locked, Unset, Own, NoCloud
  <2>2. CASE v # w
    BY <1>0, <1>16, <2>2, SessionFrame, OneInSection DEF Validate, Uses, Typed, Goes, Calls,
        Locked, SessionInv, OwnHandles
  <2> QED
    BY <2>1, <2>2
<1>17. ASSUME NEW w \in Workers, DeleteOwners(w) PROVE SessionInv(v)'
  <2>1. CASE v = w
    BY <1>0, <1>17, <2>1 DEF DeleteOwners, SessionInv, Fresh, OwnContext, Unresolved,
        OwnEnvironment, OwnHandles, Resolved, CloudBuilt, Typed, NothingHeldIdle, Goes, Calls,
        Locked, Unset, Own, NoCloud
  <2>2. CASE v # w
    BY <1>0, <1>17, <2>2, SessionFrame, OneInSection DEF DeleteOwners, Typed, Goes, Calls,
        Locked, SessionInv, OwnHandles
  <2> QED
    BY <2>1, <2>2
<1>18. ASSUME NEW w \in Workers, DeferredUnlock(w) PROVE SessionInv(v)'
  <2>1. CASE v = w
    BY <1>0, <1>18, <2>1 DEF DeferredUnlock, Unlocks, SessionInv, Fresh, OwnContext,
        Unresolved, OwnEnvironment, OwnHandles, Resolved, CloudBuilt, Typed, NothingHeldIdle,
        Goes, Calls, Locked, Unset, Own, NoCloud
  <2>2. CASE v # w
    BY <1>0, <1>18, <2>2, SessionFrame, OneInSection DEF DeferredUnlock, Unlocks, Typed, Goes,
        Calls, Locked, SessionInv, OwnHandles
  <2> QED
    BY <2>1, <2>2
<1>19. ASSUME NEW w \in Workers, Save(w) PROVE SessionInv(v)'
  <2>1. CASE v = w
    BY <1>0, <1>19, <2>1 DEF Save, SessionInv, Fresh, OwnContext, Unresolved, OwnEnvironment,
        OwnHandles, Resolved, CloudBuilt, Typed, NothingHeldIdle, Goes, Calls, Locked, Unset,
        Own, NoCloud
  <2>2. CASE v # w
    BY <1>0, <1>19, <2>2, SessionFrame, OneInSection DEF Save, Typed, Goes, Calls, Locked,
        SessionInv, OwnHandles
  <2> QED
    BY <2>1, <2>2
<1>20. CASE UNCHANGED vars
  BY <1>0, <1>20, SessionFrame DEF vars
<1> QED
  BY <1>1, <1>2, <1>3, <1>4, <1>5, <1>6, <1>7, <1>8, <1>9, <1>10, <1>11, <1>12, <1>13,
     <1>14, <1>15, <1>16, <1>17, <1>18, <1>19, <1>20 DEF Next, Proceed

-----------------------------------------------------------------------------
\* The inductive invariant holds of every behaviour.
THEOREM Invariance == Spec => []IInv
<1>1. Init => IInv
  BY SentinelsAssumption DEF Init, IInv, TypeOK, Typed, NothingHeldIdle, MuxDiscipline, MuxHeldInSection,
     UnlockFlagAgrees, NoLeakedLock, SessionInv, Fresh, OwnContext, Unresolved, OwnEnvironment,
     OwnHandles, Resolved, CloudBuilt, PCs, Locked, Unlocked, Credentials, Clouds, NoCloud, Unset,
     Flags
<1>2. IInv /\ [Next]_vars => IInv'
  BY TypedStep, IdleStep, MuxStep, SessionStep DEF IInv, TypeOK
<1> QED
  BY <1>1, <1>2, PTL DEF Spec

\* The variables keep to their types, and idle workers hold nothing.
THEOREM TypeCorrect == Spec => []TypeOK
<1>1. IInv => TypeOK
  BY DEF IInv
<1> QED
  BY <1>1, Invariance, PTL

\* On every path, and in particular after every failing call, Mux, control flow
\* and shouldUnlock agree.
THEOREM MuxDisciplined == Spec => []MuxDiscipline
<1>1. IInv => MuxDiscipline
  BY DEF IInv
<1> QED
  BY <1>1, Invariance, PTL

\* Between Mux.Lock and Mux.Unlock there is one worker at most.
THEOREM MutualExclusion ==
  Spec => [](\A v, w \in Workers : pc[v] \in Locked /\ pc[w] \in Locked => v = w)
<1>1. MuxDiscipline => \A v, w \in Workers : pc[v] \in Locked /\ pc[w] \in Locked => v = w
  BY DEF MuxDiscipline, MuxHeldInSection
<1> QED
  BY <1>1, MuxDisciplined, PTL

\* Whether a worker has a resolved clientset or a cloud handle.
Opened(w) == (context[w] = w /\ bound[w] # Unset) \/ cloud[w] # NoCloud

\* Complete credentials of a control plane act in its account alone.
LEMMA OwnIsOne == ASSUME NEW k PROVE AccountsOf(Own(k)) = {k}
BY DEF AccountsOf, Own

\* A worker's accounts are exactly the control plane's, once it has a handle.
LEMMA ExactAccounts ==
  ASSUME IInv, NEW w \in Workers
  PROVE  AccountsOpen(w) = IF Opened(w) THEN {job[w]} ELSE {}
<1>1. context[w] \in {NoWorker, w} /\ w # NoWorker
  BY SentinelsAssumption DEF IInv, SessionInv, OwnHandles
<1>2. context[w] = w /\ bound[w] # Unset => AccountsOf(bound[w]) = {job[w]}
  BY OwnIsOne DEF IInv, SessionInv, OwnHandles
<1>3. cloud[w] # NoCloud => AccountsOf(cloud[w].credentials) = {job[w]}
  BY OwnIsOne DEF IInv, SessionInv, OwnHandles
<1> QED
  BY <1>1, <1>2, <1>3 DEF AccountsOpen, Opened

\* Every clientset and cloud handle acts in the account of the control plane
\* its worker reconciles, for any number of workers and control planes.
THEOREM Isolation == Spec => []SessionIsolated
<1>1. IInv => SessionIsolated
  BY ExactAccounts DEF SessionIsolated
<1> QED
  BY <1>1, Invariance, PTL

\* What is used after the unlock was resolved before it.
THEOREM ResolvedInTime == Spec => []NothingLateBound
<1>1. IInv => NothingLateBound
  BY DEF IInv, SessionInv, Resolved, NothingLateBound
<1> QED
  BY <1>1, Invariance, PTL

\* Only the holder of the Mux writes the process-wide state.
THEOREM WrittenInTurn == Spec => GlobalsWrittenInTurn
<1>1. ASSUME IInv, [Next]_vars
      PROVE  [<<env, vfs, flags, instances>>' # <<env, vfs, flags, instances>>
               => mux # NoWorker /\ mux' = mux /\ pc[mux] # pc'[mux]]_vars
  <2> SUFFICES ASSUME Next,
                      <<env, vfs, flags, instances>>' # <<env, vfs, flags, instances>>
               PROVE  mux # NoWorker /\ mux' = mux /\ pc[mux] # pc'[mux]
    BY <1>1
  <2>1. PICK w \in Workers :
          GetKopsClientset(w) \/ SetAccessKeyID(w) \/ SetSecretAccessKey(w)
          \/ ParseFeatureFlags(w) \/ BuildCloud(w)
    BY DEF Next, Proceed, Begin, Destroy, Lock, ListPools, ReconcilePoolsAndAddons, ManageState,
       ReconcileKubeconfig, Plan, KopsDelete, Apply, Validate, DeleteOwners, DeferredUnlock, Save,
       globals
  <2>2. /\ pc[w] \in Locked
        /\ mux' = mux
        /\ pc'[w] # pc[w]
    BY <1>1, <2>1 DEF GetKopsClientset, SetAccessKeyID, SetSecretAccessKey, ParseFeatureFlags,
       BuildCloud, Goes, Calls, Locked, IInv, TypeOK, Typed
  <2>3. mux = w
    BY <1>1, <2>2 DEF IInv, MuxDiscipline, MuxHeldInSection
  <2> QED
    BY <2>2, <2>3, SentinelsAssumption
<1> QED
  BY <1>1, Invariance, PTL DEF Spec, GlobalsWrittenInTurn

-----------------------------------------------------------------------------
\* Where the cloud handle was built on the normal path.
Built == {"state", "kubeconfig", "plan", "apply", "validate"}

\* The flags f hold all that k asks for, and of those that the parsing switches
\* off no others.
Suits(f, k) == FlagsOf(k) \subseteq f /\ f \intersect Parsed \subseteq FlagsOf(k)

\* The normal path builds the cloud under the flags it has just parsed.
FlagFacts(w) ==
  /\ pc[w] = "cloud" /\ ~deleting[w] => Suits(flags, job[w])
  /\ pc[w] \in Built => Suits(cloud[w].flags, job[w])

\* Parsing leaves nothing that it switches off of the previous flags.
LEMMA ParsedIsOwn ==
  ASSUME NEW f, NEW k
  PROVE  Suits(SpotinstParsed(KarpenterParsed(f, k), k), k)
BY DEF Suits, SpotinstParsed, KarpenterParsed, FlagsOf, SpotinstFlags, KarpenterFlags, Parsed, Reset

\* A worker's flag facts survive what neither builds its cloud nor touches the
\* flags while it is in the section.
LEMMA FlagFrame ==
  ASSUME NEW v \in Workers, FlagFacts(v),
         job'[v] = job[v], deleting'[v] = deleting[v], cloud'[v] = cloud[v],
         flags' = flags \/ pc[v] \notin Locked,
         pc'[v] = "cloud" => pc[v] = "cloud" \/ deleting[v],
         pc'[v] \in Built => pc[v] \in Built
  PROVE  FlagFacts(v)'
BY DEF FlagFacts, Built, Locked

\* Every step keeps the flag facts.
LEMMA FlagStep ==
  IInv /\ (\A v \in Workers : FlagFacts(v)) /\ [Next]_vars => \A v \in Workers : FlagFacts(v)'
<1> SUFFICES ASSUME IInv, \A u \in Workers : FlagFacts(u), [Next]_vars, NEW v \in Workers
             PROVE  FlagFacts(v)'
  OBVIOUS
<1> USE DEF globals, locals
<1>0. Typed /\ MuxDiscipline /\ FlagFacts(v)
  BY DEF IInv, TypeOK
<1>1. ASSUME NEW w \in Workers, NEW k \in KCPs, Begin(w, k) PROVE FlagFacts(v)'
  <2>1. CASE v = w
    BY <1>0, <1>1, <2>1 DEF Begin, Typed, Goes, FlagFacts, Built
  <2>2. CASE v # w
    BY <1>0, <1>1, <2>2, FlagFrame DEF Begin, Typed, Goes
  <2> QED
    BY <2>1, <2>2
<1>2. ASSUME NEW w \in Workers,
             Lock(w) \/ Destroy(w) \/ ListPools(w) \/ GetKopsClientset(w) \/ SetAccessKeyID(w)
               \/ SetSecretAccessKey(w)
      PROVE  FlagFacts(v)'
  BY <1>0, <1>2, FlagFrame
     DEF Lock, Destroy, ListPools, GetKopsClientset, SetAccessKeyID, SetSecretAccessKey, Typed,
         Goes, Calls, Built
<1>3. ASSUME NEW w \in Workers,
             ReconcilePoolsAndAddons(w) \/ ManageState(w) \/ ReconcileKubeconfig(w) \/ Plan(w)
               \/ KopsDelete(w)
      PROVE  FlagFacts(v)'
  BY <1>0, <1>3, FlagFrame
     DEF ReconcilePoolsAndAddons, ManageState, ReconcileKubeconfig, Plan, KopsDelete,
         UnlocksAfter, Typed, Goes, Calls, Built
<1>4. ASSUME NEW w \in Workers,
             Apply(w) \/ Validate(w) \/ DeleteOwners(w) \/ DeferredUnlock(w)
      PROVE  FlagFacts(v)'
  BY <1>0, <1>4, FlagFrame
     DEF Apply, Validate, DeleteOwners, DeferredUnlock, Typed, Goes, Calls, Built
<1>5. ASSUME NEW w \in Workers, ParseFeatureFlags(w) PROVE FlagFacts(v)'
  <2>1. CASE v = w
    <3>1. /\ flags' = SpotinstParsed(KarpenterParsed(flags, job[w]), job[w])
          /\ pc'[v] = "cloud" /\ job' = job
       \/ pc'[v] = "return"
      BY <1>0, <1>5, <2>1 DEF ParseFeatureFlags, Typed, Goes
    <3> QED
      BY <1>0, <2>1, <3>1, ParsedIsOwn DEF FlagFacts, Built, Typed
  <2>2. CASE v # w
    <3>1. pc[v] \notin Locked
      BY <1>0, <1>5, <2>2, OneInSection DEF ParseFeatureFlags, Goes, Locked
    <3> QED
      BY <1>0, <1>5, <2>2, <3>1, FlagFrame DEF ParseFeatureFlags, Typed, Goes
  <2> QED
    BY <2>1, <2>2
<1>6. ASSUME NEW w \in Workers, BuildCloud(w) PROVE FlagFacts(v)'
  <2>1. CASE v = w /\ pc'[w] = "return"
    BY <2>1 DEF FlagFacts, Built
  <2>2. CASE v = w /\ deleting[w]
    BY <1>0, <1>6, <2>2 DEF BuildCloud, Typed, Goes, FlagFacts, Built
  <2>3. CASE v = w /\ ~deleting[w] /\ pc'[w] = "state"
    <3>1. pc[v] = "cloud" /\ cloud'[v].flags = flags /\ job' = job
      BY <1>0, <1>6, <2>3 DEF BuildCloud, Typed, Goes
    <3> QED
      BY <1>0, <2>3, <3>1 DEF FlagFacts
  <2>4. CASE v # w
    BY <1>0, <1>6, <2>4, FlagFrame DEF BuildCloud, Typed, Goes
  <2>5. pc'[w] = "return" \/ deleting[w] \/ pc'[w] = "state"
    BY <1>0, <1>6 DEF BuildCloud, Typed, Goes
  <2> QED
    BY <2>1, <2>2, <2>3, <2>4, <2>5
<1>7. ASSUME NEW w \in Workers, Save(w) PROVE FlagFacts(v)'
  <2>1. CASE v = w
    BY <1>0, <1>7, <2>1 DEF Save, Typed, Goes, FlagFacts, Built
  <2>2. CASE v # w
    BY <1>0, <1>7, <2>2, FlagFrame DEF Save, Typed, Goes
  <2> QED
    BY <2>1, <2>2
<1>8. CASE UNCHANGED vars
  BY <1>0, <1>8, FlagFrame DEF vars
<1> QED
  BY <1>1, <1>2, <1>3, <1>4, <1>5, <1>6, <1>7, <1>8 DEF Next, Proceed

\* On the normal path the cloud handle has all flags of its own control plane,
\* and none of the list that the parsing switches off besides, whatever flags
\* other reconciliations left behind.
THEOREM FlagsAreOwn == Spec => []OwnFlags
<1> DEFINE Facts == \A w \in Workers : FlagFacts(w)
<1>1. Init => Facts
  BY DEF Init, FlagFacts, Built
<1>2. IInv /\ Facts /\ [Next]_vars => Facts'
  BY FlagStep
<1>3. Facts => OwnFlags
  BY DEF OwnFlags, FlagFacts, Built, Suits
<1> HIDE DEF Facts
<1> QED
  BY <1>1, <1>2, <1>3, Invariance, PTL DEF Spec

-----------------------------------------------------------------------------
\* The abstract accounts variable under the refinement mapping.
Accounts == [w \in Workers |-> AccountsOpen(w)]

\* The same after a step.
LEMMA ExactAccountsNext ==
  ASSUME IInv', NEW w \in Workers
  PROVE  AccountsOpen(w)' = IF Opened(w)' THEN {job'[w]} ELSE {}
<1>1. context'[w] \in {NoWorker, w} /\ w # NoWorker
  BY SentinelsAssumption DEF IInv, SessionInv, OwnHandles
<1>2. context'[w] = w /\ bound'[w] # Unset => AccountsOf(bound'[w]) = {job'[w]}
  BY OwnIsOne DEF IInv, SessionInv, OwnHandles
<1>3. cloud'[w] # NoCloud => AccountsOf(cloud'[w].credentials) = {job'[w]}
  BY OwnIsOne DEF IInv, SessionInv, OwnHandles
<1> QED
  BY <1>1, <1>2, <1>3 DEF AccountsOpen, Opened

\* Steps that open no handle leave the abstract accounts as they are.
LEMMA AccountsStay ==
  ASSUME IInv, IInv', job' = job, \A v \in Workers : Opened(v)' <=> Opened(v)
  PROVE  Accounts' = Accounts
<1>1. \A v \in Workers : AccountsOpen(v)' = AccountsOpen(v)
  BY ExactAccounts, ExactAccountsNext
<1> QED
  BY <1>1 DEF Accounts

\* A step that opens a handle of one worker gives it the served account.
LEMMA AccountsOpened ==
  ASSUME IInv, IInv', NEW w \in Workers, job' = job, Opened(w)',
         \A v \in Workers \ {w} : Opened(v)' <=> Opened(v)
  PROVE  Accounts' = [Accounts EXCEPT ![w] = {job[w]}]
<1>1. \A v \in Workers \ {w} : AccountsOpen(v)' = AccountsOpen(v)
  BY ExactAccounts, ExactAccountsNext
<1>2. AccountsOpen(w)' = {job[w]}
  BY ExactAccountsNext
<1> QED
  BY <1>1, <1>2 DEF Accounts

\* Every step of the workers is a step, or a stutter, of AccountSession.
LEMMA StepRefines ==
  IInv /\ IInv' /\ [Next]_vars => [Abstract!Next]_(Abstract!vars)
<1> SUFFICES ASSUME IInv, IInv', [Next]_vars
             PROVE  [Abstract!Next]_(Abstract!vars)
  OBVIOUS
<1> DEFINE Stutter == job' = job /\ mux' = mux /\ Accounts' = Accounts
<1> USE SentinelsAssumption
<1> USE DEF globals, locals, Goes, Calls
<1>0. /\ Typed
      /\ NothingHeldIdle
      /\ MuxDiscipline
      /\ \A u \in Workers : SessionInv(u)
  BY DEF IInv, TypeOK
<1>1. Stutter => [Abstract!Next]_(Abstract!vars)
  BY DEF Abstract!vars, Accounts
<1>2. ASSUME NEW w \in Workers, NEW k \in KCPs, Begin(w, k) PROVE Abstract!Accept(w, k)
  <2>1. job' = [job EXCEPT ![w] = k] /\ mux' = mux /\ Accounts' = Accounts
    BY <1>2 DEF Begin, Accounts, AccountsOpen
  <2> QED
    BY <1>0, <1>2, <2>1 DEF Begin, NothingHeldIdle, Abstract!Accept, Accounts
<1>3. ASSUME NEW w \in Workers, Lock(w) PROVE Abstract!Enter(w)
  <2>1. Accounts' = Accounts
    BY <1>3 DEF Lock, Accounts, AccountsOpen
  <2> QED
    BY <1>0, <1>3, <2>1 DEF Lock, NothingHeldIdle, Abstract!Enter, Accounts
<1>4. ASSUME NEW w \in Workers, Destroy(w) PROVE Stutter
  BY <1>4 DEF Destroy, Accounts, AccountsOpen
<1>5. ASSUME NEW w \in Workers, ListPools(w) PROVE Stutter
  BY <1>5 DEF ListPools, Accounts, AccountsOpen
<1>6. ASSUME NEW w \in Workers, GetKopsClientset(w) PROVE Stutter
  <2>1. \A v \in Workers : Opened(v)' <=> Opened(v)
    BY <1>0, <1>6 DEF GetKopsClientset, Opened, Typed, SessionInv, Fresh
  <2> QED
    BY <1>6, <2>1, AccountsStay DEF GetKopsClientset
<1>7. ASSUME NEW w \in Workers, SetAccessKeyID(w) PROVE Stutter
  BY <1>7 DEF SetAccessKeyID, Accounts, AccountsOpen
<1>8. ASSUME NEW w \in Workers, SetSecretAccessKey(w) PROVE Stutter
  BY <1>8 DEF SetSecretAccessKey, Accounts, AccountsOpen
<1>9. ASSUME NEW w \in Workers, ParseFeatureFlags(w) PROVE Stutter
  BY <1>9 DEF ParseFeatureFlags, Accounts, AccountsOpen
<1>10. ASSUME NEW w \in Workers, Apply(w) PROVE Stutter
  BY <1>10 DEF Apply, Accounts, AccountsOpen
<1>11. ASSUME NEW w \in Workers, DeleteOwners(w) PROVE Stutter
  BY <1>11 DEF DeleteOwners, Accounts, AccountsOpen
<1>12. ASSUME NEW w \in Workers, ReconcilePoolsAndAddons(w) PROVE Abstract!Open(w)
  <2>1. /\ context[w] = w
        /\ env = Own(job[w])
        /\ job[w] \in KCPs
        /\ mux = w
    BY <1>0, <1>12 DEF ReconcilePoolsAndAddons, SessionInv, OwnContext, OwnEnvironment, NothingHeldIdle,
       MuxDiscipline, MuxHeldInSection, Locked
  <2>2. Opened(w)' /\ \A v \in Workers \ {w} : Opened(v)' <=> Opened(v)
    BY <1>0, <1>12, <2>1 DEF ReconcilePoolsAndAddons, Uses, Opened, Typed, Own, Unset
  <2>3. Accounts' = [Accounts EXCEPT ![w] = {job[w]}]
    BY <1>12, <2>2, AccountsOpened DEF ReconcilePoolsAndAddons
  <2> QED
    BY <1>12, <2>1, <2>3 DEF ReconcilePoolsAndAddons, Abstract!Open, Accounts
<1>13. ASSUME NEW w \in Workers, ManageState(w) PROVE Abstract!Open(w)
  <2>1. /\ context[w] = w
        /\ env = Own(job[w])
        /\ job[w] \in KCPs
        /\ mux = w
    BY <1>0, <1>13 DEF ManageState, SessionInv, OwnContext, OwnEnvironment, NothingHeldIdle,
       MuxDiscipline, MuxHeldInSection, Locked
  <2>2. Opened(w)' /\ \A v \in Workers \ {w} : Opened(v)' <=> Opened(v)
    BY <1>0, <1>13, <2>1 DEF ManageState, Uses, Opened, Typed, Own, Unset
  <2>3. Accounts' = [Accounts EXCEPT ![w] = {job[w]}]
    BY <1>13, <2>2, AccountsOpened DEF ManageState
  <2> QED
    BY <1>13, <2>1, <2>3 DEF ManageState, Abstract!Open, Accounts
<1>14. ASSUME NEW w \in Workers, BuildCloud(w) PROVE Abstract!Open(w) \/ Stutter
  <2>1. mux = w
    BY <1>0, <1>14 DEF BuildCloud, MuxDiscipline, MuxHeldInSection, Locked
  <2>2. CASE cloud' = cloud
    BY <1>14, <2>2 DEF BuildCloud, Accounts, AccountsOpen
  <2>3. CASE cloud' # cloud
    <3>1. Goes(w, "cloud", IF deleting[w] THEN "kopsDelete" ELSE "state")
          /\ cloud' = [cloud EXCEPT ![w] = instances']
      BY <1>14, <2>3 DEF BuildCloud
    <3>2. pc'[w] \in {"state", "kopsDelete"}
      BY <1>0, <3>1 DEF Typed
    <3>3. Opened(w)'
      BY <3>2 DEF IInv, SessionInv, CloudBuilt, Opened
    <3>4. \A v \in Workers \ {w} : Opened(v)' <=> Opened(v)
      BY <1>0, <1>14, <3>1 DEF BuildCloud, Opened, Typed
    <3>5. Accounts' = [Accounts EXCEPT ![w] = {job[w]}]
      BY <1>14, <3>3, <3>4, AccountsOpened DEF BuildCloud
    <3> QED
      BY <1>14, <2>1, <3>5 DEF BuildCloud, Abstract!Open, Accounts
  <2> QED
    BY <2>2, <2>3
<1>15. ASSUME NEW w \in Workers, ReconcileKubeconfig(w) PROVE Abstract!Leave(w) \/ Stutter
  BY <1>0, <1>15 DEF ReconcileKubeconfig, UnlocksAfter, Unlocks, MuxDiscipline, MuxHeldInSection, Locked,
     Abstract!Leave, Accounts, AccountsOpen
<1>16. ASSUME NEW w \in Workers, Plan(w) PROVE Abstract!Leave(w) \/ Stutter
  BY <1>0, <1>16 DEF Plan, UnlocksAfter, Unlocks, MuxDiscipline, MuxHeldInSection, Locked,
     Abstract!Leave, Accounts, AccountsOpen
<1>17. ASSUME NEW w \in Workers, KopsDelete(w) PROVE Abstract!Leave(w) \/ Stutter
  <2>1. mux = w /\ cloud[w] # NoCloud /\ context[w] = w
    BY <1>0, <1>17 DEF KopsDelete, UnlocksAfter, SessionInv, CloudBuilt, OwnContext, MuxDiscipline,
       MuxHeldInSection, Locked
  <2>2. \A v \in Workers : Opened(v)' <=> Opened(v)
    BY <1>0, <1>17, <2>1 DEF KopsDelete, Uses, Opened, Typed
  <2>3. Accounts' = Accounts
    BY <1>17, <2>2, AccountsStay DEF KopsDelete
  <2> QED
    BY <1>17, <2>1, <2>3 DEF KopsDelete, UnlocksAfter, Unlocks, Abstract!Leave, Accounts
<1>18. ASSUME NEW w \in Workers, Validate(w) PROVE Stutter
  <2>1. context[w] = w /\ bound[w] = Own(job[w]) /\ job[w] \in KCPs
    BY <1>0, <1>18 DEF Validate, SessionInv, Resolved, NothingHeldIdle
  <2>2. bound' = bound
    BY <1>18, <2>1 DEF Validate, Uses, Own, Unset
  <2> QED
    BY <1>18, <2>2 DEF Validate, Accounts, AccountsOpen
<1>19. ASSUME NEW w \in Workers, DeferredUnlock(w) PROVE Abstract!Leave(w) \/ Stutter
  BY <1>0, <1>19 DEF DeferredUnlock, Unlocks, MuxDiscipline, UnlockFlagAgrees, Abstract!Leave,
     Accounts, AccountsOpen
<1>20. ASSUME NEW w \in Workers, Save(w) PROVE Abstract!Finish(w)
  <2>1. mux # w /\ job[w] \in KCPs
    BY <1>0, <1>20 DEF Save, MuxDiscipline, NoLeakedLock, NothingHeldIdle, Locked
  <2>2. AccountsOpen(w)' = {}
    BY <1>0, <1>20 DEF Save, Typed, AccountsOpen
  <2>3. \A v \in Workers \ {w} : AccountsOpen(v)' = AccountsOpen(v)
    BY <1>0, <1>20 DEF Save, Typed, AccountsOpen
  <2>4. Accounts' = [Accounts EXCEPT ![w] = {}]
    BY <2>2, <2>3 DEF Accounts
  <2> QED
    BY <1>20, <2>1, <2>4 DEF Save, Abstract!Finish, Accounts
<1>21. CASE UNCHANGED vars
  BY <1>1, <1>21 DEF vars, Accounts, AccountsOpen
<1> QED
  BY <1>1, <1>2, <1>3, <1>4, <1>5, <1>6, <1>7, <1>8, <1>9, <1>10, <1>11, <1>12, <1>13, <1>14, <1>15, <1>16, <1>17, <1>18, <1>19, <1>20, <1>21
     DEF Next, Proceed, Abstract!Next

\* The reconciler keeps AccountSession's promise: one worker per control plane
\* and one account per worker, for any number of workers and control planes.
THEOREM Refinement == Spec => ImplementsAccountSession
<1>1. Init => Abstract!Init
  BY DEF Init, Abstract!Init, AccountsOpen, NoCloud
<1> QED
  BY <1>1, StepRefines, Invariance, PTL DEF Spec, ImplementsAccountSession, Abstract!Spec
=============================================================================
