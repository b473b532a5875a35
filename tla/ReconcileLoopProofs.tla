------------------------- MODULE ReconcileLoopProofs -------------------------
(***************************************************************************)
(* Proofs about ReconcileLoop, for any bounds and with or without cleanup. *)
(*                                                                         *)
(* NeverForgotten needs to know that the filter of the generations loses   *)
(* nothing: what the informer has not seen and is no news to the filter    *)
(* leaves the class as it was (CacheInv), and what Reconcile writes back   *)
(* is based on the latest version (CopyInv).  EditsKept needs the latter   *)
(* too, and that only an unprotected deletion gets to the path that ends   *)
(* the object (DestroyInv).                                                *)
(***************************************************************************)
EXTENDS ReconcileLoop, TLAPS

\* Generations are made by edits, and by the controller if the addon is off, as
\* it is at first and an edit may leave it.
GenBound == kcp.gen <= 1 + 2 * edits + (IF kcp.addon THEN 1 ELSE 0)

\* Of one generation, the class is the same; a cache that is up to date has the
\* latest version, or nothing if there is none.
CacheInv ==
  /\ cache.phase # "absent" =>
       cache.gen <= kcp.gen /\ (cache.gen = kcp.gen => cache.ours = kcp.ours)
  /\ ~behind => cache = kcp \/ (cache.phase = "absent" /\ kcp.phase = "absent")

\* A copy that is not stale differs from the latest version by its addon, its
\* status and its end.
CopyInv ==
  pc # "idle" /\ ~stale =>
    /\ mem.gen = kcp.gen
    /\ mem.ours = kcp.ours
    /\ mem.protected = kcp.protected
    /\ mem.muted = kcp.muted
    /\ mem.phase = kcp.phase \/ (mem.phase = "absent" /\ ShouldDelete(kcp))
    /\ kcp.addon => mem.addon

\* What is destroyed was deleted, and was not protected when it was read.
DestroyInv == pc = "destroy" => ShouldDelete(mem)

\* Past the first returns, every result has a time or an error.
ResultInv == pc \in {"save", "status", "clean"} => again

IInv ==
  TypeOK /\ GenBound /\ CacheInv /\ CopyInv /\ DestroyInv /\ ResultInv /\ NeverForgotten
-----------------------------------------------------------------------------
LEMMA FaultTyped == faults \in 0 .. MaxFaults /\ Fault => faults' \in 0 .. MaxFaults
BY ConstantsAssumption DEF Fault

LEMMA EditsTyped ==
  edits \in 0 .. MaxEdits /\ Edits => edits' \in 0 .. MaxEdits /\ edits' = edits + 1
BY ConstantsAssumption DEF Edits

\* The records that the API server and the copies are made of, and what is done
\* to them.
LEMMA RecordFacts ==
  /\ Absent \in ControlPlane
  /\ \A b, c \in BOOLEAN : Version("live", 1, b, c) \in ControlPlane
  /\ Spec0 \in Specs
BY ConstantsAssumption DEF Version, Absent, ControlPlane, Generations, Spec0, Specs

LEMMA UpdateFacts ==
  ASSUME NEW k \in ControlPlane
  PROVE
    /\ \A b \in BOOLEAN :
         /\ [k EXCEPT !.protected = b] \in ControlPlane
         /\ [k EXCEPT !.muted = b] \in ControlPlane
         /\ [k EXCEPT !.ready = b] \in ControlPlane
         /\ [k EXCEPT !.paused = b] \in ControlPlane
         /\ [k EXCEPT !.addon = b] \in ControlPlane
         /\ \A c \in BOOLEAN :
              /\ [k EXCEPT !.paused = b, !.ready = c] \in ControlPlane
              /\ [k EXCEPT !.ready = b, !.paused = c] \in ControlPlane
    /\ [k EXCEPT !.phase = "absent"] \in ControlPlane
BY DEF ControlPlane

LEMMA GenerationFacts ==
  ASSUME NEW k \in ControlPlane, NEW g \in Generations
  PROVE
    /\ \A b, c \in BOOLEAN : [k EXCEPT !.gen = g, !.ours = b, !.addon = c] \in ControlPlane
    /\ [k EXCEPT !.phase = "deleting", !.gen = g] \in ControlPlane
    /\ \A b, c \in BOOLEAN : [k EXCEPT !.ready = b, !.paused = c, !.gen = g] \in ControlPlane
BY DEF ControlPlane

LEMMA FieldFacts ==
  ASSUME NEW k \in ControlPlane
  PROVE  /\ k.phase \in {"absent", "live", "deleting"}
         /\ k.gen \in Generations /\ k.gen \in Nat
         /\ k.ours \in BOOLEAN /\ k.protected \in BOOLEAN /\ k.muted \in BOOLEAN
         /\ k.addon \in BOOLEAN
         /\ k.ready \in BOOLEAN /\ k.paused \in BOOLEAN
BY DEF ControlPlane, Generations

\* An edit and the addon leave room for one more generation.
LEMMA RoomForEdit ==
  TypeOK /\ GenBound /\ Edits => kcp.gen + 1 \in Generations
BY FieldFacts, ConstantsAssumption DEF TypeOK, GenBound, Edits, Generations

LEMMA RoomForAddon ==
  TypeOK /\ GenBound /\ CopyInv /\ pc # "idle" /\ ~stale =>
    (IF mem.addon = kcp.addon THEN mem.gen ELSE mem.gen + 1) \in Generations
<1> SUFFICES ASSUME TypeOK, GenBound, CopyInv, pc # "idle", ~stale
             PROVE  (IF mem.addon = kcp.addon THEN mem.gen ELSE mem.gen + 1) \in Generations
  OBVIOUS
<1>1. mem.gen = kcp.gen /\ (kcp.addon => mem.addon) /\ mem.addon \in BOOLEAN /\ kcp.addon \in BOOLEAN
  BY FieldFacts DEF TypeOK, CopyInv
<1>2. kcp.gen \in Generations /\ edits \in 0 .. MaxEdits
  BY FieldFacts DEF TypeOK
<1>3. CASE mem.addon = kcp.addon
  BY <1>1, <1>2, <1>3
<1>4. CASE mem.addon # kcp.addon
  <2>1. ~kcp.addon
    BY <1>1, <1>4
  <2> QED
    BY <1>1, <1>2, <1>4, <2>1, ConstantsAssumption DEF GenBound, Generations
<1> QED
  BY <1>3, <1>4

LEMMA UpdatedTyped ==
  TypeOK /\ GenBound /\ CopyInv /\ pc # "idle" /\ ~stale => Updated \in ControlPlane
<1> SUFFICES ASSUME TypeOK, GenBound, CopyInv, pc # "idle", ~stale PROVE Updated \in ControlPlane
  OBVIOUS
<1> DEFINE g == IF mem.addon = kcp.addon THEN mem.gen ELSE mem.gen + 1
<1>1. Updated = [mem EXCEPT !.ready = kcp.ready, !.paused = kcp.paused, !.gen = g]
  BY DEF Updated
<1>2. g \in Generations
  BY RoomForAddon
<1>3. kcp.ready \in BOOLEAN /\ kcp.paused \in BOOLEAN /\ mem \in ControlPlane
  BY FieldFacts DEF TypeOK
<1> HIDE DEF g
<1> QED
  BY <1>1, <1>2, <1>3, GenerationFacts

\* Every step keeps the types; new generations stay within the bound.
LEMMA TypeStep == TypeOK /\ GenBound /\ CopyInv /\ [Next]_vars => TypeOK'
<1> SUFFICES ASSUME TypeOK, GenBound, CopyInv, [Next]_vars PROVE TypeOK'
  OBVIOUS
<1> USE FaultTyped, EditsTyped DEF TypeOK, world, api, queue, copies, cloud
<1>1. CASE EditSpec
  <2> DEFINE g == kcp.gen + 1
  <2>1. g \in Generations
    BY <1>1, RoomForEdit DEF EditSpec
  <2>2. \E b \in BOOLEAN, c \in {kcp.addon, FALSE} :
          Writes([kcp EXCEPT !.gen = g, !.ours = b, !.addon = c])
    BY <1>1 DEF EditSpec
  <2> HIDE DEF g
  <2>3. PICK b \in BOOLEAN, c \in BOOLEAN : Writes([kcp EXCEPT !.gen = g, !.ours = b, !.addon = c])
    BY <2>2, FieldFacts
  <2>4. kcp' \in ControlPlane
    BY <2>1, <2>3, GenerationFacts DEF Writes
  <2>5. behind' \in BOOLEAN /\ stale' \in BOOLEAN
    BY <2>3 DEF Writes
  <2> QED
    BY <1>1, <2>4, <2>5 DEF EditSpec
<1>2. CASE Delete
  <2> DEFINE g == kcp.gen + 1
  <2>1. g \in Generations
    BY <1>2, RoomForEdit DEF Delete
  <2>2. Writes([kcp EXCEPT !.phase = "deleting", !.gen = g])
    BY <1>2 DEF Delete
  <2> HIDE DEF g
  <2>3. kcp' \in ControlPlane
    BY <2>1, <2>2, GenerationFacts DEF Writes
  <2>4. behind' \in BOOLEAN /\ stale' \in BOOLEAN
    BY <2>2 DEF Writes
  <2> QED
    BY <1>2, <2>3, <2>4 DEF Delete
<1>3. CASE Annotate
  <2>1. /\ \/ kcp' = [kcp EXCEPT !.protected = ~kcp.protected]
           \/ kcp' = [kcp EXCEPT !.muted = ~kcp.muted]
        /\ behind' \in BOOLEAN /\ stale' \in BOOLEAN
    BY <1>3 DEF Annotate, Writes
  <2>2. (~kcp.protected) \in BOOLEAN /\ (~kcp.muted) \in BOOLEAN
    OBVIOUS
  <2>3. kcp' \in ControlPlane
    BY <2>1, <2>2, UpdateFacts
  <2> QED
    BY <1>3, <2>1, <2>3 DEF Annotate
<1>4. CASE ChangeWorld
  <2>1. paused' \in BOOLEAN /\ healthy' \in BOOLEAN /\ edits' \in 0 .. MaxEdits
    BY <1>4 DEF ChangeWorld
  <2> QED
    BY <1>4, <2>1 DEF ChangeWorld
<1>5. CASE ChangePools
  BY <1>5 DEF ChangePools
<1>6. CASE Crash
  BY <1>6, RecordFacts DEF Crash, Forgets
<1>7. CASE Deliver
  <2>1. missed' \in BOOLEAN
    <3>1. \/ missed' = FALSE \/ missed' = missed \/ missed' = ~Known
      BY <1>7 DEF Deliver, Wakes
    <3>2. (~Known) \in BOOLEAN
      BY DEF Known
    <3> QED
      BY <3>1, <3>2
  <2>2. dirty' \in BOOLEAN /\ timer' = timer
    BY <1>7 DEF Deliver, Wakes
  <2> QED
    BY <1>7, <2>1, <2>2 DEF Deliver
<1>8. CASE DeliverPool
  <2>1. \/ dirty' = TRUE /\ missed' = FALSE /\ timer' = timer
        \/ UNCHANGED <<dirty, timer, missed>>
    BY <1>8, Zenon DEF DeliverPool, Wakes
  <2>2. dirty' \in BOOLEAN /\ timer' \in BOOLEAN /\ missed' \in BOOLEAN
    BY <2>1
  <2>3. UNCHANGED <<api, cache, world, copies, files, cloud, faults>> /\ poolEvent' = FALSE
    BY <1>8 DEF DeliverPool
  <2> QED
    BY <2>2, <2>3
<1>9. CASE TimerFires
  BY <1>9, ZenonT(30) DEF TimerFires
<1>10. CASE Start
  <2>1. /\ UNCHANGED <<kcp, cache, behind, paused, karpenter, healthy, edits, poolEvent, files>>
        /\ UNCHANGED <<applied, manifest>>
        /\ dirty' = FALSE /\ missed' = missed
    BY <1>10 DEF Start
  <2>2. timer' \in BOOLEAN /\ stale' \in BOOLEAN /\ faults' \in 0 .. MaxFaults
    BY <1>10 DEF Start, ReturnsEarly, PausedReturn, StartFails
  <2>3. again' \in BOOLEAN /\ pc' \in Busy \union {"idle"}
    BY <1>10 DEF Start, ReturnsEarly, PausedReturn, StartFails, StartsOn, Returns, Busy
  <2>4. spec' \in Specs
    BY <1>10, FieldFacts DEF Start, ReturnsEarly, PausedReturn, StartFails, StartsOn, Specs
  <2>5. \/ mem' = mem
        \/ mem' = [cache EXCEPT !.paused = TRUE]
        \/ mem' = [cache EXCEPT !.paused = FALSE, !.ready = FALSE]
    BY <1>10 DEF Start, ReturnsEarly, PausedReturn, StartFails, StartsOn
  <2>6. mem' \in ControlPlane
    BY <2>5, UpdateFacts
  <2> QED
    BY <2>1, <2>2, <2>3, <2>4, <2>6
<1>11. CASE Generate
  <2>1. mem' = [mem EXCEPT !.addon = mem.addon \/ karpenter]
    BY <1>11 DEF Generate
  <2>2. mem.addon \/ karpenter \in BOOLEAN
    BY FieldFacts
  <2>3. mem' \in ControlPlane
    BY <2>1, <2>2, UpdateFacts
  <2>4. files' \subseteq Files
    BY <1>11 DEF Generate, Generated, Files
  <2>5. pc' \in Busy /\ again' \in BOOLEAN /\ faults' \in 0 .. MaxFaults
    BY <1>11 DEF Generate, Returns, Busy
  <2> QED
    BY <1>11, <2>3, <2>4, <2>5 DEF Generate
<1>12. CASE Apply
  <2>1. pc' \in Busy /\ again' \in BOOLEAN /\ faults' \in 0 .. MaxFaults
    BY <1>12 DEF Apply, Returns, Busy
  <2>2. applied' \in Specs
    BY <1>12 DEF Apply
  <2>3. manifest' = manifest \/ manifest' = ("karpenter.tf" \in files)
    BY <1>12, Zenon DEF Apply
  <2>4. ("karpenter.tf" \in files) \in BOOLEAN /\ manifest \in BOOLEAN
    OBVIOUS
  <2>5. manifest' \in BOOLEAN
    BY ONLY <2>3, <2>4
  <2> QED
    BY <1>12, <2>1, <2>2, <2>5 DEF Apply
<1>13. CASE Validate
  <2>1. mem' = mem \/ mem' = [mem EXCEPT !.ready = healthy]
    BY <1>13 DEF Validate
  <2>2. mem' \in ControlPlane
    BY <2>1, UpdateFacts
  <2> QED
    BY <1>13, <2>2 DEF Validate, Returns, Busy
<1>14. CASE Destroy
  <2>1. mem' = mem \/ mem' = [mem EXCEPT !.phase = "absent"]
    BY <1>14 DEF Destroy
  <2>2. mem' \in ControlPlane
    BY <2>1, UpdateFacts
  <2>3. files' \subseteq Files
    BY <1>14 DEF Destroy, Files
  <2>4. applied' \in Specs /\ manifest' \in BOOLEAN
    BY <1>14, RecordFacts DEF Destroy
  <2> QED
    BY <1>14, <2>2, <2>3, <2>4 DEF Destroy, Returns, Busy
<1>15. CASE Save
  <2> DEFINE saved == [Updated EXCEPT !.ready = mem.ready, !.paused = mem.paused]
  <2>1. ~stale => Updated \in ControlPlane /\ saved \in ControlPlane
    <3>1. SUFFICES ASSUME ~stale PROVE Updated \in ControlPlane /\ saved \in ControlPlane
      OBVIOUS
    <3>2. Updated \in ControlPlane
      BY <1>15, <3>1, UpdatedTyped DEF Save
    <3>3. mem.ready \in BOOLEAN /\ mem.paused \in BOOLEAN
      BY FieldFacts
    <3> QED
      BY <3>2, <3>3, UpdateFacts
  <2>2. \/ ~stale /\ kcp' = Updated /\ mem' = saved
        \/ UNCHANGED <<kcp, mem>>
    BY <1>15 DEF Save
  <2> HIDE DEF saved
  <2>3. kcp' \in ControlPlane /\ mem' \in ControlPlane
    BY <2>1, <2>2
  <2>4. behind' \in BOOLEAN /\ poolEvent' \in BOOLEAN /\ pc' \in Busy /\ faults' \in 0 .. MaxFaults
    BY <1>15 DEF Save, SavePools, Busy
  <2> QED
    BY <1>15, <2>3, <2>4 DEF Save
<1>16. CASE SaveStatus
  <2>1. kcp' = kcp \/ kcp' = [kcp EXCEPT !.ready = mem.ready, !.paused = mem.paused]
    BY <1>16 DEF SaveStatus
  <2>2. mem.ready \in BOOLEAN /\ mem.paused \in BOOLEAN
    BY FieldFacts
  <2>3. kcp' \in ControlPlane
    BY <2>1, <2>2, UpdateFacts, ZenonT(30)
  <2>4. behind' \in BOOLEAN /\ pc' \in Busy /\ faults' \in 0 .. MaxFaults
    BY <1>16 DEF SaveStatus, Busy
  <2> QED
    BY <1>16, <2>3, <2>4 DEF SaveStatus
<1>17. CASE Clean
  BY <1>17, RecordFacts DEF Clean, Forgets
<1>18. CASE UNCHANGED vars
  BY <1>18 DEF vars
<1> QED
  BY <1>1, <1>2, <1>3, <1>4, <1>5, <1>6, <1>7, <1>8, <1>9, <1>10, <1>11, <1>12, <1>13, <1>14,
     <1>15, <1>16, <1>17, <1>18 DEF Next, Environment, Reconcile

\* The steps that write the control plane keep what the copies are based on.
LEMMA VersionsStep ==
  TypeOK /\ GenBound /\ CacheInv /\ CopyInv /\ DestroyInv /\ [Next]_vars
    => (GenBound /\ CacheInv /\ CopyInv)'
<1> SUFFICES ASSUME TypeOK, GenBound, CacheInv, CopyInv, DestroyInv, [Next]_vars
             PROVE  (GenBound /\ CacheInv /\ CopyInv)'
  OBVIOUS
<1> USE ConstantsAssumption
    DEF TypeOK, GenBound, CacheInv, CopyInv, ShouldDelete, world, api, queue, copies, cloud
<1>1. /\ kcp.gen \in Nat /\ cache.gen \in Nat /\ mem.gen \in Nat /\ edits \in Nat
      /\ kcp \in ControlPlane /\ cache \in ControlPlane /\ mem \in ControlPlane
  BY DEF ControlPlane, Generations
<1>2. CASE EditSpec \/ Delete
  <2>1. kcp'.gen = kcp.gen + 1 /\ behind' /\ (pc # "idle" => stale')
    BY <1>1, <1>2 DEF EditSpec, Delete, Writes, ControlPlane
  <2>2. edits' = edits + 1 /\ UNCHANGED <<cache, pc>>
    BY <1>2, EditsTyped DEF EditSpec, Delete
  <2>3. GenBound'
    BY <1>1, <2>1, <2>2
  <2>4. CacheInv'
    BY <1>1, <2>1, <2>2
  <2>5. CopyInv'
    BY <2>1, <2>2
  <2> QED
    BY <2>3, <2>4, <2>5
<1>4. CASE Annotate
  <2>1. /\ kcp'.gen = kcp.gen /\ kcp'.ours = kcp.ours /\ kcp'.addon = kcp.addon
        /\ kcp'.phase = kcp.phase
        /\ behind' /\ (pc # "idle" => stale')
    BY <1>1, <1>4 DEF Annotate, Writes, ControlPlane
  <2>2. edits' = edits + 1 /\ UNCHANGED <<cache, pc>>
    BY <1>4, EditsTyped DEF Annotate
  <2> QED
    BY <1>1, <2>1, <2>2
<1>5. CASE ChangeWorld \/ ChangePools
  BY <1>1, <1>5 DEF ChangeWorld, ChangePools, Edits
<1>6. CASE Crash
  BY <1>1, <1>6 DEF Crash, Forgets, Absent, Version
<1>7. CASE Deliver \/ DeliverPool \/ TimerFires
  BY <1>1, <1>7 DEF Deliver, DeliverPool, TimerFires
<1>8. CASE Start
  <2>1. UNCHANGED <<kcp, cache, behind, edits>>
    BY <1>8 DEF Start
  <2>2. \/ pc' = "idle"
        \/ /\ stale' = behind /\ cache.phase # "absent"
           /\ mem' = [cache EXCEPT !.paused = TRUE]
        \/ /\ stale' = behind /\ cache.phase # "absent"
           /\ mem' = [cache EXCEPT !.paused = FALSE, !.ready = FALSE]
    BY <1>8, Zenon DEF Start, ReturnsEarly, PausedReturn, StartFails, StartsOn, Returns
  <2>3. pc' = "idle" \/ (stale' = behind /\ cache.phase # "absent"
          /\ mem'.gen = cache.gen /\ mem'.ours = cache.ours /\ mem'.addon = cache.addon
          /\ mem'.protected = cache.protected /\ mem'.muted = cache.muted
          /\ mem'.phase = cache.phase)
    BY <1>1, <2>2 DEF ControlPlane
  <2> QED
    BY <1>1, <2>1, <2>3
<1>9. CASE Generate
  BY <1>1, <1>9 DEF Generate, Returns, ControlPlane
<1>10. CASE Apply
  BY <1>1, <1>10 DEF Apply, Returns
<1>11. CASE Validate
  BY <1>1, <1>11 DEF Validate, Returns, ControlPlane
<1>12. CASE Destroy
  <2>1. mem' = mem \/ mem' = [mem EXCEPT !.phase = "absent"]
    BY <1>12 DEF Destroy
  <2>2. mem.phase = "deleting" /\ ~mem.protected
    BY <1>12 DEF Destroy, DestroyInv
  <2>3. /\ mem'.gen = mem.gen /\ mem'.ours = mem.ours
        /\ mem'.protected = mem.protected /\ mem'.muted = mem.muted /\ mem'.addon = mem.addon
        /\ mem'.phase = mem.phase \/ mem'.phase = "absent"
    BY <1>1, <2>1 DEF ControlPlane
  <2>4. pc = "destroy" /\ UNCHANGED <<kcp, cache, behind, stale, edits>>
    BY <1>12 DEF Destroy
  <2> QED
    BY <1>1, <2>2, <2>3, <2>4
<1>13. CASE Save
  <2> DEFINE g == IF mem.addon = kcp.addon THEN mem.gen ELSE mem.gen + 1
             saved == [Updated EXCEPT !.ready = mem.ready, !.paused = mem.paused]
  <2>1. UNCHANGED <<cache, stale, edits>> /\ pc = "save"
    BY <1>13 DEF Save
  <2>2. \/ ~stale /\ behind' /\ kcp' = Updated /\ mem' = saved
        \/ UNCHANGED <<kcp, behind, mem>>
    BY <1>13 DEF Save
  <2>3. /\ Updated.gen = g /\ saved.gen = g
        /\ Updated.ours = mem.ours /\ saved.ours = mem.ours
        /\ Updated.addon = mem.addon /\ saved.addon = mem.addon
        /\ Updated.protected = mem.protected /\ saved.protected = mem.protected
        /\ Updated.muted = mem.muted /\ saved.muted = mem.muted
        /\ Updated.phase = mem.phase /\ saved.phase = mem.phase
    BY <1>1 DEF Updated, ControlPlane
  <2>4. CASE ~stale /\ behind' /\ kcp' = Updated /\ mem' = saved
    <3>1. /\ mem.gen = kcp.gen /\ mem.ours = kcp.ours /\ (kcp.addon => mem.addon)
          /\ mem.addon \in BOOLEAN /\ kcp.addon \in BOOLEAN
      BY <1>1, <2>1, <2>4, FieldFacts
    <3> HIDE DEF g, saved
    <3>2. kcp'.gen = g /\ mem'.gen = g /\ kcp'.ours = kcp.ours /\ mem'.ours = kcp.ours
          /\ kcp'.addon = mem.addon /\ mem'.addon = mem.addon
          /\ kcp'.protected = mem'.protected /\ kcp'.muted = mem'.muted /\ kcp'.phase = mem'.phase
      BY <2>3, <2>4, <3>1
    <3>3. CASE mem.addon = kcp.addon
      <4>1. g = kcp.gen
        BY <3>1, <3>3 DEF g
      <4> QED
        BY <1>1, <2>1, <2>4, <3>1, <3>2, <3>3, <4>1
    <3>4. CASE mem.addon /\ ~kcp.addon
      <4>1. g = kcp.gen + 1
        BY <3>1, <3>4 DEF g
      <4> QED
        BY <1>1, <2>1, <2>4, <3>1, <3>2, <3>4, <4>1
    <3> QED
      BY <3>1, <3>3, <3>4
  <2>5. CASE UNCHANGED <<kcp, behind, mem>>
    BY <1>1, <2>1, <2>5
  <2> QED
    BY <2>2, <2>4, <2>5
<1>14. CASE SaveStatus
  BY <1>1, <1>14 DEF SaveStatus, ControlPlane
<1>15. CASE Clean
  BY <1>1, <1>15 DEF Clean, Forgets
<1>16. CASE UNCHANGED vars
  BY <1>1, <1>16 DEF vars
<1> QED
  BY <1>2, <1>4, <1>5, <1>6, <1>7, <1>8, <1>9, <1>10, <1>11, <1>12, <1>13, <1>14, <1>15,
     <1>16 DEF Next, Environment, Reconcile

\* The deletion path is entered for an unprotected deletion, and its copy is
\* not touched before it is carried out.
LEMMA DestroyStep == TypeOK /\ DestroyInv /\ [Next]_vars => DestroyInv'
<1> SUFFICES ASSUME TypeOK, DestroyInv, [Next]_vars PROVE DestroyInv'
  OBVIOUS
<1> USE DEF DestroyInv, world, api, queue, copies, cloud
<1>1. CASE Start
  <2>1. SUFFICES ASSUME pc' = "destroy" PROVE ShouldDelete(mem')
    OBVIOUS
  <2>2. ShouldDelete(cache) /\ mem' = [cache EXCEPT !.paused = FALSE, !.ready = FALSE]
    BY <1>1, <2>1 DEF Start, ReturnsEarly, PausedReturn, StartFails, StartsOn, Returns
  <2> QED
    BY <2>2 DEF TypeOK, ControlPlane, ShouldDelete
<1>2. CASE Generate \/ Apply \/ Validate \/ Destroy \/ Save \/ SaveStatus \/ Clean \/ Crash
  BY <1>2 DEF Generate, Apply, Validate, Destroy, Returns, Save, SaveStatus, Clean, Crash, Forgets
<1>3. CASE \/ EditSpec \/ Delete \/ Annotate \/ ChangeWorld \/ ChangePools
           \/ Deliver \/ DeliverPool \/ TimerFires
  BY <1>3 DEF EditSpec, Delete, Annotate, ChangeWorld, ChangePools, Deliver, DeliverPool, TimerFires
<1>4. CASE UNCHANGED vars
  BY <1>4 DEF vars
<1> QED
  BY <1>1, <1>2, <1>3, <1>4 DEF Next, Environment, Reconcile

LEMMA ResultStep == ResultInv /\ [Next]_vars => ResultInv'
<1> SUFFICES ASSUME ResultInv, [Next]_vars PROVE ResultInv'
  OBVIOUS
<1> USE DEF ResultInv, world, api, queue, copies, cloud
<1>1. CASE Environment \/ Deliver \/ DeliverPool \/ TimerFires
  BY <1>1 DEF Environment, EditSpec, Delete, Annotate, ChangeWorld, ChangePools, Crash, Forgets,
     Deliver, DeliverPool, TimerFires
<1>2. CASE Start
  BY <1>2 DEF Start, ReturnsEarly, PausedReturn, StartFails, StartsOn, Returns
<1>3. CASE Generate \/ Apply \/ Validate \/ Destroy
  BY <1>3 DEF Generate, Apply, Validate, Destroy, Returns
<1>4. CASE Save \/ SaveStatus \/ Clean
  BY <1>4 DEF Save, SaveStatus, Clean, Forgets
<1>5. CASE UNCHANGED vars
  BY <1>5 DEF vars
<1> QED
  BY <1>1, <1>2, <1>3, <1>4, <1>5 DEF Next, Reconcile

\* Whatever takes the key from where it is puts it somewhere else.
LEMMA ForgottenStep == IInv /\ [Next]_vars => NeverForgotten'
<1> SUFFICES ASSUME IInv, [Next]_vars PROVE NeverForgotten'
  OBVIOUS
<1> USE DEF IInv, TypeOK, NeverForgotten, Known, world, api, queue, copies, cloud
<1>1. /\ kcp.gen \in Nat /\ cache.gen \in Nat /\ mem.gen \in Nat
      /\ kcp \in ControlPlane /\ cache \in ControlPlane /\ mem \in ControlPlane
  BY DEF ControlPlane, Generations
<1>2. CASE EditSpec
  BY <1>1, <1>2 DEF EditSpec, Writes, News, CacheInv, ControlPlane
<1>3. CASE Delete
  BY <1>1, <1>3 DEF Delete, Writes, News, CacheInv, ControlPlane
<1>4. CASE Annotate
  BY <1>1, <1>4 DEF Annotate, Writes, News, ControlPlane
<1>5. CASE ChangeWorld \/ ChangePools \/ TimerFires
  BY <1>5 DEF ChangeWorld, ChangePools, TimerFires
<1>6. CASE Crash
  BY <1>6 DEF Crash, Forgets, News, Absent, Version
<1>7. CASE Deliver
  <2>1. CASE Wakes
    BY <2>1 DEF Wakes
  <2>2. CASE News(cache, kcp) /\ missed' = ~Known /\ UNCHANGED <<dirty, timer>>
    BY <1>7, <2>2 DEF Deliver
  <2>3. CASE ~News(cache, kcp) /\ missed' = missed /\ UNCHANGED <<dirty, timer>>
    <3>1. UNCHANGED <<kcp, pc>>
      BY <1>7 DEF Deliver
    <3> QED
      BY <2>3, <3>1
  <2> QED
    BY <1>7, <2>1, <2>2, <2>3 DEF Deliver
<1>8. CASE DeliverPool
  BY <1>8 DEF DeliverPool, Wakes
<1>9. CASE Start
  BY <1>9 DEF Start, ReturnsEarly, PausedReturn, StartFails, StartsOn, Returns, News, CacheInv
<1>10. CASE Generate \/ Apply \/ Validate \/ Destroy
  BY <1>10 DEF Generate, Apply, Validate, Destroy, Returns
<1>11. CASE Save \/ SaveStatus
  BY <1>11 DEF Save, SaveStatus
<1>12. CASE Clean
  BY <1>12 DEF Clean, ResultInv
<1>13. CASE UNCHANGED vars
  BY <1>13 DEF vars, News
<1> QED
  BY <1>2, <1>3, <1>4, <1>5, <1>6, <1>7, <1>8, <1>9, <1>10, <1>11, <1>12, <1>13
     DEF Next, Environment, Reconcile
-----------------------------------------------------------------------------
\* The inductive invariant.
THEOREM Invariance == Spec => []IInv
<1>1. ASSUME Init PROVE IInv
  <2>1. PICK protected, muted \in BOOLEAN : kcp = Version("live", 1, protected, muted)
    BY <1>1 DEF Init
  <2>2. kcp \in ControlPlane /\ cache \in ControlPlane /\ mem \in ControlPlane
    BY <1>1, <2>1, RecordFacts DEF Init
  <2>3. TypeOK
    <3>1. /\ behind \in BOOLEAN /\ stale \in BOOLEAN /\ paused \in BOOLEAN
          /\ karpenter \in BOOLEAN /\ healthy \in BOOLEAN /\ poolEvent \in BOOLEAN
          /\ dirty \in BOOLEAN /\ timer \in BOOLEAN /\ missed \in BOOLEAN
          /\ again \in BOOLEAN /\ manifest \in BOOLEAN
      BY <1>1 DEF Init
    <3>2. spec \in Specs /\ applied \in Specs
      BY <1>1, RecordFacts DEF Init
    <3>3. pc \in Busy \union {"idle"} /\ files \subseteq Files
      BY <1>1 DEF Init
    <3>4. edits \in 0 .. MaxEdits /\ faults \in 0 .. MaxFaults
      BY <1>1, ConstantsAssumption DEF Init
    <3> QED
      BY <2>2, <3>1, <3>2, <3>3, <3>4 DEF TypeOK
  <2>4. kcp.gen = 1 /\ ~kcp.addon /\ kcp.ours /\ cache.phase = "absent" /\ behind
    BY <1>1, <2>1 DEF Init, Version, Absent
  <2> QED
    BY <1>1, <2>3, <2>4
       DEF Init, IInv, GenBound, CacheInv, CopyInv, DestroyInv, ResultInv, NeverForgotten, News
<1>2. IInv /\ [Next]_vars => IInv'
  BY TypeStep, VersionsStep, DestroyStep, ResultStep, ForgottenStep DEF IInv
<1> QED
  BY <1>1, <1>2, PTL DEF Spec

\* The variables keep their types, and generations are bounded by the edits.
THEOREM TypeCorrect == Spec => []TypeOK
<1>1. IInv => TypeOK
  BY DEF IInv
<1> QED
  BY <1>1, Invariance, PTL

\* The controller's own save (665-668) makes a new generation of the control
\* plane only where it sets the addon, so never twice without an edit that takes
\* it off in between, however often it reconciles and whatever its copy is.
OwnGenerations ==
  [][edits' = edits /\ kcp'.gen # kcp.gen =>
       kcp'.gen = kcp.gen + 1 /\ ~kcp.addon /\ kcp'.addon]_vars

THEOREM OneOwnGeneration == Spec => OwnGenerations
<1> DEFINE Sets == kcp'.gen = kcp.gen + 1 /\ ~kcp.addon /\ kcp'.addon
<1>1. ASSUME IInv, [Next]_vars PROVE [edits' = edits /\ kcp'.gen # kcp.gen => Sets]_vars
  <2> SUFFICES ASSUME Next, edits' = edits, kcp'.gen # kcp.gen PROVE Sets
    BY <1>1
  <2>1. kcp \in ControlPlane /\ mem \in ControlPlane /\ edits \in Nat
    BY <1>1 DEF IInv, TypeOK
  <2>2. CASE Save
    <3>1. ~stale /\ kcp' = Updated /\ pc = "save"
      BY <2>2 DEF Save
    <3>2. /\ Updated.gen = IF mem.addon = kcp.addon THEN mem.gen ELSE mem.gen + 1
          /\ Updated.addon = mem.addon
      BY <2>1 DEF Updated, ControlPlane
    <3>3. mem.gen = kcp.gen /\ (kcp.addon => mem.addon)
      BY <1>1, <3>1 DEF IInv, CopyInv
    <3>4. mem.addon \in BOOLEAN /\ kcp.addon \in BOOLEAN
      BY <2>1, FieldFacts
    <3>5. mem.addon # kcp.addon
      BY <3>1, <3>2, <3>3
    <3> QED
      BY <3>1, <3>2, <3>3, <3>4, <3>5
  <2>3. CASE SaveStatus
    <3>1. kcp'.gen = kcp.gen
      BY <2>1, <2>3 DEF SaveStatus, ControlPlane
    <3> QED
      BY <3>1
  <2>4. CASE EditSpec \/ Delete \/ Annotate \/ ChangeWorld \/ ChangePools
    <3>1. Edits
      BY <2>4 DEF EditSpec, Delete, Annotate, ChangeWorld, ChangePools
    <3>2. edits' = edits + 1
      BY <3>1 DEF Edits
    <3> QED
      BY ONLY <2>1, <3>2, edits' = edits
  <2>5. CASE \/ Crash \/ Start \/ Generate \/ Apply \/ Validate \/ Destroy \/ Clean
             \/ Deliver \/ DeliverPool \/ TimerFires
    <3>1. UNCHANGED kcp
      BY <2>5 DEF Crash, Start, Generate, Apply, Validate, Destroy, Clean, Deliver, DeliverPool,
         TimerFires, api
    <3> QED
      BY <3>1
  <2> QED
    BY <2>2, <2>3, <2>4, <2>5 DEF Next, Environment, Reconcile
<1> QED
  BY <1>1, Invariance, PTL DEF Spec, OwnGenerations

\* Writing the whole object back undoes nothing that users wrote meanwhile, and
\* ends only an unprotected deletion.
THEOREM EditsAreKept == Spec => EditsKept
<1> DEFINE Kept == /\ kcp'.ours = kcp.ours /\ kcp'.protected = kcp.protected
                   /\ kcp'.muted = kcp.muted
                   /\ kcp'.phase = kcp.phase \/ (ShouldDelete(kcp) /\ kcp'.phase = "absent")
<1>1. ASSUME IInv, [Next]_vars PROVE [edits' = edits => Kept]_vars
  <2> SUFFICES ASSUME Next, edits' = edits PROVE Kept
    BY <1>1
  <2>1. kcp \in ControlPlane /\ mem \in ControlPlane /\ edits \in Nat
    BY <1>1 DEF IInv, TypeOK
  <2>2. CASE Save
    <3>1. UNCHANGED kcp \/ (~stale /\ kcp' = Updated)
      BY <2>2 DEF Save
    <3>2. /\ Updated.ours = mem.ours /\ Updated.protected = mem.protected
          /\ Updated.muted = mem.muted /\ Updated.phase = mem.phase
      BY <2>1 DEF Updated, ControlPlane
    <3>3. pc = "save"
      BY <2>2 DEF Save
    <3> QED
      BY <1>1, <3>1, <3>2, <3>3 DEF IInv, CopyInv
  <2>3. CASE SaveStatus
    BY <2>1, <2>3 DEF SaveStatus, ControlPlane
  <2>4. CASE EditSpec \/ Delete \/ Annotate \/ ChangeWorld \/ ChangePools
    <3>1. Edits
      BY <2>4 DEF EditSpec, Delete, Annotate, ChangeWorld, ChangePools
    <3>2. edits' = edits + 1
      BY <3>1 DEF Edits
    <3> QED
      BY ONLY <1>1, <2>1, <3>2, edits' = edits
  <2>5. CASE \/ Crash \/ Start \/ Generate \/ Apply \/ Validate \/ Destroy \/ Clean
             \/ Deliver \/ DeliverPool \/ TimerFires
    BY <2>5 DEF Crash, Start, Generate, Apply, Validate, Destroy, Clean, Deliver, DeliverPool,
       TimerFires, api
  <2> QED
    BY <2>2, <2>3, <2>4, <2>5 DEF Next, Environment, Reconcile
<1> QED
  BY <1>1, Invariance, PTL DEF Spec, EditsKept

\* The API server's generations only grow.
LEMMA GenerationsGrow == IInv /\ [Next]_vars => kcp'.gen >= kcp.gen
<1> SUFFICES ASSUME IInv, [Next]_vars PROVE kcp'.gen >= kcp.gen
  OBVIOUS
<1> USE DEF api
<1>1. kcp \in ControlPlane /\ mem \in ControlPlane /\ kcp.gen \in Nat /\ mem.gen \in Nat
  BY FieldFacts DEF IInv, TypeOK
<1>2. CASE EditSpec \/ Delete \/ Annotate
  <2>1. CASE EditSpec \/ Delete
    <3>1. kcp'.gen = kcp.gen + 1
      BY <1>1, <2>1 DEF EditSpec, Delete, Writes, ControlPlane
    <3> QED
      BY <1>1, <3>1
  <2>2. CASE Annotate
    <3>1. kcp'.gen = kcp.gen
      BY <1>1, <2>2 DEF Annotate, Writes, ControlPlane
    <3> QED
      BY <1>1, <3>1
  <2> QED
    BY <1>2, <2>1, <2>2
<1>3. CASE Save
  <2> DEFINE g == IF mem.addon = kcp.addon THEN mem.gen ELSE mem.gen + 1
  <2>1. UNCHANGED kcp \/ (~stale /\ kcp' = Updated /\ pc = "save")
    BY <1>3 DEF Save
  <2>2. Updated.gen = g
    BY <1>1 DEF Updated, ControlPlane
  <2>3. g >= mem.gen
    BY <1>1
  <2> HIDE DEF g
  <2> QED
    BY <1>1, <2>1, <2>2, <2>3 DEF IInv, CopyInv
<1>4. CASE SaveStatus
  <2>1. kcp'.gen = kcp.gen
    BY <1>1, <1>4 DEF SaveStatus, ControlPlane
  <2> QED
    BY <1>1, <2>1
<1>5. CASE \/ ChangeWorld \/ ChangePools \/ Crash \/ Start \/ Generate \/ Apply \/ Validate \/ Destroy
           \/ Clean \/ Deliver \/ DeliverPool \/ TimerFires \/ UNCHANGED vars
  <2>1. UNCHANGED kcp
    BY <1>5 DEF ChangeWorld, ChangePools, Crash, Start, Generate, Apply, Validate, Destroy, Clean,
       Deliver, DeliverPool, TimerFires, vars
  <2> QED
    BY <1>1, <2>1
<1> QED
  BY <1>2, <1>3, <1>4, <1>5 DEF Next, Environment, Reconcile

\* What terraform applied is not newer than what the informer has, nor than what
\* the present reconciliation is about to apply.
OrderInv ==
  /\ applied.gen <= kcp.gen
  /\ cache.phase # "absent" => applied.gen <= cache.gen
  /\ pc \in {"reconcile", "apply"} =>
       /\ applied.gen <= spec.gen /\ spec.gen <= kcp.gen
       /\ cache.phase # "absent" => spec.gen <= cache.gen

LEMMA SpecFacts ==
  TypeOK => /\ kcp.gen \in Nat /\ cache.gen \in Nat /\ spec.gen \in Nat /\ applied.gen \in Nat
            /\ Spec0.gen = 0
BY FieldFacts DEF TypeOK, Specs, Generations, Spec0

\* Where the spec of a reconciliation comes from.
LEMMA SpecStep ==
  ASSUME Start
  PROVE  \/ pc = "idle" /\ UNCHANGED <<pc, spec>>
         \/ pc' = "save"
         \/ spec'.gen = cache.gen /\ cache.phase # "absent"
BY DEF Start, ReturnsEarly, PausedReturn, StartFails, Returns, StartsOn

LEMMA OrderStep == IInv /\ OrderInv /\ [Next]_vars => OrderInv'
<1> SUFFICES ASSUME IInv, OrderInv, [Next]_vars PROVE OrderInv'
  OBVIOUS
<1> USE DEF world, api, queue, copies, cloud
<1>1. /\ kcp.gen \in Nat /\ cache.gen \in Nat /\ spec.gen \in Nat /\ applied.gen \in Nat
      /\ Spec0.gen = 0
  BY SpecFacts DEF IInv
<1>2. kcp'.gen \in Nat /\ kcp'.gen >= kcp.gen
  <2>1. TypeOK'
    BY TypeStep DEF IInv
  <2> QED
    BY <2>1, GenerationsGrow, FieldFacts DEF TypeOK
<1>3. cache.phase # "absent" => cache.gen <= kcp.gen
  BY DEF IInv, CacheInv
<1> USE DEF OrderInv
<1>4. CASE Start
  <2>1. UNCHANGED <<kcp, cache, applied>> /\ pc = "idle" /\ pc' \in {"idle", "save", "reconcile", "destroy"}
    BY <1>4 DEF Start, ReturnsEarly, PausedReturn, StartFails, Returns, StartsOn
  <2> QED
    BY <1>1, <1>3, <1>4, <2>1, SpecStep
<1>5. CASE Apply
  <2>1. UNCHANGED <<kcp, cache, spec>> /\ pc = "apply" /\ pc' \in {"validate", "save"}
    BY <1>5 DEF Apply, Returns
  <2>2. applied' = spec \/ applied' = applied
    BY <1>5 DEF Apply
  <2> QED
    BY <1>1, <2>1, <2>2
<1>6. CASE Destroy
  <2>1. UNCHANGED <<kcp, cache, spec>> /\ pc = "destroy" /\ pc' = "save"
    BY <1>6 DEF Destroy, Returns
  <2>2. applied' = Spec0 \/ applied' = applied
    BY <1>6 DEF Destroy
  <2> QED
    BY <1>1, <2>1, <2>2
<1>7. CASE Generate \/ Validate \/ Save \/ SaveStatus
  <2>1. UNCHANGED <<cache, spec, applied>> /\ pc # "idle"
        /\ (pc' \in {"reconcile", "apply"} => pc \in {"reconcile", "apply"})
    BY <1>7 DEF Generate, Validate, Save, SaveStatus, Returns
  <2> QED
    BY <1>1, <1>2, <2>1
<1>8. CASE Clean
  <2>1. UNCHANGED <<kcp, cache, applied>> /\ pc' = "idle"
    BY <1>8 DEF Clean, Forgets
  <2> QED
    BY <1>1, <2>1
<1>9. CASE Crash
  <2>1. UNCHANGED <<kcp, applied>> /\ pc' = "idle" /\ cache'.phase = "absent"
    BY <1>9 DEF Crash, Forgets, Absent, Version
  <2> QED
    BY <1>1, <2>1
<1>10. CASE Deliver
  <2>1. cache' = kcp /\ UNCHANGED <<kcp, pc, spec, applied>>
    BY <1>10 DEF Deliver
  <2> QED
    BY <1>1, <2>1
<1>11. CASE \/ EditSpec \/ Delete \/ Annotate \/ ChangeWorld \/ ChangePools
            \/ DeliverPool \/ TimerFires \/ UNCHANGED vars
  <2>1. UNCHANGED <<cache, pc, spec, applied>>
    BY <1>11 DEF EditSpec, Delete, Annotate, ChangeWorld, ChangePools, DeliverPool, TimerFires, vars
  <2> QED
    BY <1>1, <1>2, <2>1
<1> QED
  BY <1>4, <1>5, <1>6, <1>7, <1>8, <1>9, <1>10, <1>11 DEF Next, Environment, Reconcile

\* Terraform never applies an older generation over a newer one, however far the
\* informer lags and whenever the process is replaced: what it applied last goes
\* forward or is destroyed.
THEOREM NeverBackwards == Spec => [][applied'.gen >= applied.gen \/ applied' = Spec0]_applied
<1>1. Init => OrderInv
  <2> SUFFICES ASSUME Init PROVE OrderInv
    OBVIOUS
  <2>1. kcp.gen = 1 /\ cache.phase = "absent" /\ pc = "idle" /\ applied.gen = 0
    BY DEF Init, Version, Absent, Spec0
  <2> QED
    BY <2>1 DEF OrderInv
<1>2. ASSUME IInv, OrderInv, [Next]_vars
      PROVE  [applied'.gen >= applied.gen \/ applied' = Spec0]_applied
  <2>1. CASE Apply
    <3>1. applied' = applied \/ (pc = "apply" /\ applied' = spec)
      BY <2>1 DEF Apply, cloud
    <3> QED
      BY <1>2, <3>1, SpecFacts DEF OrderInv, IInv
  <2>2. CASE Destroy
    BY <2>2 DEF Destroy, cloud
  <2>3. CASE ~(Apply \/ Destroy)
    <3>1. UNCHANGED applied
      BY <1>2, <2>3 DEF Next, Environment, Reconcile, EditSpec, Delete, Annotate, ChangeWorld,
         ChangePools, Crash, Start, Generate, Validate, Save, SaveStatus, Clean, Deliver,
         DeliverPool, TimerFires, cloud, vars
    <3> QED
      BY <3>1
  <2> QED
    BY <2>1, <2>2, <2>3
<1> QED
  BY <1>1, <1>2, OrderStep, Invariance, PTL DEF Spec

\* With cleanup, files outlive a reconciliation only by a crash.
DirectoryInv ==
  Cleanup /\ faults = 0 => (pc \in {"idle", "reconcile", "destroy"} => files = {})

LEMMA DirectoryStep == TypeOK /\ DirectoryInv /\ [Next]_vars => DirectoryInv'
<1> SUFFICES ASSUME TypeOK, DirectoryInv, [Next]_vars PROVE DirectoryInv'
  OBVIOUS
<1> USE DEF DirectoryInv, world, api, queue, copies, cloud
<1>1. faults \in Nat
  BY ConstantsAssumption DEF TypeOK
<1>2. faults' = 0 => faults = 0
  <2>1. Fault => faults' # 0
    BY <1>1 DEF Fault
  <2>2. Fault \/ faults' = faults
    BY DEF Next, Environment, EditSpec, Delete, Annotate, ChangeWorld, ChangePools, Crash,
       Deliver, DeliverPool, TimerFires, Reconcile, Start, PausedReturn, StartFails, Generate, Apply,
       Validate, Destroy, Save, SaveStatus, Clean, vars
  <2> QED
    BY <2>1, <2>2
<1>3. CASE Start
  BY <1>2, <1>3 DEF Start
<1>4. CASE Crash
  <2>1. faults' # 0
    BY <1>1, <1>4 DEF Crash, Fault
  <2> QED
    BY <2>1
<1>5. CASE Generate \/ Apply \/ Validate \/ Destroy \/ Save \/ SaveStatus
  BY <1>2, <1>5 DEF Generate, Apply, Validate, Destroy, Returns, Save, SaveStatus
<1>6. CASE Clean
  BY <1>2, <1>6 DEF Clean
<1>7. CASE \/ EditSpec \/ Delete \/ Annotate \/ ChangeWorld \/ ChangePools
           \/ Deliver \/ DeliverPool \/ TimerFires
  BY <1>2, <1>7
     DEF EditSpec, Delete, Annotate, ChangeWorld, ChangePools, Deliver, DeliverPool, TimerFires
<1>8. CASE UNCHANGED vars
  BY <1>8 DEF vars
<1> QED
  BY <1>3, <1>4, <1>5, <1>6, <1>7, <1>8 DEF Next, Environment, Reconcile

\* Where the comment at kopscontrolplane_controller.go:742 is right: with
\* cleanupTerraformDirectory, and before the first failure or crash, destroy
\* finds no files of kops.
THEOREM CleanedBeforeDestroy == Spec => [](Cleanup /\ faults = 0 => NoKopsFilesOnDestroy)
<1>1. Init => DirectoryInv
  BY DEF Init, DirectoryInv
<1>2. DirectoryInv => (Cleanup /\ faults = 0 => NoKopsFilesOnDestroy)
  BY DEF DirectoryInv, NoKopsFilesOnDestroy
<1> QED
  BY <1>1, <1>2, DirectoryStep, TypeCorrect, PTL DEF Spec

\* No order of edits, hand-overs, events, requeues, failures and crashes makes
\* the controller forget a control plane of its class, unless the filter of 1189
\* does.
THEOREM KeyIsKept == Spec => []NeverForgotten
<1>1. IInv => NeverForgotten
  BY DEF IInv
<1> QED
  BY <1>1, Invariance, PTL

\* The filter of 1189 loses nothing of a control plane that never has the paused
\* annotation: it is known, or an event that passes all filters is under way.
THEOREM KeptIfNeverPaused ==
  Spec /\ []~kcp.muted =>
    [](kcp.phase # "absent" /\ kcp.ours => Known \/ (behind /\ Passes(cache, kcp)))
<1>1. Init => ~missed
  BY DEF Init
<1>2. ~missed /\ ~kcp.muted /\ [Next]_vars => ~missed'
  <2> SUFFICES ASSUME ~missed, ~kcp.muted, Next PROVE ~missed'
    BY DEF vars, queue
  <2> USE DEF queue
  <2>1. CASE Deliver
    BY <2>1 DEF Deliver, Wakes, Passes
  <2>2. CASE DeliverPool \/ TimerFires
    BY <2>2 DEF DeliverPool, Wakes, TimerFires
  <2>3. CASE Environment
    BY <2>3 DEF Environment, EditSpec, Delete, Annotate, ChangeWorld, ChangePools, Crash
  <2>4. CASE Reconcile
    BY <2>4 DEF Reconcile, Start, Generate, Apply, Validate, Destroy, Save, SaveStatus, Clean
  <2> QED
    BY <2>1, <2>2, <2>3, <2>4 DEF Next
<1>3. NeverForgotten /\ ~missed /\ ~kcp.muted =>
        (kcp.phase # "absent" /\ kcp.ours => Known \/ (behind /\ Passes(cache, kcp)))
  BY DEF NeverForgotten, Passes
<1> QED
  BY <1>1, <1>2, <1>3, KeyIsKept, PTL DEF Spec
=============================================================================
