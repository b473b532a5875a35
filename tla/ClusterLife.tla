---------------------------- MODULE ClusterLife ----------------------------
(***************************************************************************)
(* What the operator promises about one cluster, with no cache, no copies, *)
(* no retries and no program counter in sight: one reconciliation builds   *)
(* or takes down, never both; it begins to take down only after a deletion *)
(* that nothing protects; the cloud goes before the kops state; and an     *)
(* object that is held disappears last.  An object that nobody holds yet   *)
(* may disappear at any time, with whatever was built for it.              *)
(* ControlPlane.tla implements it.                                         *)
(***************************************************************************)

VARIABLES
  stage,   \* of the KopsControlPlane
  work,    \* what the reconciliation under way does, if there is one
  kops,    \* how much of the cluster the kops state store holds
  cloud    \* how much of it the cloud holds

vars == <<stage, work, kops, cloud>>

\* "whole" holds the cluster itself, "part" no more than some of what belongs to it.
Amounts == {"none", "part", "whole"}
NothingLeft == kops = "none" /\ cloud = "none"

(***************************************************************************)
(*   new       the API server has no finalizer                             *)
(*   held      it has one, and the cluster is wanted                       *)
(*   ending    an unprotected deletion, of which nobody knows yet          *)
(*   doomed    it is known: no reconciliation begins but to take down      *)
(*   forsaken  the object disappeared from "new"; its cluster may stay     *)
(*   gone      the object disappeared, and its cluster with it             *)
(***************************************************************************)
Stages == {"new", "held", "ending", "doomed", "forsaken", "gone"}

Init == stage = "new" /\ work = "none" /\ kops = "none" /\ cloud = "none"

Begin(what, in) ==
  /\ work = "none" /\ stage \in in
  /\ work' = what
  /\ UNCHANGED <<stage, kops, cloud>>

Finish ==
  /\ work' = "none"
  /\ UNCHANGED <<stage, kops, cloud>>

\* A step from one stage to another, which may end what is under way: with a
\* save, or because the process dies and its successor knows more.
Turn(from, to) ==
  /\ stage \in from /\ stage' = to
  /\ work' \in {work, "none"}
  /\ UNCHANGED <<kops, cloud>>

Hold == Turn({"new"}, "held")
End == Turn({"held"}, "ending")
Doom == Turn({"ending"}, "doomed")

\* Protection comes again during the deletion; what is under way goes on.
Spare == Turn({"ending", "doomed"}, "held")

Vanish == Turn({"new"}, "forsaken")

\* Nothing was built, and nobody is left who would.
Leave == NothingLeft /\ work' = "none" /\ Turn({"forsaken"}, "gone")

\* Who has taken everything down lets the object go.
Release == NothingLeft /\ work = "clear" /\ work' = "none" /\ Turn({"doomed"}, "gone")

\* Building may also drop parts that are no longer wanted, never the cluster.
Builds(from, to) == to \in Amounts /\ (from = "whole" => to = "whole")

Build ==
  /\ work = "build" /\ stage # "gone"
  /\ \/ Builds(kops, kops') /\ UNCHANGED cloud
     \/ kops = "whole" /\ Builds(cloud, cloud') /\ UNCHANGED kops
  /\ UNCHANGED <<stage, work>>

TakesDown(from, to) ==
  /\ to \in Amounts
  /\ from = "none" => to = "none"
  /\ to = "whole" => from = "whole"

TakeDown ==
  /\ work = "clear"
  /\ \/ TakesDown(cloud, cloud') /\ UNCHANGED kops
     \/ cloud = "none" /\ TakesDown(kops, kops') /\ UNCHANGED cloud
  /\ UNCHANGED <<stage, work>>

Next ==
  \/ Begin("build", {"new", "held", "ending", "forsaken"})
  \/ Begin("clear", {"doomed", "gone"})
  \/ Finish
  \/ Hold \/ End \/ Doom \/ Spare \/ Vanish \/ Leave \/ Release
  \/ Build \/ TakeDown

Spec == Init /\ [][Next]_vars
=============================================================================
