---------------------------- MODULE MCPluginCache ----------------------------
(***************************************************************************)
(* Two SpotInst clusters and one without, over one cache.                  *)
(***************************************************************************)
EXTENDS PluginCache, TLC

CONSTANTS plain, ocean1, ocean2, aws, spotinst

MCNeeds ==
  (plain :> {aws}) @@ (ocean1 :> {aws, spotinst}) @@ (ocean2 :> {aws, spotinst})
=============================================================================
