---------------------------- MODULE MCKubeProvider ----------------------------
(* KubeProvider for TLC: two contexts, and kubeconfigs of every kind. *)
EXTENDS KubeProvider

CONSTANTS east, west, none

MCFiles ==
  {[contexts |-> {east}, current |-> east],
   [contexts |-> {east, west}, current |-> west],
   [contexts |-> {west}, current |-> none],
   [contexts |-> {east, west}, current |-> none],
   [contexts |-> {}, current |-> none]}
=============================================================================
