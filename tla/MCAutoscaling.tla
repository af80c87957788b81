---------------------------- MODULE MCAutoscaling ----------------------------
(***************************************************************************)
(* Autoscaling on a small instance: a group appears, goes, and comes back. *)
(***************************************************************************)
EXTENDS Autoscaling

MCHistory == <<{"g"}, {}, {"g"}>>
MCShortHistory == <<{"g"}, {}>>
=============================================================================
