-------------------------- MODULE MCLocalActivities --------------------------
(***************************************************************************)
(* LocalActivities on a small instance.                                    *)
(***************************************************************************)
EXTENDS LocalActivities, TLC

MCRunOf == "a" :> "r1" @@ "b" :> "r1"
=============================================================================
