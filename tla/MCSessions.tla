----------------------------- MODULE MCSessions -----------------------------
(***************************************************************************)
(* Sessions on small instances: an activity of the user's, two sessions    *)
(* recreated on a worker with one token, and two attempts of one session.  *)
(***************************************************************************)
EXTENDS Sessions, TLC

CONSTANTS a1, a2, b1

MCActs == {a1, a2, b1}
MCDisturbed == {a2}
MCSessionOf == a1 :> 1 @@ a2 :> 1 @@ b1 :> 2
MCWorkloads ==
    {a1 :> "none" @@ a2 :> "user" @@ b1 :> "none",
     a1 :> "recreate" @@ a2 :> "none" @@ b1 :> "recreate",
     a1 :> "create" @@ a2 :> "create" @@ b1 :> "none"}
=============================================================================
