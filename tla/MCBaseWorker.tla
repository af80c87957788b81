---------------------------- MODULE MCBaseWorker ----------------------------
(***************************************************************************)
(* BaseWorker on a small instance: a poller with two slots, so that it     *)
(* polls, or sends, while its last task is still with the dispatcher or    *)
(* being processed; one polled and one eager task, and one completion      *)
(* that may bring it.                                                      *)
(***************************************************************************)
EXTENDS BaseWorker
=============================================================================
