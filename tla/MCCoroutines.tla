---------------------------- MODULE MCCoroutines ----------------------------
(***************************************************************************)
(* Coroutines on a small instance: an unbuffered channel a, a channel b    *)
(* with one place, a signal channel s, a future f; a selector that         *)
(* receives from a or s, one that receives from s or sends to b, one that  *)
(* polls b, and one for s or f whose default branch blocks on a, so that a *)
(* signal it is told of meanwhile stays in the channel's recValue.         *)
(***************************************************************************)
EXTENDS Coroutines

BranchOn(kind, ch) == [kind |-> kind, ch |-> ch]

MCSize == [a |-> 0, b |-> 1, s |-> 2, f |-> 0]
MCCases == [either |-> <<BranchOn("receive", "a"), BranchOn("receive", "s")>>,
            relay  |-> <<BranchOn("receive", "s"), BranchOn("send", "b")>>,
            poll   |-> <<BranchOn("receive", "b")>>,
            busy   |-> <<BranchOn("receive", "s"), BranchOn("future", "f")>>]
MCDefault == [either |-> "none", relay |-> "none", poll |-> "returns", busy |-> "a"]
=============================================================================
