----------------------------- MODULE MCCommands -----------------------------
(* Model-checking instances of Commands. *)
EXTENDS Commands

\* Two Nexus operations, or any two other calls: what the helper's maps and its
\* command list can mix up takes two.
MCWorkloads ==
    {W \in SUBSET Ops : Cardinality(W) = 2 /\ (W \subseteq Nexus \/ W \cap Nexus = {})}

Symmetry == Permutations(Nexus)
=============================================================================
