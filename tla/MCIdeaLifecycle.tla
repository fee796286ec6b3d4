--------------------------- MODULE MCIdeaLifecycle ---------------------------
(* Small instances of IdeaLifecycle: one idea, its author and some admins. *)
EXTENDS IdeaLifecycle, TLC

CONSTANTS i1, q1, q2

\* Request slots are interchangeable.
Symmetry == Permutations(Requests)
=============================================================================
