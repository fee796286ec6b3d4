---------------------------- MODULE MCPenalties ----------------------------
(* Small instances of Penalties: one user, a few penalties. *)
EXTENDS Penalties, TLC

CONSTANTS u1, u2, q1, q2

\* Admins' requests are interchangeable, and so are users.
Symmetry == Permutations(Requests) \cup Permutations(Users)
=============================================================================
