--------------------------- MODULE MCContentFlags ---------------------------
(* Small instances of ContentFlags: one content, its author, a few reporters. *)
EXTENDS ContentFlags, TLC

CONSTANTS author, system, c1, u1, u2, u3, q1, q2

MCAuthor == [c \in Contents |-> author]
MCStanding == [u \in Users |-> 0]

\* Reporters and request slots are interchangeable.
Symmetry == Permutations(Users \ {author, system}) \cup Permutations(Requests)
=============================================================================
