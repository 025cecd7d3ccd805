--------------------------- MODULE MCSessionStore ---------------------------
(* Values for model checking SessionStore. *)
EXTENDS SessionStore

MCSymmetry == Permutations(Processes) \union Permutations(Sessions)
=============================================================================
