--------------------------- MODULE MCKeyCreation ---------------------------
(* KeyCreation on two sessions, one of which may be of the media cluster.  *)
EXTENDS KeyCreation, TLC

CONSTANTS s1, s2, t1, t2, t3, p1, p2

\* The ids of keys are interchangeable, those of a cluster among each other.
KeySymmetry == Permutations({t1, t2}) \cup Permutations({p1, p2})
=============================================================================
