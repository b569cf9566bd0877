----------------------------- MODULE MCPublisher -----------------------------
(* Model checking of a publisher with a few subscribers and user threads.  *)
EXTENDS Publisher

Symmetry == Permutations(User) \cup Permutations(Session)
=============================================================================
