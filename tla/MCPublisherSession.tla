------------------------- MODULE MCPublisherSession -------------------------
(* Model checking of one session: a thread that sends, threads that cancel. *)
EXTENDS PublisherSessionQueue, PublisherSessionChannel

UserSymmetry == Permutations(User)
=============================================================================
