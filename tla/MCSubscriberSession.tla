------------------------- MODULE MCSubscriberSession -------------------------
(* Model checking of one subscriber session.                               *)
EXTENDS SubscriberSession

(* The default of max_reconnection_attempts: try for ever.                 *)
NoLimit == -1
=============================================================================
