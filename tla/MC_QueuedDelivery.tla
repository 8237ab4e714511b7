-------------------------- MODULE MC_QueuedDelivery --------------------------
(* A small instance of QueuedDelivery: the bounds are in the cfg files. *)
EXTENDS QueuedDelivery
=============================================================================
