--------------------------- MODULE MC_PiEventStream ---------------------------
(* A small instance of PiEventStream: the bounds are in the cfg files. *)
EXTENDS PiEventStream
=============================================================================
