--------------------------- MODULE MC_PendingInput ---------------------------
(* PendingInput with a few dialogs of one or two sessions.                  *)
EXTENDS PendingInput
=============================================================================
