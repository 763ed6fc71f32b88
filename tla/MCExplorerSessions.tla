------------------------- MODULE MCExplorerSessions -------------------------
(* A combat of one decision between two actions. *)
EXTENDS ExplorerSessions

Fork == <<{0, 1}>>
==============================================================================
