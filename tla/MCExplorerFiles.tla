--------------------------- MODULE MCExplorerFiles ---------------------------
(* A combat of two decisions. *)
EXTENDS ExplorerFiles

Straight == <<{0}, {0}>>
==============================================================================
