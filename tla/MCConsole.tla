------------------------------ MODULE MCConsole ------------------------------
(* Register contents for the model-checked instances of Console. *)
EXTENDS Console

CleanAvail == {"NO_UPDATE"}
SomeAvail  == {"NO_UPDATE", "SCROLLUP", "LINE_DRAWN", "INVAL"}
=============================================================================
