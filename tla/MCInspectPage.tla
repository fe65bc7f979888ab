--------------------------- MODULE MCInspectPage ---------------------------
(***************************************************************************)
(* InspectPage.tla on a small instance: everything is given in the         *)
(* configuration.                                                          *)
(***************************************************************************)
EXTENDS InspectPage
=============================================================================
