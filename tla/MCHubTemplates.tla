--------------------------- MODULE MCHubTemplates ---------------------------
(* A small instance of HubTemplates. *)
EXTENDS HubTemplates
=============================================================================
