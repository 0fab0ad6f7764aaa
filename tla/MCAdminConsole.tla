---------------------------- MODULE MCAdminConsole ----------------------------
(* Instance of AdminConsole for TLC.                                       *)
EXTENDS AdminConsole, TLC
=============================================================================
