----------------------------- MODULE MCAttribution -----------------------------
(* Instances of Attribution for TLC.                                       *)
EXTENDS Attribution, TLC

CONSTANTS alice, bob

MCSender == [m \in Messages |-> alice]
=============================================================================
