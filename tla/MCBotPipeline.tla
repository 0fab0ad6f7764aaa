----------------------------- MODULE MCBotPipeline -----------------------------
(* Instances of BotPipeline for TLC.                                       *)
EXTENDS BotPipeline, TLC

CONSTANTS alice

MCAuthor == [i \in Messages \cup Clicks |-> alice]
MCSymmetry == UNION {Permutations(S) : S \in {Messages \ Menus, Menus, Workers, Callbacks}}
=============================================================================
