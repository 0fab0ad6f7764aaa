----------------------------- MODULE MCGrantStore -----------------------------
(* Instance of GrantStore for TLC.                                         *)
EXTENDS GrantStore, TLC

CONSTANTS alice, m1

\* The single user asks for links through the single message m1.
MCSender == m1 :> alice
MCSymmetry == Permutations(IPs)
=============================================================================
