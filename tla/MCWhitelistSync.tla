---------------------------- MODULE MCWhitelistSync ----------------------------
(* Instances of WhitelistSync for TLC.                                     *)
EXTENDS WhitelistSync, TLC

CONSTANTS alice, bob, proxy

MCSender == [m \in Messages |-> alice]
MCSymmetry == Permutations(IPs)

\* An address is spelled by itself and, as ::ffff:a.b.c.d, by <<address>>.
MCEntries == IPs \cup {proxy, Malformed} \cup {<<ip>> : ip \in IPs}
MCAddressOf == [e \in MCEntries |-> IF e \in IPs \cup {proxy, Malformed} THEN e ELSE e[1]]

MCIPv4Entries == IPs

\* Straight from the device and through two proxies, with a header of the
\* caller's own making, which also submits any address or none.
MCRequests ==
    {[peer |-> a, forwarded |-> <<e>>, reported |-> e] :
        a \in IPs, e \in IPs \cup {Malformed}} \cup
    {[peer |-> proxy, forwarded |-> <<e, <<a>>, Malformed, proxy>>, reported |-> e] :
        a \in IPs, e \in IPs \cup {Malformed}}

\* Some texts overflow: with Width = 16, <<16, 1>> is -16 or 15, and two of
\* them and a 4 add up to 4, 3 or 2, of which MaxTTL = 2 lets one pass.
MCTextsAdmin == {<<<<1, 1>>>>, <<<<1, 4>>, <<3, 1>>>>, <<<<16, 1>>>>}
MCTextsBot == {<<<<1, 2>>>>, <<<<16, 1>>>>, <<<<16, 1>>, <<8, 2>>, <<4, 1>>>>}
\* The default lifetime, and a longer one.
MCTextsLive == {<<>>, <<<<1, 2>>>>}
=============================================================================
