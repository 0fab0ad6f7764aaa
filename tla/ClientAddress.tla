----------------------------- MODULE ClientAddress -----------------------------
(***************************************************************************)
(* Which addresses a confirmation grants (authorize/server.go): the one    *)
(* the request comes from, seen through trusted reverse proxies, and the   *)
(* IPv4 address that the page found out and the browser submits with it.   *)
(*                                                                         *)
(* Every proxy appends the address it was called from to X-Forwarded-For;  *)
(* what stands before that is up to the caller. An entry is a text; two    *)
(* texts may spell one address (::ffff:1.2.3.4 and 1.2.3.4), and some are  *)
(* no address at all.                                                      *)
(***************************************************************************)
EXTENDS Integers, Sequences

CONSTANTS
    IPs,          \* public unicast addresses: the ones that can be granted
    Trusted,      \* addresses in server.trustedProxies
    Entries,      \* texts that arrive as an address
    AddressOf,    \* AddressOf[e]: the address e spells, after Unmap
    Malformed,    \* what AddressOf gives for a text that spells none
    IPv4Entries   \* texts that spell an IPv4 address as such

AddressAssumption ==
    /\ Malformed \notin IPs \cup Trusted
    /\ IPv4Entries \subseteq Entries
    /\ DOMAIN AddressOf = Entries
ASSUME AddressGiven == AddressAssumption

\* What the functions below return instead of an address.
NoIP == Malformed

\* grantablePublicIP
Grantable(a) == IF a \in IPs THEN a ELSE NoIP

\* Positions of X-Forwarded-For the walk from the right does not pass over.
Stops(forwarded) ==
    {i \in DOMAIN forwarded : AddressOf[forwarded[i]] \notin Trusted \cup {Malformed}}

\* clientIP: only the word of a trusted proxy is taken for the address.
ClientIP(peer, forwarded) ==
    IF peer \notin Trusted THEN Grantable(peer)
    ELSE IF Stops(forwarded) = {} THEN NoIP
    ELSE LET last == CHOOSE i \in Stops(forwarded) :
                        \A j \in Stops(forwarded) : j <= i
         IN  Grantable(AddressOf[forwarded[last]])

\* reportedIPv4
ReportedIPv4(entry) ==
    IF entry \in IPv4Entries THEN Grantable(AddressOf[entry]) ELSE NoIP

\* The list that post hands to ConsumeTokenIPs; a request whose client
\* address cannot be told is refused.
Targets(req) ==
    LET ip == ClientIP(req.peer, req.forwarded)
        v4 == ReportedIPv4(req.reported)
    IN  IF ip = NoIP THEN <<>>
        ELSE IF v4 \in {NoIP, ip} THEN <<ip>> ELSE <<ip, v4>>

=============================================================================
