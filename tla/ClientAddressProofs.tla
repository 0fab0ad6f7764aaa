-------------------------- MODULE ClientAddressProofs --------------------------
(***************************************************************************)
(* What clientIP and post make of the addresses in a request, for every    *)
(* set of proxies and every header.                                        *)
(***************************************************************************)
EXTENDS ClientAddress, TLAPS

\* The walk stops at the entry written by the outermost trusted proxy.
LEMMA StopsAtHop ==
    ASSUME NEW prefix \in Seq(Entries), NEW hop \in Entries,
           NEW rest \in Seq(Entries),
           AddressOf[hop] \in IPs \ Trusted,
           \A i \in DOMAIN rest : AddressOf[rest[i]] \in Trusted \cup {Malformed}
    PROVE  LET n == Len(prefix) + 1
               forwarded == prefix \o <<hop>> \o rest
           IN  /\ forwarded[n] = hop
               /\ n \in Stops(forwarded)
               /\ \A j \in Stops(forwarded) : j \in Nat /\ j <= n
  <1> DEFINE n == Len(prefix) + 1
             forwarded == prefix \o <<hop>> \o rest
  <1>1. /\ forwarded \in Seq(Entries)
        /\ Len(forwarded) = n + Len(rest)
        /\ n \in Nat /\ Len(rest) \in Nat
        /\ DOMAIN forwarded = 1..(n + Len(rest)) /\ DOMAIN rest = 1..Len(rest)
    OBVIOUS
  <1>2. forwarded[n] = hop
    OBVIOUS
  <1>3. \A j \in (n + 1)..(n + Len(rest)) :
           j - n \in DOMAIN rest /\ forwarded[j] = rest[j - n]
    BY <1>1
  <1>4. n \in Stops(forwarded)
    BY <1>1, <1>2, AddressGiven DEF Stops, AddressAssumption
  <1>5. ASSUME NEW j \in Stops(forwarded)
        PROVE  j \in Nat /\ j <= n
    <2>1. j \in 1..(n + Len(rest)) /\ AddressOf[forwarded[j]] \notin Trusted \cup {Malformed}
      BY <1>1 DEF Stops
    <2>2. j \notin (n + 1)..(n + Len(rest))
      BY <2>1, <1>3
    <2> QED
      BY <2>1, <2>2, <1>1
  <1> QED
    BY <1>2, <1>4, <1>5

\* Behind any chain of trusted proxies the client address is the one the
\* outermost of them was called from: neither what the caller wrote into the
\* header before it (prefix), nor how long the chain is, nor an unreadable
\* entry in it makes a difference.
THEOREM ClientIPIsLastHop ==
    ASSUME NEW peer \in Trusted,
           NEW prefix \in Seq(Entries), NEW hop \in Entries,
           NEW rest \in Seq(Entries),
           AddressOf[hop] \in IPs \ Trusted,
           \A i \in DOMAIN rest : AddressOf[rest[i]] \in Trusted \cup {Malformed}
    PROVE  ClientIP(peer, prefix \o <<hop>> \o rest) = AddressOf[hop]
  <1> DEFINE n == Len(prefix) + 1
             forwarded == prefix \o <<hop>> \o rest
             last == CHOOSE i \in Stops(forwarded) :
                        \A j \in Stops(forwarded) : j <= i
  <1>1. /\ forwarded[n] = hop /\ n \in Stops(forwarded)
        /\ \A j \in Stops(forwarded) : j \in Nat /\ j <= n
    BY StopsAtHop
  <1>2. last \in Stops(forwarded) /\ n <= last
    BY <1>1
  <1>3. last = n
    BY <1>1, <1>2
  <1>4. ClientIP(peer, forwarded) = Grantable(AddressOf[forwarded[last]])
    BY <1>1 DEF ClientIP
  <1> QED
    BY <1>1, <1>3, <1>4 DEF Grantable

\* A request that does not come through a trusted proxy is taken for its
\* peer, whatever its header says.
THEOREM ClientIPIsPeer ==
    ASSUME NEW peer \in IPs \ Trusted, NEW forwarded
    PROVE  ClientIP(peer, forwarded) = peer
  BY DEF ClientIP, Grantable

\* What post hands over is nothing, one address that can be granted, or two
\* different ones: the shape ConsumeTokenIPs counts the limit for.
THEOREM TargetsAreDistinct ==
    ASSUME NEW req, Targets(req) # <<>>
    PROVE  Targets(req) \in {<<a>> : a \in IPs} \cup
                            {ab \in IPs \X IPs : ab[1] # ab[2]}
  <1>1. \A a : Grantable(a) \in IPs \cup {NoIP}
    BY DEF Grantable
  <1>2. ClientIP(req.peer, req.forwarded) \in IPs \cup {NoIP}
    BY <1>1 DEF ClientIP
  <1>3. ReportedIPv4(req.reported) \in IPs \cup {NoIP}
    BY <1>1 DEF ReportedIPv4
  <1> QED
    BY <1>2, <1>3 DEF Targets

=============================================================================
