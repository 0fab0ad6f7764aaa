-------------------------- MODULE AdminConsoleProofs --------------------------
(***************************************************************************)
(* Proofs about AdminConsole, for every value of its constants:            *)
(*   KnocksImplemented, GatesImplemented, SessionsImplemented              *)
(*                    each map implements LeaseTable;                      *)
(*   GateServesFew    the logins that one gate serves are bounded;         *)
(*   BoundCorrect     so are the failures that count against a client;     *)
(*   TypeCorrect      the types of the maps and of the requests.           *)
(***************************************************************************)
EXTENDS AdminConsole, NaturalSets, SequenceTheorems

-----------------------------------------------------------------------------
(* Tokens.                                                                 *)

\* Handlers are finite, and so is every set of them.
LEMMA Finite ==
    ASSUME NEW S, S \subseteq Handlers
    PROVE  /\ IsFiniteSet(S)
           /\ Cardinality(S) \in Nat /\ Cardinality(Handlers) \in Nat
           /\ Cardinality(S) <= Cardinality(Handlers)
BY FS_Subset, FS_CardinalityType, ConsoleConfigured DEF ConsoleAssumption

\* As long as not all tokens are in use, there is another one.
LEMMA FreshToken ==
    ASSUME NEW used, IsFiniteSet(used), Cardinality(used) < Cardinality(Tokens)
    PROVE  Fresh(used) \in Tokens \ used
<1>1. Tokens \ used # {}
  <2> SUFFICES ASSUME Tokens \subseteq used PROVE FALSE
    OBVIOUS
  <2>1. Cardinality(Tokens) <= Cardinality(used)
    BY FS_Subset
  <2> QED
    BY <2>1, FS_CardinalityType, ConsoleConfigured DEF ConsoleAssumption
<1> QED
  BY <1>1 DEF Fresh

\* Requests present no more gates than there are handlers.
LEMMA PresentedIsSmall ==
    IsFiniteSet(Presented) /\ Cardinality(Presented) <= Cardinality(Handlers)
<1> DEFINE Busy == {h \in Handlers : requests[h].phase \notin {"idle", "issuing"}}
           f == [h \in Busy |-> requests[h].gate]
<1>1. f \in Surjection(Busy, Presented)
  BY DEF Surjection, Presented
<1>2. IsFiniteSet(Busy) /\ Cardinality(Busy) <= Cardinality(Handlers)
      /\ Cardinality(Busy) \in Nat /\ Cardinality(Handlers) \in Nat
  BY Finite
<1> HIDE DEF f, Busy
<1>3. IsFiniteSet(Presented) /\ Cardinality(Presented) <= Cardinality(Busy)
  BY <1>1, <1>2, FS_Surjection
<1> QED
  BY <1>2, <1>3, FS_CardinalityType

\* A set of live tokens is finite and no larger than the map.
LEMMA TableSize ==
    ASSUME NEW table, DOMAIN table \subseteq Tokens
    PROVE  /\ IsFiniteSet(DOMAIN table) /\ Cardinality(DOMAIN table) \in Nat
           /\ Cardinality(DOMAIN table) <= Cardinality(Tokens)
BY FS_Subset, FS_CardinalityType, ConsoleConfigured DEF ConsoleAssumption

\* With room in the map, its next token is a new one.
LEMMA FreshInTable ==
    ASSUME NEW table, DOMAIN table \subseteq Tokens, ~Full(table)
    PROVE  Fresh(DOMAIN table) \in Tokens \ DOMAIN table
<1>1. /\ Cardinality(DOMAIN table) < Cardinality(Tokens)
      /\ IsFiniteSet(DOMAIN table)
  <2>1. Cardinality(Handlers) \in Nat /\ Cardinality(Tokens) \in Nat
    BY FS_CardinalityType, ConsoleConfigured DEF ConsoleAssumption
  <2> QED
    BY <2>1, TableSize, ConsoleConfigured DEF Full, ConsoleAssumption
<1> QED
  BY <1>1, FreshToken

\* So it is when the gates that requests still present are avoided as well.
LEMMA FreshGate ==
    ASSUME NEW table, DOMAIN table \subseteq Tokens, ~Full(table)
    PROVE  Fresh(DOMAIN table \cup Presented) \in Tokens \ (DOMAIN table \cup Presented)
<1> DEFINE used == DOMAIN table \cup Presented
<1>1. IsFiniteSet(used) /\ Cardinality(used) < Cardinality(Tokens)
  <2>1. /\ IsFiniteSet(used)
        /\ Cardinality(used) = Cardinality(DOMAIN table) + Cardinality(Presented)
                               - Cardinality(DOMAIN table \cap Presented)
    BY TableSize, PresentedIsSmall, FS_Union
  <2>2. Cardinality(DOMAIN table \cap Presented) \in Nat
    BY TableSize, FS_Subset, FS_CardinalityType
  <2>3. Cardinality(Presented) \in Nat
    BY PresentedIsSmall, FS_CardinalityType
  <2>4. Cardinality(Handlers) \in Nat /\ Cardinality(Tokens) \in Nat
    BY FS_CardinalityType, ConsoleConfigured DEF ConsoleAssumption
  <2> HIDE DEF used
  <2> QED
    BY <2>1, <2>2, <2>3, <2>4, TableSize, PresentedIsSmall, ConsoleConfigured
    DEF Full, ConsoleAssumption
<1> HIDE DEF used
<1>2. Fresh(used) \in Tokens \ used
  BY <1>1, FreshToken
<1> QED
  BY <1>2 DEF used

-----------------------------------------------------------------------------
(* The maps, as what they hold for each token.                             *)

\* A map whose entries have a time left.
TimedTable(table, ttl) ==
    /\ DOMAIN table \subseteq Tokens
    /\ \A k \in DOMAIN table : "left" \in DOMAIN table[k] /\ table[k].left \in 0..ttl

\* Pruning changes no lease.
LEMMA LeasesPruned ==
    ASSUME NEW ttl \in Nat, NEW table, TimedTable(table, ttl)
    PROVE  /\ TimedTable(Prune(table), ttl)
           /\ DOMAIN Prune(table) = Live(table)
           /\ Leases(Prune(table)) = Leases(table)
BY DEF TimedTable, Prune, Live, Leases

\* Dropping an entry ends its lease.
LEMMA LeasesDropped ==
    ASSUME NEW ttl \in Nat, NEW table, TimedTable(table, ttl), NEW k
    PROVE  /\ TimedTable(Drop(table, k), ttl)
           /\ Leases(Drop(table, k)) = [Leases(table) EXCEPT ![k] = 0]
BY DEF TimedTable, Drop, Leases

\* Putting an entry starts its lease.
LEMMA LeasesPut ==
    ASSUME NEW ttl \in Nat, NEW table, TimedTable(table, ttl), NEW k \in Tokens,
           NEW entry, "left" \in DOMAIN entry, entry.left \in 0..ttl
    PROVE  /\ TimedTable(Put(table, k, entry), ttl)
           /\ Leases(Put(table, k, entry)) = [Leases(table) EXCEPT ![k] = entry.left]
BY DEF TimedTable, Put, Leases

\* Time passes for the leases as it does for the entries.
LEMMA LeasesAged ==
    ASSUME NEW ttl \in Nat, NEW table, TimedTable(table, ttl)
    PROVE  /\ TimedTable(Aged(table), ttl)
           /\ Leases(Aged(table)) =
                [k \in Tokens |->
                    IF Leases(table)[k] > 0 THEN Leases(table)[k] - 1 ELSE 0]
<1>1. \A k \in DOMAIN table :
          /\ Aged(table)[k].left = Less(table[k].left)
          /\ "left" \in DOMAIN Aged(table)[k]
  BY DEF Aged, TimedTable
<1>2. DOMAIN Aged(table) = DOMAIN table
  BY DEF Aged
<1> QED
  BY <1>1, <1>2 DEF TimedTable, Leases, Less

\* An empty map holds nothing.
LEMMA LeasesEmpty ==
    ASSUME NEW ttl \in Nat
    PROVE  TimedTable(Empty, ttl) /\ Leases(Empty) = [k \in Tokens |-> 0]
BY DEF TimedTable, Leases, Empty

-----------------------------------------------------------------------------
(* Types.                                                                  *)

\* The part of TypeOK that the leases need.
Typed ==
    /\ TimedTable(progress, KnockWindow)
    /\ TimedTable(gates, GateTTL)
    /\ TimedTable(sessions, SessionTTL)
    /\ requests \in [Handlers -> Request]
    /\ logins \in [Tokens -> Nat]

\* The lifetimes are numbers.
LEMMA Lifetimes ==
    /\ KnockWindow \in Nat \ {0} /\ GateTTL \in Nat \ {0} /\ SessionTTL \in Nat \ {0}
BY ConsoleConfigured DEF ConsoleAssumption

\* What the lookups of a request remove is expired.
LEMMA LookedTyped ==
    ASSUME Typed, NEW s, NEW g, Looked(s, g)
    PROVE  /\ TimedTable(progress, KnockWindow)' /\ Leases(progress') = Leases(progress)
           /\ TimedTable(gates, GateTTL)' /\ Leases(gates') = Leases(gates)
           /\ TimedTable(sessions, SessionTTL)' /\ Leases(sessions') = Leases(sessions)
           /\ DOMAIN gates' \subseteq DOMAIN gates
<1>1. progress' = progress \/ progress' = Prune(progress)
  BY DEF Looked, PruneKnock
<1>2. gates' = gates \/ gates' = Prune(gates)
  BY DEF Looked, PruneKnock
<1>3. sessions' = sessions \/ sessions' = Prune(sessions)
  BY DEF Looked
<1>4. TimedTable(progress, KnockWindow)' /\ Leases(progress') = Leases(progress)
  BY <1>1, LeasesPruned, Lifetimes DEF Typed, TimedTable
<1>5. TimedTable(gates, GateTTL)' /\ Leases(gates') = Leases(gates)
  BY <1>2, LeasesPruned, Lifetimes DEF Typed, TimedTable
<1>6. TimedTable(sessions, SessionTTL)' /\ Leases(sessions') = Leases(sessions)
  BY <1>3, LeasesPruned, Lifetimes DEF Typed, TimedTable
<1>7. DOMAIN gates' \subseteq DOMAIN gates
  BY <1>2, LeasesPruned, Lifetimes DEF Typed, Live
<1> QED
  BY <1>4, <1>5, <1>6, <1>7

\* What the limit of an abstract table counts are the live entries.
LEMMA HeldIsLive ==
    ASSUME NEW ttl \in Nat, NEW table, TimedTable(table, ttl)
    PROVE  {k \in Tokens : Leases(table)[k] > 0} = Live(table)
BY DEF TimedTable, Leases, Live

\* The tables count as the console does.
LEMMA SameCardinality ==
    ASSUME NEW S
    PROVE  /\ Knocks!Cardinality(S) = Cardinality(S)
           /\ Gates!Cardinality(S) = Cardinality(S)
           /\ Sessions!Cardinality(S) = Cardinality(S)
<1>1. Knocks!Cardinality(S) = Cardinality(S)
  BY DEF Knocks!Cardinality, Cardinality
<1>2. Gates!Cardinality(S) = Cardinality(S)
  BY DEF Gates!Cardinality, Cardinality
<1>3. Sessions!Cardinality(S) = Cardinality(S)
  BY DEF Sessions!Cardinality, Cardinality
<1> QED
  BY <1>1, <1>2, <1>3

-----------------------------------------------------------------------------
(* Each step of a handler, on the map it changes.                          *)

\* A hit begins a knock within the limit, renews a live one or completes it.
LEMMA KnockDoorLeases ==
    ASSUME Typed, NEW h \in Handlers, NEW k \in Cookies(progress), KnockDoor(h, k)
    PROVE  /\ TimedTable(progress, KnockWindow)'
           /\ [Knocks!Next]_(Leases(progress))
<1> DEFINE open  == Prune(progress)
           known == k \in DOMAIN open
           token == IF known THEN k ELSE Fresh(DOMAIN open)
           hits  == IF known THEN open[k].hits + 1 ELSE 1
           entry == [hits |-> hits, left |-> KnockWindow]
<1>1. /\ TimedTable(open, KnockWindow) /\ DOMAIN open = Live(progress)
      /\ Leases(open) = Leases(progress)
  BY LeasesPruned, Lifetimes DEF Typed
<1>2. DOMAIN open \subseteq Tokens
  BY <1>1 DEF TimedTable
<1>3. "left" \in DOMAIN entry /\ entry.left = KnockWindow
  OBVIOUS
<1>4. \/ ~known /\ Full(open) /\ progress' = open
      \/ (known \/ ~Full(open)) /\ hits < KnockHits /\ progress' = Put(open, token, entry)
      \/ (known \/ ~Full(open)) /\ ~(hits < KnockHits) /\ progress' = Drop(open, token)
  BY DEF KnockDoor
<1>5. known \/ ~Full(open) => token \in Tokens
  BY <1>2, FreshInTable
<1>6. ~known /\ ~Full(open) => /\ token \notin DOMAIN open
                               /\ Cardinality(DOMAIN open) < MaxKnockState
  <2>1. Cardinality(DOMAIN open) \in Nat /\ MaxKnockState \in Nat
    BY <1>2, TableSize, ConsoleConfigured DEF ConsoleAssumption
  <2> QED
    BY <2>1, <1>2, FreshInTable DEF Full
<1>7. ~known => hits < KnockHits
  BY ConsoleConfigured DEF ConsoleAssumption
<1>8. Knocks!Held = DOMAIN open
  BY <1>1, HeldIsLive, Lifetimes DEF Knocks!Held, Typed
<1> HIDE DEF open, known, token, hits, entry
<1>9. CASE ~known /\ Full(open) /\ progress' = open
  BY <1>1, <1>9
<1>10. CASE (known \/ ~Full(open)) /\ progress' = Put(open, token, entry)
  <2>1. /\ TimedTable(progress', KnockWindow)
        /\ Leases(progress') = [Leases(progress) EXCEPT ![token] = KnockWindow]
    BY <1>1, <1>3, <1>5, <1>10, LeasesPut, Lifetimes
  <2>2. CASE known
    <3>1. token \in Tokens /\ Leases(progress)[token] > 0
      BY <1>5, <1>8, <2>2 DEF Knocks!Held, token, known
    <3>2. Knocks!Renew(token)
      BY <2>1, <3>1 DEF Knocks!Renew
    <3> QED
      BY <2>1, <3>1, <3>2 DEF Knocks!Next, TimedTable
  <2>3. CASE ~known
    <3>1. /\ token \in Tokens /\ token \notin DOMAIN open
          /\ Cardinality(DOMAIN open) < MaxKnockState
      BY <1>5, <1>6, <1>10, <2>3
    <3>2. Leases(progress)[token] = 0
      BY <1>1, <3>1 DEF Leases
    <3>3. Knocks!Begin(token)
      BY <1>8, <2>1, <3>1, <3>2, SameCardinality DEF Knocks!Begin
    <3> QED
      BY <2>1, <3>1, <3>3 DEF Knocks!Next, TimedTable
  <2> QED
    BY <2>2, <2>3
<1>11. CASE (known \/ ~Full(open)) /\ progress' = Drop(open, token)
  <2>1. /\ TimedTable(progress', KnockWindow)
        /\ Leases(progress') = [Leases(progress) EXCEPT ![token] = 0]
    BY <1>1, <1>11, LeasesDropped, Lifetimes
  <2>2. Knocks!Release(token)
    BY <2>1 DEF Knocks!Release
  <2> QED
    BY <1>5, <1>11, <2>1, <2>2 DEF Knocks!Next, TimedTable
<1> QED
  BY <1>4, <1>9, <1>10, <1>11

\* A gate is opened within the limit of live gates, with a token that no gate
\* has and no request presents.
LEMMA IssueGateLeases ==
    ASSUME Typed, NEW h \in Handlers, IssueGate(h)
    PROVE  /\ TimedTable(gates, GateTTL)'
           /\ [Gates!Next]_(Leases(gates))
<1> DEFINE open == Prune(gates)
           g    == Fresh(DOMAIN open \cup Presented)
<1>1. /\ TimedTable(open, GateTTL) /\ DOMAIN open = Live(gates)
      /\ Leases(open) = Leases(gates)
  BY LeasesPruned, Lifetimes DEF Typed
<1>2. DOMAIN open \subseteq Tokens
  BY <1>1 DEF TimedTable
<1>3. Gates!Held = DOMAIN open
  BY <1>1, HeldIsLive, Lifetimes DEF Gates!Held, Typed
<1>4. \/ Full(open) /\ gates' = open
      \/ ~Full(open) /\ gates' = Put(open, g, [left |-> GateTTL])
  BY DEF IssueGate
<1> HIDE DEF open
<1>5. CASE gates' = open
  BY <1>1, <1>5
<1>6. CASE ~Full(open) /\ gates' = Put(open, g, [left |-> GateTTL])
  <2>1. g \in Tokens \ DOMAIN open
    BY <1>2, <1>6, FreshGate
  <2>2. Cardinality(DOMAIN open) < MaxKnockState
    <3>1. Cardinality(DOMAIN open) \in Nat /\ MaxKnockState \in Nat
      BY <1>2, TableSize, ConsoleConfigured DEF ConsoleAssumption
    <3> QED
      BY <1>6, <3>1 DEF Full
  <2>3. [left |-> GateTTL].left = GateTTL /\ "left" \in DOMAIN [left |-> GateTTL]
    OBVIOUS
  <2> HIDE DEF g
  <2>4. /\ TimedTable(gates', GateTTL)
        /\ Leases(gates') = [Leases(gates) EXCEPT ![g] = GateTTL]
    BY <1>1, <1>6, <2>1, <2>3, LeasesPut, Lifetimes
  <2>5. Leases(gates)[g] = 0
    BY <1>1, <2>1 DEF Leases
  <2>6. Gates!Begin(g)
    BY <1>3, <2>2, <2>4, <2>5, SameCardinality DEF Gates!Begin
  <2> QED
    BY <2>1, <2>4, <2>6 DEF Gates!Next, TimedTable
<1> QED
  BY <1>4, <1>5, <1>6

\* A login begins a session; sessions have no limit but the tokens.
LEMMA OpenSessionLeases ==
    ASSUME Typed, NEW h \in Handlers, OpenSession(h)
    PROVE  /\ TimedTable(sessions, SessionTTL)'
           /\ [Sessions!Next]_(Leases(sessions))
<1> DEFINE open == Prune(sessions)
           s    == Fresh(DOMAIN open)
<1>1. /\ TimedTable(open, SessionTTL) /\ DOMAIN open = Live(sessions)
      /\ Leases(open) = Leases(sessions)
  BY LeasesPruned, Lifetimes DEF Typed
<1>2. DOMAIN open \subseteq Tokens
  BY <1>1 DEF TimedTable
<1>3. Sessions!Held = DOMAIN open
  BY <1>1, HeldIsLive, Lifetimes DEF Sessions!Held, Typed
<1>4. Cardinality(DOMAIN open) < MaxSessions /\ sessions' = Put(open, s, [left |-> SessionTTL])
  BY DEF OpenSession
<1> HIDE DEF open
<1>5. Cardinality(DOMAIN open) < Cardinality(Tokens)
  <2>1. Cardinality(DOMAIN open) \in Nat
    BY <1>2, TableSize
  <2>2. /\ Cardinality(Tokens) \in Nat /\ MaxSessions \in Nat
        /\ Cardinality(Tokens) >= MaxSessions
    BY FS_CardinalityType, ConsoleConfigured DEF ConsoleAssumption
  <2> QED
    BY <1>4, <2>1, <2>2
<1>6. s \in Tokens \ DOMAIN open
  BY <1>2, <1>5, TableSize, FreshToken
<1>7. [left |-> SessionTTL].left = SessionTTL /\ "left" \in DOMAIN [left |-> SessionTTL]
  OBVIOUS
<1> HIDE DEF s
<1>8. /\ TimedTable(sessions', SessionTTL)
      /\ Leases(sessions') = [Leases(sessions) EXCEPT ![s] = SessionTTL]
  BY <1>1, <1>4, <1>6, <1>7, LeasesPut, Lifetimes
<1>9. Leases(sessions)[s] = 0
  BY <1>1, <1>6 DEF Leases
<1>10. Sessions!Begin(s)
  BY <1>3, <1>5, <1>8, <1>9, SameCardinality DEF Sessions!Begin
<1> QED
  BY <1>6, <1>8, <1>10 DEF Sessions!Next, TimedTable

\* A logout releases the session.
LEMMA LogoutLeases ==
    ASSUME Typed, NEW s \in Live(sessions), Logout(s)
    PROVE  /\ TimedTable(sessions, SessionTTL)'
           /\ [Sessions!Next]_(Leases(sessions))
<1>1. /\ TimedTable(Prune(sessions), SessionTTL)
      /\ Leases(Prune(sessions)) = Leases(sessions)
  BY LeasesPruned, Lifetimes DEF Typed
<1>2. sessions' = Drop(Prune(sessions), s)
  BY DEF Logout
<1>3. /\ TimedTable(sessions', SessionTTL)
      /\ Leases(sessions') = [Leases(sessions) EXCEPT ![s] = 0]
  BY <1>1, <1>2, LeasesDropped, Lifetimes
<1>4. s \in Tokens
  BY DEF Live, Typed, TimedTable
<1>5. Sessions!Release(s)
  BY <1>3 DEF Sessions!Release
<1> QED
  BY <1>3, <1>4, <1>5 DEF Sessions!Next, TimedTable

\* A login that is done releases its gate, if it came through one.
LEMMA ConsumeGateLeases ==
    ASSUME Typed, NEW h \in Handlers, ConsumeGate(h)
    PROVE  /\ TimedTable(gates, GateTTL)'
           /\ [Gates!Next]_(Leases(gates))
<1> DEFINE g == requests[h].gate
<1>1. gates' = Drop(gates, g)
  BY DEF ConsumeGate
<1> HIDE DEF g
<1>2. /\ TimedTable(gates', GateTTL)
      /\ Leases(gates') = [Leases(gates) EXCEPT ![g] = 0]
  BY <1>1, LeasesDropped, Lifetimes DEF Typed
<1>3. CASE g \in Tokens
  <2>1. Gates!Release(g)
    BY <1>2 DEF Gates!Release
  <2> QED
    BY <1>2, <1>3, <2>1 DEF Gates!Next, TimedTable
<1>4. CASE g \notin Tokens
  <2>1. Leases(gates') = Leases(gates)
    BY <1>2, <1>4 DEF Leases
  <2> QED
    BY <1>2, <2>1 DEF TimedTable
<1> QED
  BY <1>3, <1>4

-----------------------------------------------------------------------------
(* Each step, on all maps.                                                 *)

\* What every step does to the abstract tables.
LeaseStep ==
    /\ [Knocks!Next]_(Leases(progress))
    /\ [Gates!Next]_(Leases(gates))
    /\ [Sessions!Next]_(Leases(sessions))

\* Prunes leave types and leases alone.
LEMMA PruneKnockKeeps ==
    ASSUME Typed
    PROVE  /\ progress' = Prune(progress) =>
                TimedTable(progress, KnockWindow)' /\ Leases(progress)' = Leases(progress)
           /\ gates' = Prune(gates) =>
                TimedTable(gates, GateTTL)' /\ Leases(gates)' = Leases(gates)
BY LeasesPruned, Lifetimes DEF Typed, TimedTable, Leases

\* Unchanged maps do.
LEMMA UnchangedKeeps ==
    ASSUME Typed
    PROVE  /\ UNCHANGED progress =>
                TimedTable(progress, KnockWindow)' /\ Leases(progress)' = Leases(progress)
           /\ UNCHANGED gates =>
                TimedTable(gates, GateTTL)' /\ Leases(gates)' = Leases(gates)
           /\ UNCHANGED sessions =>
                TimedTable(sessions, SessionTTL)' /\ Leases(sessions)' = Leases(sessions)
BY DEF Typed, TimedTable, Leases

\* Requests that come in.
LEMMA ArriveStep ==
    ASSUME Typed, Arrive
    PROVE  Typed' /\ LeaseStep
<1>1. ASSUME NEW s \in Cookies(sessions), NEW g \in Cookies(gates), Visit(s, g)
      PROVE  Typed' /\ LeaseStep
  <2>1. /\ TimedTable(progress, KnockWindow)' /\ Leases(progress)' = Leases(progress)
        /\ TimedTable(gates, GateTTL)' /\ Leases(gates)' = Leases(gates)
        /\ TimedTable(sessions, SessionTTL)' /\ Leases(sessions)' = Leases(sessions)
    BY <1>1, LookedTyped DEF Visit, Leases
  <2> QED
    BY <1>1, <2>1 DEF Visit, Typed, LeaseStep
<1>2. ASSUME NEW s \in Live(sessions), Logout(s)
      PROVE  Typed' /\ LeaseStep
  <2>1. UNCHANGED <<progress, gates, failures, requests, logins>>
    BY <1>2 DEF Logout
  <2> QED
    BY <1>2, <2>1, LogoutLeases, UnchangedKeeps DEF Typed, LeaseStep
<1>3. ASSUME NEW h \in Handlers, NEW k \in Cookies(progress), KnockDoor(h, k)
      PROVE  Typed' /\ LeaseStep
  <2>1. gates' = Prune(gates) /\ UNCHANGED <<sessions, logins>>
    BY <1>3 DEF KnockDoor
  <2>2. requests' = requests \/ requests' = [requests EXCEPT ![h] = [phase |-> "issuing"]]
    BY <1>3 DEF KnockDoor
  <2>3. requests' \in [Handlers -> Request]
    BY <2>2 DEF Typed, Request
  <2> QED
    BY <1>3, <2>1, <2>3, KnockDoorLeases, PruneKnockKeeps, UnchangedKeeps DEF Typed, LeaseStep
<1>4. ASSUME NEW h \in Handlers, NEW c \in Clients, NEW s \in Cookies(sessions),
             NEW g \in Cookies(gates), Login(h, c, s, g)
      PROVE  Typed' /\ LeaseStep
  <2>1. /\ TimedTable(progress, KnockWindow)' /\ Leases(progress)' = Leases(progress)
        /\ TimedTable(gates, GateTTL)' /\ Leases(gates)' = Leases(gates)
        /\ TimedTable(sessions, SessionTTL)' /\ Leases(sessions)' = Leases(sessions)
    BY <1>4, LookedTyped DEF Login, Leases
  <2>2. g \in Tokens \cup {NoToken}
    BY DEF Cookies, Typed, TimedTable
  <2>3. requests' \in [Handlers -> Request]
    BY <1>4, <2>2 DEF Login, Typed, Request
  <2> QED
    BY <1>4, <2>1, <2>3 DEF Login, Typed, LeaseStep
<1> QED
  BY <1>1, <1>2, <1>3, <1>4 DEF Arrive

\* The sections of a handler after its first.
LEMMA ServeStep ==
    ASSUME Typed, NEW h \in Handlers, Serve(h)
    PROVE  Typed' /\ LeaseStep
<1>1. CASE IssueGate(h)
  <2>1. /\ progress' = Prune(progress) /\ UNCHANGED sessions
        /\ requests' = [requests EXCEPT ![h] = Idle]
        /\ logins' = logins \/ \E g : logins' = [logins EXCEPT ![g] = 0]
    BY <1>1 DEF IssueGate
  <2>2. requests' \in [Handlers -> Request] /\ logins' \in [Tokens -> Nat]
    BY <2>1 DEF Typed, Request
  <2> QED
    BY <1>1, <2>1, <2>2, IssueGateLeases, PruneKnockKeeps, UnchangedKeeps DEF Typed, LeaseStep
<1>2. CASE CheckLock(h) \/ RecordFailure(h) \/ ClearFailures(h)
  <2>1. UNCHANGED <<progress, gates, sessions, logins>>
    BY <1>2 DEF CheckLock, RecordFailure, ClearFailures
  <2>2. requests' \in [Handlers -> Request]
    BY <1>2 DEF CheckLock, RecordFailure, ClearFailures, Go, End, Typed, Request, Idle
  <2> QED
    BY <2>1, <2>2, UnchangedKeeps DEF Typed, LeaseStep
<1>3. CASE OpenSession(h)
  <2>1. UNCHANGED <<progress, gates>>
    BY <1>3 DEF OpenSession
  <2>2. requests' \in [Handlers -> Request] /\ logins' \in [Tokens -> Nat]
    BY <1>3 DEF OpenSession, Go, Typed, Request, Idle
  <2> QED
    BY <1>3, <2>1, <2>2, OpenSessionLeases, UnchangedKeeps DEF Typed, LeaseStep
<1>4. CASE ConsumeGate(h)
  <2>1. UNCHANGED <<progress, sessions, logins>>
    BY <1>4 DEF ConsumeGate
  <2>2. requests' \in [Handlers -> Request]
    BY <1>4 DEF ConsumeGate, End, Typed, Request
  <2> QED
    BY <1>4, <2>1, <2>2, ConsumeGateLeases, UnchangedKeeps DEF Typed, LeaseStep
<1> QED
  BY <1>1, <1>2, <1>3, <1>4 DEF Serve

\* Time passes for all entries alike.
LEMMA TickStep == ASSUME Typed, Tick PROVE Typed' /\ LeaseStep
<1>1. TimedTable(progress, KnockWindow)' /\ Knocks!Pass
  BY LeasesAged, Lifetimes DEF Tick, Typed, Knocks!Pass, TimedTable, Leases
<1>2. TimedTable(gates, GateTTL)' /\ Gates!Pass
  BY LeasesAged, Lifetimes DEF Tick, Typed, Gates!Pass, TimedTable, Leases
<1>3. TimedTable(sessions, SessionTTL)' /\ Sessions!Pass
  BY LeasesAged, Lifetimes DEF Tick, Typed, Sessions!Pass, TimedTable, Leases
<1> QED
  BY <1>1, <1>2, <1>3 DEF Tick, Typed, LeaseStep, Knocks!Next, Gates!Next, Sessions!Next

\* A restart loses all entries.
LEMMA RestartStep == ASSUME Typed, Restart PROVE Typed' /\ LeaseStep
<1>1. TimedTable(progress, KnockWindow)' /\ Knocks!Lost
  BY LeasesEmpty, Lifetimes DEF Restart, Knocks!Lost, TimedTable, Leases
<1>2. TimedTable(gates, GateTTL)' /\ Gates!Lost
  BY LeasesEmpty, Lifetimes DEF Restart, Gates!Lost, TimedTable, Leases
<1>3. TimedTable(sessions, SessionTTL)' /\ Sessions!Lost
  BY LeasesEmpty, Lifetimes DEF Restart, Sessions!Lost, TimedTable, Leases
<1> QED
  BY <1>1, <1>2, <1>3
  DEF Restart, Typed, Request, LeaseStep, Knocks!Next, Gates!Next, Sessions!Next

\* Every step is one of the tables' or changes no lease.
LEMMA EveryStep == Typed /\ [Next]_vars => Typed' /\ LeaseStep
<1> SUFFICES ASSUME Typed, [Next]_vars PROVE Typed' /\ LeaseStep
  OBVIOUS
<1>1. CASE UNCHANGED vars
  BY <1>1, UnchangedKeeps DEF vars, Typed, LeaseStep
<1> QED
  BY <1>1, ArriveStep, ServeStep, TickStep, RestartStep DEF Next

\* At first there are no leases.
LEMMA LeasesInit ==
    Init => Typed /\ Knocks!Init /\ Gates!Init /\ Sessions!Init
BY LeasesEmpty, Lifetimes
DEF Init, Typed, Request, Knocks!Init, Gates!Init, Sessions!Init

-----------------------------------------------------------------------------
(* Logins that go through one gate.                                        *)

\* Requests that were let through with gate g and opened no session yet, and
\* those that opened one and are about to close the gate.
Using(g) == {h \in Handlers :
    requests[h].phase \in {"admitted", "checked", "cleared"} /\ requests[h].gate = g}
Closing(g) == {h \in Handlers :
    requests[h].phase = "opened" /\ requests[h].gate = g}

\* As long as a gate is there, all who opened a session with it are still
\* about to close it; so all who use it fit into Handlers.
Counted ==
    \A g \in Tokens :
        /\ g \in DOMAIN gates => logins[g] <= Cardinality(Closing(g))
        /\ logins[g] + Cardinality(Using(g)) <= Cardinality(Handlers)

\* Steps that open no session and let nobody in, and that move on from
\* closing a gate only by closing it, keep the count.
QuietStep ==
    /\ UNCHANGED logins
    /\ \A g \in Tokens :
        /\ g \in DOMAIN gates' => g \in DOMAIN gates /\ Closing(g) \subseteq Closing(g)'
        /\ Using(g)' \subseteq Using(g)

\* What is counted only shrinks, and its bound for an open gate does not.
LEMMA QuietKeepsCount ==
    ASSUME Typed, Counted, QuietStep
    PROVE  Counted'
<1> SUFFICES ASSUME NEW g \in Tokens
             PROVE  /\ g \in DOMAIN gates' => logins[g] <= Cardinality(Closing(g)')
                    /\ logins[g] + Cardinality(Using(g)') <= Cardinality(Handlers)
  BY DEF QuietStep, Counted
<1>1. Closing(g) \subseteq Handlers /\ Using(g) \subseteq Handlers
      /\ Closing(g)' \subseteq Handlers /\ Using(g)' \subseteq Handlers
  BY DEF Closing, Using
<1>2. /\ Cardinality(Using(g)) \in Nat /\ Cardinality(Using(g)') \in Nat
      /\ Cardinality(Using(g)') <= Cardinality(Using(g))
  BY <1>1, Finite, FS_Subset DEF QuietStep
<1>3. g \in DOMAIN gates' =>
        /\ Cardinality(Closing(g)) \in Nat /\ Cardinality(Closing(g)') \in Nat
        /\ Cardinality(Closing(g)) <= Cardinality(Closing(g)')
  BY <1>1, Finite, FS_Subset DEF QuietStep
<1>4. logins[g] \in Nat /\ Cardinality(Handlers) \in Nat
  BY Finite DEF Typed
<1> QED
  BY <1>2, <1>3, <1>4 DEF Counted, QuietStep

\* Most steps are quiet.
LEMMA QuietSteps ==
    ASSUME Typed,
           \/ \E s \in Cookies(sessions), g \in Cookies(gates) : Visit(s, g)
           \/ \E s \in Live(sessions) : Logout(s)
           \/ \E h \in Handlers : \E k \in Cookies(progress) : KnockDoor(h, k)
           \/ \E h \in Handlers :
                CheckLock(h) \/ RecordFailure(h) \/ ClearFailures(h) \/ ConsumeGate(h)
           \/ Tick \/ UNCHANGED vars
    PROVE  QuietStep
<1>1. DOMAIN requests = Handlers
  BY DEF Typed
<1>2. ASSUME NEW s, NEW g, Visit(s, g) PROVE QuietStep
  BY <1>2, LookedTyped DEF Visit, QuietStep, Closing, Using
<1>3. ASSUME NEW s, Logout(s) PROVE QuietStep
  BY <1>3 DEF Logout, QuietStep, Closing, Using
<1>4. ASSUME NEW h \in Handlers, NEW k, KnockDoor(h, k) PROVE QuietStep
  <2>1. UNCHANGED logins /\ DOMAIN gates' \subseteq DOMAIN gates
    BY <1>4 DEF KnockDoor, Prune, Live
  <2>2. /\ requests[h].phase = "idle"
        /\ requests' = requests \/ requests' = [requests EXCEPT ![h] = [phase |-> "issuing"]]
    BY <1>4 DEF KnockDoor, Idle
  <2>3. \A g : Closing(g)' = Closing(g) /\ Using(g)' = Using(g)
    BY <1>1, <2>2 DEF Closing, Using
  <2> QED
    BY <2>1, <2>3 DEF QuietStep
<1>5. ASSUME NEW h \in Handlers, CheckLock(h) \/ RecordFailure(h) \/ ClearFailures(h)
      PROVE  QuietStep
  <2>1. UNCHANGED logins /\ gates' = gates
    BY <1>5 DEF CheckLock, RecordFailure, ClearFailures
  <2>2. requests[h].phase \in {"admitted", "checked"}
    BY <1>5 DEF CheckLock, RecordFailure, ClearFailures
  <2>3. \/ requests' = [requests EXCEPT ![h] = Idle]
        \/ requests' = [requests EXCEPT ![h].phase = "checked"]
        \/ requests' = [requests EXCEPT ![h].phase = "cleared"]
    BY <1>5 DEF CheckLock, RecordFailure, ClearFailures, Go, End
  <2>4. requests[h] \in [phase : {"admitted", "checked", "cleared", "opened"},
                         client : Clients, gate : Tokens \cup {NoToken}]
    BY <2>2 DEF Typed, Request, Idle
  <2>5. \A g : Closing(g)' = Closing(g) /\ Using(g)' \subseteq Using(g)
    BY <1>1, <2>2, <2>3, <2>4 DEF Closing, Using, Idle
  <2> QED
    BY <2>1, <2>5 DEF QuietStep
<1>6. ASSUME NEW h \in Handlers, ConsumeGate(h) PROVE QuietStep
  <2>1. /\ UNCHANGED logins /\ requests[h].phase = "opened"
        /\ requests' = [requests EXCEPT ![h] = Idle]
        /\ DOMAIN gates' = DOMAIN gates \ {requests[h].gate}
    BY <1>6 DEF ConsumeGate, End, Drop
  <2>2. \A g : Using(g)' = Using(g)
    BY <1>1, <2>1 DEF Using, Idle
  <2>3. \A g : g # requests[h].gate => Closing(g) \subseteq Closing(g)'
    BY <1>1, <2>1 DEF Closing, Idle
  <2> QED
    BY <2>1, <2>2, <2>3 DEF QuietStep
<1>7. Tick => QuietStep
  BY DEF Tick, Aged, QuietStep, Closing, Using
<1>8. UNCHANGED vars => QuietStep
  BY DEF vars, QuietStep, Closing, Using
<1> QED
  BY <1>2, <1>3, <1>4, <1>5, <1>6, <1>7, <1>8

\* Who is let through by a gate is one more of the handlers.
LEMMA LoginKeepsCount ==
    ASSUME Typed, Counted, NEW h \in Handlers, NEW c, NEW s, NEW g0 \in Cookies(gates),
           Login(h, c, s, g0)
    PROVE  Counted'
<1>1. /\ requests[h].phase = "idle" /\ UNCHANGED logins
      /\ requests' = [requests EXCEPT ![h] =
             [phase |-> "admitted", client |-> c, gate |-> g0]]
      /\ DOMAIN requests = Handlers
  BY DEF Login, Idle, Typed
<1>2. DOMAIN gates' \subseteq DOMAIN gates
  BY LookedTyped DEF Login
<1>3. \A g : Closing(g)' = Closing(g)
  BY <1>1 DEF Closing
<1>4. ASSUME NEW g \in Tokens
      PROVE  logins[g] + Cardinality(Using(g)') <= Cardinality(Handlers)
  <2>1. CASE g = g0
    <3>1. logins[g] <= Cardinality(Closing(g))
      BY <2>1, <1>4, ConsoleConfigured DEF Counted, Cookies, NoToken, ConsoleAssumption
    <3>2. /\ Closing(g) \subseteq Handlers /\ Using(g)' \subseteq Handlers
          /\ Closing(g) \cap Using(g)' = {}
      BY <1>1 DEF Closing, Using
    <3>3. /\ Cardinality(Closing(g) \cup Using(g)') =
               Cardinality(Closing(g)) + Cardinality(Using(g)') - Cardinality({})
          /\ Cardinality(Closing(g) \cup Using(g)') <= Cardinality(Handlers)
      BY <3>2, Finite, FS_Union
    <3>4. /\ Cardinality({}) = 0 /\ logins[g] \in Nat /\ Cardinality(Handlers) \in Nat
          /\ Cardinality(Closing(g)) \in Nat /\ Cardinality(Using(g)') \in Nat
      BY <3>2, <1>4, Finite, FS_EmptySet DEF Typed
    <3> QED
      BY <3>1, <3>3, <3>4
  <2>2. CASE g # g0
    <3>1. Using(g)' = Using(g)
      BY <1>1, <2>2 DEF Using
    <3> QED
      BY <1>4, <3>1 DEF Counted
  <2> QED
    BY <2>1, <2>2
<1> QED
  BY <1>1, <1>2, <1>3, <1>4 DEF Counted

\* Who opens a session stops using the gate and is about to close it.
LEMMA OpenSessionKeepsCount ==
    ASSUME Typed, Counted, NEW h \in Handlers, OpenSession(h)
    PROVE  Counted'
<1>0. PICK g0 : g0 = requests[h].gate
  OBVIOUS
<1>1. /\ requests[h].phase = "cleared" /\ UNCHANGED gates
      /\ requests' = [requests EXCEPT ![h].phase = "opened"]
      /\ logins' = [g \in Tokens |-> IF g = g0 THEN logins[g] + 1 ELSE logins[g]]
      /\ DOMAIN requests = Handlers
  BY <1>0 DEF OpenSession, Go, Typed
<1>2. requests[h] \in [phase : {"admitted", "checked", "cleared", "opened"},
                       client : Clients, gate : Tokens \cup {NoToken}]
  BY <1>1 DEF Typed, Request, Idle
<1>3. requests'[h].phase = "opened" /\ requests'[h].gate = g0
  BY <1>0, <1>1, <1>2
<1>4. ASSUME NEW g \in Tokens, g # g0
      PROVE  logins'[g] = logins[g] /\ Using(g)' = Using(g) /\ Closing(g)' = Closing(g)
  BY <1>0, <1>1, <1>3, <1>4 DEF Using, Closing
<1>5. /\ Using(g0)' = Using(g0) \ {h} /\ h \in Using(g0)
      /\ Closing(g0)' = Closing(g0) \cup {h} /\ h \notin Closing(g0)
  BY <1>0, <1>1, <1>3 DEF Using, Closing
<1>6. /\ Cardinality(Using(g0)') = Cardinality(Using(g0)) - 1
      /\ Cardinality(Closing(g0)') = Cardinality(Closing(g0)) + 1
      /\ Cardinality(Using(g0)) \in Nat /\ Cardinality(Closing(g0)) \in Nat
      /\ Cardinality(Handlers) \in Nat
  <2>1. Using(g0) \subseteq Handlers /\ Closing(g0) \subseteq Handlers
    BY DEF Using, Closing
  <2> QED
    BY <1>5, <2>1, Finite, FS_AddElement, FS_RemoveElement
<1>7. ASSUME NEW g \in Tokens
      PROVE  /\ g \in DOMAIN gates' => logins'[g] <= Cardinality(Closing(g)')
             /\ logins'[g] + Cardinality(Using(g)') <= Cardinality(Handlers)
  <2>1. CASE g = g0
    <3>1. logins'[g] = logins[g] + 1 /\ logins[g] \in Nat
      BY <1>1, <1>7, <2>1 DEF Typed
    <3> QED
      BY <1>1, <1>6, <1>7, <2>1, <3>1 DEF Counted
  <2>2. CASE g # g0
    BY <1>1, <1>4, <1>7, <2>2 DEF Counted
  <2> QED
    BY <2>1, <2>2
<1> QED
  BY <1>7 DEF Counted

\* A new gate starts without logins.
LEMMA IssueGateKeepsCount ==
    ASSUME Typed, Counted, NEW h \in Handlers, IssueGate(h)
    PROVE  Counted'
<1> DEFINE g0 == Fresh(DOMAIN Prune(gates) \cup Presented)
<1>1. /\ requests[h].phase = "issuing"
      /\ requests' = [requests EXCEPT ![h] = Idle]
      /\ DOMAIN requests = Handlers
      /\ \/ DOMAIN gates' \subseteq DOMAIN gates /\ UNCHANGED logins
         \/ /\ DOMAIN gates' \subseteq DOMAIN gates \cup {g0}
            /\ logins' = [logins EXCEPT ![g0] = 0]
  BY DEF IssueGate, End, Put, Prune, Live, Typed
<1> HIDE DEF g0
<1>2. \A g : Using(g)' = Using(g) /\ Closing(g)' = Closing(g)
  BY <1>1 DEF Using, Closing, Idle
<1>3. ASSUME NEW g \in Tokens
      PROVE  /\ g \in DOMAIN gates' => logins'[g] <= Cardinality(Closing(g)')
             /\ logins'[g] + Cardinality(Using(g)') <= Cardinality(Handlers)
  <2>1. /\ Cardinality(Using(g)) \in Nat /\ Cardinality(Closing(g)) \in Nat
        /\ Cardinality(Using(g)) <= Cardinality(Handlers) /\ Cardinality(Handlers) \in Nat
    BY Finite DEF Using, Closing
  <2>2. logins[g] \in Nat /\ DOMAIN logins = Tokens
    BY <1>3 DEF Typed
  <2>3. \/ logins'[g] = 0
        \/ logins'[g] = logins[g] /\ (g \in DOMAIN gates' => g \in DOMAIN gates)
    BY <1>1, <1>3, <2>2
  <2> QED
    BY <1>2, <1>3, <2>1, <2>2, <2>3 DEF Counted
<1> QED
  BY <1>3 DEF Counted

\* Without gates and requests there is nothing to count.
LEMMA NothingCounted ==
    ASSUME DOMAIN gates = {}, logins = [g \in Tokens |-> 0],
           requests = [h \in Handlers |-> Idle]
    PROVE  Counted
<1> SUFFICES ASSUME NEW g \in Tokens
             PROVE  logins[g] + Cardinality(Using(g)) <= Cardinality(Handlers)
  BY DEF Counted
<1>1. Using(g) = {}
  BY DEF Using, Idle
<1>2. Cardinality(Using(g)) = 0 /\ Cardinality(Handlers) \in Nat
  BY <1>1, Finite, FS_EmptySet
<1> QED
  BY <1>2

\* The count is kept by every step.
LEMMA CountedStep == Typed /\ Counted /\ [Next]_vars => Counted'
<1> SUFFICES ASSUME Typed, Counted, [Next]_vars PROVE Counted'
  OBVIOUS
<1>1. CASE Arrive
  BY <1>1, QuietSteps, QuietKeepsCount, LoginKeepsCount DEF Arrive
<1>2. ASSUME NEW h \in Handlers, Serve(h) PROVE Counted'
  BY <1>2, QuietSteps, QuietKeepsCount, OpenSessionKeepsCount, IssueGateKeepsCount
  DEF Serve
<1>3. CASE Tick \/ UNCHANGED vars
  BY <1>3, QuietSteps, QuietKeepsCount
<1>4. CASE Restart
  <2> SUFFICES ASSUME NEW g \in Tokens
               PROVE  /\ DOMAIN gates' = {}
                      /\ logins'[g] + Cardinality(Using(g)') <= Cardinality(Handlers)
    BY DEF Counted
  <2>1. DOMAIN gates' = {} /\ logins'[g] = 0
    BY <1>4 DEF Restart, Empty
  <2>2. Using(g)' = {}
    BY <1>4 DEF Restart, Using, Idle
  <2>3. Cardinality(Using(g)') = 0 /\ Cardinality(Handlers) \in Nat
    BY <2>2, Finite, FS_EmptySet
  <2> QED
    BY <2>1, <2>3
<1> QED
  BY <1>1, <1>2, <1>3, <1>4 DEF Next

-----------------------------------------------------------------------------
(* What the maps hold.                                                     *)

Knock == [hits : 1..(KnockHits - 1), left : 0..KnockWindow]
Gate == [left : 0..GateTTL]
Session == [left : 0..SessionTTL]

\* The maps in TypeOK.
Tables ==
    /\ progress \in Table(Knock) /\ gates \in Table(Gate) /\ sessions \in Table(Session)

\* A map of entries, by its keys and values.
LEMMA TableIs ==
    ASSUME NEW Entry, NEW table
    PROVE  table \in Table(Entry) <=>
               /\ DOMAIN table \subseteq Tokens
               /\ table = [k \in DOMAIN table |-> table[k]]
               /\ \A k \in DOMAIN table : table[k] \in Entry
BY DEF Table

\* What is done to a map keeps its entries of their kind.
LEMMA TableKept ==
    ASSUME NEW Entry, NEW table \in Table(Entry)
    PROVE  /\ Prune(table) \in Table(Entry)
           /\ \A k : Drop(table, k) \in Table(Entry)
           /\ \A k \in Tokens, e \in Entry : Put(table, k, e) \in Table(Entry)
           /\ (\A e \in Entry : [e EXCEPT !.left = Less(@)] \in Entry) =>
                 Aged(table) \in Table(Entry)
<1>1. DOMAIN table \subseteq Tokens /\ \A k \in DOMAIN table : table[k] \in Entry
  BY TableIs
<1>2. Prune(table) \in [Live(table) -> Entry] /\ Live(table) \subseteq Tokens
  BY <1>1 DEF Prune, Live
<1>3. ASSUME NEW k PROVE Drop(table, k) \in Table(Entry)
  <2>1. Drop(table, k) \in [DOMAIN table \ {k} -> Entry] /\ DOMAIN table \ {k} \subseteq Tokens
    BY <1>1 DEF Drop
  <2> QED
    BY <2>1 DEF Table
<1>4. ASSUME NEW k \in Tokens, NEW e \in Entry PROVE Put(table, k, e) \in Table(Entry)
  <2>1. /\ Put(table, k, e) \in [DOMAIN table \cup {k} -> Entry]
        /\ DOMAIN table \cup {k} \subseteq Tokens
    BY <1>1 DEF Put
  <2> QED
    BY <2>1 DEF Table
<1>5. ASSUME \A e \in Entry : [e EXCEPT !.left = Less(@)] \in Entry
      PROVE  Aged(table) \in Table(Entry)
  <2>1. Aged(table) \in [DOMAIN table -> Entry]
    BY <1>1, <1>5 DEF Aged
  <2> QED
    BY <1>1, <2>1 DEF Table
<1> QED
  BY <1>2, <1>3, <1>4, <1>5 DEF Table

\* Time leaves an entry of its kind.
LEMMA EntriesAge ==
    /\ \A e \in Knock : [e EXCEPT !.left = Less(@)] \in Knock
    /\ \A e \in Gate : [e EXCEPT !.left = Less(@)] \in Gate
    /\ \A e \in Session : [e EXCEPT !.left = Less(@)] \in Session
<1>1. \A n \in Nat : \A x \in 0..n : Less(x) \in 0..n
  BY DEF Less
<1>2. ASSUME NEW e \in Knock PROVE [e EXCEPT !.left = Less(@)] \in Knock
  <2>1. Less(e.left) \in 0..KnockWindow
    BY <1>1, Lifetimes DEF Knock
  <2> QED
    BY <2>1 DEF Knock
<1>3. ASSUME NEW e \in Gate PROVE [e EXCEPT !.left = Less(@)] \in Gate
  <2>1. Less(e.left) \in 0..GateTTL
    BY <1>1, Lifetimes DEF Gate
  <2> QED
    BY <2>1 DEF Gate
<1>4. ASSUME NEW e \in Session PROVE [e EXCEPT !.left = Less(@)] \in Session
  <2>1. Less(e.left) \in 0..SessionTTL
    BY <1>1, Lifetimes DEF Session
  <2> QED
    BY <2>1 DEF Session
<1> QED
  BY <1>2, <1>3, <1>4

\* The lookups only prune.
LEMMA LookedTables == ASSUME Tables, NEW s, NEW g, Looked(s, g) PROVE Tables'
BY TableKept DEF Tables, Looked, PruneKnock

\* A knock is counted below the number that opens the gate.
LEMMA KnockDoorTables ==
    ASSUME Typed, Tables, NEW h \in Handlers, NEW k \in Cookies(progress), KnockDoor(h, k)
    PROVE  Tables'
<1> DEFINE open  == Prune(progress)
           known == k \in DOMAIN open
           token == IF known THEN k ELSE Fresh(DOMAIN open)
           hits  == IF known THEN open[k].hits + 1 ELSE 1
<1>1. open \in Table(Knock)
  BY TableKept DEF Tables
<1>2. DOMAIN open \subseteq Tokens /\ \A j \in DOMAIN open : open[j] \in Knock
  BY <1>1, TableIs
<1>3. gates' = Prune(gates) /\ sessions' = sessions
  BY DEF KnockDoor
<1>4. gates' \in Table(Gate)
  BY <1>3, TableKept DEF Tables
<1>5. progress' \in Table(Knock)
  <2>1. \/ progress' = open
        \/ /\ progress' = Put(open, token, [hits |-> hits, left |-> KnockWindow])
           /\ hits < KnockHits /\ (known \/ ~Full(open))
        \/ progress' = Drop(open, token)
    BY DEF KnockDoor
  <2>2. known \/ ~Full(open) => token \in Tokens
    <3> HIDE DEF open
    <3> QED
      BY <1>2, FreshInTable
  <2>3. hits \in Nat \ {0}
    <3> HIDE DEF open
    <3> QED
      BY <1>2 DEF Knock
  <2> HIDE DEF open, hits, token, known
  <2>4. hits < KnockHits => [hits |-> hits, left |-> KnockWindow] \in Knock
    BY <2>3, Lifetimes, ConsoleConfigured DEF Knock, ConsoleAssumption
  <2> QED
    BY <1>1, <2>1, <2>2, <2>4, TableKept
<1> QED
  BY <1>3, <1>4, <1>5 DEF Tables

\* A gate begins with all its time.
LEMMA IssueGateTables ==
    ASSUME Typed, Tables, NEW h \in Handlers, IssueGate(h)
    PROVE  Tables'
<1> DEFINE open == Prune(gates)
           g    == Fresh(DOMAIN open \cup Presented)
<1>1. open \in Table(Gate) /\ progress' \in Table(Knock) /\ sessions' = sessions
  BY TableKept DEF Tables, IssueGate
<1>2. \/ gates' = open
      \/ gates' = Put(open, g, [left |-> GateTTL]) /\ ~Full(open)
  BY DEF IssueGate
<1>3. ~Full(open) => g \in Tokens
  <2> HIDE DEF open
  <2> QED
    BY <1>1, TableIs, FreshGate
<1>4. [left |-> GateTTL] \in Gate
  BY Lifetimes DEF Gate
<1> HIDE DEF open, g
<1>5. gates' \in Table(Gate)
  BY <1>1, <1>2, <1>3, <1>4, TableKept
<1> QED
  BY <1>1, <1>5 DEF Tables

\* So does a session.
LEMMA OpenSessionTables ==
    ASSUME Typed, Tables, NEW h \in Handlers, OpenSession(h)
    PROVE  Tables'
<1> DEFINE open == Prune(sessions)
<1>1. open \in Table(Session) /\ UNCHANGED <<progress, gates>>
  BY TableKept DEF Tables, OpenSession
<1>2. /\ sessions' = Put(open, Fresh(DOMAIN open), [left |-> SessionTTL])
      /\ Cardinality(DOMAIN open) < MaxSessions
  BY DEF OpenSession
<1> HIDE DEF open
<1>3. DOMAIN open \subseteq Tokens
  BY <1>1, TableIs
<1>4. IsFiniteSet(DOMAIN open) /\ Cardinality(DOMAIN open) < Cardinality(Tokens)
  <2>1. /\ IsFiniteSet(DOMAIN open) /\ Cardinality(DOMAIN open) \in Nat
    BY <1>3, TableSize
  <2>2. /\ MaxSessions \in Nat /\ Cardinality(Tokens) \in Nat
        /\ Cardinality(Tokens) >= MaxSessions
    BY FS_CardinalityType, ConsoleConfigured DEF ConsoleAssumption
  <2> QED
    BY <1>2, <2>1, <2>2
<1>5. Fresh(DOMAIN open) \in Tokens /\ [left |-> SessionTTL] \in Session
  BY <1>4, FreshToken, Lifetimes DEF Session
<1>6. sessions' \in Table(Session)
  BY <1>1, <1>2, <1>5, TableKept
<1> QED
  BY <1>1, <1>6 DEF Tables

\* Empty maps hold nothing of any kind.
LEMMA EmptyTables ==
    ASSUME progress = Empty, gates = Empty, sessions = Empty
    PROVE  Tables
<1>1. \A Entry : Empty \in Table(Entry)
  <2> SUFFICES ASSUME NEW Entry PROVE Empty \in Table(Entry)
    OBVIOUS
  <2>1. Empty \in [{} -> Entry]
    BY DEF Empty
  <2> QED
    BY <2>1 DEF Table
<1> QED
  BY <1>1 DEF Tables

\* Every step keeps the maps.
LEMMA TablesStep == Typed /\ Tables /\ [Next]_vars => Tables'
<1> SUFFICES ASSUME Typed, Tables, [Next]_vars PROVE Tables'
  OBVIOUS
<1>1. ASSUME UNCHANGED <<progress, gates, sessions>> PROVE Tables'
  BY <1>1 DEF Tables
<1>2. CASE Arrive
  <2>1. ASSUME NEW s, NEW g, Visit(s, g) PROVE Tables'
    BY <2>1, LookedTables DEF Visit
  <2>2. ASSUME NEW s, Logout(s) PROVE Tables'
    <3>1. Prune(sessions) \in Table(Session)
      BY TableKept DEF Tables
    <3>2. sessions' \in Table(Session) /\ UNCHANGED <<progress, gates>>
      BY <2>2, <3>1, TableKept DEF Logout
    <3> QED
      BY <3>2 DEF Tables
  <2>3. ASSUME NEW h, NEW c, NEW s, NEW g, Login(h, c, s, g) PROVE Tables'
    BY <2>3, LookedTables DEF Login
  <2> QED
    BY <1>2, <2>1, <2>2, <2>3, KnockDoorTables DEF Arrive
<1>3. ASSUME NEW h \in Handlers, Serve(h) PROVE Tables'
  <2>1. CheckLock(h) \/ RecordFailure(h) \/ ClearFailures(h) => Tables'
    BY <1>1 DEF CheckLock, RecordFailure, ClearFailures
  <2>2. ConsumeGate(h) => Tables'
    BY TableKept DEF ConsumeGate, Tables
  <2> QED
    BY <1>3, <2>1, <2>2, IssueGateTables, OpenSessionTables DEF Serve
<1>4. CASE Tick
  BY <1>4, TableKept, EntriesAge DEF Tick, Tables
<1>5. CASE Restart
  <2>1. progress' = Empty /\ gates' = Empty /\ sessions' = Empty
    BY <1>5 DEF Restart
  <2>2. (progress = Empty /\ gates = Empty /\ sessions = Empty)' => Tables'
    BY EmptyTables, PTL
  <2> QED
    BY <2>1, <2>2 DEF Empty
<1>6. CASE UNCHANGED vars
  BY <1>1, <1>6 DEF vars
<1> QED
  BY <1>2, <1>3, <1>4, <1>5, <1>6 DEF Next

-----------------------------------------------------------------------------
(* Failures.                                                               *)

\* What is said of one list of failures.
Ordered(f) == \A i, j \in DOMAIN f : i <= j => f[i] <= f[j]
Old(f) == {i \in DOMAIN f : f[i] = 0}
Rest(f) == SubSeq(f, Cardinality(Old(f)) + 1, Len(f))

\* Those of a client that no longer count, and those that do.
LEMMA CountingIsRest ==
    \A c : Counting(c) = Rest(failures[c]) /\ Counting(c)' = Rest(failures'[c])
BY DEF Counting, Lapsed, Rest, Old

\* The failures of a client that no longer count are a prefix of them.
LEMMA OldIsPrefix ==
    ASSUME NEW f \in Seq(0..LockWindow), Ordered(f)
    PROVE  \E n \in 0..Len(f) : Old(f) = 1..n /\ Cardinality(Old(f)) = n
<1>1. /\ Len(f) \in Nat /\ DOMAIN f = 1..Len(f)
      /\ \A i \in 1..Len(f) : f[i] \in 0..LockWindow
  BY LenProperties, ElementOfSeq
<1>2. Old(f) \in SUBSET Nat /\ \A i \in Old(f) : i <= Len(f)
  BY <1>1 DEF Old
<1>3. CASE Old(f) = {}
  BY <1>1, <1>3, FS_EmptySet
<1>4. CASE Old(f) # {}
  <2>1. PICK n \in Old(f) : \A i \in Old(f) : i <= n
    BY <1>1, <1>2, <1>4, Greatest
  <2>2. n \in 1..Len(f) /\ f[n] = 0
    BY <1>1, <2>1 DEF Old
  <2>3. \A i \in 1..n : f[i] <= 0
    BY <1>1, <2>2 DEF Ordered
  <2>4. LockWindow \in Nat
    BY ConsoleConfigured DEF ConsoleAssumption
  <2>5. \A i \in 1..n : f[i] = 0
    BY <1>1, <2>2, <2>3, <2>4
  <2>6. Old(f) = 1..n
    BY <1>1, <1>2, <2>1, <2>2, <2>5 DEF Old
  <2>7. Cardinality(1..n) = n
    BY <2>2, FS_Interval
  <2> QED
    BY <2>2, <2>6, <2>7
<1> QED
  BY <1>3, <1>4

\* What is kept of them is in order and all of it counts.
LEMMA RestIs ==
    ASSUME NEW f \in Seq(0..LockWindow), Ordered(f)
    PROVE  /\ Rest(f) \in Seq(0..LockWindow) /\ Ordered(Rest(f)) /\ Old(Rest(f)) = {}
           /\ Cardinality(Old(f)) \in 0..Len(f) /\ Len(f) \in Nat
           /\ Len(Rest(f)) = Len(f) - Cardinality(Old(f))
<1>1. PICK n \in 0..Len(f) : Old(f) = 1..n /\ Cardinality(Old(f)) = n
  BY OldIsPrefix
<1>2. /\ Len(f) \in Nat /\ DOMAIN f = 1..Len(f)
      /\ \A i \in 1..Len(f) : f[i] \in 0..LockWindow
  BY LenProperties, ElementOfSeq
<1> DEFINE r == SubSeq(f, n + 1, Len(f))
<1>3. Rest(f) = r
  BY <1>1 DEF Rest
<1>4. /\ r \in Seq(0..LockWindow) /\ Len(r) = Len(f) - n
      /\ \A i \in 1..(Len(f) - n) : r[i] = f[i + n]
  <2>1. n + 1 \in Int /\ Len(f) \in Int /\ \A i \in (n + 1)..Len(f) : f[i] \in 0..LockWindow
    BY <1>1, <1>2
  <2>2. /\ r \in Seq(0..LockWindow)
        /\ Len(r) = IF n + 1 <= Len(f) THEN Len(f) - (n + 1) + 1 ELSE 0
        /\ \A i \in 1..(Len(f) - (n + 1) + 1) : r[i] = f[(n + 1) + i - 1]
    <3>1. \A T, m \in Int, e \in Int : (\A i \in m..e : f[i] \in T) =>
             /\ SubSeq(f, m, e) \in Seq(T)
             /\ Len(SubSeq(f, m, e)) = IF m <= e THEN e - m + 1 ELSE 0
             /\ \A i \in 1..(e - m + 1) : SubSeq(f, m, e)[i] = f[m + i - 1]
      BY SubSeqProperties
    <3> QED
      BY <2>1, <3>1
  <2> HIDE DEF r
  <2>3. n \in Nat /\ Len(f) \in Nat /\ n <= Len(f)
    BY <1>1, <1>2
  <2>4. Len(r) = Len(f) - n
    <3> DEFINE l == Len(r)
    <3>1. l = IF n + 1 <= Len(f) THEN Len(f) - (n + 1) + 1 ELSE 0
      BY <2>2
    <3> HIDE DEF l
    <3>2. l = Len(f) - n
      BY <2>3, <3>1
    <3> QED
      BY <3>2 DEF l
  <2>5. ASSUME NEW i \in 1..(Len(f) - n) PROVE r[i] = f[i + n]
    <3>1. (n + 1) + i - 1 = i + n /\ i \in 1..(Len(f) - (n + 1) + 1)
      BY <2>3
    <3> QED
      BY <2>2, <3>1
  <2> QED
    BY <2>2, <2>4, <2>5
<1> HIDE DEF r
<1>5. DOMAIN r = 1..(Len(f) - n) /\ \A i \in DOMAIN r : r[i] = f[i + n]
  BY <1>4, LenProperties
<1>6. Ordered(r)
  <2> SUFFICES ASSUME NEW i \in DOMAIN r, NEW j \in DOMAIN r, i <= j
               PROVE  r[i] <= r[j]
    BY DEF Ordered
  <2>1. i + n \in DOMAIN f /\ j + n \in DOMAIN f /\ i + n <= j + n
    BY <1>1, <1>2, <1>5
  <2> QED
    BY <1>5, <2>1 DEF Ordered
<1>7. Old(r) = {}
  <2> SUFFICES ASSUME NEW i \in DOMAIN r, r[i] = 0
               PROVE  FALSE
    BY DEF Old
  <2>1. i + n \in DOMAIN f /\ i + n \notin 1..n
    BY <1>1, <1>2, <1>5
  <2> QED
    BY <1>1, <1>5, <2>1 DEF Old
<1> QED
  BY <1>1, <1>2, <1>3, <1>4, <1>6, <1>7

\* One more failure is the last of those that count.
LEMMA AppendedCounts ==
    ASSUME NEW f \in Seq(0..LockWindow), Ordered(f), LockWindow \in Nat \ {0}
    PROVE  /\ Append(f, LockWindow) \in Seq(0..LockWindow)
           /\ Ordered(Append(f, LockWindow))
           /\ Len(Rest(Append(f, LockWindow))) = Len(Rest(f)) + 1
<1> DEFINE g == Append(f, LockWindow)
<1>1. /\ g \in Seq(0..LockWindow) /\ Len(g) = Len(f) + 1 /\ Len(f) \in Nat
      /\ \A i \in 1..Len(f) : g[i] = f[i] /\ f[i] \in 0..LockWindow
      /\ g[Len(f) + 1] = LockWindow
  BY AppendProperties, LenProperties, ElementOfSeq
<1>2. DOMAIN g = 1..(Len(f) + 1) /\ DOMAIN f = 1..Len(f)
  BY <1>1, LenProperties
<1> HIDE DEF g
<1>3. Ordered(g)
  <2> SUFFICES ASSUME NEW i \in DOMAIN g, NEW j \in DOMAIN g, i <= j
               PROVE  g[i] <= g[j]
    BY DEF Ordered
  <2>1. CASE j = Len(f) + 1
    BY <1>1, <1>2, <2>1
  <2>2. CASE j # Len(f) + 1
    <3>1. i \in DOMAIN f /\ j \in DOMAIN f
      BY <1>1, <1>2, <2>2
    <3> QED
      BY <1>1, <1>2, <3>1 DEF Ordered
  <2> QED
    BY <2>1, <2>2
<1>4. Old(g) = Old(f)
  BY <1>1, <1>2 DEF Old
<1>5. /\ Len(Rest(f)) = Len(f) - Cardinality(Old(f)) /\ Cardinality(Old(f)) \in 0..Len(f)
      /\ Len(Rest(g)) = Len(g) - Cardinality(Old(g))
  BY <1>1, <1>3, RestIs
<1>6. Len(Rest(g)) = Len(Rest(f)) + 1
  BY <1>1, <1>4, <1>5
<1> QED
  BY <1>1, <1>3, <1>6 DEF g

\* Handlers that have passed the check of c and may record a failure.
Past(c) == {h \in Handlers : requests[h].phase = "checked" /\ requests[h].client = c}

\* The failures are as TypeOK says, in the order they happened; and those that
\* count, with those that may still be recorded, are bounded.
Throttled ==
    \A c \in Clients :
        /\ failures[c] \in Seq(0..LockWindow) /\ Ordered(failures[c])
        /\ Len(Counting(c)) + Cardinality(Past(c)) < MaxFailures + Cardinality(Handlers)

\* failures has an entry for every client.
FailuresAreMap == failures = [c \in Clients |-> failures[c]]

\* The numbers in it.
LEMMA PastIs ==
    /\ Cardinality(Handlers) \in Nat /\ MaxFailures \in Nat \ {0} /\ LockWindow \in Nat \ {0}
    /\ \A c : IsFiniteSet(Past(c)) /\ Cardinality(Past(c)) \in 0..Cardinality(Handlers)
<1>1. \A c : Past(c) \subseteq Handlers
  BY DEF Past
<1>2. IsFiniteSet(Handlers) /\ Cardinality(Handlers) \in Nat
  BY Finite, ConsoleConfigured DEF ConsoleAssumption
<1>3. \A c : IsFiniteSet(Past(c)) /\ Cardinality(Past(c)) \in Nat
             /\ Cardinality(Past(c)) <= Cardinality(Handlers)
  BY <1>1, <1>2, FS_Subset, Finite
<1> QED
  BY <1>2, <1>3, ConsoleConfigured DEF ConsoleAssumption

\* Steps after which no more failures count and nobody more has passed.
LEMMA FewerCount ==
    ASSUME Throttled,
           \A c \in Clients :
              /\ Past(c)' \subseteq Past(c)
              /\ failures'[c] \in Seq(0..LockWindow) /\ Ordered(failures'[c])
              /\ Len(Counting(c)') \in Nat /\ Len(Counting(c)') <= Len(Counting(c))
    PROVE  Throttled'
<1> SUFFICES ASSUME NEW c \in Clients
             PROVE  Len(Counting(c)') + Cardinality(Past(c)')
                      < MaxFailures + Cardinality(Handlers)
  BY DEF Throttled
<1>1. /\ IsFiniteSet(Past(c)) /\ Cardinality(Past(c)) \in Nat
      /\ Past(c)' \subseteq Past(c)
      /\ Cardinality(Handlers) \in Nat /\ MaxFailures \in Nat
  BY PastIs
<1>2. Cardinality(Past(c)') \in Nat /\ Cardinality(Past(c)') <= Cardinality(Past(c))
  BY <1>1, FS_Subset, FS_CardinalityType
<1>3. /\ Len(Counting(c)') \in Nat /\ Len(Counting(c)') <= Len(Counting(c))
      /\ Len(Counting(c)) \in Nat
  BY RestIs, LenProperties, CountingIsRest DEF Throttled
<1>4. Len(Counting(c)) + Cardinality(Past(c)) < MaxFailures + Cardinality(Handlers)
  BY DEF Throttled
<1> QED
  BY <1>1, <1>2, <1>3, <1>4

\* Steps that record nothing and let nobody pass the check.
LEMMA CalmStep ==
    ASSUME Throttled, UNCHANGED failures, \A c \in Clients : Past(c)' \subseteq Past(c)
    PROVE  Throttled'
<1>1. ASSUME NEW c \in Clients
      PROVE  /\ failures'[c] \in Seq(0..LockWindow) /\ Ordered(failures'[c])
             /\ Len(Counting(c)') \in Nat /\ Len(Counting(c)') <= Len(Counting(c))
  <2>1. failures[c] \in Seq(0..LockWindow) /\ Ordered(failures[c])
    BY DEF Throttled
  <2>2. Len(Rest(failures[c])) \in Nat
    BY <2>1, RestIs, LenProperties
  <2>3. failures' = failures
    OBVIOUS
  <2> QED
    BY <2>1, <2>2, <2>3, CountingIsRest
<1> QED
  BY <1>1, FewerCount

\* Most are such steps.
LEMMA CalmSteps ==
    ASSUME Typed, Throttled,
           \/ Arrive
           \/ \E h \in Handlers : IssueGate(h) \/ OpenSession(h) \/ ConsumeGate(h)
           \/ UNCHANGED vars
    PROVE  Throttled'
<1>1. requests \in [Handlers -> Request]
  BY DEF Typed
<1>2. UNCHANGED failures
  BY DEF Arrive, Visit, Logout, KnockDoor, Login, IssueGate, OpenSession, ConsumeGate, vars
<1>3. \/ requests' = requests
      \/ \E h \in Handlers : \E r :
            /\ requests' = [requests EXCEPT ![h] = r]
            /\ r.phase # "checked"
  <2>1. ASSUME NEW h \in Handlers, NEW k, KnockDoor(h, k)
        PROVE  \/ requests' = requests
               \/ requests' = [requests EXCEPT ![h] = [phase |-> "issuing"]]
    BY <2>1 DEF KnockDoor
  <2>2. ASSUME NEW h \in Handlers, NEW c, NEW s, NEW g, Login(h, c, s, g)
        PROVE  requests' =
                 [requests EXCEPT ![h] = [phase |-> "admitted", client |-> c, gate |-> g]]
    BY <2>2 DEF Login
  <2>3. Arrive => requests' = requests \/ \E h \in Handlers : \E r :
           /\ requests' = [requests EXCEPT ![h] = r] /\ r.phase # "checked"
    <3>1. ASSUME NEW c, NEW g
          PROVE  [phase |-> "admitted", client |-> c, gate |-> g].phase # "checked"
      OBVIOUS
    <3>2. [phase |-> "issuing"].phase # "checked"
      OBVIOUS
    <3> QED
      BY <2>1, <2>2, <3>1, <3>2 DEF Arrive, Visit, Logout
  <2>4. ASSUME NEW h \in Handlers, IssueGate(h) \/ ConsumeGate(h)
        PROVE  requests' = [requests EXCEPT ![h] = Idle] /\ Idle.phase # "checked"
    BY <2>4 DEF IssueGate, ConsumeGate, End, Idle
  <2>5. ASSUME NEW h \in Handlers, OpenSession(h)
        PROVE  \E r : requests' = [requests EXCEPT ![h] = r] /\ r.phase # "checked"
    <3>1. /\ requests[h].phase = "cleared"
          /\ requests' = [requests EXCEPT ![h] = [requests[h] EXCEPT !.phase = "opened"]]
      BY <2>5 DEF OpenSession, Go
    <3>2. requests[h] \in Request
      BY <1>1
    <3>3. [requests[h] EXCEPT !.phase = "opened"].phase = "opened"
      BY <3>1, <3>2 DEF Request, Idle
    <3> QED
      BY <3>1, <3>3
  <2>6. UNCHANGED vars => requests' = requests
    BY DEF vars
  <2> QED
    BY <2>3, <2>4, <2>5, <2>6
<1>4. \A c \in Clients : Past(c)' \subseteq Past(c)
  <2> SUFFICES ASSUME NEW c \in Clients, NEW h \in Handlers, requests'[h].phase = "checked",
                      requests'[h].client = c
               PROVE  requests[h].phase = "checked" /\ requests[h].client = c
    BY DEF Past
  <2>1. requests'[h] = requests[h]
    BY <1>1, <1>3
  <2> QED
    BY <2>1
<1> QED
  BY <1>2, <1>4, CalmStep

\* The check lets a request pass while there is room for one failure more.
LEMMA CheckLockThrottled ==
    ASSUME Typed, FailuresAreMap, Throttled, NEW h \in Handlers, CheckLock(h)
    PROVE  FailuresAreMap' /\ Throttled'
<1> DEFINE c0 == requests[h].client
<1>1. /\ requests[h].phase = "admitted" /\ requests[h] \in Request
      /\ requests \in [Handlers -> Request]
  BY DEF Typed, CheckLock
<1>2. c0 \in Clients
  BY <1>1 DEF Request, Idle
<1>3. failures' = [failures EXCEPT ![c0] = Counting(c0)]
  BY DEF CheckLock
<1>4. FailuresAreMap'
  BY <1>3 DEF FailuresAreMap
<1>5. \/ /\ Len(Counting(c0)) < MaxFailures
         /\ requests' = [requests EXCEPT ![h] = [requests[h] EXCEPT !.phase = "checked"]]
      \/ requests' = [requests EXCEPT ![h] = Idle]
  BY DEF CheckLock, Go, End
<1>6. ASSUME NEW c \in Clients
      PROVE  /\ failures'[c] \in Seq(0..LockWindow) /\ Ordered(failures'[c])
             /\ Len(Counting(c)') = Len(Counting(c))
  <2>1. failures[c] \in Seq(0..LockWindow) /\ Ordered(failures[c])
    BY DEF Throttled
  <2>2. CASE c = c0
    <3>1. failures'[c] = Counting(c)
      BY <1>3, <2>2 DEF FailuresAreMap
    <3>2. Counting(c) \in Seq(0..LockWindow) /\ Ordered(Counting(c)) /\ Old(Counting(c)) = {}
      BY <2>1, RestIs, CountingIsRest
    <3>3. Counting(c)' = SubSeq(Counting(c), Cardinality({}) + 1, Len(Counting(c)))
      BY <3>1, <3>2 DEF Counting, Lapsed, Old
    <3>4. Len(Counting(c)) \in Nat /\ Cardinality({}) = 0
      BY <3>2, LenProperties, FS_EmptySet
    <3> DEFINE s == Counting(c)
    <3>5. s \in Seq(0..LockWindow) /\ Len(s) \in Nat /\ Counting(c)' = SubSeq(s, 1, Len(s))
      BY <3>2, <3>3, <3>4
    <3> HIDE DEF s
    <3>6. Len(SubSeq(s, 1, Len(s))) = Len(s)
      BY <3>5, SubSeqProperties
    <3> QED
      BY <3>1, <3>2, <3>5, <3>6 DEF s
  <2>3. CASE c # c0
    <3>1. failures'[c] = failures[c]
      BY <1>3, <2>3 DEF FailuresAreMap
    <3> QED
      BY <2>1, <3>1 DEF Counting, Lapsed
  <2> QED
    BY <2>2, <2>3
<1>7. ASSUME NEW c \in Clients
      PROVE  Len(Counting(c)) + Cardinality(Past(c)') < MaxFailures + Cardinality(Handlers)
  <2>1. /\ IsFiniteSet(Past(c)) /\ Cardinality(Past(c)) \in Nat
        /\ Cardinality(Handlers) \in Nat /\ MaxFailures \in Nat
    BY PastIs
  <2>2. Len(Counting(c)) \in Nat
    BY RestIs, LenProperties, CountingIsRest DEF Throttled
  <2>3. Len(Counting(c)) + Cardinality(Past(c)) < MaxFailures + Cardinality(Handlers)
    BY DEF Throttled
  <2>4. CASE Past(c)' \subseteq Past(c)
    <3>1. Cardinality(Past(c)') \in Nat /\ Cardinality(Past(c)') <= Cardinality(Past(c))
      BY <2>1, <2>4, FS_Subset, FS_CardinalityType
    <3> QED
      BY <2>1, <2>2, <2>3, <3>1
  <2>5. CASE ~(Past(c)' \subseteq Past(c))
    <3>1. PICK k \in Handlers : /\ requests'[k].phase = "checked" /\ requests'[k].client = c
                                /\ k \notin Past(c)
      BY <2>5 DEF Past
    <3>2. k = h /\ requests'[h] # Idle
      <4>1. requests'[k] # requests[k]
        BY <3>1 DEF Past
      <4>2. k = h
        BY <1>1, <1>5, <4>1
      <4> QED
        BY <3>1, <4>2 DEF Idle
    <3>3. /\ Len(Counting(c0)) < MaxFailures
          /\ requests'[h] = [requests[h] EXCEPT !.phase = "checked"]
      BY <1>1, <1>5, <3>2
    <3>4. requests'[h].client = c0
      BY <1>1, <3>3 DEF Request, Idle
    <3>5. c = c0
      BY <3>1, <3>2, <3>4
    <3>6. Past(c)' \subseteq Handlers
      BY DEF Past
    <3>7. Cardinality(Past(c)') \in Nat /\ Cardinality(Past(c)') <= Cardinality(Handlers)
      BY <3>6, FS_Subset, FS_CardinalityType, ConsoleConfigured DEF ConsoleAssumption
    <3> QED
      BY <2>1, <2>2, <3>3, <3>5, <3>7
  <2> QED
    BY <2>4, <2>5
<1> QED
  BY <1>4, <1>6, <1>7 DEF Throttled

\* Whose password is wrong has passed the check before, and is done.
LEMMA RecordFailureThrottled ==
    ASSUME Typed, FailuresAreMap, Throttled, NEW h \in Handlers, RecordFailure(h)
    PROVE  FailuresAreMap' /\ Throttled'
<1> DEFINE c0 == requests[h].client
<1>1. /\ requests[h].phase = "checked" /\ requests[h] \in Request
      /\ requests \in [Handlers -> Request] /\ requests' = [requests EXCEPT ![h] = Idle]
  BY DEF Typed, RecordFailure, End
<1>2. c0 \in Clients
  BY <1>1 DEF Request, Idle
<1>3. failures' = [failures EXCEPT ![c0] = Append(failures[c0], LockWindow)]
  BY DEF RecordFailure
<1>4. FailuresAreMap'
  BY <1>3 DEF FailuresAreMap
<1>5. ASSUME NEW c \in Clients
      PROVE  Past(c)' = Past(c) \ {h}
  BY <1>1 DEF Past, Idle
<1>6. ASSUME NEW c \in Clients, c # c0
      PROVE  /\ failures'[c] = failures[c] /\ Counting(c)' = Counting(c)
             /\ Past(c)' \subseteq Past(c)
  <2>1. failures'[c] = failures[c]
    BY <1>3, <1>6 DEF FailuresAreMap
  <2> QED
    BY <1>5, <2>1 DEF Counting, Lapsed
<1>7. /\ failures'[c0] \in Seq(0..LockWindow) /\ Ordered(failures'[c0])
      /\ Len(Rest(failures'[c0])) = Len(Rest(failures[c0])) + 1
  <2>1. failures[c0] \in Seq(0..LockWindow) /\ Ordered(failures[c0])
    BY <1>2 DEF Throttled
  <2>2. failures'[c0] = Append(failures[c0], LockWindow)
    BY <1>2, <1>3 DEF FailuresAreMap
  <2> QED
    BY <2>1, <2>2, PastIs, AppendedCounts
<1>8. ASSUME NEW c \in Clients
      PROVE  /\ failures'[c] \in Seq(0..LockWindow) /\ Ordered(failures'[c])
             /\ Len(Counting(c)') + Cardinality(Past(c)') < MaxFailures + Cardinality(Handlers)
  <2>1. /\ failures[c] \in Seq(0..LockWindow) /\ Ordered(failures[c])
        /\ Len(Counting(c)) + Cardinality(Past(c)) < MaxFailures + Cardinality(Handlers)
        /\ Len(Counting(c)) \in Nat
    BY RestIs, LenProperties, CountingIsRest DEF Throttled
  <2>2. /\ IsFiniteSet(Past(c)) /\ Cardinality(Past(c)) \in Nat
        /\ Cardinality(Handlers) \in Nat /\ MaxFailures \in Nat
    BY PastIs
  <2>3. CASE c = c0
    <3>1. h \in Past(c)
      BY <1>1, <2>3 DEF Past
    <3>2. Cardinality(Past(c)') = Cardinality(Past(c)) - 1
      BY <1>5, <2>2, <3>1, FS_RemoveElement
    <3>3. Len(Counting(c)') = Len(Counting(c)) + 1
      BY <1>7, <2>3, CountingIsRest
    <3> QED
      BY <1>7, <2>1, <2>2, <2>3, <3>2, <3>3
  <2>4. CASE c # c0
    <3>1. Cardinality(Past(c)') \in Nat /\ Cardinality(Past(c)') <= Cardinality(Past(c))
      BY <1>6, <2>2, <2>4, FS_Subset, FS_CardinalityType
    <3> QED
      BY <1>6, <2>1, <2>2, <2>4, <3>1
  <2> QED
    BY <2>3, <2>4
<1> QED
  BY <1>4, <1>8 DEF Throttled

\* Whose password is right starts anew.
LEMMA ClearFailuresThrottled ==
    ASSUME Typed, FailuresAreMap, Throttled, NEW h \in Handlers, ClearFailures(h)
    PROVE  FailuresAreMap' /\ Throttled'
<1> DEFINE c0 == requests[h].client
<1>1. /\ requests[h].phase = "checked" /\ requests[h] \in Request
      /\ requests \in [Handlers -> Request]
      /\ requests' = [requests EXCEPT ![h] = [requests[h] EXCEPT !.phase = "cleared"]]
      /\ failures' = [failures EXCEPT ![c0] = <<>>]
  BY DEF Typed, ClearFailures, Go
<1>2. [requests[h] EXCEPT !.phase = "cleared"].phase = "cleared"
  BY <1>1 DEF Request, Idle
<1>3. \A c \in Clients : Past(c)' \subseteq Past(c)
  BY <1>1, <1>2 DEF Past
<1>4. FailuresAreMap'
  BY <1>1 DEF FailuresAreMap
<1>5. ASSUME NEW c \in Clients
      PROVE  /\ failures'[c] \in Seq(0..LockWindow) /\ Ordered(failures'[c])
             /\ Len(Counting(c)') \in Nat /\ Len(Counting(c)') <= Len(Counting(c))
  <2>1. failures[c] \in Seq(0..LockWindow) /\ Ordered(failures[c])
    BY DEF Throttled
  <2>2. failures'[c] \in {failures[c], <<>>}
    BY <1>1 DEF FailuresAreMap
  <2>3. <<>> \in Seq(0..LockWindow) /\ Ordered(<<>>) /\ Len(<<>>) = 0
    BY EmptySeq DEF Ordered
  <2>4. /\ Len(Rest(<<>>)) = Len(<<>>) - Cardinality(Old(<<>>))
        /\ Cardinality(Old(<<>>)) \in 0..Len(<<>>)
        /\ Len(Rest(failures[c])) \in Nat
    BY <2>1, <2>3, RestIs, LenProperties
  <2>5. Len(Rest(<<>>)) = 0
    BY <2>3, <2>4
  <2>6. CASE failures'[c] = failures[c]
    BY <2>1, <2>4, <2>6, CountingIsRest
  <2>7. CASE failures'[c] = <<>>
    BY <2>3, <2>4, <2>5, <2>7, CountingIsRest
  <2> QED
    BY <2>2, <2>6, <2>7
<1> QED
  BY <1>3, <1>4, <1>5, FewerCount

\* As time passes, fewer failures count.
LEMMA TickThrottled ==
    ASSUME FailuresAreMap, Throttled, Tick
    PROVE  FailuresAreMap' /\ Throttled'
<1>1. failures' = [c \in Clients |-> [i \in DOMAIN failures[c] |-> Less(failures[c][i])]]
  BY DEF Tick
<1>2. FailuresAreMap'
  BY <1>1 DEF FailuresAreMap
<1>3. \A c \in Clients : Past(c)' \subseteq Past(c)
  BY DEF Tick, Past
<1>4. ASSUME NEW c \in Clients
      PROVE  /\ failures'[c] \in Seq(0..LockWindow) /\ Ordered(failures'[c])
             /\ Len(Counting(c)') \in Nat /\ Len(Counting(c)') <= Len(Counting(c))
  <2> DEFINE f == failures[c]
             g == [i \in DOMAIN f |-> Less(f[i])]
  <2>1. f \in Seq(0..LockWindow) /\ Ordered(f) /\ LockWindow \in Nat \ {0}
    BY PastIs DEF Throttled
  <2>2. failures'[c] = g
    BY <1>1
  <2> HIDE DEF f
  <2>3. /\ Len(f) \in Nat /\ DOMAIN f = 1..Len(f)
        /\ \A i \in 1..Len(f) : f[i] \in 0..LockWindow
    BY <2>1, LenProperties, ElementOfSeq
  <2>4. g \in [1..Len(f) -> 0..LockWindow]
    BY <2>1, <2>3 DEF Less
  <2>5. g \in Seq(0..LockWindow) /\ Len(g) = Len(f)
    BY <2>3, <2>4, SeqDef, LenProperties
  <2>6. Ordered(g)
    BY <2>1, <2>3 DEF Ordered, Less
  <2>7. Old(f) \subseteq Old(g)
    BY <2>3 DEF Old, Less
  <2> HIDE DEF g
  <2>8. /\ Len(Rest(f)) = Len(f) - Cardinality(Old(f)) /\ Cardinality(Old(f)) \in 0..Len(f)
        /\ Len(Rest(g)) = Len(g) - Cardinality(Old(g)) /\ Cardinality(Old(g)) \in 0..Len(g)
    BY <2>1, <2>5, <2>6, RestIs
  <2>9. Cardinality(Old(f)) <= Cardinality(Old(g))
    <3>1. PICK n \in 0..Len(g) : Old(g) = 1..n
      BY <2>5, <2>6, OldIsPrefix
    <3>2. IsFiniteSet(Old(g))
      BY <3>1, FS_Interval
    <3> QED
      BY <2>7, <3>2, FS_Subset
  <2> QED
    BY <2>2, <2>3, <2>5, <2>6, <2>8, <2>9, CountingIsRest DEF f
<1> QED
  BY <1>2, <1>3, <1>4, FewerCount

\* A restart forgets all failures and requests.
LEMMA NoFailures ==
    ASSUME failures = [c \in Clients |-> <<>>], requests = [h \in Handlers |-> Idle]
    PROVE  FailuresAreMap /\ Throttled
<1>1. FailuresAreMap
  BY DEF FailuresAreMap
<1>2. ASSUME NEW c \in Clients
      PROVE  /\ failures[c] \in Seq(0..LockWindow) /\ Ordered(failures[c])
             /\ Len(Counting(c)) + Cardinality(Past(c)) < MaxFailures + Cardinality(Handlers)
  <2>1. failures[c] = <<>> /\ <<>> \in Seq(0..LockWindow) /\ Ordered(<<>>) /\ Len(<<>>) = 0
    BY EmptySeq DEF Ordered
  <2>2. /\ Len(Rest(<<>>)) = Len(<<>>) - Cardinality(Old(<<>>))
        /\ Cardinality(Old(<<>>)) \in 0..Len(<<>>)
    BY <2>1, RestIs
  <2>3. Len(Counting(c)) = 0
    BY <2>1, <2>2, CountingIsRest
  <2>4. Past(c) = {}
    BY DEF Past, Idle
  <2>5. Cardinality(Past(c)) = 0
    BY <2>4, FS_EmptySet
  <2> QED
    BY <2>1, <2>3, <2>5, PastIs
<1> QED
  BY <1>1, <1>2 DEF Throttled

\* Every step keeps the failures within their bound.
LEMMA ThrottledStep ==
    Typed /\ FailuresAreMap /\ Throttled /\ [Next]_vars => (FailuresAreMap /\ Throttled)'
<1> SUFFICES ASSUME Typed, FailuresAreMap, Throttled, [Next]_vars
             PROVE  FailuresAreMap' /\ Throttled'
  OBVIOUS
<1>1. UNCHANGED failures => FailuresAreMap'
  BY DEF FailuresAreMap
<1>2. ASSUME \/ Arrive
             \/ \E h \in Handlers : IssueGate(h) \/ OpenSession(h) \/ ConsumeGate(h)
             \/ UNCHANGED vars
      PROVE  FailuresAreMap' /\ Throttled'
  <2>1. UNCHANGED failures
    BY <1>2 DEF Arrive, Visit, Logout, KnockDoor, Login, IssueGate, OpenSession, ConsumeGate,
       vars
  <2> QED
    BY <1>1, <1>2, <2>1, CalmSteps
<1>3. ASSUME NEW h \in Handlers, Serve(h) PROVE FailuresAreMap' /\ Throttled'
  BY <1>2, <1>3, CheckLockThrottled, RecordFailureThrottled, ClearFailuresThrottled DEF Serve
<1>4. CASE Restart
  <2>1. (failures = [c \in Clients |-> <<>>] /\ requests = [h \in Handlers |-> Idle])'
           => (FailuresAreMap /\ Throttled)'
    BY NoFailures, PTL
  <2>2. failures' = [c \in Clients |-> <<>>] /\ requests' = [h \in Handlers |-> Idle]
    BY <1>4 DEF Restart
  <2> QED
    BY <2>1, <2>2 DEF Idle
<1> QED
  BY <1>2, <1>3, <1>4, TickThrottled DEF Next

-----------------------------------------------------------------------------
(* The theorems.                                                           *)

\* Types and the count hold of every reachable state.
LEMMA Reachable == Spec => [](Typed /\ Counted)
<1>1. Init => Typed /\ Counted
  BY LeasesInit, NothingCounted DEF Init, Empty
<1>2. Typed /\ Counted /\ [Next]_vars => (Typed /\ Counted)'
  BY EveryStep, CountedStep
<1> QED
  BY <1>1, <1>2, PTL DEF Spec

\* So do the kinds of entries and the bound on failures.
LEMMA AlwaysThrottled == Spec => [](Tables /\ FailuresAreMap /\ Throttled)
<1>1. Init => Tables /\ FailuresAreMap /\ Throttled
  BY EmptyTables, NoFailures DEF Init
<1>2. Typed /\ Tables /\ FailuresAreMap /\ Throttled /\ [Next]_vars =>
          (Tables /\ FailuresAreMap /\ Throttled)'
  BY TablesStep, ThrottledStep
<1> QED
  BY <1>1, <1>2, Reachable, PTL DEF Spec

\* Type correctness of the console's maps and requests.
THEOREM TypeCorrect == Spec => []TypeOK
<1>1. Typed /\ Tables /\ FailuresAreMap /\ Throttled => TypeOK
  <2> SUFFICES ASSUME Typed, Tables, FailuresAreMap, Throttled PROVE TypeOK
    OBVIOUS
  <2>1. failures \in [Clients -> Seq(0..LockWindow)]
    BY DEF FailuresAreMap, Throttled
  <2> QED
    BY <2>1 DEF Typed, Tables, TypeOK, Knock, Gate, Session
<1> QED
  BY <1>1, Reachable, AlwaysThrottled, PTL

\* FailuresBounded: the check and the record of a failure are two sections,
\* and still no client has more failures counted against it than the limit
\* and the requests that can be between the two (loginBlocked, recordFailure).
THEOREM BoundCorrect == Spec => []FailuresBounded
<1>1. Throttled => FailuresBounded
  <2> SUFFICES ASSUME Throttled, NEW c \in Clients
               PROVE  Len(Counting(c)) < MaxFailures + Cardinality(Handlers)
    BY DEF FailuresBounded
  <2>1. /\ Len(Counting(c)) \in Nat
        /\ Len(Counting(c)) + Cardinality(Past(c)) < MaxFailures + Cardinality(Handlers)
    BY RestIs, LenProperties, CountingIsRest DEF Throttled
  <2>2. /\ Cardinality(Past(c)) \in Nat /\ Cardinality(Handlers) \in Nat
        /\ MaxFailures \in Nat
    BY PastIs
  <2> QED
    BY <2>1, <2>2
<1> QED
  BY <1>1, AlwaysThrottled, PTL

\* LoginsPerGate: a gate serves no more logins than requests can be in the
\* middle of one at the same time, although it is closed only after the
\* session was opened (login, consumeGate).
THEOREM GateServesFew == Spec => []LoginsPerGate
<1>1. Typed /\ Counted => LoginsPerGate
  <2> SUFFICES ASSUME Typed, Counted, NEW g \in Tokens
               PROVE  logins[g] <= Cardinality(Handlers)
    BY DEF LoginsPerGate
  <2>1. /\ Cardinality(Using(g)) \in Nat /\ Cardinality(Handlers) \in Nat
        /\ logins[g] \in Nat
    BY Finite DEF Using, Typed
  <2> QED
    BY <2>1 DEF Counted
<1> QED
  BY <1>1, Reachable, PTL

\* KnocksAreLeases: the lazily pruned map of knocks is a table of leases with
\* its limit (knockDoor).
THEOREM KnocksImplemented == Spec => KnocksAreLeases
<1>1. Init => Knocks!Init
  BY LeasesInit
<1>2. Typed /\ [Next]_vars => [Knocks!Next]_(Leases(progress))
  BY EveryStep DEF LeaseStep
<1> QED
  BY <1>1, <1>2, Reachable, PTL DEF Spec, KnocksAreLeases, Knocks!Spec

\* GatesAreLeases: so is the map of gates, filled by a section that comes
\* after the knock was counted (issueGate, hasGate, consumeGate).
THEOREM GatesImplemented == Spec => GatesAreLeases
<1>1. Init => Gates!Init
  BY LeasesInit
<1>2. Typed /\ [Next]_vars => [Gates!Next]_(Leases(gates))
  BY EveryStep DEF LeaseStep
<1> QED
  BY <1>1, <1>2, Reachable, PTL DEF Spec, GatesAreLeases, Gates!Spec

\* SessionsAreLeases: a session ends when its time is up or at its logout,
\* and nothing but a login begins one (currentSession, logout).
THEOREM SessionsImplemented == Spec => SessionsAreLeases
<1>1. Init => Sessions!Init
  BY LeasesInit
<1>2. Typed /\ [Next]_vars => [Sessions!Next]_(Leases(sessions))
  BY EveryStep DEF LeaseStep
<1> QED
  BY <1>1, <1>2, Reachable, PTL DEF Spec, SessionsAreLeases, Sessions!Spec

=============================================================================
