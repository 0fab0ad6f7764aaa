----------------------------- MODULE AdminConsole -----------------------------
(***************************************************************************)
(* Access to the administration console (admin/admin.go) with the knock    *)
(* configured: some hits on a secret address within a window yield a gate, *)
(* a gate or a session lets a request through to the login page, and a     *)
(* login opens a session and closes the gate. Too many failed logins of a  *)
(* client lock that client out for a while.                                *)
(*                                                                         *)
(* Everything is kept in maps in memory, from which what has expired is    *)
(* removed only when a handler comes by. A handler holds the mutex for one *)
(* lookup or change at a time; each such section is one step here, and all *)
(* other requests move between them. Times are counted down to zero.       *)
(*                                                                         *)
(* A request presents any cookies that some browser was given and that a   *)
(* map still knows, or none: a token no map knows gets the treatment of no *)
(* token. A request that fails on its form, its nonce or its CSRF token    *)
(* changes nothing after ServeHTTP, and is a Visit.                        *)
(***************************************************************************)
EXTENDS Integers, Sequences, FiniteSets

CONSTANTS
    Clients,         \* remote host and user name of a login: key of failures
    Administrators,  \* the clients that give the configured user name
    Handlers,        \* requests that knock or log in, served concurrently
    Tokens,          \* random tokens, drawn when they are not in use
    KnockHits,       \* admin.knockHits
    KnockWindow,     \* admin.knockWindow
    GateTTL,         \* admin.knockTTL
    SessionTTL,      \* admin.sessionTTL
    MaxKnockState,   \* entries in each of progress and gates (1024)
    MaxFailures,     \* failed logins that lock a client out (5)
    LockWindow,      \* how long a failure counts (10 minutes)
    MaxSessions      \* bound: sessions open at once

\* What the configuration is checked for; the limits are constants of the
\* code. The tokens are enough to draw from.
ConsoleAssumption ==
    /\ Administrators \subseteq Clients
    /\ IsFiniteSet(Handlers) /\ IsFiniteSet(Tokens)
    /\ Tokens \subseteq Nat \ {0}
    /\ KnockHits \in Nat /\ KnockHits >= 2
    /\ {KnockWindow, GateTTL, SessionTTL, LockWindow} \subseteq Nat \ {0}
    /\ {MaxKnockState, MaxFailures, MaxSessions} \subseteq Nat \ {0}
    /\ Cardinality(Tokens) >= MaxKnockState + Cardinality(Handlers)
    /\ Cardinality(Tokens) >= MaxSessions
ASSUME ConsoleConfigured == ConsoleAssumption

VARIABLES
    progress,  \* knocks in progress, by token
    gates,     \* open gates, by token
    sessions,  \* open sessions, by token
    failures,  \* failures[c]: time for which each failure of c still counts
    requests,  \* what each handler is in the middle of
    logins     \* history: sessions opened by requests that presented the gate

vars == <<progress, gates, sessions, failures, requests, logins>>

NoToken == 0

Table(Entry) == UNION {[S -> Entry] : S \in SUBSET Tokens}

Idle == [phase |-> "idle"]

Request ==
    {Idle} \cup [phase : {"issuing"}] \cup
    [phase : {"admitted", "checked", "cleared", "opened"},
     client : Clients, gate : Tokens \cup {NoToken}]

TypeOK ==
    /\ progress \in Table([hits : 1..(KnockHits - 1), left : 0..KnockWindow])
    /\ gates \in Table([left : 0..GateTTL])
    /\ sessions \in Table([left : 0..SessionTTL])
    /\ failures \in [Clients -> Seq(0..LockWindow)]
    /\ requests \in [Handlers -> Request]
    /\ logins \in [Tokens -> Nat]

-----------------------------------------------------------------------------
(* The maps.                                                               *)

Live(table) == {k \in DOMAIN table : table[k].left > 0}

\* Mutant of Prune: nothing is ever removed.
PruneNothing(table) == table

\* pruneKnockLocked and pruneSessionsLocked, for one map.
Prune(table) == [k \in Live(table) |-> table[k]]

Put(table, k, entry) ==
    [j \in DOMAIN table \cup {k} |-> IF j = k THEN entry ELSE table[j]]

Drop(table, k) == [j \in DOMAIN table \ {k} |-> table[j]]

\* Mutant of Full: one entry too many.
FullLate(table) == Cardinality(DOMAIN table) > MaxKnockState

Full(table) == Cardinality(DOMAIN table) >= MaxKnockState

\* randomToken: never one that is in use.
Fresh(used) == CHOOSE k \in Tokens \ used : TRUE

Cookies(table) == DOMAIN table \cup {NoToken}

Presented == {requests[h].gate : h \in
    {i \in Handlers : requests[i].phase \notin {"idle", "issuing"}}}

PruneKnock == progress' = Prune(progress) /\ gates' = Prune(gates)

-----------------------------------------------------------------------------
(* The knock.                                                              *)

\* Mutants of KnockDoor: one hit too many is asked for; a hit on a known
\* token prolongs it without being counted.
KnockDoorLate(h, k) ==
    LET open  == Prune(progress)
        known == k \in DOMAIN open
        token == IF known THEN k ELSE Fresh(DOMAIN open)
        hits  == IF known THEN open[k].hits + 1 ELSE 1
    IN  /\ requests[h] = Idle
        /\ gates' = Prune(gates)
        /\ IF ~known /\ Full(open)
           THEN progress' = open /\ UNCHANGED requests
           ELSE IF hits <= KnockHits
           THEN /\ progress' = Put(open, token, [hits |-> hits, left |-> KnockWindow])
                /\ UNCHANGED requests
           ELSE /\ progress' = Drop(open, token)
                /\ requests' = [requests EXCEPT ![h] = [phase |-> "issuing"]]
        /\ UNCHANGED <<sessions, failures, logins>>

KnockDoorUncounted(h, k) ==
    LET open  == Prune(progress)
        known == k \in DOMAIN open
        token == IF known THEN k ELSE Fresh(DOMAIN open)
    IN  /\ requests[h] = Idle
        /\ gates' = Prune(gates)
        /\ progress' = IF ~known /\ Full(open) THEN open
                       ELSE Put(open, token, [hits |-> 1, left |-> KnockWindow])
        /\ UNCHANGED <<requests, sessions, failures, logins>>

\* knockDoor up to its unlock, for a request with the secret: an unknown or
\* expired token is replaced if there is room; every hit starts the window
\* anew; the last one removes the progress and goes on to issue a gate.
KnockDoor(h, k) ==
    LET open  == Prune(progress)
        known == k \in DOMAIN open
        token == IF known THEN k ELSE Fresh(DOMAIN open)
        hits  == IF known THEN open[k].hits + 1 ELSE 1
    IN  /\ requests[h] = Idle
        /\ gates' = Prune(gates)
        /\ IF ~known /\ Full(open)
           THEN progress' = open /\ UNCHANGED requests
           ELSE IF hits < KnockHits
           THEN /\ progress' = Put(open, token, [hits |-> hits, left |-> KnockWindow])
                /\ UNCHANGED requests
           ELSE /\ progress' = Drop(open, token)
                /\ requests' = [requests EXCEPT ![h] = [phase |-> "issuing"]]
        /\ UNCHANGED <<sessions, failures, logins>>

\* Mutant of IssueGate: room was seen to when the knock was counted.
IssueGateAnyway(h) ==
    LET g == Fresh(Live(gates) \cup Presented)
    IN  /\ requests[h].phase = "issuing"
        /\ progress' = Prune(progress)
        /\ gates' = Put(Prune(gates), g, [left |-> GateTTL])
        /\ logins' = [logins EXCEPT ![g] = 0]
        /\ requests' = [requests EXCEPT ![h] = Idle]
        /\ UNCHANGED <<sessions, failures>>

\* issueGate: when there is no room the request fails and the knock is lost.
IssueGate(h) ==
    LET open == Prune(gates)
        g    == Fresh(DOMAIN open \cup Presented)
    IN  /\ requests[h].phase = "issuing"
        /\ progress' = Prune(progress)
        /\ IF Full(open)
           THEN gates' = open /\ UNCHANGED logins
           ELSE /\ gates' = Put(open, g, [left |-> GateTTL])
                /\ logins' = [logins EXCEPT ![g] = 0]
        /\ requests' = [requests EXCEPT ![h] = Idle]
        /\ UNCHANGED <<sessions, failures>>

-----------------------------------------------------------------------------
(* Being let through.                                                      *)

\* ServeHTTP: currentSession, then hasGate. The two lookups are one step:
\* a request let through by either could have come just before it.
Admitted(s, g) == s \in Live(sessions) \/ g \in Live(gates)

\* Mutant of Looked: looking at a session prolongs it.
LookedSliding(s, g) ==
    /\ sessions' = IF s \in Live(sessions)
                   THEN Put(Prune(sessions), s, [left |-> SessionTTL])
                   ELSE Prune(sessions)
    /\ IF s \notin Live(sessions) /\ g # NoToken
       THEN PruneKnock ELSE UNCHANGED <<progress, gates>>

\* What these lookups remove: each prunes if its cookie is there, and there
\* is no look for a gate when a session was found.
Looked(s, g) ==
    /\ sessions' = IF s = NoToken THEN sessions ELSE Prune(sessions)
    /\ IF s \notin Live(sessions) /\ g # NoToken
       THEN PruneKnock ELSE UNCHANGED <<progress, gates>>

\* Any page, and any request that is turned away.
Visit(s, g) == Looked(s, g) /\ UNCHANGED <<failures, requests, logins>>

\* POST /admin/login with the nonce of the login page.
Login(h, c, s, g) ==
    /\ requests[h] = Idle /\ Admitted(s, g)
    /\ Looked(s, g)
    /\ requests' = [requests EXCEPT ![h] =
          [phase |-> "admitted", client |-> c, gate |-> g]]
    /\ UNCHANGED <<failures, logins>>

\* logout: the session was looked up before and is removed now.
Logout(s) ==
    /\ s \in Live(sessions)
    /\ sessions' = Drop(Prune(sessions), s)
    /\ UNCHANGED <<progress, gates, failures, requests, logins>>

-----------------------------------------------------------------------------
(* Logging in.                                                             *)

\* What loginBlocked leaves out, and what it keeps. A failure is appended when
\* it happens, so the failures before the cutoff are the first ones.
Lapsed(c) == {i \in DOMAIN failures[c] : failures[c][i] = 0}
Counting(c) == SubSeq(failures[c], Cardinality(Lapsed(c)) + 1, Len(failures[c]))

Go(h, phase) == requests' = [requests EXCEPT ![h].phase = phase]
End(h) == requests' = [requests EXCEPT ![h] = Idle]

\* Mutants of CheckLock: one more attempt is let through; an attempt of a
\* client that is locked out starts its lockout anew.
CheckLockLate(h) ==
    LET c == requests[h].client
    IN  /\ requests[h].phase = "admitted"
        /\ failures' = [failures EXCEPT ![c] = Counting(c)]
        /\ IF Len(Counting(c)) <= MaxFailures THEN Go(h, "checked") ELSE End(h)
        /\ UNCHANGED <<progress, gates, sessions, logins>>

CheckLockRecording(h) ==
    LET c == requests[h].client
    IN  /\ requests[h].phase = "admitted"
        /\ IF Len(Counting(c)) < MaxFailures
           THEN /\ failures' = [failures EXCEPT ![c] = Counting(c)]
                /\ Go(h, "checked")
           ELSE /\ failures' = [failures EXCEPT ![c] =
                      [i \in DOMAIN Counting(c) |-> LockWindow]]
                /\ End(h)
        /\ UNCHANGED <<progress, gates, sessions, logins>>

\* loginBlocked: forgets the failures of this client that no longer count,
\* and ends the request if too many do.
CheckLock(h) ==
    LET c == requests[h].client
    IN  /\ requests[h].phase = "admitted"
        /\ failures' = [failures EXCEPT ![c] = Counting(c)]
        /\ IF Len(Counting(c)) < MaxFailures THEN Go(h, "checked") ELSE End(h)
        /\ UNCHANGED <<progress, gates, sessions, logins>>

\* recordFailure, for a wrong user name or password.
RecordFailure(h) ==
    LET c == requests[h].client
    IN  /\ requests[h].phase = "checked"
        /\ failures' = [failures EXCEPT ![c] = Append(@, LockWindow)]
        /\ End(h)
        /\ UNCHANGED <<progress, gates, sessions, logins>>

\* clearFailures, for the right ones.
ClearFailures(h) ==
    LET c == requests[h].client
    IN  /\ requests[h].phase = "checked" /\ c \in Administrators
        /\ failures' = [failures EXCEPT ![c] = <<>>]
        /\ Go(h, "cleared")
        /\ UNCHANGED <<progress, gates, sessions, logins>>

OpenSession(h) ==
    LET open == Prune(sessions)
    IN  /\ requests[h].phase = "cleared"
        /\ Cardinality(DOMAIN open) < MaxSessions
        /\ sessions' = Put(open, Fresh(DOMAIN open), [left |-> SessionTTL])
        /\ logins' = [g \in Tokens |->
              IF g = requests[h].gate THEN logins[g] + 1 ELSE logins[g]]
        /\ Go(h, "opened")
        /\ UNCHANGED <<progress, gates, failures>>

\* Mutant of ConsumeGate: only the cookie is cleared.
ConsumeCookie(h) ==
    /\ requests[h].phase = "opened"
    /\ End(h)
    /\ UNCHANGED <<progress, gates, sessions, failures, logins>>

\* consumeGate: closes the gate the request presented, if it is still there.
ConsumeGate(h) ==
    /\ requests[h].phase = "opened"
    /\ gates' = Drop(gates, requests[h].gate)
    /\ End(h)
    /\ UNCHANGED <<progress, sessions, failures, logins>>

-----------------------------------------------------------------------------
(* The environment.                                                        *)

Less(left) == IF left > 0 THEN left - 1 ELSE 0

Aged(table) == [k \in DOMAIN table |-> [table[k] EXCEPT !.left = Less(@)]]

Tick ==
    /\ progress' = Aged(progress)
    /\ gates' = Aged(gates)
    /\ sessions' = Aged(sessions)
    /\ failures' = [c \in Clients |->
          [i \in DOMAIN failures[c] |-> Less(failures[c][i])]]
    /\ UNCHANGED <<requests, logins>>

Empty == [k \in {} |-> [left |-> 0]]

\* Nothing here survives the process.
Restart ==
    /\ progress' = Empty /\ gates' = Empty /\ sessions' = Empty
    /\ failures' = [c \in Clients |-> <<>>]
    /\ requests' = [h \in Handlers |-> Idle]
    /\ logins' = [g \in Tokens |-> 0]

-----------------------------------------------------------------------------
Init ==
    /\ progress = Empty /\ gates = Empty /\ sessions = Empty
    /\ failures = [c \in Clients |-> <<>>]
    /\ requests = [h \in Handlers |-> Idle]
    /\ logins = [g \in Tokens |-> 0]

Serve(h) ==
    \/ IssueGate(h)
    \/ CheckLock(h) \/ RecordFailure(h) \/ ClearFailures(h)
    \/ OpenSession(h) \/ ConsumeGate(h)

Arrive ==
    \/ \E s \in Cookies(sessions), g \in Cookies(gates) : Visit(s, g)
    \/ \E s \in Live(sessions) : Logout(s)
    \/ \E h \in Handlers :
          \/ \E k \in Cookies(progress) : KnockDoor(h, k)
          \/ \E c \in Clients, s \in Cookies(sessions), g \in Cookies(gates) :
                Login(h, c, s, g)

Next == Arrive \/ (\E h \in Handlers : Serve(h)) \/ Tick \/ Restart

Spec == Init /\ [][Next]_vars

\* Only time is sure to pass: a request may come, or be finished, or not.
FairSpec == Spec /\ WF_vars(Tick)

-----------------------------------------------------------------------------
(* Properties.                                                             *)

Leases(table) ==
    [k \in Tokens |-> IF k \in DOMAIN table THEN table[k].left ELSE 0]

Knocks == INSTANCE LeaseTable WITH
    Keys <- Tokens, TTL <- KnockWindow, Capacity <- MaxKnockState,
    Renewable <- TRUE, lease <- Leases(progress)

Gates == INSTANCE LeaseTable WITH
    Keys <- Tokens, TTL <- GateTTL, Capacity <- MaxKnockState,
    Renewable <- FALSE, lease <- Leases(gates)

Sessions == INSTANCE LeaseTable WITH
    Keys <- Tokens, TTL <- SessionTTL, Capacity <- Cardinality(Tokens),
    Renewable <- FALSE, lease <- Leases(sessions)

\* The map of knocks, pruned now and then by whoever comes by, behaves as a
\* table whose entries vanish the moment they expire: its limit counts live
\* knocks only and is never exceeded (knockDoor, pruneKnockLocked).
KnocksAreLeases == Knocks!Spec

\* So does the map of gates, although room for a gate is looked for in a
\* section of its own, after the knock was counted; and no request, admitted
\* or not, ever prolongs a gate (issueGate, hasGate, consumeGate).
GatesAreLeases == Gates!Spec

\* A session ends SessionTTL after its login however busy it is, and after a
\* logout, an expiry or a restart its token is worth nothing (currentSession,
\* logout, pruneSessionsLocked).
SessionsAreLeases == Sessions!Spec

\* The check and the record of a failure are two sections of the mutex, so a
\* client can have more failures counted against it than the limit; but no
\* more than one for every request that can be between the two.
FailuresBounded ==
    \A c \in Clients :
        Len(Counting(c)) < MaxFailures + Cardinality(Handlers)

\* The gate is closed after the session was opened, so logins that overlap
\* may share it; but every request opens at most one session with it, and
\* once one of them is done nobody is admitted by it again.
LoginsPerGate == \A g \in Tokens : logins[g] <= Cardinality(Handlers)

\* A client that is locked out is let in again at some time, however often
\* it goes on trying: refused attempts are not counted.
LockoutEnds ==
    \A c \in Clients :
        Len(Counting(c)) >= MaxFailures ~> Len(Counting(c)) < MaxFailures

\* When unfinished knocks or unused gates fill their map, there is room
\* again at some time, however many requests go on knocking.
DoorReopens ==
    /\ Full(Prune(progress)) ~> ~Full(Prune(progress))
    /\ Full(Prune(gates)) ~> ~Full(Prune(gates))

=============================================================================
