------------------------------ MODULE GrantStore ------------------------------
(***************************************************************************)
(* The gateway's database of record (store/store.go): the tables grants,   *)
(* auth_tokens, managed_ips and admin_audit, and the transactions on them. *)
(*                                                                         *)
(* SQLite runs with one connection, so a transaction is one atomic step.   *)
(* What is not atomic is the clock: several callers read time.Now() before *)
(* their transaction starts and may wait for the connection afterwards.    *)
(* Such an operation takes a time stamp t from Stamps, at most MaxLag old. *)
(* Times are whole seconds, as the columns are.                            *)
(***************************************************************************)
EXTENDS Integers, Sequences, FiniteSets

CONSTANTS
    Users,         \* open_id of the Feishu users
    IPs,           \* addresses that can be granted
    Messages,      \* chat messages and card events that ask for a link
    Sender,        \* Sender[m] is the user behind message m
    MaxActiveIPs,  \* bot.maxActiveIPs: distinct active addresses per user
    TTLs,          \* lifetimes a command or an administrator may ask for
    DefaultTTL,    \* bot.defaultTTL: lifetime granted through a link
    LinkTTL,       \* bot.linkTTL: how long an unused link is valid
    LinkRetries,   \* derived ids NewLink tries for a taken message id (3)
    MaxLag,        \* bound: age of a time stamp when its transaction runs
    MaxTime,       \* bound: the clock stops here
    MaxGrants,     \* bound: rows of grants
    MaxAudits      \* bound: rows of admin_audit

StoreAssumption ==
    /\ IsFiniteSet(IPs)
    /\ Sender \in [Messages -> Users]
    /\ MaxActiveIPs \in Nat \ {0}
    /\ TTLs \subseteq Nat \ {0}
    /\ DefaultTTL \in Nat \ {0}
    /\ LinkTTL \in Nat
    /\ LinkRetries \in Nat
    /\ MaxLag \in Nat
    /\ MaxTime \in Nat
    /\ MaxGrants \in Nat
    /\ MaxAudits \in Nat
ASSUME StoreGiven == StoreAssumption

VARIABLES
    grants,      \* sequence of grant rows; the index is the row id
    authTokens,  \* set of one-time links issued
    managedIPs,  \* addresses whose frps entry the gateway put there
    adminAudit,  \* sequence of administrator mutations
    now          \* the wall clock

vars == <<grants, authTokens, managedIPs, adminAudit, now>>

Sources == {"feishu_command", "feishu_link", "admin_web"}

Grant == [user : Users, ip : IPs, source : Sources, expireAt : Nat,
          revoked : BOOLEAN]

\* NewLink retries a taken message id under the derived ids m#1, m#2, ...
Attempts == 0..LinkRetries

Token == [message : Messages, attempt : Attempts, expiresAt : Nat,
          used : BOOLEAN]

Audit == [action : {"add", "extend", "revoke"}, grant : Nat \ {0},
          result : {"recorded", "synced", "sync_failed"}]

TypeOK ==
    /\ grants \in Seq(Grant)
    /\ authTokens \in SUBSET Token
    /\ managedIPs \in SUBSET IPs
    /\ adminAudit \in Seq(Audit)
    /\ now \in Nat

-----------------------------------------------------------------------------
(* Queries.                                                                *)

\* revoked_at IS NULL AND expire_at > t
Active(g, t) == ~g.revoked /\ g.expireAt > t

ActiveIds(t) == {i \in DOMAIN grants : Active(grants[i], t)}

\* ListActive, reduced to its addresses.
ActiveIPs(t) == {grants[i].ip : i \in ActiveIds(t)}

\* ListActiveByIP: the active grants of one address.
ListActiveByIP(ip, t) == {i \in ActiveIds(t) : grants[i].ip = ip}

\* MAX(expire_at) over the active grants of ip; meaningful if there is one.
EffectiveExpiry(ip, t) ==
    CHOOSE e \in {grants[i].expireAt : i \in ListActiveByIP(ip, t)} :
        \A i \in ListActiveByIP(ip, t) : grants[i].expireAt <= e

\* Addresses u holds at t, whatever the source of the grant.
UserIPs(u, t) == {grants[i].ip : i \in {j \in ActiveIds(t) : grants[j].user = u}}

\* Mutant of WithinIPLimit: several targets count as one new address.
OneSlotForAllTargets(u, targets, t) ==
    \/ targets \subseteq UserIPs(u, t)
    \/ Cardinality(UserIPs(u, t)) < MaxActiveIPs

\* enforceActiveIPLimitMulti and, for one target, enforceActiveIPLimit:
\* refreshing an address already held takes no extra slot.
WithinIPLimit(u, targets, t) ==
    Cardinality(UserIPs(u, t) \ targets) + Cardinality(targets) <= MaxActiveIPs

\* The stamps a caller may have read before its transaction got to run.
Stamps == {t \in 0..now : now - t <= MaxLag}

-----------------------------------------------------------------------------
(* Transactions.                                                           *)

Row(u, ip, source, expireAt) ==
    [user |-> u, ip |-> ip, source |-> source, expireAt |-> expireAt,
     revoked |-> FALSE]

AuditRow(action, id) == [action |-> action, grant |-> id, result |-> "recorded"]

\* Mutant of NewLink: an off-by-one in the number of derived ids tried.
NewLinkOneMore(m, t) ==
    LET taken == {tok.attempt : tok \in {k \in authTokens : k.message = m}}
    IN  \E a \in (0..(LinkRetries + 1)) \ taken :
            /\ authTokens' = authTokens \cup
                  {[message |-> m, attempt |-> a, expiresAt |-> t + LinkTTL, used |-> FALSE]}
            /\ UNCHANGED <<grants, managedIPs, adminAudit, now>>

\* NewLink with CreateToken: the first free id among m and its
\* derived ids; when all are taken the call fails and nothing is stored.
NewLink(m, t) ==
    LET taken == {tok.attempt : tok \in {k \in authTokens : k.message = m}}
        free  == Attempts \ taken
    IN  /\ free # {}
        /\ \E a \in free :
              /\ \A b \in free : a <= b
              /\ authTokens' = authTokens \cup
                    {[message |-> m, attempt |-> a, expiresAt |-> t + LinkTTL,
                      used |-> FALSE]}
        /\ UNCHANGED <<grants, managedIPs, adminAudit, now>>

\* Mutant of TokenValid: a used token is accepted until it expires.
TokenUnexpired(tok, t) == tok.expiresAt >= t

\* used_at IS NULL AND expires_at >= t
TokenValid(tok, t) == ~tok.used /\ tok.expiresAt >= t

\* ConsumeTokenIPs: ips is the deduplicated list of one or two targets, and
\* t the clock as read before BeginTx.
ConsumeTokenIPs(tok, ips, t) ==
    LET u       == Sender[tok.message]
        targets == {ips[k] : k \in DOMAIN ips}
    IN  /\ TokenValid(tok, t)
        /\ WithinIPLimit(u, targets, t)
        /\ Len(grants) + Len(ips) <= MaxGrants
        /\ authTokens' = (authTokens \ {tok}) \cup {[tok EXCEPT !.used = TRUE]}
        /\ grants' = grants \o
              [k \in 1..Len(ips) |-> Row(u, ips[k], "feishu_link", t + DefaultTTL)]
        /\ managedIPs' = managedIPs \cup targets
        /\ UNCHANGED <<adminAudit, now>>

\* AddGrantLimited: the limit is checked against the clock inside the
\* transaction, the expiry was computed by the caller at t.
AddGrantLimited(u, ip, ttl, t) ==
    /\ WithinIPLimit(u, {ip}, now)
    /\ Len(grants) < MaxGrants
    /\ grants' = Append(grants, Row(u, ip, "feishu_command", t + ttl))
    /\ managedIPs' = managedIPs \cup {ip}
    /\ UNCHANGED <<authTokens, adminAudit, now>>

\* RevokeUserIP: revokes every grant of u for ip, of any source, that was
\* active at t; the clock is read before the statement gets the connection.
RevokeUserIP(u, ip, t) ==
    /\ grants' = [i \in DOMAIN grants |->
          IF grants[i].user = u /\ grants[i].ip = ip /\ Active(grants[i], t)
          THEN [grants[i] EXCEPT !.revoked = TRUE] ELSE grants[i]]
    /\ UNCHANGED <<authTokens, managedIPs, adminAudit, now>>

\* CreateAdminGrant: no address limit applies to the console.
CreateAdminGrant(u, ip, ttl, t) ==
    /\ Len(grants) < MaxGrants /\ Len(adminAudit) < MaxAudits
    /\ grants' = Append(grants, Row(u, ip, "admin_web", t + ttl))
    /\ managedIPs' = managedIPs \cup {ip}
    /\ adminAudit' = Append(adminAudit, AuditRow("add", Len(grants) + 1))
    /\ UNCHANGED <<authTokens, now>>

\* Mutant of Mutable: the expiry is not checked.
Unrevoked(id) == id \in DOMAIN grants /\ ~grants[id].revoked

\* grantForMutation and the activity check of the two mutations below.
Mutable(id) == id \in DOMAIN grants /\ Active(grants[id], now)

\* ExtendAdminGrant: the new expiry was computed by the handler at t.
ExtendAdminGrant(id, ttl, t) ==
    /\ Mutable(id) /\ Len(adminAudit) < MaxAudits
    /\ grants' = [grants EXCEPT ![id].expireAt = t + ttl]
    /\ managedIPs' = managedIPs \cup {grants[id].ip}
    /\ adminAudit' = Append(adminAudit, AuditRow("extend", id))
    /\ UNCHANGED <<authTokens, now>>

RevokeAdminGrant(id) ==
    /\ Mutable(id) /\ Len(adminAudit) < MaxAudits
    /\ grants' = [grants EXCEPT ![id].revoked = TRUE]
    /\ adminAudit' = Append(adminAudit, AuditRow("revoke", id))
    /\ UNCHANGED <<authTokens, managedIPs, now>>

SetAdminAuditResult(a, result) ==
    /\ a \in DOMAIN adminAudit
    /\ adminAudit' = [adminAudit EXCEPT ![a].result = result]
    /\ UNCHANGED <<grants, authTokens, managedIPs, now>>

ForgetManagedIP(ip) ==
    /\ managedIPs' = managedIPs \ {ip}
    /\ UNCHANGED <<grants, authTokens, adminAudit, now>>

Tick ==
    /\ now < MaxTime
    /\ now' = now + 1
    /\ UNCHANGED <<grants, authTokens, managedIPs, adminAudit>>

-----------------------------------------------------------------------------
(* The store on its own: any caller, any order.                            *)

\* The target lists of the confirmation page: the client address, and the
\* IPv4 address the browser reported when it differs.
TargetLists == {<<a>> : a \in IPs} \cup
               {ab \in IPs \X IPs : ab[1] # ab[2]}

Init ==
    /\ grants = <<>>
    /\ authTokens = {}
    /\ managedIPs = {}
    /\ adminAudit = <<>>
    /\ now = 0

Next ==
    \/ \E m \in Messages, t \in Stamps : NewLink(m, t)
    \/ \E tok \in authTokens, ips \in TargetLists, t \in Stamps :
          ConsumeTokenIPs(tok, ips, t)
    \/ \E u \in Users, ip \in IPs, ttl \in TTLs, t \in Stamps :
          AddGrantLimited(u, ip, ttl, t)
    \/ \E u \in Users, ip \in IPs, t \in Stamps : RevokeUserIP(u, ip, t)
    \/ \E u \in Users, ip \in IPs, ttl \in TTLs, t \in Stamps :
          CreateAdminGrant(u, ip, ttl, t)
    \/ \E id \in DOMAIN grants, ttl \in TTLs, t \in Stamps :
          ExtendAdminGrant(id, ttl, t)
    \/ \E id \in DOMAIN grants : RevokeAdminGrant(id)
    \/ \E a \in DOMAIN adminAudit, r \in {"synced", "sync_failed"} :
          SetAdminAuditResult(a, r)
    \/ \E ip \in IPs : ForgetManagedIP(ip)
    \/ Tick

Spec == Init /\ [][Next]_vars

-----------------------------------------------------------------------------
(* Properties.                                                             *)

\* Addresses u holds through the bot and its links, which are limited.
SelfServiceIPs(u, t) ==
    {grants[i].ip : i \in {j \in ActiveIds(t) :
        grants[j].user = u /\ grants[j].source # "admin_web"}}

\* No user holds more than MaxActiveIPs distinct active addresses through
\* self-service (enforceActiveIPLimit, enforceActiveIPLimitMulti), although
\* the check and the expiry may use a clock read before the transaction and
\* an administrator may extend such a grant at any time.
ActiveIPLimit ==
    \A u \in Users : Cardinality(SelfServiceIPs(u, now)) <= MaxActiveIPs

\* A grant that is revoked or expired never becomes active again, its row
\* never disappears, and nobody's grant is ever turned into another user's
\* or another address's: a mutation through ExtendAdminGrant, RevokeUserIP
\* or RevokeAdminGrant only ends a grant or moves the expiry of a live one.
InactiveIsFinal ==
    [][\A i \in DOMAIN grants :
          /\ i \in DOMAIN grants'
          /\ grants'[i].user = grants[i].user
          /\ grants'[i].ip = grants[i].ip
          /\ Active(grants'[i], now') => Active(grants[i], now)]_vars

\* A one-time link yields at most one batch of grants (two addresses), even
\* when it is submitted twice: the link grants of a user never outnumber two
\* for each of the user's consumed tokens.
LinkGrantsBackedByTokens ==
    \A u \in Users :
        Cardinality({i \in DOMAIN grants :
            grants[i].user = u /\ grants[i].source = "feishu_link"})
        <= 2 * Cardinality({tok \in authTokens :
            tok.used /\ Sender[tok.message] = u})

=============================================================================
