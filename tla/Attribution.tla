------------------------------ MODULE Attribution ------------------------------
(***************************************************************************)
(* Who is shown as the owner of an access record (store/store.go,          *)
(* attachAccessOwners). frps logs an address and a time; the users behind  *)
(* the address are worked out from the grants whenever a page is read,     *)
(* long after the request and after whatever happened to the grants since. *)
(*                                                                         *)
(* The module lets the transactions of GrantStore run in any order beside  *)
(* requests that frps logs, and records who held the address when each of  *)
(* them came in. Audit results and managed addresses do not enter into     *)
(* the attribution, and their two updates are left out.                    *)
(***************************************************************************)
EXTENDS Integers, Sequences, FiniteSets

CONSTANTS
    Users, IPs, Messages, Sender, MaxActiveIPs, TTLs, DefaultTTL, LinkTTL,
    LinkRetries, MaxLag, MaxTime, MaxGrants, MaxAudits,
    MaxRecords   \* bound: access records

VARIABLES
    grants, authTokens, managedIPs, adminAudit, now,
    createdAt,   \* created_at of each grant
    records,     \* access records: address and time
    held         \* history: who held the address of each record at its time

Store == INSTANCE GrantStore

storeVars == <<grants, authTokens, managedIPs, adminAudit, now>>
vars == <<storeVars, createdAt, records, held>>

AttributionAssumption == Store!StoreAssumption /\ MaxRecords \in Nat
ASSUME AttributionGiven == AttributionAssumption

Record == [ip : IPs, time : Nat]

TypeOK ==
    /\ Store!TypeOK
    /\ createdAt \in Seq(Nat) /\ Len(createdAt) = Len(grants)
    /\ records \in Seq(Record)
    /\ held \in Seq(SUBSET Users) /\ Len(held) = Len(records)

-----------------------------------------------------------------------------
(* Reading a page.                                                         *)

\* Mutants of Covers: revoked grants count; the expiry is compared with the
\* time of reading.
CoversRevoked(i, r) ==
    createdAt[i] <= r.time /\ r.time < grants[i].expireAt

CoversNow(i, r) ==
    ~grants[i].revoked /\ createdAt[i] <= r.time /\ now < grants[i].expireAt

\* The grant was given by the time of the record, had not expired, and is
\* not revoked when the page is read.
Covers(i, r) ==
    ~grants[i].revoked /\ createdAt[i] <= r.time /\ r.time < grants[i].expireAt

GrantsFor(r) == {i \in DOMAIN grants : grants[i].ip = r.ip}

Exact(r) == {grants[i].user : i \in {j \in GrantsFor(r) : Covers(j, r)}}

Ever(r) == {grants[i].user : i \in GrantsFor(r)}

OwnerExact(r) == Exact(r) # {}

Owner(r) == IF OwnerExact(r) THEN Exact(r) ELSE Ever(r)

-----------------------------------------------------------------------------
\* Users with a grant, as the database stands, that is active at time t.
Holders(ip, t) == {grants[i].user : i \in Store!ListActiveByIP(ip, t)}

\* A transaction runs up to MaxLag after the time it stores, so who holds
\* the address at the time of a record is only known for sure after that.
Watch ==
    held' = [k \in DOMAIN records |->
        IF now' <= records[k].time + MaxLag
        THEN held[k] \cup Holders(records[k].ip, records[k].time)' ELSE held[k]]

\* Transactions that store the caller's clock t in new rows.
Grant ==
    /\ \E t \in Store!Stamps :
          /\ \/ \E tok \in authTokens, ips \in Store!TargetLists :
                   Store!ConsumeTokenIPs(tok, ips, t)
             \/ \E u \in Users, ip \in IPs, ttl \in TTLs :
                   \/ Store!AddGrantLimited(u, ip, ttl, t)
                   \/ Store!CreateAdminGrant(u, ip, ttl, t)
          /\ createdAt' = [i \in DOMAIN grants' |->
                IF i \in DOMAIN grants THEN createdAt[i] ELSE t]
    /\ UNCHANGED records
    /\ Watch

Link ==
    /\ \E m \in Messages, t \in Store!Stamps : Store!NewLink(m, t)
    /\ UNCHANGED <<createdAt, records, held>>

Extend ==
    /\ \E id \in DOMAIN grants, ttl \in TTLs, t \in Store!Stamps :
          Store!ExtendAdminGrant(id, ttl, t)
    /\ UNCHANGED <<createdAt, records>>
    /\ Watch

Revoke ==
    /\ \/ \E u \in Users, ip \in IPs, t \in Store!Stamps :
             Store!RevokeUserIP(u, ip, t)
       \/ \E id \in DOMAIN grants : Store!RevokeAdminGrant(id)
    /\ UNCHANGED <<createdAt, records>>
    /\ Watch

\* frps decides on a connection and logs it; the poller brings the record
\* into the database later.
Request(ip) ==
    /\ Len(records) < MaxRecords
    /\ records' = Append(records, [ip |-> ip, time |-> now])
    /\ held' = Append(held, Holders(ip, now))
    /\ UNCHANGED <<storeVars, createdAt>>

Tick ==
    /\ Store!Tick
    /\ UNCHANGED <<createdAt, records>>
    /\ Watch

Init ==
    /\ Store!Init
    /\ createdAt = <<>> /\ records = <<>> /\ held = <<>>

Next ==
    \/ Grant \/ Link \/ Extend \/ Revoke
    \/ \E ip \in IPs : Request(ip)
    \/ Tick

Spec == Init /\ [][Next]_vars

-----------------------------------------------------------------------------
(* Properties.                                                             *)

\* Whoever is shown as an exact owner of a record held its address around
\* the time of the request, and where no owner is exact all those who held it
\* are among the ones listed (attachAccessOwners), although the answer is
\* worked out from rows that were extended, revoked and added to since, and
\* from times that were read before their transactions ran.
OwnersHeldIt ==
    \A k \in DOMAIN records :
        LET r == records[k]
        IN  IF OwnerExact(r) THEN Owner(r) \subseteq held[k]
                             ELSE held[k] \subseteq Owner(r)

\* The exact owners of a record from before the oldest running transaction
\* do not change any more, whenever the page is read, except that revoking a
\* grant takes its user away: no later grant, extension (which may also
\* shorten a grant) or expiry rewrites the history.
HistoryIsStable ==
    [][\A k \in DOMAIN records :
          LET r == records[k]
          IN  now > r.time + MaxLag =>
                 /\ Exact(r)' \subseteq Exact(r)
                 /\ Exact(r)' # Exact(r) => Revoke]_vars

-----------------------------------------------------------------------------
(* What a comment says and the code does not do; refuted by a run.         *)

\* store.go, AccessRecord: OwnerExact marks records whose request moment fell
\* inside a live grant. Whether it did is settled once that second is over,
\* so a user found to be the exact owner then stays one, and the record is
\* never shown as made outside every grant.
LiveRecordStaysExact ==
    [][\A k \in DOMAIN records :
          now > records[k].time => Exact(records[k]) \subseteq Exact(records[k])']_vars

=============================================================================
