--------------------------- MODULE GrantStoreProofs ---------------------------
(***************************************************************************)
(* Proofs about GrantStore, for every value of its constants:              *)
(*   TypeCorrect       the type invariant;                                 *)
(*   FinalityCorrect   a grant that has ended never becomes active again;  *)
(*   LimitCorrect      the limit on active addresses per user;             *)
(*   LinksCorrect      a one-time link yields at most one batch of grants. *)
(* The invariant ActiveIPLimit is inductive together with TypeOK: a stale  *)
(* time stamp makes a transaction count grants that have expired since, so *)
(* it only ever rejects too much.                                          *)
(***************************************************************************)
EXTENDS GrantStore, FiniteSetTheorems, SequenceTheorems, TLAPS

-----------------------------------------------------------------------------
(* The rows after each kind of write.                                      *)

\* A function on 1..n is a sequence of length n.
LEMMA FunctionIsSeq ==
    ASSUME NEW S, NEW n \in Nat, NEW f \in [1..n -> S]
    PROVE  f \in Seq(S) /\ Len(f) = n /\ DOMAIN f = 1..n
<1>1. f \in Seq(S)
  BY SeqDef
<1>2. DOMAIN f = 1..n
  OBVIOUS
<1>3. DOMAIN f = 1..Len(f) /\ Len(f) \in Nat
  BY <1>1, LenProperties
<1> QED
  BY <1>1, <1>2, <1>3

\* Appending a batch keeps every old row; a new row is one of the batch.
LEMMA BatchRows ==
    ASSUME NEW S, NEW s \in Seq(S), NEW r \in Seq(S)
    PROVE  /\ s \o r \in Seq(S)
           /\ \A i \in DOMAIN s : i \in DOMAIN (s \o r) /\ (s \o r)[i] = s[i]
           /\ \A i \in DOMAIN (s \o r) : i \in DOMAIN s \/
                 \E k \in DOMAIN r : (s \o r)[i] = r[k]
<1>1. /\ DOMAIN s = 1..Len(s) /\ Len(s) \in Nat
      /\ DOMAIN r = 1..Len(r) /\ Len(r) \in Nat
  BY LenProperties
<1>2. /\ s \o r \in Seq(S)
      /\ Len(s \o r) = Len(s) + Len(r)
      /\ \A i \in 1..Len(s) + Len(r) :
            (s \o r)[i] = IF i <= Len(s) THEN s[i] ELSE r[i - Len(s)]
  BY ConcatProperties
<1>3. DOMAIN (s \o r) = 1..Len(s) + Len(r)
  BY <1>2, LenProperties
<1>4. ASSUME NEW i \in DOMAIN s
      PROVE  i \in DOMAIN (s \o r) /\ (s \o r)[i] = s[i]
  BY <1>1, <1>2, <1>3
<1>5. ASSUME NEW i \in DOMAIN (s \o r), i \notin DOMAIN s
      PROVE  \E k \in DOMAIN r : (s \o r)[i] = r[k]
  <2>1. i - Len(s) \in DOMAIN r /\ (s \o r)[i] = r[i - Len(s)]
    BY <1>1, <1>2, <1>3, <1>5
  <2> QED
    BY <2>1
<1> QED
  BY <1>2, <1>4, <1>5

\* What a step may do to the rows that exist, and which rows it may add: the
\* common consequence of every action that the theorems below rest on.
RowsKept ==
    \A i \in DOMAIN grants :
        /\ i \in DOMAIN grants'
        /\ grants'[i].user = grants[i].user
        /\ grants'[i].ip = grants[i].ip
        /\ grants'[i].source = grants[i].source
        /\ Active(grants'[i], now') => Active(grants[i], now)

RowsAddedOnlyFor(u, targets) ==
    \A i \in DOMAIN grants' \ DOMAIN grants :
        grants'[i].user = u /\ grants'[i].ip \in targets

NewRowsWithinLimit ==
    \/ \A i \in DOMAIN grants' \ DOMAIN grants :
          grants'[i].source = "admin_web"
    \/ \E u \in Users, targets \in SUBSET IPs, t \in Stamps :
          WithinIPLimit(u, targets, t) /\ RowsAddedOnlyFor(u, targets)

GoodStep == TypeOK' /\ RowsKept /\ NewRowsWithinLimit

\* A step that leaves the rows alone and does not turn the clock back.
LEMMA SameRows ==
    ASSUME TypeOK, grants' = grants, now' \in Nat, now' >= now
    PROVE  RowsKept /\ NewRowsWithinLimit
<1>1. \A i \in DOMAIN grants : grants[i] \in Grant
  BY LenProperties, ElementOfSeq DEF TypeOK
<1>2. RowsKept
  BY <1>1 DEF RowsKept, Active, Grant, TypeOK
<1>3. NewRowsWithinLimit
  BY DEF NewRowsWithinLimit
<1> QED
  BY <1>2, <1>3

\* Appending a batch of rows without moving the clock.
LEMMA AppendedRows ==
    ASSUME TypeOK, NEW rows \in Seq(Grant), grants' = grants \o rows, now' = now
    PROVE  /\ grants' \in Seq(Grant)
           /\ RowsKept
           /\ \A i \in DOMAIN grants' \ DOMAIN grants :
                 \E k \in DOMAIN rows : grants'[i] = rows[k]
<1>1. grants \in Seq(Grant)
  BY DEF TypeOK
<1>2. /\ grants' \in Seq(Grant)
      /\ \A i \in DOMAIN grants : i \in DOMAIN grants' /\ grants'[i] = grants[i]
      /\ \A i \in DOMAIN grants' : i \in DOMAIN grants \/
            \E k \in DOMAIN rows : grants'[i] = rows[k]
  BY <1>1, BatchRows
<1>3. RowsKept
  BY <1>2 DEF RowsKept, Active
<1> QED
  BY <1>2, <1>3

\* One row appended.
LEMMA AppendedRow ==
    ASSUME TypeOK, NEW g \in Grant, grants' = Append(grants, g), now' = now
    PROVE  /\ grants' \in Seq(Grant)
           /\ RowsKept
           /\ \A i \in DOMAIN grants' \ DOMAIN grants : grants'[i] = g
<1>1. <<g>> \in Seq(Grant) /\ DOMAIN <<g>> = 1..1 /\ <<g>>[1] = g
  OBVIOUS
<1>2. grants' = grants \o <<g>>
  BY <1>1 DEF TypeOK
<1>3. /\ grants' \in Seq(Grant)
      /\ RowsKept
      /\ \A i \in DOMAIN grants' \ DOMAIN grants :
            \E k \in DOMAIN <<g>> : grants'[i] = <<g>>[k]
  <2> DEFINE rows == <<g>>
  <2>1. rows \in Seq(Grant) /\ grants' = grants \o rows
    BY <1>1, <1>2
  <2> HIDE DEF rows
  <2>2. /\ grants' \in Seq(Grant)
        /\ RowsKept
        /\ \A i \in DOMAIN grants' \ DOMAIN grants :
              \E k \in DOMAIN rows : grants'[i] = rows[k]
    BY <2>1, AppendedRows
  <2> QED
    BY <2>2 DEF rows
<1>4. \A k \in DOMAIN <<g>> : <<g>>[k] = g
  BY <1>1
<1> QED
  BY <1>3, <1>4, Zenon

-----------------------------------------------------------------------------
(* One lemma per transaction.                                              *)

\* A transaction's time is not later than the moment it commits.
LEMMA StampTime == ASSUME TypeOK PROVE \A t \in Stamps : t \in Nat /\ t <= now
BY DEF Stamps, TypeOK

\* CreateToken: a new link grants nothing.
LEMMA NewLinkStep ==
    ASSUME TypeOK, NEW m \in Messages, NEW t \in Stamps, NewLink(m, t)
    PROVE  GoodStep
<1>1. PICK a \in Attempts : authTokens' = authTokens \cup
          {[message |-> m, attempt |-> a, expiresAt |-> t + LinkTTL,
            used |-> FALSE]}
  BY DEF NewLink
<1>2. [message |-> m, attempt |-> a, expiresAt |-> t + LinkTTL, used |-> FALSE]
        \in Token
  BY StampTime, StoreGiven DEF Token, StoreAssumption
<1>3. TypeOK'
  BY <1>1, <1>2 DEF NewLink, TypeOK
<1> QED
  BY <1>3, SameRows DEF NewLink, GoodStep, TypeOK

\* ConsumeTokenIPs: the new rows of a link stay within the limit of its user.
LEMMA ConsumeStep ==
    ASSUME TypeOK, NEW tok \in authTokens, NEW ips \in TargetLists,
           NEW t \in Stamps, ConsumeTokenIPs(tok, ips, t)
    PROVE  GoodStep
<1> DEFINE u == Sender[tok.message]
           targets == {ips[k] : k \in DOMAIN ips}
           rows == [k \in 1..Len(ips) |->
                       Row(u, ips[k], "feishu_link", t + DefaultTTL)]
<1>1. tok \in Token /\ u \in Users
  BY StoreGiven DEF TypeOK, Token, StoreAssumption
<1>2. ips \in Seq(IPs)
  <2>1. CASE \E a \in IPs : ips = <<a>>
    BY <2>1
  <2>2. CASE ips \in IPs \X IPs
    <3>1. PICK a \in IPs, b \in IPs : ips = <<a, b>>
      BY <2>2
    <3> QED
      BY <3>1
  <2> QED
    BY <2>1, <2>2 DEF TargetLists
<1>3. /\ Len(ips) \in Nat /\ DOMAIN ips = 1..Len(ips)
      /\ \A k \in 1..Len(ips) : ips[k] \in IPs
  BY <1>2, LenProperties, ElementOfSeq
<1>4. targets \in SUBSET IPs
  BY <1>3
<1>5. \A k \in 1..Len(ips) :
         Row(u, ips[k], "feishu_link", t + DefaultTTL) \in Grant
  BY <1>1, <1>3, StampTime, StoreGiven DEF Row, Grant, Sources, StoreAssumption
<1>6. rows \in [1..Len(ips) -> Grant]
  BY <1>5
<1>7. rows \in Seq(Grant) /\ DOMAIN rows = 1..Len(ips)
  BY <1>3, <1>6, FunctionIsSeq
<1>8. grants' = grants \o rows /\ now' = now
  BY DEF ConsumeTokenIPs
<1>9. /\ grants' \in Seq(Grant)
      /\ RowsKept
      /\ \A i \in DOMAIN grants' \ DOMAIN grants :
            \E k \in DOMAIN rows : grants'[i] = rows[k]
  <2> HIDE DEF rows
  <2> QED
    BY <1>7, <1>8, AppendedRows
<1>10. \A k \in DOMAIN rows : rows[k].user = u /\ rows[k].ip \in targets
  BY <1>3, <1>7 DEF Row
<1>11. RowsAddedOnlyFor(u, targets)
  BY <1>9, <1>10 DEF RowsAddedOnlyFor
<1>12. NewRowsWithinLimit
  <2>1. WithinIPLimit(u, targets, t)
    BY DEF ConsumeTokenIPs
  <2> QED
    BY <1>1, <1>4, <1>11, <2>1 DEF NewRowsWithinLimit
<1>13. TypeOK'
  <2>1. [tok EXCEPT !.used = TRUE] \in Token
    BY <1>1 DEF Token
  <2> QED
    BY <1>4, <1>8, <1>9, <2>1 DEF ConsumeTokenIPs, TypeOK
<1> QED
  BY <1>9, <1>12, <1>13 DEF GoodStep

\* AddGrant.
LEMMA AddGrantStep ==
    ASSUME TypeOK, NEW u \in Users, NEW ip \in IPs, NEW ttl \in TTLs,
           NEW t \in Stamps, AddGrantLimited(u, ip, ttl, t)
    PROVE  GoodStep
<1> DEFINE g == Row(u, ip, "feishu_command", t + ttl)
<1>1. g \in Grant /\ g.user = u /\ g.ip = ip
  BY StampTime, StoreGiven DEF Row, Grant, Sources, StoreAssumption
<1>2. grants' = Append(grants, g) /\ now' = now
  BY DEF AddGrantLimited
<1> HIDE DEF g
<1>3. /\ grants' \in Seq(Grant)
      /\ RowsKept
      /\ \A i \in DOMAIN grants' \ DOMAIN grants : grants'[i] = g
  BY <1>1, <1>2, AppendedRow
<1>4. TypeOK'
  BY <1>3 DEF AddGrantLimited, TypeOK
<1>5. RowsAddedOnlyFor(u, {ip})
  BY <1>1, <1>3 DEF RowsAddedOnlyFor
<1>6. WithinIPLimit(u, {ip}, now) /\ now \in Stamps /\ {ip} \in SUBSET IPs
  BY StoreGiven DEF AddGrantLimited, Stamps, TypeOK, StoreAssumption
<1>7. NewRowsWithinLimit
  BY <1>5, <1>6 DEF NewRowsWithinLimit
<1> QED
  BY <1>3, <1>4, <1>7 DEF GoodStep

\* RevokeUserIP.
LEMMA RevokeUserIPStep ==
    ASSUME TypeOK, NEW u \in Users, NEW ip \in IPs, NEW t \in Stamps,
           RevokeUserIP(u, ip, t)
    PROVE  GoodStep
<1>1. /\ Len(grants) \in Nat /\ DOMAIN grants = 1..Len(grants)
      /\ \A i \in DOMAIN grants : grants[i] \in Grant
  BY LenProperties, ElementOfSeq DEF TypeOK
<1>2. /\ DOMAIN grants' = DOMAIN grants
      /\ \A i \in DOMAIN grants :
            grants'[i] = grants[i] \/
            grants'[i] = [grants[i] EXCEPT !.revoked = TRUE]
  BY DEF RevokeUserIP
<1>3. \A i \in DOMAIN grants :
         /\ grants'[i] \in Grant
         /\ grants'[i].user = grants[i].user
         /\ grants'[i].ip = grants[i].ip
         /\ grants'[i].source = grants[i].source
         /\ grants'[i].expireAt = grants[i].expireAt
         /\ ~grants'[i].revoked => ~grants[i].revoked
  BY <1>1, <1>2 DEF Grant
<1>4. grants' \in [1..Len(grants) -> Grant]
  BY <1>1, <1>3 DEF RevokeUserIP
<1>5. grants' \in Seq(Grant)
  BY <1>1, <1>4, FunctionIsSeq
<1>6. RowsKept
  BY <1>2, <1>3 DEF RowsKept, Active, RevokeUserIP
<1>7. NewRowsWithinLimit
  BY <1>2 DEF NewRowsWithinLimit
<1>8. TypeOK'
  BY <1>5 DEF RevokeUserIP, TypeOK
<1> QED
  BY <1>6, <1>7, <1>8 DEF GoodStep

\* CreateAdminGrant.
LEMMA CreateAdminGrantStep ==
    ASSUME TypeOK, NEW u \in Users, NEW ip \in IPs, NEW ttl \in TTLs,
           NEW t \in Stamps, CreateAdminGrant(u, ip, ttl, t)
    PROVE  GoodStep
<1> DEFINE g == Row(u, ip, "admin_web", t + ttl)
<1>1. g \in Grant /\ g.source = "admin_web"
  BY StampTime, StoreGiven DEF Row, Grant, Sources, StoreAssumption
<1>2. grants' = Append(grants, g) /\ now' = now
  BY DEF CreateAdminGrant
<1> HIDE DEF g
<1>3. /\ grants' \in Seq(Grant)
      /\ RowsKept
      /\ \A i \in DOMAIN grants' \ DOMAIN grants : grants'[i] = g
  BY <1>1, <1>2, AppendedRow
<1>4. AuditRow("add", Len(grants) + 1) \in Audit
  BY LenProperties DEF AuditRow, Audit, TypeOK
<1>5. TypeOK'
  BY <1>3, <1>4 DEF CreateAdminGrant, TypeOK
<1>6. NewRowsWithinLimit
  BY <1>1, <1>3 DEF NewRowsWithinLimit
<1> QED
  BY <1>3, <1>5, <1>6 DEF GoodStep

\* A mutation of one live row that keeps its owner, address and source.
LEMMA MutatedRow ==
    ASSUME TypeOK, NEW id, Mutable(id), NEW g \in Grant,
           g.user = grants[id].user, g.ip = grants[id].ip,
           g.source = grants[id].source,
           grants' = [grants EXCEPT ![id] = g], now' = now
    PROVE  grants' \in Seq(Grant) /\ RowsKept /\ NewRowsWithinLimit
<1>1. /\ Len(grants) \in Nat /\ DOMAIN grants = 1..Len(grants)
      /\ grants \in [1..Len(grants) -> Grant]
      /\ id \in DOMAIN grants /\ Active(grants[id], now)
  BY LenProperties DEF TypeOK, Mutable
<1>2. /\ DOMAIN grants' = DOMAIN grants
      /\ \A i \in DOMAIN grants : i # id => grants'[i] = grants[i]
      /\ grants'[id] = g
  BY <1>1
<1>3. grants' \in [1..Len(grants) -> Grant]
  BY <1>1
<1>4. grants' \in Seq(Grant)
  BY <1>1, <1>3, FunctionIsSeq
<1>5. RowsKept
  <2> SUFFICES ASSUME NEW i \in DOMAIN grants
               PROVE  /\ i \in DOMAIN grants'
                      /\ grants'[i].user = grants[i].user
                      /\ grants'[i].ip = grants[i].ip
                      /\ grants'[i].source = grants[i].source
                      /\ Active(grants'[i], now') => Active(grants[i], now)
    BY DEF RowsKept
  <2>1. CASE i = id
    BY <1>1, <1>2, <2>1
  <2>2. CASE i # id
    BY <1>2, <2>2 DEF Active
  <2> QED
    BY <2>1, <2>2
<1>6. NewRowsWithinLimit
  BY <1>2 DEF NewRowsWithinLimit
<1> QED
  BY <1>4, <1>5, <1>6

\* ExtendAdminGrant.
LEMMA ExtendAdminGrantStep ==
    ASSUME TypeOK, NEW id \in DOMAIN grants, NEW ttl \in TTLs, NEW t \in Stamps,
           ExtendAdminGrant(id, ttl, t)
    PROVE  GoodStep
<1> DEFINE g == [grants[id] EXCEPT !.expireAt = t + ttl]
<1>1. grants[id] \in Grant /\ id \in Nat \ {0}
  BY LenProperties, ElementOfSeq DEF TypeOK
<1>2. /\ g \in Grant /\ g.user = grants[id].user /\ g.ip = grants[id].ip
      /\ g.source = grants[id].source
  BY <1>1, StampTime, StoreGiven DEF Grant, StoreAssumption
<1>3. grants' = [grants EXCEPT ![id] = g] /\ now' = now /\ Mutable(id)
  BY DEF ExtendAdminGrant
<1> HIDE DEF g
<1>4. grants' \in Seq(Grant) /\ RowsKept /\ NewRowsWithinLimit
  BY <1>2, <1>3, MutatedRow
<1>5. AuditRow("extend", id) \in Audit /\ grants[id].ip \in IPs
  BY <1>1 DEF AuditRow, Audit, Grant
<1>6. TypeOK'
  BY <1>4, <1>5 DEF ExtendAdminGrant, TypeOK
<1> QED
  BY <1>4, <1>6 DEF GoodStep

\* RevokeAdminGrant.
LEMMA RevokeAdminGrantStep ==
    ASSUME TypeOK, NEW id \in DOMAIN grants, RevokeAdminGrant(id)
    PROVE  GoodStep
<1> DEFINE g == [grants[id] EXCEPT !.revoked = TRUE]
<1>1. grants[id] \in Grant /\ id \in Nat \ {0}
  BY LenProperties, ElementOfSeq DEF TypeOK
<1>2. /\ g \in Grant /\ g.user = grants[id].user /\ g.ip = grants[id].ip
      /\ g.source = grants[id].source
  BY <1>1 DEF Grant
<1>3. grants' = [grants EXCEPT ![id] = g] /\ now' = now /\ Mutable(id)
  BY DEF RevokeAdminGrant
<1> HIDE DEF g
<1>4. grants' \in Seq(Grant) /\ RowsKept /\ NewRowsWithinLimit
  BY <1>2, <1>3, MutatedRow
<1>5. AuditRow("revoke", id) \in Audit
  BY <1>1 DEF AuditRow, Audit
<1>6. TypeOK'
  BY <1>4, <1>5 DEF RevokeAdminGrant, TypeOK
<1> QED
  BY <1>4, <1>6 DEF GoodStep

\* The remaining actions leave grants alone.
LEMMA OtherSteps ==
    ASSUME TypeOK,
           \/ \E a \in DOMAIN adminAudit, r \in {"synced", "sync_failed"} :
                 SetAdminAuditResult(a, r)
           \/ \E ip \in IPs : ForgetManagedIP(ip)
           \/ Tick
           \/ UNCHANGED vars
    PROVE  GoodStep
<1>1. CASE \E a \in DOMAIN adminAudit, r \in {"synced", "sync_failed"} :
              SetAdminAuditResult(a, r)
  <2>1. PICK a \in DOMAIN adminAudit, r \in {"synced", "sync_failed"} :
            SetAdminAuditResult(a, r)
    BY <1>1
  <2>2. a \in 1..Len(adminAudit) /\ adminAudit[a] \in Audit
    BY LenProperties, ElementOfSeq DEF TypeOK
  <2>3. [adminAudit[a] EXCEPT !.result = r] \in Audit
    BY <2>2 DEF Audit
  <2>4. adminAudit' \in Seq(Audit)
    BY <2>1, <2>2, <2>3, ExceptSeq DEF SetAdminAuditResult, TypeOK
  <2> QED
    BY <2>1, <2>4, SameRows DEF SetAdminAuditResult, GoodStep, TypeOK
<1>2. CASE \E ip \in IPs : ForgetManagedIP(ip)
  BY <1>2, SameRows DEF ForgetManagedIP, GoodStep, TypeOK
<1>3. CASE Tick
  BY <1>3, SameRows DEF Tick, GoodStep, TypeOK
<1>4. CASE UNCHANGED vars
  BY <1>4, SameRows DEF vars, GoodStep, TypeOK
<1> QED
  BY <1>1, <1>2, <1>3, <1>4

\* Every step is a good step.
LEMMA EveryStep == TypeOK /\ [Next]_vars => GoodStep
<1> SUFFICES ASSUME TypeOK, [Next]_vars PROVE GoodStep
  OBVIOUS
<1>1. ASSUME NEW m \in Messages, NEW t \in Stamps, NewLink(m, t)
      PROVE  GoodStep
  BY <1>1, NewLinkStep
<1>2. ASSUME NEW tok \in authTokens, NEW ips \in TargetLists, NEW t \in Stamps,
             ConsumeTokenIPs(tok, ips, t)
      PROVE  GoodStep
  BY <1>2, ConsumeStep
<1>3. ASSUME NEW u \in Users, NEW ip \in IPs, NEW ttl \in TTLs, NEW t \in Stamps,
             AddGrantLimited(u, ip, ttl, t)
      PROVE  GoodStep
  BY <1>3, AddGrantStep
<1>4. ASSUME NEW u \in Users, NEW ip \in IPs, NEW t \in Stamps, RevokeUserIP(u, ip, t)
      PROVE  GoodStep
  BY <1>4, RevokeUserIPStep
<1>5. ASSUME NEW u \in Users, NEW ip \in IPs, NEW ttl \in TTLs, NEW t \in Stamps,
             CreateAdminGrant(u, ip, ttl, t)
      PROVE  GoodStep
  BY <1>5, CreateAdminGrantStep
<1>6. ASSUME NEW id \in DOMAIN grants, NEW ttl \in TTLs, NEW t \in Stamps,
             ExtendAdminGrant(id, ttl, t)
      PROVE  GoodStep
  BY <1>6, ExtendAdminGrantStep
<1>7. ASSUME NEW id \in DOMAIN grants, RevokeAdminGrant(id)
      PROVE  GoodStep
  BY <1>7, RevokeAdminGrantStep
<1> QED
  BY <1>1, <1>2, <1>3, <1>4, <1>5, <1>6, <1>7, OtherSteps, Zenon DEF Next

-----------------------------------------------------------------------------
(* The theorems.                                                           *)

\* The empty store has the type.
LEMMA InitType == Init => TypeOK
BY EmptySeq DEF Init, TypeOK

\* Type correctness of the tables, for every value of the constants.
THEOREM TypeCorrect == Spec => []TypeOK
<1>1. TypeOK /\ [Next]_vars => TypeOK'
  BY EveryStep DEF GoodStep
<1> QED
  BY InitType, <1>1, PTL DEF Spec

\* InactiveIsFinal: an ended grant stays ended, and a grant keeps its owner
\* and its address, whatever mixture of commands, links and console
\* mutations runs.
THEOREM FinalityCorrect == Spec => InactiveIsFinal
<1> DEFINE A == \A i \in DOMAIN grants :
                   /\ i \in DOMAIN grants'
                   /\ grants'[i].user = grants[i].user
                   /\ grants'[i].ip = grants[i].ip
                   /\ Active(grants'[i], now') => Active(grants[i], now)
<1>1. TypeOK /\ [Next]_vars => [A]_vars
  BY EveryStep DEF GoodStep, RowsKept
<1> QED
  BY TypeCorrect, <1>1, PTL DEF Spec, InactiveIsFinal

\* The addresses of a user that a limited transaction leaves, counted.
LEMMA LimitKept ==
    ASSUME NEW held, NEW others \in SUBSET IPs, NEW targets \in SUBSET IPs,
           held \subseteq others \cup targets,
           Cardinality(others) + Cardinality(targets) <= MaxActiveIPs
    PROVE  Cardinality(held) <= MaxActiveIPs
<1>1. IsFiniteSet(IPs) /\ MaxActiveIPs \in Nat
  BY StoreGiven DEF StoreAssumption
<1>2. IsFiniteSet(others) /\ IsFiniteSet(targets)
  BY <1>1, FS_Subset
<1>3. /\ IsFiniteSet(others \cup targets)
      /\ Cardinality(others \cup targets) = Cardinality(others)
            + Cardinality(targets) - Cardinality(others \cap targets)
  BY <1>2, FS_Union
<1>4. IsFiniteSet(others \cap targets)
  BY <1>2, FS_Subset
<1>5. IsFiniteSet(held) /\ Cardinality(held) <= Cardinality(others \cup targets)
  BY <1>3, FS_Subset
<1>6. /\ Cardinality(others) \in Nat /\ Cardinality(targets) \in Nat
      /\ Cardinality(others \cap targets) \in Nat /\ Cardinality(held) \in Nat
  BY <1>2, <1>4, <1>5, FS_CardinalityType
<1> QED
  BY <1>1, <1>3, <1>5, <1>6

\* ActiveIPLimit is kept by every step.
LEMMA LimitStep == TypeOK /\ ActiveIPLimit /\ [Next]_vars => ActiveIPLimit'
<1> SUFFICES ASSUME TypeOK, ActiveIPLimit, [Next]_vars, NEW u \in Users
             PROVE  Cardinality(SelfServiceIPs(u, now)') <= MaxActiveIPs
  BY DEF ActiveIPLimit
<1>1. TypeOK' /\ RowsKept /\ NewRowsWithinLimit
  BY EveryStep DEF GoodStep
<1>2. /\ \A i \in DOMAIN grants : grants[i] \in Grant
      /\ \A i \in DOMAIN grants' : grants'[i] \in Grant
  BY <1>1, LenProperties, ElementOfSeq DEF TypeOK
\* Where an address of u comes from after the step.
<1>3. ASSUME NEW ip \in SelfServiceIPs(u, now)'
      PROVE  \/ ip \in SelfServiceIPs(u, now)
             \/ \E i \in DOMAIN grants' \ DOMAIN grants :
                   /\ grants'[i].user = u /\ grants'[i].ip = ip
                   /\ grants'[i].source # "admin_web"
  <2>1. PICK i \in DOMAIN grants' :
            /\ Active(grants'[i], now') /\ grants'[i].user = u
            /\ grants'[i].source # "admin_web" /\ ip = grants'[i].ip
    BY <1>3 DEF SelfServiceIPs, ActiveIds
  <2>2. CASE i \in DOMAIN grants
    BY <1>1, <2>1, <2>2 DEF RowsKept, SelfServiceIPs, ActiveIds
  <2>3. CASE i \notin DOMAIN grants
    BY <2>1, <2>3
  <2> QED
    BY <2>2, <2>3
<1>4. SelfServiceIPs(u, now) \subseteq IPs
  BY <1>2 DEF SelfServiceIPs, ActiveIds, Grant
<1>5. Cardinality(SelfServiceIPs(u, now)) <= MaxActiveIPs
  BY DEF ActiveIPLimit
\* No self-service row for u is new.
<1>6. CASE SelfServiceIPs(u, now)' \subseteq SelfServiceIPs(u, now)
  <2>1. IsFiniteSet({}) /\ Cardinality({}) = 0
    BY FS_EmptySet
  <2>2. IsFiniteSet(SelfServiceIPs(u, now))
    BY <1>4, FS_Subset, StoreGiven DEF StoreAssumption
  <2>3. Cardinality(SelfServiceIPs(u, now)) \in Nat
    BY <2>2, FS_CardinalityType
  <2> QED
    BY <1>4, <1>5, <1>6, <2>1, <2>3, LimitKept
\* A transaction limited at the time stamp t added addresses for u.
<1>7. ASSUME NEW targets \in SUBSET IPs, NEW t \in Stamps,
             WithinIPLimit(u, targets, t), RowsAddedOnlyFor(u, targets)
      PROVE  Cardinality(SelfServiceIPs(u, now)') <= MaxActiveIPs
  <2>1. t \in Nat /\ t <= now
    BY StampTime
  <2>2. SelfServiceIPs(u, now) \subseteq UserIPs(u, t)
    BY <1>2, <2>1 DEF SelfServiceIPs, UserIPs, ActiveIds, Active, Grant, TypeOK
  <2>3. SelfServiceIPs(u, now)' \subseteq (UserIPs(u, t) \ targets) \cup targets
    BY <1>3, <1>7, <2>2 DEF RowsAddedOnlyFor
  <2>4. UserIPs(u, t) \ targets \in SUBSET IPs
    BY <1>2 DEF UserIPs, ActiveIds, Grant
  <2> QED
    BY <1>7, <2>3, <2>4, LimitKept DEF WithinIPLimit
<1>8. CASE \A i \in DOMAIN grants' \ DOMAIN grants :
              grants'[i].source = "admin_web"
  BY <1>3, <1>6, <1>8
<1>9. CASE \E v \in Users, targets \in SUBSET IPs, t \in Stamps :
              WithinIPLimit(v, targets, t) /\ RowsAddedOnlyFor(v, targets)
  <2>1. PICK v \in Users, targets \in SUBSET IPs, t \in Stamps :
            WithinIPLimit(v, targets, t) /\ RowsAddedOnlyFor(v, targets)
    BY <1>9
  <2>2. CASE v = u
    BY <1>7, <2>1, <2>2
  <2>3. CASE v # u
    BY <1>3, <1>6, <2>1, <2>3 DEF RowsAddedOnlyFor
  <2> QED
    BY <2>2, <2>3
<1> QED
  BY <1>1, <1>8, <1>9 DEF NewRowsWithinLimit

\* ActiveIPLimit: no user ever holds more than MaxActiveIPs distinct active
\* addresses through commands and links, however old the clock readings are
\* and whatever the console does in between.
THEOREM LimitCorrect == Spec => []ActiveIPLimit
<1>1. Init => ActiveIPLimit
  <2> SUFFICES ASSUME Init, NEW u \in Users
               PROVE  Cardinality(SelfServiceIPs(u, now)) <= MaxActiveIPs
    BY DEF ActiveIPLimit
  <2>1. SelfServiceIPs(u, now) = {}
    BY DEF Init, SelfServiceIPs, ActiveIds
  <2> QED
    BY <2>1, FS_EmptySet, StoreGiven DEF StoreAssumption
<1> QED
  BY TypeCorrect, LimitStep, <1>1, PTL DEF Spec

-----------------------------------------------------------------------------
(* One-time links.                                                         *)

\* The grants that u obtained through links, and the links u consumed.
LinkRows(u) == {i \in DOMAIN grants :
    grants[i].user = u /\ grants[i].source = "feishu_link"}
UsedBy(u) == {tok \in authTokens : tok.used /\ Sender[tok.message] = u}

\* A link is known by its message and attempt: consuming it changes its row,
\* and so never makes two links one.
Distinct == \A a, b \in authTokens :
    a.message = b.message /\ a.attempt = b.attempt => a = b

\* The inductive invariant.
Backed == IsFiniteSet(authTokens) /\ Distinct /\ LinkGrantsBackedByTokens

\* Rows and links are finitely many.
LEMMA Finitely ==
    ASSUME TypeOK, IsFiniteSet(authTokens), NEW u
    PROVE  /\ IsFiniteSet(LinkRows(u)) /\ Cardinality(LinkRows(u)) \in Nat
           /\ IsFiniteSet(UsedBy(u)) /\ Cardinality(UsedBy(u)) \in Nat
<1>1. Len(grants) \in Nat /\ DOMAIN grants = 1..Len(grants)
  BY LenProperties DEF TypeOK
<1>2. IsFiniteSet(DOMAIN grants)
  BY <1>1, FS_Interval
<1>3. LinkRows(u) \subseteq DOMAIN grants /\ UsedBy(u) \subseteq authTokens
  BY DEF LinkRows, UsedBy
<1> QED
  BY <1>2, <1>3, FS_Subset, FS_CardinalityType

\* The bound is the one of the property.
LEMMA BackedIs ==
    LinkGrantsBackedByTokens <=>
        \A u \in Users : Cardinality(LinkRows(u)) <= 2 * Cardinality(UsedBy(u))
BY DEF LinkGrantsBackedByTokens, LinkRows, UsedBy

\* Steps that add no link grant and leave the links alone keep the bound.
LEMMA NoNewLinkRows ==
    ASSUME TypeOK, Backed, authTokens' = authTokens,
           \A u \in Users : LinkRows(u)' \subseteq LinkRows(u)
    PROVE  Backed'
<1>1. ASSUME NEW u \in Users
      PROVE  Cardinality(LinkRows(u)') <= 2 * Cardinality(UsedBy(u)')
  <2>1. UsedBy(u)' = UsedBy(u)
    BY DEF UsedBy
  <2>2. /\ Cardinality(LinkRows(u)') \in Nat
        /\ Cardinality(LinkRows(u)') <= Cardinality(LinkRows(u))
    BY <1>1, Finitely, FS_Subset, FS_CardinalityType DEF Backed
  <2> QED
    BY <1>1, <2>1, <2>2, Finitely, BackedIs DEF Backed
<1>2. LinkGrantsBackedByTokens'
  BY <1>1 DEF LinkGrantsBackedByTokens, LinkRows, UsedBy
<1> QED
  BY <1>2 DEF Backed, Distinct

\* NewLink takes a free attempt of its message.
LEMMA NewLinkBacked ==
    ASSUME TypeOK, Backed, NEW m \in Messages, NEW t \in Stamps, NewLink(m, t)
    PROVE  Backed'
<1>1. PICK a \in Attempts :
         /\ \A tok \in authTokens : tok.message = m => tok.attempt # a
         /\ authTokens' = authTokens \cup
              {[message |-> m, attempt |-> a, expiresAt |-> t + LinkTTL, used |-> FALSE]}
         /\ grants' = grants
  BY DEF NewLink
<1>2. IsFiniteSet(authTokens')
  BY <1>1, FS_AddElement DEF Backed
<1>3. Distinct'
  <2> DEFINE link == [message |-> m, attempt |-> a, expiresAt |-> t + LinkTTL, used |-> FALSE]
  <2>1. link.message = m /\ link.attempt = a /\ authTokens' = authTokens \cup {link}
    BY <1>1
  <2> HIDE DEF link
  <2> QED
    BY <1>1, <2>1 DEF Distinct, Backed
<1>4. ASSUME NEW u \in Users PROVE UsedBy(u)' = UsedBy(u) /\ LinkRows(u)' = LinkRows(u)
  BY <1>1 DEF UsedBy, LinkRows
<1>5. LinkGrantsBackedByTokens'
  BY <1>4 DEF Backed, LinkGrantsBackedByTokens, LinkRows, UsedBy
<1> QED
  BY <1>2, <1>3, <1>5 DEF Backed

\* ConsumeTokenIPs adds one used link, which was not among them, and at most
\* two grants.
LEMMA ConsumeBacked ==
    ASSUME TypeOK, Backed, NEW tok \in authTokens, NEW ips \in TargetLists,
           NEW t \in Stamps, ConsumeTokenIPs(tok, ips, t)
    PROVE  Backed'
<1> DEFINE u0   == Sender[tok.message]
           done == [tok EXCEPT !.used = TRUE]
           rows == [k \in 1..Len(ips) |-> Row(u0, ips[k], "feishu_link", t + DefaultTTL)]
<1>1. /\ ~tok.used
      /\ authTokens' = (authTokens \ {tok}) \cup {done}
      /\ grants' = grants \o rows
  BY DEF ConsumeTokenIPs, TokenValid
<1>2. tok \in Token
  BY DEF TypeOK
<1>3. done.message = tok.message /\ done.attempt = tok.attempt /\ done.used
  BY <1>2 DEF Token
<1>4. Len(ips) \in {1, 2}
  BY DEF TargetLists
<1>5. /\ Len(grants) \in Nat /\ DOMAIN grants = 1..Len(grants)
      /\ grants \in Seq(Grant)
  BY LenProperties DEF TypeOK
<1>6. /\ rows \in Seq({rows[k] : k \in 1..Len(ips)})
      /\ Len(rows) = Len(ips) /\ DOMAIN rows = 1..Len(ips)
  BY <1>4, FunctionIsSeq
<1>7. /\ DOMAIN grants' = 1..(Len(grants) + Len(ips))
      /\ \A i \in DOMAIN grants : grants'[i] = grants[i]
      /\ \A i \in DOMAIN grants' \ DOMAIN grants :
            grants'[i] = rows[i - Len(grants)] /\ i - Len(grants) \in 1..Len(ips)
  BY <1>1, <1>4, <1>5, <1>6
<1>8. \A i \in DOMAIN grants' \ DOMAIN grants : grants'[i].user = u0
  <2>1. \A k \in 1..Len(ips) : rows[k].user = u0
    BY DEF Row
  <2> HIDE DEF rows, u0
  <2> QED
    BY <1>7, <2>1
<1>9. DOMAIN grants' \ DOMAIN grants \subseteq {Len(grants) + 1, Len(grants) + 2}
  <2>1. \A n \in Nat : \A l \in {1, 2} : \A i \in 1..(n + l) :
            i \in 1..n \/ i = n + 1 \/ i = n + 2
    OBVIOUS
  <2> QED
    BY <1>4, <1>5, <1>7, <2>1
<1> HIDE DEF u0, done, rows
<1>10. IsFiniteSet(authTokens')
  <2>1. IsFiniteSet(authTokens \ {tok})
    BY FS_RemoveElement DEF Backed
  <2> QED
    BY <1>1, <2>1, FS_AddElement
<1>11. Distinct'
  BY <1>1, <1>3 DEF Distinct, Backed
<1>12. done \notin authTokens
  BY <1>1, <1>3 DEF Distinct, Backed
<1>13. ASSUME NEW u \in Users
       PROVE  Cardinality(LinkRows(u)') <= 2 * Cardinality(UsedBy(u)')
  <2>1. CASE u = u0
    <3>1. LinkRows(u)' \subseteq (LinkRows(u) \cup {Len(grants) + 1}) \cup {Len(grants) + 2}
      BY <1>7, <1>9 DEF LinkRows
    <3>2. /\ Cardinality(LinkRows(u)') \in Nat
          /\ Cardinality(LinkRows(u)') <= Cardinality(LinkRows(u)) + 2
      <4> DEFINE one == LinkRows(u) \cup {Len(grants) + 1}
                 two == one \cup {Len(grants) + 2}
      <4>1. IsFiniteSet(LinkRows(u)) /\ Cardinality(LinkRows(u)) \in Nat
        BY Finitely DEF Backed
      <4>2. /\ IsFiniteSet(one) /\ Cardinality(one) \in Nat
            /\ Cardinality(one) <= Cardinality(LinkRows(u)) + 1
        <5>1. Cardinality(one) = IF Len(grants) + 1 \in LinkRows(u)
                                 THEN Cardinality(LinkRows(u)) ELSE Cardinality(LinkRows(u)) + 1
          BY <4>1, FS_AddElement
        <5>2. IsFiniteSet(one)
          BY <4>1, FS_AddElement
        <5> HIDE DEF one
        <5> QED
          BY <4>1, <5>1, <5>2
      <4> HIDE DEF one
      <4>3. /\ IsFiniteSet(two) /\ Cardinality(two) \in Nat
            /\ Cardinality(two) <= Cardinality(LinkRows(u)) + 2
        <5>1. Cardinality(two) = IF Len(grants) + 2 \in one
                                 THEN Cardinality(one) ELSE Cardinality(one) + 1
          BY <4>2, FS_AddElement
        <5>2. IsFiniteSet(two)
          BY <4>2, FS_AddElement
        <5> HIDE DEF two
        <5> QED
          BY <4>1, <4>2, <5>1, <5>2
      <4>4. LinkRows(u)' \subseteq two
        BY <3>1 DEF one
      <4> HIDE DEF two
      <4>5. Cardinality(LinkRows(u)') \in Nat /\ Cardinality(LinkRows(u)') <= Cardinality(two)
        BY <4>3, <4>4, FS_Subset, FS_CardinalityType
      <4> QED
        BY <4>1, <4>3, <4>5
    <3>3. UsedBy(u)' = UsedBy(u) \cup {done} /\ done \notin UsedBy(u)
      BY <1>1, <1>3, <1>12, <2>1 DEF UsedBy, u0
    <3>4. Cardinality(UsedBy(u)') = Cardinality(UsedBy(u)) + 1
      BY <3>3, Finitely, FS_AddElement DEF Backed
    <3> QED
      BY <1>13, <3>2, <3>4, Finitely, BackedIs DEF Backed
  <2>2. CASE u # u0
    <3>1. LinkRows(u)' = LinkRows(u)
      BY <1>5, <1>7, <1>8, <2>2 DEF LinkRows
    <3>2. UsedBy(u)' = UsedBy(u)
      BY <1>1, <1>3, <2>2 DEF UsedBy, u0
    <3> QED
      BY <1>13, <3>1, <3>2, BackedIs DEF Backed
  <2> QED
    BY <2>1, <2>2
<1>14. LinkGrantsBackedByTokens'
  BY <1>13 DEF LinkGrantsBackedByTokens, LinkRows, UsedBy
<1> QED
  BY <1>10, <1>11, <1>14 DEF Backed

\* All other transactions leave the links alone and add no link grant.
LEMMA OthersBacked ==
    ASSUME TypeOK, Backed,
           \/ \E u \in Users, ip \in IPs, ttl \in TTLs, t \in Stamps :
                 AddGrantLimited(u, ip, ttl, t) \/ CreateAdminGrant(u, ip, ttl, t)
           \/ \E u \in Users, ip \in IPs, t \in Stamps : RevokeUserIP(u, ip, t)
           \/ \E id \in DOMAIN grants, ttl \in TTLs, t \in Stamps :
                 ExtendAdminGrant(id, ttl, t)
           \/ \E id \in DOMAIN grants : RevokeAdminGrant(id)
           \/ UNCHANGED <<grants, authTokens>>
    PROVE  Backed'
<1>0. /\ Len(grants) \in Nat /\ DOMAIN grants = 1..Len(grants)
      /\ grants \in Seq(Grant) /\ \A i \in DOMAIN grants : grants[i] \in Grant
  BY LenProperties, ElementOfSeq DEF TypeOK
<1>1. ASSUME NEW g \in Grant, g.source # "feishu_link",
             grants' = Append(grants, g), authTokens' = authTokens, now' = now
      PROVE  Backed'
  <2>1. RowsKept /\ \A i \in DOMAIN grants' \ DOMAIN grants : grants'[i] = g
    BY <1>1, AppendedRow
  <2>2. \A v \in Users : LinkRows(v)' \subseteq LinkRows(v)
    BY <1>1, <2>1 DEF LinkRows, RowsKept
  <2> QED
    BY <1>1, <2>2, NoNewLinkRows
<1>2. ASSUME /\ DOMAIN grants' = DOMAIN grants
             /\ \A i \in DOMAIN grants :
                   grants'[i].user = grants[i].user /\ grants'[i].source = grants[i].source
             /\ authTokens' = authTokens
      PROVE  Backed'
  BY <1>2, NoNewLinkRows DEF LinkRows
<1>3. ASSUME NEW u \in Users, NEW ip \in IPs, NEW ttl \in TTLs, NEW t \in Stamps,
             AddGrantLimited(u, ip, ttl, t) \/ CreateAdminGrant(u, ip, ttl, t)
      PROVE  Backed'
  <2>1. \A source \in Sources : /\ Row(u, ip, source, t + ttl) \in Grant
                                /\ Row(u, ip, source, t + ttl).source = source
    BY <1>3, StampTime, StoreGiven DEF Row, Grant, Sources, StoreAssumption
  <2>2. \E source \in Sources \ {"feishu_link"} :
            grants' = Append(grants, Row(u, ip, source, t + ttl))
    BY <1>3 DEF AddGrantLimited, CreateAdminGrant, Sources
  <2>3. authTokens' = authTokens /\ now' = now
    BY <1>3 DEF AddGrantLimited, CreateAdminGrant
  <2> QED
    BY <1>1, <2>1, <2>2, <2>3
<1>4. ASSUME NEW u \in Users, NEW ip \in IPs, NEW t \in Stamps, RevokeUserIP(u, ip, t)
      PROVE  Backed'
  BY <1>0, <1>2, <1>4 DEF RevokeUserIP, Grant
<1>5. ASSUME NEW id \in DOMAIN grants, NEW ttl, NEW t, ExtendAdminGrant(id, ttl, t)
      PROVE  Backed'
  BY <1>0, <1>2, <1>5 DEF ExtendAdminGrant, Grant
<1>6. ASSUME NEW id \in DOMAIN grants, RevokeAdminGrant(id) PROVE Backed'
  BY <1>0, <1>2, <1>6 DEF RevokeAdminGrant, Grant
<1>7. UNCHANGED <<grants, authTokens>> => Backed'
  BY <1>2
<1> QED
  BY <1>3, <1>4, <1>5, <1>6, <1>7

\* LinkGrantsBackedByTokens: however often a link is submitted, and with
\* whatever clock, it yields one batch of one or two grants (ConsumeTokenIPs).
THEOREM LinksCorrect == Spec => []LinkGrantsBackedByTokens
<1>1. Init => Backed
  <2> SUFFICES ASSUME Init PROVE Backed
    OBVIOUS
  <2>1. authTokens = {} /\ \A u : LinkRows(u) = {} /\ UsedBy(u) = {}
    BY DEF Init, LinkRows, UsedBy
  <2>2. \A u \in Users : Cardinality(LinkRows(u)) <= 2 * Cardinality(UsedBy(u))
    BY <2>1, FS_EmptySet
  <2> QED
    BY <2>1, <2>2, FS_EmptySet, BackedIs DEF Backed, Distinct
<1>2. TypeOK /\ Backed /\ [Next]_vars => Backed'
  <2> SUFFICES ASSUME TypeOK, Backed, [Next]_vars PROVE Backed'
    OBVIOUS
  <2>1. UNCHANGED <<grants, authTokens>> => Backed'
    BY OthersBacked
  <2>2. (\E a \in DOMAIN adminAudit, r \in {"synced", "sync_failed"} :
              SetAdminAuditResult(a, r))
        \/ (\E ip \in IPs : ForgetManagedIP(ip)) \/ Tick \/ UNCHANGED vars
        => Backed'
    BY <2>1 DEF SetAdminAuditResult, ForgetManagedIP, Tick, vars
  <2> QED
    BY <2>2, NewLinkBacked, ConsumeBacked, OthersBacked DEF Next
<1> QED
  BY <1>1, <1>2, TypeCorrect, PTL DEF Spec, Backed

=============================================================================
