--------------------------- MODULE AttributionProofs ---------------------------
(***************************************************************************)
(* Proofs about Attribution, for every value of its constants:             *)
(*   TypeCorrect      the type invariant;                                  *)
(*   OwnersCorrect    whoever is shown as an exact owner held the address; *)
(*   HistoryCorrect   later grants and extensions do not change the        *)
(*                    exact owners of old records.                         *)
(* The first rests on the proof that the store keeps its types. The others *)
(* rest on the stamps: a new row covers an older record only while the     *)
(* record is no older than the stamp may be, and an extension finds its    *)
(* grant active now, so that it covered the record before.                 *)
(***************************************************************************)
EXTENDS Attribution, SequenceTheorems, TLAPS

Proved == INSTANCE GrantStoreProofs

-----------------------------------------------------------------------------
(* The transactions.                                                       *)

\* Every step is a transaction of the store or leaves it alone.
LEMMA StepsOfStore == [Next]_vars => [Store!Next]_storeVars
<1> SUFFICES ASSUME [Next]_vars PROVE [Store!Next]_storeVars
  OBVIOUS
<1>1. Grant => Store!Next
  BY DEF Grant, Store!Next
<1>2. Link \/ Extend \/ Revoke \/ Tick => Store!Next
  BY DEF Link, Extend, Revoke, Tick, Store!Next
<1>3. (\E ip \in IPs : Request(ip)) => UNCHANGED storeVars
  BY DEF Request
<1> QED
  BY <1>1, <1>2, <1>3 DEF Next, vars

\* The instance whose proofs are used is the store.
LEMMA SameStore ==
    /\ Proved!StoreAssumption
    /\ Store!Init => Proved!Init
    /\ [Store!Next]_storeVars => [Proved!Next]_Proved!vars
    /\ Store!TypeOK <=> Proved!TypeOK
<1>1. Proved!StoreAssumption
  BY AttributionGiven
  DEF AttributionAssumption, Store!StoreAssumption, Proved!StoreAssumption,
      Store!IsFiniteSet, Proved!IsFiniteSet
<1>2. Store!Init => Proved!Init
  BY DEF Store!Init, Proved!Init
<1>3. [Store!Next]_storeVars => [Proved!Next]_Proved!vars
  BY Zenon
  DEF Store!Next, Proved!Next, storeVars, Proved!vars, Store!Stamps,
      Proved!Stamps, Store!NewLink, Proved!NewLink, Store!Attempts,
      Proved!Attempts, Store!ConsumeTokenIPs, Proved!ConsumeTokenIPs,
      Store!TokenValid, Proved!TokenValid, Store!WithinIPLimit,
      Proved!WithinIPLimit, Store!UserIPs, Proved!UserIPs, Store!ActiveIds,
      Proved!ActiveIds, Store!Active, Proved!Active, Store!Row, Proved!Row,
      Store!TargetLists, Proved!TargetLists, Store!AddGrantLimited,
      Proved!AddGrantLimited, Store!RevokeUserIP, Proved!RevokeUserIP,
      Store!CreateAdminGrant, Proved!CreateAdminGrant, Store!AuditRow,
      Proved!AuditRow, Store!ExtendAdminGrant, Proved!ExtendAdminGrant,
      Store!Mutable, Proved!Mutable, Store!RevokeAdminGrant,
      Proved!RevokeAdminGrant, Store!SetAdminAuditResult,
      Proved!SetAdminAuditResult, Store!ForgetManagedIP,
      Proved!ForgetManagedIP, Store!Tick, Proved!Tick, Store!Cardinality,
      Proved!Cardinality, Store!IsFiniteSet, Proved!IsFiniteSet
<1>4. Store!TypeOK <=> Proved!TypeOK
  BY Zenon
  DEF Store!TypeOK, Proved!TypeOK, Store!Grant, Proved!Grant, Store!Sources,
      Proved!Sources, Store!Token, Proved!Token, Store!Attempts,
      Proved!Attempts, Store!Audit, Proved!Audit
<1> QED
  BY <1>1, <1>2, <1>3, <1>4

\* The store keeps its types, its rows, and their users and addresses.
LEMMA StoreKept ==
    ASSUME Store!TypeOK, [Next]_vars
    PROVE  /\ Store!TypeOK'
           /\ \A i \in DOMAIN grants :
                 /\ i \in DOMAIN grants'
                 /\ grants'[i].user = grants[i].user
                 /\ grants'[i].ip = grants[i].ip
<1>1. Proved!GoodStep
  BY StepsOfStore, SameStore, Proved!EveryStep
<1>2. (Store!TypeOK <=> Proved!TypeOK)'
  BY SameStore, PTL
<1> QED
  BY <1>1, <1>2 DEF Proved!GoodStep, Proved!RowsKept

\* The rows of grants are numbered, and of their types.
LEMMA RowTypes ==
    ASSUME Store!TypeOK
    PROVE  /\ Len(grants) \in Nat /\ DOMAIN grants = 1..Len(grants)
           /\ grants \in Seq(Store!Grant)
           /\ \A i \in DOMAIN grants :
                 /\ grants[i].user \in Users /\ grants[i].ip \in IPs
                 /\ grants[i].expireAt \in Nat /\ grants[i].revoked \in BOOLEAN
           /\ now \in Nat
<1>1. grants \in Seq(Store!Grant) /\ now \in Nat
  BY DEF Store!TypeOK
<1>2. /\ Len(grants) \in Nat /\ DOMAIN grants = 1..Len(grants)
      /\ \A i \in DOMAIN grants : grants[i] \in Store!Grant
  BY <1>1, LenProperties, ElementOfSeq
<1> QED
  BY <1>1, <1>2 DEF Store!Grant

\* Sequences with the same domain are of the same length.
LEMMA SameLength ==
    ASSUME NEW a \in Nat, NEW b \in Nat, 1..a = 1..b
    PROVE  a = b
<1>1. a \in 1..b \/ a = 0
  OBVIOUS
<1>2. b \in 1..a \/ b = 0
  OBVIOUS
<1> QED
  BY <1>1, <1>2

\* The types of the rows that a step leaves.
LEMMA RowTypesNext ==
    ASSUME Store!TypeOK'
    PROVE  /\ Len(grants') \in Nat /\ DOMAIN grants' = 1..Len(grants')
           /\ \A i \in DOMAIN grants' :
                 grants'[i].user \in Users /\ grants'[i].expireAt \in Nat
<1>1. grants' \in Seq(Store!Grant)
  BY DEF Store!TypeOK
<1>2. /\ Len(grants') \in Nat /\ DOMAIN grants' = 1..Len(grants')
      /\ \A i \in DOMAIN grants' : grants'[i] \in Store!Grant
  BY <1>1, LenProperties, ElementOfSeq
<1> QED
  BY <1>2 DEF Store!Grant

\* A transaction that gives grants adds rows behind those there are, and
\* stamps them with a clock that is at most MaxLag old.
LEMMA GrantRows ==
    ASSUME TypeOK, Grant
    PROVE  \E t \in Nat :
              /\ t <= now /\ now <= t + MaxLag
              /\ \A i \in DOMAIN grants :
                    /\ i \in DOMAIN grants' /\ grants'[i] = grants[i]
                    /\ createdAt'[i] = createdAt[i]
              /\ \A i \in DOMAIN grants' \ DOMAIN grants : createdAt'[i] = t
              /\ createdAt' \in [DOMAIN grants' -> Nat]
              /\ now' = now
<1>1. PICK t \in Store!Stamps :
         /\ \/ \E tok \in authTokens, ips \in Store!TargetLists :
                  Store!ConsumeTokenIPs(tok, ips, t)
            \/ \E u \in Users, ip \in IPs, ttl \in TTLs :
                  \/ Store!AddGrantLimited(u, ip, ttl, t)
                  \/ Store!CreateAdminGrant(u, ip, ttl, t)
         /\ createdAt' = [i \in DOMAIN grants' |->
               IF i \in DOMAIN grants THEN createdAt[i] ELSE t]
  BY DEF Grant
<1>2. Store!TypeOK /\ createdAt \in Seq(Nat) /\ Len(createdAt) = Len(grants)
  BY DEF TypeOK
<1>3. /\ Len(grants) \in Nat /\ DOMAIN grants = 1..Len(grants)
      /\ grants \in Seq(Store!Grant) /\ now \in Nat
  BY <1>2, RowTypes
<1>4. MaxLag \in Nat
  BY AttributionGiven DEF AttributionAssumption, Store!StoreAssumption
<1>5. t \in Nat /\ t <= now /\ now <= t + MaxLag
  BY <1>3, <1>4 DEF Store!Stamps
<1>6. /\ \A i \in DOMAIN grants : i \in DOMAIN grants' /\ grants'[i] = grants[i]
      /\ now' = now
  <2>1. ASSUME NEW tok, NEW ips \in Store!TargetLists, Store!ConsumeTokenIPs(tok, ips, t)
        PROVE  /\ \A i \in DOMAIN grants : i \in DOMAIN grants' /\ grants'[i] = grants[i]
               /\ now' = now
    <3> DEFINE row(k) == Store!Row(Sender[tok.message], ips[k], "feishu_link", t + DefaultTTL)
               batch == [k \in 1..Len(ips) |-> row(k)]
    <3>1. Len(ips) \in Nat
      BY <2>1 DEF Store!TargetLists
    <3>2. grants' = grants \o batch /\ now' = now
      BY <2>1 DEF Store!ConsumeTokenIPs
    <3> HIDE DEF row
    <3>3. batch \in [1..Len(ips) -> {row(k) : k \in 1..Len(ips)}]
      OBVIOUS
    <3>4. batch \in Seq({row(k) : k \in 1..Len(ips)})
      BY <3>1, <3>3, SameStore, Proved!FunctionIsSeq
    <3> HIDE DEF batch
    <3> QED
      BY <1>3, <3>2, <3>4
  <2>2. ASSUME NEW row, grants' = Append(grants, row)
        PROVE  \A i \in DOMAIN grants : i \in DOMAIN grants' /\ grants'[i] = grants[i]
    BY <1>3, <2>2
  <2>3. ASSUME NEW u, NEW ip, NEW ttl,
               Store!AddGrantLimited(u, ip, ttl, t) \/ Store!CreateAdminGrant(u, ip, ttl, t)
        PROVE  /\ \A i \in DOMAIN grants : i \in DOMAIN grants' /\ grants'[i] = grants[i]
               /\ now' = now
    BY <2>2, <2>3 DEF Store!AddGrantLimited, Store!CreateAdminGrant
  <2> QED
    BY <1>1, <2>1, <2>3
<1>7. \A i \in DOMAIN grants : createdAt[i] \in Nat
  BY <1>2, <1>3, LenProperties, ElementOfSeq
<1>8. createdAt' \in [DOMAIN grants' -> Nat]
  BY <1>1, <1>5, <1>7
<1>9. /\ \A i \in DOMAIN grants : createdAt'[i] = createdAt[i]
      /\ \A i \in DOMAIN grants' \ DOMAIN grants : createdAt'[i] = t
  BY <1>1, <1>6
<1> QED
  BY <1>5, <1>6, <1>8, <1>9

\* An extension moves the expiry of one grant that is active now, to behind
\* its stamp.
LEMMA ExtendRows ==
    ASSUME TypeOK, Extend
    PROVE  \E id \in DOMAIN grants, t \in Nat :
              /\ t <= now /\ now <= t + MaxLag
              /\ ~grants[id].revoked /\ grants[id].expireAt > now
              /\ DOMAIN grants' = DOMAIN grants
              /\ \A i \in DOMAIN grants \ {id} : grants'[i] = grants[i]
              /\ ~grants'[id].revoked /\ grants'[id].expireAt > t
              /\ createdAt' = createdAt /\ now' = now
<1>1. PICK id \in DOMAIN grants, ttl \in TTLs, t \in Store!Stamps :
         Store!ExtendAdminGrant(id, ttl, t)
  BY DEF Extend
<1>2. /\ DOMAIN grants = 1..Len(grants) /\ grants \in Seq(Store!Grant) /\ now \in Nat
      /\ grants[id] \in Store!Grant
  BY RowTypes, ElementOfSeq DEF TypeOK
<1>3. MaxLag \in Nat /\ ttl \in Nat \ {0}
  BY AttributionGiven DEF AttributionAssumption, Store!StoreAssumption
<1>4. t \in Nat /\ t <= now /\ now <= t + MaxLag
  BY <1>2, <1>3 DEF Store!Stamps
<1>5. ~grants[id].revoked /\ grants[id].expireAt > now
  BY <1>1 DEF Store!ExtendAdminGrant, Store!Mutable, Store!Active
<1>6. /\ grants' = [grants EXCEPT ![id].expireAt = t + ttl]
      /\ now' = now /\ createdAt' = createdAt
  BY <1>1 DEF Store!ExtendAdminGrant, Extend
<1>7. /\ DOMAIN grants' = DOMAIN grants
      /\ \A i \in DOMAIN grants \ {id} : grants'[i] = grants[i]
      /\ grants'[id].expireAt = t + ttl /\ grants'[id].revoked = grants[id].revoked
  BY <1>2, <1>6 DEF Store!Grant
<1> QED
  BY <1>3, <1>4, <1>5, <1>6, <1>7

\* A revocation revokes, and does nothing else.
LEMMA RevokeRows ==
    ASSUME TypeOK, Revoke
    PROVE  /\ DOMAIN grants' = DOMAIN grants
           /\ \A i \in DOMAIN grants :
                 /\ grants'[i].expireAt = grants[i].expireAt
                 /\ grants[i].revoked => grants'[i].revoked
           /\ createdAt' = createdAt /\ now' = now
<1>1. \A i \in DOMAIN grants : grants[i] \in Store!Grant
  BY RowTypes, ElementOfSeq DEF TypeOK
<1>2. createdAt' = createdAt
  BY DEF Revoke
<1>3. ASSUME NEW u \in Users, NEW ip \in IPs, NEW t \in Store!Stamps,
             Store!RevokeUserIP(u, ip, t)
      PROVE  /\ DOMAIN grants' = DOMAIN grants /\ now' = now
             /\ \A i \in DOMAIN grants :
                   /\ grants'[i].expireAt = grants[i].expireAt
                   /\ grants[i].revoked => grants'[i].revoked
  BY <1>1, <1>3 DEF Store!RevokeUserIP, Store!Grant
<1>4. ASSUME NEW id \in DOMAIN grants, Store!RevokeAdminGrant(id)
      PROVE  /\ DOMAIN grants' = DOMAIN grants /\ now' = now
             /\ \A i \in DOMAIN grants :
                   /\ grants'[i].expireAt = grants[i].expireAt
                   /\ grants[i].revoked => grants'[i].revoked
  BY <1>1, <1>4 DEF Store!RevokeAdminGrant, Store!Grant
<1> QED
  BY <1>2, <1>3, <1>4 DEF Revoke

-----------------------------------------------------------------------------
(* The invariant.                                                          *)

\* Records are of the past.
RecordsPast == \A k \in DOMAIN records : records[k].time <= now

\* Whoever a page would show as exact owner has been noted as a holder.
ExactWereHeld ==
    \A k \in DOMAIN records, i \in DOMAIN grants :
        grants[i].ip = records[k].ip /\ Covers(i, records[k])
            => grants[i].user \in held[k]

\* Whoever was noted has, or had, a grant of the address.
HoldersWereGranted ==
    \A k \in DOMAIN records : \A u \in held[k] :
        \E i \in DOMAIN grants : grants[i].ip = records[k].ip /\ grants[i].user = u

\* The inductive invariant.
Attributed == TypeOK /\ RecordsPast /\ ExactWereHeld /\ HoldersWereGranted

\* Records and what was noted of them are numbered alike.
LEMMA RecordTypes ==
    ASSUME TypeOK
    PROVE  /\ Len(records) \in Nat /\ Len(createdAt) = Len(grants)
           /\ DOMAIN records = 1..Len(records) /\ DOMAIN held = DOMAIN records
           /\ DOMAIN createdAt = DOMAIN grants
           /\ \A i \in DOMAIN grants : createdAt[i] \in Nat
           /\ \A k \in DOMAIN records :
                 /\ records[k].ip \in IPs /\ records[k].time \in Nat
                 /\ held[k] \in SUBSET Users
           /\ MaxLag \in Nat
<1>1. /\ createdAt \in Seq(Nat) /\ Len(createdAt) = Len(grants)
      /\ records \in Seq(Record) /\ held \in Seq(SUBSET Users) /\ Len(held) = Len(records)
      /\ grants \in Seq(Store!Grant)
  BY RowTypes DEF TypeOK
<1>2. /\ Len(records) \in Nat /\ DOMAIN records = 1..Len(records)
      /\ DOMAIN held = 1..Len(held) /\ DOMAIN createdAt = 1..Len(createdAt)
      /\ DOMAIN grants = 1..Len(grants)
  BY <1>1, LenProperties
<1>3. \A k \in DOMAIN records : records[k] \in Record /\ held[k] \in SUBSET Users
  BY <1>1, <1>2, ElementOfSeq
<1>4. \A i \in DOMAIN createdAt : createdAt[i] \in Nat
  BY <1>1, <1>2, ElementOfSeq
<1>5. MaxLag \in Nat
  BY AttributionGiven DEF AttributionAssumption, Store!StoreAssumption
<1> QED
  BY <1>1, <1>2, <1>3, <1>4, <1>5 DEF Record

\* What Watch notes: all that was noted before, and nobody but users with a
\* grant of the address; as long as transactions of that time may run, also
\* every user with a grant that the record falls into.
LEMMA WatchNotes ==
    ASSUME TypeOK, Store!TypeOK', Watch, records' = records
    PROVE  /\ held' \in Seq(SUBSET Users) /\ Len(held') = Len(records)
           /\ \A k \in DOMAIN records :
                 /\ held[k] \subseteq held'[k]
                 /\ \A u \in held'[k] \ held[k] :
                       \E i \in DOMAIN grants' :
                           grants'[i].ip = records[k].ip /\ grants'[i].user = u
                 /\ now' <= records[k].time + MaxLag =>
                       \A i \in DOMAIN grants' :
                           /\ grants'[i].ip = records[k].ip /\ ~grants'[i].revoked
                           /\ grants'[i].expireAt > records[k].time
                           => grants'[i].user \in held'[k]
<1> DEFINE holders(k) == {grants'[i].user : i \in {j \in DOMAIN grants' :
                             /\ ~grants'[j].revoked /\ grants'[j].expireAt > records[k].time
                             /\ grants'[j].ip = records[k].ip}}
           note(k) == IF now' <= records[k].time + MaxLag
                      THEN held[k] \cup holders(k) ELSE held[k]
<1>1. held' = [k \in DOMAIN records |-> note(k)]
  BY DEF Watch, Holders, Store!ListActiveByIP, Store!ActiveIds, Store!Active
<1>2. \A k \in DOMAIN records : holders(k) \in SUBSET Users
  BY RowTypesNext
<1>3. \A k \in DOMAIN records : note(k) \in SUBSET Users
  <2> HIDE DEF holders
  <2> QED
    BY <1>2, RecordTypes
<1>4. \A k \in DOMAIN records : held'[k] = note(k)
  BY <1>1
<1>5. held' \in Seq(SUBSET Users) /\ Len(held') = Len(records)
  <2>1. held' \in [1..Len(records) -> SUBSET Users]
    BY <1>1, <1>3, RecordTypes
  <2> QED
    BY <2>1, RecordTypes, SameStore, Proved!FunctionIsSeq
<1>6. ASSUME NEW k \in DOMAIN records
      PROVE  /\ held[k] \subseteq held'[k]
             /\ \A u \in held'[k] \ held[k] :
                   \E i \in DOMAIN grants' :
                       grants'[i].ip = records[k].ip /\ grants'[i].user = u
             /\ now' <= records[k].time + MaxLag =>
                   \A i \in DOMAIN grants' :
                       /\ grants'[i].ip = records[k].ip /\ ~grants'[i].revoked
                       /\ grants'[i].expireAt > records[k].time
                       => grants'[i].user \in held'[k]
  <2>1. \A u \in holders(k) : \E i \in DOMAIN grants' :
            grants'[i].ip = records[k].ip /\ grants'[i].user = u
    OBVIOUS
  <2>2. \A i \in DOMAIN grants' :
            /\ grants'[i].ip = records[k].ip /\ ~grants'[i].revoked
            /\ grants'[i].expireAt > records[k].time
            => grants'[i].user \in holders(k)
    OBVIOUS
  <2> HIDE DEF holders
  <2>3. held'[k] = note(k)
    BY <1>4
  <2>4. CASE now' <= records[k].time + MaxLag
    BY <2>1, <2>2, <2>3, <2>4
  <2>5. CASE ~(now' <= records[k].time + MaxLag)
    BY <2>3, <2>5
  <2> QED
    BY <2>4, <2>5
<1> QED
  BY <1>5, <1>6

\* The steps on grants: whoever covers a record after the step did before, or
\* is noted by Watch.
LEMMA WatchedStep ==
    ASSUME Attributed, Store!TypeOK', Watch, records' = records, [Next]_vars,
           createdAt' \in Seq(Nat), Len(createdAt') = Len(grants'),
           now' \in Nat, now' >= now,
           \A k \in DOMAIN records, i \in DOMAIN grants' :
               /\ ~grants'[i].revoked /\ createdAt'[i] <= records[k].time
               /\ records[k].time < grants'[i].expireAt
               => \/ i \in DOMAIN grants /\ Covers(i, records[k])
                  \/ now' <= records[k].time + MaxLag
    PROVE  Attributed'
<1>1. /\ held' \in Seq(SUBSET Users) /\ Len(held') = Len(records)
      /\ \A k \in DOMAIN records :
            /\ held[k] \subseteq held'[k]
            /\ \A u \in held'[k] \ held[k] :
                  \E i \in DOMAIN grants' :
                      grants'[i].ip = records[k].ip /\ grants'[i].user = u
            /\ now' <= records[k].time + MaxLag =>
                  \A i \in DOMAIN grants' :
                      /\ grants'[i].ip = records[k].ip /\ ~grants'[i].revoked
                      /\ grants'[i].expireAt > records[k].time
                      => grants'[i].user \in held'[k]
  BY WatchNotes DEF Attributed
<1>2. \A i \in DOMAIN grants : /\ i \in DOMAIN grants'
                               /\ grants'[i].user = grants[i].user
                               /\ grants'[i].ip = grants[i].ip
  BY StoreKept DEF Attributed, TypeOK
<1>3. TypeOK'
  BY <1>1 DEF Attributed, TypeOK
<1>4. RecordsPast'
  BY RecordTypes, RowTypes DEF Attributed, RecordsPast, TypeOK
<1>5. ExactWereHeld'
  <2> SUFFICES ASSUME NEW k \in DOMAIN records, NEW i \in DOMAIN grants',
                      grants'[i].ip = records[k].ip,
                      ~grants'[i].revoked, createdAt'[i] <= records[k].time,
                      records[k].time < grants'[i].expireAt
               PROVE  grants'[i].user \in held'[k]
    BY DEF ExactWereHeld, Covers
  <2>1. CASE i \in DOMAIN grants /\ Covers(i, records[k])
    BY <1>1, <1>2, <2>1 DEF Attributed, ExactWereHeld
  <2>2. CASE now' <= records[k].time + MaxLag
    <3>1. records[k].time \in Nat /\ grants'[i].expireAt \in Nat
      BY RowTypesNext, RecordTypes DEF Attributed
    <3> QED
      BY <1>1, <2>2, <3>1
  <2> QED
    BY <2>1, <2>2
<1>6. HoldersWereGranted'
  <2> SUFFICES ASSUME NEW k \in DOMAIN records, NEW u \in held'[k]
               PROVE  \E i \in DOMAIN grants' :
                          grants'[i].ip = records[k].ip /\ grants'[i].user = u
    BY DEF HoldersWereGranted
  <2>1. CASE u \in held[k]
    <3>1. HoldersWereGranted
      BY DEF Attributed
    <3>2. PICK i \in DOMAIN grants : grants[i].ip = records[k].ip /\ grants[i].user = u
      BY <2>1, <3>1 DEF HoldersWereGranted
    <3> QED
      BY <1>2, <3>2
  <2>2. CASE u \notin held[k]
    BY <1>1, <2>2
  <2> QED
    BY <2>1, <2>2
<1> QED
  BY <1>3, <1>4, <1>5, <1>6 DEF Attributed

\* Grants: a new row covers a record only if its stamp is no later, and the
\* stamp is at most MaxLag old.
LEMMA GrantAttributed == Attributed /\ Grant => Attributed'
<1> SUFFICES ASSUME Attributed, Grant PROVE Attributed'
  OBVIOUS
<1>1. TypeOK /\ Store!TypeOK /\ [Next]_vars
  BY DEF Attributed, TypeOK, Next
<1>2. PICK t \in Nat :
         /\ t <= now /\ now <= t + MaxLag
         /\ \A i \in DOMAIN grants :
               /\ i \in DOMAIN grants' /\ grants'[i] = grants[i]
               /\ createdAt'[i] = createdAt[i]
         /\ \A i \in DOMAIN grants' \ DOMAIN grants : createdAt'[i] = t
         /\ createdAt' \in [DOMAIN grants' -> Nat]
         /\ now' = now
  BY <1>1, GrantRows
<1>3. Store!TypeOK'
  BY <1>1, StoreKept
<1>4. Len(grants') \in Nat /\ DOMAIN grants' = 1..Len(grants')
  BY <1>3, RowTypesNext
<1>5. createdAt' \in Seq(Nat) /\ Len(createdAt') = Len(grants')
  BY <1>2, <1>4, SameStore, Proved!FunctionIsSeq
<1>6. ASSUME NEW k \in DOMAIN records, NEW i \in DOMAIN grants',
             ~grants'[i].revoked, createdAt'[i] <= records[k].time,
             records[k].time < grants'[i].expireAt
      PROVE  \/ i \in DOMAIN grants /\ Covers(i, records[k])
             \/ now' <= records[k].time + MaxLag
  <2>1. CASE i \in DOMAIN grants
    <3>1. grants'[i] = grants[i] /\ createdAt'[i] = createdAt[i]
      BY <1>2, <2>1
    <3> QED
      BY <1>6, <2>1, <3>1 DEF Covers
  <2>2. CASE i \notin DOMAIN grants
    <3>1. createdAt'[i] = t
      BY <1>2, <2>2
    <3>2. records[k].time \in Nat /\ MaxLag \in Nat /\ now \in Nat /\ t <= records[k].time
      BY <1>1, <1>6, <3>1, RecordTypes, RowTypes
    <3> QED
      BY <1>2, <3>2
  <2> QED
    BY <2>1, <2>2
<1>7. Watch /\ records' = records
  BY DEF Grant
<1>8. now' \in Nat /\ now' >= now
  BY <1>1, <1>2, RowTypes
<1> QED
  BY <1>1, <1>3, <1>5, <1>6, <1>7, <1>8, WatchedStep

\* Extensions: the grant is active now, and the record is of the past.
LEMMA ExtendAttributed == Attributed /\ Extend => Attributed'
<1> SUFFICES ASSUME Attributed, Extend PROVE Attributed'
  OBVIOUS
<1>1. TypeOK /\ Store!TypeOK /\ [Next]_vars
  BY DEF Attributed, TypeOK, Next
<1>2. PICK id \in DOMAIN grants, t \in Nat :
         /\ ~grants[id].revoked /\ grants[id].expireAt > now
         /\ DOMAIN grants' = DOMAIN grants
         /\ \A i \in DOMAIN grants \ {id} : grants'[i] = grants[i]
         /\ createdAt' = createdAt /\ now' = now
  BY <1>1, ExtendRows
<1>3. Store!TypeOK' /\ Len(grants') = Len(grants)
  <2>1. Store!TypeOK'
    BY <1>1, StoreKept
  <2>2. Len(grants') \in Nat /\ DOMAIN grants' = 1..Len(grants')
    BY <2>1, RowTypesNext
  <2>3. Len(grants) \in Nat /\ DOMAIN grants = 1..Len(grants)
    BY <1>1, RowTypes
  <2>4. Len(grants') = Len(grants)
    BY <1>2, <2>2, <2>3, SameLength
  <2> QED
    BY <2>1, <2>4
<1>4. createdAt' \in Seq(Nat) /\ Len(createdAt') = Len(grants')
  BY <1>1, <1>2, <1>3 DEF TypeOK
<1>5. ASSUME NEW k \in DOMAIN records, NEW i \in DOMAIN grants',
             ~grants'[i].revoked, createdAt'[i] <= records[k].time,
             records[k].time < grants'[i].expireAt
      PROVE  i \in DOMAIN grants /\ Covers(i, records[k])
  <2>1. CASE i # id
    <3>1. grants'[i] = grants[i] /\ createdAt' = createdAt /\ i \in DOMAIN grants
      BY <1>2, <2>1
    <3> QED
      BY <1>5, <3>1 DEF Covers
  <2>2. CASE i = id
    <3>1. /\ records[k].time <= now /\ records[k].time \in Nat /\ now \in Nat
          /\ grants[id].expireAt \in Nat
      BY <1>1, RecordTypes, RowTypes DEF Attributed, RecordsPast
    <3>2. records[k].time < grants[id].expireAt
      BY <1>2, <3>1
    <3>3. createdAt[id] <= records[k].time
      BY <1>2, <1>5, <2>2
    <3> QED
      BY <1>2, <2>2, <3>2, <3>3 DEF Covers
  <2> QED
    BY <2>1, <2>2
<1>6. Watch /\ records' = records
  BY DEF Extend
<1>7. now' \in Nat /\ now' >= now
  BY <1>1, <1>2, RowTypes
<1> QED
  BY <1>1, <1>3, <1>4, <1>5, <1>6, <1>7, WatchedStep

\* Revocations and the clock only take grants out of the answer.
LEMMA RevokeAttributed == Attributed /\ (Revoke \/ Tick) => Attributed'
<1> SUFFICES ASSUME Attributed, Revoke \/ Tick PROVE Attributed'
  OBVIOUS
<1>1. TypeOK /\ Store!TypeOK /\ [Next]_vars
  BY DEF Attributed, TypeOK, Next
<1>2. /\ DOMAIN grants' = DOMAIN grants
      /\ \A i \in DOMAIN grants :
            /\ grants'[i].expireAt = grants[i].expireAt
            /\ grants[i].revoked => grants'[i].revoked
      /\ createdAt' = createdAt /\ now' \in {now, now + 1}
  <2>1. CASE Revoke
    BY <1>1, <2>1, RevokeRows
  <2>2. CASE Tick
    BY <2>2 DEF Tick, Store!Tick
  <2> QED
    BY <2>1, <2>2
<1>3. Store!TypeOK' /\ Len(grants') = Len(grants)
  <2>1. Store!TypeOK'
    BY <1>1, StoreKept
  <2>2. Len(grants') \in Nat /\ DOMAIN grants' = 1..Len(grants')
    BY <2>1, RowTypesNext
  <2>3. Len(grants) \in Nat /\ DOMAIN grants = 1..Len(grants)
    BY <1>1, RowTypes
  <2>4. Len(grants') = Len(grants)
    BY <1>2, <2>2, <2>3, SameLength
  <2> QED
    BY <2>1, <2>4
<1>4. createdAt' \in Seq(Nat) /\ Len(createdAt') = Len(grants')
  BY <1>1, <1>2, <1>3 DEF TypeOK
<1>5. ASSUME NEW k \in DOMAIN records, NEW i \in DOMAIN grants',
             ~grants'[i].revoked, createdAt'[i] <= records[k].time,
             records[k].time < grants'[i].expireAt
      PROVE  i \in DOMAIN grants /\ Covers(i, records[k])
  <2>1. i \in DOMAIN grants /\ grants'[i].expireAt = grants[i].expireAt /\ ~grants[i].revoked
    BY <1>2, <1>5
  <2> QED
    BY <1>2, <1>5, <2>1 DEF Covers
<1>6. Watch /\ records' = records
  BY DEF Revoke, Tick
<1>7. now' \in Nat /\ now' >= now
  BY <1>1, <1>2, RowTypes
<1> QED
  BY <1>1, <1>3, <1>4, <1>5, <1>6, <1>7, WatchedStep

\* A request: who is an exact owner now holds the address now.
LEMMA RequestAttributed == Attributed /\ (\E ip \in IPs : Request(ip)) => Attributed'
<1> SUFFICES ASSUME Attributed, NEW ip \in IPs, Request(ip) PROVE Attributed'
  OBVIOUS
<1> DEFINE row  == [ip |-> ip, time |-> now]
           note == {grants[i].user : i \in {j \in DOMAIN grants :
                       /\ ~grants[j].revoked /\ grants[j].expireAt > now
                       /\ grants[j].ip = ip}}
           n == Len(records)
<1>1. /\ records' = Append(records, row) /\ held' = Append(held, note)
      /\ UNCHANGED <<storeVars, createdAt>>
  BY DEF Request, Holders, Store!ListActiveByIP, Store!ActiveIds, Store!Active
<1>2. /\ TypeOK /\ Store!TypeOK /\ records \in Seq(Record) /\ held \in Seq(SUBSET Users)
      /\ Len(held) = n /\ now \in Nat /\ n \in Nat
  BY RowTypes, RecordTypes DEF Attributed, TypeOK
<1>3. row \in Record /\ note \in SUBSET Users /\ row.ip = ip /\ row.time = now
  BY <1>2, RowTypes DEF Record
<1>4. \A u \in note : \E i \in DOMAIN grants : grants[i].ip = ip /\ grants[i].user = u
  OBVIOUS
<1>5. \A i \in DOMAIN grants :
         grants[i].ip = ip /\ ~grants[i].revoked /\ grants[i].expireAt > now
             => grants[i].user \in note
  OBVIOUS
<1> HIDE DEF row, note
<1>6. /\ records' \in Seq(Record) /\ Len(records') = n + 1 /\ records'[n + 1] = row
      /\ \A k \in 1..n : records'[k] = records[k]
      /\ held' \in Seq(SUBSET Users) /\ Len(held') = n + 1 /\ held'[n + 1] = note
      /\ \A k \in 1..n : held'[k] = held[k]
  BY <1>1, <1>2, <1>3, AppendProperties
<1>7. DOMAIN records' = 1..(n + 1) /\ DOMAIN records = 1..n
  BY <1>2, <1>6, LenProperties
<1>8. TypeOK'
  <2>1. Store!TypeOK'
    BY <1>1, <1>2 DEF storeVars, Store!TypeOK
  <2> QED
    BY <1>1, <1>2, <1>6, <2>1 DEF TypeOK, storeVars
<1>9. UNCHANGED <<grants, now, createdAt>>
  BY <1>1 DEF storeVars
<1>10. \A k \in DOMAIN records' :
          \/ k = n + 1 /\ records'[k] = row /\ held'[k] = note
          \/ k \in DOMAIN records /\ records'[k] = records[k] /\ held'[k] = held[k]
  BY <1>2, <1>6, <1>7
<1>11. RecordsPast'
  BY <1>2, <1>3, <1>9, <1>10 DEF Attributed, RecordsPast
<1>12. ExactWereHeld'
  <2> SUFFICES ASSUME NEW k \in DOMAIN records', NEW i \in DOMAIN grants,
                      grants[i].ip = records'[k].ip,
                      ~grants[i].revoked, createdAt[i] <= records'[k].time,
                      records'[k].time < grants[i].expireAt
               PROVE  grants[i].user \in held'[k]
    BY <1>9 DEF ExactWereHeld, Covers
  <2>1. CASE k = n + 1 /\ records'[k] = row /\ held'[k] = note
    BY <1>2, <1>3, <1>5, <2>1, RowTypes
  <2>2. CASE k \in DOMAIN records /\ records'[k] = records[k] /\ held'[k] = held[k]
    BY <2>2 DEF Attributed, ExactWereHeld, Covers
  <2> QED
    BY <1>10, <2>1, <2>2
<1>13. HoldersWereGranted'
  BY <1>3, <1>4, <1>9, <1>10 DEF Attributed, HoldersWereGranted
<1> QED
  BY <1>8, <1>11, <1>12, <1>13 DEF Attributed

\* The invariant holds at first, and every step keeps it.
LEMMA InitAttributed == Init => Attributed
<1> SUFFICES ASSUME Init PROVE Attributed
  OBVIOUS
<1>1. Store!TypeOK
  BY SameStore, Proved!InitType DEF Init
<1>2. /\ grants = <<>> /\ createdAt = <<>> /\ records = <<>> /\ held = <<>>
  BY DEF Init, Store!Init
<1>3. DOMAIN <<>> = {} /\ Len(<<>>) = 0 /\ \A S : <<>> \in Seq(S)
  BY EmptySeq
<1> QED
  BY <1>1, <1>2, <1>3
  DEF Attributed, TypeOK, RecordsPast, ExactWereHeld, HoldersWereGranted

\* Attributed is kept by every step.
LEMMA StepAttributed == Attributed /\ [Next]_vars => Attributed'
<1> SUFFICES ASSUME Attributed, [Next]_vars PROVE Attributed'
  OBVIOUS
<1>1. CASE UNCHANGED <<storeVars, createdAt, records, held>>
  BY <1>1 DEF storeVars, Attributed, TypeOK, Store!TypeOK, RecordsPast, ExactWereHeld,
      HoldersWereGranted, Covers
<1>2. CASE Link
  <2>1. TypeOK /\ Store!TypeOK /\ [Next]_vars
    BY DEF Attributed, TypeOK
  <2>2. Store!TypeOK'
    BY <2>1, StoreKept
  <2>3. UNCHANGED <<grants, now, createdAt, records, held>>
    BY <1>2 DEF Link, Store!NewLink
  <2> QED
    BY <2>2, <2>3 DEF Attributed, TypeOK, RecordsPast, ExactWereHeld,
        HoldersWereGranted, Covers
<1> QED
  BY <1>1, <1>2, GrantAttributed, ExtendAttributed, RevokeAttributed, RequestAttributed
  DEF Next, vars

-----------------------------------------------------------------------------
(* The theorems.                                                           *)

\* TypeOK.
THEOREM TypeCorrect == Spec => []TypeOK
<1>1. Attributed => TypeOK
  BY DEF Attributed
<1> QED
  BY <1>1, InitAttributed, StepAttributed, PTL DEF Spec

\* OwnersHeldIt: an exact owner held the address around the time of the
\* record, and when there is none, all who did are listed, whatever was
\* extended, revoked and granted in between (attachAccessOwners).
THEOREM OwnersCorrect == Spec => []OwnersHeldIt
<1>1. Attributed => OwnersHeldIt
  <2> SUFFICES ASSUME Attributed, NEW k \in DOMAIN records
               PROVE  IF OwnerExact(records[k]) THEN Owner(records[k]) \subseteq held[k]
                      ELSE held[k] \subseteq Owner(records[k])
    BY DEF OwnersHeldIt
  <2>1. CASE OwnerExact(records[k])
    BY <2>1 DEF Owner, Exact, GrantsFor, Attributed, ExactWereHeld
  <2>2. CASE ~OwnerExact(records[k])
    BY <2>2 DEF Owner, Ever, GrantsFor, Attributed, HoldersWereGranted
  <2> QED
    BY <2>1, <2>2
<1> QED
  BY <1>1, InitAttributed, StepAttributed, PTL DEF Spec

\* The exact owners of a record, in terms of rows.
LEMMA ExactIs ==
    ASSUME NEW r
    PROVE  Exact(r) = {grants[i].user : i \in {j \in DOMAIN grants :
               /\ grants[j].ip = r.ip /\ ~grants[j].revoked
               /\ createdAt[j] <= r.time /\ r.time < grants[j].expireAt}}
BY DEF Exact, GrantsFor, Covers

\* HistoryIsStable: when MaxLag has passed, new rows and extensions are
\* stamped later than the record, so that of all transactions only a
\* revocation changes its exact owners, and takes them away.
THEOREM HistoryCorrect == Spec => HistoryIsStable
<1> DEFINE A == \A k \in DOMAIN records :
                   LET r == records[k]
                   IN  now > r.time + MaxLag =>
                          /\ Exact(r)' \subseteq Exact(r)
                          /\ Exact(r)' # Exact(r) => Revoke
           After(i, r) == /\ grants'[i].ip = r.ip /\ ~grants'[i].revoked
                          /\ createdAt'[i] <= r.time /\ r.time < grants'[i].expireAt
           Before(i, r) == /\ grants[i].ip = r.ip /\ ~grants[i].revoked
                           /\ createdAt[i] <= r.time /\ r.time < grants[i].expireAt
<1>1. ASSUME Attributed, Next, NEW k \in DOMAIN records, now > records[k].time + MaxLag
      PROVE  /\ Exact(records[k])' \subseteq Exact(records[k])
             /\ Exact(records[k])' # Exact(records[k]) => Revoke
  <2> DEFINE r == records[k]
  <2>0. /\ TypeOK /\ Store!TypeOK /\ [Next]_vars /\ now \in Nat /\ MaxLag \in Nat
        /\ r.time \in Nat /\ r.time <= now
        /\ \A i \in DOMAIN grants : grants[i].expireAt \in Nat
    BY <1>1, RecordTypes, RowTypes DEF Attributed, TypeOK, RecordsPast
  <2>1. records'[k] = records[k]
    <3>1. records' = records \/ \E row : records' = Append(records, row)
      BY <1>1 DEF Next, Grant, Link, Extend, Revoke, Request, Tick
    <3>2. records \in Seq(Record) /\ k \in 1..Len(records)
      BY <2>0, RecordTypes DEF TypeOK
    <3> QED
      BY <3>1, <3>2
  <2>2. /\ Exact(records[k])' = {grants'[i].user : i \in {j \in DOMAIN grants' : After(j, r)}}
        /\ Exact(records[k]) = {grants[i].user : i \in {j \in DOMAIN grants : Before(j, r)}}
    BY <2>1 DEF Exact, GrantsFor, Covers
  <2>3. \A i \in DOMAIN grants : /\ i \in DOMAIN grants'
                                 /\ grants'[i].user = grants[i].user
                                 /\ grants'[i].ip = grants[i].ip
    BY <2>0, StoreKept
  <2> HIDE DEF r
  <2>4. \A i \in DOMAIN grants' : After(i, r) => i \in DOMAIN grants /\ Before(i, r)
    <3> SUFFICES ASSUME NEW i \in DOMAIN grants', After(i, r)
                 PROVE  i \in DOMAIN grants /\ Before(i, r)
      OBVIOUS
    <3>1. CASE Grant
      <4>1. PICK t \in Nat :
               /\ t <= now /\ now <= t + MaxLag
               /\ \A j \in DOMAIN grants :
                     /\ j \in DOMAIN grants' /\ grants'[j] = grants[j]
                     /\ createdAt'[j] = createdAt[j]
               /\ \A j \in DOMAIN grants' \ DOMAIN grants : createdAt'[j] = t
        BY <2>0, <3>1, GrantRows
      <4>2. CASE i \in DOMAIN grants
        BY <4>1, <4>2
      <4>3. CASE i \notin DOMAIN grants
        BY <1>1, <2>0, <4>1, <4>3 DEF r
      <4> QED
        BY <4>2, <4>3
    <3>2. CASE Extend
      <4>1. PICK id \in DOMAIN grants, t \in Nat :
               /\ ~grants[id].revoked /\ grants[id].expireAt > now
               /\ DOMAIN grants' = DOMAIN grants
               /\ \A j \in DOMAIN grants \ {id} : grants'[j] = grants[j]
               /\ createdAt' = createdAt
        BY <2>0, <3>2, ExtendRows
      <4>2. CASE i # id
        BY <4>1, <4>2
      <4>3. CASE i = id
        <5>1. r.time < grants[id].expireAt
          BY <2>0, <4>1
        <5> QED
          BY <2>3, <4>1, <4>3, <5>1
      <4> QED
        BY <4>2, <4>3
    <3>3. CASE Revoke
      BY <2>0, <2>3, <3>3, RevokeRows
    <3>4. CASE UNCHANGED <<grants, createdAt>>
      BY <3>4
    <3>5. Link \/ Tick \/ (\E ip \in IPs : Request(ip)) => UNCHANGED <<grants, createdAt>>
      BY DEF Link, Tick, Request, storeVars, Store!NewLink, Store!Tick
    <3> QED
      BY <1>1, <3>1, <3>2, <3>3, <3>4, <3>5 DEF Next
  <2>5. ASSUME ~Revoke
        PROVE  \A i \in DOMAIN grants : Before(i, r) => After(i, r)
    <3> SUFFICES ASSUME NEW i \in DOMAIN grants, Before(i, r)
                 PROVE  After(i, r)
      OBVIOUS
    <3>1. CASE Grant
      <4>1. grants'[i] = grants[i] /\ createdAt'[i] = createdAt[i]
        BY <2>0, <3>1, GrantRows
      <4> QED
        BY <4>1
    <3>2. CASE Extend
      <4>1. PICK id \in DOMAIN grants, t \in Nat :
               /\ t <= now /\ now <= t + MaxLag
               /\ \A j \in DOMAIN grants \ {id} : grants'[j] = grants[j]
               /\ ~grants'[id].revoked /\ grants'[id].expireAt > t
               /\ createdAt' = createdAt
        BY <2>0, <3>2, ExtendRows
      <4>2. CASE i # id
        BY <4>1, <4>2
      <4>3. CASE i = id
        <5>1. r.time < t /\ grants'[id].expireAt \in Nat
          BY <1>1, <2>0, <2>3, <4>1, StoreKept, RowTypesNext DEF r
        <5> QED
          BY <2>0, <2>3, <4>1, <4>3, <5>1
      <4> QED
        BY <4>2, <4>3
    <3>4. CASE UNCHANGED <<grants, createdAt>>
      BY <3>4
    <3>5. Link \/ Tick \/ (\E ip \in IPs : Request(ip)) => UNCHANGED <<grants, createdAt>>
      BY DEF Link, Tick, Request, storeVars, Store!NewLink, Store!Tick
    <3> QED
      BY <1>1, <2>5, <3>1, <3>2, <3>4, <3>5 DEF Next
  <2> HIDE DEF After, Before
  <2> QED
    BY <2>2, <2>3, <2>4, <2>5
<1>2. Attributed /\ [Next]_vars => [A]_vars
  BY <1>1
<1> QED
  BY <1>2, InitAttributed, StepAttributed, PTL DEF Spec, HistoryIsStable

=============================================================================
