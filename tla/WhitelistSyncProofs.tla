-------------------------- MODULE WhitelistSyncProofs --------------------------
(***************************************************************************)
(* Proofs about WhitelistSync, for every value of its constants:           *)
(*   StoreImplemented    every step is a transaction of the store or none; *)
(*   LimitHolds          so the limit on active addresses holds of it all; *)
(*   LinksHold           and so does the bound on what one link yields;    *)
(*   ForeignEntriesKept  entries of addresses never granted stay as is;    *)
(*   TypeCorrect         the types of everything the gateway keeps;        *)
(*   PassesSync          an undisturbed pass leaves the two sides in step; *)
(*   CommandsSync        an undisturbed command leaves its address so;     *)
(*   AuditsTrue          an audit row says "synced" only when that is so.  *)
(***************************************************************************)
EXTENDS WhitelistSync, ClientAddressProofs, NaturalSets, SequenceTheorems

Proved == INSTANCE GrantStoreProofs WITH TTLs <- Lifetimes

-----------------------------------------------------------------------------
(* What each actor does to the database.                                   *)

\* NewLink issues one link.
LEMMA IssueLinkStep ==
    ASSUME NEW m \in Messages, IssueLink(m)
    PROVE  Store!Next
<1>1. PICK t \in Store!Stamps : Store!NewLink(m, t)
  BY DEF IssueLink
<1> QED
  BY <1>1 DEF Store!Next

\* A command adds a row or revokes; its calls leave the store alone.
LEMMA ExecStep ==
    ASSUME ExecNext
    PROVE  [Store!Next]_storeVars
<1>1. ASSUME NEW u \in Users, NEW ip \in IPs, NEW text \in Texts, ExecAdd(u, ip, text)
      PROVE  Store!Next
  <2>1. CommandTTL(text) \subseteq Lifetimes \cup {DefaultTTL}
    BY DEF CommandTTL, Lifetimes
  <2>2. PICK ttl \in CommandTTL(text), t \in Store!Stamps :
            Store!AddGrantLimited(u, ip, ttl, t)
    BY <1>1 DEF ExecAdd
  <2>3. ttl \in Lifetimes
    BY <2>1, <2>2, SyncGiven
    DEF Lifetimes, CommandLifetimes, SyncAssumption, Store!StoreAssumption
  <2> QED
    BY <2>2, <2>3 DEF Store!Next
<1>2. ASSUME NEW u \in Users, NEW ip \in IPs, ExecRevoke(u, ip)
      PROVE  Store!Next
  BY <1>2 DEF ExecRevoke, Store!Next
<1>3. ASSUME ExecCalls
      PROVE  UNCHANGED storeVars
  BY <1>3 DEF ExecCalls, ExecAddCall, ExecDecide, ExecRefreshCall, ExecRemoveCall
<1> QED
  BY <1>1, <1>2, <1>3 DEF ExecNext

\* A confirmation consumes its link; its calls leave the store alone.
LEMMA PostStep ==
    ASSUME PostNext
    PROVE  [Store!Next]_storeVars
<1>1. ASSUME NEW p \in Posters, NEW tok \in authTokens, NEW req \in Requests,
             PostConsume(p, tok, req)
      PROVE  Store!Next
  <2>1. Targets(req) \in Store!TargetLists
    BY <1>1, TargetsAreDistinct DEF PostConsume, Store!TargetLists
  <2>2. PICK t \in Store!Stamps : Store!ConsumeTokenIPs(tok, Targets(req), t)
    BY <1>1 DEF PostConsume
  <2> QED
    BY <2>1, <2>2 DEF Store!Next
<1>2. ASSUME NEW p \in Posters, PostCall(p)
      PROVE  UNCHANGED storeVars
  BY <1>2 DEF PostCall
<1> QED
  BY <1>1, <1>2 DEF PostNext

\* A mutation of the console and the closing of its audit row.
LEMMA AdminStep ==
    ASSUME AdminNext
    PROVE  [Store!Next]_storeVars
<1>1. ASSUME NEW u \in Users, NEW ip \in IPs, NEW text \in Texts, AdminAdd(u, ip, text)
      PROVE  Store!Next
  <2>1. PICK ttl \in AdminTTL(text), t \in Store!Stamps :
            Store!CreateAdminGrant(u, ip, ttl, t)
    BY <1>1 DEF AdminAdd
  <2> QED
    BY <2>1 DEF AdminTTL, Lifetimes, Store!Next
<1>2. ASSUME NEW id \in DOMAIN grants, NEW text \in Texts, AdminExtend(id, text)
      PROVE  Store!Next
  <2>1. PICK ttl \in AdminTTL(text), t \in Store!Stamps :
            Store!ExtendAdminGrant(id, ttl, t)
    BY <1>2 DEF AdminExtend
  <2> QED
    BY <2>1 DEF AdminTTL, Lifetimes, Store!Next
<1>3. ASSUME NEW id \in DOMAIN grants, AdminRevoke(id)
      PROVE  Store!Next
  BY <1>3 DEF AdminRevoke, Store!Next
<1>4. ASSUME AdminAudit
      PROVE  [Store!Next]_storeVars
  <2> DEFINE result == IF admin.ok THEN "synced" ELSE "sync_failed"
  <2>1. Store!SetAdminAuditResult(admin.audit, result) \/ UNCHANGED storeVars
    BY <1>4 DEF AdminAudit
  <2>2. Store!SetAdminAuditResult(admin.audit, result) => admin.audit \in DOMAIN adminAudit
    BY DEF Store!SetAdminAuditResult
  <2>3. result \in {"synced", "sync_failed"}
    OBVIOUS
  <2> HIDE DEF result
  <2> QED
    BY <2>1, <2>2, <2>3 DEF Store!Next
<1> QED
  BY <1>1, <1>2, <1>3, <1>4 DEF AdminNext

\* A pass only forgets managed addresses.
LEMMA PassesStep ==
    ASSUME PassNext
    PROVE  [Store!Next]_storeVars
<1>1. ASSUME NEW ip \in IPs, PassForget(ip)
      PROVE  Store!Next
  BY <1>1 DEF PassForget, Store!Next
<1>2. ASSUME \/ \E ip \in IPs : PassAdd(ip) \/ PassRemove(ip)
             \/ PassListManaged \/ PassDone \/ PassAbort
             \/ \E by \in {"boot", "ticker", "admin"} : PassStart(by)
      PROVE  UNCHANGED storeVars
  BY <1>2 DEF PassAdd, PassRemove, PassListManaged, PassDone, PassAbort, PassStart
<1> QED
  BY <1>1, <1>2 DEF PassNext, PassStep

\* Of the environment only the clock is the store's.
LEMMA EnvironmentStep ==
    ASSUME Environment
    PROVE  [Store!Next]_storeVars
<1>1. Tick => Store!Next
  BY DEF Tick, Store!Next
<1>2. Crash \/ FrpsRestart \/ (\E ip \in IPs : ManualEdit(ip)) => UNCHANGED storeVars
  BY DEF Crash, FrpsRestart, ManualEdit
<1> QED
  BY <1>1, <1>2 DEF Environment

\* Every step of the gateway is a transaction of the store or leaves it alone.
LEMMA StepsOfStore == [Next]_vars => [Store!Next]_storeVars
<1> SUFFICES ASSUME [Next]_vars PROVE [Store!Next]_storeVars
  OBVIOUS
<1>1. CASE UNCHANGED vars
  BY <1>1 DEF vars
<1>2. CASE Next
  BY <1>2, IssueLinkStep, ExecStep, PostStep, AdminStep, PassesStep, EnvironmentStep
  DEF Next
<1> QED
  BY <1>1, <1>2

-----------------------------------------------------------------------------
(* The theorems.                                                           *)

\* StoreSpec: no handler, command, mutation or pass does to the database what
\* the store on its own could not do.
THEOREM StoreImplemented == Spec => StoreSpec
<1>1. Init => Store!Init
  BY DEF Init
<1>2. [Next]_vars => [Store!Next]_Store!vars
  BY StepsOfStore DEF storeVars, Store!vars
<1> QED
  BY <1>1, <1>2, PTL DEF Spec, StoreSpec, Store!Spec

\* The instance that the theorems about the store are taken from is the store.
LEMMA SameStore ==
    /\ Proved!StoreAssumption
    /\ Store!Init => Proved!Init
    /\ [Store!Next]_Store!vars => [Proved!Next]_Proved!vars
<1>1. Proved!StoreAssumption
  BY SyncGiven
  DEF SyncAssumption, Store!StoreAssumption, Proved!StoreAssumption,
      Store!IsFiniteSet, Proved!IsFiniteSet
<1>2. Store!Init => Proved!Init
  BY DEF Store!Init, Proved!Init
<1>3. [Store!Next]_Store!vars => [Proved!Next]_Proved!vars
  BY Zenon
  DEF Store!Next, Proved!Next, Store!vars, Proved!vars, Store!Stamps,
      Proved!Stamps, Store!NewLink, Proved!NewLink, Store!Attempts,
      Proved!Attempts, Store!ConsumeTokenIPs, Proved!ConsumeTokenIPs,
      Store!TokenValid, Proved!TokenValid, Store!WithinIPLimit,
      Proved!WithinIPLimit, Store!UserIPs, Proved!UserIPs, Store!ActiveIds,
      Proved!ActiveIds, Store!Active, Proved!Active, Store!Row, Proved!Row,
      Store!TargetLists, Proved!TargetLists, Store!AddGrantLimited,
      Proved!AddGrantLimited, Store!RevokeUserIP, Proved!RevokeUserIP,
      Store!CreateAdminGrant, Proved!CreateAdminGrant, Store!AuditRow,
      Proved!AuditRow, Store!ExtendAdminGrant, Proved!ExtendAdminGrant,
      Store!Mutable, Proved!Mutable, Store!RevokeAdminGrant,
      Proved!RevokeAdminGrant, Store!SetAdminAuditResult,
      Proved!SetAdminAuditResult, Store!ForgetManagedIP,
      Proved!ForgetManagedIP, Store!Tick, Proved!Tick, Store!Cardinality,
      Proved!Cardinality, Store!IsFiniteSet, Proved!IsFiniteSet
<1> QED
  BY <1>1, <1>2, <1>3

\* So what is proved of the store holds of the gateway.
LEMMA SpecOfStore == Spec => Proved!Spec
BY StoreImplemented, SameStore, PTL DEF StoreSpec, Store!Spec, Proved!Spec

\* The limit of active addresses holds of the gateway as a whole: for commands,
\* confirmations, console mutations and passes at once, through crashes and
\* failing calls.
THEOREM LimitHolds == Spec => []Store!ActiveIPLimit
<1>1. Proved!Spec => []Proved!ActiveIPLimit
  BY SameStore, Proved!LimitCorrect
<1>2. Proved!ActiveIPLimit => Store!ActiveIPLimit
  BY Zenon
  DEF Proved!ActiveIPLimit, Store!ActiveIPLimit, Proved!SelfServiceIPs,
      Store!SelfServiceIPs, Proved!ActiveIds, Store!ActiveIds, Proved!Active,
      Store!Active, Store!Cardinality, Proved!Cardinality,
      Store!IsFiniteSet, Proved!IsFiniteSet
<1> QED
  BY SpecOfStore, <1>1, <1>2, PTL

\* A link yields one batch of grants although the handlers of several POSTs
\* may hold the same token at once.
THEOREM LinksHold == Spec => []Store!LinkGrantsBackedByTokens
<1>1. Proved!Spec => []Proved!LinkGrantsBackedByTokens
  BY SameStore, Proved!LinksCorrect
<1>2. Proved!LinkGrantsBackedByTokens => Store!LinkGrantsBackedByTokens
  BY Zenon
  DEF Proved!LinkGrantsBackedByTokens, Store!LinkGrantsBackedByTokens,
      Store!Cardinality, Proved!Cardinality, Store!IsFiniteSet, Proved!IsFiniteSet
<1> QED
  BY SpecOfStore, <1>1, <1>2, PTL

-----------------------------------------------------------------------------
(* Entries of addresses that were never granted.                           *)

\* What the confirmation handlers still have to send.
HandlersKnown ==
    /\ DOMAIN post = Posters
    /\ \A p \in Posters :
          /\ post[p].ips \in Seq(IPs) /\ {"ips", "expireAt"} \subseteq DOMAIN post[p]
          /\ \A k \in DOMAIN post[p].ips : post[p].ips[k] \in GrantedIPs

\* The pass works on addresses it read from the grants or from managed_ips.
PassWorksOnGranted ==
    pass.phase # "idle" =>
        /\ {"phase", "todo", "managed", "removed"} \subseteq DOMAIN pass
        /\ pass.todo \subseteq GrantedIPs

\* What the actors hold in hand is about addresses of grants, which stay in
\* the table for ever.
Known ==
    /\ DOMAIN frps = IPs
    /\ managedIPs \subseteq GrantedIPs
    /\ exec.phase # "idle" => exec.ip \in GrantedIPs
    /\ HandlersKnown
    /\ PassWorksOnGranted

\* Rows are never lost and keep their address.
GrantsKept == GrantedIPs \subseteq GrantedIPs'

\* Every transaction keeps the rows there are (EveryStep of GrantStoreProofs).
LEMMA KeepsGrants == Proved!TypeOK /\ [Next]_vars => GrantsKept
<1> SUFFICES ASSUME Proved!TypeOK, [Next]_vars PROVE GrantsKept
  OBVIOUS
<1>1. Proved!GoodStep
  BY StepsOfStore, SameStore, Proved!EveryStep DEF storeVars, Store!vars
<1>2. \A i \in DOMAIN grants : i \in DOMAIN grants' /\ grants'[i].ip = grants[i].ip
  BY <1>1 DEF Proved!GoodStep, Proved!RowsKept
<1> QED
  BY <1>2 DEF GrantsKept, GrantedIPs

\* A row that is appended grants its address, and so do all rows of a batch.
LEMMA AppendedIsGranted ==
    ASSUME grants \in Seq(Store!Grant), NEW row, grants' = Append(grants, row)
    PROVE  row.ip \in GrantedIPs'
<1>1. grants'[Len(grants) + 1] = row /\ Len(grants) + 1 \in DOMAIN grants'
  OBVIOUS
<1> QED
  BY <1>1 DEF GrantedIPs

\* The same for the rows of a confirmation.
LEMMA BatchIsGranted ==
    ASSUME grants \in Seq(Store!Grant), NEW S, NEW batch \in Seq(S),
           grants' = grants \o batch
    PROVE  \A k \in DOMAIN batch : batch[k].ip \in GrantedIPs'
<1>1. ASSUME NEW k \in DOMAIN batch
      PROVE  Len(grants) + k \in DOMAIN grants' /\ grants'[Len(grants) + k] = batch[k]
  OBVIOUS
<1> QED
  BY <1>1 DEF GrantedIPs

\* Only granted addresses become managed.
LEMMA ManagedIsGranted ==
    ASSUME Proved!TypeOK, managedIPs \subseteq GrantedIPs, [Store!Next]_storeVars,
           GrantsKept
    PROVE  managedIPs' \subseteq GrantedIPs'
<1>1. grants \in Seq(Store!Grant)
  BY DEF Proved!TypeOK, Proved!Grant, Store!Grant, Proved!Sources, Store!Sources
<1>2. ASSUME NEW tok, NEW ips \in Store!TargetLists, NEW t, Store!ConsumeTokenIPs(tok, ips, t)
      PROVE  managedIPs' \subseteq GrantedIPs'
  <2> DEFINE row(k) == Store!Row(Sender[tok.message], ips[k], "feishu_link",
      t + DefaultTTL)
             batch == [k \in 1..Len(ips) |-> row(k)]
  <2>1. Len(ips) \in Nat /\ DOMAIN ips = 1..Len(ips)
    BY <1>2 DEF Store!TargetLists
  <2>2. grants' = grants \o batch
    BY <1>2 DEF Store!ConsumeTokenIPs
  <2>3. \A k : row(k).ip = ips[k]
    BY DEF Store!Row
  <2> HIDE DEF row
  <2>4. batch \in [1..Len(ips) -> {row(k) : k \in 1..Len(ips)}]
    OBVIOUS
  <2>5. batch \in Seq({row(k) : k \in 1..Len(ips)}) /\ DOMAIN batch = 1..Len(ips)
    BY <2>1, <2>4, SameStore, Proved!FunctionIsSeq
  <2>6. \A k \in 1..Len(ips) : ips[k] \in GrantedIPs'
    <3>1. \A k \in 1..Len(ips) : batch[k].ip = ips[k]
      BY <2>3
    <3> HIDE DEF batch
    <3>2. \A k \in 1..Len(ips) : batch[k].ip \in GrantedIPs'
      BY <1>1, <2>2, <2>5, BatchIsGranted
    <3> QED
      BY <3>1, <3>2
  <2>7. managedIPs' = managedIPs \cup {ips[k] : k \in DOMAIN ips}
    BY <1>2 DEF Store!ConsumeTokenIPs
  <2> QED
    BY <2>1, <2>6, <2>7 DEF GrantsKept
<1>3. ASSUME NEW u, NEW ip, NEW ttl, NEW t,
             Store!AddGrantLimited(u, ip, ttl, t) \/ Store!CreateAdminGrant(u, ip, ttl, t)
      PROVE  managedIPs' \subseteq GrantedIPs'
  <2>1. ip \in GrantedIPs'
    BY <1>1, <1>3, AppendedIsGranted
    DEF Store!AddGrantLimited, Store!CreateAdminGrant, Store!Row
  <2> QED
    BY <1>3, <2>1 DEF GrantsKept, Store!AddGrantLimited, Store!CreateAdminGrant
<1>4. ASSUME NEW id \in DOMAIN grants, NEW ttl, NEW t, Store!ExtendAdminGrant(id, ttl, t)
      PROVE  managedIPs' \subseteq GrantedIPs'
  <2>1. grants[id].ip \in GrantedIPs
    BY DEF GrantedIPs
  <2> QED
    BY <1>4, <2>1 DEF GrantsKept, Store!ExtendAdminGrant
<1>5. ASSUME managedIPs' \subseteq managedIPs
      PROVE  managedIPs' \subseteq GrantedIPs'
  BY <1>5 DEF GrantsKept
<1> QED
  BY <1>2, <1>3, <1>4, <1>5
  DEF Store!Next, storeVars, Store!NewLink, Store!RevokeUserIP,
      Store!RevokeAdminGrant,
      Store!SetAdminAuditResult, Store!ForgetManagedIP, Store!Tick

\* What the actors hold stays granted, and what they take in hand is.
LEMMA ExecKnown ==
    ASSUME Known, Proved!TypeOK, GrantsKept, ExecNext
    PROVE  exec'.phase # "idle" => exec'.ip \in GrantedIPs'
<1>1. ASSUME NEW u \in Users, NEW ip \in IPs, NEW text \in Texts, ExecAdd(u, ip, text)
      PROVE  exec'.ip \in GrantedIPs'
  <2>1. PICK ttl, t : Store!AddGrantLimited(u, ip, ttl, t)
    BY <1>1 DEF ExecAdd
  <2>2. grants \in Seq(Store!Grant)
    BY DEF Proved!TypeOK, Proved!Grant, Store!Grant, Proved!Sources, Store!Sources
  <2>3. ip \in GrantedIPs'
    BY <2>1, <2>2, AppendedIsGranted DEF Store!AddGrantLimited, Store!Row
  <2>4. exec'.ip = ip
    BY <1>1 DEF ExecAdd
  <2> QED
    BY <2>3, <2>4
<1>2. ASSUME NEW u \in Users, NEW ip \in IPs, ExecRevoke(u, ip)
      PROVE  exec'.ip \in GrantedIPs'
  <2>1. ip \in GrantedIPs
    BY <1>2 DEF ExecRevoke, Store!ListActiveByIP, Store!ActiveIds, GrantedIPs
  <2> QED
    BY <1>2, <2>1 DEF ExecRevoke, GrantsKept
<1>3. ASSUME ExecDecide, exec' # Idle
      PROVE  exec'.ip \in GrantedIPs'
  <2>1. exec'.ip = exec.ip /\ exec.phase = "revoked"
    BY <1>3 DEF ExecDecide
  <2> QED
    BY <2>1 DEF Known, HandlersKnown, PassWorksOnGranted, GrantsKept
<1>4. ExecAddCall \/ ExecRefreshCall \/ ExecRemoveCall => exec' = Idle
  BY DEF ExecAddCall, ExecRefreshCall, ExecRemoveCall
<1> QED
  BY <1>1, <1>2, <1>3, <1>4 DEF ExecNext, ExecCalls, Idle

\* The same for the handlers of confirmations, which hold whole lists.
LEMMA PostKnown ==
    ASSUME Known, Proved!TypeOK, GrantsKept, managedIPs' \subseteq GrantedIPs', PostNext
    PROVE  HandlersKnown'
<1>1. ASSUME NEW p \in Posters, NEW tok \in authTokens, NEW req \in Requests,
             PostConsume(p, tok, req)
      PROVE  HandlersKnown'
  <2> DEFINE ips == Targets(req)
  <2>1. PICK t : /\ Store!ConsumeTokenIPs(tok, ips, t)
                 /\ post' = [post EXCEPT ![p] = [ips |-> ips, expireAt |-> t + DefaultTTL]]
    BY <1>1 DEF PostConsume
  <2>2. ips \in Seq(IPs)
    <3>1. Targets(req) # <<>>
      BY <1>1 DEF PostConsume
    <3>2. ips \in {<<a>> : a \in IPs} \/ ips \in IPs \X IPs
      BY <3>1, TargetsAreDistinct
    <3> HIDE DEF ips
    <3>3. CASE ips \in {<<a>> : a \in IPs}
      <4>1. PICK a \in IPs : ips = <<a>>
        BY <3>3
      <4> QED
        BY <4>1
    <3>4. CASE ips \in IPs \X IPs
      <4>1. PICK a \in IPs, b \in IPs : ips = <<a, b>>
        BY <3>4
      <4> QED
        BY <4>1
    <3> QED
      BY <3>2, <3>3, <3>4
  <2>3. \A k \in DOMAIN ips : ips[k] \in GrantedIPs'
    BY <2>1 DEF Store!ConsumeTokenIPs
  <2>4. /\ post'[p] = [ips |-> ips, expireAt |-> post'[p].expireAt]
        /\ \A q \in Posters \ {p} : post'[q] = post[q]
        /\ DOMAIN post' = Posters
    BY <2>1 DEF Known, HandlersKnown, PassWorksOnGranted
  <2>5. post'[p].ips = ips /\ {"ips", "expireAt"} \subseteq DOMAIN post'[p]
    BY <2>4
  <2> HIDE DEF ips
  <2> QED
    BY <2>2, <2>3, <2>4, <2>5 DEF Known, HandlersKnown, PassWorksOnGranted,
        GrantsKept
<1>2. ASSUME NEW p \in Posters, PostCall(p)
      PROVE  HandlersKnown'
  <2>1. \/ post' = [post EXCEPT ![p] = NoPost]
        \/ /\ Len(post[p].ips) > 1
           /\ post' = [post EXCEPT ![p] = [post[p] EXCEPT !.ips = Tail(post[p].ips)]]
    BY <1>2 DEF PostCall
  <2>2. CASE post' = [post EXCEPT ![p] = NoPost]
    BY <2>2 DEF Known, HandlersKnown, PassWorksOnGranted, GrantsKept, NoPost
  <2>3. CASE /\ Len(post[p].ips) > 1
             /\ post' = [post EXCEPT ![p] = [post[p] EXCEPT !.ips = Tail(post[p].ips)]]
    <3> DEFINE rest == Tail(post[p].ips)
    <3>1. rest \in Seq(IPs) /\ \A k \in DOMAIN rest : rest[k] \in GrantedIPs
      BY <2>3 DEF Known, HandlersKnown, PassWorksOnGranted
    <3>2. /\ post'[p].ips = rest /\ DOMAIN post'[p] = DOMAIN post[p]
          /\ \A q \in Posters \ {p} : post'[q] = post[q]
          /\ DOMAIN post' = Posters
      BY <2>3 DEF Known, HandlersKnown, PassWorksOnGranted
    <3> HIDE DEF rest
    <3> QED
      BY <3>1, <3>2 DEF Known, HandlersKnown, PassWorksOnGranted, GrantsKept
  <2> QED
    BY <2>1, <2>2, <2>3
<1> QED
  BY <1>1, <1>2 DEF PostNext

\* The same for a pass, which works from its snapshot and its list.
LEMMA PassKnown ==
    ASSUME Known, GrantsKept, PassNext
    PROVE  PassWorksOnGranted'
<1>1. ASSUME NEW by, PassStart(by)
      PROVE  PassWorksOnGranted'
  <2>1. Store!ActiveIPs(now) \subseteq GrantedIPs
    BY DEF Store!ActiveIPs, Store!ActiveIds, GrantedIPs
  <2>2. pass'.todo = Store!ActiveIPs(now)
        /\ DOMAIN pass' = {"phase", "by", "active", "expireAt", "todo", "managed", "removed"}
    BY <1>1 DEF PassStart
  <2> QED
    BY <2>1, <2>2 DEF PassWorksOnGranted, GrantsKept
<1>2. ASSUME NEW ip \in IPs, PassAdd(ip) \/ PassRemove(ip) \/ PassForget(ip)
      PROVE  PassWorksOnGranted'
  <2>1. pass.phase # "idle"
    BY <1>2 DEF PassAdd, PassRemove, PassForget
  <2>2. \/ pass' = Idle
        \/ pass' = [pass EXCEPT !.todo = @ \ {ip}]
        \/ pass' = [pass EXCEPT !.removed = {ip}, !.todo = @ \ {ip}]
        \/ pass' = [pass EXCEPT !.removed = {}]
    BY <1>2 DEF PassAdd, PassRemove, PassForget, Return
  <2>3. /\ pass.todo \subseteq GrantedIPs
        /\ {"phase", "todo", "managed", "removed"} \subseteq DOMAIN pass
    BY <2>1 DEF Known, HandlersKnown, PassWorksOnGranted
  <2>4. CASE pass' = Idle
    BY <2>4 DEF PassWorksOnGranted, Idle
  <2>5. CASE pass' # Idle
    <3>1. DOMAIN pass' = DOMAIN pass /\ pass'.todo \subseteq pass.todo
      BY <2>2, <2>3, <2>5
    <3> QED
      BY <2>3, <3>1 DEF PassWorksOnGranted, GrantsKept
  <2> QED
    BY <2>4, <2>5
<1>3. ASSUME PassListManaged
      PROVE  PassWorksOnGranted'
  <2>1. pass' = [pass EXCEPT !.phase = "dropping", !.managed = managedIPs,
                             !.todo = managedIPs \ pass.active]
        /\ pass.phase # "idle"
    BY <1>3 DEF PassListManaged
  <2> QED
    BY <2>1 DEF Known, HandlersKnown, PassWorksOnGranted, GrantsKept
<1>4. ASSUME PassDone \/ PassAbort
      PROVE  PassWorksOnGranted'
  BY <1>4 DEF PassDone, PassAbort, Return, Idle, PassWorksOnGranted
<1> QED
  BY <1>1, <1>2, <1>3, <1>4 DEF PassNext, PassStep

-----------------------------------------------------------------------------

\* Known is inductive, given that rows are kept.
LEMMA KnownStep == Known /\ Proved!TypeOK /\ [Next]_vars => Known'
<1> SUFFICES ASSUME Known, Proved!TypeOK, [Next]_vars PROVE Known'
  OBVIOUS
<1>1. GrantsKept
  BY KeepsGrants
<1>2. managedIPs' \subseteq GrantedIPs'
  BY <1>1, StepsOfStore, ManagedIsGranted DEF Known, HandlersKnown,
      PassWorksOnGranted
<1>3. DOMAIN frps' = IPs
  BY DEF Known, HandlersKnown, PassWorksOnGranted, Next, vars, IssueLink,
      ExecNext, ExecCalls, ExecAdd, ExecAddCall,
      ExecRevoke, ExecDecide, ExecRefreshCall, ExecRemoveCall, PostNext,
      PostConsume, PostCall, AdminNext, AdminAdd, AdminExtend, AdminRevoke,
      AdminRecorded, AdminAudit, PassNext, PassStep, PassStart, PassAdd,
      PassListManaged, PassRemove, PassForget, PassDone, PassAbort,
      Environment, Tick, Crash, FrpsRestart, ManualEdit, AddCall, RemoveCall
<1>4. exec' = exec \/ exec' = Idle \/ ExecNext
  BY DEF Next, vars, IssueLink, PostNext, PostConsume, PostCall, AdminNext,
      AdminAdd,
      AdminExtend, AdminRevoke, AdminRecorded, AdminAudit, PassNext, PassStep,
      PassStart, PassAdd, PassListManaged, PassRemove, PassForget, PassDone,
      PassAbort, Environment, Tick, Crash, FrpsRestart, ManualEdit
<1>5. exec'.phase # "idle" => exec'.ip \in GrantedIPs'
  BY <1>1, <1>4, ExecKnown DEF Known, HandlersKnown, PassWorksOnGranted,
      GrantsKept, Idle
<1>6. post' = post \/ post' = [p \in Posters |-> NoPost] \/ PostNext
  BY DEF Next, vars, IssueLink, ExecNext, ExecCalls, ExecAdd, ExecAddCall,
      ExecRevoke,
      ExecDecide, ExecRefreshCall, ExecRemoveCall, AdminNext, AdminAdd,
      AdminExtend, AdminRevoke, AdminRecorded, AdminAudit, PassNext, PassStep,
      PassStart, PassAdd, PassListManaged, PassRemove, PassForget, PassDone,
      PassAbort, Environment, Tick, Crash, FrpsRestart, ManualEdit
<1>7. HandlersKnown'
  <2>1. CASE post' = [p \in Posters |-> NoPost]
    <3>1. DOMAIN post' = Posters /\ \A p \in Posters : post'[p] = NoPost
      BY <2>1
    <3>2. NoPost.ips = <<>> /\ DOMAIN NoPost = {"ips", "expireAt"}
      BY DEF NoPost
    <3>3. <<>> \in Seq(IPs) /\ DOMAIN <<>> = {}
      OBVIOUS
    <3> QED
      BY <3>1, <3>2, <3>3 DEF HandlersKnown
  <2>2. CASE post' = post
    BY <1>1, <2>2 DEF Known, HandlersKnown, PassWorksOnGranted, GrantsKept
  <2> QED
    BY <1>1, <1>2, <1>6, <2>1, <2>2, PostKnown
<1>8. pass' = pass \/ pass' = Idle \/ PassNext
  BY DEF Next, vars, IssueLink, ExecNext, ExecCalls, ExecAdd, ExecAddCall,
      ExecRevoke,
      ExecDecide, ExecRefreshCall, ExecRemoveCall, PostNext, PostConsume,
      PostCall, AdminNext, AdminAdd, AdminExtend, AdminRevoke, AdminRecorded,
      AdminAudit, Environment, Tick, Crash, FrpsRestart, ManualEdit
<1>9. PassWorksOnGranted'
  BY <1>1, <1>8, PassKnown DEF Known, HandlersKnown, PassWorksOnGranted,
      GrantsKept, Idle
<1> QED
  BY <1>2, <1>3, <1>5, <1>7, <1>9 DEF Known, HandlersKnown, PassWorksOnGranted

\* At first nobody holds anything.
LEMMA KnownInit == Init => Known
<1> SUFFICES ASSUME Init PROVE Known
  OBVIOUS
<1>1. NoPost.ips = <<>> /\ DOMAIN NoPost = {"ips", "expireAt"}
  BY DEF NoPost
<1>2. <<>> \in Seq(IPs) /\ DOMAIN <<>> = {}
  OBVIOUS
<1>3. \A p \in Posters : post[p] = NoPost
  BY DEF Init
<1>4. /\ DOMAIN frps = IPs /\ DOMAIN post = Posters /\ managedIPs = {}
      /\ exec.phase = "idle" /\ pass.phase = "idle"
  BY DEF Init, Store!Init, Idle
<1> QED
  BY <1>1, <1>2, <1>3, <1>4 DEF Known, HandlersKnown, PassWorksOnGranted

\* ForeignEntriesUntouched: nothing but the operators, the clock and a restart
\* of frps ever changes the entry of an address the gateway did not grant.
THEOREM ForeignEntriesKept == Spec => ForeignEntriesUntouched
<1> DEFINE A == \A ip \in IPs \ GrantedIPs :
                   frps'[ip] # frps[ip] => Tick \/ FrpsRestart \/ ManualEdit(ip)
<1>1. Known /\ [Next]_vars => [A]_vars
  <2> SUFFICES ASSUME Known, Next, NEW ip \in IPs \ GrantedIPs, frps'[ip] # frps[ip]
               PROVE  Tick \/ FrpsRestart \/ ManualEdit(ip)
    OBVIOUS
  <2>1. ~ExecNext
    <3>1. ASSUME ExecAddCall \/ ExecRefreshCall \/ ExecRemoveCall
          PROVE  FALSE
      <4>1. exec.ip # ip /\ exec.ip \in GrantedIPs
        BY <3>1 DEF Known, HandlersKnown, PassWorksOnGranted, ExecAddCall,
            ExecRefreshCall, ExecRemoveCall
      <4> QED
        BY <3>1, <4>1 DEF Known, HandlersKnown, PassWorksOnGranted, ExecAddCall,
            ExecRefreshCall, ExecRemoveCall, AddCall,
            RemoveCall
    <3> QED
      BY <3>1 DEF ExecNext, ExecCalls, ExecAdd, ExecRevoke, ExecDecide
  <2>2. ~PostNext
    <3>1. ASSUME NEW p \in Posters, PostCall(p)
          PROVE  FALSE
      <4>1. Head(post[p].ips) \in GrantedIPs
        BY <3>1 DEF Known, HandlersKnown, PassWorksOnGranted, PostCall
      <4> QED
        BY <3>1, <4>1 DEF Known, HandlersKnown, PassWorksOnGranted, PostCall,
            AddCall
    <3> QED
      BY <3>1 DEF PostNext, PostConsume
  <2>3. ~PassNext
    <3>1. ASSUME NEW other \in IPs, PassAdd(other) \/ PassRemove(other)
          PROVE  FALSE
      <4>1. other \in GrantedIPs
        BY <3>1 DEF Known, HandlersKnown, PassWorksOnGranted, PassAdd, PassRemove
      <4> QED
        BY <3>1, <4>1 DEF Known, HandlersKnown, PassWorksOnGranted, PassAdd,
            PassRemove, AddCall, RemoveCall
    <3> QED
      BY <3>1 DEF PassNext, PassStep, PassStart, PassListManaged, PassForget,
          PassDone,
          PassAbort
  <2>4. ~AdminNext /\ \A m \in Messages : ~IssueLink(m)
    BY DEF AdminNext, AdminAdd, AdminExtend, AdminRevoke, AdminRecorded, AdminAudit,
        IssueLink
  <2>5. \A other \in IPs : ManualEdit(other) => other = ip
    BY DEF ManualEdit, Known, HandlersKnown, PassWorksOnGranted
  <2> QED
    BY <2>1, <2>2, <2>3, <2>4, <2>5 DEF Next, Environment, Crash
<1>2. Proved!Spec => []Proved!TypeOK
  BY SameStore, Proved!TypeCorrect
<1> QED
  BY SpecOfStore, KnownInit, KnownStep, <1>1, <1>2, PTL
  DEF Spec, ForeignEntriesUntouched

-----------------------------------------------------------------------------
(* Lifetimes on their way to frps.                                         *)

\* The leading unit of a lifetime is no more than the lifetime.
LEMMA LeadingIs == \A d \in Nat : Leading(d) \in 0..d
<1> SUFFICES ASSUME NEW d \in Nat PROVE Leading(d) \in 0..d
  OBVIOUS
<1> DEFINE fitting == {s \in Units : s <= d}
<1>1. CASE fitting = {}
  BY <1>1 DEF Leading
<1>2. CASE fitting # {}
  <2> DEFINE u == CHOOSE s \in fitting : \A r \in fitting : r <= s
  <2>1. fitting \in SUBSET Nat /\ \A s \in fitting : s <= d
    BY UnitsAssumption
  <2>2. \E s \in fitting : \A r \in fitting : r <= s
    BY <1>2, <2>1, Greatest
  <2>3. u \in fitting
    BY <2>2
  <2>4. Leading(d) = d - (d % u)
    BY <1>2 DEF Leading
  <2>5. u \in Nat \ {0} /\ u <= d
    BY <2>3, UnitsAssumption
  <2> HIDE DEF u
  <2>6. d % u \in 0..(u - 1)
    BY <2>5
  <2> QED
    BY <2>4, <2>5, <2>6
<1> QED
  BY <1>1, <1>2

\* So is what frps understands of it, and nothing of one that has run out.
LEMMA FormatIs == \A d \in Int : Format(d) \in Nat /\ (d >= 0 => Format(d) <= d)
<1> SUFFICES ASSUME NEW d \in Int PROVE Format(d) \in Nat /\ (d >= 0 => Format(d) <= d)
  OBVIOUS
<1>1. CASE d <= 0
  BY <1>1 DEF Format
<1>2. CASE d > 0
  <2>1. Leading(d) \in 0..d
    BY <1>2, LeadingIs
  <2>2. Leading(d - Leading(d)) \in 0..(d - Leading(d))
    BY <2>1, LeadingIs
  <2>3. Format(d) = Leading(d) + Leading(d - Leading(d))
    BY <1>2 DEF Format
  <2> QED
    BY <1>2, <2>1, <2>2, <2>3
<1> QED
  BY <1>1, <1>2

\* An address that somebody holds has a latest expiry, and it is to come.
LEMMA ExpiryIs ==
    ASSUME Store!TypeOK, NEW ip, Store!ListActiveByIP(ip, now) # {}
    PROVE  /\ Store!EffectiveExpiry(ip, now) \in Nat
           /\ Store!EffectiveExpiry(ip, now) > now
           /\ \A i \in Store!ListActiveByIP(ip, now) :
                 grants[i].expireAt <= Store!EffectiveExpiry(ip, now)
<1> DEFINE L == Store!ListActiveByIP(ip, now)
           S == {grants[i].expireAt : i \in L}
           e == CHOOSE x \in S : \A i \in L : grants[i].expireAt <= x
<1>1. /\ grants \in Seq(Store!Grant) /\ Len(grants) \in Nat
      /\ DOMAIN grants = 1..Len(grants)
      /\ \A i \in DOMAIN grants : grants[i] \in Store!Grant
  BY LenProperties, ElementOfSeq DEF Store!TypeOK
<1>2. \A i \in L : i \in DOMAIN grants /\ grants[i].expireAt > now
  BY DEF Store!ListActiveByIP, Store!ActiveIds, Store!Active
<1>3. IsFiniteSet(L)
  <2>1. L \in SUBSET (1..Len(grants))
    BY <1>1, <1>2
  <2>2. IsFiniteSet(1..Len(grants))
    BY <1>1, FS_Interval
  <2> HIDE DEF L
  <2> QED
    BY <2>1, <2>2, FS_Subset
<1> HIDE DEF L
<1>4. S \in SUBSET Nat /\ S # {}
  BY <1>1, <1>2 DEF Store!Grant, L
<1>5. IsFiniteSet(S)
  <2> DEFINE f == [i \in L |-> grants[i].expireAt]
  <2>1. f \in Surjection(L, S)
    BY DEF Surjection
  <2> QED
    BY <1>3, <2>1, FS_Surjection
<1>6. \E x \in S : \A y \in S : y <= x
  BY <1>4, <1>5, FiniteGreatest
<1>7. \E x \in S : \A i \in L : grants[i].expireAt <= x
  BY <1>6
<1>8. e \in S /\ \A i \in L : grants[i].expireAt <= e
  BY <1>7
<1>9. Store!EffectiveExpiry(ip, now) = e
  BY DEF Store!EffectiveExpiry, L
<1> HIDE DEF e
<1> QED
  BY <1>2, <1>4, <1>8, <1>9 DEF L

\* What is read of the grants stays as it is as long as they and the clock
\* do.
LEMMA SameView ==
    ASSUME grants' = grants, now' = now
    PROVE  /\ Store!ActiveIPs(now)' = Store!ActiveIPs(now)
           /\ \A ip : /\ Store!ListActiveByIP(ip, now)' = Store!ListActiveByIP(ip, now)
                      /\ Store!EffectiveExpiry(ip, now)' = Store!EffectiveExpiry(ip, now)
<1>1. Store!ActiveIPs(now)' = Store!ActiveIPs(now)
  BY Zenon DEF Store!ActiveIPs, Store!ActiveIds, Store!Active
<1>2. \A ip : Store!ListActiveByIP(ip, now)' = Store!ListActiveByIP(ip, now)
  BY Zenon DEF Store!ListActiveByIP, Store!ActiveIds, Store!Active
<1>3. \A ip : Store!EffectiveExpiry(ip, now)' = Store!EffectiveExpiry(ip, now)
  BY Zenon
  DEF Store!EffectiveExpiry, Store!ListActiveByIP, Store!ActiveIds, Store!Active
<1> QED
  BY <1>1, <1>2, <1>3

-----------------------------------------------------------------------------
(* Types.                                                                  *)

\* A pass in progress.
PassState ==
    [phase : {"adding", "dropping"}, by : {"boot", "ticker", "admin"},
     active : SUBSET IPs, expireAt : UNION {[S -> Nat] : S \in SUBSET IPs},
     todo : SUBSET IPs, managed : SUBSET IPs, removed : SUBSET IPs]

PassTyped ==
    /\ pass = Idle \/ pass \in PassState
    /\ pass # Idle => pass.expireAt \in [pass.active -> Nat]
    /\ pass.phase = "adding" => pass.todo \subseteq pass.active /\ pass.removed = {}

\* Only what is in progress can be disturbed.
DisturbedBusy == disturbed \subseteq Busy

\* The inductive invariant behind TypeOK.
Typed == TypeOK /\ PassTyped /\ DisturbedBusy

\* The parts of TypeOK that are not the store's.
FrpsTyped == frps \in [IPs -> Nat]
ExecTyped ==
    exec \in [phase : {"idle"}] \cup
             [phase : {"adding"}, ip : IPs, ttl : Nat] \cup
             [phase : {"revoked", "removing"}, ip : IPs] \cup
             [phase : {"refreshing"}, ip : IPs, expireAt : Nat]
PostTyped == post \in [Posters -> [ips : Seq(IPs), expireAt : Nat]]
AdminTyped ==
    admin \in [phase : {"idle"}] \cup
              [phase : {"waiting", "reconciling"}, audit : Nat] \cup
              [phase : {"auditing"}, audit : Nat, ok : BOOLEAN]
RestTyped == gateway \in {"boot", "up"} /\ faults \in 0..MaxFaults

\* Typed, part by part.
LEMMA TypedIs ==
    Typed <=> /\ Store!TypeOK /\ FrpsTyped /\ ExecTyped /\ PostTyped /\ AdminTyped
              /\ RestTyped /\ PassTyped /\ DisturbedBusy
<1>1. Idle.phase = "idle" /\ \A x \in PassState : x.phase # "idle"
  BY DEF Idle, PassState
<1>2. PassTyped =>
         /\ pass.phase \in {"idle", "adding", "dropping"}
         /\ pass.phase # "idle" =>
               /\ pass.by \in {"boot", "ticker", "admin"}
               /\ pass.active \in SUBSET IPs /\ pass.todo \in SUBSET IPs
               /\ pass.managed \in SUBSET IPs /\ pass.removed \in SUBSET IPs
               /\ pass.expireAt \in [pass.active -> Nat]
  BY <1>1 DEF PassTyped, PassState
<1>3. DisturbedBusy => disturbed \in SUBSET Actors
  BY DEF DisturbedBusy, Busy
<1> QED
  BY <1>2, <1>3
  DEF Typed, TypeOK, FrpsTyped, ExecTyped, PostTyped, AdminTyped, RestTyped

\* What a pass in progress has in hand.
LEMMA PassFields ==
    ASSUME PassTyped, pass # Idle
    PROVE  /\ pass \in PassState
           /\ pass.phase \in {"adding", "dropping"} /\ pass.by \in {"boot", "ticker", "admin"}
           /\ pass.active \in SUBSET IPs /\ pass.todo \in SUBSET IPs
           /\ pass.managed \in SUBSET IPs /\ pass.removed \in SUBSET IPs
           /\ pass.expireAt \in [pass.active -> Nat]
BY DEF PassTyped, PassState

\* The pass is idle exactly in its phase "idle".
LEMMA PassIdle == PassTyped => (pass = Idle <=> pass.phase = "idle")
BY DEF PassTyped, PassState, Idle

\* The calls to frps leave numbers behind, and count faults.
LEMMA CallsTyped ==
    ASSUME Store!TypeOK, FrpsTyped, RestTyped, NEW ip \in IPs, NEW ok,
           \/ \E d \in Int : AddCall(ip, d, ok)
           \/ RemoveCall(ip, ok)
    PROVE  frps' \in [IPs -> Nat] /\ faults' \in 0..MaxFaults
<1>1. MaxFaults \in Nat /\ faults \in 0..MaxFaults /\ frps \in [IPs -> Nat] /\ now \in Nat
  BY SyncGiven DEF SyncAssumption, RestTyped, FrpsTyped, Store!TypeOK
<1>2. faults' = faults \/ Fault
  BY DEF AddCall, RemoveCall
<1>3. faults' \in 0..MaxFaults
  BY <1>1, <1>2 DEF Fault
<1>4. ASSUME NEW d \in Int, AddCall(ip, d, ok)
      PROVE  frps' \in [IPs -> Nat]
  <2>1. now + Format(d) \in Nat
    BY <1>1, FormatIs
  <2>2. frps' \in {frps, [frps EXCEPT ![ip] = now + Format(d)]}
    BY <1>4 DEF AddCall
  <2> QED
    BY <1>1, <2>1, <2>2
<1>5. ASSUME RemoveCall(ip, ok)
      PROVE  frps' \in [IPs -> Nat]
  <2>1. frps' \in {frps, [frps EXCEPT ![ip] = 0]}
    BY <1>5 DEF RemoveCall
  <2> QED
    BY <1>1, <2>1
<1> QED
  BY <1>3, <1>4, <1>5

\* The instance that the proofs about the store are taken from has the same
\* types, so that every step keeps them.
LEMMA StoreTyped == Store!TypeOK /\ [Next]_vars => Store!TypeOK'
<1>1. Store!TypeOK <=> Proved!TypeOK
  BY Zenon
  DEF Store!TypeOK, Proved!TypeOK, Store!Grant, Proved!Grant, Store!Sources,
      Proved!Sources, Store!Token, Proved!Token, Store!Attempts,
      Proved!Attempts, Store!Audit, Proved!Audit
<1>2. (Store!TypeOK <=> Proved!TypeOK)'
  BY Zenon
  DEF Store!TypeOK, Proved!TypeOK, Store!Grant, Proved!Grant, Store!Sources,
      Proved!Sources, Store!Token, Proved!Token, Store!Attempts,
      Proved!Attempts, Store!Audit, Proved!Audit
<1> SUFFICES ASSUME Store!TypeOK, [Next]_vars PROVE Store!TypeOK'
  OBVIOUS
<1>3. Proved!GoodStep
  BY <1>1, StepsOfStore, SameStore, Proved!EveryStep DEF storeVars, Store!vars
<1> QED
  BY <1>2, <1>3 DEF Proved!GoodStep

\* Every step keeps what is disturbed among what is busy.
LEMMA DisturbTyped == ASSUME NEW by, Disturb(by) PROVE DisturbedBusy'
BY DEF Disturb, DisturbedBusy

Local ==
    FrpsTyped /\ ExecTyped /\ PostTyped /\ AdminTyped /\ RestTyped /\ PassTyped /\ DisturbedBusy

\* The command in progress.
LEMMA ExecLocal == ASSUME Store!TypeOK, Local, ExecNext PROVE Local'
<1>1. DisturbedBusy'
  BY DisturbTyped DEF ExecNext, ExecCalls, ExecAdd, ExecAddCall, ExecRevoke,
     ExecDecide, ExecRefreshCall, ExecRemoveCall
<1>2. UNCHANGED <<post, admin, pass, gateway>>
  BY DEF ExecNext, ExecCalls, ExecAdd, ExecAddCall, ExecRevoke, ExecDecide,
     ExecRefreshCall, ExecRemoveCall
<1>3. PostTyped' /\ AdminTyped' /\ PassTyped'
  BY <1>2 DEF Local, PostTyped, AdminTyped, PassTyped
<1>4. now \in Nat /\ gateway' \in {"boot", "up"} /\ RestTyped /\ FrpsTyped
  BY <1>2 DEF Local, RestTyped, Store!TypeOK
<1>5. ASSUME UNCHANGED <<frps, faults>> PROVE FrpsTyped' /\ RestTyped'
  BY <1>2, <1>4, <1>5 DEF FrpsTyped, RestTyped
<1>6. Idle \in [phase : {"idle"}]
  BY DEF Idle
<1>7. ASSUME NEW u \in Users, NEW ip \in IPs, NEW text \in Texts, ExecAdd(u, ip, text)
      PROVE  ExecTyped' /\ UNCHANGED <<frps, faults>>
  <2>1. PICK ttl \in CommandTTL(text) : exec' = [phase |-> "adding", ip |-> ip, ttl |-> ttl]
    BY <1>7 DEF ExecAdd
  <2>2. ttl \in Nat
    BY SyncGiven DEF CommandTTL, CommandLifetimes, SyncAssumption, Store!StoreAssumption
  <2>3. exec' \in [phase : {"adding"}, ip : IPs, ttl : Nat]
    BY <2>1, <2>2
  <2> QED
    BY <1>7, <2>3 DEF ExecAdd, ExecTyped
<1>8. ASSUME NEW u \in Users, NEW ip \in IPs, ExecRevoke(u, ip)
      PROVE  ExecTyped' /\ UNCHANGED <<frps, faults>>
  BY <1>8 DEF ExecRevoke, ExecTyped
<1>9. ASSUME ExecDecide
      PROVE  ExecTyped' /\ frps' = frps /\ (faults' = faults \/ Fault)
  <2>1. exec.ip \in IPs
    BY <1>9 DEF ExecDecide, Local, ExecTyped
  <2>2. CASE exec' = Idle
    BY <1>6, <1>9, <2>2 DEF ExecDecide, ExecTyped
  <2>3. CASE exec' # Idle /\ Store!ListActiveByIP(exec.ip, now) # {}
    <3>1. exec' = [phase |-> "refreshing", ip |-> exec.ip,
                   expireAt |-> Store!EffectiveExpiry(exec.ip, now)]
      BY <1>9, <2>3 DEF ExecDecide
    <3>2. Store!EffectiveExpiry(exec.ip, now) \in Nat
      BY <2>3, ExpiryIs
    <3> QED
      BY <1>9, <2>1, <3>1, <3>2 DEF ExecDecide, ExecTyped
  <2>4. CASE exec' # Idle /\ Store!ListActiveByIP(exec.ip, now) = {}
    BY <1>9, <2>1, <2>4 DEF ExecDecide, ExecTyped
  <2> QED
    BY <2>2, <2>3, <2>4
<1>10. ASSUME ExecAddCall \/ ExecRefreshCall \/ ExecRemoveCall
       PROVE  ExecTyped' /\ FrpsTyped' /\ faults' \in 0..MaxFaults
  <2>1. exec' = Idle
    BY <1>10 DEF ExecAddCall, ExecRefreshCall, ExecRemoveCall
  <2>2. PICK ok \in BOOLEAN : \/ \E d \in Int : AddCall(exec.ip, d, ok)
                              \/ RemoveCall(exec.ip, ok)
    <3>1. CASE ExecAddCall
      BY <3>1 DEF ExecAddCall, Local, ExecTyped
    <3>2. CASE ExecRefreshCall
      <4>1. exec.expireAt - now \in Int
        BY <1>4, <3>2 DEF ExecRefreshCall, Local, ExecTyped
      <4> QED
        BY <3>2, <4>1 DEF ExecRefreshCall
    <3>3. CASE ExecRemoveCall
      BY <3>3 DEF ExecRemoveCall
    <3> QED
      BY <1>10, <3>1, <3>2, <3>3
  <2>3. exec.ip \in IPs
    BY <1>10 DEF ExecAddCall, ExecRefreshCall, ExecRemoveCall, Local, ExecTyped
  <2>4. frps' \in [IPs -> Nat] /\ faults' \in 0..MaxFaults
    BY <1>4, <2>2, <2>3, CallsTyped
  <2> QED
    BY <1>6, <2>1, <2>4 DEF ExecTyped, FrpsTyped
<1>11. Fault => faults' \in 0..MaxFaults
  BY SyncGiven DEF Fault, Local, RestTyped, SyncAssumption
<1>12. ExecTyped' /\ FrpsTyped' /\ RestTyped'
  <2>1. faults' \in 0..MaxFaults => RestTyped'
    BY <1>4 DEF RestTyped
  <2>2. faults' = faults => RestTyped'
    BY <1>4 DEF RestTyped
  <2>3. frps' = frps => FrpsTyped'
    BY <1>4 DEF FrpsTyped
  <2> QED
    BY <1>5, <1>7, <1>8, <1>9, <1>10, <1>11, <2>1, <2>2, <2>3 DEF ExecNext, ExecCalls
<1> QED
  BY <1>1, <1>3, <1>12 DEF Local

\* The confirmations in progress.
LEMMA PostLocal == ASSUME Store!TypeOK, Local, PostNext PROVE Local'
<1>1. DisturbedBusy'
  BY DisturbTyped DEF PostNext, PostConsume, PostCall
<1>2. UNCHANGED <<exec, admin, pass, gateway>>
  BY DEF PostNext, PostConsume, PostCall
<1>3. ExecTyped' /\ AdminTyped' /\ PassTyped'
  BY <1>2 DEF Local, ExecTyped, AdminTyped, PassTyped
<1>4. now \in Nat /\ gateway' \in {"boot", "up"} /\ RestTyped /\ FrpsTyped /\ PostTyped
  BY <1>2 DEF Local, RestTyped, Store!TypeOK
<1>5. NoPost \in [ips : Seq(IPs), expireAt : Nat]
  BY EmptySeq DEF NoPost
<1>6. ASSUME NEW p \in Posters, NEW tok \in authTokens, NEW req \in Requests,
             PostConsume(p, tok, req)
      PROVE  PostTyped' /\ FrpsTyped' /\ RestTyped'
  <2> DEFINE ips == Targets(req)
  <2>1. ips \in Seq(IPs)
    <3>1. ips \in {<<a>> : a \in IPs} \/ ips \in IPs \X IPs
      BY <1>6, TargetsAreDistinct DEF PostConsume
    <3> HIDE DEF ips
    <3>2. CASE ips \in {<<a>> : a \in IPs}
      <4>1. PICK a \in IPs : ips = <<a>>
        BY <3>2
      <4> QED
        BY <4>1
    <3>3. CASE ips \in IPs \X IPs
      <4>1. PICK a \in IPs, b \in IPs : ips = <<a, b>>
        BY <3>3
      <4> QED
        BY <4>1
    <3> QED
      BY <3>1, <3>2, <3>3
  <2>2. PICK t \in Store!Stamps :
            post' = [post EXCEPT ![p] = [ips |-> ips, expireAt |-> t + DefaultTTL]]
    BY <1>6 DEF PostConsume
  <2>3. t + DefaultTTL \in Nat
    BY SyncGiven DEF Store!Stamps, SyncAssumption, Store!StoreAssumption
  <2> HIDE DEF ips
  <2> QED
    BY <1>4, <1>6, <2>1, <2>2, <2>3 DEF PostConsume, PostTyped, FrpsTyped, RestTyped
<1>7. ASSUME NEW p \in Posters, PostCall(p)
      PROVE  PostTyped' /\ FrpsTyped' /\ RestTyped'
  <2>1. /\ post[p] \in [ips : Seq(IPs), expireAt : Nat] /\ post[p].ips # <<>>
        /\ post[p].ips \in Seq(IPs) /\ post[p].expireAt \in Nat
    BY <1>4, <1>7 DEF PostTyped, PostCall
  <2>2. Head(post[p].ips) \in IPs /\ Tail(post[p].ips) \in Seq(IPs)
    BY <2>1, HeadTailProperties
  <2>3. post[p].expireAt - now \in Int
    BY <1>4, <2>1
  <2>4. PICK ok \in BOOLEAN :
           /\ AddCall(Head(post[p].ips), post[p].expireAt - now, ok)
           /\ post' \in {[post EXCEPT ![p] = [post[p] EXCEPT !.ips = Tail(post[p].ips)]],
                         [post EXCEPT ![p] = NoPost]}
    BY <1>7 DEF PostCall
  <2>5. frps' \in [IPs -> Nat] /\ faults' \in 0..MaxFaults
    BY <1>4, <2>2, <2>3, <2>4, CallsTyped
  <2>6. [post[p] EXCEPT !.ips = Tail(post[p].ips)] \in [ips : Seq(IPs), expireAt : Nat]
    BY <2>1, <2>2
  <2>7. PostTyped'
    BY <1>4, <1>5, <2>4, <2>6 DEF PostTyped
  <2> QED
    BY <1>4, <2>5, <2>7 DEF FrpsTyped, RestTyped
<1>8. PostTyped' /\ FrpsTyped' /\ RestTyped'
  BY <1>6, <1>7 DEF PostNext
<1> QED
  BY <1>1, <1>3, <1>8 DEF Local

\* The mutation in progress.
LEMMA AdminLocal == ASSUME Store!TypeOK, Local, AdminNext PROVE Local'
<1>1. DisturbedBusy'
  BY DisturbTyped DEF AdminNext, AdminAdd, AdminExtend, AdminRevoke, AdminRecorded,
     AdminAudit
<1>2. UNCHANGED <<frps, exec, post, pass, gateway>>
  BY DEF AdminNext, AdminAdd, AdminExtend, AdminRevoke, AdminRecorded, AdminAudit
<1>3. FrpsTyped' /\ ExecTyped' /\ PostTyped' /\ PassTyped'
  BY <1>2 DEF Local, FrpsTyped, ExecTyped, PostTyped, PassTyped
<1>4. RestTyped'
  <2>1. faults' = faults \/ Fault
    BY DEF AdminNext, AdminAdd, AdminExtend, AdminRevoke, AdminRecorded, AdminAudit
  <2> QED
    BY <1>2, <2>1, SyncGiven DEF Local, RestTyped, Fault, SyncAssumption
<1>5. AdminTyped'
  <2>1. CASE AdminRecorded
    <3>1. Len(adminAudit) + 1 \in Nat
      BY LenProperties DEF Store!TypeOK
    <3> QED
      BY <2>1, <3>1 DEF AdminRecorded, AdminTyped
  <2>2. CASE AdminAudit
    BY <2>2 DEF AdminAudit, AdminTyped, Idle
  <2> QED
    BY <2>1, <2>2 DEF AdminNext, AdminAdd, AdminExtend, AdminRevoke
<1> QED
  BY <1>1, <1>3, <1>4, <1>5 DEF Local

\* The environment.
LEMMA EnvironmentLocal ==
    ASSUME Store!TypeOK, Store!TypeOK', Local,
           Environment \/ (\E m \in Messages : IssueLink(m))
    PROVE  Local'
<1>1. DisturbedBusy'
  BY DisturbTyped DEF Environment, Tick, Crash, FrpsRestart, ManualEdit, IssueLink
<1>2. \/ UNCHANGED <<exec, post, admin, pass, gateway>>
      \/ /\ exec' = Idle /\ post' = [p \in Posters |-> NoPost]
         /\ admin' = Idle /\ pass' = Idle /\ gateway' = "boot"
  BY DEF Environment, Tick, Crash, FrpsRestart, ManualEdit, IssueLink
<1>3. ExecTyped' /\ PostTyped' /\ AdminTyped' /\ PassTyped' /\ gateway' \in {"boot", "up"}
  <2>1. CASE UNCHANGED <<exec, post, admin, pass, gateway>>
    BY <2>1 DEF Local, ExecTyped, PostTyped, AdminTyped, PassTyped, RestTyped
  <2>2. CASE /\ exec' = Idle /\ post' = [p \in Posters |-> NoPost]
             /\ admin' = Idle /\ pass' = Idle /\ gateway' = "boot"
    <3>1. NoPost \in [ips : Seq(IPs), expireAt : Nat]
      BY EmptySeq DEF NoPost
    <3> QED
      BY <2>2, <3>1 DEF ExecTyped, PostTyped, AdminTyped, PassTyped, Idle
  <2> QED
    BY <1>2, <2>1, <2>2
<1>4. RestTyped'
  <2>1. faults' = faults \/ Fault
    BY DEF Environment, Tick, Crash, FrpsRestart, ManualEdit, IssueLink
  <2> QED
    BY <1>3, <2>1, SyncGiven DEF Local, RestTyped, Fault, SyncAssumption
<1>5. FrpsTyped'
  <2>1. frps \in [IPs -> Nat] /\ now \in Nat /\ DefaultTTL \in Nat
    BY SyncGiven DEF Local, FrpsTyped, Store!TypeOK, SyncAssumption, Store!StoreAssumption
  <2>2. CASE frps' = frps
    BY <2>1, <2>2 DEF FrpsTyped
  <2>3. CASE Tick
    BY <2>1, <2>3 DEF Tick, FrpsTyped
  <2>4. CASE FrpsRestart
    BY <2>4 DEF FrpsRestart, FrpsTyped
  <2>5. ASSUME NEW ip \in IPs, ManualEdit(ip) PROVE FrpsTyped'
    <3>1. PICK e \in {0, now + DefaultTTL} : frps' = [frps EXCEPT ![ip] = e]
      BY <2>5 DEF ManualEdit
    <3>2. e \in Nat
      BY <2>1
    <3> QED
      BY <2>1, <3>1, <3>2 DEF FrpsTyped
  <2> QED
    BY <2>2, <2>3, <2>4, <2>5 DEF Environment, Crash, IssueLink
<1> QED
  BY <1>1, <1>3, <1>4, <1>5 DEF Local

\* What the end of a pass leaves.
LEMMA ReturnTyped ==
    ASSUME Local, NEW by, NEW ok \in BOOLEAN, Return(by, ok),
           by = "admin" => admin.phase \in {"waiting", "reconciling"}
    PROVE  AdminTyped' /\ PassTyped' /\ gateway' \in {"boot", "up"}
<1>1. PassTyped'
  BY DEF Return, PassTyped, Idle
<1>2. gateway' \in {"boot", "up"}
  BY DEF Return, Local, RestTyped
<1>3. CASE by = "admin"
  <2>1. admin.audit \in Nat
    BY <1>3 DEF Local, AdminTyped
  <2>2. admin' = [phase |-> "auditing", audit |-> admin.audit, ok |-> ok]
    BY <1>3 DEF Return
  <2> QED
    BY <1>1, <1>2, <2>1, <2>2 DEF AdminTyped
<1>4. CASE by # "admin"
  <2>1. admin' = admin
    BY <1>4 DEF Return
  <2> QED
    BY <1>1, <1>2, <2>1 DEF Local, AdminTyped
<1> QED
  BY <1>3, <1>4

\* The console waits for its pass, and shares its luck.
ConsoleWaits ==
    pass # Idle /\ pass.by = "admin" =>
        /\ admin.phase = "reconciling"
        /\ "pass" \in disturbed => "admin" \in disturbed

\* The pass in progress.
LEMMA PassLocal ==
    ASSUME Store!TypeOK, Local, ConsoleWaits, PassNext
    PROVE  Local'
<1>1. DisturbedBusy'
  BY DisturbTyped DEF PassNext, PassStep, PassStart, PassAdd, PassListManaged,
     PassRemove, PassForget, PassDone, PassAbort
<1>2. UNCHANGED <<exec, post>>
  BY DEF PassNext, PassStep, PassStart, PassAdd, PassListManaged, PassRemove,
     PassForget, PassDone, PassAbort
<1>3. ExecTyped' /\ PostTyped'
  BY <1>2 DEF Local, ExecTyped, PostTyped
<1>4. /\ now \in Nat /\ FrpsTyped /\ RestTyped /\ AdminTyped /\ PassTyped
      /\ managedIPs \in SUBSET IPs
  BY DEF Local, Store!TypeOK
<1>5. pass # Idle /\ pass.by = "admin" => admin.phase \in {"waiting", "reconciling"}
  BY DEF ConsoleWaits
<1>6. Fault => faults' \in 0..MaxFaults
  BY SyncGiven DEF Fault, Local, RestTyped, SyncAssumption
<1>7. ASSUME NEW by \in {"boot", "ticker", "admin"}, PassStart(by)
      PROVE  Local'
  <2> DEFINE active == Store!ActiveIPs(now)
             f == [ip \in active |-> Store!EffectiveExpiry(ip, now)]
  <2>1. /\ pass' = [phase |-> "adding", by |-> by, active |-> active,
                    expireAt |-> f, todo |-> active, managed |-> {}, removed |-> {}]
        /\ UNCHANGED <<frps, gateway, faults>>
    BY <1>7 DEF PassStart
  <2>2. active \in SUBSET IPs
    <3>1. \A i \in DOMAIN grants : grants[i].ip \in IPs
      <4>1. grants \in Seq(Store!Grant)
        BY DEF Store!TypeOK
      <4>2. /\ DOMAIN grants = 1..Len(grants)
            /\ \A i \in 1..Len(grants) : grants[i] \in Store!Grant
        BY <4>1, LenProperties, ElementOfSeq
      <4> QED
        BY <4>2 DEF Store!Grant
    <3> QED
      BY <3>1 DEF Store!ActiveIPs, Store!ActiveIds
  <2>3. \A ip \in active : Store!ListActiveByIP(ip, now) # {}
    BY DEF Store!ActiveIPs, Store!ListActiveByIP
  <2>4. \A ip \in active : Store!EffectiveExpiry(ip, now) \in Nat
    BY <2>3, ExpiryIs
  <2> HIDE DEF active
  <2>5. f \in [active -> Nat]
    BY <2>4
  <2> HIDE DEF f
  <2>6. pass' \in PassState
    BY <2>1, <2>2, <2>5 DEF PassState
  <2>7. PassTyped'
    BY <2>1, <2>5, <2>6 DEF PassTyped
  <2>8. AdminTyped'
    BY <1>4, <1>7 DEF PassStart, MayStart, AdminTyped
  <2> QED
    BY <1>1, <1>3, <1>4, <2>1, <2>7, <2>8 DEF Local, FrpsTyped, RestTyped
<1>8. ASSUME NEW ip \in IPs, PassAdd(ip) \/ PassRemove(ip)
      PROVE  Local'
  <2>1. pass # Idle /\ ip \in pass.todo
    <3>1. pass.phase # "idle" /\ ip \in pass.todo
      BY <1>8 DEF PassAdd, PassRemove
    <3> QED
      BY <1>4, <3>1, PassIdle
  <2>2. PICK ok \in BOOLEAN :
           /\ \/ \E d \in Int : AddCall(ip, d, ok)
              \/ RemoveCall(ip, ok)
           /\ \/ /\ pass' \in {[pass EXCEPT !.todo = @ \ {ip}],
                               [pass EXCEPT !.removed = {ip}, !.todo = @ \ {ip}]}
                 /\ pass.phase = "adding" => pass' = [pass EXCEPT !.todo = @ \ {ip}]
                 /\ UNCHANGED <<admin, gateway>>
              \/ Return(pass.by, FALSE)
    <3>1. CASE PassAdd(ip)
      <4>1. pass.expireAt[ip] - now \in Int
        BY <1>4, <2>1, <3>1, PassFields DEF PassAdd, PassTyped
      <4> QED
        BY <3>1, <4>1 DEF PassAdd
    <3>2. CASE PassRemove(ip)
      BY <3>2 DEF PassRemove
    <3> QED
      BY <1>8, <3>1, <3>2
  <2>3. frps' \in [IPs -> Nat] /\ faults' \in 0..MaxFaults
    BY <1>4, <2>2, CallsTyped
  <2>4. CASE Return(pass.by, FALSE)
    BY <1>1, <1>3, <1>5, <2>1, <2>3, <2>4, ReturnTyped DEF Local, FrpsTyped, RestTyped
  <2>5. CASE ~Return(pass.by, FALSE)
    <3>1. PassTyped'
      <4>1. pass \in PassState
        BY <1>4, <2>1, PassFields
      <4> DEFINE rest == pass.todo \ {ip}
      <4>2. rest \in SUBSET IPs /\ rest \subseteq pass.todo /\ {ip} \in SUBSET IPs
        BY <4>1 DEF PassState
      <4>3. \/ pass' = [pass EXCEPT !.todo = rest]
            \/ pass' = [pass EXCEPT !.removed = {ip}, !.todo = rest] /\ pass.phase # "adding"
        BY <2>2, <2>5
      <4> HIDE DEF rest
      <4>4. pass' \in PassState /\ pass'.expireAt = pass.expireAt /\ pass'.active = pass.active
        BY <4>2, <4>1, <4>3 DEF PassState
      <4>5. pass'.phase = "adding" =>
               pass.phase = "adding" /\ pass'.todo \subseteq pass.todo
               /\ pass'.removed = pass.removed
        BY <4>2, <4>1, <4>3 DEF PassState
      <4> QED
        BY <1>4, <2>1, <4>4, <4>5 DEF PassTyped
    <3>2. AdminTyped' /\ gateway' \in {"boot", "up"}
      BY <1>4, <2>2, <2>5 DEF AdminTyped, RestTyped
    <3> QED
      BY <1>1, <1>3, <2>3, <3>1, <3>2 DEF Local, FrpsTyped, RestTyped
  <2> QED
    BY <2>4, <2>5
<1>9. ASSUME PassListManaged \/ \E ip \in IPs : PassForget(ip)
      PROVE  Local'
  <2>1. pass # Idle /\ pass \in PassState
    BY <1>4, <1>9, PassFields DEF PassListManaged, PassForget, Idle
  <2>2. /\ UNCHANGED <<frps, admin, gateway, faults>>
        /\ \/ /\ pass.phase = "dropping" /\ pass' = [pass EXCEPT !.removed = {}]
           \/ pass' = [pass EXCEPT !.phase = "dropping", !.managed = managedIPs,
                                   !.todo = managedIPs \ pass.active]
    BY <1>9 DEF PassListManaged, PassForget
  <2>3. /\ pass' \in PassState /\ pass'.expireAt = pass.expireAt /\ pass'.active = pass.active
        /\ pass'.phase = "dropping"
    BY <1>4, <2>1, <2>2 DEF PassState
  <2>4. PassTyped'
    BY <1>4, <2>1, <2>3 DEF PassTyped
  <2> QED
    BY <1>1, <1>3, <1>4, <2>2, <2>4 DEF Local, FrpsTyped, AdminTyped, RestTyped
<1>10. ASSUME PassDone \/ PassAbort
       PROVE  Local'
  <2>1. /\ frps' = frps /\ (faults' = faults \/ Fault)
        /\ \E ok \in BOOLEAN : \E by :
              Return(by, ok) /\ (by = "admin" => admin.phase \in {"waiting", "reconciling"})
    <3>1. CASE PassDone
      <4>1. pass # Idle
        BY <3>1 DEF PassDone, PassComplete, Idle
      <4> QED
        BY <1>5, <3>1, <4>1 DEF PassDone
    <3>2. CASE PassAbort
      BY <1>5, <3>2 DEF PassAbort, MayStart
    <3> QED
      BY <1>10, <3>1, <3>2
  <2>2. AdminTyped' /\ PassTyped' /\ gateway' \in {"boot", "up"}
    BY <2>1, ReturnTyped
  <2> QED
    BY <1>1, <1>3, <1>4, <1>6, <2>1, <2>2 DEF Local, FrpsTyped, RestTyped
<1> QED
  BY <1>7, <1>8, <1>9, <1>10 DEF PassNext, PassStep

\* All steps.
LEMMA TypedStep == Typed /\ ConsoleWaits /\ [Next]_vars => Typed'
<1> SUFFICES ASSUME Typed, ConsoleWaits, [Next]_vars PROVE Typed'
  OBVIOUS
<1>1. Store!TypeOK /\ Local
  BY TypedIs DEF Local
<1>2. Store!TypeOK'
  BY <1>1, StoreTyped
<1>3. Local'
  <2>1. CASE UNCHANGED vars
    BY <1>1, <2>1 DEF vars, storeVars, Local, FrpsTyped, ExecTyped, PostTyped, AdminTyped,
       RestTyped, PassTyped, DisturbedBusy, Busy
  <2> QED
    BY <1>1, <1>2, <2>1, ExecLocal, PostLocal, AdminLocal, PassLocal, EnvironmentLocal
    DEF Next
<1>4. (Typed <=> Store!TypeOK /\ Local)'
  BY TypedIs, PTL DEF Local
<1> QED
  BY <1>2, <1>3, <1>4

-----------------------------------------------------------------------------
(* Operations that nothing disturbed.                                      *)

\* The entry of ip is what its latest expiry asks for.
Synced(ip) == frps[ip] = now + Format(Store!EffectiveExpiry(ip, now) - now)

\* While a pass adds: what it has done is in step.
AddedSynced == \A ip \in pass.active \ pass.todo : Synced(ip)

\* While it drops: all that is granted is in step; of the rest that it found
\* managed, each address is still to be removed, removed or forgotten.
DroppedRest ==
    /\ \A ip \in pass.active : Synced(ip)
    /\ pass.todo \cap pass.removed = {}
    /\ \A x, y \in pass.removed : x = y
    /\ managedIPs = (pass.managed \cap pass.active) \cup pass.todo \cup pass.removed
    /\ pass.todo \cup pass.removed \subseteq pass.managed \ pass.active
    /\ \A ip \in (pass.managed \ pass.active) \ pass.todo : frps[ip] <= now

\* What an undisturbed pass has read is still so, and what it did still there.
PassView ==
    pass # Idle /\ "pass" \notin disturbed =>
        /\ pass.active = Store!ActiveIPs(now)
        /\ \A ip \in pass.active : pass.expireAt[ip] = Store!EffectiveExpiry(ip, now)
        /\ pass.phase = "adding" => AddedSynced
        /\ pass.phase = "dropping" => DroppedRest

\* A mutation whose pass has returned without an error.
AdminView ==
    admin.phase = "auditing" /\ admin.ok /\ "admin" \notin disturbed =>
        \A ip \in Store!ActiveIPs(now) : Synced(ip)

\* A command that has read that nobody else holds its address.
ExecView ==
    exec.phase = "removing" /\ "exec" \notin disturbed =>
        Store!ListActiveByIP(exec.ip, now) = {}

\* The inductive invariant.
Views == Typed /\ ConsoleWaits /\ PassView /\ AdminView /\ ExecView

\* Who ends a step undisturbed was so before, did not fail in it, and saw
\* nobody else change anything.
LEMMA Undisturbed ==
    ASSUME DisturbedBusy, NEW by, Disturb(by), NEW a \in Actors, a \in Busy', a \notin disturbed'
    PROVE  /\ a \notin disturbed
           /\ a \in Busy /\ a \notin by => UNCHANGED <<grants, managedIPs, frps, now>>
           /\ a \in by => faults' = faults
<1> DEFINE changed == <<grants, managedIPs, frps, now>>' # <<grants, managedIPs, frps, now>>
           hit == (IF changed THEN Busy \ by ELSE {}) \cup (IF faults' # faults THEN by ELSE {})
<1>1. disturbed' = (disturbed \cup hit) \cap Busy'
  BY DEF Disturb
<1>2. a \notin disturbed /\ a \notin hit
  BY <1>1
<1> QED
  BY <1>2

\* Nobody is busy under another's name.
LEMMA Names ==
    /\ "exec" \in Actors /\ "pass" \in Actors /\ "admin" \in Actors
    /\ "exec" \in Busy <=> exec.phase # "idle"
    /\ "pass" \in Busy <=> pass.phase # "idle"
    /\ "admin" \in Busy <=> admin.phase # "idle"
    /\ \A p \in Posters : p # "exec" /\ p # "pass" /\ p # "admin"
<1>1. \A p \in Posters : p # "exec" /\ p # "pass" /\ p # "admin"
  BY SyncGiven DEF SyncAssumption
<1> QED
  BY <1>1 DEF Busy, Actors

\* The steps of everyone but the reconciler leave the pass as it is, or kill
\* it, and are not counted as its own.
LEMMA PassFrame ==
    ASSUME Next, ~PassNext
    PROVE  \/ pass' = Idle
           \/ pass' = pass /\ \E by : Disturb(by) /\ "pass" \notin by
                                      /\ ("admin" \in by => AdminNext)
<1>1. ExecNext => pass' = pass /\ Disturb({"exec"})
  BY DEF ExecNext, ExecCalls, ExecAdd, ExecAddCall, ExecRevoke, ExecDecide,
     ExecRefreshCall, ExecRemoveCall
<1>2. PostNext => pass' = pass /\ \E p \in Posters : Disturb({p})
  BY DEF PostNext, PostConsume, PostCall
<1>3. AdminNext => pass' = pass /\ Disturb({"admin"})
  BY DEF AdminNext, AdminAdd, AdminExtend, AdminRevoke, AdminRecorded, AdminAudit
<1>4. Environment \/ (\E m \in Messages : IssueLink(m)) =>
          pass' = Idle \/ (pass' = pass /\ Disturb({}))
  BY DEF Environment, Tick, Crash, FrpsRestart, ManualEdit, IssueLink
<1> DEFINE Kept == pass' = pass /\ \E by : /\ Disturb(by) /\ "pass" \notin by
                                         /\ ("admin" \in by => AdminNext)
<1>5. ASSUME NEW by, pass' = pass, Disturb(by), "pass" \notin by, "admin" \in by => AdminNext
      PROVE  Kept
  BY <1>5
<1>6. ExecNext => Kept
  BY <1>1, <1>5
<1>7. PostNext => Kept
  <2> SUFFICES ASSUME NEW p \in Posters, Disturb({p}), pass' = pass PROVE Kept
    BY <1>2
  <2> QED
    BY <1>5, Names
<1>8. AdminNext => Kept
  BY <1>3, <1>5
<1>9. Environment \/ (\E m \in Messages : IssueLink(m)) => pass' = Idle \/ Kept
  BY <1>4, <1>5
<1> HIDE DEF Kept
<1>10. pass' = Idle \/ Kept
  BY <1>6, <1>7, <1>8, <1>9 DEF Next
<1> QED
  BY <1>10 DEF Kept

\* A pass that starts has not been disturbed.
LEMMA StartUndisturbed ==
    ASSUME Typed, NEW by, PassStart(by)
    PROVE  /\ "pass" \notin disturbed'
           /\ UNCHANGED <<grants, managedIPs, frps, now>>
<1>1. pass = Idle /\ faults' = faults /\ UNCHANGED <<storeVars, frps>> /\ Disturb(Reconciler)
  BY DEF PassStart, MayStart
<1>2. "pass" \notin Busy
  BY <1>1, Names DEF Idle
<1>3. "pass" \notin disturbed
  BY <1>2 DEF Typed, DisturbedBusy
<1> QED
  BY <1>1, <1>2, <1>3 DEF Disturb, storeVars

\* The console waits, and what disturbs its pass disturbs it.
LEMMA ConsoleWaitsStep ==
    ASSUME Typed, ConsoleWaits, Next
    PROVE  ConsoleWaits'
<1> SUFFICES ASSUME pass' # Idle, pass'.by = "admin"
             PROVE  /\ admin'.phase = "reconciling"
                    /\ "pass" \in disturbed' => "admin" \in disturbed'
  BY DEF ConsoleWaits
<1>1. PassTyped /\ DisturbedBusy
  BY DEF Typed
<1>2. ASSUME NEW by, Disturb(by), "pass" \in by <=> "admin" \in by,
             pass # Idle, pass.by = "admin", admin' = admin
      PROVE  /\ admin'.phase = "reconciling"
             /\ "pass" \in disturbed' => "admin" \in disturbed'
  <2>1. admin.phase = "reconciling" /\ ("pass" \in disturbed => "admin" \in disturbed)
    BY <1>2 DEF ConsoleWaits
  <2>2. "admin" \in Busy /\ "admin" \in Busy'
    BY <1>2, <2>1 DEF Busy, Actors
  <2> QED
    BY <1>2, <2>1, <2>2 DEF Disturb
<1>3. CASE ~PassNext
  <2>1. PICK by : /\ Disturb(by) /\ "pass" \notin by
                  /\ ("admin" \in by => AdminNext) /\ pass' = pass
    BY <1>3, PassFrame
  <2>2. pass # Idle /\ pass.by = "admin" /\ admin.phase = "reconciling"
    BY <2>1 DEF ConsoleWaits
  <2>3. ~AdminNext
    BY <2>2 DEF AdminNext, AdminAdd, AdminExtend, AdminRevoke, AdminReady, AdminAudit, Idle
  <2>4. admin' = admin
    <3>1. ~Crash
      BY <2>1, <2>2 DEF Crash
    <3> QED
      BY <1>3, <2>3, <3>1 DEF Next, ExecNext, ExecCalls, ExecAdd, ExecAddCall, ExecRevoke,
         ExecDecide, ExecRefreshCall, ExecRemoveCall, PostNext, PostConsume, PostCall,
         Environment, Tick, FrpsRestart, ManualEdit, IssueLink
  <2> QED
    BY <1>2, <2>1, <2>2, <2>3, <2>4
<1>4. ASSUME NEW by, PassStart(by)
      PROVE  /\ admin'.phase = "reconciling"
             /\ "pass" \in disturbed' => "admin" \in disturbed'
  <2>1. /\ by = "admin" /\ admin.phase = "waiting"
        /\ admin' = [admin EXCEPT !.phase = "reconciling"]
    BY <1>4 DEF PassStart, MayStart
  <2>2. admin'.phase = "reconciling"
    BY <2>1 DEF Typed, TypeOK
  <2> QED
    BY <1>4, <2>2, StartUndisturbed
<1>5. CASE PassStep \/ PassAbort
  <2>1. /\ Disturb(Reconciler) /\ UNCHANGED admin /\ pass # Idle /\ pass.by = pass'.by
    <3>1. ASSUME NEW by, NEW ok, Return(by, ok) PROVE FALSE
      BY <3>1 DEF Return
    <3>2. pass # Idle
      BY <1>5, <3>1, PassIdle, <1>1 DEF PassStep, PassAbort, PassAdd, PassRemove, PassForget,
         PassListManaged, PassDone, PassComplete
    <3>3. pass \in PassState
      BY <1>1, <3>2, PassFields
    <3>4. /\ UNCHANGED admin
          /\ \/ \E x : pass' = [pass EXCEPT !.todo = x]
             \/ \E x, y : pass' = [pass EXCEPT !.removed = x, !.todo = y]
             \/ \E x : pass' = [pass EXCEPT !.removed = x]
             \/ \E x, y : pass' = [pass EXCEPT !.phase = "dropping", !.managed = x, !.todo = y]
      BY <1>5, <3>1 DEF PassStep, PassAbort, PassAdd, PassRemove, PassForget,
         PassListManaged, PassDone
    <3>5. pass.by = pass'.by
      BY <3>3, <3>4 DEF PassState
    <3>6. Disturb(Reconciler)
      BY <1>5 DEF PassStep, PassAbort, PassAdd, PassRemove, PassForget,
         PassListManaged, PassDone
    <3> QED
      BY <3>2, <3>4, <3>5, <3>6
  <2>2. Reconciler = {"pass", "admin"}
    BY <1>1, <2>1, PassIdle DEF Reconciler
  <2> QED
    BY <1>2, <2>1, <2>2
<1> QED
  BY <1>3, <1>4, <1>5 DEF PassNext


-----------------------------------------------------------------------------
(* The steps of the reconciler.                                            *)

\* A step with nothing but the clock, the grants and the entries to look at.
LEMMA SameSynced ==
    ASSUME UNCHANGED <<grants, now, frps>>
    PROVE  \A ip : Synced(ip)' <=> Synced(ip)
BY SameView DEF Synced

\* A pass that adds an address.
LEMMA PassAddView ==
    ASSUME Typed, PassView, NEW ip \in IPs, PassAdd(ip)
    PROVE  PassView'
<1> SUFFICES ASSUME pass' # Idle, "pass" \notin disturbed'
             PROVE  PassView'
  BY DEF PassView
<1>1. /\ Disturb(Reconciler) /\ UNCHANGED storeVars
      /\ pass.phase = "adding" /\ ip \in pass.todo
  BY DEF PassAdd
<1>2. PassTyped /\ DisturbedBusy /\ Store!TypeOK /\ frps \in [IPs -> Nat]
  BY DEF Typed, TypeOK
<1>3. pass \in PassState /\ pass # Idle
  BY <1>1, <1>2, PassFields, PassIdle
<1>4. PICK ok \in BOOLEAN :
         /\ AddCall(ip, pass.expireAt[ip] - now, ok)
         /\ IF ok THEN pass' = [pass EXCEPT !.todo = @ \ {ip}] ELSE Return(pass.by, FALSE)
  BY DEF PassAdd
<1>5. ok /\ pass' = [pass EXCEPT !.todo = @ \ {ip}]
  BY <1>4 DEF Return
<1>6. /\ pass' \in PassState
      /\ pass'.active = pass.active /\ pass'.expireAt = pass.expireAt
      /\ pass'.phase = "adding" /\ pass'.todo = pass.todo \ {ip}
  <2> DEFINE rest == pass.todo \ {ip}
  <2>1. rest \in SUBSET IPs /\ pass' = [pass EXCEPT !.todo = rest]
    BY <1>3, <1>5 DEF PassState
  <2> HIDE DEF rest
  <2>2. pass' \in PassState /\ pass'.active = pass.active
        /\ pass'.expireAt = pass.expireAt /\ pass'.phase = pass.phase /\ pass'.todo = rest
    BY <1>3, <2>1 DEF PassState
  <2> QED
    BY <1>1, <2>2 DEF rest
<1>7. "pass" \in Busy' /\ "pass" \in Actors
  BY <1>6 DEF Busy, Actors, PassState
<1>8. "pass" \notin disturbed
  BY <1>1, <1>2, <1>7, Undisturbed
<1>9. /\ pass.active = Store!ActiveIPs(now)
      /\ \A x \in pass.active : pass.expireAt[x] = Store!EffectiveExpiry(x, now)
      /\ \A x \in pass.active \ pass.todo : Synced(x)
  BY <1>1, <1>3, <1>8 DEF PassView, AddedSynced
<1>10. UNCHANGED <<grants, now>>
  BY <1>1 DEF storeVars
<1>11. frps' = [frps EXCEPT ![ip] = now + Format(pass.expireAt[ip] - now)]
  BY <1>4, <1>5 DEF AddCall
<1>12. ip \in pass.active
  BY <1>1, <1>2 DEF PassTyped
<1>13. \A x : Store!EffectiveExpiry(x, now)' = Store!EffectiveExpiry(x, now)
  BY <1>10, SameView
<1>14. Store!ActiveIPs(now)' = Store!ActiveIPs(now)
  BY <1>10, SameView
<1>15. pass.active \subseteq IPs
  BY <1>3 DEF PassState
<1>16. \A x \in pass.active \ (pass.todo \ {ip}) : Synced(x)'
  BY <1>2, <1>9, <1>10, <1>11, <1>12, <1>13, <1>15 DEF Synced
<1> QED
  BY <1>6, <1>9, <1>13, <1>14, <1>16 DEF PassView, AddedSynced

\* A pass that reads the managed addresses.
LEMMA PassListView ==
    ASSUME Typed, PassView, PassListManaged
    PROVE  PassView'
<1> SUFFICES ASSUME pass' # Idle, "pass" \notin disturbed'
             PROVE  PassView'
  BY DEF PassView
<1>1. /\ Disturb(Reconciler) /\ UNCHANGED <<storeVars, frps>>
      /\ pass.phase = "adding" /\ pass.todo = {}
      /\ pass' = [pass EXCEPT !.phase = "dropping", !.managed = managedIPs,
                              !.todo = managedIPs \ pass.active]
  BY DEF PassListManaged
<1>2. PassTyped /\ DisturbedBusy
  BY DEF Typed
<1>3. pass \in PassState /\ pass # Idle /\ pass.removed = {}
  BY <1>1, <1>2, PassFields, PassIdle DEF PassTyped
<1>4. /\ pass'.phase = "dropping" /\ pass'.managed = managedIPs
      /\ pass'.todo = managedIPs \ pass.active /\ pass'.removed = {}
      /\ pass'.active = pass.active /\ pass'.expireAt = pass.expireAt
  BY <1>1, <1>3 DEF PassState
<1>5. "pass" \in Busy' /\ "pass" \in Actors
  BY <1>4 DEF Busy, Actors
<1>6. "pass" \notin disturbed
  BY <1>1, <1>2, <1>5, Undisturbed
<1>7. /\ pass.active = Store!ActiveIPs(now)
      /\ \A x \in pass.active : pass.expireAt[x] = Store!EffectiveExpiry(x, now)
      /\ \A x \in pass.active : Synced(x)
  BY <1>1, <1>3, <1>6 DEF PassView, AddedSynced
<1>8. UNCHANGED <<grants, now, frps, managedIPs>>
  BY <1>1 DEF storeVars
<1>9. DroppedRest'
  BY <1>4, <1>7, <1>8, SameSynced DEF DroppedRest
<1> QED
  BY <1>4, <1>7, <1>8, <1>9, SameView DEF PassView

\* A pass that removes an address.
LEMMA PassRemoveView ==
    ASSUME Typed, PassView, NEW ip \in IPs, PassRemove(ip)
    PROVE  PassView'
<1> SUFFICES ASSUME pass' # Idle, "pass" \notin disturbed'
             PROVE  PassView'
  BY DEF PassView
<1>1. /\ Disturb(Reconciler) /\ UNCHANGED storeVars
      /\ pass.phase = "dropping" /\ ip \in pass.todo /\ pass.removed = {}
  BY DEF PassRemove
<1>2. PassTyped /\ DisturbedBusy /\ frps \in [IPs -> Nat] /\ now \in Nat
  BY DEF Typed, TypeOK, Store!TypeOK
<1>3. pass \in PassState /\ pass # Idle
  BY <1>1, <1>2, PassFields, PassIdle
<1>4. PICK ok \in BOOLEAN :
         /\ RemoveCall(ip, ok)
         /\ IF ok THEN pass' = [pass EXCEPT !.removed = {ip}, !.todo = @ \ {ip}]
            ELSE Return(pass.by, FALSE)
  BY DEF PassRemove
<1>5. ok /\ pass' = [pass EXCEPT !.removed = {ip}, !.todo = @ \ {ip}]
  BY <1>4 DEF Return
<1>6. /\ pass'.phase = "dropping" /\ pass'.managed = pass.managed
      /\ pass'.todo = pass.todo \ {ip} /\ pass'.removed = {ip}
      /\ pass'.active = pass.active /\ pass'.expireAt = pass.expireAt
  BY <1>1, <1>3, <1>5 DEF PassState
<1>7. "pass" \in Busy' /\ "pass" \in Actors
  BY <1>6 DEF Busy, Actors
<1>8. "pass" \notin disturbed
  BY <1>1, <1>2, <1>7, Undisturbed
<1>9. /\ pass.active = Store!ActiveIPs(now)
      /\ \A x \in pass.active : pass.expireAt[x] = Store!EffectiveExpiry(x, now)
      /\ DroppedRest
  BY <1>1, <1>3, <1>8 DEF PassView
<1>10. UNCHANGED <<grants, now, managedIPs>>
  BY <1>1 DEF storeVars
<1>11. frps' = [frps EXCEPT ![ip] = 0]
  BY <1>4, <1>5 DEF RemoveCall
<1>12. ip \notin pass.active
  BY <1>1, <1>9 DEF DroppedRest
<1>13. \A x : Store!EffectiveExpiry(x, now)' = Store!EffectiveExpiry(x, now)
  BY <1>10, SameView
<1>14. \A x \in pass.active : Synced(x)'
  BY <1>9, <1>10, <1>11, <1>12, <1>13 DEF Synced, DroppedRest
<1>15. pass.managed \subseteq IPs
  BY <1>3 DEF PassState
<1>16. \A x \in (pass.managed \ pass.active) \ (pass.todo \ {ip}) : frps'[x] <= now
  BY <1>2, <1>9, <1>11, <1>15 DEF DroppedRest
<1>17. DroppedRest'
  <2>1. managedIPs' = (pass'.managed \cap pass'.active) \cup pass'.todo \cup pass'.removed
    BY <1>1, <1>6, <1>9, <1>10 DEF DroppedRest
  <2>2. pass'.todo \cup pass'.removed \subseteq pass'.managed \ pass'.active
    BY <1>1, <1>6, <1>9 DEF DroppedRest
  <2>3. pass'.todo \cap pass'.removed = {} /\ \A x, y \in pass'.removed : x = y
    BY <1>6
  <2> QED
    BY <1>6, <1>10, <1>14, <1>16, <2>1, <2>2, <2>3 DEF DroppedRest
<1> QED
  BY <1>6, <1>9, <1>10, <1>13, <1>17, SameView DEF PassView

\* A pass that forgets the address it has removed.
LEMMA PassForgetView ==
    ASSUME Typed, PassView, NEW ip \in IPs, PassForget(ip)
    PROVE  PassView'
<1> SUFFICES ASSUME pass' # Idle, "pass" \notin disturbed'
             PROVE  PassView'
  BY DEF PassView
<1>1. /\ Disturb(Reconciler) /\ UNCHANGED <<grants, now, frps>>
      /\ pass.phase = "dropping" /\ ip \in pass.removed
      /\ managedIPs' = managedIPs \ {ip}
      /\ pass' = [pass EXCEPT !.removed = {}]
  BY DEF PassForget, Store!ForgetManagedIP
<1>2. PassTyped /\ DisturbedBusy
  BY DEF Typed
<1>3. pass \in PassState /\ pass # Idle
  BY <1>1, <1>2, PassFields, PassIdle
<1>4. /\ pass'.phase = "dropping" /\ pass'.managed = pass.managed
      /\ pass'.todo = pass.todo /\ pass'.removed = {}
      /\ pass'.active = pass.active /\ pass'.expireAt = pass.expireAt
  BY <1>1, <1>3 DEF PassState
<1>5. "pass" \in Busy' /\ "pass" \in Actors
  BY <1>4 DEF Busy, Actors
<1>6. "pass" \notin disturbed
  BY <1>1, <1>2, <1>5, Undisturbed
<1>7. /\ pass.active = Store!ActiveIPs(now)
      /\ \A x \in pass.active : pass.expireAt[x] = Store!EffectiveExpiry(x, now)
      /\ DroppedRest
  BY <1>1, <1>3, <1>6 DEF PassView
<1>8. pass.removed = {ip} /\ ip \notin pass.todo /\ ip \notin pass.active
  BY <1>1, <1>7 DEF DroppedRest
<1>9. DroppedRest'
  <2>1. managedIPs' = (pass'.managed \cap pass'.active) \cup pass'.todo \cup pass'.removed
    BY <1>1, <1>4, <1>7, <1>8 DEF DroppedRest
  <2>2. \A x \in pass'.active : Synced(x)'
    BY <1>1, <1>4, <1>7, SameSynced DEF DroppedRest
  <2>3. pass'.todo \cup pass'.removed \subseteq pass'.managed \ pass'.active
    BY <1>4, <1>7 DEF DroppedRest
  <2>4. \A x \in (pass'.managed \ pass'.active) \ pass'.todo : frps'[x] <= now'
    BY <1>1, <1>4, <1>7 DEF DroppedRest
  <2> QED
    BY <1>4, <2>1, <2>2, <2>3, <2>4 DEF DroppedRest
<1> QED
  BY <1>1, <1>4, <1>7, <1>9, SameView DEF PassView

\* A pass that starts.
LEMMA PassStartView ==
    ASSUME Typed, NEW by, PassStart(by)
    PROVE  PassView'
<1> DEFINE active == Store!ActiveIPs(now)
           f == [ip \in active |-> Store!EffectiveExpiry(ip, now)]
<1>1. pass' = [phase |-> "adding", by |-> by, active |-> active, expireAt |-> f,
               todo |-> active, managed |-> {}, removed |-> {}]
  BY DEF PassStart
<1>2. UNCHANGED <<grants, now>>
  BY StartUndisturbed
<1>3. Store!ActiveIPs(now)' = active
      /\ \A ip : Store!EffectiveExpiry(ip, now)' = Store!EffectiveExpiry(ip, now)
  BY <1>2, SameView
<1>4. \A ip \in active : f[ip] = Store!EffectiveExpiry(ip, now)
  OBVIOUS
<1> HIDE DEF active, f
<1>5. /\ pass'.active = active /\ pass'.expireAt = f /\ pass'.todo = active
      /\ pass'.phase = "adding"
  BY <1>1
<1> QED
  BY <1>3, <1>4, <1>5 DEF PassView, AddedSynced

\* Everyone else's steps.
LEMMA PassViewStep ==
    ASSUME Typed, PassView, Next
    PROVE  PassView'
<1>1. PassTyped /\ DisturbedBusy
  BY DEF Typed
<1>2. ASSUME pass' = Idle PROVE PassView'
  BY <1>2 DEF PassView
<1>3. CASE ~PassNext
  <2>1. CASE pass' = pass /\ pass # Idle
    <3> SUFFICES ASSUME "pass" \notin disturbed' PROVE PassView'
      BY DEF PassView
    <3>1. PICK by : Disturb(by) /\ "pass" \notin by
      BY <1>3, <2>1, PassFrame
    <3>2. "pass" \in Busy /\ "pass" \in Busy' /\ "pass" \in Actors
      BY <1>1, <2>1, PassIdle DEF Busy, Actors
    <3>3. "pass" \notin disturbed /\ UNCHANGED <<grants, managedIPs, frps, now>>
      BY <1>1, <3>1, <3>2, Undisturbed
    <3>4. /\ Store!ActiveIPs(now)' = Store!ActiveIPs(now)
          /\ \A ip : Store!EffectiveExpiry(ip, now)' = Store!EffectiveExpiry(ip, now)
          /\ \A ip : Synced(ip)' <=> Synced(ip)
      BY <3>3, SameView, SameSynced
    <3>5. /\ AddedSynced => AddedSynced'
          /\ DroppedRest => DroppedRest'
      BY <2>1, <3>3, <3>4 DEF AddedSynced, DroppedRest
    <3> QED
      BY <2>1, <3>3, <3>4, <3>5 DEF PassView
  <2>2. CASE pass' = pass /\ pass = Idle
    BY <1>2, <2>2
  <2> QED
    BY <1>2, <1>3, <2>1, <2>2, PassFrame
<1>4. PassAbort \/ PassDone => PassView'
  BY <1>2 DEF PassAbort, PassDone, Return
<1> QED
  BY <1>3, <1>4, PassStartView, PassAddView, PassListView, PassRemoveView, PassForgetView
  DEF PassNext, PassStep

-----------------------------------------------------------------------------
(* The console and the commands.                                           *)

\* The steps of everyone but the console and the reconciler leave the console
\* as it is, or kill it.
LEMMA AdminFrame ==
    ASSUME Next, ~AdminNext, ~PassNext
    PROVE  \/ admin' = Idle
           \/ admin' = admin /\ \E by : Disturb(by) /\ "admin" \notin by
<1> DEFINE Kept == admin' = admin /\ \E by : Disturb(by) /\ "admin" \notin by
<1>1. ExecNext => admin' = admin /\ Disturb({"exec"})
  BY DEF ExecNext, ExecCalls, ExecAdd, ExecAddCall, ExecRevoke, ExecDecide,
     ExecRefreshCall, ExecRemoveCall
<1>2. PostNext => admin' = admin /\ \E p \in Posters : Disturb({p})
  BY DEF PostNext, PostConsume, PostCall
<1>3. Environment \/ (\E m \in Messages : IssueLink(m)) =>
          admin' = Idle \/ (admin' = admin /\ Disturb({}))
  BY DEF Environment, Tick, Crash, FrpsRestart, ManualEdit, IssueLink
<1>4. ASSUME NEW by, admin' = admin, Disturb(by), "admin" \notin by
      PROVE  Kept
  BY <1>4
<1>5. ExecNext => Kept
  BY <1>1, <1>4
<1>6. PostNext => Kept
  <2> SUFFICES ASSUME NEW p \in Posters, Disturb({p}), admin' = admin PROVE Kept
    BY <1>2
  <2> QED
    BY <1>4, Names
<1>7. Environment \/ (\E m \in Messages : IssueLink(m)) => admin' = Idle \/ Kept
  BY <1>3, <1>4
<1> HIDE DEF Kept
<1>8. admin' = Idle \/ Kept
  BY <1>5, <1>6, <1>7 DEF Next
<1> QED
  BY <1>8 DEF Kept

\* Nothing that a step undisturbed for the console may do spoils its outcome.
LEMMA AdminViewStep ==
    ASSUME Typed, ConsoleWaits, PassView, AdminView, Next
    PROVE  AdminView'
<1> SUFFICES ASSUME admin'.phase = "auditing", admin'.ok, "admin" \notin disturbed'
             PROVE  \A ip \in Store!ActiveIPs(now)' : Synced(ip)'
  BY DEF AdminView
<1>1. PassTyped /\ DisturbedBusy /\ AdminTyped
  BY DEF Typed, TypeOK, AdminTyped
<1>2. "admin" \in Busy' /\ "admin" \in Actors
  BY DEF Busy, Actors
<1>3. admin' # Idle
  BY DEF Idle
<1>4. ASSUME admin' = admin, NEW by, Disturb(by), "admin" \notin by
      PROVE  \A ip \in Store!ActiveIPs(now)' : Synced(ip)'
  <2>1. "admin" \in Busy
    BY <1>4 DEF Busy, Actors
  <2>2. "admin" \notin disturbed /\ UNCHANGED <<grants, managedIPs, frps, now>>
    BY <1>1, <1>2, <1>4, <2>1, Undisturbed
  <2>3. \A ip \in Store!ActiveIPs(now) : Synced(ip)
    BY <1>4, <2>2 DEF AdminView
  <2> QED
    BY <2>2, <2>3, SameView, SameSynced
<1>5. ~AdminNext
  BY <1>3 DEF AdminNext, AdminAdd, AdminExtend, AdminRevoke, AdminRecorded, AdminAudit
<1>6. CASE ~PassNext
  BY <1>3, <1>4, <1>5, <1>6, AdminFrame
<1>7. CASE PassNext /\ admin' = admin
  <2>1. Disturb(Reconciler)
    BY <1>7 DEF PassNext, PassStep, PassStart, PassAdd, PassListManaged, PassRemove,
       PassForget, PassDone, PassAbort
  <2>2. "admin" \notin Reconciler
    <3>1. admin.phase # "reconciling"
      BY <1>7
    <3>2. ~(pass # Idle /\ pass.by = "admin")
      BY <3>1 DEF ConsoleWaits
    <3> QED
      BY <1>1, <3>2, PassIdle DEF Reconciler
  <2> QED
    BY <1>4, <1>7, <2>1, <2>2
<1>8. CASE PassNext /\ admin' # admin
  <2>1. ~PassAbort /\ \A ip : ~PassAdd(ip) /\ ~PassRemove(ip)
    <3>1. ASSUME NEW by, Return(by, FALSE) PROVE FALSE
      <4>1. admin' = [phase |-> "auditing", audit |-> admin.audit, ok |-> FALSE]
        BY <1>8, <3>1 DEF Return
      <4> QED
        BY <4>1
    <3> QED
      BY <1>8, <3>1 DEF PassAbort, PassAdd, PassRemove
  <2>2. ASSUME NEW by, PassStart(by) PROVE FALSE
    <3>1. by = "admin" /\ admin.phase = "waiting"
          /\ admin' = [admin EXCEPT !.phase = "reconciling"]
      BY <1>8, <2>2 DEF PassStart, MayStart
    <3>2. admin'.phase = "reconciling"
      BY <1>1, <3>1 DEF AdminTyped
    <3> QED
      BY <3>2
  <2>3. PassDone
    BY <1>8, <2>1, <2>2 DEF PassNext, PassStep, PassListManaged, PassForget
  <2>4. /\ pass.phase = "dropping" /\ pass.todo = {} /\ pass.removed = {}
        /\ UNCHANGED <<storeVars, frps, faults>> /\ Return(pass.by, TRUE)
        /\ Disturb(Reconciler)
    BY <2>3 DEF PassDone, PassComplete
  <2>5. pass # Idle /\ pass.by = "admin"
    BY <1>8, <2>4 DEF Return, Idle
  <2>6. admin.phase = "reconciling" /\ ("pass" \in disturbed => "admin" \in disturbed)
    BY <2>5 DEF ConsoleWaits
  <2>7. "admin" \notin disturbed
    BY <1>1, <1>2, <2>4, Undisturbed
  <2>8. \A ip \in Store!ActiveIPs(now) : Synced(ip)
    BY <2>4, <2>5, <2>6, <2>7 DEF PassView, DroppedRest
  <2>9. UNCHANGED <<grants, now, frps>>
    BY <2>4 DEF storeVars
  <2> QED
    BY <2>8, <2>9, SameView, SameSynced
<1> QED
  BY <1>6, <1>7, <1>8

\* Who does not end or begin a command leaves it alone.
LEMMA ExecFrame ==
    ASSUME Typed, Next, ~ExecNext
    PROVE  \/ exec' = Idle /\ faults' # faults
           \/ exec' = exec /\ \E by : Disturb(by) /\ "exec" \notin by
<1> DEFINE Kept == exec' = exec /\ \E by : Disturb(by) /\ "exec" \notin by
<1>1. PostNext => exec' = exec /\ \E p \in Posters : Disturb({p})
  BY DEF PostNext, PostConsume, PostCall
<1>2. AdminNext => exec' = exec /\ Disturb({"admin"})
  BY DEF AdminNext, AdminAdd, AdminExtend, AdminRevoke, AdminRecorded, AdminAudit
<1>3. PassNext => exec' = exec /\ Disturb(Reconciler)
  BY DEF PassNext, PassStep, PassStart, PassAdd, PassListManaged, PassRemove,
     PassForget, PassDone, PassAbort
<1>4. ASSUME Environment \/ \E m \in Messages : IssueLink(m)
      PROVE  \/ exec' = Idle /\ faults' # faults
             \/ exec' = exec /\ Disturb({})
  <2>1. Fault => faults' # faults
    <3>1. faults \in Nat
      BY SyncGiven DEF Typed, TypeOK, SyncAssumption
    <3> QED
      BY <3>1 DEF Fault
  <2> QED
    BY <1>4, <2>1 DEF Environment, Tick, Crash, FrpsRestart, ManualEdit, IssueLink
<1>5. ASSUME NEW by, exec' = exec, Disturb(by), "exec" \notin by
      PROVE  Kept
  BY <1>5
<1>6. PostNext => Kept
  <2> SUFFICES ASSUME NEW p \in Posters, Disturb({p}), exec' = exec PROVE Kept
    BY <1>1
  <2> QED
    BY <1>5, Names
<1>7. AdminNext => Kept
  BY <1>2, <1>5
<1>8. PassNext => Kept
  <2>1. "exec" \notin Reconciler
    BY DEF Reconciler
  <2> QED
    BY <1>3, <1>5, <2>1
<1>9. Environment \/ (\E m \in Messages : IssueLink(m)) =>
          (exec' = Idle /\ faults' # faults) \/ Kept
  BY <1>4, <1>5
<1> HIDE DEF Kept
<1>10. (exec' = Idle /\ faults' # faults) \/ Kept
  BY <1>6, <1>7, <1>8, <1>9 DEF Next
<1> QED
  BY <1>10 DEF Kept

\* Nobody comes to hold the address of a command undisturbed.
LEMMA ExecViewStep ==
    ASSUME Typed, ExecView, Next
    PROVE  ExecView'
<1> SUFFICES ASSUME exec'.phase = "removing", "exec" \notin disturbed'
             PROVE  Store!ListActiveByIP(exec.ip, now)' = {}
  BY DEF ExecView
<1>1. "exec" \in Busy' /\ "exec" \in Actors /\ DisturbedBusy
  BY DEF Busy, Actors, Typed
<1>2. exec' # Idle
  BY DEF Idle
<1>3. CASE ~ExecNext
  <2>1. exec' = exec
    BY <1>2, <1>3, ExecFrame
  <2>2. PICK by : Disturb(by) /\ "exec" \notin by
    BY <1>2, <1>3, ExecFrame
  <2>3. "exec" \in Busy
    BY <2>1 DEF Busy, Actors
  <2>4. "exec" \notin disturbed /\ UNCHANGED <<grants, managedIPs, frps, now>>
    BY <1>1, <2>2, <2>3, Undisturbed
  <2>5. Store!ListActiveByIP(exec.ip, now) = {}
    BY <2>1, <2>4 DEF ExecView
  <2>6. UNCHANGED <<grants, now, exec>>
    BY <2>1, <2>4
  <2> QED
    BY Zenon, <2>5, <2>6 DEF Store!ListActiveByIP, Store!ActiveIds, Store!Active
<1>4. CASE ExecNext
  <2>1. ExecDecide
    <3>1. ASSUME NEW u, NEW ip, NEW text, ExecAdd(u, ip, text) PROVE FALSE
      <4>1. exec'.phase = "adding"
        BY <3>1 DEF ExecAdd
      <4> QED
        BY <4>1
    <3>2. ASSUME NEW u, NEW ip, ExecRevoke(u, ip) PROVE FALSE
      <4>1. exec'.phase = "revoked"
        BY <3>2 DEF ExecRevoke
      <4> QED
        BY <4>1
    <3> QED
      BY <1>2, <1>4, <3>1, <3>2 DEF ExecNext, ExecCalls, ExecAddCall, ExecRefreshCall,
         ExecRemoveCall
  <2>2. UNCHANGED <<grants, now>>
    BY <2>1 DEF ExecDecide, storeVars
  <2>3. /\ exec' = [phase |-> "removing", ip |-> exec.ip]
        /\ Store!ListActiveByIP(exec.ip, now) = {}
    BY <1>2, <2>1 DEF ExecDecide
  <2>4. exec'.ip = exec.ip
    BY <2>3
  <2> QED
    BY Zenon, <2>2, <2>3, <2>4 DEF Store!ListActiveByIP, Store!ActiveIds, Store!Active
<1> QED
  BY <1>3, <1>4

\* At first nothing is in progress.
LEMMA InitViews == Init => Views
<1> SUFFICES ASSUME Init PROVE Views
  OBVIOUS
<1>1. Proved!TypeOK
  BY SameStore, Proved!InitType DEF Init
<1>2. Store!TypeOK
  BY Zenon, <1>1
  DEF Store!TypeOK, Proved!TypeOK, Store!Grant, Proved!Grant, Store!Sources,
      Proved!Sources, Store!Token, Proved!Token, Store!Attempts,
      Proved!Attempts, Store!Audit, Proved!Audit
<1>3. /\ exec = Idle /\ admin = Idle /\ pass = Idle /\ disturbed = {}
      /\ frps = [ip \in IPs |-> 0] /\ post = [p \in Posters |-> NoPost]
      /\ gateway = "boot" /\ faults = 0
  BY DEF Init
<1>4. NoPost \in [ips : Seq(IPs), expireAt : Nat]
  <2>1. <<>> \in Seq(IPs)
    BY EmptySeq
  <2> QED
    BY <2>1 DEF NoPost
<1>5. FrpsTyped /\ PostTyped
  BY <1>3, <1>4 DEF FrpsTyped, PostTyped
<1>6. Idle \in [phase : {"idle"}] /\ Idle.phase = "idle"
  BY DEF Idle
<1>7. ExecTyped /\ AdminTyped
  BY <1>3, <1>6 DEF ExecTyped, AdminTyped
<1>8. RestTyped
  BY <1>3, SyncGiven DEF RestTyped, SyncAssumption
<1>9. PassTyped /\ DisturbedBusy
  BY <1>3, <1>6 DEF PassTyped, DisturbedBusy
<1>10. Typed
  BY <1>2, <1>5, <1>7, <1>8, <1>9, TypedIs
<1> QED
  BY <1>3, <1>6, <1>10 DEF Views, ConsoleWaits, PassView, AdminView, ExecView

\* Every step keeps the views.
LEMMA ViewsStep == Views /\ [Next]_vars => Views'
<1>1. ASSUME Views, Next PROVE Views'
  BY <1>1, TypedStep, ConsoleWaitsStep, PassViewStep, AdminViewStep, ExecViewStep DEF Views
<1>2. ASSUME Views, UNCHANGED vars PROVE Views'
  <2>1. UNCHANGED <<grants, managedIPs, now, frps, exec, admin, pass, disturbed>>
    BY <1>2 DEF vars, storeVars
  <2>2. Typed'
    BY <1>2, TypedStep DEF Views
  <2>3. /\ Store!ActiveIPs(now)' = Store!ActiveIPs(now)
        /\ \A ip : Store!EffectiveExpiry(ip, now)' = Store!EffectiveExpiry(ip, now)
        /\ \A ip : Synced(ip)' <=> Synced(ip)
    BY <2>1, SameView, SameSynced
  <2>4. (AddedSynced => AddedSynced') /\ (DroppedRest => DroppedRest')
    BY <2>1, <2>3 DEF AddedSynced, DroppedRest
  <2>5. ConsoleWaits' /\ PassView' /\ AdminView'
    BY <1>2, <2>1, <2>3, <2>4 DEF Views, ConsoleWaits, PassView, AdminView
  <2>6. ExecView'
    BY Zenon, <1>2, <2>1
    DEF Views, ExecView, Store!ListActiveByIP, Store!ActiveIds, Store!Active
  <2> QED
    BY <2>2, <2>5, <2>6 DEF Views
<1> QED
  BY <1>1, <1>2

\* Every reachable state satisfies them.
LEMMA AlwaysViews == Spec => []Views
BY InitViews, ViewsStep, PTL DEF Spec

-----------------------------------------------------------------------------
(* What the operations promise.                                            *)

\* Type correctness of the gateway, its database and frps.
THEOREM TypeCorrect == Spec => []TypeOK
<1>1. Views => TypeOK
  BY DEF Views, Typed
<1> QED
  BY AlwaysViews, <1>1, PTL

\* PassSyncs: a pass that nothing disturbed leaves frps and the database in
\* step, although it reads the two at different moments and its calls and
\* transactions are steps of their own.
THEOREM PassesSync == Spec => []PassSyncs
<1>1. Views => PassSyncs
  <2> SUFFICES ASSUME Views, PassComplete, "pass" \notin disturbed
               PROVE  /\ \A ip \in ActiveIPs :
                            frps[ip] = now + Format(Store!EffectiveExpiry(ip, now) - now)
                      /\ managedIPs = pass.managed \cap ActiveIPs
                      /\ \A ip \in pass.managed \ ActiveIPs : ~OnFrps(ip)
    BY DEF PassSyncs
  <2>1. pass.phase = "dropping" /\ pass.todo = {} /\ pass.removed = {}
    BY DEF PassComplete
  <2>2. pass # Idle
    BY <2>1 DEF Idle
  <2>3. pass.active = ActiveIPs /\ DroppedRest
    BY <2>1, <2>2 DEF Views, PassView, ActiveIPs
  <2>4. pass \in PassState /\ frps \in [IPs -> Nat] /\ now \in Nat
    BY <2>2, PassFields DEF Views, Typed, TypeOK, Store!TypeOK
  <2>5. \A ip \in ActiveIPs :
           frps[ip] = now + Format(Store!EffectiveExpiry(ip, now) - now)
    BY <2>3 DEF DroppedRest, Synced
  <2>6. managedIPs = pass.managed \cap ActiveIPs
    BY <2>1, <2>3 DEF DroppedRest
  <2>7. \A ip \in pass.managed \ ActiveIPs : ~OnFrps(ip)
    <3> SUFFICES ASSUME NEW ip \in pass.managed \ ActiveIPs PROVE ~(frps[ip] > now)
      BY DEF OnFrps
    <3>1. frps[ip] <= now
      BY <2>1, <2>3 DEF DroppedRest
    <3>2. frps[ip] \in Nat
      BY <2>4 DEF PassState
    <3> QED
      BY <2>4, <3>1, <3>2
  <2> QED
    BY <2>5, <2>6, <2>7
<1> QED
  BY AlwaysViews, <1>1, PTL

\* CommandSyncs: a command of the bot that returns without an error has put
\* its address on frps, or has taken it off as its last holder.
THEOREM CommandsSync == Spec => CommandSyncs
<1> DEFINE A == \A ip \in IPs :
                   /\ exec.phase # "idle" /\ exec.ip = ip /\ "exec" \notin disturbed
                   /\ exec'.phase = "idle" /\ faults' = faults /\ ~CallRefused
                   => /\ (ip \in ActiveIPs => OnFrps(ip))'
                      /\ exec.phase = "removing" => ~OnFrps(ip)'
<1>1. Views /\ [Next]_vars => [A]_vars
  <2> SUFFICES ASSUME Views, Next, NEW ip \in IPs,
                      exec.phase # "idle", exec.ip = ip, "exec" \notin disturbed,
                      exec'.phase = "idle", faults' = faults, ~CallRefused
               PROVE  /\ (ip \in ActiveIPs => OnFrps(ip))'
                      /\ exec.phase = "removing" => ~OnFrps(ip)'
    BY DEF A
  <2>1. /\ frps \in [IPs -> Nat] /\ now \in Nat /\ faults \in Nat /\ ExecTyped
    BY SyncGiven DEF Views, Typed, TypeOK, ExecTyped, Store!TypeOK, SyncAssumption
  <2>2. ~Fault
    BY <2>1 DEF Fault
  <2>3. ExecCalls
    <3>1. ExecNext
      BY <2>2, ExecFrame DEF Views
    <3>2. exec # Idle
      BY DEF Idle
    <3> QED
      BY <3>1, <3>2 DEF ExecNext, ExecAdd, ExecRevoke
  <2>4. ~ExecDecide
    <3> SUFFICES ASSUME ExecDecide PROVE FALSE
      OBVIOUS
    <3>1. exec' \in {[phase |-> "refreshing", ip |-> exec.ip,
                      expireAt |-> Store!EffectiveExpiry(exec.ip, now)],
                     [phase |-> "removing", ip |-> exec.ip]}
      BY <2>2 DEF ExecDecide
    <3> QED
      BY <3>1
  <2>5. UNCHANGED <<grants, now>>
    BY <2>3, <2>4 DEF ExecCalls, ExecAddCall, ExecRefreshCall, ExecRemoveCall, storeVars
  <2>6. ASSUME NEW d \in Int, NEW ok, AddCall(ip, d, ok), Format(d) # 0
        PROVE  OnFrps(ip)'
    <3>1. frps' = [frps EXCEPT ![ip] = now + Format(d)]
      BY <2>2, <2>6 DEF AddCall
    <3>2. Format(d) \in Nat \ {0}
      BY <2>6, FormatIs
    <3>3. frps'[ip] > now'
      BY <2>1, <2>5, <3>1, <3>2
    <3> QED
      BY <3>3 DEF OnFrps
  <2>7. CASE ExecAddCall
    <3>1. exec.phase = "adding" /\ exec.ttl \in Int /\ Format(exec.ttl) # 0
      BY <2>1, <2>7 DEF ExecAddCall, CallRefused, ExecTyped
    <3> QED
      BY <2>6, <2>7, <3>1 DEF ExecAddCall
  <2>8. CASE ExecRefreshCall
    <3>1. /\ exec.phase = "refreshing" /\ exec.expireAt - now \in Int
          /\ Format(exec.expireAt - now) # 0
      BY <2>1, <2>8 DEF ExecRefreshCall, CallRefused, ExecTyped
    <3> QED
      BY <2>6, <2>8, <3>1 DEF ExecRefreshCall
  <2>9. CASE ExecRemoveCall
    <3>1. frps' = [frps EXCEPT ![ip] = 0]
      BY <2>2, <2>9 DEF ExecRemoveCall, RemoveCall
    <3>2. ~(frps'[ip] > now')
      BY <2>1, <2>5, <3>1
    <3>3. Store!ListActiveByIP(ip, now) = {}
      BY <2>9 DEF Views, ExecView, ExecRemoveCall
    <3>4. ip \notin Store!ActiveIPs(now)
      BY <3>3 DEF Store!ActiveIPs, Store!ListActiveByIP
    <3>5. Store!ActiveIPs(now)' = Store!ActiveIPs(now)
      BY <2>5, SameView
    <3>6. ip \notin ActiveIPs'
      BY <3>4, <3>5 DEF ActiveIPs
    <3> QED
      BY <3>2, <3>6 DEF OnFrps
  <2> QED
    BY <2>3, <2>4, <2>7, <2>8, <2>9 DEF ExecCalls
<1> QED
  BY AlwaysViews, <1>1, PTL DEF Spec, CommandSyncs

\* Only the end of a mutation closes an audit row as "synced".
LEMMA OnlyAuditsClose ==
    ASSUME Typed, Next, ~AdminAudit, NEW a \in DOMAIN adminAudit
    PROVE  adminAudit'[a] = adminAudit[a]
<1>1. adminAudit \in Seq(Store!Audit)
  BY DEF Typed, TypeOK, Store!TypeOK
<1>2. ASSUME NEW row, adminAudit' = Append(adminAudit, row)
      PROVE  adminAudit'[a] = adminAudit[a]
  BY <1>1, <1>2
<1>3. CASE AdminNext
  <2>1. \E row : adminAudit' = Append(adminAudit, row)
    BY <1>3 DEF AdminNext, AdminAdd, AdminExtend, AdminRevoke, Store!CreateAdminGrant,
       Store!ExtendAdminGrant, Store!RevokeAdminGrant
  <2> QED
    BY <1>2, <2>1
<1>4. CASE ExecNext
  BY <1>4 DEF ExecNext, ExecCalls, ExecAdd, ExecAddCall, ExecRevoke, ExecDecide,
     ExecRefreshCall, ExecRemoveCall, Store!AddGrantLimited, Store!RevokeUserIP, storeVars
<1>5. CASE PostNext
  BY <1>5 DEF PostNext, PostConsume, PostCall, Store!ConsumeTokenIPs, storeVars
<1>6. CASE PassNext
  BY <1>6 DEF PassNext, PassStep, PassStart, PassAdd, PassListManaged, PassRemove,
     PassForget, PassDone, PassAbort, Store!ForgetManagedIP, storeVars
<1>7. CASE Environment \/ \E m \in Messages : IssueLink(m)
  BY <1>7 DEF Environment, Tick, Crash, FrpsRestart, ManualEdit, IssueLink,
     Store!Tick, Store!NewLink, storeVars
<1> QED
  BY <1>3, <1>4, <1>5, <1>6, <1>7 DEF Next

\* SyncedAuditIsTrue: "synced" is written only when frps holds, for every
\* address still granted, its latest expiry - unless somebody else has changed
\* the grants, frps or the time since.
THEOREM AuditsTrue == Spec => SyncedAuditIsTrue
<1> DEFINE A == \A a \in DOMAIN adminAudit :
                   adminAudit'[a].result = "synced" /\ adminAudit[a].result = "recorded"
                   /\ "admin" \notin disturbed =>
                      LET ip == grants[adminAudit[a].grant].ip
                      IN  ip \in ActiveIPs => frps[ip] =
                             now + Format(Store!EffectiveExpiry(ip, now) - now)
<1>1. Views /\ [Next]_vars => [A]_vars
  <2> SUFFICES ASSUME Views, Next, NEW a \in DOMAIN adminAudit,
                      adminAudit'[a].result = "synced", adminAudit[a].result = "recorded",
                      "admin" \notin disturbed
               PROVE  \A ip \in ActiveIPs :
                         frps[ip] = now + Format(Store!EffectiveExpiry(ip, now) - now)
    BY DEF A
  <2>1. AdminAudit
    BY OnlyAuditsClose DEF Views
  <2>2. \A i \in DOMAIN adminAudit : adminAudit[i] \in Store!Audit
    <3>1. adminAudit \in Seq(Store!Audit)
      BY DEF Views, Typed, TypeOK, Store!TypeOK
    <3> QED
      BY <3>1, LenProperties, ElementOfSeq
  <2>3. admin.phase = "auditing" /\ admin.ok
    <3>1. CASE UNCHANGED storeVars
      BY <3>1 DEF storeVars
    <3>2. CASE Store!SetAdminAuditResult(admin.audit, IF admin.ok THEN "synced" ELSE "sync_failed")
      <4> DEFINE r == IF admin.ok THEN "synced" ELSE "sync_failed"
      <4>1. adminAudit' = [adminAudit EXCEPT ![admin.audit].result = r]
        BY <3>2 DEF Store!SetAdminAuditResult
      <4>2. r # "synced" => adminAudit'[a].result # "synced"
        <5> HIDE DEF r
        <5>1. CASE a = admin.audit
          BY <2>2, <4>1, <5>1 DEF Store!Audit
        <5>2. CASE a # admin.audit
          BY <4>1, <5>2
        <5> QED
          BY <5>1, <5>2
      <4> QED
        BY <2>1, <4>2 DEF AdminAudit
    <3> QED
      BY <2>1, <3>1, <3>2 DEF AdminAudit
  <2> QED
    BY <2>3 DEF Views, AdminView, Synced, ActiveIPs
<1> QED
  BY AlwaysViews, <1>1, PTL DEF Spec, SyncedAuditIsTrue

=============================================================================
