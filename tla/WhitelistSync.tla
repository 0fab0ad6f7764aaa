----------------------------- MODULE WhitelistSync -----------------------------
(***************************************************************************)
(* The gateway keeps the whitelist of frps in step with its own database.  *)
(* Four actors write to the database and then call frps, with nothing that *)
(* holds the two together:                                                 *)
(*   - the executor of bot commands, one command at a time (messageMu);    *)
(*   - the handlers that confirm one-time links, any number at once;       *)
(*   - the console, one mutation at a time, which reconciles and then      *)
(*     writes the outcome to its audit row;                                *)
(*   - the reconciler, one pass at a time (reconcileMu), started when the  *)
(*     process boots, by a ticker, and by the console.                     *)
(* A transaction on the database and a call to frps are one step each; all *)
(* other actors may move between them. A call may fail with or without     *)
(* having been applied, the process may crash between two steps, frps may  *)
(* lose its entries and an operator may edit them by hand.                 *)
(***************************************************************************)
EXTENDS Integers, Sequences, FiniteSets, Duration, ClientAddress

CONSTANTS
    Users, Messages, Sender, MaxActiveIPs, DefaultTTL, LinkTTL,
    LinkRetries, MaxLag, MaxTime, MaxGrants, MaxAudits,
    Texts,         \* lifetimes as users and administrators write them
    Requests,      \* POST requests: peer, X-Forwarded-For, reported address
    Posters,       \* concurrent POST handlers of the confirmation page
    MaxTTL,        \* bot.maxTTL: longest lifetime a command may ask for
    MaxGrantTTL,   \* admin.maxGrantTTL: the same for the console
    BotEnabled,    \* bot.enabled
    AdminEnabled,  \* admin.enabled
    MaxFaults      \* bound: failed calls, crashes, losses and manual edits

VARIABLES
    grants, authTokens, managedIPs, adminAudit, now,
    frps,      \* expiry of each address on the frps whitelist, 0 if absent
    exec,      \* the command being executed
    post,      \* the POST handlers
    admin,     \* the console mutation in progress
    pass,      \* the reconciliation in progress
    gateway,   \* "boot" until the start-up reconciliation returns, then "up"
    faults,    \* faults so far
    disturbed  \* history: busy actors another actor or fault got in the way of

\* Lifetimes commands and mutations may ask for: positive, and no longer than
\* the maximum of the one or of the other.
CommandLifetimes == 1..MaxTTL
AdminLifetimes == 1..MaxGrantTTL
Lifetimes == CommandLifetimes \cup AdminLifetimes

Store == INSTANCE GrantStore WITH TTLs <- Lifetimes

storeVars == <<grants, authTokens, managedIPs, adminAudit, now>>
vars == <<storeVars, frps, exec, post, admin, pass, gateway, faults, disturbed>>

SyncAssumption ==
    /\ Store!StoreAssumption
    /\ MaxTTL \in Nat /\ MaxTTL >= DefaultTTL
    /\ MaxGrantTTL \in Nat \ {0}
    /\ BotEnabled \in BOOLEAN /\ AdminEnabled \in BOOLEAN
    /\ MaxFaults \in Nat
    /\ Posters \cap {"exec", "pass", "admin"} = {}
ASSUME SyncGiven == SyncAssumption

Actors == {"exec", "pass", "admin"} \cup Posters

TypeOK ==
    /\ Store!TypeOK
    /\ frps \in [IPs -> Nat]
    /\ exec \in [phase : {"idle"}] \cup
                [phase : {"adding"}, ip : IPs, ttl : Nat] \cup
                [phase : {"revoked", "removing"}, ip : IPs] \cup
                [phase : {"refreshing"}, ip : IPs, expireAt : Nat]
    /\ post \in [Posters -> [ips : Seq(IPs), expireAt : Nat]]
    /\ admin \in [phase : {"idle"}] \cup
                 [phase : {"waiting", "reconciling"}, audit : Nat] \cup
                 [phase : {"auditing"}, audit : Nat, ok : BOOLEAN]
    /\ pass.phase \in {"idle", "adding", "dropping"}
    /\ pass.phase # "idle" =>
          /\ pass.by \in {"boot", "ticker", "admin"}
          /\ pass.active \in SUBSET IPs /\ pass.todo \in SUBSET IPs
          /\ pass.managed \in SUBSET IPs /\ pass.removed \in SUBSET IPs
          /\ pass.expireAt \in [pass.active -> Nat]
    /\ gateway \in {"boot", "up"}
    /\ faults \in 0..MaxFaults
    /\ disturbed \in SUBSET Actors

Idle == [phase |-> "idle"]
NoPost == [ips |-> <<>>, expireAt |-> 0]

-----------------------------------------------------------------------------
(* Calls to frps.                                                          *)

Fault == faults < MaxFaults /\ faults' = faults + 1

\* client.Add as the caller sees it: ok is whether it returned without an
\* error. A lifetime that is not positive, or that Format cuts to "0s", is
\* refused; a failed call may have been applied.
AddCall(ip, ttl, ok) ==
    LET applied == [frps EXCEPT ![ip] = now + Format(ttl)]
    IN  IF Format(ttl) = 0
        THEN ~ok /\ UNCHANGED <<frps, faults>>
        ELSE \/ ok /\ frps' = applied /\ UNCHANGED faults
             \/ ~ok /\ frps' \in {frps, applied} /\ Fault

\* client.Remove; every caller takes a 404 for success.
RemoveCall(ip, ok) ==
    LET applied == [frps EXCEPT ![ip] = 0]
    IN  \/ ok /\ frps' = applied /\ UNCHANGED faults
        \/ ~ok /\ frps' \in {frps, applied} /\ Fault

-----------------------------------------------------------------------------
(* The history variable: which operations ran without interference.        *)

Busy == {a \in Actors :
            \/ a = "exec" /\ exec.phase # "idle"
            \/ a = "pass" /\ pass.phase # "idle"
            \/ a = "admin" /\ admin.phase # "idle"
            \/ a \in Posters /\ post[a].ips # <<>>}

\* A step taken for the actors in by ({} for the environment) that changes
\* the database or frps, or moves the clock, disturbs every other operation
\* in progress; a failed call or query also disturbs its own.
Disturb(by) ==
    LET changed == <<grants, managedIPs, frps, now>>'
                      # <<grants, managedIPs, frps, now>>
        hit == (IF changed THEN Busy \ by ELSE {}) \cup
               (IF faults' # faults THEN by ELSE {})
    IN  disturbed' = (disturbed \cup hit) \cap Busy'

\* A pass that the console waits for works for both.
Reconciler == IF pass.phase # "idle" /\ pass.by = "admin"
              THEN {"pass", "admin"} ELSE {"pass"}

-----------------------------------------------------------------------------
(* The executor of bot commands.                                           *)

BotReady == gateway = "up" /\ BotEnabled

\* A message or a menu click that asks for a link (AuthorizeLink, NewLink).
IssueLink(m) ==
    /\ BotReady
    /\ \E t \in Store!Stamps : Store!NewLink(m, t)
    /\ UNCHANGED <<frps, exec, post, admin, pass, gateway, faults>>
    /\ Disturb({})

\* parseAdd, which refuses a lifetime that is not positive, and add, which
\* takes the default for one that is not written and refuses long ones.
CommandTTL(text) ==
    IF text = <<>> THEN {DefaultTTL} ELSE Parse(text) \cap CommandLifetimes

\* add: the grant is stored, frps is called next.
ExecAdd(u, ip, text) ==
    /\ BotReady /\ exec = Idle
    /\ \E ttl \in CommandTTL(text), t \in Store!Stamps :
          /\ Store!AddGrantLimited(u, ip, ttl, t)
          /\ exec' = [phase |-> "adding", ip |-> ip, ttl |-> ttl]
    /\ UNCHANGED <<frps, post, admin, pass, gateway, faults>>
    /\ Disturb({"exec"})

\* add: the whole lifetime asked for is sent, whatever the address holds.
ExecAddCall ==
    /\ exec.phase = "adding"
    /\ \E ok \in BOOLEAN : AddCall(exec.ip, exec.ttl, ok)
    /\ exec' = Idle
    /\ UNCHANGED <<storeVars, post, admin, pass, gateway>>
    /\ Disturb({"exec"})

\* remove: nothing more happens when the statement affects no row.
ExecRevoke(u, ip) ==
    /\ BotReady /\ exec = Idle
    /\ \E t \in Store!Stamps :
          /\ \E i \in Store!ListActiveByIP(ip, t) : grants[i].user = u
          /\ Store!RevokeUserIP(u, ip, t)
    /\ exec' = [phase |-> "revoked", ip |-> ip]
    /\ UNCHANGED <<frps, post, admin, pass, gateway, faults>>
    /\ Disturb({"exec"})

\* Mutant of ExecDecide: the entry is removed although others hold the address.
ExecDecideRemove ==
    /\ exec.phase = "revoked"
    /\ exec' = [phase |-> "removing", ip |-> exec.ip]
    /\ UNCHANGED <<storeVars, frps, post, admin, pass, gateway, faults>>
    /\ Disturb({"exec"})

\* remove: EffectiveExpiry decides between refreshing and removing; when
\* the query fails the command ends without a call to frps.
ExecDecide ==
    /\ exec.phase = "revoked"
    /\ \/ /\ exec' = IF Store!ListActiveByIP(exec.ip, now) # {}
                     THEN [phase |-> "refreshing", ip |-> exec.ip,
                           expireAt |-> Store!EffectiveExpiry(exec.ip, now)]
                     ELSE [phase |-> "removing", ip |-> exec.ip]
          /\ UNCHANGED faults
       \/ Fault /\ exec' = Idle
    /\ UNCHANGED <<storeVars, frps, post, admin, pass, gateway>>
    /\ Disturb({"exec"})

ExecRefreshCall ==
    /\ exec.phase = "refreshing"
    /\ \E ok \in BOOLEAN : AddCall(exec.ip, exec.expireAt - now, ok)
    /\ exec' = Idle
    /\ UNCHANGED <<storeVars, post, admin, pass, gateway>>
    /\ Disturb({"exec"})

ExecRemoveCall ==
    /\ exec.phase = "removing"
    /\ \E ok \in BOOLEAN : RemoveCall(exec.ip, ok)
    /\ exec' = Idle
    /\ UNCHANGED <<storeVars, post, admin, pass, gateway>>
    /\ Disturb({"exec"})

-----------------------------------------------------------------------------
(* POST handlers of the confirmation page.                                 *)

\* post: the token is consumed and the grants are stored.
PostConsume(p, tok, req) ==
    /\ gateway = "up" /\ post[p] = NoPost
    /\ Targets(req) # <<>>
    /\ \E t \in Store!Stamps :
          /\ Store!ConsumeTokenIPs(tok, Targets(req), t)
          /\ post' = [post EXCEPT ![p] =
                         [ips |-> Targets(req), expireAt |-> t + DefaultTTL]]
    /\ UNCHANGED <<frps, exec, admin, pass, gateway, faults>>
    /\ Disturb({p})

\* post: one call per grant in order; the first failure abandons the rest.
PostCall(p) ==
    /\ post[p].ips # <<>>
    /\ \E ok \in BOOLEAN :
          /\ AddCall(Head(post[p].ips), post[p].expireAt - now, ok)
          /\ post' = [post EXCEPT ![p] =
                IF ok /\ Len(post[p].ips) > 1
                THEN [post[p] EXCEPT !.ips = Tail(post[p].ips)] ELSE NoPost]
    /\ UNCHANGED <<storeVars, exec, admin, pass, gateway>>
    /\ Disturb({p})

-----------------------------------------------------------------------------
(* The administration console: withMutation lets one mutation in at a      *)
(* time; the mutation is stored, a pass is awaited, the audit row closed.  *)

AdminReady == gateway = "up" /\ AdminEnabled /\ admin = Idle

AdminRecorded ==
    /\ admin' = [phase |-> "waiting", audit |-> Len(adminAudit) + 1]
    /\ UNCHANGED <<frps, exec, post, pass, gateway, faults>>
    /\ Disturb({"admin"})

\* parseTTL
AdminTTL(text) == Parse(text) \cap AdminLifetimes

AdminAdd(u, ip, text) ==
    /\ AdminReady
    /\ \E ttl \in AdminTTL(text), t \in Store!Stamps :
          Store!CreateAdminGrant(u, ip, ttl, t)
    /\ AdminRecorded

AdminExtend(id, text) ==
    /\ AdminReady
    /\ \E ttl \in AdminTTL(text), t \in Store!Stamps :
          Store!ExtendAdminGrant(id, ttl, t)
    /\ AdminRecorded

AdminRevoke(id) ==
    /\ AdminReady
    /\ Store!RevokeAdminGrant(id)
    /\ AdminRecorded

\* reconcileAudit, once its pass has returned; a failure to close the row is
\* only logged.
AdminAudit ==
    /\ admin.phase = "auditing"
    /\ \/ /\ Store!SetAdminAuditResult(admin.audit,
                IF admin.ok THEN "synced" ELSE "sync_failed")
          /\ UNCHANGED faults
       \/ Fault /\ UNCHANGED storeVars
    /\ admin' = Idle
    /\ UNCHANGED <<frps, exec, post, pass, gateway>>
    /\ Disturb({"admin"})

-----------------------------------------------------------------------------
(* The reconciler.                                                         *)

\* Mutant of MayStart: no periodic pass.
MayStartUnlessTicker(by) ==
    /\ pass = Idle
    /\ \/ by = "boot" /\ gateway = "boot"
       \/ by = "admin" /\ admin.phase = "waiting"

\* Who may take reconcileMu: main before the servers start, the 30 s ticker
\* afterwards, and the console mutation that waits for its pass.
MayStart(by) ==
    /\ pass = Idle
    /\ \/ by = "boot" /\ gateway = "boot"
       \/ by = "ticker" /\ gateway = "up"
       \/ by = "admin" /\ admin.phase = "waiting"

\* Mutant of Return: a failed pass leaves the audit row of the console open.
ReturnDroppingErrors(by, ok) ==
    /\ pass' = Idle
    /\ gateway' = IF by = "boot" THEN "up" ELSE gateway
    /\ admin' = IF by = "admin" /\ ok
                THEN [phase |-> "auditing", audit |-> admin.audit, ok |-> ok]
                ELSE admin

\* What the return of a pass means to its caller.
Return(by, ok) ==
    /\ pass' = Idle
    /\ gateway' = IF by = "boot" THEN "up" ELSE gateway
    /\ admin' = IF by = "admin"
                THEN [phase |-> "auditing", audit |-> admin.audit, ok |-> ok]
                ELSE admin

\* ListActive: the latest expiry of every address with an active grant.
PassStart(by) ==
    /\ MayStart(by)
    /\ pass' = LET active == Store!ActiveIPs(now)
               IN  [phase |-> "adding", by |-> by, active |-> active,
                    expireAt |-> [ip \in active |-> Store!EffectiveExpiry(ip, now)],
                    todo |-> active, managed |-> {}, removed |-> {}]
    /\ admin' = IF by = "admin" THEN [admin EXCEPT !.phase = "reconciling"] ELSE admin
    /\ UNCHANGED <<storeVars, frps, exec, post, gateway, faults>>
    /\ Disturb(Reconciler)

\* Mutant of PassAdd: an address that is on frps already is skipped.
PassAddMissing(ip) ==
    /\ pass.phase = "adding" /\ ip \in pass.todo
    /\ \/ /\ frps[ip] > now
          /\ pass' = [pass EXCEPT !.todo = @ \ {ip}]
          /\ UNCHANGED <<frps, faults, admin, gateway>>
       \/ \E ok \in BOOLEAN :
             /\ frps[ip] <= now /\ AddCall(ip, pass.expireAt[ip] - now, ok)
             /\ IF ok
                THEN /\ pass' = [pass EXCEPT !.todo = @ \ {ip}]
                     /\ UNCHANGED <<admin, gateway>>
                ELSE Return(pass.by, FALSE)
    /\ UNCHANGED <<storeVars, exec, post>>
    /\ Disturb(Reconciler)

\* The addresses come from a Go map, in any order; an address whose grant
\* has run out since the snapshot makes the call, and the pass, fail.
PassAdd(ip) ==
    /\ pass.phase = "adding" /\ ip \in pass.todo
    /\ \E ok \in BOOLEAN :
          /\ AddCall(ip, pass.expireAt[ip] - now, ok)
          /\ IF ok
             THEN /\ pass' = [pass EXCEPT !.todo = @ \ {ip}]
                  /\ UNCHANGED <<admin, gateway>>
             ELSE Return(pass.by, FALSE)
    /\ UNCHANGED <<storeVars, exec, post>>
    /\ Disturb(Reconciler)

\* Mutants of PassListManaged: granted addresses are not skipped; the whole
\* whitelist of frps is taken for the gateway's own.
PassListManagedAll ==
    /\ pass.phase = "adding" /\ pass.todo = {}
    /\ pass' = [pass EXCEPT !.phase = "dropping", !.managed = managedIPs,
                            !.todo = managedIPs]
    /\ UNCHANGED <<storeVars, frps, exec, post, admin, gateway, faults>>
    /\ Disturb(Reconciler)

PassListWhitelist ==
    /\ pass.phase = "adding" /\ pass.todo = {}
    /\ pass' = [pass EXCEPT !.phase = "dropping", !.managed = managedIPs,
                            !.todo = {ip \in IPs : frps[ip] > now} \ pass.active]
    /\ UNCHANGED <<storeVars, frps, exec, post, admin, gateway, faults>>
    /\ Disturb(Reconciler)

\* ListManagedIPs, read after the calls above; those in the snapshot of
\* active grants are skipped.
PassListManaged ==
    /\ pass.phase = "adding" /\ pass.todo = {}
    /\ pass' = [pass EXCEPT !.phase = "dropping", !.managed = managedIPs,
                            !.todo = managedIPs \ pass.active]
    /\ UNCHANGED <<storeVars, frps, exec, post, admin, gateway, faults>>
    /\ Disturb(Reconciler)

PassRemove(ip) ==
    /\ pass.phase = "dropping" /\ ip \in pass.todo /\ pass.removed = {}
    /\ \E ok \in BOOLEAN :
          /\ RemoveCall(ip, ok)
          /\ IF ok
             THEN /\ pass' = [pass EXCEPT !.removed = {ip}, !.todo = @ \ {ip}]
                  /\ UNCHANGED <<admin, gateway>>
             ELSE Return(pass.by, FALSE)
    /\ UNCHANGED <<storeVars, exec, post>>
    /\ Disturb(Reconciler)

\* Mutant of PassForget: everything the pass is about to remove is forgotten.
PassForgetAll(ip) ==
    /\ pass.phase = "dropping" /\ ip \in pass.removed
    /\ managedIPs' = managedIPs \ (pass.managed \ pass.active)
    /\ pass' = [pass EXCEPT !.removed = {}]
    /\ UNCHANGED <<grants, authTokens, adminAudit, now>>
    /\ UNCHANGED <<frps, exec, post, admin, gateway, faults>>
    /\ Disturb(Reconciler)

PassForget(ip) ==
    /\ pass.phase = "dropping" /\ ip \in pass.removed
    /\ Store!ForgetManagedIP(ip)
    /\ pass' = [pass EXCEPT !.removed = {}]
    /\ UNCHANGED <<frps, exec, post, admin, gateway, faults>>
    /\ Disturb(Reconciler)

PassComplete == pass.phase = "dropping" /\ pass.todo = {} /\ pass.removed = {}

PassDone ==
    /\ PassComplete
    /\ Return(pass.by, TRUE)
    /\ UNCHANGED <<storeVars, frps, exec, post, faults>>
    /\ Disturb(Reconciler)

\* A query that fails, as all do once the 20 s of the pass have run out,
\* ends the pass wherever it is, the wait for reconcileMu included.
PassAbort ==
    /\ Fault
    /\ \/ pass # Idle /\ Return(pass.by, FALSE)
       \/ \E by \in {"boot", "ticker", "admin"} :
             MayStart(by) /\ by # "ticker" /\ Return(by, FALSE)
    /\ UNCHANGED <<storeVars, frps, exec, post>>
    /\ Disturb(Reconciler)

-----------------------------------------------------------------------------
(* The environment.                                                        *)

Tick ==
    /\ Store!Tick
    /\ frps' = [ip \in IPs |-> IF frps[ip] <= now' THEN 0 ELSE frps[ip]]
    /\ UNCHANGED <<exec, post, admin, pass, gateway, faults>>
    /\ Disturb({})

\* The process dies; only the database and frps survive.
Crash ==
    /\ Fault
    /\ exec' = Idle /\ post' = [p \in Posters |-> NoPost]
    /\ admin' = Idle /\ pass' = Idle /\ gateway' = "boot"
    /\ UNCHANGED <<storeVars, frps>>
    /\ Disturb({})

\* frps restarts and has lost its whitelist.
FrpsRestart ==
    /\ Fault
    /\ frps' = [ip \in IPs |-> 0]
    /\ UNCHANGED <<storeVars, exec, post, admin, pass, gateway>>
    /\ Disturb({})

\* An operator adds, refreshes or removes an entry in the console of frps.
ManualEdit(ip) ==
    /\ Fault
    /\ \E e \in {0, now + DefaultTTL} : frps' = [frps EXCEPT ![ip] = e]
    /\ UNCHANGED <<storeVars, exec, post, admin, pass, gateway>>
    /\ Disturb({})

-----------------------------------------------------------------------------
Init ==
    /\ Store!Init
    /\ frps = [ip \in IPs |-> 0]
    /\ exec = Idle /\ post = [p \in Posters |-> NoPost]
    /\ admin = Idle /\ pass = Idle /\ gateway = "boot"
    /\ faults = 0 /\ disturbed = {}

ExecCalls == ExecAddCall \/ ExecDecide \/ ExecRefreshCall \/ ExecRemoveCall

ExecNext ==
    \/ \E u \in Users, ip \in IPs, text \in Texts : ExecAdd(u, ip, text)
    \/ \E u \in Users, ip \in IPs : ExecRevoke(u, ip)
    \/ ExecCalls

PostNext ==
    \E p \in Posters :
        \/ \E tok \in authTokens, req \in Requests : PostConsume(p, tok, req)
        \/ PostCall(p)

AdminNext ==
    \/ \E u \in Users, ip \in IPs, text \in Texts : AdminAdd(u, ip, text)
    \/ \E id \in DOMAIN grants, text \in Texts : AdminExtend(id, text)
    \/ \E id \in DOMAIN grants : AdminRevoke(id)
    \/ AdminAudit

PassStep ==
    \/ \E ip \in IPs : PassAdd(ip) \/ PassRemove(ip) \/ PassForget(ip)
    \/ PassListManaged \/ PassDone

PassNext ==
    \/ \E by \in {"boot", "ticker", "admin"} : PassStart(by)
    \/ PassStep
    \/ PassAbort

Environment == Tick \/ Crash \/ FrpsRestart \/ \E ip \in IPs : ManualEdit(ip)

Next ==
    \/ \E m \in Messages : IssueLink(m)
    \/ ExecNext \/ PostNext \/ AdminNext \/ PassNext \/ Environment

Spec == Init /\ [][Next]_vars

\* A started operation goes on, the ticker keeps firing and the start-up
\* pass runs. reconcileMu is a Go mutex, which hands itself to a waiter that
\* was passed over: the console is not starved by the ticker. Users, the
\* clock and faults are free to do nothing.
Fairness ==
    /\ WF_vars(ExecCalls)
    /\ \A p \in Posters : WF_vars(PostCall(p))
    /\ WF_vars(PassStep)
    /\ WF_vars(PassStart("boot")) /\ WF_vars(PassStart("ticker"))
    /\ SF_vars(PassStart("admin"))
    /\ WF_vars(AdminAudit)

FairSpec == Spec /\ Fairness

-----------------------------------------------------------------------------
(* Properties.                                                             *)

\* Every step is a step of the database on its own, or leaves it alone: no
\* handler writes to it in two transactions where one is needed, no text
\* makes a lifetime that is not positive or above the maximum, and no
\* request hands over one address twice. So what is proved of GrantStore
\* holds of the whole gateway.
StoreSpec == Store!Spec

OnFrps(ip) == frps[ip] > now

ActiveIPs == Store!ActiveIPs(now)

\* A pass of Reconcile that returns without an error, and that nothing
\* disturbed, leaves the two sides in step: every address with an active
\* grant is on frps with the latest expiry as far as Format can express it;
\* every address the gateway manages and no longer grants has been removed
\* from frps and forgotten, and none is forgotten that was not removed.
PassSyncs ==
    PassComplete /\ "pass" \notin disturbed =>
        /\ \A ip \in ActiveIPs :
              frps[ip] = now + Format(Store!EffectiveExpiry(ip, now) - now)
        /\ managedIPs = pass.managed \cap ActiveIPs
        /\ \A ip \in pass.managed \ ActiveIPs : ~OnFrps(ip)

\* The client returns an error for a lifetime that Format cuts to "0s".
CallRefused ==
    \/ exec.phase = "adding" /\ Format(exec.ttl) = 0
    \/ exec.phase = "refreshing" /\ Format(exec.expireAt - now) = 0

\* A command that returns without an error, and that nothing disturbed,
\* leaves its address on frps as long as anyone holds it, and a removal by
\* the last holder takes it off (Executor.add and Executor.remove).
CommandSyncs ==
    [][\A ip \in IPs :
          /\ exec.phase # "idle" /\ exec.ip = ip /\ "exec" \notin disturbed
          /\ exec'.phase = "idle" /\ faults' = faults /\ ~CallRefused
          => /\ (ip \in ActiveIPs => OnFrps(ip))'
             /\ exec.phase = "removing" => ~OnFrps(ip)']_vars

GrantedIPs == {grants[i].ip : i \in DOMAIN grants}

\* An entry of an address that the gateway never granted belongs to the
\* operators of frps: only they, the clock or a restart of frps change it,
\* whatever the reconciler and the handlers do.
ForeignEntriesUntouched ==
    [][\A ip \in IPs \ GrantedIPs :
          frps'[ip] # frps[ip] => Tick \/ FrpsRestart \/ ManualEdit(ip)]_vars

\* An audit row that turns "synced" tells the truth about the address it is
\* about, as long as nothing disturbed the mutation: an address that is
\* still granted is on frps with the latest expiry over all its grants,
\* whether the mutation added, extended or revoked one of them.
SyncedAuditIsTrue ==
    [][\A a \in DOMAIN adminAudit :
          adminAudit'[a].result = "synced" /\ adminAudit[a].result = "recorded"
          /\ "admin" \notin disturbed =>
             LET ip == grants[adminAudit[a].grant].ip
             IN  ip \in ActiveIPs => frps[ip] =
                    now + Format(Store!EffectiveExpiry(ip, now) - now)]_vars

\* Once faults, users and the clock come to rest, the periodic passes bring
\* every active grant onto frps and take off and forget every managed
\* address without one, whatever went wrong before: lost calls, crashes at
\* any point, entries lost by frps or removed by hand.
Converges ==
    <>[](/\ \A ip \in ActiveIPs : OnFrps(ip)
         /\ managedIPs \subseteq ActiveIPs)

\* The audit row of the console mutation in progress, 0 if there is none.
Mutating == IF admin.phase = "idle" THEN 0 ELSE admin.audit

\* A console mutation never hangs on the two locks it takes (mutate, then
\* reconcileMu), and when nothing fails its audit row is closed.
AuditsClose ==
    \A a \in 1..MaxAudits :
        (Mutating = a) ~>
            (/\ Mutating # a
             /\ \/ faults > 0
                \/ \E row \in DOMAIN adminAudit :
                      row = a /\ adminAudit[row].result # "recorded")

-----------------------------------------------------------------------------
(* What the documentation says and the code does not do; refuted by a run. *)

\* docs/api.md: an audit row is "synced" when the synchronisation succeeded.
\* Read of a revocation whose operation nothing disturbed: when nobody else
\* is granted the address, it is off frps.
SyncedRevokeIsEffective ==
    [][\A a \in DOMAIN adminAudit :
          adminAudit'[a].result = "synced" /\ adminAudit[a].result = "recorded"
          /\ "admin" \notin disturbed /\ faults = 0 =>
             LET ip == grants[adminAudit[a].grant].ip
             IN  ip \notin ActiveIPs => ~OnFrps(ip)]_vars

=============================================================================
