# Verification of frps-gateway

frps-gateway keeps the IP whitelist of an frps server in step with grants that
employees obtain through a Feishu bot or a one-time link, and that
administrators edit in a console. This directory holds TLA+ models of it, the
TLC runs that check them and TLAPS proofs about them.

## 1. The system

| Part | State | Operations | Talks to |
|---|---|---|---|
| Grant store (`store/`) | SQLite through one connection: `grants`, `auth_tokens`, `managed_ips`, `admin_audit`, `messages`, `reply_outbox`, `bot_inbox`, `access_records` | one transaction or statement per method | called by everybody |
| Executor (`executor/`) | `messageMu`, `reconcileMu` | `Execute` (add, remove, list), `AuthorizeLink`, `Reconcile`, `Ready` | store, frps client |
| Authorization server (`authorize/`) | none of its own | `NewLink`, GET and POST of `/authorize/{token}`, health | store, frps client |
| Console (`admin/`) | in memory: sessions, knock progress, gates, failures, and `mutate` (one mutation at a time) | add, extend, revoke a grant; knock, login, logout; pages | store, executor |
| frps client (`frps/`) | none | `Add`, `Remove`, `List`, `ListAccessLog` | frps over HTTP |
| Bot (`feishu/`) | in memory: rate windows | `onMessage`, `onCardAction`, `runInbox` workers, `runReplyOutbox` | store, executor, Feishu |
| Ingest (`ingest/`) | none besides the table | `PollOnce`, `pruneOnce` in one goroutine | frps client, store |
| Duration, command parser, configuration, cards | none | pure functions | |
| Process (`main.go`) | | start-up pass, 30 s ticker, servers, bot | all |

What is hard here:

* A grant is a row in the database *and* an entry on frps, and no operation
  covers both. Every writer first commits and then calls frps; four kinds of
  writers run beside each other and nothing orders their calls.
* A call may fail after it took effect; the process may die between the
  commit and the call; frps may lose its whitelist; operators edit it by hand.
* `Reconcile` works from a snapshot of the grants and a later list of managed
  addresses, while everything around it changes.
* Callers read the clock before they get the only database connection.
* Feishu delivers events at least once; workers retry; replies are sent by
  somebody else, later, and again after a failure.
* The access log of frps is a ring that overwrites and restarts.
* The console keeps knocks, gates, sessions and failed logins in maps that are
  pruned only when a request comes by, and one login takes their mutex five
  times, with other requests in between.
* Who is behind an access record is worked out when a page is read, from grants
  that went on changing after the request.

What makes each part correct: the limit of active addresses, the finality of
revocation and expiry, and links that work once (store); convergence of the two
sides after any fault, passes and commands that do what they say when nothing
disturbs them, foreign entries left alone, truthful audit rows (executor,
authorization, console); one run per message where the cache allows it, no
message left unanswered (bot); no silent hole in the access history (ingest);
tokens that are worth nothing after their time, a bounded number of attempts and
logins, and a door that opens again (console); owners who held the address
(attribution).
The hazards behind these, each at its line, are in `PROJECT.json`.

## 2. Modules

```
GrantStore ------ GrantStoreProofs (theorems)
  |   \
  |    Attribution --- AttributionProofs (theorems, through GrantStoreProofs)
  |
WhitelistSync --- Duration, ClientAddress --- ClientAddressProofs (theorems)
  |
WhitelistSyncProofs (theorems, through GrantStoreProofs and ClientAddressProofs)

BotPipeline --- BotPipelineProofs (theorems)
Ingest --- IngestProofs (theorems)
AdminConsole --- AdminConsoleProofs (theorems)
  |
  ==> LeaseTable (abstract)

NaturalSets: sets of numbers and of finite sets, for the proofs
MC<module>: instances for TLC
```

**GrantStore** has one action per writing transaction of the store. Rows are
records in a sequence whose index is the row id; addresses, users and messages
are model values; times are ticks. A method that reads the clock before its
transaction takes that stamp as a parameter from `Stamps` (up to `MaxLag` ticks
old), `RevokeUserIP` too, whose arguments are evaluated before its statement gets
the connection; one that reads it inside uses `now`. A refused transaction changes
nothing and so is no step. The device addresses of a confirmation are one or
two distinct ones (`TargetLists`). Bounds: `MaxTime`, `MaxGrants`, `MaxAudits`.

**Duration** is the package of that name. `Parse` takes a text as its segments,
pairs of a count and a unit, and gives the set of values the build may return:
a sum that wraps at `Width`, of conversions for which Go leaves the result open
when they do not fit. `Format` cuts what frps is told of a lifetime to the two
most significant units.

**ClientAddress** works out the addresses of a confirmation: `ClientIP` walks
`X-Forwarded-For` from the right past trusted proxies and unreadable entries,
`ReportedIPv4` takes the address the browser submits, `Targets` is the list
handed to the store. Entries are texts, of which several may spell one address
(`AddressOf`).

**Attribution** is `attachAccessOwners`. It runs the transactions of
`GrantStore` beside requests that frps logs. `createdAt` is the column of that
name, `Covers` the test of the code; `held` records, for the properties, who
held the address around the time of each request.

**WhitelistSync** composes the store with everyone who calls frps. `exec` is the
command under `messageMu`; `post` the confirmation handlers; `admin` the console
mutation; `pass` the reconciliation under `reconcileMu`. Each transaction and
each call to frps is one step: `ExecAdd` then `ExecAddCall`; `ExecRevoke`,
`ExecDecide`, then `ExecRefreshCall` or `ExecRemoveCall`; `PostConsume` then one
`PostCall` per address; `AdminAdd`/`Extend`/`Revoke`, a whole pass,
`AdminAudit`; and `PassStart`, `PassAdd` per address, `PassListManaged`,
`PassRemove` and `PassForget` per address, `PassDone`. `AddCall` and
`RemoveCall` give every outcome a caller can see. `Crash`, `FrpsRestart`,
`ManualEdit`, failed calls and failed queries (`PassAbort` and disjuncts of the
handlers) draw on one budget, `MaxFaults`. Lifetimes arrive as texts and pass
`Parse` and the checks of their handler (`CommandTTL` with `bot.maxTTL`, `AdminTTL`
with `admin.maxGrantTTL`); a POST
arrives as a request whose addresses `Targets` finds. `disturbed` is a history
variable: the operations that another actor or a fault interfered with. It makes
"what this operation achieves on its own" expressible, and no guard reads it.
`CommandSyncs` excepts the calls that the client itself refuses, for a lifetime
that `Format` cuts to "0s" (`CallRefused`): the command then returns an error
although nothing failed. The names of the confirmation handlers (`Posters`) must
differ from those of the other actors (`SyncAssumption`), or `disturbed` could
not tell them apart.

**BotPipeline** is the way of a message through `bot_inbox`, the workers,
`Execute` with its cache, `reply_outbox` and the sender, and of clicks on the
revoke button, which share `Execute` and the limiter. A run of a command is
counted and its reply is the number of the run; for a menu a run is a card with
a fresh link. Waiting times (`next_attempt_at`, the rate window) count down, so
that the clock needs no bound. What `allow` drops are the requests whose minute
is over, the first ones of the user's list (`Ending`). `Restart` is a crash and
the following `Open`. Feishu is external: it repeats deliveries as it likes and
shows one message per UUID.

**Ingest** is the poller beside the ring of frps. The cursor query and the
insertion are one step because only the poller writes the table.

**AdminConsole** is access to the console with the knock configured. Each
section of the mutex is a step: `KnockDoor` then `IssueGate`; `Login` (the
lookups of `ServeHTTP`), `CheckLock`, then `RecordFailure` or `ClearFailures`,
`OpenSession`, `ConsumeGate`; `Visit` is any other request, `Logout` a logout.
Requests present any cookies some browser was given, stale ones included, and
may end anywhere, as clients go away. Lifetimes count down, so the clock needs
no bound. The failures that count are the end of a client's list (`Counting`),
since each is appended when it happens. `logins` is a history variable that
counts the sessions opened per gate.

**LeaseTable** is what the console promises about each of its maps: a token is
good for its TTL, only so many are good at once, an expired one is nothing. The
maps of `AdminConsole`, with their lazy pruning, implement it under the mapping
`Leases` (time left of an entry, 0 for a missing one).

## 3. Runs

| Run | Question | Bounds and why they are enough | Distinct states |
|---|---|---|---|
| `grant_store` | Limit, one-time links, finality for any order of transactions | 1 user, 3 addresses, limit 2: two targets at the limit, refreshes, an extra console grant; lag 1 with links of lifetime 1; 3 grants, 1 audit row | 1,068,719 |
| `sync_admin` | Passes, foreign entries, audit rows; convergence and closing of rows | 2 addresses, console only, 1 fault, 2 mutations, units 1/2/4 with a lifetime of 7 (`admin.maxGrantTTL`) that `Format` cuts and one of 1 that ends within the clock bound | 92,910 |
| `sync_bot` | Refinement of the store, commands | 2 users on 2 addresses, a link, no faults: all disturbance comes from other actors. Requests come directly or through two proxies with forged entries and a second spelling of the address; texts overflow or come out valid after an overflow | 322,144 |
| `sync_bot_live` | Convergence with shared addresses | 2 users on 1 address, a confirmation, commands with lifetimes 1 and 2, 1 fault; a grant of lifetime 1 ends within the clock bound, one of 2 does not, so that an entry cut short must come back | 283,371 |
| `pipeline` | Answers and runs under redelivery, concurrency, crashes and failures | 2 messages of one user, 2 workers, one button clicked in 2 callbacks at once, limit 2, batches of 1, 1 fault | 894,487 |
| `pipeline_live` | Every message is answered | a command and a menu, 1 worker, limit 1, 2 faults (a failure, and the failure of its retry) | 102,410 |
| `ingest_log` | Holes are reported, the ring is drained | ring and page of 2, 4 records in each of 2 instances of frps, retention 1 of 2 ticks, 1 fault | 69,720 |
| `console` | Leases, lockout, gates under concurrent requests | 1 client, 2 requests at once, 3 hits, room for 1 knock and 1 gate, 2 failures allowed, all lifetimes 2 ticks: full maps, an expiry between any two steps, two logins with one gate | 397,865 |
| `access_history` | Owners of access records | 2 users on 1 address, a link, 2 grants of lifetimes 1 to 3, so that an extension may shorten, lag 1, 1 record at any time | 480,533 |

`CHECK_DEADLOCK FALSE` except in `console`, whose time never ends: elsewhere
users, faults and the clock are bounded and may come to rest, and with them the
system.

Fault budgets of 1 and 2 place a fault at *every* step of every interleaving.
One fault reaches each single failure; two are used where the code has a
second line of defence (`RetryInbox` after a failed attempt). A finite budget
is also what "after faults cease" means in the liveness properties.

Symmetry is used in runs without liveness only, over values that no constant or
property tells apart.

### Refuted statements

Three statements of documentation and comments are checked as written and
refuted. Each has a run of its own (`Claim*.cfg`); the quotation is in
`PROJECT.json`.

1. `claim_synced_revoke`: a revocation's audit row becomes `synced` while the
   address stays on frps. A pass that overlaps with a new grant removes the
   address from `managed_ips` (it was stale in its snapshot), the grant's own
   call puts it on frps, and no later pass knows the address. The entry stays
   until its ttl runs out; no later pass heals it.
2. `claim_result_recorded`: a retry refused by the limiter ends the message; the
   result of the executed command is never recorded.
3. `claim_live_owner`: a request made inside a live grant is shown as
   非授权时段 once that grant is revoked, because revocation is a flag and not a
   time to `attachAccessOwners`.

Three more disagreements with `docs/api.md` need no interleaving to be seen, and
have no run: a second, shorter grant shortens a shared frps entry until the next
pass (line 18); a row whose retry could not be stored stays `processing` until a
restart (line 14; `EventsAnswered` excepts exactly those rows, `Stranded`);
every hit starts the knock window anew, so the hits need not fall within one
window (line 24, `KnockDoor`).

What the postconditions do not say is said elsewhere. `PassSyncs`, `CommandSyncs`
and `SyncedAuditIsTrue` are about operations that nothing disturbed; what a
disturbed one leaves behind is the subject of `Converges`, in `sync_admin` for
mutations and in `sync_bot_live` for commands and confirmations. In the latter
run a command or a confirmation overwrites the longer entry of another user, and a
removal takes off an address that was granted again meanwhile. Not reached there is
a confirmation of two addresses whose second call fails, or comes after the first
was revoked: the run has one address. For any number of them `PassesSync` proves
that an undisturbed pass puts every granted address on frps, whoever left it out.

The limits of other promises are in the properties themselves. `RunsOnce` names
the two ways a command can run again (no saved reply, or one that could not be
read). `RingIsStored` is checked with a ring no larger than one page
(`FetchLimit`): the API has no cursor, so a larger ring is not drained.

## 4. Fairness

* Started operations go on (`WF` on the remaining steps of a command, a
  confirmation, a pass): they are straight-line Go code with timeouts on calls.
* The ticker keeps starting passes (`WF` on `PassStart("ticker")`), and the
  start-up pass is not optional.
* `SF` on the console's wait for `reconcileMu` and on `Lookup`, the wait for
  `messageMu`: a `sync.Mutex` that passed a waiter over for a millisecond is
  handed to it directly.
* Workers, sender and poller are endless loops on tickers (`WF`). In
  `BotPipeline` time passes (`WF_vars(Tick)`), so back-offs end.
* In `AdminConsole` time passes (`WF_vars(Tick)`) and nothing else is sure to
  happen: no request has to come, and none has to end.
* Users, faults, and the clock of `WhitelistSync` are under no fairness.

`Converges` is stated for the long run: `<>[]`, since the bounded users, clock
and faults come to rest. It promises that active grants are on frps and that no
managed address outlives its grants. It promises nothing about an address that
refutation 1 dropped from `managed_ips`: that is the defect.

## 5. Proofs

`GrantStoreProofs` proves for every value of the constants allowed by
`StoreAssumption` (any users, addresses, limit, lag, lifetimes and bounds; the
set of addresses finite):

* `TypeCorrect`: `Spec => []TypeOK`.
* `LimitCorrect`: `Spec => []ActiveIPLimit`. `ActiveIPLimit` is about the clock
  `now`, but transactions check the limit with stamps from the past or the
  present, revoke, extend or prolong grants, and the console adds grants beyond
  the limit. The argument: an address active now was active at every earlier
  stamp at which its row existed (`Active` only shrinks with time), so the set
  counted by `WithinIPLimit` contains what is active afterwards; and console
  grants only ever add to the counted set, never to the limited one. With
  `TypeOK` the limit is inductive: each step either keeps every user's set
  within the old one (`RowsKept`) or adds the rows of one user under a passed
  check (`NewRowsWithinLimit`); finiteness of the sets comes from `TypeOK`.
* `FinalityCorrect`: `Spec => [][...]_vars` for `InactiveIsFinal`, from the same
  case analysis (`EveryStep`).

* `LinksCorrect`: `Spec => []LinkGrantsBackedByTokens`. Rows carry no trace of
  the link they came from, so the property compares numbers: the rows of a user
  that links created against the addresses the user's used links allow. The
  invariant `Backed` adds that links are finite in number and differ in the
  message and the attempt they were issued for; then a confirmation makes exactly
  one more of them used, and at most two more rows.

`ClientAddressProofs` is about the operators of `ClientAddress`, for every set
of proxies, every spelling and every header:

* `ClientIPIsLastHop`: behind any chain of trusted proxies the client address is
  the one the outermost of them was called from, whatever the caller wrote into
  the header and whatever is unreadable in it. The walk is a greatest element of
  a set of positions; `StopsAtHop` shows that it exists and where it is.
* `ClientIPIsPeer`: without a trusted proxy the header does not matter.
* `TargetsAreDistinct`: a confirmation asks for one or two *different* public
  addresses, which is what `ConsumeTokenIPs` counts the limit for
  (`TargetLists` of `GrantStore`).

`WhitelistSyncProofs` carries the store's theorems over to the gateway, for
every number of handlers, faults, requests and texts:

* `StoreImplemented`: `Spec => StoreSpec`. Every step of every actor is one
  transaction of `GrantStore` or leaves its tables alone. What has to be shown is
  that each caller keeps the store's preconditions: a command and a console
  mutation only pass lifetimes that survived `Parse` and the checks of their
  handler, and a confirmation only lists from `TargetLists`
  (`TargetsAreDistinct`).
* `LimitHolds`, `LinksHold`: `Spec => []Store!ActiveIPLimit` and
  `Spec => []Store!LinkGrantsBackedByTokens`, by `LimitCorrect` and
  `LinksCorrect`.
* `ForeignEntriesKept`: `Spec => ForeignEntriesUntouched`. Actors act on what
  they read earlier, so the guard of the step that calls frps says nothing; the
  inductive invariant `Known` says that whatever an actor holds (a command its
  address, a confirmation its list, a pass its snapshot, its list of managed
  addresses and the address in hand) was granted at some time, and `managedIPs`
  too. It stays true because no row is ever lost (`KeepsGrants`, from
  `EveryStep` of `GrantStoreProofs`).
* `TypeCorrect`: `Spec => []TypeOK`.
* `PassesSync`, `CommandsSync`, `AuditsTrue`: `PassSyncs`, `CommandSyncs` and
  `SyncedAuditIsTrue`, from one inductive invariant `Views`. Each of the three
  says something about the last step of an operation whose earlier steps read the
  database or called frps; what was read is still true only if nobody interfered,
  which is what `disturbed` records. `PassView` follows a pass through its phases:
  the snapshot is still that of the clock, what has been added is on frps with
  the expiry of the snapshot (`AddedSynced`), and while addresses are dropped
  `managed_ips` is the list the pass read without those it forgot, and at most one
  address is removed and not yet forgotten (`DroppedRest`). `AdminView` takes over
  what the pass of a mutation achieved until its row is written; for that the
  console has to share the disturbances of its pass (`ConsoleWaits`). `ExecView`
  says that nobody holds the address a command is about to take off.
  `Undisturbed` is the step all three rest on: an operation that ends a step
  undisturbed did not fail in it and saw no other actor change what it read.

`AdminConsoleProofs` is about access to the console, for every number of
clients, requests and tokens that `ConsoleAssumption` allows:

* `KnocksImplemented`, `GatesImplemented`, `SessionsImplemented`: `Spec` implies
  each of the three instances of `LeaseTable`. Pruning, whoever does it, changes
  no lease (`LeasesPruned`), and dropping, putting and ageing entries do to the
  leases what the abstract actions do (`LeasesDropped`, `LeasesPut`,
  `LeasesAged`). A new entry is a `Begin` because its token is in no live entry:
  with room in the map there are tokens left, even when those that requests still
  present are avoided (`FreshInTable`, `FreshGate`).
* `GateServesFew`: `Spec => []LoginsPerGate`. The bound is not inductive; the
  invariant `Counted` adds what makes it so. As long as a gate is in the map, all
  who opened a session with it are still about to close it (`Closing`); whoever
  is let through now is another handler, so the sessions opened and the requests
  that may still open one (`Using`) together fit into `Handlers`.
* `BoundCorrect`: `Spec => []FailuresBounded`. The check of the lockout and the
  record of a failure are two sections of the mutex. `Throttled` adds to the
  failures that count the requests past the check (`Past`), which may still record
  one, and bounds the sum. It also says that a client's failures are in the order
  of time: without that the ones that no longer count would not be the first.
* `TypeCorrect`: `Spec => []TypeOK`; one part (`Tables`) for the maps, one for
  requests, and the failures from `Throttled`.

`BotPipelineProofs` is about the way of a message, for every number of events,
workers, callbacks, faults and restarts. `Shape`, what rows and jobs look like,
is common to five invariants:

* `CacheCorrect`: `Spec => RunsOnce`. The job that is about to run looked into
  the cache earlier. `Cached` says that nothing was saved since, because only one
  job at a time is past its lookup (`Exclusive`, `messageMu`).
* `AnswersCorrect`: `Spec => []CompletedIsAnswered`. `Answers` says it of every
  worker that is about to complete its event, and no step takes a row out of the
  outbox.
* `SentCorrect`: `Spec => []SentIsShown`. A text passes the cache, a job, the
  outbox and a batch before it is shown; `Provenance` says of each of these
  places that it holds the number of a run that happened, and of a batch that
  what was sent with success is shown.
* `OneAnswerCorrect`: `Spec => []OneAnswer`. Without faults an event is
  claimed once, but to see it takes all of `OneEach`: nothing was done about
  events that wait, a worker is alone with its event, and it is either refused
  with nothing done or executed with nothing refused.

* `TypeCorrect`: `Spec => []TypeOK`, with its three bounds. One command at a time
  is past its lookup by `Exclusive`; a batch is no larger than `BatchSize` because
  the pending replies it is taken from are finitely many (`Batched`), although no
  constant says so; and a user never has more than `RateLimit` requests in the
  window because they are kept in the order of time (`Window`), so that a tick
  removes the first ones.

`IngestProofs` is about the history of accesses, for every ring, page, retention
and number of instances:

* `LossCorrect`: `Spec => []LossIsReported`. The inductive invariant `Ingested`
  says that the ring is the end of what its instance logged (`RingIsTail`), that a
  page in hand is a range of records of one instance (`PageIsRange`), and that
  every row was seen (`RowsSeen`). Below a record that is new there are then
  records of its page, records named by the gap warning, and the newest row, for
  which the property held before; pruning and a restart between the poll and the
  insertion leave that argument intact.
* `TypeCorrect`: `Spec => []TypeOK`.

`AttributionProofs` is about the owners of access records, for every lag,
lifetime and order of transactions:

* `OwnersCorrect`: `Spec => []OwnersHeldIt`. Who held an address when the request
  came is compared with rows that changed since. `Attributed` relates each record
  to the rows in both directions: an exact owner held the address
  (`ExactWereHeld`), and whoever held it has a row (`HoldersWereGranted`). A new row
  covers an older record only if the record is no older than its stamp may be,
  which is the time around a request that the property speaks of; an extension
  finds its grant active, so it covered the record before.
* `HistoryCorrect`: `Spec => HistoryIsStable`, an action property, from the same
  lemmas about single transactions.
* `TypeCorrect`: `Spec => []TypeOK`, through `TypeCorrect` of the store.

`NaturalSets` states what several of these need: a set of natural numbers has a
least element and, when it is bounded or finite, a greatest one, so `Min` and `Max`
are what their names say. It argues by least counterexamples (`WFMin`).

Every invariant that a run checks is a theorem, and so is every action property
and every refinement. Model-checked only is liveness, which is outside the prover:
`Converges` and `AuditsClose` of `WhitelistSync`, `EventsAnswered` of
`BotPipeline`, `RingIsStored` of `Ingest`, `LockoutEnds` and `DoorReopens` of
`AdminConsole`. The texts of `Duration`, whose sums run over sequences of segments,
are checked in the runs of `WhitelistSync` and not proved about; of `Format` the
proofs use that it returns a number no larger than the lifetime (`FormatIs`).

## 6. Not modelled

* Filters and pages of the console's lists, `currentRows`, GET pages, health
  endpoints, cards: they read and show. The command parser but for lifetimes,
  and the configuration but for the checks the assumptions state.
* Console access without a knock secret, where `ServeHTTP` lets everybody
  through to the login; a failing random source; a session that ends while its
  mutation waits (`WhitelistSync` has no sessions).
* `failures` keeps a key for every host and name ever tried; the models have
  finitely many.
* Failed queries of a handler whose transaction is rolled back: they change
  nothing and are no step. Those that leave work half done are modelled.
* Calls to frps take effect before their caller goes on; a request that timed
  out at the caller and reaches frps still later is not modelled.
* The refusal of a whole page of access records when one has no instance or
  number 0 (`ErrInvalidRecordIdentity`): frps names its instances and numbers
  their records from 1. The refusal would write nothing and warn of nothing, so
  the poll would be lost as in `Crash`.
* Queries that only read (`EffectiveExpiry`, `ListActive`, `ListUser`) use the
  clock as their statement runs, although they too read it a moment before.
* Ticks: two instants within a tick are equal, and so `time.Until` is exact.
* Labels of entries (the `operator` argument) and access windows.
* `created_at` order of inbox and outbox rows: any due row may be taken, which
  allows more than the code does.
* The queue in memory of a bot without an outbox: `main` always sets one.

## 7. Plan

1. Done: `GrantStore` with its proofs; `WhitelistSync` with `Duration` and
   `ClientAddress`; `BotPipeline`; `Ingest`; `AdminConsole` with `LeaseTable`;
   `Attribution`. Proofs of all their safety and action properties.
2. Left: `LeaseTable` has no theorems of its own; that no console maps exceed their
   limits, expired entries included, would follow from `LeasesPut`. Lemmas about
   `Format` and `Parse` of `Duration` beyond their types.
