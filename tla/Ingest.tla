-------------------------------- MODULE Ingest --------------------------------
(***************************************************************************)
(* The poller copies the access log of frps into the database. frps keeps  *)
(* the newest records in a ring in memory and numbers them from 1 in every *)
(* instance (run) of frps; the poller fetches the newest page, compares it *)
(* with the highest number stored, reports a gap, and stores what is new.  *)
(* Once an hour the same goroutine deletes rows that are too old.          *)
(*                                                                         *)
(* Fetching and storing are separate steps: frps goes on, restarts or      *)
(* overwrites its ring in between, and the gateway may die. The cursor and *)
(* the insertion are one step, as only the poller writes the table.        *)
(***************************************************************************)
EXTENDS Integers, Sequences, FiniteSets, FiniteSetsExt

CONSTANTS
    RingSize,     \* whitelist.accessLogSize of frps
    FetchLimit,   \* largest page that frps returns
    Retention,    \* ingest.retentionDays, in ticks
    MaxSeq,       \* bound: records of one instance
    MaxInstances, \* bound: runs of frps
    MaxTime,      \* bound: the clock
    MaxFaults     \* bound: failed queries and crashes of the gateway

IngestAssumption ==
    /\ RingSize \in Nat \ {0} /\ FetchLimit \in Nat \ {0} /\ Retention \in Nat
    /\ MaxSeq \in Nat /\ MaxInstances \in Nat \ {0}
    /\ MaxTime \in Nat /\ MaxFaults \in Nat
ASSUME IngestGiven == IngestAssumption

VARIABLES
    instance,  \* the current run of frps
    lastSeq,   \* number of its newest record
    ring,      \* its records still in memory, oldest first
    page,      \* what the poller has fetched and not stored, {} between polls
    rows,      \* access_records
    now,
    faults,
    seen,      \* history: records ever stored, by instance and number
    alarms     \* history: records whose absence a gap warning covered

vars == <<instance, lastSeq, ring, page, rows, now, faults, seen, alarms>>

Record == [instance : 1..MaxInstances, seq : 1..MaxSeq, time : Nat]
Names == (1..MaxInstances) \X (1..MaxSeq)

TypeOK ==
    /\ instance \in 1..MaxInstances /\ lastSeq \in 0..MaxSeq
    /\ ring \in Seq(Record) /\ Len(ring) <= RingSize
    /\ page \subseteq Record /\ Cardinality(page) <= FetchLimit
    /\ rows \subseteq Record
    /\ \A r, q \in rows : r.instance = q.instance /\ r.seq = q.seq => r = q
    /\ now \in 0..MaxTime /\ faults \in 0..MaxFaults
    /\ seen \subseteq Names /\ alarms \subseteq Names

Fault == faults < MaxFaults /\ faults' = faults + 1

\* Mutant of Newest: one element too many.
NewestOneMore(s, n) == SubSeq(s, Max({1, Len(s) - n}), Len(s))

\* The newest n elements of s.
Newest(s, n) == SubSeq(s, Max({1, Len(s) - n + 1}), Len(s))

-----------------------------------------------------------------------------
(* frps.                                                                   *)

\* A connection is allowed or denied; the oldest record may be overwritten.
Log ==
    /\ lastSeq < MaxSeq
    /\ lastSeq' = lastSeq + 1
    /\ ring' = Newest(Append(ring, [instance |-> instance, seq |-> lastSeq + 1,
                                    time |-> now]), RingSize)
    /\ UNCHANGED <<instance, page, rows, now, faults, seen, alarms>>

FrpsRestart ==
    /\ instance < MaxInstances
    /\ instance' = instance + 1 /\ lastSeq' = 0 /\ ring' = <<>>
    /\ UNCHANGED <<page, rows, now, faults, seen, alarms>>

-----------------------------------------------------------------------------
(* The poller.                                                             *)

\* PollOnce: ListAccessLog; an empty page, like a failed request, leaves
\* everything as it is until the next tick.
Fetch ==
    /\ page = {}
    /\ LET newest == Newest(ring, FetchLimit)
       IN  page' = {newest[k] : k \in DOMAIN newest}
    /\ UNCHANGED <<instance, lastSeq, ring, rows, now, faults, seen, alarms>>

\* MaxAccessSequence, 0 when no row of the instance is left.
Cursor(i) == Max({0} \cup {r.seq : r \in {q \in rows : q.instance = i}})

\* Mutant of Gap: the fetched range is not compared with what is stored.
GapWithinPage(i) ==
    LET fetched == {r.seq : r \in {q \in page : q.instance = i}}
    IN  (Min(fetched)..Max(fetched)) \ fetched

\* store: what a gap warning about instance i covers, {} when none is given.
\* The warning names the expected number and the range that was fetched.
Gap(i) ==
    LET fetched  == {r.seq : r \in {q \in page : q.instance = i}}
        expected == Cursor(i) + 1
        lo == Min(fetched)
        hi == Max(fetched)
    IN  IF \/ hi >= expected /\ lo > expected
           \/ hi - lo + 1 > Cardinality(fetched)
        THEN (expected..hi) \ fetched
        ELSE {}

\* Mutant of Store: rows of the newest stored number and older are taken for
\* known, whatever instance they are of.
StoreNewer ==
    /\ page # {}
    /\ LET fresh == {r \in page : \A q \in rows : q.seq < r.seq}
       IN  /\ rows' = rows \cup fresh
           /\ seen' = seen \cup {<<r.instance, r.seq>> : r \in fresh}
    /\ page' = {}
    /\ UNCHANGED <<instance, lastSeq, ring, now, faults, alarms>>

\* store: warnings first, then InsertAccessRecords in one transaction, which
\* skips known records. When it fails the next poll starts over. Records
\* without an instance or a number, for which a whole page is refused before
\* that, do not occur: frps names its instances and numbers from 1.
Store ==
    /\ page # {}
    /\ alarms' = alarms \cup UNION {{<<i, s>> : s \in Gap(i)} :
                                       i \in {r.instance : r \in page}}
    /\ \/ LET fresh == {r \in page : ~\E q \in rows :
                                        q.instance = r.instance /\ q.seq = r.seq}
          IN  /\ rows' = rows \cup fresh
              /\ seen' = seen \cup {<<r.instance, r.seq>> : r \in fresh}
              /\ UNCHANGED faults
       \/ Fault /\ UNCHANGED <<rows, seen>>
    /\ page' = {}
    /\ UNCHANGED <<instance, lastSeq, ring, now>>

\* pruneOnce, in the same goroutine as the polls; its failure changes nothing.
Prune ==
    /\ page = {}
    /\ rows' = {r \in rows : r.time >= now - Retention}
    /\ UNCHANGED <<instance, lastSeq, ring, page, now, faults, seen, alarms>>

\* The gateway dies and restarts, or the query for the cursor fails before
\* anything is reported: the page is lost.
Crash ==
    /\ Fault
    /\ page' = {}
    /\ UNCHANGED <<instance, lastSeq, ring, rows, now, seen, alarms>>

Tick ==
    /\ now < MaxTime /\ now' = now + 1
    /\ UNCHANGED <<instance, lastSeq, ring, page, rows, faults, seen, alarms>>

-----------------------------------------------------------------------------
Init ==
    /\ instance = 1 /\ lastSeq = 0 /\ ring = <<>>
    /\ page = {} /\ rows = {} /\ now = 0 /\ faults = 0
    /\ seen = {} /\ alarms = {}

Next ==
    \/ Log \/ FrpsRestart
    \/ Fetch \/ Store \/ Prune \/ Crash
    \/ Tick

Spec == Init /\ [][Next]_vars

\* The ticker of the poller keeps firing; polls follow each other for ever.
Fairness == WF_vars(Fetch) /\ WF_vars(Store)

FairSpec == Spec /\ Fairness

-----------------------------------------------------------------------------
(* Properties.                                                             *)

\* A record that is missing from the middle of the stored history was
\* announced by a gap warning: failed polls, an overwritten ring, crashes
\* and pruning never open a hole that nobody was told of (Poller.store).
LossIsReported ==
    \A name \in seen : \A s \in 1..(name[2] - 1) :
        <<name[1], s>> \in seen \cup alarms

InRing(i, s) == \E k \in DOMAIN ring : ring[k].instance = i /\ ring[k].seq = s

\* A record reaches the database unless it is overwritten or frps restarts
\* first: failed polls are made up for as long as the ring holds it
\* (Poller.Run). bot.toml.example counts on that when it advises a larger
\* ring against losses.
RingIsStored ==
    \A i \in 1..MaxInstances, s \in 1..MaxSeq :
        InRing(i, s) ~> (<<i, s>> \in seen \/ ~InRing(i, s))

=============================================================================
