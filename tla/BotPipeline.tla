------------------------------ MODULE BotPipeline ------------------------------
(***************************************************************************)
(* How a message to the bot is answered. Feishu delivers an event at least *)
(* once; the gateway stores it in the bot_inbox table before it says yes.  *)
(* Workers claim events, execute commands under messageMu with the reply   *)
(* cached by message id, put the answer in the reply_outbox table and      *)
(* complete the event. One sender posts the outbox to the chat. Clicks on  *)
(* the revoke button of a card run the same Execute, but answer in place.  *)
(* Every query may fail, sending may fail after it took effect, and the    *)
(* process may die between any two steps; only the tables survive.         *)
(*                                                                         *)
(* What a command does is left to WhitelistSync: here a run is counted and *)
(* its reply is the number of the run. Rows of one table are taken in any  *)
(* order: created_at, which orders them, is in whole seconds.              *)
(***************************************************************************)
EXTENDS Integers, Sequences, FiniteSets, FiniteSetsExt

CONSTANTS
    Messages,      \* message events that pass the checks of handle
    Menus,         \* those of them that ask for a card with a fresh link
    Clicks,        \* event ids of clicks on the revoke button
    Author,        \* the user behind each event
    Workers,       \* runInbox goroutines (bot.workers)
    Callbacks,     \* concurrent onCardAction calls
    RateLimit,     \* bot.requestsPerMinute
    Minute,        \* length of the rate window, in ticks
    BackoffCap,    \* the exponent of the retry delay stops growing here
    BatchSize,     \* replies loaded by one flush
    MaxFaults      \* bound: failed queries and sends, restarts

PipelineAssumption ==
    /\ Menus \subseteq Messages /\ Messages \cap Clicks = {}
    /\ Workers \cap Callbacks = {}
    /\ RateLimit \in Nat \ {0} /\ Minute \in Nat \ {0}
    /\ BatchSize \in Nat \ {0} /\ BackoffCap \in Nat /\ MaxFaults \in Nat
ASSUME PipelineGiven == PipelineAssumption

Ids == Messages \cup Clicks
Jobs == Workers \cup Callbacks
Users == {Author[i] : i \in Ids}

\* An event's answer has the event's id, a card ":menu" or ":apply" appended
\* and a refusal ":rate-limit".
ReplyIds == Messages \X {"answer", "rate-limit"}

VARIABLES
    inbox,    \* bot_inbox: status, attempts and ticks until next_attempt_at
    replies,  \* messages: the saved reply of each command, 0 if none
    outbox,   \* reply_outbox: status, body, attempts and ticks to wait
    runs,     \* how often each command had its effects, or a link was issued
    job,      \* the workers and the callbacks in progress
    sender,   \* the batch being sent
    recent,   \* the rate limiter: ticks each accepted request still counts
    chat,     \* messages that Feishu shows
    faults

vars == <<inbox, replies, outbox, runs, job, sender, recent, chat, faults>>

Idle == [phase |-> "idle"]
Holding == {"running", "saving"}   \* phases that hold messageMu

TypeOK ==
    /\ inbox \in [Messages -> [status : {"absent", "pending", "processing", "completed"},
                               attempts : Nat, wait : Nat]]
    /\ replies \in [Ids -> Nat] /\ runs \in [Ids -> Nat]
    /\ outbox \in [ReplyIds -> [status : {"absent", "pending", "sent"},
                                body : Nat, attempts : Nat, wait : Nat]]
    /\ \A j \in Jobs : job[j] # Idle =>
          /\ job[j].phase \in
                {"claimed", "waiting", "replying", "completing", "failed"} \cup Holding
          /\ job[j].id \in (IF j \in Workers THEN Messages ELSE Clicks)
          /\ job[j].kind \in {"answer", "rate-limit"}
          /\ job[j].body \in Nat /\ job[j].attempts \in Nat /\ job[j].blind \in BOOLEAN
    /\ Cardinality({j \in Jobs : job[j].phase \in Holding}) <= 1
    /\ \A item \in sender.batch \cup sender.done :
          item.id \in ReplyIds /\ item.body \in Nat /\ item.attempts \in Nat
    /\ Cardinality(sender.batch) <= BatchSize /\ Cardinality(sender.done) <= 1
    /\ sender.ok \in BOOLEAN
    /\ \A u \in Users : Len(recent[u]) <= RateLimit /\ recent[u] \in Seq(1..Minute)
    /\ \A m \in chat : m.id \in ReplyIds /\ m.body \in Nat
    /\ faults \in 0..MaxFaults

Fault == faults < MaxFaults /\ faults' = faults + 1
NoFault == UNCHANGED faults

\* RetryInbox and RetryReply: 1 << min(attempts, cap) seconds.
Delay(attempts) == 2 ^ Min({attempts, BackoffCap})

-----------------------------------------------------------------------------
(* Feishu delivers a message event: EnqueueInbox keeps the first copy. A   *)
(* delivery that fails is repeated, and so may be one that succeeded.      *)

\* Mutant of Receive: a repeated delivery makes the event pending again.
ReceiveAgain(e) ==
    /\ inbox' = [inbox EXCEPT ![e].status = "pending"]
    /\ UNCHANGED <<replies, outbox, runs, job, sender, recent, chat, faults>>

Receive(e) ==
    /\ inbox' = IF inbox[e].status = "absent"
                THEN [inbox EXCEPT ![e].status = "pending"] ELSE inbox
    /\ UNCHANGED <<replies, outbox, runs, job, sender, recent, chat, faults>>

-----------------------------------------------------------------------------
(* The rate limiter, in memory.                                            *)

MayPass(u) == Len(recent[u]) < RateLimit

Allow(u) ==
    /\ MayPass(u)
    /\ recent' = [recent EXCEPT ![u] = Append(@, Minute)]

Refuse(u) == ~MayPass(u) /\ UNCHANGED recent

-----------------------------------------------------------------------------
(* Workers.                                                                *)

Go(j, phase) == job' = [job EXCEPT ![j].phase = phase]

Begin(j, id, attempts, phase) ==
    job' = [job EXCEPT ![j] = [phase |-> phase, id |-> id, attempts |-> attempts,
                               kind |-> "answer", body |-> 0, blind |-> FALSE]]

\* ClaimInbox: a pending event that is due becomes processing.
Claim(w) ==
    /\ job[w] = Idle
    /\ \E e \in Messages :
          /\ inbox[e].status = "pending" /\ inbox[e].wait = 0
          /\ inbox' = [inbox EXCEPT ![e].status = "processing"]
          /\ Begin(w, e, inbox[e].attempts, "claimed")
    /\ UNCHANGED <<replies, outbox, runs, sender, recent, chat, faults>>

\* handle: every attempt passes the limiter again; a refusal is an answer,
\* a menu is answered with a card and a fresh link, or with a card alone when
\* no link can be issued, the rest is executed.
Handle(w) ==
    /\ job[w].phase = "claimed"
    /\ LET e == job[w].id
       IN  \/ /\ Refuse(Author[e]) /\ NoFault
              /\ job' = [job EXCEPT ![w].phase = "replying", ![w].kind = "rate-limit"]
              /\ UNCHANGED runs
           \/ /\ e \in Menus /\ Allow(Author[e]) /\ NoFault
              /\ runs' = [runs EXCEPT ![e] = @ + 1]
              /\ job' = [job EXCEPT ![w].phase = "replying", ![w].body = runs[e] + 1]
           \/ /\ e \in Menus /\ Allow(Author[e]) /\ Fault
              /\ Go(w, "replying") /\ UNCHANGED runs
           \/ /\ e \notin Menus /\ Allow(Author[e]) /\ NoFault
              /\ Go(w, "waiting") /\ UNCHANGED runs
    /\ UNCHANGED <<inbox, replies, outbox, sender, chat>>

\* Mutant of Lookup: the cache is read without messageMu.
LookupUnlocked(j) ==
    /\ job[j].phase = "waiting" /\ NoFault
    /\ LET id == job[j].id
       IN  job' = IF replies[id] # 0
                  THEN [job EXCEPT ![j].phase = "replying", ![j].body = replies[id]]
                  ELSE [job EXCEPT ![j].phase = "running"]
    /\ UNCHANGED <<inbox, replies, outbox, runs, sender, recent, chat>>

\* Execute takes messageMu and reads CachedReply; a failed read counts as
\* "not cached".
Lookup(j) ==
    /\ job[j].phase = "waiting"
    /\ \A k \in Jobs : job[k].phase \notin Holding
    /\ LET id == job[j].id
       IN  \/ /\ replies[id] # 0 /\ NoFault
              /\ job' = [job EXCEPT ![j].phase = "replying", ![j].body = replies[id]]
           \/ replies[id] = 0 /\ NoFault /\ Go(j, "running")
           \/ Fault /\ job' = [job EXCEPT ![j].phase = "running", ![j].blind = TRUE]
    /\ UNCHANGED <<inbox, replies, outbox, runs, sender, recent, chat>>

\* Execute: the command has its effects, on the database and on frps.
Run(j) ==
    /\ job[j].phase = "running"
    /\ LET id == job[j].id
       IN  /\ runs' = [runs EXCEPT ![id] = @ + 1]
           /\ job' = [job EXCEPT ![j].phase = "saving", ![j].body = runs[id] + 1]
    /\ UNCHANGED <<inbox, replies, outbox, sender, recent, chat, faults>>

\* Execute: SaveReply keeps the first reply, its failure is only logged;
\* messageMu is released.
Save(j) ==
    /\ job[j].phase = "saving"
    /\ LET id == job[j].id
       IN  \/ /\ NoFault
              /\ replies' = IF replies[id] = 0
                            THEN [replies EXCEPT ![id] = job[j].body] ELSE replies
           \/ Fault /\ UNCHANGED replies
    /\ Go(j, "replying")
    /\ UNCHANGED <<inbox, outbox, runs, sender, recent, chat>>

\* Mutant of Reply: a failure to enqueue is only logged.
ReplyLogged(w) ==
    /\ w \in Workers /\ job[w].phase = "replying"
    /\ LET r == <<job[w].id, job[w].kind>>
       IN  \/ /\ outbox' = [outbox EXCEPT ![r].status = "pending", ![r].body = job[w].body]
              /\ NoFault
           \/ Fault /\ UNCHANGED outbox
    /\ Go(w, "completing")
    /\ UNCHANGED <<inbox, replies, runs, sender, recent, chat>>

\* EnqueueReply: a reply not yet sent is overwritten, one that was is kept.
Reply(w) ==
    /\ w \in Workers /\ job[w].phase = "replying"
    /\ LET r == <<job[w].id, job[w].kind>>
       IN  \/ /\ outbox' = CASE outbox[r].status = "absent" ->
                                  [outbox EXCEPT ![r].status = "pending",
                                                 ![r].body = job[w].body]
                             [] outbox[r].status = "pending" ->
                                  [outbox EXCEPT ![r].body = job[w].body]
                             [] OTHER -> outbox
              /\ Go(w, "completing") /\ NoFault
           \/ Fault /\ Go(w, "failed") /\ UNCHANGED outbox
    /\ UNCHANGED <<inbox, replies, runs, sender, recent, chat>>

\* CompleteInbox.
Complete(w) ==
    /\ job[w].phase = "completing"
    /\ \/ /\ inbox' = [inbox EXCEPT ![job[w].id].status = "completed"]
          /\ job' = [job EXCEPT ![w] = Idle] /\ NoFault
       \/ Fault /\ Go(w, "failed") /\ UNCHANGED inbox
    /\ UNCHANGED <<replies, outbox, runs, sender, recent, chat>>

\* RetryInbox; its own failure is ignored and leaves the row processing.
Retry(w) ==
    /\ job[w].phase = "failed"
    /\ LET e == job[w].id
       IN  \/ /\ NoFault
              /\ inbox' = [inbox EXCEPT ![e] =
                    [status |-> "pending", attempts |-> inbox[e].attempts + 1,
                     wait |-> Delay(job[w].attempts)]]
           \/ Fault /\ UNCHANGED inbox
    /\ job' = [job EXCEPT ![w] = Idle]
    /\ UNCHANGED <<replies, outbox, runs, sender, recent, chat>>

-----------------------------------------------------------------------------
(* Clicks on the revoke button: onCardAction.                              *)

Click(h, c) ==
    /\ job[h] = Idle
    /\ Allow(Author[c])
    /\ Begin(h, c, 0, "waiting")
    /\ UNCHANGED <<inbox, replies, outbox, runs, sender, chat, faults>>

\* The reply of Execute becomes the toast of the card.
Toast(h) ==
    /\ h \in Callbacks /\ job[h].phase = "replying"
    /\ job' = [job EXCEPT ![h] = Idle]
    /\ UNCHANGED <<inbox, replies, outbox, runs, sender, recent, chat, faults>>

-----------------------------------------------------------------------------
(* The sender.                                                             *)

Resting == [batch |-> {}, done |-> {}, ok |-> FALSE]

Due == {r \in ReplyIds : outbox[r].status = "pending" /\ outbox[r].wait = 0}

\* Mutant of Flush: the limit of the query is dropped.
FlushAll ==
    /\ sender = Resting /\ Due # {}
    /\ sender' = [Resting EXCEPT !.batch =
          {[id |-> r, body |-> outbox[r].body, attempts |-> outbox[r].attempts] : r \in Due}]
    /\ UNCHANGED <<inbox, replies, outbox, runs, job, recent, chat, faults>>

\* PendingReplies: a snapshot of up to BatchSize rows that are due.
Flush ==
    /\ sender = Resting
    /\ \E S \in SUBSET Due :
          /\ S # {}
          /\ Cardinality(S) = Min({BatchSize, Cardinality(Due)})
          /\ sender' = [Resting EXCEPT !.batch =
                {[id |-> r, body |-> outbox[r].body,
                  attempts |-> outbox[r].attempts] : r \in S}]
    /\ UNCHANGED <<inbox, replies, outbox, runs, job, recent, chat, faults>>

\* Feishu shows one message for the UUID derived from the reply's id.
Shown(item) ==
    IF \E m \in chat : m.id = item.id THEN chat
    ELSE chat \cup {[id |-> item.id, body |-> item.body]}

\* sendReply; a call that fails may have taken effect.
Send(item) ==
    /\ item \in sender.batch /\ sender.done = {}
    /\ \E ok \in BOOLEAN :
          /\ sender' = [batch |-> sender.batch \ {item}, done |-> {item}, ok |-> ok]
          /\ IF ok THEN NoFault /\ chat' = Shown(item)
                   ELSE Fault /\ chat' \in {chat, Shown(item)}
    /\ UNCHANGED <<inbox, replies, outbox, runs, job, recent>>

\* Mutant of Record: the row is marked as sent whatever came of the call.
RecordAlways(item) ==
    /\ item \in sender.done /\ NoFault
    /\ outbox' = [outbox EXCEPT ![item.id].status = "sent"]
    /\ sender' = [sender EXCEPT !.done = {}, !.ok = FALSE]
    /\ UNCHANGED <<inbox, replies, runs, job, recent, chat>>

\* MarkReplySent after a success, RetryReply after a failure; when they fail
\* the row stays due and is sent again.
Record(item) ==
    /\ item \in sender.done
    /\ LET r == item.id
       IN  \/ /\ sender.ok /\ NoFault
              /\ outbox' = [outbox EXCEPT ![r].status = "sent"]
           \/ /\ ~sender.ok /\ NoFault
              /\ outbox' = IF outbox[r].status = "pending"
                           THEN [outbox EXCEPT ![r].attempts = @ + 1,
                                               ![r].wait = Delay(item.attempts)]
                           ELSE outbox
           \/ Fault /\ UNCHANGED outbox
    /\ sender' = [sender EXCEPT !.done = {}, !.ok = FALSE]
    /\ UNCHANGED <<inbox, replies, runs, job, recent, chat>>

-----------------------------------------------------------------------------
(* Time, and the death of the process: the tables survive, and Open makes  *)
(* every processing event pending again.                                   *)

Less(n) == Max({n - 1, 0})

\* allow drops the requests that are a minute old; those of a user are in the
\* order of time, so it is the first ones that go.
Ending(u) == {i \in DOMAIN recent[u] : recent[u][i] = 1}

Tick ==
    /\ inbox' = [e \in Messages |-> [inbox[e] EXCEPT !.wait = Less(@)]]
    /\ outbox' = [r \in ReplyIds |-> [outbox[r] EXCEPT !.wait = Less(@)]]
    /\ recent' = [u \in Users |->
          LET n == Cardinality(Ending(u))
          IN  [i \in 1..(Len(recent[u]) - n) |-> recent[u][n + i] - 1]]
    /\ UNCHANGED <<replies, runs, job, sender, chat, faults>>

Restart ==
    /\ Fault
    /\ inbox' = [e \in Messages |->
          IF inbox[e].status = "processing"
          THEN [inbox[e] EXCEPT !.status = "pending"] ELSE inbox[e]]
    /\ job' = [j \in Jobs |-> Idle]
    /\ sender' = Resting
    /\ recent' = [u \in Users |-> <<>>]
    /\ UNCHANGED <<replies, outbox, runs, chat>>

-----------------------------------------------------------------------------
Init ==
    /\ inbox = [e \in Messages |-> [status |-> "absent", attempts |-> 0, wait |-> 0]]
    /\ replies = [i \in Ids |-> 0] /\ runs = [i \in Ids |-> 0]
    /\ outbox = [r \in ReplyIds |->
                   [status |-> "absent", body |-> 0, attempts |-> 0, wait |-> 0]]
    /\ job = [j \in Jobs |-> Idle]
    /\ sender = Resting
    /\ recent = [u \in Users |-> <<>>]
    /\ chat = {} /\ faults = 0

Execute(j) == Run(j) \/ Save(j)

WorkerStep(w) ==
    Claim(w) \/ Handle(w) \/ Execute(w) \/ Reply(w) \/ Complete(w) \/ Retry(w)

CallbackStep(h) == Execute(h) \/ Toast(h)

Items == sender.batch \cup sender.done
SenderStep == Flush \/ \E item \in Items : Send(item) \/ Record(item)

Next ==
    \/ \E e \in Messages : Receive(e)
    \/ \E w \in Workers : WorkerStep(w)
    \/ \E j \in Jobs : Lookup(j)
    \/ \E h \in Callbacks : CallbackStep(h) \/ \E c \in Clicks : Click(h, c)
    \/ SenderStep
    \/ Tick
    \/ Restart

Spec == Init /\ [][Next]_vars

\* The loops of the workers and of the sender go on, time passes, and
\* messageMu, a Go mutex, is handed to a waiter that was passed over.
Fairness ==
    /\ \A w \in Workers : WF_vars(WorkerStep(w))
    /\ \A h \in Callbacks : WF_vars(CallbackStep(h))
    /\ \A j \in Jobs : SF_vars(Lookup(j))
    /\ WF_vars(SenderStep)
    /\ WF_vars(Tick)

FairSpec == Spec /\ Fairness

-----------------------------------------------------------------------------
(* Properties.                                                             *)

\* A command has its effects again only when no reply of it was saved or
\* the saved one could not be read: redelivered events, retries after a
\* restart and repeated clicks all end at the cache (Executor.Execute).
RunsOnce ==
    [][\A id \in Ids \ Menus : runs'[id] > runs[id] =>
          replies[id] = 0 \/ \E j \in Jobs : job[j].phase = "running" /\ job[j].blind]_vars

\* An event that is done has an answer in the outbox or in the chat: no
\* crash, failure or race between CompleteInbox and the outbox loses it.
CompletedIsAnswered ==
    \A e \in Messages : inbox[e].status = "completed" =>
        \E r \in ReplyIds : r[1] = e /\ outbox[r].status # "absent"

\* A reply is marked as sent only when Feishu shows it, and what the chat
\* shows comes from a run that happened.
SentIsShown ==
    /\ \A r \in ReplyIds : outbox[r].status = "sent" => \E m \in chat : m.id = r
    /\ \A m \in chat : m.body <= runs[m.id[1]]

\* As long as nothing fails an event has one answer: it is never both
\* executed and refused by the rate limiter, however often it is delivered
\* and however many workers there are.
OneAnswer ==
    faults = 0 => \A e \in Messages :
        \/ outbox[<<e, "rate-limit">>].status = "absent"
        \/ outbox[<<e, "answer">>].status = "absent" /\ runs[e] = 0

\* A row left as processing by a worker that could not even store its retry.
Stranded(e) ==
    inbox[e].status = "processing" /\ \A w \in Workers : job[w] = Idle \/ job[w].id # e

\* Every event that was stored is answered in the chat, through failures at
\* any point, unless its row is stranded.
EventsAnswered ==
    \A e \in Messages :
        (inbox[e].status = "pending") ~>
            (Stranded(e) \/ \E m \in chat : m.id[1] = e)

-----------------------------------------------------------------------------
(* What the documentation says and the code does not do; refuted by a run. *)

\* docs/api.md: the result of a command is made durable first and then sent
\* in the background. Read of an event that is done: when its command was
\* executed, its result is in the outbox.
ResultIsRecorded ==
    \A e \in Messages :
        inbox[e].status = "completed" /\ runs[e] > 0 =>
            outbox[<<e, "answer">>].status # "absent"

=============================================================================
