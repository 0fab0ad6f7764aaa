--------------------------- MODULE BotPipelineProofs ---------------------------
(***************************************************************************)
(* Proofs about BotPipeline, for every value of its constants that meets   *)
(* PipelineAssumption: any number of events, workers and callbacks.        *)
(*                                                                         *)
(*   CacheCorrect      a command that has a saved reply runs again only    *)
(*                     if the reply could not be read (RunsOnce)           *)
(*   AnswersCorrect    a completed event has an answer in the outbox       *)
(*   SentCorrect       what is marked as sent is shown, and what is shown  *)
(*                     comes from a run                                    *)
(*   OneAnswerCorrect  without faults an event has one kind of answer      *)
(*   TypeCorrect       TypeOK, with its bounds on messageMu, on a batch of *)
(*                     replies and on the requests of a user in a minute   *)
(*                                                                         *)
(* Each has an inductive invariant of its own (Cached, Answers,            *)
(* Provenance, OneInv and Typed) on top of Shape, the part of the types    *)
(* they all need.                                                          *)
(***************************************************************************)
EXTENDS BotPipeline, FiniteSetTheorems, TLAPS

-----------------------------------------------------------------------------
(* What the tables and jobs look like.                                     *)

JobFields == {"phase", "id", "attempts", "kind", "body", "blind"}

\* A job in progress: its fields, the event it is about and its answer.
JobShape(j) ==
    /\ JobFields \subseteq DOMAIN job[j]
    /\ job[j].id \in (IF j \in Workers THEN Messages ELSE Clicks)
    /\ job[j].kind \in {"answer", "rate-limit"}
    /\ job[j].body \in Nat

Shape ==
    /\ DOMAIN inbox = Messages
    /\ \A e \in Messages : "status" \in DOMAIN inbox[e]
    /\ replies \in [Ids -> Nat] /\ runs \in [Ids -> Nat]
    /\ DOMAIN outbox = ReplyIds
    /\ \A r \in ReplyIds : {"status", "body"} \subseteq DOMAIN outbox[r]
    /\ DOMAIN job = Jobs
    /\ \A j \in Jobs : job[j].phase # "idle" => JobShape(j)
    /\ {"batch", "done", "ok"} \subseteq DOMAIN sender

\* Shape is kept by every step.
LEMMA ShapeStep == Shape /\ [Next]_vars => Shape'
<1> SUFFICES ASSUME Shape, [Next]_vars PROVE Shape'
  OBVIOUS
<1>1. ASSUME NEW e \in Messages, Receive(e) PROVE Shape'
  BY <1>1 DEF Receive, Shape, JobShape
<1>2. ASSUME NEW w \in Workers, Claim(w) PROVE Shape'
  BY <1>2 DEF Claim, Begin, Shape, JobShape, JobFields, Jobs
<1>3. ASSUME NEW w \in Workers, Handle(w) PROVE Shape'
  BY <1>3 DEF Handle, Go, Shape, JobShape, JobFields, Jobs, Ids
<1>4. ASSUME NEW j \in Jobs, Lookup(j) PROVE Shape'
  BY <1>4 DEF Lookup, Go, Shape, JobShape, JobFields, Jobs, Ids
<1>5. ASSUME NEW j \in Jobs, Run(j) PROVE Shape'
  BY <1>5 DEF Run, Shape, JobShape, JobFields, Jobs, Ids
<1>6. ASSUME NEW j \in Jobs, Save(j) PROVE Shape'
  BY <1>6 DEF Save, Go, Shape, JobShape, JobFields, Jobs, Ids
<1>7. ASSUME NEW w \in Workers, Reply(w) PROVE Shape'
  BY <1>7 DEF Reply, Go, Shape, JobShape, JobFields, Jobs
<1>8. ASSUME NEW w \in Workers, Complete(w) PROVE Shape'
  BY <1>8 DEF Complete, Go, Idle, Shape, JobShape, JobFields, Jobs
<1>9. ASSUME NEW w \in Workers, Retry(w) PROVE Shape'
  BY <1>9 DEF Retry, Idle, Shape, JobShape, JobFields, Jobs
<1>10. ASSUME NEW h \in Callbacks, NEW c \in Clicks, Click(h, c) PROVE Shape'
  BY <1>10, PipelineGiven
  DEF Click, Begin, Shape, JobShape, JobFields, Jobs, PipelineAssumption
<1>11. ASSUME NEW h \in Callbacks, Toast(h) PROVE Shape'
  BY <1>11 DEF Toast, Idle, Shape, JobShape, JobFields, Jobs
<1>12. ASSUME SenderStep PROVE Shape'
  <2>1. ASSUME Flush PROVE Shape'
    BY <2>1 DEF Flush, Resting, Shape, JobShape
  <2>2. ASSUME NEW item, Send(item) PROVE Shape'
    BY <2>2 DEF Send, Shape, JobShape
  <2>3. ASSUME NEW item, Record(item) PROVE Shape'
    <3>1. /\ DOMAIN outbox' = ReplyIds
          /\ \A r \in ReplyIds : {"status", "body"} \subseteq DOMAIN outbox'[r]
      BY <2>3 DEF Record, Shape
    <3>2. {"batch", "done", "ok"} \subseteq DOMAIN sender'
      BY <2>3 DEF Record, Shape
    <3> QED
      BY <2>3, <3>1, <3>2 DEF Record, Shape, JobShape
  <2> QED
    BY <1>12, <2>1, <2>2, <2>3 DEF SenderStep
<1>13. ASSUME Tick PROVE Shape'
  BY <1>13 DEF Tick, Shape, JobShape, JobFields, Jobs
<1>14. ASSUME Restart PROVE Shape'
  BY <1>14 DEF Restart, Resting, Idle, Shape, JobShape, JobFields, Jobs
<1>15. CASE UNCHANGED vars
  BY <1>15 DEF vars, Shape, JobShape
<1> QED
  BY <1>1, <1>2, <1>3, <1>4, <1>5, <1>6, <1>7, <1>8, <1>9, <1>10, <1>11, <1>12,
     <1>13, <1>14, <1>15
  DEF Next, WorkerStep, CallbackStep, Execute, Jobs

-----------------------------------------------------------------------------
(* The cache under messageMu.                                              *)

\* One job at a time is between the lookup and the end of the saving; one
\* that found nothing still has nothing saved when it runs.
Exclusive == \A j, k \in Jobs :
    job[j].phase \in Holding /\ job[k].phase \in Holding => j = k
Cached ==
    /\ Exclusive
    /\ \A j \in Jobs : job[j].phase = "running" /\ ~job[j].blind => replies[job[j].id] = 0

\* Steps that save nothing and take no lock keep that.
LEMMA CachedKept ==
    ASSUME Cached, UNCHANGED replies,
           \A k \in Jobs : job'[k].phase \in Holding => job'[k] = job[k]
    PROVE  Cached'
BY DEF Cached, Exclusive, Holding

\* Lookup waits until nobody holds the lock, and saves nothing.
LEMMA LookupCached ==
    ASSUME Shape, Cached, NEW j \in Jobs, Lookup(j)
    PROVE  Cached'
<1>1. /\ job[j].phase = "waiting" /\ JobShape(j)
      /\ \A k \in Jobs : job[k].phase \notin Holding
      /\ UNCHANGED replies
  BY DEF Lookup, Shape
<1>2. \A k \in Jobs \ {j} : job'[k] = job[k]
  BY DEF Lookup, Go, Shape
<1>3. /\ job'[j].id = job[j].id
      /\ job'[j].phase = "running" /\ ~job'[j].blind => replies[job[j].id] = 0
  BY <1>1 DEF Lookup, Go, Shape, JobShape, JobFields
<1> QED
  BY <1>1, <1>2, <1>3 DEF Cached, Exclusive

\* Run and Save are the holder's.
LEMMA HolderCached ==
    ASSUME Shape, Cached, NEW j \in Jobs, Run(j) \/ Save(j)
    PROVE  Cached'
<1>1. job[j].phase \in Holding /\ JobShape(j)
  BY DEF Run, Save, Holding, Shape
<1>2. \A k \in Jobs \ {j} : job'[k] = job[k] /\ job[k].phase \notin Holding
  BY <1>1 DEF Run, Save, Go, Shape, Cached, Exclusive
<1>3. job'[j].phase # "running"
  BY <1>1 DEF Run, Save, Go, Shape, JobShape, JobFields
<1> QED
  BY <1>2, <1>3 DEF Cached, Exclusive, Holding

\* Cached is kept by every step.
LEMMA CachedStep == Shape /\ Cached /\ [Next]_vars => Cached'
<1> SUFFICES ASSUME Shape, Cached, [Next]_vars PROVE Cached'
  OBVIOUS
<1> DEFINE Quiet == /\ UNCHANGED replies
                    /\ \A k \in Jobs : job'[k].phase \in Holding => job'[k] = job[k]
<1>1. ASSUME NEW e \in Messages, Receive(e) PROVE Quiet
  BY <1>1 DEF Receive
<1>2. ASSUME NEW w \in Workers, Claim(w) PROVE Quiet
  BY <1>2 DEF Claim, Begin, Holding, Shape
<1>3. ASSUME NEW w \in Workers, Handle(w) PROVE Quiet
  <2>1. JobShape(w) /\ w \in Jobs
    BY <1>3 DEF Handle, Shape, Jobs
  <2> QED
    BY <1>3, <2>1 DEF Handle, Go, Holding, Shape, JobShape, JobFields
<1>4. ASSUME NEW w \in Workers, Reply(w) \/ Complete(w) \/ Retry(w) PROVE Quiet
  <2>1. JobShape(w) /\ w \in Jobs
    BY <1>4 DEF Reply, Complete, Retry, Shape, Jobs
  <2> QED
    BY <1>4, <2>1 DEF Reply, Complete, Retry, Go, Idle, Holding, Shape, JobShape, JobFields
<1>5. ASSUME NEW h \in Callbacks, NEW c \in Clicks, Click(h, c) PROVE Quiet
  BY <1>5 DEF Click, Begin, Holding, Shape
<1>6. ASSUME NEW h \in Callbacks, Toast(h) PROVE Quiet
  BY <1>6 DEF Toast, Idle, Holding, Shape
<1>7. ASSUME SenderStep \/ Tick \/ UNCHANGED vars PROVE Quiet
  BY <1>7 DEF SenderStep, Flush, Send, Record, Tick, vars
<1>8. ASSUME Restart PROVE Quiet
  BY <1>8 DEF Restart, Idle, Holding
<1>9. Quiet => Cached'
  BY CachedKept
<1> HIDE DEF Quiet
<1> QED
  BY <1>1, <1>2, <1>3, <1>4, <1>5, <1>6, <1>7, <1>8, <1>9, LookupCached, HolderCached
  DEF Next, WorkerStep, CallbackStep, Execute, Jobs

\* Runs are only ever added, by a menu or by whoever holds the lock.
LEMMA WhoRuns ==
    ASSUME Shape, [Next]_vars, NEW i \in Ids
    PROVE  /\ runs'[i] >= runs[i]
           /\ runs'[i] > runs[i] =>
                i \in Menus \/ \E j \in Jobs : job[j].phase = "running" /\ job[j].id = i
<1>0. runs[i] \in Nat /\ DOMAIN runs = Ids
  BY DEF Shape
<1>1. ASSUME NEW w \in Workers, Handle(w)
      PROVE  runs' = runs \/ \E e \in Menus : runs' = [runs EXCEPT ![e] = @ + 1]
  BY <1>1 DEF Handle
<1>2. ASSUME NEW j \in Jobs, Run(j)
      PROVE  job[j].phase = "running" /\ runs' = [runs EXCEPT ![job[j].id] = @ + 1]
  BY <1>2 DEF Run
<1>3. \/ runs' = runs
      \/ \E w \in Workers : Handle(w)
      \/ \E j \in Jobs : Run(j)
  BY DEF Next, WorkerStep, CallbackStep, Execute, Jobs, Receive, Claim, Lookup, Save,
         Reply, Complete, Retry, Click, Toast, SenderStep, Flush, Send, Record, Tick,
         Restart, vars
<1>4. CASE runs' = runs
  BY <1>0, <1>4
<1>5. CASE \E e \in Menus : runs' = [runs EXCEPT ![e] = @ + 1]
  BY <1>0, <1>5
<1>6. CASE \E j \in Jobs : Run(j)
  BY <1>0, <1>2, <1>6
<1> QED
  BY <1>1, <1>3, <1>4, <1>5, <1>6

\* At first nothing is there.
LEMMA ShapeInit == Init => Shape /\ Cached
BY DEF Init, Shape, Cached, Exclusive, Holding, Idle, Resting

\* The shape, and the cache with it, hold of every reachable state.
LEMMA CacheReachable == Spec => [](Shape /\ Cached)
BY ShapeInit, ShapeStep, CachedStep, PTL DEF Spec

\* RunsOnce: a command has its effects again only if no reply of it is saved,
\* or the saved one could not be read (Executor.Execute).
THEOREM CacheCorrect == Spec => RunsOnce
<1>1. Shape /\ Cached /\ [Next]_vars =>
        [\A id \in Ids \ Menus : runs'[id] > runs[id] =>
            replies[id] = 0 \/ \E j \in Jobs : job[j].phase = "running" /\ job[j].blind]_vars
  BY WhoRuns DEF Cached
<1> QED
  BY <1>1, CacheReachable, PTL DEF Spec, RunsOnce

-----------------------------------------------------------------------------
(* What is done was answered.                                              *)

Answered(e) == \E r \in ReplyIds : r[1] = e /\ outbox[r].status # "absent"

\* A worker completes an event only after its answer is in the outbox.
Answers ==
    /\ CompletedIsAnswered
    /\ \A w \in Workers : job[w].phase = "completing" => Answered(job[w].id)

\* An answer never leaves the outbox.
LEMMA AnswersStay ==
    ASSUME Shape, [Next]_vars
    PROVE  \A r \in ReplyIds : outbox[r].status # "absent" => outbox'[r].status # "absent"
<1>1. ASSUME NEW w, Reply(w), NEW r \in ReplyIds, outbox[r].status # "absent"
      PROVE  outbox'[r].status # "absent"
  BY <1>1 DEF Reply, Shape
<1>2. ASSUME NEW item, Record(item), NEW r \in ReplyIds, outbox[r].status # "absent"
      PROVE  outbox'[r].status # "absent"
  BY <1>2 DEF Record, Shape
<1>3. ASSUME Tick, NEW r \in ReplyIds, outbox[r].status # "absent"
      PROVE  outbox'[r].status # "absent"
  BY <1>3 DEF Tick, Shape
<1>4. \/ outbox' = outbox
      \/ \E w \in Workers : Reply(w)
      \/ \E item \in Items : Record(item)
      \/ Tick
  BY DEF Next, WorkerStep, CallbackStep, Execute, Jobs, Receive, Claim, Handle, Lookup, Run,
         Save, Complete, Retry, Click, Toast, SenderStep, Flush, Send, Restart, vars
<1> QED
  BY <1>1, <1>2, <1>3, <1>4

\* Reply brings the answer of the job that goes on to complete its event.
LEMMA ReplyAnswers ==
    ASSUME Shape, NEW w \in Workers, Reply(w)
    PROVE  /\ \A v \in Workers \ {w} : job'[v] = job[v]
           /\ job'[w].phase = "completing" =>
                \E r \in ReplyIds : r[1] = job'[w].id /\ outbox'[r].status # "absent"
<1>1. JobShape(w) /\ w \in Jobs
  BY DEF Reply, Shape, Jobs
<1>2. \A v \in Workers \ {w} : job'[v] = job[v]
  BY DEF Reply, Go, Shape, Jobs
<1>3. job'[w].id = job[w].id
  BY <1>1 DEF Reply, Go, Shape, JobShape, JobFields
<1>4. /\ <<job[w].id, job[w].kind>> \in ReplyIds
      /\ <<job[w].id, job[w].kind>>[1] = job[w].id
  BY <1>1 DEF JobShape, ReplyIds
<1>5. job'[w].phase = "completing" => outbox'[<<job[w].id, job[w].kind>>].status # "absent"
  BY <1>1, <1>4 DEF Reply, Go, Shape, JobShape, JobFields
<1> QED
  BY <1>2, <1>3, <1>4, <1>5

\* Answers is kept by every step.
LEMMA AnswersStep == Shape /\ Answers /\ [Next]_vars => Answers'
<1> SUFFICES ASSUME Shape, Answers, [Next]_vars PROVE Answers'
  OBVIOUS
<1>1. \A e : Answered(e) => \E r \in ReplyIds : r[1] = e /\ outbox'[r].status # "absent"
  BY AnswersStay DEF Answered
<1> DEFINE Calm ==
       /\ \A e \in Messages : inbox'[e].status = "completed" =>
            inbox[e].status = "completed"
            \/ \E w \in Workers : job[w].phase = "completing" /\ job[w].id = e
       /\ \A w \in Workers : job'[w].phase = "completing" =>
            job[w].phase = "completing" /\ job'[w].id = job[w].id
<1>2. Calm => Answers'
  <2> SUFFICES ASSUME Calm PROVE Answers'
    OBVIOUS
  <2>1. \A e \in Messages : inbox'[e].status = "completed" =>
            \E r \in ReplyIds : r[1] = e /\ outbox'[r].status # "absent"
    <3> SUFFICES ASSUME NEW e \in Messages, inbox'[e].status = "completed"
                 PROVE  Answered(e)
      BY <1>1
    <3> QED
      BY DEF Answers, CompletedIsAnswered, Answered
  <2>2. \A w \in Workers : job'[w].phase = "completing" =>
            \E r \in ReplyIds : r[1] = job'[w].id /\ outbox'[r].status # "absent"
    <3> SUFFICES ASSUME NEW w \in Workers, job'[w].phase = "completing"
                 PROVE  Answered(job[w].id)
      BY <1>1
    <3> QED
      BY DEF Answers
  <2> QED
    BY <2>1, <2>2 DEF Answers, CompletedIsAnswered, Answered
<1>3. ASSUME NEW e \in Messages, Receive(e) PROVE Calm
  BY <1>3 DEF Receive, Shape
<1>4. ASSUME NEW w \in Workers, Claim(w) PROVE Calm
  BY <1>4 DEF Claim, Begin, Shape, Jobs
<1>5. ASSUME NEW w \in Workers, Handle(w) PROVE Calm
  <2>1. JobShape(w) /\ w \in Jobs
    BY <1>5 DEF Handle, Shape, Jobs
  <2> QED
    BY <1>5, <2>1 DEF Handle, Go, Shape, JobShape, JobFields, Jobs
<1>6. ASSUME NEW j \in Jobs, Lookup(j) \/ Run(j) \/ Save(j) PROVE Calm
  <2>1. JobShape(j)
    BY <1>6 DEF Lookup, Run, Save, Shape
  <2>2. /\ inbox' = inbox /\ job'[j].phase \in {"replying", "running", "saving"}
        /\ \A k \in Jobs \ {j} : job'[k] = job[k]
    BY <1>6, <2>1 DEF Lookup, Run, Save, Go, Shape, JobShape, JobFields
  <2> QED
    BY <2>2 DEF Jobs
<1>7. ASSUME NEW w \in Workers, Reply(w) PROVE Answers'
  <2>1. inbox' = inbox
    BY <1>7 DEF Reply
  <2>2. \A v \in Workers : job'[v].phase = "completing" =>
            \E r \in ReplyIds : r[1] = job'[v].id /\ outbox'[r].status # "absent"
    BY <1>1, <1>7, ReplyAnswers DEF Answers
  <2> QED
    BY <1>1, <2>1, <2>2 DEF Answers, CompletedIsAnswered, Answered
<1>8. ASSUME NEW w \in Workers, Complete(w) PROVE Calm
  <2>1. JobShape(w) /\ w \in Jobs
    BY <1>8 DEF Complete, Shape, Jobs
  <2> QED
    BY <1>8, <2>1 DEF Complete, Go, Idle, Shape, JobShape, JobFields, Jobs
<1>9. ASSUME NEW w \in Workers, Retry(w) PROVE Calm
  BY <1>9 DEF Retry, Idle, Shape, Jobs
<1>10. ASSUME NEW h \in Callbacks, Toast(h) \/ \E c \in Clicks : Click(h, c) PROVE Calm
  BY <1>10 DEF Toast, Click, Begin, Idle, Shape, Jobs
<1>11. ASSUME SenderStep \/ UNCHANGED vars PROVE Calm
  BY <1>11 DEF SenderStep, Flush, Send, Record, vars
<1>12. ASSUME Tick PROVE Calm
  <2>1. \A e \in Messages : inbox'[e].status = inbox[e].status
    BY <1>12 DEF Tick, Shape
  <2>2. job' = job
    BY <1>12 DEF Tick
  <2> QED
    BY <2>1, <2>2
<1>13. ASSUME Restart PROVE Calm
  <2>1. \A e \in Messages : inbox'[e].status = "completed" => inbox[e].status = "completed"
    BY <1>13 DEF Restart, Shape
  <2>2. \A w \in Workers : job'[w].phase = "idle"
    BY <1>13 DEF Restart, Idle, Jobs
  <2> QED
    BY <2>1, <2>2
<1> HIDE DEF Calm
<1> QED
  BY <1>2, <1>3, <1>4, <1>5, <1>6, <1>7, <1>8, <1>9, <1>10, <1>11, <1>12, <1>13
  DEF Next, WorkerStep, CallbackStep, Execute, Jobs

\* CompletedIsAnswered: no crash, failure or race between the outbox and
\* CompleteInbox loses an answer (handle, CompleteInbox, RetryInbox).
THEOREM AnswersCorrect == Spec => []CompletedIsAnswered
<1>1. Init => Answers
  BY DEF Init, Answers, CompletedIsAnswered, Idle, Jobs
<1>2. Answers => CompletedIsAnswered
  BY DEF Answers
<1> QED
  BY <1>1, <1>2, AnswersStep, CacheReachable, PTL DEF Spec

-----------------------------------------------------------------------------
(* Where replies come from.                                                *)

\* Everything that is said of an event, wherever it is kept, is the number of
\* a run that happened, and what is marked as sent is shown.
SavedRan == \A i \in Ids : replies[i] <= runs[i]
JobsRan == \A j \in Jobs : job[j].phase # "idle" => job[j].body <= runs[job[j].id]
QueuedRan == \A r \in ReplyIds : outbox[r].body \in Nat /\ outbox[r].body <= runs[r[1]]
ItemsRan == \A item \in Items :
    item.id \in ReplyIds /\ item.body \in Nat /\ item.body <= runs[item.id[1]]
ShownRan == \A m \in chat :
    m.id \in ReplyIds /\ m.body \in Nat /\ m.body <= runs[m.id[1]]
DoneShown == sender.ok => \A item \in sender.done : \E m \in chat : m.id = item.id
SentShown == \A r \in ReplyIds : outbox[r].status = "sent" => \E m \in chat : m.id = r

Provenance ==
    SavedRan /\ JobsRan /\ QueuedRan /\ ItemsRan /\ ShownRan /\ DoneShown /\ SentShown

\* What was counted stays counted, as runs only grow.
LEMMA RunsGrow ==
    ASSUME Shape, [Next]_vars, NEW i \in Ids
    PROVE  \A n \in Nat : n <= runs[i] => n <= runs'[i]
<1>1. runs[i] \in Nat /\ runs'[i] \in Nat /\ runs'[i] >= runs[i]
  BY ShapeStep, WhoRuns DEF Shape
<1> QED
  BY <1>1

\* The id of a reply names its event.
LEMMA ReplyIdEvent == \A r \in ReplyIds : r[1] \in Messages /\ r[1] \in Ids
BY DEF ReplyIds, Ids

\* A part that a step leaves alone stays true.
LEMMA SavedKept ==
    ASSUME Shape, [Next]_vars, SavedRan, replies' = replies PROVE SavedRan'
BY RunsGrow DEF SavedRan, Shape

\* Of the jobs in S, each that goes on saying what it said, or nothing yet,
\* still says the number of a run.
LEMMA JobsKept ==
    ASSUME Shape, [Next]_vars, JobsRan, NEW S,
           \A j \in Jobs \cap S : job'[j].phase # "idle" =>
                \/ job'[j].body = 0
                \/ /\ job[j].phase # "idle"
                   /\ job'[j].id = job[j].id /\ job'[j].body = job[j].body
    PROVE  \A j \in Jobs \cap S : job'[j].phase # "idle" => job'[j].body <= runs'[job'[j].id]
<1> SUFFICES ASSUME NEW j \in Jobs \cap S, job'[j].phase # "idle"
             PROVE  job'[j].body <= runs'[job'[j].id]
  OBVIOUS
<1>1. job'[j].id \in Ids /\ runs'[job'[j].id] \in Nat
  BY ShapeStep DEF Shape, JobShape, Ids
<1>2. CASE job'[j].body = 0
  BY <1>1, <1>2
<1>3. CASE job[j].phase # "idle" /\ job'[j].id = job[j].id /\ job'[j].body = job[j].body
  BY <1>1, <1>3, RunsGrow DEF JobsRan, Shape, JobShape
<1> QED
  BY <1>2, <1>3

\* So do rows, items and messages that keep their text.
LEMMA QueuedKept ==
    ASSUME Shape, [Next]_vars, QueuedRan,
           \A r \in ReplyIds : outbox'[r].body = outbox[r].body
    PROVE  QueuedRan'
BY RunsGrow, ReplyIdEvent DEF QueuedRan

\* The items of a batch that gets no new ones.
LEMMA ItemsKept ==
    ASSUME Shape, [Next]_vars, ItemsRan, Items' \subseteq Items PROVE ItemsRan'
BY RunsGrow, ReplyIdEvent DEF ItemsRan

\* The messages of a chat that gets no new ones.
LEMMA ShownKept ==
    ASSUME Shape, [Next]_vars, ShownRan, chat' \subseteq chat PROVE ShownRan'
BY RunsGrow, ReplyIdEvent DEF ShownRan

\* Steps of the sender aside, nothing is sent or shown.
LEMMA NotSending ==
    ASSUME Shape, [Next]_vars, Provenance, UNCHANGED <<chat, sender>>,
           \A r \in ReplyIds : outbox'[r].status = "sent" => outbox[r].status = "sent"
    PROVE  ItemsRan' /\ ShownRan' /\ DoneShown' /\ SentShown'
<1>1. ItemsRan' /\ ShownRan'
  BY ItemsKept, ShownKept DEF Provenance, Items
<1>2. DoneShown' /\ SentShown'
  BY DEF Provenance, DoneShown, SentShown
<1> QED
  BY <1>1, <1>2

\* Jobs that run, look up, save or answer.
LEMMA JobsSay ==
    ASSUME Shape, [Next]_vars, Provenance, NEW j \in Jobs,
           \/ j \in Workers /\ (Handle(j) \/ Reply(j))
           \/ Lookup(j) \/ Run(j) \/ Save(j)
    PROVE  Provenance'
<1>1. /\ JobShape(j) /\ job[j].id \in Ids
      /\ UNCHANGED <<chat, sender>> /\ job[j].phase # "idle"
  BY DEF Handle, Reply, Lookup, Run, Save, Shape, JobShape, Ids
<1>2. \A k \in Jobs \ {j} : job'[k] = job[k]
  BY DEF Handle, Reply, Lookup, Run, Save, Go, Shape
<1>3. job'[j].id = job[j].id /\ job'[j].body \in Nat
  <2>1. job'[j].id = job[j].id
    BY <1>1 DEF Handle, Reply, Lookup, Run, Save, Go, Shape, JobShape, JobFields
  <2>2. job'[j].phase # "idle"
    BY <1>1 DEF Handle, Reply, Lookup, Run, Save, Go, Shape, JobShape, JobFields
  <2> QED
    BY <2>1, <2>2, ShapeStep DEF Shape, JobShape
<1>4. runs[job[j].id] \in Nat /\ runs'[job[j].id] \in Nat /\ DOMAIN runs = Ids
      /\ replies[job[j].id] \in Nat /\ DOMAIN replies = Ids
  BY <1>1, ShapeStep DEF Shape
<1>5. \/ job'[j].body = job[j].body \/ job'[j].body = runs'[job[j].id]
      \/ job'[j].body = replies[job[j].id]
  BY <1>1, <1>4 DEF Handle, Reply, Lookup, Run, Save, Go, Shape, JobShape, JobFields
<1>6. job'[j].body <= runs'[job'[j].id]
  BY <1>1, <1>3, <1>4, <1>5, RunsGrow DEF Provenance, JobsRan, SavedRan, JobShape
<1>7. JobsRan'
  <2>1. \A k \in Jobs \cap (Jobs \ {j}) : job'[k].phase # "idle" =>
            job'[k].body <= runs'[job'[k].id]
    BY <1>2, JobsKept DEF Provenance
  <2> QED
    BY <1>6, <2>1 DEF JobsRan
<1>8. SavedRan'
  <2>1. replies' = replies \/ replies' = [replies EXCEPT ![job[j].id] = job[j].body]
    BY DEF Handle, Reply, Lookup, Run, Save
  <2>2. job[j].body <= runs'[job[j].id]
    BY <1>1, RunsGrow DEF Provenance, JobsRan, JobShape
  <2> QED
    BY <1>4, <2>1, <2>2, RunsGrow DEF Provenance, SavedRan, Shape
<1>9. QueuedRan' /\ \A r \in ReplyIds : outbox'[r].status = "sent" => outbox[r].status = "sent"
  <2>1. CASE j \in Workers /\ Reply(j)
    <3> DEFINE a == <<job[j].id, job[j].kind>>
    <3>1. a \in ReplyIds /\ a[1] = job[j].id
      BY <1>1, <2>1 DEF JobShape, ReplyIds
    <3>2. \A r \in ReplyIds \ {a} : outbox'[r] = outbox[r]
      BY <2>1 DEF Reply, Shape
    <3>3. /\ outbox'[a].body = outbox[a].body \/ outbox'[a].body = job[j].body
          /\ outbox'[a].status = "sent" => outbox[a].status = "sent"
      BY <2>1, <3>1 DEF Reply, Shape
    <3> HIDE DEF a
    <3>4. outbox'[a].body \in Nat /\ outbox'[a].body <= runs'[a[1]]
      BY <1>1, <3>1, <3>3, RunsGrow DEF Provenance, QueuedRan, JobsRan, JobShape
    <3>5. QueuedRan'
      BY <3>2, <3>4, RunsGrow, ReplyIdEvent DEF Provenance, QueuedRan
    <3> QED
      BY <3>2, <3>3, <3>5
  <2>2. CASE outbox' = outbox
    BY <2>2, QueuedKept DEF Provenance
  <2> QED
    BY <2>1, <2>2 DEF Handle, Lookup, Run, Save
<1> QED
  BY <1>1, <1>7, <1>8, <1>9, NotSending DEF Provenance

\* Steps that begin or end jobs and change neither queue nor cache.
LEMMA JobsBeginOrEnd ==
    ASSUME Shape, [Next]_vars, Provenance, UNCHANGED <<replies, outbox, sender, chat>>,
           \A j \in Jobs : \/ job'[j] = job[j] \/ job'[j].phase = "idle" \/ job'[j].body = 0
                           \/ /\ job[j].phase # "idle"
                              /\ job'[j].id = job[j].id /\ job'[j].body = job[j].body
    PROVE  Provenance'
<1>1. \A j \in Jobs \cap Jobs : job'[j].phase # "idle" => job'[j].body <= runs'[job'[j].id]
  BY JobsKept DEF Provenance
<1>2. JobsRan'
  BY <1>1 DEF JobsRan
<1> QED
  BY <1>2, SavedKept, QueuedKept, NotSending DEF Provenance

\* The sender takes what is queued.
LEMMA FlushSays ==
    ASSUME Shape, [Next]_vars, Provenance, Flush
    PROVE  Provenance'
<1>1. /\ UNCHANGED <<inbox, replies, outbox, runs, job, recent, chat, faults>>
      /\ sender'.done = {} /\ ~sender'.ok
      /\ \A item \in sender'.batch : \E r \in ReplyIds :
            item = [id |-> r, body |-> outbox[r].body, attempts |-> outbox[r].attempts]
  BY DEF Flush, Resting, Due
<1>2. ItemsRan'
  BY <1>1 DEF ItemsRan, Items, Provenance, QueuedRan
<1> QED
  BY <1>1, <1>2
  DEF Provenance, SavedRan, JobsRan, QueuedRan, ShownRan, DoneShown, SentShown

\* It shows an item of its batch, at most once; what is shown stays.
LEMMA SendSays ==
    ASSUME Shape, [Next]_vars, Provenance, NEW item, Send(item)
    PROVE  Provenance'
<1>1. /\ UNCHANGED <<inbox, replies, outbox, runs, job, recent>>
      /\ item \in Items /\ sender'.done = {item} /\ Items' \subseteq Items
      /\ chat' = chat \/ chat' = Shown(item)
      /\ sender'.ok => chat' = Shown(item)
  BY DEF Send, Items
<1>2. /\ chat \subseteq Shown(item) /\ \E m \in Shown(item) : m.id = item.id
      /\ \A m \in Shown(item) \ chat : m.id = item.id /\ m.body = item.body
  <2> DEFINE new == [id |-> item.id, body |-> item.body]
  <2>1. new.id = item.id /\ new.body = item.body
    OBVIOUS
  <2>2. \/ Shown(item) = chat /\ \E m \in chat : m.id = item.id
        \/ Shown(item) = chat \cup {new}
    BY DEF Shown
  <2> HIDE DEF new
  <2> QED
    BY <2>1, <2>2
<1>3. ItemsRan'
  BY <1>1, ItemsKept DEF Provenance
<1>4. ShownRan' /\ DoneShown' /\ SentShown'
  BY <1>1, <1>2 DEF Provenance, ItemsRan, ShownRan, DoneShown, SentShown
<1> QED
  BY <1>1, <1>3, <1>4 DEF Provenance, SavedRan, JobsRan, QueuedRan

\* It marks a row as sent only if the call succeeded.
LEMMA RecordSays ==
    ASSUME Shape, [Next]_vars, Provenance, NEW item, Record(item)
    PROVE  Provenance'
<1>1. /\ UNCHANGED <<inbox, replies, runs, job, recent, chat>>
      /\ item \in sender.done /\ sender'.done = {} /\ sender'.batch = sender.batch
      /\ ~sender'.ok
  BY DEF Record, Shape
<1>2. \A r \in ReplyIds :
          /\ outbox'[r].body = outbox[r].body
          /\ outbox'[r].status = "sent" =>
                outbox[r].status = "sent" \/ (sender.ok /\ r = item.id)
  BY DEF Record, Shape
<1>3. SentShown' /\ DoneShown'
  BY <1>1, <1>2 DEF Provenance, SentShown, DoneShown
<1>4. ItemsRan' /\ ShownRan'
  BY <1>1, ItemsKept, ShownKept DEF Provenance, Items
<1> QED
  BY <1>1, <1>2, <1>3, <1>4, QueuedKept DEF Provenance, SavedRan, JobsRan

\* Time says nothing.
LEMMA TickSays ==
    ASSUME Shape, [Next]_vars, Provenance, Tick PROVE Provenance'
<1>1. UNCHANGED <<replies, runs, job, sender, chat>>
  BY DEF Tick
<1>2. \A r \in ReplyIds : /\ outbox'[r].body = outbox[r].body
                          /\ outbox'[r].status = outbox[r].status
  BY DEF Tick, Shape
<1> QED
  BY <1>1, <1>2, QueuedKept, NotSending DEF Provenance, SavedRan, JobsRan

\* A restart forgets the batch and the jobs, and leaves the tables.
LEMMA RestartSays ==
    ASSUME Shape, [Next]_vars, Provenance, Restart PROVE Provenance'
<1>1. /\ UNCHANGED <<replies, outbox, runs, chat>>
      /\ sender'.batch = {} /\ sender'.done = {} /\ ~sender'.ok
  BY DEF Restart, Resting
<1>2. \A j \in Jobs : job'[j].phase = "idle"
  BY DEF Restart, Idle
<1> QED
  BY <1>1, <1>2
  DEF Provenance, SavedRan, JobsRan, QueuedRan, ItemsRan, Items, ShownRan, DoneShown, SentShown

\* Provenance is kept by every step.
LEMMA ProvenanceStep == Shape /\ Provenance /\ [Next]_vars => Provenance'
<1> SUFFICES ASSUME Shape, Provenance, [Next]_vars PROVE Provenance'
  OBVIOUS
<1>1. ASSUME NEW e \in Messages, Receive(e) PROVE Provenance'
  BY <1>1, JobsBeginOrEnd DEF Receive
<1>2. ASSUME NEW w \in Workers, Claim(w) PROVE Provenance'
  <2>1. \A j \in Jobs : job'[j] = job[j] \/ job'[j].body = 0
    BY <1>2 DEF Claim, Begin, Shape
  <2> QED
    BY <1>2, <2>1, JobsBeginOrEnd DEF Claim
<1>3. ASSUME NEW w \in Workers, Complete(w) \/ Retry(w) PROVE Provenance'
  <2>1. JobShape(w) /\ w \in Jobs /\ job[w].phase # "idle"
    BY <1>3 DEF Complete, Retry, Shape, Jobs
  <2>2. \A j \in Jobs \ {w} : job'[j] = job[j]
    BY <1>3 DEF Complete, Retry, Go, Shape
  <2>3. \/ job'[w].phase = "idle"
        \/ job'[w].id = job[w].id /\ job'[w].body = job[w].body
    BY <1>3, <2>1 DEF Complete, Retry, Go, Idle, Shape, JobShape, JobFields
  <2>4. UNCHANGED <<replies, outbox, sender, chat>>
    BY <1>3 DEF Complete, Retry
  <2> QED
    BY <2>1, <2>2, <2>3, <2>4, JobsBeginOrEnd
<1>4. ASSUME NEW h \in Callbacks, Toast(h) \/ \E c \in Clicks : Click(h, c)
      PROVE  Provenance'
  <2>1. \A j \in Jobs : job'[j] = job[j] \/ job'[j].phase = "idle" \/ job'[j].body = 0
    BY <1>4 DEF Toast, Click, Begin, Idle, Shape
  <2>2. UNCHANGED <<replies, outbox, sender, chat>>
    BY <1>4 DEF Toast, Click
  <2> QED
    BY <2>1, <2>2, JobsBeginOrEnd
<1>5. ASSUME UNCHANGED vars PROVE Provenance'
  BY <1>5, JobsBeginOrEnd DEF vars
<1>6. ASSUME SenderStep PROVE Provenance'
  BY <1>6, FlushSays, SendSays, RecordSays DEF SenderStep
<1> QED
  BY <1>1, <1>2, <1>3, <1>4, <1>5, <1>6, JobsSay, TickSays, RestartSays
  DEF Next, WorkerStep, CallbackStep, Execute, Jobs

\* SentIsShown: a reply is marked as sent only if Feishu shows it, and the chat
\* shows only what runs brought (flush, sendReply, MarkReplySent).
THEOREM SentCorrect == Spec => []SentIsShown
<1>1. Init => Provenance
  BY ReplyIdEvent
  DEF Init, Provenance, SavedRan, JobsRan, QueuedRan, ItemsRan, Items, ShownRan,
      DoneShown, SentShown, Idle, Resting
<1>2. Provenance => SentIsShown
  BY DEF Provenance, SentIsShown, SentShown, ShownRan
<1> QED
  BY <1>1, <1>2, ProvenanceStep, CacheReachable, PTL DEF Spec

-----------------------------------------------------------------------------
(* One answer, as long as nothing fails.                                   *)

Absent(r) == outbox[r].status = "absent"

\* Nothing was done about an event yet.
Untouched(e) == Absent(<<e, "answer">>) /\ Absent(<<e, "rate-limit">>) /\ runs[e] = 0

\* A worker on an event: nobody else has it, and what was and can be said of
\* it is either the result of its run or the refusal.
Undecided == {"claimed", "waiting", "running", "saving"}
Orderly(w) ==
    LET e == job[w].id
    IN  /\ job[w].phase \in Undecided \cup {"replying", "completing"}
        /\ inbox[e].status = "processing"
        /\ \A v \in Workers : job[v].phase # "idle" /\ job[v].id = e => v = w
        /\ job[w].phase \in Undecided => job[w].kind = "answer"
        /\ job[w].phase # "completing" =>
              /\ Absent(<<e, "rate-limit">>)
              /\ job[w].phase = "claimed" \/ job[w].kind = "rate-limit" => Untouched(e)

\* The inductive invariant of runs without faults.
OneEach ==
    /\ \A w \in Workers : job[w].phase # "idle" => Orderly(w)
    /\ \A e \in Messages : inbox[e].status \in {"absent", "pending"} => Untouched(e)
    /\ \A e \in Messages :
          Absent(<<e, "rate-limit">>) \/ (Absent(<<e, "answer">>) /\ runs[e] = 0)
    /\ \A item \in Items : item.id \in ReplyIds /\ ~Absent(item.id)

\* Both answers of an event are rows of the outbox.
LEMMA TwoReplies ==
    /\ \A e \in Messages : <<e, "answer">> \in ReplyIds /\ <<e, "rate-limit">> \in ReplyIds
    /\ \A e, d \in Messages : \A k, l \in {"answer", "rate-limit"} :
          <<e, k>> = <<d, l>> => e = d /\ k = l
BY DEF ReplyIds

\* Steps that touch no event, job of a worker or row.
LEMMA OneEachKept ==
    ASSUME OneEach, Shape,
           \A e \in Messages : /\ inbox'[e].status = inbox[e].status
                               /\ runs'[e] = runs[e],
           \A w \in Workers : job'[w] = job[w],
           \A r \in ReplyIds : outbox'[r].status = "absent" <=> outbox[r].status = "absent",
           \A item \in Items' : item.id \in ReplyIds /\ ~Absent(item.id)
    PROVE  OneEach'
<1>1. \A e \in Messages : Untouched(e) <=> Untouched(e)'
  BY TwoReplies DEF Untouched, Absent
<1>2. ASSUME NEW w \in Workers, job'[w].phase # "idle" PROVE Orderly(w)'
  <2>1. job[w].id \in Messages /\ w \in Jobs
    BY <1>2 DEF Shape, JobShape, Jobs
  <2>2. Orderly(w)
    BY <1>2 DEF OneEach
  <2> QED
    BY <1>1, <2>1, <2>2, TwoReplies DEF Orderly, Absent, Untouched
<1> QED
  BY <1>1, <1>2, TwoReplies DEF OneEach, Absent

\* A worker's step on its event, which touches no other event, leaves the
\* event with one answer if it does so for this worker.
LEMMA OneEachMoves ==
    ASSUME OneEach, Shape, NEW w \in Workers, job[w].phase # "idle",
           NEW e \in Messages, e = job[w].id, sender' = sender,
           \A v \in Workers \ {w} : job'[v] = job[v],
           \A d \in Messages \ {e} : inbox'[d] = inbox[d] /\ runs'[d] = runs[d],
           \A r \in ReplyIds : r[1] # e => outbox'[r] = outbox[r],
           \A r \in ReplyIds : outbox'[r].status = "absent" => Absent(r),
           \/ /\ outbox'[<<e, "rate-limit">>].status = "absent"
           \/ /\ outbox'[<<e, "answer">>].status = "absent" /\ runs'[e] = 0,
           \/ /\ job'[w].phase = "idle" /\ inbox'[e].status = "completed"
           \/ /\ job'[w].id = e /\ inbox'[e].status = "processing"
              /\ job'[w].phase \in Undecided \cup {"replying", "completing"}
              /\ job'[w].phase \in Undecided => job'[w].kind = "answer"
              /\ job'[w].phase # "completing" =>
                    /\ outbox'[<<e, "rate-limit">>].status = "absent"
                    /\ job'[w].phase = "claimed" \/ job'[w].kind = "rate-limit" =>
                          /\ outbox'[<<e, "answer">>].status = "absent"
                          /\ runs'[e] = 0
    PROVE  OneEach'
<1>1. \A v \in Workers \ {w} : job[v].phase # "idle" => job[v].id # e
  BY DEF OneEach, Orderly
<1>2. \A d \in Messages \ {e} : \A k \in {"answer", "rate-limit"} :
          outbox'[<<d, k>>] = outbox[<<d, k>>]
  BY DEF ReplyIds
<1>3. ASSUME NEW v \in Workers, job'[v].phase # "idle" PROVE Orderly(v)'
  <2>1. CASE v = w
    BY <1>1, <1>3, <2>1 DEF Orderly, Absent, Untouched
  <2>2. CASE v # w
    <3>1. job'[v] = job[v] /\ Orderly(v) /\ job[v].id \in Messages \ {e}
      BY <1>1, <1>3, <2>2 DEF OneEach, Shape, JobShape, Jobs
    <3>2. job'[w].phase # "idle" => job'[w].id # job[v].id
      BY <3>1
    <3> QED
      BY <1>2, <3>1, <3>2 DEF Orderly, Absent, Untouched
  <2> QED
    BY <2>1, <2>2
<1>4. \A d \in Messages : inbox'[d].status \in {"absent", "pending"} =>
          /\ outbox'[<<d, "answer">>].status = "absent"
          /\ outbox'[<<d, "rate-limit">>].status = "absent" /\ runs'[d] = 0
  BY <1>2 DEF OneEach, Untouched, Absent
<1>5. \A d \in Messages :
          \/ outbox'[<<d, "rate-limit">>].status = "absent"
          \/ outbox'[<<d, "answer">>].status = "absent" /\ runs'[d] = 0
  <2> SUFFICES ASSUME NEW d \in Messages
               PROVE  \/ outbox'[<<d, "rate-limit">>].status = "absent"
                      \/ outbox'[<<d, "answer">>].status = "absent" /\ runs'[d] = 0
    OBVIOUS
  <2>1. CASE d = e
    BY <2>1
  <2>2. CASE d # e
    BY <1>2, <2>2 DEF OneEach, Absent
  <2> QED
    BY <2>1, <2>2
<1>6. \A item \in Items' : item.id \in ReplyIds /\ outbox'[item.id].status # "absent"
  BY DEF OneEach, Absent, Items
<1>7. \A d \in Messages : inbox'[d].status \in {"absent", "pending"} => Untouched(d)'
  BY <1>4 DEF Untouched, Absent
<1> QED
  BY <1>3, <1>5, <1>6, <1>7 DEF OneEach, Absent

\* A worker takes an event nobody has done anything about.
LEMMA ClaimOnce ==
    ASSUME OneEach, Shape, NEW w \in Workers, Claim(w)
    PROVE  OneEach'
<1>1. PICK e \in Messages :
          /\ inbox[e].status = "pending"
          /\ inbox' = [inbox EXCEPT ![e].status = "processing"]
          /\ Begin(w, e, inbox[e].attempts, "claimed")
  BY DEF Claim
<1>2. /\ inbox'[e].status = "processing"
      /\ \A d \in Messages \ {e} : inbox'[d] = inbox[d]
  BY <1>1 DEF Shape
<1>3. /\ job'[w].phase = "claimed" /\ job'[w].id = e /\ job'[w].kind = "answer"
      /\ \A v \in Workers \ {w} : job'[v] = job[v]
  BY <1>1 DEF Begin, Shape, Jobs
<1>4. UNCHANGED <<outbox, runs, sender>>
  BY DEF Claim
<1>5. Untouched(e) /\ \A v \in Workers : job[v].phase # "idle" => job[v].id # e
  BY <1>1 DEF OneEach, Orderly
<1>6. ASSUME NEW v \in Workers, job'[v].phase # "idle" PROVE Orderly(v)'
  <2>1. CASE v = w
    BY <1>2, <1>3, <1>4, <1>5, <2>1 DEF Orderly, Undecided, Untouched, Absent
  <2>2. CASE v # w
    <3>1. job'[v] = job[v] /\ Orderly(v) /\ job[v].id \in Messages \ {e}
      BY <1>3, <1>5, <1>6, <2>2 DEF OneEach, Shape, JobShape, Jobs
    <3> QED
      BY <1>2, <1>3, <1>4, <3>1 DEF Orderly, Absent, Untouched
  <2> QED
    BY <2>1, <2>2
<1>7. \A d \in Messages : inbox'[d].status \in {"absent", "pending"} => Untouched(d)'
  BY <1>2, <1>4 DEF OneEach, Untouched, Absent
<1> QED
  BY <1>4, <1>6, <1>7 DEF OneEach, Absent, Items

\* What a worker without failures does about its event.
LEMMA HandleOnce ==
    ASSUME OneEach, Shape, NEW w \in Workers, Handle(w), NoFault, faults \in Nat
    PROVE  OneEach'
<1> DEFINE e == job[w].id
<1>1. /\ JobShape(w) /\ w \in Jobs /\ Orderly(w) /\ job[w].phase = "claimed"
      /\ e \in Messages /\ UNCHANGED <<inbox, outbox, sender>>
  BY DEF Handle, Shape, OneEach, JobShape, Jobs
<1>2. \/ /\ job' = [job EXCEPT ![w].phase = "replying", ![w].kind = "rate-limit"]
         /\ runs' = runs
      \/ /\ runs' = [runs EXCEPT ![e] = @ + 1]
         /\ job' = [job EXCEPT ![w].phase = "replying", ![w].body = runs[e] + 1]
      \/ job' = [job EXCEPT ![w].phase = "waiting"] /\ runs' = runs
  BY DEF Handle, Go, Fault, NoFault
<1>3. \A v \in Workers \ {w} : job'[v] = job[v]
  BY <1>2 DEF Shape, Jobs
<1>4. \A d \in Messages \ {e} : inbox'[d] = inbox[d] /\ runs'[d] = runs[d]
  BY <1>1, <1>2 DEF Shape, Ids
<1>5. Untouched(e) /\ inbox[e].status = "processing" /\ job[w].kind = "answer"
  BY <1>1 DEF Orderly, Undecided
<1>6. /\ job'[w].id = e
      /\ \/ job'[w].phase = "replying" /\ job'[w].kind = "rate-limit" /\ runs' = runs
         \/ job'[w].phase \in {"replying", "waiting"} /\ job'[w].kind = "answer"
  BY <1>1, <1>2, <1>5 DEF Shape, JobShape, JobFields
<1> HIDE DEF e
<1> QED
  BY <1>1, <1>3, <1>4, <1>5, <1>6, OneEachMoves
  DEF Undecided, Untouched, Absent, e

\* Execute: the event stays with the worker, which may now say its result.
LEMMA ExecuteOnce ==
    ASSUME OneEach, Shape, NEW w \in Workers, Lookup(w) \/ Run(w) \/ Save(w),
           NoFault, faults \in Nat
    PROVE  OneEach'
<1> DEFINE e == job[w].id
<1>1. /\ JobShape(w) /\ w \in Jobs /\ Orderly(w)
      /\ job[w].phase \in {"waiting", "running", "saving"}
      /\ e \in Messages /\ UNCHANGED <<inbox, outbox, sender>>
  BY DEF Lookup, Run, Save, Shape, OneEach, JobShape, Jobs
<1>2. \A v \in Workers \ {w} : job'[v] = job[v]
  BY DEF Lookup, Run, Save, Go, Shape, Jobs
<1>3. \A d \in Messages \ {e} : inbox'[d] = inbox[d] /\ runs'[d] = runs[d]
  BY <1>1 DEF Lookup, Run, Save, Shape, Ids
<1>4. /\ inbox[e].status = "processing" /\ job[w].kind = "answer"
      /\ Absent(<<e, "rate-limit">>)
  BY <1>1 DEF Orderly, Undecided
<1>5. /\ job'[w].id = e /\ job'[w].kind = "answer"
      /\ job'[w].phase \in {"replying", "running", "saving"}
  BY <1>1, <1>4 DEF Lookup, Run, Save, Go, Shape, JobShape, JobFields
<1> HIDE DEF e
<1> QED
  BY <1>1, <1>2, <1>3, <1>4, <1>5, OneEachMoves DEF Undecided, Absent, e

\* Reply: the one answer.
LEMMA ReplyOnce ==
    ASSUME OneEach, Shape, NEW w \in Workers, Reply(w), NoFault, faults \in Nat
    PROVE  OneEach'
<1> DEFINE e == job[w].id
           a == <<e, job[w].kind>>
<1>1. /\ JobShape(w) /\ w \in Jobs /\ Orderly(w) /\ job[w].phase = "replying"
      /\ e \in Messages /\ job[w].kind \in {"answer", "rate-limit"}
      /\ UNCHANGED <<inbox, runs, sender>>
  BY DEF Reply, Shape, OneEach, JobShape, Jobs
<1>2. Go(w, "completing")
  BY DEF Reply, Fault, NoFault
<1>3. /\ \A v \in Workers \ {w} : job'[v] = job[v]
      /\ job'[w].id = e /\ job'[w].phase = "completing"
  BY <1>1, <1>2 DEF Go, Shape, Jobs, JobShape, JobFields
<1>4. a \in ReplyIds /\ \A r \in ReplyIds \ {a} : outbox'[r] = outbox[r]
  BY <1>1 DEF Reply, Shape, ReplyIds
<1>5. /\ \A r \in ReplyIds : r[1] # e => outbox'[r] = outbox[r]
      /\ \A r \in ReplyIds : outbox'[r].status = "absent" => Absent(r)
  <2>1. \A r \in ReplyIds : outbox'[r].status = "absent" => outbox[r].status = "absent"
    BY <1>1 DEF Reply, Shape
  <2> QED
    BY <1>4, <2>1 DEF Absent
<1>6. /\ inbox[e].status = "processing" /\ Absent(<<e, "rate-limit">>)
      /\ job[w].kind = "rate-limit" => Untouched(e)
  BY <1>1 DEF Orderly, Undecided
<1>7. \/ outbox'[<<e, "rate-limit">>].status = "absent"
      \/ outbox'[<<e, "answer">>].status = "absent" /\ runs'[e] = 0
  <2>1. CASE job[w].kind = "answer"
    <3>1. <<e, "rate-limit">> \in ReplyIds \ {a}
      BY <1>1, <2>1, TwoReplies
    <3> QED
      BY <1>4, <1>6, <3>1 DEF Absent
  <2>2. CASE job[w].kind = "rate-limit"
    <3>1. <<e, "answer">> \in ReplyIds \ {a}
      BY <1>1, <2>2, TwoReplies
    <3> QED
      BY <1>1, <1>4, <1>6, <2>2, <3>1 DEF Absent, Untouched
  <2> QED
    BY <1>1, <2>1, <2>2
<1> HIDE DEF e, a
<1> QED
  BY <1>1, <1>3, <1>5, <1>6, <1>7, OneEachMoves DEF Undecided, e

\* CompleteInbox: the event is done.
LEMMA CompleteOnce ==
    ASSUME OneEach, Shape, NEW w \in Workers, Complete(w), NoFault, faults \in Nat
    PROVE  OneEach'
<1> DEFINE e == job[w].id
<1>1. /\ JobShape(w) /\ w \in Jobs /\ e \in Messages /\ job[w].phase = "completing"
      /\ UNCHANGED <<outbox, runs, sender>>
  BY DEF Complete, Shape, JobShape, Jobs
<1>2. /\ inbox' = [inbox EXCEPT ![e].status = "completed"]
      /\ job' = [job EXCEPT ![w] = Idle]
  BY DEF Complete, Fault, NoFault
<1>3. /\ inbox'[e].status = "completed" /\ job'[w].phase = "idle"
      /\ \A v \in Workers \ {w} : job'[v] = job[v]
      /\ \A d \in Messages \ {e} : inbox'[d] = inbox[d]
  BY <1>1, <1>2 DEF Shape, Jobs, Idle
<1>4. \/ Absent(<<e, "rate-limit">>)
      \/ Absent(<<e, "answer">>) /\ runs[e] = 0
  BY <1>1 DEF OneEach
<1> HIDE DEF e
<1> QED
  BY <1>1, <1>3, <1>4, OneEachMoves DEF Absent, e

\* A callback is about a click, never about an event of a worker.
LEMMA CallbackOnce ==
    ASSUME OneEach, Shape, NEW h \in Callbacks,
           \/ Lookup(h) \/ Run(h) \/ Save(h) \/ Toast(h)
           \/ \E c \in Clicks : Click(h, c)
    PROVE  OneEach'
<1>1. h \in Jobs /\ h \notin Workers /\ Messages \cap Clicks = {}
  BY PipelineGiven DEF PipelineAssumption, Jobs
<1>2. \A w \in Workers : job'[w] = job[w]
  BY <1>1 DEF Lookup, Run, Save, Toast, Click, Go, Begin, Shape, Jobs
<1>3. UNCHANGED <<inbox, outbox, sender>>
  BY DEF Lookup, Run, Save, Toast, Click
<1>4. \A e \in Messages : runs'[e] = runs[e]
  <2>1. CASE Run(h)
    <3>1. job[h].id \in Clicks
      BY <1>1, <2>1 DEF Run, Shape, JobShape
    <3> QED
      BY <1>1, <2>1, <3>1 DEF Run, Shape, Ids
  <2>2. CASE runs' = runs
    BY <2>2
  <2> QED
    BY <2>1, <2>2 DEF Lookup, Save, Toast, Click
<1>5. \A item \in Items' : item.id \in ReplyIds /\ ~Absent(item.id)
  BY <1>3 DEF OneEach, Items
<1> QED
  BY <1>2, <1>3, <1>4, <1>5, OneEachKept

\* The first copy of an event is all there is of it.
LEMMA ReceiveOnce ==
    ASSUME OneEach, Shape, NEW e \in Messages, Receive(e)
    PROVE  OneEach'
<1>1. UNCHANGED <<outbox, runs, job, sender>>
  BY DEF Receive
<1>2. /\ \A d \in Messages \ {e} : inbox'[d] = inbox[d]
      /\ \/ inbox'[e].status = inbox[e].status
         \/ inbox[e].status = "absent" /\ inbox'[e].status = "pending"
  BY DEF Receive, Shape
<1>3. ASSUME NEW w \in Workers, job'[w].phase # "idle" PROVE Orderly(w)'
  <2>1. Orderly(w) /\ job[w].id \in Messages
    BY <1>1, <1>3 DEF OneEach, Shape, JobShape, Jobs
  <2>2. inbox'[job[w].id].status = "processing"
    BY <1>2, <2>1 DEF Orderly
  <2> QED
    BY <1>1, <2>1, <2>2 DEF Orderly, Untouched, Absent
<1>4. \A d \in Messages : inbox'[d].status \in {"absent", "pending"} => Untouched(d)'
  BY <1>1, <1>2 DEF OneEach, Untouched, Absent
<1> QED
  BY <1>1, <1>3, <1>4 DEF OneEach, Absent, Items

\* The sender takes rows that are there, and they stay.
LEMMA SenderOnce ==
    ASSUME OneEach, Shape, SenderStep
    PROVE  OneEach'
<1>1. UNCHANGED <<inbox, runs, job>>
  BY DEF SenderStep, Flush, Send, Record
<1>2. ASSUME Flush PROVE OneEach'
  <2>1. outbox' = outbox /\ \A item \in Items' : item.id \in Due
    BY <1>2 DEF Flush, Resting, Items
  <2>2. \A item \in Items' : item.id \in ReplyIds /\ ~Absent(item.id)
    BY <2>1 DEF Due, Absent
  <2> QED
    BY <1>1, <2>1, <2>2, OneEachKept
<1>3. ASSUME NEW item \in Items, Send(item) PROVE OneEach'
  <2>1. outbox' = outbox /\ Items' \subseteq Items
    BY <1>3 DEF Send, Items
  <2>2. \A i \in Items' : i.id \in ReplyIds /\ ~Absent(i.id)
    BY <2>1 DEF OneEach
  <2> QED
    BY <1>1, <2>1, <2>2, OneEachKept
<1>4. ASSUME NEW item \in Items, Record(item) PROVE OneEach'
  <2>1. Items' \subseteq Items
    BY <1>4 DEF Record, Items, Shape
  <2>2. \A i \in Items' : i.id \in ReplyIds /\ ~Absent(i.id)
    BY <2>1 DEF OneEach
  <2>3. item.id \in ReplyIds /\ outbox[item.id].status # "absent"
    BY DEF OneEach, Absent
  <2>4. \A r \in ReplyIds : outbox'[r].status = "absent" <=> outbox[r].status = "absent"
    BY <1>4, <2>3 DEF Record, Shape
  <2> QED
    BY <1>1, <2>2, <2>4, OneEachKept
<1> QED
  BY <1>2, <1>3, <1>4 DEF SenderStep

\* Time changes no status.
LEMMA TickOnce ==
    ASSUME OneEach, Shape, Tick
    PROVE  OneEach'
<1>1. UNCHANGED <<runs, job, sender>>
  BY DEF Tick
<1>2. /\ \A e \in Messages : inbox'[e].status = inbox[e].status
      /\ \A r \in ReplyIds : outbox'[r].status = outbox[r].status
  BY DEF Tick, Shape
<1>3. \A item \in Items' : item.id \in ReplyIds /\ ~Absent(item.id)
  BY <1>1 DEF OneEach, Items
<1> QED
  BY <1>1, <1>2, <1>3, OneEachKept

\* The invariant: the number of faults, and without any, one answer.
OneInv == faults \in Nat /\ (faults = 0 => OneEach)

\* OneInv is kept: a step that fails ends the promise.
LEMMA OneInvStep == Shape /\ OneInv /\ [Next]_vars => OneInv'
<1> SUFFICES ASSUME Shape, OneInv, [Next]_vars PROVE OneInv'
  OBVIOUS
<1>1. NoFault \/ Fault
  BY DEF Next, WorkerStep, CallbackStep, Execute, Jobs, Receive, Claim, Handle, Lookup, Run,
         Save, Reply, Complete, Retry, Click, Toast, SenderStep, Flush, Send, Record, Tick,
         Restart, vars, NoFault
<1>2. CASE Fault
  BY <1>2 DEF Fault, OneInv
<1>3. CASE NoFault /\ faults # 0
  BY <1>3 DEF NoFault, OneInv
<1>4. CASE NoFault /\ faults = 0
  <2>1. OneEach /\ faults \in Nat
    BY <1>4 DEF OneInv
  <2>2. ~Restart
    BY <1>4 DEF Restart, Fault, NoFault
  <2>3. ASSUME NEW w \in Workers PROVE ~Retry(w)
    BY <2>1 DEF Retry, OneEach, Orderly, Undecided
  <2>4. ASSUME NEW j \in Jobs, Lookup(j) \/ Run(j) \/ Save(j) PROVE OneEach'
    BY <1>4, <2>1, <2>4, ExecuteOnce, CallbackOnce DEF Jobs
  <2>5. ASSUME UNCHANGED vars PROVE OneEach'
    <3>1. UNCHANGED <<inbox, runs, job, outbox, sender>>
      BY <2>5 DEF vars
    <3>2. \A item \in Items' : item.id \in ReplyIds /\ ~Absent(item.id)
      BY <2>1, <3>1 DEF OneEach, Items
    <3> QED
      BY <2>1, <3>1, <3>2, OneEachKept
  <2>6. OneEach'
    BY <1>4, <2>1, <2>2, <2>3, <2>4, <2>5, ReceiveOnce, ClaimOnce, HandleOnce, ReplyOnce,
       CompleteOnce, CallbackOnce, SenderOnce, TickOnce
    DEF Next, WorkerStep, CallbackStep, Execute, Jobs
  <2> QED
    BY <1>4, <2>1, <2>6 DEF OneInv, NoFault
<1> QED
  BY <1>1, <1>2, <1>3, <1>4

\* OneAnswer: as long as nothing fails, an event is never both executed and
\* refused (ClaimInbox, handle, Allow, EnqueueReply).
THEOREM OneAnswerCorrect == Spec => []OneAnswer
<1>1. Init => OneInv
  BY TwoReplies
  DEF Init, OneInv, OneEach, Untouched, Absent, Idle, Resting, Items, Jobs, Ids
<1>2. OneInv => OneAnswer
  BY DEF OneInv, OneEach, OneAnswer, Absent
<1> QED
  BY <1>1, <1>2, OneInvStep, CacheReachable, PTL DEF Spec

-----------------------------------------------------------------------------
(* TypeOK. Beside the types it bounds what messageMu, the query of the     *)
(* sender and the rate limiter hold; the bound of a batch needs that few   *)
(* replies are pending, that of the limiter that its entries are ordered.  *)

Kinds == {"answer", "rate-limit"}
EventRow == [status : {"absent", "pending", "processing", "completed"},
             attempts : Nat, wait : Nat]
ReplyRow == [status : {"absent", "pending", "sent"}, body : Nat, attempts : Nat, wait : Nat]
JobRecord == [phase : {"claimed", "waiting", "replying", "completing", "failed"} \cup Holding,
              id : Ids, attempts : Nat, kind : Kinds, body : Nat, blind : BOOLEAN]
Item == [id : ReplyIds, body : Nat, attempts : Nat]

Tabled == inbox \in [Messages -> EventRow] /\ outbox \in [ReplyIds -> ReplyRow]
Employed == job \in [Jobs -> {Idle} \cup JobRecord]

\* The rows PendingReplies chooses from.
Pending == {r \in ReplyIds : outbox[r].status = "pending"}

Batched ==
    /\ IsFiniteSet(Pending)
    /\ sender \in [batch : SUBSET Item, done : SUBSET Item, ok : BOOLEAN]
    /\ IsFiniteSet(sender.batch) /\ Cardinality(sender.batch) <= BatchSize
    /\ sender.done = {} \/ \E item : sender.done = {item}

\* What the limiter holds for one user.
Window(r) ==
    /\ r \in Seq(1..Minute) /\ Len(r) <= RateLimit
    /\ \A i \in 1..Len(r) : \A k \in 1..i : r[k] <= r[i]
Limited == DOMAIN recent = Users /\ \A u \in Users : Window(recent[u])

Counted == chat \subseteq [id : ReplyIds, body : Nat] /\ faults \in 0..MaxFaults

Typed == Tabled /\ Employed /\ Batched /\ Limited /\ Counted

\* The retry delay is a number.
LEMMA DelayIsNat == ASSUME NEW n \in Nat PROVE Delay(n) \in Nat
<1> DEFINE m == Min({n, BackoffCap})
<1>1. m \in Nat
  BY PipelineGiven DEF Min, PipelineAssumption
<1> HIDE DEF m
<1>2. IsFiniteSet(1..m) /\ Cardinality(1..m) = m
  BY <1>1, FS_Interval
<1>3. IsFiniteSet(SUBSET (1..m)) /\ Cardinality(SUBSET (1..m)) = 2 ^ m
  BY <1>2, FS_SUBSET
<1>4. 2 ^ m \in Nat
  BY <1>3, FS_CardinalityType
<1> QED
  BY <1>4 DEF Delay, m

\* So is a wait that time shortens.
LEMMA LessIsNat == ASSUME NEW n \in Nat PROVE Less(n) \in Nat
BY DEF Less, Max

\* Users of the events.
LEMMA AuthorsAreUsers == \A i \in Ids : Author[i] \in Users
BY DEF Users

\* A new entry is the youngest.
LEMMA AllowWindow ==
    ASSUME Limited, NEW u \in Users, Allow(u)
    PROVE  Limited'
<1> DEFINE r == recent[u]  s == Append(r, Minute)
<1>1. Window(r) /\ Len(r) < RateLimit
  BY DEF Limited, Allow, MayPass
<1>2. Minute \in 1..Minute /\ RateLimit \in Nat
  BY PipelineGiven DEF PipelineAssumption
<1>3. /\ s \in Seq(1..Minute) /\ Len(s) = Len(r) + 1 /\ Len(r) \in Nat
      /\ s[Len(r) + 1] = Minute
      /\ \A i \in 1..Len(r) : s[i] = r[i] /\ r[i] \in 1..Minute
  BY <1>1, <1>2 DEF Window
<1>4. recent' = [recent EXCEPT ![u] = s]
  BY DEF Allow
<1>5. \A i \in 1..Len(r) : \A k \in 1..i : r[k] <= r[i]
  BY <1>1 DEF Window
<1> DEFINE l == Len(r)
<1> HIDE DEF r, s, l
<1>6. l \in Nat /\ l < RateLimit /\ Len(s) = l + 1
  BY <1>1, <1>3 DEF l
<1>7. \A i \in 1..(l + 1) : i \in 1..l \/ i = l + 1
  BY <1>6
<1>8. /\ s[l + 1] = Minute
      /\ \A i \in 1..l : s[i] = r[i] /\ r[i] \in 1..Minute
      /\ \A i \in 1..l : \A k \in 1..i : r[k] <= r[i]
  BY <1>3, <1>5 DEF l
<1>9. ASSUME NEW i \in 1..(l + 1), NEW k \in 1..i PROVE s[k] <= s[i]
  <2>1. CASE i \in 1..l
    <3>1. k \in 1..l
      BY <1>6, <2>1
    <3> QED
      BY <1>8, <2>1, <3>1
  <2>2. CASE i = l + 1
    <3>1. k \in 1..(l + 1)
      BY <1>6, <2>2
    <3> QED
      BY <1>2, <1>7, <1>8, <2>2, <3>1
  <2> QED
    BY <1>7, <2>1, <2>2
<1>10. Window(s)
  BY <1>2, <1>3, <1>6, <1>9 DEF Window
<1> QED
  BY <1>4, <1>10 DEF Limited

\* A function on 1..k is a sequence of length k.
LEMMA FunctionIsSeq ==
    ASSUME NEW S, NEW k \in Nat, NEW f \in [1..k -> S]
    PROVE  f \in Seq(S) /\ Len(f) = k
OBVIOUS

\* A minute takes the oldest entries away.
LEMMA TickWindow ==
    ASSUME Limited, Tick
    PROVE  Limited'
<1> SUFFICES ASSUME NEW u \in Users PROVE Window(recent'[u])
  BY DEF Limited, Tick
<1> DEFINE r == recent[u]  n == Cardinality(Ending(u))  l == Len(r)
           s == [i \in 1..(l - n) |-> r[n + i] - 1]
<1>1. recent'[u] = s
  BY DEF Tick
<1>2. /\ Window(r) /\ l \in Nat /\ l <= RateLimit
      /\ r \in [1..l -> 1..Minute]
      /\ Minute \in Nat /\ RateLimit \in Nat
  BY PipelineGiven DEF Limited, Window, PipelineAssumption
<1>3. \A i \in 1..l : r[i] \in 1..Minute /\ \A k \in 1..i : r[k] <= r[i]
  BY <1>2 DEF Window
<1>4. Ending(u) = {i \in 1..l : r[i] = 1}
  BY <1>2 DEF Ending
<1> HIDE DEF r, l
<1>5. IsFiniteSet(1..l) /\ Cardinality(1..l) = l
  BY <1>2, FS_Interval
<1>6. IsFiniteSet(Ending(u)) /\ n \in Nat /\ n <= l
  BY <1>4, <1>5, FS_Subset, FS_CardinalityType
<1>7. ASSUME NEW i \in 1..l, i > n PROVE r[i] > 1
  <2> SUFFICES ASSUME r[i] = 1 PROVE FALSE
    BY <1>2, <1>3
  <2>1. 1..i \subseteq Ending(u)
    BY <1>2, <1>3, <1>4
  <2>2. IsFiniteSet(1..i) /\ Cardinality(1..i) = i
    BY <1>2, FS_Interval
  <2>3. i <= n
    BY <2>1, <2>2, <1>6, FS_Subset
  <2> QED
    BY <1>2, <1>6, <1>7, <2>3
<1> HIDE DEF n
<1>8. \A i \in 1..(l - n) : n + i \in 1..l /\ n + i > n
  BY <1>2, <1>6
<1>9. \A i \in 1..(l - n) : s[i] \in 1..Minute
  <2> SUFFICES ASSUME NEW i \in 1..(l - n) PROVE r[n + i] - 1 \in 1..Minute
    OBVIOUS
  <2>1. n + i \in 1..l /\ r[n + i] > 1 /\ r[n + i] \in 1..Minute
    BY <1>3, <1>7, <1>8
  <2> QED
    BY <1>2, <2>1
<1>10. l - n \in Nat /\ s \in [1..(l - n) -> 1..Minute]
  BY <1>2, <1>6, <1>9
<1>11. s \in Seq(1..Minute) /\ Len(s) = l - n
  BY <1>10, FunctionIsSeq
<1>12. \A i \in 1..(l - n) : \A k \in 1..i : s[k] <= s[i]
  <2> SUFFICES ASSUME NEW i \in 1..(l - n), NEW k \in 1..i PROVE s[k] <= s[i]
    OBVIOUS
  <2>1. n + i \in 1..l /\ n + k \in 1..(n + i) /\ k \in 1..(l - n)
    BY <1>2, <1>6
  <2>2. r[n + k] <= r[n + i] /\ r[n + k] \in 1..Minute /\ r[n + i] \in 1..Minute
    BY <2>1, <1>2, <1>3, <1>6
  <2> QED
    BY <2>1, <2>2, <1>2
<1> HIDE DEF s
<1> QED
  BY <1>1, <1>2, <1>6, <1>11, <1>12 DEF Window

\* Edits of one row, of the fields the steps change.
LEMMA TableEdits ==
    ASSUME Tabled
    PROVE  /\ \A e \in Messages, st \in {"pending", "processing", "completed"} :
                 [inbox EXCEPT ![e].status = st] \in [Messages -> EventRow]
           /\ \A r \in ReplyIds, n \in Nat :
                 /\ [outbox EXCEPT ![r].status = "pending", ![r].body = n]
                       \in [ReplyIds -> ReplyRow]
                 /\ [outbox EXCEPT ![r].body = n] \in [ReplyIds -> ReplyRow]
           /\ \A r \in ReplyIds :
                 [outbox EXCEPT ![r].status = "sent"] \in [ReplyIds -> ReplyRow]
           /\ \A r \in ReplyIds, n \in Nat :
                 [outbox EXCEPT ![r].attempts = @ + 1, ![r].wait = n] \in [ReplyIds -> ReplyRow]
<1>1. ASSUME NEW e \in Messages, NEW st \in {"pending", "processing", "completed"}
      PROVE  [inbox EXCEPT ![e].status = st] \in [Messages -> EventRow]
  BY DEF Tabled, EventRow
<1>2. ASSUME NEW r \in ReplyIds, NEW n \in Nat
      PROVE  [outbox EXCEPT ![r].status = "pending", ![r].body = n] \in [ReplyIds -> ReplyRow]
  BY DEF Tabled, ReplyRow
<1>3. ASSUME NEW r \in ReplyIds, NEW n \in Nat
      PROVE  [outbox EXCEPT ![r].body = n] \in [ReplyIds -> ReplyRow]
  BY DEF Tabled, ReplyRow
<1>4. ASSUME NEW r \in ReplyIds
      PROVE  [outbox EXCEPT ![r].status = "sent"] \in [ReplyIds -> ReplyRow]
  BY DEF Tabled, ReplyRow
<1>5. ASSUME NEW r \in ReplyIds, NEW n \in Nat
      PROVE  [outbox EXCEPT ![r].attempts = @ + 1, ![r].wait = n] \in [ReplyIds -> ReplyRow]
  <2> DEFINE row == [outbox[r] EXCEPT !.attempts = @ + 1, !.wait = n]
  <2>1. row \in ReplyRow
    <3>1. outbox[r] \in ReplyRow
      BY DEF Tabled
    <3>2. outbox[r].attempts + 1 \in Nat
      BY <3>1 DEF ReplyRow
    <3> QED
      BY <3>1, <3>2 DEF ReplyRow
  <2>2. [outbox EXCEPT ![r].attempts = @ + 1, ![r].wait = n] = [outbox EXCEPT ![r] = row]
    BY DEF Tabled
  <2> HIDE DEF row
  <2> QED
    BY <2>1, <2>2 DEF Tabled
<1> QED
  BY <1>1, <1>2, <1>3, <1>4, <1>5

\* A job at work is a record with a number of a run, an event and so on.
LEMMA AtWork ==
    ASSUME Shape, Employed, NEW j \in Jobs, job[j].phase # "idle"
    PROVE  /\ job[j] \in JobRecord
           /\ job[j].id \in Ids /\ runs[job[j].id] \in Nat /\ replies[job[j].id] \in Nat
           /\ runs \in [Ids -> Nat]
<1>1. job[j] \in JobRecord
  BY DEF Employed, Idle
<1> QED
  BY <1>1 DEF JobRecord, Shape

\* A job moves to another phase, with another answer.
LEMMA JobEdits ==
    ASSUME Shape, Employed, NEW j \in Jobs, job[j].phase # "idle",
           NEW p \in {"claimed", "waiting", "replying", "completing", "failed"} \cup Holding
    PROVE  /\ [job EXCEPT ![j].phase = p] \in [Jobs -> {Idle} \cup JobRecord]
           /\ \A k \in Kinds :
                 [job EXCEPT ![j].phase = p, ![j].kind = k] \in [Jobs -> {Idle} \cup JobRecord]
           /\ \A n \in Nat :
                 [job EXCEPT ![j].phase = p, ![j].body = n] \in [Jobs -> {Idle} \cup JobRecord]
           /\ [job EXCEPT ![j].phase = p, ![j].blind = TRUE] \in [Jobs -> {Idle} \cup JobRecord]
<1>1. job[j] \in JobRecord
  BY AtWork
<1> DEFINE R(r) == [job EXCEPT ![j] = r]
<1>2. \A r \in {Idle} \cup JobRecord : R(r) \in [Jobs -> {Idle} \cup JobRecord]
  BY DEF Employed
<1>3. [job[j] EXCEPT !.phase = p] \in JobRecord
  BY <1>1 DEF JobRecord
<1>4. \A k \in Kinds : [job[j] EXCEPT !.phase = p, !.kind = k] \in JobRecord
  BY <1>1 DEF JobRecord
<1>5. \A n \in Nat : [job[j] EXCEPT !.phase = p, !.body = n] \in JobRecord
  BY <1>1 DEF JobRecord
<1>6. [job[j] EXCEPT !.phase = p, !.blind = TRUE] \in JobRecord
  BY <1>1 DEF JobRecord
<1> HIDE DEF Holding
<1>7. [job EXCEPT ![j].phase = p] \in [Jobs -> {Idle} \cup JobRecord]
  <2>1. [job EXCEPT ![j].phase = p] = R([job[j] EXCEPT !.phase = p])
    BY DEF Employed
  <2> QED
    BY <1>2, <1>3, <2>1
<1>8. ASSUME NEW k \in Kinds
      PROVE  [job EXCEPT ![j].phase = p, ![j].kind = k] \in [Jobs -> {Idle} \cup JobRecord]
  <2>1. [job EXCEPT ![j].phase = p, ![j].kind = k]
          = R([job[j] EXCEPT !.phase = p, !.kind = k])
    BY DEF Employed
  <2> QED
    BY <1>2, <1>4, <2>1
<1>9. ASSUME NEW n \in Nat
      PROVE  [job EXCEPT ![j].phase = p, ![j].body = n] \in [Jobs -> {Idle} \cup JobRecord]
  <2>1. [job EXCEPT ![j].phase = p, ![j].body = n]
          = R([job[j] EXCEPT !.phase = p, !.body = n])
    BY DEF Employed
  <2> QED
    BY <1>2, <1>5, <2>1
<1>10. [job EXCEPT ![j].phase = p, ![j].blind = TRUE] \in [Jobs -> {Idle} \cup JobRecord]
  <2>1. [job EXCEPT ![j].phase = p, ![j].blind = TRUE]
          = R([job[j] EXCEPT !.phase = p, !.blind = TRUE])
    BY DEF Employed
  <2> QED
    BY <1>2, <1>6, <2>1
<1> QED
  BY <1>7, <1>8, <1>9, <1>10

\* The tables keep their type.
LEMMA TabledStep ==
    ASSUME Shape, Typed, [Next]_vars
    PROVE  Tabled'
<1> Tabled /\ Employed /\ Batched
  BY DEF Typed
<1>1. ASSUME NEW e \in Messages, Receive(e) PROVE Tabled'
  BY <1>1, TableEdits DEF Receive, Tabled
<1>2. ASSUME NEW w \in Workers, Claim(w) PROVE Tabled'
  BY <1>2, TableEdits DEF Claim, Tabled
<1>3. ASSUME NEW w \in Workers, Reply(w) PROVE Tabled'
  <2>1. job[w].id \in Messages /\ job[w].kind \in Kinds /\ job[w].body \in Nat
    BY <1>3 DEF Reply, Shape, JobShape, Jobs, Kinds
  <2>2. <<job[w].id, job[w].kind>> \in ReplyIds
    BY <2>1 DEF ReplyIds, Kinds
  <2> DEFINE r == <<job[w].id, job[w].kind>>
             n == job[w].body
  <2>3. /\ inbox' = inbox
        /\ \/ outbox' = [outbox EXCEPT ![r].status = "pending", ![r].body = n]
           \/ outbox' = [outbox EXCEPT ![r].body = n]
           \/ outbox' = outbox
    BY <1>3 DEF Reply
  <2>4. r \in ReplyIds /\ n \in Nat
    BY <2>1, <2>2
  <2> HIDE DEF r, n
  <2>5. /\ [outbox EXCEPT ![r].status = "pending", ![r].body = n] \in [ReplyIds -> ReplyRow]
        /\ [outbox EXCEPT ![r].body = n] \in [ReplyIds -> ReplyRow]
    BY <2>4, TableEdits
  <2> QED
    BY <2>3, <2>5 DEF Tabled
<1>4. ASSUME NEW w \in Workers, Complete(w) PROVE Tabled'
  <2>1. job[w].id \in Messages
    BY <1>4 DEF Complete, Shape, JobShape, Jobs
  <2> QED
    BY <1>4, <2>1, TableEdits DEF Complete, Tabled
<1>5. ASSUME NEW w \in Workers, Retry(w) PROVE Tabled'
  <2>1. job[w].id \in Messages
    BY <1>5 DEF Retry, Shape, JobShape, Jobs
  <2>2. Delay(job[w].attempts) \in Nat
    BY <1>5, AtWork, DelayIsNat DEF Retry, JobRecord, Jobs
  <2>3. [status |-> "pending", attempts |-> inbox[job[w].id].attempts + 1,
         wait |-> Delay(job[w].attempts)] \in EventRow
    BY <2>1, <2>2 DEF Tabled, EventRow
  <2> QED
    BY <1>5, <2>1, <2>3 DEF Retry, Tabled
<1>6. ASSUME NEW item \in Items, Record(item) PROVE Tabled'
  <2>1. item \in Item
    BY <1>6 DEF Items, Batched
  <2>2. item.id \in ReplyIds /\ Delay(item.attempts) \in Nat
    BY <2>1, DelayIsNat DEF Item
  <2> DEFINE r == item.id
             n == Delay(item.attempts)
  <2>3. /\ inbox' = inbox
        /\ \/ outbox' = [outbox EXCEPT ![r].status = "sent"]
           \/ outbox' = [outbox EXCEPT ![r].attempts = @ + 1, ![r].wait = n]
           \/ outbox' = outbox
    BY <1>6 DEF Record
  <2>4. r \in ReplyIds /\ n \in Nat
    BY <2>2
  <2> HIDE DEF r, n
  <2>5. /\ [outbox EXCEPT ![r].status = "sent"] \in [ReplyIds -> ReplyRow]
        /\ [outbox EXCEPT ![r].attempts = @ + 1, ![r].wait = n] \in [ReplyIds -> ReplyRow]
    BY <2>4, TableEdits
  <2> QED
    BY <2>3, <2>5 DEF Tabled
<1>7. ASSUME Tick PROVE Tabled'
  <2>1. \A e \in Messages : [inbox[e] EXCEPT !.wait = Less(@)] \in EventRow
    BY LessIsNat DEF Tabled, EventRow
  <2>2. \A r \in ReplyIds : [outbox[r] EXCEPT !.wait = Less(@)] \in ReplyRow
    BY LessIsNat DEF Tabled, ReplyRow
  <2> QED
    BY <1>7, <2>1, <2>2 DEF Tick, Tabled
<1>8. ASSUME Restart PROVE Tabled'
  <2>1. \A e \in Messages : [inbox[e] EXCEPT !.status = "pending"] \in EventRow
    BY DEF Tabled, EventRow
  <2> QED
    BY <1>8, <2>1 DEF Restart, Tabled
<1>9. ASSUME UNCHANGED <<inbox, outbox>> PROVE Tabled'
  BY <1>9 DEF Tabled
<1>10. ASSUME NEW j \in Jobs, Lookup(j) \/ Run(j) \/ Save(j) PROVE UNCHANGED <<inbox, outbox>>
  BY <1>10 DEF Lookup, Run, Save
<1>11. ASSUME NEW w \in Workers, Handle(w) PROVE UNCHANGED <<inbox, outbox>>
  BY <1>11 DEF Handle
<1>12. ASSUME NEW h \in Callbacks, Toast(h) \/ \E c \in Clicks : Click(h, c)
       PROVE  UNCHANGED <<inbox, outbox>>
  BY <1>12 DEF Toast, Click
<1>13. ASSUME Flush \/ \E item \in Items : Send(item) PROVE UNCHANGED <<inbox, outbox>>
  BY <1>13 DEF Flush, Send
<1> QED
  BY <1>1, <1>2, <1>3, <1>4, <1>5, <1>6, <1>7, <1>8, <1>9, <1>10, <1>11, <1>12, <1>13
  DEF Next, WorkerStep, CallbackStep, SenderStep, Execute, Jobs, vars

\* What a handler may do to a job in progress.
Moved(j) ==
    \E p \in {"claimed", "waiting", "replying", "completing", "failed"} \cup Holding :
        \/ job' = [job EXCEPT ![j].phase = p]
        \/ \E k \in Kinds : job' = [job EXCEPT ![j].phase = p, ![j].kind = k]
        \/ \E n \in Nat : job' = [job EXCEPT ![j].phase = p, ![j].body = n]
        \/ job' = [job EXCEPT ![j].phase = p, ![j].blind = TRUE]

\* It leaves every job with its type.
LEMMA MovedEmployed ==
    ASSUME Shape, Employed, NEW j \in Jobs, job[j].phase # "idle", Moved(j)
    PROVE  Employed'
<1>1. PICK p \in {"claimed", "waiting", "replying", "completing", "failed"} \cup Holding :
          \/ job' = [job EXCEPT ![j].phase = p]
          \/ \E k \in Kinds : job' = [job EXCEPT ![j].phase = p, ![j].kind = k]
          \/ \E n \in Nat : job' = [job EXCEPT ![j].phase = p, ![j].body = n]
          \/ job' = [job EXCEPT ![j].phase = p, ![j].blind = TRUE]
  BY DEF Moved
<1>2. CASE job' = [job EXCEPT ![j].phase = p]
  BY <1>2, JobEdits DEF Employed
<1>3. ASSUME NEW k \in Kinds, job' = [job EXCEPT ![j].phase = p, ![j].kind = k]
      PROVE  Employed'
  BY <1>3, JobEdits DEF Employed
<1>4. ASSUME NEW n \in Nat, job' = [job EXCEPT ![j].phase = p, ![j].body = n]
      PROVE  Employed'
  BY <1>4, JobEdits DEF Employed
<1>5. CASE job' = [job EXCEPT ![j].phase = p, ![j].blind = TRUE]
  BY <1>5, JobEdits DEF Employed
<1> QED
  BY <1>1, <1>2, <1>3, <1>4, <1>5

\* The handlers of a job in progress.
LEMMA HandlersMove ==
    ASSUME Shape, Employed, NEW j \in Jobs, job[j].phase # "idle"
    PROVE  /\ Handle(j) \/ Lookup(j) \/ Run(j) \/ Save(j) => Moved(j)
           /\ Reply(j) => Moved(j)
           /\ Complete(j) => Moved(j) \/ job' = [job EXCEPT ![j] = Idle]
<1>1. /\ runs[job[j].id] + 1 \in Nat /\ replies[job[j].id] \in Nat
  BY AtWork
<1>2. {"running", "saving"} \subseteq Holding /\ "rate-limit" \in Kinds
  BY DEF Holding, Kinds
<1>3. ASSUME Handle(j) PROVE Moved(j)
  BY <1>1, <1>2, <1>3 DEF Handle, Go, Moved
<1>4. ASSUME Lookup(j) PROVE Moved(j)
  <2>1. \/ job' = [job EXCEPT ![j].phase = "replying", ![j].body = replies[job[j].id]]
        \/ job' = [job EXCEPT ![j].phase = "running"]
        \/ job' = [job EXCEPT ![j].phase = "running", ![j].blind = TRUE]
    BY <1>4 DEF Lookup, Go
  <2> QED
    BY <1>1, <1>2, <2>1 DEF Moved
<1>5. ASSUME Run(j) PROVE Moved(j)
  BY <1>1, <1>2, <1>5 DEF Run, Moved
<1>6. ASSUME Save(j) PROVE Moved(j)
  BY <1>6 DEF Save, Go, Moved
<1>7. ASSUME Reply(j) PROVE Moved(j)
  BY <1>7 DEF Reply, Go, Moved
<1>8. ASSUME Complete(j) PROVE Moved(j) \/ job' = [job EXCEPT ![j] = Idle]
  BY <1>8 DEF Complete, Go, Moved
<1> QED
  BY <1>3, <1>4, <1>5, <1>6, <1>7, <1>8

\* So do the jobs.
LEMMA EmployedStep ==
    ASSUME Shape, Typed, [Next]_vars
    PROVE  Employed'
<1> Tabled /\ Employed
  BY DEF Typed
<1> DEFINE Staff == [Jobs -> {Idle} \cup JobRecord]
<1>1. ASSUME NEW j \in Jobs, NEW i \in Ids, NEW n \in Nat, NEW p \in {"claimed", "waiting"},
             Begin(j, i, n, p)
      PROVE  job' \in Staff
  BY <1>1 DEF Begin, Employed, JobRecord, Kinds
<1>2. ASSUME NEW j \in Jobs PROVE [job EXCEPT ![j] = Idle] \in Staff
  BY DEF Employed
<1>3. ASSUME NEW w \in Workers, Claim(w) PROVE job' \in Staff
  <2>1. PICK e \in Messages : Begin(w, e, inbox[e].attempts, "claimed")
    BY <1>3 DEF Claim
  <2>2. inbox[e].attempts \in Nat
    BY DEF Tabled, EventRow
  <2> HIDE DEF Staff
  <2> QED
    BY <1>1, <2>1, <2>2 DEF Jobs, Ids
<1>4. ASSUME NEW j \in Jobs,
             Handle(j) \/ Lookup(j) \/ Run(j) \/ Save(j) \/ Reply(j) \/ Complete(j)
      PROVE  job' \in Staff
  <2>1. job[j].phase # "idle"
    BY <1>4 DEF Handle, Lookup, Run, Save, Reply, Complete
  <2>2. Moved(j) \/ job' = [job EXCEPT ![j] = Idle]
    BY <1>4, <2>1, HandlersMove
  <2> QED
    BY <1>2, <2>1, <2>2, MovedEmployed DEF Employed
<1>5. ASSUME NEW j \in Jobs, Retry(j) PROVE job' \in Staff
  BY <1>2, <1>5 DEF Retry
<1>8. ASSUME NEW h \in Callbacks, NEW c \in Clicks, Click(h, c) PROVE job' \in Staff
  <2> HIDE DEF Staff
  <2> QED
    BY <1>1, <1>8 DEF Click, Jobs, Ids
<1>9. ASSUME NEW h \in Callbacks, Toast(h) PROVE job' \in Staff
  BY <1>2, <1>9 DEF Toast, Jobs
<1>10. ASSUME Restart PROVE job' \in Staff
  BY <1>10 DEF Restart
<1>11. ASSUME SenderStep PROVE UNCHANGED job
  BY <1>11 DEF SenderStep, Flush, Send, Record
<1>12. ASSUME Tick \/ \E e \in Messages : Receive(e) PROVE UNCHANGED job
  BY <1>12 DEF Tick, Receive
<1>13. ASSUME UNCHANGED job PROVE job' \in Staff
  BY <1>13 DEF Employed
<1> HIDE DEF Staff
<1>14. job' \in Staff
  BY <1>3, <1>4, <1>5, <1>8, <1>9, <1>10, <1>11, <1>12, <1>13
  DEF Next, WorkerStep, CallbackStep, Execute, Jobs, vars
<1> QED
  BY <1>14 DEF Employed, Staff

\* So does the sender, and what is pending stays a finite set: one reply is
\* added at a time.
LEMMA BatchedStep ==
    ASSUME Shape, Typed, [Next]_vars
    PROVE  Batched'
<1> Tabled /\ Batched
  BY DEF Typed
<1> USE DEF Pending
<1>1. ASSUME sender' = sender, IsFiniteSet(Pending') PROVE Batched'
  BY <1>1 DEF Batched
<1>2. ASSUME Pending' \subseteq Pending PROVE IsFiniteSet(Pending')
  <2> HIDE DEF Pending
  <2> QED
    BY <1>2, FS_Subset DEF Batched
<1>3. ASSUME NEW w \in Workers, Reply(w) PROVE Batched'
  <2> DEFINE r == <<job[w].id, job[w].kind>>
  <2>1. Pending' \subseteq Pending \cup {r} /\ sender' = sender
    BY <1>3 DEF Reply, Tabled
  <2>2. IsFiniteSet(Pending \cup {r})
    <3> HIDE DEF Pending, r
    <3> QED
      BY FS_AddElement DEF Batched
  <2>3. IsFiniteSet(Pending')
    BY <2>1, <2>2, FS_Subset
  <2> QED
    BY <1>1, <2>1, <2>3
<1>4. ASSUME Flush PROVE Batched'
  <2> DEFINE Snapshot(r) ==
               [id |-> r, body |-> outbox[r].body, attempts |-> outbox[r].attempts]
  <2>1. PICK S \in SUBSET Due :
            /\ Cardinality(S) = Min({BatchSize, Cardinality(Due)})
            /\ sender' = [Resting EXCEPT !.batch = {Snapshot(r) : r \in S}]
    BY <1>4 DEF Flush
  <2>2. Due \subseteq Pending /\ IsFiniteSet(Pending)
    BY DEF Due, Batched
  <2>3. IsFiniteSet(Due) /\ IsFiniteSet(S)
    BY <2>1, <2>2, FS_Subset
  <2>4. Cardinality(Due) \in Nat /\ Cardinality(S) \in Nat
    BY <2>3, FS_CardinalityType
  <2>5. Cardinality(S) <= BatchSize
    BY <2>1, <2>4, PipelineGiven DEF Min, PipelineAssumption
  <2> DEFINE batch == {Snapshot(r) : r \in S}
  <2>6. /\ IsFiniteSet(batch) /\ Cardinality(batch) \in Nat
        /\ Cardinality(batch) <= Cardinality(S)
    <3> DEFINE f == [r \in S |-> Snapshot(r)]
    <3>1. f \in Surjection(S, batch)
      BY DEF Surjection
    <3> HIDE DEF f, batch
    <3> QED
      BY <2>3, <3>1, FS_Surjection, FS_CardinalityType
  <2>7. batch \subseteq Item
    <3>1. ASSUME NEW r \in S PROVE Snapshot(r) \in Item
      <4>1. r \in ReplyIds /\ outbox[r] \in ReplyRow
        BY <2>1, <2>2 DEF Tabled
      <4> QED
        BY <4>1 DEF Item, ReplyRow
    <3> QED
      BY <3>1
  <2>8. sender' = [batch |-> batch, done |-> {}, ok |-> FALSE]
    BY <2>1 DEF Resting
  <2>9. Pending' = Pending
    BY <1>4 DEF Flush
  <2> HIDE DEF batch, Pending
  <2>10. Cardinality(batch) <= BatchSize
    BY <2>4, <2>5, <2>6, PipelineGiven DEF PipelineAssumption
  <2>11. /\ sender' \in [batch : SUBSET Item, done : SUBSET Item, ok : BOOLEAN]
         /\ sender'.batch = batch /\ sender'.done = {}
    BY <2>7, <2>8
  <2> QED
    BY <2>2, <2>6, <2>9, <2>10, <2>11 DEF Batched
<1>5. ASSUME NEW item, Send(item) PROVE Batched'
  <2> DEFINE rest == sender.batch \ {item}
  <2>1. item \in sender.batch /\ outbox' = outbox
        /\ \E ok \in BOOLEAN : sender' = [batch |-> rest, done |-> {item}, ok |-> ok]
    BY <1>5 DEF Send
  <2>2. IsFiniteSet(rest) /\ Cardinality(rest) <= Cardinality(sender.batch)
        /\ Cardinality(rest) \in Nat /\ Cardinality(sender.batch) \in Nat
    BY FS_Subset, FS_CardinalityType DEF Batched
  <2>3. rest \subseteq Item /\ item \in Item
    BY <2>1 DEF Batched
  <2>4. Cardinality(rest) <= BatchSize
    BY <2>2, PipelineGiven DEF Batched, PipelineAssumption
  <2>5. Pending' = Pending
    BY <2>1
  <2> HIDE DEF rest, Pending
  <2>6. /\ sender' \in [batch : SUBSET Item, done : SUBSET Item, ok : BOOLEAN]
        /\ sender'.batch = rest /\ sender'.done = {item}
    BY <2>1, <2>3
  <2> QED
    BY <2>2, <2>4, <2>5, <2>6 DEF Batched
<1>6. ASSUME NEW item, Record(item) PROVE Batched'
  <2>1. Pending' \subseteq Pending
    <3> SUFFICES ASSUME NEW r \in ReplyIds, outbox'[r].status = "pending"
                 PROVE  outbox[r].status = "pending"
      OBVIOUS
    <3>1. CASE r = item.id
      BY <1>6, <3>1 DEF Record, Tabled, ReplyRow
    <3>2. CASE r # item.id
      BY <1>6, <3>2 DEF Record, Tabled
    <3> QED
      BY <3>1, <3>2
  <2>2. sender' = [batch |-> sender.batch, done |-> {}, ok |-> FALSE]
    BY <1>6 DEF Record, Batched
  <2> HIDE DEF Pending
  <2> QED
    BY <1>2, <2>1, <2>2 DEF Batched
<1>7. ASSUME Tick PROVE Batched'
  <2>1. sender' = sender /\ Pending' \subseteq Pending
    BY <1>7 DEF Tick, Tabled, ReplyRow
  <2> QED
    BY <1>1, <1>2, <2>1
<1>8. ASSUME Restart PROVE Batched'
  <2>1. Pending' = Pending /\ sender' = Resting
    BY <1>8 DEF Restart
  <2>2. IsFiniteSet({}) /\ Cardinality({}) = 0
    BY FS_EmptySet
  <2> HIDE DEF Pending
  <2> QED
    BY <2>1, <2>2, PipelineGiven DEF Batched, Resting, PipelineAssumption
<1>9. ASSUME UNCHANGED <<sender, outbox>> PROVE Batched'
  BY <1>9 DEF Batched
<1>10. ASSUME NEW j \in Jobs, Lookup(j) \/ Run(j) \/ Save(j) PROVE UNCHANGED <<sender, outbox>>
  BY <1>10 DEF Lookup, Run, Save
<1>11. ASSUME NEW w \in Workers, Claim(w) \/ Handle(w) \/ Complete(w) \/ Retry(w)
       PROVE  UNCHANGED <<sender, outbox>>
  BY <1>11 DEF Claim, Handle, Complete, Retry
<1>12. ASSUME NEW h \in Callbacks, Toast(h) \/ \E c \in Clicks : Click(h, c)
       PROVE  UNCHANGED <<sender, outbox>>
  BY <1>12 DEF Toast, Click
<1>13. ASSUME NEW e \in Messages, Receive(e) PROVE UNCHANGED <<sender, outbox>>
  BY <1>13 DEF Receive
<1> QED
  BY <1>3, <1>4, <1>5, <1>6, <1>7, <1>8, <1>9, <1>10, <1>11, <1>12, <1>13
  DEF Next, WorkerStep, CallbackStep, SenderStep, Execute, Jobs, vars

\* So does the rate limiter.
LEMMA LimitedStep ==
    ASSUME Shape, Typed, [Next]_vars
    PROVE  Limited'
<1> Limited
  BY DEF Typed
<1>1. ASSUME NEW w \in Workers, Handle(w) PROVE Limited'
  <2>1. Author[job[w].id] \in Users
    BY <1>1, AuthorsAreUsers DEF Handle, Shape, JobShape, Jobs, Ids
  <2>2. Allow(Author[job[w].id]) \/ UNCHANGED recent
    BY <1>1 DEF Handle, Refuse
  <2> QED
    BY <2>1, <2>2, AllowWindow DEF Limited
<1>2. ASSUME NEW h \in Callbacks, NEW c \in Clicks, Click(h, c) PROVE Limited'
  <2>1. Author[c] \in Users /\ Allow(Author[c])
    BY <1>2, AuthorsAreUsers DEF Click, Ids
  <2> QED
    BY <2>1, AllowWindow
<1>3. ASSUME Restart PROVE Limited'
  <2>1. <<>> \in Seq(1..Minute) /\ Len(<<>>) = 0
    OBVIOUS
  <2>2. Window(<<>>)
    BY <2>1, PipelineGiven DEF Window, PipelineAssumption
  <2> QED
    BY <1>3, <2>2 DEF Restart, Limited
<1>4. ASSUME UNCHANGED recent PROVE Limited'
  BY <1>4 DEF Limited
<1>5. ASSUME NEW j \in Jobs, Lookup(j) \/ Run(j) \/ Save(j) PROVE UNCHANGED recent
  BY <1>5 DEF Lookup, Run, Save
<1>6. ASSUME NEW w \in Workers, Claim(w) \/ Reply(w) \/ Complete(w) \/ Retry(w)
      PROVE  UNCHANGED recent
  BY <1>6 DEF Claim, Reply, Complete, Retry
<1>7. ASSUME SenderStep \/ \E h \in Callbacks : Toast(h) PROVE UNCHANGED recent
  BY <1>7 DEF SenderStep, Flush, Send, Record, Toast
<1>8. ASSUME NEW e \in Messages, Receive(e) PROVE UNCHANGED recent
  BY <1>8 DEF Receive
<1> QED
  BY <1>1, <1>2, <1>3, <1>4, <1>5, <1>6, <1>7, <1>8, TickWindow
  DEF Next, WorkerStep, CallbackStep, Execute, Jobs, vars

\* So do the chat and the count of faults.
LEMMA CountedStep ==
    ASSUME Shape, Typed, [Next]_vars
    PROVE  Counted'
<1> Batched /\ Counted
  BY DEF Typed
<1>1. ASSUME NoFault \/ Fault PROVE faults' \in 0..MaxFaults
  BY <1>1, PipelineGiven DEF NoFault, Fault, Counted, PipelineAssumption
<1>2. ASSUME NEW item \in Items, Send(item) PROVE Counted'
  <2>1. item \in Item /\ (NoFault \/ Fault) /\ (chat' = chat \/ chat' = Shown(item))
    BY <1>2 DEF Items, Batched, Send
  <2>2. Shown(item) \subseteq [id : ReplyIds, body : Nat]
    BY <2>1 DEF Shown, Item, Counted
  <2> QED
    BY <1>1, <2>1, <2>2 DEF Counted
<1>3. ASSUME UNCHANGED chat, NoFault \/ Fault PROVE Counted'
  BY <1>1, <1>3 DEF Counted
<1>4. ASSUME NEW j \in Jobs, Lookup(j) \/ Run(j) \/ Save(j)
      PROVE  UNCHANGED chat /\ (NoFault \/ Fault)
  BY <1>4 DEF Lookup, Run, Save, NoFault
<1>5. ASSUME NEW w \in Workers, Claim(w) \/ Handle(w) \/ Reply(w) \/ Complete(w) \/ Retry(w)
      PROVE  UNCHANGED chat /\ (NoFault \/ Fault)
  BY <1>5 DEF Claim, Handle, Reply, Complete, Retry, NoFault
<1>6. ASSUME NEW h \in Callbacks, Toast(h) \/ \E c \in Clicks : Click(h, c)
      PROVE  UNCHANGED chat /\ (NoFault \/ Fault)
  BY <1>6 DEF Toast, Click, NoFault
<1>7. ASSUME Flush \/ \E item \in Items : Record(item)
      PROVE  UNCHANGED chat /\ (NoFault \/ Fault)
  BY <1>7 DEF Flush, Record, NoFault
<1>8. ASSUME Tick \/ Restart \/ \E e \in Messages : Receive(e)
      PROVE  UNCHANGED chat /\ (NoFault \/ Fault)
  BY <1>8 DEF Tick, Restart, Receive, NoFault
<1>9. ASSUME UNCHANGED vars PROVE UNCHANGED chat /\ (NoFault \/ Fault)
  BY <1>9 DEF vars, NoFault
<1> QED
  BY <1>2, <1>3, <1>4, <1>5, <1>6, <1>7, <1>8, <1>9
  DEF Next, WorkerStep, CallbackStep, SenderStep, Execute, Jobs

\* The first states.
LEMMA TypedInit == Init => Typed
<1> SUFFICES ASSUME Init PROVE Typed
  OBVIOUS
<1>1. Tabled /\ Employed
  BY DEF Init, Tabled, EventRow, ReplyRow, Employed
<1>2. Batched
  <2>1. Pending = {} /\ sender = Resting
    BY DEF Init, Pending
  <2>2. IsFiniteSet({}) /\ Cardinality({}) = 0
    BY FS_EmptySet
  <2> QED
    BY <2>1, <2>2, PipelineGiven DEF Batched, Resting, PipelineAssumption
<1>3. Limited
  <2>1. <<>> \in Seq(1..Minute) /\ Len(<<>>) = 0
    OBVIOUS
  <2>2. Window(<<>>)
    BY <2>1, PipelineGiven DEF Window, PipelineAssumption
  <2> QED
    BY <2>2 DEF Init, Limited
<1>4. Counted
  BY PipelineGiven DEF Init, Counted, PipelineAssumption
<1> QED
  BY <1>1, <1>2, <1>3, <1>4 DEF Typed

\* A set without two elements.
LEMMA AtMostOne ==
    ASSUME NEW S, S = {} \/ \E x : S = {x}
    PROVE  Cardinality(S) <= 1
<1>1. CASE S = {}
  <2>1. Cardinality(S) = 0
    BY <1>1, FS_EmptySet
  <2> QED
    BY <2>1
<1>2. ASSUME NEW x, S = {x} PROVE Cardinality(S) <= 1
  <2>1. Cardinality({x}) = 1
    BY FS_Singleton
  <2> QED
    BY <1>2, <2>1
<1> QED
  BY <1>1, <1>2

\* With the lock of Exclusive it is the type invariant.
LEMMA TypedIs ==
    ASSUME Shape, Cached, Typed
    PROVE  TypeOK
<1> Tabled /\ Employed /\ Batched /\ Limited /\ Counted
  BY DEF Typed
<1>1. /\ inbox \in [Messages -> [status : {"absent", "pending", "processing", "completed"},
                                 attempts : Nat, wait : Nat]]
      /\ outbox \in [ReplyIds -> [status : {"absent", "pending", "sent"},
                                  body : Nat, attempts : Nat, wait : Nat]]
      /\ replies \in [Ids -> Nat] /\ runs \in [Ids -> Nat]
  BY DEF Tabled, EventRow, ReplyRow, Shape
<1>2. \A j \in Jobs : job[j] # Idle =>
          /\ job[j].phase \in {"claimed", "waiting", "replying", "completing", "failed"}
                                 \cup Holding
          /\ job[j].id \in (IF j \in Workers THEN Messages ELSE Clicks)
          /\ job[j].kind \in {"answer", "rate-limit"}
          /\ job[j].body \in Nat /\ job[j].attempts \in Nat /\ job[j].blind \in BOOLEAN
  <2> SUFFICES ASSUME NEW j \in Jobs, job[j] # Idle
               PROVE  /\ job[j] \in JobRecord
                      /\ job[j].id \in (IF j \in Workers THEN Messages ELSE Clicks)
    BY DEF JobRecord, Kinds
  <2>1. job[j] \in JobRecord
    BY DEF Employed
  <2>2. job[j].phase # "idle"
    BY <2>1 DEF JobRecord, Holding
  <2> QED
    BY <2>1, <2>2 DEF Shape, JobShape
<1>3. Cardinality({j \in Jobs : job[j].phase \in Holding}) <= 1
  <2> DEFINE H == {j \in Jobs : job[j].phase \in Holding}
  <2>1. \A j, k \in H : j = k
    BY DEF Cached, Exclusive
  <2>2. H = {} \/ \E j : H = {j}
    <3> HIDE DEF H
    <3> QED
      BY <2>1
  <2> HIDE DEF H
  <2>3. Cardinality(H) <= 1
    BY <2>2, AtMostOne
  <2> QED
    BY <2>3 DEF H
<1>4. /\ \A item \in sender.batch \cup sender.done :
            item.id \in ReplyIds /\ item.body \in Nat /\ item.attempts \in Nat
      /\ Cardinality(sender.batch) <= BatchSize /\ sender.ok \in BOOLEAN
  BY DEF Batched, Item
<1>5. Cardinality(sender.done) <= 1
  BY AtMostOne DEF Batched
<1>6. \A u \in Users : Len(recent[u]) <= RateLimit /\ recent[u] \in Seq(1..Minute)
  BY DEF Limited, Window
<1>7. (\A m \in chat : m.id \in ReplyIds /\ m.body \in Nat) /\ faults \in 0..MaxFaults
  BY DEF Counted
<1> QED
  BY <1>1, <1>2, <1>3, <1>4, <1>5, <1>6, <1>7 DEF TypeOK

\* TypeOK: the tables and the jobs have their type, one command at a time is
\* between lookup and saving (messageMu), a batch is no larger than its query
\* asks for, and no user has more requests in a minute than allow grants.
THEOREM TypeCorrect == Spec => []TypeOK
<1>1. Typed /\ Shape /\ [Next]_vars => Typed'
  BY TabledStep, EmployedStep, BatchedStep, LimitedStep, CountedStep DEF Typed
<1>2. Shape /\ Cached /\ Typed => TypeOK
  BY TypedIs
<1> QED
  BY <1>1, <1>2, TypedInit, CacheReachable, PTL DEF Spec

=============================================================================
