------------------------------- MODULE Webhooks -------------------------------
(***************************************************************************)
(* Webhooks: the fan-out of committed events into delivery rows and jobs,  *)
(* and the retry ladder that delivers them, run by the scheduler and by    *)
(* manual retries and replays beside it.  Each step is one statement on    *)
(* the database or one request to the endpoint; other tasks and a crash    *)
(* come between any two.                                                   *)
(*                                                                         *)
(* Left out: formats, signatures, latencies, and the wait for a lease or a *)
(* retry to come due, which is Scheduler's.                                *)
(***************************************************************************)
EXTENDS Integers, FiniteSets

CONSTANTS
    Events,       \* events the engine commits
    Deliveries,   \* ids of delivery rows
    NoDelivery,   \* a task that holds none
    Scheduler,    \* the task that runs jobs, one at a time
    Requests,     \* concurrent retry and replay requests
    FanOuts,      \* rows one event may make: matching endpoints, twice each
                  \* when duplicates are injected
    MaxAttempts,  \* the ladder
    Following,    \* the provider stops at an endpoint disabled meanwhile
    MaxManual,    \* bound: manual retries and replays
    MaxCrashes    \* bound: deaths of the process

ASSUME AttemptsAssumption == MaxAttempts \in Nat \ {0}
ASSUME FanOutsAssumption == FanOuts \subseteq Nat
ASSUME TasksAssumption == Scheduler \notin Requests /\ NoDelivery \notin Deliveries
ASSUME WebhookBounds == MaxManual \in Nat /\ MaxCrashes \in Nat

VARIABLES
    publish,   \* where the publication of each event is
    delivery,  \* delivery rows
    jobs,      \* number of webhook.deliver jobs queued for each delivery
    task,      \* where the scheduler and each request is
    enabled,   \* the endpoint is enabled
    tried,     \* history: attempts made for each delivery
    manual,    \* bound: manual retries and replays so far
    crashes    \* bound: deaths so far

vars == <<publish, delivery, jobs, task, enabled, tried, manual, crashes>>

Tasks == {Scheduler} \cup Requests
Verdicts == {"delivered", "retry", "stop"}
Final == {"succeeded", "failed", "exhausted"}

DeliveryRow == [status : {"none", "pending", "delivering"} \cup Final,
                attempt : Nat, maxAttempts : Nat]
TaskRow == [pc : {"idle", "reopen", "read", "mark", "send", "record",
                  "enqueue", "finish"},
            row : Deliveries \cup {NoDelivery},
            attempt : Nat, maxAttempts : Nat,   \* the row as it was read
            verdict : Verdicts]
PublishRow == [pc : {"none", "committed", "fanout", "enqueue", "done", "lost"},
               left : Nat, row : Deliveries \cup {NoDelivery}]

TypeOK ==
    /\ publish \in [Events -> PublishRow]
    /\ delivery \in [Deliveries -> DeliveryRow]
    /\ jobs \in [Deliveries -> Nat]
    /\ task \in [Tasks -> TaskRow]
    /\ enabled \in BOOLEAN
    /\ tried \in [Deliveries -> Nat]
    /\ manual \in 0..MaxManual
    /\ crashes \in 0..MaxCrashes

Idle == [pc |-> "idle", row |-> NoDelivery, attempt |-> 0, maxAttempts |-> 0,
         verdict |-> "retry"]

Init ==
    /\ publish = [e \in Events |->
                    [pc |-> "none", left |-> 0, row |-> NoDelivery]]
    /\ delivery = [d \in Deliveries |->
                     [status |-> "none", attempt |-> 0, maxAttempts |-> 0]]
    /\ jobs = [d \in Deliveries |-> 0]
    /\ task = [w \in Tasks |-> Idle]
    /\ enabled = TRUE
    /\ tried = [d \in Deliveries |-> 0]
    /\ manual = 0
    /\ crashes = 0

-----------------------------------------------------------------------------
NewRow == [status |-> "pending", attempt |-> 0, maxAttempts |-> MaxAttempts]

\* The transaction that changes a resource appends its event.
Commit(e) ==
    /\ publish[e].pc = "none"
    /\ publish' = [publish EXCEPT ![e].pc = "committed"]
    /\ UNCHANGED <<delivery, jobs, task, enabled, tried, manual, crashes>>

\* Afterwards the bus hands it to the dispatcher, which matches endpoints.
OnEvent(e) ==
    /\ publish[e].pc = "committed"
    /\ \E n \in FanOuts :
         publish' = [publish EXCEPT ![e].pc = IF n = 0 THEN "done" ELSE "fanout",
                                    ![e].left = n]
    /\ UNCHANGED <<delivery, jobs, task, enabled, tried, manual, crashes>>

\* #createAndSchedule: the row ...
CreateDelivery(e, d) ==
    /\ publish[e].pc = "fanout"
    /\ delivery[d].status = "none"
    /\ delivery' = [delivery EXCEPT ![d] = NewRow]
    /\ publish' = [publish EXCEPT ![e].pc = "enqueue", ![e].row = d]
    /\ UNCHANGED <<jobs, task, enabled, tried, manual, crashes>>

\* ... and then its first job.
ScheduleDelivery(e) ==
    /\ publish[e].pc = "enqueue"
    /\ jobs' = [jobs EXCEPT ![publish[e].row] = @ + 1]
    /\ publish' = [publish EXCEPT
                     ![e] = [pc   |-> IF @.left = 1 THEN "done" ELSE "fanout",
                             left |-> @.left - 1, row |-> NoDelivery]]
    /\ UNCHANGED <<delivery, task, enabled, tried, manual, crashes>>

-----------------------------------------------------------------------------
\* The scheduler claims a job.
StartJob(d) ==
    /\ task[Scheduler].pc = "idle"
    /\ jobs[d] > 0
    /\ jobs' = [jobs EXCEPT ![d] = @ - 1]
    /\ task' = [task EXCEPT ![Scheduler].pc = "read", ![Scheduler].row = d]
    /\ UNCHANGED <<publish, delivery, enabled, tried, manual, crashes>>

\* Mutant: a refused delivery is taken for an open one
StoppedUnlessRefused(status) == status \in {"succeeded", "exhausted"}

Stopped(status) == status \in Final

\* deliver reads the row and sends nothing for a finished one.
ReadRow(w) ==
    LET row == delivery[task[w].row]
    IN  /\ task[w].pc = "read"
        /\ task' = [task EXCEPT
                      ![w].pc = IF Stopped(row.status) THEN "finish" ELSE "mark",
                      ![w].attempt = row.attempt,
                      ![w].maxAttempts = row.maxAttempts]
        /\ UNCHANGED <<publish, delivery, jobs, enabled, tried, manual, crashes>>

\* A disabled endpoint fails the delivery of a provider that follows it.
MarkDelivering(w) ==
    LET refused == Following /\ ~ enabled
    IN  /\ task[w].pc = "mark"
        /\ delivery' = [delivery EXCEPT ![task[w].row].status =
                           IF refused THEN "failed" ELSE "delivering"]
        /\ task' = [task EXCEPT ![w].pc = IF refused THEN "finish" ELSE "send"]
        /\ UNCHANGED <<publish, jobs, enabled, tried, manual, crashes>>

\* The request, or the outcome forced on it, and what it is taken for
Attempt(w) ==
    /\ task[w].pc = "send"
    /\ tried' = [tried EXCEPT ![task[w].row] = @ + 1]
    /\ \E verdict \in Verdicts :
         task' = [task EXCEPT ![w].pc = "record", ![w].verdict = verdict]
    /\ UNCHANGED <<publish, delivery, jobs, enabled, manual, crashes>>

\* Mutant: one attempt too many
LastAttemptLate(attempt, maxAttempts) == attempt > maxAttempts

LastAttempt(attempt, maxAttempts) == attempt >= maxAttempts

\* #record, from the row as it was read before the request
Record(w) ==
    LET attempt == task[w].attempt + 1
        status  == CASE task[w].verdict = "delivered"  -> "succeeded"
                     [] task[w].verdict = "stop"       -> "failed"
                     [] LastAttempt(attempt, task[w].maxAttempts) -> "exhausted"
                     [] OTHER                          -> "pending"
    IN  /\ task[w].pc = "record"
        /\ delivery' = [delivery EXCEPT ![task[w].row].status = status,
                                        ![task[w].row].attempt = attempt]
        /\ task' = [task EXCEPT ![w].pc = IF status = "pending" THEN "enqueue"
                                          ELSE "finish"]
        /\ UNCHANGED <<publish, jobs, enabled, tried, manual, crashes>>

\* Mutant: a pending delivery without a job
EnqueueNothing(w) ==
    /\ task[w].pc = "enqueue"
    /\ task' = [task EXCEPT ![w].pc = "finish"]
    /\ UNCHANGED <<publish, delivery, jobs, enabled, tried, manual, crashes>>

\* The next attempt's job, or the first of a replayed delivery
EnqueueAttempt(w) ==
    /\ task[w].pc = "enqueue"
    /\ jobs' = [jobs EXCEPT ![task[w].row] = @ + 1]
    /\ task' = [task EXCEPT ![w].pc = "finish"]
    /\ UNCHANGED <<publish, delivery, enabled, tried, manual, crashes>>

\* The scheduler completes the job; a request answers.
Finish(w) ==
    /\ task[w].pc = "finish"
    /\ task' = [task EXCEPT ![w] = Idle]
    /\ UNCHANGED <<publish, delivery, jobs, enabled, tried, manual, crashes>>

-----------------------------------------------------------------------------
\* retryNow reads the row, whatever its status ...
RetryNow(r, d) ==
    /\ manual < MaxManual
    /\ task[r].pc = "idle"
    /\ delivery[d].status # "none"
    /\ manual' = manual + 1
    /\ task' = [task EXCEPT ![r] = [Idle EXCEPT !.pc = "reopen", !.row = d,
                                      !.attempt = delivery[d].attempt,
                                      !.maxAttempts = delivery[d].maxAttempts]]
    /\ UNCHANGED <<publish, delivery, jobs, enabled, tried, crashes>>

\* Mutant: reopens and leaves the delivery to a job
ReopenOnly(r) ==
    /\ task[r].pc = "reopen"
    /\ delivery' = [delivery EXCEPT ![task[r].row].status = "pending"]
    /\ task' = [task EXCEPT ![r].pc = "finish"]
    /\ UNCHANGED <<publish, jobs, enabled, tried, manual, crashes>>

\* ... reopens it with one more attempt, and delivers it at once.
Reopen(r) ==
    LET granted == IF task[r].maxAttempts > task[r].attempt
                   THEN task[r].maxAttempts ELSE task[r].attempt + 1
    IN  /\ task[r].pc = "reopen"
        /\ delivery' = [delivery EXCEPT ![task[r].row].status = "pending",
                                        ![task[r].row].maxAttempts = granted]
        /\ task' = [task EXCEPT ![r].pc = "read"]
        /\ UNCHANGED <<publish, jobs, enabled, tried, manual, crashes>>

\* replay: a new row with the ladder of the old one
Replay(r, d, copy) ==
    /\ manual < MaxManual
    /\ task[r].pc = "idle"
    /\ delivery[d].status # "none" /\ delivery[copy].status = "none"
    /\ manual' = manual + 1
    /\ delivery' = [delivery EXCEPT
                      ![copy] = [NewRow EXCEPT !.maxAttempts = delivery[d].maxAttempts]]
    /\ task' = [task EXCEPT ![r] = [Idle EXCEPT !.pc = "enqueue", !.row = copy]]
    /\ UNCHANGED <<publish, jobs, enabled, tried, crashes>>

ToggleEndpoint ==
    /\ Following
    /\ enabled' = ~ enabled
    /\ UNCHANGED <<publish, delivery, jobs, task, tried, manual, crashes>>

\* The process dies.  The job it was running is queued again once its lease
\* runs out; what it was publishing is not taken up again.
Crash ==
    /\ crashes < MaxCrashes
    /\ crashes' = crashes + 1
    /\ jobs' = [d \in Deliveries |->
                  jobs[d] + (IF task[Scheduler].row = d THEN 1 ELSE 0)]
    /\ task' = [w \in Tasks |-> Idle]
    /\ publish' = [e \in Events |->
                     IF publish[e].pc \in {"committed", "fanout", "enqueue"}
                     THEN [pc |-> "lost", left |-> 0, row |-> NoDelivery]
                     ELSE publish[e]]
    /\ UNCHANGED <<delivery, enabled, tried, manual>>

Publication(e) ==
    OnEvent(e) \/ ScheduleDelivery(e) \/ \E d \in Deliveries : CreateDelivery(e, d)

Step(w) ==
    \/ ReadRow(w)
    \/ MarkDelivering(w)
    \/ Attempt(w)
    \/ Record(w)
    \/ EnqueueAttempt(w)
    \/ Finish(w)
    \/ Reopen(w)

Next ==
    \/ \E e \in Events : Commit(e) \/ Publication(e)
    \/ \E d \in Deliveries : StartJob(d)
    \/ \E w \in Tasks : Step(w)
    \/ \E r \in Requests, d \in Deliveries :
          RetryNow(r, d) \/ \E copy \in Deliveries : Replay(r, d, copy)
    \/ ToggleEndpoint
    \/ Crash

Spec == Init /\ [][Next]_vars

\* The scheduler keeps claiming jobs, oldest first, and what was started goes
\* on: an attempt ends at its timeout at the latest.
Fairness ==
    /\ \A e \in Events : WF_vars(Publication(e))
    /\ \A d \in Deliveries : SF_vars(StartJob(d))
    /\ \A w \in Tasks : WF_vars(Step(w))

FairSpec == Spec /\ Fairness

-----------------------------------------------------------------------------
\* Some task or publication has d in hand.
InHand(d) ==
    \/ \E w \in Tasks : task[w].row = d
    \/ \E e \in Events : publish[e].row = d

\* The ladder is kept: without manual retries, no row is tried more often than its attempts allow,
\* save once per death of the process, however many jobs a death left queued
\* for it (dispatcher.ts #record).  Rows keep their types.
LadderKept ==
    /\ TypeOK
    /\ manual = 0 => \A d \in Deliveries :
         /\ delivery[d].attempt <= delivery[d].maxAttempts
         /\ tried[d] <= delivery[d].maxAttempts + crashes

\* Without manual retries what is final is final: no job left from before
\* sends it again or changes its outcome (dispatcher.ts deliver: "a job left in
\* the queue from before the refusal must not send it again").
FinalIsQuiet ==
    [][\A d \in Deliveries :
          delivery[d].status \in Final /\ manual' = 0
              => tried'[d] = tried[d] /\ delivery'[d] = delivery[d]]_vars

\* No delivery is forgotten: while the process lives, a row that is not final
\* has a job queued or is in some task's hand, whatever manual retries did to
\* it meanwhile.
OpenIsDriven ==
    \A d \in Deliveries :
        delivery[d].status \in {"pending", "delivering"} /\ crashes = 0
            => jobs[d] > 0 \/ InHand(d)

\* A delivery whose job is queued ends, over crashes, retries and endpoints
\* disabled at any moment; so does one retried or replayed by hand, with an
\* answer, in a process that dies no more.
DeliveryEnds ==
    \A d \in Deliveries :
        /\ jobs[d] > 0 ~> delivery[d].status \in Final
        /\ crashes = MaxCrashes /\ (\E r \in Requests : task[r].row = d)
              ~> /\ \A r \in Requests : task[r].row # d
                 /\ delivery[d].status \in Final
=============================================================================
