----------------------------- MODULE Scheduler -----------------------------
(***************************************************************************)
(* The durable job scheduler: a table of jobs on virtual time, the poll    *)
(* and the clock-change drains it serialises, the drain POST /time makes   *)
(* itself, job leases, and a process that may die between any two          *)
(* statements.  A statement on the table is atomic; between two of them    *)
(* any other task of the process may run.                                  *)
(***************************************************************************)
EXTENDS Integers, FiniteSets, Sequences

CONSTANTS
    Jobs,         \* job ids
    Callers,      \* concurrent POST /time requests
    NoTime,       \* null for times
    LeaseMs,      \* how long a claim lasts
    BatchSize,    \* jobs claimed by one tick
    MaxIterations,\* ticks of one drain at most
    MaxAttempts,  \* max_attempts of every job
    Delays,       \* delays work is scheduled with, steps of the clock
    Flowing,      \* virtual time tracks real time (FALSE: frozen clock)
    ReuseIds,     \* ids of rows that ended stand for new rows: work without end
    MaxTime,      \* bound: last instant
    MaxRunAt,     \* bound: last instant work is scheduled for
    MaxCrashes    \* bound: times the process dies

ASSUME LeaseAssumption == LeaseMs \in Nat \ {0}
ASSUME BatchAssumption == BatchSize \in Nat \ {0}
ASSUME IterationsAssumption == MaxIterations \in Nat \ {0}
ASSUME DelaysAssumption == Delays \subseteq Nat
ASSUME JobsAssumption == IsFiniteSet(Jobs) /\ Jobs # {}
ASSUME AttemptsAssumption == MaxAttempts \in Nat \ {0}
ASSUME BoundAssumption ==
    MaxTime \in Nat /\ MaxRunAt \in 0..MaxTime /\ MaxCrashes \in Nat

Serial == "serial"             \* the chain of ticks and drains
Workers == {Serial} \cup Callers
Time == 0..MaxTime
ASSUME NullAssumption == NoTime \notin Time /\ Serial \notin Callers

VARIABLES
    now,       \* the clock's own instant
    override,  \* the scoped instant of at(), or NoTime
    job,       \* the jobs table; status "none" before it is enqueued
    worker,    \* where each task of the process is
    draining,  \* a drain a clock change queued has not started
    crashes,   \* bound: deaths so far
    begun,     \* history: times the handler of each job was entered
    scopes,    \* history: tasks inside at(), in the order they entered
    crossed,   \* history: a scope ended before one opened inside it
    overrun    \* history: jobs whose lease ran out under a batch that holds them

code == <<now, override, job, worker, draining>>
history == <<begun, scopes, crossed, overrun>>
vars == <<code, crashes, history>>

JobStatus == {"none", "ready", "leased", "done", "failed", "cancelled"}
Finished == {"done", "failed", "cancelled"}

JobRow == [status : JobStatus, runAt : Time, sequence : Nat, attempt : Nat,
           lease : Int]      \* 0 for none
\* The row as claimDue returned it
Claimed == [id : Jobs, runAt : Time, attempt : Nat]
WorkerRow == [pc : {"idle", "settling", "tick", "claim", "next", "run", "finish"},
              drain : BOOLEAN,                \* a drain, not a single tick
              left : 0..MaxIterations,        \* ticks left, this one included
              at : Time,                      \* nowISO of the tick, until it claims
              batch : Seq(Claimed),
              saved : Time \cup {NoTime}]     \* override to restore

TypeOK ==
    /\ now \in Time
    /\ override \in Time \cup {NoTime}
    /\ job \in [Jobs -> JobRow]
    /\ worker \in [Workers -> WorkerRow]
    /\ draining \in BOOLEAN
    /\ crashes \in 0..MaxCrashes
    /\ begun \in [Jobs -> Nat]
    /\ scopes \in Seq(Workers)
    /\ crossed \in BOOLEAN
    /\ overrun \subseteq Jobs

Resting == [pc |-> "idle", drain |-> FALSE, left |-> 0, at |-> 0,
            batch |-> <<>>, saved |-> NoTime]

NoRow == [status |-> "none", runAt |-> 0, sequence |-> 0, attempt |-> 0,
          lease |-> 0]

Init ==
    /\ now = 0
    /\ override = NoTime
    /\ job = [j \in Jobs |-> NoRow]
    /\ worker = [w \in Workers |-> Resting]
    /\ draining = FALSE
    /\ crashes = 0
    /\ begun = [j \in Jobs |-> 0]
    /\ scopes = <<>>
    /\ crossed = FALSE
    /\ overrun = {}

-----------------------------------------------------------------------------
\* clock.now(): every reader of the process sees the override of a job
Clock == IF override # NoTime THEN override ELSE now

Highest == CHOOSE n \in {job[j].sequence : j \in Jobs} :
               \A j \in Jobs : job[j].sequence <= n

NextSequence == Highest + 1

CanEnqueue(j, t) == job[j].status = "none" /\ t <= MaxRunAt

\* The table after enqueue(j) at instant t
Enqueued(j, t) ==
    [job EXCEPT ![j] = [status |-> "ready", runAt |-> t, attempt |-> 0,
                        sequence |-> NextSequence, lease |-> 0]]

\* A request schedules work: an expiry, a settlement, a webhook delivery.
Request(j, d) ==
    /\ CanEnqueue(j, Clock + d)
    /\ job' = Enqueued(j, Clock + d)
    /\ UNCHANGED <<now, override, worker, draining, crashes, history>>

\* cancelGroup, when the payment or dispute of the job is settled
CancelGroup(j) ==
    /\ job[j].status \in {"ready", "leased"}
    /\ job' = [job EXCEPT ![j].status = "cancelled", ![j].lease = 0]
    /\ UNCHANGED <<now, override, worker, draining, crashes, history>>

\* A task still has j before it.
Batched(j) == \E w \in Workers : \E i \in DOMAIN worker[w].batch :
                  worker[w].batch[i].id = j

\* There is no end of ids: one whose row ended and is in no task's hands may
\* stand for a new row.  The rows inserted later close up behind it, which
\* keeps their order.
Reuse(j) ==
    /\ ReuseIds
    /\ job[j].status \in Finished /\ ~ Batched(j)
    /\ job' = [k \in Jobs |->
                 IF k = j THEN NoRow
                 ELSE IF job[k].sequence > job[j].sequence
                      THEN [job[k] EXCEPT !.sequence = @ - 1] ELSE job[k]]
    /\ begun' = [begun EXCEPT ![j] = 0]
    /\ overrun' = overrun \ {j}
    /\ UNCHANGED <<now, override, worker, draining, crashes, scopes, crossed>>

\* Real time passes; a frozen clock does not follow it.
Elapse ==
    /\ Flowing
    /\ now < MaxTime
    /\ now' = now + 1
    /\ UNCHANGED <<override, job, worker, draining, crashes, history>>

\* POST /time: move the clock, which queues a drain, then wait for it.
ChangeClock(c, d) ==
    /\ worker[c].pc = "idle"
    /\ now + d <= MaxTime
    /\ now' = now + d
    /\ draining' = TRUE
    /\ worker' = [worker EXCEPT ![c].pc = "settling"]
    /\ UNCHANGED <<override, job, crashes, history>>

\* ... and then drain once more, not through the chain.
Settled(c) ==
    /\ worker[c].pc = "settling"
    /\ ~ draining
    /\ ~ (worker[Serial].pc # "idle" /\ worker[Serial].drain)
    /\ worker' = [worker EXCEPT ![c].pc = "tick", ![c].drain = TRUE,
                                ![c].left = MaxIterations]
    /\ UNCHANGED <<now, override, job, draining, crashes, history>>

-----------------------------------------------------------------------------
\* The chain runs a queued drain, or a poll's tick, once it is free.
StartSerial(drain) ==
    /\ worker[Serial].pc = "idle"
    /\ drain => draining
    /\ draining' = (draining /\ ~ drain)
    /\ worker' = [worker EXCEPT ![Serial].pc = "tick", ![Serial].drain = drain,
                                ![Serial].left = IF drain THEN MaxIterations ELSE 1]
    /\ UNCHANGED <<now, override, job, crashes, history>>

\* Mutant: looks for leases on the wrong rows
ExpiredReady(j) == job[j].status = "ready" /\ job[j].lease < Clock

\* Mutant: takes a lease that has not run out
ExpiredEarly(j) == job[j].status = "leased"

Expired(j) == job[j].status = "leased" /\ job[j].lease < Clock

\* tick: leases that ran out are ready again.
Reclaim(w) ==
    /\ worker[w].pc = "tick"
    /\ job' = [j \in Jobs |->
                 IF Expired(j) THEN [job[j] EXCEPT !.status = "ready", !.lease = 0]
                 ELSE job[j]]
    /\ worker' = [worker EXCEPT ![w].pc = "claim", ![w].at = Clock]
    /\ overrun' = overrun \cup
                     {j \in Jobs : Expired(j) /\ job[j].lease < now /\ Batched(j)}
    /\ UNCHANGED <<now, override, draining, crashes, begun, scopes, crossed>>

\* Mutant: claims jobs that are not due yet
DueEver(t) == {j \in Jobs : job[j].status = "ready"}

\* Mutant: claims what another batch has leased
DueLeased(t) == {j \in Jobs : job[j].status \in {"ready", "leased"} /\ job[j].runAt <= t}

\* The ready jobs due at t
Due(t) == {j \in Jobs : job[j].status = "ready" /\ job[j].runAt <= t}

\* ORDER BY run_at, sequence
Before(a, b) ==
    \/ job[a].runAt < job[b].runAt
    \/ job[a].runAt = job[b].runAt /\ job[a].sequence < job[b].sequence

\* order lists the first of the due jobs.
Firsts(due, order) ==
    /\ \A i, k \in DOMAIN order :
          i < k => order[i] # order[k] /\ ~ Before(order[k], order[i])
    /\ \A j \in due : (\A i \in DOMAIN order : order[i] # j)
                        => \A i \in DOMAIN order : ~ Before(j, order[i])

\* A tick that finds no job ends, and so does its drain.
FoundNone(w) == Resting

Lease(order) ==
    [j \in Jobs |->
        IF \E i \in DOMAIN order : order[i] = j
        THEN [job[j] EXCEPT !.status = "leased", !.lease = Clock + LeaseMs]
        ELSE job[j]]

Batch(order) ==
    [i \in DOMAIN order |-> [id |-> order[i], runAt |-> job[order[i]].runAt,
                             attempt |-> job[order[i]].attempt]]

\* claimDue: lease the first of the due jobs, in one transaction.
Claim(w) ==
    LET due == Due(worker[w].at)
        n   == IF Cardinality(due) < BatchSize THEN Cardinality(due) ELSE BatchSize
    IN  /\ worker[w].pc = "claim"
        /\ \E order \in [1..n -> due] :
              /\ Firsts(due, order)
              /\ job' = Lease(order)
              /\ worker' = [worker EXCEPT ![w] =
                              IF n = 0 THEN FoundNone(w)
                              ELSE [@ EXCEPT !.pc = "next", !.at = 0,
                                             !.batch = Batch(order)]]
        /\ UNCHANGED <<now, override, draining, crashes, history>>

\* The next job of the batch, at its own instant, whatever its row now says
Begin(w) ==
    LET next == Head(worker[w].batch)
    IN  /\ worker[w].pc = "next"
        /\ override' = next.runAt
        /\ worker' = [worker EXCEPT ![w].pc = "run", ![w].saved = override]
        /\ begun' = [begun EXCEPT ![next.id] = @ + 1]
        /\ scopes' = IF crossed THEN scopes ELSE Append(scopes, w)
        /\ UNCHANGED <<now, job, draining, crashes, crossed, overrun>>

\* The handler does its work, which may schedule more.
Handle(w) ==
    /\ worker[w].pc = "run"
    /\ worker' = [worker EXCEPT ![w].pc = "finish"]
    /\ \/ UNCHANGED job
       \/ \E j \in Jobs, d \in Delays :
             CanEnqueue(j, Clock + d) /\ job' = Enqueued(j, Clock + d)
    /\ UNCHANGED <<now, override, draining, crashes, history>>

\* Mutant: the ticks of a drain are not counted
RoundsLeftSame(w) == IF worker[w].drain THEN worker[w].left ELSE 0

\* The ticks a drain may make after this one; a single tick makes none.
RoundsLeft(w) == worker[w].left - 1

\* The batch after its first job; a drain ticks again after the last one,
\* until its iterations are used up.
Advanced(w) ==
    LET rest == Tail(worker[w].batch)
    IN  IF rest # <<>>
        THEN [worker[w] EXCEPT !.pc = "next", !.batch = rest, !.saved = NoTime]
        ELSE IF RoundsLeft(w) > 0
             THEN [Resting EXCEPT !.pc = "tick", !.drain = worker[w].drain,
                                  !.left = RoundsLeft(w)]
             ELSE Resting

\* Mutant: one attempt too many
ExhaustedLate(attempt) == attempt >= MaxAttempts

Exhausted(attempt) == attempt + 1 >= MaxAttempts

\* Mutant: a scope drops the override it found
RestoredNone(w) == NoTime

\* at() puts back the override it found.
Restored(w) == worker[w].saved

\* What the end of w's scope does to the order of scopes
Leave(w) ==
    LET last == scopes # <<>> /\ scopes[Len(scopes)] = w
    IN  /\ scopes' = IF last THEN SubSeq(scopes, 1, Len(scopes) - 1) ELSE <<>>
        /\ crossed' = (crossed \/ ~ last)

\* complete, or fail or reschedule a handler that threw or asked for a
\* retry: each writes the row by id, whatever its status has become.
Finish(w, ok, delay) ==
    LET next == Head(worker[w].batch)
        row  == CASE ok -> [job[next.id] EXCEPT !.status = "done", !.lease = 0]
                  [] ~ ok /\ Exhausted(next.attempt) ->
                        [job[next.id] EXCEPT !.status = "failed", !.lease = 0]
                  [] OTHER -> [job[next.id] EXCEPT
                                 !.status = "ready", !.runAt = Clock + delay,
                                 !.attempt = @ + 1, !.lease = 0]
    IN  /\ worker[w].pc = "finish"
        /\ ~ ok => Clock + delay <= MaxRunAt
        /\ job' = [job EXCEPT ![next.id] = row]
        /\ override' = Restored(w)
        /\ worker' = [worker EXCEPT ![w] = Advanced(w)]
        /\ Leave(w)
        /\ UNCHANGED <<now, draining, crashes, begun, overrun>>

\* The process dies and starts again on the same database: the rows and the
\* recorded clock survive, the tasks and the override do not.  The bound
\* leaves time for the leases it held to run out.
Crash ==
    /\ crashes < MaxCrashes
    /\ \A j \in Jobs : job[j].status = "leased" => job[j].lease < MaxTime
    /\ crashes' = crashes + 1
    /\ worker' = [w \in Workers |-> Resting]
    /\ override' = NoTime
    /\ draining' = FALSE
    /\ scopes' = <<>> /\ crossed' = FALSE /\ overrun' = {}
    /\ UNCHANGED <<now, job, begun>>

Step(w) ==
    \/ Reclaim(w)
    \/ Claim(w)
    \/ Begin(w)
    \/ Handle(w)
    \/ \E delay \in Delays : Finish(w, TRUE, delay) \/ Finish(w, FALSE, delay)

Next ==
    \/ \E j \in Jobs, d \in Delays : Request(j, d)
    \/ \E j \in Jobs : CancelGroup(j) \/ Reuse(j)
    \/ Elapse
    \/ \E c \in Callers, d \in Delays : ChangeClock(c, d)
    \/ \E c \in Callers : Settled(c)
    \/ \E drain \in BOOLEAN : StartSerial(drain)
    \/ \E w \in Workers : Step(w)
    \/ Crash

Spec == Init /\ [][Next]_vars

\* The poll timer keeps ticking, a task that started goes on, a queued drain
\* starts, and real time passes.  Requests, cancellations and crashes may
\* never come.
Fairness ==
    /\ WF_vars(Elapse)
    /\ WF_vars(StartSerial(FALSE))
    /\ SF_vars(StartSerial(TRUE))
    /\ \A w \in Workers : WF_vars(Step(w))
    /\ \A c \in Callers : SF_vars(Settled(c))

FairSpec == Spec /\ Fairness

-----------------------------------------------------------------------------
Running(w) == worker[w].pc \in {"run", "finish"}
Current(w) == Head(worker[w].batch)

\* No job runs before it is due, and none sees an instant still to come
\* (scheduler.ts tick, clock.ts at).  The tables keep their types meanwhile.
NeverEarly ==
    /\ TypeOK
    /\ \A w \in Workers : Running(w) => Current(w).runAt <= now
    /\ override # NoTime => override <= now

\* A claim is exclusive, whoever drains beside the poll: a job in the batch of
\* a task is in no other batch and is not up for claiming, unless its lease
\* ran out, by the clock's own instant, while a batch still held it
\* (storage.ts claimDue, reclaimExpiredLeases).
ClaimIsExclusive ==
    \A w \in Workers : \A i \in DOMAIN worker[w].batch :
        LET j == worker[w].batch[i].id
        IN  j \notin overrun =>
              /\ job[j].status # "ready"
              /\ \A v \in Workers : \A k \in DOMAIN worker[v].batch :
                    worker[v].batch[k].id = j => v = w /\ k = i

\* The handler of a job is entered once per attempt, and once more per death
\* of the process at most: leases re-run work a crash cut short, nothing else.
RunsOncePerCrash ==
    \A j \in Jobs : begun[j] <= MaxAttempts + crashes

\* at() is a scoped view of time, with several scopes open at once: the
\* process reads the instant of the job whose scope was opened last, and the
\* clock's own once none is open (clock.ts at).  A scope that ends before one
\* opened inside it ends this until the process is started again.
ScopedClock ==
    ~ crossed =>
        override = IF scopes = <<>> THEN NoTime
                   ELSE Current(scopes[Len(scopes)]).runAt

\* What ended stays so, though complete, fail and reschedule write by id
\* whatever the row has become: what completed or ran out of attempts, unless
\* its lease had run out under a batch; and what was cancelled, unless a batch
\* had taken it before (storage.ts complete, reschedule, fail, cancelGroup).
FinishedIsFinal ==
    [][\A j \in Jobs :
          /\ job[j].status \in Finished
          /\ job'[j].status \notin {job[j].status, "none"}
          => j \in overrun \/ (job[j].status = "cancelled" /\ Batched(j))]_vars

\* Every job that was enqueued ends, over crashes, retries and cancellations.
EveryJobEnds ==
    \A j \in Jobs : job[j].status \in {"ready", "leased"} ~> job[j].status \in Finished

\* A poll or a drain that started comes to an end, though handlers may enqueue
\* due work for ever: no drain keeps POST /time, or the chain behind it,
\* waiting (scheduler.ts drain).
DrainsEnd ==
    \A w \in Workers : worker[w].pc # "idle" ~> worker[w].pc = "idle"
=============================================================================
