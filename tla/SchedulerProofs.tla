-------------------------- MODULE SchedulerProofs --------------------------
(***************************************************************************)
(* Proofs about Scheduler, for any set of jobs, batches and leases of any  *)
(* length, and any number of requests draining beside the chain of ticks;  *)
(* only the count of a job's runs is proved of the chain alone.            *)
(***************************************************************************)
EXTENDS Scheduler, FiniteSetTheorems, WellFoundedInduction, TLAPS

-----------------------------------------------------------------------------
(***************************************************************************)
(* Columns of naturals.  The library's induction theorems take an operator *)
(* parameter, which no installed prover instantiates; the induction is     *)
(* done by hand instead, on the least counterexample of a set of naturals. *)
(***************************************************************************)

(***************************************************************************)
(* A non-empty set of naturals has a least member.                         *)
(***************************************************************************)
LEMMA LeastNatural ==
    ASSUME NEW T \in SUBSET Nat, T # {}
    PROVE  \E m \in T : \A k \in T : m <= k
<1> DEFINE R == {ss \in Nat \X Nat : ss[1] < ss[2]}
<1>1. IsWellFoundedOn(R, Nat)
    BY NatLessThanWellFounded, Zenon DEF OpToRel
<1> HIDE DEF R
<1>2. PICK m \in T : \A k \in T : ~ (<<k, m>> \in R)
    BY <1>1, WFMin, Zenon
<1>3. \A k \in T : ~ (k < m)
    BY <1>2 DEF R
<1>4. QED
    BY <1>3

(***************************************************************************)
(* A column of naturals is bounded.                                        *)
(***************************************************************************)
LEMMA ColumnBound ==
    ASSUME NEW n \in Nat, NEW f \in [1..n -> Nat]
    PROVE  \E b \in Nat : \A i \in 1..n : f[i] <= b
<1> DEFINE Bounded(k) == \E b \in Nat : \A i \in 1..k : f[i] <= b
           Bad == {k \in Nat : k <= n /\ ~ Bounded(k)}
<1>1. SUFFICES ASSUME Bad # {}
               PROVE  FALSE
    <2>1. n \in Bad \/ Bounded(n)
        OBVIOUS
    <2>2. QED
        BY <2>1
<1>2. PICK m \in Bad : \A k \in Bad : m <= k
    BY <1>1, LeastNatural
<1>3. m # 0
    <2>1. 0 \in Nat /\ \A i \in 1..0 : f[i] <= 0
        OBVIOUS
    <2>2. Bounded(0)
        BY <2>1
    <2> HIDE DEF Bounded
    <2>3. QED
        BY <1>2, <2>2
<1>4. m \in 1..n /\ m - 1 \in Nat /\ Bounded(m - 1)
    <2> HIDE DEF Bounded
    <2>1. m \in Nat /\ m <= n /\ m > 0
        BY <1>2, <1>3
    <2>2. m - 1 \in Nat /\ m - 1 <= n /\ m - 1 < m
        BY <2>1
    <2>3. m - 1 \notin Bad
        BY <1>2, <2>2
    <2> QED
        BY <2>1, <2>2, <2>3
<1>5. PICK b \in Nat : \A i \in 1..(m-1) : f[i] <= b
    BY <1>4
<1>6. Bounded(m)
    <2>1. f[m] \in Nat /\ b + f[m] \in Nat
        BY <1>4, <1>5
    <2>2. ASSUME NEW i \in 1..m
          PROVE  f[i] <= b + f[m]
        <3>1. i = m \/ i \in 1..(m-1)
            BY <1>4
        <3>2. f[i] \in Nat
            BY <1>4
        <3> QED
            BY <1>5, <2>1, <3>1, <3>2
    <2> QED
        BY <2>1, <2>2
<1> QED
    BY <1>2, <1>6

-----------------------------------------------------------------------------
(***************************************************************************)
(* The highest sequence in the table exists: enqueue numbers a job with a  *)
(* natural number.                                                         *)
(***************************************************************************)
LEMMA HighestIsNatural ==
    ASSUME job \in [Jobs -> JobRow]
    PROVE  Highest \in Nat
<1> DEFINE S == {job[j].sequence : j \in Jobs}
           Bounds == {b \in Nat : \A j \in Jobs : job[j].sequence <= b}
<1>1. \A j \in Jobs : job[j].sequence \in Nat
    BY DEF JobRow
<1>2. PICK k \in Nat : ExistsSurjection(1..k, Jobs)
    BY JobsAssumption, FS_NatSurjection
<1>3. PICK f \in [1..k -> Jobs] : \A j \in Jobs : \E i \in 1..k : f[i] = j
    BY <1>2 DEF ExistsSurjection, Surjection
<1> DEFINE column == [i \in 1..k |-> job[f[i]].sequence]
<1>4. column \in [1..k -> Nat]
    BY <1>1, <1>3
<1>5. PICK bound \in Nat : \A i \in 1..k : column[i] <= bound
    <2> HIDE DEF column
    <2> QED
        BY <1>4, ColumnBound
<1>6. bound \in Bounds
    <2>1. ASSUME NEW j \in Jobs
          PROVE  job[j].sequence <= bound
        <3>1. PICK i \in 1..k : f[i] = j
            BY <1>3
        <3>2. column[i] = job[j].sequence
            BY <3>1
        <3> HIDE DEF column
        <3> QED
            BY <3>2, <1>5
    <2> HIDE DEF column
    <2> QED
        BY <2>1, <1>5
<1>7. PICK m \in Bounds : \A b \in Bounds : m <= b
    BY <1>6, LeastNatural
<1>8. \E j \in Jobs : job[j].sequence = m
    <2>1. SUFFICES ASSUME \A j \in Jobs : job[j].sequence # m
                   PROVE  FALSE
        OBVIOUS
    <2>2. \A j \in Jobs : job[j].sequence <= m - 1
        BY <1>1, <1>7, <2>1
    <2>3. PICK j \in Jobs : TRUE
        BY JobsAssumption
    <2>4. m \in Nat /\ job[j].sequence \in Nat /\ job[j].sequence <= m - 1
        BY <1>1, <1>7, <2>2
    <2>5. m - 1 \in Nat
        BY <2>4
    <2>6. m - 1 \in Bounds
        BY <2>2, <2>5
    <2>7. m <= m - 1
        BY <1>7, <2>6
    <2> QED
        BY <2>4, <2>7
<1>9. m \in S /\ \A j \in Jobs : job[j].sequence <= m
    BY <1>7, <1>8
<1>10. Highest \in S
    BY <1>9 DEF Highest
<1> QED
    BY <1>1, <1>10

(***************************************************************************)
(* The instant the process reads is one of the clock's, and work is        *)
(* enqueued as a row of the table.                                         *)
(***************************************************************************)
LEMMA ClockIsTime ==
    ASSUME TypeOK
    PROVE  Clock \in Time
BY DEF TypeOK, Clock

\* The table with one more job is a table.
LEMMA EnqueuedIsTable ==
    ASSUME TypeOK, NEW j \in Jobs, NEW d \in Delays, CanEnqueue(j, Clock + d)
    PROVE  Enqueued(j, Clock + d) \in [Jobs -> JobRow]
<1>1. Highest + 1 \in Nat
    BY HighestIsNatural DEF TypeOK
<1>2. Clock + d \in Time
    BY ClockIsTime, DelaysAssumption, BoundAssumption DEF CanEnqueue, Time
<1> DEFINE row == [status |-> "ready", runAt |-> Clock + d, attempt |-> 0,
                   sequence |-> Highest + 1, lease |-> 0]
<1>3. row \in JobRow
    BY <1>1, <1>2 DEF JobRow, JobStatus
<1>4. Enqueued(j, Clock + d) = [job EXCEPT ![j] = row]
    BY DEF Enqueued, NextSequence
<1> HIDE DEF row
<1> QED
    BY <1>3, <1>4 DEF TypeOK

(***************************************************************************)
(* What a claim takes: a sequence of jobs that were ready and due.         *)
(***************************************************************************)
LEMMA BatchIsClaimed ==
    ASSUME TypeOK, NEW w \in Workers, NEW n \in Nat,
           NEW order \in [1..n -> Due(worker[w].at)]
    PROVE  /\ Batch(order) \in Seq(Claimed)
           /\ DOMAIN Batch(order) = 1..n
           /\ Lease(order) \in [Jobs -> JobRow]
           /\ \A i \in 1..n : /\ Batch(order)[i] \in Claimed
                              /\ Batch(order)[i].runAt <= worker[w].at
<1>1. \A i \in 1..n : order[i] \in Jobs /\ job[order[i]].runAt <= worker[w].at
    BY DEF Due
<1>2. Batch(order) \in [1..n -> Claimed]
    BY <1>1 DEF Batch, Claimed, TypeOK, JobRow
<1>3. Clock + LeaseMs \in Int
    BY ClockIsTime, LeaseAssumption, BoundAssumption DEF Time
<1>4. Lease(order) \in [Jobs -> JobRow]
    BY ZenonT(60), <1>3 DEF Lease, TypeOK, JobRow, JobStatus
<1>5. \A i \in 1..n : Batch(order)[i].runAt <= worker[w].at
    BY <1>1 DEF Batch
<1> QED
    BY <1>2, <1>4, <1>5 DEF Batch

\* No worker, no row of a batch and no saved instant is ahead of t, and a
\* worker between a claim and the end of its batch has a job in hand.
Sound(r, t) ==
    /\ r.at <= t
    /\ r.saved # NoTime => r.saved <= t
    /\ \A i \in DOMAIN r.batch : r.batch[i].runAt <= t
    /\ r.pc \in {"next", "run", "finish"} => r.batch # <<>>

NotAhead ==
    /\ override # NoTime => override <= now
    /\ \A w \in Workers : Sound(worker[w], now)

ClockInv == TypeOK /\ NotAhead

(***************************************************************************)
(* What is left of a batch is a part of it.                                *)
(***************************************************************************)
LEMMA RestOfBatch ==
    ASSUME NEW batch \in Seq(Claimed), batch # <<>>
    PROVE  /\ Head(batch) \in Claimed
           /\ Head(batch) = batch[1] /\ 1 \in DOMAIN batch
           /\ Tail(batch) \in Seq(Claimed)
           /\ \A i \in DOMAIN Tail(batch) :
                 i + 1 \in DOMAIN batch /\ Tail(batch)[i] = batch[i+1]
<1>1. Len(batch) \in Nat \ {0} /\ DOMAIN batch = 1..Len(batch)
    OBVIOUS
<1>2. Head(batch) = batch[1] /\ batch[1] \in Claimed /\ 1 \in DOMAIN batch
    BY <1>1
<1>3. Tail(batch) \in Seq(Claimed) /\ DOMAIN Tail(batch) = 1..(Len(batch) - 1)
    BY <1>1
<1>4. \A i \in 1..(Len(batch) - 1) : Tail(batch)[i] = batch[i+1]
    BY <1>1
<1> QED
    BY <1>1, <1>2, <1>3, <1>4

(***************************************************************************)
(* A worker at rest is a worker.                                           *)
(***************************************************************************)
LEMMA RestingIsWorker == Resting \in WorkerRow
BY BoundAssumption, IterationsAssumption DEF Resting, WorkerRow, Time

(***************************************************************************)
(* What was sound stays so as the clock advances.                          *)
(***************************************************************************)
LEMMA SoundLater ==
    ASSUME NEW t \in Time, NEW u \in Time, t <= u, NEW r \in WorkerRow, Sound(r, t)
    PROVE  Sound(r, u)
<1>1. \A x \in Time : x <= t => x <= u
    BY BoundAssumption DEF Time
<1>2. r.at \in Time /\ r.saved \in Time \cup {NoTime} /\ r.batch \in Seq(Claimed)
    BY DEF WorkerRow
<1>3. \A i \in DOMAIN r.batch : r.batch[i].runAt \in Time
    <2>1. \A i \in DOMAIN r.batch : r.batch[i] \in Claimed
        BY <1>2
    <2> QED
        BY <2>1 DEF Claimed
<1>4. r.at <= u
    BY <1>1, <1>2 DEF Sound
<1>5. r.saved # NoTime => r.saved <= u
    BY <1>1, <1>2 DEF Sound
<1>6. \A i \in DOMAIN r.batch : r.batch[i].runAt <= u
    BY <1>1, <1>3 DEF Sound
<1> QED
    BY <1>4, <1>5, <1>6 DEF Sound

(***************************************************************************)
(* The clock's invariant holds at the start.                               *)
(***************************************************************************)
LEMMA ClockInit == Init => ClockInv
<1> SUFFICES ASSUME Init
             PROVE  ClockInv
    OBVIOUS
<1>1. worker \in [Workers -> WorkerRow]
    BY RestingIsWorker DEF Init
<1>2. job \in [Jobs -> JobRow]
    BY BoundAssumption DEF Init, NoRow, JobRow, JobStatus, Time
<1>3. now \in Time /\ crashes \in 0..MaxCrashes /\ begun \in [Jobs -> Nat]
    BY BoundAssumption DEF Init, Time
<1>4. TypeOK
    <2>1. <<>> \in Seq(Workers)
        OBVIOUS
    <2> QED
        BY <1>1, <1>2, <1>3, <2>1 DEF Init, TypeOK
<1>5. \A w \in Workers : worker[w] = Resting
    BY DEF Init
<1>6. Sound(Resting, 0)
    BY DEF Sound, Resting
<1>7. now = 0 /\ override = NoTime
    BY DEF Init
<1>8. \A w \in Workers : Sound(worker[w], now)
    BY <1>5, <1>6, <1>7
<1> QED
    BY <1>4, <1>7, <1>8 DEF ClockInv, NotAhead

(***************************************************************************)
(* What the invariant says of one worker and of the clock, spelled out.    *)
(***************************************************************************)
LEMMA WorkerIsSound ==
    ASSUME ClockInv, NEW w \in Workers
    PROVE  /\ worker[w] \in WorkerRow
           /\ worker[w].batch \in Seq(Claimed)
           /\ Sound(worker[w], now)
BY DEF ClockInv, TypeOK, NotAhead, WorkerRow

\* What it says of the clock and the table.
LEMMA ClockIsSound ==
    ASSUME ClockInv
    PROVE  /\ Clock \in Time /\ Clock <= now
           /\ now \in Time /\ now <= now
           /\ override \in Time \cup {NoTime}
           /\ override # NoTime => override <= now
           /\ job \in [Jobs -> JobRow] /\ begun \in [Jobs -> Nat]
           /\ draining \in BOOLEAN
<1>1. Clock \in Time
    BY ClockIsTime DEF ClockInv
<1>2. Clock <= now /\ now <= now
    BY DEF Clock, ClockInv, TypeOK, NotAhead, Time
<1> QED
    BY <1>1, <1>2 DEF ClockInv, TypeOK, NotAhead

\* What a run leaves behind for the properties
HistoryOK ==
    scopes \in Seq(Workers) /\ crossed \in BOOLEAN /\ overrun \subseteq Jobs

(***************************************************************************)
(* Every step keeps the types of the history.                              *)
(***************************************************************************)
LEMMA HistoryTyped ==
    ASSUME ClockInv, [Next]_vars
    PROVE  HistoryOK'
<1>1. HistoryOK
    BY DEF ClockInv, TypeOK, HistoryOK
<1>2. CASE UNCHANGED history \/ UNCHANGED vars
    BY <1>1, <1>2 DEF HistoryOK, history, vars
<1>3. ASSUME NEW j \in Jobs, Reuse(j)
      PROVE  HistoryOK'
    BY <1>1, <1>3 DEF HistoryOK, Reuse
<1>4. ASSUME NEW w \in Workers, Reclaim(w)
      PROVE  HistoryOK'
    BY <1>1, <1>4 DEF HistoryOK, Reclaim
<1>5. ASSUME NEW w \in Workers, Begin(w)
      PROVE  HistoryOK'
    BY <1>1, <1>5 DEF HistoryOK, Begin
<1>6. ASSUME NEW w \in Workers, Leave(w), overrun' = overrun
      PROVE  HistoryOK'
    <2>1. scopes # <<>> => SubSeq(scopes, 1, Len(scopes) - 1) \in Seq(Workers)
        BY <1>1 DEF HistoryOK
    <2> QED
        BY <1>1, <1>6, <2>1 DEF HistoryOK, Leave
<1>7. CASE Crash
    <2>1. <<>> \in Seq(Workers)
        OBVIOUS
    <2> QED
        BY <1>7, <2>1 DEF HistoryOK, Crash
<1>8. ASSUME NEW w \in Workers, Step(w)
      PROVE  HistoryOK'
    BY <1>2, <1>4, <1>5, <1>6, <1>8 DEF Step, Claim, Handle, Finish
<1> QED
    BY <1>2, <1>3, <1>7, <1>8
       DEF Next, Request, CancelGroup, Elapse, ChangeClock, Settled, StartSerial

(***************************************************************************)
(* A step that leaves the workers alone keeps the clock's invariant when   *)
(* it keeps the table's type and does not turn the clock back.             *)
(***************************************************************************)
LEMMA ClockTable ==
    ASSUME ClockInv, job' \in [Jobs -> JobRow], now' \in Time, now <= now',
           UNCHANGED <<override, worker, draining, crashes>>,
           begun' \in [Jobs -> Nat], HistoryOK'
    PROVE  ClockInv'
<1>1. TypeOK'
    BY DEF ClockInv, TypeOK, HistoryOK
<1>2. ASSUME NEW w \in Workers
      PROVE  Sound(worker[w], now')
    BY WorkerIsSound, ClockIsSound, SoundLater
<1>3. override # NoTime => override <= now'
    BY ClockIsSound, BoundAssumption DEF Time
<1> QED
    BY <1>1, <1>2, <1>3 DEF ClockInv, NotAhead

(***************************************************************************)
(* A step that puts one worker into a sound state keeps it, too.           *)
(***************************************************************************)
LEMMA ClockWorker ==
    ASSUME ClockInv, NEW w \in Workers, NEW r \in WorkerRow, Sound(r, now),
           worker' = [worker EXCEPT ![w] = r],
           now' \in Time, now <= now', crashes' = crashes,
           override' \in Time \cup {NoTime}, draining' \in BOOLEAN,
           override' # NoTime => override' <= now,
           job' \in [Jobs -> JobRow], begun' \in [Jobs -> Nat], HistoryOK'
    PROVE  ClockInv'
<1>1. TypeOK'
    BY DEF ClockInv, TypeOK, HistoryOK
<1>2. ASSUME NEW v \in Workers
      PROVE  Sound(worker'[v], now')
    <2>1. worker'[v] = IF v = w THEN r ELSE worker[v]
        BY DEF ClockInv, TypeOK
    <2>2. worker'[v] \in WorkerRow /\ Sound(worker'[v], now)
        BY <2>1, WorkerIsSound
    <2> QED
        BY <2>2, ClockIsSound, SoundLater
<1>3. override' # NoTime => override' <= now'
    BY ClockIsSound, BoundAssumption DEF Time
<1> QED
    BY <1>1, <1>2, <1>3 DEF ClockInv, NotAhead

(***************************************************************************)
(* A worker keeps its batch and what it saved, or starts afresh.           *)
(***************************************************************************)
LEMMA MovedIsSound ==
    ASSUME ClockInv, NEW w \in Workers, NEW d \in BOOLEAN,
           NEW t \in Time, t <= now, NEW n \in 0..MaxIterations,
           NEW p \in {"settling", "tick", "claim"}
    PROVE  LET r == [worker[w] EXCEPT !.pc = p, !.drain = d, !.at = t, !.left = n]
           IN  r \in WorkerRow /\ Sound(r, now)
<1>1. worker[w] \in WorkerRow /\ Sound(worker[w], now)
    BY WorkerIsSound
<1> DEFINE r == [worker[w] EXCEPT !.pc = p, !.drain = d, !.at = t, !.left = n]
<1>2. r \in WorkerRow
    BY <1>1 DEF WorkerRow
<1>3. r.pc = p /\ r.at = t /\ r.saved = worker[w].saved /\ r.batch = worker[w].batch
    BY <1>1 DEF WorkerRow
<1> HIDE DEF r
<1>4. Sound(r, now)
    BY <1>1, <1>3 DEF Sound
<1> QED
    BY <1>2, <1>4 DEF r

(***************************************************************************)
(* A worker that has nothing in hand is sound, and so is one that goes on  *)
(* to the next job of its batch or to its next tick.                       *)
(***************************************************************************)
LEMMA RestingIsSound == ClockInv => Sound(Resting, now)
<1> SUFFICES ASSUME ClockInv
             PROVE  Sound(Resting, now)
    OBVIOUS
<1>1. 0 <= now
    BY ClockIsSound DEF Time
<1> QED
    BY <1>1 DEF Resting, Sound

\* The worker after the job at the head of its batch
LEMMA AdvancedIsSound ==
    ASSUME ClockInv, NEW w \in Workers, worker[w].batch # <<>>
    PROVE  Advanced(w) \in WorkerRow /\ Sound(Advanced(w), now)
<1> DEFINE rest == Tail(worker[w].batch)
           r == [worker[w] EXCEPT !.pc = "next", !.batch = rest, !.saved = NoTime]
           again == [Resting EXCEPT !.pc = "tick", !.drain = worker[w].drain,
                                    !.left = RoundsLeft(w)]
<1>1. /\ worker[w] \in WorkerRow /\ Sound(worker[w], now)
      /\ worker[w].batch \in Seq(Claimed)
    BY WorkerIsSound
<1>2. /\ rest \in Seq(Claimed)
      /\ \A i \in DOMAIN rest : i + 1 \in DOMAIN worker[w].batch
                               /\ rest[i] = worker[w].batch[i+1]
    BY <1>1, RestOfBatch
<1>3. CASE rest # <<>>
    <2>1. Advanced(w) = r
        BY <1>3 DEF Advanced
    <2>2. r \in WorkerRow
        BY <1>1, <1>2 DEF WorkerRow
    <2>3. /\ r.pc = "next" /\ r.at = worker[w].at /\ r.saved = NoTime
          /\ r.batch = rest
        BY <1>1 DEF WorkerRow
    <2>4. \A i \in DOMAIN rest : rest[i].runAt <= now
        BY <1>1, <1>2 DEF Sound
    <2> HIDE DEF r, rest
    <2>5. Sound(r, now)
        BY <1>1, <1>3, <2>3, <2>4 DEF Sound
    <2> QED
        BY <2>1, <2>2, <2>5
<1>4. CASE rest = <<>>
    <2>1. Advanced(w) = Resting \/ (Advanced(w) = again /\ RoundsLeft(w) > 0)
        BY <1>4 DEF Advanced
    <2>2. RoundsLeft(w) > 0 => again \in WorkerRow /\ Sound(again, now)
        <3>0. worker[w].drain \in BOOLEAN /\ worker[w].left \in 0..MaxIterations
            BY <1>1 DEF WorkerRow
        <3>1. RoundsLeft(w) > 0 => again \in WorkerRow
            <4>1. RoundsLeft(w) > 0 => RoundsLeft(w) \in 0..MaxIterations
                BY <3>0, IterationsAssumption DEF RoundsLeft
            <4> QED
                BY <3>0, <4>1, RestingIsWorker DEF WorkerRow, Resting
        <3>2. 0 <= now
            BY ClockIsSound DEF Time
        <3> QED
            BY <3>1, <3>2 DEF Resting, Sound
    <2> HIDE DEF again
    <2> QED
        BY <2>1, <2>2, RestingIsWorker, RestingIsSound
<1> QED
    BY <1>3, <1>4

(***************************************************************************)
(* A row given another status and no lease is a row of the table.          *)
(***************************************************************************)
LEMMA ReleasedIsRow ==
    ASSUME NEW old \in JobRow, NEW s \in JobStatus
    PROVE  [old EXCEPT !.status = s, !.lease = 0] \in JobRow
<1> DEFINE changed == [old EXCEPT !.status = s]
<1>1. changed \in JobRow
    BY DEF JobRow
<1>2. [changed EXCEPT !.lease = 0] \in JobRow
    <2> HIDE DEF changed
    <2> QED
        BY <1>1 DEF JobRow
<1> QED
    BY <1>2

(***************************************************************************)
(* A job put back for another attempt is a row of the table, and the end   *)
(* of a job writes one row.                                                *)
(***************************************************************************)
LEMMA RetriedIsRow ==
    ASSUME NEW old \in JobRow, NEW t \in Time
    PROVE  [old EXCEPT !.status = "ready", !.runAt = t, !.attempt = @ + 1, !.lease = 0]
               \in JobRow
<1> DEFINE started == [old EXCEPT !.status = "ready"]
           timed   == [started EXCEPT !.runAt = t]
<1>1. started \in JobRow
    BY DEF JobRow, JobStatus
<1>2. timed \in JobRow
    <2> HIDE DEF started
    <2> QED
        BY <1>1 DEF JobRow
<1> DEFINE counted == [timed EXCEPT !.attempt = @ + 1]
<1>3. counted \in JobRow
    <2> HIDE DEF timed
    <2> QED
        BY <1>2 DEF JobRow
<1>4. [counted EXCEPT !.lease = 0] \in JobRow
    <2> HIDE DEF counted
    <2> QED
        BY <1>3 DEF JobRow
<1> QED
    BY <1>4

\* The table after complete, fail or reschedule
LEMMA FinishIsTable ==
    ASSUME ClockInv, NEW w \in Workers, NEW ok \in BOOLEAN, NEW delay \in Delays,
           worker[w].batch # <<>>, Finish(w, ok, delay)
    PROVE  job' \in [Jobs -> JobRow]
<1> DEFINE next == Head(worker[w].batch)
           row  == CASE ok -> [job[next.id] EXCEPT !.status = "done", !.lease = 0]
                     [] ~ ok /\ Exhausted(next.attempt) ->
                           [job[next.id] EXCEPT !.status = "failed", !.lease = 0]
                     [] OTHER -> [job[next.id] EXCEPT
                                    !.status = "ready", !.runAt = Clock + delay,
                                    !.attempt = @ + 1, !.lease = 0]
<1>1. next \in Claimed
    BY WorkerIsSound, RestOfBatch
<1>2. next.id \in Jobs /\ job[next.id] \in JobRow
    BY <1>1, ClockIsSound DEF Claimed
<1>3. ~ ok => Clock + delay \in Time
    <2>1. ~ ok => Clock + delay <= MaxRunAt
        BY DEF Finish
    <2>2. Clock \in 0..MaxTime /\ delay \in Nat /\ MaxTime \in Nat /\ MaxRunAt \in 0..MaxTime
        BY ClockIsSound, DelaysAssumption, BoundAssumption DEF Time
    <2> QED
        BY <2>1, <2>2 DEF Time
<1>4. CASE ok
    <2>1. row = [job[next.id] EXCEPT !.status = "done", !.lease = 0]
        BY <1>4
    <2>2. row \in JobRow
        BY <1>2, <2>1, ReleasedIsRow DEF JobStatus
    <2>3. job' = [job EXCEPT ![next.id] = row]
        BY DEF Finish
    <2> HIDE DEF row, next
    <2> QED
        BY <2>2, <2>3, ClockIsSound
<1>5. CASE ~ ok /\ Exhausted(next.attempt)
    <2>1. row = [job[next.id] EXCEPT !.status = "failed", !.lease = 0]
        BY <1>5
    <2>2. row \in JobRow
        BY <1>2, <2>1, ReleasedIsRow DEF JobStatus
    <2>3. job' = [job EXCEPT ![next.id] = row]
        BY DEF Finish
    <2> HIDE DEF row, next
    <2> QED
        BY <2>2, <2>3, ClockIsSound
<1>6. CASE ~ ok /\ ~ Exhausted(next.attempt)
    <2>1. row = [job[next.id] EXCEPT !.status = "ready", !.runAt = Clock + delay,
                                     !.attempt = @ + 1, !.lease = 0]
        BY <1>6
    <2>2. row \in JobRow
        BY <1>2, <1>3, <1>6, <2>1, RetriedIsRow
    <2>3. job' = [job EXCEPT ![next.id] = row]
        BY DEF Finish
    <2> HIDE DEF row, next
    <2> QED
        BY <2>2, <2>3, ClockIsSound
<1> QED
    BY <1>4, <1>5, <1>6

(***************************************************************************)
(* A table one of whose ids stands for a new row is a table.               *)
(***************************************************************************)
LEMMA ReusedIsTable ==
    ASSUME job \in [Jobs -> JobRow], begun \in [Jobs -> Nat], NEW j \in Jobs, Reuse(j)
    PROVE  job' \in [Jobs -> JobRow] /\ begun' \in [Jobs -> Nat]
<1>1. NoRow \in JobRow
    BY BoundAssumption DEF NoRow, JobRow, JobStatus, Time
<1>2. ASSUME NEW k \in Jobs, job[k].sequence > job[j].sequence
      PROVE  [job[k] EXCEPT !.sequence = @ - 1] \in JobRow
    <2>1. job[k].sequence \in Nat /\ job[j].sequence \in Nat
        BY DEF JobRow
    <2>2. job[k].sequence - 1 \in Nat
        BY <1>2, <2>1
    <2> QED
        BY <2>2 DEF JobRow
<1>3. begun' \in [Jobs -> Nat]
    BY DEF Reuse
<1> QED
    BY <1>1, <1>2, <1>3 DEF Reuse

(***************************************************************************)
(* Every step keeps the clock's invariant: a job is claimed when it is due *)
(* by the clock its tick read, and an override is the instant of a claimed *)
(* job or one saved before.                                                *)
(***************************************************************************)
LEMMA ClockStep == ClockInv /\ [Next]_vars => ClockInv'
<1> SUFFICES ASSUME ClockInv, [Next]_vars
             PROVE  ClockInv'
    OBVIOUS
<1> USE ClockIsSound
<1>0. HistoryOK'
    BY HistoryTyped
<1> USE DEF history
<1>1. ASSUME NEW j \in Jobs, NEW d \in Delays, Request(j, d)
      PROVE  ClockInv'
    BY <1>1, EnqueuedIsTable, <1>0, ClockTable DEF Request, ClockInv
<1>2. ASSUME NEW j \in Jobs, CancelGroup(j)
      PROVE  ClockInv'
    <2>1. job' \in [Jobs -> JobRow]
        <3> DEFINE gone == [job[j] EXCEPT !.status = "cancelled", !.lease = 0]
        <3>1. gone \in JobRow
            BY ReleasedIsRow DEF JobStatus
        <3>2. job' = [job EXCEPT ![j] = gone]
            BY <1>2 DEF CancelGroup
        <3> HIDE DEF gone
        <3> QED
            BY <3>1, <3>2
    <2> QED
        BY <1>2, <2>1, <1>0, ClockTable DEF CancelGroup
<1>3. CASE Elapse
    <2>1. now' \in Time /\ now <= now'
        BY <1>3, BoundAssumption DEF Elapse, Time
    <2> QED
        BY <1>3, <2>1, <1>0, ClockTable DEF Elapse
<1>4. ASSUME NEW c \in Callers, NEW d \in Delays, ChangeClock(c, d)
      PROVE  ClockInv'
    <2> DEFINE r == [worker[c] EXCEPT !.pc = "settling", !.drain = worker[c].drain,
                                      !.at = worker[c].at, !.left = worker[c].left]
    <2>1. c \in Workers /\ worker[c] \in WorkerRow /\ Sound(worker[c], now)
        BY WorkerIsSound DEF Workers
    <2>2. /\ worker[c].drain \in BOOLEAN /\ worker[c].at \in Time /\ worker[c].at <= now
          /\ worker[c].left \in 0..MaxIterations
        BY <2>1 DEF WorkerRow, Sound
    <2>3. r \in WorkerRow /\ Sound(r, now)
        BY <2>1, <2>2, MovedIsSound
    <2>4. worker' = [worker EXCEPT ![c] = r]
        BY <1>4, <2>1 DEF ChangeClock, WorkerRow
    <2>5. now' \in Time /\ now <= now'
        BY <1>4, DelaysAssumption, BoundAssumption DEF ChangeClock, Time
    <2> HIDE DEF r
    <2> QED
        BY <1>4, <2>1, <2>3, <2>4, <2>5, <1>0, ClockWorker DEF ChangeClock
<1>5. ASSUME NEW c \in Callers, Settled(c)
      PROVE  ClockInv'
    <2> DEFINE r == [worker[c] EXCEPT !.pc = "tick", !.drain = TRUE, !.at = worker[c].at,
                                      !.left = MaxIterations]
    <2>1. c \in Workers /\ worker[c] \in WorkerRow /\ Sound(worker[c], now)
        BY WorkerIsSound DEF Workers
    <2>2. worker[c].at \in Time /\ worker[c].at <= now
        BY <2>1 DEF WorkerRow, Sound
    <2>3. r \in WorkerRow /\ Sound(r, now)
        <3>1. MaxIterations \in 0..MaxIterations
            BY IterationsAssumption
        <3> QED
            BY <2>1, <2>2, <3>1, MovedIsSound
    <2>4. worker' = [worker EXCEPT ![c] = r]
        BY <1>5, <2>1 DEF Settled, WorkerRow
    <2> HIDE DEF r
    <2> QED
        BY <1>5, <2>1, <2>3, <2>4, <1>0, ClockWorker DEF Settled
<1>6. ASSUME NEW drain \in BOOLEAN, StartSerial(drain)
      PROVE  ClockInv'
    <2> DEFINE n == IF drain THEN MaxIterations ELSE 1
               r == [worker[Serial] EXCEPT !.pc = "tick", !.drain = drain,
                                           !.at = worker[Serial].at, !.left = n]
    <2>1. Serial \in Workers
          /\ worker[Serial] \in WorkerRow /\ Sound(worker[Serial], now)
        BY WorkerIsSound DEF Workers
    <2>2. worker[Serial].at \in Time /\ worker[Serial].at <= now
        BY <2>1 DEF WorkerRow, Sound
    <2>3. r \in WorkerRow /\ Sound(r, now)
        <3>1. n \in 0..MaxIterations
            BY IterationsAssumption
        <3> HIDE DEF n
        <3> QED
            BY <2>1, <2>2, <3>1, MovedIsSound
    <2>4. worker' = [worker EXCEPT ![Serial] = r]
        BY <1>6, <2>1 DEF StartSerial, WorkerRow
    <2>5. draining' \in BOOLEAN
        BY <1>6 DEF StartSerial
    <2> HIDE DEF r
    <2> QED
        BY <1>6, <2>1, <2>3, <2>4, <2>5, <1>0, ClockWorker DEF StartSerial
<1>7. ASSUME NEW w \in Workers, Reclaim(w)
      PROVE  ClockInv'
    <2> DEFINE r == [worker[w] EXCEPT !.pc = "claim", !.drain = worker[w].drain, !.at = Clock,
                                      !.left = worker[w].left]
    <2>1. /\ worker[w] \in WorkerRow /\ worker[w].drain \in BOOLEAN
          /\ worker[w].left \in 0..MaxIterations
        BY WorkerIsSound DEF WorkerRow
    <2>2. r \in WorkerRow /\ Sound(r, now)
        BY <2>1, MovedIsSound
    <2>3. worker' = [worker EXCEPT ![w] = r]
        BY <1>7, <2>1 DEF Reclaim, WorkerRow
    <2>4. job' \in [Jobs -> JobRow]
        <3>1. \A j \in Jobs : [job[j] EXCEPT !.status = "ready", !.lease = 0] \in JobRow
            BY ReleasedIsRow DEF JobStatus
        <3> QED
            BY <1>7, <3>1 DEF Reclaim
    <2> HIDE DEF r
    <2> QED
        BY <1>7, <2>2, <2>3, <2>4, <1>0, ClockWorker DEF Reclaim
<1>8. ASSUME NEW w \in Workers, Claim(w)
      PROVE  ClockInv'
    <2> DEFINE due == Due(worker[w].at)
               n == IF Cardinality(due) < BatchSize THEN Cardinality(due) ELSE BatchSize
    <2>1. n \in Nat
        BY JobsAssumption, BatchAssumption, FS_Subset, FS_CardinalityType DEF Due
    <2>2. PICK order \in [1..n -> due] :
             /\ job' = Lease(order)
             /\ worker' = [worker EXCEPT ![w] =
                             IF n = 0 THEN FoundNone(w)
                             ELSE [@ EXCEPT !.pc = "next", !.at = 0, !.batch = Batch(order)]]
        BY <1>8 DEF Claim
    <2> HIDE DEF n
    <2>3. /\ Batch(order) \in Seq(Claimed)
          /\ DOMAIN Batch(order) = 1..n
          /\ job' \in [Jobs -> JobRow]
          /\ \A i \in 1..n : /\ Batch(order)[i] \in Claimed
                             /\ Batch(order)[i].runAt <= worker[w].at
        BY <2>1, <2>2, BatchIsClaimed DEF ClockInv
    <2>4. worker[w] \in WorkerRow /\ Sound(worker[w], now)
        BY WorkerIsSound
    <2>5. UNCHANGED <<now, override, draining, crashes, begun>>
        BY <1>8 DEF Claim
    <2>6. CASE n = 0
        <3>1. worker' = [worker EXCEPT ![w] = Resting]
            BY <2>2, <2>6 DEF FoundNone
        <3> QED
            BY <2>3, <2>5, <3>1, RestingIsWorker, RestingIsSound, <1>0, ClockWorker
    <2>7. CASE n # 0
        <3> DEFINE r == [worker[w] EXCEPT !.pc = "next", !.at = 0, !.batch = Batch(order)]
        <3>1. worker' = [worker EXCEPT ![w] = r]
            BY <2>2, <2>4, <2>7 DEF ClockInv, TypeOK
        <3>2. r \in WorkerRow
            <4> DEFINE going   == [worker[w] EXCEPT !.pc = "next"]
                       started == [going EXCEPT !.at = 0]
            <4>1. going \in WorkerRow
                BY <2>4 DEF WorkerRow
            <4>2. started \in WorkerRow
                <5>1. 0 \in Time
                    BY BoundAssumption DEF Time
                <5> HIDE DEF going
                <5> QED
                    BY <4>1, <5>1 DEF WorkerRow
            <4>3. r = [started EXCEPT !.batch = Batch(order)]
                OBVIOUS
            <4> HIDE DEF started, r
            <4> QED
                BY <2>3, <4>2, <4>3 DEF WorkerRow
        <3>3. /\ r.pc = "next" /\ r.at = 0 /\ r.saved = worker[w].saved
              /\ r.batch = Batch(order)
            BY <2>4 DEF WorkerRow
        <3>4. worker[w].at \in Time /\ worker[w].at <= now
            BY <2>4 DEF WorkerRow, Sound
        <3>5. \A i \in 1..n : Batch(order)[i].runAt \in Time
            BY <2>3 DEF Claimed
        <3>6. \A i \in 1..n : Batch(order)[i].runAt <= now
            BY <2>3, <3>4, <3>5, BoundAssumption DEF Time
        <3>7. Batch(order) # <<>>
            BY <2>1, <2>3, <2>7
        <3>9. 0 <= now
            BY DEF Time
        <3> HIDE DEF r
        <3>8. Sound(r, now)
            BY <2>3, <2>4, <3>3, <3>6, <3>7, <3>9 DEF Sound
        <3> QED
            BY <2>3, <2>5, <3>1, <3>2, <3>8, <1>0, ClockWorker
    <2> QED
        BY <2>6, <2>7
<1>9. ASSUME NEW w \in Workers, Begin(w)
      PROVE  ClockInv'
    <2> DEFINE next == Head(worker[w].batch)
               r == [worker[w] EXCEPT !.pc = "run", !.saved = override]
    <2>1. /\ worker[w] \in WorkerRow /\ Sound(worker[w], now)
          /\ worker[w].batch \in Seq(Claimed)
        BY WorkerIsSound
    <2>2. worker[w].batch # <<>>
        BY <1>9, <2>1 DEF Begin, Sound
    <2>3. next \in Claimed /\ next = worker[w].batch[1] /\ 1 \in DOMAIN worker[w].batch
        BY <2>1, <2>2, RestOfBatch
    <2>4. next.id \in Jobs /\ next.runAt \in Time /\ next.runAt <= now
        BY <2>1, <2>3 DEF Claimed, Sound
    <2>5. worker' = [worker EXCEPT ![w] = r] /\ r \in WorkerRow
        BY <1>9, <2>1 DEF Begin, WorkerRow
    <2>6. /\ r.pc = "run" /\ r.at = worker[w].at /\ r.saved = override
          /\ r.batch = worker[w].batch
        BY <2>1 DEF WorkerRow
    <2>7. override' = next.runAt /\ begun' \in [Jobs -> Nat]
        BY <1>9, <2>4 DEF Begin
    <2> HIDE DEF r, next
    <2>8. Sound(r, now)
        BY <2>1, <2>2, <2>6 DEF Sound
    <2> QED
        BY <1>9, <2>4, <2>5, <2>7, <2>8, <1>0, ClockWorker DEF Begin
<1>10. ASSUME NEW w \in Workers, Handle(w)
       PROVE  ClockInv'
    <2> DEFINE r == [worker[w] EXCEPT !.pc = "finish"]
    <2>1. worker[w] \in WorkerRow /\ Sound(worker[w], now)
        BY WorkerIsSound
    <2>2. worker' = [worker EXCEPT ![w] = r] /\ r \in WorkerRow
        BY <1>10, <2>1 DEF Handle, WorkerRow
    <2>3. /\ r.pc = "finish" /\ r.at = worker[w].at /\ r.saved = worker[w].saved
          /\ r.batch = worker[w].batch
        BY <2>1 DEF WorkerRow
    <2>4. worker[w].batch # <<>>
        BY <1>10, <2>1 DEF Handle, Sound
    <2>5. job' \in [Jobs -> JobRow]
        BY <1>10, EnqueuedIsTable DEF Handle, ClockInv
    <2> HIDE DEF r
    <2>6. Sound(r, now)
        BY <2>1, <2>3, <2>4 DEF Sound
    <2> QED
        BY <1>10, <2>2, <2>5, <2>6, <1>0, ClockWorker DEF Handle
<1>11. ASSUME NEW w \in Workers, NEW ok \in BOOLEAN, NEW delay \in Delays,
              Finish(w, ok, delay)
       PROVE  ClockInv'
    <2>1. /\ worker[w] \in WorkerRow /\ Sound(worker[w], now)
          /\ worker[w].batch \in Seq(Claimed)
        BY WorkerIsSound
    <2>2. worker[w].batch # <<>>
        BY <1>11, <2>1 DEF Finish, Sound
    <2>3. Advanced(w) \in WorkerRow /\ Sound(Advanced(w), now)
        BY <2>1, <2>2, AdvancedIsSound
    <2>4. job' \in [Jobs -> JobRow]
        BY <1>11, <2>1, <2>2, FinishIsTable
    <2>5. /\ worker' = [worker EXCEPT ![w] = Advanced(w)]
          /\ override' = worker[w].saved
          /\ UNCHANGED <<now, draining, crashes, begun>>
        BY <1>11 DEF Finish, Restored
    <2>6. /\ worker[w].saved \in Time \cup {NoTime}
          /\ worker[w].saved # NoTime => worker[w].saved <= now
        BY <2>1 DEF WorkerRow, Sound
    <2> QED
        BY <2>3, <2>4, <2>5, <2>6, <1>0, ClockWorker
<1>12. CASE Crash
    <2>1. TypeOK'
        <3>1. worker' \in [Workers -> WorkerRow]
            BY <1>12, RestingIsWorker DEF Crash
        <3>2. crashes' \in 0..MaxCrashes
            BY <1>12, BoundAssumption DEF Crash, ClockInv, TypeOK
        <3> QED
            BY <1>0, <1>12, <3>1, <3>2 DEF Crash, ClockInv, TypeOK, HistoryOK
    <2>2. \A w \in Workers : worker'[w] = Resting
        BY <1>12 DEF Crash
    <2>3. now' = now /\ override' = NoTime
        BY <1>12 DEF Crash
    <2>4. \A w \in Workers : Sound(worker'[w], now')
        BY <2>2, <2>3, RestingIsSound
    <2> QED
        BY <2>1, <2>3, <2>4 DEF ClockInv, NotAhead
<1>13. CASE UNCHANGED vars
    BY <1>13 DEF vars, code, ClockInv, TypeOK, NotAhead
<1>14. ASSUME NEW j \in Jobs, Reuse(j)
       PROVE  ClockInv'
    BY <1>0, <1>14, ReusedIsTable, ClockTable DEF Reuse, ClockInv, TypeOK
<1> QED
    BY <1>1, <1>2, <1>3, <1>4, <1>5, <1>6, <1>7, <1>8, <1>9, <1>10, <1>11,
       <1>12, <1>13, <1>14 DEF Next, Step

(***************************************************************************)
(* No job runs before it is due, and none sees an instant still to come,   *)
(* whoever drains the table and however often the process dies             *)
(* (scheduler.ts tick, clock.ts at).                                       *)
(***************************************************************************)
THEOREM NothingRunsEarly == Spec => []NeverEarly
<1>1. ClockInv => NeverEarly
    <2> SUFFICES ASSUME ClockInv
                 PROVE  NeverEarly
        OBVIOUS
    <2>1. ASSUME NEW w \in Workers, Running(w)
          PROVE  Current(w).runAt <= now
        <3>1. Sound(worker[w], now) /\ worker[w].batch \in Seq(Claimed)
            BY WorkerIsSound
        <3>2. worker[w].batch # <<>>
            BY <2>1, <3>1 DEF Running, Sound
        <3>3. Current(w) = worker[w].batch[1] /\ 1 \in DOMAIN worker[w].batch
            BY <3>1, <3>2, RestOfBatch DEF Current
        <3> QED
            BY <3>1, <3>3 DEF Sound
    <2> QED
        BY <2>1, ClockIsSound DEF NeverEarly, ClockInv
<1> QED
    BY <1>1, ClockInit, ClockStep, PTL DEF Spec

-----------------------------------------------------------------------------
\* A worker has a batch only while it works on it.
BatchShape ==
    \A w \in Workers : worker[w].batch # <<>> => worker[w].pc \in {"next", "run", "finish"}

\* The i-th job of w's batch is in no other place, and its row is as the claim
\* left it but for a cancellation, unless its lease ran out meanwhile.
Alone(w, i) ==
    LET j == worker[w].batch[i].id
    IN  j \notin overrun =>
          /\ job[j].status \in {"leased", "cancelled"}
          /\ \A v \in Workers : \A k \in DOMAIN worker[v].batch :
                worker[v].batch[k].id = j => v = w /\ k = i

ClaimInv ==
    /\ ClockInv
    /\ BatchShape
    /\ \A w \in Workers : \A i \in DOMAIN worker[w].batch : Alone(w, i)

(***************************************************************************)
(* The rows a batch holds are jobs.                                        *)
(***************************************************************************)
LEMMA BatchesHoldJobs ==
    ASSUME ClockInv, NEW w \in Workers, NEW i \in DOMAIN worker[w].batch
    PROVE  worker[w].batch[i].id \in Jobs /\ Batched(worker[w].batch[i].id)
<1>1. worker[w].batch \in Seq(Claimed)
    BY WorkerIsSound
<1>2. worker[w].batch[i] \in Claimed
    BY <1>1
<1> QED
    BY <1>2 DEF Claimed, Batched

(***************************************************************************)
(* A step that moves no job between batches keeps claims exclusive when it *)
(* leaves the rows in hand alone, or cancels them, or finds their lease    *)
(* run out.                                                                *)
(***************************************************************************)
LEMMA ClaimKept ==
    ASSUME ClaimInv, ClockInv', BatchShape',
           \A v \in Workers : worker'[v].batch = worker[v].batch,
           \A j \in Jobs : Batched(j) /\ j \notin overrun' =>
              j \notin overrun /\ job'[j].status \in {job[j].status, "cancelled"}
    PROVE  ClaimInv'
<1>1. ASSUME NEW w \in Workers, NEW i \in DOMAIN worker'[w].batch
      PROVE  Alone(w, i)'
    <2> DEFINE j == worker[w].batch[i].id
    <2>1. worker'[w].batch = worker[w].batch /\ i \in DOMAIN worker[w].batch
        BY <1>1
    <2>2. j \in Jobs /\ Batched(j)
        BY <2>1, BatchesHoldJobs DEF ClaimInv
    <2>3. Alone(w, i)
        BY <2>1 DEF ClaimInv
    <2>4. SUFFICES ASSUME j \notin overrun'
                   PROVE  /\ job'[j].status \in {"leased", "cancelled"}
                          /\ \A v \in Workers : \A k \in DOMAIN worker'[v].batch :
                                worker'[v].batch[k].id = j => v = w /\ k = i
        BY <2>1 DEF Alone
    <2>5. j \notin overrun /\ job'[j].status \in {job[j].status, "cancelled"}
        BY <2>2, <2>4
    <2>6. /\ job[j].status \in {"leased", "cancelled"}
          /\ \A v \in Workers : \A k \in DOMAIN worker[v].batch :
                worker[v].batch[k].id = j => v = w /\ k = i
        BY <2>3, <2>5 DEF Alone
    <2> HIDE DEF j
    <2> QED
        BY <2>5, <2>6
<1> QED
    BY <1>1 DEF ClaimInv

(***************************************************************************)
(* A worker that holds no batch stays out of the way.                      *)
(***************************************************************************)
LEMMA IdleHoldsNothing ==
    ASSUME ClaimInv, NEW w \in Workers, worker[w].pc \notin {"next", "run", "finish"}
    PROVE  worker[w].batch = <<>>
BY DEF ClaimInv, BatchShape

(***************************************************************************)
(* A claim takes ready rows, which no batch holds, and each of them once.  *)
(***************************************************************************)
LEMMA ClaimOfClaim ==
    ASSUME ClaimInv, ClockInv', NEW w \in Workers, Claim(w)
    PROVE  ClaimInv'
<1> DEFINE due == Due(worker[w].at)
           n == IF Cardinality(due) < BatchSize THEN Cardinality(due) ELSE BatchSize
<1>1. PICK order \in [1..n -> due] :
         /\ Firsts(due, order)
         /\ job' = Lease(order)
         /\ worker' = [worker EXCEPT ![w] =
                         IF n = 0 THEN FoundNone(w)
                         ELSE [@ EXCEPT !.pc = "next", !.at = 0, !.batch = Batch(order)]]
    BY DEF Claim
<1>2. n \in Nat
    BY JobsAssumption, BatchAssumption, FS_Subset, FS_CardinalityType DEF Due
<1>3. \A i \in 1..n : order[i] \in Jobs /\ job[order[i]].status = "ready"
    BY <1>1 DEF Due
<1>4. /\ DOMAIN Batch(order) = 1..n
      /\ \A i \in 1..n : Batch(order)[i].id = order[i]
    BY <1>1 DEF Batch
<1>5. \A i, k \in 1..n : order[i] = order[k] => i = k
    BY <1>1, <1>2 DEF Firsts
<1>6. overrun' = overrun
    BY DEF Claim, history
<1>7. worker \in [Workers -> WorkerRow] /\ job \in [Jobs -> JobRow]
    BY DEF ClaimInv, ClockInv, TypeOK
<1>8. worker[w].batch = <<>>
    BY IdleHoldsNothing DEF Claim
<1> HIDE DEF n
<1>9. /\ worker'[w].batch = <<>> \/ (worker'[w].batch = Batch(order) /\ worker'[w].pc = "next")
      /\ \A v \in Workers : v # w => worker'[v] = worker[v]
    <2>1. CASE n = 0
        BY <1>1, <1>7, <2>1 DEF FoundNone, Resting
    <2>2. CASE n # 0
        <3>1. worker'[w] = [worker[w] EXCEPT !.pc = "next", !.at = 0, !.batch = Batch(order)]
            BY <1>1, <1>7, <2>2
        <3> QED
            BY <1>1, <1>7, <2>2, <3>1 DEF WorkerRow
    <2> QED
        BY <2>1, <2>2
<1>10. BatchShape'
    BY <1>9 DEF ClaimInv, BatchShape
<1>11. \A j \in Jobs : \/ \E i \in 1..n : order[i] = j /\ job'[j].status = "leased"
                       \/ job'[j] = job[j] /\ \A i \in 1..n : order[i] # j
    <2> SUFFICES ASSUME NEW j \in Jobs
                 PROVE  \/ \E i \in 1..n : order[i] = j /\ job'[j].status = "leased"
                        \/ job'[j] = job[j] /\ \A i \in 1..n : order[i] # j
        OBVIOUS
    <2>1. CASE \E i \in 1..n : order[i] = j
        <3>1. job'[j] = [job[j] EXCEPT !.status = "leased", !.lease = Clock + LeaseMs]
            BY <1>1, <2>1 DEF Lease
        <3>2. job'[j].status = "leased"
            BY <1>7, <3>1 DEF JobRow
        <3> QED
            BY <2>1, <3>2
    <2>2. CASE \A i \in 1..n : order[i] # j
        BY <1>1, <2>2 DEF Lease
    <2> QED
        BY <2>1, <2>2
<1>12. ASSUME NEW v \in Workers, v # w, NEW k \in DOMAIN worker[v].batch,
              worker[v].batch[k].id \notin overrun
       PROVE  /\ \A i \in 1..n : order[i] # worker[v].batch[k].id
              /\ job'[worker[v].batch[k].id].status \in {"leased", "cancelled"}
    <2>1. job[worker[v].batch[k].id].status \in {"leased", "cancelled"}
        BY <1>12 DEF ClaimInv, Alone
    <2>2. worker[v].batch[k].id \in Jobs
        BY BatchesHoldJobs DEF ClaimInv
    <2> QED
        BY <1>3, <1>11, <2>1, <2>2
<1>13. ASSUME NEW i \in DOMAIN worker'[w].batch
       PROVE  /\ worker'[w].batch = Batch(order) /\ i \in 1..n
              /\ worker'[w].batch[i].id = order[i]
    <2>1. worker'[w].batch # <<>>
        BY <1>13
    <2>2. worker'[w].batch = Batch(order)
        BY <1>9, <2>1
    <2> QED
        BY <1>4, <1>13, <2>2
<1>14. ASSUME NEW v \in Workers, NEW i \in DOMAIN worker'[v].batch
       PROVE  Alone(v, i)'
    <2> DEFINE j == worker'[v].batch[i].id
    <2>1. SUFFICES ASSUME j \notin overrun
                   PROVE  /\ job'[j].status \in {"leased", "cancelled"}
                          /\ \A u \in Workers : \A k \in DOMAIN worker'[u].batch :
                                worker'[u].batch[k].id = j => u = v /\ k = i
        BY <1>6 DEF Alone
    <2>2. CASE v = w
        <3>1. worker'[w].batch = Batch(order) /\ i \in 1..n /\ j = order[i]
            BY <1>13, <1>14, <2>2
        <3>2. job'[j].status = "leased"
            BY <1>3, <1>11, <3>1
        <3>3. ASSUME NEW u \in Workers, NEW k \in DOMAIN worker'[u].batch,
                     worker'[u].batch[k].id = j
              PROVE  u = v /\ k = i
            <4>1. CASE u = w
                <5>1. k \in 1..n /\ order[k] = order[i]
                    BY <1>4, <3>1, <3>3, <4>1
                <5> QED
                    BY <1>5, <2>2, <3>1, <4>1, <5>1
            <4>2. CASE u # w
                <5>1. k \in DOMAIN worker[u].batch /\ worker[u].batch[k].id = j
                    BY <1>9, <3>3, <4>2
                <5> QED
                    BY <1>12, <2>1, <3>1, <4>2, <5>1
            <4> QED
                BY <4>1, <4>2
        <3> QED
            BY <3>2, <3>3
    <2>3. CASE v # w
        <3>1. worker'[v] = worker[v] /\ i \in DOMAIN worker[v].batch
            BY <1>9, <1>14, <2>3
        <3>2. j = worker[v].batch[i].id
            BY <3>1
        <3>3. \A u \in Workers : \A k \in DOMAIN worker[u].batch :
                 worker[u].batch[k].id = j => u = v /\ k = i
            BY <2>1, <3>1, <3>2 DEF ClaimInv, Alone
        <3>4. ASSUME NEW u \in Workers, NEW k \in DOMAIN worker'[u].batch,
                     worker'[u].batch[k].id = j
              PROVE  u = v /\ k = i
            <4>1. CASE u = w
                <5>1. worker'[w].batch = Batch(order) /\ k \in 1..n /\ order[k] = j
                    BY <1>13, <3>4, <4>1
                <5> QED
                    BY <1>12, <2>1, <2>3, <3>1, <3>2, <5>1
            <4>2. CASE u # w
                BY <1>9, <3>3, <3>4, <4>2
            <4> QED
                BY <4>1, <4>2
        <3> QED
            BY <1>12, <2>1, <2>3, <3>1, <3>2, <3>4
    <2> QED
        BY <2>2, <2>3
<1> QED
    BY <1>10, <1>14 DEF ClaimInv

(***************************************************************************)
(* The end of a job writes its row alone, which only its own batch held,   *)
(* and takes it from that batch.                                           *)
(***************************************************************************)
LEMMA ClaimOfFinish ==
    ASSUME ClaimInv, ClockInv', NEW w \in Workers, NEW ok \in BOOLEAN, NEW delay \in Delays,
           Finish(w, ok, delay)
    PROVE  ClaimInv'
<1> DEFINE batch == worker[w].batch
           next == Head(batch)
           rest == Tail(batch)
<1>1. batch \in Seq(Claimed) /\ batch # <<>>
    BY WorkerIsSound DEF Finish, ClaimInv, Sound
<1>2. /\ next = batch[1] /\ 1 \in DOMAIN batch
      /\ \A i \in DOMAIN rest : i + 1 \in DOMAIN batch /\ rest[i] = batch[i+1]
      /\ DOMAIN rest \subseteq Nat \ {0}
    BY <1>1, RestOfBatch
<1>3. PICK row : job' = [job EXCEPT ![next.id] = row]
    BY DEF Finish
<1>4. overrun' = overrun /\ worker' = [worker EXCEPT ![w] = Advanced(w)]
    BY DEF Finish
<1>5. worker \in [Workers -> WorkerRow] /\ job \in [Jobs -> JobRow]
    BY DEF ClaimInv, ClockInv, TypeOK
<1>6. /\ worker'[w].batch = <<>> \/ (worker'[w].batch = rest /\ worker'[w].pc = "next")
      /\ \A v \in Workers : v # w => worker'[v] = worker[v]
    <2>1. worker'[w] = Advanced(w) /\ \A v \in Workers : v # w => worker'[v] = worker[v]
        BY <1>4, <1>5
    <2>2. CASE rest # <<>>
        <3>1. Advanced(w) = [worker[w] EXCEPT !.pc = "next", !.batch = rest, !.saved = NoTime]
            BY <2>2 DEF Advanced
        <3>2. Advanced(w).batch = rest /\ Advanced(w).pc = "next"
            BY <1>5, <3>1 DEF WorkerRow
        <3> QED
            BY <2>1, <3>2
    <2>3. CASE rest = <<>>
        <3> DEFINE again == [Resting EXCEPT !.pc = "tick", !.drain = worker[w].drain,
                                            !.left = RoundsLeft(w)]
        <3>1. Advanced(w) = Resting \/ Advanced(w) = again
            BY <2>3 DEF Advanced
        <3>2. Resting.batch = <<>> /\ again.batch = <<>>
            BY DEF Resting
        <3> HIDE DEF again
        <3>3. Advanced(w).batch = <<>>
            BY <3>1, <3>2
        <3> QED
            BY <2>1, <3>3
    <2> QED
        BY <2>2, <2>3
<1>7. BatchShape'
    BY <1>6 DEF ClaimInv, BatchShape
<1>8. \A j \in Jobs : j # next.id => job'[j] = job[j]
    BY <1>3, <1>5
<1>9. \A i \in DOMAIN batch : Alone(w, i) /\ batch[i].id \in Jobs
    BY BatchesHoldJobs DEF ClaimInv
<1> HIDE DEF next, rest
\* Where a place of a batch of the new state was before
<1> DEFINE Place(v, i) == IF v = w THEN i + 1 ELSE i
<1>10. ASSUME NEW v \in Workers, NEW i \in DOMAIN worker'[v].batch
       PROVE  /\ Place(v, i) \in DOMAIN worker[v].batch
              /\ worker'[v].batch[i] = worker[v].batch[Place(v, i)]
              /\ v = w => i \in Nat \ {0}
    <2>1. CASE v = w
        <3>1. worker'[w].batch = rest
            BY <1>6, <1>10, <2>1
        <3> QED
            BY <1>2, <1>10, <2>1, <3>1
    <2>2. CASE v # w
        BY <1>6, <1>10, <2>2
    <2> QED
        BY <2>1, <2>2
<1>11. ASSUME NEW v \in Workers, NEW i \in DOMAIN worker'[v].batch
       PROVE  Alone(v, i)'
    <2> DEFINE j == worker'[v].batch[i].id
    <2>1. SUFFICES ASSUME j \notin overrun
                   PROVE  /\ job'[j].status \in {"leased", "cancelled"}
                          /\ \A u \in Workers : \A k \in DOMAIN worker'[u].batch :
                                worker'[u].batch[k].id = j => u = v /\ k = i
        BY <1>4 DEF Alone
    <2>2. /\ Place(v, i) \in DOMAIN worker[v].batch
          /\ j = worker[v].batch[Place(v, i)].id
        BY <1>10
    <2>3. j \in Jobs /\ Alone(v, Place(v, i))
        BY <2>2, BatchesHoldJobs DEF ClaimInv
    <2>4. /\ job[j].status \in {"leased", "cancelled"}
          /\ \A u \in Workers : \A k \in DOMAIN worker[u].batch :
                worker[u].batch[k].id = j => u = v /\ k = Place(v, i)
        BY <2>1, <2>2, <2>3 DEF Alone
    <2> HIDE DEF j
    <2>5. j # next.id
        <3>1. CASE j = next.id
            <4>1. w = v /\ 1 = Place(v, i)
                BY <1>2, <2>4, <3>1
            <4>2. i \in Nat \ {0} /\ Place(v, i) = i + 1
                BY <1>10, <4>1
            <4> QED
                BY <4>1, <4>2
        <3> QED
            BY <3>1
    <2>6. ASSUME NEW u \in Workers, NEW k \in DOMAIN worker'[u].batch,
                 worker'[u].batch[k].id = j
          PROVE  u = v /\ k = i
        <3>1. Place(u, k) \in DOMAIN worker[u].batch /\ worker[u].batch[Place(u, k)].id = j
            BY <1>10, <2>6
        <3>2. u = v /\ Place(u, k) = Place(v, i)
            BY <2>4, <3>1
        <3>3. CASE v = w
            <4>1. i \in Nat /\ k \in Nat
                BY <1>10, <3>2, <3>3
            <4> QED
                BY <3>2, <3>3, <4>1
        <3>4. CASE v # w
            BY <3>2, <3>4
        <3> QED
            BY <3>3, <3>4
    <2> QED
        BY <1>8, <2>3, <2>4, <2>5, <2>6
<1> QED
    BY <1>7, <1>11 DEF ClaimInv

(***************************************************************************)
(* Every step keeps claims exclusive.                                      *)
(***************************************************************************)
LEMMA ClaimStep == ClaimInv /\ [Next]_vars => ClaimInv'
<1> SUFFICES ASSUME ClaimInv, [Next]_vars
             PROVE  ClaimInv'
    OBVIOUS
<1>1. ClockInv'
    BY ClockStep DEF ClaimInv
<1>2. /\ worker \in [Workers -> WorkerRow] /\ job \in [Jobs -> JobRow]
      /\ Serial \in Workers /\ Callers \subseteq Workers
    BY DEF ClaimInv, ClockInv, TypeOK, Workers
<1> DEFINE Rows == \A j \in Jobs : Batched(j) /\ j \notin overrun' =>
                      j \notin overrun /\ job'[j].status \in {job[j].status, "cancelled"}
<1>3. ASSUME worker' = worker, Rows
      PROVE  ClaimInv'
    <2>1. BatchShape'
        BY <1>3 DEF ClaimInv, BatchShape
    <2> QED
        BY <1>1, <1>3, <2>1, ClaimKept
<1>4. ASSUME NEW w \in Workers, NEW r, worker' = [worker EXCEPT ![w] = r],
             r.batch = worker[w].batch,
             r.batch # <<>> => r.pc \in {"next", "run", "finish"}, Rows
      PROVE  ClaimInv'
    <2>1. \A v \in Workers : worker'[v] = IF v = w THEN r ELSE worker[v]
        BY <1>2, <1>4
    <2>2. \A v \in Workers : worker'[v].batch = worker[v].batch
        BY <1>4, <2>1
    <2>3. BatchShape'
        BY <1>4, <2>1 DEF ClaimInv, BatchShape
    <2> QED
        BY <1>1, <1>4, <2>2, <2>3, ClaimKept
<1>5. ASSUME NEW j \in Jobs, Batched(j), j \notin overrun
      PROVE  job[j].status \in {"leased", "cancelled"}
    <2>1. PICK w \in Workers : \E i \in DOMAIN worker[w].batch : worker[w].batch[i].id = j
        BY <1>5 DEF Batched
    <2> QED
        BY <1>5, <2>1 DEF ClaimInv, Alone
<1>6. ASSUME overrun' = overrun, UNCHANGED job
      PROVE  Rows
    BY <1>6
<1>7. ASSUME NEW j \in Jobs, NEW t, CanEnqueue(j, t), job' = Enqueued(j, t),
             overrun' = overrun
      PROVE  Rows
    <2>1. \A k \in Jobs : k # j => job'[k] = job[k]
        BY <1>2, <1>7 DEF Enqueued
    <2>2. ~ (Batched(j) /\ j \notin overrun)
        BY <1>5, <1>7 DEF CanEnqueue
    <2> QED
        BY <1>7, <2>1, <2>2
<1> HIDE DEF Rows
<1>8. ASSUME NEW j \in Jobs, NEW d \in Delays, Request(j, d)
      PROVE  ClaimInv'
    BY <1>3, <1>7, <1>8 DEF Request, history
<1>9. ASSUME NEW j \in Jobs, CancelGroup(j)
      PROVE  ClaimInv'
    <2>1. \A k \in Jobs : job'[k].status \in {job[k].status, "cancelled"}
        BY <1>2, <1>9 DEF CancelGroup, JobRow
    <2>2. Rows
        BY <1>9, <2>1 DEF CancelGroup, history, Rows
    <2> QED
        BY <1>3, <1>9, <2>2 DEF CancelGroup
<1>10. ASSUME NEW j \in Jobs, Reuse(j)
       PROVE  ClaimInv'
    <2>1. ASSUME NEW k \in Jobs, k # j
          PROVE  job'[k].status = job[k].status
        <3>1. job'[k] = job[k] \/ job'[k] = [job[k] EXCEPT !.sequence = @ - 1]
            BY <1>10, <2>1 DEF Reuse
        <3> QED
            BY <1>2, <3>1 DEF JobRow
    <2>2. ~ Batched(j) /\ overrun' = overrun \ {j} /\ worker' = worker
        BY <1>10 DEF Reuse
    <2>3. Rows
        BY <2>1, <2>2 DEF Rows
    <2> QED
        BY <1>3, <2>2, <2>3
<1>11. CASE Elapse
    BY <1>3, <1>6, <1>11 DEF Elapse, history
<1>12. ASSUME NEW c \in Callers, NEW d \in Delays, ChangeClock(c, d)
       PROVE  ClaimInv'
    <2> DEFINE r == [worker[c] EXCEPT !.pc = "settling"]
    <2>1. c \in Workers /\ worker[c] \in WorkerRow /\ worker[c].batch = <<>>
        BY <1>2, <1>12, IdleHoldsNothing DEF ChangeClock
    <2>2. r.batch = <<>>
        BY <2>1 DEF WorkerRow
    <2>3. worker' = [worker EXCEPT ![c] = r]
        BY <1>12 DEF ChangeClock
    <2> HIDE DEF r
    <2> QED
        BY <1>4, <1>6, <1>12, <2>1, <2>2, <2>3 DEF ChangeClock, history
<1>13. ASSUME NEW c \in Callers, Settled(c)
       PROVE  ClaimInv'
    <2> DEFINE r == [worker[c] EXCEPT !.pc = "tick", !.drain = TRUE, !.left = MaxIterations]
    <2>1. c \in Workers /\ worker[c] \in WorkerRow /\ worker[c].batch = <<>>
        BY <1>2, <1>13, IdleHoldsNothing DEF Settled
    <2>2. r.batch = <<>>
        BY <2>1 DEF WorkerRow
    <2>3. worker' = [worker EXCEPT ![c] = r]
        BY <1>2, <1>13, <2>1 DEF Settled
    <2> HIDE DEF r
    <2> QED
        BY <1>4, <1>6, <1>13, <2>1, <2>2, <2>3 DEF Settled, history
<1>14. ASSUME NEW drain \in BOOLEAN, StartSerial(drain)
       PROVE  ClaimInv'
    <2> DEFINE n == IF drain THEN MaxIterations ELSE 1
               r == [worker[Serial] EXCEPT !.pc = "tick", !.drain = drain, !.left = n]
    <2>1. worker[Serial] \in WorkerRow /\ worker[Serial].batch = <<>>
        BY <1>2, <1>14, IdleHoldsNothing DEF StartSerial
    <2>2. r.batch = <<>>
        BY <2>1 DEF WorkerRow
    <2>3. worker' = [worker EXCEPT ![Serial] = r]
        BY <1>2, <1>14, <2>1 DEF StartSerial
    <2> HIDE DEF r
    <2> QED
        BY <1>2, <1>4, <1>6, <1>14, <2>1, <2>2, <2>3 DEF StartSerial, history
<1>15. ASSUME NEW w \in Workers, Reclaim(w)
       PROVE  ClaimInv'
    <2> DEFINE r == [worker[w] EXCEPT !.pc = "claim", !.at = Clock]
    <2>1. worker[w] \in WorkerRow /\ worker[w].batch = <<>>
        BY <1>2, <1>15, IdleHoldsNothing DEF Reclaim
    <2>2. r.batch = <<>>
        BY <2>1 DEF WorkerRow
    <2>3. worker' = [worker EXCEPT ![w] = r]
        BY <1>2, <1>15, <2>1 DEF Reclaim
    <2>4. ASSUME NEW j \in Jobs, Batched(j), j \notin overrun'
          PROVE  j \notin overrun /\ job'[j] = job[j]
        <3>1. overrun' = overrun \cup
                 {k \in Jobs : Expired(k) /\ job[k].lease < now /\ Batched(k)}
            BY <1>15 DEF Reclaim
        <3>2. Expired(j) => job[j].lease < now
            <4>1. Clock \in Time /\ Clock <= now /\ now \in Time /\ job[j].lease \in Int
                BY <1>2, ClockIsSound DEF ClaimInv, JobRow
            <4> QED
                BY <4>1, BoundAssumption DEF Expired, Time
        <3>3. ~ Expired(j)
            BY <2>4, <3>1, <3>2
        <3> QED
            BY <1>15, <2>4, <3>1, <3>3 DEF Reclaim
    <2>5. Rows
        BY <2>4 DEF Rows
    <2> HIDE DEF r
    <2> QED
        BY <1>4, <2>1, <2>2, <2>3, <2>5
<1>16. ASSUME NEW w \in Workers, Begin(w)
       PROVE  ClaimInv'
    <2> DEFINE r == [worker[w] EXCEPT !.pc = "run", !.saved = override]
    <2>1. r.batch = worker[w].batch /\ r.pc = "run"
        BY <1>2 DEF WorkerRow
    <2>2. worker' = [worker EXCEPT ![w] = r]
        BY <1>2, <1>16 DEF Begin
    <2> HIDE DEF r
    <2> QED
        BY <1>4, <1>6, <1>16, <2>1, <2>2 DEF Begin
<1>17. ASSUME NEW w \in Workers, Handle(w)
       PROVE  ClaimInv'
    <2> DEFINE r == [worker[w] EXCEPT !.pc = "finish"]
    <2>1. r.batch = worker[w].batch /\ r.pc = "finish"
        BY <1>2 DEF WorkerRow
    <2>2. worker' = [worker EXCEPT ![w] = r]
        BY <1>17 DEF Handle
    <2>3. Rows
        BY <1>6, <1>7, <1>17 DEF Handle, history
    <2> HIDE DEF r
    <2> QED
        BY <1>4, <2>1, <2>2, <2>3
<1>18. CASE Crash
    <2>1. \A w \in Workers : worker'[w].batch = <<>>
        BY <1>18 DEF Crash, Resting
    <2> QED
        BY <1>1, <2>1 DEF ClaimInv, BatchShape
<1>19. CASE UNCHANGED vars
    BY <1>3, <1>6, <1>19 DEF vars, code, history
<1>20. ASSUME NEW w \in Workers, Step(w)
       PROVE  ClaimInv'
    BY <1>1, <1>15, <1>16, <1>17, <1>20, ClaimOfClaim, ClaimOfFinish DEF Step
<1> QED
    BY <1>8, <1>9, <1>10, <1>11, <1>12, <1>13, <1>14, <1>18, <1>19, <1>20 DEF Next

(***************************************************************************)
(* Claims are exclusive in every reachable state.                          *)
(***************************************************************************)
LEMMA ClaimInvariance == Spec => []ClaimInv
<1>1. Init => ClaimInv
    <2> SUFFICES ASSUME Init
                 PROVE  ClaimInv
        OBVIOUS
    <2>1. \A w \in Workers : worker[w].batch = <<>>
        BY DEF Init, Resting
    <2> QED
        BY <2>1, ClockInit DEF ClaimInv, BatchShape
<1> QED
    BY <1>1, ClaimStep, PTL DEF Spec

(***************************************************************************)
(* However many requests drain beside the chain, however short the lease   *)
(* and however often the process dies: a job is in two batches, or up for  *)
(* claiming while in one, only once its lease has run out under a batch    *)
(* that holds it (storage.ts claimDue, reclaimExpiredLeases).              *)
(***************************************************************************)
THEOREM ClaimsAreExclusive == Spec => []ClaimIsExclusive
<1>1. ClaimInv => ClaimIsExclusive
    BY DEF ClaimInv, Alone, ClaimIsExclusive
<1> QED
    BY <1>1, ClaimInvariance, PTL

(***************************************************************************)
(* What ended stays so, whoever writes by id: the end of a row changes     *)
(* only if its lease ran out under a batch, or if it was cancelled while a *)
(* batch held it (storage.ts complete, reschedule, fail, cancelGroup).     *)
(***************************************************************************)
THEOREM EndsAreFinal == Spec => FinishedIsFinal
<1> DEFINE Final == \A j \in Jobs :
               /\ job[j].status \in Finished
               /\ job'[j].status \notin {job[j].status, "none"}
               => j \in overrun \/ (job[j].status = "cancelled" /\ Batched(j))
<1>1. ClaimInv /\ [Next]_vars => [Final]_vars
    <2> SUFFICES ASSUME ClaimInv, Next, NEW j \in Jobs, job[j].status \in Finished,
                        job'[j].status \notin {job[j].status, "none"}
                 PROVE  j \in overrun \/ (job[j].status = "cancelled" /\ Batched(j))
        BY DEF vars
    <2>1. job \in [Jobs -> JobRow]
        BY DEF ClaimInv, ClockInv, TypeOK
    <2>2. ASSUME NEW k \in Jobs, NEW t, CanEnqueue(k, t), job' = Enqueued(k, t)
          PROVE  FALSE
        BY <2>1, <2>2 DEF CanEnqueue, Enqueued, Finished
    <2>3. ASSUME NEW k \in Jobs, CancelGroup(k)
          PROVE  FALSE
        <3>1. job[k].status \in {"ready", "leased"} /\ k # j
            BY <2>3 DEF CancelGroup, Finished
        <3> QED
            BY <2>1, <2>3, <3>1 DEF CancelGroup
    <2>4. ASSUME NEW k \in Jobs, Reuse(k)
          PROVE  FALSE
        <3>1. \/ job'[j] = NoRow \/ job'[j] = job[j]
              \/ job'[j] = [job[j] EXCEPT !.sequence = @ - 1]
            BY <2>4 DEF Reuse
        <3> QED
            BY <2>1, <3>1 DEF NoRow, JobRow
    <2>5. ASSUME NEW w \in Workers, Reclaim(w)
          PROVE  FALSE
        <3>1. ~ Expired(j)
            BY DEF Expired, Finished
        <3> QED
            BY <2>5, <3>1 DEF Reclaim
    <2>6. ASSUME NEW w \in Workers, Claim(w)
          PROVE  FALSE
        <3>1. PICK order : /\ \A i \in DOMAIN order : order[i] \in Due(worker[w].at)
                           /\ job' = Lease(order)
            BY <2>6 DEF Claim
        <3>2. \A i \in DOMAIN order : order[i] # j
            BY <3>1 DEF Due, Finished
        <3> QED
            BY <3>1, <3>2 DEF Lease
    <2>7. ASSUME NEW w \in Workers, NEW ok \in BOOLEAN, NEW delay \in Delays,
                 Finish(w, ok, delay)
          PROVE  j \in overrun \/ (job[j].status = "cancelled" /\ Batched(j))
        <3> DEFINE next == Head(worker[w].batch)
        <3>1. worker[w].batch # <<>> /\ worker[w].batch \in Seq(Claimed)
            BY <2>7, WorkerIsSound DEF Finish, ClaimInv, Sound
        <3>2. next = worker[w].batch[1] /\ 1 \in DOMAIN worker[w].batch
            BY <3>1, RestOfBatch
        <3>3. Alone(w, 1) /\ Batched(next.id)
            BY <3>2, BatchesHoldJobs DEF ClaimInv
        <3>4. PICK row : job' = [job EXCEPT ![next.id] = row]
            BY <2>7 DEF Finish
        <3>5. j = next.id
            <4> HIDE DEF next
            <4> QED
                BY <2>1, <3>4
        <3>6. next.id \notin overrun => job[next.id].status \in {"leased", "cancelled"}
            BY <3>2, <3>3 DEF Alone
        <3> HIDE DEF next
        <3> QED
            BY <3>3, <3>5, <3>6 DEF Finished
    <2>8. ASSUME UNCHANGED job
          PROVE  FALSE
        BY <2>8
    <2>9. ASSUME NEW w \in Workers, Step(w)
          PROVE  j \in overrun \/ (job[j].status = "cancelled" /\ Batched(j))
        <3>1. ~ Begin(w)
            BY <2>8 DEF Begin
        <3>2. ~ Handle(w)
            BY <2>2, <2>8 DEF Handle
        <3> QED
            BY <2>5, <2>6, <2>7, <2>9, <3>1, <3>2 DEF Step
    <2>10. ASSUME NEW k \in Jobs, NEW d \in Delays, Request(k, d)
           PROVE  FALSE
        BY <2>2, <2>10 DEF Request
    <2> QED
        BY <2>3, <2>4, <2>8, <2>9, <2>10
           DEF Next, Elapse, ChangeClock, Settled, StartSerial, Crash
<1> QED
    BY <1>1, ClaimInvariance, PTL DEF Spec, FinishedIsFinal

-----------------------------------------------------------------------------
\* The instant the i-th scope of at() found: that of the scope it was opened
\* in, or the clock's own.
Found(i) == IF i = 1 THEN NoTime ELSE Current(scopes[i-1]).runAt

\* As long as scopes end in the order of a stack, they are those of the
\* running workers, and each has saved what it will put back.
Nested ==
    /\ \A w \in Workers : Running(w) <=> \E i \in DOMAIN scopes : scopes[i] = w
    /\ \A i, k \in DOMAIN scopes : scopes[i] = scopes[k] => i = k
    /\ \A i \in DOMAIN scopes : worker[scopes[i]].saved = Found(i)
    /\ override = Found(Len(scopes) + 1)

ScopeInv == ClockInv /\ (~ crossed => Nested)

(***************************************************************************)
(* The scopes are a sequence of workers, numbered from one.                *)
(***************************************************************************)
LEMMA ScopesAreWorkers ==
    ASSUME ClockInv
    PROVE  /\ scopes \in Seq(Workers) /\ Len(scopes) \in Nat
           /\ DOMAIN scopes = 1..Len(scopes)
           /\ \A i \in DOMAIN scopes : scopes[i] \in Workers
           /\ scopes # <<>> => Len(scopes) \in DOMAIN scopes
<1>1. scopes \in Seq(Workers)
    BY DEF ClockInv, TypeOK
<1>2. Len(scopes) \in Nat /\ DOMAIN scopes = 1..Len(scopes)
    BY <1>1
<1>3. \A i \in DOMAIN scopes : scopes[i] \in Workers
    BY <1>1, <1>2
<1>4. scopes # <<>> => Len(scopes) > 0
    BY <1>1
<1> QED
    BY <1>1, <1>2, <1>3, <1>4

(***************************************************************************)
(* A step that opens and ends no scope keeps them nested when every        *)
(* running worker keeps the job in hand and what it saved.                 *)
(***************************************************************************)
LEMMA ScopeKept ==
    ASSUME ScopeInv, ClockInv', UNCHANGED <<override, scopes, crossed>>,
           \A w \in Workers : Running(w)' <=> Running(w),
           \A w \in Workers : Running(w) =>
              worker'[w].batch = worker[w].batch /\ worker'[w].saved = worker[w].saved
    PROVE  ScopeInv'
<1>1. CASE crossed
    BY <1>1 DEF ScopeInv
<1>2. CASE ~ crossed
    <2>1. Nested
        BY <1>2 DEF ScopeInv
    <2>2. \A i \in DOMAIN scopes : scopes[i] \in Workers /\ Running(scopes[i])
        BY <2>1, ScopesAreWorkers DEF ScopeInv, Nested
    <2>3. \A i \in DOMAIN scopes : /\ Current(scopes[i])' = Current(scopes[i])
                                   /\ worker'[scopes[i]].saved = worker[scopes[i]].saved
        BY <2>2 DEF Current
    <2>4. Len(scopes) \in Nat /\ DOMAIN scopes = 1..Len(scopes)
        BY ScopesAreWorkers DEF ScopeInv
    <2>5. ASSUME NEW i \in 1..(Len(scopes) + 1)
          PROVE  Found(i)' = Found(i)
        <3>1. CASE i = 1
            BY <3>1 DEF Found
        <3>2. CASE i # 1
            <4>1. i - 1 \in DOMAIN scopes
                BY <2>4, <3>2
            <4> QED
                BY <2>3, <3>2, <4>1 DEF Found
        <3> QED
            BY <3>1, <3>2
    <2>6. \A i \in DOMAIN scopes : worker'[scopes[i]].saved = Found(i)'
        BY <2>1, <2>3, <2>4, <2>5 DEF Nested
    <2>7. override' = Found(Len(scopes) + 1)'
        BY <2>1, <2>4, <2>5 DEF Nested
    <2>8. Nested'
        BY <2>1, <2>6, <2>7 DEF Nested
    <2> QED
        BY <2>8 DEF ScopeInv
<1> QED
    BY <1>1, <1>2

(***************************************************************************)
(* A scope that opens finds the instant of the one it opens in.            *)
(***************************************************************************)
LEMMA ScopeOpens ==
    ASSUME ScopeInv, ClockInv', NEW w \in Workers, Begin(w)
    PROVE  ScopeInv'
<1>1. CASE crossed
    BY <1>1 DEF ScopeInv, Begin
<1>2. CASE ~ crossed
    <2>0. PICK n \in Nat : n = Len(scopes)
        BY ScopesAreWorkers DEF ScopeInv
    <2>1. /\ scopes' = Append(scopes, w) /\ override' = Current(w).runAt
          /\ worker' = [worker EXCEPT ![w].pc = "run", ![w].saved = override]
          /\ worker[w].pc = "next"
        BY <1>2 DEF Begin, Current
    <2>2. Nested /\ worker \in [Workers -> WorkerRow]
        BY <1>2 DEF ScopeInv, ClockInv, TypeOK
    <2>3. /\ n \in Nat /\ DOMAIN scopes = 1..n /\ scopes \in Seq(Workers)
          /\ \A i \in 1..n : scopes[i] \in Workers
        BY <2>0, ScopesAreWorkers DEF ScopeInv
    <2>4. /\ DOMAIN scopes' = 1..(n+1) /\ Len(scopes') = n + 1
          /\ \A i \in 1..n : scopes'[i] = scopes[i]
          /\ scopes'[n+1] = w
        BY <2>0, <2>1, <2>3
    <2>5. /\ worker'[w].pc = "run" /\ worker'[w].saved = override
          /\ worker'[w].batch = worker[w].batch
          /\ \A v \in Workers : v # w => worker'[v] = worker[v]
        BY <2>1, <2>2 DEF WorkerRow
    <2>6. \A v \in Workers : Current(v)' = Current(v)
        BY <2>5 DEF Current
    <2>7. ~ Running(w) /\ \A i \in 1..n : scopes[i] # w
        BY <2>1, <2>2, <2>3 DEF Running, Nested
    <2>8. ASSUME NEW v \in Workers
          PROVE  Running(v)' <=> \E i \in DOMAIN scopes' : scopes'[i] = v
        <3>1. CASE v = w
            <4>1. Running(v)'
                BY <2>5, <3>1 DEF Running
            <4>2. n + 1 \in DOMAIN scopes' /\ scopes'[n+1] = v
                BY <2>3, <2>4, <3>1
            <4> QED
                BY <4>1, <4>2
        <3>2. CASE v # w
            <4>1. Running(v)' <=> Running(v)
                BY <2>5, <3>2 DEF Running
            <4>2. Running(v) <=> \E i \in 1..n : scopes[i] = v
                BY <2>2, <2>3 DEF Nested
            <4>3. (\E i \in 1..n : scopes[i] = v) <=> \E i \in DOMAIN scopes' : scopes'[i] = v
                BY <2>3, <2>4, <3>2
            <4> QED
                BY <4>1, <4>2, <4>3
        <3> QED
            BY <3>1, <3>2
    <2>9. ASSUME NEW i \in DOMAIN scopes', NEW k \in DOMAIN scopes', scopes'[i] = scopes'[k]
          PROVE  i = k
        <3>1. (i \in 1..n \/ i = n + 1) /\ (k \in 1..n \/ k = n + 1)
            BY <2>3, <2>4
        <3> QED
            BY <2>2, <2>3, <2>4, <2>7, <2>9, <3>1 DEF Nested
    <2>10. ASSUME NEW i \in 1..(n + 1)
           PROVE  Found(i)' = Found(i)
        <3>1. CASE i = 1
            BY <3>1 DEF Found
        <3>2. CASE i # 1
            <4>1. i - 1 \in 1..n
                BY <2>3, <3>2
            <4>2. scopes'[i-1] = scopes[i-1] /\ scopes[i-1] \in Workers
                BY <2>3, <2>4, <4>1
            <4>3. Current(scopes[i-1])' = Current(scopes[i-1])
                BY <2>3, <2>5, <4>1, <4>2 DEF Current
            <4> QED
                BY <2>6, <3>2, <4>2 DEF Found, Current
        <3> QED
            BY <3>1, <3>2
    <2>11. ASSUME NEW i \in DOMAIN scopes'
           PROVE  worker'[scopes'[i]].saved = Found(i)'
        <3>1. CASE i = n + 1
            BY <2>0, <2>2, <2>4, <2>5, <2>10, <3>1 DEF Nested
        <3>2. CASE i \in 1..n
            <4>1. worker'[scopes'[i]] = worker[scopes[i]]
                BY <2>3, <2>4, <2>5, <2>7, <3>2
            <4> QED
                BY <2>2, <2>3, <2>4, <2>10, <3>2, <4>1 DEF Nested
        <3> QED
            BY <2>3, <2>4, <3>1, <3>2
    <2>12. override' = Found(Len(scopes) + 1)'
        <3>1. n + 2 # 1 /\ (n + 2) - 1 = n + 1
            BY <2>3
        <3>2. Found(n + 2)' = Current(w).runAt
            <4>1. Found(n + 2)' = Current(scopes[n+1])'.runAt
                BY <3>1 DEF Found
            <4>2. Current(scopes[n+1])' = Current(w)
                BY <2>4, <2>5 DEF Current
            <4> QED
                BY <4>1, <4>2
        <3>3. Len(scopes') + 1 = n + 2
            BY <2>3, <2>4
        <3> QED
            BY <2>1, <3>2, <3>3
    <2>13. Nested'
        BY <2>8, <2>9, <2>11, <2>12 DEF Nested
    <2> QED
        BY <2>13 DEF ScopeInv
<1> QED
    BY <1>1, <1>2

(***************************************************************************)
(* The scope opened last, when it ends, puts back the instant of the one   *)
(* it was opened in; any other that ends crosses the scopes.               *)
(***************************************************************************)
LEMMA ScopeEnds ==
    ASSUME ScopeInv, ClockInv', NEW w \in Workers, NEW ok \in BOOLEAN, NEW delay \in Delays,
           Finish(w, ok, delay)
    PROVE  ScopeInv'
<1> DEFINE last == scopes # <<>> /\ scopes[Len(scopes)] = w
<1>1. Leave(w) /\ override' = worker[w].saved /\ worker' = [worker EXCEPT ![w] = Advanced(w)]
    BY DEF Finish, Restored
<1>2. CASE crossed \/ ~ last
    BY <1>1, <1>2 DEF ScopeInv, Leave
<1>3. CASE ~ crossed /\ last
    <2>0. PICK n \in Nat : n = Len(scopes)
        BY ScopesAreWorkers DEF ScopeInv
    <2>1. Nested /\ worker \in [Workers -> WorkerRow]
        BY <1>3 DEF ScopeInv, ClockInv, TypeOK
    <2>2. /\ n \in Nat /\ n \in 1..n /\ DOMAIN scopes = 1..n /\ scopes \in Seq(Workers)
          /\ \A i \in 1..n : scopes[i] \in Workers
        BY <1>3, <2>0, ScopesAreWorkers DEF ScopeInv
    <2>3. scopes' = SubSeq(scopes, 1, n - 1) /\ scopes[n] = w
        BY <1>1, <1>3, <2>0 DEF Leave
    <2>4. /\ DOMAIN scopes' = 1..(n-1) /\ Len(scopes') = n - 1
          /\ \A i \in 1..(n-1) : scopes'[i] = scopes[i]
        BY <2>2, <2>3
    <2>5. \A v \in Workers : v # w => worker'[v] = worker[v]
        BY <1>1, <2>1
    <2>6. ~ Running(w)'
        <3>1. worker'[w] = Advanced(w)
            BY <1>1, <2>1
        <3>2. Advanced(w).pc \notin {"run", "finish"}
            <4> DEFINE r == [worker[w] EXCEPT !.pc = "next", !.batch = Tail(worker[w].batch),
                                              !.saved = NoTime]
                       again == [Resting EXCEPT !.pc = "tick", !.drain = worker[w].drain,
                                                !.left = RoundsLeft(w)]
            <4>1. Advanced(w) = r \/ Advanced(w) = again \/ Advanced(w) = Resting
                BY DEF Advanced
            <4>2. r.pc = "next" /\ again.pc = "tick" /\ Resting.pc = "idle"
                BY <2>1 DEF Resting, WorkerRow
            <4> HIDE DEF r, again
            <4> QED
                BY <4>1, <4>2
        <3> QED
            BY <3>1, <3>2 DEF Running
    <2>7. \A i \in 1..(n-1) : scopes[i] # w
        BY <2>1, <2>2, <2>3 DEF Nested
    <2>8. ASSUME NEW v \in Workers
          PROVE  Running(v)' <=> \E i \in DOMAIN scopes' : scopes'[i] = v
        <3>1. CASE v = w
            BY <2>4, <2>6, <2>7, <3>1
        <3>2. CASE v # w
            <4>1. Running(v)' <=> Running(v)
                BY <2>5, <3>2 DEF Running
            <4>2. Running(v) <=> \E i \in 1..n : scopes[i] = v
                BY <2>1, <2>2 DEF Nested
            <4>3. ASSUME NEW i \in 1..n, scopes[i] = v
                  PROVE  i \in DOMAIN scopes' /\ scopes'[i] = v
                BY <2>2, <2>3, <2>4, <3>2, <4>3
            <4>4. ASSUME NEW i \in DOMAIN scopes', scopes'[i] = v
                  PROVE  i \in 1..n /\ scopes[i] = v
                BY <2>2, <2>4, <4>4
            <4> QED
                BY <4>1, <4>2, <4>3, <4>4
        <3> QED
            BY <3>1, <3>2
    <2>9. \A i, k \in DOMAIN scopes' : scopes'[i] = scopes'[k] => i = k
        BY <2>1, <2>2, <2>4 DEF Nested
    <2>10. ASSUME NEW i \in 1..n
           PROVE  Found(i)' = Found(i)
        <3>1. CASE i = 1
            BY <3>1 DEF Found
        <3>2. CASE i # 1
            <4>1. i - 1 \in 1..(n-1) /\ i - 1 \in 1..n
                BY <2>2, <3>2
            <4>2. scopes'[i-1] = scopes[i-1] /\ worker'[scopes[i-1]] = worker[scopes[i-1]]
                BY <2>2, <2>4, <2>5, <2>7, <4>1
            <4> QED
                BY <3>2, <4>2 DEF Found, Current
        <3> QED
            BY <3>1, <3>2
    <2>11. ASSUME NEW i \in DOMAIN scopes'
           PROVE  worker'[scopes'[i]].saved = Found(i)'
        <3>1. i \in 1..(n-1) /\ i \in 1..n
            BY <2>2, <2>4
        <3>2. worker'[scopes'[i]] = worker[scopes[i]]
            BY <2>2, <2>4, <2>5, <2>7, <3>1
        <3> QED
            BY <2>1, <2>2, <2>10, <3>1, <3>2 DEF Nested
    <2>12. override' = Found(Len(scopes) + 1)'
        <3>1. worker[w].saved = Found(n)
            BY <2>1, <2>2, <2>3 DEF Nested
        <3>2. Len(scopes') + 1 = n
            BY <2>2, <2>4
        <3> QED
            BY <1>1, <2>2, <2>10, <3>1, <3>2
    <2>13. Nested'
        BY <2>8, <2>9, <2>11, <2>12 DEF Nested
    <2> QED
        BY <2>13 DEF ScopeInv
<1> QED
    BY <1>2, <1>3

(***************************************************************************)
(* Every step keeps the scopes' invariant.                                 *)
(***************************************************************************)
LEMMA ScopeStep == ScopeInv /\ [Next]_vars => ScopeInv'
<1> SUFFICES ASSUME ScopeInv, [Next]_vars
             PROVE  ScopeInv'
    OBVIOUS
<1>1. ClockInv'
    BY ClockStep DEF ScopeInv
<1>2. /\ worker \in [Workers -> WorkerRow]
      /\ Serial \in Workers /\ Callers \subseteq Workers
    BY DEF ScopeInv, ClockInv, TypeOK, Workers
<1> DEFINE Same == UNCHANGED <<override, scopes, crossed>>
<1>3. ASSUME UNCHANGED worker, Same
      PROVE  ScopeInv'
    BY <1>1, <1>3, ScopeKept DEF Running
<1>4. ASSUME NEW w \in Workers, \A v \in Workers : v # w => worker'[v] = worker[v],
             ~ Running(w), ~ Running(w)', Same
      PROVE  ScopeInv'
    BY <1>1, <1>4, ScopeKept DEF Running
<1> HIDE DEF Same
<1>5. ASSUME NEW c \in Callers, NEW d \in Delays, ChangeClock(c, d)
      PROVE  ScopeInv'
    <2>1. /\ worker' = [worker EXCEPT ![c].pc = "settling"] /\ worker[c].pc = "idle"
          /\ Same /\ c \in Workers
        BY <1>2, <1>5 DEF ChangeClock, history, Same
    <2>2. worker'[c].pc = "settling"
        BY <1>2, <2>1 DEF WorkerRow
    <2> QED
        BY <1>2, <1>4, <2>1, <2>2 DEF Running
<1>6. ASSUME NEW c \in Callers, Settled(c)
      PROVE  ScopeInv'
    <2> DEFINE r == [worker[c] EXCEPT !.pc = "tick", !.drain = TRUE, !.left = MaxIterations]
    <2>1. c \in Workers /\ worker[c].pc = "settling" /\ Same
        BY <1>2, <1>6 DEF Settled, history, Same
    <2>2. worker' = [worker EXCEPT ![c] = r]
        BY <1>2, <1>6, <2>1 DEF Settled
    <2>3. r.pc = "tick"
        BY <1>2, <2>1 DEF WorkerRow
    <2> HIDE DEF r
    <2> QED
        BY <1>2, <1>4, <2>1, <2>2, <2>3 DEF Running
<1>7. ASSUME NEW drain \in BOOLEAN, StartSerial(drain)
      PROVE  ScopeInv'
    <2> DEFINE n == IF drain THEN MaxIterations ELSE 1
               r == [worker[Serial] EXCEPT !.pc = "tick", !.drain = drain, !.left = n]
    <2>1. worker[Serial].pc = "idle" /\ Same
        BY <1>7 DEF StartSerial, history, Same
    <2>2. worker' = [worker EXCEPT ![Serial] = r]
        BY <1>2, <1>7 DEF StartSerial
    <2>3. r.pc = "tick"
        BY <1>2 DEF WorkerRow
    <2> HIDE DEF r
    <2> QED
        BY <1>2, <1>4, <2>1, <2>2, <2>3 DEF Running
<1>8. ASSUME NEW w \in Workers, Reclaim(w)
      PROVE  ScopeInv'
    <2> DEFINE r == [worker[w] EXCEPT !.pc = "claim", !.at = Clock]
    <2>1. worker[w].pc = "tick" /\ Same
        BY <1>8 DEF Reclaim, Same
    <2>2. worker' = [worker EXCEPT ![w] = r]
        BY <1>2, <1>8 DEF Reclaim
    <2>3. r.pc = "claim"
        BY <1>2 DEF WorkerRow
    <2> HIDE DEF r
    <2> QED
        BY <1>2, <1>4, <2>1, <2>2, <2>3 DEF Running
<1>9. ASSUME NEW w \in Workers, Claim(w)
      PROVE  ScopeInv'
    <2>1. worker[w].pc = "claim" /\ Same
        BY <1>9 DEF Claim, history, Same
    <2>2. PICK order : \/ worker' = [worker EXCEPT ![w] = Resting]
                       \/ worker' = [worker EXCEPT ![w] =
                             [@ EXCEPT !.pc = "next", !.at = 0, !.batch = Batch(order)]]
        BY <1>9 DEF Claim, FoundNone
    <2> DEFINE r == [worker[w] EXCEPT !.pc = "next", !.at = 0, !.batch = Batch(order)]
    <2>3. \/ worker' = [worker EXCEPT ![w] = Resting]
          \/ worker' = [worker EXCEPT ![w] = r]
        BY <2>2
    <2>4. Resting.pc = "idle" /\ r.pc = "next"
        BY <1>2 DEF Resting, WorkerRow
    <2> HIDE DEF r
    <2> QED
        BY <1>2, <1>4, <2>1, <2>3, <2>4 DEF Running
<1>10. ASSUME NEW w \in Workers, Handle(w)
       PROVE  ScopeInv'
    <2>1. /\ worker' = [worker EXCEPT ![w].pc = "finish"] /\ worker[w].pc = "run"
          /\ UNCHANGED <<override, scopes, crossed>>
        BY <1>10 DEF Handle, history
    <2>2. /\ worker'[w].pc = "finish" /\ worker'[w].batch = worker[w].batch
          /\ worker'[w].saved = worker[w].saved
          /\ \A v \in Workers : v # w => worker'[v] = worker[v]
        BY <1>2, <2>1 DEF WorkerRow
    <2>3. \A v \in Workers : Running(v)' <=> Running(v)
        BY <2>1, <2>2 DEF Running
    <2>4. \A v \in Workers : worker'[v].batch = worker[v].batch
                             /\ worker'[v].saved = worker[v].saved
        BY <2>2
    <2> QED
        BY <1>1, <2>1, <2>3, <2>4, ScopeKept
<1>11. CASE Crash
    <2>1. scopes' = <<>> /\ override' = NoTime /\ \A w \in Workers : worker'[w].pc = "idle"
        BY <1>11 DEF Crash, Resting
    <2>2. Nested'
        BY <2>1 DEF Nested, Running, Found
    <2> QED
        BY <1>1, <2>2 DEF ScopeInv
<1>12. CASE UNCHANGED vars
    BY <1>3, <1>12 DEF vars, code, history, Same
<1>13. ASSUME NEW w \in Workers, Step(w)
       PROVE  ScopeInv'
    BY <1>1, <1>8, <1>9, <1>10, <1>13, ScopeOpens, ScopeEnds DEF Step
<1>14. ASSUME NEW j \in Jobs, CancelGroup(j) \/ Reuse(j)
       PROVE  ScopeInv'
    BY <1>3, <1>14 DEF CancelGroup, Reuse, history, Same
<1>15. ASSUME NEW j \in Jobs, NEW d \in Delays, Request(j, d)
       PROVE  ScopeInv'
    BY <1>3, <1>15 DEF Request, history, Same
<1>16. CASE Elapse
    BY <1>3, <1>16 DEF Elapse, history, Same
<1> QED
    BY <1>5, <1>6, <1>7, <1>11, <1>12, <1>13, <1>14, <1>15, <1>16 DEF Next

(***************************************************************************)
(* However many tasks run jobs at once, the process reads the instant of   *)
(* the scope of at() opened last, and the clock's own once none is open,   *)
(* until a scope ends before one opened inside it (clock.ts at).           *)
(***************************************************************************)
THEOREM ScopesNest == Spec => []ScopedClock
<1>1. Init => ScopeInv
    <2> SUFFICES ASSUME Init
                 PROVE  ScopeInv
        OBVIOUS
    <2>1. scopes = <<>> /\ override = NoTime /\ \A w \in Workers : worker[w].pc = "idle"
        BY DEF Init, Resting
    <2>2. Nested
        BY <2>1 DEF Nested, Running, Found
    <2> QED
        BY <2>2, ClockInit DEF ScopeInv
<1>2. ScopeInv => ScopedClock
    <2> SUFFICES ASSUME ScopeInv, ~ crossed
                 PROVE  override = IF scopes = <<>> THEN NoTime
                                   ELSE Current(scopes[Len(scopes)]).runAt
        BY DEF ScopedClock
    <2>1. override = Found(Len(scopes) + 1) /\ Len(scopes) \in Nat /\ scopes \in Seq(Workers)
        BY ScopesAreWorkers DEF ScopeInv, Nested
    <2>2. CASE scopes = <<>>
        BY <2>1, <2>2 DEF Found
    <2>3. CASE scopes # <<>>
        <3>1. Len(scopes) + 1 # 1 /\ (Len(scopes) + 1) - 1 = Len(scopes)
            BY <2>1, <2>3
        <3> QED
            BY <2>1, <2>3, <3>1 DEF Found
    <2> QED
        BY <2>2, <2>3
<1> QED
    BY <1>1, <1>2, ScopeStep, PTL DEF Spec

-----------------------------------------------------------------------------
(***************************************************************************)
(* The chain of ticks with no POST /time draining beside it.               *)
(***************************************************************************)
Chain == worker[Serial]
InBatch(j) == \E i \in DOMAIN Chain.batch : Chain.batch[i].id = j
InHand(j) == Running(Serial) /\ Current(Serial).id = j

\* The chain saves no override but the clock's own view, and holds a batch
\* only while it works on it.
ChainShape ==
    /\ Chain.saved = NoTime
    /\ override # NoTime => Running(Serial)
    /\ Chain.batch # <<>> => Chain.pc \in {"next", "run", "finish"}

\* The rows of a batch are as the claim left them, but for cancellations.
Held ==
    /\ \A i \in DOMAIN Chain.batch :
          LET b == Chain.batch[i]
          IN  job[b.id].status \in {"leased", "cancelled"} /\ job[b.id].attempt = b.attempt
    /\ \A i, k \in DOMAIN Chain.batch : Chain.batch[i].id = Chain.batch[k].id => i = k

\* Not yet begun in its present attempt
Waiting(j) ==
    /\ ~ InHand(j)
    /\ job[j].status \in {"none", "ready", "leased"} \/ InBatch(j)

\* Each attempt and each death accounts for one entry of the handler.
Accounted(j) ==
    /\ job[j].attempt < MaxAttempts
    /\ job[j].status = "none" => begun[j] = 0
    /\ begun[j] <= job[j].attempt + 1 + crashes
    /\ Waiting(j) => begun[j] <= job[j].attempt + crashes

ChainInv ==
    /\ Callers = {}
    /\ ClockInv
    /\ ChainShape
    /\ Held
    /\ \A j \in Jobs : Accounted(j)

(***************************************************************************)
(* The chain's invariant holds at the start, with no callers.              *)
(***************************************************************************)
LEMMA ChainInit == Callers = {} /\ Init => ChainInv
<1> SUFFICES ASSUME Callers = {}, Init
             PROVE  ChainInv
    OBVIOUS
<1>1. ClockInv
    BY ClockInit
<1>2. Chain = Resting
    BY DEF Init, Chain, Workers
<1>3. Chain.saved = NoTime /\ Chain.batch = <<>> /\ override = NoTime
    BY <1>2 DEF Resting, Init
<1>4. ChainShape /\ Held
    BY <1>3 DEF ChainShape, Held
<1>5. ASSUME NEW j \in Jobs
      PROVE  Accounted(j)
    BY AttemptsAssumption DEF Init, NoRow, Accounted
<1> QED
    BY <1>1, <1>4, <1>5 DEF ChainInv

(***************************************************************************)
(* The types the arithmetic of attempts rests on.                          *)
(***************************************************************************)
LEMMA CountsAreNatural ==
    ASSUME ClockInv, NEW j \in Jobs
    PROVE  job[j].attempt \in Nat /\ begun[j] \in Nat /\ crashes \in Nat
BY BoundAssumption DEF ClockInv, TypeOK, JobRow

(***************************************************************************)
(* The chain's batch is a sequence of rows that were claimed.              *)
(***************************************************************************)
LEMMA BatchIsOfJobs ==
    ASSUME ClockInv
    PROVE  /\ Chain \in WorkerRow
           /\ Chain.batch \in Seq(Claimed)
           /\ \A i \in DOMAIN Chain.batch :
                 Chain.batch[i] \in Claimed /\ Chain.batch[i].id \in Jobs
<1>1. Chain \in WorkerRow /\ Chain.batch \in Seq(Claimed)
    BY WorkerIsSound DEF Chain, Workers
<1>2. \A i \in DOMAIN Chain.batch : Chain.batch[i] \in Claimed
    BY <1>1
<1> QED
    BY <1>1, <1>2 DEF Claimed

\* What a step that is no claim, no run and no death may do to a row
RowKept(j) ==
    \/ job'[j].status = job[j].status /\ job'[j].attempt = job[j].attempt
    \/ /\ job[j].status = "none"
       /\ job'[j].status = "ready" /\ job'[j].attempt = 0
    \/ /\ job[j].status \in {"ready", "leased"}
       /\ job'[j].status = "cancelled" /\ job'[j].attempt = job[j].attempt
    \/ /\ job[j].status = "leased" /\ ~ InBatch(j)
       /\ job'[j].status = "ready" /\ job'[j].attempt = job[j].attempt

(***************************************************************************)
(* Enqueuing, cancelling and reclaiming disturb neither a batch nor the    *)
(* account of attempts.                                                    *)
(***************************************************************************)
LEMMA ChainQuiet ==
    ASSUME ChainInv, ClockInv', Chain'.batch = Chain.batch, Chain'.saved = Chain.saved,
           Running(Serial)' <=> Running(Serial),
           Chain.batch # <<>> => Chain'.pc \in {"next", "run", "finish"},
           override' = override, crashes' = crashes, begun' = begun,
           \A j \in Jobs : RowKept(j)
    PROVE  ChainInv'
<1>1. ChainShape'
    BY DEF ChainInv, ChainShape
<1>2. \A j : InBatch(j)' <=> InBatch(j)
    BY DEF InBatch
<1>3. Current(Serial)' = Current(Serial)
    BY DEF Current, Chain
<1>4. \A j : InHand(j)' <=> InHand(j)
    BY <1>3 DEF InHand
<1>5. Held'
    <2>1. ASSUME NEW i \in DOMAIN Chain.batch
          PROVE  LET b == Chain.batch[i]
                 IN  job'[b.id].status \in {"leased", "cancelled"} /\ job'[b.id].attempt = b.attempt
        <3>1. Chain.batch[i].id \in Jobs /\ InBatch(Chain.batch[i].id)
            BY BatchIsOfJobs DEF ChainInv, InBatch
        <3> QED
            BY <3>1 DEF ChainInv, Held, RowKept
    <2> QED
        BY <2>1 DEF ChainInv, Held
<1>6. ASSUME NEW j \in Jobs
      PROVE  Accounted(j)'
    <2>1. Accounted(j) /\ RowKept(j)
        BY DEF ChainInv
    <2>2. job[j].attempt \in Nat /\ begun[j] \in Nat /\ crashes \in Nat
        BY CountsAreNatural DEF ChainInv
    <2>3. Waiting(j)' => Waiting(j)
        BY <1>2, <1>4, <2>1 DEF Waiting, RowKept
    <2>4. CASE job[j].status = "none" /\ job'[j].status = "ready" /\ job'[j].attempt = 0
        BY <2>1, <2>2, <2>4, AttemptsAssumption DEF Accounted
    <2>5. CASE job'[j].attempt = job[j].attempt /\ (job'[j].status = "none" => job[j].status = "none")
        BY <2>1, <2>2, <2>3, <2>5 DEF Accounted
    <2> QED
        BY <2>1, <2>4, <2>5 DEF RowKept
<1> QED
    BY <1>1, <1>5, <1>6 DEF ChainInv

(***************************************************************************)
(* An id whose row ended is in no batch; its new row starts an account of  *)
(* its own.                                                                *)
(***************************************************************************)
LEMMA ChainReuse ==
    ASSUME ChainInv, ClockInv', NEW j \in Jobs, Reuse(j)
    PROVE  ChainInv'
<1>1. /\ UNCHANGED <<override, worker, crashes>>
      /\ Chain' = Chain
    BY DEF Reuse, Chain
<1>2. job \in [Jobs -> JobRow] /\ begun \in [Jobs -> Nat] /\ crashes \in Nat
    BY BoundAssumption DEF ChainInv, ClockInv, TypeOK
<1>3. ~ InBatch(j)
    BY DEF Reuse, Batched, InBatch, Chain, Workers
<1>4. job'[j].status = "none" /\ job'[j].attempt = 0 /\ begun'[j] = 0
    BY <1>2 DEF Reuse, NoRow
<1>5. ASSUME NEW k \in Jobs, k # j
      PROVE  /\ job'[k].status = job[k].status /\ job'[k].attempt = job[k].attempt
             /\ begun'[k] = begun[k]
    <2>1. job'[k] = job[k] \/ job'[k] = [job[k] EXCEPT !.sequence = @ - 1]
        BY <1>5 DEF Reuse
    <2>2. begun'[k] = begun[k]
        BY <1>2, <1>5 DEF Reuse
    <2> QED
        BY <1>2, <2>1, <2>2 DEF JobRow
<1>6. ChainShape'
    BY <1>1 DEF ChainInv, ChainShape, Running, Chain
<1>7. Held'
    <2>1. ASSUME NEW i \in DOMAIN Chain.batch
          PROVE  LET b == Chain.batch[i]
                 IN  job'[b.id].status \in {"leased", "cancelled"} /\ job'[b.id].attempt = b.attempt
        <3>1. Chain.batch[i].id \in Jobs /\ Chain.batch[i].id # j
            BY <1>3, BatchIsOfJobs DEF ChainInv, InBatch
        <3> QED
            BY <1>5, <3>1 DEF ChainInv, Held
    <2> QED
        BY <1>1, <2>1 DEF ChainInv, Held
<1>8. ASSUME NEW k \in Jobs
      PROVE  Accounted(k)'
    <2>1. Current(Serial)' = Current(Serial) /\ (Running(Serial)' <=> Running(Serial))
        BY <1>1 DEF Current, Running
    <2>2. InHand(k)' <=> InHand(k)
        BY <2>1 DEF InHand
    <2>3. InBatch(k)' <=> InBatch(k)
        BY <1>1 DEF InBatch
    <2>4. CASE k = j
        BY <1>1, <1>2, <1>4, <2>4, AttemptsAssumption DEF Accounted
    <2>5. CASE k # j
        <3>1. Waiting(k)' => Waiting(k)
            BY <1>5, <2>2, <2>3, <2>5 DEF Waiting
        <3> QED
            BY <1>1, <1>5, <2>5, <3>1 DEF ChainInv, Accounted
    <2> QED
        BY <2>4, <2>5
<1> QED
    BY <1>6, <1>7, <1>8 DEF ChainInv

(***************************************************************************)
(* A claim takes ready rows: their attempts have not begun, and no job is  *)
(* in the batch twice.                                                     *)
(***************************************************************************)
LEMMA ChainClaim ==
    ASSUME ChainInv, ClockInv', Claim(Serial)
    PROVE  ChainInv'
<1> DEFINE due == Due(Chain.at)
           n == IF Cardinality(due) < BatchSize THEN Cardinality(due) ELSE BatchSize
<1>1. PICK order \in [1..n -> due] :
         /\ Firsts(due, order)
         /\ job' = Lease(order)
         /\ worker' = [worker EXCEPT ![Serial] =
                         IF n = 0 THEN FoundNone(Serial)
                         ELSE [@ EXCEPT !.pc = "next", !.at = 0, !.batch = Batch(order)]]
    BY DEF Claim, Chain
<1>2. Chain.pc = "claim" /\ Chain.batch = <<>> /\ override = NoTime
    BY DEF Claim, Chain, ChainInv, ChainShape, Running
<1>3. n \in Nat
    BY JobsAssumption, BatchAssumption, FS_Subset, FS_CardinalityType DEF Due
<1> HIDE DEF n
<1>4. override' = override /\ crashes' = crashes /\ begun' = begun
    BY DEF Claim, history
<1>5. Serial \in Workers /\ worker \in [Workers -> WorkerRow]
    BY DEF Workers, ChainInv, ClockInv, TypeOK
<1>6. /\ Chain'.saved = NoTime
      /\ Chain'.pc \notin {"run", "finish"}
      /\ \/ Chain'.batch = <<>>
         \/ Chain'.batch = Batch(order) /\ Chain'.pc = "next"
    <2>1. CASE n = 0
        BY <1>1, <1>5, <2>1 DEF FoundNone, Resting, Chain
    <2>2. CASE n # 0
        <3>1. Chain' = [Chain EXCEPT !.pc = "next", !.at = 0, !.batch = Batch(order)]
            BY <1>1, <1>5, <2>2 DEF Chain
        <3> QED
            BY <1>5, <3>1 DEF Chain, WorkerRow, ChainInv, ChainShape
    <2> QED
        BY <2>1, <2>2
<1>7. ChainShape' /\ ~ Running(Serial)'
    BY <1>2, <1>4, <1>6 DEF ChainShape, Running, Chain
<1>8. /\ DOMAIN Batch(order) = 1..n
      /\ \A i \in 1..n : /\ Batch(order)[i].id = order[i]
                         /\ Batch(order)[i].attempt = job[order[i]].attempt
                         /\ order[i] \in Jobs
                         /\ job[order[i]].status = "ready"
    BY <1>1 DEF Batch, Due
<1>9. ASSUME NEW j \in Jobs
      PROVE  /\ job'[j].attempt = job[j].attempt
             /\ \/ \E i \in 1..n : order[i] = j
                                  /\ job[j].status = "ready" /\ job'[j].status = "leased"
                \/ job'[j] = job[j] /\ \A i \in 1..n : order[i] # j
    <2>1. job[j] \in JobRow
        BY DEF ChainInv, ClockInv, TypeOK
    <2>2. CASE \E i \in 1..n : order[i] = j
        <3>1. job'[j] = [job[j] EXCEPT !.status = "leased", !.lease = Clock + LeaseMs]
            BY <1>1, <2>2 DEF Lease
        <3> QED
            BY <1>8, <2>1, <2>2, <3>1 DEF JobRow
    <2>3. CASE \A i \in 1..n : order[i] # j
        BY <1>1, <2>3 DEF Lease
    <2> QED
        BY <2>2, <2>3
<1>10. \A i, k \in 1..n : order[i] = order[k] => i = k
    BY <1>1, <1>3 DEF Firsts
<1>11. Held'
    <2>1. CASE Chain'.batch = <<>>
        BY <2>1 DEF Held
    <2>2. CASE Chain'.batch = Batch(order)
        <3>1. \A i \in 1..n : /\ job'[order[i]].status = "leased"
                              /\ job'[order[i]].attempt = job[order[i]].attempt
            BY <1>8, <1>9
        <3> QED
            BY <1>8, <1>10, <2>2, <3>1 DEF Held
    <2> QED
        BY <1>6, <2>1, <2>2
<1>12. ASSUME NEW j \in Jobs
       PROVE  Accounted(j)'
    <2>1. Accounted(j) /\ ~ InHand(j)
        BY <1>2 DEF ChainInv, InHand, Running, Chain
    <2>2. Waiting(j)' => Waiting(j)
        <3>1. InBatch(j)' => \E i \in 1..n : order[i] = j
            <4>1. CASE Chain'.batch = <<>>
                BY <4>1 DEF InBatch
            <4>2. CASE Chain'.batch = Batch(order)
                <5>1. DOMAIN Chain'.batch = 1..n
                    BY <1>8, <4>2
                <5>2. \A i \in 1..n : Chain'.batch[i].id = order[i]
                    BY <1>8, <4>2
                <5> QED
                    BY <5>1, <5>2 DEF InBatch
            <4> QED
                BY <1>6, <4>1, <4>2
        <3> QED
            BY <1>9, <2>1, <3>1 DEF Waiting
    <2>3. job'[j].status = "none" => job[j].status = "none"
        BY <1>9
    <2> QED
        BY <1>4, <1>9, <2>1, <2>2, <2>3 DEF Accounted
<1> QED
    BY <1>7, <1>11, <1>12 DEF ChainInv

(***************************************************************************)
(* Entering the handler uses up the waiting of the job at the head.        *)
(***************************************************************************)
LEMMA ChainBegin ==
    ASSUME ChainInv, ClockInv', Begin(Serial)
    PROVE  ChainInv'
<1> DEFINE next == Head(Chain.batch)
<1>1. Chain.pc = "next" /\ Chain.batch # <<>> /\ override = NoTime
    BY WorkerIsSound DEF Begin, Chain, ChainInv, ChainShape, Running, Sound, Workers
<1>2. next = Chain.batch[1] /\ 1 \in DOMAIN Chain.batch /\ next.id \in Jobs
    BY <1>1, BatchIsOfJobs, RestOfBatch DEF ChainInv
<1>3. Serial \in Workers /\ worker \in [Workers -> WorkerRow]
    BY DEF Workers, ChainInv, ClockInv, TypeOK
<1>4. Chain' = [Chain EXCEPT !.pc = "run", !.saved = NoTime]
    BY <1>1, <1>3 DEF Begin, Chain
<1>5. Chain'.pc = "run" /\ Chain'.saved = NoTime /\ Chain'.batch = Chain.batch
    BY <1>3, <1>4 DEF Chain, WorkerRow
<1>6. /\ job' = job /\ crashes' = crashes
      /\ begun' = [begun EXCEPT ![next.id] = @ + 1]
    BY DEF Begin, Chain
<1>7. Running(Serial)' /\ Current(Serial)' = next
    BY <1>5 DEF Running, Current, Chain
<1> HIDE DEF next
<1>8. ChainShape'
    BY <1>5, <1>7 DEF ChainShape
<1>9. Held'
    BY <1>5, <1>6 DEF ChainInv, Held
<1>10. ASSUME NEW j \in Jobs
       PROVE  Accounted(j)'
    <2>1. Accounted(j) /\ job[j].attempt \in Nat /\ begun[j] \in Nat /\ crashes \in Nat
        BY CountsAreNatural DEF ChainInv
    <2>2. CASE j = next.id
        <3>1. Waiting(j)
            BY <1>1, <1>2, <2>2 DEF Waiting, InHand, Running, InBatch, Chain
        <3>2. ~ Waiting(j)'
            BY <1>7, <2>2 DEF Waiting, InHand
        <3>3. job[j].status # "none"
            BY <1>2, <2>2 DEF ChainInv, Held
        <3>4. begun'[j] = begun[j] + 1
            BY <1>6, <2>2 DEF ChainInv, ClockInv, TypeOK
        <3> QED
            BY <1>6, <2>1, <3>1, <3>2, <3>3, <3>4 DEF Accounted
    <2>3. CASE j # next.id
        <3>1. begun'[j] = begun[j]
            BY <1>6, <2>3 DEF ChainInv, ClockInv, TypeOK
        <3>2. Waiting(j)' => Waiting(j)
            BY <1>1, <1>5, <1>6 DEF Waiting, InHand, Running, InBatch, Chain
        <3> QED
            BY <1>6, <2>1, <3>1, <3>2 DEF Accounted
    <2> QED
        BY <2>2, <2>3
<1> QED
    BY <1>8, <1>9, <1>10 DEF ChainInv

(***************************************************************************)
(* The end of a job frees its row and leaves the rest of the batch held.   *)
(***************************************************************************)
LEMMA ChainFinish ==
    ASSUME ChainInv, ClockInv', NEW ok \in BOOLEAN, NEW delay \in Delays,
           Finish(Serial, ok, delay)
    PROVE  ChainInv'
<1> DEFINE next == Head(Chain.batch)
           rest == Tail(Chain.batch)
<1>1. Chain.pc = "finish" /\ Chain.batch # <<>>
    BY WorkerIsSound DEF Finish, Chain, ChainInv, Sound, Workers
<1>2. /\ next = Chain.batch[1] /\ 1 \in DOMAIN Chain.batch
      /\ next.id \in Jobs /\ next \in Claimed
      /\ \A i \in DOMAIN rest : i + 1 \in DOMAIN Chain.batch /\ rest[i] = Chain.batch[i+1]
      /\ DOMAIN rest \subseteq Nat \ {0}
    BY <1>1, BatchIsOfJobs, RestOfBatch DEF ChainInv
<1>3. Serial \in Workers /\ worker \in [Workers -> WorkerRow] /\ Chain \in WorkerRow
    BY BatchIsOfJobs DEF Workers, ChainInv, ClockInv, TypeOK
<1>4. /\ job[next.id] \in JobRow /\ job[next.id].attempt = next.attempt
      /\ job[next.id].status \in {"leased", "cancelled"}
    BY <1>2 DEF ChainInv, Held, ClockInv, TypeOK
<1>5. /\ override' = NoTime /\ crashes' = crashes /\ begun' = begun
      /\ worker' = [worker EXCEPT ![Serial] = Advanced(Serial)]
    BY DEF Finish, Restored, ChainInv, ChainShape, Chain
<1>6. /\ \A j \in Jobs : j # next.id => job'[j] = job[j]
      /\ \/ job'[next.id].status \in {"done", "failed"}
            /\ job'[next.id].attempt = job[next.id].attempt
         \/ /\ job'[next.id].status = "ready"
            /\ job'[next.id].attempt = job[next.id].attempt + 1
            /\ ~ Exhausted(next.attempt)
    <2> DEFINE row == CASE ok -> [job[next.id] EXCEPT !.status = "done", !.lease = 0]
                        [] ~ ok /\ Exhausted(next.attempt) ->
                              [job[next.id] EXCEPT !.status = "failed", !.lease = 0]
                        [] OTHER -> [job[next.id] EXCEPT
                                       !.status = "ready", !.runAt = Clock + delay,
                                       !.attempt = @ + 1, !.lease = 0]
    <2>1. job' = [job EXCEPT ![next.id] = row]
        BY DEF Finish, Chain
    <2>2. job \in [Jobs -> JobRow]
        BY DEF ChainInv, ClockInv, TypeOK
    <2>3. \/ row.status \in {"done", "failed"} /\ row.attempt = job[next.id].attempt
          \/ /\ row.status = "ready" /\ row.attempt = job[next.id].attempt + 1
             /\ ~ Exhausted(next.attempt)
        <3>1. CASE ok
            <4>1. row = [job[next.id] EXCEPT !.status = "done", !.lease = 0]
                BY <3>1
            <4> QED
                BY <1>4, <4>1 DEF JobRow
        <3>2. CASE ~ ok /\ Exhausted(next.attempt)
            <4>1. row = [job[next.id] EXCEPT !.status = "failed", !.lease = 0]
                BY <3>2
            <4> QED
                BY <1>4, <4>1 DEF JobRow
        <3>3. CASE ~ ok /\ ~ Exhausted(next.attempt)
            <4>1. row = [job[next.id] EXCEPT !.status = "ready", !.runAt = Clock + delay,
                                             !.attempt = @ + 1, !.lease = 0]
                BY <3>3
            <4> QED
                BY <1>4, <3>3, <4>1 DEF JobRow
        <3> QED
            BY <3>1, <3>2, <3>3
    <2> HIDE DEF row, next
    <2> QED
        BY <1>2, <2>1, <2>2, <2>3
<1> HIDE DEF next
<1>7. /\ Chain'.saved = NoTime /\ Chain'.pc \notin {"run", "finish"}
      /\ \/ Chain'.batch = <<>>
         \/ Chain'.batch = rest /\ Chain'.pc = "next"
    <2>1. Chain' = Advanced(Serial)
        BY <1>3, <1>5 DEF Chain
    <2>2. CASE rest # <<>>
        <3>1. Chain' = [Chain EXCEPT !.pc = "next", !.batch = rest, !.saved = NoTime]
            BY <2>1, <2>2 DEF Advanced, Chain
        <3> QED
            BY <1>3, <3>1 DEF WorkerRow, ChainInv, ChainShape
    <2>3. CASE rest = <<>>
        <3>1. CASE Chain' = Resting
            BY <3>1 DEF Resting
        <3>2. CASE Chain' = [Resting EXCEPT !.pc = "tick", !.drain = Chain.drain,
                                            !.left = RoundsLeft(Serial)]
            BY <3>2 DEF Resting
        <3> QED
            BY <2>1, <2>3, <3>1, <3>2 DEF Advanced, Chain
    <2> QED
        BY <2>2, <2>3
<1>8. ChainShape' /\ ~ Running(Serial)'
    BY <1>5, <1>7 DEF ChainShape, Running, Chain
<1>9. \A i \in DOMAIN rest : rest[i].id # next.id
    BY <1>2 DEF ChainInv, Held
<1>10. Held'
    <2>1. CASE Chain'.batch = <<>>
        BY <2>1 DEF Held
    <2>2. CASE Chain'.batch = rest
        <3>1. ASSUME NEW i \in DOMAIN rest
              PROVE  /\ job'[rest[i].id].status \in {"leased", "cancelled"}
                     /\ job'[rest[i].id].attempt = rest[i].attempt
            <4>1. i + 1 \in DOMAIN Chain.batch /\ rest[i] = Chain.batch[i+1]
                BY <1>2
            <4>2. rest[i].id \in Jobs /\ rest[i].id # next.id
                BY <1>9, <4>1, BatchIsOfJobs DEF ChainInv
            <4> QED
                BY <1>6, <4>1, <4>2 DEF ChainInv, Held
        <3>2. ASSUME NEW i \in DOMAIN rest, NEW k \in DOMAIN rest, rest[i].id = rest[k].id
              PROVE  i = k
            <4>1. i + 1 = k + 1
                BY <1>2, <3>2 DEF ChainInv, Held
            <4> QED
                BY <1>2, <4>1
        <3> HIDE DEF rest
        <3> QED
            BY <2>2, <3>1, <3>2 DEF Held
    <2> QED
        BY <1>7, <2>1, <2>2
<1>11. ASSUME NEW j \in Jobs
       PROVE  Accounted(j)'
    <2>1. /\ Accounted(j) /\ Accounted(next.id)
          /\ job[j].attempt \in Nat /\ begun[j] \in Nat /\ crashes \in Nat
        BY <1>2, CountsAreNatural DEF ChainInv
    <2>2. ~ InHand(j)'
        BY <1>8 DEF InHand
    <2>3. InBatch(j)' => InBatch(j) /\ j # next.id
        <3>1. CASE Chain'.batch = <<>>
            BY <3>1 DEF InBatch
        <3>2. CASE Chain'.batch = rest
            <4>1. InBatch(j)' => \E i \in DOMAIN rest : rest[i].id = j
                BY <3>2 DEF InBatch
            <4> QED
                BY <1>2, <1>9, <4>1 DEF InBatch
        <3> QED
            BY <1>7, <3>1, <3>2
    <2>4. CASE j = next.id
        <3>1. CASE job'[j].status = "ready"
            <4>1. job'[j].attempt = job[j].attempt + 1 /\ job[j].attempt + 1 < MaxAttempts
                BY <1>4, <1>6, <2>1, <2>4, <3>1, AttemptsAssumption DEF Exhausted
            <4> QED
                BY <1>5, <2>1, <3>1, <4>1 DEF Accounted
        <3>2. CASE job'[j].status # "ready"
            <4>1. job'[j].attempt = job[j].attempt /\ job'[j].status \in {"done", "failed"}
                BY <1>6, <2>4, <3>2
            <4>2. ~ Waiting(j)'
                BY <2>3, <2>4, <4>1 DEF Waiting
            <4> QED
                BY <1>5, <2>1, <4>1, <4>2 DEF Accounted
        <3> QED
            BY <3>1, <3>2
    <2>5. CASE j # next.id
        <3>1. job'[j] = job[j]
            BY <1>6, <2>5
        <3>2. Current(Serial) = next
            BY DEF Current, Chain, next
        <3>3. ~ InHand(j)
            BY <2>5, <3>2 DEF InHand
        <3>4. Waiting(j)' => Waiting(j)
            BY <2>3, <3>1, <3>3 DEF Waiting
        <3> QED
            BY <1>5, <2>1, <3>1, <3>4 DEF Accounted
    <2> QED
        BY <2>4, <2>5
<1> QED
    BY <1>8, <1>10, <1>11 DEF ChainInv

(***************************************************************************)
(* A death empties the batch and pays for the attempt it cut short.        *)
(***************************************************************************)
LEMMA ChainCrash ==
    ASSUME ChainInv, ClockInv', Crash
    PROVE  ChainInv'
<1>1. /\ job' = job /\ begun' = begun /\ crashes' = crashes + 1 /\ override' = NoTime
      /\ Chain' = Resting
    BY DEF Crash, Chain, Workers
<1>2. Chain'.pc = "idle" /\ Chain'.saved = NoTime /\ Chain'.batch = <<>>
    BY <1>1 DEF Resting
<1>3. ChainShape' /\ Held'
    BY <1>1, <1>2 DEF ChainShape, Held
<1>4. ASSUME NEW j \in Jobs
      PROVE  Accounted(j)'
    <2>1. Accounted(j) /\ job[j].attempt \in Nat /\ begun[j] \in Nat /\ crashes \in Nat
        BY CountsAreNatural DEF ChainInv
    <2> QED
        BY <1>1, <2>1 DEF Accounted
<1> QED
    BY <1>3, <1>4 DEF ChainInv

(***************************************************************************)
(* Every step keeps the chain's invariant.                                 *)
(***************************************************************************)
LEMMA ChainStep == ChainInv /\ [Next]_vars => ChainInv'
<1> SUFFICES ASSUME ChainInv, [Next]_vars
             PROVE  ChainInv'
    OBVIOUS
<1>1. ClockInv'
    BY ClockStep DEF ChainInv
<1>2. /\ Workers = {Serial} /\ Serial \in Workers
      /\ worker \in [Workers -> WorkerRow] /\ Chain \in WorkerRow
      /\ job \in [Jobs -> JobRow]
    BY BatchIsOfJobs DEF Workers, ChainInv, ClockInv, TypeOK
<1> DEFINE Quiet ==
        /\ Chain'.batch = Chain.batch /\ Chain'.saved = Chain.saved
        /\ Running(Serial)' <=> Running(Serial)
        /\ Chain.batch # <<>> => Chain'.pc \in {"next", "run", "finish"}
        /\ override' = override /\ crashes' = crashes /\ begun' = begun
        /\ \A j \in Jobs : RowKept(j)
<1>3. Quiet => ChainInv'
    BY <1>1, ChainQuiet
<1> HIDE DEF Quiet
<1> USE DEF history
<1>4. ASSUME worker' = worker, override' = override, crashes' = crashes,
             begun' = begun, \A j \in Jobs : RowKept(j)
      PROVE  Quiet
    BY <1>4 DEF Quiet, Chain, Running, ChainInv, ChainShape
<1>5. ASSUME NEW j \in Jobs, NEW t, CanEnqueue(j, t), job' = Enqueued(j, t)
      PROVE  \A k \in Jobs : RowKept(k)
    BY <1>2, <1>5 DEF CanEnqueue, Enqueued, RowKept
<1>6. ASSUME NEW j \in Jobs, NEW d \in Delays, Request(j, d)
      PROVE  ChainInv'
    BY <1>3, <1>4, <1>5, <1>6 DEF Request
<1>7. ASSUME NEW j \in Jobs, CancelGroup(j)
      PROVE  ChainInv'
    <2>1. \A k \in Jobs : RowKept(k)
        BY <1>2, <1>7 DEF CancelGroup, RowKept, JobRow
    <2> QED
        BY <1>3, <1>4, <1>7, <2>1 DEF CancelGroup
<1>8. CASE Elapse
    BY <1>3, <1>4, <1>8 DEF Elapse, RowKept
<1>9. ASSUME NEW drain \in BOOLEAN, StartSerial(drain)
      PROVE  ChainInv'
    <2> DEFINE n == IF drain THEN MaxIterations ELSE 1
    <2>1. Chain' = [Chain EXCEPT !.pc = "tick", !.drain = drain, !.left = n]
        BY <1>2, <1>9 DEF StartSerial, Chain
    <2> HIDE DEF n
    <2>2. /\ Chain'.pc = "tick" /\ Chain'.batch = Chain.batch /\ Chain'.saved = Chain.saved
          /\ Chain.pc = "idle"
        BY <1>2, <1>9, <2>1 DEF WorkerRow, StartSerial, Chain
    <2> QED
        BY <1>3, <1>9, <2>2 DEF StartSerial, Quiet, Running, RowKept, Chain, ChainInv, ChainShape
<1>10. CASE Reclaim(Serial)
    <2>1. Chain' = [Chain EXCEPT !.pc = "claim", !.at = Clock]
        BY <1>2, <1>10 DEF Reclaim, Chain
    <2>2. /\ Chain'.pc = "claim" /\ Chain'.batch = Chain.batch /\ Chain'.saved = Chain.saved
          /\ Chain.pc = "tick" /\ Chain.batch = <<>>
        BY <1>2, <1>10, <2>1 DEF WorkerRow, Reclaim, Chain, ChainInv, ChainShape
    <2>3. ASSUME NEW j \in Jobs
          PROVE  RowKept(j)
        <3>1. job[j] \in JobRow /\ ~ InBatch(j)
            BY <1>2, <2>2 DEF InBatch
        <3>2. CASE Expired(j)
            <4>1. job'[j] = [job[j] EXCEPT !.status = "ready", !.lease = 0]
                BY <1>10, <3>2 DEF Reclaim
            <4>2. job'[j].status = "ready" /\ job'[j].attempt = job[j].attempt
                BY <3>1, <4>1 DEF JobRow
            <4> QED
                BY <3>1, <3>2, <4>2 DEF RowKept, Expired
        <3>3. CASE ~ Expired(j)
            BY <1>10, <3>3 DEF Reclaim, RowKept
        <3> QED
            BY <3>2, <3>3
    <2> QED
        BY <1>3, <1>10, <2>2, <2>3 DEF Reclaim, Quiet, Running, Chain
<1>11. CASE Handle(Serial)
    <2>1. Chain' = [Chain EXCEPT !.pc = "finish"]
        BY <1>2, <1>11 DEF Handle, Chain
    <2>2. /\ Chain'.pc = "finish" /\ Chain'.batch = Chain.batch /\ Chain'.saved = Chain.saved
          /\ Chain.pc = "run"
        BY <1>2, <1>11, <2>1 DEF WorkerRow, Handle, Chain
    <2>3. \A j \in Jobs : RowKept(j)
        BY <1>5, <1>11 DEF Handle, RowKept
    <2> QED
        BY <1>3, <1>11, <2>2, <2>3 DEF Handle, Quiet, Running, Chain
<1>12. CASE UNCHANGED vars
    BY <1>3, <1>4, <1>12 DEF vars, code, RowKept
<1>13. ASSUME NEW c \in Callers
       PROVE  FALSE
    BY DEF ChainInv
<1>14. ASSUME NEW w \in Workers, Step(w)
       PROVE  ChainInv'
    <2>1. w = Serial
        BY <1>2
    <2> QED
        BY <1>1, <1>10, <1>11, <1>14, <2>1, ChainClaim, ChainBegin, ChainFinish DEF Step
<1> QED
    BY <1>1, <1>6, <1>7, <1>8, <1>9, <1>12, <1>13, <1>14, ChainReuse, ChainCrash DEF Next

(***************************************************************************)
(* The chain's invariant holds in every reachable state.                   *)
(***************************************************************************)
LEMMA ChainInvariance == Callers = {} /\ Spec => []ChainInv
BY ChainInit, ChainStep, PTL DEF Spec

(***************************************************************************)
(* A handler is entered once per attempt and once more per death at most   *)
(* (scheduler.ts tick, storage.ts reclaimExpiredLeases).                   *)
(***************************************************************************)
THEOREM RunsAreCounted == Callers = {} /\ Spec => []RunsOncePerCrash
<1>1. ChainInv => RunsOncePerCrash
    <2> SUFFICES ASSUME ChainInv, NEW j \in Jobs
                 PROVE  begun[j] <= MaxAttempts + crashes
        BY DEF RunsOncePerCrash
    <2>1. Accounted(j) /\ job[j].attempt \in Nat /\ begun[j] \in Nat /\ crashes \in Nat
        BY CountsAreNatural DEF ChainInv
    <2> QED
        BY <2>1, AttemptsAssumption DEF Accounted
<1> QED
    BY <1>1, ChainInvariance, PTL

=============================================================================
