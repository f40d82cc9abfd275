--------------------------- MODULE WebhooksProofs ---------------------------
(***************************************************************************)
(* Proofs about Webhooks, for any events, deliveries and requests, any     *)
(* fan-out and any ladder.                                                 *)
(***************************************************************************)
EXTENDS Webhooks, TLAPS

Open == {"pending", "delivering"}

\* What a task has in hand is a row, what is queued is about a row, and an
\* idle task has none in hand.
RowsExist ==
    /\ \A w \in Tasks :
          IF task[w].pc = "idle" THEN task[w].row = NoDelivery
          ELSE task[w].row \in Deliveries /\ delivery[task[w].row].status # "none"
    /\ \A e \in Events :
          /\ publish[e].pc \in {"fanout", "enqueue"} => publish[e].left > 0
          /\ publish[e].pc = "enqueue" =>
                publish[e].row \in Deliveries /\ delivery[publish[e].row].status # "none"
    /\ \A d \in Deliveries : jobs[d] > 0 => delivery[d].status # "none"

\* Somebody will still queue an attempt at d or decide it.
Driven(d) ==
    \/ jobs[d] > 0
    \/ \E w \in Tasks : task[w].row = d /\ task[w].pc \notin {"idle", "finish"}
    \/ \E e \in Events : publish[e].row = d /\ publish[e].pc = "enqueue"

AllDriven == crashes = 0 => \A d \in Deliveries : delivery[d].status \in Open => Driven(d)

\* The scheduler is about to send d, or has sent it and not said so yet.
Trying(d) ==
    task[Scheduler].row = d /\ task[Scheduler].pc \in {"mark", "send", "record"}
Untold(d) == task[Scheduler].row = d /\ task[Scheduler].pc = "record"

\* The ladder of d, while nobody touches it by hand
Climbing(d) ==
    /\ delivery[d].status = "none" => delivery[d].attempt = 0
    /\ delivery[d].attempt <= delivery[d].maxAttempts
    /\ delivery[d].status \in Open => delivery[d].attempt < delivery[d].maxAttempts
    /\ tried[d] <= delivery[d].attempt + crashes + (IF Untold(d) THEN 1 ELSE 0)
    /\ Trying(d) => /\ delivery[d].status \in Open
                    /\ task[Scheduler].attempt = delivery[d].attempt
                    /\ task[Scheduler].maxAttempts = delivery[d].maxAttempts

Untouched ==
    manual = 0 => /\ \A r \in Requests : task[r].pc = "idle"
                  /\ task[Scheduler].pc # "reopen"
                  /\ \A d \in Deliveries : Climbing(d)

Inv == TypeOK /\ RowsExist /\ AllDriven /\ Untouched

(***************************************************************************)
(* The invariant holds before the first event.                             *)
(***************************************************************************)
LEMMA InvInit == Init => Inv
<1> SUFFICES ASSUME Init
             PROVE  Inv
    OBVIOUS
<1>1. TypeOK
    BY WebhookBounds DEF Init, TypeOK, PublishRow, DeliveryRow, TaskRow, Idle, Verdicts
<1>2. \A w \in Tasks : task[w].pc = "idle" /\ task[w].row = NoDelivery
    BY DEF Init, Idle
<1>3. RowsExist
    BY <1>2 DEF Init, RowsExist
<1>4. AllDriven
    BY DEF Init, AllDriven, Open
<1>5. Untouched
    BY <1>2 DEF Init, Untouched, Climbing, Trying, Untold, Tasks, Open
<1> QED
    BY <1>1, <1>3, <1>4, <1>5 DEF Inv

(***************************************************************************)
(* The types a step may use of the row it has in hand.                     *)
(***************************************************************************)
LEMMA TaskInHand ==
    ASSUME Inv, NEW w \in Tasks, task[w].pc # "idle"
    PROVE  /\ task \in [Tasks -> TaskRow] /\ task[w] \in TaskRow
           /\ task[w].row \in Deliveries
           /\ delivery \in [Deliveries -> DeliveryRow]
           /\ delivery[task[w].row] \in DeliveryRow
           /\ delivery[task[w].row].status # "none"
BY DEF Inv, TypeOK, RowsExist

(***************************************************************************)
(* What exists stays when a task goes on with the row it has.              *)
(***************************************************************************)
LEMMA RowsKept ==
    ASSUME Inv, NEW w \in Tasks, UNCHANGED <<publish, jobs>>,
           task[w].pc # "idle", task'[w].pc # "idle", task'[w].row = task[w].row,
           \A v \in Tasks : v # w => task'[v] = task[v],
           \A d \in Deliveries : delivery[d].status # "none" => delivery'[d].status # "none"
    PROVE  RowsExist'
<1>1. RowsExist
    BY DEF Inv
<1>2. ASSUME NEW v \in Tasks
      PROVE  IF task'[v].pc = "idle" THEN task'[v].row = NoDelivery
             ELSE task'[v].row \in Deliveries /\ delivery'[task'[v].row].status # "none"
    <2>1. CASE v = w
        BY <1>1, <2>1 DEF RowsExist
    <2>2. CASE v # w
        BY <1>1, <2>2 DEF RowsExist
    <2> QED
        BY <2>1, <2>2
<1> QED
    BY <1>1, <1>2 DEF RowsExist

(***************************************************************************)
(* Open rows stay driven when the task that has one in hand leaves it      *)
(* decided or goes on with it.                                             *)
(***************************************************************************)
LEMMA DrivenKept ==
    ASSUME Inv, NEW w \in Tasks, UNCHANGED <<publish, jobs, crashes>>,
           task'[w].row = task[w].row,
           \A v \in Tasks : v # w => task'[v] = task[v],
           \A d \in Deliveries : d # task[w].row => delivery'[d] = delivery[d],
           task'[w].pc \in {"idle", "finish"} =>
              delivery'[task[w].row].status \notin Open
    PROVE  AllDriven'
<1>1. ASSUME NEW d \in Deliveries, delivery'[d].status \in Open, crashes = 0
      PROVE  Driven(d)'
    <2>1. CASE d = task[w].row
        BY <1>1, <2>1 DEF Driven
    <2>2. CASE d # task[w].row
        <3>1. Driven(d)
            BY <1>1, <2>2 DEF Inv, AllDriven
        <3> QED
            BY <2>2, <3>1 DEF Driven
    <2> QED
        BY <2>1, <2>2
<1> QED
    BY <1>1 DEF AllDriven

(***************************************************************************)
(* Every step keeps the invariant.                                         *)
(***************************************************************************)
LEMMA InvStep == Inv /\ [Next]_vars => Inv'
<1> SUFFICES ASSUME Inv, [Next]_vars
             PROVE  Inv'
    OBVIOUS
<1> USE AttemptsAssumption, FanOutsAssumption, TasksAssumption, WebhookBounds
<1>1. ASSUME NEW e \in Events, Commit(e)
      PROVE  Inv'
    <2>1. TypeOK'
        BY <1>1 DEF Inv, Commit, TypeOK, Tasks, Verdicts, Final, PublishRow
    <2>2. RowsExist'
        BY <1>1 DEF Inv, Commit, TypeOK, RowsExist, Tasks, PublishRow
    <2>3. AllDriven'
        BY <1>1 DEF Inv, Commit, TypeOK, RowsExist, AllDriven, Driven, Tasks, Open,
           Final, PublishRow
    <2>4. Untouched'
        BY <1>1 DEF Inv, Commit, TypeOK, RowsExist, Untouched, Climbing, Trying, Untold,
           Tasks, Open, Final, PublishRow
    <2> QED
        BY <2>1, <2>2, <2>3, <2>4 DEF Inv
<1>2. ASSUME NEW e \in Events, OnEvent(e)
      PROVE  Inv'
    <2>1. TypeOK'
        <3>1. PICK n \in FanOuts :
                 publish' = [publish EXCEPT ![e].pc = IF n = 0 THEN "done" ELSE "fanout",
                                            ![e].left = n]
            BY <1>2 DEF OnEvent
        <3> DEFINE moved == [publish EXCEPT ![e].pc = IF n = 0 THEN "done" ELSE "fanout"]
        <3>2. moved \in [Events -> PublishRow] /\ publish' = [moved EXCEPT ![e].left = n]
            BY <3>1 DEF Inv, TypeOK, PublishRow
        <3> HIDE DEF moved
        <3>3. publish' \in [Events -> PublishRow]
            BY <3>2 DEF PublishRow
        <3> QED
            BY <1>2, <3>3 DEF Inv, TypeOK, OnEvent
    <2>2. RowsExist'
        BY <1>2 DEF Inv, OnEvent, TypeOK, RowsExist, Tasks, PublishRow
    <2>3. AllDriven'
        BY <1>2 DEF Inv, OnEvent, TypeOK, RowsExist, AllDriven, Driven, Tasks, Open,
           Final, PublishRow
    <2>4. Untouched'
        BY <1>2 DEF Inv, OnEvent, TypeOK, RowsExist, Untouched, Climbing, Trying,
           Untold, Tasks, Open, Final, PublishRow
    <2> QED
        BY <2>1, <2>2, <2>3, <2>4 DEF Inv
<1>3. ASSUME NEW e \in Events, ScheduleDelivery(e)
      PROVE  Inv'
    <2>1. TypeOK'
        <3> DEFINE r == [pc |-> IF publish[e].left = 1 THEN "done" ELSE "fanout",
                         left |-> publish[e].left - 1, row |-> NoDelivery]
        <3>1. r \in PublishRow
            BY <1>3 DEF ScheduleDelivery, Inv, TypeOK, RowsExist, PublishRow
        <3>2. publish' = [publish EXCEPT ![e] = r]
            BY <1>3 DEF ScheduleDelivery, Inv, TypeOK
        <3>3. jobs' \in [Deliveries -> Nat]
            BY <1>3 DEF ScheduleDelivery, Inv, TypeOK, RowsExist
        <3> HIDE DEF r
        <3> QED
            BY <1>3, <3>1, <3>2, <3>3 DEF Inv, TypeOK, ScheduleDelivery
    <2>2. RowsExist'
        BY <1>3 DEF Inv, ScheduleDelivery, TypeOK, RowsExist, Tasks, PublishRow
    <2>3. AllDriven'
        BY <1>3 DEF Inv, ScheduleDelivery, TypeOK, RowsExist, AllDriven, Driven, Tasks,
           Open, Final, PublishRow
    <2>4. Untouched'
        BY <1>3 DEF Inv, ScheduleDelivery, TypeOK, RowsExist, Untouched, Climbing,
           Trying, Untold, Tasks, Open, Final, PublishRow
    <2> QED
        BY <2>1, <2>2, <2>3, <2>4 DEF Inv
<1>4. ASSUME NEW e \in Events, NEW d \in Deliveries, CreateDelivery(e, d)
      PROVE  Inv'
    <2>1. TypeOK'
        <3>1. NewRow \in DeliveryRow
            BY AttemptsAssumption DEF NewRow, DeliveryRow
        <3>2. delivery' \in [Deliveries -> DeliveryRow]
            BY <1>4, <3>1 DEF CreateDelivery, Inv, TypeOK
        <3>3. publish' \in [Events -> PublishRow]
            <4>1. publish \in [Events -> PublishRow]
                BY DEF Inv, TypeOK
            <4>2. publish' = [publish EXCEPT ![e] =
                                [publish[e] EXCEPT !.pc = "enqueue", !.row = d]]
                BY <1>4 DEF CreateDelivery
            <4>3. [publish[e] EXCEPT !.pc = "enqueue", !.row = d] \in PublishRow
                BY <4>1 DEF PublishRow
            <4> QED
                BY <4>1, <4>2, <4>3
        <3> QED
            BY <1>4, <3>2, <3>3 DEF Inv, TypeOK, CreateDelivery
    <2>2. RowsExist'
        BY <1>4 DEF Inv, CreateDelivery, TypeOK, RowsExist, Tasks, PublishRow,
           DeliveryRow, NewRow
    <2>3. AllDriven'
        <3>1. /\ \A x \in Deliveries : x # d => delivery'[x] = delivery[x]
              /\ publish'[e].row = d /\ publish'[e].pc = "enqueue"
              /\ \A f \in Events : f # e => publish'[f] = publish[f]
              /\ publish[e].pc = "fanout"
            BY <1>4 DEF CreateDelivery, Inv, TypeOK, PublishRow
        <3>2. UNCHANGED <<jobs, task, crashes>>
            BY <1>4 DEF CreateDelivery
        <3> QED
            BY <3>1, <3>2 DEF Inv, AllDriven, Driven
    <2>4. Untouched'
        BY <1>4 DEF Inv, CreateDelivery, TypeOK, RowsExist, Untouched, Climbing, Trying,
           Untold, Tasks, Open, Final, PublishRow, DeliveryRow, NewRow
    <2> QED
        BY <2>1, <2>2, <2>3, <2>4 DEF Inv
<1>5. ASSUME NEW d \in Deliveries, StartJob(d)
      PROVE  Inv'
    <2>1. TypeOK'
        <3>1. task' \in [Tasks -> TaskRow]
            <4>1. task \in [Tasks -> TaskRow] /\ Scheduler \in Tasks
                BY DEF Inv, TypeOK, Tasks
            <4>2. task' = [task EXCEPT ![Scheduler] =
                              [task[Scheduler] EXCEPT !.pc = "read", !.row = d]]
                BY <1>5 DEF StartJob
            <4>3. [task[Scheduler] EXCEPT !.pc = "read", !.row = d] \in TaskRow
                BY <4>1 DEF TaskRow
            <4> QED
                BY <4>1, <4>2, <4>3
        <3>2. jobs' \in [Deliveries -> Nat]
            BY <1>5 DEF StartJob, Inv, TypeOK
        <3> QED
            BY <1>5, <3>1, <3>2 DEF StartJob, Inv, TypeOK
    <2>2. RowsExist'
        BY <1>5 DEF Inv, StartJob, TypeOK, RowsExist, Tasks, TaskRow
    <2>3. AllDriven'
        BY <1>5 DEF Inv, StartJob, TypeOK, RowsExist, AllDriven, Driven, Tasks, Open,
           Final, TaskRow
    <2>4. Untouched'
        BY <1>5 DEF Inv, StartJob, TypeOK, RowsExist, Untouched, Climbing, Trying,
           Untold, Tasks, Open, Final, TaskRow
    <2> QED
        BY <2>1, <2>2, <2>3, <2>4 DEF Inv
<1>6. ASSUME NEW w \in Tasks, ReadRow(w)
      PROVE  Inv'
    <2>1. TypeOK'
        <3> DEFINE row  == delivery[task[w].row]
                   next == [task[w] EXCEPT !.pc = IF Stopped(row.status) THEN "finish"
                                                  ELSE "mark",
                                           !.attempt = row.attempt,
                                           !.maxAttempts = row.maxAttempts]
        <3>1. task[w] \in TaskRow /\ row \in DeliveryRow
            BY <1>6, TaskInHand DEF ReadRow
        <3>2. next \in TaskRow
            BY <3>1 DEF TaskRow, DeliveryRow
        <3>3. task' = [task EXCEPT ![w] = next]
            BY <1>6 DEF ReadRow
        <3> HIDE DEF next
        <3>4. task' \in [Tasks -> TaskRow]
            BY <3>2, <3>3 DEF Inv, TypeOK
        <3> QED
            BY <1>6, <3>4 DEF Inv, TypeOK, ReadRow
    <2>2. RowsExist'
        <3>1. /\ task'[w].row = task[w].row
              /\ task'[w].pc \in {"finish", "mark"} /\ task[w].pc = "read"
              /\ \A v \in Tasks : v # w => task'[v] = task[v]
            BY <1>6, TaskInHand DEF ReadRow, TaskRow
        <3>2. UNCHANGED <<publish, jobs, delivery>>
            BY <1>6 DEF ReadRow
        <3> QED
            BY <3>1, <3>2, RowsKept
    <2>3. AllDriven'
        <3>1. /\ task'[w].row = task[w].row
              /\ task'[w].pc = IF delivery[task[w].row].status \in Final THEN "finish" ELSE "mark"
              /\ \A v \in Tasks : v # w => task'[v] = task[v]
            BY <1>6, TaskInHand DEF ReadRow, Stopped, TaskRow
        <3>2. UNCHANGED <<publish, delivery, jobs, crashes>>
            BY <1>6 DEF ReadRow
        <3>3. ASSUME NEW d \in Deliveries, delivery[d].status \in Open, Driven(d)
              PROVE  Driven(d)'
            <4>1. CASE task[w].row = d
                BY <3>1, <3>3, <4>1 DEF Driven, Open, Final
            <4>2. CASE task[w].row # d
                BY <3>1, <3>2, <3>3, <4>2 DEF Driven
            <4> QED
                BY <4>1, <4>2
        <3> QED
            BY <3>2, <3>3 DEF Inv, AllDriven
    <2>4. Untouched'
        <3> SUFFICES ASSUME manual = 0
                     PROVE  /\ \A r \in Requests : task'[r].pc = "idle"
                            /\ task'[Scheduler].pc # "reopen"
                            /\ \A d \in Deliveries : Climbing(d)'
            BY <1>6 DEF ReadRow, Untouched
        <3>1. w = Scheduler /\ \A r \in Requests : task[r].pc = "idle"
            BY <1>6 DEF ReadRow, Inv, Untouched, Tasks
        <3> DEFINE row == delivery[task[w].row]
        <3>2. /\ task'[w].row = task[w].row
              /\ task'[w].pc = IF row.status \in Final THEN "finish" ELSE "mark"
              /\ task'[w].attempt = row.attempt /\ task'[w].maxAttempts = row.maxAttempts
              /\ \A v \in Tasks : v # w => task'[v] = task[v]
            BY <1>6, TaskInHand DEF ReadRow, Stopped, TaskRow
        <3>3. row.status \notin Final => row.status \in Open
            BY <1>6, TaskInHand DEF ReadRow, DeliveryRow, Open, Final
        <3>4. \A r \in Requests : task'[r] = task[r]
            BY <3>1, <3>2, TasksAssumption DEF Tasks
        <3>5. UNCHANGED <<delivery, tried, crashes>> /\ task[w].pc = "read"
            BY <1>6 DEF ReadRow
        <3>6. ASSUME NEW d \in Deliveries
              PROVE  Climbing(d)'
            <4>1. Climbing(d)
                BY <3>1 DEF Inv, Untouched
            <4>2. ~ Untold(d) /\ ~ Untold(d)'
                BY <3>1, <3>2, <3>5 DEF Untold
            <4>3. Trying(d)' => /\ delivery[d].status \in Open
                                /\ task'[w].attempt = delivery[d].attempt
                                /\ task'[w].maxAttempts = delivery[d].maxAttempts
                BY <3>1, <3>2, <3>3 DEF Trying
            <4> QED
                BY <3>1, <3>5, <4>1, <4>2, <4>3 DEF Climbing
        <3> QED
            BY <3>1, <3>2, <3>4, <3>6
    <2> QED
        BY <2>1, <2>2, <2>3, <2>4 DEF Inv
<1>7. ASSUME NEW w \in Tasks, MarkDelivering(w)
      PROVE  Inv'
    <2> DEFINE h == task[w].row
               s == IF Following /\ ~ enabled THEN "failed" ELSE "delivering"
               p == IF Following /\ ~ enabled THEN "finish" ELSE "send"
               newRow == [delivery[h] EXCEPT !.status = s]
               newTask == [task[w] EXCEPT !.pc = p]
    <2>1. /\ delivery' = [delivery EXCEPT ![h] = newRow]
          /\ task' = [task EXCEPT ![w] = newTask]
          /\ task[w].pc = "mark" /\ UNCHANGED <<publish, jobs, manual, tried, crashes>>
        BY <1>7 DEF MarkDelivering
    <2>2. (s = "failed" /\ p = "finish") \/ (s = "delivering" /\ p = "send")
        OBVIOUS
    <2> HIDE DEF s, p
    <2>3. /\ task \in [Tasks -> TaskRow] /\ delivery \in [Deliveries -> DeliveryRow]
          /\ task[w] \in TaskRow /\ h \in Deliveries
          /\ delivery[h] \in DeliveryRow /\ delivery[h].status # "none"
        BY <2>1, TaskInHand
    <2>4. /\ newTask \in TaskRow /\ newTask.row = h /\ newTask.pc = p
          /\ newTask.attempt = task[w].attempt /\ newTask.maxAttempts = task[w].maxAttempts
        BY <2>2, <2>3 DEF TaskRow
    <2>5. /\ newRow \in DeliveryRow /\ newRow.status = s
          /\ newRow.attempt = delivery[h].attempt
          /\ newRow.maxAttempts = delivery[h].maxAttempts
        BY <2>2, <2>3 DEF DeliveryRow, Final
    <2> HIDE DEF newRow, newTask
    <2>6. /\ task' \in [Tasks -> TaskRow] /\ task'[w] = newTask
          /\ \A v \in Tasks : v # w => task'[v] = task[v]
        BY <2>1, <2>3, <2>4
    <2>7. /\ delivery' \in [Deliveries -> DeliveryRow] /\ delivery'[h] = newRow
          /\ \A d \in Deliveries : d # h => delivery'[d] = delivery[d]
        BY <2>1, <2>3, <2>5
    <2>8. TypeOK'
        BY <1>7, <2>6, <2>7 DEF Inv, TypeOK, MarkDelivering
    <2>9. \A d \in Deliveries : delivery[d].status # "none" => delivery'[d].status # "none"
        BY <2>2, <2>5, <2>7
    <2>10. RowsExist'
        BY <2>1, <2>2, <2>4, <2>6, <2>9, RowsKept
    <2>11. AllDriven'
        BY <2>1, <2>2, <2>4, <2>5, <2>6, <2>7, DrivenKept DEF Open
    <2>12. Untouched'
        <3> SUFFICES ASSUME manual = 0
                     PROVE  /\ \A r \in Requests : task'[r].pc = "idle"
                            /\ task'[Scheduler].pc # "reopen"
                            /\ \A d \in Deliveries : Climbing(d)'
            BY <2>1 DEF Untouched
        <3>1. w = Scheduler /\ \A r \in Requests : task[r].pc = "idle"
            BY <2>1 DEF Inv, Untouched, Tasks
        <3>2. \A r \in Requests : task'[r] = task[r]
            BY <2>6, <3>1, TasksAssumption DEF Tasks
        <3>3. ASSUME NEW d \in Deliveries
              PROVE  Climbing(d)'
            <4>1. Climbing(d) /\ ~ Untold(d) /\ ~ Untold(d)'
                BY <2>1, <2>2, <2>4, <2>6, <3>1 DEF Inv, Untouched, Untold
            <4>2. CASE d = h
                <5>1. Trying(d)
                    BY <2>1, <3>1, <4>2 DEF Trying
                <5> HIDE DEF h
                <5> QED
                    BY <2>1, <2>2, <2>4, <2>5, <2>6, <2>7, <3>1, <4>1, <4>2, <5>1
                       DEF Climbing, Trying, Open
            <4>3. CASE d # h
                <5>1. ~ Trying(d)'
                    BY <2>4, <2>6, <3>1, <4>3 DEF Trying
                <5> QED
                    BY <2>1, <2>7, <4>1, <4>3, <5>1 DEF Climbing
            <4> QED
                BY <4>2, <4>3
        <3> QED
            BY <2>2, <2>4, <2>6, <3>1, <3>2, <3>3
    <2> QED
        BY <2>8, <2>10, <2>11, <2>12 DEF Inv
<1>8. ASSUME NEW w \in Tasks, Attempt(w)
      PROVE  Inv'
    <2>1. TypeOK'
        BY <1>8, TaskInHand DEF Inv, Attempt, TypeOK, Tasks, Verdicts, Final, TaskRow
    <2>2. RowsExist'
        BY <1>8, TaskInHand DEF Inv, Attempt, TypeOK, RowsExist, Tasks, TaskRow
    <2>3. AllDriven'
        BY <1>8, TaskInHand DEF Inv, Attempt, TypeOK, RowsExist, AllDriven, Driven,
           Tasks, Open, Final, TaskRow
    <2>4. Untouched'
        BY <1>8, TaskInHand DEF Inv, Attempt, TypeOK, RowsExist, Untouched, Climbing,
           Trying, Untold, Tasks, Open, Final, TaskRow
    <2> QED
        BY <2>1, <2>2, <2>3, <2>4 DEF Inv
<1>9. ASSUME NEW w \in Tasks, Record(w)
      PROVE  Inv'
    <2> DEFINE row == delivery[task[w].row]
               now == CASE task[w].verdict = "delivered" -> "succeeded"
                        [] task[w].verdict = "stop" -> "failed"
                        [] LastAttempt(task[w].attempt + 1, task[w].maxAttempts) -> "exhausted"
                        [] OTHER -> "pending"
               newRow == [row EXCEPT !.status = now, !.attempt = task[w].attempt + 1]
               newTask == [task[w] EXCEPT !.pc = IF now = "pending" THEN "enqueue"
                                                 ELSE "finish"]
    <2>1. /\ delivery' = [delivery EXCEPT ![task[w].row].status = now,
                                           ![task[w].row].attempt = task[w].attempt + 1]
          /\ task' = [task EXCEPT ![w].pc = IF now = "pending" THEN "enqueue"
                                            ELSE "finish"]
          /\ task[w].pc = "record" /\ UNCHANGED <<publish, jobs, crashes>>
        BY <1>9 DEF Record
    <2>2. now \in {"succeeded", "failed", "exhausted", "pending"}
        BY DEF LastAttempt
    <2> HIDE DEF now
    <2>3. /\ task \in [Tasks -> TaskRow] /\ delivery \in [Deliveries -> DeliveryRow]
          /\ task[w] \in TaskRow /\ task[w].row \in Deliveries
          /\ row \in DeliveryRow /\ row.status # "none"
        BY <2>1, TaskInHand
    <2>4. delivery' = [delivery EXCEPT ![task[w].row] = newRow]
        BY <2>1, <2>3
    <2>5. task' = [task EXCEPT ![w] = newTask]
        BY <2>1, <2>3
    <2>6. /\ newTask \in TaskRow /\ newTask.row = task[w].row
          /\ newTask.pc = IF now = "pending" THEN "enqueue" ELSE "finish"
        BY <2>3 DEF TaskRow
    <2>7. task[w].attempt + 1 \in Nat
        BY <2>3 DEF TaskRow
    <2>8. newRow \in DeliveryRow /\ newRow.status = now
        BY <2>2, <2>3, <2>7 DEF DeliveryRow, Final
    <2> HIDE DEF newTask, newRow
    <2>9. /\ task' \in [Tasks -> TaskRow] /\ task'[w] = newTask
          /\ \A v \in Tasks : v # w => task'[v] = task[v]
        BY <2>3, <2>6, <2>5
    <2>10. /\ delivery' \in [Deliveries -> DeliveryRow] /\ delivery'[task[w].row] = newRow
          /\ \A d \in Deliveries : d # task[w].row => delivery'[d] = delivery[d]
        BY <2>3, <2>8, <2>4
    <2>11. TypeOK'
        BY <1>9, <2>9, <2>10 DEF Inv, TypeOK, Record
    <2>12. \A d \in Deliveries : delivery[d].status # "none" => delivery'[d].status # "none"
        BY <2>2, <2>8, <2>10
    <2>13. task'[w].pc # "idle" /\ task'[w].row = task[w].row
        BY <2>6, <2>9
    <2>14. RowsExist'
        BY <2>1, <2>9, <2>12, <2>13, RowsKept
    <2>15. delivery'[task[w].row].status = now
        BY <2>8, <2>10
    <2>16. task'[w].pc \in {"idle", "finish"} =>
              delivery'[task[w].row].status \notin Open
        BY <2>2, <2>6, <2>9, <2>15 DEF Open
    <2>17. AllDriven'
        BY <2>1, <2>9, <2>10, <2>13, <2>16, DrivenKept
    <2>18. Untouched'
        <3> SUFFICES ASSUME manual = 0
                     PROVE  /\ \A r \in Requests : task'[r].pc = "idle"
                            /\ task'[Scheduler].pc # "reopen"
                            /\ \A d \in Deliveries : Climbing(d)'
            BY <1>9 DEF Record, Untouched
        <3>1. w = Scheduler /\ \A r \in Requests : task[r].pc = "idle"
            BY <1>9 DEF Record, Inv, Untouched, Tasks
        <3> DEFINE h == task[w].row
                   attempt == task[w].attempt + 1
                   last == attempt >= task[w].maxAttempts
                   status == CASE task[w].verdict = "delivered" -> "succeeded"
                               [] task[w].verdict = "stop" -> "failed"
                               [] LastAttempt(attempt, task[w].maxAttempts) -> "exhausted"
                               [] OTHER -> "pending"
        <3>2. /\ status \in {"succeeded", "failed", "exhausted", "pending"}
              /\ status = "pending" => ~ last
            BY DEF LastAttempt
        <3>3. /\ delivery' = [delivery EXCEPT ![h].status = status, ![h].attempt = attempt]
              /\ task' = [task EXCEPT ![w].pc = IF status = "pending" THEN "enqueue"
                                                ELSE "finish"]
            BY <1>9 DEF Record
        <3> HIDE DEF status
        <3>4. /\ status \in {"succeeded", "failed", "exhausted", "pending"}
              /\ status = "pending" => ~ last
              /\ delivery' = [delivery EXCEPT ![h].status = status, ![h].attempt = attempt]
              /\ task' = [task EXCEPT ![w].pc = IF status = "pending" THEN "enqueue"
                                                ELSE "finish"]
            BY <3>2, <3>3
        <3>5. /\ h \in Deliveries /\ task[w].pc = "record" /\ task[w] \in TaskRow
              /\ delivery \in [Deliveries -> DeliveryRow]
            BY <1>9, TaskInHand DEF Record
        <3>6. /\ delivery'[h].status = status /\ delivery'[h].attempt = attempt
              /\ delivery'[h].maxAttempts = delivery[h].maxAttempts
              /\ \A d \in Deliveries : d # h => delivery'[d] = delivery[d]
            BY <3>4, <3>5 DEF DeliveryRow
        <3>7. /\ task'[w].row = h /\ task'[w].pc \in {"enqueue", "finish"}
              /\ \A v \in Tasks : v # w => task'[v] = task[v]
            BY <1>9, <3>4, TaskInHand DEF Record, TaskRow
        <3>8. \A r \in Requests : task'[r] = task[r]
            BY <3>1, <3>7, TasksAssumption DEF Tasks
        <3>9. UNCHANGED <<tried, crashes>>
            BY <1>9 DEF Record
        <3>10. ASSUME NEW d \in Deliveries
              PROVE  Climbing(d)'
            <4>1. /\ Climbing(d) /\ ~ Untold(d)' /\ ~ Trying(d)'
                  /\ delivery[d] \in DeliveryRow /\ tried[d] \in Nat /\ crashes \in Nat
                BY <3>1, <3>5, <3>7 DEF Inv, Untouched, Untold, Trying, TypeOK
            <4>2. CASE d = h
                <5>1. /\ Trying(d) /\ Untold(d)
                      /\ task[w].attempt = delivery[d].attempt
                      /\ task[w].maxAttempts = delivery[d].maxAttempts
                      /\ delivery[d].attempt < delivery[d].maxAttempts
                    BY <3>1, <3>5, <4>1, <4>2 DEF Trying, Untold, Climbing
                <5>2. tried[d] <= delivery[d].attempt + crashes + 1
                    BY <4>1, <5>1 DEF Climbing
                <5>3. delivery[d].attempt \in Nat /\ delivery[d].maxAttempts \in Nat
                    BY <4>1 DEF DeliveryRow
                <5> HIDE DEF h
                <5> QED
                    BY <3>4, <3>6, <3>9, <4>1, <4>2, <5>1, <5>2, <5>3 DEF Climbing, Open
            <4>3. CASE d # h
                <5>1. ~ Untold(d)
                    BY <3>1, <4>3 DEF Untold
                <5> QED
                    BY <3>6, <3>9, <4>1, <4>3, <5>1 DEF Climbing
            <4> QED
                BY <4>2, <4>3
        <3> QED
            BY <3>1, <3>7, <3>8, <3>10
    <2> QED
        BY <2>11, <2>14, <2>17, <2>18 DEF Inv
<1>10. ASSUME NEW w \in Tasks, EnqueueAttempt(w)
      PROVE  Inv'
    <2>1. TypeOK'
        BY <1>10, TaskInHand DEF Inv, EnqueueAttempt, TypeOK, Tasks, Verdicts, Final,
           TaskRow
    <2>2. RowsExist'
        BY <1>10, TaskInHand DEF Inv, EnqueueAttempt, TypeOK, RowsExist, Tasks, TaskRow
    <2>3. AllDriven'
        BY <1>10, TaskInHand DEF Inv, EnqueueAttempt, TypeOK, RowsExist, AllDriven,
           Driven, Tasks, Open, Final, TaskRow
    <2>4. Untouched'
        BY <1>10, TaskInHand DEF Inv, EnqueueAttempt, TypeOK, RowsExist, Untouched,
           Climbing, Trying, Untold, Tasks, Open, Final, TaskRow
    <2> QED
        BY <2>1, <2>2, <2>3, <2>4 DEF Inv
<1>11. ASSUME NEW w \in Tasks, Finish(w)
      PROVE  Inv'
    <2>1. TypeOK'
        BY <1>11, TaskInHand DEF Inv, Finish, TypeOK, Tasks, Verdicts, Final, TaskRow,
           Idle
    <2>2. RowsExist'
        BY <1>11, TaskInHand DEF Inv, Finish, TypeOK, RowsExist, Tasks, TaskRow, Idle
    <2>3. AllDriven'
        BY <1>11, TaskInHand DEF Inv, Finish, TypeOK, RowsExist, AllDriven, Driven,
           Tasks, Open, Final, TaskRow, Idle
    <2>4. Untouched'
        BY <1>11, TaskInHand DEF Inv, Finish, TypeOK, RowsExist, Untouched, Climbing,
           Trying, Untold, Tasks, Open, Final, TaskRow, Idle
    <2> QED
        BY <2>1, <2>2, <2>3, <2>4 DEF Inv
<1>12. ASSUME NEW w \in Tasks, Reopen(w)
      PROVE  Inv'
    <2>1. /\ task[w].pc = "reopen" /\ UNCHANGED <<publish, jobs, crashes>>
          /\ task \in [Tasks -> TaskRow] /\ delivery \in [Deliveries -> DeliveryRow]
          /\ task[w] \in TaskRow /\ task[w].row \in Deliveries
        BY <1>12, TaskInHand DEF Reopen
    <2>2. /\ task'[w].row = task[w].row /\ task'[w].pc = "read"
          /\ \A v \in Tasks : v # w => task'[v] = task[v]
        BY <1>12, <2>1 DEF Reopen, TaskRow
    <2>3. /\ delivery'[task[w].row].status = "pending"
          /\ \A d \in Deliveries : d # task[w].row => delivery'[d] = delivery[d]
        BY <1>12, <2>1 DEF Reopen, DeliveryRow
    <2>4. TypeOK'
        <3> DEFINE granted == IF task[w].maxAttempts > task[w].attempt
                              THEN task[w].maxAttempts ELSE task[w].attempt + 1
        <3>1. granted \in Nat
            BY <1>12, TaskInHand DEF Reopen, TaskRow
        <3>2. delivery' = [delivery EXCEPT ![task[w].row].status = "pending",
                                           ![task[w].row].maxAttempts = granted]
            BY <1>12 DEF Reopen
        <3> HIDE DEF granted
        <3>3. delivery' \in [Deliveries -> DeliveryRow]
            BY <3>1, <3>2 DEF Inv, TypeOK, DeliveryRow
        <3>4. task' \in [Tasks -> TaskRow]
            BY <1>12 DEF Reopen, Inv, TypeOK, TaskRow
        <3> QED
            BY <1>12, <3>3, <3>4 DEF Reopen, Inv, TypeOK
    <2>5. \A d \in Deliveries : delivery[d].status # "none" => delivery'[d].status # "none"
        BY <2>3
    <2>6. RowsExist'
        BY <2>1, <2>2, <2>5, RowsKept
    <2>7. AllDriven'
        BY <2>1, <2>2, <2>3, DrivenKept
    <2>8. Untouched'
        BY <1>12, TaskInHand DEF Inv, Reopen, TypeOK, RowsExist, Untouched, Climbing,
           Trying, Untold, Tasks, Open, Final, TaskRow, DeliveryRow
    <2> QED
        BY <2>4, <2>6, <2>7, <2>8 DEF Inv
<1>13. ASSUME NEW r \in Requests, NEW d \in Deliveries, RetryNow(r, d)
      PROVE  Inv'
    <2>1. TypeOK'
        <3> DEFINE asked == [Idle EXCEPT !.pc = "reopen", !.row = d,
                               !.attempt = delivery[d].attempt,
                               !.maxAttempts = delivery[d].maxAttempts]
                   opening == [Idle EXCEPT !.pc = "reopen"]
                   holding == [opening EXCEPT !.row = d]
                   counted == [holding EXCEPT !.attempt = delivery[d].attempt]
        <3>1. delivery[d].attempt \in Nat /\ delivery[d].maxAttempts \in Nat
            BY DEF Inv, TypeOK, DeliveryRow
        <3>2. opening \in TaskRow
            BY DEF Idle, TaskRow, Verdicts
        <3> HIDE DEF opening
        <3>3. holding \in TaskRow
            BY <3>2 DEF TaskRow
        <3> HIDE DEF holding
        <3>4. counted \in TaskRow
            BY <3>1, <3>3 DEF TaskRow
        <3> HIDE DEF counted
        <3>5. [counted EXCEPT !.maxAttempts = delivery[d].maxAttempts] \in TaskRow
            BY <3>1, <3>4 DEF TaskRow
        <3>6. task' = [task EXCEPT ![r] = asked] /\ manual' \in 0..MaxManual
            BY <1>13, WebhookBounds DEF RetryNow, Inv, TypeOK
        <3>7. asked = [counted EXCEPT !.maxAttempts = delivery[d].maxAttempts]
            BY DEF counted, holding, opening
        <3> HIDE DEF asked
        <3> QED
            BY <1>13, <3>5, <3>6, <3>7 DEF RetryNow, Inv, TypeOK
    <2>2. RowsExist'
        BY <1>13 DEF Inv, RetryNow, TypeOK, RowsExist, Tasks, TaskRow, DeliveryRow, Idle
    <2>3. AllDriven'
        BY <1>13 DEF Inv, RetryNow, TypeOK, RowsExist, AllDriven, Driven, Tasks, Open,
           Final, TaskRow, DeliveryRow, Idle
    <2>4. Untouched'
        BY <1>13 DEF Inv, RetryNow, TypeOK, RowsExist, Untouched, Climbing, Trying,
           Untold, Tasks, Open, Final, TaskRow, DeliveryRow, Idle
    <2> QED
        BY <2>1, <2>2, <2>3, <2>4 DEF Inv
<1>14. ASSUME NEW r \in Requests, NEW d \in Deliveries, NEW copy \in Deliveries,
            Replay(r, d, copy)
      PROVE  Inv'
    <2>1. TypeOK'
        <3> DEFINE asked == [Idle EXCEPT !.pc = "enqueue", !.row = copy]
                   replica == [NewRow EXCEPT !.maxAttempts = delivery[d].maxAttempts]
                   queueing == [Idle EXCEPT !.pc = "enqueue"]
        <3>1. queueing \in TaskRow
            BY DEF Idle, TaskRow, Verdicts
        <3>2. asked = [queueing EXCEPT !.row = copy]
            OBVIOUS
        <3> HIDE DEF queueing
        <3>3. [queueing EXCEPT !.row = copy] \in TaskRow
            BY <3>1 DEF TaskRow
        <3>4. replica \in DeliveryRow
            BY DEF Inv, TypeOK, DeliveryRow, NewRow
        <3>5. /\ task' = [task EXCEPT ![r] = asked] /\ manual' \in 0..MaxManual
              /\ delivery' = [delivery EXCEPT ![copy] = replica]
            BY <1>14, WebhookBounds DEF Replay, Inv, TypeOK
        <3>6. asked \in TaskRow
            BY <3>2, <3>3
        <3> HIDE DEF asked, replica
        <3>7. delivery' \in [Deliveries -> DeliveryRow]
            BY <3>4, <3>5 DEF Inv, TypeOK
        <3>8. task' \in [Tasks -> TaskRow]
            BY <3>5, <3>6 DEF Inv, TypeOK
        <3> QED
            BY <1>14, <3>5, <3>7, <3>8 DEF Replay, Inv, TypeOK
    <2>2. RowsExist'
        BY <1>14 DEF Inv, Replay, TypeOK, RowsExist, Tasks, TaskRow, DeliveryRow,
           NewRow, Idle
    <2>3. AllDriven'
        BY <1>14 DEF Inv, Replay, TypeOK, RowsExist, AllDriven, Driven, Tasks, Open,
           Final, TaskRow, DeliveryRow, NewRow, Idle
    <2>4. Untouched'
        BY <1>14 DEF Inv, Replay, TypeOK, RowsExist, Untouched, Climbing, Trying,
           Untold, Tasks, Open, Final, TaskRow, DeliveryRow, NewRow, Idle
    <2> QED
        BY <2>1, <2>2, <2>3, <2>4 DEF Inv
<1>15. CASE ToggleEndpoint
    <2>1. TypeOK'
        BY <1>15 DEF Inv, ToggleEndpoint, TypeOK, Tasks, Verdicts, Final
    <2>2. RowsExist'
        BY <1>15 DEF Inv, ToggleEndpoint, TypeOK, RowsExist, Tasks
    <2>3. AllDriven'
        BY <1>15 DEF Inv, ToggleEndpoint, TypeOK, RowsExist, AllDriven, Driven, Tasks,
           Open, Final
    <2>4. Untouched'
        BY <1>15 DEF Inv, ToggleEndpoint, TypeOK, RowsExist, Untouched, Climbing,
           Trying, Untold, Tasks, Open, Final
    <2> QED
        BY <2>1, <2>2, <2>3, <2>4 DEF Inv
<1>16. CASE Crash
    <2>1. TypeOK'
        <3>1. task' \in [Tasks -> TaskRow]
            BY <1>16 DEF Crash, Idle, TaskRow, Verdicts
        <3>2. publish' \in [Events -> PublishRow]
            BY <1>16 DEF Crash, Inv, TypeOK, PublishRow
        <3>3. jobs' \in [Deliveries -> Nat] /\ crashes' \in 0..MaxCrashes
            BY <1>16, WebhookBounds DEF Crash, Inv, TypeOK
        <3> QED
            BY <1>16, <3>1, <3>2, <3>3 DEF Crash, Inv, TypeOK
    <2>2. RowsExist'
        BY <1>16 DEF Inv, Crash, TypeOK, RowsExist, Tasks, Idle
    <2>3. AllDriven'
        BY <1>16 DEF Inv, Crash, TypeOK, RowsExist, AllDriven, Driven, Tasks, Open,
           Final, Idle
    <2>4. Untouched'
        <3>1. /\ \A w \in Tasks : task'[w].pc = "idle"
              /\ Scheduler \in Tasks /\ Requests \subseteq Tasks
            BY <1>16 DEF Crash, Idle, Tasks
        <3>2. crashes' = crashes + 1 /\ UNCHANGED <<delivery, tried, manual>>
            BY <1>16 DEF Crash
        <3>3. ASSUME NEW d \in Deliveries, Climbing(d)
              PROVE  Climbing(d)'
            <4>1. ~ Untold(d)' /\ ~ Trying(d)'
                BY <3>1 DEF Untold, Trying
            <4>2. delivery[d] \in DeliveryRow /\ tried[d] \in Nat /\ crashes \in Nat
                BY DEF Inv, TypeOK
            <4>3. delivery[d].attempt \in Nat
                BY <4>2 DEF DeliveryRow
            <4> QED
                BY <3>2, <3>3, <4>1, <4>2, <4>3 DEF Climbing
        <3> QED
            BY <3>1, <3>2, <3>3 DEF Inv, Untouched
    <2> QED
        BY <2>1, <2>2, <2>3, <2>4 DEF Inv
<1>17. CASE UNCHANGED vars
    BY <1>17 DEF vars, Inv, TypeOK, RowsExist, AllDriven, Driven, Untouched, Climbing,
       Trying, Untold
<1> QED
    BY <1>1, <1>2, <1>3, <1>4, <1>5, <1>6, <1>7, <1>8, <1>9, <1>10, <1>11, <1>12, <1>13,
       <1>14, <1>15, <1>16, <1>17 DEF Next, Publication, Step

(***************************************************************************)
(* The invariant holds in every state.                                     *)
(***************************************************************************)
LEMMA InvAlways == Spec => []Inv
<1> QED
    BY InvInit, InvStep, PTL DEF Spec

(***************************************************************************)
(* While nobody touches a delivery by hand, only the scheduler sends or    *)
(* decides one, and only one that is still open.                           *)
(***************************************************************************)
LEMMA OnlyOpenIsTried ==
    ASSUME Inv, manual = 0, NEW w \in Tasks, task[w].pc \in {"mark", "send", "record"}
    PROVE  task[w].row \in Deliveries /\ delivery[task[w].row].status \in Open
<1>1. w = Scheduler
    BY DEF Inv, Untouched, Tasks
<1>2. task[w].row \in Deliveries
    BY TaskInHand
<1>3. Climbing(task[w].row) /\ Trying(task[w].row)
    BY <1>1, <1>2 DEF Inv, Untouched, Trying
<1> QED
    BY <1>2, <1>3 DEF Climbing

(***************************************************************************)
(* No step touches a final delivery while nobody does by hand: by action,  *)
(* the rows a step writes or sends are new or open (dispatcher.ts          *)
(* deliver: "a job left in the queue from before the refusal must not send *)
(* it again").                                                             *)
(***************************************************************************)
LEMMA QuietStep ==
    ASSUME Inv, [Next]_vars, manual' = 0, NEW d \in Deliveries,
           delivery[d].status \in Final
    PROVE  tried'[d] = tried[d] /\ delivery'[d] = delivery[d]
<1>1. delivery \in [Deliveries -> DeliveryRow] /\ tried \in [Deliveries -> Nat]
      /\ manual \in Nat
    BY WebhookBounds DEF Inv, TypeOK
<1>2. delivery[d].status \notin Open /\ delivery[d].status # "none"
    BY DEF Open, Final
<1>3. ASSUME NEW e \in Events, Commit(e) \/ Publication(e)
      PROVE  tried'[d] = tried[d] /\ delivery'[d] = delivery[d]
    <2>1. ASSUME NEW x \in Deliveries, CreateDelivery(e, x)
          PROVE  tried'[d] = tried[d] /\ delivery'[d] = delivery[d]
        BY <1>1, <1>2, <2>1 DEF CreateDelivery
    <2> QED
        BY <1>3, <2>1 DEF Publication, Commit, OnEvent, ScheduleDelivery
<1>4. ASSUME NEW x \in Deliveries, StartJob(x)
      PROVE  tried'[d] = tried[d] /\ delivery'[d] = delivery[d]
    BY <1>4 DEF StartJob
<1>5. ASSUME NEW w \in Tasks, Step(w)
      PROVE  tried'[d] = tried[d] /\ delivery'[d] = delivery[d]
    <2>1. CASE ReadRow(w) \/ EnqueueAttempt(w) \/ Finish(w)
        BY <2>1 DEF ReadRow, EnqueueAttempt, Finish
    <2>2. CASE MarkDelivering(w)
        <3>1. manual = 0 /\ task[w].row # d
            BY <2>2, <1>2, OnlyOpenIsTried DEF MarkDelivering
        <3> QED
            BY <1>1, <2>2, <3>1 DEF MarkDelivering
    <2>3. CASE Attempt(w)
        <3>1. manual = 0 /\ task[w].row # d
            BY <2>3, <1>2, OnlyOpenIsTried DEF Attempt
        <3> QED
            BY <1>1, <2>3, <3>1 DEF Attempt
    <2>4. CASE Record(w)
        <3>1. manual = 0 /\ task[w].row # d
            BY <2>4, <1>2, OnlyOpenIsTried DEF Record
        <3> QED
            BY <1>1, <2>4, <3>1 DEF Record
    <2>5. CASE Reopen(w)
        BY <2>5 DEF Reopen, Inv, Untouched, Tasks
    <2> QED
        BY <1>5, <2>1, <2>2, <2>3, <2>4, <2>5 DEF Step
<1>6. ASSUME NEW r \in Requests, NEW x \in Deliveries,
             RetryNow(r, x) \/ \E copy \in Deliveries : Replay(r, x, copy)
      PROVE  FALSE
    <2>1. manual' = manual + 1
        BY <1>6 DEF RetryNow, Replay
    <2> QED
        BY <1>1, <2>1
<1>7. CASE ToggleEndpoint \/ Crash \/ UNCHANGED vars
    BY <1>7 DEF ToggleEndpoint, Crash, vars
<1> QED
    BY <1>3, <1>4, <1>5, <1>6, <1>7 DEF Next

(***************************************************************************)
(* For any number of events, deliveries and deaths, without manual retries *)
(* no row passes its ladder, and the attempts made pass it at most once    *)
(* per death: from the climb of each row (dispatcher.ts #record).          *)
(***************************************************************************)
THEOREM LadderIsKept == Spec => []LadderKept
<1>1. Inv => LadderKept
    <2> SUFFICES ASSUME Inv, manual = 0, NEW d \in Deliveries
                 PROVE  /\ delivery[d].attempt <= delivery[d].maxAttempts
                        /\ tried[d] <= delivery[d].maxAttempts + crashes
        BY DEF LadderKept, Inv
    <2>1. Climbing(d)
        BY DEF Inv, Untouched
    <2>2. delivery[d] \in DeliveryRow /\ tried[d] \in Nat /\ crashes \in Nat
        BY WebhookBounds DEF Inv, TypeOK
    <2>3. delivery[d].attempt \in Nat /\ delivery[d].maxAttempts \in Nat
        BY <2>2 DEF DeliveryRow
    <2>4. Untold(d) => delivery[d].attempt < delivery[d].maxAttempts
        BY <2>1 DEF Climbing, Untold, Trying
    <2> QED
        BY <2>1, <2>2, <2>3, <2>4 DEF Climbing
<1> QED
    BY <1>1, InvAlways, PTL

(***************************************************************************)
(* No delivery is forgotten while the process lives, for any concurrent    *)
(* retries and replays: an open row has a job queued or a task or          *)
(* publication that will still queue or decide it (dispatcher.ts           *)
(* #createAndSchedule, retryNow).                                          *)
(***************************************************************************)
THEOREM OpenStaysDriven == Spec => []OpenIsDriven
<1>1. Inv => OpenIsDriven
    BY DEF Inv, AllDriven, Driven, OpenIsDriven, InHand, Open
<1> QED
    BY <1>1, InvAlways, PTL

(***************************************************************************)
(* Without manual retries a final delivery is neither sent again nor       *)
(* decided again by any job left from before (dispatcher.ts deliver).      *)
(***************************************************************************)
THEOREM FinalStaysQuiet == Spec => FinalIsQuiet
<1>1. Inv /\ [Next]_vars =>
          [\A d \in Deliveries :
              delivery[d].status \in Final /\ manual' = 0
                  => tried'[d] = tried[d] /\ delivery'[d] = delivery[d]]_vars
    BY QuietStep
<1> QED
    BY <1>1, InvAlways, PTL DEF Spec, FinalIsQuiet
=============================================================================
