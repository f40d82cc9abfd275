------------------------------ MODULE Gateway ------------------------------
(***************************************************************************)
(* What every provider adapter is made of: requests that run a short       *)
(* program of engine calls, each its own transaction, on one payment or    *)
(* payout; the jobs they queue for its outcome and its expiry; and the     *)
(* scheduler that runs those.  Between two calls of a program every other  *)
(* request and job may run, and the process may die.  The adapters EXTEND  *)
(* this module with one action per route, which starts its program.        *)
(***************************************************************************)
EXTENDS StateMachines, Sequences, FiniteSets

CONSTANTS
    Outcomes,   \* what cards and wallets answer, of AllOutcomes
    Callers,    \* concurrent requests
    Poll,       \* the scheduler's task
    MaxJobs,    \* bound: jobs queued at once
    MaxAttempts,\* bound: attempts QuiddPay keeps of one session
    MaxDeaths,  \* bound: times the process dies
    MaxRequests \* bound: requests in all

ASSUME CallersAssumption == Poll \notin Callers
ASSUME GatewayBounds == MaxJobs \in Nat /\ MaxAttempts \in Nat /\ MaxDeaths \in Nat
                         /\ MaxRequests \in Nat

Tasks == Callers \cup {Poll}

VARIABLES
    provider,   \* the adapter the row belongs to
    row,        \* the payment or payout; kind "none" before it is created
    refund,     \* status of the refund of the payment, or "none"
    jobs,       \* the jobs of the row that are queued
    batch,      \* the jobs the scheduler claimed and has not finished
    task,       \* where each request, and the scheduler's handler, is
    record,     \* the stored answer to the idempotency key
    attempt,    \* the attempts QuiddPay keeps beside its payment
    deaths,     \* bound: deaths so far
    past        \* history: what happened to the row so far

vars == <<provider, row, refund, jobs, batch, task, record, attempt, deaths, past>>

Status == PaymentStatus \cup TransferStatus
AllOutcomes == {"success", "declined", "authentication_required",
                "authentication_failed", "network_error"}

ASSUME OutcomesAssumption == "success" \in Outcomes /\ Outcomes \subseteq AllOutcomes

Job == [kind : {"simulate", "expire", "settle", "refund"}, outcome : STRING]

Rail == {"momo", "bank_transfer", "cash"}
AttemptStatus == {"pending", "paid", "failed", "expired", "cancelled",
                  "reversed", "manual_review"}

Idle == [todo |-> <<>>, seen |-> "none", note |-> 0, late |-> FALSE]
Free(t) == task[t].todo = <<>>
Queued(k, o) == [kind |-> k, outcome |-> o]

TypeOK ==
    /\ row \in [kind : {"none", "payment", "payout"}, status : Status,
                flags : SUBSET {"manual", "pin", "subscribed"}]
    /\ refund \in RefundStatus \cup {"none"}
    /\ Len(jobs) <= MaxJobs
    /\ record \in {"none", "stored"}
    /\ Len(attempt) <= MaxAttempts
    /\ \A i \in DOMAIN attempt :
          attempt[i] \in [rail : Rail, status : AttemptStatus]
    /\ deaths \in 0..MaxDeaths
    /\ past.requests \in 0..MaxRequests /\ past.collected \in Nat

GatewayInit ==
    /\ row = [kind |-> "none", status |-> "created", flags |-> {}]
    /\ refund = "none"
    /\ jobs = <<>>
    /\ batch = <<>>
    /\ task = [t \in Tasks |-> Idle]
    /\ record = "none"
    /\ attempt = <<>>
    /\ deaths = 0
    /\ past = [requests |-> 0, collected |-> 0, retried |-> FALSE, repeated |-> FALSE]

\* The sequence of the members of s at the positions I, in their order (of
\* which there is one)
Picks(s, I) ==
    LET n == Cardinality(I)
    IN  {[i \in 1..n |-> s[at[i]]] :
            at \in {f \in [1..n -> I] : \A i, j \in 1..n : i < j => f[i] < f[j]}}

-----------------------------------------------------------------------------
\* The member of a set of one
Only(S) == CHOOSE x \in S : TRUE

\* The calls a program is made of
Call(op, to, in) == [op |-> op, to |-> to, in |-> in]

Create(kind, s)  == <<Call("create", s, {kind})>>
CreateWith(s, flags) == <<Call("create", s, {"payment"} \cup flags)>>
CreatePayout(s, flags) == <<Call("create", s, {"payout"} \cup flags)>>
Ensure(s)        == <<Call("create", s, {"payment", "reuse"})>>
Require(S)       == <<Call("require", "any", S)>>
Read             == <<Call("read", "any", {})>>
To(s)            == <<Call("to", s, {})>>
When(S, s)       == <<Call("when", s, S)>>   \* only if last seen in S
Unless(s)        == <<Call("hop", s, {})>>   \* unless last seen there
Resume(s)        == <<Call("resume", s, {})>>  \* a retry, if seen failed
Flag(f)          == <<Call("flag", f, {})>>
Refund           == <<Call("refund", "pending", {})>>
RefundRequire(S) == <<Call("refundRequire", "any", S)>>
RefundTo(s)      == <<Call("refundTo", s, {})>>
Lookup           == <<Call("lookup", "any", {})>>
Store            == <<Call("store", "any", {})>>
NonePending      == <<Call("nonePending", "any", {})>>
Begin(rail)      == <<Call("begin", rail, {})>>
Put(i, s)        == <<Call("put", s, {i})>>  \* i = 0: the one just begun

\* Mutant: the answer is given and its job forgotten
EnqueueNever(kind, outcome) == <<>>

\* A job is queued for the row.
Enqueue(kind, outcome) == <<Call("enqueue", outcome, {kind})>>

PLANS ==
    [o \in AllOutcomes |->
        CASE o = "success" -> <<"processing", "successful">>
          [] o = "declined" -> <<"processing", "failed">>
          [] o = "network_error" -> <<"failed">>
          [] o = "authentication_required" -> <<"requires_action">>
          [] o = "authentication_failed" -> <<"requires_action", "failed">>]

\* simulator.apply: read once, then a transition for every hop of the plan
\* that the payment, as read or as last moved, has not made.
Apply(o) ==
    Read \o [i \in 1..Len(PLANS[o]) |-> Call("hop", PLANS[o][i], {})]

\* A step-up that was made has nothing left to ask for.
Stepped(o) == IF o = "authentication_required" THEN "success" ELSE o

\* The job of handleJob: what its handler does
HandlerOf(j) ==
    CASE j.kind = "simulate" -> Apply(j.outcome)
      [] j.kind = "expire" ->
            Require({"created", "pending", "processing", "requires_action"})
                \o To("expired")
      [] j.kind = "settle" ->
            Require({"pending", "processing"})
                \o When({"pending"}, "processing") \o To(j.outcome)
      [] j.kind = "refund" ->
            RefundRequire({"pending"}) \o RefundTo("processing")
                \o RefundTo(j.outcome)

-----------------------------------------------------------------------------
\* A request arrives and its handler runs the program.
Serve(t, program) ==
    /\ Free(t)
    /\ past.requests < MaxRequests
    /\ past' = [past EXCEPT !.requests = @ + 1]
    /\ task' = [task EXCEPT ![t] =
                  [Idle EXCEPT !.todo = program, !.seen = row.status]]
    /\ UNCHANGED <<provider, row, refund, jobs, batch, record, attempt, deaths>>

\* ... under a key the caller uses again when it repeats the request
ServeKeyed(t, program) ==
    /\ Free(t)
    /\ past.requests < MaxRequests
    /\ past' = [past EXCEPT !.requests = @ + 1]
    /\ task' = [task EXCEPT ![t] =
                  [Idle EXCEPT !.todo = program,
                               !.late = (record = "stored")]]
    /\ UNCHANGED <<provider, row, refund, jobs, batch, record, attempt, deaths>>

\* The request creates the row, and is only tried while there is none, unless
\* it carries a key.
ServeNew(t, program) == row.kind = "none" /\ Serve(t, program)

\* The request names a row that exists.
ServeOn(kind, t, program) == row.kind = kind /\ Serve(t, program)

\* ... where the handler does nothing before its first read of the row
ServeRead(t, program) ==
    ServeOn("payment", t, IF Head(program).op = "read" THEN Tail(program) ELSE program)

\* ... a payment, and is refused unless its status is one of S.
ServeIn(S, t, program) ==
    row.status \in S /\ ServeOn("payment", t, program)

\* The host's idempotency plugin around a route: the answer on record is looked
\* up before the handler runs and stored after it, and only if it succeeded.
WithKey(program) == Lookup \o program \o Store

Current(t) == Head(task[t].todo)
Rest(t) == Tail(task[t].todo)
At(t, op) == ~ Free(t) /\ Current(t).op = op

\* What a task has left to do; nothing is kept of one that is done.
Goes(t, rest, seen) ==
    task' = [task EXCEPT ![t] = IF rest = <<>> THEN Idle
                                ELSE [@ EXCEPT !.todo = rest, !.seen = seen]]

\* The call throws, or the handler answers early: the rest is not run.
Stops(t) == task' = [task EXCEPT ![t] = Idle]

\* createPayment or createTransfer: a reference that was used is refused, or
\* its payment charged again; under a reference of its own a second row is
\* created, and of that one only the stored answer is followed.
DoCreate(t) ==
    LET c     == Current(t)
        kind  == IF "payout" \in c.in THEN "payout" ELSE "payment"
        again == IF "expires" \in c.in THEN Enqueue("expire", "expired") ELSE <<>>
        kept  == IF \E i \in DOMAIN Rest(t) : Rest(t)[i].op = "store"
                 THEN Store ELSE <<>>
        made  == [past EXCEPT !.repeated = @ \/ task[t].late]
    IN  /\ At(t, "create")
        /\ IF row.kind = kind /\ "reuse" \in c.in
           THEN Goes(t, Rest(t), row.status) /\ UNCHANGED <<row, past>>
           ELSE IF row.kind # "none" /\ "fresh" \in c.in
           THEN /\ Goes(t, kept, c.to)
                /\ past' = made /\ UNCHANGED row
           ELSE IF row.kind # "none"
           THEN Stops(t) /\ UNCHANGED <<row, past>>
           ELSE /\ row' = [kind |-> kind, status |-> c.to,
                           flags |-> c.in \cap {"manual"}]
                /\ Goes(t, again \o Rest(t), c.to)
                /\ past' = made
        /\ UNCHANGED <<provider, refund, jobs, batch, record, attempt, deaths>>

\* The handler reads the row, and refuses a status it cannot serve.
DoRead(t) ==
    LET c == Current(t)
    IN  /\ At(t, "read") \/ At(t, "require")
        /\ IF c.op = "read" \/ row.status \in c.in
           THEN Goes(t, Rest(t), row.status)
           ELSE Stops(t)
        /\ UNCHANGED <<provider, row, refund, jobs, batch, record, attempt, deaths, past>>

Legal(to, retry) ==
    IF row.kind = "payout" THEN assertTransferTransition(row.status, to)
    ELSE assertPaymentTransition(row.status, to, FALSE, retry)

\* What a payment that ended leaves to do: its jobs are cancelled.
Cleanup(to) ==
    IF row.kind = "payment" /\ (to \in TerminalPayment \/ to = "successful")
    THEN <<Call("cancelGroup", "any", {})>> ELSE <<>>

\* transitionPayment or transitionTransfer, alone or as a hop of apply
DoMove(t) ==
    LET c == Current(t)
    IN  /\ ~ Free(t) /\ c.op \in {"to", "resume", "hop", "when"}
        /\ IF \/ c.op = "hop" /\ task[t].seen = c.to
              \/ c.op = "when" /\ task[t].seen \notin c.in
           THEN Goes(t, Rest(t), task[t].seen) /\ UNCHANGED <<row, past>>
           ELSE IF Legal(c.to, c.op = "resume" /\ task[t].seen = "failed")
           THEN /\ row' = [row EXCEPT !.status = c.to]
                /\ Goes(t, Cleanup(c.to) \o Rest(t), c.to)
                /\ past' = [past EXCEPT
                              !.collected = IF c.to = "successful" THEN @ + 1 ELSE @,
                              !.retried = @ \/ row.status = "failed"]
           ELSE Stops(t) /\ UNCHANGED <<row, past>>
        /\ UNCHANGED <<provider, refund, jobs, batch, record, attempt, deaths>>

\* The group payment:<id>
OfPayment(j) == j.kind \in {"simulate", "expire"}

\* cancelGroup: what is queued goes; what was claimed runs all the same, but
\* is not taken up again if the process dies.
DoCancelGroup(t) ==
    /\ At(t, "cancelGroup")
    /\ jobs' \in Picks(jobs, {i \in DOMAIN jobs : ~ OfPayment(jobs[i])})
    /\ batch' = [i \in DOMAIN batch |->
                    [batch[i] EXCEPT !.cancelled = @ \/ OfPayment(batch[i].job)]]
    /\ Goes(t, Rest(t), task[t].seen)
    /\ UNCHANGED <<provider, row, refund, record, attempt, deaths, past>>

DoEnqueue(t) ==
    LET c == Current(t)
    IN  /\ At(t, "enqueue")
        /\ Len(jobs) < MaxJobs
        /\ jobs' = Append(jobs, Queued(Only(c.in), c.to))
        /\ Goes(t, Rest(t), task[t].seen)
        /\ UNCHANGED <<provider, row, refund, batch, record, attempt, deaths, past>>

\* A marker the handler writes on the row for a later request to read
DoFlag(t) ==
    /\ At(t, "flag")
    /\ row' = [row EXCEPT !.flags = @ \cup {Current(t).to}]
    /\ Goes(t, Rest(t), task[t].seen)
    /\ UNCHANGED <<provider, refund, jobs, batch, record, attempt, deaths, past>>

\* createRefund for the full amount; bound: one refund is asked for
DoRefund(t) ==
    /\ At(t, "refund")
    /\ IF row.status \in {"successful", "partially_refunded"}
          /\ refund = "none"
       THEN refund' = "pending" /\ Goes(t, Rest(t), task[t].seen)
       ELSE Stops(t) /\ UNCHANGED refund
    /\ UNCHANGED <<provider, row, jobs, batch, record, attempt, deaths, past>>

DoRefundRequire(t) ==
    /\ At(t, "refundRequire")
    /\ IF refund \in Current(t).in THEN Goes(t, Rest(t), task[t].seen) ELSE Stops(t)
    /\ UNCHANGED <<provider, row, refund, jobs, batch, record, attempt, deaths, past>>

\* transitionRefund: a settled one moves its payment in the same transaction.
DoRefundTo(t) ==
    LET to == Current(t).to
        ok == /\ refund # "none"
              /\ assertRefundTransition(refund, to)
              /\ to = "successful" =>
                    assertPaymentTransition(row.status, "refunded", FALSE, FALSE)
    IN  /\ At(t, "refundTo")
        /\ IF ok THEN /\ refund' = to
                      /\ row' = IF to = "successful"
                                THEN [row EXCEPT !.status = "refunded"] ELSE row
                      /\ Goes(t, Rest(t), task[t].seen)
                 ELSE Stops(t) /\ UNCHANGED <<refund, row>>
        /\ UNCHANGED <<provider, jobs, batch, record, attempt, deaths, past>>

\* Mutant: the answer is never found again
LookedUpNothing == FALSE

\* The key has an answer on record, which is replayed.
LookedUp == record = "stored"

DoLookup(t) ==
    /\ At(t, "lookup")
    /\ IF LookedUp THEN Stops(t) ELSE Goes(t, Rest(t), task[t].seen)
    /\ UNCHANGED <<provider, row, refund, jobs, batch, record, attempt, deaths, past>>

DoStore(t) ==
    /\ At(t, "store")
    /\ record' = "stored"
    /\ Goes(t, Rest(t), task[t].seen)
    /\ UNCHANGED <<provider, row, refund, jobs, batch, attempt, deaths, past>>

\* Which attempt of the session a call is about, and what it writes there: a
\* status decided beforehand, or what the payment it last saw amounts to.
Subject(t) == LET i == Only(Current(t).in)
              IN  IF i = 0 THEN task[t].note ELSE i

Seen(s) ==
    CASE s \in {"successful", "refunded", "partially_refunded"} -> "paid"
      [] s = "expired" -> "expired"
      [] OTHER -> "failed"

DoAttempt(t) ==
    LET c == Current(t)
    IN  /\ ~ Free(t) /\ c.op \in {"nonePending", "begin", "put"}
        /\ \/ /\ c.op = "nonePending"
              /\ IF \E i \in DOMAIN attempt : attempt[i].status = "pending"
                 THEN Stops(t) ELSE Goes(t, Rest(t), task[t].seen)
              /\ UNCHANGED attempt
           \/ /\ c.op = "begin"
              /\ Len(attempt) < MaxAttempts
              /\ attempt' = Append(attempt, [rail |-> c.to, status |-> "pending"])
              /\ task' = [task EXCEPT ![t] =
                            IF Rest(t) = <<>> THEN Idle
                            ELSE [@ EXCEPT !.todo = Rest(t), !.note = Len(attempt')]]
           \/ /\ c.op = "put"
              /\ attempt' = [attempt EXCEPT ![Subject(t)].status =
                               IF c.to = "seen" THEN Seen(task[t].seen) ELSE c.to]
              /\ Goes(t, Rest(t), task[t].seen)
        /\ UNCHANGED <<provider, row, refund, jobs, batch, record, deaths, past>>

-----------------------------------------------------------------------------
\* claimDue: one of the queued jobs, or all of them, become a batch.
Claim ==
    /\ batch = <<>> /\ Free(Poll)
    /\ jobs # <<>>
    /\ LET claimed(s) == [i \in DOMAIN s |->
                            [job |-> s[i], cancelled |-> FALSE, begun |-> FALSE]]
       IN  \/ \E i \in DOMAIN jobs :
                 batch' = claimed(<<jobs[i]>>) /\ jobs' \in Picks(jobs, DOMAIN jobs \ {i})
           \/ batch' = claimed(jobs) /\ jobs' = <<>>
    /\ UNCHANGED <<provider, row, refund, task, record, attempt, deaths, past>>

\* The handler of the next job of the batch; the job before it is done.
RunJob ==
    /\ batch # <<>> /\ Free(Poll)
    /\ IF batch[1].begun
       THEN batch' = Tail(batch) /\ UNCHANGED task
       ELSE /\ batch' = [batch EXCEPT ![1].begun = TRUE]
            /\ task' = [task EXCEPT ![Poll] =
                          [Idle EXCEPT !.todo = HandlerOf(batch[1].job)]]
    /\ UNCHANGED <<provider, row, refund, jobs, record, attempt, deaths, past>>

\* Mutant: claimed jobs are lost with the process
ReclaimedNone == {}

\* The leases of the dead process run out and its jobs are ready again.
Reclaimed == {i \in DOMAIN batch : ~ batch[i].cancelled}

\* The process dies: requests are gone, rows and jobs are not.
Die ==
    /\ deaths < MaxDeaths
    /\ Len(jobs) + Len(batch) <= MaxJobs
    /\ deaths' = deaths + 1
    /\ \E live \in Picks(batch, Reclaimed) :
          jobs' = [i \in DOMAIN live |-> live[i].job] \o jobs
    /\ batch' = <<>>
    /\ task' = [t \in Tasks |-> Idle]
    /\ UNCHANGED <<provider, row, refund, record, attempt, past>>

GatewayStep(t) ==
    \/ DoCreate(t) \/ DoRead(t) \/ DoMove(t) \/ DoCancelGroup(t)
    \/ DoEnqueue(t) \/ DoFlag(t) \/ DoRefund(t) \/ DoRefundRequire(t)
    \/ DoRefundTo(t) \/ DoLookup(t) \/ DoStore(t) \/ DoAttempt(t)

GatewayNext == Claim \/ RunJob \/ Die \/ \E t \in Tasks : GatewayStep(t)
=============================================================================
