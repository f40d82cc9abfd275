---------------------------- MODULE GatewaysProofs ----------------------------
(***************************************************************************)
(* Proofs about the adapters, for any providers, callers, outcomes,        *)
(* requests and deaths: the words a merchant reads go the way Promise      *)
(* says, a request repeated under its key creates nothing, at most one     *)
(* attempt at a QuiddPay session is paid, and a charge that a job decides  *)
(* has the job or a handler that will decide it.                           *)
(***************************************************************************)
EXTENDS Gateways, SequenceTheorems, FiniteSetTheorems, TLAPS

-----------------------------------------------------------------------------
\* What calls do, and what they name: statuses, outcomes, rails, kinds of jobs
\* and of rows, and markers
Ops == {"create", "require", "read", "to", "when", "hop", "resume", "flag", "refund",
        "refundRequire", "refundTo", "lookup", "store", "nonePending", "begin", "put",
        "enqueue", "cancelGroup"}

Words == Status \cup RefundStatus \cup AllOutcomes \cup AttemptStatus \cup Rail \cup
         {"any", "seen", "none", "payment", "payout", "reuse", "fresh", "expires",
          "manual", "pin", "subscribed", "simulate", "expire", "settle", "refund"}

\* What programs are made of, at provider p and with a row of kind k: a row
\* starts in a status shown as open, only Stripe resumes what failed, only the
\* payouts of two providers are given back, only payments are refunded, and
\* what is queued can be run.  What a task writes of an attempt as it moved or
\* saw the payment (Marking) is apart: it comes last, and only after that move.
Opening == {"created", "pending", "processing"}
Reversing == {"flutterwave", "wise"}
Moving == {"to", "when", "hop", "resume"}

Runnable ==
    {j \in [kind : {"simulate", "expire", "settle", "refund"}, outcome : Words] :
        /\ j.kind = "simulate" => j.outcome \in AllOutcomes
        /\ j.kind = "settle" => j.outcome \in {"successful", "failed"}}

Markers == {"manual", "pin", "subscribed"}

Writing == {"flag", "begin", "put"}
Writable(op, to) ==
    /\ op = "flag" => to \in Markers
    /\ op = "begin" => to \in Rail
    /\ op = "put" => to \in AttemptStatus \ {"paid"}

CallOf == [op : Ops, to : Words, in : SUBSET (Words \cup Nat)]

Calls(p, k) ==
    {c \in CallOf :
        /\ c.op = "create" => c.to \in Opening /\ (p = "wise" => "payout" \in c.in)
        /\ c.op = "resume" => p = "stripe"
        /\ c.op \in Moving => c.to # "reversed" \/ p \in Reversing
        /\ c.op = "refund" => k = "payment"
        /\ c.op = "enqueue" => Queued(Only(c.in), c.to) \in Runnable
        /\ c.op \in Writing => Writable(c.op, c.to)}

Marks(c) == c.op = "put" /\ c.to \in {"paid", "seen"}
Marking == {c \in CallOf : Marks(c)}
Asks(p, k) == Calls(p, k) \cup Marking

\* A program that marks an attempt still has to move the payment: to "failed"
\* if it is to write what it saw, or from "processing" to "successful".
Hop(c, to) == c.op = "hop" /\ c.to = to

Distant(s) ==
    \A i \in DOMAIN s : Marks(s[i]) =>
        /\ i = Len(s) /\ i > 1
        /\ \/ s[i].to = "seen" /\ Hop(s[i - 1], "failed")
           \/ i > 2 /\ Hop(s[i - 1], "successful") /\ Hop(s[i - 2], "processing")

\* As the task goes on, it has seen "processing" when "successful" is next, and
\* at last has nothing left but to mark the attempt.
Left(s) ==
    \/ Len(s) = 1
    \/ Len(s) = 2 /\ s[1].op = "cancelGroup"

Settles(s, seen) ==
    \/ Distant(s)
    \/ Left(s) /\ Marks(s[Len(s)])
    \/ /\ Len(s) = 2 /\ Marks(s[2])
       /\ Hop(s[1], "successful") /\ seen = "processing"

\* ... as paid
Pays(s, seen) ==
    /\ Left(s)
    /\ Marks(s[Len(s)])
    /\ s[Len(s)].to = "paid" \/ Seen(seen) = "paid"

\* Programs that create the row first, ask for the answer on record first, or
\* do either
Making(s) == s # <<>> /\ s[1].op = "create"
Keyed(s) == Len(s) > 1 /\ s[1].op = "lookup" /\ s[2].op = "create"
Opens(s) == s = <<>> \/ Making(s) \/ Keyed(s)

TaskRow(p, k) == [todo : Seq(Asks(p, k)), seen : Words, note : Nat, late : BOOLEAN]
Claimed == [job : Runnable, cancelled : BOOLEAN, begun : BOOLEAN]
History == [requests : Nat, collected : Nat, retried : BOOLEAN, repeated : BOOLEAN]

\* The row is one its provider can have.
RowOK ==
    /\ provider \in Providers
    /\ row \in [kind : {"none", "payment", "payout"}, status : Status,
                flags : SUBSET Markers]
    /\ row.kind = "payment" => row.status \in PaymentStatus /\ provider # "wise"
    /\ row.kind = "payout" =>
          /\ row.status \in TransferStatus
          /\ row.status = "reversed" => provider \in Reversing

RefundOK ==
    /\ refund \in RefundStatus \cup {"none"}
    /\ refund # "none" => row.kind = "payment"

TasksOK == task \in [Tasks -> TaskRow(provider, row.kind)]

JobsOK ==
    /\ jobs \in Seq(Runnable) /\ batch \in Seq(Claimed)
    /\ attempt \in Seq([rail : Rail, status : AttemptStatus])

\* Before the row is created nothing is about to happen to it.
NothingYet ==
    row.kind = "none" => /\ jobs = <<>> /\ batch = <<>>
                         /\ \A t \in Tasks : Opens(task[t].todo)

\* What is open was not paid.
Unpaid ==
    /\ past \in History
    /\ Answered \in {"none", "open"} => past.collected = 0

\* A request repeated after its answer was stored has yet to find that out.
LateAsks ==
    /\ record \in {"none", "stored"}
    /\ ~ past.repeated
    /\ \A t \in Tasks : task[t].late => record = "stored" /\ Keyed(task[t].todo)

Inv == /\ RowOK /\ RefundOK /\ TasksOK /\ JobsOK /\ NothingYet /\ Unpaid
       /\ LateAsks

\* Whoever is about to mark an attempt as paid is the one who collected the
\* payment, and there is no other, nor an attempt marked before.
Paying == {t \in Tasks : Pays(task[t].todo, task[t].seen)}
Paid == {i \in DOMAIN attempt : attempt[i].status = "paid"}

MarkedOnce ==
    /\ \A t \in Tasks : Settles(task[t].todo, task[t].seen)
    /\ Paying # {} \/ Paid # {} => past.collected = 1
    /\ \A t, u \in Paying : t = u
    /\ \A i, j \in Paid : i = j
    /\ Paying = {} \/ Paid = {}

\* The bounds are kept.
Bounded ==
    /\ Len(jobs) <= MaxJobs /\ Len(attempt) <= MaxAttempts
    /\ deaths \in 0..MaxDeaths /\ past.requests \in 0..MaxRequests

-----------------------------------------------------------------------------
(***************************************************************************)
(* Sequences: what is put together of programs is one, and begins as its   *)
(* first part does; what is picked from a sequence is of the same kind.    *)
(***************************************************************************)
LEMMA Joined ==
    ASSUME NEW S, NEW s \in Seq(S), NEW t \in Seq(S)
    PROVE  /\ s \o t \in Seq(S)
           /\ s # <<>> => s \o t # <<>>
           /\ Making(s) => Making(s \o t)
           /\ Keyed(s) => Keyed(s \o t)
<1>1. /\ s \o t \in Seq(S) /\ Len(s \o t) = Len(s) + Len(t)
      /\ \A i \in 1..Len(s) : (s \o t)[i] = s[i]
      /\ Len(s) \in Nat /\ Len(t) \in Nat
    OBVIOUS
<1>2. s # <<>> => Len(s) > 0
    OBVIOUS
<1>3. s # <<>> => s \o t # <<>>
    BY <1>1, <1>2
<1> QED
    BY <1>1, <1>2, <1>3 DEF Making, Keyed

(***************************************************************************)
(* A lookup before a program that creates the row                          *)
(***************************************************************************)
LEMMA LookedUpFirst ==
    ASSUME NEW S, Lookup \in Seq(S), NEW s \in Seq(S), Making(s)
    PROVE  Keyed(Lookup \o s)
<1>1. /\ Len(Lookup \o s) = 1 + Len(s) /\ Len(s) \in Nat /\ Len(s) > 0
      /\ (Lookup \o s)[1] = Lookup[1] /\ (Lookup \o s)[2] = s[1]
    BY DEF Lookup, Making
<1> QED
    BY <1>1 DEF Keyed, Making, Lookup, Call

(***************************************************************************)
(* What is picked from a sequence is a sequence of the same things.        *)
(***************************************************************************)
LEMMA Picked ==
    ASSUME NEW S, NEW s \in Seq(S), NEW I, I \subseteq DOMAIN s, NEW r \in Picks(s, I)
    PROVE  r \in Seq(S)
<1>1. DOMAIN s = 1..Len(s) /\ Len(s) \in Nat
    OBVIOUS
<1>2. IsFiniteSet(I)
    <2>1. IsFiniteSet(1..Len(s))
        BY <1>1, FS_Interval
    <2> QED
        BY <1>1, <2>1, FS_Subset
<1>3. Cardinality(I) \in Nat
    BY <1>2, FS_CardinalityType
<1>4. PICK at \in [1..Cardinality(I) -> I] : r = [i \in 1..Cardinality(I) |-> s[at[i]]]
    BY DEF Picks
<1>5. \A i \in 1..Cardinality(I) : s[at[i]] \in S
    BY <1>1, <1>4
<1>6. r \in [1..Cardinality(I) -> S]
    BY <1>4, <1>5
<1> QED
    BY <1>3, <1>6, SeqDef

-----------------------------------------------------------------------------
(***************************************************************************)
(* Words that programs name                                                *)
(***************************************************************************)
LEMMA KnownWords ==
    /\ Status \subseteq Words /\ RefundStatus \subseteq Words
    /\ AllOutcomes \subseteq Words /\ AttemptStatus \subseteq Words
    /\ Rail \subseteq Words
    /\ {"any", "seen", "none", "payment", "payout", "reuse", "fresh", "expires",
        "manual", "pin", "subscribed", "simulate", "expire", "settle", "refund",
        "pending", "processing", "created", "expired", "successful", "failed"}
           \subseteq Words
BY DEF Words, Status, PaymentStatus, TransferStatus

(***************************************************************************)
(* A call is one of Calls, alone a program too, when what it asks may be   *)
(* asked.                                                                  *)
(***************************************************************************)
LEMMA Asked ==
    ASSUME NEW p, NEW k, NEW op \in Ops, NEW to \in Words,
           NEW in \in SUBSET (Words \cup Nat),
           op = "create" => to \in Opening /\ (p = "wise" => "payout" \in in),
           op = "resume" => p = "stripe",
           op \in Moving => to # "reversed" \/ p \in Reversing,
           op = "refund" => k = "payment",
           op = "enqueue" => Queued(Only(in), to) \in Runnable,
           op \in Writing => Writable(op, to)
    PROVE  Call(op, to, in) \in Calls(p, k) /\ <<Call(op, to, in)>> \in Seq(Calls(p, k))
<1> DEFINE c == Call(op, to, in)
<1>1. c \in CallOf /\ c.op = op /\ c.to = to /\ c.in = in
    BY DEF Call, CallOf
<1> HIDE DEF c
<1>2. c \in Calls(p, k)
    BY <1>1 DEF Calls
<1>3. <<c>> \in Seq(Calls(p, k))
    BY <1>2
<1> QED
    BY <1>2, <1>3 DEF c

\* Those that name no status of the row
LEMMA PlainCalls ==
    ASSUME NEW p, NEW k
    PROVE  /\ Read \in Seq(Calls(p, k)) /\ Lookup \in Seq(Calls(p, k))
           /\ Store \in Seq(Calls(p, k)) /\ NonePending \in Seq(Calls(p, k))
           /\ \A X \in SUBSET Words : /\ Require(X) \in Seq(Calls(p, k))
                                       /\ RefundRequire(X) \in Seq(Calls(p, k))
           /\ \A f \in Words : RefundTo(f) \in Seq(Calls(p, k))
           /\ \A f \in Markers : Flag(f) \in Seq(Calls(p, k))
           /\ \A f \in Rail : Begin(f) \in Seq(Calls(p, k))
           /\ \A f \in AttemptStatus \ {"paid"}, i \in Nat : Put(i, f) \in Seq(Calls(p, k))
           /\ k = "payment" => Refund \in Seq(Calls(p, k))
<1> DEFINE Plain == {"read", "lookup", "store", "nonePending", "require",
                     "refundRequire", "flag", "refundTo", "begin", "put"}
           In == SUBSET (Words \cup Nat)
<1>0. "any" \in Words
    BY KnownWords
<1>1. ASSUME NEW op \in Plain, NEW to \in Words, NEW in \in In, Writable(op, to)
      PROVE  <<Call(op, to, in)>> \in Seq(Calls(p, k))
    <2>1. /\ op \in Ops /\ op \notin Moving
          /\ op # "create" /\ op # "resume" /\ op # "refund" /\ op # "enqueue"
        BY DEF Moving, Ops
    <2> HIDE DEF Plain
    <2> QED
        BY <1>1, <2>1, Asked
<1>2. k = "payment" => Refund \in Seq(Calls(p, k))
    <2>1. "refund" \notin Moving \cup Writing /\ "refund" \in Ops /\ {} \in In
        BY DEF Moving, Ops, Writing
    <2> QED
        BY <2>1, Asked, KnownWords DEF Refund
<1>3. {} \in In /\ (\A X \in SUBSET Words : X \in In) /\ (\A i \in Nat : {i} \in In)
    OBVIOUS
<1>12. /\ \A op \in Plain \ Writing : \A to : Writable(op, to)
       /\ Markers \subseteq Words /\ Rail \subseteq Words /\ AttemptStatus \subseteq Words
    BY KnownWords DEF Writing, Writable, Markers
<1>13. {"read", "lookup", "store", "nonePending", "require", "refundRequire", "refundTo"}
           \subseteq Plain \ Writing
    BY DEF Writing
<1> HIDE DEF In
<1>4. Read \in Seq(Calls(p, k)) /\ Lookup \in Seq(Calls(p, k))
    BY <1>1, <1>3, <1>12, <1>13, <1>0 DEF Read, Lookup
<1>5. Store \in Seq(Calls(p, k)) /\ NonePending \in Seq(Calls(p, k))
    BY <1>1, <1>3, <1>12, <1>13, <1>0 DEF Store, NonePending
<1>6. \A X \in SUBSET Words : Require(X) \in Seq(Calls(p, k))
    BY <1>1, <1>3, <1>12, <1>13, <1>0 DEF Require
<1>7. \A X \in SUBSET Words : RefundRequire(X) \in Seq(Calls(p, k))
    BY <1>1, <1>3, <1>12, <1>13, <1>0 DEF RefundRequire
<1>8. \A f \in Markers : Flag(f) \in Seq(Calls(p, k))
    BY <1>1, <1>3, <1>12 DEF Flag, Writable
<1>9. \A f \in Words : RefundTo(f) \in Seq(Calls(p, k))
    BY <1>1, <1>3, <1>12, <1>13 DEF RefundTo
<1>10. \A f \in Rail : Begin(f) \in Seq(Calls(p, k))
    BY <1>1, <1>3, <1>12 DEF Begin, Writable
<1>11. \A f \in AttemptStatus \ {"paid"}, i \in Nat : Put(i, f) \in Seq(Calls(p, k))
    BY <1>1, <1>3, <1>12 DEF Put, Writable
<1> QED
    BY <1>2, <1>4, <1>5, <1>6, <1>7, <1>8, <1>9, <1>10, <1>11

(***************************************************************************)
(* Those that create the row                                               *)
(***************************************************************************)
LEMMA CreateCalls ==
    ASSUME NEW p, NEW k, NEW s \in Opening, NEW kind \in {"payment", "payout"},
           p = "wise" => kind = "payout",
           NEW flags \in SUBSET Words
    PROVE  /\ Create(kind, s) \in Seq(Calls(p, k)) /\ Making(Create(kind, s))
           /\ p # "wise" => /\ CreateWith(s, flags) \in Seq(Calls(p, k))
                            /\ Making(CreateWith(s, flags))
                            /\ Ensure(s) \in Seq(Calls(p, k)) /\ Making(Ensure(s))
           /\ CreatePayout(s, flags) \in Seq(Calls(p, k))
           /\ Making(CreatePayout(s, flags))
<1>1. s \in Words
    BY KnownWords DEF Opening
<1>2. ASSUME NEW in \in SUBSET (Words \cup Nat), p = "wise" => "payout" \in in
      PROVE  <<Call("create", s, in)>> \in Seq(Calls(p, k))
    <2>1. "create" \in Ops /\ "create" \notin Moving \cup Writing
        BY DEF Ops, Moving, Writing
    <2> QED
        BY <1>1, <1>2, <2>1, Asked
<1>3. \A in : Making(<<Call("create", s, in)>>)
    BY DEF Making, Call
<1>4. /\ {kind} \in SUBSET (Words \cup Nat)
      /\ {"payment", "reuse"} \in SUBSET (Words \cup Nat)
      /\ {"payment"} \cup flags \in SUBSET (Words \cup Nat)
      /\ {"payout"} \cup flags \in SUBSET (Words \cup Nat)
    BY KnownWords
<1>5. Create(kind, s) \in Seq(Calls(p, k)) /\ Making(Create(kind, s))
    BY <1>2, <1>3, <1>4 DEF Create
<1>6. CreatePayout(s, flags) \in Seq(Calls(p, k)) /\ Making(CreatePayout(s, flags))
    BY <1>2, <1>3, <1>4 DEF CreatePayout
<1>7. ASSUME p # "wise"
      PROVE  /\ CreateWith(s, flags) \in Seq(Calls(p, k)) /\ Making(CreateWith(s, flags))
             /\ Ensure(s) \in Seq(Calls(p, k)) /\ Making(Ensure(s))
    BY <1>2, <1>3, <1>4, <1>7 DEF CreateWith, Ensure
<1> QED
    BY <1>5, <1>6, <1>7

(***************************************************************************)
(* Those that move it                                                      *)
(***************************************************************************)
LEMMA MoveCalls ==
    ASSUME NEW p, NEW k, NEW s \in Words, s # "reversed" \/ p \in Reversing
    PROVE  /\ To(s) \in Seq(Calls(p, k)) /\ Unless(s) \in Seq(Calls(p, k))
           /\ <<Call("hop", s, {})>> \in Seq(Calls(p, k))
           /\ \A X \in SUBSET Words : When(X, s) \in Seq(Calls(p, k))
           /\ p = "stripe" => Resume(s) \in Seq(Calls(p, k))
<1>1. ASSUME NEW op \in Moving, NEW in \in SUBSET (Words \cup Nat), op = "resume" => p = "stripe"
      PROVE  <<Call(op, s, in)>> \in Seq(Calls(p, k))
    <2>1. /\ op \in Ops /\ op # "create" /\ op # "refund" /\ op # "enqueue"
          /\ op \notin Writing
        BY DEF Moving, Ops, Writing
    <2> QED
        BY <1>1, <2>1, Asked
<1>2. /\ "to" \in Moving /\ "hop" \in Moving /\ "when" \in Moving /\ "resume" \in Moving
      /\ {} \in SUBSET (Words \cup Nat)
      /\ \A X \in SUBSET Words : X \in SUBSET (Words \cup Nat)
    BY DEF Moving
<1>3. To(s) \in Seq(Calls(p, k))
    BY <1>1, <1>2 DEF To
<1>4. Unless(s) \in Seq(Calls(p, k)) /\ <<Call("hop", s, {})>> \in Seq(Calls(p, k))
    BY <1>1, <1>2 DEF Unless
<1>5. \A X \in SUBSET Words : When(X, s) \in Seq(Calls(p, k))
    BY <1>1, <1>2 DEF When
<1>6. p = "stripe" => Resume(s) \in Seq(Calls(p, k))
    BY <1>1, <1>2 DEF Resume
<1> QED
    BY <1>3, <1>4, <1>5, <1>6

(***************************************************************************)
(* Those that queue a job                                                  *)
(***************************************************************************)
LEMMA OnlyOne == \A x : Only({x}) = x
BY DEF Only

\* Any provider may queue a job that can be run.
LEMMA EnqueueCalls ==
    ASSUME NEW p, NEW k, NEW j \in Runnable
    PROVE  Enqueue(j.kind, j.outcome) \in Seq(Calls(p, k))
<1> DEFINE in == {j.kind}
<1>1. j.kind \in Words /\ j.outcome \in Words
    BY KnownWords DEF Runnable
<1>2. Queued(Only(in), j.outcome) = j
    BY OnlyOne DEF Queued, Runnable
<1>3. /\ "enqueue" \in Ops /\ "enqueue" \notin Moving \cup Writing
      /\ in \in SUBSET (Words \cup Nat)
    BY <1>1 DEF Ops, Moving, Writing
<1> HIDE DEF in
<1>4. <<Call("enqueue", j.outcome, in)>> \in Seq(Calls(p, k))
    BY <1>1, <1>2, <1>3, Asked
<1> QED
    BY <1>4 DEF Enqueue, in

\* Outcomes, settlements, refunds and expiries are such jobs.
LEMMA EnqueueOutcome ==
    ASSUME NEW p, NEW k
    PROVE  /\ \A o \in AllOutcomes : Enqueue("simulate", o) \in Seq(Calls(p, k))
           /\ \A o \in {"successful", "failed"} : Enqueue("settle", o) \in Seq(Calls(p, k))
           /\ \A o \in RefundStatus : Enqueue("refund", o) \in Seq(Calls(p, k))
           /\ Enqueue("expire", "expired") \in Seq(Calls(p, k))
<1>1. ASSUME NEW kind, NEW o, Queued(kind, o) \in Runnable
      PROVE  Enqueue(kind, o) \in Seq(Calls(p, k))
    <2>1. Queued(kind, o).kind = kind /\ Queued(kind, o).outcome = o
        BY DEF Queued
    <2> QED
        BY <1>1, <2>1, EnqueueCalls
<1>2. \A o \in AllOutcomes : Queued("simulate", o) \in Runnable
    BY KnownWords DEF Queued, Runnable
<1>3. \A o \in {"successful", "failed"} : Queued("settle", o) \in Runnable
    BY KnownWords DEF Queued, Runnable
<1>4. \A o \in RefundStatus : Queued("refund", o) \in Runnable
    BY KnownWords DEF Queued, Runnable
<1>5. Queued("expire", "expired") \in Runnable
    BY KnownWords DEF Queued, Runnable
<1> QED
    BY <1>1, <1>2, <1>3, <1>4, <1>5

(***************************************************************************)
(* The simulator's plan, and what a job's handler does                     *)
(***************************************************************************)
LEMMA PlanCalls ==
    ASSUME NEW p, NEW k, NEW o \in AllOutcomes
    PROVE  /\ Apply(o) \in Seq(Calls(p, k)) /\ Apply(o) # <<>>
           /\ PLANS[o] \in Seq(PaymentStatus) /\ PLANS[o] # <<>>
<1>1. PLANS[o] \in Seq(PaymentStatus) /\ PLANS[o] # <<>>
    <2>1. PLANS[o] \in {<<"processing", "successful">>, <<"processing", "failed">>,
                        <<"failed">>, <<"requires_action">>,
                        <<"requires_action", "failed">>}
        <3>1. CASE o = "success"
            BY <3>1 DEF PLANS
        <3>2. CASE o = "declined"
            BY <3>2 DEF PLANS
        <3>3. CASE o = "network_error"
            BY <3>3 DEF PLANS
        <3>4. CASE o = "authentication_required"
            BY <3>4 DEF PLANS
        <3>5. CASE o = "authentication_failed"
            BY <3>5 DEF PLANS
        <3> QED
            BY <3>1, <3>2, <3>3, <3>4, <3>5 DEF AllOutcomes
    <2>2. /\ "processing" \in PaymentStatus /\ "successful" \in PaymentStatus
          /\ "failed" \in PaymentStatus /\ "requires_action" \in PaymentStatus
        BY DEF PaymentStatus
    <2>3. CASE PLANS[o] = <<"failed">>
        BY <2>2, <2>3
    <2>4. CASE PLANS[o] = <<"processing", "successful">>
        BY <2>2, <2>4
    <2>5. CASE PLANS[o] = <<"processing", "failed">>
        BY <2>2, <2>5
    <2>6. CASE PLANS[o] = <<"requires_action", "failed">>
        BY <2>2, <2>6
    <2>7. CASE PLANS[o] = <<"requires_action">>
        BY <2>2, <2>7
    <2> QED
        BY <2>1, <2>3, <2>4, <2>5, <2>6, <2>7
<1> DEFINE hops == [i \in 1..Len(PLANS[o]) |-> Call("hop", PLANS[o][i], {})]
<1>2. \A s \in PaymentStatus : Call("hop", s, {}) \in Calls(p, k)
    <2>1. \A s \in PaymentStatus : s \in Words /\ s # "reversed"
        BY KnownWords DEF Status, PaymentStatus
    <2>2. "hop" \in Ops /\ "hop" \in Moving /\ "hop" \notin Writing
        BY DEF Ops, Moving, Writing
    <2> QED
        BY <2>1, <2>2, Asked
<1>3. hops \in Seq(Calls(p, k))
    BY <1>1, <1>2
<1> HIDE DEF hops
<1>4. Read \in Seq(Calls(p, k)) /\ Read # <<>>
    BY PlainCalls DEF Read
<1>5. Read \o hops \in Seq(Calls(p, k)) /\ Read \o hops # <<>>
    BY <1>3, <1>4, Joined
<1> QED
    BY <1>1, <1>5 DEF Apply, hops

\* The handler of a job that can be run is a program.
LEMMA HandlerCalls ==
    ASSUME NEW p, NEW k, NEW j \in Runnable
    PROVE  HandlerOf(j) \in Seq(Calls(p, k))
<1>1. CASE j.kind = "simulate"
    BY <1>1, PlanCalls DEF HandlerOf, Runnable
<1> DEFINE open == {"created", "pending", "processing", "requires_action"}
<1>2. CASE j.kind = "expire"
    <2>1. open \in SUBSET Words /\ "expired" \in Words
        BY KnownWords DEF Status, PaymentStatus
    <2> HIDE DEF open
    <2>2. Require(open) \in Seq(Calls(p, k)) /\ To("expired") \in Seq(Calls(p, k))
        BY <2>1, PlainCalls, MoveCalls
    <2>3. Require(open) \o To("expired") \in Seq(Calls(p, k))
        BY <2>2, Joined
    <2> QED
        BY <1>2, <2>3 DEF HandlerOf, open
<1>3. CASE j.kind = "settle"
    <2>1. /\ {"pending", "processing"} \in SUBSET Words /\ {"pending"} \in SUBSET Words
          /\ "processing" \in Words /\ j.outcome \in Words /\ j.outcome # "reversed"
        BY <1>3, KnownWords DEF Runnable
    <2>2. /\ Require({"pending", "processing"}) \in Seq(Calls(p, k))
          /\ When({"pending"}, "processing") \in Seq(Calls(p, k))
          /\ To(j.outcome) \in Seq(Calls(p, k))
        BY <2>1, PlainCalls, MoveCalls
    <2>3. Require({"pending", "processing"}) \o When({"pending"}, "processing")
              \o To(j.outcome) \in Seq(Calls(p, k))
        BY <2>2, Joined
    <2> QED
        BY <1>3, <2>3 DEF HandlerOf
<1>4. CASE j.kind = "refund"
    <2>1. {"pending"} \in SUBSET Words /\ "processing" \in Words /\ j.outcome \in Words
        BY KnownWords DEF Runnable
    <2>2. /\ RefundRequire({"pending"}) \in Seq(Calls(p, k))
          /\ RefundTo("processing") \in Seq(Calls(p, k))
          /\ RefundTo(j.outcome) \in Seq(Calls(p, k))
        BY <2>1, PlainCalls
    <2>3. RefundRequire({"pending"}) \o RefundTo("processing") \o RefundTo(j.outcome)
              \in Seq(Calls(p, k))
        BY <2>2, Joined
    <2> QED
        BY <1>4, <2>3 DEF HandlerOf
<1> QED
    BY <1>1, <1>2, <1>3, <1>4 DEF Runnable

-----------------------------------------------------------------------------
\* A request that is taken up with a program: nothing else changes.
Taken(t) ==
    /\ past.requests < MaxRequests
    /\ \E x \in TaskRow(provider, row.kind) :
          /\ Distant(x.todo)
          /\ row.kind = "none" => Opens(x.todo)
          /\ x.late => record = "stored" /\ Keyed(x.todo)
          /\ task' = [task EXCEPT ![t] = x]
    /\ past' = [past EXCEPT !.requests = @ + 1]
    /\ UNCHANGED <<provider, row, refund, jobs, batch, record, attempt, deaths>>

(***************************************************************************)
(* However a route takes up its program, it is taken.                      *)
(***************************************************************************)
LEMMA IdleRow ==
    ASSUME NEW p, NEW k
    PROVE  /\ Idle \in TaskRow(p, k)
           /\ Idle.todo = <<>> /\ Idle.late = FALSE
BY KnownWords DEF Idle, TaskRow

\* Calls are asked of any program that marks no attempt.
LEMMA Unmarking ==
    ASSUME NEW p, NEW k, NEW s \in Seq(Calls(p, k))
    PROVE  s \in Seq(Asks(p, k)) /\ Distant(s)
<1>1. Calls(p, k) \subseteq Asks(p, k)
    BY DEF Asks
<1>2. \A i \in DOMAIN s : s[i] \in Calls(p, k)
    OBVIOUS
<1>3. \A c \in Calls(p, k) : ~ Marks(c)
    BY DEF Calls, Marks, Writing, Writable, AttemptStatus
<1> QED
    BY <1>1, <1>2, <1>3 DEF Distant

\* A request that is served is taken,
LEMMA ServeTaken ==
    ASSUME Inv, NEW t, NEW s \in Seq(Asks(provider, row.kind)), Distant(s),
           row.kind = "none" => Opens(s), Serve(t, s)
    PROVE  Taken(t)
<1> DEFINE given == [Idle EXCEPT !.todo = s]
           x     == [given EXCEPT !.seen = row.status]
<1>1. row.status \in Words
    BY KnownWords DEF Inv, RowOK
<1>2. given \in TaskRow(provider, row.kind) /\ given.todo = s /\ given.late = FALSE
    <2> HIDE DEF given
    <2>1. given = [Idle EXCEPT !.todo = s]
        BY DEF given
    <2> QED
        BY <2>1, IdleRow DEF TaskRow
<1>3. x \in TaskRow(provider, row.kind) /\ x.todo = s /\ x.late = FALSE
    <2> HIDE DEF given
    <2> QED
        BY <1>1, <1>2 DEF TaskRow
<1>4. task' = [task EXCEPT ![t] = x]
    BY DEF Serve
<1> HIDE DEF x
<1> QED
    BY <1>3, <1>4 DEF Serve, Taken

\* ... so is one under a key, late if its answer is on record,
LEMMA ServeKeyedTaken ==
    ASSUME Inv, NEW t, NEW s \in Seq(Asks(provider, row.kind)), Distant(s), Keyed(s),
           ServeKeyed(t, s)
    PROVE  Taken(t)
<1> DEFINE given == [Idle EXCEPT !.todo = s]
           x     == [given EXCEPT !.late = (record = "stored")]
<1>1. given \in TaskRow(provider, row.kind) /\ given.todo = s
    <2> HIDE DEF given
    <2>1. given = [Idle EXCEPT !.todo = s]
        BY DEF given
    <2> QED
        BY <2>1, IdleRow DEF TaskRow
<1>2. x \in TaskRow(provider, row.kind) /\ x.todo = s /\ x.late = (record = "stored")
    <2> HIDE DEF given
    <2> QED
        BY <1>1 DEF TaskRow
<1>3. task' = [task EXCEPT ![t] = x]
    BY DEF ServeKeyed
<1> HIDE DEF x
<1> QED
    BY <1>2, <1>3 DEF ServeKeyed, Taken, Opens

\* ... one that creates the row,
LEMMA ServeNewTaken ==
    ASSUME Inv, NEW t, NEW s \in Seq(Calls(provider, row.kind)), Making(s),
           ServeNew(t, s)
    PROVE  Taken(t)
BY ServeTaken, Unmarking DEF ServeNew, Opens

\* ... one that names a row that exists,
LEMMA ServeOnTaken ==
    ASSUME Inv, NEW t, NEW kind \in {"payment", "payout"},
           NEW s \in Seq(Calls(provider, kind)), ServeOn(kind, t, s)
    PROVE  Taken(t)
BY ServeTaken, Unmarking DEF ServeOn

\* ... one whose first read is merged with its arrival,
LEMMA ServeReadTaken ==
    ASSUME Inv, NEW t, NEW s \in Seq(Calls(provider, "payment")), s # <<>>,
           ServeRead(t, s)
    PROVE  Taken(t)
<1>1. Tail(s) \in Seq(Calls(provider, "payment"))
    OBVIOUS
<1> QED
    BY <1>1, ServeOnTaken DEF ServeRead

\* ... and one that is refused in other statuses.
LEMMA ServeInTaken ==
    ASSUME Inv, NEW t, NEW S, NEW s \in Seq(Calls(provider, "payment")),
           ServeIn(S, t, s)
    PROVE  Taken(t)
BY ServeOnTaken DEF ServeIn

\* A program that marks an attempt is one of an open payment's.
LEMMA ServeMarkTaken ==
    ASSUME Inv, NEW t, NEW S, NEW s \in Seq(Asks(provider, "payment")), Distant(s),
           ServeIn(S, t, s)
    PROVE  Taken(t)
BY ServeTaken DEF ServeIn, ServeOn

-----------------------------------------------------------------------------
\* The calls most routes of p are made of are programs of S: those that create
\* the row, those that move it, and the outcomes that are played or queued.
StartsIn(S) ==
    /\ \A s \in Opening : Create("payout", s) \in S /\ Making(Create("payout", s))
    /\ \A s \in Opening, flags \in SUBSET Words :
          CreatePayout(s, flags) \in S /\ Making(CreatePayout(s, flags))

ChargesIn(S) ==
    /\ \A s \in Opening : /\ Create("payment", s) \in S /\ Making(Create("payment", s))
                          /\ Ensure(s) \in S /\ Making(Ensure(s))
    /\ \A s \in Opening, flags \in SUBSET Words :
          CreateWith(s, flags) \in S /\ Making(CreateWith(s, flags))

StepsIn(S) ==
    /\ \A s \in Status \ {"reversed"} :
          To(s) \in S /\ Unless(s) \in S /\ \A X \in SUBSET Status : When(X, s) \in S
    /\ \A o \in AllOutcomes : /\ Apply(o) \in S /\ Apply(o) # <<>>
                              /\ Enqueue("simulate", o) \in S

\* The programs that create the row are calls of the provider; none but Wise's
\* are kept to payouts.
LEMMA Starts ==
    ASSUME NEW p, NEW k
    PROVE  /\ StartsIn(Seq(Calls(p, k)))
           /\ p # "wise" => ChargesIn(Seq(Calls(p, k)))
<1>1. {} \in SUBSET Words
    OBVIOUS
<1>2. \A s \in Opening : /\ Create("payout", s) \in Seq(Calls(p, k))
                         /\ Making(Create("payout", s))
    BY <1>1, CreateCalls
<1>3. p # "wise" => \A s \in Opening :
                 /\ Create("payment", s) \in Seq(Calls(p, k))
                 /\ Making(Create("payment", s))
                 /\ Ensure(s) \in Seq(Calls(p, k)) /\ Making(Ensure(s))
    BY <1>1, CreateCalls
<1>4. p # "wise" => \A s \in Opening, flags \in SUBSET Words :
                 /\ CreateWith(s, flags) \in Seq(Calls(p, k))
                 /\ Making(CreateWith(s, flags))
    BY CreateCalls
<1>5. \A s \in Opening, flags \in SUBSET Words :
                 /\ CreatePayout(s, flags) \in Seq(Calls(p, k))
                 /\ Making(CreatePayout(s, flags))
    BY CreateCalls
<1> QED
    BY <1>2, <1>3, <1>4, <1>5 DEF StartsIn, ChargesIn

\* Nor does any provider refuse the programs that move it.
LEMMA Steps ==
    ASSUME NEW p, NEW k
    PROVE  StepsIn(Seq(Calls(p, k)))
<1>1. \A s \in Status : s \in Words
    BY KnownWords
<1>2. \A X \in SUBSET Status : X \in SUBSET Words
    BY <1>1
<1>3. \A s \in Status \ {"reversed"} :
          /\ To(s) \in Seq(Calls(p, k)) /\ Unless(s) \in Seq(Calls(p, k))
          /\ \A X \in SUBSET Status : When(X, s) \in Seq(Calls(p, k))
    BY <1>1, <1>2, MoveCalls
<1>4. \A o \in AllOutcomes : Apply(o) \in Seq(Calls(p, k)) /\ Apply(o) # <<>>
    BY PlanCalls
<1>5. \A o \in AllOutcomes : Enqueue("simulate", o) \in Seq(Calls(p, k))
    BY EnqueueOutcome
<1> QED
    BY <1>3, <1>4, <1>5 DEF StepsIn

(***************************************************************************)
(* Statuses, outcomes and flags that routes name                           *)
(***************************************************************************)
LEMMA Named ==
    /\ {"created", "pending", "processing", "requires_action", "authorized",
        "successful", "failed", "cancelled", "expired"} \subseteq Status \ {"reversed"}
    /\ {"success", "declined", "authentication_failed", "authentication_required"}
          \subseteq AllOutcomes
    /\ Outcomes \subseteq AllOutcomes
    /\ \A o \in Outcomes : Stepped(o) \in AllOutcomes
    /\ {"pending", "created", "processing"} \subseteq Opening
    /\ {"expires"} \in SUBSET Words /\ {"fresh"} \in SUBSET Words
    /\ {"manual"} \in SUBSET Words /\ {} \in SUBSET Words
    /\ {"expires", "fresh"} \in SUBSET Words
<1>1. {"created", "pending", "processing", "requires_action", "authorized",
        "successful", "failed", "cancelled", "expired"} \subseteq Status \ {"reversed"}
    BY DEF Status, PaymentStatus
<1>2. /\ {"success", "declined", "authentication_failed", "authentication_required"}
            \subseteq AllOutcomes
      /\ {"pending", "created", "processing"} \subseteq Opening
    BY DEF AllOutcomes, Opening
<1>3. \A o \in Outcomes : Stepped(o) \in AllOutcomes
    BY OutcomesAssumption DEF Stepped, AllOutcomes
<1>4. {"expires", "fresh", "manual"} \subseteq Words
    BY KnownWords
<1> QED
    BY <1>1, <1>2, <1>3, <1>4, OutcomesAssumption

(***************************************************************************)
(* Two programs that several adapters run: a refund settled at once, and a *)
(* page that starts the charge                                             *)
(***************************************************************************)
LEMMA RefundTaken ==
    ASSUME Inv, NEW t, \/ ServeOn("payment", t, Refund)
                       \/ ServeOn("payment", t, Refund \o RefundTo("successful"))
    PROVE  Taken(t)
<1> DEFINE P == Seq(Calls(provider, "payment"))
<1>1. "successful" \in Words
    BY KnownWords
<1>2. Refund \in P /\ RefundTo("successful") \in P
    BY <1>1, PlainCalls
<1>3. Refund \o RefundTo("successful") \in P
    BY <1>2, Joined
<1> QED
    BY <1>2, <1>3, ServeOnTaken

\* The page that starts the charge moves the payment and queues its outcome.
LEMMA PayTaken ==
    ASSUME Inv, NEW t, NEW s \in {"processing", "requires_action"}, NEW o \in Outcomes,
           ServeOn("payment", t, To(s) \o Enqueue("simulate", o))
    PROVE  Taken(t)
<1> DEFINE P == Seq(Calls(provider, "payment"))
<1>1. StepsIn(P)
    BY Steps
<1> HIDE DEF P
<1>3. To(s) \in P /\ Enqueue("simulate", o) \in P
    BY <1>1, Named DEF StepsIn
<1> USE DEF P
<1>2. To(s) \o Enqueue("simulate", o) \in P
    BY <1>3, Joined
<1> QED
    BY <1>2, ServeOnTaken

\* A request with a program of S, for the row as it is, of P for a payment or
\* of Q for a payout is taken, and programs can be put together.
Serves(t, S, P, Q) ==
    /\ \A s \in S : Making(s) /\ (ServeNew(t, s) \/ Serve(t, s)) => Taken(t)
    /\ \A s \in S : Keyed(s) /\ ServeKeyed(t, s) => Taken(t)
    /\ \A s \in P : ServeOn("payment", t, s) => Taken(t)
    /\ \A X : \A s \in P : ServeIn(X, t, s) => Taken(t)
    /\ \A s \in P : s # <<>> /\ ServeRead(t, s) => Taken(t)
    /\ \A s \in Q : ServeOn("payout", t, s) => Taken(t)

Joins(S) ==
    \A a, b \in S : /\ a \o b \in S
                    /\ a # <<>> => a \o b # <<>>
                    /\ Making(a) => Making(a \o b)
                    /\ Keyed(a) => Keyed(a \o b)

\* What the lemmas above say, for the programs of a row that is, of a payment
\* and of a payout
LEMMA Uptake ==
    ASSUME Inv, NEW t, NEW S, S = Seq(Calls(provider, row.kind)),
           NEW P, P = Seq(Calls(provider, "payment")),
           NEW Q, Q = Seq(Calls(provider, "payout"))
    PROVE  /\ Serves(t, S, P, Q) /\ Joins(S) /\ Joins(P) /\ Joins(Q)
           /\ StartsIn(S) /\ StepsIn(S) /\ StepsIn(P) /\ StepsIn(Q)
           /\ provider # "wise" => ChargesIn(S)
<1>1. Joins(S) /\ Joins(P) /\ Joins(Q)
    BY Joined DEF Joins
<1>2. StepsIn(S) /\ StepsIn(P) /\ StepsIn(Q) /\ StartsIn(S)
      /\ (provider # "wise" => ChargesIn(S))
    BY Starts, Steps
<1>3. \A s \in S : Making(s) /\ (ServeNew(t, s) \/ Serve(t, s)) => Taken(t)
    BY ServeNewTaken, ServeTaken, Unmarking DEF Opens
<1>4. \A s \in S : Keyed(s) /\ ServeKeyed(t, s) => Taken(t)
    BY ServeKeyedTaken, Unmarking
<1>5. /\ \A s \in P : ServeOn("payment", t, s) => Taken(t)
      /\ \A s \in Q : ServeOn("payout", t, s) => Taken(t)
    BY ServeOnTaken
<1>6. \A X : \A s \in P : ServeIn(X, t, s) => Taken(t)
    BY ServeInTaken
<1>7. \A s \in P : s # <<>> /\ ServeRead(t, s) => Taken(t)
    BY ServeReadTaken
<1> QED
    BY <1>1, <1>2, <1>3, <1>4, <1>5, <1>6, <1>7 DEF Serves

(***************************************************************************)
(* A program between the lookup of its key and the store of its answer     *)
(***************************************************************************)
LEMMA KeyedProgram ==
    ASSUME NEW p, NEW k, NEW s \in Seq(Calls(p, k)), Making(s)
    PROVE  /\ Lookup \o s \o Store \in Seq(Calls(p, k))
           /\ Keyed(Lookup \o s \o Store)
<1>1. Lookup \in Seq(Calls(p, k)) /\ Store \in Seq(Calls(p, k))
    BY PlainCalls
<1>2. Lookup \o s \in Seq(Calls(p, k)) /\ Keyed(Lookup \o s)
    BY <1>1, Joined, LookedUpFirst
<1> QED
    BY <1>1, <1>2, Joined

-----------------------------------------------------------------------------
(***************************************************************************)
(* Every route of Kora runs a program of Calls.                            *)
(***************************************************************************)
LEMMA KoraTaken ==
    ASSUME Inv, provider = "kora", NEW t \in Callers, KoraRoute(t)
    PROVE  Taken(t)
<1> DEFINE S == Seq(Calls(provider, row.kind))
           P == Seq(Calls(provider, "payment"))
           Q == Seq(Calls(provider, "payout"))
<1>0. /\ Serves(t, S, P, Q) /\ Joins(S) /\ Joins(P) /\ Joins(Q)
      /\ StartsIn(S) /\ StepsIn(S) /\ StepsIn(P) /\ StepsIn(Q)
      /\ provider # "wise" => ChargesIn(S)
    BY Uptake
<1> HIDE DEF S, P, Q
<1>1. CASE KoraInitialize(t)
    BY <1>0, <1>1, Named DEF KoraInitialize, Serves, ChargesIn
<1>2. CASE KoraCharge(t)
    BY <1>0, <1>2, Named DEF KoraCharge, Serves, ChargesIn, StepsIn, Joins
<1>3. CASE KoraBankTransfer(t)
    BY <1>0, <1>3, Named DEF KoraBankTransfer, Serves, ChargesIn, StepsIn, Joins
<1>4. CASE KoraCredit(t)
    BY <1>0, <1>4, Named DEF KoraCredit, Serves, ChargesIn, StepsIn, Joins
<1>5. CASE KoraRefund(t)
    BY <1>5, RefundTaken DEF KoraRefund
<1>6. CASE KoraDisburse(t)
    BY <1>0, <1>6, Named DEF KoraDisburse, Serves, StartsIn
<1>7. ASSUME NEW o \in Outcomes, KoraAuthorize(t, o)
      PROVE  Taken(t)
    BY <1>0, <1>7, Named DEF KoraAuthorize, Serves, StepsIn
<1>8. ASSUME NEW o \in Outcomes, KoraAuthorizeStk(t, o)
      PROVE  Taken(t)
    BY <1>0, <1>8, Named DEF KoraAuthorizeStk, Serves, StepsIn
<1>9. ASSUME NEW o \in Outcomes, KoraPay(t, o)
      PROVE  Taken(t)
    BY <1>9, PayTaken DEF KoraPay
<1> QED
    BY <1>1, <1>2, <1>3, <1>4, <1>5, <1>6, <1>7, <1>8, <1>9 DEF KoraRoute

(***************************************************************************)
(* Every route of Flutterwave does: it gives back what was paid out.       *)
(***************************************************************************)
LEMMA FlwTaken ==
    ASSUME Inv, provider = "flutterwave", NEW t \in Callers, FlwRoute(t)
    PROVE  Taken(t)
<1> DEFINE S == Seq(Calls(provider, row.kind))
           P == Seq(Calls(provider, "payment"))
           Q == Seq(Calls(provider, "payout"))
<1>0. /\ Serves(t, S, P, Q) /\ Joins(S) /\ Joins(P) /\ Joins(Q)
      /\ StartsIn(S) /\ StepsIn(S) /\ StepsIn(P) /\ StepsIn(Q)
      /\ provider # "wise" => ChargesIn(S)
    BY Uptake
<1> HIDE DEF S, P, Q
<1>1. CASE FlwPayments(t)
    BY <1>0, <1>1, Named DEF FlwPayments, Serves, ChargesIn
<1>2. CASE FlwParkCard(t)
    BY <1>0, <1>2, Named DEF FlwParkCard, Serves, ChargesIn, StepsIn, Joins
<1>3. CASE FlwChargeWallet(t)
    BY <1>0, <1>3, Named DEF FlwChargeWallet, Serves, ChargesIn, StepsIn, Joins
<1>4. CASE FlwRefund(t)
    BY <1>4, RefundTaken DEF FlwRefund
<1>5. CASE FlwTransfer(t)
    BY <1>0, <1>5, Named DEF FlwTransfer, Serves, StartsIn
<1>6. CASE FlwTokenized(t)
    BY <1>0, <1>6, Named DEF FlwTokenized, Serves, ChargesIn, StepsIn, Joins
<1>7. CASE FlwPage3ds(t)
    BY <1>0, <1>7, Named DEF FlwPage3ds, Serves, StepsIn
<1>8. CASE FlwV4Pin(t)
    <2>1. Flag("pin") \in P
        BY PlainCalls DEF P, Markers
    <2> QED
        BY <1>0, <1>8, <2>1 DEF FlwV4Pin, Serves
<1>9. CASE FlwV4Transfer(t)
    <2>1. To("reversed") \in S
        BY MoveCalls, KnownWords DEF S, Reversing, Status, TransferStatus
    <2>2. Create("payout", "pending") \in S /\ Making(Create("payout", "pending"))
        BY <1>0, Named DEF StartsIn
    <2>3. To("successful") \in S /\ To("failed") \in S /\ To("processing") \in S
        BY <1>0, Named DEF StepsIn
    <2>4. To("processing") \o To("reversed") \in S
        BY <1>0, <2>1, <2>3 DEF Joins
    <2> QED
        BY ZenonT(60), <1>0, <1>9, <2>2, <2>3, <2>4 DEF FlwV4Transfer, Serves, Joins
<1>10. ASSUME NEW o \in Outcomes, FlwAuthorizeCard(t, o)
      PROVE  Taken(t)
    BY <1>0, <1>10, Named DEF FlwAuthorizeCard, Serves, ChargesIn, StepsIn, Joins
<1>11. ASSUME NEW o \in Outcomes, FlwChargeCard(t, o)
      PROVE  Taken(t)
    BY <1>0, <1>11, Named DEF FlwChargeCard, Serves, ChargesIn, StepsIn, Joins
<1>12. ASSUME NEW o \in Outcomes, FlwChargeRail(t, o)
      PROVE  Taken(t)
    BY <1>0, <1>12, Named DEF FlwChargeRail, Serves, ChargesIn, StepsIn, Joins
<1>13. ASSUME NEW o \in Outcomes, FlwValidate(t, o)
      PROVE  Taken(t)
    BY <1>0, <1>13, Named DEF FlwValidate, Serves, StepsIn
<1>14. ASSUME NEW o \in Outcomes, FlwPay(t, o)
      PROVE  Taken(t)
    BY <1>14, PayTaken DEF FlwPay
<1>15. ASSUME NEW o \in Outcomes, FlwV4Charge(t, o)
      PROVE  Taken(t)
    BY <1>0, <1>15, Named DEF FlwV4Charge, Serves, ChargesIn, StepsIn, Joins
<1>16. ASSUME NEW o \in Outcomes, FlwV4Authorize(t, o)
      PROVE  Taken(t)
    BY <1>0, <1>16, Named DEF FlwV4Authorize, Serves, StepsIn
<1> QED
    BY <1>1, <1>2, <1>3, <1>4, <1>5, <1>6, <1>7, <1>8, <1>9, <1>10, <1>11, <1>12,
       <1>13, <1>14, <1>15, <1>16 DEF FlwRoute

(***************************************************************************)
(* Every route of Tingg does.                                              *)
(***************************************************************************)
LEMMA TinggTaken ==
    ASSUME Inv, provider = "tingg", NEW t \in Callers, TinggRoute(t)
    PROVE  Taken(t)
<1> DEFINE S == Seq(Calls(provider, row.kind))
           P == Seq(Calls(provider, "payment"))
           Q == Seq(Calls(provider, "payout"))
<1>0. /\ Serves(t, S, P, Q) /\ Joins(S) /\ Joins(P) /\ Joins(Q)
      /\ StartsIn(S) /\ StepsIn(S) /\ StepsIn(P) /\ StepsIn(Q)
      /\ provider # "wise" => ChargesIn(S)
    BY Uptake
<1> HIDE DEF S, P, Q
<1>1. CASE TinggExpressRequest(t)
    BY <1>0, <1>1, Named DEF TinggExpressRequest, Serves, ChargesIn
<1>2. CASE TinggRequest(t)
    BY <1>0, <1>2, Named DEF TinggRequest, Serves, ChargesIn
<1>3. CASE TinggRefund(t)
    BY <1>3, RefundTaken DEF TinggRefund
<1>4. ASSUME NEW o \in Outcomes, TinggCheckoutCharge(t, o)
      PROVE  Taken(t)
    <2>1. {"created"} \in SUBSET Status
        BY Named
    <2>2. When({"created"}, "pending") \in S /\ Enqueue("simulate", o) \in S
        BY <1>0, <2>1, Named DEF StepsIn
    <2>3. postCharge(o) \in S
        BY <1>0, <2>2 DEF postCharge, Joins
    <2> QED
        BY <1>0, <1>4, <2>3, Named DEF TinggCheckoutCharge, Serves, ChargesIn, Joins
<1>5. ASSUME NEW o \in Outcomes, TinggCharge(t, o)
      PROVE  Taken(t)
    <2>1. {"created"} \in SUBSET Status
        BY Named
    <2>2. When({"created"}, "pending") \in P /\ Enqueue("simulate", o) \in P
        BY <1>0, <2>1, Named DEF StepsIn
    <2>3. postCharge(o) \in P
        BY <1>0, <2>2 DEF postCharge, Joins
    <2> QED
        BY <1>0, <1>5, <2>3 DEF TinggCharge, Serves
<1>6. ASSUME NEW o \in {"successful", "failed"}, TinggPostPayment(t, o)
      PROVE  Taken(t)
    <2>1. Lookup \in S /\ Store \in S /\ Enqueue("settle", o) \in S
        BY PlainCalls, EnqueueOutcome DEF S
    <2>2. Create("payout", "pending") \in S /\ Making(Create("payout", "pending"))
        BY <1>0, Named DEF StartsIn
    <2>3. Lookup \o Create("payout", "pending") \in S
          /\ Keyed(Lookup \o Create("payout", "pending"))
        BY <2>1, <2>2, Joined, LookedUpFirst DEF S
    <2> QED
        BY <1>0, <1>6, <2>1, <2>3 DEF TinggPostPayment, Serves, Joins
<1> QED
    BY <1>1, <1>2, <1>3, <1>4, <1>5, <1>6 DEF TinggRoute

(***************************************************************************)
(* Every route of WeWire does.                                             *)
(***************************************************************************)
LEMMA WeWireTaken ==
    ASSUME Inv, provider = "wewire", NEW t \in Callers, WeWireRoute(t)
    PROVE  Taken(t)
<1> DEFINE S == Seq(Calls(provider, row.kind))
           P == Seq(Calls(provider, "payment"))
           Q == Seq(Calls(provider, "payout"))
<1>0. /\ Serves(t, S, P, Q) /\ Joins(S) /\ Joins(P) /\ Joins(Q)
      /\ StartsIn(S) /\ StepsIn(S) /\ StepsIn(P) /\ StepsIn(Q)
      /\ provider # "wise" => ChargesIn(S)
    BY Uptake
<1> HIDE DEF S, P, Q
<1>1. ASSUME NEW o \in {"success", "declined"}, WeWireCollect(t, o)
      PROVE  Taken(t)
    <2> DEFINE m == CreateWith("pending", {"fresh"}) \o Enqueue("simulate", o)
    <2>1. m \in S /\ Making(m)
        BY <1>0, Named DEF ChargesIn, StepsIn, Joins
    <2> HIDE DEF m
    <2>2. idempotent(m) \in S /\ Keyed(idempotent(m))
        BY <2>1, KeyedProgram DEF idempotent, S
    <2> QED
        BY <1>0, <1>1, <2>2 DEF WeWireCollect, Serves, m
<1>2. ASSUME NEW o \in {"successful", "failed"}, WeWirePayout(t, o)
      PROVE  Taken(t)
    <2> DEFINE m == CreatePayout("pending", {"fresh"}) \o Enqueue("settle", o)
    <2>1. Enqueue("settle", o) \in S
        BY EnqueueOutcome DEF S
    <2>2. m \in S /\ Making(m)
        BY <1>0, <2>1, Named DEF StartsIn, Joins
    <2> HIDE DEF m
    <2>3. idempotent(m) \in S /\ Keyed(idempotent(m))
        BY <2>2, KeyedProgram DEF idempotent, S
    <2> QED
        BY <1>0, <1>2, <2>3 DEF WeWirePayout, Serves, m
<1> QED
    BY <1>1, <1>2 DEF WeWireRoute

(***************************************************************************)
(* What QuiddPay writes on its attempts                                    *)
(***************************************************************************)
LEMMA AttemptKept ==
    ASSUME Inv, NEW i \in DOMAIN attempt
    PROVE  i \in Nat /\ attempt[i].status \in AttemptStatus
<1> DEFINE R == [rail : Rail, status : AttemptStatus]
<1>1. attempt \in Seq(R)
    BY DEF Inv, JobsOK
<1> HIDE DEF R
<1>2. i \in Nat /\ attempt[i] \in R
    BY <1>1
<1> QED
    BY <1>2 DEF R

\* What comes before a program that marks an attempt keeps its mark distant,
LEMMA Distances ==
    ASSUME NEW p, NEW k, NEW a \in Seq(Calls(p, k)), NEW s \in Seq(Asks(p, k)),
           Distant(s)
    PROVE  a \o s \in Seq(Asks(p, k)) /\ Distant(a \o s)
<1> DEFINE r == a \o s
<1>1. a \in Seq(Asks(p, k)) /\ \A i \in 1..Len(a) : ~ Marks(a[i])
    <2>1. \A i \in 1..Len(a) : a[i] \in Calls(p, k)
        OBVIOUS
    <2> QED
        BY <2>1, Unmarking DEF Calls, Marks, Writing, Writable, AttemptStatus
<1>2. /\ r \in Seq(Asks(p, k)) /\ Len(r) = Len(a) + Len(s) /\ DOMAIN r = 1..Len(r)
      /\ Len(a) \in Nat /\ Len(s) \in Nat /\ DOMAIN s = 1..Len(s)
      /\ \A i \in 1..Len(r) : r[i] = IF i <= Len(a) THEN a[i] ELSE s[i - Len(a)]
    BY <1>1
<1> HIDE DEF r
<1>3. ASSUME NEW i \in DOMAIN r, Marks(r[i])
      PROVE  /\ i = Len(r) /\ i > 1
             /\ \/ r[i].to = "seen" /\ Hop(r[i - 1], "failed")
                \/ i > 2 /\ Hop(r[i - 1], "successful") /\ Hop(r[i - 2], "processing")
    <2> DEFINE j == i - Len(a)
    <2>1. i > Len(a) /\ r[i] = s[j] /\ j \in DOMAIN s
        BY <1>1, <1>2, <1>3
    <2>2. /\ j = Len(s) /\ j > 1
          /\ \/ s[j].to = "seen" /\ Hop(s[j - 1], "failed")
             \/ j > 2 /\ Hop(s[j - 1], "successful") /\ Hop(s[j - 2], "processing")
        BY <1>3, <2>1 DEF Distant
    <2>3. r[i - 1] = s[j - 1] /\ (j > 2 => r[i - 2] = s[j - 2])
        <3>1. /\ i - 1 \in 1..Len(r) /\ ~ (i - 1 <= Len(a)) /\ (i - 1) - Len(a) = j - 1
              /\ j > 2 => /\ i - 2 \in 1..Len(r) /\ ~ (i - 2 <= Len(a))
                          /\ (i - 2) - Len(a) = j - 2
            BY <1>2, <2>1, <2>2
        <3> HIDE DEF j
        <3> QED
            BY <1>2, <3>1
    <2>4. i = Len(r) /\ i > 1 /\ (j > 2 => i > 2)
        BY <1>2, <2>1, <2>2
    <2> HIDE DEF j
    <2> QED
        BY <2>1, <2>2, <2>3, <2>4
<1> QED
    BY <1>2, <1>3 DEF Distant, r

\* ... and a mark after the moves that it waits for is distant.
LEMMA MarkAfter ==
    ASSUME NEW p, NEW k, NEW a \in Seq(Calls(p, k)), NEW m \in Marking, Len(a) > 1,
           \/ m.to = "seen" /\ Hop(a[Len(a)], "failed")
           \/ Hop(a[Len(a)], "successful") /\ Hop(a[Len(a) - 1], "processing")
    PROVE  a \o <<m>> \in Seq(Asks(p, k)) /\ Distant(a \o <<m>>)
<1> DEFINE r == a \o <<m>>
<1>1. a \in Seq(Asks(p, k)) /\ \A i \in 1..Len(a) : ~ Marks(a[i])
    <2>1. \A i \in 1..Len(a) : a[i] \in Calls(p, k)
        OBVIOUS
    <2> QED
        BY <2>1, Unmarking DEF Calls, Marks, Writing, Writable, AttemptStatus
<1>2. m \in Asks(p, k)
    BY DEF Asks
<1>3. /\ r \in Seq(Asks(p, k)) /\ Len(r) = Len(a) + 1 /\ DOMAIN r = 1..Len(r)
      /\ Len(a) \in Nat /\ r[Len(a) + 1] = m
      /\ \A i \in 1..Len(a) : r[i] = a[i]
    BY <1>1, <1>2
<1> HIDE DEF r
<1>4. ASSUME NEW i \in DOMAIN r, Marks(r[i])
      PROVE  i = Len(a) + 1
    BY <1>1, <1>3, <1>4
<1>5. r[Len(a)] = a[Len(a)] /\ r[Len(a) - 1] = a[Len(a) - 1]
    BY <1>3
<1> QED
    BY <1>3, <1>4, <1>5 DEF Distant, r

\* The end of the simulator's plan
LEMMA PlanEnds ==
    ASSUME NEW o \in AllOutcomes
    PROVE  LET n == Len(Apply(o))
           IN  /\ n > 1
               /\ o # "authentication_required" =>
                     \/ Hop(Apply(o)[n], "failed")
                     \/ Hop(Apply(o)[n], "successful") /\ Hop(Apply(o)[n - 1], "processing")
               /\ o = "success" =>
                     Hop(Apply(o)[n], "successful") /\ Hop(Apply(o)[n - 1], "processing")
<1> DEFINE plan == PLANS[o]
           hops == [i \in 1..Len(plan) |-> Call("hop", plan[i], {})]
           s == Read \o hops
<1>1. /\ plan \in Seq(PaymentStatus)
      /\ o = "success" => plan = <<"processing", "successful">>
      /\ o = "declined" => plan = <<"processing", "failed">>
      /\ o = "network_error" => plan = <<"failed">>
      /\ o = "authentication_required" => plan = <<"requires_action">>
      /\ o = "authentication_failed" => plan = <<"requires_action", "failed">>
    BY PlanCalls DEF PLANS, AllOutcomes
<1>2. /\ Len(plan) \in Nat /\ Len(plan) > 0
      /\ o # "authentication_required" =>
            \/ plan[Len(plan)] = "failed"
            \/ Len(plan) = 2 /\ plan[2] = "successful" /\ plan[1] = "processing"
      /\ o = "success" => Len(plan) = 2 /\ plan[2] = "successful" /\ plan[1] = "processing"
    <2> HIDE DEF plan
    <2>1. /\ plan = <<"processing", "successful">> =>
                Len(plan) = 2 /\ plan[2] = "successful" /\ plan[1] = "processing"
          /\ plan = <<"processing", "failed">> \/ plan = <<"requires_action", "failed">> =>
                Len(plan) = 2 /\ plan[2] = "failed"
          /\ plan = <<"failed">> => Len(plan) = 1 /\ plan[1] = "failed"
          /\ plan = <<"requires_action">> => Len(plan) = 1
        OBVIOUS
    <2> QED
        BY <1>1, <2>1 DEF AllOutcomes
<1> HIDE DEF plan
<1>3. /\ hops \in Seq({Call("hop", plan[i], {}) : i \in 1..Len(plan)})
      /\ Len(hops) = Len(plan)
      /\ \A i \in 1..Len(plan) : hops[i] = Call("hop", plan[i], {})
    BY <1>2
<1> HIDE DEF hops
<1>4. /\ Len(s) = Len(plan) + 1
      /\ \A i \in 1..Len(plan) : s[i + 1] = Call("hop", plan[i], {})
    BY <1>2, <1>3 DEF Read
<1>5. \A i \in 1..Len(plan) : Hop(s[i + 1], plan[i])
    <2>1. \A to : Hop(Call("hop", to, {}), to)
        BY DEF Hop, Call
    <2> HIDE DEF s
    <2> QED
        BY <1>4, <2>1
<1>6. s = Apply(o)
    BY DEF Apply, hops, plan
<1> HIDE DEF s
<1>7. Hop(s[Len(s)], plan[Len(plan)]) /\ (Len(plan) = 2 => Hop(s[Len(s) - 1], plan[1]))
    BY <1>2, <1>4, <1>5
<1> QED
    BY <1>2, <1>4, <1>6, <1>7

\* What is left to ask of a step-up decides.
LEMMA SteppedDecides ==
    ASSUME NEW o \in Outcomes
    PROVE  Stepped(o) \in AllOutcomes /\ Stepped(o) # "authentication_required"
BY OutcomesAssumption DEF Stepped, AllOutcomes

\* Starting an attempt is a program of any provider, and settling it by the
\* instrument it was made with marks it after the payment has moved.
LEMMA AttemptCalls ==
    ASSUME NEW p, NEW k
    PROVE  /\ \A rail \in Rail : startAttempt(rail) \in Seq(Calls(p, k))
           /\ \A i \in Nat, o \in Outcomes :
                 /\ settleByInstrument(i, o) \in Seq(Asks(p, k))
                 /\ Distant(settleByInstrument(i, o))
<1> DEFINE P == Seq(Calls(p, k))
<1>1. StepsIn(P) /\ Joins(P)
    BY Steps, Joined DEF Joins
<1>2. \A rail \in Rail : Begin(rail) \in P
    BY PlainCalls
<1> HIDE DEF P
<1>3. ASSUME NEW rail \in Rail
      PROVE  startAttempt(rail) \in P
    BY <1>1, <1>2, Named DEF startAttempt, StepsIn, Joins
<1>4. ASSUME NEW i \in Nat, NEW o \in Outcomes
      PROVE  /\ settleByInstrument(i, o) \in Seq(Asks(p, k))
             /\ Distant(settleByInstrument(i, o))
    <2> DEFINE m == Call("put", "seen", {i})
               a == Apply(Stepped(o))
    <2>1. m \in Marking /\ m.to = "seen"
        BY KnownWords DEF Marking, Marks, Call, CallOf, Ops
    <2>2. a \in Seq(Calls(p, k))
        BY SteppedDecides, PlanCalls
    <2>3. /\ Len(a) > 1
          /\ \/ Hop(a[Len(a)], "failed")
             \/ Hop(a[Len(a)], "successful") /\ Hop(a[Len(a) - 1], "processing")
        BY SteppedDecides, PlanEnds
    <2>4. settleByInstrument(i, o) = a \o <<m>>
        BY DEF settleByInstrument, Put
    <2> HIDE DEF a, m
    <2> QED
        BY <2>1, <2>2, <2>3, <2>4, MarkAfter
<1> QED
    BY <1>3, <1>4 DEF P

\* So does forcing an attempt to a chosen outcome, when it is not paid.
LEMMA TestOutcomeCalls ==
    ASSUME Inv, NEW i \in DOMAIN attempt, attempt[i].status # "paid",
           NEW outcome \in AttemptStatus, NEW p, NEW k
    PROVE  /\ applyTestOutcome(i, outcome) \in Seq(Asks(p, k))
           /\ Distant(applyTestOutcome(i, outcome))
<1> DEFINE P == Seq(Calls(p, k))
<1>1. StepsIn(P) /\ Joins(P)
    BY Steps, Joined DEF Joins
<1>2. \A s \in AttemptStatus \ {"paid"} : Put(i, s) \in P
    BY PlainCalls, AttemptKept
<1>3. Put(i, attempt[i].status) \in P
    BY <1>2, AttemptKept
<1> HIDE DEF P
<1>4. /\ Apply("success") \in P /\ Apply("declined") \in P
      /\ Apply("authentication_failed") \in P /\ To("expired") \in P
    BY <1>1, Named DEF StepsIn
<1>5. CASE outcome = "paid"
    <2> DEFINE m == Call("put", "paid", {i})
               a == Apply("success")
    <2>1. m \in Marking
        BY AttemptKept, KnownWords DEF Marking, Marks, Call, CallOf, Ops, AttemptStatus
    <2>2. "success" \in AllOutcomes
        BY DEF AllOutcomes
    <2>3. /\ a \in Seq(Calls(p, k)) /\ Len(a) > 1
          /\ Hop(a[Len(a)], "successful") /\ Hop(a[Len(a) - 1], "processing")
        BY <2>2, PlanCalls, PlanEnds
    <2>4. applyTestOutcome(i, outcome) = a \o <<m>>
        BY <1>5 DEF applyTestOutcome, Put
    <2> HIDE DEF a, m
    <2> QED
        BY <2>1, <2>3, <2>4, MarkAfter
<1>6. CASE outcome # "paid"
    <2>1. applyTestOutcome(i, outcome) \in P
        <3>1. \A s \in {"failed", "expired", "cancelled", "reversed", "manual_review"} :
                  Put(i, s) \in P
            BY <1>2 DEF AttemptStatus
        <3>2. /\ outcome = "failed" => applyTestOutcome(i, outcome) =
                                           Apply("declined") \o Put(i, "failed")
              /\ outcome = "expired" => applyTestOutcome(i, outcome) =
                                            To("expired") \o Put(i, "expired")
              /\ outcome = "cancelled" => applyTestOutcome(i, outcome) =
                                              Apply("authentication_failed") \o Put(i, "cancelled")
              /\ outcome = "reversed" => applyTestOutcome(i, outcome) =
                                             Apply("declined") \o Put(i, "reversed")
              /\ outcome = "manual_review" => applyTestOutcome(i, outcome) =
                                                  Put(i, "manual_review")
              /\ outcome = "pending" => applyTestOutcome(i, outcome) =
                                            Put(i, attempt[i].status)
            BY DEF applyTestOutcome
        <3>3. outcome \in {"failed", "expired", "cancelled", "reversed", "manual_review",
                           "pending"}
            BY <1>6 DEF AttemptStatus
        <3> QED
            BY <1>1, <1>3, <1>4, <3>1, <3>2, <3>3 DEF Joins
    <2> QED
        BY <2>1, Unmarking DEF P
<1> QED
    BY <1>5, <1>6

\* What can still be paid has no paid attempt.
LEMMA PayableUnpaid ==
    ASSUME Inv, MarkedOnce, provider = "quiddpay", row.kind = "payment",
           row.status \in Payable
    PROVE  Paid = {} /\ Paying = {}
<1>1. Answered = "open"
    <2>1. Word(provider, row) = toQuiddpaySessionStatus(row.status)
        BY DEF Word
    <2>2. Tells("open") = "open" /\ Tells("pending") = "open"
        BY DEF Tells
    <2> QED
        BY <2>1, <2>2 DEF Answered, Payable
<1> QED
    BY <1>1 DEF Inv, Unpaid, MarkedOnce

(***************************************************************************)
(* How Stripe confirms an intent                                           *)
(***************************************************************************)
LEMMA ConfirmCalls ==
    ASSUME NEW p, NEW k
    PROVE  /\ Read \in Seq(Calls(p, k)) /\ Read # <<>>
           /\ p = "stripe" =>
                /\ Resume("pending") \in Seq(Calls(p, k)) /\ <<>> \in Seq(Calls(p, k))
                /\ \A manual, o : o \in Outcomes =>
                      confirmPayment(manual, o) \in Seq(Calls(p, k))
<1>1. Read \in Seq(Calls(p, k)) /\ Read # <<>>
    BY PlainCalls DEF Read
<1>2. ASSUME p = "stripe"
      PROVE  /\ Resume("pending") \in Seq(Calls(p, k))
             /\ Resume("processing") \in Seq(Calls(p, k))
    BY <1>2, MoveCalls, KnownWords
<1> DEFINE P == Seq(Calls(p, k))
<1>3. StepsIn(P) /\ Joins(P) /\ <<>> \in P
    BY Steps, Joined DEF Joins
<1> HIDE DEF P
<1>4. ASSUME p = "stripe", NEW manual, NEW o \in Outcomes
      PROVE  confirmPayment(manual, o) \in P
    <2>1. Resume("processing") \in P
        BY <1>2, <1>4 DEF P
    <2>2. To("authorized") \in P /\ Enqueue("simulate", o) \in P
        BY <1>3, Named DEF StepsIn
    <2> QED
        BY <1>3, <2>1, <2>2 DEF confirmPayment, Joins
<1> QED
    BY <1>1, <1>2, <1>3, <1>4 DEF P

\* Whatever the details sent along, the payment is read before it is confirmed.
LEMMA DetailsRead ==
    ASSUME NEW details \in {Resume("pending"), <<>>}
    PROVE  details \o Read # <<>>
<1>1. CASE details = Resume("pending")
    <2>1. Len(details \o Read) = 2
        BY <1>1 DEF Resume, Read
    <2> QED
        BY <2>1
<1>2. CASE details = <<>>
    <2>1. Len(details \o Read) = 1
        BY <1>2 DEF Read
    <2> QED
        BY <2>1
<1> QED
    BY <1>1, <1>2

(***************************************************************************)
(* Every route of QuiddPay does.                                           *)
(***************************************************************************)
LEMMA QuiddTaken ==
    ASSUME Inv, MarkedOnce, provider = "quiddpay", NEW t \in Callers, QuiddRoute(t)
    PROVE  Taken(t)
<1> DEFINE S == Seq(Calls(provider, row.kind))
           P == Seq(Calls(provider, "payment"))
           Q == Seq(Calls(provider, "payout"))
<1>0. /\ Serves(t, S, P, Q) /\ Joins(S) /\ Joins(P) /\ Joins(Q)
      /\ StartsIn(S) /\ StepsIn(S) /\ StepsIn(P) /\ StepsIn(Q)
      /\ provider # "wise" => ChargesIn(S)
    BY Uptake
<1> HIDE DEF S, P, Q
<1>1. CASE QuiddSession(t)
    BY <1>0, <1>1, Named DEF QuiddSession, Serves, ChargesIn
<1>2. CASE QuiddPayout(t)
    BY <1>0, <1>2, Named DEF QuiddPayout, Serves, StartsIn, StepsIn, Joins
<1>3. CASE QuiddCancelPayout(t)
    BY <1>0, <1>3, Named DEF QuiddCancelPayout, Serves, StepsIn
<1>4. ASSUME NEW rail \in Rail, QuiddStartAttempt(t, rail)
      PROVE  Taken(t)
    <2>1. NonePending \in P /\ startAttempt(rail) \in P
        BY AttemptCalls, PlainCalls DEF P
    <2>2. NonePending \o startAttempt(rail) \in P
        BY <1>0, <2>1 DEF Joins
    <2> QED
        BY <1>0, <1>4, <2>2 DEF QuiddStartAttempt, Serves
<1>5. ASSUME NEW rail \in Rail, NEW o \in Outcomes, QuiddPayPage(t, rail, o)
      PROVE  Taken(t)
    <2> DEFINE settle == settleByInstrument(0, o)
    <2>1. /\ startAttempt(rail) \in Seq(Calls(provider, "payment"))
          /\ settle \in Seq(Asks(provider, "payment")) /\ Distant(settle)
        BY AttemptCalls
    <2>2. CASE rail = "momo"
        <3>1. ServeIn(Payable, t, startAttempt(rail) \o settle)
            BY <1>5, <2>2 DEF QuiddPayPage
        <3>2. /\ startAttempt(rail) \o settle \in Seq(Asks(provider, "payment"))
              /\ Distant(startAttempt(rail) \o settle)
            BY <2>1, Distances
        <3> QED
            BY <3>1, <3>2, ServeMarkTaken
    <2>3. CASE rail # "momo"
        <3>1. ServeIn(Payable, t, startAttempt(rail) \o <<>>)
            BY <1>5, <2>3 DEF QuiddPayPage
        <3>2. startAttempt(rail) \in P /\ <<>> \in P
            BY <2>1 DEF P
        <3> QED
            BY <1>0, <3>1, <3>2 DEF Serves, Joins
    <2> QED
        BY <2>2, <2>3
<1>6. ASSUME NEW i \in DOMAIN attempt, NEW o \in Outcomes, QuiddAuthorize(t, i, o)
      PROVE  Taken(t)
    <2>1. /\ settleByInstrument(i, o) \in Seq(Asks(provider, "payment"))
          /\ Distant(settleByInstrument(i, o))
        BY AttemptCalls, AttemptKept
    <2> QED
        BY <1>6, <2>1, ServeMarkTaken DEF QuiddAuthorize
<1>7. ASSUME NEW i \in DOMAIN attempt, NEW outcome \in AttemptStatus,
             QuiddSimulate(t, i, outcome)
      PROVE  Taken(t)
    <2>1. attempt[i].status # "paid"
        BY <1>7, PayableUnpaid DEF QuiddSimulate, ServeIn, ServeOn, Paid
    <2>2. /\ applyTestOutcome(i, outcome) \in Seq(Asks(provider, "payment"))
          /\ Distant(applyTestOutcome(i, outcome))
        BY <2>1, TestOutcomeCalls
    <2> QED
        BY <1>7, <2>2, ServeMarkTaken DEF QuiddSimulate
<1> QED
    BY <1>1, <1>2, <1>3, <1>4, <1>5, <1>6, <1>7 DEF QuiddRoute

(***************************************************************************)
(* Every route of Paystack does.                                           *)
(***************************************************************************)
LEMMA PaystackTaken ==
    ASSUME Inv, provider = "paystack", NEW t \in Callers, PaystackRoute(t)
    PROVE  Taken(t)
<1> DEFINE S == Seq(Calls(provider, row.kind))
           P == Seq(Calls(provider, "payment"))
           Q == Seq(Calls(provider, "payout"))
<1>0. /\ Serves(t, S, P, Q) /\ Joins(S) /\ Joins(P) /\ Joins(Q)
      /\ StartsIn(S) /\ StepsIn(S) /\ StepsIn(P) /\ StepsIn(Q)
      /\ provider # "wise" => ChargesIn(S)
    BY Uptake
<1> HIDE DEF S, P, Q
<1>1. CASE PaystackInitialize(t)
    <2> DEFINE m == CreateWith("pending", {"expires", "fresh"})
    <2>1. m \in S /\ Making(m)
        BY <1>0, Named DEF ChargesIn
    <2> HIDE DEF m
    <2>2. WithKey(m) \in S /\ Keyed(WithKey(m))
        BY <2>1, KeyedProgram DEF WithKey, S
    <2> QED
        BY <1>0, <1>1, <2>1, <2>2 DEF PaystackInitialize, Serves, m
<1>2. CASE PaystackSubmitPin(t)
    BY <1>0, <1>2, Named DEF PaystackSubmitPin, Serves, StepsIn
<1>3. CASE PaystackTransfer(t)
    BY <1>0, <1>3, Named DEF PaystackTransfer, Serves, StartsIn
<1>4. ASSUME NEW right \in BOOLEAN, PaystackSubmitOtp(t, right)
      PROVE  Taken(t)
    BY <1>0, <1>4, Named DEF PaystackSubmitOtp, Serves, StepsIn
<1>5. ASSUME NEW o \in Outcomes, PaystackCharge(t, o)
      PROVE  Taken(t)
    BY <1>0, <1>5, Named DEF PaystackCharge, Serves, ChargesIn, StepsIn, Joins
<1>6. ASSUME NEW o \in Outcomes, chargeStoredAuthorization(t, o)
      PROVE  Taken(t)
    BY <1>0, <1>6, Named DEF chargeStoredAuthorization, Serves, ChargesIn, StepsIn,
       Joins
<1>7. ASSUME NEW o \in Outcomes, PaystackPay(t, o)
      PROVE  Taken(t)
    BY <1>7, PayTaken DEF PaystackPay
<1>8. ASSUME NEW outcome \in RefundOutcome, PaystackRefund(t, outcome)
      PROVE  Taken(t)
    <2>1. outcome \in RefundStatus
        BY DEF RefundOutcome, RefundStatus
    <2>2. Refund \in P /\ Enqueue("refund", outcome) \in P
        BY <2>1, PlainCalls, EnqueueOutcome DEF P
    <2>3. Refund \o Enqueue("refund", outcome) \in P
        BY <1>0, <2>2 DEF Joins
    <2> QED
        BY <1>0, <1>8, <2>3 DEF PaystackRefund, Serves
<1>9. ASSUME NEW outcome \in RefundOutcome, PaystackRetryRefund(t, outcome)
      PROVE  Taken(t)
    <2> DEFINE to == IF outcome = "failed" THEN "failed" ELSE "successful"
    <2>1. to \in Words /\ "processing" \in Words
        BY KnownWords
    <2> HIDE DEF to
    <2>2. RefundTo("processing") \in P /\ RefundTo(to) \in P
        BY <2>1, PlainCalls DEF P
    <2>3. RefundTo("processing") \o RefundTo(to) \in P
        BY <1>0, <2>2 DEF Joins
    <2> QED
        BY <1>0, <1>9, <2>3 DEF PaystackRetryRefund, Serves, to
<1> QED
    BY <1>1, <1>2, <1>3, <1>4, <1>5, <1>6, <1>7, <1>8, <1>9 DEF PaystackRoute

(***************************************************************************)
(* Every route of Stripe does: it resumes what failed.                     *)
(***************************************************************************)
LEMMA StripeTaken ==
    ASSUME Inv, provider = "stripe", NEW t \in Callers, StripeRoute(t)
    PROVE  Taken(t)
<1> DEFINE S == Seq(Calls(provider, row.kind))
           P == Seq(Calls(provider, "payment"))
           Q == Seq(Calls(provider, "payout"))
<1>0. /\ Serves(t, S, P, Q) /\ Joins(S) /\ Joins(P) /\ Joins(Q)
      /\ StartsIn(S) /\ StepsIn(S) /\ StepsIn(P) /\ StepsIn(Q)
      /\ provider # "wise" => ChargesIn(S)
    BY Uptake
<1> HIDE DEF S, P, Q
<1>1. CASE StripeCapture(t)
    <2>1. {"authorized"} \in SUBSET Words
        BY KnownWords, Named
    <2>2. Require({"authorized"}) \in P
        BY <2>1, PlainCalls DEF P
    <2>3. capture \in P
        BY <1>0, <2>2, Named DEF capture, StepsIn, Joins
    <2> QED
        BY <1>0, <1>1, <2>3 DEF StripeCapture, Serves
<1>2. CASE StripeCancel(t)
    BY <1>0, <1>2, Named DEF StripeCancel, Serves, StepsIn
<1>3. CASE StripeSession(t)
    BY <1>0, <1>3, Named DEF StripeSession, Serves, ChargesIn
<1>4. CASE StripeExpireSession(t)
    BY <1>0, <1>4, Named DEF StripeExpireSession, Serves, StepsIn
<1>5. CASE StripeRefund(t)
    BY <1>5, RefundTaken DEF StripeRefund
<1>6. ASSUME NEW o \in Outcomes, StripeConfirm(t, o)
      PROVE  Taken(t)
    <2>1. PICK details \in {Resume("pending"), <<>>} :
              ServeRead(t, details \o Read \o confirmPayment("manual" \in row.flags, o))
        BY <1>6 DEF StripeConfirm
    <2>a. Resume("pending") \in P /\ <<>> \in P
        BY ConfirmCalls DEF P
    <2>b. confirmPayment("manual" \in row.flags, o) \in P
        BY ConfirmCalls DEF P
    <2>2. /\ details \in P /\ Read \in P /\ Read # <<>>
          /\ confirmPayment("manual" \in row.flags, o) \in P
        BY <2>a, <2>b, ConfirmCalls DEF P
    <2>3. details \o Read # <<>>
        BY <2>2, DetailsRead
    <2>4. /\ details \o Read \o confirmPayment("manual" \in row.flags, o) \in P
          /\ details \o Read \o confirmPayment("manual" \in row.flags, o) # <<>>
        BY <1>0, <2>2, <2>3 DEF Joins
    <2> QED
        BY <1>0, <2>1, <2>4 DEF Serves
<1>7. ASSUME NEW o \in Outcomes, StripeCharge(t, o)
      PROVE  Taken(t)
    <2>1. <<>> \in S
        BY DEF S
    <2> QED
        BY <1>0, <1>7, <2>1, Named DEF StripeCharge, Serves, ChargesIn, StepsIn, Joins
<1>8. ASSUME NEW o \in Outcomes, StripePaySession(t, o)
      PROVE  Taken(t)
    <2>1. PICK subscribes \in BOOLEAN :
              ServeOn("payment", t,
                  To("pending") \o Read \o confirmPayment(FALSE, o) \o
                  IF subscribes THEN Flag("subscribed") ELSE <<>>)
        BY <1>8 DEF StripePaySession
    <2>2. /\ Read \in P /\ confirmPayment(FALSE, o) \in P
          /\ Flag("subscribed") \in P /\ <<>> \in P
        BY ConfirmCalls, PlainCalls DEF P, Markers
    <2>3. To("pending") \in P
        BY <1>0, Named DEF StepsIn
    <2>4. To("pending") \o Read \o confirmPayment(FALSE, o) \o
              (IF subscribes THEN Flag("subscribed") ELSE <<>>) \in P
        BY <1>0, <2>2, <2>3 DEF Joins
    <2> QED
        BY <1>0, <2>1, <2>4 DEF Serves
<1>9. ASSUME NEW manual \in BOOLEAN, StripeCreateIntent(t, manual)
      PROVE  Taken(t)
    <2> DEFINE flags == IF manual THEN {"manual"} ELSE {}
               new  == CreateWith("created", flags)
               paid == new \o To("pending")
    <2>1. new \in S /\ Making(new)
        BY <1>0, Named DEF ChargesIn
    <2>2. paid \in S /\ Making(paid)
        <3> HIDE DEF new
        <3> QED
            BY <1>0, <2>1, Named DEF StepsIn, Joins
    <2>3. PICK program \in {new, paid} \cup {paid \o confirmPayment(manual, o) : o \in Outcomes} :
              ServeNew(t, program)
        BY <1>9 DEF StripeCreateIntent
    <2> HIDE DEF new, paid
    <2>4. \A o \in Outcomes : confirmPayment(manual, o) \in S
        BY ConfirmCalls DEF S
    <2>5. program \in S /\ Making(program)
        BY <1>0, <2>1, <2>2, <2>3, <2>4 DEF Joins
    <2> QED
        BY <1>0, <2>3, <2>5 DEF Serves
<1> QED
    BY <1>1, <1>2, <1>3, <1>4, <1>5, <1>6, <1>7, <1>8, <1>9 DEF StripeRoute

(***************************************************************************)
(* Every route of Wise does: it has payouts only, and gives them back.     *)
(***************************************************************************)
LEMMA WiseTaken ==
    ASSUME Inv, provider = "wise", NEW t \in Callers, WiseRoute(t)
    PROVE  Taken(t)
<1> DEFINE S == Seq(Calls(provider, row.kind))
           P == Seq(Calls(provider, "payment"))
           Q == Seq(Calls(provider, "payout"))
<1>0. /\ Serves(t, S, P, Q) /\ Joins(S) /\ Joins(P) /\ Joins(Q)
      /\ StartsIn(S) /\ StepsIn(S) /\ StepsIn(P) /\ StepsIn(Q)
      /\ provider # "wise" => ChargesIn(S)
    BY Uptake
<1> HIDE DEF S, P, Q
<1>1. CASE WiseCreateTransfer(t)
    <2>1. Create("payout", "pending") \in S /\ Making(Create("payout", "pending"))
        BY <1>0, Named DEF StartsIn
    <2>2. /\ Lookup \o Create("payout", "pending") \o Store \in S
          /\ Keyed(Lookup \o Create("payout", "pending") \o Store)
        BY <2>1, KeyedProgram DEF S
    <2> QED
        BY <1>0, <1>1, <2>2 DEF WiseCreateTransfer, Serves
<1>2. CASE WiseFund(t)
    BY <1>0, <1>2, Named DEF WiseFund, Serves, StepsIn
<1>3. CASE WiseCancel(t)
    BY <1>0, <1>3, Named DEF WiseCancel, Serves, StepsIn
<1>4. ASSUME NEW target \in {"processing", "successful", "failed", "reversed"},
             WiseSimulate(t, target)
      PROVE  Taken(t)
    <2>1. Unless(target) \in Q /\ When({"pending"}, "processing") \in Q
        <3>1. /\ target \in Words /\ "processing" \in Words /\ {"pending"} \in SUBSET Words
              /\ provider \in Reversing
            BY KnownWords DEF Reversing, Status, TransferStatus
        <3> QED
            BY <3>1, MoveCalls DEF Q
    <2>2. When({"pending"}, "processing") \o Unless(target) \in Q
        BY <1>0, <2>1 DEF Joins
    <2> QED
        BY <1>0, <1>4, <2>1, <2>2 DEF WiseSimulate, Serves
<1> QED
    BY <1>1, <1>2, <1>3, <1>4 DEF WiseRoute

(***************************************************************************)
(* Every route of the control API does, whatever the provider.             *)
(***************************************************************************)
LEMMA HostTaken ==
    ASSUME Inv, NEW t \in Callers, HostRoute(t)
    PROVE  Taken(t)
<1> DEFINE S == Seq(Calls(provider, row.kind))
           P == Seq(Calls(provider, "payment"))
           Q == Seq(Calls(provider, "payout"))
<1>0. /\ Serves(t, S, P, Q) /\ Joins(S) /\ Joins(P) /\ Joins(Q)
      /\ StartsIn(S) /\ StepsIn(S) /\ StepsIn(P) /\ StepsIn(Q)
      /\ provider # "wise" => ChargesIn(S)
    BY Uptake
<1> HIDE DEF S, P, Q
<1>1. CASE HostCapture(t)
    BY <1>0, <1>1, Named DEF HostCapture, Serves, StepsIn, Joins
<1>2. CASE HostRefund(t)
    BY <1>2, RefundTaken DEF HostRefund
<1>3. ASSUME NEW o \in Outcomes, HostSimulate(t, o)
      PROVE  Taken(t)
    <2> DEFINE last == PLANS[o][Len(PLANS[o])]
    <2>1. last \in PaymentStatus
        BY Named, PlanCalls
    <2>2. last \in Status \ {"reversed"}
        BY <2>1 DEF Status, PaymentStatus
    <2> HIDE DEF last
    <2>3. /\ Read \in P /\ Read # <<>> /\ Unless(last) \in P
          /\ Apply(o) \in P /\ Apply(o) # <<>>
        BY <1>0, <2>2, Named, ConfirmCalls DEF StepsIn, P
    <2>4. Read \o Unless(last) \in P /\ Read \o Unless(last) # <<>>
        BY <1>0, <2>3 DEF Joins
    <2> QED
        BY <1>0, <1>3, <2>3, <2>4 DEF HostSimulate, Serves, last
<1>4. ASSUME NEW s \in {"cancelled", "expired", "authorized"}, HostMove(t, s)
      PROVE  Taken(t)
    BY <1>0, <1>4, Named DEF HostMove, Serves, StepsIn
<1>5. ASSUME NEW approved \in BOOLEAN, HostAuthenticate(t, approved)
      PROVE  Taken(t)
    BY <1>0, <1>5, Named DEF HostAuthenticate, Serves, StepsIn
<1>6. ASSUME NEW s \in {"successful", "failed"}, HostSettleTransfer(t, s)
      PROVE  Taken(t)
    BY <1>0, <1>6, Named DEF HostSettleTransfer, Serves, StepsIn, Joins
<1> QED
    BY <1>1, <1>2, <1>3, <1>4, <1>5, <1>6 DEF HostRoute

-----------------------------------------------------------------------------
(***************************************************************************)
(* What a word tells                                                       *)
(***************************************************************************)
LEMMA Telling ==
    /\ Tells("none") = "none"
    /\ \A w \in {"success", "successful", "SUCCESSFUL", "succeeded", "183",
                 "paid", "outgoing_payment_sent"} : Tells(w) = "paid"
    /\ \A w \in {"failed", "FAILED", "180", "expired", "cancelled", "CANCELLED",
                 "canceled", "abandoned", "bounced_back"} : Tells(w) = "ended"
    /\ \A w \in {"reversed", "REVERSED", "returned", "funds_refunded"} :
          Tells(w) = "returned"
    /\ \A w \in {"pending", "processing", "130", "PENDING", "open", "ongoing",
                 "requires_payment_method", "requires_confirmation",
                 "requires_action", "requires_capture", "NEW", "139", "148",
                 "created", "requested", "incoming_payment_waiting"} : Tells(w) = "open"
BY DEF Tells

(***************************************************************************)
(* Every adapter shows a payment as open until it is paid or over; only    *)
(* Stripe shows one that failed as open.                                   *)
(***************************************************************************)
LEMMA PaymentWord ==
    ASSUME NEW p \in Providers \ {"wise"}, NEW r, r.kind = "payment",
           r.status \in PaymentStatus
    PROVE  /\ r.status \in {"created", "pending", "processing", "requires_action",
                            "authorized"} => Tells(Word(p, r)) = "open"
           /\ r.status \in {"successful", "partially_refunded"} =>
                 Tells(Word(p, r)) = "paid"
           /\ r.status = "refunded" => Tells(Word(p, r)) \in {"paid", "returned"}
           /\ r.status \in {"cancelled", "expired"} => Tells(Word(p, r)) = "ended"
           /\ r.status = "failed" => Tells(Word(p, r)) \in {"open", "ended"}
           /\ r.status = "failed" /\ p # "stripe" => Tells(Word(p, r)) = "ended"
<1>1. CASE p = "kora"
    <2>1. Word(p, r) = toKoraStatus(r.status)
        BY <1>1 DEF Word
    <2> QED
        BY <1>1, <2>1, Telling DEF toKoraStatus, PaymentStatus
<1>2. CASE p = "flutterwave"
    <2>1. Word(p, r) = toFlutterwaveStatus(r.status)
        BY <1>2 DEF Word
    <2> QED
        BY <1>2, <2>1, Telling DEF toFlutterwaveStatus, PaymentStatus
<1>3. CASE p = "tingg"
    <2>1. Word(p, r) = toTinggStatus(r.status)
        BY <1>3 DEF Word
    <2> QED
        BY <1>3, <2>1, Telling DEF toTinggStatus, PaymentStatus
<1>4. CASE p = "wewire"
    <2>1. Word(p, r) = toWewireStatus(r.status)
        BY <1>4 DEF Word
    <2> QED
        BY <1>4, <2>1, Telling DEF toWewireStatus, PaymentStatus
<1>5. CASE p = "quiddpay"
    <2>1. Word(p, r) = toQuiddpaySessionStatus(r.status)
        BY <1>5 DEF Word
    <2> QED
        BY <1>5, <2>1, Telling DEF toQuiddpaySessionStatus, PaymentStatus
<1>6. CASE p = "paystack"
    <2>1. Word(p, r) = toPaystackStatus(r.status)
        BY <1>6 DEF Word
    <2> QED
        BY <1>6, <2>1, Telling DEF toPaystackStatus, PaymentStatus
<1>7. CASE p = "stripe"
    <2>1. Word(p, r) = toStripeStatus(r.status)
        BY <1>7 DEF Word
    <2> QED
        BY <1>7, <2>1, Telling DEF toStripeStatus, PaymentStatus
<1> QED
    BY <1>1, <1>2, <1>3, <1>4, <1>5, <1>6, <1>7 DEF Providers

(***************************************************************************)
(* Every adapter shows a payout as open until it is paid or over.          *)
(***************************************************************************)
LEMMA PayoutWord ==
    ASSUME NEW p \in Providers, NEW r, r.kind = "payout", r.status \in TransferStatus
    PROVE  /\ r.status \in {"created", "pending", "processing"} =>
                 Tells(Word(p, r)) = "open"
           /\ r.status = "successful" => Tells(Word(p, r)) = "paid"
           /\ r.status \in {"failed", "cancelled"} => Tells(Word(p, r)) = "ended"
           /\ r.status = "reversed" /\ p \in Reversing => Tells(Word(p, r)) = "returned"
<1>1. CASE p = "kora"
    <2>1. Word(p, r) = toKoraTransferStatus(r.status)
        BY <1>1 DEF Word
    <2> QED
        BY <1>1, <2>1, Telling DEF toKoraTransferStatus, TransferStatus, Reversing
<1>2. CASE p = "flutterwave"
    <2>1. Word(p, r) = toFlutterwaveTransferStatus(r.status)
        BY <1>2 DEF Word
    <2> QED
        BY <1>2, <2>1, Telling DEF toFlutterwaveTransferStatus, TransferStatus, Reversing
<1>3. CASE p = "tingg"
    <2>1. Word(p, r) = toBeepStatus(r.status)
        BY <1>3 DEF Word
    <2> QED
        BY <1>3, <2>1, Telling DEF toBeepStatus, TransferStatus, Reversing
<1>4. CASE p = "wewire"
    <2>1. Word(p, r) = toWewireTransferStatus(r.status)
        BY <1>4 DEF Word
    <2> QED
        BY <1>4, <2>1, Telling DEF toWewireTransferStatus, TransferStatus, Reversing
<1>5. CASE p = "quiddpay"
    <2>1. Word(p, r) = toQuiddpayPayoutStatus(r.status)
        BY <1>5 DEF Word
    <2> QED
        BY <1>5, <2>1, Telling DEF toQuiddpayPayoutStatus, TransferStatus, Reversing
<1>6. CASE p = "wise"
    <2>1. Word(p, r) = TRANSFER_TO_WISE(r.status)
        BY <1>6 DEF Word
    <2> QED
        BY <1>6, <2>1, Telling DEF TRANSFER_TO_WISE, TransferStatus, Reversing
<1>7. CASE p \in {"paystack", "stripe"}
    <2>1. Word(p, r) = r.status
        BY <1>7 DEF Word
    <2> QED
        BY <1>7, <2>1, Telling DEF TransferStatus, Reversing
<1> QED
    BY <1>1, <1>2, <1>3, <1>4, <1>5, <1>6, <1>7 DEF Providers

\* Of a row, the provider's word tells the kind and the status only.
LEMMA SameWord ==
    ASSUME NEW p, NEW r, NEW q, q.kind = r.kind, q.status = r.status
    PROVE  Word(p, q) = Word(p, r)
BY DEF Word

\* At Stripe a declined intent stays open for another payment method.
LEMMA StripeFailed ==
    ASSUME NEW r, r.kind = "payment", r.status = "failed"
    PROVE  Tells(Word("stripe", r)) = "open"
<1>1. Word("stripe", r) = toStripeStatus(r.status)
    BY DEF Word
<1> QED
    BY <1>1, Telling DEF toStripeStatus

-----------------------------------------------------------------------------
\* A move of the row from r to q, in the words a merchant reads
Tale(p, r, q, paid) ==
    LET a == Tells(Word(p, r))
        b == Tells(Word(p, q))
    IN  IF paid THEN a = "open" /\ b = "paid"
        ELSE \/ a = b
             \/ a = "open" /\ b = "ended"
             \/ a \in {"open", "paid"} /\ b = "returned"

(***************************************************************************)
(* What the engine's tables allow is what the promise allows: for payments *)
(* (state-machines.ts PAYMENT_TRANSITIONS and its retry) ...               *)
(***************************************************************************)
LEMMA PaymentTale ==
    ASSUME NEW p \in Providers \ {"wise"}, NEW r, NEW q,
           r.kind = "payment", r.status \in PaymentStatus, q.kind = "payment",
           \/ q.status \in PAYMENT_TRANSITIONS[r.status]
           \/ p = "stripe" /\ r.status = "failed" /\ q.status \in RETRY_TARGETS
    PROVE  q.status \in PaymentStatus /\ Tale(p, r, q, q.status = "successful")
<1>1. CASE p = "stripe" /\ r.status = "failed" /\ q.status \in RETRY_TARGETS
    <2>1. q.status \in {"pending", "processing", "requires_action"}
        BY <1>1 DEF RETRY_TARGETS
    <2>2. Tells(Word(p, q)) = "open" /\ q.status # "successful" /\ q.status \in PaymentStatus
        BY <2>1, PaymentWord DEF PaymentStatus
    <2>3. Tells(Word(p, r)) = "open"
        BY <1>1, StripeFailed
    <2> QED
        BY <2>2, <2>3 DEF Tale
<1> DEFINE Live == {"created", "pending", "processing", "requires_action", "authorized"}
<1>2. CASE q.status \in PAYMENT_TRANSITIONS[r.status]
    <2>1. CASE r.status \in Live
        <3>1. q.status \in Live \cup {"successful", "failed", "cancelled", "expired"}
            BY <1>2, <2>1 DEF PAYMENT_TRANSITIONS, PaymentStatus
        <3>2. q.status \in PaymentStatus
            BY <3>1 DEF PaymentStatus
        <3>3. Tells(Word(p, r)) = "open"
            BY <2>1, PaymentWord
        <3>4. /\ q.status = "successful" => Tells(Word(p, q)) = "paid"
              /\ q.status # "successful" => Tells(Word(p, q)) \in {"open", "ended"}
            BY <3>1, <3>2, PaymentWord
        <3> QED
            BY <3>2, <3>3, <3>4 DEF Tale
    <2>2. CASE r.status \in {"successful", "partially_refunded"}
        <3>1. q.status \in {"partially_refunded", "refunded"}
            BY <1>2, <2>2 DEF PAYMENT_TRANSITIONS, PaymentStatus
        <3>2. q.status \in PaymentStatus
            BY <3>1 DEF PaymentStatus
        <3>3. Tells(Word(p, r)) = "paid" /\ Tells(Word(p, q)) \in {"paid", "returned"}
            BY <2>2, <3>1, <3>2, PaymentWord
        <3> QED
            BY <3>1, <3>2, <3>3 DEF Tale
    <2>3. CASE r.status \in TerminalPayment
        <3>1. PAYMENT_TRANSITIONS[r.status] = {}
            BY <2>3 DEF PAYMENT_TRANSITIONS, PaymentStatus, TerminalPayment
        <3> QED
            BY <1>2, <3>1
    <2> QED
        BY <2>1, <2>2, <2>3 DEF PaymentStatus, TerminalPayment
<1> QED
    BY <1>1, <1>2

(***************************************************************************)
(* ... and for payouts (TRANSFER_TRANSITIONS), of the providers that give  *)
(* them back.                                                              *)
(***************************************************************************)
LEMMA PayoutTale ==
    ASSUME NEW p \in Providers, NEW r, NEW q,
           r.kind = "payout", r.status \in TransferStatus, q.kind = "payout",
           q.status \in TRANSFER_TRANSITIONS[r.status],
           q.status = "reversed" => p \in Reversing
    PROVE  q.status \in TransferStatus /\ Tale(p, r, q, q.status = "successful")
<1> DEFINE Live == {"created", "pending", "processing"}
<1>1. CASE r.status \in Live
    <2>1. q.status \in Live \cup {"successful", "failed", "cancelled", "reversed"}
        BY <1>1 DEF TRANSFER_TRANSITIONS, TransferStatus
    <2>2. q.status \in TransferStatus
        BY <2>1 DEF TransferStatus
    <2>3. Tells(Word(p, r)) = "open"
        BY <1>1, PayoutWord
    <2>4. /\ q.status = "successful" => Tells(Word(p, q)) = "paid"
          /\ q.status # "successful" => Tells(Word(p, q)) \in {"open", "ended", "returned"}
        BY <2>1, <2>2, PayoutWord
    <2> QED
        BY <2>2, <2>3, <2>4 DEF Tale
<1>2. CASE r.status = "successful"
    <2>1. q.status = "reversed"
        BY <1>2 DEF TRANSFER_TRANSITIONS, TransferStatus
    <2>2. q.status \in TransferStatus
        BY <2>1 DEF TransferStatus
    <2>3. Tells(Word(p, r)) = "paid" /\ Tells(Word(p, q)) = "returned"
        BY <1>2, <2>1, <2>2, PayoutWord
    <2> QED
        BY <2>1, <2>2, <2>3 DEF Tale
<1>3. CASE r.status \in {"failed", "cancelled", "reversed"}
    <2>1. TRANSFER_TRANSITIONS[r.status] = {}
        BY <1>3 DEF TRANSFER_TRANSITIONS, TransferStatus
    <2> QED
        BY <2>1
<1> QED
    BY <1>1, <1>2, <1>3 DEF TransferStatus

\* The step is one of the promise, or the merchant sees nothing of it.
Kept == Promised!PromiseNext \/ UNCHANGED <<Answered, past.collected>>

(***************************************************************************)
(* A move of the row that is told as Tale keeps the promise, and leaves    *)
(* what is open unpaid.                                                    *)
(***************************************************************************)
LEMMA TaleKept ==
    ASSUME Unpaid, UNCHANGED provider, NEW paid \in BOOLEAN,
           Tale(provider, row, row', paid), past' \in History,
           past'.collected = IF paid THEN past.collected + 1 ELSE past.collected
    PROVE  Unpaid' /\ Kept
<1>1. Answered = Tells(Word(provider, row)) /\ Answered' = Tells(Word(provider, row'))
    BY DEF Answered
<1>2. past.collected \in Nat
    BY DEF Unpaid, History
<1>3. CASE paid
    <2>1. Answered = "open" /\ Answered' = "paid" /\ past.collected = 0
        BY <1>1, <1>3 DEF Tale, Unpaid
    <2> QED
        BY <1>3, <2>1 DEF Unpaid, Kept, Promised!PromiseNext, Promised!Pay
<1>4. CASE ~ paid
    <2>1. past'.collected = past.collected
        BY <1>4
    <2>2. \/ Answered' = Answered
          \/ Answered = "open" /\ Answered' = "ended"
          \/ Answered \in {"open", "paid"} /\ Answered' = "returned"
        BY <1>1, <1>4 DEF Tale
    <2>3. Unpaid'
        BY <2>1, <2>2 DEF Unpaid
    <2> QED
        BY <2>1, <2>2, <2>3 DEF Kept, Promised!PromiseNext, Promised!End, Promised!Return
<1> QED
    BY <1>3, <1>4

-----------------------------------------------------------------------------
(***************************************************************************)
(* Every route of every provider takes up a program made of its calls.     *)
(***************************************************************************)
LEMMA RouteTaken ==
    ASSUME Inv, MarkedOnce, NEW t \in Callers, Route(t)
    PROVE  Taken(t)
BY KoraTaken, FlwTaken, TinggTaken, WeWireTaken, QuiddTaken, PaystackTaken,
   StripeTaken, WiseTaken, HostTaken DEF Route

(***************************************************************************)
(* What may be asked before there is a row may be asked of any.            *)
(***************************************************************************)
LEMMA CallsGrow ==
    ASSUME NEW p, NEW k
    PROVE  /\ Seq(Asks(p, "none")) \subseteq Seq(Asks(p, k))
           /\ TaskRow(p, "none") \subseteq TaskRow(p, k)
<1>1. Asks(p, "none") \subseteq Asks(p, k)
    BY DEF Asks, Calls
<1>2. ASSUME NEW s \in Seq(Asks(p, "none"))
      PROVE  s \in Seq(Asks(p, k))
    BY <1>1
<1>3. TaskRow(p, "none") \subseteq TaskRow(p, k)
    BY <1>2 DEF TaskRow
<1> QED
    BY <1>1, <1>2, <1>3

(***************************************************************************)
(* After the first of a sequence comes its second.                         *)
(***************************************************************************)
LEMMA SecondFirst ==
    ASSUME NEW S, NEW s \in Seq(S), Len(s) > 1
    PROVE  Tail(s) # <<>> /\ Tail(s)[1] = s[2]
<1> DEFINE r == Tail(s)
<1>1. Len(s) \in Nat /\ Len(<<>>) = 0
    OBVIOUS
<1>2. s # <<>>
    BY <1>1
<1>3. r \in Seq(S) /\ Len(r) = Len(s) - 1 /\ r[1] = s[2]
    BY <1>2, HeadTailProperties
<1> HIDE DEF r
<1>4. r # <<>>
    BY <1>1, <1>3
<1> QED
    BY <1>3, <1>4 DEF r

(***************************************************************************)
(* The call a task is at is one of Calls; before there is a row it creates *)
(* it or asks for the answer on record; and only a request that has still  *)
(* to ask may be late.                                                     *)
(***************************************************************************)
LEMMA AtCall ==
    ASSUME Inv, NEW t \in Tasks, ~ Free(t)
    PROVE  /\ task[t] \in TaskRow(provider, row.kind)
           /\ Current(t) \in Asks(provider, row.kind)
           /\ Rest(t) \in Seq(Asks(provider, row.kind))
           /\ row.kind = "none" => Current(t).op \in {"create", "lookup"}
           /\ row.kind = "none" /\ Current(t).op = "lookup" => Opens(Rest(t))
           /\ Current(t).op # "lookup" => ~ task[t].late
           /\ task[t].late => record = "stored"
<1> DEFINE C == Asks(provider, row.kind)
           s == task[t].todo
<1>1. task[t] \in TaskRow(provider, row.kind)
    BY DEF Inv, TasksOK
<1>2. s \in Seq(C) /\ s # <<>>
    BY <1>1 DEF TaskRow, Free
<1> HIDE DEF C
<1>3. Head(s) \in C /\ Tail(s) \in Seq(C) /\ Head(s) = s[1]
    BY <1>2
<1>4. Len(s) > 1 => Tail(s) # <<>> /\ Tail(s)[1] = s[2]
    BY <1>2, SecondFirst
<1>5. row.kind = "none" => Making(s) \/ Keyed(s)
    BY <1>2 DEF Inv, NothingYet, Opens
<1>6. task[t].late => record = "stored" /\ Keyed(s)
    BY DEF Inv, LateAsks
<1>7. Keyed(s) => Making(Tail(s))
    BY <1>4 DEF Keyed, Making
<1>8. row.kind = "none" /\ Head(s).op = "lookup" => Opens(Tail(s))
    BY <1>3, <1>5, <1>7 DEF Making, Opens
<1>9. row.kind = "none" => Head(s).op \in {"create", "lookup"}
    BY <1>3, <1>5 DEF Making, Keyed
<1>10. task[t].late => Head(s).op = "lookup"
    BY <1>3, <1>6 DEF Keyed
<1> QED
    BY <1>1, <1>3, <1>6, <1>8, <1>9, <1>10 DEF Current, Rest, C

\* A task turns to a program, of a row of kind k, and has nothing to find out.
Turns(t, k, rest) ==
    \E x \in TaskRow(provider, k) :
        x.todo = rest /\ ~ x.late /\ task' = [task EXCEPT ![t] = x]

(***************************************************************************)
(* A task that goes on, and one that stops, turn.                          *)
(***************************************************************************)
LEMMA GoesTurns ==
    ASSUME Inv, NEW t \in Tasks, ~ task[t].late, NEW k, k = row.kind \/ row.kind = "none",
           NEW rest \in Seq(Asks(provider, k)), NEW seen \in Words, Goes(t, rest, seen)
    PROVE  Turns(t, k, rest)
<1>1. task[t] \in TaskRow(provider, k)
    BY CallsGrow DEF Inv, TasksOK
<1>2. CASE rest = <<>>
    <2>1. task' = [task EXCEPT ![t] = Idle]
        BY <1>2 DEF Goes
    <2> QED
        BY <1>2, <2>1, IdleRow DEF Turns
<1>3. CASE rest # <<>>
    <2> DEFINE y == [task[t] EXCEPT !.todo = rest]
               x == [y EXCEPT !.seen = seen]
    <2>1. task' = [task EXCEPT ![t] = x]
        BY <1>3 DEF Goes
    <2>2. y \in TaskRow(provider, k) /\ y.todo = rest /\ y.late = task[t].late
        BY <1>1 DEF TaskRow
    <2> HIDE DEF y
    <2>3. x \in TaskRow(provider, k) /\ x.todo = rest /\ x.late = task[t].late
        BY <2>2 DEF TaskRow
    <2> HIDE DEF x
    <2> QED
        BY <2>1, <2>3 DEF Turns
<1> QED
    BY <1>2, <1>3

\* ... and one that stops has nothing left to do.
LEMMA StopsTurns ==
    ASSUME NEW t, NEW k, Stops(t)
    PROVE  Turns(t, k, <<>>)
BY IdleRow DEF Stops, Turns

(***************************************************************************)
(* What the tasks keep when one of them turns, and the row is as it was or *)
(* was created                                                             *)
(***************************************************************************)
LEMMA TurnKeeps ==
    ASSUME Inv, NEW t \in Tasks, UNCHANGED provider,
           row'.kind = row.kind \/ row.kind = "none",
           NEW rest, Turns(t, row'.kind, rest), row'.kind = "none" => Opens(rest),
           record' \in {record, "stored"}, ~ past'.repeated
    PROVE  /\ TasksOK' /\ LateAsks'
           /\ row'.kind = "none" => \A u \in Tasks : Opens(task'[u].todo)
<1>1. PICK x \in TaskRow(provider, row'.kind) :
          x.todo = rest /\ ~ x.late /\ task' = [task EXCEPT ![t] = x]
    BY DEF Turns
<1>2. task \in [Tasks -> TaskRow(provider, row'.kind)]
    <2>1. task \in [Tasks -> TaskRow(provider, row.kind)]
        BY DEF Inv, TasksOK
    <2>2. TaskRow(provider, row.kind) \subseteq TaskRow(provider, row'.kind)
        BY CallsGrow
    <2> QED
        BY <2>1, <2>2
<1>3. task' \in [Tasks -> TaskRow(provider, row'.kind)]
    BY <1>1, <1>2
<1>4. \A u \in Tasks : u # t => task'[u] = task[u]
    BY <1>1, <1>2
<1>5. task'[t] = x
    BY <1>1, <1>2
<1>6. LateAsks'
    BY <1>1, <1>4, <1>5 DEF Inv, LateAsks
<1>7. row'.kind = "none" => \A u \in Tasks : Opens(task'[u].todo)
    BY <1>1, <1>4, <1>5 DEF Inv, NothingYet
<1> QED
    BY <1>3, <1>6, <1>7 DEF TasksOK

(***************************************************************************)
(* A step that leaves the row alone keeps the invariant and the promise.   *)
(***************************************************************************)
LEMMA TurnAlone ==
    ASSUME Inv, NEW t \in Tasks, UNCHANGED <<provider, row, past>>,
           NEW rest, Turns(t, row.kind, rest),
           row.kind = "none" => Opens(rest) /\ jobs' = <<>> /\ batch' = <<>>,
           RefundOK', JobsOK', record' \in {record, "stored"}
    PROVE  Inv' /\ Kept
<1>1. /\ TasksOK' /\ LateAsks'
      /\ row'.kind = "none" => \A u \in Tasks : Opens(task'[u].todo)
    BY TurnKeeps DEF Inv, LateAsks
<1>2. Answered' = Answered
    BY DEF Answered
<1>3. RowOK' /\ Unpaid'
    BY <1>2 DEF Inv, RowOK, Unpaid
<1>4. NothingYet'
    BY <1>1 DEF NothingYet
<1> QED
    BY <1>1, <1>2, <1>3, <1>4 DEF Inv, Kept

(***************************************************************************)
(* So does a request that is taken up.                                     *)
(***************************************************************************)
LEMMA TakenKeeps ==
    ASSUME Inv, NEW t \in Tasks, Taken(t)
    PROVE  Inv' /\ Kept
<1>1. PICK x \in TaskRow(provider, row.kind) :
          /\ row.kind = "none" => Opens(x.todo)
          /\ x.late => record = "stored" /\ Keyed(x.todo)
          /\ task' = [task EXCEPT ![t] = x]
    BY DEF Taken
<1>2. UNCHANGED <<provider, row, refund, jobs, batch, record, attempt>>
    BY DEF Taken
<1>3. task \in [Tasks -> TaskRow(provider, row.kind)]
    BY DEF Inv, TasksOK
<1>4. TasksOK'
    BY <1>1, <1>2, <1>3 DEF TasksOK
<1>5. task'[t] = x /\ \A u \in Tasks : u # t => task'[u] = task[u]
    BY <1>1, <1>3
<1>6. past' \in History /\ past'.collected = past.collected /\ past'.repeated = past.repeated
    BY DEF Taken, Inv, Unpaid, History
<1>7. Answered' = Answered
    BY <1>2 DEF Answered
<1>8. RowOK' /\ RefundOK' /\ JobsOK'
    BY <1>2 DEF Inv, RowOK, RefundOK, JobsOK
<1>9. Unpaid'
    BY <1>6, <1>7 DEF Inv, Unpaid
<1>10. NothingYet'
    BY <1>1, <1>2, <1>5 DEF Inv, NothingYet
<1>11. LateAsks'
    BY <1>1, <1>2, <1>5, <1>6 DEF Inv, LateAsks
<1> QED
    BY <1>4, <1>6, <1>7, <1>8, <1>9, <1>10, <1>11 DEF Inv, Kept

-----------------------------------------------------------------------------
(***************************************************************************)
(* createPayment and createTransfer: the row starts as one that is open.   *)
(***************************************************************************)
LEMMA CreateKeeps ==
    ASSUME Inv, NEW t \in Tasks, DoCreate(t)
    PROVE  Inv' /\ Kept
<1> DEFINE c     == Current(t)
           kind  == IF "payout" \in c.in THEN "payout" ELSE "payment"
           again == IF "expires" \in c.in THEN Enqueue("expire", "expired") ELSE <<>>
           kept  == IF \E i \in DOMAIN Rest(t) : Rest(t)[i].op = "store"
                    THEN Store ELSE <<>>
<1>1. /\ ~ Free(t) /\ c.op = "create"
      /\ UNCHANGED <<provider, refund, jobs, batch, record, attempt, deaths>>
    BY DEF DoCreate, At
<1>2. /\ c \in Asks(provider, row.kind) /\ ~ task[t].late
      /\ Rest(t) \in Seq(Asks(provider, row.kind))
    BY <1>1, AtCall
<1>3. c.to \in Opening /\ c.to \in Words /\ (provider = "wise" => kind = "payout")
    BY <1>1, <1>2 DEF Asks, Marking, Marks, Calls, CallOf
<1>4. row.status \in Words
    BY KnownWords DEF Inv, RowOK
<1>5. RefundOK /\ JobsOK /\ past \in History
    BY DEF Inv, Unpaid
<1>6. CASE row.kind = kind /\ "reuse" \in c.in
    <2>1. Goes(t, Rest(t), row.status) /\ UNCHANGED <<row, past>>
        BY <1>6 DEF DoCreate
    <2>2. Turns(t, row.kind, Rest(t)) /\ row.kind # "none"
        BY <1>2, <1>4, <1>6, <2>1, GoesTurns
    <2>3. RefundOK' /\ JobsOK'
        BY <1>1, <1>5, <2>1 DEF RefundOK, JobsOK
    <2> QED
        BY <1>1, <2>1, <2>2, <2>3, TurnAlone
<1>7. CASE ~ (row.kind = kind /\ "reuse" \in c.in) /\ row.kind # "none" /\ "fresh" \in c.in
    <2>1. /\ Goes(t, kept, c.to) /\ UNCHANGED row
          /\ past' = [past EXCEPT !.repeated = @ \/ task[t].late]
        BY <1>7 DEF DoCreate
    <2>2. kept \in Seq(Asks(provider, row.kind))
        <3>1. kept \in {Store, <<>>}
            OBVIOUS
        <3>2. Store \in Seq(Asks(provider, row.kind))
            BY PlainCalls, Unmarking
        <3>3. <<>> \in Seq(Asks(provider, row.kind))
            OBVIOUS
        <3> HIDE DEF kept
        <3> QED
            BY <3>1, <3>2, <3>3
    <2>3. Turns(t, row.kind, kept)
        BY <1>2, <1>3, <2>1, <2>2, GoesTurns
    <2>4. UNCHANGED past
        BY <1>2, <1>5, <2>1 DEF Inv, LateAsks, History
    <2>5. RefundOK' /\ JobsOK'
        BY <1>1, <1>5, <2>1 DEF RefundOK, JobsOK
    <2> QED
        BY <1>1, <1>7, <2>1, <2>3, <2>4, <2>5, TurnAlone
<1>8. CASE ~ (row.kind = kind /\ "reuse" \in c.in) /\ row.kind # "none" /\ "fresh" \notin c.in
    <2>1. Stops(t) /\ UNCHANGED <<row, past>>
        BY <1>8 DEF DoCreate
    <2>2. Turns(t, row.kind, <<>>)
        BY <2>1, StopsTurns
    <2>3. RefundOK' /\ JobsOK'
        BY <1>1, <1>5, <2>1 DEF RefundOK, JobsOK
    <2> QED
        BY <1>1, <1>8, <2>1, <2>2, <2>3, TurnAlone
<1>9. CASE row.kind = "none"
    <2>1. /\ row' = [kind |-> kind, status |-> c.to, flags |-> c.in \cap {"manual"}]
          /\ Goes(t, again \o Rest(t), c.to)
          /\ past' = [past EXCEPT !.repeated = @ \/ task[t].late]
        BY <1>9 DEF DoCreate
    <2>2. row'.kind = kind /\ row'.status = c.to /\ kind \in {"payment", "payout"}
        BY <2>1
    <2>3. again \o Rest(t) \in Seq(Asks(provider, kind))
        <3>1. Rest(t) \in Seq(Asks(provider, kind))
            BY <1>2, <1>9, CallsGrow
        <3>2. again \in Seq(Asks(provider, kind))
            <4>1. again \in {Enqueue("expire", "expired"), <<>>}
                OBVIOUS
            <4>2. Enqueue("expire", "expired") \in Seq(Asks(provider, kind))
                BY EnqueueOutcome, Unmarking
            <4>3. <<>> \in Seq(Asks(provider, kind))
                OBVIOUS
            <4> HIDE DEF again
            <4> QED
                BY <4>1, <4>2, <4>3
        <3> HIDE DEF again
        <3> QED
            BY <3>1, <3>2, Joined
    <2>4. Turns(t, row'.kind, again \o Rest(t))
        <3> HIDE DEF again, kind
        <3> QED
            BY <1>2, <1>3, <1>9, <2>1, <2>2, <2>3, GoesTurns
    <2>5. UNCHANGED past
        BY <1>2, <1>5, <2>1 DEF Inv, LateAsks, History
    <2>6. row'.flags \in SUBSET Markers
        BY <2>1 DEF Markers
    <2> HIDE DEF again, kind
    <2>7. TasksOK' /\ LateAsks'
        BY <1>1, <1>9, <2>2, <2>4, <2>5, TurnKeeps DEF Inv, LateAsks
    <2>8. /\ row'.kind = "payment" => row'.status \in PaymentStatus /\ provider # "wise"
          /\ row'.kind = "payout" => /\ row'.status \in TransferStatus
                                     /\ row'.status # "reversed"
          /\ row'.status \in Status
        BY <1>3, <2>2 DEF Opening, PaymentStatus, TransferStatus, Status
    <2>9. row' \in [kind : {"none", "payment", "payout"}, status : Status,
                    flags : SUBSET Markers]
        <3>1. \E f : row' = [kind |-> kind, status |-> c.to, flags |-> f]
            BY <2>1
        <3> QED
            BY <2>2, <2>6, <2>8, <3>1
    <2>10. RowOK'
        BY <1>1, <2>8, <2>9 DEF Inv, RowOK
    <2>11. RefundOK' /\ JobsOK' /\ NothingYet'
        BY <1>1, <1>5, <1>9, <2>2 DEF RefundOK, JobsOK, NothingYet
    <2>12. Answered = "none"
        <3>1. Word(provider, row) = "none"
            BY <1>9 DEF Word
        <3> QED
            BY <3>1, Telling DEF Answered
    <2>13. Answered' = "open"
        <3>1. provider \in Providers
            BY DEF Inv, RowOK
        <3>2. Tells(Word(provider, row')) = "open"
            BY <1>3, <2>2, <2>8, <3>1, PaymentWord, PayoutWord DEF Opening
        <3> QED
            BY <1>1, <3>2 DEF Answered
    <2>14. Unpaid' /\ Kept
        BY <2>5, <2>12, <2>13 DEF Inv, Unpaid, Kept, Promised!PromiseNext, Promised!Ask
    <2> QED
        BY <2>7, <2>10, <2>11, <2>14 DEF Inv
<1> HIDE DEF c, kind, again, kept
<1> QED
    BY <1>6, <1>7, <1>8, <1>9

(***************************************************************************)
(* A call that only goes on or stops                                       *)
(***************************************************************************)
LEMMA OnlyTurns ==
    ASSUME Inv, NEW t \in Tasks, ~ Free(t),
           Current(t).op # "create", Current(t).op # "lookup",
           UNCHANGED <<provider, row, past>>, RefundOK', JobsOK',
           record' \in {record, "stored"},
           \/ Stops(t)
           \/ Goes(t, Rest(t), task[t].seen)
           \/ Goes(t, Rest(t), row.status)
    PROVE  Inv' /\ Kept
<1>1. row.kind # "none" /\ ~ task[t].late /\ Rest(t) \in Seq(Asks(provider, row.kind))
    BY AtCall
<1>2. task[t].seen \in Words /\ row.status \in Words
    BY AtCall, KnownWords DEF TaskRow, Inv, RowOK
<1>3. \E rest : Turns(t, row.kind, rest)
    BY <1>1, <1>2, GoesTurns, StopsTurns
<1> QED
    BY <1>1, <1>3, TurnAlone

(***************************************************************************)
(* The handler reads the row, or the refund.                               *)
(***************************************************************************)
LEMMA ReadKeeps ==
    ASSUME Inv, NEW t \in Tasks, DoRead(t) \/ DoRefundRequire(t)
    PROVE  Inv' /\ Kept
<1>1. /\ ~ Free(t) /\ Current(t).op # "create" /\ Current(t).op # "lookup"
      /\ UNCHANGED <<provider, row, refund, jobs, batch, record, attempt, past>>
    BY DEF DoRead, DoRefundRequire, At
<1>2. \/ Stops(t)
      \/ Goes(t, Rest(t), task[t].seen)
      \/ Goes(t, Rest(t), row.status)
    BY DEF DoRead, DoRefundRequire
<1>3. RefundOK' /\ JobsOK'
    BY <1>1 DEF Inv, RefundOK, JobsOK
<1> QED
    BY <1>1, <1>2, <1>3, OnlyTurns

(***************************************************************************)
(* The answer on record is found by every request that comes after it.     *)
(***************************************************************************)
LEMMA LookupKeeps ==
    ASSUME Inv, NEW t \in Tasks, DoLookup(t)
    PROVE  Inv' /\ Kept
<1>1. /\ ~ Free(t) /\ Current(t).op = "lookup"
      /\ UNCHANGED <<provider, row, refund, jobs, batch, record, attempt, past>>
    BY DEF DoLookup, At
<1>2. RefundOK' /\ JobsOK'
    BY <1>1 DEF Inv, RefundOK, JobsOK
<1>3. row.kind = "none" => jobs' = <<>> /\ batch' = <<>>
    BY <1>1 DEF Inv, NothingYet
<1>4. CASE record = "stored"
    <2>1. Stops(t)
        BY <1>4 DEF DoLookup, LookedUp
    <2>2. Turns(t, row.kind, <<>>)
        BY <2>1, StopsTurns
    <2> QED
        BY <1>1, <1>2, <1>3, <2>2, TurnAlone DEF Opens
<1>5. CASE record # "stored"
    <2>1. Goes(t, Rest(t), task[t].seen)
        BY <1>5 DEF DoLookup, LookedUp
    <2>2. /\ ~ task[t].late /\ Rest(t) \in Seq(Asks(provider, row.kind))
          /\ row.kind = "none" => Opens(Rest(t))
          /\ task[t].seen \in Words
        BY <1>1, <1>5, AtCall DEF TaskRow
    <2>3. Turns(t, row.kind, Rest(t))
        BY <2>1, <2>2, GoesTurns
    <2> QED
        BY <1>1, <1>2, <1>3, <2>2, <2>3, TurnAlone
<1> QED
    BY <1>4, <1>5

(***************************************************************************)
(* ... and stored after the handler.                                       *)
(***************************************************************************)
LEMMA StoreKeeps ==
    ASSUME Inv, NEW t \in Tasks, DoStore(t)
    PROVE  Inv' /\ Kept
<1>1. /\ ~ Free(t) /\ Current(t).op # "create" /\ Current(t).op # "lookup"
      /\ record' = "stored" /\ Goes(t, Rest(t), task[t].seen)
      /\ UNCHANGED <<provider, row, refund, jobs, batch, attempt, past>>
    BY DEF DoStore, At
<1>2. RefundOK' /\ JobsOK'
    BY <1>1 DEF Inv, RefundOK, JobsOK
<1> QED
    BY <1>1, <1>2, OnlyTurns

(***************************************************************************)
(* A refund is only asked for of a payment.                                *)
(***************************************************************************)
LEMMA RefundKeeps ==
    ASSUME Inv, NEW t \in Tasks, DoRefund(t)
    PROVE  Inv' /\ Kept
<1>1. /\ ~ Free(t) /\ Current(t).op = "refund"
      /\ UNCHANGED <<provider, row, jobs, batch, record, attempt, past>>
      /\ Stops(t) \/ Goes(t, Rest(t), task[t].seen)
      /\ refund' \in {refund, "pending"}
    BY DEF DoRefund, At
<1>2. row.kind = "payment"
    BY <1>1, AtCall DEF Asks, Marking, Marks, Calls
<1>3. RefundOK' /\ JobsOK'
    BY <1>1, <1>2 DEF Inv, RefundOK, JobsOK, RefundStatus
<1> QED
    BY <1>1, <1>3, OnlyTurns

(***************************************************************************)
(* Jobs are queued that can be run, and cancelled with their group.        *)
(***************************************************************************)
LEMMA EnqueueKeeps ==
    ASSUME Inv, NEW t \in Tasks, DoEnqueue(t)
    PROVE  Inv' /\ Kept
<1> DEFINE j == Queued(Only(Current(t).in), Current(t).to)
<1>1. /\ ~ Free(t) /\ Current(t).op = "enqueue"
      /\ UNCHANGED <<provider, row, refund, batch, record, attempt, past>>
      /\ Goes(t, Rest(t), task[t].seen)
      /\ jobs' = Append(jobs, j)
    BY DEF DoEnqueue, At
<1>2. j \in Runnable
    BY <1>1, AtCall DEF Asks, Marking, Marks, Calls
<1> HIDE DEF j
<1>3. jobs' \in Seq(Runnable)
    BY <1>1, <1>2 DEF Inv, JobsOK
<1>4. RefundOK' /\ JobsOK'
    BY <1>1, <1>3 DEF Inv, RefundOK, JobsOK
<1> QED
    BY <1>1, <1>4, OnlyTurns

\* What stays queued, and what was claimed, stay jobs.
LEMMA CancelKeeps ==
    ASSUME Inv, NEW t \in Tasks, DoCancelGroup(t)
    PROVE  Inv' /\ Kept
<1>1. /\ ~ Free(t) /\ Current(t).op = "cancelGroup"
      /\ UNCHANGED <<provider, row, refund, record, attempt, past>>
      /\ Goes(t, Rest(t), task[t].seen)
    BY DEF DoCancelGroup, At
<1>2. jobs \in Seq(Runnable) /\ batch \in Seq(Claimed)
    BY DEF Inv, JobsOK
<1>3. jobs' \in Seq(Runnable)
    <2>1. jobs' \in Picks(jobs, {i \in DOMAIN jobs : ~ OfPayment(jobs[i])})
        BY DEF DoCancelGroup
    <2>2. {i \in DOMAIN jobs : ~ OfPayment(jobs[i])} \subseteq DOMAIN jobs
        OBVIOUS
    <2> QED
        BY <1>2, <2>1, <2>2, Picked
<1>4. batch' \in Seq(Claimed)
    <2>1. batch' = [i \in DOMAIN batch |->
                     [batch[i] EXCEPT !.cancelled = @ \/ OfPayment(batch[i].job)]]
        BY DEF DoCancelGroup
    <2>2. ASSUME NEW i \in DOMAIN batch
          PROVE  [batch[i] EXCEPT !.cancelled = @ \/ OfPayment(batch[i].job)] \in Claimed
        <3>1. batch[i] \in Claimed
            BY <1>2
        <3>2. (batch[i].cancelled \/ OfPayment(batch[i].job)) \in BOOLEAN
            OBVIOUS
        <3> QED
            BY <3>1, <3>2 DEF Claimed
    <2>3. DOMAIN batch = 1..Len(batch) /\ Len(batch) \in Nat
        BY <1>2
    <2>4. batch' \in [1..Len(batch) -> Claimed]
        BY <2>1, <2>2, <2>3
    <2> QED
        BY <2>3, <2>4, SeqDef
<1>5. RefundOK' /\ JobsOK'
    BY <1>1, <1>3, <1>4 DEF Inv, RefundOK, JobsOK
<1> QED
    BY <1>1, <1>5, OnlyTurns

(***************************************************************************)
(* A step that changes only the status of a row that exists, or its        *)
(* markers, and what its task has left to do                               *)
(***************************************************************************)
LEMMA RowMoves ==
    ASSUME Inv, NEW t \in Tasks, row.kind # "none",
           UNCHANGED <<provider, jobs, batch, record, attempt>>,
           row'.kind = row.kind, RowOK', RefundOK', Unpaid', Kept,
           ~ past'.repeated, NEW rest, Turns(t, row.kind, rest)
    PROVE  Inv' /\ Kept
<1>1. TasksOK' /\ LateAsks'
    BY TurnKeeps DEF Inv, LateAsks
<1>2. JobsOK' /\ NothingYet'
    BY DEF Inv, JobsOK, NothingYet
<1> QED
    BY <1>1, <1>2 DEF Inv

(***************************************************************************)
(* A marker is not seen in the answer.                                     *)
(***************************************************************************)
LEMMA FlagKeeps ==
    ASSUME Inv, NEW t \in Tasks, DoFlag(t)
    PROVE  Inv' /\ Kept
<1> DEFINE f == Current(t).to
<1>1. /\ ~ Free(t) /\ Current(t).op = "flag"
      /\ UNCHANGED <<provider, refund, jobs, batch, record, attempt, past>>
      /\ Goes(t, Rest(t), task[t].seen)
      /\ row' = [row EXCEPT !.flags = @ \cup {f}]
    BY DEF DoFlag, At
<1>2. /\ row.kind # "none" /\ ~ task[t].late
      /\ Rest(t) \in Seq(Asks(provider, row.kind))
      /\ f \in Markers /\ task[t].seen \in Words
    BY <1>1, AtCall DEF Asks, Marking, Marks, Calls, Writing, Writable, TaskRow
<1> HIDE DEF f
<1>3. RowOK
    BY DEF Inv
<1>4. row'.kind = row.kind /\ row'.status = row.status
    BY <1>1, <1>3 DEF RowOK
<1>5. RowOK' /\ RefundOK'
    BY <1>1, <1>2, <1>3, <1>4 DEF RowOK, Inv, RefundOK
<1>6. Answered' = Answered
    BY <1>1, <1>4, SameWord DEF Answered
<1>7. Unpaid' /\ Kept /\ ~ past'.repeated
    BY <1>1, <1>6 DEF Inv, Unpaid, Kept, LateAsks
<1>8. Turns(t, row.kind, Rest(t))
    BY <1>1, <1>2, GoesTurns
<1> QED
    BY <1>1, <1>2, <1>4, <1>5, <1>7, <1>8, RowMoves

(***************************************************************************)
(* A transition the engine allows is one the promise tells.                *)
(***************************************************************************)
LEMMA MoveTold ==
    ASSUME Inv, row.kind # "none", UNCHANGED provider,
           NEW to \in Words, to # "reversed" \/ provider \in Reversing,
           NEW retry \in BOOLEAN, retry => provider = "stripe",
           Legal(to, retry), row' = [row EXCEPT !.status = to]
    PROVE  /\ RowOK' /\ row'.kind = row.kind /\ row'.status = to
           /\ Tale(provider, row, row', row'.status = "successful")
<1>1. RowOK
    BY DEF Inv
<1>2. row'.kind = row.kind /\ row'.status = to
    BY <1>1 DEF RowOK
<1>3. CASE row.kind = "payment"
    <2>1. provider \in Providers \ {"wise"} /\ row.status \in PaymentStatus
        BY <1>1, <1>3 DEF RowOK
    <2>2. \/ row'.status \in PAYMENT_TRANSITIONS[row.status]
          \/ /\ provider = "stripe" /\ row.status = "failed"
             /\ row'.status \in RETRY_TARGETS
        BY <1>2, <1>3 DEF Legal, assertPaymentTransition, canTransitionPayment
    <2>3. /\ row'.status \in PaymentStatus
          /\ Tale(provider, row, row', row'.status = "successful")
        <3>1. row.kind = "payment" /\ row'.kind = "payment"
            BY <1>2, <1>3
        <3> QED
            BY <2>1, <2>2, <3>1, PaymentTale
    <2>4. row'.status \in Status
        BY <2>3 DEF Status
    <2>5. RowOK'
        BY <1>1, <1>2, <1>3, <2>1, <2>3, <2>4 DEF RowOK
    <2> QED
        BY <1>2, <2>3, <2>5
<1>4. CASE row.kind = "payout"
    <2>1. provider \in Providers /\ row.status \in TransferStatus
        BY <1>1, <1>4 DEF RowOK
    <2>2. /\ row'.status \in TRANSFER_TRANSITIONS[row.status]
          /\ row'.status = "reversed" => provider \in Reversing
        BY <1>2, <1>4 DEF Legal, assertTransferTransition
    <2>3. /\ row'.status \in TransferStatus
          /\ Tale(provider, row, row', row'.status = "successful")
        <3>1. row.kind = "payout" /\ row'.kind = "payout"
            BY <1>2, <1>4
        <3> QED
            BY <2>1, <2>2, <3>1, PayoutTale
    <2>4. row'.status \in Status
        BY <2>3 DEF Status
    <2>5. RowOK'
        BY <1>1, <1>2, <1>4, <2>1, <2>3, <2>4 DEF RowOK
    <2> QED
        BY <1>2, <2>3, <2>5
<1> QED
    BY <1>1, <1>3, <1>4 DEF RowOK

(***************************************************************************)
(* A transition, and the clean-up it leaves to do                          *)
(***************************************************************************)
LEMMA MoveKeeps ==
    ASSUME Inv, NEW t \in Tasks, DoMove(t)
    PROVE  Inv' /\ Kept
<1> DEFINE c == Current(t)
           retry == c.op = "resume" /\ task[t].seen = "failed"
           done == \/ c.op = "hop" /\ task[t].seen = c.to
                   \/ c.op = "when" /\ task[t].seen \notin c.in
<1>1. /\ ~ Free(t) /\ c.op \in Moving
      /\ UNCHANGED <<provider, refund, jobs, batch, record, attempt>>
    BY DEF DoMove, Moving
<1>2. c.op # "create" /\ c.op # "lookup"
    BY <1>1 DEF Moving
<1>3. /\ row.kind # "none" /\ ~ task[t].late
      /\ Rest(t) \in Seq(Asks(provider, row.kind)) /\ task[t].seen \in Words
      /\ c \in Asks(provider, row.kind)
    BY <1>1, <1>2, AtCall DEF TaskRow
<1>4. /\ c.to \in Words /\ (c.to # "reversed" \/ provider \in Reversing)
      /\ retry \in BOOLEAN /\ (retry => provider = "stripe")
    BY <1>1, <1>3 DEF Asks, Marking, Marks, Calls, CallOf, Moving
<1>5. RefundOK /\ JobsOK /\ past \in History
    BY DEF Inv, Unpaid
<1>6. CASE done \/ ~ Legal(c.to, retry)
    <2>1. /\ UNCHANGED <<row, past>>
          /\ Stops(t) \/ Goes(t, Rest(t), task[t].seen)
        BY <1>6 DEF DoMove
    <2>2. RefundOK' /\ JobsOK'
        BY <1>1, <1>5, <2>1 DEF RefundOK, JobsOK
    <2> QED
        BY <1>1, <1>2, <2>1, <2>2, OnlyTurns
<1>7. CASE ~ done /\ Legal(c.to, retry)
    <2>1. /\ row' = [row EXCEPT !.status = c.to]
          /\ Goes(t, Cleanup(c.to) \o Rest(t), c.to)
          /\ past' = [past EXCEPT
                        !.collected = IF c.to = "successful" THEN @ + 1 ELSE @,
                        !.retried = @ \/ row.status = "failed"]
        BY <1>7 DEF DoMove
    <2> HIDE DEF c, done, retry
    <2>2. /\ RowOK' /\ row'.kind = row.kind /\ row'.status = c.to
          /\ Tale(provider, row, row', row'.status = "successful")
        BY <1>1, <1>3, <1>4, <1>7, <2>1, MoveTold
    <2>3. RefundOK'
        BY <1>1, <1>5, <2>2 DEF RefundOK
    <2>4. /\ past' \in History /\ past'.repeated = past.repeated
          /\ past'.collected = IF row'.status = "successful"
                               THEN past.collected + 1 ELSE past.collected
        <3> DEFINE more == IF c.to = "successful" THEN past.collected + 1
                           ELSE past.collected
                   p == [past EXCEPT !.collected = more]
        <3>1. more \in Nat
            BY <1>5 DEF History
        <3>2. p \in History /\ p.repeated = past.repeated /\ p.collected = more
            <4> HIDE DEF more
            <4> QED
                BY <1>5, <3>1 DEF History
        <3>3. past' = [p EXCEPT !.retried = @ \/ row.status = "failed"]
            BY <2>1
        <3>4. (p.retried \/ row.status = "failed") \in BOOLEAN
            OBVIOUS
        <3> HIDE DEF p
        <3>5. /\ past' \in History /\ past'.repeated = p.repeated
              /\ past'.collected = p.collected
            BY <3>2, <3>3, <3>4 DEF History
        <3> QED
            BY <2>2, <3>2, <3>5
    <2>5. Unpaid' /\ Kept
        BY <1>1, <2>2, <2>4, TaleKept DEF Inv
    <2>6. Cleanup(c.to) \in Seq(Asks(provider, row.kind))
        <3>1. /\ "cancelGroup" \in Ops /\ "cancelGroup" \notin Moving \cup Writing
              /\ "any" \in Words /\ {} \in SUBSET (Words \cup Nat)
            BY KnownWords DEF Ops, Moving, Writing
        <3>2. <<Call("cancelGroup", "any", {})>> \in Seq(Asks(provider, row.kind))
            BY <3>1, Asked, Unmarking
        <3>3. <<>> \in Seq(Asks(provider, row.kind))
            OBVIOUS
        <3> QED
            BY <3>2, <3>3 DEF Cleanup
    <2>7. Cleanup(c.to) \o Rest(t) \in Seq(Asks(provider, row.kind))
        BY <1>3, <2>6, Joined
    <2>8. \E rest : Turns(t, row.kind, rest)
        BY <1>3, <1>4, <2>1, <2>7, GoesTurns
    <2> QED
        BY <1>1, <1>3, <2>2, <2>3, <2>4, <2>5, <2>8, RowMoves DEF Inv, LateAsks
<1> QED
    BY <1>6, <1>7

(***************************************************************************)
(* A refund that settles takes its payment along.                          *)
(***************************************************************************)
LEMMA RefundToKeeps ==
    ASSUME Inv, NEW t \in Tasks, DoRefundTo(t)
    PROVE  Inv' /\ Kept
<1> DEFINE to == Current(t).to
<1>1. /\ ~ Free(t) /\ Current(t).op = "refundTo"
      /\ UNCHANGED <<provider, jobs, batch, record, attempt, past>>
    BY DEF DoRefundTo, At
<1>2. /\ row.kind # "none" /\ ~ task[t].late
      /\ Rest(t) \in Seq(Asks(provider, row.kind)) /\ task[t].seen \in Words
    BY <1>1, AtCall DEF TaskRow
<1>3. RefundOK /\ JobsOK
    BY DEF Inv
<1>4. CASE UNCHANGED <<refund, row>> /\ Stops(t)
    <2>1. RefundOK' /\ JobsOK'
        BY <1>1, <1>3, <1>4 DEF RefundOK, JobsOK
    <2> QED
        BY <1>1, <1>4, <2>1, OnlyTurns
<1>5. CASE /\ refund # "none" /\ assertRefundTransition(refund, to) /\ refund' = to
           /\ Goes(t, Rest(t), task[t].seen)
           /\ to = "successful" =>
                 /\ assertPaymentTransition(row.status, "refunded", FALSE, FALSE)
                 /\ row' = [row EXCEPT !.status = "refunded"]
           /\ to # "successful" => UNCHANGED row
    <2>1. row.kind = "payment"
        BY <1>3, <1>5 DEF RefundOK
    <2>2. to \in RefundStatus
        BY <1>3, <1>5 DEF RefundOK, assertRefundTransition, REFUND_TRANSITIONS, RefundStatus
    <2> HIDE DEF to
    <2>3. CASE to = "successful"
        <3>1. /\ row' = [row EXCEPT !.status = "refunded"] /\ Legal("refunded", FALSE)
              /\ "refunded" \in Words /\ "refunded" # "reversed" /\ "refunded" # "successful"
            BY <1>5, <2>1, <2>3, KnownWords DEF Legal, Status, PaymentStatus
        <3>2. /\ RowOK' /\ row'.kind = row.kind /\ row'.status # "successful"
              /\ Tale(provider, row, row', row'.status = "successful")
            BY <1>1, <1>2, <3>1, MoveTold
        <3>3. Tale(provider, row, row', FALSE)
            BY <3>2 DEF Tale
        <3>4. Unpaid' /\ Kept
            BY <1>1, <3>3, TaleKept DEF Inv, Unpaid
        <3>5. RefundOK'
            BY <1>5, <2>1, <2>2, <3>2 DEF RefundOK
        <3>6. Turns(t, row.kind, Rest(t))
            BY <1>2, <1>5, GoesTurns
        <3> QED
            BY <1>1, <1>2, <3>2, <3>4, <3>5, <3>6, RowMoves DEF Inv, LateAsks
    <2>4. CASE to # "successful"
        <3>1. RefundOK' /\ JobsOK' /\ UNCHANGED row
            BY <1>1, <1>3, <1>5, <2>1, <2>2, <2>4 DEF RefundOK, JobsOK
        <3> QED
            BY <1>1, <1>5, <3>1, OnlyTurns
    <2> QED
        BY <2>3, <2>4
<1> QED
    BY <1>4, <1>5 DEF DoRefundTo

(***************************************************************************)
(* Elements of a sequence, and a sequence with one of them replaced        *)
(***************************************************************************)
LEMMA Replaced ==
    ASSUME NEW S, NEW s \in Seq(S)
    PROVE  /\ \A i \in DOMAIN s : s[i] \in S
           /\ s # <<>> => 1 \in DOMAIN s
           /\ \A i, x : (i \in DOMAIN s => x \in S) => [s EXCEPT ![i] = x] \in Seq(S)
<1>1. s \in [1..Len(s) -> S] /\ Len(s) \in Nat /\ DOMAIN s = 1..Len(s)
    OBVIOUS
<1>2. s # <<>> => Len(s) > 0
    OBVIOUS
<1>3. ASSUME NEW i, NEW x, i \in DOMAIN s => x \in S
      PROVE  [s EXCEPT ![i] = x] \in Seq(S)
    <2>1. [s EXCEPT ![i] = x] \in [1..Len(s) -> S]
        BY <1>1, <1>3
    <2> QED
        BY <1>1, <2>1, SeqDef
<1> QED
    BY <1>1, <1>2, <1>3

(***************************************************************************)
(* The attempts QuiddPay keeps are no part of the answer.                  *)
(***************************************************************************)
LEMMA AttemptKeeps ==
    ASSUME Inv, NEW t \in Tasks, DoAttempt(t)
    PROVE  Inv' /\ Kept
<1> DEFINE c == Current(t)
<1>1. /\ ~ Free(t) /\ c.op \in {"nonePending", "begin", "put"}
      /\ UNCHANGED <<provider, row, refund, jobs, batch, record, past>>
    BY DEF DoAttempt
<1>2. /\ row.kind # "none" /\ ~ task[t].late
      /\ Rest(t) \in Seq(Asks(provider, row.kind)) /\ task[t].seen \in Words
      /\ task[t] \in TaskRow(provider, row.kind)
      /\ c.op = "begin" => c.to \in Rail
      /\ c.op = "put" => c.to \in AttemptStatus \cup {"seen"}
    BY <1>1, AtCall DEF TaskRow, Asks, Marking, Marks, Calls, Writing, Writable, AttemptStatus
<1>3. RefundOK /\ JobsOK /\ attempt \in Seq([rail : Rail, status : AttemptStatus])
    BY DEF Inv, JobsOK
<1>4. CASE c.op = "nonePending"
    <2>1. UNCHANGED attempt /\ (Stops(t) \/ Goes(t, Rest(t), task[t].seen))
        BY <1>4 DEF DoAttempt
    <2>2. RefundOK' /\ JobsOK'
        BY <1>1, <1>3, <2>1 DEF RefundOK, JobsOK
    <2> QED
        BY <1>1, <2>1, <2>2, OnlyTurns
<1>5. CASE c.op = "begin"
    <2> DEFINE new == [rail |-> c.to, status |-> "pending"]
    <2>1. /\ attempt' = Append(attempt, new)
          /\ task' = [task EXCEPT ![t] =
                        IF Rest(t) = <<>> THEN Idle
                        ELSE [@ EXCEPT !.todo = Rest(t), !.note = Len(attempt')]]
        BY <1>5 DEF DoAttempt
    <2>2. new \in [rail : Rail, status : AttemptStatus]
        BY <1>2, <1>5 DEF AttemptStatus
    <2> HIDE DEF new
    <2>3. attempt' \in Seq([rail : Rail, status : AttemptStatus]) /\ Len(attempt') \in Nat
        BY <1>3, <2>1, <2>2
    <2>4. RefundOK' /\ JobsOK'
        BY <1>1, <1>3, <2>3 DEF RefundOK, JobsOK
    <2>5. CASE Rest(t) = <<>>
        <3>1. Stops(t)
            BY <2>1, <2>5 DEF Stops
        <3> QED
            BY <1>1, <2>4, <3>1, OnlyTurns
    <2>6. CASE Rest(t) # <<>>
        <3> DEFINE y == [task[t] EXCEPT !.todo = Rest(t)]
                   x == [y EXCEPT !.note = Len(attempt')]
        <3>1. task' = [task EXCEPT ![t] = x]
            BY <2>1, <2>6
        <3>2. /\ y \in TaskRow(provider, row.kind)
              /\ y.todo = Rest(t) /\ y.late = task[t].late
            BY <1>2 DEF TaskRow
        <3> HIDE DEF y
        <3>3. /\ x \in TaskRow(provider, row.kind)
              /\ x.todo = Rest(t) /\ x.late = task[t].late
            BY <2>3, <3>2 DEF TaskRow
        <3> HIDE DEF x
        <3>4. Turns(t, row.kind, Rest(t))
            BY <1>2, <3>1, <3>3 DEF Turns
        <3> QED
            BY <1>1, <1>2, <2>4, <3>4, TurnAlone
    <2> QED
        BY <2>5, <2>6
<1>6. CASE c.op = "put"
    <2> DEFINE status == IF c.to = "seen" THEN Seen(task[t].seen) ELSE c.to
               i == Subject(t)
               new == [attempt[i] EXCEPT !.status = status]
    <2>1. attempt' = [attempt EXCEPT ![i] = new] /\ Goes(t, Rest(t), task[t].seen)
        BY <1>6 DEF DoAttempt
    <2>2. status \in AttemptStatus
        BY <1>2, <1>6 DEF Seen, AttemptStatus
    <2> HIDE DEF i, status
    <2>3. i \in DOMAIN attempt => new \in [rail : Rail, status : AttemptStatus]
        <3>1. i \in DOMAIN attempt => attempt[i] \in [rail : Rail, status : AttemptStatus]
            BY <1>3, Replaced
        <3> QED
            BY <2>2, <3>1
    <2> HIDE DEF new
    <2>4. attempt' \in Seq([rail : Rail, status : AttemptStatus])
        BY <1>3, <2>1, <2>3, Replaced
    <2>5. RefundOK' /\ JobsOK'
        BY <1>1, <1>3, <2>4 DEF RefundOK, JobsOK
    <2> QED
        BY <1>1, <2>1, <2>5, OnlyTurns
<1> QED
    BY <1>1, <1>4, <1>5, <1>6

-----------------------------------------------------------------------------
(***************************************************************************)
(* The scheduler and the process: what is queued or claimed stays a job    *)
(* that can be run, and runs when there is a row.                          *)
(***************************************************************************)
LEMMA JobsMove ==
    ASSUME Inv, UNCHANGED <<provider, row, refund, record, attempt, past>>,
           jobs' \in Seq(Runnable), batch' \in Seq(Claimed),
           row.kind = "none" => jobs' = <<>> /\ batch' = <<>>,
           TasksOK', \A u \in Tasks : task'[u] = task[u] \/
                (~ task'[u].late /\ (row.kind = "none" => Opens(task'[u].todo)))
    PROVE  Inv' /\ Kept
<1>1. Answered' = Answered
    BY DEF Answered
<1>2. RowOK' /\ RefundOK' /\ JobsOK' /\ Unpaid'
    BY <1>1 DEF Inv, RowOK, RefundOK, JobsOK, Unpaid
<1>3. NothingYet' /\ LateAsks'
    BY DEF Inv, NothingYet, LateAsks
<1> QED
    BY <1>1, <1>2, <1>3 DEF Inv, Kept

(***************************************************************************)
(* claimDue takes jobs that were queued.                                   *)
(***************************************************************************)
LEMMA ClaimKeeps ==
    ASSUME Inv, Claim
    PROVE  Inv' /\ Kept
<1> DEFINE claimed(s) == [i \in DOMAIN s |->
                            [job |-> s[i], cancelled |-> FALSE, begun |-> FALSE]]
<1>1. UNCHANGED <<provider, row, refund, task, record, attempt, past>> /\ jobs # <<>>
    BY DEF Claim
<1>2. jobs \in Seq(Runnable) /\ row.kind # "none" /\ TasksOK
    BY <1>1 DEF Inv, JobsOK, NothingYet
<1>3. ASSUME NEW s \in Seq(Runnable)
      PROVE  claimed(s) \in Seq(Claimed)
    <2>1. \A i \in 1..Len(s) : s[i] \in Runnable
        BY <1>3
    <2>2. \A j \in Runnable : [job |-> j, cancelled |-> FALSE, begun |-> FALSE] \in Claimed
        BY DEF Claimed
    <2>3. DOMAIN s = 1..Len(s) /\ Len(s) \in Nat
        BY <1>3
    <2>4. claimed(s) \in [1..Len(s) -> Claimed]
        BY <2>1, <2>2, <2>3
    <2> QED
        BY <2>3, <2>4, SeqDef
<1> HIDE DEF claimed
<1>4. CASE \E i \in DOMAIN jobs :
              batch' = claimed(<<jobs[i]>>) /\ jobs' \in Picks(jobs, DOMAIN jobs \ {i})
    <2>1. PICK i \in DOMAIN jobs :
              batch' = claimed(<<jobs[i]>>) /\ jobs' \in Picks(jobs, DOMAIN jobs \ {i})
        BY <1>4
    <2>2. <<jobs[i]>> \in Seq(Runnable)
        BY <1>2
    <2>3. batch' \in Seq(Claimed)
        BY <1>3, <2>1, <2>2
    <2>4. jobs' \in Seq(Runnable)
        <3>1. (DOMAIN jobs \ {i}) \subseteq DOMAIN jobs
            OBVIOUS
        <3> QED
            BY <1>2, <2>1, <3>1, Picked
    <2> QED
        BY <1>1, <1>2, <2>3, <2>4, JobsMove DEF TasksOK
<1>5. CASE batch' = claimed(jobs) /\ jobs' = <<>>
    <2>1. batch' \in Seq(Claimed) /\ jobs' \in Seq(Runnable)
        BY <1>2, <1>3, <1>5
    <2> QED
        BY <1>1, <1>2, <2>1, JobsMove DEF TasksOK
<1> QED
    BY <1>4, <1>5 DEF Claim, claimed

(***************************************************************************)
(* The handler of a claimed job runs calls of the provider.                *)
(***************************************************************************)
LEMMA RunJobKeeps ==
    ASSUME Inv, RunJob
    PROVE  Inv' /\ Kept
<1>1. /\ UNCHANGED <<provider, row, refund, jobs, record, attempt, past>>
      /\ batch # <<>>
    BY DEF RunJob
<1>2. /\ jobs \in Seq(Runnable) /\ batch \in Seq(Claimed) /\ row.kind # "none"
      /\ task \in [Tasks -> TaskRow(provider, row.kind)]
    BY <1>1 DEF Inv, JobsOK, NothingYet, TasksOK
<1>3. CASE batch[1].begun
    <2>1. batch' = Tail(batch) /\ UNCHANGED task
        BY <1>3 DEF RunJob
    <2>2. batch' \in Seq(Claimed)
        BY <1>1, <1>2, <2>1
    <2>3. TasksOK'
        BY <1>1, <1>2, <2>1 DEF TasksOK
    <2> QED
        BY <1>1, <1>2, <2>1, <2>2, <2>3, JobsMove
<1>4. CASE ~ batch[1].begun
    <2> DEFINE first == [batch[1] EXCEPT !.begun = TRUE]
               x == [Idle EXCEPT !.todo = HandlerOf(batch[1].job)]
    <2>1. /\ batch' = [batch EXCEPT ![1] = first]
          /\ task' = [task EXCEPT ![Poll] = x]
        BY <1>4 DEF RunJob
    <2>2. batch[1] \in Claimed /\ batch[1].job \in Runnable
        <3>1. 1 \in DOMAIN batch
            BY <1>1, <1>2, Replaced
        <3>2. batch[1] \in Claimed
            BY <1>2, <3>1, Replaced
        <3> QED
            BY <3>2 DEF Claimed
    <2>3. first \in Claimed
        BY <2>2 DEF Claimed
    <2>4. x \in TaskRow(provider, row.kind) /\ ~ x.late
        <3>1. HandlerOf(batch[1].job) \in Seq(Asks(provider, row.kind))
            BY <2>2, HandlerCalls, Unmarking
        <3> QED
            BY <3>1, IdleRow DEF TaskRow
    <2> HIDE DEF first, x
    <2>5. batch' \in Seq(Claimed)
        BY <1>2, <2>1, <2>3, Replaced
    <2>6. TasksOK'
        BY <1>1, <1>2, <2>1, <2>4 DEF TasksOK
    <2>7. \A u \in Tasks : task'[u] = task[u] \/ ~ task'[u].late
        BY <1>2, <2>1, <2>4
    <2> QED
        BY <1>1, <1>2, <2>5, <2>6, <2>7, JobsMove
<1> QED
    BY <1>3, <1>4

(***************************************************************************)
(* A death leaves the rows and the jobs, and no task under way.            *)
(***************************************************************************)
LEMMA DieKeeps ==
    ASSUME Inv, Die
    PROVE  Inv' /\ Kept
<1>1. /\ UNCHANGED <<provider, row, refund, record, attempt, past>>
      /\ batch' = <<>> /\ task' = [u \in Tasks |-> Idle]
    BY DEF Die
<1>2. jobs \in Seq(Runnable) /\ batch \in Seq(Claimed)
    BY DEF Inv, JobsOK
<1>3. PICK live \in Picks(batch, Reclaimed) :
          jobs' = [i \in DOMAIN live |-> live[i].job] \o jobs
    BY DEF Die
<1>4. live \in Seq(Claimed)
    <2>1. Reclaimed \subseteq DOMAIN batch
        BY DEF Reclaimed
    <2> QED
        BY <1>2, <1>3, <2>1, Picked
<1> DEFINE again == [i \in DOMAIN live |-> live[i].job]
<1>5. again \in Seq(Runnable)
    <2>1. DOMAIN live = 1..Len(live) /\ Len(live) \in Nat
        BY <1>4
    <2>2. ASSUME NEW i \in 1..Len(live)
          PROVE  live[i].job \in Runnable
        <3>1. live[i] \in Claimed
            BY <1>4, <2>1, <2>2, Replaced
        <3> QED
            BY <3>1 DEF Claimed
    <2>3. again \in [1..Len(live) -> Runnable]
        BY <2>1, <2>2
    <2> QED
        BY <2>1, <2>3, SeqDef
<1>6. jobs' = again \o jobs
    BY <1>3
<1> HIDE DEF again
<1>7. jobs' \in Seq(Runnable)
    BY <1>2, <1>5, <1>6, Joined
<1>8. batch' \in Seq(Claimed)
    BY <1>1
<1>9. row.kind = "none" => jobs' = <<>>
    <2> SUFFICES ASSUME row.kind = "none" PROVE jobs' = <<>>
        OBVIOUS
    <2>1. jobs = <<>> /\ batch = <<>>
        BY DEF Inv, NothingYet
    <2>2. DOMAIN live = {}
        <3>1. Reclaimed = {}
            BY <2>1 DEF Reclaimed
        <3>2. Cardinality({}) = 0
            BY FS_EmptySet
        <3>3. \E at : live = [i \in 1..0 |-> batch[at[i]]]
            BY <1>3, <3>1, <3>2 DEF Picks
        <3> QED
            BY <3>3
    <2>3. Len(again) = 0
        BY <2>2 DEF again
    <2> QED
        BY <1>5, <1>6, <2>1, <2>3
<1>10. TasksOK' /\ \A u \in Tasks : ~ task'[u].late /\ Opens(task'[u].todo)
    BY <1>1, IdleRow DEF TasksOK, Opens
<1> QED
    BY <1>1, <1>7, <1>8, <1>9, <1>10, JobsMove

-----------------------------------------------------------------------------
(***************************************************************************)
(* Marks.  What is left of a program after its first call:                 *)
(***************************************************************************)
LEMMA TailIs ==
    ASSUME NEW S, NEW s \in Seq(S), s # <<>>
    PROVE  /\ Tail(s) \in Seq(S) /\ Len(s) \in Nat /\ Len(s) > 0
           /\ Len(Tail(s)) = Len(s) - 1
           /\ DOMAIN s = 1..Len(s) /\ DOMAIN Tail(s) = 1..(Len(s) - 1)
           /\ \A i \in 1..(Len(s) - 1) : Tail(s)[i] = s[i + 1]
<1>1. Tail(s) \in Seq(S) /\ Len(s) \in Nat /\ Len(s) > 0 /\ Len(Tail(s)) = Len(s) - 1
    OBVIOUS
<1>2. DOMAIN s = 1..Len(s) /\ DOMAIN Tail(s) = 1..(Len(s) - 1)
    BY <1>1
<1>3. \A i \in 1..(Len(s) - 1) : Tail(s)[i] = s[i + 1]
    OBVIOUS
<1> QED
    BY <1>1, <1>2, <1>3

\* A mark that is distant is neither next nor about to pay.
LEMMA DistantSettles ==
    ASSUME NEW S, NEW s \in Seq(S), Distant(s)
    PROVE  \A seen : Settles(s, seen) /\ ~ Pays(s, seen)
<1>1. DOMAIN s = 1..Len(s) /\ Len(s) \in Nat
    OBVIOUS
<1>2. ~ (Left(s) /\ Marks(s[Len(s)]))
    <2> SUFFICES ASSUME Left(s), Marks(s[Len(s)]) PROVE FALSE
        OBVIOUS
    <2>1. Len(s) \in DOMAIN s /\ Len(s) \in {1, 2}
        BY <1>1 DEF Left
    <2>2. Len(s) = 2 /\ Hop(s[1], "failed") /\ s[1].op = "cancelGroup"
        BY <2>1 DEF Distant, Left
    <2> QED
        BY <2>2 DEF Hop
<1> QED
    BY <1>2 DEF Settles, Pays

\* A distant mark stays so after any call but a hop,
LEMMA AfterCall ==
    ASSUME NEW S, NEW s \in Seq(S), s # <<>>, NEW seen, Settles(s, seen),
           s[1].op # "hop"
    PROVE  \/ Distant(Tail(s))
           \/ Len(s) = 2 /\ s[1].op = "cancelGroup" /\ Marks(s[2])
<1> DEFINE r == Tail(s)
<1>1. /\ Len(s) \in Nat /\ Len(s) > 0 /\ Len(r) = Len(s) - 1
      /\ DOMAIN s = 1..Len(s) /\ DOMAIN r = 1..(Len(s) - 1)
      /\ \A i \in 1..(Len(s) - 1) : r[i] = s[i + 1]
    BY TailIs
<1> HIDE DEF r
<1>2. CASE Distant(s)
    <2>1. ASSUME NEW i \in DOMAIN r, Marks(r[i])
          PROVE  /\ i = Len(r) /\ i > 1
                 /\ \/ r[i].to = "seen" /\ Hop(r[i - 1], "failed")
                    \/ i > 2 /\ Hop(r[i - 1], "successful") /\ Hop(r[i - 2], "processing")
        <3> DEFINE j == i + 1
        <3>1. /\ j \in DOMAIN s /\ r[i] = s[j] /\ j - 1 = i /\ j - 2 = i - 1
              /\ i \in Nat /\ i > 0 /\ j = i + 1
            <4>1. i \in 1..(Len(s) - 1) /\ r[i] = s[i + 1]
                BY <1>1, <2>1
            <4>2. i \in Nat /\ i > 0 /\ i + 1 \in 1..Len(s)
                BY <1>1, <4>1
            <4> QED
                BY <1>1, <4>1, <4>2
        <3> HIDE DEF j
        <3>2. /\ j = Len(s)
              /\ \/ s[j].to = "seen" /\ Hop(s[j - 1], "failed")
                 \/ j > 2 /\ Hop(s[j - 1], "successful") /\ Hop(s[j - 2], "processing")
            BY <1>2, <2>1, <3>1 DEF Distant
        <3>3. \A to : ~ Hop(s[1], to)
            BY DEF Hop
        <3>4. i # 1
            <4> SUFFICES ASSUME i = 1 PROVE FALSE
                OBVIOUS
            <4>1. j - 1 = 1 /\ j = 2
                BY <3>1
            <4> QED
                BY <3>2, <3>3, <4>1
        <3>5. i = Len(r) /\ i > 1
            BY <1>1, <3>1, <3>2, <3>4
        <3>6. r[i - 1] = s[j - 1]
            BY <1>1, <3>1, <3>5
        <3>7. CASE s[j].to = "seen" /\ Hop(s[j - 1], "failed")
            BY <3>1, <3>5, <3>6, <3>7
        <3>8. CASE j > 2 /\ Hop(s[j - 1], "successful") /\ Hop(s[j - 2], "processing")
            <4>1. i # 2
                <5> SUFFICES ASSUME i = 2 PROVE FALSE
                    OBVIOUS
                <5>1. j - 2 = 1
                    BY <3>1
                <5> QED
                    BY <3>3, <3>8, <5>1
            <4>2. i > 2
                BY <3>1, <3>5, <4>1
            <4>3. r[i - 2] = s[j - 2]
                BY <1>1, <3>1, <4>2
            <4> QED
                BY <3>5, <3>6, <3>8, <4>2, <4>3
        <3> QED
            BY <3>2, <3>7, <3>8
    <2> QED
        BY <2>1 DEF Distant, r
<1>3. CASE Left(s) /\ Marks(s[Len(s)])
    <2>1. CASE Len(s) = 1
        <3>1. DOMAIN r = {}
            BY <1>1, <2>1
        <3> QED
            BY <3>1 DEF Distant, r
    <2>2. CASE Len(s) # 1
        BY <1>3, <2>2 DEF Left
    <2> QED
        BY <2>1, <2>2
<1> QED
    BY <1>2, <1>3 DEF Settles, Hop

\* ... while after a hop it may be next: with "processing" seen when the payment
\* is still to succeed, and as paid only once it has.
LEMMA AfterHop ==
    ASSUME NEW S, NEW s \in Seq(S), s # <<>>, NEW seen, Settles(s, seen),
           s[1].op = "hop", NEW c \in S, c.op = "cancelGroup"
    PROVE  LET to == s[1].to
               r  == Tail(s)
               q  == <<c>> \o r
           IN  /\ Settles(r, to) /\ (Pays(r, to) => to = "successful" /\ seen # to)
               /\ to # "processing" =>
                     Settles(q, to) /\ (Pays(q, to) => to = "successful" /\ seen # to)
<1> DEFINE to == s[1].to
           r == Tail(s)
           q == <<c>> \o r
<1>1. /\ Len(s) \in Nat /\ Len(s) > 0 /\ Len(r) = Len(s) - 1 /\ r \in Seq(S)
      /\ DOMAIN s = 1..Len(s) /\ DOMAIN r = 1..(Len(s) - 1)
      /\ \A i \in 1..(Len(s) - 1) : r[i] = s[i + 1]
    BY TailIs
<1>2. /\ q \in Seq(S) /\ Len(q) = Len(s) /\ DOMAIN q = 1..Len(s) /\ q[1] = c
      /\ \A i \in 2..Len(s) : q[i] = s[i]
    <2> HIDE DEF r
    <2>1. /\ q \in Seq(S) /\ Len(q) = 1 + Len(r) /\ q[1] = c
          /\ \A i \in 2..(1 + Len(r)) : q[i] = r[i - 1]
        BY <1>1
    <2> QED
        BY <1>1, <2>1
<1> HIDE DEF r, q
<1>3. /\ ~ Marks(c) /\ ~ Marks(s[1]) /\ ~ Marks(q[1])
      /\ \A i \in DOMAIN r : i + 1 \in DOMAIN s /\ r[i] = s[i + 1]
      /\ \A i \in DOMAIN q : i = 1 \/ (i \in 2..Len(s) /\ i \in DOMAIN s /\ q[i] = s[i])
    <2>1. ~ Marks(c) /\ ~ Marks(s[1])
        BY DEF Marks
    <2>2. \A i \in DOMAIN r : i + 1 \in DOMAIN s /\ r[i] = s[i + 1]
        BY <1>1
    <2>3. \A i \in DOMAIN q : i = 1 \/ (i \in 2..Len(s) /\ i \in DOMAIN s /\ q[i] = s[i])
        BY <1>1, <1>2
    <2> QED
        BY <1>2, <2>1, <2>2, <2>3
<1>4. CASE \A i \in DOMAIN s : ~ Marks(s[i])
    <2>1. (\A i \in DOMAIN r : ~ Marks(r[i])) /\ \A i \in DOMAIN q : ~ Marks(q[i])
        BY <1>3, <1>4
    <2>2. Distant(r) /\ Distant(q)
        BY <2>1 DEF Distant
    <2> QED
        BY <1>1, <1>2, <2>2, DistantSettles DEF r, q
<1>5. CASE Distant(s) /\ \E i \in DOMAIN s : Marks(s[i])
    <2> DEFINE n == Len(s)
    <2>1. PICK m \in DOMAIN s : Marks(s[m])
        BY <1>5
    <2>2. \A i \in DOMAIN s : Marks(s[i]) =>
              /\ i = n /\ i > 1
              /\ \/ s[i].to = "seen" /\ Hop(s[i - 1], "failed")
                 \/ i > 2 /\ Hop(s[i - 1], "successful") /\ Hop(s[i - 2], "processing")
        BY <1>5 DEF Distant
    <2>3. \A i \in 1..(n - 1) : i \in DOMAIN s /\ i # n
        BY <1>1
    <2>4. /\ Marks(s[n]) /\ n > 1 /\ \A i \in 1..(n - 1) : ~ Marks(s[i])
          /\ \/ s[n].to = "seen" /\ Hop(s[n - 1], "failed")
             \/ n > 2 /\ Hop(s[n - 1], "successful") /\ Hop(s[n - 2], "processing")
        BY <2>1, <2>2, <2>3
    <2>5. r[n - 1] = s[n] /\ q[n] = s[n] /\ Len(r) = n - 1 /\ Len(q) = n
        BY <1>1, <1>2, <2>4
    <2>6. CASE n = 2
        <3>1. s[n].to = "seen" /\ to = "failed"
            BY <2>4, <2>6 DEF Hop
        <3>2. /\ Left(r) /\ Left(q) /\ Marks(r[Len(r)]) /\ Marks(q[Len(q)])
              /\ r[Len(r)].to = "seen" /\ q[Len(q)].to = "seen"
            BY <1>1, <1>2, <2>4, <2>5, <2>6, <3>1 DEF Left
        <3>3. Seen(to) # "paid"
            BY <3>1 DEF Seen
        <3> QED
            BY <3>2, <3>3 DEF Settles, Pays, r, q
    <2>7. CASE n > 2 /\ s[n].to = "seen" /\ Hop(s[n - 1], "failed")
        <3>1. r[n - 2] = s[n - 1] /\ q[n - 1] = s[n - 1]
            BY <1>1, <1>2, <2>7
        <3>2. /\ \A i \in DOMAIN r : i = n - 1 \/ ~ Marks(r[i])
              /\ \A i \in DOMAIN q : i = n \/ ~ Marks(q[i])
            <4>1. /\ \A i \in DOMAIN r : i # n - 1 => i + 1 \in 1..(n - 1)
                  /\ \A i \in DOMAIN q : i # n => i \in 1..(n - 1)
                BY <1>1, <1>2
            <4> QED
                BY <1>3, <2>4, <4>1
        <3>3. Distant(r)
            <4> SUFFICES ASSUME NEW i \in DOMAIN r, Marks(r[i])
                         PROVE  /\ i = Len(r) /\ i > 1
                                /\ \/ r[i].to = "seen" /\ Hop(r[i - 1], "failed")
                                   \/ /\ i > 2 /\ Hop(r[i - 1], "successful")
                                      /\ Hop(r[i - 2], "processing")
                BY DEF Distant
            <4>1. i = n - 1
                BY <3>2
            <4>2. /\ i - 1 = n - 2 /\ i - 2 = n - 3 /\ i > 1 /\ i = Len(r)
                  /\ r[i] = s[n] /\ (n > 3 => i > 2)
                BY <1>1, <2>5, <2>7, <4>1
            <4> QED
                BY <2>7, <3>1, <4>2
        <3>4. Distant(q)
            <4> SUFFICES ASSUME NEW i \in DOMAIN q, Marks(q[i])
                         PROVE  /\ i = Len(q) /\ i > 1
                                /\ \/ q[i].to = "seen" /\ Hop(q[i - 1], "failed")
                                   \/ /\ i > 2 /\ Hop(q[i - 1], "successful")
                                      /\ Hop(q[i - 2], "processing")
                BY DEF Distant
            <4>1. i = n
                BY <3>2
            <4>2. i > 2 /\ i = Len(q) /\ i > 1
                BY <1>1, <2>5, <2>7, <4>1
            <4> QED
                BY <2>5, <2>7, <3>1, <4>1, <4>2
        <3> QED
            BY <1>1, <1>2, <3>3, <3>4, DistantSettles DEF r, q
    <2>8. CASE n = 3 /\ Hop(s[n - 1], "successful") /\ Hop(s[n - 2], "processing")
        <3>1. to = "processing"
            BY <2>8 DEF Hop
        <3>2. Len(r) = 2 /\ r[1] = s[2] /\ r[2] = s[3]
            BY <1>1, <2>8
        <3>3. Settles(r, to) /\ ~ Left(r)
            BY <2>4, <2>8, <3>1, <3>2 DEF Settles, Left, Hop
        <3> QED
            BY <3>1, <3>3 DEF Pays, r
    <2>9. CASE n > 3 /\ Hop(s[n - 1], "successful") /\ Hop(s[n - 2], "processing")
        <3>1. /\ r[n - 2] = s[n - 1] /\ q[n - 1] = s[n - 1]
              /\ r[n - 3] = s[n - 2] /\ q[n - 2] = s[n - 2]
            BY <1>1, <1>2, <2>9
        <3>2. /\ \A i \in DOMAIN r : i = n - 1 \/ ~ Marks(r[i])
              /\ \A i \in DOMAIN q : i = n \/ ~ Marks(q[i])
            <4>1. /\ \A i \in DOMAIN r : i # n - 1 => i + 1 \in 1..(n - 1)
                  /\ \A i \in DOMAIN q : i # n => i \in 1..(n - 1)
                BY <1>1, <1>2
            <4> QED
                BY <1>3, <2>4, <4>1
        <3>3. Distant(r)
            <4> SUFFICES ASSUME NEW i \in DOMAIN r, Marks(r[i])
                         PROVE  /\ i = Len(r) /\ i > 1
                                /\ \/ r[i].to = "seen" /\ Hop(r[i - 1], "failed")
                                   \/ /\ i > 2 /\ Hop(r[i - 1], "successful")
                                      /\ Hop(r[i - 2], "processing")
                BY DEF Distant
            <4>1. i = n - 1
                BY <3>2
            <4>2. /\ i - 1 = n - 2 /\ i - 2 = n - 3 /\ i > 1 /\ i = Len(r)
                  /\ r[i] = s[n] /\ (n > 3 => i > 2)
                BY <1>1, <2>5, <2>9, <4>1
            <4> QED
                BY <2>9, <3>1, <4>2
        <3>4. Distant(q)
            <4> SUFFICES ASSUME NEW i \in DOMAIN q, Marks(q[i])
                         PROVE  /\ i = Len(q) /\ i > 1
                                /\ \/ q[i].to = "seen" /\ Hop(q[i - 1], "failed")
                                   \/ /\ i > 2 /\ Hop(q[i - 1], "successful")
                                      /\ Hop(q[i - 2], "processing")
                BY DEF Distant
            <4>1. i = n
                BY <3>2
            <4>2. i > 2 /\ i = Len(q) /\ i > 1
                BY <1>1, <2>5, <2>9, <4>1
            <4> QED
                BY <2>5, <2>9, <3>1, <4>1, <4>2
        <3> QED
            BY <1>1, <1>2, <3>3, <3>4, DistantSettles DEF r, q
    <2> QED
        BY <1>1, <2>4, <2>6, <2>7, <2>8, <2>9
<1>6. CASE Len(s) = 2 /\ Marks(s[2]) /\ Hop(s[1], "successful") /\ seen = "processing"
    <2>1. /\ Left(r) /\ Marks(r[Len(r)]) /\ Left(q) /\ Marks(q[Len(q)])
          /\ to = "successful" /\ seen # to
        BY <1>1, <1>2, <1>6 DEF Left, Hop
    <2> QED
        BY <2>1 DEF Settles, r, q
<1>7. CASE Left(s) /\ Marks(s[Len(s)])
    BY <1>1, <1>3, <1>7 DEF Left
<1> QED
    BY <1>4, <1>5, <1>6, <1>7 DEF Settles

-----------------------------------------------------------------------------
(***************************************************************************)
(* One task goes on, and none but the one that collects the payment, or    *)
(* was about to mark it, is about to mark an attempt as paid.              *)
(***************************************************************************)
LEMMA MarkStep ==
    ASSUME Inv, MarkedOnce, NEW t \in Tasks, NEW x, task' = [task EXCEPT ![t] = x],
           Settles(x.todo, x.seen), Paid' = Paid,
           \/ /\ past'.collected = past.collected
              /\ Pays(x.todo, x.seen) => t \in Paying
           \/ past.collected = 0 /\ past'.collected = 1
    PROVE  MarkedOnce'
<1>1. task'[t] = x /\ \A u \in Tasks : u # t => task'[u] = task[u]
    BY DEF Inv, TasksOK
<1>2. \A u \in Tasks : Settles(task'[u].todo, task'[u].seen)
    BY <1>1 DEF MarkedOnce
<1>3. Paying' \subseteq Paying \cup {t}
    BY <1>1 DEF Paying
<1>4. CASE /\ past'.collected = past.collected
           /\ Pays(x.todo, x.seen) => t \in Paying
    <2>1. Paying' \subseteq Paying
        BY <1>1, <1>4 DEF Paying
    <2> QED
        BY <1>2, <1>4, <2>1 DEF MarkedOnce
<1>5. CASE past.collected = 0 /\ past'.collected = 1
    <2>1. Paying = {} /\ Paid = {}
        BY <1>5 DEF MarkedOnce
    <2> QED
        BY <1>2, <1>3, <1>5, <2>1 DEF MarkedOnce
<1> QED
    BY <1>4, <1>5

\* So when it goes on as Goes says,
LEMMA GoesMarks ==
    ASSUME Inv, MarkedOnce, NEW t \in Tasks, NEW S, NEW rest \in Seq(S), NEW seen,
           Goes(t, rest, seen), Settles(rest, seen), Paid' = Paid,
           \/ /\ past'.collected = past.collected
              /\ Pays(rest, seen) => t \in Paying
           \/ past.collected = 0 /\ past'.collected = 1
    PROVE  MarkedOnce'
<1>1. CASE rest = <<>>
    <2>1. task' = [task EXCEPT ![t] = Idle]
        BY <1>1 DEF Goes
    <2>2. Settles(Idle.todo, Idle.seen) /\ ~ Pays(Idle.todo, Idle.seen)
        BY DEF Idle, Settles, Pays, Distant, Left
    <2> QED
        BY <2>1, <2>2, MarkStep
<1>2. CASE rest # <<>>
    <2> DEFINE y == [task[t] EXCEPT !.todo = rest]
               x == [y EXCEPT !.seen = seen]
    <2>1. task' = [task EXCEPT ![t] = x]
        BY <1>2 DEF Goes
    <2>2. x.todo = rest /\ x.seen = seen
        BY DEF Inv, TasksOK, TaskRow
    <2> HIDE DEF x
    <2> QED
        BY <2>1, <2>2, MarkStep
<1> QED
    BY <1>1, <1>2

\* ... when it stops,
LEMMA StopsMarks ==
    ASSUME Inv, MarkedOnce, NEW t \in Tasks, Stops(t), Paid' = Paid,
           past'.collected = past.collected
    PROVE  MarkedOnce'
<1>1. Settles(Idle.todo, Idle.seen) /\ ~ Pays(Idle.todo, Idle.seen)
    BY DEF Idle, Settles, Pays, Distant, Left
<1> QED
    BY <1>1, MarkStep DEF Stops

\* ... and when it goes on with a program that marks nothing soon.
LEMMA DistantMarks ==
    ASSUME Inv, MarkedOnce, NEW t \in Tasks, NEW S, NEW rest \in Seq(S), NEW seen,
           Goes(t, rest, seen), Distant(rest), Paid' = Paid,
           \/ past'.collected = past.collected
           \/ past.collected = 0 /\ past'.collected = 1
    PROVE  MarkedOnce'
BY DistantSettles, GoesMarks

\* What a task is at, and what is left after it
LEMMA AtMark ==
    ASSUME Inv, MarkedOnce, NEW t \in Tasks, ~ Free(t)
    PROVE  LET s == task[t].todo
           IN  /\ s \in Seq(Asks(provider, row.kind)) /\ s # <<>>
               /\ Current(t) = s[1] /\ Rest(t) = Tail(s)
               /\ Rest(t) \in Seq(Asks(provider, row.kind))
               /\ Settles(s, task[t].seen)
               /\ Current(t).op \notin {"hop", "cancelGroup"} => Distant(Rest(t))
<1> DEFINE s == task[t].todo
           S == Asks(provider, row.kind)
<1>1. s \in Seq(S) /\ s # <<>> /\ Settles(s, task[t].seen)
    BY DEF Inv, TasksOK, TaskRow, MarkedOnce, Free
<1> HIDE DEF S
<1>2. Current(t) = s[1] /\ Rest(t) = Tail(s) /\ Tail(s) \in Seq(S)
    BY <1>1 DEF Current, Rest
<1>3. s[1].op \notin {"hop", "cancelGroup"} => Distant(Tail(s))
    BY <1>1, AfterCall
<1> QED
    BY <1>1, <1>2, <1>3 DEF S

(***************************************************************************)
(* The calls of a program, and the marks                                   *)
(***************************************************************************)
LEMMA PlainMarks ==
    ASSUME Inv, MarkedOnce, NEW t \in Tasks,
           \/ DoRead(t) \/ DoEnqueue(t) \/ DoFlag(t) \/ DoRefund(t)
           \/ DoRefundRequire(t) \/ DoRefundTo(t) \/ DoLookup(t) \/ DoStore(t)
    PROVE  MarkedOnce'
<1>1. /\ ~ Free(t) /\ Current(t).op \notin {"hop", "cancelGroup"}
      /\ UNCHANGED <<attempt, past>>
      /\ \/ Stops(t)
         \/ Goes(t, Rest(t), task[t].seen)
         \/ Goes(t, Rest(t), row.status)
    BY DEF DoRead, DoEnqueue, DoFlag, DoRefund, DoRefundRequire, DoRefundTo, DoLookup,
           DoStore, At
<1>2. Rest(t) \in Seq(Asks(provider, row.kind)) /\ Distant(Rest(t))
    BY <1>1, AtMark
<1>3. Paid' = Paid
    BY <1>1 DEF Paid
<1> QED
    BY <1>1, <1>2, <1>3, StopsMarks, DistantMarks

\* A row is created before anything is marked.
LEMMA CreateMarks ==
    ASSUME Inv, MarkedOnce, NEW t \in Tasks, DoCreate(t)
    PROVE  MarkedOnce'
<1> DEFINE C == Calls(provider, row.kind)
           A == Asks(provider, row.kind)
<1>1. ~ Free(t) /\ Current(t).op = "create" /\ UNCHANGED attempt
    BY DEF DoCreate, At
<1>2. Rest(t) \in Seq(A) /\ Distant(Rest(t))
    BY <1>1, AtMark
<1>3. Paid' = Paid
    BY <1>1 DEF Paid
<1>4. past'.collected = past.collected
    BY DEF DoCreate, Inv, Unpaid, History
<1>5. Store \in Seq(C) /\ <<>> \in Seq(C) /\ Enqueue("expire", "expired") \in Seq(C)
    BY PlainCalls, EnqueueOutcome
<1>6. /\ Store \in Seq(A) /\ Distant(Store) /\ <<>> \in Seq(A) /\ Distant(<<>>)
    BY <1>5, Unmarking
<1>7. /\ Enqueue("expire", "expired") \o Rest(t) \in Seq(A)
      /\ Distant(Enqueue("expire", "expired") \o Rest(t))
      /\ <<>> \o Rest(t) \in Seq(A) /\ Distant(<<>> \o Rest(t))
    BY <1>2, <1>5, Distances
<1> HIDE DEF A, C
<1>8. \/ Stops(t)
      \/ \E rest \in {Rest(t), Store, <<>>, Enqueue("expire", "expired") \o Rest(t),
                      <<>> \o Rest(t)} : \E seen : Goes(t, rest, seen)
    BY DEF DoCreate
<1> QED
    BY <1>2, <1>3, <1>4, <1>6, <1>7, <1>8, StopsMarks, DistantMarks

\* Cancelling jobs comes between a move and its mark.
LEMMA CancelMarks ==
    ASSUME Inv, MarkedOnce, NEW t \in Tasks, DoCancelGroup(t)
    PROVE  MarkedOnce'
<1> DEFINE s == task[t].todo
           A == Asks(provider, row.kind)
<1>1. /\ ~ Free(t) /\ Current(t).op = "cancelGroup" /\ UNCHANGED <<attempt, past>>
      /\ Goes(t, Rest(t), task[t].seen)
    BY DEF DoCancelGroup, At
<1>2. /\ s \in Seq(A) /\ s # <<>> /\ Current(t) = s[1] /\ Rest(t) = Tail(s)
      /\ Rest(t) \in Seq(A) /\ Settles(s, task[t].seen)
    BY <1>1, AtMark
<1>3. Paid' = Paid
    BY <1>1 DEF Paid
<1> HIDE DEF A
<1>4. CASE Distant(Tail(s))
    BY <1>1, <1>2, <1>3, <1>4, DistantMarks
<1>5. CASE Len(s) = 2 /\ Marks(s[2])
    <2>1. Len(Tail(s)) = 1 /\ Tail(s)[1] = s[2]
        BY <1>2, <1>5, TailIs
    <2>2. Settles(Tail(s), task[t].seen)
        BY <1>5, <2>1 DEF Settles, Left
    <2>3. Pays(Tail(s), task[t].seen) => Pays(s, task[t].seen)
        BY <1>1, <1>2, <1>5, <2>1 DEF Pays, Left
    <2> QED
        BY <1>1, <1>2, <1>3, <2>2, <2>3, GoesMarks DEF Paying
<1> QED
    BY <1>1, <1>2, <1>4, <1>5, AfterCall

\* A move to "successful" is made of what was not paid, so that whoever makes it
\* is the only one to mark an attempt as paid.
LEMMA MoveMarks ==
    ASSUME Inv, MarkedOnce, NEW t \in Tasks, DoMove(t)
    PROVE  MarkedOnce'
<1> DEFINE c == Current(t)
           s == task[t].todo
           A == Asks(provider, row.kind)
           retry == c.op = "resume" /\ task[t].seen = "failed"
           cancel == Call("cancelGroup", "any", {})
<1>1. ~ Free(t) /\ c.op \in Moving /\ UNCHANGED <<provider, attempt>>
    BY DEF DoMove, Moving
<1>2. /\ s \in Seq(A) /\ s # <<>> /\ c = s[1] /\ Rest(t) = Tail(s)
      /\ Rest(t) \in Seq(A) /\ Settles(s, task[t].seen)
      /\ c.op # "hop" => Distant(Rest(t))
    BY <1>1, AtMark DEF Moving
<1>3. /\ row.kind # "none" /\ c \in A
    BY <1>1, AtCall DEF Moving
<1>4. /\ c.to \in Words /\ (c.to # "reversed" \/ provider \in Reversing)
      /\ retry \in BOOLEAN /\ (retry => provider = "stripe")
    BY <1>1, <1>3 DEF Asks, Marking, Marks, Calls, CallOf, Moving
<1>5. Paid' = Paid
    BY <1>1 DEF Paid
<1>6. past \in History
    BY DEF Inv, Unpaid
<1>7. /\ <<cancel>> \in Seq(Calls(provider, row.kind)) /\ cancel \in A
      /\ cancel.op = "cancelGroup"
    <2>1. /\ "cancelGroup" \in Ops /\ "cancelGroup" \notin Moving \cup Writing
          /\ "any" \in Words /\ {} \in SUBSET (Words \cup Nat)
        BY KnownWords DEF Ops, Moving, Writing
    <2> QED
        BY <2>1, Asked DEF Asks, Call
<1>8. CASE c.op = "hop" /\ task[t].seen = c.to
    <2>1. Goes(t, Rest(t), task[t].seen) /\ UNCHANGED past
        BY <1>8 DEF DoMove
    <2>2. Settles(Tail(s), c.to) /\ ~ Pays(Tail(s), c.to)
        <3>1. s \in Seq(A) /\ s # <<>> /\ c = s[1] /\ Settles(s, task[t].seen)
            BY <1>2
        <3>2. cancel \in A /\ cancel.op = "cancelGroup"
            BY <1>7
        <3> HIDE DEF cancel, A, s, c
        <3>3. /\ Settles(Tail(s), s[1].to)
              /\ Pays(Tail(s), s[1].to) => task[t].seen # s[1].to
            BY <1>8, <3>1, <3>2, AfterHop
        <3> QED
            BY <1>8, <3>1, <3>3
    <2> QED
        BY <1>2, <1>5, <1>8, <2>1, <2>2, GoesMarks
<1>9. CASE c.op = "when" /\ task[t].seen \notin c.in
    <2>1. Goes(t, Rest(t), task[t].seen) /\ UNCHANGED past
        BY <1>9 DEF DoMove
    <2> QED
        BY <1>2, <1>5, <1>9, <2>1, DistantMarks
<1>10. CASE /\ ~ (c.op = "hop" /\ task[t].seen = c.to)
            /\ ~ (c.op = "when" /\ task[t].seen \notin c.in)
            /\ ~ Legal(c.to, retry)
    <2>1. Stops(t) /\ UNCHANGED past
        BY <1>10 DEF DoMove
    <2> QED
        BY <1>5, <2>1, StopsMarks
<1>11. CASE /\ ~ (c.op = "hop" /\ task[t].seen = c.to)
            /\ ~ (c.op = "when" /\ task[t].seen \notin c.in)
            /\ Legal(c.to, retry)
    <2>1. /\ row' = [row EXCEPT !.status = c.to]
          /\ Goes(t, Cleanup(c.to) \o Rest(t), c.to)
          /\ past' = [past EXCEPT
                        !.collected = IF c.to = "successful" THEN @ + 1 ELSE @,
                        !.retried = @ \/ row.status = "failed"]
        BY <1>11 DEF DoMove
    <2>2. past'.collected = IF c.to = "successful" THEN past.collected + 1
                            ELSE past.collected
        BY <1>6, <2>1 DEF History
    <2>3. c.to = "successful" => past.collected = 0
        <3> HIDE DEF c, retry
        <3>1. /\ row'.status = c.to
              /\ Tale(provider, row, row', row'.status = "successful")
            BY <1>1, <1>3, <1>4, <1>11, <2>1, MoveTold
        <3> QED
            BY <3>1 DEF Tale, Answered, Inv, Unpaid
    <2>4. \/ past'.collected = past.collected
          \/ past.collected = 0 /\ past'.collected = 1
        BY <2>2, <2>3
    <2>5. /\ Cleanup(c.to) \in {<<cancel>>, <<>>}
          /\ c.to = "processing" => Cleanup(c.to) = <<>>
        BY DEF Cleanup, TerminalPayment
    <2>6. Cleanup(c.to) \in Seq(Calls(provider, row.kind))
        <3> HIDE DEF cancel, c
        <3>1. <<cancel>> \in Seq(Calls(provider, row.kind)) /\ <<>> \in Seq(Calls(provider, row.kind))
            BY <1>7
        <3> QED
            BY <2>5, <3>1
    <2>7. CASE c.op # "hop"
        <3>1. /\ Cleanup(c.to) \o Rest(t) \in Seq(A)
              /\ Distant(Cleanup(c.to) \o Rest(t))
            BY <1>2, <2>6, <2>7, Distances
        <3> QED
            BY <1>5, <2>1, <2>4, <3>1, DistantMarks
    <2>8. CASE c.op = "hop"
        <3> DEFINE rest == Cleanup(c.to) \o Rest(t)
        <3>1. rest = Tail(s) \/ (rest = <<cancel>> \o Tail(s) /\ c.to # "processing")
            <4> HIDE DEF A, cancel, c, s
            <4>1. Tail(s) \in Seq(A) /\ Rest(t) = Tail(s)
                BY <1>2
            <4>2. <<>> \o Tail(s) = Tail(s)
                BY <4>1
            <4> QED
                BY <2>5, <4>1, <4>2
        <3>2. rest \in Seq(A)
            <4> HIDE DEF A, cancel, c, s
            <4>1. Cleanup(c.to) \in Seq(A)
                BY <2>6, Unmarking DEF A
            <4> QED
                BY <1>2, <4>1
        <3>3. /\ Settles(rest, c.to)
              /\ Pays(rest, c.to) => c.to = "successful"
            <4>1. cancel \in A /\ cancel.op = "cancelGroup"
                BY <1>7
            <4>2. s \in Seq(A) /\ s # <<>> /\ c = s[1] /\ Settles(s, task[t].seen)
                BY <1>2
            <4> HIDE DEF cancel, A, rest, s, c
            <4>3. /\ Settles(Tail(s), s[1].to)
                  /\ Pays(Tail(s), s[1].to) => s[1].to = "successful"
                  /\ s[1].to # "processing" =>
                        /\ Settles(<<cancel>> \o Tail(s), s[1].to)
                        /\ Pays(<<cancel>> \o Tail(s), s[1].to) => s[1].to = "successful"
                BY <2>8, <4>1, <4>2, AfterHop
            <4> QED
                BY <3>1, <4>2, <4>3
        <3> HIDE DEF rest, A, cancel, c
        <3>4. \/ /\ past'.collected = past.collected
                 /\ Pays(rest, c.to) => t \in Paying
              \/ past.collected = 0 /\ past'.collected = 1
            BY <2>2, <2>3, <3>3
        <3> QED
            BY <1>5, <2>1, <3>2, <3>3, <3>4, GoesMarks DEF rest
    <2> QED
        BY <2>7, <2>8
<1> QED
    BY <1>8, <1>9, <1>10, <1>11

\* An attempt is marked as paid by who was about to, and by nobody else.
LEMMA AttemptMarks ==
    ASSUME Inv, MarkedOnce, NEW t \in Tasks, DoAttempt(t)
    PROVE  MarkedOnce'
<1> DEFINE c == Current(t)
           s == task[t].todo
           A == Asks(provider, row.kind)
<1>1. ~ Free(t) /\ c.op \in {"nonePending", "begin", "put"} /\ UNCHANGED past
    BY DEF DoAttempt
<1>2. /\ s \in Seq(A) /\ s # <<>> /\ c = s[1] /\ Rest(t) \in Seq(A)
      /\ Settles(s, task[t].seen) /\ Distant(Rest(t))
    BY <1>1, AtMark
<1>3. attempt \in Seq([rail : Rail, status : AttemptStatus])
    BY DEF Inv, JobsOK
<1>4. CASE c.op = "nonePending"
    <2>1. Paid' = Paid /\ (Stops(t) \/ Goes(t, Rest(t), task[t].seen))
        BY <1>4 DEF DoAttempt, Paid
    <2> QED
        BY <1>1, <1>2, <2>1, StopsMarks, DistantMarks
<1>5. CASE c.op = "begin"
    <2>1. /\ attempt' = Append(attempt, [rail |-> c.to, status |-> "pending"])
          /\ task' = [task EXCEPT ![t] =
                        IF Rest(t) = <<>> THEN Idle
                        ELSE [@ EXCEPT !.todo = Rest(t), !.note = Len(attempt')]]
        BY <1>5 DEF DoAttempt
    <2>2. Paid' = Paid
        <3> DEFINE n == Len(attempt)
        <3>1. /\ DOMAIN attempt = 1..n /\ n \in Nat /\ DOMAIN attempt' = 1..(n + 1)
              /\ \A i \in 1..n : attempt'[i] = attempt[i]
              /\ attempt'[n + 1].status = "pending"
            BY <1>3, <2>1
        <3> QED
            BY <3>1 DEF Paid
    <2>3. CASE Rest(t) = <<>>
        <3>1. Stops(t)
            BY <2>1, <2>3 DEF Stops
        <3> QED
            BY <1>1, <2>2, <3>1, StopsMarks
    <2>4. CASE Rest(t) # <<>>
        <3> DEFINE y == [task[t] EXCEPT !.todo = Rest(t)]
                   x == [y EXCEPT !.note = Len(attempt')]
        <3>1. task' = [task EXCEPT ![t] = x]
            BY <2>1, <2>4
        <3>2. x.todo = Rest(t)
            BY DEF Inv, TasksOK, TaskRow
        <3> HIDE DEF x
        <3>3. Settles(x.todo, x.seen) /\ ~ Pays(x.todo, x.seen)
            BY <1>2, <3>2, DistantSettles
        <3> QED
            BY <1>1, <2>2, <3>1, <3>3, MarkStep
    <2> QED
        BY <2>3, <2>4
<1>6. CASE c.op = "put"
    <2> DEFINE status == IF c.to = "seen" THEN Seen(task[t].seen) ELSE c.to
               i == Subject(t)
    <2>1. /\ attempt' = [attempt EXCEPT ![i].status = status]
          /\ Goes(t, Rest(t), task[t].seen)
        BY <1>6 DEF DoAttempt
    <2>2. status = "paid" => t \in Paying
        <3> SUFFICES ASSUME status = "paid" PROVE Pays(s, task[t].seen)
            BY DEF Paying
        <3>1. c \in A
            BY <1>1, AtCall
        <3>2. c.to \in {"paid", "seen"}
            BY <3>1, <1>6 DEF Asks, Marking, Marks, Calls, Writing, Writable
        <3>3. Marks(s[1])
            BY <1>2, <1>6, <3>2 DEF Marks
        <3>4. Len(s) = 1
            <4>1. 1 \in DOMAIN s
                BY <1>2, Replaced
            <4>2. ~ Distant(s)
                BY <3>3, <4>1 DEF Distant
            <4> QED
                BY <1>2, <3>3, <4>2 DEF Settles, Left, Marks, Hop
        <3> QED
            BY <1>2, <3>2, <3>3, <3>4 DEF Pays, Left
    <2> HIDE DEF status, i
    <2>3. Paid' \subseteq Paid \cup {i} /\ (status # "paid" => Paid' \subseteq Paid)
        <3>1. /\ DOMAIN attempt' = DOMAIN attempt
              /\ \A j \in DOMAIN attempt : j # i => attempt'[j] = attempt[j]
            BY <2>1
        <3>2. i \in DOMAIN attempt => attempt'[i].status = status
            <4>1. i \in DOMAIN attempt => attempt[i] \in [rail : Rail, status : AttemptStatus]
                BY <1>3, Replaced
            <4> QED
                BY <2>1, <4>1
        <3> QED
            BY <3>1, <3>2 DEF Paid
    <2>4. \E x : /\ task' = [task EXCEPT ![t] = x]
                 /\ Settles(x.todo, x.seen) /\ ~ Pays(x.todo, x.seen)
        <3>1. CASE Rest(t) = <<>>
            <4>1. task' = [task EXCEPT ![t] = Idle]
                BY <2>1, <3>1 DEF Goes
            <4>2. Settles(Idle.todo, Idle.seen) /\ ~ Pays(Idle.todo, Idle.seen)
                BY DEF Idle, Settles, Pays, Distant, Left
            <4> QED
                BY <4>1, <4>2
        <3>2. CASE Rest(t) # <<>>
            <4> DEFINE y == [task[t] EXCEPT !.todo = Rest(t)]
                       x == [y EXCEPT !.seen = task[t].seen]
            <4>1. task' = [task EXCEPT ![t] = x]
                BY <2>1, <3>2 DEF Goes
            <4>2. x.todo = Rest(t)
                BY DEF Inv, TasksOK, TaskRow
            <4> HIDE DEF x
            <4>3. Settles(x.todo, x.seen) /\ ~ Pays(x.todo, x.seen)
                BY <1>2, <4>2, DistantSettles
            <4> QED
                BY <4>1, <4>3
        <3> QED
            BY <3>1, <3>2
    <2>5. PICK x : /\ task' = [task EXCEPT ![t] = x]
                   /\ Settles(x.todo, x.seen) /\ ~ Pays(x.todo, x.seen)
        BY <2>4
    <2>6. task'[t] = x /\ \A u \in Tasks : u # t => task'[u] = task[u]
        BY <2>5 DEF Inv, TasksOK
    <2>7. Paying' \subseteq Paying \ {t}
        BY <2>5, <2>6 DEF Paying
    <2>8. \A u \in Tasks : Settles(task'[u].todo, task'[u].seen)
        BY <2>5, <2>6 DEF MarkedOnce
    <2>9. CASE status # "paid"
        BY <1>1, <2>3, <2>7, <2>8, <2>9 DEF MarkedOnce
    <2>10. CASE status = "paid"
        <3>1. Paid = {} /\ Paying' = {} /\ past.collected = 1
            BY <2>2, <2>7, <2>10 DEF MarkedOnce
        <3> QED
            BY <1>1, <2>3, <2>8, <3>1 DEF MarkedOnce
    <2> QED
        BY <2>9, <2>10
<1> QED
    BY <1>1, <1>4, <1>5, <1>6

(***************************************************************************)
(* Requests that arrive, the scheduler and the process                     *)
(***************************************************************************)
LEMMA ArrivalMarks ==
    ASSUME Inv, MarkedOnce, NEW t \in Tasks, Taken(t)
    PROVE  MarkedOnce'
<1>1. PICK x \in TaskRow(provider, row.kind) :
          Distant(x.todo) /\ task' = [task EXCEPT ![t] = x]
    BY DEF Taken
<1>2. x.todo \in Seq(Asks(provider, row.kind))
    BY DEF TaskRow
<1>3. Settles(x.todo, x.seen) /\ ~ Pays(x.todo, x.seen)
    BY <1>1, <1>2, DistantSettles
<1>4. Paid' = Paid /\ past'.collected = past.collected
    BY DEF Taken, Paid, Inv, Unpaid, History
<1> QED
    BY <1>1, <1>3, <1>4, MarkStep

\* No job marks an attempt, and a death leaves nobody who would.
LEMMA RunnerMarks ==
    ASSUME Inv, MarkedOnce, Claim \/ RunJob \/ Die
    PROVE  MarkedOnce'
<1>1. Paid' = Paid /\ past' = past
    BY DEF Claim, RunJob, Die, Paid
<1>2. CASE UNCHANGED task
    BY <1>1, <1>2 DEF MarkedOnce, Paying
<1>3. CASE RunJob /\ ~ batch[1].begun
    <2> DEFINE h == HandlerOf(batch[1].job)
               x == [Idle EXCEPT !.todo = h]
    <2>1. batch # <<>> /\ task' = [task EXCEPT ![Poll] = x]
        BY <1>3 DEF RunJob
    <2>2. batch[1].job \in Runnable
        <3>1. batch \in Seq(Claimed)
            BY DEF Inv, JobsOK
        <3>2. batch[1] \in Claimed
            BY <2>1, <3>1, Replaced
        <3> QED
            BY <3>2 DEF Claimed
    <2>3. h \in Seq(Asks(provider, row.kind)) /\ Distant(h)
        <3>1. h \in Seq(Calls(provider, row.kind))
            BY <2>2, HandlerCalls
        <3> QED
            BY <3>1, Unmarking
    <2>4. x.todo = h
        BY DEF Idle
    <2> HIDE DEF x, h
    <2>5. Settles(x.todo, x.seen) /\ ~ Pays(x.todo, x.seen)
        BY <2>3, <2>4, DistantSettles
    <2>6. Poll \in Tasks
        BY DEF Tasks
    <2> QED
        BY <1>1, <2>1, <2>5, <2>6, MarkStep
<1>4. CASE Die
    <2>1. \A t \in Tasks : task'[t] = Idle
        BY <1>4 DEF Die
    <2>2. Settles(Idle.todo, Idle.seen) /\ ~ Pays(Idle.todo, Idle.seen)
        BY DEF Idle, Settles, Pays, Distant, Left
    <2>3. Paying' = {}
        BY <2>1, <2>2 DEF Paying
    <2> QED
        BY <1>1, <2>1, <2>2, <2>3 DEF MarkedOnce
<1> QED
    BY <1>2, <1>3, <1>4 DEF Claim, RunJob

-----------------------------------------------------------------------------
(***************************************************************************)
(* The bounds: what is picked is no longer than what it was picked from,   *)
(***************************************************************************)
LEMMA PickedShort ==
    ASSUME NEW S, NEW s \in Seq(S), NEW I, I \subseteq DOMAIN s, NEW r \in Picks(s, I)
    PROVE  Len(r) \in Nat /\ Len(r) <= Len(s)
<1>1. DOMAIN s = 1..Len(s) /\ Len(s) \in Nat
    OBVIOUS
<1>2. IsFiniteSet(1..Len(s)) /\ Cardinality(1..Len(s)) = Len(s)
    <2>1. 0 \in Int /\ 1 \in Int /\ Len(s) \in Int
        BY <1>1
    <2>2. /\ IsFiniteSet(1..Len(s))
          /\ Cardinality(1..Len(s)) = IF 1 > Len(s) THEN 0 ELSE Len(s) - 1 + 1
        BY <2>1, FS_Interval
    <2> QED
        BY <1>1, <2>2
<1>3. Cardinality(I) \in Nat /\ Cardinality(I) <= Len(s)
    BY <1>1, <1>2, FS_Subset, FS_CardinalityType
<1>4. \E at : r = [i \in 1..Cardinality(I) |-> s[at[i]]]
    BY DEF Picks
<1>5. r \in Seq({r[i] : i \in 1..Cardinality(I)}) /\ DOMAIN r = 1..Cardinality(I)
    BY <1>3, <1>4
<1>6. Len(r) = Cardinality(I)
    BY <1>3, <1>5
<1> QED
    BY <1>3, <1>6

\* ... and so no step passes them.
LEMMA BoundsKept ==
    ASSUME Inv, MarkedOnce, Bounded, [Next]_vars
    PROVE  Bounded'
<1>0. /\ jobs \in Seq(Runnable) /\ batch \in Seq(Claimed) /\ past \in History
      /\ attempt \in Seq([rail : Rail, status : AttemptStatus])
      /\ Len(jobs) \in Nat /\ Len(attempt) \in Nat /\ Len(batch) \in Nat
    BY DEF Inv, JobsOK, Unpaid
<1>1. CASE Claim
    <2>1. UNCHANGED <<attempt, deaths, past>>
        BY <1>1 DEF Claim
    <2>2. \/ jobs' = <<>>
          \/ \E i \in DOMAIN jobs : jobs' \in Picks(jobs, DOMAIN jobs \ {i})
        BY <1>1 DEF Claim
    <2>3. Len(jobs') <= Len(jobs)
        <3>1. \A i : (DOMAIN jobs \ {i}) \subseteq DOMAIN jobs
            OBVIOUS
        <3>2. ASSUME NEW i \in DOMAIN jobs, jobs' \in Picks(jobs, DOMAIN jobs \ {i})
              PROVE  Len(jobs') <= Len(jobs)
            BY <1>0, <3>1, <3>2, PickedShort
        <3>3. CASE jobs' = <<>>
            BY <1>0, <3>3
        <3> QED
            BY <2>2, <3>2, <3>3
    <2>4. Len(jobs') \in Nat
        BY <1>0, <1>1, ClaimKeeps DEF Inv, JobsOK
    <2> QED
        BY <1>0, <2>1, <2>3, <2>4, GatewayBounds DEF Bounded
<1>2. CASE RunJob
    BY <1>2 DEF RunJob, Bounded
<1>3. CASE Die
    <2>1. /\ UNCHANGED <<attempt, past>> /\ deaths < MaxDeaths /\ deaths' = deaths + 1
          /\ Len(jobs) + Len(batch) <= MaxJobs
        BY <1>3 DEF Die
    <2>2. PICK live \in Picks(batch, Reclaimed) :
              jobs' = [i \in DOMAIN live |-> live[i].job] \o jobs
        BY <1>3 DEF Die
    <2>3. Reclaimed \subseteq DOMAIN batch
        BY DEF Reclaimed
    <2>4. live \in Seq(Claimed) /\ Len(live) <= Len(batch) /\ Len(live) \in Nat
        BY <1>0, <2>2, <2>3, Picked, PickedShort
    <2> DEFINE again == [i \in DOMAIN live |-> live[i].job]
    <2>5. again \in Seq(Runnable) /\ Len(again) = Len(live)
        <3>1. DOMAIN live = 1..Len(live)
            BY <2>4
        <3>2. ASSUME NEW i \in 1..Len(live)
              PROVE  live[i].job \in Runnable
            <4>1. live[i] \in Claimed
                BY <2>4, <3>1, <3>2, Replaced
            <4> QED
                BY <4>1 DEF Claimed
        <3>3. again \in [1..Len(live) -> Runnable]
            BY <3>1, <3>2
        <3> HIDE DEF again
        <3> QED
            BY <2>4, <3>3, SeqDef
    <2>6. jobs' = again \o jobs
        BY <2>2
    <2> HIDE DEF again
    <2>7. Len(jobs') = Len(live) + Len(jobs)
        <3>1. jobs \in Seq(Runnable)
            BY <1>0
        <3>2. Len(again \o jobs) = Len(again) + Len(jobs)
            BY <2>5, <3>1
        <3> QED
            BY <2>5, <2>6, <3>2
    <2> QED
        BY <1>0, <2>1, <2>4, <2>7, GatewayBounds DEF Bounded
<1>4. ASSUME NEW t \in Tasks, GatewayStep(t)
      PROVE  Bounded'
    <2>1. past'.requests = past.requests
        BY <1>0, <1>4 DEF GatewayStep, DoCreate, DoRead, DoMove, DoCancelGroup, DoEnqueue,
              DoFlag, DoRefund, DoRefundRequire, DoRefundTo, DoLookup, DoStore, DoAttempt,
              History
    <2>2. UNCHANGED deaths
        BY <1>4 DEF GatewayStep, DoCreate, DoRead, DoMove, DoCancelGroup, DoEnqueue,
              DoFlag, DoRefund, DoRefundRequire, DoRefundTo, DoLookup, DoStore, DoAttempt
    <2>3. Len(jobs') <= MaxJobs
        <3>1. CASE DoEnqueue(t)
            <4>1. /\ Len(jobs) < MaxJobs
                  /\ \E j : jobs' = Append(jobs, j)
                BY <3>1 DEF DoEnqueue
            <4>2. Len(jobs') = Len(jobs) + 1
                BY <1>0, <4>1
            <4> QED
                BY <1>0, <4>1, <4>2, GatewayBounds
        <3>2. CASE DoCancelGroup(t)
            <4>1. jobs' \in Picks(jobs, {i \in DOMAIN jobs : ~ OfPayment(jobs[i])})
                BY <3>2 DEF DoCancelGroup
            <4>2. {i \in DOMAIN jobs : ~ OfPayment(jobs[i])} \subseteq DOMAIN jobs
                OBVIOUS
            <4>3. Len(jobs') \in Nat /\ Len(jobs') <= Len(jobs)
                BY <1>0, <4>1, <4>2, PickedShort
            <4> QED
                BY <1>0, <4>3, GatewayBounds DEF Bounded
        <3>3. CASE UNCHANGED jobs
            BY <3>3 DEF Bounded
        <3> QED
            BY <1>4, <3>1, <3>2, <3>3 DEF GatewayStep, DoCreate, DoRead, DoMove, DoFlag,
               DoRefund, DoRefundRequire, DoRefundTo, DoLookup, DoStore, DoAttempt
    <2>4. Len(attempt') <= MaxAttempts
        <3>1. CASE UNCHANGED attempt
            BY <3>1 DEF Bounded
        <3>2. CASE \E a : attempt' = Append(attempt, a) /\ Len(attempt) < MaxAttempts
            <4>1. Len(attempt') = Len(attempt) + 1
                BY <1>0, <3>2
            <4> QED
                BY <1>0, <3>2, <4>1, GatewayBounds
        <3>3. CASE \E i, a : attempt' = [attempt EXCEPT ![i] = a]
            <4>1. Len(attempt') = Len(attempt)
                BY <1>0, <3>3
            <4> QED
                BY <4>1 DEF Bounded
        <3>4. DoAttempt(t) => \/ UNCHANGED attempt
                              \/ \E a : attempt' = Append(attempt, a) /\ Len(attempt) < MaxAttempts
                              \/ \E i, a : attempt' = [attempt EXCEPT ![i] = a]
            BY DEF DoAttempt
        <3> QED
            BY <1>4, <3>1, <3>2, <3>3, <3>4 DEF GatewayStep, DoCreate, DoRead, DoMove,
               DoCancelGroup, DoEnqueue, DoFlag, DoRefund, DoRefundRequire, DoRefundTo,
               DoLookup, DoStore
    <2> QED
        BY <2>1, <2>2, <2>3, <2>4 DEF Bounded
<1>5. ASSUME NEW t \in Callers, Route(t)
      PROVE  Bounded'
    <2>1. Taken(t)
        BY <1>5, RouteTaken
    <2>2. /\ past.requests < MaxRequests /\ past'.requests = past.requests + 1
          /\ UNCHANGED <<jobs, attempt, deaths>>
        BY <1>0, <2>1 DEF Taken, History
    <2> QED
        BY <1>0, <2>2, GatewayBounds DEF Bounded
<1>6. CASE UNCHANGED vars
    BY <1>6 DEF vars, Bounded
<1> QED
    BY <1>1, <1>2, <1>3, <1>4, <1>5, <1>6 DEF Next, GatewayNext

-----------------------------------------------------------------------------
(***************************************************************************)
(* Every step keeps the invariant and is one of the promise, or changes    *)
(* nothing of it.                                                          *)
(***************************************************************************)
LEMMA InvInit == Init => Inv /\ MarkedOnce /\ Bounded /\ Promised!PromiseInit
<1> SUFFICES ASSUME Init PROVE Inv /\ MarkedOnce /\ Bounded /\ Promised!PromiseInit
    OBVIOUS
<1>1. provider \in Providers
    BY ModelledAssumption DEF Init
<1>2. /\ row = [kind |-> "none", status |-> "created", flags |-> {}]
      /\ refund = "none" /\ jobs = <<>> /\ batch = <<>> /\ attempt = <<>>
      /\ task = [t \in Tasks |-> Idle] /\ record = "none"
      /\ past = [requests |-> 0, collected |-> 0, retried |-> FALSE, repeated |-> FALSE]
    BY DEF Init, GatewayInit
<1>3. RowOK
    BY <1>1, <1>2 DEF RowOK, Status, PaymentStatus
<1>4. RefundOK /\ JobsOK
    BY <1>2 DEF RefundOK, JobsOK
<1>5. TasksOK /\ NothingYet /\ LateAsks
    BY <1>2, IdleRow DEF TasksOK, NothingYet, LateAsks, Opens
<1>6. past \in History /\ past.collected = 0
    BY <1>2 DEF History
<1>7. Answered = "none"
    <2>1. Word(provider, row) = "none"
        BY <1>2 DEF Word
    <2> QED
        BY <2>1, Telling DEF Answered
<1>8. MarkedOnce
    <2>1. Settles(Idle.todo, Idle.seen) /\ ~ Pays(Idle.todo, Idle.seen)
        BY DEF Idle, Settles, Pays, Distant, Left
    <2>2. Paying = {} /\ Paid = {}
        BY <1>2, <2>1 DEF Paying, Paid
    <2> QED
        BY <1>2, <2>1, <2>2 DEF MarkedOnce
<1>9. Bounded
    BY <1>2, GatewayBounds DEF Bounded, Init, GatewayInit
<1> QED
    BY <1>3, <1>4, <1>5, <1>6, <1>7, <1>8, <1>9 DEF Inv, Unpaid, Promised!PromiseInit

\* Every step keeps the invariant and the promise,
LEMMA InvNext == Inv /\ MarkedOnce /\ [Next]_vars => Inv' /\ MarkedOnce' /\ Kept
<1> SUFFICES ASSUME Inv, MarkedOnce, [Next]_vars PROVE Inv' /\ MarkedOnce' /\ Kept
    OBVIOUS
<1>1. CASE Claim
    BY <1>1, ClaimKeeps, RunnerMarks
<1>2. CASE RunJob
    BY <1>2, RunJobKeeps, RunnerMarks
<1>3. CASE Die
    BY <1>3, DieKeeps, RunnerMarks
<1>4. ASSUME NEW t \in Tasks, GatewayStep(t)
      PROVE  Inv' /\ MarkedOnce' /\ Kept
    <2>1. Inv' /\ Kept
        BY <1>4, CreateKeeps, ReadKeeps, MoveKeeps, CancelKeeps, EnqueueKeeps, FlagKeeps,
           RefundKeeps, RefundToKeeps, LookupKeeps, StoreKeeps, AttemptKeeps
           DEF GatewayStep
    <2>2. MarkedOnce'
        BY <1>4, CreateMarks, MoveMarks, CancelMarks, AttemptMarks, PlainMarks
           DEF GatewayStep
    <2> QED
        BY <2>1, <2>2
<1>5. ASSUME NEW t \in Callers, Route(t)
      PROVE  Inv' /\ MarkedOnce' /\ Kept
    BY <1>5, RouteTaken, TakenKeeps, ArrivalMarks DEF Tasks
<1>6. CASE UNCHANGED vars
    <2>1. Answered' = Answered
        BY <1>6 DEF vars, Answered
    <2>2. MarkedOnce'
        BY <1>6 DEF vars, MarkedOnce, Paying, Paid
    <2> QED
        BY <1>6, <2>1, <2>2 DEF vars, Kept, Inv, RowOK, RefundOK, TasksOK, JobsOK,
                                NothingYet, Unpaid, LateAsks
<1> QED
    BY <1>1, <1>2, <1>3, <1>4, <1>5, <1>6 DEF Next, GatewayNext

\* ... and so the invariant holds throughout.
LEMMA Invariance == Spec => [](Inv /\ MarkedOnce /\ Bounded)
<1>1. Inv /\ MarkedOnce /\ Bounded /\ [Next]_vars => (Inv /\ MarkedOnce /\ Bounded)'
    BY InvNext, BoundsKept
<1> QED
    BY <1>1, InvInit, PTL DEF Spec

(***************************************************************************)
(* The adapters implement the promise, whatever the requests, the jobs and *)
(* the deaths in between: at every provider what a merchant reads of a     *)
(* payment or a payout goes from open to paid, once, to its end or back,   *)
(* as Promise says.                                                        *)
(***************************************************************************)
THEOREM PromiseIsKept == Spec => PromiseKept
<1>1. Inv /\ MarkedOnce /\ [Next]_vars => [Promised!PromiseNext]_<<Answered, past.collected>>
    BY InvNext DEF Kept
<1>2. Init => Promised!PromiseInit
    BY InvInit
<1> QED
    BY <1>1, <1>2, Invariance, PTL DEF Spec, PromiseKept, Promised!PromiseSpec

(***************************************************************************)
(* A request repeated under its key after its answer was stored finds that *)
(* answer before it creates anything (the idempotency plugin, around the   *)
(* routes that carry a key).                                               *)
(***************************************************************************)
THEOREM KeyedCreatesOnce == Spec => []KeyedOnce
<1>1. Inv => KeyedOnce
    BY DEF Inv, LateAsks, KeyedOnce
<1> QED
    BY <1>1, Invariance, PTL

(***************************************************************************)
(* Of the attempts at a QuiddPay session at most one is paid, and only if  *)
(* the payment was collected, though each is written after the payment     *)
(* moved and by whoever moved it (settleByInstrument, applyTestOutcome);   *)
(* rows, jobs and attempts keep their types.                               *)
(***************************************************************************)
THEOREM AttemptPaidOnce == Spec => []PaidAttemptOnce
<1>1. Inv /\ MarkedOnce /\ Bounded => PaidAttemptOnce
    <2> SUFFICES ASSUME Inv, MarkedOnce, Bounded PROVE PaidAttemptOnce
        OBVIOUS
    <2>1. TypeOK
        <3>1. attempt \in Seq([rail : Rail, status : AttemptStatus])
            BY DEF Inv, JobsOK
        <3>2. \A i \in DOMAIN attempt : attempt[i] \in [rail : Rail, status : AttemptStatus]
            BY <3>1, Replaced
        <3> QED
            BY <3>2 DEF Inv, RowOK, RefundOK, Unpaid, LateAsks, History, Bounded, TypeOK,
                        Markers
    <2>2. Cardinality(Paid) <= 1
        <3>1. Paid = {} \/ \E i : Paid = {i}
            BY DEF MarkedOnce
        <3>2. CASE Paid = {}
            BY <3>2, FS_EmptySet
        <3>3. CASE \E i : Paid = {i}
            <4>1. PICK i : Paid = {i}
                BY <3>3
            <4>2. Cardinality({i}) = 1
                BY FS_Singleton
            <4> QED
                BY <4>1, <4>2
        <3> QED
            BY <3>1, <3>2, <3>3
    <2> QED
        BY <2>1, <2>2 DEF PaidAttemptOnce, MarkedOnce, Paid
<1> QED
    BY <1>1, Invariance, PTL

-----------------------------------------------------------------------------
(***************************************************************************)
(* Outcomes.  A program that moves the row to "processing" next queues the *)
(* outcome or makes it, and none creates a row there.                      *)
(***************************************************************************)
Charges(c) == c.op \in Moving /\ c.to = "processing"

Decides(c) ==
    \/ c.op = "enqueue" /\ Only(c.in) = "simulate"
    \/ c.op \in {"to", "hop"} /\ c.to \in PAYMENT_TRANSITIONS["processing"]

Leads(s) ==
    \A i \in DOMAIN s :
        /\ Charges(s[i]) => i < Len(s) /\ Decides(s[i + 1])
        /\ s[i].op = "create" => s[i].to # "processing"

\* Only what has ended, or was retried after it, has its jobs cancelled.
Cancels(s) == \E i \in DOMAIN s : s[i].op = "cancelGroup"

Over ==
    /\ row.kind = "payment"
    /\ \/ past.retried
       \/ row.status \in TerminalPayment \cup {"successful", "partially_refunded"}

Tamed ==
    \A t \in Tasks : Leads(task[t].todo) /\ (Cancels(task[t].todo) => Over)

\* A charge under way is driven by a task that is about to decide it, or to
\* play its outcome, which it read or will read as what it is: "processing";
\* or by the job of its outcome, if that is still to be run.
Plays(c) == c.op = "hop" /\ (c.to = "processing" \/ Decides(c))

Drives(x) ==
    LET s == x.todo
    IN  /\ s # <<>>
        /\ \/ Decides(s[1]) /\ s[1].op # "hop"
           \/ Plays(s[1]) /\ x.seen = "processing"
           \/ s[1].op = "read" /\ Len(s) > 1 /\ Plays(s[2])

Waits ==
    \/ \E i \in DOMAIN jobs : jobs[i].kind = "simulate"
    \/ \E i \in DOMAIN batch : batch[i].job.kind = "simulate" /\ ~ batch[i].begun

Underway ==
    /\ row.kind = "payment" /\ row.status = "processing"
    /\ deaths = 0 /\ ~ past.retried

Driven ==
    provider \in DecidedByJob =>
        /\ Tamed
        /\ Underway => Waits \/ \E t \in Tasks : Drives(task[t])

\* Programs of requests and of jobs
Programs == {s \in Seq(CallOf) : Leads(s) /\ ~ Cancels(s)}

(***************************************************************************)
(* What is put together of programs is one.                                *)
(***************************************************************************)
LEMMA JoinLeads ==
    ASSUME NEW S, NEW a \in Seq(S), NEW b \in Seq(S), Leads(a), Leads(b)
    PROVE  /\ a \o b \in Seq(S) /\ Leads(a \o b)
           /\ Cancels(a \o b) => Cancels(a) \/ Cancels(b)
<1> DEFINE r == a \o b
<1>1. /\ r \in Seq(S) /\ Len(r) = Len(a) + Len(b) /\ DOMAIN r = 1..Len(r)
      /\ Len(a) \in Nat /\ Len(b) \in Nat
      /\ DOMAIN a = 1..Len(a) /\ DOMAIN b = 1..Len(b)
      /\ \A i \in 1..Len(r) : r[i] = IF i <= Len(a) THEN a[i] ELSE b[i - Len(a)]
    OBVIOUS
<1> HIDE DEF r
<1>2. ASSUME NEW i \in DOMAIN r
      PROVE  \/ i \in DOMAIN a /\ r[i] = a[i] /\ (i < Len(a) => r[i + 1] = a[i + 1])
             \/ /\ i - Len(a) \in DOMAIN b /\ r[i] = b[i - Len(a)]
                /\ i - Len(a) < Len(b) => i < Len(r) /\ r[i + 1] = b[(i - Len(a)) + 1]
    <2>1. CASE i <= Len(a)
        <3>1. i \in DOMAIN a /\ r[i] = a[i]
            BY <1>1, <2>1
        <3>2. ASSUME i < Len(a) PROVE r[i + 1] = a[i + 1]
            <4>1. i + 1 \in 1..Len(r) /\ i + 1 <= Len(a)
                BY <1>1, <3>2
            <4> QED
                BY <1>1, <4>1
        <3> QED
            BY <3>1, <3>2
    <2>2. CASE ~ (i <= Len(a))
        <3>1. i - Len(a) \in DOMAIN b /\ r[i] = b[i - Len(a)]
            BY <1>1, <2>2
        <3>2. ASSUME i - Len(a) < Len(b)
              PROVE  i < Len(r) /\ r[i + 1] = b[(i - Len(a)) + 1]
            <4>1. /\ i + 1 \in 1..Len(r) /\ ~ (i + 1 <= Len(a)) /\ i < Len(r)
                  /\ (i + 1) - Len(a) = (i - Len(a)) + 1
                BY <1>1, <2>2, <3>2
            <4> QED
                BY <1>1, <4>1
        <3> QED
            BY <3>1, <3>2
    <2> QED
        BY <2>1, <2>2
<1>3. Leads(r)
    <2> SUFFICES ASSUME NEW i \in DOMAIN r
                 PROVE  /\ Charges(r[i]) => i < Len(r) /\ Decides(r[i + 1])
                        /\ r[i].op = "create" => r[i].to # "processing"
        BY DEF Leads
    <2>1. CASE i \in DOMAIN a /\ r[i] = a[i] /\ (i < Len(a) => r[i + 1] = a[i + 1])
        <3>1. i < Len(a) => i < Len(r)
            BY <1>1
        <3> QED
            BY <2>1, <3>1 DEF Leads
    <2>2. CASE /\ i - Len(a) \in DOMAIN b /\ r[i] = b[i - Len(a)]
               /\ i - Len(a) < Len(b) => i < Len(r) /\ r[i + 1] = b[(i - Len(a)) + 1]
        BY <2>2 DEF Leads
    <2> QED
        BY <1>2, <2>1, <2>2
<1>4. Cancels(r) => Cancels(a) \/ Cancels(b)
    BY <1>2 DEF Cancels
<1> QED
    BY <1>1, <1>3, <1>4 DEF r

\* What is left of one after its first call is one; a call that charges has
\* left what decides.
LEMMA TailLeads ==
    ASSUME NEW S, NEW s \in Seq(S), s # <<>>, Leads(s)
    PROVE  /\ Tail(s) \in Seq(S) /\ Leads(Tail(s))
           /\ Cancels(Tail(s)) => Cancels(s)
           /\ Head(s) = s[1] /\ 1 \in DOMAIN s
           /\ Charges(s[1]) => Tail(s) # <<>> /\ Decides(Tail(s)[1])
           /\ Len(s) > 1 => Tail(s) # <<>> /\ Tail(s)[1] = s[2]
<1> DEFINE r == Tail(s)
<1>1. /\ r \in Seq(S) /\ Len(s) \in Nat /\ Len(s) > 0
      /\ Len(r) = Len(s) - 1
      /\ DOMAIN s = 1..Len(s) /\ DOMAIN r = 1..(Len(s) - 1)
      /\ \A i \in 1..(Len(s) - 1) : r[i] = s[i + 1]
    BY TailIs
<1>2. Head(s) = s[1]
    OBVIOUS
<1>3. Len(s) > 1 => r # <<>> /\ r[1] = s[2]
    BY SecondFirst
<1> HIDE DEF r
<1>4. 1 \in DOMAIN s
    BY <1>1
<1>5. ASSUME NEW i \in DOMAIN r
      PROVE  /\ Charges(r[i]) => i < Len(r) /\ Decides(r[i + 1])
             /\ r[i].op = "create" => r[i].to # "processing"
    <2>1. /\ i + 1 \in DOMAIN s /\ r[i] = s[i + 1]
          /\ i + 1 < Len(s) => i < Len(r) /\ i + 1 \in DOMAIN r
        BY <1>1
    <2>2. i + 1 < Len(s) => r[i + 1] = s[(i + 1) + 1]
        BY <1>1, <2>1
    <2> QED
        BY <2>1, <2>2 DEF Leads
<1>6. Cancels(r) => Cancels(s)
    <2>1. \A i \in DOMAIN r : i + 1 \in DOMAIN s /\ r[i] = s[i + 1]
        BY <1>1
    <2> QED
        BY <2>1 DEF Cancels
<1>7. Charges(s[1]) => r # <<>> /\ Decides(r[1])
    <2>1. Charges(s[1]) => 1 < Len(s) /\ Decides(s[1 + 1])
        BY <1>4 DEF Leads
    <2> QED
        BY <1>1, <1>3, <2>1
<1> QED
    BY <1>1, <1>2, <1>3, <1>4, <1>5, <1>6, <1>7 DEF Leads, r

\* Programs can be put together, and taken up after their first call.
LEMMA ProgramsJoin ==
    /\ \A a, b \in Programs : a \o b \in Programs
    /\ \A s \in Programs : s # <<>> => Tail(s) \in Programs
    /\ <<>> \in Programs
<1>1. ASSUME NEW a \in Programs, NEW b \in Programs
      PROVE  a \o b \in Programs
    BY JoinLeads DEF Programs
<1>2. ASSUME NEW s \in Programs, s # <<>>
      PROVE  Tail(s) \in Programs
    BY <1>2, TailLeads DEF Programs
<1>3. <<>> \in Programs
    BY DEF Programs, Leads, Cancels
<1> QED
    BY <1>1, <1>2, <1>3

\* A call alone is a program if it does not charge, nor creates what is charged;
LEMMA OneCall ==
    ASSUME NEW op \in Ops, NEW to \in Words, NEW in \in SUBSET (Words \cup Nat),
           op # "cancelGroup", to = "processing" => op \notin Moving \cup {"create"}
    PROVE  <<Call(op, to, in)>> \in Programs
<1> DEFINE c == Call(op, to, in)
<1>1. c \in CallOf /\ c.op = op /\ c.to = to
    BY DEF Call, CallOf
<1> HIDE DEF c
<1>2. ~ Charges(c) /\ c.op # "cancelGroup" /\ (c.op = "create" => c.to # "processing")
    BY <1>1 DEF Charges
<1>3. <<c>> \in Seq(CallOf) /\ DOMAIN <<c>> = {1} /\ <<c>>[1] = c
    BY <1>1
<1> QED
    BY <1>2, <1>3 DEF Programs, Leads, Cancels, c

\* ... and one that charges if it is followed by one that decides.
LEMMA TwoCalls ==
    ASSUME NEW op \in Moving, NEW in \in SUBSET (Words \cup Nat),
           NEW d \in CallOf, Decides(d)
    PROVE  <<Call(op, "processing", in)>> \o <<d>> \in Programs
<1> DEFINE c == Call(op, "processing", in)
           s == <<c>> \o <<d>>
<1>1. c \in CallOf /\ c.op = op
    BY KnownWords DEF Call, CallOf, Moving, Ops
<1> HIDE DEF c
<1>2. /\ s \in Seq(CallOf) /\ Len(s) = 2 /\ DOMAIN s = 1..2 /\ s[1] = c /\ s[2] = d
    BY <1>1
<1> HIDE DEF s
<1>3. ~ Charges(d) /\ d.op # "cancelGroup" /\ d.op # "create"
    <2>1. "processing" \notin PAYMENT_TRANSITIONS["processing"]
        BY DEF PAYMENT_TRANSITIONS, PaymentStatus
    <2> QED
        BY <2>1 DEF Decides, Charges, Moving
<1>4. c.op # "cancelGroup" /\ c.op # "create"
    BY <1>1 DEF Moving
<1>5. Leads(s)
    <2> SUFFICES ASSUME NEW i \in 1..2
                 PROVE  /\ Charges(s[i]) => i < 2 /\ Decides(s[i + 1])
                        /\ s[i].op = "create" => s[i].to # "processing"
        BY <1>2 DEF Leads
    <2>1. CASE i = 1
        BY <1>2, <1>4, <2>1
    <2>2. CASE i = 2
        BY <1>2, <1>3, <2>2
    <2> QED
        BY <2>1, <2>2
<1>6. ~ Cancels(s)
    BY <1>2, <1>3, <1>4 DEF Cancels
<1> QED
    BY <1>2, <1>5, <1>6 DEF Programs, s, c

\* Calls that decide a charge
LEMMA Deciding ==
    /\ \A to \in {"requires_action", "authorized", "successful", "failed", "expired"} :
          /\ Call("to", to, {}) \in CallOf /\ Decides(Call("to", to, {}))
          /\ Call("hop", to, {}) \in CallOf /\ Decides(Call("hop", to, {}))
    /\ \A o \in AllOutcomes : /\ Call("enqueue", o, {"simulate"}) \in CallOf
                              /\ Decides(Call("enqueue", o, {"simulate"}))
<1>1. ASSUME NEW to \in {"requires_action", "authorized", "successful", "failed", "expired"},
             NEW op \in {"to", "hop"}
      PROVE  Call(op, to, {}) \in CallOf /\ Decides(Call(op, to, {}))
    <2>1. to \in PAYMENT_TRANSITIONS["processing"]
        BY DEF PAYMENT_TRANSITIONS, PaymentStatus
    <2>2. to \in Words /\ op \in Ops
        BY KnownWords DEF Status, PaymentStatus, Ops
    <2> QED
        BY <2>1, <2>2 DEF Call, CallOf, Decides
<1>2. ASSUME NEW o \in AllOutcomes
      PROVE  /\ Call("enqueue", o, {"simulate"}) \in CallOf
             /\ Decides(Call("enqueue", o, {"simulate"}))
    <2> DEFINE in == {"simulate"}
    <2>1. in \in SUBSET (Words \cup Nat) /\ o \in Words /\ "enqueue" \in Ops
        BY KnownWords DEF Ops
    <2>2. Only(in) = "simulate"
        BY OnlyOne
    <2> HIDE DEF in
    <2>3. Call("enqueue", o, in) \in CallOf /\ Decides(Call("enqueue", o, in))
        BY <2>1, <2>2 DEF Call, CallOf, Decides
    <2> QED
        BY <2>3 DEF in
<1> QED
    BY <1>1, <1>2

(***************************************************************************)
(* The calls programs are made of that charge nothing                      *)
(***************************************************************************)
LEMMA PlainPrograms ==
    /\ Read \in Programs /\ Lookup \in Programs /\ Store \in Programs
    /\ Refund \in Programs
    /\ \A X \in SUBSET Words : Require(X) \in Programs /\ RefundRequire(X) \in Programs
    /\ \A f \in Words : RefundTo(f) \in Programs /\ Flag(f) \in Programs
    /\ \A s \in Words \ {"processing"} :
          /\ To(s) \in Programs /\ Unless(s) \in Programs /\ Resume(s) \in Programs
          /\ \A X \in SUBSET Words :
                Call("create", s, X) \in CallOf /\ <<Call("create", s, X)>> \in Programs
<1>1. {} \in SUBSET (Words \cup Nat) /\ SUBSET Words \subseteq SUBSET (Words \cup Nat)
    OBVIOUS
<1>2. ASSUME NEW op \in Ops \ (Moving \cup {"create", "cancelGroup"}), NEW to \in Words,
             NEW in \in SUBSET (Words \cup Nat)
      PROVE  <<Call(op, to, in)>> \in Programs
    BY OneCall
<1>3. {"read", "lookup", "store", "refund", "require", "refundRequire", "refundTo", "flag"}
          \subseteq Ops \ (Moving \cup {"create", "cancelGroup"})
    BY DEF Ops, Moving
<1>4. "any" \in Words /\ "pending" \in Words
    BY KnownWords
<1>5. /\ Read \in Programs /\ Lookup \in Programs /\ Store \in Programs
      /\ Refund \in Programs
    BY <1>1, <1>2, <1>3, <1>4 DEF Read, Lookup, Store, Refund
<1>6. ASSUME NEW X \in SUBSET Words
      PROVE  Require(X) \in Programs /\ RefundRequire(X) \in Programs
    BY <1>1, <1>2, <1>3, <1>4 DEF Require, RefundRequire
<1>7. ASSUME NEW f \in Words
      PROVE  RefundTo(f) \in Programs /\ Flag(f) \in Programs
    BY <1>1, <1>2, <1>3 DEF RefundTo, Flag
<1>8. ASSUME NEW s \in Words \ {"processing"}, NEW op \in Moving \cup {"create"},
             NEW in \in SUBSET (Words \cup Nat)
      PROVE  Call(op, s, in) \in CallOf /\ <<Call(op, s, in)>> \in Programs
    <2>1. op \in Ops /\ op # "cancelGroup"
        BY DEF Ops, Moving
    <2>2. Call(op, s, in) \in CallOf
        BY <2>1 DEF Call, CallOf
    <2> QED
        BY <2>1, <2>2, OneCall
<1>9. {"to", "hop", "resume"} \subseteq Moving
    BY DEF Moving
<1>10. ASSUME NEW s \in Words \ {"processing"}
       PROVE  /\ To(s) \in Programs /\ Unless(s) \in Programs /\ Resume(s) \in Programs
              /\ \A X \in SUBSET Words :
                    Call("create", s, X) \in CallOf /\ <<Call("create", s, X)>> \in Programs
    BY <1>1, <1>8, <1>9 DEF To, Unless, Resume
<1> QED
    BY <1>5, <1>6, <1>7, <1>10

\* Those that create a row, not yet charged
LEMMA CreatePrograms ==
    ASSUME NEW s \in {"created", "pending"}
    PROVE  /\ Create("payment", s) \in Programs /\ Create("payout", s) \in Programs
           /\ \A flags \in SUBSET Words : CreateWith(s, flags) \in Programs
<1>1. s \in Words \ {"processing"}
    BY KnownWords
<1>2. /\ {"payment"} \in SUBSET Words /\ {"payout"} \in SUBSET Words
      /\ \A flags \in SUBSET Words : {"payment"} \cup flags \in SUBSET Words
    BY KnownWords
<1> QED
    BY <1>1, <1>2, PlainPrograms DEF Create, CreateWith

\* Those that queue a job
LEMMA EnqueuePrograms ==
    ASSUME NEW kind \in {"simulate", "refund"}, NEW o \in AllOutcomes \cup RefundStatus
    PROVE  Enqueue(kind, o) \in Programs
<1> DEFINE in == {kind}
<1>1. in \in SUBSET (Words \cup Nat) /\ o \in Words
    BY KnownWords
<1>2. "enqueue" \in Ops /\ "enqueue" \notin Moving \cup {"create", "cancelGroup"}
    BY DEF Ops, Moving
<1> HIDE DEF in
<1>3. <<Call("enqueue", o, in)>> \in Programs
    BY <1>1, <1>2, OneCall
<1> QED
    BY <1>3 DEF Enqueue, in

(***************************************************************************)
(* A charge and what decides it: made, or its outcome queued               *)
(***************************************************************************)
LEMMA ChargePrograms ==
    /\ \A to \in {"requires_action", "authorized", "successful", "failed", "expired"} :
          /\ To("processing") \o To(to) \in Programs
          /\ Resume("processing") \o To(to) \in Programs
          /\ \A X \in SUBSET Words : When(X, "processing") \o To(to) \in Programs
          /\ \A a \in Programs : (a \o To("processing")) \o To(to) \in Programs
    /\ \A o \in AllOutcomes :
          /\ Resume("processing") \o Enqueue("simulate", o) \in Programs
          /\ \A s \in {"requires_action", "processing"} :
                /\ To(s) \o Enqueue("simulate", o) \in Programs
                /\ \A a \in Programs :
                      (a \o To(s)) \o Enqueue("simulate", o) \in Programs
<1>1. /\ {"to", "resume", "when"} \subseteq Moving /\ {} \in SUBSET (Words \cup Nat)
      /\ SUBSET Words \subseteq SUBSET (Words \cup Nat)
    BY DEF Moving
<1>2. ASSUME NEW s \in Words
      PROVE  To(s) \in Seq(CallOf) /\ To(s) = <<Call("to", s, {})>>
    <2>1. Call("to", s, {}) \in CallOf
        BY DEF Call, CallOf, Ops
    <2> QED
        BY <2>1 DEF To
<1>3. "processing" \in Words /\ "requires_action" \in Words \ {"processing"}
    BY KnownWords DEF Status, PaymentStatus
<1>4. ASSUME NEW to \in {"requires_action", "authorized", "successful", "failed", "expired"}
      PROVE  /\ To("processing") \o To(to) \in Programs
             /\ Resume("processing") \o To(to) \in Programs
             /\ \A X \in SUBSET Words : When(X, "processing") \o To(to) \in Programs
             /\ \A a \in Programs : (a \o To("processing")) \o To(to) \in Programs
    <2> DEFINE d == Call("to", to, {})
    <2>1. d \in CallOf /\ Decides(d) /\ To(to) = <<d>>
        BY Deciding DEF To
    <2> HIDE DEF d
    <2>2. To("processing") \o <<d>> \in Programs
        BY <1>1, <2>1, TwoCalls DEF To
    <2>3. Resume("processing") \o <<d>> \in Programs
        BY <1>1, <2>1, TwoCalls DEF Resume
    <2>4. \A X \in SUBSET Words : When(X, "processing") \o <<d>> \in Programs
        BY <1>1, <2>1, TwoCalls DEF When
    <2>5. ASSUME NEW a \in Programs
          PROVE  (a \o To("processing")) \o <<d>> \in Programs
        <3>1. a \in Seq(CallOf) /\ To("processing") \in Seq(CallOf) /\ <<d>> \in Seq(CallOf)
            BY <1>2, <1>3, <2>1 DEF Programs
        <3>2. (a \o To("processing")) \o <<d>> = a \o (To("processing") \o <<d>>)
            BY <3>1, ConcatAssociative
        <3> QED
            BY <2>2, <3>2, ProgramsJoin
    <2> QED
        BY <2>1, <2>2, <2>3, <2>4, <2>5
<1>5. ASSUME NEW o \in AllOutcomes
      PROVE  /\ Resume("processing") \o Enqueue("simulate", o) \in Programs
             /\ \A s \in {"requires_action", "processing"} :
                   /\ To(s) \o Enqueue("simulate", o) \in Programs
                   /\ \A a \in Programs :
                         (a \o To(s)) \o Enqueue("simulate", o) \in Programs
    <2> DEFINE d == Call("enqueue", o, {"simulate"})
    <2>1. d \in CallOf /\ Decides(d) /\ Enqueue("simulate", o) = <<d>>
        BY Deciding DEF Enqueue
    <2>2. <<d>> \in Programs
        BY <2>1, EnqueuePrograms
    <2> HIDE DEF d
    <2>3. Resume("processing") \o <<d>> \in Programs
        BY <1>1, <2>1, TwoCalls DEF Resume
    <2>4. ASSUME NEW s \in {"requires_action", "processing"}
          PROVE  To(s) \o <<d>> \in Programs
        <3>1. CASE s = "processing"
            BY <1>1, <2>1, <3>1, TwoCalls DEF To
        <3>2. CASE s = "requires_action"
            BY <1>3, <2>2, <3>2, PlainPrograms, ProgramsJoin
        <3> QED
            BY <3>1, <3>2
    <2>5. ASSUME NEW s \in {"requires_action", "processing"}, NEW a \in Programs
          PROVE  (a \o To(s)) \o <<d>> \in Programs
        <3>1. a \in Seq(CallOf) /\ To(s) \in Seq(CallOf) /\ <<d>> \in Seq(CallOf)
            BY <1>2, <1>3, <2>1 DEF Programs
        <3>2. (a \o To(s)) \o <<d>> = a \o (To(s) \o <<d>>)
            BY <3>1, ConcatAssociative
        <3> QED
            BY <2>4, <3>2, ProgramsJoin
    <2> QED
        BY <2>1, <2>3, <2>4, <2>5
<1> QED
    BY <1>4, <1>5

(***************************************************************************)
(* The simulator's plan is such a program, and begins with a read and a    *)
(* hop that plays an outcome; with "immediate" only its last hop is made.  *)
(***************************************************************************)
LEMMA PlanPrograms ==
    ASSUME NEW o \in AllOutcomes
    PROVE  /\ Apply(o) \in Programs
           /\ Len(Apply(o)) > 1 /\ Apply(o)[1].op = "read" /\ Plays(Apply(o)[2])
           /\ PLANS[o][Len(PLANS[o])] \in {"successful", "failed", "requires_action"}
<1> DEFINE plan == PLANS[o]
           hop(s) == Call("hop", s, {})
           hops == [i \in 1..Len(plan) |-> Call("hop", plan[i], {})]
<1>1. \/ plan = <<"processing", "successful">>
      \/ plan = <<"processing", "failed">>
      \/ plan = <<"failed">>
      \/ plan = <<"requires_action">>
      \/ plan = <<"requires_action", "failed">>
    BY DEF PLANS, AllOutcomes
<1> HIDE DEF plan
<1>2. ASSUME NEW s \in {"successful", "failed", "requires_action"}
      PROVE  /\ <<hop(s)>> \in Programs /\ hop(s) \in CallOf /\ Decides(hop(s)) /\ Plays(hop(s))
    <2>1. s \in Words \ {"processing"}
        BY KnownWords DEF Status, PaymentStatus
    <2>2. hop(s) \in CallOf /\ Decides(hop(s)) /\ hop(s).op = "hop"
        BY Deciding DEF Call
    <2> QED
        BY <2>1, <2>2, PlainPrograms DEF Unless, Plays
<1>3. Plays(hop("processing")) /\ hop("processing") \in CallOf
    BY KnownWords DEF Plays, Call, CallOf, Ops
<1>4. "hop" \in Moving /\ {} \in SUBSET (Words \cup Nat)
    BY DEF Moving
<1>5. ASSUME NEW s \in {"successful", "failed", "requires_action"}
      PROVE  /\ <<hop("processing")>> \o <<hop(s)>> \in Programs
             /\ <<hop("requires_action")>> \o <<hop(s)>> \in Programs
    <2>1. <<hop("processing")>> \o <<hop(s)>> \in Programs
        BY <1>2, <1>4, TwoCalls
    <2>2. <<hop("requires_action")>> \o <<hop(s)>> \in Programs
        BY <1>2, ProgramsJoin
    <2> QED
        BY <2>1, <2>2
<1>6. ASSUME NEW a, NEW b, plan = <<a, b>>
      PROVE  hops = <<hop(a)>> \o <<hop(b)>> /\ Len(plan) = 2 /\ plan[2] = b
    BY <1>6
<1>7. ASSUME NEW a, plan = <<a>>
      PROVE  hops = <<hop(a)>> /\ Len(plan) = 1 /\ plan[1] = a
    BY <1>7
<1> HIDE DEF hop
<1>8. /\ plan[Len(plan)] \in {"successful", "failed", "requires_action"}
      /\ hops \in Programs
      /\ \E a \in {"processing", "failed", "requires_action"} :
            \/ hops = <<hop(a)>>
            \/ \E b \in {"successful", "failed"} : hops = <<hop(a)>> \o <<hop(b)>>
    <2> HIDE DEF hops
    <2>1. CASE plan = <<"processing", "successful">>
        BY <1>5, <1>6, <2>1
    <2>2. CASE plan = <<"processing", "failed">>
        BY <1>5, <1>6, <2>2
    <2>3. CASE plan = <<"failed">>
        BY <1>2, <1>7, <2>3
    <2>4. CASE plan = <<"requires_action">>
        BY <1>2, <1>7, <2>4
    <2>5. CASE plan = <<"requires_action", "failed">>
        BY <1>5, <1>6, <2>5
    <2> QED
        BY <1>1, <2>1, <2>2, <2>3, <2>4, <2>5
<1>9. Apply(o) = Read \o hops
    BY DEF Apply, plan, hops
<1> HIDE DEF hops
<1>10. Apply(o) \in Programs
    BY <1>8, <1>9, PlainPrograms, ProgramsJoin
<1>11. Len(hops) > 0 /\ hops \in Seq(CallOf) /\ Plays(hops[1])
    <2>1. PICK a \in {"processing", "failed", "requires_action"} :
              \/ hops = <<hop(a)>>
              \/ \E b \in {"successful", "failed"} : hops = <<hop(a)>> \o <<hop(b)>>
        BY <1>8
    <2>2. Plays(hop(a))
        BY <1>2, <1>3
    <2>3. Len(hops) > 0 /\ hops[1] = hop(a)
        BY <2>1
    <2> QED
        BY <1>8, <2>2, <2>3 DEF Programs
<1>12. Len(Read \o hops) > 1 /\ (Read \o hops)[1] = Read[1] /\ (Read \o hops)[2] = hops[1]
    BY <1>11 DEF Read
<1>13. Read[1].op = "read"
    BY DEF Read, Call
<1> QED
    BY <1>8, <1>9, <1>10, <1>11, <1>12, <1>13 DEF plan

\* So is what the handler of a job does.
LEMMA HandlerPrograms ==
    ASSUME NEW j \in Runnable
    PROVE  HandlerOf(j) \in Programs
<1>1. CASE j.kind = "simulate"
    BY <1>1, PlanPrograms DEF HandlerOf, Runnable
<1> DEFINE open == {"created", "pending", "processing", "requires_action"}
<1>2. CASE j.kind = "expire"
    <2>1. open \in SUBSET Words /\ "expired" \in Words \ {"processing"}
        BY KnownWords DEF Status, PaymentStatus
    <2> HIDE DEF open
    <2>2. Require(open) \o To("expired") \in Programs
        BY <2>1, PlainPrograms, ProgramsJoin
    <2> QED
        BY <1>2, <2>2 DEF HandlerOf, open
<1>3. CASE j.kind = "settle"
    <2> DEFINE some == {"pending", "processing"}
               from == {"pending"}
    <2>1. /\ some \in SUBSET Words /\ from \in SUBSET Words
          /\ j.outcome \in {"successful", "failed"}
        BY <1>3, KnownWords DEF Runnable
    <2> HIDE DEF some, from
    <2>2. When(from, "processing") \o To(j.outcome) \in Programs
        BY <2>1, ChargePrograms
    <2>3. Require(some) \in Programs
        BY <2>1, PlainPrograms
    <2>4. /\ Require(some) \in Seq(CallOf) /\ When(from, "processing") \in Seq(CallOf)
          /\ To(j.outcome) \in Seq(CallOf)
        <3>1. /\ "processing" \in Words /\ j.outcome \in Words
              /\ from \in SUBSET (Words \cup Nat) /\ {} \in SUBSET (Words \cup Nat)
            BY <2>1, KnownWords
        <3>2. /\ Call("when", "processing", from) \in CallOf
              /\ Call("to", j.outcome, {}) \in CallOf
            BY <3>1 DEF Call, CallOf, Ops
        <3> QED
            BY <2>3, <3>2 DEF When, To, Programs
    <2>5. (Require(some) \o When(from, "processing")) \o To(j.outcome) =
              Require(some) \o (When(from, "processing") \o To(j.outcome))
        BY <2>4, ConcatAssociative
    <2>6. (Require(some) \o When(from, "processing")) \o To(j.outcome) \in Programs
        BY <2>2, <2>3, <2>5, ProgramsJoin
    <2> QED
        BY <1>3, <2>6 DEF HandlerOf, some, from
<1>4. CASE j.kind = "refund"
    <2> DEFINE from == {"pending"}
    <2>1. from \in SUBSET Words /\ "processing" \in Words /\ j.outcome \in Words
        BY KnownWords DEF Runnable
    <2> HIDE DEF from
    <2>2. (RefundRequire(from) \o RefundTo("processing")) \o RefundTo(j.outcome) \in Programs
        BY <2>1, PlainPrograms, ProgramsJoin
    <2> QED
        BY <1>4, <2>2 DEF HandlerOf, from
<1> QED
    BY <1>1, <1>2, <1>3, <1>4 DEF Runnable

-----------------------------------------------------------------------------
\* A request that is taken up with such a program
Begins(t) ==
    /\ Free(t)
    /\ \E x : x.todo \in Programs /\ task' = [task EXCEPT ![t] = x]
    /\ past'.retried = past.retried
    /\ UNCHANGED <<provider, row, jobs, batch, deaths>>

(***************************************************************************)
(* However a request is served, it begins a program.                       *)
(***************************************************************************)
LEMMA ServeBegins ==
    ASSUME Inv, NEW t, NEW s \in Programs
    PROVE  /\ Serve(t, s) => Begins(t)
           /\ ServeKeyed(t, s) => Begins(t)
           /\ ServeNew(t, s) => Begins(t)
           /\ \A kind : ServeOn(kind, t, s) => Begins(t)
           /\ \A S : ServeIn(S, t, s) => Begins(t)
           /\ s # <<>> /\ ServeRead(t, s) => Begins(t)
<1> DEFINE given == [Idle EXCEPT !.todo = s]
<1>1. given.todo = s /\ DOMAIN given = {"todo", "seen", "note", "late"}
    BY DEF Idle
<1>2. ASSUME past' = [past EXCEPT !.requests = @ + 1] PROVE past'.retried = past.retried
    BY <1>2 DEF Inv, Unpaid, History
<1>3. ASSUME NEW u \in Programs, Serve(t, u) PROVE Begins(t)
    <2> DEFINE y == [Idle EXCEPT !.todo = u]
               x == [y EXCEPT !.seen = row.status]
    <2>1. y.todo = u
        BY DEF Idle
    <2> HIDE DEF y
    <2>2. x.todo = u
        BY <2>1
    <2>3. task' = [task EXCEPT ![t] = x]
        BY <1>3 DEF Serve, y
    <2> HIDE DEF x
    <2> QED
        BY <1>2, <1>3, <2>2, <2>3 DEF Serve, Begins
<1>4. ASSUME ServeKeyed(t, s) PROVE Begins(t)
    <2> DEFINE x == [given EXCEPT !.late = (record = "stored")]
    <2>1. x.todo = s
        <3> HIDE DEF given
        <3> QED
            BY <1>1
    <2>2. task' = [task EXCEPT ![t] = x]
        BY <1>4 DEF ServeKeyed
    <2> HIDE DEF x
    <2> QED
        BY <1>2, <1>4, <2>1, <2>2 DEF ServeKeyed, Begins
<1>5. ASSUME NEW kind, ServeOn(kind, t, s) PROVE Begins(t)
    BY <1>3, <1>5 DEF ServeOn
<1>6. ASSUME NEW S, ServeIn(S, t, s) PROVE Begins(t)
    BY <1>5, <1>6 DEF ServeIn
<1>7. ASSUME s # <<>>, ServeRead(t, s) PROVE Begins(t)
    <2>1. Tail(s) \in Programs
        BY <1>7, ProgramsJoin
    <2>2. Serve(t, s) \/ Serve(t, Tail(s))
        BY <1>7 DEF ServeRead, ServeOn
    <2> QED
        BY <1>3, <2>1, <2>2
<1>8. ServeNew(t, s) => Begins(t)
    BY <1>3 DEF ServeNew
<1> QED
    BY <1>3, <1>4, <1>5, <1>6, <1>7, <1>8

\* What joins two programs is not empty if one of them is not.
LEMMA JoinsSome ==
    /\ \A s \in Programs : Read \o s # <<>>
    /\ \A a, b \in Programs : a # <<>> => a \o b # <<>>
<1>1. ASSUME NEW a \in Programs, NEW b \in Programs, a # <<>> PROVE a \o b # <<>>
    BY <1>1, Joined DEF Programs
<1>2. Read # <<>>
    BY DEF Read
<1> QED
    BY <1>1, <1>2, PlainPrograms

(***************************************************************************)
(* Every route of Paystack begins a program.                               *)
(***************************************************************************)
LEMMA PaystackBegins ==
    ASSUME Inv, NEW t \in Callers, PaystackRoute(t)
    PROVE  Begins(t)
<1>0. "pending" \in {"created", "pending"}
    OBVIOUS
<1>1. CASE PaystackInitialize(t)
    <2> DEFINE m == CreateWith("pending", {"expires", "fresh"})
    <2>1. m \in Programs
        BY <1>0, Named, CreatePrograms
    <2> HIDE DEF m
    <2>2. WithKey(m) \in Programs
        BY <2>1, PlainPrograms, ProgramsJoin DEF WithKey
    <2> QED
        BY <1>1, <2>1, <2>2, ServeBegins DEF PaystackInitialize, m
<1>2. CASE PaystackSubmitPin(t)
    BY <1>2, Named, PlanPrograms, ServeBegins DEF PaystackSubmitPin
<1>3. CASE PaystackTransfer(t)
    BY <1>0, <1>3, CreatePrograms, ServeBegins DEF PaystackTransfer
<1>4. ASSUME NEW right \in BOOLEAN, PaystackSubmitOtp(t, right)
      PROVE  Begins(t)
    <2> DEFINE o == IF right THEN "success" ELSE "authentication_failed"
    <2>1. Apply(o) \in Programs
        BY Named, PlanPrograms
    <2> HIDE DEF o
    <2> QED
        BY <1>4, <2>1, ServeBegins DEF PaystackSubmitOtp, o
<1>5. ASSUME NEW o \in Outcomes, PaystackCharge(t, o)
      PROVE  Begins(t)
    <2> DEFINE m == CreateWith("pending", {"expires"})
    <2>1. m \in Programs
        BY <1>0, Named, CreatePrograms
    <2>2. PICK s \in {"requires_action", "processing"} :
              ServeNew(t, (m \o To(s)) \o Enqueue("simulate", o))
        BY <1>5 DEF PaystackCharge
    <2> HIDE DEF m
    <2>3. (m \o To(s)) \o Enqueue("simulate", o) \in Programs
        BY <2>1, Named, ChargePrograms
    <2> QED
        BY <2>2, <2>3, ServeBegins
<1>6. ASSUME NEW o \in Outcomes, chargeStoredAuthorization(t, o)
      PROVE  Begins(t)
    <2>1. Create("payment", "pending") \o Apply(o) \in Programs
        BY <1>0, Named, CreatePrograms, PlanPrograms, ProgramsJoin
    <2> QED
        BY <1>6, <2>1, ServeBegins DEF chargeStoredAuthorization
<1>7. ASSUME NEW o \in Outcomes, PaystackPay(t, o)
      PROVE  Begins(t)
    <2>1. PICK s \in {"requires_action", "processing"} :
              ServeOn("payment", t, To(s) \o Enqueue("simulate", o))
        BY <1>7 DEF PaystackPay
    <2>2. To(s) \o Enqueue("simulate", o) \in Programs
        BY Named, ChargePrograms
    <2> QED
        BY <2>1, <2>2, ServeBegins
<1>8. ASSUME NEW outcome \in RefundOutcome, PaystackRefund(t, outcome)
      PROVE  Begins(t)
    <2>1. outcome \in RefundStatus
        BY DEF RefundOutcome, RefundStatus
    <2>2. Refund \o Enqueue("refund", outcome) \in Programs
        BY <2>1, PlainPrograms, EnqueuePrograms, ProgramsJoin
    <2> QED
        BY <1>8, <2>2, ServeBegins DEF PaystackRefund
<1>9. ASSUME NEW outcome \in RefundOutcome, PaystackRetryRefund(t, outcome)
      PROVE  Begins(t)
    <2> DEFINE to == IF outcome = "failed" THEN "failed" ELSE "successful"
    <2>1. to \in Words /\ "processing" \in Words
        BY KnownWords
    <2> HIDE DEF to
    <2>2. RefundTo("processing") \o RefundTo(to) \in Programs
        BY <2>1, PlainPrograms, ProgramsJoin
    <2> QED
        BY <1>9, <2>2, ServeBegins DEF PaystackRetryRefund, to
<1> QED
    BY <1>1, <1>2, <1>3, <1>4, <1>5, <1>6, <1>7, <1>8, <1>9 DEF PaystackRoute

\* A confirmation decides the charge it makes.
LEMMA ConfirmPrograms ==
    ASSUME NEW manual, NEW o \in Outcomes
    PROVE  confirmPayment(manual, o) \in Programs
<1>1. /\ Resume("processing") \o To("authorized") \in Programs
      /\ Resume("processing") \o Enqueue("simulate", o) \in Programs
    BY Named, ChargePrograms
<1> QED
    BY <1>1 DEF confirmPayment

(***************************************************************************)
(* Every route of Stripe does.                                             *)
(***************************************************************************)
LEMMA StripeBegins ==
    ASSUME Inv, NEW t \in Callers, StripeRoute(t)
    PROVE  Begins(t)
<1>0. /\ "pending" \in {"created", "pending"} /\ "created" \in {"created", "pending"}
      /\ {"pending", "cancelled", "expired", "authorized", "successful"}
            \subseteq Words \ {"processing"}
    BY KnownWords, Named
<1>1. CASE StripeCapture(t)
    <2> DEFINE in == {"authorized"}
    <2>1. in \in SUBSET Words
        BY <1>0
    <2> HIDE DEF in
    <2>2. (Require(in) \o To("processing")) \o To("successful") \in Programs
        BY <2>1, PlainPrograms, ChargePrograms
    <2>3. capture \in Programs
        BY <2>2 DEF capture, in
    <2> QED
        BY <1>1, <2>3, ServeBegins DEF StripeCapture
<1>2. CASE StripeCancel(t)
    BY <1>0, <1>2, PlainPrograms, ServeBegins DEF StripeCancel
<1>3. CASE StripeSession(t)
    BY <1>0, <1>3, Named, CreatePrograms, ServeBegins DEF StripeSession
<1>4. CASE StripeExpireSession(t)
    BY <1>0, <1>4, PlainPrograms, ServeBegins DEF StripeExpireSession
<1>5. CASE StripeRefund(t)
    <2>1. Refund \o RefundTo("successful") \in Programs
        BY <1>0, PlainPrograms, ProgramsJoin
    <2> QED
        BY <1>5, <2>1, ServeBegins DEF StripeRefund
<1>6. ASSUME NEW o \in Outcomes, StripeConfirm(t, o)
      PROVE  Begins(t)
    <2> DEFINE confirm == confirmPayment("manual" \in row.flags, o)
    <2>1. PICK details \in {Resume("pending"), <<>>} :
              ServeRead(t, (details \o Read) \o confirm)
        BY <1>6 DEF StripeConfirm
    <2>2. details \in Programs /\ Read \in Programs
        BY <1>0, PlainPrograms, ProgramsJoin
    <2>3. confirm \in Programs
        BY ConfirmPrograms
    <2> HIDE DEF confirm
    <2>4. (details \o Read) \o confirm \in Programs
        BY <2>2, <2>3, ProgramsJoin
    <2>5. (details \o Read) \o confirm # <<>>
        BY <2>2, <2>3, DetailsRead, JoinsSome, ProgramsJoin
    <2> QED
        BY <2>1, <2>4, <2>5, ServeBegins
<1>7. ASSUME NEW o \in Outcomes, StripeCharge(t, o)
      PROVE  Begins(t)
    <2> DEFINE m == Create("payment", "pending")
               again == IF o = "authentication_required"
                        THEN Apply("authentication_failed") ELSE <<>>
    <2>1. m \in Programs
        BY <1>0, CreatePrograms
    <2>2. again \in Programs /\ Apply(o) \in Programs
        BY Named, PlanPrograms, ProgramsJoin
    <2>3. \/ ServeNew(t, (m \o Apply(o)) \o again)
          \/ ServeNew(t, (m \o To("processing")) \o To("authorized"))
        BY <1>7 DEF StripeCharge
    <2> HIDE DEF m, again
    <2>4. (m \o Apply(o)) \o again \in Programs
        BY <2>1, <2>2, ProgramsJoin
    <2>5. (m \o To("processing")) \o To("authorized") \in Programs
        BY <2>1, ChargePrograms
    <2> QED
        BY <2>3, <2>4, <2>5, ServeBegins
<1>8. ASSUME NEW o \in Outcomes, StripePaySession(t, o)
      PROVE  Begins(t)
    <2> DEFINE last(subscribes) == IF subscribes THEN Flag("subscribed") ELSE <<>>
               confirm == confirmPayment(FALSE, o)
    <2>1. PICK subscribes \in BOOLEAN :
              ServeOn("payment", t,
                  ((To("pending") \o Read) \o confirm) \o last(subscribes))
        BY <1>8 DEF StripePaySession
    <2>2. last(subscribes) \in Programs
        BY KnownWords, PlainPrograms, ProgramsJoin
    <2>3. confirm \in Programs
        BY ConfirmPrograms
    <2> HIDE DEF last, confirm
    <2>4. ((To("pending") \o Read) \o confirm) \o last(subscribes) \in Programs
        BY <1>0, <2>2, <2>3, PlainPrograms, ProgramsJoin
    <2> QED
        BY <2>1, <2>4, ServeBegins
<1>9. ASSUME NEW manual \in BOOLEAN, StripeCreateIntent(t, manual)
      PROVE  Begins(t)
    <2> DEFINE flags == IF manual THEN {"manual"} ELSE {}
               new  == CreateWith("created", flags)
               paid == new \o To("pending")
    <2>1. PICK program \in {new, paid} \cup {paid \o confirmPayment(manual, o) : o \in Outcomes} :
              ServeNew(t, program)
        BY <1>9 DEF StripeCreateIntent
    <2>2. new \in Programs
        <3>1. flags \in SUBSET Words
            BY Named
        <3> HIDE DEF flags
        <3> QED
            BY <1>0, <3>1, CreatePrograms
    <2> HIDE DEF new
    <2>3. paid \in Programs
        BY <1>0, <2>2, PlainPrograms, ProgramsJoin
    <2> HIDE DEF paid
    <2>4. program \in Programs
        BY <2>1, <2>2, <2>3, ConfirmPrograms, ProgramsJoin
    <2> QED
        BY <2>1, <2>4, ServeBegins
<1> QED
    BY <1>1, <1>2, <1>3, <1>4, <1>5, <1>6, <1>7, <1>8, <1>9 DEF StripeRoute

(***************************************************************************)
(* Every route of the control API does.                                    *)
(***************************************************************************)
LEMMA HostBegins ==
    ASSUME Inv, NEW t \in Callers, HostRoute(t)
    PROVE  Begins(t)
<1>0. {"cancelled", "expired", "authorized", "successful", "failed", "requires_action"}
          \subseteq Words \ {"processing"}
    BY KnownWords, Named
<1>1. CASE HostCapture(t)
    BY <1>1, ChargePrograms, ServeBegins DEF HostCapture
<1>2. CASE HostRefund(t)
    <2>1. Refund \in Programs /\ Refund \o RefundTo("successful") \in Programs
        BY <1>0, PlainPrograms, ProgramsJoin
    <2> QED
        BY <1>2, <2>1, ServeBegins DEF HostRefund
<1>3. ASSUME NEW o \in Outcomes, HostSimulate(t, o)
      PROVE  Begins(t)
    <2> DEFINE last == PLANS[o][Len(PLANS[o])]
    <2>1. /\ Apply(o) \in Programs /\ Apply(o) # <<>>
          /\ last \in {"successful", "failed", "requires_action"}
        <3>1. Len(Apply(o)) > 1 => Apply(o) # <<>>
            OBVIOUS
        <3> QED
            BY <3>1, Named, PlanPrograms
    <2>2. ServeRead(t, Apply(o)) \/ ServeRead(t, Read \o Unless(last))
        BY <1>3 DEF HostSimulate
    <2> HIDE DEF last
    <2>3. Unless(last) \in Programs
        BY <1>0, <2>1, PlainPrograms
    <2>4. Read \o Unless(last) \in Programs /\ Read \o Unless(last) # <<>>
        BY <2>3, PlainPrograms, ProgramsJoin, JoinsSome
    <2> QED
        BY <2>1, <2>2, <2>4, ServeBegins
<1>4. ASSUME NEW s \in {"cancelled", "expired", "authorized"}, HostMove(t, s)
      PROVE  Begins(t)
    BY <1>0, <1>4, PlainPrograms, ServeBegins DEF HostMove
<1>5. ASSUME NEW approved \in BOOLEAN, HostAuthenticate(t, approved)
      PROVE  Begins(t)
    <2> DEFINE o == IF approved THEN "success" ELSE "authentication_failed"
    <2>1. Apply(o) \in Programs
        BY Named, PlanPrograms
    <2> HIDE DEF o
    <2> QED
        BY <1>5, <2>1, ServeBegins DEF HostAuthenticate, o
<1>6. ASSUME NEW s \in {"successful", "failed"}, HostSettleTransfer(t, s)
      PROVE  Begins(t)
    BY <1>6, ChargePrograms, ServeBegins DEF HostSettleTransfer
<1> QED
    BY <1>1, <1>2, <1>3, <1>4, <1>5, <1>6 DEF HostRoute

-----------------------------------------------------------------------------
(***************************************************************************)
(* A task that turns to what keeps the rules keeps them for all.           *)
(***************************************************************************)
LEMMA TurnTamed ==
    ASSUME Inv, Tamed, NEW t \in Tasks, NEW x, task' = [task EXCEPT ![t] = x],
           Leads(x.todo), Cancels(x.todo) => Over', Over => Over'
    PROVE  Tamed'
<1>1. \A u \in Tasks : task'[u] = IF u = t THEN x ELSE task[u]
    BY DEF Inv, TasksOK
<1> QED
    BY <1>1 DEF Tamed

(***************************************************************************)
(* While a task that turns to something else goes on driving what it       *)
(* drove, and no job is lost, the charge is driven.                        *)
(***************************************************************************)
LEMMA TurnDrives ==
    ASSUME Inv, NEW t \in Tasks, NEW x, task' = [task EXCEPT ![t] = x],
           Drives(task[t]) => Drives(x), Waits => Waits',
           Waits \/ \E u \in Tasks : Drives(task[u])
    PROVE  Waits' \/ \E u \in Tasks : Drives(task'[u])
<1>1. \A u \in Tasks : task'[u] = IF u = t THEN x ELSE task[u]
    BY DEF Inv, TasksOK
<1> QED
    BY <1>1

\* What an idle task keeps
LEMMA IdleRests ==
    Idle.todo = <<>> /\ Leads(Idle.todo) /\ ~ Cancels(Idle.todo) /\ ~ Drives(Idle)
BY DEF Idle, Leads, Cancels, Drives

\* A task that goes on, or stops, turns.
LEMMA GoesOnTo ==
    ASSUME Inv, NEW t \in Tasks, NEW rest, NEW seen
    PROVE  /\ Goes(t, rest, seen) =>
                \E x : /\ task' = [task EXCEPT ![t] = x] /\ x.todo = rest
                       /\ rest # <<>> => x.seen = seen
           /\ Stops(t) => \E x : task' = [task EXCEPT ![t] = x] /\ x.todo = <<>>
<1>1. ASSUME Goes(t, rest, seen), rest # <<>>
      PROVE  \E x : /\ task' = [task EXCEPT ![t] = x] /\ x.todo = rest
                    /\ rest # <<>> => x.seen = seen
    <2> DEFINE y == [task[t] EXCEPT !.todo = rest]
               x == [y EXCEPT !.seen = seen]
    <2>1. task' = [task EXCEPT ![t] = x]
        BY <1>1 DEF Goes
    <2>2. task[t] \in TaskRow(provider, row.kind)
        BY DEF Inv, TasksOK
    <2>3. y.todo = rest /\ DOMAIN y = {"todo", "seen", "note", "late"}
        BY <2>2 DEF TaskRow
    <2> HIDE DEF y
    <2>4. x.todo = rest /\ x.seen = seen
        BY <2>3
    <2> HIDE DEF x
    <2> QED
        BY <2>1, <2>4
<1>2. ASSUME Goes(t, rest, seen), rest = <<>>
      PROVE  \E x : /\ task' = [task EXCEPT ![t] = x] /\ x.todo = rest
                    /\ rest # <<>> => x.seen = seen
    BY <1>2, IdleRests DEF Goes
<1>3. ASSUME Stops(t)
      PROVE  \E x : task' = [task EXCEPT ![t] = x] /\ x.todo = <<>>
    BY <1>3, IdleRests DEF Stops
<1> QED
    BY <1>1, <1>2, <1>3

(***************************************************************************)
(* The call a task is at, and what it leaves                               *)
(***************************************************************************)
LEMMA AtDriven ==
    ASSUME Inv, Tamed, NEW t \in Tasks, ~ Free(t)
    PROVE  /\ Current(t) \in CallOf /\ Rest(t) \in Seq(CallOf)
           /\ Leads(Rest(t)) /\ (Cancels(Rest(t)) => Over)
           /\ Current(t).op = "cancelGroup" => Over
           /\ Current(t).op = "create" => Current(t).to # "processing"
           /\ Charges(Current(t)) => Rest(t) # <<>> /\ Decides(Rest(t)[1])
           /\ Drives(task[t]) =>
                 \/ Decides(Current(t)) /\ Current(t).op # "hop"
                 \/ Plays(Current(t)) /\ task[t].seen = "processing"
                 \/ Current(t).op = "read" /\ Rest(t) # <<>> /\ Plays(Rest(t)[1])
<1> DEFINE s == task[t].todo
<1>1. s \in Seq(CallOf) /\ s # <<>>
    <2>1. s \in Seq(Asks(provider, row.kind))
        BY DEF Inv, TasksOK, TaskRow
    <2>2. Asks(provider, row.kind) \subseteq CallOf
        BY DEF Asks, Calls, Marking
    <2>3. s \in Seq(CallOf)
        BY <2>1, <2>2
    <2> QED
        BY <2>3 DEF Free
<1>2. Leads(s) /\ (Cancels(s) => Over)
    BY DEF Tamed
<1>3. Drives(task[t]) => \/ Decides(s[1]) /\ s[1].op # "hop"
                         \/ Plays(s[1]) /\ task[t].seen = "processing"
                         \/ s[1].op = "read" /\ Len(s) > 1 /\ Plays(s[2])
    BY DEF Drives
<1> HIDE DEF s
<1>4. /\ Tail(s) \in Seq(CallOf) /\ Leads(Tail(s))
      /\ Cancels(Tail(s)) => Cancels(s)
      /\ Head(s) = s[1] /\ 1 \in DOMAIN s
      /\ Charges(s[1]) => Tail(s) # <<>> /\ Decides(Tail(s)[1])
      /\ Len(s) > 1 => Tail(s) # <<>> /\ Tail(s)[1] = s[2]
    BY <1>1, <1>2, TailLeads
<1>5. s[1] \in CallOf
    BY <1>1, <1>4
<1>6. s[1].op = "cancelGroup" => Over
    BY <1>2, <1>4 DEF Cancels
<1>7. s[1].op = "create" => s[1].to # "processing"
    BY <1>2, <1>4 DEF Leads
<1>8. Current(t) = s[1] /\ Rest(t) = Tail(s)
    BY <1>4 DEF Current, Rest, s
<1> QED
    BY <1>2, <1>3, <1>4, <1>5, <1>6, <1>7, <1>8

(***************************************************************************)
(* A call that neither reads, moves nor queues keeps a charge driven; all  *)
(* it may do to the row is to mark it, or to give it back.                 *)
(***************************************************************************)
LEMMA PlainDriven ==
    ASSUME Inv, Driven, NEW t \in Tasks, ~ Free(t),
           Current(t).op \notin {"to", "hop", "read", "enqueue"},
           NEW x, task' = [task EXCEPT ![t] = x], x.todo \in {Rest(t), <<>>},
           row'.kind = row.kind, row'.status \in {row.status, "refunded"},
           past'.retried = past.retried, UNCHANGED <<provider, jobs, batch, deaths>>
    PROVE  Driven'
<1> SUFFICES ASSUME provider \in DecidedByJob
             PROVE  /\ Tamed'
                    /\ Underway' => Waits' \/ \E u \in Tasks : Drives(task'[u])
    BY DEF Driven
<1>1. Tamed /\ (Underway => Waits \/ \E u \in Tasks : Drives(task[u]))
    BY DEF Driven
<1>2. Over => Over'
    BY DEF Over, TerminalPayment
<1>3. Leads(x.todo) /\ (Cancels(x.todo) => Over)
    <2>1. Leads(<<>>) /\ ~ Cancels(<<>>)
        BY DEF Leads, Cancels
    <2> QED
        BY <1>1, <2>1, AtDriven
<1>4. Tamed'
    BY <1>1, <1>2, <1>3, TurnTamed
<1>5. ~ Drives(task[t])
    BY <1>1, AtDriven DEF Decides, Plays
<1>6. ASSUME Underway' PROVE Underway
    BY <1>6 DEF Underway
<1>7. Waits => Waits'
    BY DEF Waits
<1> QED
    BY <1>1, <1>4, <1>5, <1>6, <1>7, TurnDrives

\* Those calls, but for the one that creates the row
LEMMA PlainDrive ==
    ASSUME Inv, Driven, NEW t \in Tasks,
           \/ DoFlag(t) \/ DoRefund(t) \/ DoRefundRequire(t) \/ DoRefundTo(t)
           \/ DoLookup(t) \/ DoStore(t) \/ DoAttempt(t)
    PROVE  Driven'
<1>1. RowOK
    BY DEF Inv
<1>2. CASE DoFlag(t) \/ DoRefundTo(t)
    <2>1. /\ ~ Free(t) /\ Current(t).op \in {"flag", "refundTo"}
          /\ UNCHANGED <<provider, jobs, batch, deaths, past>>
          /\ Goes(t, Rest(t), task[t].seen) \/ Stops(t)
        BY <1>2 DEF DoFlag, DoRefundTo, At
    <2>2. row'.kind = row.kind /\ row'.status \in {row.status, "refunded"}
        BY <1>1, <1>2 DEF DoFlag, DoRefundTo, RowOK
    <2>3. \E x : task' = [task EXCEPT ![t] = x] /\ x.todo \in {Rest(t), <<>>}
        BY <2>1, GoesOnTo
    <2> QED
        BY <2>1, <2>2, <2>3, PlainDriven
<1>3. CASE DoRefund(t) \/ DoRefundRequire(t) \/ DoLookup(t) \/ DoStore(t)
    <2>1. /\ ~ Free(t)
          /\ Current(t).op \in {"refund", "refundRequire", "lookup", "store"}
          /\ UNCHANGED <<provider, row, jobs, batch, deaths, past>>
          /\ Goes(t, Rest(t), task[t].seen) \/ Stops(t)
        BY <1>3 DEF DoRefund, DoRefundRequire, DoLookup, DoStore, At
    <2>2. \E x : task' = [task EXCEPT ![t] = x] /\ x.todo \in {Rest(t), <<>>}
        BY <2>1, GoesOnTo
    <2> QED
        BY <2>1, <2>2, PlainDriven
<1>4. CASE DoAttempt(t)
    <2>1. /\ ~ Free(t) /\ Current(t).op \in {"nonePending", "begin", "put"}
          /\ UNCHANGED <<provider, row, jobs, batch, deaths, past>>
        BY <1>4 DEF DoAttempt
    <2>2. \E x : task' = [task EXCEPT ![t] = x] /\ x.todo \in {Rest(t), <<>>}
        <3>1. CASE Goes(t, Rest(t), task[t].seen) \/ Stops(t)
            BY <3>1, GoesOnTo
        <3>2. CASE task' = [task EXCEPT ![t] =
                       IF Rest(t) = <<>> THEN Idle
                       ELSE [@ EXCEPT !.todo = Rest(t), !.note = Len(attempt')]]
            <4>1. CASE Rest(t) = <<>>
                BY <3>2, <4>1, IdleRests
            <4>2. CASE Rest(t) # <<>>
                <5> DEFINE y == [task[t] EXCEPT !.todo = Rest(t)]
                           x == [y EXCEPT !.note = Len(attempt')]
                <5>1. task' = [task EXCEPT ![t] = x]
                    BY <3>2, <4>2
                <5>2. task[t] \in TaskRow(provider, row.kind)
                    BY DEF Inv, TasksOK
                <5>3. y.todo = Rest(t) /\ DOMAIN y = {"todo", "seen", "note", "late"}
                    BY <5>2 DEF TaskRow
                <5> HIDE DEF y
                <5>4. x.todo = Rest(t)
                    BY <5>3
                <5> HIDE DEF x
                <5> QED
                    BY <5>1, <5>4
            <4> QED
                BY <4>1, <4>2
        <3> QED
            BY <1>4, <3>1, <3>2 DEF DoAttempt
    <2> QED
        BY <2>1, <2>2, PlainDriven
<1> QED
    BY <1>2, <1>3, <1>4

(***************************************************************************)
(* The row is created as one that is not charged.                          *)
(***************************************************************************)
LEMMA CreateDrives ==
    ASSUME Inv, Driven, NEW t \in Tasks, DoCreate(t)
    PROVE  Driven'
<1> SUFFICES ASSUME provider \in DecidedByJob PROVE Driven'
    BY DEF Driven, DoCreate
<1> DEFINE c     == Current(t)
           kind  == IF "payout" \in c.in THEN "payout" ELSE "payment"
           again == IF "expires" \in c.in THEN Enqueue("expire", "expired") ELSE <<>>
           kept  == IF \E i \in DOMAIN Rest(t) : Rest(t)[i].op = "store"
                    THEN Store ELSE <<>>
           made  == [past EXCEPT !.repeated = @ \/ task[t].late]
<1>1. /\ ~ Free(t) /\ c.op = "create"
      /\ UNCHANGED <<provider, refund, jobs, batch, record, attempt, deaths>>
    BY DEF DoCreate, At
<1>2. Tamed /\ (Underway => Waits \/ \E u \in Tasks : Drives(task[u]))
    BY DEF Driven
<1>3. /\ c.to # "processing" /\ Rest(t) \in Seq(CallOf)
      /\ Leads(Rest(t)) /\ (Cancels(Rest(t)) => Over) /\ ~ Drives(task[t])
    BY <1>1, <1>2, AtDriven DEF Decides, Plays
<1>4. made.retried = past.retried
    BY DEF Inv, Unpaid, History
<1>5. Enqueue("expire", "expired") \in Programs
    <2> DEFINE in == {"expire"}
    <2>1. in \in SUBSET (Words \cup Nat) /\ "expired" \in Words
        BY KnownWords
    <2>2. "enqueue" \in Ops /\ "enqueue" \notin Moving \cup {"create", "cancelGroup"}
        BY DEF Ops, Moving
    <2> HIDE DEF in
    <2>3. <<Call("enqueue", "expired", in)>> \in Programs
        BY <2>1, <2>2, OneCall
    <2> QED
        BY <2>3 DEF Enqueue, in
<1>6. again \in Programs /\ kept \in Programs /\ <<>> \in Programs
    BY <1>5, PlainPrograms, ProgramsJoin
<1>7. \/ Goes(t, Rest(t), row.status) /\ UNCHANGED <<row, past>>
      \/ Goes(t, kept, c.to) /\ past' = made /\ UNCHANGED row
      \/ Stops(t) /\ UNCHANGED <<row, past>>
      \/ /\ row.kind = "none"
         /\ row' = [kind |-> kind, status |-> c.to, flags |-> c.in \cap {"manual"}]
         /\ Goes(t, again \o Rest(t), c.to) /\ past' = made
    BY DEF DoCreate
<1> HIDE DEF c, kind, again, kept, made
<1>8. ASSUME UNCHANGED row, past'.retried = past.retried, NEW x,
             task' = [task EXCEPT ![t] = x], Leads(x.todo), Cancels(x.todo) => Over
      PROVE  Driven'
    <2>1. Over => Over'
        BY <1>8 DEF Over
    <2>2. Tamed'
        BY <1>2, <1>8, <2>1, TurnTamed
    <2>3. Underway' => Underway
        BY <1>1, <1>8 DEF Underway
    <2>4. Waits => Waits'
        BY <1>1 DEF Waits
    <2>5. Underway' => Waits' \/ \E u \in Tasks : Drives(task'[u])
        BY <1>2, <1>3, <1>8, <2>3, <2>4, TurnDrives
    <2> QED
        BY <2>2, <2>5 DEF Driven
<1>9. CASE Goes(t, Rest(t), row.status) /\ UNCHANGED <<row, past>>
    BY <1>3, <1>8, <1>9, GoesOnTo
<1>10. CASE Goes(t, kept, c.to) /\ past' = made /\ UNCHANGED row
    <2>1. Leads(kept) /\ ~ Cancels(kept)
        BY <1>6 DEF Programs
    <2> QED
        BY <1>4, <1>8, <1>10, <2>1, GoesOnTo
<1>11. CASE Stops(t) /\ UNCHANGED <<row, past>>
    BY <1>8, <1>11, GoesOnTo, IdleRests
<1>12. CASE /\ row.kind = "none"
            /\ row' = [kind |-> kind, status |-> c.to, flags |-> c.in \cap {"manual"}]
            /\ Goes(t, again \o Rest(t), c.to) /\ past' = made
    <2>1. ~ Over /\ ~ Underway'
        BY <1>3, <1>12 DEF Over, Underway
    <2>2. Leads(again \o Rest(t)) /\ ~ Cancels(again \o Rest(t))
        BY <1>3, <1>6, <2>1, JoinLeads DEF Programs
    <2>3. Tamed'
        BY <1>2, <1>12, <2>1, <2>2, GoesOnTo, TurnTamed
    <2> QED
        BY <2>1, <2>3 DEF Driven
<1> QED
    BY <1>7, <1>9, <1>10, <1>11, <1>12

(***************************************************************************)
(* A handler that reads the row before it plays an outcome drives it on.   *)
(***************************************************************************)
LEMMA ReadDrives ==
    ASSUME Inv, Driven, NEW t \in Tasks, DoRead(t)
    PROVE  Driven'
<1> SUFFICES ASSUME provider \in DecidedByJob PROVE Driven'
    BY DEF Driven, DoRead
<1>1. /\ ~ Free(t) /\ Current(t).op \in {"read", "require"}
      /\ UNCHANGED <<provider, row, jobs, batch, deaths, past>>
    BY DEF DoRead, At
<1>2. Tamed /\ (Underway => Waits \/ \E u \in Tasks : Drives(task[u]))
    BY DEF Driven
<1>3. /\ Leads(Rest(t)) /\ (Cancels(Rest(t)) => Over)
      /\ Drives(task[t]) => /\ Current(t).op = "read"
                            /\ Rest(t) # <<>> /\ Plays(Rest(t)[1])
    BY <1>1, <1>2, AtDriven DEF Decides, Plays
<1>4. PICK x : /\ task' = [task EXCEPT ![t] = x] /\ x.todo \in {Rest(t), <<>>}
               /\ Current(t).op = "read" => x.todo = Rest(t)
               /\ Current(t).op = "read" /\ Rest(t) # <<>> => x.seen = row.status
    <2>1. CASE Goes(t, Rest(t), row.status)
        BY <2>1, GoesOnTo
    <2>2. CASE Current(t).op # "read" /\ Stops(t)
        BY <2>2, GoesOnTo
    <2> QED
        BY <2>1, <2>2 DEF DoRead
<1>5. (Over => Over') /\ (Underway' => Underway) /\ (Waits => Waits')
    BY <1>1 DEF Over, Underway, Waits
<1>6. Leads(x.todo) /\ (Cancels(x.todo) => Over)
    <2>1. Leads(<<>>) /\ ~ Cancels(<<>>)
        BY DEF Leads, Cancels
    <2> QED
        BY <1>3, <1>4, <2>1
<1>7. Tamed'
    BY <1>2, <1>4, <1>5, <1>6, TurnTamed
<1>8. ASSUME Underway' PROVE Waits' \/ \E u \in Tasks : Drives(task'[u])
    <2>1. row.status = "processing"
        BY <1>5, <1>8 DEF Underway
    <2>2. Drives(task[t]) => Drives(x)
        BY <1>3, <1>4, <2>1 DEF Drives
    <2> QED
        BY <1>2, <1>4, <1>5, <1>8, <2>2, TurnDrives
<1> QED
    BY <1>7, <1>8 DEF Driven

(***************************************************************************)
(* A transition.  One to "processing" leaves its task the charge to drive; *)
(* one that decides the charge takes it out of there.                      *)
(***************************************************************************)
LEMMA MoveDrives ==
    ASSUME Inv, Driven, NEW t \in Tasks, DoMove(t)
    PROVE  Driven'
<1> SUFFICES ASSUME provider \in DecidedByJob PROVE Driven'
    BY DEF Driven, DoMove
<1> DEFINE c == Current(t)
           retry == c.op = "resume" /\ task[t].seen = "failed"
           done == \/ c.op = "hop" /\ task[t].seen = c.to
                   \/ c.op = "when" /\ task[t].seen \notin c.in
<1>1. /\ ~ Free(t) /\ c.op \in Moving
      /\ UNCHANGED <<provider, refund, jobs, batch, record, attempt, deaths>>
    BY DEF DoMove, Moving
<1>2. Tamed /\ (Underway => Waits \/ \E u \in Tasks : Drives(task[u]))
    BY DEF Driven
<1>3. /\ Rest(t) \in Seq(CallOf) /\ Leads(Rest(t)) /\ (Cancels(Rest(t)) => Over)
      /\ Charges(c) => Rest(t) # <<>> /\ Decides(Rest(t)[1])
      /\ Drives(task[t]) => \/ Decides(c) /\ c.op # "hop"
                            \/ Plays(c) /\ task[t].seen = "processing"
    BY <1>1, <1>2, AtDriven DEF Moving
<1>4. Waits => Waits'
    BY <1>1 DEF Waits
<1>5. /\ "processing" \in PaymentStatus /\ retry \in BOOLEAN
      /\ \A to \in PAYMENT_TRANSITIONS["processing"] : to # "processing"
    BY DEF PaymentStatus, PAYMENT_TRANSITIONS
<1>6. RowOK /\ past \in History
    BY DEF Inv, Unpaid
\* The hop was made already, or is not to be made.
<1>7. CASE done
    <2>1. UNCHANGED <<row, past>> /\ Goes(t, Rest(t), task[t].seen)
        BY <1>7 DEF DoMove
    <2>2. PICK x : /\ task' = [task EXCEPT ![t] = x] /\ x.todo = Rest(t)
                   /\ Rest(t) # <<>> => x.seen = task[t].seen
        BY <2>1, GoesOnTo
    <2>3. (Over => Over') /\ (Underway' => Underway)
        BY <1>1, <2>1 DEF Over, Underway
    <2>4. Tamed'
        BY <1>2, <1>3, <2>2, <2>3, TurnTamed
    <2>5. Drives(task[t]) => Drives(x)
        <3> SUFFICES ASSUME Drives(task[t]) PROVE Drives(x)
            OBVIOUS
        <3>1. c.op = "hop" /\ task[t].seen = "processing" /\ c.to = "processing"
            BY <1>3, <1>7 DEF Decides, Plays
        <3>2. Rest(t) # <<>> /\ Decides(Rest(t)[1])
            BY <1>3, <3>1 DEF Charges, Moving
        <3> QED
            BY <2>2, <3>1, <3>2 DEF Drives, Plays
    <2>6. Underway' => Waits' \/ \E u \in Tasks : Drives(task'[u])
        BY <1>2, <1>4, <2>2, <2>3, <2>5, TurnDrives
    <2> QED
        BY <2>4, <2>6 DEF Driven
\* It is refused, which a charge under way does not do to what decides it.
<1>8. CASE ~ done /\ ~ Legal(c.to, retry)
    <2>1. UNCHANGED <<row, past>> /\ Stops(t)
        BY <1>8 DEF DoMove
    <2>2. PICK x : task' = [task EXCEPT ![t] = x] /\ x.todo = <<>>
        BY <2>1, GoesOnTo
    <2>3. (Over => Over') /\ (Underway' => Underway)
        BY <1>1, <2>1 DEF Over, Underway
    <2>4. Leads(<<>>) /\ ~ Cancels(<<>>)
        BY DEF Leads, Cancels
    <2>5. Tamed'
        BY <1>2, <2>2, <2>3, <2>4, TurnTamed
    <2>6. Underway => ~ Drives(task[t])
        <3> SUFFICES ASSUME Underway, Drives(task[t]) PROVE FALSE
            OBVIOUS
        <3>1. c.to \in PAYMENT_TRANSITIONS["processing"]
            BY <1>1, <1>3, <1>8 DEF Decides, Plays, Moving
        <3>2. Legal(c.to, retry)
            BY <1>5, <3>1 DEF Underway, Legal, assertPaymentTransition,
               canTransitionPayment
        <3> QED
            BY <1>8, <3>2
    <2>7. Underway' => Waits' \/ \E u \in Tasks : Drives(task'[u])
        BY <1>2, <1>4, <2>2, <2>3, <2>6, TurnDrives
    <2> QED
        BY <2>5, <2>7 DEF Driven
<1>9. CASE ~ done /\ Legal(c.to, retry)
    <2>1. /\ row' = [row EXCEPT !.status = c.to]
          /\ Goes(t, Cleanup(c.to) \o Rest(t), c.to)
          /\ past' = [past EXCEPT
                        !.collected = IF c.to = "successful" THEN @ + 1 ELSE @,
                        !.retried = @ \/ row.status = "failed"]
        BY <1>9 DEF DoMove
    <2> HIDE DEF retry, done
    <2>2. row'.kind = row.kind /\ row'.status = c.to
        BY <1>6, <2>1 DEF RowOK
    <2>3. past'.retried = (past.retried \/ row.status = "failed")
        <3> DEFINE p == [past EXCEPT !.collected = IF c.to = "successful" THEN @ + 1 ELSE @]
        <3>1. p.retried = past.retried /\ DOMAIN p = DOMAIN past
            BY <1>6 DEF History
        <3>2. past' = [p EXCEPT !.retried = @ \/ row.status = "failed"]
            BY <2>1
        <3> HIDE DEF p
        <3> QED
            BY <1>6, <3>1, <3>2 DEF History
    <2>4. ASSUME row.kind = "payment"
          PROVE  /\ row.status \in PaymentStatus
                 /\ \/ c.to \in PAYMENT_TRANSITIONS[row.status]
                    \/ row.status = "failed"
        BY <1>6, <1>9, <2>4 DEF RowOK, Legal, assertPaymentTransition, canTransitionPayment
    <2>5. Over => Over'
        <3> SUFFICES ASSUME Over, ~ past.retried, row.status # "failed"
                     PROVE  c.to \in TerminalPayment \cup {"successful", "partially_refunded"}
            BY <2>2, <2>3 DEF Over
        <3>1. /\ c.to \in PAYMENT_TRANSITIONS[row.status] /\ row.status \in PaymentStatus
              /\ row.status \in TerminalPayment \cup {"successful", "partially_refunded"}
            BY <2>4 DEF Over
        <3> QED
            BY <3>1 DEF PAYMENT_TRANSITIONS, PaymentStatus, TerminalPayment
    <2> DEFINE rest == Cleanup(c.to) \o Rest(t)
    <2>6. /\ Cleanup(c.to) \in Seq(CallOf) /\ Leads(Cleanup(c.to))
          /\ Cancels(Cleanup(c.to)) => Over'
          /\ c.to = "processing" => Cleanup(c.to) = <<>>
        <3> DEFINE g == Call("cancelGroup", "any", {})
        <3>1. g \in CallOf /\ g.op = "cancelGroup"
            BY KnownWords DEF Call, CallOf, Ops
        <3> HIDE DEF g
        <3>2. <<g>> \in Seq(CallOf) /\ Leads(<<g>>)
            BY <3>1 DEF Leads, Charges, Moving
        <3>3. <<>> \in Seq(CallOf) /\ Leads(<<>>) /\ ~ Cancels(<<>>)
            BY DEF Leads, Cancels
        <3>4. \/ Cleanup(c.to) = <<>>
              \/ /\ Cleanup(c.to) = <<g>> /\ row.kind = "payment"
                 /\ c.to \in TerminalPayment \cup {"successful"}
            BY DEF Cleanup, g
        <3>5. "processing" \notin TerminalPayment \cup {"successful"}
            BY DEF TerminalPayment
        <3> QED
            BY <2>2, <3>2, <3>3, <3>4, <3>5 DEF Over
    <2>7. Leads(rest) /\ (Cancels(rest) => Over')
        BY <1>3, <2>5, <2>6, JoinLeads
    <2>11. Goes(t, rest, c.to)
        BY <2>1
    <2> HIDE DEF rest
    <2>8. PICK x : /\ task' = [task EXCEPT ![t] = x] /\ x.todo = rest
                   /\ rest # <<>> => x.seen = c.to
        BY <2>11, GoesOnTo
    <2>9. Tamed'
        BY <1>2, <2>5, <2>7, <2>8, TurnTamed
    <2>10. ASSUME Underway' PROVE \E u \in Tasks : Drives(task'[u])
        <3>1. c.to = "processing"
            BY <2>2, <2>10 DEF Underway
        <3>2. Rest(t) # <<>> /\ Decides(Rest(t)[1])
            BY <1>1, <1>3, <3>1 DEF Charges
        <3>3. rest = Rest(t)
            BY <1>3, <2>6, <3>1 DEF rest
        <3>4. Drives(x)
            BY <2>8, <3>1, <3>2, <3>3 DEF Drives, Plays
        <3>5. task'[t] = x
            BY <2>8 DEF Inv, TasksOK
        <3> QED
            BY <3>4, <3>5
    <2> QED
        BY <2>9, <2>10 DEF Driven
<1> QED
    BY <1>7, <1>8, <1>9

(***************************************************************************)
(* The outcome is queued.                                                  *)
(***************************************************************************)
LEMMA EnqueueDrives ==
    ASSUME Inv, Driven, NEW t \in Tasks, DoEnqueue(t)
    PROVE  Driven'
<1> SUFFICES ASSUME provider \in DecidedByJob PROVE Driven'
    BY DEF Driven, DoEnqueue
<1> DEFINE j == Queued(Only(Current(t).in), Current(t).to)
<1>1. /\ ~ Free(t) /\ Current(t).op = "enqueue"
      /\ UNCHANGED <<provider, row, batch, deaths, past>>
      /\ Goes(t, Rest(t), task[t].seen)
      /\ jobs' = Append(jobs, j)
    BY DEF DoEnqueue, At
<1>2. Tamed /\ (Underway => Waits \/ \E u \in Tasks : Drives(task[u]))
    BY DEF Driven
<1>3. /\ Leads(Rest(t)) /\ (Cancels(Rest(t)) => Over)
      /\ Drives(task[t]) => j.kind = "simulate"
    BY <1>1, <1>2, AtDriven DEF Decides, Plays, Queued
<1> HIDE DEF j
<1>4. PICK x : task' = [task EXCEPT ![t] = x] /\ x.todo = Rest(t)
    BY <1>1, GoesOnTo
<1>5. (Over => Over') /\ (Underway' => Underway)
    BY <1>1 DEF Over, Underway
<1>6. Tamed'
    BY <1>2, <1>3, <1>4, <1>5, TurnTamed
<1>7. /\ DOMAIN jobs' = 1..(Len(jobs) + 1) /\ Len(jobs) \in Nat
      /\ DOMAIN jobs = 1..Len(jobs)
      /\ jobs'[Len(jobs) + 1] = j
      /\ \A i \in DOMAIN jobs : jobs'[i] = jobs[i]
    <2>1. jobs \in Seq(Runnable)
        BY DEF Inv, JobsOK
    <2>2. jobs \in Seq(Runnable \cup {j})
        BY <2>1
    <2> QED
        BY <1>1, <2>1, <2>2
<1>8. Waits => Waits'
    <2>1. \A i \in DOMAIN jobs : i \in DOMAIN jobs'
        BY <1>7
    <2> QED
        BY <1>1, <1>7, <2>1 DEF Waits
<1>9. j.kind = "simulate" => Waits'
    <2>1. Len(jobs) + 1 \in DOMAIN jobs'
        BY <1>7
    <2> QED
        BY <1>7, <2>1 DEF Waits
<1>10. ASSUME Underway' PROVE Waits' \/ \E u \in Tasks : Drives(task'[u])
    <2>1. CASE Drives(task[t])
        BY <1>3, <1>9, <2>1
    <2>2. CASE ~ Drives(task[t])
        BY <1>2, <1>4, <1>5, <1>8, <1>10, <2>2, TurnDrives
    <2> QED
        BY <2>1, <2>2
<1> QED
    BY <1>6, <1>10 DEF Driven

(***************************************************************************)
(* What is cancelled is over: no charge is under way.                      *)
(***************************************************************************)
LEMMA CancelDrives ==
    ASSUME Inv, Driven, NEW t \in Tasks, DoCancelGroup(t)
    PROVE  Driven'
<1> SUFFICES ASSUME provider \in DecidedByJob PROVE Driven'
    BY DEF Driven, DoCancelGroup
<1>1. /\ ~ Free(t) /\ Current(t).op = "cancelGroup"
      /\ UNCHANGED <<provider, row, deaths, past>>
      /\ Goes(t, Rest(t), task[t].seen)
    BY DEF DoCancelGroup, At
<1>2. Tamed
    BY DEF Driven
<1>3. Over /\ Leads(Rest(t))
    BY <1>1, <1>2, AtDriven
<1>4. PICK x : task' = [task EXCEPT ![t] = x] /\ x.todo = Rest(t)
    BY <1>1, GoesOnTo
<1>5. Over' /\ ~ Underway'
    BY <1>1, <1>3 DEF Over, Underway, TerminalPayment
<1>6. Tamed'
    BY <1>2, <1>3, <1>4, <1>5, TurnTamed
<1> QED
    BY <1>5, <1>6 DEF Driven

(***************************************************************************)
(* A request that begins drives nothing yet.                               *)
(***************************************************************************)
LEMMA BeginsDrives ==
    ASSUME Inv, Driven, NEW t \in Tasks, Begins(t)
    PROVE  Driven'
<1> SUFFICES ASSUME provider \in DecidedByJob PROVE Driven'
    BY DEF Driven, Begins
<1>1. PICK x : x.todo \in Programs /\ task' = [task EXCEPT ![t] = x]
    BY DEF Begins
<1>2. Tamed /\ (Underway => Waits \/ \E u \in Tasks : Drives(task[u]))
    BY DEF Driven
<1>3. (Over => Over') /\ (Underway' => Underway) /\ (Waits => Waits')
    BY DEF Begins, Over, Underway, Waits
<1>4. Tamed'
    BY <1>1, <1>2, <1>3, TurnTamed DEF Programs
<1>5. ~ Drives(task[t])
    BY DEF Begins, Free, Drives
<1>6. Underway' => Waits' \/ \E u \in Tasks : Drives(task'[u])
    BY <1>1, <1>2, <1>3, <1>5, TurnDrives
<1> QED
    BY <1>4, <1>6 DEF Driven

(***************************************************************************)
(* What is picked from a sequence has every member at a position of I.     *)
(***************************************************************************)
LEMMA PickedAll ==
    ASSUME NEW S, NEW s \in Seq(S), NEW I, I \subseteq DOMAIN s, NEW r \in Picks(s, I),
           NEW k \in I
    PROVE  \E i \in DOMAIN r : r[i] = s[k]
<1> DEFINE n == Cardinality(I)
<1>1. IsFiniteSet(I)
    <2>1. DOMAIN s = 1..Len(s) /\ Len(s) \in Nat
        OBVIOUS
    <2>2. IsFiniteSet(1..Len(s))
        BY <2>1, FS_Interval
    <2> QED
        BY <2>1, <2>2, FS_Subset
<1>2. n \in Nat
    BY <1>1, FS_CardinalityType
<1>3. PICK at \in [1..n -> I] :
          /\ \A i, j \in 1..n : i < j => at[i] < at[j]
          /\ r = [i \in 1..n |-> s[at[i]]]
    BY DEF Picks
<1>4. \E i \in 1..n : at[i] = k
    <2> SUFFICES ASSUME \A i \in 1..n : at[i] # k PROVE FALSE
        OBVIOUS
    <2>1. IsFiniteSet(I \ {k}) /\ Cardinality(I \ {k}) = n - 1
        BY <1>1, FS_RemoveElement
    <2>2. IsFiniteSet(1..n) /\ Cardinality(1..n) = n
        <3>1. 1 \in Int /\ n \in Int
            BY <1>2
        <3>2. /\ IsFiniteSet(1..n)
              /\ Cardinality(1..n) = IF 1 > n THEN 0 ELSE n - 1 + 1
            BY <3>1, FS_Interval
        <3> QED
            BY <1>2, <3>2
    <2> HIDE DEF n
    <2>3. at \in [1..n -> I \ {k}]
        BY <1>3
    <2>4. n - 1 < n
        BY <1>2
    <2>5. \E i, j \in 1..n : i # j /\ at[i] = at[j]
        BY <2>1, <2>2, <2>3, <2>4, FS_PigeonHole
    <2>6. PICK i \in 1..n, j \in 1..n : i # j /\ at[i] = at[j]
        BY <2>5
    <2>7. I \subseteq Nat
        <3>1. DOMAIN s = 1..Len(s)
            OBVIOUS
        <3> QED
            BY <3>1
    <2>8. at[i] \in Nat /\ at[j] \in Nat
        BY <1>3, <2>7
    <2>9. i < j \/ j < i
        BY <1>2, <2>6
    <2> QED
        BY <1>3, <2>6, <2>8, <2>9
<1> QED
    BY <1>3, <1>4

(***************************************************************************)
(* A job that is claimed is still to be run; one that is run drives.       *)
(***************************************************************************)
LEMMA ClaimDrives ==
    ASSUME Inv, Driven, Claim
    PROVE  Driven'
<1> DEFINE claimed(s) == [i \in DOMAIN s |->
                            [job |-> s[i], cancelled |-> FALSE, begun |-> FALSE]]
<1>1. UNCHANGED <<provider, row, task, deaths, past>> /\ batch = <<>>
    BY DEF Claim
<1>2. jobs \in Seq(Runnable)
    BY DEF Inv, JobsOK
<1>3. /\ Tamed' <=> Tamed
      /\ Underway' <=> Underway
      /\ (\E u \in Tasks : Drives(task'[u])) <=> (\E u \in Tasks : Drives(task[u]))
    BY <1>1 DEF Tamed, Over, Underway
<1>4. ASSUME Waits PROVE Waits'
    <2>1. PICK k \in DOMAIN jobs : jobs[k].kind = "simulate"
        BY <1>1, <1>4 DEF Waits
    <2>2. \A s : DOMAIN claimed(s) = DOMAIN s
        OBVIOUS
    <2>3. \A s : \A i \in DOMAIN s : claimed(s)[i].job = s[i] /\ claimed(s)[i].begun = FALSE
        OBVIOUS
    <2>4. \/ \E i \in DOMAIN jobs : /\ batch' = claimed(<<jobs[i]>>)
                                    /\ jobs' \in Picks(jobs, DOMAIN jobs \ {i})
          \/ batch' = claimed(jobs)
        BY DEF Claim
    <2> HIDE DEF claimed
    <2>5. CASE batch' = claimed(jobs)
        BY <2>1, <2>2, <2>3, <2>5 DEF Waits
    <2>6. CASE \E i \in DOMAIN jobs : /\ batch' = claimed(<<jobs[i]>>)
                                      /\ jobs' \in Picks(jobs, DOMAIN jobs \ {i})
        <3>1. PICK i \in DOMAIN jobs : /\ batch' = claimed(<<jobs[i]>>)
                                       /\ jobs' \in Picks(jobs, DOMAIN jobs \ {i})
            BY <2>6
        <3>2. CASE k = i
            <4> DEFINE one == <<jobs[i]>>
            <4>1. 1 \in DOMAIN one /\ one[1] = jobs[k]
                BY <3>2
            <4> HIDE DEF one
            <4>2. batch' = claimed(one)
                BY <3>1 DEF one
            <4>3. 1 \in DOMAIN batch' /\ batch'[1].job = jobs[k] /\ batch'[1].begun = FALSE
                BY <2>2, <2>3, <4>1, <4>2
            <4> QED
                BY <2>1, <4>3 DEF Waits
        <3>3. CASE k # i
            <4>1. k \in DOMAIN jobs \ {i} /\ (DOMAIN jobs \ {i}) \subseteq DOMAIN jobs
                BY <3>3
            <4>2. \E l \in DOMAIN jobs' : jobs'[l] = jobs[k]
                BY <1>2, <3>1, <4>1, PickedAll
            <4> QED
                BY <2>1, <4>2 DEF Waits
        <3> QED
            BY <3>2, <3>3
    <2> QED
        BY <2>4, <2>5, <2>6
<1> QED
    BY <1>1, <1>3, <1>4 DEF Driven

(***************************************************************************)
(* The job of an outcome, begun, is the handler that will play it          *)
(* (simulator.apply); one that was run leaves the batch.                   *)
(***************************************************************************)
LEMMA RunJobDrives ==
    ASSUME Inv, Driven, RunJob
    PROVE  Driven'
<1> SUFFICES ASSUME provider \in DecidedByJob PROVE Driven'
    BY DEF Driven, RunJob
<1>1. UNCHANGED <<provider, row, jobs, deaths, past>> /\ batch # <<>> /\ Free(Poll)
    BY DEF RunJob
<1>2. Tamed /\ (Underway => Waits \/ \E u \in Tasks : Drives(task[u]))
    BY DEF Driven
<1>3. batch \in Seq(Claimed) /\ Poll \in Tasks
    BY DEF Inv, JobsOK, Tasks
<1>4. (Over => Over') /\ (Underway' => Underway)
    BY <1>1 DEF Over, Underway
<1>5. ~ Drives(task[Poll])
    BY <1>1 DEF Free, Drives
<1>6. CASE batch[1].begun
    <2>1. batch' = Tail(batch) /\ UNCHANGED task
        BY <1>6 DEF RunJob
    <2>2. Waits => Waits'
        <3> SUFFICES ASSUME NEW i \in DOMAIN batch, batch[i].job.kind = "simulate",
                            ~ batch[i].begun
                     PROVE  Waits'
            BY <1>1 DEF Waits
        <3>1. /\ Len(batch) \in Nat /\ DOMAIN batch = 1..Len(batch)
              /\ DOMAIN batch' = 1..(Len(batch) - 1)
              /\ \A l \in 1..(Len(batch) - 1) : batch'[l] = batch[l + 1]
            BY <1>1, <1>3, <2>1, TailIs
        <3>2. i # 1
            BY <1>6
        <3>3. /\ i - 1 \in DOMAIN batch' /\ i - 1 \in 1..(Len(batch) - 1)
              /\ (i - 1) + 1 = i
            BY <3>1, <3>2
        <3>4. batch'[i - 1] = batch[i]
            BY <3>1, <3>3
        <3> QED
            BY <3>3, <3>4 DEF Waits
    <2>3. Tamed'
        BY <1>2, <1>4, <2>1 DEF Tamed
    <2> QED
        BY <1>2, <1>4, <2>1, <2>2, <2>3 DEF Driven
<1>7. CASE ~ batch[1].begun
    <2> DEFINE x == [Idle EXCEPT !.todo = HandlerOf(batch[1].job)]
    <2>1. /\ batch' = [batch EXCEPT ![1].begun = TRUE]
          /\ task' = [task EXCEPT ![Poll] = x]
        BY <1>7 DEF RunJob
    <2>2. x.todo = HandlerOf(batch[1].job)
        BY DEF Idle
    <2>3. batch[1].job \in Runnable
        <3>1. 1 \in DOMAIN batch
            BY <1>1, <1>3
        <3>2. batch[1] \in Claimed
            BY <1>3, <3>1
        <3> QED
            BY <3>2 DEF Claimed
    <2> HIDE DEF x
    <2>4. x.todo \in Programs
        BY <2>2, <2>3, HandlerPrograms
    <2>5. Tamed'
        BY <1>2, <1>3, <1>4, <2>1, <2>4, TurnTamed DEF Programs
    <2>6. batch[1].job.kind = "simulate" => Drives(x)
        <3> SUFFICES ASSUME batch[1].job.kind = "simulate" PROVE Drives(x)
            OBVIOUS
        <3>1. /\ x.todo = Apply(batch[1].job.outcome)
              /\ batch[1].job.outcome \in AllOutcomes
            BY <2>2, <2>3 DEF HandlerOf, Runnable
        <3>2. Len(x.todo) > 1 /\ x.todo[1].op = "read" /\ Plays(x.todo[2])
            BY <3>1, PlanPrograms
        <3>3. x.todo # <<>>
            BY <3>2
        <3> QED
            BY <3>2, <3>3 DEF Drives
    <2>7. task'[Poll] = x
        BY <1>3, <2>1 DEF Inv, TasksOK
    <2>8. ASSUME Waits PROVE Waits' \/ Drives(task'[Poll])
        <3>1. CASE \E i \in DOMAIN jobs : jobs[i].kind = "simulate"
            BY <1>1, <3>1 DEF Waits
        <3>2. CASE \E i \in DOMAIN batch : batch[i].job.kind = "simulate" /\ ~ batch[i].begun
            <4>1. PICK i \in DOMAIN batch : batch[i].job.kind = "simulate" /\ ~ batch[i].begun
                BY <3>2
            <4>2. CASE i = 1
                BY <2>6, <2>7, <4>1, <4>2
            <4>3. CASE i # 1
                <5>1. i \in DOMAIN batch' /\ batch'[i] = batch[i]
                    BY <2>1, <4>3
                <5> QED
                    BY <4>1, <5>1 DEF Waits
            <4> QED
                BY <4>2, <4>3
        <3> QED
            BY <2>8, <3>1, <3>2 DEF Waits
    <2>9. ASSUME Underway' PROVE Waits' \/ \E u \in Tasks : Drives(task'[u])
        <3>1. CASE Waits
            BY <1>3, <2>8, <3>1
        <3>2. CASE \E u \in Tasks : Drives(task[u])
            <4>1. PICK u \in Tasks : Drives(task[u])
                BY <3>2
            <4>2. task'[u] = task[u]
                BY <1>5, <2>1, <4>1 DEF Inv, TasksOK
            <4> QED
                BY <4>1, <4>2
        <3> QED
            BY <1>2, <1>4, <2>9, <3>1, <3>2
    <2> QED
        BY <2>5, <2>9 DEF Driven
<1> QED
    BY <1>6, <1>7

(***************************************************************************)
(* Before the row is created there is no charge to drive.                  *)
(***************************************************************************)
LEMMA DrivenInit == Init => Driven
<1> SUFFICES ASSUME Init PROVE Driven
    OBVIOUS
<1>1. row.kind = "none" /\ task = [t \in Tasks |-> Idle]
    BY DEF Init, GatewayInit
<1> QED
    BY <1>1, IdleRests DEF Driven, Tamed, Underway

(***************************************************************************)
(* Every step keeps charges driven; of a charge whose process died nothing *)
(* is said.                                                                *)
(***************************************************************************)
LEMMA DrivenNext == Inv /\ MarkedOnce /\ Bounded /\ Driven /\ [Next]_vars => Driven'
<1> SUFFICES ASSUME Inv, MarkedOnce, Bounded, Driven, [Next]_vars PROVE Driven'
    OBVIOUS
<1>1. CASE Claim
    BY <1>1, ClaimDrives
<1>2. CASE RunJob
    BY <1>2, RunJobDrives
<1>3. CASE Die
    <2>1. task' = [t \in Tasks |-> Idle] /\ deaths' = deaths + 1 /\ deaths \in Nat
        BY <1>3 DEF Die, Bounded
    <2>2. ~ Underway'
        BY <2>1 DEF Underway
    <2>3. Tamed'
        BY <2>1, IdleRests DEF Tamed
    <2> QED
        BY <2>2, <2>3 DEF Driven
<1>4. ASSUME NEW t \in Tasks, GatewayStep(t)
      PROVE  Driven'
    BY <1>4, CreateDrives, ReadDrives, MoveDrives, CancelDrives, EnqueueDrives, PlainDrive
       DEF GatewayStep
<1>5. ASSUME NEW t \in Callers, Route(t)
      PROVE  Driven'
    <2>1. CASE provider \in DecidedByJob
        <3>1. Begins(t)
            BY <1>5, <2>1, PaystackBegins, StripeBegins, HostBegins DEF Route, DecidedByJob
        <3> QED
            BY <3>1, BeginsDrives DEF Tasks
    <2>2. CASE provider \notin DecidedByJob
        BY <1>5, <2>2, RouteTaken DEF Taken, Driven
    <2> QED
        BY <2>1, <2>2
<1>6. CASE UNCHANGED vars
    BY <1>6 DEF vars, Driven, Tamed, Over, Underway, Waits
<1> QED
    BY <1>1, <1>2, <1>3, <1>4, <1>5, <1>6 DEF Next, GatewayNext

(***************************************************************************)
(* At Paystack and Stripe, whose charges a job decides, a charge under way *)
(* has its outcome queued or claimed, or the handler at work that will     *)
(* queue it or make it (simulator.apply, confirmPayment, cancelGroup),     *)
(* unless the process died or a declined intent was confirmed again.       *)
(***************************************************************************)
THEOREM OutcomesDriven == Spec => []OutcomeIsDriven
<1>1. Inv /\ MarkedOnce /\ Bounded /\ Driven /\ [Next]_vars => Driven'
    BY DrivenNext
<1>2. Inv /\ Driven => OutcomeIsDriven
    <2> SUFFICES ASSUME Inv, Driven, provider \in DecidedByJob, Underway
                 PROVE  \/ \E i \in DOMAIN jobs : jobs[i].kind = "simulate"
                        \/ \E i \in DOMAIN batch : batch[i].job.kind = "simulate"
                        \/ \E t \in Tasks : WillDecide(t)
        BY DEF OutcomeIsDriven, Underway
    <2>1. Waits \/ \E t \in Tasks : Drives(task[t])
        BY DEF Driven
    <2>2. ASSUME NEW t \in Tasks, Drives(task[t]) PROVE WillDecide(t)
        <3> DEFINE s == task[t].todo
        <3>1. s \in Seq(Asks(provider, row.kind))
            BY DEF Inv, TasksOK, TaskRow
        <3>2. s # <<>>
            BY <2>2 DEF Drives
        <3>3. 1 \in DOMAIN s /\ (Len(s) > 1 => 2 \in DOMAIN s)
            BY <3>1, <3>2
        <3>4. \E i \in DOMAIN s : s[i].op \in {"enqueue", "to", "hop"}
            <4>1. CASE Decides(s[1])
                BY <3>3, <4>1 DEF Decides
            <4>2. CASE Plays(s[1])
                BY <3>3, <4>2 DEF Plays
            <4>3. CASE Len(s) > 1 /\ Plays(s[2])
                BY <3>3, <4>3 DEF Plays
            <4> QED
                BY <2>2, <4>1, <4>2, <4>3 DEF Drives
        <3> QED
            BY <3>4 DEF WillDecide
    <2> QED
        BY <2>1, <2>2 DEF Waits
<1> QED
    BY <1>1, <1>2, DrivenInit, InvInit, Invariance, PTL DEF Spec
=============================================================================
