----------------------------- MODULE CheckoutProofs -----------------------------
EXTENDS Checkout, SequenceTheorems, TLAPS

(***************************************************************************)
(* The proofs about Checkout: what its four safety properties rest on, for *)
(* any number of callers, tools and deaths of the process.                 *)
(*                                                                         *)
(* Every handler's program is a sequence of steps that the model builds as *)
(* the handler goes.  The first part shows that each is Ranked: its steps  *)
(* come in one order that all the handlers share.  A ranked sequence is    *)
(* known by the set of its steps (left[t]), its next step being the lowest *)
(* of them, so the second part restates every action as a step between     *)
(* sets (GoNext), with no sequence left in it.  The invariant (IInv) then  *)
(* says of each task what may be left to do beside which rows, and has one *)
(* part per idea: Shaped and Named for the programs, Locked for the lock,  *)
(* Sold, Told, Filled, Earned, Varied and Way for what the properties say. *)
(* Each part is kept by every step; the theorems are at the end.           *)
(***************************************************************************)

-----------------------------------------------------------------------------
\* The steps of handlers, and what they name
Fill == {"cardRecord", "card", "storeSubscription", "subscribe",
         "linkSubscription", "renewal", "invoice", "settle", "empty", "fulfilled"}
Decisions == {"identify", "choose", "free", "pay", "control", "close"}
Ops == {"enqueue", "store", "token", "adopt", "create", "index", "link", "method",
        "to", "hop", "cancelGroup", "publish", "fulfil", "variance", "completed",
        "expired", "customer", "amount"} \cup Decisions \cup Fill
Words == PaymentStatus \cup Method \cup JobKind \cup
         {"any", "zero", "some", "late_transfer", "succeed", "fail", "short",
          "overpaid", "send_rest", "accept"}
Notes == {"", "underpaid", "overpaid", "accepted"}
Over == {"overpaid", "accepted"}
Resumes == {"processing", "requires_action", "pending"}

StepRow ==
    {c \in [op : Ops, to : Words, word : Notes,
            by : {"any", "retry", "reversal", "refused"}] :
        /\ c.op = "enqueue" => c.to \in JobKind
        /\ c.op \in {"to", "hop"} =>
              c.to \in PaymentStatus \ {"created", "partially_refunded", "refunded"}
        /\ c.op \in {"method", "pay"} => c.to \in Method
        /\ c.op \in {"amount", "choose"} => c.to \in {"zero", "some"}
        /\ c.op = "hop" => /\ c.by = "any" /\ c.word = ""
                           /\ c.to \in {"processing", "successful"}
        /\ c.word = "underpaid" => c.op = "to" /\ c.to = "processing"
        /\ c.word \in Over => c.op = "to" /\ c.to = "successful" /\ c.by = "any"}

\* The order in which the steps of any handler come
Rank(c) ==
    IF c.op \in {"to", "hop"} THEN (IF c.to \in Resumes THEN 9 ELSE 11) ELSE
    IF c.op = "enqueue" THEN (IF c.to = "simulate" THEN 11 ELSE 0) ELSE
    IF c.op = "store" THEN 1 ELSE
    IF c.op = "token" THEN 2 ELSE
    IF c.op = "adopt" THEN 3 ELSE
    IF c.op = "create" THEN 4 ELSE
    IF c.op = "index" THEN 5 ELSE
    IF c.op = "link" THEN 6 ELSE
    IF c.op \in Decisions THEN 7 ELSE
    IF c.op = "method" THEN 8 ELSE
    IF c.op = "cancelGroup" THEN 12 ELSE
    IF c.op = "publish" THEN 13 ELSE
    IF c.op = "fulfil" THEN 14 ELSE
    IF c.op = "cardRecord" THEN 15 ELSE
    IF c.op = "card" THEN 16 ELSE
    IF c.op = "storeSubscription" THEN 17 ELSE
    IF c.op = "subscribe" THEN 18 ELSE
    IF c.op = "linkSubscription" THEN 19 ELSE
    IF c.op = "renewal" THEN 20 ELSE
    IF c.op = "invoice" THEN 21 ELSE
    IF c.op = "settle" THEN 22 ELSE
    IF c.op \in {"empty", "fulfilled"} THEN 23 ELSE
    24

Ranked(s) == \A i, j \in 1..Len(s) : i < j => Rank(s[i]) < Rank(s[j])
Steps(s) == {s[i] : i \in 1..Len(s)}

\* s is a program that consists of the steps S
Plan(s, S) == s \in Seq(StepRow) /\ Ranked(s) /\ Steps(s) = S

TaskRow == [todo : Seq(StepRow), seen : PaymentStatus \cup {"none"}]

\* What each handler has left to do, as a set
left == [t \in Tasks |-> Steps(task[t].todo)]
Has(S, op) == \E c \in S : c.op = op

Programs ==
    /\ task \in [Tasks -> TaskRow]
    /\ \A t \in Tasks : Ranked(task[t].todo)

-----------------------------------------------------------------------------
(***************************************************************************)
(* The rank of every step                                                  *)
(***************************************************************************)
LEMMA Ranks ==
    ASSUME NEW c \in StepRow
    PROVE  /\ Rank(c) \in 0..24
           /\ c.op \in {"to", "hop"} => Rank(c) = IF c.to \in Resumes THEN 9 ELSE 11
           /\ c.op = "enqueue" => Rank(c) = IF c.to = "simulate" THEN 11 ELSE 0
           /\ c.op = "store" => Rank(c) = 1
           /\ c.op = "token" => Rank(c) = 2
           /\ c.op = "adopt" => Rank(c) = 3
           /\ c.op = "create" => Rank(c) = 4
           /\ c.op = "index" => Rank(c) = 5
           /\ c.op = "link" => Rank(c) = 6
           /\ c.op \in Decisions => Rank(c) = 7
           /\ c.op = "method" => Rank(c) = 8
           /\ c.op = "cancelGroup" => Rank(c) = 12
           /\ c.op = "publish" => Rank(c) = 13
           /\ c.op = "fulfil" => Rank(c) = 14
           /\ c.op \in Fill <=> Rank(c) \in 15..23
           /\ c.op = "card" => Rank(c) = 16
           /\ c.op = "cardRecord" => Rank(c) = 15
           /\ c.op = "storeSubscription" => Rank(c) = 17
           /\ c.op = "subscribe" => Rank(c) = 18
           /\ c.op = "linkSubscription" => Rank(c) = 19
           /\ c.op = "renewal" => Rank(c) = 20
           /\ c.op = "invoice" => Rank(c) = 21
           /\ c.op = "settle" => Rank(c) = 22
           /\ c.op \in {"empty", "fulfilled"} => Rank(c) = 23
           /\ c.op \in {"variance", "completed", "expired", "customer", "amount"}
                 => Rank(c) = 24
<1>1. c.op \in Ops
    BY DEF StepRow
<1>2. c.op \in {"to", "hop"} => Rank(c) = IF c.to \in Resumes THEN 9 ELSE 11
    BY DEF Rank, Decisions
<1>3. c.op = "enqueue" => Rank(c) = IF c.to = "simulate" THEN 11 ELSE 0
    BY DEF Rank, Decisions
<1>4. c.op \in Decisions => Rank(c) = 7
    BY DEF Rank, Decisions
<1>5. c.op = "store" => Rank(c) = 1
    BY DEF Rank, Decisions
<1>6. c.op = "token" => Rank(c) = 2
    BY DEF Rank, Decisions
<1>7. c.op = "adopt" => Rank(c) = 3
    BY DEF Rank, Decisions
<1>8. c.op = "create" => Rank(c) = 4
    BY DEF Rank, Decisions
<1>9. c.op = "index" => Rank(c) = 5
    BY DEF Rank, Decisions
<1>10. c.op = "link" => Rank(c) = 6
    BY DEF Rank, Decisions
<1>11. c.op = "method" => Rank(c) = 8
    BY DEF Rank, Decisions
<1>12. c.op = "cancelGroup" => Rank(c) = 12
    BY DEF Rank, Decisions
<1>13. c.op = "publish" => Rank(c) = 13
    BY DEF Rank, Decisions
<1>14. c.op = "fulfil" => Rank(c) = 14
    BY DEF Rank, Decisions
<1>15. c.op = "cardRecord" => Rank(c) = 15
    BY DEF Rank, Decisions
<1>16. c.op = "card" => Rank(c) = 16
    BY DEF Rank, Decisions
<1>17. c.op = "storeSubscription" => Rank(c) = 17
    BY DEF Rank, Decisions
<1>18. c.op = "subscribe" => Rank(c) = 18
    BY DEF Rank, Decisions
<1>19. c.op = "linkSubscription" => Rank(c) = 19
    BY DEF Rank, Decisions
<1>20. c.op = "renewal" => Rank(c) = 20
    BY DEF Rank, Decisions
<1>21. c.op = "invoice" => Rank(c) = 21
    BY DEF Rank, Decisions
<1>22. c.op = "settle" => Rank(c) = 22
    BY DEF Rank, Decisions
<1>23. c.op \in {"empty", "fulfilled"} => Rank(c) = 23
    BY DEF Rank, Decisions
<1>24. c.op \in {"variance", "completed", "expired", "customer", "amount"} => Rank(c) = 24
    BY DEF Rank, Decisions
<1> QED
    BY <1>1, <1>2, <1>3, <1>4, <1>5, <1>6, <1>7, <1>8, <1>9, <1>10, <1>11, <1>12, <1>13, <1>14,
       <1>15, <1>16, <1>17, <1>18, <1>19, <1>20, <1>21, <1>22, <1>23, <1>24 DEF Ops, Decisions,
       Fill

(***************************************************************************)
(* Programs put together, one step at a time or whole                      *)
(***************************************************************************)
LEMMA PlanNone == Plan(<<>>, {})
BY DEF Plan, Ranked, Steps

\* A single step is a program.
LEMMA PlanOne ==
    ASSUME NEW c \in StepRow
    PROVE  Plan(<<c>>, {c})
<1>1. <<c>> \in Seq(StepRow) /\ Len(<<c>>) = 1 /\ <<c>>[1] = c
    OBVIOUS
<1> QED
    BY <1>1 DEF Plan, Ranked, Steps

(***************************************************************************)
(* Two programs one after the other are a program, when every step of the  *)
(* second ranks above the first's.                                         *)
(***************************************************************************)
LEMMA PlanJoin ==
    ASSUME NEW a, NEW A_, NEW b, NEW B_, Plan(a, A_), Plan(b, B_),
           \A x \in A_, y \in B_ : Rank(x) < Rank(y)
    PROVE  Plan(a \o b, A_ \cup B_)
<1> DEFINE s == a \o b
           n == Len(a)
           m == Len(b)
<1>1. /\ a \in Seq(StepRow) /\ b \in Seq(StepRow) /\ Ranked(a) /\ Ranked(b)
      /\ A_ = {a[i] : i \in 1..n} /\ B_ = {b[i] : i \in 1..m}
    BY DEF Plan, Steps
<1>2. /\ s \in Seq(StepRow) /\ Len(s) = n + m
      /\ \A i \in 1..(n + m) : s[i] = IF i <= n THEN a[i] ELSE b[i - n]
      /\ n \in Nat /\ m \in Nat
    BY <1>1, ConcatProperties, LenProperties
<1> HIDE DEF s, n, m
<1>3. Ranked(s)
    <2> SUFFICES ASSUME NEW i \in 1..(n + m), NEW j \in 1..(n + m), i < j
                 PROVE  Rank(s[i]) < Rank(s[j])
        BY <1>2 DEF Ranked
    <2>1. CASE j <= n
        <3>1. i \in 1..n /\ j \in 1..n /\ s[i] = a[i] /\ s[j] = a[j]
            BY <1>2, <2>1
        <3> QED
            BY <1>1, <3>1 DEF Ranked, n
    <2>2. CASE i <= n /\ ~ (j <= n)
        <3>1. i \in 1..n /\ j - n \in 1..m /\ s[i] = a[i] /\ s[j] = b[j - n]
            BY <1>2, <2>2
        <3> QED
            BY <1>1, <3>1
    <2>3. CASE ~ (i <= n) /\ ~ (j <= n)
        <3>1. /\ i - n \in 1..m /\ j - n \in 1..m /\ i - n < j - n
              /\ s[i] = b[i - n] /\ s[j] = b[j - n]
            BY <1>2, <2>3
        <3> QED
            BY <1>1, <3>1 DEF Ranked, m
    <2> QED
        BY <1>2, <2>1, <2>2, <2>3
<1>4. Steps(s) = A_ \cup B_
    <2>1. \A x \in Steps(s) : x \in A_ \cup B_
        <3> SUFFICES ASSUME NEW i \in 1..(n + m)
                     PROVE  s[i] \in A_ \cup B_
            BY <1>2 DEF Steps
        <3>1. i <= n => i \in 1..n
            BY <1>2
        <3>2. ~ (i <= n) => i - n \in 1..m
            BY <1>2
        <3> QED
            BY <1>1, <1>2, <3>1, <3>2
    <2>2. \A i \in 1..n : a[i] \in Steps(s)
        <3> SUFFICES ASSUME NEW i \in 1..n
                     PROVE  a[i] \in Steps(s)
            OBVIOUS
        <3>1. i \in 1..(n + m) /\ s[i] = a[i]
            BY <1>2
        <3> QED
            BY <1>2, <3>1 DEF Steps
    <2>3. \A i \in 1..m : b[i] \in Steps(s)
        <3> SUFFICES ASSUME NEW i \in 1..m
                     PROVE  b[i] \in Steps(s)
            OBVIOUS
        <3>1. i + n \in 1..(n + m) /\ s[i + n] = b[i]
            BY <1>2
        <3> QED
            BY <1>2, <3>1 DEF Steps
    <2> QED
        BY <1>1, <2>1, <2>2, <2>3
<1> QED
    BY <1>2, <1>3, <1>4 DEF Plan, s

(***************************************************************************)
(* The first step of a program has the least rank, and the rest are the    *)
(* other steps.                                                            *)
(***************************************************************************)
LEMMA PlanTail ==
    ASSUME NEW s, NEW S, Plan(s, S), s # <<>>
    PROVE  /\ Head(s) \in S /\ S \subseteq StepRow
           /\ \A d \in S : d # Head(s) => Rank(Head(s)) < Rank(d)
           /\ Plan(Tail(s), S \ {Head(s)})
<1>1. /\ s \in Seq(StepRow) /\ Ranked(s) /\ S = {s[i] : i \in 1..Len(s)}
      /\ Len(s) \in Nat /\ Len(s) > 0 /\ Head(s) = s[1]
    BY DEF Plan, Steps
<1>2. /\ Tail(s) \in Seq(StepRow) /\ Len(Tail(s)) = Len(s) - 1
      /\ \A i \in 1..(Len(s) - 1) : Tail(s)[i] = s[i + 1]
    BY <1>1, HeadTailProperties
<1>3. S \subseteq StepRow
    BY <1>1, ElementOfSeq
<1>4. \A i \in 1..Len(s) : i # 1 => Rank(s[1]) < Rank(s[i])
    BY <1>1 DEF Ranked
<1>5. \A x \in S : Rank(x) \in Nat
    <2> SUFFICES ASSUME NEW x \in S
                 PROVE  Rank(x) \in Nat
        OBVIOUS
    <2>1. x \in StepRow
        BY <1>3
    <2>2. Rank(x) \in 0..24
        BY <2>1, Ranks
    <2> QED
        BY <2>2
<1>6. \A i \in 1..Len(s) : i # 1 => s[i] # s[1]
    BY <1>1, <1>4, <1>5
<1>7. Ranked(Tail(s))
    <2> SUFFICES ASSUME NEW i \in 1..(Len(s) - 1), NEW j \in 1..(Len(s) - 1), i < j
                 PROVE  Rank(Tail(s)[i]) < Rank(Tail(s)[j])
        BY <1>2 DEF Ranked
    <2>1. i + 1 \in 1..Len(s) /\ j + 1 \in 1..Len(s) /\ i + 1 < j + 1
        BY <1>1
    <2> QED
        BY <1>1, <1>2, <2>1 DEF Ranked
<1>8. Steps(Tail(s)) = S \ {Head(s)}
    <2>1. \A i \in 1..(Len(s) - 1) : s[i + 1] \in S \ {Head(s)}
        <3> SUFFICES ASSUME NEW i \in 1..(Len(s) - 1)
                     PROVE  s[i + 1] \in S \ {Head(s)}
            OBVIOUS
        <3>1. i + 1 \in 1..Len(s) /\ i + 1 # 1
            BY <1>1
        <3> QED
            BY <1>1, <1>6, <3>1
    <2>2. \A x \in S \ {Head(s)} : \E i \in 1..(Len(s) - 1) : x = Tail(s)[i]
        <3> SUFFICES ASSUME NEW k \in 1..Len(s), s[k] # Head(s)
                     PROVE  \E i \in 1..(Len(s) - 1) : s[k] = Tail(s)[i]
            BY <1>1
        <3>1. k - 1 \in 1..(Len(s) - 1) /\ (k - 1) + 1 = k
            BY <1>1
        <3> QED
            BY <1>2, <3>1
    <2> QED
        BY <1>2, <2>1, <2>2 DEF Steps
<1> QED
    BY <1>1, <1>2, <1>3, <1>4, <1>7, <1>8 DEF Plan

-----------------------------------------------------------------------------
\* The payment the scheduler's task has read
seen == task[Poll].seen

\* c is what t does next.
First(t, c) ==
    /\ t \in Tasks /\ c \in left[t] /\ c \in StepRow
    /\ \A d \in left[t] : d # c => Rank(c) < Rank(d)

\* Handler t is left with the steps S.
Leaves(t, S) ==
    /\ left \in [Tasks -> SUBSET StepRow] /\ left' \in [Tasks -> SUBSET StepRow]
    /\ left'[t] = S
    /\ \A u \in Tasks : u # t => left'[u] = left[u]

\* Handler t is left with the steps S, and gives its lock back if it is done.
Turns(t, S) ==
    /\ Programs'
    /\ Leaves(t, S)
    /\ lock' = IF S = {} /\ lock = t THEN None ELSE lock
    /\ \/ seen' = seen
       \/ t = Poll /\ S = {} /\ seen' = "none"

\* t, which was free, is given the steps S.
Begins(t, S) ==
    /\ Programs'
    /\ left[t] = {} /\ Leaves(t, S)
    /\ t # Poll => seen' = seen

(***************************************************************************)
(* Only the empty program has no steps; handlers have steps of the kind.   *)
(***************************************************************************)
LEMMA PlanEmpty ==
    ASSUME NEW s, NEW S, Plan(s, S)
    PROVE  s = <<>> <=> S = {}
<1>1. s \in Seq(StepRow) /\ S = {s[i] : i \in 1..Len(s)}
    BY DEF Plan, Steps
<1>2. CASE s = <<>>
    BY <1>1, <1>2
<1>3. CASE s # <<>>
    <2>1. Len(s) \in Nat /\ Len(s) > 0
        BY <1>1, <1>3, EmptySeq
    <2>2. s[1] \in S
        BY <1>1, <2>1
    <2> QED
        BY <1>3, <2>2
<1> QED
    BY <1>2, <1>3

(***************************************************************************)
(* What a task's program leaves to do is a set of steps, and the task is   *)
(* free when that is empty.                                                *)
(***************************************************************************)
LEMMA LeftPlans ==
    ASSUME Programs
    PROVE  /\ left \in [Tasks -> SUBSET StepRow]
           /\ \A t \in Tasks : Plan(task[t].todo, left[t]) /\ (Free(t) <=> left[t] = {})
<1>1. \A t \in Tasks : task[t].todo \in Seq(StepRow)
    BY DEF Programs, TaskRow
<1>2. \A t \in Tasks : Plan(task[t].todo, left[t])
    BY <1>1 DEF Programs, Plan, left
<1>3. \A t \in Tasks : left[t] \subseteq StepRow
    <2> SUFFICES ASSUME NEW t \in Tasks
                 PROVE  left[t] \subseteq StepRow
        OBVIOUS
    <2>1. left[t] = {task[t].todo[i] : i \in 1..Len(task[t].todo)}
        BY <1>2 DEF Plan, Steps
    <2>2. \A i \in 1..Len(task[t].todo) : task[t].todo[i] \in StepRow
        BY <1>1, ElementOfSeq
    <2> QED
        BY <2>1, <2>2
<1>4. \A t \in Tasks : Free(t) <=> left[t] = {}
    BY <1>2, PlanEmpty DEF Free
<1> QED
    BY <1>2, <1>3, <1>4 DEF left

\* The same typing, after a step.
LEMMA LeftTypedNext ==
    ASSUME Programs'
    PROVE  left' \in [Tasks -> SUBSET StepRow]
<1>1. \A t \in Tasks : task'[t].todo \in Seq(StepRow)
    BY DEF Programs, TaskRow
<1>2. left' = [t \in Tasks |-> Steps(task'[t].todo)]
    BY DEF left
<1>3. \A t \in Tasks : Steps(task'[t].todo) \subseteq StepRow
    <2> SUFFICES ASSUME NEW t \in Tasks, NEW i \in 1..Len(task'[t].todo)
                 PROVE  task'[t].todo[i] \in StepRow
        BY DEF Steps
    <2> QED
        BY <1>1, ElementOfSeq
<1> QED
    BY <1>2, <1>3

(***************************************************************************)
(* A new program is what is left.                                          *)
(***************************************************************************)
LEMMA Replaced ==
    ASSUME Programs, NEW t \in Tasks, NEW row \in TaskRow, NEW S, Plan(row.todo, S),
           task' = [task EXCEPT ![t] = row]
    PROVE  /\ Programs' /\ Leaves(t, S)
           /\ seen' = IF t = Poll THEN row.seen ELSE seen
<1>1. /\ task \in [Tasks -> TaskRow] /\ task' \in [Tasks -> TaskRow]
      /\ task'[t] = row /\ \A u \in Tasks : u # t => task'[u] = task[u]
    BY DEF Programs
<1>2. Programs'
    BY <1>1 DEF Programs, Plan
<1>3. left' = [u \in Tasks |-> Steps(task'[u].todo)]
    BY DEF left
<1>4. \A u \in Tasks : Steps(task'[u].todo) = IF u = t THEN S ELSE left[u]
    BY <1>1 DEF left, Plan
<1>5. left' = [left EXCEPT ![t] = S]
    BY <1>3, <1>4 DEF left
<1>6. seen' = IF t = Poll THEN row.seen ELSE seen
    BY <1>1 DEF seen, Tasks
<1>7. left \in [Tasks -> SUBSET StepRow] /\ left' \in [Tasks -> SUBSET StepRow]
    BY <1>2, LeftPlans, LeftTypedNext
<1>8. Leaves(t, S)
    BY <1>5, <1>7 DEF Leaves
<1> QED
    BY <1>2, <1>6, <1>8

\* A handler that goes on with the program s has the steps of s left.
LEMMA GoesTurns ==
    ASSUME Programs, NEW t \in Tasks, NEW s, NEW S, Plan(s, S), Goes(t, s)
    PROVE  Turns(t, S)
<1>1. s = <<>> <=> S = {}
    BY PlanEmpty
<1>2. lock' = IF S = {} /\ lock = t THEN None ELSE lock
    BY <1>1 DEF Goes
<1>3. task[t] \in TaskRow /\ s \in Seq(StepRow)
    BY DEF Programs, Plan
<1>4. CASE s = <<>>
    <2>1. task' = [task EXCEPT ![t] = Idle]
        BY <1>4 DEF Goes
    <2>2. Idle \in TaskRow /\ Idle.todo = s /\ Idle.seen = "none"
        <3>1. <<>> \in Seq(StepRow)
            OBVIOUS
        <3> QED
            BY <3>1, <1>4 DEF Idle, TaskRow
    <2>3. /\ Programs' /\ Leaves(t, S)
          /\ seen' = IF t = Poll THEN Idle.seen ELSE seen
        BY <2>1, <2>2, Replaced
    <2> QED
        BY <1>1, <1>2, <1>4, <2>2, <2>3 DEF Turns
<1>5. CASE s # <<>>
    <2> DEFINE row == [task[t] EXCEPT !.todo = s]
    <2>1. task' = [task EXCEPT ![t] = row]
        BY <1>5 DEF Goes
    <2>2. row \in TaskRow /\ row.todo = s /\ row.seen = task[t].seen
        BY <1>3 DEF TaskRow
    <2> HIDE DEF row
    <2>3. /\ Programs' /\ Leaves(t, S)
          /\ seen' = IF t = Poll THEN row.seen ELSE seen
        BY <2>1, <2>2, Replaced
    <2>4. seen' = seen
        BY <2>2, <2>3 DEF seen
    <2> QED
        BY <1>2, <2>3, <2>4 DEF Turns
<1> QED
    BY <1>4, <1>5

(***************************************************************************)
(* A handler that is not free has a first step, and goes on without it.    *)
(***************************************************************************)
LEMMA AtStep ==
    ASSUME Programs, NEW t \in Tasks, ~ Free(t)
    PROVE  /\ First(t, Current(t))
           /\ Plan(Tail(task[t].todo), left[t] \ {Current(t)})
<1>1. Plan(task[t].todo, left[t]) /\ left[t] \subseteq StepRow
    BY LeftPlans
<1> QED
    BY <1>1, PlanTail DEF Free, First, Current

(***************************************************************************)
(* A handler that goes on to its next step has all but the one it did      *)
(* left.                                                                   *)
(***************************************************************************)
LEMMA NextTurns ==
    ASSUME Programs, NEW t \in Tasks, ~ Free(t), Next_(t)
    PROVE  Turns(t, left[t] \ {Current(t)})
BY AtStep, GoesTurns DEF Next_

\* A handler that stops, on a throw or a return, has nothing left.
LEMMA StopsTurns ==
    ASSUME Programs, NEW t \in Tasks, Stops(t)
    PROVE  Turns(t, {})
BY PlanNone, GoesTurns DEF Stops

\* A handler that puts a program before the rest has both left.
LEMMA JoinTurns ==
    ASSUME Programs, NEW t \in Tasks, ~ Free(t), NEW a, NEW A_, Plan(a, A_),
           Goes(t, a \o Tail(task[t].todo)),
           \A x \in A_ : \A d \in left[t] \ {Current(t)} : Rank(x) < Rank(d)
    PROVE  Turns(t, A_ \cup (left[t] \ {Current(t)}))
BY AtStep, PlanJoin, GoesTurns

(***************************************************************************)
(* A free task that takes up a program has its steps left, and has read    *)
(* nothing yet.                                                            *)
(***************************************************************************)
LEMMA FreshBegins ==
    ASSUME Programs, NEW t \in Tasks, Free(t), NEW s, NEW S, Plan(s, S),
           task' = [task EXCEPT ![t] = [Idle EXCEPT !.todo = s]]
    PROVE  Begins(t, S)
<1> DEFINE row == [Idle EXCEPT !.todo = s]
<1>1. row \in TaskRow /\ row.todo = s
    BY DEF Idle, TaskRow, Plan
<1> HIDE DEF row
<1>2. task' = [task EXCEPT ![t] = row]
    BY DEF row
<1>3. /\ Programs' /\ Leaves(t, S)
      /\ seen' = IF t = Poll THEN row.seen ELSE seen
    BY <1>1, <1>2, Replaced
<1> QED
    BY <1>3, LeftPlans DEF Begins

-----------------------------------------------------------------------------
\* The steps that are written in programs
Plain(op) == Asked(op, "any", "any")
Sent(s, word, by) == [op |-> "to", to |-> s, word |-> word, by |-> by]
Plains(O) == {Plain(op) : op \in O}

\* A program whose ranks are from lo to hi
Band(s, S, lo, hi) ==
    /\ Plan(s, S) /\ lo \in Nat /\ hi \in Nat
    /\ \A x \in S : lo <= Rank(x) /\ Rank(x) <= hi

\* The steps that only name an operation.
LEMMA PlainRow ==
    ASSUME NEW op \in Ops, op \notin {"enqueue", "to", "hop", "method", "pay", "amount", "choose"}
    PROVE  Plain(op) \in StepRow /\ Plain(op).op = op /\ Plain(op).word = ""
BY DEF Plain, Asked, StepRow, Words, Notes, Over

(***************************************************************************)
(* The steps that move the payment, and their rank: it resumes before it   *)
(* ends.                                                                   *)
(***************************************************************************)
LEMMA SentRow ==
    ASSUME NEW s \in PaymentStatus \ {"created", "partially_refunded", "refunded"},
           NEW word \in Notes, NEW by \in {"any", "retry", "reversal"},
           word = "underpaid" => s = "processing",
           word \in Over => s = "successful" /\ by = "any"
    PROVE  LET c == Sent(s, word, by)
           IN  /\ c \in StepRow /\ c.op = "to" /\ c.to = s /\ c.word = word /\ c.by = by
               /\ Rank(c) = IF s \in Resumes THEN 9 ELSE 11
<1> DEFINE c == Sent(s, word, by)
<1>1. c \in StepRow /\ c.op = "to" /\ c.to = s /\ c.word = word /\ c.by = by
    BY DEF Sent, StepRow, Ops, Words, Notes
<1> HIDE DEF c
<1>2. Rank(c) = IF s \in Resumes THEN 9 ELSE 11
    BY <1>1, Ranks
<1> QED
    BY <1>1, <1>2 DEF c

\* The steps that name a job, a method or an amount.
LEMMA AskedRows ==
    /\ \A k \in JobKind : /\ Asked("enqueue", k, "any") \in StepRow
                          /\ Rank(Asked("enqueue", k, "any")) = IF k = "simulate" THEN 11 ELSE 0
    /\ \A m \in Method : /\ Asked("method", m, "any") \in StepRow
                         /\ Rank(Asked("method", m, "any")) = 8
    /\ \A z \in {"zero", "some"} : Asked("amount", z, "any") \in StepRow
<1>1. \A k \in JobKind : LET c == Asked("enqueue", k, "any")
                         IN  c \in StepRow /\ c.op = "enqueue" /\ c.to = k
    BY DEF Asked, StepRow, Ops, Words, Notes, Over
<1>2. \A m \in Method : LET c == Asked("method", m, "any")
                        IN  c \in StepRow /\ c.op = "method"
    BY DEF Asked, StepRow, Ops, Words, Notes, Over
<1>3. \A z \in {"zero", "some"} : Asked("amount", z, "any") \in StepRow
    BY DEF Asked, StepRow, Ops, Words, Notes, Over
<1>4. \A k \in JobKind : Rank(Asked("enqueue", k, "any")) = IF k = "simulate" THEN 11 ELSE 0
    <2> SUFFICES ASSUME NEW k \in JobKind
                 PROVE  Rank(Asked("enqueue", k, "any")) = IF k = "simulate" THEN 11 ELSE 0
        OBVIOUS
    <2> DEFINE c == Asked("enqueue", k, "any")
    <2>1. c \in StepRow /\ c.op = "enqueue" /\ c.to = k
        BY <1>1
    <2> HIDE DEF c
    <2>2. Rank(c) = IF c.to = "simulate" THEN 11 ELSE 0
        BY <2>1, Ranks
    <2> QED
        BY <2>1, <2>2 DEF c
<1>5. \A m \in Method : Rank(Asked("method", m, "any")) = 8
    <2> SUFFICES ASSUME NEW m \in Method
                 PROVE  Rank(Asked("method", m, "any")) = 8
        OBVIOUS
    <2> DEFINE c == Asked("method", m, "any")
    <2>1. c \in StepRow /\ c.op = "method"
        BY <1>2
    <2> HIDE DEF c
    <2>2. Rank(c) = 8
        BY <2>1, Ranks
    <2> QED
        BY <2>2 DEF c
<1> QED
    BY <1>1, <1>2, <1>3, <1>4, <1>5

\* A single step is a program between its own rank and its own rank.
LEMMA BandOne ==
    ASSUME NEW c \in StepRow
    PROVE  Band(<<c>>, {c}, Rank(c), Rank(c))
<1>1. Rank(c) \in Nat
    <2>1. Rank(c) \in 0..24
        BY Ranks
    <2> QED
        BY <2>1
<1> QED
    BY <1>1, PlanOne DEF Band

\* No step is a program between any two ranks.
LEMMA BandNone ==
    ASSUME NEW lo \in Nat, NEW hi \in Nat
    PROVE  Band(<<>>, {}, lo, hi)
BY PlanNone DEF Band

(***************************************************************************)
(* Two programs of ranks that do not meet are, joined, a program between   *)
(* the outer ranks.                                                        *)
(***************************************************************************)
LEMMA BandJoin ==
    ASSUME NEW a, NEW A_, NEW l, NEW m, Band(a, A_, l, m),
           NEW b, NEW B_, NEW n, NEW h, Band(b, B_, n, h), m < n, l <= n, m <= h
    PROVE  Band(a \o b, A_ \cup B_, l, h)
<1>1. A_ \subseteq StepRow /\ B_ \subseteq StepRow
    <2>1. \A s, S : Plan(s, S) => S \subseteq StepRow
        <3> SUFFICES ASSUME NEW s, NEW S, Plan(s, S), NEW x \in S
                     PROVE  x \in StepRow
            OBVIOUS
        <3>1. s \in Seq(StepRow) /\ S = {s[i] : i \in 1..Len(s)}
            BY DEF Plan, Steps
        <3> QED
            BY <3>1, ElementOfSeq
    <2> QED
        BY <2>1 DEF Band
<1>2. \A x \in A_ \cup B_ : Rank(x) \in Nat
    <2> SUFFICES ASSUME NEW x \in StepRow
                 PROVE  Rank(x) \in Nat
        BY <1>1
    <2>1. Rank(x) \in 0..24
        BY Ranks
    <2> QED
        BY <2>1
<1>3. \A x \in A_, y \in B_ : Rank(x) < Rank(y)
    BY <1>2 DEF Band
<1>4. Plan(a \o b, A_ \cup B_)
    BY <1>3, PlanJoin DEF Band
<1> QED
    BY <1>2, <1>4 DEF Band

\* What the completion work that begins now has to do
FillOps ==
    IF payment.status # "none" /\ payment.method # "card" THEN {"empty"}
    ELSE (IF made.card THEN {} ELSE {"cardRecord", "card"})
         \cup (IF ~ Subscribes THEN {}
               ELSE (IF made.stored THEN {} ELSE {"storeSubscription"})
                    \cup (IF made.subs = 0 THEN {"subscribe"} ELSE {})
                    \cup (IF made.linked THEN {} ELSE {"linkSubscription"})
                    \cup {"renewal"}
                    \cup (IF payment.status = "none" \/ made.settled THEN {}
                          ELSE (IF made.invoices > 0 THEN {} ELSE {"invoice"})
                               \cup {"settle"}))
         \cup {"fulfilled"}

(***************************************************************************)
(* One plain step as a program, and one that is left out if it was made    *)
(***************************************************************************)
LEMMA PlainBand ==
    ASSUME NEW op \in Fill \cup {"fulfil", "publish", "cancelGroup", "completed"}
    PROVE  /\ Plain(op) \in StepRow /\ Plain(op).op = op
           /\ Band(Step(op), Plains({op}), Rank(Plain(op)), Rank(Plain(op)))
<1>1. Plain(op) \in StepRow /\ Plain(op).op = op
    BY PlainRow DEF Fill, Ops
<1>2. Step(op) = <<Plain(op)>>
    BY DEF Step, Plain, Asked
<1>3. Plains({op}) = {Plain(op)}
    BY DEF Plains
<1> QED
    BY <1>1, <1>2, <1>3, BandOne

\* The order of the completion work's steps, as fulfilCheckout has them.
LEMMA PlainRank ==
    /\ Rank(Plain("cardRecord")) = 15 /\ Rank(Plain("card")) = 16
    /\ Rank(Plain("storeSubscription")) = 17 /\ Rank(Plain("subscribe")) = 18
    /\ Rank(Plain("linkSubscription")) = 19 /\ Rank(Plain("renewal")) = 20
    /\ Rank(Plain("invoice")) = 21 /\ Rank(Plain("settle")) = 22
    /\ Rank(Plain("empty")) = 23 /\ Rank(Plain("fulfilled")) = 23
    /\ Rank(Plain("fulfil")) = 14 /\ Rank(Plain("publish")) = 13
    /\ Rank(Plain("cancelGroup")) = 12 /\ Rank(Plain("completed")) = 24
<1>1. \A op \in Fill \cup {"fulfil", "publish", "cancelGroup", "completed"} :
          Plain(op) \in StepRow /\ Plain(op).op = op
    BY PlainBand
<1>2. \A c \in StepRow :
           /\ c.op = "cardRecord" => Rank(c) = 15
           /\ c.op = "card" => Rank(c) = 16
           /\ c.op = "storeSubscription" => Rank(c) = 17
           /\ c.op = "subscribe" => Rank(c) = 18
           /\ c.op = "linkSubscription" => Rank(c) = 19
           /\ c.op = "renewal" => Rank(c) = 20
           /\ c.op = "invoice" => Rank(c) = 21
           /\ c.op = "settle" => Rank(c) = 22
           /\ c.op \in {"empty", "fulfilled"} => Rank(c) = 23
           /\ c.op = "fulfil" => Rank(c) = 14
           /\ c.op = "publish" => Rank(c) = 13
           /\ c.op = "cancelGroup" => Rank(c) = 12
           /\ c.op = "completed" => Rank(c) = 24
    BY Ranks
<1> QED
    BY <1>1, <1>2 DEF Fill

\* A step of the completion work that is skipped when its row is there.
LEMMA UnlessMade ==
    ASSUME NEW op \in Fill, NEW b \in BOOLEAN
    PROVE  Band(IF b THEN <<>> ELSE Step(op), Plains(IF b THEN {} ELSE {op}),
                Rank(Plain(op)), Rank(Plain(op)))
<1>1. Band(Step(op), Plains({op}), Rank(Plain(op)), Rank(Plain(op)))
    BY PlainBand
<1>2. Rank(Plain(op)) \in Nat
    BY <1>1 DEF Band
<1>3. Band(<<>>, Plains({}), Rank(Plain(op)), Rank(Plain(op)))
    <2>1. Plains({}) = {}
        BY DEF Plains
    <2> QED
        BY <1>2, <2>1, BandNone
<1>4. CASE b
    BY <1>3, <1>4
<1>5. CASE ~ b
    BY <1>1, <1>5
<1> QED
    BY <1>4, <1>5

\* BandJoin, for programs of steps that only name an operation.
LEMMA PlainsJoin ==
    ASSUME NEW a, NEW O, NEW l, NEW m, Band(a, Plains(O), l, m),
           NEW b, NEW P, NEW n, NEW h, Band(b, Plains(P), n, h), m < n, l <= n, m <= h
    PROVE  Band(a \o b, Plains(O \cup P), l, h)
<1>1. Plains(O \cup P) = Plains(O) \cup Plains(P)
    BY DEF Plains
<1> QED
    BY <1>1, BandJoin

(***************************************************************************)
(* The completion work, from saveCard to the record of it                  *)
(***************************************************************************)
LEMMA SaveCardBand ==
    Band(saveCard, Plains(IF made.card THEN {} ELSE {"cardRecord", "card"}), 15, 16)
<1>1. CASE made.card
    <2>1. Plains({}) = {}
        BY DEF Plains
    <2> QED
        BY <1>1, <2>1, BandNone DEF saveCard
<1>2. CASE ~ made.card
    <2>1. Band(Step("cardRecord"), Plains({"cardRecord"}), 15, 15)
        BY PlainBand, PlainRank DEF Fill
    <2>2. Band(Step("card"), Plains({"card"}), 16, 16)
        BY PlainBand, PlainRank DEF Fill
    <2>3. Band(Step("cardRecord") \o Step("card"), Plains({"cardRecord"} \cup {"card"}), 15, 16)
        BY <2>1, <2>2, PlainsJoin
    <2>4. {"cardRecord"} \cup {"card"} = {"cardRecord", "card"}
        OBVIOUS
    <2> QED
        BY <1>2, <2>3, <2>4 DEF saveCard
<1> QED
    BY <1>1, <1>2

(***************************************************************************)
(* The first invoice and its settlement, where the payment is there to     *)
(* settle it.                                                              *)
(***************************************************************************)
LEMMA SettleBand ==
    ASSUME made.invoices \in Nat
    PROVE  LET s == IF payment.status = "none" \/ made.settled THEN <<>>
                    ELSE (IF made.invoices > 0 THEN <<>> ELSE Step("invoice")) \o Step("settle")
               O == IF payment.status = "none" \/ made.settled THEN {}
                    ELSE (IF made.invoices > 0 THEN {} ELSE {"invoice"}) \cup {"settle"}
           IN  Band(s, Plains(O), 21, 22)
<1>1. CASE payment.status = "none" \/ made.settled
    <2>1. Plains({}) = {}
        BY DEF Plains
    <2> QED
        BY <1>1, <2>1, BandNone
<1>2. CASE ~ (payment.status = "none" \/ made.settled)
    <2>1. Band(Step("settle"), Plains({"settle"}), 22, 22)
        BY PlainBand, PlainRank DEF Fill
    <2>2. (made.invoices > 0) \in BOOLEAN
        OBVIOUS
    <2>3. Band(IF made.invoices > 0 THEN <<>> ELSE Step("invoice"),
               Plains(IF made.invoices > 0 THEN {} ELSE {"invoice"}), 21, 21)
        BY <2>2, UnlessMade, PlainRank DEF Fill
    <2> QED
        BY <1>2, <2>1, <2>3, PlainsJoin
<1> QED
    BY <1>1, <1>2

StartOps ==
    (IF made.stored THEN {} ELSE {"storeSubscription"})
    \cup (IF made.subs = 0 THEN {"subscribe"} ELSE {})
    \cup (IF made.linked THEN {} ELSE {"linkSubscription"})
    \cup {"renewal"}
    \cup (IF payment.status = "none" \/ made.settled THEN {}
          ELSE (IF made.invoices > 0 THEN {} ELSE {"invoice"}) \cup {"settle"})

(***************************************************************************)
(* startSubscription is a program: store, create, link, schedule the       *)
(* renewal, invoice, settle.                                               *)
(***************************************************************************)
LEMMA StartBand ==
    ASSUME TypeOK
    PROVE  Band(startSubscription, Plains(StartOps), 17, 22)
<1> DEFINE a == IF made.stored THEN <<>> ELSE Step("storeSubscription")
           b == subscribe
           d == IF made.linked THEN <<>> ELSE Step("linkSubscription")
           e == renewal
           f == IF payment.status = "none" \/ made.settled THEN <<>>
                ELSE (IF made.invoices > 0 THEN <<>> ELSE Step("invoice")) \o Step("settle")
           A_ == IF made.stored THEN {} ELSE {"storeSubscription"}
           B_ == IF made.subs = 0 THEN {"subscribe"} ELSE {}
           D_ == IF made.linked THEN {} ELSE {"linkSubscription"}
           E_ == {"renewal"}
           F_ == IF payment.status = "none" \/ made.settled THEN {}
                 ELSE (IF made.invoices > 0 THEN {} ELSE {"invoice"}) \cup {"settle"}
<1>1. /\ made.stored \in BOOLEAN /\ made.linked \in BOOLEAN /\ made.invoices \in Nat
      /\ (made.subs # 0) \in BOOLEAN
    BY DEF TypeOK
<1>2. Band(a, Plains(A_), 17, 17)
    BY <1>1, UnlessMade, PlainRank DEF Fill
<1>3. Band(b, Plains(B_), 18, 18)
    <2>1. Band(IF made.subs # 0 THEN <<>> ELSE Step("subscribe"),
               Plains(IF made.subs # 0 THEN {} ELSE {"subscribe"}), 18, 18)
        BY <1>1, UnlessMade, PlainRank DEF Fill
    <2>2. /\ b = IF made.subs # 0 THEN <<>> ELSE Step("subscribe")
          /\ B_ = IF made.subs # 0 THEN {} ELSE {"subscribe"}
        BY DEF subscribe
    <2> QED
        BY <2>1, <2>2
<1>4. Band(d, Plains(D_), 19, 19)
    BY <1>1, UnlessMade, PlainRank DEF Fill
<1>5. Band(e, Plains(E_), 20, 20)
    BY PlainBand, PlainRank DEF Fill, renewal
<1>6. Band(f, Plains(F_), 21, 22)
    BY <1>1, SettleBand
<1>7. startSubscription = (((a \o b) \o d) \o e) \o f
    BY Zenon DEF startSubscription
<1>11. StartOps = (((A_ \cup B_) \cup D_) \cup E_) \cup F_
    BY DEF StartOps
<1> HIDE DEF a, b, d, e, f, A_, B_, D_, E_, F_
<1>8. Band(a \o b, Plains(A_ \cup B_), 17, 18)
    BY <1>2, <1>3, PlainsJoin
<1>9. Band((a \o b) \o d, Plains((A_ \cup B_) \cup D_), 17, 19)
    BY <1>4, <1>8, PlainsJoin
<1>10. Band(((a \o b) \o d) \o e, Plains(((A_ \cup B_) \cup D_) \cup E_), 17, 20)
    BY <1>5, <1>9, PlainsJoin
<1>12. Band((((a \o b) \o d) \o e) \o f, Plains((((A_ \cup B_) \cup D_) \cup E_) \cup F_), 17, 22)
    BY <1>6, <1>10, PlainsJoin
<1> QED
    BY <1>7, <1>11, <1>12, Zenon

(***************************************************************************)
(* The completion work is a program that ends in the mark that it is done. *)
(***************************************************************************)
LEMMA FillBand ==
    ASSUME TypeOK
    PROVE  Band(IF payment.status # "none" /\ payment.method # "card"
                THEN Step("empty")
                ELSE saveCard \o (IF Subscribes THEN startSubscription ELSE <<>>)
                     \o Step("fulfilled"),
                Plains(FillOps), 15, 23)
<1>1. CASE payment.status # "none" /\ payment.method # "card"
    <2>1. Band(Step("empty"), Plains({"empty"}), 23, 23)
        BY PlainBand, PlainRank DEF Fill
    <2>2. \A x \in Plains({"empty"}) : Rank(x) = 23
        BY PlainRank DEF Plains
    <2>3. Band(Step("empty"), Plains({"empty"}), 15, 23)
        BY <2>1, <2>2 DEF Band
    <2> QED
        BY <1>1, <2>3 DEF FillOps
<1>2. CASE ~ (payment.status # "none" /\ payment.method # "card")
    <2> DEFINE b == IF Subscribes THEN startSubscription ELSE <<>>
               A_ == IF made.card THEN {} ELSE {"cardRecord", "card"}
               B_ == IF ~ Subscribes THEN {} ELSE StartOps
    <2>1. Band(saveCard, Plains(A_), 15, 16)
        BY SaveCardBand
    <2>2. Band(b, Plains(B_), 17, 22)
        <3>1. Band(startSubscription, Plains(StartOps), 17, 22)
            BY StartBand
        <3>2. Band(<<>>, Plains({}), 17, 22)
            <4>1. Plains({}) = {}
                BY DEF Plains
            <4> QED
                BY <4>1, BandNone
        <3>3. CASE Subscribes
            BY <3>1, <3>3
        <3>4. CASE ~ Subscribes
            BY <3>2, <3>4
        <3> QED
            BY <3>3, <3>4
    <2>3. Band(Step("fulfilled"), Plains({"fulfilled"}), 23, 23)
        BY PlainBand, PlainRank DEF Fill
    <2>4. FillOps = (A_ \cup B_) \cup {"fulfilled"}
        BY <1>2 DEF FillOps, StartOps
    <2> HIDE DEF b, A_, B_
    <2>5. Band(saveCard \o b, Plains(A_ \cup B_), 15, 22)
        BY <2>1, <2>2, PlainsJoin
    <2>6. Band((saveCard \o b) \o Step("fulfilled"),
               Plains((A_ \cup B_) \cup {"fulfilled"}), 15, 23)
        BY <2>3, <2>5, PlainsJoin
    <2> QED
        BY <1>2, <2>4, <2>6 DEF b
<1> QED
    BY <1>1, <1>2

(***************************************************************************)
(* What the completion work has left to do makes whole what is not made    *)
(* yet.                                                                    *)
(***************************************************************************)
LEMMA FillOpsAre ==
    /\ FillOps \subseteq Fill
    /\ "empty" \in FillOps \/ "fulfilled" \in FillOps
    /\ "empty" \in FillOps => /\ FillOps = {"empty"}
                              /\ payment.status # "none" /\ payment.method # "card"
    /\ "empty" \notin FillOps =>
         /\ made.card \/ "card" \in FillOps
         /\ Subscribes => /\ made.linked \/ "linkSubscription" \in FillOps
                          /\ "renewal" \in FillOps
                          /\ payment.status = "none" \/ made.settled \/ "settle" \in FillOps
    /\ "linkSubscription" \in FillOps => Subscribes
    /\ "subscribe" \in FillOps => made.subs = 0
    /\ "invoice" \in FillOps => ~ (made.invoices > 0)
BY DEF FillOps, Fill

-----------------------------------------------------------------------------
\* What an attempt at the payment with method m is made of
Tries(m, S) ==
    \E by \in {"any", "retry"} :
        \/ S = {Asked("method", m, "any"), Sent("processing", "", by), Sent("failed", "", "any")}
        \/ S = {Asked("method", m, "any"), Sent("processing", "", by),
                Asked("enqueue", "simulate", "any")}
        \/ \E s \in {"requires_action", "pending"} :
              S = {Asked("method", m, "any"), Sent(s, "", by)}

\* What the page's buttons ask for, a request, and the closing job
Controlled(S) ==
    \/ /\ payment.method = "bank_transfer" /\ payment.status = "expired"
       /\ S = {Sent("successful", "", "reversal")}
    \/ /\ assertOpen
       /\ \/ /\ payment.status \in {"requires_action", "pending"}
             /\ S = {Sent("processing", "", "any"), Asked("enqueue", "simulate", "any")}
          \/ S = {Sent("failed", "", "any")}
          \/ payment.status = "pending" /\ S = {Sent("processing", "underpaid", "any")}
          \/ /\ payment.status = "pending"
             /\ S = {Sent("processing", "", "any"), Sent("successful", "overpaid", "any"),
                     Plain("variance")}
          \/ payment.word = "underpaid" /\ S = {Sent("successful", "", "any")}
          \/ /\ payment.word = "underpaid"
             /\ S = {Sent("successful", "accepted", "any"), Plain("variance")}

Opens == {Plain("create"), Plain("index"), Plain("link")}

Paying(m, S) ==
    /\ assertOpen
    /\ \/ Chargeless /\ S = {Plain("fulfil"), Plain("completed")}
       \/ /\ ~ Chargeless /\ session.amount = "some"
          /\ \E T : /\ Tries(m, T)
                    /\ \/ ~ session.linked /\ S = Opens \cup T
                       \/ session.linked /\ S = T

Closed(grace, S) ==
    \/ /\ ~ session.linked /\ session.status = "open"
       /\ S = {Plain(IF Live THEN "completed" ELSE "expired")}
    \/ session.linked /\ Unfulfilled /\ S = {Plain("fulfil")}
    \/ session.linked /\ OnItsWay /\ ~ grace /\ S = {Asked("enqueue", "grace", "any")}
    \/ /\ session.linked /\ ~ (OnItsWay /\ ~ grace) /\ payment.status # "successful"
       /\ S = {Sent("expired", "", "any")}
    \/ /\ session.linked /\ payment.status = "failed"
       /\ S = {Sent("expired", "", "reversal")}

Decided(c, S) ==
    \/ S = {}
    \/ c.op = "identify" /\ assertOpen /\ S = {Plain("customer")}
    \/ c.op = "choose" /\ assertOpen /\ S = {Asked("amount", c.to, "any")}
    \/ /\ c.op = "free" /\ assertOpen /\ ~ Chargeless
       /\ ~ session.linked /\ S = {Plain("completed")}
    \/ c.op = "pay" /\ Paying(c.to, S)
    \/ c.op = "control" /\ session.linked /\ Controlled(S)
    \/ c.op = "close" /\ Closed(c.to = "grace", S)

-----------------------------------------------------------------------------

\* A move of the payment is a program of one step.
LEMMA MoveBand ==
    ASSUME NEW s \in PaymentStatus \ {"created", "partially_refunded", "refunded"},
           NEW word \in Notes, NEW by \in {"any", "retry", "reversal"},
           word = "underpaid" => s = "processing",
           word \in Over => s = "successful" /\ by = "any",
           NEW r, r = IF s \in Resumes THEN 9 ELSE 11
    PROVE  Band(Move(s, word, by), {Sent(s, word, by)}, r, r)
<1>1. Move(s, word, by) = <<Sent(s, word, by)>>
    BY DEF Move, Sent
<1>2. Sent(s, word, by) \in StepRow /\ Rank(Sent(s, word, by)) = r
    BY SentRow
<1> QED
    BY <1>1, <1>2, BandOne

\* The enqueueing of a job is a program of one step.
LEMMA JobBand ==
    ASSUME NEW k \in JobKind, NEW r, r = IF k = "simulate" THEN 11 ELSE 0
    PROVE  Band(Job(k), {Asked("enqueue", k, "any")}, r, r)
<1>1. Job(k) = <<Asked("enqueue", k, "any")>>
    BY DEF Job, Asked
<1>2. Asked("enqueue", k, "any") \in StepRow /\ Rank(Asked("enqueue", k, "any")) = r
    BY AskedRows
<1> QED
    BY <1>1, <1>2, BandOne

\* An operation is a program of one step.
LEMMA StepBand ==
    ASSUME NEW op \in Ops, op \notin {"enqueue", "to", "hop", "method", "pay", "amount", "choose"},
           NEW r, \A c \in StepRow : c.op = op => Rank(c) = r
    PROVE  Band(Step(op), {Plain(op)}, r, r)
<1>1. Plain(op) \in StepRow /\ Plain(op).op = op
    BY PlainRow
<1>2. Step(op) = <<Plain(op)>>
    BY DEF Step, Plain, Asked
<1> QED
    BY <1>1, <1>2, BandOne

\* A program between two ranks is one between wider ones.
LEMMA BandWiden ==
    ASSUME NEW s, NEW S, NEW l, NEW h, Band(s, S, l, h), NEW lo \in Nat, NEW hi \in Nat,
           lo <= l, h <= hi
    PROVE  Band(s, S, lo, hi)
<1>1. s \in Seq(StepRow) /\ S = {s[i] : i \in 1..Len(s)}
    BY DEF Band, Plan, Steps
<1>2. S \subseteq StepRow
    BY <1>1, ElementOfSeq
<1>3. \A x \in S : Rank(x) \in Nat
    <2> SUFFICES ASSUME NEW x \in StepRow
                 PROVE  Rank(x) \in Nat
        BY <1>2
    <2>1. Rank(x) \in 0..24
        BY Ranks
    <2> QED
        BY <2>1
<1> QED
    BY <1>3 DEF Band

(***************************************************************************)
(* An attempt is a program.                                                *)
(***************************************************************************)
LEMMA AttemptTries ==
    ASSUME NEW m \in Method, NEW refused \in BOOLEAN
    PROVE  \E T : Tries(m, T) /\ Band(attempt(m, refused), T, 8, 11)
<1> DEFINE first == IF payment.status = "failed" THEN "retry" ELSE "any"
           put == <<[op |-> "method", to |-> m, word |-> "", by |-> "any"]>>
           to(s) == <<[op |-> "to", to |-> s, word |-> "", by |-> first]>>
           Put == Asked("method", m, "any")
<1>1. Band(put, {Put}, 8, 8)
    <2>1. put = <<Put>>
        BY DEF Asked
    <2>2. Put \in StepRow /\ Rank(Put) = 8
        BY AskedRows
    <2> QED
        BY <2>1, <2>2, BandOne
<1>2. first \in {"any", "retry"}
    OBVIOUS
<1> HIDE DEF first
<1>3. \A s \in Resumes : Band(to(s), {Sent(s, "", first)}, 9, 9)
    <2> SUFFICES ASSUME NEW s \in Resumes
                 PROVE  Band(to(s), {Sent(s, "", first)}, 9, 9)
        OBVIOUS
    <2>1. to(s) = Move(s, "", first)
        BY DEF Move
    <2>2. Band(Move(s, "", first), {Sent(s, "", first)}, 9, 9)
        BY <1>2, MoveBand DEF Resumes, PaymentStatus, Notes, Over
    <2> QED
        BY <2>1, <2>2
<1>4. Band(To("failed"), {Sent("failed", "", "any")}, 11, 11)
    BY MoveBand DEF To, Resumes, PaymentStatus, Notes, Over
<1>5. Band(Job("simulate"), {Asked("enqueue", "simulate", "any")}, 11, 11)
    BY JobBand DEF JobKind
<1>7. "processing" \in Resumes /\ "requires_action" \in Resumes /\ "pending" \in Resumes
    BY DEF Resumes
<1> DEFINE One == {Put}
           Two(s) == {Sent(s, "", first)}
           Fails == {Sent("failed", "", "any")}
           Queues == {Asked("enqueue", "simulate", "any")}
<1> HIDE DEF put, to, One, Two, Fails, Queues
<1>16. Band(put, One, 8, 8) /\ Band(To("failed"), Fails, 11, 11) /\ Band(Job("simulate"), Queues, 11, 11)
    BY <1>1, <1>4, <1>5 DEF One, Fails, Queues
<1>6. \A s \in Resumes : Band(put \o to(s), One \cup Two(s), 8, 9)
    <2> SUFFICES ASSUME NEW s \in Resumes
                 PROVE  Band(put \o to(s), One \cup Two(s), 8, 9)
        OBVIOUS
    <2>1. Band(to(s), Two(s), 9, 9)
        BY <1>3 DEF Two
    <2> QED
        BY <1>16, <2>1, BandJoin
<1>8. Band((put \o to("processing")) \o To("failed"),
           (One \cup Two("processing")) \cup Fails, 8, 11)
    <2>1. Band(put \o to("processing"), One \cup Two("processing"), 8, 9)
        BY <1>6, <1>7
    <2> QED
        BY <1>16, <2>1, BandJoin
<1>9. Band((put \o to("processing")) \o Job("simulate"),
           (One \cup Two("processing"))
              \cup Queues, 8, 11)
    <2>1. Band(put \o to("processing"), One \cup Two("processing"), 8, 9)
        BY <1>6, <1>7
    <2> QED
        BY <1>16, <2>1, BandJoin
<1>10. \A s \in Resumes : Band(put \o to(s), One \cup Two(s), 8, 11)
    <2> SUFFICES ASSUME NEW s \in Resumes
                 PROVE  Band(put \o to(s), One \cup Two(s), 8, 11)
        OBVIOUS
    <2>1. Band(put \o to(s), One \cup Two(s), 8, 9)
        BY <1>6
    <2> QED
        BY <2>1, BandWiden
<1>11. attempt(m, refused) =
          CASE m = "card" /\ refused -> put \o to("processing") \o To("failed")
            [] m = "card" /\ ~ refused -> put \o to("processing") \o Job("simulate")
            [] m = "mobile_money" -> put \o to("requires_action")
            [] OTHER -> put \o to("pending")
    BY Zenon DEF attempt, put, to, first
<1>12. CASE m = "card" /\ refused
    <2>1. Tries(m, (One \cup Two("processing")) \cup Fails)
        BY <1>2 DEF Tries, One, Two, Fails, Queues
    <2> QED
        BY <1>8, <1>11, <1>12, <2>1
<1>13. CASE m = "card" /\ ~ refused
    <2>1. Tries(m, (One \cup Two("processing")) \cup Queues)
        BY <1>2 DEF Tries, One, Two, Fails, Queues
    <2> QED
        BY <1>9, <1>11, <1>13, <2>1
<1>14. CASE m = "mobile_money"
    <2>1. Tries(m, One \cup Two("requires_action"))
        BY <1>2 DEF Tries, One, Two, Fails, Queues
    <2> QED
        BY <1>7, <1>10, <1>11, <1>14, <2>1
<1>15. CASE m \notin {"card", "mobile_money"}
    <2>1. Tries(m, One \cup Two("pending"))
        BY <1>2 DEF Tries, One, Two, Fails, Queues
    <2> QED
        BY <1>7, <1>10, <1>11, <1>15, <2>1
<1> QED
    BY <1>12, <1>13, <1>14, <1>15 DEF Method

(***************************************************************************)
(* Paying is a program, from the creation of the payment on.               *)
(***************************************************************************)
LEMMA PayPlan ==
    ASSUME NEW m \in Method, NEW refused \in BOOLEAN
    PROVE  \E S : Plan(pay(m, refused), S) /\ (S = {} \/ Paying(m, S))
<1>1. CASE ~ assertOpen \/ ~ session.customer
    BY <1>1, PlanNone DEF pay
<1>2. CASE assertOpen /\ session.customer /\ Chargeless
    <2>1. pay(m, refused) = saveWithoutCharge(refused)
        BY <1>2 DEF pay
    <2>2. CASE refused
        BY <2>1, <2>2, PlanNone DEF saveWithoutCharge
    <2>3. CASE ~ refused
        <3>1. Band(Step("fulfil"), Plains({"fulfil"}), 14, 14)
            BY PlainBand, PlainRank
        <3>2. Band(Step("completed"), Plains({"completed"}), 24, 24)
            BY PlainBand, PlainRank
        <3>3. Band(Step("fulfil") \o Step("completed"),
                   Plains({"fulfil"} \cup {"completed"}), 14, 24)
            BY <3>1, <3>2, PlainsJoin
        <3>4. Plains({"fulfil"} \cup {"completed"}) = {Plain("fulfil"), Plain("completed")}
            BY DEF Plains
        <3>5. pay(m, refused) = Step("fulfil") \o Step("completed")
            BY <2>1, <2>3 DEF saveWithoutCharge
        <3>6. Plan(pay(m, refused), {Plain("fulfil"), Plain("completed")})
            BY <3>3, <3>4, <3>5 DEF Band
        <3> QED
            BY <1>2, <3>6 DEF Paying
    <2> QED
        BY <2>2, <2>3
<1>3. CASE assertOpen /\ session.customer /\ ~ Chargeless /\ session.amount # "some"
    BY <1>3, PlanNone DEF pay
<1>4. CASE assertOpen /\ session.customer /\ ~ Chargeless /\ session.amount = "some"
    <2>1. PICK T : Tries(m, T) /\ Band(attempt(m, refused), T, 8, 11)
        BY AttemptTries
    <2>2. CASE ~ session.linked
        <3> DEFINE open == Step("create") \o Step("index") \o Step("link")
                   One == {Plain("create")}
                   Two == {Plain("index")}
                   Three == {Plain("link")}
        <3>1. Band(Step("create"), One, 4, 4)
            BY StepBand, Ranks DEF Ops
        <3>2. Band(Step("index"), Two, 5, 5)
            BY StepBand, Ranks DEF Ops
        <3>3. Band(Step("link"), Three, 6, 6)
            BY StepBand, Ranks DEF Ops
        <3>4. pay(m, refused) = open \o attempt(m, refused)
            BY <1>4, <2>2 DEF pay
        <3>5. Opens = (One \cup Two) \cup Three
            BY DEF Opens
        <3> HIDE DEF One, Two, Three
        <3>6. Band(Step("create") \o Step("index"), One \cup Two, 4, 5)
            BY <3>1, <3>2, BandJoin
        <3>7. Band(open, (One \cup Two) \cup Three, 4, 6)
            BY <3>3, <3>6, BandJoin
        <3> HIDE DEF open
        <3>8. Band(open \o attempt(m, refused), ((One \cup Two) \cup Three) \cup T, 4, 11)
            BY <2>1, <3>7, BandJoin
        <3>9. Paying(m, Opens \cup T)
            BY <1>4, <2>1, <2>2 DEF Paying
        <3> QED
            BY <3>4, <3>5, <3>8, <3>9 DEF Band
    <2>3. CASE session.linked /\ payment.status \in {"failed", "created"}
        <3>1. pay(m, refused) = attempt(m, refused)
            BY <1>4, <2>3 DEF pay
        <3> QED
            BY <1>4, <2>1, <2>3, <3>1 DEF Band, Paying
    <2>4. CASE session.linked /\ payment.status \notin {"failed", "created"}
        <3>1. pay(m, refused) = <<>>
            BY <1>4, <2>4 DEF pay
        <3> QED
            BY <3>1, PlanNone
    <2> QED
        BY <2>2, <2>3, <2>4
<1> QED
    BY <1>1, <1>2, <1>3, <1>4

(***************************************************************************)
(* So are the page's buttons ...                                           *)
(***************************************************************************)
LEMMA ControlPlan ==
    ASSUME NEW action
    PROVE  \E S : Plan(testControl(action), S)
                  /\ (S = {} \/ (session.linked /\ Controlled(S)))
<1> DEFINE m == payment.method
           s == payment.status
           Under == {Sent("processing", "", "any")}
           Short == {Sent("processing", "underpaid", "any")}
           Sim == {Asked("enqueue", "simulate", "any")}
           Failed == {Sent("failed", "", "any")}
           Over_ == {Sent("successful", "overpaid", "any")}
           Rest == {Sent("successful", "", "any")}
           As == {Sent("successful", "accepted", "any")}
           Late == {Sent("successful", "", "reversal")}
           Differs == {Plain("variance")}
<1>1. /\ Band(To("processing"), Under, 9, 9)
      /\ Band(Move("processing", "underpaid", "any"), Short, 9, 9)
      /\ Band(To("failed"), Failed, 11, 11)
      /\ Band(Move("successful", "overpaid", "any"), Over_, 11, 11)
      /\ Band(To("successful"), Rest, 11, 11)
      /\ Band(Move("successful", "accepted", "any"), As, 11, 11)
      /\ Band(Move("successful", "", "reversal"), Late, 11, 11)
    BY MoveBand DEF To, Resumes, PaymentStatus, Notes, Over
<1>2. Band(Job("simulate"), Sim, 11, 11)
    BY JobBand DEF JobKind
<1>3. Band(Step("variance"), Differs, 24, 24)
    BY StepBand, Ranks DEF Ops
<1>4. CASE ~ session.linked
    <2>1. testControl(action) = <<>>
        BY <1>4 DEF testControl
    <2> QED
        BY <2>1, PlanNone
<1>5. CASE session.linked /\ action = "late_transfer"
    <2>1. testControl(action) = IF m = "bank_transfer" /\ s = "expired"
                                THEN Move("successful", "", "reversal") ELSE <<>>
        BY <1>5 DEF testControl
    <2>2. CASE m = "bank_transfer" /\ s = "expired"
        <3>1. Controlled(Late)
            BY <2>2 DEF Controlled
        <3> HIDE DEF Late
        <3> QED
            BY <1>1, <1>5, <2>1, <2>2, <3>1 DEF Band
    <2>3. CASE ~ (m = "bank_transfer" /\ s = "expired")
        <3>1. testControl(action) = <<>>
            BY <2>1, <2>3
        <3> QED
            BY <3>1, PlanNone
    <2> QED
        BY <2>2, <2>3
<1>6. CASE session.linked /\ action # "late_transfer" /\ ~ assertOpen
    <2>1. testControl(action) = <<>>
        BY <1>6 DEF testControl
    <2> QED
        BY <2>1, PlanNone
<1>7. CASE session.linked /\ action # "late_transfer" /\ assertOpen
    <2>1. testControl(action) =
            CASE action = "succeed" /\ s \in {"requires_action", "pending"} ->
                    To("processing") \o Job("simulate")
               [] action = "fail" /\ s \in {"pending", "requires_action", "processing"} ->
                    To("failed")
               [] action = "short" /\ m \in {"bank_transfer", "crypto"} /\ s = "pending" ->
                    Move("processing", "underpaid", "any")
               [] action = "overpaid" /\ m = "crypto" /\ s = "pending" ->
                    To("processing") \o Move("successful", "overpaid", "any")
                        \o Step("variance")
               [] action = "send_rest" /\ payment.word = "underpaid" -> To("successful")
               [] action = "accept" /\ payment.word = "underpaid" -> accept
               [] OTHER -> <<>>
        BY <1>7 DEF testControl
    <2> DEFINE p == testControl(action)
    <2> HIDE DEF p, m, s, Under, Short, Sim, Failed, Over_, Rest, As, Late, Differs
    <2>13. /\ Band(To("processing"), Under, 9, 9)
           /\ Band(Move("processing", "underpaid", "any"), Short, 9, 9)
           /\ Band(To("failed"), Failed, 11, 11)
           /\ Band(Move("successful", "overpaid", "any"), Over_, 11, 11)
           /\ Band(To("successful"), Rest, 11, 11)
           /\ Band(Move("successful", "accepted", "any"), As, 11, 11)
           /\ Band(Job("simulate"), Sim, 11, 11)
           /\ Band(Step("variance"), Differs, 24, 24)
        BY <1>1, <1>2, <1>3
    <2>2. Band(To("processing") \o Job("simulate"), Under \cup Sim, 9, 11)
        BY <2>13, BandJoin
    <2>3. Band(To("processing") \o Move("successful", "overpaid", "any"), Under \cup Over_, 9, 11)
        BY <2>13, BandJoin
    <2>4. Band((To("processing") \o Move("successful", "overpaid", "any")) \o Step("variance"),
               (Under \cup Over_) \cup Differs, 9, 24)
        BY <2>13, <2>3, BandJoin
    <2>5. Band(accept, As \cup Differs, 11, 24)
        BY <2>13, BandJoin DEF accept
    <2>6. CASE action = "succeed" /\ s \in {"requires_action", "pending"}
        <3>1. p = To("processing") \o Job("simulate")
            BY <2>1, <2>6 DEF p
        <3>2. Controlled(Under \cup Sim)
            BY <1>7, <2>6 DEF Controlled, Under, Sim, s
        <3> QED
            BY <1>7, <2>2, <3>1, <3>2 DEF p, Band
    <2>7. CASE action = "fail" /\ s \in {"pending", "requires_action", "processing"}
        <3>1. p = To("failed")
            BY <2>1, <2>7 DEF p
        <3>2. Controlled(Failed)
            BY <1>7, <2>7 DEF Controlled, Failed
        <3> QED
            BY <2>13, <1>7, <3>1, <3>2 DEF p, Band
    <2>8. CASE action = "short" /\ m \in {"bank_transfer", "crypto"} /\ s = "pending"
        <3>1. p = Move("processing", "underpaid", "any")
            BY <2>1, <2>8 DEF p
        <3>2. Controlled(Short)
            BY <1>7, <2>8 DEF Controlled, Short, s
        <3> QED
            BY <2>13, <1>7, <3>1, <3>2 DEF p, Band
    <2>9. CASE action = "overpaid" /\ m = "crypto" /\ s = "pending"
        <3>1. p = (To("processing") \o Move("successful", "overpaid", "any")) \o Step("variance")
            BY <2>1, <2>9 DEF p
        <3>2. Controlled((Under \cup Over_) \cup Differs)
            <4>1. (Under \cup Over_) \cup Differs =
                    {Sent("processing", "", "any"), Sent("successful", "overpaid", "any"),
                     Plain("variance")}
                BY DEF Under, Over_, Differs
            <4> QED
                BY <1>7, <2>9, <4>1 DEF Controlled, s
        <3> QED
            BY <1>7, <2>4, <3>1, <3>2 DEF p, Band
    <2>10. CASE action = "send_rest" /\ payment.word = "underpaid"
        <3>1. p = To("successful")
            BY <2>1, <2>10 DEF p
        <3>2. Controlled(Rest)
            BY <1>7, <2>10 DEF Controlled, Rest
        <3> QED
            BY <2>13, <1>7, <3>1, <3>2 DEF p, Band
    <2>11. CASE action = "accept" /\ payment.word = "underpaid"
        <3>1. p = accept
            BY <2>1, <2>11 DEF p
        <3>2. Controlled(As \cup Differs)
            BY <1>7, <2>11 DEF Controlled, As, Differs
        <3> QED
            BY <1>7, <2>5, <3>1, <3>2 DEF p, Band
    <2>12. CASE /\ ~ (action = "succeed" /\ s \in {"requires_action", "pending"})
                /\ ~ (action = "fail" /\ s \in {"pending", "requires_action", "processing"})
                /\ ~ (action = "short" /\ m \in {"bank_transfer", "crypto"} /\ s = "pending")
                /\ ~ (action = "overpaid" /\ m = "crypto" /\ s = "pending")
                /\ ~ (action = "send_rest" /\ payment.word = "underpaid")
                /\ ~ (action = "accept" /\ payment.word = "underpaid")
        <3>1. p = <<>>
            BY <2>1, <2>12 DEF p
        <3> QED
            BY <3>1, PlanNone DEF p
    <2> QED
        BY <2>6, <2>7, <2>8, <2>9, <2>10, <2>11, <2>12
<1> QED
    BY <1>4, <1>5, <1>6, <1>7

(***************************************************************************)
(* ... and what the closing job does.                                      *)
(***************************************************************************)
LEMMA ClosePlan ==
    ASSUME NEW grace \in BOOLEAN
    PROVE  \E S : Plan(expire(grace), S) /\ (S = {} \/ Closed(grace, S))
<1>1. /\ Plan(Step("completed"), {Plain("completed")})
      /\ Plan(Step("expired"), {Plain("expired")})
      /\ Plan(Step("fulfil"), {Plain("fulfil")})
    BY StepBand, Ranks DEF Ops, Band
<1>2. Plan(Job("grace"), {Asked("enqueue", "grace", "any")})
    BY JobBand DEF JobKind, Band
<1>3. /\ Plan(To("expired"), {Sent("expired", "", "any")})
      /\ Plan(Move("expired", "", "reversal"), {Sent("expired", "", "reversal")})
    BY MoveBand DEF To, Resumes, PaymentStatus, Notes, Over, Band
<1>4. CASE ~ session.linked /\ session.status # "open"
    <2>1. expire(grace) = <<>>
        BY <1>4 DEF expire
    <2> QED
        BY <2>1, PlanNone
<1>5. CASE ~ session.linked /\ session.status = "open" /\ Live
    BY <1>1, <1>5 DEF expire, Closed
<1>6. CASE ~ session.linked /\ session.status = "open" /\ ~ Live
    BY <1>1, <1>6 DEF expire, Closed
<1>7. CASE session.linked /\ Unfulfilled
    BY <1>1, <1>7 DEF expire, Closed
<1>8. CASE session.linked /\ ~ Unfulfilled /\ OnItsWay /\ ~ grace
    BY <1>2, <1>8 DEF expire, Closed
<1>9. CASE /\ session.linked /\ ~ Unfulfilled /\ ~ (OnItsWay /\ ~ grace)
           /\ payment.status \in {"created", "pending", "processing",
                                  "requires_action", "authorized"}
    <2>1. expire(grace) = To("expired") /\ payment.status # "successful"
        BY <1>9 DEF expire
    <2> QED
        BY <1>3, <1>9, <2>1 DEF Closed
<1>10. CASE /\ session.linked /\ ~ Unfulfilled /\ ~ (OnItsWay /\ ~ grace)
            /\ payment.status = "failed"
    <2>1. expire(grace) = Move("expired", "", "reversal")
        BY <1>10 DEF expire
    <2> QED
        BY <1>3, <1>10, <2>1 DEF Closed
<1>11. CASE /\ session.linked /\ ~ Unfulfilled /\ ~ (OnItsWay /\ ~ grace)
            /\ payment.status \notin {"created", "pending", "processing",
                                      "requires_action", "authorized", "failed"}
    <2>1. expire(grace) = <<>>
        BY <1>11 DEF expire
    <2> QED
        BY <2>1, PlanNone
<1> QED
    BY <1>4, <1>5, <1>6, <1>7, <1>8, <1>9, <1>10, <1>11

(***************************************************************************)
(* Whatever a request or a job asks for, it is given a program.            *)
(***************************************************************************)
LEMMA DecidePlan ==
    ASSUME NEW c \in StepRow, c.op \in Decisions
    PROVE  \E S : Plan(Decide(c), S) /\ Decided(c, S)
<1>1. c.op = "pay" => c.to \in Method
    BY DEF StepRow
<1>2. c.op = "choose" => c.to \in {"zero", "some"}
    BY DEF StepRow
<1>3. CASE c.op = "identify"
    <2>1. Plan(Step("customer"), {Plain("customer")})
        BY StepBand, Ranks DEF Ops, Band
    <2>2. Decide(c) = IF assertOpen THEN Step("customer") ELSE <<>>
        BY <1>3 DEF Decide, identify
    <2> QED
        BY <1>3, <2>1, <2>2, PlanNone DEF Decided
<1>4. CASE c.op = "choose"
    <2>1. Plan(Priced(c.to), {Asked("amount", c.to, "any")})
        <3>1. Asked("amount", c.to, "any") \in StepRow
            BY <1>2, <1>4, AskedRows
        <3>2. Priced(c.to) = <<Asked("amount", c.to, "any")>>
            BY DEF Priced, Asked
        <3> QED
            BY <3>1, <3>2, PlanOne
    <2>2. Decide(c) = IF assertOpen /\ ~ session.linked
                      THEN Priced(c.to) ELSE <<>>
        BY <1>4 DEF Decide, chooseAmount
    <2> QED
        BY <1>4, <2>1, <2>2, PlanNone DEF Decided
<1>5. CASE c.op = "free"
    <2>1. Plan(Step("completed"), {Plain("completed")})
        BY StepBand, Ranks DEF Ops, Band
    <2>2. Decide(c) = completeFree
        BY <1>5 DEF Decide
    <2> QED
        BY <1>5, <2>1, <2>2, PlanNone DEF Decided, completeFree
<1>6. CASE c.op = "pay"
    <2>1. PICK S : Plan(pay(c.to, c.by = "refused"), S) /\ (S = {} \/ Paying(c.to, S))
        BY <1>1, <1>6, PayPlan
    <2>2. Decide(c) = pay(c.to, c.by = "refused")
        BY <1>6 DEF Decide
    <2> QED
        BY <1>6, <2>1, <2>2 DEF Decided
<1>7. CASE c.op = "control"
    <2>1. PICK S : /\ Plan(testControl(c.to), S)
                   /\ S = {} \/ (session.linked /\ Controlled(S))
        BY ControlPlan
    <2>2. Decide(c) = testControl(c.to)
        BY <1>7 DEF Decide
    <2> QED
        BY <1>7, <2>1, <2>2 DEF Decided
<1>8. CASE c.op = "close"
    <2>1. PICK S : /\ Plan(expire(c.to = "grace"), S)
                   /\ S = {} \/ Closed(c.to = "grace", S)
        BY ClosePlan
    <2>2. Decide(c) = expire(c.to = "grace")
        BY <1>8 DEF Decide
    <2> QED
        BY <1>8, <2>1, <2>2 DEF Decided
<1> QED
    BY <1>3, <1>4, <1>5, <1>6, <1>7, <1>8 DEF Decisions

-----------------------------------------------------------------------------
\* What cannot be left beside what
Shaped ==
    \A t \in Tasks : \A c, d \in left[t] :
        /\ c.op = "adopt" => d.op \in Decisions \cup {"adopt"}
        /\ c.op \in {"to", "hop"} => d.op \notin {"cancelGroup", "publish", "fulfil"} \cup Fill
        /\ c.op \in {"cancelGroup", "publish"} => d.op \notin {"fulfil"} \cup Fill
        /\ c.op = "fulfil" => d.op \notin Fill

\* A method that is named is followed by the move it is named with.
Named ==
    \A t \in Tasks : \A c \in left[t] : c.op = "method" =>
        \E d \in left[t] : /\ d.op = "to" /\ d.to \in Resumes
                           /\ d.word = "" /\ d.by \in {"any", "retry"}

-----------------------------------------------------------------------------
\* The actions of a handler, as what they take from the steps it has left and
\* add to them
Adopted == IF orphan THEN {Plain("index"), Plain("link")} ELSE {}

GoAdopt(t, c) ==
    /\ c.op = "adopt"
    /\ Turns(t, Adopted \cup (left[t] \ {c}))
    /\ UNCHANGED <<rows, jobs, running, filling, lapsed, past>>

GoDecide(t, c) ==
    /\ c.op \in Decisions
    /\ \E S : Turns(t, S) /\ Decided(c, S)
    /\ UNCHANGED <<rows, jobs, running, filling, lapsed, past>>

Written(c) ==
    \/ /\ c.op = "store"
       /\ \E amount \in (IF mode = "payment" THEN {"unset", "zero", "some"}
                         ELSE IF mode = "save" THEN {"unset", "some"} ELSE {"some"}),
             known \in (IF mode \in {"payment", "save"} THEN BOOLEAN ELSE {TRUE}) :
             session' = [session EXCEPT !.status = "open", !.amount = amount,
                                        !.customer = known]
    \/ c.op = "token" /\ session' = [session EXCEPT !.token = TRUE]
    \/ c.op = "customer" /\ session' = [session EXCEPT !.customer = TRUE]
    \/ c.op = "amount" /\ session' = [session EXCEPT !.amount = c.to]
    \/ c.op = "index" /\ session' = [session EXCEPT !.indexed = TRUE]
    \/ c.op = "link" /\ session' = [session EXCEPT !.linked = TRUE]

GoWrite(t, c) ==
    /\ Written(c)
    /\ Turns(t, left[t] \ {c})
    /\ UNCHANGED <<mode, payment, made, variance, told, jobs, running, filling, lapsed, past>>

GoEnd(t, c) ==
    /\ c.op \in {"completed", "expired"}
    /\ session' = [session EXCEPT !.status = c.op]
    /\ told' = told \cup {c.op}
    /\ made' = IF c.op = "completed" /\ Subscribes /\ made.linked
                   /\ made.fulfilment = "none"
               THEN [made EXCEPT !.fulfilment = "made"] ELSE made
    /\ Turns(t, left[t] \ {c})
    /\ UNCHANGED <<mode, payment, variance, jobs, running, filling, lapsed, past>>

GoEnqueue(t, c) ==
    /\ c.op = "enqueue"
    /\ jobs' = [jobs EXCEPT ![c.to] = @ + 1]
    /\ Turns(t, left[t] \ {c})
    /\ UNCHANGED <<rows, running, filling, lapsed, past>>

GoCreate(t, c) ==
    /\ c.op = "create"
    /\ IF payment.status # "none" THEN Turns(t, {}) /\ UNCHANGED payment
       ELSE payment' = [payment EXCEPT !.status = "created"] /\ Turns(t, left[t] \ {c})
    /\ UNCHANGED <<mode, session, made, variance, told, jobs, running, filling, lapsed, past>>

GoName(t, c) ==
    /\ c.op = "method"
    /\ \E d \in left[t] :
          /\ d.op = "to" /\ d.to \in Resumes /\ d.word = "" /\ d.by \in {"any", "retry"}
          /\ IF assertPaymentTransition(payment.status, d.to, FALSE, d.by = "retry")
             THEN /\ payment' = [status |-> d.to, word |-> "", method |-> c.to]
                  /\ Turns(t, left[t] \ {c, d})
             ELSE Turns(t, {}) /\ UNCHANGED payment
    /\ UNCHANGED <<mode, session, made, variance, told, jobs, running, filling, lapsed, past>>

Tells(s) == IF s \in TerminalPayment \cup {"successful"}
            THEN {Plain("cancelGroup"), Plain("publish")} ELSE {}

GoMove(t, c) ==
    /\ c.op \in {"to", "hop"}
    /\ \/ /\ c.op = "hop" /\ task[t].seen = c.to
          /\ Turns(t, left[t] \ {c}) /\ UNCHANGED <<payment, told>>
       \/ /\ ~ (c.op = "hop" /\ task[t].seen = c.to)
          /\ assertPaymentTransition(payment.status, c.to, c.by = "reversal", c.by = "retry")
          /\ payment' = [payment EXCEPT !.status = c.to, !.word = c.word]
          /\ told' = told \cup Ending(c.to)
          /\ Turns(t, Tells(c.to) \cup (left[t] \ {c}))
       \/ /\ ~ (c.op = "hop" /\ task[t].seen = c.to)
          /\ ~ assertPaymentTransition(payment.status, c.to, c.by = "reversal", c.by = "retry")
          /\ Turns(t, {}) /\ UNCHANGED <<payment, told>>
    /\ UNCHANGED <<mode, session, made, variance, jobs, running, filling, lapsed, past>>

GoCancel(t, c) ==
    /\ c.op = "cancelGroup"
    /\ jobs' = [jobs EXCEPT !["simulate"] = 0]
    /\ running' = [running EXCEPT !.cancelled = @ \/ running.kind = "simulate"]
    /\ Turns(t, left[t] \ {c})
    /\ UNCHANGED <<rows, filling, lapsed, past>>

Pays == payment.status = "successful" /\ session.indexed /\ Keeps
Published == IF Pays THEN {Plain("fulfil")} ELSE {}

GoPublish(t, c) ==
    /\ c.op = "publish"
    /\ Turns(t, Published \cup (left[t] \ {c}))
    /\ UNCHANGED <<rows, jobs, running, filling, lapsed, past>>

GoVary(t, c) ==
    /\ c.op = "variance"
    /\ variance' = variance + 1
    /\ Turns(t, left[t] \ {c})
    /\ UNCHANGED <<mode, session, payment, made, told, jobs, running, filling, lapsed, past>>

GoFulfil(t, c) ==
    /\ c.op = "fulfil" /\ filling = None
    /\ \/ Done /\ Turns(t, left[t] \ {c}) /\ UNCHANGED filling
       \/ ~ Done /\ filling' = t /\ Turns(t, Plains(FillOps) \cup (left[t] \ {c}))
    /\ UNCHANGED <<rows, jobs, running, lapsed, past>>

Makes(c) ==
    \/ c.op = "cardRecord" /\ made' = [made EXCEPT !.record = @ + 1]
    \/ c.op = "card" /\ made' = [made EXCEPT !.card = TRUE]
    \/ c.op = "storeSubscription" /\ made' = [made EXCEPT !.stored = TRUE]
    \/ c.op = "subscribe" /\ made' = [made EXCEPT !.subs = @ + 1]
    \/ c.op = "linkSubscription" /\ made' = [made EXCEPT !.linked = TRUE]
    \/ c.op = "renewal" /\ made' = [made EXCEPT !.renewals = @ + 1]
    \/ c.op = "invoice" /\ made' = [made EXCEPT !.invoices = @ + 1]
    \/ c.op = "settle" /\ made' = [made EXCEPT !.settled = TRUE]
    \/ c.op = "empty" /\ made' = [made EXCEPT !.fulfilment = "empty"]
    \/ c.op = "fulfilled" /\ made' = [made EXCEPT !.fulfilment = "made"]

GoComplete(t, c) ==
    /\ Makes(c)
    /\ filling' = IF c.op \in {"empty", "fulfilled"} THEN None ELSE filling
    /\ Turns(t, left[t] \ {c})
    /\ UNCHANGED <<mode, session, payment, variance, told, jobs, running, lapsed, past>>

Gone(t, c) ==
    \/ GoAdopt(t, c) \/ GoDecide(t, c) \/ GoWrite(t, c) \/ GoEnd(t, c) \/ GoEnqueue(t, c)
    \/ GoCreate(t, c) \/ GoName(t, c) \/ GoMove(t, c) \/ GoCancel(t, c) \/ GoPublish(t, c)
    \/ GoVary(t, c) \/ GoFulfil(t, c) \/ GoComplete(t, c)

(***************************************************************************)
(* Steps that rank below the others that are left can be put before them.  *)
(***************************************************************************)
LEMMA BandTurns ==
    ASSUME Programs, NEW t \in Tasks, ~ Free(t), NEW a, NEW S, NEW l, NEW h, Band(a, S, l, h),
           Goes(t, a \o Tail(task[t].todo)),
           \A d \in left[t] \ {Current(t)} : h < Rank(d)
    PROVE  Turns(t, S \cup (left[t] \ {Current(t)}))
<1>1. a \in Seq(StepRow) /\ S = {a[i] : i \in 1..Len(a)}
    BY DEF Band, Plan, Steps
<1>2. S \subseteq StepRow /\ left[t] \subseteq StepRow
    BY <1>1, ElementOfSeq, LeftPlans
<1>3. \A x \in StepRow : Rank(x) \in Nat
    <2> SUFFICES ASSUME NEW x \in StepRow
                 PROVE  Rank(x) \in Nat
        OBVIOUS
    <2>1. Rank(x) \in 0..24
        BY Ranks
    <2> QED
        BY <2>1
<1>4. \A x \in S : \A d \in left[t] \ {Current(t)} : Rank(x) < Rank(d)
    <2> SUFFICES ASSUME NEW x \in S, NEW d \in left[t] \ {Current(t)}
                 PROVE  Rank(x) < Rank(d)
        OBVIOUS
    <2>1. Rank(x) \in Nat /\ Rank(d) \in Nat /\ Rank(x) <= h /\ h < Rank(d) /\ h \in Nat
        BY <1>2, <1>3 DEF Band
    <2> QED
        BY <2>1
<1> QED
    BY <1>4, JoinTurns DEF Band

(***************************************************************************)
(* The handlers' actions do that.                                          *)
(***************************************************************************)
LEMMA AdoptTurns ==
    ASSUME Programs, Shaped, NEW t \in Tasks, adoptOrphanPayment(t)
    PROVE  GoAdopt(t, Current(t))
<1> DEFINE c == Current(t)
           s == IF orphan THEN Step("index") \o Step("link") ELSE <<>>
           S == IF orphan THEN {Plain("index"), Plain("link")} ELSE {}
           One == {Plain("index")}
           Two == {Plain("link")}
<1>1. ~ Free(t) /\ c.op = "adopt" /\ Goes(t, s \o Tail(task[t].todo))
    BY DEF adoptOrphanPayment, At
<1>2. Band(Step("index"), One, 5, 5) /\ Band(Step("link"), Two, 6, 6)
    BY StepBand, Ranks DEF Ops
<1>3. One \cup Two = {Plain("index"), Plain("link")}
    OBVIOUS
<1> HIDE DEF One, Two
<1>4. Band(Step("index") \o Step("link"), One \cup Two, 5, 6)
    BY <1>2, BandJoin
<1>5. Band(s, S, 5, 6)
    <2>1. Band(<<>>, {}, 5, 6)
        BY BandNone
    <2> QED
        BY <1>3, <1>4, <2>1
<1>6. First(t, c) /\ left[t] \subseteq StepRow
    BY <1>1, AtStep, LeftPlans
<1>7. \A d \in left[t] \ {c} : Rank(d) = 7
    <2> SUFFICES ASSUME NEW d \in left[t] \ {c}
                 PROVE  Rank(d) = 7
        OBVIOUS
    <2>1. d \in StepRow /\ d.op \in Decisions \cup {"adopt"} /\ Rank(c) < Rank(d)
        BY <1>1, <1>6 DEF Shaped, First
    <2>2. c \in StepRow /\ Rank(c) = 3
        BY <1>1, <1>6, Ranks DEF First
    <2>3. d.op = "adopt" => Rank(d) = 3
        BY <2>1, Ranks
    <2> QED
        BY <2>1, <2>2, <2>3, Ranks
<1> HIDE DEF s, S, c
<1>8. \A d \in left[t] \ {c} : 6 < Rank(d)
    BY <1>7
<1>9. Turns(t, S \cup (left[t] \ {c}))
    BY <1>1, <1>5, <1>8, BandTurns DEF c
<1> QED
    BY <1>1, <1>9 DEF adoptOrphanPayment, GoAdopt, Adopted, S, c

\* A decision leaves one of the sets of steps that Decided lists.
LEMMA DecideTurns ==
    ASSUME Programs, NEW t \in Tasks, Decides(t)
    PROVE  GoDecide(t, Current(t))
<1>1. /\ ~ Free(t) /\ Current(t).op \in Decisions /\ Goes(t, Decide(Current(t)))
      /\ Current(t) \in StepRow
    BY AtStep DEF Decides, Decisions, First
<1>2. PICK S : Plan(Decide(Current(t)), S) /\ Decided(Current(t), S)
    BY <1>1, DecidePlan
<1>3. Turns(t, S)
    BY <1>1, <1>2, GoesTurns
<1> QED
    BY <1>1, <1>2, <1>3 DEF GoDecide, Decides

\* The handlers' writes, in terms of the sets of steps they leave.
LEMMA PlainTurns ==
    ASSUME Programs, NEW t \in Tasks
    PROVE  /\ WriteSession(t) => GoWrite(t, Current(t))
           /\ EndSession(t) => GoEnd(t, Current(t))
           /\ enqueue(t) => GoEnqueue(t, Current(t))
           /\ createPayment(t) => GoCreate(t, Current(t))
           /\ cancelGroup(t) => GoCancel(t, Current(t))
           /\ moveVariance(t) => GoVary(t, Current(t))
           /\ Complete(t) => GoComplete(t, Current(t))
<1>1. ~ Free(t) /\ Next_(t) => Turns(t, left[t] \ {Current(t)})
    BY NextTurns
<1>2. Stops(t) => Turns(t, {})
    BY StopsTurns
<1>3. WriteSession(t) => GoWrite(t, Current(t))
    <2> SUFFICES ASSUME WriteSession(t)
                 PROVE  GoWrite(t, Current(t))
        OBVIOUS
    <2>1. ~ Free(t) /\ Written(Current(t)) /\ Next_(t)
        BY DEF WriteSession, Written
    <2>2. UNCHANGED <<mode, payment, made, variance, told, jobs, running, filling, lapsed, past>>
        BY DEF WriteSession
    <2> QED
        BY <1>1, <2>1, <2>2 DEF GoWrite
<1>4. EndSession(t) => GoEnd(t, Current(t))
    BY <1>1 DEF EndSession, GoEnd
<1>5. enqueue(t) => GoEnqueue(t, Current(t))
    BY <1>1 DEF enqueue, GoEnqueue, At
<1>6. createPayment(t) => GoCreate(t, Current(t))
    BY <1>1, <1>2 DEF createPayment, GoCreate, At
<1>7. cancelGroup(t) => GoCancel(t, Current(t))
    BY <1>1 DEF cancelGroup, GoCancel, At
<1>8. moveVariance(t) => GoVary(t, Current(t))
    BY <1>1 DEF moveVariance, GoVary, At
<1>9. Complete(t) => GoComplete(t, Current(t))
    <2> SUFFICES ASSUME Complete(t)
                 PROVE  GoComplete(t, Current(t))
        OBVIOUS
    <2>1. ~ Free(t) /\ Makes(Current(t)) /\ Next_(t)
        BY DEF Complete, Makes
    <2>2. /\ filling' = IF Current(t).op \in {"empty", "fulfilled"} THEN None ELSE filling
          /\ UNCHANGED <<mode, session, payment, variance, told, jobs, running, lapsed, past>>
        BY DEF Complete
    <2> QED
        BY <1>1, <2>1, <2>2 DEF GoComplete
<1> QED
    BY <1>3, <1>4, <1>5, <1>6, <1>7, <1>8, <1>9

(***************************************************************************)
(* The naming of the method on the payment leaves the rest of the attempt. *)
(***************************************************************************)
LEMMA NameTurns ==
    ASSUME Programs, Named, NEW t \in Tasks, NameMethod(t)
    PROVE  GoName(t, Current(t))
<1> DEFINE c == Current(t)
           d == task[t].todo[2]
           s == Tail(task[t].todo)
<1>1. ~ Free(t) /\ c.op = "method"
    BY DEF NameMethod, At
<1>2. /\ First(t, c) /\ Plan(s, left[t] \ {c}) /\ left[t] \subseteq StepRow
      /\ task[t].todo \in Seq(StepRow)
    BY <1>1, AtStep, LeftPlans DEF Plan
<1>3. PICK e \in left[t] : /\ e.op = "to" /\ e.to \in Resumes
                           /\ e.word = "" /\ e.by \in {"any", "retry"}
    BY <1>1, <1>2 DEF Named, First
<1> HIDE DEF s, c
<1>16. e \in left[t] \ {c}
    BY <1>1, <1>3
<1>4. s # <<>> /\ e \in left[t] \ {c}
    <2>1. left[t] \ {c} # {}
        BY <1>16
    <2> HIDE DEF s
    <2>2. s = <<>> <=> left[t] \ {c} = {}
        BY <1>2, PlanEmpty
    <2> QED
        BY <1>16, <2>1, <2>2
<1>5. /\ Head(s) \in left[t] \ {c}
      /\ \A x \in left[t] \ {c} : x # Head(s) => Rank(Head(s)) < Rank(x)
      /\ Plan(Tail(s), (left[t] \ {c}) \ {Head(s)})
    BY <1>2, <1>4, PlanTail
<1>6. Rank(c) = 8 /\ Rank(e) = 9
    BY <1>1, <1>2, <1>3, Ranks DEF First
<1>7. Rank(c) < Rank(Head(s)) /\ Head(s) \in StepRow
    BY <1>2, <1>5 DEF First
<1>8. Rank(Head(s)) \in 0..24
    BY <1>7, Ranks
<1>9. Head(s) = e
    BY <1>4, <1>5, <1>6, <1>7, <1>8
<1>10. d = Head(s) /\ SubSeq(task[t].todo, 3, Len(task[t].todo)) = Tail(s)
    <2>1. Len(task[t].todo) \in Nat /\ Len(task[t].todo) > 1
        BY <1>1, <1>2, <1>4 DEF Free, s
    <2>2. SubSeq(task[t].todo, 3, Len(task[t].todo)) = Tail(s)
        BY <1>2, <2>1 DEF s
    <2> QED
        BY <1>2, <2>1, <2>2 DEF s
<1>11. (left[t] \ {c}) \ {Head(s)} = left[t] \ {c, e}
    BY <1>9
<1> HIDE DEF s, d
<1>12. Plan(SubSeq(task[t].todo, 3, Len(task[t].todo)), left[t] \ {c, e})
    BY <1>5, <1>10, <1>11
<1>13. Goes(t, SubSeq(task[t].todo, 3, Len(task[t].todo))) => Turns(t, left[t] \ {c, e})
    BY <1>12, GoesTurns
<1>14. Stops(t) => Turns(t, {})
    BY StopsTurns
<1>15. d = e
    BY <1>9, <1>10
<1> QED
    BY <1>1, <1>3, <1>13, <1>14, <1>15 DEF NameMethod, GoName, c, d

(***************************************************************************)
(* What ranks above a move, where no step beside it publishes or fulfils,  *)
(* ranks above what the move adds.                                         *)
(***************************************************************************)
LEMMA RankOver ==
    ASSUME NEW d \in StepRow
    PROVE  /\ Rank(d) > 11 /\ d.op \notin {"cancelGroup", "publish", "fulfil"} \cup Fill
                => Rank(d) > 13
           /\ Rank(d) > 13 /\ d.op # "fulfil" => Rank(d) > 14
<1>1. d.op \in Ops
    BY DEF StepRow
<1>2. /\ Rank(d) \in 0..24
      /\ d.op \in {"to", "hop"} => Rank(d) \in {9, 11}
      /\ d.op = "enqueue" => Rank(d) \in {0, 11}
      /\ d.op \in Decisions => Rank(d) = 7
      /\ d.op = "store" => Rank(d) = 1
      /\ d.op = "token" => Rank(d) = 2
      /\ d.op = "adopt" => Rank(d) = 3
      /\ d.op = "create" => Rank(d) = 4
      /\ d.op = "index" => Rank(d) = 5
      /\ d.op = "link" => Rank(d) = 6
      /\ d.op = "method" => Rank(d) = 8
    BY Ranks
<1>3. /\ d.op = "cancelGroup" => Rank(d) = 12
      /\ d.op = "publish" => Rank(d) = 13
      /\ d.op \in Fill => Rank(d) \in 15..23
      /\ d.op \in {"variance", "completed", "expired", "customer", "amount"} => Rank(d) = 24
    BY Ranks
<1> HIDE DEF Rank
<1> QED
    BY <1>1, <1>2, <1>3 DEF Ops

(***************************************************************************)
(* A move of the payment leaves what it tells (the group's cancellation,   *)
(* the publishing) and the rest.                                           *)
(***************************************************************************)
LEMMA MoveTurns ==
    ASSUME Programs, Shaped, NEW t \in Tasks, transitionPayment(t)
    PROVE  GoMove(t, Current(t))
<1> DEFINE c == Current(t)
           s == IF c.to \in TerminalPayment \cup {"successful"}
                THEN Step("cancelGroup") \o Step("publish") ELSE <<>>
           One == {Plain("cancelGroup")}
           Two == {Plain("publish")}
<1>1. ~ Free(t) /\ c.op \in {"to", "hop"}
    BY DEF transitionPayment
<1>2. First(t, c) /\ left[t] \subseteq StepRow
    BY <1>1, AtStep, LeftPlans
<1>3. Next_(t) => Turns(t, left[t] \ {c})
    BY <1>1, NextTurns
<1>4. Stops(t) => Turns(t, {})
    BY StopsTurns
<1>5. ASSUME Goes(t, s \o Tail(task[t].todo))
      PROVE  Turns(t, Tells(c.to) \cup (left[t] \ {c}))
    <2>1. CASE c.to \in TerminalPayment \cup {"successful"}
        <3>1. Band(Step("cancelGroup"), One, 12, 12) /\ Band(Step("publish"), Two, 13, 13)
            BY StepBand, Ranks DEF Ops
        <3>2. One \cup Two = Tells(c.to)
            BY <2>1 DEF Tells
        <3> HIDE DEF One, Two
        <3>3. Band(Step("cancelGroup") \o Step("publish"), One \cup Two, 12, 13)
            BY <3>1, BandJoin
        <3>4. Band(s, Tells(c.to), 12, 13)
            BY <2>1, <3>2, <3>3
        <3>5. \A d \in left[t] \ {c} : 13 < Rank(d)
            <4> SUFFICES ASSUME NEW d \in left[t] \ {c}
                         PROVE  13 < Rank(d)
                OBVIOUS
            <4>1. d \in StepRow /\ Rank(c) < Rank(d) /\ c \in StepRow /\ c \in left[t]
                BY <1>2 DEF First
            <4>2. d.op \notin {"cancelGroup", "publish", "fulfil"} \cup Fill
                BY <1>1, <4>1 DEF Shaped
            <4>3. Rank(c) = 11
                BY <1>1, <2>1, <4>1, Ranks DEF Resumes, TerminalPayment
            <4> QED
                BY <4>1, <4>2, <4>3, RankOver
        <3> HIDE DEF s, c
        <3> QED
            BY <1>1, <1>5, <3>4, <3>5, BandTurns DEF c
    <2>2. CASE c.to \notin TerminalPayment \cup {"successful"}
        <3>1. s = <<>> /\ Tells(c.to) = {}
            BY <2>2 DEF Tells
        <3>2. Goes(t, Tail(task[t].todo))
            <4>1. task[t].todo \in Seq(StepRow)
                BY LeftPlans DEF Plan
            <4>2. Tail(task[t].todo) \in Seq(StepRow)
                BY <1>1, <4>1 DEF Free
            <4> HIDE DEF s
            <4>3. s \o Tail(task[t].todo) = Tail(task[t].todo)
                BY <3>1, <4>2, ConcatEmptySeq
            <4> QED
                BY <1>5, <4>3, Zenon
        <3>3. Turns(t, left[t] \ {c})
            BY <1>3, <3>2 DEF Next_
        <3>4. Tells(c.to) \cup (left[t] \ {c}) = left[t] \ {c}
            BY <3>1
        <3> HIDE DEF c
        <3> QED
            BY <3>3, <3>4, Zenon
    <2> QED
        BY <2>1, <2>2
<1> HIDE DEF s
<1>6. /\ UNCHANGED <<mode, session, made, variance, jobs, running, filling, lapsed, past>>
      /\ IF c.op = "hop" /\ task[t].seen = c.to
         THEN Next_(t) /\ UNCHANGED <<payment, told>>
         ELSE IF assertPaymentTransition(payment.status, c.to, c.by = "reversal", c.by = "retry")
         THEN /\ payment' = [payment EXCEPT !.status = c.to, !.word = c.word]
              /\ told' = told \cup Ending(c.to)
              /\ Goes(t, s \o Tail(task[t].todo))
         ELSE Stops(t) /\ UNCHANGED <<payment, told>>
    BY Zenon DEF transitionPayment, s
<1> HIDE DEF c
<1> QED
    BY <1>1, <1>3, <1>4, <1>5, <1>6 DEF GoMove, c

\* The success event leaves the completion work and the rest.
LEMMA PublishTurns ==
    ASSUME Programs, Shaped, NEW t \in Tasks, onPaymentSuccessful(t)
    PROVE  GoPublish(t, Current(t))
<1> DEFINE c == Current(t)
           s == IF Pays THEN Step("fulfil") ELSE <<>>
           S == IF Pays THEN {Plain("fulfil")} ELSE {}
<1>1. ~ Free(t) /\ c.op = "publish" /\ Goes(t, s \o Tail(task[t].todo))
    BY DEF onPaymentSuccessful, At, Pays
<1>2. First(t, c) /\ left[t] \subseteq StepRow
    BY <1>1, AtStep, LeftPlans
<1>3. Band(s, S, 14, 14)
    <2>1. Band(Step("fulfil"), {Plain("fulfil")}, 14, 14)
        BY StepBand, Ranks DEF Ops
    <2>2. Band(<<>>, {}, 14, 14)
        BY BandNone
    <2> QED
        BY <2>1, <2>2
<1>4. \A d \in left[t] \ {c} : 14 < Rank(d)
    <2> SUFFICES ASSUME NEW d \in left[t] \ {c}
                 PROVE  14 < Rank(d)
        OBVIOUS
    <2>1. d \in StepRow /\ Rank(c) < Rank(d) /\ c \in StepRow /\ c \in left[t]
        BY <1>2 DEF First
    <2>2. d.op # "fulfil"
        BY <1>1, <2>1 DEF Shaped
    <2>3. Rank(c) = 13
        BY <1>1, <2>1, Ranks
    <2> QED
        BY <2>1, <2>2, <2>3, RankOver
<1> HIDE DEF s, S, c
<1>5. Turns(t, S \cup (left[t] \ {c}))
    BY <1>1, <1>3, <1>4, BandTurns DEF c
<1> QED
    BY <1>1, <1>5 DEF onPaymentSuccessful, GoPublish, Published, S, c

(***************************************************************************)
(* fulfilCheckout claims the work and leaves its steps, or leaves the rest *)
(* alone.                                                                  *)
(***************************************************************************)
LEMMA FulfilTurns ==
    ASSUME TypeOK, Programs, Shaped, NEW t \in Tasks, fulfilCheckout(t)
    PROVE  GoFulfil(t, Current(t))
<1> DEFINE c == Current(t)
           s == IF payment.status # "none" /\ payment.method # "card"
                THEN Step("empty")
                ELSE saveCard \o (IF Subscribes THEN startSubscription ELSE <<>>)
                     \o Step("fulfilled")
<1>1. ~ Free(t) /\ c.op = "fulfil" /\ filling = None
    BY DEF fulfilCheckout, At, FillFree
<1>2. First(t, c) /\ left[t] \subseteq StepRow
    BY <1>1, AtStep, LeftPlans
<1>3. Band(s, Plains(FillOps), 15, 23)
    BY FillBand
<1>4. \A d \in left[t] \ {c} : 23 < Rank(d)
    <2> SUFFICES ASSUME NEW d \in left[t] \ {c}
                 PROVE  23 < Rank(d)
        OBVIOUS
    <2>1. d \in StepRow /\ Rank(c) < Rank(d) /\ c \in StepRow /\ c \in left[t]
        BY <1>2 DEF First
    <2>2. d.op \notin Fill
        BY <1>1, <2>1 DEF Shaped
    <2>3. Rank(c) = 14
        BY <1>1, <2>1, Ranks
    <2>4. Rank(d) \in 0..24 /\ (Rank(d) \in 15..23 => d.op \in Fill)
        BY <2>1, Ranks
    <2> QED
        BY <2>1, <2>2, <2>3, <2>4
<1>5. Next_(t) => Turns(t, left[t] \ {c})
    BY <1>1, NextTurns
<1>6. /\ UNCHANGED <<rows, jobs, running, lapsed, past>>
      /\ IF Done THEN Next_(t) /\ UNCHANGED filling
         ELSE filling' = t /\ Goes(t, s \o Tail(task[t].todo))
    BY Zenon DEF fulfilCheckout
<1> HIDE DEF s, c
<1>7. Goes(t, s \o Tail(task[t].todo)) => Turns(t, Plains(FillOps) \cup (left[t] \ {c}))
    BY <1>1, <1>3, <1>4, BandTurns DEF c
<1> QED
    BY <1>1, <1>5, <1>6, <1>7 DEF GoFulfil, c

(***************************************************************************)
(* Every step of a handler takes its first step.                           *)
(***************************************************************************)
LEMMA HandlerGoes ==
    ASSUME TypeOK, Programs, Shaped, Named, NEW t \in Tasks, HandlerStep(t)
    PROVE  \E c : First(t, c) /\ Gone(t, c)
<1>1. ~ Free(t)
    BY DEF HandlerStep, adoptOrphanPayment, Decides, WriteSession, EndSession, enqueue,
           createPayment, NameMethod, transitionPayment, cancelGroup, onPaymentSuccessful,
           moveVariance, fulfilCheckout, Complete, At
<1>2. First(t, Current(t))
    BY <1>1, AtStep
<1>3. Gone(t, Current(t))
    BY AdoptTurns, DecideTurns, PlainTurns, NameTurns, MoveTurns, PublishTurns, FulfilTurns
       DEF HandlerStep, Gone
<1> QED
    BY <1>2, <1>3

-----------------------------------------------------------------------------
\* The steps a handler begins with
Hop(s) == [op |-> "hop", to |-> s, word |-> "", by |-> "any"]

NewSession == {Asked("enqueue", "expire", "any"), Plain("store"), Plain("token")}
Tool(S) ==
    \/ \E s \in {"failed", "cancelled", "authorized"} : S = {Sent(s, "", "any")}
    \/ S = {Sent("processing", "", "any"), Sent("successful", "", "any")}

Begun(c) == {Plain("adopt"), c}
Outcome == {Hop("processing"), Hop("successful")}
Closing == Asked("close", running.kind, "any")

GoSession(t) ==
    /\ LockFree /\ session.status = "none" /\ jobs["expire"] = 0 /\ running.kind = "none"
    /\ ~ lapsed /\ lock' = t
    /\ Begins(t, NewSession)
    /\ UNCHANGED <<rows, jobs, running, filling, lapsed, past>>

GoAct(t) ==
    /\ LockFree /\ session.token /\ lock' = t
    /\ \E c \in Asks : Begins(t, Begun(c))
    /\ UNCHANGED <<rows, jobs, running, filling, lapsed, past>>

GoTool(t) ==
    /\ payment.status # "none" /\ past.tools < MaxTools
    /\ past' = [past EXCEPT !.tools = @ + 1]
    /\ \E S : Begins(t, S) /\ Tool(S)
    /\ UNCHANGED <<rows, jobs, running, lock, filling, lapsed>>

GoHandle ==
    /\ running.kind # "none" /\ ~ running.begun
    /\ \/ /\ running.kind = "simulate"
          /\ Begins(Poll, Outcome)
          /\ seen' = payment.status
          /\ UNCHANGED lock
       \/ /\ running.kind # "simulate"
          /\ Begins(Poll, Begun(Closing))
          /\ seen' = "none"
          /\ LockFree /\ lock' = Poll
    /\ running' = [running EXCEPT !.begun = TRUE]
    /\ UNCHANGED <<rows, jobs, filling, lapsed, past>>

GoDie ==
    /\ past.deaths < MaxDeaths
    /\ past' = [past EXCEPT !.deaths = @ + 1]
    /\ Programs' /\ left' = [t \in Tasks |-> {}] /\ seen' = "none"
    /\ lock' = None /\ filling' = None
    /\ jobs' = [k \in JobKind |->
                  jobs[k] + IF running.kind = k /\ ~ running.cancelled THEN 1 ELSE 0]
    /\ running' = NoJob
    /\ UNCHANGED <<rows, lapsed>>

RunningOK == running \in [kind : JobKind \cup {"none"}, begun : BOOLEAN, cancelled : BOOLEAN]

\* The two moves of the job that plays the sandbox.
LEMMA HopRow ==
    /\ Hop("processing") \in StepRow /\ Rank(Hop("processing")) = 9
    /\ Hop("successful") \in StepRow /\ Rank(Hop("successful")) = 11
<1> DEFINE c == Hop("processing")
           d == Hop("successful")
<1>1. /\ c \in StepRow /\ c.op = "hop" /\ c.to = "processing"
      /\ d \in StepRow /\ d.op = "hop" /\ d.to = "successful"
    BY DEF Hop, StepRow, Ops, Words, Notes, Over, PaymentStatus
<1> HIDE DEF c, d
<1>2. Rank(c) = 9 /\ Rank(d) = 11
    BY <1>1, Ranks DEF Resumes
<1> QED
    BY <1>1, <1>2 DEF c, d

\* The decisions a caller asks for, and the closing job's.
LEMMA AsksRow ==
    /\ \A c \in Asks : c \in StepRow /\ c.op \in Decisions /\ Rank(c) = 7
    /\ \A k \in JobKind : /\ Asked("close", k, "any") \in StepRow
                          /\ Rank(Asked("close", k, "any")) = 7
<1>1. \A c \in Asks : c \in StepRow /\ c.op \in Decisions
    <2>1. \A c \in {Asked("identify", "any", "any"), Asked("free", "any", "any")} :
              c \in StepRow /\ c.op \in Decisions
        <3>1. /\ "identify" \in Ops /\ "identify" \in Decisions /\ "" \in Notes
              /\ "free" \in Ops /\ "free" \in Decisions /\ "" \notin Over /\ "any" \in Words
            BY DEF Ops, Notes, Over, Decisions, Words
        <3>2. \A op \in {"identify", "free"} :
                  Asked(op, "any", "any") \in StepRow /\ Asked(op, "any", "any").op = op
            BY <3>1 DEF Asked, StepRow
        <3>3. \A op \in {"identify", "free"} : op \in Decisions
            BY <3>1
        <3> QED
            BY <3>2, <3>3
    <2>2. \A size \in {"zero", "some"} :
              Asked("choose", size, "any") \in StepRow
              /\ Asked("choose", size, "any").op \in Decisions
        <3>1. "choose" \in Ops /\ "choose" \in Decisions /\ "" \in Notes /\ "" \notin Over
            BY DEF Ops, Notes, Over, Decisions
        <3>2. \A size \in {"zero", "some"} : size \in Words
            BY DEF Words
        <3> QED
            BY <3>1, <3>2 DEF Asked, StepRow
    <2>3. \A m \in Method : \A by \in {"any", "refused"} :
              Asked("pay", m, by) \in StepRow /\ Asked("pay", m, by).op \in Decisions
        <3>1. "pay" \in Ops /\ "pay" \in Decisions /\ "" \in Notes /\ "" \notin Over
            BY DEF Ops, Notes, Over, Decisions
        <3>2. \A m \in Method : m \in Words
            BY DEF Words
        <3> QED
            BY <3>1, <3>2 DEF Asked, StepRow
    <2>4. \A a \in {"late_transfer", "succeed", "fail", "short", "overpaid",
                    "send_rest", "accept"} :
              Asked("control", a, "any") \in StepRow
              /\ Asked("control", a, "any").op \in Decisions
        BY DEF Asked, StepRow, Ops, Words, Notes, Over, Decisions
    <2>5. "card" \in Method
        BY DEF Method
    <2> QED
        BY <2>1, <2>2, <2>3, <2>4, <2>5 DEF Asks
<1>2. \A k \in JobKind : Asked("close", k, "any") \in StepRow
                         /\ Asked("close", k, "any").op \in Decisions
    BY DEF Asked, StepRow, Ops, Words, Notes, Over, Decisions
<1>3. \A c \in StepRow : c.op \in Decisions => Rank(c) = 7
    BY Ranks
<1> QED
    BY <1>1, <1>2, <1>3

(***************************************************************************)
(* What begins is a program.                                               *)
(***************************************************************************)
LEMMA SessionBegins ==
    ASSUME Programs, NEW t \in Callers, CreateSession(t)
    PROVE  GoSession(t)
<1> DEFINE One == {Asked("enqueue", "expire", "any")}
           Two == {Plain("store")}
           Three == {Plain("token")}
<1>1. /\ Band(Job("expire"), One, 0, 0)
      /\ Band(Step("store"), Two, 1, 1) /\ Band(Step("token"), Three, 2, 2)
    BY JobBand, StepBand, Ranks DEF JobKind, Ops
<1>2. NewSession = (One \cup Two) \cup Three
    BY DEF NewSession
<1> HIDE DEF One, Two, Three
<1>3. Band(Job("expire") \o Step("store"), One \cup Two, 0, 1)
    BY <1>1, BandJoin
<1>4. Band((Job("expire") \o Step("store")) \o Step("token"), (One \cup Two) \cup Three, 0, 2)
    BY <1>1, <1>3, BandJoin
<1>5. Plan((Job("expire") \o Step("store")) \o Step("token"), NewSession)
    BY <1>2, <1>4 DEF Band
<1>6. t \in Tasks
    BY DEF Tasks
<1>7. Begins(t, NewSession)
    BY <1>5, <1>6, FreshBegins DEF CreateSession
<1> QED
    BY <1>7 DEF CreateSession, GoSession

\* A call takes the session's lock before it decides.
LEMMA AskBand ==
    ASSUME NEW c \in StepRow, Rank(c) = 7
    PROVE  Plan(Step("adopt") \o <<c>>, Begun(c))
<1> DEFINE One == {Plain("adopt")}
           Two == {c}
<1>1. Band(Step("adopt"), One, 3, 3) /\ Band(<<c>>, Two, 7, 7)
    BY StepBand, BandOne, Ranks DEF Ops
<1>2. One \cup Two = {Plain("adopt"), c}
    OBVIOUS
<1> HIDE DEF One, Two
<1>3. Band(Step("adopt") \o <<c>>, One \cup Two, 3, 7)
    BY <1>1, BandJoin
<1> QED
    BY <1>2, <1>3 DEF Band, Begun

\* A caller's request begins one of the handlers' programs.
LEMMA ActBegins ==
    ASSUME Programs, NEW t \in Callers, act(t)
    PROVE  GoAct(t)
<1>1. PICK c \in Asks :
         task' = [task EXCEPT ![t] = [Idle EXCEPT !.todo = Step("adopt") \o <<c>>]]
    BY DEF act
<1>2. Plan(Step("adopt") \o <<c>>, Begun(c))
    BY AsksRow, AskBand
<1>3. t \in Tasks
    BY DEF Tasks
<1>4. Begins(t, Begun(c))
    BY <1>1, <1>2, <1>3, FreshBegins DEF act
<1> QED
    BY <1>4 DEF act, GoAct

\* A tool's move begins a program of one or two moves.
LEMMA ToolBegins ==
    ASSUME Programs, NEW t \in Callers, ToolMove(t)
    PROVE  GoTool(t)
<1> DEFINE One == {Sent("processing", "", "any")}
           Two == {Sent("successful", "", "any")}
           paid == Move("processing", "", "any") \o To("successful")
           short == {Move(s, "", "any") : s \in {"failed", "cancelled", "authorized"}}
<1>1. t \in Tasks
    BY DEF Tasks
<1>2. /\ Band(Move("processing", "", "any"), One, 9, 9)
      /\ Band(To("successful"), Two, 11, 11)
    BY MoveBand DEF To, Resumes, PaymentStatus, Notes, Over
<1>3. One \cup Two = {Sent("processing", "", "any"), Sent("successful", "", "any")}
    OBVIOUS
<1> HIDE DEF One, Two, short
<1> HIDE DEF paid
<1>4. Band(paid, One \cup Two, 9, 11)
    <2>1. \A a, b : Band(a, One, 9, 9) /\ Band(b, Two, 11, 11) => Band(a \o b, One \cup Two, 9, 11)
        BY BandJoin
    <2>2. Band(Move("processing", "", "any") \o To("successful"), One \cup Two, 9, 11)
        BY <1>2, <2>1
    <2> QED
        BY <2>2 DEF paid
<1> USE DEF short, paid
<1>5. Plan(paid, One \cup Two) /\ Tool(One \cup Two)
    BY <1>3, <1>4 DEF Band, Tool
<1>6. \A s \in {"failed", "cancelled", "authorized"} : Plan(Move(s, "", "any"), {Sent(s, "", "any")})
    <2> SUFFICES ASSUME NEW s \in {"failed", "cancelled", "authorized"}
                 PROVE  Plan(Move(s, "", "any"), {Sent(s, "", "any")})
        OBVIOUS
    <2>1. Band(Move(s, "", "any"), {Sent(s, "", "any")}, 11, 11)
        BY MoveBand DEF Resumes, PaymentStatus, Notes, Over
    <2> QED
        BY <2>1 DEF Band
<1>7. PICK path \in short \cup {paid} :
         task' = [task EXCEPT ![t] = [Idle EXCEPT !.todo = path]]
    BY Zenon DEF ToolMove
<1>8. \E S : Plan(path, S) /\ Tool(S)
    <2>1. CASE path = paid
        BY <1>5, <2>1
    <2>2. CASE path \in short
        <3> HIDE DEF paid
        <3>1. PICK s \in {"failed", "cancelled", "authorized"} : path = Move(s, "", "any")
            BY <2>2
        <3>2. Tool({Sent(s, "", "any")})
            BY DEF Tool
        <3> QED
            BY <1>6, <3>1, <3>2
    <2> QED
        BY <2>1, <2>2
<1> HIDE DEF short, paid
<1>9. Free(t)
    BY DEF ToolMove
<1>10. \E S : Begins(t, S) /\ Tool(S)
    BY <1>1, <1>7, <1>8, <1>9, FreshBegins
<1>11. /\ payment.status # "none" /\ past.tools < MaxTools
       /\ past' = [past EXCEPT !.tools = @ + 1]
       /\ UNCHANGED <<rows, jobs, running, lock, filling, lapsed>>
    BY Zenon DEF ToolMove
<1> QED
    BY <1>10, <1>11 DEF GoTool

\* A claimed job begins its handler's program.
LEMMA HandleBegins ==
    ASSUME TypeOK, RunningOK, Programs, Handle
    PROVE  GoHandle
<1>1. Poll \in Tasks /\ Free(Poll) /\ left[Poll] = {}
    BY LeftPlans DEF Tasks, Handle
<1>2. CASE running.kind = "simulate"
    <2> DEFINE One == {Hop("processing")}
               Two == {Hop("successful")}
               row == [Idle EXCEPT !.todo = Hops, !.seen = payment.status]
    <2>1. Band(<<Hop("processing")>>, One, 9, 9) /\ Band(<<Hop("successful")>>, Two, 11, 11)
        <3>1. /\ Band(<<Hop("processing")>>, One, Rank(Hop("processing")), Rank(Hop("processing")))
              /\ Band(<<Hop("successful")>>, Two, Rank(Hop("successful")), Rank(Hop("successful")))
            BY BandOne, HopRow
        <3> QED
            BY <3>1, HopRow
    <2>2. Hops = <<Hop("processing")>> \o <<Hop("successful")>>
        <3>1. Hops = <<Hop("processing"), Hop("successful")>>
            BY DEF Hops, Hop
        <3> QED
            BY <3>1
    <2>3. One \cup Two = {Hop("processing"), Hop("successful")}
        OBVIOUS
    <2> HIDE DEF One, Two
    <2>4. Band(<<Hop("processing")>> \o <<Hop("successful")>>, One \cup Two, 9, 11)
        BY <2>1, BandJoin
    <2>5. Plan(Hops, Outcome)
        BY <2>2, <2>3, <2>4 DEF Band, Outcome
    <2>6. row \in TaskRow /\ row.todo = Hops /\ row.seen = payment.status
        <3>1. payment.status \in PaymentStatus \cup {"none"}
            BY DEF TypeOK
        <3>2. Hops \in Seq(StepRow)
            BY <2>5 DEF Plan
        <3> QED
            BY <3>1, <3>2 DEF Idle, TaskRow
    <2>7. task' = [task EXCEPT ![Poll] = row]
        BY <1>2 DEF Handle
    <2> HIDE DEF row
    <2>8. /\ Programs' /\ Leaves(Poll, Outcome)
          /\ seen' = row.seen
        BY <1>1, <2>5, <2>6, <2>7, Replaced
    <2> QED
        BY <1>1, <1>2, <2>6, <2>8 DEF GoHandle, Begins, Handle
<1>3. CASE running.kind # "simulate"
    <2> DEFINE c == Asked("close", running.kind, "any")
               row == [Idle EXCEPT !.todo = Step("adopt") \o <<c>>]
    <2>1. running.kind \in JobKind
        BY DEF RunningOK, Handle
    <2>2. Plan(Step("adopt") \o <<c>>, Begun(c))
        BY <2>1, AsksRow, AskBand
    <2>3. row \in TaskRow /\ row.todo = Step("adopt") \o <<c>> /\ row.seen = "none"
        BY <2>2 DEF Idle, TaskRow, Plan
    <2>4. task' = [task EXCEPT ![Poll] = row]
        BY <1>3 DEF Handle
    <2> HIDE DEF row
    <2>5. /\ Programs' /\ Leaves(Poll, Begun(c))
          /\ seen' = row.seen
        BY <1>1, <2>2, <2>3, <2>4, Replaced
    <2>6. Begins(Poll, Begun(c))
        BY <1>1, <2>5 DEF Begins
    <2> QED
        BY <1>3, <2>3, <2>5, <2>6 DEF GoHandle, Handle, Closing
<1> QED
    BY <1>2, <1>3

\* Tasks that are all idle have nothing left.
LEMMA NoneLeft ==
    ASSUME task' = [t \in Tasks |-> Idle]
    PROVE  Programs' /\ left' = [t \in Tasks |-> {}] /\ seen' = "none"
<1>1. Idle \in TaskRow
    <2>1. <<>> \in Seq(StepRow)
        OBVIOUS
    <2> QED
        BY <2>1 DEF TaskRow, Idle
<1>2. Ranked(Idle.todo) /\ Steps(Idle.todo) = {}
    BY PlanNone DEF Plan, Idle
<1>3. Idle.seen = "none"
    BY DEF Idle
<1> HIDE DEF Idle
<1>4. Poll \in Tasks
    BY DEF Tasks
<1> QED
    BY <1>1, <1>2, <1>3, <1>4 DEF Programs, left, seen

\* A death of the process leaves nothing to do, and no lock held.
LEMMA DieGoes ==
    ASSUME Die
    PROVE  GoDie
BY NoneLeft DEF Die, GoDie

-----------------------------------------------------------------------------
\* The steps that need no lock of the session
Unlocked == {"to", "hop", "cancelGroup", "publish", "fulfil"} \cup Fill

PastOK == past \in [tools : Nat, deaths : Nat]
Typed == TypeOK /\ RunningOK /\ PastOK /\ lapsed \in BOOLEAN

\* The session's lock, and the job in hand
Locked ==
    /\ \A t \in Tasks : \A c \in left[t] : c.op \notin Unlocked => lock = t
    /\ lock # None => left[lock] # {}
    /\ past.tools = 0 => \A t \in Callers : left[t] # {} => lock = t
    /\ left[Poll] # {} => running.begun
    /\ running.begun => running.kind # "none"
    /\ left[Poll] # {} /\ running.kind # "simulate" => lock = Poll
    /\ lock = Poll => running.kind # "simulate"
    /\ \A t \in Tasks : \A c \in left[t] :
           c.op = "hop" => t = Poll /\ running.kind = "simulate"
    /\ running.kind = "simulate" => \A c \in left[Poll] : c.op # "to"
    /\ \A c \in left[Poll] : c.op \notin {"pay", "control", "method", "create", "variance"}

\* The session and its payment
Stored(t, c) ==
    /\ c.op \in Decisions \cup {"adopt", "index", "link", "create", "customer", "completed",
                                "expired", "amount", "method"} => session.status # "none"
    /\ c.op = "store" => session.status = "none"
    /\ c.op = "token" => session.status # "none" \/ Has(left[t], "store")
    /\ c.op \in {"method", "pay"} /\ mode \notin {"payment", "save"} => c.to = "card"

Paid(t, c) ==
    /\ c.op \in Decisions => Has(left[t], "adopt") \/ Has(left[t], "link") \/ ~ orphan
    /\ c.op = "create" => session.status = "open" /\ ~ Chargeless /\ Has(left[t], "link")
    /\ c.op = "link" => Has(left[t], "create") \/ payment.status # "none"
    /\ c.op = "method" => ~ Chargeless /\ (Has(left[t], "create") \/ payment.status # "none")
    /\ c.op \in {"to", "hop"} \/ (c.op = "enqueue" /\ c.to = "simulate") =>
          payment.status # "none" \/ Has(left[t], "method")
    /\ c.op \in {"completed", "expired"} => payment.status = "none" /\ session.status = "open"
    /\ c.op = "to" /\ c.by = "reversal" =>
          /\ c.to \in {"successful", "expired"} /\ lock = t
          /\ c.to = "successful" =>
                payment.method = "bank_transfer" /\ ~ Has(left[t], "method")

Sold ==
    /\ payment.status # "none" => session.status = "open" /\ ~ Chargeless
    /\ session.linked => payment.status # "none"
    /\ jobs["simulate"] > 0 \/ running.kind = "simulate" => payment.status # "none"
    /\ mode \notin {"payment", "save"} => payment.method = "card"
    /\ session.token \/ lapsed => session.status # "none"
    /\ \A t \in Tasks : \A c \in left[t] : Stored(t, c)
    /\ \A t \in Tasks : \A c \in left[t] : Paid(t, c)

Told ==
    /\ payment.status = "none" => told = {session.status} \cap {"completed", "expired"}
    /\ payment.status # "none" =>
         /\ "completed" \in told <=> payment.status = "successful"
         /\ "expired" \in told => \/ payment.status = "expired"
                                  \/ /\ payment.status = "successful"
                                     /\ payment.method = "bank_transfer"
    /\ payment.status \notin {"partially_refunded", "refunded"}

\* The completion work, by whoever holds its lock
Filling(t) == \E c \in left[t] : c.op \in Fill

Makings(t, c) ==
    /\ c.op \in Fill \ {"empty"} => Has(left[t], "fulfilled")
    /\ c.op = "empty" => ~ Subscribes
    /\ c.op = "linkSubscription" => Subscribes
    /\ c.op = "subscribe" => made.subs = 0
    /\ c.op = "invoice" => made.invoices = 0
    /\ c.op = "fulfilled" =>
         /\ made.card \/ Has(left[t], "card")
         /\ Subscribes => made.linked \/ Has(left[t], "linkSubscription")
         /\ Subscribes => made.renewals > 0 \/ Has(left[t], "renewal")
         /\ mode = "subscription" => made.settled \/ Has(left[t], "settle")

Whole ==
    made.fulfilment = "made" =>
        /\ made.card
        /\ Subscribes => made.linked
        /\ Subscribes => made.renewals > 0 \/ (mode = "trial" /\ past.deaths > 0)
        /\ mode = "subscription" => made.settled

Filled ==
    /\ \A t \in Tasks : filling = t <=> Filling(t)
    /\ \A t \in Tasks : \A c, d \in left[t] : c.op \in Fill => Rank(d) >= 15
    /\ filling # None => made.fulfilment = "none"
    /\ made.subs <= 1 /\ made.invoices <= 1
    /\ made.linked => made.card /\ Subscribes
    /\ \A t \in Tasks : \A c \in left[t] : Makings(t, c)
    /\ Whole

\* What the completion work is done for
Fulfils(t) == \E c \in left[t] : c.op \in Fill \cup {"fulfil"}

Earned ==
    /\ ~ Chargeless =>
         /\ made.linked \/ made.fulfilment # "none" => payment.status = "successful"
         /\ \A t \in Tasks : Fulfils(t) => payment.status = "successful"
    /\ Chargeless => \A t \in Tasks : Fulfils(t) =>
         lock = t /\ session.status = "open" /\ Has(left[t], "completed")
    /\ made.linked => "expired" \notin told
    /\ \A t \in Tasks : \A c \in left[t] :
         /\ c.op = "expired" => ~ made.linked /\ left[t] = {c}
         /\ c.op = "completed" =>
              /\ \A d \in left[t] : d.op \in Fill \cup {"fulfil", "completed"}
              /\ mode = "trial" => \/ Fulfils(t) \/ made.fulfilment # "none"
                                   \/ made.linked /\ past.deaths > 0
    /\ mode = "trial" /\ made.linked /\ made.fulfilment = "none" /\ past.deaths = 0
         => filling # None

\* The difference of what arrived
Owing(t) == Has(left[t], "variance") /\ ~ Has(left[t], "to")

Varies(t) ==
    Has(left[t], "variance") =>
        /\ t \in Callers
        /\ \A c \in left[t] :
              c.op \in {"to", "cancelGroup", "publish", "fulfil", "variance"} \cup Fill
        /\ Has(left[t], "to") => \E c \in left[t] : c.word \in Over
        /\ Owing(t) => payment.word \in Over

Varied ==
    past.deaths = 0 =>
        /\ payment.word \in Over => payment.status = "successful"
        /\ \A t \in Tasks : \A c \in left[t] : c.word \in Over => Has(left[t], "variance")
        /\ \A t \in Tasks : Varies(t)
        /\ variance = IF payment.word \in Over /\ \A t \in Tasks : ~ Owing(t) THEN 1 ELSE 0

\* Money on its way has someone who settles it before the closing job's grace ends.
Calm(t) ==
    \A c \in left[t] : /\ c.op \notin {"method", "enqueue", "create"}
                       /\ c.op = "to" => c.by = "reversal" /\ c.to = "successful"

Drives(c) ==
    \/ c.op = "enqueue" /\ c.to = "simulate"
    \/ c.op = "to" /\ c.to \in {"failed", "successful"} /\ c.by # "reversal"

Driven ==
    \/ jobs["simulate"] > 0
    \/ running.kind = "simulate" /\ ~ running.begun
    \/ /\ running.kind = "simulate"
       /\ \E c \in left[Poll] : c.op = "hop" /\ c.to = "successful"
       /\ (\E c \in left[Poll] : c.op = "hop" /\ c.to = "processing") => seen = "processing"
    \/ \E t \in Callers : /\ lock = t
                          /\ \E c \in left[t] : Drives(c) /\ \A d \in left[t] : Rank(c) <= Rank(d)

Waits(t, c) ==
    /\ c.op = "cancelGroup" => \/ payment.status = "successful"
                               \/ lock = t /\ payment.status \in TerminalPayment
    /\ c.op = "to" /\ c.to = "expired" => t = Poll /\ ~ OnItsWay
    /\ c.op = "enqueue" /\ c.to = "grace" => t = Poll
    /\ c.op = "close" => t = Poll /\ (c.to = "grace" => running.kind = "grace")
    /\ c.op = "to" /\ c.to = "processing" /\ c.word # "underpaid" =>
          t \in Callers /\ \E d \in left[t] : Drives(d)
    /\ c.op = "hop" /\ c.to = "processing" =>
          \E d \in left[t] : d.op = "hop" /\ d.to = "successful"

Way ==
    /\ seen = "successful" => payment.status = "successful"
    /\ running.kind \in {"expire", "grace"} => lapsed
    /\ jobs["grace"] > 0 => lapsed
    /\ \A t \in Tasks : \A c \in left[t] :
           c.op = "close" \/ (c.op = "enqueue" /\ c.to = "grace") => lapsed
    /\ past.tools = 0 /\ past.deaths = 0 =>
         /\ OnItsWay => Driven
         /\ \A t \in Tasks : \A c \in left[t] : Waits(t, c)
         /\ jobs["grace"] > 0 \/ running.kind = "grace" => \A t \in Callers : Calm(t)
         /\ running.kind = "grace" => ~ OnItsWay

IInv ==
    /\ Typed /\ Programs /\ Shaped /\ Named
    /\ Locked /\ Sold /\ Told /\ Filled /\ Earned /\ Varied /\ Way

-----------------------------------------------------------------------------
\* The scheduler's actions, and time's, that leave the handlers alone
Same == Programs' /\ left' = left /\ seen' = seen

GoClaim(k) ==
    /\ left[Poll] = {} /\ running.kind = "none" /\ Due(k)
    /\ jobs' = [jobs EXCEPT ![k] = @ - 1]
    /\ running' = [kind |-> k, begun |-> FALSE, cancelled |-> FALSE]
    /\ Same
    /\ UNCHANGED <<rows, lock, filling, lapsed, past>>

GoFinish ==
    /\ left[Poll] = {} /\ running.begun
    /\ running' = NoJob
    /\ Same
    /\ UNCHANGED <<rows, jobs, lock, filling, lapsed, past>>

GoLapse ==
    /\ session.status # "none" /\ ~ lapsed
    /\ lapsed' = TRUE
    /\ Same
    /\ UNCHANGED <<rows, jobs, running, lock, filling, past>>

GoStutter == Same /\ UNCHANGED <<rows, jobs, running, lock, filling, lapsed, past>>

GoNext ==
    \/ \E t \in Callers : GoSession(t) \/ GoAct(t) \/ GoTool(t)
    \/ \E t \in Tasks : \E c : First(t, c) /\ Gone(t, c)
    \/ \E k \in JobKind : GoClaim(k)
    \/ GoHandle \/ GoFinish \/ GoLapse \/ GoDie \/ GoStutter

\* Where no task moves, nothing is left that was not.
LEMMA SameTasks ==
    ASSUME Programs, task' = task
    PROVE  Same
BY DEF Same, Programs, left, seen

(***************************************************************************)
(* Every step of the specification is one of the Go steps, which speak of  *)
(* sets of steps only.                                                     *)
(***************************************************************************)
LEMMA NextGoes ==
    ASSUME Typed, Programs, Shaped, Named, [Next]_vars
    PROVE  GoNext
<1>1. Free(Poll) => left[Poll] = {}
    BY LeftPlans DEF Tasks
<1>2. task' = task => Same
    BY SameTasks
<1>3. ASSUME NEW t \in Callers, CreateSession(t)
      PROVE  GoNext
    BY <1>3, SessionBegins DEF GoNext
<1>4. ASSUME NEW t \in Callers, act(t)
      PROVE  GoNext
    BY <1>4, ActBegins DEF GoNext
<1>5. ASSUME NEW t \in Callers, ToolMove(t)
      PROVE  GoNext
    BY <1>5, ToolBegins DEF GoNext
<1>6. ASSUME NEW t \in Tasks, HandlerStep(t)
      PROVE  GoNext
    BY <1>6, HandlerGoes DEF GoNext, Typed
<1>7. ASSUME NEW k \in JobKind, Claim(k)
      PROVE  GoNext
    <2>1. GoClaim(k)
        BY <1>1, <1>2, <1>7 DEF Claim, GoClaim
    <2> QED
        BY <2>1 DEF GoNext
<1>8. Handle => GoNext
    BY HandleBegins DEF GoNext, Typed
<1>9. Finish => GoNext
    <2>1. Finish => GoFinish
        BY <1>1, <1>2 DEF Finish, GoFinish
    <2> QED
        BY <2>1 DEF GoNext
<1>10. Lapse => GoNext
    <2>1. Lapse => GoLapse
        BY <1>2 DEF Lapse, GoLapse
    <2> QED
        BY <2>1 DEF GoNext
<1>11. Die => GoNext
    BY DieGoes DEF GoNext
<1>12. UNCHANGED vars => GoNext
    <2>1. UNCHANGED vars => GoStutter
        BY <1>2 DEF vars, GoStutter
    <2> QED
        BY <2>1 DEF GoNext
<1> QED
    BY <1>3, <1>4, <1>5, <1>6, <1>7, <1>8, <1>9, <1>10, <1>11, <1>12 DEF Next, PollStep

-----------------------------------------------------------------------------
\* What a decision c makes of a step d of its program S
DecidedStep(c, S, d) ==
    /\ d.op \in {"customer", "amount", "completed", "expired", "create", "index", "link",
                 "method", "to", "enqueue", "fulfil", "variance"}
    /\ d.op \in {"create", "index", "link"} =>
          /\ c.op = "pay" /\ assertOpen /\ ~ Chargeless /\ ~ session.linked
          /\ Has(S, "create") /\ Has(S, "link")
    /\ d.op = "method" =>
          /\ c.op = "pay" /\ d.to = c.to /\ assertOpen /\ ~ Chargeless
          /\ session.linked \/ Has(S, "create")
          /\ \E e \in S : /\ e.op = "to" /\ e.to \in Resumes
                          /\ e.word = "" /\ e.by \in {"any", "retry"}
    /\ d.op = "to" => session.linked \/ Has(S, "method")
    /\ d.op = "to" /\ d.by = "reversal" =>
          \/ d.to = "expired" /\ c.op = "close" /\ payment.status = "failed"
          \/ /\ d.to = "successful" /\ payment.method = "bank_transfer"
             /\ ~ Has(S, "method")
    /\ d.op = "to" /\ d.by # "reversal" => assertOpen \/ c.op = "close"
    /\ d.op = "to" /\ d.to = "expired" => c.op = "close" /\ (~ OnItsWay \/ c.to = "grace")
    /\ d.op = "to" /\ d.to = "processing" /\ d.word # "underpaid" =>
          c.op \in {"pay", "control"} /\ \E e \in S : Drives(e)
    /\ d.op = "enqueue" => \/ /\ d.to = "simulate" /\ assertOpen
                              /\ session.linked \/ Has(S, "method")
                           \/ d.to = "grace" /\ c.op = "close"
    /\ d.op = "completed" =>
          /\ \A e \in S : e.op \in {"fulfil", "completed"}
          /\ \/ c.op = "free" /\ assertOpen /\ ~ Chargeless /\ ~ session.linked
             \/ c.op = "pay" /\ Chargeless /\ assertOpen /\ Has(S, "fulfil")
             \/ c.op = "close" /\ ~ session.linked /\ session.status = "open" /\ Live
    /\ d.op = "expired" =>
          c.op = "close" /\ ~ session.linked /\ session.status = "open" /\ ~ Live /\ S = {d}
    /\ d.op = "fulfil" =>
          /\ \A e \in S : e.op \in {"fulfil", "completed"}
          /\ \/ Chargeless /\ assertOpen /\ Has(S, "completed")
             \/ session.linked /\ payment.status = "successful"
    /\ d.op = "variance" =>
          /\ c.op = "control" /\ \A e \in S : e.op \in {"to", "variance"}
          /\ \E e \in S : e.op = "to" /\ e.word \in Over
    /\ d.word \in Over => Has(S, "variance")

TriedStep(m, T, d) ==
    /\ d.op \in {"method", "to", "enqueue"}
    /\ d.op = "method" => d.to = m
    /\ d.op = "to" => d.by # "reversal" /\ d.to # "expired"
    /\ d.op = "to" /\ d.to = "processing" => \E e \in T : Drives(e)
    /\ d.op = "enqueue" => d.to = "simulate"
    /\ d.word \notin Over

\* The steps of an attempt, one by one.
LEMMA TriesSteps ==
    ASSUME NEW m, NEW T, Tries(m, T)
    PROVE  /\ \A d \in T : TriedStep(m, T, d)
           /\ Has(T, "method")
           /\ \E e \in T : /\ e.op = "to" /\ e.to \in Resumes
                           /\ e.word = "" /\ e.by \in {"any", "retry"}
<1>1. PICK by \in {"any", "retry"} :
        \/ T = {Asked("method", m, "any"), Sent("processing", "", by), Sent("failed", "", "any")}
        \/ T = {Asked("method", m, "any"), Sent("processing", "", by),
                Asked("enqueue", "simulate", "any")}
        \/ \E s \in {"requires_action", "pending"} :
              T = {Asked("method", m, "any"), Sent(s, "", by)}
    BY DEF Tries
<1> DEFINE a == Asked("method", m, "any")
           q == Asked("enqueue", "simulate", "any")
           f == Sent("failed", "", "any")
           to(s) == Sent(s, "", by)
<1>2. /\ TriedStep(m, T, a) /\ TriedStep(m, T, q) /\ TriedStep(m, T, f)
      /\ Drives(q) /\ Drives(f)
      /\ \A s \in {"processing", "requires_action", "pending"} :
            /\ s # "processing" \/ q \in T \/ f \in T => TriedStep(m, T, to(s))
            /\ to(s).op = "to" /\ to(s).to = s
            /\ to(s).word = "" /\ to(s).by \in {"any", "retry"} /\ s \in Resumes
      /\ a.op = "method"
    BY DEF TriedStep, Asked, Sent, Over, Resumes, Drives
<1> HIDE DEF a, q, f, to
<1>3. CASE T = {a, to("processing"), f}
    BY <1>2, <1>3 DEF Has
<1>4. CASE T = {a, to("processing"), q}
    BY <1>2, <1>4 DEF Has
<1>5. ASSUME NEW s \in {"requires_action", "pending"}, T = {a, to(s)}
      PROVE  /\ \A d \in T : TriedStep(m, T, d)
             /\ Has(T, "method")
             /\ \E e \in T : /\ e.op = "to" /\ e.to \in Resumes
                             /\ e.word = "" /\ e.by \in {"any", "retry"}
    BY <1>2, <1>5 DEF Has
<1> QED
    BY <1>1, <1>3, <1>4, <1>5 DEF a, q, f, to

\* The steps of paying, one by one.
LEMMA PayingSteps ==
    ASSUME NEW c, c.op = "pay", NEW S, Paying(c.to, S), NEW d \in S
    PROVE  DecidedStep(c, S, d)
<1>1. assertOpen
    BY DEF Paying
<1>2. CASE Chargeless /\ S = {Plain("fulfil"), Plain("completed")}
    <2> DEFINE a == Plain("fulfil")
               b == Plain("completed")
    <2>1. /\ a.op = "fulfil" /\ b.op = "completed" /\ a.word \notin Over /\ b.word \notin Over
        BY DEF Plain, Asked, Over
    <2> HIDE DEF a, b
    <2>2. S = {a, b}
        BY <1>2 DEF a, b
    <2> QED
        BY <1>1, <1>2, <2>1, <2>2 DEF DecidedStep, Has
<1>3. ASSUME ~ Chargeless, NEW T, Tries(c.to, T),
             \/ ~ session.linked /\ S = Opens \cup T
             \/ session.linked /\ S = T
      PROVE  DecidedStep(c, S, d)
    <2>1. /\ \A e \in T : TriedStep(c.to, T, e)
          /\ \E e \in T : e.op = "method"
          /\ \E e \in T : /\ e.op = "to" /\ e.to \in Resumes
                          /\ e.word = "" /\ e.by \in {"any", "retry"}
        BY <1>3, TriesSteps DEF Has
    <2>2. /\ \A e \in Opens : e.op \in {"create", "index", "link"} /\ e.word \notin Over
          /\ \E e \in Opens : e.op = "create"
          /\ \E e \in Opens : e.op = "link"
        BY DEF Opens, Plain, Asked, Over
    <2>3. Has(S, "method") /\ (session.linked \/ (Has(S, "create") /\ Has(S, "link")))
        BY <1>3, <2>1, <2>2 DEF Has
    <2>4. \E e \in S : /\ e.op = "to" /\ e.to \in Resumes
                        /\ e.word = "" /\ e.by \in {"any", "retry"}
        BY <1>3, <2>1
    <2>5. CASE d \in T
        <3>1. TriedStep(c.to, T, d) /\ T \subseteq S
            BY <1>3, <2>1, <2>5
        <3> QED
            BY <1>1, <1>3, <2>3, <2>4, <3>1 DEF DecidedStep, TriedStep
    <2>6. CASE d \notin T
        <3>1. /\ d.op \in {"create", "index", "link"} /\ d.word \notin Over
              /\ ~ session.linked
            BY <1>3, <2>2, <2>6
        <3> QED
            BY <1>1, <1>3, <2>3, <3>1 DEF DecidedStep
    <2> QED
        BY <2>5, <2>6
<1> QED
    BY <1>2, <1>3 DEF Paying

\* The steps of a control call, one by one.
LEMMA ControlledSteps ==
    ASSUME NEW c, c.op = "control", NEW S, session.linked, Controlled(S), NEW d \in S
    PROVE  DecidedStep(c, S, d)
<1> DEFINE Under == Sent("processing", "", "any")
           Short == Sent("processing", "underpaid", "any")
           Sim == Asked("enqueue", "simulate", "any")
           Failed == Sent("failed", "", "any")
           Over_ == Sent("successful", "overpaid", "any")
           Rest == Sent("successful", "", "any")
           As == Sent("successful", "accepted", "any")
           Late == Sent("successful", "", "reversal")
           Differs == Plain("variance")
<1>1. /\ \A e \in {Under, Short, Failed, Over_, Rest, As} :
            e.op = "to" /\ e.by = "any" /\ e.to # "expired"
      /\ Short.word = "underpaid" /\ Failed.to = "failed"
      /\ \A e \in {Over_, Rest, As} : e.to = "successful"
      /\ Drives(Sim) /\ Drives(Over_)
      /\ Late.op = "to" /\ Late.by = "reversal" /\ Late.to = "successful"
      /\ Sim.op = "enqueue" /\ Sim.to = "simulate" /\ Differs.op = "variance"
      /\ \A e \in {Under, Short, Sim, Failed, Rest, Late, Differs} : e.word \notin Over
      /\ Over_.word \in Over /\ As.word \in Over
    BY DEF Sent, Asked, Plain, Over, Drives
<1>2. \/ payment.method = "bank_transfer" /\ S = {Late}
      \/ /\ assertOpen
         /\ \/ S = {Under, Sim} \/ S = {Failed} \/ S = {Short}
            \/ S = {Under, Over_, Differs} \/ S = {Rest} \/ S = {As, Differs}
    BY DEF Controlled
<1> HIDE DEF Under, Short, Sim, Failed, Over_, Rest, As, Late, Differs
<1>3. CASE payment.method = "bank_transfer" /\ S = {Late}
    BY <1>1, <1>3 DEF DecidedStep, Has
<1>4. CASE assertOpen /\ S = {Under, Sim}
    BY <1>1, <1>4 DEF DecidedStep, Has
<1>5. CASE assertOpen /\ (S = {Failed} \/ S = {Short} \/ S = {Rest})
    BY <1>1, <1>5 DEF DecidedStep, Has
<1>6. CASE assertOpen /\ S = {Under, Over_, Differs}
    BY <1>1, <1>6 DEF DecidedStep, Has
<1>7. CASE assertOpen /\ S = {As, Differs}
    BY <1>1, <1>7 DEF DecidedStep, Has
<1> QED
    BY <1>2, <1>3, <1>4, <1>5, <1>6, <1>7

\* The steps of the closing job, one by one.
LEMMA ClosedSteps ==
    ASSUME NEW c, c.op = "close", NEW S, Closed(c.to = "grace", S), NEW d \in S
    PROVE  DecidedStep(c, S, d)
<1> DEFINE a == Plain("completed")
           b == Plain("expired")
           f == Plain("fulfil")
           g == Asked("enqueue", "grace", "any")
           x == Sent("expired", "", "any")
           y == Sent("expired", "", "reversal")
<1>1. /\ a.op = "completed" /\ b.op = "expired" /\ f.op = "fulfil"
      /\ g.op = "enqueue" /\ g.to = "grace"
      /\ x.op = "to" /\ x.to = "expired" /\ x.by = "any"
      /\ y.op = "to" /\ y.to = "expired" /\ y.by = "reversal"
      /\ \A e \in {a, b, f, g, x, y} : e.word \notin Over
    BY DEF Plain, Asked, Sent, Over
<1>2. \/ ~ session.linked /\ session.status = "open" /\ Live /\ S = {a}
      \/ ~ session.linked /\ session.status = "open" /\ ~ Live /\ S = {b}
      \/ session.linked /\ payment.status = "successful" /\ S = {f}
      \/ S = {g}
      \/ session.linked /\ (~ OnItsWay \/ c.to = "grace") /\ S = {x}
      \/ session.linked /\ payment.status = "failed" /\ ~ OnItsWay /\ S = {y}
    BY DEF Closed, Unfulfilled, OnItsWay
<1> HIDE DEF a, b, f, g, x, y
<1> QED
    BY <1>1, <1>2 DEF DecidedStep, Has

\* The steps any decision leaves, one by one.
LEMMA DecidedSteps ==
    ASSUME NEW c, NEW S, Decided(c, S), NEW d \in S
    PROVE  DecidedStep(c, S, d)
<1> DEFINE a == Plain("customer")
           b == Asked("amount", c.to, "any")
           f == Plain("completed")
<1>1. /\ a.op = "customer" /\ a.word \notin Over /\ b.op = "amount" /\ b.word \notin Over
      /\ f.op = "completed" /\ f.word \notin Over
    BY DEF Plain, Asked, Over
<1>2. \/ c.op = "identify" /\ assertOpen /\ S = {a}
      \/ c.op = "choose" /\ assertOpen /\ S = {b}
      \/ c.op = "free" /\ assertOpen /\ ~ Chargeless /\ ~ session.linked /\ S = {f}
      \/ c.op = "pay" /\ Paying(c.to, S)
      \/ c.op = "control" /\ session.linked /\ Controlled(S)
      \/ c.op = "close" /\ Closed(c.to = "grace", S)
    BY DEF Decided
<1> HIDE DEF a, b, f
<1>3. CASE c.op = "identify" /\ assertOpen /\ S = {a}
    BY <1>1, <1>3 DEF DecidedStep
<1>4. CASE c.op = "choose" /\ assertOpen /\ S = {b}
    BY <1>1, <1>4 DEF DecidedStep
<1>5. CASE c.op = "free" /\ assertOpen /\ ~ Chargeless /\ ~ session.linked /\ S = {f}
    BY <1>1, <1>5 DEF DecidedStep
<1> QED
    BY <1>2, <1>3, <1>4, <1>5, PayingSteps, ControlledSteps, ClosedSteps

(***************************************************************************)
(* What the steps are that handlers begin with, and that are added to them *)
(***************************************************************************)
LEMMA PlainOp ==
    ASSUME NEW op
    PROVE  /\ Plain(op).op = op /\ Plain(op).to = "any" /\ Plain(op).by = "any"
           /\ Plain(op).word \notin Over
BY DEF Plain, Asked, Over

(***************************************************************************)
(* The steps that adopting, telling, publishing and the completion work    *)
(* add, one by one.                                                        *)
(***************************************************************************)
LEMMA AddedSteps ==
    /\ \A d \in Adopted : orphan /\ d.op \in {"index", "link"} /\ d.word \notin Over
    /\ orphan => \E d \in Adopted : d.op = "link"
    /\ \A s : \A d \in Tells(s) : /\ d.op \in {"cancelGroup", "publish"}
                                 /\ d.word \notin Over
                                 /\ s \in TerminalPayment \cup {"successful"}
    /\ \A d \in Published : Pays /\ d.op = "fulfil" /\ d.word \notin Over
    /\ \A O : /\ \A d \in Plains(O) : d.op \in O /\ d.word \notin Over
              /\ \A op \in O : \E d \in Plains(O) : d.op = op
<1>1. \A d \in Adopted : orphan /\ d.op \in {"index", "link"} /\ d.word \notin Over
    BY PlainOp DEF Adopted
<1>2. orphan => \E d \in Adopted : d.op = "link"
    BY PlainOp DEF Adopted
<1>3. \A s : \A d \in Tells(s) : /\ d.op \in {"cancelGroup", "publish"}
                                 /\ d.word \notin Over
                                 /\ s \in TerminalPayment \cup {"successful"}
    BY PlainOp DEF Tells
<1>4. \A d \in Published : Pays /\ d.op = "fulfil" /\ d.word \notin Over
    BY PlainOp DEF Published
<1>5. \A O : /\ \A d \in Plains(O) : d.op \in O /\ d.word \notin Over
             /\ \A op \in O : \E d \in Plains(O) : d.op = op
    BY PlainOp DEF Plains
<1> QED
    BY <1>1, <1>2, <1>3, <1>4, <1>5

\* The steps that a handler begins with, one by one.
LEMMA FirstSteps ==
    /\ \A d \in NewSession : /\ d.op \in {"enqueue", "store", "token"} /\ d.word \notin Over
                             /\ d.op = "enqueue" => d.to = "expire"
    /\ \E d \in NewSession : d.op = "store"
    /\ \A c : /\ \A d \in Begun(c) : (d.op = "adopt" /\ d.word \notin Over) \/ d = c
              /\ c \in Begun(c) /\ \E d \in Begun(c) : d.op = "adopt"
    /\ \A c \in Asks : /\ c.op \in Decisions \ {"close"} /\ c.word \notin Over
                       /\ c.op = "pay" => mode \in {"payment", "save"} \/ c.to = "card"
    /\ Closing.op = "close" /\ Closing.to = running.kind /\ Closing.word \notin Over
    /\ \A S : Tool(S) => \A d \in S : d.op = "to" /\ d.by = "any" /\ d.to # "expired"
                                      /\ d.word \notin Over
    /\ \A d \in Outcome : d.op = "hop" /\ d.word \notin Over
    /\ \E d \in Outcome : d.op = "hop" /\ d.to = "successful"
<1>1. /\ \A d \in NewSession : /\ d.op \in {"enqueue", "store", "token"} /\ d.word \notin Over
                               /\ d.op = "enqueue" => d.to = "expire"
      /\ \E d \in NewSession : d.op = "store"
    <2> DEFINE q == Asked("enqueue", "expire", "any")
    <2>1. q.op = "enqueue" /\ q.to = "expire" /\ q.word \notin Over
        BY DEF Asked, Over
    <2> HIDE DEF q
    <2>2. NewSession = {q, Plain("store"), Plain("token")}
        BY DEF NewSession, q
    <2> QED
        BY <2>1, <2>2, PlainOp
<1>2. \A c : /\ \A d \in Begun(c) : (d.op = "adopt" /\ d.word \notin Over) \/ d = c
             /\ c \in Begun(c) /\ \E d \in Begun(c) : d.op = "adopt"
    BY PlainOp DEF Begun
<1>3. \A c \in Asks : /\ c.op \in Decisions \ {"close"} /\ c.word \notin Over
                      /\ c.op = "pay" => mode \in {"payment", "save"} \/ c.to = "card"
    <2>1. \A op, to, by : /\ Asked(op, to, by).op = op /\ Asked(op, to, by).to = to
                         /\ Asked(op, to, by).word \notin Over
        BY DEF Asked, Over
    <2> DEFINE right(c) == /\ c.op \in Decisions \ {"close"} /\ c.word \notin Over
                           /\ c.op = "pay" => mode \in {"payment", "save"} \/ c.to = "card"
    <2>2. right(Asked("identify", "any", "any")) /\ right(Asked("free", "any", "any"))
        BY <2>1 DEF Decisions
    <2>3. \A size \in {"zero", "some"} : right(Asked("choose", size, "any"))
        BY <2>1 DEF Decisions
    <2>4. \A m \in (IF mode \in {"payment", "save"} THEN Method ELSE {"card"}) :
              \A by \in {"any", "refused"} : right(Asked("pay", m, by))
        BY <2>1 DEF Decisions
    <2>5. \A a \in {"late_transfer", "succeed", "fail", "short", "overpaid",
                    "send_rest", "accept"} : right(Asked("control", a, "any"))
        BY <2>1 DEF Decisions
    <2> HIDE DEF right
    <2>6. \A c \in Asks : right(c)
        BY <2>2, <2>3, <2>4, <2>5 DEF Asks
    <2> QED
        BY <2>6 DEF right
<1>4. Closing.op = "close" /\ Closing.to = running.kind /\ Closing.word \notin Over
    BY DEF Closing, Asked, Over
<1>5. \A S : Tool(S) => \A d \in S : d.op = "to" /\ d.by = "any" /\ d.to # "expired"
                                     /\ d.word \notin Over
    <2>1. \A s : /\ Sent(s, "", "any").op = "to" /\ Sent(s, "", "any").to = s
                /\ Sent(s, "", "any").by = "any" /\ Sent(s, "", "any").word \notin Over
        BY DEF Sent, Over
    <2> DEFINE moved(d) == /\ d.op = "to" /\ d.by = "any" /\ d.to # "expired"
                           /\ d.word \notin Over
    <2>2. \A s : s # "expired" => moved(Sent(s, "", "any"))
        BY <2>1
    <2> HIDE DEF moved
    <2>3. \A S : Tool(S) => \A d \in S : moved(d)
        <3> SUFFICES ASSUME NEW S, Tool(S), NEW d \in S
                     PROVE  moved(d)
            OBVIOUS
        <3>1. ASSUME NEW s \in {"failed", "cancelled", "authorized"}, S = {Sent(s, "", "any")}
              PROVE  moved(d)
            BY <2>2, <3>1
        <3>2. CASE S = {Sent("processing", "", "any"), Sent("successful", "", "any")}
            BY <2>2, <3>2
        <3> QED
            BY <3>1, <3>2 DEF Tool
    <2> QED
        BY <2>3 DEF moved
<1>6. /\ \A d \in Outcome : d.op = "hop" /\ d.word \notin Over
      /\ \E d \in Outcome : d.op = "hop" /\ d.to = "successful"
    <2>1. \A s : Hop(s).op = "hop" /\ Hop(s).to = s /\ Hop(s).word \notin Over
        BY DEF Hop, Over
    <2> QED
        BY <2>1 DEF Outcome
<1> QED
    BY <1>1, <1>2, <1>3, <1>4, <1>5, <1>6

-----------------------------------------------------------------------------
Late == {"variance", "completed", "expired", "customer", "amount"}
Last == {"empty", "fulfilled"}

(***************************************************************************)
(* What can be left after a step                                           *)
(***************************************************************************)
LEMMA After ==
    ASSUME NEW t, NEW c, First(t, c), NEW d \in left[t], d # c, d \in StepRow
    PROVE  /\ c.op \in {"adopt", "create", "index", "link", "method", "cancelGroup", "publish",
                        "fulfil", "card", "linkSubscription", "renewal", "invoice", "settle",
                        "subscribe"} => d.op # c.op
           /\ d.op = "create" => c.op \notin {"index", "link", "method", "to", "hop"} \cup Decisions
           /\ d.op = "link" => c.op \notin {"method", "to", "hop"} \cup Decisions
           /\ d.op = "adopt" => c.op \notin {"create", "index", "link", "method", "to", "hop"}
                                            \cup Decisions
           /\ d.op \in Decisions => c.op \notin {"method", "to", "hop"} \cup Decisions
           /\ d.op = "method" => c.op \notin {"to", "hop"}
           /\ d.op \in {"to", "hop", "method", "create", "link", "index", "adopt", "store",
                        "enqueue"} \cup Decisions
                 => c.op \notin {"cancelGroup", "publish", "fulfil"} \cup Fill \cup Late
           /\ c.op \in Fill => d.op \in Fill \cup Late
           /\ c.op \in Last => d.op \notin Fill
           /\ c.op \notin Late
           /\ d.op = "store" => c.op # "token"
<1>1. c \in StepRow /\ Rank(c) < Rank(d) /\ c.op \in Ops /\ d.op \in Ops
    BY DEF First, StepRow
<1>2. Rank(c) \in 0..24 /\ Rank(d) \in 0..24
    BY <1>1, Ranks
<1>3. /\ c.op \in Fill <=> Rank(c) \in 15..23
      /\ d.op \in Fill <=> Rank(d) \in 15..23
      /\ c.op \in Last => Rank(c) = 23
      /\ c.op \in Late => Rank(c) = 24
      /\ d.op \in Late => Rank(d) = 24
    BY <1>1, Ranks DEF Last, Late
<1>4. /\ c.op \in {"to", "hop"} => Rank(c) \in {9, 11}
      /\ d.op \in {"to", "hop"} => Rank(d) \in {9, 11}
      /\ d.op = "enqueue" => Rank(d) \in {0, 11}
      /\ c.op \in Decisions => Rank(c) = 7
      /\ d.op \in Decisions => Rank(d) = 7
    BY <1>1, Ranks
<1>5. /\ c.op = "adopt" => Rank(c) = 3
      /\ c.op = "create" => Rank(c) = 4
      /\ c.op = "index" => Rank(c) = 5
      /\ c.op = "link" => Rank(c) = 6
      /\ c.op = "method" => Rank(c) = 8
      /\ c.op = "cancelGroup" => Rank(c) = 12
      /\ c.op = "publish" => Rank(c) = 13
      /\ c.op = "fulfil" => Rank(c) = 14
      /\ c.op = "token" => Rank(c) = 2
    BY <1>1, Ranks
<1>6. /\ d.op = "adopt" => Rank(d) = 3
      /\ d.op = "create" => Rank(d) = 4
      /\ d.op = "index" => Rank(d) = 5
      /\ d.op = "link" => Rank(d) = 6
      /\ d.op = "method" => Rank(d) = 8
      /\ d.op = "cancelGroup" => Rank(d) = 12
      /\ d.op = "publish" => Rank(d) = 13
      /\ d.op = "fulfil" => Rank(d) = 14
      /\ d.op = "store" => Rank(d) = 1
      /\ d.op = "token" => Rank(d) = 2
    BY <1>1, Ranks
<1>7. /\ c.op = "card" => Rank(c) = 16
      /\ c.op = "subscribe" => Rank(c) = 18
      /\ c.op = "linkSubscription" => Rank(c) = 19
      /\ c.op = "renewal" => Rank(c) = 20
      /\ c.op = "invoice" => Rank(c) = 21
      /\ c.op = "settle" => Rank(c) = 22
      /\ d.op = "card" => Rank(d) = 16
      /\ d.op = "subscribe" => Rank(d) = 18
      /\ d.op = "linkSubscription" => Rank(d) = 19
      /\ d.op = "renewal" => Rank(d) = 20
      /\ d.op = "invoice" => Rank(d) = 21
      /\ d.op = "settle" => Rank(d) = 22
    BY <1>1, Ranks
<1>8. c.op \in {"adopt", "create", "index", "link", "method", "cancelGroup", "publish",
                "fulfil", "card", "linkSubscription", "renewal", "invoice", "settle",
                "subscribe"} => d.op # c.op
    BY <1>1, <1>2, <1>5, <1>6, <1>7
<1>9. /\ d.op = "create" => c.op \notin {"index", "link", "method", "to", "hop"} \cup Decisions
      /\ d.op = "link" => c.op \notin {"method", "to", "hop"} \cup Decisions
      /\ d.op = "adopt" => c.op \notin {"create", "index", "link", "method", "to", "hop"}
                                       \cup Decisions
      /\ d.op \in Decisions => c.op \notin {"method", "to", "hop"} \cup Decisions
      /\ d.op = "method" => c.op \notin {"to", "hop"}
      /\ d.op = "store" => c.op # "token"
    BY <1>1, <1>2, <1>4, <1>5, <1>6
<1>10. d.op \in {"to", "hop", "method", "create", "link", "index", "adopt", "store", "enqueue"}
                \cup Decisions => Rank(d) <= 11
    BY <1>4, <1>6
<1>11. c.op \in {"cancelGroup", "publish", "fulfil"} \cup Fill \cup Late => Rank(c) >= 12
    BY <1>2, <1>3, <1>5
<1>12. c.op \in Fill => d.op \in Fill \cup Late
    <2>1. c.op \in Fill => Rank(d) >= 16
        BY <1>1, <1>2, <1>3
    <2>2. Rank(d) >= 16 => d.op \in Fill \cup Late
        BY <1>1, <1>2, <1>3, <1>4, <1>6 DEF Ops, Late
    <2> QED
        BY <2>1, <2>2
<1>13. (c.op \in Last => d.op \notin Fill) /\ c.op \notin Late
    BY <1>1, <1>2, <1>3
<1> QED
    BY <1>1, <1>2, <1>8, <1>9, <1>10, <1>11, <1>12, <1>13

-----------------------------------------------------------------------------
\* One handler's steps keep their shape.
Shape(S) ==
    \A c, d \in S :
        /\ c.op = "adopt" => d.op \in Decisions \cup {"adopt"}
        /\ c.op \in {"to", "hop"} => d.op \notin {"cancelGroup", "publish", "fulfil"} \cup Fill
        /\ c.op \in {"cancelGroup", "publish"} => d.op \notin {"fulfil"} \cup Fill
        /\ c.op = "fulfil" => d.op \notin Fill

Names(S) ==
    \A c \in S : c.op = "method" =>
        \E d \in S : /\ d.op = "to" /\ d.to \in Resumes
                     /\ d.word = "" /\ d.by \in {"any", "retry"}

(***************************************************************************)
(* A task left with a well-shaped set of steps keeps the tasks well-       *)
(* shaped.                                                                 *)
(***************************************************************************)
LEMMA ShapedLeaves ==
    ASSUME Shaped, Named, NEW t \in Tasks, NEW S, Leaves(t, S), Shape(S), Names(S)
    PROVE  Shaped' /\ Named'
<1>1. Shaped'
    BY DEF Shaped, Shape, Leaves
<1>2. Named'
    <2> SUFFICES ASSUME NEW u \in Tasks, NEW c \in left'[u], c.op = "method"
                 PROVE  \E d \in left'[u] : /\ d.op = "to" /\ d.to \in Resumes
                                            /\ d.word = "" /\ d.by \in {"any", "retry"}
        BY DEF Named
    <2>1. CASE u = t
        BY <2>1 DEF Names, Leaves
    <2>2. CASE u # t
        BY <2>2 DEF Named, Leaves
    <2> QED
        BY <2>1, <2>2
<1> QED
    BY <1>1, <1>2

(***************************************************************************)
(* What can be left after an outcome, a publication or a delivery          *)
(***************************************************************************)
LEMMA AfterMove ==
    ASSUME NEW t, NEW c, First(t, c), NEW d \in left[t], d # c, d \in StepRow
    PROVE  /\ c.op \in {"publish", "fulfil"} => d.op # "cancelGroup"
           /\ c.op = "fulfil" => d.op # "publish"
           /\ c.op \in {"to", "hop"} /\ c.to \notin Resumes => d.op \notin {"to", "hop"}
           /\ c.op = "store" => d.op # "store"
           /\ c.op = "linkSubscription" => d.op # "card"
           /\ c.op = "enqueue" /\ c.to = "simulate" => d.op # "method"
<1>1. c \in StepRow /\ Rank(c) < Rank(d) /\ Rank(c) \in 0..24 /\ Rank(d) \in 0..24
    BY Ranks DEF First
<1>2. /\ c.op = "publish" => Rank(c) = 13
      /\ c.op = "fulfil" => Rank(c) = 14
      /\ c.op \in {"to", "hop"} /\ c.to \notin Resumes => Rank(c) = 11
      /\ c.op = "store" => Rank(c) = 1
      /\ c.op = "linkSubscription" => Rank(c) = 19
      /\ c.op = "enqueue" /\ c.to = "simulate" => Rank(c) = 11
    BY <1>1, Ranks
<1>3. /\ d.op = "cancelGroup" => Rank(d) = 12
      /\ d.op = "publish" => Rank(d) = 13
      /\ d.op \in {"to", "hop"} => Rank(d) \in {9, 11}
      /\ d.op = "store" => Rank(d) = 1
      /\ d.op = "method" => Rank(d) = 8
      /\ d.op = "card" => Rank(d) = 16
    BY Ranks
<1> QED
    BY <1>1, <1>2, <1>3

(***************************************************************************)
(* A handler's own steps have the shape already, and keep it when one is   *)
(* taken away that no method needs.                                        *)
(***************************************************************************)
LEMMA ShapeNow ==
    ASSUME Shaped, Named, NEW t \in Tasks
    PROVE  Shape(left[t]) /\ Names(left[t])
<1>1. Shape(left[t])
    BY DEF Shaped, Shape
<1>2. Names(left[t])
    BY DEF Named, Names
<1> QED
    BY <1>1, <1>2

\* A well-shaped set of steps stays so without its first one.
LEMMA ShapeLess ==
    ASSUME NEW S, Shape(S), Names(S), NEW c, c.op # "to" \/ ~ Has(S, "method")
    PROVE  Shape(S \ {c}) /\ Names(S \ {c})
<1>1. Shape(S \ {c})
    BY DEF Shape
<1>2. Names(S \ {c})
    BY DEF Names, Has
<1> QED
    BY <1>1, <1>2

\* Nothing left is well-shaped.
LEMMA ShapeNone == Shape({}) /\ Names({})
BY DEF Shape, Names

\* Tasks whose steps stay keep their shape.
LEMMA ShapeSame ==
    ASSUME Shaped, Named, left' = left
    PROVE  Shaped' /\ Named'
<1>1. Shaped'
    BY DEF Shaped
<1>2. Named'
    BY DEF Named
<1> QED
    BY <1>1, <1>2

\* Steps that are no moves of the payment, and tell and fulfil nothing, are well-shaped.
LEMMA ShapePlain ==
    ASSUME NEW S, NEW O, \A d \in S : d.op \in O,
           O \cap ({"to", "hop", "cancelGroup", "publish", "fulfil", "method"} \cup Fill) = {},
           "adopt" \in O => O \subseteq Decisions \cup {"adopt"}
    PROVE  Shape(S) /\ Names(S)
<1>1. \A c \in S : /\ c.op \notin {"to", "hop", "cancelGroup", "publish", "fulfil", "method"}
                    /\ c.op \notin Fill
                    /\ c.op = "adopt" => O \subseteq Decisions \cup {"adopt"}
    OBVIOUS
<1>2. Shape(S)
    BY <1>1 DEF Shape
<1>3. Names(S)
    BY <1>1 DEF Names
<1> QED
    BY <1>2, <1>3

\* What a decision leaves has no part of the completion work in it.
LEMMA DecidedOps ==
    ASSUME NEW c, NEW S, \A d \in S : DecidedStep(c, S, d)
    PROVE  \A d \in S :
               /\ d.op \notin Fill
               /\ d.op \notin {"adopt", "hop", "cancelGroup", "publish"}
               /\ d.op = "fulfil" => \A e \in S : e.op \in {"fulfil", "completed"}
<1> SUFFICES ASSUME NEW d \in S
             PROVE  /\ d.op \notin Fill
                    /\ d.op \notin {"adopt", "hop", "cancelGroup", "publish"}
                    /\ d.op = "fulfil" => \A e \in S : e.op \in {"fulfil", "completed"}
    OBVIOUS
<1>1. DecidedStep(c, S, d)
    OBVIOUS
<1>2. /\ d.op \in {"customer", "amount", "completed", "expired", "create", "index", "link",
                   "method", "to", "enqueue", "fulfil", "variance"}
      /\ d.op = "fulfil" => \A e \in S : e.op \in {"fulfil", "completed"}
    BY <1>1 DEF DecidedStep
<1>3. d.op \notin Fill
    BY <1>2 DEF Fill
<1> QED
    BY <1>2, <1>3

(***************************************************************************)
(* Programs stay programs, and keep their shape.                           *)
(***************************************************************************)
LEMMA ShapeKept ==
    ASSUME IInv, GoNext
    PROVE  Shaped' /\ Named'
<1>1. /\ Programs /\ Shaped /\ Named
      /\ Poll \in Tasks /\ None \notin Tasks /\ \A t \in Callers : t \in Tasks /\ t # Poll
    BY TasksAssumption DEF IInv, Tasks
<1>2. ASSUME NEW t \in Callers, GoSession(t)
      PROVE  Shaped' /\ Named'
    <2>1. Shape(NewSession) /\ Names(NewSession)
        <3>1. \A d \in NewSession : d.op \in {"enqueue", "store", "token"}
            BY FirstSteps
        <3> QED
            BY <3>1, ShapePlain DEF Fill
    <2> QED
        BY <1>1, <1>2, <2>1, ShapedLeaves DEF GoSession, Begins
<1>3. ASSUME NEW t \in Callers, GoAct(t)
      PROVE  Shaped' /\ Named'
    <2>1. PICK d \in Asks : Begins(t, Begun(d))
        BY <1>3 DEF GoAct
    <2>2. Shape(Begun(d)) /\ Names(Begun(d))
        <3>1. \A e \in Begun(d) : e.op \in Decisions \cup {"adopt"}
            BY <2>1, FirstSteps
        <3> QED
            BY <3>1, ShapePlain DEF Decisions, Fill
    <2> QED
        BY <1>1, <2>1, <2>2, ShapedLeaves DEF Begins
<1>4. ASSUME NEW t \in Callers, GoTool(t)
      PROVE  Shaped' /\ Named'
    <2>1. PICK S : Begins(t, S) /\ \A d \in S : d.op = "to"
        BY <1>4, FirstSteps DEF GoTool
    <2>2. Shape(S) /\ Names(S)
        BY <2>1 DEF Shape, Names, Decisions, Fill
    <2> QED
        BY <1>1, <2>1, <2>2, ShapedLeaves DEF Begins
<1>5. ASSUME NEW t \in Tasks, NEW c, First(t, c), GoAdopt(t, c)
      PROVE  Shaped' /\ Named'
    <2>1. /\ Leaves(t, Adopted \cup (left[t] \ {c})) /\ c \in left[t] /\ Shape(left[t]) /\ Names(left[t])
          /\ left[t] \subseteq StepRow
        BY <1>1, <1>5, ShapeNow, LeftPlans DEF GoAdopt, Turns, First
    <2>2. \A d \in left[t] \ {c} : d.op \in Decisions
        BY <1>1, <2>1, <1>5, After DEF GoAdopt, Shape
    <2>3. Shape(Adopted \cup (left[t] \ {c})) /\ Names(Adopted \cup (left[t] \ {c}))
        <3>1. \A d \in Adopted \cup (left[t] \ {c}) : d.op \in Decisions \cup {"index", "link"}
            BY <2>2, AddedSteps
        <3> QED
            BY <3>1, ShapePlain DEF Decisions, Fill
    <2> QED
        BY <1>1, <2>1, <2>3, ShapedLeaves
<1>6. ASSUME NEW t \in Tasks, NEW c, First(t, c), GoDecide(t, c)
      PROVE  Shaped' /\ Named'
    <2>1. PICK S : Turns(t, S) /\ Decided(c, S)
        BY <1>6 DEF GoDecide
    <2>2. \A d \in S : DecidedStep(c, S, d)
        BY <2>1, DecidedSteps
    <2>3. Shape(S)
        <3>1. \A d \in S : /\ d.op \notin {"adopt", "hop", "cancelGroup", "publish"} \cup Fill
                           /\ d.op = "fulfil" => \A e \in S : e.op # "to"
            BY <2>2, DecidedOps
        <3> QED
            BY <3>1 DEF Shape
    <2>4. Names(S)
        BY <2>2 DEF DecidedStep, Names
    <2> QED
        BY <1>1, <2>1, <2>3, <2>4, ShapedLeaves DEF Turns
<1>7. ASSUME NEW t \in Tasks, NEW c, First(t, c), GoWrite(t, c)
      PROVE  Shaped' /\ Named'
    <2>1. /\ Leaves(t, left[t] \ {c}) /\ c \in left[t] /\ Shape(left[t]) /\ Names(left[t])
          /\ left[t] \subseteq StepRow
        BY <1>1, <1>7, ShapeNow, LeftPlans DEF GoWrite, Turns, First
    <2>2. c.op # "to"
        BY <1>7 DEF GoWrite, Written
    <2> QED
        BY <1>1, <2>1, <2>2, ShapeLess, ShapedLeaves
<1>8. ASSUME NEW t \in Tasks, NEW c, First(t, c), GoEnd(t, c)
      PROVE  Shaped' /\ Named'
    <2>1. /\ Leaves(t, left[t] \ {c}) /\ c \in left[t] /\ Shape(left[t]) /\ Names(left[t])
          /\ left[t] \subseteq StepRow
        BY <1>1, <1>8, ShapeNow, LeftPlans DEF GoEnd, Turns, First
    <2>2. c.op # "to"
        BY <1>8 DEF GoEnd
    <2> QED
        BY <1>1, <2>1, <2>2, ShapeLess, ShapedLeaves
<1>9. ASSUME NEW t \in Tasks, NEW c, First(t, c), GoEnqueue(t, c)
      PROVE  Shaped' /\ Named'
    <2>1. /\ Leaves(t, left[t] \ {c}) /\ c \in left[t] /\ Shape(left[t]) /\ Names(left[t])
          /\ left[t] \subseteq StepRow
        BY <1>1, <1>9, ShapeNow, LeftPlans DEF GoEnqueue, Turns, First
    <2>2. c.op # "to"
        BY <1>9 DEF GoEnqueue
    <2> QED
        BY <1>1, <2>1, <2>2, ShapeLess, ShapedLeaves
<1>10. ASSUME NEW t \in Tasks, NEW c, First(t, c), GoCreate(t, c)
      PROVE  Shaped' /\ Named'
    <2>1. \/ Leaves(t, left[t] \ {c})
          \/ Leaves(t, {})
        BY <1>10 DEF GoCreate, Turns
    <2>2. Shape(left[t]) /\ Names(left[t]) /\ c.op # "to"
        BY <1>1, <1>10, ShapeNow DEF GoCreate
    <2> QED
        BY <1>1, <2>1, <2>2, ShapeLess, ShapeNone, ShapedLeaves
<1>11. ASSUME NEW t \in Tasks, NEW c, First(t, c), GoName(t, c)
      PROVE  Shaped' /\ Named'
    <2>1. PICK d \in left[t] : Leaves(t, left[t] \ {c, d}) \/ Leaves(t, {})
        BY <1>11 DEF GoName, Turns
    <2>2. Shape(left[t]) /\ left[t] \subseteq StepRow /\ c.op = "method"
        BY <1>1, <1>11, ShapeNow, LeftPlans DEF GoName
    <2>3. Shape(left[t] \ {c, d})
        BY <2>2 DEF Shape
    <2>4. Names(left[t] \ {c, d})
        BY <2>2, <1>11, After DEF Names
    <2> QED
        BY <1>1, <2>1, <2>3, <2>4, ShapeNone, ShapedLeaves
<1>12. ASSUME NEW t \in Tasks, NEW c, First(t, c), GoMove(t, c)
      PROVE  Shaped' /\ Named'
    <2>1. \/ Leaves(t, left[t] \ {c})
          \/ Leaves(t, Tells(c.to) \cup (left[t] \ {c}))
          \/ Leaves(t, {})
        BY <1>12 DEF GoMove, Turns
    <2>2. /\ Shape(left[t]) /\ left[t] \subseteq StepRow
          /\ c.op \in {"to", "hop"} /\ c \in left[t]
        BY <1>1, <1>12, ShapeNow, LeftPlans DEF GoMove, First
    <2>3. \A d \in left[t] \ {c} : d.op \notin {"adopt", "method"}
        BY <2>2, <1>12, After
    <2>4. Shape(left[t] \ {c}) /\ Names(left[t] \ {c})
        BY <2>2, <2>3 DEF Shape, Names
    <2>5. CASE Tells(c.to) = {}
        BY <1>1, <2>1, <2>4, <2>5, ShapeNone, ShapedLeaves
    <2>6. CASE Tells(c.to) # {}
        <3>1. c.to \notin Resumes
            BY <2>6 DEF Tells, Resumes, TerminalPayment
        <3>2. \A d \in left[t] \ {c} :
                  d.op \notin {"to", "hop", "adopt", "method", "fulfil", "cancelGroup", "publish"}
                                  \cup Fill
            BY <2>2, <2>3, <3>1, <1>12, AfterMove DEF Shape
        <3>3. Shape(Tells(c.to) \cup (left[t] \ {c})) /\ Names(Tells(c.to) \cup (left[t] \ {c}))
            <4>1. \A d \in Tells(c.to) : d.op \in {"cancelGroup", "publish"}
                BY AddedSteps
            <4>2. \A d \in Tells(c.to) \cup (left[t] \ {c}) :
                      /\ d.op \notin {"to", "hop", "adopt", "method", "fulfil"}
                      /\ d.op \notin Fill
                BY <3>2, <4>1 DEF Fill
            <4>3. Shape(Tells(c.to) \cup (left[t] \ {c}))
                BY <4>2 DEF Shape
            <4>4. Names(Tells(c.to) \cup (left[t] \ {c}))
                BY <4>2 DEF Names
            <4> QED
                BY <4>3, <4>4
        <3> QED
            BY <1>1, <2>1, <2>4, <3>3, ShapeNone, ShapedLeaves
    <2> QED
        BY <2>5, <2>6
<1>13. ASSUME NEW t \in Tasks, NEW c, First(t, c), GoCancel(t, c)
      PROVE  Shaped' /\ Named'
    <2>1. /\ Leaves(t, left[t] \ {c}) /\ c \in left[t] /\ Shape(left[t]) /\ Names(left[t])
          /\ left[t] \subseteq StepRow
        BY <1>1, <1>13, ShapeNow, LeftPlans DEF GoCancel, Turns, First
    <2>2. c.op # "to"
        BY <1>13 DEF GoCancel
    <2> QED
        BY <1>1, <2>1, <2>2, ShapeLess, ShapedLeaves
<1>14. ASSUME NEW t \in Tasks, NEW c, First(t, c), GoPublish(t, c)
      PROVE  Shaped' /\ Named'
    <2>1. /\ Leaves(t, Published \cup (left[t] \ {c})) /\ c \in left[t] /\ Shape(left[t]) /\ Names(left[t])
          /\ left[t] \subseteq StepRow
        BY <1>1, <1>14, ShapeNow, LeftPlans DEF GoPublish, Turns, First
    <2>2. \A d \in left[t] \ {c} :
              d.op \notin {"to", "hop", "adopt", "method", "fulfil", "cancelGroup", "publish"}
                              \cup Fill
        BY <2>1, <1>14, After, AfterMove DEF GoPublish, Shape
    <2>3. Shape(Published \cup (left[t] \ {c})) /\ Names(Published \cup (left[t] \ {c}))
        BY <2>2, AddedSteps DEF Shape, Names, Fill
    <2> QED
        BY <1>1, <2>1, <2>3, ShapedLeaves
<1>15. ASSUME NEW t \in Tasks, NEW c, First(t, c), GoVary(t, c)
      PROVE  Shaped' /\ Named'
    <2>1. /\ Leaves(t, left[t] \ {c}) /\ c \in left[t] /\ Shape(left[t]) /\ Names(left[t])
          /\ left[t] \subseteq StepRow
        BY <1>1, <1>15, ShapeNow, LeftPlans DEF GoVary, Turns, First
    <2>2. c.op # "to"
        BY <1>15 DEF GoVary
    <2> QED
        BY <1>1, <2>1, <2>2, ShapeLess, ShapedLeaves
<1>16. ASSUME NEW t \in Tasks, NEW c, First(t, c), GoFulfil(t, c)
      PROVE  Shaped' /\ Named'
    <2>1. Leaves(t, left[t] \ {c}) \/ Leaves(t, Plains(FillOps) \cup (left[t] \ {c}))
        BY <1>16 DEF GoFulfil, Turns
    <2>2. /\ Shape(left[t]) /\ Names(left[t]) /\ left[t] \subseteq StepRow
          /\ c.op = "fulfil" /\ c \in left[t]
        BY <1>1, <1>16, ShapeNow, LeftPlans DEF GoFulfil, First
    <2>3. \A d \in left[t] \ {c} :
              d.op \notin {"to", "hop", "adopt", "method", "fulfil", "cancelGroup", "publish"}
        BY <2>2, <1>16, After, AfterMove
    <2>4. \A d \in Plains(FillOps) : d.op \in Fill
        BY AddedSteps, FillOpsAre
    <2>5. Shape(Plains(FillOps) \cup (left[t] \ {c})) /\ Names(Plains(FillOps) \cup (left[t] \ {c}))
        BY <2>3, <2>4 DEF Shape, Names, Fill
    <2>6. Shape(left[t] \ {c}) /\ Names(left[t] \ {c})
        BY <2>2, ShapeLess
    <2> QED
        BY <1>1, <2>1, <2>5, <2>6, ShapedLeaves
<1>17. ASSUME NEW t \in Tasks, NEW c, First(t, c), GoComplete(t, c)
      PROVE  Shaped' /\ Named'
    <2>1. /\ Leaves(t, left[t] \ {c}) /\ c \in left[t] /\ Shape(left[t]) /\ Names(left[t])
          /\ left[t] \subseteq StepRow
        BY <1>1, <1>17, ShapeNow, LeftPlans DEF GoComplete, Turns, First
    <2>2. c.op # "to"
        BY <1>17 DEF GoComplete, Makes
    <2> QED
        BY <1>1, <2>1, <2>2, ShapeLess, ShapedLeaves
<1>18. ASSUME NEW k \in JobKind, GoClaim(k)
      PROVE  Shaped' /\ Named'
    <2>1. left' = left
        BY <1>18 DEF GoClaim, Same
    <2> QED
        BY <1>1, <2>1, ShapeSame
<1>19. ASSUME GoHandle
      PROVE  Shaped' /\ Named'
    <2>1. Leaves(Poll, Outcome) \/ Leaves(Poll, Begun(Closing))
        BY <1>19 DEF GoHandle, Begins
    <2>2. Shape(Outcome) /\ Names(Outcome)
        BY FirstSteps DEF Shape, Names, Fill
    <2>3. Shape(Begun(Closing)) /\ Names(Begun(Closing))
        BY FirstSteps DEF Shape, Names, Decisions, Fill
    <2> QED
        BY <1>1, <2>1, <2>2, <2>3, ShapedLeaves
<1>20. ASSUME GoFinish
      PROVE  Shaped' /\ Named'
    <2>1. left' = left
        BY <1>20 DEF GoFinish, Same
    <2> QED
        BY <1>1, <2>1, ShapeSame
<1>21. ASSUME GoLapse
      PROVE  Shaped' /\ Named'
    <2>1. left' = left
        BY <1>21 DEF GoLapse, Same
    <2> QED
        BY <1>1, <2>1, ShapeSame
<1>22. ASSUME GoDie
      PROVE  Shaped' /\ Named'
    BY <1>22 DEF GoDie, Shaped, Named
<1>23. ASSUME GoStutter
      PROVE  Shaped' /\ Named'
    <2>1. left' = left
        BY <1>23 DEF GoStutter, Same
    <2> QED
        BY <1>1, <2>1, ShapeSame
<1> QED
    BY <1>2, <1>3, <1>4, <1>5, <1>6, <1>7, <1>8, <1>9, <1>10, <1>11, <1>12, <1>13, <1>14,
       <1>15, <1>16, <1>17, <1>18, <1>19, <1>20, <1>21, <1>22, <1>23 DEF GoNext, Gone


\* Every step keeps the tasks' programs ranked.
LEMMA ProgramsKept ==
    ASSUME GoNext
    PROVE  Programs'
<1>1. \A t \in Tasks : \A c : Gone(t, c) => Programs'
    <2> SUFFICES ASSUME NEW t \in Tasks, NEW c, Gone(t, c)
                 PROVE  Programs'
        OBVIOUS
    <2>1. \A S : Turns(t, S) => Programs'
        BY DEF Turns
    <2> QED
        BY <2>1 DEF Gone, GoAdopt, GoDecide, GoWrite, GoEnd, GoEnqueue, GoCreate, GoName,
           GoMove,
                    GoCancel, GoPublish, GoVary, GoFulfil, GoComplete
<1>2. \A t \in Callers : GoSession(t) \/ GoAct(t) \/ GoTool(t) => Programs'
    BY DEF GoSession, GoAct, GoTool, Begins
<1>3. GoHandle \/ GoFinish \/ GoLapse \/ GoDie \/ GoStutter => Programs'
    BY DEF GoHandle, GoFinish, GoLapse, GoDie, GoStutter, Begins, Same
<1>4. \A k \in JobKind : GoClaim(k) => Programs'
    BY DEF GoClaim, Same
<1> QED
    BY <1>1, <1>2, <1>3, <1>4 DEF GoNext

-----------------------------------------------------------------------------
\* The rows' types
SessionRow == [status : {"none", "open", "completed", "expired"},
               token : BOOLEAN, customer : BOOLEAN,
               amount : {"unset", "zero", "some"},
               indexed : BOOLEAN, linked : BOOLEAN]
PaymentRow == [status : PaymentStatus \cup {"none"},
               word : {"", "underpaid", "overpaid", "accepted"},
               method : Method]
MadeRow == [record : Nat, card : BOOLEAN, stored : BOOLEAN, subs : Nat,
            linked : BOOLEAN, renewals : Nat, invoices : Nat,
            settled : BOOLEAN, fulfilment : {"none", "empty", "made"}]
RunningRow == [kind : JobKind \cup {"none"}, begun : BOOLEAN, cancelled : BOOLEAN]
PastRow == [tools : 0..MaxTools, deaths : 0..MaxDeaths]
Holder == Tasks \cup {None}

(***************************************************************************)
(* The type invariant, variable by variable                                *)
(***************************************************************************)
LEMMA TypedNow ==
    ASSUME Typed
    PROVE  /\ mode \in Modes /\ session \in SessionRow /\ payment \in PaymentRow
           /\ made \in MadeRow /\ jobs \in [JobKind -> Nat] /\ running \in RunningRow
           /\ lock \in Holder /\ filling \in Holder /\ variance \in Nat
           /\ told \subseteq {"completed", "expired"} /\ lapsed \in BOOLEAN
           /\ past \in PastRow
<1>1. past \in PastRow
    <2>1. past \in [tools : Nat, deaths : Nat] /\ past.tools \in 0..MaxTools
          /\ past.deaths \in 0..MaxDeaths
        BY DEF Typed, TypeOK, PastOK
    <2> QED
        BY <2>1 DEF PastRow
<1> QED
    BY <1>1 DEF Typed, TypeOK, RunningOK, RunningRow, SessionRow, PaymentRow, MadeRow, Holder

\* The typing after a step, from the typing of each variable.
LEMMA TypedThen ==
    ASSUME mode' \in Modes, session' \in SessionRow, payment' \in PaymentRow,
           made' \in MadeRow, jobs' \in [JobKind -> Nat], running' \in RunningRow,
           lock' \in Holder, filling' \in Holder, variance' \in Nat,
           told' \subseteq {"completed", "expired"}, lapsed' \in BOOLEAN,
           past' \in PastRow
    PROVE  Typed'
<1>1. PastOK' /\ past'.deaths \in 0..MaxDeaths /\ past'.tools \in 0..MaxTools
    <2>1. past' \in [tools : 0..MaxTools, deaths : 0..MaxDeaths]
        BY DEF PastRow
    <2>2. \A n \in Nat : 0..n \subseteq Nat
        OBVIOUS
    <2>3. 0..MaxTools \subseteq Nat /\ 0..MaxDeaths \subseteq Nat
        BY <2>2, CheckoutBounds
    <2>4. past' \in [tools : Nat, deaths : Nat]
        BY <2>1, <2>3
    <2> QED
        BY <2>1, <2>4 DEF PastOK
<1>2. RunningOK'
    BY DEF RunningOK, RunningRow
<1>3. TypeOK'
    BY <1>1 DEF TypeOK, SessionRow, PaymentRow, MadeRow, Holder
<1> QED
    BY <1>1, <1>2, <1>3 DEF Typed

(***************************************************************************)
(* The lock's next holder                                                  *)
(***************************************************************************)
LEMMA TurnsHolder ==
    ASSUME Typed, NEW t \in Tasks, NEW S, Turns(t, S)
    PROVE  lock' \in Holder
BY TypedNow DEF Turns, Holder

(***************************************************************************)
(* The jobs table stays a table when a job is added, claimed or cancelled. *)
(***************************************************************************)
LEMMA MoreJobs ==
    ASSUME jobs \in [JobKind -> Nat], NEW k
    PROVE  /\ [jobs EXCEPT ![k] = @ + 1] \in [JobKind -> Nat]
           /\ [jobs EXCEPT ![k] = 0] \in [JobKind -> Nat]
           /\ k \in JobKind /\ jobs[k] > 0 => [jobs EXCEPT ![k] = @ - 1] \in [JobKind -> Nat]
<1>1. ASSUME NEW n
      PROVE  /\ (k \in JobKind => n \in Nat) => [jobs EXCEPT ![k] = n] \in [JobKind -> Nat]
    OBVIOUS
<1>2. /\ k \in JobKind => jobs[k] + 1 \in Nat /\ jobs[k] \in Nat
      /\ k \in JobKind /\ jobs[k] > 0 => jobs[k] - 1 \in Nat
    OBVIOUS
<1> QED
    BY <1>1, <1>2

(***************************************************************************)
(* Rows keep their types.                                                  *)
(***************************************************************************)
LEMMA TypedKept ==
    ASSUME IInv, GoNext
    PROVE  Typed'
<1>1. /\ Programs /\ Typed
      /\ Poll \in Tasks /\ None \notin Tasks /\ \A t \in Callers : t \in Tasks /\ t # Poll
    BY TasksAssumption DEF IInv, Tasks
<1>2. ASSUME NEW t \in Callers, GoSession(t)
      PROVE  Typed'
    BY <1>1, <1>2, TypedNow, TypedThen DEF GoSession, rows, Holder
<1>3. ASSUME NEW t \in Callers, GoAct(t)
      PROVE  Typed'
    BY <1>1, <1>3, TypedNow, TypedThen DEF GoAct, rows, Holder
<1>4. ASSUME NEW t \in Callers, GoTool(t)
      PROVE  Typed'
    <2>1. past' \in PastRow
        BY <1>1, <1>4, TypedNow, CheckoutBounds DEF GoTool, PastRow
    <2> QED
        BY <1>1, <2>1, <1>4, TypedNow, TypedThen DEF GoTool, rows
<1>5. ASSUME NEW t \in Tasks, NEW c, First(t, c), GoAdopt(t, c)
      PROVE  Typed'
    BY <1>1, <1>5, TurnsHolder, TypedNow, TypedThen DEF GoAdopt, rows
<1>6. ASSUME NEW t \in Tasks, NEW c, First(t, c), GoDecide(t, c)
      PROVE  Typed'
    BY <1>1, <1>6, TurnsHolder, TypedNow, TypedThen DEF GoDecide, rows
<1>7. ASSUME NEW t \in Tasks, NEW c, First(t, c), GoWrite(t, c)
      PROVE  Typed'
    <2>1. session \in SessionRow /\ c \in StepRow
        BY <1>1, <1>7, TypedNow, LeftPlans DEF First
    <2>2. c.op = "amount" => c.to \in {"zero", "some"}
        BY <2>1 DEF StepRow
    <2>3. session' \in SessionRow
        <3>1. CASE c.op = "store"
            <4>1. PICK amount \in {"unset", "zero", "some"}, known \in BOOLEAN :
                      session' = [session EXCEPT !.status = "open", !.amount = amount,
                                                 !.customer = known]
                BY <3>1, <1>7 DEF GoWrite, Written
            <4> QED
                BY <2>1, <4>1 DEF SessionRow
        <3>2. CASE c.op = "amount"
            BY <2>1, <2>2, <3>2, <1>7 DEF GoWrite, Written, SessionRow
        <3>3. CASE c.op \notin {"store", "amount"}
            <4>1. \/ session' = [session EXCEPT !.token = TRUE]
                  \/ session' = [session EXCEPT !.customer = TRUE]
                  \/ session' = [session EXCEPT !.indexed = TRUE]
                  \/ session' = [session EXCEPT !.linked = TRUE]
                BY <3>3, <1>7 DEF GoWrite, Written
            <4> QED
                BY <2>1, <4>1 DEF SessionRow
        <3> QED
            BY <3>1, <3>2, <3>3
    <2> QED
        BY <1>1, <1>7, <2>3, TurnsHolder, TypedNow, TypedThen DEF GoWrite
<1>8. ASSUME NEW t \in Tasks, NEW c, First(t, c), GoEnd(t, c)
      PROVE  Typed'
    <2>1. session \in SessionRow /\ made \in MadeRow /\ told \subseteq {"completed", "expired"}
        BY <1>1, TypedNow
    <2>2. session' \in SessionRow
        BY <2>1, <1>8 DEF GoEnd, SessionRow
    <2>3. made' \in MadeRow
        BY <2>1, <1>8 DEF GoEnd, MadeRow
    <2>4. told' \subseteq {"completed", "expired"}
        BY <2>1, <1>8 DEF GoEnd
    <2> QED
        BY <1>1, <1>8, <2>2, <2>3, <2>4, TurnsHolder, TypedNow, TypedThen DEF GoEnd
<1>9. ASSUME NEW t \in Tasks, NEW c, First(t, c), GoEnqueue(t, c)
      PROVE  Typed'
    BY <1>1, <1>9, MoreJobs, TurnsHolder, TypedNow, TypedThen DEF GoEnqueue, rows
<1>10. ASSUME NEW t \in Tasks, NEW c, First(t, c), GoCreate(t, c)
      PROVE  Typed'
    <2>1. payment \in PaymentRow
        BY <1>1, TypedNow
    <2>2. payment' \in PaymentRow
        BY <2>1, <1>10 DEF GoCreate, PaymentRow, PaymentStatus
    <2> QED
        BY <1>1, <1>10, <2>2, TurnsHolder, TypedNow, TypedThen DEF GoCreate
<1>11. ASSUME NEW t \in Tasks, NEW c, First(t, c), GoName(t, c)
      PROVE  Typed'
    <2>1. payment \in PaymentRow /\ c \in StepRow
        BY <1>1, <1>11, TypedNow, LeftPlans DEF First
    <2>2. c.to \in Method
        BY <2>1, <1>11 DEF GoName, StepRow
    <2>3. Resumes \subseteq PaymentStatus
        BY DEF Resumes, PaymentStatus
    <2>4. payment' \in PaymentRow
        <3>1. \/ UNCHANGED payment
              \/ \E s \in PaymentStatus : payment' = [status |-> s, word |-> "", method |-> c.to]
            BY <2>3, <1>11 DEF GoName
        <3>2. ASSUME NEW s \in PaymentStatus
              PROVE  [status |-> s, word |-> "", method |-> c.to] \in PaymentRow
            BY <2>2 DEF PaymentRow
        <3> QED
            BY <2>1, <3>1, <3>2
    <2>5. \E S : Turns(t, S)
        BY <1>11 DEF GoName
    <2> QED
        BY <1>1, <1>11, <2>4, <2>5, TurnsHolder, TypedNow, TypedThen DEF GoName
<1>12. ASSUME NEW t \in Tasks, NEW c, First(t, c), GoMove(t, c)
      PROVE  Typed'
    <2>1. /\ payment \in PaymentRow /\ c \in StepRow
          /\ told \subseteq {"completed", "expired"}
        BY <1>1, <1>12, TypedNow, LeftPlans DEF First
    <2>2. c.to \in PaymentStatus /\ c.word \in {"", "underpaid", "overpaid", "accepted"}
        BY <2>1, <1>12 DEF GoMove, StepRow, Notes
    <2>3. payment' \in PaymentRow
        BY <2>1, <2>2, <1>12 DEF GoMove, PaymentRow
    <2>4. told' \subseteq {"completed", "expired"}
        BY <2>1, <1>12 DEF GoMove, Ending
    <2>5. \E S : Turns(t, S)
        BY <1>12 DEF GoMove
    <2> QED
        BY <1>1, <1>12, <2>3, <2>4, <2>5, TurnsHolder, TypedNow, TypedThen DEF GoMove
<1>13. ASSUME NEW t \in Tasks, NEW c, First(t, c), GoCancel(t, c)
      PROVE  Typed'
    <2>1. running \in RunningRow /\ jobs \in [JobKind -> Nat]
        BY <1>1, TypedNow
    <2>2. running' \in RunningRow
        BY <2>1, <1>13 DEF GoCancel, RunningRow
    <2> QED
        BY <1>1, <1>13, <2>1, <2>2, MoreJobs, TurnsHolder, TypedNow, TypedThen DEF GoCancel,
           rows
<1>14. ASSUME NEW t \in Tasks, NEW c, First(t, c), GoPublish(t, c)
      PROVE  Typed'
    BY <1>1, <1>14, TurnsHolder, TypedNow, TypedThen DEF GoPublish, rows
<1>15. ASSUME NEW t \in Tasks, NEW c, First(t, c), GoVary(t, c)
      PROVE  Typed'
    <2>1. variance' \in Nat
        BY <1>1, <1>15, TypedNow DEF GoVary
    <2> QED
        BY <1>1, <1>15, <2>1, TurnsHolder, TypedNow, TypedThen DEF GoVary
<1>16. ASSUME NEW t \in Tasks, NEW c, First(t, c), GoFulfil(t, c)
      PROVE  Typed'
    <2>1. \E S : Turns(t, S)
        BY <1>16 DEF GoFulfil
    <2>2. filling' \in Holder
        BY <1>1, <1>16, TypedNow DEF GoFulfil, Holder
    <2> QED
        BY <1>1, <1>16, <2>1, <2>2, TurnsHolder, TypedNow, TypedThen DEF GoFulfil, rows
<1>17. ASSUME NEW t \in Tasks, NEW c, First(t, c), GoComplete(t, c)
      PROVE  Typed'
    <2>1. made \in MadeRow
        BY <1>1, TypedNow
    <2>2. made' \in MadeRow
        <3>1. \/ \E n \in Nat : made' = [made EXCEPT !.record = n]
              \/ \E n \in Nat : made' = [made EXCEPT !.subs = n]
              \/ \E n \in Nat : made' = [made EXCEPT !.renewals = n]
              \/ \E n \in Nat : made' = [made EXCEPT !.invoices = n]
              \/ made' = [made EXCEPT !.card = TRUE]
              \/ made' = [made EXCEPT !.stored = TRUE]
              \/ made' = [made EXCEPT !.linked = TRUE]
              \/ made' = [made EXCEPT !.settled = TRUE]
              \/ made' = [made EXCEPT !.fulfilment = "empty"]
              \/ made' = [made EXCEPT !.fulfilment = "made"]
            <4>1. /\ made.record + 1 \in Nat /\ made.subs + 1 \in Nat
                  /\ made.renewals + 1 \in Nat /\ made.invoices + 1 \in Nat
                BY <2>1 DEF MadeRow
            <4> QED
                BY <4>1, <1>17 DEF GoComplete, Makes
        <3>2. ASSUME NEW n \in Nat, made' = [made EXCEPT !.record = n]
              PROVE  made' \in MadeRow
            BY <2>1, <3>2 DEF MadeRow
        <3>3. ASSUME NEW n \in Nat, made' = [made EXCEPT !.subs = n]
              PROVE  made' \in MadeRow
            BY <2>1, <3>3 DEF MadeRow
        <3>4. ASSUME NEW n \in Nat, made' = [made EXCEPT !.renewals = n]
              PROVE  made' \in MadeRow
            BY <2>1, <3>4 DEF MadeRow
        <3>5. ASSUME NEW n \in Nat, made' = [made EXCEPT !.invoices = n]
              PROVE  made' \in MadeRow
            BY <2>1, <3>5 DEF MadeRow
        <3>6. ASSUME made' = [made EXCEPT !.card = TRUE]
              PROVE  made' \in MadeRow
            BY <2>1, <3>6 DEF MadeRow
        <3>7. ASSUME made' = [made EXCEPT !.stored = TRUE]
              PROVE  made' \in MadeRow
            BY <2>1, <3>7 DEF MadeRow
        <3>8. ASSUME made' = [made EXCEPT !.linked = TRUE]
              PROVE  made' \in MadeRow
            BY <2>1, <3>8 DEF MadeRow
        <3>9. ASSUME made' = [made EXCEPT !.settled = TRUE]
              PROVE  made' \in MadeRow
            BY <2>1, <3>9 DEF MadeRow
        <3>10. ASSUME made' = [made EXCEPT !.fulfilment = "empty"]
              PROVE  made' \in MadeRow
            BY <2>1, <3>10 DEF MadeRow
        <3>11. ASSUME made' = [made EXCEPT !.fulfilment = "made"]
              PROVE  made' \in MadeRow
            BY <2>1, <3>11 DEF MadeRow
        <3> QED
            BY <3>1, <3>2, <3>3, <3>4, <3>5, <3>6, <3>7, <3>8, <3>9, <3>10, <3>11
    <2>3. filling' \in Holder
        BY <1>1, <1>17, TypedNow DEF GoComplete, Holder
    <2> QED
        BY <1>1, <1>17, <2>2, <2>3, TurnsHolder, TypedNow, TypedThen DEF GoComplete
<1>18. ASSUME NEW k \in JobKind, GoClaim(k)
      PROVE  Typed'
    <2>1. running' \in RunningRow
        BY <1>18 DEF GoClaim, RunningRow
    <2>2. jobs' \in [JobKind -> Nat]
        BY <1>1, <1>18, MoreJobs, TypedNow DEF GoClaim, Due
    <2> QED
        BY <1>1, <1>18, <2>1, <2>2, TypedNow, TypedThen DEF GoClaim, rows
<1>19. ASSUME GoHandle
      PROVE  Typed'
    <2>1. running \in RunningRow
        BY <1>1, TypedNow
    <2>2. running' \in RunningRow
        BY <2>1, <1>19 DEF GoHandle, RunningRow
    <2> QED
        BY <1>1, <1>19, <2>2, TypedNow, TypedThen DEF GoHandle, rows, Holder
<1>20. ASSUME GoFinish
      PROVE  Typed'
    <2>1. running' \in RunningRow
        BY <1>20 DEF GoFinish, RunningRow, NoJob
    <2> QED
        BY <1>1, <1>20, <2>1, TypedNow, TypedThen DEF GoFinish, rows
<1>21. ASSUME GoLapse
      PROVE  Typed'
    BY <1>1, <1>21, TypedNow, TypedThen DEF GoLapse, rows
<1>22. ASSUME GoDie
      PROVE  Typed'
    <2>1. running' \in RunningRow
        BY <1>22 DEF GoDie, RunningRow, NoJob
    <2>2. past' \in PastRow
        BY <1>1, <1>22, TypedNow, CheckoutBounds DEF GoDie, PastRow
    <2>3. jobs' \in [JobKind -> Nat]
        <3>1. jobs \in [JobKind -> Nat]
            BY <1>1, TypedNow
        <3> QED
            BY <3>1, <1>22 DEF GoDie
    <2> QED
        BY <1>1, <1>22, <2>1, <2>2, <2>3, TypedNow, TypedThen DEF GoDie, rows, Holder
<1>23. ASSUME GoStutter
      PROVE  Typed'
    BY <1>1, <1>23, TypedNow, TypedThen DEF GoStutter, rows
<1> QED
    BY <1>2, <1>3, <1>4, <1>5, <1>6, <1>7, <1>8, <1>9, <1>10, <1>11, <1>12, <1>13, <1>14,
       <1>15, <1>16, <1>17, <1>18, <1>19, <1>20, <1>21, <1>22, <1>23 DEF GoNext, Gone

(***************************************************************************)
(* What a handler's turn leaves alone                                      *)
(***************************************************************************)
LEMMA Actors ==
    Poll \in Tasks /\ None \notin Tasks /\ \A u \in Callers : u \in Tasks /\ u # Poll
BY TasksAssumption DEF Tasks

\* What a handler's step knows of its task, the others' and the lock.
LEMMA Handled ==
    ASSUME Typed, Programs, NEW t \in Tasks, NEW c, First(t, c), NEW S, Turns(t, S)
    PROVE  /\ c \in left[t] /\ c \in StepRow /\ left[t] \subseteq StepRow
           /\ left'[t] = S /\ \A u \in Tasks : u # t => left'[u] = left[u]
           /\ lock' = (IF S = {} /\ lock = t THEN None ELSE lock) /\ lock \in Holder
           /\ t \in Tasks /\ t # None
<1>1. left[t] \subseteq StepRow
    BY LeftPlans
<1> QED
    BY <1>1, TypedNow, Actors DEF First, Turns, Leaves

(***************************************************************************)
(* A step that is next has nothing left before it: a payment is there for  *)
(* a method to be put on and for a move to be made.                        *)
(***************************************************************************)
LEMMA PaidNext ==
    ASSUME Sold, Locked, Programs, NEW t \in Tasks, NEW c, First(t, c)
    PROVE  /\ c.op \in {"method", "to", "hop"} => payment.status # "none"
           /\ c.op = "enqueue" /\ c.to = "simulate" /\ ~ Has(left[t], "method")
                 => payment.status # "none"
           /\ c.op \in {"completed", "expired"} => payment.status = "none" /\ session.status = "open"
           /\ c.op \in {"to", "hop"} /\ c.by = "reversal" =>
                /\ c.to \in {"successful", "expired"} /\ lock = t
                /\ c.to = "successful" => payment.method = "bank_transfer"
           /\ c.op = "create" => session.status = "open" /\ ~ Chargeless
           /\ c.op = "store" => session.status = "none"
<1>1. c \in left[t] /\ c \in StepRow /\ left[t] \subseteq StepRow /\ Stored(t, c) /\ Paid(t, c)
    BY LeftPlans DEF First, Sold
<1>2. c.op \in {"method", "to", "hop"} => \A d \in left[t] : d # c => d.op \notin {"create", "method"}
    <2> SUFFICES ASSUME NEW d \in left[t], d # c, c.op \in {"method", "to", "hop"}
                 PROVE  d.op \notin {"create", "method"}
        OBVIOUS
    <2> QED
        BY <1>1, After
<1>3. c.op \in {"method", "to", "hop"} => payment.status # "none"
    BY <1>1, <1>2 DEF Paid, Has
<1>4. c.op = "hop" => c.by = "any"
    BY <1>1 DEF StepRow
<1> QED
    BY <1>1, <1>3, <1>4 DEF Paid, Stored


-----------------------------------------------------------------------------
\* A payment may go from p to s, by the flag of the caller.
May(p, s, by) ==
    /\ p # s
    /\ \/ s \in PAYMENT_TRANSITIONS[p]
       \/ by = "reversal" /\ p \in TerminalPayment
       \/ by = "retry" /\ p = "failed" /\ s \in RETRY_TARGETS

(***************************************************************************)
(* Which moves a payment can make                                          *)
(***************************************************************************)
LEMMA Moves ==
    ASSUME NEW p \in PaymentStatus \cup {"none"}, p # "none", NEW s \in PaymentStatus,
           NEW by, May(p, s, by)
    PROVE  /\ p = "successful" => s \in {"partially_refunded", "refunded"}
           /\ p \in TerminalPayment /\ p # "failed" => by = "reversal"
           /\ p = "failed" => by = "reversal" \/ (by = "retry" /\ s \in Resumes)
           /\ p # s
           /\ s = "created" => by = "reversal"
<1>1. p \in PaymentStatus
    OBVIOUS
<1>2. /\ PAYMENT_TRANSITIONS["successful"] = {"partially_refunded", "refunded"}
      /\ PAYMENT_TRANSITIONS["expired"] = {} /\ PAYMENT_TRANSITIONS["cancelled"] = {}
      /\ PAYMENT_TRANSITIONS["refunded"] = {} /\ PAYMENT_TRANSITIONS["failed"] = {}
    BY DEF PAYMENT_TRANSITIONS, PaymentStatus
<1>3. "created" \notin PAYMENT_TRANSITIONS[p]
    BY <1>1 DEF PAYMENT_TRANSITIONS, PaymentStatus
<1> QED
    BY <1>1, <1>2, <1>3
       DEF May, TerminalPayment, RETRY_TARGETS, Resumes

(***************************************************************************)
(* The lock goes with the steps that need it.                              *)
(***************************************************************************)
LEMMA LockedTurns ==
    ASSUME Locked, Typed, NEW t \in Tasks, NEW c, First(t, c), NEW S, Turns(t, S),
           \A d \in S : \/ d \in left[t]
                       \/ d.op \in {"cancelGroup", "publish", "fulfil"} \cup Fill
                       \/ /\ lock = t /\ d.op # "hop"
                          /\ t = Poll => d.op \notin {"pay", "control", "method", "create", "variance"},
           running'.kind = running.kind, running'.begun = running.begun, past' = past
    PROVE  Locked'
<1>1. Poll \in Tasks /\ None \notin Tasks /\ \A u \in Callers : u \in Tasks /\ u # Poll
    BY TasksAssumption DEF Tasks
<1>2. /\ c \in left[t] /\ left'[t] = S /\ \A u \in Tasks : u # t => left'[u] = left[u]
      /\ lock' = IF S = {} /\ lock = t THEN None ELSE lock
    BY DEF First, Turns, Leaves
<1>3. lock \in Tasks \cup {None}
    BY DEF Typed, TypeOK
<1> QED
    BY <1>1, <1>2, <1>3 DEF Locked, Unlocked, Fill

(***************************************************************************)
(* Every step keeps the session's lock with the one task whose steps need  *)
(* it.                                                                     *)
(***************************************************************************)
LEMMA LockedKept ==
    ASSUME IInv, GoNext
    PROVE  Locked'
<1>1. /\ Programs /\ Locked /\ Typed
      /\ Poll \in Tasks /\ None \notin Tasks /\ \A t \in Callers : t \in Tasks /\ t # Poll
    BY TasksAssumption DEF IInv, Tasks
<1>2. ASSUME NEW t \in Callers, GoSession(t)
      PROVE  Locked'
    BY <1>1, <1>2, FirstSteps DEF GoSession, Begins, Leaves, rows, LockFree, Locked, Unlocked,
       RunningOK, Fill, Typed
<1>3. ASSUME NEW t \in Callers, GoAct(t)
      PROVE  Locked'
    BY <1>1, <1>3, FirstSteps DEF GoAct, Begins, Leaves, rows, LockFree, Locked, Unlocked,
       Fill, Decisions
<1>4. ASSUME NEW t \in Callers, GoTool(t)
      PROVE  Locked'
    <2>1. lock \in Tasks \cup {None} /\ past'.tools # 0 /\ lock' = lock /\ running' = running
        <3>1. lock \in Tasks \cup {None} /\ past \in [tools : Nat, deaths : Nat]
            BY <1>1 DEF Typed, TypeOK, PastOK
        <3> QED
            BY <3>1, <1>4 DEF GoTool
    <2>2. PICK S : Begins(t, S) /\ \A d \in S : d.op = "to"
        BY <1>4, FirstSteps DEF GoTool
    <2> QED
        BY <1>1, <2>1, <2>2 DEF Begins, Leaves, Locked, Unlocked, Fill
<1>5. ASSUME NEW t \in Tasks, NEW c, First(t, c), GoAdopt(t, c)
      PROVE  Locked'
    <2>1. lock = t
        BY <1>1, <1>5 DEF GoAdopt, First, Locked, Unlocked, Fill
    <2> QED
        BY <1>1, <1>5, <2>1, LockedTurns, AddedSteps DEF GoAdopt, rows
<1>6. ASSUME NEW t \in Tasks, NEW c, First(t, c), GoDecide(t, c)
      PROVE  Locked'
    <2>1. PICK S : Turns(t, S) /\ Decided(c, S)
        BY <1>6 DEF GoDecide
    <2>2. \A d \in S : DecidedStep(c, S, d)
        BY <2>1, DecidedSteps
    <2>3. lock = t /\ (t = Poll => c.op \notin {"pay", "control"})
        BY <1>1, <1>6 DEF GoDecide, First, Locked, Unlocked, Fill, Decisions
    <2> QED
        BY <1>1, <1>6, <2>1, <2>2, <2>3, LockedTurns DEF GoDecide, rows, DecidedStep
<1>7. ASSUME NEW t \in Tasks, NEW c, First(t, c), GoWrite(t, c)
      PROVE  Locked'
    BY <1>1, <1>7, LockedTurns DEF GoWrite, rows
<1>8. ASSUME NEW t \in Tasks, NEW c, First(t, c), GoEnd(t, c)
      PROVE  Locked'
    BY <1>1, <1>8, LockedTurns DEF GoEnd, rows
<1>9. ASSUME NEW t \in Tasks, NEW c, First(t, c), GoEnqueue(t, c)
      PROVE  Locked'
    BY <1>1, <1>9, LockedTurns DEF GoEnqueue, rows
<1>10. ASSUME NEW t \in Tasks, NEW c, First(t, c), GoCreate(t, c)
      PROVE  Locked'
    BY <1>1, <1>10, LockedTurns DEF GoCreate, rows
<1>11. ASSUME NEW t \in Tasks, NEW c, First(t, c), GoName(t, c)
      PROVE  Locked'
    <2>1. \E S : Turns(t, S) /\ S \subseteq left[t]
        <3>1. PICK d \in left[t] : Turns(t, left[t] \ {c, d}) \/ Turns(t, {})
            BY <1>11 DEF GoName
        <3> QED
            BY <3>1
    <2> QED
        BY <1>1, <1>11, <2>1, LockedTurns DEF GoName, rows
<1>12. ASSUME NEW t \in Tasks, NEW c, First(t, c), GoMove(t, c)
      PROVE  Locked'
    BY <1>1, <1>12, LockedTurns, AddedSteps DEF GoMove, rows
<1>13. ASSUME NEW t \in Tasks, NEW c, First(t, c), GoCancel(t, c)
      PROVE  Locked'
    <2>1. running'.kind = running.kind /\ running'.begun = running.begun
        BY <1>1, <1>13 DEF GoCancel, Typed, RunningOK
    <2> QED
        BY <1>1, <1>13, <2>1, LockedTurns DEF GoCancel, rows
<1>14. ASSUME NEW t \in Tasks, NEW c, First(t, c), GoPublish(t, c)
      PROVE  Locked'
    BY <1>1, <1>14, LockedTurns, AddedSteps DEF GoPublish, rows
<1>15. ASSUME NEW t \in Tasks, NEW c, First(t, c), GoVary(t, c)
      PROVE  Locked'
    BY <1>1, <1>15, LockedTurns DEF GoVary, rows
<1>16. ASSUME NEW t \in Tasks, NEW c, First(t, c), GoFulfil(t, c)
      PROVE  Locked'
    BY <1>1, <1>16, LockedTurns, AddedSteps, FillOpsAre DEF GoFulfil, rows
<1>17. ASSUME NEW t \in Tasks, NEW c, First(t, c), GoComplete(t, c)
      PROVE  Locked'
    BY <1>1, <1>17, LockedTurns DEF GoComplete, rows
<1>18. ASSUME NEW k \in JobKind, GoClaim(k)
      PROVE  Locked'
    BY <1>1, <1>18 DEF GoClaim, Same, rows, Locked, Unlocked, RunningOK, Fill, Typed
<1>19. ASSUME GoHandle
      PROVE  Locked'
    <2>1. lock \in Tasks \cup {None}
        BY <1>1 DEF Typed, TypeOK
    <2>2. running'.kind = running.kind /\ running'.begun
        BY <1>1, <1>19 DEF GoHandle, Typed, RunningOK
    <2>3. CASE running.kind = "simulate"
        BY <1>1, <1>19, <2>1, <2>2, <2>3, FirstSteps
           DEF GoHandle, Begins, Leaves, rows, LockFree, Locked, Unlocked, Fill
    <2>4. CASE running.kind # "simulate"
        BY <1>1, <1>19, <2>1, <2>2, <2>4, FirstSteps
           DEF GoHandle, Begins, Leaves, rows, LockFree, Locked, Unlocked, Fill
    <2> QED
        BY <2>3, <2>4
<1>20. ASSUME GoFinish
      PROVE  Locked'
    BY <1>1, <1>20 DEF GoFinish, Same, rows, NoJob, Locked, Unlocked, RunningOK, Fill, Typed
<1>21. ASSUME GoLapse
      PROVE  Locked'
    BY <1>1, <1>21 DEF GoLapse, Same, rows, Locked, Unlocked, RunningOK, Fill, Typed
<1>22. ASSUME GoDie
      PROVE  Locked'
    BY <1>1, <1>22 DEF GoDie, rows, NoJob, Locked, Unlocked, RunningOK, Fill, Typed
<1>23. ASSUME GoStutter
      PROVE  Locked'
    BY <1>1, <1>23 DEF GoStutter, Same, rows, Locked, Unlocked, RunningOK, Fill, Typed
<1> QED
    BY <1>2, <1>3, <1>4, <1>5, <1>6, <1>7, <1>8, <1>9, <1>10, <1>11, <1>12, <1>13, <1>14,
       <1>15, <1>16, <1>17, <1>18, <1>19, <1>20, <1>21, <1>22, <1>23 DEF GoNext, Gone

(***************************************************************************)
(* The events told say what became of the session and its payment.         *)
(***************************************************************************)
LEMMA ToldKept ==
    ASSUME IInv, GoNext
    PROVE  Told'
<1>1. /\ Programs /\ Told /\ Sold /\ Locked /\ Typed
      /\ Poll \in Tasks /\ None \notin Tasks /\ \A t \in Callers : t \in Tasks /\ t # Poll
    BY TasksAssumption DEF IInv, Tasks
<1>2. ASSUME NEW t \in Callers, GoSession(t)
      PROVE  Told'
    BY <1>1, <1>2, FirstSteps DEF GoSession, Begins, Leaves, rows, LockFree, Told
<1>3. ASSUME NEW t \in Callers, GoAct(t)
      PROVE  Told'
    BY <1>1, <1>3, FirstSteps DEF GoAct, Begins, Leaves, rows, LockFree, Told
<1>4. ASSUME NEW t \in Callers, GoTool(t)
      PROVE  Told'
    BY <1>1, <1>4, FirstSteps DEF GoTool, Begins, Leaves, rows, LockFree, Told
<1>5. ASSUME NEW t \in Tasks, NEW c, First(t, c), GoAdopt(t, c)
      PROVE  Told'
    BY <1>1, <1>5, AddedSteps DEF GoAdopt, Turns, Leaves, First, rows, Told
<1>6. ASSUME NEW t \in Tasks, NEW c, First(t, c), GoDecide(t, c)
      PROVE  Told'
    <2>1. PICK S : Turns(t, S) /\ Decided(c, S)
        BY <1>6 DEF GoDecide
    <2>2. \A d \in S : DecidedStep(c, S, d)
        BY <2>1, DecidedSteps
    <2>3. Leaves(t, S) /\ c \in left[t]
        BY <1>6, <2>1 DEF Turns, First
    <2> QED
        BY <1>1, <1>6, <2>1, <2>2, <2>3 DEF GoDecide, Turns, Leaves, First, rows, DecidedStep,
           Has, Told
<1>7. ASSUME NEW t \in Tasks, NEW c, First(t, c), GoWrite(t, c)
      PROVE  Told'
    <2>1. \/ session'.status = session.status
          \/ session.status = "none" /\ session'.status = "open"
        <3>1. session \in SessionRow /\ (c.op = "store" => session.status = "none")
            BY <1>1, <1>7, TypedNow, PaidNext DEF GoWrite
        <3> QED
            BY <3>1, <1>7 DEF GoWrite, Written, SessionRow
    <2> QED
        BY <1>1, <2>1, <1>7 DEF GoWrite, Told
<1>8. ASSUME NEW t \in Tasks, NEW c, First(t, c), GoEnd(t, c)
      PROVE  Told'
    <2>1. /\ payment.status = "none" /\ session.status = "open" /\ session \in SessionRow
        BY <1>1, <1>8, PaidNext, TypedNow DEF GoEnd
    <2>2. session'.status = c.op
        BY <2>1, <1>8 DEF GoEnd, SessionRow
    <2>3. told = {}
        BY <1>1, <2>1 DEF Told
    <2> QED
        BY <2>1, <2>2, <2>3, <1>8 DEF GoEnd, Told
<1>9. ASSUME NEW t \in Tasks, NEW c, First(t, c), GoEnqueue(t, c)
      PROVE  Told'
    BY <1>1, <1>9 DEF GoEnqueue, Turns, Leaves, First, rows, Told
<1>10. ASSUME NEW t \in Tasks, NEW c, First(t, c), GoCreate(t, c)
      PROVE  Told'
    <2>1. payment \in PaymentRow /\ session.status = "open"
        BY <1>1, <1>10, TypedNow, PaidNext DEF GoCreate
    <2>2. CASE payment.status # "none"
        BY <1>1, <2>2, <1>10 DEF GoCreate, Told
    <2>3. CASE payment.status = "none"
        <3>1. told = {} /\ told' = told
            BY <1>1, <2>1, <2>3, <1>10 DEF GoCreate, Told
        <3>2. payment'.status = "created"
            BY <2>1, <2>3, <1>10 DEF GoCreate, PaymentRow
        <3> QED
            BY <3>1, <3>2 DEF Told
    <2> QED
        BY <2>2, <2>3
<1>11. ASSUME NEW t \in Tasks, NEW c, First(t, c), GoName(t, c)
      PROVE  Told'
    <2>1. payment.status # "none" /\ payment \in PaymentRow /\ told' = told
        BY <1>1, <1>11, PaidNext, TypedNow DEF GoName
    <2>2. PICK d \in left[t] :
              /\ d.to \in Resumes /\ d.by \in {"any", "retry"}
              /\ \/ /\ May(payment.status, d.to, d.by)
                    /\ payment' = [status |-> d.to, word |-> "", method |-> c.to]
                 \/ UNCHANGED payment
        BY <1>11 DEF GoName, May, assertPaymentTransition, canTransitionPayment
    <2>3. CASE UNCHANGED payment
        BY <1>1, <2>1, <2>3 DEF Told
    <2>4. CASE /\ May(payment.status, d.to, d.by)
               /\ payment' = [status |-> d.to, word |-> "", method |-> c.to]
        <3>1. payment.status \in PaymentStatus
            BY <2>1 DEF PaymentRow
        <3>4. /\ May(payment.status, d.to, d.by) /\ d.to \in Resumes /\ d.by # "reversal"
              /\ d.to \in PaymentStatus
            BY <2>2, <2>4 DEF Resumes, PaymentStatus
        <3>5. /\ payment.status = "successful" => d.to \in {"partially_refunded", "refunded"}
              /\ payment.status \in TerminalPayment /\ payment.status # "failed"
                    => d.by = "reversal"
            BY <2>1, <3>1, <3>4, Moves
        <3>2. payment.status \notin {"none", "successful", "expired"}
            BY <2>1, <3>4, <3>5 DEF Resumes, TerminalPayment
        <3>3. payment'.status \in Resumes
            BY <2>2, <2>4
        <3> QED
            BY <1>1, <2>1, <3>2, <3>3 DEF Told, Resumes
    <2> QED
        BY <2>2, <2>3, <2>4
<1>12. ASSUME NEW t \in Tasks, NEW c, First(t, c), GoMove(t, c)
      PROVE  Told'
    <2>1. /\ payment.status # "none" /\ payment \in PaymentRow
          /\ c \in StepRow /\ c.op \in {"to", "hop"}
          /\ c.by = "reversal" =>
                /\ c.to \in {"successful", "expired"}
                /\ c.to = "successful" => payment.method = "bank_transfer"
        BY <1>1, <1>12, PaidNext, TypedNow DEF GoMove, First
    <2>2. c.to \in PaymentStatus \ {"created", "partially_refunded", "refunded"}
        BY <2>1 DEF StepRow
    <2>3. CASE UNCHANGED <<payment, told>>
        BY <1>1, <2>1, <2>3, <1>12 DEF GoMove, Told
    <2>4. CASE /\ May(payment.status, c.to, c.by)
               /\ payment' = [payment EXCEPT !.status = c.to, !.word = c.word]
               /\ told' = told \cup Ending(c.to)
        <3>1. payment'.status = c.to /\ payment'.method = payment.method
            BY <2>1, <2>4 DEF PaymentRow
        <3>2. /\ "completed" \in told <=> payment.status = "successful"
              /\ "expired" \in told => \/ payment.status = "expired"
                                       \/ /\ payment.status = "successful"
                                          /\ payment.method = "bank_transfer"
              /\ payment.status \notin {"partially_refunded", "refunded"}
            BY <1>1, <2>1 DEF Told
        <3>3. payment.status # "successful"
            <4>1. /\ May(payment.status, c.to, c.by) /\ c.to \in PaymentStatus
                  /\ payment.status \in PaymentStatus \cup {"none"}
                BY <2>1, <2>2, <2>4 DEF PaymentRow
            <4>2. payment.status = "successful" => c.to \in {"partially_refunded", "refunded"}
                BY <2>1, <4>1, Moves
            <4> QED
                BY <2>2, <4>2
        <3>4. payment.status = "expired" =>
                  c.by = "reversal" /\ c.to = "successful" /\ payment.method = "bank_transfer"
            <4>1. /\ payment.status \in TerminalPayment /\ payment.status # "failed"
                        => c.by = "reversal"
                  /\ payment.status # c.to
                <5>1. /\ May(payment.status, c.to, c.by) /\ c.to \in PaymentStatus
                      /\ payment.status \in PaymentStatus \cup {"none"}
                    BY <2>1, <2>2, <2>4 DEF PaymentRow
                <5> QED
                    BY <2>1, <5>1, Moves
            <4> QED
                BY <2>1, <4>1 DEF TerminalPayment
        <3>5. /\ "completed" \in told' <=> c.to = "successful"
              /\ "expired" \in told' <=> c.to = "expired" \/ "expired" \in told
            BY <2>4, <3>2, <3>3 DEF Ending
        <3>6. payment'.status \notin {"none", "partially_refunded", "refunded"}
            BY <2>2, <3>1 DEF PaymentStatus
        <3> QED
            BY <3>1, <3>2, <3>3, <3>4, <3>5, <3>6 DEF Told
    <2> QED
        BY <2>3, <2>4, <1>12 DEF GoMove, May, assertPaymentTransition, canTransitionPayment
<1>13. ASSUME NEW t \in Tasks, NEW c, First(t, c), GoCancel(t, c)
      PROVE  Told'
    BY <1>1, <1>13 DEF GoCancel, Turns, Leaves, First, rows, Told
<1>14. ASSUME NEW t \in Tasks, NEW c, First(t, c), GoPublish(t, c)
      PROVE  Told'
    BY <1>1, <1>14, AddedSteps DEF GoPublish, Turns, Leaves, First, rows, Told
<1>15. ASSUME NEW t \in Tasks, NEW c, First(t, c), GoVary(t, c)
      PROVE  Told'
    BY <1>1, <1>15 DEF GoVary, Turns, Leaves, First, rows, Told
<1>16. ASSUME NEW t \in Tasks, NEW c, First(t, c), GoFulfil(t, c)
      PROVE  Told'
    BY <1>1, <1>16, AddedSteps, FillOpsAre DEF GoFulfil, Turns, Leaves, First, rows, Told
<1>17. ASSUME NEW t \in Tasks, NEW c, First(t, c), GoComplete(t, c)
      PROVE  Told'
    BY <1>1, <1>17 DEF GoComplete, Turns, Leaves, First, rows, Told
<1>18. ASSUME NEW k \in JobKind, GoClaim(k)
      PROVE  Told'
    BY <1>1, <1>18 DEF GoClaim, Same, rows, Told
<1>19. ASSUME GoHandle
      PROVE  Told'
    BY <1>1, <1>19, FirstSteps DEF GoHandle, Begins, Leaves, rows, LockFree, Told
<1>20. ASSUME GoFinish
      PROVE  Told'
    BY <1>1, <1>20 DEF GoFinish, Same, rows, NoJob, Told
<1>21. ASSUME GoLapse
      PROVE  Told'
    BY <1>1, <1>21 DEF GoLapse, Same, rows, Told
<1>22. ASSUME GoDie
      PROVE  Told'
    BY <1>1, <1>22 DEF GoDie, rows, NoJob, Told
<1>23. ASSUME GoStutter
      PROVE  Told'
    BY <1>1, <1>23 DEF GoStutter, Same, rows, Told
<1> QED
    BY <1>2, <1>3, <1>4, <1>5, <1>6, <1>7, <1>8, <1>9, <1>10, <1>11, <1>12, <1>13, <1>14,
       <1>15, <1>16, <1>17, <1>18, <1>19, <1>20, <1>21, <1>22, <1>23 DEF GoNext, Gone

-----------------------------------------------------------------------------
\* The rows a session is sold by, without the programs
SoldRows ==
    /\ payment.status # "none" => session.status = "open" /\ ~ Chargeless
    /\ session.linked => payment.status # "none"
    /\ jobs["simulate"] > 0 \/ running.kind = "simulate" => payment.status # "none"
    /\ mode \notin {"payment", "save"} => payment.method = "card"
    /\ session.token \/ lapsed => session.status # "none"

Bought(t) == \A c \in left[t] : Stored(t, c) /\ Paid(t, c)

\* Sold, apart: the rows, and each task's steps.
LEMMA SoldParts == /\ Sold <=> SoldRows /\ \A t \in Tasks : Bought(t)
                   /\ Sold' <=> SoldRows' /\ \A t \in Tasks : Bought(t)'
BY DEF Sold, SoldRows, Bought

(***************************************************************************)
(* What another handler waits to do goes on being right: it needs the lock *)
(* for it, or it is no matter of the session's record.                     *)
(***************************************************************************)
LEMMA OthersBought ==
    ASSUME Sold, Locked, NEW t \in Tasks, NEW S, Leaves(t, S), mode' = mode,
           payment.status # "none" => payment'.status # "none",
           \/ lock = t
           \/ lock = None
           \/ lock' = lock /\ session' = session /\ payment'.method = payment.method
              /\ (payment.status = "none" <=> payment'.status = "none"),
           NEW u \in Tasks, u # t
    PROVE  Bought(u)'
<1> SUFFICES ASSUME NEW d \in left[u]
             PROVE  Stored(u, d)' /\ Paid(u, d)'
    BY DEF Bought, Leaves
<1>1. left'[u] = left[u] /\ Stored(u, d) /\ Paid(u, d) /\ None \notin Tasks
    BY Actors DEF Leaves, Sold
<1>2. d.op \notin Unlocked => lock = u
    BY DEF Locked
<1>3. CASE lock = t \/ lock = None
    <2>1. d.op \in Unlocked /\ lock # u
        BY <1>1, <1>2, <1>3
    <2>2. d.op \notin Decisions \cup {"adopt", "index", "link", "create", "customer", "completed",
                   "expired", "amount", "method", "store", "token", "pay", "enqueue"}
        BY <2>1 DEF Unlocked, Decisions, Fill
    <2>3. Stored(u, d)'
        BY <2>2 DEF Stored
    <2>4. Paid(u, d)'
        BY <1>1, <2>1, <2>2 DEF Paid
    <2> QED
        BY <2>3, <2>4
<1>4. CASE lock' = lock /\ session' = session /\ payment'.method = payment.method
           /\ (payment.status = "none" <=> payment'.status = "none")
    <2>1. Stored(u, d)'
        BY <1>1, <1>4 DEF Stored
    <2>2. Paid(u, d)'
        BY <1>1, <1>4 DEF Paid, orphan, Chargeless
    <2> QED
        BY <2>1, <2>2
<1> QED
    BY <1>3, <1>4

(***************************************************************************)
(* The steps a handler has left are right as long as the records are.      *)
(***************************************************************************)
LEMMA RestBought ==
    ASSUME Sold, Typed, Programs, NEW t \in Tasks, NEW c, First(t, c), NEW S, Turns(t, S),
           mode' = mode, session' = session, payment'.method = payment.method,
           payment.status = "none" <=> payment'.status = "none",
           c.op \notin {"adopt", "link", "store", "create", "method"},
           \A d \in S : d \in left[t] \/ d.op \in {"cancelGroup", "publish", "fulfil"} \cup Fill,
           S = {} \/ left[t] \ {c} \subseteq S
    PROVE  Bought(t)'
<1> SUFFICES ASSUME NEW d \in S
             PROVE  Stored(t, d)' /\ Paid(t, d)'
    BY DEF Bought, Turns, Leaves
<1>1. left'[t] = S /\ lock' = lock /\ left[t] \ {c} \subseteq S
    BY DEF Turns, Leaves
<1>2. \A op : op \in {"adopt", "link", "store", "create", "method"} =>
          (Has(left[t], op) <=> Has(S, op))
    BY <1>1 DEF Has, Fill
<1>3. CASE d.op \in {"cancelGroup", "publish", "fulfil"} \cup Fill
    BY <1>3 DEF Stored, Paid, Decisions, Fill
<1>4. CASE d \in left[t]
    <2>1. Stored(t, d) /\ Paid(t, d)
        BY <1>4 DEF Sold
    <2>2. Stored(t, d)'
        BY <1>1, <1>2, <2>1 DEF Stored
    <2>3. Paid(t, d)'
        BY <1>1, <1>2, <2>1 DEF Paid, orphan, Chargeless
    <2> QED
        BY <2>2, <2>3
<1> QED
    BY <1>3, <1>4

(***************************************************************************)
(* A turn that changes neither the session nor whether there is a payment  *)
(***************************************************************************)
LEMMA TurnBought ==
    ASSUME Sold, Typed, Locked, Programs, NEW t \in Tasks, NEW c, First(t, c), NEW S, Turns(t, S),
           mode' = mode, session' = session, payment'.method = payment.method,
           payment.status = "none" <=> payment'.status = "none",
           c.op \notin {"adopt", "link", "store", "create", "method"},
           \A d \in S : d \in left[t] \/ d.op \in {"cancelGroup", "publish", "fulfil"} \cup Fill,
           S = {} \/ left[t] \ {c} \subseteq S,
           SoldRows'
    PROVE  Sold'
<1>1. Bought(t)'
    BY RestBought
<1>2. Leaves(t, S) /\ (lock = t \/ lock' = lock)
    BY DEF Turns
<1>3. \A u \in Tasks : u # t => Bought(u)'
    BY <1>2, OthersBought
<1> QED
    BY <1>1, <1>3, SoldParts


(***************************************************************************)
(* The session's record and its payment's agree, and every step that is    *)
(* left can be made.                                                       *)
(***************************************************************************)
LEMMA SoldKept ==
    ASSUME IInv, GoNext
    PROVE  Sold'
<1>1. /\ Programs /\ Sold /\ Locked /\ Typed /\ Shaped /\ Earned /\ Way
      /\ Poll \in Tasks /\ None \notin Tasks /\ \A t \in Callers : t \in Tasks /\ t # Poll
    BY TasksAssumption DEF IInv, Tasks
<1>2. ASSUME NEW t \in Callers, GoSession(t)
      PROVE  Sold'
    <2>1. SoldRows'
        BY <1>1, <1>2, SoldParts DEF GoSession, rows, SoldRows, Chargeless
    <2>2. Leaves(t, NewSession) /\ lock = None /\ lock' = t
        BY <1>2 DEF GoSession, Begins, LockFree
    <2>3. \A u \in Tasks : u # t => Bought(u)'
        BY <1>1, <1>2, <2>2, OthersBought DEF GoSession, rows
    <2>4. ASSUME NEW d \in NewSession
          PROVE  Stored(t, d)' /\ Paid(t, d)'
        <3>1. /\ d.op \in {"enqueue", "store", "token"} /\ (d.op = "enqueue" => d.to = "expire")
              /\ \E e \in NewSession : e.op = "store"
              /\ session'.status = "none" /\ left'[t] = NewSession
            BY <1>2, <2>2, FirstSteps DEF GoSession, rows, Leaves
        <3> QED
            BY <3>1 DEF Stored, Paid, Decisions, Has
    <2>5. Bought(t)'
        BY <1>1, <2>2, <2>4 DEF Bought, Leaves
    <2> QED
        BY <2>1, <2>3, <2>5, SoldParts
<1>3. ASSUME NEW t \in Callers, GoAct(t)
      PROVE  Sold'
    <2>1. SoldRows'
        BY <1>1, <1>3, SoldParts DEF GoAct, rows, SoldRows, Chargeless
    <2>2. PICK d \in Asks : Begins(t, Begun(d))
        BY <1>3 DEF GoAct
    <2>3. Leaves(t, Begun(d)) /\ lock = None /\ lock' = t
        BY <1>3, <2>2 DEF GoAct, Begins, LockFree
    <2>4. \A u \in Tasks : u # t => Bought(u)'
        BY <1>1, <1>3, <2>3, OthersBought DEF GoAct, rows
    <2>5. ASSUME NEW e \in Begun(d)
          PROVE  Stored(t, e)' /\ Paid(t, e)'
        <3>1. session'.status # "none" /\ mode' = mode /\ left'[t] = Begun(d)
            BY <1>1, <1>3, <2>3 DEF GoAct, rows, Sold, Leaves
        <3>2. /\ e.op = "adopt" \/ e = d
              /\ d.op \in Decisions /\ (d.op = "pay" => mode \in {"payment", "save"} \/ d.to = "card")
              /\ Has(Begun(d), "adopt")
            BY FirstSteps DEF Has
        <3> QED
            BY <3>1, <3>2 DEF Stored, Paid, Decisions
    <2>6. Bought(t)'
        BY <1>1, <2>3, <2>5 DEF Bought, Leaves
    <2> QED
        BY <2>1, <2>4, <2>6, SoldParts
<1>4. ASSUME NEW t \in Callers, GoTool(t)
      PROVE  Sold'
    <2>1. SoldRows'
        BY <1>1, <1>4, SoldParts DEF GoTool, rows, SoldRows, Chargeless
    <2>2. PICK S : Begins(t, S) /\ \A d \in S : d.op = "to" /\ d.by = "any"
        BY <1>4, FirstSteps DEF GoTool
    <2>3. \A u \in Tasks : u # t => Bought(u)'
        BY <1>1, <1>4, <2>2, OthersBought DEF GoTool, rows, Begins
    <2>4. ASSUME NEW d \in S
          PROVE  Stored(t, d)' /\ Paid(t, d)'
        BY <2>2, <1>4 DEF Stored, Paid, Decisions, GoTool, rows
    <2>5. Bought(t)'
        BY <1>1, <2>2, <2>4 DEF Bought, Leaves, Begins
    <2> QED
        BY <2>1, <2>3, <2>5, SoldParts
<1>5. ASSUME NEW t \in Tasks, NEW c, First(t, c), GoAdopt(t, c)
      PROVE  Sold'
    <2>0. /\ c \in left[t] /\ c \in StepRow /\ left[t] \subseteq StepRow
          /\ Stored(t, c) /\ Paid(t, c)
        BY <1>1, <1>5, LeftPlans DEF First, Sold
    <2> DEFINE S == Adopted \cup (left[t] \ {c})
    <2>1. SoldRows'
        BY <1>1, <1>5, SoldParts DEF GoAdopt, rows, SoldRows, Chargeless
    <2>2. Turns(t, S) /\ c.op = "adopt"
        BY <1>5 DEF GoAdopt
    <2> HIDE DEF S
    <2>3. lock = t /\ left'[t] = S
        BY <1>1, <2>0, <2>2 DEF Locked, Unlocked, Fill, Turns, Leaves
    <2>4. \A u \in Tasks : u # t => Bought(u)'
        BY <1>1, <1>5, <2>2, <2>3, OthersBought DEF GoAdopt, rows, Turns
    <2>5. ASSUME NEW d \in S
          PROVE  Stored(t, d)' /\ Paid(t, d)'
        <3>1. session.status # "none"
            BY <2>0, <2>2 DEF Stored
        <3>2. CASE d \in Adopted
            <4>1. orphan /\ d.op \in {"index", "link"}
                BY <3>2, AddedSteps
            <4> QED
                BY <3>1, <4>1, <1>5 DEF GoAdopt, rows, Stored, Paid, Decisions, orphan
        <3>3. CASE d \in left[t] \ {c}
            <4>1. d.op \in Decisions
                BY <1>1, <2>0, <2>2, <3>3, <1>5, After DEF Shaped
            <4>2. Stored(t, d)'
                BY <1>1, <3>1, <3>3, <4>1, <1>5 DEF GoAdopt, rows, Sold, Stored, Decisions
            <4>3. Has(S, "link") \/ ~ orphan'
                BY AddedSteps, <1>5 DEF GoAdopt, rows, S, Has, orphan
            <4> QED
                BY <2>3, <4>1, <4>2, <4>3 DEF Paid, Decisions
        <3> QED
            BY <3>2, <3>3 DEF S
    <2>6. Bought(t)'
        BY <2>3, <2>5 DEF Bought
    <2> QED
        BY <2>1, <2>4, <2>6, SoldParts
<1>6. ASSUME NEW t \in Tasks, NEW c, First(t, c), GoDecide(t, c)
      PROVE  Sold'
    <2>0. /\ c \in left[t] /\ c \in StepRow /\ left[t] \subseteq StepRow
          /\ Stored(t, c) /\ Paid(t, c)
        BY <1>1, <1>6, LeftPlans DEF First, Sold
    <2>1. SoldRows'
        BY <1>1, <1>6, SoldParts DEF GoDecide, rows, SoldRows, Chargeless
    <2>2. PICK S : Turns(t, S) /\ Decided(c, S)
        BY <1>6 DEF GoDecide
    <2>3. \A d \in S : DecidedStep(c, S, d)
        BY <2>2, DecidedSteps
    <2>4. lock = t /\ left'[t] = S /\ c.op \in Decisions
        BY <1>1, <2>0, <2>2, <1>6 DEF GoDecide, Locked, Unlocked, Fill, Turns, Leaves, Decisions
    <2>5. \A u \in Tasks : u # t => Bought(u)'
        BY <1>1, <1>6, <2>2, <2>4, OthersBought DEF GoDecide, rows, Turns
    <2>6. ~ orphan /\ session.status # "none"
        <3>1. ~ Has(left[t], "adopt") /\ ~ Has(left[t], "link")
            BY <2>0, <2>4, <1>6, After DEF Has, Decisions
        <3> QED
            BY <2>0, <2>4, <3>1 DEF Paid, Stored
    <2>7. /\ session.linked <=> payment.status # "none"
          /\ assertOpen /\ ~ session.linked => session.status = "open"
          /\ Chargeless => ~ session.linked
        BY <1>1, <2>6 DEF orphan, Sold, assertOpen, sessionStatus
    <2>8. ASSUME NEW d \in S
          PROVE  Stored(t, d)' /\ Paid(t, d)'
        <3>1. DecidedStep(c, S, d)
            BY <2>3
        <3>2. d.op \notin Decisions \cup {"adopt", "store", "token"}
            BY <3>1 DEF DecidedStep, Decisions
        <3>3. d.op = "method" => d.to = c.to /\ c.op = "pay"
            BY <3>1 DEF DecidedStep
        <3>5. Stored(t, d)'
            BY <2>0, <2>6, <3>2, <3>3, <1>6 DEF GoDecide, rows, Stored, Decisions
        <3>6. /\ d.op = "create" => session.status = "open" /\ ~ Chargeless /\ Has(S, "link")
              /\ d.op = "link" => Has(S, "create")
              /\ d.op = "method" => ~ Chargeless /\ (Has(S, "create") \/ payment.status # "none")
              /\ d.op = "to" => payment.status # "none" \/ Has(S, "method")
              /\ d.op = "hop" => FALSE
              /\ d.op = "enqueue" /\ d.to = "simulate"
                    => payment.status # "none" \/ Has(S, "method")
            BY <2>7, <3>1 DEF DecidedStep
        <3>7. d.op \in {"completed", "expired"} =>
                  payment.status = "none" /\ session.status = "open"
            BY <2>7, <3>1 DEF DecidedStep
        <3>8. d.op = "to" /\ d.by = "reversal" =>
                  /\ d.to \in {"successful", "expired"}
                  /\ d.to = "successful" => payment.method = "bank_transfer" /\ ~ Has(S, "method")
            BY <3>1 DEF DecidedStep
        <3>9. lock' = t
            BY <2>2, <2>4 DEF Turns
        <3>10. Paid(t, d)'
            BY <2>4, <3>2, <3>6, <3>7, <3>8, <3>9, <1>6 DEF GoDecide, rows, Paid, Decisions,
               Chargeless
        <3> QED
            BY <3>5, <3>10
    <2>9. Bought(t)'
        BY <2>4, <2>8 DEF Bought
    <2> QED
        BY <2>1, <2>5, <2>9, SoldParts
<1>7. ASSUME NEW t \in Tasks, NEW c, First(t, c), GoWrite(t, c)
      PROVE  Sold'
    <2>0. /\ c \in left[t] /\ c \in StepRow /\ left[t] \subseteq StepRow
          /\ Stored(t, c) /\ Paid(t, c)
        BY <1>1, <1>7, LeftPlans DEF First, Sold
    <2> DEFINE S == left[t] \ {c}
    <2>1. Turns(t, S) /\ session \in SessionRow /\ payment' = payment /\ mode' = mode
          /\ UNCHANGED <<jobs, running, lapsed>>
        BY <1>1, <1>7, TypedNow DEF GoWrite
    <2> HIDE DEF S
    <2>2. lock = t /\ left'[t] = S
        BY <1>1, <2>0, <2>1, <1>7 DEF GoWrite, Written, Locked, Unlocked, Fill, Turns, Leaves
    <2>3. \A u \in Tasks : u # t => Bought(u)'
        BY <1>1, <2>1, <2>2, OthersBought DEF Turns
    <2>4. \A d \in S : /\ d \in left[t]
                       /\ c.op = "link" => d.op \notin {"link", "create", "adopt"}
                       /\ c.op = "store" => d.op # "store"
                       /\ c.op = "token" => d.op # "store"
        <3> SUFFICES ASSUME NEW d \in S
                     PROVE  /\ d \in left[t]
                            /\ c.op = "link" => d.op \notin {"link", "create", "adopt"}
                            /\ c.op = "store" => d.op # "store"
                            /\ c.op = "token" => d.op # "store"
            OBVIOUS
        <3>1. d \in left[t] /\ d # c /\ d \in StepRow
            BY <2>0 DEF S
        <3> QED
            BY <2>0, <3>1, <1>7, After, AfterMove
    <2>5. c.op = "store" => session.status = "none" /\ payment.status = "none"
        BY <1>1, <2>0 DEF Stored, Sold
    <2>6. /\ c.op = "store" => session'.status = "open" /\ session'.linked = session.linked
          /\ c.op # "store" => session'.status = session.status
          /\ c.op = "link" => session'.linked
          /\ c.op # "link" => session'.linked = session.linked
          /\ c.op # "token" => session'.token = session.token
        BY <2>1, <1>7 DEF GoWrite, Written, SessionRow
    <2>7. /\ c.op = "link" => payment.status # "none"
          /\ c.op = "token" => session.status # "none"
        BY <2>0, <2>4 DEF Stored, Paid, Has, S
    <2>8. SoldRows'
        BY <1>1, <2>1, <2>5, <2>6, <2>7, SoldParts DEF SoldRows, Chargeless
    <2>9. \A op : op # c.op => (Has(S, op) <=> Has(left[t], op))
        BY DEF S, Has
    <2>10. c.op \in {"store", "token", "customer", "amount", "index", "link"}
        BY <1>7 DEF GoWrite, Written
    <2>11. ASSUME NEW d \in S
           PROVE  Stored(t, d)' /\ Paid(t, d)'
        <3>1. d \in left[t] /\ Stored(t, d) /\ Paid(t, d) /\ lock' = lock
            BY <1>1, <2>1, <2>4 DEF Sold, Turns
        <3>2. Stored(t, d)'
            BY <2>1, <2>2, <2>4, <2>5, <2>6, <2>7, <2>9, <2>10, <3>1 DEF Stored
        <3>3. d.op \in Decisions => Has(S, "adopt") \/ Has(S, "link") \/ ~ orphan'
            BY <2>1, <2>6, <2>9, <2>10, <3>1 DEF Paid, orphan
        <3>4. d.op = "create" => c.op # "store" /\ c.op # "link"
            BY <2>4, <2>5, <3>1 DEF Paid
        <3>5. /\ d.op = "link" => Has(S, "create") \/ payment.status # "none"
              /\ d.op = "method" => Has(S, "create") \/ payment.status # "none"
              /\ Has(left[t], "method") <=> Has(S, "method")
            BY <2>9, <2>10, <3>1 DEF Paid
        <3>6. d.op \in {"completed", "expired"} => c.op # "store"
            BY <2>5, <3>1 DEF Paid
        <3>7. d.op = "create" => Has(S, "link")
            BY <2>9, <3>1, <3>4 DEF Paid
        <3>8. Paid(t, d)'
            BY <2>1, <2>2, <2>6, <3>1, <3>3, <3>4, <3>5, <3>6, <3>7 DEF Paid, Chargeless
        <3> QED
            BY <3>2, <3>8
    <2>12. Bought(t)'
        BY <2>2, <2>11 DEF Bought
    <2> QED
        BY <2>3, <2>8, <2>12, SoldParts
<1>8. ASSUME NEW t \in Tasks, NEW c, First(t, c), GoEnd(t, c)
      PROVE  Sold'
    <2>0. /\ c \in left[t] /\ c \in StepRow /\ left[t] \subseteq StepRow
          /\ Stored(t, c) /\ Paid(t, c)
        BY <1>1, <1>8, LeftPlans DEF First, Sold
    <2>1. /\ Turns(t, left[t] \ {c}) /\ c.op \in {"completed", "expired"}
          /\ session \in SessionRow /\ UNCHANGED <<mode, payment, jobs, running, lapsed>>
        BY <1>1, <1>8, TypedNow DEF GoEnd
    <2>2. lock = t /\ payment.status = "none"
        BY <1>1, <2>0, <2>1 DEF Locked, Unlocked, Fill, Paid
    <2>3. left[t] \ {c} = {}
        BY <2>0, <2>1, <1>8, After DEF Late
    <2>4. \A u \in Tasks : u # t => Bought(u)'
        BY <1>1, <2>1, <2>2, OthersBought DEF Turns
    <2>5. Bought(t)'
        BY <2>1, <2>3 DEF Bought, Turns, Leaves
    <2>6. session'.status = c.op /\ session'.linked = session.linked
          /\ session'.token = session.token
        BY <2>1, <1>8 DEF GoEnd, SessionRow
    <2>7. SoldRows'
        BY <1>1, <2>1, <2>2, <2>6, SoldParts DEF SoldRows, Chargeless
    <2> QED
        BY <2>4, <2>5, <2>7, SoldParts
<1>9. ASSUME NEW t \in Tasks, NEW c, First(t, c), GoEnqueue(t, c)
      PROVE  Sold'
    <2>0. /\ c \in left[t] /\ c \in StepRow /\ left[t] \subseteq StepRow
          /\ Stored(t, c) /\ Paid(t, c)
        BY <1>1, <1>9, LeftPlans DEF First, Sold
    <2>1. Turns(t, left[t] \ {c}) /\ c.op = "enqueue" /\ UNCHANGED <<rows, running, lapsed>>
        BY <1>9 DEF GoEnqueue
    <2>2. c.to = "simulate" => payment.status # "none"
        <3>1. c.to = "simulate" => ~ Has(left[t], "method")
            BY <2>0, <2>1, <1>9, AfterMove DEF Has
        <3> QED
            BY <1>1, <2>1, <3>1, <1>9, PaidNext
    <2>3. c.to # "simulate" => jobs'["simulate"] = jobs["simulate"]
        <3>1. jobs \in [JobKind -> Nat]
            BY <1>1, TypedNow
        <3> QED
            BY <3>1, <1>9 DEF GoEnqueue, JobKind
    <2>4. SoldRows'
        BY <1>1, <2>1, <2>2, <2>3, SoldParts DEF SoldRows, Chargeless, rows
    <2> QED
        BY <1>1, <2>1, <2>4, <1>9, TurnBought DEF rows
<1>10. ASSUME NEW t \in Tasks, NEW c, First(t, c), GoCreate(t, c)
      PROVE  Sold'
    <2>0. /\ c \in left[t] /\ c \in StepRow /\ left[t] \subseteq StepRow
          /\ Stored(t, c) /\ Paid(t, c)
        BY <1>1, <1>10, LeftPlans DEF First, Sold
    <2>1. /\ c.op = "create" /\ UNCHANGED <<mode, session, jobs, running, lapsed>>
          /\ payment \in PaymentRow
        BY <1>1, <1>10, TypedNow DEF GoCreate
    <2>2. lock = t /\ session.status = "open" /\ ~ Chargeless /\ Has(left[t], "link")
        BY <1>1, <2>0, <2>1 DEF Locked, Unlocked, Fill, Paid
    <2>3. CASE payment.status # "none"
        <3>1. Turns(t, {}) /\ UNCHANGED payment
            BY <2>3, <1>10 DEF GoCreate
        <3>2. \A u \in Tasks : u # t => Bought(u)'
            BY <1>1, <2>1, <2>2, <3>1, OthersBought DEF Turns
        <3>3. Bought(t)'
            BY <3>1 DEF Bought, Turns, Leaves
        <3>4. SoldRows'
            BY <1>1, <2>1, <3>1, SoldParts DEF SoldRows, Chargeless
        <3> QED
            BY <3>2, <3>3, <3>4, SoldParts
    <2>4. CASE payment.status = "none"
        <3> DEFINE S == left[t] \ {c}
        <3>1. Turns(t, S) /\ payment' = [payment EXCEPT !.status = "created"]
            BY <2>4, <1>10 DEF GoCreate
        <3> HIDE DEF S
        <3>2. payment'.status = "created" /\ payment'.method = payment.method
            BY <2>1, <3>1 DEF PaymentRow
        <3>3. \A u \in Tasks : u # t => Bought(u)'
            BY <1>1, <2>1, <2>2, <3>1, <3>2, OthersBought DEF Turns
        <3>4. SoldRows'
            BY <1>1, <2>1, <2>2, <3>2, SoldParts DEF SoldRows, Chargeless
        <3>5. \A d \in S : d \in left[t] /\ d.op \notin {"create", "adopt"}
            <4> SUFFICES ASSUME NEW d \in S
                         PROVE  d \in left[t] /\ d.op \notin {"create", "adopt"}
                OBVIOUS
            <4>1. d \in left[t] /\ d # c /\ d \in StepRow
                BY <2>0 DEF S
            <4> QED
                BY <2>1, <4>1, <1>10, After
        <3>6. Has(S, "link") /\ \A op : op # "create" => (Has(S, op) <=> Has(left[t], op))
            BY <2>1, <2>2 DEF Has, S
        <3>7. ASSUME NEW d \in S
              PROVE  Stored(t, d)' /\ Paid(t, d)'
            <4>1. /\ d \in left[t] /\ Stored(t, d) /\ Paid(t, d) /\ lock' = lock /\ left'[t] = S
                  /\ d.op \notin {"create", "adopt"}
                BY <1>1, <3>1, <3>5 DEF Sold, Turns, Leaves
            <4>2. Stored(t, d)'
                BY <2>1, <2>2, <3>6, <4>1 DEF Stored
            <4>3. d.op \notin {"completed", "expired"}
                <5>1. /\ d.op = "expired" => left[t] = {d}
                      /\ d.op = "completed" => c.op \in Fill \cup {"fulfil", "completed"}
                    BY <1>1, <2>0, <4>1 DEF Earned
                <5> QED
                    BY <2>0, <2>1, <5>1 DEF Fill
            <4>4. Paid(t, d)'
                BY <2>1, <2>2, <3>2, <3>6, <4>1, <4>3 DEF Paid, Chargeless
            <4> QED
                BY <4>2, <4>4
        <3>8. Bought(t)'
            BY <3>1, <3>7 DEF Bought, Turns, Leaves
        <3> QED
            BY <3>3, <3>4, <3>8, SoldParts
    <2> QED
        BY <2>3, <2>4
<1>11. ASSUME NEW t \in Tasks, NEW c, First(t, c), GoName(t, c)
      PROVE  Sold'
    <2>0. /\ c \in left[t] /\ c \in StepRow /\ left[t] \subseteq StepRow
          /\ Stored(t, c) /\ Paid(t, c)
        BY <1>1, <1>11, LeftPlans DEF First, Sold
    <2>1. /\ c.op = "method" /\ payment.status # "none" /\ payment \in PaymentRow
          /\ UNCHANGED <<mode, session, jobs, running, lapsed>>
        BY <1>1, <1>11, PaidNext, TypedNow DEF GoName
    <2>2. lock = t /\ (mode \notin {"payment", "save"} => c.to = "card")
        BY <1>1, <2>0, <2>1 DEF Locked, Unlocked, Fill, Stored
    <2>3. PICK b \in left[t] :
              /\ b.op = "to" /\ b.to \in Resumes
              /\ \/ /\ payment' = [status |-> b.to, word |-> "", method |-> c.to]
                    /\ Turns(t, left[t] \ {c, b})
                 \/ Turns(t, {}) /\ UNCHANGED payment
        BY <1>11 DEF GoName
    <2>4. CASE Turns(t, {}) /\ UNCHANGED payment
        <3>1. \A u \in Tasks : u # t => Bought(u)'
            BY <1>1, <2>1, <2>2, <2>4, OthersBought DEF Turns
        <3>2. Bought(t)'
            BY <2>4 DEF Bought, Turns, Leaves
        <3>3. SoldRows'
            BY <1>1, <2>1, <2>4, SoldParts DEF SoldRows, Chargeless
        <3> QED
            BY <3>1, <3>2, <3>3, SoldParts
    <2>5. CASE /\ payment' = [status |-> b.to, word |-> "", method |-> c.to]
               /\ Turns(t, left[t] \ {c, b})
        <3> DEFINE S == left[t] \ {c, b}
        <3>1. Turns(t, S) /\ payment'.status \in Resumes /\ payment'.method = c.to
            BY <2>3, <2>5
        <3> HIDE DEF S
        <3>2. payment'.status # "none"
            BY <3>1 DEF Resumes
        <3>3. \A u \in Tasks : u # t => Bought(u)'
            BY <1>1, <2>1, <2>2, <3>1, <3>2, OthersBought DEF Turns
        <3>4. SoldRows'
            BY <1>1, <2>1, <2>2, <3>1, <3>2, SoldParts DEF SoldRows, Chargeless
        <3>5. \A op : op \notin {"to", "method"} => (Has(S, op) <=> Has(left[t], op))
            BY <2>1, <2>3 DEF Has, S
        <3>6. ASSUME NEW d \in S
              PROVE  Stored(t, d)' /\ Paid(t, d)'
            <4>1. /\ d \in left[t] /\ d # c /\ Stored(t, d) /\ Paid(t, d) /\ lock' = lock
                  /\ left'[t] = S
                BY <1>1, <3>1 DEF Sold, Turns, Leaves, S
            <4>2. Stored(t, d)'
                BY <2>1, <3>5, <4>1 DEF Stored
            <4>3. ~ (d.op = "to" /\ d.by = "reversal" /\ d.to = "successful")
                BY <2>0, <2>1, <4>1 DEF Paid, Has
            <4>4. Paid(t, d)'
                BY <2>1, <2>2, <3>2, <3>5, <4>1, <4>3 DEF Paid, Chargeless, orphan
            <4> QED
                BY <4>2, <4>4
        <3>7. Bought(t)'
            BY <3>1, <3>6 DEF Bought, Turns, Leaves
        <3> QED
            BY <3>3, <3>4, <3>7, SoldParts
    <2> QED
        BY <2>3, <2>4, <2>5
<1>12. ASSUME NEW t \in Tasks, NEW c, First(t, c), GoMove(t, c)
      PROVE  Sold'
    <2>0. /\ c \in left[t] /\ c \in StepRow /\ left[t] \subseteq StepRow
          /\ Stored(t, c) /\ Paid(t, c)
        BY <1>1, <1>12, LeftPlans DEF First, Sold
    <2>1. /\ payment.status # "none" /\ payment \in PaymentRow /\ c.op \in {"to", "hop"}
          /\ UNCHANGED <<mode, session, jobs, running, lapsed>>
        BY <1>1, <1>12, PaidNext, TypedNow DEF GoMove
    <2>2. payment'.status # "none" /\ payment'.method = payment.method
        <3>1. c.to # "none"
            BY <2>0, <2>1 DEF StepRow, PaymentStatus
        <3> QED
            BY <2>1, <3>1, <1>12 DEF GoMove, PaymentRow
    <2>3. SoldRows'
        BY <1>1, <2>1, <2>2, SoldParts DEF SoldRows, Chargeless
    <2>4. \/ Turns(t, left[t] \ {c})
          \/ Turns(t, Tells(c.to) \cup (left[t] \ {c}))
          \/ Turns(t, {})
        BY <1>12 DEF GoMove
    <2>5. \A d \in Tells(c.to) : d.op \in {"cancelGroup", "publish"}
        BY AddedSteps
    <2> QED
        BY <1>1, <2>1, <2>2, <2>3, <2>4, <2>5, <1>12, TurnBought
<1>13. ASSUME NEW t \in Tasks, NEW c, First(t, c), GoCancel(t, c)
      PROVE  Sold'
    <2>1. /\ running'.kind = running.kind /\ jobs'["simulate"] = 0
          /\ UNCHANGED <<rows, lapsed>> /\ Turns(t, left[t] \ {c}) /\ c.op = "cancelGroup"
        BY <1>1, <1>13, TypedNow DEF GoCancel, RunningRow, JobKind
    <2>2. SoldRows'
        BY <1>1, <2>1, SoldParts DEF SoldRows, Chargeless, rows
    <2> QED
        BY <1>1, <2>1, <2>2, <1>13, TurnBought DEF rows
<1>14. ASSUME NEW t \in Tasks, NEW c, First(t, c), GoPublish(t, c)
      PROVE  Sold'
    <2>1. /\ UNCHANGED <<rows, jobs, running, lapsed>> /\ c.op = "publish"
          /\ Turns(t, Published \cup (left[t] \ {c}))
        BY <1>14 DEF GoPublish
    <2>2. SoldRows'
        BY <1>1, <2>1, SoldParts DEF SoldRows, Chargeless, rows
    <2>3. \A d \in Published : d.op = "fulfil"
        BY AddedSteps
    <2> QED
        BY <1>1, <2>1, <2>2, <2>3, <1>14, TurnBought DEF rows
<1>15. ASSUME NEW t \in Tasks, NEW c, First(t, c), GoVary(t, c)
      PROVE  Sold'
    <2>1. /\ UNCHANGED <<mode, session, payment, jobs, running, lapsed>> /\ c.op = "variance"
          /\ Turns(t, left[t] \ {c})
        BY <1>15 DEF GoVary
    <2>2. SoldRows'
        BY <1>1, <2>1, SoldParts DEF SoldRows, Chargeless
    <2> QED
        BY <1>1, <2>1, <2>2, <1>15, TurnBought
<1>16. ASSUME NEW t \in Tasks, NEW c, First(t, c), GoFulfil(t, c)
      PROVE  Sold'
    <2>1. /\ UNCHANGED <<rows, jobs, running, lapsed>> /\ c.op = "fulfil"
          /\ Turns(t, left[t] \ {c}) \/ Turns(t, Plains(FillOps) \cup (left[t] \ {c}))
        BY <1>16 DEF GoFulfil
    <2>2. SoldRows'
        BY <1>1, <2>1, SoldParts DEF SoldRows, Chargeless, rows
    <2>3. \A d \in Plains(FillOps) : d.op \in Fill
        BY AddedSteps, FillOpsAre
    <2> QED
        BY <1>1, <2>1, <2>2, <2>3, <1>16, TurnBought DEF rows
<1>17. ASSUME NEW t \in Tasks, NEW c, First(t, c), GoComplete(t, c)
      PROVE  Sold'
    <2>1. /\ UNCHANGED <<mode, session, payment, jobs, running, lapsed>> /\ c.op \in Fill
          /\ Turns(t, left[t] \ {c})
        BY <1>17 DEF GoComplete, Makes, Fill
    <2>2. SoldRows'
        BY <1>1, <2>1, SoldParts DEF SoldRows, Chargeless
    <2>3. c.op \notin {"adopt", "link", "store", "create", "method"}
        BY <2>1 DEF Fill
    <2> QED
        BY <1>1, <2>1, <2>2, <2>3, <1>17, TurnBought
<1>18. ASSUME NEW k \in JobKind, GoClaim(k)
      PROVE  Sold'
    <2>1. SoldRows'
        <3>1. /\ running'.kind = k /\ jobs[k] > 0
              /\ jobs'["simulate"] > 0 => jobs["simulate"] > 0
            <4>1. jobs \in [JobKind -> Nat]
                BY <1>1, TypedNow
            <4> QED
                BY <4>1, <1>18 DEF GoClaim, Due, JobKind
        <3> QED
            BY <1>1, <3>1, <1>18, SoldParts DEF GoClaim, rows, SoldRows, Chargeless
    <2>2. \A t \in Tasks : Bought(t)'
        <3>1. UNCHANGED <<mode, session, payment, lock>> /\ left' = left
            BY <1>18 DEF GoClaim, Same, rows
        <3> QED
            BY <1>1, <3>1 DEF Sold, Bought, Stored, Paid, orphan, Chargeless
    <2> QED
        BY <2>1, <2>2, SoldParts
<1>19. ASSUME GoHandle
      PROVE  Sold'
    <2>1. running'.kind = running.kind /\ UNCHANGED <<mode, session, payment, lapsed, jobs>>
        BY <1>1, <1>19, TypedNow DEF GoHandle, RunningRow, rows
    <2>2. SoldRows'
        BY <1>1, <2>1, SoldParts DEF SoldRows, Chargeless
    <2>3. CASE running.kind = "simulate"
        <3>1. Leaves(Poll, Outcome) /\ lock' = lock
            BY <2>3, <1>19 DEF GoHandle, Begins
        <3>2. \A u \in Tasks : u # Poll => Bought(u)'
            BY <1>1, <2>1, <3>1, OthersBought
        <3>3. payment.status # "none" /\ \A d \in Outcome : d.op = "hop"
            BY <1>1, <2>3, FirstSteps DEF Sold
        <3>4. Bought(Poll)'
            BY <2>1, <3>1, <3>3 DEF Bought, Leaves, Stored, Paid, Decisions
        <3> QED
            BY <2>2, <3>2, <3>4, SoldParts
    <2>4. CASE running.kind # "simulate"
        <3>1. Leaves(Poll, Begun(Closing)) /\ lock' = Poll /\ lock = None
            BY <2>4, <1>19 DEF GoHandle, Begins, LockFree
        <3>2. \A u \in Tasks : u # Poll => Bought(u)'
            BY <1>1, <2>1, <3>1, OthersBought
        <3>3. session.status # "none"
            <4>1. running.kind \in {"expire", "grace"}
                BY <1>1, <2>4, <1>19, TypedNow DEF GoHandle, RunningRow, JobKind
            <4> QED
                BY <1>1, <4>1 DEF Way, Sold
        <3>4. \A d \in Begun(Closing) : d.op \in {"adopt", "close"}
            BY FirstSteps
        <3>5. Has(Begun(Closing), "adopt")
            BY FirstSteps DEF Has
        <3>6. left'[Poll] = Begun(Closing)
            BY <1>1, <3>1 DEF Leaves
        <3>7. ASSUME NEW d \in Begun(Closing)
              PROVE  Stored(Poll, d)' /\ Paid(Poll, d)'
            BY <2>1, <3>3, <3>4, <3>5, <3>6 DEF Stored, Paid, Decisions
        <3>8. Bought(Poll)'
            BY <3>6, <3>7 DEF Bought
        <3> QED
            BY <2>2, <3>2, <3>8, SoldParts
    <2> QED
        BY <2>3, <2>4
<1>20. ASSUME GoFinish
      PROVE  Sold'
    <2>1. SoldRows'
        BY <1>1, <1>20, SoldParts DEF GoFinish, rows, SoldRows, Chargeless, NoJob
    <2>2. \A t \in Tasks : Bought(t)'
        <3>1. UNCHANGED <<mode, session, payment, lock>> /\ left' = left
            BY <1>20 DEF GoFinish, Same, rows
        <3> QED
            BY <1>1, <3>1 DEF Sold, Bought, Stored, Paid, orphan, Chargeless
    <2> QED
        BY <2>1, <2>2, SoldParts
<1>21. ASSUME GoLapse
      PROVE  Sold'
    <2>1. SoldRows'
        BY <1>1, <1>21, SoldParts DEF GoLapse, rows, SoldRows, Chargeless
    <2>2. \A t \in Tasks : Bought(t)'
        <3>1. UNCHANGED <<mode, session, payment, lock>> /\ left' = left
            BY <1>21 DEF GoLapse, Same, rows
        <3> QED
            BY <1>1, <3>1 DEF Sold, Bought, Stored, Paid, orphan, Chargeless
    <2> QED
        BY <2>1, <2>2, SoldParts
<1>22. ASSUME GoDie
      PROVE  Sold'
    <2>1. \A t \in Tasks : Bought(t)'
        BY <1>22 DEF GoDie, Bought
    <2>2. SoldRows'
        <3>1. /\ jobs'["simulate"] > 0 => jobs["simulate"] > 0 \/ running.kind = "simulate"
              /\ running'.kind = "none"
            <4>1. jobs \in [JobKind -> Nat]
                BY <1>1, TypedNow
            <4> QED
                BY <4>1, <1>22 DEF GoDie, NoJob, JobKind
        <3> QED
            BY <1>1, <3>1, <1>22, SoldParts DEF GoDie, rows, SoldRows, Chargeless
    <2> QED
        BY <2>1, <2>2, SoldParts
<1>23. ASSUME GoStutter
      PROVE  Sold'
    <2>1. SoldRows'
        BY <1>1, <1>23, SoldParts DEF GoStutter, rows, SoldRows, Chargeless
    <2>2. \A t \in Tasks : Bought(t)'
        <3>1. UNCHANGED <<mode, session, payment, lock>> /\ left' = left
            BY <1>23 DEF GoStutter, Same, rows
        <3> QED
            BY <1>1, <3>1 DEF Sold, Bought, Stored, Paid, orphan, Chargeless
    <2> QED
        BY <2>1, <2>2, SoldParts
<1> QED
    BY <1>2, <1>3, <1>4, <1>5, <1>6, <1>7, <1>8, <1>9, <1>10, <1>11, <1>12, <1>13, <1>14,
       <1>15, <1>16, <1>17, <1>18, <1>19, <1>20, <1>21, <1>22, <1>23 DEF GoNext, Gone

(***************************************************************************)
(* Who is about to do something else has not begun the completion work.    *)
(***************************************************************************)
LEMMA NotFilling ==
    ASSUME Filled, Programs, NEW t \in Tasks, NEW c, First(t, c), c.op \notin Fill
    PROVE  ~ Filling(t)
<1> SUFFICES ASSUME NEW e \in left[t], e.op \in Fill
             PROVE  FALSE
    BY DEF Filling
<1>1. c \in left[t] /\ c \in StepRow /\ e \in StepRow
    BY LeftPlans DEF First
<1>2. Rank(c) >= 15 /\ Rank(c) < Rank(e)
    BY <1>1 DEF Filled, First
<1>3. Rank(c) \in 0..24 /\ Rank(e) \in 15..23 /\ Rank(c) \notin 15..23
    BY <1>1, Ranks
<1> QED
    BY <1>2, <1>3

(***************************************************************************)
(* A turn outside of the completion work                                   *)
(***************************************************************************)
LEMMA FilledTurn ==
    ASSUME Filled, Programs, NEW t \in Tasks, NEW c, First(t, c), NEW S, Turns(t, S),
           c.op \notin Fill, \A d \in S : d \in left[t] \/ d.op \notin Fill,
           UNCHANGED <<mode, made, filling, past>>
    PROVE  Filled'
<1>1. ~ Filling(t)
    BY NotFilling
<1>2. \A d \in S : d.op \notin Fill
    BY <1>1 DEF Filling
<1>3. left'[t] = S /\ \A u \in Tasks : u # t => left'[u] = left[u]
    BY DEF Turns, Leaves
<1>4. ~ Filling(t)' /\ \A u \in Tasks : u # t => (Filling(u)' <=> Filling(u))
    BY <1>2, <1>3 DEF Filling
<1>5. \A u \in Tasks : filling' = u <=> Filling(u)'
    BY <1>1, <1>4 DEF Filled
<1>6. \A u \in Tasks : \A d, e \in left'[u] : d.op \in Fill => Rank(e) >= 15
    BY <1>2, <1>3 DEF Filled
<1>7. \A u \in Tasks : \A d \in left'[u] : Makings(u, d)'
    <2> SUFFICES ASSUME NEW u \in Tasks, NEW d \in left'[u]
                 PROVE  Makings(u, d)'
        OBVIOUS
    <2>1. CASE u = t
        <3>1. d.op \notin Fill
            BY <1>2, <1>3, <2>1
        <3> QED
            BY <3>1 DEF Makings, Fill
    <2>2. CASE u # t
        <3>1. left'[u] = left[u] /\ Makings(u, d)
            BY <1>3, <2>2 DEF Filled
        <3> QED
            BY <3>1 DEF Makings, Subscribes
    <2> QED
        BY <2>1, <2>2
<1>8. Whole' /\ (filling' # None => made'.fulfilment = "none")
      /\ made'.subs <= 1 /\ made'.invoices <= 1 /\ (made'.linked => made'.card /\ Subscribes')
    BY DEF Filled, Whole, Subscribes
<1> QED
    BY <1>5, <1>6, <1>7, <1>8 DEF Filled

(***************************************************************************)
(* A handler that begins does not begin with the completion work.          *)
(***************************************************************************)
LEMMA FilledBegins ==
    ASSUME Filled, NEW t \in Tasks, left[t] = {}, NEW S, Leaves(t, S),
           \A d \in S : d.op \notin Fill, UNCHANGED <<mode, made, filling>>,
           past'.deaths = past.deaths
    PROVE  Filled'
<1>1. left'[t] = S /\ \A u \in Tasks : u # t => left'[u] = left[u]
    BY DEF Leaves
<1>2. ~ Filling(t)' /\ ~ Filling(t) /\ \A u \in Tasks : u # t => (Filling(u)' <=> Filling(u))
    BY <1>1 DEF Filling
<1>3. \A u \in Tasks : filling' = u <=> Filling(u)'
    BY <1>2 DEF Filled
<1>4. \A u \in Tasks : \A d, e \in left'[u] : d.op \in Fill => Rank(e) >= 15
    BY <1>1 DEF Filled
<1>5. \A u \in Tasks : \A d \in left'[u] : Makings(u, d)'
    <2> SUFFICES ASSUME NEW u \in Tasks, NEW d \in left'[u]
                 PROVE  Makings(u, d)'
        OBVIOUS
    <2>1. CASE u = t
        <3>1. d.op \notin Fill
            BY <1>1, <2>1
        <3> QED
            BY <3>1 DEF Makings, Fill
    <2>2. CASE u # t
        <3>1. left'[u] = left[u] /\ Makings(u, d)
            BY <1>1, <2>2 DEF Filled
        <3> QED
            BY <3>1 DEF Makings, Subscribes
    <2> QED
        BY <2>1, <2>2
<1>6. Whole' /\ (filling' # None => made'.fulfilment = "none")
      /\ made'.subs <= 1 /\ made'.invoices <= 1 /\ (made'.linked => made'.card /\ Subscribes')
    BY DEF Filled, Whole, Subscribes
<1> QED
    BY <1>3, <1>4, <1>5, <1>6 DEF Filled

\* Filled stays where nothing it speaks of changes.
LEMMA FilledSame ==
    ASSUME Filled, left' = left, UNCHANGED <<mode, made, filling, past>>
    PROVE  Filled'
<1>1. \A u \in Tasks : Filling(u)' <=> Filling(u)
    BY DEF Filling
<1>2. ASSUME NEW u \in Tasks, NEW d \in left[u]
      PROVE  Makings(u, d)'
    <2>1. Makings(u, d)
        BY DEF Filled
    <2> QED
        BY <2>1 DEF Makings, Subscribes
<1>3. \A u \in Tasks : filling' = u <=> Filling(u)'
    BY <1>1 DEF Filled
<1>4. \A u \in Tasks : \A d, e \in left'[u] : d.op \in Fill => Rank(e) >= 15
    BY DEF Filled
<1>5. \A u \in Tasks : \A d \in left'[u] : Makings(u, d)'
    BY <1>2
<1>6. Whole' /\ (filling' # None => made'.fulfilment = "none")
      /\ made'.subs <= 1 /\ made'.invoices <= 1 /\ (made'.linked => made'.card /\ Subscribes')
    BY DEF Filled, Whole, Subscribes
<1> QED
    BY <1>3, <1>4, <1>5, <1>6 DEF Filled

(***************************************************************************)
(* What the completion work that begins has to do                          *)
(***************************************************************************)
LEMMA FillMakings ==
    ASSUME Sold, Earned, Filled, Typed, NEW t \in Tasks, NEW c \in left[t], c.op = "fulfil",
           NEW d \in Plains(FillOps), NEW S, Plains(FillOps) \subseteq S
    PROVE  /\ d.op \in Fill
           /\ d.op # "empty" => Has(S, "fulfilled")
           /\ d.op = "empty" => ~ Subscribes
           /\ d.op = "linkSubscription" => Subscribes
           /\ d.op = "subscribe" => made.subs = 0
           /\ d.op = "invoice" => made.invoices = 0
           /\ d.op = "fulfilled" =>
                /\ made.card \/ Has(S, "card")
                /\ Subscribes => made.linked \/ Has(S, "linkSubscription")
                /\ Subscribes => made.renewals > 0 \/ Has(S, "renewal")
                /\ mode = "subscription" => made.settled \/ Has(S, "settle")
<1>1. d.op \in FillOps /\ \A op \in FillOps : Has(S, op)
    BY AddedSteps DEF Has
<1>2. "empty" \in FillOps => d.op = "empty" /\ ~ Subscribes
    <2>1. "empty" \in FillOps => FillOps = {"empty"} /\ mode \in {"payment", "save"}
        BY FillOpsAre DEF Sold
    <2> QED
        BY <1>1, <2>1 DEF Subscribes
<1>3. mode = "subscription" => payment.status # "none"
    <2>1. Fulfils(t)
        BY DEF Fulfils
    <2> QED
        BY <2>1 DEF Earned, Chargeless
<1>4. made.invoices \in Nat
    BY TypedNow DEF MadeRow
<1>5. mode = "subscription" => Subscribes
    BY DEF Subscribes
<1>6. /\ d.op \in Fill /\ (d.op # "empty" => "fulfilled" \in FillOps)
      /\ d.op = "linkSubscription" => Subscribes
      /\ d.op = "subscribe" => made.subs = 0
      /\ d.op = "invoice" => made.invoices = 0
    BY <1>1, <1>2, <1>4, FillOpsAre
<1>7. d.op = "empty" => ~ Subscribes
    BY <1>1, <1>2
<1>8. d.op = "fulfilled" => "empty" \notin FillOps
    BY <1>2
<1> QED
    BY <1>1, <1>3, <1>5, <1>6, <1>7, <1>8, FillOpsAre

(***************************************************************************)
(* The completion work is done by one handler at a time, and is whole when *)
(* it is on record.                                                        *)
(***************************************************************************)
LEMMA FilledKept ==
    ASSUME IInv, GoNext
    PROVE  Filled'
<1>1. /\ Programs /\ Filled /\ Sold /\ Earned /\ Locked /\ Typed /\ Shaped
      /\ Poll \in Tasks /\ None \notin Tasks /\ \A t \in Callers : t \in Tasks /\ t # Poll
    BY TasksAssumption DEF IInv, Tasks
<1>2. ASSUME NEW t \in Callers, GoSession(t)
      PROVE  Filled'
    <2>1. Leaves(t, NewSession) /\ left[t] = {} /\ UNCHANGED <<mode, made, filling, past>>
        BY <1>2 DEF GoSession, Begins, rows
    <2>2. \A d \in NewSession : d.op \notin Fill
        BY FirstSteps DEF Fill
    <2> QED
        BY <1>1, <2>1, <2>2, FilledBegins
<1>3. ASSUME NEW t \in Callers, GoAct(t)
      PROVE  Filled'
    <2>1. PICK d \in Asks : Begins(t, Begun(d))
        BY <1>3 DEF GoAct
    <2>2. \A e \in Begun(d) : e.op \notin Fill
        BY <2>1, FirstSteps DEF Decisions, Fill
    <2> QED
        BY <1>1, <2>1, <2>2, <1>3, FilledBegins DEF GoAct, rows, Begins
<1>4. ASSUME NEW t \in Callers, GoTool(t)
      PROVE  Filled'
    <2>1. PICK S : Begins(t, S) /\ \A d \in S : d.op = "to"
        BY <1>4, FirstSteps DEF GoTool
    <2>2. \A d \in S : d.op \notin Fill
        BY <2>1 DEF Fill
    <2>3. past'.deaths = past.deaths
        BY <1>1, <1>4, TypedNow DEF GoTool, PastRow
    <2> QED
        BY <1>1, <2>1, <2>2, <2>3, <1>4, FilledBegins DEF GoTool, rows, Begins
<1>5. ASSUME NEW t \in Tasks, NEW c, First(t, c), GoAdopt(t, c)
      PROVE  Filled'
    <2>1. Turns(t, Adopted \cup (left[t] \ {c})) /\ UNCHANGED <<mode, made, filling, past>>
        BY <1>5 DEF GoAdopt, rows
    <2>2. c.op \notin Fill
        BY <1>5 DEF GoAdopt, Fill
    <2>3. \A d \in Adopted : d.op \notin Fill
        BY AddedSteps DEF Fill
    <2> QED
        BY <1>1, <2>1, <2>2, <2>3, <1>5, FilledTurn
<1>6. ASSUME NEW t \in Tasks, NEW c, First(t, c), GoDecide(t, c)
      PROVE  Filled'
    <2>1. PICK S : Turns(t, S) /\ Decided(c, S)
        BY <1>6 DEF GoDecide
    <2>2. c.op \notin Fill
        BY <1>6 DEF GoDecide, Fill, Decisions
    <2>3. \A d \in S : DecidedStep(c, S, d)
        BY <2>1, DecidedSteps
    <2>4. \A d \in S : d.op \notin Fill
        BY <2>3, DecidedOps
    <2> QED
        BY <1>1, <2>1, <2>2, <2>4, <1>6, FilledTurn DEF GoDecide, rows
<1>7. ASSUME NEW t \in Tasks, NEW c, First(t, c), GoWrite(t, c)
      PROVE  Filled'
    <2>1. Turns(t, left[t] \ {c}) /\ UNCHANGED <<mode, made, filling, past>>
        BY <1>7 DEF GoWrite, rows
    <2>2. c.op \notin Fill
        BY <1>7 DEF GoWrite, Fill, Decisions, Written
    <2> QED
        BY <1>1, <2>1, <2>2, <1>7, FilledTurn
<1>8. ASSUME NEW t \in Tasks, NEW c, First(t, c), GoEnd(t, c)
      PROVE  Filled'
    <2>1. /\ Turns(t, left[t] \ {c}) /\ c.op \in {"completed", "expired"}
          /\ UNCHANGED <<mode, filling, past>> /\ c \in left[t] /\ left[t] \subseteq StepRow
        BY <1>1, <1>8, LeftPlans DEF GoEnd, First
    <2>2. c.op \notin Fill
        BY <2>1 DEF Fill
    <2>3. CASE made' = made
        BY <1>1, <2>1, <2>2, <2>3, <1>8, FilledTurn
    <2>4. CASE made' # made
        <3>1. /\ c.op = "completed" /\ Subscribes /\ made.linked /\ made.fulfilment = "none"
              /\ made' = [made EXCEPT !.fulfilment = "made"] /\ made \in MadeRow
            BY <1>1, <2>4, <1>8, TypedNow DEF GoEnd
        <3>2. lock = t
            BY <1>1, <2>1 DEF Locked, Unlocked, Fill
        <3>3. mode = "trial"
            <4>1. payment.status = "none"
                BY <1>1, <2>1 DEF Sold, Paid
            <4> QED
                BY <1>1, <3>1, <4>1 DEF Earned, Subscribes, Chargeless
        <3>4. left[t] = {c}
            BY <2>1, <1>8, After DEF Late
        <3>5. ~ Fulfils(t)
            BY <2>1, <3>4 DEF Fulfils, Fill
        <3>6. made.linked /\ past.deaths > 0
            BY <1>1, <2>1, <3>1, <3>3, <3>5 DEF Earned
        <3>7. \A u \in Tasks : ~ Filling(u)
            <4>1. \A u \in Tasks : Filling(u) => lock = u /\ Fulfils(u)
                BY <1>1, <3>3 DEF Earned, Chargeless, Filling, Fulfils
            <4> QED
                BY <3>2, <3>5, <4>1
        <3>8. \A u \in Tasks : \A d \in left'[u] : d \in left[u]
            BY <2>1 DEF Turns, Leaves
        <3>9. filling = None
            BY <1>1, <3>7, TypedNow DEF Filled, Holder
        <3>10. \A u \in Tasks : ~ Filling(u)'
            BY <3>7, <3>8 DEF Filling
        <3>11. \A u \in Tasks : \A d \in left'[u] : d.op \notin Fill
            BY <3>7, <3>8 DEF Filling
        <3>12. \A u \in Tasks : \A d \in left'[u] : Makings(u, d)'
            BY <3>11 DEF Makings, Fill
        <3>13. /\ made'.fulfilment = "made" /\ made'.linked /\ made'.card = made.card
               /\ made'.subs = made.subs /\ made'.invoices = made.invoices
               /\ made'.linked = made.linked
            BY <3>1, <3>6 DEF MadeRow
        <3>14. Whole'
            BY <1>1, <2>1, <3>3, <3>6, <3>13 DEF Filled, Whole
        <3>15. made'.linked => made'.card /\ Subscribes'
            BY <1>1, <2>1, <3>13 DEF Filled, Subscribes
        <3> QED
            BY <1>1, <2>1, <3>9, <3>10, <3>11, <3>12, <3>13, <3>14, <3>15 DEF Filled
    <2> QED
        BY <2>3, <2>4
<1>9. ASSUME NEW t \in Tasks, NEW c, First(t, c), GoEnqueue(t, c)
      PROVE  Filled'
    <2>1. Turns(t, left[t] \ {c}) /\ UNCHANGED <<mode, made, filling, past>>
        BY <1>9 DEF GoEnqueue, rows
    <2>2. c.op \notin Fill
        BY <1>9 DEF GoEnqueue, Fill
    <2> QED
        BY <1>1, <2>1, <2>2, <1>9, FilledTurn
<1>10. ASSUME NEW t \in Tasks, NEW c, First(t, c), GoCreate(t, c)
      PROVE  Filled'
    <2>1. (Turns(t, {}) \/ Turns(t, left[t] \ {c})) /\ UNCHANGED <<mode, made, filling, past>>
        BY <1>10 DEF GoCreate, rows
    <2>2. c.op \notin Fill
        BY <1>10 DEF GoCreate, Fill
    <2> QED
        BY <1>1, <2>1, <2>2, <1>10, FilledTurn
<1>11. ASSUME NEW t \in Tasks, NEW c, First(t, c), GoName(t, c)
      PROVE  Filled'
    <2>1. PICK d \in left[t] : Turns(t, {}) \/ Turns(t, left[t] \ {c, d})
        BY <1>11 DEF GoName
    <2>2. c.op \notin Fill /\ UNCHANGED <<mode, made, filling, past>>
        BY <1>11 DEF GoName, Fill
    <2> QED
        BY <1>1, <2>1, <2>2, <1>11, FilledTurn
<1>12. ASSUME NEW t \in Tasks, NEW c, First(t, c), GoMove(t, c)
      PROVE  Filled'
    <2>1. (Turns(t, left[t] \ {c}) \/ Turns(t, {}) \/ Turns(t, Tells(c.to) \cup (left[t] \ {c}))) /\ UNCHANGED <<mode, made, filling, past>>
        BY <1>12 DEF GoMove, rows
    <2>2. c.op \notin Fill
        BY <1>12 DEF GoMove, Fill
    <2>3. \A d \in Tells(c.to) : d.op \notin Fill
        BY AddedSteps DEF Fill
    <2> QED
        BY <1>1, <2>1, <2>2, <2>3, <1>12, FilledTurn
<1>13. ASSUME NEW t \in Tasks, NEW c, First(t, c), GoCancel(t, c)
      PROVE  Filled'
    <2>1. Turns(t, left[t] \ {c}) /\ UNCHANGED <<mode, made, filling, past>>
        BY <1>13 DEF GoCancel, rows
    <2>2. c.op \notin Fill
        BY <1>13 DEF GoCancel, Fill
    <2> QED
        BY <1>1, <2>1, <2>2, <1>13, FilledTurn
<1>14. ASSUME NEW t \in Tasks, NEW c, First(t, c), GoPublish(t, c)
      PROVE  Filled'
    <2>1. Turns(t, Published \cup (left[t] \ {c})) /\ UNCHANGED <<mode, made, filling, past>>
        BY <1>14 DEF GoPublish, rows
    <2>2. c.op \notin Fill
        BY <1>14 DEF GoPublish, Fill
    <2>3. \A d \in Published : d.op \notin Fill
        BY AddedSteps DEF Fill
    <2> QED
        BY <1>1, <2>1, <2>2, <2>3, <1>14, FilledTurn
<1>15. ASSUME NEW t \in Tasks, NEW c, First(t, c), GoVary(t, c)
      PROVE  Filled'
    <2>1. Turns(t, left[t] \ {c}) /\ UNCHANGED <<mode, made, filling, past>>
        BY <1>15 DEF GoVary, rows
    <2>2. c.op \notin Fill
        BY <1>15 DEF GoVary, Fill
    <2> QED
        BY <1>1, <2>1, <2>2, <1>15, FilledTurn
<1>16. ASSUME NEW t \in Tasks, NEW c, First(t, c), GoFulfil(t, c)
      PROVE  Filled'
    <2>1. /\ c.op = "fulfil" /\ filling = None /\ c \in left[t] /\ left[t] \subseteq StepRow
          /\ UNCHANGED <<mode, made, past, payment>>
        BY <1>1, <1>16, LeftPlans DEF GoFulfil, First, rows
    <2>2. CASE Done /\ Turns(t, left[t] \ {c}) /\ UNCHANGED filling
        BY <1>1, <2>1, <2>2, <1>16, FilledTurn DEF Fill
    <2>3. CASE ~ Done /\ filling' = t /\ Turns(t, Plains(FillOps) \cup (left[t] \ {c}))
        <3> DEFINE S == Plains(FillOps) \cup (left[t] \ {c})
        <3>1. Plains(FillOps) \subseteq S
            OBVIOUS
        <3>2. Turns(t, S) /\ left'[t] = S /\ \A u \in Tasks : u # t => left'[u] = left[u]
            BY <2>3 DEF Turns, Leaves
        <3>3. \A d \in left[t] \ {c} : d \in S /\ d.op \notin Fill /\ Rank(d) >= 15
            <4> SUFFICES ASSUME NEW d \in left[t] \ {c}
                         PROVE  d \in S /\ d.op \notin Fill /\ Rank(d) >= 15
                OBVIOUS
            <4>1. Rank(c) < Rank(d) /\ d \in StepRow /\ c \in StepRow
                BY <2>1, <1>16 DEF First
            <4>2. Rank(c) = 14 /\ Rank(d) \in 0..24
                BY <2>1, <4>1, Ranks
            <4>3. d.op \notin Fill
                BY <1>1, <2>1 DEF Shaped
            <4> QED
                BY <4>1, <4>2, <4>3
        <3>4. \A d \in S : d \in Plains(FillOps) \/ d \in left[t] \ {c}
            OBVIOUS
        <3> HIDE DEF S
        <3>5. \A u \in Tasks : ~ Filling(u)
            BY <1>1, <2>1, Actors DEF Filled
        <3>6. Filling(t)'
            <4>1. \E d \in Plains(FillOps) : d.op \in Fill
                BY AddedSteps, FillOpsAre
            <4> QED
                BY <3>1, <3>2, <4>1 DEF Filling
        <3>7. \A u \in Tasks : u # t => ~ Filling(u)'
            BY <3>2, <3>5 DEF Filling
        <3>8. \A u \in Tasks : filling' = u <=> Filling(u)'
            BY <2>3, <3>6, <3>7
        <3>9. \A d \in S : Rank(d) >= 15
            <4>1. \A d \in Plains(FillOps) : d \in StepRow /\ d.op \in Fill
                <5>1. S \subseteq StepRow
                    BY <3>2 DEF Turns, Leaves
                <5> QED
                    BY <3>1, <5>1, AddedSteps, FillOpsAre
            <4>2. \A d \in Plains(FillOps) : Rank(d) \in 15..23
                BY <4>1, Ranks
            <4> QED
                BY <3>3, <3>4, <4>2
        <3>10. \A u \in Tasks : \A d, e \in left'[u] : d.op \in Fill => Rank(e) >= 15
            BY <1>1, <3>2, <3>9 DEF Filled
        <3>11. \A u \in Tasks : \A d \in left'[u] : Makings(u, d)'
            <4> SUFFICES ASSUME NEW u \in Tasks, NEW d \in left'[u]
                         PROVE  Makings(u, d)'
                OBVIOUS
            <4>1. CASE u # t
                <5>1. left'[u] = left[u] /\ Makings(u, d)
                    BY <1>1, <3>2, <4>1 DEF Filled
                <5> QED
                    BY <2>1, <5>1 DEF Makings, Subscribes
            <4>2. CASE u = t /\ d \in left[t] \ {c}
                <5>1. d.op \notin Fill
                    BY <3>3, <4>2
                <5> QED
                    BY <5>1 DEF Makings, Fill
            <4>3. CASE u = t /\ d \in Plains(FillOps)
                <5>1. /\ d.op \in Fill
                      /\ d.op # "empty" => Has(S, "fulfilled")
                      /\ d.op = "empty" => ~ Subscribes
                      /\ d.op = "linkSubscription" => Subscribes
                      /\ d.op = "subscribe" => made.subs = 0
                      /\ d.op = "invoice" => made.invoices = 0
                      /\ d.op = "fulfilled" =>
                           /\ made.card \/ Has(S, "card")
                           /\ Subscribes => made.linked \/ Has(S, "linkSubscription")
                           /\ Subscribes => made.renewals > 0 \/ Has(S, "renewal")
                           /\ mode = "subscription" => made.settled \/ Has(S, "settle")
                    BY <1>1, <2>1, <3>1, <4>3, FillMakings
                <5> QED
                    BY <2>1, <3>2, <4>3, <5>1 DEF Makings, Subscribes
            <4> QED
                BY <3>2, <3>4, <4>1, <4>2, <4>3
        <3>12. Whole' /\ made'.fulfilment = "none"
            BY <1>1, <2>1, <2>3 DEF Filled, Whole, Subscribes, Done
        <3>13. made'.subs <= 1 /\ made'.invoices <= 1 /\ (made'.linked => made'.card /\ Subscribes')
            BY <1>1, <2>1 DEF Filled, Subscribes
        <3> QED
            BY <3>8, <3>10, <3>11, <3>12, <3>13 DEF Filled
    <2> QED
        BY <2>2, <2>3, <1>16 DEF GoFulfil
<1>17. ASSUME NEW t \in Tasks, NEW c, First(t, c), GoComplete(t, c)
      PROVE  Filled'
    <2> DEFINE S == left[t] \ {c}
    <2>1. /\ c.op \in Fill /\ Turns(t, S) /\ UNCHANGED <<mode, past, payment>>
          /\ c \in left[t] /\ left[t] \subseteq StepRow /\ made \in MadeRow
          /\ filling' = (IF c.op \in {"empty", "fulfilled"} THEN None ELSE filling)
        BY <1>1, <1>17, LeftPlans, TypedNow DEF GoComplete, Makes, Fill, First
    <2>2. \A d : d \in S <=> d \in left[t] /\ d # c
        OBVIOUS
    <2> HIDE DEF S
    <2>3. left'[t] = S /\ \A u \in Tasks : u # t => left'[u] = left[u]
        BY <2>1 DEF Turns, Leaves
    <2>4. Filling(t) /\ filling = t /\ made.fulfilment = "none" /\ t # None
        BY <1>1, <2>1, Actors DEF Filled, Filling
    <2>5. \A u \in Tasks : u # t => ~ Filling(u) /\ ~ Filling(u)'
        BY <1>1, <2>3, <2>4 DEF Filled, Filling
    <2>6. Makings(t, c) /\ \A d \in S : Makings(t, d)
        BY <1>1, <2>1, <2>2 DEF Filled
    <2>7. \A d \in S : /\ c.op \in {"empty", "fulfilled"} => d.op \notin Fill
                       /\ c.op \in {"card", "linkSubscription", "renewal", "settle", "subscribe",
                                    "invoice"} => d.op # c.op
                       /\ c.op = "linkSubscription" => d.op # "card"
        <3> SUFFICES ASSUME NEW d \in S
                     PROVE  /\ c.op \in {"empty", "fulfilled"} => d.op \notin Fill
                            /\ c.op \in {"card", "linkSubscription", "renewal", "settle",
                                         "subscribe", "invoice"} => d.op # c.op
                            /\ c.op = "linkSubscription" => d.op # "card"
            OBVIOUS
        <3>1. d \in left[t] /\ d # c /\ d \in StepRow
            BY <2>1, <2>2
        <3> QED
            BY <3>1, <1>17, After, AfterMove DEF Last
    <2>8. c.op \notin {"empty", "fulfilled"} => Has(S, "fulfilled")
        <3>1. c.op # "empty" => Has(left[t], "fulfilled")
            BY <2>1, <2>6 DEF Makings
        <3> QED
            BY <2>2, <3>1 DEF Has
    <2>9. \A u \in Tasks : filling' = u <=> Filling(u)'
        <3>1. c.op \in {"empty", "fulfilled"} => ~ Filling(t)' /\ filling' = None
            BY <2>1, <2>3, <2>7 DEF Filling
        <3>2. c.op \notin {"empty", "fulfilled"} => Filling(t)' /\ filling' = t
            BY <2>1, <2>3, <2>4, <2>8 DEF Filling, Has, Fill
        <3> QED
            BY <2>5, <3>1, <3>2, Actors
    <2>10. \A u \in Tasks : \A d, e \in left'[u] : d.op \in Fill => Rank(e) >= 15
        <3>1. \A u \in Tasks : left'[u] \subseteq left[u]
            BY <2>2, <2>3
        <3> QED
            BY <1>1, <3>1 DEF Filled
    <2>11. /\ made'.fulfilment = (IF c.op = "empty" THEN "empty"
                                  ELSE IF c.op = "fulfilled" THEN "made" ELSE "none")
           /\ made'.card = (made.card \/ c.op = "card")
           /\ made'.linked = (made.linked \/ c.op = "linkSubscription")
           /\ made'.settled = (made.settled \/ c.op = "settle")
           /\ made'.subs = (IF c.op = "subscribe" THEN made.subs + 1 ELSE made.subs)
           /\ made'.invoices = (IF c.op = "invoice" THEN made.invoices + 1 ELSE made.invoices)
           /\ made'.renewals = (IF c.op = "renewal" THEN made.renewals + 1 ELSE made.renewals)
           /\ made.subs \in Nat /\ made.invoices \in Nat /\ made.renewals \in Nat
        BY <2>1, <2>4, <1>17 DEF GoComplete, Makes, MadeRow
    <2>12. \A op : op # c.op => (Has(S, op) <=> Has(left[t], op))
        BY <2>2 DEF Has
    <2>13. \A u \in Tasks : \A d \in left'[u] : Makings(u, d)'
        <3> SUFFICES ASSUME NEW u \in Tasks, NEW d \in left'[u]
                     PROVE  Makings(u, d)'
            OBVIOUS
        <3>1. CASE u # t
            <4>1. d.op \notin Fill
                BY <2>5, <3>1 DEF Filling
            <4> QED
                BY <4>1 DEF Makings, Fill
        <3>2. CASE u = t
            <4>1. /\ Makings(t, d) /\ d \in S
                BY <2>3, <2>6, <3>2
            <4>2. c.op \in {"empty", "fulfilled"} => d.op \notin Fill
                BY <2>7, <4>1
            <4>3. /\ d.op = "subscribe" => c.op # "subscribe"
                  /\ d.op = "invoice" => c.op # "invoice"
                BY <2>7, <4>1
            <4>4. d.op \in Fill \ {"empty"} => Has(left'[t], "fulfilled")
                BY <2>3, <2>8, <4>2
            <4>5. /\ d.op = "subscribe" => made'.subs = 0
                  /\ d.op = "invoice" => made'.invoices = 0
                BY <2>11, <4>1, <4>3 DEF Makings
            <4>6. /\ d.op = "fulfilled" =>
                        /\ made'.card \/ Has(left'[t], "card")
                        /\ Subscribes => made'.linked \/ Has(left'[t], "linkSubscription")
                        /\ mode = "subscription" => made'.settled \/ Has(left'[t], "settle")
                BY <2>3, <2>11, <2>12, <4>1 DEF Makings
            <4>7. d.op = "fulfilled" => (Subscribes => made'.renewals > 0 \/ Has(left'[t], "renewal"))
                BY <2>3, <2>11, <2>12, <4>1 DEF Makings
            <4>8. (d.op = "empty" => ~ Subscribes) /\ (d.op = "linkSubscription" => Subscribes)
                BY <4>1 DEF Makings
            <4> QED
                BY <2>1, <3>2, <4>4, <4>5, <4>6, <4>7, <4>8 DEF Makings, Subscribes
        <3> QED
            BY <3>1, <3>2
    <2>14. made'.subs <= 1 /\ made'.invoices <= 1
        BY <1>1, <2>6, <2>11 DEF Makings, Filled
    <2>15. made'.linked => made'.card /\ Subscribes'
        <3>1. CASE c.op # "linkSubscription"
            BY <1>1, <2>1, <2>11, <3>1 DEF Filled, Subscribes
        <3>2. CASE c.op = "linkSubscription"
            <4>1. PICK e \in S : e.op = "fulfilled"
                BY <2>8, <3>2 DEF Has
            <4>2. ~ Has(left[t], "card")
                BY <2>2, <2>7, <3>2 DEF Has
            <4>3. made.card /\ Subscribes
                BY <2>6, <3>2, <4>1, <4>2 DEF Makings
            <4> QED
                BY <2>1, <2>11, <4>3 DEF Subscribes
        <3> QED
            BY <3>1, <3>2
    <2>16. Whole'
        <3>1. CASE c.op = "fulfilled"
            <4>1. \A op \in Fill : op # c.op => ~ Has(left[t], op)
                BY <2>2, <2>7, <3>1 DEF Has
            <4>2. /\ made.card /\ (Subscribes => made.linked /\ made.renewals > 0)
                  /\ mode = "subscription" => made.settled
                BY <2>6, <3>1, <4>1 DEF Makings, Fill
            <4> QED
                BY <2>1, <2>11, <3>1, <4>2 DEF Whole, Subscribes
        <3>2. CASE c.op # "fulfilled"
            BY <2>11, <3>2 DEF Whole
        <3> QED
            BY <3>1, <3>2
    <2>17. filling' # None => made'.fulfilment = "none"
        BY <2>1, <2>11
    <2> QED
        BY <2>9, <2>10, <2>13, <2>14, <2>15, <2>16, <2>17 DEF Filled
<1>18. ASSUME NEW k \in JobKind, GoClaim(k)
      PROVE  Filled'
    BY <1>1, <1>18, FilledSame DEF GoClaim, Same, rows
<1>19. ASSUME GoHandle
      PROVE  Filled'
    <2>1. /\ left[Poll] = {} /\ (Leaves(Poll, Outcome) \/ Leaves(Poll, Begun(Closing)))
          /\ UNCHANGED <<mode, made, filling, past>>
        BY <1>19 DEF GoHandle, Begins, rows
    <2>2. /\ \A d \in Outcome : d.op \notin Fill
          /\ \A d \in Begun(Closing) : d.op \notin Fill
        BY FirstSteps DEF Fill
    <2> QED
        BY <1>1, <2>1, <2>2, FilledBegins
<1>20. ASSUME GoFinish
      PROVE  Filled'
    BY <1>1, <1>20, FilledSame DEF GoFinish, Same, rows
<1>21. ASSUME GoLapse
      PROVE  Filled'
    BY <1>1, <1>21, FilledSame DEF GoLapse, Same, rows
<1>22. ASSUME GoDie
      PROVE  Filled'
    <2>1. /\ left' = [t \in Tasks |-> {}] /\ filling' = None /\ UNCHANGED <<mode, made>>
          /\ past'.deaths > 0
        <3>1. past \in PastRow /\ \A n \in 0..MaxDeaths : n + 1 > 0
            BY <1>1, TypedNow, CheckoutBounds
        <3> QED
            BY <3>1, <1>22 DEF GoDie, rows, PastRow
    <2>2. Whole'
        BY <1>1, <2>1 DEF Filled, Whole, Subscribes
    <2> QED
        BY <1>1, <2>1, <2>2, Actors DEF Filled, Filling, Subscribes
<1>23. ASSUME GoStutter
      PROVE  Filled'
    BY <1>1, <1>23, FilledSame DEF GoStutter, Same, rows
<1> QED
    BY <1>2, <1>3, <1>4, <1>5, <1>6, <1>7, <1>8, <1>9, <1>10, <1>11, <1>12, <1>13, <1>14,
       <1>15, <1>16, <1>17, <1>18, <1>19, <1>20, <1>21, <1>22, <1>23 DEF GoNext, Gone

-----------------------------------------------------------------------------
\* What is sold and what is told, without the programs; and a handler's part
EarnedRows ==
    /\ ~ Chargeless /\ (made.linked \/ made.fulfilment # "none") => payment.status = "successful"
    /\ made.linked => "expired" \notin told
    /\ mode = "trial" /\ made.linked /\ made.fulfilment = "none" /\ past.deaths = 0
         => filling # None

Ends(t, c) ==
    /\ c.op = "expired" => ~ made.linked /\ left[t] = {c}
    /\ c.op = "completed" =>
         /\ \A d \in left[t] : d.op \in Fill \cup {"fulfil", "completed"}
         /\ mode = "trial" => \/ Fulfils(t) \/ made.fulfilment # "none"
                              \/ made.linked /\ past.deaths > 0

EarnedBy(t) ==
    /\ ~ Chargeless /\ Fulfils(t) => payment.status = "successful"
    /\ Chargeless /\ Fulfils(t) =>
         lock = t /\ session.status = "open" /\ Has(left[t], "completed")
    /\ \A c \in left[t] : Ends(t, c)

\* Earned, apart: the rows, and each task's steps.
LEMMA EarnedParts == /\ Earned <=> EarnedRows /\ \A t \in Tasks : EarnedBy(t)
                     /\ Earned' <=> EarnedRows' /\ \A t \in Tasks : EarnedBy(t)'
<1>1. Earned <=> EarnedRows /\ \A t \in Tasks : EarnedBy(t)
    BY DEF Earned, EarnedRows, EarnedBy, Ends
<1>2. Earned' <=> EarnedRows' /\ \A t \in Tasks : EarnedBy(t)'
    BY DEF Earned, EarnedRows, EarnedBy, Ends
<1> QED
    BY <1>1, <1>2

(***************************************************************************)
(* What another handler delivers goes on being paid for.                   *)
(***************************************************************************)
LEMMA OthersEarned ==
    ASSUME Earned, Locked, Sold, NEW t \in Tasks, NEW S, Leaves(t, S), mode' = mode,
           payment.status = "successful" => payment'.status = "successful",
           made.linked => made'.linked,
           made.fulfilment # "none" => made'.fulfilment # "none",
           past.deaths > 0 => past'.deaths > 0,
           \/ lock = t
           \/ lock = None
           \/ /\ lock' = lock /\ session'.status = session.status
              /\ made'.linked => made.linked \/ payment.status # "none",
           NEW u \in Tasks, u # t
    PROVE  EarnedBy(u)'
<1>1. left'[u] = left[u] /\ EarnedBy(u) /\ None \notin Tasks
    BY Actors, EarnedParts DEF Leaves
<1>2. Fulfils(u)' <=> Fulfils(u)
    BY <1>1 DEF Fulfils
<1>3. ~ Chargeless' /\ Fulfils(u)' => payment'.status = "successful"
    BY <1>1, <1>2 DEF EarnedBy, Chargeless
<1>4. CASE lock = t \/ lock = None
    <2>1. lock # u
        BY <1>1, <1>4
    <2>2. \A d \in left[u] : d.op \notin {"expired", "completed"}
        BY <2>1 DEF Locked, Unlocked, Fill
    <2>3. ~ (Chargeless' /\ Fulfils(u)')
        BY <1>1, <1>2, <2>1 DEF EarnedBy, Chargeless
    <2>4. \A d \in left[u] : Ends(u, d)'
        BY <2>2 DEF Ends
    <2> QED
        BY <1>1, <1>3, <2>3, <2>4 DEF EarnedBy
<1>5. CASE /\ lock' = lock /\ session'.status = session.status
           /\ made'.linked => made.linked \/ payment.status # "none"
    <2>1. Chargeless' /\ Fulfils(u)' =>
              lock' = u /\ session'.status = "open" /\ Has(left'[u], "completed")
        BY <1>1, <1>2, <1>5 DEF EarnedBy, Chargeless
    <2>2. ASSUME NEW d \in left[u]
          PROVE  Ends(u, d)'
        <3>1. Ends(u, d) /\ (d.op = "expired" => payment.status = "none")
            BY <1>1 DEF EarnedBy, Sold, Paid
        <3>2. d.op = "expired" => ~ made'.linked /\ left'[u] = {d}
            BY <1>1, <1>5, <3>1 DEF Ends
        <3>3. d.op = "completed" =>
                 \A e \in left'[u] : e.op \in Fill \cup {"fulfil", "completed"}
            BY <1>1, <3>1 DEF Ends
        <3>4. d.op = "completed" /\ mode' = "trial" =>
                  \/ Fulfils(u)' \/ made'.fulfilment # "none"
                  \/ made'.linked /\ past'.deaths > 0
            BY <1>2, <3>1 DEF Ends
        <3> QED
            BY <3>2, <3>3, <3>4 DEF Ends
    <2> QED
        BY <1>1, <1>3, <2>1, <2>2 DEF EarnedBy
<1> QED
    BY <1>4, <1>5

(***************************************************************************)
(* A turn that neither delivers nor ends the session                       *)
(***************************************************************************)
LEMMA EarnedTurn ==
    ASSUME Earned, Locked, Sold, Typed, Programs, NEW t \in Tasks, NEW c, First(t, c),
           NEW S, Turns(t, S), mode' = mode, UNCHANGED <<made, past, filling>>,
           payment.status = "successful" => payment'.status = "successful",
           lock = t \/ session'.status = session.status,
           made.linked => "expired" \notin told',
           c.op \notin Fill \cup {"fulfil", "completed", "expired"},
           \A d \in S : \/ d \in left[t]
                        \/ /\ d.op \notin Fill \cup {"completed", "expired"}
                           /\ d.op = "fulfil" => ~ Chargeless /\ payment'.status = "successful"
    PROVE  Earned'
<1>1. c \in left[t] /\ left'[t] = S /\ Leaves(t, S) /\ (lock = t \/ lock' = lock)
    BY DEF First, Turns, Leaves
<1>2. \A d \in left[t] : d.op \notin {"completed", "expired"}
    BY <1>1 DEF Earned, Fill
<1>3. Chargeless => ~ Fulfils(t)
    BY <1>2, EarnedParts DEF EarnedBy, Has
<1>4. \A d \in S : Ends(t, d)'
    BY <1>2 DEF Ends
<1>5. Fulfils(t)' => Fulfils(t) \/ (~ Chargeless /\ payment'.status = "successful")
    BY <1>1 DEF Fulfils
<1>6. EarnedBy(t)'
    <2>1. EarnedBy(t)
        BY EarnedParts
    <2>2. ~ Chargeless' /\ Fulfils(t)' => payment'.status = "successful"
        BY <1>5, <2>1 DEF EarnedBy, Chargeless
    <2>3. ~ (Chargeless' /\ Fulfils(t)')
        BY <1>3, <1>5 DEF Chargeless
    <2> QED
        BY <1>1, <1>4, <2>2, <2>3 DEF EarnedBy
<1>7. \A u \in Tasks : u # t => EarnedBy(u)'
    BY <1>1, OthersEarned
<1>8. EarnedRows'
    BY EarnedParts DEF EarnedRows, Chargeless
<1> QED
    BY <1>6, <1>7, <1>8, EarnedParts

(***************************************************************************)
(* A handler that begins does neither.                                     *)
(***************************************************************************)
LEMMA EarnedBegins ==
    ASSUME Earned, Locked, Sold, NEW t \in Tasks, NEW S, Leaves(t, S),
           UNCHANGED <<mode, session, payment, made, told, filling>>, past'.deaths = past.deaths,
           lock = None \/ lock' = lock,
           \A d \in S : d.op \notin Fill \cup {"fulfil", "completed", "expired"}
    PROVE  Earned'
<1>1. left'[t] = S
    BY DEF Leaves
<1>2. \A d \in S : Ends(t, d)'
    BY DEF Ends
<1>3. ~ Fulfils(t)'
    BY <1>1 DEF Fulfils
<1>4. EarnedBy(t)'
    BY <1>1, <1>2, <1>3 DEF EarnedBy
<1>5. \A u \in Tasks : u # t => EarnedBy(u)'
    BY OthersEarned
<1>6. EarnedRows'
    BY EarnedParts DEF EarnedRows, Chargeless
<1> QED
    BY <1>4, <1>5, <1>6, EarnedParts

\* Earned stays where nothing it speaks of changes.
LEMMA EarnedSame ==
    ASSUME Earned, left' = left,
           UNCHANGED <<mode, session, payment, made, told, filling, past, lock>>
    PROVE  Earned'
<1>1. EarnedRows'
    BY EarnedParts DEF EarnedRows, Chargeless
<1>2. ASSUME NEW t \in Tasks
      PROVE  EarnedBy(t)'
    <2>1. EarnedBy(t) /\ (Fulfils(t)' <=> Fulfils(t))
        BY EarnedParts DEF Fulfils
    <2>2. \A c \in left[t] : Ends(t, c)'
        BY <2>1 DEF EarnedBy, Ends
    <2> QED
        BY <2>1, <2>2 DEF EarnedBy, Chargeless
<1> QED
    BY <1>1, <1>2, EarnedParts

(***************************************************************************)
(* What was paid stays paid.                                               *)
(***************************************************************************)
LEMMA StaysPaid ==
    ASSUME Typed, Sold, Locked, Programs, NEW t \in Tasks, NEW c, First(t, c),
           GoMove(t, c) \/ GoName(t, c) \/ GoCreate(t, c)
    PROVE  /\ payment.status = "successful" => payment' = payment /\ told' = told
           /\ payment.status # "none" => payment'.status # "none"
<1>1. payment \in PaymentRow /\ c \in StepRow /\ c \in left[t] /\ left[t] \subseteq StepRow
    BY TypedNow, LeftPlans DEF First
<1>2. CASE GoCreate(t, c)
    BY <1>1, <1>2 DEF GoCreate
<1>3. CASE GoName(t, c)
    <2>1. payment.status # "none" /\ told' = told
        BY <1>3, PaidNext DEF GoName
    <2>2. PICK d \in left[t] :
              /\ d.to \in Resumes /\ d.by \in {"any", "retry"}
              /\ \/ /\ May(payment.status, d.to, d.by)
                    /\ payment' = [status |-> d.to, word |-> "", method |-> c.to]
                 \/ UNCHANGED payment
        BY <1>3 DEF GoName, May, assertPaymentTransition, canTransitionPayment
    <2>3. d.to \in PaymentStatus /\ d.to # "none" /\ d.to \notin {"partially_refunded", "refunded"}
        BY <2>2 DEF Resumes, PaymentStatus
    <2>4. payment.status \in PaymentStatus \cup {"none"}
        BY <1>1 DEF PaymentRow
    <2>5. payment.status = "successful" => ~ May(payment.status, d.to, d.by)
        BY <2>1, <2>3, <2>4, Moves
    <2>7. payment.status = "successful" => payment' = payment
        BY <2>2, <2>5
    <2>8. payment'.status # "none"
        <3>1. CASE UNCHANGED payment
            BY <2>1, <3>1
        <3>2. CASE payment' = [status |-> d.to, word |-> "", method |-> c.to]
            <4>1. payment'.status \in Resumes
                BY <2>2, <3>2
            <4> QED
                BY <4>1 DEF Resumes
        <3> QED
            BY <2>2, <3>1, <3>2
    <2> QED
        BY <2>1, <2>7, <2>8
<1>4. CASE GoMove(t, c)
    <2>1. payment.status # "none" /\ c.op \in {"to", "hop"}
        BY <1>4, PaidNext DEF GoMove
    <2>2. \/ /\ May(payment.status, c.to, c.by)
             /\ payment' = [payment EXCEPT !.status = c.to, !.word = c.word]
          \/ UNCHANGED <<payment, told>>
        BY <1>4 DEF GoMove, May, assertPaymentTransition, canTransitionPayment
    <2>3. c.to \in PaymentStatus \ {"created", "partially_refunded", "refunded"} /\ c.to # "none"
        BY <1>1, <2>1 DEF StepRow, PaymentStatus
    <2>4. payment.status \in PaymentStatus \cup {"none"}
        BY <1>1 DEF PaymentRow
    <2>5. payment.status = "successful" => ~ May(payment.status, c.to, c.by)
        BY <2>1, <2>3, <2>4, Moves
    <2>6. payment' = [payment EXCEPT !.status = c.to, !.word = c.word] => payment'.status = c.to
        BY <1>1 DEF PaymentRow
    <2> QED
        BY <2>1, <2>2, <2>3, <2>5, <2>6
<1> QED
    BY <1>2, <1>3, <1>4

(***************************************************************************)
(* Nothing is delivered that was not paid for or given, and nothing ends   *)
(* beside what lives on.                                                   *)
(***************************************************************************)
LEMMA EarnedKept ==
    ASSUME IInv, GoNext
    PROVE  Earned'
<1>1. /\ Programs /\ Earned /\ Filled /\ Sold /\ Told /\ Locked /\ Typed /\ Shaped
      /\ Poll \in Tasks /\ None \notin Tasks /\ \A t \in Callers : t \in Tasks /\ t # Poll
    BY TasksAssumption DEF IInv, Tasks
<1>2. ASSUME NEW t \in Callers, GoSession(t)
      PROVE  Earned'
    <2>1. /\ Leaves(t, NewSession) /\ lock = None
          /\ UNCHANGED <<mode, session, payment, made, told, filling, past>>
        BY <1>2 DEF GoSession, Begins, rows, LockFree
    <2>2. \A d \in NewSession : d.op \notin Fill \cup {"fulfil", "completed", "expired"}
        BY FirstSteps DEF Fill
    <2> QED
        BY <1>1, <2>1, <2>2, EarnedBegins
<1>3. ASSUME NEW t \in Callers, GoAct(t)
      PROVE  Earned'
    <2>1. PICK d \in Asks : Begins(t, Begun(d))
        BY <1>3 DEF GoAct
    <2>2. \A e \in Begun(d) : e.op \notin Fill \cup {"fulfil", "completed", "expired"}
        BY <2>1, FirstSteps DEF Decisions, Fill
    <2>3. lock = None /\ UNCHANGED <<mode, session, payment, made, told, filling, past>>
        BY <1>3 DEF GoAct, rows, LockFree
    <2> QED
        BY <1>1, <2>1, <2>2, <2>3, EarnedBegins DEF Begins
<1>4. ASSUME NEW t \in Callers, GoTool(t)
      PROVE  Earned'
    <2>1. PICK S : Begins(t, S) /\ \A d \in S : d.op = "to"
        BY <1>4, FirstSteps DEF GoTool
    <2>2. \A d \in S : d.op \notin Fill \cup {"fulfil", "completed", "expired"}
        BY <2>1 DEF Fill
    <2>3. past'.deaths = past.deaths
        BY <1>1, <1>4, TypedNow DEF GoTool, PastRow
    <2>4. lock' = lock /\ UNCHANGED <<mode, session, payment, made, told, filling>>
        BY <1>4 DEF GoTool, rows
    <2> QED
        BY <1>1, <2>1, <2>2, <2>3, <2>4, EarnedBegins DEF Begins
<1>5. ASSUME NEW t \in Tasks, NEW c, First(t, c), GoAdopt(t, c)
      PROVE  Earned'
    <2>1. Turns(t, Adopted \cup (left[t] \ {c})) /\ UNCHANGED <<mode, made, past, filling, session, payment, told>>
        BY <1>5 DEF GoAdopt, rows
    <2>2. c.op \notin Fill \cup {"fulfil", "completed", "expired"}
        BY <1>5 DEF GoAdopt, Fill
    <2>3. made.linked => "expired" \notin told
        BY <1>1 DEF Earned
    <2>4. \A d \in Adopted : d.op \notin Fill \cup {"fulfil", "completed", "expired"}
        BY AddedSteps DEF Fill
    <2> QED
        BY <1>1, <2>1, <2>2, <2>3, <2>4, <1>5, EarnedTurn
<1>6. ASSUME NEW t \in Tasks, NEW c, First(t, c), GoDecide(t, c)
      PROVE  Earned'
    <2>1. PICK S : Turns(t, S) /\ Decided(c, S)
        BY <1>6 DEF GoDecide
    <2>2. \A d \in S : DecidedStep(c, S, d)
        BY <2>1, DecidedSteps
    <2>3. /\ c \in left[t] /\ left'[t] = S /\ c.op \in Decisions /\ lock = t
          /\ c \in StepRow /\ left[t] \subseteq StepRow /\ Paid(t, c)
          /\ S # {} => lock' = t
        BY <1>1, <2>1, <1>6, LeftPlans
           DEF GoDecide, Locked, Unlocked, Fill, Turns, Leaves, Decisions, First, Sold
    <2>4. ~ orphan
        <3>1. ~ Has(left[t], "adopt") /\ ~ Has(left[t], "link")
            BY <2>3, <1>6, After DEF Has, Decisions
        <3> QED
            BY <2>3, <3>1 DEF Paid
    <2>5. /\ session.linked <=> payment.status # "none"
          /\ assertOpen /\ ~ session.linked => session.status = "open"
          /\ Chargeless => ~ session.linked
        BY <1>1, <2>4 DEF orphan, Sold, assertOpen, sessionStatus
    <2>6. UNCHANGED <<mode, session, payment, made, told, filling, past>>
        BY <1>6 DEF GoDecide, rows
    <2>7. EarnedRows'
        BY <1>1, <2>6, EarnedParts DEF EarnedRows, Chargeless
    <2>8. \A u \in Tasks : u # t => EarnedBy(u)'
        BY <1>1, <2>1, <2>3, <2>6, OthersEarned DEF Turns
    <2>9. \A d \in S : d.op \notin Fill
        BY <2>2, DecidedOps
    <2>10. ASSUME NEW d \in S, d.op = "fulfil"
           PROVE  /\ ~ Chargeless => payment.status = "successful"
                  /\ Chargeless => session.status = "open" /\ Has(S, "completed")
        <3>1. \/ Chargeless /\ assertOpen /\ Has(S, "completed")
              \/ session.linked /\ payment.status = "successful"
            BY <2>2, <2>10 DEF DecidedStep
        <3> QED
            BY <2>5, <3>1
    <2>11. Fulfils(t)' <=> \E d \in S : d.op = "fulfil"
        BY <2>3, <2>9 DEF Fulfils
    <2>12. ASSUME NEW d \in S
           PROVE  Ends(t, d)'
        <3>1. DecidedStep(c, S, d) /\ EarnedRows
            BY <1>1, <2>2, EarnedParts
        <3>2. d.op = "expired" => ~ made.linked /\ S = {d}
            BY <1>1, <3>1 DEF DecidedStep, Live, Filled
        <3>3. d.op = "completed" => \A e \in S : e.op \in {"fulfil", "completed"}
            BY <3>1 DEF DecidedStep
        <3>4. ASSUME d.op = "completed"
              PROVE  mode = "trial" => \/ Has(S, "fulfil") \/ made.fulfilment # "none"
                                       \/ made.linked /\ past.deaths > 0
            <4>1. CASE ~ Chargeless
                BY <4>1 DEF Chargeless
            <4>2. CASE Chargeless /\ Has(S, "fulfil")
                BY <4>2 DEF Chargeless
            <4>3. CASE ~ session.linked /\ Live
                <5>1. ~ Filling(t)
                    <6>1. c.op \notin Fill
                        BY <2>3 DEF Fill, Decisions
                    <6> QED
                        BY <1>1, <6>1, <1>6, NotFilling
                <5>2. mode = "trial" => filling = None
                    <6>1. ASSUME mode = "trial", NEW u \in Tasks, filling = u
                          PROVE  FALSE
                        <7>1. Filling(u) /\ Fulfils(u)
                            BY <1>1, <6>1 DEF Filled, Filling, Fulfils
                        <7>2. lock = u
                            BY <1>1, <6>1, <7>1 DEF Earned, Chargeless
                        <7> QED
                            BY <2>3, <5>1, <7>1, <7>2
                    <6> QED
                        BY <1>1, <6>1, TypedNow DEF Holder
                <5>3. past.deaths \in Nat
                    BY <1>1 DEF Typed, PastOK
                <5>4. mode = "trial" /\ made.fulfilment = "none" => made.linked /\ past.deaths > 0
                    BY <3>1, <4>3, <5>2, <5>3 DEF EarnedRows, Live
                <5> QED
                    BY <5>4
            <4> QED
                BY <3>1, <3>4, <4>1, <4>2, <4>3 DEF DecidedStep
        <3>5. Has(S, "fulfil") => Fulfils(t)'
            BY <2>11 DEF Has
        <3> QED
            BY <2>3, <2>6, <3>2, <3>3, <3>4, <3>5 DEF Ends
    <2>13. EarnedBy(t)'
        BY <2>3, <2>6, <2>10, <2>11, <2>12 DEF EarnedBy, Chargeless
    <2> QED
        BY <2>7, <2>8, <2>13, EarnedParts
<1>7. ASSUME NEW t \in Tasks, NEW c, First(t, c), GoWrite(t, c)
      PROVE  Earned'
    <2>1. Turns(t, left[t] \ {c}) /\ UNCHANGED <<mode, made, past, filling, payment, told>>
        BY <1>7 DEF GoWrite, rows
    <2>2. c.op \notin Fill \cup {"fulfil", "completed", "expired"}
        BY <1>7 DEF GoWrite, Fill, Decisions, Written
    <2>3. made.linked => "expired" \notin told
        BY <1>1 DEF Earned
    <2>4. lock = t
        BY <1>1, <1>7 DEF GoWrite, First, Locked, Unlocked, Fill, Written
    <2> QED
        BY <1>1, <2>1, <2>2, <2>3, <2>4, <1>7, EarnedTurn
<1>8. ASSUME NEW t \in Tasks, NEW c, First(t, c), GoEnd(t, c)
      PROVE  Earned'
    <2>1. /\ Turns(t, left[t] \ {c}) /\ c.op \in {"completed", "expired"}
          /\ UNCHANGED <<mode, payment, filling, past>> /\ c \in left[t] /\ left[t] \subseteq StepRow
          /\ told' = told \cup {c.op} /\ made \in MadeRow
        BY <1>1, <1>8, LeftPlans, TypedNow DEF GoEnd, First
    <2>2. lock = t /\ payment.status = "none"
        BY <1>1, <2>1 DEF Locked, Unlocked, Fill, Sold, Paid
    <2>3. left[t] \ {c} = {}
        BY <2>1, <1>8, After DEF Late
    <2>4. made'.linked = made.linked /\ (made.fulfilment # "none" => made'.fulfilment # "none")
        BY <2>1, <1>8 DEF GoEnd, MadeRow
    <2>5. \A u \in Tasks : u # t => EarnedBy(u)'
        BY <1>1, <2>1, <2>2, <2>4, OthersEarned DEF Turns
    <2>6. EarnedBy(t)'
        BY <2>1, <2>3 DEF EarnedBy, Turns, Leaves, Fulfils
    <2>7. c.op = "expired" => ~ made.linked
        BY <1>1, <2>1 DEF Earned
    <2>8. ~ Chargeless => made'.fulfilment = made.fulfilment
        <3>1. made.linked => Chargeless
            BY <1>1, <2>2 DEF Earned
        <3> QED
            BY <3>1, <1>8 DEF GoEnd
    <2>9. made'.fulfilment = "none" => made.fulfilment = "none"
        BY <2>4
    <2>10. EarnedRows'
        BY <1>1, <2>1, <2>4, <2>7, <2>8, <2>9, EarnedParts DEF EarnedRows, Chargeless
    <2> QED
        BY <2>5, <2>6, <2>10, EarnedParts
<1>9. ASSUME NEW t \in Tasks, NEW c, First(t, c), GoEnqueue(t, c)
      PROVE  Earned'
    <2>1. Turns(t, left[t] \ {c}) /\ UNCHANGED <<mode, made, past, filling, session, payment, told>>
        BY <1>9 DEF GoEnqueue, rows
    <2>2. c.op \notin Fill \cup {"fulfil", "completed", "expired"}
        BY <1>9 DEF GoEnqueue, Fill
    <2>3. made.linked => "expired" \notin told
        BY <1>1 DEF Earned
    <2> QED
        BY <1>1, <2>1, <2>2, <2>3, <1>9, EarnedTurn
<1>10. ASSUME NEW t \in Tasks, NEW c, First(t, c), GoCreate(t, c)
      PROVE  Earned'
    <2>1. (Turns(t, {}) \/ Turns(t, left[t] \ {c})) /\ UNCHANGED <<mode, made, past, filling, session, told>>
        BY <1>10 DEF GoCreate, rows
    <2>2. c.op \notin Fill \cup {"fulfil", "completed", "expired"}
        BY <1>10 DEF GoCreate, Fill
    <2>3. made.linked => "expired" \notin told
        BY <1>1 DEF Earned
    <2>5. payment.status = "successful" => payment' = payment
        BY <1>1, <1>10, StaysPaid
    <2> QED
        BY <1>1, <2>1, <2>2, <2>3, <2>5, <1>10, EarnedTurn
<1>11. ASSUME NEW t \in Tasks, NEW c, First(t, c), GoName(t, c)
      PROVE  Earned'
    <2>1. PICK d \in left[t] : Turns(t, {}) \/ Turns(t, left[t] \ {c, d})
        BY <1>11 DEF GoName
    <2>2. c.op \notin Fill \cup {"fulfil", "completed", "expired"}
        BY <1>11 DEF GoName, Fill
    <2>3. made.linked => "expired" \notin told
        BY <1>1 DEF Earned
    <2>4. UNCHANGED <<mode, made, past, filling, session, told>>
        BY <1>11 DEF GoName
    <2>5. payment.status = "successful" => payment' = payment
        BY <1>1, <1>11, StaysPaid
    <2> QED
        BY <1>1, <2>1, <2>2, <2>3, <2>4, <2>5, <1>11, EarnedTurn
<1>12. ASSUME NEW t \in Tasks, NEW c, First(t, c), GoMove(t, c)
      PROVE  Earned'
    <2>1. (Turns(t, left[t] \ {c}) \/ Turns(t, {}) \/ Turns(t, Tells(c.to) \cup (left[t] \ {c}))) /\ UNCHANGED <<mode, made, past, filling, session>>
        BY <1>12 DEF GoMove, rows
    <2>2. c.op \notin Fill \cup {"fulfil", "completed", "expired"}
        BY <1>12 DEF GoMove, Fill
    <2>3. made.linked => "expired" \notin told
        BY <1>1 DEF Earned
    <2>4. \A d \in Tells(c.to) : d.op \notin Fill \cup {"fulfil", "completed", "expired"}
        BY AddedSteps DEF Fill
    <2>5. payment.status = "successful" => payment' = payment /\ told' = told
        BY <1>1, <1>12, StaysPaid
    <2>6. made.linked => payment.status = "successful"
        <3>1. payment.status # "none"
            BY <1>1, <1>12, PaidNext DEF GoMove
        <3> QED
            BY <1>1, <3>1 DEF Earned, Sold
    <2> QED
        BY <1>1, <2>1, <2>2, <2>3, <2>4, <2>5, <2>6, <1>12, EarnedTurn
<1>13. ASSUME NEW t \in Tasks, NEW c, First(t, c), GoCancel(t, c)
      PROVE  Earned'
    <2>1. Turns(t, left[t] \ {c}) /\ UNCHANGED <<mode, made, past, filling, session, payment, told>>
        BY <1>13 DEF GoCancel, rows
    <2>2. c.op \notin Fill \cup {"fulfil", "completed", "expired"}
        BY <1>13 DEF GoCancel, Fill
    <2>3. made.linked => "expired" \notin told
        BY <1>1 DEF Earned
    <2> QED
        BY <1>1, <2>1, <2>2, <2>3, <1>13, EarnedTurn
<1>14. ASSUME NEW t \in Tasks, NEW c, First(t, c), GoPublish(t, c)
      PROVE  Earned'
    <2>1. Turns(t, Published \cup (left[t] \ {c})) /\ UNCHANGED <<mode, made, past, filling, session, payment, told>>
        BY <1>14 DEF GoPublish, rows
    <2>2. c.op \notin Fill \cup {"fulfil", "completed", "expired"}
        BY <1>14 DEF GoPublish, Fill
    <2>3. made.linked => "expired" \notin told
        BY <1>1 DEF Earned
    <2>4. \A d \in Published : /\ d.op = "fulfil" /\ payment.status = "successful"
                               /\ ~ Chargeless
        BY AddedSteps DEF Pays, Keeps, Chargeless
    <2>5. "fulfil" \notin Fill \cup {"completed", "expired"}
        BY DEF Fill
    <2> QED
        BY <1>1, <2>1, <2>2, <2>3, <2>4, <2>5, <1>14, EarnedTurn
<1>15. ASSUME NEW t \in Tasks, NEW c, First(t, c), GoVary(t, c)
      PROVE  Earned'
    <2>1. Turns(t, left[t] \ {c}) /\ UNCHANGED <<mode, made, past, filling, session, payment, told>>
        BY <1>15 DEF GoVary, rows
    <2>2. c.op \notin Fill \cup {"fulfil", "completed", "expired"}
        BY <1>15 DEF GoVary, Fill
    <2>3. made.linked => "expired" \notin told
        BY <1>1 DEF Earned
    <2> QED
        BY <1>1, <2>1, <2>2, <2>3, <1>15, EarnedTurn
<1>16. ASSUME NEW t \in Tasks, NEW c, First(t, c), GoFulfil(t, c)
      PROVE  Earned'
    <2>1. /\ c.op = "fulfil" /\ c \in left[t] /\ left[t] \subseteq StepRow
          /\ UNCHANGED <<mode, session, payment, made, told, past>> /\ filling = None
        BY <1>1, <1>16, LeftPlans DEF GoFulfil, First, rows
    <2>2. Fulfils(t) /\ EarnedBy(t)
        BY <1>1, <2>1, EarnedParts DEF Fulfils
    <2>3. PICK S : /\ Turns(t, S) /\ left[t] \ {c} \subseteq S
                   /\ \A d \in S : d \in left[t] \/ d.op \in Fill
                   /\ Done \/ ((\E d \in S : d.op \in Fill) /\ filling' = t)
                   /\ Done => filling' = filling
        <3>1. /\ \A d \in Plains(FillOps) : d.op \in Fill
              /\ \E d \in Plains(FillOps) : d.op \in Fill
            BY AddedSteps, FillOpsAre
        <3> QED
            BY <3>1, <1>16 DEF GoFulfil
    <2>4. \A u \in Tasks : u # t => EarnedBy(u)'
        BY <1>1, <2>1, <2>3, OthersEarned DEF Turns
    <2>5. left'[t] = S /\ (S # {} => lock' = lock)
        BY <2>3 DEF Turns, Leaves
    <2>6. EarnedRows'
        BY <1>1, <2>1, <2>3, EarnedParts, Actors DEF EarnedRows, Chargeless, Done
    <2>7. ASSUME NEW d \in S
          PROVE  Ends(t, d)'
        <3>1. CASE d.op \in Fill
            BY <3>1 DEF Ends, Fill
        <3>2. CASE d \in left[t] /\ d.op = "completed"
            <4>1. Ends(t, d)
                BY <2>2, <3>2 DEF EarnedBy
            <4>2. \A e \in S : e.op \in Fill \cup {"fulfil", "completed"}
                BY <2>3, <3>2, <4>1 DEF Ends
            <4>3. Fulfils(t)' \/ made.fulfilment # "none"
                BY <2>3, <2>5 DEF Fulfils, Done
            <4> QED
                BY <2>1, <2>5, <3>2, <4>2, <4>3 DEF Ends
        <3>3. CASE d \in left[t] /\ d.op = "expired"
            <4>1. left[t] = {d}
                BY <2>2, <3>3 DEF EarnedBy, Ends
            <4> QED
                BY <2>1, <3>3, <4>1
        <3>4. CASE d.op \notin {"completed", "expired"}
            BY <3>4 DEF Ends
        <3> QED
            BY <2>3, <3>1, <3>2, <3>3, <3>4
    <2>8. Has(left[t], "completed") => Has(S, "completed") /\ S # {}
        BY <2>1, <2>3 DEF Has
    <2>9. EarnedBy(t)'
        BY <2>1, <2>2, <2>5, <2>7, <2>8 DEF EarnedBy, Chargeless
    <2> QED
        BY <2>4, <2>6, <2>9, EarnedParts
<1>17. ASSUME NEW t \in Tasks, NEW c, First(t, c), GoComplete(t, c)
      PROVE  Earned'
    <2> DEFINE S == left[t] \ {c}
    <2>1. /\ c.op \in Fill /\ Turns(t, S) /\ UNCHANGED <<mode, session, payment, told, past>>
          /\ c \in left[t] /\ left[t] \subseteq StepRow /\ made \in MadeRow
          /\ filling' = (IF c.op \in {"empty", "fulfilled"} THEN None ELSE filling)
        BY <1>1, <1>17, LeftPlans, TypedNow DEF GoComplete, Makes, Fill, First
    <2>2. \A d : d \in S <=> d \in left[t] /\ d # c
        OBVIOUS
    <2> HIDE DEF S
    <2>3. left'[t] = S /\ (S # {} => lock' = lock) /\ Leaves(t, S)
        BY <2>1 DEF Turns, Leaves
    <2>4. Fulfils(t) /\ EarnedBy(t) /\ EarnedRows
        BY <1>1, <2>1, EarnedParts DEF Fulfils
    <2>5. filling = t /\ t # None /\ Makings(t, c)
        BY <1>1, <2>1, Actors DEF Filled, Filling
    <2>6. /\ made'.linked = (made.linked \/ c.op = "linkSubscription")
          /\ made.fulfilment # "none" => made'.fulfilment # "none"
          /\ c.op \in {"empty", "fulfilled"} <=> made'.fulfilment # made.fulfilment
          /\ c.op \in {"empty", "fulfilled"} => made'.fulfilment # "none"
        <3>1. made.fulfilment = "none"
            BY <1>1, <2>5 DEF Filled
        <3> QED
            BY <2>1, <3>1, <1>17 DEF GoComplete, Makes, MadeRow
    <2>7. c.op = "linkSubscription" => Subscribes
        BY <2>5 DEF Makings
    <2>8. payment.status = "none" \/ payment.status = "successful"
        BY <1>1, <2>4 DEF EarnedBy, Sold
    <2>9. Chargeless => lock = t
        BY <2>4 DEF EarnedBy
    <2>10. ~ Chargeless => payment.status = "successful"
        BY <2>4 DEF EarnedBy
    <2>11. lock = t \/ lock' = lock
        BY <2>1 DEF Turns
    <2>12. \A u \in Tasks : u # t => EarnedBy(u)'
        BY <1>1, <2>1, <2>3, <2>6, <2>9, <2>10, <2>11, OthersEarned
    <2>13. c.op = "linkSubscription" => "expired" \notin told
        <3>1. CASE Chargeless
            <4>1. session.status = "open" /\ payment.status = "none"
                BY <1>1, <2>4, <3>1 DEF EarnedBy, Sold
            <4> QED
                BY <1>1, <4>1 DEF Told
        <3>2. CASE ~ Chargeless
            <4>1. c.op = "linkSubscription" => payment.method = "card"
                BY <1>1, <2>7 DEF Sold, Subscribes
            <4> QED
                BY <1>1, <2>10, <3>2, <4>1 DEF Told
        <3> QED
            BY <3>1, <3>2
    <2>14. EarnedRows'
        <3>1. ~ Chargeless' => payment'.status = "successful"
            BY <2>1, <2>10 DEF Chargeless
        <3>2. made'.linked => "expired" \notin told'
            BY <2>1, <2>4, <2>6, <2>13 DEF EarnedRows
        <3>3. made'.fulfilment = "none" => filling' # None
            BY <2>1, <2>5, <2>6
        <3> QED
            BY <3>1, <3>2, <3>3 DEF EarnedRows
    <2>15. c.op \notin {"empty", "fulfilled"} => Fulfils(t)' /\ S # {}
        <3>1. c.op \notin {"empty", "fulfilled"} => Has(left[t], "fulfilled")
            BY <2>1, <2>5 DEF Makings
        <3> QED
            BY <2>2, <2>3, <3>1 DEF Has, Fulfils, Fill
    <2>16. ASSUME NEW d \in S
           PROVE  Ends(t, d)'
        <3>1. d \in left[t] /\ d # c /\ Ends(t, d)
            BY <2>2, <2>4 DEF EarnedBy
        <3>2. d.op # "expired"
            BY <2>1, <3>1 DEF Ends
        <3>3. d.op = "completed" => \A e \in S : e.op \in Fill \cup {"fulfil", "completed"}
            BY <2>2, <3>1 DEF Ends
        <3>4. Fulfils(t)' \/ made'.fulfilment # "none"
            BY <2>6, <2>15
        <3> QED
            BY <2>1, <2>3, <3>2, <3>3, <3>4 DEF Ends
    <2>17. Has(left[t], "completed") => Has(S, "completed") /\ S # {}
        <3>1. c.op # "completed"
            BY <2>1 DEF Fill
        <3> QED
            BY <2>2, <3>1 DEF Has
    <2>18. EarnedBy(t)'
        BY <2>1, <2>3, <2>4, <2>16, <2>17 DEF EarnedBy, Chargeless
    <2> QED
        BY <2>12, <2>14, <2>18, EarnedParts
<1>18. ASSUME NEW k \in JobKind, GoClaim(k)
      PROVE  Earned'
    BY <1>1, <1>18, EarnedSame DEF GoClaim, Same, rows
<1>19. ASSUME GoHandle
      PROVE  Earned'
    <2>1. /\ Leaves(Poll, Outcome) \/ Leaves(Poll, Begun(Closing))
          /\ UNCHANGED <<mode, session, payment, made, told, filling, past>>
          /\ lock = None \/ lock' = lock
        BY <1>19 DEF GoHandle, Begins, rows, LockFree
    <2>2. /\ \A d \in Outcome : d.op \notin Fill \cup {"fulfil", "completed", "expired"}
          /\ \A d \in Begun(Closing) : d.op \notin Fill \cup {"fulfil", "completed", "expired"}
        BY FirstSteps DEF Fill
    <2> QED
        BY <1>1, <2>1, <2>2, EarnedBegins
<1>20. ASSUME GoFinish
      PROVE  Earned'
    BY <1>1, <1>20, EarnedSame DEF GoFinish, Same, rows
<1>21. ASSUME GoLapse
      PROVE  Earned'
    BY <1>1, <1>21, EarnedSame DEF GoLapse, Same, rows
<1>22. ASSUME GoDie
      PROVE  Earned'
    <2>1. /\ left' = [t \in Tasks |-> {}] /\ UNCHANGED <<mode, payment, made, told>>
          /\ past'.deaths > 0
        <3>1. past \in PastRow /\ \A n \in 0..MaxDeaths : n + 1 > 0
            BY <1>1, TypedNow, CheckoutBounds
        <3> QED
            BY <3>1, <1>22 DEF GoDie, rows, PastRow
    <2>2. EarnedRows'
        BY <1>1, <2>1, EarnedParts DEF EarnedRows, Chargeless
    <2>3. \A t \in Tasks : EarnedBy(t)'
        BY <2>1 DEF EarnedBy, Fulfils
    <2> QED
        BY <2>2, <2>3, EarnedParts
<1>23. ASSUME GoStutter
      PROVE  Earned'
    BY <1>1, <1>23, EarnedSame DEF GoStutter, Same, rows
<1> QED
    BY <1>2, <1>3, <1>4, <1>5, <1>6, <1>7, <1>8, <1>9, <1>10, <1>11, <1>12, <1>13, <1>14,
       <1>15, <1>16, <1>17, <1>18, <1>19, <1>20, <1>21, <1>22, <1>23 DEF GoNext, Gone

-----------------------------------------------------------------------------
\* The steps that can be left beside the difference's
Beside == {"to", "cancelGroup", "publish", "fulfil", "variance"} \cup Fill

\* The difference's part, while the process has not died
VariedRows ==
    /\ payment.word \in Over => payment.status = "successful"
    /\ variance = IF payment.word \in Over /\ \A t \in Tasks : ~ Owing(t) THEN 1 ELSE 0

VariedBy(t) == Varies(t) /\ \A c \in left[t] : c.word \in Over => Has(left[t], "variance")

(***************************************************************************)
(* Varied, apart: the rows, and each task's steps, while the process       *)
(* lives.                                                                  *)
(***************************************************************************)
LEMMA VariedParts ==
    /\ Varied <=> (past.deaths = 0 => VariedRows /\ \A t \in Tasks : VariedBy(t))
    /\ Varied' <=> (past'.deaths = 0 => VariedRows' /\ \A t \in Tasks : VariedBy(t)')
<1>1. Varied <=> (past.deaths = 0 => VariedRows /\ \A t \in Tasks : VariedBy(t))
    BY DEF Varied, VariedRows, VariedBy
<1>2. Varied' <=> (past'.deaths = 0 => VariedRows' /\ \A t \in Tasks : VariedBy(t)')
    BY DEF Varied, VariedRows, VariedBy
<1> QED
    BY <1>1, <1>2

(***************************************************************************)
(* What another task owes of the difference is not disturbed by this one's *)
(* step.                                                                   *)
(***************************************************************************)
LEMMA OthersVaried ==
    ASSUME NEW t \in Tasks, NEW S, Leaves(t, S), NEW u \in Tasks, u # t, VariedBy(u),
           payment.word \in Over /\ Owing(u) => payment'.word \in Over
    PROVE  VariedBy(u)' /\ (Owing(u)' <=> Owing(u))
<1>1. left'[u] = left[u]
    BY DEF Leaves
<1> QED
    BY <1>1 DEF VariedBy, Varies, Owing

(***************************************************************************)
(* A turn that neither pays nor moves the difference                       *)
(***************************************************************************)
LEMMA VariedTurn ==
    ASSUME Varied, NEW t \in Tasks, NEW c, First(t, c), NEW S, Turns(t, S),
           c.op \notin {"to", "variance"},
           c.word \notin Over, c.op \notin Beside \/ left[t] \ {c} \subseteq S,
           \A d \in S : \/ d \in left[t]
                        \/ /\ d.op \notin {"to", "variance"} /\ d.word \notin Over
                           /\ c.op \in Beside => d.op \in Beside,
           variance' = variance, past' = past,
           payment.word \in Over => payment' = payment,
           payment.word \notin Over => payment'.word \notin Over
    PROVE  Varied'
<1> SUFFICES ASSUME past.deaths = 0
             PROVE  VariedRows' /\ \A u \in Tasks : VariedBy(u)'
    BY VariedParts
<1>1. VariedRows /\ \A u \in Tasks : VariedBy(u)
    BY VariedParts
<1>2. left'[t] = S /\ Leaves(t, S) /\ c \in left[t]
    BY DEF First, Turns, Leaves
<1>3. Has(left[t], "variance") => c.op \in Beside /\ t \in Callers
                                  /\ \A d \in left[t] : d.op \in Beside
    BY <1>1, <1>2 DEF VariedBy, Varies, Beside
<1>4. \A d \in S : d.op \in {"to", "variance"} \/ d.word \in Over => d \in left[t]
    OBVIOUS
<1>5. Has(S, "variance") <=> Has(left[t], "variance")
    BY <1>3, <1>4 DEF Has
<1>6. Has(left[t], "variance") => (Has(S, "to") <=> Has(left[t], "to"))
    BY <1>3, <1>4 DEF Has
<1>7. Owing(t)' <=> Owing(t)
    BY <1>2, <1>5, <1>6 DEF Owing
<1>8. VariedBy(t)'
    <2>1. \A d \in left'[t] : d.word \in Over => Has(left'[t], "variance")
        BY <1>1, <1>2, <1>4, <1>5 DEF VariedBy
    <2>2. ASSUME Has(left'[t], "variance")
          PROVE  /\ t \in Callers
                 /\ \A d \in left'[t] : d.op \in Beside
                 /\ Has(left'[t], "to") => \E d \in left'[t] : d.word \in Over
                 /\ Owing(t)' => payment'.word \in Over
        <3>1. Has(left[t], "variance") /\ Varies(t)
            BY <1>1, <1>2, <1>5, <2>2 DEF VariedBy
        <3>2. \A d \in left'[t] : d.op \in Beside
            BY <1>2, <1>3, <3>1
        <3>3. ASSUME Has(left'[t], "to")
              PROVE  \E d \in left'[t] : d.word \in Over
            <4>1. PICK e \in left[t] : e.word \in Over
                BY <1>2, <1>6, <3>1, <3>3 DEF Varies
            <4> QED
                BY <1>2, <1>3, <3>1, <4>1
        <3>4. Owing(t)' => payment'.word \in Over
            BY <1>7, <3>1 DEF Varies
        <3> QED
            BY <1>3, <3>1, <3>2, <3>3, <3>4
    <2> QED
        BY <2>1, <2>2 DEF VariedBy, Varies, Beside
<1>9. \A u \in Tasks : u # t => VariedBy(u)' /\ (Owing(u)' <=> Owing(u))
    BY <1>1, <1>2, OthersVaried
<1>10. VariedRows'
    BY <1>1, <1>7, <1>9 DEF VariedRows
<1> QED
    BY <1>8, <1>9, <1>10

\* A handler that begins, and owes no difference, keeps Varied.
LEMMA VariedBegins ==
    ASSUME Varied, NEW t \in Tasks, left[t] = {}, NEW S, Leaves(t, S), past'.deaths = past.deaths,
           UNCHANGED <<payment, variance>>,
           \A d \in S : d.op # "variance" /\ d.word \notin Over
    PROVE  Varied'
<1> SUFFICES ASSUME past.deaths = 0
             PROVE  VariedRows' /\ \A u \in Tasks : VariedBy(u)'
    BY VariedParts
<1>1. VariedRows /\ \A u \in Tasks : VariedBy(u)
    BY VariedParts
<1>2. left'[t] = S
    BY DEF Leaves
<1>3. VariedBy(t)' /\ ~ Owing(t) /\ ~ Owing(t)'
    BY <1>2 DEF VariedBy, Varies, Owing, Has
<1>4. \A u \in Tasks : u # t => VariedBy(u)' /\ (Owing(u)' <=> Owing(u))
    BY <1>1, OthersVaried
<1>5. VariedRows'
    BY <1>1, <1>3, <1>4 DEF VariedRows
<1> QED
    BY <1>3, <1>4, <1>5

\* Varied stays where nothing it speaks of changes.
LEMMA VariedSame ==
    ASSUME Varied, left' = left, UNCHANGED <<payment, variance, past>>
    PROVE  Varied'
<1>1. \A t \in Tasks : (VariedBy(t)' <=> VariedBy(t)) /\ (Owing(t)' <=> Owing(t))
    BY DEF VariedBy, Varies, Owing
<1>2. VariedRows' <=> VariedRows
    BY <1>1 DEF VariedRows
<1> QED
    BY <1>1, <1>2, VariedParts

(***************************************************************************)
(* The difference of what arrived is moved once, as long as the process    *)
(* lives.                                                                  *)
(***************************************************************************)
LEMMA VariedKept ==
    ASSUME IInv, GoNext
    PROVE  Varied'
<1>1. /\ Programs /\ Varied /\ Sold /\ Locked /\ Typed
      /\ Poll \in Tasks /\ None \notin Tasks /\ \A t \in Callers : t \in Tasks /\ t # Poll
    BY TasksAssumption DEF IInv, Tasks
<1>2. ASSUME NEW t \in Callers, GoSession(t)
      PROVE  Varied'
    <2>1. /\ Leaves(t, NewSession) /\ left[t] = {} /\ UNCHANGED <<payment, variance, past>>
        BY <1>2 DEF GoSession, Begins, rows
    <2>2. \A d \in NewSession : d.op # "variance" /\ d.word \notin Over
        BY FirstSteps
    <2> QED
        BY <1>1, <2>1, <2>2, VariedBegins
<1>3. ASSUME NEW t \in Callers, GoAct(t)
      PROVE  Varied'
    <2>1. PICK d \in Asks : Begins(t, Begun(d))
        BY <1>3 DEF GoAct
    <2>2. \A e \in Begun(d) : e.op # "variance" /\ e.word \notin Over
        BY <2>1, FirstSteps DEF Decisions
    <2>3. UNCHANGED <<payment, variance, past>>
        BY <1>3 DEF GoAct, rows
    <2> QED
        BY <1>1, <2>1, <2>2, <2>3, VariedBegins DEF Begins
<1>4. ASSUME NEW t \in Callers, GoTool(t)
      PROVE  Varied'
    <2>1. PICK S : Begins(t, S) /\ \A d \in S : d.op = "to" /\ d.word \notin Over
        BY <1>4, FirstSteps DEF GoTool
    <2>2. \A d \in S : d.op # "variance" /\ d.word \notin Over
        BY <2>1
    <2>3. past'.deaths = past.deaths /\ UNCHANGED <<payment, variance>>
        BY <1>1, <1>4, TypedNow DEF GoTool, PastRow, rows
    <2> QED
        BY <1>1, <2>1, <2>2, <2>3, VariedBegins DEF Begins
<1>5. ASSUME NEW t \in Tasks, NEW c, First(t, c), GoAdopt(t, c)
      PROVE  Varied'
    <2>1. Turns(t, Adopted \cup (left[t] \ {c})) /\ UNCHANGED <<payment, variance, past>>
        BY <1>5 DEF GoAdopt, rows
    <2>2. c \in StepRow
        BY <1>1, <1>5, LeftPlans DEF First
    <2>3. c.op \notin {"to", "variance"} /\ c.op \notin Beside
        BY <1>5 DEF GoAdopt, Fill, Beside
    <2>4. c.word \notin Over
        BY <2>2, <2>3 DEF StepRow
    <2>5. \A d \in Adopted : d.op \notin {"to", "variance"} /\ d.word \notin Over
        BY AddedSteps
    <2> QED
        BY <1>1, <2>1, <2>3, <2>4, <2>5, <1>5, VariedTurn
<1>6. ASSUME NEW t \in Tasks, NEW c, First(t, c), GoDecide(t, c)
      PROVE  Varied'
    <2>1. PICK S : Turns(t, S) /\ Decided(c, S)
        BY <1>6 DEF GoDecide
    <2>2. \A d \in S : DecidedStep(c, S, d)
        BY <2>1, DecidedSteps
    <2> SUFFICES ASSUME past.deaths = 0
                 PROVE  VariedRows' /\ \A u \in Tasks : VariedBy(u)'
        BY <1>6, VariedParts DEF GoDecide
    <2>3. VariedRows /\ \A u \in Tasks : VariedBy(u)
        BY <1>1, VariedParts
    <2>4. /\ c \in left[t] /\ left'[t] = S /\ Leaves(t, S) /\ c.op \in Decisions
          /\ c.op \notin Beside /\ UNCHANGED <<payment, variance>>
        BY <2>1, <1>6 DEF GoDecide, First, Turns, Leaves, Beside, Decisions, Fill, rows
    <2>5. ~ Has(left[t], "variance")
        BY <2>3, <2>4 DEF VariedBy, Varies, Beside
    <2>6. Has(S, "variance") => /\ c.op = "control" /\ Has(S, "to")
                                /\ \A d \in S : d.op \in {"to", "variance"}
                                /\ \E d \in S : d.word \in Over
        BY <2>2 DEF DecidedStep, Has
    <2>7. c.op = "control" => t \in Callers
        BY <1>1, <2>4, Actors DEF Locked, Tasks
    <2>8. \A d \in S : d.word \in Over => Has(S, "variance")
        BY <2>2 DEF DecidedStep
    <2>9. ~ Owing(t) /\ ~ Owing(t)'
        BY <2>4, <2>5, <2>6 DEF Owing
    <2>10. VariedBy(t)'
        BY <2>4, <2>6, <2>7, <2>8, <2>9 DEF VariedBy, Varies
    <2>11. \A u \in Tasks : u # t => VariedBy(u)' /\ (Owing(u)' <=> Owing(u))
        BY <2>3, <2>4, OthersVaried
    <2>12. VariedRows'
        BY <2>3, <2>4, <2>9, <2>11 DEF VariedRows
    <2> QED
        BY <2>10, <2>11, <2>12
<1>7. ASSUME NEW t \in Tasks, NEW c, First(t, c), GoWrite(t, c)
      PROVE  Varied'
    <2>1. Turns(t, left[t] \ {c}) /\ UNCHANGED <<payment, variance, past>>
        BY <1>7 DEF GoWrite, rows
    <2>2. c \in StepRow
        BY <1>1, <1>7, LeftPlans DEF First
    <2>3. c.op \notin {"to", "variance"}
        BY <1>7 DEF GoWrite, Fill, Beside, Written
    <2>4. c.word \notin Over
        BY <2>2, <2>3 DEF StepRow
    <2> QED
        BY <1>1, <2>1, <2>3, <2>4, <1>7, VariedTurn
<1>8. ASSUME NEW t \in Tasks, NEW c, First(t, c), GoEnd(t, c)
      PROVE  Varied'
    <2>1. Turns(t, left[t] \ {c}) /\ UNCHANGED <<payment, variance, past>>
        BY <1>8 DEF GoEnd, rows
    <2>2. c \in StepRow
        BY <1>1, <1>8, LeftPlans DEF First
    <2>3. c.op \notin {"to", "variance"}
        BY <1>8 DEF GoEnd, Fill, Beside
    <2>4. c.word \notin Over
        BY <2>2, <2>3 DEF StepRow
    <2> QED
        BY <1>1, <2>1, <2>3, <2>4, <1>8, VariedTurn
<1>9. ASSUME NEW t \in Tasks, NEW c, First(t, c), GoEnqueue(t, c)
      PROVE  Varied'
    <2>1. Turns(t, left[t] \ {c}) /\ UNCHANGED <<payment, variance, past>>
        BY <1>9 DEF GoEnqueue, rows
    <2>2. c \in StepRow
        BY <1>1, <1>9, LeftPlans DEF First
    <2>3. c.op \notin {"to", "variance"}
        BY <1>9 DEF GoEnqueue, Fill, Beside
    <2>4. c.word \notin Over
        BY <2>2, <2>3 DEF StepRow
    <2> QED
        BY <1>1, <2>1, <2>3, <2>4, <1>9, VariedTurn
<1>10. ASSUME NEW t \in Tasks, NEW c, First(t, c), GoCreate(t, c)
      PROVE  Varied'
    <2> SUFFICES ASSUME past.deaths = 0
                 PROVE  Varied'
        BY <1>10, VariedParts DEF GoCreate
    <2>1. (Turns(t, {}) \/ Turns(t, left[t] \ {c})) /\ UNCHANGED <<variance, past>>
        BY <1>10 DEF GoCreate, rows
    <2>2. c \in StepRow
        BY <1>1, <1>10, LeftPlans DEF First
    <2>3. c.op \notin {"to", "variance"} /\ c.op \notin Beside
        BY <1>10 DEF GoCreate, Fill, Beside
    <2>4. c.word \notin Over
        BY <2>2, <2>3 DEF StepRow
    <2>5. /\ payment.word \in Over => payment' = payment
          /\ payment.word \notin Over => payment'.word \notin Over
        <3>0. VariedRows
            BY <1>1, VariedParts
        <3>1. payment.word \in Over => payment.status = "successful"
            BY <3>0 DEF VariedRows
        <3>2. payment \in PaymentRow
            BY <1>1, TypedNow
        <3> QED
            BY <3>1, <3>2, <1>10 DEF GoCreate, PaymentRow
    <2> QED
        BY <1>1, <2>1, <2>3, <2>4, <2>5, <1>10, VariedTurn
<1>11. ASSUME NEW t \in Tasks, NEW c, First(t, c), GoName(t, c)
      PROVE  Varied'
    <2> SUFFICES ASSUME past.deaths = 0
                 PROVE  Varied'
        BY <1>11, VariedParts DEF GoName
    <2>1. PICK d \in left[t] : Turns(t, {}) \/ Turns(t, left[t] \ {c, d})
        BY <1>11 DEF GoName
    <2>2. c \in StepRow /\ UNCHANGED <<variance, past>>
        BY <1>1, <1>11, LeftPlans DEF First, GoName
    <2>3. c.op \notin {"to", "variance"} /\ c.op \notin Beside
        BY <1>11 DEF GoName, Fill, Beside
    <2>4. c.word \notin Over
        BY <2>2, <2>3 DEF StepRow
    <2>5. /\ payment.word \in Over => payment' = payment
          /\ payment.word \notin Over => payment'.word \notin Over
        <3>0. VariedRows
            BY <1>1, VariedParts
        <3>1. payment.word \in Over => payment.status = "successful"
            BY <3>0 DEF VariedRows
        <3>2. payment.status = "successful" => payment' = payment
            BY <1>1, <1>11, StaysPaid
        <3>3. payment' = payment \/ payment'.word = ""
            <4>1. \/ UNCHANGED payment
                  \/ \E e \in left[t] : payment' = [status |-> e.to, word |-> "", method |-> c.to]
                BY <1>11 DEF GoName
            <4>2. CASE UNCHANGED payment
                BY <4>2
            <4>3. CASE \E e \in left[t] : payment' = [status |-> e.to, word |-> "", method |-> c.to]
                <5>1. PICK e \in left[t] : payment' = [status |-> e.to, word |-> "", method |-> c.to]
                    BY <4>3
                <5> QED
                    BY <5>1
            <4> QED
                BY <4>1, <4>2, <4>3
        <3> QED
            BY <3>1, <3>2, <3>3 DEF Over
    <2> QED
        BY <1>1, <2>1, <2>2, <2>3, <2>4, <2>5, <1>11, VariedTurn
<1>12. ASSUME NEW t \in Tasks, NEW c, First(t, c), GoMove(t, c)
      PROVE  Varied'
    <2>1. /\ c \in StepRow /\ c \in left[t] /\ left[t] \subseteq StepRow /\ c.op \in {"to", "hop"}
          /\ UNCHANGED <<variance, past>> /\ payment \in PaymentRow /\ payment.status # "none"
        BY <1>1, <1>12, TypedNow, LeftPlans, PaidNext DEF GoMove, First
    <2> SUFFICES ASSUME past.deaths = 0
                 PROVE  VariedRows' /\ \A u \in Tasks : VariedBy(u)'
        BY <2>1, VariedParts
    <2>2. VariedRows /\ \A u \in Tasks : VariedBy(u)
        BY <1>1, VariedParts
    <2>3. c.op = "hop" => c.word \notin Over
        BY <2>1 DEF StepRow, Over
    <2>4. CASE c.op = "hop" /\ Turns(t, left[t] \ {c}) /\ UNCHANGED <<payment, told>>
        <3>1. Varied'
            BY <1>1, <2>1, <2>3, <2>4, <1>12, VariedTurn
        <3> QED
            BY <2>1, <3>1, VariedParts
    <2>5. Has(left[t], "variance") => c.op = "to" /\ \E e \in left[t] : e.word \in Over
        <3>1. "hop" \notin {"to", "cancelGroup", "publish", "fulfil", "variance"} \cup Fill
            BY DEF Fill
        <3>2. Has(left[t], "variance") => c.op # "hop"
            BY <2>1, <2>2, <3>1 DEF VariedBy, Varies
        <3>3. Has(left[t], "variance") => c.op = "to" /\ Has(left[t], "to")
            BY <2>1, <3>2 DEF Has
        <3> QED
            BY <2>2, <3>3 DEF VariedBy, Varies
    <2>6. ~ Owing(t)
        <3>1. Has(left[t], "variance") => Has(left[t], "to")
            BY <2>1, <2>5 DEF Has
        <3> QED
            BY <3>1 DEF Owing
    <2>7. CASE Turns(t, {}) /\ UNCHANGED <<payment, told>>
        <3>1. left'[t] = {} /\ Leaves(t, {})
            BY <2>7 DEF Turns, Leaves
        <3>2. VariedBy(t)' /\ ~ Owing(t)'
            BY <3>1 DEF VariedBy, Varies, Owing, Has
        <3>3. \A u \in Tasks : u # t => VariedBy(u)' /\ (Owing(u)' <=> Owing(u))
            BY <2>2, <2>7, <3>1, OthersVaried
        <3>4. VariedRows'
            BY <2>1, <2>2, <2>6, <2>7, <3>2, <3>3 DEF VariedRows
        <3> QED
            BY <3>2, <3>3, <3>4
    <2>8. CASE /\ May(payment.status, c.to, c.by)
               /\ payment' = [payment EXCEPT !.status = c.to, !.word = c.word]
               /\ Turns(t, Tells(c.to) \cup (left[t] \ {c}))
        <3> DEFINE S == Tells(c.to) \cup (left[t] \ {c})
        <3>1. left'[t] = S /\ Leaves(t, S)
            BY <2>8 DEF Turns, Leaves
        <3>2. payment'.status = c.to /\ payment'.word = c.word
            BY <2>1, <2>8 DEF PaymentRow
        <3>3. \A d \in Tells(c.to) : d.op \in {"cancelGroup", "publish"} /\ d.word \notin Over
            BY AddedSteps
        <3>4. \A d : d \in S <=> d \in Tells(c.to) \/ (d \in left[t] /\ d # c)
            OBVIOUS
        <3> HIDE DEF S
        <3>5. payment.word \notin Over
            <4>1. c.to \in PaymentStatus \ {"created", "partially_refunded", "refunded"}
                BY <2>1 DEF StepRow
            <4>2. payment.status \in PaymentStatus \cup {"none"} /\ May(payment.status, c.to, c.by)
                BY <2>1, <2>8 DEF PaymentRow
            <4>3. payment.status # "successful"
                BY <2>1, <4>1, <4>2, Moves
            <4> QED
                BY <2>2, <4>3 DEF VariedRows
        <3>6. variance = 0 /\ \A u \in Tasks : ~ Owing(u)
            BY <2>2, <3>5 DEF VariedRows, VariedBy, Varies, Owing
        <3>7. \A u \in Tasks : u # t => VariedBy(u)' /\ (Owing(u)' <=> Owing(u))
            BY <2>2, <3>1, <3>5, OthersVaried
        <3>8. Has(S, "variance") <=> Has(left[t], "variance")
            BY <2>1, <3>3, <3>4 DEF Has
        <3>9. \A d \in S : d.word \in Over => Has(S, "variance")
            BY <2>2, <3>3, <3>4, <3>8 DEF VariedBy
        <3>10. Has(S, "variance") => t \in Callers /\ \A d \in S : d.op \in Beside
            BY <2>2, <3>3, <3>4, <3>8 DEF VariedBy, Varies, Beside
        <3>11. CASE c.word \in Over
            <4>1. c.to = "successful" /\ c.op = "to" /\ Has(S, "variance")
                BY <2>1, <2>2, <3>8, <3>11 DEF StepRow, VariedBy, Over
            <4>2. c.to \notin Resumes
                BY <4>1 DEF Resumes
            <4>3. ~ Has(S, "to")
                <5>1. \A d \in left[t] : d # c => d.op # "to"
                    BY <2>1, <4>1, <4>2, <1>12, AfterMove
                <5> QED
                    BY <3>3, <3>4, <5>1 DEF Has
            <4>4. Owing(t)'
                BY <3>1, <4>1, <4>3 DEF Owing
            <4>5. VariedBy(t)'
                BY <3>1, <3>2, <3>9, <3>10, <3>11, <4>3 DEF VariedBy, Varies, Beside
            <4>6. VariedRows'
                BY <2>1, <3>2, <3>6, <4>1, <4>4 DEF VariedRows
            <4> QED
                BY <3>7, <4>5, <4>6
        <3>12. CASE c.word \notin Over
            <4>1. Has(S, "variance") => Has(S, "to") /\ \E e \in S : e.word \in Over
                <5>1. SUFFICES ASSUME Has(S, "variance")
                               PROVE  Has(S, "to") /\ \E e \in S : e.word \in Over
                    OBVIOUS
                <5>2. PICK e \in left[t] : e.word \in Over
                    BY <2>5, <3>8, <5>1
                <5>3. e \in S /\ e.op = "to"
                    BY <2>1, <3>4, <3>12, <5>2 DEF StepRow
                <5> QED
                    BY <5>2, <5>3 DEF Has
            <4>2. ~ Owing(t)'
                BY <3>1, <4>1 DEF Owing
            <4>3. VariedBy(t)'
                BY <3>1, <3>9, <3>10, <4>1, <4>2 DEF VariedBy, Varies, Beside
            <4>4. VariedRows'
                BY <2>1, <3>2, <3>6, <3>12 DEF VariedRows
            <4> QED
                BY <3>7, <4>3, <4>4
        <3> QED
            BY <3>11, <3>12
    <2> QED
        BY <2>4, <2>7, <2>8, <1>12 DEF GoMove, May, assertPaymentTransition,
           canTransitionPayment
<1>13. ASSUME NEW t \in Tasks, NEW c, First(t, c), GoCancel(t, c)
      PROVE  Varied'
    <2>1. Turns(t, left[t] \ {c}) /\ UNCHANGED <<payment, variance, past>>
        BY <1>13 DEF GoCancel, rows
    <2>2. c \in StepRow
        BY <1>1, <1>13, LeftPlans DEF First
    <2>3. c.op \notin {"to", "variance"}
        BY <1>13 DEF GoCancel, Fill, Beside
    <2>4. c.word \notin Over
        BY <2>2, <2>3 DEF StepRow
    <2> QED
        BY <1>1, <2>1, <2>3, <2>4, <1>13, VariedTurn
<1>14. ASSUME NEW t \in Tasks, NEW c, First(t, c), GoPublish(t, c)
      PROVE  Varied'
    <2>1. Turns(t, Published \cup (left[t] \ {c})) /\ UNCHANGED <<payment, variance, past>>
        BY <1>14 DEF GoPublish, rows
    <2>2. c \in StepRow
        BY <1>1, <1>14, LeftPlans DEF First
    <2>3. c.op \notin {"to", "variance"}
        BY <1>14 DEF GoPublish, Fill, Beside
    <2>4. c.word \notin Over
        BY <2>2, <2>3 DEF StepRow
    <2>5. \A d \in Published : d.op = "fulfil" /\ d.word \notin Over
        BY AddedSteps
    <2>6. "fulfil" \in Beside /\ "fulfil" \notin {"to", "variance"}
        BY DEF Beside
    <2> QED
        BY <1>1, <2>1, <2>3, <2>4, <2>5, <2>6, <1>14, VariedTurn
<1>15. ASSUME NEW t \in Tasks, NEW c, First(t, c), GoVary(t, c)
      PROVE  Varied'
    <2>1. /\ c.op = "variance" /\ Turns(t, left[t] \ {c}) /\ c \in left[t]
          /\ left[t] \subseteq StepRow /\ UNCHANGED <<payment, past>> /\ variance' = variance + 1
        BY <1>1, <1>15, LeftPlans DEF GoVary, First
    <2> SUFFICES ASSUME past.deaths = 0
                 PROVE  VariedRows' /\ \A u \in Tasks : VariedBy(u)'
        BY <2>1, VariedParts
    <2>2. VariedRows /\ \A u \in Tasks : VariedBy(u)
        BY <1>1, VariedParts
    <2>3. left[t] = {c}
        BY <2>1, <1>15, After DEF Late
    <2>4. left'[t] = {} /\ Leaves(t, {})
        BY <2>1, <2>3 DEF Turns, Leaves
    <2>5. Owing(t)
        BY <2>1, <2>3 DEF Owing, Has
    <2>6. payment.word \in Over
        BY <2>2, <2>5 DEF VariedBy, Varies, Owing
    <2>7. variance = 0
        BY <2>2, <2>5 DEF VariedRows
    <2>8. lock = t
        BY <1>1, <2>1 DEF Locked, Unlocked, Fill
    <2>9. \A u \in Tasks : u # t => ~ Owing(u)
        BY <1>1, <2>8 DEF Locked, Unlocked, Fill, Owing, Has
    <2>10. VariedBy(t)' /\ ~ Owing(t)'
        BY <2>4 DEF VariedBy, Varies, Owing, Has
    <2>11. \A u \in Tasks : u # t => VariedBy(u)' /\ (Owing(u)' <=> Owing(u))
        BY <2>1, <2>2, <2>4, OthersVaried
    <2>12. VariedRows'
        BY <2>1, <2>2, <2>6, <2>7, <2>9, <2>10, <2>11 DEF VariedRows
    <2> QED
        BY <2>10, <2>11, <2>12
<1>16. ASSUME NEW t \in Tasks, NEW c, First(t, c), GoFulfil(t, c)
      PROVE  Varied'
    <2>1. (Turns(t, left[t] \ {c}) \/ Turns(t, Plains(FillOps) \cup (left[t] \ {c}))) /\ UNCHANGED <<payment, variance, past>>
        BY <1>16 DEF GoFulfil, rows
    <2>2. c \in StepRow
        BY <1>1, <1>16, LeftPlans DEF First
    <2>3. c.op \notin {"to", "variance"}
        BY <1>16 DEF GoFulfil, Fill, Beside
    <2>4. c.word \notin Over
        BY <2>2, <2>3 DEF StepRow
    <2>5. \A d \in Plains(FillOps) : d.op \in Fill /\ d.word \notin Over
        BY AddedSteps, FillOpsAre
    <2>6. \A op \in Fill : op \in Beside /\ op \notin {"to", "variance"}
        BY DEF Beside, Fill
    <2> QED
        BY <1>1, <2>1, <2>3, <2>4, <2>5, <2>6, <1>16, VariedTurn
<1>17. ASSUME NEW t \in Tasks, NEW c, First(t, c), GoComplete(t, c)
      PROVE  Varied'
    <2>1. Turns(t, left[t] \ {c}) /\ UNCHANGED <<payment, variance, past>>
        BY <1>17 DEF GoComplete, rows
    <2>2. c \in StepRow
        BY <1>1, <1>17, LeftPlans DEF First
    <2>3. c.op \notin {"to", "variance"}
        BY <1>17 DEF GoComplete, Fill, Beside, Makes
    <2>4. c.word \notin Over
        BY <2>2, <2>3 DEF StepRow
    <2> QED
        BY <1>1, <2>1, <2>3, <2>4, <1>17, VariedTurn
<1>18. ASSUME NEW k \in JobKind, GoClaim(k)
      PROVE  Varied'
    BY <1>1, <1>18, VariedSame DEF GoClaim, Same, rows
<1>19. ASSUME GoHandle
      PROVE  Varied'
    <2>1. /\ left[Poll] = {} /\ (Leaves(Poll, Outcome) \/ Leaves(Poll, Begun(Closing)))
          /\ UNCHANGED <<payment, variance, past>>
        BY <1>19 DEF GoHandle, Begins, rows
    <2>2. /\ \A d \in Outcome : d.op # "variance" /\ d.word \notin Over
          /\ \A d \in Begun(Closing) : d.op # "variance" /\ d.word \notin Over
        BY FirstSteps
    <2> QED
        BY <1>1, <2>1, <2>2, VariedBegins
<1>20. ASSUME GoFinish
      PROVE  Varied'
    BY <1>1, <1>20, VariedSame DEF GoFinish, Same, rows
<1>21. ASSUME GoLapse
      PROVE  Varied'
    BY <1>1, <1>21, VariedSame DEF GoLapse, Same, rows
<1>22. ASSUME GoDie
      PROVE  Varied'
    <2>1. past'.deaths > 0
        <3>1. past \in PastRow /\ \A n \in 0..MaxDeaths : n + 1 > 0
            BY <1>1, TypedNow, CheckoutBounds
        <3> QED
            BY <3>1, <1>22 DEF GoDie, PastRow
    <2> QED
        BY <2>1, VariedParts
<1>23. ASSUME GoStutter
      PROVE  Varied'
    BY <1>1, <1>23, VariedSame DEF GoStutter, Same, rows
<1> QED
    BY <1>2, <1>3, <1>4, <1>5, <1>6, <1>7, <1>8, <1>9, <1>10, <1>11, <1>12, <1>13, <1>14,
       <1>15, <1>16, <1>17, <1>18, <1>19, <1>20, <1>21, <1>22, <1>23 DEF GoNext, Gone

-----------------------------------------------------------------------------
\* The parts of Way: what holds over deaths, and what the quiet page keeps
WayRows ==
    /\ seen = "successful" => payment.status = "successful"
    /\ running.kind \in {"expire", "grace"} => lapsed
    /\ jobs["grace"] > 0 => lapsed

Lapses(c) == c.op = "close" \/ (c.op = "enqueue" /\ c.to = "grace")
Lapsing(t) == \A c \in left[t] : Lapses(c) => lapsed

Quiet == past.tools = 0 /\ past.deaths = 0
Grace == jobs["grace"] > 0 \/ running.kind = "grace"

WayBy(t) == /\ \A c \in left[t] : Waits(t, c)
            /\ Grace /\ t \in Callers => Calm(t)

Settling == /\ OnItsWay => Driven
            /\ running.kind = "grace" => ~ OnItsWay

(***************************************************************************)
(* Way, apart: the rows, each task's closing, and each task's moves while  *)
(* it is quiet.                                                            *)
(***************************************************************************)
LEMMA WayParts ==
    /\ Way <=> /\ WayRows
               /\ \A t \in Tasks : Lapsing(t)
               /\ Quiet => Settling /\ \A t \in Tasks : WayBy(t)
    /\ Way' <=> /\ WayRows'
                /\ \A t \in Tasks : Lapsing(t)'
                /\ Quiet' => Settling' /\ \A t \in Tasks : WayBy(t)'
<1>0. \A t \in Callers : t \in Tasks
    BY DEF Tasks
<1>1. Way <=> /\ WayRows
              /\ \A t \in Tasks : Lapsing(t)
              /\ Quiet => Settling /\ \A t \in Tasks : WayBy(t)
    BY <1>0 DEF Way, WayRows, Lapsing, Lapses, Quiet, Grace, WayBy, Settling
<1>2. Way' <=> /\ WayRows'
               /\ \A t \in Tasks : Lapsing(t)'
               /\ Quiet' => Settling' /\ \A t \in Tasks : WayBy(t)'
    BY <1>0 DEF Way, WayRows, Lapsing, Lapses, Quiet, Grace, WayBy, Settling
<1> QED
    BY <1>1, <1>2

(***************************************************************************)
(* No two steps that a handler has left have the same rank.                *)
(***************************************************************************)
LEMMA RankOnce ==
    ASSUME Programs, NEW t \in Tasks, NEW c \in left[t], NEW d \in left[t], Rank(c) = Rank(d)
    PROVE  c = d
<1>1. task[t].todo \in Seq(StepRow) /\ Ranked(task[t].todo) /\ left[t] = Steps(task[t].todo)
    BY DEF Programs, TaskRow, left
<1> DEFINE s == task[t].todo
<1>2. PICK i \in 1..Len(s) : c = s[i]
    BY <1>1 DEF Steps
<1>3. PICK j \in 1..Len(s) : d = s[j]
    BY <1>1 DEF Steps
<1>4. \A m, n \in 1..Len(s) : m < n => Rank(s[m]) # Rank(s[n])
    <2> SUFFICES ASSUME NEW m \in 1..Len(s), NEW n \in 1..Len(s), m < n
                 PROVE  Rank(s[m]) # Rank(s[n])
        OBVIOUS
    <2>1. Rank(s[m]) < Rank(s[n])
        BY <1>1 DEF Ranked
    <2>2. Rank(s[m]) \in 0..24 /\ Rank(s[n]) \in 0..24
        BY <1>1, Ranks, ElementOfSeq
    <2> QED
        BY <2>1, <2>2
<1>5. i \in Int /\ j \in Int
    BY <1>1
<1>6. CASE i < j
    BY <1>2, <1>3, <1>4, <1>6
<1>7. CASE j < i
    BY <1>2, <1>3, <1>4, <1>7
<1> QED
    BY <1>2, <1>3, <1>5, <1>6, <1>7

(***************************************************************************)
(* The step that settles what is on its way comes right after the move.    *)
(***************************************************************************)
LEMMA DriveRank ==
    /\ \A c \in StepRow : Drives(c) => Rank(c) = 11
    /\ \A c \in StepRow : c.op \in {"to", "hop"} /\ c.to = "processing" => Rank(c) = 9
    /\ \A c \in StepRow : Rank(c) > 9 => Rank(c) >= 11
<1>1. \A c \in StepRow : Drives(c) => Rank(c) = 11
    <2> SUFFICES ASSUME NEW c \in StepRow, Drives(c)
                 PROVE  Rank(c) = 11
        OBVIOUS
    <2>1. "failed" \notin Resumes /\ "successful" \notin Resumes
        BY DEF Resumes
    <2> QED
        BY <2>1, Ranks DEF Drives
<1>2. \A c \in StepRow : c.op \in {"to", "hop"} /\ c.to = "processing" => Rank(c) = 9
    BY Ranks DEF Resumes
<1>3. \A c \in StepRow : Rank(c) > 9 => Rank(c) >= 11
    <2> SUFFICES ASSUME NEW c \in StepRow
                 PROVE  Rank(c) > 9 => Rank(c) >= 11
        OBVIOUS
    <2>1. Rank(c) # 10
        BY DEF Rank
    <2>2. Rank(c) \in 0..24
        BY Ranks
    <2> QED
        BY <2>1, <2>2
<1> QED
    BY <1>1, <1>2, <1>3

(***************************************************************************)
(* What is known of the closing job's instant stays known.                 *)
(***************************************************************************)
LEMMA WayLasts ==
    ASSUME Way, NEW t \in Tasks, NEW S, Leaves(t, S), lapsed => lapsed',
           seen' = seen \/ seen' = "none",
           payment.status = "successful" => payment'.status = "successful",
           running'.kind = running.kind,
           jobs'["grace"] > 0 => jobs["grace"] > 0 \/ lapsed,
           \A d \in S : d \in left[t] \/ ~ Lapses(d) \/ lapsed
    PROVE  WayRows' /\ \A u \in Tasks : Lapsing(u)'
<1>1. WayRows /\ \A u \in Tasks : Lapsing(u)
    BY WayParts
<1>2. WayRows'
    BY <1>1 DEF WayRows
<1>3. ASSUME NEW u \in Tasks
      PROVE  Lapsing(u)'
    <2>1. CASE u = t
        BY <1>1, <2>1 DEF Leaves, Lapsing
    <2>2. CASE u # t
        BY <1>1, <2>2 DEF Leaves, Lapsing
    <2> QED
        BY <2>1, <2>2
<1> QED
    BY <1>2, <1>3

(***************************************************************************)
(* While nothing died and no tool moved the payment, only one caller has   *)
(* steps left, and it holds the lock.                                      *)
(***************************************************************************)
LEMMA QuietTasks ==
    ASSUME Locked, Quiet, NEW t \in Tasks, left[t] # {}
    PROVE  /\ t \in Callers => lock = t
           /\ t = Poll => /\ running.begun
                          /\ running.kind # "simulate" => lock = Poll
                          /\ running.kind = "simulate" =>
                               \A c \in left[t] : /\ c.op \in Unlocked
                                                  /\ c.op # "to"
                          /\ \A c \in left[t] : c.op \notin {"pay", "control", "method", "create"}
           /\ \A c \in left[t] : c.op = "hop" => t = Poll /\ running.kind = "simulate"
           /\ \A c \in left[t] : c.op \notin Unlocked => lock = t
           /\ t \in Callers \/ t = Poll
BY DEF Locked, Quiet, Tasks

\* What another task waits for is not disturbed by this one's step.
LEMMA OthersWait ==
    ASSUME Way, Locked, Quiet, NEW t \in Tasks, NEW S, Leaves(t, S),
           payment.status = "successful" => payment'.status = "successful",
           lock # t /\ payment.status \in TerminalPayment => payment'.status \in TerminalPayment,
           lock' = lock \/ lock \in {t, None},
           Grace' => Grace \/ lock = t,
           left[Poll] # {} => running'.kind = running.kind,
           OnItsWay' => OnItsWay \/ lock = t \/ t = Poll,
           NEW u \in Tasks, u # t
    PROVE  WayBy(u)'
<1>1. left'[u] = left[u] /\ WayBy(u) /\ None \notin Tasks
    BY WayParts, Actors DEF Leaves
<1>2. CASE left[u] = {}
    BY <1>1, <1>2 DEF WayBy, Calm
<1>3. CASE left[u] # {} /\ u \in Callers
    <2>1. lock = u /\ lock' = u
        BY <1>1, <1>3, QuietTasks
    <2>2. u # Poll
        BY <1>3, Actors
    <2>3. \A d \in left[u] : Waits(u, d)'
        BY <1>1, <1>3, <2>1, <2>2 DEF WayBy, Waits
    <2>4. Grace' => Calm(u)'
        BY <1>1, <1>3, <2>1 DEF WayBy, Calm
    <2> QED
        BY <1>1, <2>3, <2>4 DEF WayBy
<1>4. CASE left[u] # {} /\ u = Poll
    <2>1. u \notin Callers /\ running'.kind = running.kind
        BY <1>4, TasksAssumption
    <2>2. lock = u => lock' = u /\ lock # t
        BY <1>1
    <2>3. \A d \in left[u] : d.op = "to" => lock = u
        BY <1>4, QuietTasks
    <2>4. \A d \in left[u] : Waits(u, d)'
        <3> SUFFICES ASSUME NEW d \in left[u]
                     PROVE  Waits(u, d)'
            OBVIOUS
        <3>1. Waits(u, d)
            BY <1>1 DEF WayBy
        <3>2. d.op = "cancelGroup" => \/ payment'.status = "successful"
                                      \/ lock' = u /\ payment'.status \in TerminalPayment
            BY <2>2, <3>1 DEF Waits
        <3>3. d.op = "to" /\ d.to = "expired" => ~ OnItsWay'
            BY <1>4, <2>2, <2>3, <3>1 DEF Waits
        <3> QED
            BY <1>1, <1>4, <2>1, <3>1, <3>2, <3>3 DEF Waits
    <2> QED
        BY <1>1, <2>1, <2>4 DEF WayBy
<1> QED
    BY <1>2, <1>3, <1>4 DEF Tasks

(***************************************************************************)
(* What is on its way goes on being driven when a handler takes a step     *)
(* that does not move it.                                                  *)
(***************************************************************************)
LEMMA DrivenTurn ==
    ASSUME Way, Locked, Shaped, Programs, Quiet, OnItsWay,
           NEW t \in Tasks, NEW c, First(t, c), NEW S, Turns(t, S),
           running'.kind = running.kind, running'.begun = running.begun,
           jobs["simulate"] > 0 => jobs'["simulate"] > 0 \/ c.op = "cancelGroup",
           Drives(c) => jobs'["simulate"] > 0,
           c.op = "hop" => c.to = "processing" /\ (seen = "processing" => S = left[t] \ {c})
    PROVE  Driven'
<1>1. /\ WayRows /\ WayBy(t) /\ Driven /\ payment.status = "processing"
    BY WayParts DEF Settling, OnItsWay
<1>2. /\ c \in left[t] /\ c \in StepRow /\ left[t] \subseteq StepRow /\ left'[t] = S
      /\ \A u \in Tasks : u # t => left'[u] = left[u]
      /\ lock' = lock \/ (S = {} /\ lock = t)
    BY LeftPlans DEF First, Turns, Leaves
<1>3. Poll \in Tasks /\ \A u \in Callers : u \in Tasks /\ u # Poll
    BY Actors
<1>4. CASE jobs["simulate"] > 0
    <2>1. c.op # "cancelGroup"
        BY <1>1, <1>2 DEF WayBy, Waits, TerminalPayment
    <2> QED
        BY <1>4, <2>1 DEF Driven
<1>5. CASE running.kind = "simulate" /\ ~ running.begun
    BY <1>5 DEF Driven
<1>6. CASE /\ running.kind = "simulate"
           /\ \E d \in left[Poll] : d.op = "hop" /\ d.to = "successful"
           /\ (\E d \in left[Poll] : d.op = "hop" /\ d.to = "processing") => seen = "processing"
    <2>1. PICK d \in left[Poll] : d.op = "hop" /\ d.to = "successful"
        BY <1>6
    <2>2. CASE t # Poll
        <3>1. left'[Poll] = left[Poll] /\ seen' = seen
            BY <1>2, <1>3, <2>2 DEF Turns
        <3> QED
            BY <1>6, <2>1, <3>1 DEF Driven
    <2>3. CASE t = Poll
        <3>1. c.op \in Unlocked /\ c.op # "to"
            BY <1>2, <1>6, <2>3, QuietTasks
        <3>2. c.op \notin {"cancelGroup", "publish", "fulfil"} \cup Fill
            BY <1>2, <1>3, <2>1, <2>3 DEF Shaped
        <3>3. c.op = "hop" /\ c.to = "processing" /\ seen = "processing" /\ S = left[t] \ {c}
            BY <1>2, <1>6, <2>3, <3>1, <3>2 DEF Unlocked
        <3>4. d \in S
            BY <2>1, <2>3, <3>3
        <3>5. seen' = seen
            BY <3>4 DEF Turns
        <3> QED
            BY <1>2, <1>6, <2>1, <2>3, <3>3, <3>4, <3>5 DEF Driven
    <2> QED
        BY <2>2, <2>3
<1>7. ASSUME NEW u \in Callers, lock = u,
             NEW e \in left[u], Drives(e), \A d \in left[u] : Rank(e) <= Rank(d)
      PROVE  Driven'
    <2>1. CASE u = t
        <3>1. c = e
            <4>1. Rank(c) \in 0..24 /\ Rank(e) \in 0..24 /\ Rank(e) <= Rank(c)
                BY <1>2, <1>7, <2>1, Ranks
            <4> QED
                BY <1>7, <2>1, <4>1 DEF First
        <3> QED
            BY <1>7, <3>1 DEF Driven
    <2>2. CASE u # t
        <3>1. left'[u] = left[u] /\ lock' = lock
            BY <1>2, <1>3, <1>7, <2>2
        <3> QED
            BY <1>7, <3>1 DEF Driven
    <2> QED
        BY <2>1, <2>2
<1> QED
    BY <1>1, <1>4, <1>5, <1>6, <1>7 DEF Driven

(***************************************************************************)
(* A turn that leaves the payment alone                                    *)
(***************************************************************************)
LEMMA WayTurn ==
    ASSUME Way, Locked, Shaped, Typed, Programs, NEW t \in Tasks, NEW c, First(t, c),
           NEW S, Turns(t, S), UNCHANGED <<payment, past, lapsed>>,
           running'.kind = running.kind, running'.begun = running.begun,
           jobs["simulate"] > 0 => jobs'["simulate"] > 0 \/ c.op = "cancelGroup",
           jobs'["grace"] > 0 => jobs["grace"] > 0 \/ (lapsed /\ t = Poll /\ lock = Poll),
           OnItsWay /\ Drives(c) => jobs'["simulate"] > 0,
           OnItsWay /\ c.op = "hop" =>
               c.to = "processing" /\ (seen = "processing" => S = left[t] \ {c}),
           \A d \in S : d \in left[t] \/ ~ Lapses(d) \/ lapsed,
           Quiet => WayBy(t)'
    PROVE  Way'
<1>1. Leaves(t, S) /\ (lock' = lock \/ lock = t) /\ (seen' = seen \/ seen' = "none")
    BY DEF Turns
<1>2. WayRows' /\ \A u \in Tasks : Lapsing(u)'
    BY <1>1, WayLasts
<1>3. ASSUME Quiet
      PROVE  Settling' /\ \A u \in Tasks : WayBy(u)'
    <2>1. Settling
        BY <1>3, WayParts
    <2>2. OnItsWay' <=> OnItsWay
        BY DEF OnItsWay
    <2>3. OnItsWay => Driven'
        BY <1>3, DrivenTurn
    <2>4. Settling'
        BY <2>1, <2>2, <2>3 DEF Settling
    <2>5. Grace' => Grace \/ lock = t
        BY DEF Grace
    <2>6. \A u \in Tasks : u # t => WayBy(u)'
        BY <1>1, <1>3, <2>2, <2>5, OthersWait
    <2> QED
        BY <1>3, <2>4, <2>6
<1>4. Quiet' => Quiet
    BY DEF Quiet
<1> QED
    BY <1>2, <1>3, <1>4, WayParts

\* A step that waits for nothing, and that a calm page may take
Tame(d) == d.op \notin {"cancelGroup", "to", "hop", "enqueue", "close", "method", "create"}

\* A step that adds only tame steps keeps its own task's part of Way.
LEMMA TameTurn ==
    ASSUME Way, Locked, Programs, Quiet, NEW t \in Tasks, NEW c, First(t, c),
           NEW S, Turns(t, S), UNCHANGED payment, running'.kind = running.kind,
           Grace' => Grace \/ t = Poll,
           left[t] \ {c} \subseteq S, \A d \in S : d \in left[t] \/ Tame(d)
    PROVE  WayBy(t)'
<1>1. /\ WayBy(t) /\ left'[t] = S /\ left[t] \subseteq StepRow /\ c \in left[t]
      /\ S # {} => lock' = lock
    BY LeftPlans, WayParts DEF First, Turns, Leaves
<1>2. \A d \in S : Tame(d) => Waits(t, d)'
    BY DEF Tame, Waits
<1>3. ASSUME NEW d \in S, d \in left[t], ~ Tame(d)
      PROVE  Waits(t, d)'
    <2>1. Waits(t, d) /\ lock' = lock
        BY <1>1, <1>3 DEF WayBy
    <2>2. OnItsWay' <=> OnItsWay
        BY DEF OnItsWay
    <2>3. ASSUME d.op \in {"to", "hop"}, d.to = "processing", NEW e \in left[t],
                 Drives(e) \/ (e.op = "hop" /\ e.to = "successful")
          PROVE  e \in S
        <3>1. Rank(e) = 11 /\ Rank(d) = 9 /\ e \in StepRow /\ d \in StepRow
            <4>1. Drives(e) => Rank(e) = 11
                BY <1>1, DriveRank
            <4>2. e.op = "hop" /\ e.to = "successful" => Rank(e) = 11
                BY <1>1, Ranks DEF Resumes
            <4>3. d \in StepRow /\ e \in StepRow
                BY <1>1, <1>3, <2>3
            <4>4. Rank(d) = 9
                BY <2>3, <4>3, DriveRank
            <4>5. Rank(e) = 11
                BY <2>3, <4>1, <4>2
            <4> QED
                BY <4>3, <4>4, <4>5
        <3>2. c # e
            BY <1>3, <3>1 DEF First
        <3> QED
            BY <3>2
    <2> QED
        BY <1>1, <2>1, <2>2, <2>3 DEF Waits
<1>4. t \in Callers /\ Grace' => Calm(t)'
    <2>1. t \in Callers /\ Grace' => Calm(t)
        BY <1>1, Actors DEF WayBy
    <2> QED
        BY <1>1, <2>1 DEF Calm, Tame
<1> QED
    BY <1>1, <1>2, <1>3, <1>4 DEF WayBy

(***************************************************************************)
(* A step that adds only tame steps, and leaves the payment and the jobs   *)
(* alone, keeps Way.                                                       *)
(***************************************************************************)
LEMMA TameWay ==
    ASSUME Way, Locked, Shaped, Typed, Programs, NEW t \in Tasks, NEW c, First(t, c),
           NEW S, Turns(t, S), UNCHANGED <<payment, past, lapsed, jobs, running>>,
           c.op \notin {"to", "hop", "enqueue"},
           left[t] \ {c} \subseteq S, \A d \in S : d \in left[t] \/ Tame(d)
    PROVE  Way'
<1>1. \A d \in S : d \in left[t] \/ ~ Lapses(d)
    BY DEF Tame, Lapses
<1>2. Grace' <=> Grace
    BY DEF Grace
<1>3. ~ Drives(c)
    BY DEF Drives
<1> QED
    BY <1>1, <1>2, <1>3, TameTurn, WayTurn

(***************************************************************************)
(* A request begins, and time or the scheduler's table changes.            *)
(***************************************************************************)
LEMMA WayBegins ==
    ASSUME Way, Locked, NEW t \in Callers, left[t] = {}, NEW S, Leaves(t, S), lock = None,
           seen' = seen, UNCHANGED <<payment, jobs, running, past, lapsed>>,
           \A d \in S : /\ d.op \notin {"cancelGroup", "to", "hop", "close", "method", "create"}
                        /\ d.op = "enqueue" => d.to = "expire" /\ ~ Grace
    PROVE  Way'
<1>1. t \in Tasks /\ None \notin Tasks /\ \A u \in Callers : u \in Tasks
    BY Actors
<1>2. \A d \in S : ~ Lapses(d)
    BY DEF Lapses
<1>3. WayRows' /\ \A u \in Tasks : Lapsing(u)'
    BY <1>1, <1>2, WayLasts
<1>4. ASSUME Quiet
      PROVE  Settling' /\ \A u \in Tasks : WayBy(u)'
    <2>1. Settling /\ (OnItsWay' <=> OnItsWay) /\ (Grace' <=> Grace)
        BY <1>4, WayParts DEF OnItsWay, Grace
    <2>2. left'[Poll] = left[Poll]
        BY Actors DEF Leaves
    <2>3. Driven => Driven'
        BY <1>1, <2>2 DEF Driven
    <2>4. Settling'
        BY <2>1, <2>3 DEF Settling
    <2>5. \A u \in Tasks : u # t => WayBy(u)'
        BY <1>1, <1>4, <2>1, OthersWait
    <2>6. WayBy(t)'
        <3>1. left'[t] = S
            BY DEF Leaves
        <3>2. \A d \in S : Waits(t, d)'
            BY DEF Waits
        <3>3. Grace => \A d \in S : d.op \notin {"method", "enqueue", "create", "to"}
            OBVIOUS
        <3> QED
            BY <2>1, <3>1, <3>2, <3>3 DEF WayBy, Calm
    <2> QED
        BY <2>4, <2>5, <2>6
<1>5. Quiet' => Quiet
    BY DEF Quiet
<1> QED
    BY <1>3, <1>4, <1>5, WayParts

(***************************************************************************)
(* Way stays where the tasks and the payment stay, and the running job at  *)
(* most ends.                                                              *)
(***************************************************************************)
LEMMA WaySame ==
    ASSUME Way, left' = left, UNCHANGED <<seen, payment, jobs, past, lock>>, lapsed => lapsed',
           running' = running \/ (left[Poll] = {} /\ running.begun /\ running'.kind = "none"),
           running'.kind # "grace" \/ running' = running
    PROVE  Way'
<1>1. WayRows /\ \A u \in Tasks : Lapsing(u)
    BY WayParts
<1>2. WayRows' /\ \A u \in Tasks : Lapsing(u)'
    BY <1>1 DEF WayRows, Lapsing
<1>3. ASSUME Quiet
      PROVE  Settling' /\ \A u \in Tasks : WayBy(u)'
    <2>1. Settling /\ (OnItsWay' <=> OnItsWay) /\ (Grace' => Grace)
        BY <1>3, WayParts DEF OnItsWay, Grace
    <2>2. Driven => Driven'
        BY DEF Driven
    <2>3. Settling'
        BY <2>1, <2>2 DEF Settling
    <2>4. ASSUME NEW u \in Tasks
          PROVE  WayBy(u)'
        <3>1. WayBy(u)
            BY <1>3, WayParts
        <3>2. \A d \in left[u] : Waits(u, d)'
            BY <2>1, <3>1 DEF WayBy, Waits
        <3> QED
            BY <2>1, <3>1, <3>2 DEF WayBy, Calm
    <2> QED
        BY <2>3, <2>4
<1>4. Quiet' => Quiet
    BY DEF Quiet
<1> QED
    BY <1>2, <1>3, <1>4, WayParts
(***************************************************************************)
(* A turn that moves the payment                                           *)
(***************************************************************************)
LEMMA WayMoves ==
    ASSUME Way, Locked, Programs, NEW t \in Tasks, NEW c, First(t, c), NEW S, Turns(t, S),
           UNCHANGED <<past, lapsed, jobs, running>>,
           payment.status = "successful" => payment'.status = "successful",
           \A d \in S : d \in left[t] \/ ~ Lapses(d),
           Quiet => /\ WayBy(t)'
                    /\ OnItsWay' => Driven' /\ running.kind # "grace"
                    /\ lock # t /\ payment.status \in TerminalPayment =>
                          payment'.status \in TerminalPayment
    PROVE  Way'
<1>1. Leaves(t, S) /\ (lock' = lock \/ lock = t) /\ (seen' = seen \/ seen' = "none")
    BY DEF Turns
<1>2. WayRows' /\ \A u \in Tasks : Lapsing(u)'
    BY <1>1, WayLasts
<1>3. ASSUME Quiet
      PROVE  Settling' /\ \A u \in Tasks : WayBy(u)'
    <2>1. Settling'
        BY <1>3 DEF Settling
    <2>2. Grace' <=> Grace
        BY DEF Grace
    <2>3. left[t] # {}
        BY DEF First
    <2>4. lock = t \/ t = Poll
        BY <1>3, <2>3, QuietTasks
    <2>5. \A u \in Tasks : u # t => WayBy(u)'
        BY <1>1, <1>3, <2>2, <2>4, OthersWait
    <2> QED
        BY <1>3, <2>1, <2>5
<1>4. Quiet' => Quiet
    BY DEF Quiet
<1> QED
    BY <1>2, <1>3, <1>4, WayParts

(***************************************************************************)
(* A move of the payment that only tells of it keeps its own task's part   *)
(* of Way.                                                                 *)
(***************************************************************************)
LEMMA WaitsMove ==
    ASSUME Way, Locked, Programs, Quiet, NEW t \in Tasks, NEW S, Turns(t, S),
           UNCHANGED <<jobs, running>>,
           \A d \in S : d \in left[t] \/ d.op \in {"cancelGroup", "publish"},
           Has(S, "cancelGroup") => \/ payment'.status = "successful"
                                    \/ lock = t /\ payment'.status \in TerminalPayment,
           \A d \in S : d.op = "to" /\ d.to = "expired" => ~ OnItsWay',
           \A d \in S : d.op \in {"to", "hop"} /\ d.to = "processing" =>
               \A e \in left[t] : Rank(e) = 11 => e \in S
    PROVE  WayBy(t)'
<1>1. /\ WayBy(t) /\ left'[t] = S /\ left[t] \subseteq StepRow
      /\ S # {} => lock' = lock
    BY LeftPlans, WayParts DEF Turns, Leaves
<1>2. ASSUME NEW d \in S
      PROVE  Waits(t, d)'
    <2>1. lock' = lock
        BY <1>1, <1>2
    <2>2. d.op = "cancelGroup" => \/ payment'.status = "successful"
                                  \/ lock' = t /\ payment'.status \in TerminalPayment
        BY <2>1 DEF Has
    <2>3. CASE d \notin left[t]
        <3>1. d.op \in {"cancelGroup", "publish"}
            BY <2>3
        <3> QED
            BY <2>2, <3>1 DEF Waits
    <2>4. CASE d \in left[t]
        <3>1. Waits(t, d)
            BY <1>1, <2>4 DEF WayBy
        <3>2. \A e \in left[t] : Drives(e) \/ (e.op = "hop" /\ e.to = "successful") => Rank(e) = 11
            <4>1. \A e \in left[t] : Drives(e) => Rank(e) = 11
                BY <1>1, DriveRank
            <4>2. \A e \in left[t] : e.op = "hop" /\ e.to = "successful" => Rank(e) = 11
                BY <1>1, Ranks DEF Resumes
            <4> QED
                BY <4>1, <4>2
        <3>3. d.op = "to" /\ d.to = "processing" /\ d.word # "underpaid" =>
                  t \in Callers /\ \E e \in left'[t] : Drives(e)
            BY <1>1, <3>1, <3>2 DEF Waits
        <3>4. d.op = "hop" /\ d.to = "processing" =>
                  \E e \in left'[t] : e.op = "hop" /\ e.to = "successful"
            BY <1>1, <3>1, <3>2 DEF Waits
        <3>5. d.op = "to" /\ d.to = "expired" => t = Poll /\ ~ OnItsWay'
            BY <3>1 DEF Waits
        <3>6. /\ d.op = "enqueue" /\ d.to = "grace" => t = Poll
              /\ d.op = "close" => t = Poll /\ (d.to = "grace" => running'.kind = "grace")
            BY <3>1 DEF Waits
        <3> QED
            BY <2>2, <3>3, <3>4, <3>5, <3>6 DEF Waits
    <2> QED
        BY <2>3, <2>4
<1>3. t \in Callers /\ Grace' => Calm(t)'
    <2>1. t \in Callers /\ Grace' => Calm(t)
        BY <1>1 DEF WayBy, Grace
    <2> QED
        BY <1>1, <2>1 DEF Calm
<1> QED
    BY <1>1, <1>2, <1>3 DEF WayBy

(***************************************************************************)
(* A handler that is done waits for nothing.                               *)
(***************************************************************************)
LEMMA DoneWaits ==
    ASSUME NEW t \in Tasks, left'[t] = {}
    PROVE  WayBy(t)'
BY DEF WayBy, Calm

(***************************************************************************)
(* The sandbox may settle what is being processed.                         *)
(***************************************************************************)
LEMMA Settles ==
    ASSUME NEW s \in {"successful", "failed"}, NEW by
    PROVE  May("processing", s, by)
BY DEF May, PAYMENT_TRANSITIONS, PaymentStatus

(***************************************************************************)
(* What is on its way is waited for.                                       *)
(***************************************************************************)
LEMMA WayKept ==
    ASSUME IInv, GoNext
    PROVE  Way'
<1>1. /\ Programs /\ Way /\ Locked /\ Shaped /\ Named /\ Typed /\ Sold
      /\ Poll \in Tasks /\ None \notin Tasks /\ \A t \in Callers : t \in Tasks /\ t # Poll
    BY TasksAssumption DEF IInv, Tasks
<1>2. ASSUME NEW t \in Callers, GoSession(t)
      PROVE  Way'
    <2>1. /\ Leaves(t, NewSession) /\ left[t] = {} /\ seen' = seen /\ lock = None
          /\ UNCHANGED <<payment, jobs, running, past, lapsed>>
        BY <1>1, <1>2 DEF GoSession, Begins, LockFree, rows
    <2>2. ~ Grace
        <3>1. jobs["grace"] > 0 => lapsed
            BY <1>1 DEF Way
        <3> QED
            BY <3>1, <1>2 DEF GoSession, Grace
    <2> QED
        BY <1>1, <2>1, <2>2, FirstSteps, WayBegins
<1>3. ASSUME NEW t \in Callers, GoAct(t)
      PROVE  Way'
    <2>1. PICK d \in Asks : Begins(t, Begun(d))
        BY <1>3 DEF GoAct
    <2>2. /\ Leaves(t, Begun(d)) /\ left[t] = {} /\ seen' = seen /\ lock = None
          /\ UNCHANGED <<payment, jobs, running, past, lapsed>>
        BY <1>1, <2>1, <1>3 DEF GoAct, Begins, LockFree, rows
    <2>3. d.op \in Decisions \ {"close"}
        BY FirstSteps
    <2>4. \A e \in Begun(d) : e.op \in {"adopt"} \cup (Decisions \ {"close"})
        BY <2>3, FirstSteps
    <2>5. \A e \in Begun(d) :
              e.op \notin {"cancelGroup", "to", "hop", "close", "method", "create", "enqueue"}
        BY <2>4 DEF Decisions
    <2> QED
        BY <1>1, <2>2, <2>5, WayBegins
<1>4. ASSUME NEW t \in Callers, GoTool(t)
      PROVE  Way'
    <2>1. PICK S : Begins(t, S) /\ \A d \in S : d.op = "to"
        BY <1>4, FirstSteps DEF GoTool
    <2>2. Leaves(t, S) /\ seen' = seen /\ UNCHANGED <<payment, jobs, running, lapsed>>
        BY <1>1, <2>1, <1>4 DEF GoTool, Begins, rows
    <2>3. \A d \in S : ~ Lapses(d)
        BY <2>1 DEF Lapses
    <2>4. WayRows' /\ \A u \in Tasks : Lapsing(u)'
        BY <1>1, <2>2, <2>3, WayLasts
    <2>5. ~ Quiet'
        <3>1. past \in PastRow /\ \A n \in 0..MaxTools : n + 1 # 0
            BY <1>1, TypedNow, CheckoutBounds
        <3> QED
            BY <3>1, <1>4 DEF GoTool, PastRow, Quiet
    <2> QED
        BY <2>4, <2>5, WayParts
<1>5. ASSUME NEW t \in Tasks, NEW c, First(t, c), GoAdopt(t, c)
      PROVE  Way'
    <2>1. /\ c \in StepRow /\ c \in left[t] /\ left[t] \subseteq StepRow
          /\ payment \in PaymentRow /\ running \in RunningRow /\ jobs \in [JobKind -> Nat]
        BY <1>1, <1>5, TypedNow, LeftPlans DEF First
    <2>2. Turns(t, Adopted \cup (left[t] \ {c})) /\ UNCHANGED <<payment, past, lapsed, jobs, running>>
        BY <1>5 DEF GoAdopt, rows
    <2>3. c.op \notin {"to", "hop", "enqueue"}
        BY <1>5 DEF GoAdopt, Fill
    <2>4. \A d \in Adopted : Tame(d)
        BY AddedSteps DEF Tame
    <2> QED
        BY <1>1, <2>2, <2>3, <2>4, <1>5, TameWay
<1>6. ASSUME NEW t \in Tasks, NEW c, First(t, c), GoDecide(t, c)
      PROVE  Way'
    <2>1. /\ c \in StepRow /\ c \in left[t] /\ left[t] \subseteq StepRow
          /\ payment \in PaymentRow /\ running \in RunningRow /\ jobs \in [JobKind -> Nat]
        BY <1>1, <1>6, TypedNow, LeftPlans DEF First
    <2>2. PICK S : Turns(t, S) /\ Decided(c, S)
        BY <1>6 DEF GoDecide
    <2>3. \A d \in S : DecidedStep(c, S, d)
        BY <2>2, DecidedSteps
    <2>4. /\ c.op \in Decisions /\ left'[t] = S
          /\ UNCHANGED <<payment, past, lapsed, jobs, running>>
        BY <2>2, <1>6 DEF GoDecide, rows, Turns, Leaves
    <2>5. c.op \notin {"to", "hop", "enqueue"} /\ ~ Drives(c)
        BY <2>4 DEF Decisions, Drives
    <2>6. \A d \in S : ~ Lapses(d) \/ lapsed
        <3>1. c.op = "close" => lapsed
            BY <1>1, <2>1 DEF Way
        <3> QED
            BY <2>3, <3>1 DEF DecidedStep, Lapses
    <2>7. (Grace' <=> Grace) /\ (OnItsWay' <=> OnItsWay)
        BY <2>4 DEF Grace, OnItsWay
    <2>8. ASSUME Quiet
          PROVE  WayBy(t)'
        <3>1. WayBy(t) /\ Settling /\ WayRows
            BY <1>1, <2>8, WayParts
        <3>2. c.op = "close" => t = Poll /\ (c.to = "grace" => ~ OnItsWay)
            BY <2>1, <3>1 DEF WayBy, Waits, Settling
        <3>3. c.op \in {"pay", "control"} => t \in Callers
            BY <1>1, <2>1 DEF Locked, Tasks
        <3>4. \A d \in S : Waits(t, d)'
            <4> SUFFICES ASSUME NEW d \in S
                         PROVE  Waits(t, d)'
                OBVIOUS
            <4>1. DecidedStep(c, S, d)
                BY <2>3
            <4>2. d.op \notin {"cancelGroup", "close", "hop"}
                BY <4>1 DEF DecidedStep
            <4>3. d.op = "to" /\ d.to = "expired" => t = Poll /\ ~ OnItsWay
                BY <3>2, <4>1 DEF DecidedStep
            <4>4. d.op = "enqueue" /\ d.to = "grace" => t = Poll
                BY <3>2, <4>1 DEF DecidedStep
            <4>5. d.op = "to" /\ d.to = "processing" /\ d.word # "underpaid" =>
                      t \in Callers /\ \E e \in S : Drives(e)
                BY <3>3, <4>1 DEF DecidedStep
            <4> QED
                BY <2>4, <2>7, <4>2, <4>3, <4>4, <4>5 DEF Waits
        <3>5. ASSUME Grace, t \in Callers
              PROVE  Calm(t)'
            <4>1. lapsed /\ ~ assertOpen
                BY <3>1, <3>5 DEF WayRows, Grace, assertOpen
            <4>2. c.op # "close"
                BY <3>2, <3>5, Actors
            <4>3. \A d \in S : /\ d.op \notin {"method", "enqueue", "create"}
                               /\ d.op = "to" => d.by = "reversal" /\ d.to = "successful"
                <5> SUFFICES ASSUME NEW d \in S
                             PROVE  /\ d.op \notin {"method", "enqueue", "create"}
                                    /\ d.op = "to" => d.by = "reversal" /\ d.to = "successful"
                    OBVIOUS
                <5>1. DecidedStep(c, S, d)
                    BY <2>3
                <5> QED
                    BY <4>1, <4>2, <5>1 DEF DecidedStep
            <4> QED
                BY <2>4, <4>3 DEF Calm
        <3> QED
            BY <2>4, <2>7, <3>4, <3>5 DEF WayBy
    <2>9. /\ jobs["simulate"] > 0 => jobs'["simulate"] > 0 \/ c.op = "cancelGroup"
          /\ jobs'["grace"] > 0 => jobs["grace"] > 0
          /\ running'.kind = running.kind /\ running'.begun = running.begun
        BY <2>4
    <2> QED
        BY <1>1, <2>2, <2>4, <2>5, <2>6, <2>8, <2>9, <1>6, WayTurn
<1>7. ASSUME NEW t \in Tasks, NEW c, First(t, c), GoWrite(t, c)
      PROVE  Way'
    <2>1. /\ c \in StepRow /\ c \in left[t] /\ left[t] \subseteq StepRow
          /\ payment \in PaymentRow /\ running \in RunningRow /\ jobs \in [JobKind -> Nat]
        BY <1>1, <1>7, TypedNow, LeftPlans DEF First
    <2>2. Turns(t, left[t] \ {c}) /\ UNCHANGED <<payment, past, lapsed, jobs, running>>
        BY <1>7 DEF GoWrite, rows
    <2>3. c.op \notin {"to", "hop", "enqueue"}
        BY <1>7 DEF GoWrite, Fill, Written
    <2> QED
        BY <1>1, <2>2, <2>3, <1>7, TameWay
<1>8. ASSUME NEW t \in Tasks, NEW c, First(t, c), GoEnd(t, c)
      PROVE  Way'
    <2>1. /\ c \in StepRow /\ c \in left[t] /\ left[t] \subseteq StepRow
          /\ payment \in PaymentRow /\ running \in RunningRow /\ jobs \in [JobKind -> Nat]
        BY <1>1, <1>8, TypedNow, LeftPlans DEF First
    <2>2. Turns(t, left[t] \ {c}) /\ UNCHANGED <<payment, past, lapsed, jobs, running>>
        BY <1>8 DEF GoEnd, rows
    <2>3. c.op \notin {"to", "hop", "enqueue"}
        BY <1>8 DEF GoEnd, Fill
    <2> QED
        BY <1>1, <2>2, <2>3, <1>8, TameWay
<1>9. ASSUME NEW t \in Tasks, NEW c, First(t, c), GoEnqueue(t, c)
      PROVE  Way'
    <2>1. /\ c \in StepRow /\ c \in left[t] /\ left[t] \subseteq StepRow
          /\ payment \in PaymentRow /\ running \in RunningRow /\ jobs \in [JobKind -> Nat]
        BY <1>1, <1>9, TypedNow, LeftPlans DEF First
    <2>2. /\ Turns(t, left[t] \ {c}) /\ UNCHANGED <<payment, past, lapsed, running>>
          /\ c.op = "enqueue" /\ c.to \in JobKind /\ jobs' = [jobs EXCEPT ![c.to] = @ + 1]
        BY <2>1, <1>9 DEF GoEnqueue, rows, StepRow
    <2>3. /\ jobs["simulate"] > 0 => jobs'["simulate"] > 0
          /\ c.to = "simulate" => jobs'["simulate"] > 0
          /\ c.to # "grace" => jobs'["grace"] = jobs["grace"]
        <3>1. /\ jobs' \in [JobKind -> Nat] /\ jobs'[c.to] = jobs[c.to] + 1 /\ jobs[c.to] \in Nat
              /\ \A k \in JobKind : k # c.to => jobs'[k] = jobs[k]
            BY <2>1, <2>2
        <3>2. "simulate" \in JobKind /\ "grace" \in JobKind
            BY DEF JobKind
        <3> QED
            BY <3>1, <3>2
    <2>4. Drives(c) => jobs'["simulate"] > 0
        BY <2>2, <2>3 DEF Drives
    <2>5. c.to = "grace" => lapsed
        BY <1>1, <2>1, <2>2 DEF Way
    <2>6. lock = t
        BY <1>1, <2>1, <2>2 DEF Locked, Unlocked, Fill
    <2>7. Quiet => WayBy(t)' /\ (c.to = "grace" => t = Poll)
        <3> SUFFICES ASSUME Quiet
                     PROVE  WayBy(t)' /\ (c.to = "grace" => t = Poll)
            OBVIOUS
        <3>1. c.to = "grace" => t = Poll
            BY <1>1, <2>1, <2>2, WayParts DEF WayBy, Waits
        <3>2. Grace' => Grace \/ t = Poll
            BY <2>2, <2>3, <3>1 DEF Grace
        <3> QED
            BY <1>1, <2>2, <3>1, <3>2, <1>9, TameTurn
    <2>8. Way'
        <3>1. CASE c.to = "grace" /\ ~ (t = Poll)
            <4>1. ~ Quiet
                BY <2>7, <3>1
            <4>2. Leaves(t, left[t] \ {c}) /\ (seen' = seen \/ seen' = "none")
                BY <2>2 DEF Turns
            <4>3. WayRows' /\ \A u \in Tasks : Lapsing(u)'
                BY <1>1, <2>2, <2>5, <3>1, <4>2, WayLasts
            <4>4. ~ Quiet'
                BY <2>2, <4>1 DEF Quiet
            <4> QED
                BY <4>3, <4>4, WayParts
        <3>2. CASE c.to # "grace" \/ t = Poll
            <4>1. jobs'["grace"] > 0 => jobs["grace"] > 0 \/ (lapsed /\ t = Poll /\ lock = Poll)
                BY <2>3, <2>5, <2>6, <3>2
            <4>2. c.op \notin {"to", "hop"} /\ \A d \in left[t] \ {c} : d \in left[t]
                BY <2>2
            <4>3. jobs["simulate"] > 0 => jobs'["simulate"] > 0 \/ c.op = "cancelGroup"
                BY <2>3
            <4>4. running'.kind = running.kind /\ running'.begun = running.begun
                BY <2>2
            <4> QED
                BY <1>1, <2>2, <2>4, <2>7, <4>1, <4>2, <4>3, <4>4, <1>9, WayTurn
        <3> QED
            BY <3>1, <3>2
    <2> QED
        BY <2>8
<1>10. ASSUME NEW t \in Tasks, NEW c, First(t, c), GoCreate(t, c)
      PROVE  Way'
    <2>1. /\ c \in StepRow /\ c \in left[t] /\ left[t] \subseteq StepRow
          /\ payment \in PaymentRow /\ running \in RunningRow /\ jobs \in [JobKind -> Nat]
        BY <1>1, <1>10, TypedNow, LeftPlans DEF First
    <2>2. /\ c.op = "create" /\ UNCHANGED <<past, lapsed, jobs, running>>
          /\ \/ Turns(t, {}) /\ UNCHANGED payment
             \/ /\ payment.status = "none" /\ Turns(t, left[t] \ {c})
                /\ payment'.status = "created"
        BY <2>1, <1>10 DEF GoCreate, PaymentRow
    <2>3. CASE Turns(t, {}) /\ UNCHANGED payment
        <3>1. Quiet => WayBy(t)'
            BY <2>3, DoneWaits DEF Turns, Leaves
        <3>2. ~ Drives(c) /\ c.op # "hop"
            BY <2>2 DEF Drives
        <3> QED
            BY <1>1, <2>2, <2>3, <3>1, <3>2, <1>10, WayTurn
    <2>4. CASE /\ payment.status = "none" /\ Turns(t, left[t] \ {c})
               /\ payment'.status = "created"
        <3>1. ~ OnItsWay' /\ payment.status \notin TerminalPayment
            BY <2>4 DEF OnItsWay, TerminalPayment
        <3>2. ASSUME Quiet
              PROVE  WayBy(t)'
            <4>1. ~ Has(left[t] \ {c}, "cancelGroup")
                BY <1>1, <2>4, <3>1, <3>2, WayParts DEF WayBy, Waits, Has
            <4>2. Rank(c) = 4
                BY <2>1, <2>2, Ranks
            <4> QED
                BY <1>1, <2>2, <2>4, <3>1, <3>2, <4>1, <4>2, <1>10, WaitsMove
        <3> QED
            BY <1>1, <2>2, <2>4, <3>1, <3>2, <1>10, WayMoves
    <2> QED
        BY <2>2, <2>3, <2>4
<1>11. ASSUME NEW t \in Tasks, NEW c, First(t, c), GoName(t, c)
      PROVE  Way'
    <2>1. /\ c \in StepRow /\ c \in left[t] /\ left[t] \subseteq StepRow
          /\ payment \in PaymentRow /\ running \in RunningRow /\ jobs \in [JobKind -> Nat]
        BY <1>1, <1>11, TypedNow, LeftPlans DEF First
    <2>2. PICK d \in left[t] :
              /\ d.op = "to" /\ d.to \in Resumes /\ d.word = ""
              /\ \/ Turns(t, {}) /\ UNCHANGED payment
                 \/ /\ payment' = [status |-> d.to, word |-> "", method |-> c.to]
                    /\ Turns(t, left[t] \ {c, d})
        BY <1>11 DEF GoName
    <2>3. c.op = "method" /\ UNCHANGED <<past, lapsed, jobs, running>>
        BY <1>11 DEF GoName
    <2>4. CASE Turns(t, {}) /\ UNCHANGED payment
        <3>1. Quiet => WayBy(t)'
            BY <2>4, DoneWaits DEF Turns, Leaves
        <3>2. ~ Drives(c) /\ c.op # "hop"
            BY <2>3 DEF Drives
        <3> QED
            BY <1>1, <2>3, <2>4, <3>1, <3>2, <1>11, WayTurn
    <2>5. CASE /\ payment' = [status |-> d.to, word |-> "", method |-> c.to]
               /\ Turns(t, left[t] \ {c, d})
        <3> DEFINE S == left[t] \ {c, d}
        <3>1. payment.status = "successful" => payment'.status = "successful"
            BY <1>1, <1>11, StaysPaid
        <3>2. /\ d \in StepRow /\ Rank(d) = 9 /\ Rank(c) = 8 /\ c # d
            BY <2>1, <2>2, <2>3, Ranks
        <3>3. \A x \in S : x \in StepRow /\ Rank(x) > 9 /\ Rank(x) >= 11
            <4> SUFFICES ASSUME NEW x \in S
                         PROVE  x \in StepRow /\ Rank(x) > 9 /\ Rank(x) >= 11
                OBVIOUS
            <4>1. x \in left[t] /\ x \in StepRow /\ x # c /\ x # d
                BY <2>1
            <4>2. Rank(x) # 9
                BY <1>1, <2>2, <3>2, <4>1, RankOnce
            <4>3. Rank(x) \in 0..24 /\ Rank(c) < Rank(x)
                BY <4>1, Ranks, <1>11 DEF First
            <4>4. Rank(x) > 9
                BY <3>2, <4>2, <4>3
            <4> QED
                BY <4>1, <4>4, DriveRank
        <3>4. payment'.status = d.to /\ payment'.word = ""
            BY <2>5
        <3>5. ASSUME Quiet
              PROVE  /\ WayBy(t)'
                     /\ OnItsWay' => Driven' /\ running.kind # "grace"
                     /\ lock = t
            <4>1. /\ WayBy(t) /\ t \in Callers /\ lock = t
                BY <1>1, <2>1, <2>3, <3>5, WayParts, QuietTasks
            <4>2. ~ Has(S, "cancelGroup")
                BY <1>1, <2>2 DEF Shaped, Has
            <4>3. \A x \in S : ~ (x.op = "to" /\ x.to = "expired")
                BY <4>1, Actors DEF WayBy, Waits
            <4>4. \A x \in S : ~ (x.op \in {"to", "hop"} /\ x.to = "processing")
                <5>1. \A x \in S : x.op \in {"to", "hop"} /\ x.to = "processing" => Rank(x) = 9
                    BY <3>3, DriveRank
                <5>2. \A x \in S : Rank(x) # 9
                    <6> SUFFICES ASSUME NEW x \in S
                                 PROVE  Rank(x) # 9
                        OBVIOUS
                    <6>1. Rank(x) \in 0..24 /\ Rank(x) > 9
                        BY <3>3, Ranks
                    <6> QED
                        BY <6>1
                <5> QED
                    BY <5>1, <5>2
            <4>5. WayBy(t)'
                <5>1. \A x \in S : x \in left[t]
                    OBVIOUS
                <5>2. Turns(t, S) /\ UNCHANGED <<jobs, running>>
                    BY <2>3, <2>5
                <5> HIDE DEF S
                <5> QED
                    BY <1>1, <3>5, <4>2, <4>3, <4>4, <5>1, <5>2, WaitsMove
            <4>6. ASSUME OnItsWay'
                  PROVE  Driven' /\ running.kind # "grace"
                <5>1. d.to = "processing" /\ d.word # "underpaid"
                    BY <2>2, <3>4, <4>6 DEF OnItsWay
                <5>2. PICK e \in left[t] : Drives(e)
                    BY <2>2, <4>1, <5>1 DEF WayBy, Waits
                <5>3. e \in S /\ Rank(e) = 11
                    <6>1. Rank(e) = 11
                        BY <2>1, <5>2, DriveRank
                    <6> QED
                        BY <3>2, <6>1
                <5>4. left'[t] = S /\ lock' = t
                    BY <2>5, <4>1, <5>3 DEF Turns, Leaves
                <5>5. \A x \in S : Rank(e) <= Rank(x)
                    <6> SUFFICES ASSUME NEW x \in S
                                 PROVE  Rank(e) <= Rank(x)
                        OBVIOUS
                    <6>1. Rank(x) \in 0..24 /\ Rank(x) >= 11
                        BY <3>3, Ranks
                    <6> QED
                        BY <5>3, <6>1
                <5> HIDE DEF S
                <5>6. Driven'
                    BY <4>1, <5>2, <5>3, <5>4, <5>5 DEF Driven
                <5>7. running.kind # "grace"
                    BY <2>1, <2>3, <4>1 DEF WayBy, Grace, Calm
                <5> QED
                    BY <5>6, <5>7
            <4> QED
                BY <4>1, <4>5, <4>6
        <3> QED
            BY <1>1, <2>3, <2>5, <3>1, <3>5, <1>11, WayMoves
    <2> QED
        BY <2>2, <2>4, <2>5
<1>12. ASSUME NEW t \in Tasks, NEW c, First(t, c), GoMove(t, c)
      PROVE  Way'
    <2>1. /\ c \in StepRow /\ c \in left[t] /\ left[t] \subseteq StepRow
          /\ payment \in PaymentRow /\ running \in RunningRow /\ jobs \in [JobKind -> Nat]
        BY <1>1, <1>12, TypedNow, LeftPlans DEF First
    <2>2. c.op \in {"to", "hop"} /\ UNCHANGED <<past, lapsed, jobs, running>>
        BY <1>12 DEF GoMove
    <2>3. c.op = "hop" => t = Poll /\ running.kind = "simulate" /\ task[t].seen = seen
        BY <1>1, <2>1 DEF Locked, seen
    <2>4. \/ /\ c.op = "hop" /\ task[t].seen = c.to
             /\ Turns(t, left[t] \ {c}) /\ UNCHANGED payment
          \/ /\ May(payment.status, c.to, c.by)
             /\ payment' = [payment EXCEPT !.status = c.to, !.word = c.word]
             /\ Turns(t, Tells(c.to) \cup (left[t] \ {c}))
          \/ /\ ~ (c.op = "hop" /\ task[t].seen = c.to)
             /\ ~ May(payment.status, c.to, c.by)
             /\ Turns(t, {}) /\ UNCHANGED payment
        BY <1>12 DEF GoMove, May, assertPaymentTransition, canTransitionPayment
    <2>5. CASE /\ c.op = "hop" /\ task[t].seen = c.to
               /\ Turns(t, left[t] \ {c}) /\ UNCHANGED payment
        <3>1. OnItsWay => c.to = "processing"
            <4>1. c.to \in {"processing", "successful"}
                BY <2>1, <2>5 DEF StepRow
            <4>2. c.to = "successful" => payment.status = "successful"
                BY <1>1, <2>3, <2>5 DEF Way
            <4> QED
                BY <4>1, <4>2 DEF OnItsWay
        <3>2. ~ Drives(c)
            BY <2>5 DEF Drives
        <3>3. Grace' <=> Grace
            BY <2>2 DEF Grace
        <3>4. Quiet => WayBy(t)'
            BY <1>1, <2>2, <2>5, <3>3, <1>12, TameTurn
        <3> QED
            BY <1>1, <2>2, <2>5, <3>1, <3>2, <3>4, <1>12, WayTurn
    <2>6. CASE /\ ~ (c.op = "hop" /\ task[t].seen = c.to)
               /\ ~ May(payment.status, c.to, c.by)
               /\ Turns(t, {}) /\ UNCHANGED payment
        <3>1. Quiet => WayBy(t)'
            BY <2>6, DoneWaits DEF Turns, Leaves
        <3>2. OnItsWay => c.to \notin {"successful", "failed"}
            BY <2>6, Settles DEF OnItsWay
        <3>3. c.op = "hop" => c.to \in {"processing", "successful"}
            BY <2>1 DEF StepRow
        <3>4. OnItsWay => ~ Drives(c)
            BY <2>2, <3>2 DEF Drives
        <3>5. OnItsWay /\ c.op = "hop" => c.to = "processing" /\ seen # "processing"
            BY <2>3, <2>6, <3>2, <3>3
        <3> QED
            BY <1>1, <2>2, <2>6, <3>1, <3>4, <3>5, <1>12, WayTurn
    <2>7. CASE /\ May(payment.status, c.to, c.by)
               /\ payment' = [payment EXCEPT !.status = c.to, !.word = c.word]
               /\ Turns(t, Tells(c.to) \cup (left[t] \ {c}))
        <3> DEFINE S == Tells(c.to) \cup (left[t] \ {c})
        <3>1. payment'.status = c.to /\ payment'.word = c.word
            BY <2>1, <2>7 DEF PaymentRow
        <3>2. payment.status = "successful" => payment'.status = "successful"
            BY <1>1, <1>12, StaysPaid
        <3>3. /\ \A d \in Tells(c.to) : /\ d.op \in {"cancelGroup", "publish"}
                                        /\ c.to \in TerminalPayment \cup {"successful"}
              /\ \A d \in left[t] : d.op \notin {"cancelGroup", "publish"}
            BY <1>1, <2>1, <2>2, AddedSteps DEF Shaped
        <3>4. Turns(t, S) /\ left'[t] = S /\ \A d \in S : d \in Tells(c.to) \/ (d \in left[t] /\ d # c)
            BY <2>7 DEF Turns, Leaves
        <3>5. left[t] \ {c} \subseteq S
            OBVIOUS
        <3> HIDE DEF S
        <3>6. \A d \in S : d \in left[t] \/ ~ Lapses(d)
            BY <3>3, <3>4 DEF Lapses
        <3>7. ASSUME NEW d \in S, d.op \in {"to", "hop"}
              PROVE  d \in StepRow /\ d \in left[t] /\ d # c /\ d.to # "processing"
            <4>1. d \in StepRow /\ d \in left[t] /\ d # c
                BY <2>1, <3>3, <3>4, <3>7
            <4>2. Rank(c) \in {9, 11} /\ Rank(c) < Rank(d)
                BY <2>1, <2>2, <4>1, Ranks, <1>12 DEF First
            <4>3. d.to = "processing" => Rank(d) = 9
                BY <3>7, <4>1, DriveRank
            <4> QED
                BY <4>1, <4>2, <4>3
        <3>8. ASSUME Quiet
              PROVE  /\ WayBy(t)'
                     /\ OnItsWay' => Driven' /\ running.kind # "grace"
                     /\ lock # t /\ payment.status \in TerminalPayment =>
                           payment'.status \in TerminalPayment
            <4>1. WayBy(t) /\ left[t] # {}
                BY <1>1, <2>1, <3>8, WayParts
            <4>2. /\ c.op = "to" => lock = t
                  /\ t \in Callers => lock = t
                  /\ c.op = "to" => running.kind # "simulate" \/ t # Poll
                  /\ t \in Callers \/ t = Poll
                BY <1>1, <2>1, <3>8, <4>1, QuietTasks
            <4>3. lock # t => payment.status \notin TerminalPayment
                <5>1. lock # t => c.op = "hop" /\ c.by = "any"
                    BY <2>1, <2>2, <4>2 DEF StepRow
                <5>2. c.to \in PaymentStatus
                    BY <2>1, <2>2 DEF StepRow
                <5>3. payment.status \in PaymentStatus \cup {"none"} /\ payment.status # "none"
                    BY <1>1, <2>1, <2>2, <1>12, PaidNext DEF PaymentRow
                <5>4. May(payment.status, c.to, c.by)
                    BY <2>7
                <5>5. payment.status \in TerminalPayment => c.by # "any"
                    BY <5>2, <5>3, <5>4, Moves
                <5> QED
                    BY <5>1, <5>5
            <4>4. ASSUME OnItsWay'
                  PROVE  /\ c.to = "processing" /\ c.word # "underpaid"
                         /\ S = left[t] \ {c} /\ Rank(c) = 9
                <5>1. c.to = "processing" /\ c.word # "underpaid"
                    BY <3>1, <4>4 DEF OnItsWay
                <5>2. \A d : d \notin Tells(c.to)
                    BY <3>3, <5>1 DEF TerminalPayment
                <5>3. S = left[t] \ {c}
                    BY <3>4, <3>5, <5>2
                <5> QED
                    BY <2>1, <2>2, <5>1, <5>3, DriveRank
            <4>5. ASSUME OnItsWay', c.op = "to"
                  PROVE  t \in Callers /\ Driven' /\ running.kind # "grace"
                <5>1. /\ c.to = "processing" /\ c.word # "underpaid" /\ S = left[t] \ {c}
                      /\ Rank(c) = 9
                    BY <4>4, <4>5
                <5>2. t \in Callers /\ \E e \in left[t] : Drives(e)
                    BY <2>1, <4>1, <4>5, <5>1 DEF WayBy, Waits
                <5>3. PICK e \in left[t] : Drives(e)
                    BY <5>2
                <5>4. Rank(e) = 11 /\ e \in S
                    <6>1. Rank(e) = 11
                        BY <2>1, <5>3, DriveRank
                    <6> QED
                        BY <5>1, <6>1
                <5>5. lock' = t
                    BY <3>4, <4>2, <5>2, <5>4 DEF Turns
                <5>6. \A x \in S : Rank(e) <= Rank(x)
                    <6> SUFFICES ASSUME NEW x \in S
                                 PROVE  Rank(e) <= Rank(x)
                        OBVIOUS
                    <6>1. x \in left[t] /\ x # c /\ x \in StepRow
                        BY <2>1, <5>1
                    <6>2. Rank(x) \in 0..24 /\ Rank(c) < Rank(x)
                        BY <6>1, Ranks, <1>12 DEF First
                    <6>3. Rank(x) >= 11
                        BY <5>1, <6>1, <6>2, DriveRank
                    <6> QED
                        BY <5>4, <6>2, <6>3
                <5>7. Driven'
                    BY <3>4, <5>2, <5>3, <5>4, <5>5, <5>6 DEF Driven
                <5>8. running.kind # "grace"
                    BY <2>1, <4>1, <4>5, <5>1, <5>2 DEF WayBy, Grace, Calm
                <5> QED
                    BY <5>2, <5>7, <5>8
            <4>6. ASSUME OnItsWay', c.op = "hop"
                  PROVE  Driven' /\ running.kind # "grace"
                <5>1. c.to = "processing" /\ S = left[t] \ {c} /\ Rank(c) = 9
                    BY <4>4, <4>6
                <5>2. PICK e \in left[t] : e.op = "hop" /\ e.to = "successful"
                    BY <2>1, <4>1, <4>6, <5>1 DEF WayBy, Waits
                <5>3. e \in S
                    BY <5>1, <5>2
                <5>4. \A d \in S : ~ (d.op = "hop" /\ d.to = "processing")
                    BY <3>7
                <5>5. running'.kind = "simulate" /\ t = Poll
                    BY <2>2, <2>3, <4>6
                <5> QED
                    BY <2>2, <3>4, <5>2, <5>3, <5>4, <5>5 DEF Driven
            <4>7. OnItsWay' => Driven' /\ running.kind # "grace"
                BY <2>2, <4>5, <4>6
            <4>8. Has(S, "cancelGroup") => \/ payment'.status = "successful"
                                           \/ lock = t /\ payment'.status \in TerminalPayment
                <5>1. Has(S, "cancelGroup") => c.to \in TerminalPayment \cup {"successful"}
                    BY <3>3, <3>4 DEF Has
                <5>2. c.op = "hop" => c.to \in {"processing", "successful"}
                    BY <2>1 DEF StepRow
                <5> QED
                    BY <2>2, <3>1, <4>2, <5>1, <5>2 DEF TerminalPayment
            <4>9. ASSUME NEW d \in S, d.op = "to", d.to = "expired"
                  PROVE  ~ OnItsWay'
                <5>1. d \in left[t] /\ t = Poll
                    BY <3>7, <4>1, <4>9 DEF WayBy, Waits
                <5>2. c.op = "to"
                    <6>1. running.kind # "simulate"
                        BY <1>1, <3>8, <4>1, <4>9, <5>1, QuietTasks
                    <6> QED
                        BY <2>2, <2>3, <6>1
                <5> QED
                    BY <4>5, <5>1, <5>2, Actors
            <4>10. WayBy(t)'
                BY <1>1, <2>2, <3>3, <3>4, <3>7, <3>8, <4>8, <4>9, WaitsMove
            <4> QED
                BY <4>3, <4>7, <4>10
        <3> QED
            BY <1>1, <2>2, <3>2, <3>4, <3>6, <3>8, <1>12, WayMoves
    <2> QED
        BY <2>4, <2>5, <2>6, <2>7
<1>13. ASSUME NEW t \in Tasks, NEW c, First(t, c), GoCancel(t, c)
      PROVE  Way'
    <2>1. /\ c \in StepRow /\ c \in left[t] /\ left[t] \subseteq StepRow
          /\ payment \in PaymentRow /\ running \in RunningRow /\ jobs \in [JobKind -> Nat]
        BY <1>1, <1>13, TypedNow, LeftPlans DEF First
    <2>2. /\ Turns(t, left[t] \ {c}) /\ UNCHANGED <<payment, past, lapsed>>
          /\ c.op = "cancelGroup"
        BY <1>13 DEF GoCancel, rows
    <2>3. running'.kind = running.kind /\ running'.begun = running.begun
        BY <2>1, <1>13 DEF GoCancel, RunningRow
    <2>4. jobs'["grace"] = jobs["grace"]
        BY <2>1, <1>13 DEF GoCancel, JobKind
    <2>5. (Grace' <=> Grace) /\ ~ Drives(c)
        BY <2>2, <2>3, <2>4 DEF Grace, Drives
    <2>6. Quiet => WayBy(t)'
        BY <1>1, <2>2, <2>3, <2>5, <1>13, TameTurn
    <2>7. c.op \notin {"to", "hop"} /\ \A d \in left[t] \ {c} : d \in left[t]
        BY <2>2
    <2>8. jobs["simulate"] > 0 => jobs'["simulate"] > 0 \/ c.op = "cancelGroup"
        BY <2>2
    <2>9. jobs'["grace"] > 0 => jobs["grace"] > 0
        BY <2>4
    <2> QED
        BY <1>1, <2>2, <2>3, <2>5, <2>6, <2>7, <2>8, <2>9, <1>13, WayTurn
<1>14. ASSUME NEW t \in Tasks, NEW c, First(t, c), GoPublish(t, c)
      PROVE  Way'
    <2>1. /\ c \in StepRow /\ c \in left[t] /\ left[t] \subseteq StepRow
          /\ payment \in PaymentRow /\ running \in RunningRow /\ jobs \in [JobKind -> Nat]
        BY <1>1, <1>14, TypedNow, LeftPlans DEF First
    <2>2. Turns(t, Published \cup (left[t] \ {c})) /\ UNCHANGED <<payment, past, lapsed, jobs, running>>
        BY <1>14 DEF GoPublish, rows
    <2>3. c.op \notin {"to", "hop", "enqueue"}
        BY <1>14 DEF GoPublish, Fill
    <2>4. \A d \in Published : Tame(d)
        BY AddedSteps DEF Tame
    <2> QED
        BY <1>1, <2>2, <2>3, <2>4, <1>14, TameWay
<1>15. ASSUME NEW t \in Tasks, NEW c, First(t, c), GoVary(t, c)
      PROVE  Way'
    <2>1. /\ c \in StepRow /\ c \in left[t] /\ left[t] \subseteq StepRow
          /\ payment \in PaymentRow /\ running \in RunningRow /\ jobs \in [JobKind -> Nat]
        BY <1>1, <1>15, TypedNow, LeftPlans DEF First
    <2>2. Turns(t, left[t] \ {c}) /\ UNCHANGED <<payment, past, lapsed, jobs, running>>
        BY <1>15 DEF GoVary, rows
    <2>3. c.op \notin {"to", "hop", "enqueue"}
        BY <1>15 DEF GoVary, Fill
    <2> QED
        BY <1>1, <2>2, <2>3, <1>15, TameWay
<1>16. ASSUME NEW t \in Tasks, NEW c, First(t, c), GoFulfil(t, c)
      PROVE  Way'
    <2>1. /\ c \in StepRow /\ c \in left[t] /\ left[t] \subseteq StepRow
          /\ payment \in PaymentRow /\ running \in RunningRow /\ jobs \in [JobKind -> Nat]
        BY <1>1, <1>16, TypedNow, LeftPlans DEF First
    <2>2. /\ Turns(t, left[t] \ {c}) \/ Turns(t, Plains(FillOps) \cup (left[t] \ {c}))
          /\ UNCHANGED <<payment, past, lapsed, jobs, running>>
        BY <1>16 DEF GoFulfil, rows
    <2>3. c.op \notin {"to", "hop", "enqueue"}
        BY <1>16 DEF GoFulfil
    <2>4. \A d \in Plains(FillOps) : Tame(d)
        BY AddedSteps, FillOpsAre DEF Tame, Fill
    <2> QED
        BY <1>1, <2>2, <2>3, <2>4, <1>16, TameWay
<1>17. ASSUME NEW t \in Tasks, NEW c, First(t, c), GoComplete(t, c)
      PROVE  Way'
    <2>1. /\ c \in StepRow /\ c \in left[t] /\ left[t] \subseteq StepRow
          /\ payment \in PaymentRow /\ running \in RunningRow /\ jobs \in [JobKind -> Nat]
        BY <1>1, <1>17, TypedNow, LeftPlans DEF First
    <2>2. Turns(t, left[t] \ {c}) /\ UNCHANGED <<payment, past, lapsed, jobs, running>>
        BY <1>17 DEF GoComplete, rows
    <2>3. c.op \notin {"to", "hop", "enqueue"}
        BY <1>17 DEF GoComplete, Fill, Makes
    <2> QED
        BY <1>1, <2>2, <2>3, <1>17, TameWay
<1>18. ASSUME NEW k \in JobKind, GoClaim(k)
      PROVE  Way'
    <2>1. /\ left[Poll] = {} /\ left' = left /\ seen' = seen /\ running.kind = "none" /\ Due(k)
          /\ UNCHANGED <<payment, lock, lapsed, past>> /\ running'.kind = k /\ ~ running'.begun
        BY <1>18 DEF GoClaim, Same, rows
    <2>2. /\ \A j \in JobKind : j # k => jobs'[j] = jobs[j]
          /\ \A j \in JobKind : jobs'[j] > 0 => jobs[j] > 0
          /\ jobs[k] > 0
        <3>1. jobs \in [JobKind -> Nat] /\ jobs' = [jobs EXCEPT ![k] = @ - 1] /\ jobs[k] > 0
            BY <1>1, <1>18, TypedNow DEF GoClaim, Due
        <3> QED
            BY <3>1
    <2>3. WayRows /\ \A u \in Tasks : Lapsing(u)
        BY <1>1, WayParts
    <2>4. "simulate" \in JobKind /\ "grace" \in JobKind /\ "expire" \in JobKind
        BY DEF JobKind
    <2>5. k \in {"expire", "grace"} => lapsed
        BY <2>1, <2>2, <2>3 DEF Due, WayRows
    <2>6. WayRows' /\ \A u \in Tasks : Lapsing(u)'
        BY <2>1, <2>2, <2>3, <2>4, <2>5 DEF WayRows, Lapsing
    <2>7. ASSUME Quiet
          PROVE  Settling' /\ \A u \in Tasks : WayBy(u)'
        <3>1. /\ Settling /\ \A u \in Tasks : WayBy(u)
              /\ (OnItsWay' <=> OnItsWay) /\ (Grace' => Grace)
            BY <1>1, <2>1, <2>2, <2>4, <2>7, WayParts DEF OnItsWay, Grace
        <3>2. Driven /\ ~ (jobs["simulate"] > 0) =>
                  \E u \in Callers : /\ lock = u
                                     /\ \E c \in left[u] :
                                           Drives(c) /\ \A d \in left[u] : Rank(c) <= Rank(d)
            BY <2>1 DEF Driven
        <3>3. OnItsWay => Driven'
            <4>1. OnItsWay => Driven
                BY <3>1 DEF Settling
            <4>2. CASE k = "simulate"
                BY <2>1, <4>2 DEF Driven
            <4>3. CASE k # "simulate"
                <5>1. jobs'["simulate"] = jobs["simulate"]
                    BY <2>2, <2>4, <4>3
                <5> QED
                    BY <2>1, <3>2, <4>1, <5>1 DEF Driven
            <4> QED
                BY <4>2, <4>3
        <3>4. k = "grace" => ~ OnItsWay
            <4> SUFFICES ASSUME k = "grace", OnItsWay
                         PROVE  FALSE
                OBVIOUS
            <4>1. ~ (jobs["simulate"] > 0)
                <5>1. past.deaths = 0 /\ jobs["simulate"] \in Nat
                    BY <1>1, <2>4, <2>7, TypedNow DEF Quiet
                <5> QED
                    BY <2>1, <5>1 DEF Due
            <4>2. Grace
                BY <2>2 DEF Grace
            <4>3. PICK u \in Callers : \E c \in left[u] : Drives(c)
                BY <3>1, <3>2, <4>1 DEF Settling
            <4>4. Calm(u)
                BY <3>1, <4>2, Actors DEF WayBy
            <4> QED
                BY <4>3, <4>4 DEF Calm, Drives
        <3>5. Settling'
            BY <2>1, <3>1, <3>3, <3>4 DEF Settling
        <3>6. ASSUME NEW u \in Tasks
              PROVE  WayBy(u)'
            <4>1. \A c \in left[u] : c.op # "close"
                BY <2>1, <3>1 DEF WayBy, Waits
            <4>2. \A c \in left[u] : Waits(u, c)'
                BY <2>1, <3>1, <4>1 DEF WayBy, Waits
            <4> QED
                BY <2>1, <3>1, <4>2 DEF WayBy, Calm
        <3> QED
            BY <3>5, <3>6
    <2>8. Quiet' => Quiet
        BY <2>1 DEF Quiet
    <2> QED
        BY <2>6, <2>7, <2>8, WayParts
<1>19. ASSUME GoHandle
      PROVE  Way'
    <2>1. /\ left[Poll] = {} /\ ~ running.begun /\ running.kind # "none"
          /\ running'.kind = running.kind /\ running'.begun
          /\ UNCHANGED <<payment, jobs, lapsed, past>>
        <3>1. running \in RunningRow
            BY <1>1, TypedNow
        <3> QED
            BY <3>1, <1>19 DEF GoHandle, Begins, rows, RunningRow
    <2>2. \/ /\ running.kind = "simulate" /\ Leaves(Poll, Outcome)
             /\ seen' = payment.status /\ lock' = lock
          \/ /\ running.kind # "simulate" /\ Leaves(Poll, Begun(Closing))
             /\ seen' = "none" /\ lock = None /\ lock' = Poll
        BY <1>19 DEF GoHandle, Begins, LockFree
    <2>3. WayRows /\ \A u \in Tasks : Lapsing(u)
        BY <1>1, WayParts
    <2>4. running.kind # "simulate" => running.kind \in {"expire", "grace"} /\ lapsed
        <3>1. running.kind \in JobKind
            BY <1>1, <2>1, TypedNow DEF RunningRow
        <3> QED
            BY <2>3, <3>1 DEF WayRows, JobKind
    <2>5. WayRows'
        BY <2>1, <2>2, <2>3 DEF WayRows
    <2>6. \A d \in Outcome : ~ Lapses(d)
        BY FirstSteps DEF Lapses
    <2>7. \A u \in Tasks : Lapsing(u)'
        <3>1. ASSUME NEW u \in Tasks
              PROVE  Lapsing(u)'
            <4>1. CASE u # Poll
                <5>1. left'[u] = left[u]
                    BY <2>2, <4>1 DEF Leaves
                <5> QED
                    BY <2>1, <2>3, <5>1 DEF Lapsing
            <4>2. CASE u = Poll /\ running.kind = "simulate"
                <5>1. left'[Poll] = Outcome
                    BY <2>2, <4>2 DEF Leaves
                <5> QED
                    BY <2>6, <4>2, <5>1 DEF Lapsing
            <4>3. CASE u = Poll /\ running.kind # "simulate"
                BY <2>1, <2>4, <4>3 DEF Lapsing
            <4> QED
                BY <4>1, <4>2, <4>3
        <3> QED
            BY <3>1
    <2>8. ASSUME Quiet
          PROVE  Settling' /\ \A u \in Tasks : WayBy(u)'
        <3>1. Settling /\ (OnItsWay' <=> OnItsWay) /\ (Grace' <=> Grace)
            BY <1>1, <2>1, <2>8, WayParts DEF OnItsWay, Grace
        <3>2. \A u \in Callers : left'[u] = left[u]
            BY <1>1, <2>2 DEF Leaves
        <3>3. OnItsWay => Driven'
            <4> SUFFICES ASSUME OnItsWay
                         PROVE  Driven'
                OBVIOUS
            <4>1. Driven
                BY <3>1 DEF Settling
            <4>2. CASE running.kind = "simulate"
                <5>1. left'[Poll] = Outcome /\ seen' = "processing"
                    BY <2>2, <4>2 DEF Leaves, OnItsWay
                <5>2. \E d \in Outcome : d.op = "hop" /\ d.to = "successful"
                    BY FirstSteps
                <5> QED
                    BY <2>1, <4>2, <5>1, <5>2 DEF Driven
            <4>3. CASE running.kind # "simulate"
                <5>1. lock = None /\ \A u \in Callers : lock # u
                    BY <1>1, <2>2, <4>3
                <5>2. jobs["simulate"] > 0
                    BY <4>1, <4>3, <5>1 DEF Driven
                <5> QED
                    BY <2>1, <5>2 DEF Driven
            <4> QED
                BY <4>2, <4>3
        <3>4. Settling'
            BY <2>1, <3>1, <3>3 DEF Settling
        <3>5. \A u \in Tasks : u # Poll => WayBy(u)'
            BY <1>1, <2>1, <2>2, <2>8, <3>1, OthersWait
        <3>6. WayBy(Poll)'
            <4>1. Poll \notin Callers
                BY TasksAssumption
            <4>2. CASE running.kind = "simulate"
                <5>1. left'[Poll] = Outcome
                    BY <2>2, <4>2 DEF Leaves
                <5>2. \A d \in Outcome : Waits(Poll, d)'
                    BY <5>1, FirstSteps DEF Waits
                <5> QED
                    BY <4>1, <5>1, <5>2 DEF WayBy
            <4>3. CASE running.kind # "simulate"
                <5>1. left'[Poll] = Begun(Closing)
                    BY <2>2, <4>3 DEF Leaves
                <5>2. /\ Closing.op = "close" /\ Closing.to = running.kind
                      /\ \A d \in Begun(Closing) : d.op = "adopt" \/ d = Closing
                    BY FirstSteps
                <5>3. \A d \in Begun(Closing) : Waits(Poll, d)'
                    BY <2>1, <5>2 DEF Waits
                <5> QED
                    BY <4>1, <5>1, <5>3 DEF WayBy
            <4> QED
                BY <4>2, <4>3
        <3> QED
            BY <3>4, <3>5, <3>6
    <2>9. Quiet' => Quiet
        BY <2>1 DEF Quiet
    <2> QED
        BY <2>5, <2>7, <2>8, <2>9, WayParts
<1>20. ASSUME GoFinish
      PROVE  Way'
    BY <1>1, <1>20, WaySame DEF GoFinish, Same, rows, NoJob
<1>21. ASSUME GoLapse
      PROVE  Way'
    BY <1>1, <1>21, WaySame DEF GoLapse, Same, rows
<1>22. ASSUME GoDie
      PROVE  Way'
    <2>1. ~ Quiet'
        <3>1. past \in PastRow /\ \A n \in 0..MaxDeaths : n + 1 # 0
            BY <1>1, TypedNow, CheckoutBounds
        <3> QED
            BY <3>1, <1>22 DEF GoDie, PastRow, Quiet
    <2>2. /\ left' = [u \in Tasks |-> {}] /\ seen' = "none" /\ running'.kind = "none"
          /\ lapsed' = lapsed
        BY <1>22 DEF GoDie, NoJob
    <2>3. jobs'["grace"] > 0 => lapsed
        <3>1. jobs'["grace"] = jobs["grace"]
                  + IF running.kind = "grace" /\ ~ running.cancelled THEN 1 ELSE 0
            BY <1>22 DEF GoDie, JobKind
        <3>2. jobs["grace"] \in Nat
            BY <1>1, TypedNow DEF JobKind
        <3>3. jobs["grace"] > 0 \/ running.kind = "grace" => lapsed
            BY <1>1 DEF Way
        <3> QED
            BY <3>1, <3>2, <3>3
    <2>4. WayRows' /\ \A u \in Tasks : Lapsing(u)'
        BY <2>2, <2>3 DEF WayRows, Lapsing
    <2> QED
        BY <2>1, <2>4, WayParts
<1>23. ASSUME GoStutter
      PROVE  Way'
    BY <1>1, <1>23, WaySame DEF GoStutter, Same, rows
<1> QED
    BY <1>2, <1>3, <1>4, <1>5, <1>6, <1>7, <1>8, <1>9, <1>10, <1>11, <1>12, <1>13, <1>14,
       <1>15, <1>16, <1>17, <1>18, <1>19, <1>20, <1>21, <1>22, <1>23 DEF GoNext, Gone

-----------------------------------------------------------------------------
(***************************************************************************)
(* Before the session is stored nothing is left to do, and nothing is      *)
(* made, told or moved: the invariant holds.                               *)
(***************************************************************************)
LEMMA InitNone ==
    ASSUME Init
    PROVE  /\ Programs /\ seen = "none" /\ \A t \in Tasks : left[t] = {}
<1>1. Idle \in TaskRow
    <2>1. <<>> \in Seq(StepRow)
        OBVIOUS
    <2> QED
        BY <2>1 DEF TaskRow, Idle
<1>2. Ranked(Idle.todo) /\ Steps(Idle.todo) = {}
    BY PlanNone DEF Plan, Idle
<1>3. Idle.seen = "none"
    BY DEF Idle
<1> HIDE DEF Idle
<1>4. Poll \in Tasks
    BY DEF Tasks
<1>5. task = [t \in Tasks |-> Idle]
    BY DEF Init
<1> QED
    BY <1>1, <1>2, <1>3, <1>4, <1>5 DEF Programs, left, seen

\* The initial states satisfy the invariant.
LEMMA InitHolds ==
    ASSUME Init
    PROVE  IInv
<1>1. /\ Programs /\ seen = "none" /\ \A t \in Tasks : left[t] = {}
    BY InitNone
<1>2. Poll \in Tasks /\ None \notin Tasks /\ \A u \in Callers : u \in Tasks
    BY Actors
<1>3. /\ session.status = "none" /\ ~ session.token /\ ~ session.linked /\ session.amount = "some"
      /\ payment.status = "none" /\ payment.word = "" /\ payment.method = "card"
      /\ made.subs = 0 /\ made.invoices = 0 /\ ~ made.linked /\ made.fulfilment = "none"
      /\ running.kind = "none" /\ ~ running.begun
      /\ jobs["simulate"] = 0 /\ jobs["grace"] = 0
      /\ lock = None /\ filling = None /\ variance = 0 /\ told = {}
      /\ past.tools = 0 /\ past.deaths = 0
    BY DEF Init, NoJob, JobKind
<1>31. ~ lapsed /\ lapsed \in BOOLEAN
    BY Zenon DEF Init
<1>32. ~ (jobs["simulate"] > 0) /\ ~ (jobs["grace"] > 0) /\ made.subs <= 1 /\ made.invoices <= 1
    <2>1. jobs["simulate"] = 0 /\ jobs["grace"] = 0 /\ made.subs = 0 /\ made.invoices = 0
        BY Zenon, <1>3
    <2> QED
        BY <2>1
<1>4. Typed
    <2>1. TypeOK
        <3>1. session \in SessionRow /\ payment \in PaymentRow /\ made \in MadeRow
            BY DEF Init, SessionRow, PaymentRow, MadeRow, Method
        <3>2. jobs \in [JobKind -> Nat] /\ mode \in Modes
            BY DEF Init
        <3>3. past.deaths \in 0..MaxDeaths /\ past.tools \in 0..MaxTools
            <4>1. past.deaths = 0 /\ past.tools = 0 /\ MaxDeaths \in Nat /\ MaxTools \in Nat
                BY <1>3, CheckoutBounds
            <4>2. 0 \in 0..MaxDeaths /\ 0 \in 0..MaxTools
                BY <4>1
            <4> QED
                BY <4>1, <4>2
        <3> QED
            BY <1>2, <1>3, <3>1, <3>2, <3>3 DEF TypeOK, SessionRow, PaymentRow, MadeRow
    <2>2. RunningOK
        BY DEF Init, NoJob, RunningOK
    <2>3. PastOK
        BY DEF Init, PastOK
    <2> QED
        BY <1>31, <2>1, <2>2, <2>3 DEF Typed
<1>5. Shaped /\ Named
    BY <1>1 DEF Shaped, Named
<1>6. Locked
    BY <1>1, <1>2, <1>3 DEF Locked
<1>7. Sold
    <2>1. \A t \in Tasks : \A c \in left[t] : Stored(t, c) /\ Paid(t, c)
        BY <1>1
    <2> QED
        BY <1>3, <1>31, <1>32, <2>1 DEF Sold
<1>8. Told
    BY <1>3 DEF Told
<1>9. Filled
    <2>1. \A t \in Tasks : ~ Filling(t) /\ \A c \in left[t] : FALSE
        BY <1>1 DEF Filling
    <2>2. Whole
        BY <1>3 DEF Whole
    <2>3. \A t \in Tasks : filling # t
        BY <1>2, <1>3
    <2> HIDE DEF Filling, Whole
    <2> QED
        BY <1>3, <1>32, <2>1, <2>2, <2>3 DEF Filled
<1>10. Earned
    <2>1. \A t \in Tasks : ~ Fulfils(t)
        BY <1>1 DEF Fulfils
    <2>2. /\ ~ made.linked /\ made.fulfilment = "none"
          /\ \A t \in Tasks : \A c \in left[t] : FALSE
        BY <1>1, <1>3
    <2> HIDE DEF Fulfils
    <2> QED
        BY <2>1, <2>2 DEF Earned
<1>11. Varied
    BY <1>1, <1>2, <1>3 DEF Varied, Varies, Owing, Has, Over
<1>12. Way
    <2>1. ~ OnItsWay
        BY <1>3 DEF OnItsWay
    <2>2. running.kind \notin {"expire", "grace"} /\ seen # "successful"
        BY <1>1, <1>3
    <2>3. \A t \in Tasks : \A c \in left[t] : FALSE
        BY <1>1
    <2> HIDE DEF OnItsWay
    <2> QED
        BY <1>32, <2>1, <2>2, <2>3 DEF Way
<1> QED
    BY <1>1, <1>4, <1>5, <1>6, <1>7, <1>8, <1>9, <1>10, <1>11, <1>12 DEF IInv

(***************************************************************************)
(* Every step of the system keeps the invariant.                           *)
(***************************************************************************)
LEMMA InvKept ==
    ASSUME IInv, [Next]_vars
    PROVE  IInv'
<1>1. GoNext
    BY NextGoes DEF IInv
<1>2. Programs' /\ Shaped' /\ Named' /\ Typed'
    BY <1>1, ShapeKept, ProgramsKept, TypedKept
<1>3. Locked' /\ Sold' /\ Told'
    BY <1>1, LockedKept, SoldKept, ToldKept
<1>4. Filled' /\ Earned' /\ Varied' /\ Way'
    BY <1>1, FilledKept, EarnedKept, VariedKept, WayKept
<1> QED
    BY <1>2, <1>3, <1>4 DEF IInv

(***************************************************************************)
(* Checkout's inductive invariant holds in every behaviour of every        *)
(* number of callers, tools and deaths.                                    *)
(***************************************************************************)
THEOREM CheckoutInvariant == Spec => []IInv
<1>1. Init => IInv
    BY InitHolds
<1>2. IInv /\ [Next]_vars => IInv'
    BY InvKept
<1> QED
    BY <1>1, <1>2, PTL DEF Spec

(***************************************************************************)
(* OneEnding: nobody is told that a session completed and that it expired, *)
(* except where the page takes a late transfer, and no session expires     *)
(* beside a subscription that lives on.                                    *)
(***************************************************************************)
THEOREM OneEndingHolds == Spec => []OneEnding
<1>1. IInv => OneEnding
    <2> SUFFICES ASSUME IInv
                 PROVE  OneEnding
        OBVIOUS
    <2>1. TypeOK /\ Told /\ Earned
        BY DEF IInv, Typed
    <2>2. payment.status = "none" => ~ ("completed" \in told /\ "expired" \in told)
        BY <2>1 DEF Told
    <2>3. payment.status # "none" /\ "completed" \in told /\ "expired" \in told =>
              payment.status = "successful" /\ payment.method = "bank_transfer"
        BY <2>1 DEF Told
    <2>4. made.linked => "expired" \notin told
        BY <2>1 DEF Earned
    <2> QED
        BY <2>1, <2>2, <2>3, <2>4 DEF OneEnding
<1> QED
    BY <1>1, CheckoutInvariant, PTL

(***************************************************************************)
(* FulfilledWhole: however often the completion work is begun again, over  *)
(* deaths at any step, it makes one subscription and one first invoice,    *)
(* and what is on record as made is whole.                                 *)
(***************************************************************************)
THEOREM FulfilledWholeHolds == Spec => []FulfilledWhole
<1>1. IInv => FulfilledWhole
    <2> SUFFICES ASSUME IInv
                 PROVE  FulfilledWhole
        OBVIOUS
    <2>1. Whole /\ made.subs <= 1 /\ made.invoices <= 1
        BY DEF IInv, Filled
    <2> QED
        BY <2>1 DEF Whole, FulfilledWhole
<1> QED
    BY <1>1, CheckoutInvariant, PTL

(***************************************************************************)
(* VarianceOnce: while the process lives, and no handler is between the    *)
(* move and the difference, the difference of what arrived was moved once. *)
(***************************************************************************)
THEOREM VarianceOnceHolds == Spec => []VarianceOnce
<1>1. IInv => VarianceOnce
    <2> SUFFICES ASSUME IInv, past.deaths = 0, lock = None
                 PROVE  variance = IF payment.word \in {"overpaid", "accepted"} THEN 1 ELSE 0
        BY DEF VarianceOnce
    <2>1. Locked /\ Varied
        BY DEF IInv
    <2>2. \A t \in Tasks : ~ Owing(t)
        BY <2>1, Actors DEF Locked, Unlocked, Fill, Owing, Has
    <2> QED
        BY <2>1, <2>2 DEF Varied, Over
<1> QED
    BY <1>1, CheckoutInvariant, PTL

(***************************************************************************)
(* OnItsWaySettles: the closing job does not expire a payment that the     *)
(* sandbox is about to settle, unless a tool moved it or the process died. *)
(***************************************************************************)
THEOREM OnItsWaySettlesHolds == Spec => OnItsWaySettles
<1> DEFINE Settled == payment.status = "processing" /\ payment.word # "underpaid"
                        /\ payment'.status = "expired" => past.deaths > 0 \/ past.tools > 0
<1>1. IInv /\ [Next]_vars => Settled
    <2> SUFFICES ASSUME IInv, [Next]_vars, payment.status = "processing",
                        payment.word # "underpaid", payment'.status = "expired",
                        ~ (past.deaths > 0), ~ (past.tools > 0)
                 PROVE  FALSE
        OBVIOUS
    <2>1. /\ Typed /\ Programs /\ Way /\ GoNext /\ payment \in PaymentRow
        BY NextGoes, TypedNow DEF IInv
    <2>2. Quiet /\ OnItsWay
        <3>1. past \in PastRow /\ \A n \in Nat : 0..n \subseteq Nat
            BY <2>1, TypedNow
        <3>2. past.tools \in Nat /\ past.deaths \in Nat
            BY <3>1, CheckoutBounds DEF PastRow
        <3> QED
            BY <3>2 DEF Quiet, OnItsWay
    <2>3. \E t \in Tasks : \E c : First(t, c) /\ (GoCreate(t, c) \/ GoName(t, c) \/ GoMove(t, c))
        <3>1. payment' # payment
            BY <2>1 DEF PaymentRow
        <3>2. \A t \in Callers : ~ GoSession(t) /\ ~ GoAct(t) /\ ~ GoTool(t)
            BY <3>1 DEF GoSession, GoAct, GoTool, rows
        <3>3. /\ \A k \in JobKind : ~ GoClaim(k)
              /\ ~ GoHandle /\ ~ GoFinish /\ ~ GoLapse /\ ~ GoDie /\ ~ GoStutter
            BY <3>1 DEF GoClaim, GoHandle, GoFinish, GoLapse, GoDie, GoStutter, rows
        <3>4. PICK t \in Tasks : \E c : First(t, c) /\ Gone(t, c)
            BY <2>1, <3>2, <3>3 DEF GoNext
        <3>5. PICK c : First(t, c) /\ Gone(t, c)
            BY <3>4
        <3>6. ~ (GoAdopt(t, c) \/ GoDecide(t, c) \/ GoWrite(t, c) \/ GoEnd(t, c) \/ GoEnqueue(t, c))
            BY <3>1 DEF GoAdopt, GoDecide, GoWrite, GoEnd, GoEnqueue, rows
        <3>7. ~ (GoCancel(t, c) \/ GoPublish(t, c) \/ GoVary(t, c) \/ GoFulfil(t, c)
                 \/ GoComplete(t, c))
            BY <3>1 DEF GoCancel, GoPublish, GoVary, GoFulfil, GoComplete, rows
        <3> QED
            BY <3>5, <3>6, <3>7 DEF Gone
    <2> PICK t \in Tasks : \E c : First(t, c) /\ (GoCreate(t, c) \/ GoName(t, c) \/ GoMove(t, c))
        BY <2>3
    <2>31. PICK c : First(t, c) /\ (GoCreate(t, c) \/ GoName(t, c) \/ GoMove(t, c))
        OBVIOUS
    <2>4. c \in left[t] /\ c \in StepRow
        BY <2>31 DEF First
    <2>5. ~ GoCreate(t, c)
        BY <2>1 DEF GoCreate
    <2>6. ~ GoName(t, c)
        <3> SUFFICES ASSUME GoName(t, c)
                     PROVE  FALSE
            OBVIOUS
        <3>1. PICK d : /\ d.to \in Resumes
                       /\ \/ payment' = [status |-> d.to, word |-> "", method |-> c.to]
                          \/ UNCHANGED payment
            BY DEF GoName
        <3>2. payment'.status \in Resumes \/ payment' = payment
            <4>1. CASE payment' = [status |-> d.to, word |-> "", method |-> c.to]
                <5>1. payment'.status = d.to
                    BY <4>1
                <5> QED
                    BY <3>1, <5>1
            <4> QED
                BY <3>1, <4>1
        <3> QED
            BY <3>2 DEF Resumes
    <2>7. c.op = "to" /\ c.to = "expired"
        <3>1. /\ c.op \in {"to", "hop"}
              /\ payment' = [payment EXCEPT !.status = c.to, !.word = c.word] \/ UNCHANGED payment
            BY <2>31, <2>5, <2>6 DEF GoMove
        <3>2. payment' = [payment EXCEPT !.status = c.to, !.word = c.word]
            BY <3>1
        <3>3. c.to = "expired"
            BY <2>1, <3>2 DEF PaymentRow
        <3> QED
            BY <2>4, <3>1, <3>3 DEF StepRow
    <2> QED
        BY <2>1, <2>2, <2>4, <2>7, WayParts DEF WayBy, Waits
<1>2. OnItsWaySettles <=> [][Settled]_vars
    BY DEF OnItsWaySettles
<1> QED
    BY <1>1, CheckoutInvariant, PTL DEF Spec, OnItsWaySettles

=============================================================================
