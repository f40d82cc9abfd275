------------------------------ MODULE Checkout ------------------------------
(***************************************************************************)
(* A Bachs checkout session: the hosted page's requests, the sandbox's     *)
(* one-second finalisation, the job that closes the session when its time  *)
(* is up, and the completion work (a card saved, a subscription started)   *)
(* that the payment's success event, a page without a charge or the        *)
(* closing job may do.  The page and the closing job hold the session's    *)
(* lock; the finalisation and the control API do not.  Locks, events and   *)
(* handlers are in memory and go with the process, rows and jobs do not.   *)
(***************************************************************************)
EXTENDS StateMachines, Sequences

CONSTANTS
    Modes,      \* what the session sells: "payment", "save", "subscription", ...
    Callers,    \* requests: payers' tabs and the control API
    Poll,       \* the scheduler's task
    None,
    MaxTools,   \* bound: times the control API moves the payment
    MaxDeaths   \* bound: times the process dies

Mode == {"payment", "save", "subscription", "trial", "setup"}
Method == {"card", "mobile_money", "bank_transfer", "crypto"}
JobKind == {"expire", "grace", "simulate"}

ASSUME ModesAssumption == Modes \subseteq Mode
ASSUME TasksAssumption == Poll \notin Callers /\ None \notin Callers \cup {Poll}
ASSUME CheckoutBounds == MaxDeaths \in Nat /\ MaxTools \in Nat

Tasks == Callers \cup {Poll}

VARIABLES
    mode,
    session,   \* the stored checkout
    payment,   \* the payment whose reference is the checkout's id
    made,      \* what the completion work has made, in the order it makes it
    jobs,      \* how many jobs of each kind are queued
    running,   \* the job the scheduler has in hand
    task,      \* what each handler has left to do, and what it has read
    lock,      \* who holds the session's lock
    filling,   \* who holds its completion lock
    lapsed,    \* whether expires_at has passed
    variance,  \* how often the difference of what arrived was moved
    told,      \* history: the endings that have an event
    past       \* history: how often a tool moved the payment, and deaths

rows == <<mode, session, payment, made, variance, told>>
vars == <<rows, jobs, running, task, lock, filling, lapsed, past>>

NoJob == [kind |-> "none", begun |-> FALSE, cancelled |-> FALSE]
Idle == [todo |-> <<>>, seen |-> "none"]
Free(t) == task[t].todo = <<>>

TypeOK ==
    /\ mode \in Modes
    /\ session \in [status : {"none", "open", "completed", "expired"},
                    token : BOOLEAN, customer : BOOLEAN,
                    amount : {"unset", "zero", "some"},
                    indexed : BOOLEAN, linked : BOOLEAN]
    /\ payment \in [status : PaymentStatus \cup {"none"},
                    word : {"", "underpaid", "overpaid", "accepted"},
                    method : Method]
    /\ made \in [record : Nat, card : BOOLEAN, stored : BOOLEAN, subs : Nat,
                 linked : BOOLEAN, renewals : Nat, invoices : Nat,
                 settled : BOOLEAN, fulfilment : {"none", "empty", "made"}]
    /\ jobs \in [JobKind -> Nat]
    /\ lock \in Tasks \cup {None} /\ filling \in Tasks \cup {None}
    /\ variance \in Nat /\ told \subseteq {"completed", "expired"}
    /\ past.deaths \in 0..MaxDeaths /\ past.tools \in 0..MaxTools

Init ==
    /\ mode \in Modes
    /\ session = [status |-> "none", token |-> FALSE, customer |-> FALSE,
                  amount |-> "some", indexed |-> FALSE, linked |-> FALSE]
    /\ payment = [status |-> "none", word |-> "", method |-> "card"]
    /\ made = [record |-> 0, card |-> FALSE, stored |-> FALSE, subs |-> 0,
               linked |-> FALSE, renewals |-> 0, invoices |-> 0,
               settled |-> FALSE, fulfilment |-> "none"]
    /\ jobs = [k \in JobKind |-> 0]
    /\ running = NoJob
    /\ task = [t \in Tasks |-> Idle]
    /\ lock = None
    /\ filling = None
    /\ lapsed = FALSE
    /\ variance = 0
    /\ told = {}
    /\ past = [tools |-> 0, deaths |-> 0]

-----------------------------------------------------------------------------
\* The steps a handler is made of, each a statement or a transaction
Step(op)      == <<[op |-> op, to |-> "any", word |-> "", by |-> "any"]>>
Job(kind)     == <<[op |-> "enqueue", to |-> kind, word |-> "", by |-> "any"]>>
Priced(size)  == <<[op |-> "amount", to |-> size, word |-> "", by |-> "any"]>>
Move(s, word, by) == <<[op |-> "to", to |-> s, word |-> word, by |-> by]>>
To(s)         == Move(s, "", "any")

Current(t) == Head(task[t].todo)
At(t, op) == ~ Free(t) /\ Current(t).op = op

\* What a handler does next; a lock is given back by the one that is done.
Goes(t, rest) ==
    /\ task' = [task EXCEPT ![t] = IF rest = <<>> THEN Idle ELSE [@ EXCEPT !.todo = rest]]
    /\ lock' = IF rest = <<>> /\ lock = t THEN None ELSE lock
Next_(t) == Goes(t, Tail(task[t].todo))
Stops(t) == Goes(t, <<>>)

\* chargeless, and what the completion work is for
Chargeless == mode \in {"setup", "trial"}
Subscribes == mode \in {"subscription", "trial"}
Keeps == mode \in {"subscription", "save"}

\* sessionStatus: the payment's status decides once there is one.
sessionStatus ==
    IF ~ session.linked THEN session.status
    ELSE CASE payment.status \in {"successful", "refunded", "partially_refunded"} -> "completed"
           [] payment.status \in {"expired", "cancelled"} -> payment.status
           [] OTHER -> "open"

assertOpen == sessionStatus = "open" /\ ~ lapsed

-----------------------------------------------------------------------------
\* What a request on the page does, decided under the lock from the rows as
\* they are; an empty program is a refusal.
identify == IF assertOpen THEN Step("customer") ELSE <<>>

\* An amount is taken whether one is set or not.
chooseAmount(size) ==
    IF assertOpen /\ ~ session.linked THEN Priced(size) ELSE <<>>

\* An amount not yet chosen counts as zero.
completeFree ==
    IF /\ assertOpen /\ ~ Chargeless
       /\ session.amount # "some" /\ ~ session.linked /\ session.customer
    THEN Step("completed") ELSE <<>>

\* saveWithoutCharge: the completion work first, then the session
saveWithoutCharge(refused) ==
    IF refused THEN <<>> ELSE Step("fulfil") \o Step("completed")

attempt(method, refused) ==
    LET first == IF payment.status = "failed" THEN "retry" ELSE "any"
        to(s) == <<[op |-> "to", to |-> s, word |-> "", by |-> first]>>
        put   == <<[op |-> "method", to |-> method, word |-> "", by |-> "any"]>>
    IN  CASE method = "card" /\ refused -> put \o to("processing") \o To("failed")
          [] method = "card" /\ ~ refused -> put \o to("processing") \o Job("simulate")
          [] method = "mobile_money" -> put \o to("requires_action")
          [] OTHER -> put \o to("pending")

pay(method, refused) ==
    IF ~ assertOpen \/ ~ session.customer THEN <<>>
    ELSE IF Chargeless THEN saveWithoutCharge(refused)
    ELSE IF session.amount # "some" THEN <<>>
    ELSE IF ~ session.linked
         THEN Step("create") \o Step("index") \o Step("link") \o attempt(method, refused)
    ELSE IF payment.status \in {"failed", "created"} THEN attempt(method, refused)
    ELSE <<>>

\* Mutant: the difference is moved before the payment is
acceptFirst == Step("variance") \o Move("successful", "accepted", "any")

\* The underpayment is accepted as it is.
accept == Move("successful", "accepted", "any") \o Step("variance")

testControl(action) ==
    LET m == payment.method
        s == payment.status
    IN  IF ~ session.linked THEN <<>>
        ELSE IF action = "late_transfer"
        THEN IF m = "bank_transfer" /\ s = "expired"
             THEN Move("successful", "", "reversal") ELSE <<>>
        ELSE IF ~ assertOpen THEN <<>>
        ELSE CASE action = "succeed" /\ s \in {"requires_action", "pending"} ->
                    To("processing") \o Job("simulate")
               [] action = "fail" /\ s \in {"pending", "requires_action", "processing"} ->
                    To("failed")
               [] action = "short" /\ m \in {"bank_transfer", "crypto"} /\ s = "pending" ->
                    Move("processing", "underpaid", "any")
               [] action = "overpaid" /\ m = "crypto" /\ s = "pending" ->
                    To("processing") \o Move("successful", "overpaid", "any")
                        \o Step("variance")
               [] action = "send_rest" /\ payment.word = "underpaid" -> To("successful")
               [] action = "accept" /\ payment.word = "underpaid" -> accept
               [] OTHER -> <<>>

\* A session without a payment whose completion work got far enough
Live == \/ made.fulfilment = "made"
        \/ Subscribes /\ made.linked

\* Mutant: money on its way is stopped by the clock
OnItsWayNever == FALSE

OnItsWay == payment.status = "processing" /\ payment.word # "underpaid"

\* Mutant: the success event is trusted to arrive
UnfulfilledNever == FALSE

\* Paid, and what it paid for was not delivered: the event was lost.
Unfulfilled == payment.status = "successful" /\ Keeps /\ made.fulfilment = "none"

\* The closing job
expire(grace) ==
    IF ~ session.linked
    THEN IF session.status # "open" THEN <<>>
         ELSE IF Live THEN Step("completed") ELSE Step("expired")
    ELSE IF Unfulfilled THEN Step("fulfil")
    ELSE IF OnItsWay /\ ~ grace THEN Job("grace")
    ELSE IF payment.status \in {"created", "pending", "processing",
                                "requires_action", "authorized"} THEN To("expired")
    ELSE IF payment.status = "failed" THEN Move("expired", "", "reversal")
    ELSE <<>>

\* What a request or a job that entered the lock asks for
Decide(c) ==
    CASE c.op = "identify" -> identify
      [] c.op = "choose" -> chooseAmount(c.to)
      [] c.op = "free" -> completeFree
      [] c.op = "pay" -> pay(c.to, c.by = "refused")
      [] c.op = "control" -> testControl(c.to)
      [] c.op = "close" -> expire(c.to = "grace")

Asked(op, to, by) == [op |-> op, to |-> to, word |-> "", by |-> by]

Asks ==
    {Asked("identify", "any", "any"), Asked("free", "any", "any")}
    \cup {Asked("choose", size, "any") : size \in {"zero", "some"}}
    \cup {Asked("pay", m, by) :
             m \in (IF mode \in {"payment", "save"} THEN Method ELSE {"card"}),
             by \in {"any", "refused"}}
    \cup {Asked("control", a, "any") :
             a \in {"late_transfer", "succeed", "fail", "short", "overpaid",
                    "send_rest", "accept"}}

-----------------------------------------------------------------------------
\* Mutant: nobody waits for the lock
LockUnheld == TRUE

\* withLock(checkout)
LockFree == lock = None

\* POST /v1/checkout-sessions: the closing job is queued before the session
\* is stored, and the page can be opened once its token is.
CreateSession(t) ==
    /\ Free(t) /\ LockFree
    /\ session.status = "none" /\ jobs["expire"] = 0 /\ running.kind = "none"
    /\ ~ lapsed
    /\ lock' = t
    /\ task' = [task EXCEPT ![t] = [Idle EXCEPT !.todo =
                  Job("expire") \o Step("store") \o Step("token")]]
    /\ UNCHANGED <<rows, jobs, running, filling, lapsed, past>>

\* A form is posted; the session is read under its lock, and adopts a payment
\* made for it that it does not know of.
act(t) ==
    /\ Free(t) /\ LockFree
    /\ session.token
    /\ \E c \in Asks :
          /\ task' = [task EXCEPT ![t] = [Idle EXCEPT !.todo = Step("adopt") \o <<c>>]]
          /\ lock' = t
    /\ UNCHANGED <<rows, jobs, running, filling, lapsed, past>>

orphan == ~ session.linked /\ payment.status # "none"

adoptOrphanPayment(t) ==
    /\ At(t, "adopt")
    /\ Goes(t, (IF orphan THEN Step("index") \o Step("link") ELSE <<>>)
               \o Tail(task[t].todo))
    /\ UNCHANGED <<rows, jobs, running, filling, lapsed, past>>

Decides(t) ==
    /\ ~ Free(t) /\ Current(t).op \in {"identify", "choose", "free", "pay", "control", "close"}
    /\ Goes(t, Decide(Current(t)))
    /\ UNCHANGED <<rows, jobs, running, filling, lapsed, past>>

\* The session's record is written, always by who holds its lock.
WriteSession(t) ==
    LET c == Current(t)
    IN  /\ ~ Free(t)
        /\ \/ /\ c.op = "store"
              /\ \E amount \in (IF mode = "payment" THEN {"unset", "zero", "some"}
                                ELSE IF mode = "save" THEN {"unset", "some"} ELSE {"some"}),
                    known \in (IF mode \in {"payment", "save"} THEN BOOLEAN ELSE {TRUE}) :
                    session' = [session EXCEPT !.status = "open", !.amount = amount,
                                               !.customer = known]
           \/ c.op = "token" /\ session' = [session EXCEPT !.token = TRUE]
           \/ c.op = "customer" /\ session' = [session EXCEPT !.customer = TRUE]
           \/ c.op = "amount" /\ session' = [session EXCEPT !.amount = c.to]
           \/ c.op = "index" /\ session' = [session EXCEPT !.indexed = TRUE]
           \/ c.op = "link" /\ session' = [session EXCEPT !.linked = TRUE]
        /\ Next_(t)
        /\ UNCHANGED <<mode, payment, made, variance, told, jobs, running, filling, lapsed, past>>

\* recordEvent: the session and the event of its ending in one transaction,
\* and, for a subscription that is started, the record of the completion work
EndSession(t) ==
    LET c == Current(t)
    IN  /\ ~ Free(t) /\ c.op \in {"completed", "expired"}
        /\ session' = [session EXCEPT !.status = c.op]
        /\ told' = told \cup {c.op}
        /\ made' = IF c.op = "completed" /\ Subscribes /\ made.linked
                         /\ made.fulfilment = "none"
                   THEN [made EXCEPT !.fulfilment = "made"] ELSE made
        /\ Next_(t)
        /\ UNCHANGED <<mode, payment, variance, jobs, running, filling, lapsed, past>>

enqueue(t) ==
    /\ At(t, "enqueue")
    /\ jobs' = [jobs EXCEPT ![Current(t).to] = @ + 1]
    /\ Next_(t)
    /\ UNCHANGED <<rows, running, filling, lapsed, past>>

-----------------------------------------------------------------------------
\* createPayment, under the checkout's id: a second one is refused.
createPayment(t) ==
    /\ At(t, "create")
    /\ IF payment.status # "none" THEN Stops(t) /\ UNCHANGED payment
       ELSE payment' = [payment EXCEPT !.status = "created"] /\ Next_(t)
    /\ UNCHANGED <<mode, session, made, variance, told, jobs, running, filling, lapsed, past>>

\* The method an attempt names goes on the payment with its first transition.
NameMethod(t) ==
    LET c == Current(t)
        d == task[t].todo[2]
    IN  /\ At(t, "method")
        /\ IF assertPaymentTransition(payment.status, d.to, FALSE, d.by = "retry")
           THEN /\ payment' = [status |-> d.to, word |-> "", method |-> c.to]
                /\ Goes(t, SubSeq(task[t].todo, 3, Len(task[t].todo)))
           ELSE Stops(t) /\ UNCHANGED payment
        /\ UNCHANGED <<mode, session, made, variance, told, jobs, running, filling, lapsed, past>>

Ending(s) ==
    CASE s = "successful" -> {"completed"} [] s = "expired" -> {"expired"} [] OTHER -> {}

\* transitionPayment: the row and its event; then the payment's jobs are
\* cancelled and the event is published.
transitionPayment(t) ==
    LET c == Current(t)
    IN  /\ ~ Free(t) /\ c.op \in {"to", "hop"}
        /\ IF c.op = "hop" /\ task[t].seen = c.to
           THEN Next_(t) /\ UNCHANGED <<payment, told>>
           ELSE IF assertPaymentTransition(payment.status, c.to, c.by = "reversal", c.by = "retry")
           THEN /\ payment' = [payment EXCEPT !.status = c.to, !.word = c.word]
                /\ told' = told \cup Ending(c.to)
                /\ Goes(t, (IF c.to \in TerminalPayment \cup {"successful"}
                            THEN Step("cancelGroup") \o Step("publish") ELSE <<>>)
                           \o Tail(task[t].todo))
           ELSE Stops(t) /\ UNCHANGED <<payment, told>>
        /\ UNCHANGED <<mode, session, made, variance, jobs, running, filling, lapsed, past>>

cancelGroup(t) ==
    /\ At(t, "cancelGroup")
    /\ jobs' = [jobs EXCEPT !["simulate"] = 0]
    /\ running' = [running EXCEPT !.cancelled = @ \/ running.kind = "simulate"]
    /\ Next_(t)
    /\ UNCHANGED <<rows, filling, lapsed, past>>

\* onPaymentSuccessful, which runs inside whoever published
onPaymentSuccessful(t) ==
    /\ At(t, "publish")
    /\ Goes(t, (IF payment.status = "successful" /\ session.indexed /\ Keeps
                THEN Step("fulfil") ELSE <<>>) \o Tail(task[t].todo))
    /\ UNCHANGED <<rows, jobs, running, filling, lapsed, past>>

\* moveVariance: what arrived differs from what was asked
moveVariance(t) ==
    /\ At(t, "variance")
    /\ variance' = variance + 1
    /\ Next_(t)
    /\ UNCHANGED <<mode, session, payment, made, told, jobs, running, filling, lapsed, past>>

-----------------------------------------------------------------------------
\* Mutant: the completion work takes the session's own lock
FillFreeOfSession(t) == filling = None /\ lock = None

\* The completion lock is a key of its own, because the page that publishes
\* the success already holds the session's.
FillFree(t) == filling = None

\* Mutant: a subscription that is linked has been scheduled
renewalOnce == IF made.linked THEN <<>> ELSE Step("renewal")

\* A renewal is scheduled every time; a second job finds its date superseded.
renewal == Step("renewal")

subscribe == IF made.subs = 0 THEN Step("subscribe") ELSE <<>>

\* #startSubscription: each step looks for what an earlier attempt made.
startSubscription ==
    (IF made.stored THEN <<>> ELSE Step("storeSubscription"))
    \o subscribe
    \o (IF made.linked THEN <<>> ELSE Step("linkSubscription"))
    \o renewal
    \o IF payment.status = "none" \/ made.settled THEN <<>>
       ELSE (IF made.invoices > 0 THEN <<>> ELSE Step("invoice")) \o Step("settle")

saveCard == IF made.card THEN <<>> ELSE Step("cardRecord") \o Step("card")

Done == made.fulfilment # "none"

\* fulfilCheckout: only a card can be kept.
fulfilCheckout(t) ==
    /\ At(t, "fulfil")
    /\ FillFree(t)
    /\ IF Done THEN Next_(t) /\ UNCHANGED filling
       ELSE /\ filling' = t
            /\ Goes(t, (IF payment.status # "none" /\ payment.method # "card"
                        THEN Step("empty")
                        ELSE saveCard
                             \o (IF Subscribes THEN startSubscription ELSE <<>>)
                             \o Step("fulfilled"))
                       \o Tail(task[t].todo))
    /\ UNCHANGED <<rows, jobs, running, lapsed, past>>

Complete(t) ==
    LET c == Current(t)
    IN  /\ ~ Free(t)
        /\ \/ c.op = "cardRecord" /\ made' = [made EXCEPT !.record = @ + 1]
           \/ c.op = "card" /\ made' = [made EXCEPT !.card = TRUE]
           \/ c.op = "storeSubscription" /\ made' = [made EXCEPT !.stored = TRUE]
           \/ c.op = "subscribe" /\ made' = [made EXCEPT !.subs = @ + 1]
           \/ c.op = "linkSubscription" /\ made' = [made EXCEPT !.linked = TRUE]
           \/ c.op = "renewal" /\ made' = [made EXCEPT !.renewals = @ + 1]
           \/ c.op = "invoice" /\ made' = [made EXCEPT !.invoices = @ + 1]
           \/ c.op = "settle" /\ made' = [made EXCEPT !.settled = TRUE]
           \/ c.op = "empty" /\ made' = [made EXCEPT !.fulfilment = "empty"]
           \/ c.op = "fulfilled" /\ made' = [made EXCEPT !.fulfilment = "made"]
        /\ filling' = IF c.op \in {"empty", "fulfilled"} THEN None ELSE filling
        /\ Next_(t)
        /\ UNCHANGED <<mode, session, payment, variance, told, jobs, running, lapsed, past>>

-----------------------------------------------------------------------------
\* The control API moves the payment, whoever holds the session's lock.
ToolMove(t) ==
    /\ Free(t) /\ payment.status # "none"
    /\ past.tools < MaxTools
    /\ past' = [past EXCEPT !.tools = @ + 1]
    /\ \E path \in {Move(s, "", "any") : s \in {"failed", "cancelled", "authorized"}}
                   \cup {Move("processing", "", "any") \o To("successful")} :
          task' = [task EXCEPT ![t] = [Idle EXCEPT !.todo = path]]
    /\ UNCHANGED <<rows, jobs, running, lock, filling, lapsed>>

Lapse ==
    /\ session.status # "none" /\ ~ lapsed
    /\ lapsed' = TRUE
    /\ UNCHANGED <<rows, jobs, running, task, lock, filling, past>>

\* Jobs run in the order of their instants: the grace of a minute ends after
\* the second a payment takes, unless a lease of a dead process is in between.
Due(k) ==
    /\ jobs[k] > 0
    /\ CASE k = "simulate" -> TRUE
         [] k = "expire" -> lapsed
         [] k = "grace" -> jobs["simulate"] = 0 \/ past.deaths > 0

Claim(k) ==
    /\ Free(Poll) /\ running.kind = "none"
    /\ Due(k)
    /\ jobs' = [jobs EXCEPT ![k] = @ - 1]
    /\ running' = [kind |-> k, begun |-> FALSE, cancelled |-> FALSE]
    /\ UNCHANGED <<rows, task, lock, filling, lapsed, past>>

\* The handler of a claimed job starts: apply for the payment's outcome, and
\* the closing job under the session's lock.
Hops == <<[op |-> "hop", to |-> "processing", word |-> "", by |-> "any"],
          [op |-> "hop", to |-> "successful", word |-> "", by |-> "any"]>>

Handle ==
    /\ Free(Poll) /\ running.kind # "none" /\ ~ running.begun
    /\ task' = [task EXCEPT ![Poll] =
          IF running.kind = "simulate"
          THEN [Idle EXCEPT !.todo = Hops , !.seen = payment.status]
          ELSE [Idle EXCEPT !.todo = Step("adopt") \o <<Asked("close", running.kind, "any")>>]]
    /\ IF running.kind = "simulate" THEN UNCHANGED lock
       ELSE LockFree /\ lock' = Poll
    /\ running' = [running EXCEPT !.begun = TRUE]
    /\ UNCHANGED <<rows, jobs, filling, lapsed, past>>

\* The job is completed, or it failed: it has one attempt.
Finish ==
    /\ Free(Poll) /\ running.begun
    /\ running' = NoJob
    /\ UNCHANGED <<rows, jobs, task, lock, filling, lapsed, past>>

\* The process dies: handlers, locks and events are gone; the job in hand is
\* ready again when its lease runs out.
Die ==
    /\ past.deaths < MaxDeaths
    /\ past' = [past EXCEPT !.deaths = @ + 1]
    /\ task' = [t \in Tasks |-> Idle]
    /\ lock' = None /\ filling' = None
    /\ jobs' = [k \in JobKind |->
                  jobs[k] + IF running.kind = k /\ ~ running.cancelled THEN 1 ELSE 0]
    /\ running' = NoJob
    /\ UNCHANGED <<rows, lapsed>>

HandlerStep(t) ==
    \/ adoptOrphanPayment(t) \/ Decides(t) \/ WriteSession(t) \/ EndSession(t)
    \/ enqueue(t) \/ createPayment(t) \/ NameMethod(t) \/ transitionPayment(t)
    \/ cancelGroup(t) \/ onPaymentSuccessful(t) \/ moveVariance(t)
    \/ fulfilCheckout(t) \/ Complete(t)

PollStep == (\E k \in JobKind : Claim(k)) \/ Handle \/ Finish

Next ==
    \/ \E t \in Callers : CreateSession(t) \/ act(t) \/ ToolMove(t)
    \/ \E t \in Tasks : HandlerStep(t)
    \/ PollStep \/ Lapse \/ Die

\* The process keeps running what it started and takes the jobs that are due;
\* a lock is given in the order it was asked for; time passes.
Fairness ==
    /\ \A t \in Tasks : WF_vars(HandlerStep(t))
    /\ SF_vars(PollStep) /\ WF_vars(Lapse)

Spec == Init /\ [][Next]_vars /\ Fairness

-----------------------------------------------------------------------------
\* A session is not both completed and expired for those who are told of it
\* (locks.ts: "one sends checkout.expired, the other writes the session back
\* to open"), except by a late transfer, which the page makes on purpose; and
\* none is expired beside a subscription that lives on.  Rows keep their types.
OneEnding ==
    /\ TypeOK
    /\ "completed" \in told /\ "expired" \in told =>
         payment.status = "successful" /\ payment.method = "bank_transfer"
    /\ made.linked => "expired" \notin told

\* However often a completion is begun again, by the event, by the page or by
\* the closing job, it starts one subscription and raises one first invoice,
\* and a completion on record is whole: the card can be charged, the subscription
\* is linked and will renew, and the charge has paid its first invoice.  The
\* exception is a trial whose process died after the link: the closing job
\* writes the record itself and schedules no renewal.
FulfilledWhole ==
    /\ made.subs <= 1 /\ made.invoices <= 1
    /\ made.fulfilment = "made" =>
         /\ made.card
         /\ Subscribes => made.linked
         /\ Subscribes => \/ made.renewals > 0
                          \/ mode = "trial" /\ past.deaths > 0
         /\ mode = "subscription" => made.settled

\* The difference of an over- or underpayment is moved once, if the process
\* did not die between accepting it and moving it.
VarianceOnce ==
    past.deaths = 0 /\ lock = None =>
        variance = IF payment.word \in {"overpaid", "accepted"} THEN 1 ELSE 0

\* "A payment that was already on its way can still complete": the closing
\* job does not expire what the sandbox is about to settle.
OnItsWaySettles ==
    [][payment.status = "processing" /\ payment.word # "underpaid"
         /\ payment'.status = "expired" => past.deaths > 0 \/ past.tools > 0]_vars

\* When its time is up a session closes, and its payment with it, over a
\* death at any step; a tool that moves the payment under the closing job
\* makes that job fail, and it has one attempt.
SessionCloses ==
    session.status = "open"
        ~> \/ sessionStatus # "open" /\ payment.status \notin
                {"created", "pending", "processing", "requires_action", "authorized"}
           \/ past.tools > 0

\* What was paid for by card is delivered, over a death at any step.
PaidIsFulfilled ==
    Keeps /\ payment.status = "successful" /\ payment.method = "card"
        ~> \/ made.fulfilment = "made"
           \/ past.tools > 0 /\ past.deaths > 0
=============================================================================
