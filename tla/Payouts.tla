------------------------------- MODULE Payouts -------------------------------
(***************************************************************************)
(* Money out of one Bachs balance: payouts by request and by schedule,     *)
(* quotes, conversions, and the jobs that follow.  A payout or conversion  *)
(* is several writes under the treasury lock; a scheduled run is more,     *)
(* around a payout and outside that lock.  A crash ends every request and  *)
(* the run; a job that was running is claimed again.                       *)
(*                                                                         *)
(* Left out: fees, minimums, expiry of quotes, schedules that pay in       *)
(* another currency, and sweeps (module Treasury).  Jobs run one at a      *)
(* time, and the job of a payout only once its request has ended.          *)
(***************************************************************************)
EXTENDS Integers, FiniteSets, Sequences, Sums

CONSTANTS
    Requests,    \* payout and conversion requests, each made once
    Asks,        \* what a request may ask: [kind, ref, quote, amount]
    Quotes, NoQuote,
    Price,       \* what each collection leaves in the balance, oldest first
    AutoRefs,    \* bound: references scheduled runs draw
    Slots,       \* bound: schedule jobs in the table
    Opening,
    Intervals,   \* what POST /v1/balance_settings may set
    FirstInterval,
    MaxVersion, MaxFaults,   \* bounds: saves of the schedule, posts and crashes
    Limit,       \* failures in a row that disable a schedule
    Tools        \* whether paybox's tools and the merchant's settings act too

Collections == 1..Len(Price)
Least(S) == {s \in S : \A t \in S : s <= t}
AskedRefs == {a.ref : a \in {b \in Asks : b.kind = "payout"}}
Refs == AskedRefs \cup AutoRefs
Run  == 0
Callers == Requests \cup {Run}

ASSUME AsksAssumption ==
    \A a \in Asks : /\ a.kind \in {"payout", "conversion"}
                    /\ a.quote \in Quotes \cup {NoQuote}
                    /\ a.amount \in Nat
                    /\ a.kind = "conversion" => a.quote # NoQuote /\ a.ref = 0
ASSUME MoneyAssumption == Price \in Seq(Nat) /\ Opening \in Int /\ NoQuote \notin Quotes
ASSUME BoundAssumption ==
    MaxVersion \in Nat /\ MaxFaults \in Nat /\ 1 + MaxFaults <= MaxVersion
ASSUME RefsAssumption ==
    /\ AutoRefs \cap AskedRefs = {}
    /\ {0} \cap (Requests \cup Refs) = {}
    /\ Requests \cap Refs = {}

VARIABLES
    balance,
    settled,     \* collections settled
    approved,    \* whether the default destination is
    transfer,    \* payouts by reference
    indexed,     \* references the adapter has indexed
    usedBy,      \* what spent each quote
    conversion,  \* conversion records, by the request that made them
    exchanged,   \* conversions whose money moved
    claim,       \* the payout reference a collection is claimed for
    schedule,    \* [interval, version, failures]
    sjob,        \* schedule jobs
    ajob,        \* stages of each payout's advance jobs not completed
    call,        \* createPayout and executeConversion under way
    run,         \* the job the scheduler runs
    post,        \* a settings request that is saving a schedule
    wake,        \* in-memory handlers about to queue an instant run
    posts, crashes

money == <<balance, settled, approved, transfer, indexed, usedBy, conversion,
           exchanged>>
vars == <<money, claim, schedule, sjob, ajob, call, run, post, wake, posts, crashes>>

NoCall == [pc |-> "idle", kind |-> "payout", ref |-> 0, quote |-> NoQuote,
           amount |-> 0, of |-> {}]
NoRun  == [pc |-> "idle", slot |-> 0, taken |-> {}, ref |-> 0, error |-> FALSE,
           next |-> [interval |-> "manual", version |-> 0, failures |-> 0],
           stage |-> "none"]
NoJob  == [version |-> 0, status |-> "none"]
NoPost == [pc |-> "idle", interval |-> "manual", version |-> 0]

TransferRow == [status : {"none", "pending", "processing", "successful", "failed"},
                amount : Nat, quote : Quotes \cup {NoQuote}, of : SUBSET Collections]
CallRow == [pc : {"idle", "waiting", "enqueue", "create", "restore", "index", "record",
                  "exchange", "delete", "complete", "done", "failed"},
            kind : {"payout", "conversion"}, ref : Refs \cup {0},
            quote : Quotes \cup {NoQuote}, amount : Nat, of : SUBSET Collections]
Version == 0..MaxVersion
Settings == Intervals \cup {"manual", FirstInterval}
ScheduleRow == [interval : Settings, version : Version, failures : Nat]
RunRow == [pc : {"idle", "queue", "collect", "claim", "pay", "release", "reread",
                 "put", "cancel", "enqueue", "complete"},
           slot : Slots \cup {0}, taken : SUBSET Collections, ref : Refs \cup {0},
           error : BOOLEAN, next : ScheduleRow, stage : {"none", "processing", "settle"}]
PostRow == [pc : {"idle", "cancel", "enqueue"}, interval : Settings, version : Version]

TypeOK ==
    /\ balance \in Int
    /\ settled \subseteq Collections
    /\ approved \in BOOLEAN
    /\ transfer \in [Refs -> TransferRow]
    /\ indexed \subseteq Refs
    /\ usedBy \in [Quotes -> Refs \cup Requests \cup {0}]
    /\ conversion \in [Requests -> {"none", "pending", "completed"}]
    /\ exchanged \subseteq Requests
    /\ claim \in [Collections -> AutoRefs \cup {0}]
    /\ schedule \in ScheduleRow
    /\ sjob \in [Slots -> [version : Version, status : {"none", "ready", "running"}]]
    /\ ajob \in [Refs -> SUBSET {"processing", "settle"}]
    /\ call \in [Callers -> CallRow]
    /\ run \in RunRow
    /\ post \in PostRow
    /\ wake \in BOOLEAN
    /\ posts \in Nat /\ crashes \in Nat

Init ==
    /\ balance = Opening
    /\ settled = {}
    /\ approved = TRUE
    /\ transfer = [x \in Refs |-> [status |-> "none", amount |-> 0,
                                   quote |-> NoQuote, of |-> {}]]
    /\ indexed = {}
    /\ usedBy = [q \in Quotes |-> 0]
    /\ conversion = [r \in Requests |-> "none"]
    /\ exchanged = {}
    /\ claim = [c \in Collections |-> 0]
    /\ schedule = [interval |-> FirstInterval, version |-> 1, failures |-> 0]
    /\ sjob = [s \in Slots |-> IF s = 1 /\ FirstInterval = "daily"
                               THEN [version |-> 1, status |-> "ready"] ELSE NoJob]
    /\ ajob = [x \in Refs |-> {}]
    /\ call = [w \in Callers |-> NoCall]
    /\ run = NoRun
    /\ post = NoPost
    /\ wake = FALSE
    /\ posts = 0
    /\ crashes = 0

-----------------------------------------------------------------------------
(* createPayout and executeConversion, under the treasury lock *)

LockFree == \A w \in Callers : call[w].pc \in {"idle", "waiting", "done", "failed"}

At(w, pc) == call[w].pc = pc
Goto(w, pc) == call' = [call EXCEPT ![w].pc = pc]

\* POST /v1/payouts and /v1/conversions.  A reference is one request's at a
\* time, and refused once it is indexed.
Ask(r, a) ==
    /\ At(r, "idle")
    /\ \A s \in Requests : s < r => ~At(s, "idle")   \* requests are alike
    /\ a.kind = "payout" =>
         /\ a.ref \notin indexed
         /\ \A w \in Requests : call[w].ref = a.ref => call[w].pc \in {"done", "failed"}
    /\ call' = [call EXCEPT ![r] = [NoCall EXCEPT !.pc = "waiting", !.kind = a.kind,
                                    !.ref = a.ref, !.quote = a.quote, !.amount = a.amount]]
    /\ UNCHANGED <<money, claim, schedule, sjob, ajob, run, post, wake, posts, crashes>>

\* Mutant: the quote's record is looked up and its use is not.
usableQuoteSpent(q) == TRUE

usableQuote(q) == usedBy[q] = 0

\* The lock is taken and the checks made: no debt, and a usable quote, which
\* is spent before anything else.
Enter(w) ==
    LET c == call[w]
        refused == \/ c.kind = "payout" /\ balance < 0
                   \/ c.quote # NoQuote /\ ~usableQuote(c.quote)
    IN  /\ At(w, "waiting")
        /\ LockFree
        /\ IF refused THEN Goto(w, "failed")
           ELSE Goto(w, IF c.kind = "payout" THEN "enqueue" ELSE "record")
        /\ usedBy' = IF refused \/ c.quote = NoQuote THEN usedBy
                     ELSE [usedBy EXCEPT ![c.quote] = IF c.kind = "payout" THEN c.ref ELSE w]
        /\ UNCHANGED <<balance, settled, approved, transfer, indexed, conversion,
                       exchanged, claim, schedule, sjob, ajob, run, post, wake, posts, crashes>>

\* Then the job that will advance the payout, keyed by its reference.
enqueueAdvance(w) ==
    /\ At(w, "enqueue")
    /\ ajob' = [ajob EXCEPT ![call[w].ref] = @ \cup {"processing"}]
    /\ Goto(w, "create")
    /\ UNCHANGED <<money, claim, schedule, sjob, run, post, wake, posts, crashes>>

\* Then the core transfer, which the engine refuses without funds or when the
\* reference is taken.
createTransfer(w) ==
    LET c == call[w]
    IN  /\ At(w, "create")
        /\ IF transfer[c.ref].status = "none" /\ balance >= c.amount
           THEN /\ transfer' = [transfer EXCEPT ![c.ref] =
                     [status |-> "pending", amount |-> c.amount, quote |-> c.quote,
                      of |-> c.of]]
                /\ balance' = balance - c.amount
                /\ Goto(w, "index")
           ELSE /\ Goto(w, "restore")
                /\ UNCHANGED <<transfer, balance>>
        /\ UNCHANGED <<settled, approved, indexed, usedBy, conversion, exchanged,
                       claim, schedule, sjob, ajob, run, post, wake, posts, crashes>>

Restore(w) ==
    /\ At(w, "restore")
    /\ usedBy' = IF call[w].quote = NoQuote THEN usedBy
                 ELSE [usedBy EXCEPT ![call[w].quote] = 0]
    /\ Goto(w, "failed")
    /\ UNCHANGED <<balance, settled, approved, transfer, indexed, conversion,
                   exchanged, claim, schedule, sjob, ajob, run, post, wake, posts, crashes>>

Index(w) ==
    /\ At(w, "index")
    /\ indexed' = indexed \cup {call[w].ref}
    /\ Goto(w, "done")
    /\ UNCHANGED <<balance, settled, approved, transfer, usedBy, conversion,
                   exchanged, claim, schedule, sjob, ajob, run, post, wake, posts, crashes>>

\* A conversion: its record, the exchange, and the record completed; refused,
\* the record is deleted and the quote restored.
RecordConversion(r) ==
    /\ At(r, "record")
    /\ conversion' = [conversion EXCEPT ![r] = "pending"]
    /\ Goto(r, "exchange")
    /\ UNCHANGED <<balance, settled, approved, transfer, indexed, usedBy, exchanged,
                   claim, schedule, sjob, ajob, run, post, wake, posts, crashes>>

exchangeBalance(r) ==
    /\ At(r, "exchange")
    /\ IF balance >= call[r].amount
       THEN /\ exchanged' = exchanged \cup {r}
            /\ balance' = balance - call[r].amount
            /\ Goto(r, "complete")
       ELSE Goto(r, "delete") /\ UNCHANGED <<exchanged, balance>>
    /\ UNCHANGED <<settled, approved, transfer, indexed, usedBy, conversion, claim,
                   schedule, sjob, ajob, run, post, wake, posts, crashes>>

EndConversion(r) ==
    /\ \/ At(r, "complete") /\ Goto(r, "done")
          /\ conversion' = [conversion EXCEPT ![r] = "completed"]
       \/ At(r, "delete") /\ Goto(r, "restore")
          /\ conversion' = [conversion EXCEPT ![r] = "none"]
    /\ UNCHANGED <<balance, settled, approved, transfer, indexed, usedBy, exchanged,
                   claim, schedule, sjob, ajob, run, post, wake, posts, crashes>>

Calling(w) ==
    \/ Enter(w) \/ enqueueAdvance(w) \/ createTransfer(w)
    \/ Restore(w) \/ Index(w)
    \/ w \in Requests /\ (RecordConversion(w) \/ exchangeBalance(w) \/ EndConversion(w))

-----------------------------------------------------------------------------
(* handleAdvanceJob *)

Creating(x) == \E w \in Callers :
                 call[w].ref = x /\ call[w].pc \in {"enqueue", "create", "restore", "index"}

\* A payout that is not there, or was moved meanwhile, is left alone.
handleAdvanceJob(x, stage, outcome) ==
    LET t == transfer[x].status
        Ran(pc) == run' = [NoRun EXCEPT !.pc = pc, !.ref = x, !.stage = stage]
    IN  /\ run.pc = "idle"
        /\ stage \in ajob[x]
        /\ ~Creating(x)
        /\ CASE stage = "processing" /\ t = "pending" ->
                  /\ transfer' = [transfer EXCEPT ![x].status = "processing"]
                  /\ Ran("queue")
                  /\ UNCHANGED <<balance, wake>>
             [] stage = "settle" /\ t = "processing" ->
                  /\ transfer' = [transfer EXCEPT ![x].status = outcome]
                  /\ balance' = balance + IF outcome = "failed" THEN transfer[x].amount ELSE 0
                  /\ wake' = (wake \/ (outcome = "failed" /\ x \in AutoRefs))
                  /\ Ran("complete")
             [] OTHER -> Ran("complete") /\ UNCHANGED <<transfer, balance, wake>>
        /\ UNCHANGED <<settled, approved, indexed, usedBy, conversion, exchanged,
                       claim, schedule, sjob, ajob, call, post, posts, crashes>>

QueueSettle ==
    /\ run.pc = "queue"
    /\ ajob' = [ajob EXCEPT ![run.ref] = @ \cup {"settle"}]
    /\ run' = [run EXCEPT !.pc = "complete"]
    /\ UNCHANGED <<money, claim, schedule, sjob, call, post, wake, posts, crashes>>

\* The scheduler completes the job its handler returned from.
Complete ==
    /\ run.pc = "complete"
    /\ run' = NoRun
    /\ IF run.slot = 0
       THEN ajob' = [ajob EXCEPT ![run.ref] = @ \ {run.stage}] /\ UNCHANGED sjob
       ELSE sjob' = [sjob EXCEPT ![run.slot] = NoJob] /\ UNCHANGED ajob
    /\ UNCHANGED <<money, claim, schedule, call, post, wake, posts, crashes>>

-----------------------------------------------------------------------------
(* handleScheduleJob *)

Live(x) == transfer[x].status \notin {"none", "failed"}

\* Mutant: only a payout that has succeeded keeps its claims.
liveClaimsPaid == {c \in Collections : claim[c] # 0 /\ transfer[claim[c]].status = "successful"}

\* A claim on a payout that failed or was never created does not count.
liveClaims == {c \in Collections : claim[c] # 0 /\ Live(claim[c])}
Owed(S) == SumTo([c \in Collections |-> IF c \in S THEN Price[c] ELSE 0], Len(Price))
eligible == settled \ liveClaims

\* Oldest first, up to the first the balance does not cover.
Taken ==
    LET upto(n) == {c \in eligible : c <= n}
    IN  UNION {upto(n) : n \in {m \in Collections : Owed(upto(m)) <= balance}}

FreshRefs == {x \in AutoRefs : transfer[x].status = "none" /\ ajob[x] = {}
                               /\ \A c \in Collections : claim[c] # x}

StartRun(s) ==
    /\ run.pc = "idle"
    /\ sjob[s].status = "ready"
    /\ schedule.version < MaxVersion - (MaxFaults - posts - crashes)   \* bound
    /\ sjob' = [sjob EXCEPT ![s].status = "running"]
    /\ run' = [NoRun EXCEPT !.slot = s,
                 !.pc = IF schedule.version # sjob[s].version
                           \/ schedule.interval = "manual"
                        THEN "complete" ELSE "collect"]
    /\ UNCHANGED <<money, claim, schedule, ajob, call, post, wake, posts, crashes>>

\* What is eligible and covered, read at one instant.
Collect ==
    /\ run.pc = "collect"
    /\ \/ /\ eligible = {} \/ (approved /\ Taken = {})
          /\ run' = [run EXCEPT !.pc = "reread"]
       \/ /\ eligible # {} /\ ~approved
          /\ run' = [run EXCEPT !.pc = "reread", !.error = TRUE]
       \/ /\ Taken # {} /\ approved
          /\ \E ref \in Least(FreshRefs) :
               run' = [run EXCEPT !.pc = "claim", !.taken = Taken, !.ref = ref]
    /\ UNCHANGED <<money, claim, schedule, sjob, ajob, call, post, wake, posts, crashes>>

\* Each collection is claimed for the payout's reference, then it is created.
Claim ==
    LET free == {c \in run.taken : claim[c] # run.ref}
    IN  /\ run.pc = "claim"
        /\ IF free # {}
           THEN /\ \E c \in Least(free) : claim' = [claim EXCEPT ![c] = run.ref]
                /\ UNCHANGED <<run, call>>
           ELSE /\ call' = [call EXCEPT ![Run] =
                     [NoCall EXCEPT !.pc = "waiting", !.ref = run.ref,
                                    !.amount = Owed(run.taken), !.of = run.taken]]
                /\ run' = [run EXCEPT !.pc = "pay"]
                /\ UNCHANGED claim
        /\ UNCHANGED <<money, schedule, sjob, ajob, post, wake, posts, crashes>>

Paid ==
    /\ run.pc = "pay"
    /\ call[Run].pc \in {"done", "failed"}
    /\ run' = IF At(Run, "done") THEN [run EXCEPT !.pc = "reread"]
              ELSE [run EXCEPT !.pc = "release", !.error = TRUE]
    /\ call' = [call EXCEPT ![Run] = NoCall]
    /\ UNCHANGED <<money, claim, schedule, sjob, ajob, post, wake, posts, crashes>>

Release ==
    LET held == {c \in run.taken : claim[c] # 0}
    IN  /\ run.pc = "release"
        /\ IF held # {} THEN /\ \E c \in Least(held) : claim' = [claim EXCEPT ![c] = 0]
                             /\ UNCHANGED run
           ELSE run' = [run EXCEPT !.pc = "reread"] /\ UNCHANGED claim
        /\ UNCHANGED <<money, schedule, sjob, ajob, call, post, wake, posts, crashes>>

\* The schedule is read again, and what to save worked out from it.
Reread ==
    LET failures == IF run.error THEN schedule.failures + 1 ELSE 0
    IN  /\ run.pc = "reread"
        /\ run' = [run EXCEPT !.pc = "put", !.next =
             IF failures >= Limit
             THEN [schedule EXCEPT !.interval = "manual", !.failures = 0]
             ELSE [schedule EXCEPT !.failures = failures]]
        /\ UNCHANGED <<money, claim, schedule, sjob, ajob, call, post, wake, posts, crashes>>

-----------------------------------------------------------------------------
(* saveSchedule: put, cancel the group, queue the next run *)

Put(next) == schedule' = [next EXCEPT !.version = schedule.version + 1]

cancelGroup == sjob' = [s \in Slots |-> IF sjob[s].status = "ready" THEN NoJob ELSE sjob[s]]

Enqueued(version) ==
    \E s \in Least({k \in Slots : sjob[k].status = "none"}) :
        sjob' = [sjob EXCEPT ![s] = [version |-> version, status |-> "ready"]]

SaveRun ==
    /\ \/ /\ run.pc = "put"
          /\ Put(run.next)
          /\ run' = [run EXCEPT !.pc = "cancel", !.next.version = schedule.version + 1]
          /\ UNCHANGED sjob
       \/ /\ run.pc = "cancel"
          /\ cancelGroup
          /\ run' = [run EXCEPT !.pc = IF run.next.interval = "daily"
                                       THEN "enqueue" ELSE "complete"]
          /\ UNCHANGED schedule
       \/ /\ run.pc = "enqueue"
          /\ Enqueued(run.next.version)
          /\ run' = [run EXCEPT !.pc = "complete"]
          /\ UNCHANGED schedule
    /\ UNCHANGED <<money, claim, ajob, call, post, wake, posts, crashes>>

\* POST /v1/balance_settings saves the same way, and clears the failures.
PostSettings(interval) ==
    /\ post.pc = "idle" /\ posts + crashes < MaxFaults
    /\ posts' = posts + 1
    /\ Put([interval |-> interval, version |-> 0, failures |-> 0])
    /\ post' = [pc |-> "cancel", interval |-> interval, version |-> schedule.version + 1]
    /\ UNCHANGED <<money, claim, sjob, ajob, call, run, wake, crashes>>

SavePost ==
    /\ \/ /\ post.pc = "cancel"
          /\ cancelGroup
          /\ post' = IF post.interval = "manual" THEN NoPost
                     ELSE [post EXCEPT !.pc = "enqueue"]
          /\ UNCHANGED wake
       \/ /\ post.pc = "enqueue" /\ post.interval = "daily"
          /\ Enqueued(post.version)
          /\ post' = NoPost
          /\ UNCHANGED wake
       \/ /\ post.pc = "enqueue" /\ post.interval = "instant"
          /\ wake' = TRUE
          /\ post' = NoPost
          /\ UNCHANGED sjob
    /\ UNCHANGED <<money, claim, schedule, ajob, call, run, posts, crashes>>

\* queueInstant: nothing when a run of the group is queued already.
QueueInstant ==
    /\ wake
    /\ wake' = FALSE
    /\ IF schedule.interval = "instant" /\ \A s \in Slots : sjob[s].status # "ready"
       THEN Enqueued(schedule.version)
       ELSE UNCHANGED sjob
    /\ UNCHANGED <<money, claim, schedule, ajob, call, run, post, posts, crashes>>

-----------------------------------------------------------------------------
(* What happens around them *)

\* A collection settles, and its event wakes an instant schedule.
Settle(c) ==
    /\ c \notin settled
    /\ \A b \in 1..(c-1) : b \in settled
    /\ settled' = settled \cup {c}
    /\ balance' = balance + Price[c]
    /\ wake' = TRUE
    /\ UNCHANGED <<approved, transfer, indexed, usedBy, conversion, exchanged, claim,
                   schedule, sjob, ajob, call, run, post, posts, crashes>>

\* A destination deleted, or registered again.
ChangeDestination ==
    /\ Tools
    /\ approved' = ~approved
    /\ UNCHANGED <<balance, settled, transfer, indexed, usedBy, conversion, exchanged,
                   claim, schedule, sjob, ajob, call, run, post, wake, posts, crashes>>

\* paybox's tools fail a payout that is under way (bound: a scheduled one; one
\* that was asked for fails by its stages just as well).
ToolFail(x) ==
    /\ Tools
    /\ transfer[x].status \in {"pending", "processing"}
    /\ transfer' = [transfer EXCEPT ![x].status = "failed"]
    /\ balance' = balance + transfer[x].amount
    /\ wake' = (wake \/ x \in AutoRefs)
    /\ UNCHANGED <<settled, approved, indexed, usedBy, conversion, exchanged, claim,
                   schedule, sjob, ajob, call, run, post, posts, crashes>>

\* The process dies; jobs that were running are claimed again.
Crash ==
    /\ posts + crashes < MaxFaults
    /\ crashes' = crashes + 1
    /\ call' = [w \in Callers |-> IF w = Run THEN NoCall
                                  ELSE IF call[w].pc = "idle" THEN call[w]
                                  ELSE [NoCall EXCEPT !.pc = "failed"]]
    /\ run' = NoRun
    /\ post' = NoPost
    /\ wake' = FALSE
    /\ sjob' = [s \in Slots |-> IF sjob[s].status = "running"
                                THEN [sjob[s] EXCEPT !.status = "ready"] ELSE sjob[s]]
    /\ UNCHANGED <<money, claim, schedule, ajob, posts>>

-----------------------------------------------------------------------------
Running == QueueSettle \/ Complete \/ Collect \/ Claim \/ Paid \/ Release
             \/ Reread \/ SaveRun
Advancing(x, stage) ==
    \E outcome \in {"successful", "failed"} : handleAdvanceJob(x, stage, outcome)
Starting == \/ \E x \in Refs, stage \in {"processing", "settle"} : Advancing(x, stage)
            \/ \E s \in Slots : StartRun(s)

Next ==
    \/ \E r \in Requests, a \in Asks : Ask(r, a)
    \/ \E w \in Callers : Calling(w)
    \/ Starting \/ Running \/ SavePost \/ QueueInstant
    \/ \E i \in Intervals : PostSettings(i)
    \/ \E c \in Collections : Settle(c)
    \/ ChangeDestination
    \/ \E x \in AutoRefs : ToolFail(x)
    \/ Crash

\* Requests and handlers run to their end; the scheduler serves every job that
\* stays due.
Fairness ==
    /\ \A w \in Callers : WF_vars(Calling(w))
    /\ WF_vars(Running) /\ WF_vars(SavePost) /\ WF_vars(QueueInstant)
    /\ \A x \in Refs, stage \in {"processing", "settle"} : SF_vars(Advancing(x, stage))
    /\ \A s \in Slots : SF_vars(StartRun(s))

Spec == Init /\ [][Next]_vars /\ Fairness

-----------------------------------------------------------------------------
(* Properties *)

\* A collection goes out in one live payout at most, whatever runs overlap
\* crashes, failures and changes of the schedule, and that payout, which is
\* for what they are owed, still holds them.  Rows keep their types.
CollectionPaidOnce ==
    /\ TypeOK
    /\ \A c \in Collections :
         Cardinality({x \in AutoRefs : Live(x) /\ c \in transfer[x].of}) <= 1
    /\ \A x \in AutoRefs : Live(x) =>
         /\ \A c \in transfer[x].of : claim[c] = x
         /\ transfer[x].amount = Owed(transfer[x].of)

\* Money moved on a quote once, and never on one that can still be used or
\* without a record of the conversion.
QuoteMovesMoneyOnce ==
    /\ \A q \in Quotes :
         LET paid == {x \in Refs : transfer[x].status # "none" /\ transfer[x].quote = q}
             converted == {r \in exchanged : call[r].quote = q \/ usedBy[q] = r}
         IN  /\ Cardinality(paid) + Cardinality(converted) <= 1
             /\ usedBy[q] = 0 => paid \cup converted = {}
    /\ \A r \in exchanged : conversion[r] # "none" /\ \E q \in Quotes : usedBy[q] = r
=============================================================================
