---------------------------- MODULE PayoutsProofs ----------------------------
(***************************************************************************)
(* Proofs about Payouts, for any requests, quotes, collections, schedules  *)
(* and bounds: a collection is paid out once, and a quote moves money      *)
(* once.                                                                   *)
(***************************************************************************)
EXTENDS Payouts, FiniteSetTheorems, WellFoundedInduction, TLAPS

-----------------------------------------------------------------------------
(***************************************************************************)
(* The column sum, for every number of rows.  The library's induction      *)
(* theorems take an operator parameter, which no installed prover          *)
(* instantiates; the induction is done by hand instead, on the least       *)
(* counterexample of a set of naturals.                                    *)
(***************************************************************************)

(***************************************************************************)
(* A non-empty set of naturals has a least member.                         *)
(***************************************************************************)
LEMMA LeastNatural ==
    ASSUME NEW T \in SUBSET Nat, T # {}
    PROVE  \E m \in T : \A k \in T : m <= k
<1> DEFINE R == {ss \in Nat \X Nat : ss[1] < ss[2]}
<1>1. IsWellFoundedOn(R, Nat)
    BY NatLessThanWellFounded, Zenon DEF OpToRel
<1> HIDE DEF R
<1>2. PICK m \in T : \A k \in T : ~ (<<k, m>> \in R)
    BY <1>1, WFMin, Zenon
<1>3. \A k \in T : ~ (k < m)
    BY <1>2 DEF R
<1>4. QED
    BY <1>3

\* The partial sums of f up to row n.
PartialSums(f, n, g) ==
    /\ g \in [0..n -> Nat]
    /\ g[0] = 0
    /\ \A i \in 1..n : g[i] = g[i-1] + f[i]

(***************************************************************************)
(* The partial sums of any column exist: SumTo is well defined.            *)
(***************************************************************************)
LEMMA PartialSumsExist ==
    ASSUME NEW n \in Nat, NEW f \in [1..n -> Nat]
    PROVE  \E g : PartialSums(f, n, g)
<1> DEFINE Bad == {k \in Nat : k <= n /\ ~ \E g : PartialSums(f, k, g)}
<1>1. SUFFICES ASSUME Bad # {}
               PROVE  FALSE
    <2>1. n \in Bad \/ \E g : PartialSums(f, n, g)
        OBVIOUS
    <2>2. QED
        BY <2>1
<1>2. PICK m \in Bad : \A k \in Bad : m <= k
    BY <1>1, LeastNatural
<1>3. m # 0
    <2>1. PartialSums(f, 0, [i \in 0..0 |-> 0])
        BY DEF PartialSums
    <2>2. QED
        BY <2>1
<1>4. m - 1 \in Nat /\ m - 1 <= n /\ m - 1 \notin Bad
    BY <1>2, <1>3
<1>5. PICK g : PartialSums(f, m - 1, g)
    BY <1>4
<1> DEFINE h == [i \in 0..m |-> IF i = m THEN g[m-1] + f[m] ELSE g[i]]
<1>6. PartialSums(f, m, h)
    <2>1. m \in Nat /\ m > 0 /\ m <= n
        BY <1>2, <1>3
    <2>2. /\ g \in [0..(m-1) -> Nat]
          /\ g[0] = 0
          /\ \A i \in 1..(m-1) : g[i] = g[i-1] + f[i]
        BY <1>5 DEF PartialSums
    <2>3. f[m] \in Nat /\ g[m-1] \in Nat
        BY <2>1, <2>2
    <2>4. h \in [0..m -> Nat]
        BY <2>1, <2>2, <2>3
    <2>5. h[0] = 0
        BY <2>1, <2>2
    <2>6. ASSUME NEW i \in 1..m
          PROVE  h[i] = h[i-1] + f[i]
        <3>1. CASE i = m
            <4>1. h[m] = g[m-1] + f[m] /\ h[m-1] = g[m-1]
                BY <2>1
            <4>2. QED
                BY <3>1, <4>1
        <3>2. CASE i # m
            <4>1. i \in 1..(m-1) /\ h[i] = g[i] /\ h[i-1] = g[i-1]
                BY <2>1, <3>2
            <4>2. QED
                BY <2>2, <4>1
        <3>3. QED
            BY <3>1, <3>2
    <2>7. QED
        BY <2>4, <2>5, <2>6 DEF PartialSums
<1>7. QED
    BY <1>2, <1>6

(***************************************************************************)
(* SumTo(f, n) is the last of the partial sums.                            *)
(***************************************************************************)
LEMMA SumToPartialSums ==
    ASSUME NEW n \in Nat, NEW f \in [1..n -> Nat]
    PROVE  \E g : PartialSums(f, n, g) /\ SumTo(f, n) = g[n]
<1> DEFINE Eq(g) == g = [i \in 0..n |-> IF i = 0 THEN 0 ELSE g[i-1] + f[i]]
<1>1. PICK g0 : PartialSums(f, n, g0)
    BY PartialSumsExist
<1>2. Eq(g0)
    BY <1>1 DEF PartialSums
<1> DEFINE s == CHOOSE g : Eq(g)
<1>3. Eq(s)
    BY <1>2
<1>4. SumTo(f, n) = s[n]
    BY DEF SumTo
<1> HIDE DEF s
<1>5. \A i \in 0..n : s[i] \in Nat
    <2> DEFINE Bad == {k \in Nat : k <= n /\ s[k] \notin Nat}
    <2>1. SUFFICES ASSUME Bad # {}
                   PROVE  FALSE
        OBVIOUS
    <2>2. PICK m \in Bad : \A k \in Bad : m <= k
        BY <2>1, LeastNatural
    <2>3. CASE m = 0
        BY <1>3, <2>2, <2>3
    <2>4. CASE m # 0
        <3>1. m - 1 \in 0..n /\ s[m-1] \in Nat
            BY <2>2, <2>4
        <3>2. s[m] = s[m-1] + f[m]
            BY <1>3, <2>2, <2>4
        <3>3. QED
            BY <2>2, <2>4, <3>1, <3>2
    <2>5. QED
        BY <2>3, <2>4
<1>6. PartialSums(f, n, s)
    BY <1>3, <1>5 DEF PartialSums
<1>7. QED
    BY <1>4, <1>6

(***************************************************************************)
(* The sum of a column of naturals is a natural.                           *)
(***************************************************************************)
LEMMA SumToNat ==
    ASSUME NEW n \in Nat, NEW f \in [1..n -> Nat]
    PROVE  SumTo(f, n) \in Nat
<1>1. PICK g : PartialSums(f, n, g) /\ SumTo(f, n) = g[n]
    BY SumToPartialSums
<1>2. QED
    BY <1>1 DEF PartialSums

-----------------------------------------------------------------------------
(***************************************************************************)
(* The inductive invariant                                                 *)
(***************************************************************************)

\* Callers that hold the treasury lock.
Busy == {"enqueue", "create", "restore", "index", "record", "exchange", "delete",
         "complete"}

\* The stages of a run that will still save the schedule.
Saving == {"collect", "claim", "pay", "release", "reread", "put"}

\* The bound on saves leaves room for those to come.
Room ==
    /\ posts + crashes <= MaxFaults
    /\ schedule.version + (MaxFaults - posts - crashes)
         + (IF run.pc \in Saving THEN 1 ELSE 0) <= MaxVersion

\* The treasury lock: one caller at most is between its writes.
LockHeld == \A w, u \in Callers : call[w].pc \in Busy /\ call[u].pc \in Busy => w = u

\* What a caller is doing: the scheduled run's payout is the run's alone, and a
\* request pays under a reference that was asked for.
CallInv ==
    /\ call[Run].kind = "payout" /\ call[Run].quote = NoQuote
    /\ run.pc # "pay" => call[Run] = NoCall
    /\ \A w \in Callers : call[w].pc \in {"enqueue", "create", "index"} =>
         call[w].kind = "payout"
    /\ \A w \in Callers : call[w].pc \in {"record", "exchange", "delete", "complete"} =>
         call[w].kind = "conversion"
    /\ \A w \in Callers : call[w].kind = "conversion" => call[w].quote \in Quotes
    /\ \A r \in Requests : call[r].kind = "payout" /\ call[r].pc \notin {"idle", "failed"} =>
         call[r].ref \in AskedRefs

\* No live payout holds c.
Free(c) == \A x \in AutoRefs : Live(x) => claim[c] # x

\* A run claims collections no live payout holds, for a reference that has no
\* payout, holds them all when it pays, and gives them back only when it could
\* not pay.
RunInv ==
    /\ run.pc \in {"claim", "pay", "release"} => run.ref \in AutoRefs
    /\ run.pc \in {"claim", "release"} => transfer[run.ref].status = "none"
    /\ run.pc = "claim" => \A c \in run.taken : Free(c)
    /\ run.pc = "release" => \A c \in run.taken : claim[c] \in {0, run.ref}
    /\ run.pc = "pay" =>
         /\ call[Run].ref = run.ref
         /\ call[Run].of = run.taken
         /\ call[Run].amount = Owed(run.taken)
         /\ call[Run].pc # "idle"
         /\ \A c \in run.taken : claim[c] = run.ref
         /\ call[Run].pc \in {"waiting", "enqueue", "create", "restore", "failed"} =>
              transfer[run.ref].status = "none"

\* A scheduled payout that lives holds its collections and pays what they are owed.
Held ==
    \A x \in AutoRefs : Live(x) => /\ \A c \in transfer[x].of : claim[c] = x
                                   /\ transfer[x].amount = Owed(transfer[x].of)

User(w) == IF call[w].kind = "payout" THEN call[w].ref ELSE w

\* Where a caller has spent its quote and moved nothing on it yet.
Using == {"enqueue", "create", "restore", "record", "exchange", "delete"}

\* Nothing was paid or converted on k.
Unmoved(k) ==
    /\ \A x \in Refs : transfer[x].status # "none" => transfer[x].quote # k
    /\ usedBy[k] \notin exchanged

\* A quote that moved money names what it moved; the caller about to use one
\* has spent it, and nothing moved on it yet.
QuoteInv ==
    /\ \A x \in Refs : transfer[x].status # "none" /\ transfer[x].quote \in Quotes =>
         usedBy[transfer[x].quote] = x
    /\ \A r \in exchanged : /\ call[r].pc \in {"complete", "done", "failed"}
                            /\ conversion[r] # "none"
                            /\ \E k \in Quotes : usedBy[k] = r
                            /\ call[r].quote \in Quotes => usedBy[call[r].quote] = r
    /\ \A w \in Callers, k \in Quotes : call[w].pc \in Using /\ call[w].quote = k =>
         usedBy[k] = User(w) /\ Unmoved(k)
    /\ \A r \in Requests : call[r].pc = "exchange" => conversion[r] # "none"


\* All of it.
Inv == TypeOK /\ Room /\ LockHeld /\ CallInv /\ RunInv /\ Held /\ QuoteInv

-----------------------------------------------------------------------------
(***************************************************************************)
(* What a step that leaves a part of the state alone keeps                 *)
(***************************************************************************)

\* Payouts only advance: none appears, goes, revives or changes what it is for.
Advanced ==
    \A x \in Refs : /\ transfer'[x].status = "none" <=> transfer[x].status = "none"
                    /\ transfer[x].status = "failed" => transfer'[x].status = "failed"
                    /\ transfer'[x].quote = transfer[x].quote
                    /\ transfer'[x].of = transfer[x].of
                    /\ transfer'[x].amount = transfer[x].amount

(***************************************************************************)
(* What collections are owed is a natural number.                          *)
(***************************************************************************)
LEMMA OwedNat ==
    ASSUME NEW S \in SUBSET Collections
    PROVE  Owed(S) \in Nat
<1> DEFINE f == [c \in Collections |-> IF c \in S THEN Price[c] ELSE 0]
<1>1. Len(Price) \in Nat /\ Collections = 1..Len(Price)
    BY MoneyAssumption DEF Collections
<1>2. \A c \in Collections : Price[c] \in Nat
    BY MoneyAssumption DEF Collections
<1>3. f \in [1..Len(Price) -> Nat]
    BY <1>1, <1>2
<1> HIDE DEF f
<1>4. SumTo(f, Len(Price)) \in Nat
    BY <1>1, <1>3, SumToNat
<1> QED
    BY <1>4 DEF f, Owed

(***************************************************************************)
(* References drawn by runs, asked for by requests and the requests        *)
(* themselves are told apart.                                              *)
(***************************************************************************)
LEMMA Apart ==
    /\ \A x \in AutoRefs : x \in Refs /\ x \notin AskedRefs /\ x # 0
    /\ \A x \in AskedRefs : x \in Refs /\ x \notin AutoRefs
    /\ \A x \in Refs : x # 0 /\ x \notin Requests
    /\ \A r \in Requests : r # 0 /\ r \in Callers /\ r # Run
    /\ Run \in Callers /\ Callers = Requests \cup {Run}
    /\ NoQuote \notin Quotes
    BY RefsAssumption, MoneyAssumption DEF Refs, Callers, Run

(***************************************************************************)
(* The lock is held by one caller still when nobody new takes it.          *)
(***************************************************************************)
LEMMA LockKept ==
    ASSUME LockHeld,
           \A w \in Callers : call'[w].pc \in Busy => call[w].pc \in Busy
    PROVE  LockHeld'
    BY DEF LockHeld

(***************************************************************************)
(* Payouts that only advance keep their collections.                       *)
(***************************************************************************)
LEMMA HeldKept ==
    ASSUME Held, Advanced, UNCHANGED claim
    PROVE  Held'
    BY Apart DEF Held, Advanced, Live

(***************************************************************************)
(* A run stays as it is when its payout's call and its claims do.          *)
(***************************************************************************)
LEMMA RunKept ==
    ASSUME TypeOK, RunInv, Advanced, UNCHANGED <<run, claim>>, call'[Run] = call[Run]
    PROVE  RunInv'
<1>1. \A x \in AutoRefs : Live(x)' => Live(x)
    BY Apart DEF Advanced, Live
<1>2. run.pc = "claim" => \A c \in run.taken : Free(c)'
    BY <1>1 DEF RunInv, Free
<1>3. run.ref \in AutoRefs => /\ transfer[run.ref].status = "none"
                                 => transfer'[run.ref].status = "none"
    BY Apart DEF Advanced
<1> QED
    BY <1>2, <1>3 DEF RunInv

(***************************************************************************)
(* Quotes stay spent when nothing spends, restores or moves money on one.  *)
(***************************************************************************)
LEMMA QuotesKept ==
    ASSUME QuoteInv, Advanced, UNCHANGED <<usedBy, exchanged>>,
           \A r \in exchanged : /\ call'[r].pc \in {"complete", "done", "failed"}
                                /\ call'[r].quote \in {NoQuote, call[r].quote}
                                /\ conversion'[r] # "none",
           \A w \in Callers : call'[w].pc \in Using /\ call'[w].quote \in Quotes =>
                /\ call[w].pc \in Using
                /\ call'[w].quote = call[w].quote
                /\ call'[w].kind = call[w].kind
                /\ call'[w].ref = call[w].ref,
           \A r \in Requests : call'[r].pc = "exchange" => conversion'[r] # "none"
    PROVE  QuoteInv'
<1>1. \A k : Unmoved(k) => Unmoved(k)'
    BY DEF Unmoved, Advanced
<1>2. \A x \in Refs : transfer'[x].status # "none" /\ transfer'[x].quote \in Quotes =>
         usedBy'[transfer'[x].quote] = x
    BY DEF QuoteInv, Advanced
<1>3. \A r \in exchanged : call'[r].quote \in Quotes => usedBy[call'[r].quote] = r
    BY MoneyAssumption DEF QuoteInv
<1>4. ASSUME NEW w \in Callers, NEW k \in Quotes, call'[w].quote = k, call'[w].pc \in Using
      PROVE  usedBy'[k] = User(w)' /\ Unmoved(k)'
    <2>1. /\ call[w].pc \in Using
          /\ call[w].quote = k
          /\ call'[w].kind = call[w].kind
          /\ call'[w].ref = call[w].ref
        BY <1>4
    <2>2. usedBy[k] = User(w) /\ Unmoved(k)
        BY <2>1 DEF QuoteInv
    <2>3. User(w)' = User(w)
        BY <2>1 DEF User
    <2> QED
        BY <1>1, <2>2, <2>3
<1> QED
    BY <1>2, <1>3, <1>4 DEF QuoteInv

-----------------------------------------------------------------------------
(***************************************************************************)
(* createPayout and executeConversion                                      *)
(***************************************************************************)

\* One caller goes on to pc; the others stay where they are.
Moved(w, pc) ==
    /\ call' \in [Callers -> CallRow]
    /\ call'[w].pc = pc
    /\ call'[w].kind = call[w].kind
    /\ call'[w].ref = call[w].ref
    /\ call'[w].quote = call[w].quote
    /\ call'[w].amount = call[w].amount
    /\ call'[w].of = call[w].of
    /\ \A u \in Callers : u # w => call'[u] = call[u]

(***************************************************************************)
(* Goto moves a caller and nothing else.                                   *)
(***************************************************************************)
LEMMA Goes ==
    ASSUME TypeOK, NEW w \in Callers, NEW pc \in Busy \cup {"waiting", "done", "failed"},
           Goto(w, pc)
    PROVE  Moved(w, pc)
<1> DEFINE next == [call[w] EXCEPT !.pc = pc]
<1>1. call \in [Callers -> CallRow] /\ call[w] \in CallRow
    BY DEF TypeOK
<1>2. next \in CallRow
    BY <1>1 DEF CallRow, Busy
<1>3. /\ next.pc = pc /\ next.kind = call[w].kind /\ next.ref = call[w].ref
      /\ next.quote = call[w].quote /\ next.amount = call[w].amount
      /\ next.of = call[w].of
    BY <1>1 DEF CallRow
<1>4. call' = [call EXCEPT ![w] = next]
    BY DEF Goto
<1> HIDE DEF next
<1>5. /\ call' \in [Callers -> CallRow] /\ call'[w] = next
      /\ \A u \in Callers : u # w => call'[u] = call[u]
    BY <1>1, <1>2, <1>4
<1> QED
    BY <1>3, <1>5 DEF Moved

(***************************************************************************)
(* The fields of a caller's row                                            *)
(***************************************************************************)
LEMMA CallFields ==
    ASSUME TypeOK, NEW w \in Callers
    PROVE  /\ call[w].ref \in Refs \cup {0} /\ call[w].quote \in Quotes \cup {NoQuote}
           /\ call[w].amount \in Nat /\ call[w].of \in SUBSET Collections
           /\ call[w].kind \in {"payout", "conversion"}
BY DEF TypeOK, CallRow

(***************************************************************************)
(* The run's caller is under way only while the run pays; a conversion is  *)
(* a request's.                                                            *)
(***************************************************************************)
LEMMA WhoCalls ==
    ASSUME CallInv, NEW w \in Callers, call[w].pc # "idle"
    PROVE  /\ w = Run => run.pc = "pay"
           /\ call[w].kind = "conversion" => w \in Requests
           /\ w # Run => w \in Requests
<1>1. w = Run => run.pc = "pay"
    BY DEF CallInv, NoCall
<1>2. call[w].kind = "conversion" => w # Run
    BY DEF CallInv
<1> QED
    BY <1>1, <1>2 DEF Callers

(***************************************************************************)
(* Callers keep to their kind as one of them goes on.                      *)
(***************************************************************************)
LEMMA CallsGoOn ==
    ASSUME CallInv, NEW w \in Callers, NEW pc, Moved(w, pc), UNCHANGED run,
           call[w].pc \notin {"idle", "failed"},
           pc \in {"enqueue", "create", "index"} => call[w].kind = "payout",
           pc \in {"record", "exchange", "delete", "complete"} => call[w].kind = "conversion"
    PROVE  CallInv'
<1>1. w = Run => run.pc = "pay"
    BY WhoCalls
<1>2. call'[Run].kind = "payout" /\ call'[Run].quote = NoQuote
    BY Apart DEF CallInv, Moved
<1>3. run.pc # "pay" => call'[Run] = NoCall
    BY <1>1, Apart DEF CallInv, Moved
<1>4. ASSUME NEW u \in Callers
      PROVE  /\ call'[u].pc \in {"enqueue", "create", "index"} => call'[u].kind = "payout"
             /\ call'[u].pc \in {"record", "exchange", "delete", "complete"} =>
                   call'[u].kind = "conversion"
             /\ call'[u].kind = "conversion" => call'[u].quote \in Quotes
    <2>1. CASE u = w
        BY <2>1 DEF CallInv, Moved
    <2>2. CASE u # w
        <3>1. call'[u] = call[u]
            BY <2>2 DEF Moved
        <3> QED
            BY <3>1 DEF CallInv
    <2> QED
        BY <2>1, <2>2
<1>5. ASSUME NEW r \in Requests, call'[r].kind = "payout", call'[r].pc \notin {"idle", "failed"}
      PROVE  call'[r].ref \in AskedRefs
    <2>1. CASE r = w
        BY <1>5, <2>1 DEF CallInv, Moved
    <2>2. CASE r # w
        <3>1. call'[r] = call[r]
            BY <2>2, Apart DEF Moved
        <3> QED
            BY <1>5, <3>1 DEF CallInv
    <2> QED
        BY <2>1, <2>2
<1> QED
    BY <1>2, <1>3, <1>4, <1>5 DEF CallInv

\* Where the caller of a run has paid nothing.
Unpaid == {"waiting", "enqueue", "create", "restore", "failed"}

(***************************************************************************)
(* A run waits for its payout while a caller goes on and pays nothing.     *)
(***************************************************************************)
LEMMA RunWaits ==
    ASSUME TypeOK, RunInv, NEW w \in Callers, NEW pc, Moved(w, pc), Advanced,
           UNCHANGED <<run, claim>>, pc # "idle",
           w = Run /\ pc \in Unpaid => call[w].pc \in Unpaid
    PROVE  RunInv'
<1>1. \A x \in AutoRefs : Live(x)' => Live(x)
    BY Apart DEF Advanced, Live
<1>2. run.pc = "claim" => \A c \in run.taken : Free(c)'
    BY <1>1 DEF RunInv, Free
<1>3. run.ref \in AutoRefs => /\ transfer[run.ref].status = "none"
                                 => transfer'[run.ref].status = "none"
    BY Apart DEF Advanced
<1>4. /\ call'[Run].ref = call[Run].ref /\ call'[Run].of = call[Run].of
      /\ call'[Run].amount = call[Run].amount
      /\ call[Run].pc # "idle" => call'[Run].pc # "idle"
      /\ call'[Run].pc \in Unpaid => call[Run].pc \in Unpaid
    <2>1. CASE w = Run
        BY <2>1 DEF Moved
    <2>2. CASE w # Run
        BY <2>2, Apart DEF Moved
    <2> QED
        BY <2>1, <2>2
<1>5. run.pc = "pay" => /\ call'[Run].ref = run.ref
                        /\ call'[Run].of = run.taken
                        /\ call'[Run].amount = Owed(run.taken)
                        /\ call'[Run].pc # "idle"
                        /\ \A c \in run.taken : claim[c] = run.ref
                        /\ call'[Run].pc \in Unpaid => transfer'[run.ref].status = "none"
    BY <1>3, <1>4 DEF RunInv, Unpaid
<1> QED
    BY <1>2, <1>3, <1>5 DEF RunInv, Unpaid

(***************************************************************************)
(* Nothing happens to payouts that are left alone.                         *)
(***************************************************************************)
LEMMA LeftAlone ==
    ASSUME UNCHANGED transfer
    PROVE  Advanced
BY DEF Advanced

\* What a call leaves alone, its money and its jobs apart.
Aside == <<settled, approved, claim, schedule, sjob, run, post, wake, posts, crashes>>

(***************************************************************************)
(* The room for saves stays while calls go on.                             *)
(***************************************************************************)
LEMMA RoomAside ==
    ASSUME Room, UNCHANGED Aside
    PROVE  Room'
BY DEF Room, Aside

(***************************************************************************)
(* One caller holds the lock still, as long as nobody enters while another *)
(* holds it.                                                               *)
(***************************************************************************)
LEMMA LockMoves ==
    ASSUME LockHeld, NEW w \in Callers, NEW pc, Moved(w, pc),
           pc \in Busy => call[w].pc \in Busy \/ LockFree
    PROVE  LockHeld'
<1>1. \A u \in Callers : u # w => call'[u] = call[u]
    BY DEF Moved
<1>2. CASE LockFree
    <2>1. \A u \in Callers : call[u].pc \notin Busy
        BY <1>2 DEF LockFree, Busy
    <2> QED
        BY <1>1, <2>1 DEF LockHeld
<1>3. CASE pc \in Busy => call[w].pc \in Busy
    <2>1. ASSUME NEW u \in Callers
          PROVE  call'[u].pc \in Busy => call[u].pc \in Busy
        <3>1. CASE u = w
            BY <1>3, <3>1 DEF Moved
        <3>2. CASE u # w
            BY <1>1, <3>2
        <3> QED
            BY <3>1, <3>2
    <2> QED
        BY <2>1, LockKept
<1> QED
    BY <1>2, <1>3

(***************************************************************************)
(* Quotes stay as they are while a caller goes on without touching one.    *)
(***************************************************************************)
LEMMA QuotesWait ==
    ASSUME TypeOK, QuoteInv, NEW w \in Callers, NEW pc, Moved(w, pc), Advanced,
           UNCHANGED <<usedBy, exchanged>>,
           pc \in Using => call[w].pc \in Using \/ call[w].quote \notin Quotes,
           w \in exchanged => pc \in {"complete", "done", "failed"},
           \A r \in exchanged : conversion'[r] # "none",
           \A r \in Requests \ {w} : conversion'[r] = conversion[r],
           pc = "exchange" => conversion'[w] # "none"
    PROVE  QuoteInv'
<1>1. ASSUME NEW r \in exchanged
      PROVE  /\ call'[r].pc \in {"complete", "done", "failed"}
             /\ call'[r].quote \in {NoQuote, call[r].quote}
             /\ conversion'[r] # "none"
    <2>1. r \in Callers
        BY Apart DEF TypeOK
    <2>2. CASE r = w
        BY <2>2 DEF Moved
    <2>3. CASE r # w
        BY <2>1, <2>3 DEF Moved, QuoteInv
    <2> QED
        BY <2>2, <2>3
<1>2. ASSUME NEW u \in Callers, call'[u].pc \in Using, call'[u].quote \in Quotes
      PROVE  /\ call[u].pc \in Using
             /\ call'[u].quote = call[u].quote
             /\ call'[u].kind = call[u].kind
             /\ call'[u].ref = call[u].ref
    <2>1. CASE u = w
        BY <1>2, <2>1 DEF Moved
    <2>2. CASE u # w
        BY <1>2, <2>2 DEF Moved
    <2> QED
        BY <2>1, <2>2
<1>3. ASSUME NEW r \in Requests, call'[r].pc = "exchange"
      PROVE  conversion'[r] # "none"
    <2>1. CASE r = w
        BY <1>3, <2>1 DEF Moved
    <2>2. CASE r # w
        BY <1>3, <2>2, Apart DEF Moved, QuoteInv
    <2> QED
        BY <2>1, <2>2
<1> QED
    BY <1>1, <1>2, <1>3, QuotesKept

(***************************************************************************)
(* A caller that goes on and touches no payout keeps the invariant, the    *)
(* part on quotes apart.                                                   *)
(***************************************************************************)
LEMMA GoOnRest ==
    ASSUME Inv, NEW w \in Callers, NEW pc \in Busy \cup {"waiting", "done", "failed"},
           Goto(w, pc), call[w].pc \notin {"idle", "failed"},
           UNCHANGED <<Aside, transfer>>,
           balance' \in Int, indexed' \subseteq Refs, exchanged' \subseteq Requests,
           usedBy' \in [Quotes -> Refs \cup Requests \cup {0}],
           conversion' \in [Requests -> {"none", "pending", "completed"}],
           ajob' \in [Refs -> SUBSET {"processing", "settle"}],
           pc \in Busy => call[w].pc \in Busy \/ LockFree,
           w = Run /\ pc \in Unpaid => call[w].pc \in Unpaid,
           pc \in {"enqueue", "create", "index"} => call[w].kind = "payout",
           pc \in {"record", "exchange", "delete", "complete"} => call[w].kind = "conversion"
    PROVE  Moved(w, pc) /\ (QuoteInv' => Inv')
<1>1. TypeOK /\ Room /\ LockHeld /\ CallInv /\ RunInv /\ Held
    BY DEF Inv
<1>2. Moved(w, pc)
    BY <1>1, Goes
<1>3. Advanced
    BY LeftAlone
<1>4. UNCHANGED Aside /\ UNCHANGED <<run, claim>> /\ pc # "idle"
    BY DEF Aside, Busy
<1>5. TypeOK'
    BY <1>1, <1>2, <1>4 DEF TypeOK, Moved, Aside
<1>6. Room'
    BY <1>1, <1>4, RoomAside
<1>7. LockHeld'
    BY <1>1, <1>2, LockMoves
<1>8. CallInv'
    BY <1>1, <1>2, <1>4, CallsGoOn
<1>9. RunInv'
    BY <1>1, <1>2, <1>3, <1>4, RunWaits
<1>10. Held'
    BY <1>1, <1>3, <1>4, HeldKept
<1> QED
    BY <1>2, <1>5, <1>6, <1>7, <1>8, <1>9, <1>10 DEF Inv

(***************************************************************************)
(* A caller that goes on, and touches no payout or quote either, keeps all *)
(* of it.                                                                  *)
(***************************************************************************)
LEMMA GoOn ==
    ASSUME Inv, NEW w \in Callers, NEW pc \in Busy \cup {"waiting", "done", "failed"},
           Goto(w, pc), call[w].pc \notin {"idle", "failed"},
           UNCHANGED <<Aside, transfer, usedBy, exchanged>>,
           balance' \in Int, indexed' \subseteq Refs,
           ajob' \in [Refs -> SUBSET {"processing", "settle"}],
           conversion' \in [Requests -> {"none", "pending", "completed"}],
           \A r \in exchanged : conversion'[r] # "none",
           \A r \in Requests \ {w} : conversion'[r] = conversion[r],
           pc = "exchange" => conversion'[w] # "none",
           pc \in Busy => call[w].pc \in Busy \/ LockFree,
           pc \in Using => call[w].pc \in Using \/ call[w].quote \notin Quotes,
           w = Run /\ pc \in Unpaid => call[w].pc \in Unpaid,
           w \in exchanged => pc \in {"complete", "done", "failed"},
           pc \in {"enqueue", "create", "index"} => call[w].kind = "payout",
           pc \in {"record", "exchange", "delete", "complete"} => call[w].kind = "conversion"
    PROVE  Inv'
<1>1. TypeOK /\ QuoteInv
    BY DEF Inv
<1>2. exchanged' \subseteq Requests /\ usedBy' \in [Quotes -> Refs \cup Requests \cup {0}]
    BY <1>1 DEF TypeOK
<1>3. UNCHANGED <<Aside, transfer>>
    OBVIOUS
<1>4. Moved(w, pc) /\ (QuoteInv' => Inv')
    BY <1>2, <1>3, GoOnRest
<1>5. QuoteInv'
    <2>1. Advanced
        BY LeftAlone
    <2>2. UNCHANGED <<usedBy, exchanged>>
        OBVIOUS
    <2> QED
        BY <1>1, <1>4, <2>1, <2>2, QuotesWait
<1> QED
    BY <1>4, <1>5

(***************************************************************************)
(* Conversions that nothing touches keep their records.                    *)
(***************************************************************************)
LEMMA RecordsStay ==
    ASSUME Inv, UNCHANGED conversion
    PROVE  /\ conversion' \in [Requests -> {"none", "pending", "completed"}]
           /\ \A r \in exchanged : conversion'[r] # "none"
           /\ \A w \in Callers : \A r \in Requests \ {w} : conversion'[r] = conversion[r]
BY DEF Inv, TypeOK, QuoteInv

(***************************************************************************)
(* The advance job is queued.                                              *)
(***************************************************************************)
LEMMA EnqueueKeeps ==
    ASSUME Inv, NEW w \in Callers, enqueueAdvance(w)
    PROVE  Inv'
<1>1. TypeOK /\ CallInv /\ QuoteInv
    BY DEF Inv
<1>2. /\ Goto(w, "create") /\ call[w].pc = "enqueue"
      /\ UNCHANGED <<money, claim, schedule, sjob, run, post, wake, posts, crashes>>
      /\ ajob' = [ajob EXCEPT ![call[w].ref] = ajob[call[w].ref] \cup {"processing"}]
    BY DEF enqueueAdvance, At
<1>3. ajob' \in [Refs -> SUBSET {"processing", "settle"}]
    BY <1>1, <1>2 DEF TypeOK
<1>4. /\ UNCHANGED <<Aside, transfer, usedBy, exchanged>> /\ UNCHANGED conversion
      /\ balance' \in Int /\ indexed' \subseteq Refs
    BY <1>1, <1>2 DEF money, Aside, TypeOK
<1>5. call[w].kind = "payout" /\ w \notin exchanged
    BY <1>1, <1>2 DEF CallInv, QuoteInv
<1> QED
    BY <1>2, <1>3, <1>4, <1>5, RecordsStay, GoOn DEF Busy, Using, Unpaid

(***************************************************************************)
(* The payout is indexed.                                                  *)
(***************************************************************************)
LEMMA IndexKeeps ==
    ASSUME Inv, NEW w \in Callers, Index(w)
    PROVE  Inv'
<1>1. TypeOK /\ CallInv /\ QuoteInv /\ RunInv
    BY DEF Inv
<1>2. /\ Goto(w, "done") /\ call[w].pc = "index"
      /\ UNCHANGED <<Aside, transfer, usedBy, exchanged>>
      /\ UNCHANGED conversion /\ UNCHANGED <<balance, ajob>>
      /\ indexed' = indexed \cup {call[w].ref}
    BY DEF Index, At, Aside
<1>3. call[w].ref \in Refs
    <2>1. CASE w = Run
        BY <1>1, <1>2, <2>1, WhoCalls, Apart DEF RunInv
    <2>2. CASE w # Run
        BY <1>1, <1>2, <2>2, WhoCalls, Apart DEF CallInv
    <2> QED
        BY <2>1, <2>2
<1>4. balance' \in Int /\ indexed' \subseteq Refs
      /\ ajob' \in [Refs -> SUBSET {"processing", "settle"}]
    BY <1>1, <1>2, <1>3 DEF TypeOK
<1> QED
    BY <1>2, <1>4, RecordsStay, GoOn DEF Busy, Using, Unpaid

(***************************************************************************)
(* The record of a conversion is put.                                      *)
(***************************************************************************)
LEMMA RecordKeeps ==
    ASSUME Inv, NEW r \in Requests, RecordConversion(r)
    PROVE  Inv'
<1>1. TypeOK /\ CallInv /\ QuoteInv
    BY DEF Inv
<1>2. /\ Goto(r, "exchange") /\ call[r].pc = "record"
      /\ UNCHANGED <<Aside, transfer, usedBy, exchanged>>
      /\ UNCHANGED <<balance, indexed, ajob>>
      /\ conversion' = [conversion EXCEPT ![r] = "pending"]
    BY DEF RecordConversion, At, Aside
<1>3. /\ conversion' \in [Requests -> {"none", "pending", "completed"}]
      /\ conversion'[r] = "pending"
      /\ \A s \in Requests \ {r} : conversion'[s] = conversion[s]
    BY <1>1, <1>2 DEF TypeOK
<1>4. \A s \in exchanged : conversion'[s] # "none"
    BY <1>1, <1>3 DEF QuoteInv, TypeOK
<1>5. /\ call[r].kind = "conversion" /\ r \notin exchanged /\ r \in Callers
      /\ balance' \in Int /\ indexed' \subseteq Refs
      /\ ajob' \in [Refs -> SUBSET {"processing", "settle"}]
    BY <1>1, <1>2, Apart DEF CallInv, QuoteInv, TypeOK
<1> QED
    BY <1>2, <1>3, <1>4, <1>5, GoOn DEF Busy, Using, Unpaid

(***************************************************************************)
(* A conversion ends: done, or refused and its record deleted.             *)
(***************************************************************************)
LEMMA EndKeeps ==
    ASSUME Inv, NEW r \in Requests, EndConversion(r)
    PROVE  Inv'
<1>1. TypeOK /\ CallInv /\ QuoteInv
    BY DEF Inv
<1>2. /\ UNCHANGED <<Aside, transfer, usedBy, exchanged>>
      /\ UNCHANGED <<balance, indexed, ajob>>
    BY DEF EndConversion, Aside
<1>3. /\ r \in Callers /\ balance' \in Int /\ indexed' \subseteq Refs
      /\ ajob' \in [Refs -> SUBSET {"processing", "settle"}]
    BY <1>1, <1>2, Apart DEF TypeOK
<1>4. CASE At(r, "complete")
    <2>1. /\ call[r].pc = "complete" /\ Goto(r, "done")
          /\ conversion' = [conversion EXCEPT ![r] = "completed"]
        BY <1>4 DEF EndConversion, At
    <2>2. /\ conversion' \in [Requests -> {"none", "pending", "completed"}]
          /\ conversion'[r] = "completed"
          /\ \A s \in Requests \ {r} : conversion'[s] = conversion[s]
        BY <1>1, <2>1 DEF TypeOK
    <2>3. \A s \in exchanged : conversion'[s] # "none"
        BY <1>1, <2>2 DEF QuoteInv, TypeOK
    <2> QED
        BY <1>2, <1>3, <2>1, <2>2, <2>3, GoOn DEF Busy, Using, Unpaid
<1>5. CASE At(r, "delete")
    <2>1. /\ call[r].pc = "delete" /\ Goto(r, "restore")
          /\ conversion' = [conversion EXCEPT ![r] = "none"]
        BY <1>5 DEF EndConversion, At
    <2>2. /\ conversion' \in [Requests -> {"none", "pending", "completed"}]
          /\ \A s \in Requests \ {r} : conversion'[s] = conversion[s]
        BY <1>1, <2>1 DEF TypeOK
    <2>3. r \notin exchanged
        BY <1>1, <2>1 DEF QuoteInv
    <2>4. \A s \in exchanged : conversion'[s] # "none"
        BY <1>1, <2>2, <2>3 DEF QuoteInv, TypeOK
    <2>5. r # Run
        BY Apart
    <2> QED
        BY <1>2, <1>3, <2>1, <2>2, <2>3, <2>4, <2>5, GoOn DEF Busy, Using, Unpaid
<1> QED
    BY <1>4, <1>5 DEF EndConversion

(***************************************************************************)
(* The lock's holder is the only one using a quote.                        *)
(***************************************************************************)
LEMMA OnlyUser ==
    ASSUME LockHeld, NEW w \in Callers, call[w].pc \in Using
    PROVE  \A u \in Callers : call[u].pc \in Using => u = w
BY DEF LockHeld, Using, Busy

(***************************************************************************)
(* A refused call goes on to its end; a payout or conversion without a     *)
(* usable quote is refused, and one with it spends it.                     *)
(***************************************************************************)
LEMMA EnterKeeps ==
    ASSUME Inv, NEW w \in Callers, Enter(w)
    PROVE  Inv'
<1>1. TypeOK /\ CallInv /\ QuoteInv /\ LockHeld
    BY DEF Inv
<1> DEFINE c == call[w]
           refused == \/ c.kind = "payout" /\ balance < 0
                      \/ c.quote # NoQuote /\ ~ usableQuote(c.quote)
           next == IF c.kind = "payout" THEN "enqueue" ELSE "record"
<1>2. /\ c.pc = "waiting" /\ LockFree
      /\ IF refused THEN Goto(w, "failed") ELSE Goto(w, next)
      /\ usedBy' = IF refused \/ c.quote = NoQuote THEN usedBy
                   ELSE [usedBy EXCEPT ![c.quote] = IF c.kind = "payout" THEN c.ref ELSE w]
      /\ UNCHANGED <<Aside, transfer>> /\ UNCHANGED exchanged
      /\ UNCHANGED conversion /\ UNCHANGED <<balance, indexed, ajob>>
    BY DEF Enter, At, Aside
<1> HIDE DEF refused
<1>3. /\ w \notin exchanged /\ (w # Run => w \in Requests)
      /\ c.kind = "conversion" => w \in Requests
      /\ c.kind \in {"payout", "conversion"} /\ c.quote \in Quotes \cup {NoQuote}
    BY <1>1, <1>2, WhoCalls, CallFields DEF QuoteInv
<1>4. /\ balance' \in Int /\ indexed' \subseteq Refs /\ exchanged' \subseteq Requests
      /\ ajob' \in [Refs -> SUBSET {"processing", "settle"}]
    BY <1>1, <1>2 DEF TypeOK
<1>5. CASE refused
    <2>1. UNCHANGED <<Aside, transfer, usedBy, exchanged>> /\ Goto(w, "failed")
        BY <1>2, <1>5
    <2> QED
        BY <1>2, <1>3, <1>4, <2>1, RecordsStay, GoOn DEF Busy, Using, Unpaid
<1>6. CASE ~ refused /\ c.quote = NoQuote
    <2>1. UNCHANGED <<Aside, transfer, usedBy, exchanged>> /\ Goto(w, "enqueue")
        BY <1>1, <1>2, <1>3, <1>6, Apart DEF CallInv
    <2>2. c.kind = "payout" /\ c.quote \notin Quotes
        BY <1>1, <1>3, <1>6, Apart DEF CallInv
    <2> QED
        BY <1>2, <1>3, <1>4, <2>1, <2>2, RecordsStay, GoOn DEF Busy, Using, Unpaid
<1>7. CASE ~ refused /\ c.quote # NoQuote
    <2> DEFINE k == c.quote
               user == User(w)
    <2>1. k \in Quotes /\ usedBy[k] = 0 /\ Goto(w, next)
        BY <1>2, <1>3, <1>7 DEF refused, usableQuote
    <2>2. user \in Refs \cup Requests \cup {0}
        BY <1>1, <1>3, CallFields DEF User
    <2>3. usedBy' = [usedBy EXCEPT ![k] = user]
        BY <1>2, <1>7 DEF User
    <2>4. /\ usedBy' \in [Quotes -> Refs \cup Requests \cup {0}] /\ usedBy'[k] = user
          /\ \A q \in Quotes \ {k} : usedBy'[q] = usedBy[q]
        BY <1>1, <2>1, <2>2, <2>3 DEF TypeOK
    <2>5. /\ next \in {"enqueue", "record"}
          /\ next = "enqueue" => c.kind = "payout"
          /\ next = "record" => c.kind = "conversion"
        BY <1>3
    <2> HIDE DEF next
    <2>6. /\ next \in Busy \cup {"waiting", "done", "failed"}
          /\ next \in Unpaid => call[w].pc \in Unpaid
          /\ next \in {"enqueue", "create", "index"} => call[w].kind = "payout"
          /\ next \in {"record", "exchange", "delete", "complete"} => call[w].kind = "conversion"
        BY <1>2, <2>5 DEF Busy, Unpaid
    <2>7. call[w].pc \notin {"idle", "failed"} /\ UNCHANGED <<Aside, transfer>>
        BY <1>2
    <2>8. Moved(w, next) /\ (QuoteInv' => Inv')
        BY <1>2, <1>4, <2>1, <2>4, <2>6, <2>7, RecordsStay, GoOnRest
    <2>9. user \notin exchanged
        <3>1. CASE c.kind = "payout" /\ w = Run
            BY <1>1, <1>7, <3>1 DEF CallInv
        <3>2. CASE c.kind = "payout" /\ w # Run
            <4>1. user \in Refs
                BY <1>1, <1>2, <1>3, <3>2, Apart DEF User, CallInv
            <4> QED
                BY <1>1, <4>1, Apart DEF TypeOK
        <3>3. CASE c.kind = "conversion"
            BY <1>3, <3>3 DEF User
        <3> QED
            BY <1>3, <3>1, <3>2, <3>3
    <2>10. /\ \A x \in Refs : transfer[x].status # "none" => transfer[x].quote # k
           /\ \A r \in exchanged : usedBy[k] # r
        BY <1>1, <2>1, Apart DEF QuoteInv, TypeOK
    <2>11. ASSUME NEW x \in Refs, transfer'[x].status # "none", transfer'[x].quote \in Quotes
           PROVE  usedBy'[transfer'[x].quote] = x
        <3>1. transfer'[x].quote # k /\ transfer'[x] = transfer[x]
            BY <1>2, <2>10, <2>11
        <3> QED
            BY <1>1, <2>4, <2>11, <3>1 DEF QuoteInv
    <2>12. ASSUME NEW r \in exchanged'
           PROVE  /\ call'[r].pc \in {"complete", "done", "failed"}
                  /\ conversion'[r] # "none"
                  /\ \E q \in Quotes : usedBy'[q] = r
                  /\ call'[r].quote \in Quotes => usedBy'[call'[r].quote] = r
        <3>1. r \in exchanged /\ r \in Callers /\ r # w
            BY <1>1, <1>2, <1>3, Apart DEF TypeOK
        <3>2. call'[r] = call[r]
            BY <2>8, <3>1 DEF Moved
        <3>3. \A q \in Quotes : usedBy[q] = r => q # k
            BY <2>10, <3>1
        <3>4. /\ call[r].pc \in {"complete", "done", "failed"}
              /\ conversion[r] # "none"
              /\ \E q \in Quotes : usedBy[q] = r
              /\ call[r].quote \in Quotes => usedBy[call[r].quote] = r
            BY <1>1, <3>1 DEF QuoteInv
        <3> QED
            BY <1>2, <2>4, <3>2, <3>3, <3>4
    <2>13. ASSUME NEW u \in Callers, NEW q \in Quotes, call'[u].pc \in Using, call'[u].quote = q
           PROVE  usedBy'[q] = User(u)' /\ Unmoved(q)'
        <3>1. u = w
            BY <1>2, <2>8, <2>13 DEF Moved, LockFree, Using
        <3>2. q = k /\ User(w)' = User(w)
            BY <2>8, <2>13, <3>1 DEF Moved, User
        <3>3. /\ \A x \in Refs : transfer'[x].status # "none" => transfer'[x].quote # q
              /\ usedBy'[q] = user /\ user \notin exchanged'
            BY <1>2, <2>4, <2>9, <2>10, <3>2
        <3>4. Unmoved(q)'
            BY <3>3 DEF Unmoved
        <3>5. usedBy'[q] = User(w)'
            BY <3>2, <3>3
        <3> QED
            BY <3>1, <3>4, <3>5
    <2>14. \A r \in Requests : call'[r].pc = "exchange" => conversion'[r] # "none"
        BY <1>1, <1>2, <2>5, <2>8, Apart DEF Moved, QuoteInv
    <2>15. QuoteInv'
        BY <2>11, <2>12, <2>13, <2>14 DEF QuoteInv
    <2> QED
        BY <2>8, <2>15
<1> QED
    BY <1>5, <1>6, <1>7

(***************************************************************************)
(* A refused caller gives its quote back.                                  *)
(***************************************************************************)
LEMMA RestoreKeeps ==
    ASSUME Inv, NEW w \in Callers, Restore(w)
    PROVE  Inv'
<1>1. TypeOK /\ CallInv /\ QuoteInv /\ LockHeld
    BY DEF Inv
<1> DEFINE k == call[w].quote
<1>2. /\ call[w].pc = "restore" /\ Goto(w, "failed")
      /\ usedBy' = IF k = NoQuote THEN usedBy ELSE [usedBy EXCEPT ![k] = 0]
      /\ UNCHANGED <<Aside, transfer>> /\ UNCHANGED exchanged
      /\ UNCHANGED conversion /\ UNCHANGED <<balance, indexed, ajob>>
    BY DEF Restore, At, Aside
<1>3. /\ balance' \in Int /\ indexed' \subseteq Refs /\ exchanged' \subseteq Requests
      /\ ajob' \in [Refs -> SUBSET {"processing", "settle"}]
      /\ k \in Quotes \cup {NoQuote} /\ w \notin exchanged
    BY <1>1, <1>2, CallFields DEF TypeOK, QuoteInv
<1>4. CASE k = NoQuote
    <2>1. UNCHANGED <<Aside, transfer, usedBy, exchanged>>
        BY <1>2, <1>4
    <2> QED
        BY <1>2, <1>3, <2>1, RecordsStay, GoOn DEF Busy, Using, Unpaid
<1>5. CASE k # NoQuote
    <2>1. k \in Quotes /\ usedBy' = [usedBy EXCEPT ![k] = 0]
        BY <1>2, <1>3, <1>5
    <2>2. /\ usedBy' \in [Quotes -> Refs \cup Requests \cup {0}]
          /\ \A q \in Quotes \ {k} : usedBy'[q] = usedBy[q]
        BY <1>1, <2>1 DEF TypeOK
    <2>3. Moved(w, "failed") /\ (QuoteInv' => Inv')
        BY <1>2, <1>3, <2>2, RecordsStay, GoOnRest DEF Busy, Unpaid
    <2>4. Unmoved(k)
        BY <1>2, <2>1 DEF Using, QuoteInv, Inv
    <2>5. /\ \A x \in Refs : transfer[x].status # "none" => transfer[x].quote # k
          /\ \A r \in exchanged : usedBy[k] # r
        BY <2>4 DEF Unmoved
    <2>6. ASSUME NEW x \in Refs, transfer'[x].status # "none", transfer'[x].quote \in Quotes
          PROVE  usedBy'[transfer'[x].quote] = x
        <3>1. transfer'[x].quote # k /\ transfer'[x] = transfer[x]
            BY <1>2, <2>5, <2>6
        <3> QED
            BY <1>1, <2>2, <2>6, <3>1 DEF QuoteInv
    <2>7. ASSUME NEW r \in exchanged'
          PROVE  /\ call'[r].pc \in {"complete", "done", "failed"}
                 /\ conversion'[r] # "none"
                 /\ \E q \in Quotes : usedBy'[q] = r
                 /\ call'[r].quote \in Quotes => usedBy'[call'[r].quote] = r
        <3>1. r \in exchanged /\ r \in Callers /\ r # w
            BY <1>1, <1>2, <1>3, Apart DEF TypeOK
        <3>2. call'[r] = call[r]
            BY <2>3, <3>1 DEF Moved
        <3>3. \A q \in Quotes : usedBy[q] = r => q # k
            BY <2>5, <3>1
        <3>4. /\ call[r].pc \in {"complete", "done", "failed"}
              /\ conversion[r] # "none"
              /\ \E q \in Quotes : usedBy[q] = r
              /\ call[r].quote \in Quotes => usedBy[call[r].quote] = r
            BY <1>1, <3>1 DEF QuoteInv
        <3> QED
            BY <1>2, <2>2, <3>2, <3>3, <3>4
    <2>8. \A u \in Callers : call'[u].pc \notin Using
        BY <1>1, <1>2, <2>3, OnlyUser DEF Moved, Using
    <2>9. \A r \in Requests : call'[r].pc # "exchange"
        BY <2>8, Apart DEF Using
    <2>10. QuoteInv'
        BY <2>6, <2>7, <2>8, <2>9 DEF QuoteInv
    <2> QED
        BY <2>3, <2>10
<1> QED
    BY <1>4, <1>5

(***************************************************************************)
(* A payout is created by the one caller that pays for its reference: for  *)
(* a run it holds the collections, and the quote it moves money on is its. *)
(***************************************************************************)
LEMMA CreateKeeps ==
    ASSUME Inv, NEW w \in Callers, createTransfer(w)
    PROVE  Inv'
<1>1. TypeOK /\ Room /\ LockHeld /\ CallInv /\ RunInv /\ Held /\ QuoteInv
    BY DEF Inv
<1> DEFINE c == call[w]
           x == call[w].ref
           row == [status |-> "pending", amount |-> c.amount, quote |-> c.quote, of |-> c.of]
<1>2. /\ c.pc = "create" /\ UNCHANGED Aside /\ UNCHANGED <<usedBy, exchanged>>
      /\ UNCHANGED conversion /\ UNCHANGED <<indexed, ajob>>
    BY DEF createTransfer, At, Aside
<1>3. /\ indexed' \subseteq Refs /\ exchanged' \subseteq Requests
      /\ ajob' \in [Refs -> SUBSET {"processing", "settle"}]
      /\ c.amount \in Nat /\ c.of \in SUBSET Collections /\ c.quote \in Quotes \cup {NoQuote}
      /\ balance \in Int /\ c.kind = "payout" /\ w \notin exchanged
    BY <1>1, <1>2, CallFields DEF TypeOK, CallInv, QuoteInv
<1>4. /\ w = Run => run.pc = "pay" /\ x = run.ref /\ x \in AutoRefs
      /\ w # Run => x \in AskedRefs
      /\ x \in Refs
    <2>1. CASE w = Run
        BY <1>1, <1>2, <2>1, WhoCalls, Apart DEF RunInv
    <2>2. CASE w # Run
        BY <1>1, <1>2, <1>3, <2>2, WhoCalls, Apart DEF CallInv
    <2> QED
        BY <2>1, <2>2
<1>5. CASE ~ (transfer[x].status = "none" /\ balance >= c.amount)
    <2>1. /\ Goto(w, "restore") /\ UNCHANGED <<Aside, transfer, usedBy, exchanged>>
          /\ balance' \in Int
        BY <1>1, <1>2, <1>3, <1>5 DEF createTransfer
    <2> QED
        BY <1>2, <1>3, <2>1, RecordsStay, GoOn DEF Busy, Using, Unpaid
<1>6. CASE transfer[x].status = "none" /\ balance >= c.amount
    <2>1. /\ Goto(w, "index") /\ transfer' = [transfer EXCEPT ![x] = row]
          /\ balance' = balance - c.amount
        BY <1>6 DEF createTransfer
    <2>2. row \in TransferRow
        BY <1>3 DEF TransferRow
    <2>3. /\ row.status = "pending" /\ row.quote = c.quote /\ row.of = c.of
          /\ row.amount = c.amount
        OBVIOUS
    <2> HIDE DEF row
    <2>4. /\ transfer' \in [Refs -> TransferRow] /\ transfer'[x] = row
          /\ \A y \in Refs : y # x => transfer'[y] = transfer[y]
        BY <1>1, <1>4, <2>1, <2>2 DEF TypeOK
    <2>5. Moved(w, "index")
        BY <1>1, <2>1, Goes DEF Busy
    <2>6. balance' \in Int
        BY <1>3, <2>1
    <2>7. TypeOK'
        BY <1>1, <1>2, <1>3, <2>4, <2>5, <2>6 DEF TypeOK, Moved, Aside
    <2>8. Room'
        BY <1>1, <1>2, RoomAside
    <2>9. LockHeld'
        BY <1>1, <1>2, <2>5, LockMoves DEF Busy
    <2>10. UNCHANGED <<run, claim>>
        BY <1>2 DEF Aside
    <2>11. CallInv'
        BY <1>1, <1>2, <1>3, <2>5, <2>10, CallsGoOn
    <2>12. Held'
        <3> SUFFICES ASSUME NEW y \in AutoRefs, Live(y)'
                     PROVE  /\ \A d \in transfer'[y].of : claim'[d] = y
                            /\ transfer'[y].amount = Owed(transfer'[y].of)
            BY DEF Held
        <3>1. CASE y = x
            <4>1. w = Run
                BY <1>4, <3>1, Apart
            <4>2. /\ c.of = run.taken /\ c.amount = Owed(run.taken) /\ x = run.ref
                  /\ \A d \in run.taken : claim[d] = run.ref
                BY <1>1, <1>4, <4>1 DEF RunInv
            <4> QED
                BY <2>3, <2>4, <2>10, <3>1, <4>2
        <3>2. CASE y # x
            <4>1. transfer'[y] = transfer[y] /\ Live(y)
                BY <2>4, <3>2, Apart DEF Live
            <4> QED
                BY <1>1, <2>10, <4>1 DEF Held
        <3> QED
            BY <3>1, <3>2
    <2>13. RunInv'
        <3>1. CASE w = Run
            <4>1. /\ call'[Run].ref = c.ref /\ call'[Run].of = c.of
                  /\ call'[Run].amount = c.amount /\ call'[Run].pc = "index"
                BY <2>5, <3>1 DEF Moved
            <4>2. run.pc = "pay"
                BY <1>4, <3>1
            <4> QED
                BY <1>1, <2>10, <3>1, <4>1, <4>2 DEF RunInv
        <3>2. CASE w # Run
            <4>1. call'[Run] = call[Run] /\ x \notin AutoRefs
                BY <1>4, <2>5, <3>2, Apart DEF Moved
            <4>2. \A y \in AutoRefs : transfer'[y] = transfer[y]
                BY <2>4, <4>1, Apart
            <4>3. run.pc = "claim" => \A d \in run.taken : Free(d)'
                BY <1>1, <2>10, <4>2 DEF RunInv, Free, Live
            <4> QED
                BY <1>1, <2>10, <4>1, <4>2, <4>3 DEF RunInv
        <3> QED
            BY <3>1, <3>2
    <2>14. QuoteInv'
        <3>1. \A u \in Callers : call'[u].pc \notin Using
            BY <1>1, <1>2, <2>5, OnlyUser DEF Moved, Using
        <3>2. \A r \in Requests : call'[r].pc # "exchange"
            BY <3>1, Apart DEF Using
        <3>3. ASSUME NEW y \in Refs, transfer'[y].status # "none",
                     transfer'[y].quote \in Quotes
              PROVE  usedBy'[transfer'[y].quote] = y
            <4>1. CASE y = x
                <5>1. c.quote \in Quotes /\ transfer'[y].quote = c.quote
                    BY <2>3, <2>4, <3>3, <4>1
                <5>2. usedBy[c.quote] = x
                    BY <1>1, <1>2, <1>3, <5>1 DEF QuoteInv, Using, User
                <5> QED
                    BY <1>2, <4>1, <5>1, <5>2
            <4>2. CASE y # x
                BY <1>1, <1>2, <2>4, <3>3, <4>2 DEF QuoteInv
            <4> QED
                BY <4>1, <4>2
        <3>4. ASSUME NEW r \in exchanged
              PROVE  /\ call'[r].pc \in {"complete", "done", "failed"}
                     /\ conversion'[r] # "none"
                     /\ \E q \in Quotes : usedBy'[q] = r
                     /\ call'[r].quote \in Quotes => usedBy'[call'[r].quote] = r
            <4>1. r \in Callers /\ r # w
                BY <1>1, <1>3, Apart DEF TypeOK
            <4>2. call'[r] = call[r]
                BY <2>5, <4>1 DEF Moved
            <4> QED
                BY <1>1, <1>2, <4>2 DEF QuoteInv
        <3> QED
            BY <1>2, <3>1, <3>2, <3>3, <3>4 DEF QuoteInv
    <2> QED
        BY <2>7, <2>8, <2>9, <2>11, <2>12, <2>13, <2>14 DEF Inv
<1> QED
    BY <1>5, <1>6

(***************************************************************************)
(* The exchange moves the conversion's money once, on the quote its        *)
(* request spent.                                                          *)
(***************************************************************************)
LEMMA ExchangeKeeps ==
    ASSUME Inv, NEW r \in Requests, exchangeBalance(r)
    PROVE  Inv'
<1>1. TypeOK /\ CallInv /\ QuoteInv /\ LockHeld
    BY DEF Inv
<1> DEFINE k == call[r].quote
<1>2. /\ call[r].pc = "exchange" /\ UNCHANGED <<Aside, transfer>> /\ UNCHANGED usedBy
      /\ UNCHANGED conversion /\ UNCHANGED <<indexed, ajob>>
    BY DEF exchangeBalance, At, Aside
<1>3. /\ indexed' \subseteq Refs /\ ajob' \in [Refs -> SUBSET {"processing", "settle"}]
      /\ usedBy' \in [Quotes -> Refs \cup Requests \cup {0}]
      /\ balance \in Int /\ call[r].amount \in Nat /\ r \in Callers
    BY <1>1, <1>2, CallFields, Apart DEF TypeOK
<1>4. call[r].kind = "conversion" /\ r \notin exchanged /\ r # Run
    BY <1>1, <1>2, <1>3, Apart DEF CallInv, QuoteInv
<1>5. k \in Quotes /\ usedBy[k] = r /\ conversion[r] # "none" /\ Unmoved(k)
    BY <1>1, <1>2, <1>3, <1>4 DEF CallInv, QuoteInv, Using, User
<1>6. CASE balance >= call[r].amount
    <2>1. /\ Goto(r, "complete") /\ exchanged' = exchanged \cup {r}
          /\ balance' = balance - call[r].amount
        BY <1>6 DEF exchangeBalance
    <2>2. balance' \in Int /\ exchanged' \subseteq Requests
        BY <1>1, <1>3, <2>1 DEF TypeOK
    <2>3. Moved(r, "complete") /\ (QuoteInv' => Inv')
        BY <1>2, <1>3, <1>4, <2>1, <2>2, RecordsStay, GoOnRest DEF Busy, Unpaid
    <2>4. \A u \in Callers : call'[u].pc \notin Using
        BY <1>1, <1>2, <1>3, <2>3, OnlyUser DEF Moved, Using
    <2>5. \A s \in Requests : call'[s].pc # "exchange"
        BY <2>4, Apart DEF Using
    <2>6. ASSUME NEW s \in exchanged'
          PROVE  /\ call'[s].pc \in {"complete", "done", "failed"}
                 /\ conversion'[s] # "none"
                 /\ \E q \in Quotes : usedBy'[q] = s
                 /\ call'[s].quote \in Quotes => usedBy'[call'[s].quote] = s
        <3>1. CASE s = r
            <4>1. call'[r].pc = "complete" /\ call'[r].quote = k
                BY <2>3 DEF Moved
            <4> QED
                BY <1>2, <1>5, <3>1, <4>1
        <3>2. CASE s # r
            <4>1. s \in exchanged /\ s \in Callers
                BY <1>1, <2>1, <3>2, Apart DEF TypeOK
            <4>2. call'[s] = call[s]
                BY <2>3, <3>2, <4>1 DEF Moved
            <4> QED
                BY <1>1, <1>2, <4>1, <4>2 DEF QuoteInv
        <3> QED
            BY <3>1, <3>2
    <2>7. UNCHANGED transfer /\ UNCHANGED usedBy
        BY <1>2
    <2>8. \A x \in Refs : transfer'[x].status # "none" /\ transfer'[x].quote \in Quotes =>
             usedBy'[transfer'[x].quote] = x
        BY <1>1, <2>7 DEF QuoteInv
    <2>9. QuoteInv'
        BY <2>4, <2>5, <2>6, <2>8 DEF QuoteInv
    <2> QED
        BY <2>3, <2>9
<1>7. CASE ~ (balance >= call[r].amount)
    <2>1. /\ Goto(r, "delete") /\ UNCHANGED <<Aside, transfer, usedBy, exchanged>>
          /\ balance' \in Int
        BY <1>2, <1>3, <1>7 DEF exchangeBalance
    <2> QED
        BY <1>2, <1>3, <1>4, <2>1, RecordsStay, GoOn DEF Busy, Using, Unpaid
<1> QED
    BY <1>6, <1>7

(***************************************************************************)
(* Every step of a call keeps the invariant.                               *)
(***************************************************************************)
LEMMA CallingKeeps ==
    ASSUME Inv, NEW w \in Callers, Calling(w)
    PROVE  Inv'
BY EnterKeeps, EnqueueKeeps, CreateKeeps, RestoreKeeps, IndexKeeps, RecordKeeps,
   ExchangeKeeps, EndKeeps DEF Calling

-----------------------------------------------------------------------------
(***************************************************************************)
(* Requests, jobs, settings and what happens around them                   *)
(***************************************************************************)

(***************************************************************************)
(* A request that arrives is one more caller, with nothing done yet.       *)
(***************************************************************************)
LEMMA AskKeeps ==
    ASSUME Inv, NEW r \in Requests, NEW a \in Asks, Ask(r, a)
    PROVE  Inv'
<1>1. TypeOK /\ Room /\ LockHeld /\ CallInv /\ RunInv /\ Held /\ QuoteInv
    BY DEF Inv
<1> DEFINE row == [NoCall EXCEPT !.pc = "waiting", !.kind = a.kind, !.ref = a.ref,
                                 !.quote = a.quote, !.amount = a.amount]
<1>2. /\ call[r].pc = "idle" /\ call' = [call EXCEPT ![r] = row]
      /\ UNCHANGED <<money, claim, schedule, sjob, ajob, run, post, wake, posts, crashes>>
    BY DEF Ask, At
<1>3. /\ a.kind \in {"payout", "conversion"} /\ a.quote \in Quotes \cup {NoQuote}
      /\ a.amount \in Nat
      /\ a.kind = "conversion" => a.quote \in Quotes /\ a.ref = 0
    BY AsksAssumption
<1>4. a.kind = "payout" => a.ref \in AskedRefs
    BY DEF AskedRefs
<1>5. a.ref \in Refs \cup {0}
    BY <1>3, <1>4, Apart
<1>6. /\ row.pc = "waiting" /\ row.kind = a.kind /\ row.ref = a.ref
      /\ row.quote = a.quote /\ row \in CallRow
    BY <1>3, <1>5 DEF NoCall, CallRow
<1> HIDE DEF row
<1>7. /\ call' \in [Callers -> CallRow] /\ call'[r] = row /\ r \in Callers /\ r # Run
      /\ \A u \in Callers : u # r => call'[u] = call[u]
    BY <1>1, <1>2, <1>6, Apart DEF TypeOK
<1>8. UNCHANGED money /\ UNCHANGED <<transfer, usedBy, exchanged, conversion, run, claim>>
    BY <1>2 DEF money
<1>9. TypeOK'
    BY <1>1, <1>2, <1>7, <1>8 DEF TypeOK, money
<1>10. Room'
    BY <1>1, <1>2 DEF Room
<1>11. LockHeld'
    BY <1>1, <1>6, <1>7, LockKept DEF Busy
<1>12. CallInv'
    <2>1. call'[Run] = call[Run]
        BY <1>7, Apart
    <2>2. ASSUME NEW u \in Callers
          PROVE  /\ call'[u].pc \in {"enqueue", "create", "index"} => call'[u].kind = "payout"
                 /\ call'[u].pc \in {"record", "exchange", "delete", "complete"} =>
                       call'[u].kind = "conversion"
                 /\ call'[u].kind = "conversion" => call'[u].quote \in Quotes
        BY <1>1, <1>3, <1>6, <1>7 DEF CallInv
    <2>3. ASSUME NEW s \in Requests, call'[s].kind = "payout",
                 call'[s].pc \notin {"idle", "failed"}
          PROVE  call'[s].ref \in AskedRefs
        BY <1>1, <1>4, <1>6, <1>7, <2>3, Apart DEF CallInv
    <2> QED
        BY <1>1, <1>8, <2>1, <2>2, <2>3 DEF CallInv
<1>13. Advanced
    BY <1>8, LeftAlone
<1>14. RunInv'
    BY <1>1, <1>7, <1>8, <1>13, RunKept, Apart
<1>15. Held'
    BY <1>1, <1>8, <1>13, HeldKept
<1>16. QuoteInv'
    <2>1. r \notin exchanged
        BY <1>1, <1>2 DEF QuoteInv
    <2>2. ASSUME NEW s \in exchanged
          PROVE  /\ call'[s].pc \in {"complete", "done", "failed"}
                 /\ call'[s].quote \in {NoQuote, call[s].quote}
                 /\ conversion'[s] # "none"
        <3>1. s \in Callers /\ s # r
            BY <1>1, <2>1, Apart DEF TypeOK
        <3> QED
            BY <1>1, <1>7, <1>8, <3>1 DEF QuoteInv
    <2>3. \A u \in Callers : call'[u].pc \in Using => call'[u] = call[u]
        BY <1>6, <1>7 DEF Using
    <2>4. \A s \in Requests : call'[s].pc = "exchange" => conversion'[s] # "none"
        BY <1>1, <1>8, <2>3, Apart DEF QuoteInv, Using
    <2>5. UNCHANGED <<usedBy, exchanged>>
        BY <1>8
    <2> QED
        BY <1>1, <1>13, <2>2, <2>3, <2>4, <2>5, QuotesKept
<1> QED
    BY <1>9, <1>10, <1>11, <1>12, <1>14, <1>15, <1>16 DEF Inv

(***************************************************************************)
(* A step that touches no call, payout, claim or quote, nor the run's      *)
(* choice and payout, keeps what is said of them.                          *)
(***************************************************************************)
LEMMA Around ==
    ASSUME Inv, TypeOK', Room', Advanced,
           UNCHANGED <<usedBy, exchanged, conversion, claim, call>>,
           run'.pc \notin {"claim", "pay", "release"} \/ UNCHANGED run,
           run'.pc = "pay" <=> run.pc = "pay"
    PROVE  Inv'
<1>1. TypeOK /\ LockHeld /\ CallInv /\ RunInv /\ Held /\ QuoteInv
    BY DEF Inv
<1>2. UNCHANGED call /\ UNCHANGED claim /\ UNCHANGED <<usedBy, exchanged>>
      /\ UNCHANGED conversion
    OBVIOUS
<1>3. LockHeld'
    BY <1>1, <1>2 DEF LockHeld
<1>4. CallInv'
    BY <1>1, <1>2 DEF CallInv
<1>5. RunInv'
    <2>1. CASE UNCHANGED run
        BY <1>1, <1>2, <2>1, RunKept
    <2>2. CASE run'.pc \notin {"claim", "pay", "release"}
        BY <2>2 DEF RunInv
    <2> QED
        BY <2>1, <2>2
<1>6. Held'
    BY <1>1, <1>2, HeldKept
<1>7. QuoteInv'
    <2>1. ASSUME NEW r \in exchanged
          PROVE  /\ call'[r].pc \in {"complete", "done", "failed"}
                 /\ call'[r].quote \in {NoQuote, call[r].quote}
                 /\ conversion'[r] # "none"
        BY <1>1, <1>2 DEF QuoteInv
    <2>2. \A r \in Requests : call'[r].pc = "exchange" => conversion'[r] # "none"
        BY <1>1, <1>2 DEF QuoteInv
    <2> QED
        BY <1>1, <1>2, <2>1, <2>2, QuotesKept
<1> QED
    BY <1>3, <1>4, <1>5, <1>6, <1>7 DEF Inv

(***************************************************************************)
(* The rows at rest, and the fields of the run's row                       *)
(***************************************************************************)
LEMMA RowsAtRest ==
    NoRun \in RunRow /\ NoPost \in PostRow /\ NoCall \in CallRow
    /\ NoJob \in [version : Version, status : {"none", "ready", "running"}]
<1>1. 0 \in Version /\ "manual" \in Settings
    BY BoundAssumption DEF Version, Settings
<1> QED
    BY <1>1 DEF NoRun, NoPost, NoCall, NoJob, RunRow, PostRow, CallRow, ScheduleRow

\* What is at hand about a run
LEMMA RunFields ==
    ASSUME TypeOK
    PROVE  /\ run \in RunRow /\ run.taken \in SUBSET Collections
           /\ run.ref \in Refs \cup {0} /\ run.next \in ScheduleRow
           /\ schedule \in ScheduleRow /\ schedule.version \in Version
           /\ MaxVersion \in Nat /\ MaxFaults \in Nat /\ posts \in Nat /\ crashes \in Nat
BY BoundAssumption DEF TypeOK, RunRow, ScheduleRow

(***************************************************************************)
(* Room is kept by a run that does not begin to save.                      *)
(***************************************************************************)
LEMMA RoomStays ==
    ASSUME TypeOK, Room, UNCHANGED <<schedule, posts, crashes>>,
           run'.pc \in Saving => run.pc \in Saving
    PROVE  Room'
<1>1. /\ schedule.version \in Int /\ MaxVersion \in Int /\ MaxFaults \in Int
      /\ posts \in Int /\ crashes \in Int
    BY RunFields DEF Version
<1> QED
    BY <1>1 DEF Room

(***************************************************************************)
(* An advance job moves its payout on, at most.                            *)
(***************************************************************************)
LEMMA AdvanceKeeps ==
    ASSUME Inv, NEW x \in Refs, NEW stage \in {"processing", "settle"},
           NEW outcome \in {"successful", "failed"}, handleAdvanceJob(x, stage, outcome)
    PROVE  Inv'
<1>1. TypeOK /\ Room
    BY DEF Inv
<1> DEFINE t == transfer[x].status
<1>2. /\ run.pc = "idle"
      /\ UNCHANGED <<usedBy, exchanged, conversion, claim, call>>
      /\ UNCHANGED <<schedule, posts, crashes>>
      /\ UNCHANGED <<settled, approved, indexed, sjob, ajob, post>>
      /\ \E pc \in {"queue", "complete"} :
            run' = [NoRun EXCEPT !.pc = pc, !.ref = x, !.stage = stage]
      /\ \/ UNCHANGED <<transfer, balance, wake>>
         \/ /\ t = "pending" /\ transfer' = [transfer EXCEPT ![x].status = "processing"]
            /\ UNCHANGED <<balance, wake>>
         \/ /\ t = "processing" /\ transfer' = [transfer EXCEPT ![x].status = outcome]
            /\ balance' = balance + IF outcome = "failed" THEN transfer[x].amount ELSE 0
            /\ wake' = (wake \/ (outcome = "failed" /\ x \in AutoRefs))
    BY DEF handleAdvanceJob
<1>3. PICK pc \in {"queue", "complete"} :
         run' = [NoRun EXCEPT !.pc = pc, !.ref = x, !.stage = stage]
    BY <1>2
<1>4. run' \in RunRow /\ run'.pc = pc
    BY <1>3, RowsAtRest DEF RunRow, NoRun
<1>5. ASSUME NEW to \in {"processing", "successful", "failed"}, t \in {"pending", "processing"},
             transfer' = [transfer EXCEPT ![x].status = to]
      PROVE  transfer' \in [Refs -> TransferRow] /\ Advanced
    <2> DEFINE row == [transfer[x] EXCEPT !.status = to]
    <2>1. transfer \in [Refs -> TransferRow] /\ transfer[x] \in TransferRow
        BY <1>1 DEF TypeOK
    <2>2. /\ row \in TransferRow /\ row.status = to /\ row.quote = transfer[x].quote
          /\ row.of = transfer[x].of /\ row.amount = transfer[x].amount
        BY <2>1 DEF TransferRow
    <2>3. transfer' = [transfer EXCEPT ![x] = row]
        BY <1>5
    <2> HIDE DEF row
    <2>4. /\ transfer' \in [Refs -> TransferRow] /\ transfer'[x] = row
          /\ \A y \in Refs : y # x => transfer'[y] = transfer[y]
        BY <2>1, <2>2, <2>3
    <2> QED
        BY <1>5, <2>2, <2>4 DEF Advanced
<1>6. transfer' \in [Refs -> TransferRow] /\ Advanced
    <2>1. CASE UNCHANGED transfer
        BY <1>1, <2>1, LeftAlone DEF TypeOK
    <2> QED
        BY <1>2, <1>5, <2>1
<1>7. balance' \in Int /\ wake' \in BOOLEAN
    <2>1. balance \in Int /\ transfer[x].amount \in Nat
        BY <1>1 DEF TypeOK, TransferRow
    <2>2. balance' \in Int
        BY <1>2, <2>1
    <2>3. wake \in BOOLEAN
        BY <1>1 DEF TypeOK
    <2>4. wake' \in BOOLEAN
        BY <1>2, <2>3
    <2> QED
        BY <2>2, <2>4
<1>8. TypeOK'
    BY <1>1, <1>2, <1>4, <1>6, <1>7 DEF TypeOK
<1>9. Room'
    BY <1>1, <1>2, <1>4, RoomStays DEF Saving
<1> QED
    BY <1>2, <1>4, <1>6, <1>8, <1>9, Around

(***************************************************************************)
(* Money failed by a tool is given back.                                   *)
(***************************************************************************)
LEMMA ToolFailKeeps ==
    ASSUME Inv, NEW x \in AutoRefs, ToolFail(x)
    PROVE  Inv'
<1>1. TypeOK /\ Room
    BY DEF Inv
<1> DEFINE row == [transfer[x] EXCEPT !.status = "failed"]
<1>2. /\ transfer[x].status \in {"pending", "processing"}
      /\ transfer' = [transfer EXCEPT ![x] = row]
      /\ balance' = balance + transfer[x].amount /\ wake' = (wake \/ x \in AutoRefs)
      /\ UNCHANGED <<usedBy, exchanged, conversion, claim, call>>
      /\ UNCHANGED <<schedule, posts, crashes>> /\ UNCHANGED run
      /\ UNCHANGED <<settled, approved, indexed, sjob, ajob, post>>
    BY DEF ToolFail
<1>3. x \in Refs /\ transfer \in [Refs -> TransferRow] /\ transfer[x] \in TransferRow
    BY <1>1, Apart DEF TypeOK
<1>4. /\ row \in TransferRow /\ row.status = "failed" /\ row.quote = transfer[x].quote
      /\ row.of = transfer[x].of /\ row.amount = transfer[x].amount
    BY <1>3 DEF TransferRow
<1> HIDE DEF row
<1>5. /\ transfer' \in [Refs -> TransferRow] /\ transfer'[x] = row
      /\ \A y \in Refs : y # x => transfer'[y] = transfer[y]
    BY <1>2, <1>3, <1>4
<1>6. Advanced
    BY <1>2, <1>4, <1>5 DEF Advanced
<1>7. balance' \in Int
    BY <1>1, <1>2, <1>3 DEF TypeOK, TransferRow
<1>8. wake' \in BOOLEAN
    BY <1>1, <1>2 DEF TypeOK
<1>9. TypeOK'
    BY <1>1, <1>2, <1>5, <1>7, <1>8 DEF TypeOK
<1>10. Room'
    BY <1>1, <1>2, RoomStays
<1> QED
    BY <1>2, <1>6, <1>9, <1>10, Around

(***************************************************************************)
(* Collections settle and destinations change without touching the rest.   *)
(***************************************************************************)
LEMMA SettleKeeps ==
    ASSUME Inv, (\E c \in Collections : Settle(c)) \/ ChangeDestination
    PROVE  Inv'
<1>1. TypeOK /\ Room
    BY DEF Inv
<1>2. /\ UNCHANGED transfer /\ UNCHANGED <<usedBy, exchanged, conversion, claim, call>>
      /\ UNCHANGED <<schedule, posts, crashes>> /\ UNCHANGED run
      /\ UNCHANGED <<indexed, sjob, ajob, post>>
    BY DEF Settle, ChangeDestination
<1>3. balance' \in Int /\ settled' \subseteq Collections
    <2>1. ASSUME NEW c \in Collections, Settle(c)
          PROVE  balance' \in Int /\ settled' \subseteq Collections
        <3>1. Price[c] \in Nat
            BY MoneyAssumption DEF Collections
        <3> QED
            BY <1>1, <2>1, <3>1 DEF Settle, TypeOK
    <2>2. CASE ChangeDestination
        BY <1>1, <2>2 DEF ChangeDestination, TypeOK
    <2> QED
        BY <2>1, <2>2
<1>4. approved' \in BOOLEAN /\ wake' \in BOOLEAN
    BY <1>1 DEF Settle, ChangeDestination, TypeOK
<1>5. TypeOK'
    BY <1>1, <1>2, <1>3, <1>4 DEF TypeOK
<1>6. Room' /\ Advanced
    BY <1>1, <1>2, RoomStays, LeftAlone
<1> QED
    BY <1>2, <1>5, <1>6, Around

(***************************************************************************)
(* A job queued takes a free slot; a group cancelled leaves what runs.     *)
(***************************************************************************)
LEMMA SlotsKept ==
    ASSUME TypeOK, NEW v \in Version, Enqueued(v) \/ cancelGroup \/ UNCHANGED sjob
    PROVE  sjob' \in [Slots -> [version : Version, status : {"none", "ready", "running"}]]
<1> DEFINE Row == [version : Version, status : {"none", "ready", "running"}]
<1>1. sjob \in [Slots -> Row] /\ NoJob \in Row
    BY RowsAtRest DEF TypeOK
<1>2. ASSUME Enqueued(v) PROVE sjob' \in [Slots -> Row]
    <2>1. PICK s : sjob' = [sjob EXCEPT ![s] = [version |-> v, status |-> "ready"]]
        BY <1>2 DEF Enqueued
    <2>2. [version |-> v, status |-> "ready"] \in Row
        OBVIOUS
    <2> QED
        BY <1>1, <2>1, <2>2
<1>3. CASE cancelGroup
    BY <1>1, <1>3 DEF cancelGroup
<1> QED
    BY <1>1, <1>2, <1>3

(***************************************************************************)
(* A job that was advanced queues its next stage, and is completed.        *)
(***************************************************************************)
LEMMA QueueSettleKeeps ==
    ASSUME Inv, QueueSettle
    PROVE  Inv'
<1>1. TypeOK /\ Room
    BY DEF Inv
<1>2. /\ run.pc = "queue" /\ run' = [run EXCEPT !.pc = "complete"]
      /\ ajob' = [ajob EXCEPT ![run.ref] = ajob[run.ref] \cup {"settle"}]
      /\ UNCHANGED transfer /\ UNCHANGED <<usedBy, exchanged, conversion, claim, call>>
      /\ UNCHANGED <<schedule, posts, crashes>>
      /\ UNCHANGED <<balance, settled, approved, indexed, sjob, post, wake>>
    BY DEF QueueSettle, money
<1>3. run' \in RunRow /\ run'.pc = "complete"
    BY <1>1, <1>2 DEF TypeOK, RunRow
<1>4. ajob' \in [Refs -> SUBSET {"processing", "settle"}]
    BY <1>1, <1>2 DEF TypeOK
<1>5. TypeOK'
    BY <1>1, <1>2, <1>3, <1>4 DEF TypeOK
<1>6. Room' /\ Advanced
    BY <1>1, <1>2, <1>3, RoomStays, LeftAlone DEF Saving
<1> QED
    BY <1>2, <1>3, <1>5, <1>6, Around

\* The job that ran is completed.
LEMMA CompleteKeeps ==
    ASSUME Inv, Complete
    PROVE  Inv'
<1>1. TypeOK /\ Room
    BY DEF Inv
<1>2. /\ run.pc = "complete" /\ run' = NoRun
      /\ UNCHANGED transfer /\ UNCHANGED <<usedBy, exchanged, conversion, claim, call>>
      /\ UNCHANGED <<schedule, posts, crashes>>
      /\ UNCHANGED <<balance, settled, approved, indexed, post, wake>>
      /\ \/ /\ ajob' = [ajob EXCEPT ![run.ref] = ajob[run.ref] \ {run.stage}]
            /\ UNCHANGED sjob
         \/ sjob' = [sjob EXCEPT ![run.slot] = NoJob] /\ UNCHANGED ajob
    BY DEF Complete, money
<1>3. run' \in RunRow /\ run'.pc = "idle"
    BY <1>2, RowsAtRest DEF NoRun
<1>4. /\ ajob' \in [Refs -> SUBSET {"processing", "settle"}]
      /\ sjob' \in [Slots -> [version : Version, status : {"none", "ready", "running"}]]
    <2> DEFINE Row == [version : Version, status : {"none", "ready", "running"}]
    <2>1. /\ sjob \in [Slots -> Row] /\ NoJob \in Row
          /\ ajob \in [Refs -> SUBSET {"processing", "settle"}]
        BY <1>1, RowsAtRest DEF TypeOK
    <2>2. CASE ajob' = [ajob EXCEPT ![run.ref] = ajob[run.ref] \ {run.stage}] /\ UNCHANGED sjob
        BY <2>1, <2>2
    <2>3. CASE sjob' = [sjob EXCEPT ![run.slot] = NoJob] /\ UNCHANGED ajob
        BY <2>1, <2>3
    <2> QED
        BY <1>2, <2>2, <2>3
<1>5. TypeOK'
    BY <1>1, <1>2, <1>3, <1>4 DEF TypeOK
<1>6. Room' /\ Advanced
    BY <1>1, <1>2, <1>3, RoomStays, LeftAlone DEF Saving
<1> QED
    BY <1>2, <1>3, <1>5, <1>6, Around

(***************************************************************************)
(* A schedule's job starts while there is room for the save that ends it.  *)
(***************************************************************************)
LEMMA StartRunKeeps ==
    ASSUME Inv, NEW s \in Slots, StartRun(s)
    PROVE  Inv'
<1>1. TypeOK /\ Room
    BY DEF Inv
<1>2. /\ run.pc = "idle" /\ schedule.version < MaxVersion - (MaxFaults - posts - crashes)
      /\ sjob' = [sjob EXCEPT ![s].status = "running"]
      /\ UNCHANGED transfer /\ UNCHANGED <<usedBy, exchanged, conversion, claim, call>>
      /\ UNCHANGED <<schedule, posts, crashes>>
      /\ UNCHANGED <<balance, settled, approved, indexed, ajob, post, wake>>
      /\ \E pc \in {"complete", "collect"} : run' = [NoRun EXCEPT !.slot = s, !.pc = pc]
    BY DEF StartRun, money
<1>3. run' \in RunRow /\ run'.pc \in {"complete", "collect"}
    <2>1. PICK pc \in {"complete", "collect"} : run' = [NoRun EXCEPT !.slot = s, !.pc = pc]
        BY <1>2
    <2> QED
        BY <2>1, RowsAtRest DEF RunRow, NoRun
<1>4. sjob' \in [Slots -> [version : Version, status : {"none", "ready", "running"}]]
    BY <1>1, <1>2 DEF TypeOK
<1>5. TypeOK'
    BY <1>1, <1>2, <1>3, <1>4 DEF TypeOK
<1>6. Room'
    <2>1. /\ schedule.version \in Int /\ MaxVersion \in Int /\ MaxFaults \in Int
          /\ posts \in Int /\ crashes \in Int
        BY <1>1, RunFields DEF Version
    <2> QED
        BY <1>1, <1>2, <2>1 DEF Room
<1>7. Advanced
    BY <1>2, LeftAlone
<1> QED
    BY <1>2, <1>3, <1>5, <1>6, <1>7, Around

(***************************************************************************)
(* What to save is worked out from the schedule as it is read again.       *)
(***************************************************************************)
LEMMA RereadKeeps ==
    ASSUME Inv, Reread
    PROVE  Inv'
<1>1. TypeOK /\ Room
    BY DEF Inv
<1> DEFINE failures == IF run.error THEN schedule.failures + 1 ELSE 0
           next == IF failures >= Limit
                   THEN [schedule EXCEPT !.interval = "manual", !.failures = 0]
                   ELSE [schedule EXCEPT !.failures = failures]
<1>2. /\ run.pc = "reread" /\ run' = [run EXCEPT !.pc = "put", !.next = next]
      /\ UNCHANGED transfer /\ UNCHANGED <<usedBy, exchanged, conversion, claim, call>>
      /\ UNCHANGED <<schedule, posts, crashes>>
      /\ UNCHANGED <<balance, settled, approved, indexed, sjob, ajob, post, wake>>
    BY DEF Reread, money
<1>3. next \in ScheduleRow
    <2>1. schedule \in ScheduleRow /\ failures \in Nat
        BY <1>1, RunFields DEF ScheduleRow
    <2> HIDE DEF failures
    <2> QED
        BY <2>1 DEF ScheduleRow, Settings
<1> HIDE DEF next
<1>4. run' \in RunRow /\ run'.pc = "put"
    BY <1>1, <1>2, <1>3 DEF TypeOK, RunRow
<1>5. TypeOK'
    BY <1>1, <1>2, <1>4 DEF TypeOK
<1>6. Room' /\ Advanced
    BY <1>1, <1>2, <1>4, RoomStays, LeftAlone DEF Saving
<1> QED
    BY <1>2, <1>4, <1>5, <1>6, Around

(***************************************************************************)
(* A run saves its schedule once, with the room kept for it.               *)
(***************************************************************************)
LEMMA SaveRunKeeps ==
    ASSUME Inv, SaveRun
    PROVE  Inv'
<1>1. TypeOK /\ Room
    BY DEF Inv
<1>2. /\ run.pc \in {"put", "cancel", "enqueue"}
      /\ UNCHANGED transfer /\ UNCHANGED <<usedBy, exchanged, conversion, claim, call>>
      /\ UNCHANGED <<posts, crashes>>
      /\ UNCHANGED <<balance, settled, approved, indexed, ajob, post, wake>>
    BY DEF SaveRun, money
<1>3. run.next \in ScheduleRow /\ run.next.version \in Version
    BY <1>1, RunFields DEF ScheduleRow
<1>4. /\ sjob' \in [Slots -> [version : Version, status : {"none", "ready", "running"}]]
      /\ run' \in RunRow /\ run'.pc \in {"cancel", "enqueue", "complete"}
      /\ schedule' \in ScheduleRow
      /\ Room'
    <2>1. CASE run.pc = "put"
        <3> DEFINE v == schedule.version + 1
        <3>1. /\ UNCHANGED sjob /\ schedule' = [run.next EXCEPT !.version = v]
              /\ run' = [run EXCEPT !.pc = "cancel", !.next.version = v]
            BY <2>1 DEF SaveRun, Put
        <3>2. /\ schedule.version \in Int /\ MaxVersion \in Int /\ MaxFaults \in Int
              /\ posts \in Int /\ crashes \in Int /\ schedule.version >= 0
            BY <1>1, RunFields DEF Version
        <3>3. schedule.version + (MaxFaults - posts - crashes) + 1 <= MaxVersion
              /\ posts + crashes <= MaxFaults
            BY <1>1, <2>1 DEF Room, Saving
        <3>4. v \in Version /\ v \in Int /\ v + (MaxFaults - posts - crashes) <= MaxVersion
            BY <3>2, <3>3 DEF Version
        <3>5. v = schedule.version + 1
            OBVIOUS
        <3> HIDE DEF v
        <3>6. schedule' \in ScheduleRow /\ schedule'.version = v
            BY <1>3, <3>1, <3>4 DEF ScheduleRow
        <3> DEFINE later == [run.next EXCEPT !.version = v]
        <3>7. later \in ScheduleRow
            BY <1>3, <3>4 DEF ScheduleRow
        <3>8. run' = [run EXCEPT !.pc = "cancel", !.next = later]
            BY <3>1
        <3> HIDE DEF later
        <3>9. run' \in RunRow /\ run'.pc = "cancel"
            BY <1>1, <3>7, <3>8 DEF TypeOK, RunRow
        <3>10. sjob' \in [Slots -> [version : Version, status : {"none", "ready", "running"}]]
            BY <1>1, <3>1 DEF TypeOK
        <3>11. Room'
            BY <1>2, <3>2, <3>3, <3>4, <3>6, <3>9 DEF Room, Saving
        <3> QED
            BY <3>6, <3>9, <3>10, <3>11
    <2>2. CASE run.pc # "put"
        <3>1. /\ UNCHANGED schedule
              /\ \E pc \in {"enqueue", "complete"} : run' = [run EXCEPT !.pc = pc]
              /\ cancelGroup \/ Enqueued(run.next.version)
            BY <2>2 DEF SaveRun
        <3>2. run' \in RunRow /\ run'.pc \in {"enqueue", "complete"}
            BY <1>1, <3>1 DEF TypeOK, RunRow
        <3>3. sjob' \in [Slots -> [version : Version, status : {"none", "ready", "running"}]]
            BY <1>1, <1>3, <3>1, SlotsKept
        <3>4. schedule' \in ScheduleRow
            BY <1>1, <3>1, RunFields
        <3>5. Room'
            BY <1>1, <1>2, <3>1, <3>2, RoomStays DEF Saving
        <3> QED
            BY <3>2, <3>3, <3>4, <3>5
    <2> QED
        BY <2>1, <2>2
<1>5. TypeOK'
    BY <1>1, <1>2, <1>4 DEF TypeOK
<1>6. Advanced
    BY <1>2, LeftAlone
<1> QED
    BY <1>2, <1>4, <1>5, <1>6, Around

(***************************************************************************)
(* The merchant's settings are saved within the bound.                     *)
(***************************************************************************)
LEMMA PostSettingsKeeps ==
    ASSUME Inv, NEW i \in Intervals, PostSettings(i)
    PROVE  Inv'
<1>1. TypeOK /\ Room
    BY DEF Inv
<1> DEFINE v == schedule.version + 1
<1>2. /\ posts + crashes < MaxFaults /\ posts' = posts + 1 /\ UNCHANGED crashes
      /\ schedule' = [interval |-> i, version |-> v, failures |-> 0]
      /\ post' = [pc |-> "cancel", interval |-> i, version |-> v]
      /\ UNCHANGED transfer /\ UNCHANGED <<usedBy, exchanged, conversion, claim, call>>
      /\ UNCHANGED run
      /\ UNCHANGED <<balance, settled, approved, indexed, sjob, ajob, wake>>
    BY DEF PostSettings, Put, money
<1>3. /\ schedule.version \in Int /\ MaxVersion \in Int /\ MaxFaults \in Int
      /\ posts \in Nat /\ crashes \in Nat /\ schedule.version >= 0
    BY <1>1, RunFields DEF Version
<1> DEFINE saves == IF run.pc \in Saving THEN 1 ELSE 0
<1>4. /\ schedule.version + (MaxFaults - posts - crashes) + saves <= MaxVersion
      /\ saves \in {0, 1}
    BY <1>1 DEF Room
<1>5. v \in Version /\ v \in Int
      /\ v + (MaxFaults - (posts + 1) - crashes) + saves <= MaxVersion
    BY <1>2, <1>3, <1>4 DEF Version
<1> HIDE DEF v
<1>6. schedule' \in ScheduleRow /\ post' \in PostRow /\ schedule'.version = v
    BY <1>2, <1>5 DEF ScheduleRow, PostRow, Settings
<1>7. Room'
    BY <1>2, <1>3, <1>5, <1>6 DEF Room
<1>8. posts' \in Nat
    BY <1>2, <1>3
<1>9. TypeOK'
    BY <1>1, <1>2, <1>6, <1>8 DEF TypeOK
<1>10. Advanced
    BY <1>2, LeftAlone
<1> QED
    BY <1>2, <1>7, <1>9, <1>10, Around

(***************************************************************************)
(* Saving the settings goes on with the schedule's jobs alone, and so does *)
(* the handler that queues an instant run.                                 *)
(***************************************************************************)
LEMMA SavePostKeeps ==
    ASSUME Inv, SavePost \/ QueueInstant
    PROVE  Inv'
<1>1. TypeOK /\ Room
    BY DEF Inv
<1>2. /\ UNCHANGED transfer /\ UNCHANGED <<usedBy, exchanged, conversion, claim, call>>
      /\ UNCHANGED <<schedule, posts, crashes>> /\ UNCHANGED run
      /\ UNCHANGED <<balance, settled, approved, indexed, ajob>>
    BY DEF SavePost, QueueInstant, money
<1>3. post.version \in Version /\ schedule.version \in Version
    BY <1>1, RunFields DEF TypeOK, PostRow
<1>4. cancelGroup \/ Enqueued(post.version) \/ Enqueued(schedule.version) \/ UNCHANGED sjob
    BY DEF SavePost, QueueInstant
<1>5. sjob' \in [Slots -> [version : Version, status : {"none", "ready", "running"}]]
    BY <1>1, <1>3, <1>4, SlotsKept
<1>6. post' \in PostRow
    <2>1. post' \in {post, NoPost, [post EXCEPT !.pc = "enqueue"]}
        BY DEF SavePost, QueueInstant
    <2> QED
        BY <1>1, <2>1, RowsAtRest DEF TypeOK, PostRow
<1>7. wake' \in BOOLEAN
    BY <1>1 DEF SavePost, QueueInstant, TypeOK
<1>8. TypeOK'
    BY <1>1, <1>2, <1>5, <1>6, <1>7 DEF TypeOK
<1>9. Room' /\ Advanced
    BY <1>1, <1>2, RoomStays, LeftAlone
<1> QED
    BY <1>2, <1>8, <1>9, Around

-----------------------------------------------------------------------------
(***************************************************************************)
(* The run's own payout                                                    *)
(***************************************************************************)

(***************************************************************************)
(* A step of the run outside the lock, which moves no money: what is said  *)
(* of the run and of its claims is to be shown, the rest is kept.          *)
(***************************************************************************)
LEMMA OwnStep ==
    ASSUME Inv, TypeOK', Room', RunInv', Held',
           UNCHANGED transfer, UNCHANGED <<usedBy, exchanged>>, UNCHANGED conversion,
           \A r \in Requests : call'[r] = call[r],
           call'[Run].pc \notin Busy, call'[Run].kind = "payout",
           call'[Run].quote = NoQuote,
           run'.pc # "pay" => call'[Run] = NoCall
    PROVE  Inv'
<1>1. TypeOK /\ LockHeld /\ CallInv /\ QuoteInv
    BY DEF Inv
<1>2. \A w \in Callers : w = Run \/ call'[w] = call[w]
    BY Apart
<1>3. LockHeld'
    BY <1>1, <1>2, LockKept
<1>4. CallInv'
    <2>1. ASSUME NEW w \in Callers
          PROVE  /\ call'[w].pc \in {"enqueue", "create", "index"} => call'[w].kind = "payout"
                 /\ call'[w].pc \in {"record", "exchange", "delete", "complete"} =>
                       call'[w].kind = "conversion"
                 /\ call'[w].kind = "conversion" => call'[w].quote \in Quotes
        <3>1. CASE w = Run
            BY <3>1 DEF Busy
        <3>2. CASE w # Run
            BY <1>1, <1>2, <3>2 DEF CallInv
        <3> QED
            BY <3>1, <3>2
    <2>2. \A r \in Requests : call'[r].kind = "payout" /\ call'[r].pc \notin {"idle", "failed"}
                                => call'[r].ref \in AskedRefs
        BY <1>1 DEF CallInv
    <2> QED
        BY <2>1, <2>2 DEF CallInv
<1>5. QuoteInv'
    <2>1. ASSUME NEW r \in exchanged
          PROVE  /\ call'[r].pc \in {"complete", "done", "failed"}
                 /\ call'[r].quote \in {NoQuote, call[r].quote}
                 /\ conversion'[r] # "none"
        BY <1>1 DEF QuoteInv, TypeOK
    <2>2. \A w \in Callers : call'[w].pc \in Using => call'[w] = call[w]
        BY <1>2 DEF Using, Busy
    <2>3. \A r \in Requests : call'[r].pc = "exchange" => conversion'[r] # "none"
        BY <1>1 DEF QuoteInv
    <2>4. Advanced
        BY LeftAlone
    <2> QED
        BY <1>1, <2>1, <2>2, <2>3, <2>4, QuotesKept
<1> QED
    BY <1>3, <1>4, <1>5 DEF Inv

(***************************************************************************)
(* What a run takes is eligible, so no live payout holds it.               *)
(***************************************************************************)
LEMMA TakenFree ==
    ASSUME TypeOK
    PROVE  Taken \in SUBSET Collections /\ \A c \in Taken : Free(c)
<1>1. \A c \in Taken : c \in eligible
    BY DEF Taken
<1>2. \A c \in eligible : c \in Collections /\ c \notin liveClaims
    BY DEF eligible, TypeOK
<1>3. ASSUME NEW c \in Collections, c \notin liveClaims, NEW x \in AutoRefs, Live(x)
      PROVE  claim[c] # x
    BY <1>3, Apart DEF liveClaims
<1> QED
    BY <1>1, <1>2, <1>3 DEF Free

(***************************************************************************)
(* A run that collects has no call of its own, and chooses a fresh         *)
(* reference.                                                              *)
(***************************************************************************)
LEMMA CollectKeeps ==
    ASSUME Inv, Collect
    PROVE  Inv'
<1>1. TypeOK /\ Room /\ CallInv /\ Held
    BY DEF Inv
<1>2. /\ run.pc = "collect"
      /\ UNCHANGED transfer /\ UNCHANGED <<usedBy, exchanged, conversion, claim, call>>
      /\ UNCHANGED <<schedule, posts, crashes>>
      /\ UNCHANGED <<balance, settled, approved, indexed, sjob, ajob, post, wake>>
    BY DEF Collect, money
<1>3. Advanced
    BY <1>2, LeftAlone
<1>4. ASSUME \/ run' = [run EXCEPT !.pc = "reread"]
             \/ run' = [run EXCEPT !.pc = "reread", !.error = TRUE]
      PROVE  Inv'
    <2>1. run' \in RunRow /\ run'.pc = "reread"
        <3>1. CASE run' = [run EXCEPT !.pc = "reread"]
            BY <1>1, <3>1 DEF TypeOK, RunRow
        <3>2. CASE run' = [run EXCEPT !.pc = "reread", !.error = TRUE]
            BY <1>1, <3>2 DEF TypeOK, RunRow
        <3> QED
            BY <1>4, <3>1, <3>2
    <2>2. TypeOK'
        BY <1>1, <1>2, <2>1 DEF TypeOK
    <2>3. Room'
        BY <1>1, <1>2, <2>1, RoomStays DEF Saving
    <2> QED
        BY <1>2, <1>3, <2>1, <2>2, <2>3, Around
<1>5. ASSUME NEW ref \in FreshRefs,
             run' = [run EXCEPT !.pc = "claim", !.taken = Taken, !.ref = ref]
      PROVE  Inv'
    <2>1. ref \in AutoRefs /\ ref \in Refs /\ transfer[ref].status = "none"
        BY <1>5, Apart DEF FreshRefs
    <2>2. Taken \in SUBSET Collections /\ \A c \in Taken : Free(c)
        BY <1>1, TakenFree
    <2>3. /\ run' \in RunRow /\ run'.pc = "claim" /\ run'.ref = ref
          /\ run'.taken = Taken
        BY <1>1, <1>5, <2>1, <2>2 DEF TypeOK, RunRow
    <2>4. TypeOK'
        BY <1>1, <1>2, <2>3 DEF TypeOK
    <2>5. Room'
        BY <1>1, <1>2, <2>3, RoomStays DEF Saving
    <2>6. \A c \in run'.taken : Free(c)'
        BY <1>2, <2>2, <2>3 DEF Free, Live
    <2>7. RunInv'
        BY <1>2, <2>1, <2>3, <2>6 DEF RunInv
    <2>8. UNCHANGED claim /\ UNCHANGED call
        BY <1>2
    <2>9. Held'
        BY <1>1, <1>3, <2>8, HeldKept
    <2>10. call[Run] = NoCall
        BY <1>1, <1>2 DEF CallInv
    <2>11. call'[Run].pc \notin Busy /\ call'[Run].kind = "payout"
           /\ call'[Run].quote = NoQuote /\ call'[Run] = NoCall
        BY <2>8, <2>10 DEF NoCall, Busy
    <2> QED
        BY <1>2, <2>4, <2>5, <2>7, <2>8, <2>9, <2>11, OwnStep
<1>6. \/ run' = [run EXCEPT !.pc = "reread"]
      \/ run' = [run EXCEPT !.pc = "reread", !.error = TRUE]
      \/ \E ref \in FreshRefs :
            run' = [run EXCEPT !.pc = "claim", !.taken = Taken, !.ref = ref]
    BY DEF Collect, Least
<1> QED
    BY <1>4, <1>5, <1>6

(***************************************************************************)
(* A run claims what is free for its reference, which has no payout yet,   *)
(* and asks for the payout once it holds all of it.                        *)
(***************************************************************************)
LEMMA ClaimKeeps ==
    ASSUME Inv, Claim
    PROVE  Inv'
<1>1. TypeOK /\ Room /\ CallInv /\ RunInv /\ Held
    BY DEF Inv
<1> DEFINE free == {c \in run.taken : claim[c] # run.ref}
<1>2. /\ run.pc = "claim"
      /\ UNCHANGED transfer /\ UNCHANGED <<usedBy, exchanged>> /\ UNCHANGED conversion
      /\ UNCHANGED <<schedule, posts, crashes>>
      /\ UNCHANGED <<balance, settled, approved, indexed, sjob, ajob, post, wake>>
    BY DEF Claim, money
<1>3. /\ run.ref \in AutoRefs /\ run.ref \in Refs /\ transfer[run.ref].status = "none"
      /\ \A c \in run.taken : Free(c)
      /\ run.taken \in SUBSET Collections /\ call[Run] = NoCall
    BY <1>1, <1>2, RunFields, Apart DEF RunInv, CallInv
<1>4. ASSUME NEW c \in free, claim' = [claim EXCEPT ![c] = run.ref], UNCHANGED <<run, call>>
      PROVE  Inv'
    <2>1. /\ c \in run.taken /\ c \in Collections
          /\ claim \in [Collections -> AutoRefs \cup {0}]
        BY <1>1, <1>3, <1>4 DEF TypeOK
    <2>2. /\ claim' \in [Collections -> AutoRefs \cup {0}] /\ claim'[c] = run.ref
          /\ \A d \in Collections : d # c => claim'[d] = claim[d]
        BY <1>3, <1>4, <2>1
    <2>3. UNCHANGED run /\ UNCHANGED call
        BY <1>4
    <2>4. TypeOK'
        BY <1>1, <1>2, <2>2, <2>3 DEF TypeOK
    <2>5. Room'
        BY <1>1, <1>2, <2>3, RoomStays
    <2>6. Held'
        <3> SUFFICES ASSUME NEW x \in AutoRefs, Live(x)
                     PROVE  \A d \in transfer[x].of : claim'[d] = x
            BY <1>1, <1>2 DEF Held, Live
        <3>1. \A d \in transfer[x].of : claim[d] = x /\ d \in Collections
            BY <1>1, Apart DEF Held, TypeOK, TransferRow
        <3>2. claim[c] # x
            BY <1>3, <2>1 DEF Free
        <3> QED
            BY <2>2, <3>1, <3>2
    <2>7. RunInv'
        <3>1. ASSUME NEW d \in run.taken, NEW x \in AutoRefs, Live(x)
              PROVE  claim'[d] # x
            <4>1. d \in Collections /\ claim[d] # x /\ x # run.ref
                BY <1>3, <3>1 DEF Free, Live
            <4> QED
                BY <2>2, <4>1
        <3>2. \A d \in run'.taken : Free(d)'
            BY <1>2, <2>3, <3>1 DEF Free, Live
        <3> QED
            BY <1>2, <1>3, <2>3, <3>2 DEF RunInv
    <2>8. call'[Run].pc \notin Busy /\ call'[Run].kind = "payout"
          /\ call'[Run].quote = NoQuote /\ call'[Run] = NoCall
        BY <1>3, <2>3 DEF NoCall, Busy
    <2> QED
        BY <1>2, <2>3, <2>4, <2>5, <2>6, <2>7, <2>8, OwnStep
<1> DEFINE row == [NoCall EXCEPT !.pc = "waiting", !.ref = run.ref,
                                 !.amount = Owed(run.taken), !.of = run.taken]
<1>5. ASSUME free = {}, call' = [call EXCEPT ![Run] = row],
             run' = [run EXCEPT !.pc = "pay"], UNCHANGED claim
      PROVE  Inv'
    <2>1. Owed(run.taken) \in Nat
        BY <1>3, OwedNat
    <2>2. /\ row \in CallRow /\ row.pc = "waiting" /\ row.kind = "payout"
          /\ row.quote = NoQuote /\ row.ref = run.ref
          /\ row.amount = Owed(run.taken) /\ row.of = run.taken
        BY <1>3, <2>1 DEF NoCall, CallRow
    <2>3. \A c \in run.taken : claim[c] = run.ref
        BY <1>5
    <2>4. call' = [call EXCEPT ![Run] = row]
        BY <1>5
    <2> HIDE DEF row
    <2>5. /\ call' \in [Callers -> CallRow] /\ call'[Run] = row
          /\ \A r \in Requests : call'[r] = call[r]
        BY <1>1, <2>2, <2>4, Apart DEF TypeOK
    <2>6. /\ run' \in RunRow /\ run'.pc = "pay" /\ run'.ref = run.ref
          /\ run'.taken = run.taken
        BY <1>1, <1>5 DEF TypeOK, RunRow
    <2>7. TypeOK'
        BY <1>1, <1>2, <1>5, <2>5, <2>6 DEF TypeOK
    <2>8. Room'
        BY <1>1, <1>2, <2>6, RoomStays DEF Saving
    <2>9. Held'
        BY <1>1, <1>2, <1>5, HeldKept, LeftAlone
    <2>10. RunInv'
        BY <1>2, <1>3, <1>5, <2>2, <2>3, <2>5, <2>6 DEF RunInv
    <2>11. call'[Run].pc \notin Busy
        BY <2>2, <2>5 DEF Busy
    <2>12. call'[Run].kind = "payout" /\ call'[Run].quote = NoQuote
        BY <2>2, <2>5
    <2> QED
        BY <1>2, <2>5, <2>6, <2>7, <2>8, <2>9, <2>10, <2>11, <2>12, OwnStep
<1>6. \/ /\ \E c \in free : claim' = [claim EXCEPT ![c] = run.ref]
         /\ UNCHANGED <<run, call>>
      \/ free = {} /\ call' = [call EXCEPT ![Run] = row]
         /\ run' = [run EXCEPT !.pc = "pay"] /\ UNCHANGED claim
    BY DEF Claim, Least
<1> QED
    BY <1>4, <1>5, <1>6

(***************************************************************************)
(* A run that paid saves the schedule; one that could not has no payout    *)
(* and gives its claims back first.                                        *)
(***************************************************************************)
LEMMA PaidKeeps ==
    ASSUME Inv, Paid
    PROVE  Inv'
<1>1. TypeOK /\ Room /\ CallInv /\ RunInv /\ Held
    BY DEF Inv
<1>2. /\ run.pc = "pay" /\ call' = [call EXCEPT ![Run] = NoCall]
      /\ UNCHANGED transfer /\ UNCHANGED <<usedBy, exchanged>> /\ UNCHANGED conversion
      /\ UNCHANGED <<schedule, posts, crashes>> /\ UNCHANGED claim
      /\ UNCHANGED <<balance, settled, approved, indexed, sjob, ajob, post, wake>>
      /\ \/ run' = [run EXCEPT !.pc = "reread"]
         \/ call[Run].pc = "failed" /\ run' = [run EXCEPT !.pc = "release", !.error = TRUE]
    BY DEF Paid, At, money
<1>3. /\ call' \in [Callers -> CallRow] /\ call'[Run] = NoCall
      /\ \A r \in Requests : call'[r] = call[r]
    BY <1>1, <1>2, RowsAtRest, Apart DEF TypeOK
<1>4. /\ run' \in RunRow /\ run'.pc \in {"reread", "release"}
      /\ run'.pc = "release" => call[Run].pc = "failed"
      /\ run'.ref = run.ref /\ run'.taken = run.taken
    <2>1. run \in RunRow
        BY <1>1 DEF TypeOK
    <2>2. CASE run' = [run EXCEPT !.pc = "reread"]
        BY <2>1, <2>2 DEF RunRow
    <2>3. CASE call[Run].pc = "failed" /\ run' = [run EXCEPT !.pc = "release", !.error = TRUE]
        BY <2>1, <2>3 DEF RunRow
    <2> QED
        BY <1>2, <2>2, <2>3
<1>5. TypeOK'
    BY <1>1, <1>2, <1>3, <1>4 DEF TypeOK
<1>6. Room'
    BY <1>1, <1>2, <1>4, RoomStays DEF Saving
<1>7. Held'
    BY <1>1, <1>2, HeldKept, LeftAlone
<1>8. RunInv'
    BY <1>1, <1>2, <1>4 DEF RunInv
<1>9. call'[Run].pc \notin Busy /\ call'[Run].kind = "payout"
      /\ call'[Run].quote = NoQuote
    BY <1>3 DEF NoCall, Busy
<1> QED
    BY <1>2, <1>3, <1>5, <1>6, <1>7, <1>8, <1>9, OwnStep

(***************************************************************************)
(* A claim given back was held for a payout that is not there.             *)
(***************************************************************************)
LEMMA ReleaseKeeps ==
    ASSUME Inv, Release
    PROVE  Inv'
<1>1. TypeOK /\ Room /\ CallInv /\ RunInv /\ Held
    BY DEF Inv
<1> DEFINE held == {c \in run.taken : claim[c] # 0}
<1>2. /\ run.pc = "release"
      /\ UNCHANGED transfer /\ UNCHANGED <<usedBy, exchanged>> /\ UNCHANGED conversion
      /\ UNCHANGED <<schedule, posts, crashes>> /\ UNCHANGED call
      /\ UNCHANGED <<balance, settled, approved, indexed, sjob, ajob, post, wake>>
    BY DEF Release, money
<1>3. /\ run.ref \in AutoRefs /\ transfer[run.ref].status = "none"
      /\ \A c \in run.taken : claim[c] \in {0, run.ref}
      /\ run.taken \in SUBSET Collections /\ call[Run] = NoCall
    BY <1>1, <1>2, RunFields DEF RunInv, CallInv
<1>4. ASSUME NEW c \in held, claim' = [claim EXCEPT ![c] = 0], UNCHANGED run
      PROVE  Inv'
    <2>1. /\ c \in run.taken /\ c \in Collections /\ claim[c] = run.ref
          /\ claim \in [Collections -> AutoRefs \cup {0}]
        BY <1>1, <1>3, <1>4 DEF TypeOK
    <2>2. /\ claim' \in [Collections -> AutoRefs \cup {0}] /\ claim'[c] = 0
          /\ \A d \in Collections : d # c => claim'[d] = claim[d]
        BY <1>4, <2>1
    <2>3. TypeOK'
        BY <1>1, <1>2, <1>4, <2>2 DEF TypeOK
    <2>4. Room'
        BY <1>1, <1>2, <1>4, RoomStays
    <2>5. Held'
        <3> SUFFICES ASSUME NEW x \in AutoRefs, Live(x)
                     PROVE  \A d \in transfer[x].of : claim'[d] = x
            BY <1>1, <1>2 DEF Held, Live
        <3>1. \A d \in transfer[x].of : claim[d] = x /\ d \in Collections
            BY <1>1, Apart DEF Held, TypeOK, TransferRow
        <3>2. claim[c] # x
            BY <1>3, <2>1 DEF Live
        <3> QED
            BY <2>2, <3>1, <3>2
    <2>6. RunInv'
        <3>1. \A d \in run'.taken : claim'[d] \in {0, run'.ref}
            BY <1>3, <1>4, <2>2
        <3> QED
            BY <1>2, <1>3, <1>4, <3>1 DEF RunInv
    <2>7. call'[Run].pc \notin Busy /\ call'[Run].kind = "payout"
          /\ call'[Run].quote = NoQuote /\ call'[Run] = NoCall
        BY <1>2, <1>3 DEF NoCall, Busy
    <2> QED
        BY <1>2, <2>3, <2>4, <2>5, <2>6, <2>7, OwnStep
<1>5. ASSUME run' = [run EXCEPT !.pc = "reread"], UNCHANGED claim
      PROVE  Inv'
    <2>1. run' \in RunRow /\ run'.pc = "reread"
        BY <1>1, <1>5 DEF TypeOK, RunRow
    <2>2. TypeOK'
        BY <1>1, <1>2, <1>5, <2>1 DEF TypeOK
    <2>3. Room' /\ Advanced
        BY <1>1, <1>2, <2>1, RoomStays, LeftAlone DEF Saving
    <2> QED
        BY <1>2, <1>5, <2>1, <2>2, <2>3, Around
<1>6. \/ (\E c \in held : claim' = [claim EXCEPT ![c] = 0]) /\ UNCHANGED run
      \/ run' = [run EXCEPT !.pc = "reread"] /\ UNCHANGED claim
    BY DEF Release, Least
<1> QED
    BY <1>4, <1>5, <1>6

(***************************************************************************)
(* A crash ends every call and the run: what they spent stays spent, and   *)
(* what the run claimed for a payout that is not there counts no more.     *)
(***************************************************************************)
LEMMA CrashKeeps ==
    ASSUME Inv, Crash
    PROVE  Inv'
<1>1. TypeOK /\ Room /\ LockHeld /\ CallInv /\ Held /\ QuoteInv
    BY DEF Inv
<1> DEFINE ended == [NoCall EXCEPT !.pc = "failed"]
<1>2. /\ posts + crashes < MaxFaults /\ crashes' = crashes + 1 /\ UNCHANGED posts
      /\ call' = [w \in Callers |-> IF w = Run THEN NoCall
                                    ELSE IF call[w].pc = "idle" THEN call[w] ELSE ended]
      /\ run' = NoRun /\ post' = NoPost /\ wake' = FALSE
      /\ sjob' = [s \in Slots |-> IF sjob[s].status = "running"
                                  THEN [sjob[s] EXCEPT !.status = "ready"] ELSE sjob[s]]
      /\ UNCHANGED transfer /\ UNCHANGED <<usedBy, exchanged>> /\ UNCHANGED conversion
      /\ UNCHANGED claim /\ UNCHANGED schedule
      /\ UNCHANGED <<balance, settled, approved, indexed, ajob>>
    BY DEF Crash, money
<1>3. /\ ended \in CallRow /\ ended.pc = "failed" /\ ended.kind = "payout"
      /\ ended.quote = NoQuote
    BY RowsAtRest DEF NoCall, CallRow
<1> HIDE DEF ended
<1>4. /\ NoCall \in CallRow /\ NoCall.pc = "idle" /\ NoCall.kind = "payout"
      /\ NoCall.quote = NoQuote /\ NoRun.pc = "idle" /\ NoRun \in RunRow
      /\ NoPost \in PostRow
    BY RowsAtRest DEF NoCall, NoRun
<1>5. /\ call'[Run] = NoCall
      /\ \A r \in Requests : call'[r] = IF call[r].pc = "idle" THEN call[r] ELSE ended
      /\ \A w \in Callers : (w \in Requests /\ call[w].pc = "idle" /\ call'[w] = call[w])
                            \/ call'[w] \in {NoCall, ended}
    <2>1. call' = [w \in Callers |-> IF w = Run THEN NoCall
                                     ELSE IF call[w].pc = "idle" THEN call[w] ELSE ended]
        BY <1>2
    <2>2. call'[Run] = NoCall
        BY <2>1, Apart
    <2>3. ASSUME NEW r \in Requests
          PROVE  call'[r] = IF call[r].pc = "idle" THEN call[r] ELSE ended
        BY <2>1, Apart
    <2>4. ASSUME NEW w \in Callers
          PROVE  (w \in Requests /\ call[w].pc = "idle" /\ call'[w] = call[w])
                 \/ call'[w] \in {NoCall, ended}
        <3>1. CASE w = Run
            BY <2>2, <3>1
        <3>2. CASE w # Run
            BY <2>3, <3>2, Apart
        <3> QED
            BY <3>1, <3>2
    <2> QED
        BY <2>2, <2>3, <2>4
<1>6. call' \in [Callers -> CallRow]
    BY <1>1, <1>2, <1>3, <1>4 DEF TypeOK
<1>7. \A w \in Callers : call'[w].pc \in {"idle", "failed"}
    BY <1>3, <1>4, <1>5
<1>8. sjob' \in [Slots -> [version : Version, status : {"none", "ready", "running"}]]
    BY <1>1, <1>2 DEF TypeOK
<1>9. crashes' \in Nat
    BY <1>1, <1>2 DEF TypeOK
<1>10. TypeOK'
    BY <1>1, <1>2, <1>4, <1>6, <1>8, <1>9 DEF TypeOK
<1>11. Room'
    <2>1. /\ schedule.version \in Int /\ MaxVersion \in Int /\ MaxFaults \in Int
          /\ posts \in Int /\ crashes \in Int
        BY <1>1, RunFields DEF Version
    <2>2. run'.pc \notin Saving
        BY <1>2, <1>4 DEF Saving
    <2> QED
        BY <1>1, <1>2, <2>1, <2>2 DEF Room
<1>12. LockHeld'
    BY <1>1, <1>7, LockKept DEF Busy
<1>13. CallInv'
    <2>1. ASSUME NEW w \in Callers
          PROVE  call'[w].kind = "conversion" => call'[w].quote \in Quotes
        BY <1>1, <1>3, <1>4, <1>5 DEF CallInv
    <2> QED
        BY <1>4, <1>5, <1>7, <2>1, Apart DEF CallInv
<1>14. RunInv'
    BY <1>2, <1>4 DEF RunInv
<1>15. Advanced
    BY <1>2, LeftAlone
<1>16. Held'
    BY <1>1, <1>2, <1>15, HeldKept
<1>17. QuoteInv'
    <2>1. ASSUME NEW r \in exchanged
          PROVE  /\ call'[r].pc \in {"complete", "done", "failed"}
                 /\ call'[r].quote \in {NoQuote, call[r].quote}
                 /\ conversion'[r] # "none"
        <3>1. /\ r \in Requests /\ call[r].pc \in {"complete", "done", "failed"}
              /\ conversion[r] # "none"
            BY <1>1 DEF QuoteInv, TypeOK
        <3>2. call'[r] = ended
            BY <1>5, <3>1
        <3> QED
            BY <1>2, <1>3, <3>1, <3>2
    <2>2. \A w \in Callers : call'[w].pc \notin Using
        BY <1>7 DEF Using
    <2>3. \A r \in Requests : call'[r].pc # "exchange"
        BY <1>7, Apart
    <2> QED
        BY <1>1, <1>2, <1>15, <2>1, <2>2, <2>3, QuotesKept
<1> QED
    BY <1>10, <1>11, <1>12, <1>13, <1>14, <1>16, <1>17 DEF Inv

-----------------------------------------------------------------------------
(***************************************************************************)
(* The invariant holds always                                              *)
(***************************************************************************)

(***************************************************************************)
(* Nothing is asked, claimed, spent or moved at first.                     *)
(***************************************************************************)
LEMMA InvInit ==
    ASSUME Init
    PROVE  Inv
<1>1. TypeOK
    <2>1. /\ NoRun \in RunRow /\ NoPost \in PostRow /\ NoCall \in CallRow
          /\ NoJob \in [version : Version, status : {"none", "ready", "running"}]
        BY RowsAtRest
    <2>2. 1 \in Version /\ FirstInterval \in Settings
        BY BoundAssumption DEF Version, Settings
    <2>3. schedule \in ScheduleRow
        BY <2>2 DEF Init, ScheduleRow
    <2>4. sjob \in [Slots -> [version : Version, status : {"none", "ready", "running"}]]
        BY <2>1, <2>2 DEF Init
    <2>5. [status |-> "none", amount |-> 0, quote |-> NoQuote, of |-> {}] \in TransferRow
        BY DEF TransferRow
    <2>6. transfer \in [Refs -> TransferRow] /\ call \in [Callers -> CallRow]
        BY <2>1, <2>5 DEF Init
    <2> QED
        BY <2>1, <2>3, <2>4, <2>6, MoneyAssumption DEF Init, TypeOK
<1>2. /\ \A w \in Callers : call[w] = NoCall
      /\ NoCall.pc = "idle" /\ NoCall.kind = "payout" /\ NoCall.quote = NoQuote
      /\ run.pc = "idle" /\ exchanged = {} /\ Run \in Callers
      /\ \A x \in Refs : transfer[x].status = "none"
    BY Apart DEF Init, NoCall, NoRun
<1>3. Room
    BY <1>2, BoundAssumption DEF Init, Room, Saving
<1>4. LockHeld
    BY <1>2 DEF LockHeld, Busy
<1>5. CallInv
    BY <1>2, Apart DEF CallInv
<1>6. RunInv
    BY <1>2 DEF RunInv
<1>7. Held
    BY <1>2, Apart DEF Held, Live
<1>8. QuoteInv
    <2>1. \A w \in Callers : call[w].pc \notin Using
        BY <1>2 DEF Using
    <2>2. \A r \in Requests : call[r].pc # "exchange"
        BY <2>1, Apart DEF Using
    <2> QED
        BY <1>2, <2>1, <2>2 DEF QuoteInv
<1> QED
    BY <1>1, <1>3, <1>4, <1>5, <1>6, <1>7, <1>8 DEF Inv

(***************************************************************************)
(* Every step keeps the invariant, and so does a stutter.                  *)
(***************************************************************************)
LEMMA InvStep ==
    ASSUME Inv, [Next]_vars
    PROVE  Inv'
<1>1. CASE UNCHANGED vars
    <2>1. UNCHANGED <<balance, settled, approved, indexed>>
          /\ UNCHANGED transfer /\ UNCHANGED <<usedBy, exchanged, conversion, claim, call>>
          /\ UNCHANGED run /\ UNCHANGED <<schedule, posts, crashes>>
          /\ UNCHANGED <<sjob, ajob, post, wake>>
        BY <1>1 DEF vars, money
    <2>2. TypeOK' /\ Room' /\ Advanced
        BY <2>1, LeftAlone DEF Inv, TypeOK, Room
    <2> QED
        BY <2>1, <2>2, Around
<1>2. ASSUME NEW r \in Requests, NEW a \in Asks, Ask(r, a) PROVE Inv'
    BY <1>2, AskKeeps
<1>3. ASSUME NEW w \in Callers, Calling(w) PROVE Inv'
    BY <1>3, CallingKeeps
<1>4. CASE Starting
    <2>1. \/ \E x \in Refs, stage \in {"processing", "settle"},
                outcome \in {"successful", "failed"} : handleAdvanceJob(x, stage, outcome)
          \/ \E s \in Slots : StartRun(s)
        BY <1>4 DEF Starting, Advancing
    <2> QED
        BY <2>1, AdvanceKeeps, StartRunKeeps
<1>5. CASE Running
    BY <1>5, QueueSettleKeeps, CompleteKeeps, CollectKeeps, ClaimKeeps, PaidKeeps,
       ReleaseKeeps, RereadKeeps, SaveRunKeeps DEF Running
<1>6. CASE SavePost \/ QueueInstant
    BY <1>6, SavePostKeeps
<1>7. ASSUME NEW i \in Intervals, PostSettings(i) PROVE Inv'
    BY <1>7, PostSettingsKeeps
<1>8. CASE (\E c \in Collections : Settle(c)) \/ ChangeDestination
    BY <1>8, SettleKeeps
<1>9. ASSUME NEW x \in AutoRefs, ToolFail(x) PROVE Inv'
    BY <1>9, ToolFailKeeps
<1>10. CASE Crash
    BY <1>10, CrashKeeps
<1> QED
    BY <1>1, <1>2, <1>3, <1>4, <1>5, <1>6, <1>7, <1>8, <1>9, <1>10 DEF Next

(***************************************************************************)
(* The inductive invariant of the balance's payouts, conversions and       *)
(* schedule: rows keep their types, one caller is between its writes under *)
(* the treasury lock, and runs, payouts and quotes agree.                  *)
(***************************************************************************)
THEOREM PayoutsInvariant == Spec => []Inv
<1>1. Init => Inv
    BY InvInit
<1>2. Inv /\ [Next]_vars => Inv'
    BY InvStep
<1> QED
    BY <1>1, <1>2, PTL DEF Spec

(***************************************************************************)
(* A collection that is claimed for one reference is in no other's payout. *)
(***************************************************************************)
LEMMA HeldOnce ==
    ASSUME Inv
    PROVE  CollectionPaidOnce
<1>1. TypeOK /\ Held
    BY DEF Inv
<1>2. ASSUME NEW c \in Collections
      PROVE  Cardinality({x \in AutoRefs : Live(x) /\ c \in transfer[x].of}) <= 1
    <2> DEFINE S == {x \in AutoRefs : Live(x) /\ c \in transfer[x].of}
    <2>1. S \subseteq {claim[c]}
        BY <1>1 DEF Held
    <2> HIDE DEF S
    <2>2. IsFiniteSet({claim[c]}) /\ Cardinality({claim[c]}) = 1
        BY FS_Singleton
    <2>3. Cardinality(S) <= 1
        BY <2>1, <2>2, FS_Subset
    <2> QED
        BY <2>3 DEF S
<1> QED
    BY <1>1, <1>2 DEF Held, CollectionPaidOnce

(***************************************************************************)
(* What moved money on a quote is what the quote says spent it: payouts    *)
(* and conversions are told apart by their names, so it is one of them.    *)
(***************************************************************************)
LEMMA SpentOnce ==
    ASSUME Inv
    PROVE  QuoteMovesMoneyOnce
<1>1. TypeOK /\ QuoteInv
    BY DEF Inv
<1>2. ASSUME NEW q \in Quotes
      PROVE  LET paid == {x \in Refs : transfer[x].status # "none" /\ transfer[x].quote = q}
                 converted == {r \in exchanged : call[r].quote = q \/ usedBy[q] = r}
             IN  /\ Cardinality(paid) + Cardinality(converted) <= 1
                 /\ usedBy[q] = 0 => paid \cup converted = {}
    <2> DEFINE paid == {x \in Refs : transfer[x].status # "none" /\ transfer[x].quote = q}
               converted == {r \in exchanged : call[r].quote = q \/ usedBy[q] = r}
    <2>1. \A x \in paid : usedBy[q] = x /\ x \in Refs
        BY <1>1 DEF QuoteInv
    <2>2. \A r \in converted : usedBy[q] = r /\ r \in Requests
        BY <1>1 DEF QuoteInv, TypeOK
    <2> HIDE DEF paid, converted
    <2>3. paid = {} \/ converted = {}
        BY <2>1, <2>2, Apart
    <2>4. paid \subseteq {usedBy[q]} /\ converted \subseteq {usedBy[q]}
        BY <2>1, <2>2
    <2>5. IsFiniteSet({usedBy[q]}) /\ Cardinality({usedBy[q]}) = 1
        BY FS_Singleton
    <2>6. /\ Cardinality(paid) \in Nat /\ Cardinality(paid) <= 1
          /\ Cardinality(converted) \in Nat /\ Cardinality(converted) <= 1
        BY <2>4, <2>5, FS_Subset, FS_CardinalityType
    <2>7. Cardinality({}) = 0
        BY FS_EmptySet
    <2>8. Cardinality(paid) + Cardinality(converted) <= 1
        BY <2>3, <2>6, <2>7
    <2>9. usedBy[q] = 0 => paid \cup converted = {}
        BY <2>1, <2>2, Apart
    <2> QED
        BY <2>8, <2>9 DEF paid, converted
<1>3. \A r \in exchanged : conversion[r] # "none" /\ \E q \in Quotes : usedBy[q] = r
    BY <1>1 DEF QuoteInv
<1> QED
    BY <1>2, <1>3 DEF QuoteMovesMoneyOnce

(***************************************************************************)
(* A collection goes out in one live payout at most, which is for what its *)
(* collections are owed and still holds them: whatever runs overlap        *)
(* crashes, failures, tools and changes of the schedule.                   *)
(***************************************************************************)
THEOREM CollectionsPaidOnce == Spec => []CollectionPaidOnce
<1>1. Inv => CollectionPaidOnce
    BY HeldOnce
<1> QED
    BY <1>1, PayoutsInvariant, PTL

(***************************************************************************)
(* A quote moves money once, in a payout or a conversion, and never while  *)
(* it can still be used or without the conversion's record.                *)
(***************************************************************************)
THEOREM QuotesMoveMoneyOnce == Spec => []QuoteMovesMoneyOnce
<1>1. Inv => QuoteMovesMoneyOnce
    BY SpentOnce
<1> QED
    BY <1>1, PayoutsInvariant, PTL
=============================================================================
