---------------------------- MODULE ConnectProofs ----------------------------
(***************************************************************************)
(* Theorems about Connect and the Transfers it composes, for every set of  *)
(* accounts, requests, kinds, terms and amounts and every number of rows.  *)
(***************************************************************************)
EXTENDS Connect, WellFoundedInduction, TLAPS

-----------------------------------------------------------------------------
(***************************************************************************)
(* The column sum, for every number of rows.  The library's induction      *)
(* theorems take an operator parameter, which no installed prover          *)
(* instantiates; the induction is done by hand instead, on the least       *)
(* counterexample of a set of naturals.                                    *)
(***************************************************************************)

(***************************************************************************)
(* A non-empty set of naturals has a least member.                         *)
(***************************************************************************)
LEMMA LeastNatural ==
    ASSUME NEW T \in SUBSET Nat, T # {}
    PROVE  \E m \in T : \A k \in T : m <= k
<1> DEFINE R == {ss \in Nat \X Nat : ss[1] < ss[2]}
<1>1. IsWellFoundedOn(R, Nat)
    BY NatLessThanWellFounded, Zenon DEF OpToRel
<1> HIDE DEF R
<1>2. PICK m \in T : \A k \in T : ~ (<<k, m>> \in R)
    BY <1>1, WFMin, Zenon
<1>3. \A k \in T : ~ (k < m)
    BY <1>2 DEF R
<1>4. QED
    BY <1>3

\* The partial sums of f up to row n.
PartialSums(f, n, g) ==
    /\ g \in [0..n -> Int]
    /\ g[0] = 0
    /\ \A i \in 1..n : g[i] = g[i-1] + f[i]

(***************************************************************************)
(* The partial sums of any column exist: SumTo is well defined.            *)
(***************************************************************************)
LEMMA PartialSumsExist ==
    ASSUME NEW n \in Nat, NEW f \in [1..n -> Int]
    PROVE  \E g : PartialSums(f, n, g)
<1> DEFINE Bad == {k \in Nat : k <= n /\ ~ \E g : PartialSums(f, k, g)}
<1>1. SUFFICES ASSUME Bad # {}
               PROVE  FALSE
    <2>1. n \in Bad \/ \E g : PartialSums(f, n, g)
        OBVIOUS
    <2>2. QED
        BY <2>1
<1>2. PICK m \in Bad : \A k \in Bad : m <= k
    BY <1>1, LeastNatural
<1>3. m # 0
    <2>1. PartialSums(f, 0, [i \in 0..0 |-> 0])
        BY DEF PartialSums
    <2>2. QED
        BY <2>1
<1>4. m - 1 \in Nat /\ m - 1 <= n /\ m - 1 \notin Bad
    BY <1>2, <1>3
<1>5. PICK g : PartialSums(f, m - 1, g)
    BY <1>4
<1> DEFINE h == [i \in 0..m |-> IF i = m THEN g[m-1] + f[m] ELSE g[i]]
<1>6. PartialSums(f, m, h)
    <2>1. m \in Nat /\ m > 0 /\ m <= n
        BY <1>2, <1>3
    <2>2. /\ g \in [0..(m-1) -> Int]
          /\ g[0] = 0
          /\ \A i \in 1..(m-1) : g[i] = g[i-1] + f[i]
        BY <1>5 DEF PartialSums
    <2>3. f[m] \in Int /\ g[m-1] \in Int
        BY <2>1, <2>2
    <2>4. h \in [0..m -> Int]
        BY <2>1, <2>2, <2>3
    <2>5. h[0] = 0
        BY <2>1, <2>2
    <2>6. ASSUME NEW i \in 1..m
          PROVE  h[i] = h[i-1] + f[i]
        <3>1. CASE i = m
            <4>1. h[m] = g[m-1] + f[m] /\ h[m-1] = g[m-1]
                BY <2>1
            <4>2. QED
                BY <3>1, <4>1
        <3>2. CASE i # m
            <4>1. i \in 1..(m-1) /\ h[i] = g[i] /\ h[i-1] = g[i-1]
                BY <2>1, <3>2
            <4>2. QED
                BY <2>2, <4>1
        <3>3. QED
            BY <3>1, <3>2
    <2>7. QED
        BY <2>4, <2>5, <2>6 DEF PartialSums
<1>7. QED
    BY <1>2, <1>6

(***************************************************************************)
(* SumTo(f, n) is the last of the partial sums.                            *)
(***************************************************************************)
LEMMA SumToPartialSums ==
    ASSUME NEW n \in Nat, NEW f \in [1..n -> Int]
    PROVE  \E g : PartialSums(f, n, g) /\ SumTo(f, n) = g[n]
<1> DEFINE Eq(g) == g = [i \in 0..n |-> IF i = 0 THEN 0 ELSE g[i-1] + f[i]]
<1>1. PICK g0 : PartialSums(f, n, g0)
    BY PartialSumsExist
<1>2. Eq(g0)
    BY <1>1 DEF PartialSums
<1> DEFINE s == CHOOSE g : Eq(g)
<1>3. Eq(s)
    BY <1>2
<1>4. SumTo(f, n) = s[n]
    BY DEF SumTo
<1> HIDE DEF s
<1>5. \A i \in 0..n : s[i] \in Int
    <2> DEFINE Bad == {k \in Nat : k <= n /\ s[k] \notin Int}
    <2>1. SUFFICES ASSUME Bad # {}
                   PROVE  FALSE
        OBVIOUS
    <2>2. PICK m \in Bad : \A k \in Bad : m <= k
        BY <2>1, LeastNatural
    <2>3. CASE m = 0
        BY <1>3, <2>2, <2>3
    <2>4. CASE m # 0
        <3>1. m - 1 \in 0..n /\ s[m-1] \in Int
            BY <2>2, <2>4
        <3>2. s[m] = s[m-1] + f[m]
            BY <1>3, <2>2, <2>4
        <3>3. QED
            BY <2>2, <2>4, <3>1, <3>2
    <2>5. QED
        BY <2>3, <2>4
<1>6. PartialSums(f, n, s)
    BY <1>3, <1>5 DEF PartialSums
<1>7. QED
    BY <1>4, <1>6

(***************************************************************************)
(* The sum of a column of integers is an integer.                          *)
(***************************************************************************)
LEMMA SumToInt ==
    ASSUME NEW n \in Nat, NEW f \in [1..n -> Int]
    PROVE  SumTo(f, n) \in Int
<1>1. PICK g : PartialSums(f, n, g) /\ SumTo(f, n) = g[n]
    BY SumToPartialSums
<1>2. QED
    BY <1>1 DEF PartialSums

(***************************************************************************)
(* Changing one row of a column changes its sum by the difference.         *)
(***************************************************************************)
LEMMA SumToUpdate ==
    ASSUME NEW n \in Nat, NEW f \in [1..n -> Int], NEW h \in [1..n -> Int],
           NEW k \in 1..n, \A i \in 1..n : i # k => h[i] = f[i]
    PROVE  SumTo(h, n) = SumTo(f, n) + h[k] - f[k]
<1>1. PICK F : PartialSums(f, n, F) /\ SumTo(f, n) = F[n]
    BY SumToPartialSums
<1>2. PICK H : PartialSums(h, n, H) /\ SumTo(h, n) = H[n]
    BY SumToPartialSums
<1> DEFINE d(i) == IF i < k THEN 0 ELSE h[k] - f[k]
<1> DEFINE Bad == {i \in Nat : i <= n /\ H[i] # F[i] + d(i)}
<1>3. Bad = {}
    <2>1. SUFFICES ASSUME Bad # {}
                   PROVE  FALSE
        OBVIOUS
    <2>2. PICK m \in Bad : \A i \in Bad : m <= i
        BY <2>1, LeastNatural
    <2>3. m \in Nat /\ m <= n /\ H[m] # F[m] + d(m)
        BY <2>2
    <2>4. m # 0
        BY <1>1, <1>2, <2>3 DEF PartialSums
    <2>5. m - 1 \in Nat /\ H[m-1] = F[m-1] + d(m-1)
        BY <2>2, <2>3, <2>4
    <2>6. /\ F[m] = F[m-1] + f[m] /\ H[m] = H[m-1] + h[m]
          /\ F[m-1] \in Int /\ H[m-1] \in Int /\ f[m] \in Int /\ h[m] \in Int
        <3>1. m \in 1..n /\ m - 1 \in 0..n
            BY <2>3, <2>4
        <3>2. F[m] = F[m-1] + f[m] /\ F[m-1] \in Int
            BY <1>1, <3>1 DEF PartialSums
        <3>3. H[m] = H[m-1] + h[m] /\ H[m-1] \in Int
            BY <1>2, <3>1 DEF PartialSums
        <3>4. QED
            BY <3>1, <3>2, <3>3
    <2>7. CASE m = k
        BY <2>3, <2>5, <2>6, <2>7
    <2>8. CASE m # k
        <3>1. h[m] = f[m] /\ d(m) = d(m-1)
            BY <2>3, <2>4, <2>8
        <3>2. QED
            BY SMTT(60), <2>3, <2>5, <2>6, <3>1
    <2>9. QED
        BY <2>7, <2>8
<1>4. H[n] = F[n] + h[k] - f[k]
    <2>1. n \notin Bad
        BY <1>3
    <2>2. H[n] = F[n] + d(n) /\ F[n] \in Int
        BY <1>1, <2>1 DEF PartialSums
    <2>3. QED
        BY <2>2
<1>5. QED
    BY <1>1, <1>2, <1>4

(***************************************************************************)
(* The sum of a column of naturals is a natural, and no row exceeds it.    *)
(***************************************************************************)
LEMMA SumToNat ==
    ASSUME NEW n \in Nat, NEW f \in [1..n -> Nat]
    PROVE  SumTo(f, n) \in Nat /\ \A k \in 1..n : f[k] <= SumTo(f, n)
<1>1. PICK F : PartialSums(f, n, F) /\ SumTo(f, n) = F[n]
    BY SumToPartialSums
<1> DEFINE Good(i) == F[i] \in Nat /\ \A k \in 1..i : f[k] <= F[i]
<1> DEFINE Bad == {i \in Nat : i <= n /\ ~ Good(i)}
<1>2. Bad = {}
    <2>1. SUFFICES ASSUME Bad # {}
                   PROVE  FALSE
        OBVIOUS
    <2>2. PICK m \in Bad : \A i \in Bad : m <= i
        BY <2>1, LeastNatural
    <2>3. m \in Nat /\ m <= n /\ ~ Good(m)
        BY <2>2
    <2>4. m # 0
        BY <1>1, <2>3 DEF PartialSums
    <2>5. m - 1 \in Nat /\ Good(m-1)
        BY <2>2, <2>3, <2>4
    <2>6. F[m] = F[m-1] + f[m] /\ f[m] \in Nat
        BY <1>1, <2>3, <2>4 DEF PartialSums
    <2>7. F[m] \in Nat /\ f[m] <= F[m] /\ F[m-1] <= F[m]
        BY <2>5, <2>6
    <2>8. \A k \in 1..m : f[k] <= F[m]
        <3> SUFFICES ASSUME NEW k \in 1..m
                     PROVE  f[k] <= F[m]
            OBVIOUS
        <3>1. CASE k = m
            BY <2>7, <3>1
        <3>2. CASE k # m
            <4>1. k \in 1..(m-1) /\ k \in 1..n
                BY <2>3, <3>2
            <4>2. f[k] <= F[m-1] /\ f[k] \in Nat
                BY <2>5, <4>1
            <4>3. QED
                BY <2>5, <2>7, <4>2
        <3>3. QED
            BY <3>1, <3>2
    <2>9. QED
        BY <2>3, <2>7, <2>8
<1>3. Good(n)
    BY <1>2
<1>4. QED
    BY <1>1, <1>3

(***************************************************************************)
(* A column of zeros sums to zero.                                         *)
(***************************************************************************)
LEMMA SumToZero ==
    ASSUME NEW n \in Nat
    PROVE  SumTo([i \in 1..n |-> 0], n) = 0
<1> DEFINE z == [i \in 1..n |-> 0]
<1>1. PICK F : PartialSums(z, n, F) /\ SumTo(z, n) = F[n]
    BY SumToPartialSums
<1> DEFINE Bad == {i \in Nat : i <= n /\ F[i] # 0}
<1>2. Bad = {}
    <2>1. SUFFICES ASSUME Bad # {}
                   PROVE  FALSE
        OBVIOUS
    <2>2. PICK m \in Bad : \A i \in Bad : m <= i
        BY <2>1, LeastNatural
    <2>3. m \in Nat /\ m <= n /\ F[m] # 0
        BY <2>2
    <2>4. m # 0
        BY <1>1, <2>3 DEF PartialSums
    <2>5. m - 1 \in Nat /\ F[m-1] = 0
        BY <2>2, <2>3, <2>4
    <2>6. m \in 1..n
        BY <2>3, <2>4
    <2>7. F[m] = F[m-1] + z[m]
        BY <1>1, <2>6 DEF PartialSums
    <2>8. QED
        BY <2>3, <2>5, <2>6, <2>7
<1>3. QED
    BY <1>1, <1>2

(***************************************************************************)
(* A column that is row by row at most another has at most its sum.        *)
(***************************************************************************)
LEMMA SumToMonotone ==
    ASSUME NEW n \in Nat, NEW f \in [1..n -> Int], NEW h \in [1..n -> Int],
           \A i \in 1..n : f[i] <= h[i]
    PROVE  SumTo(f, n) <= SumTo(h, n)
<1>1. PICK F : PartialSums(f, n, F) /\ SumTo(f, n) = F[n]
    BY SumToPartialSums
<1>2. PICK H : PartialSums(h, n, H) /\ SumTo(h, n) = H[n]
    BY SumToPartialSums
<1> DEFINE Bad == {i \in Nat : i <= n /\ ~ (F[i] <= H[i])}
<1>3. Bad = {}
    <2>1. SUFFICES ASSUME Bad # {}
                   PROVE  FALSE
        OBVIOUS
    <2>2. PICK m \in Bad : \A i \in Bad : m <= i
        BY <2>1, LeastNatural
    <2>3. m \in Nat /\ m <= n /\ ~ (F[m] <= H[m])
        BY <2>2
    <2>4. m # 0
        BY <1>1, <1>2, <2>3 DEF PartialSums
    <2>5. m - 1 \in Nat /\ F[m-1] <= H[m-1]
        BY <2>2, <2>3, <2>4
    <2>6. m \in 1..n /\ m - 1 \in 0..n
        BY <2>3, <2>4
    <2>7. F[m] = F[m-1] + f[m] /\ F[m-1] \in Int
        BY <1>1, <2>6 DEF PartialSums
    <2>8. H[m] = H[m-1] + h[m] /\ H[m-1] \in Int
        BY <1>2, <2>6 DEF PartialSums
    <2>9. f[m] <= h[m] /\ f[m] \in Int /\ h[m] \in Int
        BY <2>6
    <2>10. QED
        BY <2>3, <2>5, <2>7, <2>8, <2>9
<1>4. QED
    BY <1>1, <1>2, <1>3

-----------------------------------------------------------------------------
\* What Wise funds after its creation
FundedLater(k) == k.fee = 0 /\ k.from = Platform /\ k.to = Bank

Over(t) == transfer[t].status \in {"failed", "cancelled", "reversed"}

\* A row with its ledger entries: reserved rows hold what they stand for, the
\* others never more than zero, and at least their amount once committed.
ReservedSound(t) ==
    /\ transfer[t].reserved
    /\ \A pot \in Pots :
          moved[t][pot] = Entries(Kind(t), Standing(t), FeeHeld(t), pot)
    /\ Internal(t) => ((transfer[t].status = "reversed") <=> (Standing(t) = 0))

FundedSound(t) ==
    /\ FundedLater(Kind(t))
    /\ \A pot \in Accounts : moved[t][pot] = 0
    /\ moved[t][Platform] <= 0
    /\ transfer[t].reserved /\ ~ Over(t) => moved[t][Platform] <= - Kind(t).amount

EmptySound(t) == transfer[t] = NoTransfer /\ \A pot \in Pots : moved[t][pot] = 0

RowSound(t) ==
    \/ transfer[t].status = "none" /\ EmptySound(t)
    \/ /\ transfer[t] \in TransferRow
       /\ transfer[t].source # 0 => Internal(t)
       /\ transfer[t].amountReversed <= Kind(t).amount
       /\ Internal(t) \/ transfer[t].amountReversed = 0
       /\ \/ Kind(t).reserve /\ ReservedSound(t)
          \/ ~ Kind(t).reserve /\ FundedSound(t)

\* A funding request that passed its check is about a row Wise made, and one
\* that debited it left the debit there.
RequestSound(r) ==
    LET t == funding[r].row
    IN  funding[r].pc # "idle" =>
          /\ transfer[t].status # "none" /\ ~ Kind(t).reserve
          /\ funding[r].pc = "move" /\ ~ Over(t)
                => moved[t][Platform] <= - Kind(t).amount

RowsInv ==
    /\ TypeOK
    /\ \A t \in Rows : RowSound(t)
    /\ \A r \in Requests : RequestSound(r)

IInv == RowsInv /\ NeverOverdrawn

\* The charge a transfer names, or whose fee is about to be returned, is there.
SourcesExist ==
    /\ \A t \in Rows : transfer[t].source \in Charges
                        => charge[transfer[t].source].status # "none"
    /\ \A c \in returning : charge[c].status # "none"

-----------------------------------------------------------------------------
(***************************************************************************)
(* A row nothing touches stays sound.                                      *)
(***************************************************************************)
LEMMA SoundKept ==
    ASSUME NEW u \in Rows, RowSound(u),
           transfer'[u] = transfer[u], moved'[u] = moved[u]
    PROVE  RowSound(u)'
BY DEF RowSound, EmptySound, ReservedSound, FundedSound, Kind, Internal, Over,
       Standing, FeeHeld, Undone

(***************************************************************************)
(* What one row contributes to a pot is an integer.                        *)
(***************************************************************************)
LEMMA CountedInt ==
    ASSUME TypeOK, NEW t \in Rows, NEW pot \in Pots
    PROVE  Counted(t, pot) \in Int /\ moved[t][pot] \in Int
BY DEF TypeOK, Counted

(***************************************************************************)
(* A step that changes one row changes a pot by the difference.            *)
(***************************************************************************)
LEMMA OneRowMoves ==
    ASSUME TypeOK, TypeOK', NEW t \in Rows, NEW pot \in Pots,
           \A u \in Rows : u # t => transfer'[u] = transfer[u] /\ moved'[u] = moved[u]
    PROVE  /\ Unfunded(pot) \in Int
           /\ Unfunded(pot)' = Unfunded(pot) + deposited'[pot] - deposited[pot]
                                 + Counted(t, pot)' - Counted(t, pot)
<1> DEFINE f == [u \in Rows |-> Counted(u, pot)]
           h == [u \in Rows |-> Counted(u, pot)']
<1>1. f \in [1..MaxTransfers -> Int]
    BY CountedInt DEF Rows
<1>2. h \in [1..MaxTransfers -> Int]
    <2>1. \A u \in Rows : Counted(u, pot)' \in Int
        BY DEF TypeOK, Counted
    <2>2. QED
        BY <2>1 DEF Rows
<1>3. \A u \in 1..MaxTransfers : u # t => h[u] = f[u]
    BY DEF Rows, Counted, Kind
<1>4. t \in 1..MaxTransfers
    BY DEF Rows
<1>5. f[t] = Counted(t, pot) /\ h[t] = Counted(t, pot)'
    OBVIOUS
<1>6. Unfunded(pot) = Brought(pot) + SumTo(f, MaxTransfers)
    BY DEF Unfunded
<1>7. Unfunded(pot)' = Brought(pot)' + SumTo(h, MaxTransfers)
    BY DEF Unfunded
<1> HIDE DEF f, h
<1>8. SumTo(h, MaxTransfers) = SumTo(f, MaxTransfers) + h[t] - f[t]
    BY <1>1, <1>2, <1>3, <1>4, SumToUpdate, MaxTransfersAssumption
<1>9. SumTo(f, MaxTransfers) \in Int
    BY <1>1, SumToInt, MaxTransfersAssumption
<1>10. /\ Brought(pot) \in Int /\ Brought(pot)' \in Int
       /\ Brought(pot)' = Brought(pot) + deposited'[pot] - deposited[pot]
    BY MoneyAssumption DEF Brought, TypeOK
<1>11. f[t] \in Int /\ h[t] \in Int
    BY <1>1, <1>2, <1>4
<1>12. SumTo(h, MaxTransfers) \in Int
    BY <1>2, SumToInt, MaxTransfersAssumption
<1>13. deposited'[pot] \in Int /\ deposited[pot] \in Int
    BY DEF TypeOK
<1>14. QED
    BY <1>5, <1>6, <1>7, <1>8, <1>9, <1>10, <1>11, <1>12, <1>13

(***************************************************************************)
(* What funding took only lowers a balance.                                *)
(***************************************************************************)
LEMMA FundingOnlyTakes ==
    ASSUME RowsInv, NEW pot \in Pots
    PROVE  Available(pot) \in Int /\ Available(pot) <= Unfunded(pot)
<1> DEFINE f == [u \in Rows |-> moved[u][pot]]
           h == [u \in Rows |-> Counted(u, pot)]
<1>1. f \in [1..MaxTransfers -> Int] /\ h \in [1..MaxTransfers -> Int]
    BY CountedInt DEF Rows, RowsInv
<1>2. \A u \in 1..MaxTransfers : f[u] <= h[u]
    <2> SUFFICES ASSUME NEW u \in Rows
                 PROVE  moved[u][pot] <= Counted(u, pot)
        BY DEF Rows
    <2>1. RowSound(u) /\ moved[u][pot] \in Int
        BY CountedInt DEF RowsInv
    <2>2. CASE Kind(u).reserve
        BY <2>1, <2>2 DEF Counted
    <2>3. CASE ~ Kind(u).reserve
        BY <2>1, <2>3 DEF Counted, RowSound, FundedSound, EmptySound, Pots
    <2>4. QED
        BY <2>2, <2>3
<1>3. Brought(pot) \in Int
    BY MoneyAssumption DEF Brought, TypeOK, RowsInv
<1> HIDE DEF f, h
<1>4. SumTo(f, MaxTransfers) <= SumTo(h, MaxTransfers)
    BY <1>1, <1>2, SumToMonotone, MaxTransfersAssumption
<1>5. SumTo(f, MaxTransfers) \in Int /\ SumTo(h, MaxTransfers) \in Int
    BY <1>1, SumToInt, MaxTransfersAssumption
<1>6. Available(pot) = Brought(pot) + SumTo(f, MaxTransfers)
    BY DEF Available, f
<1>7. Unfunded(pot) = Brought(pot) + SumTo(h, MaxTransfers)
    BY DEF Unfunded, h
<1>8. QED
    BY <1>3, <1>4, <1>5, <1>6, <1>7

(***************************************************************************)
(* What refunds and returned fees took is never negative.                  *)
(***************************************************************************)
LEMMA TakenNat ==
    ASSUME ConnectTypeOK, NEW c \in Charges, NEW pot
    PROVE  Taken(c, pot) \in Nat
BY DEF ConnectTypeOK, Taken, ChargeRow, NoCharge

(***************************************************************************)
(* Nor is what all the charges of a pot took.                              *)
(***************************************************************************)
LEMMA UncheckedNat ==
    ASSUME ConnectTypeOK, NEW pot
    PROVE  Unchecked(pot) \in Nat
<1> DEFINE f == [c \in Charges |-> Taken(c, pot)]
<1>1. f \in [1..MaxCharges -> Nat]
    BY TakenNat DEF Charges
<1>2. Unchecked(pot) = SumTo(f, MaxCharges)
    BY DEF Unchecked
<1> HIDE DEF f
<1>3. QED
    BY <1>1, <1>2, SumToNat, TermsAssumption

(***************************************************************************)
(* A step that changes one charge changes what was taken by the difference.*)
(***************************************************************************)
LEMMA OneChargeChanges ==
    ASSUME ConnectTypeOK, ConnectTypeOK', NEW c \in Charges, NEW pot,
           \A d \in Charges : d # c => charge'[d] = charge[d]
    PROVE  Unchecked(pot)' = Unchecked(pot) + Taken(c, pot)' - Taken(c, pot)
<1> DEFINE f == [d \in Charges |-> Taken(d, pot)]
           h == [d \in Charges |-> Taken(d, pot)']
<1>1. f \in [1..MaxCharges -> Int]
    BY TakenNat DEF Charges
<1>2. h \in [1..MaxCharges -> Int]
    <2>1. \A d \in Charges : Taken(d, pot)' \in Nat
        BY DEF ConnectTypeOK, Taken, ChargeRow, NoCharge
    <2>2. QED
        BY <2>1 DEF Charges
<1>3. \A d \in 1..MaxCharges : d # c => h[d] = f[d]
    BY DEF Charges, Taken, Bearer, On
<1>4. c \in 1..MaxCharges
    BY DEF Charges
<1>5. f[c] = Taken(c, pot) /\ h[c] = Taken(c, pot)'
    OBVIOUS
<1>6. Unchecked(pot) = SumTo(f, MaxCharges) /\ Unchecked(pot)' = SumTo(h, MaxCharges)
    BY DEF Unchecked
<1> HIDE DEF f, h
<1>7. SumTo(h, MaxCharges) = SumTo(f, MaxCharges) + h[c] - f[c]
    BY <1>1, <1>2, <1>3, <1>4, SumToUpdate, TermsAssumption
<1>8. QED
    BY <1>5, <1>6, <1>7

-----------------------------------------------------------------------------
(***************************************************************************)
(* The newest of the transfers that name a charge is one of them.          *)
(***************************************************************************)
LEMMA NewestIsNamed ==
    ASSUME NEW c, Named(c) # {}
    PROVE  Newest(c) \in Named(c)
<1> DEFINE Ages == {k \in Nat : \E t \in Named(c) : k = MaxTransfers - t}
<1>1. PICK u \in Named(c) : TRUE
    OBVIOUS
<1>2. \A t \in Named(c) : t \in Nat /\ t <= MaxTransfers
    BY MaxTransfersAssumption DEF Named, Rows
<1>3. MaxTransfers - u \in Ages
    BY <1>1, <1>2, MaxTransfersAssumption
<1>4. PICK m \in Ages : \A k \in Ages : m <= k
    BY <1>3, LeastNatural
<1>5. PICK t \in Named(c) : m = MaxTransfers - t
    BY <1>4
<1>6. \A v \in Named(c) : v <= t
    <2> SUFFICES ASSUME NEW v \in Named(c)
                 PROVE  v <= t
        OBVIOUS
    <2>1. MaxTransfers - v \in Ages
        BY <1>2, MaxTransfersAssumption
    <2>2. m <= MaxTransfers - v
        BY <1>4, <2>1
    <2>3. QED
        BY <1>2, <1>5, <2>2, MaxTransfersAssumption
<1>7. QED
    BY <1>6 DEF Newest

(***************************************************************************)
(* A part of n in proportion is between nothing and n.                     *)
(***************************************************************************)
LEMMA Proportion ==
    ASSUME NEW n \in Nat, NEW a \in Nat \ {0}, NEW b \in Nat, b <= a
    PROVE  /\ (n * b) \div a \in Nat /\ (n * b) \div a <= n
           /\ b = 0 => (n * b) \div a = 0
<1>1. n * b \in Nat /\ n * b <= n * a /\ (b = 0 => n * b = 0)
    OBVIOUS
<1>2. PICK m \in Nat : m = n * b
    BY <1>1
<1>3. PICK q \in Int : q = m \div a
    OBVIOUS
<1>4. m = a * q + (m % a) /\ m % a \in 0..(a-1)
    BY <1>2, <1>3
<1>5. a * q <= n * a
    BY <1>1, <1>2, <1>4
<1>6. q <= n
    <2>1. SUFFICES ASSUME q >= n + 1
                   PROVE  FALSE
        OBVIOUS
    <2>2. a * q >= a * (n + 1)
        BY <2>1
    <2>3. QED
        BY <1>5, <2>2
<1>7. q >= 0 /\ (m = 0 => q = 0)
    BY <1>3
<1>8. QED
    BY <1>1, <1>2, <1>3, <1>6, <1>7

(***************************************************************************)
(* The share of a returned fee is between nothing and what was asked for,  *)
(* and nothing when the transfer has come back.                            *)
(***************************************************************************)
LEMMA ShareWithin ==
    ASSUME RowsInv, NEW c, NEW requested \in Nat
    PROVE  /\ feeRefundShare(c, requested) \in Nat
           /\ feeRefundShare(c, requested) <= requested
<1>1. CASE On(c).mode # "forwarded" \/ Named(c) = {}
    BY <1>1 DEF feeRefundShare
<1>2. CASE ~ (On(c).mode # "forwarded" \/ Named(c) = {})
    <2> DEFINE t == Newest(c)
               a == Kind(t).amount
               b == Kind(t).amount - transfer[t].amountReversed
    <2>1. t \in Rows /\ transfer[t].status # "none"
        BY <1>2, NewestIsNamed DEF Named
    <2>2. RowSound(t)
        BY <2>1 DEF RowsInv
    <2>3. a \in Nat \ {0} /\ b \in Nat /\ b <= a
        BY <2>1, <2>2 DEF RowSound, TransferRow, KindType, Kind
    <2>4. feeRefundShare(c, requested) = (requested * b) \div a
        BY <1>2 DEF feeRefundShare, Kind
    <2> HIDE DEF t, a, b
    <2>5. QED
        BY <2>3, <2>4, Proportion
<1>3. QED
    BY <1>1, <1>2

-----------------------------------------------------------------------------
(***************************************************************************)
(* The entries of a typed move are integers.                               *)
(***************************************************************************)
LEMMA EntriesInt ==
    ASSUME NEW k, NEW n \in Int, NEW fee \in Int, NEW pot
    PROVE  Entries(k, n, fee, pot) \in Int
BY DEF Entries

(***************************************************************************)
(* Changing what row t has moved keeps the type of the table.              *)
(***************************************************************************)
LEMMA EnteredTyped ==
    ASSUME TypeOK, NEW t \in Rows, NEW k, NEW n \in Int, NEW fee \in Int
    PROVE  /\ Entered(t, k, n, fee) \in [Rows -> [Pots -> Int]]
           /\ \A u \in Rows : u # t => Entered(t, k, n, fee)[u] = moved[u]
           /\ \A pot \in Pots :
                 Entered(t, k, n, fee)[t][pot] = moved[t][pot] + Entries(k, n, fee, pot)
BY EntriesInt DEF Entered, TypeOK

(***************************************************************************)
(* Creating a transfer keeps the rows sound, and its entries are those of  *)
(* its amount and fee.                                                     *)
(***************************************************************************)
LEMMA CreateKeepsRows ==
    ASSUME RowsInv, NEW t \in Rows, NEW k \in KindType, NEW source \in Nat,
           k.reserve \/ FundedLater(k), source # 0 => k.to # Bank,
           createTransferIn(t, k, source), funding' = funding,
           deposited' \in [Pots -> Int]
    PROVE  /\ RowsInv'
           /\ \A u \in Rows : u # t => transfer'[u] = transfer[u] /\ moved'[u] = moved[u]
           /\ \A pot \in Pots :
                 /\ Counted(t, pot) = 0
                 /\ Counted(t, pot)' = IF k.reserve THEN Entries(k, k.amount, k.fee, pot)
                                       ELSE 0
<1> DEFINE row == [status |-> k.status, kind |-> k, amountReversed |-> 0,
                   reserved |-> k.reserve, source |-> source]
<1>1. TypeOK /\ RowSound(t) /\ transfer[t].status = "none"
    BY DEF RowsInv, createTransferIn
<1>2. EmptySound(t)
    BY <1>1 DEF RowSound, TransferRow, TransferStatus
<1>3. /\ k.amount \in Nat \ {0} /\ k.fee \in Nat /\ k.reserve \in BOOLEAN
      /\ k.status \in {"pending", "processing", "successful"}
    BY DEF KindType
<1>4. /\ transfer' = [transfer EXCEPT ![t] = row]
      /\ moved' = IF k.reserve THEN Entered(t, k, k.amount, k.fee) ELSE moved
    BY DEF createTransferIn, ReservedAtCreation
<1>5. row \in TransferRow
    BY <1>3 DEF TransferRow, TransferStatus
<1>6. /\ transfer' \in [Rows -> TransferRow \cup {NoTransfer}] /\ transfer'[t] = row
      /\ \A u \in Rows : u # t => transfer'[u] = transfer[u]
    BY <1>1, <1>4, <1>5 DEF TypeOK
<1>7. /\ moved' \in [Rows -> [Pots -> Int]]
      /\ \A u \in Rows : u # t => moved'[u] = moved[u]
      /\ \A pot \in Pots :
            moved'[t][pot] = IF k.reserve THEN Entries(k, k.amount, k.fee, pot) ELSE 0
    <2>1. CASE k.reserve
        <3>1. \A pot \in Pots : moved[t][pot] = 0
            BY <1>2 DEF EmptySound
        <3>2. \A pot \in Pots : Entries(k, k.amount, k.fee, pot) \in Int
            BY <1>3, EntriesInt
        <3>3. moved' = Entered(t, k, k.amount, k.fee)
            BY <1>4, <2>1
        <3>4. k.amount \in Int /\ k.fee \in Int
            BY <1>3
        <3>5. /\ moved' \in [Rows -> [Pots -> Int]]
              /\ \A u \in Rows : u # t => moved'[u] = moved[u]
              /\ \A pot \in Pots :
                    moved'[t][pot] = moved[t][pot] + Entries(k, k.amount, k.fee, pot)
            <4>1. /\ Entered(t, k, k.amount, k.fee) \in [Rows -> [Pots -> Int]]
                  /\ \A u \in Rows : u # t => Entered(t, k, k.amount, k.fee)[u] = moved[u]
                  /\ \A pot \in Pots :
                        Entered(t, k, k.amount, k.fee)[t][pot]
                           = moved[t][pot] + Entries(k, k.amount, k.fee, pot)
                <5>1. TypeOK
                    BY <1>1
                <5>2. QED
                    BY <3>4, <5>1, EnteredTyped
            <4>2. QED
                BY <3>3, <4>1
        <3>6. QED
            BY <2>1, <3>1, <3>2, <3>5
    <2>2. CASE ~ k.reserve
        BY <1>1, <1>2, <1>4, <2>2 DEF EmptySound, TypeOK
    <2>3. QED
        BY <2>1, <2>2
<1>8. TypeOK'
    BY <1>1, <1>6, <1>7 DEF TypeOK
<1> HIDE DEF row
<1>9. /\ transfer'[t].status = k.status /\ transfer'[t].kind = k
      /\ transfer'[t].amountReversed = 0 /\ transfer'[t].reserved = k.reserve
      /\ transfer'[t].source = source
    BY <1>6 DEF row
<1>10. RowSound(t)'
    <2>1. ~ Undone(t)'
        BY <1>3, <1>9 DEF Undone
    <2>2. Standing(t)' = k.amount /\ FeeHeld(t)' = k.fee /\ Kind(t)' = k
        BY <1>3, <1>9, <2>1 DEF Standing, FeeHeld, Kind
    <2>3. CASE k.reserve
        <3>1. ReservedSound(t)'
            BY <1>3, <1>7, <1>9, <2>2, <2>3 DEF ReservedSound
        <3>2. QED
            BY <1>3, <1>5, <1>6, <1>9, <2>2, <2>3, <3>1 DEF RowSound, Internal
    <2>4. CASE ~ k.reserve
        <3>1. FundedSound(t)'
            BY <1>3, <1>7, <1>9, <2>2, <2>4 DEF FundedSound, Pots
        <3>2. QED
            BY <1>3, <1>5, <1>6, <1>9, <2>2, <2>4, <3>1 DEF RowSound, Internal
    <2>5. QED
        BY <2>3, <2>4
<1>11. \A u \in Rows : RowSound(u)'
    BY <1>6, <1>7, <1>10, SoundKept DEF RowsInv
<1>12. ASSUME NEW r \in Requests
       PROVE  RequestSound(r)'
    <2>1. funding'[r] = funding[r] /\ funding[r].row \in Rows
        BY <1>1 DEF TypeOK
    <2>2. CASE funding[r].pc = "idle"
        BY <2>1, <2>2 DEF RequestSound
    <2>3. CASE funding[r].pc # "idle"
        <3>1. RequestSound(r) /\ funding[r].row # t
            BY <1>1, <2>3 DEF RowsInv, RequestSound
        <3>2. QED
            BY <1>6, <1>7, <2>1, <3>1 DEF RequestSound, Kind, Over
    <2>4. QED
        BY <2>2, <2>3
<1>13. \A pot \in Pots : Counted(t, pot) = 0
    BY <1>2 DEF Counted, EmptySound
<1>14. \A pot \in Pots :
          Counted(t, pot)' = IF k.reserve THEN Entries(k, k.amount, k.fee, pot) ELSE 0
    BY <1>7, <1>9 DEF Counted, Kind
<1>15. QED
    BY <1>6, <1>7, <1>8, <1>11, <1>12, <1>13, <1>14 DEF RowsInv

(***************************************************************************)
(* Nothing leaves a status a transfer ended in, and every status is one.   *)
(***************************************************************************)
LEMMA EndedStays ==
    ASSUME NEW from \in TransferStatus, NEW to, assertTransferTransition(from, to)
    PROVE  from \notin {"failed", "cancelled", "reversed"} /\ to \in TransferStatus
BY DEF assertTransferTransition, TRANSFER_TRANSITIONS, TransferStatus

(***************************************************************************)
(* What the invariant says of a row that is there.                         *)
(***************************************************************************)
LEMMA RowFacts ==
    ASSUME RowsInv, NEW t \in Rows, transfer[t].status # "none"
    PROVE  /\ transfer[t] \in TransferRow /\ Kind(t) \in KindType
           /\ Kind(t).amount \in Nat \ {0} /\ Kind(t).fee \in Nat
           /\ Kind(t).reserve \in BOOLEAN /\ Kind(t).from \in Pots
           /\ transfer[t].amountReversed \in Nat
           /\ transfer[t].amountReversed <= Kind(t).amount
           /\ transfer[t].status \in TransferStatus
           /\ RowSound(t) /\ moved[t] \in [Pots -> Int]
<1>1. RowSound(t) /\ moved[t] \in [Pots -> Int]
    BY DEF RowsInv, TypeOK
<1>2. transfer[t] \in TransferRow /\ transfer[t].amountReversed <= Kind(t).amount
    BY <1>1 DEF RowSound
<1>3. Kind(t) \in KindType
    BY <1>2 DEF TransferRow, Kind
<1>4. QED
    BY <1>1, <1>2, <1>3 DEF TransferRow, KindType

(***************************************************************************)
(* A transition of a payout keeps the rows sound and never takes anything. *)
(* What was sent with its money committed had been debited.                *)
(***************************************************************************)
LEMMA TransitionKeepsRows ==
    ASSUME RowsInv, NEW t \in Rows, NEW to, NEW flag \in BOOLEAN,
           transfer[t].status # "none", ~ Internal(t),
           transitionTransfer(t, to, flag),
           \/ flag = transfer[t].reserved
           \/ flag /\ ~ Kind(t).reserve /\ moved[t][Platform] <= - Kind(t).amount,
           funding' \in [Requests -> [pc : {"idle", "debit", "move"}, row : Rows]],
           \A r \in Requests : funding'[r] = funding[r] \/ funding'[r].pc = "idle",
           deposited' \in [Pots -> Int]
    PROVE  /\ RowsInv'
           /\ \A u \in Rows : u # t => transfer'[u] = transfer[u] /\ moved'[u] = moved[u]
           /\ \A pot \in Pots : Counted(t, pot) <= Counted(t, pot)'
<1> DEFINE k == Kind(t)
           a == Kind(t).amount
           fee == Kind(t).fee
           rf == ReleasedFee(t)
           row == [transfer[t] EXCEPT !.status = to, !.reserved = flag]
<1>1. /\ transfer[t] \in TransferRow /\ k \in KindType
      /\ a \in Nat \ {0} /\ fee \in Nat /\ k.reserve \in BOOLEAN /\ k.from \in Pots
      /\ transfer[t].status \in TransferStatus /\ RowSound(t)
      /\ moved[t] \in [Pots -> Int] /\ TypeOK
    BY RowFacts DEF RowsInv
<1>2. transfer[t].amountReversed = 0 /\ transfer[t].source = 0 /\ k.to = Bank
    BY <1>1 DEF RowSound, TransferRow, Internal
<1>3. ~ Over(t) /\ to \in TransferStatus /\ to # "none"
    BY <1>1, EndedStays DEF transitionTransfer, Over, TransferStatus
<1>4. rf \in Nat /\ rf = IF k.feeRefundable THEN fee ELSE 0
    BY <1>1 DEF ReleasedFee
<1>5. /\ transfer' = [transfer EXCEPT ![t] = row]
      /\ moved' = IF Releases(to, flag) THEN Entered(t, k, -a, -rf) ELSE moved
    <2>1. a - transfer[t].amountReversed = a
        BY <1>1, <1>2
    <2>2. transfer' = [transfer EXCEPT ![t].status = to, ![t].reserved = flag]
        BY DEF transitionTransfer
    <2>3. transfer' = [transfer EXCEPT ![t] = row]
        BY <1>1, <2>2 DEF TypeOK
    <2>4. moved' = IF Releases(to, flag)
                   THEN Entered(t, k, -(a - transfer[t].amountReversed), -rf) ELSE moved
        BY DEF transitionTransfer, Debited
    <2>5. QED
        BY <2>1, <2>3, <2>4
<1>6. row \in TransferRow
    BY <1>1, <1>3 DEF TransferRow
<1>7. /\ transfer' \in [Rows -> TransferRow \cup {NoTransfer}] /\ transfer'[t] = row
      /\ \A u \in Rows : u # t => transfer'[u] = transfer[u]
    BY <1>1, <1>5, <1>6 DEF TypeOK
<1>8. /\ row.status = to /\ row.reserved = flag /\ row.kind = k
      /\ row.amountReversed = 0 /\ row.source = 0
    BY <1>1, <1>2 DEF TransferRow, Kind
<1>9. /\ Kind(t)' = k /\ ~ Internal(t)'
      /\ Over(t)' <=> to \in {"failed", "cancelled", "reversed"}
      /\ Undone(t)' <=> Over(t)'
    BY <1>2, <1>7, <1>8 DEF Kind, Internal, Over, Undone
<1>10. /\ Standing(t)' = IF Over(t)' THEN 0 ELSE a
       /\ FeeHeld(t)' = IF Over(t)' THEN fee - rf ELSE fee
    BY <1>1, <1>4, <1>7, <1>8, <1>9 DEF Standing, FeeHeld
<1>11. Standing(t) = a /\ FeeHeld(t) = fee
    BY <1>1, <1>2, <1>3 DEF Standing, FeeHeld, Undone, Over
<1>12. Releases(to, flag) <=> Over(t)' /\ flag
    BY <1>9 DEF Releases
<1> HIDE DEF rf, row
<1>13. /\ moved' \in [Rows -> [Pots -> Int]]
       /\ \A u \in Rows : u # t => moved'[u] = moved[u]
       /\ \A pot \in Pots :
             moved'[t][pot] = moved[t][pot] + IF Releases(to, flag)
                                              THEN Entries(k, -a, -rf, pot) ELSE 0
    <2>1. CASE Releases(to, flag)
        <3>1. /\ Entered(t, k, -a, -rf) \in [Rows -> [Pots -> Int]]
              /\ \A u \in Rows : u # t => Entered(t, k, -a, -rf)[u] = moved[u]
              /\ \A pot \in Pots :
                    Entered(t, k, -a, -rf)[t][pot] = moved[t][pot] + Entries(k, -a, -rf, pot)
            <4>1. TypeOK /\ -a \in Int /\ -rf \in Int
                BY <1>1, <1>4
            <4>2. QED
                BY <4>1, EnteredTyped
        <3>2. QED
            BY <1>5, <2>1, <3>1
    <2>2. CASE ~ Releases(to, flag)
        BY <1>1, <1>5, <2>2 DEF TypeOK
    <2>3. QED
        BY <2>1, <2>2
<1>14. \A pot \in Pots : pot # Bank
    BY PotsAssumption
<1>15. \A pot \in Pots : Entries(k, -a, -rf, pot) = IF pot = k.from THEN a + rf ELSE 0
    BY <1>1, <1>2, <1>4, <1>14 DEF Entries
<1>16. RowSound(t)'
    <2>1. CASE k.reserve
        <3>1. /\ ReservedSound(t) /\ flag
            BY <1>1, <2>1 DEF RowSound, ReservedSound
        <3>2. \A pot \in Pots : moved[t][pot] = IF pot = k.from THEN -(a + fee) ELSE 0
            BY <1>1, <1>2, <1>11, <1>14, <3>1 DEF ReservedSound, Entries
        <3>3. \A pot \in Pots :
                 Entries(k, Standing(t)', FeeHeld(t)', pot)
                   = IF pot = k.from THEN -(Standing(t)' + FeeHeld(t)') ELSE 0
            BY <1>1, <1>2, <1>4, <1>10, <1>14 DEF Entries
        <3>4. \A pot \in Pots :
                 moved'[t][pot] = Entries(k, Standing(t)', FeeHeld(t)', pot)
            <4>1. CASE Over(t)'
                <5> SUFFICES ASSUME NEW pot \in Pots
                             PROVE  moved'[t][pot]
                                       = Entries(k, Standing(t)', FeeHeld(t)', pot)
                    OBVIOUS
                <5>1. /\ moved'[t][pot] = moved[t][pot] + Entries(k, -a, -rf, pot)
                      /\ Standing(t)' = 0 /\ FeeHeld(t)' = fee - rf
                    BY <1>10, <1>12, <1>13, <3>1, <4>1
                <5>2. CASE pot = k.from
                    BY <1>1, <1>4, <1>15, <3>2, <3>3, <5>1, <5>2
                <5>3. CASE pot # k.from
                    BY <1>1, <1>4, <1>15, <3>2, <3>3, <5>1, <5>3
                <5>4. QED
                    BY <5>2, <5>3
            <4>2. CASE ~ Over(t)'
                BY <1>1, <1>4, <1>10, <1>12, <1>13, <3>2, <3>3, <4>2
            <4>3. QED
                BY <4>1, <4>2
        <3>5. ReservedSound(t)'
            BY <1>7, <1>8, <1>9, <3>1, <3>4 DEF ReservedSound
        <3>6. QED
            BY <1>1, <1>6, <1>7, <1>8, <1>9, <2>1, <3>5 DEF RowSound
    <2>2. CASE ~ k.reserve
        <3>1. FundedSound(t) /\ k.from = Platform /\ fee = 0 /\ rf = 0
            BY <1>1, <1>4, <2>2 DEF RowSound, FundedSound, FundedLater
        <3>2. flag => moved[t][Platform] <= -a
            BY <1>3, <3>1 DEF FundedSound
        <3>3. Platform \in Pots /\ \A pot \in Accounts : pot \in Pots /\ pot # Platform
            BY PotsAssumption DEF Pots
        <3>4. \A pot \in Accounts : moved'[t][pot] = 0
            BY <1>13, <1>15, <3>1, <3>3 DEF FundedSound
        <3>5. moved'[t][Platform] <= 0 /\ (flag /\ ~ Over(t)' => moved'[t][Platform] <= -a)
            <4>1. moved[t][Platform] \in Int /\ moved[t][Platform] <= 0
                BY <1>1, <3>1, <3>3 DEF FundedSound
            <4>2. QED
                BY <1>1, <1>12, <1>13, <1>15, <3>1, <3>2, <3>3, <4>1
        <3>6. FundedSound(t)'
            BY <1>7, <1>8, <1>9, <3>1, <3>4, <3>5 DEF FundedSound
        <3>7. QED
            BY <1>1, <1>6, <1>7, <1>8, <1>9, <2>2, <3>6 DEF RowSound
    <2>3. QED
        BY <2>1, <2>2
<1>17. \A u \in Rows : RowSound(u)'
    BY <1>7, <1>13, <1>16, SoundKept DEF RowsInv
<1>18. ASSUME NEW r \in Requests
       PROVE  RequestSound(r)'
    <2>1. CASE funding'[r].pc = "idle"
        BY <2>1 DEF RequestSound
    <2>2. CASE funding'[r] = funding[r] /\ funding[r].pc # "idle"
        <3>1. RequestSound(r) /\ funding[r].row \in Rows
            BY <1>1 DEF RowsInv, TypeOK
        <3>2. CASE funding[r].row # t
            BY <1>7, <1>13, <2>2, <3>1, <3>2 DEF RequestSound, Kind, Over
        <3>3. CASE funding[r].row = t
            <4>1. ~ k.reserve /\ (funding[r].pc = "move" => moved[t][Platform] <= -a)
                BY <1>3, <2>2, <3>1, <3>3 DEF RequestSound
            <4>2. ~ Over(t)' => moved'[t] = moved[t]
                BY <1>5, <1>12
            <4>3. transfer'[t].status # "none"
                BY <1>3, <1>7, <1>8
            <4>4. QED
                BY <1>9, <2>2, <3>3, <4>1, <4>2, <4>3 DEF RequestSound
        <3>4. QED
            BY <3>2, <3>3
    <2>3. QED
        BY <2>1, <2>2
<1>19. TypeOK'
    BY <1>7, <1>13 DEF TypeOK
<1>20. \A pot \in Pots : Counted(t, pot) <= Counted(t, pot)'
    <2> SUFFICES ASSUME NEW pot \in Pots
                 PROVE  Counted(t, pot) <= Counted(t, pot)'
        OBVIOUS
    <2>1. moved[t][pot] \in Int /\ moved[t][pot] <= moved'[t][pot]
        BY <1>1, <1>4, <1>13, <1>15
    <2>2. QED
        BY <1>9, <2>1 DEF Counted
<1>21. QED
    BY <1>7, <1>13, <1>17, <1>18, <1>19, <1>20 DEF RowsInv

(***************************************************************************)
(* A reversal keeps the rows sound, and its entries are those of n.        *)
(***************************************************************************)
LEMMA ReverseKeepsRows ==
    ASSUME RowsInv, NEW t \in Rows, NEW n \in Nat, ReverseTransfer(t, n)
    PROVE  /\ RowsInv'
           /\ \A u \in Rows : u # t => transfer'[u] = transfer[u] /\ moved'[u] = moved[u]
           /\ Kind(t).to \in Accounts /\ n <= Available(Kind(t).to)
           /\ \A pot \in Pots :
                 Counted(t, pot)' = Counted(t, pot) + Entries(Kind(t), -n, 0, pot)
<1> DEFINE k == Kind(t)
           a == Kind(t).amount
           fee == Kind(t).fee
           ar == transfer[t].amountReversed
           row == [transfer[t] EXCEPT !.amountReversed = ar + n,
                                      !.status = ReversedStatus(t, ar + n)]
<1>1. /\ transfer[t].status \notin {"none", "failed", "cancelled"}
      /\ k.to \in Accounts /\ n > 0 /\ ar + n <= a
    BY DEF ReverseTransfer
<1>2. /\ transfer[t] \in TransferRow /\ k \in KindType
      /\ a \in Nat \ {0} /\ fee \in Nat /\ k.reserve \in BOOLEAN /\ ar \in Nat
      /\ transfer[t].status \in TransferStatus /\ RowSound(t)
      /\ moved[t] \in [Pots -> Int] /\ TypeOK
    BY <1>1, RowFacts DEF RowsInv
<1>3. Internal(t) /\ k.to # Bank
    BY <1>1, PotsAssumption DEF Internal, Pots
<1>4. k.reserve /\ ReservedSound(t)
    BY <1>2, <1>3 DEF RowSound, FundedSound, FundedLater, TransferRow, TransferStatus
<1>5. Standing(t) = a - ar /\ FeeHeld(t) = fee
    BY <1>3 DEF Standing, FeeHeld, Undone
<1>6. transfer[t].status # "reversed"
    BY <1>1, <1>2, <1>3, <1>4, <1>5 DEF ReservedSound
<1>7. ReversedStatus(t, ar + n) = IF ar + n = a THEN "reversed" ELSE transfer[t].status
    BY <1>1, <1>2 DEF ReversedStatus
<1>8. transfer' = [transfer EXCEPT ![t] = row]
    <2>1. transfer' = [transfer EXCEPT ![t].amountReversed = ar + n,
                                       ![t].status = ReversedStatus(t, ar + n)]
        BY DEF ReverseTransfer
    <2>2. QED
        BY <1>2, <2>1 DEF TypeOK
<1>9. moved' = Entered(t, k, -n, 0)
    BY DEF ReverseTransfer, Debited
<1>10. /\ row \in TransferRow
       /\ row.amountReversed = ar + n /\ row.kind = k
       /\ row.status = IF ar + n = a THEN "reversed" ELSE transfer[t].status
       /\ row.reserved = transfer[t].reserved /\ row.source = transfer[t].source
    <2> DEFINE st == ReversedStatus(t, ar + n)
               back == ar + n
    <2>1. st \in TransferStatus /\ back \in Nat
        BY <1>2, <1>7 DEF TransferStatus
    <2>2. row = [transfer[t] EXCEPT !.amountReversed = back, !.status = st]
        OBVIOUS
    <2>3. st = IF back = a THEN "reversed" ELSE transfer[t].status
        BY <1>7
    <2> HIDE DEF st, back, row
    <2>4. /\ row \in TransferRow /\ row.amountReversed = back /\ row.status = st
          /\ row.kind = transfer[t].kind /\ row.reserved = transfer[t].reserved
          /\ row.source = transfer[t].source
        BY <1>2, <2>1, <2>2 DEF TransferRow
    <2>5. QED
        BY <2>3, <2>4 DEF st, back, Kind
<1>11. /\ transfer' \in [Rows -> TransferRow \cup {NoTransfer}] /\ transfer'[t] = row
       /\ \A u \in Rows : u # t => transfer'[u] = transfer[u]
    BY <1>2, <1>8, <1>10 DEF TypeOK
<1> HIDE DEF row
<1>12. /\ moved' \in [Rows -> [Pots -> Int]]
       /\ \A u \in Rows : u # t => moved'[u] = moved[u]
       /\ \A pot \in Pots : moved'[t][pot] = moved[t][pot] + Entries(k, -n, 0, pot)
    <2>1. TypeOK /\ -n \in Int /\ 0 \in Int
        BY <1>2
    <2>2. /\ Entered(t, k, -n, 0) \in [Rows -> [Pots -> Int]]
          /\ \A u \in Rows : u # t => Entered(t, k, -n, 0)[u] = moved[u]
          /\ \A pot \in Pots :
                Entered(t, k, -n, 0)[t][pot] = moved[t][pot] + Entries(k, -n, 0, pot)
        BY <2>1, EnteredTyped
    <2>3. QED
        BY <1>9, <2>2
<1>13. Kind(t)' = k /\ Internal(t)' /\ ~ Undone(t)'
    BY <1>3, <1>10, <1>11 DEF Kind, Internal, Undone
<1>14. Standing(t)' = a - (ar + n) /\ FeeHeld(t)' = fee
    BY <1>10, <1>11, <1>13 DEF Standing, FeeHeld
<1>15. RowSound(t)'
    <2>1. \A pot \in Pots :
             moved'[t][pot] = Entries(k, Standing(t)', FeeHeld(t)', pot)
        BY <1>2, <1>4, <1>5, <1>12, <1>14 DEF ReservedSound, Entries
    <2>2. (transfer'[t].status = "reversed") <=> (Standing(t)' = 0)
        BY <1>1, <1>2, <1>6, <1>10, <1>11, <1>14
    <2>3. ReservedSound(t)'
        BY <1>4, <1>10, <1>11, <1>13, <2>1, <2>2 DEF ReservedSound
    <2>4. QED
        BY <1>1, <1>2, <1>4, <1>10, <1>11, <1>13, <2>3 DEF RowSound
<1>16. \A u \in Rows : RowSound(u)'
    BY <1>11, <1>12, <1>15, SoundKept DEF RowsInv
<1>17. ASSUME NEW r \in Requests
       PROVE  RequestSound(r)'
    <2>1. funding' = funding /\ RequestSound(r) /\ funding[r].row \in Rows
        BY <1>2 DEF ReverseTransfer, RowsInv, TypeOK
    <2>2. CASE funding[r].pc = "idle"
        BY <2>1, <2>2 DEF RequestSound
    <2>3. CASE funding[r].pc # "idle"
        <3>1. funding[r].row # t
            BY <1>4, <2>1, <2>3 DEF RequestSound
        <3>2. QED
            BY <1>11, <1>12, <2>1, <3>1 DEF RequestSound, Kind, Over
    <2>4. QED
        BY <2>2, <2>3
<1>18. TypeOK'
    BY <1>2, <1>11, <1>12 DEF TypeOK, ReverseTransfer
<1>19. \A pot \in Pots : Counted(t, pot)' = Counted(t, pot) + Entries(k, -n, 0, pot)
    BY <1>4, <1>12, <1>13 DEF Counted
<1>20. n <= Available(k.to)
    BY DEF ReverseTransfer
<1>21. QED
    BY <1>1, <1>11, <1>12, <1>16, <1>17, <1>18, <1>19, <1>20 DEF RowsInv

(***************************************************************************)
(* A funding request keeps the rows sound; only its debit moves anything,  *)
(* and that is not counted.                                                *)
(***************************************************************************)
LEMMA CheckKeepsRows ==
    ASSUME RowsInv, NEW r \in Requests, NEW t \in Rows, FundCheck(r, t)
    PROVE  RowsInv'
<1>1. TypeOK'
    BY DEF RowsInv, TypeOK, FundCheck
<1>2. \A u \in Rows : RowSound(u)'
    BY SoundKept DEF RowsInv, FundCheck
<1>3. ASSUME NEW q \in Requests
      PROVE  RequestSound(q)'
    <2>1. CASE q = r
        <3>1. funding'[q] = [pc |-> "debit", row |-> t]
            BY <2>1 DEF FundCheck, RowsInv, TypeOK
        <3>2. transfer'[t].status # "none" /\ ~ Kind(t)'.reserve
            BY DEF FundCheck, Kind
        <3>3. QED
            BY <3>1, <3>2 DEF RequestSound
    <2>2. CASE q # r
        <3>1. funding'[q] = funding[q] /\ transfer' = transfer /\ moved' = moved
            BY <2>2 DEF FundCheck, RowsInv, TypeOK
        <3>2. QED
            BY <3>1 DEF RowsInv, RequestSound, Kind, Over
    <2>3. QED
        BY <2>1, <2>2
<1>4. QED
    BY <1>1, <1>2, <1>3 DEF RowsInv

(***************************************************************************)
(* The debit of a funding request keeps the rows sound: what it took is    *)
(* there when the request goes on.                                         *)
(***************************************************************************)
LEMMA DebitKeepsRows ==
    ASSUME RowsInv, NEW r \in Requests, FundDebit(r)
    PROVE  /\ RowsInv'
           /\ \A pot \in Pots : \A u \in Rows : Counted(u, pot)' = Counted(u, pot)
<1> PICK t \in Rows : t = funding[r].row
    BY DEF RowsInv, TypeOK
<1> DEFINE a == Kind(t).amount
<1>1. /\ TypeOK /\ t = funding[r].row /\ funding[r].pc = "debit"
      /\ transfer[t].status # "none" /\ ~ Kind(t).reserve
    BY DEF RowsInv, RequestSound, FundDebit
<1>2. /\ transfer[t] \in TransferRow /\ a \in Nat \ {0} /\ RowSound(t)
      /\ moved[t] \in [Pots -> Int]
    BY <1>1, RowFacts
<1>3. FundedSound(t)
    BY <1>1, <1>2 DEF RowSound, TransferRow, TransferStatus
<1>4. Platform \in Pots /\ Platform \notin Accounts
    BY PotsAssumption DEF Pots
<1>5. /\ moved' \in [Rows -> [Pots -> Int]]
      /\ \A u \in Rows : u # t => moved'[u] = moved[u]
      /\ \A pot \in Pots : pot # Platform => moved'[t][pot] = moved[t][pot]
      /\ moved'[t][Platform] = moved[t][Platform] - a
    <2>1. moved' = [moved EXCEPT ![t][Platform] = @ - a]
        BY DEF FundDebit
    <2>2. QED
        BY <1>1, <1>2, <1>4, <2>1 DEF TypeOK
<1>6. moved[t][Platform] \in Int /\ moved[t][Platform] <= 0
    BY <1>2, <1>3, <1>4 DEF FundedSound
<1>7. moved'[t][Platform] <= -a /\ moved'[t][Platform] <= moved[t][Platform]
    BY <1>2, <1>5, <1>6
<1>8. transfer' = transfer
    BY DEF FundDebit
<1>9. RowSound(t)'
    <2>1. moved'[t][Platform] <= 0
        BY <1>2, <1>5, <1>6
    <2>2. \A pot \in Accounts : moved'[t][pot] = 0
        BY <1>3, <1>4, <1>5 DEF FundedSound, Pots
    <2>3. FundedSound(t)'
        BY <1>3, <1>7, <1>8, <2>1, <2>2 DEF FundedSound, Kind, Over
    <2>4. QED
        BY <1>1, <1>2, <1>8, <2>3 DEF RowSound, Kind, Internal, TransferRow, TransferStatus
<1>10. \A u \in Rows : RowSound(u)'
    BY <1>5, <1>8, <1>9, SoundKept DEF RowsInv
<1>11. funding' = [funding EXCEPT ![r].pc = "move"] /\ deposited' = deposited
    BY DEF FundDebit
<1>12. /\ funding' \in [Requests -> [pc : {"idle", "debit", "move"}, row : Rows]]
       /\ funding'[r].row = t
       /\ \A q \in Requests : q # r => funding'[q] = funding[q]
    BY <1>1, <1>11 DEF TypeOK
<1>13. ASSUME NEW q \in Requests
       PROVE  RequestSound(q)'
    <2>1. CASE q = r
        BY <1>1, <1>7, <1>8, <1>12, <2>1 DEF RequestSound, Kind
    <2>2. CASE q # r /\ funding[q].row # t
        <3>1. RequestSound(q) /\ funding'[q] = funding[q] /\ funding[q].row \in Rows
            BY <1>1, <1>12, <2>2 DEF RowsInv, TypeOK
        <3>2. QED
            BY <1>5, <1>8, <2>2, <3>1 DEF RequestSound, Kind, Over
    <2>3. CASE q # r /\ funding[q].row = t
        BY <1>1, <1>7, <1>8, <1>12, <2>3 DEF RequestSound, Kind
    <2>4. QED
        BY <2>1, <2>2, <2>3
<1>14. TypeOK'
    BY <1>1, <1>5, <1>8, <1>11, <1>12 DEF TypeOK
<1>15. \A pot \in Pots : \A u \in Rows : Counted(u, pot)' = Counted(u, pot)
    BY <1>1, <1>5, <1>8 DEF Counted, Kind
<1>16. QED
    BY <1>10, <1>13, <1>14, <1>15 DEF RowsInv

(***************************************************************************)
(* The last step of a funding request keeps the rows sound: a row moves on *)
(* only if it was debited.                                                 *)
(***************************************************************************)
LEMMA MoveKeepsRows ==
    ASSUME RowsInv, NEW r \in Requests, FundMove(r)
    PROVE  \E t \in Rows :
              /\ RowsInv'
              /\ \A u \in Rows : u # t => transfer'[u] = transfer[u] /\ moved'[u] = moved[u]
              /\ \A pot \in Pots : Counted(t, pot) <= Counted(t, pot)'
<1> PICK t \in Rows : t = funding[r].row
    BY DEF RowsInv, TypeOK
<1>1. /\ TypeOK /\ t = funding[r].row /\ funding[r].pc = "move"
      /\ transfer[t].status # "none" /\ ~ Kind(t).reserve
      /\ ~ Over(t) => moved[t][Platform] <= - Kind(t).amount
    BY DEF RowsInv, RequestSound, FundMove
<1>2. transfer[t] \in TransferRow /\ transfer[t].status \in TransferStatus /\ RowSound(t)
    BY <1>1, RowFacts
<1>3. ~ Internal(t)
    BY <1>1, <1>2 DEF RowSound, FundedSound, FundedLater, Internal, TransferRow, TransferStatus
<1>4. 1 \in Rows
    BY MaxTransfersAssumption DEF Rows
<1>5. funding' = [funding EXCEPT ![r] = NotFunding] /\ deposited' = deposited
    BY DEF FundMove
<1>6. /\ funding' \in [Requests -> [pc : {"idle", "debit", "move"}, row : Rows]]
      /\ \A q \in Requests : funding'[q] = funding[q] \/ funding'[q].pc = "idle"
    BY <1>1, <1>4, <1>5 DEF TypeOK, NotFunding
<1>7. deposited' \in [Pots -> Int]
    BY <1>1, <1>5 DEF TypeOK
<1>8. CASE assertTransferTransition(transfer[t].status, "processing")
    <2>1. transitionTransfer(t, "processing", TRUE)
        BY <1>1, <1>8 DEF FundMove
    <2>2. ~ Over(t)
        BY <1>2, <1>8, EndedStays DEF Over
    <2>3. moved[t][Platform] <= - Kind(t).amount
        BY <1>1, <2>2
    <2>4. QED
        BY <1>1, <1>3, <1>6, <1>7, <2>1, <2>3, TransitionKeepsRows
<1>9. CASE ~ assertTransferTransition(transfer[t].status, "processing")
    <2>1. transfer' = transfer /\ moved' = moved
        BY <1>1, <1>9 DEF FundMove
    <2>2. TypeOK'
        BY <1>1, <1>6, <1>7, <2>1 DEF TypeOK
    <2>3. \A u \in Rows : RowSound(u)'
        BY <2>1, SoundKept DEF RowsInv
    <2>4. \A q \in Requests : RequestSound(q)'
        BY <1>6, <2>1 DEF RowsInv, RequestSound, Kind, Over
    <2>5. \A pot \in Pots : Counted(t, pot) <= Counted(t, pot)'
        BY <1>1, <2>1, CountedInt DEF Counted, Kind
    <2>6. QED
        BY <2>1, <2>2, <2>3, <2>4, <2>5 DEF RowsInv
<1>10. QED
    BY <1>8, <1>9

(***************************************************************************)
(* A step that leaves the transfers alone changes a pot by what it         *)
(* deposits.                                                               *)
(***************************************************************************)
LEMMA RowsStay ==
    ASSUME RowsInv, transfer' = transfer, moved' = moved, funding' = funding,
           deposited' \in [Pots -> Int]
    PROVE  /\ RowsInv'
           /\ \A pot \in Pots :
                 /\ Unfunded(pot) \in Int
                 /\ Unfunded(pot)' = Unfunded(pot) + deposited'[pot] - deposited[pot]
<1>1. TypeOK'
    BY DEF RowsInv, TypeOK
<1>2. \A u \in Rows : RowSound(u)'
    BY SoundKept DEF RowsInv
<1>3. \A r \in Requests : RequestSound(r)'
    BY DEF RowsInv, RequestSound, Kind, Over
<1>4. PICK t \in Rows : TRUE
    BY MaxTransfersAssumption DEF Rows
<1>5. ASSUME NEW pot \in Pots
      PROVE  /\ Unfunded(pot) \in Int
             /\ Unfunded(pot)' = Unfunded(pot) + deposited'[pot] - deposited[pot]
    <2>1. /\ Unfunded(pot) \in Int
          /\ Unfunded(pot)' = Unfunded(pot) + deposited'[pot] - deposited[pot]
                                + Counted(t, pot)' - Counted(t, pot)
        BY <1>1, OneRowMoves DEF RowsInv
    <2>2. Counted(t, pot)' = Counted(t, pot) /\ Counted(t, pot) \in Int
        BY CountedInt DEF RowsInv, Counted, Kind
    <2>3. deposited'[pot] \in Int /\ deposited[pot] \in Int
        BY DEF RowsInv, TypeOK
    <2>4. QED
        BY <2>1, <2>2, <2>3
<1>6. QED
    BY <1>1, <1>2, <1>3, <1>5 DEF RowsInv

-----------------------------------------------------------------------------
(***************************************************************************)
(* What the invariant says of a charge that is there.                      *)
(***************************************************************************)
LEMMA ChargeFacts ==
    ASSUME ConnectTypeOK, NEW c \in Charges, charge[c].status # "none"
    PROVE  /\ charge[c] \in ChargeRow /\ On(c) \in Terms
           /\ On(c).amount \in Nat \ {0} /\ On(c).fee \in Nat /\ On(c).fee <= On(c).amount
           /\ On(c).account \in Accounts /\ On(c).account # Platform
           /\ On(c).account \in Pots /\ Platform \in Pots
           /\ On(c).mode \in {"direct", "forwarded"}
           /\ charge[c].refunded \in Nat /\ charge[c].refunded <= On(c).amount
           /\ charge[c].feeRefunded \in Nat /\ charge[c].feeRefunded <= On(c).fee
           /\ charge[c].feeMoved \in Nat /\ charge[c].feeMoved <= charge[c].feeRefunded
<1>1. charge[c] \in ChargeRow
    BY DEF ConnectTypeOK, NoCharge
<1>2. /\ charge[c].refunded <= charge[c].on.amount
      /\ charge[c].feeRefunded <= charge[c].on.fee
      /\ charge[c].feeMoved <= charge[c].feeRefunded
    BY DEF ConnectTypeOK
<1>3. On(c) \in Terms
    BY <1>1 DEF ChargeRow, On
<1>4. /\ On(c).amount \in Nat \ {0} /\ On(c).fee \in 0..On(c).amount
      /\ On(c).mode \in {"direct", "forwarded"} /\ On(c).account \in Accounts
    BY <1>3, TermsAssumption
<1>5. On(c).account # Platform /\ On(c).account \in Pots /\ Platform \in Pots
    BY <1>4, PotsAssumption DEF Pots
<1>6. QED
    BY <1>1, <1>2, <1>3, <1>4, <1>5 DEF ChargeRow, On

(***************************************************************************)
(* Replacing a charge's row by one of its type keeps the types.            *)
(***************************************************************************)
LEMMA ChargeTyped ==
    ASSUME ConnectTypeOK, TypeOK', NEW c \in Charges, NEW row \in ChargeRow,
           row.refunded <= row.on.amount, row.feeRefunded <= row.on.fee,
           row.feeMoved <= row.feeRefunded,
           charge' = [charge EXCEPT ![c] = row],
           account' = account, returning' \subseteq Charges
    PROVE  /\ ConnectTypeOK' /\ charge'[c] = row
           /\ \A d \in Charges : d # c => charge'[d] = charge[d]
BY DEF ConnectTypeOK

(***************************************************************************)
(* Nothing is taken from the charges when they do not change.              *)
(***************************************************************************)
LEMMA ChargesStay ==
    ASSUME ConnectTypeOK, TypeOK', charge' = charge,
           account' \in [Accounts -> [active : BOOLEAN, charges : BOOLEAN,
                                      payouts : BOOLEAN, submitted : BOOLEAN]],
           returning' \subseteq Charges
    PROVE  ConnectTypeOK' /\ \A pot \in Pots : Unchecked(pot)' = Unchecked(pot)
<1>1. ConnectTypeOK'
    BY DEF ConnectTypeOK
<1>2. \A pot \in Pots : Unchecked(pot)' = Unchecked(pot)
    BY DEF Unchecked, Taken, Bearer, On
<1>3. QED
    BY <1>1, <1>2

(***************************************************************************)
(* Returning a fee, from either route, keeps the invariant: what the       *)
(* platform hands over is counted as taken without a check.                *)
(***************************************************************************)
LEMMA FeeKeeps ==
    ASSUME IInv, NEW c \in Charges, NEW requested \in Nat,
           charge[c].status # "none", requested <= FeeLeft(c),
           refundPlatformFee(c, requested),
           transfer' = transfer, moved' = moved, funding' = funding,
           account' = account, returning' \subseteq Charges
    PROVE  IInv'
<1> DEFINE m == feeRefundShare(c, requested)
           acct == On(c).account
           row == [charge[c] EXCEPT !.feeRefunded = charge[c].feeRefunded + requested,
                                    !.feeMoved = charge[c].feeMoved + m]
<1>1. RowsInv /\ ConnectTypeOK /\ TypeOK
    BY DEF IInv, NeverOverdrawn, RowsInv
<1>2. m \in Nat /\ m <= requested
    BY <1>1, ShareWithin
<1>3. /\ charge[c] \in ChargeRow /\ acct \in Accounts /\ acct # Platform
      /\ acct \in Pots /\ Platform \in Pots /\ On(c).fee \in Nat
      /\ charge[c].refunded \in Nat /\ charge[c].refunded <= On(c).amount
      /\ charge[c].feeRefunded \in Nat /\ charge[c].feeRefunded <= On(c).fee
      /\ charge[c].feeMoved \in Nat /\ charge[c].feeMoved <= charge[c].feeRefunded
    BY <1>1, ChargeFacts
<1>4. /\ charge' = [charge EXCEPT ![c].feeRefunded = @ + requested,
                                  ![c].feeMoved = @ + m]
      /\ deposited' = [deposited EXCEPT ![Platform] = @ - m, ![acct] = @ + m]
    BY DEF refundPlatformFee
<1>5. charge[c].feeRefunded + requested <= On(c).fee
    BY <1>3 DEF FeeLeft
<1> HIDE DEF m, acct
<1>6. charge' = [charge EXCEPT ![c] = row]
    BY <1>1, <1>4 DEF ConnectTypeOK
<1>7. /\ row \in ChargeRow /\ row.on = On(c) /\ row.refunded = charge[c].refunded
      /\ row.status = charge[c].status
      /\ row.feeRefunded = charge[c].feeRefunded + requested
      /\ row.feeMoved = charge[c].feeMoved + m
    <2> DEFINE x == charge[c].feeRefunded + requested
               y == charge[c].feeMoved + m
    <2>1. x \in Nat /\ y \in Nat
        BY <1>2, <1>3
    <2>2. row = [charge[c] EXCEPT !.feeRefunded = x, !.feeMoved = y]
        OBVIOUS
    <2> HIDE DEF x, y, row
    <2>3. /\ row \in ChargeRow /\ row.on = charge[c].on /\ row.status = charge[c].status
          /\ row.refunded = charge[c].refunded /\ row.feeRefunded = x /\ row.feeMoved = y
        BY <1>3, <2>1, <2>2 DEF ChargeRow
    <2>4. QED
        BY <2>3 DEF x, y, On
<1> HIDE DEF row
<1>8. deposited' \in [Pots -> Int]
    BY <1>1, <1>2, <1>3, <1>4 DEF TypeOK
<1>9. /\ RowsInv'
      /\ \A pot \in Pots :
            /\ Unfunded(pot) \in Int
            /\ Unfunded(pot)' = Unfunded(pot) + deposited'[pot] - deposited[pot]
    BY <1>1, <1>8, RowsStay
<1>10. /\ ConnectTypeOK' /\ charge'[c] = row
       /\ \A d \in Charges : d # c => charge'[d] = charge[d]
    <2>1. TypeOK'
        BY <1>9 DEF RowsInv
    <2>2. row.refunded <= row.on.amount /\ row.feeRefunded <= row.on.fee
        BY <1>3, <1>5, <1>7
    <2>3. row.feeMoved <= row.feeRefunded
        BY <1>2, <1>3, <1>7
    <2>4. QED
        BY <1>1, <1>6, <1>7, <2>1, <2>2, <2>3, ChargeTyped
<1>11. ASSUME NEW pot \in Pots
       PROVE  Unfunded(pot)' + Unchecked(pot)' >= 0
    <2>1. Unchecked(pot)' = Unchecked(pot) + Taken(c, pot)' - Taken(c, pot)
        BY <1>1, <1>10, OneChargeChanges
    <2>2. /\ Bearer(c)' = Bearer(c)
          /\ Taken(c, pot)' = Taken(c, pot) + IF pot = Platform THEN m ELSE 0
        <3>1. On(c)' = On(c) /\ charge'[c].status # "none"
            BY <1>7, <1>10 DEF On
        <3>2. Bearer(c)' = Bearer(c)
            BY <3>1 DEF Bearer
        <3>3. QED
            BY <1>2, <1>3, <1>7, <1>10, <3>1, <3>2 DEF Taken
    <2>3. /\ Unfunded(pot) \in Int /\ Unchecked(pot) \in Nat /\ Taken(c, pot) \in Nat
          /\ Unfunded(pot) + Unchecked(pot) >= 0
        BY <1>1, <1>9, UncheckedNat, TakenNat DEF IInv, NeverOverdrawn
    <2>4. /\ deposited[pot] \in Int
          /\ deposited'[pot] = IF pot = Platform THEN deposited[pot] - m
                               ELSE IF pot = acct THEN deposited[pot] + m
                               ELSE deposited[pot]
        BY <1>1, <1>2, <1>3, <1>4 DEF TypeOK
    <2>5. Unfunded(pot)' = Unfunded(pot) + deposited'[pot] - deposited[pot]
        BY <1>9
    <2>6. CASE pot = Platform
        BY <1>2, <2>1, <2>2, <2>3, <2>4, <2>5, <2>6
    <2>7. CASE pot # Platform
        BY <1>2, <2>1, <2>2, <2>3, <2>4, <2>5, <2>7
    <2>8. QED
        BY <2>6, <2>7
<1>12. QED
    BY <1>9, <1>10, <1>11 DEF IInv, NeverOverdrawn

(***************************************************************************)
(* A step after which no pot has less keeps the invariant.                 *)
(***************************************************************************)
LEMMA PotsGrow ==
    ASSUME IInv, RowsInv', ConnectTypeOK',
           \A pot \in Pots : Unchecked(pot)' = Unchecked(pot),
           \A pot \in Pots : \E d \in Nat :
              Unfunded(pot) \in Int /\ Unfunded(pot)' = Unfunded(pot) + d
    PROVE  IInv'
<1>1. ASSUME NEW pot \in Pots
      PROVE  Unfunded(pot)' + Unchecked(pot)' >= 0
    <2>1. PICK d \in Nat : Unfunded(pot) \in Int /\ Unfunded(pot)' = Unfunded(pot) + d
        OBVIOUS
    <2>2. Unfunded(pot) + Unchecked(pot) >= 0 /\ Unchecked(pot) \in Nat
        BY UncheckedNat DEF IInv, NeverOverdrawn
    <2>3. Unchecked(pot)' = Unchecked(pot)
        OBVIOUS
    <2>4. QED
        BY <2>1, <2>2, <2>3
<1>2. QED
    BY <1>1 DEF IInv, NeverOverdrawn

(***************************************************************************)
(* The share a charge passes on is a transfer of a kind there may be.      *)
(***************************************************************************)
LEMMA ShareIsKind ==
    ASSUME ConnectTypeOK, NEW c \in Charges, charge[c].status # "none",
           On(c).amount > On(c).fee
    PROVE  Share(On(c)) \in KindType
<1>1. /\ On(c).amount \in Nat \ {0} /\ On(c).fee \in Nat
      /\ On(c).account \in Pots /\ Platform \in Pots
    BY ChargeFacts
<1>2. PICK n \in Nat \ {0} : n = On(c).amount - On(c).fee
    BY <1>1
<1>3. Share(On(c)) = [amount |-> n, fee |-> 0, feeRefundable |-> TRUE, reserve |-> TRUE,
                      from |-> Platform, to |-> On(c).account, status |-> "successful"]
    BY <1>2 DEF Share
<1>4. QED
    BY <1>1, <1>2, <1>3 DEF KindType

(***************************************************************************)
(* A settlement keeps the invariant: it credits before it passes a share.  *)
(***************************************************************************)
LEMMA SettleKeeps ==
    ASSUME IInv, NEW c \in Charges, Settle(c)
    PROVE  IInv'
<1> DEFINE k == On(c)
           row == [charge[c] EXCEPT !.status = "settled"]
<1>1. RowsInv /\ ConnectTypeOK /\ TypeOK /\ charge[c].status = "open"
    BY DEF IInv, NeverOverdrawn, RowsInv, Settle
<1>2. /\ charge[c] \in ChargeRow /\ k.account \in Pots /\ k.account # Platform
      /\ Platform \in Pots /\ k.amount \in Nat \ {0} /\ k.fee \in Nat /\ k.fee <= k.amount
      /\ charge[c].refunded <= k.amount /\ charge[c].feeRefunded <= k.fee
      /\ charge[c].feeMoved <= charge[c].feeRefunded
      /\ k.mode \in {"direct", "forwarded"} /\ k.account \in Accounts
    BY <1>1, ChargeFacts
<1>3. /\ charge' = [charge EXCEPT ![c] = row]
      /\ deposited' = IF k.mode = "forwarded"
                      THEN [deposited EXCEPT ![Platform] = @ + k.amount]
                      ELSE [deposited EXCEPT ![k.account] = @ + (k.amount - k.fee),
                                             ![Platform] = @ + k.fee]
      /\ funding' = funding /\ account' = account /\ returning' = returning
    BY <1>1 DEF Settle, ConnectTypeOK
<1>4. /\ row \in ChargeRow /\ row.on = k /\ row.status = "settled"
      /\ row.refunded = charge[c].refunded /\ row.feeRefunded = charge[c].feeRefunded
      /\ row.feeMoved = charge[c].feeMoved
    BY <1>2 DEF ChargeRow, On
<1> DEFINE credit == [pot \in Pots |->
                IF k.mode = "forwarded" THEN IF pot = Platform THEN k.amount ELSE 0
                ELSE IF pot = Platform THEN k.fee
                ELSE IF pot = k.account THEN k.amount - k.fee ELSE 0]
<1>5. /\ deposited' \in [Pots -> Int] /\ credit \in [Pots -> Nat]
      /\ \A pot \in Pots : /\ deposited[pot] \in Int
                           /\ deposited'[pot] = deposited[pot] + credit[pot]
    <2>1. credit \in [Pots -> Nat]
        BY <1>2
    <2>2. deposited \in [Pots -> Int]
        BY <1>1 DEF TypeOK
    <2>3. CASE k.mode = "forwarded"
        BY <1>2, <1>3, <2>1, <2>2, <2>3
    <2>4. CASE k.mode # "forwarded"
        BY <1>2, <1>3, <2>1, <2>2, <2>4
    <2>5. QED
        BY <2>3, <2>4
<1>6. ASSUME TypeOK'
      PROVE  ConnectTypeOK' /\ \A pot \in Pots : Unchecked(pot)' = Unchecked(pot)
    <2>1. /\ ConnectTypeOK' /\ charge'[c] = row
          /\ \A d \in Charges : d # c => charge'[d] = charge[d]
        <3>1. returning' \subseteq Charges
            BY <1>1, <1>3 DEF ConnectTypeOK
        <3> HIDE DEF row
        <3>2. QED
            BY <1>1, <1>2, <1>3, <1>4, <1>6, <3>1, ChargeTyped
    <2>2. ASSUME NEW pot \in Pots
          PROVE  Unchecked(pot)' = Unchecked(pot)
        <3>1. Unchecked(pot)' = Unchecked(pot) + Taken(c, pot)' - Taken(c, pot)
            BY <1>1, <2>1, OneChargeChanges
        <3>2. Taken(c, pot)' = Taken(c, pot)
            BY <1>1, <1>4, <2>1 DEF Taken, Bearer, On
        <3>3. Taken(c, pot) \in Nat /\ Unchecked(pot) \in Nat
            BY <1>1, TakenNat, UncheckedNat
        <3>4. QED
            BY <3>1, <3>2, <3>3
    <2>3. QED
        BY <2>1, <2>2
<1>7. CASE k.mode = "forwarded" /\ k.amount > k.fee
    <2>1. PICK t \in Rows : createTransferIn(t, Share(k), c)
        BY <1>7 DEF Settle
    <2>2. Share(k) \in KindType /\ Share(k).reserve /\ Share(k).to # Bank
        BY <1>1, <1>2, <1>7, ShareIsKind, PotsAssumption DEF Share
    <2>3. c \in Nat
        BY TermsAssumption DEF Charges
    <2>4. /\ RowsInv'
          /\ \A u \in Rows : u # t => transfer'[u] = transfer[u] /\ moved'[u] = moved[u]
          /\ \A pot \in Pots :
                /\ Counted(t, pot) = 0
                /\ Counted(t, pot)' = Entries(Share(k), Share(k).amount, Share(k).fee, pot)
        BY <1>1, <1>3, <1>5, <2>1, <2>2, <2>3, CreateKeepsRows
    <2>5. TypeOK'
        BY <2>4 DEF RowsInv
    <2>6. ASSUME NEW pot \in Pots
          PROVE  \E d \in Nat :
                    Unfunded(pot) \in Int /\ Unfunded(pot)' = Unfunded(pot) + d
        <3>1. /\ Unfunded(pot) \in Int
              /\ Unfunded(pot)' = Unfunded(pot) + deposited'[pot] - deposited[pot]
                                    + Counted(t, pot)' - Counted(t, pot)
            BY <1>1, <2>4, <2>5, OneRowMoves
        <3>2. Entries(Share(k), Share(k).amount, Share(k).fee, pot)
                 = IF pot = Platform THEN -(k.amount - k.fee)
                   ELSE IF pot = k.account THEN k.amount - k.fee ELSE 0
            BY <1>2 DEF Entries, Share
        <3>3. credit[pot] = IF pot = Platform THEN k.amount ELSE 0
            BY <1>7
        <3>4. Unfunded(pot)' = Unfunded(pot)
                 + IF pot = Platform THEN k.fee
                   ELSE IF pot = k.account THEN k.amount - k.fee ELSE 0
            BY <1>2, <1>5, <2>4, <3>1, <3>2, <3>3
        <3>5. k.amount - k.fee \in Nat
            BY <1>2
        <3>6. QED
            BY <1>2, <3>1, <3>4, <3>5
    <2>7. QED
        BY <1>6, <2>4, <2>5, <2>6, PotsGrow
<1>8. CASE ~ (k.mode = "forwarded" /\ k.amount > k.fee)
    <2>1. transfer' = transfer /\ moved' = moved
        BY <1>8 DEF Settle
    <2>2. /\ RowsInv'
          /\ \A pot \in Pots :
                /\ Unfunded(pot) \in Int
                /\ Unfunded(pot)' = Unfunded(pot) + deposited'[pot] - deposited[pot]
        BY <1>1, <1>3, <1>5, <2>1, RowsStay
    <2>3. TypeOK'
        BY <2>2 DEF RowsInv
    <2>4. ASSUME NEW pot \in Pots
          PROVE  \E d \in Nat :
                    Unfunded(pot) \in Int /\ Unfunded(pot)' = Unfunded(pot) + d
        <3>1. credit[pot] \in Nat
            BY <1>5
        <3> HIDE DEF credit
        <3>2. Unfunded(pot)' = Unfunded(pot) + credit[pot]
            BY <1>5, <2>2, <3>1
        <3>3. QED
            BY <2>2, <3>1, <3>2
    <2>5. QED
        BY <1>6, <2>2, <2>3, <2>4, PotsGrow
<1>9. QED
    BY <1>7, <1>8

(***************************************************************************)
(* A refund takes from the pot that bears it, and is counted there.        *)
(***************************************************************************)
LEMMA RefundKeeps ==
    ASSUME IInv, NEW c \in Charges, NEW n \in Nat, RefundCharge(c, n)
    PROVE  IInv'
<1> DEFINE k == On(c)
           back == charge[c].refunded + n
           row == [charge[c] EXCEPT !.refunded = back]
<1>1. RowsInv /\ ConnectTypeOK /\ TypeOK /\ charge[c].status = "settled"
    BY DEF IInv, NeverOverdrawn, RowsInv, RefundCharge
<1>2. /\ charge[c] \in ChargeRow /\ k.account \in Pots /\ Platform \in Pots
      /\ charge[c].refunded \in Nat /\ charge[c].feeRefunded <= k.fee
      /\ charge[c].feeMoved \in Nat /\ charge[c].feeMoved <= charge[c].feeRefunded
    BY <1>1, ChargeFacts
<1>3. /\ back <= k.amount /\ back \in Nat
      /\ charge' = [charge EXCEPT ![c] = row]
      /\ deposited' = [deposited EXCEPT ![Bearer(c)] = @ + (-n)]
      /\ transfer' = transfer /\ moved' = moved /\ funding' = funding
      /\ account' = account /\ returning' = returning
    BY <1>1, <1>2 DEF RefundCharge, Credit, ConnectTypeOK
<1> HIDE DEF back
<1>4. /\ row \in ChargeRow /\ row.on = k /\ row.status = "settled" /\ row.refunded = back
      /\ row.feeRefunded = charge[c].feeRefunded /\ row.feeMoved = charge[c].feeMoved
    BY <1>1, <1>2, <1>3 DEF ChargeRow, On
<1> HIDE DEF row
<1>5. Bearer(c) \in Pots
    BY <1>2 DEF Bearer
<1>6. deposited' \in [Pots -> Int]
    BY <1>1, <1>3, <1>5 DEF TypeOK
<1>7. /\ RowsInv'
      /\ \A pot \in Pots :
            /\ Unfunded(pot) \in Int
            /\ Unfunded(pot)' = Unfunded(pot) + deposited'[pot] - deposited[pot]
    BY <1>1, <1>3, <1>6, RowsStay
<1>8. /\ ConnectTypeOK' /\ charge'[c] = row
      /\ \A d \in Charges : d # c => charge'[d] = charge[d]
    <2>1. TypeOK' /\ returning' \subseteq Charges
        BY <1>1, <1>3, <1>7 DEF RowsInv, ConnectTypeOK
    <2>2. QED
        BY <1>1, <1>2, <1>3, <1>4, <2>1, ChargeTyped
<1>9. ASSUME NEW pot \in Pots
      PROVE  Unfunded(pot)' + Unchecked(pot)' >= 0
    <2>1. Unchecked(pot)' = Unchecked(pot) + Taken(c, pot)' - Taken(c, pot)
        BY <1>1, <1>8, OneChargeChanges
    <2>2. Taken(c, pot)' = Taken(c, pot) + IF pot = Bearer(c) THEN n ELSE 0
        <3>1. Bearer(c)' = Bearer(c)
            BY <1>4, <1>8 DEF Bearer, On
        <3>2. back = charge[c].refunded + n
            BY DEF back
        <3>3. QED
            BY <1>1, <1>2, <1>4, <1>8, <3>1, <3>2 DEF Taken
    <2>3. /\ Unfunded(pot) \in Int /\ Unchecked(pot) \in Nat /\ Taken(c, pot) \in Nat
          /\ Unfunded(pot) + Unchecked(pot) >= 0
        BY <1>1, <1>7, UncheckedNat, TakenNat DEF IInv, NeverOverdrawn
    <2>4. /\ deposited[pot] \in Int
          /\ deposited'[pot] = deposited[pot] - IF pot = Bearer(c) THEN n ELSE 0
        BY <1>1, <1>3, <1>5 DEF TypeOK
    <2>5. Unfunded(pot)' = Unfunded(pot) + deposited'[pot] - deposited[pot]
        BY <1>7
    <2>6. CASE pot = Bearer(c)
        BY <2>1, <2>2, <2>3, <2>4, <2>5, <2>6
    <2>7. CASE pot # Bearer(c)
        BY <2>1, <2>2, <2>3, <2>4, <2>5, <2>7
    <2>8. QED
        BY <2>6, <2>7
<1>10. QED
    BY <1>7, <1>8, <1>9 DEF IInv, NeverOverdrawn

(***************************************************************************)
(* A new charge takes nothing.                                             *)
(***************************************************************************)
LEMMA ChargeKeeps ==
    ASSUME IInv, NEW c \in Charges, NEW k \in Terms, CreateCharge(c, k)
    PROVE  IInv'
<1> DEFINE row == [NoCharge EXCEPT !.status = "open", !.on = k]
<1>1. RowsInv /\ ConnectTypeOK /\ TypeOK /\ charge[c].status = "none"
    BY DEF IInv, NeverOverdrawn, RowsInv, CreateCharge
<1>2. k.amount \in Nat /\ k.fee \in Nat
    BY TermsAssumption
<1>3. /\ row \in ChargeRow /\ row.on = k /\ row.status = "open" /\ row.refunded = 0
      /\ row.feeRefunded = 0 /\ row.feeMoved = 0
    BY DEF NoCharge, ChargeRow
<1>4. /\ charge' = [charge EXCEPT ![c] = row] /\ deposited' = deposited
      /\ transfer' = transfer /\ moved' = moved /\ funding' = funding
      /\ account' = account /\ returning' = returning
    BY DEF CreateCharge
<1> HIDE DEF row
<1>5. /\ RowsInv'
      /\ \A pot \in Pots :
            /\ Unfunded(pot) \in Int
            /\ Unfunded(pot)' = Unfunded(pot) + deposited'[pot] - deposited[pot]
    <2>1. deposited' \in [Pots -> Int]
        BY <1>1, <1>4 DEF TypeOK
    <2>2. QED
        BY <1>1, <1>4, <2>1, RowsStay
<1>6. /\ ConnectTypeOK' /\ charge'[c] = row
      /\ \A d \in Charges : d # c => charge'[d] = charge[d]
    <2>1. TypeOK' /\ returning' \subseteq Charges
        BY <1>1, <1>4, <1>5 DEF RowsInv, ConnectTypeOK
    <2>2. row.refunded <= row.on.amount /\ row.feeRefunded <= row.on.fee
          /\ row.feeMoved <= row.feeRefunded
        BY <1>2, <1>3
    <2>3. QED
        BY <1>1, <1>3, <1>4, <2>1, <2>2, ChargeTyped
<1>7. ASSUME NEW pot \in Pots
      PROVE  Unchecked(pot)' = Unchecked(pot)
    <2>1. Unchecked(pot)' = Unchecked(pot) + Taken(c, pot)' - Taken(c, pot)
        BY <1>1, <1>6, OneChargeChanges
    <2>2. Taken(c, pot)' = 0 /\ Taken(c, pot) = 0
        BY <1>1, <1>3, <1>6 DEF Taken
    <2>3. QED
        BY <1>1, <2>1, <2>2, UncheckedNat
<1>8. ASSUME NEW pot \in Pots
      PROVE  \E d \in Nat : Unfunded(pot) \in Int /\ Unfunded(pot)' = Unfunded(pot) + d
    <2>1. deposited[pot] \in Int
        BY <1>1 DEF TypeOK
    <2>2. Unfunded(pot)' = Unfunded(pot) + 0
        BY <1>4, <1>5, <2>1
    <2>3. QED
        BY <1>5, <2>2
<1>9. QED
    BY <1>5, <1>6, <1>7, <1>8, PotsGrow

(***************************************************************************)
(* A transfer that passes the check of funds leaves its source enough.     *)
(***************************************************************************)
LEMMA TransferKeeps ==
    ASSUME IInv, NEW t \in Rows, NEW k \in Kinds, NEW source \in Charges \cup {0},
           CreateTransfer(t, k, source)
    PROVE  IInv'
<1>1. RowsInv /\ ConnectTypeOK /\ TypeOK
    BY DEF IInv, NeverOverdrawn, RowsInv
<1>2. /\ k \in KindType /\ k.amount \in Nat /\ k.fee \in Nat /\ k.from \in Pots
      /\ k.reserve \in BOOLEAN /\ (k.reserve \/ FundedLater(k))
    BY KindsAssumption DEF KindType, FundedLater
<1>3. /\ createTransferIn(t, k, source) /\ Covered(k)
      /\ deposited' = deposited /\ funding' = funding
      /\ charge' = charge /\ account' = account /\ returning' = returning
    BY DEF CreateTransfer, createTransfer
<1>4. source \in Nat /\ (source # 0 => k.to # Bank)
    BY TermsAssumption, PotsAssumption DEF CreateTransfer, Charges, Pots
<1>5. deposited' \in [Pots -> Int]
    BY <1>1, <1>3 DEF TypeOK
<1>6. /\ RowsInv'
      /\ \A u \in Rows : u # t => transfer'[u] = transfer[u] /\ moved'[u] = moved[u]
      /\ \A pot \in Pots :
            /\ Counted(t, pot) = 0
            /\ Counted(t, pot)' = IF k.reserve THEN Entries(k, k.amount, k.fee, pot) ELSE 0
    BY <1>1, <1>2, <1>3, <1>4, <1>5, CreateKeepsRows
<1>7. TypeOK'
    BY <1>6 DEF RowsInv
<1>8. ConnectTypeOK' /\ \A pot \in Pots : Unchecked(pot)' = Unchecked(pot)
    BY <1>1, <1>3, <1>7, ChargesStay DEF ConnectTypeOK
<1>9. ASSUME NEW pot \in Pots
      PROVE  Unfunded(pot)' + Unchecked(pot)' >= 0
    <2>1. /\ Unfunded(pot) \in Int
          /\ Unfunded(pot)' = Unfunded(pot) + deposited'[pot] - deposited[pot]
                                + Counted(t, pot)' - Counted(t, pot)
        BY <1>1, <1>6, <1>7, OneRowMoves
    <2>2. deposited[pot] \in Int
        BY <1>1 DEF TypeOK
    <2>3. /\ Unfunded(pot) + Unchecked(pot) >= 0 /\ Unchecked(pot) \in Nat
          /\ Available(pot) \in Int /\ Available(pot) <= Unfunded(pot)
        BY <1>1, UncheckedNat, FundingOnlyTakes DEF IInv, NeverOverdrawn
    <2>4. CASE ~ k.reserve
        <3>1. Unfunded(pot)' = Unfunded(pot)
            BY <1>3, <1>6, <2>1, <2>2, <2>4
        <3>2. QED
            BY <1>8, <2>3, <3>1
    <2>5. CASE k.reserve
        <3>1. Unfunded(pot)' = Unfunded(pot) + Entries(k, k.amount, k.fee, pot)
            <4>1. Entries(k, k.amount, k.fee, pot) \in Int
                BY <1>2, EntriesInt
            <4>2. QED
                BY <1>3, <1>6, <2>1, <2>2, <2>5, <4>1
        <3>2. CASE pot = k.from
            <4>1. k.amount + k.fee <= Available(pot)
                BY <1>3, <2>5, <3>2 DEF Covered
            <4>2. Entries(k, k.amount, k.fee, pot) >= -(k.amount + k.fee)
                BY <1>2, <3>2 DEF Entries
            <4>3. Entries(k, k.amount, k.fee, pot) \in Int
                BY <1>2, EntriesInt
            <4>4. QED
                BY <1>2, <1>8, <2>1, <2>3, <3>1, <4>1, <4>2, <4>3
        <3>3. CASE pot # k.from
            <4>1. Entries(k, k.amount, k.fee, pot) \in Nat
                BY <1>2, <3>3 DEF Entries
            <4>2. QED
                BY <1>8, <2>1, <2>3, <3>1, <4>1
        <3>4. QED
            BY <3>2, <3>3
    <2>6. QED
        BY <1>2, <2>4, <2>5
<1>10. QED
    BY <1>6, <1>8, <1>9 DEF IInv, NeverOverdrawn

(***************************************************************************)
(* A reversal takes only what the destination still has.                   *)
(***************************************************************************)
LEMMA ReverseKeeps ==
    ASSUME IInv, NEW t \in Rows, NEW n \in Nat, Reverse(t, n)
    PROVE  IInv'
<1>1. RowsInv /\ ConnectTypeOK /\ TypeOK
    BY DEF IInv, NeverOverdrawn, RowsInv
<1>2. /\ ReverseTransfer(t, n) /\ deposited' = deposited
      /\ charge' = charge /\ account' = account /\ returning' \subseteq Charges
    BY <1>1 DEF Reverse, ReverseTransfer, ConnectTypeOK
<1>3. /\ RowsInv'
      /\ \A u \in Rows : u # t => transfer'[u] = transfer[u] /\ moved'[u] = moved[u]
      /\ Kind(t).to \in Accounts /\ n <= Available(Kind(t).to)
      /\ \A pot \in Pots :
            Counted(t, pot)' = Counted(t, pot) + Entries(Kind(t), -n, 0, pot)
    BY <1>1, <1>2, ReverseKeepsRows
<1>4. TypeOK'
    BY <1>3 DEF RowsInv
<1>5. ConnectTypeOK' /\ \A pot \in Pots : Unchecked(pot)' = Unchecked(pot)
    BY <1>1, <1>2, <1>4, ChargesStay DEF ConnectTypeOK
<1>6. ASSUME NEW pot \in Pots
      PROVE  Unfunded(pot)' + Unchecked(pot)' >= 0
    <2>1. /\ Unfunded(pot) \in Int
          /\ Unfunded(pot)' = Unfunded(pot) + deposited'[pot] - deposited[pot]
                                + Counted(t, pot)' - Counted(t, pot)
        BY <1>1, <1>3, <1>4, OneRowMoves
    <2>2. deposited[pot] \in Int /\ Counted(t, pot) \in Int
        BY <1>1, CountedInt DEF TypeOK
    <2>3. /\ Unfunded(pot) + Unchecked(pot) >= 0 /\ Unchecked(pot) \in Nat
          /\ Available(pot) \in Int /\ Available(pot) <= Unfunded(pot)
        BY <1>1, UncheckedNat, FundingOnlyTakes DEF IInv, NeverOverdrawn
    <2>4. Entries(Kind(t), -n, 0, pot) \in Int
        <3>1. -n \in Int /\ 0 \in Int
            OBVIOUS
        <3>2. QED
            BY <3>1, EntriesInt
    <2>5. Unfunded(pot)' = Unfunded(pot) + Entries(Kind(t), -n, 0, pot)
        BY <1>2, <1>3, <2>1, <2>2, <2>4
    <2>6. CASE pot = Kind(t).to
        <3>1. Entries(Kind(t), -n, 0, pot) >= -n /\ n <= Available(pot)
            BY <1>3, <2>6 DEF Entries
        <3>2. QED
            BY <1>5, <2>1, <2>3, <2>4, <2>5, <3>1
    <2>7. CASE pot # Kind(t).to
        <3>1. Entries(Kind(t), -n, 0, pot) \in Nat
            BY <2>7 DEF Entries
        <3>2. QED
            BY <1>5, <2>1, <2>3, <2>5, <3>1
    <2>8. QED
        BY <2>6, <2>7
<1>7. QED
    BY <1>3, <1>5, <1>6 DEF IInv, NeverOverdrawn

(***************************************************************************)
(* Steps of transfers that only give back, and steps that leave the        *)
(* ledger alone.                                                           *)
(***************************************************************************)
LEMMA GivingKeeps ==
    ASSUME IInv, RowsInv', NEW t \in Rows,
           \A u \in Rows : u # t => transfer'[u] = transfer[u] /\ moved'[u] = moved[u],
           \A pot \in Pots : Counted(t, pot) <= Counted(t, pot)',
           deposited' = deposited, charge' = charge,
           account' = account, returning' = returning
    PROVE  IInv'
<1>1. RowsInv /\ ConnectTypeOK /\ TypeOK /\ TypeOK'
    BY DEF IInv, NeverOverdrawn, RowsInv
<1>2. ConnectTypeOK' /\ \A pot \in Pots : Unchecked(pot)' = Unchecked(pot)
    BY <1>1, ChargesStay DEF ConnectTypeOK
<1>3. ASSUME NEW pot \in Pots
      PROVE  \E d \in Nat : Unfunded(pot) \in Int /\ Unfunded(pot)' = Unfunded(pot) + d
    <2>1. /\ Unfunded(pot) \in Int
          /\ Unfunded(pot)' = Unfunded(pot) + deposited'[pot] - deposited[pot]
                                + Counted(t, pot)' - Counted(t, pot)
        BY <1>1, OneRowMoves
    <2>2. deposited[pot] \in Int /\ Counted(t, pot) \in Int /\ Counted(t, pot)' \in Int
        <3>1. Counted(t, pot)' \in Int
            BY <1>1 DEF TypeOK, Counted
        <3>2. QED
            BY <1>1, <3>1, CountedInt DEF TypeOK
    <2>3. Counted(t, pot)' - Counted(t, pot) \in Nat
        BY <2>2
    <2>4. Unfunded(pot)' = Unfunded(pot) + (Counted(t, pot)' - Counted(t, pot))
        BY <2>1, <2>2
    <2>5. QED
        BY <2>1, <2>3, <2>4
<1>4. QED
    BY <1>2, <1>3, PotsGrow

(***************************************************************************)
(* A step that leaves the ledger and the charges alone keeps the invariant. *)
(***************************************************************************)
LEMMA LedgerStays ==
    ASSUME IInv, RowsInv', transfer' = transfer, moved' = moved,
           \A pot \in Pots : deposited'[pot] >= deposited[pot],
           charge' = charge,
           account' \in [Accounts -> [active : BOOLEAN, charges : BOOLEAN,
                                      payouts : BOOLEAN, submitted : BOOLEAN]],
           returning' \subseteq Charges
    PROVE  IInv'
<1>1. RowsInv /\ ConnectTypeOK /\ TypeOK /\ TypeOK'
    BY DEF IInv, NeverOverdrawn, RowsInv
<1>2. ConnectTypeOK' /\ \A pot \in Pots : Unchecked(pot)' = Unchecked(pot)
    BY <1>1, ChargesStay
<1>3. PICK t \in Rows : TRUE
    BY MaxTransfersAssumption DEF Rows
<1>4. ASSUME NEW pot \in Pots
      PROVE  \E d \in Nat : Unfunded(pot) \in Int /\ Unfunded(pot)' = Unfunded(pot) + d
    <2>1. /\ Unfunded(pot) \in Int
          /\ Unfunded(pot)' = Unfunded(pot) + deposited'[pot] - deposited[pot]
                                + Counted(t, pot)' - Counted(t, pot)
        BY <1>1, OneRowMoves
    <2>2. Counted(t, pot)' = Counted(t, pot) /\ Counted(t, pot) \in Int
        BY <1>1, CountedInt DEF Counted, Kind
    <2>3. deposited[pot] \in Int /\ deposited'[pot] \in Int
        BY <1>1 DEF TypeOK
    <2>4. deposited'[pot] - deposited[pot] \in Nat
        BY <2>3
    <2>5. Unfunded(pot)' = Unfunded(pot) + (deposited'[pot] - deposited[pot])
        BY <2>1, <2>2, <2>3
    <2>6. QED
        BY <2>1, <2>4, <2>5
<1>5. QED
    BY <1>2, <1>4, PotsGrow

-----------------------------------------------------------------------------
(***************************************************************************)
(* Empty tables satisfy the invariant.                                     *)
(***************************************************************************)
LEMMA InitIInv == Init => IInv
<1> SUFFICES ASSUME Init
             PROVE  IInv
    OBVIOUS
<1>1. 1 \in Rows
    BY MaxTransfersAssumption DEF Rows
<1>2. /\ transfer = [t \in Rows |-> NoTransfer]
      /\ moved = [t \in Rows |-> [pot \in Pots |-> 0]]
      /\ deposited = [pot \in Pots |-> 0]
      /\ funding = [r \in Requests |-> NotFunding]
      /\ charge = [c \in Charges |-> NoCharge]
      /\ account = [s \in Accounts |-> createSubaccount] /\ returning = {}
    BY DEF Init, TransfersInit
<1>3. TypeOK
    BY <1>1, <1>2 DEF TypeOK, NotFunding
<1>4. \A t \in Rows : RowSound(t)
    BY <1>2 DEF RowSound, EmptySound, NoTransfer
<1>5. \A r \in Requests : RequestSound(r)
    BY <1>2 DEF RequestSound, NotFunding
<1>6. RowsInv
    BY <1>3, <1>4, <1>5 DEF RowsInv
<1>7. ConnectTypeOK
    BY <1>2, <1>3 DEF ConnectTypeOK, NoCharge, createSubaccount
<1>8. ASSUME NEW pot \in Pots
      PROVE  Unfunded(pot) + Unchecked(pot) >= 0
    <2> DEFINE z == [t \in 1..MaxTransfers |-> 0]
    <2>1. [t \in Rows |-> Counted(t, pot)] = z
        BY <1>2 DEF Rows, Counted, Kind, NoTransfer
    <2>2. SumTo(z, MaxTransfers) = 0
        BY SumToZero, MaxTransfersAssumption
    <2>3. Brought(pot) \in Nat
        BY <1>2, MoneyAssumption DEF Brought
    <2>4. Unfunded(pot) = Brought(pot) + 0
        BY <2>1, <2>2 DEF Unfunded
    <2>5. Unchecked(pot) \in Nat
        BY <1>7, UncheckedNat
    <2>6. QED
        BY <2>3, <2>4, <2>5
<1>9. QED
    BY <1>6, <1>7, <1>8 DEF IInv, NeverOverdrawn

(***************************************************************************)
(* Every step keeps the invariant.                                         *)
(***************************************************************************)
LEMMA StepIInv == IInv /\ SourcesExist /\ [Next]_vars => IInv'
<1> SUFFICES ASSUME IInv, SourcesExist, [Next]_vars
             PROVE  IInv'
    OBVIOUS
<1>1. RowsInv /\ ConnectTypeOK /\ TypeOK
    BY DEF IInv, NeverOverdrawn, RowsInv
<1>2. /\ account \in [Accounts -> [active : BOOLEAN, charges : BOOLEAN,
                                   payouts : BOOLEAN, submitted : BOOLEAN]]
      /\ returning \subseteq Charges
      /\ \A pot \in Pots : deposited[pot] \in Int /\ deposited[pot] >= deposited[pot]
    BY <1>1 DEF ConnectTypeOK, TypeOK
<1>3. CASE UNCHANGED vars
    <2>1. RowsInv'
        <3>1. deposited' \in [Pots -> Int]
            BY <1>1, <1>3 DEF vars, TypeOK
        <3>2. QED
            BY <1>1, <1>3, <3>1, RowsStay DEF vars
    <2>2. QED
        BY <1>2, <1>3, <2>1, LedgerStays DEF vars
<1>4. ASSUME NEW t \in Rows, NEW to \in TransferStatus, Transition(t, to),
             UNCHANGED <<charge, account, returning>>
      PROVE  IInv'
    <2>1. /\ transfer[t].status # "none" /\ ~ Internal(t)
          /\ transitionTransfer(t, to, transfer[t].reserved)
          /\ deposited' = deposited /\ funding' = funding
        BY <1>4 DEF Transition
    <2>2. transfer[t].reserved \in BOOLEAN
        BY <1>1, <2>1, RowFacts DEF TransferRow
    <2>3. /\ funding' \in [Requests -> [pc : {"idle", "debit", "move"}, row : Rows]]
          /\ deposited' \in [Pots -> Int]
        BY <1>1, <2>1 DEF TypeOK
    <2>4. /\ RowsInv'
          /\ \A u \in Rows : u # t => transfer'[u] = transfer[u] /\ moved'[u] = moved[u]
          /\ \A pot \in Pots : Counted(t, pot) <= Counted(t, pot)'
        BY <1>1, <2>1, <2>2, <2>3, TransitionKeepsRows
    <2>5. QED
        BY <1>4, <2>1, <2>4, GivingKeeps
<1>5. ASSUME NEW r \in Requests, NEW t \in Rows, FundCheck(r, t),
             UNCHANGED <<charge, account, returning>>
      PROVE  IInv'
    <2>1. RowsInv'
        BY <1>1, <1>5, CheckKeepsRows
    <2>2. transfer' = transfer /\ moved' = moved /\ deposited' = deposited
        BY <1>5 DEF FundCheck
    <2>3. QED
        BY <1>2, <1>5, <2>1, <2>2, LedgerStays
<1>6. ASSUME NEW r \in Requests, FundDebit(r), UNCHANGED <<charge, account, returning>>
      PROVE  IInv'
    <2>1. /\ RowsInv'
          /\ \A pot \in Pots : \A u \in Rows : Counted(u, pot)' = Counted(u, pot)
        BY <1>1, <1>6, DebitKeepsRows
    <2>2. PICK t \in Rows : t = funding[r].row
        BY <1>1 DEF TypeOK
    <2>3. /\ \A u \in Rows : u # t => transfer'[u] = transfer[u] /\ moved'[u] = moved[u]
          /\ deposited' = deposited
        BY <1>1, <1>6, <2>2 DEF FundDebit, TypeOK
    <2>4. \A pot \in Pots : Counted(t, pot) <= Counted(t, pot)'
        BY <1>1, <2>1, CountedInt
    <2>5. QED
        BY <1>6, <2>1, <2>3, <2>4, GivingKeeps
<1>7. ASSUME NEW r \in Requests, FundMove(r), UNCHANGED <<charge, account, returning>>
      PROVE  IInv'
    <2>1. PICK t \in Rows :
             /\ RowsInv'
             /\ \A u \in Rows : u # t => transfer'[u] = transfer[u] /\ moved'[u] = moved[u]
             /\ \A pot \in Pots : Counted(t, pot) <= Counted(t, pot)'
        BY <1>1, <1>7, MoveKeepsRows
    <2>2. deposited' = deposited
        BY <1>7 DEF FundMove
    <2>3. QED
        BY <1>7, <2>1, <2>2, GivingKeeps
<1>8. ASSUME NEW n \in Deposits, Deposit(n)
      PROVE  IInv'
    <2>1. /\ deposited' = [deposited EXCEPT ![Platform] = @ + n] /\ n \in Nat
          /\ transfer' = transfer /\ moved' = moved /\ funding' = funding
          /\ charge' = charge /\ account' = account /\ returning' = returning
        BY <1>8, MoneyAssumption DEF Deposit, Credit
    <2>2. /\ deposited' \in [Pots -> Int]
          /\ \A pot \in Pots : deposited'[pot] >= deposited[pot]
        <3>1. deposited \in [Pots -> Int]
            BY <1>1 DEF TypeOK
        <3>2. \A pot \in Pots :
                 deposited'[pot] = deposited[pot] + IF pot = Platform THEN n ELSE 0
            BY <2>1, <3>1
        <3>3. Platform \in Pots /\ n \in Int
            BY <2>1 DEF Pots
        <3>4. deposited[Platform] + n \in Int
            BY <3>1, <3>3
        <3>5. deposited' \in [Pots -> Int]
            BY <2>1, <3>1, <3>4
        <3>6. QED
            BY <2>1, <3>1, <3>2, <3>5
    <2>3. RowsInv'
        BY <1>1, <2>1, <2>2, RowsStay
    <2>4. QED
        BY <1>2, <2>1, <2>2, <2>3, LedgerStays
<1>9. ASSUME NEW s \in Accounts, completeOnboarding(s) \/ rejectSubaccount(s)
      PROVE  IInv'
    <2>1. /\ transfer' = transfer /\ moved' = moved /\ funding' = funding
          /\ deposited' = deposited /\ charge' = charge /\ returning' = returning
        BY <1>9 DEF completeOnboarding, rejectSubaccount
    <2>2. account' \in [Accounts -> [active : BOOLEAN, charges : BOOLEAN,
                                     payouts : BOOLEAN, submitted : BOOLEAN]]
        <3>1. CASE completeOnboarding(s)
            BY <1>2, <3>1 DEF completeOnboarding
        <3>2. CASE rejectSubaccount(s)
            BY ZenonT(60), <1>2, <3>2 DEF rejectSubaccount
        <3>3. QED
            BY <1>9, <3>1, <3>2
    <2>3. RowsInv'
        BY <1>1, <2>1, RowsStay DEF TypeOK
    <2>4. QED
        BY <1>2, <2>1, <2>2, <2>3, LedgerStays
<1>10. ASSUME NEW c \in Charges, NEW n \in Nat, RefundFee(c, n)
       PROVE  IInv'
    <2>1. /\ charge[c].status # "none" /\ n \in 1..FeeLeft(c) /\ refundPlatformFee(c, n)
          /\ transfer' = transfer /\ moved' = moved /\ funding' = funding
          /\ account' = account /\ returning' \subseteq Charges
        BY <1>2, <1>10 DEF RefundFee
    <2>2. FeeLeft(c) \in Int
        BY <1>1, <2>1, ChargeFacts DEF FeeLeft
    <2>3. n <= FeeLeft(c)
        BY <2>1, <2>2
    <2>4. QED
        BY <2>1, <2>3, FeeKeeps
<1>11. ASSUME NEW c \in Charges, ReturnFee(c)
       PROVE  IInv'
    <2>1. /\ transfer' = transfer /\ moved' = moved /\ funding' = funding
          /\ account' = account /\ returning' \subseteq Charges
        BY <1>2, <1>11 DEF ReturnFee
    <2>2. CASE FeeLeft(c) > 0
        <3>1. charge[c].status # "none"
            BY <1>11 DEF ReturnFee, SourcesExist
        <3>2. FeeLeft(c) \in Nat
            BY <1>1, <2>2, <3>1, ChargeFacts DEF FeeLeft
        <3>3. refundPlatformFee(c, FeeLeft(c))
            BY <1>11, <2>2 DEF ReturnFee
        <3>4. FeeLeft(c) <= FeeLeft(c)
            BY <3>2
        <3>5. QED
            BY <2>1, <3>1, <3>2, <3>3, <3>4, FeeKeeps
    <2>3. CASE ~ (FeeLeft(c) > 0)
        <3>1. charge' = charge /\ deposited' = deposited
            BY <1>11, <2>3 DEF ReturnFee
        <3>2. RowsInv'
            BY <1>1, <2>1, <3>1, RowsStay DEF TypeOK
        <3>3. QED
            BY <1>2, <2>1, <3>1, <3>2, LedgerStays
    <2>4. QED
        BY <2>2, <2>3
<1>12. CASE Next
    <2>1. CASE TransfersNext /\ UNCHANGED <<charge, account, returning>>
        BY <1>4, <1>5, <1>6, <1>7, <2>1 DEF TransfersNext
    <2>2. CASE \E n \in Deposits : Deposit(n)
        BY <1>8, <2>2
    <2>3. CASE \E t \in Rows, k \in Kinds, c \in Charges \cup {0} : CreateTransfer(t, k, c)
        BY <2>3, TransferKeeps
    <2>4. CASE \E t \in {u \in Rows : transfer[u].status # "none"} :
                  \E n \in 1..Kind(t).amount : Reverse(t, n)
        <3>1. PICK t \in Rows : /\ transfer[t].status # "none"
                                /\ \E n \in 1..Kind(t).amount : Reverse(t, n)
            BY <2>4
        <3>2. PICK n \in 1..Kind(t).amount : Reverse(t, n)
            BY <3>1
        <3>3. n \in Nat
            BY <1>1, <3>1, RowFacts
        <3>4. QED
            BY <3>2, <3>3, ReverseKeeps
    <2>5. CASE \E s \in Accounts : completeOnboarding(s) \/ rejectSubaccount(s)
        BY <1>9, <2>5
    <2>6. CASE \E c \in Charges :
                  \/ \E k \in Terms : CreateCharge(c, k)
                  \/ Settle(c) \/ ReturnFee(c)
                  \/ \E n \in Refunds : RefundCharge(c, n) \/ RefundFee(c, n)
        <3>1. Refunds \subseteq Nat
            BY TermsAssumption
        <3>2. QED
            BY <1>10, <1>11, <2>6, <3>1, ChargeKeeps, SettleKeeps, RefundKeeps
    <2>7. QED
        BY <1>12, <2>1, <2>2, <2>3, <2>4, <2>5, <2>6 DEF Next
<1>13. QED
    BY <1>3, <1>12

(***************************************************************************)
(* Every step keeps the charges that transfers and returns speak of.       *)
(***************************************************************************)
LEMMA StepSources == IInv /\ SourcesExist /\ [Next]_vars => SourcesExist'
<1> SUFFICES ASSUME IInv, SourcesExist, [Next]_vars
             PROVE  SourcesExist'
    OBVIOUS
<1>1. RowsInv /\ ConnectTypeOK /\ TypeOK
    BY DEF IInv, NeverOverdrawn, RowsInv
<1>2. /\ transfer \in [Rows -> TransferRow \cup {NoTransfer}]
      /\ charge \in [Charges -> ChargeRow \cup {NoCharge}]
      /\ returning \subseteq Charges
    BY <1>1 DEF ConnectTypeOK, TypeOK
<1> DEFINE Stay == \A c \in Charges : charge[c].status # "none"
                                        => charge'[c].status # "none"
           Same == \A t \in Rows : transfer'[t].source = transfer[t].source
<1>3. ASSUME Stay, returning' \subseteq returning,
             \A t \in Rows : \/ transfer'[t].source = transfer[t].source
                             \/ transfer'[t].source \in Charges
                                  => charge'[transfer'[t].source].status # "none"
      PROVE  SourcesExist'
    BY <1>2, <1>3 DEF SourcesExist
<1>4. ASSUME NEW t \in Rows, NEW to, NEW flag, transitionTransfer(t, to, flag)
      PROVE  Same
    <2>1. transfer' = [transfer EXCEPT ![t].status = to, ![t].reserved = flag]
        BY <1>4 DEF transitionTransfer
    <2>2. QED
        BY <1>2, <2>1 DEF TransferRow, NoTransfer
<1>5. CASE UNCHANGED vars
    BY <1>3, <1>5 DEF vars
<1>6. CASE TransfersNext /\ UNCHANGED <<charge, account, returning>>
    <2>1. Same
        <3>1. ASSUME NEW t \in Rows, NEW to \in TransferStatus, Transition(t, to)
              PROVE  Same
            BY <1>4, <3>1 DEF Transition
        <3>2. ASSUME NEW r \in Requests, NEW t \in Rows, FundCheck(r, t)
              PROVE  Same
            BY <3>2 DEF FundCheck
        <3>3. ASSUME NEW r \in Requests, FundDebit(r)
              PROVE  Same
            BY <3>3 DEF FundDebit
        <3>4. ASSUME NEW r \in Requests, FundMove(r)
              PROVE  Same
            <4> PICK t \in Rows : t = funding[r].row
                BY <1>1 DEF TypeOK
            <4>1. transitionTransfer(t, "processing", TRUE) \/ transfer' = transfer
                BY <3>4 DEF FundMove
            <4>2. QED
                BY <1>4, <4>1
        <3>5. QED
            BY <1>6, <3>1, <3>2, <3>3, <3>4 DEF TransfersNext
    <2>2. QED
        BY <1>3, <1>6, <2>1
<1>7. ASSUME NEW n, Deposit(n)
      PROVE  SourcesExist'
    BY <1>3, <1>7 DEF Deposit
<1>8. ASSUME NEW t \in Rows, NEW k, NEW source \in Charges \cup {0},
             CreateTransfer(t, k, source)
      PROVE  SourcesExist'
    <2>1. /\ charge' = charge /\ returning' = returning
          /\ source \in Charges => charge[source].status # "none"
        BY <1>8, TermsAssumption DEF CreateTransfer, Charges
    <2>2. /\ transfer'[t].source = source
          /\ \A u \in Rows : u # t => transfer'[u] = transfer[u]
        BY <1>2, <1>8 DEF CreateTransfer, createTransfer, createTransferIn
    <2>3. QED
        BY <1>3, <2>1, <2>2
<1>9. ASSUME NEW t \in Rows, NEW n, Reverse(t, n)
      PROVE  SourcesExist'
    <2>1. transfer' = [transfer EXCEPT
                         ![t].amountReversed = transfer[t].amountReversed + n,
                         ![t].status = ReversedStatus(t, transfer[t].amountReversed + n)]
        BY <1>9 DEF Reverse, ReverseTransfer
    <2>2. Same
        <3> DEFINE x == transfer[t].amountReversed + n
                   y == ReversedStatus(t, transfer[t].amountReversed + n)
        <3>1. transfer' = [transfer EXCEPT ![t].amountReversed = x, ![t].status = y]
            BY <2>1
        <3> HIDE DEF x, y
        <3>2. QED
            BY <1>2, <3>1 DEF TransferRow, NoTransfer
    <2>3. /\ charge' = charge
          /\ returning' = returning
             \/ (/\ transfer[t].source \in Charges
                 /\ returning' = returning \cup {transfer[t].source})
        BY <1>9 DEF Reverse
    <2>4. QED
        BY <2>2, <2>3 DEF SourcesExist
<1>10. ASSUME NEW s, completeOnboarding(s) \/ rejectSubaccount(s)
       PROVE  SourcesExist'
    BY <1>3, <1>10 DEF completeOnboarding, rejectSubaccount
<1>11. ASSUME NEW c \in Charges, NEW k, CreateCharge(c, k)
       PROVE  SourcesExist'
    <2>1. /\ transfer' = transfer /\ returning' = returning
          /\ charge' = [charge EXCEPT ![c] = [NoCharge EXCEPT !.status = "open", !.on = k]]
        BY <1>11 DEF CreateCharge
    <2>2. Stay
        BY <1>2, <2>1 DEF NoCharge
    <2>3. QED
        BY <1>3, <2>1, <2>2
<1>12. ASSUME NEW c \in Charges, Settle(c)
       PROVE  SourcesExist'
    <2>1. /\ charge' = [charge EXCEPT ![c].status = "settled"] /\ returning' = returning
          /\ charge[c].status = "open"
        BY <1>12 DEF Settle
    <2>2. Stay /\ charge'[c].status = "settled"
        BY <1>2, <2>1 DEF ChargeRow, NoCharge
    <2>3. CASE transfer' = transfer
        BY <1>3, <2>1, <2>2, <2>3
    <2>4. CASE \E t \in Rows : createTransferIn(t, Share(On(c)), c)
        <3>1. PICK t \in Rows : createTransferIn(t, Share(On(c)), c)
            BY <2>4
        <3>2. /\ transfer'[t].source = c
              /\ \A u \in Rows : u # t => transfer'[u] = transfer[u]
            BY <1>2, <3>1 DEF createTransferIn
        <3>3. QED
            BY <1>3, <2>1, <2>2, <3>2
    <2>5. QED
        BY <1>12, <2>3, <2>4 DEF Settle
<1>13. ASSUME NEW c \in Charges, NEW n, refundPlatformFee(c, n)
       PROVE  Stay
    <2>1. PICK x, y : charge' = [charge EXCEPT ![c].feeRefunded = x, ![c].feeMoved = y]
        BY <1>13 DEF refundPlatformFee
    <2>2. QED
        BY <1>2, <2>1 DEF ChargeRow, NoCharge
<1>14. ASSUME NEW c \in Charges, ReturnFee(c)
       PROVE  SourcesExist'
    <2>1. transfer' = transfer /\ returning' \subseteq returning
        BY <1>14 DEF ReturnFee
    <2>2. Stay
        BY <1>13, <1>14 DEF ReturnFee
    <2>3. QED
        BY <1>3, <2>1, <2>2
<1>15. ASSUME NEW c \in Charges, NEW n, RefundFee(c, n)
       PROVE  SourcesExist'
    BY <1>3, <1>13, <1>15 DEF RefundFee
<1>16. ASSUME NEW c \in Charges, NEW n, RefundCharge(c, n)
       PROVE  SourcesExist'
    <2>1. PICK x : charge' = [charge EXCEPT ![c].refunded = x]
        BY <1>16 DEF RefundCharge
    <2>2. Stay
        BY <1>2, <2>1 DEF ChargeRow, NoCharge
    <2>3. transfer' = transfer /\ returning' = returning
        BY <1>16 DEF RefundCharge
    <2>4. QED
        BY <1>3, <2>2, <2>3
<1>17. QED
    BY <1>5, <1>6, <1>7, <1>8, <1>9, <1>10, <1>11, <1>12, <1>14, <1>15, <1>16 DEF Next

-----------------------------------------------------------------------------
(***************************************************************************)
(* The rows stay sound, no pot is short, and the charges that transfers and *)
(* returned fees speak of are there, in every state of every behaviour.    *)
(***************************************************************************)
THEOREM Invariance == Spec => [](IInv /\ SourcesExist)
<1>1. Init => IInv /\ SourcesExist
    <2>1. Init => SourcesExist
        BY TermsAssumption DEF Init, TransfersInit, SourcesExist, NoTransfer, Charges
    <2>2. QED
        BY <2>1, InitIInv
<1>2. IInv /\ SourcesExist /\ [Next]_vars => (IInv /\ SourcesExist)'
    BY StepIInv, StepSources
<1>3. QED
    BY <1>1, <1>2, PTL DEF Spec

(***************************************************************************)
(* Whatever transfers, reversals, refunds, fees and funding requests       *)
(* interleave, no pot lacks more than what nothing checked took from it.   *)
(***************************************************************************)
THEOREM MoneySpentOnce == Spec => []NeverOverdrawn
<1>1. IInv => NeverOverdrawn
    BY DEF IInv
<1>2. QED
    BY <1>1, Invariance, PTL

(***************************************************************************)
(* The ledger entries of every transfer are what its row stands for.       *)
(***************************************************************************)
THEOREM LedgerAgrees == Spec => []LedgerMatchesRows
<1>1. IInv => LedgerMatchesRows
    <2>1. SUFFICES ASSUME IInv, NEW t \in Rows, transfer[t].status # "none"
                   PROVE  IF Kind(t).reserve
                          THEN /\ \A pot \in Pots :
                                     moved[t][pot] = Entries(Kind(t), Standing(t), FeeHeld(t), pot)
                               /\ Internal(t) => ((transfer[t].status = "reversed")
                                                     <=> (Standing(t) = 0))
                          ELSE /\ moved[t][Platform] <= 0
                               /\ Committed(t) => moved[t][Platform] <= - Kind(t).amount
        BY DEF LedgerMatchesRows
    <2>2. RowSound(t)
        BY <2>1 DEF IInv, RowsInv
    <2>3. CASE Kind(t).reserve
        BY <2>1, <2>2, <2>3 DEF RowSound, ReservedSound
    <2>4. CASE ~ Kind(t).reserve
        <3>1. FundedSound(t)
            BY <2>1, <2>2, <2>4 DEF RowSound
        <3>2. Committed(t) => ~ Over(t) /\ transfer[t].reserved
            BY DEF Committed, Over
        <3>3. QED
            BY <2>4, <3>1, <3>2 DEF FundedSound
    <2>5. QED
        BY <2>3, <2>4
<1>2. QED
    BY <1>1, Invariance, PTL

(***************************************************************************)
(* Nothing touches the entries of a transfer that has come back whole, and *)
(* a fee returned out of its charge pays nothing across.                   *)
(***************************************************************************)
LEMMA ReversedStays ==
    ASSUME IInv, SourcesExist, Next, NEW c \in Charges, NEW t \in Rows,
           charge[c].status = "settled", On(c).mode = "forwarded",
           Named(c) = {t}, transfer[t].status = "reversed"
    PROVE  /\ moved'[t] = moved[t]
           /\ charge'[c].feeMoved = charge[c].feeMoved /\ On(c)' = On(c)
<1>1. RowsInv /\ ConnectTypeOK /\ TypeOK /\ RowSound(t)
    BY DEF IInv, NeverOverdrawn, RowsInv
<1>2. /\ transfer[t].source = c /\ c \in Nat /\ c # 0 /\ charge[c] \in ChargeRow
      /\ charge[c].feeMoved \in Nat
    BY <1>1, ChargeFacts, TermsAssumption DEF Named, Charges
<1>3. /\ Internal(t) /\ Kind(t).reserve /\ Kind(t).amount \in Nat \ {0}
      /\ transfer[t].amountReversed = Kind(t).amount
    <2>1. /\ Kind(t).amount \in Nat \ {0} /\ transfer[t].amountReversed \in Nat
          /\ Internal(t)
        BY <1>1, <1>2, RowFacts DEF RowSound
    <2>2. Kind(t).reserve /\ ReservedSound(t)
        BY <1>1, <2>1 DEF RowSound, FundedSound, FundedLater, Internal
    <2>3. Standing(t) = Kind(t).amount - transfer[t].amountReversed
        BY <2>1 DEF Standing, Undone
    <2>4. QED
        BY <2>1, <2>2, <2>3 DEF ReservedSound
<1>4. ASSUME NEW u \in Rows, NEW to, NEW flag, transitionTransfer(u, to, flag), u # t
      PROVE  moved'[t] = moved[t]
    <2>1. PICK n, fee : moved' = Entered(u, Kind(u), n, fee) \/ moved' = moved
        BY <1>4 DEF transitionTransfer, Debited
    <2>2. QED
        BY <1>1, <1>4, <2>1 DEF Entered, TypeOK
<1>5. ASSUME NEW u \in Rows, NEW k, NEW source, createTransferIn(u, k, source)
      PROVE  moved'[t] = moved[t]
    <2>1. u # t
        BY <1>5 DEF createTransferIn
    <2>2. moved' = Entered(u, k, k.amount, k.fee) \/ moved' = moved
        BY <1>5 DEF createTransferIn
    <2>3. QED
        BY <1>1, <2>1, <2>2 DEF Entered, TypeOK
<1>6. ASSUME NEW r \in Requests, funding[r].pc # "idle"
      PROVE  funding[r].row \in Rows /\ funding[r].row # t
    BY <1>1, <1>3, <1>6 DEF RowsInv, RequestSound, TypeOK
<1>7. ASSUME NEW d \in Charges, NEW n \in Nat, refundPlatformFee(d, n)
      PROVE  charge'[c].feeMoved = charge[c].feeMoved /\ On(c)' = On(c)
    <2>1. charge' = [charge EXCEPT ![d].feeRefunded = @ + n,
                                   ![d].feeMoved = @ + feeRefundShare(d, n)]
        BY <1>7 DEF refundPlatformFee
    <2>2. CASE d # c
        BY <1>1, <2>1, <2>2 DEF ConnectTypeOK, On
    <2>3. CASE d = c
        <3>1. Newest(c) = t
            BY NewestIsNamed
        <3>2. feeRefundShare(c, n)
                 = (n * (Kind(t).amount - transfer[t].amountReversed)) \div Kind(t).amount
            BY <3>1 DEF feeRefundShare, Kind
        <3>3. Kind(t).amount - transfer[t].amountReversed = 0
            BY <1>3
        <3>4. feeRefundShare(c, n) = 0
            BY <1>3, <3>2, <3>3, Proportion
        <3>5. PICK x : charge' = [charge EXCEPT ![c].feeRefunded = x,
                                                ![c].feeMoved = charge[c].feeMoved + 0]
            BY <2>1, <2>3, <3>4
        <3>6. QED
            BY <1>1, <1>2, <3>5 DEF ConnectTypeOK, ChargeRow, On
    <2>4. QED
        BY <2>2, <2>3
<1>8. ASSUME charge' = charge
      PROVE  charge'[c].feeMoved = charge[c].feeMoved /\ On(c)' = On(c)
    BY <1>8 DEF On
<1>9. CASE TransfersNext /\ UNCHANGED <<charge, account, returning>>
    <2>1. ASSUME NEW u \in Rows, NEW to \in TransferStatus, Transition(u, to)
          PROVE  moved'[t] = moved[t]
        <3>1. u # t
            BY <1>3, <2>1 DEF Transition
        <3>2. QED
            BY <1>4, <2>1, <3>1 DEF Transition
    <2>2. ASSUME NEW r \in Requests, NEW u \in Rows, FundCheck(r, u)
          PROVE  moved'[t] = moved[t]
        BY <2>2 DEF FundCheck
    <2>3. ASSUME NEW r \in Requests, FundDebit(r)
          PROVE  moved'[t] = moved[t]
        <3>1. funding[r].row \in Rows /\ funding[r].row # t
            BY <1>6, <2>3 DEF FundDebit
        <3>2. QED
            BY <1>1, <2>3, <3>1 DEF FundDebit, TypeOK
    <2>4. ASSUME NEW r \in Requests, FundMove(r)
          PROVE  moved'[t] = moved[t]
        <3> PICK u \in Rows : u = funding[r].row
            BY <1>1 DEF TypeOK
        <3>1. u # t
            BY <1>6, <2>4 DEF FundMove
        <3>2. transitionTransfer(u, "processing", TRUE) \/ moved' = moved
            BY <2>4 DEF FundMove
        <3>3. QED
            BY <1>4, <3>1, <3>2
    <2>5. QED
        BY <1>8, <1>9, <2>1, <2>2, <2>3, <2>4 DEF TransfersNext
<1>10. ASSUME NEW n, Deposit(n)
       PROVE  moved' = moved /\ charge' = charge
    BY <1>10 DEF Deposit
<1>11. ASSUME NEW u \in Rows, NEW k, NEW source, CreateTransfer(u, k, source)
       PROVE  moved'[t] = moved[t] /\ charge' = charge
    BY <1>5, <1>11 DEF CreateTransfer, createTransfer
<1>12. ASSUME NEW u \in Rows, NEW n \in 1..Kind(u).amount, Reverse(u, n)
       PROVE  moved'[t] = moved[t] /\ charge' = charge
    <2>1. /\ n > 0 /\ transfer[u].amountReversed + n <= Kind(u).amount
          /\ moved' = Entered(u, Kind(u), -n, 0) /\ charge' = charge
        BY <1>12 DEF Reverse, ReverseTransfer, Debited
    <2>2. u # t
        BY <1>3, <2>1
    <2>3. QED
        BY <1>1, <2>1, <2>2 DEF Entered, TypeOK
<1>13. ASSUME NEW s, completeOnboarding(s) \/ rejectSubaccount(s)
       PROVE  moved' = moved /\ charge' = charge
    BY <1>13 DEF completeOnboarding, rejectSubaccount
<1>14. ASSUME NEW d \in Charges, NEW k, CreateCharge(d, k)
       PROVE  moved' = moved /\ charge'[c] = charge[c]
    BY <1>1, <1>14 DEF CreateCharge, ConnectTypeOK
<1>15. ASSUME NEW d \in Charges, Settle(d)
       PROVE  moved'[t] = moved[t] /\ charge'[c] = charge[c]
    <2>1. charge'[c] = charge[c]
        BY <1>1, <1>15 DEF Settle, ConnectTypeOK
    <2>2. QED
        BY <1>5, <1>15, <2>1 DEF Settle
<1>16. ASSUME NEW d \in Charges, ReturnFee(d)
       PROVE  /\ moved' = moved
              /\ charge'[c].feeMoved = charge[c].feeMoved /\ On(c)' = On(c)
    <2>1. CASE FeeLeft(d) > 0
        <3>1. charge[d].status # "none"
            BY <1>16 DEF ReturnFee, SourcesExist
        <3>2. FeeLeft(d) \in Nat
            BY <1>1, <2>1, <3>1, ChargeFacts DEF FeeLeft
        <3>3. refundPlatformFee(d, FeeLeft(d)) /\ moved' = moved
            BY <1>16, <2>1 DEF ReturnFee
        <3>4. QED
            BY <1>7, <3>2, <3>3
    <2>2. CASE ~ (FeeLeft(d) > 0)
        BY <1>8, <1>16, <2>2 DEF ReturnFee
    <2>3. QED
        BY <2>1, <2>2
<1>17. ASSUME NEW d \in Charges, NEW n \in Refunds, RefundFee(d, n)
       PROVE  /\ moved' = moved
              /\ charge'[c].feeMoved = charge[c].feeMoved /\ On(c)' = On(c)
    BY <1>7, <1>17, TermsAssumption DEF RefundFee
<1>18. ASSUME NEW d \in Charges, NEW n, RefundCharge(d, n)
       PROVE  /\ moved' = moved
              /\ charge'[c].feeMoved = charge[c].feeMoved /\ On(c)' = On(c)
    <2>1. PICK x : charge' = [charge EXCEPT ![d].refunded = x]
        BY <1>18 DEF RefundCharge
    <2>2. QED
        BY <1>1, <1>2, <1>18, <2>1 DEF RefundCharge, ConnectTypeOK, ChargeRow, On
<1>19. QED
    <2>1. CASE \E n \in Deposits : Deposit(n)
        BY <1>8, <1>10, <2>1
    <2>2. CASE \E u \in Rows, k \in Kinds, d \in Charges \cup {0} : CreateTransfer(u, k, d)
        BY <1>8, <1>11, <2>2
    <2>3. CASE \E u \in {v \in Rows : transfer[v].status # "none"} :
                  \E n \in 1..Kind(u).amount : Reverse(u, n)
        BY <1>8, <1>12, <2>3
    <2>4. CASE \E s \in Accounts : completeOnboarding(s) \/ rejectSubaccount(s)
        BY <1>8, <1>13, <2>4
    <2>5. CASE \E d \in Charges :
                  \/ \E k \in Terms : CreateCharge(d, k)
                  \/ Settle(d) \/ ReturnFee(d)
                  \/ \E n \in Refunds : RefundCharge(d, n) \/ RefundFee(d, n)
        <3>1. CASE \E d \in Charges : \E k \in Terms : CreateCharge(d, k)
            BY <1>14, <3>1 DEF On
        <3>2. CASE \E d \in Charges : Settle(d)
            BY <1>15, <3>2 DEF On
        <3>3. CASE \E d \in Charges : ReturnFee(d)
            BY <1>16, <3>3
        <3>4. CASE \E d \in Charges : \E n \in Refunds : RefundCharge(d, n)
            BY <1>18, <3>4
        <3>5. CASE \E d \in Charges : \E n \in Refunds : RefundFee(d, n)
            BY <1>17, <3>5
        <3>6. QED
            BY <2>5, <3>1, <3>2, <3>3, <3>4, <3>5
    <2>6. QED
        BY <1>9, <2>1, <2>2, <2>3, <2>4, <2>5 DEF Next

(***************************************************************************)
(* Once the share of a forwarded charge has come back, no return of its    *)
(* fee gives the account anything out of it.                               *)
(***************************************************************************)
THEOREM NothingAfterReversal == Spec => ReversedGainsNothing
<1> DEFINE NoGain == \A c \in Charges :
              /\ charge[c].status = "settled" /\ On(c).mode = "forwarded"
              /\ \E t \in Rows : Named(c) = {t} /\ transfer[t].status = "reversed"
              /\ Named(c)' = Named(c)
              => Holds(c)' <= Holds(c)
<1>1. ASSUME IInv, SourcesExist, Next
      PROVE  NoGain
    <2>1. SUFFICES ASSUME NEW c \in Charges, NEW t \in Rows,
                          charge[c].status = "settled", On(c).mode = "forwarded",
                          Named(c) = {t}, transfer[t].status = "reversed",
                          Named(c)' = Named(c)
                   PROVE  Holds(c)' <= Holds(c)
        OBVIOUS
    <2>2. ConnectTypeOK /\ TypeOK
        BY <1>1 DEF IInv, NeverOverdrawn, RowsInv
    <2>3. /\ moved'[t] = moved[t]
          /\ charge'[c].feeMoved = charge[c].feeMoved /\ On(c)' = On(c)
        BY <1>1, <2>1, ReversedStays
    <2> DEFINE f == [u \in Rows |-> IF u \in Named(c) THEN moved[u][On(c).account] ELSE 0]
               h == [u \in Rows |-> IF u \in Named(c)'
                                    THEN moved'[u][On(c)'.account] ELSE 0]
    <2>4. h = f
        BY <2>1, <2>3
    <2>5. On(c).account \in Pots /\ charge[c].feeMoved \in Nat
        BY <2>1, <2>2, ChargeFacts
    <2>6. f \in [1..MaxTransfers -> Int]
        BY <2>2, <2>5 DEF Rows, TypeOK
    <2>7. Holds(c) = charge[c].feeMoved + SumTo(f, MaxTransfers)
        BY DEF Holds
    <2>8. Holds(c)' = charge'[c].feeMoved + SumTo(h, MaxTransfers)
        BY DEF Holds
    <2> HIDE DEF f, h
    <2>9. SumTo(f, MaxTransfers) \in Int
        BY <2>6, SumToInt, MaxTransfersAssumption
    <2>10. QED
        BY <2>3, <2>4, <2>5, <2>7, <2>8, <2>9
<1>2. IInv /\ SourcesExist /\ [Next]_vars => [NoGain]_vars
    BY <1>1
<1>3. QED
    BY <1>2, Invariance, PTL DEF Spec, ReversedGainsNothing
=============================================================================
