--------------------------- MODULE PaymentsProofs ---------------------------
(***************************************************************************)
(* Theorems about Payments, for every set of payments, disputes, charges   *)
(* and requested amounts and every number of refund rows; and about        *)
(* Billing, which sums columns too, for every period, retry schedule,      *)
(* price list, recovery setting and number of requests and deaths.         *)
(***************************************************************************)
EXTENDS Payments, Billing, SequenceTheorems, WellFoundedInduction, TLAPS

-----------------------------------------------------------------------------
(***************************************************************************)
(* The column sum, for every number of rows.  The library's induction      *)
(* theorems take an operator parameter, which no installed prover          *)
(* instantiates; the induction is done by hand instead, on the least       *)
(* counterexample of a set of naturals.                                    *)
(***************************************************************************)

(***************************************************************************)
(* A non-empty set of naturals has a least member.                         *)
(***************************************************************************)
LEMMA LeastNatural ==
    ASSUME NEW T \in SUBSET Nat, T # {}
    PROVE  \E m \in T : \A k \in T : m <= k
<1> DEFINE R == {ss \in Nat \X Nat : ss[1] < ss[2]}
<1>1. IsWellFoundedOn(R, Nat)
    BY NatLessThanWellFounded, Zenon DEF OpToRel
<1> HIDE DEF R
<1>2. PICK m \in T : \A k \in T : ~ (<<k, m>> \in R)
    BY <1>1, WFMin, Zenon
<1>3. \A k \in T : ~ (k < m)
    BY <1>2 DEF R
<1>4. QED
    BY <1>3

\* The partial sums of f up to row n.
PartialSums(f, n, g) ==
    /\ g \in [0..n -> Int]
    /\ g[0] = 0
    /\ \A i \in 1..n : g[i] = g[i-1] + f[i]

(***************************************************************************)
(* The partial sums of any column exist: SumTo is well defined.            *)
(***************************************************************************)
LEMMA PartialSumsExist ==
    ASSUME NEW n \in Nat, NEW f \in [1..n -> Int]
    PROVE  \E g : PartialSums(f, n, g)
<1> DEFINE Bad == {k \in Nat : k <= n /\ ~ \E g : PartialSums(f, k, g)}
<1>1. SUFFICES ASSUME Bad # {}
               PROVE  FALSE
    <2>1. n \in Bad \/ \E g : PartialSums(f, n, g)
        OBVIOUS
    <2>2. QED
        BY <2>1
<1>2. PICK m \in Bad : \A k \in Bad : m <= k
    BY <1>1, LeastNatural
<1>3. m # 0
    <2>1. PartialSums(f, 0, [i \in 0..0 |-> 0])
        BY DEF PartialSums
    <2>2. QED
        BY <2>1
<1>4. m - 1 \in Nat /\ m - 1 <= n /\ m - 1 \notin Bad
    BY <1>2, <1>3
<1>5. PICK g : PartialSums(f, m - 1, g)
    BY <1>4
<1> DEFINE h == [i \in 0..m |-> IF i = m THEN g[m-1] + f[m] ELSE g[i]]
<1>6. PartialSums(f, m, h)
    <2>1. m \in Nat /\ m > 0 /\ m <= n
        BY <1>2, <1>3
    <2>2. /\ g \in [0..(m-1) -> Int]
          /\ g[0] = 0
          /\ \A i \in 1..(m-1) : g[i] = g[i-1] + f[i]
        BY <1>5 DEF PartialSums
    <2>3. f[m] \in Int /\ g[m-1] \in Int
        BY <2>1, <2>2
    <2>4. h \in [0..m -> Int]
        BY <2>1, <2>2, <2>3
    <2>5. h[0] = 0
        BY <2>1, <2>2
    <2>6. ASSUME NEW i \in 1..m
          PROVE  h[i] = h[i-1] + f[i]
        <3>1. CASE i = m
            <4>1. h[m] = g[m-1] + f[m] /\ h[m-1] = g[m-1]
                BY <2>1
            <4>2. QED
                BY <3>1, <4>1
        <3>2. CASE i # m
            <4>1. i \in 1..(m-1) /\ h[i] = g[i] /\ h[i-1] = g[i-1]
                BY <2>1, <3>2
            <4>2. QED
                BY <2>2, <4>1
        <3>3. QED
            BY <3>1, <3>2
    <2>7. QED
        BY <2>4, <2>5, <2>6 DEF PartialSums
<1>7. QED
    BY <1>2, <1>6

(***************************************************************************)
(* SumTo(f, n) is the last of the partial sums.                            *)
(***************************************************************************)
LEMMA SumToPartialSums ==
    ASSUME NEW n \in Nat, NEW f \in [1..n -> Int]
    PROVE  \E g : PartialSums(f, n, g) /\ SumTo(f, n) = g[n]
<1> DEFINE Eq(g) == g = [i \in 0..n |-> IF i = 0 THEN 0 ELSE g[i-1] + f[i]]
<1>1. PICK g0 : PartialSums(f, n, g0)
    BY PartialSumsExist
<1>2. Eq(g0)
    BY <1>1 DEF PartialSums
<1> DEFINE s == CHOOSE g : Eq(g)
<1>3. Eq(s)
    BY <1>2
<1>4. SumTo(f, n) = s[n]
    BY DEF SumTo
<1> HIDE DEF s
<1>5. \A i \in 0..n : s[i] \in Int
    <2> DEFINE Bad == {k \in Nat : k <= n /\ s[k] \notin Int}
    <2>1. SUFFICES ASSUME Bad # {}
                   PROVE  FALSE
        OBVIOUS
    <2>2. PICK m \in Bad : \A k \in Bad : m <= k
        BY <2>1, LeastNatural
    <2>3. CASE m = 0
        BY <1>3, <2>2, <2>3
    <2>4. CASE m # 0
        <3>1. m - 1 \in 0..n /\ s[m-1] \in Int
            BY <2>2, <2>4
        <3>2. s[m] = s[m-1] + f[m]
            BY <1>3, <2>2, <2>4
        <3>3. QED
            BY <2>2, <2>4, <3>1, <3>2
    <2>5. QED
        BY <2>3, <2>4
<1>6. PartialSums(f, n, s)
    BY <1>3, <1>5 DEF PartialSums
<1>7. QED
    BY <1>4, <1>6

(***************************************************************************)
(* The sum of a column of integers is an integer.                          *)
(***************************************************************************)
LEMMA SumToInt ==
    ASSUME NEW n \in Nat, NEW f \in [1..n -> Int]
    PROVE  SumTo(f, n) \in Int
<1>1. PICK g : PartialSums(f, n, g) /\ SumTo(f, n) = g[n]
    BY SumToPartialSums
<1>2. QED
    BY <1>1 DEF PartialSums

(***************************************************************************)
(* Changing one row of a column changes its sum by the difference.         *)
(***************************************************************************)
LEMMA SumToUpdate ==
    ASSUME NEW n \in Nat, NEW f \in [1..n -> Int], NEW h \in [1..n -> Int],
           NEW k \in 1..n, \A i \in 1..n : i # k => h[i] = f[i]
    PROVE  SumTo(h, n) = SumTo(f, n) + h[k] - f[k]
<1>1. PICK F : PartialSums(f, n, F) /\ SumTo(f, n) = F[n]
    BY SumToPartialSums
<1>2. PICK H : PartialSums(h, n, H) /\ SumTo(h, n) = H[n]
    BY SumToPartialSums
<1> DEFINE d(i) == IF i < k THEN 0 ELSE h[k] - f[k]
<1> DEFINE Bad == {i \in Nat : i <= n /\ H[i] # F[i] + d(i)}
<1>3. Bad = {}
    <2>1. SUFFICES ASSUME Bad # {}
                   PROVE  FALSE
        OBVIOUS
    <2>2. PICK m \in Bad : \A i \in Bad : m <= i
        BY <2>1, LeastNatural
    <2>3. m \in Nat /\ m <= n /\ H[m] # F[m] + d(m)
        BY <2>2
    <2>4. m # 0
        BY <1>1, <1>2, <2>3 DEF PartialSums
    <2>5. m - 1 \in Nat /\ H[m-1] = F[m-1] + d(m-1)
        BY <2>2, <2>3, <2>4
    <2>6. /\ F[m] = F[m-1] + f[m] /\ H[m] = H[m-1] + h[m]
          /\ F[m-1] \in Int /\ H[m-1] \in Int /\ f[m] \in Int /\ h[m] \in Int
        <3>1. m \in 1..n /\ m - 1 \in 0..n
            BY <2>3, <2>4
        <3>2. F[m] = F[m-1] + f[m] /\ F[m-1] \in Int
            BY <1>1, <3>1 DEF PartialSums
        <3>3. H[m] = H[m-1] + h[m] /\ H[m-1] \in Int
            BY <1>2, <3>1 DEF PartialSums
        <3>4. QED
            BY <3>1, <3>2, <3>3
    <2>7. CASE m = k
        BY <2>3, <2>5, <2>6, <2>7
    <2>8. CASE m # k
        <3>1. h[m] = f[m] /\ d(m) = d(m-1)
            BY <2>3, <2>4, <2>8
        <3>2. QED
            BY SMTT(60), <2>3, <2>5, <2>6, <3>1
    <2>9. QED
        BY <2>7, <2>8
<1>4. H[n] = F[n] + h[k] - f[k]
    <2>1. n \notin Bad
        BY <1>3
    <2>2. H[n] = F[n] + d(n) /\ F[n] \in Int
        BY <1>1, <2>1 DEF PartialSums
    <2>3. QED
        BY <2>2
<1>5. QED
    BY <1>1, <1>2, <1>4

(***************************************************************************)
(* A column of zeros sums to zero.                                         *)
(***************************************************************************)
LEMMA SumToZero ==
    ASSUME NEW n \in Nat
    PROVE  SumTo([i \in 1..n |-> 0], n) = 0
<1> DEFINE z == [i \in 1..n |-> 0]
<1>1. PICK F : PartialSums(z, n, F) /\ SumTo(z, n) = F[n]
    BY SumToPartialSums
<1> DEFINE Bad == {i \in Nat : i <= n /\ F[i] # 0}
<1>2. Bad = {}
    <2>1. SUFFICES ASSUME Bad # {}
                   PROVE  FALSE
        OBVIOUS
    <2>2. PICK m \in Bad : \A i \in Bad : m <= i
        BY <2>1, LeastNatural
    <2>3. m \in Nat /\ m <= n /\ F[m] # 0
        BY <2>2
    <2>4. m # 0
        BY <1>1, <2>3 DEF PartialSums
    <2>5. m - 1 \in Nat /\ F[m-1] = 0
        BY <2>2, <2>3, <2>4
    <2>6. m \in 1..n
        BY <2>3, <2>4
    <2>7. F[m] = F[m-1] + z[m]
        BY <1>1, <2>6 DEF PartialSums
    <2>8. QED
        BY <2>3, <2>5, <2>6, <2>7
<1>3. QED
    BY <1>1, <1>2

(***************************************************************************)
(* A column that is row by row at most another has at most its sum.        *)
(***************************************************************************)
LEMMA SumToMonotone ==
    ASSUME NEW n \in Nat, NEW f \in [1..n -> Int], NEW h \in [1..n -> Int],
           \A i \in 1..n : f[i] <= h[i]
    PROVE  SumTo(f, n) <= SumTo(h, n)
<1>1. PICK F : PartialSums(f, n, F) /\ SumTo(f, n) = F[n]
    BY SumToPartialSums
<1>2. PICK H : PartialSums(h, n, H) /\ SumTo(h, n) = H[n]
    BY SumToPartialSums
<1> DEFINE Bad == {i \in Nat : i <= n /\ ~ (F[i] <= H[i])}
<1>3. Bad = {}
    <2>1. SUFFICES ASSUME Bad # {}
                   PROVE  FALSE
        OBVIOUS
    <2>2. PICK m \in Bad : \A i \in Bad : m <= i
        BY <2>1, LeastNatural
    <2>3. m \in Nat /\ m <= n /\ ~ (F[m] <= H[m])
        BY <2>2
    <2>4. m # 0
        BY <1>1, <1>2, <2>3 DEF PartialSums
    <2>5. m - 1 \in Nat /\ F[m-1] <= H[m-1]
        BY <2>2, <2>3, <2>4
    <2>6. m \in 1..n /\ m - 1 \in 0..n
        BY <2>3, <2>4
    <2>7. F[m] = F[m-1] + f[m] /\ F[m-1] \in Int
        BY <1>1, <2>6 DEF PartialSums
    <2>8. H[m] = H[m-1] + h[m] /\ H[m-1] \in Int
        BY <1>2, <2>6 DEF PartialSums
    <2>9. f[m] <= h[m] /\ f[m] \in Int /\ h[m] \in Int
        BY <2>6
    <2>10. QED
        BY <2>3, <2>5, <2>7, <2>8, <2>9
<1>4. QED
    BY <1>1, <1>2, <1>3

-----------------------------------------------------------------------------
USE DEF RefundRows

-----------------------------------------------------------------------------
(***************************************************************************)
(* Replacing one refund row changes a payment's total by what that row     *)
(* counted and counts.                                                     *)
(***************************************************************************)
LEMMA TotalUpdate ==
    ASSUME NEW rows \in [RefundRows -> RefundRow], NEW r \in RefundRows,
           NEW row \in RefundRow, NEW p
    PROVE  /\ totalRefunded(rows, p) \in Int
           /\ totalRefunded([rows EXCEPT ![r] = row], p)
                 = totalRefunded(rows, p) + HeldBy(row, p) - HeldBy(rows[r], p)
<1> DEFINE f == [q \in RefundRows |-> HeldBy(rows[q], p)]
           h == [q \in RefundRows |-> HeldBy([rows EXCEPT ![r] = row][q], p)]
<1>1. f \in [1..MaxRefunds -> Int] /\ h \in [1..MaxRefunds -> Int]
    BY DEF HeldBy, RefundRow
<1>2. f[r] = HeldBy(rows[r], p) /\ h[r] = HeldBy(row, p)
    OBVIOUS
<1>3. \A q \in 1..MaxRefunds : q # r => h[q] = f[q]
    OBVIOUS
<1>4. totalRefunded(rows, p) = SumTo(f, MaxRefunds)
    BY DEF totalRefunded
<1>5. totalRefunded([rows EXCEPT ![r] = row], p) = SumTo(h, MaxRefunds)
    BY DEF totalRefunded
<1> HIDE DEF f, h
<1>6. SumTo(h, MaxRefunds) = SumTo(f, MaxRefunds) + h[r] - f[r]
    BY <1>1, <1>3, SumToUpdate, MaxRefundsAssumption
<1>7. SumTo(f, MaxRefunds) \in Int
    BY <1>1, SumToInt, MaxRefundsAssumption
<1>8. QED
    BY <1>2, <1>4, <1>5, <1>6, <1>7

\* What the settled refunds of p add up to when the table is rows
SettledIn(rows, p) ==
    SumTo([r \in RefundRows |-> SettledBy(rows[r], p)], MaxRefunds)

(***************************************************************************)
(* The same for the settled refunds of a payment.                          *)
(***************************************************************************)
LEMMA SettledUpdate ==
    ASSUME NEW rows \in [RefundRows -> RefundRow], NEW r \in RefundRows,
           NEW row \in RefundRow, NEW p
    PROVE  /\ SettledIn(rows, p) \in Int
           /\ SettledIn([rows EXCEPT ![r] = row], p)
                 = SettledIn(rows, p) + SettledBy(row, p) - SettledBy(rows[r], p)
<1> DEFINE f == [q \in RefundRows |-> SettledBy(rows[q], p)]
           h == [q \in RefundRows |-> SettledBy([rows EXCEPT ![r] = row][q], p)]
<1>1. f \in [1..MaxRefunds -> Int] /\ h \in [1..MaxRefunds -> Int]
    BY DEF SettledBy, RefundRow
<1>2. f[r] = SettledBy(rows[r], p) /\ h[r] = SettledBy(row, p)
    OBVIOUS
<1>3. \A q \in 1..MaxRefunds : q # r => h[q] = f[q]
    OBVIOUS
<1>4. SettledIn(rows, p) = SumTo(f, MaxRefunds)
    BY DEF SettledIn
<1>5. SettledIn([rows EXCEPT ![r] = row], p) = SumTo(h, MaxRefunds)
    BY DEF SettledIn
<1> HIDE DEF f, h
<1>6. SumTo(h, MaxRefunds) = SumTo(f, MaxRefunds) + h[r] - f[r]
    BY <1>1, <1>3, SumToUpdate, MaxRefundsAssumption
<1>7. SumTo(f, MaxRefunds) \in Int
    BY <1>1, SumToInt, MaxRefundsAssumption
<1>8. QED
    BY <1>2, <1>4, <1>5, <1>6, <1>7

(***************************************************************************)
(* A payment's settled refunds are part of its total.                      *)
(***************************************************************************)
LEMMA SettledWithinTotal ==
    ASSUME NEW rows \in [RefundRows -> RefundRow], NEW p,
           \A r \in RefundRows : rows[r].amount \in Nat
    PROVE  SettledIn(rows, p) <= totalRefunded(rows, p)
<1> DEFINE f == [q \in RefundRows |-> SettledBy(rows[q], p)]
           h == [q \in RefundRows |-> HeldBy(rows[q], p)]
<1>1. f \in [1..MaxRefunds -> Int] /\ h \in [1..MaxRefunds -> Int]
    BY DEF SettledBy, HeldBy, RefundRow
<1>2. \A q \in 1..MaxRefunds : f[q] <= h[q]
    BY DEF SettledBy, HeldBy
<1> HIDE DEF f, h
<1>3. SumTo(f, MaxRefunds) <= SumTo(h, MaxRefunds)
    BY <1>1, <1>2, SumToMonotone, MaxRefundsAssumption
<1>4. QED
    BY <1>3 DEF SettledIn, totalRefunded, f, h

(***************************************************************************)
(* No refund row: the totals are zero.                                     *)
(***************************************************************************)
LEMMA NoRefunds ==
    ASSUME NEW p \in Payments, refund = [r \in RefundRows |-> EmptyRefund]
    PROVE  totalRefunded(refund, p) = 0 /\ SettledIn(refund, p) = 0
<1> DEFINE z == [r \in 1..MaxRefunds |-> 0]
<1>1. [r \in RefundRows |-> HeldBy(refund[r], p)] = z
    BY NullAssumption DEF HeldBy, EmptyRefund
<1>2. [r \in RefundRows |-> SettledBy(refund[r], p)] = z
    BY NullAssumption DEF SettledBy, EmptyRefund
<1>3. SumTo(z, MaxRefunds) = 0
    BY SumToZero, MaxRefundsAssumption
<1>4. QED
    BY <1>1, <1>2, <1>3 DEF totalRefunded, SettledIn

-----------------------------------------------------------------------------
(***************************************************************************)
(* The facts of the invariant in the form the steps use.                   *)
(***************************************************************************)
LEMMA Facts ==
    ASSUME IInv
    PROVE  /\ \A p \in Payments :
                 /\ payment[p] \in PaymentRow
                 /\ payment[p].charge \in Charges
                 /\ Amount(p) \in Nat /\ Amount(p) > 0
                 /\ totalRefunded(refund, p) \in Int
                 /\ totalRefunded(refund, p) <= Amount(p)
                 /\ Settled(p) = SettledIn(refund, p) /\ Settled(p) \in Int
                 /\ Settled(p) <= payment[p].amountRefunded
                 /\ payment[p].amountRefunded <= Amount(p)
                 /\ collected[p] \in Nat /\ reopened[p] \in Nat
           /\ refund \in [RefundRows -> RefundRow]
           /\ \A r \in RefundRows : refund[r].amount \in Nat
<1>1. ASSUME NEW p \in Payments
      PROVE  /\ payment[p] \in PaymentRow
             /\ payment[p].charge \in Charges
             /\ Amount(p) \in Nat /\ Amount(p) > 0
    <2>1. payment[p] \in PaymentRow
        BY DEF IInv, TypeOK
    <2>2. payment[p].charge \in Charges
        BY <2>1 DEF PaymentRow
    <2>3. payment[p].charge.amount \in Nat \ {0}
        BY <2>2, ChargesAssumption
    <2>4. QED
        BY <2>1, <2>2, <2>3 DEF Amount
<1>2. refund \in [RefundRows -> RefundRow]
    BY DEF IInv, TypeOK
<1>3. \A r \in RefundRows : refund[r].amount \in Nat
    BY DEF IInv, RowsOwned
<1>4. ASSUME NEW p \in Payments
      PROVE  /\ totalRefunded(refund, p) \in Int
             /\ totalRefunded(refund, p) <= Amount(p)
             /\ Settled(p) = SettledIn(refund, p) /\ Settled(p) \in Int
             /\ Settled(p) <= payment[p].amountRefunded
             /\ payment[p].amountRefunded <= Amount(p)
             /\ collected[p] \in Nat /\ reopened[p] \in Nat
    <2>1. totalRefunded(refund, p) \in Int
        <3> DEFINE f == [r \in RefundRows |-> HeldBy(refund[r], p)]
        <3>1. f \in [1..MaxRefunds -> Int]
            BY <1>2 DEF HeldBy, RefundRow
        <3>2. totalRefunded(refund, p) = SumTo(f, MaxRefunds)
            BY DEF totalRefunded
        <3> HIDE DEF f
        <3>3. QED
            BY <3>1, <3>2, SumToInt, MaxRefundsAssumption
    <2>2. totalRefunded(refund, p) <= Amount(p)
        BY DEF IInv, RefundsWithinAmount
    <2>3. Settled(p) = SettledIn(refund, p) /\ Settled(p) \in Int
        <3> DEFINE f == [r \in RefundRows |-> SettledBy(refund[r], p)]
        <3>1. f \in [1..MaxRefunds -> Int]
            BY <1>2 DEF SettledBy, RefundRow
        <3>2. Settled(p) = SumTo(f, MaxRefunds)
            BY DEF Settled
        <3>3. SettledIn(refund, p) = SumTo(f, MaxRefunds)
            BY DEF SettledIn
        <3> HIDE DEF f
        <3>4. QED
            BY <3>1, <3>2, <3>3, SumToInt, MaxRefundsAssumption
    <2>4. Settled(p) <= payment[p].amountRefunded /\ payment[p].amountRefunded <= Amount(p)
        BY DEF IInv, AmountRefundedCovers
    <2>5. collected[p] \in Nat /\ reopened[p] \in Nat
        BY DEF IInv, TypeOK
    <2>6. QED
        BY <2>1, <2>2, <2>3, <2>4, <2>5
<1>5. QED
    BY <1>1, <1>2, <1>3, <1>4

(***************************************************************************)
(* A step that changes no refund row, charge or amount_refunded keeps what *)
(* the refunds of every payment add up to, and what it has collected if it *)
(* changes neither status nor counters.                                    *)
(***************************************************************************)
LEMMA SameRefunds ==
    ASSUME IInv, refund' = refund,
           \A p \in Payments :
              /\ payment'[p].charge = payment[p].charge
              /\ payment'[p].amountRefunded = payment[p].amountRefunded
    PROVE  RefundsWithinAmount' /\ AmountRefundedCovers'
<1>1. \A p \in Payments : Amount(p)' = Amount(p)
    BY DEF Amount
<1>2. \A p \in Payments : Settled(p)' = Settled(p)
    BY DEF Settled
<1>3. \A p \in Payments : totalRefunded(refund, p)' = totalRefunded(refund, p)
    BY DEF totalRefunded
<1>4. QED
    BY <1>1, <1>2, <1>3 DEF IInv, RefundsWithinAmount, AmountRefundedCovers

(***************************************************************************)
(* A payment of one status change keeps the invariant.                     *)
(***************************************************************************)
LEMMA CreatePaymentStep ==
    ASSUME IInv, NEW p \in Payments, NEW to, CreatePayment(p, to)
    PROVE  IInv'
<1> USE DEF CreatePayment
<1>1. payment[p] \in PaymentRow /\ to \in PaymentStatus
    BY Facts DEF PaymentStatus
<1>2. TypeOK'
    BY <1>1 DEF IInv, TypeOK, PaymentRow
<1>3. RowsOwned'
    BY DEF IInv, RowsOwned
<1>4. RefundsWithinAmount' /\ AmountRefundedCovers'
    <2>1. \A q \in Payments :
              /\ payment'[q].charge = payment[q].charge
              /\ payment'[q].amountRefunded = payment[q].amountRefunded
        BY DEF IInv, TypeOK, PaymentRow
    <2>2. QED
        BY <2>1, SameRefunds
<1>5. CreditsUsed'
    <2>1. \A q \in Payments : payment'[q].status \in SettledStatus
                                 <=> payment[q].status \in SettledStatus
        BY <1>1 DEF IInv, TypeOK, PaymentRow, SettledStatus
    <2>2. QED
        BY <2>1 DEF IInv, CreditsUsed
<1>6. DisputeRefundedOnce'
    BY DEF IInv, DisputeRefundedOnce
<1>7. QED
    BY <1>2, <1>3, <1>4, <1>5, <1>6 DEF IInv

(***************************************************************************)
(* The single mutation path keeps the invariant, whatever the flags, if a  *)
(* move the table does not list is counted as a reopening.                 *)
(***************************************************************************)
LEMMA TransitionPaymentStep ==
    ASSUME IInv, NEW p \in Payments, NEW to \in PaymentStatus,
           NEW reversal \in BOOLEAN, NEW again \in BOOLEAN,
           transitionPayment(p, to, reversal, again),
           \/ reopened' = reopened /\ payment[p].status \notin SettledStatus
           \/ reopened' = reopened /\ to # "successful" /\ to \in SettledStatus
           \/ reopened' = [reopened EXCEPT ![p] = @ + 1]
    PROVE  IInv'
<1>1. /\ payment[p] \in PaymentRow /\ payment[p].charge \in Charges
      /\ payment[p].charge.amount \in Nat /\ payment[p].charge.fee \in Nat
    BY Facts, ChargesAssumption
<1>2. payment' = [payment EXCEPT ![p].status = to]
    BY DEF transitionPayment
<1>3. TypeOK'
    <2>1. payment' \in [Payments -> PaymentRow]
        BY <1>1, <1>2 DEF IInv, TypeOK, PaymentRow
    <2>2. balance' \in [Payments -> [Accounts -> Int]]
        <3>1. balance \in [Payments -> [Accounts -> Int]]
            BY DEF IInv, TypeOK
        <3>2. balance' = balance \/ balance' = SettledBalance(p)
            BY DEF transitionPayment
        <3>3. SettledBalance(p) \in [Payments -> [Accounts -> Int]]
            <4> DEFINE a == payment[p].charge.amount
                       f == payment[p].charge.fee
            <4>1. a \in Int /\ f \in Int
                BY <1>1
            <4>2. (IF f < a THEN f ELSE a) \in Int /\ (IF f < a THEN a - f ELSE 0) \in Int
                BY <4>1
            <4>3. QED
                BY <3>1, <4>1, <4>2 DEF SettledBalance, Credit, Accounts
        <3>4. QED
            BY <3>1, <3>2, <3>3
    <2>3. collected' \in [Payments -> Nat]
        <3>1. collected \in [Payments -> Nat]
            BY DEF IInv, TypeOK
        <3>2. collected' = collected \/ collected' = [collected EXCEPT ![p] = @ + 1]
            BY DEF transitionPayment
        <3>3. QED
            BY <3>1, <3>2
    <2>4. reopened' \in [Payments -> Nat]
        <3>1. reopened \in [Payments -> Nat]
            BY DEF IInv, TypeOK
        <3>2. QED
            BY <3>1
    <2>5. QED
        BY <2>1, <2>2, <2>3, <2>4 DEF IInv, TypeOK, transitionPayment
<1>4. RowsOwned'
    BY DEF IInv, RowsOwned, transitionPayment
<1>5. RefundsWithinAmount' /\ AmountRefundedCovers'
    <2>1. \A q \in Payments :
              /\ payment'[q].charge = payment[q].charge
              /\ payment'[q].amountRefunded = payment[q].amountRefunded
        BY <1>2 DEF IInv, TypeOK, PaymentRow
    <2>2. QED
        BY <2>1, SameRefunds DEF transitionPayment
<1>6. CreditsUsed'
    <2>1. SUFFICES ASSUME NEW q \in Payments
                   PROVE  collected'[q] <= reopened'[q] +
                             (IF payment'[q].status \in SettledStatus THEN 1 ELSE 0)
        BY DEF CreditsUsed
    <2>2. /\ collected[q] <= reopened[q] +
                (IF payment[q].status \in SettledStatus THEN 1 ELSE 0)
          /\ collected[q] \in Nat /\ reopened[q] \in Nat
        BY Facts DEF IInv, CreditsUsed
    <2>3. collected \in [Payments -> Nat] /\ reopened \in [Payments -> Nat]
          /\ payment \in [Payments -> PaymentRow]
        BY DEF IInv, TypeOK
    <2>4. CASE q # p
        <3>1. payment'[q] = payment[q]
            BY <1>2, <2>3, <2>4
        <3>2. collected'[q] = collected[q]
            BY <2>3, <2>4 DEF transitionPayment
        <3>3. reopened'[q] = reopened[q]
            BY <2>3, <2>4
        <3>4. QED
            BY <2>2, <3>1, <3>2, <3>3
    <2>5. CASE q = p
        <3>1. payment'[p].status = to
            BY <1>2, <2>3 DEF PaymentRow
        <3>2. collected'[p] = IF to = "successful" THEN collected[p] + 1
                                                   ELSE collected[p]
            BY <2>3 DEF transitionPayment
        <3>3. "successful" \in SettledStatus
            BY DEF SettledStatus
        <3>4. \/ reopened'[p] = reopened[p] /\ payment[p].status \notin SettledStatus
              \/ reopened'[p] = reopened[p] /\ to # "successful" /\ to \in SettledStatus
              \/ reopened'[p] = reopened[p] + 1
            BY <2>3
        <3>5. QED
            BY <2>2, <2>5, <3>1, <3>2, <3>3, <3>4
    <2>6. QED
        BY <2>4, <2>5
<1>7. DisputeRefundedOnce'
    BY DEF IInv, DisputeRefundedOnce, transitionPayment
<1>8. QED
    BY <1>3, <1>4, <1>5, <1>6, <1>7 DEF IInv

-----------------------------------------------------------------------------
(***************************************************************************)
(* A refund row written for a payment that may be refunded by its amount   *)
(* keeps the totals of every payment within it.                            *)
(***************************************************************************)
LEMMA NewRefundTotals ==
    ASSUME IInv, NEW row \in RefundRow, row.payment \in Payments,
           row.status \in RefundStatus, MayRefund(row.payment, row.amount),
           NEW r \in RefundRows, refund[r].status = "none"
    PROVE  /\ row.amount \in Nat
           /\ refund[r] = EmptyRefund
           /\ [refund EXCEPT ![r] = row] \in [RefundRows -> RefundRow]
           /\ \A q \in RefundRows : [refund EXCEPT ![r] = row][q].amount \in Nat
           /\ \A q \in Payments :
                 /\ totalRefunded([refund EXCEPT ![r] = row], q) \in Int
                 /\ totalRefunded([refund EXCEPT ![r] = row], q) <= Amount(q)
                 /\ SettledIn([refund EXCEPT ![r] = row], q)
                       = Settled(q) + SettledBy(row, q)
<1> DEFINE rows == [refund EXCEPT ![r] = row]
<1>1. refund[r] = EmptyRefund
    BY DEF IInv, RowsOwned
<1>2. /\ row.amount \in Nat
      /\ row.amount <= Amount(row.payment) - totalRefunded(refund, row.payment)
    BY DEF MayRefund, assertRefundable, RefundRow
<1>3. rows \in [RefundRows -> RefundRow]
    BY Facts
<1>4. \A q \in RefundRows : rows[q].amount \in Nat
    BY <1>2, Facts
<1>5. ASSUME NEW q \in Payments
      PROVE  /\ totalRefunded(rows, q) \in Int
             /\ totalRefunded(rows, q) <= Amount(q)
             /\ SettledIn(rows, q) = Settled(q) + SettledBy(row, q)
    <2>1. HeldBy(refund[r], q) = 0 /\ SettledBy(refund[r], q) = 0
        BY <1>1, NullAssumption DEF HeldBy, SettledBy, EmptyRefund
    <2>2. HeldBy(row, q) \in Nat /\ (row.payment # q => HeldBy(row, q) = 0)
          /\ HeldBy(row, q) <= row.amount /\ SettledBy(row, q) \in Nat
        BY <1>2 DEF HeldBy, SettledBy
    <2>3. totalRefunded(rows, q) = totalRefunded(refund, q)
                                     + HeldBy(row, q) - HeldBy(refund[r], q)
        BY TotalUpdate, Facts
    <2>4. SettledIn(rows, q) = SettledIn(refund, q)
                                 + SettledBy(row, q) - SettledBy(refund[r], q)
        BY SettledUpdate, Facts
    <2>5. SettledIn(refund, q) \in Int /\ Settled(q) = SettledIn(refund, q)
        BY SettledUpdate, Facts
    <2>6. /\ totalRefunded(refund, q) \in Int
          /\ totalRefunded(refund, q) <= Amount(q) /\ Amount(q) \in Nat
        BY Facts
    <2> HIDE DEF rows
    <2>7. totalRefunded(rows, q) = totalRefunded(refund, q) + HeldBy(row, q)
        BY <2>1, <2>2, <2>3, <2>6
    <2>8. SettledIn(rows, q) = Settled(q) + SettledBy(row, q)
        BY <2>1, <2>2, <2>4, <2>5
    <2>9. CASE q = row.payment
        BY <1>2, <2>2, <2>6, <2>7, <2>8, <2>9
    <2>10. CASE q # row.payment
        BY <2>2, <2>6, <2>7, <2>8, <2>10
    <2>11. QED
        BY <2>9, <2>10
<1> HIDE DEF rows
<1>6. QED
    BY <1>1, <1>2, <1>3, <1>4, <1>5 DEF rows

(***************************************************************************)
(* What settling a refund of p does to the payments: p's status, and its   *)
(* amount_refunded becomes the total of the new table.                     *)
(***************************************************************************)
LEMMA SettleEffects ==
    ASSUME IInv, NEW p \in Payments, NEW amount \in Int,
           NEW rows, rows \in [RefundRows -> RefundRow],
           totalRefunded(rows, p) \in Int,
           SettleRefund(p, amount, rows)
    PROVE  /\ payment' \in [Payments -> PaymentRow]
           /\ balance' \in [Payments -> [Accounts -> Int]]
           /\ \A q \in Payments : payment'[q].charge = payment[q].charge
           /\ \A q \in Payments \ {p} : payment'[q] = payment[q]
           /\ payment'[p].amountRefunded = totalRefunded(rows, p)
           /\ payment'[p].status \in {"partially_refunded", "refunded"}
<1> DEFINE total == totalRefunded(rows, p)
           next == refundedStatus(Amount(p), total)
<1>1. next \in {"partially_refunded", "refunded"}
    BY DEF refundedStatus
<1>2. payment' = [payment EXCEPT ![p].status = next, ![p].amountRefunded = total]
    BY DEF SettleRefund
<1>3. payment \in [Payments -> PaymentRow] /\ total \in Int
    BY DEF IInv, TypeOK
<1> HIDE DEF total, next
<1>4. payment' \in [Payments -> PaymentRow]
    BY <1>1, <1>2, <1>3 DEF PaymentRow, PaymentStatus
<1>5. payment'[p].status = next /\ payment'[p].amountRefunded = total
    BY <1>2, <1>3 DEF PaymentRow
<1>6. /\ \A q \in Payments : payment'[q].charge = payment[q].charge
      /\ \A q \in Payments \ {p} : payment'[q] = payment[q]
    BY <1>2, <1>3 DEF PaymentRow
<1>7. balance' \in [Payments -> [Accounts -> Int]]
    BY DEF SettleRefund, Credit, Refunder, Accounts, IInv, TypeOK
<1>8. QED
    BY <1>1, <1>4, <1>5, <1>6, <1>7 DEF total

(***************************************************************************)
(* A pending refund keeps the invariant.                                   *)
(***************************************************************************)
LEMMA CreateRefundStep ==
    ASSUME IInv, NEW p \in Payments, NEW amount \in RefundAmounts,
           CreateRefund(p, amount)
    PROVE  IInv'
<1> DEFINE row == NewRefund(p, amount, NoDispute, "pending")
<1>1. /\ row \in RefundRow /\ row.payment = p /\ row.amount = amount
      /\ row.status = "pending" /\ row.status \in RefundStatus
      /\ row.dispute = NoDispute
    BY RefundAmountsAssumption DEF NewRefund, RefundRow, RefundStatus
<1>2. PICK r \in RefundRows : /\ refund[r].status = "none"
                              /\ refund' = [refund EXCEPT ![r] = row]
    BY DEF CreateRefund, FreeRefunds
<1>3. MayRefund(row.payment, row.amount)
    BY <1>1 DEF CreateRefund
<1>4. \A q \in Payments : SettledBy(row, q) = 0
    BY <1>1 DEF SettledBy
<1> HIDE DEF row
<1>5. /\ row.amount \in Nat /\ refund[r] = EmptyRefund
      /\ refund' \in [RefundRows -> RefundRow]
      /\ \A q \in RefundRows : refund'[q].amount \in Nat
      /\ \A q \in Payments : /\ totalRefunded(refund', q) <= Amount(q)
                             /\ SettledIn(refund', q) = Settled(q) + SettledBy(row, q)
    BY <1>1, <1>2, <1>3, NewRefundTotals
<1>6. \A q \in Payments : SettledIn(refund', q) = Settled(q)
    <2>1. \A q \in Payments : Settled(q) \in Int
        BY SettledUpdate, Facts, <1>1, <1>2
    <2>2. QED
        BY <1>4, <1>5, <2>1
<1>7. UNCHANGED <<payment, dispute, balance, collected, reopened>>
    BY DEF CreateRefund
<1>8. TypeOK'
    BY <1>5, <1>7 DEF IInv, TypeOK
<1>9. RowsOwned'
    BY <1>1, <1>2, <1>5, <1>7 DEF IInv, RowsOwned
<1>10. RefundsWithinAmount' /\ AmountRefundedCovers'
    <2>1. \A q \in Payments : Amount(q)' = Amount(q)
        BY <1>7 DEF Amount
    <2>2. \A q \in Payments : totalRefunded(refund, q)' = totalRefunded(refund', q)
        BY DEF totalRefunded
    <2>3. \A q \in Payments : Settled(q)' = SettledIn(refund', q)
        BY DEF Settled, SettledIn
    <2>4. QED
        BY <1>5, <1>6, <1>7, <2>1, <2>2, <2>3, Facts
           DEF RefundsWithinAmount, AmountRefundedCovers
<1>11. CreditsUsed'
    BY <1>7 DEF IInv, CreditsUsed
<1>12. DisputeRefundedOnce'
    <2>1. \A q \in RefundRows, d \in Disputes :
              refund'[q].dispute = d => refund'[q] = refund[q]
        BY <1>1, <1>2, NullAssumption, Facts
    <2>2. QED
        BY <1>7, <2>1 DEF IInv, DisputeRefundedOnce
<1>13. QED
    BY <1>8, <1>9, <1>10, <1>11, <1>12 DEF IInv

(***************************************************************************)
(* A refund that moves keeps the totals: it was counted before it settles  *)
(* and its failure gives its amount back.                                  *)
(***************************************************************************)
LEMMA MovedRefundTotals ==
    ASSUME IInv, NEW r \in RefundRows, NEW to \in RefundStatus,
           refund[r].status \in RefundStatus,
           assertRefundTransition(refund[r].status, to),
           NEW row \in RefundRow, row.status = to,
           row.payment = refund[r].payment, row.amount = refund[r].amount
    PROVE  /\ row.amount \in Nat
           /\ refund[r].status # "successful"
           /\ refund[r].payment \in Payments
           /\ \A q \in Payments :
                 /\ totalRefunded([refund EXCEPT ![r] = row], q) \in Int
                 /\ totalRefunded([refund EXCEPT ![r] = row], q) <= Amount(q)
                 /\ SettledIn([refund EXCEPT ![r] = row], q)
                       = Settled(q) + SettledBy(row, q)
<1>1. refund[r] \in RefundRow /\ refund[r].amount \in Nat
    BY Facts
<1>3. refund[r].status # "failed" /\ refund[r].status # "successful"
    BY DEF assertRefundTransition, REFUND_TRANSITIONS
<1>4. refund[r].payment \in Payments
    BY DEF IInv, RowsOwned, RefundStatus
<1>5. ASSUME NEW q \in Payments
      PROVE  /\ totalRefunded([refund EXCEPT ![r] = row], q) \in Int
             /\ totalRefunded([refund EXCEPT ![r] = row], q) <= Amount(q)
             /\ SettledIn([refund EXCEPT ![r] = row], q)
                   = Settled(q) + SettledBy(row, q)
    <2>1. /\ HeldBy(row, q) \in Nat /\ HeldBy(refund[r], q) \in Nat
          /\ HeldBy(row, q) <= HeldBy(refund[r], q)
          /\ SettledBy(refund[r], q) = 0 /\ SettledBy(row, q) \in Nat
        BY <1>1, <1>3 DEF HeldBy, SettledBy
    <2>2. totalRefunded([refund EXCEPT ![r] = row], q)
              = totalRefunded(refund, q) + HeldBy(row, q) - HeldBy(refund[r], q)
        BY TotalUpdate, Facts
    <2>3. SettledIn([refund EXCEPT ![r] = row], q)
              = SettledIn(refund, q) + SettledBy(row, q) - SettledBy(refund[r], q)
        BY SettledUpdate, Facts
    <2>4. SettledIn(refund, q) \in Int /\ Settled(q) = SettledIn(refund, q)
        BY SettledUpdate, Facts
    <2>5. /\ totalRefunded(refund, q) \in Int
          /\ totalRefunded(refund, q) <= Amount(q) /\ Amount(q) \in Nat
        BY Facts
    <2>6. QED
        BY <2>1, <2>2, <2>3, <2>4, <2>5
<1>6. QED
    BY <1>1, <1>3, <1>4, <1>5

(***************************************************************************)
(* A table whose totals are within every payment, with one more settled    *)
(* refund of p, keeps the invariant's parts about refunds.                 *)
(***************************************************************************)
LEMMA SettleTotals ==
    ASSUME IInv, NEW p \in Payments, NEW row \in RefundRow,
           row.payment = p, row.status = "successful", row.amount \in Nat,
           refund' \in [RefundRows -> RefundRow],
           \A r \in RefundRows : refund'[r].amount \in Nat,
           \A q \in Payments : /\ totalRefunded(refund', q) \in Int
                               /\ totalRefunded(refund', q) <= Amount(q)
                               /\ SettledIn(refund', q) = Settled(q) + SettledBy(row, q),
           SettleRefund(p, row.amount, refund')
    PROVE  RefundsWithinAmount' /\ AmountRefundedCovers'
<1>1. /\ \A q \in Payments : payment'[q].charge = payment[q].charge
      /\ \A q \in Payments \ {p} : payment'[q] = payment[q]
      /\ payment'[p].amountRefunded = totalRefunded(refund', p)
    <2> DEFINE rows == refund'
    <2>1. rows \in [RefundRows -> RefundRow] /\ totalRefunded(rows, p) \in Int
          /\ row.amount \in Int /\ SettleRefund(p, row.amount, rows)
        OBVIOUS
    <2> HIDE DEF rows
    <2>2. QED
        BY <2>1, SettleEffects DEF rows
<1>2. \A q \in Payments : Amount(q)' = Amount(q)
    BY <1>1 DEF Amount
<1>3. \A q \in Payments : totalRefunded(refund, q)' = totalRefunded(refund', q)
    BY DEF totalRefunded
<1>4. \A q \in Payments : Settled(q)' = SettledIn(refund', q)
    BY DEF Settled, SettledIn
<1>5. RefundsWithinAmount'
    BY <1>2, <1>3 DEF RefundsWithinAmount
<1>6. ASSUME NEW q \in Payments
      PROVE  Settled(q)' <= payment'[q].amountRefunded
             /\ payment'[q].amountRefunded <= Amount(q)'
    <2>1. CASE q = p
        <3>1. SettledIn(refund', p) <= totalRefunded(refund', p)
            BY SettledWithinTotal
        <3>2. QED
            BY <1>1, <1>2, <1>4, <2>1, <3>1
    <2>2. CASE q # p
        <3>1. SettledBy(row, q) = 0
            BY <2>2 DEF SettledBy
        <3>2. Settled(q) \in Int
            BY Facts
        <3>3. payment'[q] = payment[q]
            BY <1>1, <2>2
        <3>4. Settled(q)' = Settled(q)
            BY <1>4, <3>1, <3>2
        <3>5. QED
            BY <1>2, <3>3, <3>4, Facts
    <2>3. QED
        BY <2>1, <2>2
<1>7. QED
    BY <1>5, <1>6 DEF AmountRefundedCovers

(***************************************************************************)
(* A payment that a refund settled may have used one credit more.          *)
(***************************************************************************)
LEMMA SettledCredits ==
    ASSUME IInv, NEW p \in Payments, UNCHANGED <<collected, reopened>>,
           \A q \in Payments \ {p} : payment'[q] = payment[q],
           payment'[p].status \in {"partially_refunded", "refunded"}
    PROVE  CreditsUsed'
<1>1. SUFFICES ASSUME NEW q \in Payments
               PROVE  collected[q] <= reopened[q] +
                         (IF payment'[q].status \in SettledStatus THEN 1 ELSE 0)
    BY DEF CreditsUsed
<1>2. /\ collected[q] <= reopened[q] +
            (IF payment[q].status \in SettledStatus THEN 1 ELSE 0)
      /\ collected[q] \in Nat /\ reopened[q] \in Nat
    BY Facts DEF IInv, CreditsUsed
<1>3. CASE q = p
    <2>1. payment'[q].status \in SettledStatus
        BY <1>3 DEF SettledStatus
    <2>2. QED
        BY <1>2, <2>1
<1>4. CASE q # p
    BY <1>2, <1>4
<1>5. QED
    BY <1>3, <1>4

(***************************************************************************)
(* A refund that moves, settling or not, keeps the invariant.              *)
(***************************************************************************)
LEMMA TransitionRefundStep ==
    ASSUME IInv, NEW r \in RefundRows, NEW to \in RefundStatus,
           TransitionRefund(r, to)
    PROVE  IInv'
<1> DEFINE row == [refund[r] EXCEPT !.status = to]
           p == refund[r].payment
<1>1. /\ refund[r] \in RefundRow /\ refund[r].status \in RefundStatus
      /\ assertRefundTransition(refund[r].status, to)
    BY Facts DEF TransitionRefund, RefundRow
<1>2. /\ row \in RefundRow /\ row.status = to
      /\ row.payment = refund[r].payment /\ row.amount = refund[r].amount
      /\ row.dispute = refund[r].dispute
    BY <1>1 DEF RefundRow
<1>3. refund' = [refund EXCEPT ![r] = row]
    BY Facts DEF TransitionRefund
<1>4. /\ UNCHANGED <<dispute, collected, reopened>>
      /\ to = "successful" => SettleRefund(p, refund[r].amount, refund')
      /\ to # "successful" => UNCHANGED <<payment, balance>>
    BY DEF TransitionRefund
<1> HIDE DEF row
<1>5. /\ row.amount \in Nat
      /\ refund[r].status # "successful"
      /\ p \in Payments
      /\ \A q \in Payments :
            /\ totalRefunded(refund', q) \in Int
            /\ totalRefunded(refund', q) <= Amount(q)
            /\ SettledIn(refund', q) = Settled(q) + SettledBy(row, q)
    BY <1>1, <1>2, <1>3, MovedRefundTotals
<1>6. /\ refund' \in [RefundRows -> RefundRow]
      /\ \A q \in RefundRows : refund'[q].amount \in Nat
    BY <1>2, <1>3, <1>5, Facts
<1>7. RowsOwned'
    <2>1. \A q \in RefundRows :
              IF refund'[q].status = "none" THEN refund'[q] = EmptyRefund
              ELSE refund'[q].payment \in Payments
        <3>1. \A q \in RefundRows : q # r => refund'[q] = refund[q]
            BY <1>3, Facts
        <3>2. refund'[r].status # "none" /\ refund'[r].payment \in Payments
            BY <1>2, <1>3, <1>5, Facts DEF RefundStatus
        <3>3. QED
            BY <3>1, <3>2 DEF IInv, RowsOwned
    <2>2. QED
        BY <1>4, <1>6, <2>1 DEF IInv, RowsOwned
<1>8. DisputeRefundedOnce'
    <2>1. \A q \in RefundRows, d \in Disputes :
              refund'[q].dispute = d => q # r
        <3>1. \A d \in Disputes : refund[r].dispute = d => refund[r].status = "successful"
            BY DEF IInv, DisputeRefundedOnce
        <3>2. refund'[r].dispute = refund[r].dispute
            BY <1>2, <1>3, Facts
        <3>3. QED
            BY <1>5, <3>1, <3>2
    <2>2. \A q \in RefundRows : q # r => refund'[q] = refund[q]
        BY <1>3, Facts
    <2>3. QED
        BY <1>4, <2>1, <2>2 DEF IInv, DisputeRefundedOnce
<1>9. CASE to = "successful"
    <2>1. SettleRefund(p, row.amount, refund')
        BY <1>2, <1>4, <1>9
    <2>2. RefundsWithinAmount' /\ AmountRefundedCovers'
        BY <1>2, <1>5, <1>6, <1>9, <2>1, SettleTotals
    <2>3. /\ payment' \in [Payments -> PaymentRow]
          /\ balance' \in [Payments -> [Accounts -> Int]]
          /\ \A q \in Payments \ {p} : payment'[q] = payment[q]
          /\ payment'[p].status \in {"partially_refunded", "refunded"}
        BY <1>5, <1>6, <2>1, SettleEffects
    <2>4. TypeOK'
        BY <1>4, <1>6, <2>3 DEF IInv, TypeOK
    <2>5. CreditsUsed'
        BY <1>4, <1>5, <2>3, SettledCredits
    <2>6. QED
        BY <1>7, <1>8, <2>2, <2>4, <2>5 DEF IInv
<1>10. CASE to # "successful"
    <2>1. UNCHANGED <<payment, balance, dispute, collected, reopened>>
        BY <1>4, <1>10
    <2>2. TypeOK'
        BY <1>6, <2>1 DEF IInv, TypeOK
    <2>3. CreditsUsed'
        BY <2>1 DEF IInv, CreditsUsed
    <2>4. \A q \in Payments : Amount(q)' = Amount(q)
        BY <2>1 DEF Amount
    <2>5. \A q \in Payments : Settled(q)' = Settled(q)
        <3>1. \A q \in Payments : SettledBy(row, q) = 0
            BY <1>2, <1>10 DEF SettledBy
        <3>2. \A q \in Payments : Settled(q)' = SettledIn(refund', q)
            BY DEF Settled, SettledIn
        <3>3. QED
            BY <1>5, <3>1, <3>2, Facts
    <2>6. \A q \in Payments : totalRefunded(refund, q)' = totalRefunded(refund', q)
        BY DEF totalRefunded
    <2>7. RefundsWithinAmount' /\ AmountRefundedCovers'
        BY <1>5, <2>1, <2>4, <2>5, <2>6, Facts
           DEF RefundsWithinAmount, AmountRefundedCovers
    <2>8. QED
        BY <1>7, <1>8, <2>2, <2>3, <2>7 DEF IInv
<1>11. QED
    BY <1>9, <1>10

-----------------------------------------------------------------------------
(***************************************************************************)
(* A step that only moves a dispute that is not resolved.                  *)
(***************************************************************************)
LEMMA DisputeRowStep ==
    ASSUME IInv, UNCHANGED <<payment, refund, balance, collected, reopened>>,
           NEW d \in Disputes, NEW row \in DisputeRow,
           dispute[d].status # "resolved",
           row.status # "none" => row.payment \in Payments,
           dispute' = [dispute EXCEPT ![d] = row]
    PROVE  IInv'
<1>1. TypeOK'
    BY DEF IInv, TypeOK
<1>2. RowsOwned'
    BY DEF IInv, RowsOwned, TypeOK
<1>3. RefundsWithinAmount' /\ AmountRefundedCovers'
    BY SameRefunds
<1>4. CreditsUsed'
    BY DEF IInv, CreditsUsed
<1>5. DisputeRefundedOnce'
    <2>1. \A r \in RefundRows : refund[r].dispute # d
        BY DEF IInv, DisputeRefundedOnce
    <2>2. \A e \in Disputes : e # d => dispute'[e] = dispute[e]
        BY DEF IInv, TypeOK
    <2>3. QED
        BY <2>1, <2>2 DEF IInv, DisputeRefundedOnce
<1>6. QED
    BY <1>1, <1>2, <1>3, <1>4, <1>5 DEF IInv

(***************************************************************************)
(* Opening a dispute keeps the invariant.                                  *)
(***************************************************************************)
LEMMA CreateDisputeStep ==
    ASSUME IInv, NEW d \in Disputes, NEW p \in Payments,
           NEW amount \in RefundAmounts, CreateDispute(d, p, amount)
    PROVE  IInv'
<1> DEFINE row == [status |-> "awaiting_merchant_feedback", payment |-> p,
                   amount |-> amount, resolution |-> "none"]
<1>1. row \in DisputeRow /\ row.payment = p
    BY RefundAmountsAssumption DEF DisputeRow, DisputeStatus, Resolutions
<1>2. /\ UNCHANGED <<payment, refund, balance, collected, reopened>>
      /\ dispute[d].status # "resolved"
      /\ dispute' = [dispute EXCEPT ![d] = row]
    BY DEF CreateDispute
<1> HIDE DEF row
<1>3. QED
    BY <1>1, <1>2, DisputeRowStep

(***************************************************************************)
(* Moving a dispute keeps the invariant.                                   *)
(***************************************************************************)
LEMMA TransitionDisputeStep ==
    ASSUME IInv, NEW d \in Disputes, NEW to \in DisputeStatus,
           NEW resolution \in Resolutions, TransitionDispute(d, to, resolution)
    PROVE  IInv'
<1> DEFINE row == [dispute[d] EXCEPT !.status = to, !.resolution = resolution]
<1>1. dispute[d] \in DisputeRow /\ dispute \in [Disputes -> DisputeRow]
    BY DEF IInv, TypeOK
<1>2. row \in DisputeRow /\ row.payment = dispute[d].payment
    BY <1>1 DEF DisputeRow
<1>3. dispute[d].payment \in Payments
    BY DEF TransitionDispute, IInv, RowsOwned
<1>4. /\ UNCHANGED <<payment, refund, balance, collected, reopened>>
      /\ dispute' = [dispute EXCEPT ![d] = row]
    BY <1>1 DEF TransitionDispute
<1> HIDE DEF row
<1>5. dispute[d].status # "resolved"
    <2>1. to \in DISPUTE_TRANSITIONS[dispute[d].status]
        BY DEF TransitionDispute, assertDisputeTransition
    <2>2. DISPUTE_TRANSITIONS["resolved"] = {}
        BY DEF DISPUTE_TRANSITIONS, DisputeStatus
    <2>3. QED
        BY <2>1, <2>2
<1>6. QED
    BY <1>2, <1>3, <1>4, <1>5, DisputeRowStep

(***************************************************************************)
(* Resolving a dispute keeps the invariant, with its refund or without.    *)
(***************************************************************************)
LEMMA ResolveDisputeStep ==
    ASSUME IInv, NEW d \in Disputes, NEW amount \in RefundAmounts,
           NEW resolution \in {"merchant-accepted", "declined"},
           ResolveDispute(d, resolution, amount)
    PROVE  IInv'
<1> DEFINE case == [dispute[d] EXCEPT !.status = "resolved",
                                      !.resolution = resolution, !.amount = amount]
           p == dispute[d].payment
<1>1. dispute[d] \in DisputeRow /\ dispute \in [Disputes -> DisputeRow]
    BY DEF IInv, TypeOK
<1>2. /\ case \in DisputeRow /\ case.payment = p /\ case.status = "resolved"
      /\ case.resolution = resolution /\ case.amount = amount
    BY <1>1, RefundAmountsAssumption DEF DisputeRow, DisputeStatus, Resolutions
<1>3. p \in Payments
    BY DEF ResolveDispute, MayResolve, IInv, RowsOwned
<1>4. /\ UNCHANGED <<collected, reopened>>
      /\ dispute[d].status # "resolved"
      /\ dispute' = [dispute EXCEPT ![d] = case]
    BY <1>1 DEF ResolveDispute, MayResolve
<1> HIDE DEF case, p
<1>5. CASE resolution = "merchant-accepted" /\ amount > 0
    <2> DEFINE row == NewRefund(p, amount, d, "successful")
    <2>1. /\ row \in RefundRow /\ row.payment = p /\ row.amount = amount
          /\ row.status = "successful" /\ row.status \in RefundStatus
          /\ row.dispute = d
        BY <1>3, RefundAmountsAssumption DEF NewRefund, RefundRow, RefundStatus
    <2>2. MayRefund(row.payment, row.amount)
        BY <1>5, <2>1 DEF ResolveDispute, p
    <2>3. PICK r \in RefundRows :
              /\ refund[r].status = "none"
              /\ refund' = [refund EXCEPT ![r] = row]
              /\ SettleRefund(p, amount, refund')
        BY <1>5 DEF ResolveDispute, FreeRefunds, p
    <2> HIDE DEF row
    <2>4. /\ row.amount \in Nat /\ refund[r] = EmptyRefund
          /\ refund' \in [RefundRows -> RefundRow]
          /\ \A q \in RefundRows : refund'[q].amount \in Nat
          /\ \A q \in Payments :
                /\ totalRefunded(refund', q) \in Int
                /\ totalRefunded(refund', q) <= Amount(q)
                /\ SettledIn(refund', q) = Settled(q) + SettledBy(row, q)
        BY <1>3, <2>1, <2>2, <2>3, NewRefundTotals
    <2>5. RefundsWithinAmount' /\ AmountRefundedCovers'
        BY <1>3, <2>1, <2>3, <2>4, SettleTotals
    <2>6. /\ payment' \in [Payments -> PaymentRow]
          /\ balance' \in [Payments -> [Accounts -> Int]]
          /\ \A q \in Payments \ {p} : payment'[q] = payment[q]
          /\ payment'[p].status \in {"partially_refunded", "refunded"}
        <3>1. amount \in Int
            BY RefundAmountsAssumption
        <3>2. QED
            BY <1>3, <2>3, <2>4, <3>1, SettleEffects
    <2>7. TypeOK'
        BY <1>2, <1>4, <2>4, <2>6 DEF IInv, TypeOK
    <2>8. CreditsUsed'
        BY <1>3, <1>4, <2>6, SettledCredits
    <2>9. RowsOwned'
        <3>1. \A q \in RefundRows :
                  IF refund'[q].status = "none" THEN refund'[q] = EmptyRefund
                  ELSE refund'[q].payment \in Payments
            BY <1>3, <2>1, <2>3, Facts DEF IInv, RowsOwned
        <3>2. \A e \in Disputes : dispute'[e].status # "none"
                                     => dispute'[e].payment \in Payments
            BY <1>1, <1>2, <1>3, <1>4 DEF IInv, RowsOwned
        <3>3. QED
            BY <2>4, <3>1, <3>2 DEF RowsOwned
    <2>10. DisputeRefundedOnce'
        <3>1. \A q \in RefundRows : refund[q].dispute # d
            BY <1>4 DEF IInv, DisputeRefundedOnce
        <3>2. \A q \in RefundRows : q # r => refund'[q] = refund[q]
            BY <2>3, Facts
        <3>3. refund'[r] = row
            BY <2>3, Facts
        <3>4. \A e \in Disputes : e # d => dispute'[e] = dispute[e]
            BY <1>1, <1>4
        <3>5. dispute'[d] = case
            BY <1>1, <1>4
        <3>6. ASSUME NEW e \in Disputes, NEW q \in RefundRows, refund'[q].dispute = e
              PROVE  /\ dispute'[e].status = "resolved"
                     /\ dispute'[e].resolution = "merchant-accepted"
                     /\ refund'[q].status = "successful"
                     /\ refund'[q].amount = dispute'[e].amount
            <4>1. CASE q = r
                BY <1>2, <1>5, <2>1, <3>3, <3>5, <3>6, <4>1
            <4>2. CASE q # r
                <5>1. refund[q].dispute = e /\ e # d
                    BY <3>1, <3>2, <3>6, <4>2
                <5>2. QED
                    BY <3>2, <3>4, <4>2, <5>1 DEF IInv, DisputeRefundedOnce
            <4>3. QED
                BY <4>1, <4>2
        <3>7. ASSUME NEW e \in Disputes, NEW q \in RefundRows, NEW k \in RefundRows,
                     refund'[q].dispute = e, refund'[k].dispute = e
              PROVE  q = k
            <4>1. CASE e = d
                BY <3>1, <3>2, <3>7, <4>1
            <4>2. CASE e # d
                <5>1. q # r /\ k # r
                    BY <2>1, <3>3, <3>7, <4>2
                <5>2. QED
                    BY <3>2, <3>7, <5>1 DEF IInv, DisputeRefundedOnce
            <4>3. QED
                BY <4>1, <4>2
        <3>8. QED
            BY <3>6, <3>7 DEF DisputeRefundedOnce
    <2>11. QED
        BY <2>5, <2>7, <2>8, <2>9, <2>10 DEF IInv
<1>6. CASE ~ (resolution = "merchant-accepted" /\ amount > 0)
    <2>1. UNCHANGED <<payment, refund, balance, collected, reopened>>
        BY <1>6 DEF ResolveDispute
    <2>2. QED
        BY <1>2, <1>3, <1>4, <2>1, DisputeRowStep
<1>7. QED
    BY <1>5, <1>6

-----------------------------------------------------------------------------
(***************************************************************************)
(* The initial states satisfy the inductive invariant.                     *)
(***************************************************************************)
LEMMA InitIInv == Init => IInv
<1> SUFFICES ASSUME Init
             PROVE  IInv
    OBVIOUS
<1>1. TypeOK
    BY RefundAmountsAssumption, 0 \in Int
       DEF Init, TypeOK, PaymentRow, RefundRow, DisputeRow, EmptyRefund,
           EmptyDispute, Resolutions, Accounts
<1>2. RowsOwned
    BY DEF Init, RowsOwned, EmptyRefund, EmptyDispute
<1>3. RefundsWithinAmount /\ AmountRefundedCovers
    <2>1. \A p \in Payments : totalRefunded(refund, p) = 0 /\ Settled(p) = 0
        BY NoRefunds DEF Init, Settled, SettledIn
    <2>2. \A p \in Payments : payment[p].amountRefunded = 0 /\ Amount(p) \in Nat
        BY ChargesAssumption DEF Init, Amount
    <2>3. QED
        BY <2>1, <2>2 DEF RefundsWithinAmount, AmountRefundedCovers
<1>4. CreditsUsed
    BY DEF Init, CreditsUsed, SettledStatus
<1>5. DisputeRefundedOnce
    BY NullAssumption DEF Init, DisputeRefundedOnce, EmptyRefund
<1>6. QED
    BY <1>1, <1>2, <1>3, <1>4, <1>5 DEF IInv

(***************************************************************************)
(* Every step keeps the inductive invariant.                               *)
(***************************************************************************)
LEMMA StepIInv == IInv /\ [Next]_vars => IInv'
<1> SUFFICES ASSUME IInv, [Next]_vars
             PROVE  IInv'
    OBVIOUS
<1>1. ASSUME NEW p \in Payments, NEW to \in PaymentStatus, CreatePayment(p, to)
      PROVE  IInv'
    BY <1>1, CreatePaymentStep
<1>2. ASSUME NEW p \in Payments, NEW to \in PaymentStatus, OrdinaryMove(p, to)
      PROVE  IInv'
    <2>1. /\ transitionPayment(p, to, FALSE, FALSE) /\ reopened' = reopened
          /\ to \in OrdinaryTargets
          /\ payment[p].status \in PaymentStatus
        BY <1>2, Facts DEF OrdinaryMove, transitionPayment, PaymentRow
    <2>2. payment[p].status \notin SettledStatus
        BY <2>1 DEF transitionPayment, assertPaymentTransition, OrdinaryTargets,
                    canTransitionPayment, PAYMENT_TRANSITIONS, SettledStatus
    <2>3. QED
        BY <2>1, <2>2, TransitionPaymentStep
<1>3. ASSUME NEW p \in Payments, NEW to \in PaymentStatus, Retry(p, to)
      PROVE  IInv'
    <2>1. /\ transitionPayment(p, to, FALSE, TRUE) /\ reopened' = reopened
          /\ payment[p].status \notin SettledStatus
        BY <1>3 DEF Retry, SettledStatus
    <2>2. QED
        BY <2>1, TransitionPaymentStep
<1>4. ASSUME NEW p \in Payments, NEW to \in PaymentStatus, ScenarioStep(p, to)
      PROVE  IInv'
    <2>1. /\ transitionPayment(p, to, TRUE, FALSE)
          /\ payment[p].status \in PaymentStatus
        BY <1>4, Facts DEF ScenarioStep, PaymentRow
    <2>2. CASE canTransitionPayment(payment[p].status, to)
        <3>1. \/ payment[p].status \notin SettledStatus
              \/ to # "successful" /\ to \in SettledStatus
            BY <2>1, <2>2 DEF canTransitionPayment, PAYMENT_TRANSITIONS, SettledStatus
        <3>2. reopened' = reopened
            BY <1>4, <2>2 DEF ScenarioStep
        <3>3. QED
            BY <2>1, <3>1, <3>2, TransitionPaymentStep
    <2>3. CASE ~ canTransitionPayment(payment[p].status, to)
        <3>1. reopened' = [reopened EXCEPT ![p] = @ + 1]
            BY <1>4, <2>3 DEF ScenarioStep
        <3>2. QED
            BY <2>1, <3>1, TransitionPaymentStep
    <2>4. QED
        BY <2>2, <2>3
<1>5. ASSUME NEW p \in Payments, NEW amount \in RefundAmounts, CreateRefund(p, amount)
      PROVE  IInv'
    BY <1>5, CreateRefundStep
<1>6. ASSUME NEW r \in RefundRows, NEW to \in RefundStatus, TransitionRefund(r, to)
      PROVE  IInv'
    BY <1>6, TransitionRefundStep
<1>7. ASSUME NEW d \in Disputes, NEW p \in Payments, NEW amount \in RefundAmounts,
             CreateDispute(d, p, amount)
      PROVE  IInv'
    BY <1>7, CreateDisputeStep
<1>8. ASSUME NEW d \in Disputes, NEW to \in DisputeStatus,
             NEW resolution \in Resolutions, TransitionDispute(d, to, resolution)
      PROVE  IInv'
    BY <1>8, TransitionDisputeStep
<1>9. ASSUME NEW d \in Disputes, NEW amount \in RefundAmounts,
             NEW resolution \in {"merchant-accepted", "declined"},
             ResolveDispute(d, resolution, amount)
      PROVE  IInv'
    BY <1>9, ResolveDisputeStep
<1>10. CASE UNCHANGED vars
    <2> USE <1>10 DEF vars
    <2>1. TypeOK' /\ RowsOwned'
        BY DEF IInv, TypeOK, RowsOwned
    <2>2. RefundsWithinAmount' /\ AmountRefundedCovers'
        BY SameRefunds
    <2>3. CreditsUsed' /\ DisputeRefundedOnce'
        BY DEF IInv, CreditsUsed, DisputeRefundedOnce
    <2>4. QED
        BY <2>1, <2>2, <2>3 DEF IInv
<1>11. QED
    BY <1>1, <1>2, <1>3, <1>4, <1>5, <1>6, <1>7, <1>8, <1>9, <1>10 DEF Next

(***************************************************************************)
(* The inductive invariant holds in every reachable state.                 *)
(***************************************************************************)
THEOREM Invariance == Spec => []IInv
<1>1. Init => IInv
    BY InitIInv
<1>2. IInv /\ [Next]_vars => IInv'
    BY StepIInv
<1>3. QED
    BY <1>1, <1>2, PTL DEF Spec

(***************************************************************************)
(* Type correctness.                                                       *)
(***************************************************************************)
THEOREM TypeCorrect == Spec => []TypeOK
<1>1. IInv => TypeOK
    BY DEF IInv
<1>2. QED
    BY <1>1, Invariance, PTL

(***************************************************************************)
(* However refunds, disputes and settlements interleave, the refunds of a  *)
(* payment that have not failed never exceed it.                           *)
(***************************************************************************)
THEOREM NoOverRefund == Spec => []RefundsWithinAmount
<1>1. IInv => RefundsWithinAmount
    BY DEF IInv
<1>2. QED
    BY <1>1, Invariance, PTL

(***************************************************************************)
(* What the payment row says was refunded covers what was settled, and     *)
(* never exceeds the payment.                                              *)
(***************************************************************************)
THEOREM AmountRefundedIsSound == Spec => []AmountRefundedCovers
<1>1. IInv => AmountRefundedCovers
    BY DEF IInv
<1>2. QED
    BY <1>1, Invariance, PTL

(***************************************************************************)
(* Without a reversal a payment is credited once, over any sequence of     *)
(* declines, retries, captures, refunds and disputes.                      *)
(***************************************************************************)
THEOREM CreditedOnce == Spec => []CollectedOncePerReversal
<1>1. IInv => CollectedOncePerReversal
    <2>1. SUFFICES ASSUME IInv, NEW p \in Payments
                   PROVE  collected[p] <= 1 + reopened[p]
        BY DEF CollectedOncePerReversal
    <2>2. /\ collected[p] <= reopened[p] +
                (IF payment[p].status \in SettledStatus THEN 1 ELSE 0)
          /\ collected[p] \in Nat /\ reopened[p] \in Nat
        <3>1. CreditsUsed /\ TypeOK
            BY <2>1 DEF IInv
        <3>2. QED
            BY <3>1 DEF CreditsUsed, TypeOK
    <2>3. QED
        BY <2>2
<1>2. QED
    BY <1>1, Invariance, PTL

(***************************************************************************)
(* A dispute never raises two refunds, nor one it does not settle.         *)
(***************************************************************************)
THEOREM DisputeRefundsOnce == Spec => []DisputeRefundedOnce
<1>1. IInv => DisputeRefundedOnce
    BY DEF IInv
<1>2. QED
    BY <1>1, Invariance, PTL

(***************************************************************************)
(* A settled refund and a resolved dispute are final, and a refund row     *)
(* keeps its amount.                                                       *)
(***************************************************************************)
THEOREM SettlementsAreFinal == Spec => SettlementIsFinal
<1> DEFINE Final ==
      /\ \A r \in RefundRows :
           /\ refund[r].status = "successful" => refund'[r] = refund[r]
           /\ refund[r].status # "none" => refund'[r].amount = refund[r].amount
      /\ \A d \in Disputes :
           dispute[d].status = "resolved" => dispute'[d] = dispute[d]
<1>1. ASSUME IInv, [Next]_vars
      PROVE  Final
    <2>1. refund \in [RefundRows -> RefundRow] /\ dispute \in [Disputes -> DisputeRow]
        BY <1>1 DEF IInv, TypeOK
    <2>2. CASE UNCHANGED <<refund, dispute>>
        BY <2>2
    <2>3. ASSUME NEW d \in Disputes, NEW row, dispute[d].status # "resolved",
                 dispute' = [dispute EXCEPT ![d] = row]
          PROVE  \A e \in Disputes :
                    dispute[e].status = "resolved" => dispute'[e] = dispute[e]
        BY <2>1, <2>3
    <2>4. ASSUME NEW r \in RefundRows, NEW row, refund[r].status = "none",
                 refund' = [refund EXCEPT ![r] = row]
          PROVE  \A q \in RefundRows :
                    refund[q].status # "none" => refund'[q] = refund[q]
        BY <2>1, <2>4
    <2>5. ASSUME NEW p \in Payments, NEW amount \in RefundAmounts,
                 CreateRefund(p, amount)
          PROVE  Final
        <3>1. PICK r \in RefundRows :
                 /\ refund[r].status = "none"
                 /\ refund' = [refund EXCEPT
                                 ![r] = NewRefund(p, amount, NoDispute, "pending")]
            BY <2>5 DEF CreateRefund, FreeRefunds
        <3>2. dispute' = dispute
            BY <2>5 DEF CreateRefund
        <3>3. QED
            BY <2>4, <3>1, <3>2
    <2>6. ASSUME NEW r \in RefundRows, NEW to \in RefundStatus,
                 TransitionRefund(r, to)
          PROVE  Final
        <3>1. refund' = [refund EXCEPT ![r].status = to] /\ dispute' = dispute
            BY <2>6 DEF TransitionRefund
        <3>2. to \in REFUND_TRANSITIONS[refund[r].status]
            BY <2>6 DEF TransitionRefund, assertRefundTransition
        <3>3. REFUND_TRANSITIONS["successful"] = {}
            BY DEF REFUND_TRANSITIONS, RefundStatus
        <3>4. refund[r].status # "successful"
            BY <3>2, <3>3
        <3>5. QED
            BY <2>1, <3>1, <3>4 DEF RefundRow
    <2>7. ASSUME NEW d \in Disputes, NEW p \in Payments, NEW amount \in RefundAmounts,
                 CreateDispute(d, p, amount)
          PROVE  Final
        BY <2>1, <2>7 DEF CreateDispute
    <2>8. ASSUME NEW d \in Disputes, NEW to \in DisputeStatus,
                 NEW resolution \in Resolutions, TransitionDispute(d, to, resolution)
          PROVE  Final
        <3>1. to \in DISPUTE_TRANSITIONS[dispute[d].status]
            BY <2>8 DEF TransitionDispute, assertDisputeTransition
        <3>2. DISPUTE_TRANSITIONS["resolved"] = {}
            BY DEF DISPUTE_TRANSITIONS, DisputeStatus
        <3>3. dispute[d].status # "resolved"
            BY <3>1, <3>2
        <3>4. QED
            BY <2>1, <2>8, <3>3 DEF TransitionDispute
    <2>9. ASSUME NEW d \in Disputes, NEW amount \in RefundAmounts,
                 NEW resolution \in {"merchant-accepted", "declined"},
                 ResolveDispute(d, resolution, amount)
          PROVE  Final
        <3>1. /\ dispute[d].status # "resolved"
              /\ dispute' = [dispute EXCEPT ![d].status = "resolved",
                                            ![d].resolution = resolution,
                                            ![d].amount = amount]
            BY <2>9 DEF ResolveDispute, MayResolve
        <3>2. \A e \in Disputes :
                 dispute[e].status = "resolved" => dispute'[e] = dispute[e]
            BY <2>1, <3>1
        <3>3. CASE resolution = "merchant-accepted" /\ amount > 0
            <4>1. PICK r \in RefundRows :
                     /\ refund[r].status = "none"
                     /\ refund' = [refund EXCEPT ![r] =
                            NewRefund(dispute[d].payment, amount, d, "successful")]
                BY <2>9, <3>3 DEF ResolveDispute, FreeRefunds
            <4>2. QED
                BY <2>4, <3>2, <4>1
        <3>4. CASE ~ (resolution = "merchant-accepted" /\ amount > 0)
            BY <2>9, <3>2, <3>4 DEF ResolveDispute
        <3>5. QED
            BY <3>3, <3>4
    <2>10. ASSUME NEW p \in Payments, NEW to \in PaymentStatus,
                  \/ CreatePayment(p, to) \/ OrdinaryMove(p, to)
                  \/ Retry(p, to) \/ ScenarioStep(p, to)
           PROVE  UNCHANGED <<refund, dispute>>
        BY <2>10 DEF CreatePayment, OrdinaryMove, Retry, ScenarioStep, transitionPayment
    <2>11. UNCHANGED vars => UNCHANGED <<refund, dispute>>
        BY DEF vars
    <2>12. QED
        BY <1>1, <2>2, <2>5, <2>6, <2>7, <2>8, <2>9, <2>10, <2>11 DEF Next
<1>2. IInv /\ [Next]_vars => [Final]_vars
    BY <1>1
<1>3. QED
    BY <1>2, Invariance, PTL DEF Spec, SettlementIsFinal

-----------------------------------------------------------------------------
\* No scenario names a status that says money went back.
NoRefundSteps == ScenarioTargets \cap {"partially_refunded", "refunded"} = {}

\* A settled payment was collected, and so was one that has a refund.
SettledCollected ==
    \A p \in Payments : payment[p].status \in SettledStatus => collected[p] >= 1

RefundedCollected ==
    \A r \in RefundRows : refund[r].status # "none"
                              => collected[refund[r].payment] >= 1

Books(p) ==
    balance[p]["platform"] + balance[p]["account"] = Amount(p) * collected[p] - Settled(p)

LedgerInv ==
    /\ IInv
    /\ NoRefundSteps
    /\ SettledCollected
    /\ RefundedCollected
    /\ \A p \in Payments : Books(p)

(***************************************************************************)
(* A payment that was not collected has no settled refund, and one that    *)
(* was covers them once.                                                   *)
(***************************************************************************)
LEMMA RefundsCollected ==
    ASSUME LedgerInv
    PROVE  LedgerReconciles
<1>1. IInv
    BY DEF LedgerInv
<1>2. SUFFICES ASSUME NEW p \in Payments
               PROVE  Settled(p) <= Amount(p) * collected[p]
    BY DEF LedgerReconciles, LedgerInv, Books
<1>3. /\ Settled(p) \in Int /\ collected[p] \in Nat
      /\ Settled(p) <= payment[p].amountRefunded /\ payment[p].amountRefunded <= Amount(p)
      /\ payment[p] \in PaymentRow /\ Amount(p) \in Nat
    BY <1>1, Facts
<1>4. Settled(p) <= Amount(p)
    BY <1>3 DEF PaymentRow
<1>5. CASE collected[p] = 0
    <2>1. \A r \in RefundRows : SettledBy(refund[r], p) = 0
        BY <1>5 DEF LedgerInv, RefundedCollected, SettledBy
    <2>2. [r \in RefundRows |-> SettledBy(refund[r], p)] = [r \in 1..MaxRefunds |-> 0]
        BY <2>1
    <2>3. SumTo([r \in 1..MaxRefunds |-> 0], MaxRefunds) = 0
        BY SumToZero, MaxRefundsAssumption
    <2>4. Settled(p) = 0
        BY <2>2, <2>3 DEF Settled
    <2>5. QED
        BY <1>3, <1>5, <2>4
<1>6. CASE collected[p] > 0
    <2>1. PICK n \in Nat : collected[p] = n + 1
        <3>1. collected[p] - 1 \in Nat /\ collected[p] = (collected[p] - 1) + 1
            BY <1>3, <1>6
        <3>2. QED
            BY <3>1
    <2>2. Amount(p) * (n + 1) = Amount(p) * n + Amount(p)
        BY <1>3
    <2>3. Amount(p) * n \in Nat
        BY <1>3
    <2>4. QED
        BY <1>3, <1>4, <2>1, <2>2, <2>3
<1>7. QED
    BY <1>3, <1>5, <1>6

(***************************************************************************)
(* A step that collects payment p once or not at all and gives s of it     *)
(* back keeps the books if it moves the money.                             *)
(***************************************************************************)
LEMMA BooksKept ==
    ASSUME IInv, \A q \in Payments : Books(q), NEW p \in Payments,
           NEW n \in {0, 1}, NEW s \in Int,
           balance \in [Payments -> [Accounts -> Int]],
           \A q \in Payments : Amount(q)' = Amount(q),
           \A q \in Payments \ {p} :
              /\ balance'[q] = balance[q] /\ collected'[q] = collected[q]
              /\ Settled(q)' = Settled(q),
           balance'[p]["platform"] + balance'[p]["account"]
              = balance[p]["platform"] + balance[p]["account"] + Amount(p) * n - s,
           collected'[p] = collected[p] + n,
           Settled(p)' = Settled(p) + s
    PROVE  \A q \in Payments : Books(q)'
<1>1. SUFFICES ASSUME NEW q \in Payments
               PROVE  Books(q)'
    OBVIOUS
<1>2. CASE q # p
    BY <1>2 DEF Books
<1>3. CASE q = p
    <2>1. /\ Amount(p) \in Nat /\ collected[p] \in Nat /\ Settled(p) \in Int
        BY Facts
    <2>2. /\ balance[p]["platform"] \in Int /\ balance[p]["account"] \in Int
        BY DEF Accounts
    <2>3. Amount(p) * (collected[p] + n) = Amount(p) * collected[p] + Amount(p) * n
        BY <2>1
    <2>4. Amount(p) * collected[p] \in Int /\ Amount(p) * n \in Int
        BY <2>1
    <2>5. balance[p]["platform"] + balance[p]["account"]
             = Amount(p) * collected[p] - Settled(p)
        BY DEF Books
    <2>6. balance'[p]["platform"] + balance'[p]["account"]
             = Amount(p) * (collected[p] + n) - (Settled(p) + s)
        BY <2>1, <2>2, <2>3, <2>4, <2>5
    <2>7. QED
        BY <1>3, <2>6 DEF Books
<1>4. QED
    BY <1>2, <1>3

(***************************************************************************)
(* A success credits the two pots of a payment with its amount, whatever   *)
(* the settlement mode and the fee.                                        *)
(***************************************************************************)
LEMMA SuccessCredits ==
    ASSUME IInv, NEW p \in Payments
    PROVE  /\ \A q \in Payments \ {p} : SettledBalance(p)[q] = balance[q]
           /\ SettledBalance(p)[p]["platform"] + SettledBalance(p)[p]["account"]
                 = balance[p]["platform"] + balance[p]["account"] + Amount(p)
<1> DEFINE c == payment[p].charge
           fee == IF c.fee < c.amount THEN c.fee ELSE c.amount
           share == IF c.fee < c.amount THEN c.amount - c.fee ELSE 0
<1>1. /\ c \in Charges /\ c.amount \in Nat /\ c.fee \in Nat /\ Amount(p) = c.amount
      /\ c.mode \in SettlementModes
    BY Facts, ChargesAssumption DEF Amount
<1>2. /\ balance \in [Payments -> [Accounts -> Int]]
      /\ balance[p]["platform"] \in Int /\ balance[p]["account"] \in Int
    BY DEF IInv, TypeOK, Accounts
<1>3. fee \in Int /\ share \in Int
    BY <1>1
<1>4. CASE c.mode = "direct"
    <2>1. SettledBalance(p) = [balance EXCEPT ![p]["account"] = @ + c.amount - fee,
                                              ![p]["platform"] = @ + fee]
        BY <1>4 DEF SettledBalance
    <2> HIDE DEF fee, share
    <2>2. /\ \A q \in Payments \ {p} : SettledBalance(p)[q] = balance[q]
          /\ SettledBalance(p)[p]["platform"] = balance[p]["platform"] + fee
          /\ SettledBalance(p)[p]["account"] = balance[p]["account"] + c.amount - fee
        BY <1>2, <2>1 DEF Accounts
    <2>3. QED
        BY <1>1, <1>2, <1>3, <2>2
<1>5. CASE c.mode = "forwarded"
    <2>1. SettledBalance(p) = [balance EXCEPT ![p]["account"] = @ + share,
                                              ![p]["platform"] = @ + c.amount - share]
        BY <1>5 DEF SettledBalance
    <2> HIDE DEF fee, share
    <2>2. /\ \A q \in Payments \ {p} : SettledBalance(p)[q] = balance[q]
          /\ SettledBalance(p)[p]["platform"] = balance[p]["platform"] + c.amount - share
          /\ SettledBalance(p)[p]["account"] = balance[p]["account"] + share
        BY <1>2, <2>1 DEF Accounts
    <2>3. QED
        BY <1>1, <1>2, <1>3, <2>2
<1>6. CASE c.mode = "platform"
    <2>1. SettledBalance(p) = [balance EXCEPT ![p]["platform"] = @ + c.amount]
        BY <1>6 DEF SettledBalance, Credit
    <2>2. /\ \A q \in Payments \ {p} : SettledBalance(p)[q] = balance[q]
          /\ SettledBalance(p)[p]["platform"] = balance[p]["platform"] + c.amount
          /\ SettledBalance(p)[p]["account"] = balance[p]["account"]
        BY <1>2, <2>1 DEF Accounts
    <2>3. QED
        BY <1>1, <1>2, <2>2
<1>7. QED
    BY <1>1, <1>4, <1>5, <1>6 DEF SettlementModes

(***************************************************************************)
(* A step that leaves money, refunds and counters alone and settles no     *)
(* payment keeps the ledger's invariant.                                   *)
(***************************************************************************)
LEMMA LedgerUntouched ==
    ASSUME LedgerInv, IInv', UNCHANGED <<refund, balance, collected>>,
           \A q \in Payments :
              /\ payment'[q].charge = payment[q].charge
              /\ payment'[q].status \in SettledStatus
                    => payment[q].status \in SettledStatus
    PROVE  LedgerInv'
<1>1. \A q \in Payments : Amount(q)' = Amount(q) /\ Settled(q)' = Settled(q)
    BY DEF Amount, Settled
<1>2. SettledCollected' /\ RefundedCollected'
    BY DEF LedgerInv, SettledCollected, RefundedCollected
<1>3. \A q \in Payments : Books(q)'
    BY <1>1 DEF LedgerInv, Books
<1>4. QED
    BY <1>2, <1>3 DEF LedgerInv, NoRefundSteps

(***************************************************************************)
(* The single mutation path keeps the ledger's invariant: a success        *)
(* credits what it collects, and nothing else settles a payment.           *)
(***************************************************************************)
LEMMA LedgerTransition ==
    ASSUME LedgerInv, IInv', NEW p \in Payments, NEW to \in PaymentStatus,
           to \notin {"partially_refunded", "refunded"},
           NEW reversal, NEW again, transitionPayment(p, to, reversal, again)
    PROVE  LedgerInv'
<1>1. /\ IInv /\ payment \in [Payments -> PaymentRow]
      /\ balance \in [Payments -> [Accounts -> Int]]
      /\ collected \in [Payments -> Nat]
    BY DEF LedgerInv, IInv, TypeOK
<1>2. /\ payment' = [payment EXCEPT ![p].status = to] /\ refund' = refund
      /\ to = "successful" => /\ balance' = SettledBalance(p)
                              /\ collected' = [collected EXCEPT ![p] = @ + 1]
      /\ to # "successful" => UNCHANGED <<balance, collected>>
    BY DEF transitionPayment
<1>3. /\ \A q \in Payments : payment'[q].charge = payment[q].charge
      /\ \A q \in Payments \ {p} : payment'[q] = payment[q]
      /\ payment'[p].status = to
    BY <1>1, <1>2 DEF PaymentRow
<1>4. CASE to # "successful"
    <2>1. \A q \in Payments : payment'[q].status \in SettledStatus
                                 => payment[q].status \in SettledStatus
        BY <1>3, <1>4 DEF SettledStatus
    <2>2. QED
        BY <1>2, <1>3, <1>4, <2>1, LedgerUntouched
<1>5. CASE to = "successful"
    <2>1. /\ collected'[p] = collected[p] + 1 /\ collected'[p] >= 1
          /\ \A q \in Payments \ {p} : collected'[q] = collected[q]
          /\ \A q \in Payments : collected[q] >= 1 => collected'[q] >= 1
        BY <1>1, <1>2, <1>5
    <2>2. SettledCollected'
        BY <1>3, <2>1 DEF LedgerInv, SettledCollected
    <2>3. RefundedCollected'
        <3>1. \A r \in RefundRows : refund[r].status # "none"
                                        => refund[r].payment \in Payments
            BY <1>1 DEF IInv, RowsOwned
        <3>2. QED
            BY <1>2, <2>1, <3>1 DEF LedgerInv, RefundedCollected
    <2>4. \A q \in Payments : Amount(q)' = Amount(q) /\ Settled(q)' = Settled(q)
        BY <1>2, <1>3 DEF Amount, Settled
    <2>5. /\ \A q \in Payments \ {p} : balance'[q] = balance[q]
          /\ balance'[p]["platform"] + balance'[p]["account"]
                = balance[p]["platform"] + balance[p]["account"] + Amount(p)
        BY <1>1, <1>2, <1>5, SuccessCredits
    <2>6. /\ Amount(p) \in Int /\ Settled(p) \in Int
          /\ balance[p]["platform"] \in Int /\ balance[p]["account"] \in Int
        BY <1>1, Facts DEF Accounts
    <2>7. /\ balance'[p]["platform"] + balance'[p]["account"]
                = balance[p]["platform"] + balance[p]["account"] + Amount(p) * 1 - 0
          /\ Settled(p)' = Settled(p) + 0
        BY <2>4, <2>5, <2>6
    <2>8. \A q \in Payments : Books(q)
        BY DEF LedgerInv
    <2>9. \A q \in Payments : Books(q)'
        BY <1>1, <2>1, <2>4, <2>5, <2>7, <2>8, BooksKept
    <2>10. QED
        BY <2>2, <2>3, <2>9 DEF LedgerInv, NoRefundSteps
<1>6. QED
    BY <1>4, <1>5

(***************************************************************************)
(* A refund that settles takes its amount out of the books of its payment, *)
(* which was collected.                                                    *)
(***************************************************************************)
LEMMA LedgerSettle ==
    ASSUME LedgerInv, IInv', NEW p \in Payments, NEW row \in RefundRow,
           NEW r \in RefundRows, collected[p] >= 1, collected' = collected,
           row.payment = p, row.status = "successful", row.amount \in Nat,
           refund'[r] = row, \A q \in RefundRows \ {r} : refund'[q] = refund[q],
           \A q \in Payments : /\ totalRefunded(refund', q) \in Int
                               /\ SettledIn(refund', q) = Settled(q) + SettledBy(row, q),
           SettleRefund(p, row.amount, refund')
    PROVE  LedgerInv'
<1>1. /\ IInv /\ balance \in [Payments -> [Accounts -> Int]]
      /\ refund \in [RefundRows -> RefundRow] /\ refund' \in [RefundRows -> RefundRow]
    BY DEF LedgerInv, IInv, TypeOK
<1>2. /\ \A q \in Payments : payment'[q].charge = payment[q].charge
      /\ \A q \in Payments \ {p} : payment'[q] = payment[q]
    <2> DEFINE rows == refund'
    <2>1. rows \in [RefundRows -> RefundRow] /\ totalRefunded(rows, p) \in Int
          /\ row.amount \in Int /\ SettleRefund(p, row.amount, rows)
        BY <1>1
    <2> HIDE DEF rows
    <2>2. QED
        BY <1>1, <2>1, SettleEffects DEF rows
<1>3. SettledCollected'
    BY <1>2 DEF LedgerInv, SettledCollected
<1>4. RefundedCollected'
    BY <1>1 DEF LedgerInv, RefundedCollected
<1>5. /\ \A q \in Payments : Amount(q)' = Amount(q)
      /\ \A q \in Payments : Settled(q)' = SettledIn(refund', q)
      /\ \A q \in Payments : Settled(q) \in Int /\ Amount(q) \in Int
    <2>1. \A q \in Payments : Amount(q)' = Amount(q)
        BY <1>2 DEF Amount
    <2>2. \A q \in Payments : Settled(q)' = SettledIn(refund', q)
        BY DEF Settled, SettledIn
    <2>3. \A q \in Payments : Settled(q) \in Int /\ Amount(q) \in Int
        BY <1>1, Facts
    <2>4. QED
        BY <2>1, <2>2, <2>3
<1>6. /\ \A q \in Payments \ {p} : SettledBy(row, q) = 0
      /\ SettledBy(row, p) = row.amount
    BY DEF SettledBy
<1>7. /\ Settled(p)' = Settled(p) + row.amount
      /\ \A q \in Payments \ {p} : Settled(q)' = Settled(q)
    BY <1>5, <1>6
<1>8. /\ \A q \in Payments \ {p} : balance'[q] = balance[q]
      /\ balance'[p]["platform"] + balance'[p]["account"]
            = balance[p]["platform"] + balance[p]["account"] - row.amount
    <2>1. balance' = [balance EXCEPT ![p][Refunder(p)] = @ + (- row.amount)]
        BY DEF SettleRefund, Credit
    <2>2. Refunder(p) = "account" \/ Refunder(p) = "platform"
        BY DEF Refunder
    <2>3. balance[p]["platform"] \in Int /\ balance[p]["account"] \in Int
        BY <1>1 DEF Accounts
    <2>4. CASE Refunder(p) = "account"
        BY <1>1, <2>1, <2>3, <2>4 DEF Accounts
    <2>5. CASE Refunder(p) = "platform"
        BY <1>1, <2>1, <2>3, <2>5 DEF Accounts
    <2>6. QED
        BY <2>2, <2>4, <2>5
<1>9. /\ balance'[p]["platform"] + balance'[p]["account"]
            = balance[p]["platform"] + balance[p]["account"] + Amount(p) * 0 - row.amount
      /\ collected'[p] = collected[p] + 0 /\ row.amount \in Int
    <2>1. /\ balance[p]["platform"] \in Int /\ balance[p]["account"] \in Int
          /\ Amount(p) * 0 = 0 /\ collected[p] \in Int
        BY <1>1, <1>5, Facts DEF Accounts
    <2>2. QED
        BY <1>8, <2>1
<1>10. \A q \in Payments : Books(q)
    BY DEF LedgerInv
<1>11. \A q \in Payments : Books(q)'
    BY ZenonT(60), <1>1, <1>5, <1>7, <1>8, <1>9, <1>10, BooksKept
<1>12. QED
    BY <1>3, <1>4, <1>11 DEF LedgerInv, NoRefundSteps

(***************************************************************************)
(* A payment that may be refunded was collected.                           *)
(***************************************************************************)
LEMMA RefundableCollected ==
    ASSUME LedgerInv, NEW p \in Payments, NEW amount, MayRefund(p, amount)
    PROVE  collected[p] >= 1
BY DEF LedgerInv, SettledCollected, SettledStatus, MayRefund

(***************************************************************************)
(* A pending refund keeps the ledger's invariant.                          *)
(***************************************************************************)
LEMMA LedgerCreateRefund ==
    ASSUME LedgerInv, IInv', NEW p \in Payments, NEW amount \in RefundAmounts,
           CreateRefund(p, amount)
    PROVE  LedgerInv'
<1> DEFINE row == NewRefund(p, amount, NoDispute, "pending")
<1>1. /\ row \in RefundRow /\ row.payment = p /\ row.amount = amount
      /\ row.status = "pending" /\ row.status \in RefundStatus
    BY RefundAmountsAssumption, 0 \in Int DEF NewRefund, RefundRow, RefundStatus
<1>2. PICK r \in RefundRows : /\ refund[r].status = "none"
                              /\ refund' = [refund EXCEPT ![r] = row]
    BY DEF CreateRefund, FreeRefunds
<1>3. MayRefund(row.payment, row.amount) /\ MayRefund(p, amount)
    BY <1>1 DEF CreateRefund
<1>4. \A q \in Payments : SettledBy(row, q) = 0
    BY <1>1 DEF SettledBy
<1> HIDE DEF row
<1>5. IInv /\ refund \in [RefundRows -> RefundRow]
    BY DEF LedgerInv, IInv, TypeOK
<1>6. \A q \in Payments : SettledIn(refund', q) = Settled(q) + SettledBy(row, q)
    BY <1>1, <1>2, <1>3, <1>5, NewRefundTotals
<1>7. UNCHANGED <<payment, balance, collected>>
    BY DEF CreateRefund
<1>8. \A q \in Payments : Amount(q)' = Amount(q) /\ Settled(q)' = Settled(q)
    <2>1. \A q \in Payments : Settled(q)' = SettledIn(refund', q)
        BY DEF Settled, SettledIn
    <2>2. \A q \in Payments : Settled(q) \in Int
        BY <1>5, Facts
    <2>3. \A q \in Payments : Amount(q)' = Amount(q)
        BY <1>7 DEF Amount
    <2>4. \A q \in Payments : SettledIn(refund', q) = Settled(q)
        BY <1>4, <1>6, <2>2
    <2>5. QED
        BY <2>1, <2>3, <2>4
<1>9. RefundedCollected'
    <2>1. collected[p] >= 1
        BY <1>3, RefundableCollected
    <2>2. /\ refund'[r].payment = p
          /\ \A q \in RefundRows \ {r} : refund'[q] = refund[q]
        BY <1>1, <1>2, <1>5
    <2>3. QED
        BY <1>7, <2>1, <2>2 DEF LedgerInv, RefundedCollected
<1>10. QED
    BY <1>7, <1>8, <1>9 DEF LedgerInv, NoRefundSteps, SettledCollected, Books

(***************************************************************************)
(* A refund that moves keeps the ledger's invariant.                       *)
(***************************************************************************)
LEMMA LedgerTransitionRefund ==
    ASSUME LedgerInv, IInv', NEW r \in RefundRows, NEW to \in RefundStatus,
           TransitionRefund(r, to)
    PROVE  LedgerInv'
<1> DEFINE row == [refund[r] EXCEPT !.status = to]
           p == refund[r].payment
<1>1. IInv /\ refund \in [RefundRows -> RefundRow]
    BY DEF LedgerInv, IInv, TypeOK
<1>2. /\ refund[r] \in RefundRow /\ refund[r].status \in RefundStatus
      /\ assertRefundTransition(refund[r].status, to) /\ refund[r].status # "none"
    BY <1>1 DEF TransitionRefund, RefundRow
<1>3. /\ row \in RefundRow /\ row.status = to
      /\ row.payment = refund[r].payment /\ row.amount = refund[r].amount
    BY <1>2 DEF RefundRow
<1>4. refund' = [refund EXCEPT ![r] = row]
    BY <1>1 DEF TransitionRefund
<1>5. /\ collected' = collected
      /\ to = "successful" => SettleRefund(p, refund[r].amount, refund')
      /\ to # "successful" => UNCHANGED <<payment, balance>>
    BY DEF TransitionRefund
<1> HIDE DEF row
<1>6. /\ row.amount \in Nat /\ p \in Payments
      /\ \A q \in Payments :
            /\ totalRefunded(refund', q) \in Int
            /\ SettledIn(refund', q) = Settled(q) + SettledBy(row, q)
    BY <1>1, <1>2, <1>3, <1>4, MovedRefundTotals
<1>7. refund'[r] = row /\ \A q \in RefundRows \ {r} : refund'[q] = refund[q]
    BY <1>1, <1>4
<1>8. collected[p] >= 1
    BY <1>2 DEF LedgerInv, RefundedCollected
<1>9. CASE to = "successful"
    <2>1. SettleRefund(p, row.amount, refund')
        BY <1>3, <1>5, <1>9
    <2> HIDE DEF p
    <2>2. row.payment = p
        BY <1>3 DEF p
    <2>3. QED
        BY <1>3, <1>5, <1>6, <1>7, <1>8, <1>9, <2>1, <2>2, LedgerSettle
<1>10. CASE to # "successful"
    <2>1. UNCHANGED <<payment, balance, collected>>
        BY <1>5, <1>10
    <2>2. \A q \in Payments : Amount(q)' = Amount(q)
        BY <2>1 DEF Amount
    <2>3. \A q \in Payments : Settled(q)' = Settled(q)
        <3>1. \A q \in Payments : SettledBy(row, q) = 0
            BY <1>3, <1>10 DEF SettledBy
        <3>2. \A q \in Payments : Settled(q)' = SettledIn(refund', q)
            BY DEF Settled, SettledIn
        <3>3. \A q \in Payments : Settled(q) \in Int
            BY <1>1, Facts
        <3>4. QED
            BY <1>6, <3>1, <3>2, <3>3
    <2>4. RefundedCollected'
        BY <1>3, <1>7, <1>8, <2>1 DEF LedgerInv, RefundedCollected
    <2>5. QED
        BY <2>1, <2>2, <2>3, <2>4 DEF LedgerInv, NoRefundSteps, SettledCollected, Books
<1>11. QED
    BY <1>9, <1>10

(***************************************************************************)
(* A ruling, with its refund or without, keeps the ledger's invariant.     *)
(***************************************************************************)
LEMMA LedgerResolve ==
    ASSUME LedgerInv, IInv', NEW d \in Disputes, NEW amount \in RefundAmounts,
           NEW resolution \in {"merchant-accepted", "declined"},
           ResolveDispute(d, resolution, amount)
    PROVE  LedgerInv'
<1> DEFINE p == dispute[d].payment
<1>1. IInv /\ refund \in [RefundRows -> RefundRow]
    BY DEF LedgerInv, IInv, TypeOK
<1>2. p \in Payments
    BY <1>1 DEF ResolveDispute, MayResolve, IInv, RowsOwned
<1>3. collected' = collected
    BY DEF ResolveDispute
<1>4. CASE resolution = "merchant-accepted" /\ amount > 0
    <2> DEFINE row == NewRefund(p, amount, d, "successful")
    <2>1. /\ row \in RefundRow /\ row.payment = p /\ row.amount = amount
          /\ row.status = "successful" /\ row.status \in RefundStatus
        BY <1>2, RefundAmountsAssumption DEF NewRefund, RefundRow, RefundStatus
    <2>2. MayRefund(row.payment, row.amount) /\ MayRefund(p, amount)
        BY <1>4, <2>1 DEF ResolveDispute
    <2>3. PICK r \in RefundRows :
              /\ refund[r].status = "none"
              /\ refund' = [refund EXCEPT ![r] = row]
              /\ SettleRefund(p, amount, refund')
        BY <1>4 DEF ResolveDispute, FreeRefunds
    <2> HIDE DEF row, p
    <2>4. /\ row.amount \in Nat
          /\ \A q \in Payments :
                /\ totalRefunded(refund', q) \in Int
                /\ SettledIn(refund', q) = Settled(q) + SettledBy(row, q)
        BY <1>1, <1>2, <2>1, <2>2, <2>3, NewRefundTotals
    <2>5. collected[p] >= 1
        BY <1>2, <2>2, RefundableCollected
    <2>6. refund'[r] = row /\ \A q \in RefundRows \ {r} : refund'[q] = refund[q]
        BY <1>1, <2>3
    <2>7. SettleRefund(p, row.amount, refund')
        BY <2>1, <2>3
    <2>8. QED
        BY <1>2, <1>3, <2>1, <2>4, <2>5, <2>6, <2>7, LedgerSettle
<1>5. CASE ~ (resolution = "merchant-accepted" /\ amount > 0)
    <2>1. UNCHANGED <<payment, refund, balance>>
        BY <1>5 DEF ResolveDispute
    <2>2. QED
        BY <1>3, <2>1, LedgerUntouched
<1>6. QED
    BY <1>4, <1>5

(***************************************************************************)
(* Nothing collected, nothing refunded: the books are empty.               *)
(***************************************************************************)
LEMMA InitLedger == NoRefundSteps /\ Init => LedgerInv
<1> SUFFICES ASSUME NoRefundSteps, Init
             PROVE  LedgerInv
    OBVIOUS
<1>1. IInv
    BY InitIInv
<1>2. SettledCollected /\ RefundedCollected
    BY DEF Init, SettledCollected, RefundedCollected, SettledStatus, EmptyRefund
<1>3. ASSUME NEW p \in Payments
      PROVE  Books(p)
    <2>1. Settled(p) = 0
        BY NoRefunds DEF Init, Settled, SettledIn
    <2>2. /\ balance[p]["platform"] = 0 /\ balance[p]["account"] = 0
          /\ collected[p] = 0
        BY DEF Init, Accounts
    <2>3. Amount(p) * 0 = 0
        BY <1>1, Facts
    <2>4. QED
        BY <2>1, <2>2, <2>3 DEF Books
<1>4. QED
    BY <1>1, <1>2, <1>3 DEF LedgerInv

(***************************************************************************)
(* Every step keeps the ledger's invariant.                                *)
(***************************************************************************)
LEMMA StepLedger == LedgerInv /\ [Next]_vars => LedgerInv'
<1> SUFFICES ASSUME LedgerInv, [Next]_vars
             PROVE  LedgerInv'
    OBVIOUS
<1>1. IInv /\ IInv' /\ NoRefundSteps /\ payment \in [Payments -> PaymentRow]
    <2>1. IInv /\ NoRefundSteps
        BY DEF LedgerInv
    <2>2. QED
        BY <2>1, StepIInv DEF IInv, TypeOK
<1>2. ASSUME NEW p \in Payments, NEW to \in PaymentStatus, CreatePayment(p, to)
      PROVE  LedgerInv'
    <2>1. \A q \in Payments : /\ payment'[q].charge = payment[q].charge
                              /\ payment'[q].status \in SettledStatus
                                    => payment[q].status \in SettledStatus
        BY <1>1, <1>2 DEF CreatePayment, PaymentRow, SettledStatus
    <2>2. UNCHANGED <<refund, balance, collected>>
        BY <1>2 DEF CreatePayment
    <2>3. QED
        BY <1>1, <2>1, <2>2, LedgerUntouched
<1>3. ASSUME NEW p \in Payments, NEW to \in PaymentStatus,
             OrdinaryMove(p, to) \/ Retry(p, to) \/ ScenarioStep(p, to)
      PROVE  LedgerInv'
    <2>1. to \notin {"partially_refunded", "refunded"}
        BY <1>1, <1>3
           DEF OrdinaryMove, OrdinaryTargets, Retry, ScenarioStep, NoRefundSteps
    <2>2. PICK reversal \in BOOLEAN, again \in BOOLEAN :
              transitionPayment(p, to, reversal, again)
        BY <1>3 DEF OrdinaryMove, Retry, ScenarioStep
    <2>3. QED
        BY <1>1, <2>1, <2>2, LedgerTransition
<1>4. ASSUME NEW p \in Payments, NEW amount \in RefundAmounts, CreateRefund(p, amount)
      PROVE  LedgerInv'
    BY <1>1, <1>4, LedgerCreateRefund
<1>5. ASSUME NEW r \in RefundRows, NEW to \in RefundStatus, TransitionRefund(r, to)
      PROVE  LedgerInv'
    BY <1>1, <1>5, LedgerTransitionRefund
<1>6. ASSUME UNCHANGED <<payment, refund, balance, collected>>
      PROVE  LedgerInv'
    BY <1>1, <1>6, LedgerUntouched
<1>7. ASSUME NEW d \in Disputes, NEW p \in Payments, NEW amount \in RefundAmounts,
             CreateDispute(d, p, amount)
      PROVE  LedgerInv'
    BY <1>6, <1>7 DEF CreateDispute
<1>8. ASSUME NEW d \in Disputes, NEW to \in DisputeStatus,
             NEW resolution \in Resolutions, TransitionDispute(d, to, resolution)
      PROVE  LedgerInv'
    BY <1>6, <1>8 DEF TransitionDispute
<1>9. ASSUME NEW d \in Disputes, NEW amount \in RefundAmounts,
             NEW resolution \in {"merchant-accepted", "declined"},
             ResolveDispute(d, resolution, amount)
      PROVE  LedgerInv'
    BY <1>1, <1>9, LedgerResolve
<1>10. CASE UNCHANGED vars
    BY <1>6, <1>10 DEF vars
<1>11. QED
    BY <1>2, <1>3, <1>4, <1>5, <1>7, <1>8, <1>9, <1>10 DEF Next

(***************************************************************************)
(* If no scenario names a status that says money went back, what every     *)
(* payment and its refunds left in the ledger is what it collected less    *)
(* what it gave back, and no refund pays out what was not collected.       *)
(***************************************************************************)
THEOREM LedgerBalances == NoRefundSteps /\ Spec => []LedgerReconciles
<1>1. NoRefundSteps /\ Init => LedgerInv
    BY InitLedger
<1>2. LedgerInv /\ [Next]_vars => LedgerInv'
    BY StepLedger
<1>3. LedgerInv => LedgerReconciles
    BY RefundsCollected
<1>4. QED
    BY <1>1, <1>2, <1>3, PTL DEF Spec

-----------------------------------------------------------------------------
(***************************************************************************)
(* Billing.  A handler is a program, the list of steps it has left.  The   *)
(* invariant is about the words a program says, in what order and which    *)
(* ones each is followed by: with them it says what is half done whenever  *)
(* another actor gets in between.  It is shown for every action: most of   *)
(* them drop the first step of the program and go on.                      *)
(***************************************************************************)

\* What a step of a handler says: its operation, or the status it moves to
Moves == {"core", "bill"}
Ops == {"dispatch", "advance", "skip", "endRecord", "undo", "exhausted", "core",
        "scheduleRenewal", "scheduleRetry", "cancelGroup", "carry", "createInvoice",
        "record", "spend", "unattempt", "count", "bill", "attempt", "recovered", "owe",
        "exhaust", "writeOff", "retryNow", "trial", "renewNow", "grant"}
CoreMoves == {"active", "attention", "cancelled"}
BillMoves == {"pending", "failed", "success", "uncollectible"}
Names == CoreMoves \cup BillMoves \cup {"any", "cycle", "proration", "now"}

StepType ==
    {e \in [op : Ops, to : Names, n : Int] :
        /\ e.op = "core" => e.to \in CoreMoves
        /\ e.op = "bill" => e.to \in BillMoves
        /\ e.op = "createInvoice" => e.to \in {"cycle", "proration"}}
JobType == [kind : {"none", "renew", "retry"}, at : Int, due : Int, invoice : Nat,
            retry : Nat, first : Int]
HandlerType == [todo : Seq(StepType), by : {"none", "api", "job"}, at : Nat,
                invoice : Nat, retry : Nat, first : Int, extra : Nat]

Token(e) == IF e.op \in Moves THEN e.to ELSE e.op
Elems(s) == {s[k] : k \in DOMAIN s}
Tokens(s) == {Token(e) : e \in Elems(s)}

\* What may come after a step, in whatever program it is
Later ==
    [t \in CoreMoves \cup BillMoves \cup Ops |->
        CASE t = "advance" -> {"active", "scheduleRenewal", "carry", "createInvoice",
                               "record", "spend", "attempt"}
          [] t = "skip" -> {"scheduleRenewal"}
          [] t = "active" -> {"scheduleRenewal", "carry", "createInvoice", "record",
                              "spend", "attempt", "attention", "scheduleRetry", "exhaust"}
          [] t = "attention" -> {"scheduleRetry", "exhaust"}
          [] t = "scheduleRenewal" -> {"carry", "createInvoice", "record", "spend", "attempt"}
          [] t = "carry" -> {"createInvoice", "record", "spend", "attempt"}
          [] t = "createInvoice" -> {"record", "spend", "attempt"}
          [] t = "record" -> {"spend", "attempt"}
          [] t = "spend" -> {"attempt"}
          [] t = "attempt" -> {"exhaust"}
          [] t = "count" -> {"pending", "failed", "owe", "scheduleRetry", "exhaust"}
          [] t = "pending" -> {"failed", "owe", "scheduleRetry", "exhaust"}
          [] t = "failed" -> {"owe", "scheduleRetry", "exhaust"}
          [] t = "owe" -> {"scheduleRetry", "exhaust"}
          [] t = "scheduleRetry" -> {"exhaust"}
          [] t = "uncollectible" -> {"endRecord", "cancelGroup", "writeOff", "cancelled",
                                     "exhausted"}
          [] t = "unattempt" -> {"success", "recovered", "uncollectible", "writeOff",
                                 "cancelled"}
          [] t = "success" -> {"recovered"}
          [] t = "endRecord" -> {"cancelGroup", "writeOff", "cancelled"}
          [] t = "cancelGroup" -> {"writeOff", "cancelled", "trial", "scheduleRenewal",
                                   "renewNow"}
          [] t = "writeOff" -> {"cancelled"}
          [] t = "undo" -> {"active"}
          [] t = "trial" -> {"scheduleRenewal", "renewNow"}
          [] OTHER -> {}]

Ordered(s) ==
    \A k, l \in DOMAIN s : k < l => Token(s[l]) \in Later[Token(s[k])]

\* What a step is always followed by
Linked(W) ==
    /\ ("advance" \in W \/ "skip" \in W) => "scheduleRenewal" \in W
    /\ "carry" \in W => "createInvoice" \in W
    /\ "createInvoice" \in W => "record" \in W
    /\ "record" \in W => "spend" \in W
    /\ "spend" \in W => "attempt" \in W
    /\ "count" \in W => "failed" \in W /\ "owe" \in W
    /\ "pending" \in W => "failed" \in W
    /\ "failed" \in W /\ "exhaust" \in W => "owe" \in W
    /\ ("owe" \in W \/ "attention" \in W) => "scheduleRetry" \in W
    /\ ("endRecord" \in W \/ "writeOff" \in W) => "cancelled" \in W
    /\ "cancelGroup" \in W => "cancelled" \in W \/ "trial" \in W
    /\ "trial" \in W => ("scheduleRenewal" \in W \/ "renewNow" \in W)
    /\ "active" \in W /\ "spend" \in W => "createInvoice" \in W
    /\ "createInvoice" \in W => "scheduleRetry" \notin W /\ "exhaust" \notin W

\* The program at work: its words, its moves of invoices
Said == Tokens(handler.todo)
Bills == {e \in Elems(handler.todo) : e.op = "bill"}
Billed(i, to) == \E b \in Bills : b.n = i /\ b.to = to
Made == "createInvoice" \notin Said
Mine == handler.invoice

\* An attempt at the invoice in hand is under way.
Trying == (Made /\ "attempt" \in Said) \/ "scheduleRetry" \in Said

BillTyped ==
    /\ BillingTypeOK
    /\ handler \in HandlerType
    /\ jobs \in Seq(JobType)
    /\ running \in [job : JobType, begun : BOOLEAN, cancelled : BOOLEAN]
    /\ past.deaths <= past.events

\* Programs are in order and complete; the lock is free when nothing is left.
ProgramOK ==
    /\ Ordered(handler.todo) /\ Linked(Said)
    /\ (handler.todo = <<>>) <=> (handler = Free)
    /\ "dispatch" \in Said => handler.by = "job" /\ handler.at = running.job.at
    /\ handler.by = "job" => running.begun

\* Retries are due at their offset from the first failure.
OnTime(j) ==
    /\ j.retry \in 1..Len(RetryOffsets) /\ j.first \in Nat
    /\ j.at = j.first + RetryOffsets[j.retry]

\* Whoever queued it, a job can run.
JobOK(j) ==
    /\ j.kind # "none" /\ j.at \in Nat
    /\ j.kind = "retry" => j.invoice \in DOMAIN invoices /\ OnTime(j)

JobsWell ==
    /\ \A k \in DOMAIN jobs : JobOK(jobs[k])
    /\ running.job # NoJob => JobOK(running.job)
    /\ running.begun => running.job # NoJob

\* An attempt is at its place in the schedule, and the last one is followed by exhaustion.
Timed ==
    /\ Trying =>
          /\ Mine \in DOMAIN invoices
          /\ (handler.retry = 0 /\ handler.first = Null) \/ OnTime(handler)
          /\ handler.retry = Len(RetryOffsets) => "exhaust" \in Said
    /\ "exhaust" \in Said => Mine \in DOMAIN invoices
    /\ "scheduleRetry" \in Said /\ "count" \notin Said =>
          invoices[Mine].next = nextAttempt /\ invoices[Mine].retries = handler.retry

\* Every move of an invoice that a program makes is legal.
Standings ==
    /\ \A i \in DOMAIN invoices : invoices[i].status \in BillMoves
    /\ "record" \in Said /\ Made => invoices[Mine].status = "pending"
    /\ "attempt" \in Said /\ Made => invoices[Mine].status \in {"pending", "failed"}
    /\ \A b \in Bills : b.n \in DOMAIN invoices
    /\ \A b, c \in Bills : b.n = c.n
    /\ \A b \in Bills : "scheduleRetry" \in Said => b.n = Mine
    /\ \A b \in Bills :
          /\ b.to = "pending" => invoices[b.n].status = "failed"
          /\ b.to = "failed" /\ "pending" \notin Said => invoices[b.n].status = "pending"
          /\ b.to = "success" => invoices[b.n].status # "success"
          /\ b.to = "uncollectible" => invoices[b.n].status \in {"pending", "failed"}
    /\ "scheduleRetry" \in Said /\ "failed" \notin Said => invoices[Mine].status = "failed"
    /\ "exhaust" \in Said /\ "attempt" \notin Said /\ "failed" \notin Said =>
          invoices[Mine].status = "failed"
    /\ \A e \in Elems(handler.todo) :
          e.op = "unattempt" => Billed(e.n, "success") \/ Billed(e.n, "uncollectible")

\* A death may lose an outcome, and then the charge is made again.
ChargedOnce ==
    \A i \in DOMAIN invoices :
        /\ invoices[i].charged <= 1 + past.deaths
        /\ invoices[i].status # "success" /\ ~ Billed(i, "success") =>
              invoices[i].charged <= past.deaths
        /\ (invoices[i].status = "success" \/ Billed(i, "success")) =>
              (invoices[i].amount > 0 => invoices[i].charged > 0)

\* Credit that came off an invoice and is still to be spent
Unspent == "spend" \in Said /\ Made
Applied == [i \in DOMAIN invoices |-> invoices[i].applied]

\* The balance, when what an invoice took is not yet spent
CreditOK ==
    /\ credit >= 0
    /\ Unspent => Mine \in DOMAIN invoices /\ invoices[Mine].applied <= credit
    /\ past.deaths = 0 =>
          credit = past.granted - SumTo(Applied, Len(invoices))
                       + (IF Unspent THEN invoices[Mine].applied ELSE 0)

\* Nothing came between a handler and the row.
Whole == past.deaths = 0 /\ ~ past.crossed

\* The moves of the row that a program makes are legal, unless a tool crossed it.
MovesOK ==
    Whole =>
        /\ Ended(core) => handler.todo = <<>> \/ "dispatch" \in Said
        /\ "active" \in Said => core \in {"trialing", "non_renewing", "attention"}
        /\ "attention" \in Said => "active" \in Said \/ core = "active"

\* The job in hand has still to read what it is about.
InHand == ~ running.begun \/ "dispatch" \in Said
IsRenewal(j) == j.kind = "renew" /\ j.due = stored.next

\* The next renewal is queued, in hand, or about to be queued.
Renews ==
    Whole /\ ~ Ended(core) =>
        \/ \E k \in DOMAIN jobs : IsRenewal(jobs[k])
        \/ (IsRenewal(running.job) /\ InHand)
        \/ Said \cap {"scheduleRenewal", "renewNow", "cancelled"} # {}

\* And no tool ended a recovery.
Calm == Whole /\ ~ past.strayed

\* It failed, or is about to.
Failing(i) == invoices[i].status = "failed" \/ Billed(i, "failed")

\* Owed on the record is past due on the row, but for the moves under way.
OwingOK ==
    Calm =>
        /\ stored.owing /\ core # "attention" /\ ~ Ended(core) => "attention" \in Said
        /\ core = "attention" /\ ~ stored.owing =>
              "active" \in Said \/ "cancelled" \in Said
        /\ "active" \in Said /\ core = "attention" => ~ stored.owing
        /\ "attention" \in Said => stored.owing

\* Only the last invoice can be failing, and it is owed.
FailingOK ==
    Calm /\ ~ Ended(core) =>
        /\ \A i \in DOMAIN invoices : Failing(i) =>
              /\ i = Len(invoices) /\ invoices[i].record
              /\ stored.owing \/ "owe" \in Said \/ "cancelled" \in Said
              /\ "trial" \notin Said /\ Made
              /\ "recovered" \in Said => Billed(i, "success")
              /\ "attempt" \in Said => i = Mine
        /\ "attempt" \in Said /\ Made =>
              Mine = Len(invoices) /\ ("record" \notin Said => invoices[Mine].record)

IsRetry(j, i) ==
    /\ j.kind = "retry" /\ j.invoice = i
    /\ j.retry = invoices[i].retries + 1 /\ j.at = invoices[i].next

\* Its retry is queued, in hand, under way, or no longer needed.
Retried(i) ==
    \/ \E k \in DOMAIN jobs : IsRetry(jobs[k], i)
    \/ (IsRetry(running.job, i) /\ InHand)
    \/ (i = Mine /\ Said \cap {"attempt", "scheduleRetry", "exhaust"} # {})
    \/ Billed(i, "success") \/ Billed(i, "uncollectible") \/ "cancelled" \in Said

RetriesOK ==
    Calm /\ ~ Ended(core) => \A i \in DOMAIN invoices : Failing(i) => Retried(i)

\* The inductive invariant of Billing
BillInv ==
    /\ BillTyped /\ ProgramOK /\ JobsWell /\ Timed /\ Standings /\ ChargedOnce /\ CreditOK
    /\ MovesOK /\ Renews /\ OwingOK /\ FailingOK /\ RetriesOK

(***************************************************************************)
(* The table of what may come after, entry by entry.                       *)
(***************************************************************************)
LEMMA LaterIs ==
    /\ Later["dispatch"] = {} /\ Later["attempt"] = {"exhaust"}
    /\ Later["advance"] = {"active", "scheduleRenewal", "carry", "createInvoice",
                           "record", "spend", "attempt"}
    /\ Later["skip"] = {"scheduleRenewal"}
    /\ Later["active"] = {"scheduleRenewal", "carry", "createInvoice", "record", "spend",
                          "attempt", "attention", "scheduleRetry", "exhaust"}
    /\ Later["attention"] = {"scheduleRetry", "exhaust"}
    /\ Later["scheduleRenewal"] = {"carry", "createInvoice", "record", "spend", "attempt"}
    /\ Later["carry"] = {"createInvoice", "record", "spend", "attempt"}
    /\ Later["createInvoice"] = {"record", "spend", "attempt"}
    /\ Later["record"] = {"spend", "attempt"} /\ Later["spend"] = {"attempt"}
    /\ Later["count"] = {"pending", "failed", "owe", "scheduleRetry", "exhaust"}
    /\ Later["pending"] = {"failed", "owe", "scheduleRetry", "exhaust"}
    /\ Later["failed"] = {"owe", "scheduleRetry", "exhaust"}
    /\ Later["owe"] = {"scheduleRetry", "exhaust"} /\ Later["scheduleRetry"] = {"exhaust"}
    /\ Later["exhaust"] = {} /\ Later["recovered"] = {} /\ Later["cancelled"] = {}
    /\ Later["uncollectible"] = {"endRecord", "cancelGroup", "writeOff", "cancelled",
                                 "exhausted"}
    /\ Later["unattempt"] = {"success", "recovered", "uncollectible", "writeOff",
                             "cancelled"}
    /\ Later["success"] = {"recovered"}
    /\ Later["endRecord"] = {"cancelGroup", "writeOff", "cancelled"}
    /\ Later["cancelGroup"] = {"writeOff", "cancelled", "trial", "scheduleRenewal",
                               "renewNow"}
    /\ Later["writeOff"] = {"cancelled"} /\ Later["undo"] = {"active"}
    /\ Later["trial"] = {"scheduleRenewal", "renewNow"}
    /\ Later["exhausted"] = {} /\ Later["retryNow"] = {} /\ Later["renewNow"] = {}
    /\ Later["grant"] = {}
BY DEF Later, CoreMoves, BillMoves, Ops

\* Nothing comes after itself, and nothing before a dispatch.
LEMMA LaterOrder ==
    \A t \in CoreMoves \cup BillMoves \cup Ops : t \notin Later[t] /\ "dispatch" \notin Later[t]
BY DEF Later, CoreMoves, BillMoves, Ops

\* A step's word is the status it moves to, or its operation.
LEMMA TokenTyped ==
    ASSUME NEW e \in StepType
    PROVE  /\ Token(e) \in CoreMoves \cup BillMoves \cup Ops
           /\ e.op \notin Moves => Token(e) = e.op
           /\ e.op \in Moves => Token(e) = e.to
           /\ e.op = "bill" <=> Token(e) \in BillMoves
           /\ e.op = "core" <=> Token(e) \in CoreMoves
BY DEF Token, StepType, Moves, CoreMoves, BillMoves, Ops

\* What is left of a sequence after its first member
LEMMA RestIs ==
    ASSUME NEW S, NEW s \in Seq(S), s # <<>>
    PROVE  /\ Tail(s) \in Seq(S) /\ Head(s) = s[1] /\ Head(s) \in S
           /\ Len(s) \in Nat /\ Len(s) > 0 /\ Len(Tail(s)) = Len(s) - 1
           /\ DOMAIN s = 1..Len(s) /\ DOMAIN Tail(s) = 1..(Len(s) - 1)
           /\ \A k \in 1..(Len(s) - 1) : Tail(s)[k] = s[k + 1]
<1>1. /\ Tail(s) \in Seq(S) /\ Len(Tail(s)) = Len(s) - 1 /\ Head(s) \in S
      /\ \A k \in 1..Len(Tail(s)) : Tail(s)[k] = s[k + 1]
    BY HeadTailProperties
<1>2. Len(s) \in Nat /\ Len(s) > 0 /\ Head(s) = s[1] /\ DOMAIN s = 1..Len(s)
    OBVIOUS
<1>3. DOMAIN Tail(s) = 1..Len(Tail(s))
    BY <1>1
<1> QED
    BY <1>1, <1>2, <1>3

(***************************************************************************)
(* A program taken a step further: what it says is its first word and what *)
(* may come after that.                                                    *)
(***************************************************************************)
LEMMA AfterHead ==
    ASSUME NEW s \in Seq(StepType), s # <<>>, Ordered(s)
    PROVE  /\ Tail(s) \in Seq(StepType) /\ Ordered(Tail(s))
           /\ Head(s) \in StepType
           /\ Elems(s) = {Head(s)} \cup Elems(Tail(s))
           /\ Tokens(s) = {Token(Head(s))} \cup Tokens(Tail(s))
           /\ Tokens(Tail(s)) \subseteq Later[Token(Head(s))]
           /\ Token(Head(s)) \notin Tokens(Tail(s))
<1> DEFINE r == Tail(s)
<1>1. /\ r \in Seq(StepType) /\ Head(s) = s[1] /\ Head(s) \in StepType
      /\ Len(s) \in Nat /\ Len(s) > 0 /\ Len(r) = Len(s) - 1
      /\ DOMAIN s = 1..Len(s) /\ DOMAIN r = 1..(Len(s) - 1)
      /\ \A k \in 1..(Len(s) - 1) : r[k] = s[k + 1]
    BY RestIs
<1> HIDE DEF r
<1>2. \A k \in DOMAIN r : k + 1 \in DOMAIN s /\ r[k] = s[k + 1]
    BY <1>1
<1>3. Ordered(r)
    <2> SUFFICES ASSUME NEW k \in DOMAIN r, NEW l \in DOMAIN r, k < l
                 PROVE  Token(r[l]) \in Later[Token(r[k])]
        BY DEF Ordered
    <2>1. k + 1 \in DOMAIN s /\ l + 1 \in DOMAIN s /\ k + 1 < l + 1
        BY <1>1, <1>2
    <2> QED
        BY <1>2, <2>1 DEF Ordered
<1>4. Elems(s) = {Head(s)} \cup Elems(r)
    <2>1. ASSUME NEW e \in Elems(s) PROVE e = Head(s) \/ e \in Elems(r)
        <3>1. PICK k \in DOMAIN s : e = s[k]
            BY DEF Elems
        <3>2. CASE k = 1
            BY <1>1, <3>1, <3>2
        <3>3. CASE k # 1
            <4>1. k - 1 \in DOMAIN r /\ r[k - 1] = s[k]
                BY <1>1, <3>3
            <4> QED
                BY <3>1, <4>1 DEF Elems
        <3> QED
            BY <3>2, <3>3
    <2>2. Elems(r) \subseteq Elems(s)
        BY <1>2 DEF Elems
    <2>3. Head(s) \in Elems(s)
        BY <1>1 DEF Elems
    <2> QED
        BY <2>1, <2>2, <2>3
<1>5. Tokens(r) \subseteq Later[Token(Head(s))]
    <2>1. ASSUME NEW k \in DOMAIN r PROVE Token(r[k]) \in Later[Token(s[1])]
        <3>1. 1 \in DOMAIN s /\ k + 1 \in DOMAIN s /\ 1 < k + 1
            BY <1>1, <1>2
        <3>2. Token(s[k + 1]) \in Later[Token(s[1])]
            BY <3>1 DEF Ordered
        <3> QED
            BY <1>2, <3>2
    <2> QED
        BY <1>1, <2>1 DEF Tokens, Elems
<1>6. Token(Head(s)) \notin Tokens(r)
    BY <1>1, <1>5, TokenTyped, LaterOrder
<1>7. Tokens(s) = {Token(Head(s))} \cup Tokens(r)
    BY <1>4 DEF Tokens
<1> QED
    BY <1>1, <1>3, <1>4, <1>5, <1>6, <1>7 DEF r

\* Of two programs put together
LEMMA JoinPrograms ==
    ASSUME NEW a \in Seq(StepType), NEW b \in Seq(StepType), Ordered(a), Ordered(b),
           \A x \in Tokens(a), y \in Tokens(b) : y \in Later[x]
    PROVE  /\ a \o b \in Seq(StepType) /\ Ordered(a \o b)
           /\ Elems(a \o b) = Elems(a) \cup Elems(b)
           /\ Tokens(a \o b) = Tokens(a) \cup Tokens(b)
<1> DEFINE r == a \o b
<1>1. /\ r \in Seq(StepType) /\ Len(r) = Len(a) + Len(b) /\ DOMAIN r = 1..Len(r)
      /\ Len(a) \in Nat /\ Len(b) \in Nat
      /\ DOMAIN a = 1..Len(a) /\ DOMAIN b = 1..Len(b)
      /\ \A k \in 1..Len(r) : r[k] = IF k <= Len(a) THEN a[k] ELSE b[k - Len(a)]
    OBVIOUS
<1> HIDE DEF r
<1>2. \A k \in DOMAIN a : k \in DOMAIN r /\ r[k] = a[k]
    BY <1>1
<1>3. \A k \in DOMAIN b : k + Len(a) \in DOMAIN r /\ r[k + Len(a)] = b[k]
    BY <1>1
<1>4. \A k \in DOMAIN r : \/ k \in DOMAIN a /\ r[k] = a[k]
                          \/ k > Len(a) /\ k - Len(a) \in DOMAIN b /\ r[k] = b[k - Len(a)]
    BY <1>1
<1>5. Elems(r) = Elems(a) \cup Elems(b)
    <2>1. Elems(a) \subseteq Elems(r)
        BY <1>2 DEF Elems
    <2>2. Elems(b) \subseteq Elems(r)
        BY <1>3 DEF Elems
    <2>3. Elems(r) \subseteq Elems(a) \cup Elems(b)
        BY <1>4 DEF Elems
    <2> QED
        BY <2>1, <2>2, <2>3
<1>6. Ordered(r)
    <2> SUFFICES ASSUME NEW k \in DOMAIN r, NEW l \in DOMAIN r, k < l
                 PROVE  Token(r[l]) \in Later[Token(r[k])]
        BY DEF Ordered
    <2>1. CASE k \in DOMAIN a /\ r[k] = a[k] /\ l \in DOMAIN a /\ r[l] = a[l]
        BY <2>1 DEF Ordered
    <2>2. CASE /\ k \in DOMAIN a /\ r[k] = a[k]
               /\ l > Len(a) /\ l - Len(a) \in DOMAIN b /\ r[l] = b[l - Len(a)]
        <3>1. Token(r[k]) \in Tokens(a) /\ Token(r[l]) \in Tokens(b)
            BY <2>2 DEF Tokens, Elems
        <3> QED
            BY <3>1
    <2>3. CASE /\ k > Len(a) /\ k - Len(a) \in DOMAIN b /\ r[k] = b[k - Len(a)]
               /\ l > Len(a) /\ l - Len(a) \in DOMAIN b /\ r[l] = b[l - Len(a)]
        <3>1. k - Len(a) < l - Len(a)
            BY <1>1
        <3> QED
            BY <2>3, <3>1 DEF Ordered
    <2>4. CASE /\ k > Len(a) /\ k - Len(a) \in DOMAIN b
               /\ l \in DOMAIN a
        BY <1>1, <2>4
    <2> QED
        BY <1>4, <2>1, <2>2, <2>3, <2>4
<1>7. Tokens(r) = Tokens(a) \cup Tokens(b)
    BY <1>5 DEF Tokens
<1> QED
    BY <1>1, <1>5, <1>6, <1>7 DEF r

\* A program of one step, and the empty one
LEMMA OneStep ==
    ASSUME NEW e \in StepType
    PROVE  /\ <<e>> \in Seq(StepType) /\ Ordered(<<e>>) /\ <<e>> # <<>>
           /\ Elems(<<e>>) = {e} /\ Tokens(<<e>>) = {Token(e)}
<1> DEFINE s == <<e>>
<1>1. s \in Seq(StepType) /\ s # <<>> /\ DOMAIN s = {1} /\ s[1] = e
    OBVIOUS
<1> HIDE DEF s
<1>2. Elems(s) = {e}
    BY <1>1 DEF Elems
<1>3. Ordered(s)
    BY <1>1 DEF Ordered
<1>4. Tokens(s) = {Token(e)}
    BY <1>2 DEF Tokens
<1> QED
    BY <1>1, <1>2, <1>3, <1>4 DEF s

\* An empty program is a program, and says nothing.
LEMMA NoSteps ==
    /\ <<>> \in Seq(StepType) /\ Ordered(<<>>) /\ Elems(<<>>) = {} /\ Tokens(<<>>) = {}
<1>1. Elems(<<>>) = {}
    BY DEF Elems
<1>2. Ordered(<<>>)
    BY DEF Ordered
<1> QED
    BY <1>1, <1>2 DEF Tokens

\* The record beside the row
RecordType ==
    [next : Int, trialEnd : Int, anchor : Int, cycles : Nat, start : Int, end : Int,
     billed : BOOLEAN, ending : BOOLEAN, owing : BOOLEAN, exhausted : BOOLEAN,
     price : Prices, deferred : Nat]

\* The type invariant, with the record's type by its name
LEMMA RecordTyped ==
    BillingTypeOK <=>
        /\ now \in 0..LastTime /\ core \in SubscriptionStatus /\ stored \in RecordType
        /\ card \in Cards /\ credit \in Int /\ invoices \in Seq(Invoice)
        /\ past \in [events : 0..MaxEvents, deaths : 0..MaxEvents, granted : Nat,
                     crossed : BOOLEAN, strayed : BOOLEAN]
BY DEF BillingTypeOK, RecordType

\* ... with one of its fields set
LEMMA RecordFields ==
    ASSUME NEW r \in RecordType
    PROVE  /\ \A x \in Int : /\ [r EXCEPT !.next = x] \in RecordType
                            /\ [r EXCEPT !.anchor = x] \in RecordType
                            /\ [r EXCEPT !.trialEnd = x] \in RecordType
                            /\ [r EXCEPT !.start = x] \in RecordType
                            /\ [r EXCEPT !.end = x] \in RecordType
           /\ \A x \in Nat : /\ [r EXCEPT !.cycles = x] \in RecordType
                            /\ [r EXCEPT !.deferred = x] \in RecordType
           /\ \A x \in BOOLEAN : /\ [r EXCEPT !.billed = x] \in RecordType
                                /\ [r EXCEPT !.ending = x] \in RecordType
                                /\ [r EXCEPT !.owing = x] \in RecordType
                                /\ [r EXCEPT !.exhausted = x] \in RecordType
BY DEF RecordType

\* No step comes after one that it is followed by, nor beside one it excludes.
LEMMA LinkedRest ==
    ASSUME NEW W, NEW R, NEW h \in CoreMoves \cup BillMoves \cup Ops,
           Linked(W), W = {h} \cup R, R \subseteq Later[h]
    PROVE  Linked(R)
<1>1. /\ ("advance" \in R \/ "skip" \in R) => "scheduleRenewal" \in R
      /\ "carry" \in R => "createInvoice" \in R
      /\ "createInvoice" \in R => "record" \in R
      /\ "record" \in R => "spend" \in R
      /\ "spend" \in R => "attempt" \in R
    BY LaterIs DEF Linked
<1>2. /\ "count" \in R => "failed" \in R /\ "owe" \in R
      /\ "pending" \in R => "failed" \in R
      /\ "failed" \in R /\ "exhaust" \in R => "owe" \in R
      /\ ("owe" \in R \/ "attention" \in R) => "scheduleRetry" \in R
    BY LaterIs DEF Linked
<1>3. /\ ("endRecord" \in R \/ "writeOff" \in R) => "cancelled" \in R
      /\ "cancelGroup" \in R => "cancelled" \in R \/ "trial" \in R
      /\ "trial" \in R => ("scheduleRenewal" \in R \/ "renewNow" \in R)
      /\ "active" \in R /\ "spend" \in R => "createInvoice" \in R
      /\ "createInvoice" \in R => "scheduleRetry" \notin R /\ "exhaust" \notin R
    BY LaterIs DEF Linked
<1> QED
    BY <1>1, <1>2, <1>3 DEF Linked

\* The first step is done with; the handler keeps what it has read.
Drops ==
    /\ handler' \in HandlerType
    /\ Current \in StepType /\ Token(Current) \in CoreMoves \cup BillMoves \cup Ops
    /\ Elems(handler.todo) = {Current} \cup Elems(handler'.todo)
    /\ Tokens(handler.todo) = {Token(Current)} \cup Tokens(handler'.todo)
    /\ Tokens(handler'.todo) \subseteq Later[Token(Current)]
    /\ Token(Current) \notin Tokens(handler'.todo)
    /\ handler'.todo = <<>> <=> Tokens(handler'.todo) = {}
    /\ handler'.todo = <<>> <=> handler' = Free
    /\ handler'.by \in {handler.by, "none"}
    /\ Ordered(handler'.todo) /\ Linked(Tokens(handler'.todo))

Keeps ==
    Tokens(handler'.todo) # {} =>
        /\ handler'.at = handler.at /\ handler'.invoice = handler.invoice
        /\ handler'.retry = handler.retry /\ handler'.first = handler.first

\* A program says nothing when it is over, and only then.
LEMMA SaysNothing ==
    ASSUME NEW s \in Seq(StepType)
    PROVE  s = <<>> <=> Tokens(s) = {}
<1>1. ASSUME s # <<>> PROVE Tokens(s) # {}
    <2>1. s[1] \in Elems(s)
        BY <1>1 DEF Elems
    <2> QED
        BY <2>1 DEF Tokens
<1> QED
    BY <1>1, NoSteps

\* The handler that is done with, and has given the lock back
LEMMA FreeHandler ==
    /\ Free \in HandlerType /\ Free.todo = <<>> /\ Free.by = "none"
    /\ Elems(Free.todo) = {} /\ Tokens(Free.todo) = {}
    /\ Ordered(Free.todo) /\ Linked(Tokens(Free.todo))
<1>1. Free.todo = <<>> /\ Free.by = "none"
    BY DEF Free
<1>2. Free \in HandlerType
    BY NoSteps DEF Free, HandlerType, Null
<1>3. Linked({})
    BY DEF Linked
<1> QED
    BY <1>1, <1>2, <1>3, NoSteps

\* A handler that goes on drops its first step and keeps the rest.
LEMMA OnwardDrops ==
    ASSUME BillTyped, ProgramOK, Holds, Onward
    PROVE  Drops /\ Keeps
<1> DEFINE s == handler.todo
           r == Tail(handler.todo)
<1>1. handler \in HandlerType /\ s \in Seq(StepType) /\ s # <<>> /\ Ordered(s) /\ Linked(Tokens(s))
    BY DEF BillTyped, ProgramOK, Holds, HandlerType, Said
<1>2. /\ r \in Seq(StepType) /\ Ordered(r) /\ Current \in StepType
      /\ Elems(s) = {Current} \cup Elems(r)
      /\ Tokens(s) = {Token(Current)} \cup Tokens(r)
      /\ Tokens(r) \subseteq Later[Token(Current)] /\ Token(Current) \notin Tokens(r)
    BY <1>1, AfterHead DEF Current
<1>3. Token(Current) \in CoreMoves \cup BillMoves \cup Ops
    BY <1>2, TokenTyped
<1>4. Linked(Tokens(r))
    BY <1>1, <1>2, <1>3, LinkedRest
<1>5. r = <<>> <=> Tokens(r) = {}
    BY <1>2, SaysNothing
<1>6. handler' = IF r = <<>> THEN Free ELSE [handler EXCEPT !.todo = r]
    BY DEF Onward, Goes
<1> HIDE DEF s, r
<1>7. CASE r = <<>>
    <2>1. handler' = Free
        BY <1>6, <1>7
    <2>2. handler'.todo = r
        BY <1>7, <2>1, FreeHandler
    <2>3. Tokens(handler'.todo) = {} /\ Elems(handler'.todo) = Elems(r)
        BY <2>1, <2>2, FreeHandler
    <2>4. handler' \in HandlerType /\ Ordered(handler'.todo) /\ Linked(Tokens(handler'.todo))
        BY <2>1, FreeHandler
    <2>5. handler'.by = "none"
        BY <2>1, FreeHandler
    <2> QED
        BY <1>2, <1>3, <1>5, <1>7, <2>1, <2>2, <2>3, <2>4, <2>5 DEF Drops, Keeps, s
<1>8. CASE r # <<>>
    <2>1. handler' = [handler EXCEPT !.todo = r]
        BY <1>6, <1>8
    <2>2. /\ handler' \in HandlerType /\ handler'.todo = r
          /\ handler'.by = handler.by /\ handler'.at = handler.at
          /\ handler'.invoice = handler.invoice /\ handler'.retry = handler.retry
          /\ handler'.first = handler.first /\ handler'.extra = handler.extra
        BY <1>1, <1>2, <2>1 DEF HandlerType
    <2>3. handler' # Free
        BY <1>8, <2>2, FreeHandler
    <2> QED
        BY <1>2, <1>3, <1>4, <1>5, <1>8, <2>2, <2>3 DEF Drops, Keeps, s
<1> QED
    BY <1>7, <1>8

-----------------------------------------------------------------------------
(***************************************************************************)
(* A handler that drops its first step disturbs a part of the invariant    *)
(* only by the steps that part speaks of, or by what they do to the rows.  *)
(***************************************************************************)
KeptRows == DOMAIN invoices' = DOMAIN invoices
KeptStatus == KeptRows /\ \A i \in DOMAIN invoices : invoices'[i].status = invoices[i].status
KeptTries == KeptRows /\ \A i \in DOMAIN invoices : /\ invoices'[i].retries = invoices[i].retries
                                                    /\ invoices'[i].next = invoices[i].next
KeptApplied == KeptRows /\ \A i \in DOMAIN invoices : invoices'[i].applied = invoices[i].applied
KeptAmounts == KeptRows /\ \A i \in DOMAIN invoices : /\ invoices'[i].amount = invoices[i].amount
                                                      /\ invoices'[i].charged = invoices[i].charged
KeptRecords == KeptRows /\ \A i \in DOMAIN invoices : invoices[i].record => invoices'[i].record

\* Invoices that are left alone
LEMMA KeptAll ==
    ASSUME UNCHANGED invoices
    PROVE  KeptRows /\ KeptStatus /\ KeptTries /\ KeptApplied /\ KeptAmounts /\ KeptRecords
BY DEF KeptRows, KeptStatus, KeptTries, KeptApplied, KeptAmounts, KeptRecords

\* ... and a history that only counts, or gives credit
KeptPast == /\ past'.deaths = past.deaths
            /\ past'.crossed = past.crossed /\ past'.strayed = past.strayed

JobsStay == \A k \in DOMAIN jobs : \E l \in DOMAIN jobs' : jobs'[l] = jobs[k]

\* Dropping a step leaves a program in order, with what must follow it ...
LEMMA DropsProgram ==
    ASSUME ProgramOK, Drops, running'.begun = running.begun
    PROVE  ProgramOK'
<1>1. "dispatch" \notin Tokens(handler'.todo)
    BY LaterOrder DEF Drops
<1>2. handler'.by = "job" => running'.begun
    BY FreeHandler DEF Drops, ProgramOK
<1> QED
    BY <1>1, <1>2 DEF Drops, ProgramOK, Said

\* ... the attempt under way at its place in the schedule ...
LEMMA DropsTimed ==
    ASSUME Timed, ProgramOK, Drops, Keeps, KeptRows,
           "scheduleRetry" \in Tokens(handler'.todo) => KeptTries,
           Token(Current) \notin {"createInvoice", "count"}
    PROVE  Timed'
<1>1. Trying' => Trying
    BY DEF Trying, Made, Said, Drops
<1>2. Trying' \/ "exhaust" \in Said' =>
         /\ Mine' = Mine /\ handler'.retry = handler.retry /\ handler'.first = handler.first
         /\ handler'.at = handler.at /\ nextAttempt' = nextAttempt
         /\ (OnTime(handler) => OnTime(handler'))
    BY DEF Trying, Made, Said, Drops, Keeps, Mine, nextAttempt, OnTime
<1>3. DOMAIN invoices' = DOMAIN invoices
    BY DEF KeptRows
<1>4. "exhaust" \in Said' => Mine' \in DOMAIN invoices'
    BY <1>2, <1>3 DEF Timed, Said, Drops
<1>5. Trying' =>
          /\ Mine' \in DOMAIN invoices'
          /\ (handler'.retry = 0 /\ handler'.first = Null) \/ OnTime(handler')
    BY <1>1, <1>2, <1>3 DEF Timed
<1>6. Trying' /\ handler'.retry = Len(RetryOffsets) => "exhaust" \in Said'
    <2> SUFFICES ASSUME Trying', handler'.retry = Len(RetryOffsets) PROVE "exhaust" \in Said'
        OBVIOUS
    <2>1. "exhaust" \in Said
        BY <1>1, <1>2 DEF Timed
    <2>2. Token(Current) # "exhaust"
        BY LaterIs DEF Trying, Said, Drops
    <2> QED
        BY <2>1, <2>2 DEF Said, Drops
<1>7. "scheduleRetry" \in Said' /\ "count" \notin Said' =>
          invoices'[Mine'].next = nextAttempt' /\ invoices'[Mine'].retries = handler'.retry
    <2> SUFFICES ASSUME "scheduleRetry" \in Said', "count" \notin Said'
                 PROVE  invoices'[Mine'].next = nextAttempt' /\ invoices'[Mine'].retries = handler'.retry
        OBVIOUS
    <2>1. Trying'
        BY DEF Trying
    <2>2. "scheduleRetry" \in Said /\ "count" \notin Said
        BY DEF Said, Drops
    <2>3. Mine \in DOMAIN invoices
        BY <1>1, <2>1 DEF Timed
    <2> QED
        BY <1>2, <2>1, <2>2, <2>3 DEF Timed, KeptTries, Said
<1> QED
    BY <1>4, <1>5, <1>6, <1>7 DEF Timed

\* Its moves of invoices are those it had, less the one it made.
LEMMA DropsBills ==
    ASSUME Drops
    PROVE  /\ Bills' \subseteq Bills
           /\ \A b \in Bills : b \in Bills' \/ b = Current
           /\ \A i : \A to \in BillMoves :
                 /\ Billed(i, to)' => Billed(i, to)
                 /\ Token(Current) # to => (Billed(i, to) => Billed(i, to)')
<1>1. Bills' \subseteq Bills /\ \A b \in Bills : b \in Bills' \/ b = Current
    BY DEF Drops, Bills
<1>2. \A b \in Bills : b.op = "bill"
    BY DEF Bills
<1>3. Current.op = "bill" => Token(Current) = Current.to
    BY DEF Token, Moves
<1> QED
    BY <1>1, <1>2, <1>3 DEF Billed

\* ... every move of an invoice still legal ...
LEMMA DropsStandings ==
    ASSUME Standings, Timed, Drops, Keeps, KeptStatus,
           Token(Current) \notin {"createInvoice", "pending", "failed", "attempt"}
    PROVE  Standings'
<1>1. /\ DOMAIN invoices' = DOMAIN invoices
      /\ \A i \in DOMAIN invoices : invoices'[i].status = invoices[i].status
    BY DEF KeptStatus, KeptRows
<1>2. /\ Said' \subseteq Said /\ Bills' \subseteq Bills
      /\ \A x \in Said : x \in Said' \/ x = Token(Current)
      /\ Said' # {} => Mine' = Mine
    BY DropsBills DEF Said, Drops, Keeps, Mine
<1>3. /\ "record" \in Said' => "attempt" \in Said'
      /\ "attempt" \in Said' /\ Made' => Mine \in DOMAIN invoices /\ Made
      /\ "scheduleRetry" \in Said' => Mine \in DOMAIN invoices
      /\ "exhaust" \in Said' => Mine \in DOMAIN invoices
    <2>1. Linked(Said')
        BY DEF Drops, Said
    <2>2. "record" \in Said' => "attempt" \in Said'
        BY <2>1 DEF Linked
    <2>3. Made' => Made
        BY <1>2 DEF Made
    <2> QED
        BY <1>2, <2>2, <2>3 DEF Timed, Trying
<1>4. /\ \A i \in DOMAIN invoices' : invoices'[i].status \in BillMoves
      /\ "record" \in Said' /\ Made' => invoices'[Mine'].status = "pending"
      /\ "attempt" \in Said' /\ Made' => invoices'[Mine'].status \in {"pending", "failed"}
    BY <1>1, <1>2, <1>3 DEF Standings
<1>5. /\ \A b \in Bills' : b.n \in DOMAIN invoices'
      /\ \A b, c \in Bills' : b.n = c.n
      /\ \A b \in Bills' : "scheduleRetry" \in Said' => b.n = Mine'
    BY <1>1, <1>2 DEF Standings
<1>6. \A b \in Bills' :
          /\ b.to = "pending" => invoices'[b.n].status = "failed"
          /\ b.to = "failed" /\ "pending" \notin Said' => invoices'[b.n].status = "pending"
          /\ b.to = "success" => invoices'[b.n].status # "success"
          /\ b.to = "uncollectible" => invoices'[b.n].status \in {"pending", "failed"}
    BY <1>1, <1>2 DEF Standings
<1>7. /\ "scheduleRetry" \in Said' /\ "failed" \notin Said' => invoices'[Mine'].status = "failed"
      /\ "exhaust" \in Said' /\ "attempt" \notin Said' /\ "failed" \notin Said' =>
            invoices'[Mine'].status = "failed"
    BY <1>1, <1>2, <1>3 DEF Standings
<1>8. ASSUME NEW e \in Elems(handler'.todo), e.op = "unattempt"
      PROVE  Billed(e.n, "success")' \/ Billed(e.n, "uncollectible")'
    <2>1. e \in Elems(handler.todo) /\ Token(e) = "unattempt"
        BY <1>8 DEF Drops, Token, Moves
    <2>2. "unattempt" \in Tokens(handler'.todo)
        BY <2>1 DEF Tokens
    <2>3. Token(Current) # "success" /\ Token(Current) # "uncollectible"
        BY <2>2, LaterIs DEF Drops
    <2>4. Billed(e.n, "success") \/ Billed(e.n, "uncollectible")
        BY <1>8, <2>1 DEF Standings
    <2> QED
        BY <2>3, <2>4, DropsBills DEF BillMoves
<1> QED
    BY <1>4, <1>5, <1>6, <1>7, <1>8 DEF Standings

\* ... as many charges as were allowed ...
LEMMA DropsCharged ==
    ASSUME ChargedOnce, Drops, KeptStatus, KeptAmounts, past'.deaths = past.deaths,
           Token(Current) # "success"
    PROVE  ChargedOnce'
<1>1. /\ DOMAIN invoices' = DOMAIN invoices
      /\ \A i \in DOMAIN invoices :
            /\ invoices'[i].status = invoices[i].status
            /\ invoices'[i].amount = invoices[i].amount
            /\ invoices'[i].charged = invoices[i].charged
    BY DEF KeptStatus, KeptRows, KeptAmounts
<1>2. \A i : Billed(i, "success")' <=> Billed(i, "success")
    BY DropsBills DEF BillMoves
<1> QED
    BY <1>1, <1>2 DEF ChargedOnce

\* The sum of what came off the invoices, when nothing more did
LEMMA SameApplied ==
    ASSUME BillTyped, BillTyped', KeptApplied
    PROVE  Applied' = Applied /\ Len(invoices') = Len(invoices)
<1>1. Applied' = Applied
    BY DEF KeptApplied, KeptRows, Applied
<1>2. Len(invoices') = Len(invoices)
    BY DEF BillTyped, BillingTypeOK, KeptApplied, KeptRows
<1> QED
    BY <1>1, <1>2

\* ... the credit spent or still to be spent ...
LEMMA DropsCredit ==
    ASSUME CreditOK, BillTyped, BillTyped', Drops, Keeps, KeptApplied, UNCHANGED credit,
           past'.deaths = past.deaths, past'.granted = past.granted,
           Token(Current) \notin {"spend", "createInvoice"}
    PROVE  CreditOK'
<1>1. Applied' = Applied /\ Len(invoices') = Len(invoices)
    BY SameApplied
<1>2. Unspent' <=> Unspent
    BY DEF Unspent, Made, Said, Drops
<1>3. Unspent' => Mine' = Mine
    BY DEF Unspent, Said, Drops, Keeps, Mine
<1>4. Unspent => Mine \in DOMAIN invoices /\ invoices[Mine].applied <= credit
    BY DEF CreditOK
<1>5. Unspent' => /\ Mine' \in DOMAIN invoices' /\ invoices'[Mine'].applied <= credit'
                  /\ invoices'[Mine'].applied = invoices[Mine].applied
    BY <1>2, <1>3, <1>4 DEF KeptApplied, KeptRows
<1> QED
    BY <1>1, <1>2, <1>5 DEF CreditOK

\* ... every move of the row still legal ...
LEMMA DropsMoves ==
    ASSUME MovesOK, Drops, UNCHANGED core, KeptPast, Token(Current) # "active"
    PROVE  MovesOK'
<1>1. "dispatch" \in Said => handler'.todo = <<>>
    BY LaterIs, LaterOrder DEF Said, Drops
<1>2. Said # {}
    BY DEF Said, Drops
<1>3. /\ "active" \in Said' => "active" \in Said
      /\ "active" \in Said => "active" \in Said'
      /\ "attention" \in Said' => "attention" \in Said
    BY DEF Said, Drops
<1>4. handler.todo # <<>>
    BY NoSteps, <1>2 DEF Said
<1> QED
    BY <1>1, <1>3, <1>4 DEF MovesOK, Whole, KeptPast

\* ... the next renewal queued or about to be, unless the step queued it ...
LEMMA DropsRenews ==
    ASSUME Renews, Drops, Ended(core) => Ended(core'), JobsStay, KeptPast,
           running'.begun = running.begun, running'.job = running.job,
           stored'.next = stored.next,
           Token(Current) \notin {"dispatch", "scheduleRenewal", "renewNow", "cancelled"}
    PROVE  Renews'
<1>1. \A x \in {"dispatch", "scheduleRenewal", "renewNow", "cancelled"} : x \in Said => x \in Said'
    BY DEF Said, Drops
<1>2. InHand => InHand'
    BY <1>1 DEF InHand
<1>3. Said \cap {"scheduleRenewal", "renewNow", "cancelled"} # {} =>
         Said' \cap {"scheduleRenewal", "renewNow", "cancelled"} # {}
    BY <1>1
<1> QED
    BY <1>2, <1>3 DEF Renews, Whole, IsRenewal, KeptPast, JobsStay, Ended

\* ... the row past due when money is owed, or about to be ...
LEMMA DropsOwing ==
    ASSUME OwingOK, Drops, UNCHANGED core, KeptPast, stored'.owing = stored.owing,
           Token(Current) \notin {"active", "attention", "cancelled"}
    PROVE  OwingOK'
<1>1. \A x \in {"active", "attention", "cancelled"} : x \in Said <=> x \in Said'
    BY DEF Said, Drops
<1> QED
    BY <1>1 DEF OwingOK, Calm, Whole, KeptPast

\* ... at most the last invoice failing, and owed ...
LEMMA DropsFailing ==
    ASSUME FailingOK, Timed, Drops, Keeps, Ended(core) => Ended(core'), KeptPast,
           stored.owing => stored'.owing \/ "cancelled" \in Tokens(handler'.todo),
           BillTyped, BillTyped', KeptStatus, KeptRecords,
           Token(Current) \notin {"owe", "cancelled", "createInvoice", "success"},
           Token(Current) = "record" => invoices'[Mine].record
    PROVE  FailingOK'
<1>1. /\ DOMAIN invoices' = DOMAIN invoices
      /\ \A i \in DOMAIN invoices :
            /\ invoices'[i].status = invoices[i].status
            /\ invoices[i].record => invoices'[i].record
    BY DEF KeptStatus, KeptRows, KeptRecords
<1>2. Len(invoices') = Len(invoices)
    BY <1>1 DEF BillTyped, BillingTypeOK
<1>3. /\ \A x \in {"owe", "cancelled", "createInvoice"} : x \in Said <=> x \in Said'
      /\ "record" \in Said => "record" \in Said' \/ invoices'[Mine].record
      /\ stored.owing => stored'.owing \/ "cancelled" \in Said'
    BY DEF Said, Drops
<1>4. /\ Said' \subseteq Said
      /\ "attempt" \in Said' => Mine' = Mine
    BY DEF Said, Drops, Keeps, Mine
<1>5. \A i \in DOMAIN invoices : Failing(i)' => Failing(i)
    BY <1>1, DropsBills DEF Failing, BillMoves
<1>6. \A i : Billed(i, "success") => Billed(i, "success")'
    BY DropsBills DEF BillMoves
<1>7. (Calm /\ ~ Ended(core))' => (Calm /\ ~ Ended(core))
    BY DEF Calm, Whole, KeptPast, Ended
<1> SUFFICES ASSUME (Calm /\ ~ Ended(core))'
             PROVE  /\ \A i \in DOMAIN invoices' : Failing(i)' =>
                          /\ i = Len(invoices') /\ invoices'[i].record
                          /\ stored'.owing \/ "owe" \in Said' \/ "cancelled" \in Said'
                          /\ "trial" \notin Said' /\ Made'
                          /\ "recovered" \in Said' => Billed(i, "success")'
                          /\ "attempt" \in Said' => i = Mine'
                    /\ "attempt" \in Said' /\ Made' =>
                          Mine' = Len(invoices') /\ ("record" \notin Said' => invoices'[Mine'].record)
    BY DEF FailingOK
<1>8. Made' <=> Made
    BY <1>3 DEF Made
<1>9. ASSUME NEW i \in DOMAIN invoices', Failing(i)'
      PROVE  /\ i = Len(invoices') /\ invoices'[i].record
             /\ stored'.owing \/ "owe" \in Said' \/ "cancelled" \in Said'
             /\ "trial" \notin Said' /\ Made'
             /\ "recovered" \in Said' => Billed(i, "success")'
             /\ "attempt" \in Said' => i = Mine'
    <2>1. i \in DOMAIN invoices /\ Failing(i)
        BY <1>1, <1>5, <1>9
    <2>2. /\ i = Len(invoices) /\ invoices[i].record
          /\ stored.owing \/ "owe" \in Said \/ "cancelled" \in Said
          /\ "trial" \notin Said /\ Made
          /\ "recovered" \in Said => Billed(i, "success")
          /\ "attempt" \in Said => i = Mine
        BY <1>7, <2>1 DEF FailingOK
    <2> QED
        BY <1>1, <1>2, <1>3, <1>4, <1>6, <1>8, <2>1, <2>2
<1>10. ASSUME "attempt" \in Said', Made'
       PROVE  Mine' = Len(invoices') /\ ("record" \notin Said' => invoices'[Mine'].record)
    <2>1. "attempt" \in Said /\ Made /\ Mine' = Mine
        BY <1>4, <1>8, <1>10
    <2>2. Mine = Len(invoices) /\ ("record" \notin Said => invoices[Mine].record)
        BY <1>7, <2>1 DEF FailingOK
    <2>3. Mine \in DOMAIN invoices
        BY <2>1 DEF Timed, Trying
    <2> QED
        BY <1>1, <1>2, <1>3, <2>1, <2>2, <2>3
<1> QED
    BY <1>9, <1>10

\* ... and its retry queued or about to be.
LEMMA DropsRetries ==
    ASSUME RetriesOK, Drops, Keeps, Ended(core) => Ended(core'), KeptPast, JobsStay,
           running'.begun = running.begun, running'.job = running.job, KeptStatus,
           \A i \in DOMAIN invoices :
              \/ invoices'[i].retries = invoices[i].retries /\ invoices'[i].next = invoices[i].next
              \/ Billed(i, "success")' \/ Billed(i, "uncollectible")'
              \/ i = Mine' /\ "scheduleRetry" \in Tokens(handler'.todo),
           Token(Current) \notin {"dispatch", "attempt", "scheduleRetry", "exhaust", "success",
                                  "uncollectible", "cancelled"}
    PROVE  RetriesOK'
<1>1. /\ DOMAIN invoices' = DOMAIN invoices
      /\ \A i \in DOMAIN invoices :
            /\ invoices'[i].status = invoices[i].status
            /\ \/ /\ invoices'[i].retries = invoices[i].retries
                  /\ invoices'[i].next = invoices[i].next
               \/ Retried(i)'
    BY DEF KeptStatus, KeptRows, Retried, Said
<1>2. /\ \A x \in {"attempt", "scheduleRetry", "exhaust", "cancelled", "dispatch"} :
            x \in Said => x \in Said'
      /\ Said' # {} => Mine' = Mine
    BY DEF Said, Drops, Keeps, Mine
<1>3. \A i \in DOMAIN invoices : Failing(i)' => Failing(i)
    BY <1>1, DropsBills DEF Failing, BillMoves
<1>4. \A i : /\ Billed(i, "success") => Billed(i, "success")'
             /\ Billed(i, "uncollectible") => Billed(i, "uncollectible")'
    BY DropsBills DEF BillMoves
<1>5. (Calm /\ ~ Ended(core))' => (Calm /\ ~ Ended(core))
    BY DEF Calm, Whole, KeptPast, Ended
<1>6. InHand => InHand'
    BY <1>2 DEF InHand
<1> SUFFICES ASSUME (Calm /\ ~ Ended(core))', NEW i \in DOMAIN invoices', Failing(i)'
             PROVE  Retried(i)'
    BY DEF RetriesOK
<1>7. i \in DOMAIN invoices /\ Retried(i)
    BY <1>1, <1>3, <1>5 DEF RetriesOK
<1>8. CASE \E k \in DOMAIN jobs : IsRetry(jobs[k], i)
    BY <1>1, <1>7, <1>8 DEF Retried, IsRetry, JobsStay
<1>9. CASE IsRetry(running.job, i) /\ InHand
    BY <1>1, <1>6, <1>7, <1>9 DEF Retried, IsRetry
<1>10. CASE i = Mine /\ Said \cap {"attempt", "scheduleRetry", "exhaust"} # {}
    BY <1>2, <1>10 DEF Retried
<1>11. CASE Billed(i, "success") \/ Billed(i, "uncollectible") \/ "cancelled" \in Said
    BY <1>2, <1>4, <1>11 DEF Retried
<1> QED
    BY <1>7, <1>8, <1>9, <1>10, <1>11 DEF Retried

\* The jobs stand by rows that stay.
LEMMA SameJobs ==
    ASSUME JobsWell, UNCHANGED <<jobs, running>>, DOMAIN invoices \subseteq DOMAIN invoices'
    PROVE  JobsWell'
BY DEF JobsWell, JobOK, OnTime

-----------------------------------------------------------------------------
(***************************************************************************)
(* The steps of a handler that only go on: each disturbs what its own word *)
(* is about, and nothing else.                                             *)
(***************************************************************************)
LEMMA WriteRecordStep ==
    ASSUME BillInv, WriteRecord
    PROVE  BillInv'
<1> USE DEF BillInv
<1>1. /\ Holds /\ Onward
      /\ Current.op \in {"advance", "skip", "endRecord", "undo", "exhausted"}
      /\ UNCHANGED <<now, core, card, credit, invoices, jobs, running, past>>
    BY DEF WriteRecord
<1>2. Drops /\ Keeps
    BY <1>1, OnwardDrops
<1>3. Token(Current) = Current.op
    BY <1>1 DEF Token, Moves
<1>4. KeptRows /\ KeptStatus /\ KeptTries /\ KeptApplied /\ KeptAmounts /\ KeptRecords
    BY <1>1, KeptAll
<1>5. KeptPast /\ JobsStay /\ (Ended(core) => Ended(core'))
    BY <1>1 DEF KeptPast, JobsStay
<1>6. stored \in RecordType /\ stored' \in RecordType
    <2>1. stored \in RecordType
        BY RecordTyped DEF BillTyped
    <2> DEFINE due  == stored.next
               base == IF due = stored.trialEnd THEN due ELSE stored.anchor
               k    == IF due = stored.trialEnd THEN 1 ELSE stored.cycles + 1
               far  == periodBoundary(base, k)
               next == periodBoundary(stored.anchor, stored.cycles + 1)
    <2>2. due \in Int /\ base \in Int /\ k \in Nat /\ far \in Int /\ next \in Int
          /\ stored.cycles + 1 \in Nat
        BY <2>1, PeriodAssumption DEF periodBoundary, RecordType
    <2>3. \/ stored' = [stored EXCEPT !.anchor = base, !.cycles = k, !.start = due,
                           !.end = far, !.next = far, !.billed = TRUE]
          \/ stored' = [stored EXCEPT !.cycles = stored.cycles + 1, !.start = due, !.end = next,
                           !.next = next, !.billed = FALSE]
          \/ stored' = [stored EXCEPT !.owing = FALSE, !.next = Null]
          \/ stored' = [stored EXCEPT !.ending = FALSE]
          \/ stored' = [stored EXCEPT !.exhausted = TRUE]
        BY DEF WriteRecord
    <2> HIDE DEF due, base, k, far, next
    <2>4. [stored EXCEPT !.anchor = base, !.cycles = k, !.start = due,
                !.end = far, !.next = far, !.billed = TRUE] \in RecordType
        BY <2>1, <2>2 DEF RecordType
    <2>5. [stored EXCEPT !.cycles = stored.cycles + 1, !.start = due, !.end = next,
                !.next = next, !.billed = FALSE] \in RecordType
        BY <2>1, <2>2 DEF RecordType
    <2>6. [stored EXCEPT !.owing = FALSE, !.next = Null] \in RecordType
        <3>1. Null \in Int
            BY DEF Null
        <3> DEFINE r == [stored EXCEPT !.owing = FALSE]
        <3>2. r \in RecordType /\ [r EXCEPT !.next = Null] = [stored EXCEPT !.owing = FALSE, !.next = Null]
            BY <2>1, RecordFields
        <3> QED
            BY <3>1, <3>2, RecordFields
    <2>7. /\ [stored EXCEPT !.ending = FALSE] \in RecordType
          /\ [stored EXCEPT !.exhausted = TRUE] \in RecordType
        BY <2>1, RecordFields
    <2> QED
        BY <2>1, <2>3, <2>4, <2>5, <2>6, <2>7
<1>7. BillTyped'
    <2>1. BillingTypeOK'
        BY <1>1, <1>6, RecordTyped DEF BillTyped, BillingTypeOK, RecordType
    <2> QED
        BY <1>1, <1>2, <2>1 DEF BillTyped, Drops
<1>8. ProgramOK' /\ JobsWell'
    BY <1>1, <1>2, DropsProgram, SameJobs
<1>9. Timed' /\ Standings' /\ ChargedOnce' /\ CreditOK' /\ MovesOK' /\ RetriesOK'
    <2>1. Timed'
        BY <1>2, <1>3, <1>1, <1>4, DropsTimed
    <2>2. Standings'
        BY <1>2, <1>3, <1>1, <1>4, DropsStandings
    <2>3. ChargedOnce'
        BY <1>2, <1>3, <1>1, <1>4, DropsCharged
    <2>4. CreditOK'
        BY <1>2, <1>3, <1>1, <1>4, <1>7, DropsCredit
    <2>5. MovesOK'
        BY <1>2, <1>3, <1>1, <1>5, DropsMoves
    <2>6. RetriesOK'
        BY <1>2, <1>3, <1>1, <1>4, <1>5, DropsRetries DEF KeptTries
    <2> QED
        BY <2>1, <2>2, <2>3, <2>4, <2>5, <2>6
<1>10. /\ Current.op \in {"advance", "skip", "undo", "exhausted"} => stored'.owing = stored.owing
       /\ Current.op \in {"undo", "exhausted"} => stored'.next = stored.next
       /\ Current.op = "endRecord" => stored'.owing = FALSE
    BY <1>6 DEF WriteRecord, RecordType
<1>11. /\ Current.op \in {"advance", "skip"} => "scheduleRenewal" \in Said'
       /\ Current.op = "endRecord" => "cancelled" \in Said'
    BY <1>2, <1>3 DEF ProgramOK, Linked, Said, Drops
<1>12. Renews'
    <2>1. CASE Current.op \in {"undo", "exhausted"}
        BY <1>1, <1>2, <1>3, <1>5, <1>10, <2>1, DropsRenews
    <2>2. CASE Current.op \in {"advance", "skip", "endRecord"}
        BY <1>11, <2>2 DEF Renews
    <2> QED
        BY <1>1, <2>1, <2>2
<1>13. OwingOK'
    <2>1. CASE Current.op # "endRecord"
        BY <1>1, <1>2, <1>3, <1>5, <1>10, <2>1, DropsOwing
    <2>2. CASE Current.op = "endRecord"
        <3>1. "attention" \notin Said'
            BY <1>2, <1>3, <2>2, LaterIs DEF Said, Drops
        <3> QED
            BY <1>10, <1>11, <2>2, <3>1 DEF OwingOK
    <2> QED
        BY <2>1, <2>2
<1>14. FailingOK'
    <2>1. stored.owing => stored'.owing \/ "cancelled" \in Tokens(handler'.todo)
        BY <1>1, <1>10, <1>11 DEF Said
    <2> QED
        BY <1>1, <1>2, <1>3, <1>4, <1>5, <1>7, <2>1, DropsFailing
<1> QED
    BY <1>7, <1>8, <1>9, <1>12, <1>13, <1>14

\* The moves of the row and of an invoice that the programs make
LEMMA RowMoves ==
    ASSUME NEW s \in SubscriptionStatus, NEW to \in SubscriptionStatus
    PROVE  /\ assertSubscriptionTransition(s, to) => ~ Ended(s)
           /\ s \in {"trialing", "non_renewing", "attention"} =>
                 assertSubscriptionTransition(s, "active")
           /\ assertSubscriptionTransition("active", "attention")
           /\ ~ Ended(s) => assertSubscriptionTransition(s, "cancelled")
BY DEF assertSubscriptionTransition, SUBSCRIPTION_TRANSITIONS, SubscriptionStatus, Ended

\* The moves of an invoice that collection makes are in the table.
LEMMA InvoiceMoves ==
    /\ assertInvoiceTransition("failed", "pending") /\ assertInvoiceTransition("pending", "failed")
    /\ \A s \in {"pending", "failed", "uncollectible"} : assertInvoiceTransition(s, "success")
    /\ \A s \in {"pending", "failed"} : assertInvoiceTransition(s, "uncollectible")
BY DEF assertInvoiceTransition, INVOICE_TRANSITIONS, InvoiceStatus

(***************************************************************************)
(* A handler that gives up, with no invoice paid for and no credit spent   *)
(* in between, leaves the invoices as they should be.                      *)
(***************************************************************************)
LEMMA Freed ==
    ASSUME BillTyped, BillTyped', Standings, ChargedOnce, CreditOK, handler' = Free,
           UNCHANGED <<invoices, credit>>, KeptPast, past'.granted = past.granted,
           "success" \notin Said, ~ Unspent
    PROVE  ProgramOK' /\ Timed' /\ Standings' /\ ChargedOnce' /\ CreditOK' /\ MovesOK'
<1>1. Said' = {} /\ Elems(handler'.todo) = {} /\ handler'.todo = <<>> /\ handler'.by = "none"
    BY FreeHandler DEF Said
<1>2. ProgramOK'
    BY <1>1, FreeHandler DEF ProgramOK, Said
<1>3. Timed'
    BY <1>1 DEF Timed, Trying
<1>4. Bills' = {}
    BY <1>1 DEF Bills
<1>5. Standings'
    BY <1>1, <1>4 DEF Standings
<1>6. \A i, to : ~ Billed(i, to)'
    BY <1>4 DEF Billed
<1>7. \A i : ~ Billed(i, "success")
    BY DEF Billed, Bills, Said, Tokens, Token, Moves
<1>8. ChargedOnce'
    BY <1>6, <1>7 DEF ChargedOnce, KeptPast
<1>9. CreditOK'
    <2>1. ~ Unspent' /\ Applied' = Applied
        BY <1>1 DEF Unspent, Applied
    <2> QED
        BY <2>1 DEF CreditOK, KeptPast
<1>10. MovesOK'
    BY <1>1 DEF MovesOK
<1> QED
    BY <1>2, <1>3, <1>5, <1>8, <1>9, <1>10

\* transitionSubscription: the row moves, and no move is refused unless a tool crossed.
LEMMA SubscriptionStep ==
    ASSUME BillInv, transitionSubscription
    PROVE  BillInv'
<1> USE DEF BillInv
<1> DEFINE h == Current.to
<1>1. /\ Holds /\ Current.op = "core"
      /\ UNCHANGED <<now, stored, card, credit, invoices, jobs, running, past>>
    BY DEF transitionSubscription, At
<1>2. /\ handler.todo \in Seq(StepType) /\ handler.todo # <<>> /\ Ordered(handler.todo)
      /\ handler \in HandlerType
    BY <1>1 DEF BillTyped, HandlerType, ProgramOK, Holds
<1>3. /\ Current \in StepType /\ h \in CoreMoves /\ Token(Current) = h
      /\ Said = {h} \cup Tokens(Tail(handler.todo))
      /\ Tokens(Tail(handler.todo)) \subseteq Later[h]
      /\ h \notin Tokens(Tail(handler.todo))
    BY <1>1, <1>2, AfterHead, TokenTyped DEF Current, Said, StepType, Moves
<1>4. core \in SubscriptionStatus /\ h \in SubscriptionStatus
    BY <1>3 DEF BillTyped, BillingTypeOK, CoreMoves, SubscriptionStatus
<1>5. "dispatch" \notin Said
    BY <1>3, LaterIs DEF CoreMoves
<1>6. Whole => ~ Ended(core)
    BY <1>1, <1>5 DEF MovesOK, Holds
<1>7. KeptRows /\ KeptStatus /\ KeptTries /\ KeptApplied /\ KeptAmounts /\ KeptRecords
    BY <1>1, KeptAll
<1>8. KeptPast /\ JobsStay
    BY <1>1 DEF KeptPast, JobsStay
<1> HIDE DEF h
<1>9. CASE assertSubscriptionTransition(core, h)
    <2>1. core' = h /\ Onward
        BY <1>9 DEF transitionSubscription, h
    <2>2. Drops /\ Keeps
        BY <1>1, <2>1, OnwardDrops
    <2>3. ~ Ended(core)
        BY <1>4, <1>9, RowMoves
    <2>4. BillTyped'
        <3>1. BillingTypeOK'
            BY <1>1, <1>4, <2>1 DEF BillTyped, BillingTypeOK
        <3> QED
            BY <1>1, <2>2, <3>1 DEF BillTyped, Drops
    <2>5. ProgramOK' /\ JobsWell'
        BY <1>1, <2>2, DropsProgram, SameJobs
    <2>6. Timed' /\ Standings' /\ ChargedOnce' /\ CreditOK'
        <3>1. Timed'
            BY <1>3, <1>7, <2>2, DropsTimed DEF CoreMoves
        <3>2. Standings'
            BY <1>3, <1>7, <2>2, DropsStandings DEF CoreMoves
        <3>3. ChargedOnce'
            BY <1>1, <1>3, <1>7, <2>2, DropsCharged DEF CoreMoves
        <3>4. CreditOK'
            BY <1>1, <1>3, <1>7, <2>2, <2>4, DropsCredit DEF CoreMoves
        <3> QED
            BY <3>1, <3>2, <3>3, <3>4
    <2>7. /\ Said = {h} \cup Said' /\ Said' \subseteq Later[h] /\ h \notin Said'
          /\ handler'.todo = <<>> <=> Said' = {}
        BY <1>3, <2>2 DEF Drops, Said
    <2>8. "active" \notin Said' /\ (h = "cancelled" => Said' = {})
          /\ (h = "attention" => "attention" \notin Said')
        BY <1>3, <2>7, LaterIs DEF CoreMoves
    <2>9. MovesOK'
        <3>1. Ended(core') => h = "cancelled"
            BY <1>3, <2>1 DEF Ended, CoreMoves
        <3>2. "attention" \in Said' => core' = "active"
            BY <1>3, <2>1, <2>8 DEF CoreMoves
        <3> QED
            BY <2>7, <2>8, <3>1, <3>2 DEF MovesOK
    <2>10. OwingOK'
        <3>1. Calm' => Calm /\ Whole
            BY <1>1 DEF Calm, Whole
        <3>2. CASE h = "active"
            BY <1>1, <2>1, <2>3, <2>7, <2>8, <3>1, <3>2 DEF OwingOK, Ended
        <3>3. CASE h = "attention"
            BY <1>1, <2>1, <2>3, <2>7, <2>8, <3>1, <3>3 DEF OwingOK, Ended
        <3>4. CASE h = "cancelled"
            BY <1>1, <2>1, <2>7, <2>8, <3>4 DEF OwingOK, Ended
        <3> QED
            BY <1>3, <3>2, <3>3, <3>4 DEF CoreMoves
    <2>11. CASE h = "cancelled"
        <3>1. Ended(core')
            BY <2>1, <2>11 DEF Ended
        <3>2. Renews' /\ FailingOK' /\ RetriesOK'
            BY <3>1 DEF Renews, FailingOK, RetriesOK
        <3> QED
            BY <2>4, <2>5, <2>6, <2>9, <2>10, <3>2
    <2>12. CASE h # "cancelled"
        <3>1. Renews'
            BY <1>1, <1>3, <1>8, <2>2, <2>3, <2>12, DropsRenews DEF CoreMoves
        <3>2. FailingOK'
            BY <1>1, <1>3, <1>7, <1>8, <2>2, <2>3, <2>4, <2>12, DropsFailing DEF CoreMoves
        <3>3. RetriesOK'
            BY <1>1, <1>3, <1>7, <1>8, <2>2, <2>3, <2>12, DropsRetries DEF CoreMoves, KeptTries
        <3> QED
            BY <2>4, <2>5, <2>6, <2>9, <2>10, <3>1, <3>2, <3>3
    <2> QED
        BY <2>11, <2>12
<1>10. CASE ~ assertSubscriptionTransition(core, h)
    <2>1. core' = core /\ handler' = Free
        BY <1>10 DEF transitionSubscription, h, Stops
    <2>2. ~ Whole
        <3> SUFFICES ASSUME Whole PROVE FALSE
            OBVIOUS
        <3>1. h = "active" => core \in {"trialing", "non_renewing", "attention"}
            BY <1>3 DEF MovesOK
        <3>2. h = "attention" => core = "active"
            <4>1. h = "attention" => "active" \notin Said
                BY <1>3, LaterIs DEF CoreMoves
            <4> QED
                BY <1>3, <4>1 DEF MovesOK
        <3> QED
            BY <1>3, <1>4, <1>6, <1>10, <3>1, <3>2, RowMoves DEF CoreMoves
    <2>3. ~ Whole'
        BY <1>1, <2>2 DEF Whole
    <2>4. BillTyped'
        <3>1. BillingTypeOK'
            BY <1>1, <2>1 DEF BillTyped, BillingTypeOK
        <3> QED
            BY <1>1, <2>1, <3>1, FreeHandler DEF BillTyped
    <2>5. "success" \notin Said
        BY <1>3, LaterIs DEF CoreMoves
    <2>6. ~ Unspent
        <3>1. "spend" \in Said => h = "active"
            BY <1>3, LaterIs DEF CoreMoves
        <3> QED
            BY <1>3, <3>1 DEF Unspent, Made, ProgramOK, Linked
    <2>7. ProgramOK' /\ Timed' /\ Standings' /\ ChargedOnce' /\ CreditOK' /\ MovesOK'
        BY <1>1, <1>8, <2>1, <2>4, <2>5, <2>6, Freed
    <2>8. JobsWell'
        BY <1>1, SameJobs
    <2>9. Renews' /\ OwingOK' /\ FailingOK' /\ RetriesOK'
        BY <2>3 DEF Renews, OwingOK, FailingOK, RetriesOK, Calm
    <2> QED
        BY <2>4, <2>7, <2>8, <2>9
<1> QED
    BY <1>9, <1>10

\* The offsets of the retries grow.
LEMMA OffsetsGrow ==
    /\ Len(RetryOffsets) \in Nat /\ Len(RetryOffsets) > 0
    /\ \A k \in 1..Len(RetryOffsets) : RetryOffsets[k] \in Nat /\ RetryOffsets[k] > 0
    /\ \A k \in 1..Len(RetryOffsets) - 1 : RetryOffsets[k] < RetryOffsets[k + 1]
    /\ LastTime \in Nat
<1>1. Len(RetryOffsets) \in Nat /\ Len(RetryOffsets) > 0
    BY RetryAssumption
<1>2. \A k \in 1..Len(RetryOffsets) : RetryOffsets[k] \in Nat /\ RetryOffsets[k] > 0
    BY RetryAssumption
<1>3. \A k \in 1..Len(RetryOffsets) - 1 : RetryOffsets[k] < RetryOffsets[k + 1]
    BY RetryAssumption
<1>4. LastTime \in Nat
    BY <1>1, <1>2, BillingBounds DEF LastTime
<1> QED
    BY <1>1, <1>2, <1>3, <1>4

\* The jobs there are
LEMMA NoJobTyped ==
    /\ NoJob \in JobType /\ NoJob.kind = "none" /\ NoJob.at = 0 /\ NoJob.due = 0
    /\ NoJob.invoice = 0 /\ NoJob.retry = 0 /\ NoJob.first = 0
BY DEF NoJob, JobType

\* The job of a renewal
LEMMA RenewalTyped ==
    ASSUME NEW due \in Int, NEW at \in Int
    PROVE  /\ RenewJob(due, at) \in JobType
           /\ RenewJob(due, at).kind = "renew" /\ RenewJob(due, at).due = due
           /\ RenewJob(due, at).at = at
<1> DEFINE j == [NoJob EXCEPT !.kind = "renew", !.at = at, !.due = due]
<1>1. RenewJob(due, at) = j
    BY DEF RenewJob
<1>2. j \in JobType /\ j.kind = "renew" /\ j.due = due /\ j.at = at
    BY NoJobTyped DEF JobType
<1> QED
    BY <1>1, <1>2

\* A job put at the end of the queue
LEMMA Queued ==
    ASSUME NEW q \in Seq(JobType), NEW j \in JobType
    PROVE  /\ Append(q, j) \in Seq(JobType)
           /\ \A k \in DOMAIN q : k \in DOMAIN Append(q, j) /\ Append(q, j)[k] = q[k]
           /\ \A k \in DOMAIN Append(q, j) : k \in DOMAIN q \/ Append(q, j)[k] = j
           /\ \E k \in DOMAIN Append(q, j) : Append(q, j)[k] = j
<1> DEFINE r == Append(q, j)
<1>1. /\ r \in Seq(JobType) /\ Len(r) = Len(q) + 1 /\ DOMAIN r = 1..Len(q) + 1
      /\ DOMAIN q = 1..Len(q) /\ Len(q) \in Nat
      /\ \A k \in 1..Len(q) : r[k] = q[k]
      /\ r[Len(q) + 1] = j
    OBVIOUS
<1> HIDE DEF r
<1>2. Len(q) + 1 \in DOMAIN r
    BY <1>1
<1>3. \A k \in DOMAIN r : k \in DOMAIN q \/ k = Len(q) + 1
    BY <1>1
<1>4. \A k \in DOMAIN q : k \in DOMAIN r /\ r[k] = q[k]
    BY <1>1
<1> QED
    BY <1>1, <1>2, <1>3, <1>4 DEF r

\* What is queued: the job, never before the instant it is queued at
LEMMA Enqueued ==
    ASSUME BillTyped, NEW j \in JobType, enqueue(j)
    PROVE  \E q \in JobType :
              /\ q.kind = j.kind /\ q.due = j.due /\ q.invoice = j.invoice
              /\ q.retry = j.retry /\ q.first = j.first
              /\ q.at = IF j.at < handler.at THEN handler.at ELSE j.at
              /\ jobs' = Append(jobs, q)
<1> DEFINE q == [j EXCEPT !.at = IF @ < handler.at THEN handler.at ELSE @]
<1>1. handler.at \in Int
    BY DEF BillTyped, HandlerType
<1>2. /\ q \in JobType
      /\ q.kind = j.kind /\ q.due = j.due /\ q.invoice = j.invoice
      /\ q.retry = j.retry /\ q.first = j.first
      /\ q.at = IF j.at < handler.at THEN handler.at ELSE j.at
    BY <1>1 DEF JobType
<1>3. jobs' = Append(jobs, q)
    BY DEF enqueue
<1> HIDE DEF q
<1> QED
    BY <1>2, <1>3

\* A new job that is well beside those there are
LEMMA JobsWithOne ==
    ASSUME BillTyped, JobsWell, NEW q \in JobType, JobOK(q), jobs' = Append(jobs, q),
           UNCHANGED <<running, invoices>>
    PROVE  /\ jobs' \in Seq(JobType) /\ JobsStay /\ JobsWell'
           /\ \E k \in DOMAIN jobs' : jobs'[k] = q
<1>1. /\ jobs' \in Seq(JobType)
      /\ \A k \in DOMAIN jobs : k \in DOMAIN jobs' /\ jobs'[k] = jobs[k]
      /\ \A k \in DOMAIN jobs' : k \in DOMAIN jobs \/ jobs'[k] = q
      /\ \E k \in DOMAIN jobs' : jobs'[k] = q
    BY Queued DEF BillTyped
<1>2. JobsStay
    BY <1>1 DEF JobsStay
<1>3. \A j : JobOK(j) => JobOK(j)'
    BY DEF JobOK, OnTime
<1>4. \A k \in DOMAIN jobs' : JobOK(jobs'[k])
    BY <1>1 DEF JobsWell
<1>5. JobsWell'
    BY <1>3, <1>4 DEF JobsWell, JobOK, OnTime
<1> QED
    BY <1>1, <1>2, <1>5

\* The next renewal or the next retry is queued.
LEMMA ScheduleStep ==
    ASSUME BillInv, Schedule
    PROVE  BillInv'
<1> USE DEF BillInv
<1>1. /\ Holds /\ Onward /\ Current.op \in {"scheduleRenewal", "scheduleRetry"}
      /\ UNCHANGED <<now, core, stored, card, credit, invoices, running, past>>
    BY DEF Schedule, tables
<1>2. Drops /\ Keeps
    BY <1>1, OnwardDrops
<1>3. Token(Current) = Current.op
    BY <1>1 DEF Token, Moves
<1>4. KeptRows /\ KeptStatus /\ KeptTries /\ KeptApplied /\ KeptAmounts /\ KeptRecords
    BY <1>1, KeptAll
<1>5. KeptPast /\ (Ended(core) => Ended(core'))
    BY <1>1 DEF KeptPast
<1>6. handler.at \in Nat /\ handler.retry \in Nat /\ handler.first \in Int /\ handler.invoice \in Nat
    BY DEF BillTyped, HandlerType
<1>7. ASSUME jobs' \in Seq(JobType), JobsStay, JobsWell'
      PROVE  /\ BillTyped' /\ ProgramOK' /\ JobsWell' /\ Timed' /\ Standings' /\ ChargedOnce'
             /\ CreditOK' /\ MovesOK' /\ OwingOK' /\ FailingOK'
    <2>1. BillTyped'
        <3>1. BillingTypeOK'
            BY <1>1 DEF BillTyped, BillingTypeOK
        <3> QED
            BY <1>1, <1>2, <1>7, <3>1 DEF BillTyped, Drops
    <2>2. ProgramOK'
        BY <1>1, <1>2, DropsProgram
    <2>3. Timed'
        BY <1>2, <1>3, <1>1, <1>4, DropsTimed
    <2>4. Standings'
        BY <1>2, <1>3, <1>1, <1>4, DropsStandings
    <2>5. ChargedOnce'
        BY <1>2, <1>3, <1>1, <1>4, DropsCharged
    <2>6. CreditOK'
        BY <1>2, <1>3, <1>1, <1>4, <2>1, DropsCredit
    <2>7. MovesOK'
        BY <1>2, <1>3, <1>1, <1>5, DropsMoves
    <2>8. OwingOK'
        BY <1>2, <1>3, <1>1, <1>5, DropsOwing
    <2>9. FailingOK'
        BY <1>2, <1>3, <1>1, <1>4, <1>5, <2>1, DropsFailing
    <2> QED
        BY <1>7, <2>1, <2>2, <2>3, <2>4, <2>5, <2>6, <2>7, <2>8, <2>9
<1>8. CASE Current.op = "scheduleRenewal"
    <2>1. enqueue(RenewJob(stored.next, stored.next))
        BY <1>8 DEF Schedule
    <2> DEFINE j == RenewJob(stored.next, stored.next)
    <2>2. stored.next \in Int
        BY RecordTyped DEF BillTyped, RecordType
    <2>3. j \in JobType /\ j.kind = "renew" /\ j.due = stored.next /\ j.at = stored.next
        BY <2>2, RenewalTyped
    <2> HIDE DEF j
    <2>4. PICK q \in JobType :
              /\ q.kind = j.kind /\ q.due = j.due
              /\ q.at = IF j.at < handler.at THEN handler.at ELSE j.at
              /\ jobs' = Append(jobs, q)
        BY <2>1, <2>3, Enqueued DEF j
    <2>5. JobOK(q)
        BY <1>6, <2>2, <2>3, <2>4 DEF JobOK
    <2>6. /\ jobs' \in Seq(JobType) /\ JobsStay /\ JobsWell'
          /\ \E k \in DOMAIN jobs' : jobs'[k] = q
        BY <1>1, <2>4, <2>5, JobsWithOne
    <2>7. (\E k \in DOMAIN jobs : IsRenewal(jobs[k]))'
        BY <1>1, <2>3, <2>4, <2>6 DEF IsRenewal
    <2>8. Renews'
        BY <2>7 DEF Renews
    <2>9. RetriesOK'
        BY <1>1, <1>2, <1>3, <1>4, <1>5, <1>8, <2>6, DropsRetries DEF KeptTries
    <2> QED
        BY <1>7, <2>6, <2>8, <2>9
<1>9. CASE Current.op = "scheduleRetry"
    <2>1. /\ "scheduleRetry" \in Said /\ "count" \notin Said
          /\ "scheduleRetry" \notin Said' /\ Trying
        BY <1>2, <1>3, <1>9, LaterIs DEF Said, Drops, Trying
    <2>2. /\ Mine \in DOMAIN invoices
          /\ (handler.retry = 0 /\ handler.first = Null) \/ OnTime(handler)
          /\ handler.retry = Len(RetryOffsets) => "exhaust" \in Said
          /\ invoices[Mine].next = nextAttempt /\ invoices[Mine].retries = handler.retry
        BY <2>1 DEF Timed
    <2>3. Said' \subseteq {"exhaust"} /\ Said = {"scheduleRetry"} \cup Said'
        BY <1>2, <1>3, <1>9, LaterIs DEF Said, Drops
    <2>4. \A i : /\ Billed(i, "success") => Billed(i, "success")'
                 /\ Billed(i, "uncollectible") => Billed(i, "uncollectible")'
        BY <1>2, <1>3, <1>9, DropsBills DEF BillMoves
    <2>5. ASSUME JobsStay,
                 \/ "exhaust" \in Said'
                 \/ \E k \in DOMAIN jobs' : IsRetry(jobs'[k], Mine)
          PROVE  Renews' /\ RetriesOK'
        <3>1. Renews'
            BY <1>1, <1>2, <1>3, <1>5, <1>9, <2>5, DropsRenews
        <3>2. "exhaust" \in Said' => Mine' = Mine
            BY <1>2 DEF Said, Mine, Keeps
        <3> SUFFICES ASSUME (Calm /\ ~ Ended(core))', NEW i \in DOMAIN invoices', Failing(i)'
                     PROVE  Retried(i)'
            BY <3>1 DEF RetriesOK
        <3>3. i \in DOMAIN invoices /\ Failing(i)
            BY <1>1, <1>2, DropsBills DEF Failing, BillMoves
        <3>4. Retried(i)
            BY <1>1, <3>3 DEF RetriesOK, Calm, Whole
        <3>5. CASE \E k \in DOMAIN jobs : IsRetry(jobs[k], i)
            BY <1>1, <2>5, <3>5 DEF Retried, IsRetry, JobsStay
        <3>6. CASE IsRetry(running.job, i) /\ InHand
            BY <1>1, <2>3, <3>6 DEF Retried, IsRetry, InHand
        <3>7. CASE i = Mine
            BY <1>1, <2>5, <3>2, <3>7 DEF Retried, IsRetry
        <3>8. CASE Billed(i, "success") \/ Billed(i, "uncollectible") \/ "cancelled" \in Said
            BY <2>3, <2>4, <3>8 DEF Retried
        <3> QED
            BY <3>4, <3>5, <3>6, <3>7, <3>8 DEF Retried
    <2>6. CASE nextAttempt = Null
        <3>1. jobs' = jobs
            BY <1>9, <2>6 DEF Schedule
        <3>2. JobsStay /\ jobs' \in Seq(JobType) /\ JobsWell'
            BY <1>1, <3>1, SameJobs DEF JobsStay, BillTyped
        <3>3. handler.retry = Len(RetryOffsets)
            BY <1>6, <2>2, <2>6, OffsetsGrow DEF nextAttempt, Null, OnTime
        <3>4. "exhaust" \in Said'
            BY <2>2, <2>3, <3>3
        <3> QED
            BY <1>7, <2>5, <3>2, <3>4
    <2>7. CASE nextAttempt # Null
        <3> DEFINE first == IF handler.first = Null THEN handler.at ELSE handler.first
                   j == RetryJob(handler.invoice, handler.retry + 1, first, nextAttempt)
        <3>1. /\ handler.retry < Len(RetryOffsets) /\ first \in Nat
              /\ nextAttempt = first + RetryOffsets[handler.retry + 1]
              /\ nextAttempt \in Nat /\ nextAttempt >= handler.at
            <4>1. handler.retry < Len(RetryOffsets)
                BY <2>7 DEF nextAttempt
            <4>2. handler.retry + 1 \in 1..Len(RetryOffsets)
                BY <1>6, <4>1, OffsetsGrow
            <4>3. nextAttempt = first + RetryOffsets[handler.retry + 1]
                BY <4>1 DEF nextAttempt
            <4>4. RetryOffsets[handler.retry + 1] \in Nat /\ RetryOffsets[handler.retry + 1] > 0
                BY <4>2, OffsetsGrow
            <4>5. CASE handler.retry = 0 /\ handler.first = Null
                BY <1>6, <4>1, <4>3, <4>4, <4>5
            <4>6. CASE OnTime(handler)
                <5>1. /\ handler.retry \in 1..Len(RetryOffsets) - 1 /\ handler.first \in Nat
                      /\ handler.at = handler.first + RetryOffsets[handler.retry]
                    BY <1>6, <4>1, <4>6, OffsetsGrow DEF OnTime
                <5>2. RetryOffsets[handler.retry] < RetryOffsets[handler.retry + 1]
                    BY <5>1, OffsetsGrow
                <5>4. RetryOffsets[handler.retry] \in Nat
                    BY <4>6, OffsetsGrow DEF OnTime
                <5>3. first = handler.first
                    BY <5>1 DEF Null
                <5> QED
                    BY <1>6, <4>1, <4>3, <4>4, <5>1, <5>2, <5>3, <5>4
            <4> QED
                BY <2>2, <4>5, <4>6
        <3> HIDE DEF first
        <3>2. /\ j \in JobType /\ j.kind = "retry" /\ j.invoice = Mine
              /\ j.retry = handler.retry + 1 /\ j.first = first /\ j.at = nextAttempt
            <4> DEFINE again == handler.retry + 1
                       i == handler.invoice
                       at == nextAttempt
            <4>1. i \in Nat /\ again \in Nat /\ first \in Int /\ at \in Int
                BY <1>6, <3>1
            <4>2. j = RetryJob(i, again, first, at)
                OBVIOUS
            <4> HIDE DEF again, i, at, j
            <4>3. /\ j \in JobType /\ j.kind = "retry" /\ j.invoice = i
                  /\ j.retry = again /\ j.first = first /\ j.at = at
                <5>1. j = [NoJob EXCEPT !.kind = "retry", !.at = at, !.invoice = i,
                                        !.retry = again, !.first = first]
                    BY <4>2 DEF RetryJob
                <5> QED
                    BY <4>1, <5>1, NoJobTyped DEF JobType
            <4> QED
                BY <4>3 DEF again, i, at, Mine
        <3>3. enqueue(j)
            BY <1>9, <2>7 DEF Schedule, first
        <3> HIDE DEF j
        <3>4. PICK q \in JobType :
                 /\ q.kind = j.kind /\ q.invoice = j.invoice
                 /\ q.retry = j.retry /\ q.first = j.first
                 /\ q.at = IF j.at < handler.at THEN handler.at ELSE j.at
                 /\ jobs' = Append(jobs, q)
            BY <3>2, <3>3, Enqueued
        <3>5. q.at = nextAttempt
            BY <1>6, <3>1, <3>2, <3>4
        <3>6. JobOK(q)
            BY <1>6, <2>2, <3>1, <3>2, <3>4, <3>5, OffsetsGrow DEF JobOK, OnTime
        <3>7. /\ jobs' \in Seq(JobType) /\ JobsStay /\ JobsWell'
              /\ \E k \in DOMAIN jobs' : jobs'[k] = q
            BY <1>1, <3>4, <3>6, JobsWithOne
        <3>8. IsRetry(q, Mine)
            BY <2>2, <3>2, <3>4, <3>5 DEF IsRetry
        <3> QED
            BY <1>7, <2>5, <3>7, <3>8
    <2> QED
        BY <2>6, <2>7
<1> QED
    BY <1>1, <1>8, <1>9

\* cancelGroup: only what an ending or a moved trial queues anew is lost.
LEMMA CancelGroupStep ==
    ASSUME BillInv, cancelGroup
    PROVE  BillInv'
<1> USE DEF BillInv
<1>1. /\ Holds /\ Onward /\ Current.op = "cancelGroup"
      /\ jobs' = <<>> /\ running' = [running EXCEPT !.cancelled = TRUE]
      /\ UNCHANGED <<now, core, stored, card, credit, invoices, past>>
    BY DEF cancelGroup, At, tables
<1>2. Drops /\ Keeps
    BY <1>1, OnwardDrops
<1>3. Token(Current) = "cancelGroup"
    BY <1>1 DEF Token, Moves
<1>4. KeptRows /\ KeptStatus /\ KeptTries /\ KeptApplied /\ KeptAmounts /\ KeptRecords
    BY <1>1, KeptAll
<1>5. KeptPast /\ (Ended(core) => Ended(core'))
    BY <1>1 DEF KeptPast
<1>6. /\ running' \in [job : JobType, begun : BOOLEAN, cancelled : BOOLEAN]
      /\ running'.begun = running.begun /\ running'.job = running.job
    BY <1>1 DEF BillTyped
<1>7. jobs' \in Seq(JobType) /\ DOMAIN jobs' = {}
    BY <1>1
<1>8. BillTyped'
    <2>1. BillingTypeOK'
        BY <1>1 DEF BillTyped, BillingTypeOK
    <2> QED
        BY <1>1, <1>2, <1>6, <1>7, <2>1 DEF BillTyped, Drops
<1>9. JobsWell'
    BY <1>1, <1>6, <1>7 DEF JobsWell, JobOK, OnTime
<1>10. /\ "cancelled" \in Said' \/ "scheduleRenewal" \in Said' \/ "renewNow" \in Said'
       /\ "cancelled" \in Said' \/ "trial" \in Said
    <2>1. Linked(Said)
        BY DEF ProgramOK
    <2> QED
        BY <1>2, <1>3, <2>1 DEF Linked, Said, Drops
<1>11. ProgramOK' /\ Timed' /\ Standings' /\ ChargedOnce' /\ CreditOK' /\ MovesOK'
    <2>1. ProgramOK'
        BY <1>2, <1>6, DropsProgram
    <2>2. Timed'
        BY <1>2, <1>3, <1>4, DropsTimed
    <2>3. Standings'
        BY <1>2, <1>3, <1>4, DropsStandings
    <2>4. ChargedOnce'
        BY <1>1, <1>2, <1>3, <1>4, DropsCharged
    <2>5. CreditOK'
        BY <1>1, <1>2, <1>3, <1>4, <1>8, DropsCredit
    <2>6. MovesOK'
        BY <1>1, <1>2, <1>3, <1>5, DropsMoves
    <2> QED
        BY <2>1, <2>2, <2>3, <2>4, <2>5, <2>6
<1>12. Renews'
    BY <1>10 DEF Renews
<1>13. OwingOK'
    BY <1>1, <1>2, <1>3, <1>5, DropsOwing
<1>14. FailingOK'
    BY <1>1, <1>2, <1>3, <1>4, <1>5, <1>8, DropsFailing
<1>15. RetriesOK'
    <2> SUFFICES ASSUME (Calm /\ ~ Ended(core))', NEW i \in DOMAIN invoices', Failing(i)'
                 PROVE  Retried(i)'
        BY DEF RetriesOK
    <2>1. i \in DOMAIN invoices /\ Failing(i)
        BY <1>1, <1>2, DropsBills DEF Failing, BillMoves
    <2>2. "trial" \notin Said
        BY <1>1, <2>1 DEF FailingOK, Calm, Whole
    <2> QED
        BY <1>10, <2>2 DEF Retried
<1> QED
    BY <1>8, <1>9, <1>11, <1>12, <1>13, <1>14, <1>15

\* What a plan change deferred goes on the invoice about to be raised.
LEMMA CarryStep ==
    ASSUME BillInv, carryProration
    PROVE  BillInv'
<1> USE DEF BillInv
<1> DEFINE r == Tail(handler.todo)
<1>1. /\ Holds /\ Current.op = "carry" /\ stored' = [stored EXCEPT !.deferred = 0]
      /\ handler' = [handler EXCEPT !.todo = r, !.extra = stored.deferred]
      /\ UNCHANGED <<now, core, card, credit, invoices, jobs, running, past>>
    BY DEF carryProration, At
<1>2. /\ stored \in RecordType /\ stored' \in RecordType
      /\ stored'.next = stored.next /\ stored'.owing = stored.owing
      /\ stored.deferred \in Nat
    <2>1. stored \in RecordType
        BY RecordTyped DEF BillTyped
    <2> QED
        BY <1>1, <2>1, RecordFields DEF RecordType
<1>3. /\ handler \in HandlerType /\ handler.todo \in Seq(StepType) /\ handler.todo # <<>>
      /\ Ordered(handler.todo) /\ Linked(Tokens(handler.todo))
    BY <1>1 DEF BillTyped, HandlerType, ProgramOK, Holds, Said
<1>4. Current.op = "carry" /\ Token(Current) = "carry"
    BY <1>1 DEF Token, Moves
<1>5. /\ r \in Seq(StepType) /\ Ordered(r) /\ Current \in StepType
      /\ Elems(handler.todo) = {Current} \cup Elems(r)
      /\ Tokens(handler.todo) = {"carry"} \cup Tokens(r)
      /\ Tokens(r) \subseteq Later["carry"] /\ "carry" \notin Tokens(r)
    BY <1>3, <1>4, AfterHead DEF Current
<1>6. Linked(Tokens(r)) /\ "createInvoice" \in Tokens(r) /\ r # <<>>
    <2>1. "createInvoice" \in Tokens(r)
        BY <1>3, <1>5 DEF Linked
    <2> QED
        BY <1>3, <1>5, <2>1, LinkedRest, NoSteps DEF Ops
<1> HIDE DEF r
<1>7. /\ handler' \in HandlerType /\ handler'.todo = r /\ handler'.by = handler.by
      /\ handler'.at = handler.at /\ handler'.invoice = handler.invoice
      /\ handler'.retry = handler.retry /\ handler'.first = handler.first
    BY <1>1, <1>2, <1>3, <1>5 DEF HandlerType
<1>8. handler' # Free
    BY <1>6, <1>7, FreeHandler
<1>9. Drops /\ Keeps
    BY <1>4, <1>5, <1>6, <1>7, <1>8, SaysNothing DEF Drops, Keeps, Ops
<1>10. KeptRows /\ KeptStatus /\ KeptTries /\ KeptApplied /\ KeptAmounts /\ KeptRecords
    BY <1>1, KeptAll
<1>11. KeptPast /\ JobsStay /\ (Ended(core) => Ended(core'))
    BY <1>1 DEF KeptPast, JobsStay
<1>12. BillTyped'
    <2>1. BillingTypeOK'
        BY <1>1, <1>2, RecordTyped DEF BillTyped, BillingTypeOK, RecordType
    <2> QED
        BY <1>1, <1>7, <2>1 DEF BillTyped
<1>13. ProgramOK' /\ JobsWell'
    BY <1>1, <1>9, DropsProgram, SameJobs
<1>14. Timed' /\ Standings' /\ ChargedOnce' /\ CreditOK' /\ MovesOK'
    <2>1. Timed'
        BY <1>4, <1>9, <1>10, DropsTimed
    <2>2. Standings'
        BY <1>4, <1>9, <1>10, DropsStandings
    <2>3. ChargedOnce'
        BY <1>1, <1>4, <1>9, <1>10, DropsCharged
    <2>4. CreditOK'
        BY <1>1, <1>4, <1>9, <1>10, <1>12, DropsCredit
    <2>5. MovesOK'
        BY <1>1, <1>4, <1>9, <1>11, DropsMoves
    <2> QED
        BY <2>1, <2>2, <2>3, <2>4, <2>5
<1>15. Renews'
    BY <1>1, <1>2, <1>4, <1>9, <1>11, DropsRenews
<1>16. OwingOK'
    BY <1>1, <1>2, <1>4, <1>9, <1>11, DropsOwing
<1>17. FailingOK'
    BY <1>1, <1>2, <1>4, <1>9, <1>10, <1>11, <1>12, DropsFailing
<1>18. RetriesOK'
    BY <1>1, <1>4, <1>9, <1>10, <1>11, DropsRetries DEF KeptTries
<1> QED
    BY <1>12, <1>13, <1>14, <1>15, <1>16, <1>17, <1>18

\* The trial moved
LEMMA TrialStep ==
    ASSUME BillInv, MoveTrial, Current.op = "trial"
    PROVE  BillInv'
<1> USE DEF BillInv
<1>1. /\ Holds /\ Onward
      /\ stored' = [stored EXCEPT !.trialEnd = Current.n, !.next = Current.n,
                           !.end = IF Current.to = "now" THEN @ ELSE Current.n]
      /\ UNCHANGED <<now, core, card, credit, invoices, jobs, running, past>>
    BY DEF MoveTrial
<1>2. Drops /\ Keeps
    BY <1>1, OnwardDrops
<1>3. Token(Current) = "trial"
    BY DEF Token, Moves
<1>4. KeptRows /\ KeptStatus /\ KeptTries /\ KeptApplied /\ KeptAmounts /\ KeptRecords
    BY <1>1, KeptAll
<1>5. KeptPast /\ JobsStay /\ (Ended(core) => Ended(core'))
    BY <1>1 DEF KeptPast, JobsStay
<1>6. stored' \in RecordType /\ stored'.owing = stored.owing
    <2>1. stored \in RecordType
        BY RecordTyped DEF BillTyped
    <2>2. Current.n \in Int
        BY <1>2 DEF Drops, StepType
    <2> DEFINE e == IF Current.to = "now" THEN stored.end ELSE Current.n
               n == Current.n
    <2>3. e \in Int /\ stored' = [stored EXCEPT !.trialEnd = n, !.next = n, !.end = e]
        BY <1>1, <2>1, <2>2 DEF RecordType
    <2> HIDE DEF e, n
    <2> QED
        BY <2>1, <2>2, <2>3 DEF RecordType, n
<1>7. BillTyped'
    <2>1. BillingTypeOK'
        BY <1>1, <1>6, RecordTyped DEF BillTyped, BillingTypeOK, RecordType
    <2> QED
        BY <1>1, <1>2, <2>1 DEF BillTyped, Drops
<1>8. ProgramOK' /\ JobsWell'
    BY <1>1, <1>2, DropsProgram, SameJobs
<1>9. Timed' /\ Standings' /\ ChargedOnce' /\ CreditOK' /\ MovesOK'
    <2>1. Timed'
        BY <1>2, <1>3, <1>4, DropsTimed
    <2>2. Standings'
        BY <1>2, <1>3, <1>4, DropsStandings
    <2>3. ChargedOnce'
        BY <1>1, <1>2, <1>3, <1>4, DropsCharged
    <2>4. CreditOK'
        BY <1>1, <1>2, <1>3, <1>4, <1>7, DropsCredit
    <2>5. MovesOK'
        BY <1>1, <1>2, <1>3, <1>5, DropsMoves
    <2> QED
        BY <2>1, <2>2, <2>3, <2>4, <2>5
<1>10. Renews'
    <2>1. Linked(Said)
        BY DEF ProgramOK
    <2>2. "scheduleRenewal" \in Said' \/ "renewNow" \in Said'
        BY <1>2, <1>3, <2>1 DEF Linked, Said, Drops
    <2> QED
        BY <2>2 DEF Renews
<1>11. OwingOK'
    BY <1>1, <1>2, <1>3, <1>5, <1>6, DropsOwing
<1>12. FailingOK'
    BY <1>1, <1>2, <1>3, <1>4, <1>5, <1>6, <1>7, DropsFailing
<1>13. RetriesOK'
    BY <1>1, <1>2, <1>3, <1>4, <1>5, DropsRetries DEF KeptTries
<1> QED
    BY <1>7, <1>8, <1>9, <1>10, <1>11, <1>12, <1>13

-----------------------------------------------------------------------------
(***************************************************************************)
(* A row more adds its amount to the sum of the column.                    *)
(***************************************************************************)
LEMMA SumToExtend ==
    ASSUME NEW n \in Nat, NEW f \in [1..n -> Int], NEW h \in [1..n + 1 -> Int],
           \A i \in 1..n : h[i] = f[i]
    PROVE  SumTo(h, n + 1) = SumTo(f, n) + h[n + 1]
<1>1. PICK F : PartialSums(f, n, F) /\ SumTo(f, n) = F[n]
    BY SumToPartialSums
<1>2. n + 1 \in Nat
    OBVIOUS
<1>3. PICK H : PartialSums(h, n + 1, H) /\ SumTo(h, n + 1) = H[n + 1]
    BY <1>2, SumToPartialSums
<1> DEFINE Bad == {i \in Nat : i <= n /\ F[i] # H[i]}
<1>4. Bad = {}
    <2>1. SUFFICES ASSUME Bad # {}
                   PROVE  FALSE
        OBVIOUS
    <2>2. PICK m \in Bad : \A i \in Bad : m <= i
        BY <2>1, LeastNatural
    <2>3. m \in Nat /\ m <= n /\ F[m] # H[m]
        BY <2>2
    <2>4. m # 0
        BY <1>1, <1>3, <2>3 DEF PartialSums
    <2>5. m - 1 \in Nat /\ F[m-1] = H[m-1]
        BY <2>2, <2>3, <2>4
    <2>6. m \in 1..n /\ m \in 1..n + 1 /\ f[m] = h[m]
        BY <2>3, <2>4
    <2>7. F[m] = F[m-1] + f[m]
        BY <1>1, <2>6 DEF PartialSums
    <2>8. H[m] = H[m-1] + h[m]
        BY <1>3, <2>6 DEF PartialSums
    <2>9. QED
        BY <2>3, <2>5, <2>6, <2>7, <2>8
<1>5. F[n] = H[n]
    BY <1>4
<1>6. H[n + 1] = H[n] + h[n + 1]
    <2>1. n + 1 \in 1..n + 1 /\ (n + 1) - 1 = n
        OBVIOUS
    <2> QED
        BY <1>3, <2>1 DEF PartialSums
<1> QED
    BY <1>1, <1>3, <1>5, <1>6

\* An invoice among those there are
LEMMA InvoiceFields ==
    ASSUME NEW s \in Seq(Invoice), NEW i \in DOMAIN s
    PROVE  /\ s[i] \in Invoice /\ s[i].applied \in Nat /\ s[i].amount \in Nat
           /\ s[i].charged \in Nat /\ s[i].retries \in Nat /\ s[i].next \in Int
           /\ s[i].status \in InvoiceStatus /\ s[i].record \in BOOLEAN
<1>1. s[i] \in Invoice
    OBVIOUS
<1> QED
    BY <1>1 DEF Invoice

\* No moves of invoices in a program that says none
LEMMA NoBills ==
    ASSUME NEW s \in Seq(StepType), Tokens(s) \cap BillMoves = {}
    PROVE  \A e \in Elems(s) : e.op # "bill"
<1>1. \A e \in Elems(s) : e \in StepType
    BY DEF Elems
<1> QED
    BY <1>1, TokenTyped DEF Tokens

\* createInvoice: the new invoice is the last, and nothing else is failing.
LEMMA CreateInvoiceStep ==
    ASSUME BillInv, createInvoice
    PROVE  BillInv'
<1> USE DEF BillInv
<1> DEFINE r        == Tail(handler.todo)
           subtotal == handler.extra + (IF Current.to = "cycle" THEN stored.price ELSE 0)
           applied  == IF credit <= 0 THEN 0
                       ELSE IF credit < subtotal THEN credit ELSE subtotal
           new      == [status |-> "pending", kind |-> Current.to, start |-> stored.start,
                        amount |-> subtotal - applied, applied |-> applied,
                        record |-> FALSE, retries |-> 0, next |-> Null, charged |-> 0]
           n        == Len(invoices)
<1>1. /\ Holds /\ Current.op = "createInvoice" /\ invoices' = Append(invoices, new)
      /\ handler' = [handler EXCEPT !.todo = r, !.extra = 0,
                          !.invoice = Len(invoices'), !.retry = 0, !.first = Null]
      /\ UNCHANGED <<now, core, stored, card, credit, jobs, running, past>>
    BY DEF createInvoice, At
<1>2. /\ handler \in HandlerType /\ handler.todo \in Seq(StepType) /\ handler.todo # <<>>
      /\ Ordered(handler.todo) /\ Linked(Tokens(handler.todo))
    BY <1>1 DEF BillTyped, HandlerType, ProgramOK, Holds, Said
<1>3. Token(Current) = "createInvoice"
    BY <1>1 DEF Token, Moves
<1>4. /\ r \in Seq(StepType) /\ Ordered(r) /\ Current \in StepType
      /\ Elems(handler.todo) = {Current} \cup Elems(r)
      /\ Tokens(handler.todo) = {"createInvoice"} \cup Tokens(r)
      /\ Tokens(r) \subseteq Later["createInvoice"] /\ "createInvoice" \notin Tokens(r)
    BY <1>2, <1>3, AfterHead DEF Current
<1>5. Linked(Tokens(r)) /\ Tokens(r) = {"record", "spend", "attempt"} /\ r # <<>>
    <2>1. Tokens(r) = {"record", "spend", "attempt"}
        BY <1>2, <1>4, LaterIs DEF Linked
    <2> QED
        BY <1>2, <1>4, <2>1, LinkedRest, NoSteps DEF Ops
<1>6. /\ subtotal \in Nat /\ applied \in Nat /\ subtotal - applied \in Nat
      /\ credit >= 0 => applied <= credit
    <2>1. stored.price \in Nat /\ credit \in Int /\ handler.extra \in Nat
        BY <1>2, RecordTyped, PricesAssumption DEF BillTyped, RecordType, HandlerType
    <2>2. subtotal \in Nat
        BY <2>1
    <2> HIDE DEF subtotal
    <2> QED
        BY <2>1, <2>2
<1>7. /\ new.status = "pending" /\ new.applied = applied /\ new.charged = 0
      /\ new \in Invoice
    <2>1. Current.to \in {"cycle", "proration"}
        BY <1>1, <1>4 DEF StepType
    <2>2. stored.start \in Int
        BY RecordTyped DEF BillTyped, RecordType
    <2> DEFINE a == subtotal - applied
    <2>3. a \in Nat /\ Null \in Int
        BY <1>6 DEF Null
    <2> HIDE DEF a
    <2>4. [status |-> "pending", kind |-> Current.to, start |-> stored.start,
                        amount |-> a, applied |-> applied,
                        record |-> FALSE, retries |-> 0, next |-> Null, charged |-> 0] \in Invoice
        BY <1>6, <2>1, <2>2, <2>3 DEF Invoice, InvoiceStatus
    <2> QED
        BY <2>4 DEF a
<1> HIDE DEF r, applied, subtotal, new
<1>8. invoices \in Seq(Invoice) /\ n \in Nat /\ DOMAIN invoices = 1..n
    BY RecordTyped DEF BillTyped
<1>9. /\ invoices' \in Seq(Invoice) /\ Len(invoices') = n + 1 /\ DOMAIN invoices' = 1..n + 1
      /\ \A i \in DOMAIN invoices : i \in DOMAIN invoices' /\ invoices'[i] = invoices[i]
      /\ invoices'[n + 1] = new /\ n + 1 \in DOMAIN invoices'
      /\ \A i \in DOMAIN invoices' : i \in DOMAIN invoices \/ i = n + 1
    BY <1>1, <1>7, <1>8
<1> HIDE DEF n
<1>10. /\ handler' \in HandlerType /\ handler'.todo = r /\ handler'.by = handler.by
       /\ handler'.invoice = n + 1 /\ handler'.retry = 0 /\ handler'.first = Null
    <2>1. Len(invoices') \in Nat /\ Len(invoices') = n + 1 /\ Null \in Int
        BY <1>8, <1>9 DEF Null
    <2> QED
        BY <1>1, <1>2, <1>4, <2>1 DEF HandlerType
<1>11. /\ Said = {"createInvoice", "record", "spend", "attempt"}
       /\ Said' = {"record", "spend", "attempt"}
       /\ Mine' = n + 1
    BY <1>4, <1>5, <1>10 DEF Said, Mine
<1>12. /\ Bills = {} /\ Bills' = {}
       /\ \A e \in Elems(handler'.todo) : e.op # "unattempt"
    <2>1. \A e \in Elems(handler.todo) : e.op # "bill"
        BY <1>2, <1>11, NoBills DEF Said, BillMoves
    <2>2. \A e \in Elems(handler'.todo) : e.op # "bill"
        BY <1>4, <1>10, <1>11, NoBills DEF Said, BillMoves
    <2>3. \A e \in Elems(handler'.todo) : e.op # "unattempt"
        BY <1>5, <1>10 DEF Tokens, Token, Moves
    <2> QED
        BY <2>1, <2>2, <2>3 DEF Bills
<1>13. \A i, to : ~ Billed(i, to) /\ ~ Billed(i, to)'
    BY <1>12 DEF Billed
<1>14. Drops
    <2>1. handler' # Free
        BY <1>5, <1>10, FreeHandler
    <2> QED
        BY <1>3, <1>4, <1>5, <1>10, <2>1, SaysNothing DEF Drops, Ops
<1>15. KeptPast /\ JobsStay /\ (Ended(core) => Ended(core'))
    BY <1>1 DEF KeptPast, JobsStay
<1>16. BillTyped'
    <2>1. BillingTypeOK'
        BY <1>1, <1>9 DEF BillTyped, BillingTypeOK
    <2> QED
        BY <1>1, <1>10, <2>1 DEF BillTyped
<1>17. ProgramOK' /\ JobsWell'
    BY <1>1, <1>9, <1>14, DropsProgram, SameJobs
<1>18. Timed'
    BY <1>9, <1>10, <1>11, OffsetsGrow DEF Timed, Trying, Made
<1>19. Standings'
    BY <1>7, <1>9, <1>11, <1>12 DEF Standings, BillMoves
<1>20. ChargedOnce'
    <2>1. past'.deaths \in Nat /\ past'.deaths = past.deaths
        BY <1>1, RecordTyped, BillingBounds DEF BillTyped
    <2> QED
        BY <1>7, <1>9, <1>13, <2>1 DEF ChargedOnce
<1>21. CreditOK'
    <2>1. Applied \in [1..n -> Int] /\ Applied' \in [1..n + 1 -> Int]
          /\ \A i \in 1..n : Applied'[i] = Applied[i]
        <3>1. Applied \in [1..n -> Int]
            <4>1. \A i \in 1..n : invoices[i].applied \in Int
                BY <1>8, InvoiceFields
            <4> QED
                BY <1>8, <4>1 DEF Applied
        <3>2. Applied' \in [1..n + 1 -> Int]
            <4>1. \A i \in 1..n + 1 : invoices'[i].applied \in Int
                BY <1>9, InvoiceFields
            <4> QED
                BY <1>9, <4>1 DEF Applied
        <3> QED
            BY <1>8, <1>9, <3>1, <3>2 DEF Applied
    <2>2. Applied'[n + 1] = applied
        BY <1>7, <1>9 DEF Applied
    <2>3. SumTo(Applied', n + 1) = SumTo(Applied, n) + applied
        BY <1>8, <2>1, <2>2, SumToExtend
    <2>4. SumTo(Applied, n) \in Int
        BY <1>8, <2>1, SumToInt
    <2>5. ~ Unspent /\ Unspent'
        BY <1>11 DEF Unspent, Made
    <2>6. past.granted \in Nat /\ applied \in Nat /\ credit >= 0 /\ applied <= credit /\ credit \in Int
        BY <1>6, RecordTyped DEF BillTyped, CreditOK
    <2>7. past.deaths = 0 => credit = past.granted - SumTo(Applied, n)
        BY <2>4, <2>5, <2>6 DEF CreditOK, n
    <2>8. invoices'[Mine'].applied = applied /\ Mine' \in DOMAIN invoices'
        BY <1>7, <1>9, <1>11
    <2>9. past.deaths = 0 => credit = past.granted - SumTo(Applied', n + 1) + applied
        BY <2>3, <2>4, <2>6, <2>7
    <2> QED
        BY <1>1, <1>9, <2>5, <2>6, <2>8, <2>9 DEF CreditOK
<1>22. MovesOK'
    BY <1>1, <1>3, <1>14, <1>15, DropsMoves
<1>23. Renews'
    BY <1>1, <1>3, <1>14, <1>15, DropsRenews
<1>24. OwingOK'
    BY <1>1, <1>3, <1>14, <1>15, DropsOwing
<1>25. Calm' /\ ~ Ended(core') => \A i \in DOMAIN invoices' : ~ Failing(i)'
    <2> SUFFICES ASSUME Calm', ~ Ended(core'), NEW i \in DOMAIN invoices', Failing(i)'
                 PROVE  FALSE
        OBVIOUS
    <2>1. invoices'[i].status = "failed"
        BY <1>13 DEF Failing
    <2>2. i \in DOMAIN invoices /\ Failing(i)
        BY <1>7, <1>9, <2>1 DEF Failing
    <2> QED
        BY <1>1, <1>11, <2>2 DEF FailingOK, Calm, Whole, Made
<1>26. FailingOK'
    BY <1>9, <1>11, <1>25 DEF FailingOK
<1>27. RetriesOK'
    BY <1>25 DEF RetriesOK
<1> QED
    BY <1>16, <1>17, <1>18, <1>19, <1>20, <1>21, <1>22, <1>23, <1>24, <1>26, <1>27

\* One invoice in place of another
LEMMA InvoiceSet ==
    ASSUME NEW s \in Seq(Invoice), NEW i \in DOMAIN s, NEW v \in Invoice
    PROVE  /\ [s EXCEPT ![i] = v] \in Seq(Invoice)
           /\ DOMAIN [s EXCEPT ![i] = v] = DOMAIN s
           /\ [s EXCEPT ![i] = v][i] = v
           /\ \A k \in DOMAIN s : k # i => [s EXCEPT ![i] = v][k] = s[k]
OBVIOUS

\* The Bachs records of an invoice, and the credit that it spends
LEMMA WriteInvoiceStep ==
    ASSUME BillInv, WriteInvoice
    PROVE  BillInv'
<1> USE DEF BillInv
<1>1. /\ Holds /\ Onward /\ Current.op \in {"record", "spend", "unattempt", "count"}
      /\ UNCHANGED <<now, core, stored, card, jobs, running, past>>
    BY DEF WriteInvoice
<1>2. Drops /\ Keeps
    BY <1>1, OnwardDrops
<1>3. Token(Current) = Current.op
    BY <1>1 DEF Token, Moves
<1>4. /\ Said = {Current.op} \cup Said' /\ Said' \subseteq Later[Current.op]
      /\ Current.op \notin Said' /\ Linked(Said)
    BY <1>2, <1>3 DEF Drops, Said, ProgramOK
<1>5. KeptPast /\ JobsStay /\ (Ended(core) => Ended(core'))
    BY <1>1 DEF KeptPast, JobsStay
<1>6. /\ invoices \in Seq(Invoice) /\ credit \in Int
      /\ \A i \in DOMAIN invoices : invoices[i] \in Invoice
    BY InvoiceFields, RecordTyped DEF BillTyped
<1>7. /\ handler.at \in Nat /\ handler.retry \in Nat /\ handler.first \in Int
      /\ nextAttempt \in Int
    <2>1. handler.at \in Nat /\ handler.retry \in Nat /\ handler.first \in Int
        BY DEF BillTyped, HandlerType
    <2>2. CASE handler.retry < Len(RetryOffsets)
        <3>1. handler.retry + 1 \in 1..Len(RetryOffsets)
            BY <2>1, <2>2, OffsetsGrow
        <3>2. RetryOffsets[handler.retry + 1] \in Nat
            BY <3>1, OffsetsGrow
        <3> QED
            BY <2>1, <2>2, <3>2 DEF nextAttempt
    <2>3. CASE ~ (handler.retry < Len(RetryOffsets))
        <3>1. nextAttempt = Null
            BY <2>3 DEF nextAttempt
        <3>2. Null \in Int
            BY DEF Null
        <3> QED
            BY <2>1, <3>1, <3>2
    <2> QED
        BY <2>1, <2>2, <2>3
<1>8. /\ Current.op \in {"record", "spend", "count"} =>
            Mine \in DOMAIN invoices /\ Made
      /\ Current.op = "count" => "scheduleRetry" \in Said' /\ "count" \notin Said'
      /\ Current.op \in {"record", "spend"} => "attempt" \in Said'
      /\ Current.op \in {"record", "spend", "unattempt"} => "scheduleRetry" \notin Said'
    <2>1. /\ Current.op \in {"record", "spend"} => "attempt" \in Said'
          /\ Current.op = "count" => "scheduleRetry" \in Said'
        BY <1>4 DEF Linked
    <2>2. /\ Current.op \in {"record", "spend", "count"} => "createInvoice" \notin Said
          /\ Current.op \in {"record", "spend", "unattempt"} => "scheduleRetry" \notin Said'
        BY <1>4, LaterIs
    <2> QED
        BY <1>4, <2>1, <2>2 DEF Made, Timed, Trying
<1>9. \A i : Current.op = "unattempt" /\ i = Current.n =>
         /\ i \in DOMAIN invoices
         /\ Billed(i, "success")' \/ Billed(i, "uncollectible")'
    <2> SUFFICES ASSUME NEW i, Current.op = "unattempt", i = Current.n
                 PROVE  /\ i \in DOMAIN invoices
                        /\ Billed(i, "success")' \/ Billed(i, "uncollectible")'
        OBVIOUS
    <2>1. Current \in Elems(handler.todo)
        BY <1>2 DEF Drops
    <2>2. Billed(i, "success") \/ Billed(i, "uncollectible")
        BY <2>1 DEF Standings
    <2>3. Billed(i, "success")' \/ Billed(i, "uncollectible")'
        BY <1>2, <1>3, <2>2, DropsBills DEF BillMoves
    <2> QED
        BY <2>2, <2>3 DEF Standings, Billed
<1>10. \/ invoices' = invoices
       \/ \E i \in DOMAIN invoices : \E v \in Invoice :
             /\ invoices' = [invoices EXCEPT ![i] = v]
             /\ v.status = invoices[i].status /\ v.applied = invoices[i].applied
             /\ v.amount = invoices[i].amount /\ v.charged = invoices[i].charged
             /\ v.record = invoices[i].record \/ v.record = TRUE
             /\ Current.op = "record" => i = Mine /\ v.record = TRUE
             /\ Current.op = "unattempt" => i = Current.n
             /\ Current.op = "count" =>
                   i = Mine /\ v.retries = handler.retry /\ v.next = nextAttempt
    <2> SUFFICES ASSUME invoices' # invoices
                 PROVE  \E i \in DOMAIN invoices : \E v \in Invoice :
             /\ invoices' = [invoices EXCEPT ![i] = v]
             /\ v.status = invoices[i].status /\ v.applied = invoices[i].applied
             /\ v.amount = invoices[i].amount /\ v.charged = invoices[i].charged
             /\ v.record = invoices[i].record \/ v.record = TRUE
             /\ Current.op = "record" => i = Mine /\ v.record = TRUE
             /\ Current.op = "unattempt" => i = Current.n
             /\ Current.op = "count" =>
                   i = Mine /\ v.retries = handler.retry /\ v.next = nextAttempt
        OBVIOUS
    <2>1. CASE Current.op = "record"
        <3> DEFINE v == [invoices[Mine] EXCEPT !.record = TRUE, !.next = handler.at]
        <3>1. Mine \in DOMAIN invoices /\ invoices[Mine] \in Invoice
            BY <1>6, <1>8, <2>1
        <3>2. /\ v \in Invoice /\ v.status = invoices[Mine].status
              /\ v.applied = invoices[Mine].applied /\ v.amount = invoices[Mine].amount
              /\ v.charged = invoices[Mine].charged /\ v.record = TRUE
            <4> DEFINE w == [invoices[Mine] EXCEPT !.next = handler.at]
            <4>1. /\ w \in Invoice /\ w.status = invoices[Mine].status
                  /\ w.applied = invoices[Mine].applied /\ w.amount = invoices[Mine].amount
                  /\ w.charged = invoices[Mine].charged
                BY <1>7, <3>1 DEF Invoice
            <4>2. v = [w EXCEPT !.record = TRUE]
                BY <3>1 DEF Invoice
            <4> HIDE DEF w, v
            <4> QED
                BY <4>1, <4>2 DEF Invoice
        <3>3. invoices' = [invoices EXCEPT ![Mine] = v]
            BY <2>1, <3>1 DEF WriteInvoice, Mine
        <3> HIDE DEF v
        <3> QED
            BY <2>1, <3>1, <3>2, <3>3
    <2>2. CASE Current.op = "unattempt"
        <3> DEFINE i == Current.n
                   v == [invoices[i] EXCEPT !.next = Null]
        <3>1. i \in DOMAIN invoices /\ invoices[i] \in Invoice /\ Null \in Int
            BY <1>6, <1>9, <2>2 DEF Null
        <3>2. /\ v \in Invoice /\ v.status = invoices[i].status
              /\ v.applied = invoices[i].applied /\ v.amount = invoices[i].amount
              /\ v.charged = invoices[i].charged /\ v.record = invoices[i].record
            BY <3>1 DEF Invoice
        <3>3. invoices' = [invoices EXCEPT ![i] = v]
            BY <2>2, <3>1 DEF WriteInvoice
        <3> HIDE DEF v
        <3> QED
            BY <2>2, <3>1, <3>2, <3>3
    <2>3. CASE Current.op = "count"
        <3> DEFINE x == nextAttempt
                   v == [invoices[Mine] EXCEPT !.retries = handler.retry, !.next = x]
        <3>1. Mine \in DOMAIN invoices /\ invoices[Mine] \in Invoice /\ x \in Int
            BY <1>6, <1>7, <1>8, <2>3
        <3>2. invoices' = [invoices EXCEPT ![Mine] = v]
            BY <2>3, <3>1 DEF WriteInvoice, Mine
        <3> HIDE DEF x
        <3>3. /\ v \in Invoice /\ v.status = invoices[Mine].status
              /\ v.applied = invoices[Mine].applied /\ v.amount = invoices[Mine].amount
              /\ v.charged = invoices[Mine].charged /\ v.record = invoices[Mine].record
              /\ v.retries = handler.retry /\ v.next = x
            BY <1>7, <3>1 DEF Invoice
        <3> HIDE DEF v
        <3> QED
            BY <2>3, <3>1, <3>2, <3>3 DEF x
    <2>4. CASE Current.op = "spend"
        BY <2>4 DEF WriteInvoice
    <2> QED
        BY <1>1, <2>1, <2>2, <2>3, <2>4
<1>11. /\ invoices' \in Seq(Invoice) /\ KeptRows /\ KeptStatus /\ KeptApplied /\ KeptAmounts
       /\ KeptRecords
       /\ Current.op = "record" => invoices'[Mine].record
       /\ Current.op = "count" =>
             invoices'[Mine].retries = handler.retry /\ invoices'[Mine].next = nextAttempt
       /\ \A i \in DOMAIN invoices :
             \/ invoices'[i].retries = invoices[i].retries /\ invoices'[i].next = invoices[i].next
             \/ Current.op = "unattempt" /\ i = Current.n
             \/ Current.op \in {"record", "count"} /\ i = Mine
    <2>1. CASE invoices' = invoices
        <3>1. Current.op = "record" => invoices'[Mine].record
            BY <1>6, <1>8 DEF WriteInvoice, Mine, Invoice
        <3>2. Current.op = "count" =>
                 invoices'[Mine].retries = handler.retry /\ invoices'[Mine].next = nextAttempt
            <4> DEFINE x == nextAttempt
            <4>1. Current.op = "count" => invoices' = [invoices EXCEPT ![Mine].retries = handler.retry,
                                                                       ![Mine].next = x]
                BY DEF WriteInvoice, Mine
            <4> HIDE DEF x
            <4>2. Current.op = "count" =>
                    invoices'[Mine].retries = handler.retry /\ invoices'[Mine].next = x
                BY <1>6, <1>8, <4>1 DEF Invoice
            <4> QED
                BY <4>2 DEF x
        <3> QED
            BY <1>6, <2>1, <3>1, <3>2, KeptAll
    <2>2. CASE invoices' # invoices
        <3>1. PICK i \in DOMAIN invoices : \E v \in Invoice :
             /\ invoices' = [invoices EXCEPT ![i] = v]
             /\ v.status = invoices[i].status /\ v.applied = invoices[i].applied
             /\ v.amount = invoices[i].amount /\ v.charged = invoices[i].charged
             /\ v.record = invoices[i].record \/ v.record = TRUE
             /\ Current.op = "record" => i = Mine /\ v.record = TRUE
             /\ Current.op = "unattempt" => i = Current.n
             /\ Current.op = "count" =>
                   i = Mine /\ v.retries = handler.retry /\ v.next = nextAttempt
            BY <1>10, <2>2
        <3>2. PICK v \in Invoice :
             /\ invoices' = [invoices EXCEPT ![i] = v]
             /\ v.status = invoices[i].status /\ v.applied = invoices[i].applied
             /\ v.amount = invoices[i].amount /\ v.charged = invoices[i].charged
             /\ v.record = invoices[i].record \/ v.record = TRUE
             /\ Current.op = "record" => i = Mine /\ v.record = TRUE
             /\ Current.op = "unattempt" => i = Current.n
             /\ Current.op = "count" =>
                   i = Mine /\ v.retries = handler.retry /\ v.next = nextAttempt
            BY <3>1
        <3>3. /\ invoices' \in Seq(Invoice) /\ DOMAIN invoices' = DOMAIN invoices
              /\ invoices'[i] = v
              /\ \A k \in DOMAIN invoices : k # i => invoices'[k] = invoices[k]
            BY <1>6, <3>2, InvoiceSet
        <3>4. Current.op # "spend"
            BY <2>2 DEF WriteInvoice
        <3>5. KeptRows /\ KeptStatus /\ KeptApplied /\ KeptAmounts /\ KeptRecords
            BY <3>2, <3>3 DEF KeptRows, KeptStatus, KeptApplied, KeptAmounts, KeptRecords
        <3> QED
            BY <1>1, <3>2, <3>3, <3>4, <3>5
    <2> QED
        BY <2>1, <2>2
<1>12. Current.op # "spend" => credit' = credit
    BY <1>1 DEF WriteInvoice
<1>13. Current.op = "spend" => credit' = credit - invoices[Mine].applied /\ invoices' = invoices
    BY DEF WriteInvoice, Mine
<1>14. credit' \in Int
    BY <1>1, <1>6, <1>8, <1>12, <1>13, InvoiceFields
<1>15. BillTyped'
    <2>1. BillingTypeOK'
        BY <1>1, <1>11, <1>14 DEF BillTyped, BillingTypeOK
    <2> QED
        BY <1>1, <1>2, <2>1 DEF BillTyped, Drops
<1>16. ProgramOK' /\ JobsWell'
    BY <1>1, <1>2, <1>11, DropsProgram, SameJobs DEF KeptRows
<1>17. Timed'
    <2>1. CASE Current.op # "count"
        BY <1>1, <1>2, <1>3, <1>8, <1>11, <2>1, DropsTimed DEF Said
    <2>2. CASE Current.op = "count"
        <3>1. /\ Trying /\ Mine \in DOMAIN invoices
              /\ (handler.retry = 0 /\ handler.first = Null) \/ OnTime(handler)
              /\ handler.retry = Len(RetryOffsets) => "exhaust" \in Said
            BY <1>4, <1>8, <2>2 DEF Timed, Trying
        <3>2. /\ Mine' = Mine /\ handler'.retry = handler.retry /\ handler'.first = handler.first
              /\ handler'.at = handler.at /\ nextAttempt' = nextAttempt
              /\ (OnTime(handler) => OnTime(handler'))
            BY <1>2, <1>8, <2>2 DEF Keeps, Mine, nextAttempt, OnTime, Said
        <3>3. "exhaust" \in Said => "exhaust" \in Said'
            BY <1>4, <2>2
        <3>4. Mine' \in DOMAIN invoices'
            BY <1>11, <3>1, <3>2 DEF KeptRows
        <3>5. invoices'[Mine'].next = nextAttempt' /\ invoices'[Mine'].retries = handler'.retry
            BY <1>11, <2>2, <3>2
        <3>6. (handler'.retry = 0 /\ handler'.first = Null) \/ OnTime(handler')
            BY <3>1, <3>2
        <3>7. handler'.retry = Len(RetryOffsets) => "exhaust" \in Said'
            BY <3>1, <3>2, <3>3
        <3> QED
            BY <3>4, <3>5, <3>6, <3>7 DEF Timed
    <2> QED
        BY <2>1, <2>2
<1>18. Standings'
    BY <1>1, <1>2, <1>3, <1>11, DropsStandings
<1>19. ChargedOnce'
    BY <1>1, <1>2, <1>3, <1>11, DropsCharged
<1>20. CreditOK'
    <2>1. CASE Current.op # "spend"
        BY <1>1, <1>2, <1>3, <1>11, <1>12, <1>15, <2>1, DropsCredit
    <2>2. CASE Current.op = "spend"
        <3>1. Unspent /\ ~ Unspent'
            BY <1>4, <1>8, <2>2 DEF Unspent
        <3>2. Mine \in DOMAIN invoices /\ invoices[Mine].applied <= credit
            BY <3>1 DEF CreditOK
        <3>3. invoices[Mine].applied \in Nat
            BY <1>6, <3>2, InvoiceFields
        <3>4. Applied' = Applied /\ Len(invoices') = Len(invoices)
            BY <1>13, <2>2 DEF Applied
        <3>5. Len(invoices) \in Nat /\ Applied \in [1..Len(invoices) -> Int]
            <4>1. \A i \in DOMAIN invoices : invoices[i].applied \in Int
                BY <1>6, InvoiceFields
            <4> QED
                BY <1>6, <4>1 DEF Applied
        <3>6. SumTo(Applied, Len(invoices)) \in Int
            BY <3>5, SumToInt
        <3>7. past.granted \in Nat
            BY RecordTyped DEF BillTyped
        <3>8. past.deaths = 0 =>
                 credit = past.granted - SumTo(Applied, Len(invoices)) + invoices[Mine].applied
            BY <3>1 DEF CreditOK
        <3>9. past.deaths = 0 => credit' = past.granted - SumTo(Applied, Len(invoices)) + 0
            BY <1>13, <2>2, <3>3, <3>6, <3>7, <3>8
        <3>10. credit' >= 0
            BY <1>6, <1>13, <2>2, <3>2, <3>3
        <3> QED
            BY <1>1, <3>1, <3>4, <3>9, <3>10 DEF CreditOK
    <2> QED
        BY <2>1, <2>2
<1>21. MovesOK'
    BY <1>1, <1>2, <1>3, <1>5, DropsMoves
<1>22. Renews'
    BY <1>1, <1>2, <1>3, <1>5, DropsRenews
<1>23. OwingOK'
    BY <1>1, <1>2, <1>3, <1>5, DropsOwing
<1>24. FailingOK'
    BY <1>1, <1>2, <1>3, <1>5, <1>11, <1>15, DropsFailing
<1>25. RetriesOK'
    <2>1. CASE Current.op # "record"
        <3>1. Said' # {} => Mine' = Mine
            BY <1>2 DEF Keeps, Said, Mine
        <3>2. \A i \in DOMAIN invoices :
              \/ invoices'[i].retries = invoices[i].retries /\ invoices'[i].next = invoices[i].next
              \/ Billed(i, "success")' \/ Billed(i, "uncollectible")'
              \/ i = Mine' /\ "scheduleRetry" \in Tokens(handler'.todo)
            <4> TAKE i \in DOMAIN invoices
            <4>1. CASE Current.op = "unattempt" /\ i = Current.n
                BY <1>9, <4>1
            <4>2. CASE Current.op = "count" /\ i = Mine
                BY <1>8, <3>1, <4>2 DEF Said
            <4> QED
                BY <1>1, <1>11, <2>1, <4>1, <4>2
        <3> QED
            BY <1>1, <1>2, <1>3, <1>5, <1>11, <3>2, DropsRetries
    <2>2. CASE Current.op = "record"
        <3> SUFFICES ASSUME (Calm /\ ~ Ended(core))', NEW i \in DOMAIN invoices', Failing(i)'
                     PROVE  FALSE
            BY DEF RetriesOK
        <3>1. i \in DOMAIN invoices /\ Failing(i)
            BY <1>2, <1>11, DropsBills DEF Failing, BillMoves, KeptStatus, KeptRows
        <3>2. i = Mine
            BY <1>1, <1>4, <1>8, <2>2, <3>1 DEF FailingOK, Calm, Whole
        <3>3. invoices[i].status = "pending"
            BY <1>4, <1>8, <2>2, <3>2 DEF Standings
        <3>4. ~ Billed(i, "failed")
            <4>1. Said \cap BillMoves = {}
                BY <1>4, <2>2, LaterIs DEF BillMoves
            <4>2. handler.todo \in Seq(StepType)
                BY DEF BillTyped, HandlerType
            <4> QED
                BY <4>1, <4>2, NoBills DEF Billed, Bills, Said
        <3> QED
            BY <3>1, <3>3, <3>4 DEF Failing
    <2> QED
        BY <2>1, <2>2
<1> QED
    BY <1>15, <1>16, <1>17, <1>18, <1>19, <1>20, <1>21, <1>22, <1>23, <1>24, <1>25

\* transitionInvoice: the move is in the table, whatever the process died in before.
LEMMA InvoiceStep ==
    ASSUME BillInv, transitionInvoice
    PROVE  BillInv'
<1> USE DEF BillInv
<1>1. PICK i, h : i = Current.n /\ h = Current.to
    OBVIOUS
<1>2. /\ Holds /\ Current.op = "bill"
      /\ UNCHANGED <<now, core, stored, card, credit, jobs, running, past>>
    BY DEF transitionInvoice, At
<1>3. /\ handler.todo \in Seq(StepType) /\ handler.todo # <<>> /\ Ordered(handler.todo)
      /\ handler \in HandlerType
    BY <1>2 DEF BillTyped, HandlerType, ProgramOK, Holds
<1>4. /\ Current \in StepType /\ h \in BillMoves /\ Token(Current) = h
      /\ Said = {h} \cup Tokens(Tail(handler.todo))
      /\ Tokens(Tail(handler.todo)) \subseteq Later[h]
      /\ h \notin Tokens(Tail(handler.todo))
      /\ Current \in Elems(handler.todo)
    BY <1>1, <1>2, <1>3, AfterHead, TokenTyped DEF Current, Said, StepType, Moves
<1>5. Current \in Bills /\ Billed(i, h)
    BY <1>1, <1>2, <1>4 DEF Bills, Billed
<1>6. /\ i \in DOMAIN invoices /\ invoices \in Seq(Invoice)
      /\ invoices[i].status \in BillMoves
      /\ \A b \in Bills : b.n = i
      /\ "scheduleRetry" \in Said => i = Mine
    <2>1. i \in DOMAIN invoices /\ \A b \in Bills : b.n = i
        BY <1>1, <1>5 DEF Standings
    <2> QED
        BY <1>1, <1>5, <2>1, RecordTyped DEF Standings, BillTyped
<1>7. /\ h = "pending" => invoices[i].status = "failed"
      /\ h = "failed" => invoices[i].status = "pending"
      /\ h = "success" => invoices[i].status \in {"pending", "failed", "uncollectible"}
      /\ h = "uncollectible" => invoices[i].status \in {"pending", "failed"}
    <2>1. h = "failed" => "pending" \notin Said
        BY <1>4, LaterIs
    <2> QED
        BY <1>1, <1>5, <1>6, <2>1 DEF Standings, BillMoves
<1>8. assertInvoiceTransition(invoices[i].status, h)
    BY <1>4, <1>7, InvoiceMoves DEF BillMoves
<1>9. invoices' = [invoices EXCEPT ![i].status = h] /\ Onward
    BY <1>1, <1>8 DEF transitionInvoice
<1>10. Drops /\ Keeps
    BY <1>2, <1>9, OnwardDrops
<1>11. /\ Said = {h} \cup Said' /\ Said' \subseteq Later[h] /\ h \notin Said'
       /\ Linked(Said) /\ Linked(Said')
    BY <1>4, <1>10 DEF Drops, Said, ProgramOK
<1>12. /\ invoices' \in Seq(Invoice) /\ DOMAIN invoices' = DOMAIN invoices
       /\ invoices'[i].status = h
       /\ \A k \in DOMAIN invoices : k # i => invoices'[k].status = invoices[k].status
       /\ KeptRows /\ KeptTries /\ KeptApplied /\ KeptAmounts /\ KeptRecords
    <2> DEFINE v == [invoices[i] EXCEPT !.status = h]
    <2>1. /\ v \in Invoice /\ v.status = h /\ v.retries = invoices[i].retries
          /\ v.next = invoices[i].next /\ v.applied = invoices[i].applied
          /\ v.amount = invoices[i].amount /\ v.charged = invoices[i].charged
          /\ v.record = invoices[i].record
        <3>1. invoices[i] \in Invoice
            BY <1>6, InvoiceFields
        <3> QED
            BY <1>4, <3>1 DEF Invoice, BillMoves, InvoiceStatus
    <2>2. invoices' = [invoices EXCEPT ![i] = v]
        BY <1>6, <1>9
    <2> HIDE DEF v
    <2>3. /\ invoices' \in Seq(Invoice) /\ DOMAIN invoices' = DOMAIN invoices
          /\ invoices'[i] = v
          /\ \A k \in DOMAIN invoices : k # i => invoices'[k] = invoices[k]
        BY <1>6, <2>1, <2>2, InvoiceSet
    <2> QED
        BY <2>1, <2>3 DEF KeptRows, KeptTries, KeptApplied, KeptAmounts, KeptRecords
<1>13. /\ Said' \cap BillMoves = IF h = "pending" THEN {"failed"} ELSE {}
       /\ h = "pending" => "failed" \in Said'
       /\ "record" \notin Said' /\ "attempt" \notin Said' /\ "unattempt" \notin Said'
       /\ "recovered" \in Said' => h = "success"
       /\ "exhaust" \in Said' /\ h = "failed" => "scheduleRetry" \in Said'
    BY <1>4, <1>11, LaterIs DEF BillMoves, Linked
<1>14. \A b \in Bills' : /\ b.op = "bill" /\ b.n = i /\ b.to = "failed" /\ h = "pending"
    <2> SUFFICES ASSUME NEW b \in Bills'
                 PROVE  b.op = "bill" /\ b.n = i /\ b.to = "failed" /\ h = "pending"
        OBVIOUS
    <2>1. b \in Bills
        BY <1>10, DropsBills
    <2>2. b \in Elems(handler'.todo) /\ b.op = "bill"
        BY DEF Bills
    <2>3. b \in StepType
        BY <1>10, <2>2 DEF Elems, Drops, HandlerType
    <2>4. Token(b) = b.to /\ b.to \in BillMoves
        BY <2>2, <2>3 DEF Token, Moves, StepType
    <2>5. b.to \in Said'
        BY <2>2, <2>4 DEF Said, Tokens
    <2> QED
        BY <1>6, <1>13, <2>1, <2>2, <2>4, <2>5
<1>15. KeptPast /\ JobsStay /\ (Ended(core) => Ended(core'))
    BY <1>2 DEF KeptPast, JobsStay
<1>16. BillTyped'
    <2>1. BillingTypeOK'
        BY <1>2, <1>12 DEF BillTyped, BillingTypeOK
    <2> QED
        BY <1>2, <1>10, <2>1 DEF BillTyped, Drops
<1>17. ProgramOK' /\ JobsWell'
    BY <1>2, <1>10, <1>12, DropsProgram, SameJobs
<1>18. Timed'
    BY <1>4, <1>10, <1>12, DropsTimed DEF BillMoves
<1>19. Standings'
    <2>1. \A k \in DOMAIN invoices' : invoices'[k].status \in BillMoves
        BY <1>4, <1>12 DEF Standings
    <2>2. Said' # {} => Mine' = Mine
        BY <1>10 DEF Keeps, Said, Mine
    <2>3. \A b \in Bills' : b.n \in DOMAIN invoices'
        BY <1>6, <1>12, <1>14
    <2>4. \A b, c \in Bills' : b.n = c.n
        BY <1>14
    <2>5. \A b \in Bills' : "scheduleRetry" \in Said' => b.n = Mine'
        BY <1>6, <1>11, <1>14, <2>2
    <2>6. \A b \in Bills' :
          /\ b.to = "pending" => invoices'[b.n].status = "failed"
          /\ b.to = "failed" /\ "pending" \notin Said' => invoices'[b.n].status = "pending"
          /\ b.to = "success" => invoices'[b.n].status # "success"
          /\ b.to = "uncollectible" => invoices'[b.n].status \in {"pending", "failed"}
        BY <1>12, <1>14
    <2>7. "scheduleRetry" \in Said' /\ "failed" \notin Said' => invoices'[Mine'].status = "failed"
        <3> SUFFICES ASSUME "scheduleRetry" \in Said', "failed" \notin Said'
                     PROVE  invoices'[Mine'].status = "failed"
            OBVIOUS
        <3>1. h = "failed" \/ h = "pending"
            BY <1>4, <1>11, LaterIs DEF BillMoves
        <3>2. h = "failed" /\ i = Mine
            BY <1>6, <1>11, <1>13, <3>1
        <3> QED
            BY <1>12, <2>2, <3>2
    <2>8. "exhaust" \in Said' /\ "attempt" \notin Said' /\ "failed" \notin Said' =>
            invoices'[Mine'].status = "failed"
        <3> SUFFICES ASSUME "exhaust" \in Said', "failed" \notin Said'
                     PROVE  invoices'[Mine'].status = "failed"
            OBVIOUS
        <3>1. h = "failed" \/ h = "pending"
            BY <1>4, <1>11, LaterIs DEF BillMoves
        <3>2. h = "failed" /\ "scheduleRetry" \in Said'
            BY <1>13, <3>1
        <3> QED
            BY <2>7, <3>2
    <2>9. \A e \in Elems(handler'.todo) : e.op # "unattempt"
        BY <1>13 DEF Tokens, Token, Moves, Said
    <2> QED
        BY <1>13, <2>1, <2>3, <2>4, <2>5, <2>6, <2>7, <2>8, <2>9 DEF Standings
<1>20. ChargedOnce'
    <2>1. \A k : ~ Billed(k, "success")'
        BY <1>14 DEF Billed
    <2>2. \A k : Billed(k, "success") => k = i /\ h = "success"
        <3> SUFFICES ASSUME NEW k, Billed(k, "success") PROVE k = i /\ h = "success"
            OBVIOUS
        <3>1. PICK b \in Bills : b.n = k /\ b.to = "success"
            BY DEF Billed
        <3>2. b \in Bills' \/ b = Current
            BY <1>10, DropsBills
        <3> QED
            BY <1>1, <1>14, <3>1, <3>2
    <2> SUFFICES ASSUME NEW k \in DOMAIN invoices'
                 PROVE  /\ invoices'[k].charged <= 1 + past'.deaths
                        /\ invoices'[k].status # "success" =>
                              invoices'[k].charged <= past'.deaths
                        /\ invoices'[k].status = "success" =>
                              (invoices'[k].amount > 0 => invoices'[k].charged > 0)
        BY <2>1 DEF ChargedOnce
    <2>3. /\ k \in DOMAIN invoices /\ invoices'[k].charged = invoices[k].charged
          /\ invoices'[k].amount = invoices[k].amount /\ past'.deaths = past.deaths
        BY <1>2, <1>12 DEF KeptAmounts
    <2>4. /\ invoices[k].charged <= 1 + past.deaths
          /\ invoices[k].status # "success" /\ ~ Billed(k, "success") =>
                invoices[k].charged <= past.deaths
          /\ (invoices[k].status = "success" \/ Billed(k, "success")) =>
                (invoices[k].amount > 0 => invoices[k].charged > 0)
        BY <2>3 DEF ChargedOnce
    <2>5. CASE k = i
        <3>1. h = "success" => Billed(k, "success")
            BY <1>5, <2>5
        <3>2. invoices[k].status # "success"
            BY <1>4, <1>7, <2>5 DEF BillMoves
        <3> QED
            BY <1>12, <2>2, <2>3, <2>4, <2>5, <3>1, <3>2
    <2>6. CASE k # i
        BY <1>12, <2>2, <2>3, <2>4, <2>6
    <2> QED
        BY <2>5, <2>6
<1>21. CreditOK'
    BY <1>2, <1>4, <1>10, <1>12, <1>16, DropsCredit DEF BillMoves
<1>22. MovesOK'
    BY <1>2, <1>4, <1>10, <1>15, DropsMoves DEF BillMoves
<1>23. Renews'
    BY <1>2, <1>4, <1>10, <1>15, DropsRenews DEF BillMoves
<1>24. OwingOK'
    BY <1>2, <1>4, <1>10, <1>15, DropsOwing DEF BillMoves
<1>25. \A k \in DOMAIN invoices : Failing(k)' => Failing(k) /\ ~ (k = i /\ h \in {"success", "uncollectible"})
    <2> SUFFICES ASSUME NEW k \in DOMAIN invoices, Failing(k)'
                 PROVE  Failing(k) /\ ~ (k = i /\ h \in {"success", "uncollectible"})
        OBVIOUS
    <2>1. CASE Billed(k, "failed")'
        <3>1. k = i /\ h = "pending"
            BY <1>14, <2>1 DEF Billed
        <3>2. invoices[k].status = "failed"
            BY <1>7, <3>1
        <3> QED
            BY <3>1, <3>2 DEF Failing
    <2>2. CASE invoices'[k].status = "failed" /\ k = i
        <3>1. h = "failed"
            BY <1>12, <2>2
        <3> QED
            BY <1>5, <2>2, <3>1 DEF Failing
    <2>3. CASE invoices'[k].status = "failed" /\ k # i
        BY <1>12, <2>3 DEF Failing
    <2> QED
        BY <2>1, <2>2, <2>3 DEF Failing
<1>26. (Calm /\ ~ Ended(core))' => (Calm /\ ~ Ended(core))
    BY <1>2 DEF Calm, Whole
<1>27. Len(invoices') = Len(invoices)
    BY <1>6, <1>12
<1>28. FailingOK'
    <2>1. ASSUME (Calm /\ ~ Ended(core))', NEW k \in DOMAIN invoices', Failing(k)'
          PROVE  /\ k = Len(invoices') /\ invoices'[k].record
                 /\ stored'.owing \/ "owe" \in Said' \/ "cancelled" \in Said'
                 /\ "trial" \notin Said' /\ Made' /\ "recovered" \notin Said'
        <3>1. k \in DOMAIN invoices /\ Failing(k) /\ ~ (k = i /\ h \in {"success", "uncollectible"})
            BY <1>12, <1>25, <2>1
        <3>2. /\ k = Len(invoices) /\ invoices[k].record
              /\ stored.owing \/ "owe" \in Said \/ "cancelled" \in Said
              /\ "trial" \notin Said /\ Made
              /\ "recovered" \in Said => Billed(k, "success")
            BY <1>26, <2>1, <3>1 DEF FailingOK
        <3>3. "recovered" \notin Said'
            <4> SUFFICES ASSUME "recovered" \in Said' PROVE FALSE
                OBVIOUS
            <4>1. h = "success" /\ Billed(k, "success")
                BY <1>11, <1>13, <3>2
            <4>2. k = i
                BY <1>6, <4>1 DEF Billed
            <4> QED
                BY <3>1, <4>1, <4>2
        <3>4. /\ "owe" \in Said => "owe" \in Said'
              /\ "cancelled" \in Said => "cancelled" \in Said'
              /\ "trial" \notin Said' /\ Made'
            BY <1>4, <1>11, <3>2 DEF BillMoves, Made
        <3>5. invoices'[k].record
            BY <1>12, <3>1, <3>2 DEF KeptRecords
        <3> QED
            BY <1>2, <1>27, <3>2, <3>3, <3>4, <3>5
    <2> QED
        BY <1>13, <2>1 DEF FailingOK
<1>29. RetriesOK'
    <2> SUFFICES ASSUME (Calm /\ ~ Ended(core))', NEW k \in DOMAIN invoices', Failing(k)'
                 PROVE  Retried(k)'
        BY DEF RetriesOK
    <2>1. k \in DOMAIN invoices /\ Failing(k) /\ ~ (k = i /\ h \in {"success", "uncollectible"})
        BY <1>12, <1>25
    <2>2. Retried(k)
        BY <1>26, <2>1 DEF RetriesOK
    <2>3. invoices'[k].retries = invoices[k].retries /\ invoices'[k].next = invoices[k].next
        BY <1>12, <2>1 DEF KeptTries
    <2>4. /\ \A x \in {"attempt", "scheduleRetry", "exhaust", "cancelled", "dispatch"} :
               x \in Said => x \in Said'
          /\ Said' # {} => Mine' = Mine
        BY <1>4, <1>10, <1>11 DEF Keeps, Said, Mine, BillMoves
    <2>5. CASE \E l \in DOMAIN jobs : IsRetry(jobs[l], k)
        BY <1>2, <2>3, <2>5 DEF Retried, IsRetry
    <2>6. CASE IsRetry(running.job, k) /\ InHand
        BY <1>2, <2>3, <2>4, <2>6 DEF Retried, IsRetry, InHand
    <2>7. CASE k = Mine /\ Said \cap {"attempt", "scheduleRetry", "exhaust"} # {}
        BY <2>4, <2>7 DEF Retried
    <2>8. CASE Billed(k, "success") \/ Billed(k, "uncollectible")
        <3>1. PICK b \in Bills : b.n = k /\ b.to \in {"success", "uncollectible"}
            BY <2>8 DEF Billed
        <3>2. b = Current
            BY <1>10, <1>14, <3>1, DropsBills
        <3> QED
            BY <1>1, <2>1, <3>1, <3>2
    <2>9. CASE "cancelled" \in Said
        BY <2>4, <2>9 DEF Retried
    <2> QED
        BY <2>2, <2>5, <2>6, <2>7, <2>8, <2>9 DEF Retried
<1> QED
    BY <1>16, <1>17, <1>18, <1>19, <1>20, <1>21, <1>22, <1>23, <1>24, <1>28, <1>29

-----------------------------------------------------------------------------
(***************************************************************************)
(* What the programs say.                                                  *)
(***************************************************************************)
Program(s, W) ==
    /\ s \in Seq(StepType) /\ Ordered(s) /\ Tokens(s) = W

\* A step that moves nothing is a program of one word ...
LEMMA StepSays ==
    ASSUME NEW op \in Ops, op \notin {"core", "bill", "createInvoice"}
    PROVE  Program(Step(op), {op})
<1> DEFINE e == [op |-> op, to |-> "any", n |-> 0]
<1>1. e \in StepType /\ Token(e) = op
    BY DEF StepType, Token, Moves, Names
<1> HIDE DEF e
<1>2. Program(<<e>>, {op})
    BY <1>1, OneStep DEF Program
<1> QED
    BY <1>2 DEF Step, e

\* ... so is a move of the row ...
LEMMA ToSays ==
    ASSUME NEW s \in CoreMoves
    PROVE  Program(To(s), {s})
<1> DEFINE e == [op |-> "core", to |-> s, n |-> 0]
<1>1. e \in StepType /\ Token(e) = s
    BY DEF StepType, Token, Moves, Names, Ops
<1> HIDE DEF e
<1>2. Program(<<e>>, {s})
    BY <1>1, OneStep DEF Program
<1> QED
    BY <1>2 DEF To, e

\* ... a move of an invoice, which names that invoice ...
LEMMA BillSays ==
    ASSUME NEW i \in Int, NEW s \in BillMoves
    PROVE  /\ Program(Bill(i, s), {s})
           /\ \A e \in Elems(Bill(i, s)) : e.op = "bill" /\ e.n = i /\ e.to = s
           /\ \E e \in Elems(Bill(i, s)) : e.op = "bill" /\ e.n = i /\ e.to = s
<1> DEFINE e == [op |-> "bill", to |-> s, n |-> i]
<1>1. e \in StepType /\ Token(e) = s /\ e.op = "bill" /\ e.n = i /\ e.to = s
    BY DEF StepType, Token, Moves, Names, Ops
<1> HIDE DEF e
<1>2. Program(<<e>>, {s}) /\ Elems(<<e>>) = {e}
    BY <1>1, OneStep DEF Program
<1>3. Bill(i, s) = <<e>>
    BY DEF Bill, e
<1> QED
    BY <1>1, <1>2, <1>3

\* ... and giving up the next attempt at one.
LEMMA UnattemptSays ==
    ASSUME NEW i \in Int
    PROVE  /\ Program(Unattempt(i), {"unattempt"})
           /\ \A e \in Elems(Unattempt(i)) : e.op = "unattempt" /\ e.n = i
<1> DEFINE e == [op |-> "unattempt", to |-> "any", n |-> i]
<1>1. e \in StepType /\ Token(e) = "unattempt" /\ e.op = "unattempt" /\ e.n = i
    BY DEF StepType, Token, Moves, Names, Ops
<1> HIDE DEF e
<1>2. Program(<<e>>, {"unattempt"}) /\ Elems(<<e>>) = {e}
    BY <1>1, OneStep DEF Program
<1>3. Unattempt(i) = <<e>>
    BY DEF Unattempt, e
<1> QED
    BY <1>1, <1>2, <1>3

\* Programs follow each other when every word of the second may follow the first's.
LEMMA Joined ==
    ASSUME NEW a, NEW b, NEW V, NEW W, Program(a, V), Program(b, W),
           \A x \in V, y \in W : y \in Later[x]
    PROVE  Program(a \o b, V \cup W)
BY JoinPrograms DEF Program

\* The steps of two programs, one after the other
LEMMA ElemsJoined ==
    ASSUME NEW a \in Seq(StepType), NEW b \in Seq(StepType)
    PROVE  Elems(a \o b) = Elems(a) \cup Elems(b)
<1> DEFINE r == a \o b
<1>1. /\ DOMAIN r = 1..Len(a) + Len(b) /\ Len(a) \in Nat /\ Len(b) \in Nat
      /\ DOMAIN a = 1..Len(a) /\ DOMAIN b = 1..Len(b)
      /\ \A k \in 1..Len(a) + Len(b) : r[k] = IF k <= Len(a) THEN a[k] ELSE b[k - Len(a)]
    OBVIOUS
<1> HIDE DEF r
<1>2. \A k \in DOMAIN a : k \in DOMAIN r /\ r[k] = a[k]
    BY <1>1
<1>3. \A k \in DOMAIN b : k + Len(a) \in DOMAIN r /\ r[k + Len(a)] = b[k]
    BY <1>1
<1>4. \A k \in DOMAIN r : \/ k \in DOMAIN a /\ r[k] = a[k]
                          \/ k - Len(a) \in DOMAIN b /\ r[k] = b[k - Len(a)]
    BY <1>1
<1>5. Elems(a) \subseteq Elems(r)
    BY <1>2 DEF Elems
<1>6. Elems(b) \subseteq Elems(r)
    BY <1>3 DEF Elems
<1>7. Elems(r) \subseteq Elems(a) \cup Elems(b)
    BY <1>4 DEF Elems
<1> QED
    BY <1>5, <1>6, <1>7 DEF r

\* The empty program says nothing.
LEMMA NothingSaid ==
    Program(<<>>, {}) /\ Elems(<<>>) = {}
BY NoSteps DEF Program

\* What #end goes through
LEMMA EndSays ==
    /\ Program(endSubscription, {"endRecord", "cancelGroup", "writeOff", "cancelled"})
    /\ Linked({"endRecord", "cancelGroup", "writeOff", "cancelled"})
<1>1. /\ Program(Step("endRecord"), {"endRecord"})
      /\ Program(Step("cancelGroup"), {"cancelGroup"})
      /\ Program(Step("writeOff"), {"writeOff"}) /\ Program(To("cancelled"), {"cancelled"})
    BY StepSays, ToSays DEF Ops, CoreMoves
<1>2. Program(Step("endRecord") \o Step("cancelGroup"), {"endRecord"} \cup {"cancelGroup"})
    BY <1>1, Joined, LaterIs
<1>3. Program(Step("endRecord") \o Step("cancelGroup") \o Step("writeOff"),
              ({"endRecord"} \cup {"cancelGroup"}) \cup {"writeOff"})
    BY <1>1, <1>2, Joined, LaterIs
<1>4. Program(Step("endRecord") \o Step("cancelGroup") \o Step("writeOff") \o To("cancelled"),
              (({"endRecord"} \cup {"cancelGroup"}) \cup {"writeOff"}) \cup {"cancelled"})
    BY <1>1, <1>3, Joined, LaterIs
<1>5. ((({"endRecord"} \cup {"cancelGroup"}) \cup {"writeOff"}) \cup {"cancelled"})
          = {"endRecord", "cancelGroup", "writeOff", "cancelled"}
    OBVIOUS
<1> QED
    BY <1>4, <1>5 DEF endSubscription, Linked

\* What follows an invoice that was paid for
LEMMA SettledSays ==
    ASSUME NEW i \in Int
    PROVE  /\ Program(settled(i), {"unattempt", "success", "recovered"})
           /\ Linked({"unattempt", "success", "recovered"})
           /\ \A e \in Elems(settled(i)) :
                 /\ e.op = "bill" => e.n = i /\ e.to = "success"
                 /\ e.op = "unattempt" => e.n = i
           /\ \E e \in Elems(settled(i)) : e.op = "bill" /\ e.n = i /\ e.to = "success"
<1>1. /\ Program(Unattempt(i), {"unattempt"}) /\ Program(Bill(i, "success"), {"success"})
      /\ Program(Step("recovered"), {"recovered"})
    BY UnattemptSays, BillSays, StepSays DEF Ops, BillMoves
<1>2. /\ Program(Unattempt(i) \o Bill(i, "success"), {"unattempt"} \cup {"success"})
      /\ Elems(Unattempt(i) \o Bill(i, "success")) = Elems(Unattempt(i)) \cup Elems(Bill(i, "success"))
    <2>1. Program(Unattempt(i) \o Bill(i, "success"), {"unattempt"} \cup {"success"})
        BY <1>1, Joined, LaterIs
    <2> QED
        BY <1>1, <2>1, ElemsJoined DEF Program
<1>3. /\ Program(settled(i), ({"unattempt"} \cup {"success"}) \cup {"recovered"})
      /\ Elems(settled(i)) = Elems(Unattempt(i)) \cup Elems(Bill(i, "success"))
                                \cup Elems(Step("recovered"))
    <2>1. Program(settled(i), ({"unattempt"} \cup {"success"}) \cup {"recovered"})
        BY <1>1, <1>2, Joined, LaterIs DEF settled
    <2> QED
        BY <1>1, <1>2, <2>1, ElemsJoined DEF Program, settled
<1>4. (({"unattempt"} \cup {"success"}) \cup {"recovered"}) = {"unattempt", "success", "recovered"}
    OBVIOUS
<1>5. \A e \in Elems(Step("recovered")) : e.op = "recovered"
    <2> DEFINE e == [op |-> "recovered", to |-> "any", n |-> 0]
    <2>1. e \in StepType /\ e.op = "recovered"
        BY DEF StepType, Names, Ops
    <2>2. Step("recovered") = <<e>>
        BY DEF Step
    <2> HIDE DEF e
    <2> QED
        BY <2>1, <2>2, OneStep
<1>6. \A e \in Elems(settled(i)) :
                 /\ e.op = "bill" => e.n = i /\ e.to = "success"
                 /\ e.op = "unattempt" => e.n = i
    BY <1>3, <1>5, UnattemptSays, BillSays DEF BillMoves
<1>7. \E e \in Elems(settled(i)) : e.op = "bill" /\ e.n = i /\ e.to = "success"
    BY <1>3, BillSays DEF BillMoves
<1>8. Linked({"unattempt", "success", "recovered"})
    BY DEF Linked
<1> QED
    BY <1>3, <1>4, <1>6, <1>7, <1>8

\* What follows a refusal
LEMMA RefusedSays ==
    ASSUME NEW i \in Int
    PROVE  \E W : /\ Program(refused(i), W)
                  /\ W = {"count", "failed", "owe", "scheduleRetry"}
                            \cup (IF invoices[i].status = "failed" THEN {"pending"} ELSE {})
                  /\ Linked(W) /\ Linked(W \cup {"exhaust"})
                  /\ \A x \in W : "exhaust" \in Later[x]
                  /\ \A e \in Elems(refused(i)) : /\ e.op = "bill" => e.n = i
                                                  /\ e.op # "unattempt"
                  /\ \E e \in Elems(refused(i)) : e.op = "bill" /\ e.n = i /\ e.to = "failed"
<1> DEFINE again == invoices[i].status = "failed"
           mid == IF again THEN Bill(i, "pending") ELSE <<>>
           M   == IF again THEN {"pending"} ELSE {}
           W == {"count", "failed", "owe", "scheduleRetry"} \cup M
<1>1. /\ Program(Step("count"), {"count"}) /\ Program(Bill(i, "failed"), {"failed"})
      /\ Program(Step("owe"), {"owe"}) /\ Program(Step("scheduleRetry"), {"scheduleRetry"})
    BY BillSays, StepSays DEF Ops, BillMoves
<1>2. /\ Program(mid, M) /\ M \subseteq {"pending"}
      /\ \A e \in Elems(mid) : e.op = "bill" /\ e.n = i
    BY BillSays, NothingSaid DEF BillMoves
<1> HIDE DEF mid, M
<1> DEFINE a == Step("count") \o mid
           b == a \o Bill(i, "failed")
           c == b \o Step("owe")
           d == c \o Step("scheduleRetry")
<1>3. Program(a, {"count"} \cup M) /\ Elems(a) = Elems(Step("count")) \cup Elems(mid)
    <2>2. \A v \in {"count"}, y \in M : y \in Later[v]
        BY <1>2, LaterIs
    <2>1. Program(a, {"count"} \cup M)
        BY <1>1, <1>2, <2>2, Joined
    <2> QED
        BY <1>1, <1>2, <2>1, ElemsJoined DEF Program
<1> HIDE DEF a
<1>4. /\ Program(b, ({"count"} \cup M) \cup {"failed"})
      /\ Elems(b) = Elems(a) \cup Elems(Bill(i, "failed"))
    <2>2. \A v \in {"count"} \cup M, y \in {"failed"} : y \in Later[v]
        BY <1>2, LaterIs
    <2>1. Program(b, ({"count"} \cup M) \cup {"failed"})
        <3> DEFINE V == {"count"} \cup M
        <3>1. Program(a, V) /\ Program(Bill(i, "failed"), {"failed"})
            BY <1>1, <1>3
        <3>2. \A v \in V, y \in {"failed"} : y \in Later[v]
            BY <2>2
        <3> HIDE DEF V
        <3>3. Program(a \o Bill(i, "failed"), V \cup {"failed"})
            BY <3>1, <3>2, Joined
        <3> QED
            BY <3>3 DEF V
    <2> QED
        BY <1>1, <1>3, <2>1, ElemsJoined DEF Program
<1> HIDE DEF b
<1>5. /\ Program(c, (({"count"} \cup M) \cup {"failed"}) \cup {"owe"})
      /\ Elems(c) = Elems(b) \cup Elems(Step("owe"))
    <2>2. \A v \in ({"count"} \cup M) \cup {"failed"}, y \in {"owe"} : y \in Later[v]
        BY <1>2, LaterIs
    <2>1. Program(c, (({"count"} \cup M) \cup {"failed"}) \cup {"owe"})
        <3> DEFINE V == ({"count"} \cup M) \cup {"failed"}
        <3>1. Program(b, V) /\ Program(Step("owe"), {"owe"})
            BY <1>1, <1>4
        <3>2. \A v \in V, y \in {"owe"} : y \in Later[v]
            BY <2>2
        <3> HIDE DEF V
        <3>3. Program(b \o Step("owe"), V \cup {"owe"})
            BY <3>1, <3>2, Joined
        <3> QED
            BY <3>3 DEF V
    <2> QED
        BY <1>1, <1>4, <2>1, ElemsJoined DEF Program
<1> HIDE DEF c
<1>6. /\ Program(d, ((({"count"} \cup M) \cup {"failed"}) \cup {"owe"}) \cup {"scheduleRetry"})
      /\ Elems(d) = Elems(c) \cup Elems(Step("scheduleRetry"))
    <2>2. \A v \in (({"count"} \cup M) \cup {"failed"}) \cup {"owe"}, y \in {"scheduleRetry"} :
             y \in Later[v]
        BY <1>2, LaterIs
    <2>1. Program(d, ((({"count"} \cup M) \cup {"failed"}) \cup {"owe"}) \cup {"scheduleRetry"})
        <3> DEFINE V == (({"count"} \cup M) \cup {"failed"}) \cup {"owe"}
        <3>1. Program(c, V) /\ Program(Step("scheduleRetry"), {"scheduleRetry"})
            BY <1>1, <1>5
        <3>2. \A v \in V, y \in {"scheduleRetry"} : y \in Later[v]
            BY <2>2
        <3> HIDE DEF V
        <3>3. Program(c \o Step("scheduleRetry"), V \cup {"scheduleRetry"})
            BY <3>1, <3>2, Joined
        <3> QED
            BY <3>3 DEF V
    <2> QED
        BY <1>1, <1>5, <2>1, ElemsJoined DEF Program
<1>7. ((({"count"} \cup M) \cup {"failed"}) \cup {"owe"}) \cup {"scheduleRetry"} = W
    OBVIOUS
<1> HIDE DEF d
<1>8. refused(i) = d
    BY DEF refused, a, b, c, d, mid
<1>9. \A op \in {"count", "owe", "scheduleRetry"} :
         \A e \in Elems(Step(op)) : e.op # "bill" /\ e.op # "unattempt"
    <2> SUFFICES ASSUME NEW op \in {"count", "owe", "scheduleRetry"}
                 PROVE  \A e \in Elems(Step(op)) : e.op # "bill" /\ e.op # "unattempt"
        OBVIOUS
    <2> DEFINE e == [op |-> op, to |-> "any", n |-> 0]
    <2>1. e \in StepType /\ e.op = op
        BY DEF StepType, Names, Ops
    <2>2. Step(op) = <<e>>
        BY DEF Step
    <2> HIDE DEF e
    <2> QED
        BY <2>1, <2>2, OneStep
<1>10. /\ \A e \in Elems(refused(i)) : /\ e.op = "bill" => e.n = i
                                       /\ e.op # "unattempt"
       /\ \E e \in Elems(refused(i)) : e.op = "bill" /\ e.n = i /\ e.to = "failed"
    BY <1>2, <1>3, <1>4, <1>5, <1>6, <1>8, <1>9, BillSays DEF BillMoves
<1>11. Linked(W) /\ Linked(W \cup {"exhaust"})
    BY <1>2 DEF Linked
<1>12. \A x \in W : "exhaust" \in Later[x]
    BY <1>2, LaterIs
<1>13. Program(refused(i), W)
    BY <1>6, <1>7, <1>8
<1>14. W = {"count", "failed", "owe", "scheduleRetry"}
                            \cup (IF invoices[i].status = "failed" THEN {"pending"} ELSE {})
    BY DEF M
<1> HIDE DEF W
<1> QED
    BY <1>10, <1>11, <1>12, <1>13, <1>14

\* What raising an invoice goes through, its first attempt included
LEMMA RaiseSays ==
    ASSUME NEW kind \in {"cycle", "proration"}
    PROVE  /\ Program(raiseInvoice(kind), {"createInvoice", "record", "spend", "attempt"}
                                              \cup (IF kind = "cycle" THEN {"carry"} ELSE {}))
           /\ Linked({"createInvoice", "record", "spend", "attempt"}
                        \cup (IF kind = "cycle" THEN {"carry"} ELSE {}))
<1> DEFINE pre == IF kind = "cycle" THEN Step("carry") ELSE <<>>
           P   == IF kind = "cycle" THEN {"carry"} ELSE {}
           e   == [op |-> "createInvoice", to |-> kind, n |-> 0]
<1>1. Program(pre, P) /\ P \subseteq {"carry"}
    BY StepSays, NothingSaid DEF Ops
<1>2. Program(<<e>>, {"createInvoice"})
    <2>1. e \in StepType /\ Token(e) = "createInvoice"
        BY DEF StepType, Names, Ops, Token, Moves
    <2> HIDE DEF e
    <2> QED
        BY <2>1, OneStep DEF Program
<1>3. /\ Program(Step("record"), {"record"}) /\ Program(Step("spend"), {"spend"})
      /\ Program(Step("attempt"), {"attempt"})
    BY StepSays DEF Ops
<1> DEFINE a == pre \o <<e>>
           b == a \o Step("record")
           c == b \o Step("spend")
           d == c \o Step("attempt")
<1> HIDE DEF pre, P, e
<1>4. Program(a, P \cup {"createInvoice"})
    BY <1>1, <1>2, Joined, LaterIs
<1> HIDE DEF a
<1>5. Program(b, (P \cup {"createInvoice"}) \cup {"record"})
    BY <1>1, <1>3, <1>4, Joined, LaterIs
<1> HIDE DEF b
<1>6. Program(c, ((P \cup {"createInvoice"}) \cup {"record"}) \cup {"spend"})
    BY <1>1, <1>3, <1>5, Joined, LaterIs
<1> HIDE DEF c
<1>7. Program(d, (((P \cup {"createInvoice"}) \cup {"record"}) \cup {"spend"}) \cup {"attempt"})
    <2>1. \A v \in ((P \cup {"createInvoice"}) \cup {"record"}) \cup {"spend"} : "attempt" \in Later[v]
        BY <1>1, LaterIs
    <2> QED
        BY <1>3, <1>6, <2>1, Joined
<1>8. (((P \cup {"createInvoice"}) \cup {"record"}) \cup {"spend"}) \cup {"attempt"}
          = {"createInvoice", "record", "spend", "attempt"} \cup P
    OBVIOUS
<1> HIDE DEF d
<1>9. raiseInvoice(kind) = d
    BY DEF raiseInvoice, a, b, c, d, pre, e
<1>10. Linked({"createInvoice", "record", "spend", "attempt"} \cup P)
    BY <1>1 DEF Linked
<1> QED
    BY <1>7, <1>8, <1>9, <1>10 DEF P

-----------------------------------------------------------------------------
(***************************************************************************)
(* The steps of a handler that put others before what is left to do.       *)
(***************************************************************************)
LEMMA Turned ==
    ASSUME BillTyped, ProgramOK, NEW p, NEW W, Program(p, W), W # {}, Linked(W),
           "dispatch" \notin W, running'.begun = running.begun, Goes(p)
    PROVE  /\ handler' \in HandlerType /\ handler'.todo = p /\ Said' = W
           /\ handler'.by = handler.by /\ handler'.at = handler.at
           /\ handler'.invoice = handler.invoice /\ handler'.retry = handler.retry
           /\ handler'.first = handler.first /\ Mine' = Mine
           /\ ProgramOK'
<1>1. p # <<>> /\ p \in Seq(StepType) /\ Ordered(p) /\ Tokens(p) = W
    BY NoSteps DEF Program
<1>2. handler' = [handler EXCEPT !.todo = p]
    BY <1>1 DEF Goes
<1>3. /\ handler' \in HandlerType /\ handler'.todo = p
      /\ handler'.by = handler.by /\ handler'.at = handler.at
      /\ handler'.invoice = handler.invoice /\ handler'.retry = handler.retry
      /\ handler'.first = handler.first
    BY <1>1, <1>2 DEF BillTyped, HandlerType
<1>4. handler' # Free
    BY <1>1, <1>3, FreeHandler
<1>5. Said' = W
    BY <1>1, <1>3 DEF Said
<1>6. ProgramOK'
    BY <1>1, <1>3, <1>4, <1>5 DEF ProgramOK
<1> QED
    BY <1>3, <1>5, <1>6 DEF Mine

\* An invoice charged, or with nothing to pay, is charged for this move alone.
LEMMA Settles ==
    ASSUME BillInv, Said \subseteq {"attempt", "exhaust", "retryNow"}, Holds,
           NEW i \in DOMAIN invoices, invoices[i].status # "success", Goes(settled(i)),
           (invoices' = invoices /\ invoices[i].amount = 0) \/ invoices' = Paid(i),
           UNCHANGED <<now, core, stored, card, credit, jobs, running, past>>,
           Calm /\ ~ Ended(core) => \A k \in DOMAIN invoices : Failing(k) => k = i
    PROVE  BillInv'
<1> USE DEF BillInv
<1>1. /\ invoices \in Seq(Invoice) /\ i \in Int
      /\ invoices[i] \in Invoice /\ invoices[i].charged \in Nat
    BY RecordTyped, InvoiceFields DEF BillTyped
<1> DEFINE W == {"unattempt", "success", "recovered"}
<1>2. /\ Program(settled(i), W) /\ Linked(W)
      /\ \A e \in Elems(settled(i)) : /\ e.op = "bill" => e.n = i /\ e.to = "success"
                                      /\ e.op = "unattempt" => e.n = i
      /\ \E e \in Elems(settled(i)) : e.op = "bill" /\ e.n = i /\ e.to = "success"
    BY <1>1, SettledSays
<1>3. /\ handler' \in HandlerType /\ handler'.todo = settled(i) /\ Said' = W
      /\ ProgramOK'
    BY <1>2, Turned
<1>4. /\ \A b \in Bills' : b.n = i /\ b.to = "success"
      /\ Billed(i, "success")'
      /\ \A k, to : Billed(k, to)' => k = i /\ to = "success"
      /\ \A e \in Elems(handler'.todo) : e.op = "unattempt" => e.n = i
    BY <1>2, <1>3 DEF Bills, Billed
<1>5. Bills = {} /\ \A k, to : ~ Billed(k, to)
    <2>1. Said \cap BillMoves = {}
        BY DEF BillMoves
    <2>2. handler.todo \in Seq(StepType)
        BY DEF BillTyped, HandlerType
    <2> QED
        BY <2>1, <2>2, NoBills DEF Bills, Billed, Said
<1>6. /\ invoices' \in Seq(Invoice) /\ DOMAIN invoices' = DOMAIN invoices
      /\ KeptRows /\ KeptStatus /\ KeptTries /\ KeptApplied /\ KeptRecords
      /\ invoices'[i].amount = invoices[i].amount
      /\ invoices'[i].charged = invoices[i].charged + 1 \/ (invoices'[i].amount = 0
              /\ invoices'[i].charged = invoices[i].charged)
      /\ \A k \in DOMAIN invoices : k # i => invoices'[k] = invoices[k]
    <2>1. CASE invoices' = invoices /\ invoices[i].amount = 0
        BY <1>1, <2>1, KeptAll
    <2>2. CASE invoices' = Paid(i)
        <3> DEFINE v == [invoices[i] EXCEPT !.charged = invoices[i].charged + 1]
        <3>1. /\ v \in Invoice /\ v.status = invoices[i].status /\ v.retries = invoices[i].retries
              /\ v.next = invoices[i].next /\ v.applied = invoices[i].applied
              /\ v.amount = invoices[i].amount /\ v.charged = invoices[i].charged + 1
              /\ v.record = invoices[i].record
            <4>1. invoices[i].charged + 1 \in Nat
                BY <1>1
            <4> QED
                BY <1>1, <4>1 DEF Invoice
        <3>2. invoices' = [invoices EXCEPT ![i] = v]
            BY <1>1, <2>2 DEF Paid
        <3> HIDE DEF v
        <3>3. /\ invoices' \in Seq(Invoice) /\ DOMAIN invoices' = DOMAIN invoices
              /\ invoices'[i] = v
              /\ \A k \in DOMAIN invoices : k # i => invoices'[k] = invoices[k]
            BY <1>1, <3>1, <3>2, InvoiceSet
        <3> QED
            BY <3>1, <3>3 DEF KeptRows, KeptStatus, KeptTries, KeptApplied, KeptRecords
    <2> QED
        BY <2>1, <2>2
<1>7. /\ DOMAIN invoices' = DOMAIN invoices
      /\ \A k \in DOMAIN invoices : /\ invoices'[k].status = invoices[k].status
                                    /\ invoices'[k].next = invoices[k].next
                                    /\ invoices'[k].retries = invoices[k].retries
                                    /\ invoices[k].record => invoices'[k].record
    BY <1>6 DEF KeptRows, KeptStatus, KeptTries, KeptRecords
<1>8. BillTyped'
    <2>1. BillingTypeOK'
        BY <1>6 DEF BillTyped, BillingTypeOK
    <2> QED
        BY <1>3, <2>1 DEF BillTyped
<1>9. JobsWell'
    BY <1>7, SameJobs
<1>10. Timed'
    BY <1>3 DEF Timed, Trying
<1>11. Standings'
    BY <1>3, <1>4, <1>7 DEF Standings
<1>12. ChargedOnce'
    <2>1. past'.deaths = past.deaths /\ past.deaths \in Nat
        BY RecordTyped, BillingBounds DEF BillTyped
    <2> SUFFICES ASSUME NEW k \in DOMAIN invoices'
                 PROVE  /\ invoices'[k].charged <= 1 + past'.deaths
                        /\ invoices'[k].status # "success" /\ ~ Billed(k, "success")' =>
                              invoices'[k].charged <= past'.deaths
                        /\ (invoices'[k].status = "success" \/ Billed(k, "success")') =>
                              (invoices'[k].amount > 0 => invoices'[k].charged > 0)
        BY DEF ChargedOnce
    <2>2. /\ k \in DOMAIN invoices /\ ~ Billed(k, "success")
          /\ invoices[k].charged <= 1 + past.deaths
          /\ invoices[k].status # "success" => invoices[k].charged <= past.deaths
          /\ invoices[k].status = "success" =>
                (invoices[k].amount > 0 => invoices[k].charged > 0)
        BY <1>5, <1>7 DEF ChargedOnce
    <2>3. CASE k = i
        <3>1. invoices[i].charged <= past.deaths
            BY <2>2, <2>3
        <3>2. invoices'[i].charged <= 1 + past.deaths
            BY <1>1, <1>6, <2>1, <3>1
        <3>3. invoices'[i].amount > 0 => invoices'[i].charged > 0
            BY <1>1, <1>6
        <3> QED
            BY <1>4, <1>7, <2>1, <2>3, <3>2, <3>3
    <2>4. CASE k # i
        BY <1>4, <1>6, <2>1, <2>2, <2>4
    <2> QED
        BY <2>3, <2>4
<1>13. CreditOK'
    <2>1. Applied' = Applied /\ Len(invoices') = Len(invoices)
        BY <1>6, <1>8, SameApplied
    <2>2. ~ Unspent /\ ~ Unspent'
        BY <1>3 DEF Unspent
    <2> QED
        BY <2>1, <2>2 DEF CreditOK
<1>14. "dispatch" \notin Said /\ handler.todo # <<>>
    BY DEF Holds
<1>15. MovesOK'
    BY <1>3, <1>14 DEF MovesOK, Whole
<1>16. Renews'
    BY <1>3 DEF Renews, Whole, IsRenewal, InHand
<1>17. OwingOK'
    <2>1. \A x \in {"active", "attention", "cancelled"} : x \notin Said /\ x \notin Said'
        BY <1>3
    <2> QED
        BY <2>1 DEF OwingOK, Calm, Whole
<1>18. (Calm /\ ~ Ended(core))' => (Calm /\ ~ Ended(core))
    BY DEF Calm, Whole
<1>19. \A k \in DOMAIN invoices' : Failing(k)' => k \in DOMAIN invoices /\ Failing(k)
    BY <1>4, <1>7 DEF Failing
<1>20. FailingOK'
    <2>1. ASSUME (Calm /\ ~ Ended(core))', NEW k \in DOMAIN invoices', Failing(k)'
          PROVE  /\ k = Len(invoices') /\ invoices'[k].record
                 /\ stored'.owing /\ Billed(k, "success")'
        <3>1. k \in DOMAIN invoices /\ Failing(k) /\ k = i
            BY <1>18, <1>19, <2>1
        <3>2. /\ k = Len(invoices) /\ invoices[k].record
              /\ stored.owing \/ "owe" \in Said \/ "cancelled" \in Said
            BY <1>18, <2>1, <3>1 DEF FailingOK
        <3>3. Len(invoices') = Len(invoices)
            BY <1>1, <1>6
        <3> QED
            BY <1>4, <1>7, <3>1, <3>2, <3>3
    <2>2. \A x \in {"trial", "createInvoice", "attempt"} : x \notin Said'
        BY <1>3
    <2> QED
        BY <2>1, <2>2 DEF FailingOK, Made
<1>21. RetriesOK'
    <2> SUFFICES ASSUME (Calm /\ ~ Ended(core))', NEW k \in DOMAIN invoices', Failing(k)'
                 PROVE  Retried(k)'
        BY DEF RetriesOK
    <2>1. k = i
        BY <1>18, <1>19
    <2> QED
        BY <1>4, <2>1 DEF Retried
<1> QED
    BY <1>3, <1>8, <1>9, <1>10, <1>11, <1>12, <1>13, <1>15, <1>16, <1>17, <1>20, <1>21

\* #attempt: the card is charged, and the outcome decides what follows.
LEMMA AttemptStep ==
    ASSUME BillInv, attempt
    PROVE  BillInv'
<1> USE DEF BillInv
<1> DEFINE r == Tail(handler.todo)
           T == Tokens(r)
<1>1. /\ Holds /\ Current.op = "attempt"
      /\ UNCHANGED <<now, core, stored, card, credit, jobs, running, past>>
    BY DEF attempt, At
<1>2. /\ handler.todo \in Seq(StepType) /\ handler.todo # <<>> /\ Ordered(handler.todo)
      /\ handler \in HandlerType
    BY <1>1 DEF BillTyped, HandlerType, ProgramOK, Holds
<1>3. Token(Current) = "attempt"
    BY <1>1 DEF Token, Moves
<1>4. /\ r \in Seq(StepType) /\ Ordered(r) /\ Elems(handler.todo) = {Current} \cup Elems(r)
      /\ Said = {"attempt"} \cup T /\ T \subseteq {"exhaust"}
    BY <1>2, <1>3, AfterHead, LaterIs DEF Current, Said
<1>5. Program(r, T) /\ \A e \in Elems(r) : e.op # "bill" /\ e.op # "unattempt"
    <2>1. Program(r, T)
        BY <1>4 DEF Program
    <2>2. \A e \in Elems(r) : e.op # "bill"
        BY <1>4, NoBills DEF BillMoves
    <2>3. \A e \in Elems(r) : e.op # "unattempt"
        BY <1>4 DEF Tokens, Token, Moves
    <2> QED
        BY <2>1, <2>2, <2>3
<1> HIDE DEF r, T
<1>6. PICK i : i = Mine
    OBVIOUS
<1>7. /\ Made /\ Trying /\ i \in DOMAIN invoices /\ invoices \in Seq(Invoice) /\ i \in Int
      /\ invoices[i].status \in {"pending", "failed"}
    <2>1. Made /\ Trying
        BY <1>4 DEF Made, Trying
    <2>2. "attempt" \in Said
        BY <1>4
    <2> QED
        BY <1>6, <2>1, <2>2, RecordTyped DEF Timed, Standings, BillTyped
<1>8. Calm /\ ~ Ended(core) =>
         /\ \A k \in DOMAIN invoices : Failing(k) => k = i
         /\ i = Len(invoices) /\ invoices[i].record
    BY <1>4, <1>6, <1>7 DEF FailingOK
<1>9. CASE Goes(settled(i)) /\ ((invoices' = invoices /\ invoices[i].amount = 0) \/ invoices' = Paid(i))
    BY <1>1, <1>4, <1>7, <1>8, <1>9, Settles
<1>10. CASE Goes(refused(i) \o r) /\ invoices' = invoices
    <2>1. PICK R : /\ Program(refused(i), R)
                   /\ R = {"count", "failed", "owe", "scheduleRetry"}
                             \cup (IF invoices[i].status = "failed" THEN {"pending"} ELSE {})
                   /\ Linked(R) /\ Linked(R \cup {"exhaust"})
                   /\ \A x \in R : "exhaust" \in Later[x]
                   /\ \A e \in Elems(refused(i)) : /\ e.op = "bill" => e.n = i
                                                   /\ e.op # "unattempt"
                   /\ \E e \in Elems(refused(i)) : e.op = "bill" /\ e.n = i /\ e.to = "failed"
        BY <1>7, RefusedSays
    <2> DEFINE p == refused(i) \o r
               W == R \cup T
    <2>2. Program(p, W)
        <3>1. \A x \in R, y \in T : y \in Later[x]
            BY <1>4, <2>1
        <3> QED
            BY <1>5, <2>1, <3>1, Joined
    <2>3. Elems(p) = Elems(refused(i)) \cup Elems(r)
        BY <1>5, <2>1, ElemsJoined DEF Program
    <2>4. Linked(W) /\ W # {} /\ "dispatch" \notin W
        <3>1. T = {} \/ T = {"exhaust"}
            BY <1>4
        <3> QED
            BY <2>1, <3>1
    <2> HIDE DEF p, W
    <2>5. /\ handler' \in HandlerType /\ handler'.todo = p /\ Said' = W
          /\ handler'.by = handler.by /\ handler'.at = handler.at
          /\ handler'.retry = handler.retry
          /\ handler'.first = handler.first /\ Mine' = Mine
          /\ ProgramOK'
        <3>1. Goes(p)
            BY <1>10 DEF p
        <3> QED
            BY <1>1, <2>2, <2>4, <3>1, Turned
    <2>6. /\ \A b \in Bills' : b.n = i /\ b.to \in {"pending", "failed"} /\ b.to \in Said'
          /\ Billed(i, "failed")' /\ \A k : ~ Billed(k, "success")'
          /\ \A k, to : Billed(k, to)' => k = i
          /\ \A e \in Elems(handler'.todo) : e.op # "unattempt"
        <3>1. \A e \in Elems(handler'.todo) : (e.op = "bill" => e.n = i) /\ e.op # "unattempt"
            BY <1>5, <2>1, <2>3, <2>5
        <3>2. Billed(i, "failed")'
            BY <2>1, <2>3, <2>5 DEF Billed, Bills
        <3>3. \A b \in Bills' : b.to \in Said' /\ b.to \in BillMoves
            <4> SUFFICES ASSUME NEW b \in Bills' PROVE b.to \in Said' /\ b.to \in BillMoves
                OBVIOUS
            <4>1. b \in Elems(handler'.todo) /\ b.op = "bill"
                BY DEF Bills
            <4>2. b \in StepType
                BY <2>5, <4>1 DEF Elems, HandlerType
            <4>3. Token(b) = b.to /\ b.to \in BillMoves
                BY <4>1, <4>2 DEF Token, Moves, StepType
            <4> QED
                BY <4>1, <4>3 DEF Said, Tokens
        <3>4. Said' \cap BillMoves \subseteq {"pending", "failed"}
            BY <1>4, <2>1, <2>5 DEF W, BillMoves
        <3>5. \A b \in Bills' : b.n = i /\ b.to \in {"pending", "failed"}
            BY <3>1, <3>3, <3>4 DEF Bills
        <3> QED
            BY <3>1, <3>2, <3>3, <3>5 DEF Billed
    <2>7. Bills = {} /\ \A k, to : ~ Billed(k, to)
        <3>1. \A e \in Elems(handler.todo) : e.op # "bill"
            BY <1>1, <1>4, <1>5
        <3> QED
            BY <3>1 DEF Bills, Billed
    <2>8. /\ "pending" \in Said' <=> invoices[i].status = "failed"
          /\ \A x \in {"count", "failed", "owe", "scheduleRetry"} : x \in Said'
          /\ "exhaust" \in Said' <=> "exhaust" \in Said
          /\ Said' \subseteq {"count", "failed", "owe", "scheduleRetry", "pending", "exhaust"}
        BY <1>4, <2>1, <2>5 DEF W
    <2>9. BillTyped'
        <3>1. BillingTypeOK'
            BY <1>1, <1>10 DEF BillTyped, BillingTypeOK
        <3> QED
            BY <1>1, <2>5, <3>1 DEF BillTyped
    <2>10. JobsWell'
        BY <1>1, <1>10, SameJobs
    <2>11. Timed'
        <3>1. /\ (handler.retry = 0 /\ handler.first = Null) \/ OnTime(handler)
              /\ handler.retry = Len(RetryOffsets) => "exhaust" \in Said
            BY <1>7 DEF Timed
        <3>2. OnTime(handler) => OnTime(handler')
            BY <2>5 DEF OnTime
        <3> QED
            BY <1>6, <1>7, <1>10, <2>5, <2>8, <3>1, <3>2 DEF Timed
    <2>12. Standings'
        BY <1>6, <1>7, <1>10, <2>5, <2>6, <2>8 DEF Standings
    <2>13. ChargedOnce'
        BY <1>1, <1>10, <2>6, <2>7 DEF ChargedOnce
    <2>14. CreditOK'
        <3>1. ~ Unspent /\ ~ Unspent'
            BY <1>4, <2>8 DEF Unspent
        <3>2. Applied' = Applied
            BY <1>10 DEF Applied
        <3> QED
            BY <1>1, <1>10, <3>1, <3>2 DEF CreditOK
    <2>15. "dispatch" \notin Said /\ handler.todo # <<>>
        BY <1>2, <1>4
    <2>16. MovesOK'
        BY <1>1, <2>8, <2>15 DEF MovesOK, Whole
    <2>17. Renews'
        BY <1>1, <1>4, <2>8 DEF Renews, Whole, IsRenewal, InHand
    <2>18. OwingOK'
        <3>1. \A x \in {"active", "attention", "cancelled"} : x \notin Said /\ x \notin Said'
            BY <1>4, <2>8
        <3> QED
            BY <1>1, <3>1 DEF OwingOK, Calm, Whole
    <2>19. (Calm /\ ~ Ended(core))' => (Calm /\ ~ Ended(core))
        BY <1>1 DEF Calm, Whole
    <2>20. ASSUME (Calm /\ ~ Ended(core))', NEW k \in DOMAIN invoices', Failing(k)'
           PROVE  k = i
        BY <1>8, <1>10, <2>6, <2>19, <2>20 DEF Failing
    <2>21. FailingOK'
        <3>1. \A x \in {"trial", "createInvoice", "attempt", "recovered"} : x \notin Said'
            BY <2>8
        <3> QED
            BY <1>8, <1>10, <2>8, <2>19, <2>20, <3>1 DEF FailingOK, Made
    <2>22. RetriesOK'
        BY <1>6, <2>5, <2>8, <2>20 DEF RetriesOK, Retried
    <2> QED
        BY <2>5, <2>9, <2>10, <2>11, <2>12, <2>13, <2>14, <2>16, <2>17, <2>18, <2>21, <2>22
<1> QED
    BY <1>6, <1>9, <1>10 DEF attempt, Mine, r

(***************************************************************************)
(* A program that touches no invoice there is leaves them as they should   *)
(* be, whatever came before it.                                            *)
(***************************************************************************)
LEMMA Quiet ==
    ASSUME BillTyped, BillTyped', Standings, ChargedOnce, CreditOK,
           UNCHANGED <<invoices, credit>>, KeptPast, past'.granted = past.granted,
           "success" \notin Said, ~ Unspent,
           Said' \cap (BillMoves \cup {"scheduleRetry", "exhaust", "unattempt"}) = {},
           Said' \cap {"record", "spend", "attempt"} # {} => ~ Made'
    PROVE  /\ Timed' /\ Standings' /\ ChargedOnce' /\ CreditOK'
           /\ \A i, to : ~ Billed(i, to)'
<1>1. handler'.todo \in Seq(StepType)
    BY DEF BillTyped, HandlerType
<1>2. Bills' = {}
    BY <1>1, NoBills DEF Said, Bills
<1>3. \A e \in Elems(handler'.todo) : e.op # "unattempt"
    BY DEF Said, Tokens, Token, Moves
<1>4. Timed'
    BY DEF Timed, Trying
<1>5. Standings'
    BY <1>2, <1>3 DEF Standings
<1>6. \A i, to : ~ Billed(i, to)'
    BY <1>2 DEF Billed
<1>7. \A i : ~ Billed(i, "success")
    BY DEF Billed, Bills, Said, Tokens, Token, Moves
<1>8. ChargedOnce'
    BY <1>6, <1>7 DEF ChargedOnce, KeptPast
<1>9. CreditOK'
    <2>1. ~ Unspent' /\ Applied' = Applied
        BY DEF Unspent, Applied
    <2> QED
        BY <2>1 DEF CreditOK, KeptPast
<1> QED
    BY <1>4, <1>5, <1>6, <1>8, <1>9

\* A handler with one step left says it, and nothing else.
LEMMA LastWord ==
    ASSUME BillTyped, ProgramOK, Holds, Later[Token(Current)] = {}
    PROVE  /\ Said = {Token(Current)} /\ Tail(handler.todo) = <<>>
           /\ Current \in StepType
<1>1. handler.todo \in Seq(StepType) /\ handler.todo # <<>> /\ Ordered(handler.todo)
    BY DEF BillTyped, HandlerType, ProgramOK, Holds
<1>2. /\ Said = {Token(Current)} \cup Tokens(Tail(handler.todo))
      /\ Tokens(Tail(handler.todo)) = {} /\ Tail(handler.todo) \in Seq(StepType)
      /\ Current \in StepType
    BY <1>1, AfterHead DEF Current, Said
<1> QED
    BY <1>2, SaysNothing

\* #recovered: nothing is owed from here on, because nothing else failed.
LEMMA RecoveredStep ==
    ASSUME BillInv, recovered
    PROVE  BillInv'
<1> USE DEF BillInv
<1>1. /\ Holds /\ Current.op = "recovered"
      /\ UNCHANGED <<now, core, card, credit, invoices, jobs, running, past>>
    BY DEF recovered, At
<1>2. Said = {"recovered"}
    <2>1. Token(Current) = "recovered"
        BY <1>1 DEF Token, Moves
    <2> QED
        BY <1>1, <2>1, LastWord, LaterIs
<1>3. \A i, to : ~ Billed(i, to)
    <2>1. handler.todo \in Seq(StepType)
        BY DEF BillTyped, HandlerType
    <2> QED
        BY <1>2, <2>1, NoBills DEF Said, BillMoves, Billed, Bills
<1>4. Calm /\ ~ Ended(core) => \A i \in DOMAIN invoices : ~ Failing(i)
    BY <1>2, <1>3 DEF FailingOK
<1>5. "success" \notin Said /\ ~ Unspent /\ KeptPast
    BY <1>1, <1>2 DEF Unspent, KeptPast
<1>6. stored' \in RecordType /\ stored'.next = stored.next
    <2>1. stored \in RecordType
        BY RecordTyped DEF BillTyped
    <2> DEFINE r == [stored EXCEPT !.owing = FALSE]
    <2>2. r \in RecordType /\ r.next = stored.next
        <3>1. r \in RecordType
            BY <2>1, RecordFields
        <3> QED
            BY <2>1, <3>1 DEF RecordType
    <2>3. stored' = stored \/ stored' = [r EXCEPT !.exhausted = FALSE]
        BY <2>1 DEF recovered
    <2> HIDE DEF r
    <2>4. [r EXCEPT !.exhausted = FALSE] \in RecordType /\ [r EXCEPT !.exhausted = FALSE].next = r.next
        <3>1. [r EXCEPT !.exhausted = FALSE] \in RecordType
            BY <2>2, RecordFields
        <3> QED
            BY <2>2, <3>1 DEF RecordType
    <2> QED
        BY <2>1, <2>2, <2>3, <2>4
<1>7. ASSUME handler' \in HandlerType PROVE BillTyped'
    <2>1. BillingTypeOK'
        BY <1>1, <1>6, RecordTyped DEF BillTyped, BillingTypeOK, RecordType
    <2> QED
        BY <1>1, <1>7, <2>1 DEF BillTyped
<1>8. JobsWell'
    BY <1>1, SameJobs
<1>9. ASSUME \A i, to : ~ Billed(i, to)', "attempt" \notin Said'
      PROVE  FailingOK' /\ RetriesOK'
    <2>1. (Calm /\ ~ Ended(core))' => Calm /\ ~ Ended(core)
        BY <1>1 DEF Calm, Whole
    <2>2. \A i \in DOMAIN invoices' : Failing(i)' => i \in DOMAIN invoices /\ Failing(i)
        BY <1>1, <1>9 DEF Failing
    <2> QED
        BY <1>4, <1>9, <2>1, <2>2 DEF FailingOK, RetriesOK
<1>10. Renews'
    <2>2. InHand => ~ running.begun
        BY <1>2 DEF InHand
    <2> QED
        BY <1>1, <1>2, <1>6, <2>2 DEF Renews, Whole, IsRenewal, InHand
<1>11. CASE handler' = Free /\ (core = "attention" => Ended(core))
            /\ (~ Ended(core) => ~ stored'.owing)
    <2>1. BillTyped'
        BY <1>7, <1>11, FreeHandler
    <2>2. ProgramOK' /\ Timed' /\ Standings' /\ ChargedOnce' /\ CreditOK' /\ MovesOK'
        BY <1>1, <1>5, <1>11, <2>1, Freed
    <2>3. Said' = {} /\ \A i, to : ~ Billed(i, to)'
        BY <1>11, FreeHandler DEF Said, Billed, Bills
    <2>4. OwingOK'
        BY <1>1, <1>11, <2>3 DEF OwingOK, Ended
    <2> QED
        BY <1>8, <1>9, <1>10, <2>1, <2>2, <2>3, <2>4
<1>12. CASE core = "attention" /\ ~ stored'.owing /\ Goes(To("active"))
    <2>1. Program(To("active"), {"active"}) /\ Linked({"active"})
        BY ToSays DEF CoreMoves, Linked
    <2>2. handler' \in HandlerType /\ Said' = {"active"} /\ ProgramOK'
        BY <1>1, <1>12, <2>1, Turned
    <2>3. BillTyped'
        BY <1>7, <2>2
    <2>4. /\ Timed' /\ Standings' /\ ChargedOnce' /\ CreditOK'
          /\ \A i, to : ~ Billed(i, to)'
        BY <1>1, <1>5, <2>2, <2>3, Quiet DEF BillMoves
    <2>5. MovesOK' /\ OwingOK'
        BY <1>1, <1>12, <2>2 DEF MovesOK, OwingOK, Ended
    <2> QED
        BY <1>8, <1>9, <1>10, <2>2, <2>3, <2>4, <2>5
<1> QED
    <2>1. stored \in RecordType
        BY RecordTyped DEF BillTyped
    <2>2. CASE Ended(core) \/ (core # "attention" /\ ~ stored.owing)
        <3>1. handler' = Free /\ stored' = stored
            BY <2>2 DEF recovered, Stops
        <3> QED
            BY <1>11, <2>2, <3>1 DEF Ended
    <2>3. CASE ~ (Ended(core) \/ (core # "attention" /\ ~ stored.owing))
        <3>1. /\ stored' = [stored EXCEPT !.owing = FALSE, !.exhausted = FALSE]
              /\ Goes(IF core = "attention" THEN To("active") ELSE <<>>)
            BY <2>3 DEF recovered
        <3>2. ~ stored'.owing
            BY <2>1, <3>1 DEF RecordType
        <3>3. core # "attention" => handler' = Free
            BY <3>1 DEF Goes
        <3> QED
            BY <1>11, <1>12, <3>1, <3>2, <3>3
    <2> QED
        BY <2>2, <2>3

\* An invoice that was refused is owed, and the row says so in a step or two.
LEMMA OweStep ==
    ASSUME BillInv, owe
    PROVE  BillInv'
<1> USE DEF BillInv
<1> DEFINE r == Tail(handler.todo)
           T == Tokens(r)
<1>1. /\ Holds /\ Current.op = "owe"
      /\ UNCHANGED <<now, core, card, credit, invoices, jobs, running, past>>
    BY DEF owe, At
<1>2. /\ handler.todo \in Seq(StepType) /\ handler.todo # <<>> /\ Ordered(handler.todo)
      /\ handler \in HandlerType /\ Linked(Said)
    BY <1>1 DEF BillTyped, HandlerType, ProgramOK, Holds
<1>3. Token(Current) = "owe"
    BY <1>1 DEF Token, Moves
<1>4. /\ Program(r, T) /\ Said = {"owe"} \cup T /\ T \subseteq {"scheduleRetry", "exhaust"}
      /\ "scheduleRetry" \in T
    <2>1. Program(r, T) /\ Said = {"owe"} \cup T /\ T \subseteq Later["owe"]
        BY <1>2, <1>3, AfterHead DEF Current, Said, Program
    <2> QED
        BY <1>2, <2>1, LaterIs DEF Linked
<1> HIDE DEF r, T
<1>5. KeptRows /\ KeptStatus /\ KeptTries /\ KeptApplied /\ KeptAmounts /\ KeptRecords
    BY <1>1, KeptAll
<1>6. KeptPast /\ JobsStay /\ (Ended(core) => Ended(core'))
    BY <1>1 DEF KeptPast, JobsStay
<1>7. JobsWell'
    BY <1>1, SameJobs
<1>8. CASE Ended(core)
    <2>1. Onward /\ UNCHANGED stored
        BY <1>8 DEF owe
    <2>2. Drops /\ Keeps
        BY <1>1, <2>1, OnwardDrops
    <2>3. BillTyped'
        <3>1. BillingTypeOK'
            BY <1>1, <2>1 DEF BillTyped, BillingTypeOK
        <3> QED
            BY <1>1, <2>2, <3>1 DEF BillTyped, Drops
    <2>4. ProgramOK'
        BY <1>1, <2>2, DropsProgram
    <2>5. Timed'
        BY <1>3, <1>5, <2>2, DropsTimed
    <2>6. Standings'
        BY <1>3, <1>5, <2>2, DropsStandings
    <2>7. ChargedOnce'
        BY <1>1, <1>3, <1>5, <2>2, DropsCharged
    <2>8. CreditOK'
        BY <1>1, <1>3, <1>5, <2>2, <2>3, DropsCredit
    <2>9. MovesOK'
        BY <1>1, <1>3, <1>6, <2>2, DropsMoves
    <2>10. OwingOK'
        BY <1>1, <1>3, <1>6, <2>1, <2>2, DropsOwing
    <2>11. Renews' /\ FailingOK' /\ RetriesOK'
        BY <1>6, <1>8 DEF Renews, FailingOK, RetriesOK
    <2> QED
        BY <1>7, <2>3, <2>4, <2>5, <2>6, <2>7, <2>8, <2>9, <2>10, <2>11
<1>9. CASE ~ Ended(core)
    <2> DEFINE A == IF core \in {"non_renewing", "trialing"} THEN {"active"} ELSE {}
               a == IF core \in {"non_renewing", "trialing"} THEN To("active") ELSE <<>>
               B == IF core = "attention" THEN {} ELSE {"attention"}
               b == IF core = "attention" THEN <<>> ELSE To("attention")
               p == a \o b \o r
               W == (A \cup B) \cup T
    <2>1. /\ stored' = [stored EXCEPT !.owing = TRUE,
                          !.ending = stored.ending \/ core = "non_renewing"]
          /\ Goes(p)
        BY <1>9 DEF owe, r
    <2>2. /\ Program(a, A) /\ Program(b, B) /\ A \subseteq {"active"} /\ B \subseteq {"attention"}
        BY ToSays, NothingSaid DEF CoreMoves
    <2>3. /\ "active" \in A <=> core \in {"non_renewing", "trialing"}
          /\ "attention" \in B <=> core # "attention"
        OBVIOUS
    <2> HIDE DEF A, B, a, b
    <2>4. Program(a \o b, A \cup B)
        <3>1. \A x \in A, y \in B : y \in Later[x]
            BY <2>2, LaterIs
        <3> QED
            BY <2>2, <3>1, Joined
    <2>5. Program(p, W)
        <3>1. \A x \in A \cup B, y \in T : y \in Later[x]
            BY <1>4, <2>2, LaterIs
        <3> QED
            BY <1>4, <2>4, <3>1, Joined
    <2>6. Linked(W) /\ W # {} /\ "dispatch" \notin W
        BY <1>4, <2>2 DEF Linked
    <2> HIDE DEF p
    <2>7. /\ handler' \in HandlerType /\ handler'.todo = p /\ Said' = W
          /\ handler'.at = handler.at /\ handler'.retry = handler.retry
          /\ handler'.first = handler.first /\ Mine' = Mine
          /\ ProgramOK'
        BY <1>1, <2>1, <2>5, <2>6, Turned
    <2>8. /\ Said' \subseteq {"active", "attention", "scheduleRetry", "exhaust"}
          /\ "scheduleRetry" \in Said' /\ ("exhaust" \in Said' <=> "exhaust" \in Said)
          /\ "active" \in Said' <=> core \in {"non_renewing", "trialing"}
          /\ "attention" \in Said' <=> core # "attention"
        BY <1>4, <2>2, <2>3, <2>7
    <2> HIDE DEF W
    <2>9. /\ \A e \in Elems(handler'.todo) : e.op # "bill" /\ e.op # "unattempt"
          /\ Bills' = {} /\ Bills = {} /\ \A i, to : ~ Billed(i, to) /\ ~ Billed(i, to)'
        <3>1. \A e \in Elems(handler'.todo) : e.op # "bill"
            BY <2>7, <2>8, NoBills DEF HandlerType, Said, BillMoves
        <3>2. \A e \in Elems(handler'.todo) : e.op # "unattempt"
            BY <2>8 DEF Said, Tokens, Token, Moves
        <3>3. \A e \in Elems(handler.todo) : e.op # "bill"
            BY <1>2, <1>4, NoBills DEF Said, BillMoves
        <3> QED
            BY <3>1, <3>2, <3>3 DEF Bills, Billed
    <2>10. stored' \in RecordType /\ stored'.owing /\ stored'.next = stored.next
        <3>1. stored \in RecordType
            BY RecordTyped DEF BillTyped
        <3> DEFINE x == stored.ending \/ core = "non_renewing"
                   s == [stored EXCEPT !.owing = TRUE]
        <3>2. x \in BOOLEAN
            BY <3>1 DEF RecordType
        <3> HIDE DEF x
        <3>3. s \in RecordType
            BY <3>1, RecordFields
        <3>4. s.owing /\ s.next = stored.next
            BY <3>1 DEF RecordType
        <3>5. stored' = [s EXCEPT !.ending = x]
            BY <2>1, <3>1 DEF x
        <3> HIDE DEF s
        <3>6. stored' \in RecordType
            BY <3>2, <3>3, <3>5, RecordFields
        <3> QED
            BY <3>3, <3>4, <3>5, <3>6 DEF RecordType
    <2>11. BillTyped'
        <3>1. BillingTypeOK'
            BY <1>1, <2>10, RecordTyped DEF BillTyped, BillingTypeOK, RecordType
        <3> QED
            BY <1>1, <2>7, <3>1 DEF BillTyped
    <2>12. Trying /\ "count" \notin Said /\ "failed" \notin Said
        BY <1>4 DEF Trying
    <2>13. Timed'
        <3>1. /\ Mine \in DOMAIN invoices
              /\ (handler.retry = 0 /\ handler.first = Null) \/ OnTime(handler)
              /\ handler.retry = Len(RetryOffsets) => "exhaust" \in Said
              /\ invoices[Mine].next = nextAttempt /\ invoices[Mine].retries = handler.retry
            BY <1>4, <2>12 DEF Timed
        <3>2. (OnTime(handler) => OnTime(handler')) /\ nextAttempt' = nextAttempt
            BY <2>7 DEF OnTime, nextAttempt
        <3> QED
            BY <1>1, <2>7, <2>8, <3>1, <3>2 DEF Timed
    <2>14. Standings'
        <3>1. invoices[Mine].status = "failed"
            BY <1>4, <2>12 DEF Standings
        <3> QED
            BY <1>1, <2>7, <2>8, <2>9, <3>1 DEF Standings
    <2>15. ChargedOnce'
        BY <1>1, <2>9 DEF ChargedOnce
    <2>16. CreditOK'
        <3>1. ~ Unspent /\ ~ Unspent'
            BY <1>4, <2>8 DEF Unspent
        <3>2. Applied' = Applied
            BY <1>1 DEF Applied
        <3> QED
            BY <1>1, <3>1, <3>2 DEF CreditOK
    <2>17. core \in {"trialing", "active", "non_renewing", "attention"}
        BY <1>9 DEF BillTyped, BillingTypeOK, SubscriptionStatus, Ended
    <2>18. MovesOK' /\ OwingOK'
        BY <1>1, <1>9, <2>8, <2>10, <2>17 DEF MovesOK, OwingOK, Ended
    <2>19. InHand => ~ running.begun
        BY <1>4 DEF InHand
    <2>20. Renews'
        BY <1>1, <1>4, <2>10, <2>19 DEF Renews, Whole, IsRenewal, InHand
    <2>21. (Calm /\ ~ Ended(core))' => Calm /\ ~ Ended(core)
        BY <1>1 DEF Calm, Whole
    <2>22. \A i \in DOMAIN invoices' : Failing(i)' => i \in DOMAIN invoices /\ Failing(i)
        BY <1>1, <2>9 DEF Failing
    <2>23. FailingOK'
        <3>1. \A x \in {"trial", "createInvoice", "attempt", "recovered"} : x \notin Said'
            BY <2>8
        <3> QED
            BY <1>1, <2>10, <2>21, <2>22, <3>1 DEF FailingOK, Made
    <2>24. RetriesOK'
        <3> SUFFICES ASSUME (Calm /\ ~ Ended(core))', NEW i \in DOMAIN invoices', Failing(i)'
                     PROVE  Retried(i)'
            BY DEF RetriesOK
        <3>1. i \in DOMAIN invoices /\ Retried(i)
            BY <2>21, <2>22 DEF RetriesOK
        <3>2. CASE i = Mine
            BY <2>7, <2>8, <3>2 DEF Retried
        <3>3. CASE \E k \in DOMAIN jobs : IsRetry(jobs[k], i)
            BY <1>1, <3>3 DEF Retried, IsRetry
        <3>4. CASE IsRetry(running.job, i) /\ InHand
            BY <1>1, <2>19, <3>4 DEF Retried, IsRetry, InHand
        <3> QED
            BY <1>4, <2>9, <3>1, <3>2, <3>3, <3>4 DEF Retried
    <2> QED
        BY <1>7, <2>7, <2>11, <2>13, <2>14, <2>15, <2>16, <2>18, <2>20, <2>23, <2>24
<1> QED
    BY <1>8, <1>9

\* The last try failed: given up, and the subscription with it or not.
LEMMA ExhaustStep ==
    ASSUME BillInv, exhaust
    PROVE  BillInv'
<1> USE DEF BillInv
<1> DEFINE End == {"endRecord", "cancelGroup", "writeOff", "cancelled"}
<1>1. /\ Holds /\ Current.op = "exhaust"
      /\ UNCHANGED <<now, core, stored, card, credit, invoices, jobs, running, past>>
    BY DEF exhaust, At, tables
<1>2. Said = {"exhaust"} /\ handler.todo # <<>>
    <2>1. Token(Current) = "exhaust"
        BY <1>1 DEF Token, Moves
    <2> QED
        BY <1>1, <2>1, LastWord, LaterIs DEF Holds
<1>3. PICK i : i = Mine
    OBVIOUS
<1>4. i \in DOMAIN invoices /\ i \in Int /\ invoices[i].status = "failed"
    <2>1. i \in DOMAIN invoices /\ invoices[i].status = "failed"
        BY <1>2, <1>3 DEF Timed, Standings
    <2> QED
        BY <2>1, RecordTyped DEF BillTyped
<1>5. PICK e, E : /\ Program(e, E) /\ E \in {End, {"exhausted"}}
                  /\ Goes(Bill(i, "uncollectible") \o e)
    <2>1. \/ Goes(Bill(i, "uncollectible") \o endSubscription)
          \/ Goes(Bill(i, "uncollectible") \o Step("exhausted"))
        BY <1>3 DEF exhaust, Mine
    <2>2. Program(endSubscription, End)
        BY EndSays
    <2>3. Program(Step("exhausted"), {"exhausted"})
        BY StepSays DEF Ops
    <2> HIDE DEF End
    <2>4. CASE Goes(Bill(i, "uncollectible") \o endSubscription)
        BY <2>2, <2>4
    <2>5. CASE Goes(Bill(i, "uncollectible") \o Step("exhausted"))
        BY <2>3, <2>5
    <2> QED
        BY <2>1, <2>4, <2>5
<1> DEFINE p == Bill(i, "uncollectible") \o e
           W == {"uncollectible"} \cup E
<1>6. /\ Program(Bill(i, "uncollectible"), {"uncollectible"})
      /\ \A s \in Elems(Bill(i, "uncollectible")) : s.op = "bill" /\ s.n = i /\ s.to = "uncollectible"
      /\ \E s \in Elems(Bill(i, "uncollectible")) : s.op = "bill" /\ s.n = i /\ s.to = "uncollectible"
    BY <1>4, BillSays DEF BillMoves
<1>7. Program(p, W)
    <2>1. \A x \in {"uncollectible"}, y \in E : y \in Later[x]
        BY <1>5, LaterIs
    <2> QED
        BY <1>5, <1>6, <2>1, Joined
<1>8. Elems(p) = Elems(Bill(i, "uncollectible")) \cup Elems(e)
    BY <1>5, <1>6, ElemsJoined DEF Program
<1>9. Linked(W) /\ W # {} /\ "dispatch" \notin W
    BY <1>5 DEF Linked
<1> HIDE DEF p
<1>10. /\ handler' \in HandlerType /\ handler'.todo = p /\ Said' = W /\ ProgramOK'
    <2>1. Goes(p)
        BY <1>5 DEF p
    <2> QED
        BY <1>1, <1>7, <1>9, <2>1, Turned
<1>11. Said' \subseteq {"uncollectible", "exhausted"} \cup End
    BY <1>5, <1>10
<1> HIDE DEF W
<1>12. \A s \in Elems(e) : s.op # "bill" /\ s.op # "unattempt"
    <2>1. Tokens(e) = E /\ e \in Seq(StepType)
        BY <1>5 DEF Program
    <2>2. \A s \in Elems(e) : s.op # "bill"
        BY <1>5, <2>1, NoBills DEF BillMoves
    <2>3. \A s \in Elems(e) : s.op # "unattempt"
        BY <1>5, <2>1 DEF Tokens, Token, Moves
    <2> QED
        BY <2>2, <2>3
<1>13. /\ \A b \in Bills' : b.n = i /\ b.to = "uncollectible"
       /\ Billed(i, "uncollectible")'
       /\ \A k : ~ Billed(k, "success")' /\ ~ Billed(k, "failed")'
       /\ \A s \in Elems(handler'.todo) : s.op # "unattempt"
    BY <1>6, <1>8, <1>10, <1>12 DEF Bills, Billed
<1>14. Bills = {} /\ \A k, to : ~ Billed(k, to)
    <2>1. handler.todo \in Seq(StepType)
        BY DEF BillTyped, HandlerType
    <2> QED
        BY <1>2, <2>1, NoBills DEF Said, BillMoves, Billed, Bills
<1>15. BillTyped'
    <2>1. BillingTypeOK'
        BY <1>1 DEF BillTyped, BillingTypeOK
    <2> QED
        BY <1>1, <1>10, <2>1 DEF BillTyped
<1>16. JobsWell'
    BY <1>1, SameJobs
<1>17. Timed'
    BY <1>11 DEF Timed, Trying
<1>18. Standings'
    BY <1>1, <1>4, <1>11, <1>13 DEF Standings
<1>19. ChargedOnce'
    BY <1>1, <1>13, <1>14 DEF ChargedOnce
<1>20. CreditOK'
    <2>1. ~ Unspent /\ ~ Unspent'
        BY <1>2, <1>11 DEF Unspent
    <2>2. Applied' = Applied
        BY <1>1 DEF Applied
    <2> QED
        BY <1>1, <2>1, <2>2 DEF CreditOK
<1>21. MovesOK'
    <2>1. Whole => ~ Ended(core)
        BY <1>2 DEF MovesOK
    <2> QED
        BY <1>1, <1>11, <2>1 DEF MovesOK, Whole
<1>22. InHand => ~ running.begun
    BY <1>2 DEF InHand
<1>23. Renews'
    BY <1>1, <1>2, <1>22 DEF Renews, Whole, IsRenewal, InHand
<1>24. OwingOK'
    BY <1>1, <1>2, <1>11 DEF OwingOK, Calm, Whole
<1>25. (Calm /\ ~ Ended(core))' => Calm /\ ~ Ended(core)
    BY <1>1 DEF Calm, Whole
<1>26. \A k \in DOMAIN invoices' : Failing(k)' => k \in DOMAIN invoices /\ Failing(k)
    BY <1>1, <1>13 DEF Failing
<1>27. FailingOK'
    <2>1. \A x \in {"trial", "createInvoice", "attempt", "recovered"} : x \notin Said'
        BY <1>11
    <2> QED
        BY <1>1, <1>2, <1>25, <1>26, <2>1 DEF FailingOK, Made
<1>28. RetriesOK'
    <2> SUFFICES ASSUME (Calm /\ ~ Ended(core))', NEW k \in DOMAIN invoices', Failing(k)'
                 PROVE  Retried(k)'
        BY DEF RetriesOK
    <2>1. k \in DOMAIN invoices /\ Retried(k)
        BY <1>25, <1>26 DEF RetriesOK
    <2>2. CASE k = i
        BY <1>13, <2>2 DEF Retried
    <2>3. CASE \E l \in DOMAIN jobs : IsRetry(jobs[l], k)
        BY <1>1, <2>3 DEF Retried, IsRetry
    <2>4. CASE IsRetry(running.job, k) /\ InHand
        BY <1>1, <1>22, <2>4 DEF Retried, IsRetry, InHand
    <2> QED
        BY <1>2, <1>3, <1>14, <2>1, <2>2, <2>3, <2>4 DEF Retried
<1> QED
    BY <1>10, <1>15, <1>16, <1>17, <1>18, <1>19, <1>20, <1>21, <1>23, <1>24, <1>27, <1>28

\* What is owed when it ends is given up, one invoice after the other.
LEMMA WriteOffStep ==
    ASSUME BillInv, writeOff
    PROVE  BillInv'
<1> USE DEF BillInv
<1> DEFINE owed == {k \in DOMAIN invoices : invoices[k].status \in {"failed", "pending"}}
<1>1. /\ Holds /\ Current.op = "writeOff"
      /\ UNCHANGED <<now, core, stored, card, credit, invoices, jobs, running, past>>
    BY DEF writeOff, At, tables
<1>2. Token(Current) = "writeOff"
    BY <1>1 DEF Token, Moves
<1>3. KeptRows /\ KeptStatus /\ KeptTries /\ KeptApplied /\ KeptAmounts /\ KeptRecords
    BY <1>1, KeptAll
<1>4. KeptPast /\ JobsStay /\ (Ended(core) => Ended(core'))
    BY <1>1 DEF KeptPast, JobsStay
<1>5. JobsWell'
    BY <1>1, SameJobs
<1>6. ASSUME handler' \in HandlerType PROVE BillTyped'
    <2>1. BillingTypeOK'
        BY <1>1 DEF BillTyped, BillingTypeOK
    <2> QED
        BY <1>1, <1>6, <2>1 DEF BillTyped
<1>7. CASE owed = {}
    <2>1. Onward
        BY <1>7 DEF writeOff
    <2>2. Drops /\ Keeps
        BY <1>1, <2>1, OnwardDrops
    <2>3. BillTyped'
        BY <1>6, <2>2 DEF Drops
    <2>4. ProgramOK'
        BY <1>1, <2>2, DropsProgram
    <2>5. Timed'
        BY <1>2, <1>3, <2>2, DropsTimed
    <2>6. Standings'
        BY <1>2, <1>3, <2>2, DropsStandings
    <2>7. ChargedOnce'
        BY <1>1, <1>2, <1>3, <2>2, DropsCharged
    <2>8. CreditOK'
        BY <1>1, <1>2, <1>3, <2>2, <2>3, DropsCredit
    <2>9. MovesOK' /\ OwingOK'
        BY <1>1, <1>2, <1>4, <2>2, DropsMoves, DropsOwing
    <2>10. Renews'
        BY <1>1, <1>2, <1>4, <2>2, DropsRenews
    <2>11. FailingOK'
        BY <1>1, <1>2, <1>3, <1>4, <2>2, <2>3, DropsFailing
    <2>12. RetriesOK'
        BY <1>1, <1>2, <1>3, <1>4, <2>2, DropsRetries DEF KeptTries
    <2> QED
        BY <1>5, <2>3, <2>4, <2>5, <2>6, <2>7, <2>8, <2>9, <2>10, <2>11, <2>12
<1>8. CASE owed # {}
    <2> DEFINE c == CHOOSE k \in owed : \A l \in owed : k <= l
    <2>1. c \in owed
        <3>1. \A k \in owed : k \in Nat
            BY RecordTyped DEF BillTyped
        <3>2. PICK m \in owed : \A l \in owed : m <= l
            <4> DEFINE S == owed
            <4>1. S # {} /\ S \subseteq Nat
                BY <1>8, <3>1
            <4> HIDE DEF S
            <4>2. \E m \in S : \A l \in S : m <= l
                BY <4>1, LeastNatural
            <4> QED
                BY <4>2 DEF S
        <3> HIDE DEF owed
        <3> QED
            BY <3>2
    <2>2. Goes(Unattempt(c) \o Bill(c, "uncollectible") \o handler.todo)
        BY <1>8 DEF writeOff
    <2> HIDE DEF c
    <2>3. PICK i : i = c
        OBVIOUS
    <2>4. i \in DOMAIN invoices /\ i \in Int /\ invoices[i].status \in {"failed", "pending"}
        BY <2>1, <2>3, RecordTyped DEF BillTyped
    <2>5. /\ handler.todo \in Seq(StepType) /\ handler.todo # <<>> /\ Ordered(handler.todo)
          /\ Linked(Said)
        BY <1>1 DEF BillTyped, HandlerType, ProgramOK, Holds
    <2>6. Said = {"writeOff", "cancelled"} /\ Program(handler.todo, Said)
        <3>1. Said = {"writeOff"} \cup Tokens(Tail(handler.todo))
              /\ Tokens(Tail(handler.todo)) \subseteq Later["writeOff"]
            BY <1>2, <2>5, AfterHead DEF Current, Said
        <3>2. "cancelled" \in Said
            BY <2>5, <3>1 DEF Linked
        <3> QED
            BY <2>5, <3>1, <3>2, LaterIs DEF Program, Said
    <2> DEFINE d == Unattempt(i) \o Bill(i, "uncollectible")
               p == d \o handler.todo
               D == {"unattempt"} \cup {"uncollectible"}
               W == D \cup Said
    <2>7. /\ Program(Unattempt(i), {"unattempt"})
          /\ \A s \in Elems(Unattempt(i)) : s.op = "unattempt" /\ s.n = i
        BY <2>4, UnattemptSays
    <2>8. /\ Program(Bill(i, "uncollectible"), {"uncollectible"})
          /\ \A s \in Elems(Bill(i, "uncollectible")) : s.op = "bill" /\ s.n = i /\ s.to = "uncollectible"
          /\ \E s \in Elems(Bill(i, "uncollectible")) : s.op = "bill" /\ s.n = i /\ s.to = "uncollectible"
        BY <2>4, BillSays DEF BillMoves
    <2>9. /\ Program(d, D)
          /\ Elems(d) = Elems(Unattempt(i)) \cup Elems(Bill(i, "uncollectible"))
        <3>1. \A x \in {"unattempt"}, y \in {"uncollectible"} : y \in Later[x]
            BY LaterIs
        <3>2. Program(d, D)
            BY <2>7, <2>8, <3>1, Joined
        <3> QED
            BY <2>7, <2>8, <3>2, ElemsJoined DEF Program
    <2> HIDE DEF d
    <2>10. Program(p, W) /\ Elems(p) = Elems(d) \cup Elems(handler.todo)
        <3>1. \A x \in D, y \in Said : y \in Later[x]
            BY <2>6, LaterIs
        <3>2. Program(p, W)
            BY <2>6, <2>9, <3>1, Joined
        <3> QED
            BY <2>5, <2>9, <3>2, ElemsJoined DEF Program
    <2>11. W = {"unattempt", "uncollectible", "writeOff", "cancelled"}
        BY <2>6
    <2>12. Linked(W) /\ W # {} /\ "dispatch" \notin W
        BY <2>11 DEF Linked
    <2> HIDE DEF p, W
    <2>13. /\ handler' \in HandlerType /\ handler'.todo = p /\ ProgramOK'
           /\ Said' = {"unattempt", "uncollectible", "writeOff", "cancelled"}
        <3>1. Goes(p)
            BY <2>2, <2>3 DEF p, d
        <3> QED
            BY <1>1, <2>10, <2>11, <2>12, <3>1, Turned
    <2>14. \A s \in Elems(handler.todo) : s.op # "bill" /\ s.op # "unattempt"
        <3>1. \A s \in Elems(handler.todo) : s.op # "bill"
            BY <2>5, <2>6, NoBills DEF Said, BillMoves
        <3>2. \A s \in Elems(handler.todo) : s.op # "unattempt"
            BY <2>6 DEF Said, Tokens, Token, Moves
        <3> QED
            BY <3>1, <3>2
    <2>15. /\ \A b \in Bills' : b.n = i /\ b.to = "uncollectible"
           /\ Billed(i, "uncollectible")'
           /\ \A k : ~ Billed(k, "success")' /\ ~ Billed(k, "failed")'
           /\ \A s \in Elems(handler'.todo) : s.op = "unattempt" => s.n = i
        BY <2>7, <2>8, <2>9, <2>10, <2>13, <2>14 DEF Bills, Billed
    <2>16. \A k, to : ~ Billed(k, to)
        BY <2>14 DEF Bills, Billed
    <2>17. BillTyped'
        BY <1>6, <2>13
    <2>18. Timed'
        BY <2>13 DEF Timed, Trying
    <2>19. Standings'
        BY <1>1, <2>4, <2>13, <2>15 DEF Standings
    <2>20. ChargedOnce'
        BY <1>1, <2>15, <2>16 DEF ChargedOnce
    <2>21. CreditOK'
        <3>1. ~ Unspent /\ ~ Unspent'
            BY <2>6, <2>13 DEF Unspent
        <3>2. Applied' = Applied
            BY <1>1 DEF Applied
        <3> QED
            BY <1>1, <3>1, <3>2 DEF CreditOK
    <2>22. MovesOK'
        <3>1. Whole => ~ Ended(core)
            BY <2>5, <2>6 DEF MovesOK
        <3> QED
            BY <1>1, <2>13, <3>1 DEF MovesOK, Whole
    <2>23. Renews'
        BY <2>13 DEF Renews
    <2>24. OwingOK'
        BY <1>1, <2>6, <2>13 DEF OwingOK, Calm, Whole
    <2>25. (Calm /\ ~ Ended(core))' => Calm /\ ~ Ended(core)
        BY <1>1 DEF Calm, Whole
    <2>26. \A k \in DOMAIN invoices' : Failing(k)' => k \in DOMAIN invoices /\ Failing(k)
        BY <1>1, <2>15 DEF Failing
    <2>27. FailingOK'
        BY <1>1, <2>13, <2>25, <2>26 DEF FailingOK, Made
    <2>28. RetriesOK'
        BY <2>13 DEF RetriesOK, Retried
    <2> QED
        BY <1>5, <2>13, <2>17, <2>18, <2>19, <2>20, <2>21, <2>22, <2>23, <2>24, <2>27, <2>28
<1> QED
    BY <1>7, <1>8

\* The last invoice owed, charged outside the schedule
LEMMA RetryNowStep ==
    ASSUME BillInv, retryNow
    PROVE  BillInv'
<1> USE DEF BillInv
<1> DEFINE owed == {k \in DOMAIN invoices : invoices[k].status \in {"failed", "uncollectible"}}
           c == CHOOSE k \in owed : \A l \in owed : l <= k
<1>1. /\ Holds /\ Current.op = "retryNow" /\ handler.todo # <<>>
      /\ UNCHANGED <<now, core, stored, card, credit, jobs, running, past>>
    BY DEF retryNow, At, Holds
<1>2. Said = {"retryNow"}
    <2>1. Token(Current) = "retryNow"
        BY <1>1 DEF Token, Moves
    <2> QED
        BY <1>1, <2>1, LastWord, LaterIs
<1>3. Bills = {} /\ \A k, to : ~ Billed(k, to)
    <2>1. handler.todo \in Seq(StepType)
        BY DEF BillTyped, HandlerType
    <2> QED
        BY <1>2, <2>1, NoBills DEF Said, BillMoves, Billed, Bills
<1>4. InHand => ~ running.begun
    BY <1>2 DEF InHand
<1>5. KeptPast /\ "success" \notin Said /\ ~ Unspent
    BY <1>1, <1>2 DEF KeptPast, Unspent
<1>6. (Calm /\ ~ Ended(core))' => Calm /\ ~ Ended(core)
    BY <1>1 DEF Calm, Whole
<1>7. ASSUME handler' \in HandlerType, invoices' = invoices PROVE BillTyped' /\ JobsWell'
    <2>1. BillingTypeOK'
        BY <1>1, <1>7 DEF BillTyped, BillingTypeOK
    <2> QED
        BY <1>1, <1>7, <2>1, SameJobs DEF BillTyped
<1>8. ASSUME invoices' = invoices, Said' \subseteq {"pending", "failed"},
             \A k \in DOMAIN invoices : Failing(k)' => Failing(k)
      PROVE  Renews' /\ OwingOK' /\ FailingOK' /\ RetriesOK'
    <2>1. Renews'
        BY <1>1, <1>2, <1>4 DEF Renews, Whole, IsRenewal, InHand
    <2>2. OwingOK'
        BY <1>1, <1>2, <1>8 DEF OwingOK, Calm, Whole
    <2>3. FailingOK'
        <3>1. \A x \in {"trial", "createInvoice", "attempt", "recovered"} : x \notin Said'
            BY <1>8
        <3> QED
            BY <1>1, <1>2, <1>6, <1>8, <3>1 DEF FailingOK, Made
    <2>4. RetriesOK'
        <3> SUFFICES ASSUME (Calm /\ ~ Ended(core))', NEW k \in DOMAIN invoices', Failing(k)'
                     PROVE  Retried(k)'
            BY DEF RetriesOK
        <3>1. k \in DOMAIN invoices /\ Retried(k)
            BY <1>6, <1>8 DEF RetriesOK
        <3>2. CASE \E l \in DOMAIN jobs : IsRetry(jobs[l], k)
            BY <1>1, <1>8, <3>2 DEF Retried, IsRetry
        <3>3. CASE IsRetry(running.job, k) /\ InHand
            BY <1>1, <1>4, <1>8, <3>3 DEF Retried, IsRetry, InHand
        <3> QED
            BY <1>2, <1>3, <3>1, <3>2, <3>3 DEF Retried
    <2> QED
        BY <2>1, <2>2, <2>3, <2>4
<1>9. CASE handler' = Free /\ invoices' = invoices
    <2>1. BillTyped' /\ JobsWell'
        BY <1>7, <1>9, FreeHandler
    <2>2. ProgramOK' /\ Timed' /\ Standings' /\ ChargedOnce' /\ CreditOK' /\ MovesOK'
        BY <1>1, <1>5, <1>9, <2>1, Freed
    <2>3. Said' = {} /\ \A k, to : ~ Billed(k, to)'
        BY <1>9, FreeHandler DEF Said, Billed, Bills
    <2>4. \A k \in DOMAIN invoices : Failing(k)' => Failing(k)
        BY <1>9, <2>3 DEF Failing
    <2> QED
        BY <1>8, <1>9, <2>1, <2>2, <2>3, <2>4
<1>10. CASE owed # {}
    <2>1. invoices \in Seq(Invoice) /\ owed \subseteq 1..Len(invoices) /\ Len(invoices) \in Nat
        BY RecordTyped DEF BillTyped
    <2>2. c \in owed /\ \A l \in owed : l <= c
        <3> DEFINE S == {Len(invoices) - k : k \in owed}
        <3>1. S # {} /\ S \subseteq Nat
            BY <1>10, <2>1
        <3>2. PICK m \in S : \A l \in S : m <= l
            <4> HIDE DEF S
            <4> QED
                BY <3>1, LeastNatural
        <3>3. PICK k \in owed : m = Len(invoices) - k
            BY <3>2
        <3>4. \A l \in owed : l <= k
            <4> SUFFICES ASSUME NEW l \in owed PROVE l <= k
                OBVIOUS
            <4>1. m <= Len(invoices) - l
                BY <3>2
            <4>2. l \in Int /\ k \in Int
                BY <2>1
            <4> HIDE DEF owed
            <4> QED
                BY <2>1, <3>3, <4>1, <4>2
        <3> HIDE DEF owed
        <3> QED
            BY <3>3, <3>4
    <2> HIDE DEF c
    <2>3. PICK i : i = c
        OBVIOUS
    <2>4. i \in DOMAIN invoices /\ i \in Int /\ invoices[i].status \in {"failed", "uncollectible"}
        BY <2>1, <2>2, <2>3
    <2>5. Calm /\ ~ Ended(core) => \A k \in DOMAIN invoices : Failing(k) => k = i
        <3> SUFFICES ASSUME Calm, ~ Ended(core), NEW k \in DOMAIN invoices, Failing(k)
                     PROVE  k = i
            OBVIOUS
        <3>1. k = Len(invoices) /\ invoices[k].status = "failed"
            BY <1>3 DEF FailingOK, Failing
        <3>2. k \in owed
            BY <3>1
        <3> QED
            BY <2>1, <2>2, <2>3, <3>1, <3>2
    <2>6. CASE Goes(settled(i)) /\ invoices' = Paid(i)
        BY <1>1, <1>2, <2>4, <2>5, <2>6, Settles
    <2>7. CASE /\ invoices[i].status = "failed" /\ invoices' = invoices
               /\ Goes(Bill(i, "pending") \o Bill(i, "failed"))
        <3> DEFINE p == Bill(i, "pending") \o Bill(i, "failed")
                   W == {"pending"} \cup {"failed"}
        <3>1. /\ Program(Bill(i, "pending"), {"pending"})
              /\ \A s \in Elems(Bill(i, "pending")) : s.op = "bill" /\ s.n = i /\ s.to = "pending"
            BY <2>4, BillSays DEF BillMoves
        <3>2. /\ Program(Bill(i, "failed"), {"failed"})
              /\ \A s \in Elems(Bill(i, "failed")) : s.op = "bill" /\ s.n = i /\ s.to = "failed"
            BY <2>4, BillSays DEF BillMoves
        <3>3. Program(p, W) /\ Elems(p) = Elems(Bill(i, "pending")) \cup Elems(Bill(i, "failed"))
            <4>1. \A x \in {"pending"}, y \in {"failed"} : y \in Later[x]
                BY LaterIs
            <4>2. Program(p, W)
                BY <3>1, <3>2, <4>1, Joined
            <4> QED
                BY <3>1, <3>2, <4>2, ElemsJoined DEF Program
        <3>4. Linked(W) /\ W # {} /\ "dispatch" \notin W
            BY DEF Linked
        <3>5. Goes(p)
            BY <2>7
        <3> HIDE DEF p
        <3>6. handler' \in HandlerType /\ handler'.todo = p /\ Said' = {"pending", "failed"} /\ ProgramOK'
            BY <1>1, <3>3, <3>4, <3>5, Turned
        <3>7. /\ \A b \in Bills' : b.n = i /\ b.to \in {"pending", "failed"}
              /\ \A k : ~ Billed(k, "success")' /\ (Billed(k, "failed")' => k = i)
              /\ \A s \in Elems(handler'.todo) : s.op # "unattempt"
            BY <3>1, <3>2, <3>3, <3>6 DEF Bills, Billed
        <3>8. BillTyped' /\ JobsWell'
            BY <1>7, <2>7, <3>6
        <3>9. Timed'
            BY <3>6 DEF Timed, Trying
        <3>10. Standings'
            BY <2>4, <2>7, <3>6, <3>7 DEF Standings
        <3>11. ChargedOnce'
            BY <1>1, <1>3, <2>7, <3>7 DEF ChargedOnce
        <3>12. CreditOK'
            <4>1. ~ Unspent'
                BY <3>6 DEF Unspent
            <4>2. Applied' = Applied
                BY <2>7 DEF Applied
            <4> QED
                BY <1>1, <1>5, <2>7, <4>1, <4>2 DEF CreditOK
        <3>13. MovesOK'
            <4>1. Whole => ~ Ended(core)
                BY <1>1, <1>2 DEF MovesOK
            <4> QED
                BY <1>1, <3>6, <4>1 DEF MovesOK, Whole
        <3>14. \A k \in DOMAIN invoices : Failing(k)' => Failing(k)
            BY <2>7, <3>7 DEF Failing
        <3> QED
            BY <1>8, <2>7, <3>6, <3>8, <3>9, <3>10, <3>11, <3>12, <3>13, <3>14
    <2>8. CASE ~ invoices[i].record \/ card = "gone"
        <3>1. handler' = Free /\ invoices' = invoices
            BY <2>3, <2>8 DEF retryNow, c, Stops
        <3> QED
            BY <1>9, <3>1
    <2>9. CASE ~ (~ invoices[i].record \/ card = "gone")
        <3>1. IF card = "succeeds" THEN Goes(settled(i)) /\ invoices' = Paid(i)
              ELSE /\ Goes(IF invoices[i].status = "failed"
                        THEN Bill(i, "pending") \o Bill(i, "failed") ELSE <<>>)
                   /\ invoices' = invoices
            BY <1>10, <2>3, <2>9 DEF retryNow, c
        <3>2. CASE card # "succeeds" /\ invoices[i].status # "failed"
            <4>1. handler' = Free /\ invoices' = invoices
                BY <3>1, <3>2 DEF Goes
            <4> QED
                BY <1>9, <4>1
        <3> QED
            BY <2>6, <2>7, <3>1, <3>2
    <2> QED
        BY <2>8, <2>9
<1>11. CASE owed = {}
    <2>1. handler' = Free /\ invoices' = invoices
        BY <1>11 DEF retryNow, Stops
    <2> QED
        BY <1>9, <2>1
<1> QED
    BY <1>10, <1>11

(***************************************************************************)
(* What a renewal sets going, from the record and the row as they are.     *)
(***************************************************************************)
RenewWords == {"advance", "active", "scheduleRenewal", "carry", "createInvoice", "record",
               "spend", "attempt"}
EndWords == {"endRecord", "cancelGroup", "writeOff", "cancelled"}

\* W is what a renewal due at that instant says.
RenewalWords(due, W) ==
    \/ W = {} /\ (stored.next # due \/ Ended(core))
    \/ W = EndWords /\ ~ Ended(core)
    \/ W = {"skip", "scheduleRenewal"} /\ core = "attention"
    \/ /\ W = RenewWords \ (IF core = "trialing" THEN {} ELSE {"active"})
       /\ ~ Ended(core) /\ core # "attention"

\* What #renew goes through, from what it reads
LEMMA RenewSays ==
    ASSUME NEW due
    PROVE  \E W : Program(renew(due), W) /\ Linked(W) /\ RenewalWords(due, W)
<1> DEFINE idle == stored.next # due \/ Ended(core)
           over == stored.ending \/ core = "non_renewing"
<1>1. CASE idle
    <2>1. renew(due) = <<>>
        BY <1>1 DEF renew
    <2>2. Program(<<>>, {}) /\ Linked({}) /\ RenewalWords(due, {})
        BY <1>1, NothingSaid DEF Linked, RenewalWords
    <2> QED
        BY <2>1, <2>2
<1>2. CASE ~ idle /\ over
    <2>1. renew(due) = endSubscription
        BY <1>2 DEF renew
    <2>2. Program(endSubscription, EndWords) /\ Linked(EndWords)
        BY EndSays DEF EndWords
    <2>3. RenewalWords(due, EndWords)
        BY <1>2 DEF RenewalWords
    <2> QED
        BY <2>1, <2>2, <2>3
<1>3. CASE ~ idle /\ ~ over /\ core = "attention"
    <2> DEFINE W == {"skip"} \cup {"scheduleRenewal"}
    <2>1. renew(due) = Step("skip") \o Step("scheduleRenewal")
        BY <1>3 DEF renew
    <2>2. Program(renew(due), W)
        <3>1. Program(Step("skip"), {"skip"}) /\ Program(Step("scheduleRenewal"), {"scheduleRenewal"})
            BY StepSays DEF Ops
        <3>2. \A x \in {"skip"}, y \in {"scheduleRenewal"} : y \in Later[x]
            BY LaterIs
        <3> QED
            BY <2>1, <3>1, <3>2, Joined
    <2>3. W = {"skip", "scheduleRenewal"}
        OBVIOUS
    <2>4. Linked(W) /\ RenewalWords(due, W)
        BY <1>3, <2>3 DEF Linked, RenewalWords
    <2> QED
        BY <2>2, <2>4
<1>4. CASE ~ idle /\ ~ over /\ core # "attention"
    <2> DEFINE m == IF core = "trialing" THEN To("active") ELSE <<>>
               M == IF core = "trialing" THEN {"active"} ELSE {}
               a == Step("advance") \o m
               A == {"advance"} \cup M
               b == a \o Step("scheduleRenewal")
               B == A \cup {"scheduleRenewal"}
               R == {"createInvoice", "record", "spend", "attempt", "carry"}
               W == B \cup R
    <2>1. renew(due) = renewing \o raiseInvoice("cycle") /\ renewing = b
        BY <1>4 DEF renew, renewing
    <2>2. Program(m, M) /\ M \subseteq {"active"}
        BY ToSays, NothingSaid DEF CoreMoves
    <2>3. Program(Step("advance"), {"advance"}) /\ Program(Step("scheduleRenewal"), {"scheduleRenewal"})
        BY StepSays DEF Ops
    <2> HIDE DEF m
    <2>4. Program(a, A)
        <3>1. \A x \in {"advance"}, y \in M : y \in Later[x]
            BY <2>2, LaterIs
        <3> QED
            BY <2>2, <2>3, <3>1, Joined
    <2>5. Program(b, B)
        <3>1. \A x \in A, y \in {"scheduleRenewal"} : y \in Later[x]
            BY <2>2, LaterIs
        <3> QED
            BY <2>3, <2>4, <3>1, Joined
    <2>6. Program(raiseInvoice("cycle"), R)
        <3>1. {"createInvoice", "record", "spend", "attempt"} \cup {"carry"} = R
            OBVIOUS
        <3> QED
            BY <3>1, RaiseSays
    <2> HIDE DEF a, b
    <2>7. Program(renew(due), W)
        <3>1. \A x \in B, y \in R : y \in Later[x]
            BY <2>2, LaterIs
        <3> QED
            BY <2>1, <2>5, <2>6, <3>1, Joined
    <2>8. W = RenewWords \ (IF core = "trialing" THEN {} ELSE {"active"})
        BY DEF RenewWords
    <2>9. Linked(W)
        BY <2>2 DEF Linked
    <2>10. RenewalWords(due, W)
        BY <1>4, <2>8 DEF RenewalWords
    <2> QED
        BY <2>7, <2>9, <2>10
<1> QED
    BY <1>1, <1>2, <1>3, <1>4

(***************************************************************************)
(* A renewal found its record and row, and put down what is to be done:    *)
(* an invoice is raised only when none is owed.                            *)
(***************************************************************************)
LEMMA RenewalBegins ==
    ASSUME BillInv, NEW due, NEW W, RenewalWords(due, W), Said' = W,
           handler' \in HandlerType, ProgramOK', Renews',
           (Said = {"dispatch"} /\ running.job.kind = "renew") \/ Said = {"renewNow"},
           UNCHANGED <<now, core, stored, card, credit, invoices, jobs, running, past>>
    PROVE  BillInv'
<1> USE DEF BillInv
<1>1. \A k, to : ~ Billed(k, to)
    <2>1. handler.todo \in Seq(StepType)
        BY DEF BillTyped, HandlerType
    <2> QED
        BY <2>1, NoBills DEF Said, BillMoves, Billed, Bills
<1>2. BillTyped' /\ JobsWell'
    <2>1. BillingTypeOK'
        BY DEF BillTyped, BillingTypeOK
    <2> QED
        BY <2>1, SameJobs DEF BillTyped
<1>3. /\ Said' \subseteq RenewWords \cup EndWords \cup {"skip"}
      /\ Said' \cap {"record", "spend", "attempt"} # {} => "createInvoice" \in Said'
      /\ "createInvoice" \in Said' => ~ Ended(core) /\ core # "attention"
      /\ "active" \in Said' => core = "trialing"
      /\ Ended(core) => Said' = {}
    BY DEF RenewalWords, RenewWords, EndWords, Ended
<1>4. /\ Timed' /\ Standings' /\ ChargedOnce' /\ CreditOK'
      /\ \A i, to : ~ Billed(i, to)'
    <2>1. KeptPast /\ "success" \notin Said /\ ~ Unspent
        BY DEF KeptPast, Unspent
    <2>2. Said' \cap (BillMoves \cup {"scheduleRetry", "exhaust", "unattempt"}) = {}
        BY <1>3 DEF RenewWords, EndWords, BillMoves
    <2>3. Said' \cap {"record", "spend", "attempt"} # {} => ~ Made'
        BY <1>3 DEF Made
    <2> QED
        BY <1>2, <2>1, <2>2, <2>3, Quiet
<1>5. "attention" \notin Said'
    BY <1>3 DEF RenewWords, EndWords
<1>6. MovesOK'
    <2>1. Said' = {} => handler'.todo = <<>>
        BY SaysNothing DEF HandlerType, Said
    <2> QED
        BY <1>3, <1>5, <2>1 DEF MovesOK
<1>7. \A x \in {"active", "attention", "cancelled", "owe"} : x \notin Said
    OBVIOUS
<1>8. OwingOK'
    BY <1>3, <1>5, <1>7 DEF OwingOK, Calm, Whole
<1>9. Calm /\ ~ Ended(core) => \A i \in DOMAIN invoices : Failing(i) => core = "attention"
    BY <1>7 DEF FailingOK, OwingOK
<1>10. (Calm /\ ~ Ended(core))' => Calm /\ ~ Ended(core)
    BY DEF Calm, Whole
<1>11. \A i \in DOMAIN invoices' : Failing(i)' => i \in DOMAIN invoices /\ Failing(i)
    BY <1>4 DEF Failing
<1>12. FailingOK'
    <2> SUFFICES ASSUME (Calm /\ ~ Ended(core))'
                 PROVE  /\ \A i \in DOMAIN invoices' : Failing(i)' =>
                              /\ i = Len(invoices') /\ invoices'[i].record
                              /\ stored'.owing \/ "owe" \in Said' \/ "cancelled" \in Said'
                              /\ "trial" \notin Said' /\ Made'
                              /\ "recovered" \in Said' => Billed(i, "success")'
                              /\ "attempt" \in Said' => i = Mine'
                        /\ "attempt" \in Said' /\ Made' =>
                              Mine' = Len(invoices') /\ ("record" \notin Said' => invoices'[Mine'].record)
        BY DEF FailingOK
    <2>1. "attempt" \in Said' => ~ Made'
        BY <1>3 DEF Made
    <2>2. ASSUME NEW i \in DOMAIN invoices', Failing(i)'
          PROVE  /\ i = Len(invoices') /\ invoices'[i].record
                 /\ stored'.owing
                 /\ "trial" \notin Said' /\ Made'
                 /\ "recovered" \notin Said'
                 /\ "attempt" \notin Said'
        <3>1. i \in DOMAIN invoices /\ Failing(i) /\ core = "attention"
            BY <1>9, <1>10, <1>11, <2>2
        <3>2. i = Len(invoices) /\ invoices[i].record /\ stored.owing
            BY <1>7, <1>10, <3>1 DEF FailingOK
        <3>3. "createInvoice" \notin Said' /\ "attempt" \notin Said'
            BY <1>3, <3>1
        <3>4. "trial" \notin Said' /\ "recovered" \notin Said'
            BY <1>3 DEF RenewWords, EndWords
        <3> QED
            BY <3>2, <3>3, <3>4 DEF Made
    <2> QED
        BY <2>1, <2>2
<1>13. RetriesOK'
    <2> SUFFICES ASSUME (Calm /\ ~ Ended(core))', NEW i \in DOMAIN invoices', Failing(i)'
                 PROVE  Retried(i)'
        BY DEF RetriesOK
    <2>1. i \in DOMAIN invoices /\ Retried(i)
        BY <1>10, <1>11 DEF RetriesOK
    <2>2. CASE \E l \in DOMAIN jobs : IsRetry(jobs[l], i)
        BY <2>2 DEF Retried, IsRetry
    <2>3. CASE IsRetry(running.job, i) /\ InHand
        BY <2>3 DEF Retried, IsRetry, InHand
    <2> QED
        BY <1>1, <1>7, <2>1, <2>2, <2>3 DEF Retried
<1> QED
    BY <1>2, <1>4, <1>6, <1>8, <1>12, <1>13

\* A program begun, with what its job is about
LEMMA Taken ==
    ASSUME BillTyped, ProgramOK, NEW p, NEW W, Program(p, W), Linked(W),
           "dispatch" \notin W, running'.begun = running.begun,
           NEW i \in Nat, NEW k \in Nat, NEW f \in Int,
           handler' = IF p = <<>> THEN Free
                      ELSE [handler EXCEPT !.todo = p, !.invoice = i, !.retry = k, !.first = f]
    PROVE  /\ handler' \in HandlerType /\ Said' = W /\ ProgramOK'
           /\ handler'.todo = p
           /\ W # {} => /\ handler'.at = handler.at /\ Mine' = i
                        /\ handler'.retry = k /\ handler'.first = f
<1>1. p \in Seq(StepType) /\ Ordered(p) /\ Tokens(p) = W /\ (p = <<>> <=> W = {})
    BY SaysNothing DEF Program
<1>2. CASE p = <<>>
    <2>1. handler' = Free
        BY <1>2
    <2>2. Said' = {} /\ handler'.todo = <<>> /\ handler'.by = "none" /\ handler' \in HandlerType
          /\ Ordered(handler'.todo) /\ Linked(Said')
        BY <2>1, FreeHandler DEF Said
    <2> QED
        BY <1>1, <1>2, <2>1, <2>2 DEF ProgramOK
<1>3. CASE p # <<>>
    <2>1. handler' = [handler EXCEPT !.todo = p, !.invoice = i, !.retry = k, !.first = f]
        BY <1>3
    <2>2. /\ handler' \in HandlerType /\ handler'.todo = p
          /\ handler'.by = handler.by /\ handler'.at = handler.at
          /\ handler'.invoice = i /\ handler'.retry = k /\ handler'.first = f
        BY <1>1, <2>1 DEF BillTyped, HandlerType
    <2>3. handler' # Free
        BY <1>3, <2>2, FreeHandler
    <2>4. Said' = W
        BY <1>1, <2>2 DEF Said
    <2>5. ProgramOK'
        BY <1>1, <1>3, <2>2, <2>3, <2>4 DEF ProgramOK
    <2> QED
        BY <2>2, <2>4, <2>5 DEF Mine
<1> QED
    BY <1>2, <1>3

\* What a retry sets going
LEMMA RetrySays ==
    ASSUME NEW i, NEW k \in Nat
    PROVE  \/ retry(i, k) = <<>> /\ (Ended(core) \/ ~ RetryStill(i, k))
           \/ \E W : /\ Program(retry(i, k), W) /\ Linked(W)
                     /\ W = {"attempt"} \cup (IF k >= Len(RetryOffsets) THEN {"exhaust"} ELSE {})
                     /\ ~ Ended(core) /\ RetryStill(i, k)
<1>1. CASE Ended(core) \/ ~ RetryStill(i, k)
    BY <1>1 DEF retry
<1>2. CASE ~ (Ended(core) \/ ~ RetryStill(i, k))
    <2> DEFINE a == Step("attempt")
               b == IF k >= Len(RetryOffsets) THEN Step("exhaust") ELSE <<>>
               B == IF k >= Len(RetryOffsets) THEN {"exhaust"} ELSE {}
    <2>1. retry(i, k) = a \o b
        BY <1>2 DEF retry
    <2>2. Program(a, {"attempt"}) /\ Program(b, B) /\ B \subseteq {"exhaust"}
        BY StepSays, NothingSaid DEF Ops
    <2> HIDE DEF a, b
    <2>3. Program(a \o b, {"attempt"} \cup B)
        <3>1. \A x \in {"attempt"}, y \in B : y \in Later[x]
            BY <2>2, LaterIs
        <3> QED
            BY <2>2, <3>1, Joined
    <2>4. Linked({"attempt"} \cup B)
        BY <2>2 DEF Linked
    <2> QED
        BY <1>2, <2>1, <2>3, <2>4
<1> QED
    BY <1>1, <1>2

\* A job's handler reads what it needs, and returns when the job is stale.
LEMMA DispatchStep ==
    ASSUME BillInv, Dispatch
    PROVE  BillInv'
<1> USE DEF BillInv
<1>1. PICK j : j = running.job
    OBVIOUS
<1>2. /\ Holds /\ Current.op = "dispatch" /\ handler.todo # <<>>
      /\ UNCHANGED <<now, core, stored, card, credit, invoices, jobs, running, past>>
    BY DEF Dispatch, At, Holds, tables
<1>3. Said = {"dispatch"}
    <2>1. Token(Current) = "dispatch"
        BY <1>2 DEF Token, Moves
    <2> QED
        BY <1>2, <2>1, LastWord, LaterIs
<1>4. /\ running.begun /\ handler.at = j.at /\ j \in JobType /\ JobOK(j)
      /\ j.invoice \in Nat /\ j.retry \in Nat /\ j.first \in Int
    BY <1>1, <1>3 DEF ProgramOK, JobsWell, BillTyped, JobType
<1>5. \A k, to : ~ Billed(k, to)
    <2>1. handler.todo \in Seq(StepType)
        BY DEF BillTyped, HandlerType
    <2> QED
        BY <1>3, <2>1, NoBills DEF Said, BillMoves, Billed, Bills
<1>6. \A x \in {"active", "attention", "cancelled", "owe"} : x \notin Said
    BY <1>3
<1>7. CASE j.kind = "renew"
    <2>1. PICK W : Program(renew(j.due), W) /\ Linked(W) /\ RenewalWords(j.due, W)
        BY RenewSays
    <2>2. "dispatch" \notin W
        BY <2>1 DEF RenewalWords, EndWords, RenewWords
    <2>3. handler' = IF renew(j.due) = <<>> THEN Free
                     ELSE [handler EXCEPT !.todo = renew(j.due), !.invoice = j.invoice,
                                          !.retry = j.retry, !.first = j.first]
        BY <1>1, <1>7 DEF Dispatch
    <2>4. handler' \in HandlerType /\ Said' = W /\ ProgramOK'
        BY <1>2, <1>4, <2>1, <2>2, <2>3, Taken
    <2>5. Renews'
        <3> SUFFICES ASSUME (Whole /\ ~ Ended(core))'
                     PROVE  \/ (\E k \in DOMAIN jobs : IsRenewal(jobs[k]))'
                            \/ Said' \cap {"scheduleRenewal", "renewNow", "cancelled"} # {}
            BY DEF Renews
        <3>1. \/ \E k \in DOMAIN jobs : IsRenewal(jobs[k])
              \/ IsRenewal(j)
            BY <1>1, <1>2, <1>3 DEF Renews, Whole, Ended
        <3>2. CASE IsRenewal(j)
            BY <1>2, <2>1, <2>4, <3>2 DEF RenewalWords, RenewWords, EndWords, IsRenewal, Ended
        <3>3. CASE \E k \in DOMAIN jobs : IsRenewal(jobs[k])
            BY <1>2, <3>3 DEF IsRenewal
        <3> QED
            BY <3>1, <3>2, <3>3
    <2> QED
        BY <1>1, <1>2, <1>3, <1>7, <2>1, <2>4, <2>5, RenewalBegins
<1>8. CASE j.kind # "renew"
    <2> DEFINE i == j.invoice
               p == retry(j.invoice, j.retry)
    <2>1. /\ j.kind = "retry" /\ i \in DOMAIN invoices /\ OnTime(j) /\ i \in Nat
        BY <1>4, <1>8 DEF JobOK, JobType
    <2>2. handler' = IF p = <<>> THEN Free
                     ELSE [handler EXCEPT !.todo = p, !.invoice = i,
                                          !.retry = j.retry, !.first = j.first]
        BY <1>1, <1>8 DEF Dispatch
    <2>3. JobsWell'
        BY <1>2, SameJobs
    <2>4. ASSUME handler' \in HandlerType PROVE BillTyped'
        <3>1. BillingTypeOK'
            BY <1>2 DEF BillTyped, BillingTypeOK
        <3> QED
            BY <1>2, <2>4, <3>1 DEF BillTyped
    <2>5. Renews'
        BY <1>1, <1>2, <1>3, <1>8 DEF Renews, Whole, IsRenewal, Ended
    <2>6. ASSUME Said' \subseteq {"attempt", "exhaust"} PROVE OwingOK'
        BY <1>2, <1>6, <2>6 DEF OwingOK, Calm, Whole
    <2>7. (Calm /\ ~ Ended(core))' => Calm /\ ~ Ended(core)
        BY <1>2 DEF Calm, Whole
    <2>8. ASSUME \A k, to : ~ Billed(k, to)'
          PROVE  \A k \in DOMAIN invoices' : Failing(k)' => k \in DOMAIN invoices /\ Failing(k)
        BY <1>2, <2>8 DEF Failing
    <2>9. CASE p = <<>> /\ (Ended(core) \/ ~ RetryStill(i, j.retry))
        <3>1. handler' = Free
            BY <2>2, <2>9
        <3>2. BillTyped'
            BY <2>4, <3>1, FreeHandler
        <3>3. ProgramOK' /\ Timed' /\ Standings' /\ ChargedOnce' /\ CreditOK' /\ MovesOK'
            <4>1. KeptPast /\ "success" \notin Said /\ ~ Unspent
                BY <1>2, <1>3 DEF KeptPast, Unspent
            <4> QED
                BY <1>2, <3>1, <3>2, <4>1, Freed
        <3>4. Said' = {} /\ \A k, to : ~ Billed(k, to)'
            BY <3>1, FreeHandler DEF Said, Billed, Bills
        <3>5. FailingOK'
            BY <1>2, <1>6, <2>7, <2>8, <3>4 DEF FailingOK, Made
        <3>6. RetriesOK'
            <4> SUFFICES ASSUME (Calm /\ ~ Ended(core))', NEW k \in DOMAIN invoices', Failing(k)'
                         PROVE  Retried(k)'
                BY DEF RetriesOK
            <4>1. k \in DOMAIN invoices /\ Failing(k) /\ Retried(k)
                BY <2>7, <2>8, <3>4 DEF RetriesOK
            <4>2. CASE \E l \in DOMAIN jobs : IsRetry(jobs[l], k)
                BY <1>2, <4>2 DEF Retried, IsRetry
            <4>3. CASE IsRetry(j, k)
                <5>1. invoices[k].status = "failed" /\ invoices[k].record
                    BY <1>5, <2>7, <4>1 DEF FailingOK, Failing
                <5>2. k = i /\ j.retry = invoices[k].retries + 1 /\ invoices[k].retries \in Nat
                    BY <4>1, <4>3, RecordTyped, InvoiceFields DEF IsRetry, BillTyped
                <5>3. RetryStill(i, j.retry)
                    BY <5>1, <5>2 DEF RetryStill
                <5> QED
                    BY <2>7, <2>9, <5>3
            <4> QED
                BY <1>1, <1>3, <1>5, <4>1, <4>2, <4>3 DEF Retried
        <3> QED
            BY <2>3, <2>5, <2>6, <3>2, <3>3, <3>4, <3>5, <3>6
    <2>10. ASSUME NEW W, Program(p, W), Linked(W),
                  W = {"attempt"} \cup (IF j.retry >= Len(RetryOffsets) THEN {"exhaust"} ELSE {}),
                  ~ Ended(core), RetryStill(i, j.retry)
           PROVE  BillInv'
        <3>1. "dispatch" \notin W /\ W # {} /\ W \subseteq {"attempt", "exhaust"}
            BY <2>10
        <3>2. /\ handler' \in HandlerType /\ Said' = W /\ ProgramOK'
              /\ handler'.at = handler.at /\ Mine' = i
              /\ handler'.retry = j.retry /\ handler'.first = j.first
            <4>1. Program(p, W) /\ Linked(W)
                BY <2>10
            <4>2. running'.begun = running.begun
                BY <1>2
            <4>3. i \in Nat /\ j.retry \in Nat /\ j.first \in Int
                BY <1>4
            <4>4. "dispatch" \notin W /\ W # {}
                BY <3>1
            <4>5. BillTyped /\ ProgramOK
                OBVIOUS
            <4>6. PICK k \in Nat : k = j.retry
                BY <4>3
            <4>7. PICK f \in Int : f = j.first
                BY <4>3
            <4>8. PICK n \in Nat : n = i
                BY <4>3
            <4>9. handler' = IF p = <<>> THEN Free
                     ELSE [handler EXCEPT !.todo = p, !.invoice = n, !.retry = k, !.first = f]
                BY <2>2, <4>6, <4>7, <4>8
            <4> HIDE DEF p, i
            <4>10. /\ handler' \in HandlerType /\ Said' = W /\ ProgramOK'
                   /\ handler'.todo = p
                   /\ W # {} => /\ handler'.at = handler.at /\ Mine' = n
                                /\ handler'.retry = k /\ handler'.first = f
                BY <4>1, <4>2, <4>4, <4>5, <4>9, Taken
            <4>11. handler' \in HandlerType /\ Said' = W /\ ProgramOK'
                BY <4>10
            <4>12. handler'.at = handler.at /\ Mine' = n /\ handler'.retry = k /\ handler'.first = f
                BY <4>4, <4>10
            <4>13. Mine' = i /\ handler'.retry = j.retry /\ handler'.first = j.first
                BY <4>6, <4>7, <4>8, <4>12
            <4> QED
                BY <4>11, <4>12, <4>13
        <3> HIDE DEF p, i
        <3>3. BillTyped'
            BY <2>4, <3>2
        <3>4. \A k, to : ~ Billed(k, to)'
            <4>1. handler'.todo \in Seq(StepType)
                BY <3>2 DEF HandlerType
            <4> QED
                BY <3>1, <3>2, <4>1, NoBills DEF Said, BillMoves, Billed, Bills
        <3>5. Bills' = {} /\ \A e \in Elems(handler'.todo) : e.op # "unattempt"
            <4>1. handler'.todo \in Seq(StepType)
                BY <3>2 DEF HandlerType
            <4>2. Bills' = {}
                BY <3>1, <3>2, <4>1, NoBills DEF Said, BillMoves, Bills
            <4>3. \A e \in Elems(handler'.todo) : e.op # "unattempt"
                BY <3>1, <3>2 DEF Said, Tokens, Token, Moves
            <4> QED
                BY <4>2, <4>3
        <3>6. invoices[i].status = "failed" /\ invoices[i].record
            BY <2>10 DEF RetryStill
        <3>7. Timed'
            <4>1. OnTime(handler')
                BY <1>4, <2>1, <3>2 DEF OnTime
            <4>2. handler'.retry = Len(RetryOffsets) => "exhaust" \in Said'
                BY <2>10, <3>2, OffsetsGrow
            <4>3. "scheduleRetry" \notin Said'
                BY <3>1, <3>2
            <4> QED
                BY <1>2, <2>1, <3>2, <4>1, <4>2, <4>3 DEF Timed, i
        <3>8. Standings'
            <4>1. "record" \notin Said' /\ "scheduleRetry" \notin Said' /\ "attempt" \in Said'
                BY <2>10, <3>1, <3>2
            <4> QED
                BY <1>2, <3>2, <3>5, <3>6, <4>1 DEF Standings
        <3>9. ChargedOnce'
            BY <1>2, <1>5, <3>4 DEF ChargedOnce
        <3>10. CreditOK'
            <4>1. ~ Unspent /\ ~ Unspent'
                BY <1>3, <3>1, <3>2 DEF Unspent
            <4>2. Applied' = Applied
                BY <1>2 DEF Applied
            <4> QED
                BY <1>2, <4>1, <4>2 DEF CreditOK
        <3>11. MovesOK'
            BY <1>2, <2>10, <3>1, <3>2 DEF MovesOK, Ended
        <3>12. Calm /\ ~ Ended(core) => i = Len(invoices)
            BY <2>1, <3>6 DEF FailingOK, Failing, i
        <3>13. FailingOK'
            <4>1. \A x \in {"trial", "createInvoice", "recovered"} : x \notin Said'
                BY <3>1, <3>2
            <4> QED
                BY <1>2, <1>6, <2>7, <2>8, <3>2, <3>4, <3>6, <3>12, <4>1 DEF FailingOK, Made
        <3>14. RetriesOK'
            <4> SUFFICES ASSUME (Calm /\ ~ Ended(core))', NEW k \in DOMAIN invoices', Failing(k)'
                         PROVE  Retried(k)'
                BY DEF RetriesOK
            <4>1. k = Len(invoices)
                BY <2>7, <2>8, <3>4 DEF FailingOK
            <4>2. k = Mine' /\ "attempt" \in Said'
                BY <2>7, <2>10, <3>2, <3>12, <4>1
            <4> QED
                BY <4>2 DEF Retried
        <3> QED
            BY <2>3, <2>5, <2>6, <3>1, <3>2, <3>3, <3>7, <3>8, <3>9, <3>10, <3>11, <3>13, <3>14
    <2> HIDE DEF p, i
    <2>11. \/ p = <<>> /\ (Ended(core) \/ ~ RetryStill(i, j.retry))
           \/ \E W : /\ Program(p, W) /\ Linked(W)
                     /\ W = {"attempt"} \cup (IF j.retry >= Len(RetryOffsets) THEN {"exhaust"} ELSE {})
                     /\ ~ Ended(core) /\ RetryStill(i, j.retry)
        BY <1>4, RetrySays DEF p, i
    <2> QED
        BY <2>9, <2>10, <2>11
<1> QED
    BY <1>7, <1>8

\* A trial that is ended at once renews at once.
LEMMA RenewNowStep ==
    ASSUME BillInv, MoveTrial, Current.op = "renewNow"
    PROVE  BillInv'
<1> USE DEF BillInv
<1>1. /\ Holds /\ handler.todo # <<>>
      /\ handler' = IF renew(stored.next) = <<>> THEN Free
                    ELSE [handler EXCEPT !.todo = renew(stored.next)]
      /\ UNCHANGED <<now, core, stored, card, credit, invoices, jobs, running, past>>
    BY DEF MoveTrial, Holds
<1>2. Said = {"renewNow"}
    <2>1. Token(Current) = "renewNow"
        BY DEF Token, Moves
    <2> QED
        BY <1>1, <2>1, LastWord, LaterIs
<1>3. PICK W : Program(renew(stored.next), W) /\ Linked(W) /\ RenewalWords(stored.next, W)
    BY RenewSays
<1>4. "dispatch" \notin W
    BY <1>3 DEF RenewalWords, EndWords, RenewWords
<1>5. handler' \in HandlerType /\ Said' = W /\ ProgramOK'
    <2> DEFINE i == handler.invoice
               k == handler.retry
               f == handler.first
               p == renew(stored.next)
    <2>1. i \in Nat /\ k \in Nat /\ f \in Int
        BY DEF BillTyped, HandlerType
    <2>2. handler' = IF p = <<>> THEN Free
                     ELSE [handler EXCEPT !.todo = p, !.invoice = i, !.retry = k, !.first = f]
        BY <1>1 DEF BillTyped, HandlerType
    <2>3. Program(p, W)
        BY <1>3
    <2>4. running'.begun = running.begun
        BY <1>1
    <2> QED
        BY <1>3, <1>4, <2>1, <2>2, <2>3, <2>4, Taken
<1>6. Renews'
    <2>1. ~ Ended(core) => Said' \cap {"scheduleRenewal", "cancelled"} # {}
        BY <1>3, <1>5 DEF RenewalWords, RenewWords, EndWords
    <2> QED
        BY <1>1, <2>1 DEF Renews, Ended
<1> QED
    BY <1>1, <1>2, <1>3, <1>5, <1>6, RenewalBegins

\* Credit granted comes with its record in the history.
LEMMA GrantStep ==
    ASSUME BillInv, grantCredit
    PROVE  BillInv'
<1> USE DEF BillInv
<1>1. /\ Holds /\ Current.op = "grant" /\ handler' = Free /\ handler.todo # <<>>
      /\ credit' = credit + handler.extra
      /\ past' = [past EXCEPT !.granted = @ + handler.extra]
      /\ UNCHANGED <<now, core, stored, card, invoices, jobs, running>>
    BY DEF grantCredit, At, Stops, Holds
<1>2. Said = {"grant"}
    <2>1. Token(Current) = "grant"
        BY <1>1 DEF Token, Moves
    <2> QED
        BY <1>1, <2>1, LastWord, LaterIs
<1>3. \A k, to : ~ Billed(k, to)
    <2>1. handler.todo \in Seq(StepType)
        BY DEF BillTyped, HandlerType
    <2> QED
        BY <1>2, <2>1, NoBills DEF Said, BillMoves, Billed, Bills
<1>4. /\ Said' = {} /\ handler'.todo = <<>> /\ handler'.by = "none" /\ handler' \in HandlerType
      /\ Bills' = {} /\ Elems(handler'.todo) = {} /\ \A k, to : ~ Billed(k, to)'
    BY <1>1, FreeHandler DEF Said, Billed, Bills
<1>5. /\ past'.deaths = past.deaths /\ past'.events = past.events
      /\ past'.crossed = past.crossed /\ past'.strayed = past.strayed
      /\ past'.granted = past.granted + handler.extra
      /\ handler.extra \in Nat /\ past.granted \in Nat /\ credit \in Int /\ past' \in
            [events : 0..MaxEvents, deaths : 0..MaxEvents, granted : Nat,
             crossed : BOOLEAN, strayed : BOOLEAN]
    <2>1. /\ past \in [events : 0..MaxEvents, deaths : 0..MaxEvents, granted : Nat,
                       crossed : BOOLEAN, strayed : BOOLEAN]
          /\ handler.extra \in Nat /\ credit \in Int
        BY RecordTyped DEF BillTyped, HandlerType
    <2> DEFINE g == past.granted + handler.extra
    <2>2. past.granted \in Nat /\ g \in Nat /\ past' = [past EXCEPT !.granted = g]
        BY <1>1, <2>1
    <2> HIDE DEF g
    <2>3. /\ past'.granted = g /\ past' \in
                [events : 0..MaxEvents, deaths : 0..MaxEvents, granted : Nat,
                 crossed : BOOLEAN, strayed : BOOLEAN]
          /\ past'.deaths = past.deaths /\ past'.events = past.events
          /\ past'.crossed = past.crossed /\ past'.strayed = past.strayed
        BY <2>1, <2>2
    <2> QED
        BY <2>1, <2>2, <2>3 DEF g
<1>6. BillTyped' /\ JobsWell'
    <2>1. credit' \in Int
        BY <1>1, <1>5
    <2>2. BillingTypeOK'
        BY <1>1, <1>5, <2>1 DEF BillTyped, BillingTypeOK
    <2> QED
        BY <1>1, <1>4, <1>5, <2>2, SameJobs DEF BillTyped
<1>7. ProgramOK' /\ MovesOK'
    BY <1>1, <1>4, FreeHandler DEF ProgramOK, MovesOK, Said
<1>8. Timed' /\ Standings'
    BY <1>1, <1>4 DEF Timed, Trying, Standings
<1>9. ChargedOnce'
    BY <1>1, <1>3, <1>4, <1>5 DEF ChargedOnce
<1>10. CreditOK'
    <2>1. ~ Unspent /\ ~ Unspent'
        BY <1>2, <1>4 DEF Unspent
    <2>2. Applied' = Applied
        BY <1>1 DEF Applied
    <2> DEFINE s == SumTo(Applied, Len(invoices))
    <2>3. SumTo(Applied', Len(invoices')) = s
        BY <1>1, <2>2
    <2>4. credit >= 0 /\ (past.deaths = 0 => credit = past.granted - s + 0)
        BY <2>1 DEF CreditOK
    <2>5. s \in Int
        <3>1. invoices \in Seq(Invoice)
            BY RecordTyped DEF BillTyped
        <3>2. Applied \in [1..Len(invoices) -> Int] /\ Len(invoices) \in Nat
            BY <3>1, InvoiceFields DEF Applied
        <3> QED
            BY <3>2, SumToInt
    <2> HIDE DEF s
    <2>6. credit' >= 0 /\ (past'.deaths = 0 => credit' = past'.granted - s + 0)
        BY <1>1, <1>5, <2>4, <2>5
    <2> QED
        BY <2>1, <2>3, <2>6 DEF CreditOK
<1>11. InHand => ~ running.begun
    BY <1>2 DEF InHand
<1>12. Renews'
    BY <1>1, <1>2, <1>5, <1>11 DEF Renews, Whole, IsRenewal, InHand, Ended
<1>13. OwingOK'
    BY <1>1, <1>2, <1>4, <1>5 DEF OwingOK, Calm, Whole, Ended
<1>14. (Calm /\ ~ Ended(core))' => Calm /\ ~ Ended(core)
    BY <1>1, <1>5 DEF Calm, Whole
<1>15. \A k \in DOMAIN invoices' : Failing(k)' => k \in DOMAIN invoices /\ Failing(k)
    BY <1>1, <1>4 DEF Failing
<1>16. FailingOK'
    BY <1>1, <1>2, <1>4, <1>14, <1>15 DEF FailingOK, Made
<1>17. RetriesOK'
    <2> SUFFICES ASSUME (Calm /\ ~ Ended(core))', NEW k \in DOMAIN invoices', Failing(k)'
                 PROVE  Retried(k)'
        BY DEF RetriesOK
    <2>1. k \in DOMAIN invoices /\ Retried(k)
        BY <1>14, <1>15 DEF RetriesOK
    <2>2. CASE \E l \in DOMAIN jobs : IsRetry(jobs[l], k)
        BY <1>1, <2>2 DEF Retried, IsRetry
    <2>3. CASE IsRetry(running.job, k) /\ InHand
        BY <1>1, <1>11, <2>3 DEF Retried, IsRetry, InHand
    <2> QED
        BY <1>2, <1>3, <2>1, <2>2, <2>3 DEF Retried
<1> QED
    BY <1>6, <1>7, <1>8, <1>9, <1>10, <1>12, <1>13, <1>16, <1>17

-----------------------------------------------------------------------------
(***************************************************************************)
(* With the lock free, nothing is said and nothing is half done.           *)
(***************************************************************************)
LEMMA Idle ==
    ASSUME BillTyped, ProgramOK, ~ Holds
    PROVE  /\ handler = Free /\ handler.todo = <<>> /\ handler.by = "none" /\ Said = {}
           /\ Bills = {} /\ (\A k, to : ~ Billed(k, to)) /\ (InHand <=> ~ running.begun)
<1>1. handler = Free
    BY DEF Holds, ProgramOK
<1> QED
    BY <1>1, FreeHandler DEF Said, Bills, Billed, InHand

\* What the API says of a subscription
LEMMA StatusSays ==
    ASSUME NEW at
    PROVE  /\ statusOf(at) # "canceled" => ~ Ended(core)
           /\ statusOf(at) = "trialing" =>
                 ~ Ended(core) /\ ~ stored.owing /\ core # "attention"
           /\ Owes(at) => ~ Ended(core)
           /\ ~ Owes(at) /\ ~ Ended(core) => ~ stored.owing /\ core # "attention"
<1>1. CASE Ended(core)
    <2>1. statusOf(at) = "canceled"
        BY <1>1 DEF statusOf
    <2> QED
        BY <1>1, <2>1 DEF Owes
<1>2. CASE ~ Ended(core) /\ (stored.owing \/ core = "attention")
    <2>1. statusOf(at) = IF stored.exhausted THEN "unpaid" ELSE "past_due"
        BY <1>2 DEF statusOf
    <2> QED
        BY <1>2, <2>1 DEF Owes
<1>3. CASE ~ Ended(core) /\ ~ (stored.owing \/ core = "attention")
    BY <1>3 DEF Owes
<1> QED
    BY <1>1, <1>2, <1>3

(***************************************************************************)
(* A request that was not refused: what it sets going ends no recovery and *)
(* raises no invoice while another is owed.                                *)
(***************************************************************************)
LEMMA Served ==
    ASSUME BillInv, ~ Holds, NEW W, Linked(W), Said' = W,
           handler' \in HandlerType, Ordered(handler'.todo), handler'.by # "job",
           handler'.todo = <<>> => handler' = Free,
           W \cap (BillMoves \cup {"scheduleRetry", "exhaust", "unattempt", "dispatch",
                                   "recovered", "attention"}) = {},
           W \cap {"record", "spend", "attempt"} # {} => "createInvoice" \in W,
           W # {} => ~ Ended(core),
           "active" \in W => core = "non_renewing",
           W \cap {"trial", "createInvoice"} # {} => ~ stored.owing,
           past.events < MaxEvents, past' = [past EXCEPT !.events = @ + 1],
           UNCHANGED <<now, core, credit, invoices, jobs, running>>,
           stored' \in RecordType, stored'.next = stored.next, stored'.owing = stored.owing,
           card' \in Cards
    PROVE  BillInv'
<1> USE DEF BillInv
<1>1. /\ handler = Free /\ handler.todo = <<>> /\ Said = {}
      /\ (\A k, to : ~ Billed(k, to)) /\ (InHand <=> ~ running.begun)
    BY Idle
<1>2. /\ KeptPast /\ past'.granted = past.granted /\ past'.deaths <= past'.events
      /\ past' \in [events : 0..MaxEvents, deaths : 0..MaxEvents, granted : Nat,
                    crossed : BOOLEAN, strayed : BOOLEAN]
    <2>1. /\ past \in [events : 0..MaxEvents, deaths : 0..MaxEvents, granted : Nat,
                       crossed : BOOLEAN, strayed : BOOLEAN]
          /\ past.deaths <= past.events
        BY RecordTyped DEF BillTyped
    <2>2. past.events + 1 \in 0..MaxEvents /\ past.deaths \in Nat /\ past.events \in Nat
        BY <2>1, BillingBounds
    <2>3. /\ past'.events = past.events + 1 /\ past'.deaths = past.deaths
          /\ past'.granted = past.granted /\ past'.crossed = past.crossed
          /\ past'.strayed = past.strayed
        BY <2>1
    <2>4. past' \in [events : 0..MaxEvents, deaths : 0..MaxEvents, granted : Nat,
                    crossed : BOOLEAN, strayed : BOOLEAN]
        <3> DEFINE e == past.events + 1
        <3>1. e \in 0..MaxEvents /\ past' = [past EXCEPT !.events = e]
            BY <2>1, <2>2
        <3> HIDE DEF e
        <3> QED
            BY <2>1, <3>1
    <2> QED
        BY <2>1, <2>2, <2>3, <2>4 DEF KeptPast
<1>3. BillTyped' /\ JobsWell'
    <2>1. BillingTypeOK'
        BY <1>2, RecordTyped DEF BillTyped, BillingTypeOK, RecordType
    <2> QED
        BY <1>2, <2>1, SameJobs DEF BillTyped
<1>4. /\ Timed' /\ Standings' /\ ChargedOnce' /\ CreditOK'
      /\ \A k, to : ~ Billed(k, to)'
    <2>1. "success" \notin Said /\ ~ Unspent
        BY <1>1 DEF Unspent
    <2>2. Said' \cap (BillMoves \cup {"scheduleRetry", "exhaust", "unattempt"}) = {}
        OBVIOUS
    <2>3. Said' \cap {"record", "spend", "attempt"} # {} => ~ Made'
        BY DEF Made
    <2> QED
        BY <1>2, <1>3, <2>1, <2>2, <2>3, Quiet
<1>5. Said' = {} <=> handler'.todo = <<>>
    BY SaysNothing DEF HandlerType, Said
<1>6. ProgramOK'
    <2>1. handler' = Free => handler'.todo = <<>>
        BY FreeHandler
    <2> QED
        BY <2>1 DEF ProgramOK
<1>7. MovesOK'
    BY <1>5 DEF MovesOK
<1>8. Renews'
    BY <1>1, <1>2 DEF Renews, Whole, IsRenewal, InHand, KeptPast, Ended
<1>9. OwingOK'
    BY <1>1, <1>2 DEF OwingOK, Calm, Whole, KeptPast, Ended
<1>10. (Calm /\ ~ Ended(core))' => Calm /\ ~ Ended(core)
    BY <1>2 DEF Calm, Whole, KeptPast
<1>11. \A k \in DOMAIN invoices' : Failing(k)' => k \in DOMAIN invoices /\ Failing(k)
    BY <1>4 DEF Failing
<1>12. FailingOK'
    <2>1. "attempt" \in Said' => ~ Made'
        BY DEF Made
    <2>2. ASSUME (Calm /\ ~ Ended(core))', NEW i \in DOMAIN invoices', Failing(i)'
          PROVE  /\ i = Len(invoices') /\ invoices'[i].record
                 /\ stored'.owing
                 /\ "trial" \notin Said' /\ Made'
                 /\ "recovered" \notin Said'
                 /\ "attempt" \notin Said'
        <3>1. i \in DOMAIN invoices /\ Failing(i)
            BY <1>11, <2>2
        <3>2. i = Len(invoices) /\ invoices[i].record /\ stored.owing
            BY <1>1, <1>10, <2>2, <3>1 DEF FailingOK
        <3>3. "createInvoice" \notin Said' /\ "trial" \notin Said'
            BY <3>2
        <3> QED
            BY <3>2, <3>3 DEF Made
    <2> QED
        BY <2>1, <2>2 DEF FailingOK
<1>13. RetriesOK'
    <2> SUFFICES ASSUME (Calm /\ ~ Ended(core))', NEW k \in DOMAIN invoices', Failing(k)'
                 PROVE  Retried(k)'
        BY DEF RetriesOK
    <2>1. k \in DOMAIN invoices /\ Retried(k)
        BY <1>10, <1>11 DEF RetriesOK
    <2>2. CASE \E l \in DOMAIN jobs : IsRetry(jobs[l], k)
        BY <2>2 DEF Retried, IsRetry
    <2>3. CASE IsRetry(running.job, k) /\ InHand
        BY <1>1, <2>3 DEF Retried, IsRetry, InHand
    <2> QED
        BY <1>1, <2>1, <2>2, <2>3 DEF Retried
<1> QED
    BY <1>3, <1>4, <1>6, <1>7, <1>8, <1>9, <1>12, <1>13

\* The handler of a request
LEMMA ServeSays ==
    ASSUME BillTyped, NEW p, NEW W, Program(p, W), Serve(p)
    PROVE  /\ handler' \in HandlerType /\ Ordered(handler'.todo) /\ handler'.by # "job"
           /\ handler'.todo = <<>> => handler' = Free
           /\ Said' = W /\ ~ Holds /\ past.events < MaxEvents
           /\ UNCHANGED <<now, core, invoices, running>>
<1>1. /\ ~ Holds /\ past.events < MaxEvents
      /\ handler' = IF p = <<>> THEN Free
                    ELSE [Free EXCEPT !.todo = p, !.by = "api", !.at = now]
      /\ UNCHANGED <<now, core, invoices, running>>
    BY DEF Serve
<1>2. p \in Seq(StepType) /\ Ordered(p) /\ Tokens(p) = W
    BY DEF Program
<1>3. CASE p = <<>>
    <2>1. handler' = Free
        BY <1>1, <1>3
    <2> QED
        BY <1>1, <1>2, <1>3, <2>1, FreeHandler DEF Said
<1>4. CASE p # <<>>
    <2>1. now \in Nat
        BY RecordTyped, OffsetsGrow DEF BillTyped
    <2>2. handler' \in HandlerType /\ handler'.todo = p /\ handler'.by = "api"
        BY <1>1, <1>2, <1>4, <2>1, FreeHandler DEF HandlerType
    <2> QED
        BY <1>1, <1>2, <1>4, <2>2 DEF Said
<1> QED
    BY <1>3, <1>4

\* POST /subscriptions/:id/cancel, at once or at the period's end
LEMMA CancelStep ==
    ASSUME BillInv, NEW atPeriodEnd \in BOOLEAN, cancel(atPeriodEnd)
    PROVE  BillInv'
<1>1. BillTyped /\ stored \in RecordType /\ card \in Cards
    BY RecordTyped DEF BillInv, BillTyped
<1>2. /\ ~ Ended(core) /\ past' = [past EXCEPT !.events = @ + 1]
      /\ UNCHANGED <<card, credit, jobs>>
    BY StatusSays DEF cancel, assertModifiable, Counted
<1>3. CASE atPeriodEnd
    <2>1. Serve(<<>>) /\ stored' = [stored EXCEPT !.ending = TRUE]
        BY <1>3 DEF cancel
    <2>2. stored' \in RecordType /\ stored'.next = stored.next /\ stored'.owing = stored.owing
        <3>1. stored' \in RecordType
            BY <1>1, <2>1, RecordFields
        <3> QED
            BY <1>1, <2>1, <3>1 DEF RecordType
    <2>3. /\ handler' \in HandlerType /\ Ordered(handler'.todo) /\ handler'.by # "job"
          /\ handler'.todo = <<>> => handler' = Free
          /\ Said' = {} /\ ~ Holds /\ past.events < MaxEvents
          /\ UNCHANGED <<now, core, invoices, running>>
        BY <1>1, <2>1, NothingSaid, ServeSays
    <2>4. Linked({})
        BY DEF Linked
    <2> QED
        BY <1>1, <1>2, <2>2, <2>3, <2>4, Served
<1>4. CASE ~ atPeriodEnd
    <2>1. Serve(endSubscription) /\ UNCHANGED stored
        BY <1>4 DEF cancel
    <2>2. PICK W : W = EndWords
        OBVIOUS
    <2>3. Program(endSubscription, W) /\ Linked(W)
        BY <2>2, EndSays DEF EndWords
    <2>4. /\ handler' \in HandlerType /\ Ordered(handler'.todo) /\ handler'.by # "job"
          /\ handler'.todo = <<>> => handler' = Free
          /\ Said' = W /\ ~ Holds /\ past.events < MaxEvents
          /\ UNCHANGED <<now, core, invoices, running>>
        BY <1>1, <2>1, <2>3, ServeSays
    <2>5. /\ W \cap (BillMoves \cup {"scheduleRetry", "exhaust", "unattempt", "dispatch",
                                   "recovered", "attention"}) = {}
          /\ W \cap {"record", "spend", "attempt"} = {} /\ W \cap {"trial", "createInvoice"} = {}
          /\ "active" \notin W
        BY <2>2 DEF EndWords, BillMoves
    <2> QED
        BY <1>1, <1>2, <2>1, <2>3, <2>4, <2>5, Served
<1> QED
    BY <1>3, <1>4

\* The end is taken back, from the record and from the row.
LEMMA UndoCancelStep ==
    ASSUME BillInv, undoCancel
    PROVE  BillInv'
<1> DEFINE m == IF core = "non_renewing" THEN To("active") ELSE <<>>
           M == IF core = "non_renewing" THEN {"active"} ELSE {}
           W == {"undo"} \cup M
           p == Step("undo") \o m
<1>1. BillTyped /\ stored \in RecordType /\ card \in Cards
    BY RecordTyped DEF BillInv, BillTyped
<1>2. /\ ~ Ended(core) /\ past' = [past EXCEPT !.events = @ + 1] /\ Serve(p)
      /\ UNCHANGED <<stored, card, credit, jobs>>
    BY StatusSays DEF undoCancel, assertModifiable, Counted
<1>3. Program(p, W) /\ M \subseteq {"active"} /\ ("active" \in M => core = "non_renewing")
    <2>1. Program(Step("undo"), {"undo"}) /\ Program(m, M) /\ M \subseteq {"active"}
          /\ ("active" \in M => core = "non_renewing")
        BY StepSays, ToSays, NothingSaid DEF Ops, CoreMoves
    <2> HIDE DEF m, M
    <2>2. \A x \in {"undo"}, y \in M : y \in Later[x]
        BY <2>1, LaterIs
    <2> QED
        BY <2>1, <2>2, Joined
<1> HIDE DEF p, M
<1>4. /\ handler' \in HandlerType /\ Ordered(handler'.todo) /\ handler'.by # "job"
      /\ handler'.todo = <<>> => handler' = Free
      /\ Said' = W /\ ~ Holds /\ past.events < MaxEvents
      /\ UNCHANGED <<now, core, invoices, running>>
    BY <1>1, <1>2, <1>3, ServeSays
<1>5. /\ Linked(W)
      /\ W \cap (BillMoves \cup {"scheduleRetry", "exhaust", "unattempt", "dispatch",
                                 "recovered", "attention"}) = {}
      /\ W \cap {"record", "spend", "attempt"} = {} /\ W \cap {"trial", "createInvoice"} = {}
      /\ "active" \in W => core = "non_renewing"
    BY <1>3 DEF Linked, BillMoves
<1> HIDE DEF W
<1> QED
    BY <1>1, <1>2, <1>4, <1>5, Served

\* A new card, which may set off an attempt outside the schedule
LEMMA ChangeCardStep ==
    ASSUME BillInv, NEW c \in {"succeeds", "declines"}, NEW portal \in BOOLEAN,
           changeCard(c, portal)
    PROVE  BillInv'
<1> DEFINE p == IF portal \/ core = "attention" THEN Step("retryNow") ELSE <<>>
           W == IF portal \/ core = "attention" THEN {"retryNow"} ELSE {}
<1>1. BillTyped /\ stored \in RecordType
    BY RecordTyped DEF BillInv, BillTyped
<1>2. /\ ~ Ended(core) /\ past' = [past EXCEPT !.events = @ + 1] /\ Serve(p)
      /\ UNCHANGED <<stored, credit, jobs>> /\ card' \in Cards
    BY StatusSays DEF changeCard, assertModifiable, Counted, Cards
<1>3. Program(p, W) /\ W \subseteq {"retryNow"}
    BY StepSays, NothingSaid DEF Ops
<1> HIDE DEF p, W
<1>4. /\ handler' \in HandlerType /\ Ordered(handler'.todo) /\ handler'.by # "job"
      /\ handler'.todo = <<>> => handler' = Free
      /\ Said' = W /\ ~ Holds /\ past.events < MaxEvents
      /\ UNCHANGED <<now, core, invoices, running>>
    BY <1>1, <1>2, <1>3, ServeSays
<1>5. /\ Linked(W)
      /\ W \cap (BillMoves \cup {"scheduleRetry", "exhaust", "unattempt", "dispatch",
                                 "recovered", "attention"}) = {}
      /\ W \cap {"record", "spend", "attempt"} = {} /\ W \cap {"trial", "createInvoice"} = {}
      /\ "active" \notin W
    BY <1>3 DEF Linked, BillMoves
<1> QED
    BY <1>1, <1>2, <1>4, <1>5, Served

\* The trial moved ahead, or to now with the first period billed
LEMMA TrialSays ==
    ASSUME NEW n \in Int, NEW to \in {"any", "now"}, NEW last \in {"scheduleRenewal", "renewNow"}
    PROVE  Program(Step("cancelGroup") \o <<[op |-> "trial", to |-> to, n |-> n]>> \o Step(last),
                   {"cancelGroup", "trial", last})
<1> DEFINE e == [op |-> "trial", to |-> to, n |-> n]
           a == Step("cancelGroup") \o <<e>>
           A == {"cancelGroup"} \cup {"trial"}
<1>1. Program(<<e>>, {"trial"})
    <2>1. e \in StepType /\ Token(e) = "trial"
        BY DEF StepType, Names, Ops, Token, Moves
    <2> HIDE DEF e
    <2> QED
        BY <2>1, OneStep DEF Program
<1> HIDE DEF e
<1>2. Program(Step("cancelGroup"), {"cancelGroup"}) /\ Program(Step(last), {last})
    BY StepSays DEF Ops
<1>3. Program(a, A)
    <2>1. \A x \in {"cancelGroup"}, y \in {"trial"} : y \in Later[x]
        BY LaterIs
    <2> QED
        BY <1>1, <1>2, <2>1, Joined
<1> HIDE DEF a
<1>4. Program(a \o Step(last), A \cup {last})
    <2>1. \A x \in A, y \in {last} : y \in Later[x]
        BY LaterIs
    <2> QED
        BY <1>2, <1>3, <2>1, Joined
<1>5. A \cup {last} = {"cancelGroup", "trial", last}
    OBVIOUS
<1> HIDE DEF A
<1> QED
    BY <1>4, <1>5 DEF a, e

\* A trial is moved: its renewal is queued anew.
LEMMA MoveTrialStep ==
    ASSUME BillInv, extendTrial(now + 1) \/ endTrial
    PROVE  BillInv'
<1>1. BillTyped /\ stored \in RecordType /\ card \in Cards /\ now \in Int /\ now + 1 \in Int
    BY RecordTyped, OffsetsGrow DEF BillInv, BillTyped
<1>2. /\ ~ Ended(core) /\ ~ stored.owing /\ past' = [past EXCEPT !.events = @ + 1]
      /\ UNCHANGED <<stored, card, credit, jobs>>
    BY StatusSays DEF extendTrial, endTrial, assertModifiable, Counted
<1>3. PICK p, W : /\ Program(p, W) /\ Serve(p)
                  /\ W \in {{"cancelGroup", "trial", "scheduleRenewal"},
                            {"cancelGroup", "trial", "renewNow"}}
    <2>1. CASE extendTrial(now + 1)
        <3> DEFINE p == Step("cancelGroup") \o <<[op |-> "trial", to |-> "any", n |-> now + 1]>>
                            \o Step("scheduleRenewal")
        <3>1. Serve(p)
            BY <2>1 DEF extendTrial
        <3>2. Program(p, {"cancelGroup", "trial", "scheduleRenewal"})
            BY <1>1, TrialSays
        <3> HIDE DEF p
        <3> QED
            BY <3>1, <3>2
    <2>2. CASE endTrial
        <3> DEFINE p == Step("cancelGroup") \o <<[op |-> "trial", to |-> "now", n |-> now]>>
                            \o Step("renewNow")
        <3>1. Serve(p)
            BY <2>2 DEF endTrial
        <3>2. Program(p, {"cancelGroup", "trial", "renewNow"})
            BY <1>1, TrialSays
        <3> HIDE DEF p
        <3> QED
            BY <3>1, <3>2
    <2> QED
        BY <2>1, <2>2
<1>4. /\ handler' \in HandlerType /\ Ordered(handler'.todo) /\ handler'.by # "job"
      /\ handler'.todo = <<>> => handler' = Free
      /\ Said' = W /\ ~ Holds /\ past.events < MaxEvents
      /\ UNCHANGED <<now, core, invoices, running>>
    BY <1>1, <1>3, ServeSays
<1>5. /\ Linked(W)
      /\ W \cap (BillMoves \cup {"scheduleRetry", "exhaust", "unattempt", "dispatch",
                                 "recovered", "attention"}) = {}
      /\ W \cap {"record", "spend", "attempt"} = {}
      /\ "active" \notin W
    BY <1>3 DEF Linked, BillMoves
<1> QED
    BY <1>1, <1>2, <1>4, <1>5, Served

\* A share of an amount is a whole number.
LEMMA ProrateInt ==
    ASSUME NEW amount \in Int, NEW remaining \in Int, NEW period \in Int
    PROVE  prorate(amount, remaining, period) \in Int
<1>1. CASE period <= 0 \/ remaining <= 0 \/ remaining >= period
    BY <1>1 DEF prorate
<1>2. CASE ~ (period <= 0 \/ remaining <= 0 \/ remaining >= period)
    <2> DEFINE x == amount * remaining * 2 + period
               y == 2 * period
    <2>1. x \in Int /\ y \in Int /\ y > 0
        BY <1>2
    <2>2. prorate(amount, remaining, period) = x \div y
        BY <1>2 DEF prorate
    <2> HIDE DEF x, y
    <2> QED
        BY <2>1, <2>2
<1> QED
    BY <1>1, <1>2

\* Another price: what is due now is invoiced, what is too much is credit.
LEMMA ChangePlanStep ==
    ASSUME BillInv, NEW price \in Prices, NEW behaviour \in {"invoice_now", "next_cycle", "none"},
           changePlan(price, behaviour)
    PROVE  BillInv'
<1> DEFINE left(amount) == IF prorating
                           THEN prorate(amount, stored.end - now, stored.end - stored.start)
                           ELSE 0
           net == left(price) - left(stored.price)
           due == behaviour = "invoice_now" /\ net > 0
           off == net < 0 /\ behaviour # "none"
           d   == IF behaviour = "next_cycle" /\ net > 0 THEN stored.deferred + net
                  ELSE stored.deferred
           x   == IF due THEN net ELSE -net
           p   == IF due THEN raiseInvoice("proration") ELSE Step("grant")
           W   == IF due THEN {"createInvoice", "record", "spend", "attempt"} ELSE {"grant"}
<1>1. BillTyped /\ stored \in RecordType /\ card \in Cards /\ now \in Nat
    BY RecordTyped, OffsetsGrow DEF BillInv, BillTyped
<1>2. net \in Int
    <2>1. Prices \subseteq Int
        BY PricesAssumption
    <2>2. /\ price \in Int /\ stored.price \in Int /\ stored.end \in Int
          /\ stored.start \in Int /\ now \in Int
        <3>1. stored.price \in Prices /\ stored.end \in Int /\ stored.start \in Int
            BY <1>1 DEF RecordType
        <3>2. price \in Int /\ stored.price \in Int
            BY <2>1, <3>1
        <3>3. now \in Int
            BY <1>1
        <3> QED
            BY <3>1, <3>2, <3>3
    <2> DEFINE r == stored.end - now
               q == stored.end - stored.start
    <2>3. r \in Int /\ q \in Int
        BY <2>2
    <2>4. left(price) = (IF prorating THEN prorate(price, r, q) ELSE 0)
          /\ left(stored.price) = (IF prorating THEN prorate(stored.price, r, q) ELSE 0)
        OBVIOUS
    <2> HIDE DEF r, q
    <2>5. prorate(price, r, q) \in Int /\ prorate(stored.price, r, q) \in Int
        BY <2>2, <2>3, ProrateInt
    <2> HIDE DEF left
    <2>6. left(price) \in Int /\ left(stored.price) \in Int
        <3>1. CASE prorating
            BY <2>4, <2>5, <3>1
        <3>2. CASE ~ prorating
            BY <2>4, <3>2
        <3> QED
            BY <3>1, <3>2
    <2> QED
        BY <2>6
<1>3. /\ ~ Ended(core) /\ ~ stored.owing /\ ~ Holds /\ past.events < MaxEvents
      /\ past' = [past EXCEPT !.events = @ + 1]
      /\ stored' = [stored EXCEPT !.price = price, !.deferred = d]
      /\ handler' = IF due \/ off
                    THEN [Free EXCEPT !.by = "api", !.at = now, !.extra = x, !.todo = p]
                    ELSE Free
      /\ UNCHANGED <<now, core, card, credit, invoices, jobs, running>>
    <2>1. ~ Ended(core) /\ ~ stored.owing
        BY StatusSays DEF changePlan, assertModifiable
    <2>2. stored' = [stored EXCEPT !.price = price, !.deferred = d]
        BY <1>1 DEF changePlan
    <2>3. handler' = IF due \/ off
                     THEN [Free EXCEPT !.by = "api", !.at = now, !.extra = x, !.todo = p]
                     ELSE Free
        BY DEF changePlan
    <2> QED
        BY <2>1, <2>2, <2>3 DEF changePlan, Counted
<1>4. d \in Nat /\ (due \/ off => x \in Nat)
    <2>1. stored.deferred \in Nat
        BY <1>1 DEF RecordType
    <2> HIDE DEF net
    <2> QED
        BY <1>2, <2>1
<1>5. /\ Program(p, W) /\ Linked(W)
      /\ W \cap (BillMoves \cup {"scheduleRetry", "exhaust", "unattempt", "dispatch",
                                 "recovered", "attention"}) = {}
      /\ W \cap {"record", "spend", "attempt"} # {} => "createInvoice" \in W
      /\ "active" \notin W
    <2> HIDE DEF due
    <2>1. CASE due
        <3>1. {"createInvoice", "record", "spend", "attempt"} \cup {} = W
            BY <2>1
        <3>2. Program(raiseInvoice("proration"), W) /\ Linked(W)
            BY <3>1, RaiseSays
        <3> QED
            BY <2>1, <3>2 DEF BillMoves
    <2>2. CASE ~ due
        BY <2>2, StepSays DEF Ops, Linked, BillMoves
    <2> QED
        BY <2>1, <2>2
<1> HIDE DEF net, due, off, d, x, p, W
<1>6. stored' \in RecordType /\ stored'.next = stored.next /\ stored'.owing = stored.owing
    <2> DEFINE s == [stored EXCEPT !.price = price]
    <2>1. s \in RecordType /\ s.next = stored.next /\ s.owing = stored.owing
        BY <1>1 DEF RecordType
    <2>2. stored' = [s EXCEPT !.deferred = d]
        BY <1>1, <1>3
    <2> HIDE DEF s
    <2>3. stored' \in RecordType
        BY <1>4, <2>1, <2>2, RecordFields
    <2> QED
        BY <2>1, <2>2, <2>3 DEF RecordType
<1>7. CASE due \/ off
    <2>1. p \in Seq(StepType) /\ Ordered(p) /\ Tokens(p) = W /\ p # <<>>
        BY <1>5, NothingSaid, NoSteps DEF Program, W
    <2>2. handler' = [Free EXCEPT !.by = "api", !.at = now, !.extra = x, !.todo = p]
        BY <1>3, <1>7
    <2>3. handler' \in HandlerType /\ handler'.todo = p /\ handler'.by = "api"
        BY <1>1, <1>4, <1>7, <2>1, <2>2, FreeHandler DEF HandlerType
    <2>4. Said' = W
        BY <2>1, <2>3 DEF Said
    <2> QED
        BY <1>1, <1>3, <1>5, <1>6, <2>1, <2>3, <2>4, Served
<1>8. CASE ~ (due \/ off)
    <2>1. handler' = Free
        BY <1>3, <1>8
    <2>2. /\ handler' \in HandlerType /\ Ordered(handler'.todo) /\ handler'.by # "job"
          /\ Said' = {} /\ Linked({})
        BY <2>1, FreeHandler DEF Said
    <2> QED
        BY <1>1, <1>3, <1>6, <2>1, <2>2, Served
<1> QED
    BY <1>7, <1>8

(***************************************************************************)
(* The clock, the card, and steps that change nothing                      *)
(***************************************************************************)
LEMMA StandStill ==
    ASSUME UNCHANGED <<handler, invoices, credit>>, past'.deaths = past.deaths,
           past'.granted = past.granted
    PROVE  /\ Said' = Said /\ Bills' = Bills /\ Mine' = Mine
           /\ \A k, to : Billed(k, to)' <=> Billed(k, to)
           /\ \A k : Failing(k)' <=> Failing(k)
           /\ Timed => Timed'
           /\ Standings => Standings'
           /\ ChargedOnce => ChargedOnce'
           /\ CreditOK => CreditOK'
<1>1. Said' = Said /\ Bills' = Bills /\ Mine' = Mine
    BY DEF Said, Bills, Mine
<1>2. \A k, to : Billed(k, to)' <=> Billed(k, to)
    BY <1>1 DEF Billed
<1>3. \A k : Failing(k)' <=> Failing(k)
    BY <1>2 DEF Failing
<1>4. nextAttempt' = nextAttempt /\ (OnTime(handler)' <=> OnTime(handler))
    BY DEF nextAttempt, OnTime
<1>5. Trying' <=> Trying
    BY <1>1 DEF Trying, Made
<1>6. Timed => Timed'
    BY <1>1, <1>4, <1>5 DEF Timed
<1>7. Standings => Standings'
    BY <1>1, <1>2 DEF Standings, Made
<1>8. ChargedOnce => ChargedOnce'
    BY <1>2 DEF ChargedOnce
<1>9. CreditOK => CreditOK'
    <2>1. Applied' = Applied /\ (Unspent' <=> Unspent)
        BY <1>1 DEF Applied, Unspent, Made
    <2> QED
        BY <1>1, <2>1 DEF CreditOK
<1> QED
    BY <1>1, <1>2, <1>3, <1>6, <1>7, <1>8, <1>9

\* The clock and the card are nothing the invariant depends on.
LEMMA UnmovedStep ==
    ASSUME BillInv, UNCHANGED <<core, stored, credit, invoices, jobs, running, handler, past>>,
           now' \in 0..LastTime, card' \in Cards
    PROVE  BillInv'
<1> USE DEF BillInv
<1>1. /\ Said' = Said /\ Bills' = Bills /\ Mine' = Mine
      /\ \A k, to : Billed(k, to)' <=> Billed(k, to)
      /\ \A k : Failing(k)' <=> Failing(k)
      /\ Timed' /\ Standings' /\ ChargedOnce' /\ CreditOK'
    BY StandStill
<1>2. BillTyped' /\ JobsWell'
    <2>1. BillingTypeOK'
        BY DEF BillTyped, BillingTypeOK
    <2> QED
        BY <2>1, SameJobs DEF BillTyped
<1>3. ProgramOK' /\ MovesOK'
    BY <1>1 DEF ProgramOK, MovesOK, Whole
<1>4. Renews'
    BY <1>1 DEF Renews, Whole, IsRenewal, InHand
<1>5. OwingOK'
    BY <1>1 DEF OwingOK, Calm, Whole
<1>6. FailingOK'
    BY <1>1 DEF FailingOK, Calm, Whole, Made
<1>7. RetriesOK'
    <2>1. \A k : Retried(k) => Retried(k)'
        BY <1>1 DEF Retried, IsRetry, InHand
    <2> QED
        BY <1>1, <2>1 DEF RetriesOK, Calm, Whole
<1> QED
    BY <1>1, <1>2, <1>3, <1>4, <1>5, <1>6, <1>7

\* The control API moves the row, whoever has the lock.
LEMMA ToolStep ==
    ASSUME BillInv, Tool
    PROVE  BillInv'
<1> USE DEF BillInv
<1> DEFINE PastType == [events : 0..MaxEvents, deaths : 0..MaxEvents, granted : Nat,
                        crossed : BOOLEAN, strayed : BOOLEAN]
           e == past.events + 1
           c == past.crossed \/ Holds
           t == past.strayed \/ core = "attention"
<1>1. /\ past.events < MaxEvents
      /\ past' = [past EXCEPT !.events = e, !.crossed = c, !.strayed = t]
      /\ UNCHANGED <<now, stored, card, credit, invoices, jobs, running, handler>>
    BY DEF Tool
<1>2. /\ past \in PastType /\ past.deaths <= past.events /\ core \in SubscriptionStatus
      /\ BillingTypeOK
    BY RecordTyped DEF BillTyped
<1>3. e \in 0..MaxEvents /\ c \in BOOLEAN /\ t \in BOOLEAN /\ past.deaths <= e
    BY <1>1, <1>2, BillingBounds
<1> HIDE DEF e, c, t
<1>4. /\ past' \in PastType /\ past'.events = e /\ past'.deaths = past.deaths
      /\ past'.granted = past.granted /\ past'.crossed = c /\ past'.strayed = t
    <2> DEFINE r == [past EXCEPT !.events = e]
    <2>1. /\ r \in PastType /\ r.events = e /\ r.deaths = past.deaths
          /\ r.granted = past.granted
        BY <1>2, <1>3
    <2>2. past' = [r EXCEPT !.crossed = c, !.strayed = t]
        BY <1>1, <1>2
    <2> HIDE DEF r
    <2>3. /\ past' \in PastType /\ past'.crossed = c /\ past'.strayed = t
        BY <1>3, <2>1, <2>2
    <2>4. past'.events = r.events /\ past'.deaths = r.deaths /\ past'.granted = r.granted
        BY <2>1, <2>2
    <2> QED
        BY <2>1, <2>3, <2>4
<1>5. PICK s \in {"non_renewing", "cancelled"} :
         assertSubscriptionTransition(core, s) /\ core' = s
    BY DEF Tool
<1>6. core' \in {"non_renewing", "cancelled"} /\ core' \in SubscriptionStatus /\ ~ Ended(core)
    <2>1. s \in SubscriptionStatus
        BY DEF SubscriptionStatus
    <2> QED
        BY <1>2, <1>5, <2>1, RowMoves
<1>7. /\ Said' = Said /\ Bills' = Bills /\ Mine' = Mine
      /\ \A k, to : Billed(k, to)' <=> Billed(k, to)
      /\ \A k : Failing(k)' <=> Failing(k)
      /\ Timed' /\ Standings' /\ ChargedOnce' /\ CreditOK'
    BY <1>1, <1>4, StandStill
<1>8. Whole' => Whole /\ ~ Holds
    BY <1>4 DEF Whole, c
<1>9. Calm' => Calm /\ ~ Holds /\ core # "attention"
    BY <1>4, <1>8 DEF Calm, t
<1>10. BillTyped' /\ JobsWell'
    <2>1. BillingTypeOK'
        BY <1>1, <1>2, <1>4, <1>6, RecordTyped DEF BillingTypeOK
    <2> QED
        BY <1>1, <1>3, <1>4, <2>1, SameJobs DEF BillTyped
<1>11. ProgramOK'
    BY <1>1, <1>7 DEF ProgramOK
<1>12. ~ Holds => Said = {} /\ handler.todo = <<>>
    BY Idle
<1>13. MovesOK'
    BY <1>1, <1>7, <1>8, <1>12 DEF MovesOK
<1>14. Renews'
    BY <1>1, <1>6, <1>7, <1>8 DEF Renews, IsRenewal, InHand
<1>15. OwingOK'
    <2> SUFFICES ASSUME Calm' PROVE OwingOK'
        BY DEF OwingOK
    <2>1. Calm /\ core # "attention" /\ Said = {}
        BY <1>9, <1>12
    <2>2. ~ stored.owing
        BY <1>6, <2>1 DEF OwingOK
    <2> QED
        BY <1>1, <1>6, <1>7, <2>1, <2>2 DEF OwingOK
<1>16. FailingOK'
    BY <1>1, <1>6, <1>7, <1>9 DEF FailingOK, Made
<1>17. RetriesOK'
    <2>1. \A k : Retried(k) => Retried(k)'
        BY <1>1, <1>7 DEF Retried, IsRetry, InHand
    <2> QED
        BY <1>1, <1>6, <1>7, <1>9, <2>1 DEF RetriesOK
<1> QED
    BY <1>7, <1>10, <1>11, <1>13, <1>14, <1>15, <1>16, <1>17

-----------------------------------------------------------------------------
(***************************************************************************)
(* The scheduler                                                           *)
(***************************************************************************)

\* A job's handler gets the lock: it has only to read.
LEMMA BeginStep ==
    ASSUME BillInv, Begin
    PROVE  BillInv'
<1> USE DEF BillInv
<1>1. /\ running.job # NoJob /\ ~ running.begun /\ ~ Holds
      /\ running' = [running EXCEPT !.begun = TRUE]
      /\ handler' = [Free EXCEPT !.todo = Step("dispatch"), !.by = "job",
                                 !.at = running.job.at]
      /\ UNCHANGED <<now, core, stored, card, credit, invoices, jobs, past>>
    BY DEF Begin, tables
<1>2. /\ handler.todo = <<>> /\ Said = {} /\ (\A k, to : ~ Billed(k, to))
      /\ (InHand <=> ~ running.begun)
    BY <1>1, Idle
<1>3. running \in [job : JobType, begun : BOOLEAN, cancelled : BOOLEAN]
    BY DEF BillTyped
<1>4. /\ running' \in [job : JobType, begun : BOOLEAN, cancelled : BOOLEAN]
      /\ running'.job = running.job /\ running'.begun
    BY <1>1, <1>3
<1>5. JobOK(running.job) /\ running.job.at \in Nat
    BY <1>1 DEF JobsWell, JobOK
<1>6. Program(Step("dispatch"), {"dispatch"}) /\ Linked({"dispatch"})
    <2>1. Linked({"dispatch"})
        BY DEF Linked
    <2> QED
        BY <2>1, StepSays DEF Ops
<1>7. /\ handler' \in HandlerType /\ handler'.todo = Step("dispatch") /\ handler'.by = "job"
      /\ handler'.at = running.job.at
    <2>1. Step("dispatch") \in Seq(StepType)
        BY <1>6 DEF Program
    <2> DEFINE p == Step("dispatch")
               a == running.job.at
    <2>2. p \in Seq(StepType) /\ a \in Nat
        BY <1>5, <2>1
    <2>3. handler' = [Free EXCEPT !.todo = p, !.by = "job", !.at = a]
        BY <1>1
    <2> HIDE DEF p, a
    <2>4. /\ handler' \in HandlerType /\ handler'.todo = p /\ handler'.by = "job"
          /\ handler'.at = a
        BY <2>2, <2>3, FreeHandler DEF HandlerType
    <2> QED
        BY <2>4 DEF p, a
<1>8. Said' = {"dispatch"} /\ Step("dispatch") # <<>> /\ Ordered(handler'.todo)
    BY <1>6, <1>7, NothingSaid, NoSteps DEF Said, Program
<1>9. BillTyped'
    <2>1. BillingTypeOK'
        BY <1>1 DEF BillTyped, BillingTypeOK
    <2> QED
        BY <1>1, <1>4, <1>7, <2>1 DEF BillTyped
<1>10. JobsWell'
    BY <1>1, <1>4, <1>5 DEF JobsWell, JobOK, OnTime
<1>11. ProgramOK'
    <2>1. handler'.todo # <<>> /\ handler' # Free
        BY <1>7, <1>8, FreeHandler
    <2> QED
        BY <1>4, <1>6, <1>7, <1>8, <2>1 DEF ProgramOK
<1>12. /\ Timed' /\ Standings' /\ ChargedOnce' /\ CreditOK'
       /\ \A k, to : ~ Billed(k, to)'
    <2>1. KeptPast /\ past'.granted = past.granted
        BY <1>1 DEF KeptPast
    <2>2. "success" \notin Said /\ ~ Unspent
        BY <1>2 DEF Unspent
    <2>3. /\ Said' \cap (BillMoves \cup {"scheduleRetry", "exhaust", "unattempt"}) = {}
          /\ Said' \cap {"record", "spend", "attempt"} # {} => ~ Made'
        BY <1>8 DEF BillMoves
    <2> QED
        BY <1>1, <1>9, <2>1, <2>2, <2>3, Quiet
<1>13. MovesOK'
    BY <1>8 DEF MovesOK
<1>14. InHand /\ InHand'
    BY <1>1, <1>2, <1>8 DEF InHand
<1>15. Renews'
    BY <1>1, <1>2, <1>4, <1>14 DEF Renews, Whole, IsRenewal, Ended
<1>16. OwingOK'
    BY <1>1, <1>2, <1>8 DEF OwingOK, Calm, Whole, Ended
<1>17. (Calm /\ ~ Ended(core))' => Calm /\ ~ Ended(core)
    BY <1>1 DEF Calm, Whole
<1>18. \A k \in DOMAIN invoices' : Failing(k)' => k \in DOMAIN invoices /\ Failing(k)
    BY <1>1, <1>12 DEF Failing
<1>19. FailingOK'
    BY <1>1, <1>2, <1>8, <1>17, <1>18 DEF FailingOK, Made
<1>20. RetriesOK'
    <2> SUFFICES ASSUME (Calm /\ ~ Ended(core))', NEW k \in DOMAIN invoices', Failing(k)'
                 PROVE  Retried(k)'
        BY DEF RetriesOK
    <2>1. k \in DOMAIN invoices /\ Retried(k)
        BY <1>17, <1>18 DEF RetriesOK
    <2>2. CASE \E l \in DOMAIN jobs : IsRetry(jobs[l], k)
        BY <1>1, <2>2 DEF Retried, IsRetry
    <2>3. CASE IsRetry(running.job, k) /\ InHand
        BY <1>1, <1>4, <1>14, <2>3 DEF Retried, IsRetry
    <2> QED
        BY <1>2, <2>1, <2>2, <2>3 DEF Retried
<1> QED
    BY <1>9, <1>10, <1>11, <1>12, <1>13, <1>15, <1>16, <1>19, <1>20

\* The job in hand is done with.
LEMMA FinishStep ==
    ASSUME BillInv, Finish
    PROVE  BillInv'
<1> USE DEF BillInv
<1>1. /\ running.begun /\ handler.by # "job"
      /\ running' = [job |-> NoJob, begun |-> FALSE, cancelled |-> FALSE]
      /\ UNCHANGED <<now, core, stored, card, credit, invoices, jobs, handler, past>>
    BY DEF Finish, tables
<1>2. /\ running' \in [job : JobType, begun : BOOLEAN, cancelled : BOOLEAN]
      /\ running'.job = NoJob /\ ~ running'.begun
    <2> DEFINE j == NoJob
    <2>1. j \in JobType
        BY NoJobTyped
    <2>2. running' = [job |-> j, begun |-> FALSE, cancelled |-> FALSE]
        BY <1>1
    <2> HIDE DEF j
    <2>3. /\ running' \in [job : JobType, begun : BOOLEAN, cancelled : BOOLEAN]
          /\ running'.job = j /\ ~ running'.begun
        BY <2>1, <2>2
    <2> QED
        BY <2>3 DEF j
<1>3. "dispatch" \notin Said /\ ~ InHand
    BY <1>1 DEF ProgramOK, InHand
<1>4. /\ Said' = Said /\ Bills' = Bills /\ Mine' = Mine
      /\ \A k, to : Billed(k, to)' <=> Billed(k, to)
      /\ \A k : Failing(k)' <=> Failing(k)
      /\ Timed' /\ Standings' /\ ChargedOnce' /\ CreditOK'
    BY <1>1, StandStill
<1>5. BillTyped'
    <2>1. BillingTypeOK'
        BY <1>1 DEF BillTyped, BillingTypeOK
    <2> QED
        BY <1>1, <1>2, <2>1 DEF BillTyped
<1>6. JobsWell'
    BY <1>1, <1>2 DEF JobsWell, JobOK, OnTime
<1>7. ProgramOK' /\ MovesOK'
    BY <1>1, <1>3, <1>4 DEF ProgramOK, MovesOK, Whole
<1>8. Renews'
    BY <1>1, <1>3, <1>4 DEF Renews, Whole, IsRenewal
<1>9. OwingOK'
    BY <1>1, <1>4 DEF OwingOK, Calm, Whole
<1>10. FailingOK'
    BY <1>1, <1>4 DEF FailingOK, Calm, Whole, Made
<1>11. RetriesOK'
    <2>1. \A k : Retried(k) => Retried(k)'
        BY <1>1, <1>3, <1>4 DEF Retried, IsRetry
    <2> QED
        BY <1>1, <1>4, <2>1 DEF RetriesOK, Calm, Whole
<1> QED
    BY <1>4, <1>5, <1>6, <1>7, <1>8, <1>9, <1>10, <1>11

\* The queue without one of its jobs has all the others, and no more.
LEMMA TakenOut ==
    ASSUME jobs \in Seq(JobType), NEW i \in DOMAIN jobs
    PROVE  /\ Without(i) \in Seq(JobType)
           /\ \A k \in DOMAIN Without(i) : \E l \in DOMAIN jobs : Without(i)[k] = jobs[l]
           /\ \A l \in DOMAIN jobs : l # i =>
                 \E k \in DOMAIN Without(i) : Without(i)[k] = jobs[l]
<1> DEFINE n == Len(jobs)
           w == Without(i)
<1>1. /\ n \in Nat /\ n - 1 \in Nat /\ i \in 1..n /\ DOMAIN jobs = 1..n
      /\ \A k \in 1..n : jobs[k] \in JobType
    OBVIOUS
<1>2. w = [k \in 1..(n - 1) |-> IF k < i THEN jobs[k] ELSE jobs[k + 1]]
    BY DEF Without
<1> HIDE DEF n, w
<1>3. /\ DOMAIN w = 1..(n - 1)
      /\ \A k \in 1..(n - 1) : w[k] = IF k < i THEN jobs[k] ELSE jobs[k + 1]
    BY <1>2
<1>4. \A k \in 1..(n - 1) : \E l \in 1..n : w[k] = jobs[l]
    <2> TAKE k \in 1..(n - 1)
    <2>1. CASE k < i
        <3>1. k \in 1..n /\ w[k] = jobs[k]
            BY <1>1, <1>3, <2>1
        <3> QED
            BY <3>1
    <2>2. CASE ~ (k < i)
        <3>1. k + 1 \in 1..n /\ w[k] = jobs[k + 1]
            BY <1>1, <1>3, <2>2
        <3> QED
            BY <3>1
    <2> QED
        BY <2>1, <2>2
<1>5. w \in Seq(JobType)
    <2>1. \A k \in 1..(n - 1) : w[k] \in JobType
        BY <1>1, <1>4
    <2>2. w = [k \in 1..(n - 1) |-> w[k]]
        BY <1>2, <1>3
    <2> QED
        BY <1>1, <2>1, <2>2, SeqDef
<1>6. ASSUME NEW l \in 1..n, l # i
      PROVE  \E k \in 1..(n - 1) : w[k] = jobs[l]
    <2>1. CASE l < i
        <3>1. l \in 1..(n - 1) /\ w[l] = jobs[l]
            BY <1>1, <1>3, <2>1
        <3> QED
            BY <3>1
    <2>2. CASE ~ (l < i)
        <3>1. PICK k \in 1..(n - 1) : k = l - 1
            BY <1>1, <1>6, <2>2
        <3>2. ~ (k < i) /\ k + 1 = l
            BY <1>1, <1>6, <2>2, <3>1
        <3>3. w[k] = jobs[l]
            BY <1>3, <3>2
        <3> QED
            BY <3>3
    <2> QED
        BY <2>1, <2>2
<1> QED
    BY <1>1, <1>3, <1>4, <1>5, <1>6 DEF w

\* Of the jobs that are due there is a first.
LEMMA FirstDue ==
    ASSUME BillTyped, JobsWell, Due # {}
    PROVE  \E i \in Due : \A k \in Due : \/ jobs[i].at < jobs[k].at
                                         \/ jobs[i].at = jobs[k].at /\ i <= k
<1> DEFINE T == {jobs[k].at : k \in Due}
<1>1. /\ Due \subseteq DOMAIN jobs /\ DOMAIN jobs \subseteq Nat
      /\ \A k \in DOMAIN jobs : jobs[k].at \in Nat
    <2>1. jobs \in Seq(JobType)
        BY DEF BillTyped
    <2>2. DOMAIN jobs \subseteq Nat
        BY <2>1
    <2> QED
        BY <2>2 DEF Due, JobsWell, JobOK
<1>2. T \in SUBSET Nat /\ T # {}
    BY <1>1
<1>3. PICK m \in T : \A k \in T : m <= k
    BY <1>2, LeastNatural
<1> DEFINE S == {k \in Due : jobs[k].at = m}
<1>4. S \in SUBSET Nat /\ S # {}
    BY <1>1, <1>3
<1>5. PICK i \in S : \A k \in S : i <= k
    BY <1>4, LeastNatural
<1>6. ASSUME NEW k \in Due
      PROVE  \/ jobs[i].at < jobs[k].at
             \/ jobs[i].at = jobs[k].at /\ i <= k
    <2>1. jobs[i].at = m /\ m <= jobs[k].at /\ jobs[k].at \in Nat /\ m \in Nat
        BY <1>1, <1>2, <1>3, <1>5, <1>6
    <2>2. CASE jobs[k].at = m
        BY <1>5, <2>1, <2>2
    <2>3. CASE jobs[k].at # m
        BY <2>1, <2>3
    <2> QED
        BY <2>2, <2>3
<1> QED
    BY <1>5, <1>6

\* The first job that is due is in hand, with its handler still to begin.
LEMMA ClaimStep ==
    ASSUME BillInv, Claim
    PROVE  BillInv'
<1> USE DEF BillInv
<1>1. PICK i : i = CHOOSE n \in Due : \A k \in Due :
                      \/ jobs[n].at < jobs[k].at
                      \/ jobs[n].at = jobs[k].at /\ n <= k
    OBVIOUS
<1>2. /\ running.job = NoJob /\ Due # {}
      /\ running' = [job |-> jobs[i], begun |-> FALSE, cancelled |-> FALSE]
      /\ jobs' = Without(i)
      /\ UNCHANGED <<now, core, stored, card, credit, invoices, handler, past>>
    BY <1>1 DEF Claim, tables
<1>3. i \in DOMAIN jobs
    <2>1. i \in Due
        BY <1>1, <1>2, FirstDue
    <2> QED
        BY <2>1 DEF Due
<1>4. /\ jobs \in Seq(JobType) /\ jobs' \in Seq(JobType) /\ jobs[i] \in JobType
      /\ \A k \in DOMAIN jobs' : \E l \in DOMAIN jobs : jobs'[k] = jobs[l]
      /\ \A l \in DOMAIN jobs : l # i => \E k \in DOMAIN jobs' : jobs'[k] = jobs[l]
    <2>1. jobs \in Seq(JobType)
        BY DEF BillTyped
    <2> QED
        BY <1>2, <1>3, <2>1, TakenOut
<1>5. /\ running' \in [job : JobType, begun : BOOLEAN, cancelled : BOOLEAN]
      /\ running'.job = jobs[i] /\ ~ running'.begun
    <2> DEFINE j == jobs[i]
    <2>1. j \in JobType /\ running' = [job |-> j, begun |-> FALSE, cancelled |-> FALSE]
        BY <1>2, <1>4
    <2> HIDE DEF j
    <2>2. /\ running' \in [job : JobType, begun : BOOLEAN, cancelled : BOOLEAN]
          /\ running'.job = j /\ ~ running'.begun
        BY <2>1
    <2> QED
        BY <2>2 DEF j
<1>6. ~ running.begun /\ "dispatch" \notin Said /\ handler.by # "job" /\ InHand'
    BY <1>2, <1>5 DEF JobsWell, ProgramOK, InHand
<1>7. /\ Said' = Said /\ Bills' = Bills /\ Mine' = Mine
      /\ \A k, to : Billed(k, to)' <=> Billed(k, to)
      /\ \A k : Failing(k)' <=> Failing(k)
      /\ Timed' /\ Standings' /\ ChargedOnce' /\ CreditOK'
    BY <1>2, StandStill
<1>8. BillTyped'
    <2>1. BillingTypeOK'
        BY <1>2 DEF BillTyped, BillingTypeOK
    <2> QED
        BY <1>2, <1>4, <1>5, <2>1 DEF BillTyped
<1>9. JobsWell'
    <2>1. \A k \in DOMAIN jobs' : JobOK(jobs'[k])
        BY <1>4 DEF JobsWell
    <2>2. JobOK(jobs[i]) /\ jobs[i] # NoJob
        BY <1>3, NoJobTyped DEF JobsWell, JobOK
    <2>3. \A k \in DOMAIN jobs' : JobOK(jobs[k])'
        BY <1>2, <2>1 DEF JobOK, OnTime
    <2>4. JobOK(running.job)'
        BY <1>2, <1>5, <2>2 DEF JobOK, OnTime
    <2> QED
        BY <1>5, <2>3, <2>4 DEF JobsWell
<1>10. ProgramOK' /\ MovesOK'
    BY <1>2, <1>6, <1>7 DEF ProgramOK, MovesOK, Whole
<1>11. Renews'
    <2> SUFFICES ASSUME (Whole /\ ~ Ended(core))' PROVE Renews'
        BY DEF Renews
    <2>1. Whole /\ ~ Ended(core)
        BY <1>2 DEF Whole
    <2>2. CASE \E k \in DOMAIN jobs : IsRenewal(jobs[k])
        <3>1. PICK k \in DOMAIN jobs : IsRenewal(jobs[k])
            BY <2>2
        <3>2. CASE k = i
            BY <1>2, <1>5, <1>6, <3>1, <3>2 DEF Renews, IsRenewal
        <3>3. CASE k # i
            <4>1. PICK l \in DOMAIN jobs' : jobs'[l] = jobs[k]
                BY <1>4, <3>3
            <4> QED
                BY <1>2, <3>1, <4>1 DEF Renews, IsRenewal
        <3> QED
            BY <3>2, <3>3
    <2>3. CASE ~ \E k \in DOMAIN jobs : IsRenewal(jobs[k])
        <3>1. ~ IsRenewal(running.job)
            BY <1>2, NoJobTyped DEF IsRenewal
        <3> QED
            BY <1>7, <2>1, <2>3, <3>1 DEF Renews
    <2> QED
        BY <2>2, <2>3
<1>12. OwingOK'
    BY <1>2, <1>7 DEF OwingOK, Calm, Whole
<1>13. FailingOK'
    BY <1>2, <1>7 DEF FailingOK, Calm, Whole, Made
<1>14. RetriesOK'
    <2>1. ASSUME NEW k, Retried(k) PROVE Retried(k)'
        <3>1. CASE \E l \in DOMAIN jobs : IsRetry(jobs[l], k)
            <4>1. PICK l \in DOMAIN jobs : IsRetry(jobs[l], k)
                BY <3>1
            <4>2. CASE l = i
                BY <1>2, <1>5, <1>6, <4>1, <4>2 DEF Retried, IsRetry
            <4>3. CASE l # i
                <5>1. PICK n \in DOMAIN jobs' : jobs'[n] = jobs[l]
                    BY <1>4, <4>3
                <5> QED
                    BY <1>2, <4>1, <5>1 DEF Retried, IsRetry
            <4> QED
                BY <4>2, <4>3
        <3>2. CASE ~ \E l \in DOMAIN jobs : IsRetry(jobs[l], k)
            <4>1. ~ IsRetry(running.job, k)
                BY <1>2, NoJobTyped DEF IsRetry
            <4> QED
                BY <1>7, <2>1, <3>2, <4>1 DEF Retried
        <3> QED
            BY <3>1, <3>2
    <2> QED
        BY <1>2, <1>7, <2>1 DEF RetriesOK, Calm, Whole
<1> QED
    BY <1>7, <1>8, <1>9, <1>10, <1>11, <1>12, <1>13, <1>14

-----------------------------------------------------------------------------
\* The process dies, and the job in hand with its first half done is ready
\* again: what was charged may be charged once more.
LEMMA DieStep ==
    ASSUME BillInv, Die
    PROVE  BillInv'
<1> USE DEF BillInv
<1> DEFINE PastType == [events : 0..MaxEvents, deaths : 0..MaxEvents, granted : Nat,
                        crossed : BOOLEAN, strayed : BOOLEAN]
           e == past.events + 1
           d == past.deaths + 1
<1>1. /\ past.events < MaxEvents
      /\ past' = [past EXCEPT !.events = e, !.deaths = d]
      /\ handler' = Free
      /\ running' = [job |-> NoJob, begun |-> FALSE, cancelled |-> FALSE]
      /\ jobs' = IF running.job # NoJob /\ ~ running.cancelled
                 THEN <<running.job>> \o jobs ELSE jobs
      /\ UNCHANGED <<now, core, stored, card, credit, invoices>>
    BY DEF Die, tables
<1>2. past \in PastType /\ past.deaths <= past.events /\ BillingTypeOK
    BY RecordTyped DEF BillTyped
<1>3. e \in 0..MaxEvents /\ d \in 0..MaxEvents /\ d <= e /\ d = past.deaths + 1 /\ d > 0
    BY <1>1, <1>2, BillingBounds
<1> HIDE DEF e, d
<1>4. past' \in PastType /\ past'.events = e /\ past'.deaths = d
    BY <1>1, <1>2, <1>3
<1>5. /\ Said' = {} /\ Elems(handler'.todo) = {} /\ handler'.todo = <<>>
      /\ handler'.by = "none" /\ handler' \in HandlerType
      /\ Bills' = {} /\ \A k, to : ~ Billed(k, to)'
    BY <1>1, FreeHandler DEF Said, Bills, Billed
<1>6. /\ running' \in [job : JobType, begun : BOOLEAN, cancelled : BOOLEAN]
      /\ running'.job = NoJob /\ ~ running'.begun
    <2> DEFINE j == NoJob
    <2>1. j \in JobType /\ running' = [job |-> j, begun |-> FALSE, cancelled |-> FALSE]
        BY <1>1, NoJobTyped
    <2> HIDE DEF j
    <2>2. /\ running' \in [job : JobType, begun : BOOLEAN, cancelled : BOOLEAN]
          /\ running'.job = j /\ ~ running'.begun
        BY <2>1
    <2> QED
        BY <2>2 DEF j
<1>7. /\ jobs' \in Seq(JobType)
      /\ \A k \in DOMAIN jobs' : JobOK(jobs'[k])
    <2>1. jobs \in Seq(JobType) /\ running.job \in JobType
        BY DEF BillTyped
    <2>2. CASE running.job # NoJob /\ ~ running.cancelled
        <3> DEFINE j == running.job
                   r == <<j>> \o jobs
        <3>1. j \in JobType /\ JobOK(j) /\ jobs' = r
            BY <1>1, <2>1, <2>2 DEF JobsWell
        <3>2. r \in Seq(JobType) /\ DOMAIN r = 1..(Len(jobs) + 1) /\ DOMAIN jobs = 1..Len(jobs)
            BY <2>1
        <3>3. \A k \in DOMAIN r : r[k] = j \/ \E l \in DOMAIN jobs : r[k] = jobs[l]
            <4> TAKE k \in DOMAIN r
            <4>1. k \in 1..(Len(jobs) + 1) /\ Len(jobs) \in Nat
                BY <2>1, <3>2
            <4>2. CASE k = 1
                BY <2>1, <4>2
            <4>3. CASE k # 1
                <5>1. PICK l \in 1..Len(jobs) : l = k - 1
                    BY <4>1, <4>3
                <5>2. r[k] = jobs[l]
                    BY <2>1, <4>1, <4>3, <5>1
                <5> QED
                    BY <3>2, <5>2
            <4> QED
                BY <4>2, <4>3
        <3> HIDE DEF r, j
        <3> QED
            BY <3>1, <3>2, <3>3 DEF JobsWell
    <2>3. CASE ~ (running.job # NoJob /\ ~ running.cancelled)
        BY <1>1, <2>1, <2>3 DEF JobsWell
    <2> QED
        BY <2>2, <2>3
<1>8. BillTyped'
    <2>1. BillingTypeOK'
        BY <1>1, <1>2, <1>4, RecordTyped DEF BillingTypeOK
    <2> QED
        BY <1>3, <1>4, <1>5, <1>6, <1>7, <2>1 DEF BillTyped
<1>9. JobsWell'
    <2>1. \A k \in DOMAIN jobs' : JobOK(jobs[k])'
        BY <1>1, <1>7 DEF JobOK, OnTime
    <2> QED
        BY <1>6, <2>1 DEF JobsWell
<1>10. ProgramOK'
    BY <1>1, <1>5, FreeHandler DEF ProgramOK, Said
<1>11. ~ Whole'
    BY <1>3, <1>4 DEF Whole
<1>12. Timed' /\ Standings'
    BY <1>1, <1>5 DEF Timed, Trying, Standings
<1>13. ChargedOnce'
    <2>1. invoices \in Seq(Invoice)
        BY <1>2, RecordTyped
    <2>2. ASSUME NEW i \in DOMAIN invoices
          PROVE  /\ invoices[i].charged <= 1 + d
                 /\ invoices[i].status # "success" => invoices[i].charged <= d
                 /\ invoices[i].status = "success" =>
                       (invoices[i].amount > 0 => invoices[i].charged > 0)
        <3>1. invoices[i].charged \in Nat /\ past.deaths \in Nat
            BY <1>2, <2>1, InvoiceFields
        <3>2. /\ invoices[i].charged <= 1 + past.deaths
              /\ invoices[i].status = "success" =>
                       (invoices[i].amount > 0 => invoices[i].charged > 0)
            BY DEF ChargedOnce
        <3> QED
            BY <1>3, <3>1, <3>2
    <2> QED
        BY <1>1, <1>4, <1>5, <2>2 DEF ChargedOnce
<1>14. CreditOK'
    <2>1. ~ Unspent'
        BY <1>5 DEF Unspent
    <2> QED
        BY <1>1, <1>3, <1>4, <2>1 DEF CreditOK
<1> QED
    BY <1>8, <1>9, <1>10, <1>11, <1>12, <1>13, <1>14
       DEF MovesOK, Renews, OwingOK, FailingOK, RetriesOK, Calm

-----------------------------------------------------------------------------
(***************************************************************************)
(* The invariant holds at first, and every step keeps it.                  *)
(***************************************************************************)

\* A checkout leaves the job of the first renewal and nothing owed.
LEMMA BillStarts ==
    ASSUME BillingInit
    PROVE  BillInv
<1> DEFINE first == RenewJob(Period, Period)
           PastType == [events : 0..MaxEvents, deaths : 0..MaxEvents, granted : Nat,
                        crossed : BOOLEAN, strayed : BOOLEAN]
<1>1. /\ now = 0 /\ card \in Cards /\ credit = 0 /\ invoices = <<>> /\ jobs = <<first>>
      /\ running = [job |-> NoJob, begun |-> FALSE, cancelled |-> FALSE]
      /\ handler = Free
      /\ past = [events |-> 0, deaths |-> 0, granted |-> 0,
                 crossed |-> FALSE, strayed |-> FALSE]
    BY DEF BillingInit
<1>2. /\ core \in {"trialing", "active"} /\ core \in SubscriptionStatus
      /\ stored \in RecordType /\ stored.next = Period /\ ~ stored.owing
    <2>1. PICK trial \in BOOLEAN, price \in Prices :
             /\ core = IF trial THEN "trialing" ELSE "active"
             /\ stored = [next |-> Period, trialEnd |-> IF trial THEN Period ELSE Null,
                          anchor |-> IF trial THEN Period ELSE 0,
                          cycles |-> IF trial THEN 0 ELSE 1,
                          start |-> 0, end |-> Period, billed |-> ~ trial,
                          ending |-> FALSE, owing |-> FALSE, exhausted |-> FALSE,
                          price |-> price, deferred |-> 0]
        BY DEF BillingInit
    <2>2. core \in {"trialing", "active"} /\ core \in SubscriptionStatus
        BY <2>1 DEF SubscriptionStatus
    <2> DEFINE t == IF trial THEN Period ELSE Null
               a == IF trial THEN Period ELSE 0
               c == IF trial THEN 0 ELSE 1
               b == ~ trial
    <2>3. Period \in Int /\ t \in Int /\ a \in Int /\ c \in Nat /\ b \in BOOLEAN
        BY <2>1, PeriodAssumption DEF Null
    <2>4. stored = [next |-> Period, trialEnd |-> t, anchor |-> a, cycles |-> c,
                    start |-> 0, end |-> Period, billed |-> b,
                    ending |-> FALSE, owing |-> FALSE, exhausted |-> FALSE,
                    price |-> price, deferred |-> 0]
        BY <2>1
    <2> HIDE DEF t, a, c, b
    <2>5. stored \in RecordType
        BY <2>3, <2>4 DEF RecordType
    <2>6. stored.next = Period /\ ~ stored.owing
        BY <2>4
    <2> QED
        BY <2>2, <2>5, <2>6
<1>3. first \in JobType /\ first.kind = "renew" /\ first.due = Period /\ first.at = Period
      /\ Period \in Nat
    <2>1. Period \in Int /\ Period \in Nat
        BY PeriodAssumption
    <2> QED
        BY <2>1, RenewalTyped
<1> HIDE DEF first
<1>4. jobs \in Seq(JobType) /\ DOMAIN jobs = {1} /\ jobs[1] = first
    BY <1>1, <1>3
<1>5. /\ running \in [job : JobType, begun : BOOLEAN, cancelled : BOOLEAN]
      /\ running.job = NoJob /\ ~ running.begun
    <2> DEFINE j == NoJob
    <2>1. j \in JobType /\ running = [job |-> j, begun |-> FALSE, cancelled |-> FALSE]
        BY <1>1, NoJobTyped
    <2> HIDE DEF j
    <2>2. /\ running \in [job : JobType, begun : BOOLEAN, cancelled : BOOLEAN]
          /\ running.job = j /\ ~ running.begun
        BY <2>1
    <2> QED
        BY <2>2 DEF j
<1>6. /\ past \in PastType /\ past.events = 0 /\ past.deaths = 0 /\ past.granted = 0
    BY <1>1, BillingBounds
<1>7. BillTyped
    <2>1. now \in 0..LastTime /\ credit \in Int /\ invoices \in Seq(Invoice)
        BY <1>1, OffsetsGrow
    <2>2. BillingTypeOK
        BY <1>1, <1>2, <1>6, <2>1, RecordTyped
    <2>3. handler \in HandlerType /\ past.deaths <= past.events
        BY <1>1, <1>6, FreeHandler
    <2> QED
        BY <1>4, <1>5, <2>2, <2>3 DEF BillTyped
<1>8. /\ Said = {} /\ Elems(handler.todo) = {} /\ handler.todo = <<>> /\ handler.by = "none"
      /\ Bills = {} /\ Ordered(handler.todo) /\ Linked(Said)
      /\ \A k, to : ~ Billed(k, to)
    BY <1>1, FreeHandler DEF Said, Bills, Billed
<1>9. ProgramOK
    BY <1>1, <1>8 DEF ProgramOK
<1>10. JobsWell
    BY <1>3, <1>4, <1>5 DEF JobsWell, JobOK
<1>11. DOMAIN invoices = {} /\ Len(invoices) = 0
    BY <1>1
<1>12. Timed /\ Standings /\ ChargedOnce
    BY <1>8, <1>11 DEF Timed, Trying, Standings, ChargedOnce
<1>13. CreditOK
    <2>1. ~ Unspent
        BY <1>8 DEF Unspent
    <2>2. SumTo(Applied, 0) = 0
        <3>1. 0 \in Nat /\ DOMAIN invoices = 1..0
            BY <1>11
        <3>2. Applied \in [1..0 -> Int]
            BY <3>1 DEF Applied
        <3>3. PICK g : PartialSums(Applied, 0, g) /\ SumTo(Applied, 0) = g[0]
            BY <3>1, <3>2, SumToPartialSums
        <3> QED
            BY <3>3 DEF PartialSums
    <2> QED
        BY <1>1, <1>6, <1>11, <2>1, <2>2 DEF CreditOK
<1>14. MovesOK
    BY <1>2, <1>8 DEF MovesOK, Ended
<1>15. Renews
    BY <1>2, <1>3, <1>4 DEF Renews, IsRenewal
<1>16. OwingOK
    BY <1>2, <1>8 DEF OwingOK
<1>17. FailingOK /\ RetriesOK
    BY <1>8, <1>11 DEF FailingOK, RetriesOK
<1> QED
    BY <1>7, <1>9, <1>10, <1>12, <1>13, <1>14, <1>15, <1>16, <1>17 DEF BillInv

\* What the holder of the lock does next
LEMMA HandlerSteps ==
    ASSUME BillInv, HandlerStep
    PROVE  BillInv'
BY DispatchStep, WriteRecordStep, SubscriptionStep, ScheduleStep, CancelGroupStep, CarryStep,
   CreateInvoiceStep, WriteInvoiceStep, InvoiceStep, AttemptStep, RecoveredStep, OweStep,
   ExhaustStep, WriteOffStep, RetryNowStep
   DEF HandlerStep

\* What a request sets going
LEMMA RequestSteps ==
    ASSUME BillInv, Requests
    PROVE  BillInv'
<1>1. CASE \E atPeriodEnd \in BOOLEAN : cancel(atPeriodEnd)
    BY <1>1, CancelStep
<1>2. CASE undoCancel
    BY <1>2, UndoCancelStep
<1>3. CASE \E c \in {"succeeds", "declines"}, portal \in BOOLEAN : changeCard(c, portal)
    BY <1>3, ChangeCardStep
<1>4. CASE extendTrial(now + 1) \/ endTrial
    BY <1>4, MoveTrialStep
<1>5. CASE \E price \in Prices, behaviour \in {"invoice_now", "next_cycle", "none"} :
              changePlan(price, behaviour)
    BY <1>5, ChangePlanStep
<1> QED
    BY <1>1, <1>2, <1>3, <1>4, <1>5 DEF Requests

\* Every step, whoever takes it
LEMMA BillGoesOn ==
    ASSUME BillInv, [BillingNext]_billingVars
    PROVE  BillInv'
<1>1. now \in 0..LastTime /\ card \in Cards /\ LastTime \in Nat
    BY RecordTyped, OffsetsGrow DEF BillInv, BillTyped
<1>2. CASE HandlerStep
    BY <1>2, HandlerSteps
<1>3. CASE MoveTrial
    <2>1. Current.op \in {"trial", "renewNow"}
        BY <1>3 DEF MoveTrial
    <2> QED
        BY <1>3, <2>1, TrialStep, RenewNowStep
<1>4. CASE grantCredit
    BY <1>4, GrantStep
<1>5. CASE Requests
    BY <1>5, RequestSteps
<1>6. CASE Tool
    BY <1>6, ToolStep
<1>7. CASE CardLapses
    <2>1. card' \in Cards /\ now' \in 0..LastTime
        BY <1>1, <1>7 DEF CardLapses, Cards
    <2> QED
        BY <1>7, <2>1, UnmovedStep DEF CardLapses
<1>8. CASE Tick
    <2>1. card' \in Cards /\ now' \in 0..LastTime
        BY <1>1, <1>8 DEF Tick, tables
    <2> QED
        BY <1>8, <2>1, UnmovedStep DEF Tick, tables
<1>9. CASE Claim
    BY <1>9, ClaimStep
<1>10. CASE Begin
    BY <1>10, BeginStep
<1>11. CASE Finish
    BY <1>11, FinishStep
<1>12. CASE Die
    BY <1>12, DieStep
<1>13. CASE UNCHANGED billingVars
    BY <1>1, <1>13, UnmovedStep DEF billingVars, tables
<1> QED
    BY <1>2, <1>3, <1>4, <1>5, <1>6, <1>7, <1>8, <1>9, <1>10, <1>11, <1>12, <1>13
       DEF BillingNext

\* The invariant says that invoices are paid for once ...
LEMMA PaidForOnceHolds ==
    ASSUME BillInv
    PROVE  PaidForOnce
<1> USE DEF BillInv
<1>1. BillingTypeOK
    BY DEF BillTyped
<1>2. ASSUME NEW i \in DOMAIN invoices
      PROVE  /\ invoices[i].charged <= 1 + past.deaths
             /\ invoices[i].status = "success" /\ invoices[i].amount > 0 =>
                   invoices[i].charged > 0
    BY <1>2 DEF ChargedOnce
<1>3. credit >= 0
    BY DEF CreditOK
<1>4. ASSUME ~ Holds, past.deaths = 0
      PROVE  credit = past.granted
                          - SumTo([i \in DOMAIN invoices |-> invoices[i].applied],
                                  Len(invoices))
    <2>1. ~ Unspent
        BY <1>4, Idle DEF Unspent
    <2> DEFINE s == SumTo(Applied, Len(invoices))
    <2>2. s \in Int
        <3>1. invoices \in Seq(Invoice)
            BY <1>1, RecordTyped
        <3>2. Applied \in [1..Len(invoices) -> Int] /\ Len(invoices) \in Nat
            BY <3>1, InvoiceFields DEF Applied
        <3> QED
            BY <3>2, SumToInt
    <2>3. credit = past.granted - s + 0 /\ past.granted \in Nat
        BY <1>1, <1>4, <2>1, RecordTyped DEF CreditOK
    <2>4. s = SumTo([i \in DOMAIN invoices |-> invoices[i].applied], Len(invoices))
        BY DEF Applied
    <2> HIDE DEF s
    <2>5. credit = past.granted - s
        BY <2>2, <2>3
    <2> QED
        BY <2>4, <2>5
<1> QED
    BY <1>1, <1>2, <1>3, <1>4 DEF PaidForOnce

\* ... and that a subscription that goes on is driven.
LEMMA GoesOnHolds ==
    ASSUME BillInv
    PROVE  GoesOn
<1> USE DEF BillInv
<1> SUFFICES ASSUME ~ Holds, past.deaths = 0, ~ past.crossed, ~ Ended(core)
             PROVE  /\ \E j \in Jobs : j.kind = "renew" /\ j.due = stored.next
                    /\ ~ past.strayed =>
                          \A i \in DOMAIN invoices :
                             invoices[i].status = "failed" =>
                                /\ stored.owing
                                /\ \E j \in Jobs : /\ j.kind = "retry" /\ j.invoice = i
                                                   /\ j.retry = invoices[i].retries + 1
                                                   /\ j.at = invoices[i].next
    BY DEF GoesOn
<1>1. /\ Said = {} /\ (\A k, to : ~ Billed(k, to)) /\ (InHand <=> ~ running.begun) /\ Whole
    BY Idle DEF Whole
<1>2. /\ \A k \in DOMAIN jobs : jobs[k] \in Jobs
      /\ InHand => running.job \in Jobs
    BY <1>1 DEF Jobs
<1>3. \E j \in Jobs : j.kind = "renew" /\ j.due = stored.next
    <2>1. \/ \E k \in DOMAIN jobs : IsRenewal(jobs[k])
          \/ IsRenewal(running.job) /\ InHand
        BY <1>1 DEF Renews
    <2> QED
        BY <1>2, <2>1 DEF IsRenewal
<1>4. ASSUME ~ past.strayed, NEW i \in DOMAIN invoices, invoices[i].status = "failed"
      PROVE  /\ stored.owing
             /\ \E j \in Jobs : /\ j.kind = "retry" /\ j.invoice = i
                                /\ j.retry = invoices[i].retries + 1
                                /\ j.at = invoices[i].next
    <2>1. Calm /\ Failing(i)
        BY <1>1, <1>4 DEF Calm, Failing
    <2>2. stored.owing
        BY <1>1, <2>1 DEF FailingOK
    <2>3. Retried(i)
        BY <2>1 DEF RetriesOK
    <2>4. \/ \E k \in DOMAIN jobs : IsRetry(jobs[k], i)
          \/ IsRetry(running.job, i) /\ InHand
        BY <1>1, <2>3 DEF Retried
    <2> QED
        BY <1>2, <2>2, <2>4 DEF IsRetry
<1> QED
    BY <1>3, <1>4

\* In every execution, an invoice is paid for once however it is retried, once
\* more per death of the process at most, what is marked paid was paid for, and
\* credit is spent as often as it comes off an invoice: #attempt, #retryNow and
\* #raiseInvoice, whatever the offsets, the prices and the requests between.
THEOREM PaidOnce == BillingSpec => []PaidForOnce
<1>1. BillingInit => BillInv
    BY BillStarts
<1>2. BillInv /\ [BillingNext]_billingVars => BillInv'
    BY BillGoesOn
<1>3. BillInv => PaidForOnce
    BY PaidForOnceHolds
<1> QED
    BY <1>1, <1>2, <1>3, PTL DEF BillingSpec

\* In every execution, a subscription that goes on has its next renewal queued,
\* and an invoice that failed is owed and has the retry it advertises, unless
\* the process died, or a tool cut a handler short or ended a recovery: #renew
\* queues its successor before it charges, and #attempt queues the retry.
THEOREM BillingGoesOn == BillingSpec => []GoesOn
<1>1. BillingInit => BillInv
    BY BillStarts
<1>2. BillInv /\ [BillingNext]_billingVars => BillInv'
    BY BillGoesOn
<1>3. BillInv => GoesOn
    BY GoesOnHolds
<1> QED
    BY <1>1, <1>2, <1>3, PTL DEF BillingSpec
=============================================================================
