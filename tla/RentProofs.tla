----------------------------- MODULE RentProofs -----------------------------
(***************************************************************************)
(* Theorems about RentLedger.                                              *)
(***************************************************************************)
EXTENDS RentLedger, TLAPS, FiniteSetTheorems, WellFoundedInduction

-----------------------------------------------------------------------------
(* Arithmetic of the fees.                                                 *)

(* Products of naturals grow with their factors.                           *)
LEMMA MulGrows ==
    ASSUME NEW a \in Nat, NEW b \in Nat, NEW c \in Nat, NEW d \in Nat, a <= c, b <= d
    PROVE  a * b \in Nat /\ c * d \in Nat /\ a * b <= c * d
<1>1. a * b \in Nat /\ c * d \in Nat /\ a * d \in Nat
  OBVIOUS
<1>2. a * d = a * b + a * (d - b) /\ a * (d - b) >= 0
  OBVIOUS
<1>3. c * d = a * d + (c - a) * d /\ (c - a) * d >= 0
  OBVIOUS
<1> QED BY <1>1, <1>2, <1>3

(* A saturating product reaches whatever the product and the top reach.    *)
LEMMA SaturatingMul ==
    ASSUME NEW a \in Nat, NEW b \in Nat, NEW top \in Nat
    PROVE  /\ saturating_mul(a, b, top) \in Nat
           /\ saturating_mul(a, b, top) <= a * b
           /\ \A m \in Nat : m <= top /\ m <= a * b => m <= saturating_mul(a, b, top)
<1>1. a * b \in Nat
  BY MulGrows
<1>2. CASE a > 0 /\ b > top \div a
  <2> DEFINE q == top \div a
  <2>1. q \in Nat /\ top < a * q + a
    BY <1>2
  <2> HIDE DEF q
  <2>2. q + 1 <= b /\ q + 1 \in Nat
    BY <1>2, <2>1 DEF q
  <2>3. a * (q + 1) <= a * b
    BY <2>2, MulGrows
  <2>4. a * (q + 1) = a * q + a /\ a * q \in Nat
    BY <2>1
  <2>5. top <= a * b
    BY <1>1, <2>1, <2>3, <2>4
  <2> QED BY <1>2, <2>5 DEF saturating_mul
<1>3. CASE ~(a > 0 /\ b > top \div a)
  BY <1>1, <1>3 DEF saturating_mul
<1> QED BY <1>2, <1>3

(* Rounding up never loses anything.                                       *)
LEMMA DivCeil ==
    ASSUME NEW n \in Nat, NEW d \in Nat \ {0}
    PROVE  div_ceil(n, d) \in Nat /\ n <= d * div_ceil(n, d)
<1> DEFINE x == (n + d - 1) \div d
<1>1. n + d - 1 \in Nat
  OBVIOUS
<1>2. x \in Nat /\ n + d - 1 < d * x + d
  BY <1>1
<1> HIDE DEF x
<1>3. d * x \in Nat
  BY <1>2
<1>4. n <= d * x
  BY <1>2, <1>3
<1> QED BY <1>2, <1>4 DEF div_ceil, x

(* What the rent of an entry is worth: the denominator it is divided by.   *)
Divisor(persistent, cfg) ==
    IF persistent THEN cfg.persistent_denominator ELSE cfg.temporary_denominator

(* A rent configuration that charges at least the minimum.                 *)
IsRentConfig(cfg) ==
    /\ cfg.per_rent_1kb \in Nat /\ MinRentFee <= cfg.per_rent_1kb
    /\ cfg.persistent_denominator \in Nat \ {0} /\ cfg.temporary_denominator \in Nat \ {0}

(* The fee for a size and a number of ledgers is worth at least the        *)
(* minimum rent for them, whatever the saturation and the rounding do.     *)
LEMMA RentFeeCovers ==
    ASSUME NEW cfg, IsRentConfig(cfg), NEW persistent \in BOOLEAN, NEW size \in Nat, NEW ledgers \in Nat,
           MinRentFee * size * ledgers <= I64Max
    PROVE  /\ rent_fee_for_size_and_ledgers(persistent, size, ledgers, cfg) \in Nat
           /\ MinRentFee * size * ledgers
                <= Kb * Divisor(persistent, cfg) * rent_fee_for_size_and_ledgers(persistent, size, ledgers, cfg)
<1> DEFINE rate == cfg.per_rent_1kb
           m == MinRentFee * size
           least == m * ledgers
           one == saturating_mul(size, rate, I64Max)
           num == saturating_mul(one, ledgers, I64Max)
           coef == Divisor(persistent, cfg)
           by == saturating_mul(Kb, coef, I64Max)
           d == AtLeast(by, 1)
           fee == div_ceil(num, d)
<1>1. rate \in Nat /\ MinRentFee <= rate /\ coef \in Nat \ {0}
  BY DEF IsRentConfig, Divisor
<1>2. Kb \in Nat \ {0} /\ MinRentFee \in Nat \ {0} /\ I64Max \in Nat
  BY FeesAssumption
<1>3. rent_fee_for_size_and_ledgers(persistent, size, ledgers, cfg) = fee
  BY DEF rent_fee_for_size_and_ledgers, Divisor
<1>4. least <= I64Max
  OBVIOUS
<1> HIDE DEF rate, coef
<1>5. m \in Nat /\ m <= size * rate /\ size * rate \in Nat
  BY <1>1, <1>2, MulGrows
<1>6. one \in Nat /\ (m <= I64Max => m <= one)
  BY <1>1, <1>2, <1>5, SaturatingMul
<1>7. \A x \in Nat : x <= I64Max /\ x <= size * rate => x <= one
  BY <1>1, <1>2, SaturatingMul
<1> HIDE DEF m
<1>8. least \in Nat
  BY <1>5, MulGrows
<1>9. least <= one * ledgers
  <2>1. CASE ledgers = 0
    <3>1. m * 0 = 0 /\ one * 0 = 0
      BY <1>5, <1>6
    <3> QED BY <2>1, <3>1
  <2>2. CASE ledgers # 0
    <3>1. m * 1 <= m * ledgers
      BY <1>5, <2>2, MulGrows
    <3>2. m <= I64Max
      BY <1>2, <1>4, <1>5, <1>8, <3>1
    <3> HIDE DEF one
    <3>3. m <= one /\ one \in Nat
      BY <1>6, <3>2
    <3> QED BY <1>5, <3>3, MulGrows
  <2> QED BY <2>1, <2>2
<1> HIDE DEF one
<1>10. num \in Nat /\ least <= num
  <2> HIDE DEF least
  <2>1. \A x \in Nat : x <= I64Max /\ x <= one * ledgers => x <= num
    BY <1>2, <1>6, SaturatingMul
  <2>2. num \in Nat
    BY <1>2, <1>6, SaturatingMul
  <2> QED BY <1>4, <1>8, <1>9, <2>1, <2>2
<1> HIDE DEF num, least
<1>11. by \in Nat /\ by <= Kb * coef /\ Kb * coef \in Nat \ {0}
  <2>1. by \in Nat /\ by <= Kb * coef
    BY <1>1, <1>2, SaturatingMul
  <2>2. 1 * 1 <= Kb * coef /\ Kb * coef \in Nat
    BY <1>1, <1>2, MulGrows
  <2> QED BY <2>1, <2>2
<1> DEFINE kd == Kb * coef
<1> HIDE DEF by, kd
<1>12. d \in Nat \ {0} /\ d <= kd /\ kd \in Nat
  BY <1>11 DEF AtLeast, kd
<1> HIDE DEF d
<1>13. fee \in Nat /\ num <= d * fee
  BY <1>10, <1>12, DivCeil
<1> HIDE DEF fee
<1>14. d * fee <= kd * fee /\ d * fee \in Nat /\ kd * fee \in Nat
  BY <1>12, <1>13, MulGrows
<1>15. least <= kd * fee
  BY <1>8, <1>10, <1>13, <1>14
<1> QED BY <1>3, <1>13, <1>15 DEF kd, coef, least, m

(* Two fees added up with saturation cover what each covers, together.     *)
LEMMA FeesAdd ==
    ASSUME NEW kd \in Nat \ {0}, NEW f1 \in Nat, NEW f2 \in Nat, NEW n1 \in Nat, NEW n2 \in Nat,
           n1 <= kd * f1, n2 <= kd * f2, n1 + n2 <= I64Max
    PROVE  /\ saturating_add(f1, f2, I64Max) \in Nat
           /\ n1 + n2 <= kd * saturating_add(f1, f2, I64Max)
<1>1. I64Max \in Nat
  BY FeesAssumption
<1>2. CASE f1 + f2 <= I64Max
  <2>1. saturating_add(f1, f2, I64Max) = f1 + f2
    BY <1>2 DEF saturating_add, AtMost
  <2>2. kd * (f1 + f2) = kd * f1 + kd * f2 /\ kd * f1 \in Nat /\ kd * f2 \in Nat
    OBVIOUS
  <2>3. n1 + n2 <= kd * f1 + kd * f2
    <3> DEFINE x == kd * f1
               y == kd * f2
    <3>1. x \in Nat /\ y \in Nat /\ n1 <= x /\ n2 <= y
      BY <2>2
    <3> HIDE DEF x, y
    <3>2. n1 + n2 <= x + y
      BY <3>1
    <3> QED BY <3>2 DEF x, y
  <2> QED BY <2>1, <2>2, <2>3
<1>3. CASE ~(f1 + f2 <= I64Max)
  <2>1. saturating_add(f1, f2, I64Max) = I64Max
    BY <1>3 DEF saturating_add, AtMost
  <2>2. 1 * I64Max <= kd * I64Max /\ kd * I64Max \in Nat
    BY <1>1, MulGrows
  <2>3. n1 + n2 <= kd * I64Max
    BY <1>1, <2>2
  <2> QED BY <1>1, <2>1, <2>3
<1> QED BY <1>2, <1>3

(* The discount of code entries, with what its rounding can hide put back. *)
LEMMA Discount ==
    ASSUME NEW x \in Nat
    PROVE  /\ x \div CodeDiscount \in Nat
           /\ x <= CodeDiscount * (x \div CodeDiscount) + CodeDiscount - 1
           /\ CodeDiscount * (x \div CodeDiscount) + CodeDiscount - 1 \in Nat
<1>1. CodeDiscount \in Nat \ {0}
  BY FeesAssumption
<1> DEFINE q == x \div CodeDiscount
<1>2. q \in Nat /\ x < CodeDiscount * q + CodeDiscount
  BY <1>1
<1> HIDE DEF q
<1>3. CodeDiscount * q \in Nat
  BY <1>1, <1>2
<1>4. x <= CodeDiscount * q + CodeDiscount - 1 /\ CodeDiscount * q + CodeDiscount - 1 \in Nat
  BY <1>1, <1>2, <1>3
<1> QED BY <1>2, <1>4 DEF q

(* A rent change, and what the fee for it is worth.                        *)
IsChange(e) ==
    /\ e.persistent \in BOOLEAN /\ e.code \in BOOLEAN
    /\ e.old_size \in Nat /\ e.new_size \in Nat /\ e.old_live \in Nat /\ e.new_live \in Nat

Worth(e, cfg, q) ==
    LET fee == rent_fee_per_entry_change(e, cfg, q)
    IN  Kb * Divisor(e.persistent, cfg) * (IF e.code THEN CodeDiscount * fee + CodeDiscount - 1 ELSE fee)

(* The fee of a change is worth the minimum rent of the ledgers it adds    *)
(* and of the bytes it adds to the ledgers paid for.                       *)
LEMMA WorthOfParts ==
    ASSUME NEW cfg, IsRentConfig(cfg), NEW e, IsChange(e), NEW q \in Nat,
           NEW n1 \in Nat, NEW n2 \in Nat, n1 + n2 <= I64Max,
           LET longer == extension_ledgers(e, q) IN
             IF longer = NoLedgers THEN n1 = 0
             ELSE longer \in Nat /\ n1 = MinRentFee * e.new_size * longer,
           LET prepaid == prepaid_ledgers(e, q)
               larger == size_increase(e) IN
             IF prepaid = NoLedgers \/ larger = NoLedgers THEN n2 = 0
             ELSE prepaid \in Nat /\ larger \in Nat /\ n2 = MinRentFee * larger * prepaid
    PROVE  Worth(e, cfg, q) \in Nat /\ n1 + n2 <= Worth(e, cfg, q)
<1> DEFINE longer == extension_ledgers(e, q)
           prepaid == prepaid_ledgers(e, q)
           larger == size_increase(e)
           per == e.persistent
           kd == Kb * Divisor(per, cfg)
           f1 == IF longer = NoLedgers THEN 0
                 ELSE rent_fee_for_size_and_ledgers(per, e.new_size, longer, cfg)
           f2 == IF prepaid = NoLedgers \/ larger = NoLedgers THEN 0
                 ELSE rent_fee_for_size_and_ledgers(per, larger, prepaid, cfg)
           x == saturating_add(f1, f2, I64Max)
           fee == rent_fee_per_entry_change(e, cfg, q)
           full == IF e.code THEN CodeDiscount * fee + CodeDiscount - 1 ELSE fee
<1>1. fee = IF e.code THEN x \div CodeDiscount ELSE x
  BY DEF rent_fee_per_entry_change
<1>2. per \in BOOLEAN /\ e.code \in BOOLEAN /\ e.new_size \in Nat
  BY DEF IsChange
<1>3. kd \in Nat \ {0}
  <2>1. Divisor(per, cfg) \in Nat \ {0} /\ Kb \in Nat \ {0}
    BY FeesAssumption DEF IsRentConfig, Divisor
  <2>2. 1 * 1 <= kd /\ kd \in Nat
    BY <2>1, MulGrows
  <2> QED BY <2>2
<1>4. Worth(e, cfg, q) = kd * full
  BY DEF Worth
<1>5. /\ longer = NoLedgers => n1 = 0
      /\ longer # NoLedgers => longer \in Nat /\ n1 = MinRentFee * e.new_size * longer
  OBVIOUS
<1>6. /\ prepaid = NoLedgers \/ larger = NoLedgers => n2 = 0
      /\ ~(prepaid = NoLedgers \/ larger = NoLedgers)
            => prepaid \in Nat /\ larger \in Nat /\ n2 = MinRentFee * larger * prepaid
  OBVIOUS
<1>7. n1 <= I64Max /\ n2 <= I64Max
  BY FeesAssumption
<1> HIDE DEF longer, prepaid, larger
<1>8. f1 \in Nat /\ n1 <= kd * f1
  <2>1. CASE longer = NoLedgers
    BY <1>3, <1>5, <2>1
  <2>2. CASE longer # NoLedgers
    <3>1. f1 = rent_fee_for_size_and_ledgers(per, e.new_size, longer, cfg)
      BY <2>2
    <3> QED BY <1>2, <1>5, <1>7, <2>2, <3>1, RentFeeCovers
  <2> QED BY <2>1, <2>2
<1>9. f2 \in Nat /\ n2 <= kd * f2
  <2>1. CASE prepaid = NoLedgers \/ larger = NoLedgers
    BY <1>3, <1>6, <2>1
  <2>2. CASE ~(prepaid = NoLedgers \/ larger = NoLedgers)
    <3>1. f2 = rent_fee_for_size_and_ledgers(per, larger, prepaid, cfg)
      BY <2>2
    <3> QED BY <1>2, <1>6, <1>7, <2>2, <3>1, RentFeeCovers
  <2> QED BY <2>1, <2>2
<1> HIDE DEF f1, f2, kd, per
<1>10. x \in Nat /\ n1 + n2 <= kd * x
  BY <1>3, <1>8, <1>9, FeesAdd
<1> HIDE DEF x, fee
<1>11. full \in Nat /\ x <= full
  BY <1>1, <1>2, <1>10, Discount
<1> HIDE DEF full
<1>12. kd * x <= kd * full /\ kd * x \in Nat /\ kd * full \in Nat
  BY <1>3, <1>10, <1>11, MulGrows
<1> QED BY <1>4, <1>10, <1>12

(* The minimum rent of a size for the ledgers from q to live.              *)
Rent(size, live, q) == MinRentFee * size * (live - q + 1)

(* An entry that comes to be, or comes back, pays for its whole life.      *)
LEMMA NewIsCovered ==
    ASSUME NEW cfg, IsRentConfig(cfg), NEW e, IsChange(e), NEW q \in Nat, q >= 1,
           entry_is_new(e), e.new_live >= q, Rent(e.new_size, e.new_live, q) <= I64Max
    PROVE  Worth(e, cfg, q) \in Nat /\ Rent(e.new_size, e.new_live, q) <= Worth(e, cfg, q)
<1> DEFINE n == e.new_live - q + 1
           n1 == MinRentFee * e.new_size * n
<1>1. e.new_size \in Nat /\ e.new_live \in Nat
  BY DEF IsChange
<1>2. n \in Nat /\ n # NoLedgers
  BY <1>1 DEF NoLedgers
<1>3. extension_ledgers(e, q) = n
  BY <1>1 DEF extension_ledgers, exclusive_ledger_diff, AtLeast
<1>4. prepaid_ledgers(e, q) = NoLedgers
  BY DEF prepaid_ledgers
<1> HIDE DEF n
<1>5. n1 \in Nat
  BY <1>1, <1>2, FeesAssumption
<1>6. Rent(e.new_size, e.new_live, q) = n1
  BY DEF Rent, n
<1> HIDE DEF n1
<1>7. n1 + 0 <= I64Max
  BY <1>5, <1>6
<1>8. n1 = MinRentFee * e.new_size * n
  BY DEF n1
<1>9. Worth(e, cfg, q) \in Nat /\ n1 + 0 <= Worth(e, cfg, q)
  BY <1>2, <1>3, <1>4, <1>5, <1>7, <1>8, WorthOfParts
<1> QED BY <1>5, <1>6, <1>9

(* A difference of rents: later ledgers at the new size, earlier ones at   *)
(* the bytes added.                                                        *)
Splits(old, new, a, b, q) ==
    /\ Rent(old, a, q) \in Nat /\ Rent(new, b, q) \in Nat
    /\ MinRentFee * new * (b - a) \in Nat
    /\ MinRentFee * new * (b - a) <= Rent(new, b, q)
    /\ new >= old => /\ MinRentFee * (new - old) * (a - q + 1) \in Nat
                     /\ Rent(new, b, q) = Rent(old, a, q) + MinRentFee * new * (b - a)
                                            + MinRentFee * (new - old) * (a - q + 1)
    /\ new <= old => Rent(new, b, q) <= Rent(old, a, q) + MinRentFee * new * (b - a)

(* The rent of an entry after a change, from the rent before it.           *)
LEMMA RentSplits ==
    ASSUME NEW old \in Nat, NEW new \in Nat, NEW a \in Nat, NEW b \in Nat, NEW q \in Nat,
           a >= q, b >= a
    PROVE  Splits(old, new, a, b, q)
<1> DEFINE n == a - q + 1
           m == b - a
           M == MinRentFee
           mo == M * old
           mn == M * new
<1>1. n \in Nat /\ m \in Nat /\ b - q + 1 = n + m /\ M \in Nat
  BY FeesAssumption
<1> HIDE DEF n, m, M
<1>2. mo \in Nat /\ mn \in Nat
  BY <1>1
<1>3. new >= old => M * (new - old) = mn - mo /\ mn - mo \in Nat
  <2> HAVE new >= old
  <2>1. M * (new - old) = mn - mo
    BY <1>1
  <2>2. M * (new - old) \in Nat
    BY <1>1
  <2> QED BY <2>1, <2>2
<1>4. new <= old => mn <= mo
  BY <1>1, MulGrows
<1> HIDE DEF mo, mn
<1>5. mo * n \in Nat /\ mn * n \in Nat /\ mn * m \in Nat /\ mn * (n + m) = mn * n + mn * m
  BY <1>1, <1>2
<1>6. (mn - mo) * n = mn * n - mo * n
  BY <1>1, <1>2
<1>7. mn <= mo => mn * n <= mo * n
  BY <1>1, <1>2, MulGrows
<1>8. mn - mo \in Nat => (mn - mo) * n \in Nat
  BY <1>1
<1>9. /\ Rent(old, a, q) = mo * n /\ Rent(new, b, q) = mn * (n + m)
      /\ MinRentFee * new * (b - a) = mn * m
      /\ MinRentFee * (new - old) * (a - q + 1) = (M * (new - old)) * n
  <2>1. Rent(old, a, q) = mo * n
    BY DEF Rent, mo, n, M
  <2>2. Rent(new, b, q) = mn * (n + m)
    BY <1>1 DEF Rent, mn, M
  <2> QED BY <2>1, <2>2 DEF mn, m, n, M
<1>10. mn * (n + m) \in Nat
  BY <1>1, <1>2
<1> DEFINE A == mo * n
           B == mn * n
           C == mn * m
           D == (mn - mo) * n
<1>11. A \in Nat /\ B \in Nat /\ C \in Nat /\ D = B - A
  BY <1>5, <1>6
<1>12. CASE new >= old
  <2>1. MinRentFee * (new - old) * (a - q + 1) = D /\ D \in Nat
    BY <1>3, <1>8, <1>9, <1>12
  <2> HIDE DEF A, B, C, D
  <2>2. B + C = A + C + D
    BY <1>11
  <2>3. Rent(new, b, q) = B + C /\ Rent(old, a, q) = A /\ MinRentFee * new * (b - a) = C
    BY <1>5, <1>9 DEF A, B, C
  <2>4. new <= old => B <= A
    BY <1>4, <1>7 DEF A, B
  <2> DEFINE r1 == Rent(new, b, q)
             r2 == Rent(old, a, q)
             r3 == MinRentFee * new * (b - a)
             r4 == MinRentFee * (new - old) * (a - q + 1)
  <2>5. r1 = B + C /\ r2 = A /\ r3 = C /\ r4 = D
    BY <2>1, <2>3
  <2> HIDE DEF r1, r2, r3, r4
  <2>6. /\ r2 \in Nat /\ r1 \in Nat /\ r3 \in Nat /\ r4 \in Nat /\ r3 <= r1
        /\ r1 = r2 + r3 + r4
        /\ new <= old => r1 <= r2 + r3
    BY <1>11, <2>1, <2>2, <2>4, <2>5
  <2> QED BY <2>6 DEF Splits, r1, r2, r3, r4
<1>13. CASE ~(new >= old)
  <2>1. B <= A
    BY <1>4, <1>7, <1>13
  <2> HIDE DEF A, B, C, D
  <2>3. Rent(new, b, q) = B + C /\ Rent(old, a, q) = A /\ MinRentFee * new * (b - a) = C
    BY <1>5, <1>9 DEF A, B, C
  <2> DEFINE r1 == Rent(new, b, q)
             r2 == Rent(old, a, q)
             r3 == MinRentFee * new * (b - a)
  <2>5. r1 = B + C /\ r2 = A /\ r3 = C
    BY <2>3
  <2> HIDE DEF r1, r2, r3
  <2>6. r2 \in Nat /\ r1 \in Nat /\ r3 \in Nat /\ r3 <= r1 /\ r1 <= r2 + r3
    BY <1>11, <2>1, <2>5
  <2> QED BY <1>13, <2>6 DEF Splits, r1, r2, r3
<1> QED BY <1>12, <1>13

(* An entry that is changed pays for what it did not have yet.             *)
LEMMA OldIsCovered ==
    ASSUME NEW cfg, IsRentConfig(cfg), NEW e, IsChange(e), NEW q \in Nat, q >= 1,
           e.old_live >= q, e.new_live >= e.old_live, e.old_live - q + 1 <= U32Max,
           Rent(e.new_size, e.new_live, q) <= I64Max
    PROVE  /\ Worth(e, cfg, q) \in Nat
           /\ Rent(e.new_size, e.new_live, q) <= Rent(e.old_size, e.old_live, q) + Worth(e, cfg, q)
<1> DEFINE old == e.old_size
           new == e.new_size
           a == e.old_live
           b == e.new_live
           n1 == MinRentFee * new * (b - a)
           g == MinRentFee * (new - old) * (a - q + 1)
           n2 == IF new >= old THEN g ELSE 0
           ro == Rent(old, a, q)
           rn == Rent(new, b, q)
           w == Worth(e, cfg, q)
<1>1. old \in Nat /\ new \in Nat /\ a \in Nat /\ b \in Nat
  BY DEF IsChange
<1>2. ~entry_is_new(e)
  BY <1>1 DEF entry_is_new
<1>3. extension_ledgers(e, q) = b - a /\ b - a \in Nat /\ b - a # NoLedgers
  BY <1>1, <1>2 DEF extension_ledgers, exclusive_ledger_diff, NoLedgers
<1>4. prepaid_ledgers(e, q) = a - q + 1 /\ a - q + 1 \in Nat /\ a - q + 1 # NoLedgers
  <2>1. U32Max \in Nat
    BY FeesAssumption
  <2> QED BY <1>1, <1>2, <2>1 DEF prepaid_ledgers, inclusive_ledger_diff, saturating_add, AtMost, NoLedgers
<1>5. /\ new >= old => size_increase(e) = new - old /\ new - old \in Nat /\ new - old # NoLedgers
      /\ ~(new >= old) => size_increase(e) = NoLedgers
  BY <1>1 DEF size_increase, exclusive_ledger_diff, NoLedgers
<1>6. /\ ro \in Nat /\ rn \in Nat /\ n1 \in Nat /\ n1 <= rn
      /\ new >= old => g \in Nat /\ rn = ro + n1 + g
      /\ new <= old => rn <= ro + n1
  <2> HIDE DEF old, new, a, b
  <2>1. a >= q /\ b >= a
    BY DEF a, b
  <2>2. Splits(old, new, a, b, q)
    BY <1>1, <2>1, RentSplits
  <2> QED BY <2>2 DEF Splits
<1>7. rn <= I64Max
  OBVIOUS
<1>8. LET longer == extension_ledgers(e, q) IN
        IF longer = NoLedgers THEN n1 = 0
        ELSE longer \in Nat /\ n1 = MinRentFee * e.new_size * longer
  BY <1>3
<1>9. LET prepaid == prepaid_ledgers(e, q)
          larger == size_increase(e) IN
        IF prepaid = NoLedgers \/ larger = NoLedgers THEN n2 = 0
        ELSE prepaid \in Nat /\ larger \in Nat /\ n2 = MinRentFee * larger * prepaid
  BY <1>4, <1>5
<1> HIDE DEF n1, g, ro, rn, old, new, a, b
<1>10. n2 \in Nat /\ n1 + n2 <= rn /\ rn <= ro + n1 + n2
  <2>1. CASE new >= old
    BY <1>6, <2>1
  <2>2. CASE ~(new >= old)
    BY <1>1, <1>6, <2>2
  <2> QED BY <2>1, <2>2
<1>11. n1 + n2 <= I64Max
  BY <1>6, <1>7, <1>10, FeesAssumption
<1> HIDE DEF n2
<1>12. w \in Nat /\ n1 + n2 <= w
  BY <1>6, <1>8, <1>9, <1>10, <1>11, WorthOfParts
<1> HIDE DEF w
<1>13. rn <= ro + w
  BY <1>6, <1>10, <1>12
<1> QED BY <1>12, <1>13 DEF w, rn, ro, old, new, a, b

-----------------------------------------------------------------------------
(* The network configuration.                                              *)

(* The rent rate is never below the minimum, at any size of the state.     *)
LEMMA RateIsMinimum ==
    ASSUME NEW size \in Nat, NEW cfg \in [target : Nat, low : Int, high : Int, growth : Nat]
    PROVE  /\ compute_rent_write_fee_per_1kb(size, cfg) \in Nat
           /\ MinRentFee <= compute_rent_write_fee_per_1kb(size, cfg)
<1> DEFINE multiplier == clamp_fee(cfg.high - cfg.low)
           target == AtLeast(cfg.target, 1)
           mul == saturating_mul(multiplier, size, I128Max)
           below == clamp_fee(div_ceil(mul, target))
           over == saturating_mul(multiplier, size - cfg.target, I128Max)
           past == saturating_mul(over, cfg.growth, I128Max)
           above == clamp_fee(div_ceil(past, target))
           rate == IF size < cfg.target THEN saturating_add(below, cfg.low, I64Max)
                   ELSE saturating_add(cfg.high, above, I64Max)
<1>1. I64Max \in Nat /\ I128Max \in Nat /\ MinRentFee \in Nat
  BY FeesAssumption
<1>2. cfg.target \in Nat /\ cfg.low \in Int /\ cfg.high \in Int /\ cfg.growth \in Nat
  OBVIOUS
<1>3. \A x \in Int : clamp_fee(x) \in Int
  BY <1>1 DEF clamp_fee, AtMost
<1>4. \A x, y \in Int : saturating_mul(x, y, I128Max) \in Int
  BY <1>1 DEF saturating_mul
<1>5. \A x, y \in Int : saturating_add(x, y, I64Max) \in Int
  BY <1>1 DEF saturating_add, AtMost
<1>6. \A x \in Int : \A y \in Nat \ {0} : div_ceil(x, y) \in Int
  BY DEF div_ceil
<1>7. multiplier \in Int
  BY <1>2, <1>3
<1>8. target \in Nat \ {0}
  BY <1>2 DEF AtLeast
<1> HIDE DEF multiplier, target
<1>9. mul \in Int
  BY <1>4, <1>7
<1>10. over \in Int
  BY <1>2, <1>4, <1>7
<1> HIDE DEF mul, over
<1>11. past \in Int
  BY <1>2, <1>4, <1>10
<1> HIDE DEF past
<1>12. below \in Int
  <2>1. div_ceil(mul, target) \in Int
    BY <1>6, <1>8, <1>9
  <2> QED BY <1>3, <2>1
<1>13. above \in Int
  <2>1. div_ceil(past, target) \in Int
    BY <1>6, <1>8, <1>11
  <2> QED BY <1>3, <2>1
<1> HIDE DEF below, above
<1>14. rate \in Int
  BY <1>2, <1>5, <1>12, <1>13
<1>15. compute_rent_write_fee_per_1kb(size, cfg) = AtLeast(MinRentFee, rate)
  BY DEF compute_rent_write_fee_per_1kb, rate, below, above, mul, over, past, multiplier, target
<1> HIDE DEF rate
<1> QED BY <1>1, <1>14, <1>15 DEF AtLeast

(* The settings in the ledger are all there.                               *)
Complete == \A f \in DOMAIN settings : settings[f] # None

(* What the rent rate depends on.                                          *)
SettingsOK == settings \in AllSettings /\ state_size \in 0..U32Max

(* A network configuration exists exactly when no setting is missing, and  *)
(* then charges at least the minimum rent.                                 *)
LEMMA NetworkIs ==
    ASSUME SettingsOK
    PROVE  /\ ~Complete => network = None
           /\ Complete => /\ IsRentConfig(network.rent)
                          /\ \A k \in Keys : denominator(k) = Divisor(Durability[k] = "Persistent", network.rent)
<1>1. state_size \in Nat /\ state_size <= I64Max
  BY FeesAssumption, RentAssumption DEF SettingsOK
<1>2. CASE ~Complete
  BY <1>2 DEF network, load_from_snapshot, Complete
<1>3. CASE Complete
  <2> DEFINE s == settings
             rate == compute_rent_write_fee_per_1kb(state_size, s.ledger_cost.rent)
  <2>1. ~((\E f \in DOMAIN settings : settings[f] = None) \/ state_size > I64Max)
    BY <1>1, <1>3, FeesAssumption DEF Complete
  <2>2. /\ s.state_archival.persistent_denominator \in Nat \ {0}
        /\ s.state_archival.temporary_denominator \in Nat \ {0}
        /\ s.ledger_cost.rent \in [target : Nat, low : Int, high : Int, growth : Nat]
    BY <1>3, RentAssumption DEF SettingsOK, Complete
  <2>3. rate \in Nat /\ MinRentFee <= rate
    BY <1>1, <2>2, RateIsMinimum
  <2>4. /\ network.rent.per_rent_1kb = rate
        /\ network.rent.persistent_denominator = s.state_archival.persistent_denominator
        /\ network.rent.temporary_denominator = s.state_archival.temporary_denominator
    BY <2>1 DEF network, load_from_snapshot
  <2> HIDE DEF rate
  <2>5. IsRentConfig(network.rent)
    BY <2>2, <2>3, <2>4 DEF IsRentConfig
  <2>6. ASSUME NEW k \in Keys
        PROVE  denominator(k) = Divisor(Durability[k] = "Persistent", network.rent)
    BY <2>4 DEF denominator, Divisor
  <2> QED BY <1>3, <2>5, <2>6
<1> QED BY <1>2, <1>3

-----------------------------------------------------------------------------
(* The size of the ledger state, a sum over a finite set.                  *)

(* A non-empty set of naturals has a least element.                        *)
LEMMA Least ==
    ASSUME NEW T, T \subseteq Nat, T # {}
    PROVE  \E n \in T : \A m \in T : n <= m
<1> DEFINE R == OpToRel(<, Nat)
<1>1. IsWellFoundedOn(R, Nat)
  BY NatLessThanWellFounded
<1> HIDE DEF R
<1>2. PICK x \in T : \A y \in T : ~(<<y, x>> \in R)
  BY <1>1, WFMin
<1>3. \A y \in T : ~(y < x)
  BY <1>2 DEF R, OpToRel
<1> QED BY <1>3

Chosen(s) == CHOOSE x \in s : TRUE

(* g sums what f gives the elements of every set of D, up to top.          *)
Sums(f, D, top, g) ==
    g = [s \in D |-> IF s = {} THEN 0 ELSE saturating_add(f[Chosen(s)], g[s \ {Chosen(s)}], top)]

Parts(S, n) == {s \in SUBSET S : Cardinality(s) <= n}

(* A non-empty finite set loses its chosen element and becomes smaller.    *)
LEMMA WithoutChosen ==
    ASSUME NEW s, IsFiniteSet(s), s # {}
    PROVE  /\ Chosen(s) \in s
           /\ IsFiniteSet(s \ {Chosen(s)})
           /\ Cardinality(s) \in Nat
           /\ Cardinality(s \ {Chosen(s)}) \in Nat
           /\ Cardinality(s \ {Chosen(s)}) = Cardinality(s) - 1
<1>1. Chosen(s) \in s
  BY DEF Chosen
<1>2. /\ IsFiniteSet(s \ {Chosen(s)})
      /\ Cardinality(s \ {Chosen(s)}) = Cardinality(s) - 1
  BY <1>1, FS_RemoveElement
<1>3. Cardinality(s) \in Nat /\ Cardinality(s \ {Chosen(s)}) \in Nat
  BY <1>2, FS_CardinalityType
<1> QED BY <1>1, <1>2, <1>3

(* The sums of the sets of bounded size exist.                             *)
LEMMA PartSumsExist ==
    ASSUME NEW f, NEW top, NEW S, IsFiniteSet(S), NEW n \in Nat
    PROVE  \E g : Sums(f, Parts(S, n), top, g)
<1> DEFINE T == {m \in Nat : ~\E g : Sums(f, Parts(S, m), top, g)}
<1> SUFFICES ASSUME T # {} PROVE FALSE
  OBVIOUS
<1>1. PICK m \in T : \A k \in T : m <= k
  BY Least
<1>2. \A s \in SUBSET S : IsFiniteSet(s) /\ Cardinality(s) \in Nat
  BY FS_Subset, FS_CardinalityType
<1>3. CASE m = 0
  <2>1. \A s \in Parts(S, 0) : s = {}
    BY <1>2, FS_EmptySet DEF Parts
  <2>2. Sums(f, Parts(S, 0), top, [s \in Parts(S, 0) |-> 0])
    BY <2>1 DEF Sums
  <2> QED BY <2>2, <1>3
<1>4. CASE m > 0
  <2>1. m - 1 \in Nat /\ m - 1 \notin T
    BY <1>1, <1>4
  <2>2. PICK g : Sums(f, Parts(S, m - 1), top, g)
    BY <2>1
  <2> DEFINE h == [s \in Parts(S, m) |->
                     IF s = {} THEN 0 ELSE saturating_add(f[Chosen(s)], g[s \ {Chosen(s)}], top)]
  <2>3. \A s \in Parts(S, m) : s # {} => s \ {Chosen(s)} \in Parts(S, m - 1)
    <3> TAKE s \in Parts(S, m)
    <3> HAVE s # {}
    <3>1. IsFiniteSet(s) /\ s \in SUBSET S /\ Cardinality(s) <= m
      BY <1>2 DEF Parts
    <3>2. s \ {Chosen(s)} \in SUBSET S /\ Cardinality(s \ {Chosen(s)}) <= m - 1
      BY <3>1, WithoutChosen
    <3> QED BY <3>2 DEF Parts
  <2>4. \A t \in Parts(S, m - 1) : t \in Parts(S, m)
    BY <1>2 DEF Parts
  <2>5. \A t \in Parts(S, m - 1) : h[t] = g[t]
    BY <2>2, <2>4 DEF Sums
  <2>6. \A s \in Parts(S, m) : s # {} => h[s \ {Chosen(s)}] = g[s \ {Chosen(s)}]
    BY <2>3, <2>5
  <2>7. Sums(f, Parts(S, m), top, h)
    BY <2>6 DEF Sums
  <2> QED BY <2>7
<1> QED BY <1>3, <1>4, <1>1

(* A sum over a finite set of naturals is a natural up to the top.         *)
LEMMA SumFits ==
    ASSUME NEW f, IsFiniteSet(DOMAIN f), \A k \in DOMAIN f : f[k] \in Nat, NEW top \in Nat
    PROVE  SaturatingSum(f, top) \in 0..top
<1> DEFINE S == DOMAIN f
           F == CHOOSE g : Sums(f, SUBSET S, top, g)
<1>3. SaturatingSum(f, top) = F[S]
  BY DEF SaturatingSum, FoldFunction, FoldFunctionOnSet, MapThenFoldSet, Sums, Chosen
<1>1. IsFiniteSet(S) /\ \A k \in S : f[k] \in Nat
  OBVIOUS
<1> HIDE DEF S
<1>4. Cardinality(S) \in Nat
  BY <1>1, FS_CardinalityType
<1>5. Parts(S, Cardinality(S)) = SUBSET S
  BY <1>1, FS_Subset DEF Parts
<1>6. \E g : Sums(f, SUBSET S, top, g)
  <2>1. \E g : Sums(f, Parts(S, Cardinality(S)), top, g)
    BY <1>1, <1>4, PartSumsExist
  <2> QED BY <1>5, <2>1
<1>7. Sums(f, SUBSET S, top, F)
  BY <1>6
<1>8. F[S] \in 0..top
  <2> HIDE DEF F
  <2> DEFINE Wrong == {Cardinality(s) : s \in {s \in SUBSET S : F[s] \notin 0..top}}
  <2>1. \A s \in SUBSET S : IsFiniteSet(s) /\ Cardinality(s) \in Nat
    BY <1>1, FS_Subset, FS_CardinalityType
  <2>2. ASSUME Wrong # {} PROVE FALSE
    <3>1. Wrong \subseteq Nat
      BY <2>1
    <3>2. PICK n \in Wrong : \A m \in Wrong : n <= m
      BY <2>2, <3>1, Least
    <3>3. PICK s \in SUBSET S : F[s] \notin 0..top /\ Cardinality(s) = n
      OBVIOUS
    <3>4. CASE s = {}
      BY <1>7, <3>3, <3>4 DEF Sums
    <3>5. CASE s # {}
      <4> DEFINE t == s \ {Chosen(s)}
      <4>1. Chosen(s) \in s /\ Cardinality(t) = Cardinality(s) - 1 /\ Cardinality(s) \in Nat
        BY <2>1, <3>5, WithoutChosen
      <4>2. t \in SUBSET S /\ Chosen(s) \in S
        BY <4>1
      <4>3. F[s] = saturating_add(f[Chosen(s)], F[t], top)
        BY <1>7, <3>5 DEF Sums
      <4>4. F[t] \in 0..top
        <5>1. Cardinality(t) < n /\ Cardinality(t) \in Nat /\ n \in Nat
          BY <2>1, <3>1, <3>3, <4>1, <4>2
        <5> HIDE DEF t
        <5>2. F[t] \notin 0..top => Cardinality(t) \in Wrong
          BY <4>2
        <5> QED BY <5>1, <5>2, <3>2
      <4>5. f[Chosen(s)] \in Nat
        BY <1>1, <4>2
      <4>6. saturating_add(f[Chosen(s)], F[t], top) \in 0..top
        <5> HIDE DEF t
        <5> QED BY <4>4, <4>5 DEF saturating_add, AtMost
      <4> QED BY <3>3, <4>3, <4>6
    <3> QED BY <3>4, <3>5
  <2> QED BY <2>2
<1> QED BY <1>3, <1>8

(* The sizes of some entries of a ledger add up to a u32.                  *)
LEMMA BytesFit ==
    ASSUME NEW S \in SUBSET Keys, NEW f, \A k \in S : f[k] \in Nat, DOMAIN f = S
    PROVE  SumBytes(f) \in 0..U32Max
<1>1. IsFiniteSet(S)
  BY RentAssumption, FS_Subset
<1>2. U32Max \in Nat
  BY FeesAssumption
<1> QED BY <1>1, <1>2, SumFits DEF SumBytes

(* The size of some contents.                                              *)
LEMMA SizeIsNat ==
    /\ \A v \in Contents : xdr_size(v) \in Nat
    /\ Values \subseteq Contents
<1>1. \A v \in Contents : v.bytes \in Nat /\ v.ext \in Nat
  BY DEF Contents
<1>2. Values \subseteq Contents
  BY RentAssumption
<1> QED BY <1>1, <1>2 DEF xdr_size

(* A ledger whose Soroban entries have values of the right form has a size *)
(* that fits a u32.                                                        *)
LEMMA StateSizeFits ==
    ASSUME NEW l, \A k \in Soroban : Present(l[k]) => l[k].val \in Values
    PROVE  StateSize(l) \in 0..U32Max
<1> DEFINE S == {k \in Soroban : Present(l[k])}
           f == [k \in S |-> xdr_size(l[k].val)]
<1>1. S \in SUBSET Keys
  BY DEF Soroban
<1>2. \A k \in S : f[k] \in Nat
  BY SizeIsNat
<1>3. StateSize(l) = SumBytes(f)
  BY DEF StateSize
<1>4. DOMAIN f = S
  OBVIOUS
<1> HIDE DEF f, S
<1> QED BY <1>1, <1>2, <1>3, <1>4, BytesFit

-----------------------------------------------------------------------------
(* What a program does to the storage of an enforcing host that is built   *)
(* without the recording feature.                                          *)

LiveCell(c, q) ==
    /\ c \in [val : Values, live : Nat]
    /\ c.live >= q /\ c.live - q + 1 <= LongestLife

(* The footprint of an enforcing storage never changes.                    *)
IsStore(s, fp) ==
    /\ s = [footprint |-> fp, map |-> s.map, mode |-> "Enforcing"]
    /\ s.map = [k \in Keys |-> s.map[k]]

(* The cell c of a Soroban key with access a that started as init: a key   *)
(* outside the footprint is never loaded, a read-only one is only          *)
(* extended.                                                               *)
CellOK(c, a, init, q) ==
    /\ a = "NotListed" => c = Unloaded
    /\ a # "NotListed" => c = None \/ LiveCell(c, q)
    /\ a = "ReadOnly" => /\ c = None <=> init = None
                         /\ c # None => /\ LiveCell(init, q)
                                        /\ c.val = init.val /\ c.live >= init.live

StoreOK(s, fp, start, q) ==
    /\ IsStore(s, fp)
    /\ \A k \in Soroban : CellOK(s.map[k], fp[k], start.map[k], q)

(* A call leaves the storage alone, writes a cell it may write, or extends *)
(* one it may read.                                                        *)
Outcome(s, t, k, q) ==
    \/ t = s
    \/ \E cell : /\ t = [s EXCEPT !.map[k] = cell]
                 /\ ~Classic(k) =>
                      \/ s.footprint[k] = "ReadWrite" /\ (cell = None \/ LiveCell(cell, q))
                      \/ /\ s.footprint[k] # "NotListed" /\ s.map[k] # None
                         /\ LiveCell(cell, q)
                         /\ cell.val = s.map[k].val /\ cell.live >= s.map[k].live

(* The cells of a live entry are neither None nor Unloaded.                *)
LEMMA LiveCellExists ==
    ASSUME NEW c, NEW q, LiveCell(c, q)
    PROVE  c # None /\ c # Unloaded /\ Host(q, FALSE)!Exists(c)
<1>1. c \in [val : Values, live : Int]
  BY DEF LiveCell
<1> QED BY <1>1, RentAssumption DEF Host!Exists

(* The parts of a result.                                                  *)
LEMMA ResParts ==
    \A r, x, y, z : r = [s |-> x, err |-> y, out |-> z] => r.s = x /\ r.err = y /\ r.out = z
  OBVIOUS

HasRead(s, k, g) ==
    /\ g.s = s
    /\ g.err = "Ok" => g.out = s.map[k] /\ s.map[k] # Unloaded /\ s.footprint[k] # "NotListed"

HasWritten(s, k, cell, g) ==
    g.s = s \/ (g.s = [s EXCEPT !.map[k] = cell] /\ s.footprint[k] = "ReadWrite")

(* A read of an enforcing storage changes nothing, and succeeds for a      *)
(* listed key only.                                                        *)
LEMMA ReadIs ==
    ASSUME NEW s, NEW fp, IsStore(s, fp), NEW k, NEW q, NEW sn
    PROVE  HasRead(s, k, Host(q, FALSE)!try_get_full(s, k, sn))
<1> DEFINE g == Host(q, FALSE)!try_get_full(s, k, sn)
<1>1. s.mode = "Enforcing"
  BY DEF IsStore
<1> DEFINE e == IF Host(q, FALSE)!enforce_access(s.footprint, k, "ReadOnly") THEN "Ok" ELSE "ExceededLimit"
           p == Host(q, FALSE)!prepare_read_only_access(s, k, sn)
<1>2. p = [s |-> s, err |-> e, out |-> None]
  BY <1>1 DEF Host!prepare_read_only_access, Host!Access2, Host!Res
<1>3. e = "Ok" => s.footprint[k] # "NotListed"
  BY DEF Host!enforce_access
<1>4. g = Host(q, FALSE)!ReadCell(p, k)
  BY DEF Host!try_get_full
<1> HIDE DEF p, e, g
<1>5. p.s = s /\ p.err = e
  BY <1>2, ResParts, Zenon
<1>6. ASSUME e # "Ok" PROVE HasRead(s, k, g)
  <2>1. g = p
    BY <1>4, <1>5, <1>6, Zenon DEF Host!ReadCell
  <2> QED BY <1>5, <1>6, <2>1, Zenon DEF HasRead
<1>7. ASSUME e = "Ok" /\ s.map[k] = Unloaded PROVE HasRead(s, k, g)
  <2>1. g = [s |-> s, err |-> "InternalError", out |-> None]
    BY <1>4, <1>5, <1>7, Zenon DEF Host!ReadCell, Host!Res
  <2>2. g.s = s /\ g.err = "InternalError"
    BY <2>1, ResParts, Zenon
  <2> QED BY <2>2 DEF HasRead
<1>8. ASSUME e = "Ok" /\ s.map[k] # Unloaded PROVE HasRead(s, k, g)
  <2>1. g = [s |-> s, err |-> "Ok", out |-> s.map[k]]
    BY <1>4, <1>5, <1>8, Zenon DEF Host!ReadCell, Host!Res
  <2>2. g.s = s /\ g.out = s.map[k]
    BY <2>1, ResParts, Zenon
  <2> QED BY <1>3, <1>8, <2>2, Zenon DEF HasRead
<1> QED BY <1>6, <1>7, <1>8, Zenon DEF g

(* A write of an enforcing storage needs the read-write access.            *)
LEMMA WriteIs ==
    ASSUME NEW s, NEW fp, IsStore(s, fp), NEW k, NEW q, NEW cell
    PROVE  HasWritten(s, k, cell, Host(q, FALSE)!put_opt(s, k, cell))
<1> DEFINE g == Host(q, FALSE)!put_opt(s, k, cell)
<1>1. s.mode = "Enforcing"
  BY DEF IsStore
<1> DEFINE h == Host(q, FALSE)!handle_maybe_expired_entry(s, k)
           e == IF Host(q, FALSE)!enforce_access(s.footprint, k, "ReadWrite") THEN "Ok" ELSE "ExceededLimit"
           a == Host(q, FALSE)!Access2(s, k, "ReadWrite")
<1>2. h = [s |-> s, err |-> "Ok", out |-> None]
  BY Zenon DEF Host!handle_maybe_expired_entry, Host!Res
<1>3. a = [s |-> s, err |-> e, out |-> None]
  BY <1>1 DEF Host!Access2, Host!Res
<1>4. e = "Ok" => s.footprint[k] = "ReadWrite"
  BY DEF Host!enforce_access
<1>5. g = IF h.err # "Ok" THEN h
          ELSE IF Host(q, FALSE)!Access2(h.s, k, "ReadWrite").err # "Ok"
               THEN Host(q, FALSE)!Access2(h.s, k, "ReadWrite")
          ELSE Host(q, FALSE)!Res([Host(q, FALSE)!Access2(h.s, k, "ReadWrite").s EXCEPT !.map[k] = cell], "Ok", None)
  BY Zenon DEF Host!put_opt
<1>6. h.err = "Ok" /\ h.s = s
  BY <1>2, ResParts, Zenon
<1>7. g = IF a.err # "Ok" THEN a ELSE Host(q, FALSE)!Res([a.s EXCEPT !.map[k] = cell], "Ok", None)
  BY <1>5, <1>6, Zenon
<1>8. a.s = s /\ a.err = e
  BY <1>3, ResParts, Zenon
<1> DEFINE t == [s EXCEPT !.map[k] = cell]
<1>9. g = IF e # "Ok" THEN a ELSE [s |-> t, err |-> "Ok", out |-> None]
  BY <1>7, <1>8, Zenon DEF Host!Res
<1> HIDE DEF t, a, e, g
<1>10. ASSUME e = "Ok" PROVE HasWritten(s, k, cell, g)
  <2>1. g = [s |-> t, err |-> "Ok", out |-> None]
    BY <1>9, <1>10, Zenon
  <2>2. g.s = t
    BY <2>1, ResParts, Zenon
  <2> QED BY <1>4, <1>10, <2>2, Zenon DEF t, HasWritten
<1>11. ASSUME e # "Ok" PROVE HasWritten(s, k, cell, g)
  BY <1>8, <1>9, <1>11, Zenon DEF HasWritten
<1> QED BY <1>10, <1>11, Zenon DEF g

(* The TTL bounds reach no further than the longest life.                  *)
LEMMA TtlBounds ==
    ASSUME NEW q \in Nat
    PROVE  /\ LongestLife \in Nat /\ LongestLife >= 1 /\ LongestLife >= MaxTtl
           /\ \A d : LET m == Host(q, FALSE)!min_live_until_ledger(d) IN
                     m \in Nat /\ m >= q /\ m - q + 1 <= LongestLife
           /\ LET m == Host(q, FALSE)!max_live_until_ledger IN
                     m \in Nat /\ m >= q /\ m - q + 1 <= LongestLife
<1>1. MinTempTtl \in Nat /\ MinPersistentTtl \in Nat /\ MaxTtl \in Nat
  BY RentAssumption, FeesAssumption
<1>2. /\ LongestLife \in Nat /\ LongestLife >= 1
      /\ LongestLife >= MinTempTtl /\ LongestLife >= MinPersistentTtl /\ LongestLife >= MaxTtl
  BY <1>1 DEF LongestLife, AtLeast
<1>3. ASSUME NEW x \in Nat, x <= LongestLife
      PROVE  LET m == q + (IF x >= 1 THEN x - 1 ELSE 0) IN m \in Nat /\ m >= q /\ m - q + 1 <= LongestLife
  BY <1>2, <1>3
<1>4. ASSUME NEW d
      PROVE  LET m == Host(q, FALSE)!min_live_until_ledger(d) IN
             m \in Nat /\ m >= q /\ m - q + 1 <= LongestLife
  <2> DEFINE x == IF d = "Temporary" THEN MinTempTtl ELSE MinPersistentTtl
  <2>1. x \in Nat /\ x <= LongestLife
    BY <1>1, <1>2
  <2>2. Host(q, FALSE)!min_live_until_ledger(d) = q + (IF x >= 1 THEN x - 1 ELSE 0)
    BY DEF Host!min_live_until_ledger, Host!saturating_sub
  <2> HIDE DEF x
  <2> QED BY <1>3, <2>1, <2>2
<1>5. LET m == Host(q, FALSE)!max_live_until_ledger IN m \in Nat /\ m >= q /\ m - q + 1 <= LongestLife
  <2>1. Host(q, FALSE)!max_live_until_ledger = q + (IF MaxTtl >= 1 THEN MaxTtl - 1 ELSE 0)
    BY DEF Host!max_live_until_ledger, Host!saturating_sub
  <2> QED BY <1>1, <1>2, <1>3, <2>1
<1> QED BY <1>2, <1>4, <1>5

(* The cell of a key before a call.                                        *)
Loaded(s, k, q) ==
    ~Classic(k) /\ s.footprint[k] # "NotListed" => s.map[k] = None \/ LiveCell(s.map[k], q)

(* A write of a good cell is a good outcome.                               *)
LEMMA WriteOutcome ==
    ASSUME NEW s, NEW fp, IsStore(s, fp), NEW k, NEW q, NEW cell,
           ~Classic(k) => cell = None \/ LiveCell(cell, q)
    PROVE  Outcome(s, Host(q, FALSE)!put_opt(s, k, cell).s, k, q)
<1> DEFINE g == Host(q, FALSE)!put_opt(s, k, cell)
<1>1. HasWritten(s, k, cell, g)
  BY WriteIs
<1> HIDE DEF g
<1>2. Outcome(s, g.s, k, q)
  BY <1>1, Zenon DEF Outcome, HasWritten
<1> QED BY <1>2 DEF g

(* Host::put_contract_data_into_ledger.                                    *)
LEMMA PutOutcome ==
    ASSUME NEW s, NEW fp, IsStore(s, fp), NEW k, NEW q \in Nat, Loaded(s, k, q), NEW v \in Values, NEW sn
    PROVE  Outcome(s, Host(q, FALSE)!put_contract_data(s, k, v, sn).s, k, q)
<1> DEFINE g == Host(q, FALSE)!try_get_full(s, k, sn)
           live == Host(q, FALSE)!min_live_until_ledger(Durability[k])
           r == Host(q, FALSE)!put_contract_data(s, k, v, sn)
           old == [g.out EXCEPT !.val = v]
           new == [val |-> v, live |-> live]
<1>1. r = IF g.err # "Ok" THEN g
          ELSE IF g.out # None THEN Host(q, FALSE)!put_opt(g.s, k, old)
          ELSE IF ~Host(q, FALSE)!Fits(live) THEN Host(q, FALSE)!Res(g.s, "InternalError", None)
          ELSE Host(q, FALSE)!put_opt(g.s, k, new)
  BY Zenon DEF Host!put_contract_data
<1>2. /\ g.s = s
      /\ g.err = "Ok" => g.out = s.map[k] /\ s.map[k] # Unloaded /\ s.footprint[k] # "NotListed"
  <2>1. HasRead(s, k, g)
    BY ReadIs
  <2> HIDE DEF g
  <2> QED BY <2>1, Zenon DEF HasRead
<1>3. live \in Nat /\ live >= q /\ live - q + 1 <= LongestLife
  BY TtlBounds
<1> HIDE DEF g, r, live
<1>4. CASE g.err # "Ok"
  BY <1>1, <1>2, <1>4, Zenon DEF Outcome, r
<1>5. CASE g.err = "Ok" /\ g.out # None
  <2>1. ~Classic(k) => LiveCell(g.out, q)
    BY <1>2, <1>5, Zenon DEF Loaded
  <2>2. ~Classic(k) => LiveCell(old, q)
    BY <2>1 DEF LiveCell
  <2>3. r = Host(q, FALSE)!put_opt(s, k, old)
    BY <1>1, <1>2, <1>5, Zenon
  <2> HIDE DEF old
  <2> QED BY <2>2, <2>3, WriteOutcome, Zenon DEF r
<1>6. CASE g.err = "Ok" /\ g.out = None /\ ~Host(q, FALSE)!Fits(live)
  <2>1. r = [s |-> s, err |-> "InternalError", out |-> None]
    BY <1>1, <1>2, <1>6, Zenon DEF Host!Res
  <2>2. r.s = s
    BY <2>1, ResParts, Zenon
  <2> QED BY <2>2, Zenon DEF Outcome, r
<1>7. CASE g.err = "Ok" /\ g.out = None /\ Host(q, FALSE)!Fits(live)
  <2>1. LiveCell(new, q)
    BY <1>3 DEF LiveCell
  <2>2. r = Host(q, FALSE)!put_opt(s, k, new)
    BY <1>1, <1>2, <1>7, Zenon
  <2> HIDE DEF new
  <2> QED BY <2>1, <2>2, WriteOutcome, Zenon DEF r
<1> QED BY <1>4, <1>5, <1>6, <1>7, Zenon

(* Host::upload_contract_wasm.                                             *)
LEMMA UploadOutcome ==
    ASSUME NEW s, NEW fp, IsStore(s, fp), NEW k, NEW q \in Nat, NEW v \in Values, NEW sn
    PROVE  Outcome(s, Host(q, FALSE)!upload_contract_wasm(s, k, v, sn).s, k, q)
<1> DEFINE g == Host(q, FALSE)!try_get_full(s, k, sn)
           live == Host(q, FALSE)!min_live_until_ledger("Persistent")
           r == Host(q, FALSE)!upload_contract_wasm(s, k, v, sn)
           new == [val |-> v, live |-> live]
           same == Host(q, FALSE)!Exists(g.out) /\ g.out.val = v
           fits == Host(q, FALSE)!Fits(live)
<1>1. r = IF g.err # "Ok" THEN g
          ELSE IF same THEN Host(q, FALSE)!Res(g.s, "Ok", None)
          ELSE IF ~fits THEN Host(q, FALSE)!Res(g.s, "InternalError", None)
          ELSE Host(q, FALSE)!put_opt(g.s, k, new)
  BY Zenon DEF Host!upload_contract_wasm
<1>2. g.s = s
  <2>1. HasRead(s, k, g)
    BY ReadIs
  <2> HIDE DEF g
  <2> QED BY <2>1, Zenon DEF HasRead
<1>3. live \in Nat /\ live >= q /\ live - q + 1 <= LongestLife
  BY TtlBounds
<1> HIDE DEF g, r, live, same, fits
<1>4. CASE g.err # "Ok"
  BY <1>1, <1>2, <1>4, Zenon DEF Outcome, r
<1>5. CASE g.err = "Ok" /\ same
  <2>1. r = [s |-> s, err |-> "Ok", out |-> None]
    BY <1>1, <1>2, <1>5, Zenon DEF Host!Res
  <2>2. r.s = s
    BY <2>1, ResParts, Zenon
  <2> QED BY <2>2, Zenon DEF Outcome, r
<1>6. CASE g.err = "Ok" /\ ~same /\ ~fits
  <2>1. r = [s |-> s, err |-> "InternalError", out |-> None]
    BY <1>1, <1>2, <1>6, Zenon DEF Host!Res
  <2>2. r.s = s
    BY <2>1, ResParts, Zenon
  <2> QED BY <2>2, Zenon DEF Outcome, r
<1>7. CASE g.err = "Ok" /\ ~same /\ fits
  <2>1. LiveCell(new, q)
    BY <1>3 DEF LiveCell
  <2>2. r = Host(q, FALSE)!put_opt(s, k, new)
    BY <1>1, <1>2, <1>7, Zenon
  <2> HIDE DEF new
  <2> QED BY <2>1, <2>2, WriteOutcome, Zenon DEF r
<1> QED BY <1>4, <1>5, <1>6, <1>7, Zenon

(* A read that fails on an absent entry changes nothing either.            *)
LEMMA MustReadIs ==
    ASSUME NEW s, NEW fp, IsStore(s, fp), NEW k, NEW q, NEW sn
    PROVE  /\ HasRead(s, k, Host(q, FALSE)!get_with_live_until_ledger(s, k, sn))
           /\ Host(q, FALSE)!get_with_live_until_ledger(s, k, sn).err = "Ok" => s.map[k] # None
<1> DEFINE g == Host(q, FALSE)!try_get_full(s, k, sn)
           r == Host(q, FALSE)!get_with_live_until_ledger(s, k, sn)
<1>1. r = IF g.err = "Ok" /\ g.out = None THEN Host(q, FALSE)!Res(g.s, "MissingValue", None) ELSE g
  BY Zenon DEF Host!get_with_live_until_ledger, Host!OrMissing
<1>2. HasRead(s, k, g)
  BY ReadIs
<1> HIDE DEF g, r
<1>3. CASE g.err = "Ok" /\ g.out = None
  <2>1. r = [s |-> s, err |-> "MissingValue", out |-> None]
    BY <1>1, <1>2, <1>3, Zenon DEF Host!Res, HasRead
  <2>2. r.s = s /\ r.err = "MissingValue"
    BY <2>1, ResParts, Zenon
  <2>3. r.err # "Ok"
    BY <2>2
  <2> QED BY <2>2, <2>3, Zenon DEF HasRead, r
<1>4. CASE ~(g.err = "Ok" /\ g.out = None)
  BY <1>1, <1>2, <1>4, Zenon DEF HasRead, r
<1> QED BY <1>3, <1>4, Zenon

(* The asset contract writes classic entries only.                         *)
LEMMA CreditOutcome ==
    ASSUME NEW s, NEW fp, IsStore(s, fp), NEW k, Classic(k), NEW q, NEW v, NEW sn
    PROVE  Outcome(s, Host(q, FALSE)!put_classic_entry(s, k, v, sn).s, k, q)
<1> DEFINE g == Host(q, FALSE)!get_with_live_until_ledger(s, k, sn)
           r == Host(q, FALSE)!put_classic_entry(s, k, v, sn)
           new == [val |-> v, live |-> Host(q, FALSE)!NoTtl]
<1>1. r = IF g.err # "Ok" THEN g ELSE Host(q, FALSE)!put_opt(g.s, k, new)
  BY Zenon DEF Host!put_classic_entry
<1>2. g.s = s
  <2>1. HasRead(s, k, g)
    BY MustReadIs
  <2> HIDE DEF g
  <2> QED BY <2>1, Zenon DEF HasRead
<1> HIDE DEF g, r, new
<1>3. CASE g.err # "Ok"
  BY <1>1, <1>2, <1>3, Zenon DEF Outcome, r
<1>4. CASE g.err = "Ok"
  <2>1. r = Host(q, FALSE)!put_opt(s, k, new)
    BY <1>1, <1>2, <1>4, Zenon
  <2> QED BY <2>1, WriteOutcome, Zenon DEF r
<1> QED BY <1>3, <1>4, Zenon

(* A delete writes an absent cell.                                         *)
LEMMA DelOutcome ==
    ASSUME NEW s, NEW fp, IsStore(s, fp), NEW k, NEW q
    PROVE  Outcome(s, Host(q, FALSE)!del_contract_data(s, k).s, k, q)
<1>1. Host(q, FALSE)!del_contract_data(s, k) = Host(q, FALSE)!put_opt(s, k, None)
  BY Zenon DEF Host!del_contract_data
<1>2. Outcome(s, Host(q, FALSE)!put_opt(s, k, None).s, k, q)
  BY WriteOutcome, Zenon
<1> QED BY <1>1, <1>2, Zenon

(* Storage::extend_ttl only moves the live-until ledger of an entry the    *)
(* footprint lists, and only further.                                      *)
LEMMA ExtendOutcome ==
    ASSUME NEW s, NEW fp, IsStore(s, fp), NEW k, NEW q \in Nat, Loaded(s, k, q), NEW n \in Nat, NEW sn
    PROVE  Outcome(s, Host(q, FALSE)!extend_ttl(s, k, n, n, sn).s, k, q)
<1> DEFINE h == Host(q, FALSE)!handle_maybe_expired_entry(s, k)
           Get(t) == Host(q, FALSE)!get_with_live_until_ledger(t, k, sn)
           top == Host(q, FALSE)!max_live_until_ledger
           asked == q + n
           past == asked > top
           new == IF past THEN top ELSE asked
           Bad(g) == \/ g.out.live = Host(q, FALSE)!NoTtl
                     \/ g.out.live < q
                     \/ ~Host(q, FALSE)!Fits(asked)
                     \/ ~Host(q, FALSE)!Fits(top)
           far == past /\ Durability[k] = "Temporary"
           Due(g) == new > g.out.live /\ Host(q, FALSE)!saturating_sub(g.out.live, q) <= n
           Cell(g) == [g.out EXCEPT !.live = new]
           Then(g) == IF g.err # "Ok" THEN g
                      ELSE IF Bad(g) THEN Host(q, FALSE)!Res(g.s, "InternalError", None)
                      ELSE IF far THEN Host(q, FALSE)!Res(g.s, "InvalidAction", None)
                      ELSE IF Due(g) THEN Host(q, FALSE)!Res([g.s EXCEPT !.map[k] = Cell(g)], "Ok", None)
                      ELSE Host(q, FALSE)!Res(g.s, "Ok", None)
           r == Host(q, FALSE)!extend_ttl(s, k, n, n, sn)
           g0 == Get(s)
<1>1. h = [s |-> s, err |-> "Ok", out |-> None]
  BY Zenon DEF Host!handle_maybe_expired_entry, Host!Res
<1>2. h.err = "Ok" /\ h.s = s
  BY <1>1, ResParts, Zenon
<1>3. ~(n > n)
  OBVIOUS
<1>4. r = IF n > n THEN Host(q, FALSE)!Res(s, "InvalidInput", None)
          ELSE IF h.err # "Ok" THEN h ELSE Then(Get(h.s))
  BY Zenon DEF Host!extend_ttl
<1>5. HasRead(s, k, g0) /\ (g0.err = "Ok" => s.map[k] # None)
  BY MustReadIs
<1>6. top \in Nat /\ top >= q /\ top - q + 1 <= LongestLife
  BY TtlBounds
<1> HIDE DEF h, Get, Then, r
<1>7. r = Then(g0)
  BY <1>2, <1>3, <1>4, Zenon
<1> HIDE DEF g0, top
<1>8. new \in Nat /\ new >= q /\ new - q + 1 <= LongestLife
  <2>1. LongestLife \in Nat
    BY TtlBounds
  <2> QED BY <1>6, <2>1
<1>9. g0.s = s
  BY <1>5, Zenon DEF HasRead
<1> HIDE DEF Bad, Due, Cell, far, new
<1>10. \/ r = g0
       \/ \E e : r = [s |-> s, err |-> e, out |-> None]
       \/ g0.err = "Ok" /\ Due(g0) /\ r = [s |-> [s EXCEPT !.map[k] = Cell(g0)], err |-> "Ok", out |-> None]
  BY <1>7, <1>9, Zenon DEF Then, Host!Res
<1>11. ASSUME r = g0 PROVE Outcome(s, r.s, k, q)
  BY <1>9, <1>11, Zenon DEF Outcome
<1>12. ASSUME NEW e, r = [s |-> s, err |-> e, out |-> None] PROVE Outcome(s, r.s, k, q)
  <2>1. r.s = s
    BY <1>12, ResParts, Zenon
  <2> QED BY <2>1, Zenon DEF Outcome
<1>13. ASSUME g0.err = "Ok", Due(g0), r = [s |-> [s EXCEPT !.map[k] = Cell(g0)], err |-> "Ok", out |-> None]
       PROVE  Outcome(s, r.s, k, q)
  <2> DEFINE c == s.map[k]
             d == Cell(g0)
  <2>1. r.s = [s EXCEPT !.map[k] = d]
    BY <1>13, ResParts, Zenon
  <2>2. g0.out = c /\ c # Unloaded /\ s.footprint[k] # "NotListed" /\ c # None
    BY <1>5, <1>13, Zenon DEF HasRead
  <2>3. ~Classic(k) => LiveCell(c, q)
    BY <2>2, Zenon DEF Loaded
  <2>4. d = [c EXCEPT !.live = new] /\ new > c.live
    BY <1>13, <2>2, Zenon DEF Cell, Due
  <2> HIDE DEF c, d
  <2>5. ~Classic(k) => LiveCell(d, q) /\ d.val = c.val /\ d.live >= c.live
    BY <1>8, <2>3, <2>4 DEF LiveCell
  <2> QED BY <2>1, <2>2, <2>5, Zenon DEF Outcome, c
<1> QED BY <1>10, <1>11, <1>12, <1>13, Zenon DEF r

(* Every call of a program has a good outcome.                             *)
LEMMA DoOutcome ==
    ASSUME NEW s, NEW fp, IsStore(s, fp), NEW c, Call(c), NEW q \in Nat, Loaded(s, c.k, q), NEW sn
    PROVE  Outcome(s, Do(s, c, sn, q, FALSE).s, c.k, q)
<1> DEFINE k == c.k
           r == Do(s, c, sn, q, FALSE)
<1>1. CASE c.op = "get"
  <2>1. r = Host(q, FALSE)!try_get_full(s, k, sn)
    BY <1>1 DEF Do
  <2>2. HasRead(s, k, Host(q, FALSE)!try_get_full(s, k, sn))
    BY ReadIs
  <2>3. HasRead(s, k, r)
    BY <2>1, <2>2, Zenon
  <2> HIDE DEF r
  <2> QED BY <2>3, Zenon DEF HasRead, Outcome, r
<1>2. CASE c.op = "put"
  <2>1. r = Host(q, FALSE)!put_contract_data(s, k, c.arg, sn) /\ c.arg \in Values
    BY <1>2 DEF Do, Call
  <2>2. Outcome(s, Host(q, FALSE)!put_contract_data(s, k, c.arg, sn).s, k, q)
    BY <2>1, PutOutcome
  <2> QED BY <2>1, <2>2, Zenon
<1>3. CASE c.op = "del"
  <2>1. r = Host(q, FALSE)!del_contract_data(s, k)
    BY <1>3 DEF Do
  <2>2. Outcome(s, Host(q, FALSE)!del_contract_data(s, k).s, k, q)
    BY DelOutcome
  <2> QED BY <2>1, <2>2, Zenon
<1>4. CASE c.op = "extend"
  <2>1. r = Host(q, FALSE)!extend_ttl(s, k, c.arg, c.arg, sn) /\ c.arg \in Nat
    BY <1>4 DEF Do, Call
  <2>2. Outcome(s, Host(q, FALSE)!extend_ttl(s, k, c.arg, c.arg, sn).s, k, q)
    BY <2>1, ExtendOutcome
  <2> QED BY <2>1, <2>2, Zenon
<1>5. CASE c.op = "upload"
  <2>1. r = Host(q, FALSE)!upload_contract_wasm(s, k, c.arg, sn) /\ c.arg \in Values
    BY <1>5 DEF Do, Call
  <2>2. Outcome(s, Host(q, FALSE)!upload_contract_wasm(s, k, c.arg, sn).s, k, q)
    BY <2>1, UploadOutcome
  <2> QED BY <2>1, <2>2, Zenon
<1>6. CASE c.op = "credit"
  <2>1. r = Host(q, FALSE)!put_classic_entry(s, k, c.arg, sn) /\ Classic(k)
    BY <1>6 DEF Do, Call
  <2>2. Outcome(s, Host(q, FALSE)!put_classic_entry(s, k, c.arg, sn).s, k, q)
    BY <2>1, CreditOutcome
  <2> QED BY <2>1, <2>2, Zenon
<1> QED BY <1>1, <1>2, <1>3, <1>4, <1>5, <1>6, Zenon DEF Call

IsSet(s, t, k, cell, fp) ==
    IsStore(t, fp) /\ t.map[k] = cell /\ \A j \in Keys : j # k => t.map[j] = s.map[j]

(* Writing a cell of the map changes that cell and nothing else.           *)
LEMMA SetCell ==
    ASSUME NEW s, NEW fp, IsStore(s, fp), NEW k \in Keys, NEW cell, NEW t, t = [s EXCEPT !.map[k] = cell]
    PROVE  IsSet(s, t, k, cell, fp)
<1> DEFINE m == s.map
           n == [m EXCEPT ![k] = cell]
<1>1. s = [footprint |-> fp, map |-> m, mode |-> "Enforcing"] /\ m = [j \in Keys |-> m[j]]
  BY DEF IsStore
<1>2. t = [s EXCEPT !.map = n]
  BY Zenon
<1> HIDE DEF m
<1>3. n = [j \in Keys |-> n[j]] /\ n[k] = cell /\ \A j \in Keys : j # k => n[j] = m[j]
  BY <1>1
<1> HIDE DEF n
<1>4. t = [footprint |-> fp, map |-> n, mode |-> "Enforcing"]
  BY <1>1, <1>2
<1>5. t.map = n
  BY <1>4
<1> QED BY <1>3, <1>4, <1>5 DEF IsSet, IsStore, m

(* A good outcome keeps the storage in order.                              *)
LEMMA OutcomeKeeps ==
    ASSUME NEW s, NEW fp, NEW start, NEW q, StoreOK(s, fp, start, q),
           NEW k \in Keys, NEW t, Outcome(s, t, k, q)
    PROVE  StoreOK(t, fp, start, q)
<1>1. CASE t = s
  BY <1>1, Zenon
<1>2. CASE t # s
  <2>1. PICK cell : /\ t = [s EXCEPT !.map[k] = cell]
                    /\ ~Classic(k) =>
                         \/ s.footprint[k] = "ReadWrite" /\ (cell = None \/ LiveCell(cell, q))
                         \/ /\ s.footprint[k] # "NotListed" /\ s.map[k] # None
                            /\ LiveCell(cell, q)
                            /\ cell.val = s.map[k].val /\ cell.live >= s.map[k].live
    BY <1>2, Zenon DEF Outcome
  <2>2. IsStore(s, fp)
    BY DEF StoreOK
  <2>3. IsStore(t, fp) /\ t.map[k] = cell /\ \A j \in Keys : j # k => t.map[j] = s.map[j]
    <3>1. IsSet(s, t, k, cell, fp)
      BY <2>1, <2>2, SetCell, Zenon
    <3> QED BY <3>1, Zenon DEF IsSet
  <2>4. s.footprint = fp
    BY <2>2 DEF IsStore
  <2>5. ASSUME NEW j \in Soroban
        PROVE  CellOK(t.map[j], fp[j], start.map[j], q)
    <3>1. j \in Keys /\ ~Classic(j) /\ CellOK(s.map[j], fp[j], start.map[j], q)
      BY DEF StoreOK, Soroban
    <3>2. CASE j # k
      BY <2>3, <3>1, <3>2, Zenon
    <3>3. CASE j = k
      <4> DEFINE c == s.map[k]
                 a == fp[k]
                 init == start.map[k]
      <4>1. CellOK(c, a, init, q) /\ t.map[j] = cell
        BY <2>3, <3>1, <3>3
      <4>2. \/ a = "ReadWrite" /\ (cell = None \/ LiveCell(cell, q))
            \/ /\ a # "NotListed" /\ c # None /\ LiveCell(cell, q)
               /\ cell.val = c.val /\ cell.live >= c.live
        BY <2>1, <2>4, <3>1, <3>3, Zenon
      <4> HIDE DEF c, a, init
      <4>3. CASE a = "ReadWrite" /\ (cell = None \/ LiveCell(cell, q))
        <5>1. CellOK(cell, a, init, q)
          BY <4>3 DEF CellOK
        <5> QED BY <3>3, <4>1, <5>1 DEF a, init
      <4>4. CASE /\ a # "NotListed" /\ c # None /\ LiveCell(cell, q)
                 /\ cell.val = c.val /\ cell.live >= c.live
        <5>1. cell # None
          BY <4>4, LiveCellExists
        <5>2. a = "ReadOnly" => init # None /\ LiveCell(init, q) /\ c.val = init.val /\ c.live >= init.live
          BY <4>1, <4>4, Zenon DEF CellOK
        <5>3. a = "ReadOnly" => cell.live >= init.live
          <6> HAVE a = "ReadOnly"
          <6>1. LiveCell(c, q)
            BY <4>1, <4>4, Zenon DEF CellOK
          <6>2. c.live \in Nat /\ cell.live \in Nat /\ init.live \in Nat
            BY <4>4, <5>2, <6>1 DEF LiveCell
          <6> QED BY <4>4, <5>2, <6>2
        <5>4. CellOK(cell, a, init, q)
          BY <4>4, <5>1, <5>2, <5>3, Zenon DEF CellOK
        <5> QED BY <3>3, <4>1, <5>4 DEF a, init
      <4> QED BY <4>2, <4>3, <4>4
    <3> QED BY <3>2, <3>3
  <2> QED BY <2>3, <2>5 DEF StoreOK
<1> QED BY <1>1, <1>2

(* An instruction depends on the state before it and, when a sub-call      *)
(* ends, on the one the sub-call began in.                                 *)
LEMMA SameInstruction ==
    ASSUME NEW f, NEW g, NEW i, NEW c, NEW sn, NEW q, NEW b, f[i - 1] = g[i - 1],
           c.op = "end_try" => f[c.arg] = g[c.arg]
    PROVE  Instruction(f, i, c, sn, q, b) = Instruction(g, i, c, sn, q, b)
<1>1. CASE c.op = "end_try"
  BY <1>1, Zenon DEF Instruction
<1>2. CASE c.op # "end_try"
  BY <1>2, Zenon DEF Instruction
<1> QED BY <1>1, <1>2

(* The instructions of a program are calls, failures and ends of           *)
(* sub-calls.                                                              *)
LEMMA InstructionOf ==
    ASSUME NEW prog, Program(prog), NEW i \in 1..Len(prog)
    PROVE  \/ Call(prog[i]) /\ prog[i].k \in Keys /\ prog[i].op \notin {"fail", "end_try"}
           \/ prog[i].op = "fail"
           \/ prog[i].op = "end_try" /\ prog[i].arg \in 0..(i - 1)
  BY DEF Program, Call

(* The sub-call ended that y is the state after failed: y has the map of   *)
(* before, its beginning, and the footprint of x, its end.                 *)
Undone(before, x, y) ==
    /\ x.err # "Ok"
    /\ y.s = [x.s EXCEPT !.map = before.s.map]
    /\ y.err = IF Host(0, TRUE)!IsRecoverable(x.err) THEN before.err ELSE x.err

(* y is the state after the instruction c in the state x, when before is   *)
(* the state the sub-call began in that c ends.                            *)
Steps(before, x, c, y, sn, q, b) ==
    \/ y = x /\ (x.err = "Ok" <=> c.op = "end_try")
    \/ x.err = "Ok" /\ y.s = x.s /\ y.err = "ContractError" /\ c.op = "fail"
    \/ x.err = "Ok" /\ y = Do(x.s, c, sn, q, b) /\ Call(c) /\ c.k \in Keys
    \/ Undone(before, x, y) /\ c.op = "end_try"

(* So it is for every instruction of a program.                            *)
LEMMA InstructionIs ==
    ASSUME NEW prog, Program(prog), NEW i \in 1..Len(prog), NEW f, NEW sn, NEW q, NEW b
    PROVE  Steps(f[prog[i].arg], f[i - 1], prog[i], Instruction(f, i, prog[i], sn, q, b), sn, q, b)
<1> DEFINE c == prog[i]
           x == f[i - 1]
           y == Instruction(f, i, c, sn, q, b)
<1>1. \/ Call(c) /\ c.k \in Keys /\ c.op \notin {"fail", "end_try"}
      \/ c.op = "fail"
      \/ c.op = "end_try" /\ c.arg \in 0..(i - 1)
  BY InstructionOf
<1>2. y = IF c.op = "end_try" THEN try_call(f[c.arg], x)
          ELSE IF x.err # "Ok" THEN x
          ELSE IF c.op = "fail" THEN [s |-> x.s, err |-> "ContractError", out |-> None]
          ELSE Do(x.s, c, sn, q, b)
  BY DEF Instruction
<1> HIDE DEF c, x, y
<1>3. CASE c.op = "end_try"
  <2> DEFINE z == f[c.arg]
  <2>1. y = try_call(z, x)
    BY <1>2, <1>3
  <2> HIDE DEF z
  <2>2. CASE x.err = "Ok"
    <3>1. y = x
      BY <2>1, <2>2 DEF try_call
    <3>2. Steps(z, x, c, y, sn, q, b)
      BY <1>3, <2>2, <3>1 DEF Steps
    <3> QED BY <3>2 DEF z, c, x, y
  <2>3. CASE x.err # "Ok"
    <3>1. y = [s |-> [x.s EXCEPT !.map = z.s.map],
               err |-> IF Host(0, TRUE)!IsRecoverable(x.err) THEN z.err ELSE x.err, out |-> None]
      BY <2>1, <2>3 DEF try_call
    <3>2. Undone(z, x, y)
      BY <2>3, <3>1 DEF Undone
    <3> QED BY <1>3, <3>2 DEF Steps, z, c, x, y
  <2> QED BY <2>2, <2>3
<1>4. CASE c.op # "end_try" /\ x.err # "Ok"
  <2>1. y = x
    BY <1>2, <1>4, Zenon
  <2> QED BY <1>4, <2>1 DEF Steps, c, x, y
<1>5. CASE c.op = "fail" /\ x.err = "Ok"
  <2>1. y = [s |-> x.s, err |-> "ContractError", out |-> None]
    BY <1>2, <1>5
  <2>2. y.s = x.s /\ y.err = "ContractError"
    BY <2>1
  <2> QED BY <1>5, <2>2 DEF Steps, c, x, y
<1>6. CASE c.op \notin {"fail", "end_try"} /\ x.err = "Ok"
  <2>1. y = Do(x.s, c, sn, q, b)
    BY <1>2, <1>6
  <2> QED BY <1>1, <1>6, <2>1 DEF Steps, c, x, y
<1> QED BY <1>3, <1>4, <1>5, <1>6

(* The results f of the first n instructions of a program.                 *)
Runs(start, prog, sn, q, b, f, n) ==
    f = [i \in 0..n |-> IF i = 0 THEN [s |-> start, err |-> "Ok", out |-> None]
                        ELSE Instruction(f, i, prog[i], sn, q, b)]

(* They exist.                                                             *)
LEMMA RunsExist ==
    ASSUME NEW start, NEW prog, Program(prog), NEW sn, NEW q, NEW b, NEW n \in 0..Len(prog)
    PROVE  \E f : Runs(start, prog, sn, q, b, f, n)
<1> DEFINE T == {m \in 0..Len(prog) : ~\E f : Runs(start, prog, sn, q, b, f, m)}
<1> SUFFICES ASSUME T # {} PROVE FALSE
  OBVIOUS
<1>0. Len(prog) \in Nat /\ T \subseteq Nat
  BY DEF Program
<1>1. PICK m \in T : \A k \in T : m <= k
  BY <1>0, Least
<1> DEFINE r0 == [s |-> start, err |-> "Ok", out |-> None]
<1>4. m \in 0..Len(prog) /\ m \in Nat
  BY <1>0
<1>2. CASE m = 0
  <2>1. Runs(start, prog, sn, q, b, [i \in 0..0 |-> r0], 0)
    BY DEF Runs
  <2> QED BY <1>2, <2>1
<1>3. CASE m > 0
  <2>1. m - 1 \in 0..Len(prog) /\ m - 1 \notin T
    <3> HIDE DEF T
    <3> QED BY <1>0, <1>1, <1>3, <1>4
  <2>2. PICK f : Runs(start, prog, sn, q, b, f, m - 1)
    BY <2>1
  <2> DEFINE g == [i \in 0..m |-> IF i = 0 THEN r0 ELSE Instruction(f, i, prog[i], sn, q, b)]
  <2>3. \A i \in 0..(m - 1) : i \in 0..m /\ g[i] = f[i]
    <3>1. f = [i \in 0..(m - 1) |-> IF i = 0 THEN r0 ELSE Instruction(f, i, prog[i], sn, q, b)]
      BY <2>2 DEF Runs
    <3>2. 0..(m - 1) \subseteq 0..m
      BY <1>4
    <3> HIDE DEF T, r0
    <3> QED BY <3>1, <3>2
  <2>4. ASSUME NEW i \in 0..m, i # 0
        PROVE  Instruction(g, i, prog[i], sn, q, b) = Instruction(f, i, prog[i], sn, q, b)
    <3> HIDE DEF g
    <3>1. i - 1 \in 0..(m - 1) /\ i \in 1..Len(prog)
      BY <1>0, <1>4, <1>3, <2>4
    <3>2. prog[i].op = "end_try" => prog[i].arg \in 0..(i - 1)
      BY <3>1, InstructionOf
    <3>3. 0..(i - 1) \subseteq 0..(m - 1)
      BY <1>0, <1>4, <2>4
    <3>4. g[i - 1] = f[i - 1] /\ (prog[i].op = "end_try" => g[prog[i].arg] = f[prog[i].arg])
      BY <2>3, <3>1, <3>2, <3>3
    <3> QED BY <3>4, SameInstruction
  <2>5. Runs(start, prog, sn, q, b, g, m)
    BY <2>4 DEF Runs
  <2> QED BY <2>5
<1> QED BY <1>2, <1>3, <1>4

(* The end of a sub-call that failed changes nothing but the map.          *)
LEMMA UndoneIs ==
    ASSUME NEW z, NEW x, NEW y, Undone(z, x, y), NEW f, NEW m, NEW d, NEW w,
           x.s = [footprint |-> f, map |-> w, mode |-> d], z.s.map = m
    PROVE  y.s = [footprint |-> f, map |-> m, mode |-> d]
<1>1. y.s = [x.s EXCEPT !.map = m]
  BY DEF Undone
<1>2. \A s : s = [footprint |-> f, map |-> w, mode |-> d]
                => [s EXCEPT !.map = m] = [footprint |-> f, map |-> m, mode |-> d]
  OBVIOUS
<1> QED BY <1>1, <1>2

(* A program keeps the storage of an enforcing host in order.              *)
LEMMA ExecKeeps ==
    ASSUME NEW start, NEW fp, NEW q \in Nat, StoreOK(start, fp, start, q), NEW sn,
           NEW prog, Program(prog)
    PROVE  StoreOK(Exec(start, prog, sn, q, FALSE).s, fp, start, q)
<1> DEFINE n == Len(prog)
           F == CHOOSE f : Runs(start, prog, sn, q, FALSE, f, n)
           r == Exec(start, prog, sn, q, FALSE)
<1>0. n \in Nat
  BY DEF Program
<1>1. Runs(start, prog, sn, q, FALSE, F, n)
  <2>1. n \in 0..n
    BY <1>0
  <2> QED BY <2>1, RunsExist
<1>2. r = F[n]
  BY DEF Exec, RunInstructions, Runs
<1> HIDE DEF F
<1> DEFINE Good(x) == StoreOK(x.s, fp, start, q)
           T == {i \in 0..n : ~Good(F[i])}
<1>3. ASSUME T # {} PROVE FALSE
  <2>1. T \subseteq Nat
    BY <1>0
  <2>2. PICK m \in T : \A k \in T : m <= k
    BY <1>3, <2>1, Least
  <2>3. CASE m = 0
    <3>1. F[m] = [s |-> start, err |-> "Ok", out |-> None]
      BY <1>1, <2>3 DEF Runs
    <3>2. F[m].s = start
      BY <3>1
    <3>3. Good(F[m])
      BY <3>2
    <3> QED BY <3>3
  <2>4. CASE m # 0
    <3>1. m - 1 \in 0..n /\ m \in 1..n /\ m - 1 \notin T
      BY <1>0, <2>2, <2>4
    <3> DEFINE x == F[m - 1]
               y == F[m]
               c == prog[m]
               z == F[c.arg]
    <3>2. Good(x)
      BY <3>1
    <3>3. Steps(z, x, c, y, sn, q, FALSE)
      <4>1. y = Instruction(F, m, c, sn, q, FALSE)
        BY <1>1, <2>4 DEF Runs
      <4> QED BY <3>1, <4>1, InstructionIs
    <3>4. c.op = "end_try" => Good(z)
      <4>1. c.op = "end_try" => c.arg \in 0..(m - 1)
        BY <3>1, InstructionOf
      <4>2. \A j \in 0..(m - 1) : j \in 0..n /\ j \notin T
        BY <1>0, <2>2
      <4> QED BY <4>1, <4>2
    <3> HIDE DEF x, y, c, z
    <3>5. CASE y.s = x.s
      BY <3>2, <3>5 DEF y
    <3>6. CASE x.err = "Ok" /\ y = Do(x.s, c, sn, q, FALSE) /\ Call(c) /\ c.k \in Keys
      <4>2. IsStore(x.s, fp)
        BY <3>2 DEF StoreOK
      <4>3. Loaded(x.s, c.k, q)
        <5>1. x.s.footprint = fp
          BY <4>2 DEF IsStore
        <5>2. ~Classic(c.k) => c.k \in Soroban
          BY <3>6 DEF Soroban
        <5> QED BY <3>2, <5>1, <5>2 DEF StoreOK, CellOK, Loaded
      <4>4. Outcome(x.s, Do(x.s, c, sn, q, FALSE).s, c.k, q)
        BY <3>6, <4>2, <4>3, DoOutcome
      <4>5. Outcome(x.s, y.s, c.k, q)
        BY <3>6, <4>4, Zenon
      <4>6. Good(y)
        BY <3>2, <3>6, <4>5, OutcomeKeeps
      <4> QED BY <4>6 DEF y
    <3>7. CASE Undone(z, x, y) /\ c.op = "end_try"
      <4>1. IsStore(x.s, fp) /\ IsStore(z.s, fp)
        BY <3>2, <3>4, <3>7 DEF StoreOK
      <4>2. y.s = z.s
        BY <3>7, <4>1, UndoneIs DEF IsStore
      <4> QED BY <3>4, <3>7, <4>2 DEF y
    <3> QED BY <3>3, <3>5, <3>6, <3>7 DEF Steps
  <2> QED BY <2>3, <2>4
<1>4. Good(F[n])
  BY <1>0, <1>3
<1> QED BY <1>2, <1>4

-----------------------------------------------------------------------------
(* The inductive invariant.                                                *)

EntryOK(c, q) == c \in [val : Values, live : Nat] /\ c.live - q + 1 <= LongestLife

(* The credit x covers the rest of the life of the entry c of key k.       *)
Covers(k, c, x, q) ==
    c # None /\ c.live >= q => x >= Rent(entry_size_for_rent(k, c.val), c.live, q)

TxOK(tx) ==
    /\ tx.kind = "invoke" => /\ tx.prog \in Programs
                             /\ tx.restored \cap tx.footprint.read_only = {}
    /\ tx.kind = "restore" => \A k \in DeclaredKeys(tx.footprint) : Durability[k] = "Persistent"
    /\ tx.kind = "extend" => tx.extend_to \in Nat /\ \A k \in DeclaredKeys(tx.footprint) : ~Classic(k)

PlanOK(p) ==
    \/ p = <<>>
    \/ \E a : p = <<a>> /\ TxOK(a)
    \/ \E a, b : p = <<a, b>> /\ TxOK(a) /\ TxOK(b)

RentInv ==
    /\ seq \in Nat /\ seq >= FirstLedger
    /\ SettingsOK
    /\ \A k \in Soroban : ledger[k] = None \/ EntryOK(ledger[k], seq)
    /\ \A k \in Soroban : credit[k] \in Int
    /\ PlanOK(plan)
    /\ plan # <<>> => network # None
    /\ network # None => \A k \in Soroban : Covers(k, ledger[k], credit[k], seq)

(* A live entry, in the terms of the model.                                *)
LEMMA LiveIs ==
    ASSUME NEW c, NEW q, c = None \/ EntryOK(c, q)
    PROVE  Present(c) /\ ~Ended(c, q) <=> c # None /\ ~(c.live < q)
<1>1. CASE c = None
  BY <1>1 DEF Present
<1>2. CASE EntryOK(c, q)
  <2>1. c.live \in Nat
    BY <1>2 DEF EntryOK
  <2>2. c.live # -1
    BY <2>1
  <2> QED BY <2>2, Zenon DEF Present, Ended
<1> QED BY <1>1, <1>2

(* The invariant implies RentCovered.                                      *)
LEMMA InvImplies == RentInv => RentCovered
<1> SUFFICES ASSUME RentInv, NEW k \in Soroban, Live(k), network # None
             PROVE  credit[k] >= Prepaid(k)
  BY DEF RentCovered
<1>1. Complete
  BY NetworkIs DEF RentInv
<1>2. ledger[k] = None \/ EntryOK(ledger[k], seq)
  BY DEF RentInv
<1>3. ledger[k] # None /\ ~(ledger[k].live < seq)
  BY <1>2, LiveIs DEF Live
<1>4. ledger[k].live >= seq
  BY <1>2, <1>3 DEF RentInv, EntryOK
<1>5. credit[k] >= Rent(entry_size_for_rent(k, ledger[k].val), ledger[k].live, seq)
  BY <1>1, <1>3, <1>4 DEF RentInv, Covers
<1> QED BY <1>5 DEF Prepaid, LedgerRent, Rent

(* The sizes are naturals, and the minimum rent of any life an entry can   *)
(* have is a fee that exists.                                              *)
LEMMA RentFits ==
    ASSUME NEW k \in Keys, NEW v \in Values
    PROVE  /\ entry_size_for_rent(k, v) \in Nat
           /\ \A live, q \in Nat : live >= q /\ live - q + 1 <= LongestLife
                 => Rent(entry_size_for_rent(k, v), live, q) <= I64Max
<1> DEFINE size == entry_size_for_rent(k, v)
<1>1. size \in Nat
  <2>1. v.bytes \in Nat /\ v.module \in Nat /\ v.ext \in Nat
    BY SizeIsNat DEF Contents
  <2> QED BY <2>1, FeesAssumption DEF entry_size_for_rent, xdr_size, saturating_add, AtMost
<1>2. MinRentFee * size * LongestLife <= I64Max
  BY RentAssumption
<1> HIDE DEF size
<1> DEFINE m == MinRentFee * size
<1>3. m \in Nat /\ LongestLife \in Nat /\ I64Max \in Nat
  <2>1. MinRentFee \in Nat
    BY FeesAssumption
  <2> QED BY <1>1, <2>1, MulGrows, TtlBounds, FeesAssumption
<1>4. m * LongestLife <= I64Max
  BY <1>2
<1> HIDE DEF m
<1>5. ASSUME NEW live \in Nat, NEW q \in Nat, live >= q, live - q + 1 <= LongestLife
      PROVE  Rent(size, live, q) <= I64Max
  <2> DEFINE n == live - q + 1
  <2>1. n \in Nat /\ n <= LongestLife
    BY <1>5
  <2>2. Rent(size, live, q) = m * n
    BY DEF Rent, m
  <2> HIDE DEF n
  <2>3. m * n <= m * LongestLife /\ m * n \in Nat /\ m * LongestLife \in Nat
    BY <1>3, <2>1, MulGrows
  <2>4. m * n <= I64Max
    BY <1>3, <1>4, <2>3
  <2> QED BY <2>2, <2>4
<1> QED BY <1>1, <1>5 DEF size

-----------------------------------------------------------------------------
(* What a transaction pays for a key.                                      *)

(* The change e leaves the entry c of k, and is charged for all it adds.   *)
ChangePays(k, c, e) ==
    /\ IsChange(e) /\ e.persistent = (Durability[k] = "Persistent") /\ e.code = (k \in CodeKeys)
    /\ LiveCell(c, seq) /\ e.new_live = c.live /\ e.new_size = entry_size_for_rent(k, c.val)
    /\ \/ entry_is_new(e)
       \/ /\ ledger[k] # None /\ ledger[k].live >= seq
          /\ e.old_live = ledger[k].live /\ e.old_size = entry_size_for_rent(k, ledger[k].val)
          /\ e.new_live >= e.old_live

(* The entry c of k comes out of the transaction with the change rent[k],  *)
(* or without one.                                                         *)
Pays(k, c, rent) ==
    \/ c = None
    \/ k \notin DOMAIN rent /\ c = ledger[k]
    \/ /\ k \notin DOMAIN rent /\ ledger[k] # None /\ LiveCell(c, seq) /\ c.live = ledger[k].live
       /\ entry_size_for_rent(k, c.val) <= entry_size_for_rent(k, ledger[k].val)
    \/ k \in DOMAIN rent /\ ChangePays(k, c, rent[k])

(* What is credited for a change is what its fee is worth.                 *)
LEMMA CreditIs ==
    ASSUME SettingsOK, Complete, NEW k \in Soroban, NEW rent, NEW after
    PROVE  /\ after[k] = None => Credited(rent, after)[k] = 0
           /\ after[k] # None /\ k \notin DOMAIN rent => Credited(rent, after)[k] = credit[k] + 0
           /\ after[k] # None /\ k \in DOMAIN rent /\ rent[k].code = (k \in CodeKeys)
                /\ rent[k].persistent = (Durability[k] = "Persistent")
                => Credited(rent, after)[k] = (IF entry_is_new(rent[k]) THEN 0 ELSE credit[k])
                                                + Worth(rent[k], network.rent, seq)
<1>1. k \in Keys /\ ~Classic(k)
  BY DEF Soroban
<1>2. denominator(k) = Divisor(Durability[k] = "Persistent", network.rent)
  BY <1>1, NetworkIs
<1> DEFINE c == (IF k \in DOMAIN rent /\ entry_is_new(rent[k]) THEN 0 ELSE credit[k])
                + (IF k \in DOMAIN rent THEN PaidFor(k, rent_fee_per_entry_change(rent[k], network.rent, seq))
                   ELSE 0)
<1>3. Credited(rent, after)[k] = IF after[k] = None THEN 0 ELSE c
  BY <1>1 DEF Credited
<1>4. ASSUME k \in DOMAIN rent, rent[k].code = (k \in CodeKeys), rent[k].persistent = (Durability[k] = "Persistent")
      PROVE  PaidFor(k, rent_fee_per_entry_change(rent[k], network.rent, seq)) = Worth(rent[k], network.rent, seq)
  <2> DEFINE fee == rent_fee_per_entry_change(rent[k], network.rent, seq)
             d1 == Divisor(Durability[k] = "Persistent", network.rent)
             d2 == Divisor(rent[k].persistent, network.rent)
  <2>1. d1 = d2
    BY <1>4 DEF Divisor
  <2>2. PaidFor(k, fee) = Kb * d1 * (IF k \in CodeKeys THEN CodeDiscount * fee + CodeDiscount - 1 ELSE fee)
    BY <1>2 DEF PaidFor
  <2>3. Worth(rent[k], network.rent, seq) = Kb * d2 * (IF rent[k].code THEN CodeDiscount * fee + CodeDiscount - 1 ELSE fee)
    BY DEF Worth
  <2> HIDE DEF fee, d1, d2
  <2>4. rent[k].code <=> k \in CodeKeys
    BY <1>4
  <2> QED BY <2>1, <2>2, <2>3, <2>4 DEF fee
<1> QED BY <1>3, <1>4

(* A key that pays is covered after the transaction.                       *)
LEMMA PaysCovers ==
    ASSUME RentInv, network # None, NEW k \in Soroban, NEW rent, NEW after, Pays(k, after[k], rent)
    PROVE  /\ after[k] = None \/ EntryOK(after[k], seq)
           /\ Credited(rent, after)[k] \in Int
           /\ Covers(k, after[k], Credited(rent, after)[k], seq)
<1> DEFINE c == after[k]
           l == ledger[k]
           x == credit[k]
           y == Credited(rent, after)[k]
           cfg == network.rent
<1>1. SettingsOK /\ seq \in Nat /\ seq >= 3 /\ k \in Keys
  BY DEF RentInv, FirstLedger, Soroban
<1>2. Complete /\ IsRentConfig(cfg)
  BY <1>1, NetworkIs
<1>3. (l = None \/ EntryOK(l, seq)) /\ x \in Int /\ Covers(k, l, x, seq)
  BY DEF RentInv
<1>4. /\ c = None => y = 0
      /\ c # None /\ k \notin DOMAIN rent => y = x + 0
      /\ c # None /\ k \in DOMAIN rent /\ rent[k].code = (k \in CodeKeys)
                /\ rent[k].persistent = (Durability[k] = "Persistent")
                => y = (IF entry_is_new(rent[k]) THEN 0 ELSE x) + Worth(rent[k], cfg, seq)
  BY <1>1, <1>2, CreditIs
<1>5. Pays(k, c, rent)
  OBVIOUS
<1>6. \A w : LiveCell(w, seq) => w.val \in Values /\ EntryOK(w, seq)
  BY DEF LiveCell, EntryOK
<1> DEFINE Goal == (c = None \/ EntryOK(c, seq)) /\ y \in Int /\ Covers(k, c, y, seq)
<1> SUFFICES Goal
  OBVIOUS
<1> HIDE DEF c, l, x, y, cfg
<1>7. CASE c = None
  BY <1>4, <1>7 DEF Covers
<1>8. CASE c # None /\ k \notin DOMAIN rent /\ c = l
  <2>1. y = x
    BY <1>3, <1>4, <1>8
  <2> QED BY <1>3, <1>8, <2>1
<1>9. CASE /\ c # None /\ k \notin DOMAIN rent /\ l # None /\ LiveCell(c, seq) /\ c.live = l.live
           /\ entry_size_for_rent(k, c.val) <= entry_size_for_rent(k, l.val)
  <2> DEFINE new == entry_size_for_rent(k, c.val)
             old == entry_size_for_rent(k, l.val)
  <2>1. y = x
    BY <1>3, <1>4, <1>9
  <2>2. EntryOK(l, seq) /\ l.val \in Values /\ l.live \in Nat /\ l.live >= seq
    BY <1>3, <1>9 DEF EntryOK, LiveCell
  <2>3. new \in Nat /\ old \in Nat /\ new <= old
    BY <1>1, <1>6, <1>9, <2>2, RentFits
  <2>4. x >= Rent(old, l.live, seq)
    BY <1>3, <1>9, <2>2 DEF Covers
  <2> DEFINE a == l.live
  <2> HIDE DEF new, old
  <2>5. Splits(old, new, a, a, seq)
    BY <1>1, <2>2, <2>3, RentSplits
  <2>6. MinRentFee * new * (a - a) = 0
    BY <2>2, <2>3, FeesAssumption
  <2>7. Rent(new, a, seq) <= Rent(old, a, seq) /\ Rent(new, a, seq) \in Nat /\ Rent(old, a, seq) \in Nat
    <3> DEFINE r1 == Rent(new, a, seq)
               r2 == Rent(old, a, seq)
               z == MinRentFee * new * (a - a)
    <3>1. r1 \in Nat /\ r2 \in Nat /\ r1 <= r2 + z
      BY <2>3, <2>5 DEF Splits
    <3>2. z = 0
      BY <2>6
    <3> HIDE DEF r1, r2, z
    <3>3. r1 <= r2
      BY <3>1, <3>2
    <3> QED BY <3>1, <3>3 DEF r1, r2
  <2>8. x >= Rent(new, a, seq)
    BY <1>3, <2>4, <2>7
  <2> QED BY <1>3, <1>6, <1>9, <2>1, <2>8 DEF Covers, new
<1>10. CASE c # None /\ k \in DOMAIN rent /\ ChangePays(k, c, rent[k])
  <2> DEFINE e == rent[k]
             w == Worth(e, cfg, seq)
  <2>1. /\ IsChange(e) /\ e.persistent = (Durability[k] = "Persistent") /\ e.code = (k \in CodeKeys)
        /\ LiveCell(c, seq) /\ e.new_live = c.live /\ e.new_size = entry_size_for_rent(k, c.val)
    BY <1>10 DEF ChangePays
  <2>2. \/ entry_is_new(e)
        \/ /\ l # None /\ l.live >= seq
           /\ e.old_live = l.live /\ e.old_size = entry_size_for_rent(k, l.val)
           /\ e.new_live >= e.old_live
    BY <1>10 DEF ChangePays, l
  <2>3. y = (IF entry_is_new(e) THEN 0 ELSE x) + w
    BY <1>4, <1>10, <2>1
  <2>4. c.live \in Nat /\ c.live >= seq /\ c.live - seq + 1 <= LongestLife /\ c.val \in Values
    BY <2>1 DEF LiveCell
  <2> HIDE DEF e, w
  <2>5. Rent(e.new_size, e.new_live, seq) <= I64Max
    BY <1>1, <2>1, <2>4, RentFits
  <2>6. Covers(k, c, y, seq) <=> y >= Rent(e.new_size, e.new_live, seq)
    BY <1>10, <2>1, <2>4 DEF Covers
  <2> DEFINE r == Rent(e.new_size, e.new_live, seq)
  <2>7. r \in Nat
    <3>1. e.new_size \in Nat /\ e.new_live \in Nat /\ e.new_live >= seq
      BY <2>1, <2>4 DEF IsChange
    <3> DEFINE a == e.new_live
               s == e.new_size
    <3> HIDE DEF a, s
    <3>2. Splits(s, s, a, a, seq)
      BY <1>1, <3>1, RentSplits DEF a, s
    <3> QED BY <3>2 DEF Splits, a, s
  <2>8. CASE entry_is_new(e)
    <3>1. w \in Nat /\ r <= w
      BY <1>1, <1>2, <2>1, <2>4, <2>5, <2>8, NewIsCovered DEF w
    <3> HIDE DEF r
    <3>2. y = 0 + w
      BY <2>3, <2>8
    <3>3. y \in Int /\ y >= r
      BY <2>7, <3>1, <3>2
    <3> QED BY <1>6, <2>1, <2>6, <3>3 DEF r
  <2>9. CASE ~entry_is_new(e)
    <3>1. /\ l # None /\ l.live >= seq
          /\ e.old_live = l.live /\ e.old_size = entry_size_for_rent(k, l.val)
          /\ e.new_live >= e.old_live
      BY <2>2, <2>9
    <3>2. EntryOK(l, seq)
      BY <1>3, <3>1
    <3>3. x >= Rent(e.old_size, e.old_live, seq)
      BY <1>3, <3>1 DEF Covers
    <3>4. e.old_live - seq + 1 <= U32Max
      <4>1. LongestLife \in Nat /\ LongestLife <= U32Max /\ U32Max \in Nat
        <5>1. MinTempTtl \in Nat /\ MinPersistentTtl \in Nat /\ MaxTtl \in Nat /\ U32Max \in Nat
              /\ MinTempTtl <= U32Max /\ MinPersistentTtl <= U32Max /\ MaxTtl <= U32Max /\ 1 <= U32Max
          BY RentAssumption, FeesAssumption
        <5> QED BY <5>1 DEF LongestLife, AtLeast
      <4>2. l.live \in Nat /\ l.live - seq + 1 <= LongestLife /\ e.old_live = l.live
        BY <3>1, <3>2 DEF EntryOK
      <4> QED BY <1>1, <4>1, <4>2
    <3> DEFINE o == Rent(e.old_size, e.old_live, seq)
    <3>5. w \in Nat /\ r <= o + w
      BY <1>1, <1>2, <2>1, <2>5, <3>1, <3>4, OldIsCovered DEF w
    <3>6. o \in Nat
      <4>1. e.old_size \in Nat /\ e.old_live \in Nat /\ e.old_live >= seq
        BY <2>1, <3>1 DEF IsChange
      <4> DEFINE a == e.old_live
                 s == e.old_size
      <4> HIDE DEF a, s
      <4>2. Splits(s, s, a, a, seq)
        BY <1>1, <4>1, RentSplits DEF a, s
      <4> QED BY <4>2 DEF Splits, a, s
    <3> HIDE DEF r, o
    <3>7. y = x + w /\ x >= o
      BY <2>3, <2>9, <3>3 DEF o
    <3>8. y \in Int /\ y >= r
      BY <1>3, <2>7, <3>5, <3>6, <3>7
    <3> QED BY <1>6, <2>1, <2>6, <3>8 DEF r
  <2> QED BY <2>8, <2>9
<1> QED BY <1>5, <1>7, <1>8, <1>9, <1>10 DEF Pays, l

-----------------------------------------------------------------------------
(* Executions.                                                             *)

(* The plan after its first transaction.                                   *)
LEMMA PlanTail ==
    ASSUME NEW p, PlanOK(p), p # <<>>
    PROVE  TxOK(Head(p)) /\ PlanOK(Tail(p))
<1>1. ASSUME NEW a, p = <<a>>, TxOK(a) PROVE TxOK(Head(p)) /\ PlanOK(Tail(p))
  <2>1. Head(p) = a /\ Tail(p) = <<>>
    BY <1>1
  <2> QED BY <1>1, <2>1 DEF PlanOK
<1>2. ASSUME NEW a, NEW b, p = <<a, b>>, TxOK(a), TxOK(b) PROVE TxOK(Head(p)) /\ PlanOK(Tail(p))
  <2>1. Head(p) = a /\ Tail(p) = <<b>>
    BY <1>2
  <2> QED BY <1>2, <2>1 DEF PlanOK
<1> QED BY <1>1, <1>2 DEF PlanOK

(* A transaction for which every key pays keeps the invariant, whether it  *)
(* is applied or refused.                                                  *)
LEMMA SettleKeeps ==
    ASSUME RentInv, plan # <<>>, NEW tx, NEW works, NEW rent, NEW written,
           Settle(tx, works, rent, written),
           works => \A k \in Soroban : Pays(k, Applied(ledger, rent, written)[k], rent)
    PROVE  RentInv'
<1> DEFINE after == Applied(ledger, rent, written)
           ok == works /\ Charge(tx, rent) <= tx.fee
<1>1. /\ ledger' = IF ok THEN after ELSE ledger
      /\ credit' = IF ok THEN Credited(rent, after) ELSE credit
      /\ plan' = Tail(plan)
      /\ seq' = seq /\ settings' = settings /\ state_size' = state_size
  BY DEF Settle
<1>2. network # None
  BY DEF RentInv
<1>3. SettingsOK' /\ network' # None /\ seq' \in Nat /\ seq' >= FirstLedger /\ PlanOK(plan')
  <2>1. SettingsOK'
    BY <1>1 DEF SettingsOK, RentInv
  <2>2. network' = network
    BY <1>1 DEF network
  <2>3. PlanOK(plan')
    BY <1>1, PlanTail DEF RentInv
  <2> QED BY <1>1, <1>2, <2>1, <2>2, <2>3 DEF RentInv
<1>4. ASSUME NEW k \in Soroban
      PROVE  /\ ledger'[k] = None \/ EntryOK(ledger'[k], seq')
             /\ credit'[k] \in Int
             /\ Covers(k, ledger'[k], credit'[k], seq')
  <2>1. CASE ok
    <3>1. Pays(k, after[k], rent)
      BY <2>1
    <3> HIDE DEF after
    <3>2. /\ after[k] = None \/ EntryOK(after[k], seq)
          /\ Credited(rent, after)[k] \in Int
          /\ Covers(k, after[k], Credited(rent, after)[k], seq)
      BY <1>2, <3>1, PaysCovers
    <3>3. ledger' = after /\ credit' = Credited(rent, after)
      BY <1>1, <2>1 DEF after
    <3> QED BY <1>1, <3>2, <3>3
  <2>2. CASE ~ok
    <3>1. ledger' = ledger /\ credit' = credit
      BY <1>1, <2>2
    <3> QED BY <1>1, <1>2, <3>1 DEF RentInv
  <2> QED BY <2>1, <2>2
<1>5. Soroban' = Soroban
  BY DEF Soroban, Classic
<1> QED BY <1>3, <1>4, <1>5 DEF RentInv

(* The fields of a change.                                                 *)
Fields(e, p, c, os, ns, ol, nl) ==
    /\ IsChange(e) /\ e.persistent = p /\ e.code = c
    /\ e.old_size = os /\ e.new_size = ns /\ e.old_live = ol /\ e.new_live = nl

(* A change of a key is made of its fields.                                *)
LEMMA ChangeIs ==
    ASSUME NEW p \in BOOLEAN, NEW c \in BOOLEAN,
           NEW os \in Nat, NEW ns \in Nat, NEW ol \in Nat, NEW nl \in Nat
    PROVE  Fields([persistent |-> p, code |-> c, old_size |-> os, new_size |-> ns,
                   old_live |-> ol, new_live |-> nl], p, c, os, ns, ol, nl)
  BY DEF Fields, IsChange

(* Extending the lives of entries pays for the ledgers added.              *)
LEMMA ExtendKeeps ==
    ASSUME RentInv, ExecuteExtend
    PROVE  RentInv'
<1> DEFINE tx == Head(plan)
           new == seq + tx.extend_to
           ks == {k \in DeclaredKeys(tx.footprint) : Live(k) /\ ledger[k].live < new}
           rent == [k \in ks |-> [persistent |-> Durability[k] = "Persistent", code |-> k \in CodeKeys,
                                 old_size |-> SameSize(k), new_size |-> SameSize(k),
                                 old_live |-> ledger[k].live, new_live |-> new]]
           written == [k \in {} |-> None]
           works == new <= seq + MaxTtl - 1
           after == Applied(ledger, rent, written)
<1>1. plan # <<>> /\ tx.kind = "extend" /\ Settle(tx, works, rent, written)
  BY DEF ExecuteExtend
<1>2. TxOK(tx)
  BY <1>1, PlanTail DEF RentInv
<1>3. tx.extend_to \in Nat /\ seq \in Nat /\ new \in Nat /\ new >= seq
  BY <1>1, <1>2 DEF TxOK, RentInv
<1>4. ASSUME works, NEW k \in Soroban PROVE Pays(k, after[k], rent)
  <2>1. k \in Keys
    BY DEF Soroban
  <2>2. after[k] = IF k \in ks THEN [ledger[k] EXCEPT !.live = rent[k].new_live] ELSE ledger[k]
    BY <2>1 DEF Applied
  <2>3. CASE k \notin ks
    <3>1. k \notin DOMAIN rent /\ after[k] = ledger[k]
      BY <2>2, <2>3
    <3> QED BY <3>1 DEF Pays
  <2>4. CASE k \in ks
    <3> DEFINE l == ledger[k]
               c == after[k]
               e == rent[k]
               size == entry_size_for_rent(k, l.val)
    <3>1. e = [persistent |-> Durability[k] = "Persistent", code |-> k \in CodeKeys,
               old_size |-> size, new_size |-> size, old_live |-> l.live, new_live |-> new]
      BY <2>4 DEF SameSize
    <3>2. k \in DOMAIN rent
      BY <2>4
    <3>3. l = None \/ EntryOK(l, seq)
      BY DEF RentInv
    <3>4. l # None /\ ~(l.live < seq) /\ l.live < new
      BY <2>4, <3>3, LiveIs DEF Live
    <3>5. EntryOK(l, seq) /\ l.live \in Nat /\ l.live >= seq /\ l.val \in Values
      BY <1>3, <3>3, <3>4 DEF EntryOK
    <3>6. c = [l EXCEPT !.live = new]
      BY <2>2, <2>4, <3>1
    <3>7. new - seq + 1 <= LongestLife
      <4>1. MaxTtl \in Nat /\ LongestLife \in Nat /\ MaxTtl <= LongestLife
        <5>1. MaxTtl \in Nat
          BY RentAssumption, FeesAssumption
        <5>2. LongestLife \in Nat /\ LongestLife >= MaxTtl
          BY <1>3, TtlBounds
        <5> QED BY <5>1, <5>2
      <4>2. new <= seq + MaxTtl - 1
        BY <1>4
      <4> HIDE DEF new
      <4> QED BY <1>3, <4>1, <4>2
    <3> HIDE DEF l, c, e, rent, new
    <3>8. LiveCell(c, seq) /\ c.live = new /\ c.val = l.val
      BY <1>3, <3>5, <3>6, <3>7 DEF LiveCell, EntryOK
    <3>9. size \in Nat
      BY <2>1, <3>5, RentFits
    <3> HIDE DEF size
    <3> DEFINE p == Durability[k] = "Persistent"
               d == k \in CodeKeys
               a == l.live
    <3>10. /\ IsChange(e) /\ e.persistent = (Durability[k] = "Persistent") /\ e.code = (k \in CodeKeys)
           /\ e.new_live = new /\ e.old_live = l.live /\ e.new_size = size /\ e.old_size = size
      <4>1. p \in BOOLEAN /\ d \in BOOLEAN /\ a \in Nat /\ new \in Nat
        BY <1>3, <3>5
      <4>2. e = [persistent |-> p, code |-> d, old_size |-> size, new_size |-> size,
                 old_live |-> a, new_live |-> new]
        BY <3>1
      <4> HIDE DEF p, d, a
      <4>3. Fields(e, p, d, size, size, a, new)
        BY <3>9, <4>1, <4>2, ChangeIs
      <4> QED BY <4>3 DEF Fields, p, d, a
    <3>11. ChangePays(k, c, e)
      <4>1. e.new_live >= e.old_live
        <5>1. l.live <= new
          BY <1>3, <3>4, <3>5
        <5> QED BY <3>10, <5>1
      <4>2. e.new_size = entry_size_for_rent(k, l.val) /\ e.old_size = entry_size_for_rent(k, l.val)
        BY <3>10 DEF size
      <4>3. l # None /\ l.live >= seq /\ e.old_live = l.live /\ e.new_live = c.live
            /\ e.new_size = entry_size_for_rent(k, c.val)
        BY <3>4, <3>5, <3>8, <3>10, <4>2
      <4> QED BY <3>8, <3>10, <4>1, <4>2, <4>3 DEF ChangePays, l
    <3> QED BY <3>2, <3>11 DEF Pays, e, c
  <2> QED BY <2>3, <2>4
<1> HIDE DEF tx, works, rent, written
<1> QED BY <1>1, <1>4, SettleKeeps

(* Restoring entries pays for them as new ones.                            *)
LEMMA RestoreKeeps ==
    ASSUME RentInv, ExecuteRestore
    PROVE  RentInv'
<1> DEFINE tx == Head(plan)
           ks == {k \in DeclaredKeys(tx.footprint) : Present(ledger[k]) /\ ~Live(k)}
           bytes == SumBytes([k \in ks |-> xdr_size(ledger[k].val)])
           new == Host(seq, FALSE)!min_live_until_ledger("Persistent")
           rent == [k \in ks |-> [persistent |-> TRUE, code |-> k \in CodeKeys,
                                 old_size |-> 0, new_size |-> SameSize(k), old_live |-> 0,
                                 new_live |-> new]]
           written == [k \in {} |-> None]
           works == bytes <= tx.resources.disk_read_bytes /\ bytes <= tx.resources.write_bytes
           after == Applied(ledger, rent, written)
<1>1. plan # <<>> /\ tx.kind = "restore" /\ Settle(tx, works, rent, written)
  BY DEF ExecuteRestore
<1>2. TxOK(tx)
  BY <1>1, PlanTail DEF RentInv
<1>3. seq \in Nat /\ new \in Nat /\ new >= seq /\ new - seq + 1 <= LongestLife
  <2>1. seq \in Nat
    BY DEF RentInv
  <2> QED BY <2>1, TtlBounds
<1>4. ASSUME NEW k \in Soroban PROVE Pays(k, after[k], rent)
  <2> HIDE DEF new
  <2>1. k \in Keys
    BY DEF Soroban
  <2>2. after[k] = IF k \in ks THEN [ledger[k] EXCEPT !.live = rent[k].new_live] ELSE ledger[k]
    BY <2>1 DEF Applied
  <2>3. CASE k \notin ks
    <3>1. k \notin DOMAIN rent /\ after[k] = ledger[k]
      BY <2>2, <2>3
    <3> QED BY <3>1 DEF Pays
  <2>4. CASE k \in ks
    <3> DEFINE l == ledger[k]
               c == after[k]
               e == rent[k]
               size == entry_size_for_rent(k, l.val)
    <3>1. e = [persistent |-> TRUE, code |-> k \in CodeKeys,
               old_size |-> 0, new_size |-> size, old_live |-> 0, new_live |-> new]
      BY <2>4 DEF SameSize
    <3>2. k \in DOMAIN rent
      BY <2>4
    <3>3. l = None \/ EntryOK(l, seq)
      BY DEF RentInv
    <3>4. l # None /\ Durability[k] = "Persistent"
      BY <1>1, <1>2, <2>4 DEF Present, TxOK
    <3>5. EntryOK(l, seq) /\ l.val \in Values
      BY <3>3, <3>4 DEF EntryOK
    <3>6. c = [l EXCEPT !.live = new]
      BY <2>2, <2>4, <3>1
    <3> HIDE DEF l, c, e, rent
    <3>8. LiveCell(c, seq) /\ c.live = new /\ c.val = l.val
      BY <1>3, <3>5, <3>6 DEF LiveCell, EntryOK
    <3>9. size \in Nat
      BY <2>1, <3>5, RentFits
    <3> HIDE DEF size
    <3> DEFINE d == k \in CodeKeys
    <3>10. /\ IsChange(e) /\ e.persistent = TRUE /\ e.code = (k \in CodeKeys)
           /\ e.new_live = new /\ e.old_live = 0 /\ e.new_size = size /\ e.old_size = 0
      <4>1. d \in BOOLEAN
        OBVIOUS
      <4>2. e = [persistent |-> TRUE, code |-> d, old_size |-> 0, new_size |-> size,
                 old_live |-> 0, new_live |-> new]
        BY <3>1
      <4> HIDE DEF d
      <4>3. Fields(e, TRUE, d, 0, size, 0, new)
        BY <1>3, <3>9, <4>1, <4>2, ChangeIs
      <4> QED BY <4>3 DEF Fields, d
    <3>11. ChangePays(k, c, e)
      <4>1. entry_is_new(e)
        BY <3>10 DEF entry_is_new
      <4>2. e.new_size = entry_size_for_rent(k, c.val) /\ e.new_live = c.live
        BY <3>8, <3>10 DEF size
      <4>3. e.persistent = (Durability[k] = "Persistent")
        BY <3>4, <3>10
      <4> QED BY <3>8, <3>10, <4>1, <4>2, <4>3 DEF ChangePays
    <3> QED BY <3>2, <3>11 DEF Pays, e, c
  <2> QED BY <2>3, <2>4
<1> HIDE DEF tx, works, rent, written
<1> QED BY <1>1, <1>4, SettleKeeps

(* A ledger of rent.                                                       *)
LEMMA RentStep ==
    ASSUME NEW size \in Nat, NEW live \in Nat, NEW q \in Nat
    PROVE  /\ MinRentFee * size \in Nat
           /\ Rent(size, live, q) \in Int /\ Rent(size, live, q + 1) \in Int
           /\ Rent(size, live, q) - MinRentFee * size = Rent(size, live, q + 1)
<1> DEFINE m == MinRentFee * size
           n == live - q
<1>1. MinRentFee \in Nat
  BY FeesAssumption
<1>2. m \in Nat /\ n \in Int
  BY <1>1, MulGrows
<1>3. live - (q + 1) + 1 = n /\ live - q + 1 = n + 1
  OBVIOUS
<1>4. Rent(size, live, q) = m * (n + 1) /\ Rent(size, live, q + 1) = m * n
  BY <1>3 DEF Rent
<1> HIDE DEF m, n
<1>5. m * (n + 1) = m * n + m /\ m * n \in Int /\ m * (n + 1) \in Int
  BY <1>2
<1> DEFINE x == m * n
           y == m * (n + 1)
<1> HIDE DEF x, y
<1>6. y = x + m /\ x \in Int /\ y \in Int
  BY <1>5 DEF x, y
<1>7. y - m = x
  BY <1>2, <1>6
<1> QED BY <1>2, <1>4, <1>6, <1>7 DEF x, y, m

(* Closing the ledger uses up one ledger of rent of every live entry.      *)
LEMMA CloseKeeps ==
    ASSUME RentInv, CloseLedger
    PROVE  RentInv'
<1>1. /\ seq' = seq + 1 /\ state_size' = StateSize(ledger)
      /\ credit' = [k \in Keys |-> IF Classic(k) \/ ~Live(k) \/ ledger[k].live = seq THEN 0
                                   ELSE credit[k] - LedgerRent(k)]
      /\ ledger' = ledger /\ settings' = settings /\ plan' = plan /\ network # None
  BY DEF CloseLedger
<1>2. network # None
  BY <1>1
<1>3. seq \in Nat /\ seq' \in Nat /\ seq' >= FirstLedger
  BY <1>1 DEF RentInv, FirstLedger
<1>4. SettingsOK'
  <2>1. \A k \in Soroban : Present(ledger[k]) => ledger[k].val \in Values
    BY DEF RentInv, EntryOK, Present
  <2>2. StateSize(ledger) \in 0..U32Max
    BY <2>1, StateSizeFits
  <2>3. settings \in AllSettings
    BY DEF RentInv, SettingsOK
  <2> QED BY <1>1, <2>2, <2>3 DEF SettingsOK
<1>5. PlanOK(plan') /\ (plan' # <<>> => network' # None)
  <2>1. Complete
    BY <1>2, NetworkIs DEF RentInv
  <2>2. settings \in AllSettings /\ \A f \in DOMAIN settings : settings[f] # None
    BY <2>1 DEF Complete, RentInv, SettingsOK
  <2>3. load_from_snapshot(settings, state_size') # None
    <3>1. \A size \in 0..U32Max : load_from_snapshot(settings, size) # None
      BY <2>2, RentAssumption
    <3> QED BY <1>4, <3>1 DEF SettingsOK
  <2>4. network' # None
    BY <1>1, <2>3 DEF network
  <2> QED BY <1>1, <2>4 DEF RentInv
<1>6. Soroban' = Soroban
  BY DEF Soroban, Classic
<1>7. ASSUME NEW k \in Soroban
      PROVE  /\ ledger'[k] = None \/ EntryOK(ledger'[k], seq')
             /\ credit'[k] \in Int
             /\ Covers(k, ledger'[k], credit'[k], seq')
  <2> DEFINE l == ledger[k]
             x == credit[k]
             y == credit'[k]
             size == entry_size_for_rent(k, l.val)
  <2>1. k \in Keys /\ ~Classic(k)
    BY DEF Soroban
  <2>2. (l = None \/ EntryOK(l, seq)) /\ x \in Int /\ Covers(k, l, x, seq)
    BY <1>2 DEF RentInv
  <2>3. Live(k) <=> l # None /\ ~(l.live < seq)
    BY <2>2, LiveIs DEF Live
  <2>4. y = IF ~Live(k) \/ l.live = seq THEN 0 ELSE x - MinRentFee * size
    BY <1>1, <2>1 DEF LedgerRent
  <2>5. ledger'[k] = l
    BY <1>1
  <2> HIDE DEF l, x, y
  <2>6. CASE l = None
    <3>1. y = 0
      BY <2>3, <2>4, <2>6
    <3> QED BY <2>5, <2>6, <3>1 DEF Covers, y
  <2>7. CASE l # None
    <3>1. EntryOK(l, seq) /\ l.live \in Nat /\ l.val \in Values
      BY <2>2, <2>7 DEF EntryOK
    <3>2. size \in Nat
      BY <2>1, <3>1, RentFits
    <3> HIDE DEF size
    <3> DEFINE r0 == Rent(size, l.live, seq)
               r1 == Rent(size, l.live, seq + 1)
               m == MinRentFee * size
    <3>3. m \in Nat /\ r0 \in Int /\ r1 \in Int /\ r0 - m = r1
      BY <1>3, <3>1, <3>2, RentStep
    <3>4. LongestLife \in Nat /\ l.live - seq + 1 <= LongestLife
      BY <1>3, <3>1, TtlBounds DEF EntryOK
    <3>5. l.live - seq' + 1 <= LongestLife
      BY <1>1, <1>3, <3>1, <3>4
    <3>6. EntryOK(l, seq')
      BY <3>1, <3>5 DEF EntryOK
    <3>7. l.live >= seq => x >= r0
      BY <2>2, <2>7 DEF Covers, size
    <3>8. y = IF ~Live(k) \/ l.live = seq THEN 0 ELSE x - m
      BY <2>4
    <3> HIDE DEF r0, r1, m
    <3>9. y \in Int
      BY <2>2, <3>3, <3>8
    <3>10. l.live >= seq + 1 => y >= r1
      <4>1. ASSUME l.live >= seq + 1 PROVE y >= r1
        <5>1. l.live >= seq /\ l.live # seq /\ ~(l.live < seq)
          BY <1>3, <3>1, <4>1
        <5>2. y = x - m /\ x >= r0
          BY <2>3, <2>7, <3>7, <3>8, <5>1
        <5> QED BY <2>2, <3>3, <5>2
      <4> QED BY <4>1
    <3>11. Covers(k, l, y, seq')
      BY <1>1, <3>10 DEF Covers, r1, size
    <3> QED BY <2>5, <3>6, <3>9, <3>11 DEF y
  <2> QED BY <2>6, <2>7
<1> QED BY <1>3, <1>4, <1>5, <1>6, <1>7 DEF RentInv

(* At the start every live entry has paid for the life it has left.        *)
LEMMA InitInv == Init => RentInv
<1> SUFFICES ASSUME Init PROVE RentInv
  OBVIOUS
<1>1. /\ ledger \in StartLedgers /\ settings \in AllSettings /\ seq = FirstLedger
      /\ state_size = StateSize(ledger) /\ plan = <<>>
      /\ credit = [k \in Keys |-> IF Classic(k) \/ ~Live(k) \/ network = None THEN 0 ELSE Prepaid(k)]
  BY DEF Init
<1>2. seq \in Nat /\ seq >= FirstLedger /\ LongestLife \in Nat
  <2>1. seq = 3
    BY <1>1 DEF FirstLedger
  <2>2. LongestLife \in Nat
    <3>1. 3 \in Nat
      OBVIOUS
    <3> QED BY <3>1, TtlBounds
  <2> QED BY <2>1, <2>2 DEF FirstLedger
<1>3. ASSUME NEW k \in Soroban PROVE ledger[k] = None \/ EntryOK(ledger[k], seq)
  <2>1. k \in Keys /\ ~Classic(k)
    BY DEF Soroban
  <2>2. ledger[k] \in LedgerCell(k)
    BY <1>1, <2>1, RentAssumption
  <2>3. ledger[k] = None \/ ledger[k] \in [val : Values, live : 0..(seq + LongestLife - 1)]
    BY <1>1, <2>1, <2>2 DEF LedgerCell
  <2>4. ASSUME NEW l \in [val : Values, live : 0..(seq + LongestLife - 1)] PROVE EntryOK(l, seq)
    <3>1. l \in [val : Values, live : Nat] /\ l.live <= seq + LongestLife - 1 /\ l.live \in Nat
      OBVIOUS
    <3>2. l.live - seq + 1 <= LongestLife
      BY <1>2, <3>1
    <3> QED BY <3>1, <3>2 DEF EntryOK
  <2> QED BY <2>3, <2>4
<1>4. SettingsOK
  <2>1. \A k \in Soroban : Present(ledger[k]) => ledger[k].val \in Values
    BY <1>3 DEF EntryOK, Present
  <2>2. StateSize(ledger) \in 0..U32Max
    BY <2>1, StateSizeFits
  <2> QED BY <1>1, <2>2 DEF SettingsOK
<1>5. ASSUME NEW k \in Soroban PROVE credit[k] \in Int /\ (network # None => Covers(k, ledger[k], credit[k], seq))
  <2> DEFINE l == ledger[k]
             size == entry_size_for_rent(k, l.val)
             r == Rent(size, l.live, seq)
  <2>1. k \in Keys /\ ~Classic(k)
    BY DEF Soroban
  <2>2. Live(k) <=> l # None /\ ~(l.live < seq)
    BY <1>3, LiveIs DEF Live
  <2>3. credit[k] = IF ~Live(k) \/ network = None THEN 0 ELSE Prepaid(k)
    BY <1>1, <2>1
  <2>4. CASE l = None
    BY <2>2, <2>3, <2>4 DEF Covers
  <2>5. CASE l # None
    <3>1. EntryOK(l, seq) /\ l.live \in Nat /\ l.val \in Values
      BY <1>3, <2>5 DEF EntryOK
    <3>2. size \in Nat
      BY <2>1, <3>1, RentFits
    <3>3. Prepaid(k) = r
      BY DEF Prepaid, LedgerRent, Rent
    <3> HIDE DEF size, l
    <3>4. r \in Int
      BY <1>2, <3>1, <3>2, RentStep
    <3> HIDE DEF r
    <3>6. credit[k] \in Int
      BY <2>3, <3>3, <3>4
    <3>7. ASSUME network # None, l.live >= seq PROVE credit[k] >= r
      <4>1. Live(k)
        BY <1>2, <2>2, <2>5, <3>1, <3>7
      <4>2. credit[k] = r
        BY <2>3, <3>3, <3>7, <4>1
      <4> QED BY <3>4, <4>2
    <3> QED BY <3>6, <3>7 DEF Covers, r, size, l
  <2> QED BY <2>4, <2>5
<1>6. PlanOK(plan) /\ ~(plan # <<>>)
  BY <1>1 DEF PlanOK
<1> QED BY <1>2, <1>3, <1>4, <1>5, <1>6 DEF RentInv

-----------------------------------------------------------------------------
(* Simulations.                                                            *)

(* The parts of the transaction data.                                      *)
LEMMA TxParts ==
    ASSUME NEW kind, NEW prog, NEW ext, NEW fp, NEW restored, NEW res, NEW fee
    PROVE  LET tx == create_transaction_data(kind, prog, ext, fp, restored, res, fee)
           IN  /\ tx.kind = kind /\ tx.prog = prog /\ tx.extend_to = ext
               /\ tx.footprint = fp /\ tx.restored = restored
  BY DEF create_transaction_data

(* What a recording declares as restored is not declared as read-only.     *)
LEMMA RecordedIs ==
    ASSUME NEW r, NEW prog, NEW sn, NEW q, NEW cfg, Recorded(r, prog, sn, q, cfg) # None
    PROVE  Recorded(r, prog, sn, q, cfg).restored
              \cap Recorded(r, prog, sn, q, cfg).footprint.read_only = {}
<1> DEFINE fp == r.s.footprint
           restored == Host(q, TRUE)!RestoredKeys(fp, sn)
           t == Recorded(r, prog, sn, q, cfg)
           f == storage_footprint_to_ledger_footprint(fp)
           changes == Host(q, TRUE)!get_ledger_changes(r.s, sn, restored)
           n == DiskReadBytes(Host(q, TRUE)!Listed(fp), restored, sn)
           w == WriteBytes(changes)
<1>1. /\ Host(q, TRUE)!RestoredAreReadWrite(fp, sn)
      /\ t = [footprint |-> f, restored |-> restored, changes |-> changes, instructions |-> Len(prog),
              disk_read_bytes |-> n, write_bytes |-> w]
  BY Zenon DEF Recorded
<1>2. \A k \in restored : fp[k] = "ReadWrite"
  BY <1>1 DEF Host!RestoredAreReadWrite
<1>3. f.read_only = {k \in Keys : fp[k] = "ReadOnly"}
  BY DEF storage_footprint_to_ledger_footprint
<1> HIDE DEF fp, restored, t, f, changes, n, w
<1>4. t.footprint = f /\ t.restored = restored
  BY <1>1
<1>5. restored \cap f.read_only = {}
  BY <1>2, <1>3
<1>6. t.restored \cap t.footprint.read_only = {}
  BY <1>4, <1>5
<1> QED BY <1>6 DEF t

(* A simulated invocation is one of a program of the model.                *)
LEMMA InvokeTx ==
    ASSUME NEW prog \in Programs, NEW snap, NEW q, NEW cfg,
           simulate_invoke_host_function_op(prog, snap, q, cfg) # None
    PROVE  TxOK(simulate_invoke_host_function_op(prog, snap, q, cfg))
<1> DEFINE sn == SimulationSnapshot(snap)
           r == Record(prog, sn, q, cfg)
           res == compute_adjusted_transaction_resources(r.footprint, r.restored, r.instructions,
                      r.disk_read_bytes, r.write_bytes, ReturnSize)
           fee == compute_resource_fee(cfg, q, res, extract_rent_changes(r.changes, sn))
           t == simulate_invoke_host_function_op(prog, snap, q, cfg)
<1>1. t = IF r = None THEN None
          ELSE create_transaction_data("invoke", prog, 0, r.footprint, r.restored, res, fee)
  BY Zenon DEF simulate_invoke_host_function_op, InvocationData
<1> HIDE DEF sn, r, res, fee, t
<1>2. r # None /\ t = create_transaction_data("invoke", prog, 0, r.footprint, r.restored, res, fee)
  BY <1>1 DEF t
<1>3. t.kind = "invoke" /\ t.prog = prog /\ t.footprint = r.footprint /\ t.restored = r.restored
  BY <1>2, TxParts
<1>4. r.restored \cap r.footprint.read_only = {}
  BY <1>2, RecordedIs DEF r, Record
<1>5. TxOK(t)
  BY <1>3, <1>4 DEF TxOK
<1> QED BY <1>5 DEF t

(* A simulated extension is by a number of ledgers, of Soroban entries.    *)
LEMMA ExtendTx ==
    ASSUME NEW ks, NEW ext \in Extensions, NEW sn, NEW q, NEW cfg,
           simulate_extend_ttl_op(ks, ext, sn, q, cfg) # None
    PROVE  TxOK(simulate_extend_ttl_op(ks, ext, sn, q, cfg))
<1> DEFINE t == simulate_extend_ttl_op(ks, ext, sn, q, cfg)
           extended == {k \in ks : Present(sn[k]) /\ sn[k].live < (q + ext) % (U32Max + 1)}
           fp == [read_only |-> extended, read_write |-> {}]
<1>1. \A k \in ks : ~Classic(k)
  BY Zenon DEF simulate_extend_ttl_op
<1>2. \E res, fee : t = create_transaction_data("extend", <<>>, ext, fp, {}, res, fee)
  BY Zenon DEF simulate_extend_ttl_op
<1>3. DeclaredKeys(fp) = extended
  BY DEF DeclaredKeys
<1> HIDE DEF t, fp
<1>4. t.kind = "extend" /\ t.extend_to = ext /\ t.footprint = fp
  BY <1>2, TxParts
<1>5. ext \in Nat
  BY RentAssumption
<1>6. \A k \in DeclaredKeys(t.footprint) : ~Classic(k)
  BY <1>1, <1>3, <1>4
<1>7. TxOK(t)
  BY <1>4, <1>5, <1>6 DEF TxOK
<1> QED BY <1>7 DEF t

(* A simulated restoration is of persistent entries.                       *)
LEMMA RestoreTx ==
    ASSUME NEW ks, NEW sn, NEW q, NEW cfg, simulate_restore_op(ks, sn, q, cfg) # None
    PROVE  TxOK(simulate_restore_op(ks, sn, q, cfg))
<1> DEFINE t == simulate_restore_op(ks, sn, q, cfg)
           back == {k \in ks : sn[k].live < q}
           fp == [read_only |-> {}, read_write |-> back]
<1>1. \A k \in ks : Durability[k] = "Persistent"
  BY Zenon DEF simulate_restore_op
<1>2. \E res, fee : t = create_transaction_data("restore", <<>>, 0, fp, {}, res, fee)
  BY Zenon DEF simulate_restore_op
<1>3. DeclaredKeys(fp) = back
  BY DEF DeclaredKeys
<1> HIDE DEF t, fp
<1>4. t.kind = "restore" /\ t.footprint = fp
  BY <1>2, TxParts
<1>5. \A k \in DeclaredKeys(t.footprint) : Durability[k] = "Persistent"
  BY <1>1, <1>3, <1>4
<1>6. TxOK(t)
  BY <1>4, <1>5 DEF TxOK
<1> QED BY <1>6 DEF t

(* A simulation that returns good transactions keeps the invariant.        *)
LEMMA SimulatedKeeps ==
    ASSUME RentInv, CanSimulate, NEW p, NEW all, Simulated(p, all), PlanOK(p)
    PROVE  RentInv'
<1>1. /\ plan' = p /\ seq' = seq /\ ledger' = ledger /\ settings' = settings
      /\ state_size' = state_size /\ credit' = credit /\ network # None
  BY DEF Simulated, CanSimulate
<1>2. network' = network
  BY <1>1 DEF network
<1>3. Soroban' = Soroban /\ SettingsOK'
  BY <1>1 DEF Soroban, Classic, SettingsOK, RentInv
<1> QED BY <1>1, <1>2, <1>3 DEF RentInv

(* One simulated operation.                                                *)
LEMMA OneKeeps ==
    ASSUME RentInv, CanSimulate, NEW t, NEW all, Simulated(<<t>>, all), t # None => TxOK(t)
    PROVE  RentInv'
<1>1. None \notin {<<t>>[i] : i \in DOMAIN <<t>>}
  BY DEF Simulated
<1>2. t # None
  BY <1>1
<1>3. PlanOK(<<t>>)
  BY <1>2 DEF PlanOK
<1> QED BY <1>3, SimulatedKeeps

(* Every simulation keeps the invariant.                                   *)
LEMMA SimulationsKeep ==
    ASSUME RentInv,
           \/ \E p \in Programs : SimulateInvoke(p) \/ SimulateWithAutoRestore(p)
           \/ \E ks \in SUBSET touched \ {{}} : SimulateRestore(ks) \/ \E x \in Extensions : SimulateExtend(ks, x)
    PROVE  RentInv'
<1>1. ASSUME NEW p \in Programs, SimulateInvoke(p) PROVE RentInv'
  <2> DEFINE t == simulate_invoke_host_function_op(p, ledger, seq, network)
  <2>1. CanSimulate /\ Simulated(<<t>>, CountsAll(p, SimulationSnapshot(ledger)))
    BY <1>1 DEF SimulateInvoke
  <2>2. t # None => TxOK(t)
    BY InvokeTx
  <2> HIDE DEF t
  <2> QED BY <2>1, <2>2, OneKeeps
<1>2. ASSUME NEW p \in Programs, SimulateWithAutoRestore(p) PROVE RentInv'
  <2> DEFINE sn == AutoRestoringSnapshot(ledger, seq)
             t == simulate_invoke_host_function_op(p, sn, seq, network)
             ks == {k \in DeclaredKeys(t.footprint) : ~Classic(k) /\ Ended(ledger[k], seq)
                                                   /\ Durability[k] = "Persistent"}
             u == simulate_restore_op(ks, ledger, seq, network)
             q == RestoreThen(t, ledger, seq, network)
             all == CountsAll(p, SimulationSnapshot(sn))
  <2>1. CanSimulate /\ Simulated(q, all)
    BY <1>2 DEF SimulateWithAutoRestore, simulate_with_auto_restore
  <2>2. q = IF t = None THEN <<>> ELSE IF ks = {} THEN <<t>> ELSE <<u, t>>
    BY Zenon DEF RestoreThen
  <2>3. t # None => TxOK(t)
    BY InvokeTx
  <2>4. u # None => TxOK(u)
    BY RestoreTx
  <2> HIDE DEF sn, t, ks, u, q, all
  <2>5. q # <<>> /\ None \notin {q[i] : i \in DOMAIN q}
    BY <2>1 DEF Simulated
  <2>6. CASE q = <<t>>
    BY <2>1, <2>3, <2>6, OneKeeps
  <2>7. CASE q = <<u, t>> /\ t # None
    <3>1. u # None
      <4>1. 1 \in DOMAIN q /\ q[1] = u
        BY <2>7
      <4> QED BY <2>5, <4>1
    <3>2. PlanOK(q)
      BY <2>3, <2>4, <2>7, <3>1 DEF PlanOK
    <3> QED BY <2>1, <3>2, SimulatedKeeps
  <2> QED BY <2>2, <2>5, <2>6, <2>7
<1>3. ASSUME NEW ks, SimulateRestore(ks) PROVE RentInv'
  <2> DEFINE t == simulate_restore_op(ks, SimulationSnapshot(ledger), seq, network)
  <2>1. CanSimulate /\ Simulated(<<t>>, TRUE)
    BY <1>3 DEF SimulateRestore
  <2>2. t # None => TxOK(t)
    BY RestoreTx
  <2> HIDE DEF t
  <2> QED BY <2>1, <2>2, OneKeeps
<1>4. ASSUME NEW ks, NEW x \in Extensions, SimulateExtend(ks, x) PROVE RentInv'
  <2> DEFINE t == simulate_extend_ttl_op(ks, x, SimulationSnapshot(ledger), seq, network)
  <2>1. CanSimulate /\ Simulated(<<t>>, TRUE)
    BY <1>4 DEF SimulateExtend
  <2>2. t # None => TxOK(t)
    BY ExtendTx
  <2> HIDE DEF t
  <2> QED BY <2>1, <2>2, OneKeeps
<1> QED BY <1>1, <1>2, <1>3, <1>4

-----------------------------------------------------------------------------
(* Invocations.                                                            *)

(* The change e of k has these sizes and live-until ledgers.               *)
Made(k, e, os, ns, ol, nl) ==
    /\ IsChange(e) /\ e.persistent = (Durability[k] = "Persistent") /\ e.code = (k \in CodeKeys)
    /\ e.old_size = os /\ e.new_size = ns /\ e.old_live = ol /\ e.new_live = nl

(* The changes that are charged for, seen from k.                          *)
Charged(k, rent, os, ns, ol, nl) ==
    /\ k \in DOMAIN rent <=> ol < nl \/ os < ns
    /\ k \in DOMAIN rent => Made(k, rent[k], os, ns, ol, nl)

(* A change of k, as the model writes it.                                  *)
LEMMA MadeOf ==
    ASSUME NEW k, NEW os \in Nat, NEW ns \in Nat, NEW ol \in Nat, NEW nl \in Nat, NEW e,
           e = [persistent |-> Durability[k] = "Persistent", code |-> k \in CodeKeys,
                old_size |-> os, new_size |-> ns, old_live |-> ol, new_live |-> nl]
    PROVE  Made(k, e, os, ns, ol, nl)
<1> DEFINE p == Durability[k] = "Persistent"
           d == k \in CodeKeys
<1>1. p \in BOOLEAN /\ d \in BOOLEAN
  OBVIOUS
<1>2. e = [persistent |-> p, code |-> d, old_size |-> os, new_size |-> ns, old_live |-> ol, new_live |-> nl]
  OBVIOUS
<1> HIDE DEF p, d
<1>3. Fields(e, p, d, os, ns, ol, nl)
  BY <1>1, <1>2, ChangeIs
<1> QED BY <1>3 DEF Fields, Made, p, d

(* The rent change of a ledger change.                                     *)
LEMMA RentIs ==
    ASSUME NEW k \in Soroban, NEW changes, NEW init, k \in DOMAIN changes,
           NEW os \in Nat, NEW ns \in Nat, NEW ol \in Nat, NEW nl \in Nat,
           RentChange(k, changes[k], init)
             = [persistent |-> Durability[k] = "Persistent", code |-> k \in CodeKeys,
                old_size |-> os, new_size |-> ns, old_live |-> ol, new_live |-> nl]
    PROVE  Charged(k, extract_rent_changes(changes, init), os, ns, ol, nl)
<1> DEFINE e == RentChange(k, changes[k], init)
           all == [j \in {i \in DOMAIN changes : ~Classic(i)} |-> RentChange(j, changes[j], init)]
           D == {j \in DOMAIN all : \/ all[j].old_live < all[j].new_live
                                    \/ all[j].old_size < all[j].new_size}
           rent == [j \in D |-> all[j]]
<1>1. Made(k, e, os, ns, ol, nl)
  BY MadeOf
<1>2. extract_rent_changes(changes, init) = rent
  BY Zenon DEF extract_rent_changes
<1>3. k \in DOMAIN all /\ all[k] = e
  BY DEF Soroban
<1> HIDE DEF e, all
<1>4. DOMAIN rent = D /\ (k \in D => rent[k] = e)
  BY <1>3
<1>5. k \in D <=> e.old_live < e.new_live \/ e.old_size < e.new_size
  BY <1>3
<1>6. k \in D <=> ol < nl \/ os < ns
  BY <1>1, <1>5 DEF Made
<1> HIDE DEF D, rent
<1>7. Charged(k, rent, os, ns, ol, nl)
  BY <1>1, <1>4, <1>6 DEF Charged
<1> QED BY <1>2, <1>7

(* A key with no change has no rent change.                                *)
LEMMA NoRentIs ==
    ASSUME NEW k, NEW changes, NEW init, k \notin DOMAIN changes
    PROVE  k \notin DOMAIN extract_rent_changes(changes, init)
  BY DEF extract_rent_changes

(* What a written entry that exists pays.                                  *)
LEMMA WrittenPays ==
    ASSUME RentInv, NEW k \in Soroban, NEW c, LiveCell(c, seq), NEW rent, NEW written,
           k \in DOMAIN written, written[k] = c.val,
           NEW os \in Nat, NEW ol \in Nat, NEW nl \in Nat, nl >= seq, nl - seq + 1 <= LongestLife,
           Charged(k, rent, os, entry_size_for_rent(k, c.val), ol, nl),
           \/ ol = 0 /\ os = 0
           \/ /\ ledger[k] # None /\ ledger[k].live >= seq /\ ol = ledger[k].live /\ nl >= ol
              /\ os = entry_size_for_rent(k, ledger[k].val)
    PROVE  Pays(k, Applied(ledger, rent, written)[k], rent)
<1> DEFINE after == Applied(ledger, rent, written)
           v == c.val
           ns == entry_size_for_rent(k, v)
           l == ledger[k]
<1>1. k \in Keys /\ ~Classic(k) /\ seq \in Nat /\ seq >= 3
  BY DEF Soroban, RentInv, FirstLedger
<1>2. v \in Values /\ ns \in Nat
  <2>1. v \in Values
    BY DEF LiveCell
  <2> QED BY <1>1, <2>1, RentFits
<1>3. v # None
  BY <1>2, RentAssumption
<1>4. after[k] = [val |-> v, live |-> IF k \in DOMAIN rent THEN rent[k].new_live ELSE l.live]
  BY <1>1, <1>3 DEF Applied
<1>5. k \in DOMAIN rent <=> ol < nl \/ os < ns
  BY DEF Charged
<1>6. k \in DOMAIN rent => Made(k, rent[k], os, ns, ol, nl)
  BY DEF Charged
<1> DEFINE w == after[k]
<1> HIDE DEF after, v, ns, l, w
<1>7. CASE k \in DOMAIN rent
  <2>1. Made(k, rent[k], os, ns, ol, nl)
    BY <1>6, <1>7
  <2>2. w = [val |-> v, live |-> nl]
    BY <1>4, <1>7, <2>1 DEF Made, w
  <2>3. LiveCell(w, seq) /\ w.live = nl /\ w.val = v
    BY <1>1, <1>2, <2>2 DEF LiveCell
  <2>4. entry_is_new(rent[k]) \/ (/\ l # None /\ l.live >= seq /\ rent[k].old_live = l.live
                                  /\ rent[k].old_size = entry_size_for_rent(k, l.val)
                                  /\ rent[k].new_live >= rent[k].old_live)
    BY <2>1 DEF Made, entry_is_new, l
  <2>5. ChangePays(k, w, rent[k])
    BY <2>1, <2>3, <2>4 DEF ChangePays, Made, ns, l
  <2> QED BY <1>7, <2>5 DEF Pays, w, after
<1>8. CASE k \notin DOMAIN rent
  <2>1. ~(ol < nl) /\ ~(os < ns)
    BY <1>5, <1>8
  <2>2. /\ l # None /\ l.live >= seq /\ ol = l.live /\ nl >= ol
        /\ os = entry_size_for_rent(k, l.val)
    BY <1>1, <2>1 DEF l
  <2>3. l.live = nl /\ ns <= os
    BY <1>2, <2>1, <2>2
  <2>4. w = [val |-> v, live |-> nl]
    BY <1>4, <1>8, <2>3 DEF w
  <2>5. LiveCell(w, seq) /\ w.live = nl /\ w.val = v
    BY <1>1, <1>2, <2>4 DEF LiveCell
  <2>6. entry_size_for_rent(k, w.val) <= entry_size_for_rent(k, l.val)
    BY <2>2, <2>3, <2>5 DEF ns
  <2> QED BY <1>8, <2>2, <2>3, <2>5, <2>6 DEF Pays, w, after, l
<1> QED BY <1>7, <1>8

(* What an entry that is read and may have been extended pays.             *)
LEMMA ReadPays ==
    ASSUME RentInv, NEW k \in Soroban, NEW rent, NEW written, k \notin DOMAIN written,
           ledger[k] # None, ledger[k].live >= seq,
           NEW nl \in Nat, nl >= ledger[k].live, nl - seq + 1 <= LongestLife,
           Charged(k, rent, entry_size_for_rent(k, ledger[k].val),
                   entry_size_for_rent(k, ledger[k].val), ledger[k].live, nl)
    PROVE  Pays(k, Applied(ledger, rent, written)[k], rent)
<1> DEFINE l == ledger[k]
           size == entry_size_for_rent(k, l.val)
           w == Applied(ledger, rent, written)[k]
<1>1. k \in Keys /\ seq \in Nat /\ seq >= 3
  BY DEF Soroban, RentInv, FirstLedger
<1>2. EntryOK(l, seq)
  BY DEF RentInv
<1>3. w = IF k \in DOMAIN rent THEN [l EXCEPT !.live = rent[k].new_live] ELSE l
  BY <1>1 DEF Applied
<1>4. k \in DOMAIN rent => Made(k, rent[k], size, size, l.live, nl)
  BY DEF Charged
<1>5. l # None /\ l.live >= seq /\ nl >= l.live
  OBVIOUS
<1> HIDE DEF l, size, w
<1>6. CASE k \notin DOMAIN rent
  <2>1. w = l
    BY <1>3, <1>6
  <2> QED BY <1>6, <2>1 DEF Pays, w, l
<1>7. CASE k \in DOMAIN rent
  <2>1. Made(k, rent[k], size, size, l.live, nl)
    BY <1>4, <1>7
  <2>2. w = [l EXCEPT !.live = nl]
    BY <1>3, <1>7, <2>1 DEF Made
  <2>3. LiveCell(w, seq) /\ w.live = nl /\ w.val = l.val
    <3>1. l.live \in Nat /\ l.val \in Values /\ l \in [val : Values, live : Nat]
      BY <1>2 DEF EntryOK
    <3>2. nl >= seq
      BY <1>1, <1>5, <3>1
    <3> QED BY <2>2, <3>1, <3>2 DEF LiveCell
  <2>4. ChangePays(k, w, rent[k])
    BY <1>5, <2>1, <2>3 DEF ChangePays, Made, size, l
  <2> QED BY <1>7, <2>4 DEF Pays, w
<1> QED BY <1>6, <1>7

(* The entry s that the embedder supplies for the listed key k.            *)
SuppliedCell(k, s) ==
    \/ ledger[k] = None /\ s = None
    \/ ledger[k] # None /\ ledger[k].live >= seq /\ s = ledger[k]
    \/ ledger[k] # None /\ ledger[k].live < seq /\ Durability[k] # "Persistent" /\ s = None
    \/ /\ ledger[k] # None /\ ledger[k].live < seq /\ Durability[k] = "Persistent"
       /\ LiveCell(s, seq) /\ s.live = Host(seq, FALSE)!min_live_until_ledger("Persistent")

(* An entry of the ledger is archived when it is persistent and expired.   *)
LEMMA ArchivedIs ==
    ASSUME RentInv, NEW k \in Soroban
    PROVE  /\ Host(seq, FALSE)!IsExpired(k, ledger[k]) <=> ledger[k] # None /\ ledger[k].live < seq
           /\ Host(seq, FALSE)!IsArchived(k, ledger[k])
                <=> ledger[k] # None /\ ledger[k].live < seq /\ Durability[k] = "Persistent"
<1>1. Durability[k] # "Classic"
  BY DEF Soroban, Classic
<1>2. ledger[k] = None \/ ledger[k] \in [val : Values, live : Int]
  BY DEF RentInv, EntryOK
<1>3. ledger[k] # Unloaded
  BY <1>2, RentAssumption
<1>4. Host(seq, FALSE)!IsExpired(k, ledger[k]) <=> ledger[k] # None /\ ledger[k].live < seq
  BY <1>1, <1>3 DEF Host!IsExpired, Host!HasTtl, Host!Exists
<1> QED BY <1>4 DEF Host!IsArchived

(* What the embedder supplies for a listed key.                            *)
LEMMA SuppliedIs ==
    ASSUME RentInv, NEW fp, NEW k \in Soroban, fp[k] # "NotListed"
    PROVE  SuppliedCell(k, Host(seq, FALSE)!Supplied(fp, CoreLoads, TRUE)[k])
<1> DEFINE l == ledger[k]
           s == Host(seq, FALSE)!Supplied(fp, CoreLoads, TRUE)[k]
           min == Host(seq, FALSE)!min_live_until_ledger("Persistent")
<1>1. k \in Keys /\ ~Classic(k) /\ seq \in Nat
  BY DEF Soroban, RentInv
<1>2. CoreLoads[k] = l
  BY <1>1 DEF CoreLoads
<1>3. s = IF ~Host(seq, FALSE)!IsExpired(k, l) THEN l
          ELSE IF ~Host(seq, FALSE)!IsArchived(k, l) THEN None
          ELSE [l EXCEPT !.live = min]
  BY <1>1, <1>2 DEF Host!Supplied
<1>4. /\ Host(seq, FALSE)!IsExpired(k, l) <=> l # None /\ l.live < seq
      /\ Host(seq, FALSE)!IsArchived(k, l) <=> l # None /\ l.live < seq /\ Durability[k] = "Persistent"
  BY ArchivedIs
<1>5. l = None \/ EntryOK(l, seq)
  BY DEF RentInv
<1>6. min \in Nat /\ min >= seq /\ min - seq + 1 <= LongestLife
  BY <1>1, TtlBounds
<1> HIDE DEF l, s, min
<1>7. CASE l = None
  BY <1>3, <1>4, <1>7 DEF SuppliedCell, s, l
<1>8. CASE l # None /\ ~(l.live < seq)
  <2>1. l.live >= seq
    BY <1>1, <1>5, <1>8 DEF EntryOK
  <2> QED BY <1>3, <1>4, <1>8, <2>1 DEF SuppliedCell, s, l
<1>9. CASE l # None /\ l.live < seq /\ Durability[k] # "Persistent"
  BY <1>3, <1>4, <1>9 DEF SuppliedCell, s, l
<1>10. CASE l # None /\ l.live < seq /\ Durability[k] = "Persistent"
  <2>1. s = [l EXCEPT !.live = min]
    BY <1>3, <1>4, <1>10
  <2>2. LiveCell(s, seq) /\ s.live = min
    BY <1>5, <1>6, <1>10, <2>1 DEF LiveCell, EntryOK
  <2> QED BY <1>10, <2>2 DEF SuppliedCell, s, l, min
<1> QED BY <1>7, <1>8, <1>9, <1>10

(* A supplied entry is live.                                               *)
LEMMA SuppliedLives ==
    ASSUME RentInv, NEW k \in Soroban, NEW s, SuppliedCell(k, s)
    PROVE  s = None \/ LiveCell(s, seq)
<1>1. ledger[k] = None \/ EntryOK(ledger[k], seq)
  BY DEF RentInv
<1> QED BY <1>1 DEF SuppliedCell, LiveCell, EntryOK

(* The storage an invocation starts from.                                  *)
LEMMA StartOK ==
    ASSUME RentInv, NEW fp
    PROVE  LET start == Host(seq, FALSE)!with_enforcing_footprint_and_map(fp,
                            Host(seq, FALSE)!Supplied(fp, CoreLoads, TRUE))
           IN  StoreOK(start, fp, start, seq)
<1> DEFINE supplied == Host(seq, FALSE)!Supplied(fp, CoreLoads, TRUE)
           m == [k \in Keys |-> IF fp[k] = "NotListed" THEN Unloaded ELSE supplied[k]]
           start == Host(seq, FALSE)!with_enforcing_footprint_and_map(fp, supplied)
<1>1. start = [footprint |-> fp, map |-> m, mode |-> "Enforcing"]
  BY DEF Host!with_enforcing_footprint_and_map, Host!build_storage_map
<1>2. m = [k \in Keys |-> m[k]]
  OBVIOUS
<1>3. ASSUME NEW k \in Soroban PROVE CellOK(m[k], fp[k], m[k], seq)
  <2>1. m[k] = IF fp[k] = "NotListed" THEN Unloaded ELSE supplied[k]
    BY DEF Soroban
  <2>2. ASSUME fp[k] # "NotListed" PROVE supplied[k] = None \/ LiveCell(supplied[k], seq)
    <3>1. SuppliedCell(k, supplied[k])
      BY <2>2, SuppliedIs
    <3> HIDE DEF supplied
    <3> QED BY <3>1, SuppliedLives
  <2> HIDE DEF supplied, m
  <2>3. CASE fp[k] = "NotListed"
    BY <2>1, <2>3 DEF CellOK
  <2>4. CASE fp[k] # "NotListed"
    <3> DEFINE c == m[k]
    <3>1. c = None \/ LiveCell(c, seq)
      BY <2>1, <2>2, <2>4
    <3>2. LiveCell(c, seq) => c.live \in Nat
      BY DEF LiveCell
    <3> HIDE DEF c
    <3>3. CellOK(c, fp[k], c, seq)
      BY <2>4, <3>1, <3>2 DEF CellOK
    <3> QED BY <3>3 DEF c
  <2> QED BY <2>3, <2>4
<1> HIDE DEF supplied, m, start
<1>4. start.footprint = fp /\ start.map = m /\ start.mode = "Enforcing"
  BY <1>1
<1>5. IsStore(start, fp)
  BY <1>1, <1>2, <1>4 DEF IsStore
<1>6. StoreOK(start, fp, start, seq)
  BY <1>3, <1>4, <1>5 DEF StoreOK
<1> QED BY <1>6 DEF start, supplied

Reports(ch, ro, v, ol, nl) ==
    ch.read_only = ro /\ ch.new_value = v /\ ch.old_live = ol /\ ch.new_live = nl

(* The change reported for a key that may only be read.                    *)
LEMMA ReadChange ==
    ASSUME NEW q, NEW k \in Soroban, NEW s, NEW init, NEW restored, s.footprint[k] = "ReadOnly"
    PROVE  LET Is(c) == Host(q, FALSE)!Exists(c)
               old == IF Is(init[k]) THEN init[k].live ELSE 0
           IN  Reports(Host(q, FALSE)!ledger_change(s, k, init, restored), TRUE, None, old,
                       IF Is(s.map[k]) THEN Host(q, FALSE)!MaxOf(s.map[k].live, old) ELSE 0)
<1>1. Host(q, FALSE)!HasTtl(k)
  BY DEF Host!HasTtl, Soroban, Classic
<1> DEFINE old == IF Host(q, FALSE)!Exists(init[k]) THEN init[k].live ELSE 0
           new == IF Host(q, FALSE)!Exists(s.map[k]) THEN Host(q, FALSE)!MaxOf(s.map[k].live, old) ELSE 0
           ch == Host(q, FALSE)!ledger_change(s, k, init, restored)
<1>2. Host(q, FALSE)!old_live_until(k, init[k]) = old
  BY <1>1 DEF Host!old_live_until
<1>3. ch = [read_only |-> TRUE, new_value |-> None, old_live |-> old, new_live |-> new]
  BY <1>1, <1>2, Zenon DEF Host!ledger_change
<1> HIDE DEF ch, old, new
<1>4. Reports(ch, TRUE, None, old, new)
  BY <1>3 DEF Reports
<1> QED BY <1>4 DEF ch, old, new

(* The change reported for a key that may be written.                      *)
LEMMA WriteChange ==
    ASSUME NEW q, NEW k \in Soroban, NEW s, NEW init, NEW restored, s.footprint[k] = "ReadWrite"
    PROVE  LET Is(c) == Host(q, FALSE)!Exists(c)
               old == IF Is(init[k]) THEN init[k].live ELSE 0
               new == IF Is(s.map[k]) THEN Host(q, FALSE)!MaxOf(s.map[k].live, old) ELSE 0
               back == k \in restored /\ Is(s.map[k])
           IN  Reports(Host(q, FALSE)!ledger_change(s, k, init, restored), FALSE,
                       IF Is(s.map[k]) THEN s.map[k].val ELSE None, IF back THEN 0 ELSE old,
                       IF back THEN Host(q, FALSE)!MaxOf(new, Host(q, FALSE)!min_live_until_ledger("Persistent"))
                       ELSE new)
<1>1. Host(q, FALSE)!HasTtl(k)
  BY DEF Host!HasTtl, Soroban, Classic
<1>2. s.footprint[k] # "ReadOnly"
  OBVIOUS
<1> DEFINE old == IF Host(q, FALSE)!Exists(init[k]) THEN init[k].live ELSE 0
           new == IF Host(q, FALSE)!Exists(s.map[k]) THEN Host(q, FALSE)!MaxOf(s.map[k].live, old) ELSE 0
           back == k \in restored /\ Host(q, FALSE)!Exists(s.map[k])
           v == IF Host(q, FALSE)!Exists(s.map[k]) THEN s.map[k].val ELSE None
           ol == IF back THEN 0 ELSE old
           nl == IF back THEN Host(q, FALSE)!MaxOf(new, Host(q, FALSE)!min_live_until_ledger("Persistent"))
                 ELSE new
           ch == Host(q, FALSE)!ledger_change(s, k, init, restored)
           ro == s.footprint[k] = "ReadOnly"
<1>3. Host(q, FALSE)!old_live_until(k, init[k]) = old
  BY <1>1 DEF Host!old_live_until
<1>4. ch = [read_only |-> ro, new_value |-> v, old_live |-> ol, new_live |-> nl]
  BY <1>1, <1>2, <1>3 DEF Host!ledger_change
<1>5. ro = FALSE
  BY <1>2
<1> HIDE DEF ch, ro, v, ol, nl
<1>6. Reports(ch, FALSE, v, ol, nl)
  BY <1>4, <1>5 DEF Reports
<1> QED BY <1>6 DEF ch, v, ol, nl

WrittenOf(changes) == [k \in {j \in DOMAIN changes : ~changes[j].read_only} |-> changes[k].new_value]

(* The rent change of a reported change, when the old entry counts and     *)
(* when it does not.                                                       *)
LEMMA RentOfReport ==
    ASSUME NEW k \in Soroban, NEW changes, NEW init, k \in DOMAIN changes,
           NEW ro, NEW v, NEW ol \in Nat, NEW nl \in Nat, Reports(changes[k], ro, v, ol, nl),
           NEW os \in Nat, NEW ns \in Nat,
           os = IF ol > 0 /\ init[k] # None THEN entry_size_for_rent(k, init[k].val) ELSE 0,
           ns = IF v = None THEN os ELSE entry_size_for_rent(k, v)
    PROVE  Charged(k, extract_rent_changes(changes, init), os, ns, ol, nl)
<1> DEFINE ch == changes[k]
           p == Durability[k] = "Persistent"
           d == k \in CodeKeys
           old == IF ch.old_live > 0 /\ Present(init[k]) THEN entry_size_for_rent(k, init[k].val) ELSE 0
           new == IF ch.new_value = None THEN old ELSE entry_size_for_rent(k, ch.new_value)
<1>1. ch.new_value = v /\ ch.old_live = ol /\ ch.new_live = nl
  BY DEF Reports
<1>2. RentChange(k, ch, init) = [persistent |-> p, code |-> d, old_size |-> old,
                                 new_size |-> new, old_live |-> ch.old_live, new_live |-> ch.new_live]
  BY Zenon DEF RentChange
<1>3. old = os
  BY <1>1 DEF Present
<1>4. new = ns
  BY <1>1, <1>3
<1> HIDE DEF ch, p, d, old, new
<1>5. RentChange(k, ch, init) = [persistent |-> p, code |-> d, old_size |-> os,
                                 new_size |-> ns, old_live |-> ol, new_live |-> nl]
  BY <1>1, <1>2, <1>3, <1>4
<1> QED BY <1>5, RentIs DEF ch, p, d

(* A key in the read-only footprint pays for its extension.                *)
LEMMA ReadOnlyPays ==
    ASSUME RentInv, NEW k \in Soroban, NEW s, NEW init, NEW archived, NEW changes,
           s.footprint[k] = "ReadOnly", CellOK(s.map[k], "ReadOnly", init[k], seq), SuppliedCell(k, init[k]),
           ~(ledger[k] # None /\ ledger[k].live < seq /\ Durability[k] = "Persistent"),
           k \in DOMAIN changes, changes[k] = Host(seq, FALSE)!ledger_change(s, k, init, archived)
    PROVE  LET rent == extract_rent_changes(changes, init)
           IN  Pays(k, Applied(ledger, rent, WrittenOf(changes))[k], rent)
<1> DEFINE c == s.map[k]
           i == init[k]
           l == ledger[k]
           ch == changes[k]
           rent == extract_rent_changes(changes, init)
           written == WrittenOf(changes)
           old == IF Host(seq, FALSE)!Exists(i) THEN i.live ELSE 0
           new == IF Host(seq, FALSE)!Exists(c) THEN Host(seq, FALSE)!MaxOf(c.live, old) ELSE 0
<1>1. Reports(ch, TRUE, None, old, new)
  BY ReadChange
<1>2. k \notin DOMAIN written
  BY <1>1 DEF Reports, WrittenOf
<1>3. k \in Keys /\ seq \in Nat /\ seq >= 3
  BY DEF Soroban, RentInv, FirstLedger
<1>4. /\ c = None \/ LiveCell(c, seq)
      /\ c = None <=> i = None
      /\ c # None => LiveCell(i, seq) /\ c.val = i.val /\ c.live >= i.live
  BY DEF CellOK
<1>5. c # None => l # None /\ l.live >= seq /\ i = l
  BY <1>4 DEF SuppliedCell
<1>6. l = None \/ EntryOK(l, seq)
  BY DEF RentInv
<1>7. \A x : LiveCell(x, seq) => Host(seq, FALSE)!Exists(x)
  BY LiveCellExists
<1>8. ~Host(seq, FALSE)!Exists(None)
  BY DEF Host!Exists
<1> HIDE DEF c, i, l, ch, old, new, written, rent
<1>9. CASE c = None
  <2>1. old = 0 /\ new = 0 /\ i = None
    BY <1>4, <1>8, <1>9 DEF old, new
  <2>2. Reports(ch, TRUE, None, 0, 0)
    BY <1>1, <2>1
  <2>3. Charged(k, rent, 0, 0, 0, 0)
    BY <2>1, <2>2, RentOfReport DEF ch, rent, i
  <2>4. k \notin DOMAIN rent
    BY <2>3 DEF Charged
  <2>5. Applied(ledger, rent, written)[k] = l
    BY <1>2, <1>3, <2>4 DEF Applied, l
  <2>6. Pays(k, Applied(ledger, rent, written)[k], rent)
    BY <2>4, <2>5 DEF Pays, l
  <2> QED BY <2>6 DEF rent, written
<1>10. CASE c # None
  <2>1. LiveCell(c, seq) /\ LiveCell(i, seq) /\ i = l /\ l # None /\ l.live >= seq /\ c.live >= l.live
    BY <1>4, <1>5, <1>10
  <2>2. c.live \in Nat /\ c.live - seq + 1 <= LongestLife /\ l.live \in Nat /\ l.val \in Values
    BY <2>1 DEF LiveCell
  <2>3. old = l.live
    BY <1>7, <2>1 DEF old
  <2>4. new = c.live
    BY <1>7, <2>1, <2>2, <2>3 DEF new, Host!MaxOf
  <2> DEFINE size == entry_size_for_rent(k, l.val)
  <2>5. size \in Nat
    BY <1>3, <2>2, RentFits
  <2>6. l.live > 0 /\ i # None
    BY <1>3, <2>1, <2>2
  <2>7. Reports(ch, TRUE, None, l.live, c.live)
    BY <1>1, <2>3, <2>4
  <2>8. size = IF l.live > 0 /\ i # None THEN entry_size_for_rent(k, i.val) ELSE 0
    BY <2>1, <2>6
  <2> HIDE DEF size
  <2>9. Charged(k, rent, size, size, l.live, c.live)
    BY <2>2, <2>5, <2>7, <2>8, RentOfReport DEF ch, rent, i
  <2>10. Pays(k, Applied(ledger, rent, written)[k], rent)
    BY <1>2, <2>1, <2>2, <2>9, ReadPays DEF l, size
  <2> QED BY <2>10 DEF rent, written
<1> QED BY <1>9, <1>10

(* A key in the read-write footprint pays for what it adds.                *)
LEMMA ReadWritePays ==
    ASSUME RentInv, NEW k \in Soroban, NEW s, NEW init, NEW archived, NEW changes,
           s.footprint[k] = "ReadWrite", s.map[k] = None \/ LiveCell(s.map[k], seq), SuppliedCell(k, init[k]),
           k \in archived <=> ledger[k] # None /\ ledger[k].live < seq /\ Durability[k] = "Persistent",
           k \in DOMAIN changes, changes[k] = Host(seq, FALSE)!ledger_change(s, k, init, archived)
    PROVE  LET rent == extract_rent_changes(changes, init)
           IN  Pays(k, Applied(ledger, rent, WrittenOf(changes))[k], rent)
<1> DEFINE c == s.map[k]
           i == init[k]
           l == ledger[k]
           ch == changes[k]
           rent == extract_rent_changes(changes, init)
           written == WrittenOf(changes)
           min == Host(seq, FALSE)!min_live_until_ledger("Persistent")
           old == IF Host(seq, FALSE)!Exists(i) THEN i.live ELSE 0
           new == IF Host(seq, FALSE)!Exists(c) THEN Host(seq, FALSE)!MaxOf(c.live, old) ELSE 0
           back == k \in archived /\ Host(seq, FALSE)!Exists(c)
           v == IF Host(seq, FALSE)!Exists(c) THEN c.val ELSE None
           ol == IF back THEN 0 ELSE old
           nl == IF back THEN Host(seq, FALSE)!MaxOf(new, min) ELSE new
<1>1. Reports(ch, FALSE, v, ol, nl)
  <2>1. Reports(Host(seq, FALSE)!ledger_change(s, k, init, archived), FALSE, v, ol, nl)
    BY WriteChange, Zenon
  <2> QED BY <2>1
<1>2. k \in DOMAIN written /\ written[k] = v
  BY <1>1 DEF Reports, WrittenOf
<1>3. k \in Keys /\ ~Classic(k) /\ seq \in Nat /\ seq >= 3
  BY DEF Soroban, RentInv, FirstLedger
<1>4. c = None \/ LiveCell(c, seq)
  OBVIOUS
<1>5. /\ SuppliedCell(k, i)
      /\ k \in archived <=> l # None /\ l.live < seq /\ Durability[k] = "Persistent"
  OBVIOUS
<1>6. l = None \/ EntryOK(l, seq)
  BY DEF RentInv
<1>7. \A x : LiveCell(x, seq) => Host(seq, FALSE)!Exists(x)
  BY LiveCellExists
<1>8. ~Host(seq, FALSE)!Exists(None)
  BY DEF Host!Exists
<1>9. min \in Nat /\ min >= seq /\ min - seq + 1 <= LongestLife /\ LongestLife \in Nat
  BY <1>3, TtlBounds
<1>10. \A a, b \in Nat : LET x == Host(seq, FALSE)!MaxOf(a, b) IN
          /\ x \in Nat /\ x >= a /\ x >= b
          /\ a >= seq /\ a - seq + 1 <= LongestLife /\ (b = 0 \/ b - seq + 1 <= LongestLife)
               => x >= seq /\ x - seq + 1 <= LongestLife
  <2> TAKE a, b \in Nat
  <2> DEFINE x == Host(seq, FALSE)!MaxOf(a, b)
  <2>1. x = IF a >= b THEN a ELSE b
    BY DEF Host!MaxOf
  <2> HIDE DEF x
  <2>2. x \in Nat /\ x >= a /\ x >= b /\ (x = a \/ x = b)
    BY <2>1
  <2>3. a >= seq /\ a - seq + 1 <= LongestLife /\ (b = 0 \/ b - seq + 1 <= LongestLife)
               => x >= seq /\ x - seq + 1 <= LongestLife
    BY <1>3, <1>9, <2>2
  <2> QED BY <2>2, <2>3 DEF x
<1> HIDE DEF c, i, l, ch, rent, written, min
<1>11. CASE c = None
  <2>1. v = None
    BY <1>8, <1>11
  <2> HIDE DEF v
  <2>2. Applied(ledger, rent, written)[k] = None
    BY <1>2, <1>3, <2>1 DEF Applied
  <2>3. Pays(k, Applied(ledger, rent, written)[k], rent)
    BY <2>2 DEF Pays
  <2> QED BY <2>3 DEF rent, written
<1>12. CASE c # None
  <2>1. LiveCell(c, seq) /\ Host(seq, FALSE)!Exists(c)
    BY <1>4, <1>7, <1>12
  <2>2. c.live \in Nat /\ c.live >= seq /\ c.live - seq + 1 <= LongestLife /\ c.val \in Values
    BY <2>1 DEF LiveCell
  <2>3. v = c.val /\ v # None
    BY <2>1, <2>2, RentAssumption
  <2>4. new = Host(seq, FALSE)!MaxOf(c.live, old) /\ (back <=> k \in archived)
    BY <2>1
  <2> DEFINE ns == entry_size_for_rent(k, c.val)
  <2>5. ns \in Nat
    BY <1>3, <2>2, RentFits
  <2> HIDE DEF ns, v, back, new
  <2>6. CASE k \in archived
    <3>1. LiveCell(i, seq) /\ i.live \in Nat /\ i.live - seq + 1 <= LongestLife
      <4>1. l # None /\ l.live < seq /\ Durability[k] = "Persistent"
        BY <1>5, <2>6
      <4>2. l.live \in Nat
        BY <1>6, <4>1 DEF EntryOK
      <4>3. ~(l.live >= seq)
        BY <1>3, <4>1, <4>2
      <4>4. LiveCell(i, seq)
        BY <1>5, <4>1, <4>3 DEF SuppliedCell, l
      <4> QED BY <4>4 DEF LiveCell
    <3>2. old = i.live
      BY <1>7, <3>1
    <3> HIDE DEF old
    <3>3. new \in Nat /\ new >= seq /\ new - seq + 1 <= LongestLife
      BY <1>10, <2>2, <2>4, <3>1, <3>2
    <3>4. nl = Host(seq, FALSE)!MaxOf(new, min) /\ ol = 0
      BY <2>4, <2>6
    <3>5. nl \in Nat /\ nl >= seq /\ nl - seq + 1 <= LongestLife
      <4> HIDE DEF nl, ol
      <4> QED BY <1>9, <1>10, <3>3, <3>4
    <3> HIDE DEF nl, ol
    <3>6. Reports(ch, FALSE, v, 0, nl)
      BY <1>1, <3>4
    <3>7. Charged(k, rent, 0, ns, 0, nl)
      <4>1. 0 = IF 0 > 0 /\ i # None THEN entry_size_for_rent(k, i.val) ELSE 0
        OBVIOUS
      <4>2. ns = IF v = None THEN 0 ELSE entry_size_for_rent(k, v)
        BY <2>3 DEF ns
      <4> QED BY <2>5, <3>5, <3>6, <4>1, <4>2, RentOfReport DEF ch, rent, i
    <3>8. Pays(k, Applied(ledger, rent, written)[k], rent)
      BY <1>2, <2>1, <2>3, <3>5, <3>7, WrittenPays DEF ns
    <3> QED BY <3>8 DEF rent, written
  <2>7. CASE k \notin archived
    <3>1. nl = new /\ ol = old
      BY <2>4, <2>7
    <3>2. i = None \/ (i = l /\ l # None /\ l.live >= seq)
      BY <1>5, <2>7 DEF SuppliedCell, l
    <3> HIDE DEF nl, ol
    <3>3. CASE i = None
      <4>1. old = 0
        BY <1>8, <3>3
      <4>2. nl \in Nat /\ nl >= seq /\ nl - seq + 1 <= LongestLife
        BY <1>10, <2>2, <2>4, <3>1, <4>1
      <4>3. Reports(ch, FALSE, v, 0, nl)
        BY <1>1, <3>1, <4>1
      <4>4. Charged(k, rent, 0, ns, 0, nl)
        <5>1. 0 = IF 0 > 0 /\ i # None THEN entry_size_for_rent(k, i.val) ELSE 0
          OBVIOUS
        <5>2. ns = IF v = None THEN 0 ELSE entry_size_for_rent(k, v)
          BY <2>3 DEF ns
        <5> QED BY <2>5, <4>2, <4>3, <5>1, <5>2, RentOfReport DEF ch, rent, i
      <4>5. Pays(k, Applied(ledger, rent, written)[k], rent)
        BY <1>2, <2>1, <2>3, <4>2, <4>4, WrittenPays DEF ns
      <4> QED BY <4>5 DEF rent, written
    <3>4. CASE i = l /\ l # None /\ l.live >= seq
      <4>1. LiveCell(l, seq)
        BY <1>6, <3>4 DEF EntryOK, LiveCell
      <4>2. l.live \in Nat /\ l.live - seq + 1 <= LongestLife /\ l.val \in Values /\ l.live > 0
        BY <1>3, <4>1 DEF LiveCell
      <4>3. old = l.live
        BY <1>7, <3>4, <4>1
      <4> DEFINE os == entry_size_for_rent(k, l.val)
      <4>4. os \in Nat
        BY <1>3, <4>2, RentFits
      <4> HIDE DEF old, os
      <4>5. nl \in Nat /\ nl >= seq /\ nl - seq + 1 <= LongestLife /\ nl >= l.live
        BY <1>10, <2>2, <2>4, <3>1, <4>2, <4>3
      <4>6. Reports(ch, FALSE, v, l.live, nl)
        BY <1>1, <3>1, <4>3
      <4>7. Charged(k, rent, os, ns, l.live, nl)
        <5>1. os = IF l.live > 0 /\ i # None THEN entry_size_for_rent(k, i.val) ELSE 0
          BY <3>4, <4>2 DEF os
        <5>2. ns = IF v = None THEN os ELSE entry_size_for_rent(k, v)
          BY <2>3 DEF ns
        <5> QED BY <2>5, <4>2, <4>4, <4>5, <4>6, <5>1, <5>2, RentOfReport DEF ch, rent, i
      <4>8. Pays(k, Applied(ledger, rent, written)[k], rent)
        BY <1>2, <2>1, <2>3, <3>4, <4>2, <4>4, <4>5, <4>7, WrittenPays DEF ns, os, l
      <4> QED BY <4>8 DEF rent, written
    <3> QED BY <3>2, <3>3, <3>4
  <2> QED BY <2>6, <2>7
<1> QED BY <1>11, <1>12

(* Every key of an invocation that is applied pays.                        *)
LEMMA InvokePays ==
    ASSUME RentInv, NEW tx, TxOK(tx), tx.kind = "invoke", NEW keys, keys = DeclaredKeys(tx.footprint),
           NEW archived, archived = {k \in keys : Host(seq, FALSE)!IsArchived(k, ledger[k])},
           archived \subseteq tx.restored,
           NEW fp, fp = build_storage_footprint_from_xdr(tx.footprint),
           NEW supplied, supplied = Host(seq, FALSE)!Supplied(fp, CoreLoads, TRUE),
           NEW start, start = Host(seq, FALSE)!with_enforcing_footprint_and_map(fp, supplied),
           NEW s, StoreOK(s, fp, start, seq),
           NEW changes, changes = Host(seq, FALSE)!get_ledger_changes(s, supplied, archived),
           NEW k \in Soroban
    PROVE  LET rent == extract_rent_changes(changes, supplied)
           IN  Pays(k, Applied(ledger, rent, WrittenOf(changes))[k], rent)
<1> DEFINE a == fp[k]
           c == s.map[k]
<1>1. k \in Keys
  BY DEF Soroban
<1>2. /\ a = IF k \in tx.footprint.read_only THEN "ReadOnly"
             ELSE IF k \in tx.footprint.read_write THEN "ReadWrite" ELSE "NotListed"
      /\ k \in keys <=> a # "NotListed"
  BY <1>1 DEF build_storage_footprint_from_xdr, DeclaredKeys
<1>3. CellOK(c, a, start.map[k], seq)
  BY DEF StoreOK
<1>4. a # "NotListed" => start.map[k] = supplied[k] /\ SuppliedCell(k, supplied[k])
  <2>1. start.map[k] = IF fp[k] = "NotListed" THEN Unloaded ELSE supplied[k]
    BY <1>1 DEF Host!with_enforcing_footprint_and_map, Host!build_storage_map
  <2>2. ASSUME a # "NotListed" PROVE SuppliedCell(k, supplied[k])
    BY <2>2, SuppliedIs
  <2> QED BY <2>1, <2>2
<1>5. s.footprint = fp /\ s.mode = "Enforcing"
  <2>1. s = [footprint |-> fp, map |-> s.map, mode |-> "Enforcing"]
    BY DEF StoreOK, IsStore
  <2> QED BY <2>1
<1>6. /\ DOMAIN changes = {j \in Keys : s.map[j] # Unloaded}
      /\ c # Unloaded => changes[k] = Host(seq, FALSE)!ledger_change(s, k, supplied, archived)
  <2>1. Host(seq, FALSE)!ChangedKeys(s) = {j \in Keys : s.map[j] # Unloaded}
    BY <1>5 DEF Host!ChangedKeys
  <2> DEFINE C(j) == IF s.map[j] = Unloaded THEN Host(seq, FALSE)!footprint_only_change(s, j)
                     ELSE Host(seq, FALSE)!ledger_change(s, j, supplied, archived)
  <2>2. changes = [j \in {j \in Keys : s.map[j] # Unloaded} |-> C(j)]
    BY <2>1, Zenon DEF Host!get_ledger_changes
  <2>3. c # Unloaded => C(k) = Host(seq, FALSE)!ledger_change(s, k, supplied, archived)
    OBVIOUS
  <2> HIDE DEF C
  <2> QED BY <1>1, <2>2, <2>3
<1>7. \A x : x = None \/ LiveCell(x, seq) => x # Unloaded
  BY LiveCellExists, RentAssumption
<1>8. k \in keys => (k \in archived <=> ledger[k] # None /\ ledger[k].live < seq /\ Durability[k] = "Persistent")
  BY ArchivedIs
<1>9. CASE a = "NotListed"
  <2> DEFINE rent == extract_rent_changes(changes, supplied)
             written == WrittenOf(changes)
  <2>1. c = Unloaded
    BY <1>3, <1>9 DEF CellOK
  <2>2. k \notin DOMAIN changes
    BY <1>6, <2>1
  <2>3. k \notin DOMAIN rent
    BY <2>2, NoRentIs
  <2>4. k \notin DOMAIN written
    BY <2>2 DEF WrittenOf
  <2> HIDE DEF rent, written
  <2>5. Applied(ledger, rent, written)[k] = ledger[k]
    BY <1>1, <2>3, <2>4 DEF Applied
  <2>6. Pays(k, Applied(ledger, rent, written)[k], rent)
    BY <2>3, <2>5 DEF Pays
  <2> QED BY <2>6 DEF rent, written
<1>10. CASE a = "ReadOnly"
  <2>1. k \in tx.footprint.read_only /\ k \in keys
    BY <1>2, <1>10
  <2>2. k \notin archived
    BY <2>1 DEF TxOK
  <2>3. CellOK(c, "ReadOnly", supplied[k], seq) /\ SuppliedCell(k, supplied[k])
    BY <1>3, <1>4, <1>10
  <2>4. c # Unloaded
    BY <1>7, <2>3 DEF CellOK
  <2>5. k \in DOMAIN changes /\ changes[k] = Host(seq, FALSE)!ledger_change(s, k, supplied, archived)
    BY <1>1, <1>6, <2>4
  <2>6. ~(ledger[k] # None /\ ledger[k].live < seq /\ Durability[k] = "Persistent")
    BY <1>8, <2>1, <2>2
  <2>7. s.footprint[k] = "ReadOnly"
    BY <1>5, <1>10
  <2> QED BY <2>3, <2>5, <2>6, <2>7, ReadOnlyPays
<1>11. CASE a = "ReadWrite"
  <2>1. k \in keys
    BY <1>2, <1>11
  <2>2. SuppliedCell(k, supplied[k]) /\ (c = None \/ LiveCell(c, seq))
    BY <1>3, <1>4, <1>11 DEF CellOK
  <2>3. k \in DOMAIN changes /\ changes[k] = Host(seq, FALSE)!ledger_change(s, k, supplied, archived)
    BY <1>1, <1>6, <1>7, <2>2
  <2>4. s.footprint[k] = "ReadWrite"
    BY <1>5, <1>11
  <2> QED BY <1>8, <2>1, <2>2, <2>3, <2>4, ReadWritePays
<1> QED BY <1>2, <1>9, <1>10, <1>11

(* An invocation keeps the invariant.                                      *)
LEMMA InvokeKeeps ==
    ASSUME RentInv, ExecuteInvoke
    PROVE  RentInv'
<1> DEFINE tx == Head(plan)
           keys == DeclaredKeys(tx.footprint)
           archived == {k \in keys : Host(seq, FALSE)!IsArchived(k, ledger[k])}
           fp == build_storage_footprint_from_xdr(tx.footprint)
           supplied == Host(seq, FALSE)!Supplied(fp, CoreLoads, TRUE)
           start == Host(seq, FALSE)!with_enforcing_footprint_and_map(fp, supplied)
           r == Exec(start, tx.prog, CoreLoads, seq, FALSE)
           changes == Host(seq, FALSE)!get_ledger_changes(r.s, supplied, archived)
           rent == extract_rent_changes(changes, supplied)
           written == WrittenOf(changes)
           works == /\ archived \subseteq tx.restored
                    /\ r.err = "Ok"
                    /\ DiskReadBytes(keys, archived, CoreLoads) <= tx.resources.disk_read_bytes
                    /\ WriteBytes(changes) <= tx.resources.write_bytes
<1>1. plan # <<>> /\ tx.kind = "invoke" /\ Settle(tx, works, rent, written)
  BY Zenon DEF ExecuteInvoke, WrittenOf
<1>2. TxOK(tx)
  BY <1>1, PlanTail DEF RentInv
<1>3. StoreOK(start, fp, start, seq)
  BY StartOK
<1>4. Program(tx.prog)
  <2>1. tx.prog \in Programs
    BY <1>1, <1>2 DEF TxOK
  <2> HIDE DEF tx
  <2> QED BY <2>1, RentAssumption
<1>5. seq \in Nat
  BY DEF RentInv
<1> DEFINE s == r.s
<1>6. StoreOK(s, fp, start, seq)
  <2> HIDE DEF start, fp, tx
  <2> QED BY <1>3, <1>4, <1>5, ExecKeeps
<1>7. ASSUME works, NEW k \in Soroban PROVE Pays(k, Applied(ledger, rent, written)[k], rent)
  <2>1. archived \subseteq tx.restored
    BY <1>7
  <2>2. changes = Host(seq, FALSE)!get_ledger_changes(s, supplied, archived)
    OBVIOUS
  <2>3. /\ keys = DeclaredKeys(tx.footprint)
        /\ archived = {j \in keys : Host(seq, FALSE)!IsArchived(j, ledger[j])}
        /\ fp = build_storage_footprint_from_xdr(tx.footprint)
        /\ supplied = Host(seq, FALSE)!Supplied(fp, CoreLoads, TRUE)
        /\ start = Host(seq, FALSE)!with_enforcing_footprint_and_map(fp, supplied)
    OBVIOUS
  <2>4. rent = extract_rent_changes(changes, supplied) /\ written = WrittenOf(changes)
    OBVIOUS
  <2> HIDE DEF tx, keys, archived, fp, supplied, start, s, r, changes, rent, written
  <2>5. LET e == extract_rent_changes(changes, supplied)
        IN  Pays(k, Applied(ledger, e, WrittenOf(changes))[k], e)
    BY <1>1, <1>2, <1>6, <2>1, <2>2, <2>3, InvokePays
  <2> QED BY <2>4, <2>5
<1> HIDE DEF tx, works, rent, written
<1> QED BY <1>1, <1>7, SettleKeeps

(* Every step keeps the invariant.                                         *)
LEMMA NextKeeps ==
    ASSUME RentInv, [Next]_vars
    PROVE  RentInv'
<1>1. CASE \/ \E p \in Programs : SimulateInvoke(p) \/ SimulateWithAutoRestore(p)
           \/ \E ks \in SUBSET touched \ {{}} : SimulateRestore(ks) \/ \E x \in Extensions : SimulateExtend(ks, x)
  BY <1>1, SimulationsKeep
<1>2. CASE ExecuteInvoke
  BY <1>2, InvokeKeeps
<1>3. CASE ExecuteExtend
  BY <1>3, ExtendKeeps
<1>4. CASE ExecuteRestore
  BY <1>4, RestoreKeeps
<1>5. CASE CloseLedger
  BY <1>5, CloseKeeps
<1>6. CASE UNCHANGED vars
  <2>1. /\ seq' = seq /\ ledger' = ledger /\ settings' = settings /\ state_size' = state_size
        /\ plan' = plan /\ credit' = credit
    BY <1>6 DEF vars
  <2>2. network' = network /\ Soroban' = Soroban /\ SettingsOK'
    BY <2>1 DEF network, Soroban, Classic, SettingsOK, RentInv
  <2> QED BY <2>1, <2>2 DEF RentInv
<1> QED BY <1>1, <1>2, <1>3, <1>4, <1>5, <1>6 DEF Next

(* Rent is paid in advance (fees.rs, rent_fee_per_entry_change): whatever  *)
(* is simulated, declared, executed or refused, and however many ledgers   *)
(* close, the rent an entry has paid covers the current ledger and every   *)
(* ledger it will still live.                                              *)
THEOREM RentIsCovered == Spec => []RentCovered
<1>1. RentInv /\ [Next]_vars => RentInv'
  BY NextKeeps
<1> QED BY <1>1, InitInv, InvImplies, PTL DEF Spec

-----------------------------------------------------------------------------
(* A simulation suffices.  A recorded run of a program next to the         *)
(* enforced run of what it recorded: first, induction along a run.         *)

(* What the start has and every step keeps holds all along,                *)
LEMMA Upwards ==
    ASSUME NEW n \in Nat, NEW T, 0 \in T, \A i \in 1..n : i - 1 \in T => i \in T
    PROVE  0..n \subseteq T
<1> DEFINE W == {i \in 0..n : i \notin T}
<1>1. ASSUME W # {} PROVE FALSE
  <2>0. W \subseteq Nat
    OBVIOUS
  <2>1. PICK m \in W : \A j \in W : m <= j
    BY <1>1, <2>0, Least
  <2>2. m # 0
    OBVIOUS
  <2>3. m \in 1..n /\ m - 1 \in 0..n /\ m - 1 \notin W
    BY <2>1, <2>2
  <2> QED BY <2>3
<1> QED BY <1>1

(* also when a step looks back further,                                    *)
LEMMA Along ==
    ASSUME NEW n \in Nat, NEW T, 0 \in T, \A i \in 1..n : 0..(i - 1) \subseteq T => i \in T
    PROVE  0..n \subseteq T
<1> DEFINE W == {i \in 0..n : i \notin T}
<1>1. ASSUME W # {} PROVE FALSE
  <2>0. W \subseteq Nat
    OBVIOUS
  <2>1. PICK m \in W : \A j \in W : m <= j
    BY <1>1, <2>0, Least
  <2>2. m # 0
    OBVIOUS
  <2>3. m \in 1..n
    BY <2>2
  <2>4. 0..(m - 1) \subseteq T
    BY <2>1, <2>3
  <2> QED BY <2>3, <2>4
<1> QED BY <1>1

(* and what the end has and every step must have had held all along.       *)
LEMMA Downwards ==
    ASSUME NEW n \in Nat, NEW T, n \in T, \A i \in 1..n : i \in T => i - 1 \in T
    PROVE  0..n \subseteq T
<1> DEFINE W == {i \in 0..n : n - i \notin T}
<1>1. ASSUME W # {} PROVE FALSE
  <2>0. W \subseteq Nat
    OBVIOUS
  <2>1. PICK m \in W : \A j \in W : m <= j
    BY <1>1, <2>0, Least
  <2>2. m # 0
    OBVIOUS
  <2>3. n - m \in 0..n /\ n - m + 1 \in 1..n /\ m - 1 \in 0..n /\ m - 1 \notin W
    BY <2>1, <2>2
  <2>4. n - (m - 1) \in T /\ n - (m - 1) = n - m + 1
    BY <2>3
  <2>5. n - m + 1 \in T
    BY <2>4
  <2>6. (n - m + 1) - 1 \in T
    BY <2>3, <2>5
  <2>7. (n - m + 1) - 1 = n - m
    BY <2>3
  <2> QED BY <2>6, <2>7
<1>2. ASSUME NEW i \in 0..n PROVE i \in T
  <2>1. n - i \in 0..n /\ n - (n - i) = i
    OBVIOUS
  <2> QED BY <1>1, <2>1
<1> QED BY <1>2

(* The results of a program, call by call.                                 *)
IsRun(f, start, prog, sn, q, b) ==
    /\ f[0] = [s |-> start, err |-> "Ok", out |-> None]
    /\ \A i \in 1..Len(prog) : f[i] = Instruction(f, i, prog[i], sn, q, b)

RunsTo(start, prog, sn, q, b, r) == \E f : IsRun(f, start, prog, sn, q, b) /\ r = f[Len(prog)]

(* They lead to the result of the program.                                 *)
LEMMA ExecIs ==
    ASSUME NEW start, NEW prog, Program(prog), NEW sn, NEW q, NEW b
    PROVE  RunsTo(start, prog, sn, q, b, Exec(start, prog, sn, q, b))
<1> DEFINE n == Len(prog)
           F == CHOOSE f : Runs(start, prog, sn, q, b, f, n)
<1>0. n \in Nat /\ n \in 0..n
  BY DEF Program
<1>1. Runs(start, prog, sn, q, b, F, n)
  BY <1>0, RunsExist
<1>2. Exec(start, prog, sn, q, b) = F[n]
  BY DEF Exec, RunInstructions, Runs
<1> HIDE DEF F
<1>3. F[0] = [s |-> start, err |-> "Ok", out |-> None]
  BY <1>0, <1>1 DEF Runs
<1>4. \A i \in 1..n : F[i] = Instruction(F, i, prog[i], sn, q, b)
  <2> TAKE i \in 1..n
  <2>1. i \in 0..n /\ i # 0
    BY <1>0
  <2> QED BY <1>1, <2>1 DEF Runs
<1>5. IsRun(F, start, prog, sn, q, b)
  BY <1>3, <1>4, Zenon DEF IsRun
<1> QED BY <1>2, <1>5, Zenon DEF RunsTo

-----------------------------------------------------------------------------
(* The storage of a recording host.                                        *)

Entries == [val : Contents, live : Int]

(* A cell a program may see.                                               *)
LiveAt(k, c, q) == c = None \/ (c \in Entries /\ (~Classic(k) => c.live >= q))

SnapOK(sn) == \A k \in Keys : sn[k] = None \/ sn[k] \in Entries

(* What a read of an untouched key sees: an expired temporary entry is     *)
(* gone, an archived one is restored.                                      *)
Late(k, c, q) == ~Classic(k) /\ c # None /\ c.live < q

Seen(k, sn, q) ==
    IF ~Late(k, sn[k], q) THEN sn[k]
    ELSE IF Durability[k] = "Temporary" THEN None
    ELSE [sn[k] EXCEPT !.live = Host(q, TRUE)!min_live_until_ledger("Persistent")]

(* A loaded key is listed; a listed one is loaded unless a failed sub-call *)
(* loaded it.                                                              *)
RecOK(s, q) ==
    /\ s = [footprint |-> s.footprint, map |-> s.map, mode |-> "Recording"]
    /\ s.footprint \in [Keys -> {"NotListed", "ReadOnly", "ReadWrite"}]
    /\ s.map = [k \in Keys |-> s.map[k]]
    /\ \A k \in Keys : \/ s.map[k] = Unloaded
                       \/ s.footprint[k] # "NotListed" /\ LiveAt(k, s.map[k], q)

View(s, k, sn, q) == IF s.map[k] = Unloaded THEN Seen(k, sn, q) ELSE s.map[k]

(* s with the cell x and the access a for k.                               *)
Moved(s, k, x, a) ==
    [footprint |-> [s.footprint EXCEPT ![k] = a], map |-> [s.map EXCEPT ![k] = x], mode |-> "Recording"]

(* An access that may be recorded next.                                    *)
Access(s, k, a) == a \in {"ReadOnly", "ReadWrite"} /\ (s.footprint[k] = "ReadWrite" => a = "ReadWrite")

(* No addition to a ledger overflows.                                      *)
SoonEnough(q) == q \in Nat /\ q + LongestLife <= U32Max

(* Changing the parts of a storage.                                        *)
LEMMA Parts3 ==
    ASSUME NEW s, NEW f, NEW m, NEW d, s = [footprint |-> f, map |-> m, mode |-> d]
    PROVE  /\ s.footprint = f /\ s.map = m /\ s.mode = d
           /\ \A g : [s EXCEPT !.footprint = g] = [footprint |-> g, map |-> m, mode |-> d]
           /\ \A k, x : [s EXCEPT !.map[k] = x] = [footprint |-> f, map |-> [m EXCEPT ![k] = x], mode |-> d]
  OBVIOUS

(* Writing a key twice.                                                    *)
LEMMA MovedTwice ==
    ASSUME NEW s, NEW k, NEW x, NEW a, NEW y, NEW b
    PROVE  Moved(Moved(s, k, x, a), k, y, b) = Moved(s, k, y, b)
<1> DEFINE f == s.footprint
           m == s.map
<1>1. \A g, v, w : [[g EXCEPT ![k] = v] EXCEPT ![k] = w] = [g EXCEPT ![k] = w]
  OBVIOUS
<1>2. Moved(s, k, x, a).footprint = [f EXCEPT ![k] = a] /\ Moved(s, k, x, a).map = [m EXCEPT ![k] = x]
  BY DEF Moved
<1> QED BY <1>1, <1>2, Zenon DEF Moved

(* A recorded change keeps a recording storage in order.                   *)
LEMMA MovedOK ==
    ASSUME NEW s, NEW q, RecOK(s, q), NEW k \in Keys, NEW x, LiveAt(k, x, q), NEW a, Access(s, k, a)
    PROVE  LET u == Moved(s, k, x, a) IN
           /\ RecOK(u, q) /\ u.map[k] = x /\ u.footprint[k] = a
           /\ \A j \in Keys : j # k => u.map[j] = s.map[j] /\ u.footprint[j] = s.footprint[j]
<1> DEFINE u == Moved(s, k, x, a)
           f == [s.footprint EXCEPT ![k] = a]
           m == [s.map EXCEPT ![k] = x]
<1>1. /\ s.footprint \in [Keys -> {"NotListed", "ReadOnly", "ReadWrite"}]
      /\ s.map = [j \in Keys |-> s.map[j]]
  BY DEF RecOK
<1>2. /\ f \in [Keys -> {"NotListed", "ReadOnly", "ReadWrite"}]
      /\ f[k] = a /\ \A j \in Keys : j # k => f[j] = s.footprint[j]
  BY <1>1 DEF Access
<1>3. /\ m = [j \in Keys |-> m[j]]
      /\ m[k] = x /\ \A j \in Keys : j # k => m[j] = s.map[j]
  BY <1>1
<1>4. u = [footprint |-> f, map |-> m, mode |-> "Recording"] /\ u.footprint = f /\ u.map = m
  BY DEF Moved
<1>5. a # "NotListed"
  BY DEF Access
<1> HIDE DEF f, m, u
<1>6. \A j \in Keys : m[j] = Unloaded \/ (f[j] # "NotListed" /\ LiveAt(j, m[j], q))
  <2> TAKE j \in Keys
  <2>1. CASE j = k
    BY <1>2, <1>3, <1>5, <2>1
  <2>2. CASE j # k
    BY <1>2, <1>3, <2>2 DEF RecOK
  <2> QED BY <2>1, <2>2
<1>7. RecOK(u, q)
  BY <1>2, <1>3, <1>4, <1>6 DEF RecOK
<1> QED BY <1>2, <1>3, <1>4, <1>7 DEF u

(* Reads of a recording storage.                                           *)
LEMMA LateIs ==
    ASSUME NEW q, NEW k, NEW c, c # Unloaded
    PROVE  Late(k, c, q) <=> Host(q, TRUE)!IsExpired(k, c)
BY DEF Late, Classic, Host!IsExpired, Host!HasTtl, Host!Exists

(* An entry is neither absent nor unloaded.                                *)
LEMMA EntriesExist ==
    /\ None # Unloaded
    /\ \A c \in Entries : c # None /\ c # Unloaded
BY RentAssumption DEF Entries

(* The restored live-until ledger.                                         *)
LEMMA MinLive ==
    ASSUME NEW q, SoonEnough(q), NEW b, NEW d
    PROVE  LET m == Host(q, b)!min_live_until_ledger(d) IN
           /\ m \in Nat /\ m >= q /\ m <= U32Max /\ Host(q, b)!Fits(m)
           /\ m = Host(q, FALSE)!min_live_until_ledger(d)
           /\ m = Host(q, TRUE)!min_live_until_ledger(d)
<1> DEFINE m == Host(q, FALSE)!min_live_until_ledger(d)
<1>1. m \in Nat /\ m >= q /\ m - q + 1 <= LongestLife /\ LongestLife \in Nat /\ q \in Nat
  BY TtlBounds DEF SoonEnough
<1>2. /\ Host(q, b)!min_live_until_ledger(d) = m
      /\ Host(q, TRUE)!min_live_until_ledger(d) = m
  BY DEF Host!min_live_until_ledger, Host!saturating_sub
<1> HIDE DEF m
<1>3. m <= U32Max
  <2>1. q + LongestLife <= U32Max /\ U32Max \in Nat
    BY FeesAssumption DEF SoonEnough
  <2> QED BY <1>1, <2>1
<1>4. Host(q, b)!Fits(m)
  BY <1>3 DEF Host!Fits
<1> QED BY <1>1, <1>2, <1>3, <1>4 DEF m

(* Nothing a read finds is late.                                           *)
LEMMA SeenLives ==
    ASSUME NEW q, SoonEnough(q), NEW sn, SnapOK(sn), NEW k \in Keys
    PROVE  LiveAt(k, Seen(k, sn, q), q) /\ Seen(k, sn, q) # Unloaded
<1> DEFINE c == sn[k]
           live == Host(q, TRUE)!min_live_until_ledger("Persistent")
           e == [c EXCEPT !.live = live]
<1>1. c = None \/ c \in Entries
  BY DEF SnapOK
<1>2. live \in Nat /\ live >= q /\ q \in Nat
  BY MinLive DEF SoonEnough
<1> HIDE DEF live
<1>3. CASE ~Late(k, c, q)
  <2>1. Seen(k, sn, q) = c
    BY <1>3 DEF Seen
  <2>2. c \in Entries /\ ~Classic(k) => c.live \in Int /\ c.live >= q
    BY <1>2, <1>3, EntriesExist DEF Late, Entries
  <2> QED BY <1>1, <2>1, <2>2, EntriesExist DEF LiveAt
<1>4. CASE Late(k, c, q) /\ Durability[k] = "Temporary"
  BY <1>4, EntriesExist DEF Seen, LiveAt
<1>5. CASE Late(k, c, q) /\ Durability[k] # "Temporary"
  <2>1. Seen(k, sn, q) = e
    BY <1>5 DEF Seen, live
  <2>2. c \in Entries
    BY <1>1, <1>5 DEF Late
  <2>3. e \in Entries /\ e.live = live
    BY <1>2, <2>2 DEF Entries
  <2> QED BY <1>2, <2>1, <2>3, EntriesExist DEF LiveAt
<1> QED BY <1>3, <1>4, <1>5

(* What a program sees.                                                    *)
LEMMA ViewLives ==
    ASSUME NEW q, SoonEnough(q), NEW sn, SnapOK(sn), NEW s, RecOK(s, q), NEW k \in Keys
    PROVE  LiveAt(k, View(s, k, sn, q), q) /\ View(s, k, sn, q) # Unloaded
<1>1. s.map[k] # Unloaded => LiveAt(k, s.map[k], q)
  BY DEF RecOK
<1> QED BY <1>1, SeenLives DEF View

(* Footprint::record_access.                                               *)
LEMMA Recording ==
    ASSUME NEW q, NEW s, RecOK(s, q), NEW k \in Keys, NEW ty \in {"ReadOnly", "ReadWrite"}
    PROVE  LET u == Host(q, TRUE)!Access2(s, k, ty)
               a == IF s.footprint[k] = "ReadWrite" THEN "ReadWrite" ELSE ty
           IN  /\ u = [s |-> Moved(s, k, s.map[k], a), err |-> "Ok", out |-> None]
               /\ Access(s, k, a)
<1> DEFINE u == Host(q, TRUE)!Access2(s, k, ty)
           a == IF s.footprint[k] = "ReadWrite" THEN "ReadWrite" ELSE ty
           f == s.footprint
           m == s.map
<1>1. /\ s = [footprint |-> f, map |-> m, mode |-> "Recording"] /\ s.mode = "Recording"
      /\ m = [j \in Keys |-> m[j]]
  BY DEF RecOK
<1>2. Host(q, TRUE)!record_access(f, k, ty) = [f EXCEPT ![k] = a]
  BY DEF Host!record_access
<1>3. u = [s |-> [s EXCEPT !.footprint = [f EXCEPT ![k] = a]], err |-> "Ok", out |-> None]
  BY <1>1, <1>2 DEF Host!Access2, Host!Res
<1> HIDE DEF a, u
<1>4. [s EXCEPT !.footprint = [f EXCEPT ![k] = a]] = [footprint |-> [f EXCEPT ![k] = a], map |-> m, mode |-> "Recording"]
  BY <1>1, Parts3
<1>5. m = [m EXCEPT ![k] = m[k]]
  BY <1>1
<1>6. u = [s |-> Moved(s, k, m[k], a), err |-> "Ok", out |-> None]
  BY <1>3, <1>4, <1>5, Zenon DEF Moved
<1>7. Access(s, k, a)
  BY DEF Access, a
<1> QED BY <1>6, <1>7 DEF a, u

(* The cell c once the handler of expired entries has seen it.             *)
Handled(k, c, q) ==
    IF ~Late(k, c, q) THEN c
    ELSE IF Durability[k] = "Temporary" THEN None
    ELSE [c EXCEPT !.live = Host(q, TRUE)!min_live_until_ledger("Persistent")]

(* The access it leaves.                                                   *)
HandledAccess(k, c, a, q) == IF Late(k, c, q) /\ Durability[k] # "Temporary" THEN "ReadWrite" ELSE a

ReadAccess(s, k, sn, q) ==
    HandledAccess(k, IF s.map[k] = Unloaded THEN sn[k] ELSE s.map[k],
                  IF s.footprint[k] = "ReadWrite" THEN "ReadWrite" ELSE "ReadOnly", q)

(* The storage record s has these parts after a change of k.               *)
LEMMA MovedParts ==
    ASSUME NEW q, NEW s, RecOK(s, q), NEW k \in Keys, NEW x, NEW a
    PROVE  LET u == Moved(s, k, x, a) IN
           /\ u = [footprint |-> u.footprint, map |-> u.map, mode |-> "Recording"]
           /\ u.map[k] = x /\ u.footprint[k] = a /\ u.mode = "Recording"
           /\ u.footprint = [s.footprint EXCEPT ![k] = a] /\ u.map = [s.map EXCEPT ![k] = x]
<1>1. /\ s.footprint \in [Keys -> {"NotListed", "ReadOnly", "ReadWrite"}]
      /\ s.map = [j \in Keys |-> s.map[j]]
  BY DEF RecOK
<1> DEFINE f == [s.footprint EXCEPT ![k] = a]
           m == [s.map EXCEPT ![k] = x]
<1>2. f[k] = a /\ m[k] = x
  BY <1>1
<1> HIDE DEF f, m
<1>3. Moved(s, k, x, a) = [footprint |-> f, map |-> m, mode |-> "Recording"]
  BY DEF Moved, f, m
<1> QED BY <1>2, <1>3 DEF f, m

(* The cell of the key that was changed.                                   *)
LEMMA MovedCell ==
    \A q, s, x, a : \A k \in Keys : RecOK(s, q) => Moved(s, k, x, a).map[k] = x
<1> SUFFICES ASSUME NEW q, NEW s, NEW x, NEW a, NEW k \in Keys, RecOK(s, q)
             PROVE  Moved(s, k, x, a).map[k] = x
  OBVIOUS
<1>1. s.map = [j \in Keys |-> s.map[j]]
  BY DEF RecOK
<1> DEFINE m == [s.map EXCEPT ![k] = x]
<1>2. m[k] = x
  BY <1>1
<1> HIDE DEF m
<1>3. Moved(s, k, x, a).map = m
  BY DEF Moved, m
<1> QED BY <1>2, <1>3

(* Its access.                                                             *)
LEMMA MovedAccess ==
    \A q, s, x, a : \A k \in Keys : RecOK(s, q) => Moved(s, k, x, a).footprint[k] = a
<1> SUFFICES ASSUME NEW q, NEW s, NEW x, NEW a, NEW k \in Keys, RecOK(s, q)
             PROVE  Moved(s, k, x, a).footprint[k] = a
  OBVIOUS
<1>1. s.footprint \in [Keys -> {"NotListed", "ReadOnly", "ReadWrite"}]
  BY DEF RecOK
<1> DEFINE f == [s.footprint EXCEPT ![k] = a]
<1>2. f[k] = a
  BY <1>1
<1> HIDE DEF f
<1>3. Moved(s, k, x, a).footprint = f
  BY DEF Moved, f
<1> QED BY <1>2, <1>3

(* handle_maybe_expired_entry, after a read has been recorded.             *)
LEMMA Handling ==
    ASSUME NEW q, SoonEnough(q), NEW s, RecOK(s, q), NEW k \in Keys, NEW c, c # Unloaded,
           NEW a, Access(s, k, a)
    PROVE  LET b == HandledAccess(k, c, a, q) IN
           /\ Access(s, k, b)
           /\ Host(q, TRUE)!handle_maybe_expired_entry(Moved(s, k, c, a), k)
                = [s |-> Moved(s, k, Handled(k, c, q), b), err |-> "Ok", out |-> None]
<1> DEFINE u == Moved(s, k, c, a)
           live == Host(q, TRUE)!min_live_until_ledger("Persistent")
           e == [c EXCEPT !.live = live]
           h == Host(q, TRUE)!handle_maybe_expired_entry(u, k)
           w == [u EXCEPT !.footprint = Host(q, TRUE)!record_access(@, k, "ReadWrite")]
           late == Host(q, TRUE)!IsExpired(k, u.map[k])
           fits == Host(q, TRUE)!Fits(live)
           tmp == Durability[k] = "Temporary"
           n == [u EXCEPT !.map[k] = None]
           v == [w EXCEPT !.map[k] = [u.map[k] EXCEPT !.live = live]]
<1>1. h = IF ~TRUE \/ ~late THEN Host(q, TRUE)!Res(u, "Ok", None)
          ELSE IF tmp THEN Host(q, TRUE)!Res(n, "Ok", None)
          ELSE IF ~fits THEN Host(q, TRUE)!Res(w, "InternalError", None)
          ELSE Host(q, TRUE)!Res(v, "Ok", None)
  BY Zenon DEF Host!handle_maybe_expired_entry
<1>2. /\ u = [footprint |-> u.footprint, map |-> u.map, mode |-> "Recording"]
      /\ u.map[k] = c /\ u.footprint = [s.footprint EXCEPT ![k] = a] /\ u.map = [s.map EXCEPT ![k] = c]
      /\ u.footprint[k] = a
  BY MovedParts
<1>3. late <=> Late(k, c, q)
  BY <1>2, LateIs
<1>4. fits
  BY MinLive
<1>5. \A g, y, z : [[g EXCEPT ![k] = y] EXCEPT ![k] = z] = [g EXCEPT ![k] = z]
  OBVIOUS
<1>6. n = Moved(s, k, None, a)
  <2>1. n = [footprint |-> u.footprint, map |-> [u.map EXCEPT ![k] = None], mode |-> "Recording"]
    BY <1>2, Parts3
  <2>2. [u.map EXCEPT ![k] = None] = [s.map EXCEPT ![k] = None]
    BY <1>2, <1>5, Zenon
  <2> QED BY <1>2, <2>1, <2>2, Zenon DEF Moved
<1>7. v = Moved(s, k, e, "ReadWrite")
  <2> DEFINE g == Host(q, TRUE)!record_access(u.footprint, k, "ReadWrite")
  <2>1. g = [u.footprint EXCEPT ![k] = "ReadWrite"]
    BY DEF Host!record_access
  <2>2. [u.footprint EXCEPT ![k] = "ReadWrite"] = [s.footprint EXCEPT ![k] = "ReadWrite"]
    BY <1>2, <1>5, Zenon
  <2>3. w = [u EXCEPT !.footprint = g]
    OBVIOUS
  <2> HIDE DEF g, w
  <2>4. w = [footprint |-> g, map |-> u.map, mode |-> "Recording"]
    BY <1>2, <2>3, Parts3
  <2>5. v = [footprint |-> g, map |-> [u.map EXCEPT ![k] = e], mode |-> "Recording"]
    BY <1>2, <2>4, Parts3
  <2>6. [u.map EXCEPT ![k] = e] = [s.map EXCEPT ![k] = e]
    BY <1>2, <1>5, Zenon
  <2> QED BY <2>1, <2>2, <2>5, <2>6, Zenon DEF Moved
<1> HIDE DEF u, h, w, late, fits, n, v
<1>8. CASE ~Late(k, c, q)
  <2>1. h = [s |-> u, err |-> "Ok", out |-> None] /\ Handled(k, c, q) = c
    BY <1>1, <1>3, <1>8, Zenon DEF Host!Res, Handled
  <2>2. h = [s |-> Moved(s, k, Handled(k, c, q), a), err |-> "Ok", out |-> None]
    BY <2>1, Zenon DEF u
  <2>3. HandledAccess(k, c, a, q) = a
    BY <1>8 DEF HandledAccess
  <2> QED BY <2>2, <2>3, Zenon DEF h, u
<1>9. CASE Late(k, c, q) /\ tmp
  <2>1. h = [s |-> n, err |-> "Ok", out |-> None] /\ Handled(k, c, q) = None
    BY <1>1, <1>3, <1>9, Zenon DEF Host!Res, Handled
  <2>2. h = [s |-> Moved(s, k, Handled(k, c, q), a), err |-> "Ok", out |-> None]
    BY <1>6, <2>1, Zenon
  <2>3. HandledAccess(k, c, a, q) = a
    BY <1>9 DEF HandledAccess
  <2> QED BY <2>2, <2>3, Zenon DEF h, u
<1>10. CASE Late(k, c, q) /\ ~tmp
  <2>1. h = [s |-> v, err |-> "Ok", out |-> None] /\ Handled(k, c, q) = e
    BY <1>1, <1>3, <1>4, <1>10, Zenon DEF Host!Res, Handled
  <2>2. h = [s |-> Moved(s, k, Handled(k, c, q), "ReadWrite"), err |-> "Ok", out |-> None]
    BY <1>7, <2>1, Zenon
  <2>3. Access(s, k, "ReadWrite")
    BY DEF Access
  <2>4. HandledAccess(k, c, a, q) = "ReadWrite"
    BY <1>10 DEF HandledAccess
  <2> QED BY <2>2, <2>3, <2>4, Zenon DEF h, u
<1> QED BY <1>8, <1>9, <1>10, Zenon

(* A read: the view of the key, and at least the read access.              *)
LEMMA RecordedRead ==
    ASSUME NEW q, SoonEnough(q), NEW sn, SnapOK(sn), NEW s, RecOK(s, q), NEW k \in Keys
    PROVE  LET b == ReadAccess(s, k, sn, q) IN
           /\ Access(s, k, b)
           /\ Host(q, TRUE)!try_get_full(s, k, sn)
                = [s |-> Moved(s, k, View(s, k, sn, q), b), err |-> "Ok", out |-> View(s, k, sn, q)]
<1> DEFINE x == View(s, k, sn, q)
           r == Host(q, TRUE)!Access2(s, k, "ReadOnly")
           a == IF s.footprint[k] = "ReadWrite" THEN "ReadWrite" ELSE "ReadOnly"
           c == IF s.map[k] = Unloaded THEN sn[k] ELSE s.map[k]
           loaded == IF s.map[k] = Unloaded THEN [r.s EXCEPT !.map[k] = sn[k]] ELSE r.s
           p == Host(q, TRUE)!prepare_read_only_access(s, k, sn)
           g == Host(q, TRUE)!try_get_full(s, k, sn)
<1>1. r = [s |-> Moved(s, k, s.map[k], a), err |-> "Ok", out |-> None] /\ Access(s, k, a)
  BY Recording
<1> HIDE DEF r, a
<1>2. r.s = Moved(s, k, s.map[k], a)
  BY <1>1, ResParts, Zenon
<1>3. loaded = Moved(s, k, c, a)
  <2>1. CASE s.map[k] = Unloaded
    <3> DEFINE u == Moved(s, k, s.map[k], a)
    <3>1. /\ u = [footprint |-> u.footprint, map |-> u.map, mode |-> "Recording"]
          /\ u.footprint = [s.footprint EXCEPT ![k] = a] /\ u.map = [s.map EXCEPT ![k] = s.map[k]]
      BY MovedParts
    <3> HIDE DEF u
    <3>2. [u EXCEPT !.map[k] = sn[k]]
             = [footprint |-> u.footprint, map |-> [u.map EXCEPT ![k] = sn[k]], mode |-> "Recording"]
      BY <3>1, Parts3
    <3>3. \A h, y, z : [[h EXCEPT ![k] = y] EXCEPT ![k] = z] = [h EXCEPT ![k] = z]
      OBVIOUS
    <3>4. [u.map EXCEPT ![k] = sn[k]] = [s.map EXCEPT ![k] = sn[k]]
      BY <3>1, <3>3, Zenon
    <3>5. [u EXCEPT !.map[k] = sn[k]] = Moved(s, k, sn[k], a)
      BY <3>1, <3>2, <3>4, Zenon DEF Moved
    <3>6. r.s = u
      BY <1>2 DEF u
    <3> QED BY <2>1, <3>5, <3>6, Zenon
  <2>2. CASE s.map[k] # Unloaded
    BY <1>2, <2>2, Zenon
  <2> QED BY <2>1, <2>2
<1>4. s.mode = "Recording"
  BY DEF RecOK
<1>5. p = Host(q, TRUE)!handle_maybe_expired_entry(loaded, k)
  BY <1>4, Zenon DEF Host!prepare_read_only_access, r
<1> HIDE DEF loaded, p
<1>6. c # Unloaded
  BY EntriesExist DEF SnapOK
<1> DEFINE b == HandledAccess(k, c, a, q)
<1>7. /\ Access(s, k, b)
      /\ Host(q, TRUE)!handle_maybe_expired_entry(Moved(s, k, c, a), k)
           = [s |-> Moved(s, k, Handled(k, c, q), b), err |-> "Ok", out |-> None]
  <2> HIDE DEF c
  <2> QED BY <1>1, <1>6, Handling
<1>8. Handled(k, c, q) = x
  <2>1. CASE s.map[k] = Unloaded
    BY <2>1, Zenon DEF Handled, View, Seen
  <2>2. CASE s.map[k] # Unloaded
    <3>1. LiveAt(k, s.map[k], q) /\ c = s.map[k] /\ x = s.map[k]
      BY <2>2 DEF RecOK, View
    <3>2. ~Late(k, s.map[k], q)
      <4>1. q \in Nat
        BY DEF SoonEnough
      <4> QED BY <3>1, <4>1 DEF LiveAt, Late, Entries
    <3> QED BY <3>1, <3>2, Zenon DEF Handled
  <2> QED BY <2>1, <2>2
<1> HIDE DEF c, x, b
<1>9. p = [s |-> Moved(s, k, x, b), err |-> "Ok", out |-> None]
  BY <1>3, <1>5, <1>7, <1>8, Zenon
<1>10. p.s = Moved(s, k, x, b) /\ p.err = "Ok"
  BY <1>9, ResParts, Zenon
<1>11. p.s.map[k] = x /\ x # Unloaded
  <2>1. x # Unloaded
    BY ViewLives DEF x
  <2>2. Moved(s, k, x, b).map[k] = x
    BY MovedCell, Zenon
  <2> QED BY <1>10, <2>1, <2>2, Zenon
<1>12. g = Host(q, TRUE)!ReadCell(p, k)
  BY Zenon DEF Host!try_get_full, p
<1> HIDE DEF g
<1>13. g = [s |-> p.s, err |-> "Ok", out |-> p.s.map[k]]
  BY <1>10, <1>11, <1>12, Zenon DEF Host!ReadCell, Host!Res
<1>14. g = [s |-> Moved(s, k, x, b), err |-> "Ok", out |-> x]
  BY <1>10, <1>11, <1>13, Zenon
<1>15. ReadAccess(s, k, sn, q) = b
  BY Zenon DEF ReadAccess, b, c, a
<1> QED BY <1>7, <1>14, <1>15, Zenon DEF g, x

(* The handler finds nothing to do in a recording storage: what is late    *)
(* was handled when it was loaded.                                         *)
LEMMA NothingLate ==
    ASSUME NEW q, SoonEnough(q), NEW s, RecOK(s, q), NEW k \in Keys
    PROVE  Host(q, TRUE)!handle_maybe_expired_entry(s, k) = [s |-> s, err |-> "Ok", out |-> None]
<1> DEFINE late == Host(q, TRUE)!IsExpired(k, s.map[k])
<1>1. ~late
  <2>1. CASE s.map[k] = Unloaded
    BY <2>1 DEF Host!IsExpired, Host!Exists
  <2>2. CASE s.map[k] # Unloaded
    <3>1. LiveAt(k, s.map[k], q)
      BY <2>2 DEF RecOK
    <3>2. ~Late(k, s.map[k], q)
      <4>1. q \in Nat
        BY DEF SoonEnough
      <4> QED BY <3>1, <4>1 DEF LiveAt, Late, Entries
    <3> QED BY <2>2, <3>2, LateIs
  <2> QED BY <2>1, <2>2
<1> HIDE DEF late
<1> QED BY <1>1, Zenon DEF Host!handle_maybe_expired_entry, Host!Res, late

(* A write: the cell, and the read-write access.                           *)
LEMMA RecordedWrite ==
    ASSUME NEW q, SoonEnough(q), NEW s, RecOK(s, q), NEW k \in Keys, NEW x
    PROVE  /\ Access(s, k, "ReadWrite")
           /\ Host(q, TRUE)!put_opt(s, k, x)
                = [s |-> Moved(s, k, x, "ReadWrite"), err |-> "Ok", out |-> None]
<1> DEFINE h == Host(q, TRUE)!handle_maybe_expired_entry(s, k)
           A(t) == Host(q, TRUE)!Access2(t, k, "ReadWrite")
           a == A(s)
           g == Host(q, TRUE)!put_opt(s, k, x)
           u == Moved(s, k, s.map[k], "ReadWrite")
<1>1. h.s = s /\ h.err = "Ok"
  <2>1. h = [s |-> s, err |-> "Ok", out |-> None]
    BY NothingLate
  <2> HIDE DEF h
  <2> QED BY <2>1, ResParts, Zenon
<1>2. a = [s |-> u, err |-> "Ok", out |-> None]
  <2>1. LET b == IF s.footprint[k] = "ReadWrite" THEN "ReadWrite" ELSE "ReadWrite"
        IN  a = [s |-> Moved(s, k, s.map[k], b), err |-> "Ok", out |-> None]
    BY Recording
  <2>2. (IF s.footprint[k] = "ReadWrite" THEN "ReadWrite" ELSE "ReadWrite") = "ReadWrite"
    OBVIOUS
  <2> HIDE DEF a
  <2> QED BY <2>1, <2>2, Zenon
<1>3. g = IF h.err # "Ok" THEN h
          ELSE IF A(h.s).err # "Ok" THEN A(h.s)
          ELSE Host(q, TRUE)!Res([A(h.s).s EXCEPT !.map[k] = x], "Ok", None)
  BY Zenon DEF Host!put_opt
<1> HIDE DEF h, A, u, g
<1>4. g = IF a.err # "Ok" THEN a ELSE Host(q, TRUE)!Res([a.s EXCEPT !.map[k] = x], "Ok", None)
  BY <1>1, <1>3, Zenon
<1> HIDE DEF a
<1>5. a.s = u /\ a.err = "Ok"
  BY <1>2, ResParts, Zenon
<1>6. g = [s |-> [u EXCEPT !.map[k] = x], err |-> "Ok", out |-> None]
  BY <1>4, <1>5, Zenon DEF Host!Res
<1>7. [u EXCEPT !.map[k] = x] = Moved(s, k, x, "ReadWrite")
  <2>1. /\ u = [footprint |-> u.footprint, map |-> u.map, mode |-> "Recording"]
        /\ u.map[k] = s.map[k] /\ u.footprint[k] = "ReadWrite" /\ u.mode = "Recording"
        /\ u.footprint = [s.footprint EXCEPT ![k] = "ReadWrite"] /\ u.map = [s.map EXCEPT ![k] = s.map[k]]
    BY MovedParts DEF u
  <2>2. [u EXCEPT !.map[k] = x]
           = [footprint |-> u.footprint, map |-> [u.map EXCEPT ![k] = x], mode |-> "Recording"]
    BY <2>1, Parts3
  <2>3. \A f, y, z : [[f EXCEPT ![k] = y] EXCEPT ![k] = z] = [f EXCEPT ![k] = z]
    OBVIOUS
  <2>4. [u.map EXCEPT ![k] = x] = [s.map EXCEPT ![k] = x]
    BY <2>1, <2>3, Zenon
  <2> QED BY <2>1, <2>2, <2>4, Zenon DEF Moved
<1>8. Access(s, k, "ReadWrite")
  BY DEF Access
<1> QED BY <1>6, <1>7, <1>8, Zenon DEF g

-----------------------------------------------------------------------------
(* The storage of an enforcing host whose footprint allows what was        *)
(* recorded.                                                               *)

(* The access f is enough for what was recorded as a.                      *)
Enough(f, a) == f \in {"ReadOnly", "ReadWrite"} /\ (a = "ReadWrite" => f = "ReadWrite")

(* A read of a listed key.                                                 *)
LEMMA EnforcedRead ==
    ASSUME NEW t, NEW fp, IsStore(t, fp), NEW k, Enough(fp[k], "ReadOnly"),
           t.map[k] # Unloaded, NEW q, NEW sn
    PROVE  Host(q, FALSE)!try_get_full(t, k, sn) = [s |-> t, err |-> "Ok", out |-> t.map[k]]
<1> DEFINE p == Host(q, FALSE)!prepare_read_only_access(t, k, sn)
           g == Host(q, FALSE)!try_get_full(t, k, sn)
<1>1. t.mode = "Enforcing" /\ t.footprint = fp
  BY DEF IsStore
<1>2. Host(q, FALSE)!enforce_access(t.footprint, k, "ReadOnly")
  BY <1>1 DEF Host!enforce_access, Enough
<1>3. p = [s |-> t, err |-> "Ok", out |-> None]
  BY <1>1, <1>2 DEF Host!prepare_read_only_access, Host!Access2, Host!Res
<1>4. g = Host(q, FALSE)!ReadCell(p, k)
  BY DEF Host!try_get_full
<1> HIDE DEF p, g
<1>5. p.s = t /\ p.err = "Ok"
  BY <1>3, ResParts, Zenon
<1>6. g = [s |-> t, err |-> "Ok", out |-> t.map[k]]
  BY <1>4, <1>5, Zenon DEF Host!ReadCell, Host!Res
<1> QED BY <1>6 DEF g

(* A write of a read-write key.                                            *)
LEMMA EnforcedWrite ==
    ASSUME NEW t, NEW fp, IsStore(t, fp), NEW k, fp[k] = "ReadWrite", NEW x, NEW q
    PROVE  Host(q, FALSE)!put_opt(t, k, x) = [s |-> [t EXCEPT !.map[k] = x], err |-> "Ok", out |-> None]
<1> DEFINE h == Host(q, FALSE)!handle_maybe_expired_entry(t, k)
           A(u) == Host(q, FALSE)!Access2(u, k, "ReadWrite")
           a == A(t)
           g == Host(q, FALSE)!put_opt(t, k, x)
<1>1. t.mode = "Enforcing" /\ t.footprint = fp
  BY DEF IsStore
<1>2. h = [s |-> t, err |-> "Ok", out |-> None]
  BY Zenon DEF Host!handle_maybe_expired_entry, Host!Res
<1>3. Host(q, FALSE)!enforce_access(t.footprint, k, "ReadWrite")
  BY <1>1 DEF Host!enforce_access
<1>4. a = [s |-> t, err |-> "Ok", out |-> None]
  BY <1>1, <1>3 DEF Host!Access2, Host!Res
<1>5. g = IF h.err # "Ok" THEN h
          ELSE IF A(h.s).err # "Ok" THEN A(h.s)
          ELSE Host(q, FALSE)!Res([A(h.s).s EXCEPT !.map[k] = x], "Ok", None)
  BY Zenon DEF Host!put_opt
<1> HIDE DEF h, A, g
<1>6. h.s = t /\ h.err = "Ok"
  BY <1>2, ResParts, Zenon
<1>7. g = IF a.err # "Ok" THEN a ELSE Host(q, FALSE)!Res([a.s EXCEPT !.map[k] = x], "Ok", None)
  BY <1>5, <1>6, Zenon
<1> HIDE DEF a
<1>8. a.s = t /\ a.err = "Ok"
  BY <1>4, ResParts, Zenon
<1>9. g = [s |-> [t EXCEPT !.map[k] = x], err |-> "Ok", out |-> None]
  BY <1>7, <1>8, Zenon DEF Host!Res
<1> QED BY <1>9 DEF g

(* Writing what is there changes nothing.                                  *)
LEMMA SameCell ==
    ASSUME NEW t, NEW fp, IsStore(t, fp), NEW k
    PROVE  t = [t EXCEPT !.map[k] = t.map[k]]
<1> DEFINE m == t.map
<1>1. t = [footprint |-> fp, map |-> m, mode |-> "Enforcing"] /\ m = [j \in Keys |-> m[j]]
  BY DEF IsStore
<1>2. [t EXCEPT !.map[k] = m[k]] = [footprint |-> fp, map |-> [m EXCEPT ![k] = m[k]], mode |-> "Enforcing"]
  BY <1>1, Parts3
<1>3. [m EXCEPT ![k] = m[k]] = m
  BY <1>1
<1> QED BY <1>1, <1>2, <1>3, Zenon

-----------------------------------------------------------------------------
(* A call in the recording storage s next to the same call in an enforcing *)
(* storage t that has what s sees.                                         *)

Paired(s, t, fp, k, sn, q) ==
    /\ SoonEnough(q) /\ SnapOK(sn) /\ RecOK(s, q) /\ k \in Keys
    /\ IsStore(t, fp) /\ t.map[k] = View(s, k, sn, q)

(* The enforced call ends as the recorded one did, with the same cell,     *)
(* provided the footprint has the access that was recorded; an internal    *)
(* error ends the program and promises nothing.                            *)
Twin(s, t, fp, k, q, r, e) ==
    r.err # "InternalError" =>
        /\ r.s = Moved(s, k, r.s.map[k], r.s.footprint[k])
        /\ Access(s, k, r.s.footprint[k]) /\ LiveAt(k, r.s.map[k], q)
        /\ Enough(fp[k], r.s.footprint[k]) => e.err = r.err /\ e.s = [t EXCEPT !.map[k] = r.s.map[k]]

(* From the cell, the access and the error of the two results.             *)
LEMMA TwinByErr ==
    ASSUME NEW s, NEW t, NEW fp, NEW k, NEW sn, NEW q, Paired(s, t, fp, k, sn, q),
           NEW x, LiveAt(k, x, q), NEW a, Access(s, k, a), NEW w,
           NEW r, NEW o, r = [s |-> Moved(s, k, x, a), err |-> w, out |-> o],
           NEW e, NEW p, Enough(fp[k], a) => e = [s |-> [t EXCEPT !.map[k] = x], err |-> w, out |-> p]
    PROVE  Twin(s, t, fp, k, q, r, e)
<1>1. r.s = Moved(s, k, x, a) /\ r.err = w
  BY ResParts, Zenon
<1>2. Moved(s, k, x, a).map[k] = x /\ Moved(s, k, x, a).footprint[k] = a
  <2>1. RecOK(s, q) /\ k \in Keys
    BY DEF Paired
  <2>2. Moved(s, k, x, a).map[k] = x
    BY <2>1, MovedCell, Zenon
  <2>3. Moved(s, k, x, a).footprint[k] = a
    BY <2>1, MovedAccess, Zenon
  <2> QED BY <2>2, <2>3
<1>3. r.s.map[k] = x /\ r.s.footprint[k] = a
  BY <1>1, <1>2, Zenon
<1>4. ASSUME Enough(fp[k], a) PROVE e.err = w /\ e.s = [t EXCEPT !.map[k] = x]
  <2> DEFINE y == [t EXCEPT !.map[k] = x]
  <2>1. e = [s |-> y, err |-> w, out |-> p]
    BY <1>4
  <2> HIDE DEF y
  <2>2. e.err = w /\ e.s = y
    BY <2>1, ResParts, Zenon
  <2> QED BY <2>2 DEF y
<1> QED BY <1>1, <1>3, <1>4, Zenon DEF Twin

(* When both succeed.                                                      *)
LEMMA TwinBy ==
    ASSUME NEW s, NEW t, NEW fp, NEW k, NEW sn, NEW q, Paired(s, t, fp, k, sn, q),
           NEW x, LiveAt(k, x, q), NEW a, Access(s, k, a),
           NEW r, NEW o, r = [s |-> Moved(s, k, x, a), err |-> "Ok", out |-> o],
           NEW e, NEW p, Enough(fp[k], a) => e = [s |-> [t EXCEPT !.map[k] = x], err |-> "Ok", out |-> p]
    PROVE  Twin(s, t, fp, k, q, r, e)
BY TwinByErr, Zenon

(* An internal error of the recorded call promises nothing.                *)
LEMMA TwinOfFailure ==
    ASSUME NEW s, NEW t, NEW fp, NEW k, NEW q, NEW r, NEW e, r.err = "InternalError"
    PROVE  Twin(s, t, fp, k, q, r, e)
BY Zenon DEF Twin

(* The reads that most calls start with.                                   *)
ReadTwins(s, t, fp, k, q, x, b, r, e) ==
    /\ Access(s, k, b) /\ LiveAt(k, x, q) /\ x # Unloaded /\ RecOK(Moved(s, k, x, b), q)
    /\ r = [s |-> Moved(s, k, x, b), err |-> "Ok", out |-> x]
    /\ Enough(fp[k], "ReadOnly") => e = [s |-> t, err |-> "Ok", out |-> x]

(* They read the view.                                                     *)
LEMMA BothRead ==
    ASSUME NEW s, NEW t, NEW fp, NEW k, NEW sn, NEW q, Paired(s, t, fp, k, sn, q), NEW sn2
    PROVE  ReadTwins(s, t, fp, k, q, View(s, k, sn, q), ReadAccess(s, k, sn, q),
                     Host(q, TRUE)!try_get_full(s, k, sn), Host(q, FALSE)!try_get_full(t, k, sn2))
<1> DEFINE x == View(s, k, sn, q)
           b == ReadAccess(s, k, sn, q)
<1>1. /\ SoonEnough(q) /\ SnapOK(sn) /\ RecOK(s, q) /\ k \in Keys
      /\ IsStore(t, fp) /\ t.map[k] = x
  BY DEF Paired
<1>2. LiveAt(k, x, q) /\ x # Unloaded
  BY <1>1, ViewLives
<1>3. /\ Access(s, k, b)
      /\ Host(q, TRUE)!try_get_full(s, k, sn) = [s |-> Moved(s, k, x, b), err |-> "Ok", out |-> x]
  BY <1>1, RecordedRead
<1> HIDE DEF x, b
<1>4. RecOK(Moved(s, k, x, b), q)
  BY <1>1, <1>2, <1>3, MovedOK
<1>5. ASSUME Enough(fp[k], "ReadOnly")
      PROVE  Host(q, FALSE)!try_get_full(t, k, sn2) = [s |-> t, err |-> "Ok", out |-> t.map[k]]
  <2>1. t.map[k] # Unloaded
    BY <1>1, <1>2, Zenon
  <2> QED BY <1>1, <1>5, <2>1, EnforcedRead
<1>6. Enough(fp[k], "ReadOnly") =>
         Host(q, FALSE)!try_get_full(t, k, sn2) = [s |-> t, err |-> "Ok", out |-> x]
  BY <1>1, <1>5, Zenon
<1> QED BY <1>2, <1>3, <1>4, <1>6, Zenon DEF x, b, ReadTwins

(* The writes that come after them, or alone.                              *)
WriteTwins(s, t, fp, k, x, r, e) ==
    /\ Access(s, k, "ReadWrite")
    /\ r = [s |-> Moved(s, k, x, "ReadWrite"), err |-> "Ok", out |-> None]
    /\ fp[k] = "ReadWrite" => e = [s |-> [t EXCEPT !.map[k] = x], err |-> "Ok", out |-> None]

(* They write the cell.                                                    *)
LEMMA BothWrite ==
    ASSUME NEW s, NEW t, NEW fp, NEW k, NEW sn, NEW q, Paired(s, t, fp, k, sn, q), NEW x, NEW b,
           NEW y, RecOK(Moved(s, k, y, b), q)
    PROVE  /\ WriteTwins(s, t, fp, k, x, Host(q, TRUE)!put_opt(s, k, x), Host(q, FALSE)!put_opt(t, k, x))
           /\ WriteTwins(s, t, fp, k, x, Host(q, TRUE)!put_opt(Moved(s, k, y, b), k, x),
                         Host(q, FALSE)!put_opt(t, k, x))
<1> DEFINE u == Moved(s, k, y, b)
<1>1. SoonEnough(q) /\ RecOK(s, q) /\ k \in Keys /\ IsStore(t, fp)
  BY DEF Paired
<1>2. RecOK(u, q)
  OBVIOUS
<1>3. Moved(u, k, x, "ReadWrite") = Moved(s, k, x, "ReadWrite")
  BY MovedTwice
<1> HIDE DEF u
<1>4. Host(q, TRUE)!put_opt(u, k, x) = [s |-> Moved(u, k, x, "ReadWrite"), err |-> "Ok", out |-> None]
  BY <1>1, <1>2, RecordedWrite
<1>5. /\ Access(s, k, "ReadWrite")
      /\ Host(q, TRUE)!put_opt(s, k, x) = [s |-> Moved(s, k, x, "ReadWrite"), err |-> "Ok", out |-> None]
  BY <1>1, RecordedWrite
<1>6. ASSUME fp[k] = "ReadWrite"
      PROVE  Host(q, FALSE)!put_opt(t, k, x) = [s |-> [t EXCEPT !.map[k] = x], err |-> "Ok", out |-> None]
  BY <1>1, <1>6, EnforcedWrite
<1> QED BY <1>3, <1>4, <1>5, <1>6, Zenon DEF u, WriteTwins

(* An access that is enough allows reads, and writes when it has to.       *)
LEMMA EnoughIs ==
    \A f, a : Enough(f, a) => Enough(f, "ReadOnly") /\ (a = "ReadWrite" => f = "ReadWrite")
BY DEF Enough

(* get_contract_data.                                                      *)
LEMMA GetTwin ==
    ASSUME NEW s, NEW t, NEW fp, NEW k, NEW sn, NEW q, Paired(s, t, fp, k, sn, q), NEW sn2
    PROVE  Twin(s, t, fp, k, q, Host(q, TRUE)!try_get_full(s, k, sn), Host(q, FALSE)!try_get_full(t, k, sn2))
<1> DEFINE x == View(s, k, sn, q)
           b == ReadAccess(s, k, sn, q)
           r == Host(q, TRUE)!try_get_full(s, k, sn)
           e == Host(q, FALSE)!try_get_full(t, k, sn2)
<1>0. ReadTwins(s, t, fp, k, q, x, b, r, e)
  BY BothRead, Zenon
<1>2. IsStore(t, fp) /\ t.map[k] = x
  BY DEF Paired
<1> HIDE DEF x, b, r, e
<1>1. /\ Access(s, k, b) /\ LiveAt(k, x, q)
      /\ r = [s |-> Moved(s, k, x, b), err |-> "Ok", out |-> x]
      /\ Enough(fp[k], "ReadOnly") => e = [s |-> t, err |-> "Ok", out |-> x]
  BY <1>0, Zenon DEF ReadTwins
<1>3. t = [t EXCEPT !.map[k] = x]
  BY <1>2, SameCell
<1>4. Enough(fp[k], b) => e = [s |-> [t EXCEPT !.map[k] = x], err |-> "Ok", out |-> x]
  BY <1>1, <1>3, EnoughIs, Zenon
<1>5. Twin(s, t, fp, k, q, r, e)
  BY <1>1, <1>4, TwinBy
<1> QED BY <1>5 DEF r, e

(* A write of x that both make.                                            *)
LEMMA WriteTwin ==
    ASSUME NEW s, NEW t, NEW fp, NEW k, NEW sn, NEW q, Paired(s, t, fp, k, sn, q),
           NEW x, LiveAt(k, x, q), NEW r, NEW e, WriteTwins(s, t, fp, k, x, r, e)
    PROVE  Twin(s, t, fp, k, q, r, e)
<1>1. /\ Access(s, k, "ReadWrite")
      /\ r = [s |-> Moved(s, k, x, "ReadWrite"), err |-> "Ok", out |-> None]
      /\ fp[k] = "ReadWrite" => e = [s |-> [t EXCEPT !.map[k] = x], err |-> "Ok", out |-> None]
  BY Zenon DEF WriteTwins
<1>2. Enough(fp[k], "ReadWrite") => e = [s |-> [t EXCEPT !.map[k] = x], err |-> "Ok", out |-> None]
  BY <1>1, EnoughIs, Zenon
<1> QED BY <1>1, <1>2, TwinBy

(* If the access of the recorded call is not enough, nothing is promised   *)
(* of the enforced one.                                                    *)
LEMMA TwinUnless ==
    ASSUME NEW s, NEW t, NEW fp, NEW k, NEW q, NEW r, NEW e, NEW d,
           Twin(s, t, fp, k, q, r, d), Enough(fp[k], r.s.footprint[k]) => e = d
    PROVE  Twin(s, t, fp, k, q, r, e)
BY Zenon DEF Twin

(* del_contract_data.                                                      *)
LEMMA DelTwin ==
    ASSUME NEW s, NEW t, NEW fp, NEW k, NEW sn, NEW q, Paired(s, t, fp, k, sn, q)
    PROVE  Twin(s, t, fp, k, q, Host(q, TRUE)!del_contract_data(s, k), Host(q, FALSE)!del_contract_data(t, k))
<1> DEFINE x == View(s, k, sn, q)
           b == ReadAccess(s, k, sn, q)
           r == Host(q, TRUE)!put_opt(s, k, None)
           e == Host(q, FALSE)!put_opt(t, k, None)
<1>1. ReadTwins(s, t, fp, k, q, x, b, Host(q, TRUE)!try_get_full(s, k, sn), Host(q, FALSE)!try_get_full(t, k, sn))
  BY BothRead, Zenon
<1> HIDE DEF x, b
<1>2. RecOK(Moved(s, k, x, b), q)
  BY <1>1, Zenon DEF ReadTwins
<1>3. WriteTwins(s, t, fp, k, None, r, e)
  BY <1>2, BothWrite
<1>4. LiveAt(k, None, q)
  BY DEF LiveAt
<1> HIDE DEF r, e
<1>5. Twin(s, t, fp, k, q, r, e)
  BY <1>3, <1>4, WriteTwin
<1>6. r = Host(q, TRUE)!del_contract_data(s, k) /\ e = Host(q, FALSE)!del_contract_data(t, k)
  BY Zenon DEF r, e, Host!del_contract_data
<1> QED BY <1>5, <1>6, Zenon

(* The result r of writing x after the read g.                             *)
ThenWrite(g, k, x, q, b, r) == r = Host(q, b)!put_opt(g.s, k, x)

(* A call that reads and then writes x: r and e are its results.           *)
LEMMA ReadWriteTwin ==
    ASSUME NEW s, NEW t, NEW fp, NEW k, NEW sn, NEW q, Paired(s, t, fp, k, sn, q), NEW sn2,
           NEW x, LiveAt(k, x, q), NEW r, NEW e,
           ThenWrite(Host(q, TRUE)!try_get_full(s, k, sn), k, x, q, TRUE, r),
           Enough(fp[k], "ReadOnly") => ThenWrite(Host(q, FALSE)!try_get_full(t, k, sn2), k, x, q, FALSE, e)
    PROVE  Twin(s, t, fp, k, q, r, e)
<1> DEFINE y == View(s, k, sn, q)
           b == ReadAccess(s, k, sn, q)
           g == Host(q, TRUE)!try_get_full(s, k, sn)
           h == Host(q, FALSE)!try_get_full(t, k, sn2)
           w == Host(q, FALSE)!put_opt(t, k, x)
<1>1. ReadTwins(s, t, fp, k, q, y, b, g, h)
  BY BothRead, Zenon
<1> HIDE DEF y, b, g, h
<1>2. /\ g = [s |-> Moved(s, k, y, b), err |-> "Ok", out |-> y] /\ RecOK(Moved(s, k, y, b), q)
      /\ Enough(fp[k], "ReadOnly") => h = [s |-> t, err |-> "Ok", out |-> y]
  BY <1>1, Zenon DEF ReadTwins
<1>3. g.s = Moved(s, k, y, b)
  BY <1>2, ResParts, Zenon
<1>4. r = Host(q, TRUE)!put_opt(Moved(s, k, y, b), k, x)
  <2>1. r = Host(q, TRUE)!put_opt(g.s, k, x)
    BY Zenon DEF ThenWrite, g
  <2> QED BY <1>3, <2>1, Zenon
<1>5. Enough(fp[k], "ReadOnly") => e = w
  <2> SUFFICES ASSUME Enough(fp[k], "ReadOnly") PROVE e = w
    OBVIOUS
  <2>1. e = Host(q, FALSE)!put_opt(h.s, k, x)
    BY Zenon DEF ThenWrite, h
  <2>2. h.s = t
    BY <1>2, ResParts, Zenon
  <2> QED BY <2>1, <2>2, Zenon
<1>6. WriteTwins(s, t, fp, k, x, Host(q, TRUE)!put_opt(Moved(s, k, y, b), k, x), w)
  BY <1>2, BothWrite
<1>7. WriteTwins(s, t, fp, k, x, r, w)
  BY <1>4, <1>6, Zenon
<1> HIDE DEF w
<1>8. Twin(s, t, fp, k, q, r, w)
  BY <1>7, WriteTwin
<1>9. Enough(fp[k], r.s.footprint[k]) => e = w
  BY <1>5, EnoughIs, Zenon
<1> QED BY <1>8, <1>9, TwinUnless

(* A call that only reads: r and e are the reads without their values.     *)
LEMMA ReadTwin ==
    ASSUME NEW s, NEW t, NEW fp, NEW k, NEW sn, NEW q, Paired(s, t, fp, k, sn, q), NEW sn2,
           NEW r, NEW e, r = [s |-> Host(q, TRUE)!try_get_full(s, k, sn).s, err |-> "Ok", out |-> None],
           Enough(fp[k], "ReadOnly") => e = [s |-> t, err |-> "Ok", out |-> None]
    PROVE  Twin(s, t, fp, k, q, r, e)
<1> DEFINE x == View(s, k, sn, q)
           b == ReadAccess(s, k, sn, q)
           g == Host(q, TRUE)!try_get_full(s, k, sn)
           h == Host(q, FALSE)!try_get_full(t, k, sn2)
<1>0. ReadTwins(s, t, fp, k, q, x, b, g, h)
  BY BothRead, Zenon
<1>1. IsStore(t, fp) /\ t.map[k] = x
  BY DEF Paired
<1>2. r = [s |-> g.s, err |-> "Ok", out |-> None]
  OBVIOUS
<1> HIDE DEF x, b, g, h
<1>3. /\ Access(s, k, b) /\ LiveAt(k, x, q)
      /\ g = [s |-> Moved(s, k, x, b), err |-> "Ok", out |-> x]
  BY <1>0, Zenon DEF ReadTwins
<1>4. g.s = Moved(s, k, x, b)
  BY <1>3, ResParts, Zenon
<1>5. r = [s |-> Moved(s, k, x, b), err |-> "Ok", out |-> None]
  BY <1>2, <1>4, Zenon
<1>6. t = [t EXCEPT !.map[k] = x]
  BY <1>1, SameCell
<1>7. Enough(fp[k], b) => e = [s |-> [t EXCEPT !.map[k] = x], err |-> "Ok", out |-> None]
  BY <1>6, EnoughIs, Zenon
<1> QED BY <1>3, <1>5, <1>7, TwinBy

(* put_contract_data.                                                      *)
LEMMA PutTwin ==
    ASSUME NEW s, NEW t, NEW fp, NEW k, NEW sn, NEW q, Paired(s, t, fp, k, sn, q), NEW sn2, NEW v \in Values
    PROVE  Twin(s, t, fp, k, q, Host(q, TRUE)!put_contract_data(s, k, v, sn),
                                Host(q, FALSE)!put_contract_data(t, k, v, sn2))
<1> DEFINE y == View(s, k, sn, q)
           b == ReadAccess(s, k, sn, q)
           g == Host(q, TRUE)!try_get_full(s, k, sn)
           h == Host(q, FALSE)!try_get_full(t, k, sn2)
           r == Host(q, TRUE)!put_contract_data(s, k, v, sn)
           e == Host(q, FALSE)!put_contract_data(t, k, v, sn2)
           live == Host(q, FALSE)!min_live_until_ledger(Durability[k])
           x == IF y # None THEN [y EXCEPT !.val = v] ELSE [val |-> v, live |-> live]
<1>0. ReadTwins(s, t, fp, k, q, y, b, g, h)
  BY BothRead, Zenon
<1>1. /\ SoonEnough(q) /\ q \in Nat
      /\ live \in Nat /\ live >= q /\ Host(q, TRUE)!Fits(live) /\ Host(q, FALSE)!Fits(live)
      /\ Host(q, TRUE)!min_live_until_ledger(Durability[k]) = live
  <2>1. SoonEnough(q)
    BY DEF Paired
  <2>2. q \in Nat
    BY <2>1 DEF SoonEnough
  <2> QED BY <2>1, <2>2, MinLive
<1>2. r = IF g.err # "Ok" THEN g
          ELSE IF g.out # None THEN Host(q, TRUE)!put_opt(g.s, k, [g.out EXCEPT !.val = v])
          ELSE IF ~Host(q, TRUE)!Fits(live) THEN Host(q, TRUE)!Res(g.s, "InternalError", None)
          ELSE Host(q, TRUE)!put_opt(g.s, k, [val |-> v, live |-> live])
  BY <1>1, Zenon DEF Host!put_contract_data
<1>3. e = IF h.err # "Ok" THEN h
          ELSE IF h.out # None THEN Host(q, FALSE)!put_opt(h.s, k, [h.out EXCEPT !.val = v])
          ELSE IF ~Host(q, FALSE)!Fits(live) THEN Host(q, FALSE)!Res(h.s, "InternalError", None)
          ELSE Host(q, FALSE)!put_opt(h.s, k, [val |-> v, live |-> live])
  BY Zenon DEF Host!put_contract_data
<1> HIDE DEF y, b, g, h, r, e, live
<1>4. /\ LiveAt(k, y, q) /\ g = [s |-> Moved(s, k, y, b), err |-> "Ok", out |-> y]
      /\ Enough(fp[k], "ReadOnly") => h = [s |-> t, err |-> "Ok", out |-> y]
  BY <1>0, Zenon DEF ReadTwins
<1>5. g.err = "Ok" /\ g.out = y
  BY <1>4, ResParts, Zenon
<1>6. ThenWrite(g, k, x, q, TRUE, r)
  BY <1>1, <1>2, <1>5, Zenon DEF ThenWrite
<1>7. Enough(fp[k], "ReadOnly") => ThenWrite(h, k, x, q, FALSE, e)
  <2> SUFFICES ASSUME Enough(fp[k], "ReadOnly") PROVE ThenWrite(h, k, x, q, FALSE, e)
    OBVIOUS
  <2>1. h.err = "Ok" /\ h.out = y
    BY <1>4, ResParts, Zenon
  <2> QED BY <1>1, <1>3, <2>1, Zenon DEF ThenWrite
<1>8. LiveAt(k, x, q)
  <2>1. v \in Contents
    BY SizeIsNat
  <2>2. CASE y = None
    BY <1>1, <2>1, <2>2 DEF LiveAt, Entries
  <2>3. CASE y # None
    <3>1. y \in Entries /\ (~Classic(k) => y.live >= q)
      BY <1>4, <2>3 DEF LiveAt
    <3>2. x = [val |-> v, live |-> y.live] /\ y.live \in Int
      BY <2>3, <3>1 DEF Entries
    <3> QED BY <2>1, <3>1, <3>2 DEF LiveAt, Entries
  <2> QED BY <2>2, <2>3
<1> HIDE DEF x
<1>9. Twin(s, t, fp, k, q, r, e)
  BY <1>6, <1>7, <1>8, ReadWriteTwin DEF g, h
<1> QED BY <1>9 DEF r, e

(* upload_contract_wasm.                                                   *)
LEMMA UploadTwin ==
    ASSUME NEW s, NEW t, NEW fp, NEW k, NEW sn, NEW q, Paired(s, t, fp, k, sn, q), NEW sn2, NEW v \in Values
    PROVE  Twin(s, t, fp, k, q, Host(q, TRUE)!upload_contract_wasm(s, k, v, sn),
                                Host(q, FALSE)!upload_contract_wasm(t, k, v, sn2))
<1> DEFINE y == View(s, k, sn, q)
           b == ReadAccess(s, k, sn, q)
           g == Host(q, TRUE)!try_get_full(s, k, sn)
           h == Host(q, FALSE)!try_get_full(t, k, sn2)
           r == Host(q, TRUE)!upload_contract_wasm(s, k, v, sn)
           e == Host(q, FALSE)!upload_contract_wasm(t, k, v, sn2)
           live == Host(q, FALSE)!min_live_until_ledger("Persistent")
           x == [val |-> v, live |-> live]
<1>0. ReadTwins(s, t, fp, k, q, y, b, g, h)
  BY BothRead, Zenon
<1>1. /\ SoonEnough(q) /\ q \in Nat
      /\ live \in Nat /\ live >= q /\ Host(q, TRUE)!Fits(live) /\ Host(q, FALSE)!Fits(live)
      /\ Host(q, TRUE)!min_live_until_ledger("Persistent") = live
  <2>1. SoonEnough(q)
    BY DEF Paired
  <2>2. q \in Nat
    BY <2>1 DEF SoonEnough
  <2> QED BY <2>1, <2>2, MinLive
<1>2. r = IF g.err # "Ok" THEN g
          ELSE IF Host(q, TRUE)!Exists(g.out) /\ g.out.val = v THEN Host(q, TRUE)!Res(g.s, "Ok", None)
          ELSE IF ~Host(q, TRUE)!Fits(live) THEN Host(q, TRUE)!Res(g.s, "InternalError", None)
          ELSE Host(q, TRUE)!put_opt(g.s, k, x)
  BY <1>1, Zenon DEF Host!upload_contract_wasm
<1>3. e = IF h.err # "Ok" THEN h
          ELSE IF Host(q, FALSE)!Exists(h.out) /\ h.out.val = v THEN Host(q, FALSE)!Res(h.s, "Ok", None)
          ELSE IF ~Host(q, FALSE)!Fits(live) THEN Host(q, FALSE)!Res(h.s, "InternalError", None)
          ELSE Host(q, FALSE)!put_opt(h.s, k, x)
  BY Zenon DEF Host!upload_contract_wasm
<1> DEFINE same == y # Unloaded /\ y # None /\ y.val = v
<1> HIDE DEF y, b, g, h, r, e, live, x
<1>4. /\ g = [s |-> Moved(s, k, y, b), err |-> "Ok", out |-> y]
      /\ Enough(fp[k], "ReadOnly") => h = [s |-> t, err |-> "Ok", out |-> y]
  BY <1>0, Zenon DEF ReadTwins
<1>5. g.err = "Ok" /\ g.out = y
  BY <1>4, ResParts, Zenon
<1>6. ASSUME Enough(fp[k], "ReadOnly") PROVE h.err = "Ok" /\ h.out = y /\ h.s = t
  <2>1. h = [s |-> t, err |-> "Ok", out |-> y]
    BY <1>4, <1>6
  <2> QED BY <2>1, ResParts, Zenon
<1>7. LiveAt(k, x, q)
  <2>1. v \in Contents
    BY SizeIsNat
  <2> QED BY <1>1, <2>1 DEF LiveAt, Entries, x
<1>8. CASE same
  <2>1. r = [s |-> g.s, err |-> "Ok", out |-> None]
    BY <1>2, <1>5, <1>8, Zenon DEF Host!Exists, Host!Res
  <2>2. Enough(fp[k], "ReadOnly") => e = [s |-> t, err |-> "Ok", out |-> None]
    BY <1>3, <1>6, <1>8, Zenon DEF Host!Exists, Host!Res
  <2>3. Twin(s, t, fp, k, q, r, e)
    BY <2>1, <2>2, ReadTwin DEF g
  <2> QED BY <2>3 DEF r, e
<1>9. CASE ~same
  <2>1. ThenWrite(g, k, x, q, TRUE, r)
    BY <1>1, <1>2, <1>5, <1>9, Zenon DEF ThenWrite, Host!Exists
  <2>2. Enough(fp[k], "ReadOnly") => ThenWrite(h, k, x, q, FALSE, e)
    BY <1>1, <1>3, <1>6, <1>9, Zenon DEF ThenWrite, Host!Exists
  <2>3. Twin(s, t, fp, k, q, r, e)
    BY <1>7, <2>1, <2>2, ReadWriteTwin DEF g, h
  <2> QED BY <2>3 DEF r, e
<1> QED BY <1>8, <1>9

(* get, for a value that has to be there.                                  *)
LEMMA MustRead ==
    ASSUME NEW q, NEW b, NEW s, NEW k, NEW sn
    PROVE  LET g == Host(q, b)!try_get_full(s, k, sn)
               m == Host(q, b)!get_with_live_until_ledger(s, k, sn)
           IN  /\ g.err = "Ok" /\ g.out = None => m = [s |-> g.s, err |-> "MissingValue", out |-> None]
               /\ g.out # None => m = g
<1> DEFINE g == Host(q, b)!try_get_full(s, k, sn)
           m == Host(q, b)!get_with_live_until_ledger(s, k, sn)
<1>1. m = IF g.err = "Ok" /\ g.out = None THEN [s |-> g.s, err |-> "MissingValue", out |-> None] ELSE g
  BY Zenon DEF Host!get_with_live_until_ledger, Host!OrMissing, Host!Res
<1> HIDE DEF g, m
<1>2. ASSUME g.err = "Ok" /\ g.out = None PROVE m = [s |-> g.s, err |-> "MissingValue", out |-> None]
  BY <1>1, <1>2
<1>3. ASSUME g.out # None PROVE m = g
  BY <1>1, <1>3
<1> QED BY <1>2, <1>3 DEF g, m

(* When it is not there the calls fail alike.                              *)
LEMMA MissingTwin ==
    ASSUME NEW s, NEW t, NEW fp, NEW k, NEW sn, NEW q, Paired(s, t, fp, k, sn, q), NEW sn2,
           View(s, k, sn, q) = None
    PROVE  LET m == Host(q, TRUE)!get_with_live_until_ledger(s, k, sn)
               n == Host(q, FALSE)!get_with_live_until_ledger(t, k, sn2)
           IN  /\ m.err = "MissingValue" /\ (Enough(fp[k], "ReadOnly") => n.err = "MissingValue")
               /\ Twin(s, t, fp, k, q, m, n)
<1> DEFINE y == View(s, k, sn, q)
           b == ReadAccess(s, k, sn, q)
           g == Host(q, TRUE)!try_get_full(s, k, sn)
           h == Host(q, FALSE)!try_get_full(t, k, sn2)
           m == Host(q, TRUE)!get_with_live_until_ledger(s, k, sn)
           n == Host(q, FALSE)!get_with_live_until_ledger(t, k, sn2)
<1>0. ReadTwins(s, t, fp, k, q, y, b, g, h)
  BY BothRead, Zenon
<1>1. /\ g.err = "Ok" /\ g.out = None => m = [s |-> g.s, err |-> "MissingValue", out |-> None]
      /\ h.err = "Ok" /\ h.out = None => n = [s |-> h.s, err |-> "MissingValue", out |-> None]
  BY MustRead, Zenon
<1>2. IsStore(t, fp) /\ t.map[k] = y /\ y = None
  BY DEF Paired
<1> HIDE DEF y, b, g, h, m, n
<1>3. /\ Access(s, k, b) /\ LiveAt(k, y, q)
      /\ g = [s |-> Moved(s, k, y, b), err |-> "Ok", out |-> y]
      /\ Enough(fp[k], "ReadOnly") => h = [s |-> t, err |-> "Ok", out |-> y]
  BY <1>0, Zenon DEF ReadTwins
<1>4. g.err = "Ok" /\ g.out = None /\ g.s = Moved(s, k, y, b)
  BY <1>2, <1>3, ResParts, Zenon
<1>5. m = [s |-> Moved(s, k, y, b), err |-> "MissingValue", out |-> None]
  BY <1>1, <1>4, Zenon
<1>6. ASSUME Enough(fp[k], "ReadOnly") PROVE n = [s |-> t, err |-> "MissingValue", out |-> None]
  <2>1. h = [s |-> t, err |-> "Ok", out |-> y]
    BY <1>3, <1>6
  <2>2. h.err = "Ok" /\ h.out = None /\ h.s = t
    BY <1>2, <2>1, ResParts, Zenon
  <2> QED BY <1>1, <2>2, Zenon
<1>7. t = [t EXCEPT !.map[k] = y]
  BY <1>2, SameCell
<1>8. Enough(fp[k], b) => n = [s |-> [t EXCEPT !.map[k] = y], err |-> "MissingValue", out |-> None]
  BY <1>6, <1>7, EnoughIs, Zenon
<1>9. Twin(s, t, fp, k, q, m, n)
  BY <1>3, <1>5, <1>8, TwinByErr
<1>10. m.err = "MissingValue"
  BY <1>5, ResParts, Zenon
<1>11. Enough(fp[k], "ReadOnly") => n.err = "MissingValue"
  BY <1>6, ResParts, Zenon
<1> QED BY <1>9, <1>10, <1>11 DEF m, n

(* put_classic_entry.                                                      *)
LEMMA CreditTwin ==
    ASSUME NEW s, NEW t, NEW fp, NEW k, NEW sn, NEW q, Paired(s, t, fp, k, sn, q), NEW sn2, NEW v \in Values,
           Classic(k)
    PROVE  Twin(s, t, fp, k, q, Host(q, TRUE)!put_classic_entry(s, k, v, sn),
                                Host(q, FALSE)!put_classic_entry(t, k, v, sn2))
<1> DEFINE y == View(s, k, sn, q)
           b == ReadAccess(s, k, sn, q)
           g == Host(q, TRUE)!try_get_full(s, k, sn)
           h == Host(q, FALSE)!try_get_full(t, k, sn2)
           m == Host(q, TRUE)!get_with_live_until_ledger(s, k, sn)
           n == Host(q, FALSE)!get_with_live_until_ledger(t, k, sn2)
           r == Host(q, TRUE)!put_classic_entry(s, k, v, sn)
           e == Host(q, FALSE)!put_classic_entry(t, k, v, sn2)
           x == [val |-> v, live |-> -1]
<1>0. ReadTwins(s, t, fp, k, q, y, b, g, h)
  BY BothRead, Zenon
<1>10. ASSUME y = None
       PROVE  /\ m.err = "MissingValue" /\ (Enough(fp[k], "ReadOnly") => n.err = "MissingValue")
              /\ Twin(s, t, fp, k, q, m, n)
  BY <1>10, MissingTwin
<1>1. /\ g.out # None => m = g
      /\ h.out # None => n = h
  BY MustRead, Zenon
<1>2. r = IF m.err # "Ok" THEN m ELSE Host(q, TRUE)!put_opt(m.s, k, x)
  BY Zenon DEF Host!put_classic_entry, Host!NoTtl
<1>3. e = IF n.err # "Ok" THEN n ELSE Host(q, FALSE)!put_opt(n.s, k, x)
  BY Zenon DEF Host!put_classic_entry, Host!NoTtl
<1> HIDE DEF y, b, g, h, r, e, m, n, x
<1>4. /\ g = [s |-> Moved(s, k, y, b), err |-> "Ok", out |-> y]
      /\ Enough(fp[k], "ReadOnly") => h = [s |-> t, err |-> "Ok", out |-> y]
  BY <1>0, Zenon DEF ReadTwins
<1>5. g.err = "Ok" /\ g.out = y
  BY <1>4, ResParts, Zenon
<1>6. ASSUME Enough(fp[k], "ReadOnly") PROVE h.err = "Ok" /\ h.out = y
  <2>1. h = [s |-> t, err |-> "Ok", out |-> y]
    BY <1>4, <1>6
  <2> QED BY <2>1, ResParts, Zenon
<1>7. LiveAt(k, x, q)
  <2>1. v \in Contents
    BY SizeIsNat
  <2> QED BY <2>1 DEF LiveAt, Entries, x
<1>8. CASE y = None
  <2>1. r = m /\ (Enough(fp[k], "ReadOnly") => e = n)
    BY <1>2, <1>3, <1>8, <1>10
  <2>2. Twin(s, t, fp, k, q, r, n)
    BY <1>8, <1>10, <2>1, Zenon
  <2>3. Enough(fp[k], r.s.footprint[k]) => e = n
    BY <2>1, EnoughIs, Zenon
  <2>4. Twin(s, t, fp, k, q, r, e)
    BY <2>2, <2>3, TwinUnless
  <2> QED BY <2>4 DEF r, e
<1>9. CASE y # None
  <2>1. ThenWrite(g, k, x, q, TRUE, r)
    BY <1>1, <1>2, <1>5, <1>9, Zenon DEF ThenWrite
  <2>2. Enough(fp[k], "ReadOnly") => ThenWrite(h, k, x, q, FALSE, e)
    BY <1>1, <1>3, <1>6, <1>9, Zenon DEF ThenWrite
  <2>3. Twin(s, t, fp, k, q, r, e)
    BY <1>7, <2>1, <2>2, ReadWriteTwin DEF g, h
  <2> QED BY <2>3 DEF r, e
<1> QED BY <1>8, <1>9

(* A second change of the cell alone.                                      *)
LEMMA MovedSet ==
    ASSUME NEW s, NEW q, RecOK(s, q), NEW k \in Keys, NEW y, NEW b, NEW x
    PROVE  [Moved(s, k, y, b) EXCEPT !.map[k] = x] = Moved(s, k, x, b)
<1> DEFINE u == Moved(s, k, y, b)
<1>1. /\ u = [footprint |-> u.footprint, map |-> u.map, mode |-> "Recording"]
      /\ u.map[k] = y /\ u.footprint[k] = b /\ u.mode = "Recording"
      /\ u.footprint = [s.footprint EXCEPT ![k] = b] /\ u.map = [s.map EXCEPT ![k] = y]
  BY MovedParts
<1> HIDE DEF u
<1>2. [u EXCEPT !.map[k] = x]
         = [footprint |-> u.footprint, map |-> [u.map EXCEPT ![k] = x], mode |-> "Recording"]
  BY <1>1, Parts3
<1>3. \A f, v, w : [[f EXCEPT ![k] = v] EXCEPT ![k] = w] = [f EXCEPT ![k] = w]
  OBVIOUS
<1>4. [u.map EXCEPT ![k] = x] = [s.map EXCEPT ![k] = x]
  BY <1>1, <1>3, Zenon
<1>5. [u EXCEPT !.map[k] = x] = Moved(s, k, x, b)
  BY <1>1, <1>2, <1>4, Zenon DEF Moved
<1> QED BY <1>5 DEF u

(* What extend_ttl does with the entry y that it finds.                    *)
Extends(g, k, y, n, q, r) ==
    LET asked == q + n
        most == Host(q, FALSE)!max_live_until_ledger
        past == asked > most
        new == IF past THEN most ELSE asked
    IN  r = IF y.live = -1 \/ y.live < q \/ ~(asked <= U32Max) \/ ~(most <= U32Max)
            THEN [s |-> g, err |-> "InternalError", out |-> None]
            ELSE IF past /\ Durability[k] = "Temporary" THEN [s |-> g, err |-> "InvalidAction", out |-> None]
            ELSE IF new > y.live /\ (IF y.live >= q THEN y.live - q ELSE 0) <= n
            THEN [s |-> [g EXCEPT !.map[k] = [y EXCEPT !.live = new]], err |-> "Ok", out |-> None]
            ELSE [s |-> g, err |-> "Ok", out |-> None]

(* After the read of an entry.                                             *)
LEMMA ExtendIs ==
    ASSUME NEW q, NEW b, NEW s, NEW k, NEW n \in Nat, NEW sn,
           LET h == Host(q, b)!handle_maybe_expired_entry(s, k) IN h.s = s /\ h.err = "Ok",
           NEW g, NEW y, y # None,
           Host(q, b)!try_get_full(s, k, sn) = [s |-> g, err |-> "Ok", out |-> y]
    PROVE  Extends(g, k, y, n, q, Host(q, b)!extend_ttl(s, k, n, n, sn))
<1> DEFINE h == Host(q, b)!handle_maybe_expired_entry(s, k)
           f == Host(q, b)!try_get_full(s, k, sn)
           M(u) == Host(q, b)!get_with_live_until_ledger(u, k, sn)
           m == M(h.s)
           asked == q + n
           most == Host(q, b)!max_live_until_ledger
           past == asked > most
           new == IF past THEN most ELSE asked
           r == Host(q, b)!extend_ttl(s, k, n, n, sn)
<1>1. r = IF n > n THEN Host(q, b)!Res(s, "InvalidInput", None)
          ELSE IF h.err # "Ok" THEN h
          ELSE IF m.err # "Ok" THEN m
          ELSE IF \/ m.out.live = -1
                  \/ m.out.live < q
                  \/ ~Host(q, b)!Fits(asked)
                  \/ ~Host(q, b)!Fits(most)
               THEN Host(q, b)!Res(m.s, "InternalError", None)
          ELSE IF past /\ Durability[k] = "Temporary" THEN Host(q, b)!Res(m.s, "InvalidAction", None)
          ELSE IF new > m.out.live /\ Host(q, b)!saturating_sub(m.out.live, q) <= n
               THEN Host(q, b)!Res([m.s EXCEPT !.map[k] = [m.out EXCEPT !.live = new]], "Ok", None)
          ELSE Host(q, b)!Res(m.s, "Ok", None)
  BY Zenon DEF Host!extend_ttl, Host!NoTtl
<1>2. ~(n > n)
  OBVIOUS
<1>3. h.s = s /\ h.err = "Ok"
  OBVIOUS
<1>4. f.out # None => M(s) = f
  BY MustRead, Zenon
<1>5. f = [s |-> g, err |-> "Ok", out |-> y]
  OBVIOUS
<1>6. most = Host(q, FALSE)!max_live_until_ledger
  BY DEF Host!max_live_until_ledger, Host!saturating_sub
<1> HIDE DEF f, M, h, r, asked, most
<1>7. f.out = y /\ f.err = "Ok" /\ f.s = g
  BY <1>5, ResParts, Zenon
<1>8. m = f
  BY <1>3, <1>4, <1>7, Zenon
<1>9. m.out = y /\ m.err = "Ok" /\ m.s = g
  BY <1>7, <1>8, Zenon
<1> HIDE DEF m
<1>10. r = IF \/ y.live = -1 \/ y.live < q \/ ~Host(q, b)!Fits(asked) \/ ~Host(q, b)!Fits(most)
           THEN Host(q, b)!Res(g, "InternalError", None)
           ELSE IF past /\ Durability[k] = "Temporary" THEN Host(q, b)!Res(g, "InvalidAction", None)
           ELSE IF new > y.live /\ Host(q, b)!saturating_sub(y.live, q) <= n
               THEN Host(q, b)!Res([g EXCEPT !.map[k] = [y EXCEPT !.live = new]], "Ok", None)
           ELSE Host(q, b)!Res(g, "Ok", None)
  BY <1>1, <1>2, <1>3, <1>9, Zenon
<1>11. Extends(g, k, y, n, q, r)
  BY <1>6, <1>10, Zenon DEF Extends, asked, Host!Res, Host!Fits, Host!saturating_sub
<1> QED BY <1>11 DEF r

(* extend_ttl.                                                             *)
LEMMA ExtendTwin ==
    ASSUME NEW s, NEW t, NEW fp, NEW k, NEW sn, NEW q, Paired(s, t, fp, k, sn, q), NEW sn2, NEW n \in Nat
    PROVE  Twin(s, t, fp, k, q, Host(q, TRUE)!extend_ttl(s, k, n, n, sn),
                                Host(q, FALSE)!extend_ttl(t, k, n, n, sn2))
<1> DEFINE y == View(s, k, sn, q)
           b == ReadAccess(s, k, sn, q)
           g == Host(q, TRUE)!try_get_full(s, k, sn)
           h == Host(q, FALSE)!try_get_full(t, k, sn2)
           r == Host(q, TRUE)!extend_ttl(s, k, n, n, sn)
           e == Host(q, FALSE)!extend_ttl(t, k, n, n, sn2)
           H1 == Host(q, TRUE)!handle_maybe_expired_entry(s, k)
           H2 == Host(q, FALSE)!handle_maybe_expired_entry(t, k)
<1>0. ReadTwins(s, t, fp, k, q, y, b, g, h)
  BY BothRead, Zenon
<1>1. SoonEnough(q) /\ q \in Nat /\ RecOK(s, q) /\ k \in Keys /\ IsStore(t, fp) /\ t.map[k] = y
  BY DEF Paired, SoonEnough
<1>2. H1.s = s /\ H1.err = "Ok"
  <2>1. H1 = [s |-> s, err |-> "Ok", out |-> None]
    BY <1>1, NothingLate
  <2> HIDE DEF H1
  <2> QED BY <2>1, ResParts, Zenon
<1>3. H2.s = t /\ H2.err = "Ok"
  <2>1. H2 = [s |-> t, err |-> "Ok", out |-> None]
    BY Zenon DEF Host!handle_maybe_expired_entry, Host!Res
  <2> HIDE DEF H2
  <2> QED BY <2>1, ResParts, Zenon
<1>4. /\ g = [s |-> Moved(s, k, y, b), err |-> "Ok", out |-> y]
      /\ LiveAt(k, y, q) /\ Access(s, k, b)
      /\ Enough(fp[k], "ReadOnly") => h = [s |-> t, err |-> "Ok", out |-> y]
  BY <1>0, Zenon DEF ReadTwins
<1>5. CASE y = None
  <2> DEFINE M(u) == Host(q, TRUE)!get_with_live_until_ledger(u, k, sn)
             N(u) == Host(q, FALSE)!get_with_live_until_ledger(u, k, sn2)
             m == M(s)
             l == N(t)
  <2>1. /\ m.err = "MissingValue" /\ (Enough(fp[k], "ReadOnly") => l.err = "MissingValue")
        /\ Twin(s, t, fp, k, q, m, l)
    BY <1>5, MissingTwin
  <2>2. r = IF n > n THEN Host(q, TRUE)!Res(s, "InvalidInput", None)
            ELSE IF H1.err # "Ok" THEN H1
            ELSE IF M(H1.s).err # "Ok" THEN M(H1.s)
            ELSE r
    BY Zenon DEF Host!extend_ttl
  <2>3. e = IF n > n THEN Host(q, FALSE)!Res(t, "InvalidInput", None)
            ELSE IF H2.err # "Ok" THEN H2
            ELSE IF N(H2.s).err # "Ok" THEN N(H2.s)
            ELSE e
    BY Zenon DEF Host!extend_ttl
  <2>4. ~(n > n)
    OBVIOUS
  <2> HIDE DEF M, N, r, e, H1, H2
  <2>5. r = IF m.err # "Ok" THEN m ELSE r
    BY <1>2, <2>2, <2>4, Zenon
  <2>6. e = IF l.err # "Ok" THEN l ELSE e
    BY <1>3, <2>3, <2>4, Zenon
  <2> HIDE DEF m, l
  <2>7. r = m /\ (Enough(fp[k], "ReadOnly") => e = l)
    BY <2>1, <2>5, <2>6
  <2>8. Twin(s, t, fp, k, q, r, l)
    BY <2>1, <2>7, Zenon
  <2>9. Enough(fp[k], r.s.footprint[k]) => e = l
    BY <2>7, EnoughIs, Zenon
  <2>10. Twin(s, t, fp, k, q, r, e)
    BY <2>8, <2>9, TwinUnless
  <2> QED BY <2>10 DEF r, e
<1>6. CASE y # None
  <2> DEFINE asked == q + n
             most == Host(q, FALSE)!max_live_until_ledger
             past == asked > most
             new == IF past THEN most ELSE asked
             x == [y EXCEPT !.live = new]
             u == Moved(s, k, y, b)
             bad == y.live = -1 \/ y.live < q \/ ~(asked <= U32Max) \/ ~(most <= U32Max)
             refused == past /\ Durability[k] = "Temporary"
             longer == new > y.live /\ (IF y.live >= q THEN y.live - q ELSE 0) <= n
  <2>1. Extends(u, k, y, n, q, r)
    <3> HIDE DEF y, b, u
    <3>1. g = [s |-> u, err |-> "Ok", out |-> y]
      BY <1>4, Zenon DEF u
    <3> QED BY <1>2, <1>6, <3>1, ExtendIs
  <2>2. Enough(fp[k], "ReadOnly") => Extends(t, k, y, n, q, e)
    <3> SUFFICES ASSUME Enough(fp[k], "ReadOnly") PROVE Extends(t, k, y, n, q, e)
      OBVIOUS
    <3> HIDE DEF y
    <3>1. h = [s |-> t, err |-> "Ok", out |-> y]
      BY <1>4, Zenon
    <3> QED BY <1>3, <1>6, <3>1, ExtendIs
  <2> HIDE DEF y, b, r, e, u
  <2>3. r = IF bad THEN [s |-> u, err |-> "InternalError", out |-> None]
            ELSE IF refused THEN [s |-> u, err |-> "InvalidAction", out |-> None]
            ELSE IF longer THEN [s |-> [u EXCEPT !.map[k] = x], err |-> "Ok", out |-> None]
            ELSE [s |-> u, err |-> "Ok", out |-> None]
    BY <2>1, Zenon DEF Extends
  <2>4. Enough(fp[k], "ReadOnly") =>
           e = IF bad THEN [s |-> t, err |-> "InternalError", out |-> None]
               ELSE IF refused THEN [s |-> t, err |-> "InvalidAction", out |-> None]
               ELSE IF longer THEN [s |-> [t EXCEPT !.map[k] = x], err |-> "Ok", out |-> None]
               ELSE [s |-> t, err |-> "Ok", out |-> None]
    BY <2>2, Zenon DEF Extends
  <2>5. most \in Nat
    BY <1>1, TtlBounds
  <2>6. ~bad /\ longer => LiveAt(k, x, q)
    <3> HIDE DEF most
    <3> SUFFICES ASSUME ~bad, longer PROVE LiveAt(k, x, q)
      OBVIOUS
    <3>1. y \in Entries
      BY <1>4, <1>6 DEF LiveAt
    <3>2. y.live \in Int /\ new \in Int /\ new >= q
      BY <1>1, <2>5, <3>1 DEF Entries
    <3>3. x \in Entries /\ x.live = new
      <4> HIDE DEF new
      <4> QED BY <3>1, <3>2 DEF Entries
    <3> QED BY <3>2, <3>3 DEF LiveAt
  <2> HIDE DEF bad, refused, longer, x
  <2>7. CASE bad
    <3>1. r = [s |-> u, err |-> "InternalError", out |-> None]
      BY <2>3, <2>7, Zenon
    <3>2. r.err = "InternalError"
      BY <3>1, ResParts, Zenon
    <3> QED BY <3>2, TwinOfFailure DEF r, e
  <2>10. CASE ~bad /\ refused
    <3>1. r = [s |-> Moved(s, k, y, b), err |-> "InvalidAction", out |-> None]
      BY <2>3, <2>10, Zenon DEF u
    <3>2. t = [t EXCEPT !.map[k] = y]
      BY <1>1, SameCell
    <3>3. Enough(fp[k], b) => e = [s |-> [t EXCEPT !.map[k] = y], err |-> "InvalidAction", out |-> None]
      BY <2>4, <2>10, <3>2, EnoughIs, Zenon
    <3>4. LiveAt(k, y, q) /\ Access(s, k, b)
      BY <1>4
    <3>5. Twin(s, t, fp, k, q, r, e)
      BY <3>1, <3>3, <3>4, TwinByErr
    <3> QED BY <3>5 DEF r, e
  <2>8. CASE ~bad /\ ~refused /\ longer
    <3>1. r = [s |-> [u EXCEPT !.map[k] = x], err |-> "Ok", out |-> None]
      BY <2>3, <2>8, Zenon
    <3>2. [u EXCEPT !.map[k] = x] = Moved(s, k, x, b)
      BY <1>1, MovedSet DEF u
    <3>3. r = [s |-> Moved(s, k, x, b), err |-> "Ok", out |-> None]
      BY <3>1, <3>2, Zenon
    <3>4. Enough(fp[k], b) => e = [s |-> [t EXCEPT !.map[k] = x], err |-> "Ok", out |-> None]
      BY <2>4, <2>8, EnoughIs, Zenon
    <3>5. LiveAt(k, x, q) /\ Access(s, k, b)
      BY <1>4, <2>6, <2>8
    <3>6. Twin(s, t, fp, k, q, r, e)
      BY <3>3, <3>4, <3>5, TwinBy
    <3> QED BY <3>6 DEF r, e
  <2>9. CASE ~bad /\ ~refused /\ ~longer
    <3>1. r = [s |-> Moved(s, k, y, b), err |-> "Ok", out |-> None]
      BY <2>3, <2>9, Zenon DEF u
    <3>2. t = [t EXCEPT !.map[k] = y]
      BY <1>1, SameCell
    <3>3. Enough(fp[k], b) => e = [s |-> [t EXCEPT !.map[k] = y], err |-> "Ok", out |-> None]
      BY <2>4, <2>9, <3>2, EnoughIs, Zenon
    <3>4. LiveAt(k, y, q) /\ Access(s, k, b)
      BY <1>4
    <3>5. Twin(s, t, fp, k, q, r, e)
      BY <3>1, <3>3, <3>4, TwinBy
    <3> QED BY <3>5 DEF r, e
  <2> QED BY <2>7, <2>8, <2>9, <2>10
<1> QED BY <1>5, <1>6

(* Any call.                                                               *)
LEMMA DoTwin ==
    ASSUME NEW s, NEW t, NEW fp, NEW c, Call(c), NEW sn, NEW q, Paired(s, t, fp, c.k, sn, q), NEW sn2
    PROVE  Twin(s, t, fp, c.k, q, Do(s, c, sn, q, TRUE), Do(t, c, sn2, q, FALSE))
<1> DEFINE r == Do(s, c, sn, q, TRUE)
           e == Do(t, c, sn2, q, FALSE)
           k == c.k
<1>1. /\ c.op \in {"get", "put", "del", "extend", "upload", "credit"}
      /\ c.op \in {"put", "upload", "credit"} => c.arg \in Values
      /\ c.op = "extend" => c.arg \in Nat
      /\ c.op = "credit" => Classic(k)
  BY DEF Call
<1>2. CASE c.op = "get"
  <2>1. r = Host(q, TRUE)!try_get_full(s, k, sn) /\ e = Host(q, FALSE)!try_get_full(t, k, sn2)
    BY <1>2 DEF Do
  <2> QED BY <2>1, GetTwin, Zenon
<1>3. CASE c.op = "put"
  <2>1. /\ r = Host(q, TRUE)!put_contract_data(s, k, c.arg, sn)
        /\ e = Host(q, FALSE)!put_contract_data(t, k, c.arg, sn2)
    BY <1>3 DEF Do
  <2>2. c.arg \in Values
    BY <1>1, <1>3
  <2> QED BY <2>1, <2>2, PutTwin, Zenon
<1>4. CASE c.op = "del"
  <2>1. r = Host(q, TRUE)!del_contract_data(s, k) /\ e = Host(q, FALSE)!del_contract_data(t, k)
    BY <1>4 DEF Do
  <2> QED BY <2>1, DelTwin, Zenon
<1>5. CASE c.op = "extend"
  <2>1. /\ r = Host(q, TRUE)!extend_ttl(s, k, c.arg, c.arg, sn)
        /\ e = Host(q, FALSE)!extend_ttl(t, k, c.arg, c.arg, sn2)
    BY <1>5 DEF Do
  <2>2. c.arg \in Nat
    BY <1>1, <1>5
  <2> QED BY <2>1, <2>2, ExtendTwin, Zenon
<1>6. CASE c.op = "upload"
  <2>1. /\ r = Host(q, TRUE)!upload_contract_wasm(s, k, c.arg, sn)
        /\ e = Host(q, FALSE)!upload_contract_wasm(t, k, c.arg, sn2)
    BY <1>6 DEF Do
  <2>2. c.arg \in Values
    BY <1>1, <1>6
  <2> QED BY <2>1, <2>2, UploadTwin, Zenon
<1>7. CASE c.op = "credit"
  <2>1. /\ r = Host(q, TRUE)!put_classic_entry(s, k, c.arg, sn)
        /\ e = Host(q, FALSE)!put_classic_entry(t, k, c.arg, sn2)
    BY <1>7 DEF Do
  <2>2. c.arg \in Values /\ Classic(k)
    BY <1>1, <1>7
  <2> QED BY <2>1, <2>2, CreditTwin, Zenon
<1> QED BY <1>1, <1>2, <1>3, <1>4, <1>5, <1>6, <1>7

-----------------------------------------------------------------------------
(* A whole program.                                                        *)

(* A recorded call changes the cell and the access of its key, and leaves  *)
(* the storage in order.                                                   *)
Records(s, k, q, u) ==
    /\ u = Moved(s, k, u.map[k], u.footprint[k]) /\ RecOK(u, q)
    /\ Access(s, k, u.footprint[k]) /\ LiveAt(k, u.map[k], q)
    /\ \A j \in Keys : j # k => u.map[j] = s.map[j] /\ u.footprint[j] = s.footprint[j]

(* As every call does.                                                     *)
LEMMA RecStep ==
    ASSUME NEW q, SoonEnough(q), NEW sn, SnapOK(sn), NEW s, RecOK(s, q), NEW c, Call(c),
           NEW r, r = Do(s, c, sn, q, TRUE), r.err # "InternalError"
    PROVE  Records(s, c.k, q, r.s)
<1> DEFINE k == c.k
           m == [j \in Keys |-> View(s, j, sn, q)]
           t == [footprint |-> s.footprint, map |-> m, mode |-> "Enforcing"]
           x == r.s.map[k]
           a == r.s.footprint[k]
<1>1. k \in Keys
  BY DEF Call
<1>2. t.map = m
  OBVIOUS
<1>3. m = [j \in Keys |-> m[j]] /\ m[k] = View(s, k, sn, q)
  BY <1>1
<1>4. IsStore(t, s.footprint) /\ t.map[k] = View(s, k, sn, q)
  <2> HIDE DEF m
  <2> QED BY <1>2, <1>3 DEF IsStore
<1> HIDE DEF t
<1>5. Paired(s, t, s.footprint, k, sn, q)
  BY <1>1, <1>4 DEF Paired
<1>6. Twin(s, t, s.footprint, k, q, r, Do(t, c, sn, q, FALSE))
  BY <1>5, DoTwin
<1>7. r.s = Moved(s, k, x, a) /\ Access(s, k, a) /\ LiveAt(k, x, q)
  BY <1>6, Zenon DEF Twin
<1> HIDE DEF x, a, k
<1>8. LET u == Moved(s, k, x, a) IN
      /\ RecOK(u, q) /\ u.map[k] = x /\ u.footprint[k] = a
      /\ \A j \in Keys : j # k => u.map[j] = s.map[j] /\ u.footprint[j] = s.footprint[j]
  BY <1>1, <1>7, MovedOK
<1>9. /\ RecOK(r.s, q)
      /\ \A j \in Keys : j # k => r.s.map[j] = s.map[j] /\ r.s.footprint[j] = s.footprint[j]
  BY <1>7, <1>8, Zenon
<1> QED BY <1>7, <1>9, Zenon DEF Records, x, a, k

(* The storage a recorded run starts with.                                 *)
LEMMA RecStart ==
    ASSUME NEW q
    PROVE  RecOK(Host(q, TRUE)!with_recording_footprint, q)
<1> DEFINE f == [k \in Keys |-> "NotListed"]
           m == [k \in Keys |-> Unloaded]
           s == [footprint |-> f, map |-> m, mode |-> "Recording"]
<1>1. Host(q, TRUE)!with_recording_footprint = s
  BY DEF Host!with_recording_footprint
<1>2. s.footprint = f /\ s.map = m /\ s = [footprint |-> f, map |-> m, mode |-> "Recording"]
  OBVIOUS
<1>3. f \in [Keys -> {"NotListed", "ReadOnly", "ReadWrite"}] /\ m = [k \in Keys |-> m[k]]
  OBVIOUS
<1>4. \A k \in Keys : f[k] = "NotListed" /\ m[k] = Unloaded
  OBVIOUS
<1> HIDE DEF f, m, s
<1>5. RecOK(s, q)
  BY <1>2, <1>3, <1>4 DEF RecOK
<1> QED BY <1>1, <1>5, Zenon

(* A run that ends well met no internal error: a guest cannot handle one.  *)
LEMMA NeverFailed ==
    ASSUME NEW f, NEW start, NEW prog, Program(prog), NEW sn, NEW q, NEW b,
           IsRun(f, start, prog, sn, q, b), f[Len(prog)].err = "Ok"
    PROVE  \A i \in 0..Len(prog) : f[i].err # "InternalError"
<1> DEFINE n == Len(prog)
           T == {i \in 0..n : f[i].err # "InternalError"}
<1>0. n \in Nat
  BY DEF Program
<1>1. ASSUME NEW i \in 1..n, i \in T PROVE i - 1 \in T
  <2> DEFINE x == f[i - 1]
             y == f[i]
             z == f[prog[i].arg]
  <2>1. Steps(z, x, prog[i], y, sn, q, b)
    <3>1. y = Instruction(f, i, prog[i], sn, q, b)
      BY DEF IsRun
    <3> QED BY <3>1, InstructionIs
  <2>2. y.err # "InternalError" /\ i - 1 \in 0..n
    BY <1>0, <1>1
  <2> HIDE DEF x, y, z
  <2>3. x.err # "InternalError"
    <3> SUFFICES ASSUME x.err = "InternalError" PROVE FALSE
      OBVIOUS
    <3>1. Undone(z, x, y)
      BY <2>1, <2>2 DEF Steps
    <3>2. ~Host(0, TRUE)!IsRecoverable(x.err)
      BY DEF Host!IsRecoverable
    <3> QED BY <2>2, <3>1, <3>2 DEF Undone
  <2> QED BY <2>2, <2>3 DEF x
<1>2. n \in T
  BY <1>0
<1>3. 0..n \subseteq T
  <2> HIDE DEF T
  <2> QED BY <1>0, <1>1, <1>2, Downwards
<1> QED BY <1>3

(* What the footprint f lists, g allows.                                   *)
Covered(f, g) == \A k \in Keys : f[k] # "NotListed" => Enough(g[k], f[k])

(* A footprint allows what it lists, and what another one lists that it    *)
(* covers.                                                                 *)
LEMMA Coverings ==
    /\ \A f \in [Keys -> {"NotListed", "ReadOnly", "ReadWrite"}] : Covered(f, f)
    /\ \A f, g, h : Covered(f, g) /\ Covered(g, h) => Covered(f, h)
BY DEF Covered, Enough

(* A call leaves a footprint that covers the one before.                   *)
LEMMA RecordsCover ==
    ASSUME NEW q, NEW s, RecOK(s, q), NEW k, NEW u, Records(s, k, q, u)
    PROVE  Covered(s.footprint, u.footprint)
<1>1. /\ Access(s, k, u.footprint[k])
      /\ \A j \in Keys : j # k => u.footprint[j] = s.footprint[j]
  BY Zenon DEF Records
<1>2. s.footprint \in [Keys -> {"NotListed", "ReadOnly", "ReadWrite"}]
  BY DEF RecOK
<1> QED BY <1>1, <1>2 DEF Covered, Access, Enough

(* The end of a failed sub-call leaves a recording storage in order.       *)
LEMMA UndoneOK ==
    ASSUME NEW q, NEW x, RecOK(x.s, q), NEW z, RecOK(z.s, q),
           Covered(z.s.footprint, x.s.footprint), NEW y, Undone(z, x, y)
    PROVE  RecOK(y.s, q) /\ y.s.footprint = x.s.footprint /\ y.s.map = z.s.map
<1> DEFINE f == x.s.footprint
           m == z.s.map
           u == y.s
           d == z.s.footprint
<1>1. u = [footprint |-> f, map |-> m, mode |-> "Recording"]
  <2>1. x.s = [footprint |-> f, map |-> x.s.map, mode |-> "Recording"]
    BY DEF RecOK
  <2> HIDE DEF f, m
  <2> QED BY <2>1, UndoneIs DEF m
<1>2. /\ f \in [Keys -> {"NotListed", "ReadOnly", "ReadWrite"}] /\ m = [k \in Keys |-> m[k]]
      /\ \A k \in Keys : m[k] = Unloaded \/ (d[k] # "NotListed" /\ LiveAt(k, m[k], q))
      /\ \A k \in Keys : d[k] # "NotListed" => f[k] # "NotListed"
  BY DEF RecOK, Covered, Enough
<1> HIDE DEF f, m, u, d
<1>3. u.footprint = f /\ u.map = m /\ u = [footprint |-> u.footprint, map |-> u.map, mode |-> "Recording"]
  BY <1>1
<1>4. RecOK(u, q)
  BY <1>2, <1>3 DEF RecOK
<1> QED BY <1>3, <1>4 DEF f, m, u

(* One instruction of a recorded run.                                      *)
LEMMA RecInstruction ==
    ASSUME NEW q, SoonEnough(q), NEW sn, SnapOK(sn), NEW c, NEW x, RecOK(x.s, q), NEW z,
           c.op = "end_try" => RecOK(z.s, q) /\ Covered(z.s.footprint, x.s.footprint),
           NEW y, Steps(z, x, c, y, sn, q, TRUE), y.err # "InternalError"
    PROVE  RecOK(y.s, q) /\ Covered(x.s.footprint, y.s.footprint)
<1>1. Covered(x.s.footprint, x.s.footprint)
  BY Coverings DEF RecOK
<1>2. CASE y.s = x.s
  BY <1>1, <1>2, Zenon
<1>3. CASE y = Do(x.s, c, sn, q, TRUE) /\ Call(c)
  <2>1. Records(x.s, c.k, q, y.s)
    BY <1>3, RecStep
  <2> QED BY <2>1, RecordsCover, Zenon DEF Records
<1>4. CASE Undone(z, x, y) /\ c.op = "end_try"
  <2>1. RecOK(y.s, q) /\ y.s.footprint = x.s.footprint
    BY <1>4, UndoneOK
  <2> QED BY <1>1, <2>1, Zenon
<1> QED BY <1>2, <1>3, <1>4, Zenon DEF Steps

(* The storages of a recorded run: their footprints only grow.             *)
LEMMA RecGrows ==
    ASSUME NEW q, SoonEnough(q), NEW sn, SnapOK(sn), NEW prog, Program(prog),
           NEW start, RecOK(start, q), NEW f, IsRun(f, start, prog, sn, q, TRUE), f[Len(prog)].err = "Ok"
    PROVE  \A i \in 0..Len(prog) : RecOK(f[i].s, q) /\ \A j \in 0..i : Covered(f[j].s.footprint, f[i].s.footprint)
<1> DEFINE n == Len(prog)
           F(i) == f[i].s.footprint
           P(i) == RecOK(f[i].s, q) /\ \A j \in 0..i : Covered(F(j), F(i))
           T == {i \in 0..n : P(i)}
<1>0. n \in Nat /\ \A i \in 0..n : f[i].err # "InternalError"
  BY NeverFailed DEF Program
<1>2. P(0)
  <2>1. f[0].s = start
    <3>1. f[0] = [s |-> start, err |-> "Ok", out |-> None]
      BY Zenon DEF IsRun
    <3> QED BY <3>1
  <2>2. RecOK(f[0].s, q)
    BY <2>1, Zenon
  <2>3. Covered(F(0), F(0))
    BY <2>2, Coverings DEF RecOK
  <2>4. \A j \in 0..0 : j = 0
    OBVIOUS
  <2> HIDE DEF F
  <2> QED BY <2>2, <2>3, <2>4
<1>3. ASSUME NEW i \in 1..n, 0..(i - 1) \subseteq T PROVE P(i)
  <2> DEFINE x == f[i - 1]
             y == f[i]
             z == f[prog[i].arg]
  <2>1. i \in 0..n /\ i - 1 \in 0..(i - 1)
    BY <1>0
  <2>2. P(i - 1)
    <3> HIDE DEF P
    <3> QED BY <1>3, <2>1
  <2>3. RecOK(x.s, q) /\ \A j \in 0..(i - 1) : Covered(F(j), F(i - 1))
    BY <2>2
  <2>4. Steps(z, x, prog[i], y, sn, q, TRUE)
    <3>1. y = Instruction(f, i, prog[i], sn, q, TRUE)
      BY DEF IsRun
    <3> QED BY <3>1, InstructionIs
  <2>5. prog[i].op = "end_try" => RecOK(z.s, q) /\ Covered(z.s.footprint, x.s.footprint)
    <3> SUFFICES ASSUME prog[i].op = "end_try"
                 PROVE  RecOK(z.s, q) /\ Covered(z.s.footprint, x.s.footprint)
      OBVIOUS
    <3> DEFINE j == prog[i].arg
    <3>1. j \in 0..(i - 1)
      BY InstructionOf
    <3> HIDE DEF j
    <3>2. P(j)
      <4> HIDE DEF P
      <4> QED BY <1>3, <3>1
    <3>3. RecOK(f[j].s, q) /\ Covered(F(j), F(i - 1))
      BY <2>3, <3>1, <3>2
    <3> QED BY <3>3 DEF j
  <2>6. y.err # "InternalError"
    BY <1>0, <2>1
  <2>7. RecOK(y.s, q) /\ Covered(x.s.footprint, y.s.footprint)
    <3> HIDE DEF x, y, z
    <3> QED BY <2>3, <2>4, <2>5, <2>6, RecInstruction
  <2>8. RecOK(f[i].s, q) /\ Covered(F(i - 1), F(i)) /\ Covered(F(i), F(i))
    <3>1. Covered(F(i), F(i))
      BY <2>7, Coverings DEF RecOK
    <3> QED BY <2>7, <3>1
  <2> HIDE DEF F, x, y, z
  <2>9. \A j \in 0..i : j = i \/ j \in 0..(i - 1)
    OBVIOUS
  <2> QED BY <2>3, <2>8, <2>9, Coverings, Zenon
<1>4. 0..n \subseteq T
  <2>1. 0 \in T /\ \A i \in 1..n : 0..(i - 1) \subseteq T => i \in T
    <3> HIDE DEF P
    <3>1. \A i \in 1..n : i \in 0..n
      OBVIOUS
    <3> QED BY <1>0, <1>2, <1>3, <3>1
  <2> HIDE DEF T
  <2> QED BY <1>0, <2>1, Along
<1>5. ASSUME NEW i \in 0..n PROVE P(i)
  <2> HIDE DEF P
  <2> QED BY <1>4
<1> QED BY <1>5

(* The enforced run so far: g where the recorded one is r.                 *)
Follows(g, r, fp, start) ==
    /\ g.err = r.err /\ IsStore(g.s, fp)
    /\ \A k \in Keys : g.s.map[k] = IF r.s.map[k] = Unloaded THEN start.map[k] ELSE r.s.map[k]

(* One call further.                                                       *)
LEMMA FollowStep ==
    ASSUME NEW q, SoonEnough(q), NEW sn, SnapOK(sn), NEW sn2, NEW fp, NEW start,
           \A k \in Keys : fp[k] # "NotListed" => start.map[k] = Seen(k, sn, q),
           NEW r, RecOK(r.s, q), NEW g, Follows(g, r, fp, start), NEW c, Call(c),
           NEW r2, r2 = Do(r.s, c, sn, q, TRUE), r2.err # "InternalError", Covered(r2.s.footprint, fp),
           NEW g2, g2 = Do(g.s, c, sn2, q, FALSE)
    PROVE  Follows(g2, r2, fp, start)
<1> DEFINE k == c.k
           s == r.s
           t == g.s
           x == r2.s.map[k]
           a == r2.s.footprint[k]
<1>1. k \in Keys
  BY DEF Call
<1>2. /\ IsStore(t, fp)
      /\ \A j \in Keys : t.map[j] = IF s.map[j] = Unloaded THEN start.map[j] ELSE s.map[j]
  BY Zenon DEF Follows
<1>3. g2 = Do(t, c, sn2, q, FALSE)
  OBVIOUS
<1>4. /\ Access(s, k, a) /\ LiveAt(k, x, q)
      /\ \A j \in Keys : j # k => r2.s.map[j] = s.map[j]
  <2>1. Records(r.s, c.k, q, r2.s)
    BY RecStep
  <2> QED BY <2>1, Zenon DEF Records
<1> HIDE DEF k, s, t, x, a
<1>5. a # "NotListed"
  BY <1>4 DEF Access
<1>6. Enough(fp[k], a)
  BY <1>1, <1>5 DEF Covered, a
<1>7. fp[k] # "NotListed"
  BY <1>6 DEF Enough
<1>8. t.map[k] = View(s, k, sn, q)
  <2>1. start.map[k] = Seen(k, sn, q)
    BY <1>1, <1>7
  <2> QED BY <1>1, <1>2, <2>1, Zenon DEF View
<1>9. Paired(s, t, fp, k, sn, q)
  BY <1>1, <1>2, <1>8 DEF Paired, s
<1>10. Twin(s, t, fp, k, q, r2, g2)
  BY <1>3, <1>9, DoTwin DEF k, s
<1>11. g2.err = r2.err /\ g2.s = [t EXCEPT !.map[k] = x]
  BY <1>6, <1>10, Zenon DEF Twin, x, a
<1>12. IsSet(t, g2.s, k, x, fp)
  BY <1>1, <1>2, <1>11, SetCell
<1>13. IsStore(g2.s, fp) /\ g2.s.map[k] = x /\ \A j \in Keys : j # k => g2.s.map[j] = t.map[j]
  BY <1>12, Zenon DEF IsSet
<1>14. x # Unloaded
  BY <1>4, EntriesExist DEF LiveAt
<1>15. ASSUME NEW j \in Keys
       PROVE  g2.s.map[j] = IF r2.s.map[j] = Unloaded THEN start.map[j] ELSE r2.s.map[j]
  <2>1. CASE j = k
    BY <1>13, <1>14, <2>1, Zenon DEF x
  <2>2. CASE j # k
    BY <1>2, <1>4, <1>13, <2>2, Zenon
  <2> QED BY <2>1, <2>2
<1> QED BY <1>11, <1>13, <1>15, Zenon DEF Follows

(* One instruction further; zr and zg are the states the sub-call began in *)
(* that it ends.                                                           *)
LEMMA FollowInstruction ==
    ASSUME NEW q, SoonEnough(q), NEW sn, SnapOK(sn), NEW sn2, NEW fp, NEW start,
           \A k \in Keys : fp[k] # "NotListed" => start.map[k] = Seen(k, sn, q),
           NEW r, RecOK(r.s, q), NEW g, Follows(g, r, fp, start), NEW c, NEW zr, NEW zg,
           c.op = "end_try" => Follows(zg, zr, fp, start) /\ RecOK(zr.s, q)
                                 /\ Covered(zr.s.footprint, r.s.footprint),
           NEW r2, Steps(zr, r, c, r2, sn, q, TRUE), r2.err # "InternalError", Covered(r2.s.footprint, fp),
           NEW g2, Steps(zg, g, c, g2, sn2, q, FALSE)
    PROVE  Follows(g2, r2, fp, start)
<1>1. /\ g.err = r.err /\ IsStore(g.s, fp)
      /\ \A k \in Keys : g.s.map[k] = IF r.s.map[k] = Unloaded THEN start.map[k] ELSE r.s.map[k]
  BY Zenon DEF Follows
<1>2. CASE r.err = "Ok" <=> c.op = "end_try"
  <2>1. r2 = r /\ g2 = g
    BY <1>1, <1>2 DEF Steps, Undone, Call
  <2> QED BY <2>1, Zenon
<1>3. CASE r.err = "Ok" /\ c.op = "fail"
  <2>1. r2.s = r.s /\ g2.s = g.s /\ r2.err = g2.err
    BY <1>1, <1>3 DEF Steps, Undone, Call
  <2> QED BY <1>1, <2>1, Zenon DEF Follows
<1>4. CASE r.err = "Ok" /\ c.op \notin {"fail", "end_try"}
  <2>1. r2 = Do(r.s, c, sn, q, TRUE) /\ Call(c) /\ g2 = Do(g.s, c, sn2, q, FALSE)
    BY <1>1, <1>4 DEF Steps, Undone
  <2> QED BY <2>1, FollowStep
<1>5. CASE r.err # "Ok" /\ c.op = "end_try"
  <2>1. Undone(zr, r, r2) /\ Undone(zg, g, g2)
    BY <1>1, <1>5 DEF Steps
  <2>2. /\ zg.err = zr.err /\ IsStore(zg.s, fp)
        /\ \A k \in Keys : zg.s.map[k] = IF zr.s.map[k] = Unloaded THEN start.map[k] ELSE zr.s.map[k]
    BY <1>5, Zenon DEF Follows
  <2>3. g2.err = r2.err
    <3>1. /\ g2.err = IF Host(0, TRUE)!IsRecoverable(g.err) THEN zg.err ELSE g.err
          /\ r2.err = IF Host(0, TRUE)!IsRecoverable(r.err) THEN zr.err ELSE r.err
      BY <2>1 DEF Undone
    <3>2. Host(0, TRUE)!IsRecoverable(g.err) <=> Host(0, TRUE)!IsRecoverable(r.err)
      BY <1>1 DEF Host!IsRecoverable
    <3> QED BY <1>1, <2>2, <3>1, <3>2
  <2>4. r2.s.map = zr.s.map
    <3>1. RecOK(zr.s, q) /\ Covered(zr.s.footprint, r.s.footprint) /\ RecOK(r.s, q)
      BY <1>5
    <3>2. Undone(zr, r, r2)
      BY <2>1
    <3> QED BY <3>1, <3>2, UndoneOK
  <2>5. IsStore(g2.s, fp) /\ g2.s.map = zg.s.map
    <3> DEFINE m == zg.s.map
               u == g2.s
    <3>1. g.s = [footprint |-> fp, map |-> g.s.map, mode |-> "Enforcing"] /\ m = [j \in Keys |-> m[j]]
      BY <1>1, <2>2 DEF IsStore
    <3> HIDE DEF m
    <3>2. u = [footprint |-> fp, map |-> m, mode |-> "Enforcing"]
      BY <2>1, <3>1, UndoneIs DEF m
    <3> HIDE DEF u
    <3>3. u.map = m
      BY <3>2
    <3>4. IsStore(u, fp)
      BY <3>1, <3>2, <3>3 DEF IsStore
    <3> QED BY <3>3, <3>4 DEF u, m
  <2> QED BY <2>2, <2>3, <2>4, <2>5, Zenon DEF Follows
<1> QED BY <1>2, <1>3, <1>4, <1>5

(* An enforced run that ended as the recorded one.                         *)
SameRun(r, e, fp, sn, q) ==
    /\ RecOK(r.s, q) /\ e.err = "Ok" /\ IsStore(e.s, fp)
    /\ \A k \in Keys : e.s.map[k] = IF fp[k] = "NotListed" THEN Unloaded ELSE View(r.s, k, sn, q)

(* The enforced run of a program over what its recorded run saw, with the  *)
(* footprint it recorded, succeeds and ends with the map that the recorded *)
(* one sees.                                                               *)
LEMMA ExecTwin ==
    ASSUME NEW q, SoonEnough(q), NEW sn, SnapOK(sn), NEW prog, Program(prog),
           NEW rec, RecOK(rec, q), \A k \in Keys : rec.map[k] = Unloaded,
           NEW r, r = Exec(rec, prog, sn, q, TRUE), r.err = "Ok",
           NEW fp, fp = r.s.footprint, NEW start, IsStore(start, fp),
           \A k \in Keys : start.map[k] = IF fp[k] = "NotListed" THEN Unloaded ELSE Seen(k, sn, q),
           NEW sn2, NEW e, e = Exec(start, prog, sn2, q, FALSE)
    PROVE  SameRun(r, e, fp, sn, q)
<1> DEFINE n == Len(prog)
<1>0. n \in Nat
  BY DEF Program
<1>01. RunsTo(rec, prog, sn, q, TRUE, r)
  BY ExecIs
<1>02. RunsTo(start, prog, sn2, q, FALSE, e)
  BY ExecIs
<1>1. PICK f : IsRun(f, rec, prog, sn, q, TRUE) /\ r = f[Len(prog)]
  BY <1>01, Zenon DEF RunsTo
<1>2. PICK g : IsRun(g, start, prog, sn2, q, FALSE) /\ e = g[Len(prog)]
  BY <1>02, Zenon DEF RunsTo
<1>3. IsRun(f, rec, prog, sn, q, TRUE) /\ f[n] = r
  BY <1>1, Zenon
<1>4. g[n] = e
  BY <1>2, Zenon
<1>5. f[n].err = "Ok"
  BY <1>3
<1>6. \A i \in 0..n : RecOK(f[i].s, q) /\ \A j \in 0..i : Covered(f[j].s.footprint, f[i].s.footprint)
  BY <1>3, <1>5, RecGrows
<1>7. \A i \in 0..n : Covered(f[i].s.footprint, fp)
  <2>1. f[n].s.footprint = fp /\ n \in 0..n
    BY <1>0, <1>3
  <2> QED BY <1>6, <2>1, Zenon
<1>8. \A i \in 0..n : f[i].err # "InternalError"
  BY <1>3, <1>5, NeverFailed
<1> DEFINE P(i) == Follows(g[i], f[i], fp, start)
           T == {i \in 0..n : P(i)}
<1>9. P(0)
  <2>1. f[0].s = rec /\ f[0].err = "Ok"
    BY <1>1 DEF IsRun
  <2>2. g[0].s = start /\ g[0].err = "Ok"
    BY <1>2 DEF IsRun
  <2>3. \A k \in Keys : start.map[k] = IF rec.map[k] = Unloaded THEN start.map[k] ELSE rec.map[k]
    OBVIOUS
  <2>4. Follows(g[0], f[0], fp, start)
    BY <2>1, <2>2, <2>3 DEF Follows
  <2> QED BY <2>4
<1>10. ASSUME NEW i \in 1..n, 0..(i - 1) \subseteq T PROVE P(i)
  <2> DEFINE c == prog[i]
             j == c.arg
  <2>0. i \in 0..n /\ i - 1 \in 0..n /\ i - 1 \in 0..(i - 1) /\ 0..(i - 1) \subseteq 0..n
    BY <1>0
  <2>1. \A l \in 0..(i - 1) : Follows(g[l], f[l], fp, start)
    BY <1>10
  <2>2. Steps(f[j], f[i - 1], c, f[i], sn, q, TRUE)
    <3>1. f[i] = Instruction(f, i, prog[i], sn, q, TRUE)
      BY <1>3 DEF IsRun
    <3> QED BY <3>1, InstructionIs
  <2>3. Steps(g[j], g[i - 1], c, g[i], sn2, q, FALSE)
    <3>1. g[i] = Instruction(g, i, prog[i], sn2, q, FALSE)
      BY <1>2 DEF IsRun
    <3> QED BY <3>1, InstructionIs
  <2>4. c.op = "end_try" => j \in 0..(i - 1)
    BY InstructionOf
  <2> HIDE DEF c, j
  <2>5. c.op = "end_try" => /\ Follows(g[j], f[j], fp, start) /\ RecOK(f[j].s, q)
                            /\ Covered(f[j].s.footprint, f[i - 1].s.footprint)
    BY <1>6, <2>0, <2>1, <2>4
  <2>6. /\ RecOK(f[i - 1].s, q) /\ Covered(f[i].s.footprint, fp) /\ f[i].err # "InternalError"
        /\ Follows(g[i - 1], f[i - 1], fp, start)
    BY <1>6, <1>7, <1>8, <2>0, <2>1
  <2>7. \A k \in Keys : fp[k] # "NotListed" => start.map[k] = Seen(k, sn, q)
    OBVIOUS
  <2>8. Follows(g[i], f[i], fp, start)
    BY <2>2, <2>3, <2>5, <2>6, <2>7, FollowInstruction, Zenon
  <2> QED BY <2>8
<1>11. 0..n \subseteq T
  <2>1. 0 \in T /\ \A i \in 1..n : 0..(i - 1) \subseteq T => i \in T
    <3> HIDE DEF P
    <3>1. \A i \in 1..n : i \in 0..n
      OBVIOUS
    <3> QED BY <1>0, <1>9, <1>10, <3>1
  <2> HIDE DEF T
  <2> QED BY <1>0, <2>1, Along
<1>12. Follows(e, r, fp, start)
  <2>1. P(n)
    <3> HIDE DEF P
    <3> QED BY <1>0, <1>11
  <2> QED BY <1>3, <1>4, <2>1, Zenon
<1>13. RecOK(r.s, q)
  <2>1. RecOK(f[n].s, q)
    BY <1>0, <1>6
  <2> QED BY <1>3, <2>1
<1>14. ASSUME NEW k \in Keys
       PROVE  e.s.map[k] = IF fp[k] = "NotListed" THEN Unloaded ELSE View(r.s, k, sn, q)
  <2>1. e.s.map[k] = IF r.s.map[k] = Unloaded THEN start.map[k] ELSE r.s.map[k]
    BY <1>12, Zenon DEF Follows
  <2>2. fp[k] = "NotListed" => r.s.map[k] = Unloaded
    BY <1>13 DEF RecOK
  <2>3. start.map[k] = IF fp[k] = "NotListed" THEN Unloaded ELSE Seen(k, sn, q)
    OBVIOUS
  <2> QED BY <2>1, <2>2, <2>3, Zenon DEF View
<1>15. e.err = "Ok" /\ IsStore(e.s, fp)
  BY <1>12, Zenon DEF Follows
<1> QED BY <1>13, <1>14, <1>15 DEF SameRun

-----------------------------------------------------------------------------
(* Fees: what was computed from the adjusted resources covers the charge.  *)

IsFactor(f) == f.mul \in Nat /\ f.div \in Nat \ {0} /\ f.add \in Nat

(* An adjusted number is at least the number.                              *)
LEMMA Adjusted ==
    ASSUME NEW v \in Nat, NEW f, IsFactor(f), NEW top \in Nat
    PROVE  adjust(v, f, top) \in Nat /\ (v <= top => v <= adjust(v, f, top))
<1> DEFINE p == (v * f.mul) \div f.div
           a == saturating_add(v, f.add, top)
           b == AtMost(p, top)
<1>0. f.mul \in Nat /\ f.div \in Nat \ {0} /\ f.add \in Nat
  BY DEF IsFactor
<1>1. v * f.mul \in Nat
  <2> DEFINE m == f.mul
  <2>1. m \in Nat
    BY <1>0
  <2> HIDE DEF m
  <2>2. v * m \in Nat
    BY <2>1, MulGrows
  <2> QED BY <2>2 DEF m
<1>2. p \in Nat
  <2> DEFINE n == v * f.mul
             d == f.div
  <2>1. n \in Nat /\ d \in Nat \ {0}
    BY <1>0, <1>1
  <2> HIDE DEF n, d
  <2>2. n \div d \in Nat
    BY <2>1
  <2> QED BY <2>2 DEF n, d
<1> HIDE DEF p
<1>3. a \in Nat /\ (v <= top => v <= a)
  BY <1>0 DEF saturating_add, AtMost
<1>4. b \in Nat
  BY <1>2 DEF AtMost
<1> HIDE DEF a, b
<1>5. adjust(v, f, top) = IF v = 0 THEN 0 ELSE AtLeast(a, b)
  BY DEF adjust, a, b, p
<1>6. AtLeast(a, b) \in Nat /\ AtLeast(a, b) >= a
  BY <1>3, <1>4 DEF AtLeast
<1> QED BY <1>3, <1>5, <1>6

(* No fee is negative.                                                     *)
LEMMA FeeIsNat ==
    ASSUME NEW v \in Nat, NEW rate \in Nat, NEW inc \in Nat \ {0}
    PROVE  compute_fee_per_increment(v, rate, inc) \in Nat
<1> DEFINE m == saturating_mul(v, rate, I64Max)
<1>1. m \in Nat
  BY SaturatingMul, FeesAssumption
<1>2. AtLeast(inc, 1) = inc
  BY DEF AtLeast
<1> HIDE DEF m
<1>3. div_ceil(m, inc) \in Nat
  BY <1>1, DivCeil
<1> QED BY <1>2, <1>3 DEF compute_fee_per_increment, m

(* Resources to declare, and the rates for them.                           *)
IsResources(t) ==
    /\ t.instructions \in Nat /\ t.disk_read_entries \in Nat /\ t.write_entries \in Nat
    /\ t.disk_read_bytes \in Nat /\ t.write_bytes \in Nat /\ t.size \in Nat /\ t.events_size \in Nat

IsFeeConfig(c) ==
    /\ c.per_instruction \in Nat /\ c.per_disk_read_entry \in Nat /\ c.per_write_entry \in Nat
    /\ c.per_disk_read_1kb \in Nat /\ c.per_write_1kb \in Nat /\ c.per_historical_1kb \in Nat
    /\ c.per_event_1kb \in Nat /\ c.per_tx_size_1kb \in Nat

(* Both parts of the resource fee.                                         *)
LEMMA ResourceFees ==
    ASSUME NEW t, IsResources(t), NEW c, IsFeeConfig(c)
    PROVE  LET fee == compute_transaction_resource_fee(t, c)
           IN  fee.non_refundable \in Nat /\ fee.refundable \in Nat
<1> DEFINE a1 == compute_fee_per_increment(t.instructions, c.per_instruction, InsnIncrement)
           a2 == saturating_mul(c.per_disk_read_entry, t.disk_read_entries, I64Max)
           a3 == saturating_mul(c.per_write_entry, t.write_entries, I64Max)
           a4 == compute_fee_per_increment(t.disk_read_bytes, c.per_disk_read_1kb, Kb)
           a5 == compute_fee_per_increment(t.write_bytes, c.per_write_1kb, Kb)
           a6 == compute_fee_per_increment(saturating_add(t.size, TxResultSize, U32Max),
                                           c.per_historical_1kb, Kb)
           a7 == compute_fee_per_increment(t.size, c.per_tx_size_1kb, Kb)
           b == compute_fee_per_increment(t.events_size, c.per_event_1kb, Kb)
           q == <<a1, a2, a3, a4, a5, a6, a7>>
<1>0. InsnIncrement \in Nat \ {0} /\ Kb \in Nat \ {0} /\ I64Max \in Nat /\ U32Max \in Nat /\ TxResultSize \in Nat
  BY FeesAssumption
<1>1. a1 \in Nat
  <2>1. t.instructions \in Nat /\ c.per_instruction \in Nat
    BY DEF IsResources, IsFeeConfig
  <2> QED BY <1>0, <2>1, FeeIsNat
<1>2. a2 \in Nat
  <2>1. t.disk_read_entries \in Nat /\ c.per_disk_read_entry \in Nat
    BY DEF IsResources, IsFeeConfig
  <2> QED BY <1>0, <2>1, SaturatingMul
<1>3. a3 \in Nat
  <2>1. t.write_entries \in Nat /\ c.per_write_entry \in Nat
    BY DEF IsResources, IsFeeConfig
  <2> QED BY <1>0, <2>1, SaturatingMul
<1>4. a4 \in Nat
  <2>1. t.disk_read_bytes \in Nat /\ c.per_disk_read_1kb \in Nat
    BY DEF IsResources, IsFeeConfig
  <2> QED BY <1>0, <2>1, FeeIsNat
<1>5. a5 \in Nat
  <2>1. t.write_bytes \in Nat /\ c.per_write_1kb \in Nat
    BY DEF IsResources, IsFeeConfig
  <2> QED BY <1>0, <2>1, FeeIsNat
<1>6. a6 \in Nat
  <2>1. t.size \in Nat /\ c.per_historical_1kb \in Nat
    BY DEF IsResources, IsFeeConfig
  <2>2. saturating_add(t.size, TxResultSize, U32Max) \in Nat
    BY <1>0, <2>1 DEF saturating_add, AtMost
  <2> QED BY <1>0, <2>1, <2>2, FeeIsNat
<1>7. a7 \in Nat
  <2>1. t.size \in Nat /\ c.per_tx_size_1kb \in Nat
    BY DEF IsResources, IsFeeConfig
  <2> QED BY <1>0, <2>1, FeeIsNat
<1>8. b \in Nat
  <2>1. t.events_size \in Nat /\ c.per_event_1kb \in Nat
    BY DEF IsResources, IsFeeConfig
  <2> QED BY <1>0, <2>1, FeeIsNat
<1>9. compute_transaction_resource_fee(t, c) = [non_refundable |-> SumFees(q), refundable |-> b]
  BY Zenon DEF compute_transaction_resource_fee
<1> HIDE DEF a1, a2, a3, a4, a5, a6, a7, b
<1>10. DOMAIN q = 1..7 /\ \A i \in 1..7 : q[i] \in Nat
  BY <1>1, <1>2, <1>3, <1>4, <1>5, <1>6, <1>7
<1> HIDE DEF q
<1>11. SumFees(q) \in Nat
  <2>1. IsFiniteSet(1..7)
    BY FS_Interval, 1 \in Int, 7 \in Int
  <2>2. IsFiniteSet(DOMAIN q) /\ \A k \in DOMAIN q : q[k] \in Nat
    BY <1>10, <2>1
  <2>3. SaturatingSum(q, I64Max) \in 0..I64Max
    BY <1>0, <2>2, SumFits
  <2> QED BY <1>0, <2>3 DEF SumFees
<1> QED BY <1>8, <1>9, <1>11

(* The rent of a change.                                                   *)
LEMMA ChangeFee ==
    ASSUME NEW cfg, IsRentConfig(cfg), NEW e, IsChange(e), NEW q \in Nat
    PROVE  rent_fee_per_entry_change(e, cfg, q) \in Nat
<1> DEFINE longer == extension_ledgers(e, q)
           prepaid == prepaid_ledgers(e, q)
           larger == size_increase(e)
           F(size, ledgers) == rent_fee_for_size_and_ledgers(e.persistent, size, ledgers, cfg)
           x == IF longer = NoLedgers THEN 0 ELSE F(e.new_size, longer)
           y == IF prepaid = NoLedgers \/ larger = NoLedgers THEN 0 ELSE F(larger, prepaid)
           fee == saturating_add(x, y, I64Max)
<1>0. /\ I64Max \in Nat /\ U32Max \in Nat /\ Kb \in Nat /\ CodeDiscount \in Nat \ {0}
      /\ e.new_size \in Nat /\ e.old_size \in Nat /\ e.old_live \in Nat /\ e.new_live \in Nat
  BY FeesAssumption DEF IsChange
<1>1. longer = NoLedgers \/ longer \in Nat
  BY <1>0 DEF extension_ledgers, exclusive_ledger_diff, AtLeast, NoLedgers
<1>2. prepaid = NoLedgers \/ prepaid \in Nat
  BY <1>0 DEF prepaid_ledgers, inclusive_ledger_diff, saturating_add, AtMost, NoLedgers
<1>3. larger = NoLedgers \/ larger \in Nat
  BY <1>0 DEF size_increase, exclusive_ledger_diff, NoLedgers
<1>4. ASSUME NEW size \in Nat, NEW ledgers \in Nat PROVE F(size, ledgers) \in Nat
  <2> DEFINE m1 == saturating_mul(size, cfg.per_rent_1kb, I64Max)
             m2 == saturating_mul(m1, ledgers, I64Max)
             coef == IF e.persistent THEN cfg.persistent_denominator ELSE cfg.temporary_denominator
             kc == saturating_mul(Kb, coef, I64Max)
  <2>1. cfg.per_rent_1kb \in Nat /\ coef \in Nat
    BY DEF IsRentConfig
  <2>2. m1 \in Nat
    BY <1>0, <2>1, SaturatingMul
  <2> HIDE DEF m1, coef
  <2>3. m2 \in Nat
    BY <1>0, <2>2, SaturatingMul
  <2>4. kc \in Nat
    BY <1>0, <2>1, SaturatingMul
  <2> HIDE DEF m2, kc
  <2>5. AtLeast(kc, 1) \in Nat \ {0}
    BY <2>4 DEF AtLeast
  <2>6. div_ceil(m2, AtLeast(kc, 1)) \in Nat
    BY <2>3, <2>5, DivCeil
  <2> QED BY <2>6 DEF rent_fee_for_size_and_ledgers, m1, m2, coef, kc
<1> HIDE DEF longer, prepaid, larger, F
<1>5. x \in Nat
  BY <1>0, <1>1, <1>4
<1>6. y \in Nat
  BY <1>2, <1>3, <1>4
<1> HIDE DEF x, y
<1>7. fee \in Nat
  BY <1>0, <1>5, <1>6 DEF saturating_add, AtMost
<1> HIDE DEF fee
<1>8. fee \div CodeDiscount \in Nat
  BY <1>7, Discount
<1>9. rent_fee_per_entry_change(e, cfg, q) = IF e.code THEN fee \div CodeDiscount ELSE fee
  BY DEF rent_fee_per_entry_change, fee, x, y, F, longer, prepaid, larger
<1> QED BY <1>7, <1>8, <1>9

(* The rent of a transaction.                                              *)
LEMMA RentIsNat ==
    ASSUME NEW cfg, IsRentConfig(cfg), cfg.per_write_entry \in Nat, cfg.per_write_1kb \in Nat, NEW q \in Nat,
           NEW rent, DOMAIN rent \subseteq Keys, \A k \in DOMAIN rent : IsChange(rent[k])
    PROVE  compute_rent_fee(rent, cfg, q) \in Nat
<1> DEFINE ext == {k \in DOMAIN rent : rent[k].old_live < rent[k].new_live}
           ttls == [k \in ext |-> TtlEntrySize]
           fees == [k \in DOMAIN rent |-> rent_fee_per_entry_change(rent[k], cfg, q)]
           a == SumFees(fees)
           b == SaturatingSum(ttls, U32Max)
           w == saturating_mul(cfg.per_write_entry, Cardinality(ext), I64Max)
           z == compute_fee_per_increment(b, cfg.per_write_1kb, Kb)
<1>0. /\ I64Max \in Nat /\ U32Max \in Nat /\ Kb \in Nat \ {0} /\ TtlEntrySize \in Nat
  BY FeesAssumption
<1>1. IsFiniteSet(DOMAIN rent) /\ IsFiniteSet(ext)
  <2>1. IsFiniteSet(Keys)
    BY RentAssumption
  <2>2. IsFiniteSet(DOMAIN rent)
    BY <2>1, FS_Subset
  <2>3. ext \subseteq DOMAIN rent
    OBVIOUS
  <2> HIDE DEF ext
  <2> QED BY <2>2, <2>3, FS_Subset
<1>2. a \in Nat
  <2>1. \A k \in DOMAIN rent : fees[k] \in Nat
    BY ChangeFee
  <2>2. DOMAIN fees = DOMAIN rent
    OBVIOUS
  <2> HIDE DEF fees
  <2>3. SaturatingSum(fees, I64Max) \in 0..I64Max
    BY <1>0, <1>1, <2>1, <2>2, SumFits
  <2> QED BY <1>0, <2>3 DEF SumFees
<1>3. b \in Nat
  <2>1. DOMAIN ttls = ext /\ \A k \in ext : ttls[k] \in Nat
    BY <1>0
  <2> HIDE DEF ttls, ext
  <2>2. b \in 0..U32Max
    BY <1>0, <1>1, <2>1, SumFits
  <2> QED BY <1>0, <2>2
<1>4. Cardinality(ext) \in Nat
  BY <1>1, FS_CardinalityType
<1>5. compute_rent_fee(rent, cfg, q) = saturating_add(saturating_add(a, w, I64Max), z, I64Max)
  BY Zenon DEF compute_rent_fee
<1> HIDE DEF a, b, ext
<1>6. w \in Nat
  BY <1>0, <1>4, SaturatingMul
<1>7. z \in Nat
  BY <1>0, <1>3, FeeIsNat
<1> HIDE DEF w, z
<1> QED BY <1>0, <1>2, <1>5, <1>6, <1>7 DEF saturating_add, AtMost

(* The numbers of the network.                                             *)
LEMMA NetworkFees ==
    ASSUME SettingsOK, network # None
    PROVE  /\ IsRentConfig(network.rent) /\ IsFeeConfig(network.fee)
           /\ network.rent.per_write_entry \in Nat /\ network.rent.per_write_1kb \in Nat
<1> DEFINE s == settings
<1>0. Complete /\ IsRentConfig(network.rent)
  BY NetworkIs
<1>1. {s.compute.per_instruction, s.ledger_cost.per_disk_read_entry,
       s.ledger_cost.per_write_entry, s.ledger_cost.per_disk_read_1kb,
       s.ledger_cost_ext.per_write_1kb, s.historical.per_historical_1kb,
       s.events.per_event_1kb, s.bandwidth.per_tx_size_1kb} \subseteq Nat
  BY <1>0, RentAssumption DEF SettingsOK, Complete
<1>2. ~((\E f \in DOMAIN settings : settings[f] = None) \/ state_size > I64Max)
  BY DEF network, load_from_snapshot
<1>3. /\ network.fee = [per_instruction |-> settings.compute.per_instruction,
                        per_disk_read_entry |-> settings.ledger_cost.per_disk_read_entry,
                        per_write_entry |-> settings.ledger_cost.per_write_entry,
                        per_disk_read_1kb |-> settings.ledger_cost.per_disk_read_1kb,
                        per_write_1kb |-> settings.ledger_cost_ext.per_write_1kb,
                        per_historical_1kb |-> settings.historical.per_historical_1kb,
                        per_event_1kb |-> settings.events.per_event_1kb,
                        per_tx_size_1kb |-> settings.bandwidth.per_tx_size_1kb]
      /\ network.rent.per_write_entry = settings.ledger_cost.per_write_entry
      /\ network.rent.per_write_1kb = settings.ledger_cost_ext.per_write_1kb
  BY <1>2 DEF network, load_from_snapshot
<1>4. IsFeeConfig(network.fee)
  BY <1>1, <1>3 DEF IsFeeConfig
<1> QED BY <1>0, <1>1, <1>3, <1>4

(* The factors of the adjustment.                                          *)
LEMMA FactorsOK ==
    /\ IsFactor(Adjust.instructions) /\ IsFactor(Adjust.read_bytes) /\ IsFactor(Adjust.write_bytes)
    /\ IsFactor(Adjust.tx_size) /\ IsFactor(Adjust.refundable_fee)
BY RentAssumption DEF IsFactor

(* The adjusted resources are numbers, and the bytes declared are at least *)
(* the bytes counted.                                                      *)
LEMMA ResourcesAre ==
    ASSUME NEW fp, DeclaredKeys(fp) \subseteq Keys, NEW restored, restored \subseteq Keys, NEW n \in Nat,
           NEW read \in 0..U32Max, NEW write \in 0..U32Max, NEW ev \in Nat
    PROVE  LET t == compute_adjusted_transaction_resources(fp, restored, n, read, write, ev)
           IN  IsResources(t) /\ read <= t.disk_read_bytes /\ write <= t.write_bytes
<1> DEFINE classic == {k \in DeclaredKeys(fp) : Classic(k)}
           a == adjust(n, Adjust.instructions, U32Max)
           b == Cardinality(classic) + Cardinality(restored)
           c == Cardinality(fp.read_write)
           d == adjust(read, Adjust.read_bytes, U32Max)
           e == adjust(write, Adjust.write_bytes, U32Max)
           m == estimate_max_transaction_size_for_operation(fp, restored)
           f == adjust(m, Adjust.tx_size, U32Max)
           t == [instructions |-> a, disk_read_entries |-> b, write_entries |-> c,
                 disk_read_bytes |-> d, write_bytes |-> e, size |-> f, events_size |-> ev]
<1>0. U32Max \in Nat /\ IsFiniteSet(Keys) /\ EnvelopeSize \in Nat
  BY FeesAssumption, RentAssumption
<1>1. \A S : S \subseteq Keys => Cardinality(S) \in Nat
  BY <1>0, FS_Subset, FS_CardinalityType
<1>2. classic \subseteq Keys /\ fp.read_write \subseteq Keys
  BY DEF DeclaredKeys
<1> HIDE DEF classic
<1>3. b \in Nat /\ c \in Nat /\ Cardinality(DeclaredKeys(fp)) \in Nat /\ Cardinality(restored) \in Nat
  BY <1>1, <1>2
<1>4. m \in Nat
  BY <1>0, <1>3 DEF estimate_max_transaction_size_for_operation
<1> HIDE DEF m, b, c
<1>5. a \in Nat
  BY <1>0, Adjusted, FactorsOK
<1>6. d \in Nat /\ read <= d
  <2>1. read \in Nat /\ read <= U32Max
    BY <1>0
  <2> QED BY <1>0, <2>1, Adjusted, FactorsOK
<1>7. e \in Nat /\ write <= e
  <2>1. write \in Nat /\ write <= U32Max
    BY <1>0
  <2> QED BY <1>0, <2>1, Adjusted, FactorsOK
<1>8. f \in Nat
  BY <1>0, <1>4, Adjusted, FactorsOK
<1>9. compute_adjusted_transaction_resources(fp, restored, n, read, write, ev) = t
  BY Zenon DEF compute_adjusted_transaction_resources, a, b, c, d, e, f, m, classic
<1> HIDE DEF a, d, e, f
<1>10. IsResources(t) /\ read <= t.disk_read_bytes /\ write <= t.write_bytes
  BY <1>3, <1>5, <1>6, <1>7, <1>8 DEF IsResources
<1> HIDE DEF t
<1> QED BY <1>9, <1>10

(* Adjusting the refundable part is enough for the rent.                   *)
LEMMA SumsCompare ==
    ASSUME NEW top \in Nat, NEW a \in Nat, NEW b \in Nat, NEW c \in Nat, NEW d \in Nat,
           saturating_add(b, c, top) <= d
    PROVE  saturating_add(saturating_add(a, b, top), c, top) <= saturating_add(a, d, top)
BY DEF saturating_add, AtMost

(* The fee of a transaction over the network's settings.                   *)
LEMMA FeeSuffices ==
    ASSUME SettingsOK, network # None, seq \in Nat, NEW tx, IsResources(tx.resources), NEW rent,
           DOMAIN rent \subseteq Keys, \A k \in DOMAIN rent : IsChange(rent[k]),
           tx.fee = compute_resource_fee(network, seq, tx.resources, rent)
    PROVE  Charge(tx, rent) <= tx.fee
<1> DEFINE fee == compute_transaction_resource_fee(tx.resources, network.fee)
           c == compute_rent_fee(rent, network.rent, seq)
           s == saturating_add(fee.refundable, c, I64Max)
           d == adjust(s, Adjust.refundable_fee, I64Max)
<1>0. I64Max \in Nat
  BY FeesAssumption
<1>1. /\ IsRentConfig(network.rent) /\ IsFeeConfig(network.fee)
      /\ network.rent.per_write_entry \in Nat /\ network.rent.per_write_1kb \in Nat
  BY NetworkFees
<1>2. fee.non_refundable \in Nat /\ fee.refundable \in Nat
  BY <1>1, ResourceFees
<1>3. c \in Nat
  BY <1>1, RentIsNat
<1>4. tx.fee = saturating_add(fee.non_refundable, d, I64Max)
  BY Zenon DEF compute_resource_fee
<1>5. Charge(tx, rent) = saturating_add(saturating_add(fee.non_refundable, fee.refundable, I64Max), c, I64Max)
  BY Zenon DEF Charge
<1> HIDE DEF fee, c
<1>6. s \in Nat /\ s <= I64Max
  BY <1>0, <1>2, <1>3 DEF saturating_add, AtMost
<1>7. d \in Nat /\ s <= d
  <2> HIDE DEF s
  <2> QED BY <1>0, <1>6, Adjusted, FactorsOK
<1> HIDE DEF d
<1> QED BY <1>0, <1>2, <1>3, <1>4, <1>5, <1>7, SumsCompare

-----------------------------------------------------------------------------
(* What a simulated invocation declares.                                   *)

Declares(tx, prog, sn, q, cfg, r, restored, changes) ==
    /\ r.err = "Ok" /\ Host(q, TRUE)!RestoredAreReadWrite(r.s.footprint, sn)
    /\ tx.kind = "invoke" /\ tx.prog = prog
    /\ tx.footprint = storage_footprint_to_ledger_footprint(r.s.footprint)
    /\ tx.restored = restored
    /\ tx.resources = compute_adjusted_transaction_resources(tx.footprint, restored, Len(prog),
                          DiskReadBytes(Host(q, TRUE)!Listed(r.s.footprint), restored, sn),
                          WriteBytes(changes), ReturnSize)
    /\ tx.fee = compute_resource_fee(cfg, q, tx.resources, extract_rent_changes(changes, sn))

(* What the run that was recorded over a snapshot restored and changed.    *)
RecordedBack(prog, sn, q) == Host(q, TRUE)!RestoredKeys(RecordingRun(prog, sn, q).s.footprint, sn)
RecordedChanges(prog, sn, q) ==
    Host(q, TRUE)!get_ledger_changes(RecordingRun(prog, sn, q).s, sn, RecordedBack(prog, sn, q))

(* It is the recorded run that is declared.                                *)
LEMMA InvocationIs ==
    ASSUME NEW prog, NEW L, NEW q, NEW cfg, NEW tx, tx # None,
           tx = simulate_invoke_host_function_op(prog, L, q, cfg), NEW sn, sn = SimulationSnapshot(L)
    PROVE  Declares(tx, prog, sn, q, cfg, RecordingRun(prog, sn, q), RecordedBack(prog, sn, q),
                    RecordedChanges(prog, sn, q))
<1> DEFINE x == RecordingRun(prog, sn, q)
           fp == x.s.footprint
           restored == RecordedBack(prog, sn, q)
           changes == RecordedChanges(prog, sn, q)
           f == storage_footprint_to_ledger_footprint(fp)
           n == DiskReadBytes(Host(q, TRUE)!Listed(fp), restored, sn)
           w == WriteBytes(changes)
           r == Record(prog, sn, q, cfg)
           R == [footprint |-> f, restored |-> restored, changes |-> changes, instructions |-> Len(prog),
                 disk_read_bytes |-> n, write_bytes |-> w]
           res == compute_adjusted_transaction_resources(r.footprint, r.restored, r.instructions,
                      r.disk_read_bytes, r.write_bytes, ReturnSize)
           fee == compute_resource_fee(cfg, q, res, extract_rent_changes(r.changes, sn))
<1>1. tx = IF r = None THEN None
           ELSE create_transaction_data("invoke", prog, 0, r.footprint, r.restored, res, fee)
  BY Zenon DEF simulate_invoke_host_function_op, InvocationData
<1>2. r = Recorded(x, prog, sn, q, cfg)
  BY Zenon DEF Record
<1>3. r = IF x.err # "Ok" \/ ~Host(q, TRUE)!RestoredAreReadWrite(fp, sn) \/ Len(prog) > cfg.max_instructions
          THEN None ELSE R
  BY <1>2, Zenon DEF Recorded, RecordedBack, RecordedChanges
<1> HIDE DEF x, restored, changes, f, n, w, r, R, res, fee
<1>4. /\ tx = create_transaction_data("invoke", prog, 0, r.footprint, r.restored, res, fee)
      /\ r # None
  BY <1>1
<1>5. x.err = "Ok" /\ Host(q, TRUE)!RestoredAreReadWrite(fp, sn) /\ r = R
  BY <1>3, <1>4
<1>6. /\ tx.kind = "invoke" /\ tx.prog = prog /\ tx.footprint = r.footprint /\ tx.restored = r.restored
      /\ tx.resources = res /\ tx.fee = fee
  BY <1>4 DEF create_transaction_data
<1>7. /\ R.footprint = f /\ R.restored = restored /\ R.changes = changes /\ R.instructions = Len(prog)
      /\ R.disk_read_bytes = n /\ R.write_bytes = w
  BY DEF R
<1>8. /\ tx.footprint = f /\ tx.restored = restored
      /\ tx.resources = compute_adjusted_transaction_resources(tx.footprint, restored, Len(prog), n, w, ReturnSize)
      /\ tx.fee = compute_resource_fee(cfg, q, tx.resources, extract_rent_changes(changes, sn))
  BY <1>5, <1>6, <1>7, Zenon DEF res, fee
<1> QED BY <1>5, <1>6, <1>8, Zenon DEF Declares, x, restored, changes, f, n, w

(* A declared footprint is the recorded one.                               *)
LEMMA FootprintBack ==
    ASSUME NEW fp \in [Keys -> {"NotListed", "ReadOnly", "ReadWrite"}]
    PROVE  LET f == storage_footprint_to_ledger_footprint(fp) IN
           /\ build_storage_footprint_from_xdr(f) = fp
           /\ DeclaredKeys(f) = {k \in Keys : fp[k] # "NotListed"}
           /\ \A q, b : Host(q, b)!Listed(fp) = {k \in Keys : fp[k] # "NotListed"}
<1> DEFINE f == storage_footprint_to_ledger_footprint(fp)
<1>1. f.read_only = {k \in Keys : fp[k] = "ReadOnly"} /\ f.read_write = {k \in Keys : fp[k] = "ReadWrite"}
  BY DEF storage_footprint_to_ledger_footprint
<1> HIDE DEF f
<1>2. build_storage_footprint_from_xdr(f)
        = [k \in Keys |-> IF k \in f.read_only THEN "ReadOnly"
                          ELSE IF k \in f.read_write THEN "ReadWrite" ELSE "NotListed"]
  BY DEF build_storage_footprint_from_xdr
<1>3. \A k \in Keys : fp[k] = IF k \in f.read_only THEN "ReadOnly"
                              ELSE IF k \in f.read_write THEN "ReadWrite" ELSE "NotListed"
  BY <1>1
<1>4. build_storage_footprint_from_xdr(f) = fp
  BY <1>2, <1>3
<1>5. DeclaredKeys(f) = {k \in Keys : fp[k] # "NotListed"}
  BY <1>1 DEF DeclaredKeys
<1>6. \A q, b : Host(q, b)!Listed(fp) = {k \in Keys : fp[k] # "NotListed"}
  BY DEF Host!Listed
<1> QED BY <1>4, <1>5, <1>6 DEF f

(* The snapshot of a simulation and the entries the embedder loads agree   *)
(* on k: the simulation may miss an expired temporary entry.               *)
SameAt(k, sn, cl, q) ==
    \/ sn[k] = cl[k]
    \/ Durability[k] = "Temporary" /\ Late(k, cl[k], q) /\ sn[k] = None

(* What the embedder supplies is what the recorded run saw.                *)
LEMMA SeenIsSupplied ==
    ASSUME NEW q, SoonEnough(q), NEW cl, NEW sn, NEW fp, NEW k \in Keys, fp[k] # "NotListed",
           cl[k] = None \/ cl[k] \in Entries, SameAt(k, sn, cl, q)
    PROVE  Host(q, FALSE)!Supplied(fp, cl, TRUE)[k] = Seen(k, sn, q)
<1> DEFINE c == cl[k]
           m == Host(q, FALSE)!min_live_until_ledger("Persistent")
           late == Host(q, FALSE)!IsExpired(k, c)
           gone == Host(q, FALSE)!IsArchived(k, c)
<1>1. Host(q, FALSE)!Supplied(fp, cl, TRUE)[k]
        = IF ~late THEN c ELSE IF ~gone THEN None ELSE [c EXCEPT !.live = m]
  BY DEF Host!Supplied
<1>2. late <=> Late(k, c, q)
  BY EntriesExist DEF Late, Classic, Host!IsExpired, Host!HasTtl, Host!Exists
<1>3. gone <=> Late(k, c, q) /\ Durability[k] = "Persistent"
  BY <1>2 DEF Host!IsArchived
<1>4. m = Host(q, TRUE)!min_live_until_ledger("Persistent")
  BY MinLive
<1>5. Durability[k] \in {"Temporary", "Persistent", "Classic"}
  BY RentAssumption
<1>6. Late(k, c, q) => Durability[k] # "Classic"
  BY DEF Late, Classic
<1> HIDE DEF c, m, late, gone
<1>7. Seen(k, sn, q) = IF ~Late(k, sn[k], q) THEN sn[k]
                       ELSE IF Durability[k] = "Temporary" THEN None ELSE [sn[k] EXCEPT !.live = m]
  BY <1>4, Zenon DEF Seen
<1>8. CASE sn[k] = c
  BY <1>1, <1>2, <1>3, <1>5, <1>6, <1>7, <1>8
<1>9. CASE Durability[k] = "Temporary" /\ Late(k, c, q) /\ sn[k] = None
  <2>1. ~Late(k, sn[k], q)
    BY <1>9 DEF Late
  <2> QED BY <1>1, <1>2, <1>3, <1>7, <1>9, <2>1
<1> QED BY <1>8, <1>9 DEF SameAt, c

-----------------------------------------------------------------------------
(* The changes the two runs report.                                        *)

Is(c) == c # Unloaded /\ c # None

(* The change of k when the run leaves the cell c.                         *)
Reported(k, c, ro, old, back, q) ==
    LET new == IF ~Classic(k) /\ Is(c) THEN IF c.live >= old THEN c.live ELSE old ELSE 0
        min == Host(q, FALSE)!min_live_until_ledger("Persistent")
    IN  [read_only |-> ro, new_value |-> IF ro \/ ~Is(c) THEN None ELSE c.val,
         old_live |-> IF back THEN 0 ELSE old,
         new_live |-> IF back THEN IF new >= min THEN new ELSE min ELSE new]

(* get_ledger_changes, in either build.                                    *)
LEMMA ReportedIs ==
    ASSUME NEW q, NEW b, NEW s, NEW k, NEW init, NEW restored
    PROVE  Host(q, b)!ledger_change(s, k, init, restored)
             = Reported(k, s.map[k], s.footprint[k] = "ReadOnly", Host(q, b)!old_live_until(k, init[k]),
                        k \in restored /\ ~(s.footprint[k] = "ReadOnly") /\ Is(s.map[k]), q)
<1>1. Host(q, b)!min_live_until_ledger("Persistent") = Host(q, FALSE)!min_live_until_ledger("Persistent")
  BY DEF Host!min_live_until_ledger, Host!saturating_sub
<1> QED BY <1>1, Zenon DEF Host!ledger_change, Reported, Host!MaxOf, Host!Exists, Host!HasTtl, Classic, Is

(* The live-until ledger before the run, in both builds.                   *)
LEMMA OldLives ==
    ASSUME NEW q, NEW k, NEW c
    PROVE  /\ Host(q, FALSE)!old_live_until(k, c) = IF ~Classic(k) /\ Is(c) THEN c.live ELSE 0
           /\ Host(q, TRUE)!old_live_until(k, c) = IF ~Classic(k) /\ Is(c) /\ ~(c.live < q) THEN c.live ELSE 0
BY Zenon DEF Host!old_live_until, Host!Exists, Host!HasTtl, Classic, Is

(* The parts of a reported change.                                         *)
LEMMA ReportParts ==
    ASSUME NEW k, NEW c, NEW ro, NEW old, NEW back, NEW q, NEW ch, ch = Reported(k, c, ro, old, back, q)
    PROVE  LET new == IF ~Classic(k) /\ Is(c) THEN IF c.live >= old THEN c.live ELSE old ELSE 0
               min == Host(q, FALSE)!min_live_until_ledger("Persistent")
           IN  /\ ch.read_only = ro /\ ch.new_value = (IF ro \/ ~Is(c) THEN None ELSE c.val)
               /\ ch.old_live = (IF back THEN 0 ELSE old)
               /\ ch.new_live = (IF back THEN IF new >= min THEN new ELSE min ELSE new)
BY DEF Reported

(* Sizes that rent is paid for.                                            *)
LEMMA RentSize ==
    ASSUME NEW k, NEW v \in Contents
    PROVE  entry_size_for_rent(k, v) \in Nat
<1>1. xdr_size(v) \in Nat /\ v.module \in Nat /\ U32Max \in Nat
  BY SizeIsNat, FeesAssumption DEF Contents
<1> QED BY <1>1 DEF entry_size_for_rent, saturating_add, AtMost

(* A change over the numbers of the code.                                  *)
LEMMA ReportIsChange ==
    ASSUME NEW q, SoonEnough(q), NEW k \in Keys, ~Classic(k), NEW c, LiveAt(k, c, q), NEW ro, NEW old \in Nat,
           NEW back, NEW ch, ch = Reported(k, c, ro, old, back, q),
           NEW init, init[k] = None \/ init[k] \in Entries
    PROVE  IsChange(RentChange(k, ch, init))
<1> DEFINE os == IF ch.old_live > 0 /\ Present(init[k]) THEN entry_size_for_rent(k, init[k].val) ELSE 0
           ns == IF ch.new_value = None THEN os ELSE entry_size_for_rent(k, ch.new_value)
           min == Host(q, FALSE)!min_live_until_ledger("Persistent")
           new == IF ~Classic(k) /\ Is(c) THEN IF c.live >= old THEN c.live ELSE old ELSE 0
<1>0. q \in Nat /\ min \in Nat
  BY MinLive DEF SoonEnough
<1>1. c = None \/ (c \in Entries /\ c.live >= q)
  BY DEF LiveAt
<1>2. /\ ch.new_value = (IF ro \/ ~Is(c) THEN None ELSE c.val)
      /\ ch.old_live = (IF back THEN 0 ELSE old)
      /\ ch.new_live = (IF back THEN IF new >= min THEN new ELSE min ELSE new)
  BY DEF Reported
<1> HIDE DEF min
<1>3. new \in Nat
  BY <1>0, <1>1 DEF Is, Entries
<1>4. ch.old_live \in Nat /\ ch.new_live \in Nat
  <2> HIDE DEF new
  <2> QED BY <1>0, <1>2, <1>3
<1>5. os \in Nat
  <2>1. Present(init[k]) => init[k].val \in Contents
    BY DEF Present, Entries
  <2> QED BY <2>1, RentSize
<1>6. ch.new_value # None => ch.new_value \in Contents
  BY <1>1, <1>2 DEF Is, Entries
<1> HIDE DEF os
<1>7. ns \in Nat
  BY <1>5, <1>6, RentSize
<1>8. RentChange(k, ch, init)
        = [persistent |-> Durability[k] = "Persistent", code |-> k \in CodeKeys,
           old_size |-> os, new_size |-> ns, old_live |-> ch.old_live, new_live |-> ch.new_live]
  BY Zenon DEF RentChange, os
<1> HIDE DEF ns
<1>9. Made(k, RentChange(k, ch, init), os, ns, ch.old_live, ch.new_live)
  BY <1>4, <1>5, <1>7, <1>8, MadeOf
<1> QED BY <1>9 DEF Made

(* A change that rent is charged for.                                      *)
Chargeable(e) == e.old_live < e.new_live \/ e.old_size < e.new_size

SameRent(e1, e2) ==
    IsChange(e1) /\ IsChange(e2) /\ (e1 = e2 \/ (~Chargeable(e1) /\ ~Chargeable(e2)))

(* The same change and the same entry before it cost the same rent.        *)
LEMMA RentDepends ==
    ASSUME NEW k, NEW ch, NEW i1, NEW i2, i1[k] = i2[k] \/ ch.old_live = 0
    PROVE  RentChange(k, ch, i1) = RentChange(k, ch, i2)
<1> DEFINE o1 == IF ch.old_live > 0 /\ Present(i1[k]) THEN entry_size_for_rent(k, i1[k].val) ELSE 0
           o2 == IF ch.old_live > 0 /\ Present(i2[k]) THEN entry_size_for_rent(k, i2[k].val) ELSE 0
<1>1. o1 = o2
  <2>1. CASE i1[k] = i2[k]
    BY <2>1, Zenon
  <2>2. CASE ch.old_live = 0
    <3>1. ~(ch.old_live > 0)
      BY <2>2
    <3> QED BY <3>1, Zenon
  <2> QED BY <2>1, <2>2
<1> HIDE DEF o1, o2
<1> QED BY <1>1, Zenon DEF RentChange, o1, o2

(* An entry with another live-until ledger.                                *)
LEMMA Renewed ==
    ASSUME NEW x \in Entries, NEW m \in Int
    PROVE  [x EXCEPT !.live = m] \in Entries /\ [x EXCEPT !.live = m].live = m
           /\ [x EXCEPT !.live = m].val = x.val
BY DEF Entries

(* A key that is not written, and lives no longer, is charged nothing.     *)
LEMMA KeptIsFree ==
    ASSUME NEW k, NEW ch, ch.new_value = None, ~(ch.old_live < ch.new_live),
           NEW init, IsChange(RentChange(k, ch, init))
    PROVE  ~Chargeable(RentChange(k, ch, init))
<1> DEFINE os == IF ch.old_live > 0 /\ Present(init[k]) THEN entry_size_for_rent(k, init[k].val) ELSE 0
           ns == IF ch.new_value = None THEN os ELSE entry_size_for_rent(k, ch.new_value)
           e == RentChange(k, ch, init)
<1>3. e = [persistent |-> Durability[k] = "Persistent", code |-> k \in CodeKeys,
           old_size |-> os, new_size |-> ns, old_live |-> ch.old_live, new_live |-> ch.new_live]
  BY Zenon DEF RentChange
<1>4. ns = os
  OBVIOUS
<1> HIDE DEF os, ns, e
<1>5. \A p, c, x, y, z, w : e = [persistent |-> p, code |-> c, old_size |-> x, new_size |-> y,
                                 old_live |-> z, new_live |-> w]
           => e.old_size = x /\ e.new_size = y /\ e.old_live = z /\ e.new_live = w
  OBVIOUS
<1>6. e.old_live = ch.old_live /\ e.new_live = ch.new_live /\ e.new_size = ns /\ e.old_size = os
  BY <1>3, <1>5, Zenon
<1>7. ~(e.old_size < e.new_size)
  BY <1>4, <1>6 DEF IsChange, e
<1>8. ~(e.old_live < e.new_live)
  BY <1>6
<1> QED BY <1>7, <1>8 DEF Chargeable, e

(* What a run reports on a key, in a recording build over the snapshot sn  *)
(* and in an enforcing one over the supplied entries init.                 *)
RecordedReport(k, c, ro, arch, sn, q) ==
    Reported(k, c, ro, Host(q, TRUE)!old_live_until(k, sn[k]), arch /\ ~ro /\ Is(c), q)

EnforcedReport(k, c, ro, arch, init, q) ==
    Reported(k, c, ro, Host(q, FALSE)!old_live_until(k, init[k]), arch /\ ~ro /\ Is(c), q)

(* Both cost the same rent.                                                *)
LEMMA KeyRent ==
    ASSUME NEW q, SoonEnough(q), NEW k \in Keys, ~Classic(k), NEW sn, sn[k] = None \/ sn[k] \in Entries,
           NEW c, LiveAt(k, c, q), NEW init, init[k] = Seen(k, sn, q), NEW ro, NEW arch \in BOOLEAN,
           arch <=> Late(k, sn[k], q) /\ Durability[k] = "Persistent", arch => ~ro
    PROVE  SameRent(RentChange(k, RecordedReport(k, c, ro, arch, sn, q), sn),
                    RentChange(k, EnforcedReport(k, c, ro, arch, init, q), init))
<1> DEFINE o1 == Host(q, TRUE)!old_live_until(k, sn[k])
           o2 == Host(q, FALSE)!old_live_until(k, init[k])
           back == arch /\ ~ro /\ Is(c)
           m == Host(q, FALSE)!min_live_until_ledger("Persistent")
           ch1 == Reported(k, c, ro, o1, back, q)
           ch2 == Reported(k, c, ro, o2, back, q)
           e1 == RentChange(k, ch1, sn)
           e2 == RentChange(k, ch2, init)
<1>1. /\ o1 = IF Is(sn[k]) /\ ~(sn[k].live < q) THEN sn[k].live ELSE 0
      /\ o2 = IF Is(init[k]) THEN init[k].live ELSE 0
  BY OldLives
<1>2. q \in Nat /\ m \in Nat /\ m >= q
  BY MinLive DEF SoonEnough
<1>2a. m = Host(q, TRUE)!min_live_until_ledger("Persistent")
  BY MinLive
<1>3. sn[k] # None => Is(sn[k]) /\ sn[k].live \in Int /\ sn[k].val \in Contents
  BY EntriesExist DEF Is, Entries
<1>4. init[k] = IF ~Late(k, sn[k], q) THEN sn[k]
                ELSE IF Durability[k] = "Temporary" THEN None ELSE [sn[k] EXCEPT !.live = m]
  BY <1>2a DEF Seen
<1>5. Late(k, sn[k], q) <=> sn[k] # None /\ sn[k].live < q
  BY DEF Late
<1>6. ~Is(None)
  BY DEF Is
<1>7. Durability[k] \in {"Temporary", "Persistent"}
  BY RentAssumption DEF Classic
<1>8. init[k] = None \/ (init[k] \in Entries /\ init[k].live >= q)
  <2> HIDE DEF m
  <2>0. m \in Int
    BY <1>2
  <2>1. \A x \in Entries : [x EXCEPT !.live = m] \in Entries /\ [x EXCEPT !.live = m].live = m
    BY <2>0, Renewed, Zenon
  <2>2. CASE ~Late(k, sn[k], q)
    BY <1>2, <1>3, <1>4, <1>5, <2>2
  <2>3. CASE Late(k, sn[k], q)
    BY <1>2, <1>4, <1>5, <2>1, <2>3
  <2> QED BY <2>2, <2>3
<1>9. o1 \in Nat /\ o2 \in Nat
  <2>1. init[k] # None => init[k].live \in Int
    BY <1>8 DEF Entries
  <2> HIDE DEF o1, o2, m
  <2> QED BY <1>1, <1>2, <1>3, <1>6, <1>8, <2>1 DEF Is
<1> HIDE DEF o1, o2, m, back
<1>10. IsChange(e1) /\ IsChange(e2)
  <2>1. \A ch : ch = ch1 => IsChange(RentChange(k, ch, sn))
    BY <1>9, ReportIsChange
  <2>2. \A ch : ch = ch2 => IsChange(RentChange(k, ch, init))
    BY <1>8, <1>9, ReportIsChange
  <2> QED BY <2>1, <2>2
<1>11. RecordedReport(k, c, ro, arch, sn, q) = ch1 /\ EnforcedReport(k, c, ro, arch, init, q) = ch2
  BY Zenon DEF RecordedReport, EnforcedReport, o1, o2, back
<1>12. e1 = e2 \/ (~Chargeable(e1) /\ ~Chargeable(e2))
  <2>1. CASE ~Late(k, sn[k], q)
    <3>1. init[k] = sn[k]
      BY <1>4, <2>1
    <3>2. o1 = o2
      BY <1>1, <1>3, <1>5, <1>6, <2>1, <3>1
    <3> QED BY <3>1, <3>2, RentDepends
  <2>2. CASE Late(k, sn[k], q) /\ Durability[k] = "Temporary"
    <3>1. init[k] = None /\ o1 = 0 /\ o2 = 0
      BY <1>1, <1>4, <1>5, <1>6, <2>2
    <3>2. ch1 = ch2
      BY <3>1
    <3>3. ch1.old_live = 0
      BY <3>1 DEF Reported
    <3> QED BY <3>2, <3>3, RentDepends
  <2>3. CASE Late(k, sn[k], q) /\ Durability[k] = "Persistent"
    <3>1. o1 = 0 /\ arch /\ ~ro
      BY <1>1, <1>5, <2>3
    <3>2. init[k] # None /\ init[k].live = m
      <4>1. init[k] = [sn[k] EXCEPT !.live = m]
        BY <1>4, <2>3
      <4>2. [sn[k] EXCEPT !.live = m].live = m /\ [sn[k] EXCEPT !.live = m] \in Entries
        <5>0. m \in Int
          BY <1>2
        <5>1. \A x \in Entries : [x EXCEPT !.live = m] \in Entries /\ [x EXCEPT !.live = m].live = m
          BY <5>0, Renewed, Zenon
        <5>2. sn[k] \in Entries
          BY <1>5, <2>3
        <5> QED BY <5>1, <5>2
      <4> QED BY <4>1, <4>2, EntriesExist
    <3>3. o2 = m
      BY <1>1, <1>8, <3>2, EntriesExist DEF Is
    <3>4. CASE Is(c)
      <4>1. back = TRUE
        BY <3>1, <3>4 DEF back
      <4>2. c.live \in Int /\ c.live >= q
        BY <3>4 DEF LiveAt, Is, Entries
      <4>3. ch1 = ch2 /\ ch1.old_live = 0
        <5> DEFINE n1 == IF c.live >= 0 THEN c.live ELSE 0
                   n2 == IF c.live >= m THEN c.live ELSE m
        <5>1. (IF n1 >= m THEN n1 ELSE m) = (IF n2 >= m THEN n2 ELSE m)
          <6>1. \A x \in Int, y \in Nat : x >= 0 =>
                  LET a == IF x >= 0 THEN x ELSE 0
                      b == IF x >= y THEN x ELSE y
                  IN  (IF a >= y THEN a ELSE y) = (IF b >= y THEN b ELSE y)
            OBVIOUS
          <6>2. c.live >= 0
            BY <1>2, <4>2
          <6> QED BY <1>2, <4>2, <6>1, <6>2
        <5>2. \A n : Reported(k, c, ro, n, TRUE, q)
                = [read_only |-> ro, new_value |-> IF ro \/ ~Is(c) THEN None ELSE c.val, old_live |-> 0,
                   new_live |-> IF (IF c.live >= n THEN c.live ELSE n) >= m
                                THEN IF c.live >= n THEN c.live ELSE n ELSE m]
          BY <3>4 DEF Reported, m
        <5>3. ch1 = Reported(k, c, ro, 0, TRUE, q) /\ ch2 = Reported(k, c, ro, m, TRUE, q)
          BY <3>1, <3>3, <4>1
        <5>4. /\ ch1 = [read_only |-> ro, new_value |-> IF ro \/ ~Is(c) THEN None ELSE c.val, old_live |-> 0,
                        new_live |-> IF n1 >= m THEN n1 ELSE m]
              /\ ch2 = [read_only |-> ro, new_value |-> IF ro \/ ~Is(c) THEN None ELSE c.val, old_live |-> 0,
                        new_live |-> IF n2 >= m THEN n2 ELSE m]
          BY <5>2, <5>3
        <5> HIDE DEF n1, n2, ch1, ch2
        <5> QED BY <5>1, <5>4
      <4> QED BY <4>3, RentDepends
    <3>5. CASE c = None
      <4>1. back = FALSE
        BY <1>6, <3>5 DEF back
      <4>2. /\ ch1.new_value = None /\ ch1.new_live = 0 /\ ch1.old_live \in Nat
            /\ ch2.new_value = None /\ ch2.new_live = 0 /\ ch2.old_live \in Nat
        BY <1>6, <1>9, <3>5, <4>1 DEF Reported
      <4> HIDE DEF ch1, ch2
      <4>3. ~(ch1.old_live < ch1.new_live) /\ ~(ch2.old_live < ch2.new_live)
        BY <4>2
      <4> QED BY <1>10, <4>2, <4>3, KeptIsFree
    <3> QED BY <3>4, <3>5, EntriesExist DEF LiveAt, Is
  <2> QED BY <1>7, <2>1, <2>2, <2>3
<1> QED BY <1>10, <1>11, <1>12 DEF SameRent

(* extract_rent_changes, as one selection.                                 *)
LEMMA ExtractIs ==
    ASSUME NEW changes, NEW init
    PROVE  extract_rent_changes(changes, init)
             = [k \in {j \in DOMAIN changes : ~Classic(j) /\ Chargeable(RentChange(j, changes[j], init))}
                  |-> RentChange(k, changes[k], init)]
<1> DEFINE rent == [k \in {j \in DOMAIN changes : ~Classic(j)} |-> RentChange(k, changes[k], init)]
           D == {j \in DOMAIN rent : rent[j].old_live < rent[j].new_live \/ rent[j].old_size < rent[j].new_size}
           E == {j \in DOMAIN changes : ~Classic(j) /\ Chargeable(RentChange(j, changes[j], init))}
<1>1. extract_rent_changes(changes, init) = [k \in D |-> rent[k]]
  BY DEF extract_rent_changes
<1>2. \A k : k \in DOMAIN rent <=> k \in DOMAIN changes /\ ~Classic(k)
  OBVIOUS
<1>3. \A k \in DOMAIN rent : rent[k] = RentChange(k, changes[k], init)
  OBVIOUS
<1> HIDE DEF rent
<1>4. D = E
  BY <1>2, <1>3 DEF Chargeable
<1>5. \A k \in D : rent[k] = RentChange(k, changes[k], init)
  BY <1>3
<1> HIDE DEF D, E
<1>6. [k \in D |-> rent[k]] = [k \in E |-> RentChange(k, changes[k], init)]
  BY <1>4, <1>5
<1> QED BY <1>1, <1>6 DEF E

(* Changes that cost the same, key by key, cost the same.                  *)
LEMMA SameExtract ==
    ASSUME NEW c1, NEW i1, NEW c2, NEW i2, DOMAIN c1 = DOMAIN c2,
           \A k \in DOMAIN c1 : ~Classic(k) => SameRent(RentChange(k, c1[k], i1), RentChange(k, c2[k], i2))
    PROVE  /\ extract_rent_changes(c1, i1) = extract_rent_changes(c2, i2)
           /\ DOMAIN extract_rent_changes(c1, i1) \subseteq DOMAIN c1
           /\ \A k \in DOMAIN extract_rent_changes(c1, i1) : IsChange(extract_rent_changes(c1, i1)[k])
<1> DEFINE P(k) == RentChange(k, c1[k], i1)
           Q(k) == RentChange(k, c2[k], i2)
           D == {j \in DOMAIN c1 : ~Classic(j) /\ Chargeable(P(j))}
           E == {j \in DOMAIN c2 : ~Classic(j) /\ Chargeable(Q(j))}
<1>1. extract_rent_changes(c1, i1) = [k \in D |-> P(k)]
  BY ExtractIs, Zenon
<1>2. extract_rent_changes(c2, i2) = [k \in E |-> Q(k)]
  BY ExtractIs, Zenon
<1>3. \A k \in DOMAIN c1 : ~Classic(k) => IsChange(P(k)) /\ (P(k) = Q(k) \/ (~Chargeable(P(k)) /\ ~Chargeable(Q(k))))
  BY DEF SameRent
<1> HIDE DEF P, Q
<1>4. D = E /\ \A k \in D : P(k) = Q(k) /\ IsChange(P(k))
  BY <1>3
<1>5. D \subseteq DOMAIN c1
  OBVIOUS
<1> HIDE DEF D, E
<1> QED BY <1>1, <1>2, <1>4, <1>5

(* What a change writes.                                                   *)
LEMMA SameWrites ==
    ASSUME NEW c1, NEW c2, DOMAIN c1 = DOMAIN c2, DOMAIN c1 \subseteq Keys,
           \A k \in DOMAIN c1 : (c1[k].read_only <=> c2[k].read_only) /\ c1[k].new_value = c2[k].new_value,
           \A k \in DOMAIN c1 : c1[k].new_value = None \/ c1[k].new_value \in Contents
    PROVE  WriteBytes(c1) = WriteBytes(c2) /\ WriteBytes(c1) \in 0..U32Max
<1> DEFINE W(c) == {k \in DOMAIN c : ~c[k].read_only /\ c[k].new_value # None}
           S(c) == [k \in W(c) |-> xdr_size(c[k].new_value)]
<1>1. WriteBytes(c1) = SumBytes(S(c1)) /\ WriteBytes(c2) = SumBytes(S(c2))
  BY DEF WriteBytes
<1>2. W(c1) = W(c2)
  OBVIOUS
<1>3. S(c1) = S(c2)
  BY <1>2
<1>4. \A k \in W(c1) : S(c1)[k] \in Nat
  BY SizeIsNat
<1>5. DOMAIN S(c1) = W(c1) /\ W(c1) \in SUBSET Keys
  OBVIOUS
<1> HIDE DEF S, W
<1>6. SumBytes(S(c1)) \in 0..U32Max
  BY <1>4, <1>5, BytesFit
<1> QED BY <1>1, <1>3, <1>6

(* The report on a key that only failed sub-calls touched.                 *)
ListedReport(k, ro, q) == Reported(k, None, ro, 0, FALSE, q)

RecordedReports(ch, s, sn, restored, q) ==
    /\ DOMAIN ch = {k \in Keys : s.footprint[k] # "NotListed"}
    /\ \A k \in DOMAIN ch :
          ch[k] = IF s.map[k] = Unloaded THEN ListedReport(k, s.footprint[k] = "ReadOnly", q)
                  ELSE RecordedReport(k, s.map[k], s.footprint[k] = "ReadOnly", k \in restored, sn, q)

EnforcedReports(ch, s, init, restored, q) ==
    /\ DOMAIN ch = {k \in Keys : s.footprint[k] # "NotListed"}
    /\ \A k \in DOMAIN ch : ch[k] = EnforcedReport(k, s.map[k], s.footprint[k] = "ReadOnly", k \in restored, init, q)

(* The changes of a recorded run.                                          *)
LEMMA RecordedChangesAre ==
    ASSUME NEW q, NEW s, RecOK(s, q), NEW sn, NEW restored
    PROVE  RecordedReports(Host(q, TRUE)!get_ledger_changes(s, sn, restored), s, sn, restored, q)
<1> DEFINE ch == Host(q, TRUE)!get_ledger_changes(s, sn, restored)
           D == {k \in Keys : s.footprint[k] # "NotListed"}
           A(k) == Host(q, TRUE)!footprint_only_change(s, k)
           B(k) == Host(q, TRUE)!ledger_change(s, k, sn, restored)
<1>1. \A k \in Keys : s.map[k] # Unloaded => s.footprint[k] # "NotListed"
  BY DEF RecOK
<1>2. Host(q, TRUE)!ChangedKeys(s) = D
  <2>1. s.mode = "Recording"
    BY DEF RecOK
  <2> QED BY <1>1, <2>1 DEF Host!ChangedKeys, Host!Listed
<1>3. ch = [k \in D |-> IF s.map[k] = Unloaded THEN A(k) ELSE B(k)]
  BY <1>2, Zenon DEF Host!get_ledger_changes
<1>4. \A k : B(k) = RecordedReport(k, s.map[k], s.footprint[k] = "ReadOnly", k \in restored, sn, q)
  BY ReportedIs, Zenon DEF RecordedReport
<1>5. \A k : A(k) = ListedReport(k, s.footprint[k] = "ReadOnly", q)
  <2> TAKE k
  <2> DEFINE ro == s.footprint[k] = "ReadOnly"
  <2>1. A(k) = [read_only |-> ro, new_value |-> None, old_live |-> 0, new_live |-> 0]
    BY DEF Host!footprint_only_change, Host!NoChange
  <2>2. ~Is(None)
    BY DEF Is
  <2> HIDE DEF ro, A
  <2>3. A(k) = ListedReport(k, ro, q)
    BY <2>1, <2>2 DEF ListedReport, Reported
  <2> QED BY <2>3 DEF ro
<1> HIDE DEF A, B, D
<1>6. DOMAIN ch = D /\ \A k \in D : ch[k] = IF s.map[k] = Unloaded THEN A(k) ELSE B(k)
  BY <1>3
<1> HIDE DEF ch
<1>7. \A k \in D : ch[k] = IF s.map[k] = Unloaded THEN ListedReport(k, s.footprint[k] = "ReadOnly", q)
                  ELSE RecordedReport(k, s.map[k], s.footprint[k] = "ReadOnly", k \in restored, sn, q)
  BY <1>4, <1>5, <1>6, Zenon
<1> QED BY <1>6, <1>7, Zenon DEF RecordedReports, ch, D

(* The changes of an enforced run that loaded every listed key.            *)
LEMMA EnforcedChangesAre ==
    ASSUME NEW q, NEW s, NEW fp, IsStore(s, fp), NEW init, NEW restored,
           \A k \in Keys : s.map[k] # Unloaded <=> fp[k] # "NotListed"
    PROVE  EnforcedReports(Host(q, FALSE)!get_ledger_changes(s, init, restored), s, init, restored, q)
<1> DEFINE ch == Host(q, FALSE)!get_ledger_changes(s, init, restored)
           D == {k \in Keys : s.footprint[k] # "NotListed"}
<1>0. s.mode = "Enforcing" /\ s.footprint = fp
  BY DEF IsStore
<1>1. \A k \in Keys : s.map[k] # Unloaded <=> s.footprint[k] # "NotListed"
  BY <1>0
<1>2. Host(q, FALSE)!ChangedKeys(s) = D
  BY <1>0, <1>1 DEF Host!ChangedKeys, Host!Listed
<1>3. ch = [k \in D |-> IF s.map[k] = Unloaded THEN Host(q, FALSE)!footprint_only_change(s, k)
                        ELSE Host(q, FALSE)!ledger_change(s, k, init, restored)]
  BY <1>2, Zenon DEF Host!get_ledger_changes
<1>4. DOMAIN ch = D /\ \A k \in D : s.map[k] # Unloaded => ch[k] = Host(q, FALSE)!ledger_change(s, k, init, restored)
  BY <1>3, Zenon
<1>5. \A k \in D : ch[k] = Host(q, FALSE)!ledger_change(s, k, init, restored)
  BY <1>1, <1>4
<1>6. \A k : Host(q, FALSE)!ledger_change(s, k, init, restored)
          = EnforcedReport(k, s.map[k], s.footprint[k] = "ReadOnly", k \in restored, init, q)
  BY ReportedIs, Zenon DEF EnforcedReport
<1> QED BY <1>4, <1>5, <1>6, Zenon DEF EnforcedReports

-----------------------------------------------------------------------------
(* The recorded run and the execution of what it declared.                 *)

StartsFrom(start, fp, supplied) ==
    /\ IsStore(start, fp)
    /\ \A k \in Keys : start.map[k] = IF fp[k] = "NotListed" THEN Unloaded ELSE supplied[k]

(* The storage an execution starts from.                                   *)
LEMMA StartIs ==
    ASSUME NEW q, NEW fp, NEW supplied
    PROVE  StartsFrom(Host(q, FALSE)!with_enforcing_footprint_and_map(fp, supplied), fp, supplied)
<1> DEFINE start == Host(q, FALSE)!with_enforcing_footprint_and_map(fp, supplied)
           m == [k \in Keys |-> IF fp[k] = "NotListed" THEN Unloaded ELSE supplied[k]]
<1>1. start = [footprint |-> fp, map |-> m, mode |-> "Enforcing"]
  BY DEF Host!with_enforcing_footprint_and_map, Host!build_storage_map
<1>2. m = [k \in Keys |-> m[k]] /\ \A k \in Keys : m[k] = IF fp[k] = "NotListed" THEN Unloaded ELSE supplied[k]
  OBVIOUS
<1> HIDE DEF m, start
<1>3. start.map = m /\ start.footprint = fp
  BY <1>1
<1> QED BY <1>1, <1>2, <1>3 DEF IsStore, StartsFrom, start

RunAlike(r, e, fp, supplied, sn, q) ==
    SameRun(r, e, fp, sn, q) /\ \A k \in Keys : fp[k] # "NotListed" => supplied[k] = Seen(k, sn, q)

(* The two runs leave the same entries.                                    *)
LEMMA SameEntries ==
    ASSUME NEW q, SoonEnough(q), NEW sn, SnapOK(sn), NEW prog, Program(prog),
           NEW rec, RecOK(rec, q), \A k \in Keys : rec.map[k] = Unloaded,
           NEW r, r = Exec(rec, prog, sn, q, TRUE), r.err = "Ok",
           NEW fp, fp = r.s.footprint, NEW cl, SnapOK(cl),
           \A k \in Keys : fp[k] # "NotListed" => SameAt(k, sn, cl, q),
           NEW supplied, supplied = Host(q, FALSE)!Supplied(fp, cl, TRUE),
           NEW start, start = Host(q, FALSE)!with_enforcing_footprint_and_map(fp, supplied),
           NEW e, e = Exec(start, prog, cl, q, FALSE)
    PROVE  RunAlike(r, e, fp, supplied, sn, q)
<1>1. \A k \in Keys : fp[k] # "NotListed" => supplied[k] = Seen(k, sn, q)
  <2> SUFFICES ASSUME NEW k \in Keys, fp[k] # "NotListed" PROVE supplied[k] = Seen(k, sn, q)
    OBVIOUS
  <2>1. cl[k] = None \/ cl[k] \in Entries
    BY DEF SnapOK
  <2>2. SameAt(k, sn, cl, q)
    OBVIOUS
  <2>3. Host(q, FALSE)!Supplied(fp, cl, TRUE)[k] = Seen(k, sn, q)
    BY <2>1, <2>2, SeenIsSupplied
  <2> QED BY <2>3
<1>4. StartsFrom(start, fp, supplied)
  BY StartIs, Zenon
<1>5. IsStore(start, fp)
  BY <1>4, Zenon DEF StartsFrom
<1>6. \A k \in Keys : start.map[k] = IF fp[k] = "NotListed" THEN Unloaded ELSE Seen(k, sn, q)
  BY <1>1, <1>4 DEF StartsFrom
<1>7. SameRun(r, e, fp, sn, q)
  BY <1>5, <1>6, ExecTwin, Zenon
<1> QED BY <1>1, <1>7, Zenon DEF RunAlike

ArchivedAlike(k, sn, cl, q) ==
    /\ Host(q, TRUE)!IsArchived(k, sn[k]) <=> Late(k, sn[k], q) /\ Durability[k] = "Persistent"
    /\ Host(q, FALSE)!IsArchived(k, cl[k]) <=> Late(k, sn[k], q) /\ Durability[k] = "Persistent"
    /\ Classic(k) \/ (Late(k, sn[k], q) /\ Durability[k] = "Persistent") => sn[k] = cl[k]

(* Both find the same entries archived.                                    *)
LEMMA SameArchived ==
    ASSUME NEW q, NEW sn, NEW cl, SnapOK(sn), SnapOK(cl), NEW k \in Keys, SameAt(k, sn, cl, q)
    PROVE  ArchivedAlike(k, sn, cl, q)
<1>1. sn[k] # Unloaded /\ cl[k] # Unloaded
  BY EntriesExist DEF SnapOK
<1>2. Host(q, TRUE)!IsExpired(k, sn[k]) <=> Late(k, sn[k], q)
  BY <1>1 DEF Late, Classic, Host!IsExpired, Host!HasTtl, Host!Exists
<1>3. Host(q, FALSE)!IsExpired(k, cl[k]) <=> Late(k, cl[k], q)
  BY <1>1 DEF Late, Classic, Host!IsExpired, Host!HasTtl, Host!Exists
<1>4. Host(q, TRUE)!IsArchived(k, sn[k]) <=> Late(k, sn[k], q) /\ Durability[k] = "Persistent"
  BY <1>2 DEF Host!IsArchived
<1>5. Host(q, FALSE)!IsArchived(k, cl[k]) <=> Late(k, cl[k], q) /\ Durability[k] = "Persistent"
  BY <1>3 DEF Host!IsArchived
<1>6. Durability[k] = "Temporary" => Durability[k] # "Persistent" /\ ~Classic(k)
  BY DEF Classic
<1> QED BY <1>4, <1>5, <1>6 DEF SameAt, ArchivedAlike

(* Declared bytes to read.                                                 *)
LEMMA SameReads ==
    ASSUME NEW keys, keys \subseteq Keys, NEW back, NEW sn, NEW cl, SnapOK(sn),
           \A k \in keys : Classic(k) \/ k \in back => sn[k] = cl[k]
    PROVE  DiskReadBytes(keys, back, sn) = DiskReadBytes(keys, back, cl) /\ DiskReadBytes(keys, back, sn) \in 0..U32Max
<1> DEFINE R(x) == {k \in keys : Present(x[k]) /\ (Classic(k) \/ k \in back)}
           S(x) == [k \in R(x) |-> xdr_size(x[k].val)]
<1>1. DiskReadBytes(keys, back, sn) = SumBytes(S(sn)) /\ DiskReadBytes(keys, back, cl) = SumBytes(S(cl))
  BY DEF DiskReadBytes
<1>2. R(sn) = R(cl)
  OBVIOUS
<1>3. S(sn) = S(cl)
  BY <1>2
<1>4. \A k \in R(sn) : S(sn)[k] \in Nat
  BY SizeIsNat DEF SnapOK, Present, Entries
<1>5. DOMAIN S(sn) = R(sn) /\ R(sn) \in SUBSET Keys
  OBVIOUS
<1> HIDE DEF S, R
<1>6. SumBytes(S(sn)) \in 0..U32Max
  BY <1>4, <1>5, BytesFit
<1> QED BY <1>1, <1>3, <1>6

Writes(ch, ro, c) == ch.read_only = ro /\ ch.new_value = (IF ro \/ ~Is(c) THEN None ELSE c.val)

(* The keys both restore.                                                  *)
Back(keys, sn, q) == {k \in keys : Late(k, sn[k], q) /\ Durability[k] = "Persistent"}

SameCost(c1, i1, c2, i2, keys) ==
    /\ WriteBytes(c1) = WriteBytes(c2) /\ WriteBytes(c1) \in 0..U32Max
    /\ extract_rent_changes(c1, i1) = extract_rent_changes(c2, i2)
    /\ DOMAIN extract_rent_changes(c1, i1) \subseteq keys
    /\ \A k \in DOMAIN extract_rent_changes(c1, i1) : IsChange(extract_rent_changes(c1, i1)[k])

(* Reports on the same entries write and cost the same.                    *)
LEMMA ReportsCost ==
    ASSUME NEW q, SoonEnough(q), NEW sn, SnapOK(sn), NEW keys, keys \subseteq Keys, NEW ro, NEW back,
           back = Back(keys, sn, q), \A k \in back : ~ro[k], NEW map, \A k \in keys : LiveAt(k, map[k], q),
           NEW supplied, \A k \in keys : supplied[k] = Seen(k, sn, q),
           NEW arch, \A k \in keys : arch[k] \in BOOLEAN /\ (arch[k] <=> k \in back),
           NEW c1, DOMAIN c1 = keys, \A k \in keys : c1[k] = RecordedReport(k, map[k], ro[k], arch[k], sn, q),
           NEW c2, DOMAIN c2 = keys, \A k \in keys : c2[k] = EnforcedReport(k, map[k], ro[k], arch[k], supplied, q)
    PROVE  SameCost(c1, sn, c2, supplied, keys)
<1>1. \A k \in keys : ~Classic(k) => SameRent(RentChange(k, c1[k], sn), RentChange(k, c2[k], supplied))
  <2> SUFFICES ASSUME NEW k \in keys, ~Classic(k)
               PROVE  SameRent(RentChange(k, c1[k], sn), RentChange(k, c2[k], supplied))
    OBVIOUS
  <2>1. sn[k] = None \/ sn[k] \in Entries
    BY DEF SnapOK
  <2>2. k \in Keys /\ LiveAt(k, map[k], q) /\ supplied[k] = Seen(k, sn, q) /\ arch[k] \in BOOLEAN
    OBVIOUS
  <2>3. (arch[k] <=> Late(k, sn[k], q) /\ Durability[k] = "Persistent") /\ (arch[k] => ~ro[k])
    BY DEF Back
  <2>4. SameRent(RentChange(k, RecordedReport(k, map[k], ro[k], arch[k], sn, q), sn),
                 RentChange(k, EnforcedReport(k, map[k], ro[k], arch[k], supplied, q), supplied))
    BY <2>1, <2>2, <2>3, KeyRent
  <2> QED BY <2>4
<1>2. /\ extract_rent_changes(c1, sn) = extract_rent_changes(c2, supplied)
      /\ DOMAIN extract_rent_changes(c1, sn) \subseteq keys
      /\ \A k \in DOMAIN extract_rent_changes(c1, sn) : IsChange(extract_rent_changes(c1, sn)[k])
  BY <1>1, SameExtract
<1>3. \A k \in keys : /\ c1[k].read_only = ro[k] /\ c2[k].read_only = ro[k]
                      /\ c1[k].new_value = (IF ro[k] \/ ~Is(map[k]) THEN None ELSE map[k].val)
                      /\ c2[k].new_value = (IF ro[k] \/ ~Is(map[k]) THEN None ELSE map[k].val)
  <2>1. \A k, c, r, old, b : Writes(Reported(k, c, r, old, b, q), r, c)
    BY DEF Reported, Writes
  <2> SUFFICES ASSUME NEW k \in keys
               PROVE  /\ c1[k].read_only = ro[k] /\ c2[k].read_only = ro[k]
                      /\ c1[k].new_value = (IF ro[k] \/ ~Is(map[k]) THEN None ELSE map[k].val)
                      /\ c2[k].new_value = (IF ro[k] \/ ~Is(map[k]) THEN None ELSE map[k].val)
    OBVIOUS
  <2>2. c1[k] = RecordedReport(k, map[k], ro[k], arch[k], sn, q)
    OBVIOUS
  <2>3. c2[k] = EnforcedReport(k, map[k], ro[k], arch[k], supplied, q)
    OBVIOUS
  <2> DEFINE o1 == Host(q, TRUE)!old_live_until(k, sn[k])
             o2 == Host(q, FALSE)!old_live_until(k, supplied[k])
             b == arch[k] /\ ~ro[k] /\ Is(map[k])
  <2>4. c1[k] = Reported(k, map[k], ro[k], o1, b, q) /\ c2[k] = Reported(k, map[k], ro[k], o2, b, q)
    BY <2>2, <2>3, Zenon DEF RecordedReport, EnforcedReport
  <2> HIDE DEF o1, o2, b
  <2>5. Writes(c1[k], ro[k], map[k]) /\ Writes(c2[k], ro[k], map[k])
    BY <2>1, <2>4
  <2> QED BY <2>5, Zenon DEF Writes
<1>4. \A k \in keys : c1[k].new_value = None \/ c1[k].new_value \in Contents
  <2>1. \A k \in keys : map[k] # None => map[k].val \in Contents
    BY DEF LiveAt, Entries
  <2> QED BY <1>3, <2>1 DEF Is
<1>5. \A k \in keys : (c1[k].read_only <=> c2[k].read_only) /\ c1[k].new_value = c2[k].new_value
  BY <1>3, Zenon
<1>6. WriteBytes(c1) = WriteBytes(c2) /\ WriteBytes(c1) \in 0..U32Max
  BY <1>4, <1>5, SameWrites
<1> QED BY <1>2, <1>6 DEF SameCost

(* A key that a run left as it was: it is not written, or it is not there. *)
Idle(k, c, ro, sn, q) == c = Seen(k, sn, q) /\ (ro \/ c = None)

(* Its report, or one without its contents, is charged nothing.            *)
LEMMA IdleIsFree ==
    ASSUME NEW q, SoonEnough(q), NEW k \in Keys, NEW sn, sn[k] = None \/ sn[k] \in Entries,
           NEW c, LiveAt(k, c, q), NEW ro, NEW arch \in BOOLEAN,
           arch <=> Late(k, sn[k], q) /\ Durability[k] = "Persistent", arch => ~ro
    PROVE  LET ch == RecordedReport(k, c, ro, arch, sn, q)
               l == ListedReport(k, ro, q)
           IN  /\ ~Classic(k) => IsChange(RentChange(k, ch, sn))
               /\ ~Classic(k) /\ Idle(k, c, ro, sn, q) => SameRent(RentChange(k, l, sn), RentChange(k, ch, sn))
               /\ l.read_only = ro /\ l.new_value = None /\ ch.read_only = ro
               /\ Idle(k, c, ro, sn, q) => ch.new_value = None
               /\ ch.new_value = None \/ ch.new_value \in Contents
<1> DEFINE o == Host(q, TRUE)!old_live_until(k, sn[k])
           back == arch /\ ~ro /\ Is(c)
           ch == Reported(k, c, ro, o, back, q)
           l == Reported(k, None, ro, 0, FALSE, q)
           new == IF ~Classic(k) /\ Is(c) THEN IF c.live >= o THEN c.live ELSE o ELSE 0
           min == Host(q, FALSE)!min_live_until_ledger("Persistent")
<1>1. o = IF ~Classic(k) /\ Is(sn[k]) /\ ~(sn[k].live < q) THEN sn[k].live ELSE 0
  BY OldLives
<1>2. q \in Nat
  BY DEF SoonEnough
<1>3. o \in Nat
  <2>1. Is(sn[k]) => sn[k].live \in Int
    BY DEF Is, Entries
  <2> HIDE DEF o
  <2> QED BY <1>1, <1>2, <2>1
<1>4. /\ ch.read_only = ro /\ ch.new_value = (IF ro \/ ~Is(c) THEN None ELSE c.val)
      /\ ch.old_live = (IF back THEN 0 ELSE o)
      /\ ch.new_live = (IF back THEN IF new >= min THEN new ELSE min ELSE new)
  BY DEF Reported
<1>5. ~Is(None)
  BY DEF Is
<1>6. l.read_only = ro /\ l.new_value = None /\ l.old_live = 0 /\ l.new_live = 0
  BY <1>5 DEF Reported
<1>7. RecordedReport(k, c, ro, arch, sn, q) = ch /\ ListedReport(k, ro, q) = l
  BY Zenon DEF RecordedReport, ListedReport
<1> HIDE DEF o
<1>8. ~Classic(k) => IsChange(RentChange(k, ch, sn)) /\ IsChange(RentChange(k, l, sn))
  <2> SUFFICES ASSUME ~Classic(k) PROVE IsChange(RentChange(k, ch, sn)) /\ IsChange(RentChange(k, l, sn))
    OBVIOUS
  <2> HIDE DEF back
  <2>1. \A x : x = ch => IsChange(RentChange(k, x, sn))
    BY <1>3, ReportIsChange
  <2>2. LiveAt(k, None, q)
    BY DEF LiveAt
  <2>3. \A x : x = l => IsChange(RentChange(k, x, sn))
    BY <2>2, ReportIsChange
  <2> QED BY <2>1, <2>3
<1> HIDE DEF ch, l, back, new, min
<1>9. ASSUME Idle(k, c, ro, sn, q), ~Classic(k)
      PROVE  ~Chargeable(RentChange(k, ch, sn)) /\ ~Chargeable(RentChange(k, l, sn))
  <2>1. ~(l.old_live < l.new_live)
    BY <1>6
  <2>2. ch.new_value = None
    BY <1>4, <1>5, <1>9 DEF Idle
  <2>3. back = FALSE
    BY <1>5, <1>9 DEF back, Idle
  <2>4. ch.old_live = o /\ ch.new_live = new
    BY <1>4, <2>3
  <2>5. CASE c = None
    <3>1. new = 0
      BY <1>5, <2>5 DEF new
    <3>2. ~(ch.old_live < ch.new_live)
      BY <1>3, <2>4, <3>1
    <3> QED BY <1>6, <1>8, <1>9, <2>1, <2>2, <3>2, KeptIsFree
  <2>6. CASE c # None
    <3>1. ro /\ ~arch /\ c = Seen(k, sn, q)
      BY <1>9, <2>6 DEF Idle
    <3>2. c = sn[k] /\ ~Late(k, sn[k], q)
      <4>1. Durability[k] \in {"Temporary", "Persistent"}
        BY <1>9, RentAssumption DEF Classic
      <4> QED BY <2>6, <3>1, <4>1 DEF Seen
    <3>3. Is(c) /\ ~(c.live < q) /\ c.live \in Int
      BY <1>9, <2>6, <3>2, EntriesExist DEF Late, Is, Entries
    <3>4. o = c.live
      BY <1>1, <1>9, <3>2, <3>3
    <3>5. new = c.live
      BY <1>9, <3>3, <3>4 DEF new
    <3>6. ~(ch.old_live < ch.new_live)
      BY <2>4, <3>3, <3>4, <3>5
    <3> QED BY <1>6, <1>8, <1>9, <2>1, <2>2, <3>6, KeptIsFree
  <2> QED BY <2>5, <2>6
<1>10. ~Classic(k) /\ Idle(k, c, ro, sn, q) => SameRent(RentChange(k, l, sn), RentChange(k, ch, sn))
  BY <1>8, <1>9 DEF SameRent
<1>11. Idle(k, c, ro, sn, q) => ch.new_value = None
  BY <1>4, <1>5 DEF Idle
<1>12. ch.new_value = None \/ ch.new_value \in Contents
  BY <1>4 DEF Is, LiveAt, Entries
<1> QED BY <1>4, <1>6, <1>7, <1>8, <1>10, <1>11, <1>12

(* Reports c1 that leave out only what was left as it was cost as much as  *)
(* the full ones.                                                          *)
LEMMA ListedCost ==
    ASSUME NEW q, SoonEnough(q), NEW sn, SnapOK(sn), NEW keys, keys \subseteq Keys, NEW ro, NEW back,
           back = Back(keys, sn, q), \A k \in back : ~ro[k], NEW map, \A k \in keys : LiveAt(k, map[k], q),
           NEW arch, \A k \in keys : arch[k] \in BOOLEAN /\ (arch[k] <=> k \in back),
           NEW c0, DOMAIN c0 = keys, \A k \in keys : c0[k] = RecordedReport(k, map[k], ro[k], arch[k], sn, q),
           NEW c1, DOMAIN c1 = keys,
           \A k \in keys : c1[k] = c0[k] \/ (c1[k] = ListedReport(k, ro[k], q) /\ Idle(k, map[k], ro[k], sn, q))
    PROVE  WriteBytes(c1) = WriteBytes(c0) /\ extract_rent_changes(c1, sn) = extract_rent_changes(c0, sn)
<1>1. ASSUME NEW k \in keys
      PROVE  /\ ~Classic(k) => SameRent(RentChange(k, c1[k], sn), RentChange(k, c0[k], sn))
             /\ c1[k].read_only = c0[k].read_only /\ c1[k].new_value = c0[k].new_value
             /\ c1[k].new_value = None \/ c1[k].new_value \in Contents
  <2> DEFINE ch == RecordedReport(k, map[k], ro[k], arch[k], sn, q)
             l == ListedReport(k, ro[k], q)
  <2>1. sn[k] = None \/ sn[k] \in Entries
    BY DEF SnapOK
  <2>2. k \in Keys /\ LiveAt(k, map[k], q) /\ arch[k] \in BOOLEAN
    OBVIOUS
  <2>3. (arch[k] <=> Late(k, sn[k], q) /\ Durability[k] = "Persistent") /\ (arch[k] => ~ro[k])
    BY DEF Back
  <2>4. /\ ~Classic(k) => IsChange(RentChange(k, ch, sn))
        /\ ~Classic(k) /\ Idle(k, map[k], ro[k], sn, q) => SameRent(RentChange(k, l, sn), RentChange(k, ch, sn))
        /\ l.read_only = ro[k] /\ l.new_value = None /\ ch.read_only = ro[k]
        /\ Idle(k, map[k], ro[k], sn, q) => ch.new_value = None
        /\ ch.new_value = None \/ ch.new_value \in Contents
    BY <2>1, <2>2, <2>3, IdleIsFree
  <2>5. c0[k] = ch /\ (c1[k] = ch \/ (c1[k] = l /\ Idle(k, map[k], ro[k], sn, q)))
    OBVIOUS
  <2> HIDE DEF ch, l
  <2>6. CASE c1[k] = ch
    BY <2>4, <2>5, <2>6, Zenon DEF SameRent
  <2>7. CASE c1[k] = l /\ Idle(k, map[k], ro[k], sn, q)
    BY <2>4, <2>5, <2>7, Zenon
  <2> QED BY <2>5, <2>6, <2>7
<1>2. extract_rent_changes(c1, sn) = extract_rent_changes(c0, sn)
  BY <1>1, SameExtract
<1>3. WriteBytes(c1) = WriteBytes(c0)
  BY <1>1, SameWrites
<1> QED BY <1>2, <1>3

(* A recorded run that succeeds.                                           *)
LEMMA RecEnds ==
    ASSUME NEW q, SoonEnough(q), NEW sn, SnapOK(sn), NEW prog, Program(prog), NEW rec, RecOK(rec, q),
           NEW r, r = Exec(rec, prog, sn, q, TRUE), r.err = "Ok"
    PROVE  RecOK(r.s, q)
<1>1. RunsTo(rec, prog, sn, q, TRUE, r)
  BY ExecIs, Zenon
<1>2. PICK f : IsRun(f, rec, prog, sn, q, TRUE) /\ r = f[Len(prog)]
  BY <1>1, Zenon DEF RunsTo
<1>3. f[Len(prog)].err = "Ok"
  BY <1>2
<1>4. \A i \in 0..Len(prog) : RecOK(f[i].s, q)
  BY <1>2, <1>3, RecGrows
<1>5. Len(prog) \in 0..Len(prog)
  BY DEF Program
<1>6. RecOK(f[Len(prog)].s, q)
  BY <1>4, <1>5
<1> QED BY <1>2, <1>6

(* An execution that goes through and costs what was declared.             *)
Goes(tx, q, cfg, keys, archived, cl, e, changes, rent) ==
    /\ archived \subseteq tx.restored /\ e.err = "Ok"
    /\ DiskReadBytes(keys, archived, cl) <= tx.resources.disk_read_bytes
    /\ WriteBytes(changes) <= tx.resources.write_bytes
    /\ IsResources(tx.resources)
    /\ DOMAIN rent \subseteq Keys /\ \A k \in DOMAIN rent : IsChange(rent[k])
    /\ tx.fee = compute_resource_fee(cfg, q, tx.resources, rent)

(* The bytes that were declared.                                           *)
LEMMA DeclaredBytes ==
    ASSUME NEW tx, NEW fp, tx.footprint = fp, DeclaredKeys(fp) \subseteq Keys,
           NEW restored, restored \subseteq Keys, NEW n \in Nat,
           NEW read \in 0..U32Max, NEW write \in 0..U32Max,
           tx.resources = compute_adjusted_transaction_resources(tx.footprint, restored, n, read, write, ReturnSize)
    PROVE  IsResources(tx.resources) /\ read <= tx.resources.disk_read_bytes /\ write <= tx.resources.write_bytes
<1>1. ReturnSize \in Nat
  BY RentAssumption
<1> QED BY <1>1, ResourcesAre

(* The keys of a recorded run.                                             *)
KeysOf(s, f, q) ==
    /\ build_storage_footprint_from_xdr(f) = s.footprint
    /\ DeclaredKeys(f) = {k \in Keys : s.footprint[k] # "NotListed"}
    /\ Host(q, TRUE)!Listed(s.footprint) = DeclaredKeys(f)

(* They are the ones it declares.                                          *)
LEMMA RecordedKeys ==
    ASSUME NEW q, NEW s, RecOK(s, q), NEW f, f = storage_footprint_to_ledger_footprint(s.footprint)
    PROVE  KeysOf(s, f, q)
<1>1. s.footprint \in [Keys -> {"NotListed", "ReadOnly", "ReadWrite"}]
  BY DEF RecOK
<1> DEFINE fp == s.footprint
<1>2. fp \in [Keys -> {"NotListed", "ReadOnly", "ReadWrite"}] /\ f = storage_footprint_to_ledger_footprint(fp)
  BY <1>1
<1> HIDE DEF fp
<1>3. build_storage_footprint_from_xdr(f) = fp /\ DeclaredKeys(f) = {k \in Keys : fp[k] # "NotListed"}
  BY <1>2, FootprintBack
<1>4. Host(q, TRUE)!Listed(fp) = {k \in Keys : fp[k] # "NotListed"}
  BY DEF Host!Listed
<1> QED BY <1>3, <1>4 DEF fp, KeysOf

(* What was recorded, and what is executed.                                *)
RecordedAs(r, restored, c1, rec, prog, sn, q) ==
    /\ r = Exec(rec, prog, sn, q, TRUE)
    /\ restored = Host(q, TRUE)!RestoredKeys(r.s.footprint, sn)
    /\ c1 = Host(q, TRUE)!get_ledger_changes(r.s, sn, restored)

ExecutedAs(tx, keys, archived, fp, supplied, start, e, c2, prog, cl, q) ==
    /\ keys = DeclaredKeys(tx.footprint)
    /\ archived = {k \in keys : Host(q, FALSE)!IsArchived(k, cl[k])}
    /\ fp = build_storage_footprint_from_xdr(tx.footprint)
    /\ supplied = Host(q, FALSE)!Supplied(fp, cl, TRUE)
    /\ start = Host(q, FALSE)!with_enforcing_footprint_and_map(fp, supplied)
    /\ e = Exec(start, prog, cl, q, FALSE)
    /\ c2 = Host(q, FALSE)!get_ledger_changes(e.s, supplied, archived)

RestoreAlike(keys, sn, cl, q) ==
    /\ {k \in keys : Host(q, TRUE)!IsArchived(k, sn[k])} = Back(keys, sn, q)
    /\ {k \in keys : Host(q, FALSE)!IsArchived(k, cl[k])} = Back(keys, sn, q)
    /\ \A k \in keys : Classic(k) \/ k \in Back(keys, sn, q) => sn[k] = cl[k]

(* Both restore the same entries, which both see alike.                    *)
LEMMA BothRestore ==
    ASSUME NEW q, NEW sn, SnapOK(sn), NEW cl, SnapOK(cl), NEW keys, keys \subseteq Keys,
           \A k \in keys : SameAt(k, sn, cl, q)
    PROVE  RestoreAlike(keys, sn, cl, q)
<1>1. \A k \in keys : /\ Host(q, TRUE)!IsArchived(k, sn[k]) <=> k \in Back(keys, sn, q)
                      /\ Host(q, FALSE)!IsArchived(k, cl[k]) <=> k \in Back(keys, sn, q)
                      /\ Classic(k) \/ k \in Back(keys, sn, q) => sn[k] = cl[k]
  <2> SUFFICES ASSUME NEW k \in keys
               PROVE  /\ Host(q, TRUE)!IsArchived(k, sn[k]) <=> k \in Back(keys, sn, q)
                      /\ Host(q, FALSE)!IsArchived(k, cl[k]) <=> k \in Back(keys, sn, q)
                      /\ Classic(k) \/ k \in Back(keys, sn, q) => sn[k] = cl[k]
    OBVIOUS
  <2>1. k \in Keys /\ SameAt(k, sn, cl, q)
    OBVIOUS
  <2>2. ArchivedAlike(k, sn, cl, q)
    BY <2>1, SameArchived, Zenon
  <2> QED BY <2>2, Zenon DEF Back, ArchivedAlike
<1>2. Back(keys, sn, q) \subseteq keys
  BY DEF Back
<1> QED BY <1>1, <1>2, Zenon DEF RestoreAlike

(* The recorded run left s: what only failed sub-calls wrote is not there. *)
CountedRun(s, sn, q) ==
    \A k \in Keys : s.footprint[k] = "ReadWrite" /\ s.map[k] = Unloaded => Seen(k, sn, q) = None

(* A program simulated over a snapshot that agrees with the entries the    *)
(* embedder loads goes through.                                            *)
LEMMA InvokeWorks ==
    ASSUME NEW q, SoonEnough(q), NEW sn, SnapOK(sn), NEW prog \in Programs, NEW cl, SnapOK(cl), NEW cfg, NEW tx,
           NEW rec, RecOK(rec, q), \A k \in Keys : rec.map[k] = Unloaded,
           NEW r, NEW restored, NEW c1, RecordedAs(r, restored, c1, rec, prog, sn, q),
           Declares(tx, prog, sn, q, cfg, r, restored, c1),
           NEW keys, NEW archived, NEW fp, NEW supplied, NEW start, NEW e, NEW c2,
           ExecutedAs(tx, keys, archived, fp, supplied, start, e, c2, prog, cl, q),
           \A k \in keys : SameAt(k, sn, cl, q), CountedRun(r.s, sn, q)
    PROVE  Goes(tx, q, cfg, keys, archived, cl, e, c2, extract_rent_changes(c2, supplied))
<1>1. Program(prog)
  BY RentAssumption
<1>2. /\ r.err = "Ok" /\ Host(q, TRUE)!RestoredAreReadWrite(r.s.footprint, sn)
      /\ tx.footprint = storage_footprint_to_ledger_footprint(r.s.footprint)
      /\ tx.restored = restored
      /\ tx.resources = compute_adjusted_transaction_resources(tx.footprint, restored, Len(prog),
                            DiskReadBytes(Host(q, TRUE)!Listed(r.s.footprint), restored, sn),
                            WriteBytes(c1), ReturnSize)
      /\ tx.fee = compute_resource_fee(cfg, q, tx.resources, extract_rent_changes(c1, sn))
  BY Zenon DEF Declares
<1>3. RecOK(r.s, q)
  <2>1. r = Exec(rec, prog, sn, q, TRUE)
    BY Zenon DEF RecordedAs
  <2> QED BY <1>1, <1>2, <2>1, RecEnds, Zenon
<1>4. /\ fp = r.s.footprint /\ keys = {k \in Keys : fp[k] # "NotListed"}
      /\ Host(q, TRUE)!Listed(r.s.footprint) = keys
  <2>1. KeysOf(r.s, tx.footprint, q)
    BY <1>2, <1>3, RecordedKeys, Zenon
  <2>2. keys = DeclaredKeys(tx.footprint) /\ fp = build_storage_footprint_from_xdr(tx.footprint)
    BY Zenon DEF ExecutedAs
  <2> QED BY <2>1, <2>2, Zenon DEF KeysOf
<1>5. \A k \in Keys : fp[k] # "NotListed" => SameAt(k, sn, cl, q)
  BY <1>4
<1>6. SameRun(r, e, fp, sn, q) /\ \A k \in Keys : fp[k] # "NotListed" => supplied[k] = Seen(k, sn, q)
  <2>1. r = Exec(rec, prog, sn, q, TRUE) /\ r.err = "Ok" /\ fp = r.s.footprint
    BY <1>2, <1>4, Zenon DEF RecordedAs
  <2>2. /\ supplied = Host(q, FALSE)!Supplied(fp, cl, TRUE)
        /\ start = Host(q, FALSE)!with_enforcing_footprint_and_map(fp, supplied)
        /\ e = Exec(start, prog, cl, q, FALSE)
    BY Zenon DEF ExecutedAs
  <2>3. RunAlike(r, e, fp, supplied, sn, q)
    BY <1>1, <1>5, <2>1, <2>2, SameEntries, Zenon
  <2> QED BY <2>3, Zenon DEF RunAlike
<1>7. /\ e.err = "Ok" /\ IsStore(e.s, fp)
      /\ \A k \in Keys : e.s.map[k] = IF fp[k] = "NotListed" THEN Unloaded ELSE View(r.s, k, sn, q)
  BY <1>6, Zenon DEF SameRun
<1>8. keys \subseteq Keys
  BY <1>4
<1> DEFINE back == Back(keys, sn, q)
<1>9. /\ {k \in keys : Host(q, TRUE)!IsArchived(k, sn[k])} = back
      /\ {k \in keys : Host(q, FALSE)!IsArchived(k, cl[k])} = back
      /\ \A k \in keys : Classic(k) \/ k \in back => sn[k] = cl[k]
  <2>1. RestoreAlike(keys, sn, cl, q)
    BY <1>8, BothRestore, Zenon
  <2> QED BY <2>1, Zenon DEF RestoreAlike
<1>10. restored = back /\ archived = back /\ back \subseteq keys
  <2>1. restored = {k \in keys : Host(q, TRUE)!IsArchived(k, sn[k])}
    BY <1>4, Zenon DEF Host!RestoredKeys, RecordedAs
  <2>2. archived = {k \in keys : Host(q, FALSE)!IsArchived(k, cl[k])}
    BY Zenon DEF ExecutedAs
  <2>3. back \subseteq keys
    BY DEF Back
  <2> QED BY <1>9, <2>1, <2>2, <2>3, Zenon
<1> HIDE DEF back
<1>11. \A k \in back : fp[k] = "ReadWrite"
  <2>1. restored = Host(q, TRUE)!RestoredKeys(r.s.footprint, sn)
    BY Zenon DEF RecordedAs
  <2>2. \A k \in Host(q, TRUE)!RestoredKeys(r.s.footprint, sn) : r.s.footprint[k] = "ReadWrite"
    BY <1>2, Zenon DEF Host!RestoredAreReadWrite
  <2> QED BY <1>4, <1>10, <2>1, <2>2, Zenon
<1> DEFINE ro == [k \in keys |-> fp[k] = "ReadOnly"]
           arch == [k \in keys |-> k \in back]
           map == [k \in keys |-> View(r.s, k, sn, q)]
           c0 == [k \in keys |-> RecordedReport(k, map[k], ro[k], arch[k], sn, q)]
<1>12. /\ \A k \in keys : ro[k] = (fp[k] = "ReadOnly") /\ arch[k] = (k \in back)
       /\ \A k \in keys : arch[k] \in BOOLEAN /\ (arch[k] <=> k \in back)
  <2>1. \A k \in keys : ro[k] = (fp[k] = "ReadOnly") /\ arch[k] = (k \in back)
    BY Zenon
  <2>2. \A k : (k \in back) \in BOOLEAN
    OBVIOUS
  <2> QED BY <2>1, <2>2, Zenon
<1>13. \A k \in back : ~ro[k]
  <2>1. \A k \in back : k \in keys /\ ~(fp[k] = "ReadOnly")
    BY <1>10, <1>11
  <2> QED BY <1>12, <2>1
<1>15. \A k \in keys : map[k] = View(r.s, k, sn, q) /\ LiveAt(k, map[k], q) /\ map[k] # Unloaded
  <2>1. \A k \in keys : LiveAt(k, View(r.s, k, sn, q), q) /\ View(r.s, k, sn, q) # Unloaded
    BY <1>3, <1>8, ViewLives
  <2> QED BY <2>1
<1>26. DOMAIN c0 = keys /\ \A k \in keys : c0[k] = RecordedReport(k, map[k], ro[k], arch[k], sn, q)
  <2> HIDE DEF map, ro, arch
  <2> QED OBVIOUS
<1>14. /\ DOMAIN c1 = keys
       /\ \A k \in keys : c1[k] = c0[k] \/ (c1[k] = ListedReport(k, ro[k], q) /\ Idle(k, map[k], ro[k], sn, q))
  <2> HIDE DEF map, ro, arch, c0
  <2> DEFINE P(k) == RecordedReport(k, r.s.map[k], r.s.footprint[k] = "ReadOnly", k \in restored, sn, q)
             L(k) == ListedReport(k, r.s.footprint[k] = "ReadOnly", q)
  <2>1. RecordedReports(c1, r.s, sn, restored, q)
    <3>1. c1 = Host(q, TRUE)!get_ledger_changes(r.s, sn, restored)
      BY Zenon DEF RecordedAs
    <3> QED BY <1>3, <3>1, RecordedChangesAre, Zenon
  <2>2. /\ DOMAIN c1 = {k \in Keys : r.s.footprint[k] # "NotListed"}
        /\ \A k \in DOMAIN c1 : c1[k] = IF r.s.map[k] = Unloaded THEN L(k) ELSE P(k)
    BY <2>1, Zenon DEF RecordedReports
  <2>3. DOMAIN c1 = keys
    BY <1>4, <2>2, Zenon
  <2>4. ASSUME NEW k \in keys, r.s.map[k] # Unloaded PROVE c1[k] = c0[k]
    <3>1. map[k] = r.s.map[k]
      BY <1>15, <2>4, Zenon DEF View
    <3>2. P(k) = RecordedReport(k, map[k], ro[k], arch[k], sn, q)
      BY <1>4, <1>10, <1>12, <3>1, Zenon
    <3> QED BY <1>26, <2>2, <2>3, <2>4, <3>2, Zenon
  <2>5. ASSUME NEW k \in keys, r.s.map[k] = Unloaded
        PROVE  c1[k] = ListedReport(k, ro[k], q) /\ Idle(k, map[k], ro[k], sn, q)
    <3>1. map[k] = Seen(k, sn, q)
      BY <1>15, <2>5, Zenon DEF View
    <3>2. c1[k] = L(k)
      BY <2>2, <2>3, <2>5, Zenon
    <3>3. L(k) = ListedReport(k, ro[k], q)
      BY <1>4, <1>12, Zenon
    <3>4. fp[k] = "ReadOnly" \/ fp[k] = "ReadWrite"
      BY <1>3, <1>4 DEF RecOK
    <3>5. fp[k] = "ReadWrite" => Seen(k, sn, q) = None
      BY <1>4, <1>8, <2>5 DEF CountedRun
    <3>6. ro[k] \/ map[k] = None
      BY <1>12, <3>1, <3>4, <3>5
    <3> QED BY <3>1, <3>2, <3>3, <3>6, Zenon DEF Idle
  <2> QED BY <2>3, <2>4, <2>5, Zenon
<1>16. DOMAIN c2 = keys /\ \A k \in keys : c2[k] = EnforcedReport(k, map[k], ro[k], arch[k], supplied, q)
  <2> DEFINE P(k) == EnforcedReport(k, e.s.map[k], e.s.footprint[k] = "ReadOnly", k \in archived, supplied, q)
  <2>1. \A k \in Keys : e.s.map[k] # Unloaded <=> fp[k] # "NotListed"
    <3>1. \A k \in keys : View(r.s, k, sn, q) # Unloaded
      BY <1>15, Zenon
    <3> QED BY <1>4, <1>7, <3>1, Zenon
  <2>2. EnforcedReports(c2, e.s, supplied, archived, q)
    <3>1. c2 = Host(q, FALSE)!get_ledger_changes(e.s, supplied, archived)
      BY Zenon DEF ExecutedAs
    <3> QED BY <1>7, <2>1, <3>1, EnforcedChangesAre, Zenon
  <2>3. e.s.footprint = fp
    BY <1>7 DEF IsStore
  <2>4. DOMAIN c2 = {k \in Keys : e.s.footprint[k] # "NotListed"} /\ \A k \in DOMAIN c2 : c2[k] = P(k)
    BY <2>2, Zenon DEF EnforcedReports
  <2>5. DOMAIN c2 = keys
    BY <1>4, <2>3, <2>4, Zenon
  <2>6. \A k \in keys : P(k) = EnforcedReport(k, map[k], ro[k], arch[k], supplied, q)
    <3> HIDE DEF ro, arch, map
    <3>1. \A k \in keys : e.s.map[k] = map[k]
      BY <1>4, <1>7, <1>15, Zenon
    <3> QED BY <1>10, <1>12, <2>3, <3>1, Zenon
  <2> QED BY <2>4, <2>5, <2>6, Zenon
<1>17. \A k \in keys : supplied[k] = Seen(k, sn, q)
  BY <1>4, <1>6, Zenon
<1> HIDE DEF ro, arch, map, c0
<1>27. back = Back(keys, sn, q) /\ \A k \in keys : LiveAt(k, map[k], q)
  BY <1>15, Zenon DEF back
<1>18. SameCost(c0, sn, c2, supplied, keys)
  BY <1>8, <1>12, <1>13, <1>16, <1>17, <1>26, <1>27, ReportsCost
<1>28. WriteBytes(c1) = WriteBytes(c0) /\ extract_rent_changes(c1, sn) = extract_rent_changes(c0, sn)
  BY <1>8, <1>12, <1>13, <1>14, <1>26, <1>27, ListedCost
<1>19. DiskReadBytes(keys, back, sn) = DiskReadBytes(keys, back, cl) /\ DiskReadBytes(keys, back, sn) \in 0..U32Max
  BY <1>8, <1>9, SameReads
<1>20. /\ WriteBytes(c1) = WriteBytes(c2) /\ WriteBytes(c1) \in 0..U32Max
       /\ extract_rent_changes(c1, sn) = extract_rent_changes(c2, supplied)
       /\ DOMAIN extract_rent_changes(c1, sn) \subseteq keys
       /\ \A k \in DOMAIN extract_rent_changes(c1, sn) : IsChange(extract_rent_changes(c1, sn)[k])
  BY <1>18, <1>28, Zenon DEF SameCost
<1>21. /\ IsResources(tx.resources) /\ DiskReadBytes(keys, back, sn) <= tx.resources.disk_read_bytes
       /\ WriteBytes(c1) <= tx.resources.write_bytes
  <2>1. DeclaredKeys(tx.footprint) \subseteq Keys /\ restored \subseteq Keys
    <3>1. DeclaredKeys(tx.footprint) = keys
      BY Zenon DEF ExecutedAs
    <3> QED BY <1>8, <1>10, <3>1
  <2>2. tx.resources = compute_adjusted_transaction_resources(tx.footprint, restored, Len(prog),
                           DiskReadBytes(keys, back, sn), WriteBytes(c1), ReturnSize)
    BY <1>2, <1>4, <1>10, Zenon
  <2>3. Len(prog) \in Nat
    BY <1>1 DEF Program
  <2> QED BY <1>19, <1>20, <2>1, <2>2, <2>3, DeclaredBytes
<1> DEFINE rent == extract_rent_changes(c2, supplied)
<1>22. /\ DOMAIN rent \subseteq Keys /\ \A k \in DOMAIN rent : IsChange(rent[k])
       /\ tx.fee = compute_resource_fee(cfg, q, tx.resources, rent)
  <2>1. DOMAIN rent \subseteq keys
    BY <1>20, Zenon
  <2>2. DOMAIN rent \subseteq Keys
    BY <1>8, <2>1, Zenon
  <2> QED BY <1>2, <1>20, <2>2, Zenon
<1>23. archived \subseteq tx.restored
  BY <1>2, <1>10
<1>24. /\ DiskReadBytes(keys, archived, cl) <= tx.resources.disk_read_bytes
       /\ WriteBytes(c2) <= tx.resources.write_bytes
  BY <1>10, <1>19, <1>20, <1>21, Zenon
<1> HIDE DEF rent
<1>25. Goes(tx, q, cfg, keys, archived, cl, e, c2, rent)
  BY <1>7, <1>21, <1>22, <1>23, <1>24, Zenon DEF Goes
<1> QED BY <1>25, Zenon DEF rent

-----------------------------------------------------------------------------
(* The entries an execution loads are those a simulation of it sees.       *)

CellTyped(k, c) ==
    c = None \/ (c \in Entries /\ (Classic(k) => c.live = -1) /\ (~Classic(k) => c.live \in Nat))

Typed(l) == \A k \in Keys : CellTyped(k, l[k])

(* An account entry with the extensions of an updated one.                 *)
LEMMA UpdatedEntry ==
    ASSUME NEW c \in Entries
    PROVE  /\ [c EXCEPT !.val = update_account_entry(@)] \in Entries
           /\ [c EXCEPT !.val.ext = AccountExtensions] = [c EXCEPT !.val = update_account_entry(@)]
<1>1. AccountExtensions \in Nat
  BY DEF AccountExtensions
<1> QED BY <1>1 DEF Entries, Contents, update_account_entry

(* The snapshot of a simulation.                                           *)
LEMMA SnapshotIs ==
    ASSUME NEW l, Typed(l)
    PROVE  /\ SnapOK(SimulationSnapshot(l))
           /\ \A k \in Keys : ~Classic(k) => SimulationSnapshot(l)[k] = l[k]
           /\ \A k \in Keys : l[k] = None => SimulationSnapshot(l)[k] = None
           /\ \A k \in Keys : SimulationSnapshot(l)[k] = maybe_update_entry(k, l[k])
<1>1. \A k \in Keys : SimulationSnapshot(l)[k] = maybe_update_entry(k, l[k])
  BY DEF SimulationSnapshot
<1>2. \A k \in Keys : ~Classic(k) => maybe_update_entry(k, l[k]) = l[k]
  BY DEF maybe_update_entry
<1>3. \A k \in Keys : l[k] = None => maybe_update_entry(k, l[k]) = None
  BY DEF maybe_update_entry, Present
<1>4. ASSUME NEW k \in Keys PROVE maybe_update_entry(k, l[k]) = None \/ maybe_update_entry(k, l[k]) \in Entries
  <2>1. l[k] = None \/ l[k] \in Entries
    BY DEF Typed, CellTyped
  <2>2. CASE Classic(k) /\ l[k] # None
    <3>1. maybe_update_entry(k, l[k]) = [l[k] EXCEPT !.val = update_account_entry(@)]
      BY <2>2, Zenon DEF maybe_update_entry, Present
    <3>2. [l[k] EXCEPT !.val = update_account_entry(@)] \in Entries
      BY <2>1, <2>2, UpdatedEntry
    <3> QED BY <3>1, <3>2
  <2> QED BY <1>2, <1>3, <2>1, <2>2
<1> QED BY <1>1, <1>2, <1>3, <1>4 DEF SnapOK

(* What Core loads.                                                        *)
LEMMA CoreIs ==
    ASSUME Typed(ledger)
    PROVE  \A k \in Keys : CoreLoads[k] = SimulationSnapshot(ledger)[k]
<1> SUFFICES ASSUME NEW k \in Keys PROVE CoreLoads[k] = SimulationSnapshot(ledger)[k]
  OBVIOUS
<1>1. SimulationSnapshot(ledger)[k] = maybe_update_entry(k, ledger[k])
  BY SnapshotIs
<1>2. ledger[k] = None \/ ledger[k] \in Entries
  BY DEF Typed, CellTyped
<1>3. CASE Classic(k) /\ ledger[k] # None
  <2>1. CoreLoads[k] = [ledger[k] EXCEPT !.val.ext = AccountExtensions]
    BY <1>3, Zenon DEF CoreLoads, Present
  <2>2. maybe_update_entry(k, ledger[k]) = [ledger[k] EXCEPT !.val = update_account_entry(@)]
    BY <1>3, Zenon DEF maybe_update_entry, Present
  <2>3. ledger[k] \in Entries
    BY <1>2, <1>3
  <2> QED BY <1>1, <2>1, <2>2, <2>3, UpdatedEntry
<1>4. CASE ~(Classic(k) /\ ledger[k] # None)
  <2>1. CoreLoads[k] = ledger[k]
    BY <1>4, Zenon DEF CoreLoads, Present
  <2>2. maybe_update_entry(k, ledger[k]) = ledger[k]
    BY <1>4, Zenon DEF maybe_update_entry, Present
  <2> QED BY <1>1, <2>1, <2>2
<1> QED BY <1>3, <1>4

(* A cell that the simulation saw as the ledger now holds it, or a         *)
(* temporary entry that has expired, which it was not shown.               *)
SeenAs(k, L, l) == L[k] = l[k] \/ (Durability[k] = "Temporary" /\ Ended(l[k], seq) /\ L[k] = None)

(* Then the snapshot agrees with what Core loads.                          *)
LEMMA AgreesWithCore ==
    ASSUME Typed(ledger), NEW L, Typed(L), NEW k \in Keys, SeenAs(k, L, ledger)
    PROVE  SameAt(k, SimulationSnapshot(L), CoreLoads, seq)
<1>1. SimulationSnapshot(L)[k] = maybe_update_entry(k, L[k]) /\ (L[k] = None => SimulationSnapshot(L)[k] = None)
  BY SnapshotIs
<1>2. CoreLoads[k] = SimulationSnapshot(ledger)[k] /\ SimulationSnapshot(ledger)[k] = maybe_update_entry(k, ledger[k])
  BY CoreIs, SnapshotIs
<1>3. ~Classic(k) => CoreLoads[k] = ledger[k]
  BY <1>2 DEF maybe_update_entry
<1>4. CASE L[k] = ledger[k]
  BY <1>1, <1>2, <1>4 DEF SameAt
<1>5. CASE Durability[k] = "Temporary" /\ Ended(ledger[k], seq) /\ L[k] = None
  <2>1. ~Classic(k)
    BY <1>5 DEF Classic
  <2>2. Late(k, ledger[k], seq)
    BY <1>5, <2>1 DEF Ended, Present, Late
  <2> QED BY <1>1, <1>3, <1>5, <2>1, <2>2 DEF SameAt
<1> QED BY <1>4, <1>5 DEF SeenAs

RecordedFrom(tx, prog, sn, q, cfg, rec, r, restored, c1) ==
    /\ r = RecordingRun(prog, sn, q)
    /\ RecOK(rec, q) /\ \A k \in Keys : rec.map[k] = Unloaded
    /\ RecordedAs(r, restored, c1, rec, prog, sn, q)
    /\ Declares(tx, prog, sn, q, cfg, r, restored, c1)

(* A simulated invocation was recorded from an empty storage.              *)
LEMMA WasRecorded ==
    ASSUME NEW prog, NEW L, NEW q, NEW cfg, NEW tx, tx # None,
           tx = simulate_invoke_host_function_op(prog, L, q, cfg), NEW sn, sn = SimulationSnapshot(L)
    PROVE  \E rec, r, restored, c1 : RecordedFrom(tx, prog, sn, q, cfg, rec, r, restored, c1)
<1> DEFINE rec == Host(q, TRUE)!with_recording_footprint
           r == RecordingRun(prog, sn, q)
           restored == RecordedBack(prog, sn, q)
           c1 == RecordedChanges(prog, sn, q)
<1>1. Declares(tx, prog, sn, q, cfg, r, restored, c1)
  BY InvocationIs, Zenon
<1>2. RecordedAs(r, restored, c1, rec, prog, sn, q)
  BY Zenon DEF RecordedAs, RecordingRun, RecordedBack, RecordedChanges
<1>3. RecOK(rec, q)
  BY RecStart, Zenon
<1>4. \A k \in Keys : rec.map[k] = Unloaded
  BY DEF Host!with_recording_footprint
<1>5. RecordedFrom(tx, prog, sn, q, cfg, rec, r, restored, c1)
  BY <1>1, <1>2, <1>3, <1>4, Zenon DEF RecordedFrom
<1> QED BY <1>5, Zenon

(* The recording counted what it declared.                                 *)
CountedAll(prog, sn, q) == CountedRun(RecordingRun(prog, sn, q).s, sn, q)

(* An entry it did not count was not there for it.                         *)
LEMMA CountsAllIs ==
    ASSUME NEW L, Typed(L), NEW prog, CountsAll(prog, SimulationSnapshot(L))
    PROVE  CountedAll(prog, SimulationSnapshot(L), seq)
<1> DEFINE sn == SimulationSnapshot(L)
           s == RecordingRun(prog, sn, seq).s
<1>1. \A k \in Keys : s.footprint[k] = "ReadWrite" /\ s.map[k] = Unloaded =>
            \/ ~Present(sn[k])
            \/ Durability[k] = "Temporary" /\ Ended(sn[k], seq)
  BY Zenon DEF CountsAll
<1> HIDE DEF sn, s
<1>2. ASSUME NEW k \in Keys, s.footprint[k] = "ReadWrite" /\ s.map[k] = Unloaded
      PROVE  Seen(k, sn, seq) = None
  <2>1. CASE ~Present(sn[k])
    BY <2>1 DEF Seen, Late, Present
  <2>2. CASE Durability[k] = "Temporary" /\ Ended(sn[k], seq)
    BY <2>2 DEF Seen, Late, Ended, Present, Classic
  <2> QED BY <1>1, <1>2, <2>1, <2>2
<1>3. CountedRun(s, sn, seq)
  BY <1>2 DEF CountedRun
<1> QED BY <1>3, Zenon DEF CountedAll, s, sn

(* An invocation whose simulation saw the ledger l.                        *)
ReadyInvoke(tx, l) ==
    \E prog, L :
        /\ prog \in Programs /\ tx # None /\ tx = simulate_invoke_host_function_op(prog, L, seq, network)
        /\ Typed(L) /\ \A k \in DeclaredKeys(tx.footprint) : SeenAs(k, L, l)
        /\ CountedAll(prog, SimulationSnapshot(L), seq)

(* What the invariant gives an execution to start from.                    *)
CanExecute == RentInv /\ Typed(ledger) /\ seq <= LastLedger /\ network # None

(* There is room for the longest life below the last ledger number.        *)
LEMMA LedgerIsSoon ==
    ASSUME CanExecute
    PROVE  SoonEnough(seq)
<1>1. LongestLife \in Nat
  BY TtlBounds
<1>2. seq \in Nat /\ seq <= LastLedger
  BY DEF CanExecute, RentInv
<1>3. LastLedger \in Nat /\ LastLedger + LongestLife <= U32Max /\ U32Max \in Nat
  BY RentAssumption, FeesAssumption
<1> QED BY <1>1, <1>2, <1>3 DEF SoonEnough

(* Core finds the same entries archived in the ledger and in what it       *)
(* loads.                                                                  *)
LEMMA CoreArchived ==
    ASSUME Typed(ledger), NEW k \in Keys
    PROVE  Host(seq, FALSE)!IsArchived(k, ledger[k]) <=> Host(seq, FALSE)!IsArchived(k, CoreLoads[k])
<1>1. CASE Classic(k)
  BY <1>1 DEF Host!IsArchived, Host!IsExpired, Host!HasTtl, Classic
<1>2. CASE ~Classic(k)
  <2>1. CoreLoads[k] = ledger[k]
    BY <1>2, CoreIs, SnapshotIs
  <2> QED BY <2>1
<1> QED BY <1>1, <1>2

(* The keys of a simulated invocation.                                     *)
LEMMA InvocationKeys ==
    ASSUME NEW q, NEW tx, NEW prog, NEW sn, NEW cfg, NEW rec, NEW r, NEW restored, NEW c1,
           RecordedFrom(tx, prog, sn, q, cfg, rec, r, restored, c1)
    PROVE  DeclaredKeys(tx.footprint) \subseteq Keys
<1>1. tx.footprint = storage_footprint_to_ledger_footprint(r.s.footprint)
  BY Zenon DEF RecordedFrom, Declares
<1> QED BY <1>1 DEF DeclaredKeys, storage_footprint_to_ledger_footprint

(* What was simulated on the ledger as it is goes through.                 *)
LEMMA ReadyGoes ==
    ASSUME CanExecute, NEW tx, ReadyInvoke(tx, ledger),
           NEW keys, NEW archived, NEW fp, NEW supplied, NEW start, NEW e, NEW c2,
           ExecutedAs(tx, keys, archived, fp, supplied, start, e, c2, tx.prog, CoreLoads, seq)
    PROVE  Goes(tx, seq, network, keys, archived, CoreLoads, e, c2, extract_rent_changes(c2, supplied))
<1>1. PICK prog, L :
        /\ prog \in Programs /\ tx # None /\ tx = simulate_invoke_host_function_op(prog, L, seq, network)
        /\ Typed(L) /\ \A k \in DeclaredKeys(tx.footprint) : SeenAs(k, L, ledger)
        /\ CountedAll(prog, SimulationSnapshot(L), seq)
  BY DEF ReadyInvoke
<1> DEFINE sn == SimulationSnapshot(L)
<1>2. PICK rec, r, restored, c1 : RecordedFrom(tx, prog, sn, seq, network, rec, r, restored, c1)
  BY <1>1, WasRecorded, Zenon
<1>3. /\ RecOK(rec, seq) /\ \A k \in Keys : rec.map[k] = Unloaded
      /\ RecordedAs(r, restored, c1, rec, prog, sn, seq)
      /\ Declares(tx, prog, sn, seq, network, r, restored, c1)
  BY <1>2, Zenon DEF RecordedFrom
<1>4. tx.prog = prog
  BY <1>3, Zenon DEF Declares
<1>5. SnapOK(sn)
  BY <1>1, SnapshotIs
<1>6. Typed(ledger)
  BY DEF CanExecute
<1>7. SnapOK(CoreLoads)
  <2>1. SnapOK(SimulationSnapshot(ledger))
    BY <1>6, SnapshotIs
  <2> QED BY <1>6, <2>1, CoreIs DEF SnapOK
<1>8. keys = DeclaredKeys(tx.footprint)
  BY Zenon DEF ExecutedAs
<1>9. keys \subseteq Keys
  BY <1>2, <1>8, InvocationKeys
<1>10. \A k \in keys : SameAt(k, sn, CoreLoads, seq)
  BY <1>1, <1>6, <1>8, <1>9, AgreesWithCore
<1>11. SoonEnough(seq)
  BY LedgerIsSoon
<1>12. ExecutedAs(tx, keys, archived, fp, supplied, start, e, c2, prog, CoreLoads, seq)
  BY <1>4, Zenon
<1>13. prog \in Programs
  BY <1>1
<1>14. CountedRun(r.s, sn, seq)
  <2>1. r = RecordingRun(prog, sn, seq)
    BY <1>2, Zenon DEF RecordedFrom
  <2> QED BY <1>1, <2>1, Zenon DEF CountedAll
<1> HIDE DEF sn
<1> QED BY <1>3, <1>5, <1>7, <1>10, <1>11, <1>12, <1>13, <1>14, InvokeWorks, Zenon

(* An execution that goes through is applied.                              *)
LEMMA GoesThenApplied ==
    ASSUME CanExecute, NEW tx, NEW keys, NEW archived, NEW cl, NEW e, NEW c2, NEW rent,
           Goes(tx, seq, network, keys, archived, cl, e, c2, rent), NEW works, NEW written,
           Settle(tx, works, rent, written), works
    PROVE  result' = "applied"
<1>1. Charge(tx, rent) <= tx.fee
  <2>1. SettingsOK /\ network # None /\ seq \in Nat
    BY DEF CanExecute, RentInv
  <2>2. /\ IsResources(tx.resources)
        /\ DOMAIN rent \subseteq Keys /\ \A k \in DOMAIN rent : IsChange(rent[k])
        /\ tx.fee = compute_resource_fee(network, seq, tx.resources, rent)
    BY Zenon DEF Goes
  <2> QED BY <2>1, <2>2, FeeSuffices
<1> QED BY <1>1 DEF Settle

(* A simulated invocation is applied.                                      *)
LEMMA InvokeSucceeds ==
    ASSUME CanExecute, ExecuteInvoke, ReadyInvoke(Head(plan), ledger)
    PROVE  result' = "applied"
<1> DEFINE tx == Head(plan)
           keys == DeclaredKeys(tx.footprint)
           archived == {k \in keys : Host(seq, FALSE)!IsArchived(k, ledger[k])}
           fp == build_storage_footprint_from_xdr(tx.footprint)
           supplied == Host(seq, FALSE)!Supplied(fp, CoreLoads, TRUE)
           start == Host(seq, FALSE)!with_enforcing_footprint_and_map(fp, supplied)
           e == Exec(start, tx.prog, CoreLoads, seq, FALSE)
           c2 == Host(seq, FALSE)!get_ledger_changes(e.s, supplied, archived)
           rent == extract_rent_changes(c2, supplied)
           written == WrittenOf(c2)
           works == /\ archived \subseteq tx.restored
                    /\ e.err = "Ok"
                    /\ DiskReadBytes(keys, archived, CoreLoads) <= tx.resources.disk_read_bytes
                    /\ WriteBytes(c2) <= tx.resources.write_bytes
<1>1. Settle(tx, works, rent, written)
  BY Zenon DEF ExecuteInvoke, WrittenOf
<1>2. keys \subseteq Keys
  <2>1. PICK prog, L :
          /\ prog \in Programs /\ tx # None /\ tx = simulate_invoke_host_function_op(prog, L, seq, network)
    BY DEF ReadyInvoke
  <2>2. PICK rec, r, restored, c1 :
          RecordedFrom(tx, prog, SimulationSnapshot(L), seq, network, rec, r, restored, c1)
    BY <2>1, WasRecorded, Zenon
  <2> QED BY <2>2, InvocationKeys
<1>3. archived = {k \in keys : Host(seq, FALSE)!IsArchived(k, CoreLoads[k])}
  <2>1. Typed(ledger)
    BY DEF CanExecute
  <2>2. \A k \in keys : Host(seq, FALSE)!IsArchived(k, ledger[k]) <=> Host(seq, FALSE)!IsArchived(k, CoreLoads[k])
    <3> HIDE DEF keys
    <3> QED BY <1>2, <2>1, CoreArchived
  <2> HIDE DEF keys
  <2> QED BY <2>2, Zenon
<1>4. ExecutedAs(tx, keys, archived, fp, supplied, start, e, c2, tx.prog, CoreLoads, seq)
  BY <1>3, Zenon DEF ExecutedAs
<1>5. ReadyInvoke(tx, ledger)
  OBVIOUS
<1> HIDE DEF tx, keys, archived, fp, supplied, start, e, c2, written
<1>6. Goes(tx, seq, network, keys, archived, CoreLoads, e, c2, rent)
  BY <1>4, <1>5, ReadyGoes, Zenon
<1>7. works
  BY <1>6, Zenon DEF Goes
<1> HIDE DEF works, rent
<1> QED BY <1>1, <1>6, <1>7, GoesThenApplied, Zenon

-----------------------------------------------------------------------------
(* A simulated extension and a simulated restoration are applied.          *)

(* A fee that was computed for the rent of the execution is enough.        *)
LEMMA FeeThenApplied ==
    ASSUME CanExecute, NEW tx, IsResources(tx.resources), NEW rent,
           DOMAIN rent \subseteq Keys, \A k \in DOMAIN rent : IsChange(rent[k]),
           tx.fee = compute_resource_fee(network, seq, tx.resources, rent),
           NEW works, NEW written, Settle(tx, works, rent, written), works
    PROVE  result' = "applied"
<1>1. SettingsOK /\ network # None /\ seq \in Nat
  BY DEF CanExecute, RentInv
<1>2. Charge(tx, rent) <= tx.fee
  BY <1>1, FeeSuffices
<1> QED BY <1>2 DEF Settle

ExtendRent(ks, sn, new) ==
    [k \in ks |-> [persistent |-> Durability[k] = "Persistent", code |-> k \in CodeKeys,
                   old_size |-> entry_size_for_rent(k, sn[k].val), new_size |-> entry_size_for_rent(k, sn[k].val),
                   old_live |-> sn[k].live, new_live |-> new]]

Extended(ks, sn, new) == {k \in ks : Present(sn[k]) /\ sn[k].live < new}

ExtendDeclares(tx, ks, ext, sn, q, cfg, new) ==
    /\ tx.kind = "extend" /\ tx.extend_to = ext
    /\ DeclaredKeys(tx.footprint) = Extended(ks, sn, new)
    /\ tx.resources = compute_adjusted_transaction_resources(tx.footprint, {}, 0, 0, 0, 0)
    /\ tx.fee = compute_resource_fee(cfg, q, tx.resources, ExtendRent(Extended(ks, sn, new), sn, new))
    /\ \A k \in ks : ~Classic(k) /\ (k \in Extended(ks, sn, new) => ~(sn[k].live < q))

(* What a simulated extension declares.                                    *)
LEMMA ExtensionIs ==
    ASSUME NEW ks, NEW ext, NEW sn, NEW q, NEW cfg, NEW tx, tx # None,
           tx = simulate_extend_ttl_op(ks, ext, sn, q, cfg)
    PROVE  ExtendDeclares(tx, ks, ext, sn, q, cfg, (q + ext) % (U32Max + 1))
<1> DEFINE new == (q + ext) % (U32Max + 1)
           ex == Extended(ks, sn, new)
           fp == [read_only |-> ex, read_write |-> {}]
           res == compute_adjusted_transaction_resources(fp, {}, 0, 0, 0, 0)
           fee == compute_resource_fee(cfg, q, res, ExtendRent(ex, sn, new))
<1>1. tx = IF \E k \in ks : Classic(k) \/ (k \in ex /\ sn[k].live < q) THEN None
           ELSE create_transaction_data("extend", <<>>, ext, fp, {}, res, fee)
  BY Zenon DEF simulate_extend_ttl_op, Extended, ExtendRent
<1>2. DeclaredKeys(fp) = ex
  BY DEF DeclaredKeys
<1> HIDE DEF new, ex, fp, res, fee
<1>3. /\ \A k \in ks : ~Classic(k) /\ (k \in ex => ~(sn[k].live < q))
      /\ tx = create_transaction_data("extend", <<>>, ext, fp, {}, res, fee)
  BY <1>1, Zenon
<1>4. tx.kind = "extend" /\ tx.extend_to = ext /\ tx.footprint = fp /\ tx.resources = res /\ tx.fee = fee
  BY <1>3 DEF create_transaction_data
<1>5. ExtendDeclares(tx, ks, ext, sn, q, cfg, new)
  BY <1>2, <1>3, <1>4, Zenon DEF ExtendDeclares, ex, res, fee
<1> QED BY <1>5, Zenon DEF new

ReadyExtend(tx) ==
    \E ks \in SUBSET Keys, x \in Extensions :
        tx # None /\ tx = simulate_extend_ttl_op(ks, x, SimulationSnapshot(ledger), seq, network)

(* The rent of an extension.                                               *)
LEMMA ExtendChange ==
    ASSUME NEW ks, NEW sn, NEW new \in Nat,
           \A k \in ks : sn[k] \in Entries /\ sn[k].live \in Nat, NEW k \in ks
    PROVE  IsChange(ExtendRent(ks, sn, new)[k])
<1> DEFINE e == ExtendRent(ks, sn, new)[k]
           n == entry_size_for_rent(k, sn[k].val)
           a == sn[k].live
<1>1. e = [persistent |-> Durability[k] = "Persistent", code |-> k \in CodeKeys,
           old_size |-> n, new_size |-> n, old_live |-> a, new_live |-> new]
  BY DEF ExtendRent
<1>2. n \in Nat
  <2>1. sn[k].val \in Contents
    BY DEF Entries
  <2> QED BY <2>1, RentSize
<1>3. a \in Nat
  OBVIOUS
<1> HIDE DEF e, n, a
<1>4. Made(k, e, n, n, a, new)
  BY <1>1, <1>2, <1>3, MadeOf
<1> QED BY <1>4 DEF Made, e

(* The extension is not past the last ledger, nor past the longest life.   *)
LEMMA ExtensionFits ==
    ASSUME CanExecute, NEW x \in Extensions
    PROVE  /\ x \in Nat /\ seq \in Nat /\ seq + x \in Nat
           /\ (seq + x) % (U32Max + 1) = seq + x /\ seq + x <= seq + MaxTtl - 1
<1>1. x \in Nat /\ x < MaxTtl /\ MaxTtl \in Nat /\ U32Max \in Nat
  BY RentAssumption, FeesAssumption
<1>2. SoonEnough(seq)
  BY LedgerIsSoon
<1>3. seq \in Nat /\ seq + LongestLife <= U32Max
  BY <1>2 DEF SoonEnough
<1>4. LongestLife \in Nat /\ MaxTtl <= LongestLife
  BY <1>3, TtlBounds
<1>5. seq + x \in Nat /\ seq + x <= U32Max /\ seq + x <= seq + MaxTtl - 1
  BY <1>1, <1>3, <1>4
<1>6. \A a, b \in Nat : a <= b => a % (b + 1) = a
  OBVIOUS
<1> QED BY <1>1, <1>3, <1>5, <1>6

(* A simulated extension is applied.                                       *)
LEMMA ExtendSucceeds ==
    ASSUME CanExecute, ExecuteExtend, ReadyExtend(Head(plan))
    PROVE  result' = "applied"
<1> DEFINE tx == Head(plan)
           new == seq + tx.extend_to
           ex == {k \in DeclaredKeys(tx.footprint) : Live(k) /\ ledger[k].live < new}
           rent == [k \in ex |-> [persistent |-> Durability[k] = "Persistent", code |-> k \in CodeKeys,
                                 old_size |-> SameSize(k), new_size |-> SameSize(k),
                                 old_live |-> ledger[k].live, new_live |-> new]]
           written == [k \in {} |-> None]
           works == new <= seq + MaxTtl - 1
           sn == SimulationSnapshot(ledger)
<1>1. Settle(tx, works, rent, written)
  BY DEF ExecuteExtend
<1>2. PICK ks \in SUBSET Keys, x \in Extensions : tx # None /\ tx = simulate_extend_ttl_op(ks, x, sn, seq, network)
  BY DEF ReadyExtend
<1>3. /\ x \in Nat /\ seq \in Nat /\ seq + x \in Nat
      /\ (seq + x) % (U32Max + 1) = seq + x /\ seq + x <= seq + MaxTtl - 1
  BY ExtensionFits
<1> HIDE DEF tx
<1>4. ExtendDeclares(tx, ks, x, sn, seq, network, seq + x)
  <2>1. ExtendDeclares(tx, ks, x, sn, seq, network, (seq + x) % (U32Max + 1))
    BY <1>2, ExtensionIs, Zenon
  <2> QED BY <1>3, <2>1
<1>5. /\ tx.extend_to = x /\ DeclaredKeys(tx.footprint) = Extended(ks, sn, seq + x)
      /\ tx.resources = compute_adjusted_transaction_resources(tx.footprint, {}, 0, 0, 0, 0)
      /\ tx.fee = compute_resource_fee(network, seq, tx.resources, ExtendRent(Extended(ks, sn, seq + x), sn, seq + x))
      /\ \A k \in ks : ~Classic(k) /\ (k \in Extended(ks, sn, seq + x) => ~(sn[k].live < seq))
  BY <1>4, Zenon DEF ExtendDeclares
<1>6. new = seq + x
  BY <1>5
<1>7. Typed(ledger) /\ \A k \in Soroban : ledger[k] = None \/ EntryOK(ledger[k], seq)
  BY DEF CanExecute, RentInv
<1>8. \A k \in ks : sn[k] = ledger[k] /\ k \in Soroban
  BY <1>5, <1>7, SnapshotIs DEF Soroban
<1> HIDE DEF sn, new
<1>9. Extended(ks, sn, new) = ex
  <2>1. ASSUME NEW k \in Extended(ks, sn, new) PROVE Live(k) /\ ledger[k].live < new
    <3>1. k \in ks /\ ledger[k] # None /\ ledger[k].live < new /\ ~(ledger[k].live < seq)
      BY <1>5, <1>6, <1>8, <2>1 DEF Extended, Present
    <3>2. ledger[k] = None \/ EntryOK(ledger[k], seq)
      BY <1>7, <1>8, <3>1
    <3> QED BY <3>1, <3>2, LiveIs DEF Live
  <2> QED BY <1>5, <1>6, <2>1
<1>10. rent = ExtendRent(ex, sn, new)
  <2>1. \A k \in ex : sn[k] = ledger[k]
    BY <1>8, <1>9 DEF Extended
  <2> HIDE DEF ex
  <2> QED BY <2>1, Zenon DEF ExtendRent, SameSize
<1>11. \A k \in ex : k \in Keys /\ sn[k] \in Entries /\ sn[k].live \in Nat
  <2>1. ASSUME NEW k \in ex PROVE k \in Keys /\ sn[k] \in Entries /\ sn[k].live \in Nat
    <3>1. k \in ks /\ k \in Keys /\ Present(sn[k]) /\ ~Classic(k) /\ sn[k] = ledger[k]
      BY <1>5, <1>8, <1>9, <2>1 DEF Extended
    <3> QED BY <1>7, <3>1 DEF Typed, CellTyped, Present
  <2> QED BY <2>1
<1> HIDE DEF ex, rent
<1>12. DOMAIN rent \subseteq Keys /\ \A k \in DOMAIN rent : IsChange(rent[k])
  <2>1. new \in Nat /\ DOMAIN rent = ex
    BY <1>3, <1>6, <1>10 DEF ExtendRent
  <2>2. \A k \in ex : IsChange(ExtendRent(ex, sn, new)[k])
    BY <1>11, <2>1, ExtendChange
  <2> QED BY <1>10, <1>11, <2>1, <2>2
<1>13. IsResources(tx.resources)
  <2>1. DeclaredKeys(tx.footprint) \subseteq Keys /\ {} \subseteq Keys /\ 0 \in 0..U32Max /\ 0 \in Nat
    BY <1>5, FeesAssumption DEF Extended
  <2> QED BY <1>5, <2>1, ResourcesAre
<1>14. tx.fee = compute_resource_fee(network, seq, tx.resources, rent)
  BY <1>5, <1>6, <1>9, <1>10, Zenon
<1>15. works
  BY <1>3, <1>6
<1> HIDE DEF works, written
<1> QED BY <1>1, <1>12, <1>13, <1>14, <1>15, FeeThenApplied

RestoreRent(ks, sn, new) ==
    [k \in ks |-> [persistent |-> TRUE, code |-> k \in CodeKeys,
                   old_size |-> 0, new_size |-> entry_size_for_rent(k, sn[k].val),
                   old_live |-> 0, new_live |-> new]]

Past(ks, sn, q) == {k \in ks : sn[k].live < q}

BytesOf(ks, sn) == SumBytes([k \in ks |-> xdr_size(sn[k].val)])

RestoreDeclares(tx, ks, sn, q, cfg, new, bytes) ==
    /\ tx.kind = "restore"
    /\ DeclaredKeys(tx.footprint) = Past(ks, sn, q)
    /\ tx.resources = compute_adjusted_transaction_resources(tx.footprint, {}, 0, bytes, bytes, 0)
    /\ tx.fee = compute_resource_fee(cfg, q, tx.resources, RestoreRent(Past(ks, sn, q), sn, new))
    /\ \A k \in ks : Durability[k] = "Persistent" /\ Present(sn[k])

(* What a simulated restoration declares.                                  *)
LEMMA RestorationIs ==
    ASSUME NEW ks, NEW sn, NEW q, NEW cfg, NEW tx, tx # None,
           tx = simulate_restore_op(ks, sn, q, cfg)
    PROVE  RestoreDeclares(tx, ks, sn, q, cfg, Host(q, TRUE)!min_live_until_ledger("Persistent"),
                           BytesOf(Past(ks, sn, q), sn))
<1> DEFINE new == Host(q, TRUE)!min_live_until_ledger("Persistent")
           ex == Past(ks, sn, q)
           bytes == BytesOf(ex, sn)
           fp == [read_only |-> {}, read_write |-> ex]
           res == compute_adjusted_transaction_resources(fp, {}, 0, bytes, bytes, 0)
           fee == compute_resource_fee(cfg, q, res, RestoreRent(ex, sn, new))
<1>1. tx = IF new > U32Max \/ \E k \in ks : Durability[k] # "Persistent" \/ ~Present(sn[k]) THEN None
           ELSE create_transaction_data("restore", <<>>, 0, fp, {}, res, fee)
  BY Zenon DEF simulate_restore_op, Past, RestoreRent, BytesOf
<1>2. DeclaredKeys(fp) = ex
  BY DEF DeclaredKeys
<1> HIDE DEF new, ex, fp, res, fee, bytes
<1>3. /\ \A k \in ks : Durability[k] = "Persistent" /\ Present(sn[k])
      /\ tx = create_transaction_data("restore", <<>>, 0, fp, {}, res, fee)
  BY <1>1, Zenon
<1>4. tx.kind = "restore" /\ tx.footprint = fp /\ tx.resources = res /\ tx.fee = fee
  BY <1>3 DEF create_transaction_data
<1>5. RestoreDeclares(tx, ks, sn, q, cfg, new, bytes)
  BY <1>2, <1>3, <1>4, Zenon DEF RestoreDeclares, ex, res, fee
<1> QED BY <1>5, Zenon DEF new, bytes, ex

(* A restoration of ks whose simulation saw the Soroban entries of the     *)
(* ledger.                                                                 *)
ReadyRestore(tx, ks) ==
    /\ tx # None /\ ks \subseteq Keys
    /\ \E sn : /\ tx = simulate_restore_op(ks, sn, seq, network)
               /\ \A k \in ks : ~Classic(k) => sn[k] = ledger[k]

(* The rent of a restoration.                                              *)
LEMMA RestoreChange ==
    ASSUME NEW ks, NEW sn, NEW new \in Nat,
           \A k \in ks : sn[k] \in Entries /\ Durability[k] = "Persistent", NEW k \in ks
    PROVE  IsChange(RestoreRent(ks, sn, new)[k])
<1> DEFINE e == RestoreRent(ks, sn, new)[k]
           n == entry_size_for_rent(k, sn[k].val)
           d == k \in CodeKeys
<1>1. e = [persistent |-> TRUE, code |-> d,
           old_size |-> 0, new_size |-> n, old_live |-> 0, new_live |-> new]
  BY DEF RestoreRent
<1>2. n \in Nat
  <2>1. sn[k].val \in Contents
    BY DEF Entries
  <2> QED BY <2>1, RentSize
<1>3. d \in BOOLEAN
  OBVIOUS
<1> HIDE DEF e, n, d
<1>4. Fields(e, TRUE, d, 0, n, 0, new)
  BY <1>1, <1>2, <1>3, ChangeIs
<1> QED BY <1>4 DEF Fields, e

(* The ledger with the entries of ks restored.                             *)
RestoredLedger(l, ks, q) ==
    [k \in Keys |-> IF k \in ks THEN [l[k] EXCEPT !.live = Host(q, FALSE)!min_live_until_ledger("Persistent")]
                    ELSE l[k]]

(* A simulated restoration is applied.                                     *)
LEMMA RestoreSucceeds ==
    ASSUME CanExecute, ExecuteRestore, NEW ks, ReadyRestore(Head(plan), ks)
    PROVE  result' = "applied" /\ ledger' = RestoredLedger(ledger, Past(ks, ledger, seq), seq)
<1> DEFINE tx == Head(plan)
           ex == {k \in DeclaredKeys(tx.footprint) : Present(ledger[k]) /\ ~Live(k)}
           bytes == SumBytes([k \in ex |-> xdr_size(ledger[k].val)])
           new == Host(seq, FALSE)!min_live_until_ledger("Persistent")
           rent == [k \in ex |-> [persistent |-> TRUE, code |-> k \in CodeKeys,
                                 old_size |-> 0, new_size |-> SameSize(k), old_live |-> 0,
                                 new_live |-> new]]
           written == [k \in {} |-> None]
           works == bytes <= tx.resources.disk_read_bytes /\ bytes <= tx.resources.write_bytes
           past == Past(ks, ledger, seq)
<1>1. Settle(tx, works, rent, written)
  BY Zenon DEF ExecuteRestore
<1>2. tx # None /\ ks \subseteq Keys
  BY DEF ReadyRestore
<1>3. PICK sn : /\ tx = simulate_restore_op(ks, sn, seq, network)
                /\ \A k \in ks : ~Classic(k) => sn[k] = ledger[k]
  BY DEF ReadyRestore
<1> HIDE DEF tx
<1>4. RestoreDeclares(tx, ks, sn, seq, network, Host(seq, TRUE)!min_live_until_ledger("Persistent"),
                      BytesOf(Past(ks, sn, seq), sn))
  BY <1>2, <1>3, RestorationIs, Zenon
<1>5. SoonEnough(seq)
  BY LedgerIsSoon
<1>6. new = Host(seq, TRUE)!min_live_until_ledger("Persistent")
  BY <1>5, MinLive
<1>7. new \in Nat
  BY <1>5, MinLive
<1>8. RestoreDeclares(tx, ks, sn, seq, network, new, BytesOf(Past(ks, sn, seq), sn))
  BY <1>4, <1>6, Zenon
<1> HIDE DEF new
<1>9. \A k \in ks : Durability[k] = "Persistent" /\ Present(sn[k])
  BY <1>8, Zenon DEF RestoreDeclares
<1>10. Typed(ledger) /\ \A k \in Soroban : ledger[k] = None \/ EntryOK(ledger[k], seq)
  BY DEF CanExecute, RentInv
<1>11. \A k \in ks : sn[k] = ledger[k] /\ k \in Soroban /\ k \in Keys
  BY <1>2, <1>3, <1>9 DEF Soroban, Classic
<1>12. Past(ks, sn, seq) = past
  BY <1>11 DEF Past
<1>13. DeclaredKeys(tx.footprint) = past
  BY <1>8, <1>12, Zenon DEF RestoreDeclares
<1>14. ex = past
  <2>1. ASSUME NEW k \in past PROVE Present(ledger[k]) /\ ~Live(k)
    <3>1. k \in ks /\ ledger[k] # None /\ ledger[k].live < seq
      BY <1>9, <1>11, <2>1 DEF Past, Present
    <3>2. EntryOK(ledger[k], seq)
      BY <1>10, <1>11, <3>1
    <3> QED BY <3>1, <3>2, LiveIs DEF Live, Present
  <2> HIDE DEF past
  <2> QED BY <1>13, <2>1
<1>15. \A k \in ex : k \in ks /\ sn[k] = ledger[k] /\ sn[k] \in Entries /\ Durability[k] = "Persistent"
  <2>1. ASSUME NEW k \in ex PROVE k \in ks /\ sn[k] = ledger[k] /\ sn[k] \in Entries /\ Durability[k] = "Persistent"
    <3>1. k \in ks /\ k \in Keys /\ Present(sn[k]) /\ sn[k] = ledger[k] /\ Durability[k] = "Persistent"
      BY <1>9, <1>11, <1>14, <2>1 DEF Past
    <3> QED BY <1>10, <3>1 DEF Typed, CellTyped, Present
  <2> QED BY <2>1
<1> HIDE DEF ex, past
<1>16. rent = RestoreRent(ex, sn, new)
  <2>1. \A k \in ex : sn[k] = ledger[k]
    BY <1>15
  <2> QED BY <2>1, Zenon DEF RestoreRent, SameSize
<1>17. BytesOf(Past(ks, sn, seq), sn) = bytes
  <2>1. \A k \in ex : xdr_size(sn[k].val) = xdr_size(ledger[k].val)
    BY <1>15
  <2>2. [k \in ex |-> xdr_size(sn[k].val)] = [k \in ex |-> xdr_size(ledger[k].val)]
    BY <2>1, Zenon
  <2> QED BY <1>12, <1>14, <2>2, Zenon DEF BytesOf
<1>18. bytes \in 0..U32Max
  <2> DEFINE f == [k \in ex |-> xdr_size(ledger[k].val)]
  <2>1. \A k \in ex : f[k] \in Nat
    <3>1. \A k \in ex : ledger[k].val \in Contents
      BY <1>15 DEF Entries
    <3> QED BY <3>1, SizeIsNat
  <2>2. DOMAIN f = ex /\ ex \in SUBSET Keys
    BY <1>2, <1>15
  <2> HIDE DEF f
  <2>3. SumBytes(f) \in 0..U32Max
    BY <2>1, <2>2, BytesFit
  <2> QED BY <2>3 DEF f
<1> HIDE DEF rent, bytes
<1>19. DOMAIN rent \subseteq Keys /\ \A k \in DOMAIN rent : IsChange(rent[k])
  <2>1. DOMAIN rent = ex
    BY <1>16 DEF RestoreRent
  <2>2. \A k \in ex : IsChange(RestoreRent(ex, sn, new)[k])
    BY <1>7, <1>15, RestoreChange
  <2> QED BY <1>2, <1>15, <1>16, <2>1, <2>2
<1>20. tx.resources = compute_adjusted_transaction_resources(tx.footprint, {}, 0, bytes, bytes, 0)
  BY <1>8, <1>17, Zenon DEF RestoreDeclares
<1>21. IsResources(tx.resources) /\ works
  <2>1. DeclaredKeys(tx.footprint) \subseteq Keys /\ {} \subseteq Keys /\ 0 \in Nat
    BY <1>2, <1>13 DEF Past, past
  <2> QED BY <1>18, <1>20, <2>1, ResourcesAre
<1>22. tx.fee = compute_resource_fee(network, seq, tx.resources, rent)
  BY <1>8, <1>12, <1>14, <1>16, Zenon DEF RestoreDeclares
<1> HIDE DEF works
<1>23. result' = "applied"
  BY <1>1, <1>19, <1>21, <1>22, FeeThenApplied, Zenon
<1>24. ledger' = RestoredLedger(ledger, past, seq)
  <2>1. Charge(tx, rent) <= tx.fee
    <3>1. SettingsOK /\ network # None /\ seq \in Nat
      BY DEF CanExecute, RentInv
    <3> QED BY <1>19, <1>21, <1>22, <3>1, FeeSuffices
  <2>2. ledger' = Applied(ledger, rent, written)
    BY <1>1, <1>21, <2>1 DEF Settle
  <2>3. DOMAIN rent = ex /\ \A k \in ex : rent[k].new_live = new
    BY <1>16 DEF RestoreRent
  <2>4. DOMAIN written = {}
    OBVIOUS
  <2> HIDE DEF written
  <2>5. Applied(ledger, rent, written) = [k \in Keys |-> IF k \in ex THEN [ledger[k] EXCEPT !.live = new] ELSE ledger[k]]
    BY <2>3, <2>4 DEF Applied
  <2> QED BY <1>14, <2>2, <2>5, Zenon DEF RestoredLedger, new
<1> QED BY <1>23, <1>24, Zenon DEF past

-----------------------------------------------------------------------------
(* A plan that was simulated on the ledger as it is.                       *)

ReadyOne(a) == ReadyInvoke(a, ledger) \/ ReadyExtend(a) \/ \E ks : ReadyRestore(a, ks)

(* A restoration, and an invocation that saw its entries restored.         *)
ReadyPair(a, b) ==
    \E ks : /\ ReadyRestore(a, ks) /\ Past(ks, ledger, seq) = ks
            /\ ReadyInvoke(b, RestoredLedger(ledger, ks, seq))

ReadyPlan ==
    \/ plan = <<>>
    \/ \E a : plan = <<a>> /\ ReadyOne(a)
    \/ \E a, b : plan = <<a, b>> /\ ReadyPair(a, b)

(* Its transactions are what they seem.                                    *)
LEMMA ReadyKinds ==
    /\ \A a, l : ReadyInvoke(a, l) => a.kind = "invoke"
    /\ \A a : ReadyExtend(a) => a.kind = "extend"
    /\ \A a, ks : ReadyRestore(a, ks) => a.kind = "restore"
<1>1. ASSUME NEW a, NEW l, ReadyInvoke(a, l) PROVE a.kind = "invoke"
  <2>1. PICK prog, L : prog \in Programs /\ a # None /\ a = simulate_invoke_host_function_op(prog, L, seq, network)
    BY <1>1 DEF ReadyInvoke
  <2>2. PICK rec, r, restored, c1 :
          RecordedFrom(a, prog, SimulationSnapshot(L), seq, network, rec, r, restored, c1)
    BY <2>1, WasRecorded, Zenon
  <2> QED BY <2>2, Zenon DEF RecordedFrom, Declares
<1>2. ASSUME NEW a, ReadyExtend(a) PROVE a.kind = "extend"
  <2>1. PICK ks \in SUBSET Keys, x \in Extensions :
          a # None /\ a = simulate_extend_ttl_op(ks, x, SimulationSnapshot(ledger), seq, network)
    BY <1>2 DEF ReadyExtend
  <2>2. ExtendDeclares(a, ks, x, SimulationSnapshot(ledger), seq, network, (seq + x) % (U32Max + 1))
    BY <2>1, ExtensionIs, Zenon
  <2> QED BY <2>2, Zenon DEF ExtendDeclares
<1>3. ASSUME NEW a, NEW ks, ReadyRestore(a, ks) PROVE a.kind = "restore"
  <2>1. PICK sn : a # None /\ a = simulate_restore_op(ks, sn, seq, network)
    BY <1>3, Zenon DEF ReadyRestore
  <2>2. RestoreDeclares(a, ks, sn, seq, network, Host(seq, TRUE)!min_live_until_ledger("Persistent"),
                        BytesOf(Past(ks, sn, seq), sn))
    BY <2>1, RestorationIs, Zenon
  <2> QED BY <2>2, Zenon DEF RestoreDeclares
<1> QED BY <1>1, <1>2, <1>3

(* What a transaction leaves alone.                                        *)
LEMMA SettleFrame ==
    ASSUME NEW tx, NEW works, NEW rent, NEW written, Settle(tx, works, rent, written)
    PROVE  /\ seq' = seq /\ touched' = touched /\ settings' = settings /\ state_size' = state_size
           /\ network' = network /\ fresh' = fresh /\ counted' = counted /\ plan' = Tail(plan)
           /\ ledger' = ledger \/ ledger' = Applied(ledger, rent, written)
BY DEF Settle, network

Executes == ExecuteInvoke \/ ExecuteExtend \/ ExecuteRestore

(* What any execution leaves alone.                                        *)
LEMMA ExecutionFrame ==
    ASSUME Executes
    PROVE  /\ seq' = seq /\ touched' = touched /\ settings' = settings /\ state_size' = state_size
           /\ network' = network /\ fresh' = fresh /\ counted' = counted
           /\ plan' = Tail(plan) /\ plan # <<>>
<1>1. plan # <<>> /\ \E tx, works, rent, written : Settle(tx, works, rent, written)
  BY Zenon DEF Executes, ExecuteInvoke, ExecuteExtend, ExecuteRestore
<1> QED BY <1>1, SettleFrame

(* The invocation that follows its restoration.                            *)
LEMMA ThenInvoke ==
    ASSUME NEW b, NEW l, ReadyInvoke(b, l), seq' = seq, network' = network, ledger' = l
    PROVE  ReadyInvoke(b, ledger)'
<1>1. PICK prog, L :
        /\ prog \in Programs /\ b # None /\ b = simulate_invoke_host_function_op(prog, L, seq, network)
        /\ Typed(L) /\ \A k \in DeclaredKeys(b.footprint) : SeenAs(k, L, l)
        /\ CountedAll(prog, SimulationSnapshot(L), seq)
  BY DEF ReadyInvoke
<1>2. \A k \in DeclaredKeys(b.footprint) : SeenAs(k, L, ledger)'
  BY <1>1 DEF SeenAs
<1>3. b = simulate_invoke_host_function_op(prog, L, seq', network')
  BY <1>1, Zenon
<1>4. CountedAll(prog, SimulationSnapshot(L), seq')
  BY <1>1, Zenon
<1> QED BY <1>1, <1>2, <1>3, <1>4 DEF ReadyInvoke

(* A ready plan is executed as it was simulated, up to its end.            *)
LEMMA ReadySucceeds ==
    ASSUME CanExecute, ReadyPlan, Executes
    PROVE  result' = "applied" /\ ReadyPlan'
<1>1. /\ seq' = seq /\ network' = network /\ plan' = Tail(plan) /\ plan # <<>>
  BY ExecutionFrame
<1>2. CASE \E a : plan = <<a>> /\ ReadyOne(a)
  <2>1. PICK a : plan = <<a>> /\ ReadyOne(a)
    BY <1>2
  <2>2. Head(plan) = a /\ Tail(plan) = <<>>
    BY <2>1
  <2>3. plan' = <<>>
    BY <1>1, <2>2
  <2>4. CASE ReadyInvoke(a, ledger)
    <3>1. a.kind = "invoke"
      BY <2>4, ReadyKinds
    <3>2. ExecuteInvoke
      BY <2>2, <3>1 DEF Executes, ExecuteExtend, ExecuteRestore
    <3> QED BY <2>2, <2>3, <2>4, <3>2, InvokeSucceeds DEF ReadyPlan
  <2>5. CASE ReadyExtend(a)
    <3>1. a.kind = "extend"
      BY <2>5, ReadyKinds
    <3>2. ExecuteExtend
      BY <2>2, <3>1 DEF Executes, ExecuteInvoke, ExecuteRestore
    <3> QED BY <2>2, <2>3, <2>5, <3>2, ExtendSucceeds DEF ReadyPlan
  <2>6. ASSUME NEW ks, ReadyRestore(a, ks) PROVE result' = "applied" /\ ReadyPlan'
    <3>1. a.kind = "restore"
      BY <2>6, ReadyKinds
    <3>2. ExecuteRestore
      BY <2>2, <3>1 DEF Executes, ExecuteInvoke, ExecuteExtend
    <3> QED BY <2>2, <2>3, <2>6, <3>2, RestoreSucceeds DEF ReadyPlan
  <2> QED BY <2>1, <2>4, <2>5, <2>6 DEF ReadyOne
<1>3. CASE \E a, b : plan = <<a, b>> /\ ReadyPair(a, b)
  <2>1. PICK a, b : plan = <<a, b>> /\ ReadyPair(a, b)
    BY <1>3
  <2>2. Head(plan) = a /\ Tail(plan) = <<b>>
    BY <2>1
  <2>3. PICK ks : /\ ReadyRestore(a, ks) /\ Past(ks, ledger, seq) = ks
                  /\ ReadyInvoke(b, RestoredLedger(ledger, ks, seq))
    BY <2>1 DEF ReadyPair
  <2>4. a.kind = "restore"
    BY <2>3, ReadyKinds
  <2>5. ExecuteRestore
    BY <2>2, <2>4 DEF Executes, ExecuteInvoke, ExecuteExtend
  <2>6. ReadyRestore(Head(plan), ks)
    BY <2>2, <2>3
  <2>7. result' = "applied" /\ ledger' = RestoredLedger(ledger, Past(ks, ledger, seq), seq)
    BY <2>5, <2>6, RestoreSucceeds
  <2>8. ledger' = RestoredLedger(ledger, ks, seq)
    BY <2>3, <2>7
  <2>9. ReadyInvoke(b, ledger)'
    BY <1>1, <2>3, <2>8, ThenInvoke
  <2>10. plan' = <<b>>
    BY <1>1, <2>2
  <2> QED BY <2>7, <2>9, <2>10 DEF ReadyPlan, ReadyOne
<1> QED BY <1>1, <1>2, <1>3 DEF ReadyPlan

(* The auto-restoring source is a ledger, the restored one on keys that    *)
(* can be restored.                                                        *)
LEMMA AutoRestoringIs ==
    ASSUME SoonEnough(seq), Typed(ledger)
    PROVE  LET L == AutoRestoringSnapshot(ledger, seq) IN
           /\ Typed(L)
           /\ \A k \in Keys : ~Ended(ledger[k], seq) => L[k] = ledger[k]
           /\ \A k \in Keys : Ended(ledger[k], seq) /\ Durability[k] = "Temporary" => L[k] = None
           /\ \A k \in Keys : Ended(ledger[k], seq) => ~Classic(k)
           /\ \A k \in Keys : \A ks : Ended(ledger[k], seq) /\ Durability[k] # "Temporary" /\ k \in ks
                 => L[k] = RestoredLedger(ledger, ks, seq)[k]
<1> DEFINE L == AutoRestoringSnapshot(ledger, seq)
           m == Host(seq, TRUE)!min_live_until_ledger("Persistent")
<1>1. \A k \in Keys : L[k] = IF ~Ended(ledger[k], seq) THEN ledger[k]
                             ELSE IF Durability[k] = "Temporary" THEN None
                             ELSE [ledger[k] EXCEPT !.live = m]
  BY Zenon DEF AutoRestoringSnapshot
<1>2. m = Host(seq, FALSE)!min_live_until_ledger("Persistent")
  BY MinLive
<1>3. m \in Nat
  BY MinLive
<1> HIDE DEF L
<1>4. \A k \in Keys : Ended(ledger[k], seq) => ~Classic(k) /\ ledger[k] \in Entries
  BY DEF Typed, CellTyped, Ended, Present
<1>5. \A k \in Keys : \A ks : k \in ks => RestoredLedger(ledger, ks, seq)[k] = [ledger[k] EXCEPT !.live = m]
  BY <1>2, Zenon DEF RestoredLedger
<1> HIDE DEF m
<1>6. ASSUME NEW k \in Keys PROVE CellTyped(k, L[k])
  <2>1. CellTyped(k, ledger[k])
    BY DEF Typed
  <2>2. CASE ~Ended(ledger[k], seq)
    <3>1. L[k] = ledger[k]
      BY <1>1, <2>2
    <3> QED BY <2>1, <3>1
  <2>3. CASE Ended(ledger[k], seq) /\ Durability[k] = "Temporary"
    <3>1. L[k] = None
      BY <1>1, <2>3
    <3> QED BY <3>1 DEF CellTyped
  <2>4. CASE Ended(ledger[k], seq) /\ Durability[k] # "Temporary"
    <3>1. L[k] = [ledger[k] EXCEPT !.live = m]
      BY <1>1, <2>4
    <3>2. ledger[k] \in Entries /\ ~Classic(k) /\ m \in Int
      BY <1>3, <1>4, <2>4
    <3>3. [ledger[k] EXCEPT !.live = m] \in Entries /\ [ledger[k] EXCEPT !.live = m].live = m
      BY <3>2, Renewed
    <3> QED BY <1>3, <3>1, <3>2, <3>3 DEF CellTyped
  <2> QED BY <2>2, <2>3, <2>4
<1>7. Typed(L)
  BY <1>6 DEF Typed
<1> QED BY <1>1, <1>4, <1>5, <1>7, Zenon DEF L

(* What any simulation leaves alone.                                       *)
LEMMA SimulationFrame ==
    ASSUME NEW p, NEW all, Simulated(p, all)
    PROVE  /\ seq' = seq /\ touched' = touched /\ settings' = settings /\ state_size' = state_size
           /\ network' = network /\ ledger' = ledger /\ plan' = p /\ result' = "none"
           /\ fresh' = TRUE /\ counted' = all
BY DEF Simulated, network

(* The elements of a simulated plan.                                       *)
LEMMA SimulatedAre ==
    /\ \A a, all : Simulated(<<a>>, all) => a # None
    /\ \A a, b, all : Simulated(<<a, b>>, all) => a # None /\ b # None
<1>1. ASSUME NEW a, NEW all, Simulated(<<a>>, all) PROVE a # None
  <2>1. 1 \in DOMAIN <<a>> /\ <<a>>[1] = a
    OBVIOUS
  <2> QED BY <1>1, <2>1 DEF Simulated
<1>2. ASSUME NEW a, NEW b, NEW all, Simulated(<<a, b>>, all) PROVE a # None /\ b # None
  <2>1. 1 \in DOMAIN <<a, b>> /\ <<a, b>>[1] = a /\ 2 \in DOMAIN <<a, b>> /\ <<a, b>>[2] = b
    OBVIOUS
  <2> QED BY <1>2, <2>1 DEF Simulated
<1> QED BY <1>1, <1>2

(* Readiness depends on the ledger, its number and the configuration only. *)
LEMMA ReadyStays ==
    ASSUME seq' = seq, network' = network, ledger' = ledger
    PROVE  /\ \A a : ReadyOne(a) => ReadyOne(a)'
           /\ \A a, b : ReadyPair(a, b) => ReadyPair(a, b)'
<1>1. ASSUME NEW a, ReadyExtend(a) PROVE ReadyExtend(a)'
  BY <1>1, Zenon DEF ReadyExtend
<1>2. ASSUME NEW a, NEW ks, ReadyRestore(a, ks) PROVE ReadyRestore(a, ks)'
  BY <1>2, Zenon DEF ReadyRestore
<1>3. ASSUME NEW a, ReadyInvoke(a, ledger) PROVE ReadyInvoke(a, ledger)'
  BY <1>3, ThenInvoke
<1>4. ASSUME NEW a, NEW b, ReadyPair(a, b) PROVE ReadyPair(a, b)'
  <2>1. PICK ks : /\ ReadyRestore(a, ks) /\ Past(ks, ledger, seq) = ks
                  /\ ReadyInvoke(b, RestoredLedger(ledger, ks, seq))
    BY <1>4 DEF ReadyPair
  <2> DEFINE l == RestoredLedger(ledger, ks, seq)
  <2>2. l = RestoredLedger(ledger', ks, seq')
    BY Zenon
  <2>3. PICK prog, L :
          /\ prog \in Programs /\ b # None /\ b = simulate_invoke_host_function_op(prog, L, seq, network)
          /\ Typed(L) /\ \A k \in DeclaredKeys(b.footprint) : SeenAs(k, L, l)
          /\ CountedAll(prog, SimulationSnapshot(L), seq)
    BY <2>1 DEF ReadyInvoke
  <2> HIDE DEF l
  <2>4. \A k \in DeclaredKeys(b.footprint) : SeenAs(k, L, RestoredLedger(ledger, ks, seq))'
    BY <2>2, <2>3, Zenon DEF SeenAs
  <2>5. b = simulate_invoke_host_function_op(prog, L, seq', network')
    BY <2>3, Zenon
  <2>8. CountedAll(prog, SimulationSnapshot(L), seq')
    BY <2>3, Zenon
  <2>6. ReadyInvoke(b, RestoredLedger(ledger, ks, seq))'
    BY <2>3, <2>4, <2>5, <2>8, Zenon DEF ReadyInvoke
  <2>7. ReadyRestore(a, ks)' /\ (Past(ks, ledger, seq) = ks)'
    BY <1>2, <2>1, Zenon
  <2> QED BY <2>6, <2>7, Zenon DEF ReadyPair
<1> QED BY <1>1, <1>2, <1>3, <1>4, Zenon DEF ReadyOne

(* Every simulation plans what is ready.                                   *)
LEMMA InvokeReady ==
    ASSUME Typed(ledger), NEW p \in Programs, SimulateInvoke(p), counted'
    PROVE  ReadyPlan'
<1>1. PICK tx : tx = simulate_invoke_host_function_op(p, ledger, seq, network)
  OBVIOUS
<1>2. Simulated(<<tx>>, CountsAll(p, SimulationSnapshot(ledger)))
  BY <1>1, Zenon DEF SimulateInvoke
<1>3. tx # None
  BY <1>2, SimulatedAre
<1>4. ReadyInvoke(tx, ledger)
  <2>1. \A k \in DeclaredKeys(tx.footprint) : SeenAs(k, ledger, ledger)
    BY DEF SeenAs
  <2>2. CountsAll(p, SimulationSnapshot(ledger))
    BY <1>2, Zenon DEF Simulated
  <2>3. CountedAll(p, SimulationSnapshot(ledger), seq)
    BY <2>2, CountsAllIs
  <2> QED BY <1>1, <1>3, <2>1, <2>3, Zenon DEF ReadyInvoke
<1>5. plan' = <<tx>> /\ seq' = seq /\ network' = network /\ ledger' = ledger
  BY <1>2, SimulationFrame
<1>6. ReadyOne(tx)
  BY <1>4 DEF ReadyOne
<1>7. ReadyOne(tx)'
  BY <1>5, <1>6, ReadyStays
<1> QED BY <1>5, <1>7 DEF ReadyPlan

(* An extension,                                                           *)
LEMMA ExtendReady ==
    ASSUME NEW ks \in SUBSET Keys, NEW x \in Extensions, SimulateExtend(ks, x)
    PROVE  ReadyPlan'
<1>1. PICK tx : tx = simulate_extend_ttl_op(ks, x, SimulationSnapshot(ledger), seq, network)
  OBVIOUS
<1>2. Simulated(<<tx>>, TRUE)
  BY <1>1, Zenon DEF SimulateExtend
<1>3. tx # None
  BY <1>2, SimulatedAre
<1>4. ReadyExtend(tx)
  BY <1>1, <1>3, Zenon DEF ReadyExtend
<1>5. plan' = <<tx>> /\ seq' = seq /\ network' = network /\ ledger' = ledger
  BY <1>2, SimulationFrame
<1>6. ReadyOne(tx)
  BY <1>4 DEF ReadyOne
<1>7. ReadyOne(tx)'
  BY <1>5, <1>6, ReadyStays
<1> QED BY <1>5, <1>7 DEF ReadyPlan

(* a restoration,                                                          *)
LEMMA RestoreReady ==
    ASSUME Typed(ledger), NEW ks \in SUBSET Keys, SimulateRestore(ks)
    PROVE  ReadyPlan'
<1> DEFINE sn == SimulationSnapshot(ledger)
<1>1. PICK tx : tx = simulate_restore_op(ks, sn, seq, network)
  OBVIOUS
<1>2. Simulated(<<tx>>, TRUE)
  BY <1>1, Zenon DEF SimulateRestore
<1>3. tx # None
  BY <1>2, SimulatedAre
<1>4. \A k \in ks : ~Classic(k) => sn[k] = ledger[k]
  BY SnapshotIs
<1> HIDE DEF sn
<1>5. ReadyRestore(tx, ks)
  BY <1>1, <1>3, <1>4 DEF ReadyRestore
<1>6. plan' = <<tx>> /\ seq' = seq /\ network' = network /\ ledger' = ledger
  BY <1>2, SimulationFrame
<1>7. ReadyOne(tx)
  BY <1>5 DEF ReadyOne
<1>8. ReadyOne(tx)'
  BY <1>6, <1>7, ReadyStays
<1> QED BY <1>6, <1>8 DEF ReadyPlan

(* and an invocation over the auto-restoring source with the restoration   *)
(* it needs.                                                               *)
LEMMA AutoRestoreReady ==
    ASSUME SoonEnough(seq), Typed(ledger), NEW p \in Programs, SimulateWithAutoRestore(p), counted'
    PROVE  ReadyPlan'
<1> DEFINE L == AutoRestoringSnapshot(ledger, seq)
           plans == simulate_with_auto_restore(p, ledger, seq, network)
<1>1. PICK tx : tx = simulate_invoke_host_function_op(p, L, seq, network)
  OBVIOUS
<1> DEFINE keys == {k \in DeclaredKeys(tx.footprint) : ~Classic(k) /\ Ended(ledger[k], seq)
                                                 /\ Durability[k] = "Persistent"}
<1>2. PICK a : a = simulate_restore_op(keys, ledger, seq, network)
  OBVIOUS
<1>3. Simulated(plans, CountsAll(p, SimulationSnapshot(L)))
  BY Zenon DEF SimulateWithAutoRestore
<1>4. plans = IF tx = None THEN <<>> ELSE IF keys = {} THEN <<tx>> ELSE <<a, tx>>
  BY <1>1, <1>2, Zenon DEF simulate_with_auto_restore, RestoreThen
<1>5. plan' = plans /\ seq' = seq /\ network' = network /\ ledger' = ledger /\ plans # <<>>
  BY <1>3, SimulationFrame DEF Simulated
<1>6. tx # None
  BY <1>4, <1>5
<1>7. DeclaredKeys(tx.footprint) \subseteq Keys
  <2>1. PICK rec, r, restored, c1 :
          RecordedFrom(tx, p, SimulationSnapshot(L), seq, network, rec, r, restored, c1)
    BY <1>1, <1>6, WasRecorded, Zenon
  <2> QED BY <2>1, InvocationKeys
<1>8. /\ Typed(L)
      /\ \A k \in Keys : ~Ended(ledger[k], seq) => L[k] = ledger[k]
      /\ \A k \in Keys : Ended(ledger[k], seq) /\ Durability[k] = "Temporary" => L[k] = None
      /\ \A k \in Keys : Ended(ledger[k], seq) => ~Classic(k)
      /\ \A k \in Keys : \A ks : Ended(ledger[k], seq) /\ Durability[k] # "Temporary" /\ k \in ks
            => L[k] = RestoredLedger(ledger, ks, seq)[k]
  BY AutoRestoringIs, Zenon
<1>9. \A k \in Keys : Durability[k] = "Temporary" \/ Durability[k] = "Persistent" \/ Classic(k)
  BY RentAssumption DEF Classic
<1>15. CountedAll(p, SimulationSnapshot(L), seq)
  <2> HIDE DEF L, plans
  <2>1. CountsAll(p, SimulationSnapshot(L))
    BY <1>3, Zenon DEF Simulated
  <2> QED BY <1>8, <2>1, CountsAllIs
<1> DEFINE l == RestoredLedger(ledger, keys, seq)
<1>10. \A k \in Keys : k \notin keys => l[k] = ledger[k]
  BY DEF RestoredLedger
<1> HIDE DEF L, plans, l
<1>11. \A k \in DeclaredKeys(tx.footprint) : SeenAs(k, L, l)
  <2>1. ASSUME NEW k \in DeclaredKeys(tx.footprint) PROVE SeenAs(k, L, l)
    <3>1. k \in Keys
      BY <1>7
    <3>2. CASE k \in keys
      <4>1. Ended(ledger[k], seq) /\ Durability[k] # "Temporary"
        BY <3>2
      <4>2. L[k] = l[k]
        BY <1>8, <3>1, <3>2, <4>1, Zenon DEF l
      <4> QED BY <4>2 DEF SeenAs
    <3>3. CASE k \notin keys
      <4>1. l[k] = ledger[k]
        BY <1>10, <3>1, <3>3
      <4>2. ~Ended(ledger[k], seq) \/ Durability[k] = "Temporary"
        BY <1>8, <1>9, <2>1, <3>1, <3>3
      <4> QED BY <1>8, <3>1, <4>1, <4>2 DEF SeenAs
    <3> QED BY <3>2, <3>3
  <2> QED BY <2>1
<1>12. ReadyInvoke(tx, l)
  BY <1>1, <1>6, <1>8, <1>11, <1>15, Zenon DEF ReadyInvoke
<1>13. CASE keys = {}
  <2>1. ReadyInvoke(tx, ledger)
    <3>1. \A k \in DeclaredKeys(tx.footprint) : SeenAs(k, L, ledger)
      <4>1. \A k \in DeclaredKeys(tx.footprint) : l[k] = ledger[k]
        BY <1>7, <1>10, <1>13
      <4> QED BY <1>11, <4>1 DEF SeenAs
    <3> QED BY <1>1, <1>6, <1>8, <1>15, <3>1, Zenon DEF ReadyInvoke
  <2>2. ReadyOne(tx)'
    <3>1. ReadyOne(tx)
      BY <2>1 DEF ReadyOne
    <3> QED BY <1>5, <3>1, ReadyStays
  <2>3. plan' = <<tx>>
    BY <1>4, <1>5, <1>6, <1>13
  <2> QED BY <2>2, <2>3 DEF ReadyPlan
<1>14. CASE keys # {}
  <2>1. plan' = <<a, tx>> /\ plans = <<a, tx>>
    BY <1>4, <1>5, <1>6, <1>14
  <2>2. a # None
    BY <1>3, <2>1, SimulatedAre
  <2>3. keys \subseteq Keys
    BY <1>7
  <2>4. Past(keys, ledger, seq) = keys
    BY DEF Past, Ended
  <2>5. ReadyRestore(a, keys)
    BY <1>2, <2>2, <2>3, Zenon DEF ReadyRestore
  <2>6. ReadyPair(a, tx)
    <3> HIDE DEF keys
    <3> QED BY <1>12, <2>4, <2>5, Zenon DEF ReadyPair, l
  <2>7. ReadyPair(a, tx)'
    BY <1>5, <2>6, ReadyStays
  <2> QED BY <2>1, <2>7 DEF ReadyPlan
<1> QED BY <1>13, <1>14

-----------------------------------------------------------------------------
(* The entries of the ledger stay of the right form.  The Soroban ones are *)
(* in the invariant of the rent; a classic one changes in an invocation    *)
(* only, which sets its contents.                                          *)

ClassicCell(c) == c = Unloaded \/ c = None \/ c.val \in Contents

ClassicsOK(s) == \A k \in Keys : Classic(k) => ClassicCell(s.map[k])

(* A write of some contents keeps the classic cells,                       *)
LEMMA WriteKeepsClassics ==
    ASSUME NEW s, NEW fp, IsStore(s, fp), ClassicsOK(s), NEW k \in Keys, NEW cell,
           Classic(k) => ClassicCell(cell), NEW t, t = [s EXCEPT !.map[k] = cell]
    PROVE  ClassicsOK(t)
<1>1. t.map[k] = cell /\ \A j \in Keys : j # k => t.map[j] = s.map[j]
  <2>1. IsSet(s, t, k, cell, fp)
    BY SetCell, Zenon
  <2> QED BY <2>1, Zenon DEF IsSet
<1>2. ASSUME NEW j \in Keys, Classic(j) PROVE ClassicCell(t.map[j])
  <2>1. CASE j = k
    BY <1>1, <1>2, <2>1
  <2>2. CASE j # k
    <3>1. ClassicCell(s.map[j])
      BY <1>2 DEF ClassicsOK
    <3> QED BY <1>1, <2>2, <3>1
  <2> QED BY <2>1, <2>2
<1> QED BY <1>2 DEF ClassicsOK

(* and so does every call.                                                 *)
LEMMA DoKeepsClassics ==
    ASSUME NEW s, NEW fp, IsStore(s, fp), ClassicsOK(s), NEW c, Call(c), NEW q \in Nat,
           Loaded(s, c.k, q), NEW sn
    PROVE  ClassicsOK(Do(s, c, sn, q, FALSE).s)
<1> DEFINE k == c.k
           r == Do(s, c, sn, q, FALSE)
<1>0. k \in Keys
  BY DEF Call
<1>1. CASE ~Classic(k)
  <2>1. Outcome(s, r.s, k, q)
    BY DoOutcome
  <2> HIDE DEF r
  <2>2. r.s = s \/ \E cell : r.s = [s EXCEPT !.map[k] = cell]
    BY <2>1, Zenon DEF Outcome
  <2>3. ASSUME NEW cell, r.s = [s EXCEPT !.map[k] = cell] PROVE ClassicsOK(r.s)
    BY <1>0, <1>1, <2>3, WriteKeepsClassics
  <2>4. ClassicsOK(r.s)
    BY <2>2, <2>3, Zenon
  <2> QED BY <2>4 DEF r
<1>2. CASE Classic(k) /\ c.op = "get"
  <2>1. r = Host(q, FALSE)!try_get_full(s, k, sn)
    BY <1>2 DEF Do
  <2>2. HasRead(s, k, Host(q, FALSE)!try_get_full(s, k, sn))
    BY ReadIs
  <2>3. HasRead(s, k, r)
    BY <2>1, <2>2, Zenon
  <2> HIDE DEF r
  <2>4. r.s = s
    BY <2>3, Zenon DEF HasRead
  <2> QED BY <2>4, Zenon DEF r
<1>3. CASE Classic(k) /\ c.op = "credit"
  <2> DEFINE g == Host(q, FALSE)!get_with_live_until_ledger(s, k, sn)
             new == [val |-> c.arg, live |-> Host(q, FALSE)!NoTtl]
  <2>1. r = Host(q, FALSE)!put_classic_entry(s, k, c.arg, sn) /\ c.arg \in Values
    BY <1>3 DEF Do, Call
  <2>2. r = IF g.err # "Ok" THEN g ELSE Host(q, FALSE)!put_opt(g.s, k, new)
    BY <2>1, Zenon DEF Host!put_classic_entry
  <2>3. g.s = s
    <3>1. HasRead(s, k, g)
      BY MustReadIs
    <3> HIDE DEF g
    <3> QED BY <3>1, Zenon DEF HasRead
  <2>4. ClassicCell(new)
    <3>1. new.val = c.arg
      OBVIOUS
    <3> HIDE DEF new
    <3> QED BY <2>1, <3>1, SizeIsNat DEF ClassicCell
  <2> HIDE DEF g, new, r
  <2>5. CASE g.err # "Ok"
    BY <2>2, <2>3, <2>5, Zenon DEF r
  <2>6. CASE g.err = "Ok"
    <3>1. r = Host(q, FALSE)!put_opt(s, k, new)
      BY <2>2, <2>3, <2>6, Zenon
    <3>2. HasWritten(s, k, new, r)
      BY <3>1, WriteIs, Zenon
    <3>3. r.s = s \/ r.s = [s EXCEPT !.map[k] = new]
      BY <3>2, Zenon DEF HasWritten
    <3>4. ASSUME r.s = [s EXCEPT !.map[k] = new] PROVE ClassicsOK(r.s)
      BY <1>0, <2>4, <3>4, WriteKeepsClassics
    <3>5. ClassicsOK(r.s)
      BY <3>3, <3>4, Zenon
    <3> QED BY <3>5 DEF r
  <2> QED BY <2>5, <2>6
<1>4. ~Classic(k) \/ c.op = "get" \/ c.op = "credit"
  BY DEF Call
<1> QED BY <1>1, <1>2, <1>3, <1>4, Zenon

(* A program keeps the classic entries of an enforcing host in form.       *)
LEMMA ExecKeepsClassics ==
    ASSUME NEW start, NEW fp, NEW q \in Nat, StoreOK(start, fp, start, q), ClassicsOK(start), NEW sn,
           NEW prog, Program(prog)
    PROVE  ClassicsOK(Exec(start, prog, sn, q, FALSE).s)
<1> DEFINE n == Len(prog)
           r == Exec(start, prog, sn, q, FALSE)
<1>0. n \in Nat
  BY DEF Program
<1>1. RunsTo(start, prog, sn, q, FALSE, r)
  BY ExecIs
<1> HIDE DEF r
<1>2. PICK f : IsRun(f, start, prog, sn, q, FALSE) /\ r = f[Len(prog)]
  BY <1>1, Zenon DEF RunsTo
<1>3. /\ f[0] = [s |-> start, err |-> "Ok", out |-> None]
      /\ \A i \in 1..n : f[i] = Instruction(f, i, prog[i], sn, q, FALSE)
  BY <1>2, Zenon DEF IsRun
<1> DEFINE Good(x) == StoreOK(x.s, fp, start, q) /\ ClassicsOK(x.s)
           T == {i \in 0..n : Good(f[i])}
<1>4. 0 \in T
  <2>1. f[0].s = start
    BY <1>3
  <2>2. Good(f[0])
    BY <2>1, Zenon
  <2> QED BY <1>0, <2>2
<1>5. ASSUME NEW i \in 1..n, 0..(i - 1) \subseteq T PROVE i \in T
  <2> DEFINE x == f[i - 1]
             y == f[i]
             c == prog[i]
             z == f[c.arg]
  <2>1. Good(x)
    <3>1. i - 1 \in 0..(i - 1)
      BY <1>0
    <3>2. i - 1 \in T
      BY <1>5, <3>1
    <3> QED BY <3>2
  <2>2. Steps(z, x, c, y, sn, q, FALSE)
    <3>1. y = Instruction(f, i, c, sn, q, FALSE)
      BY <1>3, <1>5, Zenon
    <3> QED BY <3>1, InstructionIs
  <2>3. c.op = "end_try" => Good(z)
    <3>1. c.op = "end_try" => c.arg \in 0..(i - 1)
      BY InstructionOf
    <3>2. c.op = "end_try" => c.arg \in T
      BY <1>5, <3>1
    <3> QED BY <3>2
  <2>4. i \in 0..n
    BY <1>0
  <2> HIDE DEF x, y, c, z
  <2>5. CASE y.s = x.s
    <3>1. Good(y)
      BY <2>1, <2>5, Zenon
    <3> QED BY <2>4, <3>1 DEF y
  <2>6. CASE x.err = "Ok" /\ y = Do(x.s, c, sn, q, FALSE) /\ Call(c) /\ c.k \in Keys
    <3>2. IsStore(x.s, fp)
      BY <2>1 DEF StoreOK
    <3>3. Loaded(x.s, c.k, q)
      <4>1. x.s.footprint = fp
        BY <3>2 DEF IsStore
      <4>2. ~Classic(c.k) => c.k \in Soroban
        BY <2>6 DEF Soroban
      <4> QED BY <2>1, <4>1, <4>2 DEF StoreOK, CellOK, Loaded
    <3>4. Outcome(x.s, Do(x.s, c, sn, q, FALSE).s, c.k, q)
      BY <2>6, <3>2, <3>3, DoOutcome
    <3>5. Outcome(x.s, y.s, c.k, q)
      BY <2>6, <3>4, Zenon
    <3>6. StoreOK(y.s, fp, start, q)
      BY <2>1, <2>6, <3>5, OutcomeKeeps
    <3>7. ClassicsOK(Do(x.s, c, sn, q, FALSE).s)
      BY <2>1, <2>6, <3>2, <3>3, DoKeepsClassics
    <3>8. ClassicsOK(y.s)
      BY <2>6, <3>7, Zenon
    <3> QED BY <2>4, <3>6, <3>8 DEF y
  <2>7. CASE Undone(z, x, y) /\ c.op = "end_try"
    <3>1. IsStore(x.s, fp) /\ IsStore(z.s, fp)
      BY <2>1, <2>3, <2>7 DEF StoreOK
    <3>2. y.s = z.s
      BY <2>7, <3>1, UndoneIs DEF IsStore
    <3>3. Good(y)
      BY <2>3, <2>7, <3>2, Zenon
    <3> QED BY <2>4, <3>3 DEF y
  <2> QED BY <2>2, <2>5, <2>6, <2>7 DEF Steps
<1>6. n \in T
  <2> HIDE DEF T
  <2>1. 0..n \subseteq T
    BY <1>0, <1>4, <1>5, Along
  <2> QED BY <1>0, <2>1
<1>7. ClassicsOK(r.s)
  BY <1>2, <1>6
<1> QED BY <1>7, Zenon DEF r

(* What is loaded for an invocation.                                       *)
LEMMA StartClassics ==
    ASSUME Typed(ledger), NEW fp
    PROVE  ClassicsOK(Host(seq, FALSE)!with_enforcing_footprint_and_map(fp,
                          Host(seq, FALSE)!Supplied(fp, CoreLoads, TRUE)))
<1> DEFINE supplied == Host(seq, FALSE)!Supplied(fp, CoreLoads, TRUE)
           start == Host(seq, FALSE)!with_enforcing_footprint_and_map(fp, supplied)
           m == [k \in Keys |-> IF fp[k] = "NotListed" THEN Unloaded ELSE supplied[k]]
<1>1. start.map = m
  BY DEF Host!with_enforcing_footprint_and_map, Host!build_storage_map
<1>2. ASSUME NEW k \in Keys, Classic(k) PROVE ClassicCell(m[k])
  <2>1. CoreLoads[k] = None \/ CoreLoads[k] \in Entries
    BY CoreIs, SnapshotIs DEF SnapOK
  <2>2. supplied[k] = None \/ supplied[k] = CoreLoads[k]
    BY <1>2 DEF Host!Supplied, Host!IsExpired, Host!HasTtl, Classic
  <2>3. CoreLoads[k] \in Entries => CoreLoads[k].val \in Contents
    BY DEF Entries
  <2> HIDE DEF supplied
  <2> QED BY <2>1, <2>2, <2>3 DEF ClassicCell
<1> HIDE DEF m, start
<1>3. ClassicsOK(start)
  BY <1>1, <1>2 DEF ClassicsOK
<1> QED BY <1>3 DEF start

(* What is written to a classic key is some contents.                      *)
LEMMA ClassicWritten ==
    ASSUME NEW s, ClassicsOK(s), NEW supplied, NEW archived, NEW changes,
           changes = Host(seq, FALSE)!get_ledger_changes(s, supplied, archived),
           NEW k \in DOMAIN WrittenOf(changes), Classic(k), k \in Keys
    PROVE  WrittenOf(changes)[k] = None \/ WrittenOf(changes)[k] \in Contents
<1>1. k \in DOMAIN changes /\ WrittenOf(changes)[k] = changes[k].new_value
  BY DEF WrittenOf
<1>2. changes[k] = IF s.map[k] = Unloaded THEN Host(seq, FALSE)!footprint_only_change(s, k)
                   ELSE Host(seq, FALSE)!ledger_change(s, k, supplied, archived)
  BY <1>1 DEF Host!get_ledger_changes
<1>3. Host(seq, FALSE)!footprint_only_change(s, k).new_value = None
  BY DEF Host!footprint_only_change, Host!NoChange
<1>4. Host(seq, FALSE)!ledger_change(s, k, supplied, archived).new_value
        = IF s.footprint[k] = "ReadOnly" \/ ~Host(seq, FALSE)!Exists(s.map[k]) THEN None ELSE s.map[k].val
  BY DEF Host!ledger_change
<1>5. ClassicCell(s.map[k])
  BY DEF ClassicsOK
<1>6. CASE s.map[k] = Unloaded
  BY <1>1, <1>2, <1>3, <1>6
<1>7. CASE s.map[k] # Unloaded
  <2>1. changes[k].new_value = None \/ (s.map[k] # None /\ changes[k].new_value = s.map[k].val)
    BY <1>2, <1>4, <1>7 DEF Host!Exists
  <2> QED BY <1>1, <1>5, <1>7, <2>1 DEF ClassicCell
<1> QED BY <1>6, <1>7

(* A classic entry after a transaction.                                    *)
LEMMA AppliedClassic ==
    ASSUME NEW k \in Keys, Classic(k), CellTyped(k, ledger[k]), NEW rent, k \notin DOMAIN rent, NEW written,
           k \in DOMAIN written => written[k] = None \/ written[k] \in Contents
    PROVE  CellTyped(k, Applied(ledger, rent, written)[k])
<1>1. Applied(ledger, rent, written)[k]
        = IF k \in DOMAIN written
          THEN IF written[k] = None THEN None ELSE [val |-> written[k], live |-> -1]
          ELSE ledger[k]
  BY DEF Applied
<1>2. CASE k \notin DOMAIN written
  BY <1>1, <1>2
<1>3. CASE k \in DOMAIN written /\ written[k] = None
  BY <1>1, <1>3 DEF CellTyped
<1>4. CASE k \in DOMAIN written /\ written[k] # None
  <2> DEFINE c == [val |-> written[k], live |-> -1]
  <2>1. c \in Entries /\ c.live = -1
    BY <1>4 DEF Entries
  <2>2. Applied(ledger, rent, written)[k] = c
    BY <1>1, <1>4
  <2> HIDE DEF c
  <2> QED BY <2>1, <2>2 DEF CellTyped
<1> QED BY <1>2, <1>3, <1>4

(* The ledger after a transaction: the classic entries are enough.         *)
LEMMA TypedAfter ==
    ASSUME Typed(ledger), RentInv', NEW tx, NEW works, NEW rent, NEW written,
           Settle(tx, works, rent, written),
           \A k \in Keys : Classic(k) => /\ k \notin DOMAIN rent
                                         /\ k \in DOMAIN written => written[k] = None \/ written[k] \in Contents
    PROVE  Typed(ledger)'
<1>1. ledger' = ledger \/ ledger' = Applied(ledger, rent, written)
  BY SettleFrame
<1>2. ASSUME NEW k \in Keys PROVE CellTyped(k, ledger'[k])
  <2>1. CASE Classic(k)
    <3>1. CellTyped(k, ledger[k])
      BY DEF Typed
    <3>2. CellTyped(k, Applied(ledger, rent, written)[k])
      BY <2>1, <3>1, AppliedClassic
    <3> QED BY <1>1, <3>1, <3>2
  <2>2. CASE ~Classic(k)
    <3>1. ledger'[k] = None \/ EntryOK(ledger'[k], seq')
      <4>1. (\A j \in Soroban : ledger[j] = None \/ EntryOK(ledger[j], seq))'
        BY DEF RentInv
      <4>2. \A j \in Soroban' : ledger'[j] = None \/ EntryOK(ledger'[j], seq')
        BY <4>1
      <4>3. k \in Soroban'
        BY <2>2 DEF Soroban
      <4> QED BY <4>2, <4>3
    <3>2. ASSUME NEW c, NEW q, EntryOK(c, q) PROVE c \in Entries /\ c.live \in Nat
      BY <3>2, SizeIsNat DEF EntryOK, Entries
    <3> QED BY <2>2, <3>1, <3>2 DEF CellTyped
  <2> QED BY <2>1, <2>2
<1> QED BY <1>2 DEF Typed

(* An invocation,                                                          *)
LEMMA InvokeTyped ==
    ASSUME RentInv, RentInv', Typed(ledger), ExecuteInvoke
    PROVE  Typed(ledger)'
<1> DEFINE tx == Head(plan)
           keys == DeclaredKeys(tx.footprint)
           archived == {k \in keys : Host(seq, FALSE)!IsArchived(k, ledger[k])}
           fp == build_storage_footprint_from_xdr(tx.footprint)
           supplied == Host(seq, FALSE)!Supplied(fp, CoreLoads, TRUE)
           start == Host(seq, FALSE)!with_enforcing_footprint_and_map(fp, supplied)
           r == Exec(start, tx.prog, CoreLoads, seq, FALSE)
           changes == Host(seq, FALSE)!get_ledger_changes(r.s, supplied, archived)
           rent == extract_rent_changes(changes, supplied)
           written == WrittenOf(changes)
           works == /\ archived \subseteq tx.restored
                    /\ r.err = "Ok"
                    /\ DiskReadBytes(keys, archived, CoreLoads) <= tx.resources.disk_read_bytes
                    /\ WriteBytes(changes) <= tx.resources.write_bytes
<1>1. plan # <<>> /\ tx.kind = "invoke" /\ Settle(tx, works, rent, written)
  BY Zenon DEF ExecuteInvoke, WrittenOf
<1>2. TxOK(tx)
  BY <1>1, PlanTail DEF RentInv
<1>3. StoreOK(start, fp, start, seq)
  BY StartOK
<1>4. ClassicsOK(start)
  BY StartClassics
<1>5. Program(tx.prog)
  <2>1. tx.prog \in Programs
    BY <1>1, <1>2 DEF TxOK
  <2> HIDE DEF tx
  <2> QED BY <2>1, RentAssumption
<1>6. seq \in Nat
  BY DEF RentInv
<1> DEFINE s == r.s
<1>7. ClassicsOK(s)
  <2> HIDE DEF start, fp, tx
  <2> QED BY <1>3, <1>4, <1>5, <1>6, ExecKeepsClassics
<1>8. changes = Host(seq, FALSE)!get_ledger_changes(s, supplied, archived)
  OBVIOUS
<1>9. ASSUME NEW k \in Keys, Classic(k) PROVE k \notin DOMAIN rent
  <2> HIDE DEF changes, supplied
  <2> QED BY <1>9 DEF extract_rent_changes
<1> HIDE DEF tx, keys, archived, fp, supplied, start, s, r, changes, rent, works
<1>10. ASSUME NEW k \in Keys, Classic(k), k \in DOMAIN written PROVE written[k] = None \/ written[k] \in Contents
  BY <1>7, <1>8, <1>10, ClassicWritten
<1> HIDE DEF written
<1> QED BY <1>1, <1>9, <1>10, TypedAfter

(* an extension,                                                           *)
LEMMA ExtendTyped ==
    ASSUME RentInv, RentInv', Typed(ledger), ExecuteExtend
    PROVE  Typed(ledger)'
<1> DEFINE tx == Head(plan)
           new == seq + tx.extend_to
           ks == {k \in DeclaredKeys(tx.footprint) : Live(k) /\ ledger[k].live < new}
           rent == [k \in ks |-> [persistent |-> Durability[k] = "Persistent", code |-> k \in CodeKeys,
                                 old_size |-> SameSize(k), new_size |-> SameSize(k),
                                 old_live |-> ledger[k].live, new_live |-> new]]
           written == [k \in {} |-> None]
           works == new <= seq + MaxTtl - 1
<1>1. plan # <<>> /\ tx.kind = "extend" /\ Settle(tx, works, rent, written)
  BY DEF ExecuteExtend
<1>2. TxOK(tx)
  BY <1>1, PlanTail DEF RentInv
<1>3. \A k \in Keys : Classic(k) => k \notin DOMAIN rent /\ k \notin DOMAIN written
  BY <1>1, <1>2 DEF TxOK
<1> HIDE DEF tx, works, rent, written
<1> QED BY <1>1, <1>3, TypedAfter

(* a restoration.                                                          *)
LEMMA RestoreTyped ==
    ASSUME RentInv, RentInv', Typed(ledger), ExecuteRestore
    PROVE  Typed(ledger)'
<1> DEFINE tx == Head(plan)
           ks == {k \in DeclaredKeys(tx.footprint) : Present(ledger[k]) /\ ~Live(k)}
           bytes == SumBytes([k \in ks |-> xdr_size(ledger[k].val)])
           new == Host(seq, FALSE)!min_live_until_ledger("Persistent")
           rent == [k \in ks |-> [persistent |-> TRUE, code |-> k \in CodeKeys,
                                 old_size |-> 0, new_size |-> SameSize(k), old_live |-> 0,
                                 new_live |-> new]]
           written == [k \in {} |-> None]
           works == bytes <= tx.resources.disk_read_bytes /\ bytes <= tx.resources.write_bytes
<1>1. plan # <<>> /\ tx.kind = "restore" /\ Settle(tx, works, rent, written)
  BY DEF ExecuteRestore
<1>2. TxOK(tx)
  BY <1>1, PlanTail DEF RentInv
<1>3. \A k \in Keys : Classic(k) => k \notin DOMAIN rent /\ k \notin DOMAIN written
  BY <1>1, <1>2 DEF TxOK, Classic
<1> HIDE DEF tx, works, rent, written
<1> QED BY <1>1, <1>3, TypedAfter

-----------------------------------------------------------------------------
(* The inductive invariant: while nothing but the plan has changed the     *)
(* ledger, the plan is what a simulation of the ledger as it is returns,   *)
(* if that simulation counted every entry.                                 *)

SimInv ==
    /\ RentInv
    /\ seq <= LastLedger
    /\ touched \subseteq Keys
    /\ Typed(ledger)
    /\ fresh /\ counted => result # "refused" /\ ReadyPlan

(* It holds at the start,                                                  *)
LEMMA SimInit == Init => SimInv
<1> SUFFICES ASSUME Init PROVE SimInv
  OBVIOUS
<1>1. RentInv
  BY InitInv
<1>2. seq <= LastLedger /\ fresh = FALSE
  BY RentAssumption DEF Init
<1>3. touched \subseteq Keys /\ \A k \in Keys : ledger[k] \in LedgerCell(k)
  BY RentAssumption DEF Init
<1>4. ASSUME NEW k \in Keys PROVE CellTyped(k, ledger[k])
  <2> DEFINE top == FirstLedger + LongestLife - 1
             c == ledger[k]
  <2>1. c = None \/ c \in [val : Values, live : IF Classic(k) THEN {-1} ELSE 0..top]
    BY <1>3 DEF LedgerCell
  <2>2. top \in Int
    <3>1. LongestLife \in Nat
      BY <1>1, TtlBounds DEF RentInv
    <3> QED BY <3>1 DEF FirstLedger
  <2> HIDE DEF top, c
  <2>3. CASE c # None /\ Classic(k)
    BY <2>1, <2>3, SizeIsNat DEF CellTyped, Entries, c
  <2>4. CASE c # None /\ ~Classic(k)
    BY <2>1, <2>2, <2>4, SizeIsNat DEF CellTyped, Entries, c
  <2> QED BY <2>3, <2>4 DEF CellTyped, c
<1> QED BY <1>1, <1>2, <1>3, <1>4 DEF SimInv, Typed

(* every simulation,                                                       *)
LEMMA SimulationsReady ==
    ASSUME SimInv,
           \/ \E p \in Programs : SimulateInvoke(p) \/ SimulateWithAutoRestore(p)
           \/ \E ks \in SUBSET touched \ {{}} : SimulateRestore(ks) \/ \E x \in Extensions : SimulateExtend(ks, x)
    PROVE  SimInv'
<1>1. RentInv'
  BY SimulationsKeep DEF SimInv
<1>2. PICK p, all : Simulated(p, all)
  BY Zenon DEF SimulateInvoke, SimulateWithAutoRestore, SimulateRestore, SimulateExtend
<1>3. seq' = seq /\ touched' = touched /\ ledger' = ledger /\ result' = "none" /\ network' = network
  BY <1>2, SimulationFrame
<1>4. Typed(ledger) /\ Typed(ledger)' /\ touched \subseteq Keys /\ touched' \subseteq Keys /\ seq' <= LastLedger
  BY <1>3 DEF SimInv, Typed
<1>5. network # None
  BY Zenon DEF SimulateInvoke, SimulateWithAutoRestore, SimulateRestore, SimulateExtend, CanSimulate
<1>6. SoonEnough(seq)
  BY <1>5, LedgerIsSoon DEF SimInv, CanExecute
<1>7. ASSUME counted' PROVE ReadyPlan'
  <2>1. ASSUME NEW prog \in Programs, SimulateInvoke(prog) PROVE ReadyPlan'
    BY <1>4, <1>7, <2>1, InvokeReady
  <2>2. ASSUME NEW prog \in Programs, SimulateWithAutoRestore(prog) PROVE ReadyPlan'
    BY <1>4, <1>6, <1>7, <2>2, AutoRestoreReady
  <2>3. ASSUME NEW ks \in SUBSET touched \ {{}}, SimulateRestore(ks) PROVE ReadyPlan'
    <3>1. ks \in SUBSET Keys
      BY <1>4, <2>3
    <3> QED BY <1>4, <2>3, <3>1, RestoreReady
  <2>4. ASSUME NEW ks \in SUBSET touched \ {{}}, NEW x \in Extensions, SimulateExtend(ks, x) PROVE ReadyPlan'
    <3>1. ks \in SUBSET Keys
      BY <1>4, <2>4
    <3> QED BY <2>4, <3>1, ExtendReady
  <2> QED BY <2>1, <2>2, <2>3, <2>4
<1> QED BY <1>1, <1>3, <1>4, <1>7 DEF SimInv

(* every execution,                                                        *)
LEMMA ExecutionsSucceed ==
    ASSUME SimInv, Executes
    PROVE  SimInv'
<1>1. /\ seq' = seq /\ touched' = touched /\ fresh' = fresh /\ counted' = counted /\ plan # <<>>
  BY ExecutionFrame
<1>2. RentInv'
  BY InvokeKeeps, ExtendKeeps, RestoreKeeps DEF SimInv, Executes
<1>3. Typed(ledger)'
  BY <1>2, InvokeTyped, ExtendTyped, RestoreTyped DEF SimInv, Executes
<1>4. CanExecute
  BY <1>1 DEF SimInv, CanExecute, RentInv
<1>5. ASSUME fresh, counted PROVE result' = "applied" /\ ReadyPlan'
  BY <1>4, <1>5, ReadySucceeds DEF SimInv
<1>6. seq' <= LastLedger /\ touched' \subseteq Keys
  BY <1>1 DEF SimInv
<1>7. fresh' /\ counted' => result' # "refused" /\ ReadyPlan'
  BY <1>1, <1>5
<1> QED BY <1>2, <1>3, <1>6, <1>7 DEF SimInv

(* and every step keep it.                                                 *)
LEMMA SimStep ==
    ASSUME SimInv, [Next]_vars
    PROVE  SimInv'
<1>1. CASE \/ \E p \in Programs : SimulateInvoke(p) \/ SimulateWithAutoRestore(p)
           \/ \E ks \in SUBSET touched \ {{}} : SimulateRestore(ks) \/ \E x \in Extensions : SimulateExtend(ks, x)
  BY <1>1, SimulationsReady
<1>2. CASE Executes
  BY <1>2, ExecutionsSucceed
<1>3. CASE CloseLedger
  <2>1. RentInv'
    BY <1>3, CloseKeeps DEF SimInv
  <2>2. touched' = touched /\ ledger' = ledger /\ fresh' = FALSE /\ seq < LastLedger /\ seq' = seq + 1
    BY <1>3 DEF CloseLedger
  <2>3. seq' <= LastLedger
    <3>1. seq \in Nat /\ LastLedger \in Nat
      BY RentAssumption DEF SimInv, RentInv
    <3> QED BY <2>2, <3>1
  <2> QED BY <2>1, <2>2, <2>3 DEF SimInv, Typed
<1>4. CASE UNCHANGED vars
  <2>1. /\ seq' = seq /\ touched' = touched /\ ledger' = ledger /\ settings' = settings
        /\ state_size' = state_size /\ plan' = plan /\ fresh' = fresh /\ counted' = counted
        /\ result' = result
    BY <1>4 DEF vars
  <2>2. RentInv'
    BY <1>4, NextKeeps DEF SimInv
  <2>3. network' = network
    BY <2>1 DEF network
  <2>4. ReadyPlan => ReadyPlan'
    BY <2>1, <2>3, ReadyStays DEF ReadyPlan
  <2> QED BY <2>1, <2>2, <2>4 DEF SimInv, Typed
<1> QED BY <1>1, <1>2, <1>3, <1>4 DEF Next, Executes

(* What a simulation declares is enough (simulation.rs): an invocation, an *)
(* extension or a restoration, or a restoration with the invocation that   *)
(* needs it, executed in the ledger it was simulated on, is applied - on   *)
(* every ledger, for every program, with sub-calls that fail and are       *)
(* caught, and under every configuration, its footprint, its read and      *)
(* write bytes and its fee cover what execution uses.  Excluded is exactly *)
(* the simulation of a program that leaves in the read-write footprint an  *)
(* entry of the ledger that only failing sub-calls touched (~CountsAll):   *)
(* its changes list that entry without contents, and the run FailedCalls   *)
(* shows that its transaction can be refused.                              *)
THEOREM SimulationIsEnough == Spec => []SimulationSuffices
<1>1. SimInv /\ [Next]_vars => SimInv'
  BY SimStep
<1>2. SimInv => SimulationSuffices
  BY DEF SimInv, SimulationSuffices
<1> QED BY <1>1, <1>2, SimInit, PTL DEF Spec
=============================================================================
