------------------------------ MODULE SacProofs ------------------------------
(***************************************************************************)
(* What the asset contract keeps, for every set of addresses, every asset, *)
(* every amount and every ledger (Sac).                                    *)
(***************************************************************************)
EXTENDS Sac, FiniteSetTheorems, TLAPS, WellFoundedInduction

-----------------------------------------------------------------------------
(* Naturals and sequences.                                                 *)

(* A non-empty set of naturals has a least element: what inductions over   *)
(* data use, on the set of places where a claim would fail.                *)
LEMMA Least ==
    ASSUME NEW T, T \subseteq Nat, T # {}
    PROVE  \E n \in T : \A m \in T : n <= m
<1> DEFINE R == OpToRel(<, Nat)
<1>1. IsWellFoundedOn(R, Nat)
  BY NatLessThanWellFounded
<1> HIDE DEF R
<1>2. PICK x \in T : \A y \in T : ~(<<y, x>> \in R)
  BY <1>1, WFMin
<1>3. \A y \in T : ~(y < x)
  BY <1>2 DEF R, OpToRel
<1> QED BY <1>3

-----------------------------------------------------------------------------
(* Sums of balances.                                                       *)

(* The balance an entry holds.                                             *)
Held(en, a) == IF en[a] = None THEN 0 ELSE en[a].amount

Chosen(s) == CHOOSE x \in s : TRUE

(* g sums the balances of every set of D.                                  *)
Sums(en, D, g) ==
    g = [s \in D |-> IF s = {} THEN 0 ELSE Held(en, Chosen(s)) + g[s \ {Chosen(s)}]]

Parts(S, n) == {s \in SUBSET S : Cardinality(s) <= n}

(* SumAmounts is the last of the sums.                                     *)
LEMMA SumAmountsIs ==
    ASSUME NEW en, NEW S
    PROVE  SumAmounts(en, S) = (CHOOSE g : Sums(en, SUBSET S, g))[S]
  BY DEF SumAmounts, MapThenSumSet, MapThenFoldSet, Sums, Held, Chosen

(* A non-empty finite set loses its chosen element and becomes smaller.    *)
LEMMA WithoutChosen ==
    ASSUME NEW s, IsFiniteSet(s), s # {}
    PROVE  /\ Chosen(s) \in s
           /\ IsFiniteSet(s \ {Chosen(s)})
           /\ Cardinality(s) \in Nat
           /\ Cardinality(s \ {Chosen(s)}) \in Nat
           /\ Cardinality(s \ {Chosen(s)}) = Cardinality(s) - 1
<1>1. Chosen(s) \in s
  BY DEF Chosen
<1>2. /\ IsFiniteSet(s \ {Chosen(s)})
      /\ Cardinality(s \ {Chosen(s)}) = Cardinality(s) - 1
  BY <1>1, FS_RemoveElement
<1>3. Cardinality(s) \in Nat /\ Cardinality(s \ {Chosen(s)}) \in Nat
  BY <1>2, FS_CardinalityType
<1> QED BY <1>1, <1>2, <1>3

(* The sums of the sets of bounded size exist.                             *)
LEMMA PartSumsExist ==
    ASSUME NEW en, NEW S, IsFiniteSet(S), NEW n \in Nat
    PROVE  \E g : Sums(en, Parts(S, n), g)
<1> DEFINE T == {m \in Nat : ~\E g : Sums(en, Parts(S, m), g)}
<1> SUFFICES ASSUME T # {} PROVE FALSE
  OBVIOUS
<1>1. PICK m \in T : \A k \in T : m <= k
  BY Least
<1>2. \A s \in SUBSET S : IsFiniteSet(s) /\ Cardinality(s) \in Nat
  BY FS_Subset, FS_CardinalityType
<1>3. CASE m = 0
  <2>1. \A s \in Parts(S, 0) : s = {}
    BY <1>2, FS_EmptySet DEF Parts
  <2>2. Sums(en, Parts(S, 0), [s \in Parts(S, 0) |-> 0])
    BY <2>1 DEF Sums
  <2> QED BY <2>2, <1>3
<1>4. CASE m > 0
  <2>1. m - 1 \in Nat /\ m - 1 \notin T
    BY <1>1, <1>4
  <2>2. PICK g : Sums(en, Parts(S, m - 1), g)
    BY <2>1
  <2> DEFINE h == [s \in Parts(S, m) |->
                     IF s = {} THEN 0 ELSE Held(en, Chosen(s)) + g[s \ {Chosen(s)}]]
  <2>3. \A s \in Parts(S, m) : s # {} => s \ {Chosen(s)} \in Parts(S, m - 1)
    <3> TAKE s \in Parts(S, m)
    <3> HAVE s # {}
    <3>1. IsFiniteSet(s) /\ s \in SUBSET S /\ Cardinality(s) <= m
      BY <1>2 DEF Parts
    <3>2. s \ {Chosen(s)} \in SUBSET S /\ Cardinality(s \ {Chosen(s)}) <= m - 1
      BY <3>1, WithoutChosen
    <3> QED BY <3>2 DEF Parts
  <2>4. \A t \in Parts(S, m - 1) : t \in Parts(S, m)
    BY <1>2 DEF Parts
  <2>5. \A t \in Parts(S, m - 1) : h[t] = g[t]
    BY <2>2, <2>4 DEF Sums
  <2>6. \A s \in Parts(S, m) : s # {} => h[s \ {Chosen(s)}] = g[s \ {Chosen(s)}]
    BY <2>3, <2>5
  <2>7. Sums(en, Parts(S, m), h)
    BY <2>6 DEF Sums
  <2> QED BY <2>7
<1> QED BY <1>3, <1>4, <1>1

(* The sums of all subsets of a finite set exist.                          *)
LEMMA SumsExist ==
    ASSUME NEW en, NEW S, IsFiniteSet(S)
    PROVE  \E g : Sums(en, SUBSET S, g) /\ SumAmounts(en, S) = g[S]
<1>1. Cardinality(S) \in Nat
  BY FS_CardinalityType
<1>2. Parts(S, Cardinality(S)) = SUBSET S
  BY FS_Subset DEF Parts
<1>3. \E g : Sums(en, SUBSET S, g)
  BY <1>1, <1>2, PartSumsExist
<1> DEFINE F == CHOOSE g : Sums(en, SUBSET S, g)
<1>4. Sums(en, SUBSET S, F)
  BY <1>3
<1>5. SumAmounts(en, S) = F[S]
  BY SumAmountsIs
<1> QED BY <1>4, <1>5

(* When one balance changes, the sum changes by as much.                   *)
LEMMA SumChange ==
    ASSUME NEW en, NEW en2, NEW S, IsFiniteSet(S), NEW a,
           \A x \in S : Held(en, x) \in Int /\ Held(en2, x) \in Int,
           \A x \in S : x # a => Held(en2, x) = Held(en, x)
    PROVE  /\ SumAmounts(en, S) \in Int
           /\ SumAmounts(en2, S) \in Int
           /\ a \in S => SumAmounts(en2, S) = SumAmounts(en, S) + (Held(en2, a) - Held(en, a))
           /\ a \notin S => SumAmounts(en2, S) = SumAmounts(en, S)
<1>1. PICK g : Sums(en, SUBSET S, g) /\ SumAmounts(en, S) = g[S]
  BY SumsExist
<1>2. PICK h : Sums(en2, SUBSET S, h) /\ SumAmounts(en2, S) = h[S]
  BY SumsExist
<1> DEFINE Right(s) == /\ g[s] \in Int /\ h[s] \in Int
                       /\ a \in s => h[s] = g[s] + (Held(en2, a) - Held(en, a))
                       /\ a \notin s => h[s] = g[s]
           T == {Cardinality(s) : s \in {s \in SUBSET S : ~Right(s)}}
<1>3. \A s \in SUBSET S : IsFiniteSet(s) /\ Cardinality(s) \in Nat
  BY FS_Subset, FS_CardinalityType
<1>4. ASSUME T # {} PROVE FALSE
  <2>1. T \subseteq Nat
    BY <1>3
  <2>2. PICK n \in T : \A k \in T : n <= k
    BY <1>4, <2>1, Least
  <2>3. PICK s \in SUBSET S : ~Right(s) /\ Cardinality(s) = n
    OBVIOUS
  <2>4. CASE s = {}
    <3>1. g[s] = 0 /\ h[s] = 0
      BY <1>1, <1>2, <2>4 DEF Sums
    <3> QED BY <3>1, <2>3, <2>4
  <2>5. CASE s # {}
    <3> DEFINE x == Chosen(s)
               t == s \ {x}
    <3>1. x \in s /\ Cardinality(t) = Cardinality(s) - 1 /\ Cardinality(s) \in Nat
      BY <1>3, <2>5, WithoutChosen
    <3>2. t \in SUBSET S /\ x \in S
      BY <3>1
    <3>3. g[s] = Held(en, x) + g[t] /\ h[s] = Held(en2, x) + h[t]
      BY <1>1, <1>2, <2>5, <2>3 DEF Sums
    <3>4. Right(t)
      <4>1. Cardinality(t) < n
        BY <3>1, <2>3
      <4>2. Cardinality(t) \in Nat /\ n \in Nat
        BY <1>3, <3>2, <2>1
      <4> HIDE DEF Right, t
      <4>3. ~Right(t) => Cardinality(t) \in T
        BY <3>2
      <4> QED BY <4>1, <4>2, <4>3, <2>2
    <3>5. Held(en, x) \in Int /\ Held(en2, x) \in Int
      BY <3>2
    <3>6. a = x => a \in s /\ a \notin t
      BY <3>1
    <3>7. a # x => (a \in s <=> a \in t) /\ Held(en2, x) = Held(en, x)
      BY <3>2
    <3>8. a \in s => Held(en, a) \in Int /\ Held(en2, a) \in Int
      BY <2>3
    <3> HIDE DEF x, t
    <3>9. CASE a = x
      <4>1. h[t] = g[t] /\ g[t] \in Int
        BY <3>4, <3>6, <3>9
      <4> QED BY <4>1, <3>3, <3>5, <3>6, <3>9, <2>3
    <3>10. CASE a # x
      BY <3>10, <3>7, <3>3, <3>4, <3>5, <3>8, <2>3
    <3> QED BY <3>9, <3>10
  <2> QED BY <2>4, <2>5
<1>5. Right(S)
  BY <1>4
<1> QED BY <1>1, <1>2, <1>5

(* The sum over one holder is its balance.                                 *)
LEMMA SumOne ==
    ASSUME NEW en, NEW a, Held(en, a) \in Int
    PROVE  SumAmounts(en, {a}) = Held(en, a)
<1>1. IsFiniteSet({a})
  BY FS_Singleton
<1>2. PICK g : Sums(en, SUBSET {a}, g) /\ SumAmounts(en, {a}) = g[{a}]
  BY <1>1, SumsExist
<1>3. Chosen({a}) = a /\ {a} \ {a} = {}
  BY DEF Chosen
<1>4. g[{}] = 0
  BY <1>2 DEF Sums
<1>5. g[{a}] = Held(en, a) + g[{}]
  BY <1>2, <1>3 DEF Sums
<1> QED BY <1>2, <1>4, <1>5

-----------------------------------------------------------------------------
(* What a call does to the balances.                                       *)

(* The entries are of their types and within their terms.                  *)
EntriesOK(w, en) ==
    /\ en = [a \in Addresses |-> en[a]]
    /\ \A a \in Accounts : en[a] # None =>
        /\ en[a] \in ClassicBalance
        /\ w.asset.type = "native" \/ a # Issuer => WithinTerms(w, a, en[a].amount)
    /\ \A a \in Contracts : en[a] # None =>
        en[a] \in BalanceValue /\ 0 <= en[a].amount /\ en[a].amount <= I128Max

(* The contract is deployed, for the asset of its world.                   *)
Deployed ==
    /\ world \in Worlds /\ instance.info # None /\ instance.info = world.asset
    /\ seq \in Nat

(* From en to en2 the balance of a changes by d, and no other entry does.  *)
Moved(en, en2, a, d) ==
    /\ EntriesOK(world, en) /\ EntriesOK(world, en2)
    /\ \A x \in Addresses : x # a => en2[x] = en[x]
    /\ Held(en, a) \in Int /\ Held(en2, a) \in Int /\ d \in Int
    /\ Held(en2, a) = Held(en, a) + d

(* What reaches the entry of a: the issuer has none.                       *)
Reaches(a, d) == IF is_issuer(a) THEN 0 ELSE d

(* What an address holds is an integer.                                    *)
LEMMA HeldInt ==
    ASSUME NEW w, NEW en, EntriesOK(w, en), NEW a \in Addresses
    PROVE  Held(en, a) \in Int
<1>1. CASE en[a] = None
  BY <1>1 DEF Held
<1>2. CASE en[a] # None /\ a \in Accounts
  BY <1>2 DEF Held, EntriesOK, ClassicBalance
<1>3. CASE en[a] # None /\ a \in Contracts
  BY <1>3 DEF Held, EntriesOK, BalanceValue
<1> QED BY <1>1, <1>2, <1>3 DEF Addresses

(* An extended live-until ledger is a number.                              *)
LEMMA ExtendedInt ==
    ASSUME seq \in Nat, NEW live \in Int, NEW n \in Nat
    PROVE  extend_persistent(live, n) \in Int
  BY SacAssumption DEF extend_persistent, max_live_until_ledger

(* An entry that stays as it was.                                          *)
LEMMA Unmoved ==
    ASSUME NEW en, EntriesOK(world, en), NEW a \in Addresses
    PROVE  Moved(en, en, a, 0)
<1>1. Held(en, a) \in Int
  BY HeldInt
<1> QED BY <1>1 DEF Moved

(* A classic entry moves by the amount, within its terms.                  *)
LEMMA ClassicMoves ==
    ASSUME Deployed, NEW en, EntriesOK(world, en), NEW a \in Accounts, NEW d \in Int,
           NEW en2 \in transfer_classic_balance(en, a, d)
    PROVE  Moved(en, en2, a, Reaches(a, d))
<1>0. a \in Addresses
  BY DEF Addresses
<1>1. CASE is_issuer(a)
  <2>1. en2 = en /\ Reaches(a, d) = 0
    BY <1>1 DEF transfer_classic_balance, Reaches
  <2> QED BY <2>1, <1>0, Unmoved
<1>2. CASE ~is_issuer(a)
  <2>0. en2 \in transfer_classic_entry(en, a, d) /\ Reaches(a, d) = d
    BY <1>2 DEF transfer_classic_balance, Reaches
  <2> DEFINE new == en[a].amount + d
  <2>1. en[a] # None /\ en2 = [en EXCEPT ![a].amount = new]
        /\ \E m \in MinMax(a) : m[1] <= new /\ new <= m[2]
    BY <2>0 DEF transfer_classic_entry
  <2>2. en[a] \in ClassicBalance
    BY <2>1 DEF EntriesOK
  <2>3. en2 = [en EXCEPT ![a] = [en[a] EXCEPT !.amount = new]]
    BY <2>1
  <2>4. [en[a] EXCEPT !.amount = new] \in ClassicBalance
    BY <2>2 DEF ClassicBalance
  <2>5. en2[a] = [en[a] EXCEPT !.amount = new] /\ en2[a].amount = new
        /\ en2 = [x \in Addresses |-> en2[x]]
        /\ \A x \in Addresses : x # a => en2[x] = en[x]
    BY <2>3, <2>2, <1>0 DEF EntriesOK, ClassicBalance
  <2>6. en2[a] # None
    BY <2>4, <2>5, SacAssumption
  <2>7. world.asset.type = "native" \/ a # Issuer
    BY <1>2 DEF is_issuer, IsNative, read_asset_info, Deployed
  <2>8. WithinTerms(world, a, new)
    <3>1. PICK m \in MinMax(a) : m[1] <= new /\ new <= m[2]
      BY <2>1
    <3>2. CASE IsNative
      <4>1. m = <<world.terms[a].net_entries * BaseReserve + world.terms[a].selling,
                  I64Max - world.terms[a].buying>>
        BY <3>1, <3>2 DEF MinMax, get_min_max_account_balance
      <4> QED BY <4>1, <3>1, <3>2 DEF WithinTerms, IsNative, read_asset_info, Deployed
    <3>3. CASE ~IsNative
      <4>1. m = <<world.terms[a].selling, world.terms[a].limit - world.terms[a].buying>>
            /\ ~(world.terms[a].limit < world.terms[a].buying)
        BY <3>1, <3>3 DEF MinMax, get_min_max_trustline_balance
      <4>2. world.terms[a].limit \in Nat /\ world.terms[a].buying \in Nat
        BY SacAssumption DEF IsWorld, Deployed
      <4> QED BY <4>1, <4>2, <3>1, <3>3 DEF WithinTerms, IsNative, read_asset_info, Deployed
    <3> QED BY <3>2, <3>3
  <2>9. EntriesOK(world, en2)
    <3>1. \A x \in Contracts : x \in Addresses /\ x # a
      BY SacAssumption DEF Addresses
    <3>2. \A x \in Accounts : x \in Addresses
      BY DEF Addresses
    <3> QED BY <2>4, <2>5, <2>7, <2>8, <3>1, <3>2 DEF EntriesOK
  <2>10. Held(en, a) = en[a].amount /\ Held(en2, a) = new /\ Held(en, a) \in Int
    BY <2>1, <2>2, <2>5, <2>6 DEF Held, ClassicBalance
  <2> QED BY <2>0, <2>5, <2>9, <2>10 DEF Moved
<1> QED BY <1>1, <1>2

(* A contract's balance written back.                                      *)
LEMMA ContractWritten ==
    ASSUME Deployed, NEW en, EntriesOK(world, en), NEW a \in Contracts,
           NEW b \in BalanceValue, 0 <= b.amount, b.amount <= I128Max,
           NEW en2, en2 = write_contract_balance(en, a, b)
    PROVE  Moved(en, en2, a, b.amount - Held(en, a))
<1>0. a \in Addresses /\ a \notin Accounts
  BY SacAssumption DEF Addresses
<1> DEFINE c == [b EXCEPT !.live = extend_persistent(b.live, BALANCE_EXTEND_AMOUNT)]
<1>1. extend_persistent(b.live, BALANCE_EXTEND_AMOUNT) \in Int
  BY ExtendedInt, SacAssumption DEF BalanceValue, Deployed
<1>2. c \in BalanceValue /\ c.amount = b.amount /\ b.amount \in Int
  BY <1>1 DEF BalanceValue
<1>3. en2 = [en EXCEPT ![a] = c]
  BY DEF write_contract_balance
<1>4. c # None
  BY <1>2, SacAssumption
<1> HIDE DEF c
<1>5. en2[a] = c /\ en2 = [x \in Addresses |-> en2[x]]
      /\ \A x \in Addresses : x # a => en2[x] = en[x]
  BY <1>0, <1>3 DEF EntriesOK
<1>6. EntriesOK(world, en2)
  <2>1. \A x \in Accounts : x \in Addresses /\ x # a
    BY <1>0 DEF Addresses
  <2>2. \A x \in Contracts : x \in Addresses
    BY DEF Addresses
  <2> QED BY <1>2, <1>5, <2>1, <2>2 DEF EntriesOK
<1>7. Held(en, a) \in Int
  BY <1>0, HeldInt
<1>8. Held(en2, a) = b.amount
  BY <1>2, <1>4, <1>5 DEF Held
<1> QED BY <1>2, <1>5, <1>6, <1>7, <1>8 DEF Moved

(* Spending takes the amount from one balance.                             *)
LEMMA SpendMoves ==
    ASSUME Deployed, NEW en, EntriesOK(world, en), NEW a \in Addresses, NEW amount \in Nat,
           NEW en2 \in spend_balance_no_authorization_check(en, a, amount)
    PROVE  Moved(en, en2, a, Reaches(a, -amount))
<1>1. CASE a \in Accounts
  <2>1. en2 \in transfer_classic_balance(en, a, -amount)
    BY <1>1 DEF spend_balance_no_authorization_check
  <2>2. -amount \in Int
    OBVIOUS
  <2> QED BY <1>1, <2>1, <2>2, ClassicMoves
<1>2. CASE a \notin Accounts
  <2>0. a \in Contracts /\ ~is_issuer(a) /\ Reaches(a, -amount) = -amount
    BY <1>2, SacAssumption DEF Addresses, is_issuer, Reaches
  <2>1. CASE en[a] = None
    <3>1. en2 = en /\ amount = 0
      BY <1>2, <2>1 DEF spend_balance_no_authorization_check
    <3> QED BY <2>0, <3>1, Unmoved
  <2>2. CASE en[a] # None
    <3> DEFINE b == [en[a] EXCEPT !.amount = en[a].amount - amount]
    <3>1. ~(en[a].amount < amount) /\ en2 = write_contract_balance(en, a, b)
      BY <1>2, <2>2 DEF spend_balance_no_authorization_check
    <3>2. en[a] \in BalanceValue /\ 0 <= en[a].amount /\ en[a].amount <= I128Max /\ en[a].amount \in Int
      BY <2>0, <2>2 DEF EntriesOK, BalanceValue
    <3>3. b \in BalanceValue /\ b.amount = en[a].amount - amount
      BY <3>2 DEF BalanceValue
    <3>4. 0 <= b.amount /\ b.amount <= I128Max
      BY <3>1, <3>2, <3>3, SacAssumption
    <3> HIDE DEF b
    <3>5. Moved(en, en2, a, b.amount - Held(en, a))
      BY <2>0, <3>1, <3>3, <3>4, ContractWritten
    <3>6. b.amount - Held(en, a) = -amount
      BY <2>2, <3>2, <3>3 DEF Held
    <3> QED BY <2>0, <3>5, <3>6
  <2> QED BY <2>1, <2>2
<1> QED BY <1>1, <1>2

(* Crediting adds the amount to one balance.                               *)
LEMMA CreditMoves ==
    ASSUME Deployed, NEW en, EntriesOK(world, en), NEW a \in Addresses, NEW amount \in Nat,
           NEW en2 \in credit_balance(en, a, amount)
    PROVE  Moved(en, en2, a, Reaches(a, amount))
<1>1. CASE a \in Accounts
  <2>1. en2 \in transfer_classic_balance(en, a, amount)
    BY <1>1 DEF credit_balance
  <2> QED BY <1>1, <2>1, ClassicMoves
<1>2. CASE a \notin Accounts
  <2>0. a \in Contracts /\ ~is_issuer(a) /\ Reaches(a, amount) = amount
    BY <1>2, SacAssumption DEF Addresses, is_issuer, Reaches
  <2> DEFINE b == IF en[a] # None THEN en[a] ELSE NewBalance(TRUE)
             c == [b EXCEPT !.amount = b.amount + amount]
  <2>1. ~(b.amount + amount > I128Max) /\ en2 = write_contract_balance(en, a, c)
    BY <1>2 DEF credit_balance
  <2>2. b \in BalanceValue /\ 0 <= b.amount /\ b.amount \in Int /\ b.amount = Held(en, a)
    <3>1. CASE en[a] # None
      BY <2>0, <3>1 DEF EntriesOK, BalanceValue, Held
    <3>2. CASE en[a] = None
      <4>1. is_asset_issuer_flag_set("clawback") \in BOOLEAN /\ seq + MinPersistentTtl - 1 \in Int
        BY SacAssumption DEF is_asset_issuer_flag_set, Deployed
      <4> QED BY <3>2, <4>1 DEF NewBalance, BalanceValue, Held
    <3> QED BY <3>1, <3>2
  <2> HIDE DEF b
  <2>3. c \in BalanceValue /\ c.amount = b.amount + amount
    BY <2>2 DEF BalanceValue
  <2> HIDE DEF c
  <2>4. 0 <= c.amount /\ c.amount <= I128Max
    BY <2>1, <2>2, <2>3, SacAssumption
  <2>5. Moved(en, en2, a, c.amount - Held(en, a))
    BY <2>0, <2>1, <2>3, <2>4, ContractWritten
  <2>6. c.amount - Held(en, a) = amount
    BY <2>2, <2>3
  <2> QED BY <2>0, <2>5, <2>6
<1> QED BY <1>1, <1>2

(* Authorizing and deauthorizing move nothing.                             *)
LEMMA AuthorizationMoves ==
    ASSUME Deployed, NEW en, EntriesOK(world, en), NEW a \in Addresses, NEW auth \in BOOLEAN,
           NEW en2 \in write_authorization(en, a, auth)
    PROVE  Moved(en, en2, a, 0)
<1>1. CASE a \in Accounts
  <2>1. en2 \in set_authorization(en, a, auth)
    BY <1>1 DEF write_authorization
  <2>2. en[a] # None /\ (en2 = en \/ en2 = [en EXCEPT ![a].authorized = auth, ![a].maintain = ~auth])
    BY <2>1 DEF set_authorization
  <2>3. CASE en2 = en
    BY <2>3, Unmoved
  <2>4. CASE en2 = [en EXCEPT ![a].authorized = auth, ![a].maintain = ~auth]
    <3> DEFINE c == [[en[a] EXCEPT !.authorized = auth] EXCEPT !.maintain = ~auth]
    <3>1. en[a] \in ClassicBalance
      BY <1>1, <2>2 DEF EntriesOK
    <3>2. c \in ClassicBalance /\ c.amount = en[a].amount /\ c.amount \in Int
      BY <3>1 DEF ClassicBalance
    <3>3. en2 = [en EXCEPT ![a] = c]
      BY <2>4 DEF EntriesOK
    <3> HIDE DEF c
    <3>4. c # None
      BY <3>2, SacAssumption
    <3>5. en2[a] = c /\ en2 = [x \in Addresses |-> en2[x]]
          /\ \A x \in Addresses : x # a => en2[x] = en[x]
      BY <3>3 DEF EntriesOK
    <3>6. EntriesOK(world, en2)
      <4>1. \A x \in Contracts : x \in Addresses /\ x # a
        BY <1>1, SacAssumption DEF Addresses
      <4>2. \A x \in Accounts : x \in Addresses
        BY DEF Addresses
      <4> QED BY <2>2, <3>2, <3>5, <4>1, <4>2 DEF EntriesOK
    <3>7. Held(en2, a) = c.amount /\ Held(en, a) = c.amount
      BY <2>2, <3>2, <3>4, <3>5 DEF Held
    <3> QED BY <3>2, <3>5, <3>6, <3>7 DEF Moved
  <2> QED BY <2>2, <2>3, <2>4
<1>2. CASE a \notin Accounts
  <2>0. a \in Contracts
    BY <1>2 DEF Addresses
  <2> DEFINE b == IF en[a] # None THEN en[a] ELSE NewBalance(auth)
             c == [b EXCEPT !.authorized = auth]
  <2>1. en2 = write_contract_balance(en, a, c)
    BY <1>2 DEF write_authorization
  <2>2. b \in BalanceValue /\ 0 <= b.amount /\ b.amount <= I128Max /\ b.amount \in Int
        /\ b.amount = Held(en, a)
    <3>1. CASE en[a] # None
      BY <2>0, <3>1 DEF EntriesOK, BalanceValue, Held
    <3>2. CASE en[a] = None
      <4>1. is_asset_issuer_flag_set("clawback") \in BOOLEAN /\ seq + MinPersistentTtl - 1 \in Int
        BY SacAssumption DEF is_asset_issuer_flag_set, Deployed
      <4> QED BY <3>2, <4>1, SacAssumption DEF NewBalance, BalanceValue, Held
    <3> QED BY <3>1, <3>2
  <2> HIDE DEF b
  <2>3. c \in BalanceValue /\ c.amount = b.amount
    BY <2>2 DEF BalanceValue
  <2> HIDE DEF c
  <2>4. Moved(en, en2, a, c.amount - Held(en, a))
    BY <2>0, <2>1, <2>2, <2>3, ContractWritten
  <2>5. c.amount - Held(en, a) = 0
    BY <2>2, <2>3
  <2> QED BY <2>4, <2>5
<1> QED BY <1>1, <1>2

(* What reading a balance writes moves nothing.                            *)
LEMMA ReadMoves ==
    ASSUME Deployed, EntriesOK(world, entry), NEW a \in Addresses, NEW en2,
           en2 = IF a \in Contracts /\ entry[a] # None
                 THEN write_contract_balance(entry, a, entry[a]) ELSE entry
    PROVE  Moved(entry, en2, a, 0)
<1>1. CASE a \in Contracts /\ entry[a] # None
  <2>1. entry[a] \in BalanceValue /\ 0 <= entry[a].amount /\ entry[a].amount <= I128Max
        /\ entry[a].amount \in Int /\ Held(entry, a) = entry[a].amount
    BY <1>1 DEF EntriesOK, BalanceValue, Held
  <2>2. Moved(entry, en2, a, entry[a].amount - Held(entry, a))
    BY <1>1, <2>1, ContractWritten
  <2>3. entry[a].amount - Held(entry, a) = 0
    BY <2>1
  <2> QED BY <2>2, <2>3
<1>2. CASE ~(a \in Contracts /\ entry[a] # None)
  BY <1>2, Unmoved
<1> QED BY <1>1, <1>2

(* What a balance that moves does to the sum over the holders.             *)
LEMMA MovedSum ==
    ASSUME Deployed, NEW en, NEW en2, NEW a \in Addresses, NEW d, d \in Int,
           Moved(en, en2, a, Reaches(a, d))
    PROVE  /\ SumAmounts(en, Holders) \in Int
           /\ SumAmounts(en2, Holders) = SumAmounts(en, Holders) + Reaches(a, d)
<1>1. IsFiniteSet(Holders) /\ Holders \subseteq Addresses
  BY SacAssumption, FS_Subset DEF Holders
<1>2. \A x \in Holders : Held(en, x) \in Int /\ Held(en2, x) \in Int
  BY <1>1, HeldInt DEF Moved
<1>3. \A x \in Holders : x # a => Held(en2, x) = Held(en, x)
  BY <1>1 DEF Moved, Held
<1>4. /\ SumAmounts(en, Holders) \in Int
      /\ SumAmounts(en2, Holders) \in Int
      /\ a \in Holders => SumAmounts(en2, Holders) = SumAmounts(en, Holders) + (Held(en2, a) - Held(en, a))
      /\ a \notin Holders => SumAmounts(en2, Holders) = SumAmounts(en, Holders)
  BY <1>1, <1>2, <1>3, SumChange
<1>5. a \notin Holders <=> is_issuer(a)
  BY DEF Holders, is_issuer, IsNative, read_asset_info, Deployed
<1>6. CASE is_issuer(a)
  BY <1>4, <1>5, <1>6 DEF Reaches
<1>7. CASE ~is_issuer(a)
  <2>1. Held(en2, a) = Held(en, a) + d /\ Held(en, a) \in Int
    BY <1>7 DEF Moved, Reaches
  <2>2. Reaches(a, d) = d
    BY <1>7 DEF Reaches
  <2> QED BY <1>4, <1>5, <1>7, <2>1, <2>2
<1> QED BY <1>6, <1>7

-----------------------------------------------------------------------------
(* The invariant.                                                          *)

(* The instance is untouched or the world's asset.                         *)
InstanceInv ==
    /\ world \in Worlds /\ seq \in 0..MaxSeq
    /\ instance \in [info : {None, world.asset}, admin : Addresses \cup {None}, live : Int]

EntryInv == EntriesOK(world, entry)

(* An allowance entry is live, and not for longer than the network allows. *)
AllowanceInv ==
    /\ allowance = [p \in AllowancePairs |-> allowance[p]]
    /\ \A p \in AllowancePairs : allowance[p] # None =>
        /\ allowance[p] \in AllowanceValue
        /\ allowance[p].amount \in 0..I128Max
        /\ allowance[p].live \in seq..max_live_until_ledger

(* An allowance that can be spent is no more than what is left of the last *)
(* approval, and ends with it.                                             *)
ApprovalInv ==
    /\ granted \in [AllowancePairs -> [amount : Nat, until : Nat]]
    /\ \A p \in AllowancePairs :
        (allowance[p] # None /\ allowance[p].live_until >= seq /\ allowance[p].amount > 0) =>
            /\ allowance[p].amount <= granted[p].amount
            /\ allowance[p].live_until <= granted[p].until

SacInv == InstanceInv /\ EntryInv /\ AllowanceInv /\ ApprovalInv

(* Extending the instance leaves what it holds.                            *)
LEMMA InstanceExtended ==
    ASSUME InstanceInv
    PROVE  /\ extend_instance \in [info : {None, world.asset}, admin : Addresses \cup {None}, live : Int]
           /\ extend_instance.info = instance.info
<1>1. seq \in Nat
  BY SacAssumption DEF InstanceInv
<1>2. extend_persistent(instance.live, INSTANCE_EXTEND_AMOUNT) \in Int
  BY <1>1, ExtendedInt, SacAssumption DEF InstanceInv
<1> QED BY <1>2 DEF extend_instance, InstanceInv

(* A call other than the initialization meets a deployed contract.         *)
LEMMA CallsDeployed ==
    ASSUME InstanceInv, instance.info # None
    PROVE  Deployed
  BY SacAssumption DEF InstanceInv, Deployed

(* What a spender can use is a number, and only a live entry is.           *)
LEMMA AllowanceRead ==
    ASSUME InstanceInv, AllowanceInv, NEW p \in AllowancePairs
    PROVE  /\ read_allowance(p) \in 0..I128Max
           /\ read_allowance(p) > 0 =>
                /\ allowance[p] # None /\ allowance[p].live_until >= seq
                /\ read_allowance(p) = allowance[p].amount
                /\ allowance[p].live_until \in Int
<1>1. seq \in Nat
  BY SacAssumption DEF InstanceInv
<1>2. CASE allowance[p] = None
  BY <1>2, SacAssumption DEF read_allowance
<1>3. CASE allowance[p] # None
  <2>1. allowance[p].amount \in 0..I128Max /\ allowance[p].live_until \in Int
    BY <1>3 DEF AllowanceInv, AllowanceValue
  <2> QED BY <1>1, <1>3, <2>1, SacAssumption DEF read_allowance
<1> QED BY <1>2, <1>3

(* What writing an allowance leaves.                                       *)
LEMMA AllowanceWritten ==
    ASSUME InstanceInv, AllowanceInv, NEW p \in AllowancePairs, NEW amount \in 0..I128Max,
           NEW live_until \in Int, NEW al \in write_allowance(p, amount, live_until)
    PROVE  /\ al = [q \in AllowancePairs |-> al[q]]
           /\ \A q \in AllowancePairs : q # p => al[q] = allowance[q]
           /\ al[p] = None => amount = 0
           /\ al[p] # None => /\ al[p] \in AllowanceValue
                              /\ al[p].amount = amount /\ al[p].live_until = live_until
                              /\ al[p].live \in seq..max_live_until_ledger
<1>1. seq \in Nat /\ max_live_until_ledger \in Int
  BY SacAssumption DEF InstanceInv, max_live_until_ledger
<1>2. amount \in Nat
  BY SacAssumption
<1> DEFINE old == allowance[p]
           live == IF old = None THEN seq + MinTempTtl - 1 ELSE old.live
           extends == amount > 0 /\ (IF old = None THEN 0 ELSE old.live_until) < live_until
                      /\ live_until > live
           rec == [amount |-> amount, live_until |-> live_until,
                   live |-> IF extends THEN live_until ELSE live]
<1>3. live \in seq..max_live_until_ledger
  <2>1. CASE old = None
    BY <2>1, <1>1, SacAssumption DEF max_live_until_ledger
  <2>2. CASE old # None
    BY <2>2 DEF AllowanceInv
  <2> QED BY <2>1, <2>2
<1>4. ~(live_until > max_live_until_ledger)
      /\ \/ old = None /\ amount <= 0 /\ al = allowance
         \/ ~(old = None /\ amount <= 0) /\ al = [allowance EXCEPT ![p] = rec]
  BY DEF write_allowance
<1>5. CASE old = None /\ amount <= 0 /\ al = allowance
  BY <1>2, <1>5 DEF AllowanceInv
<1>6. CASE al = [allowance EXCEPT ![p] = rec]
  <2>1. rec.live \in seq..max_live_until_ledger
    <3> HIDE DEF live
    <3>1. extends \in BOOLEAN /\ (extends => live_until > live)
      OBVIOUS
    <3>2. rec.live = IF extends THEN live_until ELSE live
      OBVIOUS
    <3> HIDE DEF extends, rec
    <3> QED BY <1>1, <1>3, <1>4, <3>1, <3>2
  <2>2. rec \in AllowanceValue
    <3> HIDE DEF live, extends
    <3>1. (IF extends THEN live_until ELSE live) \in Int
      BY <1>1, <1>3
    <3> QED BY <3>1, <1>2 DEF AllowanceValue
  <2>3. rec # None
    BY <2>2, SacAssumption
  <2>4. rec.amount = amount /\ rec.live_until = live_until
    OBVIOUS
  <2> HIDE DEF rec
  <2>5. al[p] = rec /\ al = [q \in AllowancePairs |-> al[q]]
        /\ \A q \in AllowancePairs : q # p => al[q] = allowance[q]
    BY <1>6 DEF AllowanceInv
  <2> QED BY <2>1, <2>2, <2>3, <2>4, <2>5
<1> QED BY <1>4, <1>5, <1>6

(* Spending an allowance takes the amount from what is left.               *)
LEMMA AllowanceSpent ==
    ASSUME InstanceInv, AllowanceInv, ApprovalInv, NEW p \in AllowancePairs, NEW amount \in Nat,
           allowance' \in spend_allowance(p, amount), Spent(p, amount), UNCHANGED seq
    PROVE  AllowanceInv' /\ ApprovalInv'
<1>0. seq \in Nat /\ max_live_until_ledger' = max_live_until_ledger
  BY SacAssumption DEF InstanceInv, max_live_until_ledger
<1> DEFINE rest == granted[p].amount - amount
<1>1. granted' = [granted EXCEPT ![p] = [granted[p] EXCEPT !.amount = rest]]
      /\ granted[p] \in [amount : Nat, until : Nat]
  BY DEF Spent, ApprovalInv
<1>2. ~(read_allowance(p) < amount) /\ read_allowance(p) \in 0..I128Max /\ read_allowance(p) \in Nat
  BY AllowanceRead, SacAssumption DEF spend_allowance
<1>3. CASE amount = 0
  <2>1. allowance' = allowance
    BY <1>3 DEF spend_allowance
  <2>2. granted' = granted
    BY <1>1, <1>3 DEF ApprovalInv
  <2> QED BY <1>0, <2>1, <2>2 DEF AllowanceInv, ApprovalInv
<1>4. CASE amount > 0
  <2>1. /\ allowance[p] # None /\ allowance[p].live_until >= seq
        /\ read_allowance(p) = allowance[p].amount
        /\ allowance[p].live_until \in Int
    BY <1>2, <1>4, AllowanceRead
  <2>2. allowance[p].amount <= granted[p].amount /\ allowance[p].live_until <= granted[p].until
    BY <1>2, <1>4, <2>1 DEF ApprovalInv
  <2> DEFINE left == read_allowance(p) - amount
             until == allowance[p].live_until
  <2>3. allowance' \in write_allowance(p, left, until)
    BY <1>2, <1>4 DEF spend_allowance
  <2>4. left \in 0..I128Max /\ left <= rest /\ rest \in Nat
    BY <1>1, <1>2, <1>4, <2>1, <2>2, SacAssumption
  <2>5. until \in Int /\ until <= granted[p].until
    BY <2>1, <2>2
  <2> HIDE DEF left, until, rest
  <2>6. /\ allowance' = [q \in AllowancePairs |-> allowance'[q]]
        /\ \A q \in AllowancePairs : q # p => allowance'[q] = allowance[q]
        /\ allowance'[p] # None => /\ allowance'[p] \in AllowanceValue
                                   /\ allowance'[p].amount = left /\ allowance'[p].live_until = until
                                   /\ allowance'[p].live \in seq..max_live_until_ledger
    BY <2>3, <2>4, <2>5, AllowanceWritten
  <2>7. AllowanceInv'
    BY <1>0, <2>4, <2>6 DEF AllowanceInv
  <2>8. granted' \in [AllowancePairs -> [amount : Nat, until : Nat]]
        /\ granted'[p].amount = rest /\ granted'[p].until = granted[p].until
        /\ \A q \in AllowancePairs : q # p => granted'[q] = granted[q]
    BY <1>1, <2>4 DEF ApprovalInv
  <2>9. ASSUME NEW q \in AllowancePairs, allowance'[q] # None, allowance'[q].live_until >= seq,
               allowance'[q].amount > 0
        PROVE  allowance'[q].amount <= granted'[q].amount /\ allowance'[q].live_until <= granted'[q].until
    <3>1. CASE q = p
      BY <2>9, <3>1, <2>4, <2>5, <2>6, <2>8
    <3>2. CASE q # p
      BY <2>9, <3>2, <2>6, <2>8 DEF ApprovalInv
    <3> QED BY <3>1, <3>2
  <2> QED BY <2>7, <2>8, <2>9 DEF ApprovalInv
<1> QED BY <1>3, <1>4

(* Approving writes the allowance and what is left of it.                  *)
LEMMA AllowanceApproved ==
    ASSUME InstanceInv, AllowanceInv, ApprovalInv, NEW p \in AllowancePairs,
           NEW amount \in Amounts, NEW live_until \in LiveUntils, approve(p, amount, live_until)
    PROVE  AllowanceInv' /\ ApprovalInv'
<1>0. seq \in Nat /\ seq' = seq /\ max_live_until_ledger' = max_live_until_ledger
  BY SacAssumption DEF InstanceInv, max_live_until_ledger, approve
<1>1. amount \in 0..I128Max /\ amount \in Nat /\ live_until \in Nat /\ live_until \in Int
  BY SacAssumption DEF approve, check_nonnegative_amount
<1>2. allowance' \in write_allowance(p, amount, live_until)
  BY DEF approve
<1>3. /\ allowance' = [q \in AllowancePairs |-> allowance'[q]]
      /\ \A q \in AllowancePairs : q # p => allowance'[q] = allowance[q]
      /\ allowance'[p] # None => /\ allowance'[p] \in AllowanceValue
                                 /\ allowance'[p].amount = amount
                                 /\ allowance'[p].live_until = live_until
                                 /\ allowance'[p].live \in seq..max_live_until_ledger
  BY <1>1, <1>2, AllowanceWritten
<1>4. AllowanceInv'
  BY <1>0, <1>1, <1>3 DEF AllowanceInv
<1>5. granted' \in [AllowancePairs -> [amount : Nat, until : Nat]]
      /\ granted'[p].amount = amount /\ (amount > 0 => granted'[p].until = live_until)
      /\ \A q \in AllowancePairs : q # p => granted'[q] = granted[q]
  BY <1>1 DEF approve, ApprovalInv
<1>6. ASSUME NEW q \in AllowancePairs, allowance'[q] # None, allowance'[q].live_until >= seq,
             allowance'[q].amount > 0
      PROVE  allowance'[q].amount <= granted'[q].amount /\ allowance'[q].live_until <= granted'[q].until
  <2>1. CASE q = p
    BY <1>6, <2>1, <1>1, <1>3, <1>5
  <2>2. CASE q # p
    BY <1>6, <2>2, <1>3, <1>5 DEF ApprovalInv
  <2> QED BY <2>1, <2>2
<1> QED BY <1>0, <1>4, <1>5, <1>6 DEF ApprovalInv

(* A ledger that closes removes what has expired.                          *)
LEMMA LedgerClosed ==
    ASSUME InstanceInv, AllowanceInv, ApprovalInv, CloseLedger
    PROVE  AllowanceInv' /\ ApprovalInv'
<1>0. seq \in Nat /\ seq' = seq + 1 /\ max_live_until_ledger \in Int
      /\ max_live_until_ledger' = max_live_until_ledger + 1
  BY SacAssumption DEF InstanceInv, max_live_until_ledger, CloseLedger
<1>1. ASSUME NEW q \in AllowancePairs, allowance'[q] # None
      PROVE  allowance'[q] = allowance[q] /\ ~(allowance[q].live < seq + 1)
  BY <1>1 DEF CloseLedger
<1>2. allowance' = [p \in AllowancePairs |-> allowance'[p]]
  BY DEF CloseLedger
<1>3. AllowanceInv'
  <2>1. ASSUME NEW q \in AllowancePairs, allowance'[q] # None
        PROVE  /\ allowance'[q] \in AllowanceValue
               /\ allowance'[q].amount \in 0..I128Max
               /\ allowance'[q].live \in (seq + 1)..(max_live_until_ledger + 1)
    <3>1. /\ allowance[q] \in AllowanceValue
          /\ allowance[q].amount \in 0..I128Max
          /\ allowance[q].live \in seq..max_live_until_ledger
      BY <1>1, <2>1 DEF AllowanceInv
    <3> QED BY <3>1, <1>0, <1>1, <2>1
  <2> QED BY <1>0, <1>2, <2>1 DEF AllowanceInv
<1>4. \A p \in AllowancePairs : granted[p] \in [amount : Nat, until : Nat]
  BY DEF ApprovalInv
<1>5. /\ granted' \in [AllowancePairs -> [amount : Nat, until : Nat]]
      /\ \A p \in AllowancePairs : ~(granted[p].until < seq + 1) => granted'[p] = granted[p]
  BY <1>4 DEF CloseLedger
<1>6. ASSUME NEW q \in AllowancePairs, allowance'[q] # None, allowance'[q].live_until >= seq + 1,
             allowance'[q].amount > 0
      PROVE  allowance'[q].amount <= granted'[q].amount /\ allowance'[q].live_until <= granted'[q].until
  <2>1. allowance'[q] = allowance[q] /\ allowance[q] # None
        /\ allowance[q].live_until \in Int /\ granted[q].until \in Nat
    BY <1>1, <1>4, <1>6 DEF AllowanceInv, AllowanceValue
  <2>2. allowance[q].amount <= granted[q].amount /\ allowance[q].live_until <= granted[q].until
    BY <2>1, <1>0, <1>6 DEF ApprovalInv
  <2>3. granted'[q] = granted[q]
    BY <2>1, <2>2, <1>0, <1>5, <1>6
  <2> QED BY <2>1, <2>2, <2>3
<1> QED BY <1>0, <1>3, <1>5, <1>6 DEF ApprovalInv

(* The invariant holds at the start.                                       *)
LEMMA InitSac ==
    ASSUME Init
    PROVE  SacInv
<1>1. InstanceInv
  BY SacAssumption DEF Init, InstanceInv
<1>2. EntryInv
  <2>1. IsWorld(world) /\ entry = [a \in Addresses |-> IF a \in Accounts THEN world.classic[a] ELSE None]
    BY SacAssumption DEF Init
  <2>2. \A a \in Accounts : a \in Addresses /\ entry[a] = world.classic[a]
    BY <2>1 DEF Addresses
  <2>3. \A a \in Contracts : a \in Addresses /\ entry[a] = None
    BY <2>1, SacAssumption DEF Addresses
  <2>4. entry = [a \in Addresses |-> entry[a]]
    BY <2>1
  <2>5. \A a \in Accounts : world.classic[a] # None => world.classic[a] \in ClassicBalance
    BY <2>1 DEF IsWorld
  <2> QED BY <2>1, <2>2, <2>3, <2>4, <2>5 DEF EntryInv, EntriesOK, IsWorld
<1>3. AllowanceInv
  BY DEF Init, AllowanceInv
<1>4. ApprovalInv
  BY DEF Init, ApprovalInv
<1> QED BY <1>1, <1>2, <1>3, <1>4 DEF SacInv

-----------------------------------------------------------------------------
(* What each call of the contract moves.                                   *)

(* A call that moves at most one balance, from or to a.                    *)
OneMove(a, d) == d \in Int /\ Moved(entry, entry', a, Reaches(a, d))

(* A call that moves the amount from one balance to another.               *)
TwoMoves(from, to, amount) ==
    \E spent : /\ Moved(entry, spent, from, Reaches(from, -amount))
               /\ Moved(spent, entry', to, Reaches(to, amount))
               /\ is_authorized(entry, from) /\ is_authorized(spent, to)

(* An amount that passed the check is not negative.                        *)
LEMMA CallersAmount ==
    ASSUME NEW amount \in Amounts, check_nonnegative_amount(amount)
    PROVE  amount \in Nat /\ -amount \in Int
  BY SacAssumption DEF check_nonnegative_amount

(* Of an amount of zero, zero reaches a holder.                            *)
LEMMA NothingReaches ==
    ASSUME NEW a
    PROVE  Reaches(a, 0) = 0
  BY DEF Reaches

(* A transfer takes from one holder and gives to the other.                *)
LEMMA TransferMoves ==
    ASSUME InstanceInv, EntryInv, NEW from \in Addresses, NEW to \in Addresses,
           NEW amount \in Amounts, check_nonnegative_amount(amount), instance.info # None,
           \E spent \in spend_balance(entry, from, amount) : entry' \in receive_balance(spent, to, amount)
    PROVE  TwoMoves(from, to, amount)
<1>0. Deployed /\ amount \in Nat
  BY CallsDeployed, CallersAmount
<1>1. PICK spent \in spend_balance(entry, from, amount) : entry' \in receive_balance(spent, to, amount)
  OBVIOUS
<1>2. spent \in spend_balance_no_authorization_check(entry, from, amount) /\ is_authorized(entry, from)
  BY <1>1 DEF spend_balance
<1>3. Moved(entry, spent, from, Reaches(from, -amount))
  BY <1>0, <1>2, SpendMoves DEF EntryInv
<1>4. entry' \in credit_balance(spent, to, amount) /\ is_authorized(spent, to)
  BY <1>1 DEF receive_balance
<1>5. EntriesOK(world, spent)
  BY <1>3 DEF Moved
<1>6. Moved(spent, entry', to, Reaches(to, amount))
  BY <1>0, <1>4, <1>5, CreditMoves
<1> QED BY <1>2, <1>3, <1>4, <1>6 DEF TwoMoves

(* What a step does to the balances and to the supply the events tell of:  *)
(* a transfer, a burn or a clawback, a mint, or nothing.                   *)
Outgoing(a, amount) ==
    /\ OneMove(a, -amount) /\ ~is_issuer(a) /\ supply' = supply - amount
    /\ is_authorized(entry, a) \/ (amount \in Amounts /\ clawback(a, amount))

Incoming(a, amount) ==
    OneMove(a, amount) /\ ~is_issuer(a) /\ supply' = supply + amount /\ is_authorized(entry, a)

Exchange(from, to, amount) ==
    TwoMoves(from, to, amount) /\ transfer_maybe_with_issuer(from, to, amount)

Effect ==
    \/ Deployed /\ \E from, to \in Addresses, amount \in Nat : Exchange(from, to, amount)
    \/ Deployed /\ \E a \in Addresses, amount \in Nat : Outgoing(a, amount) \/ Incoming(a, amount)
    \/ Deployed /\ supply' = supply /\ \E a \in Addresses : OneMove(a, 0)
    \/ supply' = supply /\ entry' = entry

(* What every step keeps besides the balances.                             *)
Rest == InstanceInv' /\ AllowanceInv' /\ ApprovalInv' /\ world' = world

(* A step that leaves the instance alone keeps what the invariant says of  *)
(* it.                                                                     *)
LEMMA InstanceKept ==
    ASSUME InstanceInv, ExtendInstance, UNCHANGED <<world, seq>>
    PROVE  InstanceInv' /\ instance.info # None /\ Deployed
<1>1. instance' = extend_instance /\ instance.info # None
  BY DEF ExtendInstance
<1>2. instance' \in [info : {None, world.asset}, admin : Addresses \cup {None}, live : Int]
  BY <1>1, InstanceExtended
<1> QED BY <1>1, <1>2, CallsDeployed DEF InstanceInv

(* The same, for the allowances.                                           *)
LEMMA AllowancesKept ==
    ASSUME AllowanceInv, ApprovalInv, UNCHANGED <<seq, allowance, granted>>
    PROVE  AllowanceInv' /\ ApprovalInv'
  BY DEF AllowanceInv, ApprovalInv, max_live_until_ledger

(* The effect of init_asset on the balances, and that it keeps the rest.   *)
LEMMA StepInit ==
    ASSUME SacInv, NEW asset \in AssetArgs, init_asset(asset)
    PROVE  Effect /\ Rest
<1>1. AllowanceInv' /\ ApprovalInv'
  BY AllowancesKept DEF init_asset, SacInv
<1>2. asset = world.asset /\ instance \in [info : {None, world.asset}, admin : Addresses \cup {None}, live : Int]
  BY DEF SacInv, InstanceInv, init_asset
<1>3. (IF asset.type = "native" THEN None ELSE Issuer) \in Addresses \cup {None}
  BY SacAssumption DEF Addresses
<1>4. instance' \in [info : {None, world.asset}, admin : Addresses \cup {None}, live : Int]
  BY <1>2, <1>3 DEF init_asset
<1> QED BY <1>1, <1>4 DEF init_asset, SacInv, InstanceInv, Effect, Rest

(* The effect of approve on the balances, and that it keeps the rest.      *)
LEMMA StepApprove ==
    ASSUME SacInv, NEW p \in AllowancePairs, NEW amount \in Amounts, NEW l \in LiveUntils,
           approve(p, amount, l)
    PROVE  Effect /\ Rest
<1>1. AllowanceInv' /\ ApprovalInv'
  BY AllowanceApproved DEF SacInv
<1>2. InstanceInv'
  BY InstanceKept DEF approve, SacInv
<1> QED BY <1>1, <1>2 DEF approve, Effect, Rest

(* The effect of transfer on the balances, and that it keeps the rest.     *)
LEMMA StepTransfer ==
    ASSUME SacInv, NEW from \in Addresses, NEW to \in Addresses, NEW amount \in Amounts,
           transfer(from, to, amount)
    PROVE  Effect /\ Rest
<1>1. AllowanceInv' /\ ApprovalInv'
  BY AllowancesKept DEF transfer, SacInv
<1>2. InstanceInv' /\ instance.info # None /\ Deployed
  BY InstanceKept DEF transfer, SacInv
<1>3. amount \in Nat
  BY CallersAmount DEF transfer
<1>4. TwoMoves(from, to, amount)
  BY <1>2, TransferMoves DEF transfer, SacInv
<1>5. Exchange(from, to, amount)
  BY <1>4 DEF transfer, Exchange
<1> QED BY <1>1, <1>2, <1>3, <1>5 DEF transfer, Effect, Rest

(* An allowance is one of an address.                                      *)
LEMMA PairOfAddresses ==
    ASSUME NEW p \in AllowancePairs
    PROVE  p[1] \in Addresses
  BY SacAssumption

(* The effect of transfer_from on the balances, and that it keeps the      *)
(* rest.                                                                   *)
LEMMA StepTransferFrom ==
    ASSUME SacInv, NEW p \in AllowancePairs, NEW to \in Addresses, NEW amount \in Amounts,
           transfer_from(p, to, amount)
    PROVE  Effect /\ Rest
<1>0. amount \in Nat /\ p[1] \in Addresses
  BY CallersAmount, PairOfAddresses DEF transfer_from
<1>1. AllowanceInv' /\ ApprovalInv'
  BY <1>0, AllowanceSpent DEF transfer_from, SacInv
<1>2. InstanceInv' /\ instance.info # None /\ Deployed
  BY InstanceKept DEF transfer_from, SacInv
<1>4. TwoMoves(p[1], to, amount)
  BY <1>0, <1>2, TransferMoves DEF transfer_from, SacInv
<1>5. Exchange(p[1], to, amount)
  BY <1>4 DEF transfer_from, Exchange
<1> QED BY <1>0, <1>1, <1>2, <1>5 DEF transfer_from, Effect, Rest

(* A burn takes the amount from one holder and gives it to none.           *)
LEMMA BurnMoves ==
    ASSUME Deployed, EntryInv, NEW a \in Addresses, NEW amount \in Nat, check_not_issuer(a),
           entry' \in spend_balance(entry, a, amount), Emitted("burn", amount)
    PROVE  Effect
<1>1. entry' \in spend_balance_no_authorization_check(entry, a, amount) /\ is_authorized(entry, a)
  BY DEF spend_balance
<1>2. Moved(entry, entry', a, Reaches(a, -amount))
  BY <1>1, SpendMoves DEF EntryInv
<1>3. Outgoing(a, amount)
  BY <1>1, <1>2 DEF Outgoing, OneMove, check_not_issuer, Emitted
<1> QED BY <1>3 DEF Effect

(* The effect of burn on the balances, and that it keeps the rest.         *)
LEMMA StepBurn ==
    ASSUME SacInv, NEW from \in Addresses, NEW amount \in Amounts, burn(from, amount)
    PROVE  Effect /\ Rest
<1>1. AllowanceInv' /\ ApprovalInv'
  BY AllowancesKept DEF burn, SacInv
<1>2. InstanceInv' /\ Deployed
  BY InstanceKept DEF burn, SacInv
<1>3. amount \in Nat
  BY CallersAmount DEF burn
<1>4. Effect
  BY <1>2, <1>3, BurnMoves DEF burn, SacInv
<1> QED BY <1>1, <1>2, <1>4 DEF burn, Rest

(* The effect of burn_from on the balances, and that it keeps the rest.    *)
LEMMA StepBurnFrom ==
    ASSUME SacInv, NEW p \in AllowancePairs, NEW amount \in Amounts, burn_from(p, amount)
    PROVE  Effect /\ Rest
<1>0. amount \in Nat /\ p[1] \in Addresses
  BY CallersAmount, PairOfAddresses DEF burn_from
<1>1. AllowanceInv' /\ ApprovalInv'
  BY <1>0, AllowanceSpent DEF burn_from, SacInv
<1>2. InstanceInv' /\ Deployed
  BY InstanceKept DEF burn_from, SacInv
<1>4. Effect
  BY <1>0, <1>2, BurnMoves DEF burn_from, SacInv
<1> QED BY <1>1, <1>2, <1>4 DEF burn_from, Rest

(* The effect of clawback on the balances, and that it keeps the rest.     *)
LEMMA StepClawback ==
    ASSUME SacInv, NEW from \in Addresses, NEW amount \in Amounts, clawback(from, amount)
    PROVE  Effect /\ Rest
<1>1. AllowanceInv' /\ ApprovalInv'
  BY AllowancesKept DEF clawback, SacInv
<1>2. InstanceInv' /\ Deployed
  BY InstanceKept DEF clawback, SacInv
<1>3. amount \in Nat /\ -amount \in Int
  BY CallersAmount DEF clawback
<1>4. entry' \in spend_balance_no_authorization_check(entry, from, amount)
      /\ ~is_issuer(from) /\ Emitted("clawback", amount)
  BY DEF clawback, check_not_issuer
<1>5. Moved(entry, entry', from, Reaches(from, -amount))
  BY <1>2, <1>3, <1>4, SpendMoves DEF EntryInv, SacInv
<1>6. Outgoing(from, amount)
  BY <1>3, <1>4, <1>5 DEF Outgoing, OneMove, Emitted
<1>7. Effect
  BY <1>2, <1>3, <1>6 DEF Effect
<1> QED BY <1>1, <1>2, <1>7 DEF clawback, Rest

(* The effect of mint on the balances, and that it keeps the rest.         *)
LEMMA StepMint ==
    ASSUME SacInv, NEW to \in Addresses, NEW amount \in Amounts, mint(to, amount)
    PROVE  Effect /\ Rest
<1>1. AllowanceInv' /\ ApprovalInv'
  BY AllowancesKept DEF mint, SacInv
<1>2. InstanceInv' /\ Deployed
  BY InstanceKept DEF mint, SacInv
<1>3. amount \in Nat
  BY CallersAmount DEF mint
<1>4. entry' \in credit_balance(entry, to, amount) /\ is_authorized(entry, to)
      /\ ~is_issuer(to) /\ Emitted("mint", amount)
  BY DEF mint, check_not_issuer, receive_balance
<1>5. Moved(entry, entry', to, Reaches(to, amount))
  BY <1>2, <1>3, <1>4, CreditMoves DEF EntryInv, SacInv
<1>6. Incoming(to, amount)
  BY <1>3, <1>4, <1>5 DEF Incoming, OneMove, Emitted
<1>7. Effect
  BY <1>2, <1>3, <1>6 DEF Effect
<1> QED BY <1>1, <1>2, <1>7 DEF mint, Rest

(* The effect of set_authorized on the balances, and that it keeps the     *)
(* rest.                                                                   *)
LEMMA StepSetAuthorized ==
    ASSUME SacInv, NEW a \in Addresses, NEW auth \in BOOLEAN, set_authorized(a, auth)
    PROVE  Effect /\ Rest
<1>1. AllowanceInv' /\ ApprovalInv'
  BY AllowancesKept DEF set_authorized, SacInv
<1>2. InstanceInv' /\ Deployed
  BY InstanceKept DEF set_authorized, SacInv
<1>3. Moved(entry, entry', a, 0)
  BY <1>2, AuthorizationMoves DEF set_authorized, EntryInv, SacInv
<1>4. OneMove(a, 0)
  BY <1>3, NothingReaches DEF OneMove
<1> QED BY <1>1, <1>2, <1>4 DEF set_authorized, Effect, Rest

(* The effect of set_admin on the balances, and that it keeps the rest.    *)
LEMMA StepSetAdmin ==
    ASSUME SacInv, NEW a \in Addresses, set_admin(a)
    PROVE  Effect /\ Rest
<1>1. AllowanceInv' /\ ApprovalInv'
  BY AllowancesKept DEF set_admin, SacInv
<1>2. extend_instance \in [info : {None, world.asset}, admin : Addresses \cup {None}, live : Int]
  BY InstanceExtended DEF SacInv
<1>3. instance' \in [info : {None, world.asset}, admin : Addresses \cup {None}, live : Int]
  BY <1>2 DEF set_admin
<1> QED BY <1>1, <1>3 DEF set_admin, SacInv, InstanceInv, Effect, Rest

(* The effect of balance on the balances, and that it keeps the rest.      *)
LEMMA StepBalance ==
    ASSUME SacInv, NEW a \in Addresses, balance(a)
    PROVE  Effect /\ Rest
<1>1. AllowanceInv' /\ ApprovalInv'
  BY AllowancesKept DEF balance, SacInv
<1>2. InstanceInv' /\ Deployed
  BY InstanceKept DEF balance, SacInv
<1>3. Moved(entry, entry', a, 0)
  BY <1>2, ReadMoves DEF balance, EntryInv, SacInv
<1>4. OneMove(a, 0)
  BY <1>3, NothingReaches DEF OneMove
<1> QED BY <1>1, <1>2, <1>4 DEF balance, Effect, Rest

(* The effect of authorized on the balances, and that it keeps the rest.   *)
LEMMA StepAuthorized ==
    ASSUME SacInv, authorized
    PROVE  Effect /\ Rest
<1>1. AllowanceInv' /\ ApprovalInv'
  BY AllowancesKept DEF authorized, SacInv
<1>2. InstanceInv'
  BY InstanceKept DEF authorized, SacInv
<1> QED BY <1>1, <1>2 DEF authorized, Effect, Rest

(* The effect of the close of a ledger: entries expire.                    *)
LEMMA StepClose ==
    ASSUME SacInv, CloseLedger
    PROVE  Effect /\ Rest
<1>1. AllowanceInv' /\ ApprovalInv'
  BY LedgerClosed DEF SacInv
<1>2. seq' \in 0..MaxSeq
  BY SacAssumption DEF CloseLedger, SacInv, InstanceInv
<1> QED BY <1>1, <1>2 DEF CloseLedger, SacInv, InstanceInv, Effect, Rest

(* Every step moves balances in one of these ways.                         *)
LEMMA StepEffect ==
    ASSUME SacInv, [Next]_vars
    PROVE  Effect /\ Rest
<1>1. CASE UNCHANGED vars
  BY <1>1 DEF vars, Effect, Rest, SacInv, InstanceInv, AllowanceInv, ApprovalInv, max_live_until_ledger
<1>2. CASE Next
  BY <1>2, StepInit, StepApprove, StepTransfer, StepTransferFrom, StepBurn, StepBurnFrom, StepClawback,
     StepMint, StepSetAuthorized, StepSetAdmin, StepBalance, StepAuthorized, StepClose DEF Next
<1> QED BY <1>1, <1>2

(* The balances stay of their types and within their terms.                *)
LEMMA EffectEntries ==
    ASSUME EntryInv, Effect, world' = world
    PROVE  EntryInv'
  BY DEF EntryInv, Effect, Exchange, Outgoing, Incoming, OneMove, TwoMoves, Moved

(* Every step keeps the invariant.                                         *)
LEMMA SacStep ==
    ASSUME SacInv, [Next]_vars
    PROVE  SacInv'
<1>1. Effect /\ Rest
  BY StepEffect
<1>2. EntryInv'
  BY <1>1, EffectEntries DEF SacInv, Rest
<1> QED BY <1>1, <1>2 DEF SacInv, Rest

(* The inductive invariant of the asset contract.                          *)
LEMMA SacInvariant == Spec => []SacInv
<1>1. Init => SacInv
  BY InitSac
<1>2. SacInv /\ [Next]_vars => SacInv'
  BY SacStep
<1> QED BY <1>1, <1>2, PTL DEF Spec

(* The invariant implies the types.                                        *)
LEMMA TypeFromInv ==
    ASSUME SacInv
    PROVE  TypeOK
<1>1. /\ seq \in 0..MaxSeq
      /\ instance.admin \in Addresses \cup {None}
      /\ instance.info \in {None, world.asset}
  BY DEF SacInv, InstanceInv
<1>2. \A a \in Contracts : entry[a] # None => entry[a].amount \in 0..I128Max
  BY SacAssumption DEF SacInv, EntryInv, EntriesOK, BalanceValue
<1>3. ASSUME instance.info # None, NEW a \in Accounts \cap Holders, entry[a] # None
      PROVE  \E m \in MinMax(a) : entry[a].amount \in m[1]..m[2]
  <2> DEFINE t == world.terms[a]
             amount == entry[a].amount
  <2>1. instance.info = world.asset /\ IsWorld(world)
    BY <1>3, SacAssumption DEF SacInv, InstanceInv
  <2>2. world.asset.type = "native" \/ a # Issuer
    BY <1>3 DEF Holders
  <2>3. WithinTerms(world, a, amount) /\ amount \in Int
    BY <1>3, <2>2 DEF SacInv, EntryInv, EntriesOK, ClassicBalance
  <2>4. t.limit \in Nat /\ t.selling \in Nat /\ t.buying \in Nat /\ t.net_entries \in Nat
    BY <1>3, <2>1 DEF IsWorld
  <2>5. CASE IsNative
    <3> DEFINE m == <<t.net_entries * BaseReserve + t.selling, I64Max - t.buying>>
    <3>1. m \in MinMax(a)
      BY <2>5 DEF MinMax, get_min_max_account_balance
    <3>2. m[1] \in Int /\ m[2] \in Int
      BY <2>4, SacAssumption
    <3>3. m[1] <= amount /\ amount <= m[2]
      BY <2>1, <2>3, <2>5 DEF WithinTerms, IsNative, read_asset_info
    <3> HIDE DEF m, amount
    <3>4. amount \in m[1]..m[2]
      BY <2>3, <3>2, <3>3
    <3> QED BY <3>1, <3>4 DEF amount
  <2>6. CASE ~IsNative
    <3> DEFINE m == <<t.selling, t.limit - t.buying>>
    <3>0. t.selling <= amount /\ amount <= t.limit - t.buying /\ t.buying <= t.limit
      BY <2>1, <2>3, <2>6 DEF WithinTerms, IsNative, read_asset_info
    <3>1. m \in MinMax(a)
      BY <2>6, <2>4, <3>0 DEF MinMax, get_min_max_trustline_balance
    <3>2. m[1] \in Int /\ m[2] \in Int
      BY <2>4
    <3>3. m[1] <= amount /\ amount <= m[2]
      BY <3>0
    <3> HIDE DEF m, amount
    <3>4. amount \in m[1]..m[2]
      BY <2>3, <3>2, <3>3
    <3> QED BY <3>1, <3>4 DEF amount
  <2> QED BY <2>5, <2>6
<1>4. \A p \in AllowancePairs :
        allowance[p] # None => /\ allowance[p].amount \in 0..I128Max
                               /\ allowance[p].live \in seq..max_live_until_ledger
  BY DEF SacInv, AllowanceInv
<1> QED BY <1>1, <1>2, <1>3, <1>4 DEF TypeOK

-----------------------------------------------------------------------------
(* Every balance fits its type and its terms: a trustline or an account    *)
(* between its liabilities and its limit, a contract balance a             *)
(* non-negative i128; no allowance entry outlives the network's maximum    *)
(* (balance.rs, allowance.rs).                                             *)
THEOREM BalancesFit == Spec => []TypeOK
<1>1. SacInv => TypeOK
  BY TypeFromInv
<1> QED BY <1>1, SacInvariant, PTL

(* A spender never moves more than the last approval left, and nothing     *)
(* after its live_until_ledger, whatever was approved, spent, cleared and  *)
(* expired before (allowance.rs: write_allowance, spend_allowance).        *)
THEOREM AllowancesBounded == Spec => []SpendableWithinApproval
<1>1. ASSUME SacInv PROVE SpendableWithinApproval
  <2>1. ASSUME NEW p \in AllowancePairs PROVE read_allowance(p) <= granted[p].amount
    <3>1. InstanceInv /\ AllowanceInv /\ granted[p].amount \in Nat
      BY <1>1 DEF SacInv, ApprovalInv
    <3>2. /\ read_allowance(p) \in 0..I128Max
          /\ read_allowance(p) > 0 =>
                /\ allowance[p] # None /\ allowance[p].live_until >= seq
                /\ read_allowance(p) = allowance[p].amount
      BY <3>1, AllowanceRead
    <3>3. read_allowance(p) > 0 => read_allowance(p) <= granted[p].amount
      BY <1>1, <3>2 DEF SacInv, ApprovalInv
    <3>4. read_allowance(p) \in Nat
      BY <3>2, SacAssumption
    <3> QED BY <3>1, <3>3, <3>4
  <2> QED BY <2>1 DEF SpendableWithinApproval
<1> QED BY <1>1, SacInvariant, PTL

(* What a transfer does to the supply and what its event says of it.       *)
LEMMA ExchangeSupply ==
    ASSUME Deployed, NEW from \in Addresses, NEW to \in Addresses, NEW amount \in Nat,
           Exchange(from, to, amount), supply = SumAmounts(entry, Holders)
    PROVE  supply' = SumAmounts(entry', Holders)
<1>1. PICK spent : /\ Moved(entry, spent, from, Reaches(from, -amount))
                   /\ Moved(spent, entry', to, Reaches(to, amount))
  BY DEF Exchange, TwoMoves
<1>2. -amount \in Int /\ amount \in Int
  OBVIOUS
<1>3. SumAmounts(entry, Holders) \in Int
      /\ SumAmounts(spent, Holders) = SumAmounts(entry, Holders) + Reaches(from, -amount)
  BY <1>1, <1>2, MovedSum
<1>4. SumAmounts(entry', Holders) = SumAmounts(spent, Holders) + Reaches(to, amount)
  BY <1>1, <1>2, MovedSum
<1>5. is_issuer(from) /\ is_issuer(to) => from = to
  BY DEF is_issuer
<1>6. CASE from = to
  <2>1. supply' = supply
    BY <1>6 DEF Exchange, transfer_maybe_with_issuer, Emitted
  <2> QED BY <1>3, <1>4, <1>6, <2>1 DEF Reaches
<1>7. CASE from # to /\ is_issuer(from)
  <2>1. supply' = supply + amount
    BY <1>7 DEF Exchange, transfer_maybe_with_issuer, Emitted
  <2>2. Reaches(from, -amount) = 0 /\ Reaches(to, amount) = amount
    BY <1>5, <1>7 DEF Reaches
  <2> QED BY <1>3, <1>4, <2>1, <2>2
<1>8. CASE from # to /\ ~is_issuer(from) /\ is_issuer(to)
  <2>1. supply' = supply - amount
    BY <1>8 DEF Exchange, transfer_maybe_with_issuer, Emitted
  <2>2. Reaches(from, -amount) = -amount /\ Reaches(to, amount) = 0
    BY <1>8 DEF Reaches
  <2> QED BY <1>3, <1>4, <2>1, <2>2
<1>9. CASE from # to /\ ~is_issuer(from) /\ ~is_issuer(to)
  <2>1. supply' = supply
    BY <1>9 DEF Exchange, transfer_maybe_with_issuer, Emitted
  <2>2. Reaches(from, -amount) = -amount /\ Reaches(to, amount) = amount
    BY <1>9 DEF Reaches
  <2> QED BY <1>3, <1>4, <2>1, <2>2
<1> QED BY <1>6, <1>7, <1>8, <1>9

(* A balance that moves and the event that tells of it.                    *)
LEMMA MoveSupply ==
    ASSUME Deployed, NEW a \in Addresses, NEW d \in Int, OneMove(a, d), ~is_issuer(a) \/ d = 0,
           supply = SumAmounts(entry, Holders), supply' = supply + d
    PROVE  supply' = SumAmounts(entry', Holders)
<1>1. SumAmounts(entry, Holders) \in Int
      /\ SumAmounts(entry', Holders) = SumAmounts(entry, Holders) + Reaches(a, d)
  BY MovedSum DEF OneMove
<1>2. Reaches(a, d) = d
  BY DEF Reaches
<1> QED BY <1>1, <1>2

(* The events account for the supply: whatever combination of transfers,   *)
(* issuer transfers, mints, burns and clawbacks is made, the balances of   *)
(* all holders add up to what mint, burn and clawback events say           *)
(* (event.rs: transfer_maybe_with_issuer; balance.rs on both sides).       *)
THEOREM EventsAccountForSupply == Spec => []SupplyMatchesEvents
<1>1. Init => SupplyMatchesEvents
  BY DEF Init, SupplyMatchesEvents
<1>2. ASSUME SacInv, SupplyMatchesEvents, [Next]_vars PROVE SupplyMatchesEvents'
  <2>1. Effect /\ world' = world
    BY <1>2, StepEffect DEF Rest
  <2>2. supply = SumAmounts(entry, Holders) /\ Holders' = Holders
    BY <1>2, <2>1 DEF SupplyMatchesEvents, Holders
  <2>3. supply' = SumAmounts(entry', Holders)
    <3>1. CASE Deployed /\ \E from, to \in Addresses, amount \in Nat : Exchange(from, to, amount)
      BY <2>2, <3>1, ExchangeSupply
    <3>2. CASE Deployed /\ \E a \in Addresses, amount \in Nat : Outgoing(a, amount) \/ Incoming(a, amount)
      <4>1. PICK a \in Addresses, amount \in Nat : Outgoing(a, amount) \/ Incoming(a, amount)
        BY <3>2
      <4>2. SumAmounts(entry, Holders) \in Int
        <5>1. IsFiniteSet(Holders) /\ Holders \subseteq Addresses
          BY SacAssumption, FS_Subset DEF Holders
        <5>2. \A x \in Holders : Held(entry, x) \in Int
          BY <1>2, <5>1, HeldInt DEF SacInv, EntryInv
        <5> QED BY <5>1, <5>2, SumChange
      <4>3. CASE Outgoing(a, amount)
        <5>1. OneMove(a, -amount) /\ ~is_issuer(a) /\ -amount \in Int /\ supply' = supply + (-amount)
          BY <4>2, <4>3, <2>2 DEF Outgoing
        <5> QED BY <2>2, <3>2, <5>1, MoveSupply
      <4>4. CASE Incoming(a, amount)
        <5>1. OneMove(a, amount) /\ ~is_issuer(a) /\ amount \in Int /\ supply' = supply + amount
          BY <4>4 DEF Incoming
        <5> QED BY <2>2, <3>2, <5>1, MoveSupply
      <4> QED BY <4>1, <4>3, <4>4
    <3>3. CASE Deployed /\ supply' = supply /\ \E a \in Addresses : OneMove(a, 0)
      <4>1. PICK a \in Addresses : OneMove(a, 0)
        BY <3>3
      <4>2. /\ SumAmounts(entry, Holders) \in Int
            /\ SumAmounts(entry', Holders) = SumAmounts(entry, Holders) + Reaches(a, 0)
        BY <3>3, <4>1, MovedSum DEF OneMove
      <4> QED BY <2>2, <3>3, <4>2, NothingReaches
    <3>4. CASE supply' = supply /\ entry' = entry
      BY <2>2, <3>4
    <3> QED BY <2>1, <3>1, <3>2, <3>3, <3>4 DEF Effect
  <2> QED BY <2>2, <2>3 DEF SupplyMatchesEvents
<1> QED BY <1>1, <1>2, SacInvariant, PTL DEF Spec

(* The balance of an address that is not authorized after a step.          *)
LEMMA FrozenKept ==
    ASSUME SacInv, Effect, instance.info # None, NEW a \in Holders, ~is_authorized(entry, a)
    PROVE  \/ Held(entry', a) = Held(entry, a)
           \/ \E amount \in Amounts : clawback(a, amount)
<1>0. a \in Addresses /\ Held(entry, a) \in Int
  BY HeldInt DEF Holders, SacInv, EntryInv
<1>1. CASE Deployed /\ \E from, to \in Addresses, amount \in Nat : Exchange(from, to, amount)
  <2>1. PICK from \in Addresses, to \in Addresses, amount \in Nat : TwoMoves(from, to, amount)
    BY <1>1 DEF Exchange
  <2>2. PICK spent : /\ Moved(entry, spent, from, Reaches(from, -amount))
                     /\ Moved(spent, entry', to, Reaches(to, amount))
                     /\ is_authorized(entry, from) /\ is_authorized(spent, to)
    BY <2>1 DEF TwoMoves
  <2>3. a # from /\ spent[a] = entry[a]
    BY <1>0, <2>2 DEF Moved
  <2>4. is_authorized(spent, a) <=> is_authorized(entry, a)
    BY <2>3 DEF is_authorized, is_account_authorized
  <2>5. a # to /\ entry'[a] = spent[a]
    BY <1>0, <2>2, <2>4 DEF Moved
  <2> QED BY <2>3, <2>5 DEF Held
<1>2. CASE Deployed /\ \E x \in Addresses, amount \in Nat : Outgoing(x, amount) \/ Incoming(x, amount)
  <2>1. PICK x \in Addresses, amount \in Nat : Outgoing(x, amount) \/ Incoming(x, amount)
    BY <1>2
  <2>2. CASE x = a
    BY <2>1, <2>2 DEF Outgoing, Incoming
  <2>3. CASE x # a
    <3>1. entry'[a] = entry[a]
      BY <1>0, <2>1, <2>3 DEF Outgoing, Incoming, OneMove, Moved
    <3> QED BY <3>1 DEF Held
  <2> QED BY <2>2, <2>3
<1>3. CASE Deployed /\ supply' = supply /\ \E x \in Addresses : OneMove(x, 0)
  <2>1. PICK x \in Addresses : OneMove(x, 0)
    BY <1>3
  <2>2. CASE x = a
    <3>1. Held(entry', a) = Held(entry, a) + Reaches(a, 0)
      BY <2>1, <2>2 DEF OneMove, Moved
    <3> QED BY <1>0, <3>1, NothingReaches
  <2>3. CASE x # a
    <3>1. entry'[a] = entry[a]
      BY <1>0, <2>1, <2>3 DEF OneMove, Moved
    <3> QED BY <3>1 DEF Held
  <2> QED BY <2>2, <2>3
<1>4. CASE supply' = supply /\ entry' = entry
  BY <1>4
<1> QED BY <1>1, <1>2, <1>3, <1>4 DEF Effect

(* While an address is not authorized - deauthorized, or never authorized  *)
(* under AUTH_REQUIRED - only a clawback changes its balance, whichever    *)
(* call it takes part in (is_authorized is checked in spend_balance and    *)
(* receive_balance and bypassed in clawback).                              *)
THEOREM FrozenBalances == Spec => FrozenOnlyClawedBack
<1> DEFINE Frozen ==
      \A a \in Holders :
        (instance.info # None /\ ~is_authorized(entry, a)) =>
            \/ SumAmounts(entry', {a}) = SumAmounts(entry, {a})
            \/ \E amount \in Amounts : clawback(a, amount)
<1>1. ASSUME SacInv, SacInv', [Next]_vars PROVE [Frozen]_vars
  <2>1. Effect
    BY <1>1, StepEffect
  <2>2. ASSUME NEW a \in Holders, instance.info # None, ~is_authorized(entry, a)
        PROVE  \/ SumAmounts(entry', {a}) = SumAmounts(entry, {a})
               \/ \E amount \in Amounts : clawback(a, amount)
    <3>1. \/ Held(entry', a) = Held(entry, a)
          \/ \E amount \in Amounts : clawback(a, amount)
      BY <1>1, <2>1, <2>2, FrozenKept
    <3>2. a \in Addresses
      BY DEF Holders
    <3>3. Held(entry, a) \in Int
      BY <1>1, <3>2, HeldInt DEF SacInv, EntryInv
    <3>4. EntriesOK(world', entry')
      BY <1>1 DEF SacInv, EntryInv
    <3>5. Held(entry', a) \in Int
      BY <3>2, <3>4, HeldInt
    <3>6. SumAmounts(entry, {a}) = Held(entry, a)
      BY <3>3, SumOne
    <3>7. SumAmounts(entry', {a}) = Held(entry', a)
      BY <3>5, SumOne
    <3> QED BY <3>1, <3>6, <3>7
  <2> QED BY <2>2
<1>2. SacInv /\ SacInv' /\ [Next]_vars => [Frozen]_vars
  BY <1>1
<1>3. Spec => [][Frozen]_vars
  <2> HIDE DEF Frozen
  <2> QED BY <1>2, SacInvariant, PTL DEF Spec
<1> QED BY <1>3 DEF FrozenOnlyClawedBack
=============================================================================
