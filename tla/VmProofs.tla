------------------------------ MODULE VmProofs ------------------------------
(***************************************************************************)
(* What holds of contracts on the budget for every network, every cost     *)
(* model, every limit and every sequence of host calls (Vm).               *)
(***************************************************************************)
EXTENDS Vm, FiniteSetTheorems, TLAPS, WellFoundedInduction

-----------------------------------------------------------------------------
(* Naturals and sequences.                                                 *)

(* A sequence, whatever its elements are.                                  *)
IsSeq(q) == q \in Seq({q[i] : i \in DOMAIN q})

(* A non-empty set of naturals has a least element: what inductions over   *)
(* data use, on the set of places where a claim would fail.                *)
LEMMA Least ==
    ASSUME NEW T, T \subseteq Nat, T # {}
    PROVE  \E n \in T : \A m \in T : n <= m
<1> DEFINE R == OpToRel(<, Nat)
<1>1. IsWellFoundedOn(R, Nat)
  BY NatLessThanWellFounded
<1> HIDE DEF R
<1>2. PICK x \in T : \A y \in T : ~(<<y, x>> \in R)
  BY <1>1, WFMin
<1>3. \A y \in T : ~(y < x)
  BY <1>2 DEF R, OpToRel
<1> QED BY <1>3

(* What appending an element leaves and adds.                              *)
LEMMA PushLast ==
    ASSUME NEW S, NEW q \in Seq(S), NEW e \in S
    PROVE  LET t == Append(q, e) IN
           /\ t \in Seq(S) /\ Len(t) = Len(q) + 1 /\ Len(q) \in Nat
           /\ \A i \in 1..Len(q) : t[i] = q[i]
           /\ t[Len(q) + 1] = e
  OBVIOUS

(* What replacing the last element leaves and changes.                     *)
LEMMA SetLast ==
    ASSUME NEW S, NEW q \in Seq(S), Len(q) > 0, NEW e \in S
    PROVE  LET t == [q EXCEPT ![Len(q)] = e] IN
           /\ t \in Seq(S) /\ Len(t) = Len(q) /\ Len(q) \in Nat
           /\ \A i \in 1..Len(q) : i # Len(q) => t[i] = q[i]
           /\ t[Len(q)] = e
  OBVIOUS

(* What removing the last element leaves.                                  *)
LEMMA DropLast ==
    ASSUME NEW S, NEW q \in Seq(S), Len(q) > 0
    PROVE  LET t == SubSeq(q, 1, Len(q) - 1) IN
           /\ t \in Seq(S) /\ Len(t) = Len(q) - 1 /\ Len(q) \in Nat
           /\ \A i \in 1..Len(t) : t[i] = q[i]
           /\ q[Len(q)] \in S
<1>1. Len(q) \in Nat /\ Len(q) \in 1..Len(q) /\ q[Len(q)] \in S
  OBVIOUS
<1>2. CASE Len(q) = 1
  BY <1>2
<1>3. CASE Len(q) > 1
  BY <1>3
<1>4. Len(q) = 1 \/ Len(q) > 1
  BY <1>1
<1> QED BY <1>2, <1>3, <1>4, Zenon

(* A sequence over some set is a sequence of its own elements.             *)
LEMMA SeqIsSeq ==
    ASSUME NEW S, NEW q \in Seq(S)
    PROVE  IsSeq(q)
<1>1. Len(q) \in Nat /\ DOMAIN q = 1..Len(q) /\ q = [i \in 1..Len(q) |-> q[i]]
  OBVIOUS
<1> DEFINE E == {q[i] : i \in DOMAIN q}
<1>2. \A i \in 1..Len(q) : q[i] \in E
  BY <1>1
<1> HIDE DEF E
<1>3. [i \in 1..Len(q) |-> q[i]] \in Seq(E)
  BY <1>1, <1>2
<1>4. q \in Seq(E)
  BY <1>1, <1>3
<1> QED BY <1>4 DEF IsSeq, E

(* The empty sequence.                                                     *)
LEMMA NullSeq ==
    ASSUME NEW q, q = <<>>
    PROVE  IsSeq(q) /\ Len(q) = 0 /\ 1..Len(q) = {}
<1>1. q \in Seq({})
  OBVIOUS
<1>2. IsSeq(q)
  BY <1>1, SeqIsSeq
<1>3. Len(q) = 0
  OBVIOUS
<1>4. 1..0 = {}
  OBVIOUS
<1> QED BY <1>2, <1>3, <1>4

(* Appending to a sequence.                                                *)
LEMMA SeqPush ==
    ASSUME NEW q, IsSeq(q), NEW e
    PROVE  LET t == Append(q, e) IN
           /\ IsSeq(t) /\ Len(t) = Len(q) + 1 /\ Len(q) \in Nat
           /\ \A i \in 1..Len(q) : t[i] = q[i]
           /\ t[Len(q) + 1] = e
<1> DEFINE E == {q[i] : i \in DOMAIN q} \union {e}
           t == Append(q, e)
<1>1. q \in Seq({q[i] : i \in DOMAIN q})
  BY DEF IsSeq
<1>2. q \in Seq(E)
  <2> DEFINE D == {q[i] : i \in DOMAIN q}
  <2>1. q \in Seq(D) /\ D \subseteq E
    BY <1>1
  <2> HIDE DEF D, E
  <2> QED BY <2>1
<1>3. e \in E
  OBVIOUS
<1> HIDE DEF E
<1>4. /\ t \in Seq(E) /\ Len(t) = Len(q) + 1 /\ Len(q) \in Nat
      /\ \A i \in 1..Len(q) : t[i] = q[i]
      /\ t[Len(q) + 1] = e
  BY <1>2, <1>3, PushLast
<1> QED BY <1>4, SeqIsSeq

-----------------------------------------------------------------------------
(* The budget.                                                             *)

IsBudget(b) == b \in [cpu : Dimensions, mem : Dimensions, shadow : BOOLEAN, insns : Nat]

(* The cost models of a network.                                           *)
IsModel(p) == IsCostModel(p.cpu) /\ IsCostModel(p.mem)

(* From b to c nothing but the totals changes; in shadow mode only the     *)
(* shadow ones do.                                                         *)
Spends(b, c) ==
    /\ IsBudget(b) /\ IsBudget(c)
    /\ c.shadow = b.shadow /\ c.insns = b.insns
    /\ c.cpu.limit = b.cpu.limit /\ c.cpu.total >= b.cpu.total
    /\ b.shadow => c.cpu.total = b.cpu.total

WithinCpu(b) == b.cpu.total <= b.cpu.limit

(* A charge that gives an input if and only if its type takes one.         *)
WellFormed(ty, iterations, input) ==
    /\ ty \in ContractCostType /\ iterations \in Nat
    /\ \/ input \in Nat /\ TakesInput(ty)
       \/ input = NoInput /\ ~TakesInput(ty)

(* A saturated amount is a u64.                                            *)
LEMMA SatType ==
    ASSUME NEW n \in Nat
    PROVE  Sat(n) \in 0..U64Max /\ Sat(n) \in Nat
  BY BudgetAssumption DEF Sat

(* A cost model evaluates to a natural number, with or without an input.   *)
LEMMA EvaluateType ==
    ASSUME NEW model \in Nat \X Nat, NEW iterations \in Nat, NEW input \in Nat \cup {NoInput}
    PROVE  evaluate(model, iterations, input) \in Nat
<1> DEFINE const == Sat(model[1] * iterations)
<1>1. model[1] * iterations \in Nat
  OBVIOUS
<1>2. const \in Nat
  BY <1>1, SatType
<1> HIDE DEF const
<1>3. CASE input = NoInput
  BY <1>2, <1>3 DEF evaluate, const
<1>4. CASE input # NoInput
  <2> DEFINE lin == Sat(model[2] * input)
             all == Sat(lin * iterations)
  <2>1. model[2] * input \in Nat
    BY <1>4
  <2>2. lin \in Nat
    BY <2>1, SatType
  <2> HIDE DEF lin
  <2>3. lin * iterations \in Nat
    BY <2>2
  <2>4. all \in Nat
    BY <2>3, SatType
  <2>5. evaluate(model, iterations, input) = Sat(const + all \div LinScale)
    BY <1>4 DEF evaluate, const, lin
  <2> HIDE DEF all
  <2>6. const + all \div LinScale \in Nat
    BY <1>2, <2>4 DEF LinScale
  <2> QED BY <2>5, <2>6, SatType
<1> QED BY <1>3, <1>4

(* Charging a dimension keeps its limit, never lowers its total, and a     *)
(* shadow charge leaves the total alone.                                   *)
LEMMA AddType ==
    ASSUME NEW d \in Dimensions, NEW amount \in Nat, NEW shadow \in BOOLEAN,
           NEW e, e = Add(d, amount, shadow)
    PROVE  /\ e \in Dimensions /\ e.limit = d.limit
           /\ shadow => e.total = d.total
           /\ e.total >= d.total
<1>1. CASE shadow
  <2>1. d.shadow_total + amount \in Nat
    BY DEF Dimensions
  <2>2. Sat(d.shadow_total + amount) \in 0..U64Max
    BY <2>1, SatType
  <2>3. e = [d EXCEPT !.shadow_total = Sat(d.shadow_total + amount)]
    BY <1>1 DEF Add
  <2>4. d.total \in Int
    BY DEF Dimensions
  <2> QED BY <2>2, <2>3, <2>4 DEF Dimensions
<1>2. CASE ~shadow
  <2>0. d.total \in Nat /\ d.total <= U64Max /\ U64Max \in Nat
    BY BudgetAssumption DEF Dimensions
  <2>1. d.total + amount \in Nat
    BY <2>0
  <2>2. Sat(d.total + amount) \in 0..U64Max /\ Sat(d.total + amount) >= d.total
    BY <2>0, <2>1 DEF Sat
  <2>3. e = [d EXCEPT !.total = Sat(d.total + amount)]
    BY <1>2 DEF Add
  <2> QED BY <1>2, <2>2, <2>3 DEF Dimensions
<1> QED BY <1>1, <1>2

(* What a charge changes.                                                  *)
LEMMA ChargeSpends ==
    ASSUME NEW p, IsModel(p), NEW b, IsBudget(b), NEW ty, NEW iterations, NEW input,
           WellFormed(ty, iterations, input), NEW r, r = charge(p, b, ty, iterations, input)
    PROVE  /\ r.err \in {"Ok", "ExceededLimit"}
           /\ IsBudget(r.b)
           /\ r.b.insns = IF b.shadow \/ ty # "WasmInsnExec" THEN b.insns ELSE b.insns + iterations
           /\ r.b.shadow = b.shadow /\ r.b.cpu.limit = b.cpu.limit
           /\ r.b.cpu.total >= b.cpu.total
           /\ b.shadow => r.b.cpu.total = b.cpu.total
           /\ r.err = "Ok" /\ ~b.shadow => WithinCpu(r.b)
<1> DEFINE tracked == IF b.shadow \/ ty # "WasmInsnExec" THEN b
                      ELSE [b EXCEPT !.insns = b.insns + iterations]
           cpu == Add(b.cpu, evaluate(p.cpu[ty], iterations, input), b.shadow)
           mem == Add(b.mem, evaluate(p.mem[ty], iterations, input), b.shadow)
<1>1. p.cpu[ty] \in Nat \X Nat /\ p.mem[ty] \in Nat \X Nat
      /\ iterations \in Nat /\ input \in Nat \cup {NoInput}
  BY DEF IsModel, IsCostModel, WellFormed
<1>2. evaluate(p.cpu[ty], iterations, input) \in Nat /\ evaluate(p.mem[ty], iterations, input) \in Nat
  BY <1>1, EvaluateType
<1>3. b.cpu \in Dimensions /\ b.mem \in Dimensions /\ b.shadow \in BOOLEAN /\ b.insns \in Nat
      /\ b.cpu.total \in Int
  BY DEF IsBudget, Dimensions
<1>4. cpu \in Dimensions /\ cpu.limit = b.cpu.limit /\ (b.shadow => cpu.total = b.cpu.total)
      /\ cpu.total >= b.cpu.total
  BY <1>2, <1>3, AddType
<1>5. mem \in Dimensions
  BY <1>2, <1>3, AddType
<1>6. tracked \in [cpu : Dimensions, mem : Dimensions, shadow : BOOLEAN, insns : Nat]
      /\ tracked.shadow = b.shadow /\ tracked.cpu = b.cpu
      /\ tracked.insns = IF b.shadow \/ ty # "WasmInsnExec" THEN b.insns ELSE b.insns + iterations
  <2>1. b.insns + iterations \in Nat
    BY <1>1, <1>3
  <2> QED BY <1>3, <2>1 DEF IsBudget
<1>7. (input = NoInput) # TakesInput(ty)
  <2>1. NoInput \notin Nat
    BY DEF NoInput
  <2> QED BY <2>1 DEF WellFormed, TakesInput
<1>8. r = IF OverLimit(cpu, b.shadow)
          THEN [b |-> [tracked EXCEPT !.cpu = cpu], err |-> "ExceededLimit"]
          ELSE [b |-> [tracked EXCEPT !.cpu = cpu, !.mem = mem],
                err |-> IF OverLimit(mem, b.shadow) THEN "ExceededLimit" ELSE "Ok"]
  BY <1>7 DEF charge
<1> HIDE DEF tracked, cpu, mem
<1>9. CASE OverLimit(cpu, b.shadow)
  <2>1. r.b = [tracked EXCEPT !.cpu = cpu] /\ r.err = "ExceededLimit"
    BY <1>8, <1>9
  <2> QED BY <2>1, <1>4, <1>5, <1>6 DEF IsBudget
<1>10. CASE ~OverLimit(cpu, b.shadow)
  <2>1. r.b = [[tracked EXCEPT !.cpu = cpu] EXCEPT !.mem = mem] /\ r.err \in {"Ok", "ExceededLimit"}
    BY <1>8, <1>10
  <2>2. IsBudget(r.b) /\ r.b.cpu = cpu /\ r.b.shadow = tracked.shadow /\ r.b.insns = tracked.insns
    BY <2>1, <1>4, <1>5, <1>6 DEF IsBudget
  <2>3. ~b.shadow => cpu.total <= cpu.limit
    BY <1>4, <1>10 DEF OverLimit, Dimensions
  <2> QED BY <2>1, <2>2, <2>3, <1>4, <1>6 DEF WithinCpu
<1> QED BY <1>9, <1>10

-----------------------------------------------------------------------------
(* Charges joined by `?`.                                                  *)

(* A sequence of charges other than of instructions.                       *)
Charges(q) ==
    /\ Len(q) \in Nat /\ DOMAIN q = 1..Len(q)
    /\ \A i \in 1..Len(q) : WellFormed(q[i][1], q[i][2], q[i][3]) /\ q[i][1] # "WasmInsnExec"

Then(p, r, c) == IF r.err # "Ok" THEN r ELSE charge(p, r.b, c[1], c[2], c[3])

(* f holds the results of the first charges, one after the other.          *)
Runs(p, b, q, f, n) ==
    f = [i \in 0..n |-> IF i = 0 THEN [b |-> b, err |-> "Ok"] ELSE Then(p, f[i - 1], q[i])]

(* The sequence of results of the first n charges exists.                  *)
LEMMA RunsExist ==
    ASSUME NEW p, NEW b, NEW q, NEW n \in Nat
    PROVE  \E f : Runs(p, b, q, f, n)
<1> DEFINE T == {m \in Nat : ~\E f : Runs(p, b, q, f, m)}
<1> SUFFICES ASSUME T # {} PROVE FALSE
  OBVIOUS
<1>1. PICK m \in T : \A k \in T : m <= k
  BY Least
<1>2. CASE m = 0
  <2>1. Runs(p, b, q, [i \in 0..0 |-> [b |-> b, err |-> "Ok"]], 0)
    BY DEF Runs
  <2> QED BY <1>2, <2>1
<1>3. CASE m > 0
  <2>1. m - 1 \in Nat /\ m - 1 \notin T
    BY <1>1, <1>3
  <2>2. PICK f : Runs(p, b, q, f, m - 1)
    BY <2>1
  <2> DEFINE g == [i \in 0..m |-> IF i = 0 THEN [b |-> b, err |-> "Ok"] ELSE Then(p, f[i - 1], q[i])]
  <2>3. \A i \in 0..(m - 1) : i \in 0..m /\ g[i] = f[i]
    BY <2>2, <1>3 DEF Runs
  <2>4. \A i \in 0..m : i # 0 => g[i - 1] = f[i - 1]
    <3> HIDE DEF g
    <3>1. \A i \in 0..m : i # 0 => i - 1 \in 0..(m - 1)
      BY <1>3
    <3> QED BY <2>3, <3>1
  <2>5. Runs(p, b, q, g, m)
    BY <2>4 DEF Runs
  <2> QED BY <2>5
<1> QED BY <1>1, <1>2, <1>3

(* What a sequence of charges changes.                                     *)
LEMMA ChargesSpend ==
    ASSUME NEW p, IsModel(p), NEW b, IsBudget(b), NEW q, Charges(q),
           NEW r, r = charge_all(p, b, q)
    PROVE  /\ r.err \in {"Ok", "ExceededLimit"} /\ Spends(b, r.b)
           /\ r.err = "Ok" /\ ~b.shadow /\ WithinCpu(b) => WithinCpu(r.b)
<1> DEFINE n == Len(q)
           F == CHOOSE f : Runs(p, b, q, f, n)
<1>1. n \in Nat
  BY DEF Charges
<1>2. Runs(p, b, q, F, n)
  BY <1>1, RunsExist
<1>3. r = F[n]
  BY DEF charge_all, Runs, Then
<1> HIDE DEF F
<1> DEFINE Good(x) == /\ x.err \in {"Ok", "ExceededLimit"} /\ Spends(b, x.b)
                      /\ x.err = "Ok" /\ ~b.shadow /\ WithinCpu(b) => WithinCpu(x.b)
           T == {i \in 0..n : ~Good(F[i])}
<1>4. ASSUME T # {} PROVE FALSE
  <2>1. T \subseteq Nat
    BY <1>1
  <2>2. PICK m \in T : \A k \in T : m <= k
    BY <1>4, <2>1, Least
  <2>3. CASE m = 0
    <3>1. F[m] = [b |-> b, err |-> "Ok"]
      BY <1>1, <1>2, <2>3 DEF Runs
    <3>2. Spends(b, b)
      <4>1. b.cpu.total \in Int
        BY DEF IsBudget, Dimensions
      <4> QED BY <4>1 DEF Spends
    <3>3. Good(F[m])
      BY <3>1, <3>2
    <3> QED BY <3>3
  <2>4. CASE m # 0
    <3>1. m - 1 \in 0..n /\ m \in 1..n /\ m - 1 \notin T
      BY <1>1, <2>2, <2>4
    <3>2. Good(F[m - 1])
      BY <3>1
    <3>3. F[m] = Then(p, F[m - 1], q[m])
      BY <1>2, <2>4 DEF Runs
    <3>4. CASE F[m - 1].err # "Ok"
      BY <3>2, <3>3, <3>4 DEF Then
    <3>5. CASE F[m - 1].err = "Ok"
      <4> DEFINE x == F[m - 1]
                 y == F[m]
      <4>1. y = charge(p, x.b, q[m][1], q[m][2], q[m][3])
        BY <3>3, <3>5 DEF Then
      <4>2. WellFormed(q[m][1], q[m][2], q[m][3]) /\ q[m][1] # "WasmInsnExec"
        BY <3>1 DEF Charges
      <4>3. IsBudget(x.b)
        BY <3>2 DEF Spends
      <4> HIDE DEF x, y
      <4>4. /\ y.err \in {"Ok", "ExceededLimit"}
            /\ IsBudget(y.b)
            /\ y.b.insns = x.b.insns
            /\ y.b.shadow = x.b.shadow /\ y.b.cpu.limit = x.b.cpu.limit
            /\ y.b.cpu.total >= x.b.cpu.total
            /\ x.b.shadow => y.b.cpu.total = x.b.cpu.total
            /\ y.err = "Ok" /\ ~x.b.shadow => WithinCpu(y.b)
        BY <4>1, <4>2, <4>3, ChargeSpends
      <4>5. Spends(b, x.b)
        BY <3>2 DEF x
      <4>6. b.cpu.total \in Int /\ x.b.cpu.total \in Int /\ y.b.cpu.total \in Int
        <5>1. \A z : IsBudget(z) => z.cpu.total \in Int
          BY DEF IsBudget, Dimensions
        <5> QED BY <4>3, <4>4, <5>1
      <4>7. Spends(b, y.b)
        BY <4>4, <4>5, <4>6 DEF Spends
      <4>8. y.err = "Ok" /\ ~b.shadow => WithinCpu(y.b)
        BY <4>4, <4>5 DEF Spends
      <4>9. Good(y)
        BY <4>4, <4>7, <4>8
      <4> QED BY <4>9 DEF y
    <3> QED BY <3>4, <3>5
  <2> QED BY <2>3, <2>4
<1>5. Good(F[n])
  BY <1>1, <1>4
<1> QED BY <1>3, <1>5

(* In shadow mode only the shadow totals change, and the mode comes back.  *)
LEMMA ShadowSpends ==
    ASSUME NEW p, IsModel(p), NEW b, IsBudget(b), NEW q, Charges(q),
           NEW r, r = with_observable_shadow_mode(p, b, q)
    PROVE  /\ r.err \in {"Ok", "ExceededLimit"} /\ Spends(b, r.b)
           /\ r.b.cpu.total = b.cpu.total
<1> DEFINE in == [b EXCEPT !.shadow = TRUE]
           s == IF OverLimit(b.cpu, TRUE) \/ OverLimit(b.mem, TRUE)
                THEN [b |-> in, err |-> "ExceededLimit"]
                ELSE charge_all(p, in, q)
<1>1. IsBudget(in) /\ in.shadow /\ in.cpu = b.cpu /\ in.insns = b.insns
  BY DEF IsBudget
<1>2. r = [b |-> [s.b EXCEPT !.shadow = b.shadow], err |-> s.err]
  BY DEF with_observable_shadow_mode
<1>3. s.err \in {"Ok", "ExceededLimit"} /\ Spends(in, s.b)
  <2> DEFINE c == charge_all(p, in, q)
  <2>1. in.cpu.total \in Int
    BY <1>1 DEF IsBudget, Dimensions
  <2>2. Spends(in, in)
    BY <1>1, <2>1 DEF Spends
  <2> HIDE DEF in
  <2>3. c.err \in {"Ok", "ExceededLimit"} /\ Spends(in, c.b)
    BY <1>1, ChargesSpend
  <2> HIDE DEF c
  <2> QED BY <2>2, <2>3 DEF c
<1> HIDE DEF s, in
<1>4. r.err = s.err /\ r.b = [s.b EXCEPT !.shadow = b.shadow]
  BY <1>2
<1>5. IsBudget(r.b) /\ r.b.shadow = b.shadow /\ r.b.insns = s.b.insns /\ r.b.cpu = s.b.cpu
  BY <1>3, <1>4 DEF Spends, IsBudget
<1>6. b.cpu.total \in Int
  BY DEF IsBudget, Dimensions
<1> QED BY <1>1, <1>3, <1>4, <1>5, <1>6 DEF Spends

(* Growing the memory of a VM is a charge.                                 *)
LEMMA GrowthSpends ==
    ASSUME NEW p, IsModel(p), NEW b, IsBudget(b), ~b.shadow, WithinCpu(b), NEW delta \in Nat, NEW fits,
           WellFormed("MemAlloc", 1, delta), NEW r, r = memory_growing(p, b, delta, fits)
    PROVE  /\ r.err \in {"Ok", "ExceededLimit"} /\ Spends(b, r.b)
           /\ r.err = "Ok" => WithinCpu(r.b)
<1>1. b.cpu.total \in Int
  BY DEF IsBudget, Dimensions
<1>2. Spends(b, b)
  BY <1>1 DEF Spends
<1>3. CASE r = [b |-> b, err |-> "ExceededLimit"]
  BY <1>2, <1>3
<1>4. CASE r # [b |-> b, err |-> "ExceededLimit"]
  <2> DEFINE c == charge(p, b, "MemAlloc", 1, delta)
  <2>1. r = [c EXCEPT !.err = IF c.err = "Ok" THEN "Ok" ELSE "ExceededLimit"]
    BY <1>4 DEF memory_growing
  <2>2. /\ c.err \in {"Ok", "ExceededLimit"}
        /\ IsBudget(c.b)
        /\ c.b.insns = b.insns
        /\ c.b.shadow = b.shadow /\ c.b.cpu.limit = b.cpu.limit
        /\ c.b.cpu.total >= b.cpu.total
        /\ b.shadow => c.b.cpu.total = b.cpu.total
        /\ c.err = "Ok" /\ ~b.shadow => WithinCpu(c.b)
    BY ChargeSpends
  <2>3. r.b = c.b /\ r.err = c.err
    <3>1. \E x, e : c = [b |-> x, err |-> e]
      BY DEF charge
    <3> QED BY <2>1, <2>2, <3>1
  <2> HIDE DEF c
  <2> QED BY <2>2, <2>3 DEF Spends
<1> QED BY <1>3, <1>4

-----------------------------------------------------------------------------
(* The cost types in use.                                                  *)

(* Every cost type that the host functions of this module charge has a     *)
(* cost model.                                                             *)
LEMMA TypesInUse ==
    /\ {"WasmInsnExec", "MemAlloc", "MemCpy", "DispatchHostFunction", "VisitObject",
        "VmInstantiation", "VmCachedInstantiation", "InvokeVmFunction"} \subseteq ContractCostType
    /\ \A i \in 1..10 : ParseCosts[i] \in ContractCostType /\ InstantiateCosts[i] \in ContractCostType
<1>1. DOMAIN HostCpu \subseteq ContractCostType /\ DOMAIN WasmCpu \subseteq ContractCostType
  BY DEF ContractCostType
<1>2. {"WasmInsnExec", "MemAlloc", "MemCpy", "DispatchHostFunction", "VisitObject",
       "VmInstantiation", "VmCachedInstantiation", "InvokeVmFunction"} \subseteq DOMAIN HostCpu
  BY DEF HostCpu
<1>3. \A i \in 1..10 : ParseCosts[i] \in DOMAIN WasmCpu
  BY DEF WasmCpu, ParseCosts
<1>4. \A i \in 1..10 : InstantiateCosts[i] \in DOMAIN WasmCpu
  BY DEF WasmCpu, InstantiateCosts
<1> QED BY <1>1, <1>2, <1>3, <1>4

(* Which of them take an input.                                            *)
LEMMA InputsOfTypes ==
    /\ \A ty \in {"WasmInsnExec", "DispatchHostFunction", "VisitObject", "InvokeVmFunction"} :
          ~TakesInput(ty)
    /\ \A ty \in {"MemAlloc", "MemCpy", "VmInstantiation", "VmCachedInstantiation"} : TakesInput(ty)
    /\ \A i \in 1..10 : TakesInput(ParseCosts[i])
    /\ \A i \in 1..10 : TakesInput(InstantiateCosts[i]) <=>
          InstantiateCosts[i] \notin {"InstantiateWasmInstructions", "InstantiateWasmTypes"}
<1>1. \A ty \in {"WasmInsnExec", "DispatchHostFunction", "VisitObject", "InvokeVmFunction"} :
          ~TakesInput(ty)
  BY DEF TakesInput, ConstantTypes
<1>2. \A ty \in {"MemAlloc", "MemCpy", "VmInstantiation", "VmCachedInstantiation"} : TakesInput(ty)
  BY DEF TakesInput, ConstantTypes
<1>3. \A i \in 1..10 : TakesInput(ParseCosts[i])
  BY DEF TakesInput, ConstantTypes, ParseCosts
<1>4. \A i \in 1..10 : TakesInput(InstantiateCosts[i]) <=>
          InstantiateCosts[i] \notin {"InstantiateWasmInstructions", "InstantiateWasmTypes"}
  BY DEF TakesInput, ConstantTypes, InstantiateCosts
<1> QED BY <1>1, <1>2, <1>3, <1>4

(* A single charge of a type without an input is well formed.              *)
LEMMA ConstantCharge ==
    ASSUME NEW ty \in {"DispatchHostFunction", "VisitObject", "InvokeVmFunction"}
    PROVE  Charges(<<<<ty, 1, NoInput>>>>)
<1>1. WellFormed(ty, 1, NoInput) /\ ty # "WasmInsnExec"
  BY TypesInUse, InputsOfTypes DEF WellFormed
<1> DEFINE q == <<<<ty, 1, NoInput>>>>
<1>2. Len(q) = 1 /\ DOMAIN q = 1..1 /\ q[1] = <<ty, 1, NoInput>>
  OBVIOUS
<1>3. q[1][1] = ty /\ q[1][2] = 1 /\ q[1][3] = NoInput
  BY <1>2
<1> HIDE DEF q
<1>4. \A i \in 1..1 : i = 1
  OBVIOUS
<1>5. Charges(q)
  BY <1>1, <1>2, <1>3, <1>4 DEF Charges
<1> QED BY <1>5 DEF q

(* A single charge of a type with an input is well formed for every input. *)
LEMMA LinearCharge ==
    ASSUME NEW ty \in {"MemAlloc", "MemCpy", "VmInstantiation", "VmCachedInstantiation"}, NEW n \in Nat
    PROVE  WellFormed(ty, 1, n) /\ Charges(<<<<ty, 1, n>>>>)
<1>1. WellFormed(ty, 1, n) /\ ty # "WasmInsnExec"
  BY TypesInUse, InputsOfTypes DEF WellFormed
<1> DEFINE q == <<<<ty, 1, n>>>>
<1>2. Len(q) = 1 /\ DOMAIN q = 1..1 /\ q[1] = <<ty, 1, n>>
  OBVIOUS
<1>3. q[1][1] = ty /\ q[1][2] = 1 /\ q[1][3] = n
  BY <1>2
<1> HIDE DEF q
<1>4. \A i \in 1..1 : i = 1
  OBVIOUS
<1>5. Charges(q)
  BY <1>1, <1>2, <1>3, <1>4 DEF Charges
<1> QED BY <1>1, <1>5 DEF q

(* Charges one after the other are charges.                                *)
LEMMA ChargesJoined ==
    ASSUME NEW q, NEW r, Charges(q), Charges(r), NEW S, q \in Seq(S), r \in Seq(S)
    PROVE  Charges(q \o r)
<1>1. Len(q \o r) = Len(q) + Len(r) /\ Len(q) \in Nat /\ Len(r) \in Nat
      /\ DOMAIN (q \o r) = 1..(Len(q) + Len(r))
  OBVIOUS
<1>2. \A i \in 1..(Len(q) + Len(r)) : (q \o r)[i] = IF i <= Len(q) THEN q[i] ELSE r[i - Len(q)]
  OBVIOUS
<1>3. ASSUME NEW i \in 1..(Len(q) + Len(r))
      PROVE  WellFormed((q \o r)[i][1], (q \o r)[i][2], (q \o r)[i][3]) /\ (q \o r)[i][1] # "WasmInsnExec"
  <2>1. CASE i <= Len(q)
    <3>1. i \in 1..Len(q) /\ (q \o r)[i] = q[i]
      BY <1>1, <1>2, <2>1
    <3> QED BY <3>1 DEF Charges
  <2>2. CASE ~(i <= Len(q))
    <3>1. i - Len(q) \in 1..Len(r) /\ (q \o r)[i] = r[i - Len(q)]
      BY <1>1, <1>2, <2>2
    <3> QED BY <3>1 DEF Charges
  <2> QED BY <2>1, <2>2
<1>4. Len(q \o r) \in Nat
  BY <1>1
<1> QED BY <1>1, <1>3, <1>4 DEF Charges

Triple == ContractCostType \X Nat \X Int

(* A single charge is a sequence of charges.                               *)
LEMMA TripleSeq ==
    ASSUME NEW ty \in ContractCostType, NEW n \in Int
    PROVE  <<<<ty, 1, n>>>> \in Seq(Triple)
<1>1. <<ty, 1, n>> \in Triple
  BY DEF Triple
<1> QED BY <1>1

(* The charges of a bulk initialisation are well formed.                   *)
LEMMA BulkCharges ==
    ASSUME NEW n \in Nat
    PROVE  Charges(bulk_init_cpy(n)) /\ bulk_init_cpy(n) \in Seq(Triple)
<1> DEFINE a == <<<<"MemCpy", 1, 1>>>>
           b == <<<<"MemAlloc", 1, n>>>>
           c == <<<<"MemCpy", 1, n>>>>
<1>1. Charges(a) /\ Charges(b) /\ Charges(c)
  BY LinearCharge
<1>2. a \in Seq(Triple) /\ b \in Seq(Triple) /\ c \in Seq(Triple)
  <2>1. "MemCpy" \in ContractCostType /\ "MemAlloc" \in ContractCostType /\ n \in Int /\ 1 \in Int
    BY TypesInUse
  <2> QED BY <2>1, TripleSeq
<1>3. bulk_init_cpy(n) = (a \o b) \o c
  BY DEF bulk_init_cpy
<1> HIDE DEF a, b, c
<1>4. Charges(a \o b) /\ a \o b \in Seq(Triple)
  BY <1>1, <1>2, ChargesJoined
<1>5. Charges((a \o b) \o c) /\ (a \o b) \o c \in Seq(Triple)
  <2> DEFINE d == a \o b
  <2>1. Charges(d) /\ d \in Seq(Triple)
    BY <1>4
  <2> HIDE DEF d
  <2>2. Charges(d \o c)
    BY <1>1, <1>2, <2>1, ChargesJoined
  <2>3. d \o c \in Seq(Triple)
    BY <1>2, <2>1
  <2> QED BY <2>2, <2>3 DEF d
<1> QED BY <1>3, <1>5

(* The inputs of a Wasm, refined or not.                                   *)
LEMMA ParsingCharges ==
    ASSUME NEW w, IsWasm(w), NEW inputs \in {V0(w), V1(w)}
    PROVE  /\ Charges(charge_for_parsing(inputs)) /\ charge_for_parsing(inputs) \in Seq(Triple)
           /\ Charges(charge_for_instantiation(inputs))
<1>1. CASE inputs = V0(w)
  <2>1. ~inputs.v1 /\ inputs.bytes = w.bytes /\ w.bytes \in Nat
    BY <1>1 DEF V0, IsWasm
  <2>2. charge_for_parsing(inputs) = <<<<"VmInstantiation", 1, w.bytes>>>>
        /\ charge_for_instantiation(inputs) = <<<<"VmCachedInstantiation", 1, w.bytes>>>>
    BY <2>1 DEF charge_for_parsing, charge_for_instantiation
  <2>3. "VmInstantiation" \in ContractCostType /\ w.bytes \in Int
    BY <2>1, TypesInUse
  <2>4. <<<<"VmInstantiation", 1, w.bytes>>>> \in Seq(Triple)
    BY <2>3, TripleSeq
  <2>5. Charges(<<<<"VmInstantiation", 1, w.bytes>>>>) /\ Charges(<<<<"VmCachedInstantiation", 1, w.bytes>>>>)
    BY <2>1, LinearCharge
  <2> QED BY <2>2, <2>4, <2>5
<1>2. CASE inputs = V1(w)
  <2>1. inputs.v1 /\ inputs.n = w.n /\ \A i \in 1..10 : w.n[i] \in Nat
    BY <1>2 DEF V1, IsWasm
  <2> DEFINE q == charge_for_parsing(inputs)
             r == charge_for_instantiation(inputs)
             in(i) == IF InstantiateCosts[i] \in {"InstantiateWasmInstructions", "InstantiateWasmTypes"}
                      THEN NoInput ELSE w.n[i]
  <2>2. q = [i \in 1..10 |-> <<ParseCosts[i], 1, w.n[i]>>]
    BY <2>1 DEF charge_for_parsing
  <2>3. r = [i \in 1..10 |-> <<InstantiateCosts[i], 1, in(i)>>]
    BY <2>1 DEF charge_for_instantiation
  <2>4. \A i \in 1..10 : ParseCosts[i] # "WasmInsnExec"
    BY DEF ParseCosts
  <2>5. \A i \in 1..10 : InstantiateCosts[i] # "WasmInsnExec"
    BY DEF InstantiateCosts
  <2>6. \A i \in 1..10 : WellFormed(ParseCosts[i], 1, w.n[i])
    BY <2>1, TypesInUse, InputsOfTypes DEF WellFormed
  <2>7. \A i \in 1..10 : WellFormed(InstantiateCosts[i], 1, in(i))
    BY <2>1, TypesInUse, InputsOfTypes DEF WellFormed
  <2> HIDE DEF q, r, in
  <2>8. Len(q) = 10 /\ DOMAIN q = 1..10 /\ \A i \in 1..10 : q[i] = <<ParseCosts[i], 1, w.n[i]>>
    BY <2>2
  <2>9. Len(r) = 10 /\ DOMAIN r = 1..10 /\ \A i \in 1..10 : r[i] = <<InstantiateCosts[i], 1, in(i)>>
    BY <2>3
  <2>10. Charges(q)
    BY <2>4, <2>6, <2>8 DEF Charges
  <2>11. Charges(r)
    BY <2>5, <2>7, <2>9 DEF Charges
  <2>12. q \in Seq(Triple)
    <3>1. \A i \in 1..10 : <<ParseCosts[i], 1, w.n[i]>> \in Triple
      BY <2>1, TypesInUse DEF Triple
    <3> QED BY <2>2, <3>1
  <2> QED BY <2>10, <2>11, <2>12 DEF q, r
<1> QED BY <1>1, <1>2

-----------------------------------------------------------------------------
(* Objects.                                                                *)

(* The absolute value of an object the host has.                           *)
IsObj(os, v) ==
    /\ v \in [tag : Tags, handle : Nat]
    /\ ~is_relative_object_handle(v.handle)
    /\ handle_to_index(v.handle) < Len(os)
    /\ os[handle_to_index(v.handle) + 1].tag = v.tag

(* An object contains values that were there before it.                    *)
ObjectsOK(os) ==
    /\ IsSeq(os)
    /\ \A i \in 1..Len(os) :
        /\ os[i].tag \in Tags
        /\ os[i].tag = "Vec" => 1 \in DOMAIN os[i].kids
        /\ \A j \in DOMAIN os[i].kids :
              os[i].kids[j] = Small
              \/ (IsObj(os, os[i].kids[j]) /\ handle_to_index(os[i].kids[j].handle) < i - 1)

(* A set of objects with all they contain.                                 *)
Closed(os, K) == \A v \in K : IsObj(os, v) /\ Kids(os, v) \subseteq K \cup {Small}

(* f holds what is reached from S in 0, 1, 2, ... steps.                   *)
Reaches(os, S, f, n) ==
    f = [i \in 0..n |-> IF i = 0 THEN S ELSE f[i - 1] \union UNION {Kids(os, v) : v \in f[i - 1]}]

(* The length and the domain of a sequence.                                *)
LEMMA SeqLength ==
    ASSUME NEW q, IsSeq(q)
    PROVE  Len(q) \in Nat /\ DOMAIN q = 1..Len(q)
  BY DEF IsSeq

(* The sequence of sets reached in at most n steps exists.                 *)
LEMMA ReachesExist ==
    ASSUME NEW os, NEW S, NEW n \in Nat
    PROVE  \E f : Reaches(os, S, f, n)
<1> DEFINE T == {m \in Nat : ~\E f : Reaches(os, S, f, m)}
           Step(R) == R \union UNION {Kids(os, v) : v \in R}
<1> SUFFICES ASSUME T # {} PROVE FALSE
  OBVIOUS
<1>1. PICK m \in T : \A k \in T : m <= k
  BY Least
<1>2. CASE m = 0
  <2>1. Reaches(os, S, [i \in 0..0 |-> S], 0)
    BY DEF Reaches
  <2> QED BY <1>2, <2>1
<1>3. CASE m > 0
  <2>1. m - 1 \in Nat /\ m - 1 \notin T
    BY <1>1, <1>3
  <2>2. PICK f : Reaches(os, S, f, m - 1)
    BY <2>1
  <2>3. f = [i \in 0..(m - 1) |-> IF i = 0 THEN S ELSE Step(f[i - 1])]
    BY <2>2 DEF Reaches
  <2> HIDE DEF Step
  <2> DEFINE g == [i \in 0..m |-> IF i = 0 THEN S ELSE Step(f[i - 1])]
  <2>4. \A i \in 0..(m - 1) : i \in 0..m /\ g[i] = f[i]
    BY <2>3, <1>3
  <2>5. \A i \in 0..m : i # 0 => g[i - 1] = f[i - 1]
    <3> HIDE DEF g
    <3>1. \A i \in 0..m : i # 0 => i - 1 \in 0..(m - 1)
      BY <1>3
    <3> QED BY <2>4, <3>1
  <2>6. g = [i \in 0..m |-> IF i = 0 THEN S ELSE Step(g[i - 1])]
    BY <2>5
  <2>7. Reaches(os, S, g, m)
    BY <2>6 DEF Reaches, Step
  <2> QED BY <2>7
<1> QED BY <1>1, <1>2, <1>3

(* Reachable is the last set of such a sequence, without the small values. *)
LEMMA ReachableIs ==
    ASSUME NEW os, IsSeq(os), NEW S
    PROVE  \E f : Reaches(os, S, f, Len(os)) /\ Reachable(os, S) = f[Len(os)] \ {Small}
<1> DEFINE F == CHOOSE f : Reaches(os, S, f, Len(os))
<1>1. Reaches(os, S, F, Len(os))
  BY SeqLength, ReachesExist
<1>2. Reachable(os, S) = F[Len(os)] \ {Small}
  BY DEF Reachable, Reaches
<1> QED BY <1>1, <1>2

(* A small value contains nothing.                                         *)
LEMMA NoKids ==
    ASSUME NEW os
    PROVE  Kids(os, Small) = {}
  BY DEF Kids, Small

(* Nothing is reached outside a closed set.                                *)
LEMMA ReachedWithin ==
    ASSUME NEW os, IsSeq(os), NEW K, Closed(os, K), NEW S, S \subseteq K \cup {Small}
    PROVE  Reachable(os, S) \subseteq K
<1>1. PICK f : Reaches(os, S, f, Len(os)) /\ Reachable(os, S) = f[Len(os)] \ {Small}
  BY ReachableIs
<1> DEFINE n == Len(os)
           T == {i \in 0..n : ~(f[i] \subseteq K \cup {Small})}
<1>2. n \in Nat
  BY SeqLength
<1>3. ASSUME T # {} PROVE FALSE
  <2>1. T \subseteq Nat
    BY <1>2
  <2>2. PICK m \in T : \A k \in T : m <= k
    BY <1>3, <2>1, Least
  <2>3. CASE m = 0
    BY <1>1, <1>2, <2>3 DEF Reaches
  <2>4. CASE m # 0
    <3>1. m - 1 \in 0..n /\ m - 1 \notin T
      BY <1>2, <2>2, <2>4
    <3>2. f[m - 1] \subseteq K \cup {Small}
      BY <3>1
    <3>3. f[m] = f[m - 1] \union UNION {Kids(os, v) : v \in f[m - 1]}
      BY <1>1, <2>4 DEF Reaches
    <3>4. \A v \in f[m - 1] : Kids(os, v) \subseteq K \cup {Small}
      BY <3>2, NoKids DEF Closed
    <3>5. f[m] \subseteq K \cup {Small}
      BY <3>2, <3>3, <3>4
    <3> QED BY <3>5
  <2> QED BY <2>3, <2>4
<1>4. f[n] \subseteq K \cup {Small}
  BY <1>2, <1>3
<1> QED BY <1>1, <1>4

(* The contents of an object are older objects.                            *)
LEMMA KidsOlder ==
    ASSUME NEW os, ObjectsOK(os), NEW u, IsObj(os, u), NEW v \in Kids(os, u)
    PROVE  v = Small \/ (IsObj(os, v) /\ handle_to_index(v.handle) < handle_to_index(u.handle))
<1> DEFINE i == handle_to_index(u.handle) + 1
<1>1. Len(os) \in Nat
  BY SeqLength DEF ObjectsOK
<1>2. u.handle \in Nat
  BY DEF IsObj
<1>3. handle_to_index(u.handle) \in Nat
  BY <1>2 DEF handle_to_index
<1>4. i \in 1..Len(os) /\ i - 1 = handle_to_index(u.handle)
  BY <1>1, <1>3 DEF IsObj
<1>5. PICK j \in DOMAIN os[i].kids : v = os[i].kids[j]
  BY DEF Kids
<1> HIDE DEF i
<1>6. v = Small \/ (IsObj(os, v) /\ handle_to_index(v.handle) < i - 1)
  BY <1>4, <1>5 DEF ObjectsOK
<1> QED BY <1>4, <1>6

(* What is reached is closed: a chain of contents is never longer than     *)
(* the host's objects.                                                     *)
LEMMA ReachedClosed ==
    ASSUME NEW os, ObjectsOK(os), NEW S, \A v \in S : v = Small \/ IsObj(os, v)
    PROVE  Closed(os, Reachable(os, S)) /\ S \ {Small} \subseteq Reachable(os, S)
<1>0. IsSeq(os) /\ Len(os) \in Nat
  BY SeqLength DEF ObjectsOK
<1>1. PICK f : Reaches(os, S, f, Len(os)) /\ Reachable(os, S) = f[Len(os)] \ {Small}
  BY <1>0, ReachableIs
<1> DEFINE n == Len(os)
           Good(i) == /\ S \subseteq f[i]
                      /\ \A v \in f[i] : v # Small =>
                           /\ IsObj(os, v)
                           /\ handle_to_index(v.handle) < n - i \/ Kids(os, v) \subseteq f[i]
           T == {i \in 0..n : ~Good(i)}
<1>2. ASSUME T # {} PROVE FALSE
  <2>1. T \subseteq Nat
    BY <1>0
  <2>2. PICK m \in T : \A k \in T : m <= k
    BY <1>2, <2>1, Least
  <2>3. CASE m = 0
    <3>1. f[m] = S
      BY <1>0, <1>1, <2>3 DEF Reaches
    <3>2. \A v \in S : v # Small => IsObj(os, v) /\ handle_to_index(v.handle) < n - m
      BY <1>0, <2>3 DEF IsObj
    <3>3. Good(m)
      BY <3>1, <3>2
    <3> QED BY <3>3
  <2>4. CASE m # 0
    <3>1. m - 1 \in 0..n /\ m - 1 \notin T /\ m \in 0..n /\ m \in Nat
      BY <1>0, <2>2, <2>4
    <3>2. Good(m - 1)
      BY <3>1
    <3>3. f[m] = f[m - 1] \union UNION {Kids(os, v) : v \in f[m - 1]}
      BY <1>1, <2>4 DEF Reaches
    <3>4. S \subseteq f[m]
      BY <3>2, <3>3
    <3>5. ASSUME NEW v \in f[m], v # Small
          PROVE  /\ IsObj(os, v)
                 /\ handle_to_index(v.handle) < n - m \/ Kids(os, v) \subseteq f[m]
      <4>1. CASE v \in f[m - 1]
        <5>1. Kids(os, v) \subseteq f[m]
          BY <3>3, <4>1
        <5> QED BY <3>2, <3>5, <4>1, <5>1
      <4>2. CASE v \notin f[m - 1]
        <5>1. PICK u \in f[m - 1] : v \in Kids(os, u)
          BY <3>3, <4>2
        <5>2. u # Small
          BY <5>1, NoKids
        <5>3. IsObj(os, u) /\ handle_to_index(u.handle) < n - (m - 1)
          BY <3>2, <4>2, <5>1, <5>2
        <5>4. IsObj(os, v) /\ handle_to_index(v.handle) < handle_to_index(u.handle)
          BY <3>5, <5>1, <5>3, KidsOlder
        <5>5. handle_to_index(u.handle) \in Nat /\ handle_to_index(v.handle) \in Nat
          <6>1. u.handle \in Nat /\ v.handle \in Nat
            BY <5>3, <5>4 DEF IsObj
          <6> QED BY <6>1 DEF handle_to_index
        <5>6. handle_to_index(v.handle) < n - m
          BY <1>0, <3>1, <5>3, <5>4, <5>5
        <5> QED BY <5>4, <5>6
      <4> QED BY <4>1, <4>2
    <3>6. Good(m)
      BY <3>4, <3>5
    <3> QED BY <3>6
  <2> QED BY <2>3, <2>4
<1>3. Good(n)
  BY <1>0, <1>2
<1>4. ASSUME NEW v \in Reachable(os, S)
      PROVE  IsObj(os, v) /\ Kids(os, v) \subseteq Reachable(os, S) \cup {Small}
  <2>1. v \in f[n] /\ v # Small
    BY <1>1, <1>4
  <2>2. IsObj(os, v) /\ (handle_to_index(v.handle) < n - n \/ Kids(os, v) \subseteq f[n])
    BY <1>3, <2>1
  <2>3. handle_to_index(v.handle) \in Nat
    <3>1. v.handle \in Nat
      BY <2>2 DEF IsObj
    <3> QED BY <3>1 DEF handle_to_index
  <2>4. Kids(os, v) \subseteq f[n]
    BY <1>0, <2>2, <2>3
  <2> QED BY <1>1, <2>2, <2>4
<1>5. S \ {Small} \subseteq Reachable(os, S)
  BY <1>1, <1>3
<1> QED BY <1>4, <1>5 DEF Closed

(* A closed set stays closed when an object is added.                      *)
LEMMA ClosedGrows ==
    ASSUME NEW os, IsSeq(os), NEW o, NEW on, on = Append(os, o), NEW K, Closed(os, K)
    PROVE  Closed(on, K)
<1>1. Len(on) = Len(os) + 1 /\ Len(os) \in Nat /\ \A i \in 1..Len(os) : on[i] = os[i]
  BY DEF IsSeq
<1>2. ASSUME NEW v, IsObj(os, v) PROVE IsObj(on, v) /\ Kids(on, v) = Kids(os, v)
  <2> DEFINE i == handle_to_index(v.handle)
  <2>1. v.handle \in Nat /\ i < Len(os)
    BY <1>2 DEF IsObj
  <2>2. i \in Nat
    BY <2>1 DEF handle_to_index
  <2>3. i + 1 \in 1..Len(os) /\ on[i + 1] = os[i + 1] /\ i < Len(on) /\ ~(i >= Len(on)) /\ ~(i >= Len(os))
    BY <1>1, <2>1, <2>2
  <2> HIDE DEF i
  <2> QED BY <1>2, <2>3 DEF IsObj, Kids, i
<1> QED BY <1>2 DEF Closed

-----------------------------------------------------------------------------
(* The host between two operations.                                        *)

ObjVal == [tag : Tags, handle : Nat]

FrameType ==
    [contract : DOMAIN net.contracts \cup {None}, try : BOOLEAN, rel : Seq(ObjVal),
     fuel : [total : Nat, consumed : Nat, grown : Nat], pages : Nat, known : SUBSET ObjVal]

(* What a frame's handles lead to is what it knows.                        *)
Isolated(os, f) == (\A j \in 1..Len(f.rel) : f.rel[j] \in f.known) /\ Closed(os, f.known)

IsHost(h) ==
    h = [bud |-> h.bud, objs |-> h.objs, stack |-> h.stack, auth |-> h.auth, err |-> h.err, res |-> h.res]

StackOK(os, st) == st \in Seq(FrameType) /\ \A i \in 1..Len(st) : Isolated(os, st[i])

(* The budget of a host that can still succeed is within its CPU limit.    *)
BudgetOK(h) == IsBudget(h.bud) /\ ~h.bud.shadow /\ (h.err # "ExceededLimit" => WithinCpu(h.bud))

AlignedOK(h) ==
    /\ h.auth \in Nat /\ h.auth >= Len(h.stack)
    /\ Recoverable(h.err) => h.auth = Len(h.stack)

HostOK(h) ==
    /\ IsHost(h) /\ h.err \in Errors
    /\ BudgetOK(h)
    /\ ObjectsOK(h.objs) /\ StackOK(h.objs, h.stack)
    /\ h.res = Small \/ IsObj(h.objs, h.res)
    /\ AlignedOK(h)

(* The fuel that the running frame has burnt.                              *)
Burnt(st) == IF st = <<>> THEN 0 ELSE st[Len(st)].fuel.consumed

(* Everything burnt is charged or in flight.                               *)
Paid(h) ==
    /\ unpaid \in Int
    /\ unpaid - h.bud.insns <= Burnt(h.stack)
    /\ h.err # "ExceededLimit" => unpaid - h.bud.insns = Burnt(h.stack)

(* No frame holds fuel; at most the running one does, if it is a guest's.  *)
Clean(st) == \A i \in 1..Len(st) : st[i].fuel = NoFuel
Lent(st) == \A i \in 1..Len(st) : i < Len(st) \/ i = 1 => st[i].fuel = NoFuel

(* The fuel of the running frame is within the CPU limit.                  *)
Priced(h) ==
    Len(h.stack) > 1 /\ h.err = "Ok" =>
        h.bud.cpu.total + net.cpu["WasmInsnExec"][1] * h.stack[Len(h.stack)].fuel.total
            <= h.bud.cpu.limit + h.stack[Len(h.stack)].fuel.grown

(* The host is in control, or has given it back.                           *)
Ready(h) == HostOK(h) /\ Paid(h) /\ Clean(h.stack) /\ h.stack # <<>>
Done(h) == HostOK(h) /\ Paid(h) /\ Lent(h.stack) /\ Priced(h) /\ h.stack # <<>>

InNetwork == network \in DOMAIN Networks

(* What VmAssumption says of the network the host runs in.                 *)
LEMMA NetworkModel ==
    ASSUME InNetwork
    PROVE  /\ IsModel(net) /\ net.depth \in Nat /\ net.proto <= EnvProto /\ net.proto \in Nat
           /\ EnvProto \in Nat
           /\ \A c \in DOMAIN net.contracts : IsWasm(net.contracts[c].wasm)
           /\ \A w \in net.wasms : IsWasm(w)
           /\ net.quanta \subseteq Nat
  BY VmAssumption DEF InNetwork, net, IsModel

(* A step that touches the budget and the error only.                      *)
Quiet(h, g) ==
    /\ IsHost(g) /\ g.objs = h.objs /\ g.stack = h.stack /\ g.auth = h.auth /\ g.res = h.res
    /\ h.err # "Ok" => g = h
    /\ g.err \in Errors
    /\ Spends(h.bud, g.bud)
    /\ g.err # "ExceededLimit" => WithinCpu(g.bud)

(* A quiet step keeps the invariant of the host,                           *)
LEMMA QuietHost ==
    ASSUME NEW h, HostOK(h), NEW g, Quiet(h, g)
    PROVE  HostOK(g)
<1>1. BudgetOK(g)
  BY DEF HostOK, BudgetOK, Quiet, Spends
<1>2. AlignedOK(g)
  <2>1. CASE h.err # "Ok"
    BY <2>1 DEF HostOK, Quiet
  <2>2. CASE h.err = "Ok"
    BY <2>2 DEF HostOK, Quiet, AlignedOK, Recoverable
  <2> QED BY <2>1, <2>2
<1> QED BY <1>1, <1>2 DEF HostOK, Quiet

(* and leaves a host that is in control in control.                        *)
LEMMA QuietReady ==
    ASSUME NEW h, Ready(h), NEW g, Quiet(h, g)
    PROVE  Ready(g)
<1>1. HostOK(g)
  BY QuietHost DEF Ready
<1>2. Paid(g)
  <2>1. CASE h.err # "Ok"
    BY <2>1 DEF Ready, Quiet
  <2>2. CASE h.err = "Ok"
    <3>1. g.bud.insns = h.bud.insns /\ g.stack = h.stack
      BY DEF Quiet, Spends
    <3>2. unpaid - h.bud.insns = Burnt(h.stack) /\ unpaid - h.bud.insns <= Burnt(h.stack) /\ unpaid \in Int
      BY <2>2 DEF Ready, Paid
    <3> QED BY <3>1, <3>2 DEF Paid
  <2> QED BY <2>1, <2>2
<1> QED BY <1>1, <1>2 DEF Ready, Quiet

(* Quiet steps compose,                                                    *)
LEMMA QuietTrans ==
    ASSUME NEW h, NEW g, NEW f, HostOK(h), Quiet(h, g), Quiet(g, f)
    PROVE  Quiet(h, f)
<1>1. h.bud.cpu.total \in Int /\ g.bud.cpu.total \in Int /\ f.bud.cpu.total \in Int
  <2>1. \A z : IsBudget(z) => z.cpu.total \in Int
    BY DEF IsBudget, Dimensions
  <2> QED BY <2>1 DEF Quiet, Spends
<1>2. Spends(h.bud, f.bud)
  BY <1>1 DEF Quiet, Spends
<1> QED BY <1>2 DEF Quiet

(* a budget that is not charged has not lost anything,                     *)
LEMMA SpendsNothing ==
    ASSUME NEW h, HostOK(h)
    PROVE  Spends(h.bud, h.bud)
<1>1. h.bud.cpu.total \in Int /\ IsBudget(h.bud)
  BY DEF HostOK, BudgetOK, IsBudget, Dimensions
<1> QED BY <1>1 DEF Spends

(* and doing nothing is quiet.                                             *)
LEMMA QuietSame ==
    ASSUME NEW h, HostOK(h)
    PROVE  Quiet(h, h)
  BY SpendsNothing DEF Quiet, HostOK, BudgetOK

(* The outcome of a charge becomes the host's.                             *)
LEMMA ChargedQuiet ==
    ASSUME NEW h, HostOK(h), h.err = "Ok", NEW r, r.err \in {"Ok", "ExceededLimit"},
           Spends(h.bud, r.b), r.err = "Ok" => WithinCpu(r.b)
    PROVE  Quiet(h, Charged(h, r))
<1> DEFINE g == Charged(h, r)
<1>1. g = [bud |-> r.b, objs |-> h.objs, stack |-> h.stack, auth |-> h.auth, err |-> r.err, res |-> h.res]
  <2>1. IsHost(h)
    BY DEF HostOK
  <2>2. g = [[h EXCEPT !.bud = r.b] EXCEPT !.err = r.err]
    BY DEF Charged
  <2> HIDE DEF g
  <2> QED BY <2>1, <2>2 DEF IsHost
<1> HIDE DEF g
<1>2. IsHost(g) /\ g.bud = r.b /\ g.err = r.err /\ g.objs = h.objs /\ g.stack = h.stack
      /\ g.auth = h.auth /\ g.res = h.res
  BY <1>1 DEF IsHost
<1>3. g.err \in Errors
  BY <1>2 DEF Errors
<1>4. Quiet(h, g)
  BY <1>2, <1>3 DEF Quiet
<1> QED BY <1>4 DEF g

(* A sequence of charges changes the budget and the error only, and fails  *)
(* no later than the first charge beyond a limit.                          *)
LEMMA ChargeQuiet ==
    ASSUME InNetwork, NEW h, HostOK(h), NEW q, Charges(q)
    PROVE  Quiet(h, Charge(h, q))
<1>1. CASE h.err # "Ok"
  <2>1. Charge(h, q) = h
    BY <1>1 DEF Charge
  <2> QED BY <2>1, QuietSame
<1>2. CASE h.err = "Ok"
  <2> DEFINE r == charge_all(net, h.bud, q)
  <2>1. Charge(h, q) = Charged(h, r)
    BY <1>2 DEF Charge
  <2>2. IsBudget(h.bud) /\ ~h.bud.shadow /\ WithinCpu(h.bud)
    BY <1>2 DEF HostOK, BudgetOK
  <2>3. IsModel(net)
    BY NetworkModel
  <2>4. /\ r.err \in {"Ok", "ExceededLimit"} /\ Spends(h.bud, r.b)
        /\ r.err = "Ok" => WithinCpu(r.b)
    BY <2>2, <2>3, ChargesSpend
  <2> HIDE DEF r
  <2>5. Quiet(h, Charged(h, r))
    BY <1>2, <2>4, ChargedQuiet
  <2> QED BY <2>1, <2>5
<1> QED BY <1>1, <1>2

(* So does a failure,                                                      *)
LEMMA FailQuiet ==
    ASSUME NEW h, HostOK(h), NEW e \in Errors, e # "ExceededLimit"
    PROVE  Quiet(h, Fail(h, e))
<1>1. CASE h.err # "Ok"
  <2>1. Fail(h, e) = h
    BY <1>1 DEF Fail
  <2> QED BY <2>1, QuietSame
<1>2. CASE h.err = "Ok"
  <2> DEFINE g == Fail(h, e)
  <2>1. g = [bud |-> h.bud, objs |-> h.objs, stack |-> h.stack, auth |-> h.auth, err |-> e, res |-> h.res]
    BY <1>2 DEF Fail, HostOK, IsHost
  <2> HIDE DEF g
  <2>2. IsHost(g) /\ g.bud = h.bud /\ g.err = e /\ g.objs = h.objs /\ g.stack = h.stack
        /\ g.auth = h.auth /\ g.res = h.res
    BY <2>1 DEF IsHost
  <2>3. WithinCpu(h.bud)
    BY <1>2 DEF HostOK, BudgetOK
  <2>4. Quiet(h, g)
    BY <1>2, <2>2, <2>3, SpendsNothing DEF Quiet
  <2> QED BY <2>4 DEF g
<1> QED BY <1>1, <1>2

(* A charge after a quiet step, a failure after a quiet step.              *)
LEMMA ThenCharge ==
    ASSUME InNetwork, NEW h, NEW g, HostOK(h), Quiet(h, g), NEW q, Charges(q)
    PROVE  Quiet(h, Charge(g, q))
<1>1. Quiet(g, Charge(g, q))
  BY QuietHost, ChargeQuiet
<1> QED BY <1>1, QuietTrans

(* also after other quiet steps.                                           *)
LEMMA ThenFail ==
    ASSUME NEW h, NEW g, HostOK(h), Quiet(h, g), NEW e \in Errors, e # "ExceededLimit"
    PROVE  Quiet(h, Fail(g, e))
<1>1. Quiet(g, Fail(g, e))
  BY QuietHost, FailQuiet
<1> QED BY <1>1, QuietTrans

-----------------------------------------------------------------------------
(* Instantiation is quiet.                                                 *)

(* Parsing ends in one of the errors of the model, never in an exhausted   *)
(* budget: it charges for nothing by itself.                               *)
LEMMA ParseOutcome ==
    ASSUME InNetwork, NEW w
    PROVE  parse_wasm(net.proto, w) \in Errors /\ parse_wasm(net.proto, w) # "ExceededLimit"
<1> DEFINE a == IF w.valid THEN "Ok" ELSE "InvalidAction"
           b == check_max_args(w)
           c == check_meta_section(net.proto, w)
           q == <<a, b, c>>
           bad == {i \in DOMAIN q : q[i] # "Ok"}
<1>1. a \in {"Ok", "InvalidAction", "InvalidInput"} /\ b \in {"Ok", "InvalidAction", "InvalidInput"}
  BY DEF check_max_args
<1>2. c \in {"Ok", "InvalidAction", "InvalidInput"}
  <2>1. ~(net.proto > EnvProto)
    BY NetworkModel
  <2> QED BY <2>1 DEF check_meta_section, check_contract_interface_version
<1>3. DOMAIN q = 1..3 /\ q[1] = a /\ q[2] = b /\ q[3] = c
  OBVIOUS
<1>4. parse_wasm(net.proto, w) =
        IF bad = {} THEN "Ok" ELSE q[CHOOSE i \in bad : \A j \in bad : i <= j]
  BY DEF parse_wasm, First
<1> HIDE DEF a, b, c, q
<1>5. \A i \in 1..3 : q[i] \in {"Ok", "InvalidAction", "InvalidInput"}
  BY <1>1, <1>2, <1>3
<1>6. bad # {} => (CHOOSE i \in bad : \A j \in bad : i <= j) \in 1..3
  <2>1. bad \subseteq Nat
    BY <1>3
  <2>2. bad # {} => \E i \in bad : \A j \in bad : i <= j
    BY <2>1, Least
  <2> QED BY <1>3, <2>2
<1> HIDE DEF bad
<1> QED BY <1>4, <1>5, <1>6 DEF Errors

(* So do the checks of the imports, linking, and the extraction of the     *)
(* refined cost inputs.                                                    *)
LEMMA LinkOutcome ==
    ASSUME NEW w, NEW proto
    PROVE  /\ check_contract_imports_match_host_protocol(proto, w) \in Errors
           /\ check_contract_imports_match_host_protocol(proto, w) # "ExceededLimit"
           /\ link(w) \in Errors /\ link(w) # "ExceededLimit"
           /\ ensure_no_start(w) \in Errors /\ ensure_no_start(w) # "ExceededLimit"
           /\ extract_refined_contract_cost_inputs(w) \in Errors
           /\ extract_refined_contract_cost_inputs(w) # "ExceededLimit"
<1>1. check_contract_imports_match_host_protocol(proto, w) \in {"InvalidAction", "Ok"}
  BY DEF check_contract_imports_match_host_protocol
<1>2. link(w) \in {"InvalidAction", "Ok"} /\ ensure_no_start(w) \in {"InvalidAction", "Ok"}
  BY DEF link, ensure_no_start
<1>3. extract_refined_contract_cost_inputs(w) \in {"InvalidInput", "Ok"}
  BY DEF extract_refined_contract_cost_inputs
<1> QED BY <1>1, <1>2, <1>3 DEF Errors

(* Growing the initial memory of a module charges and fails, and nothing   *)
(* else.                                                                   *)
LEMMA MemoryQuiet ==
    ASSUME InNetwork, NEW h, HostOK(h), NEW w, IsWasm(w)
    PROVE  Quiet(h, InitialMemory(h, w))
<1>1. CASE h.err # "Ok" \/ w.pages = 0
  <2>1. InitialMemory(h, w) = h
    BY <1>1 DEF InitialMemory
  <2> QED BY <2>1, QuietSame
<1>2. CASE ~(h.err # "Ok" \/ w.pages = 0)
  <2> DEFINE d == w.pages * PageSize
             fits == w.pages <= w.max
             r == memory_growing(net, h.bud, d, fits)
  <2>1. InitialMemory(h, w) = Charged(h, r)
    BY <1>2 DEF InitialMemory
  <2>2. d \in Nat
    BY VmAssumption DEF IsWasm
  <2>3. IsModel(net) /\ IsBudget(h.bud) /\ ~h.bud.shadow /\ WithinCpu(h.bud)
    BY <1>2, NetworkModel DEF HostOK, BudgetOK
  <2> HIDE DEF d, fits
  <2>4. WellFormed("MemAlloc", 1, d)
    BY <2>2, LinearCharge
  <2>5. /\ r.err \in {"Ok", "ExceededLimit"} /\ Spends(h.bud, r.b)
        /\ r.err = "Ok" => WithinCpu(r.b)
    BY <2>2, <2>3, <2>4, GrowthSpends
  <2> HIDE DEF r
  <2>6. Quiet(h, Charged(h, r))
    BY <1>2, <2>5, ChargedQuiet
  <2> QED BY <2>1, <2>6
<1> QED BY <1>1, <1>2

(* The charges for linking the imports of a module.                        *)
LEMMA ImportCharges ==
    ASSUME NEW w, IsWasm(w)
    PROVE  Charges(bulk_init_cpy(Cardinality(w.imports)))
           /\ bulk_init_cpy(Cardinality(w.imports)) \in Seq(Triple)
<1>1. Cardinality(w.imports) \in Nat
  BY FS_CardinalityType DEF IsWasm
<1> QED BY <1>1, BulkCharges

(* Instantiating a module with wasmi is quiet,                             *)
LEMMA InstantiateQuiet ==
    ASSUME InNetwork, NEW h, HostOK(h), NEW g, Quiet(h, g), NEW w, IsWasm(w), NEW in \in {V0(w), V1(w)}
    PROVE  Quiet(h, instantiate_wasmi(g, w, in))
<1> DEFINE a == Charge(g, charge_for_instantiation(in))
           b == Charge(a, bulk_init_cpy(Cardinality(w.imports)))
           c == Fail(b, check_contract_imports_match_host_protocol(net.proto, w))
           d == Fail(c, link(w))
<1>1. Quiet(h, a)
  <2>1. Charges(charge_for_instantiation(in))
    BY ParsingCharges
  <2> QED BY <2>1, ThenCharge
<1>2. instantiate_wasmi(g, w, in) = Fail(InitialMemory(d, w), ensure_no_start(w))
  BY DEF instantiate_wasmi
<1> HIDE DEF a
<1>3. Quiet(h, b)
  BY <1>1, ImportCharges, ThenCharge
<1> HIDE DEF b
<1>4. Quiet(h, c)
  BY <1>3, LinkOutcome, ThenFail
<1> HIDE DEF c
<1>5. Quiet(h, d)
  BY <1>4, LinkOutcome, ThenFail
<1> HIDE DEF d
<1>6. Quiet(d, InitialMemory(d, w))
  BY <1>5, QuietHost, MemoryQuiet
<1>7. Quiet(h, InitialMemory(d, w))
  BY <1>5, <1>6, QuietTrans
<1>8. Quiet(h, Fail(InitialMemory(d, w), ensure_no_start(w)))
  BY <1>7, LinkOutcome, ThenFail
<1> QED BY <1>2, <1>8

(* and so are parsing it,                                                  *)
LEMMA ParseQuiet ==
    ASSUME InNetwork, NEW h, HostOK(h), NEW g, Quiet(h, g), NEW w, IsWasm(w), NEW in \in {V0(w), V1(w)}
    PROVE  Quiet(h, parse(g, w, in))
<1> DEFINE a == Charge(g, charge_for_parsing(in))
           b == Fail(a, parse_wasm(net.proto, w))
<1>1. Quiet(h, a)
  <2>1. Charges(charge_for_parsing(in))
    BY ParsingCharges
  <2> QED BY <2>1, ThenCharge
<1>2. parse(g, w, in) = Charge(b, bulk_init_cpy(Cardinality(w.imports)))
  BY DEF parse
<1> HIDE DEF a
<1>3. Quiet(h, b)
  BY <1>1, ParseOutcome, ThenFail
<1> HIDE DEF b
<1>4. Quiet(h, Charge(b, bulk_init_cpy(Cardinality(w.imports))))
  BY <1>3, ImportCharges, ThenCharge
<1> QED BY <1>2, <1>4

(* the instantiation that an upload tries,                                 *)
LEMMA CheckVmQuiet ==
    ASSUME InNetwork, NEW h, HostOK(h), NEW g, Quiet(h, g), NEW w, IsWasm(w)
    PROVE  Quiet(h, check_vm(g, w))
<1> DEFINE a == parse(g, w, V0(w))
<1>1. Quiet(h, a)
  BY ParseQuiet
<1>2. check_vm(g, w) = instantiate_wasmi(a, w, V0(w))
  BY DEF check_vm
<1> HIDE DEF a
<1> QED BY <1>1, <1>2, InstantiateQuiet

(* and the instantiation of a contract, whether or not its module is       *)
(* cached.                                                                 *)
LEMMA InstantiateVmQuiet ==
    ASSUME InNetwork, NEW h, HostOK(h), NEW g, Quiet(h, g), NEW c, IsWasm(c.wasm)
    PROVE  Quiet(h, instantiate_vm(g, c))
<1> DEFINE w == c.wasm
           in == IF c.refined THEN V1(w) ELSE V0(w)
           ok == parse_wasm(net.proto, w)
           linker == IF ok = "Ok" THEN bulk_init_cpy(Cardinality(w.imports)) ELSE <<>>
           q == charge_for_parsing(in) \o linker
           quiet == with_observable_shadow_mode(net, g.bud, q)
           shadowed == Fail(Charged(g, quiet), ok)
<1>0. HostOK(g) /\ in \in {V0(w), V1(w)} /\ IsWasm(w)
  BY QuietHost
<1>1. instantiate_vm(g, c) =
        IF g.err # "Ok" THEN g
        ELSE IF ~c.present THEN Fail(g, "MissingValue")
        ELSE IF net.recording /\ c.live
             THEN IF shadowed.err # "Ok" THEN shadowed ELSE instantiate_wasmi(shadowed, w, in)
        ELSE IF ~net.recording /\ c.cached THEN instantiate_wasmi(g, w, in)
        ELSE instantiate_wasmi(parse(g, w, in), w, in)
  BY DEF instantiate_vm
<1>2. ok \in Errors /\ ok # "ExceededLimit"
  BY ParseOutcome
<1>3. Charges(linker) /\ linker \in Seq(Triple)
  <2>1. Charges(<<>>) /\ <<>> \in Seq(Triple)
    BY DEF Charges
  <2> HIDE DEF ok
  <2> QED BY <1>0, <2>1, ImportCharges
<1>4. Charges(charge_for_parsing(in)) /\ charge_for_parsing(in) \in Seq(Triple)
  BY <1>0, ParsingCharges
<1> HIDE DEF linker, in, ok
<1>5. Charges(q)
  BY <1>3, <1>4, ChargesJoined
<1>6. Quiet(h, Fail(g, "MissingValue"))
  BY ThenFail DEF Errors
<1>7. ASSUME g.err = "Ok" PROVE Quiet(h, shadowed)
  <2>1. IsBudget(g.bud) /\ ~g.bud.shadow /\ WithinCpu(g.bud) /\ IsModel(net)
    BY <1>0, <1>7, NetworkModel DEF HostOK, BudgetOK
  <2> HIDE DEF q
  <2>2. quiet.err \in {"Ok", "ExceededLimit"} /\ Spends(g.bud, quiet.b)
        /\ quiet.b.cpu.total = g.bud.cpu.total
    BY <1>5, <2>1, ShadowSpends
  <2>3. WithinCpu(quiet.b)
    BY <2>1, <2>2 DEF WithinCpu, Spends
  <2> HIDE DEF quiet
  <2>4. Quiet(g, Charged(g, quiet))
    BY <1>0, <1>7, <2>2, <2>3, ChargedQuiet
  <2>5. Quiet(h, Charged(g, quiet))
    BY <2>4, QuietTrans
  <2> QED BY <1>2, <2>5, ThenFail
<1> HIDE DEF shadowed, quiet, q, w
<1>8. Quiet(h, instantiate_wasmi(g, w, in))
  BY <1>0, InstantiateQuiet
<1>9. Quiet(h, instantiate_wasmi(parse(g, w, in), w, in))
  BY <1>0, ParseQuiet, InstantiateQuiet
<1>10. ASSUME g.err = "Ok" PROVE Quiet(h, instantiate_wasmi(shadowed, w, in))
  BY <1>0, <1>7, <1>10, InstantiateQuiet
<1> QED BY <1>1, <1>6, <1>7, <1>8, <1>9, <1>10

-----------------------------------------------------------------------------
(* The boundary.                                                           *)

(* Checking a value is quiet.                                              *)
LEMMA IntegrityQuiet ==
    ASSUME InNetwork, NEW h, HostOK(h), NEW g, Quiet(h, g), NEW v
    PROVE  Quiet(h, check_val_integrity(g, v))
<1>1. CASE v.tag = "Small"
  <2>1. check_val_integrity(g, v) = g
    BY <1>1 DEF check_val_integrity
  <2> QED BY <2>1
<1>2. CASE v.tag # "Small"
  <2> DEFINE c == Charge(g, <<<<"VisitObject", 1, NoInput>>>>)
             e == IF visit_obj(c.objs, v).err = "Ok" THEN "Ok" ELSE "InvalidInput"
  <2>1. check_val_integrity(g, v) = Fail(c, e)
    BY <1>2 DEF check_val_integrity, Visited
  <2>2. Charges(<<<<"VisitObject", 1, NoInput>>>>)
    BY ConstantCharge
  <2>3. Quiet(h, c)
    BY <2>2, ThenCharge
  <2>4. e \in Errors /\ e # "ExceededLimit"
    BY DEF Errors
  <2> HIDE DEF c, e
  <2> QED BY <2>1, <2>3, <2>4, ThenFail
<1> QED BY <1>1, <1>2

(* Whatever handle a guest passes, it names an object the frame knows.     *)
LEMMA HandleResolves ==
    ASSUME NEW os, NEW f \in FrameType, Isolated(os, f), NEW v \in GuestVals,
           NEW r, r = relative_to_absolute(f.rel, v)
    PROVE  /\ r.err \in {"Ok", "InvalidInput"}
           /\ r.v = Small \/ (r.v \in f.known /\ IsObj(os, r.v))
           /\ r.err = "Ok" => r.v.tag = v.tag
<1> DEFINE index == handle_to_index(v.handle)
<1>1. CASE v.tag = "Small"
  <2>1. v = Small
    BY <1>1 DEF GuestVals, Tags
  <2> QED BY <1>1, <2>1 DEF relative_to_absolute
<1>2. CASE v.tag # "Small"
  <2>1. v.handle \in Nat
    <3>1. Small.tag = "Small" /\ Handles \subseteq Nat
      BY VmAssumption DEF Small
    <3> QED BY <1>2, <3>1 DEF GuestVals
  <2>2. index \in Nat
    BY <2>1 DEF handle_to_index
  <2>3. Len(f.rel) \in Nat
    BY DEF FrameType
  <2>4. CASE \/ ~is_relative_object_handle(v.handle)
             \/ index >= Len(f.rel)
             \/ index < Len(f.rel) /\ f.rel[index + 1].tag # v.tag
    BY <1>2, <2>4 DEF relative_to_absolute
  <2>5. CASE ~(\/ ~is_relative_object_handle(v.handle)
               \/ index >= Len(f.rel)
               \/ index < Len(f.rel) /\ f.rel[index + 1].tag # v.tag)
    <3>1. r = [v |-> f.rel[index + 1], err |-> "Ok"]
      BY <1>2, <2>5 DEF relative_to_absolute
    <3>2. index + 1 \in 1..Len(f.rel) /\ f.rel[index + 1].tag = v.tag
      BY <2>2, <2>3, <2>5
    <3> HIDE DEF index
    <3>3. f.rel[index + 1] \in f.known
      BY <3>2 DEF Isolated
    <3>4. IsObj(os, f.rel[index + 1])
      BY <3>3 DEF Isolated, Closed
    <3> QED BY <3>1, <3>2, <3>3, <3>4
  <2> QED BY <2>4, <2>5
<1> QED BY <1>1, <1>2

(* Frames that differ in their fuel only.                                  *)
SameFrame(f, g) ==
    g.contract = f.contract /\ g.try = f.try /\ g.rel = f.rel /\ g.pages = f.pages /\ g.known = f.known

SameFrames(st, tt) == Len(tt) = Len(st) /\ \A i \in 1..Len(st) : SameFrame(st[i], tt[i])

(* Another running frame.                                                  *)
WithTop(st, f) == [st EXCEPT ![Len(st)] = f]

(* Replacing the top frame keeps the stack well formed and the frames      *)
(* under it.                                                               *)
LEMMA TopReplaced ==
    ASSUME NEW os, NEW st, StackOK(os, st), st # <<>>, NEW f \in FrameType, Isolated(os, f),
           NEW tt, tt = WithTop(st, f)
    PROVE  /\ StackOK(os, tt) /\ tt # <<>> /\ Len(tt) = Len(st) /\ Len(st) \in Nat /\ Len(st) >= 1
           /\ tt[Len(st)] = f
           /\ \A i \in 1..Len(st) : i # Len(st) => tt[i] = st[i]
<1>1. st \in Seq(FrameType) /\ Len(st) \in Nat /\ Len(st) > 0 /\ Len(st) >= 1
  BY DEF StackOK
<1>2. /\ tt \in Seq(FrameType) /\ Len(tt) = Len(st)
      /\ \A i \in 1..Len(st) : i # Len(st) => tt[i] = st[i]
      /\ tt[Len(st)] = f
  BY <1>1, SetLast DEF WithTop
<1>3. tt # <<>>
  BY <1>1, <1>2
<1>4. \A i \in 1..Len(tt) : Isolated(os, tt[i])
  BY <1>2 DEF StackOK
<1> QED BY <1>1, <1>2, <1>3, <1>4 DEF StackOK

(* The top frame of a stack that is not empty.                             *)
LEMMA TopFrame ==
    ASSUME NEW os, NEW st, StackOK(os, st), st # <<>>
    PROVE  /\ Len(st) \in Nat /\ Len(st) >= 1 /\ Len(st) \in 1..Len(st)
           /\ st[Len(st)] \in FrameType /\ Isolated(os, st[Len(st)])
<1>1. st \in Seq(FrameType) /\ Len(st) \in Nat /\ Len(st) > 0 /\ Len(st) >= 1
  BY DEF StackOK
<1>2. Len(st) \in 1..Len(st)
  BY <1>1
<1> QED BY <1>1, <1>2 DEF StackOK

(* All that guests have burnt has been charged.                            *)
Settled(h) ==
    /\ unpaid \in Int /\ unpaid - h.bud.insns <= 0
    /\ h.err # "ExceededLimit" => unpaid - h.bud.insns = 0

(* With no fuel in any frame, what is paid for is all there is to pay.     *)
LEMMA CleanIsSettled ==
    ASSUME NEW h, StackOK(h.objs, h.stack), Clean(h.stack)
    PROVE  Paid(h) <=> Settled(h)
<1>1. Burnt(h.stack) = 0
  <2>1. CASE h.stack = <<>>
    BY <2>1 DEF Burnt
  <2>2. CASE h.stack # <<>>
    <3>1. Len(h.stack) \in 1..Len(h.stack)
      BY <2>2, TopFrame
    <3> QED BY <2>2, <3>1 DEF Burnt, Clean, NoFuel
  <2> QED BY <2>1, <2>2
<1> QED BY <1>1 DEF Paid, Settled

(* The fuel goes back to the host: what the frame has burnt is charged,    *)
(* whether or not the charge succeeds.                                     *)
LEMMA FuelReturns ==
    ASSUME InNetwork, NEW h, HostOK(h), Paid(h), Lent(h.stack), h.stack # <<>>,
           NEW g, g = return_fuel_to_host(h)
    PROVE  /\ HostOK(g) /\ Paid(g) /\ Lent(g.stack) /\ Settled(g) /\ g.stack # <<>>
           /\ g.err = "ExceededLimit" \/ (g.err = h.err /\ Clean(g.stack))
           /\ g.objs = h.objs /\ g.auth = h.auth /\ g.res = h.res
           /\ SameFrames(h.stack, g.stack)
<1> DEFINE n == Len(h.stack)
           f == h.stack[n]
           k == f.fuel.consumed
           r == charge(net, h.bud, "WasmInsnExec", k, NoInput)
<1>1. n \in Nat /\ n >= 1 /\ n \in 1..n /\ f \in FrameType /\ Isolated(h.objs, f)
  BY TopFrame DEF HostOK
<1>2. k \in Nat
  BY <1>1 DEF FrameType
<1>3. IsBudget(h.bud) /\ ~h.bud.shadow /\ IsModel(net) /\ IsHost(h) /\ h.bud.insns \in Nat
  BY NetworkModel DEF HostOK, BudgetOK, IsBudget
<1>4. WellFormed("WasmInsnExec", k, NoInput)
  BY <1>2, TypesInUse, InputsOfTypes DEF WellFormed
<1>5. g = FuelReset(h, r)
  BY DEF return_fuel_to_host, TopIndex
<1> HIDE DEF k, f
<1>6. /\ r.err \in {"Ok", "ExceededLimit"}
      /\ IsBudget(r.b)
      /\ r.b.insns = h.bud.insns + k
      /\ r.b.shadow = h.bud.shadow /\ r.b.cpu.limit = h.bud.cpu.limit
      /\ r.err = "Ok" => WithinCpu(r.b)
  BY <1>3, <1>4, ChargeSpends
<1> HIDE DEF r
<1>7. Burnt(h.stack) = k
  BY DEF Burnt, k, f
<1>8. unpaid \in Int /\ unpaid - r.b.insns <= 0 /\ (h.err # "ExceededLimit" => unpaid - r.b.insns = 0)
  BY <1>2, <1>3, <1>6, <1>7 DEF Paid
<1>9. CASE r.err # "Ok"
  <2>1. g = [[h EXCEPT !.bud = r.b] EXCEPT !.err = r.err]
    BY <1>5, <1>9 DEF FuelReset, Charged
  <2>2. g = [bud |-> r.b, objs |-> h.objs, stack |-> h.stack, auth |-> h.auth, err |-> r.err, res |-> h.res]
    BY <1>3, <2>1 DEF IsHost
  <2>3. g.bud = r.b /\ g.objs = h.objs /\ g.stack = h.stack /\ g.auth = h.auth
        /\ g.err = "ExceededLimit" /\ g.res = h.res /\ IsHost(g)
    BY <1>6, <1>9, <2>2 DEF IsHost
  <2>4. HostOK(g)
    <3>1. g.err \in Errors
      BY <2>3 DEF Errors
    <3>2. BudgetOK(g)
      BY <1>3, <1>6, <2>3 DEF BudgetOK
    <3>3. AlignedOK(g)
      BY <2>3 DEF HostOK, AlignedOK, Recoverable
    <3> QED BY <2>3, <3>1, <3>2, <3>3 DEF HostOK
  <2>5. Settled(g)
    BY <1>8, <2>3 DEF Settled
  <2>6. Paid(g)
    <3>1. unpaid - g.bud.insns <= 0 /\ g.bud.insns \in Nat /\ Burnt(g.stack) = k
      BY <1>7, <1>8, <1>6, <2>3 DEF IsBudget
    <3> QED BY <1>2, <1>8, <2>3, <3>1 DEF Paid
  <2>7. SameFrames(h.stack, g.stack)
    BY <2>3 DEF SameFrames, SameFrame
  <2> QED BY <2>3, <2>4, <2>5, <2>6, <2>7
<1>10. CASE r.err = "Ok"
  <2> DEFINE e == [f EXCEPT !.fuel = NoFuel]
             tt == WithTop(h.stack, e)
  <2>1. g = [[h EXCEPT !.bud = r.b] EXCEPT !.stack = tt]
    BY <1>5, <1>10 DEF FuelReset, WithTop, f
  <2>2. g = [bud |-> r.b, objs |-> h.objs, stack |-> tt, auth |-> h.auth, err |-> h.err, res |-> h.res]
    <3> HIDE DEF tt
    <3> QED BY <1>3, <2>1 DEF IsHost
  <2>3. e \in FrameType /\ SameFrame(f, e) /\ e.fuel = NoFuel
    BY <1>1 DEF FrameType, SameFrame, NoFuel
  <2>4. Isolated(h.objs, e)
    BY <1>1, <2>3 DEF Isolated, SameFrame
  <2> HIDE DEF e
  <2>5. /\ StackOK(h.objs, tt) /\ tt # <<>> /\ Len(tt) = n
        /\ tt[n] = e
        /\ \A i \in 1..n : i # n => tt[i] = h.stack[i]
    BY <2>3, <2>4, TopReplaced DEF HostOK
  <2> HIDE DEF tt
  <2>6. g.bud = r.b /\ g.objs = h.objs /\ g.stack = tt /\ g.auth = h.auth
        /\ g.err = h.err /\ g.res = h.res /\ IsHost(g)
    BY <2>2 DEF IsHost
  <2>7. HostOK(g)
    <3>2. BudgetOK(g)
      BY <1>3, <1>6, <1>10, <2>6 DEF BudgetOK
    <3>3. AlignedOK(g)
      BY <2>5, <2>6 DEF HostOK, AlignedOK
    <3> QED BY <2>5, <2>6, <3>2, <3>3 DEF HostOK
  <2>8. Settled(g)
    BY <1>8, <2>6 DEF Settled
  <2>9. Clean(g.stack)
    <3>1. \A i \in 1..n : i # n => h.stack[i].fuel = NoFuel
      <4>1. \A i \in 1..n : i # n => i < n
        BY <1>1
      <4> QED BY <4>1 DEF Lent
    <3> QED BY <2>3, <2>5, <2>6, <3>1 DEF Clean
  <2>10. Lent(g.stack)
    BY <2>9 DEF Clean, Lent
  <2>11. Paid(g)
    BY <2>5, <2>6, <2>8, <2>9, CleanIsSettled
  <2>12. SameFrames(h.stack, g.stack)
    <3>1. \A x : SameFrame(x, x)
      BY DEF SameFrame
    <3> QED BY <2>3, <2>5, <2>6, <3>1 DEF SameFrames, f
  <2> QED BY <2>5, <2>6, <2>7, <2>8, <2>9, <2>10, <2>11, <2>12
<1> QED BY <1>6, <1>9, <1>10

(* The host that is in control and has fresh fuel to give.                 *)
LEMMA ReadyIsDone ==
    ASSUME NEW h, Ready(h), h.err # "Ok" \/ Len(h.stack) <= 1
    PROVE  Done(h)
<1>1. Lent(h.stack)
  BY DEF Ready, Clean, Lent
<1>2. Priced(h)
  <2>1. Len(h.stack) \in Nat
    BY TopFrame DEF Ready, HostOK
  <2> QED BY <2>1 DEF Priced
<1> QED BY <1>1, <1>2 DEF Ready, Done

(* Rounding down.                                                          *)
LEMMA DivisionWithin ==
    ASSUME NEW m \in Nat, NEW c \in Nat
    PROVE  LET d == IF c < 1 THEN 1 ELSE c IN m \div d \in Nat /\ c * (m \div d) <= m
<1> DEFINE d == IF c < 1 THEN 1 ELSE c
           q == m \div d
<1>1. d \in Nat /\ d > 0 /\ c <= d
  OBVIOUS
<1>2. q \in Nat /\ d * q <= m
  <2> HIDE DEF d
  <2> QED BY <1>1
<1>3. c * q <= d * q
  <2>1. CASE c = 0
    <3>1. c * q = 0
      BY <1>2, <2>1
    <3>2. d * q \in Nat
      BY <1>1, <1>2
    <3> QED BY <3>1, <3>2
  <2>2. CASE c # 0
    <3>1. c = d
      BY <2>2
    <3>2. d * q \in Nat
      BY <1>1, <1>2
    <3> QED BY <3>1, <3>2
  <2> QED BY <2>1, <2>2
<1>4. c * q \in Nat /\ d * q \in Nat
  BY <1>1, <1>2
<1>5. c * q <= m
  <2> DEFINE x == c * q
             y == d * q
  <2>1. x <= y /\ y <= m /\ x \in Nat /\ y \in Nat
    BY <1>2, <1>3, <1>4
  <2> HIDE DEF x, y
  <2>2. x <= m
    BY <2>1
  <2> QED BY <2>2 DEF x
<1> QED BY <1>2, <1>5

(* The fuel the host can supply is within what is left.                    *)
LEMMA FuelAffordable ==
    ASSUME InNetwork, NEW b, IsBudget(b), NEW t, t = get_wasmi_fuel_remaining(net, b)
    PROVE  /\ t \in Nat
           /\ WithinCpu(b) => b.cpu.total + net.cpu["WasmInsnExec"][1] * t <= b.cpu.limit
<1> DEFINE c == net.cpu["WasmInsnExec"][1]
           m == get_remaining(b.cpu)
           d == IF c < 1 THEN 1 ELSE c
<1>1. c \in Nat
  BY NetworkModel, TypesInUse DEF IsModel, IsCostModel
<1>2. b.cpu.total \in Nat /\ b.cpu.limit \in Nat
  BY DEF IsBudget, Dimensions
<1>3. m \in Nat /\ (WithinCpu(b) => m = b.cpu.limit - b.cpu.total)
  BY <1>2 DEF get_remaining, WithinCpu
<1>4. t = m \div d
  BY DEF get_wasmi_fuel_remaining
<1> HIDE DEF c, m
<1>5. t \in Nat /\ c * t <= m
  BY <1>1, <1>3, <1>4, DivisionWithin
<1>6. c * t \in Nat
  BY <1>1, <1>5
<1>7. WithinCpu(b) => b.cpu.total + c * t <= b.cpu.limit
  <2> DEFINE x == c * t
  <2>1. x <= m /\ x \in Nat
    BY <1>5, <1>6
  <2> HIDE DEF x
  <2>2. WithinCpu(b) => b.cpu.total + x <= b.cpu.limit
    BY <1>2, <1>3, <2>1
  <2> QED BY <2>2 DEF x
<1> QED BY <1>5, <1>7 DEF c

(* Fuel for the frame that runs next: its VM is clean.                     *)
LEMMA FuelAdded ==
    ASSUME InNetwork, NEW h, Ready(h), Len(h.stack) > 1, NEW g, g = add_fuel_to_vm(h)
    PROVE  Done(g) /\ g.objs = h.objs /\ Len(g.stack) = Len(h.stack) /\ g.err = h.err /\ g.bud.insns = h.bud.insns
<1> DEFINE n == Len(h.stack)
           f == h.stack[n]
           t == get_wasmi_fuel_remaining(net, h.bud)
           e == [f EXCEPT !.fuel = [f.fuel EXCEPT !.total = t]]
           tt == WithTop(h.stack, e)
<1>1. n \in Nat /\ n >= 1 /\ n \in 1..n /\ f \in FrameType /\ Isolated(h.objs, f)
  BY TopFrame DEF HostOK, Ready
<1>2. f.fuel = NoFuel
  BY <1>1 DEF Ready, Clean
<1>3. is_clean(h)
  BY <1>2 DEF is_clean, NoFuel, TopIndex
<1>4. g = [h EXCEPT !.stack = tt]
  BY <1>3 DEF add_fuel_to_vm, WithTop
<1>5. IsHost(h) /\ IsBudget(h.bud) /\ BudgetOK(h)
  BY DEF Ready, HostOK, BudgetOK
<1>6. t \in Nat /\ (WithinCpu(h.bud) => h.bud.cpu.total + net.cpu["WasmInsnExec"][1] * t <= h.bud.cpu.limit)
  BY <1>5, FuelAffordable
<1> HIDE DEF t, f
<1>7. e.fuel = [total |-> t, consumed |-> 0, grown |-> 0] /\ e \in FrameType /\ SameFrame(f, e)
  BY <1>1, <1>2, <1>6 DEF FrameType, SameFrame, NoFuel
<1>8. Isolated(h.objs, e)
  BY <1>1, <1>7 DEF Isolated, SameFrame
<1> HIDE DEF e
<1>9. /\ StackOK(h.objs, tt) /\ tt # <<>> /\ Len(tt) = n
      /\ tt[n] = e
      /\ \A i \in 1..n : i # n => tt[i] = h.stack[i]
  BY <1>7, <1>8, TopReplaced DEF HostOK, Ready
<1> HIDE DEF tt
<1>10. g = [bud |-> h.bud, objs |-> h.objs, stack |-> tt, auth |-> h.auth, err |-> h.err, res |-> h.res]
  BY <1>4, <1>5 DEF IsHost
<1>11. g.bud = h.bud /\ g.objs = h.objs /\ g.stack = tt /\ g.auth = h.auth
       /\ g.err = h.err /\ g.res = h.res /\ IsHost(g)
  BY <1>10 DEF IsHost
<1>12. HostOK(g)
  <2>1. BudgetOK(g)
    BY <1>5, <1>11 DEF BudgetOK
  <2>2. AlignedOK(g)
    BY <1>9, <1>11 DEF HostOK, Ready, AlignedOK
  <2> QED BY <1>9, <1>11, <2>1, <2>2 DEF HostOK, Ready
<1>13. Lent(g.stack)
  <2>1. \A i \in 1..n : i < n \/ i = 1 => i # n
    BY <1>1
  <2> QED BY <1>9, <1>11, <2>1 DEF Ready, Clean, Lent
<1>14. Paid(g)
  <2>1. Burnt(g.stack) = 0
    BY <1>7, <1>9, <1>11 DEF Burnt
  <2>2. Settled(h)
    BY CleanIsSettled DEF Ready, HostOK
  <2> QED BY <1>11, <2>1, <2>2 DEF Settled, Paid
<1>15. Priced(g)
  <2> SUFFICES ASSUME g.err = "Ok" PROVE g.bud.cpu.total + net.cpu["WasmInsnExec"][1] * e.fuel.total
                                           <= g.bud.cpu.limit + e.fuel.grown
    BY <1>9, <1>11 DEF Priced
  <2>1. WithinCpu(h.bud)
    BY <1>5, <1>11 DEF BudgetOK
  <2>2. h.bud.cpu.limit \in Nat
    BY <1>5 DEF IsBudget, Dimensions
  <2>3. e.fuel.total = t /\ e.fuel.grown = 0
    BY <1>7
  <2>4. h.bud.cpu.limit + e.fuel.grown = h.bud.cpu.limit
    BY <2>2, <2>3
  <2> QED BY <1>6, <1>11, <2>1, <2>3, <2>4
<1> QED BY <1>9, <1>11, <1>12, <1>13, <1>14, <1>15 DEF Done

(* The host gives control to the guest by lending it what is left of the   *)
(* budget.                                                                 *)
LEMMA RefuelledDone ==
    ASSUME InNetwork, NEW h, Ready(h), Len(h.stack) > 1
    PROVE  Done(Refuelled(h)) /\ Refuelled(h).bud.insns = h.bud.insns
<1>1. CASE h.err # "Ok"
  BY <1>1, ReadyIsDone DEF Refuelled
<1>2. CASE h.err = "Ok"
  BY <1>2, FuelAdded DEF Refuelled
<1> QED BY <1>1, <1>2

-----------------------------------------------------------------------------
(* A frame is handed an object.                                            *)

(* The value the running frame may be told of.                             *)
KnownTop(h, v) == v = Small \/ v \in h.stack[Len(h.stack)].known

(* Handing a value to the guest adds its object to the relative table.     *)
LEMMA HandedReady ==
    ASSUME InNetwork, NEW h, Ready(h), NEW v, KnownTop(h, v), NEW g, g = Handed(h, v)
    PROVE  Ready(g) /\ g.objs = h.objs /\ Len(g.stack) = Len(h.stack) /\ g.bud.insns = h.bud.insns
<1> DEFINE n == Len(h.stack)
           f == h.stack[n]
           r == absolute_to_relative(f.rel, v)
<1>1. CASE h.err # "Ok"
  <2>1. g = h
    BY <1>1 DEF Handed
  <2> QED BY <2>1
<1>2. CASE h.err = "Ok"
  <2>1. n \in Nat /\ n >= 1 /\ n \in 1..n /\ f \in FrameType /\ Isolated(h.objs, f)
    BY TopFrame DEF HostOK, Ready
  <2>2. r.err = "Ok" /\ (r.rel = f.rel \/ (v # Small /\ r.rel = Append(f.rel, v)))
    <3>1. CASE v = Small
      BY <3>1 DEF absolute_to_relative, Small
    <3>2. CASE v # Small
      <4>1. IsObj(h.objs, v)
        BY <2>1, <3>2 DEF KnownTop, Isolated, Closed
      <4>2. v.tag # "Small" /\ ~is_relative_object_handle(v.handle)
        BY <4>1 DEF IsObj, Tags
      <4>3. r = [rel |-> Append(f.rel, v), err |-> "Ok",
                 v |-> [tag |-> v.tag, handle |-> index_to_handle(Len(f.rel), TRUE)]]
        BY <4>2 DEF absolute_to_relative
      <4> HIDE DEF r
      <4> QED BY <3>2, <4>3
    <3> QED BY <3>1, <3>2
  <2> DEFINE e == [f EXCEPT !.rel = r.rel]
             tt == WithTop(h.stack, e)
  <2>3. g = [[h EXCEPT !.err = r.err] EXCEPT !.stack = tt]
    BY <1>2 DEF Handed, TopIndex, WithTop
  <2>4. IsHost(h)
    BY DEF Ready, HostOK
  <2> HIDE DEF r
  <2>5. f.rel \in Seq(ObjVal) /\ f.known \in SUBSET ObjVal /\ f.fuel = NoFuel
    BY <2>1 DEF FrameType, Ready, Clean
  <2>6. r.rel \in Seq(ObjVal) /\ \A j \in 1..Len(r.rel) : r.rel[j] \in f.known
    <3>1. CASE r.rel = f.rel
      BY <2>1, <2>5, <3>1 DEF Isolated
    <3>2. CASE v # Small /\ r.rel = Append(f.rel, v)
      <4>1. v \in f.known /\ v \in ObjVal
        BY <2>5, <3>2 DEF KnownTop
      <4>2. /\ r.rel \in Seq(ObjVal) /\ Len(r.rel) = Len(f.rel) + 1 /\ Len(f.rel) \in Nat
            /\ \A i \in 1..Len(f.rel) : r.rel[i] = f.rel[i]
            /\ r.rel[Len(f.rel) + 1] = v
        <5> DEFINE q == f.rel
        <5>1. q \in Seq(ObjVal) /\ r.rel = Append(q, v)
          BY <2>5, <3>2
        <5> HIDE DEF q, f, r
        <5>2. /\ r.rel \in Seq(ObjVal) /\ Len(r.rel) = Len(q) + 1 /\ Len(q) \in Nat
              /\ \A i \in 1..Len(q) : r.rel[i] = q[i]
              /\ r.rel[Len(q) + 1] = v
          BY <4>1, <5>1, PushLast
        <5> QED BY <5>2 DEF q
      <4>3. \A j \in 1..Len(r.rel) : j \in 1..Len(f.rel) \/ j = Len(f.rel) + 1
        BY <4>2
      <4> QED BY <2>1, <4>1, <4>2, <4>3 DEF Isolated
    <3> QED BY <2>2, <3>1, <3>2
  <2> HIDE DEF f
  <2>7. e \in FrameType /\ e.rel = r.rel /\ e.known = f.known /\ e.fuel = NoFuel
    BY <2>1, <2>5, <2>6 DEF FrameType
  <2>8. Isolated(h.objs, e)
    BY <2>1, <2>6, <2>7 DEF Isolated
  <2> HIDE DEF e
  <2>9. /\ StackOK(h.objs, tt) /\ tt # <<>> /\ Len(tt) = n
        /\ tt[n] = e
        /\ \A i \in 1..n : i # n => tt[i] = h.stack[i]
    BY <2>7, <2>8, TopReplaced DEF HostOK, Ready
  <2> HIDE DEF tt
  <2>10. g = [bud |-> h.bud, objs |-> h.objs, stack |-> tt, auth |-> h.auth, err |-> "Ok", res |-> h.res]
    BY <2>2, <2>3, <2>4 DEF IsHost
  <2>11. g.bud = h.bud /\ g.objs = h.objs /\ g.stack = tt /\ g.auth = h.auth
         /\ g.err = h.err /\ g.res = h.res /\ IsHost(g)
    BY <1>2, <2>10 DEF IsHost
  <2>12. HostOK(g)
    <3>1. BudgetOK(g)
      BY <2>11 DEF BudgetOK, Ready, HostOK
    <3>2. AlignedOK(g)
      BY <2>9, <2>11 DEF HostOK, Ready, AlignedOK
    <3> QED BY <2>9, <2>11, <3>1, <3>2 DEF HostOK, Ready
  <2>13. Clean(g.stack)
    BY <2>7, <2>9, <2>11 DEF Ready, Clean
  <2>14. Paid(g)
    <3>1. Settled(h)
      BY CleanIsSettled DEF Ready, HostOK
    <3>2. Settled(g)
      BY <2>11, <3>1 DEF Settled
    <3> QED BY <2>9, <2>11, <2>13, <3>2, CleanIsSettled
  <2> QED BY <2>9, <2>11, <2>12, <2>13, <2>14 DEF Ready
<1> QED BY <1>1, <1>2

(* The charge for one allocation.                                          *)
LEMMA HeapCharges == Charges(<<heap_alloc>>) /\ <<heap_alloc>> \in Seq(Triple)
<1>1. heap_alloc = <<"MemAlloc", 1, 1>>
  BY DEF heap_alloc
<1>2. Charges(<<<<"MemAlloc", 1, 1>>>>)
  BY LinearCharge
<1>3. <<<<"MemAlloc", 1, 1>>>> \in Seq(Triple)
  <2>1. "MemAlloc" \in ContractCostType /\ 1 \in Int
    BY TypesInUse
  <2> QED BY <2>1, TripleSeq
<1> QED BY <1>1, <1>2, <1>3

(* After a quiet step the running frame knows what it did.                 *)
LEMMA QuietKnown ==
    ASSUME NEW h, NEW g, Quiet(h, g), NEW v, KnownTop(h, v)
    PROVE  KnownTop(g, v)
  BY DEF Quiet, KnownTop

(* The same, after the charge for the entry of the table.                  *)
LEMMA ToRelativeReady ==
    ASSUME InNetwork, NEW h, Ready(h), NEW v, KnownTop(h, v), NEW g, g = ToRelative(h, v)
    PROVE  Ready(g) /\ g.objs = h.objs /\ Len(g.stack) = Len(h.stack) /\ g.bud.insns = h.bud.insns
<1> DEFINE c == IF v.tag = "Small" THEN h ELSE Charge(h, <<heap_alloc>>)
<1>1. HostOK(h)
  BY DEF Ready
<1>2. Quiet(h, c)
  BY <1>1, QuietSame, HeapCharges, ChargeQuiet
<1>3. g = Handed(c, v)
  BY DEF ToRelative
<1> HIDE DEF c
<1>4. Ready(c) /\ KnownTop(c, v)
  BY <1>2, QuietReady, QuietKnown
<1>5. Ready(g) /\ g.objs = c.objs /\ Len(g.stack) = Len(c.stack) /\ g.bud.insns = c.bud.insns
  BY <1>3, <1>4, HandedReady
<1> QED BY <1>2, <1>5 DEF Quiet, Spends

(* A host function's result goes to the guest, with the fuel.              *)
LEMMA ResumeDone ==
    ASSUME InNetwork, NEW h, Ready(h), Len(h.stack) > 1, h.err = "Ok" => KnownTop(h, h.res), NEW g, g = Resume(h)
    PROVE  Done(g) /\ g.bud.insns = h.bud.insns
<1>1. CASE h.err # "Ok"
  BY <1>1, FuelAdded DEF Resume
<1>2. CASE h.err = "Ok"
  <2> DEFINE c == check_val_integrity(h, h.res)
             t == ToRelative(c, h.res)
  <2>1. g = Refuelled(t)
    BY <1>2 DEF Resume
  <2>2. HostOK(h)
    BY DEF Ready
  <2>3. Quiet(h, c)
    BY <2>2, QuietSame, IntegrityQuiet
  <2> HIDE DEF c
  <2>4. Ready(c) /\ KnownTop(c, h.res) /\ c.bud.insns = h.bud.insns /\ c.stack = h.stack
    BY <1>2, <2>3, QuietReady, QuietKnown DEF Quiet, Spends
  <2>5. Ready(t) /\ t.bud.insns = c.bud.insns /\ Len(t.stack) = Len(c.stack)
    BY <2>4, ToRelativeReady
  <2> HIDE DEF t
  <2> QED BY <2>1, <2>4, <2>5, RefuelledDone
<1> QED BY <1>1, <1>2

(* The running frame learns of objects and of all they contain.            *)
LEMMA KnowsReady ==
    ASSUME InNetwork, NEW h, Ready(h), NEW S,
           Closed(h.objs, h.stack[Len(h.stack)].known \cup S), NEW g, g = Knows(h, S)
    PROVE  /\ Ready(g) /\ g.objs = h.objs /\ Len(g.stack) = Len(h.stack)
           /\ g.err = h.err /\ g.res = h.res /\ g.bud.insns = h.bud.insns
           /\ \A v \in S : v = Small \/ KnownTop(g, v)
           /\ \A v : KnownTop(h, v) => KnownTop(g, v)
<1> DEFINE n == Len(h.stack)
           f == h.stack[n]
           e == [f EXCEPT !.known = f.known \union (S \ {Small})]
           tt == WithTop(h.stack, e)
<1>1. n \in Nat /\ n >= 1 /\ n \in 1..n /\ f \in FrameType /\ Isolated(h.objs, f)
  BY TopFrame DEF HostOK, Ready
<1>2. g = [h EXCEPT !.stack = tt]
  BY DEF Knows, WithTop
<1>3. IsHost(h) /\ f.fuel = NoFuel
  BY <1>1 DEF Ready, HostOK, Clean
<1>7. Closed(h.objs, f.known \cup S)
  OBVIOUS
<1>4. f.known \in SUBSET ObjVal /\ S \in SUBSET ObjVal
  BY <1>1 DEF FrameType, Closed, IsObj, ObjVal
<1> HIDE DEF f
<1>5. e \in FrameType /\ e.rel = f.rel /\ e.known = f.known \cup (S \ {Small}) /\ e.fuel = NoFuel
  BY <1>1, <1>3, <1>4 DEF FrameType
<1>6. Isolated(h.objs, e)
  <2>1. Closed(h.objs, e.known)
    BY <1>5, <1>7 DEF Closed
  <2> QED BY <1>1, <1>5, <2>1 DEF Isolated
<1> HIDE DEF e
<1>9. /\ StackOK(h.objs, tt) /\ tt # <<>> /\ Len(tt) = n
      /\ tt[n] = e
      /\ \A i \in 1..n : i # n => tt[i] = h.stack[i]
  BY <1>5, <1>6, TopReplaced DEF HostOK, Ready
<1> HIDE DEF tt
<1>10. g = [bud |-> h.bud, objs |-> h.objs, stack |-> tt, auth |-> h.auth, err |-> h.err, res |-> h.res]
  BY <1>2, <1>3 DEF IsHost
<1>11. g.bud = h.bud /\ g.objs = h.objs /\ g.stack = tt /\ g.auth = h.auth
       /\ g.err = h.err /\ g.res = h.res /\ IsHost(g)
  BY <1>10 DEF IsHost
<1>12. HostOK(g)
  <2>1. BudgetOK(g)
    BY <1>11 DEF BudgetOK, Ready, HostOK
  <2>2. AlignedOK(g)
    BY <1>9, <1>11 DEF HostOK, Ready, AlignedOK
  <2> QED BY <1>9, <1>11, <2>1, <2>2 DEF HostOK, Ready
<1>13. Clean(g.stack)
  BY <1>5, <1>9, <1>11 DEF Ready, Clean
<1>14. Paid(g)
  <2>1. Settled(h)
    BY CleanIsSettled DEF Ready, HostOK
  <2>2. Settled(g)
    BY <1>11, <2>1 DEF Settled
  <2> QED BY <1>9, <1>11, <1>13, <2>2, CleanIsSettled
<1>15. Ready(g)
  BY <1>9, <1>11, <1>12, <1>13, <1>14 DEF Ready
<1>16. \A v : KnownTop(g, v) <=> (v = Small \/ v \in e.known)
  BY <1>9, <1>11 DEF KnownTop
<1>17. \A v : KnownTop(h, v) <=> (v = Small \/ v \in f.known)
  BY DEF KnownTop, f
<1>18. /\ \A v \in S : v = Small \/ KnownTop(g, v)
       /\ \A v : KnownTop(h, v) => KnownTop(g, v)
  BY <1>5, <1>16, <1>17
<1> QED BY <1>9, <1>11, <1>15, <1>18

(* What a frame knows, it knows when its frames are the same.              *)
LEMMA SameKnown ==
    ASSUME NEW h, NEW g, SameFrames(h.stack, g.stack), Len(h.stack) \in 1..Len(h.stack), NEW v, KnownTop(h, v)
    PROVE  KnownTop(g, v)
  BY DEF SameFrames, SameFrame, KnownTop

(* A guest calls a host function.                                          *)
LEMMA DispatchReady ==
    ASSUME InNetwork, HostOK(Host), Paid(Host), Lent(Host.stack), Host.stack # <<>>,
           NEW v \in GuestVals, NEW d, d = Dispatch(v)
    PROVE  /\ IF d.err = "Ok" THEN Ready(d) ELSE Done(d)
           /\ d.objs = objs /\ SameFrames(stack, d.stack)
           /\ d.err = "Ok" => KnownTop(d, d.res) /\ d.res.tag = v.tag
<1> DEFINE a == return_fuel_to_host(Host)
           b == Charge(a, <<<<"DispatchHostFunction", 1, NoInput>>>>)
<1>0. Host.err = "Ok" /\ Host.objs = objs /\ Host.stack = stack
  BY DEF Host
<1>1. d = Argument(b, v)
  BY DEF Dispatch
<1>2. /\ HostOK(a) /\ Paid(a) /\ Lent(a.stack) /\ Settled(a) /\ a.stack # <<>>
      /\ a.err = "ExceededLimit" \/ (a.err = Host.err /\ Clean(a.stack))
      /\ a.objs = Host.objs /\ a.auth = Host.auth /\ a.res = Host.res
      /\ SameFrames(Host.stack, a.stack)
  BY FuelReturns
<1>3. SameFrames(stack, a.stack) /\ a.objs = objs
  BY <1>0, <1>2
<1>4. Charges(<<<<"DispatchHostFunction", 1, NoInput>>>>)
  BY ConstantCharge
<1> HIDE DEF a
<1>5. Quiet(a, b)
  BY <1>2, <1>4, ChargeQuiet
<1> HIDE DEF b
<1>6. CASE a.err # "Ok"
  <2>1. b = a
    BY <1>5, <1>6 DEF Quiet
  <2>2. d = a
    BY <1>1, <1>6, <2>1 DEF Argument
  <2>3. Priced(a)
    BY <1>6 DEF Priced
  <2>4. Done(a)
    BY <1>2, <2>3 DEF Done
  <2> QED BY <1>3, <1>6, <2>2, <2>4
<1>7. CASE a.err = "Ok"
  <2>1. Ready(a)
    BY <1>2, <1>7 DEF Ready
  <2>2. Ready(b) /\ b.objs = objs /\ SameFrames(stack, b.stack)
    BY <1>3, <1>5, <2>1, QuietReady DEF Quiet
  <2>3. CASE b.err # "Ok"
    <3>1. d = b
      BY <1>1, <2>3 DEF Argument
    <3> QED BY <2>2, <2>3, <3>1, ReadyIsDone
  <2>4. CASE b.err = "Ok"
    <3> DEFINE n == Len(b.stack)
               f == b.stack[n]
               r == relative_to_absolute(f.rel, v)
               g == [[b EXCEPT !.err = r.err] EXCEPT !.res = r.v]
    <3>1. d = check_val_integrity(g, r.v)
      BY <1>1, <2>4 DEF Argument, TopIndex
    <3>2. n \in 1..n /\ f \in FrameType /\ Isolated(b.objs, f)
      BY <2>2, TopFrame DEF HostOK, Ready
    <3>3. /\ r.err \in {"Ok", "InvalidInput"}
          /\ r.v = Small \/ (r.v \in f.known /\ IsObj(b.objs, r.v))
          /\ r.err = "Ok" => r.v.tag = v.tag
      BY <3>2, HandleResolves
    <3> HIDE DEF r
    <3>4. g = [bud |-> b.bud, objs |-> b.objs, stack |-> b.stack, auth |-> b.auth, err |-> r.err, res |-> r.v]
      <4>1. IsHost(b)
        BY <2>2 DEF Ready, HostOK
      <4>2. g = [[b EXCEPT !.err = r.err] EXCEPT !.res = r.v]
        OBVIOUS
      <4> DEFINE x == r.err
                 y == r.v
      <4>3. g = [[b EXCEPT !.err = x] EXCEPT !.res = y]
        BY <4>2
      <4> HIDE DEF g, x, y
      <4>4. g = [bud |-> b.bud, objs |-> b.objs, stack |-> b.stack, auth |-> b.auth, err |-> x, res |-> y]
        BY <4>1, <4>3 DEF IsHost
      <4> QED BY <4>4 DEF x, y
    <3> HIDE DEF g
    <3>5. g.bud = b.bud /\ g.objs = b.objs /\ g.stack = b.stack /\ g.auth = b.auth
          /\ g.err = r.err /\ g.res = r.v /\ IsHost(g)
      BY <3>4 DEF IsHost
    <3>6. Ready(g)
      <4>1. g.err \in Errors
        BY <3>3, <3>5 DEF Errors
      <4>2. BudgetOK(g)
        BY <2>2, <2>4, <3>5 DEF Ready, HostOK, BudgetOK
      <4>3. AlignedOK(g)
        BY <2>2, <2>4, <3>5 DEF Ready, HostOK, AlignedOK, Recoverable
      <4>4. HostOK(g)
        BY <2>2, <3>3, <3>5, <4>1, <4>2, <4>3 DEF Ready, HostOK
      <4>5. Paid(g)
        BY <2>2, <2>4, <3>5 DEF Ready, Paid
      <4> QED BY <2>2, <3>5, <4>4, <4>5 DEF Ready
    <3>7. KnownTop(g, r.v)
      BY <3>3, <3>5 DEF KnownTop
    <3>8. HostOK(g)
      BY <3>6 DEF Ready
    <3>9. Quiet(g, d)
      BY <3>1, <3>8, QuietSame, IntegrityQuiet
    <3>10. Ready(d) /\ KnownTop(d, r.v) /\ d.res = r.v /\ d.objs = objs /\ d.stack = b.stack
      BY <2>2, <3>5, <3>6, <3>7, <3>9, QuietReady, QuietKnown DEF Quiet
    <3>11. d.err = "Ok" => r.err = "Ok"
      BY <3>5, <3>9 DEF Quiet
    <3>12. d.err = "Ok" => KnownTop(d, d.res) /\ d.res.tag = v.tag
      BY <3>3, <3>10, <3>11
    <3> QED BY <2>2, <3>10, <3>12, ReadyIsDone
  <2> QED BY <2>3, <2>4
<1> QED BY <1>6, <1>7

-----------------------------------------------------------------------------
(* Calls.                                                                  *)

Opened(os, c, v, try, p) == [Frame(os, c, v, try) EXCEPT !.pages = p]

(* A new frame knows its argument and what it contains.                    *)
LEMMA FrameOK ==
    ASSUME NEW os, ObjectsOK(os), NEW c \in DOMAIN net.contracts \cup {None}, NEW v, v = Small \/ IsObj(os, v),
           NEW try \in BOOLEAN, NEW p \in Nat, NEW f, f = Opened(os, c, v, try, p)
    PROVE  /\ f \in FrameType /\ Isolated(os, f) /\ f.fuel = NoFuel
           /\ v = Small \/ v \in f.known
<1> DEFINE K == Reachable(os, {v})
<1>1. Closed(os, K) /\ {v} \ {Small} \subseteq K
  BY ReachedClosed
<1>2. f = [contract |-> c, try |-> try, rel |-> <<>>, fuel |-> NoFuel, pages |-> p, known |-> K]
  BY DEF Frame, Opened
<1> HIDE DEF K
<1>3. K \in SUBSET ObjVal
  BY <1>1 DEF Closed, IsObj, ObjVal
<1>4. f.rel = <<>> /\ f.known = K /\ f.fuel = NoFuel
  BY <1>2
<1>5. f \in FrameType
  <2>1. NoFuel \in [total : Nat, consumed : Nat, grown : Nat]
    BY DEF NoFuel
  <2> DEFINE e == <<>>
             C == DOMAIN net.contracts \cup {None}
  <2>2. e \in Seq(ObjVal) /\ c \in C
    OBVIOUS
  <2>3. f = [contract |-> c, try |-> try, rel |-> e, fuel |-> NoFuel, pages |-> p, known |-> K]
    BY <1>2
  <2>4. FrameType = [contract : C, try : BOOLEAN, rel : Seq(ObjVal),
                     fuel : [total : Nat, consumed : Nat, grown : Nat], pages : Nat, known : SUBSET ObjVal]
    BY DEF FrameType
  <2> HIDE DEF e, C
  <2>5. f.contract \in C /\ f.rel \in Seq(ObjVal) /\ f.pages \in Nat /\ f.known \in SUBSET ObjVal
    BY <1>3, <2>2, <2>3
  <2>6. f.fuel \in [total : Nat, consumed : Nat, grown : Nat]
    BY <2>1, <2>3
  <2>7. f.try \in BOOLEAN
    BY <2>3
  <2>8. f = [contract |-> f.contract, try |-> f.try, rel |-> f.rel, fuel |-> f.fuel, pages |-> f.pages,
             known |-> f.known]
    BY <2>3
  <2> QED BY <2>4, <2>5, <2>6, <2>7, <2>8
<1>6. Isolated(os, f)
  <2>1. 1..Len(f.rel) = {}
    BY <1>4, NullSeq
  <2> QED BY <1>1, <1>4, <2>1 DEF Isolated
<1> QED BY <1>1, <1>4, <1>5, <1>6

(* The charges of push_context.                                            *)
LEMMA PushCharges ==
    Charges(<<<<"MemCpy", 1, 1>>>> \o bulk_init_cpy(1))
    /\ Charges(bulk_init_cpy(1) \o <<<<"MemCpy", 1, 1>>>>) /\ Charges(bulk_init_cpy(1))
<1> DEFINE a == <<<<"MemCpy", 1, 1>>>>
           b == bulk_init_cpy(1)
<1>1. Charges(a) /\ Charges(b) /\ b \in Seq(Triple)
  BY LinearCharge, BulkCharges
<1>2. a \in Seq(Triple)
  <2>1. "MemCpy" \in ContractCostType /\ 1 \in Int
    BY TypesInUse
  <2> QED BY <2>1, TripleSeq
<1> HIDE DEF a, b
<1>3. Charges(a \o b) /\ Charges(b \o a)
  BY <1>1, <1>2, ChargesJoined
<1> QED BY <1>1, <1>3 DEF a, b

(* f is on top, or an error is on its way.                                 *)
PushedOn(h, f, g) ==
    /\ Ready(g) /\ g.objs = h.objs /\ g.bud.insns = h.bud.insns
    /\ \/ g.err # "Ok" /\ g.stack = h.stack
       \/ g.err = "Ok" /\ Len(g.stack) = Len(h.stack) + 1 /\ g.stack[Len(g.stack)] = f

(* A context is pushed with its authorization frame, or the error is one   *)
(* no contract can catch.                                                  *)
LEMMA PushReady ==
    ASSUME InNetwork, NEW h, Ready(h), NEW f \in FrameType, Isolated(h.objs, f), f.fuel = NoFuel,
           NEW g, g = push_context(h, f)
    PROVE  PushedOn(h, f, g)
<1>1. CASE h.err # "Ok"
  <2>1. g = h
    BY <1>1 DEF push_context
  <2> QED BY <1>1, <2>1 DEF PushedOn
<1>2. CASE h.err = "Ok"
  <2> DEFINE q == <<<<"MemCpy", 1, 1>>>> \o bulk_init_cpy(1)
             k == [h EXCEPT !.auth = h.auth + 1]
             c == Charge(h, q)
             x == Charge(k, q)
  <2>0. IsHost(h) /\ HostOK(h) /\ h.auth \in Nat /\ h.auth = Len(h.stack) /\ Len(h.stack) \in Nat
    <3>1. IsHost(h) /\ HostOK(h) /\ AlignedOK(h)
      BY DEF Ready, HostOK
    <3> QED BY <1>2, <3>1 DEF AlignedOK, Recoverable
  <2>1. g = Pushed(x, f)
    BY <1>2 DEF push_context
  <2>2. k = [bud |-> h.bud, objs |-> h.objs, stack |-> h.stack, auth |-> h.auth + 1, err |-> h.err, res |-> h.res]
    BY <2>0 DEF IsHost
  <2> HIDE DEF q, k
  <2>3. k.bud = h.bud /\ k.objs = h.objs /\ k.stack = h.stack /\ k.auth = h.auth + 1
        /\ k.err = h.err /\ k.res = h.res /\ IsHost(k)
    BY <2>2 DEF IsHost
  <2>4. Quiet(h, c)
    BY <2>0, PushCharges, ChargeQuiet DEF q
  <2> DEFINE r == charge_all(net, h.bud, q)
  <2>5. c = [[h EXCEPT !.bud = r.b] EXCEPT !.err = r.err]
    BY <1>2 DEF Charge, Charged
  <2>6. x = [[k EXCEPT !.bud = r.b] EXCEPT !.err = r.err]
    BY <1>2, <2>3 DEF Charge, Charged
  <2> HIDE DEF r, x, c
  <2>7. c.bud = r.b /\ c.err = r.err
    <3> DEFINE rb == r.b
               re == r.err
    <3>1. c = [[h EXCEPT !.bud = rb] EXCEPT !.err = re]
      BY <2>5
    <3> HIDE DEF rb, re
    <3>2. c.bud = rb /\ c.err = re
      BY <2>0, <3>1 DEF IsHost
    <3> QED BY <3>2 DEF rb, re
  <2>8. x = [bud |-> c.bud, objs |-> h.objs, stack |-> h.stack, auth |-> h.auth + 1, err |-> c.err, res |-> h.res]
    <3> DEFINE rb == r.b
               re == r.err
    <3>1. x = [[k EXCEPT !.bud = rb] EXCEPT !.err = re]
      BY <2>6
    <3> HIDE DEF rb, re
    <3>2. x = [bud |-> rb, objs |-> h.objs, stack |-> h.stack, auth |-> h.auth + 1, err |-> re, res |-> h.res]
      BY <2>2, <3>1
    <3> QED BY <2>7, <3>2 DEF rb, re
  <2>9. x.bud = c.bud /\ x.objs = h.objs /\ x.stack = h.stack /\ x.auth = h.auth + 1
        /\ x.err = c.err /\ x.res = h.res /\ IsHost(x)
    BY <2>8 DEF IsHost
  <2>10. Ready(c) /\ c.stack = h.stack /\ c.objs = h.objs /\ c.res = h.res
         /\ c.bud.insns = h.bud.insns
    BY <2>4, QuietReady DEF Quiet, Spends
  <2>11. c.err \in {"Ok", "ExceededLimit"}
    <3>1. IsModel(net) /\ IsBudget(h.bud) /\ Charges(q)
      BY <2>0, NetworkModel, PushCharges DEF HostOK, BudgetOK, q
    <3>2. r.err \in {"Ok", "ExceededLimit"}
      BY <3>1, ChargesSpend DEF r
    <3> QED BY <2>7, <3>2
  <2>12. CASE c.err # "Ok"
    <3>1. g = x
      BY <2>1, <2>9, <2>12 DEF Pushed
    <3>2. AlignedOK(x)
      BY <2>0, <2>9, <2>11, <2>12 DEF AlignedOK, Recoverable
    <3>3. BudgetOK(x)
      BY <2>9, <2>10 DEF Ready, HostOK, BudgetOK
    <3>4. HostOK(x)
      BY <2>9, <2>10, <3>2, <3>3 DEF Ready, HostOK
    <3>5. Paid(x)
      BY <2>9, <2>10 DEF Ready, Paid
    <3>6. Ready(x)
      BY <2>9, <2>10, <3>4, <3>5 DEF Ready
    <3> QED BY <2>9, <2>10, <2>12, <3>1, <3>6 DEF PushedOn
  <2>13. CASE c.err = "Ok"
    <3> DEFINE tt == Append(h.stack, f)
    <3>1. g = [x EXCEPT !.stack = tt]
      BY <2>1, <2>9, <2>13 DEF Pushed
    <3>2. h.stack \in Seq(FrameType)
      BY <2>0 DEF HostOK, StackOK
    <3>3. /\ tt \in Seq(FrameType) /\ Len(tt) = Len(h.stack) + 1
          /\ \A i \in 1..Len(h.stack) : tt[i] = h.stack[i]
          /\ tt[Len(h.stack) + 1] = f
      BY <3>2, PushLast
    <3> HIDE DEF tt
    <3>4. g = [bud |-> c.bud, objs |-> h.objs, stack |-> tt, auth |-> h.auth + 1, err |-> c.err, res |-> h.res]
      BY <2>8, <3>1
    <3>5. g.bud = c.bud /\ g.objs = h.objs /\ g.stack = tt /\ g.auth = h.auth + 1
          /\ g.err = "Ok" /\ g.res = h.res /\ IsHost(g)
      BY <2>13, <3>4 DEF IsHost
    <3>6. \A i \in 1..Len(tt) : i \in 1..Len(h.stack) \/ i = Len(h.stack) + 1
      BY <2>0, <3>3
    <3>7. StackOK(h.objs, tt) /\ Clean(tt)
      BY <2>0, <3>3, <3>6 DEF HostOK, StackOK, Ready, Clean
    <3>8. AlignedOK(g)
      BY <2>0, <3>3, <3>5 DEF AlignedOK
    <3>9. BudgetOK(g)
      BY <2>10, <2>13, <3>5 DEF Ready, HostOK, BudgetOK
    <3>10. HostOK(g)
      <4>1. "Ok" \in Errors
        BY DEF Errors
      <4> QED BY <2>0, <3>5, <3>7, <3>8, <3>9, <4>1 DEF HostOK
    <3>11. Paid(g)
      <4>1. Settled(c)
        BY <2>10, CleanIsSettled DEF Ready, HostOK
      <4>2. Settled(g)
        BY <2>13, <3>5, <4>1 DEF Settled
      <4> QED BY <3>5, <3>7, <4>2, CleanIsSettled
    <3>12. tt # <<>>
      BY <2>0, <3>3
    <3>13. Ready(g)
      BY <3>5, <3>7, <3>10, <3>11, <3>12 DEF Ready
    <3> QED BY <2>10, <3>3, <3>5, <3>13 DEF PushedOn
  <2> QED BY <2>11, <2>12, <2>13
<1> QED BY <1>1, <1>2

(* A call up to the guest's first instruction: the frame is pushed, or an  *)
(* error is on its way to the caller.                                      *)
LEMMA InvokeReady ==
    ASSUME InNetwork, NEW h, Ready(h), NEW c \in DOMAIN net.contracts, NEW v, v = Small \/ IsObj(h.objs, v),
           NEW try \in BOOLEAN, NEW g, g = Invoke(h, c, v, try)
    PROVE  /\ Ready(g) /\ g.objs = h.objs /\ g.bud.insns = h.bud.insns
           /\ \/ g.err # "Ok" /\ g.stack = h.stack
              \/ g.err = "Ok" /\ Len(g.stack) = Len(h.stack) + 1 /\ KnownTop(g, v)
<1> DEFINE e == IF \E i \in DOMAIN h.stack : h.stack[i].contract = c THEN "InvalidAction" ELSE "Ok"
           a == Fail(h, e)
           p == Charge(a, bulk_init_cpy(1))
           b == instantiate_vm(p, net.contracts[c])
           w == net.contracts[c].wasm.pages
           f == [Frame(h.objs, c, v, try) EXCEPT !.pages = w]
           l == IF Len(b.stack) >= net.depth THEN "DepthLimit" ELSE "Ok"
           x == Fail(b, l)
<1>1. g = push_context(x, f)
  BY DEF Invoke, with_frame
<1>2. HostOK(h) /\ ObjectsOK(h.objs)
  BY DEF Ready, HostOK
<1>3. IsWasm(net.contracts[c].wasm) /\ w \in Nat
  BY NetworkModel DEF IsWasm
<1>4. e \in Errors /\ e # "ExceededLimit"
  BY DEF Errors
<1> HIDE DEF e
<1>5. Quiet(h, a)
  BY <1>2, <1>4, FailQuiet
<1> HIDE DEF a
<1>6. Quiet(h, p)
  BY <1>2, <1>5, PushCharges, ThenCharge
<1> HIDE DEF p
<1>7. Quiet(h, b)
  BY <1>2, <1>3, <1>6, InstantiateVmQuiet
<1> HIDE DEF b
<1>8. l \in Errors /\ l # "ExceededLimit"
  BY DEF Errors
<1> HIDE DEF l
<1>9. Quiet(h, x)
  BY <1>2, <1>7, <1>8, ThenFail
<1> HIDE DEF x
<1>10. /\ f \in FrameType /\ Isolated(h.objs, f) /\ f.fuel = NoFuel
       /\ v = Small \/ v \in f.known
  <2> HIDE DEF w
  <2>1. c \in DOMAIN net.contracts \cup {None}
    OBVIOUS
  <2>2. f = Opened(h.objs, c, v, try, w)
    BY DEF Opened
  <2> HIDE DEF f
  <2> QED BY <1>2, <1>3, <2>1, <2>2, FrameOK
<1> HIDE DEF f
<1>11. Ready(x) /\ x.objs = h.objs /\ x.stack = h.stack /\ x.bud.insns = h.bud.insns
  BY <1>9, QuietReady DEF Quiet, Spends
<1>12. PushedOn(x, f, g)
  <2>1. Isolated(x.objs, f)
    BY <1>10, <1>11
  <2> QED BY <1>1, <1>10, <1>11, <2>1, PushReady
<1>13. g.stack[Len(g.stack)] = f => KnownTop(g, v)
  BY <1>10 DEF KnownTop
<1> QED BY <1>11, <1>12, <1>13 DEF PushedOn

(* The guest's function is entered.                                        *)
LEMMA EnterDone ==
    ASSUME InNetwork, NEW h, Ready(h), Len(h.stack) > 1, NEW v, KnownTop(h, v), NEW g, g = Enter(h, v)
    PROVE  Done(g) /\ g.bud.insns = h.bud.insns
<1> DEFINE p == Charge(h, bulk_init_cpy(1))
           a == ToRelative(p, v)
           b == Charge(a, <<<<"InvokeVmFunction", 1, NoInput>>>>)
           e == IF net.contracts[h.stack[TopIndex(h)].contract].wasm.noop
                THEN "MissingValue" ELSE "Ok"
           c == Fail(b, e)
<1>1. g = Refuelled(c)
  BY DEF Enter
<1>2. Quiet(h, p)
  BY PushCharges, ChargeQuiet DEF Ready
<1> HIDE DEF p
<1>3. Ready(p) /\ KnownTop(p, v) /\ p.bud.insns = h.bud.insns /\ p.stack = h.stack
  BY <1>2, QuietReady, QuietKnown DEF Quiet, Spends
<1>4. Ready(a) /\ a.bud.insns = p.bud.insns /\ Len(a.stack) = Len(p.stack)
  BY <1>3, ToRelativeReady
<1> HIDE DEF a
<1>5. Charges(<<<<"InvokeVmFunction", 1, NoInput>>>>)
  BY ConstantCharge
<1>6. Quiet(a, b)
  BY <1>4, <1>5, ChargeQuiet DEF Ready
<1> HIDE DEF b
<1>7. e \in Errors /\ e # "ExceededLimit"
  BY DEF Errors
<1> HIDE DEF e
<1>8. Quiet(a, c)
  BY <1>4, <1>6, <1>7, ThenFail DEF Ready
<1> HIDE DEF c
<1>9. Ready(c) /\ c.bud.insns = a.bud.insns /\ c.stack = a.stack
  BY <1>4, <1>8, QuietReady DEF Quiet, Spends
<1> QED BY <1>1, <1>3, <1>4, <1>9, RefuelledDone

(* An error that a contract may catch becomes a value.                     *)
LEMMA OutcomeReady ==
    ASSUME NEW h, Ready(h), NEW try, NEW g, g = Outcome(h, try)
    PROVE  Ready(g) /\ g.objs = h.objs /\ g.stack = h.stack /\ g.bud.insns = h.bud.insns
<1>1. CASE ~(h.err # "Ok" /\ try /\ Recoverable(h.err))
  <2>1. g = h
    BY <1>1 DEF Outcome
  <2> QED BY <2>1
<1>2. CASE h.err # "Ok" /\ try /\ Recoverable(h.err)
  <2>1. g = [[h EXCEPT !.err = "Ok"] EXCEPT !.res = Small]
    BY <1>2 DEF Outcome
  <2>2. IsHost(h)
    BY DEF Ready, HostOK
  <2>3. g = [bud |-> h.bud, objs |-> h.objs, stack |-> h.stack, auth |-> h.auth, err |-> "Ok", res |-> Small]
    BY <2>1, <2>2 DEF IsHost
  <2>4. g.bud = h.bud /\ g.objs = h.objs /\ g.stack = h.stack /\ g.auth = h.auth
        /\ g.err = "Ok" /\ g.res = Small /\ IsHost(g)
    BY <2>3 DEF IsHost
  <2>5. h.err # "ExceededLimit" /\ Recoverable(h.err)
    BY <1>2 DEF Recoverable
  <2>6. BudgetOK(g)
    BY <2>4, <2>5 DEF Ready, HostOK, BudgetOK
  <2>7. AlignedOK(g)
    BY <2>4, <2>5 DEF Ready, HostOK, AlignedOK
  <2>8. "Ok" \in Errors
    BY DEF Errors
  <2>9. HostOK(g)
    BY <2>4, <2>6, <2>7, <2>8 DEF Ready, HostOK
  <2>10. Paid(g)
    BY <2>4, <2>5 DEF Ready, Paid
  <2> QED BY <2>4, <2>9, <2>10 DEF Ready
<1> QED BY <1>1, <1>2

(* The caller gets the outcome.                                            *)
LEMMA DeliveredDone ==
    ASSUME InNetwork, NEW h, Ready(h), NEW g, g = Delivered(h)
    PROVE  Done(g) /\ g.bud.insns = h.bud.insns
<1>0. Len(h.stack) \in Nat /\ ObjectsOK(h.objs) /\ (h.res = Small \/ IsObj(h.objs, h.res))
  BY TopFrame DEF Ready, HostOK
<1>1. CASE Len(h.stack) <= 1
  BY <1>1, ReadyIsDone DEF Delivered
<1>2. CASE ~(Len(h.stack) <= 1) /\ h.err # "Ok"
  <2>1. g = Resume(h) /\ Len(h.stack) > 1
    BY <1>0, <1>2 DEF Delivered
  <2> QED BY <1>2, <2>1, ResumeDone
<1>3. CASE ~(Len(h.stack) <= 1) /\ h.err = "Ok"
  <2> DEFINE K == Reachable(h.objs, {h.res})
             k == Knows(h, K)
  <2>1. g = Resume(k) /\ Len(h.stack) > 1
    BY <1>0, <1>3 DEF Delivered
  <2>2. Closed(h.objs, K) /\ {h.res} \ {Small} \subseteq K
    BY <1>0, ReachedClosed
  <2>5. Closed(h.objs, h.stack[Len(h.stack)].known \cup K)
    <3>1. Closed(h.objs, h.stack[Len(h.stack)].known)
      BY TopFrame DEF Ready, HostOK, Isolated
    <3> HIDE DEF K
    <3> QED BY <2>2, <3>1 DEF Closed
  <2> HIDE DEF K
  <2>3. /\ Ready(k) /\ k.err = h.err /\ k.res = h.res /\ k.bud.insns = h.bud.insns
        /\ Len(k.stack) = Len(h.stack)
        /\ \A v \in K : v = Small \/ KnownTop(k, v)
    BY <2>5, KnowsReady
  <2> HIDE DEF k
  <2>4. KnownTop(k, k.res)
    <3>1. KnownTop(k, Small)
      BY DEF KnownTop
    <3> QED BY <2>2, <2>3, <3>1
  <2> QED BY <2>1, <2>3, <2>4, ResumeDone
<1> QED BY <1>1, <1>2, <1>3

(* Delivering a result, whatever it is, gives control back.                *)
LEMMA DeliverDone ==
    ASSUME InNetwork, NEW h, Ready(h), NEW try, NEW g, g = Deliver(h, try)
    PROVE  Done(g) /\ g.bud.insns = h.bud.insns
<1> DEFINE o == Outcome(h, try)
<1>1. Ready(o) /\ o.bud.insns = h.bud.insns
  BY OutcomeReady
<1>2. g = Delivered(o)
  BY DEF Deliver
<1> HIDE DEF o
<1> QED BY <1>1, <1>2, DeliveredDone

(* A call, from the checks to the running callee or to the error that its  *)
(* caller sees, gives control back.                                        *)
LEMMA CallDone ==
    ASSUME InNetwork, NEW h, Ready(h), NEW c \in DOMAIN net.contracts, NEW v, v = Small \/ IsObj(h.objs, v),
           NEW try \in BOOLEAN, NEW g, g = CallFrom(h, c, v, try)
    PROVE  Done(g) /\ g.bud.insns = h.bud.insns
<1> DEFINE i == Invoke(h, c, v, try)
<1>1. /\ Ready(i) /\ i.objs = h.objs /\ i.bud.insns = h.bud.insns
      /\ \/ i.err # "Ok" /\ i.stack = h.stack
         \/ i.err = "Ok" /\ Len(i.stack) = Len(h.stack) + 1 /\ KnownTop(i, v)
  BY InvokeReady
<1>2. g = IF Len(i.stack) > Len(h.stack) THEN Enter(i, v) ELSE Deliver(i, try)
  BY DEF CallFrom
<1> HIDE DEF i
<1>3. Len(h.stack) \in Nat /\ Len(h.stack) >= 1
  BY TopFrame DEF Ready, HostOK
<1>4. CASE i.stack = h.stack
  <2>1. g = Deliver(i, try)
    BY <1>2, <1>3, <1>4
  <2> QED BY <1>1, <2>1, DeliverDone
<1>5. CASE Len(i.stack) = Len(h.stack) + 1 /\ KnownTop(i, v)
  <2>1. g = Enter(i, v) /\ Len(i.stack) > 1
    BY <1>2, <1>3, <1>5
  <2> QED BY <1>1, <1>5, <2>1, EnterDone
<1> QED BY <1>1, <1>4, <1>5

(* A context is popped with its authorization frame: its fuel goes with    *)
(* it, all of it charged.                                                  *)
LEMMA PopReady ==
    ASSUME NEW h, HostOK(h), Lent(h.stack), Settled(h), Len(h.stack) > 1, NEW g, g = pop_context(h)
    PROVE  Ready(g) /\ g.objs = h.objs /\ Len(g.stack) = Len(h.stack) - 1 /\ g.err = h.err
<1> DEFINE tt == SubSeq(h.stack, 1, Len(h.stack) - 1)
<1>1. h.stack \in Seq(FrameType) /\ Len(h.stack) \in Nat /\ Len(h.stack) > 0
  BY DEF HostOK, StackOK
<1>2. /\ tt \in Seq(FrameType) /\ Len(tt) = Len(h.stack) - 1
      /\ \A i \in 1..Len(tt) : tt[i] = h.stack[i]
  BY <1>1, DropLast
<1>3. g = [[h EXCEPT !.stack = tt] EXCEPT !.auth = h.auth - 1]
  BY DEF pop_context
<1> HIDE DEF tt
<1>4. g = [bud |-> h.bud, objs |-> h.objs, stack |-> tt, auth |-> h.auth - 1, err |-> h.err, res |-> h.res]
  BY <1>3 DEF HostOK, IsHost
<1>5. g.bud = h.bud /\ g.objs = h.objs /\ g.stack = tt /\ g.auth = h.auth - 1
      /\ g.err = h.err /\ g.res = h.res /\ IsHost(g)
  BY <1>4 DEF IsHost
<1>6. \A i \in 1..Len(tt) : i \in 1..Len(h.stack)
  BY <1>1, <1>2
<1>7. StackOK(h.objs, tt)
  BY <1>2, <1>6 DEF HostOK, StackOK
<1>8. Clean(tt)
  <2>1. \A i \in 1..Len(tt) : i < Len(h.stack)
    BY <1>1, <1>2
  <2> QED BY <1>2, <1>6, <2>1 DEF Lent, Clean
<1>9. tt # <<>> /\ Len(tt) \in Nat
  <2>1. Len(tt) > 0 /\ Len(tt) \in Nat
    BY <1>1, <1>2
  <2> QED BY <2>1
<1>10. AlignedOK(g)
  <2>1. h.auth \in Nat /\ h.auth >= Len(h.stack) /\ (Recoverable(h.err) => h.auth = Len(h.stack))
    BY DEF HostOK, AlignedOK
  <2>2. h.auth - 1 \in Nat /\ h.auth - 1 >= Len(tt) /\ (Recoverable(h.err) => h.auth - 1 = Len(tt))
    BY <1>1, <1>2, <2>1
  <2> QED BY <1>5, <2>2 DEF AlignedOK
<1>11. BudgetOK(g)
  BY <1>5 DEF HostOK, BudgetOK
<1>12. HostOK(g)
  BY <1>5, <1>7, <1>10, <1>11 DEF HostOK
<1>13. Settled(g)
  BY <1>5 DEF Settled
<1>14. Paid(g)
  BY <1>5, <1>7, <1>8, <1>13, CleanIsSettled
<1> QED BY <1>2, <1>5, <1>8, <1>9, <1>12, <1>14 DEF Ready

-----------------------------------------------------------------------------
(* The inductive invariant: the host between two steps is one that has     *)
(* given control back.                                                     *)

Now == [Host EXCEPT !.err = err]

VmInv ==
    /\ InNetwork /\ uploaded \subseteq net.wasms
    /\ bud.insns = 0
    /\ HostOK(Now) /\ Paid(Now) /\ Lent(stack) /\ Priced(Now)

(* The fields of the host between two steps.                               *)
LEMMA NowIs ==
    /\ Now = [bud |-> bud, objs |-> objs, stack |-> stack, auth |-> auth, err |-> err, res |-> Small]
    /\ Now.bud = bud /\ Now.objs = objs /\ Now.stack = stack /\ Now.auth = auth /\ Now.err = err
    /\ Now.res = Small /\ IsHost(Now)
<1>1. Now = [bud |-> bud, objs |-> objs, stack |-> stack, auth |-> auth, err |-> err, res |-> Small]
  BY DEF Now, Host
<1> QED BY <1>1 DEF IsHost

(* What the invariant says of the state after a step.                      *)
LEMMA InvAfter ==
    ASSUME InNetwork, network' = network, uploaded' \subseteq net.wasms, bud'.insns = 0,
           IsBudget(bud'), ~bud'.shadow, err' # "ExceededLimit" => WithinCpu(bud'),
           err' \in Errors, ObjectsOK(objs'), StackOK(objs', stack'),
           auth' \in Nat, auth' >= Len(stack'), Recoverable(err') => auth' = Len(stack'),
           unpaid' \in Int, unpaid' <= Burnt(stack'), err' # "ExceededLimit" => unpaid' = Burnt(stack'),
           Lent(stack'),
           Len(stack') > 1 /\ err' = "Ok" =>
               bud'.cpu.total + net.cpu["WasmInsnExec"][1] * stack'[Len(stack')].fuel.total
                 <= bud'.cpu.limit + stack'[Len(stack')].fuel.grown
    PROVE  VmInv'
<1>1. net' = net
  BY DEF net
<1>2. FrameType' = FrameType
  BY <1>1 DEF FrameType
<1>3. /\ (Now.bud)' = bud' /\ (Now.objs)' = objs' /\ (Now.stack)' = stack' /\ (Now.auth)' = auth'
      /\ (Now.err)' = err' /\ (Now.res)' = Small /\ IsHost(Now)'
  <2>1. Now' = [bud |-> bud', objs |-> objs', stack |-> stack', auth |-> auth', err |-> err', res |-> Small]
    BY DEF Now, Host
  <2> QED BY <2>1 DEF IsHost
<1>4. InNetwork' /\ uploaded' \subseteq net'.wasms
  BY <1>1 DEF InNetwork
<1>5. StackOK(Now.objs, Now.stack)'
  BY <1>2, <1>3 DEF StackOK
<1>6. BudgetOK(Now)'
  BY <1>3 DEF BudgetOK
<1>7. AlignedOK(Now)'
  BY <1>3 DEF AlignedOK
<1>8. HostOK(Now)'
  BY <1>3, <1>5, <1>6, <1>7 DEF HostOK
<1>9. Paid(Now)'
  <2>1. unpaid' - bud'.insns = unpaid'
    OBVIOUS
  <2> QED BY <1>3, <2>1 DEF Paid
<1>10. Priced(Now)'
  BY <1>1, <1>3 DEF Priced
<1> QED BY <1>4, <1>8, <1>9, <1>10 DEF VmInv

(* A step that ends with the host having given control back.               *)
LEMMA BecomeInv ==
    ASSUME InNetwork, network' = network, uploaded' \subseteq net.wasms, NEW h, Done(h), Become(h)
    PROVE  VmInv'
<1>1. bud' = [h.bud EXCEPT !.insns = 0] /\ unpaid' = unpaid - h.bud.insns
      /\ objs' = h.objs /\ stack' = h.stack /\ auth' = h.auth /\ err' = h.err
  BY DEF Become
<1>2. HostOK(h) /\ Paid(h) /\ Lent(h.stack) /\ Priced(h)
  BY DEF Done
<1>3. IsBudget(h.bud) /\ ~h.bud.shadow /\ (h.err # "ExceededLimit" => WithinCpu(h.bud))
  BY <1>2 DEF HostOK, BudgetOK
<1>4. IsBudget(bud') /\ bud'.insns = 0 /\ bud'.cpu = h.bud.cpu /\ bud'.shadow = h.bud.shadow
  BY <1>1, <1>3 DEF IsBudget
<1>5. err' # "ExceededLimit" => WithinCpu(bud')
  BY <1>1, <1>3, <1>4 DEF WithinCpu
<1>6. err' \in Errors /\ ObjectsOK(objs') /\ StackOK(objs', stack') /\ auth' \in Nat
      /\ auth' >= Len(stack') /\ (Recoverable(err') => auth' = Len(stack'))
  BY <1>1, <1>2 DEF HostOK, AlignedOK
<1>7. unpaid' \in Int /\ unpaid' <= Burnt(stack') /\ (err' # "ExceededLimit" => unpaid' = Burnt(stack'))
  <2>1. h.bud.insns \in Int
    BY <1>3 DEF IsBudget
  <2> QED BY <1>1, <1>2, <2>1 DEF Paid
<1>8. Len(stack') > 1 /\ err' = "Ok" =>
        bud'.cpu.total + net.cpu["WasmInsnExec"][1] * stack'[Len(stack')].fuel.total
          <= bud'.cpu.limit + stack'[Len(stack')].fuel.grown
  BY <1>1, <1>2, <1>4 DEF Priced
<1>9. Lent(stack') /\ ~bud'.shadow
  BY <1>1, <1>2, <1>3, <1>4
<1> QED BY <1>4, <1>5, <1>6, <1>7, <1>8, <1>9, InvAfter

(* What the invariant says of the host before a step.                      *)
LEMMA InvBefore ==
    ASSUME VmInv
    PROVE  /\ InNetwork /\ uploaded \subseteq net.wasms
           /\ bud.insns = 0 /\ IsBudget(bud) /\ ~bud.shadow /\ (err # "ExceededLimit" => WithinCpu(bud))
           /\ err \in Errors /\ ObjectsOK(objs) /\ StackOK(objs, stack)
           /\ auth \in Nat /\ auth >= Len(stack) /\ (Recoverable(err) => auth = Len(stack))
           /\ unpaid \in Int /\ unpaid <= Burnt(stack) /\ (err # "ExceededLimit" => unpaid = Burnt(stack))
           /\ Lent(stack) /\ Len(stack) \in Nat
           /\ Len(stack) > 1 /\ err = "Ok" =>
               bud.cpu.total + net.cpu["WasmInsnExec"][1] * stack[Len(stack)].fuel.total
                 <= bud.cpu.limit + stack[Len(stack)].fuel.grown
<1>1. InNetwork /\ uploaded \subseteq net.wasms /\ bud.insns = 0 /\ HostOK(Now) /\ Paid(Now)
      /\ Lent(stack) /\ Priced(Now)
  BY DEF VmInv
<1>2. IsBudget(bud) /\ ~bud.shadow /\ (err # "ExceededLimit" => WithinCpu(bud))
      /\ err \in Errors /\ ObjectsOK(objs) /\ StackOK(objs, stack)
  BY <1>1, NowIs DEF HostOK, BudgetOK
<1>3. auth \in Nat /\ auth >= Len(stack) /\ (Recoverable(err) => auth = Len(stack))
  BY <1>1, NowIs DEF HostOK, AlignedOK
<1>4. unpaid \in Int /\ unpaid <= Burnt(stack) /\ (err # "ExceededLimit" => unpaid = Burnt(stack))
  <2>1. unpaid \in Int /\ unpaid - bud.insns <= Burnt(stack)
        /\ (err # "ExceededLimit" => unpaid - bud.insns = Burnt(stack))
    BY <1>1, NowIs DEF Paid
  <2>2. unpaid - bud.insns = unpaid
    BY <1>1, <2>1
  <2> QED BY <2>1, <2>2
<1>5. Len(stack) > 1 /\ err = "Ok" =>
        bud.cpu.total + net.cpu["WasmInsnExec"][1] * stack[Len(stack)].fuel.total
          <= bud.cpu.limit + stack[Len(stack)].fuel.grown
  BY <1>1, NowIs DEF Priced
<1>6. Len(stack) \in Nat
  BY <1>2 DEF StackOK
<1> QED BY <1>1, <1>2, <1>3, <1>4, <1>5, <1>6

(* A guest runs: the host is as the last step left it.                     *)
LEMMA GuestHost ==
    ASSUME VmInv, Guest
    PROVE  /\ HostOK(Host) /\ Paid(Host) /\ Lent(Host.stack) /\ Host.stack # <<>> /\ InNetwork
           /\ Host.objs = objs /\ Host.stack = stack /\ err = "Ok" /\ Len(stack) > 1 /\ Len(stack) \in Nat
           /\ Top \in FrameType /\ Isolated(objs, Top) /\ Top = stack[Len(stack)] /\ Host.err = "Ok"
<1>1. err = "Ok" /\ Len(stack) > 1
  BY DEF Guest
<1>2. Now = Host
  BY <1>1 DEF Now, Host
<1>3. HostOK(Host) /\ Paid(Host) /\ Lent(Host.stack) /\ Host.objs = objs /\ Host.stack = stack /\ InNetwork
      /\ Host.err = "Ok"
  BY <1>1, <1>2, NowIs DEF VmInv
<1>4. stack # <<>>
  BY <1>1
<1>5. StackOK(objs, stack) /\ Len(stack) \in Nat
  BY InvBefore
<1>6. Top \in FrameType /\ Isolated(objs, Top) /\ Top = stack[Len(stack)]
  BY <1>4, <1>5, TopFrame DEF Top
<1> QED BY <1>1, <1>3, <1>4, <1>5, <1>6

-----------------------------------------------------------------------------
(* The first call.                                                         *)

(* A new host is in control, with one object.                              *)
LEMMA NewHostReady ==
    ASSUME InNetwork, unpaid = 0
    PROVE  /\ Ready(NewHost) /\ NewHost.bud.insns = 0
           /\ IsObj(NewHost.objs, [tag |-> "U64", handle |-> 1])
<1> DEFINE o == [tag |-> "U64", kids |-> <<>>]
           os == <<o, o>>
           b == try_from_configs(net.cpu_limit, net.mem_limit, net.cpu_shadow, net.mem_shadow)
           st == <<HostFrame>>
           v == [tag |-> "U64", handle |-> 1]
<1>1. /\ NewHost.bud = b /\ NewHost.objs = os /\ NewHost.stack = st /\ NewHost.auth = 1
      /\ NewHost.err = "Ok" /\ NewHost.res = Small /\ IsHost(NewHost)
  BY DEF NewHost, IsHost
<1>2. os \in Seq({o}) /\ Len(os) = 2 /\ \A i \in 1..2 : os[i] = o
  OBVIOUS
<1>3. IsSeq(os)
  BY <1>2, SeqIsSeq
<1>4. o.tag = "U64" /\ DOMAIN o.kids = {}
  OBVIOUS
<1> HIDE DEF o, os
<1>5. ObjectsOK(os)
  BY <1>2, <1>3, <1>4 DEF ObjectsOK, Tags
<1>6. IsObj(os, v)
  <2>1. v.handle = 1 /\ v.tag = "U64" /\ v \in [tag : Tags, handle : Nat]
    BY DEF Tags
  <2>2. handle_to_index(1) = 0 /\ ~is_relative_object_handle(1)
    BY DEF handle_to_index, is_relative_object_handle
  <2> HIDE DEF v
  <2> QED BY <1>2, <1>4, <2>1, <2>2 DEF IsObj
<1>7. IsBudget(b) /\ ~b.shadow /\ b.insns = 0 /\ WithinCpu(b)
  <2>1. net.cpu_limit \in Nat /\ net.mem_limit \in Nat /\ net.cpu_shadow \in Nat /\ net.mem_shadow \in Nat
    BY VmAssumption DEF InNetwork, net
  <2>2. U64Max \in Nat
    BY BudgetAssumption
  <2>3. \A l \in Nat, s \in Nat : Dimension(l, s) \in Dimensions
    BY <2>2 DEF Dimension, Dimensions
  <2>4. b = [cpu |-> Dimension(net.cpu_limit, net.cpu_shadow), mem |-> Dimension(net.mem_limit, net.mem_shadow),
             shadow |-> FALSE, insns |-> 0]
    BY DEF try_from_configs
  <2> HIDE DEF b
  <2>5. IsBudget(b) /\ b.insns = 0 /\ b.cpu = Dimension(net.cpu_limit, net.cpu_shadow)
    BY <2>1, <2>3, <2>4 DEF IsBudget
  <2>6. ~b.shadow
    BY <2>4
  <2>7. WithinCpu(b)
    BY <2>1, <2>5 DEF WithinCpu, Dimension
  <2> QED BY <2>5, <2>6, <2>7
<1> HIDE DEF b
<1> DEFINE f == HostFrame
<1>8. f \in FrameType /\ Isolated(os, f) /\ f.fuel = NoFuel
  <2> DEFINE e == <<>>
  <2>1. IsSeq(e) /\ Len(e) = 0 /\ 1..Len(e) = {}
    BY NullSeq
  <2>2. ObjectsOK(e)
    BY <2>1 DEF ObjectsOK
  <2>3. f = [Frame(e, None, Small, FALSE) EXCEPT !.pages = 0]
    <3> DEFINE K == Reachable(e, {Small})
               no == FALSE
               x == [contract |-> None, try |-> no, rel |-> e, fuel |-> NoFuel, pages |-> 0, known |-> K]
    <3>1. Frame(e, None, Small, FALSE) = x
      BY DEF Frame
    <3>2. f = Frame(e, None, Small, FALSE)
      BY DEF HostFrame
    <3>3. x = [x EXCEPT !.pages = 0]
      <4> HIDE DEF K, no, e
      <4> QED OBVIOUS
    <3> HIDE DEF x, f, e
    <3> QED BY <3>1, <3>2, <3>3
  <2> HIDE DEF e, f
  <2>4. f \in FrameType /\ Isolated(e, f) /\ f.fuel = NoFuel
    <3>1. FALSE \in BOOLEAN /\ None \in DOMAIN net.contracts \cup {None} /\ 0 \in Nat
      OBVIOUS
    <3> DEFINE no == FALSE
    <3>2. f = Opened(e, None, Small, no, 0) /\ no \in BOOLEAN
      BY <2>3 DEF Opened
    <3> HIDE DEF no
    <3> QED BY <2>2, <3>1, <3>2, FrameOK
  <2>5. f.known = {}
    <3>1. \A x : ~IsObj(e, x)
      <4>2. \A x : IsObj(e, x) => x \in [tag : Tags, handle : Nat] /\ handle_to_index(x.handle) < Len(e)
        BY DEF IsObj
      <4>3. \A x : x \in [tag : Tags, handle : Nat] => ~(handle_to_index(x.handle) < 0)
        BY DEF handle_to_index
      <4> QED BY <2>1, <4>2, <4>3
    <3> QED BY <2>4, <3>1 DEF Isolated, Closed
  <2>6. 1..Len(f.rel) = {}
    <3>1. \A j \in 1..Len(f.rel) : f.rel[j] \in f.known
      BY <2>4 DEF Isolated
    <3> QED BY <2>5, <3>1
  <2> QED BY <2>4, <2>5, <2>6 DEF Isolated, Closed
<1> HIDE DEF f
<1>9. st \in Seq(FrameType) /\ Len(st) = 1 /\ st[1] = f /\ st # <<>> /\ \A i \in 1..Len(st) : st[i] = f
  BY <1>8 DEF f
<1> HIDE DEF st
<1>10. StackOK(os, st) /\ Clean(st)
  BY <1>8, <1>9 DEF StackOK, Clean
<1>11. HostOK(NewHost)
  <2>1. "Ok" \in Errors
    BY DEF Errors
  <2>2. BudgetOK(NewHost)
    BY <1>1, <1>7 DEF BudgetOK
  <2>3. AlignedOK(NewHost)
    BY <1>1, <1>9 DEF AlignedOK
  <2> QED BY <1>1, <1>5, <1>10, <2>1, <2>2, <2>3 DEF HostOK
<1>12. Paid(NewHost)
  <2>1. Settled(NewHost)
    BY <1>1, <1>7 DEF Settled
  <2> QED BY <1>1, <1>10, <2>1, CleanIsSettled
<1> QED BY <1>1, <1>6, <1>7, <1>9, <1>10, <1>11, <1>12 DEF Ready

(* The invariant holds at first.                                           *)
LEMMA VmInit == Init => VmInv
<1> SUFFICES ASSUME Init PROVE VmInv
  OBVIOUS
<1> DEFINE v == [tag |-> "U64", handle |-> 1]
<1>1. InNetwork /\ uploaded = {} /\ unpaid = 0
  BY DEF Init, InNetwork
<1>2. PICK c \in DOMAIN net.contracts :
        \E h \in {CallFrom(NewHost, c, v, FALSE)} :
           /\ bud = h.bud /\ objs = h.objs /\ stack = h.stack /\ auth = h.auth /\ err = h.err
  BY DEF Init
<1> DEFINE h == CallFrom(NewHost, c, v, FALSE)
<1>3. bud = h.bud /\ objs = h.objs /\ stack = h.stack /\ auth = h.auth /\ err = h.err
  BY <1>2
<1>4. Ready(NewHost) /\ NewHost.bud.insns = 0 /\ IsObj(NewHost.objs, v)
  BY <1>1, NewHostReady
<1> HIDE DEF v
<1>5. Done(h) /\ h.bud.insns = NewHost.bud.insns
  <2> DEFINE n == NewHost
             no == FALSE
  <2>2. h = CallFrom(n, c, v, no) /\ Ready(n) /\ IsObj(n.objs, v) /\ no \in BOOLEAN
    BY <1>4
  <2> HIDE DEF h, n, no
  <2>3. Done(h) /\ h.bud.insns = n.bud.insns
    BY <1>1, <2>2, CallDone
  <2> QED BY <2>3 DEF n
<1> HIDE DEF h
<1>6. HostOK(h) /\ Paid(h) /\ Lent(h.stack) /\ Priced(h)
  BY <1>5 DEF Done
<1>7. HostOK(Now)
  <2>1. BudgetOK(Now)
    BY <1>3, <1>6, NowIs DEF HostOK, BudgetOK
  <2>2. AlignedOK(Now)
    BY <1>3, <1>6, NowIs DEF HostOK, AlignedOK
  <2> QED BY <1>3, <1>6, <2>1, <2>2, NowIs DEF HostOK
<1>8. Paid(Now)
  BY <1>3, <1>6, NowIs DEF Paid
<1>9. Priced(Now)
  BY <1>3, <1>6, NowIs DEF Priced
<1>10. uploaded \subseteq net.wasms /\ bud.insns = 0 /\ Lent(stack)
  BY <1>1, <1>3, <1>4, <1>5, <1>6
<1> QED BY <1>1, <1>7, <1>8, <1>9, <1>10 DEF VmInv

-----------------------------------------------------------------------------
(* Steps of the guest.                                                     *)

(* The guest executes instructions on the fuel it was lent, or runs out of *)
(* it.                                                                     *)
LEMMA StepExec ==
    ASSUME VmInv, NEW n \in net.quanta, Exec(n)
    PROVE  VmInv'
<1>1. Guest /\ network' = network /\ bud' = bud /\ objs' = objs /\ auth' = auth /\ uploaded' = uploaded
  BY DEF Exec
<1>2. n \in Nat
  BY NetworkModel, InvBefore
<1>3. CASE ~(Top.fuel.total - Top.fuel.consumed >= n)
  <2>1. err' = "ExceededLimit" /\ stack' = stack /\ unpaid' = unpaid
    BY <1>3 DEF Exec
  <2>2. err' \in Errors /\ ~Recoverable(err')
    BY <2>1 DEF Errors, Recoverable
  <2> QED BY <1>1, <2>1, <2>2, InvBefore, InvAfter
<1>4. CASE Top.fuel.total - Top.fuel.consumed >= n
  <2> DEFINE f == Top
             e == [f EXCEPT !.fuel = [f.fuel EXCEPT !.consumed = f.fuel.consumed + n]]
  <2>1. stack' = WithTop(stack, e) /\ unpaid' = unpaid + n /\ err' = err
    BY <1>4 DEF Exec, WithTop, Top
  <2>2. f \in FrameType /\ Isolated(objs, f) /\ f = stack[Len(stack)] /\ Len(stack) > 1 /\ err = "Ok"
        /\ stack # <<>> /\ Len(stack) \in Nat
    BY <1>1, GuestHost
  <2> HIDE DEF f
  <2>3. f.fuel \in [total : Nat, consumed : Nat, grown : Nat]
    BY <2>2 DEF FrameType
  <2>4. e \in FrameType /\ SameFrame(f, e) /\ e.fuel.total = f.fuel.total /\ e.fuel.grown = f.fuel.grown
        /\ e.fuel.consumed = f.fuel.consumed + n
    <3> DEFINE u == [f.fuel EXCEPT !.consumed = f.fuel.consumed + n]
    <3>1. u \in [total : Nat, consumed : Nat, grown : Nat] /\ u.total = f.fuel.total
          /\ u.grown = f.fuel.grown /\ u.consumed = f.fuel.consumed + n
      BY <1>2, <2>3
    <3> HIDE DEF u
    <3>2. e = [f EXCEPT !.fuel = u]
      BY DEF u
    <3>3. e \in FrameType /\ SameFrame(f, e) /\ e.fuel = u
      BY <2>2, <3>1, <3>2 DEF FrameType, SameFrame
    <3> QED BY <3>1, <3>3
  <2> HIDE DEF e
  <2>5. Isolated(objs, e)
    BY <2>2, <2>4 DEF Isolated, SameFrame
  <2>6. /\ StackOK(objs, stack') /\ stack' # <<>> /\ Len(stack') = Len(stack)
        /\ stack'[Len(stack)] = e
        /\ \A i \in 1..Len(stack) : i # Len(stack) => stack'[i] = stack[i]
    BY <2>1, <2>2, <2>4, <2>5, InvBefore, TopReplaced
  <2>7. Burnt(stack) = f.fuel.consumed /\ Burnt(stack') = f.fuel.consumed + n
    BY <2>2, <2>4, <2>6 DEF Burnt
  <2>8. unpaid' \in Int /\ unpaid' <= Burnt(stack') /\ unpaid' = Burnt(stack')
    <3>1. unpaid = f.fuel.consumed /\ unpaid \in Int
      BY <2>2, <2>7, InvBefore
    <3> QED BY <1>2, <2>1, <2>7, <3>1
  <2>9. Lent(stack')
    <3>1. \A i \in 1..Len(stack) : i < Len(stack) \/ i = 1 => i # Len(stack)
      BY <2>2
    <3> QED BY <2>6, <3>1, InvBefore DEF Lent
  <2>10. bud'.cpu.total + net.cpu["WasmInsnExec"][1] * stack'[Len(stack')].fuel.total
           <= bud'.cpu.limit + stack'[Len(stack')].fuel.grown
    BY <1>1, <2>2, <2>4, <2>6, InvBefore
  <2>11. auth' \in Nat /\ auth' >= Len(stack') /\ (Recoverable(err') => auth' = Len(stack'))
    BY <1>1, <2>1, <2>6, InvBefore
  <2> QED BY <1>1, <2>1, <2>6, <2>8, <2>9, <2>10, <2>11, InvBefore, InvAfter
<1> QED BY <1>3, <1>4

(* The guest traps.                                                        *)
LEMMA StepTrap ==
    ASSUME VmInv, Trap
    PROVE  VmInv'
<1>1. /\ network' = network /\ bud' = bud /\ objs' = objs /\ auth' = auth /\ uploaded' = uploaded
      /\ stack' = stack /\ unpaid' = unpaid /\ err' = "InvalidAction" /\ err = "Ok"
  BY DEF Trap, Guest
<1>2. err' \in Errors /\ err' # "ExceededLimit" /\ err # "ExceededLimit" /\ Recoverable(err)
  BY <1>1 DEF Errors, Recoverable
<1>3. err' # "Ok"
  BY <1>1
<1> QED BY <1>1, <1>2, <1>3, InvBefore, InvAfter

(* The guest grows its memory: the limiter charges without taking the fuel *)
(* back.                                                                   *)
LEMMA StepMemoryGrow ==
    ASSUME VmInv, MemoryGrow
    PROVE  VmInv'
<1> DEFINE fits == Top.pages < net.contracts[Top.contract].wasm.max
           m == memory_growing(net, bud, PageSize, fits)
           f == Top
           u == [f.fuel EXCEPT !.grown = f.fuel.grown + m.b.cpu.total - bud.cpu.total]
           e == [[f EXCEPT !.pages = f.pages + 1] EXCEPT !.fuel = u]
<1>1. /\ Guest /\ bud' = m.b /\ err' = m.err /\ network' = network /\ objs' = objs /\ auth' = auth
      /\ uploaded' = uploaded /\ unpaid' = unpaid
  BY DEF MemoryGrow
<1>2. f \in FrameType /\ Isolated(objs, f) /\ f = stack[Len(stack)] /\ Len(stack) > 1 /\ err = "Ok"
      /\ stack # <<>> /\ Len(stack) \in Nat
  BY <1>1, GuestHost
<1>3. IsBudget(bud) /\ ~bud.shadow /\ WithinCpu(bud) /\ bud.insns = 0 /\ InNetwork /\ IsModel(net)
  BY <1>2, InvBefore, NetworkModel
<1>4. PageSize \in Nat /\ WellFormed("MemAlloc", 1, PageSize)
  BY VmAssumption, LinearCharge
<1> HIDE DEF fits
<1>5. /\ m.err \in {"Ok", "ExceededLimit"} /\ Spends(bud, m.b)
      /\ m.err = "Ok" => WithinCpu(m.b)
  BY <1>3, <1>4, GrowthSpends
<1>6. IsBudget(bud') /\ ~bud'.shadow /\ bud'.insns = 0 /\ bud'.cpu.limit = bud.cpu.limit
      /\ bud'.cpu.total >= bud.cpu.total /\ (err' # "ExceededLimit" => WithinCpu(bud')) /\ err' \in Errors
  <2>1. err' \in Errors
    BY <1>1, <1>5 DEF Errors
  <2> QED BY <1>1, <1>3, <1>5, <2>1 DEF Spends
<1>7. CASE m.err # "Ok"
  <2>1. stack' = stack
    BY <1>7 DEF MemoryGrow, fits
  <2>2. err' = "ExceededLimit" /\ ~Recoverable(err')
    BY <1>1, <1>5, <1>7 DEF Recoverable
  <2> QED BY <1>1, <1>6, <2>1, <2>2, InvBefore, InvAfter
<1>8. CASE m.err = "Ok"
  <2>1. stack' = WithTop(stack, e)
    <3>1. stack' = [stack EXCEPT ![Len(stack)].pages = @ + 1,
                                 ![Len(stack)].fuel.grown = @ + m.b.cpu.total - bud.cpu.total]
      BY <1>8 DEF MemoryGrow, fits
    <3> QED BY <3>1 DEF WithTop, Top
  <2>2. f.fuel \in [total : Nat, consumed : Nat, grown : Nat] /\ f.pages \in Nat
    BY <1>2 DEF FrameType
  <2>3. bud.cpu.total \in Nat /\ bud'.cpu.total \in Nat /\ bud'.cpu.total >= bud.cpu.total /\ bud.cpu.limit \in Nat
    <3>1. \A z : IsBudget(z) => z.cpu.total \in Nat /\ z.cpu.limit \in Nat
      BY DEF IsBudget, Dimensions
    <3> QED BY <1>3, <1>6, <3>1
  <2>4. m.b.cpu.total = bud'.cpu.total
    BY <1>1
  <2> HIDE DEF f, m
  <2>5. f.fuel.grown + m.b.cpu.total - bud.cpu.total \in Nat
    BY <2>2, <2>3, <2>4
  <2>6. u \in [total : Nat, consumed : Nat, grown : Nat] /\ u.total = f.fuel.total
        /\ u.consumed = f.fuel.consumed /\ u.grown = f.fuel.grown + bud'.cpu.total - bud.cpu.total
    BY <2>2, <2>4, <2>5
  <2> HIDE DEF u
  <2>7. e \in FrameType /\ e.rel = f.rel /\ e.known = f.known /\ e.fuel = u
    <3> DEFINE p == f.pages + 1
               a == [f EXCEPT !.pages = p]
    <3>1. p \in Nat
      BY <2>2
    <3> HIDE DEF p
    <3>2. a \in FrameType /\ a.rel = f.rel /\ a.known = f.known
      BY <1>2, <3>1 DEF FrameType
    <3>3. e = [a EXCEPT !.fuel = u]
      BY DEF p
    <3> HIDE DEF a, e
    <3> QED BY <2>6, <3>2, <3>3 DEF FrameType
  <2>8. Isolated(objs, e)
    BY <1>2, <2>7 DEF Isolated
  <2> HIDE DEF e
  <2>9. /\ StackOK(objs, stack') /\ stack' # <<>> /\ Len(stack') = Len(stack)
        /\ stack'[Len(stack)] = e
        /\ \A i \in 1..Len(stack) : i # Len(stack) => stack'[i] = stack[i]
    <3>1. StackOK(objs, stack)
      BY InvBefore
    <3> QED BY <1>2, <2>1, <2>7, <2>8, <3>1, TopReplaced
  <2>10. Burnt(stack) = f.fuel.consumed /\ Burnt(stack') = f.fuel.consumed
    BY <1>2, <2>6, <2>7, <2>9 DEF Burnt
  <2>11. Lent(stack')
    <3>1. \A i \in 1..Len(stack) : i < Len(stack) \/ i = 1 => i # Len(stack)
      BY <1>2
    <3> QED BY <2>9, <3>1, InvBefore DEF Lent
  <2>12. bud'.cpu.total + net.cpu["WasmInsnExec"][1] * u.total <= bud'.cpu.limit + u.grown
    <3> DEFINE x == net.cpu["WasmInsnExec"][1] * f.fuel.total
    <3>1. net.cpu["WasmInsnExec"][1] \in Nat
      BY <1>3, TypesInUse DEF IsModel, IsCostModel
    <3>2. x \in Nat
      BY <2>2, <3>1
    <3>3. bud.cpu.total + x <= bud.cpu.limit + f.fuel.grown
      BY <1>2, InvBefore
    <3> HIDE DEF x
    <3>4. bud'.cpu.total + x <= bud'.cpu.limit + u.grown
      BY <1>6, <2>2, <2>3, <2>6, <3>2, <3>3
    <3> QED BY <2>6, <3>4 DEF x
  <2>13. auth' \in Nat /\ auth' >= Len(stack') /\ auth' = Len(stack')
    BY <1>1, <1>2, <2>9, InvBefore DEF Recoverable
  <2>14. unpaid' \in Int /\ unpaid' <= Burnt(stack') /\ unpaid' = Burnt(stack')
    BY <1>1, <1>2, <2>10, InvBefore
  <2> QED BY <1>1, <1>6, <2>7, <2>9, <2>11, <2>12, <2>13, <2>14, InvBefore, InvAfter
<1> QED BY <1>7, <1>8

-----------------------------------------------------------------------------
(* Calls of host functions.                                                *)

(* A guest can pass a small value.                                         *)
LEMMA SmallIsGuests == Small \in GuestVals
  BY DEF GuestVals

(* What the call of a host function is, for a guest.                       *)
LEMMA GuestDispatch ==
    ASSUME VmInv, Guest, NEW v \in GuestVals, NEW d, d = Dispatch(v)
    PROVE  /\ IF d.err = "Ok" THEN Ready(d) ELSE Done(d)
           /\ d.objs = objs /\ SameFrames(stack, d.stack) /\ Len(d.stack) > 1
           /\ d.err = "Ok" => KnownTop(d, d.res) /\ d.res.tag = v.tag
<1>1. /\ IF d.err = "Ok" THEN Ready(d) ELSE Done(d)
      /\ d.objs = objs /\ SameFrames(stack, d.stack)
      /\ d.err = "Ok" => KnownTop(d, d.res) /\ d.res.tag = v.tag
  BY GuestHost, DispatchReady
<1>2. Len(d.stack) > 1
  BY <1>1, GuestHost DEF SameFrames
<1> QED BY <1>1, <1>2

(* A guest calls a contract.                                               *)
LEMMA StepCall ==
    ASSUME VmInv, NEW c \in DOMAIN net.contracts, NEW v \in GuestVals, NEW try \in BOOLEAN, Call(c, v, try)
    PROVE  VmInv'
<1> DEFINE d == Dispatch(v)
           g == CallFrom(d, c, d.res, try)
<1>1. Guest /\ network' = network /\ uploaded' = uploaded /\ Become(IF d.err # "Ok" THEN d ELSE g)
  BY DEF Call
<1>2. IF d.err = "Ok" THEN Ready(d) ELSE Done(d)
  BY <1>1, GuestDispatch
<1> HIDE DEF d
<1>3. InNetwork /\ uploaded' \subseteq net.wasms
  BY <1>1, InvBefore
<1>4. d.err = "Ok" => Done(g)
  <2> SUFFICES ASSUME d.err = "Ok" PROVE Done(g)
    OBVIOUS
  <2>1. Ready(d)
    BY <1>2
  <2>2. d.res = Small \/ IsObj(d.objs, d.res)
    BY <2>1 DEF Ready, HostOK
  <2> QED BY <1>3, <2>1, <2>2, CallDone
<1> HIDE DEF g
<1>5. CASE d.err # "Ok"
  BY <1>1, <1>2, <1>3, <1>5, BecomeInv
<1>6. CASE d.err = "Ok"
  BY <1>1, <1>3, <1>4, <1>6, BecomeInv
<1> QED BY <1>5, <1>6

(* A host function that works on the budget only.                          *)
LEMMA QuietCall ==
    ASSUME VmInv, Guest, NEW v \in GuestVals, NEW d, d = Dispatch(v), d.err = "Ok", NEW h, Quiet(d, h)
    PROVE  Ready(h) /\ Len(h.stack) > 1 /\ h.objs = objs /\ h.stack = d.stack
<1>1. Ready(d) /\ Len(d.stack) > 1 /\ d.objs = objs
  BY GuestDispatch
<1> QED BY <1>1, QuietReady DEF Quiet

(* An upload of Wasm.                                                      *)
LEMMA StepUpload ==
    ASSUME VmInv, NEW w \in net.wasms, UploadWasm(w)
    PROVE  VmInv'
<1> DEFINE d == Dispatch(Small)
           b == check_vm(d, w)
           a == Charge(b, charge_for_parsing(V0(w)))
           f == Fail(a, extract_refined_contract_cost_inputs(w))
           h == Charge(f, <<heap_alloc>>)
           k == [h EXCEPT !.res = Small]
           g == Resume(k)
<1>1. /\ Guest /\ network' = network /\ Become(IF d.err # "Ok" THEN d ELSE g)
      /\ uploaded' = IF h.err = "Ok" THEN uploaded \union {w} ELSE uploaded
  BY DEF UploadWasm
<1>2. (IF d.err = "Ok" THEN Ready(d) ELSE Done(d)) /\ Len(d.stack) > 1
  BY <1>1, SmallIsGuests, GuestDispatch
<1>3. InNetwork /\ uploaded' \subseteq net.wasms
  <2>1. uploaded \subseteq net.wasms /\ InNetwork
    BY InvBefore
  <2>2. uploaded' \subseteq uploaded \cup {w}
    <3> HIDE DEF h
    <3> QED BY <1>1
  <2> QED BY <2>1, <2>2
<1> HIDE DEF d
<1>4. d.err = "Ok" => Done(g)
  <2> SUFFICES ASSUME d.err = "Ok" PROVE Done(g)
    OBVIOUS
  <2>1. Ready(d) /\ HostOK(d) /\ IsWasm(w)
    BY <1>2, <1>3, NetworkModel DEF Ready
  <2>2. Quiet(d, b)
    BY <1>3, <2>1, QuietSame, CheckVmQuiet
  <2> HIDE DEF b
  <2>3. Quiet(d, a)
    <3>1. V0(w) \in {V0(w), V1(w)}
      OBVIOUS
    <3>2. Charges(charge_for_parsing(V0(w)))
      BY <2>1, <3>1, ParsingCharges
    <3> QED BY <1>3, <2>1, <2>2, <3>2, ThenCharge
  <2> HIDE DEF a
  <2>4. Quiet(d, f)
    BY <2>1, <2>3, LinkOutcome, ThenFail
  <2> HIDE DEF f
  <2>5. Quiet(d, h)
    BY <1>3, <2>1, <2>4, HeapCharges, ThenCharge
  <2> HIDE DEF h
  <2>6. Ready(h) /\ h.stack = d.stack
    BY <2>1, <2>5, QuietReady DEF Quiet
  <2>7. IsHost(h)
    BY <2>6 DEF Ready, HostOK
  <2>8. k = [bud |-> h.bud, objs |-> h.objs, stack |-> h.stack, auth |-> h.auth, err |-> h.err, res |-> Small]
    BY <2>7 DEF IsHost
  <2> HIDE DEF k
  <2>9. k.bud = h.bud /\ k.objs = h.objs /\ k.stack = h.stack /\ k.auth = h.auth
        /\ k.err = h.err /\ k.res = Small /\ IsHost(k)
    BY <2>8 DEF IsHost
  <2>10. Ready(k)
    <3>1. BudgetOK(k) /\ AlignedOK(k)
      BY <2>6, <2>9 DEF Ready, HostOK, BudgetOK, AlignedOK
    <3>2. HostOK(k)
      BY <2>6, <2>9, <3>1 DEF Ready, HostOK
    <3>3. Paid(k)
      BY <2>6, <2>9 DEF Ready, Paid
    <3> QED BY <2>6, <2>9, <3>2, <3>3 DEF Ready
  <2>11. KnownTop(k, k.res) /\ Len(k.stack) > 1
    BY <1>2, <2>6, <2>9 DEF KnownTop
  <2> QED BY <1>3, <2>10, <2>11, ResumeDone
<1> HIDE DEF g
<1>5. CASE d.err # "Ok"
  BY <1>1, <1>2, <1>3, <1>5, BecomeInv
<1>6. CASE d.err = "Ok"
  BY <1>1, <1>3, <1>4, <1>6, BecomeInv
<1> QED BY <1>5, <1>6

(* Logging works in the shadow budget.                                     *)
LEMMA StepLog ==
    ASSUME VmInv, log_from_linear_memory
    PROVE  VmInv'
<1> DEFINE d == Dispatch(Small)
           q == bulk_init_cpy(1) \o bulk_init_cpy(2) \o <<<<"MemCpy", 1, 1>>>>
           s == with_observable_shadow_mode(net, d.bud, q)
           r == with_shadow_mode(net, d.bud, q)
           k == [d EXCEPT !.bud = r.b]
           h == IF net.debug THEN k ELSE d
           g == Resume(h)
<1>1. /\ Guest /\ network' = network /\ Become(IF d.err # "Ok" THEN d ELSE g)
      /\ uploaded' = uploaded
  BY DEF log_from_linear_memory
<1>2. /\ (IF d.err = "Ok" THEN Ready(d) ELSE Done(d)) /\ Len(d.stack) > 1
      /\ d.err = "Ok" => KnownTop(d, d.res)
  BY <1>1, SmallIsGuests, GuestDispatch
<1>3. InNetwork /\ uploaded' \subseteq net.wasms
  BY <1>1, InvBefore
<1> HIDE DEF d
<1>4. d.err = "Ok" => Done(g)
  <2> SUFFICES ASSUME d.err = "Ok" PROVE Done(g)
    OBVIOUS
  <2>1. Ready(d) /\ HostOK(d) /\ KnownTop(d, d.res)
    BY <1>2, <1>3 DEF Ready
  <2>2. Charges(q)
    <3> DEFINE a == bulk_init_cpy(1)
               b == bulk_init_cpy(2)
               c == <<<<"MemCpy", 1, 1>>>>
    <3>1. Charges(a) /\ Charges(b) /\ a \in Seq(Triple) /\ b \in Seq(Triple) /\ Charges(c)
      BY BulkCharges, LinearCharge
    <3>2. c \in Seq(Triple)
      <4>1. "MemCpy" \in ContractCostType /\ 1 \in Int
        BY TypesInUse
      <4> QED BY <4>1, TripleSeq
    <3> HIDE DEF a, b, c
    <3>3. Charges(a \o b) /\ a \o b \in Seq(Triple)
      BY <3>1, ChargesJoined
    <3> DEFINE ab == a \o b
    <3>4. Charges(ab) /\ ab \in Seq(Triple)
      BY <3>3
    <3> HIDE DEF ab
    <3>5. Charges(ab \o c)
      BY <3>1, <3>2, <3>4, ChargesJoined
    <3> QED BY <3>5 DEF ab, a, b, c
  <2>3. IsBudget(d.bud) /\ IsModel(net) /\ WithinCpu(d.bud)
    BY <1>3, <2>1, NetworkModel DEF HostOK, BudgetOK
  <2> HIDE DEF q
  <2>4. Spends(d.bud, s.b) /\ s.b.cpu.total = d.bud.cpu.total
    BY <2>2, <2>3, ShadowSpends
  <2>5. r.b = s.b
    <3>1. \E x, y : s = [b |-> x, err |-> y]
      BY DEF with_observable_shadow_mode
    <3>2. r = [s EXCEPT !.err = "Ok"]
      BY DEF with_shadow_mode
    <3> HIDE DEF s, r
    <3> QED BY <3>1, <3>2
  <2> HIDE DEF s, r
  <2>6. WithinCpu(s.b)
    BY <2>3, <2>4 DEF WithinCpu, Spends
  <2> DEFINE t == [b |-> s.b, err |-> "Ok"]
  <2>7. t.b = s.b /\ t.err = "Ok" /\ Spends(d.bud, t.b) /\ WithinCpu(t.b) /\ t.err \in {"Ok", "ExceededLimit"}
    BY <2>4, <2>6
  <2>8. Quiet(d, Charged(d, t))
    <3> HIDE DEF t
    <3> QED BY <2>1, <2>7, ChargedQuiet
  <2>9. Charged(d, t) = k
    <3>1. IsHost(d)
      BY <2>1 DEF HostOK
    <3>2. Charged(d, t) = [[d EXCEPT !.bud = s.b] EXCEPT !.err = "Ok"]
      BY DEF Charged
    <3>3. k = [d EXCEPT !.bud = s.b]
      BY <2>5
    <3> DEFINE sb == s.b
    <3> HIDE DEF sb
    <3>4. \A x : [[d EXCEPT !.bud = x] EXCEPT !.err = "Ok"] = [d EXCEPT !.bud = x]
      BY <3>1 DEF IsHost
    <3> HIDE DEF k, t
    <3> QED BY <3>2, <3>3, <3>4
  <2> HIDE DEF t, k
  <2>10. Quiet(d, h)
    BY <2>1, <2>8, <2>9, QuietSame
  <2> HIDE DEF h
  <2>11. Ready(h) /\ h.stack = d.stack /\ h.res = d.res /\ KnownTop(h, d.res)
    BY <2>1, <2>10, QuietReady, QuietKnown DEF Quiet
  <2> QED BY <1>2, <1>3, <2>11, ResumeDone
<1> HIDE DEF g
<1>5. CASE d.err # "Ok"
  BY <1>1, <1>2, <1>3, <1>5, BecomeInv
<1>6. CASE d.err = "Ok"
  BY <1>1, <1>3, <1>4, <1>6, BecomeInv
<1> QED BY <1>5, <1>6

(* The host's outcome and result are set.                                  *)
WithResult(h, e, v) == [[h EXCEPT !.err = e] EXCEPT !.res = v]

(* The host has a result, or fails.                                        *)
LEMMA ResultSet ==
    ASSUME NEW h, Ready(h), h.err = "Ok", NEW e \in {"Ok", "InvalidInput"}, NEW v, v = Small \/ IsObj(h.objs, v),
           NEW g, g = WithResult(h, e, v)
    PROVE  Ready(g) /\ g.objs = h.objs /\ g.stack = h.stack /\ g.err = e /\ g.res = v
<1>1. IsHost(h)
  BY DEF Ready, HostOK
<1>2. g = [bud |-> h.bud, objs |-> h.objs, stack |-> h.stack, auth |-> h.auth, err |-> e, res |-> v]
  BY <1>1 DEF IsHost, WithResult
<1>3. g.bud = h.bud /\ g.objs = h.objs /\ g.stack = h.stack /\ g.auth = h.auth
      /\ g.err = e /\ g.res = v /\ IsHost(g)
  BY <1>2 DEF IsHost
<1>4. e \in Errors /\ e # "ExceededLimit"
  BY DEF Errors
<1>5. BudgetOK(g)
  BY <1>3 DEF Ready, HostOK, BudgetOK
<1>6. AlignedOK(g)
  BY <1>3 DEF Ready, HostOK, AlignedOK, Recoverable
<1>7. HostOK(g)
  BY <1>3, <1>4, <1>5, <1>6 DEF Ready, HostOK
<1>8. Paid(g)
  BY <1>3 DEF Ready, Paid
<1> QED BY <1>3, <1>7, <1>8 DEF Ready

(* An object a frame knows of is there, and it knows what it contains.     *)
LEMMA KnownObject ==
    ASSUME NEW h, Ready(h), NEW v, KnownTop(h, v), v.tag = "Vec", NEW o, o = visit_obj(h.objs, v)
    PROVE  /\ o.err = "Ok" /\ KnownTop(h, o.obj.kids[1])
           /\ o.obj.kids[1] = Small \/ IsObj(h.objs, o.obj.kids[1])
<1> DEFINE n == Len(h.stack)
           K == h.stack[n].known
           os == h.objs
           i == handle_to_index(v.handle)
<1>1. Closed(os, K) /\ ObjectsOK(os)
  BY TopFrame DEF Ready, HostOK, Isolated
<1>2. v \in K
  BY DEF KnownTop, Small
<1> HIDE DEF K, os
<1>3. IsObj(os, v) /\ Kids(os, v) \subseteq K \cup {Small}
  BY <1>1, <1>2 DEF Closed
<1>4. Len(os) \in Nat /\ v.handle \in Nat
  BY <1>1, <1>3, SeqLength DEF ObjectsOK, IsObj
<1>5. i \in Nat
  BY <1>4 DEF handle_to_index
<1>6. i < Len(os) /\ ~(i >= Len(os)) /\ os[i + 1].tag = "Vec" /\ i + 1 \in 1..Len(os)
      /\ ~is_relative_object_handle(v.handle)
  BY <1>3, <1>4, <1>5 DEF IsObj
<1> HIDE DEF i
<1>7. o.err = "Ok" /\ o.obj = os[i + 1]
  BY <1>6 DEF visit_obj, i, os
<1>8. 1 \in DOMAIN os[i + 1].kids
  BY <1>1, <1>6 DEF ObjectsOK
<1>9. os[i + 1].kids[1] \in Kids(os, v)
  BY <1>6, <1>8 DEF Kids, i
<1>10. o.obj.kids[1] \in K \cup {Small}
  BY <1>3, <1>7, <1>9
<1>11. o.obj.kids[1] = Small \/ IsObj(os, o.obj.kids[1])
  BY <1>1, <1>10 DEF Closed
<1> QED BY <1>7, <1>10, <1>11 DEF KnownTop, K, os

(* The guest asks for the first element of a vector.                       *)
LEMMA StepFront ==
    ASSUME VmInv, NEW v \in GuestVals, vec_front(v)
    PROVE  VmInv'
<1> DEFINE d == Dispatch(v)
           a == Charge(d, <<<<"VisitObject", 1, NoInput>>>>)
           o == visit_obj(a.objs, d.res)
           h == IF a.err # "Ok" THEN a
                ELSE IF o.err # "Ok" THEN Fail(a, o.err)
                ELSE [a EXCEPT !.res = o.obj.kids[1]]
           g == Resume(h)
<1>1. /\ Guest /\ network' = network /\ Become(IF d.err # "Ok" THEN d ELSE g)
      /\ uploaded' = uploaded /\ v.tag = "Vec"
  BY DEF vec_front
<1>2. /\ (IF d.err = "Ok" THEN Ready(d) ELSE Done(d)) /\ Len(d.stack) > 1
      /\ d.err = "Ok" => KnownTop(d, d.res) /\ d.res.tag = v.tag
  BY <1>1, GuestDispatch
<1>3. InNetwork /\ uploaded' \subseteq net.wasms
  BY <1>1, InvBefore
<1> HIDE DEF d
<1>4. d.err = "Ok" => Done(g)
  <2> SUFFICES ASSUME d.err = "Ok" PROVE Done(g)
    OBVIOUS
  <2>1. Ready(d) /\ HostOK(d) /\ KnownTop(d, d.res) /\ d.res.tag = "Vec"
    BY <1>1, <1>2, <1>3 DEF Ready
  <2>2. Charges(<<<<"VisitObject", 1, NoInput>>>>)
    BY ConstantCharge
  <2>3. Quiet(d, a)
    BY <1>3, <2>1, <2>2, ChargeQuiet
  <2> HIDE DEF a
  <2>4. Ready(a) /\ KnownTop(a, d.res) /\ a.stack = d.stack
    BY <2>1, <2>3, QuietReady, QuietKnown DEF Quiet
  <2> DEFINE k == o.obj.kids[1]
  <2>5. o.err = "Ok" /\ KnownTop(a, k) /\ (k = Small \/ IsObj(a.objs, k))
    BY <2>1, <2>4, KnownObject
  <2> HIDE DEF o, k
  <2>6. CASE a.err # "Ok"
    <3>1. h = a
      BY <2>6
    <3> HIDE DEF h
    <3> QED BY <1>2, <1>3, <2>4, <2>6, <3>1, ResumeDone
  <2>7. CASE a.err = "Ok"
    <3>1. h = [a EXCEPT !.res = k]
      BY <2>5, <2>7 DEF k
    <3>2. IsHost(a)
      BY <2>4 DEF Ready, HostOK
    <3>3. h = WithResult(a, "Ok", k)
      <4>1. \A x : [[a EXCEPT !.err = "Ok"] EXCEPT !.res = x] = [a EXCEPT !.res = x]
        BY <2>7, <3>2 DEF IsHost
      <4> HIDE DEF h
      <4> QED BY <3>1, <4>1 DEF WithResult
    <3> HIDE DEF h
    <3>4. Ready(h) /\ h.objs = a.objs /\ h.stack = a.stack /\ h.err = "Ok" /\ h.res = k
      BY <2>4, <2>5, <2>7, <3>3, ResultSet
    <3>5. KnownTop(h, h.res)
      BY <2>5, <3>4 DEF KnownTop
    <3> QED BY <1>2, <1>3, <2>4, <3>4, <3>5, ResumeDone
  <2> QED BY <2>6, <2>7
<1> HIDE DEF g
<1>5. CASE d.err # "Ok"
  BY <1>1, <1>2, <1>3, <1>5, BecomeInv
<1>6. CASE d.err = "Ok"
  BY <1>1, <1>3, <1>4, <1>6, BecomeInv
<1> QED BY <1>5, <1>6

(* The frame of a context that is popped hands its caller the outcome.     *)
LEMMA StepReturn ==
    ASSUME VmInv, NEW v \in GuestVals, Return(v)
    PROVE  VmInv'
<1> DEFINE a == return_fuel_to_host(Host)
           r == relative_to_absolute(Top.rel, v)
           h == IF a.err # "Ok" THEN a ELSE [a EXCEPT !.err = r.err, !.res = r.v]
           p == pop_context(h)
           g == Deliver(p, Top.try)
<1>1. /\ Guest /\ network' = network /\ uploaded' = uploaded
      /\ Become(g)
  BY DEF Return
<1>2. InNetwork /\ uploaded' \subseteq net.wasms
  BY <1>1, InvBefore
<1>3. /\ HostOK(Host) /\ Paid(Host) /\ Lent(Host.stack) /\ Host.stack # <<>>
      /\ Host.objs = objs /\ Host.stack = stack /\ Len(stack) > 1 /\ Host.err = "Ok"
      /\ Top \in FrameType /\ Isolated(objs, Top)
  BY <1>1, GuestHost
<1>4. /\ HostOK(a) /\ Paid(a) /\ Lent(a.stack) /\ Settled(a) /\ a.stack # <<>>
      /\ a.err = "ExceededLimit" \/ (a.err = Host.err /\ Clean(a.stack))
      /\ a.objs = Host.objs
      /\ SameFrames(Host.stack, a.stack)
  BY <1>2, <1>3, FuelReturns
<1>5. /\ r.err \in {"Ok", "InvalidInput"}
      /\ r.v = Small \/ (r.v \in Top.known /\ IsObj(objs, r.v))
  BY <1>3, HandleResolves
<1> HIDE DEF a, r
<1>6. HostOK(h) /\ Lent(h.stack) /\ Settled(h) /\ h.stack = a.stack
  <2>1. CASE a.err # "Ok"
    BY <1>4, <2>1
  <2>2. CASE a.err = "Ok"
    <3>1. h = WithResult(a, r.err, r.v)
      BY <2>2 DEF WithResult
    <3>2. Ready(a)
      BY <1>4, <2>2 DEF Ready
    <3>3. r.v = Small \/ IsObj(a.objs, r.v)
      BY <1>3, <1>4, <1>5
    <3> HIDE DEF h
    <3>4. Ready(h) /\ h.stack = a.stack
      BY <1>5, <2>2, <3>1, <3>2, <3>3, ResultSet
    <3> QED BY <1>4, <3>4, CleanIsSettled DEF Ready, HostOK
  <2> QED BY <2>1, <2>2
<1> HIDE DEF h
<1>7. Len(h.stack) > 1
  BY <1>3, <1>4, <1>6 DEF SameFrames
<1>8. Ready(p)
  BY <1>6, <1>7, PopReady
<1> HIDE DEF p
<1>9. Done(g)
  BY <1>2, <1>8, DeliverDone
<1> HIDE DEF g
<1> QED BY <1>1, <1>2, <1>9, BecomeInv

(* A frame with an error is popped, and the error is delivered to its      *)
(* caller.                                                                 *)
LEMMA StepUnwind ==
    ASSUME VmInv, Unwind
    PROVE  VmInv'
<1> DEFINE a == return_fuel_to_host(Now)
           h == pop_context(a)
           g == Outcome(h, Top.try)
           d == Delivered(g)
<1>1. Len(stack) > 1 /\ err # "Ok" /\ network' = network /\ uploaded' = uploaded
  BY DEF Unwind
<1>2. Become(d)
  BY DEF Unwind, Now
<1>3. InNetwork /\ uploaded' \subseteq net.wasms
  BY <1>1, InvBefore
<1>4. HostOK(Now) /\ Paid(Now) /\ Lent(Now.stack) /\ Now.stack = stack /\ Now.stack # <<>>
  <2>1. stack # <<>>
    BY <1>1
  <2> QED BY <2>1, NowIs DEF VmInv
<1>5. /\ HostOK(a) /\ Lent(a.stack) /\ Settled(a)
      /\ SameFrames(Now.stack, a.stack)
  BY <1>3, <1>4, FuelReturns
<1> HIDE DEF a
<1>6. Len(a.stack) > 1
  BY <1>1, <1>4, <1>5 DEF SameFrames
<1>7. Ready(h)
  BY <1>5, <1>6, PopReady
<1> HIDE DEF h
<1>8. Ready(g)
  BY <1>7, OutcomeReady
<1> HIDE DEF g
<1>9. Done(d)
  BY <1>3, <1>8, DeliveredDone
<1> HIDE DEF d
<1> QED BY <1>1, <1>2, <1>3, <1>9, BecomeInv

(* The transaction ends.                                                   *)
LEMMA StepEnd ==
    ASSUME VmInv, End
    PROVE  VmInv'
<1>1. /\ Len(stack) = 1 /\ stack' = <<>> /\ auth' = auth - 1 /\ network' = network /\ bud' = bud
      /\ objs' = objs /\ err' = err /\ uploaded' = uploaded /\ unpaid' = unpaid
  BY DEF End
<1>2. Burnt(stack) = 0
  <2>1. stack[1].fuel = NoFuel
    <3>1. 1 \in 1..Len(stack)
      BY <1>1
    <3> QED BY <3>1, InvBefore DEF Lent
  <2> QED BY <1>1, <2>1 DEF Burnt, NoFuel
<1>3. Burnt(stack') = 0 /\ Len(stack') = 0 /\ 1..Len(stack') = {}
  BY <1>1, NullSeq DEF Burnt
<1>4. StackOK(objs', stack') /\ Lent(stack')
  <2>1. stack' \in Seq(FrameType)
    BY <1>1
  <2> QED BY <1>3, <2>1 DEF StackOK, Lent
<1>5. auth' \in Nat /\ auth' >= Len(stack') /\ (Recoverable(err') => auth' = Len(stack'))
  BY <1>1, <1>3, InvBefore
<1>6. unpaid' \in Int /\ unpaid' <= Burnt(stack') /\ (err' # "ExceededLimit" => unpaid' = Burnt(stack'))
  BY <1>1, <1>2, <1>3, InvBefore
<1>7. ~(Len(stack') > 1)
  BY <1>3
<1> QED BY <1>1, <1>4, <1>5, <1>6, <1>7, InvBefore, InvAfter

-----------------------------------------------------------------------------
(* A new object.                                                           *)

(* The value of the object that comes next.                                *)
LEMMA NewHandle ==
    ASSUME NEW os, IsSeq(os), Len(os) < MaxObjs, NEW new, new = new_from_handle(os, "Vec")
    PROVE  /\ new \in [tag : Tags, handle : Nat] /\ new.tag = "Vec"
           /\ ~is_relative_object_handle(new.handle) /\ handle_to_index(new.handle) = Len(os)
<1> DEFINE n == Len(os)
<1>1. n \in Nat
  BY SeqLength
<1>2. MaxObjs \in Nat /\ 2 * MaxObjs <= HandleSpace /\ HandleSpace \in Nat /\ HandleSpace > 0
  BY VmAssumption, HandleAssumption
<1> HIDE DEF n
<1>3. 2 * n \in 0..(HandleSpace - 1)
  BY <1>1, <1>2 DEF n
<1>4. (2 * n) % HandleSpace = 2 * n
  <2> DEFINE x == 2 * n
  <2>1. x \in 0..(HandleSpace - 1)
    BY <1>3
  <2> HIDE DEF x
  <2>2. x % HandleSpace = x
    BY <1>2, <2>1
  <2> QED BY <2>2 DEF x
<1>5. index_to_handle(n, FALSE) = 2 * n + 1
  BY <1>4 DEF index_to_handle
<1>6. new.tag = "Vec" /\ new.handle = 2 * n + 1 /\ new = [tag |-> new.tag, handle |-> new.handle]
  BY <1>5 DEF new_from_handle, n
<1>7. 2 * n + 1 \in Nat /\ (2 * n + 1) % 2 # 0 /\ (2 * n + 1) \div 2 = n
  BY <1>1
<1>8. new \in [tag : Tags, handle : Nat]
  BY <1>6, <1>7 DEF Tags
<1> QED BY <1>6, <1>7, <1>8 DEF is_relative_object_handle, handle_to_index, n

VecOf(v) == [tag |-> "Vec", kids |-> <<v>>]

(* Adding an object of a value that is there.                              *)
LEMMA ObjectAdded ==
    ASSUME NEW os, ObjectsOK(os), Len(os) < MaxObjs, NEW new, new = new_from_handle(os, "Vec"),
           NEW v, v = Small \/ IsObj(os, v), NEW o, o = VecOf(v),
           NEW on, on = Append(os, o)
    PROVE  /\ ObjectsOK(on) /\ IsObj(on, new) /\ Kids(on, new) = {v}
           /\ \A K : Closed(os, K) => Closed(on, K)
<1>1. IsSeq(os) /\ Len(os) \in Nat
  BY SeqLength DEF ObjectsOK
<1>2. /\ IsSeq(on) /\ Len(on) = Len(os) + 1
      /\ \A i \in 1..Len(os) : on[i] = os[i]
      /\ on[Len(os) + 1] = o
  BY <1>1, SeqPush
<1>3. o.tag = "Vec" /\ DOMAIN o.kids = {1} /\ o.kids[1] = v
  <2>1. o.tag = "Vec" /\ o.kids = <<v>>
    BY DEF VecOf
  <2>2. DOMAIN <<v>> = 1..1 /\ <<v>>[1] = v
    OBVIOUS
  <2>3. 1..1 = {1}
    OBVIOUS
  <2> QED BY <2>1, <2>2, <2>3
<1>4. \A K : Closed(os, K) => Closed(on, K)
  BY <1>1, ClosedGrows
<1>5. \A u : IsObj(os, u) => IsObj(on, u)
  <2> SUFFICES ASSUME NEW u, IsObj(os, u) PROVE IsObj(on, u)
    OBVIOUS
  <2> DEFINE i == handle_to_index(u.handle)
  <2>1. u.handle \in Nat /\ i < Len(os)
    BY DEF IsObj
  <2>2. i \in Nat
    BY <2>1 DEF handle_to_index
  <2>3. i + 1 \in 1..Len(os) /\ i < Len(on) /\ on[i + 1] = os[i + 1]
    BY <1>1, <1>2, <2>1, <2>2
  <2> QED BY <2>3 DEF IsObj
<1>6. \A u : IsObj(os, u) => handle_to_index(u.handle) < Len(os)
  BY DEF IsObj
<1>7. ObjectsOK(on)
  <2>1. ASSUME NEW i \in 1..Len(on)
        PROVE  /\ on[i].tag \in Tags
               /\ on[i].tag = "Vec" => 1 \in DOMAIN on[i].kids
               /\ \A j \in DOMAIN on[i].kids :
                     on[i].kids[j] = Small
                     \/ (IsObj(on, on[i].kids[j]) /\ handle_to_index(on[i].kids[j].handle) < i - 1)
    <3>1. CASE i \in 1..Len(os)
      BY <1>2, <1>5, <3>1 DEF ObjectsOK
    <3>2. CASE i = Len(os) + 1
      <4>1. on[i] = o /\ i - 1 = Len(os)
        BY <1>1, <1>2, <3>2
      <4>2. "Vec" \in Tags
        BY DEF Tags
      <4>3. DOMAIN on[i].kids = {1} /\ on[i].kids[1] = v /\ on[i].tag = "Vec"
        BY <1>3, <4>1
      <4>4. v = Small \/ (IsObj(on, v) /\ handle_to_index(v.handle) < i - 1)
        BY <1>5, <1>6, <4>1
      <4> QED BY <4>2, <4>3, <4>4
    <3> QED BY <1>1, <1>2, <3>1, <3>2
  <2> QED BY <1>2, <2>1 DEF ObjectsOK
<1>8. /\ new \in [tag : Tags, handle : Nat] /\ new.tag = "Vec"
      /\ ~is_relative_object_handle(new.handle) /\ handle_to_index(new.handle) = Len(os)
  BY <1>1, NewHandle
<1>9. Len(os) < Len(on) /\ ~(Len(os) >= Len(on))
  BY <1>1, <1>2
<1>10. IsObj(on, new)
  BY <1>2, <1>3, <1>8, <1>9 DEF IsObj
<1>11. Kids(on, new) = {v}
  <2>1. Kids(on, new) = {on[Len(os) + 1].kids[i] : i \in DOMAIN on[Len(os) + 1].kids}
    BY <1>8, <1>9 DEF Kids
  <2> QED BY <1>2, <1>3, <2>1
<1> QED BY <1>4, <1>7, <1>10, <1>11

(* The host has one object more, which is its result.                      *)
WithObject(h, o, v) == [[h EXCEPT !.objs = Append(h.objs, o)] EXCEPT !.res = v]

(* There is room for one more object, and v is something the guest knows.  *)
Room(h, v) == Ready(h) /\ h.err = "Ok" /\ Len(h.objs) < MaxObjs /\ KnownTop(h, v)

(* g is h with the object new as its result.                               *)
Made(h, g, new) ==
    /\ Ready(g) /\ g.stack = h.stack /\ g.res = new
    /\ Closed(g.objs, g.stack[Len(g.stack)].known \cup {new})

(* Adding an object keeps the host in control.                             *)
LEMMA NewObjectReady ==
    ASSUME NEW h, NEW v, Room(h, v), NEW new, new = new_from_handle(h.objs, "Vec"),
           NEW g, g = WithObject(h, VecOf(v), new)
    PROVE  Made(h, g, new)
<1>0. Ready(h) /\ h.err = "Ok" /\ Len(h.objs) < MaxObjs /\ KnownTop(h, v)
  BY DEF Room
<1> DEFINE o == VecOf(v)
           on == Append(h.objs, o)
           K == h.stack[Len(h.stack)].known
<1>1. IsHost(h) /\ ObjectsOK(h.objs) /\ StackOK(h.objs, h.stack) /\ Closed(h.objs, K)
  BY <1>0, TopFrame DEF Ready, HostOK, Isolated
<1>2. v = Small \/ (v \in K /\ IsObj(h.objs, v))
  BY <1>0, <1>1 DEF KnownTop, Closed
<1>3. g = [[h EXCEPT !.objs = on] EXCEPT !.res = new]
  BY DEF WithObject
<1>4. /\ ObjectsOK(on) /\ IsObj(on, new) /\ Kids(on, new) = {v}
      /\ \A L : Closed(h.objs, L) => Closed(on, L)
  <2>1. v = Small \/ IsObj(h.objs, v)
    BY <1>2
  <2>2. o = VecOf(v) /\ on = Append(h.objs, o)
    OBVIOUS
  <2> DEFINE os == h.objs
  <2>3. ObjectsOK(os) /\ Len(os) < MaxObjs /\ new = new_from_handle(os, "Vec")
        /\ (v = Small \/ IsObj(os, v)) /\ on = Append(os, o)
    BY <1>0, <1>1, <2>1, <2>2
  <2> HIDE DEF K, o, on, os
  <2>4. /\ ObjectsOK(on) /\ IsObj(on, new) /\ Kids(on, new) = {v}
        /\ \A K1 : Closed(os, K1) => Closed(on, K1)
    BY <2>2, <2>3, ObjectAdded
  <2> QED BY <2>4 DEF os
<1> HIDE DEF o, on
<1>5. g = [bud |-> h.bud, objs |-> on, stack |-> h.stack, auth |-> h.auth, err |-> h.err, res |-> new]
  BY <1>1, <1>3 DEF IsHost
<1>6. g.bud = h.bud /\ g.objs = on /\ g.stack = h.stack /\ g.auth = h.auth
      /\ g.err = h.err /\ g.res = new /\ IsHost(g)
  BY <1>5 DEF IsHost
<1>7. StackOK(on, h.stack)
  BY <1>1, <1>4 DEF StackOK, Isolated
<1>8. BudgetOK(g) /\ AlignedOK(g)
  BY <1>0, <1>6 DEF Ready, HostOK, BudgetOK, AlignedOK
<1>9. HostOK(g)
  BY <1>0, <1>4, <1>6, <1>7, <1>8 DEF Ready, HostOK
<1>10. Paid(g)
  BY <1>0, <1>6 DEF Ready, Paid
<1>11. Ready(g)
  BY <1>0, <1>6, <1>9, <1>10 DEF Ready
<1>12. Closed(on, K \cup {new})
  <2>1. Closed(on, K)
    BY <1>1, <1>4
  <2> HIDE DEF K
  <2> QED BY <1>2, <1>4, <2>1 DEF Closed
<1> QED BY <1>6, <1>11, <1>12 DEF Made

(* The guest gets to know the object that its call has made.               *)
LEMMA MadeKnown ==
    ASSUME InNetwork, NEW h, NEW e, NEW new, Made(h, e, new), NEW S, S = {new}
    PROVE  /\ Ready(Knows(e, S)) /\ Len(Knows(e, S).stack) = Len(h.stack)
           /\ KnownTop(Knows(e, S), Knows(e, S).res)
<1> DEFINE k == Knows(e, S)
<1>1. Ready(e) /\ e.stack = h.stack /\ e.res = new /\ new \in S
  BY DEF Made
<1>2. Closed(e.objs, e.stack[Len(e.stack)].known \cup S)
  BY DEF Made
<1>3. /\ Ready(k) /\ Len(k.stack) = Len(e.stack) /\ k.res = e.res
      /\ \A w \in S : w = Small \/ KnownTop(k, w)
  BY <1>1, <1>2, KnowsReady
<1> HIDE DEF k
<1>4. KnownTop(k, Small)
  BY DEF KnownTop
<1>5. KnownTop(k, k.res)
  BY <1>1, <1>3, <1>4
<1>6. Ready(k) /\ Len(k.stack) = Len(h.stack) /\ KnownTop(k, k.res)
  BY <1>1, <1>3, <1>5
<1> QED BY <1>6 DEF k

(* The host makes an object and hands it to the guest.                     *)
LEMMA NewObjectKnown ==
    ASSUME InNetwork, NEW h, NEW v, Room(h, v), NEW new, new = new_from_handle(h.objs, "Vec"),
           NEW e, e = WithObject(h, VecOf(v), new), NEW g, g = Knows(e, {new})
    PROVE  Ready(g) /\ Len(g.stack) = Len(h.stack) /\ KnownTop(g, g.res)
<1>1. Made(h, e, new)
  BY NewObjectReady
<1> DEFINE S == {new}
<1>2. g = Knows(e, S) /\ S = {new}
  OBVIOUS
<1> HIDE DEF S
<1> QED BY <1>1, <1>2, MadeKnown

(* The guest makes a vector out of a value in its memory.                  *)
LEMMA StepVecNew ==
    ASSUME VmInv, NEW v \in GuestVals, vec_new_from_linear_memory(v)
    PROVE  VmInv'
<1> DEFINE d == Dispatch(Small)
           c == Charge(d, bulk_init_cpy(1) \o <<<<"MemCpy", 1, 1>>>>)
           r == relative_to_absolute(Top.rel, v)
           x == Fail(c, r.err)
           y == check_val_integrity(x, r.v)
           a == Charge(y, <<heap_alloc>>)
           new == new_from_handle(d.objs, "Vec")
           b == [a EXCEPT !.objs = Append(@, [tag |-> "Vec", kids |-> <<r.v>>]), !.res = new]
           h == IF a.err # "Ok" THEN a ELSE Knows(b, {new})
           g == Resume(h)
<1>1. /\ Guest /\ network' = network /\ Become(IF d.err # "Ok" THEN d ELSE g)
      /\ uploaded' = uploaded /\ Len(objs) < MaxObjs
  BY DEF vec_new_from_linear_memory
<1>2. /\ (IF d.err = "Ok" THEN Ready(d) ELSE Done(d)) /\ Len(d.stack) > 1 /\ d.objs = objs
      /\ SameFrames(stack, d.stack)
  BY <1>1, SmallIsGuests, GuestDispatch
<1>3. InNetwork /\ uploaded' \subseteq net.wasms
  BY <1>1, InvBefore
<1>4. Top \in FrameType /\ Isolated(objs, Top) /\ Top = stack[Len(stack)] /\ Len(stack) > 1 /\ Len(stack) \in Nat
  BY <1>1, GuestHost
<1>5. /\ r.err \in {"Ok", "InvalidInput"}
      /\ r.v = Small \/ (r.v \in Top.known /\ IsObj(objs, r.v))
  BY <1>4, HandleResolves
<1> HIDE DEF d, r
<1>6. d.err = "Ok" => Done(g)
  <2> SUFFICES ASSUME d.err = "Ok" PROVE Done(g)
    OBVIOUS
  <2>1. Ready(d) /\ HostOK(d)
    BY <1>2 DEF Ready
  <2>2. Quiet(d, c)
    BY <1>3, <2>1, PushCharges, ChargeQuiet
  <2> HIDE DEF c
  <2>3. r.err \in Errors /\ r.err # "ExceededLimit"
    BY <1>5 DEF Errors
  <2>4. Quiet(d, x)
    BY <2>1, <2>2, <2>3, ThenFail
  <2> HIDE DEF x
  <2>5. Quiet(d, y)
    BY <1>3, <2>1, <2>4, IntegrityQuiet
  <2> HIDE DEF y
  <2>6. Quiet(d, a)
    BY <1>3, <2>1, <2>5, HeapCharges, ThenCharge
  <2> HIDE DEF a
  <2>7. Ready(a) /\ a.stack = d.stack /\ a.objs = d.objs
    BY <2>1, <2>6, QuietReady DEF Quiet
  <2>8. CASE a.err # "Ok"
    <3>1. h = a
      BY <2>8
    <3> HIDE DEF h
    <3> QED BY <1>2, <1>3, <2>7, <2>8, <3>1, ResumeDone
  <2>9. CASE a.err = "Ok"
    <3>1. b = WithObject(a, VecOf(r.v), new)
      BY DEF WithObject, VecOf
    <3>2. h = Knows(b, {new})
      BY <2>9
    <3>3. KnownTop(a, r.v)
      <4>1. Len(stack) \in 1..Len(stack)
        BY <1>4
      <4>2. d.stack[Len(d.stack)].known = Top.known
        BY <1>2, <1>4, <4>1 DEF SameFrames, SameFrame
      <4> QED BY <1>5, <2>7, <4>2 DEF KnownTop
    <3>4. Len(a.objs) < MaxObjs /\ new = new_from_handle(a.objs, "Vec")
      BY <1>1, <1>2, <2>7
    <3> DEFINE u == r.v
    <3>5. b = WithObject(a, VecOf(u), new) /\ KnownTop(a, u)
      BY <3>1, <3>3
    <3> HIDE DEF b, new, h, u
    <3>6. Ready(h) /\ Len(h.stack) = Len(a.stack) /\ KnownTop(h, h.res)
      <4>1. Room(a, u)
        BY <2>7, <2>9, <3>4, <3>5 DEF Room
      <4> QED BY <1>3, <3>2, <3>4, <3>5, <4>1, NewObjectKnown
    <3>8. Len(h.stack) > 1
      BY <1>2, <2>7, <3>6
    <3> QED BY <1>3, <3>6, <3>8, ResumeDone
  <2> QED BY <2>8, <2>9
<1> HIDE DEF g
<1>7. CASE d.err # "Ok"
  BY <1>1, <1>2, <1>3, <1>7, BecomeInv
<1>8. CASE d.err = "Ok"
  BY <1>1, <1>3, <1>6, <1>8, BecomeInv
<1> QED BY <1>7, <1>8

-----------------------------------------------------------------------------
(* The invariant is inductive.                                             *)

(* Every step keeps the invariant.                                         *)
LEMMA VmStep ==
    ASSUME VmInv, [Next]_vars
    PROVE  VmInv'
<1>1. CASE \E n \in net.quanta : Exec(n)
  BY <1>1, StepExec
<1>2. CASE \E v \in GuestVals : vec_new_from_linear_memory(v)
  BY <1>2, StepVecNew
<1>3. CASE \E v \in GuestVals : vec_front(v)
  BY <1>3, StepFront
<1>4. CASE \E v \in GuestVals : Return(v)
  BY <1>4, StepReturn
<1>5. CASE \E c \in DOMAIN net.contracts, v \in GuestVals, try \in BOOLEAN : Call(c, v, try)
  <2>1. PICK c \in DOMAIN net.contracts : \E v \in GuestVals, try \in BOOLEAN : Call(c, v, try)
    BY <1>5
  <2>2. PICK v \in GuestVals : \E try \in BOOLEAN : Call(c, v, try)
    BY <2>1
  <2>3. PICK try \in BOOLEAN : Call(c, v, try)
    BY <2>2
  <2> QED BY <2>3, StepCall
<1>6. CASE \E w \in net.wasms : UploadWasm(w)
  BY <1>6, StepUpload
<1>7. CASE MemoryGrow
  BY <1>7, StepMemoryGrow
<1>8. CASE log_from_linear_memory
  BY <1>8, StepLog
<1>9. CASE Trap
  BY <1>9, StepTrap
<1>10. CASE Unwind
  BY <1>10, StepUnwind
<1>11. CASE End
  BY <1>11, StepEnd
<1>12. CASE UNCHANGED vars
  <2>1. /\ network' = network /\ bud' = bud /\ objs' = objs /\ auth' = auth /\ uploaded' = uploaded
        /\ stack' = stack /\ unpaid' = unpaid /\ err' = err
    BY <1>12 DEF vars
  <2> QED BY <2>1, InvBefore, InvAfter
<1>13. Next \/ UNCHANGED vars
  OBVIOUS
<1> QED BY <1>1, <1>2, <1>3, <1>4, <1>5, <1>6, <1>7, <1>8, <1>9, <1>10, <1>11, <1>12, <1>13 DEF Next

(* The inductive invariant of the host and its guests.                     *)
LEMMA VmInvariant == Spec => []VmInv
<1>1. Init => VmInv
  BY VmInit
<1>2. VmInv /\ [Next]_vars => VmInv'
  BY VmStep
<1> QED BY <1>1, <1>2, PTL DEF Spec

(* The state has its types: no step of the host, for any network and any   *)
(* behaviour of the guests, ends in an internal error.                     *)
THEOREM HostTyped == Spec => []TypeOK
<1>1. VmInv => TypeOK
  <2> SUFFICES ASSUME VmInv PROVE TypeOK
    OBVIOUS
  <2>1. network \in DOMAIN Networks /\ err \in Errors /\ auth \in Nat /\ unpaid \in Int /\ uploaded \subseteq net.wasms
    BY InvBefore DEF InNetwork
  <2>2. bud.cpu \in Dimensions /\ bud.mem \in Dimensions /\ bud.shadow \in BOOLEAN
    BY InvBefore DEF IsBudget
  <2>3. \A i \in DOMAIN objs : objs[i].tag \in Tags
    BY InvBefore, SeqLength DEF ObjectsOK
  <2>4. \A i \in DOMAIN stack :
          /\ stack[i].contract \in DOMAIN net.contracts \union {None} /\ stack[i].try \in BOOLEAN
          /\ stack[i].fuel \in [total : Nat, consumed : Nat, grown : Nat]
    <3>1. stack \in Seq(FrameType)
      BY InvBefore DEF StackOK
    <3>2. \A i \in DOMAIN stack : stack[i] \in FrameType
      BY <3>1
    <3> QED BY <3>2 DEF FrameType
  <2> QED BY <2>1, <2>2, <2>3, <2>4 DEF TypeOK
<1> QED BY <1>1, VmInvariant, PTL

(* At any time at most the running guest holds fuel, and the CPU charged   *)
(* and the price of its fuel are together within the limit, but for memory *)
(* grown since: whatever the cost of an instruction, guests cannot run the *)
(* host out of its budget unnoticed.                                       *)
THEOREM FuelBounded == Spec => []FuelWithinBudget
<1>1. VmInv => FuelWithinBudget
  <2> SUFFICES ASSUME VmInv PROVE FuelWithinBudget
    OBVIOUS
  <2>1. \A i \in 1..Len(stack) - 1 : i \in 1..Len(stack) /\ i < Len(stack)
    BY InvBefore
  <2>2. \A i \in 1..Len(stack) - 1 : stack[i].fuel = NoFuel
    BY <2>1, InvBefore DEF Lent
  <2>3. Guest => bud.cpu.total + net.cpu["WasmInsnExec"][1] * Top.fuel.total <= bud.cpu.limit + Top.fuel.grown
    BY InvBefore DEF Guest, Top
  <2> QED BY <2>2, <2>3 DEF FuelWithinBudget
<1> QED BY <1>1, VmInvariant, PTL

(* Every instruction is charged for, and none twice while the transaction  *)
(* can still succeed, however calls, traps and failing charges interleave. *)
THEOREM AllMetered == Spec => []EverythingMetered
<1>1. VmInv => EverythingMetered
  <2> SUFFICES ASSUME VmInv PROVE EverythingMetered
    OBVIOUS
  <2>1. InFlight = Burnt(stack)
    BY DEF InFlight, Burnt, Top
  <2> QED BY <2>1, InvBefore DEF EverythingMetered
<1> QED BY <1>1, VmInvariant, PTL

(* Whatever integers guests pass for handles, and however deep the objects *)
(* are nested, a contract's handles lead only to objects it was given.     *)
THEOREM Isolation == Spec => []HandlesIsolated
<1>1. VmInv => HandlesIsolated
  <2> SUFFICES ASSUME VmInv, NEW i \in DOMAIN stack
               PROVE  Reachable(objs, {stack[i].rel[j] : j \in DOMAIN stack[i].rel}) \subseteq stack[i].known
    BY DEF HandlesIsolated
  <2> DEFINE f == stack[i]
             S == {f.rel[j] : j \in DOMAIN f.rel}
  <2>1. StackOK(objs, stack) /\ IsSeq(objs)
    BY InvBefore DEF ObjectsOK
  <2>2. f \in FrameType /\ Isolated(objs, f)
    BY <2>1 DEF StackOK
  <2>3. DOMAIN f.rel = 1..Len(f.rel)
    BY <2>2 DEF FrameType
  <2> HIDE DEF f
  <2>4. S \subseteq f.known \cup {Small} /\ Closed(objs, f.known)
    BY <2>2, <2>3 DEF Isolated
  <2> HIDE DEF S
  <2>5. Reachable(objs, S) \subseteq f.known
    BY <2>1, <2>4, ReachedWithin
  <2> QED BY <2>5 DEF S, f
<1> QED BY <1>1, VmInvariant, PTL

(* The authorization manager's stack follows the host's but under an error *)
(* no contract can catch, at whichever charge a call fails.                *)
THEOREM StacksAligned == Spec => []AuthAligned
<1>1. VmInv => AuthAligned
  BY InvBefore DEF AuthAligned
<1> QED BY <1>1, VmInvariant, PTL

-----------------------------------------------------------------------------
(* What is checked of an uploaded Wasm.                                    *)

(* The checks an upload makes and an instantiation makes again.            *)
Checked(w) ==
    /\ parse_wasm(net.proto, w) = "Ok"
    /\ check_contract_imports_match_host_protocol(net.proto, w) = "Ok"
    /\ link(w) = "Ok" /\ ensure_no_start(w) = "Ok"
    /\ w.pages = 0 \/ w.pages <= w.max

(* A charge or a failure that ends well began well,                        *)
LEMMA ChargeOk ==
    ASSUME NEW h, NEW q, Charge(h, q).err = "Ok"
    PROVE  h.err = "Ok"
  BY DEF Charge

(* and the failure is none.                                                *)
LEMMA FailOk ==
    ASSUME NEW h, IsHost(h), NEW e, Fail(h, e).err = "Ok"
    PROVE  h.err = "Ok" /\ e = "Ok"
<1>1. h.err = "Ok"
  BY DEF Fail
<1>2. Fail(h, e) = [bud |-> h.bud, objs |-> h.objs, stack |-> h.stack, auth |-> h.auth, err |-> e, res |-> h.res]
  BY <1>1 DEF Fail, IsHost
<1> QED BY <1>1, <1>2

(* Memory is granted within the module's maximum only.                     *)
LEMMA MemoryOk ==
    ASSUME NEW h, IsHost(h), NEW w, InitialMemory(h, w).err = "Ok"
    PROVE  h.err = "Ok" /\ (w.pages = 0 \/ w.pages <= w.max)
<1>1. h.err = "Ok"
  BY DEF InitialMemory
<1>2. ASSUME w.pages # 0, ~(w.pages <= w.max) PROVE FALSE
  <2> DEFINE r == memory_growing(net, h.bud, w.pages * PageSize, w.pages <= w.max)
  <2>1. InitialMemory(h, w) = Charged(h, r)
    BY <1>1, <1>2 DEF InitialMemory
  <2>2. r = [b |-> h.bud, err |-> "ExceededLimit"]
    BY <1>2 DEF memory_growing
  <2>3. r.b = h.bud /\ r.err = "ExceededLimit"
    BY <2>2
  <2> HIDE DEF r
  <2>4. Charged(h, r) = [[h EXCEPT !.bud = r.b] EXCEPT !.err = r.err]
    BY DEF Charged
  <2>5. Charged(h, r).err = "ExceededLimit"
    BY <2>3, <2>4 DEF IsHost
  <2> QED BY <2>1, <2>5
<1> QED BY <1>1, <1>2

(* An upload whose tried instantiation succeeds has checked the Wasm.      *)
LEMMA CheckVmOk ==
    ASSUME InNetwork, NEW h, HostOK(h), NEW w, IsWasm(w), check_vm(h, w).err = "Ok"
    PROVE  h.err = "Ok" /\ Checked(w)
<1> DEFINE in == V0(w)
           imports == bulk_init_cpy(Cardinality(w.imports))
           p == Charge(h, charge_for_parsing(in))
           o == Fail(p, parse_wasm(net.proto, w))
           g == Charge(o, imports)
           a == Charge(g, charge_for_instantiation(in))
           b == Charge(a, imports)
           c == Fail(b, check_contract_imports_match_host_protocol(net.proto, w))
           d == Fail(c, link(w))
           m == InitialMemory(d, w)
<1>1. check_vm(h, w) = Fail(m, ensure_no_start(w))
  BY DEF check_vm, parse, instantiate_wasmi
<1>2. Charges(charge_for_parsing(in)) /\ Charges(charge_for_instantiation(in)) /\ Charges(imports)
  BY ParsingCharges, ImportCharges
<1> HIDE DEF in, imports
<1>3. Quiet(h, p)
  BY <1>2, QuietSame, ThenCharge
<1> HIDE DEF p
<1>4. Quiet(h, o)
  BY <1>3, ParseOutcome, ThenFail
<1> HIDE DEF o
<1>5. Quiet(h, g)
  BY <1>2, <1>4, ThenCharge
<1> HIDE DEF g
<1>6. Quiet(h, a)
  BY <1>2, <1>5, ThenCharge
<1> HIDE DEF a
<1>7. Quiet(h, b)
  BY <1>2, <1>6, ThenCharge
<1> HIDE DEF b
<1>8. Quiet(h, c)
  BY <1>7, LinkOutcome, ThenFail
<1> HIDE DEF c
<1>9. Quiet(h, d)
  BY <1>8, LinkOutcome, ThenFail
<1> HIDE DEF d
<1>10. IsHost(p) /\ IsHost(b) /\ IsHost(c) /\ IsHost(d)
  BY <1>3, <1>7, <1>8, <1>9 DEF Quiet
<1>20. IsHost(m)
  BY <1>9, QuietHost, MemoryQuiet DEF Quiet
<1>21. m.err = "Ok" /\ ensure_no_start(w) = "Ok"
  <2> HIDE DEF m
  <2> QED BY <1>1, <1>20, FailOk
<1>11. d.err = "Ok" /\ (w.pages = 0 \/ w.pages <= w.max)
  BY <1>10, <1>21, MemoryOk
<1>12. c.err = "Ok" /\ link(w) = "Ok"
  BY <1>10, <1>11, FailOk DEF d
<1>13. b.err = "Ok" /\ check_contract_imports_match_host_protocol(net.proto, w) = "Ok"
  BY <1>10, <1>12, FailOk DEF c
<1>14. a.err = "Ok"
  BY <1>13, ChargeOk DEF b
<1>15. g.err = "Ok"
  BY <1>14, ChargeOk DEF a
<1>16. o.err = "Ok"
  BY <1>15, ChargeOk DEF g
<1>17. p.err = "Ok" /\ parse_wasm(net.proto, w) = "Ok"
  BY <1>10, <1>16, FailOk DEF o
<1>18. h.err = "Ok"
  BY <1>17, ChargeOk DEF p
<1> QED BY <1>11, <1>12, <1>13, <1>17, <1>18, <1>21 DEF Checked

(* Whatever is uploaded has passed the checks.                             *)
UploadedInv == \A w \in uploaded : Checked(w)

(* Every step keeps it.                                                    *)
LEMMA UploadedStep ==
    ASSUME VmInv, UploadedInv, [Next]_vars
    PROVE  UploadedInv'
<1>1. network' = network
  BY DEF Next, vars, Exec, vec_new_from_linear_memory, vec_front, Return, Call, UploadWasm, MemoryGrow,
         log_from_linear_memory, Trap, Unwind, End
<1>2. \A w : Checked(w)' <=> Checked(w)
  BY <1>1 DEF Checked, net
<1>3. CASE uploaded' = uploaded
  BY <1>2, <1>3 DEF UploadedInv
<1>4. ASSUME NEW w \in net.wasms, UploadWasm(w) PROVE UploadedInv'
  <2> DEFINE d == Dispatch(Small)
             b == check_vm(d, w)
             a == Charge(b, charge_for_parsing(V0(w)))
             f == Fail(a, extract_refined_contract_cost_inputs(w))
             h == Charge(f, <<heap_alloc>>)
  <2>1. Guest /\ uploaded' = IF h.err = "Ok" THEN uploaded \union {w} ELSE uploaded
    BY <1>4 DEF UploadWasm
  <2>2. InNetwork /\ IsWasm(w)
    BY NetworkModel DEF VmInv
  <2>3. HostOK(d)
    BY <2>1, SmallIsGuests, GuestDispatch DEF Ready, Done
  <2> HIDE DEF d
  <2>4. Quiet(d, b)
    BY <2>2, <2>3, QuietSame, CheckVmQuiet
  <2>5. ASSUME b.err = "Ok" PROVE Checked(w)
    BY <2>2, <2>3, <2>5, CheckVmOk
  <2> HIDE DEF b
  <2>6. Charges(charge_for_parsing(V0(w)))
    BY <2>2, ParsingCharges
  <2>7. Quiet(d, a)
    BY <2>2, <2>3, <2>4, <2>6, ThenCharge
  <2>8. ASSUME h.err = "Ok" PROVE Checked(w)
    <3>1. f.err = "Ok"
      <4> HIDE DEF f
      <4> QED BY <2>8, ChargeOk
    <3>2. IsHost(a)
      BY <2>7 DEF Quiet
    <3>3. a.err = "Ok"
      <4> HIDE DEF a
      <4> QED BY <3>1, <3>2, FailOk
    <3>4. b.err = "Ok"
      BY <3>3, ChargeOk
    <3> QED BY <2>5, <3>4
  <2> HIDE DEF h
  <2> QED BY <1>2, <2>1, <2>8 DEF UploadedInv
<1>5. (\E w \in net.wasms : UploadWasm(w)) \/ uploaded' = uploaded
  BY DEF Next, vars, Exec, vec_new_from_linear_memory, vec_front, Return, Call, MemoryGrow,
         log_from_linear_memory, Trap, Unwind, End
<1> QED BY <1>3, <1>4, <1>5

-----------------------------------------------------------------------------
(* Instantiation given the budget.                                         *)

(* A charge that takes at most a 64th of what a u64 can count in memory.   *)
Cheap(p, ty, iterations, input) == 64 * evaluate(p.mem[ty], iterations, input) <= U64Max
AllCheap(p, q) == \A i \in 1..Len(q) : Cheap(p, q[i][1], q[i][2], q[i][3])

(* Parsing and instantiating w is paid with charges that are cheap, and    *)
(* its initial memory is at most half of what a u64 can count.             *)
Fits(p, w) ==
    /\ 2 * (w.pages * PageSize) <= U64Max
    /\ AllCheap(p, charge_for_parsing(V1(w))) /\ AllCheap(p, charge_for_instantiation(V1(w)))
    /\ AllCheap(p, bulk_init_cpy(Cardinality(w.imports)))

(* A network's Wasms are of a size a host can count.                       *)
WasmsFit == \A n \in DOMAIN Networks : \A w \in Networks[n].wasms : Fits(Networks[n], w)

(* A budget that only u64 bounds, after k cheap charges.                   *)
Rich(b, k) ==
    /\ IsBudget(b)
    /\ b.cpu.limit = U64Max /\ b.cpu.shadow_limit = U64Max
    /\ b.mem.limit = U64Max /\ b.mem.shadow_limit = U64Max
    /\ 64 * b.mem.total <= k * U64Max

(* A total that saturates at its limit does not exceed it.                 *)
LEMMA AddWithin ==
    ASSUME NEW d \in Dimensions, d.limit = U64Max, d.shadow_limit = U64Max, NEW amount \in Nat,
           NEW shadow \in BOOLEAN, NEW e, e = Add(d, amount, shadow)
    PROVE  /\ e \in Dimensions /\ e.limit = U64Max /\ e.shadow_limit = U64Max
           /\ ~OverLimit(e, shadow) /\ e.total <= d.total + amount
<1>0. U64Max \in Nat /\ d.total \in Nat /\ d.shadow_total \in Nat
  BY BudgetAssumption DEF Dimensions
<1>1. e \in Dimensions /\ e.limit = d.limit /\ (shadow => e.total = d.total)
  BY AddType
<1>2. e.shadow_limit = d.shadow_limit
  BY DEF Add, Dimensions
<1>3. e.total \in 0..U64Max /\ e.shadow_total \in 0..U64Max
  BY <1>1 DEF Dimensions
<1>4. ~OverLimit(e, shadow)
  BY <1>0, <1>1, <1>2, <1>3 DEF OverLimit
<1>5. e.total <= d.total + amount
  <2>1. CASE shadow
    <3>1. e.total = d.total
      BY <1>1, <2>1
    <3>2. d.total <= d.total + amount
      BY <1>0
    <3> QED BY <3>1, <3>2
  <2>2. CASE ~shadow
    <3>1. e.total = Sat(d.total + amount)
      BY <2>2 DEF Add, Dimensions
    <3> QED BY <1>0, <3>1 DEF Sat
  <2> QED BY <2>1, <2>2
<1> QED BY <1>1, <1>2, <1>4, <1>5

(* No charge exhausts a budget that only u64 bounds,                       *)
LEMMA RichCharge ==
    ASSUME NEW p, IsModel(p), NEW k \in Nat, NEW b, Rich(b, k), NEW ty, NEW iterations, NEW input,
           WellFormed(ty, iterations, input), NEW r, r = charge(p, b, ty, iterations, input)
    PROVE  /\ r.err = "Ok" /\ r.b.shadow = b.shadow
           /\ Cheap(p, ty, iterations, input) => Rich(r.b, k + 1)
<1> DEFINE tracked == IF b.shadow \/ ty # "WasmInsnExec" THEN b
                      ELSE [b EXCEPT !.insns = b.insns + iterations]
           x == evaluate(p.cpu[ty], iterations, input)
           y == evaluate(p.mem[ty], iterations, input)
           cpu == Add(b.cpu, x, b.shadow)
           mem == Add(b.mem, y, b.shadow)
<1>1. p.cpu[ty] \in Nat \X Nat /\ p.mem[ty] \in Nat \X Nat
      /\ iterations \in Nat /\ input \in Nat \cup {NoInput}
  BY DEF IsModel, IsCostModel, WellFormed
<1>2. x \in Nat /\ y \in Nat
  BY <1>1, EvaluateType
<1>3. b.cpu \in Dimensions /\ b.mem \in Dimensions /\ b.shadow \in BOOLEAN /\ b.insns \in Nat
  BY DEF Rich, IsBudget
<1>4. b.cpu.limit = U64Max /\ b.cpu.shadow_limit = U64Max /\ b.mem.limit = U64Max
      /\ b.mem.shadow_limit = U64Max /\ 64 * b.mem.total <= k * U64Max /\ IsBudget(b)
  BY DEF Rich
<1>5. (input = NoInput) # TakesInput(ty)
  <2>1. NoInput \notin Nat
    BY DEF NoInput
  <2> QED BY <2>1 DEF WellFormed, TakesInput
<1>6. Cheap(p, ty, iterations, input) => 64 * y <= U64Max
  BY DEF Cheap
<1> HIDE DEF x, y
<1>7. cpu \in Dimensions /\ cpu.limit = U64Max /\ cpu.shadow_limit = U64Max /\ ~OverLimit(cpu, b.shadow)
  BY <1>2, <1>3, <1>4, AddWithin
<1>8. mem \in Dimensions /\ mem.limit = U64Max /\ mem.shadow_limit = U64Max /\ ~OverLimit(mem, b.shadow)
      /\ mem.total <= b.mem.total + y
  BY <1>2, <1>3, <1>4, AddWithin
<1>9. r = [b |-> [tracked EXCEPT !.cpu = cpu, !.mem = mem], err |-> "Ok"]
  BY <1>5, <1>7, <1>8 DEF charge, x, y
<1>10. tracked \in [cpu : Dimensions, mem : Dimensions, shadow : BOOLEAN, insns : Nat]
       /\ tracked.shadow = b.shadow
  <2>1. b.insns + iterations \in Nat
    BY <1>1, <1>3
  <2> QED BY <1>3, <1>4, <2>1 DEF IsBudget
<1> HIDE DEF tracked, cpu, mem
<1>11. r.b = [[tracked EXCEPT !.cpu = cpu] EXCEPT !.mem = mem] /\ r.err = "Ok"
  BY <1>9
<1>12. IsBudget(r.b) /\ r.b.cpu = cpu /\ r.b.mem = mem /\ r.b.shadow = b.shadow
  BY <1>7, <1>8, <1>10, <1>11 DEF IsBudget
<1>13. ASSUME 64 * y <= U64Max PROVE 64 * mem.total <= (k + 1) * U64Max
  <2>1. U64Max \in Nat /\ b.mem.total \in Nat /\ mem.total \in Nat
    BY <1>3, <1>8, BudgetAssumption DEF Dimensions
  <2>2. (k + 1) * U64Max = k * U64Max + U64Max /\ k * U64Max \in Nat
    BY <2>1
  <2> DEFINE z == k * U64Max
             v == mem.total
             u == b.mem.total
  <2>3. v <= u + y /\ 64 * u <= z /\ z \in Nat /\ u \in Nat /\ v \in Nat
    BY <1>4, <1>8, <2>1, <2>2
  <2> HIDE DEF z, u, v
  <2>4. 64 * v <= z + U64Max
    BY <1>2, <1>13, <2>1, <2>3
  <2> QED BY <2>2, <2>4 DEF z, v
<1> QED BY <1>6, <1>7, <1>8, <1>11, <1>12, <1>13 DEF Rich

(* nor any sequence of charges.                                            *)
LEMMA RichCharges ==
    ASSUME NEW p, IsModel(p), NEW k \in Nat, NEW b, Rich(b, k), NEW q, Charges(q),
           AllCheap(p, q), NEW r, r = charge_all(p, b, q)
    PROVE  r.err = "Ok" /\ Rich(r.b, k + Len(q)) /\ r.b.shadow = b.shadow
<1> DEFINE n == Len(q)
           F == CHOOSE f : Runs(p, b, q, f, n)
<1>1. n \in Nat
  BY DEF Charges
<1>2. Runs(p, b, q, F, n)
  BY <1>1, RunsExist
<1>3. r = F[n]
  BY DEF charge_all, Runs, Then
<1> HIDE DEF F
<1> DEFINE Good(x, i) == x.err = "Ok" /\ Rich(x.b, k + i) /\ x.b.shadow = b.shadow
           T == {i \in 0..n : ~Good(F[i], i)}
<1>4. ASSUME T # {} PROVE FALSE
  <2>1. T \subseteq Nat
    BY <1>1
  <2>2. PICK m \in T : \A j \in T : m <= j
    BY <1>4, <2>1, Least
  <2>3. CASE m = 0
    <3>1. F[m] = [b |-> b, err |-> "Ok"] /\ k + m = k
      BY <1>1, <1>2, <2>3 DEF Runs
    <3>2. Good(F[m], m)
      BY <3>1
    <3> QED BY <3>2
  <2>4. CASE m # 0
    <3>1. m - 1 \in 0..n /\ m \in 1..n /\ m - 1 \notin T /\ k + (m - 1) \in Nat /\ (k + (m - 1)) + 1 = k + m
      BY <1>1, <2>2, <2>4
    <3> DEFINE x == F[m - 1]
               y == F[m]
               j == k + (m - 1)
    <3>2. Good(x, m - 1)
      BY <3>1
    <3>3. y = Then(p, x, q[m])
      BY <1>2, <2>4 DEF Runs
    <3>4. WellFormed(q[m][1], q[m][2], q[m][3]) /\ Cheap(p, q[m][1], q[m][2], q[m][3])
      BY <3>1 DEF Charges, AllCheap
    <3>5. x.err = "Ok" /\ Rich(x.b, j) /\ x.b.shadow = b.shadow /\ j \in Nat
      BY <3>1, <3>2
    <3> HIDE DEF x, y, j
    <3>6. y = charge(p, x.b, q[m][1], q[m][2], q[m][3])
      BY <3>3, <3>5 DEF Then
    <3>7. y.err = "Ok" /\ y.b.shadow = x.b.shadow /\ Rich(y.b, j + 1)
      BY <3>4, <3>5, <3>6, RichCharge
    <3>8. j + 1 = k + m
      BY <3>1 DEF j
    <3>9. Good(y, m)
      BY <3>5, <3>7, <3>8
    <3> QED BY <3>9 DEF y
  <2> QED BY <2>3, <2>4
<1>5. Good(F[n], n)
  BY <1>1, <1>4
<1> QED BY <1>3, <1>5

(* Observing the shadow budget is no different.                            *)
LEMMA RichShadow ==
    ASSUME NEW p, IsModel(p), NEW k \in Nat, NEW b, Rich(b, k), NEW q, Charges(q), AllCheap(p, q),
           NEW r, r = with_observable_shadow_mode(p, b, q)
    PROVE  r.err = "Ok" /\ Rich(r.b, k + Len(q)) /\ r.b.shadow = b.shadow
<1> DEFINE in == [b EXCEPT !.shadow = TRUE]
           s == charge_all(p, in, q)
<1>1. IsBudget(in) /\ in.cpu = b.cpu /\ in.mem = b.mem /\ IsBudget(b)
  BY DEF Rich, IsBudget
<1>2. Rich(in, k)
  <2> HIDE DEF in
  <2> QED BY <1>1 DEF Rich
<1>3. ~OverLimit(b.cpu, TRUE) /\ ~OverLimit(b.mem, TRUE)
  <2>1. b.cpu.shadow_total \in 0..U64Max /\ b.mem.shadow_total \in 0..U64Max /\ U64Max \in Nat
    BY <1>1, BudgetAssumption DEF IsBudget, Dimensions
  <2> QED BY <2>1 DEF OverLimit, Rich
<1>4. r = [b |-> [s.b EXCEPT !.shadow = b.shadow], err |-> s.err]
  BY <1>3 DEF with_observable_shadow_mode
<1> HIDE DEF in
<1>5. s.err = "Ok" /\ Rich(s.b, k + Len(q))
  BY <1>2, RichCharges
<1> HIDE DEF s
<1>6. r.err = "Ok" /\ r.b = [s.b EXCEPT !.shadow = b.shadow]
  BY <1>4, <1>5
<1>7. IsBudget(r.b) /\ r.b.cpu = s.b.cpu /\ r.b.mem = s.b.mem /\ r.b.shadow = b.shadow
  BY <1>1, <1>5, <1>6 DEF Rich, IsBudget
<1>8. Rich(r.b, k + Len(q))
  BY <1>5, <1>7 DEF Rich
<1> QED BY <1>6, <1>7, <1>8

(* A host in order with such a budget.                                     *)
RichHost(h, k) == IsHost(h) /\ h.err = "Ok" /\ ~h.bud.shadow /\ Rich(h.bud, k)

(* It stays one when the outcome of charges becomes its own,               *)
LEMMA RichCharged ==
    ASSUME NEW k, NEW h, IsHost(h), NEW r, r.err = "Ok", ~r.b.shadow, Rich(r.b, k)
    PROVE  RichHost(Charged(h, r), k)
<1> DEFINE g == Charged(h, r)
<1>1. g = [[h EXCEPT !.bud = r.b] EXCEPT !.err = r.err]
  BY DEF Charged
<1> HIDE DEF g
<1>2. g = [bud |-> r.b, objs |-> h.objs, stack |-> h.stack, auth |-> h.auth, err |-> r.err, res |-> h.res]
  BY <1>1 DEF IsHost
<1>3. IsHost(g) /\ g.bud = r.b /\ g.err = r.err
  BY <1>2 DEF IsHost
<1>4. RichHost(g, k)
  BY <1>3 DEF RichHost
<1> QED BY <1>4 DEF g

(* when it charges,                                                        *)
LEMMA RichHostCharge ==
    ASSUME InNetwork, NEW k \in Nat, NEW h, RichHost(h, k), NEW q, Charges(q), AllCheap(net, q)
    PROVE  RichHost(Charge(h, q), k + Len(q))
<1> DEFINE r == charge_all(net, h.bud, q)
<1>1. IsHost(h) /\ h.err = "Ok" /\ ~h.bud.shadow /\ Rich(h.bud, k)
  BY DEF RichHost
<1>2. Charge(h, q) = Charged(h, r)
  BY <1>1 DEF Charge
<1>3. r.err = "Ok" /\ Rich(r.b, k + Len(q)) /\ r.b.shadow = h.bud.shadow
  <2> DEFINE p == net
             b == h.bud
  <2>1. IsModel(p) /\ AllCheap(p, q) /\ Rich(b, k)
    BY <1>1, NetworkModel
  <2> HIDE DEF p, b
  <2>2. charge_all(p, b, q).err = "Ok"
    BY <2>1, RichCharges
  <2>3. Rich(charge_all(p, b, q).b, k + Len(q))
    BY <2>1, RichCharges
  <2>4. charge_all(p, b, q).b.shadow = b.shadow
    BY <2>1, RichCharges
  <2> QED BY <2>2, <2>3, <2>4 DEF p, b
<1> HIDE DEF r
<1> QED BY <1>1, <1>2, <1>3, RichCharged

(* and when a check finds nothing.                                         *)
LEMMA RichHostPasses ==
    ASSUME NEW k, NEW h, RichHost(h, k), NEW e, e = "Ok"
    PROVE  Fail(h, e) = h
<1>1. IsHost(h) /\ h.err = "Ok"
  BY DEF RichHost
<1>2. Fail(h, e) = [h EXCEPT !.err = "Ok"]
  BY <1>1 DEF Fail
<1>3. Fail(h, e) = [bud |-> h.bud, objs |-> h.objs, stack |-> h.stack, auth |-> h.auth,
                    err |-> "Ok", res |-> h.res]
  BY <1>1, <1>2 DEF IsHost
<1> QED BY <1>1, <1>3 DEF IsHost

(* After at most 32 cheap charges there is room for the initial memory.    *)
LEMMA RichMemory ==
    ASSUME InNetwork, NEW k \in 0..32, NEW h, RichHost(h, k), NEW w, IsWasm(w),
           2 * (w.pages * PageSize) <= U64Max, w.pages = 0 \/ w.pages <= w.max
    PROVE  InitialMemory(h, w).err = "Ok"
<1>1. IsHost(h) /\ h.err = "Ok" /\ ~h.bud.shadow /\ Rich(h.bud, k) /\ IsBudget(h.bud)
  BY DEF RichHost, Rich
<1>2. CASE w.pages = 0
  BY <1>1, <1>2 DEF InitialMemory
<1>3. CASE w.pages # 0
  <2> DEFINE d == w.pages * PageSize
             c == charge(net, h.bud, "MemAlloc", 1, d)
             r == memory_growing(net, h.bud, d, w.pages <= w.max)
  <2>1. InitialMemory(h, w) = Charged(h, r)
    BY <1>1, <1>3 DEF InitialMemory
  <2>2. d \in Nat /\ 2 * d <= U64Max
    BY VmAssumption DEF IsWasm
  <2>3. w.pages <= w.max
    BY <1>3
  <2> HIDE DEF d
  <2>4. d <= get_remaining(h.bud.mem)
    <3> DEFINE t == h.bud.mem.total
    <3>1. t \in Nat /\ U64Max \in Nat /\ 64 * t <= k * U64Max /\ h.bud.mem.limit = U64Max
      BY <1>1, BudgetAssumption DEF Rich, IsBudget, Dimensions
    <3>2. get_remaining(h.bud.mem) = IF t > U64Max THEN 0 ELSE U64Max - t
      BY <3>1 DEF get_remaining
    <3> HIDE DEF t
    <3>3. k * U64Max <= 32 * U64Max
      BY <3>1
    <3> DEFINE z == k * U64Max
    <3>4. 64 * t <= z /\ z <= 32 * U64Max /\ z \in Int
      BY <3>1, <3>3
    <3> HIDE DEF z
    <3>5. 2 * t <= U64Max
      BY <3>1, <3>4
    <3> QED BY <2>2, <3>1, <3>2, <3>5
  <2>5. WellFormed("MemAlloc", 1, d)
    BY <2>2, LinearCharge
  <2>6. c.err = "Ok"
    BY <1>1, <2>5, NetworkModel, RichCharge
  <2>7. r = [c EXCEPT !.err = IF c.err = "Ok" THEN "Ok" ELSE "ExceededLimit"]
    <3>1. h.bud.mem.total \in Int /\ h.bud.mem.limit \in Int
      BY <1>1 DEF IsBudget, Dimensions
    <3>2. get_remaining(h.bud.mem) \in Int
      BY <3>1 DEF get_remaining
    <3>3. ~(d > get_remaining(h.bud.mem))
      BY <2>2, <2>4, <3>2
    <3> QED BY <2>3, <3>3 DEF memory_growing
  <2>8. \E x, e : c = [b |-> x, err |-> e]
    BY DEF charge
  <2> HIDE DEF c
  <2>9. r.err = "Ok"
    BY <2>6, <2>7, <2>8
  <2> HIDE DEF r
  <2>10. Charged(h, r) = [[h EXCEPT !.bud = r.b] EXCEPT !.err = r.err]
    BY DEF Charged
  <2>11. Charged(h, r).err = "Ok"
    BY <1>1, <2>9, <2>10 DEF IsHost
  <2> QED BY <2>1, <2>11
<1> QED BY <1>2, <1>3

(* The charges of parsing, instantiating and linking.                      *)
LEMMA ChargesOf ==
    ASSUME NEW p, NEW w, IsWasm(w), Fits(p, w)
    PROVE  LET in == V1(w)
               imports == bulk_init_cpy(Cardinality(w.imports))
           IN  /\ Charges(charge_for_parsing(in)) /\ Len(charge_for_parsing(in)) = 10
               /\ AllCheap(p, charge_for_parsing(in))
               /\ Charges(charge_for_instantiation(in)) /\ Len(charge_for_instantiation(in)) = 10
               /\ AllCheap(p, charge_for_instantiation(in))
               /\ Charges(imports) /\ Len(imports) = 3 /\ AllCheap(p, imports)
               /\ Charges(charge_for_parsing(in) \o imports) /\ Len(charge_for_parsing(in) \o imports) = 13
               /\ AllCheap(p, charge_for_parsing(in) \o imports)
<1> DEFINE in == V1(w)
           imports == bulk_init_cpy(Cardinality(w.imports))
           q == charge_for_parsing(in)
           s == charge_for_instantiation(in)
<1>1. AllCheap(p, q) /\ AllCheap(p, s) /\ AllCheap(p, imports)
  BY DEF Fits
<1>2. Charges(q) /\ Charges(s) /\ Charges(imports) /\ q \in Seq(Triple) /\ imports \in Seq(Triple)
  BY ParsingCharges, ImportCharges
<1>3. Len(q) = 10 /\ Len(s) = 10
  BY DEF charge_for_parsing, charge_for_instantiation, V1
<1>4. Len(imports) = 3
  BY DEF bulk_init_cpy
<1> HIDE DEF in, imports, q, s
<1>5. Charges(q \o imports)
  BY <1>2, ChargesJoined
<1>6. Len(q \o imports) = 13
      /\ \A i \in 1..13 : (q \o imports)[i] = IF i <= 10 THEN q[i] ELSE imports[i - 10]
  <2>1. Len(q \o imports) = Len(q) + Len(imports)
        /\ \A i \in 1..(Len(q) + Len(imports)) :
              (q \o imports)[i] = IF i <= Len(q) THEN q[i] ELSE imports[i - Len(q)]
    BY <1>2
  <2> DEFINE t == q \o imports
  <2> HIDE DEF t
  <2>2. Len(t) = 13
    BY <1>3, <1>4, <2>1 DEF t
  <2>3. 1..13 = 1..(Len(q) + Len(imports))
    BY <1>3, <1>4
  <2>4. ASSUME NEW i \in 1..13 PROVE t[i] = IF i <= 10 THEN q[i] ELSE imports[i - 10]
    <3>1. t[i] = IF i <= Len(q) THEN q[i] ELSE imports[i - Len(q)]
      BY <2>1, <2>3 DEF t
    <3> QED BY <1>3, <3>1
  <2> QED BY <2>2, <2>4 DEF t
<1> DEFINE t == q \o imports
<1> HIDE DEF t
<1>7. AllCheap(p, t)
  <2>0. Len(t) = 13 /\ \A i \in 1..13 : t[i] = IF i <= 10 THEN q[i] ELSE imports[i - 10]
    BY <1>6 DEF t
  <2> SUFFICES ASSUME NEW i \in 1..13 PROVE Cheap(p, t[i][1], t[i][2], t[i][3])
    BY <2>0 DEF AllCheap
  <2>1. CASE i <= 10
    <3>1. i \in 1..10 /\ t[i] = q[i]
      BY <2>0, <2>1
    <3> QED BY <1>1, <1>3, <3>1 DEF AllCheap
  <2>2. CASE ~(i <= 10)
    <3>1. i - 10 \in 1..3 /\ t[i] = imports[i - 10]
      BY <2>0, <2>2
    <3> QED BY <1>1, <1>4, <3>1 DEF AllCheap
  <2> QED BY <2>1, <2>2
<1> QED BY <1>1, <1>2, <1>3, <1>4, <1>5, <1>6, <1>7 DEF in, imports, q, s, t

(* A checked Wasm is instantiated with wasmi,                              *)
LEMMA RichInstantiate ==
    ASSUME InNetwork, NEW k \in 0..13, NEW h, RichHost(h, k), NEW w, IsWasm(w), Fits(net, w), Checked(w)
    PROVE  instantiate_wasmi(h, w, V1(w)).err = "Ok"
<1> DEFINE q == charge_for_instantiation(V1(w))
           imports == bulk_init_cpy(Cardinality(w.imports))
           a == Charge(h, q)
           b == Charge(a, imports)
           c == Fail(b, check_contract_imports_match_host_protocol(net.proto, w))
           d == Fail(c, link(w))
<1>1. instantiate_wasmi(h, w, V1(w)) = Fail(InitialMemory(d, w), ensure_no_start(w))
  BY DEF instantiate_wasmi
<1>2. /\ Charges(q) /\ Len(q) = 10 /\ AllCheap(net, q)
      /\ Charges(imports) /\ Len(imports) = 3 /\ AllCheap(net, imports)
  BY ChargesOf
<1>3. k \in Nat /\ k + 10 \in Nat /\ (k + 10) + 3 = k + 13 /\ k + 13 \in 0..32
  OBVIOUS
<1> HIDE DEF q, imports
<1>4. RichHost(a, k + 10)
  BY <1>2, <1>3, RichHostCharge
<1> HIDE DEF a
<1>5. RichHost(b, k + 13)
  BY <1>2, <1>3, <1>4, RichHostCharge
<1> HIDE DEF b
<1>6. c = b
  BY <1>5, RichHostPasses DEF Checked
<1> HIDE DEF c
<1>7. d = b
  BY <1>5, <1>6, RichHostPasses DEF Checked
<1> HIDE DEF d
<1>8. 2 * (w.pages * PageSize) <= U64Max /\ (w.pages = 0 \/ w.pages <= w.max)
  BY DEF Fits, Checked
<1>9. InitialMemory(d, w).err = "Ok"
  BY <1>3, <1>5, <1>7, <1>8, RichMemory
<1>10. ensure_no_start(w) = "Ok"
  BY DEF Checked
<1>11. Fail(InitialMemory(d, w), "Ok").err = "Ok"
  <2> DEFINE r == memory_growing(net, d.bud, w.pages * PageSize, w.pages <= w.max)
             m == InitialMemory(d, w)
  <2>1. IsHost(d)
    BY <1>5, <1>7 DEF RichHost
  <2>2. m = d \/ m = Charged(d, r)
    BY DEF InitialMemory
  <2> HIDE DEF r, m
  <2>3. "err" \in DOMAIN m
    <3>1. "err" \in DOMAIN d
      BY <2>1 DEF IsHost
    <3>2. Charged(d, r) = [[d EXCEPT !.bud = r.b] EXCEPT !.err = r.err]
      BY DEF Charged
    <3>3. "err" \in DOMAIN Charged(d, r)
      BY <3>1, <3>2
    <3> QED BY <2>2, <3>1, <3>3
  <2> QED BY <1>9, <2>3 DEF Fail, m
<1> QED BY <1>1, <1>10, <1>11

(* and so is one that has to be parsed first.                              *)
LEMMA RichParse ==
    ASSUME InNetwork, NEW h, RichHost(h, 0), NEW w, IsWasm(w), Fits(net, w), Checked(w)
    PROVE  RichHost(parse(h, w, V1(w)), 13)
<1> DEFINE q == charge_for_parsing(V1(w))
           imports == bulk_init_cpy(Cardinality(w.imports))
           a == Charge(h, q)
           b == Fail(a, parse_wasm(net.proto, w))
<1>1. parse(h, w, V1(w)) = Charge(b, imports)
  BY DEF parse
<1>2. /\ Charges(q) /\ Len(q) = 10 /\ AllCheap(net, q)
      /\ Charges(imports) /\ Len(imports) = 3 /\ AllCheap(net, imports)
  BY ChargesOf
<1> HIDE DEF q, imports
<1>3. RichHost(a, 10)
  <2>1. RichHost(a, 0 + 10)
    BY <1>2, RichHostCharge
  <2> QED BY <2>1
<1> HIDE DEF a
<1>4. b = a
  BY <1>3, RichHostPasses DEF Checked
<1> HIDE DEF b
<1>5. RichHost(Charge(b, imports), 10 + 3)
  BY <1>2, <1>3, <1>4, RichHostCharge
<1> QED BY <1>1, <1>5

(* With all the budget a u64 counts, a checked Wasm is instantiated, from  *)
(* the cache or by parsing, in both modes.                                 *)
LEMMA CheckedInstantiates ==
    ASSUME InNetwork, NEW w, IsWasm(w), Fits(net, w), Checked(w), NEW hit \in BOOLEAN
    PROVE  instantiate_vm(Ample, [wasm |-> w, present |-> TRUE, refined |-> TRUE,
                                  live |-> hit, cached |-> hit]).err = "Ok"
<1> DEFINE h == Ample
           c == [wasm |-> w, present |-> TRUE, refined |-> TRUE, live |-> hit, cached |-> hit]
           ok == parse_wasm(net.proto, w)
           imports == bulk_init_cpy(Cardinality(w.imports))
           q == charge_for_parsing(V1(w)) \o imports
           quiet == with_observable_shadow_mode(net, h.bud, q)
           shadowed == Fail(Charged(h, quiet), ok)
<1>1. RichHost(h, 0)
  <2> DEFINE d == Dimension(U64Max, U64Max)
             b == try_from_configs(U64Max, U64Max, U64Max, U64Max)
  <2>1. U64Max \in Nat
    BY BudgetAssumption
  <2>2. d \in Dimensions /\ d.limit = U64Max /\ d.shadow_limit = U64Max /\ d.total = 0
    BY <2>1 DEF Dimension, Dimensions
  <2>3. b = [cpu |-> d, mem |-> d, shadow |-> FALSE, insns |-> 0]
    BY DEF try_from_configs
  <2> HIDE DEF d, b
  <2>4. IsBudget(b) /\ b.cpu = d /\ b.mem = d /\ ~b.shadow
    BY <2>2, <2>3 DEF IsBudget
  <2>5. 64 * b.mem.total <= 0 * U64Max
    BY <2>1, <2>2, <2>4
  <2>6. Rich(b, 0)
    BY <2>2, <2>4, <2>5 DEF Rich
  <2>7. h = [bud |-> b, objs |-> objs, stack |-> stack, auth |-> auth, err |-> "Ok", res |-> Small]
    BY DEF Ample, Host, b
  <2> HIDE DEF h
  <2>8. IsHost(h) /\ h.bud = b /\ h.err = "Ok"
    BY <2>7 DEF IsHost
  <2> QED BY <2>4, <2>6, <2>8 DEF RichHost
<1>2. ok = "Ok"
  BY DEF Checked
<1>3. /\ c.wasm = w /\ c.present /\ c.refined /\ c.live = hit /\ c.cached = hit
      /\ h.err = "Ok"
  BY <1>1 DEF RichHost
<1> HIDE DEF c, h
<1>4. instantiate_vm(h, c) =
        IF net.recording /\ hit
        THEN IF shadowed.err # "Ok" THEN shadowed ELSE instantiate_wasmi(shadowed, w, V1(w))
        ELSE IF ~net.recording /\ hit THEN instantiate_wasmi(h, w, V1(w))
        ELSE instantiate_wasmi(parse(h, w, V1(w)), w, V1(w))
  BY <1>2, <1>3 DEF instantiate_vm
<1>5. RichHost(shadowed, 13)
  <2>1. Charges(q) /\ Len(q) = 13 /\ AllCheap(net, q)
    BY ChargesOf
  <2>2. IsModel(net) /\ IsHost(h) /\ Rich(h.bud, 0) /\ ~h.bud.shadow
    BY <1>1, NetworkModel DEF RichHost
  <2> HIDE DEF q
  <2>3. quiet.err = "Ok" /\ Rich(quiet.b, 0 + Len(q)) /\ quiet.b.shadow = h.bud.shadow
    <3> DEFINE b == h.bud
               p == net
               k == 0
    <3>1. /\ quiet = with_observable_shadow_mode(p, b, q) /\ k \in Nat /\ Rich(b, k)
          /\ IsModel(p) /\ AllCheap(p, q)
      BY <2>1, <2>2
    <3> HIDE DEF quiet, b, p, k
    <3>2. quiet.err = "Ok" /\ Rich(quiet.b, k + Len(q)) /\ quiet.b.shadow = b.shadow
      <4>1. k \in Nat /\ Rich(b, k) /\ IsModel(p) /\ Charges(q) /\ AllCheap(p, q)
        BY <2>1, <3>1
      <4>2. quiet = with_observable_shadow_mode(p, b, q)
        BY <3>1
      <4>3. with_observable_shadow_mode(p, b, q).err = "Ok"
        BY <4>1, RichShadow
      <4>4. Rich(with_observable_shadow_mode(p, b, q).b, k + Len(q))
        BY <4>1, RichShadow
      <4>5. with_observable_shadow_mode(p, b, q).b.shadow = b.shadow
        BY <4>1, RichShadow
      <4> QED BY <4>2, <4>3, <4>4, <4>5
    <3> QED BY <3>2 DEF b, k
  <2>4. Rich(quiet.b, 13)
    <3>1. 0 + Len(q) = 13
      BY <2>1
    <3> HIDE DEF quiet
    <3> QED BY <2>3, <3>1
  <2> HIDE DEF quiet
  <2>5. RichHost(Charged(h, quiet), 13)
    BY <2>2, <2>3, <2>4, RichCharged
  <2> DEFINE g == Charged(h, quiet)
  <2> HIDE DEF g, ok
  <2>6. RichHost(g, 13)
    BY <2>5 DEF g
  <2>7. Fail(g, ok) = g
    BY <1>2, <2>6, RichHostPasses
  <2> QED BY <2>6, <2>7 DEF g
<1> HIDE DEF shadowed
<1>6. shadowed.err = "Ok" /\ instantiate_wasmi(shadowed, w, V1(w)).err = "Ok"
  BY <1>5, RichInstantiate DEF RichHost
<1>7. instantiate_wasmi(h, w, V1(w)).err = "Ok"
  BY <1>1, RichInstantiate
<1>8. instantiate_wasmi(parse(h, w, V1(w)), w, V1(w)).err = "Ok"
  <2> DEFINE g == parse(h, w, V1(w))
  <2>1. RichHost(g, 13)
    BY <1>1, RichParse
  <2> HIDE DEF g
  <2>2. instantiate_wasmi(g, w, V1(w)).err = "Ok"
    BY <2>1, RichInstantiate
  <2> QED BY <2>2 DEF g
<1>9. instantiate_vm(h, c).err = "Ok"
  BY <1>4, <1>6, <1>7, <1>8
<1> QED BY <1>9 DEF h, c

(* The checks of an upload (check_vm, with the cost inputs of a Wasm not   *)
(* parsed before) are not weaker than those of a call: what was uploaded   *)
(* can be instantiated, from the cache or by parsing, in both modes, with  *)
(* the budget for it.  WasmsFit says that there can be such a budget.      *)
THEOREM UploadsInstantiate ==
    ASSUME WasmsFit
    PROVE  Spec => []UploadedInstantiates
<1>1. Init => UploadedInv
  BY DEF Init, UploadedInv
<1>2. VmInv /\ UploadedInv /\ [Next]_vars => UploadedInv'
  BY UploadedStep
<1>3. VmInv /\ UploadedInv => UploadedInstantiates
  <2> SUFFICES ASSUME VmInv, UploadedInv, NEW w \in uploaded, NEW hit \in BOOLEAN
               PROVE  instantiate_vm(Ample, [wasm |-> w, present |-> TRUE, refined |-> TRUE,
                                             live |-> hit, cached |-> hit]).err = "Ok"
    BY DEF UploadedInstantiates
  <2>1. InNetwork /\ w \in net.wasms /\ Checked(w)
    BY DEF VmInv, UploadedInv
  <2>2. IsWasm(w) /\ Fits(net, w)
    BY <2>1, NetworkModel DEF WasmsFit, InNetwork, net
  <2> QED BY <2>1, <2>2, CheckedInstantiates
<1> QED BY <1>1, <1>2, <1>3, VmInvariant, PTL DEF Spec
=============================================================================
