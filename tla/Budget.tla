------------------------------- MODULE Budget -------------------------------
(***************************************************************************)
(* The budget of the host (budget.rs, budget/dimension.rs, budget/model.rs)*)
(* as operators on a budget record                                         *)
(*    [cpu, mem : [limit, total, shadow_limit, shadow_total],              *)
(*     shadow : is_in_shadow_mode,                                         *)
(*     insns : the iterations tracked for WasmInsnExec in this step].      *)
(* A charge <<ty, iterations, input>> has input NoInput for Option::None.  *)
(* An operation returns [b |-> budget after, err |-> outcome]; a total     *)
(* that went over its limit stays over it.                                 *)
(***************************************************************************)
EXTENDS CostTable, Sequences

CONSTANTS U64Max \* the bound at which the u64 counters saturate

NoInput == -1
LinScale == 128  \* 2^COST_MODEL_LIN_TERM_SCALE_BITS

ASSUME BudgetAssumption == U64Max \in Nat \ {0}

Sat(n) == IF n > U64Max THEN U64Max ELSE n

(* Mutant: the constant term is lost without an input.                     *)
evaluate_linear_only(model, iterations, input) ==
    IF input = NoInput THEN 0
    ELSE Sat(Sat(model[1] * iterations) + Sat(Sat(model[2] * input) * iterations) \div LinScale)

(* MeteredCostComponent::evaluate of the model <<const, linear>>.          *)
evaluate(model, iterations, input) ==
    LET const == Sat(model[1] * iterations)
    IN  IF input = NoInput THEN const
        ELSE Sat(const + Sat(Sat(model[2] * input) * iterations) \div LinScale)

Dimension(limit, shadow) ==
    [limit |-> limit, total |-> 0, shadow_limit |-> shadow, shadow_total |-> 0]

(* try_from_configs_with_shadow_limits.                                    *)
try_from_configs(cpu, mem, cpu_shadow, mem_shadow) ==
    [cpu |-> Dimension(cpu, cpu_shadow), mem |-> Dimension(mem, mem_shadow),
     shadow |-> FALSE, insns |-> 0]

get_remaining(d) == IF d.total > d.limit THEN 0 ELSE d.limit - d.total

OverLimit(d, shadow) == IF shadow THEN d.shadow_total > d.shadow_limit ELSE d.total > d.limit

Add(d, amount, shadow) ==
    IF shadow THEN [d EXCEPT !.shadow_total = Sat(@ + amount)]
    ELSE [d EXCEPT !.total = Sat(@ + amount)]

(* BudgetImpl::charge, with the cost models p.cpu and p.mem: the CPU is    *)
(* charged and checked before the memory.                                  *)
charge(p, b, ty, iterations, input) ==
    LET tracked == IF b.shadow \/ ty # "WasmInsnExec" THEN b
                   ELSE [b EXCEPT !.insns = @ + iterations]
        cpu == Add(b.cpu, evaluate(p.cpu[ty], iterations, input), b.shadow)
        mem == Add(b.mem, evaluate(p.mem[ty], iterations, input), b.shadow)
    IN  IF ~b.shadow /\ (input = NoInput) = TakesInput(ty)
          THEN [b |-> tracked, err |-> "InternalError"]
        ELSE IF OverLimit(cpu, b.shadow)
          THEN [b |-> [tracked EXCEPT !.cpu = cpu], err |-> "ExceededLimit"]
        ELSE [b |-> [tracked EXCEPT !.cpu = cpu, !.mem = mem],
              err |-> IF OverLimit(mem, b.shadow) THEN "ExceededLimit" ELSE "Ok"]

(* A sequence of charges joined by `?`.                                    *)
charge_all(p, b, charges) ==
    LET Then(r, c) == IF r.err # "Ok" THEN r ELSE charge(p, r.b, c[1], c[2], c[3])
        after[i \in 0..Len(charges)] ==
            IF i = 0 THEN [b |-> b, err |-> "Ok"] ELSE Then(after[i - 1], charges[i])
    IN  after[Len(charges)]

(* with_observable_shadow_mode: nothing runs once a shadow limit is        *)
(* exceeded, and the mode before it comes back whatever happened.          *)
with_observable_shadow_mode(p, b, charges) ==
    LET in == [b EXCEPT !.shadow = TRUE]
        r == IF OverLimit(b.cpu, TRUE) \/ OverLimit(b.mem, TRUE)
             THEN [b |-> in, err |-> "ExceededLimit"]
             ELSE charge_all(p, in, charges)
    IN  [b |-> [r.b EXCEPT !.shadow = b.shadow], err |-> r.err]

(* with_shadow_mode: the same, with the error dropped.                     *)
with_shadow_mode(p, b, charges) ==
    [with_observable_shadow_mode(p, b, charges) EXCEPT !.err = "Ok"]

(* Mutant: it is rounded up.                                               *)
get_wasmi_fuel_rounded_up(p, b) ==
    LET cpu_per_fuel == IF p.cpu["WasmInsnExec"][1] < 1 THEN 1 ELSE p.cpu["WasmInsnExec"][1]
    IN  (get_remaining(b.cpu) + cpu_per_fuel - 1) \div cpu_per_fuel

(* get_wasmi_fuel_remaining: what is left over by the division is withheld.*)
get_wasmi_fuel_remaining(p, b) ==
    LET cpu_per_fuel == IF p.cpu["WasmInsnExec"][1] < 1 THEN 1 ELSE p.cpu["WasmInsnExec"][1]
    IN  get_remaining(b.cpu) \div cpu_per_fuel

(* Host::memory_growing: the new bytes have to fit the memory left, and    *)
(* are charged to both dimensions; fits: the module's maximum allows it.   *)
memory_growing(p, b, delta, fits) ==
    IF delta > get_remaining(b.mem) \/ ~fits
    THEN [b |-> b, err |-> "ExceededLimit"]
    ELSE LET r == charge(p, b, "MemAlloc", 1, delta)
         IN  [r EXCEPT !.err = IF @ = "Ok" THEN "Ok" ELSE "ExceededLimit"]
=============================================================================
