-------------------------------- MODULE Fees --------------------------------
(***************************************************************************)
(* Resource and rent fees (fees.rs), shared by the embedder and the        *)
(* simulation.  The 64-bit and 128-bit arithmetic saturates at I64Max and  *)
(* I128Max, the 32-bit one at U32Max; the increments a fee is charged by   *)
(* are parameters, so that rounding happens with small numbers.            *)
(***************************************************************************)
EXTENDS Integers, SequencesExt

CONSTANTS
    U32Max, I64Max, I128Max,
    InsnIncrement,    \* INSTRUCTIONS_INCREMENT
    Kb,               \* DATA_SIZE_1KB_INCREMENT
    TtlEntrySize,     \* TTL_ENTRY_SIZE
    TxResultSize,     \* TX_BASE_RESULT_SIZE
    MinRentFee,       \* MINIMUM_RENT_WRITE_FEE_PER_1KB
    CodeDiscount      \* CODE_ENTRY_RENT_DISCOUNT_FACTOR

ASSUME FeesAssumption ==
    /\ U32Max \in Nat /\ I64Max \in Nat /\ I128Max \in Nat
    /\ {InsnIncrement, Kb, MinRentFee, CodeDiscount} \subseteq Nat \ {0}
    /\ {TtlEntrySize, TxResultSize} \subseteq Nat

AtLeast(a, b) == IF a >= b THEN a ELSE b
AtMost(a, b) == IF a <= b THEN a ELSE b

saturating_add(a, b, top) == AtMost(a + b, top)
saturating_mul(a, b, top) == IF a > 0 /\ b > top \div a THEN top ELSE a * b
div_ceil(n, d) == (n + d - 1) \div d

(* The order matters to no sum.                                            *)
SaturatingSum(f, top) == FoldFunction(LAMBDA a, b : saturating_add(a, b, top), 0, f)
SumFees(fees) == SaturatingSum(fees, I64Max)

compute_fee_per_increment(value, rate, increment) ==
    div_ceil(saturating_mul(value, rate, I64Max), AtLeast(increment, 1))

-----------------------------------------------------------------------------
(* The fee of a transaction's declared resources, as the non-refundable    *)
(* part and the refundable one.                                            *)

compute_transaction_resource_fee(tx, cfg) ==
    [non_refundable |-> SumFees(<<
        compute_fee_per_increment(tx.instructions, cfg.per_instruction, InsnIncrement),
        saturating_mul(cfg.per_disk_read_entry, tx.disk_read_entries, I64Max),
        saturating_mul(cfg.per_write_entry, tx.write_entries, I64Max),
        compute_fee_per_increment(tx.disk_read_bytes, cfg.per_disk_read_1kb, Kb),
        compute_fee_per_increment(tx.write_bytes, cfg.per_write_1kb, Kb),
        compute_fee_per_increment(saturating_add(tx.size, TxResultSize, U32Max),
                                  cfg.per_historical_1kb, Kb),
        compute_fee_per_increment(tx.size, cfg.per_tx_size_1kb, Kb)>>),
     refundable |-> compute_fee_per_increment(tx.events_size, cfg.per_event_1kb, Kb)]

-----------------------------------------------------------------------------
(* The rent rate, from the size of the ledger state.                       *)

clamp_fee(n) == IF n < 0 THEN I64Max ELSE AtMost(n, I64Max)

compute_rent_write_fee_per_1kb(state_size, cfg) ==
    LET multiplier == clamp_fee(cfg.high - cfg.low)
        target == AtLeast(cfg.target, 1)
        below == clamp_fee(div_ceil(saturating_mul(multiplier, state_size, I128Max), target))
        past == saturating_mul(saturating_mul(multiplier, state_size - cfg.target, I128Max),
                               cfg.growth, I128Max)
    IN  AtLeast(MinRentFee,
                IF state_size < cfg.target
                THEN saturating_add(below, cfg.low, I64Max)
                ELSE saturating_add(cfg.high, clamp_fee(div_ceil(past, target)), I64Max))

-----------------------------------------------------------------------------
(* Rent of a change [persistent, code, old_size, new_size, old_live,       *)
(* new_live].  None (of an Option<u32>) is -1 here: no such ledgers.       *)

NoLedgers == -1

exclusive_ledger_diff(lo, hi) == IF hi >= lo THEN hi - lo ELSE NoLedgers

inclusive_ledger_diff(lo, hi) ==
    IF hi >= lo THEN saturating_add(hi - lo, 1, U32Max) ELSE NoLedgers

entry_is_new(e) == e.old_size = 0 /\ e.old_live = 0

extension_ledgers(e, seq) ==
    exclusive_ledger_diff(IF entry_is_new(e) THEN AtLeast(seq - 1, 0) ELSE e.old_live,
                          e.new_live)

(* Mutant: the current ledger is not counted as paid for.                  *)
prepaid_from_next(e, seq) ==
    IF entry_is_new(e) THEN NoLedgers ELSE exclusive_ledger_diff(seq, e.old_live)

prepaid_ledgers(e, seq) ==
    IF entry_is_new(e) THEN NoLedgers ELSE inclusive_ledger_diff(seq, e.old_live)

size_increase(e) == exclusive_ledger_diff(e.old_size, e.new_size)

rent_fee_for_size_and_ledgers(persistent, size, ledgers, cfg) ==
    LET num == saturating_mul(saturating_mul(size, cfg.per_rent_1kb, I64Max), ledgers, I64Max)
        coef == IF persistent THEN cfg.persistent_denominator ELSE cfg.temporary_denominator
    IN  div_ceil(num, AtLeast(saturating_mul(Kb, coef, I64Max), 1))

rent_fee_per_entry_change(e, cfg, seq) ==
    LET longer == extension_ledgers(e, seq)
        prepaid == prepaid_ledgers(e, seq)
        larger == size_increase(e)
        fee == saturating_add(
            IF longer = NoLedgers THEN 0
            ELSE rent_fee_for_size_and_ledgers(e.persistent, e.new_size, longer, cfg),
            IF prepaid = NoLedgers \/ larger = NoLedgers THEN 0
            ELSE rent_fee_for_size_and_ledgers(e.persistent, larger, prepaid, cfg), I64Max)
    IN  IF e.code THEN fee \div CodeDiscount ELSE fee

(* The rent of the changes, one for each key, and the writes of the TTL    *)
(* entries that an extension changes.                                      *)
compute_rent_fee(changes, cfg, seq) ==
    LET extended == {k \in DOMAIN changes : changes[k].old_live < changes[k].new_live}
        ttl_bytes == SaturatingSum([k \in extended |-> TtlEntrySize], U32Max)
        rent == SumFees([k \in DOMAIN changes |-> rent_fee_per_entry_change(changes[k], cfg, seq)])
        writes == saturating_mul(cfg.per_write_entry, Cardinality(extended), I64Max)
    IN  saturating_add(saturating_add(rent, writes, I64Max),
                       compute_fee_per_increment(ttl_bytes, cfg.per_write_1kb, Kb), I64Max)
=============================================================================
