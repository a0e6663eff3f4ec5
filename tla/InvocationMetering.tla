-------------------------- MODULE InvocationMetering -------------------------
(***************************************************************************)
(* The invocation meter of a test host (invocation_metering.rs): a scope   *)
(* around an entry point of the host that snapshots the storage, resets    *)
(* the footprint and, when it ends, measures the resources from the        *)
(* footprint and the two storages.  Nested scopes are not opened: the      *)
(* outermost one holds the meter.                                          *)
(***************************************************************************)
EXTENDS Simulation

Nothing == [k \in Keys |-> "NotListed"]

(* The scope: [prev |-> storage before, s |-> storage to run in].          *)
start_invocation(storage) == [prev |-> storage, s |-> [storage EXCEPT !.footprint = Nothing]]

u32_sub(a, b) == (a - b) % (U32Max + 1)

(* The ledger-bytes of an entry live until `live`, init_live before; the   *)
(* subtractions are unchecked.                                             *)
(* Mutant: growth is not charged for the ledgers already paid for.         *)
rent_of_extension(old, new, init_live, live, seq) == u32_sub(live, init_live) * new

rent_ledger_bytes(old, new, init_live, live, seq) ==
    u32_sub(init_live, seq) * AtLeast(new - old, 0) + u32_sub(live, init_live) * new

(* try_measure_resources for one key of the footprint.                     *)
MeterKey(k, prev, cur, access, seq) ==
    LET init == IF prev.map[k] = Unloaded THEN None ELSE prev.map[k]
        ended == Ended(init, seq)
        disk == Classic(k) \/ (ended /\ Durability[k] = "Persistent")
        init_live == IF Present(init) /\ ~Classic(k) /\ ~ended THEN init.live ELSE seq
        old == IF Present(init) THEN entry_size_for_rent(k, init.val) ELSE 0
        new == IF Present(cur) THEN entry_size_for_rent(k, cur.val) ELSE 0
        rent == IF ~Present(cur) \/ Classic(k) THEN 0
                ELSE rent_ledger_bytes(old, new, init_live, cur.live, seq)
    IN  [rent_ledger_bytes |-> rent, rent_bumps |-> IF rent > 0 THEN 1 ELSE 0,
         disk_read_bytes |-> IF disk /\ Present(init) THEN xdr_size(init.val) ELSE 0,
         write_bytes |-> IF access = "ReadWrite" /\ Present(cur) THEN xdr_size(cur.val) ELSE 0]

(* finish_invocation, after the program r has run in the scope.            *)
finish_invocation(scope, r, snap, seq) ==
    [k \in Host(seq, TRUE)!Listed(r.s.footprint) |->
        MeterKey(k, scope.prev, Host(seq, TRUE)!try_get_full(r.s, k, snap).out,
                 r.s.footprint[k], seq)]

MeterTotal(res, d, value(_)) ==
    FoldSet(LAMBDA k, n : n + value(res[k]), 0,
            {k \in DOMAIN res : Durability[k] = d})

(* The rent in estimate_fees: of the entries of one durability, and of     *)
(* both.                                                                   *)
entry_rent(res, d, denominator, cfg) ==
    LET bumps == MeterTotal(res, d, LAMBDA r : r.rent_bumps)
    IN  SumFees(<<
            compute_fee_per_increment(MeterTotal(res, d, LAMBDA r : r.rent_ledger_bytes),
                                      cfg.rent.per_rent_1kb,
                                      saturating_mul(Kb, denominator, I64Max)),
            saturating_mul(cfg.fee.per_write_entry, bumps, I64Max),
            compute_fee_per_increment(saturating_mul(TtlEntrySize, bumps, I64Max),
                                      cfg.fee.per_write_1kb, Kb)>>)

estimate_rent(res, cfg) ==
    SumFees(<<entry_rent(res, "Persistent", cfg.rent.persistent_denominator, cfg),
              entry_rent(res, "Temporary", cfg.rent.temporary_denominator, cfg)>>)
=============================================================================
