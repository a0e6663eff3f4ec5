----------------------------- MODULE RentLedger -----------------------------
(***************************************************************************)
(* A ledger over several ledger closes, with transactions that are         *)
(* simulated, declared from the simulation, and executed: the rent each    *)
(* entry has paid against the space it takes, the simulated fee against    *)
(* the one execution charges, and the meter of a test host against both.   *)
(*                                                                         *)
(* The execution is the embedder's (Core): it loads and restores what the  *)
(* footprint lists, runs the program in an enforcing host, charges for the *)
(* changes the host reports and applies them.  The extend and restore      *)
(* operations are executed by Core alone.                                  *)
(***************************************************************************)
EXTENDS InvocationMetering

CONSTANTS
    StartLedgers,   \* the ledgers to start from: Keys -> None or an entry
    Touched,        \* the keys in play, from each
    Programs, Extensions, AllSettings, LastLedger, MaxTxs

VARIABLES
    seq,       \* the current ledger
    touched,   \* keys of this behaviour
    ledger,    \* Keys -> None or [val, live]
    settings,  \* the network settings in the ledger
    state_size,\* the size of the ledger state at the last close
    plan,      \* simulated transactions still to be executed
    fresh,     \* nothing but the plan has changed the ledger since
    counted,   \* the simulation counted every entry it declared (history)
    txs,       \* simulations so far
    result,    \* "none" | "applied" | "refused": the last execution
    credit     \* rent paid and not used up yet, per key (history)

(* The longest an entry can be made to live, in ledgers from the current   *)
(* one on.                                                                 *)
LongestLife == AtLeast(AtLeast(MinTempTtl, MinPersistentTtl), AtLeast(MaxTtl, 1))

FirstLedger == 3

Contents == [bytes : Nat, module : Nat, ext : Nat]

LedgerCell(k) ==
    {None} \union [val : Values, live : IF Classic(k) THEN {-1} ELSE 0..(FirstLedger + LongestLife - 1)]

Call(c) ==
    /\ c.op \in {"get", "put", "del", "extend", "upload", "credit"} /\ c.k \in Keys
    /\ c.op \in {"put", "upload", "credit"} => c.arg \in Values
    /\ c.op = "extend" => c.arg \in Nat
    /\ c.op = "credit" => Classic(c.k)
    /\ c.op \in {"put", "del", "extend", "upload"} => ~Classic(c.k)

(* A sub-call begins before it ends, and within the sub-call it is made    *)
(* from.                                                                   *)
Program(p) ==
    /\ Len(p) \in Nat
    /\ \A i \in 1..Len(p) :
          \/ Call(p[i])
          \/ p[i].op = "fail"
          \/ /\ p[i].op = "end_try" /\ p[i].arg \in 0..(i - 1)
             /\ \A j \in 1..(i - 1) : p[j].op = "end_try" =>
                   p[i].arg >= j \/ p[i].arg <= p[j].arg

(* The numbers are the ones of the code: sizes and TTLs are u32, fees i64, *)
(* and the least rent of the largest entry for the longest life is far     *)
(* below the largest fee.  The denominators of a network that charges rent *)
(* are positive and no fee is negative; an adjustment never reduces, and   *)
(* an extension asks for no more than the network allows.                  *)
ASSUME RentAssumption ==
    /\ IsFiniteSet(Keys)
    /\ Durability \in [Keys -> {"Temporary", "Persistent", "Classic"}]
    /\ {MinTempTtl, MinPersistentTtl, MaxTtl} \subseteq 0..U32Max
    /\ 1 <= U32Max /\ U32Max <= I64Max
    /\ LastLedger \in Nat /\ FirstLedger <= LastLedger /\ LastLedger + LongestLife <= U32Max
    /\ Values \subseteq Contents
    /\ None \notin Values /\ None \notin Contents /\ None # Unloaded
    /\ None \notin [val : Contents, live : Int] /\ Unloaded \notin [val : Contents, live : Int]
    /\ {EnvelopeSize, ReturnSize} \subseteq Nat
    /\ \A f \in {"instructions", "read_bytes", "write_bytes", "tx_size", "refundable_fee"} :
          Adjust[f].mul \in Nat /\ Adjust[f].div \in Nat \ {0} /\ Adjust[f].add \in Nat
    /\ \A k \in Keys, v \in Values : MinRentFee * entry_size_for_rent(k, v) * LongestLife <= I64Max
    /\ \A l \in StartLedgers : Touched[l] \subseteq Keys /\ \A k \in Keys : l[k] \in LedgerCell(k)
    /\ \A p \in Programs : Program(p)
    /\ \A x \in Extensions : x \in Nat /\ x < MaxTtl
    /\ \A s \in AllSettings : (\A f \in DOMAIN s : s[f] # None) =>
          /\ {s.state_archival.persistent_denominator, s.state_archival.temporary_denominator}
                \subseteq Nat \ {0}
          /\ s.ledger_cost.rent \in [target : Nat, low : Int, high : Int, growth : Nat]
          /\ {s.compute.per_instruction, s.ledger_cost.per_disk_read_entry,
              s.ledger_cost.per_write_entry, s.ledger_cost.per_disk_read_1kb,
              s.ledger_cost_ext.per_write_1kb, s.historical.per_historical_1kb,
              s.events.per_event_1kb, s.bandwidth.per_tx_size_1kb} \subseteq Nat
          /\ \A size \in 0..U32Max : load_from_snapshot(s, size) # None

vars == <<seq, touched, ledger, settings, state_size, plan, fresh, counted, txs, result, credit>>

network == load_from_snapshot(settings, state_size)

Live(k) == Present(ledger[k]) /\ ~Ended(ledger[k], seq)

Soroban == {k \in Keys : ~Classic(k)}

denominator(k) == IF Durability[k] = "Persistent"
                  THEN settings.state_archival.persistent_denominator
                  ELSE settings.state_archival.temporary_denominator

(* The least rent for one ledger, scaled by Kb * denominator.              *)
LedgerRent(k) == MinRentFee * entry_size_for_rent(k, ledger[k].val)

(* What an entry has to have paid: the current ledger and those to come.   *)
Prepaid(k) == LedgerRent(k) * (ledger[k].live - seq + 1)

StateSize(l) == SumBytes([k \in {j \in Soroban : Present(l[j])} |-> xdr_size(l[k].val)])

Init ==
    /\ ledger \in StartLedgers
    /\ touched = Touched[ledger]
    /\ settings \in AllSettings
    /\ seq = FirstLedger
    /\ state_size = StateSize(ledger)
    /\ plan = <<>> /\ fresh = FALSE /\ counted = TRUE /\ txs = 0
    /\ result = "none"
    /\ credit = [k \in Keys |-> IF Classic(k) \/ ~Live(k) \/ network = None THEN 0 ELSE Prepaid(k)]

-----------------------------------------------------------------------------
(* Simulations.                                                            *)

(* Simulation needs the configuration, and returns something to declare.   *)
CanSimulate == network # None /\ plan = <<>> /\ txs < MaxTxs

Simulated(p, all) ==
    /\ p # <<>> /\ None \notin {p[i] : i \in DOMAIN p}
    /\ plan' = p /\ fresh' = TRUE /\ counted' = all /\ txs' = txs + 1 /\ result' = "none"
    /\ UNCHANGED <<seq, touched, ledger, settings, state_size, credit>>

OnTouched(prog) ==
    \A i \in DOMAIN prog : prog[i].op \in {"fail", "end_try"} \/ prog[i].k \in touched

(* No entry of the ledger is in the read-write footprint of the recording  *)
(* and, because only sub-calls that failed have touched it, not in its     *)
(* map: the ledger changes list such an entry without its new contents.    *)
CountsAll(prog, snap) ==
    LET s == RecordingRun(prog, snap, seq).s
    IN  \A k \in Keys : s.footprint[k] = "ReadWrite" /\ s.map[k] = Unloaded =>
            \/ ~Present(snap[k])
            \/ Durability[k] = "Temporary" /\ Ended(snap[k], seq)

SimulateInvoke(prog) ==
    /\ CanSimulate /\ OnTouched(prog)
    /\ Simulated(<<simulate_invoke_host_function_op(prog, ledger, seq, network)>>,
                 CountsAll(prog, SimulationSnapshot(ledger)))

SimulateWithAutoRestore(prog) ==
    /\ CanSimulate /\ OnTouched(prog)
    /\ \E k \in touched : ~Classic(k) /\ Ended(ledger[k], seq)
    /\ Simulated(simulate_with_auto_restore(prog, ledger, seq, network),
                 CountsAll(prog, SimulationSnapshot(AutoRestoringSnapshot(ledger, seq))))

SimulateExtend(ks, ext) ==
    /\ CanSimulate
    /\ Simulated(<<simulate_extend_ttl_op(ks, ext, SimulationSnapshot(ledger), seq, network)>>, TRUE)

SimulateRestore(ks) ==
    /\ CanSimulate
    /\ Simulated(<<simulate_restore_op(ks, SimulationSnapshot(ledger), seq, network)>>, TRUE)

-----------------------------------------------------------------------------
(* Executions by the embedder.                                             *)

(* The ledger after the rent changes and, for written keys, the values.    *)
(* rent, written : functions on sets of keys.                              *)
Applied(l, rent, written) ==
    [k \in Keys |->
        IF k \in DOMAIN written THEN
            IF written[k] = None THEN None
            ELSE [val |-> written[k], live |-> IF Classic(k) THEN -1
                     ELSE IF k \in DOMAIN rent THEN rent[k].new_live ELSE l[k].live]
        ELSE IF k \in DOMAIN rent THEN [l[k] EXCEPT !.live = rent[k].new_live]
        ELSE l[k]]

(* A code entry is charged a fraction of the rent, rounded down: counted   *)
(* here at what the rounding can hide.                                     *)
PaidFor(k, fee) ==
    Kb * denominator(k) * (IF k \in CodeKeys THEN CodeDiscount * fee + CodeDiscount - 1 ELSE fee)

Credited(rent, after) ==
    [k \in Keys |->
        IF after[k] = None \/ Classic(k) THEN 0
        ELSE (IF k \in DOMAIN rent /\ entry_is_new(rent[k]) THEN 0 ELSE credit[k])
             + (IF k \in DOMAIN rent THEN PaidFor(k, rent_fee_per_entry_change(rent[k], network.rent, seq))
                ELSE 0)]

Charge(tx, rent) ==
    LET fee == compute_transaction_resource_fee(tx.resources, network.fee)
    IN  saturating_add(saturating_add(fee.non_refundable, fee.refundable, I64Max),
                       compute_rent_fee(rent, network.rent, seq), I64Max)

(* The transaction is applied unless something failed or what it declared  *)
(* does not cover what it used.                                            *)
Settle(tx, works, rent, written) ==
    LET ok == works /\ Charge(tx, rent) <= tx.fee
        after == Applied(ledger, rent, written)
    IN
    /\ ledger' = IF ok THEN after ELSE ledger
    /\ credit' = IF ok THEN Credited(rent, after) ELSE credit
    /\ result' = IF ok THEN "applied" ELSE "refused"
    /\ plan' = Tail(plan)
    /\ fresh' = fresh
    /\ UNCHANGED <<seq, touched, settings, state_size, counted, txs>>

(* Core extends the account entries it loads.                              *)
CoreLoads ==
    [k \in Keys |-> IF Classic(k) /\ Present(ledger[k])
                    THEN [ledger[k] EXCEPT !.val.ext = AccountExtensions] ELSE ledger[k]]

(* A key declared twice is left read-only.                                 *)
build_storage_footprint_from_xdr(footprint) ==
    [k \in Keys |-> IF k \in footprint.read_only THEN "ReadOnly"
                    ELSE IF k \in footprint.read_write THEN "ReadWrite" ELSE "NotListed"]

ExecuteInvoke ==
    /\ plan # <<>> /\ Head(plan).kind = "invoke"
    /\ LET tx == Head(plan)
           keys == DeclaredKeys(tx.footprint)
           archived == {k \in keys : Host(seq, FALSE)!IsArchived(k, ledger[k])}
           fp == build_storage_footprint_from_xdr(tx.footprint)
           supplied == Host(seq, FALSE)!Supplied(fp, CoreLoads, TRUE)
           start == Host(seq, FALSE)!with_enforcing_footprint_and_map(fp, supplied)
           r == Exec(start, tx.prog, CoreLoads, seq, FALSE)
           changes == Host(seq, FALSE)!get_ledger_changes(r.s, supplied, archived)
           rent == extract_rent_changes(changes, supplied)
           written == [k \in {j \in DOMAIN changes : ~changes[j].read_only} |-> changes[k].new_value]
       IN  Settle(tx,
                  /\ archived \subseteq tx.restored
                  /\ r.err = "Ok"
                  /\ DiskReadBytes(keys, archived, CoreLoads) <= tx.resources.disk_read_bytes
                  /\ WriteBytes(changes) <= tx.resources.write_bytes,
                  rent, written)

SameSize(k) == entry_size_for_rent(k, ledger[k].val)

ExecuteExtend ==
    /\ plan # <<>> /\ Head(plan).kind = "extend"
    /\ LET tx == Head(plan)
           new == seq + tx.extend_to
           ks == {k \in DeclaredKeys(tx.footprint) : Live(k) /\ ledger[k].live < new}
       IN  Settle(tx, new <= seq + MaxTtl - 1,
                  [k \in ks |-> [persistent |-> Durability[k] = "Persistent", code |-> k \in CodeKeys,
                                 old_size |-> SameSize(k), new_size |-> SameSize(k),
                                 old_live |-> ledger[k].live, new_live |-> new]],
                  [k \in {} |-> None])

ExecuteRestore ==
    /\ plan # <<>> /\ Head(plan).kind = "restore"
    /\ LET tx == Head(plan)
           ks == {k \in DeclaredKeys(tx.footprint) : Present(ledger[k]) /\ ~Live(k)}
           bytes == SumBytes([k \in ks |-> xdr_size(ledger[k].val)])
       IN  Settle(tx, bytes <= tx.resources.disk_read_bytes /\ bytes <= tx.resources.write_bytes,
                  [k \in ks |-> [persistent |-> TRUE, code |-> k \in CodeKeys,
                                 old_size |-> 0, new_size |-> SameSize(k), old_live |-> 0,
                                 new_live |-> Host(seq, FALSE)!min_live_until_ledger("Persistent")]],
                  [k \in {} |-> None])

(* The ledger closes: one ledger of rent is used up, entries whose time    *)
(* has come expire, and the rent rate follows the state size.              *)
CloseLedger ==
    /\ seq < LastLedger
    /\ network # None
    /\ seq' = seq + 1
    /\ state_size' = StateSize(ledger)
    /\ credit' = [k \in Keys |-> IF Classic(k) \/ ~Live(k) \/ ledger[k].live = seq THEN 0
                                 ELSE credit[k] - LedgerRent(k)]
    /\ fresh' = FALSE
    /\ UNCHANGED <<touched, ledger, settings, plan, counted, txs, result>>

Next ==
    \/ \E p \in Programs : SimulateInvoke(p) \/ SimulateWithAutoRestore(p)
    \/ \E ks \in SUBSET touched \ {{}} : SimulateRestore(ks) \/ \E x \in Extensions : SimulateExtend(ks, x)
    \/ ExecuteInvoke \/ ExecuteExtend \/ ExecuteRestore
    \/ CloseLedger

Spec == Init /\ [][Next]_vars

-----------------------------------------------------------------------------
(* Properties.                                                             *)

(* Rent is paid in advance (fees.rs, rent_fee_per_entry_change): at any    *)
(* time the rent an entry has paid covers, at its present size and at      *)
(* least at the minimum rate, the current ledger and every ledger it will  *)
(* still live - whatever sequence of growing, shrinking, extending,        *)
(* deleting, re-creating, expiring and restoring has led there, and        *)
(* however the extensions were split over transactions.                    *)
RentCovered ==
    \A k \in Soroban : Live(k) /\ network # None => credit[k] >= Prepaid(k)

(* A transaction declared from its simulation and executed in the same     *)
(* ledger, before anything else, is applied: its footprint, its read and   *)
(* write bytes and its fee are enough (simulation.rs) - if the recording   *)
(* counted every entry it declared read-write, also those that only        *)
(* failing sub-calls touched.  That includes an invocation simulated over  *)
(* the auto-restoring snapshot, after the restore operation simulated with *)
(* it, and programs with sub-calls that fail.                              *)
SimulationSuffices == fresh /\ counted => result # "refused"

(* What add_footprint_only_ledger_changes says it is for (e2e_invoke.rs):  *)
(* entries that only failed sub-calls accessed are accounted for, as the   *)
(* simulation determines the fees from the changes.  So a simulation is    *)
(* enough for its transaction whatever sub-calls failed.                   *)
FailedCallsAreCounted == fresh => result # "refused"

Metered(prog) ==
    LET map == [footprint |-> Nothing, map |-> ledger, mode |-> "Recording"]
        scope == start_invocation(map)
        r == Exec(scope.s, prog, ledger, seq, TRUE)
    IN  [res |-> finish_invocation(scope, r, ledger, seq), r |-> r]

(* The rent estimate of the invocation meter (invocation_metering.rs)      *)
(* falls short of the fee for the same changes (fees.rs) by no more than   *)
(* one ledger of rent per entry - the meter does not count the current     *)
(* ledger - and the rounding.  Left out are the programs that leave a live *)
(* entry with a shorter life in the map than in the ledger, by deleting    *)
(* and creating it again or by uploading its code again: the meter         *)
(* subtracts the old live-until ledger from the smaller one, which wraps.  *)
MeteredRentIsClose ==
    network # None /\ plan = <<>> =>
        \A prog \in Programs :
            LET m == Metered(prog)
                changes == Host(seq, TRUE)!get_ledger_changes(m.r.s, ledger,
                               Host(seq, TRUE)!RestoredKeys(m.r.s.footprint, ledger))
                rent == extract_rent_changes(changes, ledger)
                one == [k \in DOMAIN rent |-> [rent_ledger_bytes |-> rent[k].new_size, rent_bumps |-> 1]]
            IN  (/\ OnTouched(prog) /\ m.r.err = "Ok"
                 /\ \A k \in DOMAIN rent : Live(k) => m.r.s.map[k].live >= ledger[k].live)
                => compute_rent_fee(rent, network.rent, seq)
                     <= estimate_rent(m.res, network) + estimate_rent(one, network)
                          + 2 * Cardinality(DOMAIN rent)
=============================================================================
