----------------------------- MODULE Simulation -----------------------------
(***************************************************************************)
(* The simulation crate (soroban-simulation): what a transaction needs to  *)
(* declare and what it will cost, worked out from a snapshot of the        *)
(* ledger.  A simulation returns the transaction data                      *)
(*    [kind, prog, extend_to, footprint, restored, resources, fee]         *)
(* or None when it has nothing to declare.                                 *)
(*                                                                         *)
(* A guest program is a sequence of instructions [op, k, arg]: storage     *)
(* calls, an error the guest raises ("fail"), and the end of a sub-call    *)
(* made with try_call ("end_try", which began after the first arg          *)
(* instructions).  The contents of an entry are its size in bytes, the     *)
(* memory its Wasm module takes (code entries) and the extensions an       *)
(* account entry has; the sizes are of the XDR encoding.                   *)
(***************************************************************************)
EXTENDS Fees, FiniteSetsExt

CONSTANTS
    Keys, Durability, MinTempTtl, MinPersistentTtl, MaxTtl,
    CodeKeys, Values, Unloaded, None,
    Adjust,         \* SimulationAdjustmentConfig: [mul, div, add] per field
    EnvelopeSize,   \* the largest envelope, without the footprint
    ReturnSize      \* size of the events and the return value of a program

(* The storage of a host at a ledger, built with or without the recording  *)
(* feature, and the ledger changes of a transaction.                       *)
Host(Seq0, RecordingBuild) == INSTANCE LedgerChanges

AccountExtensions == 3

xdr_size(v) == v.bytes + v.ext

entry_size_for_rent(k, v) ==
    IF k \in CodeKeys THEN saturating_add(xdr_size(v), v.module, U32Max) ELSE xdr_size(v)

Classic(k) == Durability[k] = "Classic"
Present(c) == c # None
Ended(c, seq) == Present(c) /\ c.live # -1 /\ c.live < seq
SumBytes(sizes) == SaturatingSum(sizes, U32Max)

-----------------------------------------------------------------------------
(* NetworkConfig, from the settings in the ledger; any of them may be      *)
(* missing from the snapshot.                                              *)

load_from_snapshot(settings, state_size) ==
    IF (\E s \in DOMAIN settings : settings[s] = None) \/ state_size > I64Max THEN None
    ELSE LET cost == settings.ledger_cost
             rent == settings.state_archival
         IN  [fee |-> [per_instruction |-> settings.compute.per_instruction,
                       per_disk_read_entry |-> cost.per_disk_read_entry,
                       per_write_entry |-> cost.per_write_entry,
                       per_disk_read_1kb |-> cost.per_disk_read_1kb,
                       per_write_1kb |-> settings.ledger_cost_ext.per_write_1kb,
                       per_historical_1kb |-> settings.historical.per_historical_1kb,
                       per_event_1kb |-> settings.events.per_event_1kb,
                       per_tx_size_1kb |-> settings.bandwidth.per_tx_size_1kb],
              rent |-> [per_rent_1kb |-> compute_rent_write_fee_per_1kb(state_size, cost.rent),
                        per_write_1kb |-> settings.ledger_cost_ext.per_write_1kb,
                        per_write_entry |-> cost.per_write_entry,
                        persistent_denominator |-> rent.persistent_denominator,
                        temporary_denominator |-> rent.temporary_denominator],
              max_instructions |-> settings.compute.max_instructions]

-----------------------------------------------------------------------------
(* Snapshot sources.  Core extends the account entries a transaction       *)
(* touches, so the simulation does it before it measures them.             *)

(* Mutant: accounts are measured as the ledger holds them.                 *)
keep_account_entry(v) == v

update_account_entry(v) == [v EXCEPT !.ext = AccountExtensions]

maybe_update_entry(k, c) ==
    IF Classic(k) /\ Present(c) THEN [c EXCEPT !.val = update_account_entry(@)] ELSE c

SimulationSnapshot(snap) == [k \in Keys |-> maybe_update_entry(k, snap[k])]

(* AutoRestoringSnapshotSource::get, for every key.                        *)
AutoRestoringSnapshot(snap, seq) ==
    [k \in Keys |->
        IF ~Ended(snap[k], seq) THEN snap[k]
        ELSE IF Durability[k] = "Temporary" THEN None
        ELSE [snap[k] EXCEPT !.live = Host(seq, TRUE)!min_live_until_ledger("Persistent")]]

-----------------------------------------------------------------------------
(* Running a program in a fresh storage.                                   *)

Do(s, c, snap, seq, build) ==
    CASE c.op = "get"    -> Host(seq, build)!try_get_full(s, c.k, snap)
      [] c.op = "put"    -> Host(seq, build)!put_contract_data(s, c.k, c.arg, snap)
      [] c.op = "del"    -> Host(seq, build)!del_contract_data(s, c.k)
      [] c.op = "extend" -> Host(seq, build)!extend_ttl(s, c.k, c.arg, c.arg, snap)
      [] c.op = "upload" -> Host(seq, build)!upload_contract_wasm(s, c.k, c.arg, snap)
      [] c.op = "credit" -> Host(seq, build)!put_classic_entry(s, c.k, c.arg, snap)

(* try_call returns: a sub-call that failed has its frame popped, which    *)
(* gives back the map it began with and keeps the footprint, and its error *)
(* goes no further unless the guest may not handle it.                     *)
try_call(before, r) ==
    IF r.err = "Ok" THEN r
    ELSE [s |-> [r.s EXCEPT !.map = before.s.map],
          err |-> IF Host(0, TRUE)!IsRecoverable(r.err) THEN before.err ELSE r.err,
          out |-> None]

(* The state after i instructions, from those after fewer.  An error skips *)
(* what is left of its frame.                                              *)
Instruction(after, i, c, snap, seq, build) ==
    LET r == after[i - 1]
    IN  IF c.op = "end_try" THEN try_call(after[c.arg], r)
        ELSE IF r.err # "Ok" THEN r
        ELSE IF c.op = "fail" THEN [s |-> r.s, err |-> "ContractError", out |-> None]
        ELSE Do(r.s, c, snap, seq, build)

RunInstructions(Op(_, _, _), start, prog) ==
    LET after[i \in 0..Len(prog)] == IF i = 0 THEN start ELSE Op(after, i, prog[i])
    IN  after[Len(prog)]

Exec(start, prog, snap, seq, build) ==
    RunInstructions(LAMBDA after, i, c : Instruction(after, i, c, snap, seq, build),
                    [s |-> start, err |-> "Ok", out |-> None], prog)

(* One change of get_ledger_changes with the sizes of the entry before and *)
(* after; extract_rent_changes keeps those that extend or grow an entry.   *)
RentChange(k, ch, init) ==
    LET old == IF ch.old_live > 0 /\ Present(init[k]) THEN entry_size_for_rent(k, init[k].val)
               ELSE 0
    IN  [persistent |-> Durability[k] = "Persistent", code |-> k \in CodeKeys,
         old_size |-> old,
         new_size |-> IF ch.new_value = None THEN old ELSE entry_size_for_rent(k, ch.new_value),
         old_live |-> ch.old_live, new_live |-> ch.new_live]

extract_rent_changes(changes, init) ==
    LET rent == [k \in {j \in DOMAIN changes : ~Classic(j)} |-> RentChange(k, changes[k], init)]
    IN  [k \in {j \in DOMAIN rent : \/ rent[j].old_live < rent[j].new_live
                                    \/ rent[j].old_size < rent[j].new_size} |-> rent[k]]

WriteBytes(changes) ==
    LET written == {k \in DOMAIN changes : ~changes[k].read_only /\ changes[k].new_value # None}
    IN  SumBytes([k \in written |-> xdr_size(changes[k].new_value)])

DiskReadBytes(keys, restored, snap) ==
    LET read == {k \in keys : Present(snap[k]) /\ (Classic(k) \/ k \in restored)}
    IN  SumBytes([k \in read |-> xdr_size(snap[k].val)])

storage_footprint_to_ledger_footprint(fp) ==
    [read_only |-> {k \in Keys : fp[k] = "ReadOnly"},
     read_write |-> {k \in Keys : fp[k] = "ReadWrite"}]

DeclaredKeys(footprint) == footprint.read_only \union footprint.read_write

(* invoke_host_function_in_recording_mode; r is what the program did.      *)
Recorded(r, prog, snap, seq, cfg) ==
    LET fp == r.s.footprint
        keys == Host(seq, TRUE)!Listed(fp)
        restored == Host(seq, TRUE)!RestoredKeys(fp, snap)
        changes == Host(seq, TRUE)!get_ledger_changes(r.s, snap, restored)
    IN  IF \/ r.err # "Ok"
           \/ ~Host(seq, TRUE)!RestoredAreReadWrite(fp, snap)
           \/ Len(prog) > cfg.max_instructions
        THEN None
        ELSE [footprint |-> storage_footprint_to_ledger_footprint(fp),
              restored |-> restored, changes |-> changes,
              instructions |-> Len(prog),
              disk_read_bytes |-> DiskReadBytes(keys, restored, snap),
              write_bytes |-> WriteBytes(changes)]

RecordingRun(prog, snap, seq) ==
    Exec(Host(seq, TRUE)!with_recording_footprint, prog, snap, seq, TRUE)

Record(prog, snap, seq, cfg) == Recorded(RecordingRun(prog, snap, seq), prog, snap, seq, cfg)

-----------------------------------------------------------------------------
(* Adjustment and fee.                                                     *)

adjust(value, f, top) ==
    IF value = 0 THEN 0
    ELSE AtLeast(saturating_add(value, f.add, top), AtMost((value * f.mul) \div f.div, top))

(* One unit per footprint entry and per restored index.                    *)
estimate_max_transaction_size_for_operation(fp, restored) ==
    EnvelopeSize + Cardinality(DeclaredKeys(fp)) + Cardinality(restored)

compute_adjusted_transaction_resources(fp, restored, instructions, read, write, events) ==
    [instructions |-> adjust(instructions, Adjust.instructions, U32Max),
     disk_read_entries |-> Cardinality({k \in DeclaredKeys(fp) : Classic(k)})
                              + Cardinality(restored),
     write_entries |-> Cardinality(fp.read_write),
     disk_read_bytes |-> adjust(read, Adjust.read_bytes, U32Max),
     write_bytes |-> adjust(write, Adjust.write_bytes, U32Max),
     size |-> adjust(estimate_max_transaction_size_for_operation(fp, restored),
                     Adjust.tx_size, U32Max),
     events_size |-> events]

compute_resource_fee(cfg, seq, resources, rent) ==
    LET fee == compute_transaction_resource_fee(resources, cfg.fee)
        refundable == saturating_add(fee.refundable, compute_rent_fee(rent, cfg.rent, seq), I64Max)
    IN  saturating_add(fee.non_refundable, adjust(refundable, Adjust.refundable_fee, I64Max), I64Max)

create_transaction_data(kind, prog, ext, fp, restored, res, fee) ==
    [kind |-> kind, prog |-> prog, extend_to |-> ext, footprint |-> fp,
     restored |-> restored, resources |-> res, fee |-> fee]

-----------------------------------------------------------------------------
(* The three operations.                                                   *)

(* The invocation recorded as r over the snapshot sn.                      *)
InvocationData(r, prog, sn, seq, cfg) ==
    LET res == compute_adjusted_transaction_resources(r.footprint, r.restored, r.instructions,
                   r.disk_read_bytes, r.write_bytes, ReturnSize)
        rent == extract_rent_changes(r.changes, sn)
    IN  IF r = None THEN None
        ELSE create_transaction_data("invoke", prog, 0, r.footprint, r.restored, res,
                                     compute_resource_fee(cfg, seq, res, rent))

simulate_invoke_host_function_op(prog, snap, seq, cfg) ==
    InvocationData(Record(prog, SimulationSnapshot(snap), seq, cfg), prog,
                   SimulationSnapshot(snap), seq, cfg)

(* The live-until ledger asked for is computed without an overflow check.  *)
simulate_extend_ttl_op(keys, ext, snap, seq, cfg) ==
    LET new == (seq + ext) % (U32Max + 1)
        extended == {k \in keys : Present(snap[k]) /\ snap[k].live < new}
        fp == [read_only |-> extended, read_write |-> {}]
        res == compute_adjusted_transaction_resources(fp, {}, 0, 0, 0, 0)
        rent == [k \in extended |->
                    LET size == entry_size_for_rent(k, snap[k].val)
                    IN  [persistent |-> Durability[k] = "Persistent", code |-> k \in CodeKeys,
                         old_size |-> size, new_size |-> size,
                         old_live |-> snap[k].live, new_live |-> new]]
    IN  IF \E k \in keys : Classic(k) \/ (k \in extended /\ snap[k].live < seq) THEN None
        ELSE create_transaction_data("extend", <<>>, ext, fp, {}, res,
                                     compute_resource_fee(cfg, seq, res, rent))

simulate_restore_op(keys, snap, seq, cfg) ==
    LET live == Host(seq, TRUE)!min_live_until_ledger("Persistent")
        back == {k \in keys : snap[k].live < seq}
        bytes == SumBytes([k \in back |-> xdr_size(snap[k].val)])
        fp == [read_only |-> {}, read_write |-> back]
        res == compute_adjusted_transaction_resources(fp, {}, 0, bytes, bytes, 0)
        rent == [k \in back |->
                    [persistent |-> TRUE, code |-> k \in CodeKeys,
                     old_size |-> 0, new_size |-> entry_size_for_rent(k, snap[k].val),
                     old_live |-> 0, new_live |-> live]]
    IN  IF live > U32Max \/ \E k \in keys : Durability[k] # "Persistent" \/ ~Present(snap[k])
        THEN None
        ELSE create_transaction_data("restore", <<>>, 0, fp, {}, res,
                                     compute_resource_fee(cfg, seq, res, rent))

(* A simulation over the auto-restoring source: the restore operation for  *)
(* the keys the program read archived, if any, then the invocation as if   *)
(* they had been restored already.                                         *)
RestoreThen(tx, snap, seq, cfg) ==
    LET keys == {k \in DeclaredKeys(tx.footprint) : ~Classic(k) /\ Ended(snap[k], seq)
                                                 /\ Durability[k] = "Persistent"}
    IN  IF tx = None THEN <<>>
        ELSE IF keys = {} THEN <<tx>>
        ELSE <<simulate_restore_op(keys, snap, seq, cfg), tx>>

simulate_with_auto_restore(prog, snap, seq, cfg) ==
    RestoreThen(simulate_invoke_host_function_op(prog, AutoRestoringSnapshot(snap, seq), seq, cfg),
                snap, seq, cfg)
=============================================================================
