----------------------------- MODULE StorageTxn -----------------------------
(***************************************************************************)
(* One transaction over the host's storage: guest code calls the storage   *)
(* host functions from nested frames (host.rs, host/data_helper.rs,        *)
(* host/lifecycle.rs), a frame that fails rolls the storage map back       *)
(* (host/frame.rs), and the embedder turns the final storage into ledger   *)
(* changes (e2e_invoke.rs).  The transaction runs either in Recording mode *)
(* over a snapshot that may hold expired entries, or in Enforcing mode     *)
(* over a declared footprint.                                              *)
(***************************************************************************)
EXTENDS LedgerChanges, Sequences

CONSTANTS
    Snapshots,   \* the ledgers a transaction may start from
    Touched,     \* the keys a transaction over each ledger may list and use
    Extends,     \* the (threshold, extend_to) pairs guests ask for
    FiltersExpired, \* the embedder supplies no expired entry (see Supplied)
    MaxDepth     \* bound on nested frames (the host allows 100)

ASSUME StorageTxnAssumption ==
    /\ Touched \in [Snapshots -> SUBSET Keys]
    /\ Extends \subseteq U32 \X U32
    /\ FiltersExpired \in BOOLEAN
    /\ MaxDepth \in Nat \ {0}

ASSUME SnapshotsAssumption ==
    \A sn \in Snapshots : sn \in StorageMap /\ \A k \in Keys : WellFormedCell(k, sn[k])

VARIABLES
    snap,     \* the ledger before the transaction
    restored, \* the keys restored by the embedder before an enforcing run
    init,     \* the storage snapshot the changes are computed against
    storage,  \* Host.storage
    frames,   \* the rollback points of the active frames, outermost first
    err,      \* the error being propagated, or "Ok"
    phase,    \* "run" | "done" | "failed"
    changes   \* the reported ledger changes

vars == <<snap, restored, init, storage, frames, err, phase, changes>>

Frame == [map : StorageMap, try : BOOLEAN]

StartRecording ==
    /\ RecordingBuild
    /\ storage = with_recording_footprint
    /\ restored = {}
    /\ init = snap

StartEnforcing ==
    \E fp \in Footprint :
        /\ Listed(fp) \subseteq Touched[snap]
        /\ RestoredAreReadWrite(fp, snap)
        /\ init = Supplied(fp, snap, FiltersExpired)
        /\ ~BuildFails(fp, init)
        /\ storage = with_enforcing_footprint_and_map(fp, init)
        /\ restored = RestoredKeys(fp, snap)

(* Both entry points return an internal error before they build a host     *)
(* when the minimum persistent live-until ledger overflows.                *)
Init ==
    /\ snap \in Snapshots
    /\ Fits(min_live_until_ledger("Persistent"))
    /\ StartRecording \/ StartEnforcing
    /\ frames = <<[map |-> storage.map, try |-> FALSE]>>
    /\ err = "Ok"
    /\ phase = "run"
    /\ changes = <<>>

-----------------------------------------------------------------------------
(* Storage host functions of the running guest.  An error traps the guest, *)
(* so it starts unwinding the current frame.                               *)

Running == phase = "run" /\ err = "Ok"

Apply(r) ==
    /\ storage' = r.s
    /\ err' = r.err
    /\ UNCHANGED <<snap, restored, init, frames, phase, changes>>

has_contract_data(k) == Running /\ Apply(try_get_full(storage, k, snap))

get_contract_data(k) == Running /\ Apply(get_with_live_until_ledger(storage, k, snap))

PutContractData(k, v) ==
    /\ Running
    /\ HasTtl(k) /\ k \notin CodeKeys
    /\ Apply(put_contract_data(storage, k, v, snap))

DelContractData(k) ==
    /\ Running
    /\ HasTtl(k) /\ k \notin CodeKeys
    /\ Apply(del_contract_data(storage, k))

ExtendTtl(k, x) ==
    /\ Running
    /\ HasTtl(k)
    /\ Apply(extend_ttl(storage, k, x[1], x[2], snap))

UploadWasm(k, v) ==
    /\ Running
    /\ k \in CodeKeys
    /\ Apply(upload_contract_wasm(storage, k, v, snap))

PutClassicEntry(k, v) ==
    /\ Running
    /\ ~HasTtl(k)
    /\ Apply(put_classic_entry(storage, k, v, snap))

-----------------------------------------------------------------------------
(* Frames: push_context takes the rollback point, pop_context restores it  *)
(* when the frame failed.  The footprint is never rolled back.             *)

Call(try) ==
    /\ Running
    /\ Len(frames) < MaxDepth
    /\ frames' = Append(frames, [map |-> storage.map, try |-> try])
    /\ UNCHANGED <<snap, restored, init, storage, err, phase, changes>>

GuestError ==
    /\ Running
    /\ err' = "ContractError"
    /\ UNCHANGED <<snap, restored, init, storage, frames, phase, changes>>

(* The end of with_frame: a frame that did not modify its instance storage *)
(* is popped; one that did stores its contract instance k first and is     *)
(* popped only if that succeeded.                                          *)
PopOk ==
    /\ Running
    /\ Len(frames) > 1
    /\ frames' = SubSeq(frames, 1, Len(frames) - 1)
    /\ UNCHANGED <<snap, restored, init, storage, err, phase, changes>>

PersistAndPop(k, v) ==
    LET r == put_contract_data(storage, k, v, snap) IN
    /\ Running
    /\ Len(frames) > 1
    /\ Durability[k] = "Persistent" /\ k \notin CodeKeys
    /\ storage' = r.s
    /\ err' = r.err
    /\ frames' = IF r.err = "Ok" THEN SubSeq(frames, 1, Len(frames) - 1) ELSE frames
    /\ UNCHANGED <<snap, restored, init, phase, changes>>

(* try_call hands a recoverable error to its caller as a value; otherwise  *)
(* the caller's frame fails too.                                           *)
(* Mutant: the footprint forgets the keys that the failed call loaded.     *)
rollback_with_footprint(s, f) ==
    [s EXCEPT !.map = f.map,
              !.footprint = [k \in Keys |-> IF f.map[k] = Unloaded THEN "NotListed" ELSE @[k]]]

rollback(s, f) == [s EXCEPT !.map = f.map]

PopFailed ==
    LET f == frames[Len(frames)] IN
    /\ phase = "run"
    /\ err # "Ok"
    /\ storage' = rollback(storage, f)
    /\ err' = IF f.try /\ IsRecoverable(err) THEN "Ok" ELSE err
    /\ frames' = SubSeq(frames, 1, Len(frames) - 1)
    /\ phase' = IF Len(frames) = 1 THEN "failed" ELSE "run"
    /\ UNCHANGED <<snap, restored, init, changes>>

(* The outermost frame returned: the embedder computes the changes.        *)
FinalRestored ==
    IF storage.mode = "Recording" THEN RestoredKeys(storage.footprint, snap) ELSE restored

FinishError ==
    \/ ChangesFail(storage)
    \/ storage.mode = "Recording" /\ ~RestoredAreReadWrite(storage.footprint, snap)

Finish ==
    /\ Running
    /\ Len(frames) = 1
    /\ frames' = <<>>
    /\ phase' = "done"
    /\ restored' = FinalRestored
    /\ IF FinishError
       THEN err' = "InternalError" /\ UNCHANGED changes
       ELSE err' = "Ok" /\ changes' = get_ledger_changes(storage, init, FinalRestored)
    /\ UNCHANGED <<snap, init, storage>>

Over == phase # "run" /\ UNCHANGED vars

Next ==
    \/ \E k \in Touched[snap] :
        \/ has_contract_data(k)
        \/ get_contract_data(k)
        \/ DelContractData(k)
        \/ \E v \in Values : \/ PutContractData(k, v) \/ UploadWasm(k, v) \/ PutClassicEntry(k, v)
                            \/ PersistAndPop(k, v)
        \/ \E x \in Extends : ExtendTtl(k, x)
    \/ \E try \in BOOLEAN : Call(try)
    \/ GuestError
    \/ PopOk
    \/ PopFailed
    \/ Finish
    \/ Over

Spec == Init /\ [][Next]_vars

-----------------------------------------------------------------------------
(* Properties.                                                             *)

(* Every variable keeps its type: cells of the storage map and of every    *)
(* rollback point are well-formed for the durability of their key          *)
(* (Storage.map, RollbackPoint.storage).                                   *)
MapOK(m) == /\ m \in StorageMap
            /\ \A k \in Keys : m[k] = Unloaded \/ WellFormedCell(k, m[k])

ChangeRec == [read_only : BOOLEAN, new_value : Values \union {None},
              old_live : Nat, new_live : Nat]

TypeOK ==
    /\ snap \in StorageMap /\ \A k \in Keys : WellFormedCell(k, snap[k])
    /\ restored \in SUBSET Keys
    /\ init \in StorageMap /\ \A k \in Keys : WellFormedCell(k, init[k])
    /\ storage \in StorageRec /\ MapOK(storage.map)
    /\ frames \in Seq(Frame) /\ \A i \in 1..Len(frames) : MapOK(frames[i].map)
    /\ err \in Outcomes
    /\ phase \in {"run", "done", "failed"}
    /\ \A k \in DOMAIN changes : changes[k] \in ChangeRec

(* The entry a transaction starts from: expired temporary entries do not   *)
(* exist, archived ones are restored with the minimum persistent TTL.      *)
EffectiveCell(k) ==
    IF IsArchived(k, snap[k]) THEN [snap[k] EXCEPT !.live = min_live_until_ledger("Persistent")]
    ELSE IF IsExpired(k, snap[k]) THEN None
    ELSE snap[k]

(* c is the entry e with at most its life extended. *)
OnlyExtends(c, e) ==
    /\ Exists(c) <=> Exists(e)
    /\ Exists(c) => c.val = e.val /\ c.live >= e.live

(* AccessType::ReadOnly "indicates that the LedgerKey is only read" and    *)
(* the e2e result promises that a read-only entry "can only have [its]     *)
(* live until ledger increased": whatever calls were made, failed and were *)
(* rolled back, a key still listed read-only holds the value the ledger    *)
(* had, in the map and in every rollback point.                            *)
ReadOnlyUntouched ==
    \A k \in Keys : storage.footprint[k] = "ReadOnly" =>
        /\ storage.map[k] # Unloaded => OnlyExtends(storage.map[k], EffectiveCell(k))
        /\ \A i \in 1..Len(frames) :
               frames[i].map[k] # Unloaded => OnlyExtends(frames[i].map[k], EffectiveCell(k))

(* The ledger is so late that its own TTL bounds are no u32 any more.      *)
LedgerOverflows ==
    ~Fits(min_live_until_ledger("Temporary")) \/ ~Fits(max_live_until_ledger)

(* What the storage calls on k would return now, those that extend it to a *)
(* ledger that is no u32 left aside.                                       *)
AccessErrors(k) ==
    {try_get_full(storage, k, snap).err, get_with_live_until_ledger(storage, k, snap).err}

DataErrors(k) ==
    {put_contract_data(storage, k, v, snap).err : v \in Values} \union {del_contract_data(storage, k).err}

CodeErrors(k) == {upload_contract_wasm(storage, k, v, snap).err : v \in Values}

ClassicErrors(k) == {put_classic_entry(storage, k, v, snap).err : v \in Values}

ExtendErrors(k) ==
    {extend_ttl(storage, k, x[1], x[2], snap).err : x \in {y \in Extends : Fits(Seq0 + y[2])}}

CallErrors(k) ==
    AccessErrors(k) \union
    (IF ~HasTtl(k) THEN ClassicErrors(k)
     ELSE ExtendErrors(k) \union IF k \in CodeKeys THEN CodeErrors(k) ELSE DataErrors(k))

(* The internal errors of the storage layer (a key the map lacks after     *)
(* prepare_read_only_access, an expired entry met by extend_ttl, a map key *)
(* outside the footprint or an archived read-only key met by the embedder) *)
(* are unreachable: whatever was called, failed and rolled back, no call   *)
(* that a guest may make next, nor the end of the transaction, returns one *)
(* unless it computes a TTL that overflows a u32.                          *)
InternalErrorOnlyOnOverflow ==
    Running /\ ~LedgerOverflows =>
        /\ ~FinishError
        /\ \A k \in Touched[snap] : "InternalError" \notin CallErrors(k)

(* A recording transaction lists every archived persistent entry it        *)
(* touched as read-write, even when every call that touched it failed:     *)
(* otherwise invoke_host_function_in_recording_mode returns an internal    *)
(* error, and an enforcing run could not restore the entry.                *)
ArchivedAccessIsReadWrite ==
    storage.mode = "Recording" => RestoredAreReadWrite(storage.footprint, snap)

(* get_ledger_changes "returns an entry for every item in storage          *)
(* footprint", and the changes, applied to the ledger, leave every key of  *)
(* the map as the transaction last saw it, with a live-until ledger at     *)
(* least as late.                                                          *)
ChangesMatchStorage ==
    phase = "done" /\ err = "Ok" =>
        /\ DOMAIN changes = Listed(storage.footprint)
        /\ \A k \in Keys : storage.map[k] # Unloaded =>
            LET c == changes[k]
                m == storage.map[k]
            IN  /\ c.read_only => OnlyExtends(m, EffectiveCell(k))
                /\ ~c.read_only => c.new_value = IF Exists(m) THEN m.val ELSE None
                /\ Exists(m) /\ HasTtl(k) => c.new_live >= m.live

(* "Never reduce the final live until ledger": an entry that survives the  *)
(* transaction lives at least as long as it did before, even if it was     *)
(* deleted and created again or its code re-uploaded with a minimum TTL.   *)
NeverShortened ==
    phase = "done" /\ err = "Ok" =>
        \A k \in DOMAIN changes :
            Exists(storage.map[k]) /\ Exists(snap[k]) /\ HasTtl(k)
                => changes[k].new_live >= snap[k].live

(* The footprint only grows in Recording mode and is fixed in Enforcing    *)
(* mode; rolling a frame back never removes an access from it.             *)
Rank == [a \in Access |-> IF a = "NotListed" THEN 0 ELSE IF a = "ReadOnly" THEN 1 ELSE 2]

FootprintStep ==
    /\ storage'.mode = storage.mode
    /\ \A k \in Keys : Rank[storage'.footprint[k]] >= Rank[storage.footprint[k]]
    /\ storage.mode = "Enforcing" => storage'.footprint = storage.footprint

FootprintNeverShrinks == [][FootprintStep]_vars

(* No cell of the map, nor of a rollback point, is past its live-until     *)
(* ledger: expired entries are removed or restored when a recording        *)
(* storage loads them, and refused when an enforcing one is built ("we     *)
(* don't expect expired entries to ever appear in the storage map, so      *)
(* that's always an internal error", e2e_invoke.rs).                       *)
MapEntriesAreLive ==
    \A k \in Keys :
        /\ ~IsExpired(k, storage.map[k])
        /\ \A i \in 1..Len(frames) : ~IsExpired(k, frames[i].map[k])
=============================================================================
