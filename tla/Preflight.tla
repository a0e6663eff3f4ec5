------------------------------ MODULE Preflight ------------------------------
(***************************************************************************)
(* A recording run of a transaction next to an enforcing run of the same   *)
(* guest program, from the same ledger.  Both hosts execute the same host  *)
(* calls; the enforcing one has the footprint `declared` and the storage   *)
(* the embedder builds from it (archived read-write entries restored).     *)
(* "Once calculated, a recorded Footprint can be provided to real          *)
(* execution" (storage.rs): a declared footprint that covers the recorded  *)
(* one must make the two runs indistinguishable to the guest.              *)
(***************************************************************************)
EXTENDS Lifecycle, Sequences

CONSTANTS
    Snapshots, Touched, Extends,
    MaxDepth   \* bound on nested frames

ASSUME PreflightAssumption ==
    /\ Touched \in [Snapshots -> SUBSET Keys]
    /\ Extends \subseteq U32 \X U32
    /\ MaxDepth \in Nat \ {0}
    /\ \A sn \in Snapshots : sn \in StorageMap /\ \A k \in Keys : WellFormedCell(k, sn[k])

VARIABLES
    snap,      \* the ledger both runs start from
    declared,  \* the footprint of the enforcing run
    rec, enf,  \* the two storages
    frames,    \* rollback points of both: [rmap, emap, try, contract]
    err,       \* the error being propagated, or "Ok"
    phase,     \* "run" | "done" | "failed"
    diverged   \* the runs returned different results; only rec goes on

vars == <<snap, declared, rec, enf, frames, err, phase, diverged>>

EnforcingStart ==
    with_enforcing_footprint_and_map(declared, Supplied(declared, snap, TRUE))

Init ==
    /\ snap \in Snapshots
    /\ Fits(min_live_until_ledger("Persistent"))
    /\ declared \in Footprint
    /\ Listed(declared) \subseteq Touched[snap]
    /\ RestoredAreReadWrite(declared, snap)
    /\ rec = with_recording_footprint
    /\ enf = EnforcingStart
    /\ frames = <<[rmap |-> rec.map, emap |-> enf.map, try |-> FALSE, contract |-> None]>>
    /\ err = "Ok"
    /\ phase = "run"
    /\ diverged = FALSE

Running == phase = "run" /\ err = "Ok"

(* The guest makes the same call in both runs.  Once the results differ    *)
(* the guest programs part ways: the enforcing run is dropped and the      *)
(* recording run goes on to its end.  try says that the call is a          *)
(* try_call, which turns an error into a value.                            *)
Step(r, e, try) ==
    /\ rec' = r.s
    /\ err' = IF try /\ IsRecoverable(r.err) THEN "Ok" ELSE r.err
    /\ diverged' = (diverged \/ r.err # e.err \/ r.out # e.out)
    /\ enf' = IF diverged' THEN EnforcingStart ELSE e.s
    /\ UNCHANGED <<snap, declared, phase>>

Both(r, e) == Step(r, e, FALSE) /\ UNCHANGED frames

GetContractData(k) ==
    /\ Running
    /\ IsDataKey(k)
    /\ Both(get_with_live_until_ledger(rec, k, snap), get_with_live_until_ledger(enf, k, snap))

HasContractData(k) ==
    /\ Running
    /\ IsDataKey(k)
    /\ Both(try_get_full(rec, k, snap), try_get_full(enf, k, snap))

PutContractData(k, v) ==
    /\ Running
    /\ IsDataKey(k)
    /\ Both(put_contract_data(rec, k, v, snap), put_contract_data(enf, k, v, snap))

DelContractData(k) ==
    /\ Running
    /\ IsDataKey(k)
    /\ Both(del_contract_data(rec, k), del_contract_data(enf, k))

(* extend_contract_data_ttl, and extend_contract_instance_ttl.             *)
ExtendTtl(k, x) ==
    LET Extend(s) == IF k \in InstanceKeys
                     THEN extend_contract_instance_ttl(s, k, x[1], x[2], snap)
                     ELSE extend_ttl(s, k, x[1], x[2], snap)
    IN
    /\ Running
    /\ IsDataKey(k) \/ k \in InstanceKeys
    /\ Both(Extend(rec), Extend(enf))

UploadWasm(k, v) ==
    /\ Running
    /\ k \in CodeKeys
    /\ Both(upload_contract_wasm(rec, k, v, snap), upload_contract_wasm(enf, k, v, snap))

PutClassicEntry(k, v) ==
    /\ Running
    /\ ~HasTtl(k)
    /\ Both(put_classic_entry(rec, k, v, snap), put_classic_entry(enf, k, v, snap))

ExtendContractCodeTtl(i, x) ==
    /\ Running
    /\ Both(extend_contract_code_ttl(rec, i, x[1], x[2], snap),
            extend_contract_code_ttl(enf, i, x[1], x[2], snap))

ExtendContractInstanceAndCodeTtl(i, x) ==
    /\ Running
    /\ Both(extend_contract_instance_and_code_ttl(rec, i, x[1], x[2], snap),
            extend_contract_instance_and_code_ttl(enf, i, x[1], x[2], snap))

GetAddressExecutable(k) ==
    /\ Running
    /\ k \in InstanceKeys \/ ~HasTtl(k)
    /\ Both(get_address_executable(rec, k, snap), get_address_executable(enf, k, snap))

UpdateCurrentContractWasm(v) ==
    LET i == frames[Len(frames)].contract IN
    /\ Running
    /\ i # None /\ CodeOf[v] # None
    /\ Both(update_contract_wasm(rec, i, v, snap), update_contract_wasm(enf, i, v, snap))

-----------------------------------------------------------------------------

(* with_frame, when what comes before it succeeded.                        *)
Entered(r, e, i, try) ==
    /\ Step(r, e, try)
    /\ frames' = IF r.err = "Ok"
                 THEN Append(frames, [rmap |-> rec'.map, emap |-> enf'.map,
                                      try |-> try, contract |-> i])
                 ELSE frames

(* A call of the contract i; None is one whose entries both runs hold.     *)
Call(i, try) ==
    LET Load(s) == IF i = None THEN Res(s, "Ok", None) ELSE load_contract(s, i, snap) IN
    /\ Running
    /\ Len(frames) < MaxDepth
    /\ i # None => \A n \in DOMAIN frames : frames[n].contract # i
    /\ Entered(Load(rec), Load(enf), i, try)

(* Creation goes on in the constructor's frame, or in that of init_asset.  *)
(* A Wasm from before constructors has none, and its code is only looked   *)
(* at.                                                                     *)
CreateContract(i, v, constructor) ==
    LET r == create_contract(rec, i, v, snap)
        e == create_contract(enf, i, v, snap)
    IN
    /\ Running
    /\ Len(frames) < MaxDepth
    /\ CodeOf[v] = None => constructor
    /\ IF constructor THEN Entered(r, e, i, FALSE) ELSE Both(r, e)

GuestError ==
    /\ Running
    /\ err' = "ContractError"
    /\ UNCHANGED <<snap, declared, rec, enf, frames, phase, diverged>>

PopOk ==
    /\ Running
    /\ Len(frames) > 1
    /\ frames' = SubSeq(frames, 1, Len(frames) - 1)
    /\ UNCHANGED <<snap, declared, rec, enf, err, phase, diverged>>

(* A frame that modified its instance storage stores its instance first.   *)
PersistAndPop ==
    LET i == frames[Len(frames)].contract
        r == store_instance_storage(rec, i, snap)
        e == store_instance_storage(enf, i, snap)
    IN
    /\ Running
    /\ i # None
    /\ Step(r, e, FALSE)
    /\ frames' = IF r.err = "Ok" THEN SubSeq(frames, 1, Len(frames) - 1) ELSE frames

(* Mutant: the footprint forgets the keys that the failed call loaded.     *)
rollback_with_footprint(s, m) ==
    [s EXCEPT !.map = m,
              !.footprint = [k \in Keys |-> IF s.mode = "Recording" /\ m[k] = Unloaded
                                            THEN "NotListed" ELSE @[k]]]

rollback(s, m) == [s EXCEPT !.map = m]

PopFailed ==
    LET f == frames[Len(frames)]
        caught == f.try /\ IsRecoverable(err)
    IN
    /\ phase = "run"
    /\ err # "Ok"
    /\ rec' = rollback(rec, f.rmap)
    /\ enf' = IF diverged THEN enf ELSE rollback(enf, f.emap)
    /\ frames' = SubSeq(frames, 1, Len(frames) - 1)
    /\ err' = IF caught THEN "Ok" ELSE err
    /\ phase' = IF Len(frames) = 1 THEN "failed" ELSE "run"
    /\ UNCHANGED <<snap, declared, diverged>>

Finish ==
    /\ Running
    /\ Len(frames) = 1
    /\ phase' = "done"
    /\ UNCHANGED <<snap, declared, rec, enf, frames, err, diverged>>

Over == phase # "run" /\ UNCHANGED vars

Instances == Touched[snap] \intersect InstanceKeys

Next ==
    \/ \E k \in Touched[snap] :
        \/ GetContractData(k) \/ HasContractData(k) \/ DelContractData(k) \/ GetAddressExecutable(k)
        \/ \E v \in Values : PutContractData(k, v) \/ UploadWasm(k, v) \/ PutClassicEntry(k, v)
        \/ \E x \in Extends : ExtendTtl(k, x)
    \/ \E i \in Instances :
        \/ \E x \in Extends : ExtendContractCodeTtl(i, x) \/ ExtendContractInstanceAndCodeTtl(i, x)
        \/ \E v \in Values, constructor \in BOOLEAN : CreateContract(i, v, constructor)
    \/ \E v \in Values : UpdateCurrentContractWasm(v)
    \/ \E i \in Instances \union {None}, try \in BOOLEAN : Call(i, try)
    \/ GuestError \/ PopOk \/ PersistAndPop \/ PopFailed \/ Finish \/ Over

Spec == Init /\ [][Next]_vars

-----------------------------------------------------------------------------
(* Properties.                                                             *)

Rank == [a \in Access |-> IF a = "NotListed" THEN 0 ELSE IF a = "ReadOnly" THEN 1 ELSE 2]
Covers(fp, gp) == \A k \in Keys : Rank[fp[k]] >= Rank[gp[k]]

(* The purpose of recording (storage.rs, Footprint): whatever has been     *)
(* recorded so far, if the declared footprint covers it then every host    *)
(* call of the enforcing run returned the same error or the same entry,    *)
(* with the same live-until ledger, and every entry the recording run      *)
(* holds is held by the enforcing run too - through expired temporary      *)
(* entries, archived entries, failed calls and rollbacks.  At the end of   *)
(* the recording run this says that its footprint is enough.               *)
PreflightSuffices ==
    Covers(declared, rec.footprint) =>
        /\ ~diverged
        /\ \A k \in Keys : rec.map[k] # Unloaded => rec.map[k] = enf.map[k]
=============================================================================
