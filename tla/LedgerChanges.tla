---------------------------- MODULE LedgerChanges ----------------------------
(***************************************************************************)
(* The embedder's side of a transaction (e2e_invoke.rs): building the      *)
(* storage an enforcing invocation starts from, the checks a recording     *)
(* invocation makes on the footprint it recorded, and the difference       *)
(* between the final storage and the ledger, reported as one change per    *)
(* key.                                                                    *)
(***************************************************************************)
EXTENDS Storage

Listed(fp) == {k \in Keys : fp[k] # "NotListed"}

MaxOf(a, b) == IF a >= b THEN a ELSE b

(* is_persistent_key *)
IsArchived(k, c) == IsExpired(k, c) /\ Durability[k] = "Persistent"

(* The entries a recording invocation reports as auto-restored             *)
(* (restored_rw_entry_indices): archived in the snapshot and accessed.     *)
RestoredKeys(fp, snap) == {k \in Listed(fp) : IsArchived(k, snap[k])}

(* The recording invocation fails with an internal error unless every      *)
(* auto-restored entry is in the read-write footprint.                     *)
RestoredAreReadWrite(fp, snap) ==
    \A k \in RestoredKeys(fp, snap) : fp[k] = "ReadWrite"

(* An enforcing transaction gets, for the listed keys, the live entries of *)
(* the ledger; the embedder restores the archived ones it lists as         *)
(* read-write (with the minimum persistent TTL) before the invocation and  *)
(* does not supply expired temporary ones.  Without the filter it hands    *)
(* over expired entries as they are, which the host must refuse.           *)
Supplied(fp, sn, filters) ==
    [k \in Keys |->
        IF fp[k] = "NotListed" THEN None
        ELSE IF ~filters \/ ~IsExpired(k, sn[k]) THEN sn[k]
        ELSE IF ~IsArchived(k, sn[k]) THEN None
        ELSE [sn[k] EXCEPT !.live = min_live_until_ledger("Persistent")]]

(* build_storage_map_from_xdr_ledger_entries for an enforcing invocation:  *)
(* supplied entries of listed keys are loaded, the other listed keys are   *)
(* known not to exist.  The check that refuses an expired entry is         *)
(* compiled in only with the recording feature: in the default build the   *)
(* body of the `if` is empty.                                              *)
BuildFails(fp, supplied) ==
    \/ \E k \in Keys : Exists(supplied[k]) /\ fp[k] = "NotListed"
    \/ RecordingBuild /\ \E k \in Keys : IsExpired(k, supplied[k])

build_storage_map(fp, supplied) ==
    [k \in Keys |-> IF fp[k] = "NotListed" THEN Unloaded ELSE supplied[k]]

with_enforcing_footprint_and_map(fp, supplied) ==
    [footprint |-> fp, map |-> build_storage_map(fp, supplied), mode |-> "Enforcing"]

with_recording_footprint ==
    [footprint |-> [k \in Keys |-> "NotListed"],
     map |-> [k \in Keys |-> Unloaded], mode |-> "Recording"]

-----------------------------------------------------------------------------
(* get_ledger_changes for one key of the map.  A live-until ledger of 0    *)
(* stands for "does not exist"; classic entries have no TTL change.        *)

NoChange == [read_only |-> TRUE, new_value |-> None, old_live |-> 0, new_live |-> 0]

old_live_until(k, c) ==
    IF HasTtl(k) /\ Exists(c) /\ ~(RecordingBuild /\ c.live < Seq0) THEN c.live ELSE 0

(* Mutants: the final live-until ledger is the map's, not the maximum;     *)
(* an extension is not reported.                                           *)
ledger_change_no_max(s, k, init, restored) ==
    LET c == s.map[k]
        ro == s.footprint[k] = "ReadOnly"
    IN  [read_only |-> ro, new_value |-> IF ro \/ ~Exists(c) THEN None ELSE c.val,
         old_live |-> old_live_until(k, init[k]),
         new_live |-> IF HasTtl(k) /\ Exists(c) THEN c.live ELSE 0]

ledger_change_no_extension(s, k, init, restored) ==
    LET c == s.map[k]
        ro == s.footprint[k] = "ReadOnly"
        old == old_live_until(k, init[k])
    IN  [read_only |-> ro, new_value |-> IF ro \/ ~Exists(c) THEN None ELSE c.val,
         old_live |-> old,
         new_live |-> IF HasTtl(k) /\ Exists(c) THEN IF old > 0 THEN old ELSE c.live ELSE 0]

ledger_change(s, k, init, restored) ==
    LET c == s.map[k]
        old == old_live_until(k, init[k])
        new == IF HasTtl(k) /\ Exists(c) THEN MaxOf(c.live, old) ELSE 0
        ro == s.footprint[k] = "ReadOnly"
        back == k \in restored /\ ~ro /\ Exists(c)
    IN  [read_only |-> ro,
         new_value |-> IF ro \/ ~Exists(c) THEN None ELSE c.val,
         old_live |-> IF back THEN 0 ELSE old,
         new_live |-> IF back
                      THEN MaxOf(new, min_live_until_ledger("Persistent")) ELSE new]

(* add_footprint_only_ledger_changes: keys accessed only by calls that     *)
(* failed are in the footprint and no longer in the map.                   *)
footprint_only_change(s, k) ==
    [NoChange EXCEPT !.read_only = (s.footprint[k] = "ReadOnly")]

ChangedKeys(s) ==
    {k \in Keys : s.map[k] # Unloaded}
        \union (IF s.mode = "Recording" THEN Listed(s.footprint) ELSE {})

(* A key of the map that is not in the footprint is an internal error.     *)
ChangesFail(s) == \E k \in Keys : s.map[k] # Unloaded /\ s.footprint[k] = "NotListed"

get_ledger_changes(s, init, restored) ==
    [k \in ChangedKeys(s) |->
        IF s.map[k] = Unloaded THEN footprint_only_change(s, k)
        ELSE ledger_change(s, k, init, restored)]
=============================================================================
