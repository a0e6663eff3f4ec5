------------------------------- MODULE Storage -------------------------------
(***************************************************************************)
(* The transactional storage of the host (storage.rs) as operators on a    *)
(* storage record                                                          *)
(*    [footprint : Keys -> Access, map : Keys -> Cell, mode : Mode].       *)
(* Every operation returns [s |-> storage after, err |-> outcome,          *)
(* out |-> value read]: an operation that fails may already have changed   *)
(* the footprint or the map, as in the code, and the caller sees both.     *)
(*                                                                         *)
(* A cell of the map is Unloaded (the key is not in the MeteredOrdMap),    *)
(* None (the key maps to Option::None: known not to exist) or an entry     *)
(* with its live-until ledger.  Values are opaque.                         *)
(***************************************************************************)
EXTENDS LedgerInfo

CONSTANTS
    CodeKeys,        \* the contract-code keys
    Values,          \* the contents an entry may have
    Unloaded, None,  \* model values
    RecordingBuild   \* the crate is built with feature "recording_mode"

NoTtl == -1          \* the Option::None live-until ledger of classic entries

Entry == [val : Values, live : U32 \union {NoTtl}]
Cell  == Entry \union {Unloaded, None}
Access == {"NotListed", "ReadOnly", "ReadWrite"}
Mode == {"Recording", "Enforcing"}
Footprint == [Keys -> Access]
StorageMap == [Keys -> Cell]
StorageRec == [footprint : Footprint, map : StorageMap, mode : Mode]

ASSUME StorageAssumption ==
    /\ Unloaded \notin Entry
    /\ None \notin Entry
    /\ Unloaded # None
    /\ RecordingBuild \in BOOLEAN
    /\ CodeKeys \subseteq {k \in Keys : Durability[k] = "Persistent"}

WellFormedCell(k, c) ==
    \/ c = None
    \/ c \in Entry /\ IF HasTtl(k) THEN c.live \in U32 ELSE c.live = NoTtl

(* Outcomes.  "InternalError" and "ExceededLimit" are the storage errors   *)
(* that HostError::is_recoverable refuses to let a guest handle.           *)
Outcomes == {"Ok", "ExceededLimit", "MissingValue", "InvalidInput",
             "InvalidAction", "InternalError", "ContractError"}

IsRecoverable(err) == err \notin {"ExceededLimit", "InternalError"}

Exists(c) == c # Unloaded /\ c # None

Res(s, err, out) == [s |-> s, err |-> err, out |-> out]

-----------------------------------------------------------------------------
(* Footprint.                                                              *)

record_access(fp, k, ty) ==
    [fp EXCEPT ![k] = IF @ = "ReadWrite" THEN @ ELSE ty]

enforce_access(fp, k, ty) ==
    fp[k] = "ReadWrite" \/ (fp[k] = "ReadOnly" /\ ty = "ReadOnly")

Access2(s, k, ty) ==
    IF s.mode = "Recording"
    THEN Res([s EXCEPT !.footprint = record_access(@, k, ty)], "Ok", None)
    ELSE Res(s, IF enforce_access(s.footprint, k, ty) THEN "Ok" ELSE "ExceededLimit", None)

-----------------------------------------------------------------------------
(* Expiry.  The handler is compiled in only with the recording feature; a  *)
(* Storage in Recording mode exists only in such a build.                  *)

IsExpired(k, c) == HasTtl(k) /\ Exists(c) /\ c.live < Seq0

(* Mutants: expiry is not looked at; an archived entry is restored without *)
(* recording it as read-write.                                             *)
handle_ignoring_expiry(s, k) == Res(s, "Ok", None)

handle_without_access(s, k) ==
    LET c == s.map[k] IN
    IF ~IsExpired(k, c) THEN Res(s, "Ok", None)
    ELSE Res([s EXCEPT !.map[k] = IF Durability[k] = "Temporary" THEN None
                  ELSE [c EXCEPT !.live = min_live_until_ledger("Persistent")]], "Ok", None)

handle_maybe_expired_entry(s, k) ==
    LET c == s.map[k]
        restored == [s EXCEPT !.footprint = record_access(@, k, "ReadWrite")]
        live == min_live_until_ledger("Persistent")
    IN  IF ~RecordingBuild \/ ~IsExpired(k, c) THEN Res(s, "Ok", None)
        ELSE IF Durability[k] = "Temporary"
             THEN Res([s EXCEPT !.map[k] = None], "Ok", None)
        ELSE IF ~Fits(live) THEN Res(restored, "InternalError", None)
        ELSE Res([restored EXCEPT !.map[k] = [c EXCEPT !.live = live]], "Ok", None)

-----------------------------------------------------------------------------
(* Reads.  snap is the SnapshotSource of a Recording storage.              *)

prepare_read_only_access(s, k, snap) ==
    LET a == Access2(s, k, "ReadOnly")
        loaded == IF s.map[k] = Unloaded THEN [a.s EXCEPT !.map[k] = snap[k]] ELSE a.s
    IN  IF s.mode = "Recording" THEN handle_maybe_expired_entry(loaded, k) ELSE a

(* The cell of k once its read access is prepared.                         *)
ReadCell(p, k) ==
    IF p.err # "Ok" THEN p
    ELSE IF p.s.map[k] = Unloaded THEN Res(p.s, "InternalError", None)
    ELSE Res(p.s, "Ok", p.s.map[k])

try_get_full(s, k, snap) == ReadCell(prepare_read_only_access(s, k, snap), k)

OrMissing(g) == IF g.err = "Ok" /\ g.out = None THEN Res(g.s, "MissingValue", None) ELSE g

get_with_live_until_ledger(s, k, snap) == OrMissing(try_get_full(s, k, snap))

-----------------------------------------------------------------------------
(* Writes: put and del funnel into put_opt_helper.                         *)

(* Mutants: the write is only checked as a read; a delete drops the key    *)
(* from the map.                                                           *)
put_opt_as_read(s, k, cell) ==
    LET a == Access2(s, k, "ReadOnly")
    IN  IF a.err # "Ok" THEN a ELSE Res([a.s EXCEPT !.map[k] = cell], "Ok", None)

put_opt_dropping(s, k, cell) ==
    LET a == Access2(s, k, "ReadWrite")
    IN  IF a.err # "Ok" THEN a
        ELSE Res([a.s EXCEPT !.map[k] = IF cell = None THEN Unloaded ELSE cell], "Ok", None)

put_opt(s, k, cell) ==
    LET h == handle_maybe_expired_entry(s, k)
        a == Access2(h.s, k, "ReadWrite")
    IN  IF h.err # "Ok" THEN h
        ELSE IF a.err # "Ok" THEN a
        ELSE Res([a.s EXCEPT !.map[k] = cell], "Ok", None)

(* Mutant: a new entry is created without a live-until ledger.             *)
put_without_live_until(s, k, v, snap) ==
    LET g == try_get_full(s, k, snap)
    IN  IF g.err # "Ok" THEN g
        ELSE put_opt(g.s, k, [val |-> v, live |-> IF g.out # None THEN g.out.live ELSE NoTtl])

(* Host::put_contract_data_into_ledger, and store_contract_instance for an *)
(* instance key: an existing entry keeps its live-until ledger, a new one  *)
(* gets the minimum for its durability.                                    *)
put_contract_data(s, k, v, snap) ==
    LET g == try_get_full(s, k, snap)
        live == min_live_until_ledger(Durability[k])
    IN  IF g.err # "Ok" THEN g
        ELSE IF g.out # None THEN put_opt(g.s, k, [g.out EXCEPT !.val = v])
        ELSE IF ~Fits(live) THEN Res(g.s, "InternalError", None)
        ELSE put_opt(g.s, k, [val |-> v, live |-> live])

(* Host::upload_contract_wasm: a new code entry, or one whose extension    *)
(* differs from the stored one, is written with the minimum persistent     *)
(* TTL, even when the stored entry lives longer.                           *)
upload_contract_wasm(s, k, v, snap) ==
    LET g == try_get_full(s, k, snap)
        live == min_live_until_ledger("Persistent")
    IN  IF g.err # "Ok" THEN g
        ELSE IF Exists(g.out) /\ g.out.val = v THEN Res(g.s, "Ok", None)
        ELSE IF ~Fits(live) THEN Res(g.s, "InternalError", None)
        ELSE put_opt(g.s, k, [val |-> v, live |-> live])

(* Accounts and trustlines are modified in place by the asset contract     *)
(* (transfer_account_balance and its kin) and never created or deleted.    *)
put_classic_entry(s, k, v, snap) ==
    LET g == get_with_live_until_ledger(s, k, snap)
    IN  IF g.err # "Ok" THEN g ELSE put_opt(g.s, k, [val |-> v, live |-> NoTtl])

del_contract_data(s, k) == put_opt(s, k, None)

-----------------------------------------------------------------------------
(* Storage::extend_ttl.  new is clamped for persistent entries only.       *)

extend_ttl(s, k, threshold, extend_to, snap) ==
    LET h == handle_maybe_expired_entry(s, k)
        g == get_with_live_until_ledger(h.s, k, snap)
        asked == Seq0 + extend_to
        past == asked > max_live_until_ledger
        new == IF past THEN max_live_until_ledger ELSE asked
    IN  IF threshold > extend_to THEN Res(s, "InvalidInput", None)
        ELSE IF h.err # "Ok" THEN h
        ELSE IF g.err # "Ok" THEN g
        ELSE IF \/ g.out.live = NoTtl
                \/ g.out.live < Seq0
                \/ ~Fits(asked)
                \/ ~Fits(max_live_until_ledger)
             THEN Res(g.s, "InternalError", None)
        ELSE IF past /\ Durability[k] = "Temporary" THEN Res(g.s, "InvalidAction", None)
        ELSE IF new > g.out.live /\ saturating_sub(g.out.live, Seq0) <= threshold
             THEN Res([g.s EXCEPT !.map[k] = [g.out EXCEPT !.live = new]], "Ok", None)
        ELSE Res(g.s, "Ok", None)
=============================================================================
