------------------------------ MODULE Lifecycle ------------------------------
(***************************************************************************)
(* What the contract lifecycle does to the storage (host/lifecycle.rs,     *)
(* host/data_helper.rs, host/frame.rs): a contract is an instance entry    *)
(* whose value is its executable, a Wasm that has a code entry of its own  *)
(* or the built-in asset contract.  Every operation touches several        *)
(* entries in turn and stops at the first error, leaving the footprint and *)
(* the map as far as it came.                                              *)
(***************************************************************************)
EXTENDS LedgerChanges

CONSTANTS
    InstanceKeys,  \* the contract-instance keys
    CodeOf         \* executable -> its code key, or None for the asset contract

ASSUME LifecycleAssumption ==
    /\ InstanceKeys \subseteq {k \in Keys \ CodeKeys : Durability[k] = "Persistent"}
    /\ CodeOf \in [Values -> CodeKeys \union {None}]

(* The keys a guest names in put_contract_data and its kin.                *)
IsDataKey(k) == HasTtl(k) /\ k \notin CodeKeys /\ k \notin InstanceKeys

(* The `?` operator.                                                       *)
Then(r, Op(_)) == IF r.err # "Ok" THEN r ELSE Op(r.s)

retrieve_contract_instance_from_storage(s, i, snap) == get_with_live_until_ledger(s, i, snap)

(* A Wasm from the module cache is read with `has`, any other with `get`:  *)
(* the same access, and what is missing is missing from both.              *)
retrieve_wasm_from_storage(s, code, snap) == get_with_live_until_ledger(s, code, snap)

wasm_exists(s, code, snap) == OrMissing(try_get_full(s, code, snap))

(* call_contract_fn up to the frame: the instance, and the code of a Wasm. *)
load_contract(s, i, snap) ==
    LET g == retrieve_contract_instance_from_storage(s, i, snap)
    IN  IF g.err # "Ok" \/ CodeOf[g.out.val] = None THEN g
        ELSE retrieve_wasm_from_storage(g.s, CodeOf[g.out.val], snap)

(* store_contract_instance of instance storage: the executable is kept,    *)
(* and there has to be one.                                                *)
store_instance_storage(s, i, snap) ==
    LET g == try_get_full(s, i, snap)
    IN  IF g.err # "Ok" THEN g
        ELSE IF g.out = None THEN Res(g.s, "InternalError", None)
        ELSE put_opt(g.s, i, g.out)

(* create_contract_with_id.                                                *)
create_contract_with_id(s, i, exec, snap) ==
    LET g == try_get_full(s, i, snap)
        Store(t) == put_contract_data(t, i, exec, snap)
    IN  IF g.err # "Ok" THEN g
        ELSE IF g.out # None THEN Res(g.s, "ExistingValue", None)
        ELSE IF CodeOf[exec] = None THEN Store(g.s)
        ELSE Then(wasm_exists(g.s, CodeOf[exec], snap), Store)

(* create_contract_internal up to the frame of the constructor, or of      *)
(* init_asset: get_contract_protocol_version and the call itself read the  *)
(* same entries.                                                           *)
create_contract(s, i, exec, snap) ==
    LET Load(t) == load_contract(t, i, snap)
    IN  Then(create_contract_with_id(s, i, exec, snap), Load)

(* update_current_contract_wasm.                                           *)
update_contract_wasm(s, i, exec, snap) ==
    LET Old(t) == retrieve_contract_instance_from_storage(t, i, snap)
        Store(t) == put_contract_data(t, i, exec, snap)
    IN  Then(Then(wasm_exists(s, CodeOf[exec], snap), Old), Store)

(* extend_contract_instance_ttl_from_contract_id.                          *)
extend_contract_instance_ttl(s, i, threshold, extend_to, snap) ==
    extend_ttl(s, i, threshold, extend_to, snap)

(* extend_contract_code_ttl_from_contract_id.                              *)
extend_contract_code_ttl(s, i, threshold, extend_to, snap) ==
    LET g == retrieve_contract_instance_from_storage(s, i, snap)
    IN  IF g.err # "Ok" THEN g
        ELSE IF CodeOf[g.out.val] = None THEN Res(g.s, "Ok", None)
        ELSE extend_ttl(g.s, CodeOf[g.out.val], threshold, extend_to, snap)

(* extend_contract_instance_and_code_ttl, and the same of the current      *)
(* contract: the instance is extended first.                               *)
extend_contract_instance_and_code_ttl(s, i, threshold, extend_to, snap) ==
    LET Code(t) == extend_contract_code_ttl(t, i, threshold, extend_to, snap)
    IN  Then(extend_contract_instance_ttl(s, i, threshold, extend_to, snap), Code)

(* get_address_executable: an absent contract or account has none.         *)
get_address_executable(s, k, snap) == try_get_full(s, k, snap)
=============================================================================
