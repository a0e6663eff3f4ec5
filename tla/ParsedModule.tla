---------------------------- MODULE ParsedModule ----------------------------
(***************************************************************************)
(* What the host demands of a Wasm module (vm/parsed_module.rs) and what   *)
(* it charges for it.  A Wasm blob is a record of the features the checks  *)
(* tell apart:                                                             *)
(*   bytes     its length                                                  *)
(*   valid     wasmi::Module::new accepts it                               *)
(*   args      the most parameters or results of an export                 *)
(*   meta      None, or its [proto, pre] interface version                 *)
(*   imports   the names it imports                                        *)
(*   start     it has a start function                                     *)
(*   pages     its initial memory, max the pages it may grow to            *)
(*   simple    every constant expression is simple, every section known    *)
(*   elems     the items of its element segments                           *)
(*   n         its ten counts, in the order of ContractCodeCostInputs      *)
(*   noop      it does not export the function that is called              *)
(***************************************************************************)
EXTENDS Budget

CONSTANTS
    HostFunctions, \* name -> [min, max]: the protocols of a host function
    EnvProto,      \* meta::INTERFACE_VERSION.protocol
    EnvPre,        \* meta::INTERFACE_VERSION.pre_release
    MaxVmArgs,     \* Vm::MAX_VM_ARGS
    PageSize,      \* WASM_STD_MEM_PAGE_SIZE_IN_BYTES
    None           \* a model value

ParseCosts ==
    <<"ParseWasmInstructions", "ParseWasmFunctions", "ParseWasmGlobals",
      "ParseWasmTableEntries", "ParseWasmTypes", "ParseWasmDataSegments",
      "ParseWasmElemSegments", "ParseWasmImports", "ParseWasmExports",
      "ParseWasmDataSegmentBytes">>

InstantiateCosts ==
    <<"InstantiateWasmInstructions", "InstantiateWasmFunctions", "InstantiateWasmGlobals",
      "InstantiateWasmTableEntries", "InstantiateWasmTypes", "InstantiateWasmDataSegments",
      "InstantiateWasmElemSegments", "InstantiateWasmImports", "InstantiateWasmExports",
      "InstantiateWasmDataSegmentBytes">>

TableEntries == 4      \* the places of two counts in n
DataSegmentBytes == 10

(* VersionedContractCodeCostInputs: V1 after the upload that refined them. *)
V0(w) == [v1 |-> FALSE, bytes |-> w.bytes]
V1(w) == [v1 |-> TRUE, n |-> w.n]

charge_for_parsing(inputs) ==
    IF inputs.v1 THEN [i \in 1..10 |-> <<ParseCosts[i], 1, inputs.n[i]>>]
    ELSE <<<<"VmInstantiation", 1, inputs.bytes>>>>

charge_for_instantiation(inputs) ==
    IF inputs.v1
    THEN [i \in 1..10 |-> <<InstantiateCosts[i], 1,
             IF InstantiateCosts[i] \in {"InstantiateWasmInstructions", "InstantiateWasmTypes"}
             THEN NoInput ELSE inputs.n[i]>>]
    ELSE <<<<"VmCachedInstantiation", 1, inputs.bytes>>>>

(* check_contract_interface_version, in a build without feature "next".    *)
check_contract_interface_version(ledger_proto, version) ==
    IF ledger_proto > EnvProto THEN "InternalError"
    ELSE IF \/ version.proto < ledger_proto /\ version.pre # 0
            \/ version.proto = ledger_proto /\ version.pre # EnvPre
            \/ version.proto > ledger_proto
         THEN "InvalidInput"
    ELSE "Ok"

check_meta_section(ledger_proto, w) ==
    IF w.meta = None THEN "InvalidInput"
    ELSE check_contract_interface_version(ledger_proto, w.meta)

check_max_args(w) == IF w.args > MaxVmArgs THEN "InvalidInput" ELSE "Ok"

First(outcomes) ==
    LET bad == {i \in DOMAIN outcomes : outcomes[i] # "Ok"}
    IN  IF bad = {} THEN "Ok" ELSE outcomes[CHOOSE i \in bad : \A j \in bad : i <= j]

(* parse_wasm, after the charge.                                           *)
parse_wasm(ledger_proto, w) ==
    First(<<IF w.valid THEN "Ok" ELSE "InvalidAction", check_max_args(w),
            check_meta_section(ledger_proto, w)>>)

(* check_contract_imports_match_host_protocol.                             *)
check_contract_imports_match_host_protocol(ledger_proto, w) ==
    IF \E f \in w.imports \intersect DOMAIN HostFunctions :
          \/ w.meta.proto < HostFunctions[f].min \/ ledger_proto < HostFunctions[f].min
          \/ w.meta.proto > HostFunctions[f].max \/ ledger_proto > HostFunctions[f].max
    THEN "InvalidAction" ELSE "Ok"

(* The linker resolves the imports it knows.                               *)
link(w) == IF w.imports \subseteq DOMAIN HostFunctions THEN "Ok" ELSE "InvalidAction"

(* The instance it makes must not have a start function.                   *)
ensure_no_start(w) == IF w.start THEN "InvalidAction" ELSE "Ok"

(* extract_refined_contract_cost_inputs: the second parse of an upload.    *)
extract_refined_contract_cost_inputs(w) ==
    IF \/ ~w.simple \/ w.start
       \/ w.n[DataSegmentBytes] > w.pages * PageSize
       \/ w.elems > w.n[TableEntries]
    THEN "InvalidInput" ELSE "Ok"
=============================================================================
