-------------------------------- MODULE MCVm --------------------------------
(***************************************************************************)
(* Three contracts on small budgets: an enforcing host whose instructions  *)
(* cost 2, and a recording host in debug mode whose instructions cost 1.   *)
(***************************************************************************)
EXTENDS Vm

Free == [t \in ContractCostType |-> <<0, 0>>]

Cpu(insn) ==
    [Free EXCEPT !["WasmInsnExec"] = <<insn, 0>>, !["DispatchHostFunction"] = <<1, 0>>,
                 !["VisitObject"] = <<1, 0>>, !["InvokeVmFunction"] = <<1, 0>>,
                 !["MemAlloc"] = <<0, 32>>, !["VmInstantiation"] = <<1, 128>>,
                 !["VmCachedInstantiation"] = <<1, 0>>, !["ParseWasmImports"] = <<0, 128>>,
                 !["InstantiateWasmInstructions"] = <<1, 0>>]

Mem == [Free EXCEPT !["MemAlloc"] = <<0, 128>>, !["VmInstantiation"] = <<0, 128>>]

Counts == [i \in 1..10 |-> IF i = 8 THEN 1 ELSE 0]

Good == [bytes |-> 1, valid |-> TRUE, args |-> 1, meta |-> [proto |-> 22, pre |-> 0],
         imports |-> {"vec"}, start |-> FALSE, pages |-> 0, max |-> 1, simple |-> TRUE,
         elems |-> 0, n |-> Counts, noop |-> FALSE]

Bad == {[Good EXCEPT !.valid = FALSE], [Good EXCEPT !.args = 3], [Good EXCEPT !.meta = None],
        [Good EXCEPT !.meta.proto = 24], [Good EXCEPT !.meta.pre = 1],
        [Good EXCEPT !.imports = {"newer"}], [Good EXCEPT !.imports = {"later"}],
        [Good EXCEPT !.imports = {"retired"}], [Good EXCEPT !.imports = {"unknown"}],
        [Good EXCEPT !.start = TRUE], [Good EXCEPT !.simple = FALSE], [Good EXCEPT !.elems = 1],
        [Good EXCEPT !.n[10] = 1]}

Contract(w, cached, live) ==
    [wasm |-> w, present |-> TRUE, refined |-> cached, cached |-> cached, live |-> live]

Contracts ==
    [A |-> Contract(Good, TRUE, TRUE), B |-> Contract([Good EXCEPT !.pages = 1], FALSE, FALSE),
     Gone |-> [Contract(Good, TRUE, TRUE) EXCEPT !.present = FALSE],
     Empty |-> Contract([Good EXCEPT !.noop = TRUE], TRUE, TRUE)]

Network(insn, recording, cpu_limit, mem_limit, contracts) ==
    [cpu |-> Cpu(insn), mem |-> Mem, cpu_limit |-> cpu_limit, mem_limit |-> mem_limit,
     cpu_shadow |-> 6, mem_shadow |-> 6, proto |-> 23, recording |-> recording,
     debug |-> recording, quanta |-> {1, 3}, depth |-> 3,
     contracts |-> [c \in contracts |-> Contracts[c]], wasms |-> Bad \union {Good}]

(* The last one has the default cost model, with room for little more than *)
(* one call.                                                               *)
MCNetworks ==
    LET small == Network(4, FALSE, 55500, 100000, {"A", "B"})
    IN  [enforcing |-> Network(2, FALSE, 12, 20, {"A", "B"}),
         recording |-> Network(1, TRUE, 9, 20, {"A", "B", "Empty"}),
         tight |-> [Network(1, FALSE, 13, 9, {"A", "B", "Gone"}) EXCEPT !.depth = 2],
         default |-> [small EXCEPT !.cpu = DefaultCpu, !.mem = DefaultMem, !.quanta = {100, 700}]]

MCHostFunctions ==
    [vec |-> [min |-> 20, max |-> 23], newer |-> [min |-> 23, max |-> 23],
     later |-> [min |-> 24, max |-> 24], retired |-> [min |-> 20, max |-> 21]]
=============================================================================
