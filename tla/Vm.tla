--------------------------------- MODULE Vm ---------------------------------
(***************************************************************************)
(* One transaction's Wasm contracts on the budget: instantiation (vm.rs,   *)
(* vm/parsed_module.rs, vm/module_cache.rs, host/frame.rs), the boundary   *)
(* between host and guest (vm/dispatch.rs, vm/fuel_refillable.rs) with the *)
(* translation of object handles (host_object.rs), and what an error at    *)
(* any charge leaves behind.                                               *)
(*                                                                         *)
(* The host hands all of its remaining CPU budget to the VM as fuel when   *)
(* it crosses into the guest, and takes the fuel back when the guest calls *)
(* a host function, returns or traps.  stack[1] is the host function's     *)
(* frame.  Storage, events and instance storage are in other modules; here *)
(* a rollback is visible in the authorization manager's stack only.        *)
(***************************************************************************)
EXTENDS ParsedModule, HostObjects, FiniteSets

CONSTANTS
    Networks,    \* name -> cost models, limits, protocol, mode, contracts, Wasms,
                 \* DEFAULT_HOST_DEPTH_LIMIT and the fuel (quanta) a run of guest instructions may take
    Handles,     \* the handles guests try, theirs or made up
    MaxObjs,     \* bound on host objects
    MaxUploads   \* bound on uploads

(* A constant and a scaled linear term per cost type.                      *)
IsCostModel(costs) ==
    ContractCostType \subseteq DOMAIN costs /\ \A ty \in ContractCostType : costs[ty] \in Nat \X Nat

(* A Wasm has a size, counts of what is in it, initial pages and imports.  *)
IsWasm(w) ==
    /\ w.bytes \in Nat /\ w.n \in [1..10 -> Nat] /\ w.pages \in Nat /\ IsFiniteSet(w.imports)
    /\ w.noop \in BOOLEAN /\ w.valid \in BOOLEAN

(* The network's protocol is not newer than the host's (set_ledger_info    *)
(* refuses it), and there are never 2^31 objects: each is charged for, and *)
(* the shift of index_to_handle would lose the top bit of its index.       *)
ASSUME VmAssumption ==
    /\ EnvProto \in Nat /\ PageSize \in Nat /\ Handles \subseteq Nat
    /\ MaxObjs \in Nat /\ 2 * MaxObjs <= HandleSpace
    /\ \A n \in DOMAIN Networks :
        LET p == Networks[n]
        IN  /\ IsCostModel(p.cpu) /\ IsCostModel(p.mem)
            /\ p.cpu_limit \in Nat /\ p.mem_limit \in Nat
            /\ p.cpu_shadow \in Nat /\ p.mem_shadow \in Nat
            /\ p.proto \in Nat /\ p.proto <= EnvProto /\ p.depth \in Nat /\ p.quanta \subseteq Nat
            /\ \A c \in DOMAIN p.contracts : IsWasm(p.contracts[c].wasm)
            /\ \A w \in p.wasms : IsWasm(w)

VARIABLES
    network,   \* the network's name; never changes
    bud,       \* the Budget
    objs,      \* the host's objects
    stack,     \* the context stack
    auth,      \* the length of the authorization manager's call stack
    err,       \* the error being propagated, or "Ok"
    uploaded,  \* the Wasms uploaded
    unpaid     \* history: fuel that guests have burnt and the host has not charged

vars == <<network, bud, objs, stack, auth, err, uploaded, unpaid>>

net == Networks[network]

Tags == {"Vec", "U64"}
GuestVals == {Small} \union [tag : Tags, handle : Handles]
NoFuel == [total |-> 0, consumed |-> 0, grown |-> 0]

Recoverable(e) == e \notin {"ExceededLimit", "InternalError"}

(* The host between two operations, as a record the operations below pass  *)
(* on; each of them is `?`: it does nothing once err is set.               *)
Host == [bud |-> bud, objs |-> objs, stack |-> stack, auth |-> auth, err |-> "Ok", res |-> Small]

Become(h) ==
    /\ bud' = [h.bud EXCEPT !.insns = 0] /\ unpaid' = unpaid - h.bud.insns
    /\ objs' = h.objs /\ stack' = h.stack /\ auth' = h.auth /\ err' = h.err

Fail(h, e) == IF h.err # "Ok" THEN h ELSE [h EXCEPT !.err = e]

Charged(h, r) == [h EXCEPT !.bud = r.b, !.err = r.err]

Charge(h, charges) ==
    IF h.err # "Ok" THEN h ELSE Charged(h, charge_all(net, h.bud, charges))

TopIndex(h) == Len(h.stack)

(* charge_heap_alloc of one object or one handle, charge_bulk_init_cpy of  *)
(* n elements.                                                             *)
heap_alloc == <<"MemAlloc", 1, 1>>
bulk_init_cpy(n) == <<<<"MemCpy", 1, 1>>, <<"MemAlloc", 1, n>>, <<"MemCpy", 1, n>>>>

-----------------------------------------------------------------------------
(* Fuel (vm/fuel_refillable.rs).  grown is history: the CPU cost of memory *)
(* the guest has grown since its fuel was supplied.                        *)

is_clean(h) ==
    h.stack[TopIndex(h)].fuel.consumed = 0 /\ h.stack[TopIndex(h)].fuel.total = 0

add_fuel_to_vm(h) ==
    IF ~is_clean(h) THEN [h EXCEPT !.err = "InternalError"]
    ELSE [h EXCEPT !.stack[Len(h.stack)].fuel.total = get_wasmi_fuel_remaining(net, h.bud)]

(* Mutant: the reset is forgotten.                                         *)
return_fuel_without_reset(h) ==
    LET r == charge(net, h.bud, "WasmInsnExec", h.stack[TopIndex(h)].fuel.consumed, NoInput)
    IN  [h EXCEPT !.bud = r.b, !.err = IF r.err # "Ok" THEN r.err ELSE @]

(* return_fuel_to_host: a charge that fails leaves the fuel in the VM.     *)
FuelReset(h, r) ==
    IF r.err # "Ok" THEN Charged(h, r) ELSE [h EXCEPT !.bud = r.b, !.stack[Len(h.stack)].fuel = NoFuel]
return_fuel_to_host(h) ==
    FuelReset(h, charge(net, h.bud, "WasmInsnExec", h.stack[TopIndex(h)].fuel.consumed, NoInput))

-----------------------------------------------------------------------------
(* The boundary (vm/dispatch.rs).                                          *)

(* check_env_arg: an object has to exist and to have the tag it claims.    *)
Visited(h, v) == Fail(h, IF visit_obj(h.objs, v).err = "Ok" THEN "Ok" ELSE "InvalidInput")
check_val_integrity(h, v) ==
    IF v.tag = "Small" THEN h ELSE Visited(Charge(h, <<<<"VisitObject", 1, NoInput>>>>), v)

(* A guest calls a host function: the fuel comes back, the call is charged *)
(* and its argument made absolute and checked.                             *)
Argument(h, v) ==
    LET r == relative_to_absolute(h.stack[TopIndex(h)].rel, v)
    IN  IF h.err # "Ok" THEN h ELSE check_val_integrity([h EXCEPT !.err = r.err, !.res = r.v], r.v)
Dispatch(v) ==
    Argument(Charge(return_fuel_to_host(Host), <<<<"DispatchHostFunction", 1, NoInput>>>>), v)

(* The object a frame is handed: its table grows, and history notes it.    *)
Handed(h, v) ==
    LET i == TopIndex(h)
        r == absolute_to_relative(h.stack[i].rel, v)
    IN  IF h.err # "Ok" THEN h ELSE [h EXCEPT !.err = r.err, !.stack[i].rel = r.rel]
ToRelative(h, v) == Handed(IF v.tag = "Small" THEN h ELSE Charge(h, <<heap_alloc>>), v)

Knows(h, S) == [h EXCEPT !.stack[Len(h.stack)].known = @ \union (S \ {Small})]

(* Its result is checked and made relative.  The fuel is supplied whatever the host    *)
(* function returned, but not when the result could not be translated.     *)
Refuelled(h) == IF h.err # "Ok" THEN h ELSE add_fuel_to_vm(h)
Resume(h) ==
    IF h.err # "Ok" THEN add_fuel_to_vm(h)
    ELSE Refuelled(ToRelative(check_val_integrity(h, h.res), h.res))

-----------------------------------------------------------------------------
(* Instantiation (vm.rs, host/frame.rs).                                   *)

(* instantiate_wasmi: charged, gated by protocol, linked, its initial      *)
(* memory allocated through the limiter, and a start function refused.     *)
InitialMemory(h, w) ==
    IF h.err # "Ok" \/ w.pages = 0 THEN h
    ELSE Charged(h, memory_growing(net, h.bud, w.pages * PageSize, w.pages <= w.max))
instantiate_wasmi(h, w, inputs) ==
    LET a == Charge(h, charge_for_instantiation(inputs))
        b == Charge(a, bulk_init_cpy(Cardinality(w.imports)))
        c == Fail(b, check_contract_imports_match_host_protocol(net.proto, w))
    IN  Fail(InitialMemory(Fail(c, link(w)), w), ensure_no_start(w))

(* ParsedModule::new with an isolated engine, and its linker.              *)
parse(h, w, inputs) ==
    Charge(Fail(Charge(h, charge_for_parsing(inputs)), parse_wasm(net.proto, w)),
           bulk_init_cpy(Cardinality(w.imports)))

(* Mutant: an upload parses the module and does not instantiate it.        *)
check_vm_parsed_only(h, w) == parse(h, w, V0(w))

(* Vm::new.                                                                *)
check_vm(h, w) == instantiate_wasmi(parse(h, w, V0(w)), w, V0(w))

(* instantiate_vm: from the module cache, in the shadow budget when a      *)
(* recording host simulates a cache hit, or by parsing what storage has.   *)
instantiate_vm(h, c) ==
    LET w == c.wasm
        ci == IF c.refined THEN V1(w) ELSE V0(w)
        ok == parse_wasm(net.proto, w)
        linker == IF ok = "Ok" THEN bulk_init_cpy(Cardinality(w.imports)) ELSE <<>>
        quiet == with_observable_shadow_mode(net, h.bud, charge_for_parsing(ci) \o linker)
        shadowed == Fail(Charged(h, quiet), ok)
    IN  IF h.err # "Ok" THEN h
        ELSE IF ~c.present THEN Fail(h, "MissingValue")
        ELSE IF net.recording /\ c.live
             THEN IF shadowed.err # "Ok" THEN shadowed ELSE instantiate_wasmi(shadowed, w, ci)
        ELSE IF ~net.recording /\ c.cached THEN instantiate_wasmi(h, w, ci)
        ELSE instantiate_wasmi(parse(h, w, ci), w, ci)

-----------------------------------------------------------------------------
(* Calls (host/frame.rs).                                                  *)

Frame(os, c, v, try) ==
    [contract |-> c, try |-> try, rel |-> <<>>, fuel |-> NoFuel, pages |-> 0,
     known |-> Reachable(os, {v})]

HostFrame == Frame(<<>>, None, Small, FALSE)

(* push_context: the authorization manager's frame first, then two charges *)
(* that may fail, then the context.                                        *)
Pushed(h, f) == IF h.err # "Ok" THEN h ELSE [h EXCEPT !.stack = Append(@, f)]
push_context(h, f) ==
    IF h.err # "Ok" THEN h
    ELSE Pushed(Charge([h EXCEPT !.auth = @ + 1], <<<<"MemCpy", 1, 1>>>> \o bulk_init_cpy(1)), f)

(* Mutant: the depth is checked once the authorization frame is pushed.    *)
with_frame_checked_late(h, f) ==
    IF h.err = "Ok" /\ Len(h.stack) >= net.depth
    THEN [h EXCEPT !.auth = @ + 1, !.err = "DepthLimit"]
    ELSE push_context(h, f)

(* with_frame, up to the closure.                                          *)
with_frame(h, f) ==
    push_context(Fail(h, IF Len(h.stack) >= net.depth THEN "DepthLimit" ELSE "Ok"), f)

(* call_n_internal, call_contract_fn and with_frame up to the guest's      *)
(* first instruction.                                                      *)
Invoke(h, c, v, try) ==
    LET known == \E i \in DOMAIN h.stack : h.stack[i].contract = c
        a == Fail(h, IF known THEN "InvalidAction" ELSE "Ok")
        b == instantiate_vm(Charge(a, bulk_init_cpy(1)), net.contracts[c])
        f == [Frame(h.objs, c, v, try) EXCEPT !.pages = net.contracts[c].wasm.pages]
    IN  with_frame(b, f)

(* invoke_function_raw and metered_func_call up to func.call.              *)
Enter(h, v) ==
    LET a == ToRelative(Charge(h, bulk_init_cpy(1)), v)
        b == Charge(a, <<<<"InvokeVmFunction", 1, NoInput>>>>)
        c == Fail(b, IF net.contracts[h.stack[TopIndex(h)].contract].wasm.noop
                     THEN "MissingValue" ELSE "Ok")
    IN  Refuelled(c)

(* The frame that called gets the outcome back: try_call turns a           *)
(* recoverable error into a value.                                         *)
Outcome(h, try) ==
    IF h.err # "Ok" /\ try /\ Recoverable(h.err) THEN [h EXCEPT !.err = "Ok", !.res = Small] ELSE h
Delivered(h) ==
    IF Len(h.stack) <= 1 THEN h
    ELSE Resume(IF h.err = "Ok" THEN Knows(h, Reachable(h.objs, {h.res})) ELSE h)
Deliver(h, try) == Delivered(Outcome(h, try))

CallFrom(h, c, v, try) ==
    LET i == Invoke(h, c, v, try)
    IN  IF Len(i.stack) > Len(h.stack) THEN Enter(i, v) ELSE Deliver(i, try)

-----------------------------------------------------------------------------
Guest == Len(stack) > 1 /\ err = "Ok"
Top == stack[Len(stack)]

(* The host as a transaction begins, with two objects in its arguments.    *)
NewHost ==
    [bud |-> try_from_configs(net.cpu_limit, net.mem_limit, net.cpu_shadow, net.mem_shadow),
     objs |-> <<[tag |-> "U64", kids |-> <<>>], [tag |-> "U64", kids |-> <<>>]>>,
     stack |-> <<HostFrame>>, auth |-> 1, err |-> "Ok", res |-> Small]

(* The host function calls a contract with the first of its objects.       *)
Init ==
    /\ network \in DOMAIN Networks
    /\ \E c \in DOMAIN net.contracts :
          \E h \in {CallFrom(NewHost, c, [tag |-> "U64", handle |-> 1], FALSE)} :
             /\ bud = h.bud /\ objs = h.objs /\ stack = h.stack /\ auth = h.auth /\ err = h.err
    /\ uploaded = {} /\ unpaid = 0

(* Instructions that take n fuel: all of it, or an OutOfFuel trap.         *)
Exec(n) ==
    /\ Guest
    /\ IF Top.fuel.total - Top.fuel.consumed >= n
       THEN /\ stack' = [stack EXCEPT ![Len(stack)].fuel.consumed = @ + n]
            /\ unpaid' = unpaid + n /\ UNCHANGED err
       ELSE err' = "ExceededLimit" /\ UNCHANGED <<stack, unpaid>>
    /\ UNCHANGED <<network, bud, objs, auth, uploaded>>

(* memory.grow, while the VM holds the fuel.                               *)
MemoryGrow ==
    LET m == memory_growing(net, bud, PageSize, Top.pages < net.contracts[Top.contract].wasm.max)
    IN  /\ Guest
        /\ bud' = m.b /\ err' = m.err
        /\ stack' = IF m.err # "Ok" THEN stack
                    ELSE [stack EXCEPT ![Len(stack)].pages = @ + 1,
                                       ![Len(stack)].fuel.grown = @ + m.b.cpu.total - bud.cpu.total]
        /\ UNCHANGED <<network, objs, auth, uploaded, unpaid>>

(* A host function that makes an object of one the guest's memory names.   *)
vec_new_from_linear_memory(v) ==
    LET d == Dispatch(Small)
        c == Charge(d, bulk_init_cpy(1) \o <<<<"MemCpy", 1, 1>>>>)
        r == relative_to_absolute(Top.rel, v)
        a == Charge(check_val_integrity(Fail(c, r.err), r.v), <<heap_alloc>>)
        new == new_from_handle(d.objs, "Vec")
        h == IF a.err # "Ok" THEN a
             ELSE Knows([a EXCEPT !.objs = Append(@, [tag |-> "Vec", kids |-> <<r.v>>]),
                                  !.res = new], {new})
    IN  /\ Guest /\ Len(objs) < MaxObjs
        /\ Become(IF d.err # "Ok" THEN d ELSE Resume(h))
        /\ UNCHANGED <<network, uploaded>>

(* A host function that looks into its argument.                           *)
vec_front(v) ==
    LET d == Dispatch(v)
        a == Charge(d, <<<<"VisitObject", 1, NoInput>>>>)
        o == visit_obj(a.objs, d.res)
        h == IF a.err # "Ok" THEN a
             ELSE IF o.err # "Ok" THEN Fail(a, o.err)
             ELSE [a EXCEPT !.res = o.obj.kids[1]]
    IN  /\ Guest /\ v.tag = "Vec"
        /\ Become(IF d.err # "Ok" THEN d ELSE Resume(h))
        /\ UNCHANGED <<network, uploaded>>

(* In debug mode it works in the shadow budget; otherwise it does nothing. *)
log_from_linear_memory ==
    LET d == Dispatch(Small)
        r == with_shadow_mode(net, d.bud, bulk_init_cpy(1) \o bulk_init_cpy(2) \o <<<<"MemCpy", 1, 1>>>>)
    IN  /\ Guest
        /\ Become(IF d.err # "Ok" THEN d
                  ELSE Resume(IF net.debug THEN [d EXCEPT !.bud = r.b] ELSE d))
        /\ UNCHANGED <<network, uploaded>>

(* upload_contract_wasm, until it writes the entry.                        *)
UploadWasm(w) ==
    LET d == Dispatch(Small)
        a == Charge(check_vm(d, w), charge_for_parsing(V0(w)))
        h == Charge(Fail(a, extract_refined_contract_cost_inputs(w)), <<heap_alloc>>)
    IN  /\ Guest /\ w \notin uploaded /\ Cardinality(uploaded) < MaxUploads
        /\ Become(IF d.err # "Ok" THEN d ELSE Resume([h EXCEPT !.res = Small]))
        /\ uploaded' = IF h.err = "Ok" THEN uploaded \union {w} ELSE uploaded
        /\ UNCHANGED network

Call(c, v, try) ==
    LET d == Dispatch(v)
    IN  /\ Guest
        /\ Become(IF d.err # "Ok" THEN d ELSE CallFrom(d, c, d.res, try))
        /\ UNCHANGED <<network, uploaded>>

(* A trap, or an error returned by the contract.                           *)
Trap ==
    /\ Guest
    /\ err' = "InvalidAction"
    /\ UNCHANGED <<network, bud, objs, stack, auth, uploaded, unpaid>>

(* pop_context: with or without a rollback, pop_frame of the authorization *)
(* manager pops one frame.                                                 *)
pop_context(h) == [h EXCEPT !.stack = SubSeq(@, 1, Len(@) - 1), !.auth = @ - 1]

(* The guest function returns v: the fuel is taken back once and v made    *)
(* absolute at the end of metered_func_call; whatever came of it, the      *)
(* frame is popped and the outcome handed to the caller.                   *)
Return(v) ==
    LET a == return_fuel_to_host(Host)
        r == relative_to_absolute(Top.rel, v)
        h == IF a.err # "Ok" THEN a ELSE [a EXCEPT !.err = r.err, !.res = r.v]
    IN  /\ Guest
        /\ Become(Deliver(pop_context(h), Top.try))
        /\ UNCHANGED <<network, uploaded>>

(* Mutant: a trap leaves the fuel where it is.                             *)
UnwindKeepingFuel ==
    /\ Len(stack) > 1 /\ err # "Ok"
    /\ Become(Deliver(pop_context([Host EXCEPT !.err = err]), Top.try))
    /\ UNCHANGED <<network, uploaded>>

(* The guest function failed: metered_func_call takes the fuel back, an    *)
(* error of that charge replaces the one being propagated, and the frame   *)
(* is rolled back.                                                         *)
Unwind ==
    /\ Len(stack) > 1 /\ err # "Ok"
    /\ \E h \in {pop_context(return_fuel_to_host([Host EXCEPT !.err = err]))} :
       \E g \in {Outcome(h, Top.try)} : \E d \in {Delivered(g)} : Become(d)
    /\ UNCHANGED <<network, uploaded>>

(* The host function's frame ends.                                         *)
End ==
    /\ Len(stack) = 1
    /\ stack' = <<>> /\ auth' = auth - 1
    /\ UNCHANGED <<network, bud, objs, err, uploaded, unpaid>>

Next ==
    \/ \E n \in net.quanta : Exec(n)
    \/ \E v \in GuestVals : vec_new_from_linear_memory(v) \/ vec_front(v) \/ Return(v)
    \/ \E c \in DOMAIN net.contracts, v \in GuestVals, try \in BOOLEAN : Call(c, v, try)
    \/ \E w \in net.wasms : UploadWasm(w)
    \/ MemoryGrow
    \/ log_from_linear_memory
    \/ Trap
    \/ Unwind
    \/ End

(* The host is one thread: a guest that is not in a host function executes *)
(* its next instruction, an error keeps propagating, the last frame ends.  *)
Fairness == WF_vars((\E n \in net.quanta : Exec(n)) \/ Unwind \/ End)

Spec == Init /\ [][Next]_vars /\ Fairness

-----------------------------------------------------------------------------
Errors == {"Ok", "InvalidAction", "InvalidInput", "MissingValue", "DepthLimit", "ExceededLimit"}

Dimensions == [limit : Nat, total : 0..U64Max, shadow_limit : Nat, shadow_total : 0..U64Max]

(* The state has its types.  InternalError is not among the errors: the    *)
(* host's own checks that a VM is clean before fuel is added, that a       *)
(* charge has the input its cost type takes, and that no relative handle   *)
(* is left on the host's side, never fail.                                 *)
TypeOK ==
    /\ network \in DOMAIN Networks
    /\ bud.cpu \in Dimensions /\ bud.mem \in Dimensions /\ bud.shadow \in BOOLEAN
    /\ err \in Errors /\ auth \in Nat /\ unpaid \in Int /\ uploaded \subseteq net.wasms
    /\ \A i \in DOMAIN objs : objs[i].tag \in Tags
    /\ \A i \in DOMAIN stack :
          /\ stack[i].contract \in DOMAIN net.contracts \union {None} /\ stack[i].try \in BOOLEAN
          /\ stack[i].fuel \in [total : Nat, consumed : Nat, grown : Nat]

(* At any time at most the running frame holds fuel, and what the host has *)
(* charged plus the price of that fuel is within the CPU limit, but for    *)
(* the memory the guest has grown since (memory.grow charges the host's    *)
(* budget behind the fuel's back).                                         *)
FuelWithinBudget ==
    /\ \A i \in 1..Len(stack) - 1 : stack[i].fuel = NoFuel
    /\ Guest => bud.cpu.total + net.cpu["WasmInsnExec"][1] * Top.fuel.total
                  <= bud.cpu.limit + Top.fuel.grown

InFlight == IF stack = <<>> THEN 0 ELSE Top.fuel.consumed

(* Every instruction a guest executed is accounted for, across calls,      *)
(* traps, failed host functions and the shadow budget, and none is charged *)
(* twice while the transaction can still succeed.                          *)
EverythingMetered ==
    /\ unpaid <= InFlight
    /\ err # "ExceededLimit" => unpaid = InFlight
    /\ ~bud.shadow

(* A contract's handles lead only to objects it was passed, was returned   *)
(* or made, whatever integers it passes for a handle.                      *)
HandlesIsolated ==
    \A i \in DOMAIN stack :
       Reachable(objs, {stack[i].rel[j] : j \in DOMAIN stack[i].rel}) \subseteq stack[i].known

(* The call stack of the authorization manager is as long as the context   *)
(* stack, except while an error that no contract can catch unwinds it: a   *)
(* push_context that failed half way is never built upon.                  *)
AuthAligned == Recoverable(err) => auth = Len(stack)

Ample == [Host EXCEPT !.bud = try_from_configs(U64Max, U64Max, U64Max, U64Max)]

(* A Wasm that was uploaded can be instantiated afterwards, from the cache *)
(* or by parsing, in both modes, given the budget: the checks of an upload *)
(* are not weaker than those of a call.                                    *)
UploadedInstantiates ==
    \A w \in uploaded, hit \in BOOLEAN :
       instantiate_vm(Ample, [wasm |-> w, present |-> TRUE, refined |-> TRUE,
                              live |-> hit, cached |-> hit]).err = "Ok"

(* Every transaction ends: guests cannot run, call or allocate for ever,   *)
(* since each step burns fuel or is charged.                               *)
Terminates == <>(stack = <<>>)
=============================================================================
