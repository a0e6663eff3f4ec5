----------------------------- MODULE HostFrames -----------------------------
(***************************************************************************)
(* The frames of one transaction (host/frame.rs) and the state they own or *)
(* roll back: the contract instances in storage, the lazily loaded         *)
(* instance storage of each frame, the event buffer and the pseudo-random  *)
(* generators.                                                             *)
(*                                                                         *)
(* stack[1] is the host function's frame, which has no contract; the       *)
(* others are contract frames.  A contract account's __check_auth is the   *)
(* one call that may re-enter the contract that is running.                *)
(***************************************************************************)
EXTENDS Integers, Sequences

CONSTANTS
    Transactions, \* the transactions considered: see the definitions from tx
    InstKeys,     \* the keys of instance storage
    Vals,         \* the values of instance storage
    None,         \* a model value
    DepthLimit    \* DEFAULT_HOST_DEPTH_LIMIT

Data == [InstKeys -> Vals \union {None}]         \* instance storage
InstanceStorage == [map : Data, modified : BOOLEAN] \* a frame's copy of it
Prng == [seed : Nat, pos : Nat]                   \* a generator

ASSUME HostFramesAssumption ==
    /\ None \notin Vals \union InstanceStorage \union Prng
    /\ \A x \in Transactions : /\ x.wallets \subseteq x.contracts
                               /\ x.fixed \subseteq x.contracts
                               /\ None \notin x.contracts
                               /\ x.events \in Nat /\ x.draws \in Nat
    /\ DepthLimit \in Nat \ {0}

VARIABLES
    tx,      \* the contracts a transaction meets and its bounds; never changes
    inst,    \* the instance entries in storage: Contracts -> Instance
    stack,   \* the context stack
    events,  \* the status of each recorded event: TRUE for FromSuccessfulCall
    base,    \* how many seeds the base PRNG has given out
    err,     \* the error being propagated, or "Ok"
    spec,    \* history: instance data under nested transactions
    kept,    \* history: the events whose calls have not failed
    draws    \* history: what guests drew, [seed, pos], in order

vars == <<tx, inst, stack, events, base, err, spec, kept, draws>>

Contracts == tx.contracts  \* the contracts, all of them deployed
Wallets == tx.wallets      \* the contract accounts among them
Fixed == tx.fixed          \* those whose instance is not read-write in the footprint
Wasms == tx.wasms          \* the executables
MaxEvents == tx.events     \* bound on recorded events
MaxDraws == tx.draws       \* bound on draws, and on the generators seeded for them

Top == stack[Len(stack)]
Running == stack # <<>> /\ err = "Ok"
InContract == Running /\ Len(stack) > 1
Recoverable == err # "StorageLimit"

(* Context and RollbackPoint; storage is None until the first access.      *)
Frame(c, try) ==
    [contract |-> c, try |-> try, storage |-> None, prng |-> None,
     instance |-> IF c = None THEN None ELSE inst[c],
     rp |-> [inst |-> inst, events |-> Len(events), spec |-> spec, kept |-> kept]]

(* A generator is its seed and how much of its stream is used; the base    *)
(* generator is its position only.  set_base_prng_seed draws the seeds 1   *)
(* and 2, for recorded nonces and for tests, in every build.               *)
set_base_prng_seed == 2
sub_prng(n) == [seed |-> n + 1, pos |-> 0]

(* new_from_seed with a seed of the guest's: seed 0.                       *)
new_from_seed == [seed |-> 0, pos |-> 0]

(* bytes_new, u64_in_inclusive_range and vec_shuffle use up some of the    *)
(* stream.                                                                 *)
draw(g) == [g EXCEPT !.pos = @ + 1]

Init ==
    /\ tx \in Transactions
    /\ inst \in [Contracts -> {[exec |-> e, data |-> [k \in InstKeys |-> None]] : e \in Wasms}]
    /\ events = <<>> /\ base = set_base_prng_seed /\ err = "Ok"
    /\ spec = [c \in Contracts |-> inst[c].data]
    /\ kept = {} /\ draws = <<>>
    /\ stack = <<Frame(None, FALSE)>>

-----------------------------------------------------------------------------
(* call_n_internal: re-entry, the depth limit, and the push.               *)

OnStack(c) == \E i \in DOMAIN stack : stack[i].contract = c

ReentryProhibited(c) == ~OnStack(c)

ReentrySelfAllowed(c) ==
    \A i \in DOMAIN stack : stack[i].contract = c => i = Len(stack)

Enter(c, try) ==
    IF Len(stack) >= DepthLimit
    THEN /\ err' = IF try THEN "Ok" ELSE "ContextLimit"
         /\ UNCHANGED stack
    ELSE /\ stack' = Append(stack, Frame(c, try))
         /\ UNCHANGED err

(* A refused re-entry is a GuestError, or nothing under try_call.          *)
Call(c, try) ==
    /\ Running
    /\ Len(stack) = 1 => ~try
    /\ ReentryProhibited(c)
    /\ Enter(c, try)
    /\ UNCHANGED <<tx, inst, events, base, spec, kept, draws>>

(* require_auth of a contract account.                                     *)
CheckAuth(c) ==
    /\ InContract
    /\ c \in Wallets
    /\ ReentrySelfAllowed(c)
    /\ Enter(c, FALSE)
    /\ UNCHANGED <<tx, inst, events, base, spec, kept, draws>>

GuestError ==
    /\ InContract
    /\ err' = "ContractError"
    /\ UNCHANGED <<tx, inst, stack, events, base, spec, kept, draws>>

-----------------------------------------------------------------------------
(* Instance storage.                                                       *)

(* maybe_init_instance_storage: the copy the frame was created with.       *)
Loaded(f) == IF f.storage = None THEN [map |-> f.instance.data, modified |-> FALSE] ELSE f.storage

SetStorage(st) == stack' = [stack EXCEPT ![Len(stack)].storage = st]

GetInstanceData(k) ==
    /\ InContract
    /\ SetStorage(Loaded(Top))
    /\ err' = IF Loaded(Top).map[k] = None THEN "MissingValue" ELSE "Ok"
    /\ UNCHANGED <<tx, inst, events, base, spec, kept, draws>>

HasInstanceData ==
    /\ InContract
    /\ SetStorage(Loaded(Top))
    /\ UNCHANGED <<tx, inst, events, base, err, spec, kept, draws>>

(* put_contract_data, and del_contract_data with None.  A delete of what   *)
(* is not there modifies too.                                              *)
PutInstanceData(k, v) ==
    /\ InContract
    /\ SetStorage([map |-> [Loaded(Top).map EXCEPT ![k] = v], modified |-> TRUE])
    /\ spec' = [spec EXCEPT ![Top.contract][k] = v]
    /\ UNCHANGED <<tx, inst, events, base, err, kept, draws>>

(* update_current_contract_wasm: store_contract_instance with an           *)
(* executable and no storage, after a system event.                        *)
UpdateCurrentContractWasm(e) ==
    LET c == Top.contract IN
    /\ InContract
    /\ Len(events) < MaxEvents
    /\ events' = Append(events, TRUE)
    /\ kept' = kept \union {Len(events')}
    /\ IF c \in Fixed THEN err' = "StorageLimit" /\ UNCHANGED inst
       ELSE inst' = [inst EXCEPT ![c].exec = e] /\ UNCHANGED err
    /\ UNCHANGED <<tx, stack, base, spec, draws>>

ContractEvent ==
    /\ InContract
    /\ Len(events) < MaxEvents
    /\ events' = Append(events, TRUE)
    /\ kept' = kept \union {Len(events')}
    /\ UNCHANGED <<tx, inst, stack, base, err, spec, draws>>

(* with_current_prng: the first use in a frame seeds its generator from    *)
(* the base one.                                                           *)
current_prng == IF Top.prng = None THEN sub_prng(base) ELSE Top.prng

with_current_prng(g) ==
    /\ InContract
    /\ Top.prng = None => base - set_base_prng_seed < MaxDraws
    /\ stack' = [stack EXCEPT ![Len(stack)].prng = g]
    /\ base' = IF Top.prng = None THEN base + 1 ELSE base

(* prng_bytes_new, prng_u64_in_inclusive_range and prng_vec_shuffle.       *)
PrngDraw ==
    /\ Len(draws) < MaxDraws
    /\ with_current_prng(draw(current_prng))
    /\ draws' = Append(draws, current_prng)
    /\ UNCHANGED <<tx, inst, events, err, spec, kept>>

(* An empty range is refused once the generator is there.                  *)
PrngEmptyRange ==
    /\ with_current_prng(current_prng)
    /\ err' = "InvalidInput"
    /\ UNCHANGED <<tx, inst, events, spec, kept, draws>>

(* A seed of the right size replaces the generator the frame has just got. *)
PrngReseed ==
    /\ with_current_prng(new_from_seed)
    /\ UNCHANGED <<tx, inst, events, err, spec, kept, draws>>

-----------------------------------------------------------------------------
(* The end of with_frame.                                                  *)

Modified(f) == f.storage # None /\ f.storage.modified

(* Mutant: the flush writes back the instance the frame was created with.  *)
persist_whole_instance(f) ==
    [inst EXCEPT ![f.contract] = [f.instance EXCEPT !.data = f.storage.map]]

(* persist_instance_storage: the executable in storage is kept.            *)
persist_instance_storage(f) == [inst EXCEPT ![f.contract].data = f.storage.map]

PopOk ==
    /\ Running
    /\ Len(stack) > 1
    /\ IF Modified(Top) /\ Top.contract \in Fixed
       THEN err' = "StorageLimit" /\ UNCHANGED <<inst, stack>>
       ELSE /\ stack' = SubSeq(stack, 1, Len(stack) - 1)
            /\ inst' = IF Modified(Top) THEN persist_instance_storage(Top) ELSE inst
            /\ UNCHANGED err
    /\ UNCHANGED <<tx, events, base, spec, kept, draws>>

(* InternalEventsBuffer::rollback.                                         *)
(* Mutant: the last event before the call is marked too.                   *)
rollback_one_more(n) == [i \in DOMAIN events |-> events[i] /\ i < n]

rollback_events(n) == [i \in DOMAIN events |-> events[i] /\ i <= n]

(* The events that are reported, by their place in the buffer.             *)
encode_contract_events ==
    LET filtered[n \in 0..Len(events)] ==
            IF n = 0 THEN <<>>
            ELSE IF events[n] THEN Append(filtered[n - 1], n) ELSE filtered[n - 1]
    IN  filtered[Len(events)]

(* Mutant: the base generator is rolled back to what the frame found.      *)
PopFailedWithPrng ==
    LET f == Top IN
    /\ stack # <<>> /\ err # "Ok"
    /\ inst' = f.rp.inst
    /\ events' = rollback_events(f.rp.events)
    /\ base' = IF f.prng # None /\ f.prng.seed > 0 THEN f.prng.seed - 1 ELSE base
    /\ err' = IF f.try /\ Recoverable THEN "Ok" ELSE err
    /\ stack' = SubSeq(stack, 1, Len(stack) - 1)
    /\ spec' = f.rp.spec /\ kept' = f.rp.kept
    /\ UNCHANGED <<tx, draws>>

(* Mutant: instance storage is flushed whatever the outcome of the call.   *)
PopFailedFlushing ==
    LET f == Top IN
    /\ stack # <<>> /\ err # "Ok"
    /\ inst' = IF Modified(f) THEN [f.rp.inst EXCEPT ![f.contract].data = f.storage.map]
               ELSE f.rp.inst
    /\ events' = rollback_events(f.rp.events)
    /\ err' = IF f.try /\ Recoverable THEN "Ok" ELSE err
    /\ stack' = SubSeq(stack, 1, Len(stack) - 1)
    /\ spec' = f.rp.spec /\ kept' = f.rp.kept
    /\ UNCHANGED <<tx, base, draws>>

(* pop_context with the rollback point; the base PRNG is not part of it.   *)
PopFailed ==
    LET f == Top IN
    /\ stack # <<>> /\ err # "Ok"
    /\ inst' = f.rp.inst
    /\ events' = rollback_events(f.rp.events)
    /\ err' = IF f.try /\ Recoverable THEN "Ok" ELSE err
    /\ stack' = SubSeq(stack, 1, Len(stack) - 1)
    /\ spec' = f.rp.spec /\ kept' = f.rp.kept
    /\ UNCHANGED <<tx, base, draws>>

(* The host function returns. *)
PopHost ==
    /\ Running
    /\ Len(stack) = 1
    /\ stack' = <<>>
    /\ UNCHANGED <<tx, inst, events, base, err, spec, kept, draws>>

Over == stack = <<>> /\ UNCHANGED vars

Next ==
    \/ \E c \in Contracts : CheckAuth(c) \/ \E try \in BOOLEAN : Call(c, try)
    \/ \E k \in InstKeys : GetInstanceData(k) \/ \E v \in Vals \union {None} : PutInstanceData(k, v)
    \/ \E e \in Wasms : UpdateCurrentContractWasm(e)
    \/ HasInstanceData
    \/ ContractEvent
    \/ PrngDraw \/ PrngEmptyRange \/ PrngReseed
    \/ GuestError
    \/ PopOk
    \/ PopFailed
    \/ PopHost
    \/ Over

Spec == Init /\ [][Next]_vars

-----------------------------------------------------------------------------
(* Properties.                                                             *)

(* What the running code of contract c would read: the innermost frame's   *)
(* copy, or the entry in storage.                                          *)
View(c) ==
    LET S == {i \in DOMAIN stack : stack[i].contract = c}
    IN  IF S = {} THEN inst[c].data
        ELSE Loaded(stack[CHOOSE i \in S : \A j \in S : j <= i]).map

(* "Frames are also the units of (sub-)transactions" (frame.rs): instance  *)
(* storage, though copied into each frame and written back only when the   *)
(* frame ends, reads at every moment as if each write took effect at once  *)
(* and a failed call had never written - for every contract that is not    *)
(* re-entered.                                                             *)
InstanceIsTransactional ==
    \A c \in Contracts \ Wallets : View(c) = spec[c]

(* store_contract_instance(None, storage): flushing instance storage never *)
(* undoes an upgrade of the contract, whichever frame made it: a frame     *)
(* that returns leaves every executable alone.                             *)
FlushKeepsExecutable ==
    [][err = "Ok" /\ Len(stack') < Len(stack) =>
           \A c \in Contracts : inst'[c].exec = inst[c].exec]_vars

(* encode_contract_events: the events the embedder puts in the ledger are  *)
(* exactly those emitted while no running frame was going to fail, in the  *)
(* order they were emitted.                                                *)
EventsFollowFrames ==
    LET ce == encode_contract_events
    IN  /\ {ce[i] : i \in DOMAIN ce} = kept
        /\ \A i, j \in DOMAIN ce : i < j => ce[i] < ce[j]

(* with_current_prng: guests never see the same random numbers twice,      *)
(* nor any of the generator that recorded nonces come from - not in two    *)
(* frames, nor when a call has failed and is tried again - unless they     *)
(* chose the seed themselves.                                              *)
DrawsAreFresh ==
    \A i, j \in DOMAIN draws :
        draws[i].seed # 0 => /\ draws[i] = draws[j] => i = j
                            /\ draws[i].seed > set_base_prng_seed
=============================================================================
