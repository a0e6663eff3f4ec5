-------------------------- MODULE HostFramesProofs --------------------------
(***************************************************************************)
(* Theorems about HostFrames, for every set of contracts, contract         *)
(* accounts, keys, values and bounds.  Each property is proved from the    *)
(* types and an inductive invariant of its own, which says what a frame    *)
(* and its rollback point have to do with the frames below them.           *)
(***************************************************************************)
EXTENDS HostFrames, TLAPS, WellFoundedInduction

-----------------------------------------------------------------------------
(* Naturals and sequences.                                                 *)

(* A non-empty set of naturals has a least element: what inductions over   *)
(* data use, on the set of places where a claim would fail.                *)
LEMMA Least ==
    ASSUME NEW T, T \subseteq Nat, T # {}
    PROVE  \E n \in T : \A m \in T : n <= m
<1> DEFINE R == OpToRel(<, Nat)
<1>1. IsWellFoundedOn(R, Nat)
  BY NatLessThanWellFounded
<1> HIDE DEF R
<1>2. PICK x \in T : \A y \in T : ~(<<y, x>> \in R)
  BY <1>1, WFMin
<1>3. \A y \in T : ~(y < x)
  BY <1>2 DEF R, OpToRel
<1> QED BY <1>3

(* What appending an element leaves and adds.                              *)
LEMMA PushLast ==
    ASSUME NEW S, NEW q \in Seq(S), NEW e \in S
    PROVE  LET t == Append(q, e) IN
           /\ t \in Seq(S) /\ Len(t) = Len(q) + 1 /\ Len(q) \in Nat
           /\ \A i \in 1..Len(q) : t[i] = q[i]
           /\ t[Len(q) + 1] = e
  OBVIOUS

(* What replacing the last element leaves and changes.                     *)
LEMMA SetLast ==
    ASSUME NEW S, NEW q \in Seq(S), Len(q) > 0, NEW e \in S
    PROVE  LET t == [q EXCEPT ![Len(q)] = e] IN
           /\ t \in Seq(S) /\ Len(t) = Len(q) /\ Len(q) \in Nat
           /\ \A i \in 1..Len(q) : i # Len(q) => t[i] = q[i]
           /\ t[Len(q)] = e
  OBVIOUS

(* What removing the last element leaves.                                  *)
LEMMA DropLast ==
    ASSUME NEW S, NEW q \in Seq(S), Len(q) > 0
    PROVE  LET t == SubSeq(q, 1, Len(q) - 1) IN
           /\ t \in Seq(S) /\ Len(t) = Len(q) - 1 /\ Len(q) \in Nat
           /\ \A i \in 1..Len(t) : t[i] = q[i]
           /\ q[Len(q)] \in S
<1>1. Len(q) \in Nat /\ Len(q) \in 1..Len(q) /\ q[Len(q)] \in S
  OBVIOUS
<1>2. CASE Len(q) = 1
  BY <1>2
<1>3. CASE Len(q) > 1
  BY <1>3
<1>4. Len(q) = 1 \/ Len(q) > 1
  BY <1>1
<1> QED BY <1>2, <1>3, <1>4, Zenon

-----------------------------------------------------------------------------

(* The types, for the contracts and executables of a transaction x.        *)
InstanceOf(x) == [exec : x.wasms, data : Data]
Entries(x) == [x.contracts -> InstanceOf(x)]
SpecOf(x) == [x.contracts -> Data]
RollbackOf(x) == [inst : Entries(x), events : Nat, spec : SpecOf(x), kept : SUBSET Nat]
FrameOf(x) ==
    [contract : x.contracts \union {None}, try : BOOLEAN,
     storage : InstanceStorage \union {None}, prng : Prng \union {None},
     instance : InstanceOf(x) \union {None}, rp : RollbackOf(x)]

Errors == {"Ok", "ContextLimit", "ContractError", "MissingValue", "StorageLimit", "InvalidInput"}

(* A frame runs a contract, with its instance, unless it is the first.     *)
TypeOK ==
    /\ tx \in Transactions
    /\ inst \in Entries(tx)
    /\ stack \in Seq(FrameOf(tx))
    /\ \A i \in 1..Len(stack) :
           i > 1 => stack[i].contract \in tx.contracts /\ stack[i].instance \in InstanceOf(tx)
    /\ Len(stack) > 0 => stack[1].contract = None
    /\ events \in Seq(BOOLEAN)
    /\ base \in Nat /\ base >= set_base_prng_seed
    /\ err \in Errors
    /\ spec \in SpecOf(tx)
    /\ kept \in SUBSET Nat
    /\ draws \in Seq(Prng)

(* Every rollback point knows how many events there were and which of them *)
(* stood, and these have not been touched since.                           *)
EventsInv ==
    /\ kept = {i \in 1..Len(events) : events[i]}
    /\ \A m \in 1..Len(stack) :
           /\ stack[m].rp.events <= Len(events)
           /\ stack[m].rp.kept = {i \in 1..stack[m].rp.events : events[i]}
           /\ \A n \in 1..Len(stack) : n <= m => stack[n].rp.events <= stack[m].rp.events

(* The seeds guests get from the base generator are above its first two    *)
(* and not above base; no two frames hold the same one, and whatever was   *)
(* drawn from a frame's seed lies before the frame's position.             *)
SeedOK(g) == g.seed <= base /\ (g.seed # 0 => g.seed > set_base_prng_seed)

PrngInv ==
    /\ \A i \in 1..Len(stack) : stack[i].prng # None => SeedOK(stack[i].prng)
    /\ \A i \in 1..Len(draws) : SeedOK(draws[i])
    /\ \A i, j \in 1..Len(stack) :
           stack[i].prng # None /\ stack[j].prng # None /\ stack[i].prng.seed # 0
             /\ stack[i].prng.seed = stack[j].prng.seed => i = j
    /\ \A i \in 1..Len(stack), d \in 1..Len(draws) :
           stack[i].prng # None /\ stack[i].prng.seed # 0 /\ stack[i].prng.seed = draws[d].seed
             => draws[d].pos < stack[i].prng.pos
    /\ \A d, e \in 1..Len(draws) : draws[d].seed # 0 /\ draws[d] = draws[e] => d = e

(* The instance entries and the instance data in force when the frame n    *)
(* was the innermost one: what frame n + 1 rolls back to, or the present.  *)
InstAt(n) == IF n < Len(stack) THEN stack[n + 1].rp.inst ELSE inst
SpecAt(n) == IF n < Len(stack) THEN stack[n + 1].rp.spec ELSE spec

(* Of the frames 1..n of the stack q: c's entry is the one its frame was   *)
(* created with, and the frame's copy is what a transactional store would  *)
(* hold; without a frame, the entry holds that.                            *)
Held(q, n, c, entries, data) ==
    /\ \A i \in 1..n : q[i].contract = c =>
           /\ entries[c].data = q[i].instance.data
           /\ data[c] = Loaded(q[i]).map
    /\ (\A i \in 1..n : q[i].contract # c) => entries[c].data = data[c]

(* A contract that is not an account has at most one frame, and is held to *)
(* this at each depth.                                                     *)
InstanceInv ==
    /\ \A i, j \in 1..Len(stack) :
           stack[i].contract = stack[j].contract /\ stack[i].contract \notin tx.wallets => i = j
    /\ \A i \in 2..Len(stack) :
           stack[i].storage # None /\ ~stack[i].storage.modified
             => stack[i].storage.map = stack[i].instance.data
    /\ \A n \in 0..Len(stack), c \in tx.contracts \ tx.wallets :
           Held(stack, n, c, InstAt(n), SpecAt(n))

-----------------------------------------------------------------------------
(* The shape of the stack after each kind of step.                         *)

(* A new frame: it runs c with the entry in storage, has no copy of the    *)
(* instance storage and no generator, and can be rolled back to the        *)
(* present.                                                                *)
Pushed(c) ==
    /\ Len(stack') = Len(stack) + 1
    /\ \A i \in 1..Len(stack) : stack'[i] = stack[i]
    /\ LET f == stack'[Len(stack) + 1] IN
       /\ f.contract = c /\ f.storage = None /\ f.prng = None /\ f.instance = inst[c]
       /\ f.rp.inst = inst /\ f.rp.spec = spec /\ f.rp.kept = kept /\ f.rp.events = Len(events)

(* The innermost frame keeps its contract, instance and rollback point,    *)
(* and the others are untouched.                                           *)
TopChanged ==
    /\ Len(stack') = Len(stack) /\ Len(stack) > 1
    /\ \A i \in 1..Len(stack) :
           /\ i # Len(stack) => stack'[i] = stack[i]
           /\ stack'[i].contract = stack[i].contract
           /\ stack'[i].instance = stack[i].instance
           /\ stack'[i].rp = stack[i].rp

Popped ==
    /\ Len(stack) > 0 /\ Len(stack') = Len(stack) - 1
    /\ \A i \in 1..Len(stack') : stack'[i] = stack[i]

(* The types of what an action may leave alone.                            *)
LEMMA NewFrame ==
    ASSUME TypeOK, NEW c \in tx.contracts, NEW try \in BOOLEAN
    PROVE  /\ Frame(c, try) \in FrameOf(tx)
           /\ Frame(c, try).contract = c /\ Frame(c, try).instance = inst[c]
           /\ inst[c] \in InstanceOf(tx)
<1>1. inst[c] \in InstanceOf(tx) /\ c # None
  BY HostFramesAssumption DEF TypeOK, Entries
<1>2. [inst |-> inst, events |-> Len(events), spec |-> spec, kept |-> kept] \in RollbackOf(tx)
  BY DEF TypeOK, RollbackOf
<1> QED BY <1>1, <1>2 DEF Frame, FrameOf

(* call_n_internal pushes a frame or leaves the stack alone.               *)
LEMMA EnterShape ==
    ASSUME TypeOK, NEW c \in tx.contracts, NEW try \in BOOLEAN, Enter(c, try), stack # <<>>,
           UNCHANGED <<tx, inst, events, base, spec, kept, draws>>
    PROVE  TypeOK' /\ (stack' = stack \/ Pushed(c))
<1> DEFINE f == Frame(c, try)
<1>0. /\ f \in FrameOf(tx) /\ f.contract = c /\ f.instance \in InstanceOf(tx)
      /\ f.storage = None /\ f.prng = None /\ f.instance = inst[c]
      /\ f.rp = [inst |-> inst, events |-> Len(events), spec |-> spec, kept |-> kept]
  BY NewFrame DEF Frame
<1>1. stack \in Seq(FrameOf(tx)) /\ Len(stack) > 0 /\ Len(stack) \in Nat
  BY DEF TypeOK
<1> HIDE DEF f
<1>2. CASE Len(stack) >= DepthLimit
  BY <1>2 DEF Enter, TypeOK, Errors
<1>3. CASE ~(Len(stack) >= DepthLimit)
  <2>1. stack' = Append(stack, f) /\ err' = err
    BY <1>3 DEF Enter, f
  <2>2. /\ stack' \in Seq(FrameOf(tx)) /\ Len(stack') = Len(stack) + 1
        /\ \A i \in 1..Len(stack) : stack'[i] = stack[i]
        /\ stack'[Len(stack) + 1] = f
    BY <2>1, <1>0, <1>1, PushLast
  <2>3. Pushed(c)
    BY <2>2, <1>0 DEF Pushed
  <2>4. \A i \in 1..Len(stack') :
           i > 1 => stack'[i].contract \in tx.contracts /\ stack'[i].instance \in InstanceOf(tx)
    BY <2>2, <1>0, <1>1 DEF TypeOK
  <2>5. stack'[1].contract = None
    BY <2>2, <1>1 DEF TypeOK
  <2> QED BY <2>1, <2>2, <2>3, <2>4, <2>5 DEF TypeOK
<1> QED BY <1>2, <1>3

(* A step that changes only the innermost frame's copy of the instance     *)
(* storage or its generator.                                               *)
LEMMA TopShape ==
    ASSUME TypeOK, Len(stack) > 1, NEW f \in FrameOf(tx),
           f.contract = Top.contract, f.instance = Top.instance, f.rp = Top.rp,
           stack' = [stack EXCEPT ![Len(stack)] = f], UNCHANGED tx
    PROVE  /\ TopChanged /\ stack' \in Seq(FrameOf(tx))
           /\ stack'[Len(stack)] = f
           /\ \A i \in 1..Len(stack') :
                i > 1 => stack'[i].contract \in tx.contracts /\ stack'[i].instance \in InstanceOf(tx)
           /\ stack'[1].contract = None
<1>1. stack \in Seq(FrameOf(tx)) /\ Len(stack) \in Nat
  BY DEF TypeOK
<1>2. /\ stack' \in Seq(FrameOf(tx)) /\ Len(stack') = Len(stack)
      /\ \A i \in 1..Len(stack) : i # Len(stack) => stack'[i] = stack[i]
      /\ stack'[Len(stack)] = f
  BY <1>1, SetLast
<1>3. TopChanged
  BY <1>1, <1>2 DEF TopChanged, Top
<1>4. \A i \in 1..Len(stack') :
        i > 1 => stack'[i].contract \in tx.contracts /\ stack'[i].instance \in InstanceOf(tx)
  BY <1>1, <1>2, <1>3 DEF TopChanged, TypeOK
<1>5. 1 \in 1..Len(stack) /\ Len(stack) > 0
  BY <1>1
<1>6. stack'[1].contract = None
  BY <1>3, <1>5 DEF TypeOK, TopChanged
<1> QED BY <1>2, <1>3, <1>4, <1>6

(* A step that removes the innermost frame.                                *)
LEMMA PopShape ==
    ASSUME TypeOK, Len(stack) > 0, stack' = SubSeq(stack, 1, Len(stack) - 1), UNCHANGED tx
    PROVE  /\ Popped /\ stack' \in Seq(FrameOf(tx))
           /\ \A i \in 1..Len(stack') :
                i > 1 => stack'[i].contract \in tx.contracts /\ stack'[i].instance \in InstanceOf(tx)
           /\ Len(stack') > 0 => stack'[1].contract = None
<1>1. stack \in Seq(FrameOf(tx)) /\ Len(stack) \in Nat
  BY DEF TypeOK
<1>2. /\ stack' \in Seq(FrameOf(tx)) /\ Len(stack') = Len(stack) - 1
      /\ \A i \in 1..Len(stack') : stack'[i] = stack[i]
  BY <1>1, DropLast
<1> QED BY <1>1, <1>2 DEF Popped, TypeOK

(* maybe_init_instance_storage copies the instance the frame has.          *)
LEMMA LoadedType ==
    ASSUME TypeOK, Len(stack) > 1
    PROVE  /\ Loaded(Top) \in InstanceStorage /\ Top \in FrameOf(tx)
           /\ Top.instance \in InstanceOf(tx) /\ Top.contract \in tx.contracts
           /\ Len(stack) \in 1..Len(stack) /\ Len(stack) \in Nat
<1>1. /\ Top \in FrameOf(tx) /\ Top.instance \in InstanceOf(tx) /\ Top.contract \in tx.contracts
      /\ Len(stack) \in 1..Len(stack) /\ Len(stack) \in Nat
  BY DEF TypeOK, Top
<1>2. Top.storage \in InstanceStorage \union {None} /\ Top.instance.data \in Data
  BY <1>1 DEF FrameOf, InstanceOf
<1>3. Top.storage = None => Loaded(Top) \in InstanceStorage
  BY <1>2 DEF Loaded, InstanceStorage
<1>4. Top.storage # None => Loaded(Top) \in InstanceStorage
  BY <1>2 DEF Loaded
<1> QED BY <1>1, <1>3, <1>4

(* A write to the innermost frame's instance storage.                      *)
LEMMA StorageShape ==
    ASSUME TypeOK, Len(stack) > 1, NEW st \in InstanceStorage, SetStorage(st), UNCHANGED tx
    PROVE  /\ TopChanged /\ stack' \in Seq(FrameOf(tx))
           /\ \A i \in 1..Len(stack') :
                i > 1 => stack'[i].contract \in tx.contracts /\ stack'[i].instance \in InstanceOf(tx)
           /\ stack'[1].contract = None
           /\ stack'[Len(stack)].storage = st
           /\ \A i \in 1..Len(stack) : stack'[i].prng = stack[i].prng
<1> DEFINE f == [Top EXCEPT !.storage = st]
<1>1. Top \in FrameOf(tx) /\ Len(stack) \in 1..Len(stack)
  BY LoadedType
<1>2. /\ f \in FrameOf(tx) /\ f.contract = Top.contract /\ f.instance = Top.instance
      /\ f.rp = Top.rp /\ f.storage = st /\ f.prng = Top.prng
  BY <1>1 DEF FrameOf
<1>3. stack' = [stack EXCEPT ![Len(stack)] = f]
  BY DEF SetStorage, Top
<1> HIDE DEF f
<1>4. /\ TopChanged /\ stack' \in Seq(FrameOf(tx))
      /\ stack'[Len(stack)] = f
      /\ \A i \in 1..Len(stack') :
           i > 1 => stack'[i].contract \in tx.contracts /\ stack'[i].instance \in InstanceOf(tx)
      /\ stack'[1].contract = None
  BY <1>2, <1>3, TopShape
<1>5. \A i \in 1..Len(stack) : stack'[i].prng = stack[i].prng
  BY <1>2, <1>4 DEF TopChanged, Top
<1> QED BY <1>2, <1>4, <1>5

(* What with_current_prng leaves.                                          *)
LEMMA PrngShape ==
    ASSUME TypeOK, NEW g \in Prng, with_current_prng(g), UNCHANGED tx
    PROVE  /\ TopChanged /\ stack' \in Seq(FrameOf(tx))
           /\ \A i \in 1..Len(stack') :
                i > 1 => stack'[i].contract \in tx.contracts /\ stack'[i].instance \in InstanceOf(tx)
           /\ stack'[1].contract = None
           /\ stack'[Len(stack)].prng = g
           /\ \A i \in 1..Len(stack) : stack'[i].storage = stack[i].storage
           /\ base' \in Nat /\ base' >= set_base_prng_seed
<1> DEFINE f == [Top EXCEPT !.prng = g]
<1>0. Len(stack) > 1
  BY DEF with_current_prng, InContract
<1>1. Top \in FrameOf(tx) /\ Len(stack) \in 1..Len(stack)
  BY <1>0, LoadedType
<1>2. /\ f \in FrameOf(tx) /\ f.contract = Top.contract /\ f.instance = Top.instance
      /\ f.rp = Top.rp /\ f.prng = g /\ f.storage = Top.storage
  BY <1>1 DEF FrameOf
<1>3. stack' = [stack EXCEPT ![Len(stack)] = f]
  BY DEF with_current_prng, Top
<1> HIDE DEF f
<1>4. /\ TopChanged /\ stack' \in Seq(FrameOf(tx))
      /\ stack'[Len(stack)] = f
      /\ \A i \in 1..Len(stack') :
           i > 1 => stack'[i].contract \in tx.contracts /\ stack'[i].instance \in InstanceOf(tx)
      /\ stack'[1].contract = None
  BY <1>0, <1>2, <1>3, TopShape
<1>5. \A i \in 1..Len(stack) : stack'[i].storage = stack[i].storage
  BY <1>2, <1>4 DEF TopChanged, Top
<1>6. base' \in Nat /\ base' >= set_base_prng_seed
  BY DEF with_current_prng, TypeOK, set_base_prng_seed
<1> QED BY <1>2, <1>4, <1>5, <1>6

(* The generators are generators.                                          *)
LEMMA PrngType ==
    ASSUME TypeOK, Len(stack) > 1
    PROVE  current_prng \in Prng /\ draw(current_prng) \in Prng /\ new_from_seed \in Prng
<1>1. Top.prng \in Prng \union {None}
  BY LoadedType DEF FrameOf
<1>2. current_prng \in Prng
  BY <1>1 DEF current_prng, sub_prng, TypeOK, Prng
<1> QED BY <1>2 DEF draw, new_from_seed, Prng

-----------------------------------------------------------------------------
(* Type correctness.                                                       *)

(* The host function's frame is well typed.                                *)
LEMMA InitType == Init => TypeOK
<1> SUFFICES ASSUME Init PROVE TypeOK
  OBVIOUS
<1>1. tx \in Transactions /\ events = <<>> /\ base = 2 /\ err = "Ok" /\ kept = {} /\ draws = <<>>
  BY DEF Init, set_base_prng_seed
<1>2. [k \in InstKeys |-> None] \in Data
  BY DEF Data
<1>3. inst \in Entries(tx)
  BY <1>2 DEF Init, Entries, InstanceOf, Contracts, Wasms
<1>4. spec \in SpecOf(tx)
  BY <1>3 DEF Init, SpecOf, Entries, InstanceOf, Contracts
<1>5. [inst |-> inst, events |-> Len(events), spec |-> spec, kept |-> kept] \in RollbackOf(tx)
  BY <1>1, <1>3, <1>4 DEF RollbackOf
<1> DEFINE f == Frame(None, FALSE)
<1>6. stack = <<f>> /\ f \in FrameOf(tx) /\ f.contract = None
  BY <1>5 DEF Init, Frame, FrameOf
<1> HIDE DEF f
<1>7. stack \in Seq(FrameOf(tx)) /\ Len(stack) = 1 /\ stack[1].contract = None
  BY <1>6
<1> QED BY <1>1, <1>3, <1>4, <1>7 DEF TypeOK, Errors, set_base_prng_seed

(* Every action preserves the types.                                       *)
LEMMA StepType == TypeOK /\ [Next]_vars => TypeOK'
<1> SUFFICES ASSUME TypeOK, [Next]_vars PROVE TypeOK'
  OBVIOUS
<1>1. ASSUME NEW c \in Contracts, CheckAuth(c) PROVE TypeOK'
  BY <1>1, EnterShape DEF CheckAuth, InContract, Running, Contracts
<1>2. ASSUME NEW c \in Contracts, NEW try \in BOOLEAN, Call(c, try) PROVE TypeOK'
  BY <1>2, EnterShape DEF Call, Running, Contracts
<1>3. ASSUME NEW k \in InstKeys, GetInstanceData(k) PROVE TypeOK'
  <2>1. Len(stack) > 1 /\ UNCHANGED <<tx, inst, events, base, spec, kept, draws>> /\ err' \in Errors
        /\ SetStorage(Loaded(Top))
    BY <1>3 DEF GetInstanceData, InContract, Errors
  <2> QED BY <2>1, LoadedType, StorageShape DEF TypeOK, TopChanged
<1>4. ASSUME NEW k \in InstKeys, NEW v \in Vals \union {None}, PutInstanceData(k, v) PROVE TypeOK'
  <2> DEFINE st == [map |-> [Loaded(Top).map EXCEPT ![k] = v], modified |-> TRUE]
  <2>1. Len(stack) > 1 /\ UNCHANGED <<tx, inst, events, base, err, kept, draws>> /\ SetStorage(st)
        /\ spec' = [spec EXCEPT ![Top.contract][k] = v]
    BY <1>4 DEF PutInstanceData, InContract
  <2>2. st \in InstanceStorage
    BY <2>1, LoadedType DEF InstanceStorage, Data
  <2>3. spec' \in SpecOf(tx)
    BY <2>1, LoadedType DEF SpecOf, Data, TypeOK
  <2> HIDE DEF st
  <2> QED BY <2>1, <2>2, <2>3, StorageShape DEF TypeOK, TopChanged
<1>5. ASSUME NEW e \in Wasms, UpdateCurrentContractWasm(e) PROVE TypeOK'
  <2>1. Len(stack) > 1 /\ UNCHANGED <<tx, stack, base, spec, draws>>
        /\ events' = Append(events, TRUE) /\ kept' = kept \union {Len(events')}
        /\ (inst' = inst \/ inst' = [inst EXCEPT ![Top.contract].exec = e])
        /\ err' \in {err, "StorageLimit"}
    BY <1>5 DEF UpdateCurrentContractWasm, InContract
  <2>2. inst' \in Entries(tx)
    <3>1. inst \in Entries(tx) /\ Top.contract \in tx.contracts /\ e \in tx.wasms
      BY <2>1, LoadedType DEF TypeOK, Wasms
    <3>2. [inst EXCEPT ![Top.contract].exec = e] \in Entries(tx)
      BY <3>1 DEF Entries, InstanceOf
    <3> QED BY <2>1, <3>1, <3>2
  <2>3. events' \in Seq(BOOLEAN) /\ Len(events') \in Nat
    BY <2>1 DEF TypeOK
  <2> QED BY <2>1, <2>2, <2>3 DEF TypeOK, Errors
<1>6. CASE HasInstanceData
  <2>1. Len(stack) > 1 /\ UNCHANGED <<tx, inst, events, base, err, spec, kept, draws>>
        /\ SetStorage(Loaded(Top))
    BY <1>6 DEF HasInstanceData, InContract
  <2> QED BY <2>1, LoadedType, StorageShape DEF TypeOK, TopChanged
<1>7. CASE ContractEvent
  <2>1. UNCHANGED <<tx, inst, stack, base, err, spec, draws>>
        /\ events' = Append(events, TRUE) /\ kept' = kept \union {Len(events')}
    BY <1>7 DEF ContractEvent
  <2>2. events' \in Seq(BOOLEAN) /\ Len(events') \in Nat
    BY <2>1 DEF TypeOK
  <2> QED BY <2>1, <2>2 DEF TypeOK
<1>8. CASE PrngDraw
  <2>1. Len(stack) > 1 /\ UNCHANGED <<tx, inst, events, err, spec, kept>>
        /\ with_current_prng(draw(current_prng)) /\ draws' = Append(draws, current_prng)
    BY <1>8 DEF PrngDraw, with_current_prng, InContract
  <2>2. draws' \in Seq(Prng)
    BY <2>1, PrngType DEF TypeOK
  <2> QED BY <2>1, <2>2, PrngType, PrngShape DEF TypeOK, TopChanged
<1>9. CASE PrngEmptyRange
  <2>1. Len(stack) > 1 /\ UNCHANGED <<tx, inst, events, spec, kept, draws>> /\ err' \in Errors
        /\ with_current_prng(current_prng)
    BY <1>9 DEF PrngEmptyRange, with_current_prng, InContract, Errors
  <2> QED BY <2>1, PrngType, PrngShape DEF TypeOK, TopChanged
<1>10. CASE PrngReseed
  <2>1. Len(stack) > 1 /\ UNCHANGED <<tx, inst, events, err, spec, kept, draws>>
        /\ with_current_prng(new_from_seed)
    BY <1>10 DEF PrngReseed, with_current_prng, InContract
  <2> QED BY <2>1, PrngType, PrngShape DEF TypeOK, TopChanged
<1>11. CASE GuestError
  BY <1>11 DEF GuestError, TypeOK, Errors
<1>12. CASE PopOk
  <2>1. Len(stack) > 1 /\ Len(stack) > 0 /\ UNCHANGED <<tx, events, base, spec, kept, draws>>
    BY <1>12 DEF PopOk, TypeOK
  <2>2. CASE err' = "StorageLimit" /\ UNCHANGED <<inst, stack>>
    BY <2>1, <2>2 DEF TypeOK, Errors
  <2>3. CASE /\ stack' = SubSeq(stack, 1, Len(stack) - 1)
             /\ inst' = IF Modified(Top) THEN persist_instance_storage(Top) ELSE inst
             /\ UNCHANGED err
    <3>1. inst' \in Entries(tx)
      <4>1. CASE Modified(Top)
        <5>1. Top.storage \in InstanceStorage /\ Top.contract \in tx.contracts
          BY <2>1, <4>1, LoadedType DEF Modified, FrameOf
        <5>2. inst' = [inst EXCEPT ![Top.contract].data = Top.storage.map]
          BY <2>3, <4>1 DEF persist_instance_storage
        <5> QED BY <5>1, <5>2 DEF TypeOK, Entries, InstanceOf, InstanceStorage
      <4>2. CASE ~Modified(Top)
        BY <2>3, <4>2 DEF TypeOK
      <4> QED BY <4>1, <4>2
    <3> QED BY <2>1, <2>3, <3>1, PopShape DEF TypeOK
  <2> QED BY <1>12, <2>2, <2>3 DEF PopOk
<1>13. CASE PopFailed
  <2>1. /\ Len(stack) > 0 /\ UNCHANGED <<tx, base, draws>>
        /\ inst' = Top.rp.inst /\ spec' = Top.rp.spec /\ kept' = Top.rp.kept
        /\ events' = rollback_events(Top.rp.events) /\ err' \in {"Ok", err}
        /\ stack' = SubSeq(stack, 1, Len(stack) - 1)
    BY <1>13 DEF PopFailed, TypeOK
  <2>2. Top \in FrameOf(tx)
    BY <2>1, DropLast DEF TypeOK, Top
  <2>3. Top.rp \in RollbackOf(tx)
    BY <2>2 DEF FrameOf
  <2>4. events' \in Seq(BOOLEAN)
    <3>1. DOMAIN events = 1..Len(events) /\ Len(events) \in Nat
      BY DEF TypeOK
    <3>2. events' = [i \in 1..Len(events) |-> events[i] /\ i <= Top.rp.events]
      BY <2>1, <3>1 DEF rollback_events
    <3> QED BY <3>1, <3>2
  <2> QED BY <2>1, <2>3, <2>4, PopShape DEF TypeOK, RollbackOf, Errors
<1>14. CASE PopHost
  BY <1>14 DEF PopHost, TypeOK
<1>15. CASE Over
  BY <1>15 DEF Over, TypeOK, vars
<1>16. CASE UNCHANGED vars
  BY <1>16 DEF TypeOK, vars
<1> QED BY <1>1, <1>2, <1>3, <1>4, <1>5, <1>6, <1>7, <1>8, <1>9, <1>10, <1>11, <1>12, <1>13,
           <1>14, <1>15, <1>16 DEF Next

(* Every state of the frame machine is well typed: the frames, their       *)
(* rollback points and generators, and the entries they were made from.    *)
THEOREM FramesTyped == Spec => []TypeOK
  BY InitType, StepType, PTL DEF Spec

-----------------------------------------------------------------------------
(* Events.                                                                 *)

(* A step that keeps the events and the rollback points it leaves on the   *)
(* stack keeps their relation.                                             *)
LEMMA EventsIdle ==
    ASSUME EventsInv, UNCHANGED <<events, kept>>,
           \A m \in 1..Len(stack') : m \in 1..Len(stack) /\ stack'[m].rp = stack[m].rp
    PROVE  EventsInv'
BY DEF EventsInv

(* A rollback point holds a length of the event buffer.                    *)
LEMMA RollbackType ==
    ASSUME TypeOK, NEW m \in 1..Len(stack)
    PROVE  stack[m] \in FrameOf(tx) /\ stack[m].rp \in RollbackOf(tx) /\ stack[m].rp.events \in Nat
<1>1. stack[m] \in FrameOf(tx)
  BY DEF TypeOK
<1>2. stack[m].rp \in RollbackOf(tx)
  BY <1>1 DEF FrameOf
<1> QED BY <1>1, <1>2 DEF RollbackOf

(* A new frame can be rolled back to the present.                          *)
LEMMA EventsPushed ==
    ASSUME TypeOK, EventsInv, NEW c, Pushed(c), UNCHANGED <<events, kept>>
    PROVE  EventsInv'
<1>1. Len(stack) \in Nat /\ Len(events) \in Nat
  BY DEF TypeOK
<1>2. \A m \in 1..Len(stack') :
          \/ m \in 1..Len(stack) /\ stack'[m] = stack[m]
          \/ /\ m = Len(stack) + 1
             /\ stack'[m].rp.events = Len(events) /\ stack'[m].rp.kept = kept
  BY <1>1 DEF Pushed
<1>3. \A m \in 1..Len(stack') :
          /\ stack'[m].rp.events <= Len(events)
          /\ stack'[m].rp.kept = {i \in 1..stack'[m].rp.events : events[i]}
  BY <1>1, <1>2 DEF EventsInv
<1>4. \A m, n \in 1..Len(stack') : n <= m => stack'[n].rp.events <= stack'[m].rp.events
  BY <1>1, <1>2, <1>3 DEF EventsInv, Pushed
<1> QED BY <1>3, <1>4 DEF EventsInv

(* A new event stands until its frame fails.                               *)
LEMMA EventsAppended ==
    ASSUME TypeOK, EventsInv, events' = Append(events, TRUE),
           kept' = kept \union {Len(events')}, UNCHANGED stack
    PROVE  EventsInv'
<1>1. /\ Len(events) \in Nat /\ Len(events') = Len(events) + 1
      /\ \A i \in 1..Len(events) : events'[i] = events[i]
      /\ events'[Len(events) + 1] = TRUE
  BY DEF TypeOK
<1>2. kept' = {i \in 1..Len(events') : events'[i]}
  BY <1>1 DEF EventsInv
<1>3. ASSUME NEW m \in 1..Len(stack)
      PROVE  /\ stack[m].rp.events <= Len(events')
             /\ stack[m].rp.kept = {i \in 1..stack[m].rp.events : events'[i]}
  <2>1. stack[m].rp.events \in Nat /\ stack[m].rp.events <= Len(events)
    BY RollbackType DEF EventsInv
  <2> QED BY <2>1, <1>1 DEF EventsInv
<1> QED BY <1>2, <1>3 DEF EventsInv

(* rollback_events takes back what the failed call added, and nothing the  *)
(* callers' rollback points count.                                         *)
LEMMA EventsRolledBack ==
    ASSUME TypeOK, EventsInv, Len(stack) > 0, Popped,
           events' = rollback_events(Top.rp.events), kept' = Top.rp.kept
    PROVE  EventsInv'
<1> DEFINE r == Top.rp.events
<1>1. /\ Len(stack) \in Nat /\ Len(stack) \in 1..Len(stack) /\ Len(events) \in Nat
      /\ DOMAIN events = 1..Len(events)
  BY DEF TypeOK
<1>2. r \in Nat /\ r <= Len(events) /\ kept' = {i \in 1..r : events[i]}
  BY <1>1, RollbackType DEF EventsInv, Top
<1>3. events' = [i \in 1..Len(events) |-> events[i] /\ i <= r]
  BY <1>1 DEF rollback_events
<1> HIDE DEF r
<1>4. Len(events') = Len(events)
  BY <1>1, <1>3
<1>5. kept' = {i \in 1..Len(events') : events'[i]}
  <2>1. \A i \in 1..Len(events) : events'[i] <=> events[i] /\ i <= r
    BY <1>3
  <2>2. \A i : i \in 1..r <=> i \in 1..Len(events) /\ i <= r
    BY <1>1, <1>2
  <2> QED BY <2>1, <2>2, <1>2, <1>4
<1>6. ASSUME NEW m \in 1..Len(stack')
      PROVE  /\ stack'[m].rp.events <= Len(events')
             /\ stack'[m].rp.kept = {i \in 1..stack'[m].rp.events : events'[i]}
             /\ \A n \in 1..Len(stack') : n <= m => stack'[n].rp.events <= stack'[m].rp.events
  <2>1. m \in 1..Len(stack) /\ m <= Len(stack) /\ stack'[m] = stack[m]
    BY <1>1 DEF Popped
  <2>2. stack[m].rp.events \in Nat /\ stack[m].rp.events <= r
    BY <2>1, <1>1, RollbackType DEF EventsInv, Top, r
  <2>3. \A i \in 1..stack[m].rp.events : events'[i] = events[i]
    BY <2>2, <1>1, <1>2, <1>3 DEF TypeOK
  <2>4. stack[m].rp.kept = {i \in 1..stack[m].rp.events : events'[i]}
    BY <2>1, <2>3 DEF EventsInv
  <2>5. \A n \in 1..Len(stack') : n <= m => stack'[n].rp.events <= stack'[m].rp.events
    BY <2>1, <1>1 DEF EventsInv, Popped
  <2> QED BY <2>1, <2>2, <2>4, <2>5, <1>1, <1>2, <1>4
<1> QED BY <1>5, <1>6 DEF EventsInv

-----------------------------------------------------------------------------
(* The kinds of steps, as the invariants see them.                         *)

(* Only the error may change.                                              *)
IdleStep == UNCHANGED <<tx, inst, stack, events, base, spec, kept, draws>>

(* call_n_internal; only a contract account is entered while it runs.      *)
PushStep(c) ==
    /\ Pushed(c) /\ c \in tx.contracts
    /\ c \notin tx.wallets => \A i \in 1..Len(stack) : stack[i].contract # c
    /\ UNCHANGED <<tx, inst, events, base, spec, kept, draws>>

(* Instance storage: Top's copy becomes st, and the specification follows. *)
StorageStep(st) ==
    /\ TopChanged /\ st \in InstanceStorage
    /\ stack'[Len(stack)].storage = st
    /\ \A i \in 1..Len(stack) : stack'[i].prng = stack[i].prng
    /\ \/ st = Loaded(Top) /\ spec' = spec
       \/ \E k \in InstKeys, v \in Vals \union {None} :
             /\ st = [map |-> [Loaded(Top).map EXCEPT ![k] = v], modified |-> TRUE]
             /\ spec' = [spec EXCEPT ![Top.contract][k] = v]
    /\ UNCHANGED <<tx, inst, events, base, kept, draws>>

(* An event, and an upgrade of the running contract if it makes one.       *)
EventStep ==
    /\ events' = Append(events, TRUE) /\ kept' = kept \union {Len(events')}
    /\ \A c \in tx.contracts : inst'[c].data = inst[c].data
    /\ UNCHANGED <<tx, stack, base, spec, draws>>

(* Top's generator becomes g, from the one it has or a new one.            *)
PrngStep(g) ==
    /\ TopChanged /\ g \in Prng
    /\ stack'[Len(stack)].prng = g
    /\ \A i \in 1..Len(stack) : stack'[i].storage = stack[i].storage
    /\ base' = IF Top.prng = None THEN base + 1 ELSE base
    /\ \/ g = draw(current_prng) /\ draws' = Append(draws, current_prng)
       \/ g \in {current_prng, new_from_seed} /\ draws' = draws
    /\ UNCHANGED <<tx, inst, events, spec, kept>>

(* A frame ends well: what it changed in its copy is written back.         *)
ReturnStep ==
    /\ Popped
    /\ inst' = IF Len(stack) > 1 /\ Modified(Top) THEN persist_instance_storage(Top) ELSE inst
    /\ UNCHANGED <<tx, events, base, spec, kept, draws>>

(* A frame fails.                                                          *)
FailStep ==
    /\ Popped /\ err # "Ok"
    /\ inst' = Top.rp.inst /\ spec' = Top.rp.spec /\ kept' = Top.rp.kept
    /\ events' = rollback_events(Top.rp.events)
    /\ UNCHANGED <<tx, base, draws>>

Step ==
    \/ IdleStep
    \/ \E c \in tx.contracts : PushStep(c)
    \/ \E st \in InstanceStorage : StorageStep(st)
    \/ EventStep
    \/ \E g \in Prng : PrngStep(g)
    \/ ReturnStep
    \/ FailStep

(* Every action is one of these.                                           *)
LEMMA Steps == TypeOK /\ [Next]_vars => Step
<1> SUFFICES ASSUME TypeOK, [Next]_vars PROVE Step
  OBVIOUS
<1> USE DEF Step
<1>0. DOMAIN stack = 1..Len(stack) /\ Len(stack) \in Nat
  BY DEF TypeOK
<1>1. ASSUME NEW c \in Contracts, CheckAuth(c) PROVE Step
  <2>1. stack' = stack \/ Pushed(c)
    BY <1>1, EnterShape DEF CheckAuth, InContract, Running, Contracts
  <2>2. c \in tx.wallets /\ c \in tx.contracts
    BY <1>1 DEF CheckAuth, Wallets, Contracts
  <2> QED BY <1>1, <2>1, <2>2 DEF CheckAuth, IdleStep, PushStep
<1>2. ASSUME NEW c \in Contracts, NEW try \in BOOLEAN, Call(c, try) PROVE Step
  <2>1. stack' = stack \/ Pushed(c)
    BY <1>2, EnterShape DEF Call, Running, Contracts
  <2>2. \A i \in 1..Len(stack) : stack[i].contract # c
    BY <1>0, <1>2 DEF Call, ReentryProhibited, OnStack
  <2>3. c \in tx.contracts
    BY DEF Contracts
  <2> QED BY <1>2, <2>1, <2>2, <2>3 DEF Call, IdleStep, PushStep
<1>3. ASSUME NEW k \in InstKeys, GetInstanceData(k) PROVE Step
  <2>1. Len(stack) > 1 /\ SetStorage(Loaded(Top))
        /\ UNCHANGED <<tx, inst, events, base, spec, kept, draws>>
    BY <1>3 DEF GetInstanceData, InContract
  <2> QED BY <2>1, LoadedType, StorageShape DEF StorageStep
<1>4. ASSUME NEW k \in InstKeys, NEW v \in Vals \union {None}, PutInstanceData(k, v) PROVE Step
  <2> DEFINE st == [map |-> [Loaded(Top).map EXCEPT ![k] = v], modified |-> TRUE]
  <2>1. Len(stack) > 1 /\ UNCHANGED <<tx, inst, events, base, err, kept, draws>> /\ SetStorage(st)
        /\ spec' = [spec EXCEPT ![Top.contract][k] = v]
    BY <1>4 DEF PutInstanceData, InContract
  <2>2. st \in InstanceStorage
    BY <2>1, LoadedType DEF InstanceStorage, Data
  <2>3. st = [map |-> [Loaded(Top).map EXCEPT ![k] = v], modified |-> TRUE]
    OBVIOUS
  <2> HIDE DEF st
  <2>4. StorageStep(st)
    BY <2>1, <2>2, <2>3, StorageShape DEF StorageStep
  <2> QED BY <2>2, <2>4
<1>5. ASSUME NEW e \in Wasms, UpdateCurrentContractWasm(e) PROVE Step
  <2>1. Len(stack) > 1 /\ UNCHANGED <<tx, stack, base, spec, draws>>
        /\ events' = Append(events, TRUE) /\ kept' = kept \union {Len(events')}
        /\ (inst' = inst \/ inst' = [inst EXCEPT ![Top.contract].exec = e])
    BY <1>5 DEF UpdateCurrentContractWasm, InContract
  <2>2. \A c \in tx.contracts : inst'[c].data = inst[c].data
    <3>1. inst \in Entries(tx) /\ Top.contract \in tx.contracts
      BY <2>1, LoadedType DEF TypeOK
    <3>2. \A c \in tx.contracts : [inst EXCEPT ![Top.contract].exec = e][c].data = inst[c].data
      BY <3>1 DEF Entries, InstanceOf
    <3> QED BY <2>1, <3>2
  <2> QED BY <2>1, <2>2 DEF EventStep
<1>6. CASE HasInstanceData
  <2>1. Len(stack) > 1 /\ UNCHANGED <<tx, inst, events, base, err, spec, kept, draws>>
        /\ SetStorage(Loaded(Top))
    BY <1>6 DEF HasInstanceData, InContract
  <2> QED BY <2>1, LoadedType, StorageShape DEF StorageStep
<1>7. CASE ContractEvent
  BY <1>7 DEF ContractEvent, EventStep
<1>8. CASE PrngDraw
  <2>1. Len(stack) > 1 /\ UNCHANGED <<tx, inst, events, err, spec, kept>>
        /\ with_current_prng(draw(current_prng)) /\ draws' = Append(draws, current_prng)
    BY <1>8 DEF PrngDraw, with_current_prng, InContract
  <2> QED BY <2>1, PrngType, PrngShape DEF PrngStep, with_current_prng
<1>9. CASE PrngEmptyRange
  <2>1. Len(stack) > 1 /\ UNCHANGED <<tx, inst, events, spec, kept, draws>>
        /\ with_current_prng(current_prng)
    BY <1>9 DEF PrngEmptyRange, with_current_prng, InContract
  <2> QED BY <2>1, PrngType, PrngShape DEF PrngStep, with_current_prng
<1>10. CASE PrngReseed
  <2>1. Len(stack) > 1 /\ UNCHANGED <<tx, inst, events, err, spec, kept, draws>>
        /\ with_current_prng(new_from_seed)
    BY <1>10 DEF PrngReseed, with_current_prng, InContract
  <2> QED BY <2>1, PrngType, PrngShape DEF PrngStep, with_current_prng
<1>11. CASE GuestError
  BY <1>11 DEF GuestError, IdleStep
<1>12. CASE PopOk
  <2>1. Len(stack) > 1 /\ Len(stack) > 0 /\ UNCHANGED <<tx, events, base, spec, kept, draws>>
    BY <1>0, <1>12 DEF PopOk
  <2>2. CASE UNCHANGED <<inst, stack>>
    BY <2>1, <2>2 DEF IdleStep
  <2>3. CASE /\ stack' = SubSeq(stack, 1, Len(stack) - 1)
             /\ inst' = IF Modified(Top) THEN persist_instance_storage(Top) ELSE inst
    BY <2>1, <2>3, PopShape DEF ReturnStep
  <2> QED BY <1>12, <2>2, <2>3 DEF PopOk
<1>13. CASE PopFailed
  BY <1>0, <1>13, PopShape DEF PopFailed, FailStep
<1>14. CASE PopHost
  BY <1>0, <1>14 DEF PopHost, ReturnStep, Popped
<1>15. CASE Over
  BY <1>15 DEF Over, IdleStep, vars
<1>16. CASE UNCHANGED vars
  BY <1>16 DEF IdleStep, vars
<1> QED BY <1>1, <1>2, <1>3, <1>4, <1>5, <1>6, <1>7, <1>8, <1>9, <1>10, <1>11, <1>12, <1>13,
           <1>14, <1>15, <1>16 DEF Next

-----------------------------------------------------------------------------
(* What encode_contract_events computes.  The induction over the buffer    *)
(* takes the least place where the claim would fail.                       *)

(* g[m] is what the filter has collected of e after m events, up to n.     *)
Filters(e, g, n) ==
    g = [m \in 0..n |-> IF m = 0 THEN <<>>
                        ELSE IF e[m] THEN Append(g[m - 1], m) ELSE g[m - 1]]

(* The filter terminates: there is such a g for every length.              *)
LEMMA FilterExists ==
    ASSUME NEW e, NEW n \in Nat
    PROVE  \E g : Filters(e, g, n)
<1> DEFINE T == {m \in Nat : ~\E g : Filters(e, g, m)}
<1>1. SUFFICES ASSUME T # {} PROVE FALSE
  OBVIOUS
<1>2. PICK m \in T : \A i \in T : m <= i
  BY <1>1, Least
<1>3. CASE m = 0
  <2>1. Filters(e, [i \in 0..0 |-> <<>>], 0)
    BY DEF Filters
  <2> QED BY <1>2, <1>3, <2>1
<1>4. CASE m # 0
  <2>1. m - 1 \in Nat /\ m - 1 \notin T
    BY <1>2, <1>4
  <2>2. PICK g : Filters(e, g, m - 1)
    BY <2>1
  <2> DEFINE h == [i \in 0..m |-> IF i = m THEN IF e[m] THEN Append(g[m - 1], m) ELSE g[m - 1]
                                  ELSE g[i]]
  <2>3. \A i \in 0..(m - 1) : h[i] = g[i]
    BY <2>1
  <2>4. \A i \in 0..m : h[i] = IF i = 0 THEN <<>>
                               ELSE IF e[i] THEN Append(h[i - 1], i) ELSE h[i - 1]
    <3>1. ASSUME NEW i \in 0..(m - 1)
          PROVE  h[i] = IF i = 0 THEN <<>> ELSE IF e[i] THEN Append(h[i - 1], i) ELSE h[i - 1]
      <4>1. g[i] = IF i = 0 THEN <<>> ELSE IF e[i] THEN Append(g[i - 1], i) ELSE g[i - 1]
        BY <2>2 DEF Filters
      <4>2. h[i] = g[i] /\ (i # 0 => h[i - 1] = g[i - 1])
        BY <2>3, <2>1
      <4> HIDE DEF h
      <4> QED BY <4>1, <4>2
    <3>2. h[m] = IF e[m] THEN Append(h[m - 1], m) ELSE h[m - 1]
      <4>1. h[m - 1] = g[m - 1] /\ h[m] = IF e[m] THEN Append(g[m - 1], m) ELSE g[m - 1]
        BY <2>1
      <4> HIDE DEF h
      <4> QED BY <4>1
    <3>3. \A i \in 0..m : i \in 0..(m - 1) \/ i = m
      BY <2>1
    <3> HIDE DEF h
    <3> QED BY <3>1, <3>2, <3>3, <1>4
  <2>5. h = [i \in 0..m |-> h[i]]
    OBVIOUS
  <2> HIDE DEF h
  <2>6. Filters(e, h, m)
    BY <2>4, <2>5 DEF Filters
  <2> QED BY <1>2, <2>6
<1> QED BY <1>3, <1>4

(* It collects the places that hold TRUE, in increasing order.             *)
LEMMA FilterCollects ==
    ASSUME NEW e \in Seq(BOOLEAN), NEW g, Filters(e, g, Len(e)), NEW m \in 0..Len(e)
    PROVE  /\ g[m] \in Seq(1..m)
           /\ \A i \in 1..m : e[i] <=> \E p \in 1..Len(g[m]) : g[m][p] = i
           /\ \A p, q \in 1..Len(g[m]) : p < q => g[m][p] < g[m][q]
<1> DEFINE P(j) == /\ g[j] \in Seq(1..j)
                   /\ \A i \in 1..j : e[i] <=> \E p \in 1..Len(g[j]) : g[j][p] = i
                   /\ \A p, q \in 1..Len(g[j]) : p < q => g[j][p] < g[j][q]
           T == {j \in 0..Len(e) : ~P(j)}
<1>0. Len(e) \in Nat
  OBVIOUS
<1>1. SUFFICES ASSUME T # {} PROVE FALSE
  OBVIOUS
<1>2. T \subseteq Nat
  BY <1>0
<1>3. PICK j \in T : \A i \in T : j <= i
  BY <1>1, <1>2, Least
<1>4. j \in 0..Len(e) /\ ~P(j)
  OBVIOUS
<1> HIDE DEF P
<1>5. ASSUME NEW i \in 0..Len(e), i < j PROVE P(i)
  <2>1. i \notin T
    BY <1>0, <1>3, <1>4, <1>5
  <2> QED BY <2>1
<1> HIDE DEF T
<1> USE DEF P
<1>6. g[j] = IF j = 0 THEN <<>> ELSE IF e[j] THEN Append(g[j - 1], j) ELSE g[j - 1]
  BY <1>4 DEF Filters
<1>7. CASE j = 0
  <2>1. g[j] = <<>>
    BY <1>6, <1>7
  <2> QED BY <2>1, <1>4, <1>7
<1>8. CASE j # 0
  <2> DEFINE i == j - 1
             s == g[i]
  <2>1. i \in Nat /\ i \in 0..Len(e) /\ i < j /\ j = i + 1 /\ j \in Nat
    BY <1>0, <1>4, <1>8
  <2>2. P(i)
    BY <2>1, <1>5
  <2>3. /\ s \in Seq(1..i) /\ Len(s) \in Nat
        /\ \A x \in 1..i : e[x] <=> \E p \in 1..Len(s) : s[p] = x
        /\ \A p, q \in 1..Len(s) : p < q => s[p] < s[q]
    BY <2>2
  <2>5. g[j] = IF e[j] THEN Append(s, j) ELSE s
    BY <1>6, <1>8
  <2>6. \A x \in 1..j : x \in 1..i \/ x = j
    BY <2>1
  <2> HIDE DEF s, i
  <2>4. \A p \in 1..Len(s) : s[p] \in 1..i
    <3> DEFINE S == 1..i
    <3>1. s \in Seq(S)
      BY <2>3
    <3> HIDE DEF S
    <3>2. \A p \in 1..Len(s) : s[p] \in S
      BY <3>1
    <3> QED BY <3>2 DEF S
  <2>7. CASE e[j]
    <3> DEFINE t == Append(s, j)
    <3>1. g[j] = t
      BY <2>5, <2>7
    <3>2. s \in Seq(1..j) /\ j \in 1..j
      BY <2>1, <2>3, <2>4
    <3>3. /\ t \in Seq(1..j) /\ Len(t) = Len(s) + 1
          /\ \A p \in 1..Len(s) : t[p] = s[p]
          /\ t[Len(s) + 1] = j
      BY <3>2, <2>3
    <3> HIDE DEF t
    <3>0. \A p \in 1..Len(t) : p \in 1..Len(s) \/ p = Len(s) + 1
      BY <3>3, <2>3
    <3>4. \A x \in 1..j : e[x] <=> \E p \in 1..Len(t) : t[p] = x
      <4>1. ASSUME NEW x \in 1..i PROVE e[x] <=> \E p \in 1..Len(t) : t[p] = x
        <5>1. x # j
          BY <2>1
        <5>2. \A p \in 1..Len(s) : p \in 1..Len(t)
          BY <3>3, <2>3
        <5>3. (\E p \in 1..Len(t) : t[p] = x) <=> \E p \in 1..Len(s) : s[p] = x
          BY <3>0, <3>3, <5>1, <5>2
        <5> QED BY <5>3, <2>3
      <4>2. Len(t) \in 1..Len(t) /\ t[Len(t)] = j
        BY <3>3, <2>3
      <4> QED BY <4>1, <4>2, <2>6, <2>7
    <3>5. ASSUME NEW p \in 1..Len(t), NEW q \in 1..Len(t), p < q PROVE t[p] < t[q]
      <4>1. p \in 1..Len(s)
        BY <3>0, <3>3, <3>5, <2>3
      <4>2. CASE q \in 1..Len(s)
        BY <4>1, <4>2, <3>3, <3>5, <2>3
      <4>3. CASE q = Len(s) + 1
        BY <4>1, <4>3, <3>3, <2>1, <2>4
      <4> QED BY <4>2, <4>3, <3>0
    <3> QED BY <3>1, <3>3, <3>4, <3>5, <1>4
  <2>8. CASE ~e[j]
    <3>1. g[j] = s
      BY <2>5, <2>8
    <3>2. s \in Seq(1..j)
      BY <2>1, <2>3, <2>4
    <3>3. \A x \in 1..j : e[x] <=> \E p \in 1..Len(s) : s[p] = x
      BY <2>1, <2>3, <2>4, <2>6, <2>8
    <3> QED BY <3>1, <3>2, <3>3, <2>3, <1>4
  <2> QED BY <2>7, <2>8
<1> QED BY <1>7, <1>8

(* encode_contract_events is that filter applied to the whole buffer.      *)
LEMMA EncodeFilters ==
    ASSUME TypeOK
    PROVE  \E g : Filters(events, g, Len(events)) /\ encode_contract_events = g[Len(events)]
<1> DEFINE F == CHOOSE g : Filters(events, g, Len(events))
<1>1. Len(events) \in Nat
  BY DEF TypeOK
<1>2. Filters(events, F, Len(events))
  BY <1>1, FilterExists
<1>3. encode_contract_events = F[Len(events)]
  BY DEF encode_contract_events, Filters
<1> QED BY <1>2, <1>3

(* The reported events are the ones marked as standing, in order.          *)
LEMMA EncodeCollects ==
    ASSUME TypeOK, EventsInv
    PROVE  EventsFollowFrames
<1> DEFINE ce == encode_contract_events
<1>1. PICK g : Filters(events, g, Len(events)) /\ ce = g[Len(events)]
  BY EncodeFilters
<1>2. events \in Seq(BOOLEAN) /\ Len(events) \in Nat /\ Len(events) \in 0..Len(events)
  BY DEF TypeOK
<1> HIDE DEF ce
<1>3. /\ ce \in Seq(1..Len(events))
      /\ \A i \in 1..Len(events) : events[i] <=> \E p \in 1..Len(ce) : ce[p] = i
      /\ \A p, q \in 1..Len(ce) : p < q => ce[p] < ce[q]
  BY <1>1, <1>2, FilterCollects
<1>4. DOMAIN ce = 1..Len(ce) /\ \A p \in 1..Len(ce) : ce[p] \in 1..Len(events)
  <2> DEFINE S == 1..Len(events)
  <2>1. ce \in Seq(S)
    BY <1>3
  <2> HIDE DEF S
  <2>2. DOMAIN ce = 1..Len(ce) /\ \A p \in 1..Len(ce) : ce[p] \in S
    BY <2>1
  <2> QED BY <2>2 DEF S
<1>5. {ce[i] : i \in DOMAIN ce} = kept
  <2>1. kept = {i \in 1..Len(events) : events[i]}
    BY DEF EventsInv
  <2>2. \A x : x \in kept <=> x \in 1..Len(events) /\ \E p \in 1..Len(ce) : ce[p] = x
    BY <2>1, <1>3
  <2>3. \A x : x \in kept <=> \E p \in DOMAIN ce : x = ce[p]
    BY <2>2, <1>4
  <2> QED BY <2>3
<1> QED BY <1>3, <1>4, <1>5 DEF EventsFollowFrames, ce

(* At the start there are no events to roll back to.                       *)
LEMMA InitEvents == Init => EventsInv
<1> SUFFICES ASSUME Init PROVE EventsInv
  OBVIOUS
<1> DEFINE f == Frame(None, FALSE)
<1>1. events = <<>> /\ kept = {} /\ stack = <<f>> /\ Len(events) = 0
  BY DEF Init
<1>2. f.rp.events = 0 /\ f.rp.kept = {}
  BY <1>1 DEF Frame
<1> HIDE DEF f
<1>3. Len(stack) = 1 /\ stack[1] = f
  BY <1>1
<1> QED BY <1>1, <1>2, <1>3 DEF EventsInv

(* Every step keeps the events and the rollback points in agreement.       *)
LEMMA StepEvents == TypeOK /\ EventsInv /\ Step => EventsInv'
<1> SUFFICES ASSUME TypeOK, EventsInv, Step PROVE EventsInv'
  OBVIOUS
<1>0. Len(stack) \in Nat
  BY DEF TypeOK
<1>1. CASE IdleStep
  BY <1>1, EventsIdle DEF IdleStep
<1>2. ASSUME NEW c \in tx.contracts, PushStep(c) PROVE EventsInv'
  BY <1>2, EventsPushed DEF PushStep
<1>3. ASSUME NEW st \in InstanceStorage, StorageStep(st) PROVE EventsInv'
  BY <1>3, EventsIdle DEF StorageStep, TopChanged
<1>4. CASE EventStep
  BY <1>4, EventsAppended DEF EventStep
<1>5. ASSUME NEW g \in Prng, PrngStep(g) PROVE EventsInv'
  BY <1>5, EventsIdle DEF PrngStep, TopChanged
<1>6. CASE ReturnStep
  BY <1>0, <1>6, EventsIdle DEF ReturnStep, Popped
<1>7. CASE FailStep
  BY <1>7, EventsRolledBack DEF FailStep, Popped
<1> QED BY <1>1, <1>2, <1>3, <1>4, <1>5, <1>6, <1>7 DEF Step

(* The events the embedder puts in the ledger are exactly those emitted    *)
(* while no running frame was going to fail, in the order of emission,     *)
(* however deep calls nest and whichever of them fail.                     *)
THEOREM EventsCorrect == Spec => []EventsFollowFrames
<1>1. Init => TypeOK /\ EventsInv
  BY InitType, InitEvents
<1>2. TypeOK /\ EventsInv /\ [Next]_vars => (TypeOK /\ EventsInv)'
  BY StepType, StepEvents, Steps
<1>3. TypeOK /\ EventsInv => EventsFollowFrames
  BY EncodeCollects
<1> QED BY <1>1, <1>2, <1>3, PTL DEF Spec

-----------------------------------------------------------------------------
(* Generators.                                                             *)

(* The generators of the frames, where they have one, are generators.      *)
LEMMA HeldPrng ==
    ASSUME TypeOK
    PROVE  /\ \A i \in 1..Len(stack) : stack[i].prng # None => stack[i].prng \in Prng
           /\ \A d \in 1..Len(draws) : draws[d] \in Prng
           /\ None \notin Prng
<1>1. \A i \in 1..Len(stack) : stack[i] \in FrameOf(tx)
  BY DEF TypeOK
<1> QED BY <1>1, HostFramesAssumption DEF FrameOf, TypeOK

(* A step that draws nothing and seeds nothing, and leaves on the stack    *)
(* generators that were there.                                             *)
LEMMA PrngIdle ==
    ASSUME PrngInv, UNCHANGED <<base, draws>>,
           \A i \in 1..Len(stack') : stack'[i].prng # None =>
               i \in 1..Len(stack) /\ stack'[i].prng = stack[i].prng
    PROVE  PrngInv'
<1>1. \A g : SeedOK(g)' <=> SeedOK(g)
  BY DEF SeedOK
<1> QED BY <1>1 DEF PrngInv, SeedOK

(* with_current_prng: a new generator has a seed nobody has had; an old    *)
(* one only moves forward, past what is drawn.                             *)
LEMMA PrngUsed ==
    ASSUME TypeOK, PrngInv, NEW g \in Prng, PrngStep(g)
    PROVE  PrngInv'
<1> DEFINE n == Len(stack)
           o == current_prng
<1>0. /\ n \in Nat /\ n \in 1..n /\ n > 1 /\ base \in Nat /\ base >= 2 /\ Len(draws) \in Nat
      /\ Len(stack') = n /\ Top = stack[n]
  BY DEF PrngStep, TopChanged, TypeOK, Top, set_base_prng_seed
<1>1. o \in Prng /\ o.seed \in Nat /\ o.pos \in Nat /\ g.seed \in Nat /\ g.pos \in Nat
  BY <1>0, PrngType DEF Prng
<1>2. base' \in Nat /\ base' >= base
  BY <1>0 DEF PrngStep
<1>3. \A i \in 1..n : i # n => stack'[i].prng = stack[i].prng
  BY DEF PrngStep, TopChanged
<1>4. /\ \A i \in 1..n : stack[i].prng # None => stack[i].prng.seed \in Nat /\ stack[i].prng.pos \in Nat
      /\ \A d \in 1..Len(draws) : draws[d].seed \in Nat /\ draws[d].pos \in Nat
      /\ None \notin Prng
  BY HeldPrng DEF Prng
<1>5. /\ o.seed <= base' /\ (o.seed # 0 => o.seed > 2)
      /\ \A i \in 1..n : i # n /\ stack[i].prng # None /\ o.seed # 0 => stack[i].prng.seed # o.seed
      /\ \A d \in 1..Len(draws) : o.seed # 0 /\ draws[d].seed = o.seed => draws[d].pos < o.pos
  <2>1. CASE Top.prng = None
    <3>1. o.seed = base + 1 /\ base' = base + 1
      BY <1>0, <2>1 DEF current_prng, sub_prng, PrngStep
    <3>2. /\ \A i \in 1..n : stack[i].prng # None => stack[i].prng.seed <= base
          /\ \A d \in 1..Len(draws) : draws[d].seed <= base
      BY DEF PrngInv, SeedOK
    <3> HIDE DEF o
    <3> QED BY <3>1, <3>2, <1>0, <1>4
  <2>2. CASE Top.prng # None
    <3>1. o = stack[n].prng /\ stack[n].prng # None /\ base' = base
      BY <1>0, <2>2 DEF current_prng, PrngStep
    <3> HIDE DEF o
    <3> QED BY <3>1, <1>0 DEF PrngInv, SeedOK, set_base_prng_seed
  <2> QED BY <2>1, <2>2
<1>6. stack'[n].prng = g /\ g # None
  BY <1>4 DEF PrngStep
<1>7. \/ g.seed = o.seed /\ g.pos = o.pos + 1 /\ draws' = Append(draws, o)
      \/ g.seed = o.seed /\ g.pos = o.pos /\ draws' = draws
      \/ g.seed = 0 /\ draws' = draws
  BY <1>1 DEF PrngStep, draw, new_from_seed, Prng
<1> HIDE DEF o
<1>8. \A d \in 1..Len(draws') :
          \/ d \in 1..Len(draws) /\ draws'[d] = draws[d]
          \/ d = Len(draws) + 1 /\ draws'[d] = o /\ g.seed = o.seed /\ g.pos = o.pos + 1
  <2>1. CASE draws' = draws
    BY <2>1
  <2>2. CASE g.seed = o.seed /\ g.pos = o.pos + 1 /\ draws' = Append(draws, o)
    <3>1. /\ Len(draws') = Len(draws) + 1 /\ draws'[Len(draws) + 1] = o
          /\ \A d \in 1..Len(draws) : draws'[d] = draws[d]
      BY <2>2, <1>1, PushLast DEF TypeOK
    <3> QED BY <2>2, <3>1, <1>0
  <2> QED BY <2>1, <2>2, <1>7
<1>9. \A i \in 1..n : stack'[i].prng # None =>
          stack'[i].prng.seed <= base' /\ (stack'[i].prng.seed # 0 => stack'[i].prng.seed > 2)
  <2>1. \A i \in 1..n : stack[i].prng # None =>
          stack[i].prng.seed <= base /\ (stack[i].prng.seed # 0 => stack[i].prng.seed > 2)
    BY DEF PrngInv, SeedOK, set_base_prng_seed
  <2>2. g.seed <= base' /\ (g.seed # 0 => g.seed > 2)
    BY <1>1, <1>2, <1>5, <1>7
  <2> QED BY <2>1, <2>2, <1>0, <1>2, <1>3, <1>4, <1>6
<1>10. \A d \in 1..Len(draws') : draws'[d].seed <= base' /\ (draws'[d].seed # 0 => draws'[d].seed > 2)
  <2>1. \A d \in 1..Len(draws) : draws[d].seed <= base /\ (draws[d].seed # 0 => draws[d].seed > 2)
    BY DEF PrngInv, SeedOK, set_base_prng_seed
  <2> TAKE d \in 1..Len(draws')
  <2>2. CASE d \in 1..Len(draws) /\ draws'[d] = draws[d]
    <3>1. draws[d].seed \in Nat /\ draws[d].seed <= base /\ (draws[d].seed # 0 => draws[d].seed > 2)
      BY <2>1, <2>2, <1>4
    <3> QED BY <3>1, <2>2, <1>0, <1>2
  <2>3. CASE draws'[d] = o
    BY <2>3, <1>5
  <2> QED BY <2>2, <2>3, <1>8
<1>11. ASSUME NEW i \in 1..n, NEW j \in 1..n, stack'[i].prng # None, stack'[j].prng # None,
              stack'[i].prng.seed # 0, stack'[i].prng.seed = stack'[j].prng.seed
       PROVE  i = j
  <2>1. \A a \in 1..n : a # n /\ stack[a].prng # None /\ g.seed # 0 => stack[a].prng.seed # g.seed
    BY <1>5, <1>7
  <2> QED BY <2>1, <1>3, <1>6, <1>11 DEF PrngInv
<1>12. ASSUME NEW i \in 1..n, NEW d \in 1..Len(draws'), stack'[i].prng # None,
              stack'[i].prng.seed # 0, stack'[i].prng.seed = draws'[d].seed
       PROVE  draws'[d].pos < stack'[i].prng.pos
  <2>1. CASE i = n
    <3>1. g.seed # 0 /\ g.seed = draws'[d].seed /\ stack'[i].prng = g
      BY <2>1, <1>6, <1>12
    <3>2. g.seed = o.seed /\ (g.pos = o.pos + 1 \/ g.pos = o.pos)
      BY <3>1, <1>7
    <3>3. CASE d \in 1..Len(draws) /\ draws'[d] = draws[d]
      <4>1. draws[d].pos < o.pos /\ draws[d].pos \in Nat
        BY <3>1, <3>2, <3>3, <1>4, <1>5
      <4> QED BY <4>1, <3>1, <3>2, <3>3, <1>1
    <3>4. CASE draws'[d] = o /\ g.pos = o.pos + 1
      BY <3>1, <3>4, <1>1
    <3> QED BY <3>3, <3>4, <1>8
  <2>2. CASE i # n
    BY <2>2, <1>3, <1>5, <1>8, <1>12 DEF PrngInv
  <2> QED BY <2>1, <2>2
<1>13. ASSUME NEW d \in 1..Len(draws'), NEW e \in 1..Len(draws'),
              draws'[d].seed # 0, draws'[d] = draws'[e]
       PROVE  d = e
  <2>1. \A a \in 1..Len(draws) : o.seed # 0 => draws[a] # o
    BY <1>1, <1>4, <1>5
  <2> QED BY <2>1, <1>8, <1>13 DEF PrngInv
<1>14. \A i, j \in 1..Len(stack') :
         stack'[i].prng # None /\ stack'[j].prng # None /\ stack'[i].prng.seed # 0
           /\ stack'[i].prng.seed = stack'[j].prng.seed => i = j
  BY <1>0, <1>11
<1>15. \A i \in 1..Len(stack'), d \in 1..Len(draws') :
         stack'[i].prng # None /\ stack'[i].prng.seed # 0 /\ stack'[i].prng.seed = draws'[d].seed
           => draws'[d].pos < stack'[i].prng.pos
  BY <1>0, <1>12
<1> HIDE DEF n
<1> QED BY <1>0, <1>9, <1>10, <1>13, <1>14, <1>15 DEF PrngInv, SeedOK, set_base_prng_seed

(* At the start no frame has a generator.                                  *)
LEMMA InitPrng == Init => PrngInv
<1> SUFFICES ASSUME Init PROVE PrngInv
  OBVIOUS
<1> DEFINE f == Frame(None, FALSE)
<1>1. Len(draws) = 0 /\ stack = <<f>>
  BY DEF Init
<1>2. f.prng = None
  BY DEF Frame
<1> HIDE DEF f
<1>3. Len(stack) = 1 /\ stack[1] = f
  BY <1>1
<1> QED BY <1>1, <1>2, <1>3 DEF PrngInv

(* Every step keeps the seeds apart.                                       *)
LEMMA StepPrng == TypeOK /\ PrngInv /\ Step => PrngInv'
<1> SUFFICES ASSUME TypeOK, PrngInv, Step PROVE PrngInv'
  OBVIOUS
<1>0. Len(stack) \in Nat
  BY DEF TypeOK
<1>1. CASE IdleStep
  BY <1>1, PrngIdle DEF IdleStep
<1>2. ASSUME NEW c \in tx.contracts, PushStep(c) PROVE PrngInv'
  <2>1. \A i \in 1..Len(stack') : i \in 1..Len(stack) \/ i = Len(stack) + 1
    BY <1>0, <1>2 DEF PushStep, Pushed
  <2> QED BY <1>2, <2>1, PrngIdle DEF PushStep, Pushed
<1>3. ASSUME NEW st \in InstanceStorage, StorageStep(st) PROVE PrngInv'
  BY <1>3, PrngIdle DEF StorageStep, TopChanged
<1>4. CASE EventStep
  BY <1>4, PrngIdle DEF EventStep
<1>5. ASSUME NEW g \in Prng, PrngStep(g) PROVE PrngInv'
  BY <1>5, PrngUsed
<1>6. CASE ReturnStep
  BY <1>0, <1>6, PrngIdle DEF ReturnStep, Popped
<1>7. CASE FailStep
  BY <1>0, <1>7, PrngIdle DEF FailStep, Popped
<1> QED BY <1>1, <1>2, <1>3, <1>4, <1>5, <1>6, <1>7 DEF Step

(* Guests never see the same random numbers twice, nor those that recorded *)
(* nonces come from, unless they chose the seed: not in two frames, and    *)
(* not when a call failed and is tried again.                              *)
THEOREM DrawsFresh == Spec => []DrawsAreFresh
<1>1. Init => TypeOK /\ PrngInv
  BY InitType, InitPrng
<1>2. TypeOK /\ PrngInv /\ [Next]_vars => (TypeOK /\ PrngInv)'
  BY StepType, StepPrng, Steps
<1>3. TypeOK /\ PrngInv => DrawsAreFresh
  BY DEF TypeOK, PrngInv, DrawsAreFresh, SeedOK
<1> QED BY <1>1, <1>2, <1>3, PTL DEF Spec

-----------------------------------------------------------------------------
(* Instance storage.                                                       *)

(* Held looks at the first n frames only.                                  *)
LEMMA HeldSame ==
    ASSUME NEW q, NEW r, NEW n, \A i \in 1..n : q[i] = r[i],
           NEW c, NEW entries, NEW data, Held(q, n, c, entries, data)
    PROVE  Held(r, n, c, entries, data)
BY DEF Held

(* A step that leaves the stack and the data of every entry alone.         *)
LEMMA InstanceIdle ==
    ASSUME TypeOK, InstanceInv, UNCHANGED <<tx, stack, spec>>,
           \A c \in tx.contracts : inst'[c].data = inst[c].data
    PROVE  InstanceInv'
<1>1. ASSUME NEW n \in 0..Len(stack), NEW c \in tx.contracts \ tx.wallets
      PROVE  Held(stack, n, c, InstAt(n), SpecAt(n))'
  <2>1. InstAt(n)'[c].data = InstAt(n)[c].data /\ SpecAt(n)' = SpecAt(n)
    BY DEF InstAt, SpecAt
  <2>2. Held(stack, n, c, InstAt(n), SpecAt(n))
    BY DEF InstanceInv
  <2> QED BY <2>1, <2>2 DEF Held
<1> QED BY <1>1 DEF InstanceInv

(* A new frame: what it was created with is what the store holds, since no *)
(* other frame runs the contract.                                          *)
LEMMA InstancePushed ==
    ASSUME TypeOK, InstanceInv, NEW c \in tx.contracts, PushStep(c)
    PROVE  InstanceInv'
<1>0. /\ Len(stack) \in Nat /\ Len(stack') = Len(stack) + 1
      /\ \A i \in 1..Len(stack) : stack'[i] = stack[i]
      /\ \A i \in 1..Len(stack') : i \in 1..Len(stack) \/ i = Len(stack) + 1
      /\ UNCHANGED <<tx, inst, spec>>
  BY DEF TypeOK, PushStep, Pushed
<1> DEFINE N == Len(stack) + 1
           f == stack'[N]
<1>1. /\ f.contract = c /\ f.storage = None /\ f.instance = inst[c]
      /\ f.rp.inst = inst /\ f.rp.spec = spec
  BY DEF PushStep, Pushed
<1>2. c \notin tx.wallets => \A i \in 1..Len(stack) : stack[i].contract # c
  BY DEF PushStep
<1>3. \A i, j \in 1..Len(stack') :
        stack'[i].contract = stack'[j].contract /\ stack'[i].contract \notin tx.wallets => i = j
  BY <1>0, <1>1, <1>2 DEF InstanceInv
<1>4. \A i \in 2..Len(stack') :
        stack'[i].storage # None /\ ~stack'[i].storage.modified
          => stack'[i].storage.map = stack'[i].instance.data
  BY <1>0, <1>1 DEF InstanceInv
<1>5. ASSUME NEW n \in 0..Len(stack'), NEW d \in tx.contracts \ tx.wallets
      PROVE  Held(stack, n, d, InstAt(n), SpecAt(n))'
  <2>1. CASE n \in 0..Len(stack)
    <3>1. InstAt(n)' = InstAt(n) /\ SpecAt(n)' = SpecAt(n)
      BY <2>1, <1>0, <1>1 DEF InstAt, SpecAt
    <3>2. Held(stack, n, d, InstAt(n), SpecAt(n))
      BY <2>1 DEF InstanceInv
    <3>3. \A i \in 1..n : stack[i] = stack'[i]
      BY <2>1, <1>0
    <3> QED BY <3>1, <3>2, <3>3, HeldSame
  <2>2. CASE n = N
    <3>1. InstAt(n)' = inst /\ SpecAt(n)' = spec
      BY <2>2, <1>0 DEF InstAt, SpecAt
    <3>2. Held(stack, Len(stack), d, inst, spec)
      BY <1>0 DEF InstanceInv, InstAt, SpecAt
    <3> HIDE DEF f
    <3>3. \A i \in 1..N : (i \in 1..Len(stack) /\ stack'[i] = stack[i]) \/ i = N
      BY <1>0
    <3>4. CASE d = c
      <4>1. inst[c].data = spec[c] /\ \A i \in 1..N : stack'[i].contract = c => i = N
        BY <3>2, <3>3, <3>4, <1>2 DEF Held
      <4>2. Loaded(f).map = inst[c].data /\ f.instance.data = inst[c].data
        BY <1>1 DEF Loaded
      <4>3. N \in 1..N /\ stack'[N] = f
        BY <1>0 DEF f
      <4> QED BY <2>2, <3>1, <3>4, <4>1, <4>2, <4>3, <1>1 DEF Held
    <3>5. CASE d # c
      <4>1. f.contract # d /\ stack'[N] = f
        BY <3>5, <1>1 DEF f
      <4> QED BY <2>2, <3>1, <3>2, <3>3, <4>1, <1>0 DEF Held
    <3> QED BY <3>4, <3>5
  <2> QED BY <1>0, <2>1, <2>2
<1> QED BY <1>0, <1>3, <1>4, <1>5 DEF InstanceInv

(* The levels below the top, when the top frame changes or goes.           *)
LEMMA LevelsBelow ==
    ASSUME TypeOK, InstanceInv, NEW m \in 0..Len(stack), UNCHANGED tx,
           m <= Len(stack'), Len(stack') \in Nat,
           \A i \in 1..m : stack'[i] = stack[i] \/ (i = m /\ i = Len(stack) /\ stack'[i].rp = stack[i].rp),
           NEW n \in 0..m, n < m, NEW c \in tx.contracts \ tx.wallets
    PROVE  Held(stack, n, c, InstAt(n), SpecAt(n))'
<1>0. Len(stack) \in Nat /\ n \in 0..Len(stack) /\ n + 1 \in 1..m
  BY DEF TypeOK
<1>1. stack'[n + 1].rp = stack[n + 1].rp
  BY <1>0
<1>2. InstAt(n)' = InstAt(n) /\ SpecAt(n)' = SpecAt(n)
  BY <1>0, <1>1 DEF InstAt, SpecAt
<1>3. Held(stack, n, c, InstAt(n), SpecAt(n))
  BY <1>0 DEF InstanceInv
<1>4. \A i \in 1..n : stack[i] = stack'[i]
  BY <1>0
<1> QED BY <1>2, <1>3, <1>4, HeldSame

(* An access to instance storage: the innermost frame's copy and the       *)
(* transactional store change together.                                    *)
LEMMA InstanceStored ==
    ASSUME TypeOK, InstanceInv, NEW st \in InstanceStorage, StorageStep(st)
    PROVE  InstanceInv'
<1> DEFINE N == Len(stack)
           f == stack'[N]
<1>0. /\ N \in Nat /\ N > 1 /\ N \in 1..N /\ Len(stack') = N
      /\ \A i \in 1..N : i # N => stack'[i] = stack[i]
      /\ \A i \in 1..N : /\ stack'[i].contract = stack[i].contract
                         /\ stack'[i].instance = stack[i].instance
                         /\ stack'[i].rp = stack[i].rp
      /\ UNCHANGED <<tx, inst>>
  BY DEF TypeOK, StorageStep, TopChanged
<1>1. /\ f.storage = st /\ f.contract = Top.contract /\ f.instance = Top.instance
      /\ Top = stack[N] /\ Top.contract \in tx.contracts /\ Top.instance \in InstanceOf(tx)
      /\ Loaded(Top) \in InstanceStorage
  BY <1>0, LoadedType DEF StorageStep, Top
<1>2. Loaded(f) = st
  BY <1>1, HostFramesAssumption DEF Loaded
<1>3. \/ st = Loaded(Top) /\ spec' = spec
      \/ \E k \in InstKeys, v \in Vals \union {None} :
             /\ st = [map |-> [Loaded(Top).map EXCEPT ![k] = v], modified |-> TRUE]
             /\ spec' = [spec EXCEPT ![Top.contract][k] = v]
  BY DEF StorageStep
<1> HIDE DEF f
<1>4. ~st.modified => st.map = f.instance.data
  <2>1. CASE st = Loaded(Top)
    <3>1. CASE Top.storage = None
      BY <3>1, <2>1, <1>1 DEF Loaded
    <3>2. CASE Top.storage # None
      BY <3>2, <2>1, <1>0, <1>1 DEF Loaded, InstanceInv
    <3> QED BY <3>1, <3>2
  <2>2. CASE st # Loaded(Top)
    <3>1. PICK k \in InstKeys, v \in Vals \union {None} :
              st = [map |-> [Loaded(Top).map EXCEPT ![k] = v], modified |-> TRUE]
      BY <2>2, <1>3
    <3>2. st.modified = TRUE
      BY <3>1
    <3> QED BY <3>2
  <2> QED BY <2>1, <2>2
<1>5. \A i \in 2..Len(stack') :
        stack'[i].storage # None /\ ~stack'[i].storage.modified
          => stack'[i].storage.map = stack'[i].instance.data
  BY <1>0, <1>1, <1>4 DEF InstanceInv, f
<1>6. spec \in SpecOf(tx) /\ spec' \in SpecOf(tx)
      /\ \A c \in tx.contracts : c # Top.contract => spec'[c] = spec[c]
  <2>1. spec \in SpecOf(tx)
    BY DEF TypeOK
  <2>2. ASSUME NEW k \in InstKeys, NEW v \in Vals \union {None},
               spec' = [spec EXCEPT ![Top.contract][k] = v]
        PROVE  spec' \in SpecOf(tx) /\ \A c \in tx.contracts : c # Top.contract => spec'[c] = spec[c]
    BY <2>1, <2>2, <1>1 DEF SpecOf, Data
  <2> QED BY <2>1, <2>2, <1>3
<1>7. Top.contract \notin tx.wallets => spec'[Top.contract] = st.map
  <2> SUFFICES ASSUME Top.contract \notin tx.wallets PROVE spec'[Top.contract] = st.map
    OBVIOUS
  <2>1. spec[Top.contract] = Loaded(Top).map
    BY <1>0, <1>1 DEF InstanceInv, Held, SpecAt
  <2>2. ASSUME NEW k \in InstKeys, NEW v \in Vals \union {None},
               st = [map |-> [Loaded(Top).map EXCEPT ![k] = v], modified |-> TRUE],
               spec' = [spec EXCEPT ![Top.contract][k] = v]
        PROVE  spec'[Top.contract] = st.map
    BY <2>1, <2>2, <1>1, <1>6 DEF SpecOf
  <2> QED BY <2>1, <2>2, <1>3
<1>8. ASSUME NEW n \in 0..N, NEW c \in tx.contracts \ tx.wallets
      PROVE  Held(stack, n, c, InstAt(n), SpecAt(n))'
  <2>1. CASE n < N
    BY <2>1, <1>0, LevelsBelow
  <2>2. CASE n = N
    <3>1. InstAt(n)' = inst /\ SpecAt(n)' = spec'
      BY <2>2, <1>0 DEF InstAt, SpecAt
    <3>2. Held(stack, N, c, inst, spec)
      BY <1>0 DEF InstanceInv, InstAt, SpecAt
    <3>3. CASE c = Top.contract
      <4>1. \A i \in 1..N : stack[i].contract = c => i = N
        BY <3>3, <1>0, <1>1 DEF InstanceInv
      <4>2. inst[c].data = f.instance.data /\ spec'[c] = Loaded(f).map
        BY <3>2, <3>3, <1>0, <1>1, <1>2, <1>7 DEF Held
      <4>3. stack'[N] = f /\ stack[N].contract = c
        BY <3>3, <1>1 DEF f
      <4>4. \A i \in 1..N : stack'[i].contract = c => i = N
        BY <4>1, <1>0
      <4> QED BY <2>2, <3>1, <4>2, <4>3, <4>4, <1>0 DEF Held
    <3>4. CASE c # Top.contract
      <4>1. spec'[c] = spec[c] /\ stack'[N].contract # c /\ stack[N].contract # c
        BY <3>4, <1>0, <1>1, <1>6
      <4> QED BY <2>2, <3>1, <3>2, <4>1, <1>0 DEF Held
    <3> QED BY <3>3, <3>4
  <2> QED BY <1>0, <2>1, <2>2
<1>9. \A i, j \in 1..Len(stack') :
        stack'[i].contract = stack'[j].contract /\ stack'[i].contract \notin tx.wallets => i = j
  BY <1>0 DEF InstanceInv
<1> QED BY <1>0, <1>5, <1>8, <1>9 DEF InstanceInv

(* A use of the generator.                                                 *)
LEMMA InstancePrng ==
    ASSUME TypeOK, InstanceInv, NEW g \in Prng, PrngStep(g)
    PROVE  InstanceInv'
<1> DEFINE N == Len(stack)
<1>0. /\ N \in Nat /\ Len(stack') = N
      /\ \A i \in 1..N : i # N => stack'[i] = stack[i]
      /\ \A i \in 1..N : /\ stack'[i].contract = stack[i].contract
                         /\ stack'[i].instance = stack[i].instance
                         /\ stack'[i].storage = stack[i].storage
                         /\ stack'[i].rp = stack[i].rp
      /\ UNCHANGED <<tx, inst, spec>>
  <2>1. /\ TopChanged /\ UNCHANGED <<tx, inst, spec>>
        /\ \A i \in 1..N : stack'[i].storage = stack[i].storage
    BY DEF PrngStep
  <2> QED BY <2>1 DEF TypeOK, TopChanged
<1>1. \A i \in 1..N : Loaded(stack'[i]) = Loaded(stack[i])
  BY <1>0 DEF Loaded
<1>2. ASSUME NEW n \in 0..N, NEW c \in tx.contracts \ tx.wallets
      PROVE  Held(stack, n, c, InstAt(n), SpecAt(n))'
  <2>1. InstAt(n)' = InstAt(n) /\ SpecAt(n)' = SpecAt(n)
    BY <1>0 DEF InstAt, SpecAt
  <2>2. Held(stack, n, c, InstAt(n), SpecAt(n))
    BY DEF InstanceInv
  <2>3. \A i \in 1..n : i \in 1..N
    BY <1>0
  <2> QED BY <2>1, <2>2, <2>3, <1>0, <1>1 DEF Held
<1>3. \A i \in 2..N : i \in 1..N
  BY <1>0
<1> QED BY <1>0, <1>2, <1>3 DEF InstanceInv

(* What holds of the frames below the top when it goes.                    *)
LEMMA InstanceUnder ==
    ASSUME TypeOK, InstanceInv, Popped, UNCHANGED tx,
           \A c \in tx.contracts \ tx.wallets : Held(stack, Len(stack) - 1, c, inst', spec')
    PROVE  InstanceInv'
<1> DEFINE N == Len(stack) - 1
<1>0. /\ Len(stack) \in Nat /\ N \in Nat /\ N \in 0..Len(stack) /\ Len(stack') = N
      /\ \A i \in 1..N : stack'[i] = stack[i] /\ i \in 1..Len(stack)
      /\ N < Len(stack)
  BY DEF TypeOK, Popped
<1>1. ASSUME NEW n \in 0..N, NEW c \in tx.contracts \ tx.wallets
      PROVE  Held(stack, n, c, InstAt(n), SpecAt(n))'
  <2>1. CASE n < N
    BY <2>1, <1>0, LevelsBelow
  <2>2. CASE n = N
    <3>1. InstAt(n)' = inst' /\ SpecAt(n)' = spec'
      BY <2>2, <1>0 DEF InstAt, SpecAt
    <3>2. \A i \in 1..N : stack[i] = stack'[i]
      BY <1>0
    <3> QED BY <2>2, <3>1, <3>2, HeldSame
  <2> QED BY <1>0, <2>1, <2>2
<1>2. \A i \in 2..N : i \in 1..N /\ i \in 2..Len(stack)
  BY <1>0
<1> QED BY <1>0, <1>1, <1>2 DEF InstanceInv

(* A frame that returns: what it changed is in storage, where its callers  *)
(* and those it shares no contract with find it.                           *)
LEMMA InstanceReturned ==
    ASSUME TypeOK, InstanceInv, ReturnStep
    PROVE  InstanceInv'
<1> DEFINE N == Len(stack)
<1>0. N \in Nat /\ N > 0 /\ N \in 1..N /\ Popped /\ UNCHANGED <<tx, spec>>
  BY DEF TypeOK, ReturnStep, Popped
<1>1. ASSUME NEW c \in tx.contracts \ tx.wallets
      PROVE  Held(stack, N - 1, c, inst', spec')
  <2>1. Held(stack, N, c, inst, spec)
    BY <1>0 DEF InstanceInv, InstAt, SpecAt
  <2>2. \A i \in 1..(N - 1) : i \in 1..N /\ i # N
    BY <1>0
  <2>3. CASE N = 1
    <3>1. stack[1].contract # c /\ inst' = inst
      BY <2>3, <1>0, HostFramesAssumption DEF TypeOK, ReturnStep
    <3> QED BY <2>1, <2>3, <3>1, <1>0 DEF Held
  <2>4. CASE N > 1
    <3>1. /\ Top = stack[N] /\ Top \in FrameOf(tx) /\ Top.contract \in tx.contracts
          /\ inst' = IF Modified(Top) THEN persist_instance_storage(Top) ELSE inst
          /\ inst \in Entries(tx)
      BY <2>4, LoadedType DEF ReturnStep, Top, TypeOK
    <3>2. CASE c = Top.contract
      <4>1. \A i \in 1..(N - 1) : stack[i].contract # c
        BY <3>1, <3>2, <2>2, <1>0 DEF InstanceInv
      <4>2. inst'[c].data = Loaded(Top).map
        <5>1. CASE Modified(Top)
          <6>1. inst' = [inst EXCEPT ![c].data = Top.storage.map]
            BY <3>1, <3>2, <5>1 DEF persist_instance_storage
          <6>2. inst'[c].data = Top.storage.map
            BY <6>1, <3>1 DEF Entries, InstanceOf
          <6> QED BY <6>2, <5>1 DEF Modified, Loaded
        <5>2. CASE ~Modified(Top)
          <6>1. inst' = inst /\ inst[c].data = Top.instance.data
            BY <5>2, <3>1, <3>2, <2>1, <1>0 DEF Held
          <6>2. Loaded(Top).map = Top.instance.data
            <7>1. CASE Top.storage = None
              BY <7>1 DEF Loaded
            <7>2. CASE Top.storage # None
              <8>1. N \in 2..N
                BY <1>0, <2>4
              <8> QED BY <7>2, <8>1, <5>2, <3>1 DEF Modified, Loaded, InstanceInv
            <7> QED BY <7>1, <7>2
          <6> QED BY <6>1, <6>2
        <5> QED BY <5>1, <5>2
      <4>3. spec[c] = Loaded(Top).map
        BY <2>1, <3>1, <3>2, <1>0 DEF Held
      <4> QED BY <4>1, <4>2, <4>3, <1>0 DEF Held
    <3>3. CASE c # Top.contract
      <4>1. inst'[c] = inst[c]
        <5>1. [inst EXCEPT ![Top.contract].data = Top.storage.map][c] = inst[c]
          BY <3>1, <3>3 DEF Entries
        <5> QED BY <5>1, <3>1 DEF persist_instance_storage
      <4>2. \A i \in 1..N : i \in 1..(N - 1) \/ i = N
        BY <1>0
      <4> QED BY <2>1, <2>2, <3>1, <3>3, <4>1, <4>2, <1>0 DEF Held
    <3> QED BY <3>2, <3>3
  <2>5. N = 1 \/ N > 1
    <3>1. \A x \in Nat : x > 0 => x = 1 \/ x > 1
      OBVIOUS
    <3> QED BY <1>0, <3>1, Zenon
  <2> QED BY <2>3, <2>4, <2>5
<1> QED BY <1>0, <1>1, InstanceUnder

(* A frame that fails: its rollback point is what its caller left.         *)
LEMMA InstanceFailed ==
    ASSUME TypeOK, InstanceInv, FailStep
    PROVE  InstanceInv'
<1> DEFINE N == Len(stack)
<1>0. /\ N \in Nat /\ N - 1 \in 0..N /\ N - 1 < N /\ (N - 1) + 1 = N
      /\ Popped /\ UNCHANGED tx
      /\ inst' = stack[N].rp.inst /\ spec' = stack[N].rp.spec
  BY DEF TypeOK, FailStep, Popped, Top
<1>1. InstAt(N - 1) = inst' /\ SpecAt(N - 1) = spec'
  BY <1>0 DEF InstAt, SpecAt
<1>2. \A c \in tx.contracts \ tx.wallets : Held(stack, N - 1, c, inst', spec')
  BY <1>0, <1>1 DEF InstanceInv
<1> QED BY <1>0, <1>2, InstanceUnder

(* At the start only the host function's frame is there.                   *)
LEMMA InitInstance == Init => InstanceInv
<1> SUFFICES ASSUME Init PROVE InstanceInv
  OBVIOUS
<1> DEFINE f == Frame(None, FALSE)
<1>1. stack = <<f>> /\ f.contract = None /\ f.rp.inst = inst /\ f.rp.spec = spec
      /\ spec = [c \in tx.contracts |-> inst[c].data] /\ tx \in Transactions
  BY DEF Init, Frame, Contracts
<1> HIDE DEF f
<1>2. Len(stack) = 1 /\ stack[1] = f
  BY <1>1
<1>3. \A n \in 0..Len(stack) : n = 0 \/ n = 1
  BY <1>2
<1>4. \A n \in 0..1 : InstAt(n) = inst /\ SpecAt(n) = spec
  BY <1>1, <1>2 DEF InstAt, SpecAt
<1>5. ASSUME NEW n \in 0..1, NEW c \in tx.contracts \ tx.wallets
      PROVE  Held(stack, n, c, InstAt(n), SpecAt(n))
  <2>1. \A i \in 1..n : stack[i].contract # c
    BY <1>1, <1>2, HostFramesAssumption
  <2> QED BY <2>1, <1>1, <1>4 DEF Held
<1> QED BY <1>2, <1>5 DEF InstanceInv

(* Every step keeps instance storage transactional at every depth.         *)
LEMMA StepInstance == TypeOK /\ InstanceInv /\ Step => InstanceInv'
<1> SUFFICES ASSUME TypeOK, InstanceInv, Step PROVE InstanceInv'
  OBVIOUS
<1>1. CASE IdleStep
  BY <1>1, InstanceIdle DEF IdleStep
<1>2. CASE EventStep
  BY <1>2, InstanceIdle DEF EventStep
<1>3. CASE ReturnStep
  BY <1>3, InstanceReturned
<1>4. CASE FailStep
  BY <1>4, InstanceFailed
<1> QED BY <1>1, <1>2, <1>3, <1>4, InstancePushed, InstanceStored, InstancePrng DEF Step

(* What the running code reads is the present level of the invariant.      *)
LEMMA ViewHeld ==
    ASSUME TypeOK, InstanceInv
    PROVE  InstanceIsTransactional
<1> SUFFICES ASSUME NEW c \in tx.contracts, c \notin tx.wallets PROVE View(c) = spec[c]
  BY DEF InstanceIsTransactional, Contracts, Wallets
<1> DEFINE S == {i \in DOMAIN stack : stack[i].contract = c}
<1>0. Len(stack) \in Nat /\ DOMAIN stack = 1..Len(stack)
  BY DEF TypeOK
<1>1. Held(stack, Len(stack), c, inst, spec)
  BY <1>0 DEF InstanceInv, InstAt, SpecAt
<1>2. CASE S = {}
  BY <1>0, <1>1, <1>2 DEF View, Held
<1>3. CASE S # {}
  <2> DEFINE t == CHOOSE i \in S : \A j \in S : j <= i
  <2>1. PICK i \in S : TRUE
    BY <1>3
  <2>2. \A j \in S : j = i
    BY <2>1, <1>0 DEF InstanceInv
  <2>3. \A j \in S : j <= i
    BY <2>2, <1>0
  <2>4. t \in S
    BY <2>3
  <2>5. View(c) = Loaded(stack[t]).map
    BY <1>3 DEF View
  <2> HIDE DEF t
  <2> QED BY <2>4, <2>5, <1>0, <1>1 DEF Held
<1> QED BY <1>2, <1>3

(* Instance storage, though copied into each frame and written back when   *)
(* the frame ends, reads at every moment as if each write took effect at   *)
(* once and a failed call had never written, for every contract that is    *)
(* not re-entered.                                                         *)
THEOREM InstanceTransactional == Spec => []InstanceIsTransactional
<1>1. Init => TypeOK /\ InstanceInv
  BY InitType, InitInstance
<1>2. TypeOK /\ InstanceInv /\ [Next]_vars => (TypeOK /\ InstanceInv)'
  BY StepType, StepInstance, Steps
<1>3. TypeOK /\ InstanceInv => InstanceIsTransactional
  BY ViewHeld
<1> QED BY <1>1, <1>2, <1>3, PTL DEF Spec

(* A frame that returns leaves every executable alone: flushing instance   *)
(* storage never undoes an upgrade, whichever frame made it.               *)
THEOREM ExecutableKept == Spec => FlushKeepsExecutable
<1>1. ASSUME TypeOK, Step, err = "Ok", Len(stack') < Len(stack)
      PROVE  \A c \in Contracts : inst'[c].exec = inst[c].exec
  <2>0. Len(stack) \in Nat
    BY DEF TypeOK
  <2>1. ReturnStep
    <3>1. stack' # stack /\ ~FailStep
      BY <1>1, <2>0 DEF FailStep
    <3>2. ~\E c \in tx.contracts : PushStep(c)
      BY <1>1, <2>0 DEF PushStep, Pushed
    <3>3. ~\E st \in InstanceStorage : StorageStep(st)
      BY <1>1, <2>0 DEF StorageStep, TopChanged
    <3>4. ~\E g \in Prng : PrngStep(g)
      BY <1>1, <2>0 DEF PrngStep, TopChanged
    <3> QED BY <1>1, <3>1, <3>2, <3>3, <3>4 DEF Step, IdleStep, EventStep
  <2>2. CASE Len(stack) > 1 /\ Modified(Top)
    <3>1. inst' = [inst EXCEPT ![Top.contract].data = Top.storage.map]
      BY <2>1, <2>2 DEF ReturnStep, persist_instance_storage
    <3>2. inst \in Entries(tx) /\ Top.contract \in tx.contracts
      BY <2>2, <1>1, LoadedType DEF TypeOK
    <3> QED BY <3>1, <3>2 DEF Entries, InstanceOf, Contracts
  <2>3. CASE ~(Len(stack) > 1 /\ Modified(Top))
    BY <2>1, <2>3 DEF ReturnStep
  <2> QED BY <2>2, <2>3
<1>2. TypeOK /\ [Next]_vars =>
        [err = "Ok" /\ Len(stack') < Len(stack) => \A c \in Contracts : inst'[c].exec = inst[c].exec]_vars
  BY <1>1, Steps
<1> QED BY <1>2, FramesTyped, PTL DEF Spec, FlushKeepsExecutable
=============================================================================
