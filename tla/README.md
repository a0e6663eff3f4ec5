# A TLA+ development of the Soroban host

The Soroban host (`soroban-env-host`) executes one smart-contract transaction of
the Stellar network: it runs guest code in nested frames, gives it transactional
access to a few ledger entries, checks that the right parties authorized what is
done on their behalf, meters everything against a budget, and reports to its
embedder (stellar-core, or the simulation crate) how the ledger changed. The host
is sequential. What is hard about it is not concurrency but *nesting*: a guest may
call, fail, catch the failure and call again, any number of levels deep, and
storage, footprint, authorizations, nonces, instance data, events, fuel and random
generators must each come back from a failure to a consistent state, though each
keeps its state in its own way and rolls a different part of it back. The second
hard thing is *agreement*: a transaction is simulated in one mode and executed in
another, and what the first predicts must be enough for the second.

## Inventory

| Component | State | Operations | Hard part | What makes it correct |
|---|---|---|---|---|
| Storage (`storage.rs`, `ledger_info.rs`) | footprint, map from keys to entries with a live-until ledger | get, has, put, del, extend_ttl; recording and enforcing mode | the map is rolled back, the footprint is not; lazy expiry and restoration; u32 TTL arithmetic | no expired entry is visible, read-only entries stay, the footprint only grows |
| Ledger helpers, lifecycle (`host/data_helper.rs`, `host/lifecycle.rs`) | instance and code entries | upload, create, upgrade, extend, executable of an address | several entries in turn, each step may fail | recording lists every entry that enforcing touches |
| Embedder interface (`e2e_invoke.rs`) | initial storage, restored keys | build the enforcing storage; run in recording mode; compute changes, sizes, rent changes | two build configurations, restored entries | changes equal what the transaction saw |
| Frames (`host/frame.rs`, `events/`, `host/prng.rs`) | context stack, rollback points, per-frame instance storage and generator, event buffer | with_frame, push/pop context, calls with re-entry modes, draws | per-frame copies written back late; order of flush, rollback and pop | instance data is transactional, events follow frames, no draw repeats |
| Authorization manager (`auth.rs`, `account_contract.rs`) | call stack, account trackers, invoker trackers, nonces (in storage), recorded trees | require_auth, authorize_as_curr_contract, push/pop frame, snapshot, rollback, payloads | match stacks aligned with the call stack; trackers borrowed during `__check_auth`; hand-made frames of contract creation | a signed node authorizes one call, a nonce is used once, recorded payloads suffice |
| Errors (`host/error.rs`) | - | is_recoverable | decides what `try_call` may catch | |
| Budget (`budget.rs`, `budget/`) | main and shadow limits per dimension | charge, shadow mode, fuel conversion | every operation may fail when it runs out | nothing runs unpaid |
| Virtual machine (`vm/`, `host_object.rs`) | modules, fuel, objects, relative handles | parse, instantiate, call, dispatch, trap | the CPU budget moves between host and guest; handles are translated at the boundary | fuel is within the budget, handles stay in their frame, transactions end |
| Values, containers (`soroban-env-common`, `host/metered_*.rs`, `host/comparison.rs`, `host/conversion.rs`, `host/mem_helper.rs`) | - | vectors, maps, buffers, wide integers, linear memory, conversions | two representations of one value, two orders that must agree | they implement sequences, functions and integers |
| Stellar Asset Contract (`builtin_contracts/stellar_asset_contract/`) | balances, allowances, flags, administrator | the token interface | allowances that expire; classic and contract balances | supply matches events, freezes hold, allowances are not exceeded |
| Fees, rent, metering, simulation (`fees.rs`, `host/invocation_metering.rs`, `soroban-simulation`) | network settings, a snapshot | fee functions, three simulated operations | rounding, saturation, prediction | rent is prepaid, a simulated transaction is applied |
| Cryptography, tracing, tools | see `PROJECT.json` | | | |

Interactions: the guest calls host functions (`host.rs`), which act on the
storage and on the authorization manager of the current frame. `with_frame`
pushes a context (and with it an authorization frame and a rollback point), runs
the callee, flushes its instance storage, and pops, rolling back on failure;
`try_call` turns a recoverable failure of the callee into a value. The
authorization manager calls back into the frames when a contract account
authenticates, because `__check_auth` is itself a contract call. Crossing into
the guest turns the remaining CPU budget into fuel and back. When the outermost
frame is popped, `e2e_invoke` compares the final storage with the initial one;
from those changes `fees.rs` computes the rent.

`PROJECT.json` lists every component with its status, and under `hazards` the
places in the code that are hard to test, with the properties that guard them.

## Modules

| Module | Models | Used by |
|---|---|---|
| `LedgerInfo` | ledger parameters, TTL bounds, durability of keys | `Storage` |
| `Storage` | the storage operations as operators on a storage record | `LedgerChanges` |
| `LedgerChanges` | building an enforcing storage, recording-mode checks, `get_ledger_changes` | `StorageTxn`, `Lifecycle`, `Simulation` |
| `StorageTxn` | one transaction: storage host calls in nested frames that fail and roll back, then the report | `MCStorageTxn`, `StorageProofs` |
| `Lifecycle` | contract instances and code: load, create, upgrade, extend, flush | `Preflight` |
| `Preflight` | a recording and an enforcing run of one guest program in lockstep | `MCPreflight`, `PreflightProofs` |
| `InvocationTracker` | one tree of authorized invocations and its match stack | `Auth`, `AuthRecording` |
| `AccountSigners` | signatures and weights of a classic account | `Auth` |
| `Auth` | the enforcing authorization manager under calls, failures, `__check_auth` and contract creation | `MCAuth`, `AuthProofs` |
| `AuthRecording` | the recording manager, its payloads, and their replay in enforcing mode | `MCAuthRecording`, `AuthRecordingProofs` |
| `HostFrames` | frames with instance storage, upgrades, events, generators and re-entry | `MCHostFrames`, `HostFramesProofs` |
| `CostTable`, `Budget` | default cost models; limits, charges, shadow mode, fuel | `ParsedModule` |
| `ParsedModule`, `HostObjects` | checks and cost inputs of a Wasm module; objects and handles | `Vm` |
| `Vm` | Wasm contracts on the budget: instantiation, dispatch, traps, unwinding, uploads | `MCVm`, `VmProofs` |
| `Sac` | the Stellar Asset Contract | `MCSac`, `SacProofs` |
| `Values` | the representations of a value, conversions, the two orders | `MeteredContainers` |
| `MeteredContainers` | vector, ordered map, buffers, memory copies, checked arithmetic | `Containers` |
| `Containers` | the host functions on them, as actions of a guest | `MCContainers` |
| `ValueOrder`, `Collections` | abstract specification: what those host functions promise | `Containers` (refinement) |
| `Fees` | resource and rent fees | `Simulation` |
| `Simulation` | the three simulated operations, resources and fees | `InvocationMetering` |
| `InvocationMetering` | the meter of a test host | `RentLedger` |
| `RentLedger` | a ledger over several closes: simulate, declare, execute, pay | `MCRentLedger`, `RentProofs` |
| `StorageProofs`, `PreflightProofs`, `AuthProofs`, `AuthRecordingProofs`, `HostFramesProofs`, `VmProofs`, `SacProofs`, `RentProofs` | the theorems about `StorageTxn`, `Preflight`, `Auth`, `AuthRecording`, `HostFrames`, `Vm`, `Sac`, `RentLedger` | |

`MC...` modules give the model values and the small sets the `.cfg` files use.

### How state and actions correspond to the code

*Storage.* `storage` is `Host.storage`: `footprint[k]` is the access of `k` or
`NotListed`; `map[k]` is `Unloaded` (no such key in the `MeteredOrdMap`), `None`
(the key maps to `Option::None`) or an entry. Each operator returns the storage
after the call, the outcome and the value, because a failing operation may
already have changed the footprint. Values are opaque. `U32Max` stands for
`u32::MAX`, so that overflow is reachable with small numbers. `RecordingBuild`
is the `recording_mode` feature: without it the expiry handler and the check on
supplied entries are compiled out. `FiltersExpired` says whether the embedder
(external; see `Supplied`) withholds expired entries. `frames` are the rollback
points. `PopOk`, `PersistAndPop` and `PopFailed` are the three ends of
`with_frame`; `Finish` is the end of `invoke_host_function` or of its recording
variant.

*Lifecycle and Preflight.* A contract is an instance entry whose value is its
executable; `CodeOf` says which code entry that needs, `None` for the asset
contract. Every action of `Preflight` applies the same host call to both
storages. When the results differ, the enforcing run is dropped and `diverged` is
set, while the recording run goes on to its end; `PreflightSuffices` says that
this cannot happen if the declared footprint covers what was recorded, whenever
one looks. The outermost frame is the host function together with the contract it
calls. `Call` of no particular contract is a callee whose entries both runs hold
already. A hit in the module cache asks for the code with `has` instead of `get`,
which lists the same access and is the same step here.

*Authorization.* A tree is a sequence of functions with a parent for each; a
match stack holds the matched node per frame, 0 for `Unmatched`. The code stores
the index within the parent instead; `MatchStackIsPath` is what makes the two
the same. A function with its arguments is one value `<<contract, name>>`.
`stack[1]` is the host function's frame, which the manager ignores. Frames of
kind `create` are the manager's hand-made frames of contract creation; they are
not in the context stack. `borrowed` is the set of trackers whose `RefCell` is
borrowed by a running `__check_auth`. A classic account authenticates by its
signatures (`AccountSigners`: order, number, weights, threshold); that a single
signature verifies is part of the transaction. `grants` is a history variable.

*Recorded authorization.* `AuthRecording` grows a tree per required address
object. A required address that is the source, a contract of the asset type or a
missing one is treated as the code does (`AccountKind`). `log` is the run; the
replay hands the payloads of that run as entries to the operators of the
enforcing manager and repeats the log. That assumes that the program does the
same in both modes and that `__check_auth` requires nothing itself; `Auth`
covers the accounts that do.

*Frames.* `inst` is the instance entry of each contract in storage;
`stack[i].instance` is the copy the frame was created with and
`stack[i].storage` the lazily loaded `InstanceStorageMap`. A generator is the
stream it was seeded with and a position; `base` is the host's own generator,
which seeds frames on first use and is not rolled back. `spec`, `kept` and
`draws` are history variables that say what nested transactions, event marking and seeding
should have done.

*Virtual machine.* `bud` is the `Budget`, `objs` the host objects. A frame holds
its Wasm's fuel, its relative objects and whether it was called by `try_call`.
`Exec(n)` is the guest burning up to `n` units of fuel, `MemoryGrow`, the calls of
host functions, `Trap`, `Unwind` (one frame of an error in flight) and `End` are
the other steps. The guest's instructions are wasmi's and external: only the
fuel they take is modelled. `unpaid` is a history
variable: fuel that guests have burnt and the host has not charged.

*Asset contract.* One action is one successful call; an error is rolled back by
the frame and leaves nothing, so errors are guards. `Worlds` are assets with
issuer flags and holders' trust lines. `CloseLedger` lets a ledger pass, so that
allowances and balances expire.

*Containers.* A guest works on one container at a time; each host function is an
action that replaces it or answers. Word, body and character widths are
parameters, so that every boundary between small and object form is met. A failed
call stands for one inside a caught sub-call: it returns an error and the guest
goes on. `INSTANCE Collections WITH` maps values to what they denote
(`RefinesCollections`): the abstract specification knows sequences, functions,
integers and an array, and no representation.

*Rent.* `RentLedger` interleaves simulations, executions and ledger closes, under
one of several network settings; `credit` is a history variable, the rent an entry
has paid and not yet used. Execution is Core's: it loads and restores what the
footprint lists, runs the program in an enforcing host, charges the fee and
applies the changes; it also executes the extend and restore operations and
decides which extensions a loaded account has. Those parts are external, modelled
from how `e2e_invoke.rs` and the simulation crate address them. A program is a
sequence of storage calls, failures (`fail`) and ends of sub-calls: an `end_try`
names the instruction its sub-call began after, and when the sub-call has failed it
gives back the map of that moment under the footprint of now, as `pop_context` does
below `try_call`. Classic keys are accounts. `counted` is a history variable:
whether the recording had every entry it declared read-write in its map, so that its
changes carry the entry's contents (`CountsAll`).

## Runs

All runs explore the full state space of their instance.

| Run | Instance | Shows |
|---|---|---|
| `StorageTxn` | either a temporary and a persistent contract-data entry or a contract code and a classic entry; each absent, expired, in its last ledger or longer-lived; recording mode and every footprint of those keys; the last ledger of a u32 within reach of an extension | no expired entry in the map, read-only entries untouched, no internal error but in a step that overflows, archived entries listed read-write, footprint monotone, reported changes right and never shortening, though re-uploaded code has a lower TTL in the map |
| `Preflight` | two data entries, or an instance and its code, or an account, each absent, expired or in its last ledger; every declared footprint | recorded footprints suffice, also for contracts created, called, upgraded and extended |
| `Auth` | eleven transactions: three entries of one account, two sharing a nonce, one with two equal children; an account whose signatures are out of order, repeated, too many, unknown or too light; a contract account whose `__check_auth` needs authorization itself; deployments with a constructor, an expired entry, a used nonce and a used source entry; contracts authorizing as invokers with up to three live trackers; a factory | the authorization properties |
| `AuthRecording` | three contracts, an account or source with two address objects and a contract address; up to three calls and four requirements | the payloads carry the run they were recorded from and are used up; failed calls leave nothing |
| `HostFrames` | four transactions: upgrades next to a contract account that re-enters itself; events with an instance that cannot be written; generators; more contracts than may nest | instance storage, upgrades, events and draws under failing calls |
| `Vm` | four networks: two with made-up costs in enforcing and one in recording mode, one with the default cost table; contracts cached and not, live and archived, without the called export, missing; thirteen Wasms that must be refused | fuel, metering, handles, authorization frames and uploads; every transaction ends |
| `Sac` | a native asset and credit assets with different issuer flags, a holder, a contract, amounts at the limits of both widths, two ledgers | supply, freezes, allowances |
| `Containers` | small and object forms around each boundary; containers of up to three elements | the host functions implement their abstract specification, and the two orders agree |
| `RentLedger` | a persistent entry and an account, or a temporary entry and code; three simulated transactions over up to three ledgers; programs whose sub-calls fail, by an error of the guest or of the host and one within another, on entries loaded before them, after them or by them alone | rent is prepaid, simulations that counted what they declare suffice, the meter is close |

A transaction of `Auth` and `HostFrames` is a value of the variable `tx`, chosen
at the start and never changed; `network` in `Vm` and the worlds of `Sac`,
`AuthRecording` and `Containers` play the same part. In `StorageTxn` and
`Preflight`, `Touched` fixes for each ledger the keys a transaction may list and
use; the theorems hold for every such choice, all keys included.

Bounds, and why they are enough. In `StorageTxn` and `Preflight` one call at a
time is nested in the outermost frame (`MaxDepth` 2): storage keeps one rollback
point per frame and uses the innermost only, and the theorems cover every depth.
`Auth` nests four frames, `HostFrames`, `AuthRecording` and `Vm` three, so that a
frame fails below one that goes on, and the code's depth limit, made small, is
hit. TTLs 2, 3 and 5 around the current ledger 3 put an entry on both sides of
expiry and of each threshold, and with `U32Max` 6 in `StorageTxn` an extension asked
for can end past the last ledger number, which is the one internal error left; two
values tell a write from a restored old value.
`MaxInvokers`, `MaxObjs`, `MaxUploads`, `MaxCalls`, `MaxRequires`, `MaxLen`,
`MaxMemoryCalls`, `MaxTxs`, `LastLedger` and the event and draw counts only bound
the state space: three calls are the fewest in which a tree is entered, left by a
failure and entered again; three elements let a binary search go both ways; three
transactions let an entry be created, extended and grown.
`I64Max`, `I128Max`, `U32Max`, the bit widths and the fee increments are small so
that overflow, saturation and rounding occur. The state of `Containers` is viewed
without its last call and result, which no guard reads. `AuthRecording` is explored up
to symmetry between two contracts no address refers to and between the user's two
address objects. The default build, without the recording feature, is covered by
the theorems only.

`Sac`, `Vm`, `Containers` and `RentLedger` may stop (a finished transaction, or a
bound), so deadlock is not checked there; in the other runs it is.

Three runs are expected to be violated. Each states what a comment or a test of
the repository says, and is described under `findings` in `PROJECT.json`:

* `AllowanceExpiry` - an allowance revoked with a later ledger and granted again
  lapses before the ledger it was granted until.
* `StaleKeyRules` - after a storage key is refused for holding a muxed address,
  muxed addresses are refused as plain values too.
* `FailedCalls` - an entry that only a failed sub-call wrote, or an archived one it
  only read, is declared read-write, but simulation counts neither its bytes nor its
  rent (`add_footprint_only_ledger_changes`), while execution, which has every declared
  entry in its map, counts both and refuses the transaction. `SimulationSuffices` leaves
  exactly those simulations out.

Other disagreements between comments and code that the models show, each kept as
an explicit exception in a property:

* `auth.rs:1417` says that the recorded payloads cover the run in enforcing mode. When
  a frame requires an address twice, through two address objects, `auth.rs:1049` records
  in two trackers, and the payloads may not carry the run (`PayloadsAreExact` speaks of
  runs in which no frame requires an address twice).
* `e2e_invoke.rs:131` says that a new live-until ledger is not lower than the old
  one; a removed entry is reported with 0 (`NeverShortened` speaks of surviving
  entries).
* `storage.rs:397` speaks of clamping; an extension past `u32::MAX` is an
  internal error (`InternalErrorOnlyOnOverflow`).
* The default build compiles the check on supplied expired entries
  (`e2e_invoke.rs:981`) to an empty body (`MapEntriesAreLive` is proved under
  `RecordingBuild \/ FiltersExpired`).
* `auth.rs:1693` takes the top of the match stack as given; a fresh invoker
  tracker, whose stack is empty, can be matched when a contract authorizes and
  then requires its own call (`InternalErrorsAreOwnEntries`).
* Instance writes of a contract account that re-enters itself through
  `__check_auth` are overwritten by the outer frame's flush
  (`InstanceIsTransactional` exempts it).
* The meter's unchecked subtraction wraps when an entry is deleted and created
  again, or code uploaded again, with a shorter life; `simulate_extend_ttl_op` adds
  up sizes without a check; the rent of code rounds down (`fees.rs:391`). `MeteredRentIsClose` and the bounds of `RentLedger`
  say so where they matter.

### Fairness

The host runs in one thread, so that a step that stays possible is taken as long
as the process runs. `Vm` states weak fairness of the guest executing
instructions, of unwinding and of ending the outermost frame, and from this
follows `Terminates`: the guest may always go on instead of returning, yet the
fuel it burns cuts it off. Nothing is assumed about host calls, traps or memory
growth. The other modules state no fairness: how long their guest runs is its
choice.

## Proofs

Each proof module proves, for every value of the constants that satisfies the
named assumptions, that the specification has the properties below: for every
set of keys, contracts, accounts, holders and values, every ledger, transaction
and network, every guest program and every nesting depth.

| Module | Theorem | Property |
|---|---|---|
| `StorageProofs` | `TypeCorrect` | `TypeOK` |
| | `EntriesLive` | `MapEntriesAreLive` |
| | `ReadOnlySafe` | `ReadOnlyUntouched` |
| | `InternalErrors` | `InternalErrorOnlyOnOverflow` |
| | `ArchivedReadWrite` | `ArchivedAccessIsReadWrite` |
| | `ChangesCorrect` | `ChangesMatchStorage` |
| | `LivesNotShortened` | `NeverShortened` |
| | `FootprintMonotone` | `FootprintNeverShrinks` (of steps) |
| `PreflightProofs` | `PreflightCorrect` | `PreflightSuffices` |
| `AuthProofs` | `ManagerConsistent` | the inductive core `CoreInv` |
| | `MatchStacksArePaths` | `MatchStackIsPath` |
| | `ActiveOnStack` | `ActiveWhileRootOnStack` |
| | `NodesGrantedOnce` | `GrantedOnce` |
| | `GrantsAuthentic` | `GrantsAreAuthenticated` |
| | `NoncesUsedOnce` | `NonceOnce` |
| | `EntriesNotDisjoint` | `DisjointTreesNotAllowed` |
| | `InvokersAreAStack` | `InvokersFormStack` |
| | `InvokersLiveForOneCall` | `InvokerLivesForOneCall` (of steps) |
| | `InternalErrorsOnlyOwn` | `InternalErrorsAreOwnEntries` (of steps) |
| `AuthRecordingProofs` | `RecordingTransactional` | `RecordingIsTransactional` |
| | `RecordedPaths` | match stacks are paths; no internal errors |
| `HostFramesProofs` | `FramesTyped` | `TypeOK` |
| | `InstanceTransactional` | `InstanceIsTransactional` |
| | `EventsCorrect` | `EventsFollowFrames` |
| | `DrawsFresh` | `DrawsAreFresh` |
| | `ExecutableKept` | `FlushKeepsExecutable` (of steps) |
| `VmProofs` | `HostTyped` | `TypeOK` |
| | `FuelBounded` | `FuelWithinBudget` |
| | `AllMetered` | `EverythingMetered` |
| | `Isolation` | `HandlesIsolated` |
| | `StacksAligned` | `AuthAligned` |
| | `UploadsInstantiate` | `UploadedInstantiates` |
| `SacProofs` | `BalancesFit` | `TypeOK` |
| | `EventsAccountForSupply` | `SupplyMatchesEvents` |
| | `AllowancesBounded` | `SpendableWithinApproval` |
| | `FrozenBalances` | `FrozenOnlyClawedBack` (of steps) |
| `RentProofs` | `RentIsCovered` | `RentCovered` |
| | `SimulationIsEnough` | `SimulationSuffices` |

### Assumptions

Each module's `...Assumption` says that its constants have their types and that
ledgers, transactions, networks and assets are well-formed. Beyond types:

* Five of the storage theorems assume `RecordingBuild \/ FiltersExpired`: in the
  default build the check on supplied entries has an empty body, so that only the
  embedder keeps expired entries out. `PreflightCorrect` assumes
  `RecordingBuild`: a storage in recording mode exists only in such a build. An
  initial state of `Preflight` is one in which the minimum persistent TTL does not
  overflow the ledger sequence.
* `AuthAssumption`: the nodes of a signed tree are numbered so that a node comes
  after its parent; a creation that a contract authorizes has no sub-invocations,
  as in `InvokerContractAuthEntry`; the keys of signatures are numbered from 1.
* `RecordingAssumption`: "none", which stands for the absence of an address, is none.
* `VmAssumption`: a network's protocol is one the host supports
  (`check_ledger_protocol_supported`); the bound on host objects leaves room for
  the handles, whose low bit `index_to_handle` shifts in. Every object is charged
  for, so that the budget ends a run long before 2^31 of them. `UploadsInstantiate`
  also assumes `WasmsFit`: one charge for a Wasm takes less than 2^58 bytes and its
  initial memory less than 2^63, or no u64 limit could pay for it; a module has at
  most 2^32 bytes of memory, and a network's memory limit is a u32. The instance of
  the `Vm` run satisfies it, the default cost model included.
* `SacAssumption`: an address is an account or a contract; the extension
  constants are ordered as in `storage_types.rs`; the ledgers of a behaviour
  (`MaxSeq`) pass before a new persistent entry expires, because archival is the
  subject of `Storage` and the asset contract extends what it touches. Sums are
  over finite sets of holders.
* `RentAssumption`: sizes and TTLs are u32 and fees i64, and the minimum rent of the
  largest entry for the longest life fits an i64: with 1000 per kilobyte and ledger,
  entries of some hundred kilobytes and some million ledgers it is about 10^15 before
  the division. Where it did not fit, the fee would saturate below the rent. The
  denominators of a network that charges rent are positive; the code reads a
  denominator of zero as one, which no rent is scaled by. For `SimulationIsEnough` the
  fee rates are not negative and the ledgers of a behaviour end before a u32 of ledger
  numbers does by the longest life (`simulate_extend_ttl_op` adds without a check). A user
  who asks for an extension asks for less than the network's maximum TTL: simulation
  does not compare the two, and execution refuses a longer one. The storage calls of a
  program are on data and code keys, those of the asset contract on classic ones.

### Arguments

*Rollback.* Hardly any of the properties is inductive, and mostly for one reason:
a failing frame puts an *old* state in place of the current one. So whatever is
proved of the current state is proved of every snapshot on the stack too, in the
form in which the rollback would make it current, next to the parts that are not
rolled back.

*Storage.* Rolling back puts an old map under the current footprint: for each
key, the access now and the cell then must fit together. `KeyOK` is that relation
(a loaded cell is listed; an enforcing map holds every listed key; a loaded cell
is live, and if its key is still read-only it is the ledger's entry with at most a
longer life; an archived key that was touched is read-write), and `IndInv`
requires it of the storage and of every rollback point, together with what the
initial storage and a finished report look like. Each storage operation changes
one key, keeps `KeyOK` for it and only lets its access grow (`ResOK`, one lemma per
operation); `KeyGrows` then carries `KeyOK` over to the rollback points, and
`PopFailed` is immediate.

*Preflight.* A simulation. `Sim` relates the two storages key by key: what the
recording map has loaded, the enforcing one holds; what it has not, the enforcing
one holds as the embedder supplied it. `Alike` says of the two results of one
operation that the recording one is in order, that its footprint has only grown,
and that *if what is now recorded is declared* the results are the same and the
storages are related again. Coverage of a later footprint implies coverage of an
earlier one (`EnoughBefore`), so that `Alike` composes (`AlikeTwice`, `AlikeIf`,
`AlikeThen`), and every operation of `Storage` and `Lifecycle` is shown `Alike` in
turn, up to contract creation. `PreInv` requires the relation of every pair of
rollback points. An archived entry is the crux: recording restores it when it is
first read and lists it read-write, the embedder before the run starts, and both
give it the same live-until ledger (`StartSeen`, `RecordedRead`).

*Authorization.* `CoreInv` is what the rest needs: which trackers are borrowed
(exactly those of running `__check_auth` frames, known to each snapshot), and that
an invoker tracker was made by a contract frame on the stack and has one match per
frame above it. On top of it, `Follows` says of a tracker and a range of frames that
its match stack is a path of its tree whose nodes carry the functions of those
frames, and that what was exhausted at each snapshot is part of what is exhausted
now and holds the matches made below that frame; for an account tracker the range ends at the
last frame, or where it was borrowed. Grants are then the exhausted nodes
(`GrantInv`) and the nonces those of verified entries (`NonceInv`), now and at every
snapshot. Of authentication, the invariant must admit the steps between
exhausting a node and verifying the entry, where only an error on its way up
separates the two (`AuthenticInv`).

*Recorded authorization.* `Point` relates trackers, handles and nonces under a
generator and a footprint: handles lead to trackers of their address, the nonces
are those of the trackers, no two trackers share one, none is ahead of the
generator, and each is in the footprint. A rollback restores the first three and
neither of the others, so `RecInv` requires `Point` of the current state and of every
snapshot, all with the generator and the footprint of now (`PointLater`: both only
grow). A new tracker's nonce is then fresh because a draw is never taken back.

*Frames.* Each property has an invariant of its own. `EventsInv`: a rollback point
knows how many events there were and which of them stood, and these are untouched
since. `PrngInv`: no two frames hold one seed, and what was drawn from a seed lies
before its position. `InstanceInv`: at each depth, for a contract that is not an
account, the instance entry of that depth together with the copy its one frame
holds stands for the data nested transactions would have.

*Virtual machine.* A step of the guest is a chain of charges, translations and
frame changes, each of which may fail, so the invariant is stated of a host record
and followed through the chain. A charge is *quiet*: it changes the budget and the error only. Two
forms of the invariant alternate: the host in control, with every instruction
charged and no frame holding fuel, and the host having given control back to a
frame that holds the rest of the budget as fuel. `VmInv` joins them with the types
and with the closure of every frame's objects: what can be reached from a frame's
relative handles was made by its contract or given to it. For uploads,
`UploadedInv` says that what was uploaded passed every check (`Checked`), and `Rich`
counts the charges of an instantiation: totals saturate at the limit, so that none
fails, and after the 26 of them the initial memory still fits.

*Asset contract.* Every call is a sequence of credits and debits; `Effect` says
what one of them does to the entries, the allowances and the sum. That a sum over
holders changes by what one holder's balance changes is the lemma under
`EventsAccountForSupply`.

*Rent.* The argument has a part about numbers and one about runs. A fee is a
rounded-up quotient of saturating products, counted as `Worth`: what it is worth in
units in which nothing is divided. `WorthOfParts`, `NewIsCovered` and `OldIsCovered`
say that the worth of a change is at least the minimum rent of what it adds: the
ledgers added at the new size and the bytes added over the ledgers already paid for
(`RentSplits`), rounding and the discount of code entries included. The rate itself is
at least the minimum whatever the state size, low or negative fees or saturation
make of it (`RateIsMinimum`). The runs: `StoreOK` says of a storage during an enforcing
execution, key by key, that a listed Soroban entry is absent or live, and that a
read-only one is the supplied entry with at most a longer life; every storage call
keeps it (`DoOutcome`), hence every program does (`ExecKeeps`). From the final storage,
the reported changes and the rent changes extracted from them follow, and each key
`Pays`: it goes, stays, shrinks within what it paid, or has a change that is charged
for all it adds (`ReadOnlyPays`, `ReadWritePays`). The invariant `RentInv` adds that
transactions in the plan restore only what they declare read-write and persistent:
without it a restored entry could be charged as an old one.

*Simulation.* `SimInv` says what a plan is while nothing else has changed the ledger:
the result of simulating some operation on a ledger that agrees, on every declared
key, with the present one (`ReadyInvoke`, `ReadyExtend`, `ReadyRestore`), or a restoration
and an invocation simulated as if the restoration had been executed (`ReadyPair`): the
first execution turns it into the second case (`ReadySucceeds`). Entries the
simulation was not shown are expired temporary ones (`SeenAs`). That such a plan is
applied is a comparison of two runs of one program: `Paired` relates the cell of a key in
the recording storage, loaded or still in the snapshot, to the one in the enforcing
storage; every call returns the same in both as long as the enforcing footprint
suffices for what was recorded (`DoTwin`). A sub-call that fails gives both storages the
maps of its start back (`FollowInstruction`), so the relation is kept of every
earlier state of the run as well, and since a recorded access never shrinks, not even
by a failure (`RecGrows`), the final footprint suffices for every step (`ExecTwin`). Equal
final entries do not make equal reports: the recording host reports every key it
listed, with live-until ledgers of its own snapshot. `KeyRent` shows, key by key, that
nevertheless the same rent is extracted from both, `SameWrites` and `SameReads` that the
same bytes are counted. A key that only failed sub-calls touched is listed in the
recording report without contents; where it is read-only, or no entry, execution
finds nothing to count for it either (`IdleIsFree`, `ListedCost`), and where it is an entry
declared read-write, `counted` is false: this is the one case the theorem excludes.
The fee then covers execution because adjusting the refundable part never reduces
it (`FeeSuffices`). The invariant also carries the
form of all entries (`Typed`), classic ones included, through executions that are not fresh.

Inductions over data (the events after a failed call, the weights of signatures,
sums of balances and sizes, sequences of charges, programs, objects reached through objects) are
carried out on the least counterexample (`Least`), since the schemas with an
operator parameter cannot be instantiated.

TLC finds the inductive invariants true in all states of the run of their
component as well, but for `SimInv`, whose existential is over all ledgers.

### Only model-checked

* `Terminates` of `Vm`: liveness under fairness.
* `PayloadsAreExact` of `AuthRecording`: replays a recorded run in enforcing mode,
  a fold over a log of any length, so that a proof is an induction over data.
* `MeteredRentIsClose` of `RentLedger`: it compares two sums of rounded quotients over
  different sets of keys, one of them of a run on a storage loaded in full without a
  footprint, which the lemmas about recorded runs do not reach.
* `Containers` and its refinement of `Collections`: values, comparisons and searches
  are recursive operators, which leave the proof system without its SMT backend.

## Not modelled

* Cryptography: wrappers of external libraries, without state. Whether a signature
  verifies is an input.
* Tracing, diagnostic events and logging: they observe.
* The instructions of a guest, which are wasmi's.
* XDR encoding beyond what it does to the order, depth and size of values; strkeys.
* Charges inside storage, authorization and frame operations: `Vm` lets each step
  at the host's boundary run out of budget; in the other modules an exhausted
  budget is one of the unrecoverable failures.
* Macros, generated bindings, benches, the test-only native contracts, calibration.
* `extract_modified_entries` and `fill_config_fields`, which reshape data; the
  non-rent part of the meter's fee estimate.

## Plan

What is left is to prove more of what the runs check, in this order:

1. `RentLedger`: the estimate of the meter, from lemmas about a storage loaded in full.
2. `AuthRecording`: of the replay, what does not need an induction over the log.
