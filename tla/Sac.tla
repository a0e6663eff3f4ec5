--------------------------------- MODULE Sac --------------------------------
(***************************************************************************)
(* The Stellar Asset Contract (builtin_contracts/stellar_asset_contract):  *)
(* the token interface over classic balances (trustlines or accounts, with *)
(* limits and liabilities, 64 bits) and contract balances (contract data,  *)
(* 128 bits), with issuer flags, an administrator, and allowances kept in  *)
(* temporary entries.                                                      *)
(*                                                                         *)
(* One action is one successful call of the contract.  A call that meets   *)
(* one of its errors is rolled back by its frame (HostFrames, StorageTxn)  *)
(* and leaves no trace, so the errors are the guards.  An operation that   *)
(* may fail is an operator whose value is the set of its results: empty    *)
(* when it fails, else a singleton.                                        *)
(***************************************************************************)
EXTENDS Integers, Sequences, FiniteSets, FiniteSetsExt

CONSTANTS
    Accounts, Contracts,      \* the addresses
    Issuer,                   \* the account issuing a credit asset
    None,                     \* no entry, no administrator, no asset info
    Worlds,                   \* the ledgers and assets considered
    AssetArgs,                \* what init_asset may be called with
    Amounts,                  \* the amounts callers pass (i128)
    LiveUntils,               \* the live_until_ledger callers of approve pass
    AllowancePairs,           \* the (from, spender) pairs in play
    I64Max, I128Max,          \* the largest i64 and i128
    BaseReserve,              \* LedgerInfo.base_reserve
    MinTempTtl, MinPersistentTtl, MaxTtl,   \* LedgerInfo
    DAY_IN_LEDGERS, BALANCE_EXTEND_AMOUNT, INSTANCE_EXTEND_AMOUNT,
    MaxSeq                    \* bound: the last ledger

Addresses == Accounts \cup Contracts

(* A trustline, or a native account: what the contract reads of it.        *)
ClassicBalance ==
    [amount : Int, authorized : BOOLEAN, maintain : BOOLEAN, clawback : BOOLEAN]

(* A contract's balance, with the live-until ledger of its entry.          *)
BalanceValue == [amount : Int, authorized : BOOLEAN, clawback : BOOLEAN, live : Int]

(* An allowance, with the live-until ledger of its entry.                  *)
AllowanceValue == [amount : Int, live_until : Int, live : Int]

(* The ledger keeps a classic balance between the liabilities (with the    *)
(* reserve, for an account) and the limit.                                 *)
WithinTerms(w, a, amount) ==
    LET t == w.terms[a]
    IN  IF w.asset.type = "native"
        THEN t.net_entries * BaseReserve + t.selling <= amount /\ amount <= I64Max - t.buying
        ELSE t.selling <= amount /\ amount <= t.limit - t.buying /\ t.buying <= t.limit

IsWorld(w) ==
    /\ w.terms \in [Accounts -> [limit : Nat, selling : Nat, buying : Nat, net_entries : Nat]]
    /\ w.classic \in [Accounts -> ClassicBalance \cup {None}]
    /\ \A a \in Accounts :
        w.classic[a] # None /\ (w.asset.type = "native" \/ a # Issuer) =>
            WithinTerms(w, a, w.classic[a].amount)

(* Within the bound no persistent entry expires: an archived entry is      *)
(* restored by the embedder before the contract could see it.              *)
ASSUME SacAssumption ==
    /\ IsFiniteSet(Addresses) /\ Accounts \cap Contracts = {}
    /\ Issuer \in Accounts
    /\ \A w \in Worlds : IsWorld(w)
    /\ None \notin ClassicBalance \cup BalanceValue \cup AllowanceValue
    /\ AllowancePairs \subseteq Addresses \X Addresses
    /\ I64Max \in Nat /\ I128Max \in Nat /\ I64Max <= I128Max
    /\ Amounts \subseteq -I128Max - 1..I128Max /\ LiveUntils \subseteq Nat
    /\ BaseReserve \in Nat /\ MaxSeq \in Nat
    /\ DAY_IN_LEDGERS \in Nat /\ BALANCE_EXTEND_AMOUNT \in Nat /\ INSTANCE_EXTEND_AMOUNT \in Nat
    /\ DAY_IN_LEDGERS <= BALANCE_EXTEND_AMOUNT /\ DAY_IN_LEDGERS <= INSTANCE_EXTEND_AMOUNT
    /\ MaxTtl \in Nat /\ MinTempTtl \in 1..MaxTtl
    /\ MinPersistentTtl \in Nat /\ MaxSeq < MinPersistentTtl /\ MinPersistentTtl <= MaxTtl

VARIABLES
    world,      \* the asset, the issuer's flags, the terms of the classic entries
    seq,        \* the ledger sequence number
    instance,   \* instance storage: asset info and administrator; its live-until ledger
    entry,      \* the balance entry of every address
    allowance,  \* the allowance entries, expired ones removed
    supply,     \* history: what the emitted events say is in circulation
    granted     \* history: what is left of the last approval of each pair

vars == <<world, seq, instance, entry, allowance, supply, granted>>

-----------------------------------------------------------------------------
(* Assets.  A byte of an asset code is 0, "alnum" or "other".              *)

Native == [type |-> "native", code |-> <<>>]
Zero == "zero"

validate_asset_code(code) ==
    LET NonZero == {i \in DOMAIN code : code[i] # Zero}
    IN  /\ \A i \in NonZero : \A j \in 1..i : j \in NonZero
        /\ \A i \in NonZero : code[i] = "alnum"
        /\ NonZero # {}
        /\ ~(Cardinality(NonZero) <= 4 /\ Len(code) > 4)

validate_asset(asset) == asset.type = "native" \/ validate_asset_code(asset.code)

read_asset_info == instance.info

IsNative == read_asset_info.type = "native"

is_issuer(a) == ~IsNative /\ a = Issuer

check_nonnegative_amount(amount) == amount >= 0

check_non_native == ~IsNative

check_not_issuer(a) == ~is_issuer(a)

is_asset_issuer_flag_set(flag) == ~IsNative /\ flag \in world.flags

-----------------------------------------------------------------------------
(* Time to live.                                                           *)

max_live_until_ledger == seq + MaxTtl - 1

(* Storage::extend_ttl of a persistent entry: clamped to the maximum.      *)
extend_persistent(live, extend_to) ==
    LET asked == seq + extend_to
        new == IF asked > max_live_until_ledger THEN max_live_until_ledger ELSE asked
    IN  IF new > live /\ live - seq <= extend_to - DAY_IN_LEDGERS THEN new ELSE live

extend_instance == [instance EXCEPT !.live = extend_persistent(@, INSTANCE_EXTEND_AMOUNT)]

ExtendInstance == instance.info # None /\ instance' = extend_instance

-----------------------------------------------------------------------------
(* Classic balances.  world.terms[a] holds the limit and the liabilities   *)
(* of a's trustline, and the number of entries its account pays for.       *)

get_min_max_trustline_balance(t) ==
    IF t.limit < t.buying THEN {} ELSE {<<t.selling, t.limit - t.buying>>}

get_min_max_account_balance(t) ==
    {<<t.net_entries * BaseReserve + t.selling, I64Max - t.buying>>}

MinMax(a) ==
    IF IsNative THEN get_min_max_account_balance(world.terms[a])
    ELSE get_min_max_trustline_balance(world.terms[a])

(* Mutant: the limit and the liabilities are not looked at. *)
transfer_classic_entry_unbounded(en, a, amount) ==
    IF en[a] = None \/ en[a].amount + amount < 0 THEN {} ELSE {[en EXCEPT ![a].amount = @ + amount]}

(* transfer_account_balance and transfer_trustline_balance. *)
transfer_classic_entry(en, a, amount) ==
    LET new == en[a].amount + amount
    IN  IF en[a] = None THEN {}
        ELSE {[en EXCEPT ![a].amount = new] :
                m \in {m \in MinMax(a) : new <= I64Max /\ m[1] <= new /\ new <= m[2]}}

transfer_classic_balance(en, a, amount) ==
    IF is_issuer(a) THEN {en} ELSE transfer_classic_entry(en, a, amount)

is_account_authorized(en, a) ==
    IsNative \/ is_issuer(a) \/ (en[a] # None /\ en[a].authorized)

(* A trustline that is already as asked is left alone; otherwise the       *)
(* Authorized flag and AuthorizedToMaintainLiabilities change places.      *)
set_authorization(en, a, authorize) ==
    IF IsNative \/ is_issuer(a) \/ en[a] = None THEN {}
    ELSE IF en[a].authorized = authorize THEN {en}
    ELSE {[en EXCEPT ![a].authorized = authorize, ![a].maintain = ~authorize]}

-----------------------------------------------------------------------------
(* Balances of any address.                                                *)

is_authorized(en, a) ==
    IF a \in Accounts THEN is_account_authorized(en, a)
    ELSE IF en[a] # None THEN en[a].authorized
    ELSE ~is_asset_issuer_flag_set("required")

NewBalance(authorize) ==
    [amount |-> 0, authorized |-> authorize, clawback |-> is_asset_issuer_flag_set("clawback"),
     live |-> seq + MinPersistentTtl - 1]

(* put_contract_data keeps the live-until ledger of an existing entry.     *)
write_contract_balance(en, a, b) ==
    [en EXCEPT ![a] = [b EXCEPT !.live = extend_persistent(@, BALANCE_EXTEND_AMOUNT)]]

(* receive_balance once the receiver is known to be authorized. *)
credit_balance(en, a, amount) ==
    LET b == IF en[a] # None THEN en[a] ELSE NewBalance(TRUE)
    IN  IF a \in Accounts
        THEN IF amount > I64Max THEN {} ELSE transfer_classic_balance(en, a, amount)
        ELSE IF b.amount + amount > I128Max THEN {}
        ELSE {write_contract_balance(en, a, [b EXCEPT !.amount = @ + amount])}

receive_balance(en, a, amount) ==
    IF is_authorized(en, a) THEN credit_balance(en, a, amount) ELSE {}

spend_balance_no_authorization_check(en, a, amount) ==
    IF a \in Accounts
    THEN IF amount > I64Max THEN {} ELSE transfer_classic_balance(en, a, -amount)
    ELSE IF en[a] = None THEN IF amount > 0 THEN {} ELSE {en}
    ELSE IF en[a].amount < amount THEN {}
    ELSE {write_contract_balance(en, a, [en[a] EXCEPT !.amount = @ - amount])}

spend_balance(en, a, amount) ==
    IF is_authorized(en, a) THEN spend_balance_no_authorization_check(en, a, amount) ELSE {}

write_authorization(en, a, authorize) ==
    IF ~authorize /\ ~is_asset_issuer_flag_set("revocable") THEN {}
    ELSE IF a \in Accounts THEN set_authorization(en, a, authorize)
    ELSE LET b == IF en[a] # None THEN en[a] ELSE NewBalance(authorize)
         IN  {write_contract_balance(en, a, [b EXCEPT !.authorized = authorize])}

check_clawbackable(a) ==
    /\ a \in Accounts => ~IsNative /\ ~is_issuer(a)
    /\ entry[a] # None /\ entry[a].clawback

-----------------------------------------------------------------------------
(* Allowances: temporary entries with an expiration of their own.          *)

read_allowance(p) ==
    IF allowance[p] = None \/ allowance[p].live_until < seq THEN 0 ELSE allowance[p].amount

(* live is the entry's live-until ledger, live_until the one stored in it. *)
(* The entry is extended only if live_until exceeds the stored one.        *)
write_allowance(p, amount, live_until) ==
    LET old == allowance[p]
        live == IF old = None THEN seq + MinTempTtl - 1 ELSE old.live
        extends == amount > 0 /\ (IF old = None THEN 0 ELSE old.live_until) < live_until
                   /\ live_until > live
    IN  IF live_until > max_live_until_ledger \/ (amount > 0 /\ live_until < seq) THEN {}
        ELSE IF old = None /\ amount <= 0 THEN {allowance}
        ELSE {[allowance EXCEPT ![p] = [amount |-> amount, live_until |-> live_until,
                                        live |-> IF extends THEN live_until ELSE live]]}

(* Mutant: the remaining allowance is not written back. *)
spend_allowance_unwritten(p, amount) == IF read_allowance(p) < amount THEN {} ELSE {allowance}

spend_allowance(p, amount) ==
    IF read_allowance(p) < amount THEN {}
    ELSE IF amount > 0
         THEN write_allowance(p, read_allowance(p) - amount, allowance[p].live_until)
    ELSE {allowance}

-----------------------------------------------------------------------------
(* Events.  supply follows them: an observer of the events who knows what  *)
(* was in circulation before the contract was deployed.                    *)

Emitted(type, amount) ==
    supply' = CASE type = "mint" -> supply + amount
                [] type \in {"burn", "clawback"} -> supply - amount
                [] OTHER -> supply

(* Mutant: the issuer is looked for on the receiving side only. *)
event_transfer_without_mint(from, to, amount) ==
    Emitted(IF from = to THEN "transfer" ELSE IF is_issuer(to) THEN "burn" ELSE "transfer", amount)

transfer_maybe_with_issuer(from, to, amount) ==
    Emitted(IF from = to THEN "transfer"
            ELSE IF is_issuer(from) THEN "mint"
            ELSE IF is_issuer(to) THEN "burn"
            ELSE "transfer", amount)

-----------------------------------------------------------------------------
(* The contract's functions.  The authorization of an address is required  *)
(* through the authorization manager (Auth); a call is considered only     *)
(* with the authorization it requires.                                     *)

read_administrator == instance.admin

HasAdmin == instance.info # None /\ read_administrator # None

Spent(p, amount) == granted' = [granted EXCEPT ![p].amount = @ - amount]

init_asset(asset) ==
    /\ instance.info = None
    /\ validate_asset(asset)
    /\ asset = world.asset      \* the contract's id is derived from the asset
    /\ instance' = [instance EXCEPT !.info = asset,
                                    !.admin = IF asset.type = "native" THEN None ELSE Issuer]
    /\ UNCHANGED <<world, seq, entry, allowance, supply, granted>>

approve(p, amount, live_until) ==
    /\ check_nonnegative_amount(amount)
    /\ ExtendInstance
    /\ allowance' \in write_allowance(p, amount, live_until)
    /\ granted' = [granted EXCEPT ![p] = [amount |-> amount,
                                          until |-> IF amount = 0 THEN 0 ELSE live_until]]
    /\ UNCHANGED <<world, seq, entry, supply>>

transfer(from, to, amount) ==
    /\ check_nonnegative_amount(amount)
    /\ ExtendInstance
    /\ \E spent \in spend_balance(entry, from, amount) : entry' \in receive_balance(spent, to, amount)
    /\ transfer_maybe_with_issuer(from, to, amount)
    /\ UNCHANGED <<world, seq, allowance, granted>>

transfer_from(p, to, amount) ==
    /\ check_nonnegative_amount(amount)
    /\ ExtendInstance
    /\ allowance' \in spend_allowance(p, amount)
    /\ \E spent \in spend_balance(entry, p[1], amount) : entry' \in receive_balance(spent, to, amount)
    /\ transfer_maybe_with_issuer(p[1], to, amount)
    /\ Spent(p, amount)
    /\ UNCHANGED <<world, seq>>

burn(from, amount) ==
    /\ check_nonnegative_amount(amount)
    /\ ExtendInstance
    /\ check_non_native
    /\ check_not_issuer(from)
    /\ entry' \in spend_balance(entry, from, amount)
    /\ Emitted("burn", amount)
    /\ UNCHANGED <<world, seq, allowance, granted>>

burn_from(p, amount) ==
    /\ check_nonnegative_amount(amount)
    /\ ExtendInstance
    /\ check_non_native
    /\ check_not_issuer(p[1])
    /\ allowance' \in spend_allowance(p, amount)
    /\ entry' \in spend_balance(entry, p[1], amount)
    /\ Emitted("burn", amount)
    /\ Spent(p, amount)
    /\ UNCHANGED <<world, seq>>

clawback(from, amount) ==
    /\ check_nonnegative_amount(amount)
    /\ HasAdmin
    /\ ExtendInstance
    /\ check_clawbackable(from)
    /\ check_not_issuer(from)
    /\ entry' \in spend_balance_no_authorization_check(entry, from, amount)
    /\ Emitted("clawback", amount)
    /\ UNCHANGED <<world, seq, allowance, granted>>

mint(to, amount) ==
    /\ check_nonnegative_amount(amount)
    /\ HasAdmin
    /\ ExtendInstance
    /\ check_not_issuer(to)
    /\ entry' \in receive_balance(entry, to, amount)
    /\ Emitted("mint", amount)
    /\ UNCHANGED <<world, seq, allowance, granted>>

set_authorized(a, authorize) ==
    /\ HasAdmin
    /\ ExtendInstance
    /\ entry' \in write_authorization(entry, a, authorize)
    /\ UNCHANGED <<world, seq, allowance, supply, granted>>

set_admin(new) ==
    /\ HasAdmin
    /\ instance' = [extend_instance EXCEPT !.admin = new]
    /\ UNCHANGED <<world, seq, entry, allowance, supply, granted>>

(* balance extends the entry it reads; allowance and authorized extend     *)
(* nothing but the instance.                                               *)
balance(a) ==
    /\ ExtendInstance
    /\ entry' = IF a \in Contracts /\ entry[a] # None
                THEN write_contract_balance(entry, a, entry[a]) ELSE entry
    /\ UNCHANGED <<world, seq, allowance, supply, granted>>

authorized == ExtendInstance /\ UNCHANGED <<world, seq, entry, allowance, supply, granted>>

(* Between calls a ledger closes; temporary entries that are no longer     *)
(* live are gone, and an approval past its ledger no longer counts.        *)
CloseLedger ==
    /\ seq < MaxSeq
    /\ seq' = seq + 1
    /\ allowance' = [p \in AllowancePairs |->
                        IF allowance[p] # None /\ allowance[p].live < seq + 1 THEN None ELSE allowance[p]]
    /\ granted' = [p \in AllowancePairs |->
                        IF granted[p].until < seq + 1 THEN [amount |-> 0, until |-> 0] ELSE granted[p]]
    /\ UNCHANGED <<world, instance, entry, supply>>

-----------------------------------------------------------------------------

SumAmounts(en, holders) ==
    MapThenSumSet(LAMBDA a : IF en[a] = None THEN 0 ELSE en[a].amount, holders)

Holders == Addresses \ (IF world.asset.type = "native" THEN {} ELSE {Issuer})

Init ==
    /\ world \in Worlds
    /\ seq = 0
    /\ instance = [info |-> None, admin |-> None, live |-> MinPersistentTtl - 1]
    /\ entry = [a \in Addresses |-> IF a \in Accounts THEN world.classic[a] ELSE None]
    /\ allowance = [p \in AllowancePairs |-> None]
    /\ supply = SumAmounts(entry, Holders)
    /\ granted = [p \in AllowancePairs |-> [amount |-> 0, until |-> 0]]

Next ==
    \/ \E asset \in AssetArgs : init_asset(asset)
    \/ \E p \in AllowancePairs, amount \in Amounts :
        \/ \E l \in LiveUntils : approve(p, amount, l)
        \/ \E to \in Addresses : transfer_from(p, to, amount)
        \/ burn_from(p, amount)
    \/ \E a \in Addresses, amount \in Amounts :
        \/ \E to \in Addresses : transfer(a, to, amount)
        \/ burn(a, amount)
        \/ clawback(a, amount)
        \/ mint(a, amount)
    \/ \E a \in Addresses :
        \/ \E b \in BOOLEAN : set_authorized(a, b)
        \/ set_admin(a)
        \/ balance(a)
    \/ authorized
    \/ CloseLedger

Spec == Init /\ [][Next]_vars

-----------------------------------------------------------------------------
(* Every balance fits its type and its terms: a trustline or an account    *)
(* between its liabilities (and reserve) and its limit, a contract balance *)
(* a non-negative i128; no allowance entry outlives the network's maximum. *)
TypeOK ==
    /\ seq \in 0..MaxSeq
    /\ instance.admin \in Addresses \cup {None}
    /\ instance.info \in {None, world.asset}
    /\ \A a \in Contracts : entry[a] # None => entry[a].amount \in 0..I128Max
    /\ instance.info # None =>
        \A a \in Accounts \cap Holders : entry[a] # None =>
            \E m \in MinMax(a) : entry[a].amount \in m[1]..m[2]
    /\ \A p \in AllowancePairs :
        allowance[p] # None => /\ allowance[p].amount \in 0..I128Max
                               /\ allowance[p].live \in seq..max_live_until_ledger

(* The events account for the supply: whatever combination of transfers,   *)
(* issuer transfers, mints, burns and clawbacks is made, the balances of   *)
(* all holders add up to what mint, burn and clawback events say           *)
(* (event.rs: transfer_maybe_with_issuer; balance.rs on both sides).       *)
SupplyMatchesEvents == supply = SumAmounts(entry, Holders)

(* While an address is not authorized - deauthorized, or never authorized  *)
(* under AUTH_REQUIRED - only a clawback changes its balance, whichever    *)
(* call it takes part in (is_authorized is checked in spend_balance and    *)
(* receive_balance and bypassed in clawback).                              *)
FrozenOnlyClawedBack ==
    [][\A a \in Holders :
        (instance.info # None /\ ~is_authorized(entry, a)) =>
            \/ SumAmounts(entry', {a}) = SumAmounts(entry, {a})
            \/ \E amount \in Amounts : clawback(a, amount)]_vars

(* A spender can never move more than the last approval left, and nothing  *)
(* after its live_until_ledger, whatever is approved, spent, cleared and   *)
(* expired before (allowance.rs: read_allowance, spend_allowance).         *)
SpendableWithinApproval ==
    \A p \in AllowancePairs : read_allowance(p) <= granted[p].amount

(* An approved allowance can be spent up to and including its              *)
(* live_until_ledger: the temporary entry that holds it lives that long    *)
(* (allowance.rs: write_allowance extends the entry to live_until).        *)
AllowanceLastsUntilItsLedger ==
    \A p \in AllowancePairs : read_allowance(p) >= granted[p].amount
=============================================================================
