----------------------------- MODULE LedgerInfo -----------------------------
(***************************************************************************)
(* The ledger parameters the host runs under (ledger_info.rs and           *)
(* host/ledger_info_helper.rs) and the kinds of ledger keys.               *)
(*                                                                         *)
(* Ledger sequence numbers and TTLs are u32 in the code.  U32Max stands    *)
(* for u32::MAX: every addition the code checks is checked here against    *)
(* it, so overflow is reachable with small numbers.                        *)
(***************************************************************************)
EXTENDS Integers

CONSTANTS
    Keys,              \* the ledger keys in play
    Durability,        \* Keys -> "Temporary" | "Persistent" | "Classic"
    Seq0,              \* LedgerInfo.sequence_number
    MinTempTtl,        \* LedgerInfo.min_temp_entry_ttl
    MinPersistentTtl,  \* LedgerInfo.min_persistent_entry_ttl
    MaxTtl,            \* LedgerInfo.max_entry_ttl
    U32Max             \* u32::MAX

U32 == 0..U32Max

Durabilities == {"Temporary", "Persistent", "Classic"}

ASSUME LedgerInfoAssumption ==
    /\ U32Max \in Nat
    /\ Seq0 \in U32
    /\ MinTempTtl \in U32
    /\ MinPersistentTtl \in U32
    /\ MaxTtl \in U32
    /\ Durability \in [Keys -> Durabilities]

saturating_sub(a, b) == IF a >= b THEN a - b ELSE 0

(* min_live_until_ledger_checked and max_live_until_ledger_checked before  *)
(* the overflow check; the result exists only when it fits a u32.          *)
min_live_until_ledger(d) ==
    Seq0 + saturating_sub(IF d = "Temporary" THEN MinTempTtl ELSE MinPersistentTtl, 1)

max_live_until_ledger == Seq0 + saturating_sub(MaxTtl, 1)

Fits(n) == n <= U32Max

(* get_key_durability: accounts and trustlines have none.                  *)
HasTtl(k) == Durability[k] # "Classic"
=============================================================================
