--------------------------- MODULE AccountSigners ---------------------------
(***************************************************************************)
(* How a classic account authenticates (account_contract.rs,               *)
(* data_helper.rs).  An account is [id, master, medium, signers]: its own  *)
(* key with the master weight, the medium threshold, and a sequence of     *)
(* [type, key, weight].  Keys are numbers above 0 in the order of their    *)
(* bytes.  A signature is [key, good]: good when it verifies for the       *)
(* payload.                                                                *)
(***************************************************************************)
EXTENDS Integers, Sequences

LOCAL INSTANCE FiniteSetsExt

CONSTANT MaxSignatures   \* MAX_ACCOUNT_SIGNATURES

ASSUME SignersAssumption == MaxSignatures \in Nat

MaxWeight == 255

(* The first Ed25519 signer with the key counts, clamped; 0 for a          *)
(* stranger.  Signers of other types are passed over.                      *)
get_signer_weight_from_account(account, key) ==
    LET found == {i \in DOMAIN account.signers : /\ account.signers[i].type = "ed25519"
                                                 /\ account.signers[i].key = key}
    IN  IF key = account.id THEN account.master
        ELSE IF found = {} THEN 0
        ELSE LET w == account.signers[Min(found)].weight IN IF w > MaxWeight THEN MaxWeight ELSE w

(* The sum of w[k] for the numbers k of S up to n.                         *)
Total(S, w, n) ==
    LET sum[k \in 0..n] ==
            IF k = 0 THEN 0 ELSE IF k \in S THEN sum[k - 1] + w[k] ELSE sum[k - 1]
    IN  sum[n]

SignedWeight(account, sigs) ==
    Total(DOMAIN sigs,
          [i \in DOMAIN sigs |-> get_signer_weight_from_account(account, sigs[i].key)], Len(sigs))

(* Whatever is wrong becomes one error of require_auth, so a Boolean is    *)
(* enough.  The keys are in strictly increasing order: none counts twice.  *)
check_account_authentication(account, sigs) ==
    /\ Len(sigs) \in 1..MaxSignatures
    /\ \A i \in DOMAIN sigs :
          /\ i > 1 => sigs[i - 1].key < sigs[i].key
          /\ sigs[i].good
          /\ get_signer_weight_from_account(account, sigs[i].key) > 0
    /\ SignedWeight(account, sigs) >= account.medium

(* "satisfying the account's classic multisig authorization to its medium  *)
(* threshold" (auth.rs): the keys that signed, each counted once.          *)
MeetsMediumThreshold(account, sigs) ==
    LET keys == {sigs[i].key : i \in {j \in DOMAIN sigs : sigs[j].good}}
        last == IF keys = {} THEN 0 ELSE CHOOSE k \in keys : \A j \in keys : j <= k
    IN  Total(keys, [k \in keys |-> get_signer_weight_from_account(account, k)], last)
            >= account.medium
=============================================================================
