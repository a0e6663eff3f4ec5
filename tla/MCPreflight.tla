----------------------------- MODULE MCPreflight ----------------------------
(***************************************************************************)
(* Instances of Preflight: the keys of MCStorageTxn, without the entries   *)
(* that already live as long as they may.                                  *)
(***************************************************************************)
EXTENDS Preflight

CONSTANTS tmp, per, inst, code, acc, v1, v2

MCDurability == [k \in Keys |-> IF k = tmp THEN "Temporary"
                                ELSE IF k = acc THEN "Classic" ELSE "Persistent"]

(* 0 stands for an entry that does not exist.                              *)
StartCell(k, live) ==
    IF live = 0 THEN None ELSE [val |-> v1, live |-> IF k = acc THEN NoTtl ELSE live]

MCSnapshots ==
    {[k \in Keys |-> IF k \in K THEN StartCell(k, lives[k]) ELSE None] :
        K \in {{tmp, per}, {inst, code}, {acc}}, lives \in [Keys -> {0, 2, 3}]}
MCTouched == [sn \in MCSnapshots |->
                 IF Exists(sn[acc]) THEN {acc}
                 ELSE IF Exists(sn[tmp]) \/ Exists(sn[per]) THEN {tmp, per} ELSE {inst, code}]

(* The executable v1 is a Wasm, v2 the asset contract.                     *)
MCCodeOf == [v \in Values |-> IF v = v1 THEN code ELSE None]
MCExtends == {<<1, 2>>, <<2, 3>>}
=============================================================================
