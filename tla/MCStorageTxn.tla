---------------------------- MODULE MCStorageTxn ----------------------------
(***************************************************************************)
(* Instances of StorageTxn.  The ledger is at sequence 3; live-until 2 is  *)
(* expired, 3 is the last live ledger, 5 the maximum.  Minimum TTLs give   *)
(* live-until 3 (temporary) and 4 (persistent).  A transaction uses either *)
(* the contract data tmp and per or the contract code and the account acc. *)
(***************************************************************************)
EXTENDS StorageTxn

CONSTANTS tmp, per, code, acc, v1, v2

MCDurability == [k \in Keys |-> IF k = tmp THEN "Temporary"
                                ELSE IF k = acc THEN "Classic" ELSE "Persistent"]

(* 0 stands for an entry that does not exist.                              *)
StartCell(k, live) ==
    IF live = 0 THEN None ELSE [val |-> v1, live |-> IF k = acc THEN NoTtl ELSE live]

MCSnapshots ==
    {[k \in Keys |-> IF k \in K THEN StartCell(k, lives[k]) ELSE None] :
        K \in {{tmp, per}, {code, acc}}, lives \in [Keys -> {0, 2, 3, 5}]}
MCTouched == [sn \in MCSnapshots |->
                 IF Exists(sn[code]) \/ Exists(sn[acc]) THEN {code, acc} ELSE {tmp, per}]
(* Below and above the threshold, at the maximum, past it and past U32Max. *)
MCExtends == {<<0, 1>>, <<1, 2>>, <<2, 3>>, <<2, 4>>, <<2, 1>>}
=============================================================================
