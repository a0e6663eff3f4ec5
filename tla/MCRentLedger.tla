---------------------------- MODULE MCRentLedger ----------------------------
(***************************************************************************)
(* Instances of RentLedger: a persistent entry with an account, or a       *)
(* temporary entry with contract code, that start absent, live or expired; *)
(* one network configuration and one that misses a setting.                *)
(***************************************************************************)
EXTENDS RentLedger

CONSTANTS tmp, per, code, acc

MCDurability == [k \in Keys |-> IF k = tmp THEN "Temporary"
                                ELSE IF k = acc THEN "Classic" ELSE "Persistent"]

Small == [bytes |-> 1, module |-> 0, ext |-> 0]
Large == [bytes |-> 4, module |-> 0, ext |-> 0]
Wasm1 == [bytes |-> 2, module |-> 1, ext |-> 0]
Wasm2 == [bytes |-> 2, module |-> 5, ext |-> 0]
MCValues == {[bytes |-> b, module |-> m, ext |-> e] : b \in 1..4, m \in {0, 1, 5}, e \in {0, 3}}

(* 0 stands for an entry that does not exist.                              *)
StartEntry(k, live) ==
    IF live = 0 THEN None
    ELSE [val |-> IF k = code THEN Wasm1 ELSE Small, live |-> IF k = acc THEN -1 ELSE live]

MCStartLedgers ==
    {[k \in Keys |-> IF k \in K THEN StartEntry(k, lives[k]) ELSE None] :
        K \in {{per, acc}, {tmp, code}},
        lives \in {f \in [Keys -> {0, 2, 4}] : f[acc] = 4 /\ f[code] # 0}}
MCTouched == [l \in MCStartLedgers |-> IF l[acc] = None THEN {tmp, code} ELSE {per, acc}]

Op(op, k, arg) == [op |-> op, k |-> k, arg |-> arg]

Fail == Op("fail", None, 0)
EndTry(start) == Op("end_try", None, start)

(* Sub-calls that fail, by an error of the guest or of the host: entries   *)
(* they touch are loaded before them, after them or by them alone; the     *)
(* last has one more within it.                                            *)
TryPrograms ==
    {<<Op("get", per, 0), Op("put", per, Large), Fail, EndTry(1)>>,
     <<Op("get", per, 0), Fail, EndTry(0)>>,
     <<Op("credit", acc, Small), Op("extend", per, 3), EndTry(0), Op("get", acc, 0)>>,
     <<Op("upload", code, Wasm2), Op("extend", tmp, 9), EndTry(0)>>,
     <<Op("del", tmp, 0), Fail, EndTry(0), Op("put", tmp, Large)>>,
     <<Op("put", tmp, Large), Op("get", code, 0), Fail, EndTry(1), Op("extend", tmp, 9), EndTry(0),
       Op("get", code, 0)>>}

MCPrograms ==
    TryPrograms \union
    UNION {{<<Op("get", k, 0)>>, <<Op("del", k, 0)>>, <<Op("put", k, Large)>>,
            <<Op("put", k, Small), Op("extend", k, 3)>>, <<Op("del", k, 0), Op("put", k, Large)>>}
           : k \in {tmp, per}}
    \union {<<Op("upload", code, Wasm2)>>, <<Op("extend", code, 3)>>,
            <<Op("upload", code, Wasm2), Op("put", tmp, Small)>>,
            <<Op("credit", acc, Small)>>, <<Op("get", acc, 0), Op("put", per, Large)>>}

MCExtensions == {3}

Factor(m, d, a) == [mul |-> m, div |-> d, add |-> a]
MCAdjust == [instructions |-> Factor(3, 2, 1), read_bytes |-> Factor(1, 1, 0),
             write_bytes |-> Factor(1, 1, 0), tx_size |-> Factor(1, 1, 0),
             refundable_fee |-> Factor(1, 1, 0)]

Network ==
    [compute |-> [per_instruction |-> 2, max_instructions |-> 7],
     ledger_cost |-> [per_disk_read_entry |-> 1, per_write_entry |-> 1, per_disk_read_1kb |-> 3,
                      rent |-> [target |-> 4, low |-> 1, high |-> 5, growth |-> 2]],
     ledger_cost_ext |-> [per_write_1kb |-> 3],
     historical |-> [per_historical_1kb |-> 1],
     events |-> [per_event_1kb |-> 2],
     bandwidth |-> [per_tx_size_1kb |-> 1],
     state_archival |-> [persistent_denominator |-> 1, temporary_denominator |-> 2]]

MCSettings == {Network, [Network EXCEPT !.events = None]}
=============================================================================
