---------------------------- MODULE MCHostFrames ----------------------------
(***************************************************************************)
(* Instances of HostFrames: ca, cb and cd are contracts, wallet a contract *)
(* account.                                                                *)
(***************************************************************************)
EXTENDS HostFrames

CONSTANTS ca, cb, cd, wallet, k1, k2, v1, h1, h2

(* Upgrades next to a contract account that re-enters itself.              *)
UpgradeTx == [contracts |-> {ca, wallet}, wallets |-> {wallet}, fixed |-> {},
              wasms |-> {h1, h2}, events |-> 1, draws |-> 0]

(* Events, with an instance that cannot be written.                        *)
EventsTx == [contracts |-> {ca, cb}, wallets |-> {}, fixed |-> {cb},
             wasms |-> {h1}, events |-> 2, draws |-> 0]

(* Generators: as many draws as a frame and its retry need.                *)
PrngTx == [contracts |-> {ca, cb}, wallets |-> {}, fixed |-> {ca, cb},
           wasms |-> {h1}, events |-> 0, draws |-> 3]

(* More contracts than the depth limit lets nest.                          *)
DeepTx == [contracts |-> {ca, cb, cd}, wallets |-> {}, fixed |-> {},
           wasms |-> {h1}, events |-> 0, draws |-> 0]

MCTransactions == {UpgradeTx, EventsTx, PrngTx, DeepTx}
=============================================================================
