------------------------------- MODULE MCSac --------------------------------
(***************************************************************************)
(* Instances of Sac: an issuer and a holder account, and a contract.        *)
(***************************************************************************)
EXTENDS Sac

CONSTANTS iss, acc, con

MCAccounts == {iss, acc}
MCContracts == {con}

Terms(limit, selling, buying, entries) ==
    [limit |-> limit, selling |-> selling, buying |-> buying, net_entries |-> entries]

Trustline(amount, auth, claw) ==
    [amount |-> amount, authorized |-> auth, maintain |-> ~auth, clawback |-> claw]

Usd == [type |-> "alphanum4", code |-> <<"alnum", "alnum", "alnum", Zero>>]
BadCode == [type |-> "alphanum4", code |-> <<"alnum", Zero, "alnum", Zero>>]
ShortCode == [type |-> "alphanum12", code |-> [i \in 1..12 |-> IF i = 1 THEN "alnum" ELSE Zero]]

World(asset, flags, terms, line) ==
    [asset |-> asset, flags |-> flags, terms |-> [a \in MCAccounts |-> terms],
     classic |-> [a \in MCAccounts |->
                    IF a = iss /\ asset.type # "native" THEN None ELSE line]]

MCWorlds ==
    { World(Native, {}, Terms(0, 0, 0, 1), Trustline(1, FALSE, FALSE)),
      World(Usd, {}, Terms(2, 0, 1, 2), Trustline(0, TRUE, FALSE)),
      World(Usd, {"required", "revocable"}, Terms(2, 1, 0, 2), Trustline(1, TRUE, FALSE)),
      World(Usd, {"revocable", "clawback"}, Terms(2, 0, 0, 2), Trustline(1, FALSE, TRUE)),
      World(BadCode, {}, Terms(2, 0, 0, 2), Trustline(1, TRUE, FALSE)),
      World(ShortCode, {}, Terms(2, 0, 0, 2), None) }

MCAssetArgs == {Native, Usd, BadCode, ShortCode}
MCAmounts == {-1, 0, 1, 2}
MCPairs == {<<acc, con>>}
=============================================================================
