------------------------------- MODULE MCAuth -------------------------------
(***************************************************************************)
(* Instances of Auth.  ca, cb and cd are contracts, cn is a contract being *)
(* created, wallet is a contract account, user a classic account.          *)
(***************************************************************************)
EXTENDS Auth

CONSTANTS ca, cb, cd, cn, wallet, user

Leaf(f) == [fns |-> <<f>>, parent |-> <<0>>]
Chain(f, g) == [fns |-> <<f, g>>, parent |-> <<0, 1>>]
Fork(f, g, h) == [fns |-> <<f, g, h>>, parent |-> <<0, 1, 1>>]

(* The user's own key is 2; 1 and 3 are signers, and so is a hash.         *)
Account ==
    [id |-> 2, master |-> 1, medium |-> 2,
     signers |-> <<[type |-> "ed25519", key |-> 1, weight |-> 1],
                   [type |-> "hash", key |-> 4, weight |-> 9],
                   [type |-> "ed25519", key |-> 3, weight |-> 300]>>]

Sig(k) == [key |-> k, good |-> TRUE]
TwoKeys == <<Sig(1), Sig(2)>>
OneKey == <<Sig(3)>>
BadSignatures ==
    {<<>>, <<Sig(2), Sig(2)>>, <<Sig(1)>>, <<Sig(3), Sig(4)>>, <<Sig(1), Sig(2), Sig(3)>>,
     <<[key |-> 3, good |-> FALSE]>>}

Now == 3
Latest == 5

Signed(addr, cred, nonce, until, sigs, tree) ==
    [addr |-> addr, cred |-> cred, nonce |-> nonce, until |-> until, sigs |-> sigs, tree |-> tree]

Source(tree) == Signed(user, "source", 0, 0, <<>>, tree)
OfUser(nonce, tree) == Signed(user, "account", nonce, Now, TwoKeys, tree)
OfWallet(nonce, tree) == Signed(wallet, "contract", nonce, Latest, <<>>, tree)

World(contracts, created, addresses, used, trees, entries) ==
    [contracts |-> contracts, created |-> created, addresses |-> addresses, used |-> used,
     trees |-> trees, entries |-> entries, now |-> Now, latest |-> Latest,
     accounts |-> [a \in {user} |-> Account]]

(* Two entries share a nonce; the third needs none.                        *)
AccountTx ==
    World({ca, cb, cd}, {}, {user}, {}, {},
          <<OfUser(1, Fork(Fn(ca), Fn(cb), Fn(cb))), OfUser(1, Leaf(Fn(cb))),
            Source(Chain(Fn(ca), Fn(cd)))>>)

(* The same, the first entry badly signed.                                 *)
BadlySignedTx(sigs) ==
    [AccountTx EXCEPT !.entries[1].sigs = sigs, !.entries[2].sigs = OneKey]

(* The wallet signs twice with one nonce, once for a call that reaches its *)
(* own code, and the user signs for the wallet's __check_auth.             *)
WalletTx ==
    World({ca, cb, cd, wallet}, {}, {user, wallet}, {}, {},
          <<OfWallet(1, Chain(Fn(ca), Fn(wallet))), OfWallet(1, Chain(CheckAuth(wallet), Fn(cb))),
            OfUser(1, Chain(CheckAuth(wallet), Fn(cb)))>>)

(* The user signs a deployment by ca with its constructor, the wallet a    *)
(* direct one; entries have expired, are good for too long or create an    *)
(* asset contract, and one nonce is already used.                          *)
CreateTx ==
    World({ca, cb, cd}, {cn}, {user, wallet}, {<<user, 3>>}, {},
          <<OfUser(1, Chain(Create, Constructor(cn))),
            [OfUser(2, Leaf(Constructor(cn))) EXCEPT !.until = Now - 1],
            OfWallet(1, Leaf(Create)), OfUser(3, Leaf(Fn(ca))),
            Source(Chain(Fn(cb), Create)),
            [OfWallet(2, Leaf(Fn(ca))) EXCEPT !.until = Latest + 1],
            OfWallet(3, Chain(Fn(cb), CreateAsset))>>)

InvokerTx ==
    World({ca, cb, cd}, {}, {ca, cb, user}, {},
          {Leaf(Fn(cd)), Chain(Fn(cb), Fn(cd)), Chain(Fn(cb), CreateAsset)},
          <<Source(Leaf(Fn(cd)))>>)

(* A factory authorizes the deployments of the contracts it calls.         *)
FactoryTx == World({ca, cb}, {cn}, {ca}, {}, {Leaf(Create)}, <<>>)

MCTransactions ==
    {AccountTx, WalletTx, CreateTx, InvokerTx, FactoryTx} \union
    {BadlySignedTx(s) : s \in BadSignatures}
=============================================================================
