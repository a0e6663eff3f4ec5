--------------------------------- MODULE Auth ---------------------------------
(***************************************************************************)
(* The authorization manager in enforcing mode (auth.rs) under the frames  *)
(* of one transaction (host/frame.rs, host/lifecycle.rs,                   *)
(* builtin_contracts/account_contract.rs): contracts call each other, ask  *)
(* for authorization, deploy contracts and authorize sub-calls on their    *)
(* own behalf; frames fail and roll the trackers and the consumed nonces   *)
(* back; contract accounts authenticate by running their __check_auth.     *)
(*                                                                         *)
(* stack[1] is the host function's frame; stack[i + 1] is the frame i of   *)
(* the manager's call_stack, so match_stack[i] of an account tracker is    *)
(* about stack[i + 1].                                                     *)
(***************************************************************************)
EXTENDS InvocationTracker, AccountSigners

CONSTANTS
    Transactions,  \* the transactions considered (see Transaction)
    DepthLimit,    \* DEFAULT_HOST_DEPTH_LIMIT
    MaxInvokers    \* bound on live invoker contract trackers

VARIABLES
    tx,       \* the transaction and the world it runs in; never changes
    stack,    \* the frames, the host function's first
    accounts, \* account_trackers: Trackers -> invocation tracker
    verified, \* the account trackers that are authenticated
    borrowed, \* the account trackers in the middle of authentication
    invokers, \* invoker_contract_trackers: [addr, made, t]
    nonces,   \* the nonce entries in storage
    err,      \* the error being propagated, or "Ok"
    grants    \* history: how often each node has authorized a surviving call

vars == <<tx, stack, accounts, verified, borrowed, invokers, nonces, err, grants>>

Contracts == tx.contracts      \* addresses of contracts that guests call
NewContracts == tx.created     \* addresses creation may give its constructor frame
Addresses == tx.addresses      \* addresses authorization is required from
Entries == tx.entries          \* its authorization entries, a sequence
UsedNonces == tx.used          \* <<address, nonce>> pairs the ledger already holds
InvokerTrees == tx.trees       \* the entries that contracts may authorize as invokers
Trackers == DOMAIN Entries

(* AuthorizedFunction.  CreateContractHostFn of a Wasm contract, with or   *)
(* without constructor arguments, and of a Stellar asset contract.         *)
Create == <<"host", "create_contract">>
CreateAsset == <<"host", "create_asset">>
Fn(c) == <<c, "call">>
CheckAuth(c) == <<c, "__check_auth">>
Constructor(c) == <<c, "__constructor">>

(* from_authorization_entry: the credentials are the transaction source    *)
(* account's, or an address with a nonce, the last ledger the signature is *)
(* good for, and signatures (of a classic account; a contract account      *)
(* looks at them in its __check_auth).                                     *)
IsEntry(e) ==
    /\ IsTree(e.tree)
    /\ e.cred \in {"source", "account", "contract"}
    /\ e.until \in Nat
    /\ DOMAIN e.sigs = 1..Len(e.sigs)
    /\ \A k \in DOMAIN e.sigs : e.sigs[k].key \in Nat \ {0}

(* InvokerContractAuthEntry: a creation has no sub-invocations.            *)
IsInvokerEntry(t) ==
    /\ IsTree(t)
    /\ \A n \in DOMAIN t.fns : t.fns[n] \in {Create, CreateAsset} =>
           \A m \in DOMAIN t.fns : t.parent[m] # n

ASSUME AuthAssumption ==
    /\ \A x \in Transactions :
          /\ DOMAIN x.entries = 1..Len(x.entries) /\ Len(x.entries) \in Nat
          /\ \A i \in DOMAIN x.entries :
                IsEntry(x.entries[i]) /\ x.entries[i].addr \in x.addresses
          /\ \A t \in x.trees : IsInvokerEntry(t)
    /\ DepthLimit \in Nat /\ MaxInvokers \in Nat

Top == stack[Len(stack)]
Running == stack # <<>> /\ err = "Ok"
Recoverable == err # "InternalError"

-----------------------------------------------------------------------------
(* Frames.                                                                 *)

(* AuthorizationManager::snapshot and the storage of the RollbackPoint. A  *)
(* borrowed tracker has no snapshot.                                       *)
snapshot ==
    [exhausted |-> [i \in Trackers |-> invocation_snapshot(accounts[i])],
     verified |-> verified, borrowed |-> borrowed,
     invokers |-> [j \in DOMAIN invokers |-> invocation_snapshot(invokers[j].t)],
     nonces |-> nonces, grants |-> grants]

Frame(kind, fn, try, auth) ==
    [kind |-> kind, fn |-> fn, try |-> try, auth |-> auth, step |-> 0,
     deployer |-> Create, snap |-> snapshot]

HostFrame == Frame("host", <<"host", "invoke">>, FALSE, 0)

(* push_tracker_frame on given trackers.                                   *)
(* Mutant: trackers in the middle of authentication are pushed too.        *)
PushAllAccounts(acc, busy) == [i \in Trackers |-> push_frame(acc[i])]

PushAccounts(acc, busy) ==
    [i \in Trackers |-> IF i \in busy THEN acc[i] ELSE push_frame(acc[i])]

PushInvokers(inv) == [j \in DOMAIN inv |-> [inv[j] EXCEPT !.t = push_frame(@)]]

PopAccounts(acc, busy) ==
    [i \in Trackers |-> IF i \in busy THEN acc[i] ELSE pop_frame(acc[i])]

(* Trackers whose stack is empty after the pop are dropped from the end.   *)
(* Mutant: only the last tracker is looked at.                             *)
PopLastInvoker(inv) ==
    LET popped == [j \in DOMAIN inv |-> [inv[j] EXCEPT !.t = pop_frame(@)]]
        n == Len(inv)
    IN  IF n > 0 /\ popped[n].t.match = <<>> THEN SubSeq(popped, 1, n - 1) ELSE popped

PopInvokers(inv) ==
    LET popped == [j \in DOMAIN inv |-> [inv[j] EXCEPT !.t = pop_frame(@)]]
        InScope == {j \in DOMAIN inv : popped[j].t.match # <<>>}
        keep == IF InScope = {} THEN 0 ELSE CHOOSE j \in InScope : \A i \in InScope : i <= j
    IN  SubSeq(popped, 1, keep)

(* AuthorizationManager::rollback, from the snapshot s of the frame.       *)
RollbackAccounts(s) ==
    [i \in Trackers |-> IF i \in s.borrowed THEN accounts[i]
                        ELSE rollback(accounts[i], s.exhausted[i])]

(* Mutant: the verified flags survive a failed call.                       *)
RollbackVerifiedKept(s) == verified

RollbackVerified(s) == (s.verified \ s.borrowed) \union (verified \intersect s.borrowed)

RollbackInvokers(s) ==
    [j \in DOMAIN s.invokers |-> [invokers[j] EXCEPT !.t = rollback(@, s.invokers[j])]]

RollbackFails(s) ==
    \/ \E i \in borrowed : i \notin s.borrowed
    \/ Len(invokers) < Len(s.invokers)

-----------------------------------------------------------------------------

Init ==
    /\ tx \in Transactions
    /\ accounts = [i \in Trackers |-> new(Entries[i].tree)]
    /\ verified = {}
    /\ borrowed = {}
    /\ invokers = <<>>
    /\ nonces = UsedNonces
    /\ err = "Ok"
    /\ grants = [i \in Trackers |-> [n \in DOMAIN Entries[i].tree.fns |-> 0]]
    /\ stack = <<HostFrame>>

InContract == Running /\ Top.kind = "contract"

OnStack(c) == \E i \in DOMAIN stack : stack[i].kind = "contract" /\ stack[i].fn[1] = c

(* ContractReentryMode::SelfAllowed: the contract may be the current one.  *)
SelfReentryOnly(c) ==
    LET frames == {i \in DOMAIN stack : stack[i].kind = "contract"}
    IN  \A i \in frames : stack[i].fn[1] = c => \A j \in frames : j <= i

(* The context stack: contract creation pushes the manager's frame only.   *)
AtDepthLimit == Len(SelectSeq(stack, LAMBDA f : f.kind # "create")) >= DepthLimit

(* with_frame and push_context of a contract frame. *)
PushContract(fn, try, st) ==
    \/ /\ AtDepthLimit
       /\ stack' = st
       /\ err' = IF try THEN "Ok" ELSE "ExceededLimit"
       /\ UNCHANGED <<accounts, verified, borrowed, invokers, nonces, grants>>
    \/ /\ ~AtDepthLimit
       /\ stack' = Append(st, Frame("contract", fn, try, 0))
       /\ accounts' = PushAccounts(accounts, borrowed)
       /\ invokers' = PushInvokers(invokers)
       /\ UNCHANGED <<verified, borrowed, nonces, err, grants>>

(* The host function makes one call or creates one contract.               *)
HostStep == Top.kind = "host" /\ Top.step = 0
Stepped(k) == [stack EXCEPT ![Len(stack)].step = k]

(* The host function InvokeContract, and the guests' call and try_call.  A *)
(* refused re-entry is a GuestError, or nothing under try_call.            *)
Call(c, try) ==
    /\ Running
    /\ ~OnStack(c)
    /\ \/ Top.kind = "contract" /\ PushContract(Fn(c), try, stack)
       \/ HostStep /\ ~try /\ PushContract(Fn(c), FALSE, Stepped(1))
    /\ UNCHANGED tx

(* A contract fails, or contract creation does after it is authorized.     *)
GuestError ==
    /\ Running
    /\ \/ Top.kind = "contract"
       \/ Top.kind = "create" /\ Top.step > 0
    /\ err' = "ContractError"
    /\ UNCHANGED <<stack, accounts, verified, borrowed, invokers, nonces, grants>>
    /\ UNCHANGED tx

(* to_authorized_invocation: "Stellar Asset contract creation can't be     *)
(* authorized".                                                            *)
to_authorized_invocation(entry) ==
    [tree |-> entry, err |-> IF CreateAsset \in {entry.fns[n] : n \in DOMAIN entry.fns}
                             THEN "InvalidInput" ELSE "Ok"]

(* authorize_as_curr_contract with one entry.                              *)
(* Mutant: the new tracker counts the current frame.                       *)
AuthorizeWithCurrentFrame(entry) ==
    LET inv == to_authorized_invocation(entry) IN
    /\ InContract
    /\ Len(invokers) < MaxInvokers
    /\ err' = inv.err
    /\ invokers' = IF inv.err # "Ok" THEN invokers
                   ELSE Append(invokers, [addr |-> Top.fn[1], made |-> Len(stack),
                                          t |-> push_frame(new(inv.tree))])
    /\ UNCHANGED <<tx, stack, accounts, verified, borrowed, nonces, grants>>

AuthorizeAsCurrContract(entry) ==
    LET inv == to_authorized_invocation(entry) IN
    /\ InContract
    /\ Len(invokers) < MaxInvokers
    /\ err' = inv.err
    /\ invokers' = IF inv.err # "Ok" THEN invokers
                   ELSE Append(invokers, [addr |-> Top.fn[1], made |-> Len(stack),
                                          t |-> new(inv.tree)])
    /\ UNCHANGED <<tx, stack, accounts, verified, borrowed, nonces, grants>>

-----------------------------------------------------------------------------
(* require_auth for address a and the function fn of the current frame.    *)
(* st is the stack to continue with.                                       *)

(* maybe_check_invoker_contract_auth: the direct caller.                   *)
IsDirectInvoker(a) ==
    /\ Len(stack) >= 3
    /\ LET f == stack[Len(stack) - 1] IN f.kind = "contract" /\ f.fn[1] = a

InvokerMatches(a, fn) ==
    {j \in DOMAIN invokers : /\ Len(stack) >= 3
                             /\ invokers[j].addr = a
                             /\ find_match(invokers[j].t, fn, TRUE) # 0}

(* require_auth_enforcing: a root may be matched only when no tracker of   *)
(* the address is active with the current frame unmatched.                 *)
(* Mutant: the test for the current frame is the wrong way round.          *)
has_active_matched_tracker(a) ==
    \E i \in Trackers \ borrowed : /\ Entries[i].addr = a
                                   /\ is_active(accounts[i])
                                   /\ current_frame_is_already_matched(accounts[i])

has_active_tracker(a) ==
    \E i \in Trackers \ borrowed : /\ Entries[i].addr = a
                                   /\ is_active(accounts[i])
                                   /\ ~current_frame_is_already_matched(accounts[i])

AccountMatches(a, fn) ==
    {i \in Trackers \ borrowed : /\ Entries[i].addr = a
                                 /\ find_match(accounts[i], fn, ~has_active_tracker(a)) # 0}

First(S) == CHOOSE i \in S : \A j \in S : i <= j

(* A tracker before the one that matches may fail the walk of its stack.   *)
FailsWalk(t) == ~current_frame_is_already_matched(t) /\ BadStack(t)

WalkFails(a) ==
    \/ \E j \in DOMAIN invokers : invokers[j].addr = a /\ FailsWalk(invokers[j].t)
    \/ \E i \in Trackers \ borrowed : Entries[i].addr = a /\ FailsWalk(accounts[i])

(* verify_and_consume_nonce: the error, and the nonces after it.           *)
NonceKey(i) == <<Entries[i].addr, Entries[i].nonce>>

NonceError(i) ==
    IF Entries[i].cred = "source" THEN "Ok"
    ELSE IF Entries[i].until \notin tx.now..tx.latest THEN "InvalidInput"
    ELSE IF NonceKey(i) \in nonces THEN "ExistingValue"
    ELSE "Ok"

NoncesAfter(i) ==
    IF Entries[i].cred = "source" THEN nonces ELSE nonces \union {NonceKey(i)}

(* Mutant: the nonce of a verified entry is not stored.                    *)
VerifyWithoutNonce(i) ==
    /\ err' = NonceError(i)
    /\ verified' = IF NonceError(i) = "Ok" THEN verified \union {i} ELSE verified
    /\ UNCHANGED nonces

Verify(i) ==
    /\ err' = NonceError(i)
    /\ verified' = IF NonceError(i) = "Ok" THEN verified \union {i} ELSE verified
    /\ nonces' = IF NonceError(i) = "Ok" THEN NoncesAfter(i) ELSE nonces

Granted(i, n) == [grants EXCEPT ![i][n] = @ + 1]

(* AccountAuthorizationTracker::authenticate.  A classic account's         *)
(* signatures are checked at once; a contract account runs __check_auth in *)
(* a frame of its own while the tracker stays borrowed.                    *)
Authenticates(i) ==
    \/ Entries[i].cred = "source"
    \/ /\ Entries[i].addr \in DOMAIN tx.accounts
       /\ check_account_authentication(tx.accounts[Entries[i].addr], Entries[i].sigs)

Authenticated(i, st) ==
    /\ Entries[i].cred # "contract"
    /\ stack' = st
    /\ IF Authenticates(i) THEN Verify(i)
       ELSE err' = "InvalidAction" /\ UNCHANGED <<verified, nonces>>
    /\ UNCHANGED <<borrowed, invokers>>

(* invocation_tree_to_auth_contexts: __check_auth is given the whole tree, *)
(* which must not create asset contracts.                                  *)
HasAuthContexts(i) == \A n \in Nodes(accounts[i]) : accounts[i].tree.fns[n] # CreateAsset

CheckAuthCallable(i) == HasAuthContexts(i) /\ SelfReentryOnly(Entries[i].addr) /\ ~AtDepthLimit

StartCheckAuth(i, n, st, acc) ==
    /\ Entries[i].cred = "contract"
    /\ CheckAuthCallable(i)
    /\ borrowed' = borrowed \union {i}
    /\ accounts' = PushAccounts(acc, borrowed')
    /\ invokers' = PushInvokers(invokers)
    /\ stack' = Append(st, [Frame("contract", CheckAuth(Entries[i].addr), FALSE, i) EXCEPT
                            !.snap = [@ EXCEPT !.borrowed = borrowed', !.grants = Granted(i, n)]])
    /\ UNCHANGED <<verified, nonces, err>>

CheckAuthRefused(i, st) ==
    /\ Entries[i].cred = "contract"
    /\ ~CheckAuthCallable(i)
    /\ stack' = st
    /\ err' = "InvalidAction"
    /\ UNCHANGED <<borrowed, verified, invokers, nonces>>

AuthorizedByInvoker(a, fn, st) ==
    LET j == First(InvokerMatches(a, fn))
        t == invokers[j].t
        n == find_match(t, fn, TRUE)
    IN
    /\ InvokerMatches(a, fn) # {}
    /\ invokers' = [invokers EXCEPT ![j].t = extend_match(t, n)]
    /\ err' = IF Underflows(t) THEN "InternalError" ELSE "Ok"
    /\ stack' = st
    /\ UNCHANGED <<accounts, verified, borrowed, nonces, grants>>

AuthorizedByAccount(a, fn, st) ==
    LET i == First(AccountMatches(a, fn))
        n == find_match(accounts[i], fn, ~has_active_tracker(a))
        acc == [accounts EXCEPT ![i] = extend_match(@, n)]
    IN
    /\ AccountMatches(a, fn) # {}
    /\ grants' = Granted(i, n)
    /\ \/ /\ i \in verified
          /\ stack' = st /\ accounts' = acc
          /\ UNCHANGED <<verified, borrowed, invokers, nonces, err>>
       \/ /\ i \notin verified
          /\ \/ Authenticated(i, st) /\ accounts' = acc
             \/ CheckAuthRefused(i, st) /\ accounts' = acc
             \/ StartCheckAuth(i, n, st, acc)

Unauthorized(a, fn, st) ==
    /\ AccountMatches(a, fn) = {}
    /\ err' = "InvalidAction"
    /\ stack' = st
    /\ UNCHANGED <<accounts, verified, borrowed, invokers, nonces, grants>>

require_auth(a, fn, st) ==
    \/ /\ IsDirectInvoker(a)
       /\ stack' = st
       /\ UNCHANGED <<accounts, verified, borrowed, invokers, nonces, err, grants>>
    \/ /\ ~IsDirectInvoker(a)
       /\ IF WalkFails(a)
          THEN /\ err' = "InternalError"
               /\ UNCHANGED <<stack, accounts, verified, borrowed, invokers, nonces, grants>>
          ELSE \/ AuthorizedByInvoker(a, fn, st)
               \/ /\ InvokerMatches(a, fn) = {}
                  /\ AuthorizedByAccount(a, fn, st) \/ Unauthorized(a, fn, st)

RequireAuth(a) == InContract /\ require_auth(a, Top.fn, stack) /\ UNCHANGED tx

-----------------------------------------------------------------------------
(* create_contract_internal: the manager's frame is pushed by hand and     *)
(* popped without a rollback, whether the creation succeeded or not.       *)

CreateContract(deployer) ==
    /\ Running
    /\ Top.kind = "contract" \/ HostStep
    /\ stack' = Append(IF HostStep THEN Stepped(1) ELSE stack,
                      [Frame("create", Create, FALSE, 0) EXCEPT !.deployer = deployer])
    /\ accounts' = PushAccounts(accounts, borrowed)
    /\ invokers' = PushInvokers(invokers)
    /\ UNCHANGED <<verified, borrowed, nonces, err, grants>>
    /\ UNCHANGED tx

CreateAuth ==
    /\ Running
    /\ Top.kind = "create" /\ Top.step = 0
    /\ require_auth(Top.deployer, Create, Stepped(1))
    /\ UNCHANGED tx

CallConstructor(c) ==
    /\ Running
    /\ Top.kind = "create" /\ Top.step = 1
    /\ ~OnStack(c)
    /\ PushContract(Constructor(c), FALSE, Stepped(2))
    /\ UNCHANGED tx

PopCreate ==
    /\ stack # <<>>
    /\ Top.kind = "create"
    /\ Top.step > 0 \/ err # "Ok"
    /\ stack' = SubSeq(stack, 1, Len(stack) - 1)
    /\ accounts' = PopAccounts(accounts, borrowed)
    /\ invokers' = PopInvokers(invokers)
    /\ UNCHANGED <<verified, borrowed, nonces, err, grants>>
    /\ UNCHANGED tx

-----------------------------------------------------------------------------
(* pop_context.                                                            *)

(* A frame returns.  When it was a __check_auth, the tracker is given back *)
(* and the nonce is verified, unless the value returned was not void.      *)
PopOk ==
    LET i == Top.auth IN
    /\ InContract
    /\ stack' = SubSeq(stack, 1, Len(stack) - 1)
    /\ accounts' = PopAccounts(accounts, borrowed)
    /\ invokers' = PopInvokers(invokers)
    /\ borrowed' = borrowed \ {i}
    /\ \/ i = 0 /\ UNCHANGED <<verified, nonces, err>>
       \/ i # 0 /\ Verify(i)
       \/ i # 0 /\ err' = "InvalidAction" /\ UNCHANGED <<verified, nonces>>
    /\ UNCHANGED grants
    /\ UNCHANGED tx

(* The frame fails: rollback comes before the pop.                         *)
AfterFailure(f) ==
    IF f.auth # 0 /\ Recoverable THEN "InvalidAction"
    ELSE IF f.try /\ Recoverable THEN "Ok"
    ELSE err

(* Mutant: the trackers are popped before they are rolled back.            *)
PopFailedPoppingFirst ==
    LET f == Top
        s == f.snap
        inv == PopInvokers(invokers)
    IN
    /\ stack # <<>> /\ err # "Ok" /\ f.kind \in {"contract", "host"}
    /\ err' = IF Len(inv) < Len(s.invokers) THEN "InternalError" ELSE AfterFailure(f)
    /\ accounts' = [i \in Trackers |-> IF i \in s.borrowed THEN accounts[i]
                                       ELSE rollback(pop_frame(accounts[i]), s.exhausted[i])]
    /\ invokers' = inv
    /\ verified' = RollbackVerified(s) /\ nonces' = s.nonces /\ grants' = s.grants
    /\ borrowed' = borrowed \ {f.auth}
    /\ stack' = SubSeq(stack, 1, Len(stack) - 1)
    /\ UNCHANGED tx

PopFailed ==
    LET f == Top
        s == f.snap
    IN
    /\ stack # <<>> /\ err # "Ok" /\ f.kind \in {"contract", "host"}
    /\ IF RollbackFails(s)
       THEN /\ err' = "InternalError"
            /\ UNCHANGED <<accounts, verified, invokers, nonces, grants>>
       ELSE /\ err' = AfterFailure(f)
            /\ accounts' = IF f.kind = "host" THEN RollbackAccounts(s)
                           ELSE PopAccounts(RollbackAccounts(s), borrowed)
            /\ invokers' = IF f.kind = "host" THEN RollbackInvokers(s)
                           ELSE PopInvokers(RollbackInvokers(s))
            /\ verified' = RollbackVerified(s)
            /\ nonces' = s.nonces
            /\ grants' = s.grants
    /\ borrowed' = borrowed \ {f.auth}
    /\ stack' = SubSeq(stack, 1, Len(stack) - 1)
    /\ UNCHANGED tx

(* The host function returned or failed: the transaction is over.          *)
PopHost ==
    /\ Running
    /\ Top.kind = "host" /\ Top.step = 1
    /\ stack' = <<>>
    /\ UNCHANGED <<accounts, verified, borrowed, invokers, nonces, err, grants>>
    /\ UNCHANGED tx

Over == stack = <<>> /\ UNCHANGED vars

Next ==
    \/ \E c \in Contracts, try \in BOOLEAN : Call(c, try)
    \/ \E a \in Addresses : RequireAuth(a) \/ CreateContract(a)
    \/ \E t \in InvokerTrees : AuthorizeAsCurrContract(t)
    \/ \E c \in NewContracts : CallConstructor(c)
    \/ GuestError
    \/ CreateAuth
    \/ PopCreate
    \/ PopOk
    \/ PopFailed
    \/ PopHost
    \/ Over

Spec == Init /\ [][Next]_vars

-----------------------------------------------------------------------------
(* Properties.                                                             *)

(* The matches of t, whose match_stack[1] is about frame first + 1, are a  *)
(* path of its tree from the root down, each node for the very function of *)
(* the frame it is recorded for, and consumed.                             *)
IsPath(t, first) ==
    \A k \in MatchedFrames(t) :
        /\ t.match[k] \in t.exhausted
        /\ t.tree.fns[t.match[k]] = stack[first + k].fn
        /\ LET above == {l \in MatchedFrames(t) : l < k}
           IN  t.tree.parent[t.match[k]] =
                   IF above = {} THEN 0
                   ELSE t.match[CHOOSE l \in above : \A m \in above : m <= l]

(* The frame below which a borrowed tracker stopped following the stack.   *)
FollowedTo(i) ==
    IF i \in borrowed THEN (CHOOSE k \in DOMAIN stack : stack[k].auth = i) - 1
    ELSE Len(stack)

(* last_authorized_invocation_mut finds the right node: the match stack of *)
(* every account tracker stays aligned with the call stack through pushes, *)
(* pops, failures, contract creation and __check_auth, and is a path of    *)
(* the signed tree.                                                        *)
MatchStackIsPath ==
    stack # <<>> /\ err # "InternalError" =>
        \A i \in Trackers : /\ Len(accounts[i].match) = FollowedTo(i) - 1
                            /\ IsPath(accounts[i], 1)

(* is_active: a tracker is active exactly while the frame its root matched *)
(* is on the stack, failed frames included.                                *)
ActiveWhileRootOnStack ==
    stack # <<>> /\ err # "InternalError" =>
        \A i \in Trackers :
            is_active(accounts[i]) <=> \E k \in DOMAIN accounts[i].match : accounts[i].match[k] = 1

(* A signed node authorizes at most one call whose effects survive; a      *)
(* failed call gives its node back.                                        *)
GrantedOnce ==
    err # "InternalError" =>
        \A i \in Trackers : \A n \in Nodes(accounts[i]) :
            grants[i][n] = IF n \in accounts[i].exhausted THEN 1 ELSE 0

(* maybe_authorize_invocation: while the transaction succeeds, an entry    *)
(* that authorized something is authenticated or being authenticated; no   *)
(* entry stays verified when the call it was verified for is rolled back;  *)
(* and the keys that signed a verified entry of a classic account reach    *)
(* its medium threshold, however often one of them signed.                 *)
GrantsAreAuthenticated ==
    err # "InternalError" =>
        \A i \in Trackers :
            /\ err = "Ok" /\ accounts[i].exhausted # {} => i \in verified \union borrowed
            /\ i \in verified => accounts[i].exhausted # {}
            /\ i \in verified /\ Entries[i].cred = "account" =>
                  MeetsMediumThreshold(tx.accounts[Entries[i].addr], Entries[i].sigs)

(* consume_nonce: two entries with one nonce are never both used, a nonce  *)
(* in the ledger is not used again, and the nonces stored are exactly the  *)
(* ones of the entries that are verified.                                  *)
NonceOnce ==
    LET used == {i \in verified : Entries[i].cred # "source"} IN
    err # "InternalError" =>
        /\ \A i \in used : NonceKey(i) \notin UsedNonces /\ Entries[i].until \in tx.now..tx.latest
        /\ \A i, j \in used : NonceKey(i) = NonceKey(j) => i = j
        /\ nonces = UsedNonces \union {NonceKey(i) : i \in used}

(* require_auth_enforcing: "prevents matching sets of disjoint             *)
(* authorization entries to a tree of calls": below the root of one entry  *)
(* of an address, the root of another matches only in a frame that the     *)
(* first one matched too.                                                  *)
DisjointTreesNotAllowed ==
    \A i, j \in Trackers \ borrowed :
        LET s == accounts[i].match
            t == accounts[j].match
        IN  Entries[i].addr = Entries[j].addr =>
                \A k \in DOMAIN s, l \in DOMAIN t :
                    s[k] = 1 /\ t[l] = 1 /\ k < l => s[l] # 0

(* pop_frame: "trackers form a stack where the shorter lifetime trackers   *)
(* are at the top"; each follows the frames above the one that made it, is *)
(* a path of its tree, and never matches the direct callee's frame.        *)
InvokersFormStack ==
    err # "InternalError" =>
        /\ \A j, k \in DOMAIN invokers : j < k => invokers[j].made <= invokers[k].made
        /\ \A j \in DOMAIN invokers :
              LET v == invokers[j] IN
              /\ Len(v.t.match) = Len(stack) - v.made
              /\ stack[v.made].kind = "contract" /\ stack[v.made].fn[1] = v.addr
              /\ IsPath(v.t, v.made)
              /\ v.t.match # <<>> => v.t.match[1] = 0

(* pop_frame: "tracker only exists for the next sub-contract call (or      *)
(* until the tracker's frame itself is popped)".                           *)
InvokerLivesForOneCall ==
    [][err' # "InternalError" /\ Len(stack') < Len(stack) =>
           \A j \in DOMAIN invokers' : invokers'[j].made < Len(stack')]_vars

(* The internal errors of the manager ("unexpected bad auth borrow", "the  *)
(* number of invoker contract trackers is smaller than in the snapshot",   *)
(* the bad match stacks) are unreachable, but for the contract that        *)
(* authorizes its own running function and then requires it.               *)
InternalErrorsAreOwnEntries ==
    [][err # "InternalError" /\ err' = "InternalError" =>
           \E j \in DOMAIN invokers : /\ invokers[j].made = Len(stack)
                                      /\ invokers[j].t.tree.fns[1] = Top.fn]_vars
=============================================================================
