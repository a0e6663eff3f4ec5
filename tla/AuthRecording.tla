---------------------------- MODULE AuthRecording ----------------------------
(***************************************************************************)
(* The authorization manager in recording mode (auth.rs): a simulated      *)
(* transaction records a tree of invocations for every address that is     *)
(* required, failed calls take their records back, and the payloads become *)
(* the entries of the real transaction (e2e_invoke.rs).                    *)
(*                                                                         *)
(* The tree of a tracker (module InvocationTracker) grows as requirements  *)
(* are recorded.  stack[1] is the host function's frame, stack[i + 1] the  *)
(* frame i of the manager's call_stack.  log keeps the run, so that the    *)
(* same run can be repeated against the entries in enforcing mode.         *)
(***************************************************************************)
EXTENDS InvocationTracker, SequencesExt


CONSTANTS
    Contracts,    \* the contracts called
    Handles,      \* the address objects authorization is required through
    AddressOf,    \* Handles -> the address in the object
    Worlds,       \* what the addresses may be: sets of functions address -> kind
    DepthLimit,   \* DEFAULT_HOST_DEPTH_LIMIT
    MaxCalls,     \* bound on the calls of a run
    MaxRequires   \* bound on the requirements of a run

VARIABLES
    AccountKind, \* address -> "source", "account", "wasm", "asset" or "missing"
    root_only,  \* disable_non_root_auth
    stack,      \* the frames: [fn, try, snap]
    trackers,   \* account_trackers: [addr, nonce, t]
    handles,    \* tracker_by_address_handle: Handles -> tracker, 0 for none
    nonces,     \* the nonce entries in storage: <<addr, nonce>>
    drawn,      \* the nonces drawn from the recording PRNG
    footprint,  \* the ledger keys authentication is known to need
    err,        \* the error being propagated, or "Ok"
    log         \* history: the calls, requirements and returns of the run

vars == <<AccountKind, root_only, stack, trackers, handles, nonces, drawn, footprint, err, log>>

Addresses == {AddressOf[h] : h \in Handles}

ASSUME RecordingAssumption ==
    /\ \A w \in Worlds : \A a \in Addresses :
          w[a] \in {"source", "account", "wasm", "asset", "missing"}
    /\ "none" \notin Addresses
    /\ DepthLimit \in Nat /\ MaxCalls \in Nat /\ MaxRequires \in Nat

Top == stack[Len(stack)]
Running == stack # <<>> /\ err = "Ok"
CallStackLen == Len(stack) - 1
Logged(kind) == Cardinality({i \in DOMAIN log : log[i].kind = kind})

(* snapshot: the trackers themselves, the handle map and the storage.      *)
snapshot(ts) == [trackers |-> ts, handles |-> handles, nonces |-> nonces]

Init ==
    /\ AccountKind \in Worlds
    /\ root_only \in BOOLEAN
    /\ stack = <<[fn |-> "host", try |-> FALSE,
                  snap |-> [trackers |-> <<>>, handles |-> [h \in Handles |-> 0], nonces |-> {}]]>>
    /\ trackers = <<>>
    /\ handles = [h \in Handles |-> 0]
    /\ nonces = {} /\ drawn = 0 /\ footprint = {}
    /\ err = "Ok"
    /\ log = <<>>

PushAll(ts) == [i \in DOMAIN ts |-> [ts[i] EXCEPT !.t = push_frame(@)]]
PopAll(ts) == [i \in DOMAIN ts |-> [ts[i] EXCEPT !.t = pop_frame(@)]]

(* The host function calls one contract, contracts call each other. The    *)
(* snapshot is taken after the trackers are pushed.                        *)
Call(c, try) ==
    /\ Running
    /\ Len(stack) <= DepthLimit /\ Logged("call") < MaxCalls
    /\ CallStackLen = 0 => log = <<>> /\ ~try
    /\ \A i \in DOMAIN stack : stack[i].fn # c
    /\ trackers' = PushAll(trackers)
    /\ stack' = Append(stack, [fn |-> c, try |-> try, snap |-> snapshot(trackers')])
    /\ log' = Append(log, [kind |-> "call", fn |-> c, try |-> try])
    /\ UNCHANGED <<AccountKind, root_only, handles, nonces, drawn, footprint, err>>

-----------------------------------------------------------------------------
(* require_auth_recording.                                                 *)

has_matched_invocations_in_stack(t) == MatchedFrames(t) # {}

(* InvocationTracker::new_recording.                                       *)
new_recording(fn, len) ==
    [tree |-> [fns |-> <<fn>>, parent |-> <<0>>], exhausted |-> {1},
     match |-> [i \in 1..len |-> IF i = len THEN 1 ELSE 0], root |-> len, processed |-> FALSE]

RecordError(t) ==
    IF current_frame_is_already_matched(t) THEN "ExistingValue"
    ELSE IF BadStack(t) \/ last_authorized_invocation(t) = 0 THEN "InternalError"
    ELSE "Ok"

(* Mutant: the invocation is recorded below the root.                      *)
record_below_root(t, fn) ==
    LET n == Len(t.tree.fns) + 1 IN
    IF RecordError(t) # "Ok" THEN t
    ELSE [t EXCEPT !.tree = [fns |-> Append(@.fns, fn), parent |-> Append(@.parent, 1)],
                   !.exhausted = @ \union {n},
                   !.match = [@ EXCEPT ![Len(@)] = n]]

record_invocation(t, fn) ==
    LET n == Len(t.tree.fns) + 1 IN
    IF RecordError(t) # "Ok" THEN t
    ELSE [t EXCEPT !.tree = [fns |-> Append(@.fns, fn),
                             parent |-> Append(@.parent, last_authorized_invocation(t))],
                   !.exhausted = @ \union {n},
                   !.match = [@ EXCEPT ![Len(@)] = n]]

Record(i, hs) ==
    /\ trackers' = [trackers EXCEPT ![i].t = record_invocation(@, Top.fn)]
    /\ err' = RecordError(trackers[i].t)
    /\ handles' = hs
    /\ UNCHANGED <<nonces, drawn>>

(* AccountAuthorizationTracker::new_recording.  The source account needs   *)
(* no nonce (0); any other address has a random one consumed.              *)
NewTracker(h) ==
    LET a == AddressOf[h]
        nonce == IF AccountKind[a] = "source" THEN 0 ELSE drawn + 1
    IN
    /\ trackers' = Append(trackers, [addr |-> a, nonce |-> nonce,
                                     t |-> new_recording(Top.fn, CallStackLen)])
    /\ handles' = [handles EXCEPT ![h] = Len(trackers) + 1]
    /\ IF nonce = 0 THEN UNCHANGED <<nonces, drawn, footprint>>
       ELSE /\ nonces' = nonces \union {<<a, nonce>>}
            /\ drawn' = nonce
            /\ footprint' = footprint \union {<<"nonce", a, nonce>>}
    /\ err' = "Ok"

(* The first tracker of the address that is still active and has not been  *)
(* used for this frame.                                                    *)
Open(a) ==
    {i \in DOMAIN trackers : /\ trackers[i].addr = a
                             /\ has_matched_invocations_in_stack(trackers[i].t)
                             /\ ~current_frame_is_already_matched(trackers[i].t)}

First(S) == CHOOSE i \in S : \A j \in S : i <= j

require_auth_recording(h) ==
    LET i == handles[h]
        hs == IF i # 0 /\ ~has_matched_invocations_in_stack(trackers[i].t)
              THEN [handles EXCEPT ![h] = 0] ELSE handles
        a == AddressOf[h]
    IN
    IF hs[h] # 0 THEN Record(i, hs) /\ UNCHANGED footprint
    ELSE IF Open(a) # {} THEN Record(First(Open(a)), hs) /\ UNCHANGED footprint
    ELSE IF root_only /\ CallStackLen # 1
    THEN /\ err' = "InvalidAction"
         /\ handles' = hs
         /\ UNCHANGED <<trackers, nonces, drawn, footprint>>
    ELSE NewTracker(h)

(* require_auth_internal: the direct caller needs no entry.                *)
IsDirectInvoker(a) == Len(stack) >= 3 /\ stack[Len(stack) - 1].fn = a

require_auth_internal(h) ==
    IF IsDirectInvoker(AddressOf[h])
    THEN UNCHANGED <<trackers, handles, nonces, drawn, footprint, err>>
    ELSE require_auth_recording(h)

RequireAuth(h) ==
    /\ Running /\ CallStackLen > 0
    /\ Logged("require") < MaxRequires
    /\ require_auth_internal(h)
    /\ log' = Append(log, [kind |-> "require", addr |-> AddressOf[h]])
    /\ UNCHANGED <<AccountKind, root_only, stack>>

GuestError ==
    /\ Running /\ CallStackLen > 0
    /\ err' = "ContractError"
    /\ UNCHANGED <<AccountKind, root_only, stack, trackers, handles, nonces, drawn, footprint, log>>

-----------------------------------------------------------------------------
(* pop_context.                                                            *)

Recoverable == err # "InternalError"

PopOk ==
    /\ Running /\ CallStackLen > 0
    /\ stack' = SubSeq(stack, 1, Len(stack) - 1)
    /\ trackers' = PopAll(trackers)
    /\ log' = Append(log, [kind |-> "end", ok |-> TRUE])
    /\ UNCHANGED <<AccountKind, root_only, handles, nonces, drawn, footprint, err>>

(* rollback comes before the pop.                                          *)
(* Mutant: the handle map is not restored.                                 *)
PopFailedKeepingHandles ==
    LET s == Top.snap IN
    /\ stack # <<>> /\ err # "Ok" /\ CallStackLen > 0
    /\ trackers' = PopAll(s.trackers)
    /\ nonces' = s.nonces
    /\ err' = IF Top.try /\ Recoverable THEN "Ok" ELSE err
    /\ stack' = SubSeq(stack, 1, Len(stack) - 1)
    /\ log' = Append(log, [kind |-> "end", ok |-> FALSE])
    /\ UNCHANGED <<AccountKind, root_only, handles, drawn, footprint>>

PopFailed ==
    LET s == Top.snap IN
    /\ stack # <<>> /\ err # "Ok" /\ CallStackLen > 0
    /\ trackers' = PopAll(s.trackers)
    /\ handles' = s.handles
    /\ nonces' = s.nonces
    /\ err' = IF Top.try /\ Recoverable THEN "Ok" ELSE err
    /\ stack' = SubSeq(stack, 1, Len(stack) - 1)
    /\ log' = Append(log, [kind |-> "end", ok |-> FALSE])
    /\ UNCHANGED <<AccountKind, root_only, drawn, footprint>>

(* emulate_authentication: what authenticating the address reads.          *)
emulate_authentication(a) ==
    CASE AccountKind[a] = "source" -> {}
      [] AccountKind[a] = "account" -> {<<"account", a>>}
      [] AccountKind[a] = "wasm" -> {<<"instance", a>>, <<"code", a>>}
      [] AccountKind[a] \in {"asset", "missing"} -> {<<"instance", a>>}

Emulated(n) == UNION {emulate_authentication(trackers[i].addr) : i \in 1..n}

(* The host function's frame is popped: every tracker there is is          *)
(* authenticated for show, and then a failed run is rolled back.           *)
PopHost ==
    /\ stack # <<>> /\ CallStackLen = 0 /\ log # <<>>
    /\ footprint' = footprint \union Emulated(Len(trackers))
    /\ stack' = <<>>
    /\ IF err = "Ok" THEN UNCHANGED <<trackers, handles, nonces>>
       ELSE /\ trackers' = Top.snap.trackers
            /\ handles' = Top.snap.handles
            /\ nonces' = Top.snap.nonces
    /\ UNCHANGED <<AccountKind, root_only, drawn, err, log>>

(* The emulation runs out of budget: pop_context returns before the        *)
(* rollback, and the whole simulation fails.                               *)
PopHostOverBudget ==
    /\ stack # <<>> /\ CallStackLen = 0 /\ log # <<>>
    /\ \E n \in 1..Len(trackers) :
          /\ AccountKind[trackers[n].addr] # "source"
          /\ footprint' = footprint \union Emulated(n - 1)
    /\ stack' = <<>>
    /\ err' = "ExceededLimit"
    /\ UNCHANGED <<AccountKind, root_only, trackers, handles, nonces, drawn, log>>

Over == stack = <<>> /\ UNCHANGED vars

Next ==
    \/ \E c \in Contracts, try \in BOOLEAN : Call(c, try)
    \/ \E h \in Handles : RequireAuth(h)
    \/ GuestError
    \/ PopOk
    \/ PopFailed
    \/ PopHost
    \/ PopHostOverBudget
    \/ Over

Spec == Init /\ [][Next]_vars

-----------------------------------------------------------------------------
(* The same run in enforcing mode, with the recorded payloads as entries.  *)

(* The source account's payload names neither an address nor a nonce.      *)
get_recorded_auth_payload(tracker) ==
    [address |-> IF AccountKind[tracker.addr] = "source" THEN "none" ELSE tracker.addr,
     nonce |-> tracker.nonce, invocation |-> tracker.t.tree]

Payloads == [i \in DOMAIN trackers |-> get_recorded_auth_payload(trackers[i])]

(* into_auth_entry_with_emulated_signature and, back in a host,            *)
(* from_authorization_entry.                                               *)
MismatchedPayload(p) == (p.address = "none") # (p.nonce = 0)

SourceAccount == CHOOSE a \in Addresses : AccountKind[a] = "source"

into_auth_entry(p) ==
    [addr |-> IF p.address = "none" THEN SourceAccount ELSE p.address,
     nonce |-> p.nonce, tree |-> p.invocation]

Entries == [i \in DOMAIN trackers |-> into_auth_entry(Payloads[i])]

(* require_auth_enforcing over the trackers ts of entries es: the tracker  *)
(* that matches and the node, 0 for none.                                  *)
EnforcingMatch(es, ts, a, fn) ==
    LET own == {i \in DOMAIN ts : es[i].addr = a}
        active == \E i \in own : is_active(ts[i]) /\ ~current_frame_is_already_matched(ts[i])
        M == {i \in own : find_match(ts[i], fn, ~active) # 0}
    IN  IF M = {} THEN [i |-> 0, n |-> 0]
        ELSE [i |-> First(M), n |-> find_match(ts[First(M)], fn, ~active)]

(* One event of the log.  r.failing is set while a frame unwinds, r.skip   *)
(* counts the calls it would have made.  A frame is bad when it, or a      *)
(* frame below it, fails though it returned while recording; what happened *)
(* inside a call that failed in both runs is rolled back and of no matter. *)
EnforceCall(r, e) ==
    IF r.failing THEN [r EXCEPT !.skip = @ + 1]
    ELSE LET ts == [i \in DOMAIN r.ts |-> push_frame(r.ts[i])]
         IN  [r EXCEPT !.ts = ts,
                       !.frames = Append(@, [fn |-> e.fn, try |-> e.try, bad |-> FALSE,
                                             snap |-> [i \in DOMAIN ts |-> ts[i].exhausted]])]

EnforceRequire(r, e, es) ==
    LET d == Len(r.frames)
        m == EnforcingMatch(es, r.ts, e.addr, r.frames[d].fn)
    IN  IF r.failing \/ (d >= 2 /\ r.frames[d - 1].fn = e.addr) THEN r
        ELSE IF m.i = 0 THEN [r EXCEPT !.failing = TRUE]
        ELSE [r EXCEPT !.ts[m.i] = extend_match(@, m.n)]

EnforceEnd(r, e) ==
    LET f == r.frames[Len(r.frames)]
        below == SubSeq(r.frames, 1, Len(r.frames) - 1)
        fails == r.failing \/ ~e.ok
        bad == e.ok /\ (fails \/ f.bad)
    IN  IF r.skip > 0 THEN [r EXCEPT !.skip = @ - 1]
        ELSE [r EXCEPT !.ts = [i \in DOMAIN @ |->
                                  pop_frame(IF fails THEN rollback(@[i], f.snap[i]) ELSE @[i])],
                       !.frames = IF below = <<>> THEN <<>>
                                  ELSE [below EXCEPT ![Len(below)].bad = @ \/ bad],
                       !.failing = fails /\ ~f.try,
                       !.covered = @ /\ (below = <<>> => ~bad)]

Enforce(es) ==
    LET Step(r, e) == CASE e.kind = "call" -> EnforceCall(r, e)
                        [] e.kind = "require" -> EnforceRequire(r, e, es)
                        [] e.kind = "end" -> EnforceEnd(r, e)
    IN  FoldLeft(Step, [ts |-> [i \in DOMAIN es |-> new(es[i].tree)], frames |-> <<>>,
                        failing |-> FALSE, skip |-> 0, covered |-> TRUE], log)

-----------------------------------------------------------------------------
(* Properties.                                                             *)

Recorded == stack = <<>> /\ err = "Ok"

(* No frame required one address twice.                                    *)
FrameOf(i) ==
    LET Calls(S) == Cardinality({j \in S : log[j].kind = "call"})
        Ends(S) == Cardinality({j \in S : log[j].kind = "end"})
        opens == {j \in 1..i : /\ log[j].kind = "call"
                               /\ \A k \in j..i : Calls(j..k) > Ends(j..k)}
    IN  CHOOSE j \in opens : \A k \in opens : k <= j

RequiredOncePerFrame ==
    \A i, j \in DOMAIN log :
        /\ i < j /\ log[i].kind = "require" /\ log[j].kind = "require"
        /\ log[i].addr = log[j].addr
        => FrameOf(i) # FrameOf(j)

(* get_recorded_auth_payloads returns payloads that cover the recorded run *)
(* in enforcing mode: a run in which no frame requires an address twice is *)
(* covered by its payloads to the last node; whichever address objects the requirements   *)
(* came through and whatever calls failed, the repeated run has the same   *)
(* outcome and uses up every recorded invocation, so that nothing is       *)
(* signed for a call that was rolled back.                                 *)
PayloadsAreExact ==
    Recorded /\ RequiredOncePerFrame =>
        LET r == Enforce(Entries)
        IN  r.covered /\ \A i \in DOMAIN r.ts : r.ts[i].exhausted = Nodes(r.ts[i])

(* Trackers, handles and nonces go back together: the stored nonces are    *)
(* those of the trackers, all different, a handle leads to a tracker of    *)
(* its own address, a match stack is as long as the call stack, and a run  *)
(* that failed within its budget reports nothing.  A recorded run has the  *)
(* keys that authentication will read in its footprint, and every payload  *)
(* makes an entry.                                                         *)
RecordingIsTransactional ==
    /\ {<<trackers[i].addr, trackers[i].nonce>> :
           i \in {j \in DOMAIN trackers : trackers[j].nonce # 0}} = nonces
    /\ \A i, j \in DOMAIN trackers :
          i # j /\ trackers[i].nonce # 0 => trackers[i].nonce # trackers[j].nonce
    /\ \A h \in Handles : handles[h] # 0 =>
          handles[h] \in DOMAIN trackers /\ trackers[handles[h]].addr = AddressOf[h]
    /\ stack # <<>> => \A i \in DOMAIN trackers : Len(trackers[i].t.match) = CallStackLen
    /\ stack = <<>> /\ err \notin {"Ok", "ExceededLimit"} => trackers = <<>> /\ nonces = {}
    /\ Recorded =>
          \A i \in DOMAIN trackers :
              emulate_authentication(trackers[i].addr) \subseteq footprint
    /\ {<<"nonce", n[1], n[2]>> : n \in nonces} \subseteq footprint
    /\ \A i \in DOMAIN trackers : ~MismatchedPayload(Payloads[i])
=============================================================================
