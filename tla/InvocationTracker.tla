-------------------------- MODULE InvocationTracker --------------------------
(***************************************************************************)
(* The invocation tracker of the authorization manager (auth.rs): one tree *)
(* of authorized invocations and how far the current call stack has        *)
(* matched it.                                                             *)
(*                                                                         *)
(* A tree is [fns, parent]: node n authorizes the function fns[n] inside   *)
(* the invocation parent[n]; node 1 is the root, with parent 0.  The match *)
(* stack holds the matched node of every frame, 0 for Unmatched: RootMatch *)
(* is node 1, SubMatch{index_in_parent} is a child of the node matched     *)
(* before it, which MatchStackIsPath (module Auth) shows to be the node    *)
(* the code finds by walking the indices from the root.                    *)
(***************************************************************************)
EXTENDS Integers, Sequences

Nodes(t) == DOMAIN t.tree.fns

(* What from_xdr and to_authorized_invocation build.                       *)
IsTree(t) ==
    /\ Len(t.fns) \in Nat \ {0} /\ DOMAIN t.fns = 1..Len(t.fns)
    /\ DOMAIN t.parent = DOMAIN t.fns
    /\ t.parent[1] = 0
    /\ \A n \in DOMAIN t.fns \ {1} : t.parent[n] \in 1..(n - 1)

new(tree) ==
    [tree |-> tree, exhausted |-> {}, match |-> <<>>, root |-> 0, processed |-> FALSE]

push_frame(t) == [t EXCEPT !.match = Append(@, 0)]

(* root is root_exhausted_frame + 1, or 0 for None.                        *)
pop_frame(t) ==
    LET m == IF t.match = <<>> THEN <<>> ELSE SubSeq(t.match, 1, Len(t.match) - 1)
    IN  [t EXCEPT !.match = m, !.processed = @ \/ (t.root > 0 /\ t.root > Len(m))]

is_active(t) == 1 \in t.exhausted /\ ~t.processed

current_frame_is_already_matched(t) == t.match # <<>> /\ t.match[Len(t.match)] # 0

MatchedFrames(t) == {i \in 1..Len(t.match) : t.match[i] # 0}

(* Walking the stack is an internal error when the first match is not the  *)
(* root or a later one is.                                                 *)
BadStack(t) ==
    \E i \in MatchedFrames(t) :
        (t.match[i] = 1) # (\A j \in MatchedFrames(t) : i <= j)

(* last_authorized_invocation_mut; 0 for None.                             *)
last_authorized_invocation(t) ==
    LET S == MatchedFrames(t)
    IN  IF S = {} THEN 0 ELSE t.match[CHOOSE i \in S : \A j \in S : j <= i]

(* The node maybe_extend_invocation_match exhausts for a call of fn in the *)
(* current frame: the first matching child of the last authorized node, or *)
(* the root; 0 when there is none.                                         *)
(* Mutant: exhausted nodes match again.                                    *)
find_match_reusing(t, fn, allow_matching_root) ==
    LET last == last_authorized_invocation(t)
        kids == {n \in Nodes(t) : t.tree.parent[n] = last /\ t.tree.fns[n] = fn}
    IN  IF \/ current_frame_is_already_matched(t)
           \/ kids = {}
           \/ last = 0 /\ ~allow_matching_root
        THEN 0
        ELSE CHOOSE n \in kids : \A m \in kids : n <= m

find_match(t, fn, allow_matching_root) ==
    LET last == last_authorized_invocation(t)
        kids == {n \in Nodes(t) : t.tree.parent[n] = last /\ t.tree.fns[n] = fn} \ t.exhausted
    IN  IF \/ current_frame_is_already_matched(t)
           \/ kids = {}
           \/ last = 0 /\ ~allow_matching_root
        THEN 0
        ELSE CHOOSE n \in kids : \A m \in kids : n <= m

(* Exhausting node n.  A root matched on an empty stack is the underflow   *)
(* of match_stack.len() - 1 followed by the "invalid match_stack" error;   *)
(* the caller treats it as an internal error.                              *)
Underflows(t) == t.match = <<>>

extend_match(t, n) ==
    [t EXCEPT !.exhausted = @ \union {n},
              !.match = IF Underflows(t) THEN @ ELSE [@ EXCEPT ![Len(@)] = n],
              !.root = IF n = 1 THEN Len(t.match) ELSE @]

(* A snapshot is the set of exhausted nodes.                               *)
invocation_snapshot(t) == t.exhausted

(* Mutant: the root's bookkeeping is not reset.                            *)
rollback_keeping_root(t, exhausted) == [t EXCEPT !.exhausted = exhausted]

rollback(t, exhausted) ==
    IF 1 \in exhausted THEN [t EXCEPT !.exhausted = exhausted]
    ELSE [t EXCEPT !.exhausted = exhausted, !.root = 0, !.processed = FALSE]
=============================================================================
