----------------------------- MODULE AuthProofs -----------------------------
(***************************************************************************)
(* Proofs about the authorization manager (module Auth).  A frame that     *)
(* fails gives the manager back the state of the frame's snapshot, so what *)
(* is proved of the current state is proved of every snapshot on the stack *)
(* too, and of what the trackers hold against each of them.                *)
(***************************************************************************)
EXTENDS Auth, TLAPS, WellFoundedInduction

-----------------------------------------------------------------------------
(* Naturals and sequences.                                                 *)

(* A sequence, whatever its elements are.                                  *)
IsSeq(q) == q \in Seq({q[i] : i \in DOMAIN q})

(* A non-empty set of naturals has a least element: what inductions over   *)
(* data use, on the set of places where a claim would fail.                *)
LEMMA Least ==
    ASSUME NEW T, T \subseteq Nat, T # {}
    PROVE  \E n \in T : \A m \in T : n <= m
<1> DEFINE R == OpToRel(<, Nat)
<1>1. IsWellFoundedOn(R, Nat)
  BY NatLessThanWellFounded
<1> HIDE DEF R
<1>2. PICK x \in T : \A y \in T : ~(<<y, x>> \in R)
  BY <1>1, WFMin
<1>3. \A y \in T : ~(y < x)
  BY <1>2 DEF R, OpToRel
<1> QED BY <1>3

(* A non-empty set of naturals with an upper bound has a greatest one.     *)
LEMMA Greatest ==
    ASSUME NEW T, T \subseteq Nat, T # {}, NEW n \in Nat, \A x \in T : x <= n
    PROVE  \E x \in T : \A y \in T : y <= x
<1> DEFINE U == {z \in Nat : n - z \in T}
<1>1. PICK x \in T : x \in Nat /\ x <= n
  OBVIOUS
<1>2. n - x \in U
  BY <1>1
<1>3. PICK z \in U : \A y \in U : z <= y
  BY <1>2, Least
<1>4. n - z \in T
  OBVIOUS
<1>5. \A y \in T : n - y \in U
  <2> TAKE y \in T
  <2>1. y \in Nat /\ n - y \in Nat /\ n - (n - y) = y
    OBVIOUS
  <2>2. n - (n - y) \in T
    BY <2>1
  <2> QED BY <2>1, <2>2
<1>6. \A y \in T : y <= n - z
  <2> TAKE y \in T
  <2>1. y \in Nat /\ z \in Nat
    OBVIOUS
  <2>2. z <= n - y
    BY <1>3, <1>5
  <2> QED BY <2>1, <2>2
<1> QED BY <1>4, <1>6

(* A natural of at least 1 that is not 1 is at least 2.                    *)
LEMMA TwoOrMore == \A x \in Nat : x >= 1 /\ x # 1 => x >= 2
  OBVIOUS

(* What appending an element leaves and adds.                              *)
LEMMA PushLast ==
    ASSUME NEW S, NEW q \in Seq(S), NEW e \in S
    PROVE  LET t == Append(q, e) IN
           /\ t \in Seq(S) /\ Len(t) = Len(q) + 1 /\ Len(q) \in Nat
           /\ \A i \in 1..Len(q) : t[i] = q[i]
           /\ t[Len(q) + 1] = e
  OBVIOUS

(* What replacing the last element leaves and changes.                     *)
LEMMA SetLast ==
    ASSUME NEW S, NEW q \in Seq(S), Len(q) > 0, NEW e \in S
    PROVE  LET t == [q EXCEPT ![Len(q)] = e] IN
           /\ t \in Seq(S) /\ Len(t) = Len(q) /\ Len(q) \in Nat
           /\ \A i \in 1..Len(q) : i # Len(q) => t[i] = q[i]
           /\ t[Len(q)] = e
  OBVIOUS

(* A sequence over some set is a sequence of its own elements.             *)
LEMMA SeqIsSeq ==
    ASSUME NEW S, NEW q \in Seq(S)
    PROVE  IsSeq(q)
<1>1. Len(q) \in Nat /\ DOMAIN q = 1..Len(q) /\ q = [i \in 1..Len(q) |-> q[i]]
  OBVIOUS
<1> DEFINE E == {q[i] : i \in DOMAIN q}
<1>2. \A i \in 1..Len(q) : q[i] \in E
  BY <1>1
<1> HIDE DEF E
<1>3. [i \in 1..Len(q) |-> q[i]] \in Seq(E)
  BY <1>1, <1>2
<1>4. q \in Seq(E)
  BY <1>1, <1>3
<1> QED BY <1>4 DEF IsSeq, E

(* The domain of a sequence, and when it is empty.                         *)
LEMMA SeqDomain ==
    ASSUME NEW q, IsSeq(q)
    PROVE  Len(q) \in Nat /\ DOMAIN q = 1..Len(q) /\ (Len(q) = 0 <=> q = <<>>)
<1> DEFINE E == {q[i] : i \in DOMAIN q}
<1>1. q \in Seq(E)
  BY DEF IsSeq
<1> HIDE DEF E
<1> QED BY <1>1

(* The empty sequence.                                                     *)
LEMMA NullSeq ==
    ASSUME NEW q, q = <<>>
    PROVE  IsSeq(q) /\ Len(q) = 0 /\ 1..Len(q) = {}
<1>1. q \in Seq({})
  OBVIOUS
<1>2. IsSeq(q)
  BY <1>1, SeqIsSeq
<1>3. Len(q) = 0
  OBVIOUS
<1>4. 1..0 = {}
  OBVIOUS
<1> QED BY <1>2, <1>3, <1>4

(* Appending to a sequence.                                                *)
LEMMA SeqPush ==
    ASSUME NEW q, IsSeq(q), NEW e
    PROVE  LET t == Append(q, e) IN
           /\ IsSeq(t) /\ Len(t) = Len(q) + 1 /\ Len(q) \in Nat
           /\ \A i \in 1..Len(q) : t[i] = q[i]
           /\ t[Len(q) + 1] = e
<1> DEFINE E == {q[i] : i \in DOMAIN q} \union {e}
           t == Append(q, e)
<1>1. q \in Seq({q[i] : i \in DOMAIN q})
  BY DEF IsSeq
<1>2. q \in Seq(E)
  <2> DEFINE D == {q[i] : i \in DOMAIN q}
  <2>1. q \in Seq(D) /\ D \subseteq E
    BY <1>1
  <2> HIDE DEF D, E
  <2> QED BY <2>1
<1>3. e \in E
  OBVIOUS
<1> HIDE DEF E
<1>4. /\ t \in Seq(E) /\ Len(t) = Len(q) + 1 /\ Len(q) \in Nat
      /\ \A i \in 1..Len(q) : t[i] = q[i]
      /\ t[Len(q) + 1] = e
  BY <1>2, <1>3, PushLast
<1> QED BY <1>4, SeqIsSeq

(* Replacing the last element of a sequence.                               *)
LEMMA SeqSet ==
    ASSUME NEW q, IsSeq(q), Len(q) > 0, NEW e, NEW t, t = [q EXCEPT ![Len(q)] = e]
    PROVE  /\ IsSeq(t) /\ Len(t) = Len(q) /\ Len(q) \in Nat
           /\ \A i \in 1..Len(q) : i # Len(q) => t[i] = q[i]
           /\ t[Len(q)] = e
<1> DEFINE E == {q[i] : i \in DOMAIN q} \union {e}
<1>1. q \in Seq({q[i] : i \in DOMAIN q})
  BY DEF IsSeq
<1>2. q \in Seq(E)
  <2> DEFINE D == {q[i] : i \in DOMAIN q}
  <2>1. q \in Seq(D) /\ D \subseteq E
    BY <1>1
  <2> HIDE DEF D, E
  <2> QED BY <2>1
<1>3. e \in E
  OBVIOUS
<1> HIDE DEF E
<1>4. /\ t \in Seq(E) /\ Len(t) = Len(q) /\ Len(q) \in Nat
      /\ \A i \in 1..Len(q) : i # Len(q) => t[i] = q[i]
      /\ t[Len(q)] = e
  BY <1>2, <1>3, SetLast
<1> QED BY <1>4, SeqIsSeq

(* A prefix of a sequence.                                                 *)
LEMMA SeqPrefix ==
    ASSUME NEW q, IsSeq(q), NEW n \in 0..Len(q)
    PROVE  LET t == SubSeq(q, 1, n) IN
           IsSeq(t) /\ Len(t) = n /\ \A i \in 1..n : t[i] = q[i]
<1> DEFINE E == {q[i] : i \in DOMAIN q}
           t == SubSeq(q, 1, n)
<1>1. q \in Seq(E) /\ Len(q) \in Nat
  BY SeqDomain DEF IsSeq
<1> HIDE DEF E
<1>2. t \in Seq(E) /\ Len(t) = n /\ \A i \in 1..n : t[i] = q[i]
  <2>1. CASE n = 0
    BY <1>1, <2>1
  <2>2. CASE n # 0
    BY <1>1, <2>2
  <2> QED BY <2>1, <2>2
<1> QED BY <1>2, SeqIsSeq

(* A function on 1..n is a sequence.                                       *)
LEMMA SeqOfFunction ==
    ASSUME NEW n \in Nat, NEW q, DOMAIN q = 1..n, q = [i \in 1..n |-> q[i]]
    PROVE  IsSeq(q) /\ Len(q) = n
<1> DEFINE E == {q[i] : i \in DOMAIN q}
<1>1. \A i \in 1..n : q[i] \in E
  OBVIOUS
<1> HIDE DEF E
<1>2. [i \in 1..n |-> q[i]] \in Seq(E) /\ Len([i \in 1..n |-> q[i]]) = n
  BY <1>1
<1>3. q \in Seq(E) /\ Len(q) = n
  BY <1>2
<1> QED BY <1>3 DEF IsSeq, E

-----------------------------------------------------------------------------
(* Invocation trackers.                                                    *)

(* The fields of a tracker.  Node 0 stands for an unmatched frame.         *)
IsTracker(t) ==
    /\ t = [tree |-> t.tree, exhausted |-> t.exhausted, match |-> t.match, root |-> t.root,
            processed |-> t.processed]
    /\ IsTree(t.tree)
    /\ IsSeq(t.match)
    /\ \A k \in 1..Len(t.match) : t.match[k] \in Nodes(t) \union {0}

(* Frame l holds the last match below frame k.                             *)
LastBelow(m, k, l) ==
    /\ l \in 1..(k - 1)
    /\ m[l] # 0
    /\ \A x \in 1..(k - 1) : l < x => m[x] = 0

NoneBelow(m, k) == \A x \in 1..(k - 1) : m[x] = 0

(* The matches are a path of the tree: each one is a child of the one      *)
(* before it, the first one is a root; and all are exhausted.              *)
PathOK(t) ==
    \A k \in 1..Len(t.match) :
        t.match[k] # 0 =>
            /\ t.match[k] \in t.exhausted
            /\ \/ t.tree.parent[t.match[k]] = 0 /\ NoneBelow(t.match, k)
               \/ \E l \in 1..(k - 1) : /\ LastBelow(t.match, k, l)
                                        /\ t.tree.parent[t.match[k]] = t.match[l]

(* root_exhausted_frame and is_fully_processed against the matches.        *)
RootOK(t) ==
    /\ t.root \in Nat /\ t.processed \in BOOLEAN
    /\ 1 \notin t.exhausted => t.root = 0 /\ ~t.processed
    /\ 1 \in t.exhausted /\ ~t.processed => t.root \in 1..Len(t.match) /\ t.match[t.root] = 1
    /\ t.processed => \A k \in 1..Len(t.match) : t.match[k] # 1

(* The nodes of a tree are naturals above 0, and only node 1 has parent 0. *)
LEMMA TreeNodes ==
    ASSUME NEW t, IsTree(t)
    PROVE  /\ DOMAIN t.fns \subseteq Nat \ {0} /\ 1 \in DOMAIN t.fns /\ t.parent[1] = 0
           /\ \A n \in DOMAIN t.fns : t.parent[n] = 0 <=> n = 1
           /\ \A n \in DOMAIN t.fns : t.parent[n] \in Nat
<1>1. /\ DOMAIN t.fns \subseteq Nat \ {0} /\ 1 \in DOMAIN t.fns /\ t.parent[1] = 0
      /\ \A n \in DOMAIN t.fns \ {1} : t.parent[n] \in 1..(n - 1)
  BY DEF IsTree
<1>2. \A n \in DOMAIN t.fns \ {1} : t.parent[n] \in Nat /\ t.parent[n] # 0
  BY <1>1
<1> QED BY <1>1, <1>2

(* The root is matched at most once.                                       *)
LEMMA RootMatchedOnce ==
    ASSUME NEW t, IsTracker(t), PathOK(t),
           NEW k \in 1..Len(t.match), NEW l \in 1..Len(t.match),
           t.match[k] = 1, t.match[l] # 0, l < k
    PROVE  FALSE
<1>1. t.tree.parent[1] = 0
  BY TreeNodes DEF IsTracker
<1>2. NoneBelow(t.match, k) \/ \E x \in 1..(k - 1) : LastBelow(t.match, k, x) /\ 0 = t.match[x]
  BY <1>1 DEF PathOK
<1>3. NoneBelow(t.match, k)
  BY <1>2 DEF LastBelow
<1>4. l \in 1..(k - 1)
  BY SeqDomain DEF IsTracker
<1> QED BY <1>3, <1>4 DEF NoneBelow

(* A new tracker.                                                          *)
LEMMA NewTracker ==
    ASSUME NEW tree, IsTree(tree)
    PROVE  /\ IsTracker(new(tree)) /\ PathOK(new(tree)) /\ RootOK(new(tree))
           /\ new(tree).tree = tree /\ new(tree).exhausted = {}
           /\ new(tree).match = <<>> /\ Len(new(tree).match) = 0
<1> DEFINE t == new(tree)
<1>1. /\ t = [tree |-> t.tree, exhausted |-> t.exhausted, match |-> t.match, root |-> t.root,
              processed |-> t.processed]
      /\ t.tree = tree /\ t.exhausted = {} /\ t.match = <<>> /\ t.root = 0 /\ t.processed = FALSE
  BY DEF new
<1> HIDE DEF t
<1>2. IsSeq(t.match) /\ Len(t.match) = 0
  <2>1. t.match = <<>>
    BY <1>1
  <2> QED BY <2>1, NullSeq
<1>3. IsTracker(t)
  BY <1>1, <1>2 DEF IsTracker
<1>4. 1..Len(t.match) = {}
  BY <1>2
<1>5. PathOK(t)
  BY <1>4 DEF PathOK
<1>6. RootOK(t)
  <2>1. t.root = 0 /\ t.root \in Nat /\ 1 \notin t.exhausted
    BY <1>1
  <2>2. ~t.processed /\ t.processed \in BOOLEAN
    BY <1>1, Zenon
  <2> QED BY <2>1, <2>2, Zenon DEF RootOK
<1> QED BY <1>1, <1>2, <1>3, <1>5, <1>6 DEF t

(* push_frame adds an unmatched frame.                                     *)
LEMMA PushTracker ==
    ASSUME NEW t, IsTracker(t)
    PROVE  LET u == push_frame(t) IN
           /\ IsTracker(u) /\ u.tree = t.tree /\ u.exhausted = t.exhausted
           /\ u.root = t.root /\ u.processed = t.processed
           /\ Len(u.match) = Len(t.match) + 1 /\ Len(t.match) \in Nat
           /\ \A k \in 1..Len(t.match) : u.match[k] = t.match[k]
           /\ u.match[Len(t.match) + 1] = 0
<1> DEFINE u == push_frame(t)
<1>1. /\ u = [tree |-> u.tree, exhausted |-> u.exhausted, match |-> u.match, root |-> u.root,
              processed |-> u.processed]
      /\ u.tree = t.tree /\ u.exhausted = t.exhausted /\ u.match = Append(t.match, 0)
      /\ u.root = t.root /\ u.processed = t.processed
  BY DEF push_frame, IsTracker
<1> HIDE DEF u
<1>2. /\ IsSeq(u.match) /\ Len(u.match) = Len(t.match) + 1 /\ Len(t.match) \in Nat
      /\ \A k \in 1..Len(t.match) : u.match[k] = t.match[k]
      /\ u.match[Len(t.match) + 1] = 0
  BY <1>1, SeqPush DEF IsTracker
<1>3. \A k \in 1..Len(u.match) : k \in 1..Len(t.match) \/ k = Len(t.match) + 1
  BY <1>2
<1>4. IsTracker(u)
  BY <1>1, <1>2, <1>3 DEF IsTracker, Nodes
<1> QED BY <1>1, <1>2, <1>4 DEF u

(* A tracker that follows t and agrees with it on the first n frames: what *)
(* a push and a pop leave of the path.                                     *)
LEMMA PathPrefix ==
    ASSUME NEW t, IsTracker(t), PathOK(t), NEW u, IsTracker(u), u.tree = t.tree,
           \A k \in 1..Len(u.match) : u.match[k] # 0 =>
               /\ k \in 1..Len(t.match)
               /\ u.match[k] = t.match[k] /\ t.match[k] \in u.exhausted
               /\ \A l \in 1..(k - 1) : u.match[l] = t.match[l]
    PROVE  PathOK(u)
<1> SUFFICES ASSUME NEW k \in 1..Len(u.match), u.match[k] # 0
             PROVE  /\ u.match[k] \in u.exhausted
                    /\ \/ u.tree.parent[u.match[k]] = 0 /\ NoneBelow(u.match, k)
                       \/ \E l \in 1..(k - 1) : /\ LastBelow(u.match, k, l)
                                                /\ u.tree.parent[u.match[k]] = u.match[l]
  BY DEF PathOK
<1>1. /\ k \in 1..Len(t.match) /\ u.match[k] = t.match[k] /\ t.match[k] \in u.exhausted
      /\ \A l \in 1..(k - 1) : u.match[l] = t.match[l]
  OBVIOUS
<1>2. \/ t.tree.parent[t.match[k]] = 0 /\ NoneBelow(t.match, k)
      \/ \E l \in 1..(k - 1) : /\ LastBelow(t.match, k, l)
                               /\ t.tree.parent[t.match[k]] = t.match[l]
  BY <1>1 DEF PathOK
<1>3. NoneBelow(t.match, k) => NoneBelow(u.match, k)
  BY <1>1 DEF NoneBelow
<1>4. \A l \in 1..(k - 1) : LastBelow(t.match, k, l) => LastBelow(u.match, k, l)
  BY <1>1 DEF LastBelow
<1> QED BY <1>1, <1>2, <1>3, <1>4

(* A push keeps the path and the root's bookkeeping.                       *)
LEMMA PushPath ==
    ASSUME NEW t, IsTracker(t), PathOK(t)
    PROVE  PathOK(push_frame(t)) /\ (RootOK(t) => RootOK(push_frame(t)))
<1> DEFINE u == push_frame(t)
<1>1. /\ IsTracker(u) /\ u.tree = t.tree /\ u.exhausted = t.exhausted
      /\ u.root = t.root /\ u.processed = t.processed
      /\ Len(u.match) = Len(t.match) + 1 /\ Len(t.match) \in Nat
      /\ \A k \in 1..Len(t.match) : u.match[k] = t.match[k]
      /\ u.match[Len(t.match) + 1] = 0
  BY PushTracker
<1> HIDE DEF u
<1>2. \A k \in 1..Len(u.match) : u.match[k] # 0 => k \in 1..Len(t.match)
  BY <1>1
<1>3. \A k \in 1..Len(t.match) : \A l \in 1..(k - 1) : l \in 1..Len(t.match)
  BY <1>1
<1>4. \A k \in 1..Len(t.match) : t.match[k] # 0 => t.match[k] \in u.exhausted
  BY <1>1 DEF PathOK
<1>5. PathOK(u)
  BY <1>1, <1>2, <1>3, <1>4, PathPrefix
<1>6. RootOK(t) => RootOK(u)
  BY <1>1, <1>2 DEF RootOK
<1> QED BY <1>5, <1>6 DEF u

(* pop_frame removes the last frame.                                       *)
LEMMA PopTracker ==
    ASSUME NEW t, IsTracker(t), t.match # <<>>
    PROVE  LET u == pop_frame(t) IN
           /\ IsTracker(u) /\ u.tree = t.tree /\ u.exhausted = t.exhausted
           /\ u.root = t.root
           /\ u.processed = (t.processed \/ (t.root > 0 /\ t.root > Len(t.match) - 1))
           /\ Len(u.match) = Len(t.match) - 1 /\ Len(t.match) \in Nat
           /\ \A k \in 1..(Len(t.match) - 1) : u.match[k] = t.match[k]
<1> DEFINE u == pop_frame(t)
           m == SubSeq(t.match, 1, Len(t.match) - 1)
<1>1. Len(t.match) \in Nat /\ Len(t.match) # 0 /\ Len(t.match) - 1 \in 0..Len(t.match)
  BY SeqDomain DEF IsTracker
<1>2. /\ IsSeq(m) /\ Len(m) = Len(t.match) - 1
      /\ \A k \in 1..(Len(t.match) - 1) : m[k] = t.match[k]
  BY <1>1, SeqPrefix DEF IsTracker
<1> HIDE DEF m
<1>3. u = [t EXCEPT !.match = m, !.processed = @ \/ (t.root > 0 /\ t.root > Len(m))]
  BY DEF pop_frame, m
<1> HIDE DEF u
<1>4. /\ u = [tree |-> u.tree, exhausted |-> u.exhausted, match |-> u.match, root |-> u.root,
              processed |-> u.processed]
      /\ u.tree = t.tree /\ u.exhausted = t.exhausted /\ u.match = m /\ u.root = t.root
      /\ u.processed = (t.processed \/ (t.root > 0 /\ t.root > Len(m)))
  BY <1>3 DEF IsTracker
<1>5. \A k \in 1..Len(m) : k \in 1..Len(t.match)
  BY <1>1, <1>2
<1>6. IsTracker(u)
  BY <1>2, <1>4, <1>5 DEF IsTracker, Nodes
<1> QED BY <1>1, <1>2, <1>4, <1>6 DEF u

(* A tracker loses its last frame and may be set back to fewer exhausted   *)
(* nodes, those of the frames that stay among them: the path stays one.    *)
LEMMA CutPath ==
    ASSUME NEW t, IsTracker(t), PathOK(t), t.match # <<>>,
           NEW u, IsTracker(u), u.tree = t.tree, Len(u.match) = Len(t.match) - 1,
           \A k \in 1..(Len(t.match) - 1) : u.match[k] = t.match[k],
           \A k \in 1..(Len(t.match) - 1) : t.match[k] # 0 => t.match[k] \in u.exhausted
    PROVE  PathOK(u)
<1>1. Len(t.match) \in Nat
  BY SeqDomain DEF IsTracker
<1>2. \A k \in 1..Len(u.match) :
          /\ k \in 1..Len(t.match) /\ k \in 1..(Len(t.match) - 1)
          /\ \A l \in 1..(k - 1) : l \in 1..(Len(t.match) - 1)
  BY <1>1
<1> QED BY <1>2, PathPrefix

(* A pop keeps the path and the root's bookkeeping.                        *)
LEMMA PopPath ==
    ASSUME NEW t, IsTracker(t), PathOK(t), t.match # <<>>
    PROVE  PathOK(pop_frame(t)) /\ (RootOK(t) => RootOK(pop_frame(t)))
<1> DEFINE u == pop_frame(t)
<1>1. /\ IsTracker(u) /\ u.tree = t.tree /\ u.exhausted = t.exhausted
      /\ u.root = t.root
      /\ u.processed = (t.processed \/ (t.root > 0 /\ t.root > Len(t.match) - 1))
      /\ Len(u.match) = Len(t.match) - 1 /\ Len(t.match) \in Nat
      /\ \A k \in 1..(Len(t.match) - 1) : u.match[k] = t.match[k]
  BY PopTracker
<1> HIDE DEF u
<1>2. \A k \in 1..(Len(t.match) - 1) : k \in 1..Len(t.match)
  BY <1>1
<1>3. PathOK(u)
  <2>1. \A k \in 1..(Len(t.match) - 1) : t.match[k] # 0 => t.match[k] \in u.exhausted
    BY <1>1, <1>2 DEF PathOK
  <2> QED BY <1>1, <2>1, CutPath
<1>4. ASSUME RootOK(t) PROVE RootOK(u)
  <2>1. /\ u.root \in Nat /\ u.processed \in BOOLEAN
        /\ 1 \notin u.exhausted => u.root = 0 /\ ~u.processed
        /\ 1 \in u.exhausted /\ ~u.processed =>
              u.root \in 1..Len(u.match) /\ u.match[u.root] = 1
    <3>1. /\ t.root \in Nat /\ t.processed \in BOOLEAN
          /\ 1 \notin t.exhausted => t.root = 0 /\ ~t.processed
          /\ 1 \in t.exhausted /\ ~t.processed =>
                t.root \in 1..Len(t.match) /\ t.match[t.root] = 1
      BY <1>4 DEF RootOK
    <3>2. u.processed \in BOOLEAN
      BY <1>1
    <3>3. u.processed <=> (t.processed \/ (t.root > 0 /\ t.root > Len(t.match) - 1))
      BY <1>1, <3>1
    <3>4. 1 \notin u.exhausted => u.root = 0 /\ ~u.processed
      BY <1>1, <3>1, <3>3
    <3>5. ASSUME 1 \in u.exhausted, ~u.processed
          PROVE  u.root \in 1..Len(u.match) /\ u.match[u.root] = 1
      <4>1. ~t.processed /\ ~(t.root > Len(t.match) - 1 /\ t.root > 0)
        BY <3>3, <3>5, Zenon
      <4>2. t.root \in 1..Len(t.match) /\ t.match[t.root] = 1
        BY <1>1, <3>1, <3>5, <4>1, Zenon
      <4>3. t.root \in 1..(Len(t.match) - 1)
        BY <1>1, <3>1, <4>1, <4>2
      <4> QED BY <1>1, <4>2, <4>3
    <3> QED BY <1>1, <3>1, <3>2, <3>4, <3>5
  <2>2. ASSUME u.processed, NEW k \in 1..Len(u.match), u.match[k] = 1 PROVE FALSE
    <3>1. k \in 1..Len(t.match) /\ t.match[k] = 1 /\ k < Len(t.match)
      BY <1>1, <2>2
    <3>2. ~t.processed
      BY <1>4, <3>1 DEF RootOK
    <3>3. t.root \in 1..Len(t.match) /\ t.match[t.root] = 1
      BY <1>1, <1>4, <2>1, <2>2, <3>2 DEF RootOK
    <3>4. t.root > Len(t.match) - 1
      BY <1>1, <2>2, <3>2
    <3>5. k < t.root
      BY <1>1, <3>1, <3>3, <3>4
    <3> QED BY <3>1, <3>3, <3>5, RootMatchedOnce
  <2> QED BY <2>1, <2>2 DEF RootOK
<1> QED BY <1>3, <1>4 DEF u

-----------------------------------------------------------------------------
(* Matching and rolling back.                                              *)

(* last_authorized_invocation: the last match, if there is one.            *)
LEMMA LastMatch ==
    ASSUME NEW t, IsTracker(t)
    PROVE  LET last == last_authorized_invocation(t)
               n == Len(t.match)
           IN  \/ last = 0 /\ NoneBelow(t.match, n + 1)
               \/ \E l \in 1..n : LastBelow(t.match, n + 1, l) /\ last = t.match[l]
<1> DEFINE S == MatchedFrames(t)
           n == Len(t.match)
<1>1. n \in Nat
  BY SeqDomain DEF IsTracker
<1>2. CASE S = {}
  <2>1. last_authorized_invocation(t) = 0
    BY <1>2 DEF last_authorized_invocation
  <2>2. \A k \in 1..n : t.match[k] = 0
    BY <1>2 DEF MatchedFrames
  <2>3. NoneBelow(t.match, n + 1)
    BY <1>1, <2>2 DEF NoneBelow
  <2> QED BY <2>1, <2>3
<1>3. CASE S # {}
  <2> DEFINE l == CHOOSE i \in S : \A j \in S : j <= i
  <2>1. S \subseteq Nat /\ \A i \in S : i <= n
    BY <1>1 DEF MatchedFrames
  <2>2. \E i \in S : \A j \in S : j <= i
    BY <1>1, <1>3, <2>1, Greatest
  <2>3. l \in S /\ \A j \in S : j <= l
    BY <2>2
  <2>4. last_authorized_invocation(t) = t.match[l]
    BY <1>3 DEF last_authorized_invocation
  <2> HIDE DEF l
  <2>5. l \in 1..n /\ t.match[l] # 0 /\ \A j \in 1..n : t.match[j] # 0 => j <= l
    BY <2>3 DEF MatchedFrames
  <2>6. LastBelow(t.match, n + 1, l)
    BY <1>1, <2>5 DEF LastBelow
  <2> QED BY <2>4, <2>5, <2>6
<1> QED BY <1>2, <1>3

(* find_match: the node found authorizes the function, is not exhausted    *)
(* and continues the path in an unmatched frame.                           *)
LEMMA FoundMatch ==
    ASSUME NEW t, IsTracker(t), NEW fn, NEW allow, NEW n, n = find_match(t, fn, allow), n # 0
    PROVE  /\ n \in Nodes(t) /\ n \notin t.exhausted /\ t.tree.fns[n] = fn
           /\ t.match # <<>> => t.match[Len(t.match)] = 0
           /\ \/ /\ allow /\ n = 1 /\ NoneBelow(t.match, Len(t.match) + 1)
              \/ \E l \in 1..Len(t.match) : /\ LastBelow(t.match, Len(t.match) + 1, l)
                                            /\ t.tree.parent[n] = t.match[l]
<1> DEFINE last == last_authorized_invocation(t)
           kids == {x \in Nodes(t) : t.tree.parent[x] = last /\ t.tree.fns[x] = fn} \ t.exhausted
<1>1. /\ ~current_frame_is_already_matched(t) /\ kids # {} /\ (last = 0 => allow)
      /\ n = CHOOSE x \in kids : \A m \in kids : x <= m
  BY DEF find_match
<1>2. Nodes(t) \subseteq Nat \ {0} /\ \A x \in Nodes(t) : t.tree.parent[x] = 0 <=> x = 1
  BY TreeNodes DEF IsTracker, Nodes
<1>3. \E x \in kids : \A m \in kids : x <= m
  <2>1. kids \subseteq Nat
    BY <1>2
  <2> HIDE DEF kids
  <2> QED BY <1>1, <2>1, Least
<1>4. n \in kids
  BY <1>1, <1>3
<1>5. /\ n \in Nodes(t) /\ n \notin t.exhausted /\ t.tree.fns[n] = fn
      /\ t.tree.parent[n] = last
  BY <1>4
<1>6. t.match # <<>> => t.match[Len(t.match)] = 0
  BY <1>1 DEF current_frame_is_already_matched
<1>7. \/ last = 0 /\ NoneBelow(t.match, Len(t.match) + 1)
      \/ \E l \in 1..Len(t.match) : /\ LastBelow(t.match, Len(t.match) + 1, l)
                                    /\ last = t.match[l]
  BY LastMatch
<1> HIDE DEF last
<1> QED BY <1>1, <1>2, <1>5, <1>6, <1>7

(* extend_match in the current frame with the node that find_match found.  *)
LEMMA ExtendTracker ==
    ASSUME NEW t, IsTracker(t), NEW n, n \in Nodes(t)
    PROVE  LET u == extend_match(t, n) IN
           /\ IsTracker(u) /\ u.tree = t.tree /\ u.exhausted = t.exhausted \union {n}
           /\ u.root = (IF n = 1 THEN Len(t.match) ELSE t.root) /\ u.processed = t.processed
           /\ Len(u.match) = Len(t.match) /\ Len(t.match) \in Nat
           /\ \A k \in 1..Len(t.match) : k # Len(t.match) => u.match[k] = t.match[k]
           /\ t.match # <<>> => u.match[Len(t.match)] = n
           /\ t.match = <<>> => u.match = <<>>
<1> DEFINE u == extend_match(t, n)
           m == IF Underflows(t) THEN t.match ELSE [t.match EXCEPT ![Len(t.match)] = n]
<1>1. /\ u = [tree |-> u.tree, exhausted |-> u.exhausted, match |-> u.match, root |-> u.root,
              processed |-> u.processed]
      /\ u.tree = t.tree /\ u.exhausted = t.exhausted \union {n} /\ u.match = m
      /\ u.root = (IF n = 1 THEN Len(t.match) ELSE t.root) /\ u.processed = t.processed
  <2>1. u = [t EXCEPT !.exhausted = @ \union {n}, !.match = m,
                      !.root = IF n = 1 THEN Len(t.match) ELSE @]
    BY DEF extend_match
  <2> HIDE DEF m, u
  <2> QED BY <2>1 DEF IsTracker
<1> HIDE DEF u
<1>2. Len(t.match) \in Nat /\ (Len(t.match) = 0 <=> t.match = <<>>)
  BY SeqDomain DEF IsTracker
<1>3. CASE t.match = <<>>
  <2>1. u.match = t.match
    BY <1>1, <1>3 DEF Underflows
  <2>2. IsTracker(u)
    BY <1>1, <2>1 DEF IsTracker, Nodes
  <2> QED BY <1>1, <1>2, <1>3, <2>1, <2>2 DEF u
<1>4. CASE t.match # <<>>
  <2>1. m = [t.match EXCEPT ![Len(t.match)] = n]
    BY <1>4 DEF Underflows
  <2>2. /\ IsSeq(m) /\ Len(m) = Len(t.match)
        /\ \A k \in 1..Len(t.match) : k # Len(t.match) => m[k] = t.match[k]
        /\ m[Len(t.match)] = n
    <3>1. IsSeq(t.match) /\ Len(t.match) > 0
      BY <1>2, <1>4 DEF IsTracker
    <3> HIDE DEF m
    <3> QED BY <2>1, <3>1, SeqSet
  <2> HIDE DEF m
  <2>3. IsTracker(u)
    BY <1>1, <2>2 DEF IsTracker, Nodes
  <2> QED BY <1>1, <1>2, <1>4, <2>2, <2>3 DEF u
<1> QED BY <1>3, <1>4

(* The match found keeps the path.                                         *)
LEMMA ExtendPath ==
    ASSUME NEW t, IsTracker(t), PathOK(t), NEW fn, NEW allow, NEW n,
           n = find_match(t, fn, allow), n # 0
    PROVE  PathOK(extend_match(t, n))
<1> DEFINE u == extend_match(t, n)
<1>1. /\ n \in Nodes(t) /\ n \notin t.exhausted
      /\ t.match # <<>> => t.match[Len(t.match)] = 0
      /\ \/ n = 1 /\ NoneBelow(t.match, Len(t.match) + 1)
         \/ \E l \in 1..Len(t.match) : /\ LastBelow(t.match, Len(t.match) + 1, l)
                                       /\ t.tree.parent[n] = t.match[l]
  BY FoundMatch
<1>2. /\ IsTracker(u) /\ u.tree = t.tree /\ u.exhausted = t.exhausted \union {n}
      /\ Len(u.match) = Len(t.match) /\ Len(t.match) \in Nat
      /\ \A k \in 1..Len(t.match) : k # Len(t.match) => u.match[k] = t.match[k]
      /\ t.match # <<>> => u.match[Len(t.match)] = n
      /\ t.match = <<>> => u.match = <<>>
  BY <1>1, ExtendTracker
<1> HIDE DEF u
<1>3. n # 0 /\ t.tree.parent[1] = 0
  BY TreeNodes DEF IsTracker
<1> SUFFICES ASSUME NEW k \in 1..Len(u.match), u.match[k] # 0
             PROVE  /\ u.match[k] \in u.exhausted
                    /\ \/ u.tree.parent[u.match[k]] = 0 /\ NoneBelow(u.match, k)
                       \/ \E l \in 1..(k - 1) : /\ LastBelow(u.match, k, l)
                                                /\ u.tree.parent[u.match[k]] = u.match[l]
  BY DEF PathOK, u
<1>4. \A l \in 1..(k - 1) : l \in 1..Len(t.match) /\ u.match[l] = t.match[l]
  BY <1>2
<1>5. CASE k # Len(t.match)
  <2>1. k \in 1..Len(t.match) /\ u.match[k] = t.match[k]
    BY <1>2, <1>5
  <2>2. /\ t.match[k] \in t.exhausted
        /\ \/ t.tree.parent[t.match[k]] = 0 /\ NoneBelow(t.match, k)
           \/ \E l \in 1..(k - 1) : /\ LastBelow(t.match, k, l)
                                    /\ t.tree.parent[t.match[k]] = t.match[l]
    BY <2>1 DEF PathOK
  <2>3. NoneBelow(t.match, k) => NoneBelow(u.match, k)
    BY <1>4 DEF NoneBelow
  <2>4. \A l \in 1..(k - 1) : LastBelow(t.match, k, l) => LastBelow(u.match, k, l)
    BY <1>4 DEF LastBelow
  <2> QED BY <1>2, <1>4, <2>1, <2>2, <2>3, <2>4
<1>6. CASE k = Len(t.match)
  <2>1. t.match # <<>> /\ u.match[k] = n /\ t.match[k] = 0 /\ k \in Nat
    BY <1>1, <1>2, <1>6
  <2>2. u.match[k] \in u.exhausted
    BY <1>2, <2>1
  <2>3. CASE n = 1 /\ NoneBelow(t.match, Len(t.match) + 1)
    <3>1. NoneBelow(u.match, k)
      BY <1>2, <1>4, <1>6, <2>3 DEF NoneBelow
    <3> QED BY <1>2, <1>3, <2>1, <2>2, <2>3, <3>1
  <2>4. ASSUME NEW l \in 1..Len(t.match), LastBelow(t.match, Len(t.match) + 1, l),
               t.tree.parent[n] = t.match[l]
        PROVE  \E x \in 1..(k - 1) : /\ LastBelow(u.match, k, x)
                                     /\ u.tree.parent[u.match[k]] = u.match[x]
    <3>1. l \in 1..(k - 1)
      BY <1>2, <1>6, <2>1, <2>4 DEF LastBelow
    <3>2. LastBelow(u.match, k, l)
      BY <1>2, <1>4, <1>6, <2>4, <3>1 DEF LastBelow
    <3> QED BY <1>2, <1>4, <2>1, <2>4, <3>1, <3>2
  <2> QED BY <1>1, <2>2, <2>3, <2>4
<1> QED BY <1>5, <1>6

(* The match found keeps the root's bookkeeping, in a frame.               *)
LEMMA ExtendRoot ==
    ASSUME NEW t, IsTracker(t), PathOK(t), RootOK(t), t.match # <<>>, NEW fn, NEW allow, NEW n,
           n = find_match(t, fn, allow), n # 0
    PROVE  RootOK(extend_match(t, n))
<1> DEFINE u == extend_match(t, n)
<1>1. n \in Nodes(t) /\ n \notin t.exhausted /\ t.match[Len(t.match)] = 0
  BY FoundMatch
<1>2. /\ IsTracker(u) /\ u.tree = t.tree /\ u.exhausted = t.exhausted \union {n}
      /\ u.root = (IF n = 1 THEN Len(t.match) ELSE t.root) /\ u.processed = t.processed
      /\ Len(u.match) = Len(t.match) /\ Len(t.match) \in Nat
      /\ \A k \in 1..Len(t.match) : k # Len(t.match) => u.match[k] = t.match[k]
      /\ u.match[Len(t.match)] = n
  BY <1>1, ExtendTracker
<1>3. Len(t.match) \in 1..Len(t.match)
  BY SeqDomain DEF IsTracker
<1> HIDE DEF u
<1>4. CASE n = 1
  <2>1. ~t.processed /\ t.processed \in BOOLEAN
    BY <1>1, <1>4 DEF RootOK
  <2>2. ~u.processed /\ u.processed \in BOOLEAN
    BY <1>2, <2>1, Zenon
  <2>3. 1 \in u.exhausted /\ u.root = Len(t.match) /\ u.root \in 1..Len(u.match) /\ u.root \in Nat
    BY <1>2, <1>3, <1>4
  <2> QED BY <1>2, <1>4, <2>2, <2>3 DEF RootOK, u
<1>5. CASE n # 1
  <2>1. /\ u.root = t.root
        /\ 1 \in u.exhausted <=> 1 \in t.exhausted
    BY <1>2, <1>5
  <2>2. \A k \in 1..Len(t.match) : u.match[k] = 1 <=> t.match[k] = 1
    BY <1>1, <1>2, <1>5
  <2> QED BY <1>2, <2>1, <2>2 DEF RootOK, u
<1> QED BY <1>4, <1>5

(* rollback.                                                               *)
LEMMA RollbackTracker ==
    ASSUME NEW t, IsTracker(t), NEW ex, NEW u, u = rollback(t, ex)
    PROVE  /\ IsTracker(u) /\ u.tree = t.tree /\ u.exhausted = ex /\ u.match = t.match
           /\ 1 \in ex => u.root = t.root /\ u.processed = t.processed
           /\ 1 \notin ex => u.root = 0 /\ ~u.processed
<1>1. /\ u = [tree |-> u.tree, exhausted |-> u.exhausted, match |-> u.match, root |-> u.root,
              processed |-> u.processed]
      /\ u.tree = t.tree /\ u.exhausted = ex /\ u.match = t.match
      /\ 1 \in ex => u.root = t.root /\ u.processed = t.processed
      /\ 1 \notin ex => u.root = 0 /\ ~u.processed
  <2>1. CASE 1 \in ex
    BY <2>1 DEF rollback, IsTracker
  <2>2. CASE 1 \notin ex
    BY <2>2 DEF rollback, IsTracker
  <2> QED BY <2>1, <2>2
<1>2. IsTracker(u)
  BY <1>1 DEF IsTracker, Nodes
<1> QED BY <1>1, <1>2

(* A frame that fails: the tracker is rolled back to the nodes ex, which   *)
(* include those its other frames matched, and popped.                     *)
LEMMA FailTracker ==
    ASSUME NEW t, IsTracker(t), PathOK(t), t.match # <<>>, NEW ex, ex \subseteq t.exhausted,
           \A k \in 1..(Len(t.match) - 1) : t.match[k] # 0 => t.match[k] \in ex
    PROVE  LET u == pop_frame(rollback(t, ex)) IN
           /\ IsTracker(u) /\ PathOK(u) /\ u.tree = t.tree /\ u.exhausted = ex
           /\ Len(u.match) = Len(t.match) - 1 /\ Len(t.match) \in Nat
           /\ \A k \in 1..(Len(t.match) - 1) : u.match[k] = t.match[k]
           /\ RootOK(t) => RootOK(u)
<1> DEFINE r == rollback(t, ex)
           u == pop_frame(r)
<1>1. /\ IsTracker(r) /\ r.tree = t.tree /\ r.exhausted = ex /\ r.match = t.match
      /\ 1 \in ex => r.root = t.root /\ r.processed = t.processed
      /\ 1 \notin ex => r.root = 0 /\ ~r.processed
  <2>1. r = rollback(t, ex)
    OBVIOUS
  <2> HIDE DEF r
  <2> QED BY <2>1, RollbackTracker
<1> HIDE DEF r
<1>2. /\ IsTracker(u) /\ u.tree = r.tree /\ u.exhausted = r.exhausted
      /\ u.root = r.root
      /\ u.processed = (r.processed \/ (r.root > 0 /\ r.root > Len(r.match) - 1))
      /\ Len(u.match) = Len(r.match) - 1 /\ Len(r.match) \in Nat
      /\ \A k \in 1..(Len(r.match) - 1) : u.match[k] = r.match[k]
  BY <1>1, PopTracker
<1> HIDE DEF u
<1>3. PathOK(u)
  BY <1>1, <1>2, CutPath
<1>4. ASSUME RootOK(t) PROVE RootOK(u)
  <2>1. CASE 1 \in ex
    <3>1. /\ IsTracker(pop_frame(t)) /\ RootOK(pop_frame(t))
          /\ pop_frame(t).exhausted = t.exhausted /\ pop_frame(t).root = t.root
          /\ pop_frame(t).processed = (t.processed \/ (t.root > 0 /\ t.root > Len(t.match) - 1))
          /\ Len(pop_frame(t).match) = Len(t.match) - 1
          /\ \A k \in 1..(Len(t.match) - 1) : pop_frame(t).match[k] = t.match[k]
      BY <1>4, PopPath, PopTracker
    <3>2. u.processed = pop_frame(t).processed /\ u.root = pop_frame(t).root
      BY <1>1, <1>2, <2>1, <3>1, Zenon
    <3>3. 1 \in u.exhausted /\ 1 \in pop_frame(t).exhausted
      BY <1>1, <1>2, <2>1, <3>1
    <3>4. /\ Len(u.match) = Len(pop_frame(t).match)
          /\ \A k \in 1..Len(u.match) : u.match[k] = pop_frame(t).match[k]
      BY <1>1, <1>2, <3>1
    <3> QED BY <3>1, <3>2, <3>3, <3>4 DEF RootOK
  <2>2. CASE 1 \notin ex
    <3>1. r.root = 0 /\ ~r.processed /\ 1 \notin u.exhausted
      BY <1>1, <1>2, <2>2, Zenon
    <3>2. ~(r.root > 0) /\ u.root = 0 /\ u.root \in Nat
      BY <1>2, <3>1
    <3>3. ~u.processed /\ u.processed \in BOOLEAN
      BY <1>2, <3>1, <3>2, Zenon
    <3> QED BY <3>1, <3>2, <3>3, Zenon DEF RootOK
  <2> QED BY <2>1, <2>2
<1> QED BY <1>1, <1>2, <1>3, <1>4 DEF u, r

(* The walk of a path never meets a bad match stack.                       *)
LEMMA PathNotBad ==
    ASSUME NEW t, IsTracker(t), PathOK(t)
    PROVE  ~BadStack(t)
<1> SUFFICES ASSUME NEW i \in MatchedFrames(t),
                    (t.match[i] = 1) # (\A j \in MatchedFrames(t) : i <= j)
             PROVE  FALSE
  BY DEF BadStack
<1>1. Len(t.match) \in Nat
  BY SeqDomain DEF IsTracker
<1>2. i \in 1..Len(t.match) /\ t.match[i] # 0
  BY DEF MatchedFrames
<1>3. \A j \in MatchedFrames(t) : j \in 1..Len(t.match) /\ t.match[j] # 0
  BY DEF MatchedFrames
<1>4. CASE t.match[i] = 1
  <2>1. PICK j \in MatchedFrames(t) : ~(i <= j)
    BY <1>4
  <2>2. j < i
    BY <1>1, <1>2, <1>3, <2>1
  <2> QED BY <1>2, <1>3, <1>4, <2>2, RootMatchedOnce
<1>5. CASE t.match[i] # 1
  <2>1. \A j \in MatchedFrames(t) : i <= j
    BY <1>5
  <2>2. ASSUME NEW l \in 1..(i - 1), t.match[l] # 0 PROVE FALSE
    <3>1. l \in MatchedFrames(t) /\ l < i
      BY <1>1, <1>2, <2>2 DEF MatchedFrames
    <3> QED BY <1>2, <2>1, <3>1
  <2>3. t.tree.parent[t.match[i]] = 0
    BY <1>2, <2>2 DEF PathOK, LastBelow
  <2>4. t.match[i] \in DOMAIN t.tree.fns
    BY <1>2 DEF IsTracker, Nodes
  <2> QED BY <1>5, <2>3, <2>4, TreeNodes DEF IsTracker
<1> QED BY <1>4, <1>5

-----------------------------------------------------------------------------
(* Frames, and the kinds of steps.                                         *)

IsFrame(f) ==
    f = [kind |-> f.kind, fn |-> f.fn, try |-> f.try, auth |-> f.auth, step |-> f.step,
         deployer |-> f.deployer, snap |-> f.snap]

(* The host function's frame is the first one; the frame of a contract     *)
(* creation is about Create; only a __check_auth frame has a tracker.      *)
FrameOK(p) ==
    LET f == stack[p] IN
    /\ IsFrame(f)
    /\ f.kind \in {"host", "contract", "create"}
    /\ f.kind = "host" <=> p = 1
    /\ f.kind = "create" => f.fn = Create
    /\ f.auth \in Trackers \union {0}
    /\ f.auth # 0 => f.kind = "contract" /\ Entries[f.auth].cred = "contract"
    /\ IsSeq(f.snap.invokers)

IsInvokers(q) ==
    /\ IsSeq(q)
    /\ \A j \in 1..Len(q) : q[j] = [addr |-> q[j].addr, made |-> q[j].made, t |-> q[j].t]

FrameInv ==
    /\ tx \in Transactions
    /\ IsSeq(stack)
    /\ \A p \in 1..Len(stack) : FrameOK(p)
    /\ DOMAIN accounts = Trackers
    /\ IsInvokers(invokers)
    /\ borrowed \subseteq Trackers

(* The frames of st are those of the stack, but for how far they are.      *)
SameFrame(f, g) ==
    f.kind = g.kind /\ f.fn = g.fn /\ f.try = g.try /\ f.auth = g.auth /\ f.snap = g.snap

KeptFrames(st, n) == \A p \in 1..n : IsFrame(st[p]) /\ SameFrame(st[p], stack[p])

KeptStack(st) == IsSeq(st) /\ Len(st) = Len(stack) /\ KeptFrames(st, Len(stack))

(* One more frame, with a snapshot of the state.                           *)
PushedStack(fr, bor, gr) ==
    /\ IsSeq(stack') /\ Len(stack') = Len(stack) + 1 /\ Len(stack) \in Nat
    /\ KeptFrames(stack', Len(stack))
    /\ stack'[Len(stack) + 1] = fr
    /\ IsFrame(fr)
    /\ fr.snap.exhausted = [i \in Trackers |-> accounts[i].exhausted]
    /\ fr.snap.verified = verified
    /\ fr.snap.borrowed = bor
    /\ fr.snap.invokers = [j \in DOMAIN invokers |-> invokers[j].t.exhausted]
    /\ fr.snap.nonces = nonces
    /\ fr.snap.grants = gr

PoppedStack ==
    /\ Len(stack) >= 1
    /\ IsSeq(stack') /\ Len(stack') = Len(stack) - 1 /\ Len(stack) \in Nat
    /\ \A p \in 1..(Len(stack) - 1) : stack'[p] = stack[p]

Quiet ==
    /\ KeptStack(stack')
    /\ err' = "Ok" => err = "Ok"
    /\ UNCHANGED <<accounts, verified, borrowed, invokers, nonces, grants>>

Pushed ==
    /\ err = "Ok" /\ err' = "Ok" /\ Len(stack) >= 1
    /\ \E fr : /\ fr.auth = 0 /\ fr.kind \in {"contract", "create"}
               /\ fr.kind = "create" => fr.fn = Create
               /\ PushedStack(fr, borrowed, grants)
    /\ accounts' = PushAccounts(accounts, borrowed)
    /\ invokers' = PushInvokers(invokers)
    /\ UNCHANGED <<verified, borrowed, nonces, grants>>

InvokerAdded ==
    /\ Len(stack) >= 1 /\ Top.kind = "contract"
    /\ \E tree : /\ IsTree(tree)
                 /\ invokers' = Append(invokers, [addr |-> Top.fn[1], made |-> Len(stack),
                                                  t |-> new(tree)])
    /\ err = "Ok" /\ err' = "Ok"
    /\ UNCHANGED <<stack, accounts, verified, borrowed, nonces, grants>>

InvokerMatched ==
    /\ Len(stack) >= 3 /\ err = "Ok"
    /\ \E j \in DOMAIN invokers : \E n :
          LET t == invokers[j].t IN
          /\ ~IsDirectInvoker(invokers[j].addr)
          /\ n = find_match(t, Top.fn, TRUE) /\ n # 0
          /\ invokers' = [invokers EXCEPT ![j].t = extend_match(t, n)]
          /\ err' = IF Underflows(t) THEN "InternalError" ELSE "Ok"
    /\ KeptStack(stack')
    /\ UNCHANGED <<accounts, verified, borrowed, nonces, grants>>

(* Tracker i matches the current frame with node n.                        *)
Found(i, n) ==
    /\ Len(stack) >= 2 /\ err = "Ok"
    /\ i \in Trackers \ borrowed
    /\ n = find_match(accounts[i], Top.fn, ~has_active_tracker(Entries[i].addr))
    /\ n # 0

Extended(i, n) == [accounts EXCEPT ![i] = extend_match(@, n)]

AccountMatched(i, n) ==
    /\ Found(i, n)
    /\ accounts' = Extended(i, n)
    /\ grants' = Granted(i, n)
    /\ \/ i \in verified /\ err' = "Ok" /\ UNCHANGED <<verified, nonces>>
       \/ /\ i \notin verified /\ Entries[i].cred # "contract"
          /\ Authenticates(i) /\ Verify(i)
       \/ i \notin verified /\ err' = "InvalidAction" /\ UNCHANGED <<verified, nonces>>
    /\ KeptStack(stack')
    /\ UNCHANGED <<borrowed, invokers>>

CheckStarted(i, n) ==
    /\ Found(i, n)
    /\ i \notin verified /\ Entries[i].cred = "contract"
    /\ borrowed' = borrowed \union {i}
    /\ accounts' = PushAccounts(Extended(i, n), borrowed')
    /\ invokers' = PushInvokers(invokers)
    /\ grants' = Granted(i, n)
    /\ \E fr : fr.auth = i /\ fr.kind = "contract" /\ PushedStack(fr, borrowed', grants')
    /\ UNCHANGED <<verified, nonces, err>>

Popped ==
    LET i == Top.auth IN
    /\ PoppedStack /\ Len(stack) >= 2
    /\ accounts' = PopAccounts(accounts, borrowed)
    /\ invokers' = PopInvokers(invokers)
    /\ borrowed' = borrowed \ {i}
    /\ \/ i = 0 /\ UNCHANGED <<verified, nonces, err>>
       \/ i # 0 /\ err = "Ok" /\ Verify(i)
       \/ i # 0 /\ err' = "InvalidAction" /\ UNCHANGED <<verified, nonces>>
    /\ UNCHANGED grants

RestoredRest(s) ==
    verified' = RollbackVerified(s) /\ nonces' = s.nonces /\ grants' = s.grants

Failed ==
    LET s == Top.snap IN
    /\ PoppedStack /\ Len(stack) >= 2
    /\ ~RollbackFails(s)
    /\ err # "Ok" /\ err' = AfterFailure(Top)
    /\ accounts' = PopAccounts(RollbackAccounts(s), borrowed)
    /\ invokers' = PopInvokers(RollbackInvokers(s))
    /\ RestoredRest(s)
    /\ borrowed' = borrowed \ {Top.auth}

FailedBadly ==
    /\ PoppedStack
    /\ RollbackFails(Top.snap)
    /\ err # "Ok" /\ err' = "InternalError"
    /\ borrowed' = borrowed \ {Top.auth}
    /\ UNCHANGED <<accounts, verified, invokers, nonces, grants>>

Ended ==
    LET s == Top.snap IN
    /\ Len(stack) = 1 /\ stack' = <<>>
    /\ borrowed' = borrowed
    /\ \/ err = "Ok" /\ UNCHANGED <<accounts, verified, invokers, nonces, err, grants>>
       \/ /\ ~RollbackFails(s)
          /\ err # "Ok" /\ err' = AfterFailure(Top)
          /\ accounts' = RollbackAccounts(s)
          /\ invokers' = RollbackInvokers(s)
          /\ RestoredRest(s)

Kinds ==
    \/ Quiet
    \/ Pushed
    \/ InvokerAdded
    \/ InvokerMatched
    \/ \E i, n : AccountMatched(i, n)
    \/ \E i, n : CheckStarted(i, n)
    \/ Popped
    \/ Failed
    \/ FailedBadly
    \/ Ended

-----------------------------------------------------------------------------
(* The inductive invariants.                                               *)

(* The tracker of each __check_auth frame is borrowed, and no other; a     *)
(* snapshot knows the ones of the frames up to its own.                    *)
Lent(st, n) == {st[q].auth : q \in 1..n} \ {0}

BorrowInv ==
    /\ \A p, q \in 1..Len(stack) : stack[p].auth # 0 /\ stack[p].auth = stack[q].auth => p = q
    /\ borrowed = Lent(stack, Len(stack))
    /\ \A p \in 1..Len(stack) : stack[p].snap.borrowed = Lent(stack, p)

(* The part of an invoker contract tracker, and of its place among the     *)
(* others, that says how long it lives.                                    *)
InvokerOK(j) ==
    LET v == invokers[j] IN
    /\ IsTracker(v.t)
    /\ v.made \in 2..Len(stack)
    /\ Len(v.t.match) = Len(stack) - v.made
    /\ stack[v.made].kind = "contract" /\ stack[v.made].fn[1] = v.addr

InvokerInv ==
    /\ \A j \in 1..Len(invokers) : InvokerOK(j)
    /\ \A j, k \in 1..Len(invokers) : j < k => invokers[j].made <= invokers[k].made
    /\ \A p \in 1..Len(stack) :
          LET s == stack[p].snap.invokers IN
          /\ IsSeq(s) /\ Len(s) <= Len(invokers)
          /\ \A j \in 1..Len(invokers) : j <= Len(s) <=> invokers[j].made < p

(* The match_stack of t is about the frames base + 1..n: a path of its     *)
(* tree, each node for the function f[p] of its frame p.  e[p] is what t   *)
(* had exhausted at the snapshot of frame p: what frames below p matched   *)
(* among it, and never more than at a later snapshot, or now.              *)
Aligned(t, base, n, f) ==
    /\ IsTracker(t) /\ PathOK(t)
    /\ Len(t.match) = n - base
    /\ \A k \in 1..Len(t.match) : t.match[k] # 0 => t.tree.fns[t.match[k]] = f[base + k]

SnapshotsFit(t, base, n, e) ==
    \A p \in base..n :
        /\ e[p] \subseteq t.exhausted
        /\ \A k \in 1..Len(t.match) : t.match[k] # 0 /\ base + k < p => t.match[k] \in e[p]
        /\ \A q \in base..n : p < q => e[p] \subseteq e[q]

Follows(t, base, n, f, e) == Aligned(t, base, n, f) /\ SnapshotsFit(t, base, n, e)

Fns(st) == [p \in 1..Len(st) |-> st[p].fn]

(* An invoker contract tracker follows the frames above the one that made  *)
(* it, and does not match the direct callee's.                             *)
InvokerSnaps(st, j, made) ==
    [p \in 1..Len(st) |-> IF made < p THEN st[p].snap.invokers[j] ELSE {}]

InvokerAt(v, j, st) ==
    /\ Follows(v.t, v.made, Len(st), Fns(st), InvokerSnaps(st, j, v.made))
    /\ v.t.match # <<>> => v.t.match[1] = 0

InvokerPathInv == \A j \in 1..Len(invokers) : InvokerAt(invokers[j], j, stack)

(* An account tracker follows the frames above the host function's, up to  *)
(* the last one or to the one where it was borrowed.                       *)
FollowedUpTo(i, n, st, bor) ==
    \/ n = Len(st) /\ i \notin bor
    \/ n + 1 \in 1..Len(st) /\ st[n + 1].auth = i

AccountSnaps(st, i) == [p \in 1..Len(st) |-> st[p].snap.exhausted[i]]

AccountAt(tree, i, t, st, bor) ==
    /\ IsTracker(t) /\ PathOK(t) /\ RootOK(t) /\ t.tree = tree
    /\ st = <<>> => t.match = <<>>
    /\ \A n \in 1..Len(st) :
          FollowedUpTo(i, n, st, bor) => Follows(t, 1, n, Fns(st), AccountSnaps(st, i))

AccountInv ==
    \A i \in Trackers : AccountAt(Entries[i].tree, i, accounts[i], stack, borrowed)

(* NonceOnce for given trackers and nonces of the transaction x.           *)
KeyOf(x, i) == <<x.entries[i].addr, x.entries[i].nonce>>
Consuming(x, ver) == {i \in ver : x.entries[i].cred # "source"}

NonceOK(x, ver, non) ==
    LET used == Consuming(x, ver) IN
    /\ \A i \in used : KeyOf(x, i) \notin x.used /\ x.entries[i].until \in x.now..x.latest
    /\ \A i, j \in used : KeyOf(x, i) = KeyOf(x, j) => i = j
    /\ non = x.used \union {KeyOf(x, i) : i \in used}

NonceInv ==
    /\ verified \subseteq Trackers \ borrowed
    /\ NonceOK(tx, verified, nonces)
    /\ \A p \in 1..Len(stack) :
          LET s == stack[p].snap IN
          s.verified \subseteq Trackers \ s.borrowed /\ NonceOK(tx, s.verified, s.nonces)

(* The grants are the exhausted nodes, now and at every snapshot; one that *)
(* was borrowed at the snapshot will not be rolled back.                   *)
Exhausted == [i \in Trackers |-> accounts[i].exhausted]

GrantsOf(es, ex) ==
    [i \in DOMAIN es |-> [n \in DOMAIN es[i].tree.fns |-> IF n \in ex[i] THEN 1 ELSE 0]]

ExhaustedAt(es, ex, s) == [i \in DOMAIN es |-> IF i \in s.borrowed THEN ex[i] ELSE s.exhausted[i]]

GrantInv ==
    /\ grants = GrantsOf(Entries, Exhausted)
    /\ \A p \in 1..Len(stack) :
          stack[p].snap.grants = GrantsOf(Entries, ExhaustedAt(Entries, Exhausted, stack[p].snap))

(* An entry of a classic account has passed its authentication.            *)
Genuine(x, i) ==
    x.entries[i].cred = "account" =>
        /\ x.entries[i].addr \in DOMAIN x.accounts
        /\ check_account_authentication(x.accounts[x.entries[i].addr], x.entries[i].sigs)

(* A tracker has exhausted something exactly when it is verified, or being *)
(* authenticated; the rest of the time an error is on its way up.          *)
AuthenticAt(x, s) ==
    /\ \A i \in DOMAIN x.entries \ s.borrowed : i \in s.verified <=> s.exhausted[i] # {}
    /\ \A i \in s.verified : Genuine(x, i)

AuthenticInv ==
    /\ err = "Ok" => \A i \in Trackers : Exhausted[i] # {} => i \in verified \union borrowed
    /\ \A i \in Trackers : i \in verified \union borrowed => Exhausted[i] # {}
    /\ \A i \in verified : Genuine(tx, i)
    /\ \A p \in 1..Len(stack) : AuthenticAt(tx, stack[p].snap)

(* DisjointTreesNotAllowed for the match stacks of acc, borrowed trackers  *)
(* included: those end at the frame that asked for the authorization.      *)
Disjoint(s, t) ==
    \A k, l \in 1..Len(s) : l \in 1..Len(t) /\ s[k] = 1 /\ t[l] = 1 /\ k < l => s[l] # 0

DisjointIn(es, acc) ==
    \A i, j \in DOMAIN es : es[i].addr = es[j].addr => Disjoint(acc[i].match, acc[j].match)

DisjointInv == DisjointIn(Entries, accounts)

-----------------------------------------------------------------------------
(* Every step is of one of the kinds.                                      *)

(* Trackers are naturals above 0, and the least of some is one of them.    *)
LEMMA TrackerNumbers ==
    ASSUME tx \in Transactions
    PROVE  /\ Trackers \subseteq Nat \ {0}
           /\ \A S : S # {} /\ S \subseteq Trackers => First(S) \in S
           /\ \A i \in Trackers : IsTree(Entries[i].tree)
           /\ \A t \in InvokerTrees : IsTree(t)
<1>1. Trackers \subseteq Nat \ {0}
  BY AuthAssumption DEF Trackers, Entries
<1>2. ASSUME NEW S, S # {}, S \subseteq Nat PROVE First(S) \in S
  BY <1>2, Least DEF First
<1>3. \A i \in Trackers : IsTree(Entries[i].tree)
  BY AuthAssumption DEF Trackers, Entries, IsEntry
<1>4. \A t \in InvokerTrees : IsTree(t)
  BY AuthAssumption DEF InvokerTrees, IsInvokerEntry
<1>5. \A S : S # {} /\ S \subseteq Trackers => S \subseteq Nat
  BY <1>1
<1> QED BY <1>1, <1>2, <1>3, <1>4, <1>5

(* A stack that does not change is kept.                                  *)
LEMMA StackIsKept ==
    ASSUME FrameInv
    PROVE  KeptStack(stack) /\ Len(stack) \in Nat
  BY SeqDomain DEF FrameInv, FrameOK, KeptStack, KeptFrames, SameFrame

(* The step counter of the current frame is no part of the rest.           *)
LEMMA SteppedIsKept ==
    ASSUME FrameInv, Len(stack) >= 1, NEW k
    PROVE  KeptStack(Stepped(k))
<1> DEFINE n == Len(stack)
           f == [stack[n] EXCEPT !.step = k]
           st == [stack EXCEPT ![n] = f]
<1>1. n \in Nat /\ n \in 1..n /\ DOMAIN stack = 1..n /\ IsSeq(stack) /\ n > 0
  BY SeqDomain DEF FrameInv
<1>2. \A p \in 1..n : IsFrame(stack[p])
  BY DEF FrameInv, FrameOK
<1>3. IsFrame(f) /\ SameFrame(f, stack[n])
  <2>1. IsFrame(stack[n])
    BY <1>1, <1>2
  <2> QED BY <2>1 DEF IsFrame, SameFrame
<1>4. Stepped(k) = st
  BY DEF Stepped
<1> HIDE DEF f
<1>5. /\ IsSeq(st) /\ Len(st) = n
      /\ \A p \in 1..n : p # n => st[p] = stack[p]
      /\ st[n] = f
  <2>1. st = [stack EXCEPT ![Len(stack)] = f]
    OBVIOUS
  <2> HIDE DEF st
  <2> QED BY <1>1, <2>1, SeqSet
<1> HIDE DEF st
<1>6. \A p \in 1..n : IsFrame(st[p]) /\ SameFrame(st[p], stack[p])
  BY <1>2, <1>3, <1>5 DEF SameFrame
<1> QED BY <1>4, <1>5, <1>6 DEF KeptStack, KeptFrames

(* A frame is pushed on a kept stack.                                      *)
LEMMA PushOnKept ==
    ASSUME FrameInv, NEW st, KeptStack(st), NEW fr, IsFrame(fr), stack' = Append(st, fr)
    PROVE  /\ IsSeq(stack') /\ Len(stack') = Len(stack) + 1 /\ Len(stack) \in Nat
           /\ KeptFrames(stack', Len(stack))
           /\ stack'[Len(stack) + 1] = fr
<1>1. IsSeq(st) /\ Len(st) = Len(stack) /\ KeptFrames(st, Len(stack))
  BY DEF KeptStack
<1>2. /\ IsSeq(stack') /\ Len(stack') = Len(st) + 1 /\ Len(st) \in Nat
      /\ \A i \in 1..Len(st) : stack'[i] = st[i]
      /\ stack'[Len(st) + 1] = fr
  BY <1>1, SeqPush
<1> QED BY <1>1, <1>2 DEF KeptFrames

(* PushContract.                                                           *)
LEMMA PushContractKinds ==
    ASSUME FrameInv, Running, NEW st, KeptStack(st), NEW fn, NEW try, PushContract(fn, try, st)
    PROVE  Quiet \/ Pushed
<1>0. Len(stack) >= 1 /\ err = "Ok"
  BY SeqDomain DEF Running, FrameInv
<1>1. CASE AtDepthLimit
  BY <1>0, <1>1 DEF PushContract, Quiet
<1>2. CASE ~AtDepthLimit
  <2> DEFINE fr == Frame("contract", fn, try, 0)
  <2>1. /\ stack' = Append(st, fr)
        /\ accounts' = PushAccounts(accounts, borrowed) /\ invokers' = PushInvokers(invokers)
        /\ UNCHANGED <<verified, borrowed, nonces, err, grants>>
    BY <1>2 DEF PushContract
  <2>2. /\ IsFrame(fr) /\ fr.auth = 0 /\ fr.kind = "contract" /\ fr.snap = snapshot
    BY DEF Frame, IsFrame
  <2> HIDE DEF fr
  <2>3. PushedStack(fr, borrowed, grants)
    BY <2>1, <2>2, PushOnKept DEF PushedStack, snapshot, invocation_snapshot
  <2> QED BY <1>0, <2>1, <2>2, <2>3 DEF Pushed
<1> QED BY <1>1, <1>2

(* require_auth for the function of the current frame.                     *)
LEMMA RequireAuthKinds ==
    ASSUME FrameInv, Running, Top.kind # "host", NEW a, NEW st, KeptStack(st),
           require_auth(a, Top.fn, st)
    PROVE  Quiet \/ InvokerMatched \/ (\E i, n : AccountMatched(i, n))
           \/ \E i, n : CheckStarted(i, n)
<1>1. Len(stack) \in Nat /\ Len(stack) >= 2 /\ err = "Ok"
  <2>1. Len(stack) \in Nat /\ Len(stack) >= 1 /\ err = "Ok"
    BY SeqDomain DEF Running, FrameInv
  <2>2. FrameOK(Len(stack))
    BY <2>1 DEF FrameInv
  <2>3. Len(stack) # 1
    BY <2>2 DEF FrameOK, Top
  <2> QED BY <2>1, <2>3, TwoOrMore, Zenon
<1>2. CASE IsDirectInvoker(a)
  BY <1>1, <1>2 DEF require_auth, Quiet
<1>3. CASE ~IsDirectInvoker(a) /\ WalkFails(a)
  <2>1. /\ err' = "InternalError"
        /\ UNCHANGED <<stack, accounts, verified, borrowed, invokers, nonces, grants>>
    BY <1>3 DEF require_auth
  <2> QED BY <2>1, StackIsKept DEF Quiet
<1>4. CASE ~IsDirectInvoker(a) /\ AuthorizedByInvoker(a, Top.fn, st)
  <2> DEFINE S == InvokerMatches(a, Top.fn)
             j == First(S)
  <2>1. S # {} /\ S \subseteq Nat
    <3>1. S # {}
      BY <1>4 DEF AuthorizedByInvoker
    <3>2. S \subseteq DOMAIN invokers
      BY DEF InvokerMatches
    <3>3. DOMAIN invokers \subseteq Nat
      BY SeqDomain DEF FrameInv, IsInvokers
    <3> QED BY <3>1, <3>2, <3>3
  <2>2. j \in S
    <3> HIDE DEF S
    <3> QED BY <2>1, Least DEF First
  <2>3. /\ j \in DOMAIN invokers /\ Len(stack) >= 3 /\ invokers[j].addr = a
        /\ find_match(invokers[j].t, Top.fn, TRUE) # 0
    BY <2>2 DEF InvokerMatches
  <2>4. /\ invokers' = [invokers EXCEPT ![j].t = extend_match(invokers[j].t,
                                                     find_match(invokers[j].t, Top.fn, TRUE))]
        /\ err' = IF Underflows(invokers[j].t) THEN "InternalError" ELSE "Ok"
        /\ stack' = st
        /\ UNCHANGED <<accounts, verified, borrowed, nonces, grants>>
    BY <1>4 DEF AuthorizedByInvoker
  <2> HIDE DEF j
  <2> QED BY <1>1, <1>4, <2>3, <2>4 DEF InvokerMatched
<1>5. CASE AuthorizedByAccount(a, Top.fn, st)
  <2> DEFINE S == AccountMatches(a, Top.fn)
             i == First(S)
             n == find_match(accounts[i], Top.fn, ~has_active_tracker(a))
  <2>1. S # {} /\ S \subseteq Trackers
    BY <1>5 DEF AuthorizedByAccount, AccountMatches
  <2>2. i \in S
    <3> HIDE DEF S
    <3> QED BY <2>1, TrackerNumbers DEF FrameInv
  <2>3. i \in Trackers \ borrowed /\ Entries[i].addr = a /\ n # 0
    BY <2>2 DEF AccountMatches
  <2>4. /\ grants' = Granted(i, n)
        /\ \/ /\ i \in verified
              /\ stack' = st /\ accounts' = Extended(i, n)
              /\ UNCHANGED <<verified, borrowed, invokers, nonces, err>>
           \/ /\ i \notin verified
              /\ \/ Authenticated(i, st) /\ accounts' = Extended(i, n)
                 \/ CheckAuthRefused(i, st) /\ accounts' = Extended(i, n)
                 \/ StartCheckAuth(i, n, st, Extended(i, n))
    BY <1>5 DEF AuthorizedByAccount, Extended
  <2>5. Found(i, n)
    BY <1>1, <2>3 DEF Found
  <2> HIDE DEF i, n
  <2>6. CASE i \in verified /\ stack' = st /\ accounts' = Extended(i, n)
             /\ UNCHANGED <<verified, borrowed, invokers, nonces, err>>
    BY <1>1, <2>4, <2>5, <2>6 DEF AccountMatched
  <2>7. CASE i \notin verified /\ Authenticated(i, st) /\ accounts' = Extended(i, n)
    <3>1. /\ Entries[i].cred # "contract" /\ stack' = st /\ UNCHANGED <<borrowed, invokers>>
          /\ \/ Authenticates(i) /\ Verify(i)
             \/ err' = "InvalidAction" /\ UNCHANGED <<verified, nonces>>
      BY <2>7 DEF Authenticated
    <3> QED BY <2>4, <2>5, <2>7, <3>1 DEF AccountMatched
  <2>8. CASE i \notin verified /\ CheckAuthRefused(i, st) /\ accounts' = Extended(i, n)
    BY <2>4, <2>5, <2>8 DEF AccountMatched, CheckAuthRefused
  <2>9. CASE i \notin verified /\ StartCheckAuth(i, n, st, Extended(i, n))
    <3> DEFINE f0 == Frame("contract", CheckAuth(Entries[i].addr), FALSE, i)
               fr == [f0 EXCEPT !.snap = [@ EXCEPT !.borrowed = borrowed', !.grants = Granted(i, n)]]
    <3>1. /\ Entries[i].cred = "contract"
          /\ borrowed' = borrowed \union {i}
          /\ accounts' = PushAccounts(Extended(i, n), borrowed')
          /\ invokers' = PushInvokers(invokers)
          /\ stack' = Append(st, fr)
          /\ UNCHANGED <<verified, nonces, err>>
      BY <2>9 DEF StartCheckAuth
    <3>2. /\ f0 = [kind |-> "contract", fn |-> CheckAuth(Entries[i].addr), try |-> FALSE,
                   auth |-> i, step |-> 0, deployer |-> Create, snap |-> f0.snap]
          /\ f0.snap = [exhausted |-> f0.snap.exhausted, verified |-> f0.snap.verified,
                        borrowed |-> f0.snap.borrowed, invokers |-> f0.snap.invokers,
                        nonces |-> f0.snap.nonces, grants |-> f0.snap.grants]
          /\ f0.snap.exhausted = [x \in Trackers |-> accounts[x].exhausted]
          /\ f0.snap.verified = verified
          /\ f0.snap.invokers = [j \in DOMAIN invokers |-> invokers[j].t.exhausted]
          /\ f0.snap.nonces = nonces
      BY DEF Frame, snapshot, invocation_snapshot
    <3> HIDE DEF f0
    <3>3. /\ IsFrame(fr) /\ fr.auth = i /\ fr.kind = "contract"
          /\ fr.snap.exhausted = [x \in Trackers |-> accounts[x].exhausted]
          /\ fr.snap.verified = verified
          /\ fr.snap.borrowed = borrowed'
          /\ fr.snap.invokers = [j \in DOMAIN invokers |-> invokers[j].t.exhausted]
          /\ fr.snap.nonces = nonces
          /\ fr.snap.grants = Granted(i, n)
      <4> DEFINE g == Granted(i, n)
                 s == f0.snap
      <4> HIDE DEF g
      <4>1. fr = [f0 EXCEPT !.snap = [s EXCEPT !.borrowed = borrowed', !.grants = g]]
        BY <3>2 DEF g
      <4> HIDE DEF fr
      <4>2. /\ IsFrame(fr) /\ fr.auth = i /\ fr.kind = "contract"
            /\ fr.snap = [s EXCEPT !.borrowed = borrowed', !.grants = g]
        BY <3>2, <4>1 DEF IsFrame
      <4>3. s = [exhausted |-> s.exhausted, verified |-> s.verified, borrowed |-> s.borrowed,
                 invokers |-> s.invokers, nonces |-> s.nonces, grants |-> s.grants]
        BY <3>2
      <4> HIDE DEF s
      <4>4. /\ fr.snap.exhausted = s.exhausted /\ fr.snap.verified = s.verified
            /\ fr.snap.borrowed = borrowed' /\ fr.snap.invokers = s.invokers
            /\ fr.snap.nonces = s.nonces /\ fr.snap.grants = g
        BY <4>2, <4>3
      <4> QED BY <3>2, <4>2, <4>4 DEF s, g
    <3> HIDE DEF fr
    <3>4. PushedStack(fr, borrowed', grants')
      BY <2>4, <3>1, <3>3, PushOnKept DEF PushedStack
    <3> QED BY <2>4, <2>5, <2>9, <3>1, <3>3, <3>4 DEF CheckStarted
  <2> QED BY <2>4, <2>6, <2>7, <2>8, <2>9
<1>6. CASE Unauthorized(a, Top.fn, st)
  BY <1>6 DEF Unauthorized, Quiet
<1> QED BY <1>2, <1>3, <1>4, <1>5, <1>6 DEF require_auth

(* The current frame leaves the stack.                                     *)
LEMMA PopStack ==
    ASSUME FrameInv, stack # <<>>, stack' = SubSeq(stack, 1, Len(stack) - 1)
    PROVE  PoppedStack
<1>1. IsSeq(stack) /\ Len(stack) \in Nat /\ Len(stack) # 0
  BY SeqDomain DEF FrameInv
<1>2. Len(stack) >= 1 /\ Len(stack) - 1 \in 0..Len(stack)
  BY <1>1
<1> QED BY <1>1, <1>2, SeqPrefix DEF PoppedStack

(* The frame on top.                                                       *)
LEMMA TopFrame ==
    ASSUME FrameInv, stack # <<>>
    PROVE  /\ Len(stack) \in Nat /\ Len(stack) >= 1 /\ Len(stack) \in 1..Len(stack)
           /\ FrameOK(Len(stack)) /\ Top = stack[Len(stack)]
           /\ Top.kind # "host" => Len(stack) >= 2
           /\ Top.kind = "host" => Len(stack) = 1
<1>1. IsSeq(stack) /\ Len(stack) \in Nat /\ Len(stack) # 0
  BY SeqDomain DEF FrameInv
<1>2. Len(stack) >= 1 /\ Len(stack) \in 1..Len(stack)
  BY <1>1
<1>3. FrameOK(Len(stack)) /\ Top = stack[Len(stack)]
  BY <1>2 DEF FrameInv, Top
<1>4. Top.kind # "host" <=> Len(stack) # 1
  BY <1>3 DEF FrameOK
<1> QED BY <1>1, <1>2, <1>3, <1>4, TwoOrMore, Zenon

(* A call pushes a frame, or is refused at the depth limit.                *)
LEMMA CallKinds ==
    ASSUME FrameInv, NEW c, NEW try, Call(c, try)
    PROVE  Kinds
<1>1. Running /\ stack # <<>>
  BY DEF Call, Running
<1>2. KeptStack(stack) /\ KeptStack(Stepped(1))
  BY <1>1, TopFrame, StackIsKept, SteppedIsKept
<1>3. PushContract(Fn(c), try, stack) \/ PushContract(Fn(c), FALSE, Stepped(1))
  BY DEF Call
<1> QED BY <1>1, <1>2, <1>3, PushContractKinds DEF Kinds

(* The creation of a contract pushes the manager's frame.                  *)
LEMMA CreateKinds ==
    ASSUME FrameInv, NEW a, CreateContract(a)
    PROVE  Kinds
<1> DEFINE st == IF HostStep THEN Stepped(1) ELSE stack
           f0 == Frame("create", Create, FALSE, 0)
           fr == [f0 EXCEPT !.deployer = a]
<1>1. err = "Ok" /\ stack # <<>>
  BY DEF CreateContract, Running
<1>2. KeptStack(st) /\ Len(stack) >= 1
  BY <1>1, TopFrame, StackIsKept, SteppedIsKept
<1>3. /\ stack' = Append(st, fr)
      /\ accounts' = PushAccounts(accounts, borrowed)
      /\ invokers' = PushInvokers(invokers)
      /\ UNCHANGED <<verified, borrowed, nonces, err, grants>>
  BY DEF CreateContract
<1> HIDE DEF st
<1>4. /\ IsFrame(f0) /\ f0.auth = 0 /\ f0.kind = "create" /\ f0.fn = Create
      /\ f0.snap.exhausted = [i \in Trackers |-> accounts[i].exhausted]
      /\ f0.snap.verified = verified
      /\ f0.snap.borrowed = borrowed
      /\ f0.snap.invokers = [j \in DOMAIN invokers |-> invokers[j].t.exhausted]
      /\ f0.snap.nonces = nonces
      /\ f0.snap.grants = grants
  BY DEF Frame, IsFrame, snapshot, invocation_snapshot
<1> HIDE DEF f0
<1>5. /\ IsFrame(fr) /\ fr.auth = f0.auth /\ fr.kind = f0.kind /\ fr.fn = f0.fn
      /\ fr.snap = f0.snap
  BY <1>4 DEF IsFrame
<1> HIDE DEF fr
<1>6. PushedStack(fr, borrowed, grants)
  BY <1>2, <1>3, <1>4, <1>5, PushOnKept DEF PushedStack
<1>7. Pushed
  BY <1>1, <1>2, <1>3, <1>4, <1>5, <1>6 DEF Pushed
<1> QED BY <1>7 DEF Kinds

(* authorize_as_curr_contract adds a tracker, or fails.                    *)
LEMMA AuthorizeKinds ==
    ASSUME FrameInv, NEW t \in InvokerTrees, AuthorizeAsCurrContract(t)
    PROVE  Kinds
<1> DEFINE inv == to_authorized_invocation(t)
<1>1. /\ err = "Ok" /\ stack # <<>> /\ Top.kind = "contract"
      /\ UNCHANGED <<stack, accounts, verified, borrowed, nonces, grants>>
      /\ err' = inv.err
      /\ invokers' = IF inv.err # "Ok" THEN invokers
                     ELSE Append(invokers, [addr |-> Top.fn[1], made |-> Len(stack),
                                            t |-> new(inv.tree)])
  BY DEF AuthorizeAsCurrContract, InContract, Running
<1>2. inv.tree = t /\ IsTree(t)
  BY TrackerNumbers DEF to_authorized_invocation, FrameInv
<1> HIDE DEF inv
<1>3. KeptStack(stack') /\ Len(stack) >= 1
  BY <1>1, StackIsKept, TopFrame
<1>4. CASE inv.err # "Ok"
  <2>1. Quiet
    BY <1>1, <1>3, <1>4 DEF Quiet
  <2> QED BY <2>1 DEF Kinds
<1>5. CASE inv.err = "Ok"
  <2>1. InvokerAdded
    BY <1>1, <1>2, <1>3, <1>5 DEF InvokerAdded
  <2> QED BY <2>1 DEF Kinds
<1> QED BY <1>4, <1>5

(* A frame that returns, a contract creation's that failed included.       *)
LEMMA PopKinds ==
    ASSUME FrameInv, PopCreate \/ PopOk
    PROVE  Kinds
<1>1. stack # <<>> /\ Top.kind \in {"create", "contract"}
  BY DEF PopCreate, PopOk, InContract, Running
<1>2. PoppedStack
  BY <1>1, PopStack DEF PopCreate, PopOk
<1>3. Len(stack) >= 2 /\ FrameOK(Len(stack)) /\ Top = stack[Len(stack)]
  BY <1>1, TopFrame
<1>4. CASE PopCreate
  <2>1. Top.auth = 0
    BY <1>3, <1>4 DEF PopCreate, FrameOK
  <2>2. borrowed \ {0} = borrowed
    BY TrackerNumbers DEF FrameInv
  <2>3. Popped
    BY <1>2, <1>3, <1>4, <2>1, <2>2 DEF PopCreate, Popped
  <2> QED BY <2>3 DEF Kinds
<1>5. CASE PopOk
  <2>1. Popped
    BY <1>2, <1>3, <1>5 DEF PopOk, Popped, InContract, Running
  <2> QED BY <2>1 DEF Kinds
<1> QED BY <1>4, <1>5

(* A frame that fails is rolled back and popped.                           *)
LEMMA FailKinds ==
    ASSUME FrameInv, PopFailed
    PROVE  Kinds
<1> DEFINE s == Top.snap
<1>1. /\ stack # <<>> /\ err # "Ok" /\ Top.kind \in {"contract", "host"}
      /\ borrowed' = borrowed \ {Top.auth}
  BY DEF PopFailed
<1>2. PoppedStack
  BY <1>1, PopStack DEF PopFailed
<1>3. CASE RollbackFails(s)
  <2>1. FailedBadly
    BY <1>1, <1>2, <1>3 DEF PopFailed, FailedBadly
  <2> QED BY <2>1 DEF Kinds
<1>4. CASE ~RollbackFails(s) /\ Top.kind = "contract"
  <2>1. Len(stack) >= 2
    BY <1>1, <1>4, TopFrame
  <2>2. Failed
    BY <1>1, <1>2, <1>4, <2>1 DEF PopFailed, Failed, RestoredRest
  <2> QED BY <2>2 DEF Kinds
<1>5. CASE ~RollbackFails(s) /\ Top.kind = "host"
  <2>1. Len(stack) = 1 /\ FrameOK(Len(stack)) /\ Top = stack[Len(stack)]
    BY <1>1, <1>5, TopFrame
  <2>2. Top.auth = 0
    BY <1>5, <2>1 DEF FrameOK
  <2>3. borrowed' = borrowed
    BY <1>1, <2>2, TrackerNumbers DEF FrameInv
  <2>4. stack' = <<>>
    BY <1>2, <2>1, SeqDomain DEF PoppedStack
  <2>5. Ended
    BY <1>1, <1>5, <2>1, <2>3, <2>4 DEF PopFailed, Ended, RestoredRest
  <2> QED BY <2>5 DEF Kinds
<1> QED BY <1>1, <1>3, <1>4, <1>5

(* Every step is of one of the kinds, and the transaction stays.           *)
LEMMA Steps ==
    ASSUME FrameInv, [Next]_vars
    PROVE  Kinds /\ tx' = tx /\ Trackers' = Trackers /\ Entries' = Entries
<1>1. tx' = tx
  BY DEF Next, vars, Call, RequireAuth, CreateContract, AuthorizeAsCurrContract, CallConstructor,
         GuestError, CreateAuth, PopCreate, PopOk, PopFailed, PopHost, Over
<1>2. Kinds
  <2>1. ASSUME NEW c, NEW try, Call(c, try) PROVE Kinds
    BY <2>1, CallKinds
  <2>2. ASSUME NEW a, RequireAuth(a) PROVE Kinds
    <3>1. Running /\ Top.kind # "host" /\ require_auth(a, Top.fn, stack)
      BY <2>2 DEF RequireAuth, InContract
    <3> QED BY <3>1, StackIsKept, RequireAuthKinds DEF Kinds
  <2>3. ASSUME NEW a, CreateContract(a) PROVE Kinds
    BY <2>3, CreateKinds
  <2>4. ASSUME NEW t \in InvokerTrees, AuthorizeAsCurrContract(t) PROVE Kinds
    BY <2>4, AuthorizeKinds
  <2>5. ASSUME NEW c, CallConstructor(c) PROVE Kinds
    <3>1. Running /\ stack # <<>> /\ PushContract(Constructor(c), FALSE, Stepped(2))
      BY <2>5 DEF CallConstructor, Running
    <3> QED BY <3>1, TopFrame, SteppedIsKept, PushContractKinds DEF Kinds
  <2>6. CASE GuestError
    <3>1. Quiet
      BY <2>6, StackIsKept DEF GuestError, Quiet
    <3> QED BY <3>1 DEF Kinds
  <2>7. CASE CreateAuth
    <3>1. /\ Running /\ stack # <<>> /\ Top.kind = "create"
          /\ require_auth(Top.deployer, Create, Stepped(1))
      BY <2>7 DEF CreateAuth, Running
    <3>2. Top.fn = Create
      BY <3>1, TopFrame DEF FrameOK
    <3> QED BY <3>1, <3>2, TopFrame, SteppedIsKept, RequireAuthKinds DEF Kinds
  <2>8. CASE PopHost
    <3>1. stack # <<>> /\ Top.kind = "host" /\ stack' = <<>> /\ err = "Ok"
          /\ UNCHANGED <<accounts, verified, borrowed, invokers, nonces, err, grants>>
      BY <2>8 DEF PopHost, Running
    <3>2. Ended
      BY <3>1, TopFrame DEF Ended
    <3> QED BY <3>2 DEF Kinds
  <2>9. CASE UNCHANGED vars
    <3>1. Quiet
      BY <2>9, StackIsKept DEF vars, Quiet
    <3> QED BY <3>1 DEF Kinds
  <2> QED BY <2>1, <2>2, <2>3, <2>4, <2>5, <2>6, <2>7, <2>8, <2>9, PopKinds, FailKinds
             DEF Next, Over
<1> QED BY <1>1, <1>2 DEF Trackers, Entries

-----------------------------------------------------------------------------
(* The invoker contract trackers as a whole.                               *)

(* A push on every invoker contract tracker.                               *)
LEMMA PushInvokersShape ==
    ASSUME NEW q, IsInvokers(q), NEW u, u = PushInvokers(q)
    PROVE  /\ IsInvokers(u) /\ Len(u) = Len(q) /\ Len(q) \in Nat
           /\ \A j \in 1..Len(q) : /\ u[j].addr = q[j].addr /\ u[j].made = q[j].made
                                   /\ u[j].t = push_frame(q[j].t)
<1>1. Len(q) \in Nat /\ DOMAIN q = 1..Len(q)
  BY SeqDomain DEF IsInvokers
<1>2. u = [j \in 1..Len(q) |-> [q[j] EXCEPT !.t = push_frame(@)]]
  BY <1>1 DEF PushInvokers
<1>3. IsSeq(u) /\ Len(u) = Len(q)
  BY <1>1, <1>2, SeqOfFunction
<1>4. ASSUME NEW j \in 1..Len(q)
      PROVE  /\ u[j].addr = q[j].addr /\ u[j].made = q[j].made /\ u[j].t = push_frame(q[j].t)
             /\ u[j] = [addr |-> u[j].addr, made |-> u[j].made, t |-> u[j].t]
  <2>1. q[j] = [addr |-> q[j].addr, made |-> q[j].made, t |-> q[j].t]
    BY DEF IsInvokers
  <2>2. u[j] = [q[j] EXCEPT !.t = push_frame(@)]
    BY <1>2
  <2> QED BY <2>1, <2>2
<1> QED BY <1>1, <1>3, <1>4 DEF IsInvokers

(* A pop drops the trackers after the last one that still follows a frame, *)
(* and all of those follow none.                                           *)
LEMMA PopInvokersShape ==
    ASSUME NEW q, IsInvokers(q), NEW u, u = PopInvokers(q)
    PROVE  /\ IsInvokers(u) /\ Len(u) \in 0..Len(q) /\ Len(q) \in Nat
           /\ \A j \in 1..Len(u) : /\ u[j].addr = q[j].addr /\ u[j].made = q[j].made
                                   /\ u[j].t = pop_frame(q[j].t)
           /\ Len(u) > 0 => pop_frame(q[Len(u)].t).match # <<>>
           /\ \A j \in 1..Len(q) : j > Len(u) => pop_frame(q[j].t).match = <<>>
<1> DEFINE popped == [j \in DOMAIN q |-> [q[j] EXCEPT !.t = pop_frame(@)]]
           InScope == {j \in DOMAIN q : popped[j].t.match # <<>>}
           keep == IF InScope = {} THEN 0 ELSE CHOOSE j \in InScope : \A i \in InScope : i <= j
<1>1. Len(q) \in Nat /\ DOMAIN q = 1..Len(q)
  BY SeqDomain DEF IsInvokers
<1>2. u = SubSeq(popped, 1, keep)
  BY DEF PopInvokers
<1>3. ASSUME NEW j \in 1..Len(q)
      PROVE  /\ popped[j].addr = q[j].addr /\ popped[j].made = q[j].made
             /\ popped[j].t = pop_frame(q[j].t)
             /\ popped[j] = [addr |-> popped[j].addr, made |-> popped[j].made,
                             t |-> popped[j].t]
  <2>1. q[j] = [addr |-> q[j].addr, made |-> q[j].made, t |-> q[j].t]
    BY DEF IsInvokers
  <2>2. popped[j] = [q[j] EXCEPT !.t = pop_frame(@)]
    BY <1>1
  <2> HIDE DEF popped
  <2> QED BY <2>1, <2>2
<1>4. IsSeq(popped) /\ Len(popped) = Len(q)
  <2>1. DOMAIN popped = 1..Len(q) /\ popped = [j \in 1..Len(q) |-> popped[j]]
    BY <1>1
  <2> HIDE DEF popped
  <2> QED BY <1>1, <2>1, SeqOfFunction
<1> HIDE DEF popped
<1>5. \A j \in 1..Len(q) : j \in InScope <=> pop_frame(q[j].t).match # <<>>
  BY <1>1, <1>3
<1>6. /\ keep \in 0..Len(q)
      /\ keep > 0 => keep \in InScope
      /\ \A j \in InScope : j <= keep
  <2>1. InScope \subseteq Nat /\ \A j \in InScope : j <= Len(q) /\ j >= 1
    BY <1>1
  <2> HIDE DEF InScope
  <2>2. CASE InScope = {}
    BY <1>1, <2>2
  <2>3. CASE InScope # {}
    <3>1. \E j \in InScope : \A i \in InScope : i <= j
      BY <1>1, <2>1, <2>3, Greatest
    <3>2. keep \in InScope /\ \A i \in InScope : i <= keep
      BY <2>3, <3>1
    <3> HIDE DEF keep
    <3> QED BY <1>1, <2>1, <3>2
  <2> QED BY <2>2, <2>3
<1> HIDE DEF keep
<1>7. IsSeq(u) /\ Len(u) = keep /\ \A j \in 1..keep : u[j] = popped[j]
  BY <1>2, <1>4, <1>6, SeqPrefix
<1>8. \A j \in 1..keep : j \in 1..Len(q)
  BY <1>1, <1>6
<1>9. /\ IsInvokers(u)
      /\ \A j \in 1..Len(u) : /\ u[j].addr = q[j].addr /\ u[j].made = q[j].made
                              /\ u[j].t = pop_frame(q[j].t)
  BY <1>3, <1>7, <1>8 DEF IsInvokers
<1>10. keep > 0 => pop_frame(q[keep].t).match # <<>>
  <2>1. keep > 0 => keep \in 1..Len(q)
    BY <1>1, <1>6
  <2> HIDE DEF InScope
  <2> QED BY <1>5, <1>6, <2>1
<1>11. ASSUME NEW j \in 1..Len(q), j > keep PROVE pop_frame(q[j].t).match = <<>>
  <2>1. j \notin InScope
    BY <1>1, <1>6, <1>11
  <2> HIDE DEF InScope
  <2> QED BY <1>5, <2>1
<1> QED BY <1>1, <1>6, <1>7, <1>9, <1>10, <1>11

(* A rollback keeps the trackers that the snapshot knows.                  *)
LEMMA RollbackInvokersShape ==
    ASSUME NEW s, IsSeq(s.invokers), IsInvokers(invokers), Len(s.invokers) <= Len(invokers),
           NEW u, u = RollbackInvokers(s)
    PROVE  /\ IsInvokers(u) /\ Len(u) = Len(s.invokers) /\ Len(u) \in Nat
           /\ \A j \in 1..Len(u) : /\ u[j].addr = invokers[j].addr
                                   /\ u[j].made = invokers[j].made
                                   /\ u[j].t = rollback(invokers[j].t, s.invokers[j])
<1>1. Len(s.invokers) \in Nat /\ DOMAIN s.invokers = 1..Len(s.invokers) /\ Len(invokers) \in Nat
  BY SeqDomain DEF IsInvokers
<1> DEFINE n == Len(s.invokers)
<1>2. u = [j \in 1..n |-> [invokers[j] EXCEPT !.t = rollback(@, s.invokers[j])]]
  BY <1>1 DEF RollbackInvokers
<1>3. IsSeq(u) /\ Len(u) = n
  BY <1>1, <1>2, SeqOfFunction
<1>4. ASSUME NEW j \in 1..n
      PROVE  /\ u[j].addr = invokers[j].addr /\ u[j].made = invokers[j].made
             /\ u[j].t = rollback(invokers[j].t, s.invokers[j])
             /\ u[j] = [addr |-> u[j].addr, made |-> u[j].made, t |-> u[j].t]
  <2>1. j \in 1..Len(invokers)
    BY <1>1
  <2>2. invokers[j] = [addr |-> invokers[j].addr, made |-> invokers[j].made,
                       t |-> invokers[j].t]
    BY <2>1 DEF IsInvokers
  <2>3. u[j] = [invokers[j] EXCEPT !.t = rollback(@, s.invokers[j])]
    BY <1>2
  <2> QED BY <2>2, <2>3
<1> QED BY <1>1, <1>3, <1>4 DEF IsInvokers

-----------------------------------------------------------------------------
(* The frames and the borrowed trackers.                                   *)

(* The stack starts with the host function's frame, and nothing is lent.   *)
LEMMA FrameInit == Init => FrameInv /\ BorrowInv /\ Len(stack) = 1 /\ stack = <<HostFrame>>
<1> SUFFICES ASSUME Init PROVE FrameInv /\ BorrowInv /\ Len(stack) = 1 /\ stack = <<HostFrame>>
  OBVIOUS
<1> DEFINE f == HostFrame
<1>1. /\ IsFrame(f) /\ f.kind = "host" /\ f.auth = 0 /\ f.snap.borrowed = borrowed
      /\ f.snap.invokers = [j \in DOMAIN invokers |-> invocation_snapshot(invokers[j].t)]
  BY DEF HostFrame, Frame, snapshot, IsFrame
<1>2. stack = <<f>> /\ tx \in Transactions /\ borrowed = {} /\ invokers = <<>>
      /\ DOMAIN accounts = Trackers
  BY DEF Init
<1> HIDE DEF f
<1>3. IsSeq(stack) /\ Len(stack) = 1 /\ stack[1] = f
  <2>1. <<f>> \in Seq({f})
    OBVIOUS
  <2>2. IsSeq(<<f>>)
    BY <2>1, SeqIsSeq
  <2> QED BY <1>2, <2>2
<1>4. IsInvokers(invokers) /\ Len(invokers) = 0
  <2>1. invokers = <<>>
    BY <1>2
  <2>2. IsSeq(invokers) /\ Len(invokers) = 0 /\ 1..Len(invokers) = {}
    BY <2>1, NullSeq
  <2> QED BY <2>2 DEF IsInvokers
<1>5. IsSeq(f.snap.invokers)
  <2>0. DOMAIN invokers = 1..Len(invokers) /\ Len(invokers) = 0
    BY <1>4, SeqDomain DEF IsInvokers
  <2>1. DOMAIN invokers = 1..0 /\ 0 \in Nat
    BY <2>0
  <2> DEFINE g == f.snap.invokers
  <2>2. DOMAIN g = 1..0 /\ g = [j \in 1..0 |-> g[j]]
    BY <1>1, <2>1
  <2> HIDE DEF g
  <2>3. IsSeq(g)
    BY <2>1, <2>2, SeqOfFunction
  <2> QED BY <2>3 DEF g
<1>6. \A p \in 1..Len(stack) : p = 1
  BY <1>3
<1>7. FrameOK(1)
  BY <1>1, <1>3, <1>5 DEF FrameOK
<1>8. FrameInv
  BY <1>2, <1>3, <1>4, <1>6, <1>7 DEF FrameInv
<1>9. Lent(stack, 1) = {}
  BY <1>1, <1>3 DEF Lent
<1>10. BorrowInv
  BY <1>1, <1>2, <1>3, <1>6, <1>9 DEF BorrowInv
<1> QED BY <1>3, <1>2, <1>8, <1>10 DEF f

(* A frame that stays is as it was.                                        *)
LEMMA KeptFrameOK ==
    ASSUME NEW p \in 1..Len(stack), FrameOK(p), Trackers' = Trackers, Entries' = Entries,
           IsFrame(stack'[p]), SameFrame(stack'[p], stack[p])
    PROVE  FrameOK(p)'
  BY DEF FrameOK, SameFrame, Create

(* The frames of the new stack, whatever kind of step it was.              *)
LEMMA KeptStackOK ==
    ASSUME FrameInv, Trackers' = Trackers, Entries' = Entries, KeptStack(stack')
    PROVE  IsSeq(stack') /\ \A p \in 1..Len(stack') : FrameOK(p)'
  BY KeptFrameOK DEF FrameInv, KeptStack, KeptFrames

(* The frames after a push.                                                *)
LEMMA PushedStackOK ==
    ASSUME FrameInv, Trackers' = Trackers, Entries' = Entries, NEW fr, NEW bor, NEW gr,
           PushedStack(fr, bor, gr), Len(stack) >= 1,
           fr.kind \in {"contract", "create"}, fr.kind = "create" => fr.fn = Create,
           fr.auth \in Trackers \union {0},
           fr.auth # 0 => fr.kind = "contract" /\ Entries[fr.auth].cred = "contract"
    PROVE  IsSeq(stack') /\ \A p \in 1..Len(stack') : FrameOK(p)'
<1>1. /\ IsSeq(stack') /\ Len(stack') = Len(stack) + 1 /\ Len(stack) \in Nat
      /\ KeptFrames(stack', Len(stack))
      /\ stack'[Len(stack) + 1] = fr /\ IsFrame(fr)
      /\ fr.snap.invokers = [j \in DOMAIN invokers |-> invokers[j].t.exhausted]
  BY DEF PushedStack
<1>2. IsSeq(fr.snap.invokers)
  <2>1. Len(invokers) \in Nat /\ DOMAIN invokers = 1..Len(invokers)
    BY SeqDomain DEF FrameInv, IsInvokers
  <2> DEFINE g == fr.snap.invokers
  <2>2. DOMAIN g = 1..Len(invokers) /\ g = [j \in 1..Len(invokers) |-> g[j]]
    BY <1>1, <2>1
  <2> HIDE DEF g
  <2>3. IsSeq(g)
    BY <2>1, <2>2, SeqOfFunction
  <2> QED BY <2>3 DEF g
<1>3. \A p \in 1..Len(stack) : FrameOK(p)'
  BY <1>1, KeptFrameOK DEF FrameInv, KeptFrames
<1>4. ASSUME NEW p \in Nat, p = Len(stack) + 1 PROVE FrameOK(p)'
  <2>1. stack'[p] = fr /\ p # 1
    BY <1>1, <1>4
  <2> QED BY <1>1, <1>2, <2>1 DEF FrameOK, Create
<1>5. \A p \in 1..Len(stack') : p \in 1..Len(stack) \/ (p \in Nat /\ p = Len(stack) + 1)
  BY <1>1
<1> QED BY <1>1, <1>3, <1>4, <1>5

(* The frames after a pop.                                                 *)
LEMMA PoppedStackOK ==
    ASSUME FrameInv, Trackers' = Trackers, Entries' = Entries, PoppedStack
    PROVE  IsSeq(stack') /\ \A p \in 1..Len(stack') : FrameOK(p)'
<1>1. /\ IsSeq(stack') /\ Len(stack') = Len(stack) - 1 /\ Len(stack) \in Nat
      /\ \A p \in 1..(Len(stack) - 1) : stack'[p] = stack[p]
  BY DEF PoppedStack
<1>2. \A p \in 1..Len(stack') : p \in 1..Len(stack) /\ stack'[p] = stack[p]
  BY <1>1
<1>3. \A p \in 1..Len(stack') : IsFrame(stack'[p]) /\ SameFrame(stack'[p], stack[p])
  BY <1>2 DEF FrameInv, FrameOK, SameFrame
<1> QED BY <1>1, <1>2, <1>3, KeptFrameOK DEF FrameInv

(* The frames stay well formed.                                            *)
LEMMA FrameStep ==
    ASSUME FrameInv, Kinds, tx' = tx, Trackers' = Trackers, Entries' = Entries
    PROVE  FrameInv'
<1> DEFINE G == /\ IsSeq(stack') /\ \A p \in 1..Len(stack') : FrameOK(p)'
                /\ DOMAIN accounts' = Trackers /\ IsInvokers(invokers')
                /\ borrowed' \subseteq Trackers
<1> SUFFICES G
  BY DEF FrameInv
<1>2. /\ DOMAIN accounts = Trackers /\ IsInvokers(invokers) /\ borrowed \subseteq Trackers
      /\ tx \in Transactions
  BY DEF FrameInv
<1>3. CASE Quiet
  BY <1>2, <1>3, KeptStackOK DEF Quiet
<1>4. CASE Pushed
  <2>1. PICK fr : /\ fr.auth = 0 /\ fr.kind \in {"contract", "create"}
                  /\ fr.kind = "create" => fr.fn = Create
                  /\ PushedStack(fr, borrowed, grants)
    BY <1>4 DEF Pushed
  <2>2. IsSeq(stack') /\ \A p \in 1..Len(stack') : FrameOK(p)'
    BY <1>4, <2>1, PushedStackOK DEF Pushed
  <2>3. IsInvokers(invokers')
    BY <1>2, <1>4, PushInvokersShape DEF Pushed
  <2> QED BY <1>2, <1>4, <2>2, <2>3 DEF Pushed, PushAccounts
<1>5. CASE InvokerAdded
  <2>1. PICK e : /\ e = [addr |-> e.addr, made |-> e.made, t |-> e.t]
                 /\ invokers' = Append(invokers, e)
    BY <1>5 DEF InvokerAdded
  <2>2. /\ IsSeq(invokers') /\ Len(invokers') = Len(invokers) + 1 /\ Len(invokers) \in Nat
        /\ \A i \in 1..Len(invokers) : invokers'[i] = invokers[i]
        /\ invokers'[Len(invokers) + 1] = e
    BY <1>2, <2>1, SeqPush DEF IsInvokers
  <2>3. \A j \in 1..Len(invokers') : j \in 1..Len(invokers) \/ j = Len(invokers) + 1
    BY <2>2
  <2>4. IsInvokers(invokers')
    BY <1>2, <2>1, <2>2, <2>3 DEF IsInvokers
  <2>5. KeptStack(stack')
    BY <1>5, StackIsKept DEF InvokerAdded
  <2> QED BY <1>2, <1>5, <2>4, <2>5, KeptStackOK DEF InvokerAdded
<1>6. CASE InvokerMatched
  <2>1. PICK j, u : j \in DOMAIN invokers /\ invokers' = [invokers EXCEPT ![j].t = u]
    BY <1>6 DEF InvokerMatched
  <2>2. Len(invokers) \in Nat /\ DOMAIN invokers = 1..Len(invokers)
    BY <1>2, SeqDomain DEF IsInvokers
  <2>3. DOMAIN invokers' = 1..Len(invokers) /\ invokers' = [k \in 1..Len(invokers) |-> invokers'[k]]
    BY <2>1, <2>2
  <2>4. IsSeq(invokers') /\ Len(invokers') = Len(invokers)
    BY <2>2, <2>3, SeqOfFunction
  <2>5. \A k \in 1..Len(invokers) :
            invokers'[k] = [addr |-> invokers'[k].addr, made |-> invokers'[k].made,
                            t |-> invokers'[k].t]
    <3> TAKE k \in 1..Len(invokers)
    <3>1. invokers[k] = [addr |-> invokers[k].addr, made |-> invokers[k].made,
                         t |-> invokers[k].t]
      BY <1>2 DEF IsInvokers
    <3>2. invokers'[k] = IF k = j THEN [invokers[k] EXCEPT !.t = u] ELSE invokers[k]
      BY <2>1, <2>2
    <3> QED BY <3>1, <3>2
  <2> QED BY <1>2, <1>6, <2>4, <2>5, KeptStackOK DEF InvokerMatched, IsInvokers
<1>7. ASSUME NEW i, NEW n, AccountMatched(i, n) PROVE G
  <2>1. DOMAIN accounts' = Trackers
    BY <1>2, <1>7 DEF AccountMatched, Extended
  <2> QED BY <1>2, <1>7, <2>1, KeptStackOK DEF AccountMatched
<1>8. ASSUME NEW i, NEW n, CheckStarted(i, n) PROVE G
  <2>1. PICK fr : fr.auth = i /\ fr.kind = "contract" /\ PushedStack(fr, borrowed', grants')
    BY <1>8 DEF CheckStarted
  <2>2. i \in Trackers /\ Entries[i].cred = "contract" /\ Len(stack) >= 1
    BY <1>8, StackIsKept DEF CheckStarted, Found
  <2>3. IsSeq(stack') /\ \A p \in 1..Len(stack') : FrameOK(p)'
    BY <2>1, <2>2, PushedStackOK
  <2>4. IsInvokers(invokers')
    BY <1>2, <1>8, PushInvokersShape DEF CheckStarted
  <2> QED BY <1>2, <1>8, <2>2, <2>3, <2>4 DEF CheckStarted, PushAccounts
<1>9. CASE Popped
  <2>1. IsInvokers(invokers')
    BY <1>2, <1>9, PopInvokersShape DEF Popped
  <2> QED BY <1>2, <1>9, <2>1, PoppedStackOK DEF Popped, PopAccounts
<1>10. CASE Failed
  <2>1. PoppedStack /\ FrameOK(Len(stack)) /\ Top = stack[Len(stack)]
    <3>1. Len(stack) \in Nat /\ Len(stack) >= 2 /\ PoppedStack
      BY <1>10, StackIsKept DEF Failed
    <3>2. Len(stack) \in 1..Len(stack)
      BY <3>1
    <3> QED BY <3>1, <3>2 DEF FrameInv, Top
  <2>2. IsSeq(Top.snap.invokers) /\ Len(Top.snap.invokers) <= Len(invokers)
    BY <1>2, <1>10, <2>1, SeqDomain DEF Failed, FrameOK, RollbackFails, IsInvokers
  <2>3. IsInvokers(RollbackInvokers(Top.snap))
    BY <1>2, <2>2, RollbackInvokersShape
  <2>4. IsInvokers(invokers')
    BY <1>10, <2>3, PopInvokersShape DEF Failed
  <2> QED BY <1>2, <1>10, <2>1, <2>4, PoppedStackOK DEF Failed, PopAccounts
<1>11. CASE FailedBadly
  BY <1>2, <1>11, PoppedStackOK DEF FailedBadly
<1>12. CASE Ended
  <2>1. Len(stack) = 1 /\ FrameOK(1) /\ Top = stack[1]
    <3>1. Len(stack) = 1 /\ 1 \in 1..Len(stack)
      BY <1>12 DEF Ended
    <3> QED BY <3>1 DEF FrameInv, Top
  <2>2. stack' = <<>> /\ IsSeq(stack') /\ 1..Len(stack') = {}
    <3>1. stack' = <<>>
      BY <1>12 DEF Ended
    <3> QED BY <3>1, NullSeq
  <2>3. CASE UNCHANGED <<accounts, invokers>>
    BY <1>2, <1>12, <2>2, <2>3 DEF Ended
  <2>4. CASE ~RollbackFails(Top.snap) /\ accounts' = RollbackAccounts(Top.snap)
             /\ invokers' = RollbackInvokers(Top.snap)
    <3>1. IsSeq(Top.snap.invokers) /\ Len(Top.snap.invokers) <= Len(invokers)
      BY <1>2, <2>4, <2>1, SeqDomain DEF FrameOK, RollbackFails, IsInvokers
    <3>2. IsInvokers(invokers')
      BY <1>2, <2>4, <3>1, RollbackInvokersShape
    <3> QED BY <1>2, <1>12, <2>2, <2>4, <3>2 DEF Ended, RollbackAccounts
  <2> QED BY <1>12, <2>3, <2>4 DEF Ended
<1> QED BY <1>3, <1>4, <1>5, <1>6, <1>7, <1>8, <1>9, <1>10, <1>11, <1>12 DEF Kinds

(* What is lent depends on the frames' trackers only.                      *)
LEMMA LentKept ==
    ASSUME NEW st, NEW su, NEW n, \A q \in 1..n : su[q].auth = st[q].auth
    PROVE  Lent(su, n) = Lent(st, n)
  BY DEF Lent

(* What one frame more lends.                                              *)
LEMMA LentGrows ==
    ASSUME NEW st, NEW n \in Nat
    PROVE  Lent(st, n + 1) = Lent(st, n) \union ({st[n + 1].auth} \ {0})
<1>1. \A q : q \in 1..(n + 1) <=> q \in 1..n \/ q = n + 1
  OBVIOUS
<1> QED BY <1>1, Zenon DEF Lent

(* A frame's tracker stays borrowed for as long as the frame is there.     *)
LEMMA BorrowStep ==
    ASSUME FrameInv, BorrowInv, Kinds, tx' = tx, Trackers' = Trackers, Entries' = Entries
    PROVE  BorrowInv'
<1> DEFINE n == Len(stack)
<1>0. /\ n \in Nat /\ borrowed = Lent(stack, n)
      /\ \A p \in 1..n : stack[p].snap.borrowed = Lent(stack, p)
      /\ \A p, q \in 1..n : stack[p].auth # 0 /\ stack[p].auth = stack[q].auth => p = q
  BY StackIsKept DEF BorrowInv
<1> HIDE DEF n
<1>1. ASSUME KeptStack(stack'), UNCHANGED borrowed PROVE BorrowInv'
  <2>1. Len(stack') = n /\ \A p \in 1..n : /\ stack'[p].auth = stack[p].auth
                                           /\ stack'[p].snap = stack[p].snap
    BY <1>1 DEF KeptStack, KeptFrames, SameFrame, n
  <2>2. \A p \in 1..n : \A q \in 1..p : q \in 1..n
    BY <1>0
  <2>3. Lent(stack', n) = Lent(stack, n) /\ \A p \in 1..n : Lent(stack', p) = Lent(stack, p)
    BY <2>1, <2>2, LentKept
  <2> QED BY <1>0, <1>1, <2>1, <2>3 DEF BorrowInv
<1>2. ASSUME NEW fr, NEW bor, NEW gr, PushedStack(fr, bor, gr), borrowed' = bor,
             bor = borrowed \union ({fr.auth} \ {0}), fr.auth \notin borrowed \/ fr.auth = 0
      PROVE  BorrowInv'
  <2>1. /\ Len(stack') = n + 1
        /\ \A p \in 1..n : stack'[p].auth = stack[p].auth /\ stack'[p].snap = stack[p].snap
        /\ stack'[n + 1] = fr /\ fr.snap.borrowed = bor
    BY <1>2 DEF PushedStack, KeptFrames, SameFrame, n
  <2>2. \A p \in 1..n : \A q \in 1..p : q \in 1..n
    BY <1>0
  <2>3. Lent(stack', n) = Lent(stack, n) /\ \A p \in 1..n : Lent(stack', p) = Lent(stack, p)
    BY <2>1, <2>2, LentKept
  <2>4. Lent(stack', n + 1) = bor
    BY <1>0, <1>2, <2>1, <2>3, LentGrows
  <2>5. \A p \in 1..(n + 1) : p \in 1..n \/ p = n + 1
    BY <1>0
  <2>6. \A p \in 1..n : stack[p].auth # 0 => stack[p].auth \in borrowed
    BY <1>0 DEF Lent
  <2>7. \A p, q \in 1..(n + 1) : stack'[p].auth # 0 /\ stack'[p].auth = stack'[q].auth => p = q
    BY <1>0, <1>2, <2>1, <2>5, <2>6
  <2>8. \A p \in 1..(n + 1) : stack'[p].snap.borrowed = Lent(stack', p)
    BY <1>0, <2>1, <2>3, <2>4, <2>5
  <2> QED BY <1>2, <2>1, <2>4, <2>7, <2>8 DEF BorrowInv
<1>3. ASSUME PoppedStack, borrowed' = borrowed \ {Top.auth} PROVE BorrowInv'
  <2>1. /\ n >= 1 /\ Len(stack') = n - 1 /\ \A p \in 1..(n - 1) : stack'[p] = stack[p]
        /\ Top = stack[n]
    BY <1>3 DEF PoppedStack, Top, n
  <2>2. \A p \in 1..(n - 1) : p \in 1..n /\ p # n /\ \A q \in 1..p : q \in 1..(n - 1)
    BY <1>0
  <2>3. /\ Lent(stack', n - 1) = Lent(stack, n - 1)
        /\ \A p \in 1..(n - 1) : Lent(stack', p) = Lent(stack, p)
    BY <2>1, <2>2, LentKept
  <2>4. n - 1 \in Nat /\ (n - 1) + 1 = n /\ n \in 1..n
    BY <1>0, <2>1
  <2>5. Lent(stack, n) = Lent(stack, n - 1) \union ({Top.auth} \ {0})
    BY <2>1, <2>4, LentGrows
  <2>6. Top.auth \notin Lent(stack, n - 1)
    BY <1>0, <2>1, <2>2, <2>4 DEF Lent
  <2>7. 0 \notin Lent(stack, n - 1)
    BY DEF Lent
  <2>8. borrowed' = Lent(stack', n - 1)
    BY <1>0, <1>3, <2>3, <2>5, <2>6, <2>7
  <2>9. /\ \A p \in 1..(n - 1) : stack'[p].snap.borrowed = Lent(stack', p)
        /\ \A p, q \in 1..(n - 1) :
              stack'[p].auth # 0 /\ stack'[p].auth = stack'[q].auth => p = q
    BY <1>0, <2>1, <2>2, <2>3
  <2> QED BY <2>1, <2>8, <2>9 DEF BorrowInv
<1>4. CASE Ended
  <2>1. Len(stack) = 1 /\ stack' = <<>> /\ borrowed' = borrowed
    BY <1>4 DEF Ended
  <2>2. stack[1].kind = "host" /\ stack[1].auth = 0
    BY <2>1 DEF FrameInv, FrameOK
  <2>3. borrowed = {}
    BY <1>0, <2>1, <2>2 DEF Lent, n
  <2>4. Len(stack') = 0 /\ 1..Len(stack') = {}
    BY <2>1, NullSeq
  <2> QED BY <2>1, <2>3, <2>4 DEF BorrowInv, Lent
<1>5. CASE Quiet
  BY <1>1, <1>5 DEF Quiet
<1>6. CASE Pushed
  <2>1. PICK fr : fr.auth = 0 /\ PushedStack(fr, borrowed, grants)
    BY <1>6 DEF Pushed
  <2> QED BY <1>2, <1>6, <2>1 DEF Pushed
<1>7. CASE InvokerAdded
  BY <1>1, <1>7, StackIsKept DEF InvokerAdded
<1>8. CASE InvokerMatched
  BY <1>1, <1>8 DEF InvokerMatched
<1>9. ASSUME NEW i, NEW m, AccountMatched(i, m) PROVE BorrowInv'
  BY <1>1, <1>9 DEF AccountMatched
<1>10. ASSUME NEW i, NEW m, CheckStarted(i, m) PROVE BorrowInv'
  <2>1. PICK fr : fr.auth = i /\ PushedStack(fr, borrowed', grants')
    BY <1>10 DEF CheckStarted
  <2>2. i \in Trackers \ borrowed /\ borrowed' = borrowed \union {i}
    BY <1>10 DEF CheckStarted, Found
  <2>3. i # 0
    BY <2>2, TrackerNumbers DEF FrameInv
  <2> QED BY <1>2, <2>1, <2>2, <2>3
<1>11. CASE Popped
  BY <1>3, <1>11 DEF Popped
<1>12. CASE Failed
  BY <1>3, <1>12 DEF Failed
<1>13. CASE FailedBadly
  BY <1>3, <1>13 DEF FailedBadly
<1> QED BY <1>4, <1>5, <1>6, <1>7, <1>8, <1>9, <1>10, <1>11, <1>12, <1>13 DEF Kinds

-----------------------------------------------------------------------------
(* How long the invoker contract trackers live.                            *)

(* Trackers that follow the frames up to n, made in this order.            *)
Follow(q, n) ==
    /\ \A j \in 1..Len(q) : /\ IsTracker(q[j].t) /\ q[j].made \in 2..n
                            /\ Len(q[j].t.match) = n - q[j].made
    /\ \A j, k \in 1..Len(q) : j < k => q[j].made <= q[k].made

(* A pop drops the trackers that the frame below the current one, or the   *)
(* current one itself, made.                                               *)
LEMMA PopLives ==
    ASSUME NEW n \in Nat, NEW q, IsInvokers(q), NEW u, u = PopInvokers(q), Follow(q, n)
    PROVE  /\ IsInvokers(u) /\ Len(u) \in 0..Len(q) /\ Len(q) \in Nat
           /\ \A j \in 1..Len(u) : /\ u[j].addr = q[j].addr /\ u[j].made = q[j].made
                                   /\ u[j].t = pop_frame(q[j].t) /\ IsTracker(u[j].t)
                                   /\ q[j].t.match # <<>>
                                   /\ Len(u[j].t.match) = (n - 1) - q[j].made
           /\ \A j \in 1..Len(q) : j <= Len(u) <=> q[j].made < n - 1
<1>0. /\ \A j \in 1..Len(q) : /\ IsTracker(q[j].t) /\ q[j].made \in 2..n
                              /\ Len(q[j].t.match) = n - q[j].made
      /\ \A j, k \in 1..Len(q) : j < k => q[j].made <= q[k].made
  BY DEF Follow
<1>1. /\ IsInvokers(u) /\ Len(u) \in 0..Len(q) /\ Len(q) \in Nat
      /\ \A j \in 1..Len(u) : /\ u[j].addr = q[j].addr /\ u[j].made = q[j].made
                              /\ u[j].t = pop_frame(q[j].t)
      /\ Len(u) > 0 => pop_frame(q[Len(u)].t).match # <<>>
      /\ \A j \in 1..Len(q) : j > Len(u) => pop_frame(q[j].t).match = <<>>
  BY PopInvokersShape
<1>2. ASSUME NEW j \in 1..Len(q)
      PROVE  /\ pop_frame(q[j].t).match # <<>> <=> q[j].made < n - 1
             /\ q[j].made < n - 1 =>
                   /\ IsTracker(pop_frame(q[j].t)) /\ q[j].t.match # <<>>
                   /\ Len(pop_frame(q[j].t).match) = (n - 1) - q[j].made
  <2> DEFINE t == q[j].t
             m == t.match
             d == q[j].made
  <2>1. IsTracker(t) /\ d \in 2..n /\ Len(m) = n - d /\ Len(m) \in Nat
        /\ (Len(m) = 0 <=> m = <<>>)
    BY <1>0, SeqDomain DEF IsTracker
  <2> HIDE DEF t, d
  <2>2. CASE m = <<>>
    <3>1. pop_frame(t).match = <<>>
      BY <2>1, <2>2 DEF pop_frame, IsTracker
    <3>2. ~(d < n - 1)
      BY <2>1, <2>2
    <3> QED BY <3>1, <3>2 DEF t, d
  <2>3. CASE m # <<>>
    <3>1. IsTracker(pop_frame(t)) /\ Len(pop_frame(t).match) = Len(m) - 1
      BY <2>1, <2>3, PopTracker
    <3>2. Len(pop_frame(t).match) = 0 <=> pop_frame(t).match = <<>>
      BY <3>1, SeqDomain DEF IsTracker
    <3>3. Len(pop_frame(t).match) = (n - 1) - d
      BY <2>1, <3>1
    <3>4. d < n - 1 <=> (n - 1) - d # 0
      <4>1. d < n
        BY <2>1, <2>3
      <4> QED BY <2>1, <4>1
    <3> QED BY <2>3, <3>1, <3>2, <3>3, <3>4 DEF t, d
  <2> QED BY <2>2, <2>3
<1>3. ASSUME NEW j \in 1..Len(q) PROVE j <= Len(u) <=> q[j].made < n - 1
  <2>1. CASE j > Len(u)
    <3>1. ~(q[j].made < n - 1)
      BY <1>1, <1>2, <2>1
    <3> QED BY <1>1, <2>1, <3>1
  <2>2. CASE j <= Len(u)
    <3>1. Len(u) > 0 /\ Len(u) \in 1..Len(q) /\ j \in Nat
      BY <1>1, <2>2
    <3>2. q[Len(u)].made < n - 1
      BY <1>1, <1>2, <3>1
    <3>3. q[j].made <= q[Len(u)].made
      <4>1. q[j].made \in 2..n
        BY <1>0
      <4>2. CASE j = Len(u)
        BY <4>1, <4>2
      <4>3. CASE j # Len(u)
        BY <1>0, <2>2, <3>1, <4>3
      <4> QED BY <4>2, <4>3
    <3>4. q[j].made \in Nat /\ q[Len(u)].made \in Nat
      BY <1>0, <3>1
    <3> QED BY <2>2, <3>2, <3>3, <3>4
  <2>3. j > Len(u) \/ j <= Len(u)
    BY <1>1
  <2> QED BY <2>1, <2>2, <2>3
<1>4. \A j \in 1..Len(u) : j \in 1..Len(q) /\ j <= Len(u)
  BY <1>1
<1>5. \A j \in 1..Len(u) : /\ IsTracker(u[j].t) /\ q[j].t.match # <<>>
                           /\ Len(u[j].t.match) = (n - 1) - q[j].made
  <2> TAKE j \in 1..Len(u)
  <2>1. q[j].made < n - 1 /\ j \in 1..Len(q)
    BY <1>3, <1>4
  <2>2. /\ IsTracker(pop_frame(q[j].t)) /\ q[j].t.match # <<>>
        /\ Len(pop_frame(q[j].t).match) = (n - 1) - q[j].made
    BY <1>2, <2>1
  <2> QED BY <1>1, <2>2
<1> QED BY <1>1, <1>3, <1>5

(* A rollback finds all that it needs: the frame's snapshot has borrowed   *)
(* trackers and invoker contract trackers that are still there.            *)
LEMMA RollbackSucceeds ==
    ASSUME FrameInv, BorrowInv, InvokerInv, stack # <<>>
    PROVE  ~RollbackFails(Top.snap)
<1>1. Len(stack) \in 1..Len(stack) /\ Top = stack[Len(stack)]
  BY TopFrame
<1>2. Top.snap.borrowed = borrowed
  BY <1>1 DEF BorrowInv
<1>3. Len(Top.snap.invokers) <= Len(invokers) /\ Len(invokers) \in Nat
      /\ Len(Top.snap.invokers) \in Nat
  BY <1>1, SeqDomain DEF InvokerInv, FrameInv, IsInvokers
<1>4. ~(Len(invokers) < Len(Top.snap.invokers))
  BY <1>3
<1> QED BY <1>2, <1>4 DEF RollbackFails

(* InvokerInv as facts about the frames 1..n.                              *)
LivesAt(inv, st, n) ==
    /\ \A j \in 1..Len(inv) :
          /\ IsTracker(inv[j].t) /\ inv[j].made \in 2..n
          /\ Len(inv[j].t.match) = n - inv[j].made
          /\ st[inv[j].made].kind = "contract" /\ st[inv[j].made].fn[1] = inv[j].addr
    /\ \A j, k \in 1..Len(inv) : j < k => inv[j].made <= inv[k].made
    /\ \A p \in 1..n :
          /\ IsSeq(st[p].snap.invokers) /\ Len(st[p].snap.invokers) <= Len(inv)
          /\ \A j \in 1..Len(inv) : j <= Len(st[p].snap.invokers) <=> inv[j].made < p

(* InvokerInv, of now and of the next state.                               *)
LEMMA LivesIsInvokerInv ==
    /\ InvokerInv <=> LivesAt(invokers, stack, Len(stack))
    /\ InvokerInv' <=> LivesAt(invokers', stack', Len(stack'))
  BY DEF InvokerInv, InvokerOK, LivesAt

(* The frames keep what the trackers know of them.                         *)
LEMMA LivesKept ==
    ASSUME NEW inv, NEW st, NEW n \in Nat, LivesAt(inv, st, n), NEW su,
           \A p \in 1..n : /\ su[p].kind = st[p].kind /\ su[p].fn = st[p].fn
                           /\ su[p].snap = st[p].snap
    PROVE  LivesAt(inv, su, n)
<1>1. \A j \in 1..Len(inv) : inv[j].made \in 1..n
  BY DEF LivesAt
<1> QED BY <1>1 DEF LivesAt

(* Trackers change, but not how long they live.                            *)
LEMMA LivesChanged ==
    ASSUME NEW inv, NEW st, NEW n \in Nat, LivesAt(inv, st, n), NEW u, Len(u) = Len(inv),
           \A j \in 1..Len(inv) : /\ u[j].addr = inv[j].addr /\ u[j].made = inv[j].made
                                  /\ IsTracker(u[j].t) /\ Len(u[j].t.match) = Len(inv[j].t.match)
    PROVE  LivesAt(u, st, n)
  BY DEF LivesAt

(* A push: each tracker follows one frame more.                            *)
LEMMA LivesPushed ==
    ASSUME FrameInv, LivesAt(invokers, stack, Len(stack)), NEW fr, NEW bor, NEW gr,
           PushedStack(fr, bor, gr), invokers' = PushInvokers(invokers)
    PROVE  LivesAt(invokers', stack', Len(stack'))
<1> DEFINE n == Len(stack)
           N == Len(invokers)
<1>1. /\ Len(stack') = n + 1 /\ n \in Nat
      /\ \A p \in 1..n : /\ stack'[p].kind = stack[p].kind /\ stack'[p].fn = stack[p].fn
                         /\ stack'[p].snap = stack[p].snap
      /\ stack'[n + 1] = fr
      /\ fr.snap.invokers = [j \in DOMAIN invokers |-> invokers[j].t.exhausted]
  BY DEF PushedStack, KeptFrames, SameFrame
<1>2. /\ Len(invokers') = N /\ N \in Nat /\ DOMAIN invokers = 1..N
      /\ \A j \in 1..N : /\ invokers'[j].addr = invokers[j].addr
                         /\ invokers'[j].made = invokers[j].made
                         /\ invokers'[j].t = push_frame(invokers[j].t)
  BY PushInvokersShape, SeqDomain DEF FrameInv, IsInvokers
<1>3. LivesAt(invokers, stack', n)
  BY <1>1, LivesKept
<1>4. \A j \in 1..N : IsTracker(invokers[j].t) /\ invokers[j].made \in 2..n
                      /\ Len(invokers[j].t.match) = n - invokers[j].made
  BY DEF LivesAt
<1>5. \A j \in 1..N : IsTracker(invokers'[j].t)
                      /\ Len(invokers'[j].t.match) = Len(invokers[j].t.match) + 1
  BY <1>2, <1>4, PushTracker
<1>6. IsSeq(fr.snap.invokers) /\ Len(fr.snap.invokers) = N
  <2> DEFINE g == fr.snap.invokers
  <2>1. DOMAIN g = 1..N /\ g = [j \in 1..N |-> g[j]]
    BY <1>1, <1>2
  <2> HIDE DEF g
  <2>2. IsSeq(g) /\ Len(g) = N
    BY <1>2, <2>1, SeqOfFunction
  <2> QED BY <2>2 DEF g
<1> HIDE DEF n, N
<1>7. \A j \in 1..N :
          /\ IsTracker(invokers'[j].t) /\ invokers'[j].made \in 2..(n + 1)
          /\ Len(invokers'[j].t.match) = (n + 1) - invokers'[j].made
          /\ stack'[invokers'[j].made].kind = "contract"
          /\ stack'[invokers'[j].made].fn[1] = invokers'[j].addr
  <2> TAKE j \in 1..N
  <2>1. invokers[j].made \in 2..n /\ Len(invokers[j].t.match) = n - invokers[j].made
    BY <1>4
  <2>2. /\ invokers'[j].made \in 2..(n + 1)
        /\ Len(invokers'[j].t.match) = (n + 1) - invokers'[j].made
    <3> DEFINE d == invokers[j].made
               l == Len(invokers[j].t.match)
    <3>1. invokers'[j].made = d /\ Len(invokers'[j].t.match) = l + 1 /\ n \in Nat
      BY <1>1, <1>2, <1>5
    <3>2. d \in 2..n /\ l = n - d
      BY <2>1
    <3> HIDE DEF d, l
    <3>3. d \in 2..(n + 1) /\ l + 1 = (n + 1) - d
      BY <3>1, <3>2
    <3> QED BY <3>1, <3>3
  <2>3. /\ stack'[invokers[j].made].kind = "contract"
        /\ stack'[invokers[j].made].fn[1] = invokers[j].addr
    BY <1>3 DEF LivesAt, N
  <2>4. invokers'[j].made = invokers[j].made /\ invokers'[j].addr = invokers[j].addr
    BY <1>2
  <2> QED BY <1>5, <2>2, <2>3, <2>4
<1>8. \A j, k \in 1..N : j < k => invokers'[j].made <= invokers'[k].made
  BY <1>2, <1>3 DEF LivesAt, N
<1>9. ASSUME NEW p \in 1..(n + 1)
      PROVE  /\ IsSeq(stack'[p].snap.invokers) /\ Len(stack'[p].snap.invokers) <= N
             /\ \A j \in 1..N : j <= Len(stack'[p].snap.invokers) <=> invokers'[j].made < p
  <2>1. CASE p \in 1..n
    BY <1>2, <1>3, <2>1 DEF LivesAt, N
  <2>2. CASE p = n + 1
    <3>1. stack'[p].snap.invokers = fr.snap.invokers
      BY <1>1, <2>2
    <3>2. \A j \in 1..N : j <= N /\ invokers'[j].made < p
      <4> TAKE j \in 1..N
      <4>1. invokers[j].made \in 2..n /\ invokers'[j].made = invokers[j].made
        BY <1>2, <1>4
      <4> QED BY <1>1, <1>2, <2>2, <4>1
    <3> QED BY <1>2, <1>6, <3>1, <3>2
  <2> QED BY <1>1, <2>1, <2>2
<1> QED BY <1>1, <1>2, <1>7, <1>8, <1>9 DEF LivesAt

(* The frame on top is popped, after a rollback or not: q is what the      *)
(* rollback left of the trackers, at least those that the frames below     *)
(* count on.                                                               *)
LEMMA LivesPopped ==
    ASSUME FrameInv, LivesAt(invokers, stack, Len(stack)), PoppedStack,
           NEW q, IsInvokers(q), Len(q) <= Len(invokers), invokers' = PopInvokers(q),
           \A j \in 1..Len(q) : /\ q[j].addr = invokers[j].addr /\ q[j].made = invokers[j].made
                                /\ IsTracker(q[j].t) /\ q[j].t.match = invokers[j].t.match,
           \A j \in 1..Len(invokers) : invokers[j].made < Len(stack) => j <= Len(q)
    PROVE  /\ LivesAt(invokers', stack', Len(stack'))
           /\ Len(invokers') \in 0..Len(q)
           /\ \A j \in 1..Len(invokers') :
                 /\ invokers'[j].addr = q[j].addr /\ invokers'[j].made = q[j].made
                 /\ q[j].t.match # <<>> /\ invokers'[j].t = pop_frame(q[j].t)
                 /\ invokers'[j].made < Len(stack')
<1> DEFINE n == Len(stack)
           N == Len(invokers)
           M == Len(q)
           K == Len(invokers')
<1>1. /\ n \in Nat /\ n >= 1 /\ Len(stack') = n - 1
      /\ \A p \in 1..(n - 1) : stack'[p] = stack[p]
  BY DEF PoppedStack
<1>2. N \in Nat /\ M \in Nat /\ \A j \in 1..M : j \in 1..N
  BY SeqDomain DEF FrameInv, IsInvokers
<1>3. \A j \in 1..N : /\ IsTracker(invokers[j].t) /\ invokers[j].made \in 2..n
                      /\ Len(invokers[j].t.match) = n - invokers[j].made
                      /\ stack[invokers[j].made].kind = "contract"
                      /\ stack[invokers[j].made].fn[1] = invokers[j].addr
  BY DEF LivesAt
<1>4. \A j, k \in 1..N : j < k => invokers[j].made <= invokers[k].made
  BY DEF LivesAt
<1>5. \A p \in 1..n :
          /\ IsSeq(stack[p].snap.invokers) /\ Len(stack[p].snap.invokers) <= N
          /\ \A j \in 1..N : j <= Len(stack[p].snap.invokers) <=> invokers[j].made < p
  BY DEF LivesAt
<1>6. /\ IsInvokers(invokers') /\ K \in 0..M
      /\ \A j \in 1..K : /\ invokers'[j].addr = q[j].addr /\ invokers'[j].made = q[j].made
                         /\ invokers'[j].t = pop_frame(q[j].t) /\ IsTracker(invokers'[j].t)
                         /\ q[j].t.match # <<>>
                         /\ Len(invokers'[j].t.match) = (n - 1) - q[j].made
      /\ \A j \in 1..M : j <= K <=> q[j].made < n - 1
  <2>1. \A j \in 1..M : /\ IsTracker(q[j].t) /\ q[j].made \in 2..n
                        /\ Len(q[j].t.match) = n - q[j].made
    BY <1>2, <1>3
  <2>2. \A j, k \in 1..M : j < k => q[j].made <= q[k].made
    BY <1>2, <1>4
  <2> DEFINE u == invokers'
  <2>3. u = PopInvokers(q) /\ n \in Nat /\ IsInvokers(q)
    BY <1>1
  <2> HIDE DEF n, N, u
  <2>4. /\ IsInvokers(u) /\ Len(u) \in 0..Len(q) /\ Len(q) \in Nat
        /\ \A j \in 1..Len(u) : /\ u[j].addr = q[j].addr /\ u[j].made = q[j].made
                                /\ u[j].t = pop_frame(q[j].t) /\ IsTracker(u[j].t)
                                /\ q[j].t.match # <<>>
                                /\ Len(u[j].t.match) = (n - 1) - q[j].made
        /\ \A j \in 1..Len(q) : j <= Len(u) <=> q[j].made < n - 1
    <3>1. Follow(q, n)
      BY <2>1, <2>2 DEF Follow
    <3> QED BY <2>3, <3>1, PopLives
  <2> QED BY <2>4, Zenon DEF u
<1> HIDE DEF n, N, M, K
<1>7. \A j \in 1..K : j \in 1..M /\ j \in 1..N /\ j <= K
  <2>1. K \in 0..M
    BY <1>6
  <2>2. \A j \in 1..K : j \in 1..M /\ j <= K
    BY <1>2, <2>1
  <2> QED BY <1>2, <2>2
<1>8. \A j \in 1..K : /\ invokers[j].made = invokers'[j].made
                      /\ invokers[j].addr = invokers'[j].addr
                      /\ invokers[j].made \in 2..n /\ invokers[j].made < n - 1
  <2> TAKE j \in 1..K
  <2>1. j \in 1..M /\ j \in 1..N /\ j <= K
    BY <1>7
  <2>2. q[j].addr = invokers[j].addr /\ q[j].made = invokers[j].made
    BY <2>1 DEF M
  <2>3. q[j].made < n - 1
    BY <1>6, <2>1
  <2> QED BY <1>3, <1>6, <2>1, <2>2, <2>3
<1>9. \A j \in 1..K : invokers[j].made \in 2..(n - 1) /\ invokers[j].made \in 1..(n - 1)
  BY <1>1, <1>8
<1>10. \A j \in 1..K :
          /\ IsTracker(invokers'[j].t) /\ invokers'[j].made \in 2..(n - 1)
          /\ Len(invokers'[j].t.match) = (n - 1) - invokers'[j].made
          /\ stack'[invokers'[j].made].kind = "contract"
          /\ stack'[invokers'[j].made].fn[1] = invokers'[j].addr
  <2> TAKE j \in 1..K
  <2>1. stack'[invokers[j].made] = stack[invokers[j].made]
    BY <1>1, <1>9
  <2>2. /\ stack[invokers[j].made].kind = "contract"
        /\ stack[invokers[j].made].fn[1] = invokers[j].addr
    BY <1>3, <1>7
  <2>3. /\ invokers[j].made = invokers'[j].made /\ invokers[j].addr = invokers'[j].addr
        /\ invokers[j].made \in 2..(n - 1)
    BY <1>8, <1>9
  <2>4. IsTracker(invokers'[j].t) /\ Len(invokers'[j].t.match) = (n - 1) - invokers'[j].made
    BY <1>6
  <2> QED BY <2>1, <2>2, <2>3, <2>4
<1>11. \A j, k \in 1..K : j < k => invokers'[j].made <= invokers'[k].made
  BY <1>4, <1>7, <1>8
<1>12. ASSUME NEW p \in 1..(n - 1)
       PROVE  /\ IsSeq(stack'[p].snap.invokers) /\ Len(stack'[p].snap.invokers) <= K
              /\ \A j \in 1..K : j <= Len(stack'[p].snap.invokers) <=> invokers'[j].made < p
  <2> DEFINE L == Len(stack[p].snap.invokers)
  <2>1. p \in 1..n /\ stack'[p] = stack[p]
    BY <1>1
  <2>2. /\ IsSeq(stack[p].snap.invokers) /\ L <= N /\ L \in Nat
        /\ \A j \in 1..N : j <= L <=> invokers[j].made < p
    BY <1>5, <2>1, SeqDomain
  <2> HIDE DEF L
  <2>3. L <= K
    <3>1. CASE L = 0
      BY <1>2, <1>6, <3>1
    <3>2. CASE L # 0
      <4>1. L \in 1..N
        BY <1>2, <2>2, <3>2
      <4>2. invokers[L].made < p /\ invokers[L].made \in 2..n
        BY <1>3, <2>2, <4>1
      <4>3. invokers[L].made < n - 1 /\ invokers[L].made < n
        BY <1>1, <4>2
      <4>4. L <= M
        BY <4>1, <4>3 DEF n, N, M
      <4>5. L \in 1..M
        BY <1>2, <4>1, <4>4
      <4>6. q[L].made = invokers[L].made
        BY <4>5 DEF M
      <4> QED BY <1>6, <4>3, <4>5, <4>6
    <3> QED BY <3>1, <3>2
  <2>4. \A j \in 1..K : j <= L <=> invokers'[j].made < p
    BY <1>7, <1>8, <2>2
  <2> QED BY <2>1, <2>2, <2>3, <2>4 DEF L
<1>13. LivesAt(invokers', stack', Len(stack'))
  BY <1>1, <1>10, <1>11, <1>12 DEF LivesAt, K
<1>14. \A j \in 1..K : invokers'[j].made < Len(stack')
  BY <1>1, <1>8
<1> QED BY <1>6, <1>13, <1>14 DEF K, M

(* A contract authorizes as its own invoker.                               *)
LEMMA LivesAdded ==
    ASSUME FrameInv, LivesAt(invokers, stack, Len(stack)), InvokerAdded
    PROVE  LivesAt(invokers', stack', Len(stack'))
<1> DEFINE n == Len(stack)
           N == Len(invokers)
<1>1. PICK tree : /\ IsTree(tree)
                  /\ invokers' = Append(invokers, [addr |-> Top.fn[1], made |-> Len(stack),
                                                   t |-> new(tree)])
  BY DEF InvokerAdded
<1> DEFINE e == [addr |-> Top.fn[1], made |-> Len(stack), t |-> new(tree)]
<1>2. /\ e.made = n /\ IsTracker(e.t) /\ Len(e.t.match) = 0 /\ e.addr = Top.fn[1]
  BY <1>1, NewTracker
<1>3. /\ Len(invokers') = N + 1 /\ N \in Nat
      /\ \A j \in 1..N : invokers'[j] = invokers[j]
      /\ invokers'[N + 1] = e
  BY <1>1, SeqPush DEF FrameInv, IsInvokers
<1> HIDE DEF e
<1>4. stack' = stack /\ Top.kind = "contract" /\ Len(stack) >= 1
  BY DEF InvokerAdded
<1>5. n \in Nat /\ n >= 2 /\ Top = stack[n]
  <2>1. stack # <<>>
    BY <1>4
  <2> QED BY <1>4, <2>1, TopFrame
<1>6. \A j \in 1..N : invokers[j].made \in 2..n
  BY DEF LivesAt
<1>7. \A p \in 1..n :
          /\ IsSeq(stack[p].snap.invokers) /\ Len(stack[p].snap.invokers) <= N
          /\ \A j \in 1..N : j <= Len(stack[p].snap.invokers) <=> invokers[j].made < p
  BY DEF LivesAt
<1>8. \A j \in 1..N : /\ IsTracker(invokers[j].t)
                      /\ Len(invokers[j].t.match) = n - invokers[j].made
                      /\ stack[invokers[j].made].kind = "contract"
                      /\ stack[invokers[j].made].fn[1] = invokers[j].addr
  BY DEF LivesAt
<1>9. \A j, k \in 1..N : j < k => invokers[j].made <= invokers[k].made
  BY DEF LivesAt
<1> HIDE DEF n, N
<1>10. \A j \in 1..(N + 1) : j \in 1..N \/ j = N + 1
  BY <1>3
<1>11. ASSUME NEW j \in 1..(N + 1)
       PROVE  /\ IsTracker(invokers'[j].t) /\ invokers'[j].made \in 2..n
              /\ Len(invokers'[j].t.match) = n - invokers'[j].made
              /\ stack[invokers'[j].made].kind = "contract"
              /\ stack[invokers'[j].made].fn[1] = invokers'[j].addr
  <2>1. CASE j \in 1..N
    BY <1>3, <1>6, <1>8, <2>1
  <2>2. CASE j = N + 1
    <3>1. n \in 2..n /\ n - n = 0
      BY <1>5
    <3> QED BY <1>2, <1>3, <1>4, <1>5, <2>2, <3>1
  <2> QED BY <1>10, <2>1, <2>2
<1>12. \A j, k \in 1..(N + 1) : j < k => invokers'[j].made <= invokers'[k].made
  <2> TAKE j, k \in 1..(N + 1)
  <2> HAVE j < k
  <2>1. j \in 1..N
    BY <1>3
  <2>2. CASE k \in 1..N
    BY <1>3, <1>9, <2>1, <2>2
  <2>3. CASE k = N + 1
    <3>1. invokers'[k].made = n /\ invokers'[j].made \in 2..n
      BY <1>2, <1>3, <1>6, <2>1, <2>3
    <3> QED BY <1>5, <3>1
  <2> QED BY <1>10, <2>2, <2>3
<1>13. ASSUME NEW p \in 1..n
       PROVE  /\ IsSeq(stack[p].snap.invokers) /\ Len(stack[p].snap.invokers) <= N + 1
              /\ \A j \in 1..(N + 1) : j <= Len(stack[p].snap.invokers) <=> invokers'[j].made < p
  <2> DEFINE L == Len(stack[p].snap.invokers)
  <2>1. /\ IsSeq(stack[p].snap.invokers) /\ L <= N /\ L \in Nat
        /\ \A j \in 1..N : j <= L <=> invokers[j].made < p
    BY <1>7, SeqDomain
  <2> HIDE DEF L
  <2>2. L <= N + 1 /\ ~(N + 1 <= L) /\ ~(n < p)
    BY <1>3, <1>5, <2>1
  <2>3. \A j \in 1..(N + 1) : j <= L <=> invokers'[j].made < p
    BY <1>2, <1>3, <1>10, <2>1, <2>2
  <2> QED BY <2>1, <2>2, <2>3 DEF L
<1> QED BY <1>3, <1>4, <1>11, <1>12, <1>13 DEF LivesAt, n, N

(* A tracker of the calling contract matches.                              *)
LEMMA MatchedInvoker ==
    ASSUME FrameInv, NEW j \in DOMAIN invokers, NEW u, invokers' = [invokers EXCEPT ![j].t = u]
    PROVE  /\ Len(invokers') = Len(invokers)
           /\ \A k \in 1..Len(invokers) :
                 /\ invokers'[k].addr = invokers[k].addr /\ invokers'[k].made = invokers[k].made
                 /\ k = j => invokers'[k].t = u
                 /\ k # j => invokers'[k].t = invokers[k].t
<1>1. Len(invokers) \in Nat /\ DOMAIN invokers = 1..Len(invokers)
  BY SeqDomain DEF FrameInv, IsInvokers
<1>2. DOMAIN invokers' = 1..Len(invokers) /\ invokers' = [k \in 1..Len(invokers) |-> invokers'[k]]
  BY <1>1
<1>3. IsSeq(invokers') /\ Len(invokers') = Len(invokers)
  BY <1>1, <1>2, SeqOfFunction
<1>4. ASSUME NEW k \in 1..Len(invokers)
      PROVE  /\ invokers'[k].addr = invokers[k].addr /\ invokers'[k].made = invokers[k].made
             /\ k = j => invokers'[k].t = u
             /\ k # j => invokers'[k].t = invokers[k].t
  <2>1. invokers[k] = [addr |-> invokers[k].addr, made |-> invokers[k].made,
                       t |-> invokers[k].t]
    BY DEF FrameInv, IsInvokers
  <2>2. invokers'[k] = IF k = j THEN [invokers[k] EXCEPT !.t = u] ELSE invokers[k]
    BY <1>1
  <2> QED BY <2>1, <2>2
<1> QED BY <1>3, <1>4

(* The rollback of a frame leaves the trackers older than the frame.       *)
LEMMA LivesRolledBack ==
    ASSUME FrameInv, BorrowInv, InvokerInv, Len(stack) >= 1, NEW r, r = RollbackInvokers(Top.snap)
    PROVE  /\ IsInvokers(r) /\ Len(r) <= Len(invokers) /\ Len(r) \in Nat
           /\ Len(r) = Len(Top.snap.invokers)
           /\ \A j \in 1..Len(r) :
                 /\ r[j].addr = invokers[j].addr /\ r[j].made = invokers[j].made
                 /\ r[j].made < Len(stack)
                 /\ r[j].t = rollback(invokers[j].t, Top.snap.invokers[j])
                 /\ IsTracker(r[j].t) /\ r[j].t.match = invokers[j].t.match
           /\ \A j \in 1..Len(invokers) : invokers[j].made < Len(stack) => j <= Len(r)
<1> DEFINE s == Top.snap
           n == Len(stack)
<1>1. n \in 1..n /\ Top = stack[n]
  <2>1. stack # <<>>
    OBVIOUS
  <2> QED BY <2>1, TopFrame
<1>2. /\ IsSeq(s.invokers) /\ Len(s.invokers) <= Len(invokers)
      /\ \A j \in 1..Len(invokers) : j <= Len(s.invokers) <=> invokers[j].made < n
  BY <1>1 DEF InvokerInv
<1>3. IsInvokers(invokers) /\ Len(invokers) \in Nat
  BY SeqDomain DEF FrameInv, IsInvokers
<1> HIDE DEF s, n
<1>4. /\ IsInvokers(r) /\ Len(r) = Len(s.invokers) /\ Len(r) \in Nat
      /\ \A j \in 1..Len(r) : /\ r[j].addr = invokers[j].addr
                              /\ r[j].made = invokers[j].made
                              /\ r[j].t = rollback(invokers[j].t, s.invokers[j])
  BY <1>2, <1>3, RollbackInvokersShape DEF s
<1>5. \A j \in 1..Len(r) : j \in 1..Len(invokers) /\ j <= Len(s.invokers)
  BY <1>2, <1>3, <1>4
<1>6. \A j \in 1..Len(r) : IsTracker(r[j].t) /\ r[j].t.match = invokers[j].t.match
  <2> TAKE j \in 1..Len(r)
  <2>1. IsTracker(invokers[j].t)
    BY <1>5 DEF InvokerInv, InvokerOK
  <2>2. r[j].t = rollback(invokers[j].t, s.invokers[j])
    BY <1>4
  <2> QED BY <2>1, <2>2, RollbackTracker
<1>7. \A j \in 1..Len(r) : r[j].made < n
  BY <1>2, <1>4, <1>5
<1> QED BY <1>2, <1>4, <1>5, <1>6, <1>7 DEF s, n

(* The trackers keep the frames they are about.                            *)
LEMMA InvokerStep ==
    ASSUME FrameInv, BorrowInv, InvokerInv, Kinds
    PROVE  InvokerInv'
<1>0. LivesAt(invokers, stack, Len(stack)) /\ Len(stack) \in Nat /\ IsInvokers(invokers)
  BY LivesIsInvokerInv, StackIsKept DEF FrameInv
<1> SUFFICES LivesAt(invokers', stack', Len(stack'))
  BY LivesIsInvokerInv
<1>1. ASSUME KeptStack(stack'), NEW inv, LivesAt(inv, stack, Len(stack))
      PROVE  LivesAt(inv, stack', Len(stack'))
  <2>1. /\ Len(stack') = Len(stack)
        /\ \A p \in 1..Len(stack) : /\ stack'[p].kind = stack[p].kind /\ stack'[p].fn = stack[p].fn
                                    /\ stack'[p].snap = stack[p].snap
    BY <1>1 DEF KeptStack, KeptFrames, SameFrame
  <2> QED BY <1>0, <1>1, <2>1, LivesKept
<1>2. CASE Quiet
  BY <1>0, <1>1, <1>2 DEF Quiet
<1>3. CASE Pushed
  BY <1>0, <1>3, LivesPushed DEF Pushed
<1>4. CASE InvokerAdded
  BY <1>0, <1>4, LivesAdded
<1>5. CASE InvokerMatched
  <2>1. PICK j, m :
            /\ j \in DOMAIN invokers
            /\ m = find_match(invokers[j].t, Top.fn, TRUE) /\ m # 0
            /\ invokers' = [invokers EXCEPT ![j].t = extend_match(invokers[j].t, m)]
    BY <1>5 DEF InvokerMatched
  <2> DEFINE u == extend_match(invokers[j].t, m)
  <2>2. j \in 1..Len(invokers)
    BY <1>0, <2>1, SeqDomain DEF IsInvokers
  <2>3. IsTracker(invokers[j].t)
    BY <2>2 DEF InvokerInv, InvokerOK
  <2>4. IsTracker(u) /\ Len(u.match) = Len(invokers[j].t.match)
    <3>1. m \in Nodes(invokers[j].t)
      BY <2>1, <2>3, FoundMatch
    <3> QED BY <2>3, <3>1, ExtendTracker
  <2> HIDE DEF u
  <2>5. /\ Len(invokers') = Len(invokers)
        /\ \A k \in 1..Len(invokers) :
              /\ invokers'[k].addr = invokers[k].addr /\ invokers'[k].made = invokers[k].made
              /\ k = j => invokers'[k].t = u
              /\ k # j => invokers'[k].t = invokers[k].t
    BY <2>1, MatchedInvoker DEF u
  <2>6. \A k \in 1..Len(invokers) :
              /\ IsTracker(invokers'[k].t)
              /\ Len(invokers'[k].t.match) = Len(invokers[k].t.match)
    BY <2>4, <2>5 DEF InvokerInv, InvokerOK
  <2>7. LivesAt(invokers', stack, Len(stack))
    BY <1>0, <2>5, <2>6, LivesChanged
  <2> QED BY <1>1, <1>5, <2>7 DEF InvokerMatched
<1>6. ASSUME NEW i, NEW m, AccountMatched(i, m) PROVE LivesAt(invokers', stack', Len(stack'))
  BY <1>0, <1>1, <1>6 DEF AccountMatched
<1>7. ASSUME NEW i, NEW m, CheckStarted(i, m) PROVE LivesAt(invokers', stack', Len(stack'))
  BY <1>0, <1>7, LivesPushed DEF CheckStarted
<1>8. CASE Popped
  <2>1. invokers' = PopInvokers(invokers) /\ PoppedStack
    BY <1>8 DEF Popped
  <2>2. \A j \in 1..Len(invokers) : IsTracker(invokers[j].t) /\ j <= Len(invokers)
    BY <1>0, SeqDomain DEF InvokerInv, InvokerOK, IsInvokers
  <2>3. Len(invokers) <= Len(invokers)
    BY <1>0, SeqDomain DEF IsInvokers
  <2> QED BY <1>0, <2>1, <2>2, <2>3, LivesPopped
<1>9. CASE Failed
  <2>1. PoppedStack /\ Len(stack) >= 1 /\ invokers' = PopInvokers(RollbackInvokers(Top.snap))
    BY <1>0, <1>9 DEF Failed
  <2> DEFINE r == RollbackInvokers(Top.snap)
  <2>2. r = RollbackInvokers(Top.snap)
    OBVIOUS
  <2> HIDE DEF r
  <2>3. /\ IsInvokers(r) /\ Len(r) <= Len(invokers)
        /\ \A j \in 1..Len(r) :
              /\ r[j].addr = invokers[j].addr /\ r[j].made = invokers[j].made
              /\ IsTracker(r[j].t) /\ r[j].t.match = invokers[j].t.match
        /\ \A j \in 1..Len(invokers) : invokers[j].made < Len(stack) => j <= Len(r)
    BY <2>1, <2>2, LivesRolledBack
  <2> QED BY <1>0, <2>1, <2>2, <2>3, LivesPopped
<1>10. CASE FailedBadly
  <2>1. stack # <<>> /\ RollbackFails(Top.snap)
    BY <1>10 DEF FailedBadly, PoppedStack
  <2> QED BY <2>1, RollbackSucceeds
<1>11. CASE Ended
  <2>1. Len(stack) = 1 /\ stack' = <<>>
    BY <1>11 DEF Ended
  <2>2. 1..Len(invokers) = {} /\ Len(invokers) = 0
    <3>1. \A j \in 1..Len(invokers) : invokers[j].made \in 2..1
      BY <2>1 DEF InvokerInv, InvokerOK
    <3>2. Len(invokers) \in Nat /\ 2..1 = {}
      BY <1>0, SeqDomain DEF IsInvokers
    <3> QED BY <3>1, <3>2
  <2>3. Len(invokers') = 0
    <3>1. CASE UNCHANGED invokers
      BY <2>2, <3>1
    <3>2. CASE invokers' = RollbackInvokers(Top.snap)
      <4> DEFINE r == RollbackInvokers(Top.snap)
      <4>1. r = RollbackInvokers(Top.snap) /\ Len(stack) >= 1
        BY <2>1
      <4> HIDE DEF r
      <4>2. Len(r) <= Len(invokers) /\ Len(r) \in Nat
        BY <4>1, LivesRolledBack
      <4> QED BY <2>2, <3>2, <4>1, <4>2
    <3> QED BY <1>11, <3>1, <3>2 DEF Ended
  <2>4. 1..Len(invokers') = {} /\ 1..Len(stack') = {}
    BY <2>1, <2>3, NullSeq
  <2> QED BY <2>4 DEF LivesAt
<1> QED BY <1>2, <1>3, <1>4, <1>5, <1>6, <1>7, <1>8, <1>9, <1>10, <1>11 DEF Kinds

-----------------------------------------------------------------------------
(* Nonces.                                                                 *)

(* verify_and_consume_nonce keeps the nonces apart.                        *)
LEMMA VerifyNonce ==
    ASSUME NEW i, Verify(i), NonceOK(tx, verified, nonces)
    PROVE  NonceOK(tx, verified', nonces') /\ verified' \subseteq verified \union {i}
<1> DEFINE used == Consuming(tx, verified)
           key(x) == KeyOf(tx, x)
<1>0. \A x : NonceKey(x) = key(x)
  BY DEF NonceKey, KeyOf, Entries
<1>1. CASE NonceError(i) # "Ok"
  BY <1>1 DEF Verify
<1>2. CASE NonceError(i) = "Ok" /\ Entries[i].cred = "source"
  <2>1. verified' = verified \union {i} /\ nonces' = nonces
    BY <1>2 DEF Verify, NoncesAfter
  <2>2. Consuming(tx, verified') = used
    BY <1>2, <2>1 DEF Consuming, Entries
  <2> QED BY <2>1, <2>2 DEF NonceOK
<1>3. CASE NonceError(i) = "Ok" /\ Entries[i].cred # "source"
  <2>1. verified' = verified \union {i} /\ nonces' = nonces \union {key(i)}
    BY <1>0, <1>3 DEF Verify, NoncesAfter
  <2>2. key(i) \notin nonces /\ tx.entries[i].until \in tx.now..tx.latest
    BY <1>0, <1>3 DEF NonceError, Entries
  <2>3. Consuming(tx, verified') = used \union {i}
    BY <1>3, <2>1 DEF Consuming, Entries
  <2>4. /\ \A x \in used : key(x) \notin tx.used /\ tx.entries[x].until \in tx.now..tx.latest
        /\ \A x, y \in used : key(x) = key(y) => x = y
        /\ nonces = tx.used \union {key(x) : x \in used}
    BY DEF NonceOK
  <2> HIDE DEF used, key
  <2>5. key(i) \notin tx.used /\ \A x \in used : key(x) # key(i)
    BY <2>2, <2>4
  <2>6. /\ \A x \in used \union {i} : key(x) \notin tx.used
                                      /\ tx.entries[x].until \in tx.now..tx.latest
        /\ \A x, y \in used \union {i} : key(x) = key(y) => x = y
        /\ nonces' = tx.used \union {key(x) : x \in used \union {i}}
    BY <2>1, <2>2, <2>4, <2>5
  <2> QED BY <2>1, <2>3, <2>6 DEF NonceOK, key
<1> QED BY <1>1, <1>2, <1>3

(* No nonce is consumed at first.                                          *)
LEMMA NonceInit == Init => NonceInv
<1> SUFFICES ASSUME Init PROVE NonceInv
  OBVIOUS
<1>1. Len(stack) = 1 /\ stack = <<HostFrame>>
  BY FrameInit
<1>2. verified = {} /\ borrowed = {} /\ nonces = tx.used
  BY DEF Init, UsedNonces
<1>3. NonceOK(tx, verified, nonces)
  BY <1>2 DEF NonceOK, Consuming
<1>4. HostFrame.snap.verified = verified /\ HostFrame.snap.nonces = nonces
  BY DEF HostFrame, Frame, snapshot
<1>5. \A p \in 1..Len(stack) : p = 1 /\ stack[p] = HostFrame
  BY <1>1
<1> QED BY <1>2, <1>3, <1>4, <1>5 DEF NonceInv

(* The nonces of the new state, and those of every snapshot.               *)
LEMMA NonceStep ==
    ASSUME FrameInv, BorrowInv, InvokerInv, NonceInv, Kinds,
           tx' = tx, Trackers' = Trackers, Entries' = Entries
    PROVE  NonceInv'
<1> DEFINE n == Len(stack)
           SnapOK(f) == /\ f.snap.verified \subseteq Trackers \ f.snap.borrowed
                        /\ NonceOK(tx, f.snap.verified, f.snap.nonces)
           NowOK == verified' \subseteq Trackers \ borrowed' /\ NonceOK(tx, verified', nonces')
<1>0. /\ n \in Nat /\ verified \subseteq Trackers \ borrowed /\ NonceOK(tx, verified, nonces)
      /\ \A p \in 1..n : SnapOK(stack[p])
  BY StackIsKept DEF NonceInv
<1>1. ASSUME NowOK, \A p \in 1..Len(stack') : SnapOK(stack'[p]) PROVE NonceInv'
  BY <1>1 DEF NonceInv
<1>2. ASSUME KeptStack(stack') PROVE \A p \in 1..Len(stack') : SnapOK(stack'[p])
  <2>1. Len(stack') = n /\ \A p \in 1..n : stack'[p].snap = stack[p].snap
    BY <1>2 DEF KeptStack, KeptFrames, SameFrame
  <2> QED BY <1>0, <2>1
<1>3. ASSUME NEW fr, NEW bor, NEW gr, PushedStack(fr, bor, gr), verified \intersect bor = {}
      PROVE  \A p \in 1..Len(stack') : SnapOK(stack'[p])
  <2>1. /\ Len(stack') = n + 1 /\ stack'[n + 1] = fr
        /\ \A p \in 1..n : stack'[p].snap = stack[p].snap
        /\ fr.snap.verified = verified /\ fr.snap.nonces = nonces /\ fr.snap.borrowed = bor
    BY <1>3 DEF PushedStack, KeptFrames, SameFrame
  <2>2. SnapOK(fr)
    BY <1>0, <1>3, <2>1
  <2>3. \A p \in 1..(n + 1) : p \in 1..n \/ p = n + 1
    BY <1>0
  <2> QED BY <1>0, <2>1, <2>2, <2>3
<1>4. ASSUME PoppedStack PROVE \A p \in 1..Len(stack') : SnapOK(stack'[p])
  <2>1. Len(stack') = n - 1 /\ \A p \in 1..(n - 1) : stack'[p] = stack[p]
    BY <1>4 DEF PoppedStack
  <2>2. \A p \in 1..(n - 1) : p \in 1..n
    BY <1>0
  <2> QED BY <1>0, <2>1, <2>2
<1>5. ASSUME Len(stack) >= 1, RestoredRest(Top.snap), borrowed' \subseteq borrowed PROVE NowOK
  <2>1. n \in 1..n /\ Top = stack[n]
    BY <1>0, <1>5 DEF Top
  <2>2. Top.snap.borrowed = borrowed /\ SnapOK(Top)
    BY <1>0, <2>1 DEF BorrowInv
  <2>3. verified' = Top.snap.verified /\ nonces' = Top.snap.nonces
    BY <1>0, <1>5, <2>2 DEF RestoredRest, RollbackVerified
  <2> QED BY <1>5, <2>2, <2>3
<1>6. CASE Quiet
  BY <1>0, <1>1, <1>2, <1>6 DEF Quiet
<1>7. CASE Pushed
  <2>1. PICK fr : PushedStack(fr, borrowed, grants)
    BY <1>7 DEF Pushed
  <2>2. verified \intersect borrowed = {}
    BY <1>0
  <2> QED BY <1>0, <1>1, <1>3, <1>7, <2>1, <2>2 DEF Pushed
<1>8. CASE InvokerAdded
  BY <1>0, <1>1, <1>2, <1>8, StackIsKept DEF InvokerAdded
<1>9. CASE InvokerMatched
  BY <1>0, <1>1, <1>2, <1>9 DEF InvokerMatched
<1>10. ASSUME NEW i, NEW m, AccountMatched(i, m) PROVE NonceInv'
  <2>1. i \in Trackers \ borrowed /\ borrowed' = borrowed /\ KeptStack(stack')
    BY <1>10 DEF AccountMatched, Found
  <2>2. Verify(i) \/ UNCHANGED <<verified, nonces>>
    BY <1>10 DEF AccountMatched
  <2>3. NowOK
    BY <1>0, <2>1, <2>2, VerifyNonce
  <2> QED BY <1>1, <1>2, <2>1, <2>3
<1>11. ASSUME NEW i, NEW m, CheckStarted(i, m) PROVE NonceInv'
  <2>1. /\ i \notin verified /\ borrowed' = borrowed \union {i}
        /\ UNCHANGED <<verified, nonces>>
    BY <1>11 DEF CheckStarted
  <2>2. PICK fr : PushedStack(fr, borrowed', grants')
    BY <1>11 DEF CheckStarted
  <2>3. verified \intersect borrowed' = {} /\ NowOK
    BY <1>0, <2>1
  <2> QED BY <1>1, <1>3, <2>2, <2>3
<1>12. CASE Popped
  <2> DEFINE i == Top.auth
  <2>1. PoppedStack /\ borrowed' = borrowed \ {i} /\ n >= 1
    BY <1>0, <1>12 DEF Popped
  <2>2. (i # 0 /\ Verify(i)) \/ UNCHANGED <<verified, nonces>>
    BY <1>12 DEF Popped
  <2>3. i \in Trackers \union {0}
    <3>1. n \in 1..n
      BY <1>0, <2>1
    <3> QED BY <3>1 DEF FrameInv, FrameOK, Top
  <2> HIDE DEF i
  <2>4. NowOK
    BY <1>0, <2>1, <2>2, <2>3, VerifyNonce
  <2> QED BY <1>1, <1>4, <2>1, <2>4
<1>13. CASE Failed
  BY <1>0, <1>1, <1>4, <1>5, <1>13 DEF Failed
<1>14. CASE FailedBadly
  <2>1. stack # <<>> /\ RollbackFails(Top.snap)
    BY <1>14 DEF FailedBadly, PoppedStack
  <2> QED BY <2>1, RollbackSucceeds
<1>15. CASE Ended
  <2>1. Len(stack) = 1 /\ stack' = <<>> /\ borrowed' = borrowed
    BY <1>15 DEF Ended
  <2>2. 1..Len(stack') = {}
    BY <2>1, NullSeq
  <2>3. NowOK
    BY <1>0, <1>5, <1>15, <2>1 DEF Ended
  <2> QED BY <1>1, <2>2, <2>3
<1> QED BY <1>6, <1>7, <1>8, <1>9, <1>10, <1>11, <1>12, <1>13, <1>14, <1>15 DEF Kinds

(* There are no invoker contract trackers at first.                        *)
LEMMA InvokerInit == Init => InvokerInv
<1> SUFFICES ASSUME Init PROVE InvokerInv
  OBVIOUS
<1>1. Len(stack) = 1 /\ FrameInv /\ stack = <<HostFrame>>
  BY FrameInit
<1>2. Len(invokers) = 0 /\ 1..Len(invokers) = {} /\ DOMAIN invokers = {}
  <2>1. invokers = <<>>
    BY DEF Init
  <2>2. IsSeq(invokers) /\ Len(invokers) = 0
    BY <2>1, NullSeq
  <2>3. DOMAIN invokers = 1..Len(invokers)
    BY <2>2, SeqDomain
  <2> QED BY <2>2, <2>3
<1>3. \A p \in 1..Len(stack) : p = 1 /\ stack[p] = HostFrame
  BY <1>1
<1> DEFINE q == HostFrame.snap.invokers
<1>4. IsSeq(q)
  <2>1. 1 \in 1..Len(stack)
    BY <1>1
  <2> QED BY <1>1, <1>3, <2>1 DEF FrameOK, FrameInv
<1>5. DOMAIN q = {}
  <2>1. q = [j \in DOMAIN invokers |-> invocation_snapshot(invokers[j].t)]
    BY DEF HostFrame, Frame, snapshot
  <2> QED BY <1>2, <2>1
<1> HIDE DEF q
<1>6. Len(q) = 0
  BY <1>4, <1>5, SeqDomain
<1> QED BY <1>2, <1>3, <1>4, <1>6 DEF InvokerInv, q

-----------------------------------------------------------------------------
(* The theorems of the frames and of the nonces.                           *)

(* What the other invariants are proved from.                              *)
CoreInv == FrameInv /\ BorrowInv /\ InvokerInv

(* Every behaviour of the manager keeps its frames, what is borrowed and   *)
(* what the invoker contract trackers follow.                              *)
THEOREM ManagerConsistent == Spec => []CoreInv
<1>1. Init => CoreInv
  BY FrameInit, InvokerInit DEF CoreInv
<1>2. CoreInv /\ [Next]_vars => CoreInv'
  BY Steps, FrameStep, BorrowStep, InvokerStep DEF CoreInv
<1> QED BY <1>1, <1>2, PTL DEF Spec

(* consume_nonce: no two verified entries have one nonce, none has a nonce *)
(* of the ledger, and the nonces stored are those of the verified entries, *)
(* whatever frames failed and were rolled back in between.                 *)
THEOREM NoncesUsedOnce == Spec => []NonceOnce
<1>1. Init => NonceInv
  BY NonceInit
<1>2. CoreInv /\ NonceInv /\ [Next]_vars => NonceInv'
  BY Steps, NonceStep DEF CoreInv
<1>3. NonceInv => NonceOnce
  <2> SUFFICES ASSUME NonceInv PROVE NonceOnce
    OBVIOUS
  <2>1. NonceOK(tx, verified, nonces)
    BY DEF NonceInv
  <2>2. {i \in verified : Entries[i].cred # "source"} = Consuming(tx, verified)
    BY DEF Consuming, Entries
  <2>3. \A i : NonceKey(i) = KeyOf(tx, i)
    BY DEF NonceKey, KeyOf, Entries
  <2> QED BY <2>1, <2>2, <2>3 DEF NonceOnce, NonceOK, Entries, UsedNonces
<1> QED BY <1>1, <1>2, <1>3, ManagerConsistent, PTL DEF Spec

-----------------------------------------------------------------------------
(* What a tracker knows of the frames it follows.                          *)

(* The frames up to n are what they were.                                  *)
LEMMA FollowsKept ==
    ASSUME NEW t, NEW base \in Nat, NEW n \in Nat, NEW f, NEW e, Follows(t, base, n, f, e),
           NEW g, NEW d, base <= n,
           \A p \in (base + 1)..n : g[p] = f[p],
           \A p \in base..n : d[p] = e[p]
    PROVE  Follows(t, base, n, g, d)
<1>1. \A k \in 1..Len(t.match) : base + k \in (base + 1)..n
  BY DEF Follows, Aligned
<1>2. Aligned(t, base, n, g)
  BY <1>1 DEF Follows, Aligned
<1>3. SnapshotsFit(t, base, n, d)
  BY DEF Follows, SnapshotsFit
<1> QED BY <1>2, <1>3 DEF Follows

(* One more frame, and one more snapshot.                                  *)
LEMMA FollowsPushed ==
    ASSUME NEW t, NEW base \in Nat, NEW n \in Nat, NEW f, NEW e, Follows(t, base, n, f, e),
           NEW g, NEW d, base <= n,
           \A p \in (base + 1)..n : g[p] = f[p],
           \A p \in base..n : d[p] = e[p],
           d[n + 1] = t.exhausted
    PROVE  Follows(push_frame(t), base, n + 1, g, d)
<1> DEFINE u == push_frame(t)
           m == n + 1
<1>1. Follows(t, base, n, g, d)
  BY FollowsKept
<1>2. /\ IsTracker(t) /\ PathOK(t) /\ Len(t.match) = n - base
      /\ \A k \in 1..Len(t.match) : t.match[k] # 0 => t.tree.fns[t.match[k]] = g[base + k]
  BY <1>1 DEF Follows, Aligned
<1>3. /\ IsTracker(u) /\ u.tree = t.tree /\ u.exhausted = t.exhausted
      /\ Len(u.match) = Len(t.match) + 1 /\ Len(t.match) \in Nat
      /\ \A k \in 1..Len(t.match) : u.match[k] = t.match[k]
      /\ u.match[Len(t.match) + 1] = 0
  BY <1>2, PushTracker
<1>4. PathOK(u)
  BY <1>2, PushPath
<1> HIDE DEF u
<1>5. \A k \in 1..Len(u.match) : u.match[k] # 0 => k \in 1..Len(t.match)
  BY <1>3
<1>6. Aligned(u, base, m, g)
  <2>1. Len(u.match) = m - base
    BY <1>2, <1>3
  <2>2. ASSUME NEW k \in 1..Len(u.match), u.match[k] # 0
        PROVE  u.tree.fns[u.match[k]] = g[base + k]
    <3>1. k \in 1..Len(t.match)
      BY <1>5, <2>2
    <3>2. u.match[k] = t.match[k]
      BY <1>3, <3>1
    <3> QED BY <1>2, <1>3, <2>2, <3>1, <3>2
  <2> QED BY <1>3, <1>4, <2>1, <2>2 DEF Aligned
<1>7. \A p \in base..m : p \in base..n \/ p = m
  OBVIOUS
<1>8. \A k \in 1..Len(u.match) : u.match[k] # 0 => u.match[k] \in t.exhausted
  BY <1>2, <1>3, <1>5 DEF PathOK
<1>9. /\ m \notin base..n /\ \A q \in base..m : ~(m < q)
      /\ \A p \in base..n : d[p] \subseteq d[m]
  BY <1>1 DEF Follows, SnapshotsFit
<1>10. d[m] = t.exhausted
  OBVIOUS
<1> HIDE DEF m
<1>11. SnapshotsFit(u, base, m, d)
  <2> SUFFICES ASSUME NEW p \in base..m
               PROVE  /\ d[p] \subseteq u.exhausted
                      /\ \A k \in 1..Len(u.match) :
                            u.match[k] # 0 /\ base + k < p => u.match[k] \in d[p]
                      /\ \A q \in base..m : p < q => d[p] \subseteq d[q]
    BY DEF SnapshotsFit
  <2>1. CASE p = m
    BY <1>3, <1>8, <1>9, <1>10, <2>1
  <2>2. CASE p \in base..n
    <3>1. /\ d[p] \subseteq t.exhausted
          /\ \A k \in 1..Len(t.match) : t.match[k] # 0 /\ base + k < p => t.match[k] \in d[p]
          /\ \A q \in base..n : p < q => d[p] \subseteq d[q]
      BY <1>1, <2>2 DEF Follows, SnapshotsFit
    <3> QED BY <1>3, <1>5, <1>7, <1>9, <2>2, <3>1
  <2> QED BY <1>7, <2>1, <2>2
<1> QED BY <1>6, <1>11 DEF Follows, u, m

(* The current frame is matched, or there is none and the tracker is       *)
(* exhausted all the same.                                                 *)
LEMMA FollowsMatched ==
    ASSUME NEW t, NEW base \in Nat, NEW n \in Nat, NEW f, NEW e, Follows(t, base, n, f, e),
           base <= n, NEW allow, NEW m, m = find_match(t, f[n], allow), m # 0
    PROVE  Follows(extend_match(t, m), base, n, f, e)
<1> DEFINE u == extend_match(t, m)
<1>1. /\ IsTracker(t) /\ PathOK(t) /\ Len(t.match) = n - base
      /\ \A k \in 1..Len(t.match) : t.match[k] # 0 => t.tree.fns[t.match[k]] = f[base + k]
  BY DEF Follows, Aligned
<1>2. m \in Nodes(t) /\ t.tree.fns[m] = f[n]
  BY <1>1, FoundMatch
<1>3. /\ IsTracker(u) /\ u.tree = t.tree /\ u.exhausted = t.exhausted \union {m}
      /\ Len(u.match) = Len(t.match) /\ Len(t.match) \in Nat
      /\ \A k \in 1..Len(t.match) : k # Len(t.match) => u.match[k] = t.match[k]
      /\ t.match # <<>> => u.match[Len(t.match)] = m
  BY <1>1, <1>2, ExtendTracker
<1>4. PathOK(u)
  BY <1>1, ExtendPath
<1> HIDE DEF u
<1>5. \A k \in 1..Len(t.match) : k = Len(t.match) => t.match # <<>> /\ base + k = n
  <2>1. t.match = <<>> => Len(t.match) = 0
    OBVIOUS
  <2> QED BY <1>1, <1>3, <2>1
<1>6. Aligned(u, base, n, f)
  BY <1>1, <1>2, <1>3, <1>4, <1>5 DEF Aligned
<1>7. SnapshotsFit(u, base, n, e)
  <2>1. \A p \in base..n : \A k \in 1..Len(t.match) : base + k < p => k # Len(t.match)
    BY <1>1
  <2> QED BY <1>3, <2>1 DEF Follows, SnapshotsFit
<1> QED BY <1>6, <1>7 DEF Follows, u

(* The last frame returns.                                                 *)
LEMMA FollowsPopped ==
    ASSUME NEW t, NEW base \in Nat, NEW n \in Nat, NEW f, NEW e, Follows(t, base, n, f, e),
           base < n
    PROVE  Follows(pop_frame(t), base, n - 1, f, e) /\ t.match # <<>>
<1> DEFINE u == pop_frame(t)
<1>1. /\ IsTracker(t) /\ PathOK(t) /\ Len(t.match) = n - base
      /\ \A k \in 1..Len(t.match) : t.match[k] # 0 => t.tree.fns[t.match[k]] = f[base + k]
  BY DEF Follows, Aligned
<1>2. t.match # <<>>
  <2>1. t.match = <<>> => Len(t.match) = 0
    OBVIOUS
  <2> QED BY <1>1, <2>1
<1>3. /\ IsTracker(u) /\ u.tree = t.tree /\ u.exhausted = t.exhausted
      /\ Len(u.match) = Len(t.match) - 1 /\ Len(t.match) \in Nat
      /\ \A k \in 1..(Len(t.match) - 1) : u.match[k] = t.match[k]
  BY <1>1, <1>2, PopTracker
<1>4. PathOK(u)
  BY <1>1, <1>2, PopPath
<1> HIDE DEF u
<1>5. \A k \in 1..Len(u.match) : k \in 1..Len(t.match) /\ u.match[k] = t.match[k]
  BY <1>3
<1>6. Aligned(u, base, n - 1, f)
  BY <1>1, <1>3, <1>4, <1>5 DEF Aligned
<1>7. SnapshotsFit(u, base, n - 1, e)
  <2>1. \A p \in base..(n - 1) : p \in base..n
    OBVIOUS
  <2> QED BY <1>3, <1>5, <2>1 DEF Follows, SnapshotsFit
<1> QED BY <1>2, <1>6, <1>7 DEF Follows, u

(* The last frame fails.                                                   *)
LEMMA FollowsFailed ==
    ASSUME NEW t, NEW base \in Nat, NEW n \in Nat, NEW f, NEW e, Follows(t, base, n, f, e),
           base < n
    PROVE  LET u == pop_frame(rollback(t, e[n])) IN
           /\ Follows(u, base, n - 1, f, e) /\ u.exhausted = e[n] /\ u.tree = t.tree
           /\ RootOK(t) => RootOK(u)
           /\ t.match # <<>>
           /\ \A k \in 1..Len(u.match) : k \in 1..Len(t.match) /\ u.match[k] = t.match[k]
<1> DEFINE u == pop_frame(rollback(t, e[n]))
<1>1. /\ IsTracker(t) /\ PathOK(t) /\ Len(t.match) = n - base
      /\ \A k \in 1..Len(t.match) : t.match[k] # 0 => t.tree.fns[t.match[k]] = f[base + k]
  BY DEF Follows, Aligned
<1>2. t.match # <<>>
  <2>1. t.match = <<>> => Len(t.match) = 0
    OBVIOUS
  <2> QED BY <1>1, <2>1
<1>3. /\ n \in base..n /\ \A k \in 1..(Len(t.match) - 1) : k \in 1..Len(t.match) /\ base + k < n
      /\ \A p \in base..(n - 1) : p \in base..n /\ p < n
  BY <1>1
<1>4. /\ e[n] \subseteq t.exhausted
      /\ \A k \in 1..(Len(t.match) - 1) : t.match[k] # 0 => t.match[k] \in e[n]
      /\ \A p \in base..(n - 1) : e[p] \subseteq e[n]
  BY <1>3 DEF Follows, SnapshotsFit
<1>5. /\ IsTracker(u) /\ PathOK(u) /\ u.tree = t.tree /\ u.exhausted = e[n]
      /\ Len(u.match) = Len(t.match) - 1 /\ Len(t.match) \in Nat
      /\ \A k \in 1..(Len(t.match) - 1) : u.match[k] = t.match[k]
      /\ RootOK(t) => RootOK(u)
  BY <1>1, <1>2, <1>4, FailTracker
<1> HIDE DEF u
<1>6. \A k \in 1..Len(u.match) : k \in 1..Len(t.match) /\ u.match[k] = t.match[k]
  BY <1>5
<1>7. Aligned(u, base, n - 1, f)
  BY <1>1, <1>5, <1>6 DEF Aligned
<1>8. SnapshotsFit(u, base, n - 1, e)
  BY <1>3, <1>4, <1>5, <1>6 DEF Follows, SnapshotsFit
<1> QED BY <1>2, <1>5, <1>6, <1>7, <1>8 DEF Follows, u

(* What the steps leave of the frames a tracker follows.                   *)
LEMMA KeptViews ==
    ASSUME KeptStack(stack')
    PROVE  /\ Fns(stack') = Fns(stack) /\ Len(stack') = Len(stack)
           /\ \A i : AccountSnaps(stack', i) = AccountSnaps(stack, i)
           /\ \A j, m : InvokerSnaps(stack', j, m) = InvokerSnaps(stack, j, m)
           /\ \A i, n, b : FollowedUpTo(i, n, stack', b) <=> FollowedUpTo(i, n, stack, b)
<1>1. /\ Len(stack') = Len(stack)
      /\ \A p \in 1..Len(stack) : /\ stack'[p].fn = stack[p].fn /\ stack'[p].snap = stack[p].snap
                                  /\ stack'[p].auth = stack[p].auth
  BY DEF KeptStack, KeptFrames, SameFrame
<1>2. Fns(stack') = Fns(stack)
  BY <1>1 DEF Fns
<1>3. \A i : AccountSnaps(stack', i) = AccountSnaps(stack, i)
  BY <1>1 DEF AccountSnaps
<1>4. \A j, m : InvokerSnaps(stack', j, m) = InvokerSnaps(stack, j, m)
  BY <1>1 DEF InvokerSnaps
<1>5. \A i, n, b : FollowedUpTo(i, n, stack', b) <=> FollowedUpTo(i, n, stack, b)
  BY <1>1 DEF FollowedUpTo
<1> QED BY <1>1, <1>2, <1>3, <1>4, <1>5

(* A push adds a frame with a snapshot of the trackers.                    *)
LEMMA PushedViews ==
    ASSUME FrameInv, NEW fr, NEW bor, NEW gr, PushedStack(fr, bor, gr)
    PROVE  LET n == Len(stack) IN
           /\ n \in Nat /\ Len(stack') = n + 1
           /\ \A p \in 1..n : /\ Fns(stack')[p] = Fns(stack)[p]
                              /\ stack'[p].auth = stack[p].auth
                              /\ \A i : AccountSnaps(stack', i)[p] = AccountSnaps(stack, i)[p]
                              /\ \A j, m : InvokerSnaps(stack', j, m)[p] = InvokerSnaps(stack, j, m)[p]
           /\ \A i \in Trackers : AccountSnaps(stack', i)[n + 1] = accounts[i].exhausted
           /\ \A j \in 1..Len(invokers) : \A m \in 0..n :
                  InvokerSnaps(stack', j, m)[n + 1] = invokers[j].t.exhausted
           /\ stack'[n + 1] = fr
<1> DEFINE n == Len(stack)
<1>1. /\ n \in Nat /\ Len(stack') = n + 1
      /\ \A p \in 1..n : /\ stack'[p].fn = stack[p].fn /\ stack'[p].snap = stack[p].snap
                         /\ stack'[p].auth = stack[p].auth
      /\ stack'[n + 1] = fr
      /\ fr.snap.exhausted = [i \in Trackers |-> accounts[i].exhausted]
      /\ fr.snap.invokers = [j \in DOMAIN invokers |-> invokers[j].t.exhausted]
  BY DEF PushedStack, KeptFrames, SameFrame
<1>2. DOMAIN invokers = 1..Len(invokers)
  BY SeqDomain DEF FrameInv, IsInvokers
<1>3. /\ \A p \in 1..n : p \in 1..Len(stack') /\ p \in 1..Len(stack)
      /\ n + 1 \in 1..Len(stack')
  BY <1>1
<1> HIDE DEF n
<1>4. \A p \in 1..n : /\ Fns(stack')[p] = Fns(stack)[p]
                      /\ \A i : AccountSnaps(stack', i)[p] = AccountSnaps(stack, i)[p]
                      /\ \A j, m : InvokerSnaps(stack', j, m)[p] = InvokerSnaps(stack, j, m)[p]
  BY <1>1, <1>3 DEF Fns, AccountSnaps, InvokerSnaps
<1>5. \A i \in Trackers : AccountSnaps(stack', i)[n + 1] = accounts[i].exhausted
  BY <1>1, <1>3 DEF AccountSnaps
<1>6. \A m \in 0..n : m < n + 1
  BY <1>1
<1>7. \A j \in 1..Len(invokers) : \A m \in 0..n :
          InvokerSnaps(stack', j, m)[n + 1] = invokers[j].t.exhausted
  BY <1>1, <1>2, <1>3, <1>6 DEF InvokerSnaps
<1> QED BY <1>1, <1>4, <1>5, <1>7 DEF n

(* A pop leaves the frames below.                                          *)
LEMMA PoppedViews ==
    ASSUME PoppedStack
    PROVE  LET n == Len(stack) IN
           /\ n \in Nat /\ n >= 1 /\ Len(stack') = n - 1
           /\ \A p \in 1..(n - 1) : /\ Fns(stack')[p] = Fns(stack)[p]
                                    /\ stack'[p].auth = stack[p].auth
                                    /\ \A i : AccountSnaps(stack', i)[p] = AccountSnaps(stack, i)[p]
                                    /\ \A j, m : InvokerSnaps(stack', j, m)[p]
                                                     = InvokerSnaps(stack, j, m)[p]
<1> DEFINE n == Len(stack)
<1>1. /\ n \in Nat /\ n >= 1 /\ Len(stack') = n - 1
      /\ \A p \in 1..(n - 1) : stack'[p] = stack[p]
  BY DEF PoppedStack
<1>2. \A p \in 1..(n - 1) : p \in 1..Len(stack') /\ p \in 1..Len(stack)
  BY <1>1
<1> HIDE DEF n
<1>3. \A p \in 1..(n - 1) : /\ Fns(stack')[p] = Fns(stack)[p]
                            /\ \A i : AccountSnaps(stack', i)[p] = AccountSnaps(stack, i)[p]
                            /\ \A j, m : InvokerSnaps(stack', j, m)[p] = InvokerSnaps(stack, j, m)[p]
  BY <1>1, <1>2 DEF Fns, AccountSnaps, InvokerSnaps
<1> QED BY <1>1, <1>3 DEF n

-----------------------------------------------------------------------------
(* The account trackers.                                                   *)

(* A tracker is borrowed exactly while its __check_auth frame is there.    *)
LEMMA BorrowedFrame ==
    ASSUME FrameInv, BorrowInv, NEW i \in Trackers
    PROVE  /\ i \in borrowed <=> \E p \in 1..Len(stack) : stack[p].auth = i
           /\ \A p \in 1..Len(stack) : stack[p].auth = i => p >= 2
           /\ i # 0
<1>1. i # 0
  BY TrackerNumbers DEF FrameInv
<1>2. i \in borrowed <=> \E p \in 1..Len(stack) : stack[p].auth = i
  BY <1>1 DEF BorrowInv, Lent
<1>3. ASSUME NEW p \in 1..Len(stack), stack[p].auth = i PROVE p >= 2
  <2>1. p # 1
    BY <1>1, <1>3 DEF FrameInv, FrameOK
  <2> QED BY <2>1, StackIsKept
<1> QED BY <1>1, <1>2, <1>3

(* A push on the stack: borrowed trackers stay, the others follow it.      *)
LEMMA AccountPushed ==
    ASSUME FrameInv, BorrowInv, AccountInv, NEW fr, NEW bor, NEW gr, PushedStack(fr, bor, gr),
           Len(stack) >= 1, NEW i \in Trackers, fr.auth # i, i \in borrowed' <=> i \in borrowed
    PROVE  LET At(t) == AccountAt(Entries[i].tree, i, t, stack', borrowed') IN
           /\ i \in borrowed => At(accounts[i])
           /\ i \notin borrowed => At(push_frame(accounts[i]))
<1> DEFINE n == Len(stack)
           t == accounts[i]
           At(x) == AccountAt(Entries[i].tree, i, x, stack', borrowed')
<1>1. /\ n \in Nat /\ Len(stack') = n + 1
      /\ \A p \in 1..n : /\ Fns(stack')[p] = Fns(stack)[p]
                         /\ stack'[p].auth = stack[p].auth
                         /\ AccountSnaps(stack', i)[p] = AccountSnaps(stack, i)[p]
      /\ AccountSnaps(stack', i)[n + 1] = accounts[i].exhausted
      /\ stack'[n + 1] = fr
  BY PushedViews
<1>2. /\ IsTracker(t) /\ PathOK(t) /\ RootOK(t) /\ t.tree = Entries[i].tree
      /\ \A m \in 1..n : FollowedUpTo(i, m, stack, borrowed) =>
                             Follows(t, 1, m, Fns(stack), AccountSnaps(stack, i))
  BY DEF AccountInv, AccountAt
<1>3. stack' # <<>>
  <2>1. Len(stack') # 0
    BY <1>1
  <2> QED BY <2>1, NullSeq
<1>4. \A p \in 1..(n + 1) : p \in 1..n \/ p = n + 1
  BY <1>1
<1>5. CASE i \in borrowed
  <2>1. ASSUME NEW m \in 1..(n + 1), FollowedUpTo(i, m, stack', borrowed')
        PROVE  m + 1 \in 1..n /\ m \in 1..n /\ FollowedUpTo(i, m, stack, borrowed)
    <3>1. m + 1 \in 1..(n + 1) /\ stack'[m + 1].auth = i
      BY <1>1, <1>5, <2>1 DEF FollowedUpTo
    <3>2. m + 1 \in 1..n /\ stack[m + 1].auth = i
      BY <1>1, <1>4, <3>1
    <3> QED BY <1>1, <3>2 DEF FollowedUpTo
  <2>2. ASSUME NEW m \in 1..(n + 1), FollowedUpTo(i, m, stack', borrowed')
        PROVE  Follows(t, 1, m, Fns(stack'), AccountSnaps(stack', i))
    <3>1. m \in 1..n /\ FollowedUpTo(i, m, stack, borrowed)
      BY <2>1, <2>2
    <3>2. Follows(t, 1, m, Fns(stack), AccountSnaps(stack, i))
      BY <1>2, <3>1
    <3>3. \A p \in 1..m : p \in 1..n
      BY <1>1, <3>1
    <3>4. \A p \in (1 + 1)..m : p \in 1..m
      OBVIOUS
    <3> QED BY <1>1, <3>1, <3>2, <3>3, <3>4, FollowsKept
  <2> QED BY <1>1, <1>2, <1>3, <1>5, <2>2 DEF AccountAt
<1>6. CASE i \notin borrowed
  <2>1. \A p \in 1..(n + 1) : stack'[p].auth # i
    BY <1>1, <1>4, <1>6, BorrowedFrame
  <2>2. \A m \in 1..(n + 1) : FollowedUpTo(i, m, stack', borrowed') => m = n + 1
    BY <1>1, <2>1 DEF FollowedUpTo
  <2>3. Follows(t, 1, n, Fns(stack), AccountSnaps(stack, i))
    <3>1. n \in 1..n /\ FollowedUpTo(i, n, stack, borrowed)
      BY <1>1, <1>6 DEF FollowedUpTo
    <3> QED BY <1>2, <3>1
  <2>4. \A p \in (1 + 1)..n : p \in 1..n
    OBVIOUS
  <2>5. Follows(push_frame(t), 1, n + 1, Fns(stack'), AccountSnaps(stack', i))
    BY <1>1, <2>3, <2>4, FollowsPushed
  <2>6. /\ IsTracker(push_frame(t)) /\ PathOK(push_frame(t)) /\ RootOK(push_frame(t))
        /\ push_frame(t).tree = Entries[i].tree
    BY <1>2, PushTracker, PushPath
  <2>7. At(push_frame(t))
    BY <1>1, <1>3, <2>2, <2>5, <2>6 DEF AccountAt
  <2> QED BY <1>6, <2>7
<1> QED BY <1>5, <1>6

(* A pop, after a rollback or not: borrowed trackers stay, that of the     *)
(* frame itself is given back where it stopped.                            *)
LEMMA AccountPopped ==
    ASSUME FrameInv, BorrowInv, AccountInv, PoppedStack, Len(stack) >= 2,
           borrowed' = borrowed \ {Top.auth}, NEW i \in Trackers
    PROVE  LET At(t) == AccountAt(Entries[i].tree, i, t, stack', borrowed') IN
           /\ i \in borrowed => At(accounts[i])
           /\ i \notin borrowed =>
                 /\ At(pop_frame(accounts[i]))
                 /\ At(pop_frame(rollback(accounts[i], Top.snap.exhausted[i])))
                 /\ pop_frame(rollback(accounts[i], Top.snap.exhausted[i])).exhausted
                        = Top.snap.exhausted[i]
<1> DEFINE n == Len(stack)
           t == accounts[i]
           At(x) == AccountAt(Entries[i].tree, i, x, stack', borrowed')
           u == pop_frame(rollback(t, Top.snap.exhausted[i]))
<1>1. /\ n \in Nat /\ n >= 1 /\ Len(stack') = n - 1
      /\ \A p \in 1..(n - 1) : /\ Fns(stack')[p] = Fns(stack)[p]
                               /\ stack'[p].auth = stack[p].auth
                               /\ AccountSnaps(stack', i)[p] = AccountSnaps(stack, i)[p]
  BY PoppedViews
<1>2. /\ IsTracker(t) /\ PathOK(t) /\ RootOK(t) /\ t.tree = Entries[i].tree
      /\ \A m \in 1..n : FollowedUpTo(i, m, stack, borrowed) =>
                             Follows(t, 1, m, Fns(stack), AccountSnaps(stack, i))
  BY DEF AccountInv, AccountAt
<1>3. stack' # <<>>
  <2>1. Len(stack') # 0
    BY <1>1
  <2> QED BY <2>1, NullSeq
<1>4. /\ \A p \in 1..(n - 1) : p \in 1..n
      /\ \A p \in 1..n : p \in 1..(n - 1) \/ p = n
      /\ n \in 1..n
  BY <1>1
<1>5. Top = stack[n]
  BY DEF Top
<1>6. ASSUME NEW x, NEW m \in 1..(n - 1), Follows(x, 1, m, Fns(stack), AccountSnaps(stack, i))
      PROVE  Follows(x, 1, m, Fns(stack'), AccountSnaps(stack', i))
  <2>1. \A p \in 1..m : p \in 1..(n - 1)
    BY <1>1
  <2>2. \A p \in (1 + 1)..m : p \in 1..m
    OBVIOUS
  <2> QED BY <1>1, <1>6, <2>1, <2>2, FollowsKept
<1>7. CASE i \in borrowed
  <2>1. ASSUME NEW m \in 1..(n - 1), FollowedUpTo(i, m, stack', borrowed')
        PROVE  FollowedUpTo(i, m, stack, borrowed)
    <3>1. CASE m = n - 1 /\ i \notin borrowed'
      <4>1. Top.auth = i
        BY <1>7, <3>1
      <4> QED BY <1>1, <1>4, <1>5, <3>1, <4>1 DEF FollowedUpTo
    <3>2. CASE m + 1 \in 1..(n - 1) /\ stack'[m + 1].auth = i
      BY <1>1, <1>4, <3>2 DEF FollowedUpTo
    <3> QED BY <1>1, <2>1, <3>1, <3>2 DEF FollowedUpTo
  <2>2. ASSUME NEW m \in 1..(n - 1), FollowedUpTo(i, m, stack', borrowed')
        PROVE  Follows(t, 1, m, Fns(stack'), AccountSnaps(stack', i))
    BY <1>2, <1>4, <1>6, <2>1, <2>2
  <2> QED BY <1>1, <1>2, <1>3, <1>7, <2>2 DEF AccountAt
<1>8. CASE i \notin borrowed
  <2>1. \A p \in 1..(n - 1) : stack'[p].auth # i
    BY <1>1, <1>4, <1>8, BorrowedFrame
  <2>2. \A m \in 1..(n - 1) : FollowedUpTo(i, m, stack', borrowed') => m = n - 1
    BY <1>1, <2>1 DEF FollowedUpTo
  <2>3. Follows(t, 1, n, Fns(stack), AccountSnaps(stack, i))
    <3>1. FollowedUpTo(i, n, stack, borrowed)
      BY <1>8 DEF FollowedUpTo
    <3> QED BY <1>2, <1>4, <3>1
  <2>4. AccountSnaps(stack, i)[n] = Top.snap.exhausted[i]
    BY <1>4, <1>5 DEF AccountSnaps
  <2>5. n - 1 \in 1..(n - 1) /\ 1 < n
    BY <1>1
  <2>6. /\ Follows(pop_frame(t), 1, n - 1, Fns(stack), AccountSnaps(stack, i)) /\ t.match # <<>>
    BY <1>1, <2>3, <2>5, FollowsPopped
  <2>7. /\ IsTracker(pop_frame(t)) /\ PathOK(pop_frame(t)) /\ RootOK(pop_frame(t))
        /\ pop_frame(t).tree = Entries[i].tree
    BY <1>2, <2>6, PopTracker, PopPath
  <2>8. At(pop_frame(t))
    BY <1>1, <1>3, <1>6, <2>2, <2>5, <2>6, <2>7 DEF AccountAt
  <2>9. /\ Follows(u, 1, n - 1, Fns(stack), AccountSnaps(stack, i))
        /\ u.exhausted = Top.snap.exhausted[i] /\ u.tree = t.tree /\ RootOK(u)
    BY <1>1, <1>2, <2>3, <2>4, <2>5, FollowsFailed
  <2> HIDE DEF u
  <2>10. At(u)
    BY <1>1, <1>2, <1>3, <1>6, <2>2, <2>5, <2>9 DEF AccountAt, Follows, Aligned
  <2> QED BY <1>8, <2>8, <2>9, <2>10 DEF u
<1> QED BY <1>7, <1>8

(* The tracker that matches the current frame.                             *)
LEMMA AccountExtended ==
    ASSUME FrameInv, BorrowInv, AccountInv, NEW i, NEW m, Found(i, m)
    PROVE  LET t == accounts[i]
               u == extend_match(t, m)
           IN  /\ i \in Trackers /\ m \in Nodes(t) /\ m \notin t.exhausted
               /\ IsTracker(u) /\ PathOK(u) /\ RootOK(u) /\ u.tree = Entries[i].tree
               /\ u.exhausted = t.exhausted \union {m}
               /\ Follows(u, 1, Len(stack), Fns(stack), AccountSnaps(stack, i))
               /\ \A p \in 1..Len(stack) : stack[p].auth # i
<1> DEFINE n == Len(stack)
           t == accounts[i]
           u == extend_match(t, m)
<1>1. /\ i \in Trackers /\ i \notin borrowed /\ n >= 2 /\ n \in Nat
      /\ m = find_match(t, Top.fn, ~has_active_tracker(Entries[i].addr)) /\ m # 0
  BY StackIsKept DEF Found
<1>2. /\ IsTracker(t) /\ PathOK(t) /\ RootOK(t) /\ t.tree = Entries[i].tree
      /\ \A x \in 1..n : FollowedUpTo(i, x, stack, borrowed) =>
                             Follows(t, 1, x, Fns(stack), AccountSnaps(stack, i))
  BY <1>1 DEF AccountInv, AccountAt
<1>3. n \in 1..n /\ Fns(stack)[n] = Top.fn
  BY <1>1 DEF Fns, Top
<1>4. Follows(t, 1, n, Fns(stack), AccountSnaps(stack, i))
  <2>1. FollowedUpTo(i, n, stack, borrowed)
    BY <1>1 DEF FollowedUpTo
  <2> QED BY <1>2, <1>3, <2>1
<1>5. Follows(u, 1, n, Fns(stack), AccountSnaps(stack, i))
  <2> DEFINE f == Fns(stack)
             allow == ~has_active_tracker(Entries[i].addr)
  <2>1. m = find_match(t, f[n], allow) /\ 1 <= n
    BY <1>1, <1>3
  <2> HIDE DEF f, allow, t, n
  <2>2. Follows(t, 1, n, f, AccountSnaps(stack, i)) /\ n \in Nat /\ m # 0
    BY <1>1, <1>4 DEF f
  <2> QED BY <2>1, <2>2, FollowsMatched DEF f
<1>6. t.match # <<>>
  <2>1. 1 < n
    BY <1>1
  <2> QED BY <1>1, <1>4, <2>1, FollowsPopped
<1>7. m \in Nodes(t) /\ m \notin t.exhausted
  <2> HIDE DEF t
  <2> QED BY <1>1, <1>2, FoundMatch
<1>8. IsTracker(u) /\ u.tree = t.tree /\ u.exhausted = t.exhausted \union {m}
  BY <1>2, <1>7, ExtendTracker
<1>9. PathOK(u)
  BY <1>1, <1>2, ExtendPath
<1>10. RootOK(u)
  BY <1>1, <1>2, <1>6, ExtendRoot
<1>11. \A p \in 1..n : stack[p].auth # i
  BY <1>1, BorrowedFrame
<1> QED BY <1>1, <1>2, <1>5, <1>7, <1>8, <1>9, <1>10, <1>11

(* At first no frame is matched and nothing is exhausted.                  *)
LEMMA AccountInit == Init => AccountInv
<1> SUFFICES ASSUME Init, NEW i \in Trackers
             PROVE  AccountAt(Entries[i].tree, i, accounts[i], stack, borrowed)
  BY DEF AccountInv
<1> DEFINE t == accounts[i]
           e == AccountSnaps(stack, i)
<1>1. Len(stack) = 1 /\ stack = <<HostFrame>> /\ FrameInv
  BY FrameInit
<1>2. t = new(Entries[i].tree) /\ IsTree(Entries[i].tree)
  BY <1>1, TrackerNumbers DEF Init, FrameInv
<1>3. /\ IsTracker(t) /\ PathOK(t) /\ RootOK(t) /\ t.tree = Entries[i].tree
      /\ t.exhausted = {} /\ t.match = <<>> /\ Len(t.match) = 0
  BY <1>2, NewTracker
<1>4. \A p \in 1..1 : e[p] = {}
  <2>1. stack[1] = HostFrame /\ HostFrame.snap.exhausted[i] = t.exhausted
    BY <1>1 DEF HostFrame, Frame, snapshot, invocation_snapshot
  <2> QED BY <1>1, <1>3, <2>1 DEF AccountSnaps
<1> HIDE DEF t, e
<1>5. 1..Len(t.match) = {}
  BY <1>3
<1>6. Follows(t, 1, 1, Fns(stack), e)
  BY <1>3, <1>4, <1>5 DEF Follows, Aligned, SnapshotsFit
<1>7. stack # <<>>
  BY <1>1
<1>8. \A n \in 1..Len(stack) : n = 1
  BY <1>1
<1> QED BY <1>3, <1>6, <1>7, <1>8 DEF AccountAt, t, e

(* The account trackers stay aligned with the call stack, whatever is      *)
(* called, authenticated or rolled back.                                   *)
LEMMA AccountStep ==
    ASSUME FrameInv, BorrowInv, InvokerInv, AccountInv, Kinds, BorrowInv',
           Trackers' = Trackers, Entries' = Entries
    PROVE  AccountInv'
<1> DEFINE At(i) == AccountAt(Entries[i].tree, i, accounts'[i], stack', borrowed')
<1> SUFFICES ASSUME NEW i \in Trackers PROVE At(i)
  BY DEF AccountInv
<1>0. AccountAt(Entries[i].tree, i, accounts[i], stack, borrowed)
  BY DEF AccountInv
<1>1. ASSUME KeptStack(stack'), borrowed' = borrowed, accounts'[i] = accounts[i] PROVE At(i)
  <2>1. /\ Fns(stack') = Fns(stack) /\ Len(stack') = Len(stack)
        /\ AccountSnaps(stack', i) = AccountSnaps(stack, i)
        /\ \A n, b : FollowedUpTo(i, n, stack', b) <=> FollowedUpTo(i, n, stack, b)
    BY <1>1, KeptViews
  <2>2. stack' = <<>> => stack = <<>>
    <3>1. stack' = <<>> => Len(stack') = 0
      OBVIOUS
    <3>2. Len(stack) = 0 => stack = <<>>
      BY SeqDomain DEF FrameInv
    <3> QED BY <2>1, <3>1, <3>2
  <2> QED BY <1>0, <1>1, <2>1, <2>2 DEF AccountAt
<1>2. CASE Quiet
  BY <1>1, <1>2 DEF Quiet
<1>3. CASE Pushed
  <2>1. PICK fr : fr.auth = 0 /\ PushedStack(fr, borrowed, grants)
    BY <1>3 DEF Pushed
  <2>2. fr.auth # i /\ borrowed' = borrowed /\ Len(stack) >= 1
    BY <1>3, <2>1, BorrowedFrame DEF Pushed
  <2>3. accounts'[i] = IF i \in borrowed THEN accounts[i] ELSE push_frame(accounts[i])
    BY <1>3 DEF Pushed, PushAccounts
  <2> QED BY <2>1, <2>2, <2>3, AccountPushed
<1>4. CASE InvokerAdded
  BY <1>1, <1>4, StackIsKept DEF InvokerAdded
<1>5. CASE InvokerMatched
  BY <1>1, <1>5 DEF InvokerMatched
<1>6. ASSUME NEW x, NEW m, AccountMatched(x, m) PROVE At(i)
  <2>1. /\ Found(x, m) /\ accounts' = Extended(x, m) /\ KeptStack(stack') /\ borrowed' = borrowed
    BY <1>6 DEF AccountMatched
  <2>2. CASE i # x
    <3>1. accounts'[i] = accounts[i]
      BY <2>1, <2>2 DEF Extended, FrameInv
    <3> QED BY <1>1, <2>1, <3>1
  <2>3. CASE i = x
    <3> DEFINE u == extend_match(accounts[i], m)
    <3>1. /\ IsTracker(u) /\ PathOK(u) /\ RootOK(u) /\ u.tree = Entries[i].tree
          /\ Follows(u, 1, Len(stack), Fns(stack), AccountSnaps(stack, i))
          /\ \A p \in 1..Len(stack) : stack[p].auth # i
      BY <2>1, <2>3, AccountExtended
    <3>2. accounts'[i] = u
      BY <2>1, <2>3 DEF Extended, FrameInv
    <3> HIDE DEF u
    <3>3. /\ Fns(stack') = Fns(stack) /\ Len(stack') = Len(stack)
          /\ AccountSnaps(stack', i) = AccountSnaps(stack, i)
          /\ \A n, b : FollowedUpTo(i, n, stack', b) <=> FollowedUpTo(i, n, stack, b)
      BY <2>1, KeptViews
    <3>4. \A n : FollowedUpTo(i, n, stack, borrowed) => n = Len(stack)
      BY <3>1 DEF FollowedUpTo
    <3>5. stack' # <<>>
      <4>1. Len(stack') # 0
        BY <2>1, <3>3, StackIsKept DEF Found
      <4> QED BY <4>1, NullSeq
    <3> QED BY <2>1, <3>1, <3>2, <3>3, <3>4, <3>5 DEF AccountAt
  <2> QED BY <2>2, <2>3
<1>7. ASSUME NEW x, NEW m, CheckStarted(x, m) PROVE At(i)
  <2>1. /\ Found(x, m) /\ borrowed' = borrowed \union {x}
        /\ accounts' = PushAccounts(Extended(x, m), borrowed')
    BY <1>7 DEF CheckStarted
  <2>2. PICK fr : fr.auth = x /\ PushedStack(fr, borrowed', grants')
    BY <1>7 DEF CheckStarted
  <2>3. Len(stack) >= 1 /\ Len(stack) \in Nat
    BY <2>1, StackIsKept DEF Found
  <2>4. CASE i # x
    <3>1. i \in borrowed' <=> i \in borrowed
      BY <2>1, <2>4
    <3>2. accounts'[i] = IF i \in borrowed THEN accounts[i] ELSE push_frame(accounts[i])
      BY <2>1, <2>4, <3>1 DEF Extended, PushAccounts, FrameInv
    <3> QED BY <2>2, <2>3, <2>4, <3>1, <3>2, AccountPushed
  <2>5. CASE i = x
    <3> DEFINE u == extend_match(accounts[i], m)
               n == Len(stack)
    <3>1. /\ IsTracker(u) /\ PathOK(u) /\ RootOK(u) /\ u.tree = Entries[i].tree
          /\ Follows(u, 1, n, Fns(stack), AccountSnaps(stack, i))
          /\ \A p \in 1..n : stack[p].auth # i
      BY <2>1, <2>5, AccountExtended
    <3>2. accounts'[i] = u
      BY <2>1, <2>5 DEF Extended, PushAccounts, FrameInv
    <3> HIDE DEF u
    <3>3. /\ Len(stack') = n + 1 /\ n \in Nat
          /\ \A p \in 1..n : /\ Fns(stack')[p] = Fns(stack)[p]
                             /\ stack'[p].auth = stack[p].auth
                             /\ AccountSnaps(stack', i)[p] = AccountSnaps(stack, i)[p]
      BY <2>2, PushedViews
    <3>4. i \in borrowed'
      BY <2>1, <2>5
    <3>5. ASSUME NEW k \in 1..(n + 1), FollowedUpTo(i, k, stack', borrowed') PROVE k = n
      <4>1. k + 1 \in 1..(n + 1) /\ stack'[k + 1].auth = i
        BY <3>3, <3>4, <3>5 DEF FollowedUpTo
      <4>2. k + 1 \notin 1..n
        BY <3>1, <3>3, <4>1
      <4> QED BY <3>3, <4>1, <4>2
    <3>6. Follows(u, 1, n, Fns(stack'), AccountSnaps(stack', i))
      <4>1. \A p \in (1 + 1)..n : p \in 1..n
        OBVIOUS
      <4> QED BY <2>3, <3>1, <3>3, <4>1, FollowsKept
    <3>7. stack' # <<>>
      <4>1. Len(stack') # 0
        BY <3>3
      <4> QED BY <4>1, NullSeq
    <3> QED BY <3>1, <3>2, <3>3, <3>5, <3>6, <3>7 DEF AccountAt
  <2> QED BY <2>4, <2>5
<1>8. CASE Popped
  <2>1. accounts'[i] = IF i \in borrowed THEN accounts[i] ELSE pop_frame(accounts[i])
    BY <1>8 DEF Popped, PopAccounts
  <2> QED BY <1>8, <2>1, AccountPopped DEF Popped
<1>9. CASE Failed
  <2>1. PoppedStack /\ Len(stack) >= 2 /\ borrowed' = borrowed \ {Top.auth} /\ Len(stack) \in Nat
    BY <1>9, StackIsKept DEF Failed
  <2>2. Top.snap.borrowed = borrowed
    <3>1. Len(stack) \in 1..Len(stack)
      BY <2>1
    <3> QED BY <3>1 DEF BorrowInv, Top
  <2>3. accounts'[i] = IF i \in borrowed THEN accounts[i]
                       ELSE pop_frame(rollback(accounts[i], Top.snap.exhausted[i]))
    BY <1>9, <2>2 DEF Failed, PopAccounts, RollbackAccounts
  <2> QED BY <2>1, <2>3, AccountPopped
<1>10. CASE FailedBadly
  <2>1. stack # <<>> /\ RollbackFails(Top.snap)
    BY <1>10 DEF FailedBadly, PoppedStack
  <2> QED BY <2>1, RollbackSucceeds
<1>11. CASE Ended
  <2> DEFINE s == Top.snap
             t == accounts[i]
  <2>1. Len(stack) = 1 /\ stack' = <<>> /\ 1 \in 1..Len(stack) /\ 1..Len(stack') = {}
    <3>1. Len(stack) = 1 /\ stack' = <<>>
      BY <1>11 DEF Ended
    <3> QED BY <3>1, NullSeq
  <2>2. s.borrowed = borrowed /\ i \notin borrowed /\ s = stack[1].snap
    <3>1. \A p \in 1..Len(stack) : p = 1 /\ ~(p >= 2)
      BY <2>1
    <3> QED BY <2>1, <3>1, BorrowedFrame DEF BorrowInv, Top
  <2>3. Follows(t, 1, 1, Fns(stack), AccountSnaps(stack, i))
    <3>1. FollowedUpTo(i, 1, stack, borrowed)
      BY <2>1, <2>2 DEF FollowedUpTo
    <3> QED BY <1>0, <2>1, <3>1 DEF AccountAt
  <2>4. /\ IsTracker(t) /\ RootOK(t) /\ t.match = <<>> /\ t.tree = Entries[i].tree
        /\ Len(t.match) = 0 /\ 1..Len(t.match) = {}
        /\ s.exhausted[i] \subseteq t.exhausted
    <3>1. IsTracker(t) /\ RootOK(t) /\ t.tree = Entries[i].tree
      BY <1>0 DEF AccountAt
    <3>2. Len(t.match) = 0
      BY <2>3 DEF Follows, Aligned
    <3>3. t.match = <<>>
      BY <3>1, <3>2, SeqDomain DEF IsTracker
    <3>4. 1 \in 1..1 /\ AccountSnaps(stack, i)[1] = s.exhausted[i]
      BY <2>1, <2>2 DEF AccountSnaps
    <3>5. s.exhausted[i] \subseteq t.exhausted
      BY <2>3, <3>4 DEF Follows, SnapshotsFit
    <3> QED BY <3>1, <3>2, <3>3, <3>5
  <2>5. CASE accounts' = accounts
    BY <1>0, <2>1, <2>4, <2>5 DEF AccountAt
  <2>6. CASE accounts' = RollbackAccounts(s)
    <3> DEFINE u == rollback(t, s.exhausted[i])
    <3>1. u = rollback(t, s.exhausted[i]) /\ accounts'[i] = u
      BY <2>2, <2>6 DEF RollbackAccounts
    <3> HIDE DEF u
    <3>2. /\ IsTracker(u) /\ u.tree = t.tree /\ u.exhausted = s.exhausted[i] /\ u.match = t.match
          /\ 1 \in s.exhausted[i] => u.root = t.root /\ u.processed = t.processed
          /\ 1 \notin s.exhausted[i] => u.root = 0 /\ ~u.processed
      BY <2>4, <3>1, RollbackTracker
    <3>3. PathOK(u)
      BY <2>4, <3>2 DEF PathOK
    <3>4. RootOK(u)
      <4>1. CASE 1 \in s.exhausted[i]
        BY <2>4, <3>2, <4>1 DEF RootOK
      <4>2. CASE 1 \notin s.exhausted[i]
        <5>1. u.root = 0 /\ u.root \in Nat /\ 1 \notin u.exhausted
          BY <3>2, <4>2
        <5>2. ~u.processed
          BY <3>2, <4>2
        <5>3. u.processed \in BOOLEAN
          BY <4>2, <3>1, <5>2 DEF rollback
        <5> QED BY <5>1, <5>2, <5>3, Zenon DEF RootOK
      <4> QED BY <4>1, <4>2
    <3> QED BY <2>1, <2>4, <3>1, <3>2, <3>3, <3>4 DEF AccountAt
  <2> QED BY <1>11, <2>5, <2>6 DEF Ended
<1> QED BY <1>2, <1>3, <1>4, <1>5, <1>6, <1>7, <1>8, <1>9, <1>10, <1>11 DEF Kinds

(* What a tracker follows is a path of its tree in the sense of IsPath.    *)
LEMMA FollowsIsPath ==
    ASSUME NEW t, NEW base \in Nat, NEW n \in Nat, NEW e, Len(stack) \in Nat, n <= Len(stack),
           Follows(t, base, n, Fns(stack), e)
    PROVE  IsPath(t, base)
<1> DEFINE Above(k) == {l \in MatchedFrames(t) : l < k}
<1>1. /\ IsTracker(t) /\ PathOK(t) /\ Len(t.match) = n - base
      /\ \A k \in 1..Len(t.match) : t.match[k] # 0 => t.tree.fns[t.match[k]] = Fns(stack)[base + k]
  BY DEF Follows, Aligned
<1>2. Len(t.match) \in Nat /\ \A k \in 1..Len(t.match) : base + k \in 1..Len(stack)
  BY <1>1, SeqDomain DEF IsTracker
<1> SUFFICES ASSUME NEW k \in MatchedFrames(t)
             PROVE  /\ t.match[k] \in t.exhausted
                    /\ t.tree.fns[t.match[k]] = stack[base + k].fn
                    /\ t.tree.parent[t.match[k]] =
                           IF Above(k) = {} THEN 0
                           ELSE t.match[CHOOSE l \in Above(k) : \A m \in Above(k) : m <= l]
  BY DEF IsPath
<1>3. k \in 1..Len(t.match) /\ t.match[k] # 0
  BY DEF MatchedFrames
<1>4. t.match[k] \in t.exhausted
  BY <1>1, <1>3 DEF PathOK
<1>5. t.tree.fns[t.match[k]] = stack[base + k].fn
  BY <1>1, <1>2, <1>3 DEF Fns
<1>6. /\ \A l \in Above(k) : l \in 1..(k - 1) /\ t.match[l] # 0
      /\ \A l \in 1..(k - 1) : t.match[l] # 0 => l \in Above(k)
  BY <1>2, <1>3 DEF MatchedFrames
<1>7. \/ t.tree.parent[t.match[k]] = 0 /\ NoneBelow(t.match, k)
      \/ \E l \in 1..(k - 1) : /\ LastBelow(t.match, k, l)
                               /\ t.tree.parent[t.match[k]] = t.match[l]
  BY <1>1, <1>3 DEF PathOK
<1>8. CASE t.tree.parent[t.match[k]] = 0 /\ NoneBelow(t.match, k)
  <2>1. Above(k) = {}
    BY <1>6, <1>8 DEF NoneBelow
  <2> QED BY <1>4, <1>5, <1>8, <2>1
<1>9. ASSUME NEW l \in 1..(k - 1), LastBelow(t.match, k, l),
             t.tree.parent[t.match[k]] = t.match[l]
      PROVE  t.tree.parent[t.match[k]] =
                 IF Above(k) = {} THEN 0
                 ELSE t.match[CHOOSE x \in Above(k) : \A m \in Above(k) : m <= x]
  <2> DEFINE S == Above(k)
             c == CHOOSE x \in S : \A m \in S : m <= x
  <2>1. l \in S /\ \A m \in S : m \in 1..(k - 1) /\ ~(l < m)
    BY <1>6, <1>9 DEF LastBelow
  <2> HIDE DEF S
  <2>2. l \in S /\ \A m \in S : m <= l /\ m \in Nat
    BY <1>2, <1>3, <2>1
  <2>3. c \in S /\ \A m \in S : m <= c
    BY <2>2
  <2> HIDE DEF c
  <2>4. c = l
    BY <2>2, <2>3
  <2>5. S # {}
    BY <2>1
  <2>6. t.tree.parent[t.match[k]] = IF S = {} THEN 0 ELSE t.match[c]
    BY <1>9, <2>4, <2>5
  <2> QED BY <2>6 DEF c, S
<1> QED BY <1>4, <1>5, <1>7, <1>8, <1>9

(* The account trackers with the manager's other invariants.               *)
THEOREM AccountsFollow == Spec => []AccountInv
<1>1. Init => AccountInv
  BY AccountInit
<1>2. CoreInv /\ CoreInv' /\ AccountInv /\ [Next]_vars => AccountInv'
  BY Steps, AccountStep DEF CoreInv
<1> QED BY <1>1, <1>2, ManagerConsistent, PTL DEF Spec

(* Where FollowedTo looks for the frame of a borrowed tracker.             *)
LEMMA FollowedFrame ==
    ASSUME FrameInv, BorrowInv, stack # <<>>, NEW i \in Trackers
    PROVE  /\ FollowedTo(i) \in 1..Len(stack)
           /\ FollowedUpTo(i, FollowedTo(i), stack, borrowed)
<1>1. Len(stack) \in Nat /\ Len(stack) \in 1..Len(stack) /\ DOMAIN stack = 1..Len(stack)
  BY TopFrame, SeqDomain DEF FrameInv
<1>2. CASE i \notin borrowed
  BY <1>1, <1>2 DEF FollowedTo, FollowedUpTo
<1>3. CASE i \in borrowed
  <2> DEFINE k == CHOOSE x \in DOMAIN stack : stack[x].auth = i
  <2>1. k \in 1..Len(stack) /\ stack[k].auth = i
    BY <1>1, <1>3, BorrowedFrame
  <2>2. FollowedTo(i) = k - 1
    BY <1>3 DEF FollowedTo
  <2>3. k >= 2
    BY <2>1, BorrowedFrame
  <2> HIDE DEF k
  <2>4. k - 1 \in 1..Len(stack) /\ (k - 1) + 1 = k
    BY <1>1, <2>1, <2>3
  <2> QED BY <2>1, <2>2, <2>4 DEF FollowedUpTo
<1> QED BY <1>2, <1>3

(* last_authorized_invocation_mut: the match stack of every account        *)
(* tracker is aligned with the call stack, each match for the very         *)
(* function of its frame, consumed, and a child of the match below it.     *)
THEOREM MatchStacksArePaths == Spec => []MatchStackIsPath
<1>1. CoreInv /\ AccountInv => MatchStackIsPath
  <2> SUFFICES ASSUME CoreInv, AccountInv, stack # <<>>, NEW i \in Trackers
               PROVE  Len(accounts[i].match) = FollowedTo(i) - 1 /\ IsPath(accounts[i], 1)
    BY DEF MatchStackIsPath
  <2> DEFINE n == FollowedTo(i)
  <2>1. n \in 1..Len(stack) /\ FollowedUpTo(i, n, stack, borrowed) /\ Len(stack) \in Nat
    BY FollowedFrame, TopFrame DEF CoreInv
  <2> HIDE DEF n
  <2>2. Follows(accounts[i], 1, n, Fns(stack), AccountSnaps(stack, i))
    BY <2>1 DEF AccountInv, AccountAt
  <2>3. n \in Nat /\ n <= Len(stack)
    BY <2>1
  <2>4. IsPath(accounts[i], 1)
    BY <2>1, <2>2, <2>3, FollowsIsPath
  <2>5. Len(accounts[i].match) = n - 1
    BY <2>2 DEF Follows, Aligned
  <2> QED BY <2>4, <2>5 DEF n
<1> QED BY <1>1, ManagerConsistent, AccountsFollow, PTL

(* is_active, from the bookkeeping of the root.                            *)
LEMMA ActiveRoot ==
    ASSUME NEW t, IsTracker(t), PathOK(t), RootOK(t)
    PROVE  /\ is_active(t) <=> \E k \in DOMAIN t.match : t.match[k] = 1
           /\ DOMAIN t.match = 1..Len(t.match)
<1>1. DOMAIN t.match = 1..Len(t.match)
  BY SeqDomain DEF IsTracker
<1>2. is_active(t) => \E k \in DOMAIN t.match : t.match[k] = 1
  BY <1>1 DEF is_active, RootOK
<1>3. ASSUME NEW k \in DOMAIN t.match, t.match[k] = 1 PROVE is_active(t)
  <2>1. 1 \in t.exhausted
    BY <1>1, <1>3 DEF PathOK
  <2>2. ~t.processed
    BY <1>1, <1>3 DEF RootOK
  <2> QED BY <2>1, <2>2 DEF is_active
<1> QED BY <1>1, <1>2, <1>3

(* is_active: a tracker is active exactly while the frame its root matched *)
(* is on the stack, failed frames included.                                *)
THEOREM ActiveOnStack == Spec => []ActiveWhileRootOnStack
<1>1. AccountInv => ActiveWhileRootOnStack
  <2> SUFFICES ASSUME AccountInv, NEW i \in Trackers
               PROVE  is_active(accounts[i]) <=>
                          \E k \in DOMAIN accounts[i].match : accounts[i].match[k] = 1
    BY DEF ActiveWhileRootOnStack
  <2>1. IsTracker(accounts[i]) /\ PathOK(accounts[i]) /\ RootOK(accounts[i])
    BY DEF AccountInv, AccountAt
  <2> QED BY <2>1, ActiveRoot
<1> QED BY <1>1, AccountsFollow, PTL

-----------------------------------------------------------------------------
(* The matches of the invoker contract trackers.                           *)

(* What InvokerInv says of one tracker.                                    *)
LEMMA InvokerFacts ==
    ASSUME FrameInv, InvokerInv, NEW j \in 1..Len(invokers)
    PROVE  /\ invokers[j].made \in 2..Len(stack) /\ invokers[j].made \in Nat
           /\ Len(stack) \in Nat /\ invokers[j].made <= Len(stack)
           /\ IsTracker(invokers[j].t) /\ Len(invokers[j].t.match) = Len(stack) - invokers[j].made
           /\ stack[invokers[j].made].kind = "contract"
           /\ stack[invokers[j].made].fn[1] = invokers[j].addr
<1>1. Len(stack) \in Nat
  BY StackIsKept
<1>2. /\ invokers[j].made \in 2..Len(stack)
      /\ IsTracker(invokers[j].t) /\ Len(invokers[j].t.match) = Len(stack) - invokers[j].made
      /\ stack[invokers[j].made].kind = "contract"
      /\ stack[invokers[j].made].fn[1] = invokers[j].addr
  BY DEF InvokerInv, InvokerOK
<1> QED BY <1>1, <1>2

(* A frame is pushed: it is not matched yet.                               *)
LEMMA InvokerPathPushed ==
    ASSUME FrameInv, InvokerInv, InvokerPathInv, NEW fr, NEW bor, NEW gr, PushedStack(fr, bor, gr),
           invokers' = PushInvokers(invokers), NEW j \in 1..Len(invokers')
    PROVE  InvokerAt(invokers'[j], j, stack')
<1> DEFINE n == Len(stack)
           v == invokers[j]
           u == push_frame(v.t)
<1>1. /\ j \in 1..Len(invokers) /\ invokers'[j].made = v.made /\ invokers'[j].t = u
  BY PushInvokersShape DEF FrameInv
<1>2. v.made \in 2..n /\ v.made \in Nat /\ v.made <= n /\ IsTracker(v.t) /\ n \in Nat
  BY <1>1, InvokerFacts
<1>3. /\ Follows(v.t, v.made, n, Fns(stack), InvokerSnaps(stack, j, v.made))
      /\ v.t.match # <<>> => v.t.match[1] = 0
  BY <1>1 DEF InvokerPathInv, InvokerAt
<1>4. /\ Len(stack') = n + 1
      /\ \A p \in 1..n : /\ Fns(stack')[p] = Fns(stack)[p]
                         /\ InvokerSnaps(stack', j, v.made)[p] = InvokerSnaps(stack, j, v.made)[p]
      /\ InvokerSnaps(stack', j, v.made)[n + 1] = v.t.exhausted
  <2>1. v.made \in 0..n
    BY <1>2
  <2> QED BY <1>1, <2>1, PushedViews
<1>5. (\A p \in v.made..n : p \in 1..n) /\ (\A p \in (v.made + 1)..n : p \in 1..n)
  BY <1>2
<1> HIDE DEF n
<1>6. Follows(u, v.made, n + 1, Fns(stack'), InvokerSnaps(stack', j, v.made))
  BY <1>2, <1>3, <1>4, <1>5, FollowsPushed
<1>7. u.match[1] = 0
  <2>1. /\ Len(v.t.match) \in Nat
        /\ \A k \in 1..Len(v.t.match) : u.match[k] = v.t.match[k]
        /\ u.match[Len(v.t.match) + 1] = 0
    BY <1>2, PushTracker
  <2>2. v.t.match = <<>> => Len(v.t.match) = 0
    OBVIOUS
  <2>3. v.t.match # <<>> => 1 \in 1..Len(v.t.match)
    <3>1. v.t.match # <<>> => Len(v.t.match) # 0
      BY <1>2, SeqDomain DEF IsTracker
    <3> QED BY <2>1, <3>1
  <2> HIDE DEF u, v
  <2> QED BY <1>3, <2>1, <2>2, <2>3
<1> HIDE DEF u, v
<1> QED BY <1>1, <1>4, <1>6, <1>7 DEF InvokerAt

(* A tracker that lives on loses the last frame, after a rollback or not.  *)
LEMMA InvokerPathPopped ==
    ASSUME FrameInv, InvokerInv, InvokerPathInv, PoppedStack, NEW j \in 1..Len(invokers),
           NEW w, w.made = invokers[j].made, w.made < Len(stack'),
           \/ w.t = pop_frame(invokers[j].t)
           \/ w.t = pop_frame(rollback(invokers[j].t, Top.snap.invokers[j]))
    PROVE  InvokerAt(w, j, stack')
<1> DEFINE n == Len(stack)
           t == invokers[j].t
           b == invokers[j].made
           f == Fns(stack)
           e == InvokerSnaps(stack, j, b)
<1>1. /\ n \in Nat /\ Len(stack') = n - 1
      /\ \A p \in 1..(n - 1) : /\ Fns(stack')[p] = f[p]
                               /\ InvokerSnaps(stack', j, b)[p] = e[p]
  BY PoppedViews
<1>2. b \in 2..n /\ b \in Nat /\ b < n /\ IsTracker(t) /\ n \in 1..n /\ b < n - 1
  BY <1>1, InvokerFacts
<1>3. Follows(t, b, n, f, e) /\ (t.match # <<>> => t.match[1] = 0)
  BY DEF InvokerPathInv, InvokerAt
<1>4. e[n] = Top.snap.invokers[j]
  BY <1>2 DEF InvokerSnaps, Top
<1> HIDE DEF n, t, b, f, e
<1>5. ASSUME NEW u, w.t = u, Follows(u, b, n - 1, f, e), t.match # <<>>,
             \A k \in 1..Len(u.match) : k \in 1..Len(t.match) /\ u.match[k] = t.match[k]
      PROVE  InvokerAt(w, j, stack')
  <2>1. (\A p \in b..(n - 1) : p \in 1..(n - 1)) /\ (\A p \in (b + 1)..(n - 1) : p \in 1..(n - 1))
    BY <1>2
  <2>2. n - 1 \in Nat /\ b <= n - 1
    BY <1>2
  <2>3. Follows(u, b, n - 1, Fns(stack'), InvokerSnaps(stack', j, b))
    BY <1>1, <1>2, <1>5, <2>1, <2>2, FollowsKept
  <2>4. u.match # <<>> => u.match[1] = 0
    <3>1. IsTracker(u) /\ Len(u.match) = (n - 1) - b
      BY <1>5 DEF Follows, Aligned
    <3>2. 1 \in 1..Len(u.match)
      BY <1>2, <3>1
    <3> QED BY <1>3, <1>5, <3>2
  <2> QED BY <1>1, <1>5, <2>3, <2>4 DEF InvokerAt, b
<1>6. CASE w.t = pop_frame(t)
  <2>1. Follows(pop_frame(t), b, n - 1, f, e) /\ t.match # <<>>
    BY <1>2, <1>3, FollowsPopped
  <2>2. /\ Len(pop_frame(t).match) = Len(t.match) - 1 /\ Len(t.match) \in Nat
        /\ \A k \in 1..(Len(t.match) - 1) : pop_frame(t).match[k] = t.match[k]
    BY <1>2, <2>1, PopTracker
  <2>3. \A k \in 1..Len(pop_frame(t).match) :
            k \in 1..Len(t.match) /\ pop_frame(t).match[k] = t.match[k]
    BY <2>2
  <2> QED BY <1>5, <1>6, <2>1, <2>3
<1>7. CASE w.t = pop_frame(rollback(t, e[n]))
  <2> DEFINE u == pop_frame(rollback(t, e[n]))
  <2>0. b \in Nat /\ n \in Nat /\ b < n /\ Follows(t, b, n, f, e)
    BY <1>1, <1>2, <1>3
  <2>1. /\ Follows(u, b, n - 1, f, e) /\ t.match # <<>>
        /\ \A k \in 1..Len(u.match) : k \in 1..Len(t.match) /\ u.match[k] = t.match[k]
    BY <2>0, FollowsFailed
  <2>2. w.t = u
    BY <1>7
  <2> HIDE DEF u
  <2> QED BY <1>5, <2>1, <2>2
<1> QED BY <1>4, <1>6, <1>7 DEF t

(* extend_match changes the match of the current frame only.               *)
LEMMA ExtendedMatches ==
    ASSUME NEW t, IsTracker(t), NEW n, n \in Nodes(t), NEW u, u = extend_match(t, n)
    PROVE  /\ Len(u.match) = Len(t.match) /\ Len(t.match) \in Nat /\ IsTracker(u)
           /\ \A k \in 1..Len(t.match) : k # Len(t.match) => u.match[k] = t.match[k]
  BY ExtendTracker

(* A tracker of the calling contract matches the current frame, which is   *)
(* not that of the contract's direct callee: require_auth of the direct    *)
(* caller succeeds without a tracker.                                      *)
LEMMA InvokerPathMatched ==
    ASSUME FrameInv, InvokerInv, InvokerPathInv, Len(stack) >= 3, NEW j \in 1..Len(invokers),
           NEW m, m = find_match(invokers[j].t, Top.fn, TRUE), m # 0,
           ~IsDirectInvoker(invokers[j].addr),
           NEW w, w.made = invokers[j].made, w.t = extend_match(invokers[j].t, m)
    PROVE  InvokerAt(w, j, stack)
<1> DEFINE n == Len(stack)
           v == invokers[j]
           u == extend_match(v.t, m)
           f == Fns(stack)
<1>1. /\ v.made \in 2..n /\ v.made \in Nat /\ v.made <= n /\ IsTracker(v.t) /\ n \in Nat
      /\ Len(v.t.match) = n - v.made
      /\ stack[v.made].kind = "contract" /\ stack[v.made].fn[1] = v.addr
  BY InvokerFacts
<1>2. /\ Follows(v.t, v.made, n, f, InvokerSnaps(stack, j, v.made))
      /\ v.t.match # <<>> => v.t.match[1] = 0
  BY DEF InvokerPathInv, InvokerAt
<1>3. n \in 1..n /\ f[n] = Top.fn
  BY <1>1 DEF Fns, Top
<1>4. m = find_match(v.t, f[n], TRUE)
  BY <1>3
<1>5. v.made # n - 1
  BY <1>1 DEF IsDirectInvoker
<1> HIDE DEF f, n
<1>6. Follows(u, v.made, n, f, InvokerSnaps(stack, j, v.made))
  BY <1>1, <1>2, <1>4, FollowsMatched
<1>7. u.match # <<>> => u.match[1] = 0
  <2>1. m \in Nodes(v.t)
    BY <1>1, FoundMatch
  <2>2. /\ Len(u.match) = Len(v.t.match) /\ Len(v.t.match) \in Nat /\ IsTracker(u)
        /\ \A k \in 1..Len(v.t.match) : k # Len(v.t.match) => u.match[k] = v.t.match[k]
    <3> DEFINE t == v.t
    <3>1. IsTracker(t) /\ m \in Nodes(t) /\ u = extend_match(t, m)
      BY <1>1, <2>1
    <3> HIDE DEF t, u
    <3> QED BY <3>1, ExtendedMatches DEF t
  <2> HIDE DEF u, v
  <2>3. u.match # <<>> => Len(v.t.match) # 0
    BY <2>2, SeqDomain DEF IsTracker
  <2>4. Len(v.t.match) # 1
    BY <1>1, <1>5
  <2>5. v.t.match = <<>> => Len(v.t.match) = 0
    OBVIOUS
  <2>6. u.match # <<>> => 1 \in 1..Len(v.t.match)
    BY <2>2, <2>3
  <2> QED BY <1>2, <2>2, <2>3, <2>4, <2>5, <2>6
<1> QED BY <1>6, <1>7 DEF InvokerAt, n, f

(* The trackers that a frame's return leaves.                              *)
LEMMA ReturnedInvokers ==
    ASSUME CoreInv, Popped, NEW j \in 1..Len(invokers')
    PROVE  /\ j \in 1..Len(invokers) /\ invokers'[j].made = invokers[j].made
           /\ invokers'[j].t = pop_frame(invokers[j].t)
           /\ invokers'[j].made < Len(stack')
<1>0. FrameInv /\ InvokerInv /\ IsInvokers(invokers) /\ Len(invokers) \in Nat
  BY SeqDomain DEF CoreInv, FrameInv, IsInvokers
<1>1. invokers' = PopInvokers(invokers) /\ PoppedStack
  BY DEF Popped
<1>2. \A k \in 1..Len(invokers) : IsTracker(invokers[k].t) /\ k <= Len(invokers)
  BY <1>0 DEF InvokerInv, InvokerOK
<1>3. Len(invokers) <= Len(invokers) /\ LivesAt(invokers, stack, Len(stack))
  BY <1>0, LivesIsInvokerInv
<1>4. /\ Len(invokers') \in 0..Len(invokers)
      /\ invokers'[j].made = invokers[j].made /\ invokers'[j].t = pop_frame(invokers[j].t)
      /\ invokers'[j].made < Len(stack')
  BY <1>0, <1>1, <1>2, <1>3, LivesPopped
<1>5. j \in 1..Len(invokers)
  BY <1>0, <1>4
<1> QED BY <1>4, <1>5

(* The trackers that a frame's failure leaves.                             *)
LEMMA FailedInvokers ==
    ASSUME CoreInv, Failed, NEW j \in 1..Len(invokers')
    PROVE  /\ j \in 1..Len(invokers) /\ invokers'[j].made = invokers[j].made
           /\ invokers'[j].t = pop_frame(rollback(invokers[j].t, Top.snap.invokers[j]))
           /\ invokers'[j].made < Len(stack')
<1>0. FrameInv /\ BorrowInv /\ InvokerInv /\ Len(invokers) \in Nat
  BY SeqDomain DEF CoreInv, FrameInv, IsInvokers
<1>1. PoppedStack /\ Len(stack) >= 1 /\ invokers' = PopInvokers(RollbackInvokers(Top.snap))
  BY <1>0, StackIsKept DEF Failed
<1> DEFINE r == RollbackInvokers(Top.snap)
<1>2. r = RollbackInvokers(Top.snap) /\ invokers' = PopInvokers(r)
  BY <1>1
<1> HIDE DEF r
<1>3. /\ IsInvokers(r) /\ Len(r) <= Len(invokers) /\ Len(r) \in Nat
      /\ \A k \in 1..Len(r) :
            /\ r[k].addr = invokers[k].addr /\ r[k].made = invokers[k].made
            /\ r[k].t = rollback(invokers[k].t, Top.snap.invokers[k])
            /\ IsTracker(r[k].t) /\ r[k].t.match = invokers[k].t.match
      /\ \A k \in 1..Len(invokers) : invokers[k].made < Len(stack) => k <= Len(r)
  BY <1>0, <1>1, <1>2, LivesRolledBack
<1>4. /\ Len(invokers') \in 0..Len(r)
      /\ invokers'[j].made = r[j].made /\ invokers'[j].t = pop_frame(r[j].t)
      /\ invokers'[j].made < Len(stack')
  BY <1>0, <1>1, <1>2, <1>3, LivesIsInvokerInv, LivesPopped
<1>5. j \in 1..Len(r) /\ j \in 1..Len(invokers)
  BY <1>0, <1>3, <1>4
<1> QED BY <1>3, <1>4, <1>5

(* The matches of the invoker contract trackers stay paths.                *)
LEMMA InvokerPathStep ==
    ASSUME CoreInv, InvokerPathInv, Kinds, CoreInv'
    PROVE  InvokerPathInv'
<1>0. FrameInv /\ BorrowInv /\ InvokerInv /\ FrameInv' /\ InvokerInv' /\ IsInvokers(invokers)
      /\ Len(invokers) \in Nat
  BY SeqDomain DEF CoreInv, FrameInv, IsInvokers
<1> DEFINE G(j) == InvokerAt(invokers'[j], j, stack')
<1> SUFFICES ASSUME NEW j \in 1..Len(invokers') PROVE G(j)
  BY DEF InvokerPathInv
<1>1. ASSUME KeptStack(stack'), InvokerAt(invokers'[j], j, stack) PROVE G(j)
  <2>1. /\ Fns(stack') = Fns(stack) /\ Len(stack') = Len(stack)
        /\ \A m : InvokerSnaps(stack', j, m) = InvokerSnaps(stack, j, m)
    BY <1>1, KeptViews
  <2> QED BY <1>1, <2>1 DEF InvokerAt
<1>2. CASE Quiet
  BY <1>1, <1>2 DEF Quiet, InvokerPathInv
<1>3. CASE Pushed
  BY <1>0, <1>3, InvokerPathPushed DEF Pushed
<1>4. CASE InvokerAdded
  <2>1. PICK tree : /\ IsTree(tree)
                    /\ invokers' = Append(invokers, [addr |-> Top.fn[1], made |-> Len(stack),
                                                     t |-> new(tree)])
    BY <1>4 DEF InvokerAdded
  <2> DEFINE x == [addr |-> Top.fn[1], made |-> Len(stack), t |-> new(tree)]
  <2>2. /\ x.made = Len(stack) /\ IsTracker(x.t) /\ PathOK(x.t) /\ Len(x.t.match) = 0
        /\ x.t.match = <<>>
    BY <2>1, NewTracker
  <2>3. /\ Len(invokers') = Len(invokers) + 1
        /\ \A k \in 1..Len(invokers) : invokers'[k] = invokers[k]
        /\ invokers'[Len(invokers) + 1] = x
    BY <1>0, <2>1, SeqPush DEF IsInvokers
  <2> HIDE DEF x
  <2>4. KeptStack(stack') /\ Len(stack) \in Nat /\ Len(stack) >= 1 /\ stack' = stack
    BY <1>0, <1>4, StackIsKept DEF InvokerAdded
  <2>5. CASE j \in 1..Len(invokers)
    BY <1>1, <2>3, <2>4, <2>5 DEF InvokerPathInv
  <2>6. CASE j = Len(invokers) + 1
    <3> DEFINE n == Len(stack)
               e == InvokerSnaps(stack, j, n)
    <3>1. \A p \in n..n : p = n
      BY <2>4
    <3>2. e[n] = {}
      <4>1. n \in 1..n /\ ~(n < n)
        BY <2>4
      <4> QED BY <4>1 DEF InvokerSnaps
    <3> HIDE DEF n, e
    <3>3. 1..Len(x.t.match) = {} /\ Len(x.t.match) = n - n /\ ~(n < n)
      BY <2>2, <2>4 DEF n
    <3>4. Follows(x.t, n, n, Fns(stack), e)
      BY <2>2, <3>1, <3>2, <3>3 DEF Follows, Aligned, SnapshotsFit
    <3>5. InvokerAt(x, j, stack)
      BY <2>2, <3>4 DEF InvokerAt, n, e
    <3> QED BY <1>1, <2>3, <2>4, <2>6, <3>5
  <2> QED BY <1>0, <2>3, <2>5, <2>6
<1>5. CASE InvokerMatched
  <2>1. PICK i, m :
            /\ i \in DOMAIN invokers
            /\ ~IsDirectInvoker(invokers[i].addr)
            /\ m = find_match(invokers[i].t, Top.fn, TRUE) /\ m # 0
            /\ invokers' = [invokers EXCEPT ![i].t = extend_match(invokers[i].t, m)]
    BY <1>5 DEF InvokerMatched
  <2>2. /\ KeptStack(stack') /\ Len(stack) >= 3 /\ i \in 1..Len(invokers)
    BY <1>0, <1>5, <2>1, SeqDomain DEF InvokerMatched, IsInvokers
  <2> DEFINE u == extend_match(invokers[i].t, m)
  <2>3. /\ Len(invokers') = Len(invokers)
        /\ invokers'[j].made = invokers[j].made
        /\ j = i => invokers'[j].t = u
        /\ j # i => invokers'[j].t = invokers[j].t
    <3> HIDE DEF u
    <3>1. invokers' = [invokers EXCEPT ![i].t = u]
      BY <2>1 DEF u
    <3>2. Len(invokers') = Len(invokers)
      BY <1>0, <3>1, MatchedInvoker
    <3> QED BY <1>0, <3>1, <3>2, MatchedInvoker
  <2>4. CASE j = i
    BY <1>0, <1>1, <2>1, <2>2, <2>3, <2>4, InvokerPathMatched
  <2>5. CASE j # i
    <3>1. InvokerAt(invokers[j], j, stack)
      BY <2>3 DEF InvokerPathInv
    <3>2. InvokerAt(invokers'[j], j, stack)
      BY <2>3, <2>5, <3>1 DEF InvokerAt
    <3> QED BY <1>1, <2>2, <3>2
  <2> QED BY <2>4, <2>5
<1>6. ASSUME NEW i, NEW m, AccountMatched(i, m) PROVE G(j)
  BY <1>1, <1>6 DEF AccountMatched, InvokerPathInv
<1>7. ASSUME NEW i, NEW m, CheckStarted(i, m) PROVE G(j)
  BY <1>0, <1>7, InvokerPathPushed DEF CheckStarted
<1>8. CASE Popped
  <2>1. PoppedStack
    BY <1>8 DEF Popped
  <2> QED BY <1>0, <1>8, <2>1, ReturnedInvokers, InvokerPathPopped
<1>9. CASE Failed
  <2>1. PoppedStack
    BY <1>9 DEF Failed
  <2> QED BY <1>0, <1>9, <2>1, FailedInvokers, InvokerPathPopped
<1>10. CASE FailedBadly
  <2>1. stack # <<>> /\ RollbackFails(Top.snap)
    BY <1>10 DEF FailedBadly, PoppedStack
  <2> QED BY <1>0, <2>1, RollbackSucceeds
<1>11. CASE Ended
  <2>1. Len(stack') = 0
    <3>1. stack' = <<>>
      BY <1>11 DEF Ended
    <3> QED BY <3>1
  <2>2. invokers'[j].made \in 2..Len(stack')
    BY <1>0 DEF InvokerInv, InvokerOK
  <2> QED BY <2>1, <2>2
<1> QED BY <1>2, <1>3, <1>4, <1>5, <1>6, <1>7, <1>8, <1>9, <1>10, <1>11 DEF Kinds

(* The invoker contract trackers follow the frames above their contract's. *)
THEOREM InvokerPathsFollow == Spec => []InvokerPathInv
<1>1. Init => InvokerPathInv
  <2> SUFFICES ASSUME Init PROVE 1..Len(invokers) = {}
    BY DEF InvokerPathInv
  <2>1. invokers = <<>>
    BY DEF Init
  <2> QED BY <2>1, NullSeq
<1>2. CoreInv /\ CoreInv' /\ InvokerPathInv /\ [Next]_vars => InvokerPathInv'
  BY Steps, InvokerPathStep DEF CoreInv
<1> QED BY <1>1, <1>2, ManagerConsistent, PTL DEF Spec

(* pop_frame: the trackers of invoker contracts form a stack; each follows *)
(* the frames above the one that made it, is a path of its tree, and never *)
(* matches the direct callee's frame.                                      *)
THEOREM InvokersAreAStack == Spec => []InvokersFormStack
<1>1. CoreInv /\ InvokerPathInv => InvokersFormStack
  <2> SUFFICES ASSUME CoreInv, InvokerPathInv PROVE InvokersFormStack
    OBVIOUS
  <2>1. FrameInv /\ InvokerInv /\ DOMAIN invokers = 1..Len(invokers)
    BY SeqDomain DEF CoreInv, FrameInv, IsInvokers
  <2>2. \A j, k \in DOMAIN invokers : j < k => invokers[j].made <= invokers[k].made
    BY <2>1 DEF InvokerInv
  <2>3. ASSUME NEW j \in DOMAIN invokers
        PROVE  LET v == invokers[j] IN
               /\ Len(v.t.match) = Len(stack) - v.made
               /\ stack[v.made].kind = "contract" /\ stack[v.made].fn[1] = v.addr
               /\ IsPath(v.t, v.made)
               /\ v.t.match # <<>> => v.t.match[1] = 0
    <3> DEFINE v == invokers[j]
    <3>1. /\ v.made \in Nat /\ Len(stack) \in Nat /\ Len(v.t.match) = Len(stack) - v.made
          /\ stack[v.made].kind = "contract" /\ stack[v.made].fn[1] = v.addr
      BY <2>1, InvokerFacts
    <3>2. /\ Follows(v.t, v.made, Len(stack), Fns(stack), InvokerSnaps(stack, j, v.made))
          /\ v.t.match # <<>> => v.t.match[1] = 0
      BY <2>1 DEF InvokerPathInv, InvokerAt
    <3> HIDE DEF v
    <3>3. Len(stack) <= Len(stack)
      BY <3>1
    <3>4. IsPath(v.t, v.made)
      BY <3>1, <3>2, <3>3, FollowsIsPath
    <3> QED BY <3>1, <3>2, <3>4 DEF v
  <2> QED BY <2>2, <2>3 DEF InvokersFormStack
<1> QED BY <1>1, ManagerConsistent, InvokerPathsFollow, PTL

(* pop_frame: a tracker of an invoker contract exists for the next call of *)
(* its contract: no tracker is left that the frame a pop returns to made.  *)
THEOREM InvokersLiveForOneCall == Spec => InvokerLivesForOneCall
<1>1. ASSUME CoreInv, CoreInv', Kinds, Len(stack') < Len(stack)
      PROVE  \A j \in DOMAIN invokers' : invokers'[j].made < Len(stack')
  <2>0. /\ FrameInv /\ BorrowInv /\ InvokerInv /\ InvokerInv' /\ Len(stack) \in Nat
        /\ DOMAIN invokers' = 1..Len(invokers')
    BY <1>1, StackIsKept, SeqDomain DEF CoreInv, FrameInv, IsInvokers
  <2>1. CASE KeptStack(stack')
    BY <1>1, <2>0, <2>1 DEF KeptStack
  <2>2. ASSUME NEW fr, NEW bor, NEW gr, PushedStack(fr, bor, gr) PROVE FALSE
    BY <1>1, <2>0, <2>2 DEF PushedStack
  <2>3. CASE Popped
    BY <1>1, <2>0, <2>3, ReturnedInvokers
  <2>4. CASE Failed
    BY <1>1, <2>0, <2>4, FailedInvokers
  <2>5. CASE FailedBadly
    <3>1. stack # <<>> /\ RollbackFails(Top.snap)
      BY <2>5 DEF FailedBadly, PoppedStack
    <3> QED BY <2>0, <3>1, RollbackSucceeds
  <2>6. CASE Ended
    <3>1. Len(stack') = 0
      <4>1. stack' = <<>>
        BY <2>6 DEF Ended
      <4> QED BY <4>1
    <3>2. \A j \in 1..Len(invokers') : invokers'[j].made \in 2..Len(stack')
      BY <2>0 DEF InvokerInv, InvokerOK
    <3> QED BY <2>0, <3>1, <3>2
  <2>7. CASE InvokerAdded
    BY <1>1, <2>0, <2>7 DEF InvokerAdded
  <2> QED BY <1>1, <2>1, <2>2, <2>3, <2>4, <2>5, <2>6, <2>7
          DEF Kinds, Quiet, Pushed, InvokerMatched, AccountMatched, CheckStarted
<1>2. CoreInv /\ CoreInv' /\ [Next]_vars =>
          [err' # "InternalError" /\ Len(stack') < Len(stack) =>
               \A j \in DOMAIN invokers' : invokers'[j].made < Len(stack')]_vars
  BY <1>1, Steps DEF CoreInv
<1> QED BY <1>2, ManagerConsistent, PTL DEF Spec, InvokerLivesForOneCall

-----------------------------------------------------------------------------
(* Internal errors.                                                        *)

(* Some tracker was made by the current frame for its own function.        *)
OwnEntry ==
    \E j \in DOMAIN invokers : invokers[j].made = Len(stack) /\ invokers[j].t.tree.fns[1] = Top.fn

(* What a tracker that follows no frame yet can match is its root.         *)
LEMMA FoundRoot ==
    ASSUME NEW t, IsTracker(t), NEW fn, NEW allow, NEW n, n = find_match(t, fn, allow), n # 0,
           Len(t.match) = 0
    PROVE  t.tree.fns[n] = fn /\ n = 1
<1>2. t.tree.fns[n] = fn
  BY FoundMatch
<1>3. n = 1 \/ \E l \in 1..Len(t.match) : LastBelow(t.match, Len(t.match) + 1, l)
  BY FoundMatch
<1>4. 1..Len(t.match) = {}
  OBVIOUS
<1> QED BY <1>2, <1>3, <1>4

(* require_auth ends in an internal error only when a contract's own entry *)
(* matches before a sub-contract call was made: no walk of a match stack   *)
(* fails.                                                                  *)
LEMMA RequireAuthErrors ==
    ASSUME CoreInv, AccountInv, InvokerPathInv, NEW a, NEW st, Running,
           require_auth(a, Top.fn, st), err' = "InternalError"
    PROVE  OwnEntry
<1>0. /\ FrameInv /\ InvokerInv /\ err = "Ok" /\ DOMAIN invokers = 1..Len(invokers)
      /\ Len(invokers) \in Nat
  BY SeqDomain DEF CoreInv, FrameInv, IsInvokers, Running
<1>1. ~WalkFails(a)
  <2>1. ASSUME NEW j \in DOMAIN invokers PROVE ~FailsWalk(invokers[j].t)
    <3>1. IsTracker(invokers[j].t) /\ PathOK(invokers[j].t)
      BY <1>0 DEF InvokerPathInv, InvokerAt, Follows, Aligned
    <3> QED BY <3>1, PathNotBad DEF FailsWalk
  <2>2. ASSUME NEW i \in Trackers PROVE ~FailsWalk(accounts[i])
    <3>1. IsTracker(accounts[i]) /\ PathOK(accounts[i])
      BY DEF AccountInv, AccountAt
    <3> QED BY <3>1, PathNotBad DEF FailsWalk
  <2> QED BY <2>1, <2>2 DEF WalkFails
<1>2. ~AuthorizedByAccount(a, Top.fn, st)
  <2>1. \A i : NonceError(i) # "InternalError"
    BY DEF NonceError
  <2> QED BY <1>0, <2>1 DEF AuthorizedByAccount, Authenticated, Verify, CheckAuthRefused,
                            StartCheckAuth
<1>3. AuthorizedByInvoker(a, Top.fn, st)
  BY <1>0, <1>1, <1>2 DEF require_auth, Unauthorized
<1> DEFINE S == InvokerMatches(a, Top.fn)
           j == First(S)
           t == invokers[j].t
           n == find_match(t, Top.fn, TRUE)
<1>4. S # {} /\ Underflows(t)
  BY <1>3 DEF AuthorizedByInvoker
<1>5. j \in S
  <2>1. S \subseteq DOMAIN invokers
    BY DEF InvokerMatches
  <2> HIDE DEF S
  <2>2. S \subseteq Nat
    BY <1>0, <2>1
  <2> QED BY <1>4, <2>2, Least DEF First
<1>6. j \in DOMAIN invokers /\ n # 0
  BY <1>5 DEF InvokerMatches
<1> HIDE DEF j, S
<1>7. /\ IsTracker(t) /\ Len(t.match) = Len(stack) - invokers[j].made
      /\ invokers[j].made \in Nat /\ Len(stack) \in Nat
  BY <1>0, <1>6, InvokerFacts
<1>8. Len(t.match) = 0
  <2>1. t.match = <<>>
    BY <1>4 DEF Underflows
  <2> QED BY <2>1
<1>9. t.tree.fns[n] = Top.fn /\ n = 1
  <2> DEFINE allow == TRUE
  <2>1. n = find_match(t, Top.fn, allow) /\ n # 0
    BY <1>6
  <2> HIDE DEF t, n, allow
  <2> QED BY <1>7, <1>8, <2>1, FoundRoot
<1>10. invokers[j].made = Len(stack)
  BY <1>7, <1>8
<1> QED BY <1>6, <1>9, <1>10 DEF OwnEntry

(* The manager's internal errors are unreachable, but for the contract     *)
(* that authorizes its own running function and then requires it.          *)
THEOREM InternalErrorsOnlyOwn == Spec => InternalErrorsAreOwnEntries
<1>1. ASSUME CoreInv, AccountInv, InvokerPathInv, Next, err # "InternalError",
             err' = "InternalError"
      PROVE  OwnEntry
  <2>0. FrameInv /\ BorrowInv /\ InvokerInv
    BY <1>1 DEF CoreInv
  <2>1. ASSUME NEW a, RequireAuth(a) PROVE OwnEntry
    <3>1. Running /\ require_auth(a, Top.fn, stack)
      BY <2>1 DEF RequireAuth, InContract
    <3> QED BY <1>1, <3>1, RequireAuthErrors
  <2>2. CASE CreateAuth
    <3>1. Running /\ stack # <<>> /\ Top.kind = "create"
          /\ require_auth(Top.deployer, Create, Stepped(1))
      BY <2>2 DEF CreateAuth, Running
    <3>2. Top.fn = Create
      BY <2>0, <3>1, TopFrame DEF FrameOK
    <3> QED BY <1>1, <3>1, <3>2, RequireAuthErrors
  <2>3. CASE PopFailed
    <3>1. stack # <<>>
      BY <2>3 DEF PopFailed
    <3>2. ~RollbackFails(Top.snap)
      BY <2>0, <3>1, RollbackSucceeds
    <3>3. err' = AfterFailure(Top)
      BY <2>3, <3>2 DEF PopFailed
    <3> QED BY <1>1, <3>3 DEF AfterFailure
  <2>4. ASSUME NEW fn, NEW try, NEW st, PushContract(fn, try, st) PROVE FALSE
    BY <1>1, <2>4 DEF PushContract
  <2>5. ASSUME NEW c, NEW try, Call(c, try) PROVE FALSE
    BY <2>4, <2>5 DEF Call
  <2>6. ASSUME NEW c, CallConstructor(c) PROVE FALSE
    BY <2>4, <2>6 DEF CallConstructor
  <2>7. ASSUME NEW a, CreateContract(a) PROVE FALSE
    BY <1>1, <2>7 DEF CreateContract
  <2>8. ASSUME NEW t, AuthorizeAsCurrContract(t) PROVE FALSE
    BY <1>1, <2>8 DEF AuthorizeAsCurrContract, to_authorized_invocation
  <2>9. CASE PopOk
    <3>1. \A i : NonceError(i) # "InternalError"
      BY DEF NonceError
    <3> QED BY <1>1, <2>9, <3>1 DEF PopOk, Verify
  <2>10. CASE GuestError \/ PopCreate \/ PopHost \/ Over
    BY <1>1, <2>10 DEF GuestError, PopCreate, PopHost, Over, vars
  <2> QED BY <1>1, <2>1, <2>2, <2>3, <2>5, <2>6, <2>7, <2>8, <2>9, <2>10 DEF Next
<1>2. CoreInv /\ AccountInv /\ InvokerPathInv /\ [Next]_vars =>
          [err # "InternalError" /\ err' = "InternalError" =>
               \E j \in DOMAIN invokers : /\ invokers[j].made = Len(stack)
                                          /\ invokers[j].t.tree.fns[1] = Top.fn]_vars
  BY <1>1 DEF OwnEntry
<1> QED BY <1>2, ManagerConsistent, AccountsFollow, InvokerPathsFollow, PTL
        DEF Spec, InternalErrorsAreOwnEntries

-----------------------------------------------------------------------------
(* What is exhausted, and granted.                                         *)

(* Frames come and go without a node being exhausted.                      *)
LEMMA FramesExhaustNothing ==
    ASSUME NEW t, IsTracker(t), NEW ex
    PROVE  /\ push_frame(t).exhausted = t.exhausted
           /\ pop_frame(t).exhausted = t.exhausted
           /\ rollback(t, ex).exhausted = ex
           /\ pop_frame(rollback(t, ex)).exhausted = ex
<1>1. push_frame(t).exhausted = t.exhausted
  BY DEF push_frame, IsTracker
<1>2. \A u : IsTracker(u) => pop_frame(u).exhausted = u.exhausted
  BY DEF pop_frame, IsTracker
<1> DEFINE r == rollback(t, ex)
<1>3. r = rollback(t, ex)
  OBVIOUS
<1> HIDE DEF r
<1>4. IsTracker(r) /\ r.exhausted = ex
  BY <1>3, RollbackTracker
<1> QED BY <1>1, <1>2, <1>3, <1>4

(* The steps that exhaust nothing.                                         *)
LEMMA NothingExhausted ==
    ASSUME CoreInv, AccountInv, Trackers' = Trackers,
           Quiet \/ Pushed \/ InvokerAdded \/ InvokerMatched \/ Popped
    PROVE  Exhausted' = Exhausted /\ grants' = grants
<1>1. \A i \in Trackers : IsTracker(accounts[i])
  BY DEF AccountInv, AccountAt
<1>2. CASE accounts' = accounts
  BY <1>2 DEF Quiet, InvokerAdded, InvokerMatched, Pushed, Popped, Exhausted
<1>3. CASE Pushed
  <2>1. \A i \in Trackers : accounts'[i].exhausted = accounts[i].exhausted
    <3> TAKE i \in Trackers
    <3>1. accounts'[i] = accounts[i] \/ accounts'[i] = push_frame(accounts[i])
      BY <1>3 DEF Pushed, PushAccounts
    <3> QED BY <1>1, <3>1, FramesExhaustNothing
  <2> QED BY <1>3, <2>1 DEF Pushed, Exhausted
<1>4. CASE Popped
  <2>1. \A i \in Trackers : accounts'[i].exhausted = accounts[i].exhausted
    <3> TAKE i \in Trackers
    <3>1. accounts'[i] = accounts[i] \/ accounts'[i] = pop_frame(accounts[i])
      BY <1>4 DEF Popped, PopAccounts
    <3> QED BY <1>1, <3>1, FramesExhaustNothing
  <2> QED BY <1>4, <2>1 DEF Popped, Exhausted
<1> QED BY <1>2, <1>3, <1>4 DEF Quiet, InvokerAdded, InvokerMatched

(* A match exhausts its node.                                              *)
LEMMA MatchExhausts ==
    ASSUME CoreInv, AccountInv, Trackers' = Trackers, NEW i, NEW m,
           AccountMatched(i, m) \/ CheckStarted(i, m)
    PROVE  /\ i \in Trackers /\ i \notin borrowed /\ m \notin accounts[i].exhausted
           /\ m \in DOMAIN Entries[i].tree.fns
           /\ Exhausted' = [Exhausted EXCEPT ![i] = @ \union {m}]
           /\ grants' = Granted(i, m)
<1>1. Found(i, m) /\ grants' = Granted(i, m)
  BY DEF AccountMatched, CheckStarted
<1> DEFINE u == extend_match(accounts[i], m)
<1>2. /\ i \in Trackers /\ i \notin borrowed /\ m \in Nodes(accounts[i]) /\ IsTracker(u)
      /\ m \notin accounts[i].exhausted /\ u.exhausted = accounts[i].exhausted \union {m}
  BY <1>1, AccountExtended DEF CoreInv, Found
<1>3. m \in DOMAIN Entries[i].tree.fns
  BY <1>2 DEF Nodes, AccountInv, AccountAt
<1>4. \A k \in Trackers : accounts'[k].exhausted =
          IF k = i THEN accounts[k].exhausted \union {m} ELSE accounts[k].exhausted
  <2> TAKE k \in Trackers
  <2> DEFINE x == IF k = i THEN u ELSE accounts[k]
  <2>1. Extended(i, m)[k] = x
    BY DEF Extended, CoreInv, FrameInv
  <2>2. IsTracker(x)
    BY <1>2 DEF AccountInv, AccountAt
  <2>3. x.exhausted = IF k = i THEN accounts[k].exhausted \union {m} ELSE accounts[k].exhausted
    BY <1>2
  <2> HIDE DEF x
  <2>4. accounts'[k] = x \/ accounts'[k] = push_frame(x)
    BY <2>1 DEF AccountMatched, CheckStarted, PushAccounts
  <2> QED BY <2>2, <2>3, <2>4, FramesExhaustNothing
<1> QED BY <1>1, <1>2, <1>3, <1>4 DEF Exhausted

(* A failure sets the trackers back to the frame's snapshot, but for the   *)
(* borrowed ones.                                                          *)
LEMMA FailureRestores ==
    ASSUME CoreInv, AccountInv, Trackers' = Trackers, Failed \/ (Ended /\ err # "Ok")
    PROVE  /\ Len(stack) \in 1..Len(stack) /\ Top = stack[Len(stack)]
           /\ Top.snap.borrowed = borrowed
           /\ \A i \in Trackers : Exhausted'[i] = IF i \in borrowed THEN Exhausted[i]
                                                  ELSE Top.snap.exhausted[i]
           /\ DOMAIN Exhausted' = Trackers
           /\ RestoredRest(Top.snap)
<1>1. FrameInv /\ BorrowInv /\ stack # <<>>
  BY DEF CoreInv, Failed, Ended, PoppedStack
<1>2. Len(stack) \in 1..Len(stack) /\ Top = stack[Len(stack)]
  BY <1>1, TopFrame
<1>3. Top.snap.borrowed = borrowed
  BY <1>1, <1>2 DEF BorrowInv
<1>4. ASSUME NEW i \in Trackers
      PROVE  accounts'[i].exhausted = IF i \in borrowed THEN accounts[i].exhausted
                                      ELSE Top.snap.exhausted[i]
  <2> DEFINE r == rollback(accounts[i], Top.snap.exhausted[i])
  <2>1. IsTracker(accounts[i])
    BY DEF AccountInv, AccountAt
  <2>2. accounts'[i] = IF i \in borrowed THEN accounts[i]
                       ELSE IF Failed THEN pop_frame(r) ELSE r
    BY <1>3 DEF Failed, Ended, PopAccounts, RollbackAccounts
  <2> QED BY <2>1, <2>2, FramesExhaustNothing
<1>5. RestoredRest(Top.snap)
  BY DEF Failed, Ended
<1> QED BY <1>2, <1>3, <1>4, <1>5 DEF Exhausted

(* What was borrowed at a snapshot still is.                               *)
LEMMA SnapshotBorrows ==
    ASSUME CoreInv, NEW p \in 1..Len(stack)
    PROVE  stack[p].snap.borrowed \subseteq borrowed
<1>1. \A q \in 1..p : q \in 1..Len(stack)
  BY StackIsKept DEF CoreInv
<1> QED BY <1>1 DEF CoreInv, BorrowInv, Lent

(* The grants of a snapshot are about trackers it knows, or borrowed ones. *)
LEMMA GrantsStay ==
    ASSUME NEW es, NEW ex, NEW dx, NEW s, \A i \in DOMAIN es : i \in s.borrowed => dx[i] = ex[i]
    PROVE  ExhaustedAt(es, dx, s) = ExhaustedAt(es, ex, s)
  BY DEF ExhaustedAt

(* Node m of tracker i is granted once more, and exhausted.                *)
OneMoreGrant(g, h, i, m) == h = [g EXCEPT ![i][m] = @ + 1]
OneMoreNode(ex, dx, i, m) == dx = [ex EXCEPT ![i] = @ \union {m}]

(* One more grant for one more exhausted node.                             *)
LEMMA GrantMatched ==
    ASSUME NEW es, NEW ex, NEW i \in DOMAIN es, NEW m \in DOMAIN es[i].tree.fns,
           DOMAIN ex = DOMAIN es, m \notin ex[i], NEW g, g = GrantsOf(es, ex),
           NEW dx, OneMoreNode(ex, dx, i, m), NEW h, OneMoreGrant(g, h, i, m)
    PROVE  h = GrantsOf(es, dx)
<1>0. dx = [ex EXCEPT ![i] = @ \union {m}] /\ h = [g EXCEPT ![i][m] = @ + 1]
  BY DEF OneMoreNode, OneMoreGrant
<1>1. g[i][m] + 1 = 1
  BY DEF GrantsOf
<1>2. \A k \in DOMAIN es : h[k] = GrantsOf(es, dx)[k]
  <2> TAKE k \in DOMAIN es
  <2>1. CASE k # i
    BY <1>0, <2>1 DEF GrantsOf
  <2>2. CASE k = i
    <3>1. h[i] = [g[i] EXCEPT ![m] = 1]
      BY <1>0, <1>1 DEF GrantsOf
    <3>2. DOMAIN g[i] = DOMAIN es[i].tree.fns
      BY DEF GrantsOf
    <3>3. \A n \in DOMAIN es[i].tree.fns : h[i][n] = GrantsOf(es, dx)[i][n]
      BY <1>0, <3>1, <3>2 DEF GrantsOf
    <3>4. h[i] = [n \in DOMAIN es[i].tree.fns |-> h[i][n]]
      BY <3>1, <3>2
    <3>5. GrantsOf(es, dx)[i] = [n \in DOMAIN es[i].tree.fns |-> GrantsOf(es, dx)[i][n]]
      BY DEF GrantsOf
    <3> QED BY <2>2, <3>3, <3>4, <3>5
  <2> QED BY <2>1, <2>2
<1>3. h = [k \in DOMAIN es |-> h[k]] /\ GrantsOf(es, dx) = [k \in DOMAIN es |-> GrantsOf(es, dx)[k]]
  BY <1>0 DEF GrantsOf
<1> QED BY <1>2, <1>3

(* The grants and the exhausted nodes stay the same thing.                 *)
LEMMA GrantStep ==
    ASSUME CoreInv, AccountInv, GrantInv, Kinds, Trackers' = Trackers, Entries' = Entries
    PROVE  GrantInv'
<1> DEFINE es == Entries
           n == Len(stack)
           SnapOK(s, ex) == s.grants = GrantsOf(es, ExhaustedAt(es, ex, s))
           G == /\ grants' = GrantsOf(es, Exhausted')
                /\ \A p \in 1..Len(stack') : SnapOK(stack'[p].snap, Exhausted')
<1> SUFFICES G
  BY DEF GrantInv
<1>0. /\ n \in Nat /\ DOMAIN es = Trackers /\ DOMAIN Exhausted = Trackers
      /\ grants = GrantsOf(es, Exhausted)
      /\ \A p \in 1..n : SnapOK(stack[p].snap, Exhausted)
  BY StackIsKept DEF CoreInv, GrantInv, Trackers, Exhausted
<1>1. ASSUME NEW ex, \A i \in borrowed : ex[i] = Exhausted[i]
      PROVE  \A p \in 1..n : SnapOK(stack[p].snap, ex)
  <2> TAKE p \in 1..n
  <2>1. \A i \in DOMAIN es : i \in stack[p].snap.borrowed => ex[i] = Exhausted[i]
    BY <1>1, SnapshotBorrows
  <2>2. ExhaustedAt(es, ex, stack[p].snap) = ExhaustedAt(es, Exhausted, stack[p].snap)
    BY <2>1, GrantsStay
  <2> QED BY <1>0, <2>2
<1>2. ASSUME NEW fr, NEW bor, NEW ex, PushedStack(fr, bor, grants'),
             \A i \in borrowed : ex[i] = Exhausted[i], ex = Exhausted',
             grants' = GrantsOf(es, ex),
             \A i \in Trackers : i \notin bor => ex[i] = Exhausted[i]
      PROVE  G
  <2>1. /\ Len(stack') = n + 1 /\ \A p \in 1..n : stack'[p].snap = stack[p].snap
        /\ stack'[n + 1] = fr /\ fr.snap.grants = grants' /\ fr.snap.borrowed = bor
        /\ fr.snap.exhausted = Exhausted
    BY <1>2 DEF PushedStack, KeptFrames, SameFrame, Exhausted
  <2>2. ExhaustedAt(es, ex, fr.snap) = [i \in DOMAIN es |-> ex[i]]
    BY <1>0, <1>2, <2>1 DEF ExhaustedAt
  <2>3. GrantsOf(es, [i \in DOMAIN es |-> ex[i]]) = GrantsOf(es, ex)
    BY DEF GrantsOf
  <2>4. SnapOK(fr.snap, ex)
    BY <1>2, <2>1, <2>2, <2>3
  <2>5. \A p \in 1..n : SnapOK(stack[p].snap, ex)
    BY <1>1, <1>2
  <2>6. \A p \in 1..Len(stack') : p \in 1..n \/ p = n + 1
    BY <1>0, <2>1
  <2> QED BY <1>2, <2>1, <2>4, <2>5, <2>6
<1>3. ASSUME KeptStack(stack') PROVE n = Len(stack') /\ \A p \in 1..n : stack'[p].snap = stack[p].snap
  BY <1>3 DEF KeptStack, KeptFrames, SameFrame
<1>4. ASSUME PoppedStack
      PROVE  \A p \in 1..Len(stack') : p \in 1..n /\ stack'[p].snap = stack[p].snap
  <2>1. Len(stack') = n - 1 /\ \A p \in 1..(n - 1) : stack'[p] = stack[p] /\ p \in 1..n
    BY <1>0, <1>4 DEF PoppedStack
  <2> QED BY <2>1
<1>5. CASE Quiet \/ InvokerAdded \/ InvokerMatched
  <2>1. Exhausted' = Exhausted /\ grants' = grants
    BY <1>5, NothingExhausted
  <2>2. KeptStack(stack')
    BY <1>5, StackIsKept DEF CoreInv, Quiet, InvokerAdded, InvokerMatched
  <2> QED BY <1>0, <1>3, <2>1, <2>2
<1>6. CASE Pushed
  <2>1. Exhausted' = Exhausted /\ grants' = grants
    BY <1>6, NothingExhausted
  <2>2. PICK fr : PushedStack(fr, borrowed, grants)
    BY <1>6 DEF Pushed
  <2> QED BY <1>0, <1>2, <2>1, <2>2
<1>7. CASE Popped
  <2>1. Exhausted' = Exhausted /\ grants' = grants
    BY <1>7, NothingExhausted
  <2>2. PoppedStack
    BY <1>7 DEF Popped
  <2> QED BY <1>0, <1>4, <2>1, <2>2
<1>8. ASSUME NEW i, NEW m, AccountMatched(i, m) \/ CheckStarted(i, m) PROVE G
  <2>1. /\ i \in Trackers /\ i \notin borrowed /\ m \notin Exhausted[i]
        /\ m \in DOMAIN es[i].tree.fns
        /\ Exhausted' = [Exhausted EXCEPT ![i] = @ \union {m}]
        /\ grants' = Granted(i, m)
    BY <1>8, MatchExhausts DEF Exhausted
  <2>2. grants' = GrantsOf(es, Exhausted')
    <3> DEFINE ex == Exhausted
    <3>1. /\ i \in DOMAIN es /\ m \in DOMAIN es[i].tree.fns /\ DOMAIN ex = DOMAIN es
          /\ m \notin ex[i] /\ grants = GrantsOf(es, ex)
      BY <1>0, <2>1
    <3>2. OneMoreGrant(grants, grants', i, m) /\ OneMoreNode(ex, Exhausted', i, m)
      BY <2>1 DEF Granted, OneMoreGrant, OneMoreNode
    <3> HIDE DEF es, ex
    <3> QED BY <3>1, <3>2, GrantMatched
  <2>3. \A k \in Trackers : k # i => Exhausted'[k] = Exhausted[k]
    BY <1>0, <2>1
  <2>4. \A k \in borrowed : Exhausted'[k] = Exhausted[k]
    BY <2>1, <2>3 DEF CoreInv, FrameInv
  <2>5. CASE AccountMatched(i, m)
    <3>1. KeptStack(stack')
      BY <2>5 DEF AccountMatched
    <3> QED BY <1>1, <1>3, <2>2, <2>4, <3>1
  <2>6. CASE CheckStarted(i, m)
    <3>1. PICK fr : PushedStack(fr, borrowed', grants')
      BY <2>6 DEF CheckStarted
    <3>2. \A k \in Trackers : k \notin borrowed' => Exhausted'[k] = Exhausted[k]
      BY <2>3, <2>6 DEF CheckStarted
    <3> QED BY <1>2, <2>2, <2>4, <3>1, <3>2
  <2> QED BY <1>8, <2>5, <2>6
<1>9. CASE Failed \/ (Ended /\ err # "Ok")
  <2> DEFINE s == Top.snap
  <2>1. /\ n \in 1..n /\ Top = stack[n] /\ s.borrowed = borrowed
        /\ \A i \in Trackers : Exhausted'[i] = IF i \in borrowed THEN Exhausted[i]
                                               ELSE s.exhausted[i]
        /\ DOMAIN Exhausted' = Trackers
        /\ grants' = s.grants
    BY <1>9, FailureRestores DEF RestoredRest
  <2>2. Exhausted' = [i \in Trackers |-> Exhausted'[i]]
    BY DEF Exhausted
  <2>3. Exhausted' = ExhaustedAt(es, Exhausted, s)
    BY <1>0, <2>1, <2>2 DEF ExhaustedAt
  <2>4. grants' = GrantsOf(es, Exhausted')
    BY <1>0, <2>1, <2>3
  <2>5. \A i \in borrowed : Exhausted'[i] = Exhausted[i]
    BY <2>1 DEF CoreInv, FrameInv
  <2>6. \A p \in 1..Len(stack') : p \in 1..n /\ stack'[p].snap = stack[p].snap
    <3>1. CASE Failed
      BY <1>4, <3>1 DEF Failed
    <3>2. CASE Ended
      <4>1. stack' = <<>>
        BY <3>2 DEF Ended
      <4>2. 1..Len(stack') = {}
        BY <4>1, NullSeq
      <4> QED BY <4>2
    <3> QED BY <1>9, <3>1, <3>2
  <2> QED BY <1>1, <2>4, <2>5, <2>6
<1>10. CASE FailedBadly
  <2>1. stack # <<>> /\ RollbackFails(Top.snap)
    BY <1>10 DEF FailedBadly, PoppedStack
  <2> QED BY <2>1, RollbackSucceeds DEF CoreInv
<1>11. CASE Ended /\ err = "Ok"
  <2>1. stack' = <<>> /\ accounts' = accounts /\ grants' = grants
    BY <1>11 DEF Ended
  <2>2. 1..Len(stack') = {}
    BY <2>1, NullSeq
  <2>3. Exhausted' = Exhausted
    BY <2>1 DEF Exhausted
  <2> QED BY <1>0, <2>1, <2>2, <2>3
<1> QED BY <1>5, <1>6, <1>7, <1>8, <1>9, <1>10, <1>11 DEF Kinds

(* A signed node authorizes at most one call whose effects survive, and a  *)
(* failed call gives its node back: what was granted is exactly what is    *)
(* exhausted, through every rollback and every __check_auth.               *)
THEOREM NodesGrantedOnce == Spec => []GrantedOnce
<1>1. Init => GrantInv
  <2> SUFFICES ASSUME Init PROVE GrantInv
    OBVIOUS
  <2>1. /\ FrameInv /\ stack = <<HostFrame>> /\ Len(stack) = 1 /\ borrowed = {}
        /\ DOMAIN Entries = Trackers
    BY FrameInit DEF Init, Trackers
  <2>2. Exhausted = [i \in Trackers |-> {}]
    <3>1. \A i \in Trackers : accounts[i].exhausted = {}
      BY DEF Init, new
    <3> QED BY <3>1 DEF Exhausted
  <2>3. grants = GrantsOf(Entries, Exhausted)
    BY <2>1, <2>2 DEF Init, GrantsOf
  <2>4. /\ HostFrame.snap.grants = grants /\ HostFrame.snap.exhausted = Exhausted
        /\ HostFrame.snap.borrowed = {}
    BY <2>1 DEF HostFrame, Frame, snapshot, invocation_snapshot, Exhausted
  <2>5. ExhaustedAt(Entries, Exhausted, HostFrame.snap) = Exhausted
    BY <2>1, <2>4 DEF ExhaustedAt, Exhausted
  <2>6. \A p \in 1..Len(stack) : stack[p] = HostFrame
    BY <2>1
  <2> QED BY <2>3, <2>4, <2>5, <2>6 DEF GrantInv
<1>2. CoreInv /\ AccountInv /\ GrantInv /\ [Next]_vars => GrantInv'
  BY Steps, GrantStep DEF CoreInv
<1>3. AccountInv /\ GrantInv => GrantedOnce
  <2> SUFFICES ASSUME AccountInv, GrantInv, NEW i \in Trackers, NEW n \in Nodes(accounts[i])
               PROVE  grants[i][n] = IF n \in accounts[i].exhausted THEN 1 ELSE 0
    BY DEF GrantedOnce
  <2>1. n \in DOMAIN Entries[i].tree.fns
    BY DEF AccountInv, AccountAt, Nodes
  <2>2. i \in DOMAIN Entries /\ Exhausted[i] = accounts[i].exhausted
    BY DEF Trackers, Exhausted
  <2> QED BY <2>1, <2>2 DEF GrantInv, GrantsOf
<1> QED BY <1>1, <1>2, <1>3, ManagerConsistent, AccountsFollow, PTL DEF Spec

-----------------------------------------------------------------------------
(* Authentication.                                                         *)

(* What is verified when a nonce is consumed without an error.             *)
LEMMA VerifiedAfter ==
    ASSUME NEW i, Verify(i)
    PROVE  /\ err' = "Ok" => verified' = verified \union {i}
           /\ err' # "Ok" => verified' = verified
  BY DEF Verify

(* The snapshot of a frame that is pushed while all goes well.             *)
LEMMA AuthenticPush ==
    ASSUME CoreInv, AuthenticInv, err = "Ok", NEW fr, NEW bor, NEW gr, PushedStack(fr, bor, gr),
           borrowed \subseteq bor
    PROVE  \A p \in 1..Len(stack') : AuthenticAt(tx, stack'[p].snap)
<1> DEFINE n == Len(stack)
<1>1. /\ n \in Nat /\ Len(stack') = n + 1 /\ \A p \in 1..n : stack'[p].snap = stack[p].snap
      /\ stack'[n + 1] = fr /\ fr.snap.verified = verified /\ fr.snap.borrowed = bor
      /\ fr.snap.exhausted = Exhausted
  BY DEF PushedStack, KeptFrames, SameFrame, Exhausted
<1>2. AuthenticAt(tx, fr.snap)
  BY <1>1 DEF AuthenticAt, AuthenticInv, Trackers, Entries
<1>3. \A p \in 1..Len(stack') : p \in 1..n \/ p = n + 1
  BY <1>1
<1> QED BY <1>1, <1>2, <1>3 DEF AuthenticInv

(* Authentication survives every step, failures included.                  *)
LEMMA AuthenticStep ==
    ASSUME CoreInv, AccountInv, AuthenticInv, Kinds, tx' = tx, Trackers' = Trackers,
           Entries' = Entries
    PROVE  AuthenticInv'
<1> DEFINE n == Len(stack)
           A == err' = "Ok" => \A i \in Trackers : Exhausted'[i] # {} => i \in verified' \union borrowed'
           B == \A i \in Trackers : i \in verified' \union borrowed' => Exhausted'[i] # {}
           C == \A i \in verified' : Genuine(tx, i)
           D == \A p \in 1..Len(stack') : AuthenticAt(tx, stack'[p].snap)
<1> SUFFICES A /\ B /\ C /\ D
  BY DEF AuthenticInv
<1>0. /\ err = "Ok" => \A i \in Trackers : Exhausted[i] # {} => i \in verified \union borrowed
      /\ \A i \in Trackers : i \in verified \union borrowed => Exhausted[i] # {}
      /\ \A i \in verified : Genuine(tx, i)
      /\ \A p \in 1..n : AuthenticAt(tx, stack[p].snap)
      /\ n \in Nat /\ DOMAIN Exhausted = Trackers
  BY StackIsKept DEF AuthenticInv, CoreInv, Exhausted
<1>1. ASSUME KeptStack(stack') PROVE D
  BY <1>0, <1>1 DEF KeptStack, KeptFrames, SameFrame
<1>2. ASSUME PoppedStack PROVE D
  <2>1. Len(stack') = n - 1 /\ \A p \in 1..(n - 1) : stack'[p] = stack[p] /\ p \in 1..n
    BY <1>0, <1>2 DEF PoppedStack
  <2> QED BY <1>0, <2>1
<1>3. CASE Quiet \/ InvokerAdded \/ InvokerMatched
  <2>1. Exhausted' = Exhausted
    BY <1>3, NothingExhausted
  <2>2. KeptStack(stack') /\ verified' = verified /\ borrowed' = borrowed /\ (err' = "Ok" => err = "Ok")
    BY <1>3, StackIsKept DEF CoreInv, Quiet, InvokerAdded, InvokerMatched
  <2> QED BY <1>0, <1>1, <2>1, <2>2
<1>4. CASE Pushed
  <2>1. Exhausted' = Exhausted
    BY <1>4, NothingExhausted
  <2>2. PICK fr : PushedStack(fr, borrowed, grants)
    BY <1>4 DEF Pushed
  <2>3. verified' = verified /\ borrowed' = borrowed /\ err = "Ok"
    BY <1>4 DEF Pushed
  <2>4. D
    BY <2>2, <2>3, AuthenticPush
  <2> QED BY <1>0, <2>1, <2>3, <2>4
<1>5. ASSUME NEW i, NEW m, AccountMatched(i, m) \/ CheckStarted(i, m)
      PROVE  /\ i \in Trackers /\ i \notin borrowed /\ Exhausted'[i] # {} /\ err = "Ok"
             /\ \A k \in Trackers : k # i => Exhausted'[k] = Exhausted[k]
  <2>1. /\ i \in Trackers /\ i \notin borrowed /\ Exhausted' = [Exhausted EXCEPT ![i] = @ \union {m}]
    BY <1>5, MatchExhausts
  <2>2. Exhausted'[i] # {} /\ \A k \in Trackers : k # i => Exhausted'[k] = Exhausted[k]
    BY <1>0, <2>1
  <2>3. err = "Ok"
    BY <1>5 DEF AccountMatched, CheckStarted, Found
  <2> QED BY <2>1, <2>2, <2>3
<1>6. ASSUME NEW i, NEW m, AccountMatched(i, m) PROVE A /\ B /\ C /\ D
  <2>1. /\ i \in Trackers /\ Exhausted'[i] # {} /\ err = "Ok"
        /\ \A k \in Trackers : k # i => Exhausted'[k] = Exhausted[k]
    BY <1>5, <1>6
  <2>2. /\ KeptStack(stack') /\ borrowed' = borrowed
        /\ verified \subseteq verified' /\ verified' \subseteq verified \union {i}
        /\ err' = "Ok" => i \in verified'
        /\ i \in verified' => i \in verified \/ (Entries[i].cred # "contract" /\ Authenticates(i))
    <3>1. CASE i \in verified /\ err' = "Ok" /\ UNCHANGED <<verified, nonces>>
      BY <1>6, <3>1 DEF AccountMatched
    <3>2. CASE i \notin verified /\ Entries[i].cred # "contract" /\ Authenticates(i) /\ Verify(i)
      BY <1>6, <3>2, VerifiedAfter DEF AccountMatched
    <3>3. CASE i \notin verified /\ err' = "InvalidAction" /\ UNCHANGED <<verified, nonces>>
      BY <1>6, <3>3 DEF AccountMatched
    <3> QED BY <1>6, <3>1, <3>2, <3>3 DEF AccountMatched
  <2>3. Authenticates(i) => Genuine(tx, i)
    BY DEF Authenticates, Genuine, Entries
  <2>4. A
    BY <1>0, <2>1, <2>2
  <2>5. B
    BY <1>0, <2>1, <2>2
  <2>6. C
    BY <1>0, <2>2, <2>3
  <2> QED BY <1>1, <2>2, <2>4, <2>5, <2>6
<1>7. ASSUME NEW i, NEW m, CheckStarted(i, m) PROVE A /\ B /\ C /\ D
  <2>1. /\ i \in Trackers /\ Exhausted'[i] # {} /\ err = "Ok"
        /\ \A k \in Trackers : k # i => Exhausted'[k] = Exhausted[k]
    BY <1>5, <1>7
  <2>2. borrowed' = borrowed \union {i} /\ verified' = verified
    BY <1>7 DEF CheckStarted
  <2>3. PICK fr : PushedStack(fr, borrowed', grants')
    BY <1>7 DEF CheckStarted
  <2>4. D
    BY <2>1, <2>2, <2>3, AuthenticPush
  <2>5. A
    BY <1>0, <2>1, <2>2
  <2>6. B
    BY <1>0, <2>1, <2>2
  <2> QED BY <1>0, <2>2, <2>4, <2>5, <2>6
<1>8. CASE Popped
  <2> DEFINE i == Top.auth
  <2>1. Exhausted' = Exhausted
    BY <1>8, NothingExhausted
  <2>2. PoppedStack /\ borrowed' = borrowed \ {i} /\ n >= 2
    BY <1>8 DEF Popped
  <2>3. n \in 1..n /\ Top = stack[n]
    BY <1>0, <2>2 DEF Top
  <2>4. i # 0 => i \in borrowed /\ i \in Trackers /\ Entries[i].cred = "contract"
    BY <2>3 DEF CoreInv, FrameInv, FrameOK, BorrowInv, Lent
  <2> HIDE DEF i
  <2>5. \/ i = 0 /\ verified' = verified /\ err' = err
        \/ i # 0 /\ err = "Ok" /\ err' = "Ok" /\ verified' = verified \union {i}
        \/ i # 0 /\ err' # "Ok" /\ verified' = verified
    BY <1>8, VerifiedAfter DEF Popped, i
  <2>6. i = 0 => borrowed' = borrowed
    <3>1. 0 \notin borrowed
      BY DEF CoreInv, BorrowInv, Lent
    <3> QED BY <2>2, <3>1
  <2>7. i # 0 => Genuine(tx, i)
    BY <2>4 DEF Genuine, Entries
  <2>8. A
    BY <1>0, <2>1, <2>2, <2>5, <2>6
  <2>9. B
    BY <1>0, <2>1, <2>2, <2>4, <2>5
  <2>10. C
    BY <1>0, <2>5, <2>7
  <2> QED BY <1>2, <2>2, <2>8, <2>9, <2>10
<1>9. CASE Failed \/ (Ended /\ err # "Ok")
  <2> DEFINE s == Top.snap
  <2>1. /\ n \in 1..n /\ Top = stack[n] /\ s.borrowed = borrowed
        /\ \A i \in Trackers : Exhausted'[i] = IF i \in borrowed THEN Exhausted[i]
                                               ELSE s.exhausted[i]
        /\ verified' = (s.verified \ borrowed) \union (verified \intersect borrowed)
    BY <1>9, FailureRestores DEF RestoredRest, RollbackVerified
  <2>2. AuthenticAt(tx, s) /\ DOMAIN tx.entries = Trackers
    BY <1>0, <2>1 DEF Trackers, Entries
  <2>3. \A i \in Trackers \ borrowed : i \in verified' <=> Exhausted'[i] # {}
    BY <2>1, <2>2 DEF AuthenticAt
  <2>4. borrowed' \subseteq borrowed
    BY <1>9 DEF Failed, Ended
  <2>5. B
    BY <1>0, <2>1, <2>3, <2>4
  <2>6. C
    BY <1>0, <2>1, <2>2 DEF AuthenticAt
  <2>7. A
    <3>1. CASE Top.auth = 0
      <4>1. borrowed' = borrowed
        <5>1. 0 \notin borrowed
          BY DEF CoreInv, BorrowInv, Lent
        <5> QED BY <1>9, <3>1, <5>1 DEF Failed, Ended
      <4> QED BY <2>3, <4>1
    <3>2. CASE Top.auth # 0
      <4>1. err # "Ok" /\ err' = AfterFailure(Top)
        BY <1>9 DEF Failed, Ended
      <4>2. err' # "Ok"
        BY <3>2, <4>1 DEF AfterFailure, Recoverable
      <4> QED BY <4>2
    <3> QED BY <3>1, <3>2
  <2>8. D
    <3>1. CASE Failed
      BY <1>2, <3>1 DEF Failed
    <3>2. CASE Ended
      <4>1. stack' = <<>>
        BY <3>2 DEF Ended
      <4>2. 1..Len(stack') = {}
        BY <4>1, NullSeq
      <4> QED BY <4>2
    <3> QED BY <1>9, <3>1, <3>2
  <2> QED BY <2>5, <2>6, <2>7, <2>8
<1>10. CASE FailedBadly
  <2>1. stack # <<>> /\ RollbackFails(Top.snap)
    BY <1>10 DEF FailedBadly, PoppedStack
  <2> QED BY <2>1, RollbackSucceeds DEF CoreInv
<1>11. CASE Ended /\ err = "Ok"
  <2>1. /\ stack' = <<>> /\ accounts' = accounts /\ verified' = verified /\ borrowed' = borrowed
    BY <1>11 DEF Ended
  <2>2. 1..Len(stack') = {}
    BY <2>1, NullSeq
  <2>3. Exhausted' = Exhausted
    BY <2>1 DEF Exhausted
  <2> QED BY <1>0, <1>11, <2>1, <2>2, <2>3
<1> QED BY <1>3, <1>4, <1>6, <1>7, <1>8, <1>9, <1>10, <1>11 DEF Kinds

(* g[k] is the sum of w over the numbers of S up to k, for k up to n.      *)
Sums(S, w, g, n) ==
    g = [k \in 0..n |-> IF k = 0 THEN 0 ELSE IF k \in S THEN g[k - 1] + w[k] ELSE g[k - 1]]

(* There is such a g for every n.                                          *)
LEMMA SumExists ==
    ASSUME NEW S, NEW w, NEW n \in Nat
    PROVE  \E g : Sums(S, w, g, n)
<1> DEFINE T == {m \in Nat : ~\E g : Sums(S, w, g, m)}
<1>1. SUFFICES ASSUME T # {} PROVE FALSE
  OBVIOUS
<1>2. PICK m \in T : \A i \in T : m <= i
  BY <1>1, Least
<1>3. CASE m = 0
  <2>1. Sums(S, w, [i \in 0..0 |-> 0], 0)
    BY DEF Sums
  <2> QED BY <1>2, <1>3, <2>1
<1>4. CASE m # 0
  <2>1. m - 1 \in Nat /\ m - 1 \notin T
    BY <1>2, <1>4
  <2>2. PICK g : Sums(S, w, g, m - 1)
    BY <2>1
  <2> DEFINE h == [i \in 0..m |-> IF i = m THEN IF m \in S THEN g[m - 1] + w[m] ELSE g[m - 1]
                                  ELSE g[i]]
  <2>3. \A i \in 0..(m - 1) : h[i] = g[i]
    BY <2>1
  <2>4. \A i \in 0..m : h[i] = IF i = 0 THEN 0
                               ELSE IF i \in S THEN h[i - 1] + w[i] ELSE h[i - 1]
    <3>1. ASSUME NEW i \in 0..(m - 1)
          PROVE  h[i] = IF i = 0 THEN 0 ELSE IF i \in S THEN h[i - 1] + w[i] ELSE h[i - 1]
      <4>1. g[i] = IF i = 0 THEN 0 ELSE IF i \in S THEN g[i - 1] + w[i] ELSE g[i - 1]
        BY <2>2 DEF Sums
      <4>2. h[i] = g[i] /\ (i # 0 => h[i - 1] = g[i - 1])
        BY <2>3, <2>1
      <4> HIDE DEF h
      <4> QED BY <4>1, <4>2
    <3>2. h[m] = IF m \in S THEN h[m - 1] + w[m] ELSE h[m - 1]
      <4>1. h[m - 1] = g[m - 1] /\ h[m] = IF m \in S THEN g[m - 1] + w[m] ELSE g[m - 1]
        BY <2>1
      <4> HIDE DEF h
      <4> QED BY <4>1
    <3>3. \A i \in 0..m : i \in 0..(m - 1) \/ i = m
      BY <2>1
    <3> HIDE DEF h
    <3> QED BY <3>1, <3>2, <3>3, <1>4
  <2>5. h = [i \in 0..m |-> h[i]]
    OBVIOUS
  <2> HIDE DEF h
  <2>6. Sums(S, w, h, m)
    BY <2>4, <2>5 DEF Sums
  <2> QED BY <1>2, <2>6
<1> QED BY <1>3, <1>4

(* Total is the last of these sums.                                        *)
LEMMA TotalSums ==
    ASSUME NEW S, NEW w, NEW n \in Nat
    PROVE  \E g : Sums(S, w, g, n) /\ Total(S, w, n) = g[n]
<1> DEFINE F == CHOOSE g : Sums(S, w, g, n)
<1>1. Sums(S, w, F, n)
  BY SumExists
<1>2. Total(S, w, n) = F[n]
  BY DEF Total, Sums
<1> QED BY <1>1, <1>2

(* Nothing is added between two numbers of S.                              *)
LEMMA SumStays ==
    ASSUME NEW S, NEW w, NEW n \in Nat, NEW g, Sums(S, w, g, n), NEW a \in 0..n, NEW b \in 0..n,
           a <= b, \A k \in (a + 1)..b : k \notin S
    PROVE  g[b] = g[a]
<1> DEFINE T == {k \in a..b : g[k] # g[a]}
<1>1. SUFFICES ASSUME T # {} PROVE FALSE
  OBVIOUS
<1>2. T \subseteq Nat
  OBVIOUS
<1>3. PICK k \in T : \A i \in T : k <= i
  BY <1>1, <1>2, Least
<1>4. k \in a..b /\ g[k] # g[a] /\ k # a
  OBVIOUS
<1>5. k \in (a + 1)..b /\ k \in 0..n /\ k # 0 /\ k - 1 \in a..b /\ ~(k <= k - 1)
  BY <1>4
<1>6. g[k] = g[k - 1]
  BY <1>5 DEF Sums
<1>7. k - 1 \notin T
  BY <1>3, <1>5
<1> QED BY <1>4, <1>5, <1>6, <1>7

(* Numbers each below the next are in order.                               *)
LEMMA Increasing ==
    ASSUME NEW n \in Nat, NEW f, \A i \in 1..n : f[i] \in Nat,
           \A i \in 1..n : i > 1 => f[i - 1] < f[i]
    PROVE  \A i, j \in 1..n : i < j => f[i] < f[j]
<1> DEFINE Bad == {j \in 1..n : \E i \in 1..n : i < j /\ ~(f[i] < f[j])}
<1>1. Bad = {}
  <2> SUFFICES ASSUME Bad # {} PROVE FALSE
    OBVIOUS
  <2>1. Bad \subseteq Nat
    OBVIOUS
  <2>2. PICK j \in Bad : \A m \in Bad : j <= m
    BY <2>1, Least
  <2>3. PICK i \in 1..n : i < j /\ ~(f[i] < f[j])
    OBVIOUS
  <2>4. j \in 1..n /\ j > 1 /\ j - 1 \in 1..n /\ f[j - 1] < f[j] /\ j - 1 \notin Bad
    BY <2>2, <2>3
  <2>5. CASE i = j - 1
    BY <2>3, <2>4, <2>5
  <2>6. CASE i < j - 1
    <3>1. f[i] < f[j - 1]
      BY <2>4, <2>6
    <3> QED BY <2>3, <2>4, <3>1
  <2>7. i = j - 1 \/ i < j - 1
    BY <2>3, <2>4
  <2> QED BY <2>5, <2>6, <2>7
<1> QED BY <1>1

(* f enumerates keys in order, and w holds the weights v at its places.    *)
Enumerates(f, n, keys, w, v) ==
    /\ n \in Nat /\ n >= 1 /\ \A i \in 1..n : f[i] \in Nat \ {0}
    /\ \A i \in 1..n : i > 1 => f[i - 1] < f[i]
    /\ keys = {f[i] : i \in 1..n} /\ \A i \in 1..n : w[i] = v[f[i]]

(* Numbers f[1] < ... < f[n], each counted with the weight v of its value: *)
(* the sum over the places is the sum over the set of the numbers.         *)
LEMMA SumOfSet ==
    ASSUME NEW f, NEW n, NEW keys, NEW w, NEW v, Enumerates(f, n, keys, w, v)
    PROVE  /\ \A k \in keys : k <= f[n]
           /\ f[n] \in keys /\ keys \subseteq Nat
           /\ Total(keys, v, f[n]) = Total(1..n, w, n)
<1>1. PICK g : Sums(1..n, w, g, n) /\ Total(1..n, w, n) = g[n]
  <2>1. n \in Nat
    BY DEF Enumerates
  <2> QED BY <2>1, TotalSums
<1>2. PICK h : Sums(keys, v, h, f[n]) /\ Total(keys, v, f[n]) = h[f[n]]
  <2>1. \A m \in Nat : \E h : Sums(keys, v, h, m) /\ Total(keys, v, m) = h[m]
    BY TotalSums
  <2>2. f[n] \in Nat
    BY DEF Enumerates
  <2> QED BY <2>1, <2>2
<1>3. /\ n \in Nat /\ n >= 1 /\ \A i \in 1..n : f[i] \in Nat \ {0}
      /\ \A i \in 1..n : i > 1 => f[i - 1] < f[i]
      /\ keys = {f[i] : i \in 1..n} /\ \A i \in 1..n : w[i] = v[f[i]]
  BY DEF Enumerates
<1> USE <1>3
<1>4. \A i, j \in 1..n : i < j => f[i] < f[j]
  BY Increasing
<1>5. n \in 1..n /\ f[n] \in Nat /\ f[n] \in keys
  OBVIOUS
<1>6. \A i \in 1..n : f[i] <= f[n] /\ f[i] \in 0..f[n]
  <2> TAKE i \in 1..n
  <2>1. i = n \/ i < n
    OBVIOUS
  <2>2. i < n => f[i] < f[n]
    BY <1>4, <1>5
  <2> QED BY <1>5, <2>1, <2>2
<1> DEFINE at == [i \in 0..n |-> IF i = 0 THEN 0 ELSE f[i]]
           T == {i \in 0..n : h[at[i]] # g[i]}
<1>7. /\ \A i \in 0..n : at[i] \in 0..f[n] /\ at[i] \in Nat
      /\ at[0] = 0 /\ \A i \in 1..n : at[i] = f[i] /\ at[i - 1] < at[i]
  <2>1. \A i \in 0..n : at[i] \in 0..f[n] /\ at[i] \in Nat
    <3> TAKE i \in 0..n
    <3>1. i = 0 \/ i \in 1..n
      OBVIOUS
    <3> QED BY <1>5, <1>6, <3>1
  <2>2. at[0] = 0
    OBVIOUS
  <2>3. ASSUME NEW i \in 1..n PROVE at[i] = f[i] /\ at[i - 1] < at[i]
    <3>1. at[i] = f[i]
      OBVIOUS
    <3>2. CASE i = 1
      <4>1. at[i - 1] = 0
        BY <3>2
      <4> QED BY <3>1, <4>1
    <3>3. CASE i > 1
      <4>1. at[i - 1] = f[i - 1]
        BY <3>3
      <4> QED BY <3>1, <3>3, <4>1
    <3> QED BY <3>2, <3>3
  <2> QED BY <2>1, <2>2, <2>3
<1>8. ASSUME NEW i \in 1..n, NEW k \in (at[i - 1] + 1)..(at[i] - 1) PROVE k \notin keys
  <2>1. SUFFICES ASSUME NEW j \in 1..n, k = f[j] PROVE FALSE
    OBVIOUS
  <2>2. i - 1 \in 0..n /\ at[i - 1] \in Nat /\ at[i] \in Nat /\ at[i] = f[i]
    BY <1>7
  <2> HIDE DEF at
  <2>3. at[i - 1] < f[j] /\ f[j] < f[i] /\ f[j] \in Nat
    BY <1>8, <2>1, <2>2
  <2>4. j < i
    <3>1. j = i \/ i < j => f[i] <= f[j]
      BY <1>4
    <3>2. f[i] \in Nat
      OBVIOUS
    <3> QED BY <2>3, <3>1, <3>2
  <2>5. j <= i - 1 /\ i - 1 \in 1..n
    BY <2>4
  <2>6. at[i - 1] = f[i - 1]
    BY <1>7, <2>5
  <2>7. f[j] <= f[i - 1]
    BY <1>4, <2>5
  <2> QED BY <2>2, <2>3, <2>6, <2>7
<1> HIDE DEF at
<1>9. T = {}
  <2> SUFFICES ASSUME T # {} PROVE FALSE
    OBVIOUS
  <2>1. T \subseteq Nat
    OBVIOUS
  <2>2. PICK i \in T : \A m \in T : i <= m
    BY <2>1, Least
  <2>3. i \in 0..n /\ h[at[i]] # g[i]
    OBVIOUS
  <2>4. i # 0
    <3>1. g[0] = 0 /\ h[0] = 0
      BY <1>5, <1>1, <1>2 DEF Sums
    <3> QED BY <1>7, <2>3, <3>1
  <2>5. i \in 1..n /\ i - 1 \in 0..n /\ i - 1 \notin T
    BY <2>2, <2>3, <2>4
  <2>6. h[at[i - 1]] = g[i - 1]
    BY <2>5
  <2>7. /\ at[i - 1] \in 0..f[n] /\ at[i] \in 1..f[n] /\ at[i] - 1 \in 0..f[n]
        /\ at[i - 1] <= at[i] - 1
    BY <1>5, <1>7, <2>5
  <2>8. \A k \in (at[i - 1] + 1)..(at[i] - 1) : k \notin keys
    BY <1>8, <2>5
  <2>9. h[at[i] - 1] = h[at[i - 1]]
    <3> DEFINE a == at[i - 1]
               b == at[i] - 1
               top == f[n]
    <3>1. top \in Nat /\ a \in 0..top /\ b \in 0..top /\ a <= b
      BY <1>5, <2>7
    <3>2. Sums(keys, v, h, top) /\ \A k \in (a + 1)..b : k \notin keys
      BY <1>2, <2>8
    <3> HIDE DEF a, b, top
    <3>3. h[b] = h[a]
      BY <3>1, <3>2, SumStays
    <3> QED BY <3>3 DEF a, b
  <2>10. at[i] \in keys /\ at[i] # 0 /\ at[i] \in 0..f[n]
    BY <1>7, <2>5, <2>7
  <2>11. h[at[i]] = h[at[i] - 1] + v[at[i]]
    BY <1>2, <2>10 DEF Sums
  <2>12. g[i] = g[i - 1] + w[i]
    <3>1. i \in 0..n /\ i # 0 /\ i \in 1..n
      BY <2>4, <2>5
    <3> QED BY <1>1, <3>1 DEF Sums
  <2>13. w[i] = v[at[i]]
    BY <1>7, <2>5
  <2> QED BY <2>3, <2>6, <2>9, <2>11, <2>12, <2>13
<1>10. n \in 0..n /\ at[n] = f[n]
  BY <1>5, <1>7
<1>11. h[f[n]] = g[n]
  BY <1>9, <1>10
<1> QED BY <1>6, <1>1, <1>2, <1>11

(* check_account_authentication counts no key twice - otherwise the        *)
(* "public keys are not ordered" - so the signers do reach the threshold.  *)
LEMMA AuthenticatedMeetsThreshold ==
    ASSUME NEW account, NEW e, IsEntry(e), check_account_authentication(account, e.sigs)
    PROVE  MeetsMediumThreshold(account, e.sigs)
<1> DEFINE n == Len(e.sigs)
           weight(k) == get_signer_weight_from_account(account, k)
           f == [i \in 1..n |-> e.sigs[i].key]
           keys == {e.sigs[i].key : i \in {j \in DOMAIN e.sigs : e.sigs[j].good}}
           last == IF keys = {} THEN 0 ELSE CHOOSE k \in keys : \A j \in keys : j <= k
           w == [i \in DOMAIN e.sigs |-> weight(e.sigs[i].key)]
           v == [k \in keys |-> weight(k)]
<1>1. n \in Nat /\ n >= 1 /\ DOMAIN e.sigs = 1..n /\ \A i \in 1..n : f[i] \in Nat \ {0}
  BY DEF IsEntry, check_account_authentication
<1>2. \A i \in 1..n : i > 1 => f[i - 1] < f[i]
  <2> TAKE i \in 1..n
  <2>1. i > 1 => i - 1 \in 1..n
    BY <1>1
  <2>2. i > 1 => e.sigs[i - 1].key < e.sigs[i].key
    BY <1>1 DEF check_account_authentication
  <2> QED BY <2>1, <2>2
<1>3. keys = {f[i] : i \in 1..n}
  <2>1. {j \in DOMAIN e.sigs : e.sigs[j].good} = 1..n
    BY <1>1 DEF check_account_authentication
  <2> QED BY <2>1
<1>4. \A i \in 1..n : w[i] = v[f[i]]
  <2> TAKE i \in 1..n
  <2>1. f[i] = e.sigs[i].key /\ f[i] \in keys
    BY <1>3
  <2> HIDE DEF keys, f
  <2> QED BY <1>1, <2>1
<1> HIDE DEF n, f, keys, w, v
<1>5. /\ \A k \in keys : k <= f[n]
      /\ f[n] \in keys /\ keys \subseteq Nat
      /\ Total(keys, v, f[n]) = Total(1..n, w, n)
  <2>1. Enumerates(f, n, keys, w, v)
    BY <1>1, <1>2, <1>3, <1>4 DEF Enumerates
  <2> QED BY <2>1, SumOfSet
<1>6. last = f[n]
  <2>2. ASSUME NEW k \in keys, \A j \in keys : j <= k PROVE k = f[n]
    <3>1. k <= f[n] /\ f[n] <= k /\ k \in Nat /\ f[n] \in Nat
      BY <1>5, <2>2
    <3> HIDE DEF last
    <3> QED BY <3>1
  <2> QED BY <1>5, <2>2
<1>7. Total(1..n, w, n) >= account.medium
  BY <1>1 DEF check_account_authentication, SignedWeight, w, n
<1> HIDE DEF last
<1>8. Total(keys, v, last) >= account.medium
  BY <1>5, <1>6, <1>7
<1> QED BY <1>8 DEF MeetsMediumThreshold, keys, v, last

(* maybe_authorize_invocation: while the transaction succeeds, whatever    *)
(* authorized something is authenticated or being authenticated; nothing   *)
(* stays verified when the call it was verified for is rolled back; and    *)
(* the keys that signed a verified entry of a classic account reach its    *)
(* medium threshold, each counted once.                                    *)
THEOREM GrantsAuthentic == Spec => []GrantsAreAuthenticated
<1>1. Init => AuthenticInv
  <2> SUFFICES ASSUME Init PROVE AuthenticInv
    OBVIOUS
  <2>1. stack = <<HostFrame>> /\ Len(stack) = 1 /\ verified = {} /\ borrowed = {}
    BY FrameInit DEF Init
  <2>2. \A i \in Trackers : Exhausted[i] = {}
    BY DEF Init, new, Exhausted
  <2>3. HostFrame.snap.verified = {} /\ HostFrame.snap.exhausted = Exhausted
    BY <2>1 DEF HostFrame, Frame, snapshot, invocation_snapshot, Exhausted
  <2>4. \A p \in 1..Len(stack) : stack[p] = HostFrame
    BY <2>1
  <2>5. AuthenticAt(tx, HostFrame.snap)
    BY <2>2, <2>3 DEF AuthenticAt, Trackers, Entries
  <2> QED BY <2>1, <2>2, <2>4, <2>5 DEF AuthenticInv
<1>2. CoreInv /\ AccountInv /\ AuthenticInv /\ [Next]_vars => AuthenticInv'
  BY Steps, AuthenticStep DEF CoreInv
<1>3. CoreInv /\ AuthenticInv => GrantsAreAuthenticated
  <2> SUFFICES ASSUME CoreInv, AuthenticInv, NEW i \in Trackers
               PROVE  /\ err = "Ok" /\ accounts[i].exhausted # {} => i \in verified \union borrowed
                      /\ i \in verified => accounts[i].exhausted # {}
                      /\ i \in verified /\ Entries[i].cred = "account" =>
                            MeetsMediumThreshold(tx.accounts[Entries[i].addr], Entries[i].sigs)
    BY DEF GrantsAreAuthenticated
  <2>1. Exhausted[i] = accounts[i].exhausted
    BY DEF Exhausted
  <2>2. i \in verified => Genuine(tx, i)
    BY DEF AuthenticInv
  <2>3. IsEntry(Entries[i])
    BY AuthAssumption DEF CoreInv, FrameInv, Trackers, Entries
  <2>4. i \in verified /\ Entries[i].cred = "account" =>
            MeetsMediumThreshold(tx.accounts[Entries[i].addr], Entries[i].sigs)
    BY <2>2, <2>3, AuthenticatedMeetsThreshold DEF Genuine, Entries
  <2> QED BY <2>1, <2>4 DEF AuthenticInv
<1> QED BY <1>1, <1>2, <1>3, ManagerConsistent, AccountsFollow, PTL DEF Spec

-----------------------------------------------------------------------------
(* Disjoint entries.                                                       *)

(* u is a prefix of s.                                                     *)
Shortened(u, s) ==
    /\ Len(u) \in Nat /\ Len(s) \in Nat /\ Len(u) <= Len(s)
    /\ \A k \in 1..Len(u) : u[k] = s[k]

(* u is s, or s with one unmatched frame more.                             *)
Lengthened(u, s) ==
    /\ Len(u) \in Nat /\ Len(s) \in Nat /\ (Len(u) = Len(s) \/ Len(u) = Len(s) + 1)
    /\ \A k \in 1..Len(s) : u[k] = s[k]
    /\ Len(u) = Len(s) + 1 => u[Len(u)] = 0

(* Frames that go leave disjointness.                                      *)
LEMMA DisjointPopped ==
    ASSUME NEW es, NEW acc, NEW bcc, DisjointIn(es, acc),
           \A i \in DOMAIN es : Shortened(bcc[i].match, acc[i].match)
    PROVE  DisjointIn(es, bcc)
<1> SUFFICES ASSUME NEW i \in DOMAIN es, NEW j \in DOMAIN es, es[i].addr = es[j].addr
             PROVE  Disjoint(bcc[i].match, bcc[j].match)
  BY DEF DisjointIn
<1> DEFINE s == acc[i].match
           t == acc[j].match
           u == bcc[i].match
           v == bcc[j].match
<1>1. Disjoint(s, t) /\ Shortened(u, s) /\ Shortened(v, t)
  BY DEF DisjointIn
<1> HIDE DEF s, t, u, v
<1>2. Disjoint(u, v)
  <2> SUFFICES ASSUME NEW k \in 1..Len(u), NEW l \in 1..Len(u), l \in 1..Len(v),
                      u[k] = 1, v[l] = 1, k < l
               PROVE  u[l] # 0
    BY DEF Disjoint
  <2>1. k \in 1..Len(s) /\ l \in 1..Len(s) /\ l \in 1..Len(t)
    BY <1>1 DEF Shortened
  <2>2. s[k] = 1 /\ t[l] = 1 /\ u[l] = s[l]
    BY <1>1 DEF Shortened
  <2> QED BY <1>1, <2>1, <2>2 DEF Disjoint
<1> QED BY <1>2 DEF u, v

(* A frame that comes leaves it too, for no tracker follows a frame above  *)
(* the last one that a tracker which gets the new frame has followed.      *)
LEMMA DisjointPushed ==
    ASSUME NEW es, NEW acc, NEW bcc, DisjointIn(es, acc),
           \A i \in DOMAIN es : Lengthened(bcc[i].match, acc[i].match),
           \A i, j \in DOMAIN es : Len(bcc[i].match) = Len(acc[i].match) + 1 =>
               Len(acc[j].match) <= Len(acc[i].match)
    PROVE  DisjointIn(es, bcc)
<1> SUFFICES ASSUME NEW i \in DOMAIN es, NEW j \in DOMAIN es, es[i].addr = es[j].addr
             PROVE  Disjoint(bcc[i].match, bcc[j].match)
  BY DEF DisjointIn
<1> DEFINE s == acc[i].match
           t == acc[j].match
           u == bcc[i].match
           v == bcc[j].match
<1>1. /\ Disjoint(s, t) /\ Lengthened(u, s) /\ Lengthened(v, t)
      /\ Len(u) = Len(s) + 1 => Len(t) <= Len(s)
  BY DEF DisjointIn
<1> HIDE DEF s, t, u, v
<1>2. Disjoint(u, v)
  <2> SUFFICES ASSUME NEW k \in 1..Len(u), NEW l \in 1..Len(u), l \in 1..Len(v),
                      u[k] = 1, v[l] = 1, k < l
               PROVE  u[l] # 0
    BY DEF Disjoint
  <2>1. k \in 1..Len(s) /\ s[k] = 1
    <3>1. k # Len(s) + 1
      BY <1>1 DEF Lengthened
    <3> QED BY <1>1, <3>1 DEF Lengthened
  <2>2. l \in 1..Len(t) /\ t[l] = 1
    <3>1. l # Len(t) + 1
      BY <1>1 DEF Lengthened
    <3> QED BY <1>1, <3>1 DEF Lengthened
  <2>3. l \in 1..Len(s)
    BY <1>1, <2>2 DEF Lengthened
  <2>4. u[l] = s[l]
    BY <1>1, <2>3 DEF Lengthened
  <2> QED BY <1>1, <2>1, <2>2, <2>3, <2>4 DEF Disjoint
<1> QED BY <1>2 DEF u, v

(* How far the trackers follow the stack: the borrowed ones not to its     *)
(* last frame.                                                             *)
LEMMA FollowedLengths ==
    ASSUME CoreInv, AccountInv, NEW i \in Trackers, Len(stack) >= 1
    PROVE  /\ Len(accounts[i].match) \in Nat /\ Len(stack) \in Nat
           /\ i \notin borrowed => Len(accounts[i].match) = Len(stack) - 1
           /\ i \in borrowed => Len(accounts[i].match) < Len(stack) - 1
<1> DEFINE n == FollowedTo(i)
<1>1. stack # <<>> /\ Len(stack) \in Nat /\ DOMAIN stack = 1..Len(stack)
  BY SeqDomain DEF CoreInv, FrameInv
<1>2. n \in 1..Len(stack) /\ FollowedUpTo(i, n, stack, borrowed)
  BY <1>1, FollowedFrame DEF CoreInv
<1>3. i \notin borrowed => n = Len(stack)
  BY DEF FollowedTo
<1>4. i \in borrowed => n + 1 \in 1..Len(stack)
  BY <1>2 DEF FollowedUpTo
<1> HIDE DEF n
<1>5. Len(accounts[i].match) = n - 1
  BY <1>2 DEF AccountInv, AccountAt, Follows, Aligned
<1>6. n \in Nat /\ n >= 1 /\ (n + 1 \in 1..Len(stack) => n < Len(stack))
  BY <1>1, <1>2
<1>7. n - 1 \in Nat /\ (n < Len(stack) => n - 1 < Len(stack) - 1)
  BY <1>1, <1>6
<1> QED BY <1>1, <1>3, <1>4, <1>5, <1>6, <1>7, Zenon

(* require_auth_enforcing: the root of another entry of the address is     *)
(* matched only when every active tracker has matched the current frame.   *)
LEMMA RootAllowed ==
    ASSUME CoreInv, AccountInv, NEW i, NEW n, Found(i, n), n = 1,
           NEW j \in Trackers, j \notin borrowed, Entries[j].addr = Entries[i].addr,
           NEW k \in 1..Len(accounts[j].match), accounts[j].match[k] = 1
    PROVE  accounts[j].match[Len(accounts[j].match)] # 0
<1> DEFINE allow == ~has_active_tracker(Entries[i].addr)
           t == accounts[i]
<1>1. i \in Trackers /\ n = find_match(t, Top.fn, allow) /\ n # 0
  BY DEF Found
<1>2. IsTracker(t) /\ IsTracker(accounts[j]) /\ PathOK(accounts[j]) /\ RootOK(accounts[j])
  BY <1>1 DEF AccountInv, AccountAt
<1> HIDE DEF allow, t
<1>3. allow
  <2>1. \/ allow
        \/ \E l \in 1..Len(t.match) : /\ LastBelow(t.match, Len(t.match) + 1, l)
                                      /\ t.tree.parent[n] = t.match[l]
    BY <1>1, <1>2, FoundMatch
  <2>2. t.tree.parent[n] = 0
    BY <1>2, TreeNodes DEF IsTracker
  <2> QED BY <2>1, <2>2 DEF LastBelow
<1>4. is_active(accounts[j])
  BY <1>2, ActiveRoot
<1>5. current_frame_is_already_matched(accounts[j])
  BY <1>3, <1>4 DEF allow, has_active_tracker
<1> QED BY <1>5 DEF current_frame_is_already_matched

(* A match keeps the entries of an address from being disjoint.            *)
LEMMA DisjointMatched ==
    ASSUME CoreInv, AccountInv, DisjointInv, NEW i, NEW n, Found(i, n)
    PROVE  /\ DisjointIn(Entries, Extended(i, n))
           /\ \A j \in Trackers : Len(Extended(i, n)[j].match) = Len(accounts[j].match)
           /\ \A j \in Trackers : IsTracker(Extended(i, n)[j])
<1> DEFINE a == accounts[i].match
           b == extend_match(accounts[i], n).match
           L == Len(a)
<1>1. /\ i \in Trackers /\ i \notin borrowed /\ Len(stack) >= 2
      /\ n = find_match(accounts[i], Top.fn, ~has_active_tracker(Entries[i].addr)) /\ n # 0
  BY DEF Found
<1>2. \A j \in Trackers : IsTracker(accounts[j])
  BY DEF AccountInv, AccountAt
<1>3. \A j \in Trackers :
          Extended(i, n)[j] = IF j = i THEN extend_match(accounts[i], n) ELSE accounts[j]
  BY DEF Extended, CoreInv, FrameInv
<1>4. n \in Nodes(accounts[i]) /\ (a # <<>> => a[L] = 0)
  BY <1>1, <1>2, FoundMatch
<1>5. Len(stack) \in Nat /\ L = Len(stack) - 1 /\ L \in Nat /\ L >= 1 /\ L \in 1..L
  <2>1. Len(stack) \in Nat
    BY StackIsKept DEF CoreInv
  <2>2. Len(stack) >= 1
    BY <1>1, <2>1
  <2>3. L = Len(stack) - 1
    BY <1>1, <2>2, FollowedLengths
  <2> QED BY <1>1, <2>1, <2>3
<1>6. a # <<>>
  BY <1>5
<1>7. /\ Len(b) = L /\ b[L] = n /\ \A k \in 1..L : k # L => b[k] = a[k]
      /\ IsTracker(extend_match(accounts[i], n))
  BY <1>1, <1>2, <1>4, <1>6, ExtendTracker
<1>8. \A j \in Trackers : Entries[j].addr = Entries[i].addr =>
          Disjoint(a, accounts[j].match) /\ Disjoint(accounts[j].match, a)
  BY <1>1 DEF DisjointInv, DisjointIn, Trackers
<1>9. /\ \A j \in Trackers : Len(Extended(i, n)[j].match) = Len(accounts[j].match)
      /\ \A j \in Trackers : IsTracker(Extended(i, n)[j])
  BY <1>2, <1>3, <1>7
<1> HIDE DEF b
<1>10. ASSUME NEW t, Disjoint(a, t) PROVE Disjoint(b, t)
  <2> SUFFICES ASSUME NEW k \in 1..L, NEW l \in 1..L, l \in 1..Len(t), b[k] = 1, t[l] = 1, k < l
               PROVE  b[l] # 0
    BY <1>7 DEF Disjoint
  <2>1. k # L
    BY <1>5
  <2>2. CASE l = L
    BY <1>1, <1>7, <2>2
  <2>3. CASE l # L
    BY <1>7, <1>10, <2>1, <2>3 DEF Disjoint
  <2> QED BY <2>2, <2>3
<1>11. ASSUME NEW j \in Trackers, j # i, Entries[j].addr = Entries[i].addr
       PROVE  Disjoint(accounts[j].match, b)
  <2> DEFINE s == accounts[j].match
  <2> SUFFICES ASSUME NEW k \in 1..Len(s), NEW l \in 1..Len(s), l \in 1..L,
                      s[k] = 1, b[l] = 1, k < l
               PROVE  s[l] # 0
    BY <1>7 DEF Disjoint
  <2>1. CASE l # L
    BY <1>7, <1>8, <1>11, <2>1 DEF Disjoint
  <2>2. CASE l = L
    <3>1. n = 1
      BY <1>7, <2>2
    <3>2. Len(stack) >= 1
      BY <1>1, <1>5
    <3>3. j \notin borrowed /\ Len(s) = L
      BY <1>5, <2>2, <3>2, FollowedLengths
    <3>4. s[Len(s)] # 0
      BY <1>11, <3>1, <3>3, RootAllowed
    <3> QED BY <2>2, <3>3, <3>4
  <2> QED BY <2>1, <2>2
<1>12. Disjoint(b, b)
  BY DEF Disjoint
<1>13. DisjointIn(Entries, Extended(i, n))
  <2> SUFFICES ASSUME NEW x \in Trackers, NEW y \in Trackers, Entries[x].addr = Entries[y].addr
               PROVE  Disjoint(Extended(i, n)[x].match, Extended(i, n)[y].match)
    BY DEF DisjointIn, Trackers
  <2>1. CASE x = i /\ y = i
    BY <1>3, <1>12, <2>1 DEF b
  <2>2. CASE x = i /\ y # i
    <3>1. Disjoint(b, accounts[y].match)
      BY <1>8, <1>10, <2>2
    <3> QED BY <1>3, <2>2, <3>1 DEF b
  <2>3. CASE x # i /\ y = i
    <3>1. Disjoint(accounts[x].match, b)
      BY <1>11, <2>3
    <3> QED BY <1>3, <2>3, <3>1 DEF b
  <2>4. CASE x # i /\ y # i
    BY <1>3, <2>4 DEF DisjointInv, DisjointIn, Trackers
  <2> QED BY <2>1, <2>2, <2>3, <2>4
<1> QED BY <1>9, <1>13

(* What a push, a pop or a failure does to a match stack.                  *)
LEMMA MatchStacks ==
    ASSUME NEW t, IsTracker(t), NEW ex
    PROVE  /\ Lengthened(t.match, t.match) /\ Shortened(t.match, t.match)
           /\ Lengthened(push_frame(t).match, t.match)
           /\ Shortened(pop_frame(t).match, t.match)
           /\ Shortened(rollback(t, ex).match, t.match)
           /\ Shortened(pop_frame(rollback(t, ex)).match, t.match)
<1>1. Lengthened(t.match, t.match) /\ Shortened(t.match, t.match)
  <2>1. Len(t.match) \in Nat
    BY SeqDomain DEF IsTracker
  <2> QED BY <2>1 DEF Lengthened, Shortened
<1>2. Lengthened(push_frame(t).match, t.match)
  BY PushTracker DEF Lengthened
<1>3. ASSUME NEW u, IsTracker(u) PROVE Shortened(pop_frame(u).match, u.match)
  <2>1. CASE u.match = <<>>
    <3>1. pop_frame(u).match = <<>>
      BY <1>3, <2>1 DEF pop_frame, IsTracker
    <3> QED BY <2>1, <3>1, NullSeq DEF Shortened
  <2>2. CASE u.match # <<>>
    <3>1. /\ Len(pop_frame(u).match) = Len(u.match) - 1 /\ Len(u.match) \in Nat
          /\ \A k \in 1..(Len(u.match) - 1) : pop_frame(u).match[k] = u.match[k]
      BY <1>3, <2>2, PopTracker
    <3>2. Len(u.match) # 0
      BY <1>3, <2>2, SeqDomain DEF IsTracker
    <3> QED BY <3>1, <3>2 DEF Shortened
  <2> QED BY <2>1, <2>2
<1> DEFINE r == rollback(t, ex)
<1>4. r = rollback(t, ex)
  OBVIOUS
<1> HIDE DEF r
<1>5. IsTracker(r) /\ r.match = t.match
  BY <1>4, RollbackTracker
<1>6. Shortened(pop_frame(r).match, r.match)
  BY <1>3, <1>5
<1> QED BY <1>1, <1>2, <1>3, <1>4, <1>5, <1>6

(* Disjointness survives every step.                                       *)
LEMMA DisjointStep ==
    ASSUME CoreInv, AccountInv, DisjointInv, Kinds, Trackers' = Trackers, Entries' = Entries
    PROVE  DisjointInv'
<1> SUFFICES DisjointIn(Entries, accounts')
  BY DEF DisjointInv
<1>0. /\ \A j \in Trackers : IsTracker(accounts[j])
      /\ DOMAIN Entries = Trackers /\ DisjointIn(Entries, accounts) /\ Len(stack) \in Nat
  BY StackIsKept DEF AccountInv, AccountAt, Trackers, DisjointInv, CoreInv
<1>1. CASE accounts' = accounts
  BY <1>0, <1>1
<1>2. ASSUME NEW bor, borrowed \subseteq bor, NEW acc, accounts' = PushAccounts(acc, bor),
             DisjointIn(Entries, acc), Len(stack) >= 1, \A j \in Trackers : IsTracker(acc[j]),
             \A j \in Trackers : Len(acc[j].match) = Len(accounts[j].match)
      PROVE  DisjointIn(Entries, accounts')
  <2>1. \A j \in Trackers : accounts'[j] = IF j \in bor THEN acc[j] ELSE push_frame(acc[j])
    BY <1>2 DEF PushAccounts
  <2>2. \A j \in Trackers : Lengthened(accounts'[j].match, acc[j].match)
    BY <1>2, <2>1, MatchStacks
  <2>3. ASSUME NEW x \in Trackers, NEW y \in Trackers,
               Len(accounts'[x].match) = Len(acc[x].match) + 1
        PROVE  Len(acc[y].match) <= Len(acc[x].match)
    <3>1. x \notin borrowed
      <4>1. x \in bor => accounts'[x] = acc[x]
        BY <2>1
      <4>2. Len(acc[x].match) \in Nat
        BY <2>2 DEF Lengthened
      <4> QED BY <1>2, <2>3, <4>1, <4>2
    <3>2. /\ Len(accounts[x].match) = Len(stack) - 1
          /\ Len(accounts[y].match) \in Nat /\ Len(accounts[y].match) <= Len(stack) - 1
      BY <1>0, <1>2, <3>1, FollowedLengths
    <3> QED BY <1>2, <3>2
  <2> QED BY <1>0, <1>2, <2>2, <2>3, DisjointPushed
<1>3. CASE Pushed
  <2>1. accounts' = PushAccounts(accounts, borrowed) /\ Len(stack) >= 1
    BY <1>3 DEF Pushed
  <2> QED BY <1>0, <1>2, <2>1
<1>4. ASSUME NEW i, NEW m, AccountMatched(i, m) PROVE DisjointIn(Entries, accounts')
  BY <1>4, DisjointMatched DEF AccountMatched
<1>5. ASSUME NEW i, NEW m, CheckStarted(i, m) PROVE DisjointIn(Entries, accounts')
  <2>1. /\ Found(i, m) /\ borrowed' = borrowed \union {i} /\ Len(stack) >= 2
        /\ accounts' = PushAccounts(Extended(i, m), borrowed')
    BY <1>5 DEF CheckStarted, Found
  <2>2. /\ DisjointIn(Entries, Extended(i, m))
        /\ \A j \in Trackers : Len(Extended(i, m)[j].match) = Len(accounts[j].match)
        /\ \A j \in Trackers : IsTracker(Extended(i, m)[j])
    BY <2>1, DisjointMatched
  <2>3. borrowed \subseteq borrowed' /\ Len(stack) >= 1
    BY <1>0, <2>1
  <2> QED BY <1>2, <2>1, <2>2, <2>3
<1>6. CASE Popped \/ Failed \/ (Ended /\ err # "Ok")
  <2>1. \A j \in Trackers : Shortened(accounts'[j].match, accounts[j].match)
    <3> TAKE j \in Trackers
    <3> DEFINE t == accounts[j]
               r == rollback(t, Top.snap.exhausted[j])
    <3>1. accounts'[j] \in {t, pop_frame(t), r, pop_frame(r)}
      BY <1>6 DEF Popped, Failed, Ended, PopAccounts, RollbackAccounts
    <3>2. IsTracker(t)
      BY <1>0
    <3>3. Shortened(t.match, t.match) /\ Shortened(pop_frame(t).match, t.match)
      BY <3>2, MatchStacks
    <3>4. Shortened(r.match, t.match) /\ Shortened(pop_frame(r).match, t.match)
      BY <3>2, MatchStacks
    <3> HIDE DEF r, t
    <3> QED BY <3>1, <3>3, <3>4 DEF t
  <2> QED BY <1>0, <2>1, DisjointPopped
<1>7. Quiet \/ InvokerAdded \/ InvokerMatched \/ FailedBadly \/ (Ended /\ err = "Ok") =>
          accounts' = accounts
  BY DEF Quiet, InvokerAdded, InvokerMatched, FailedBadly, Ended
<1> QED BY <1>1, <1>3, <1>4, <1>5, <1>6, <1>7 DEF Kinds

(* require_auth_enforcing "prevents matching sets of disjoint              *)
(* authorization entries to a tree of calls": below the root of one entry  *)
(* of an address, the root of another matches only in a frame that the     *)
(* first one matched too.                                                  *)
THEOREM EntriesNotDisjoint == Spec => []DisjointTreesNotAllowed
<1>1. Init => DisjointInv
  <2> SUFFICES ASSUME Init PROVE DisjointInv
    OBVIOUS
  <2>1. \A i \in DOMAIN Entries : accounts[i].match = <<>>
    BY DEF Init, new, Trackers
  <2>2. Disjoint(<<>>, <<>>)
    BY NullSeq DEF Disjoint
  <2> QED BY <2>1, <2>2 DEF DisjointInv, DisjointIn
<1>2. CoreInv /\ AccountInv /\ DisjointInv /\ [Next]_vars => DisjointInv'
  BY Steps, DisjointStep DEF CoreInv
<1>3. CoreInv /\ AccountInv /\ DisjointInv => DisjointTreesNotAllowed
  <2> SUFFICES ASSUME CoreInv, AccountInv, DisjointInv,
                      NEW i \in Trackers \ borrowed, NEW j \in Trackers \ borrowed,
                      Entries[i].addr = Entries[j].addr,
                      NEW k \in DOMAIN accounts[i].match, NEW l \in DOMAIN accounts[j].match,
                      accounts[i].match[k] = 1, accounts[j].match[l] = 1, k < l
               PROVE  accounts[i].match[l] # 0
    BY DEF DisjointTreesNotAllowed
  <2>1. /\ IsSeq(accounts[i].match) /\ IsSeq(accounts[j].match)
        /\ stack = <<>> => accounts[i].match = <<>>
    BY DEF AccountInv, AccountAt, IsTracker
  <2>2. k \in 1..Len(accounts[i].match) /\ l \in 1..Len(accounts[j].match)
    BY <2>1, SeqDomain
  <2>3. stack # <<>>
    BY <2>1, <2>2, NullSeq
  <2>4. Len(stack) >= 1
    BY <2>3, TopFrame DEF CoreInv
  <2>5. Len(accounts[i].match) = Len(accounts[j].match)
    BY <2>4, FollowedLengths
  <2> QED BY <2>2, <2>5 DEF DisjointInv, DisjointIn, Disjoint, Trackers
<1> QED BY <1>1, <1>2, <1>3, ManagerConsistent, AccountsFollow, PTL DEF Spec
=============================================================================
