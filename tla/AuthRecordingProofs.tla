------------------------- MODULE AuthRecordingProofs -------------------------
(***************************************************************************)
(* What the recording authorization manager keeps (module AuthRecording),  *)
(* for all contracts, address objects, kinds of addresses, runs and        *)
(* depths.  A failed call takes the trackers, the handles and the nonces   *)
(* back to its snapshot, under the generator and the footprint of now, so  *)
(* what is proved of the three together is proved of every snapshot.       *)
(***************************************************************************)
EXTENDS AuthRecording, TLAPS, WellFoundedInduction

-----------------------------------------------------------------------------
(* Naturals and sequences.                                                 *)

(* A sequence, whatever its elements are.                                  *)
IsSeq(q) == q \in Seq({q[i] : i \in DOMAIN q})

(* A non-empty set of naturals has a least element: what inductions over   *)
(* data use, on the set of places where a claim would fail.                *)
LEMMA Least ==
    ASSUME NEW T, T \subseteq Nat, T # {}
    PROVE  \E n \in T : \A m \in T : n <= m
<1> DEFINE R == OpToRel(<, Nat)
<1>1. IsWellFoundedOn(R, Nat)
  BY NatLessThanWellFounded
<1> HIDE DEF R
<1>2. PICK x \in T : \A y \in T : ~(<<y, x>> \in R)
  BY <1>1, WFMin
<1>3. \A y \in T : ~(y < x)
  BY <1>2 DEF R, OpToRel
<1> QED BY <1>3

(* A non-empty set of naturals with an upper bound has a greatest one.     *)
LEMMA Greatest ==
    ASSUME NEW T, T \subseteq Nat, T # {}, NEW n \in Nat, \A x \in T : x <= n
    PROVE  \E x \in T : \A y \in T : y <= x
<1> DEFINE U == {z \in Nat : n - z \in T}
<1>1. PICK x \in T : x \in Nat /\ x <= n
  OBVIOUS
<1>2. n - x \in U
  BY <1>1
<1>3. PICK z \in U : \A y \in U : z <= y
  BY <1>2, Least
<1>4. n - z \in T
  OBVIOUS
<1>5. \A y \in T : n - y \in U
  <2> TAKE y \in T
  <2>1. y \in Nat /\ n - y \in Nat /\ n - (n - y) = y
    OBVIOUS
  <2>2. n - (n - y) \in T
    BY <2>1
  <2> QED BY <2>1, <2>2
<1>6. \A y \in T : y <= n - z
  <2> TAKE y \in T
  <2>1. y \in Nat /\ z \in Nat
    OBVIOUS
  <2>2. z <= n - y
    BY <1>3, <1>5
  <2> QED BY <2>1, <2>2
<1> QED BY <1>4, <1>6

(* What appending an element leaves and adds.                              *)
LEMMA PushLast ==
    ASSUME NEW S, NEW q \in Seq(S), NEW e \in S
    PROVE  LET t == Append(q, e) IN
           /\ t \in Seq(S) /\ Len(t) = Len(q) + 1 /\ Len(q) \in Nat
           /\ \A i \in 1..Len(q) : t[i] = q[i]
           /\ t[Len(q) + 1] = e
  OBVIOUS

(* What replacing the last element leaves and changes.                     *)
LEMMA SetLast ==
    ASSUME NEW S, NEW q \in Seq(S), Len(q) > 0, NEW e \in S
    PROVE  LET t == [q EXCEPT ![Len(q)] = e] IN
           /\ t \in Seq(S) /\ Len(t) = Len(q) /\ Len(q) \in Nat
           /\ \A i \in 1..Len(q) : i # Len(q) => t[i] = q[i]
           /\ t[Len(q)] = e
  OBVIOUS

(* A sequence over some set is a sequence of its own elements.             *)
LEMMA SeqIsSeq ==
    ASSUME NEW S, NEW q \in Seq(S)
    PROVE  IsSeq(q)
<1>1. Len(q) \in Nat /\ DOMAIN q = 1..Len(q) /\ q = [i \in 1..Len(q) |-> q[i]]
  OBVIOUS
<1> DEFINE E == {q[i] : i \in DOMAIN q}
<1>2. \A i \in 1..Len(q) : q[i] \in E
  BY <1>1
<1> HIDE DEF E
<1>3. [i \in 1..Len(q) |-> q[i]] \in Seq(E)
  BY <1>1, <1>2
<1>4. q \in Seq(E)
  BY <1>1, <1>3
<1> QED BY <1>4 DEF IsSeq, E

(* The domain of a sequence, and when it is empty.                         *)
LEMMA SeqDomain ==
    ASSUME NEW q, IsSeq(q)
    PROVE  Len(q) \in Nat /\ DOMAIN q = 1..Len(q) /\ (Len(q) = 0 <=> q = <<>>)
<1> DEFINE E == {q[i] : i \in DOMAIN q}
<1>1. q \in Seq(E)
  BY DEF IsSeq
<1> HIDE DEF E
<1> QED BY <1>1

(* The empty sequence.                                                     *)
LEMMA NullSeq ==
    ASSUME NEW q, q = <<>>
    PROVE  IsSeq(q) /\ Len(q) = 0 /\ 1..Len(q) = {}
<1>1. q \in Seq({})
  OBVIOUS
<1>2. IsSeq(q)
  BY <1>1, SeqIsSeq
<1>3. Len(q) = 0
  OBVIOUS
<1>4. 1..0 = {}
  OBVIOUS
<1> QED BY <1>2, <1>3, <1>4

(* Appending to a sequence.                                                *)
LEMMA SeqPush ==
    ASSUME NEW q, IsSeq(q), NEW e
    PROVE  LET t == Append(q, e) IN
           /\ IsSeq(t) /\ Len(t) = Len(q) + 1 /\ Len(q) \in Nat
           /\ \A i \in 1..Len(q) : t[i] = q[i]
           /\ t[Len(q) + 1] = e
<1> DEFINE E == {q[i] : i \in DOMAIN q} \union {e}
           t == Append(q, e)
<1>1. q \in Seq({q[i] : i \in DOMAIN q})
  BY DEF IsSeq
<1>2. q \in Seq(E)
  <2> DEFINE D == {q[i] : i \in DOMAIN q}
  <2>1. q \in Seq(D) /\ D \subseteq E
    BY <1>1
  <2> HIDE DEF D, E
  <2> QED BY <2>1
<1>3. e \in E
  OBVIOUS
<1> HIDE DEF E
<1>4. /\ t \in Seq(E) /\ Len(t) = Len(q) + 1 /\ Len(q) \in Nat
      /\ \A i \in 1..Len(q) : t[i] = q[i]
      /\ t[Len(q) + 1] = e
  BY <1>2, <1>3, PushLast
<1> QED BY <1>4, SeqIsSeq

(* Replacing the last element of a sequence.                               *)
LEMMA SeqSet ==
    ASSUME NEW q, IsSeq(q), Len(q) > 0, NEW e, NEW t, t = [q EXCEPT ![Len(q)] = e]
    PROVE  /\ IsSeq(t) /\ Len(t) = Len(q) /\ Len(q) \in Nat
           /\ \A i \in 1..Len(q) : i # Len(q) => t[i] = q[i]
           /\ t[Len(q)] = e
<1> DEFINE E == {q[i] : i \in DOMAIN q} \union {e}
<1>1. q \in Seq({q[i] : i \in DOMAIN q})
  BY DEF IsSeq
<1>2. q \in Seq(E)
  <2> DEFINE D == {q[i] : i \in DOMAIN q}
  <2>1. q \in Seq(D) /\ D \subseteq E
    BY <1>1
  <2> HIDE DEF D, E
  <2> QED BY <2>1
<1>3. e \in E
  OBVIOUS
<1> HIDE DEF E
<1>4. /\ t \in Seq(E) /\ Len(t) = Len(q) /\ Len(q) \in Nat
      /\ \A i \in 1..Len(q) : i # Len(q) => t[i] = q[i]
      /\ t[Len(q)] = e
  BY <1>2, <1>3, SetLast
<1> QED BY <1>4, SeqIsSeq

(* A prefix of a sequence.                                                 *)
LEMMA SeqPrefix ==
    ASSUME NEW q, IsSeq(q), NEW n \in 0..Len(q)
    PROVE  LET t == SubSeq(q, 1, n) IN
           IsSeq(t) /\ Len(t) = n /\ \A i \in 1..n : t[i] = q[i]
<1> DEFINE E == {q[i] : i \in DOMAIN q}
           t == SubSeq(q, 1, n)
<1>1. q \in Seq(E) /\ Len(q) \in Nat
  BY SeqDomain DEF IsSeq
<1> HIDE DEF E
<1>2. t \in Seq(E) /\ Len(t) = n /\ \A i \in 1..n : t[i] = q[i]
  <2>1. CASE n = 0
    BY <1>1, <2>1
  <2>2. CASE n # 0
    BY <1>1, <2>2
  <2> QED BY <2>1, <2>2
<1> QED BY <1>2, SeqIsSeq

(* A function on 1..n is a sequence.                                       *)
LEMMA SeqOfFunction ==
    ASSUME NEW n \in Nat, NEW q, DOMAIN q = 1..n, q = [i \in 1..n |-> q[i]]
    PROVE  IsSeq(q) /\ Len(q) = n
<1> DEFINE E == {q[i] : i \in DOMAIN q}
<1>1. \A i \in 1..n : q[i] \in E
  OBVIOUS
<1> HIDE DEF E
<1>2. [i \in 1..n |-> q[i]] \in Seq(E) /\ Len([i \in 1..n |-> q[i]]) = n
  BY <1>1
<1>3. q \in Seq(E) /\ Len(q) = n
  BY <1>2
<1> QED BY <1>3 DEF IsSeq, E

-----------------------------------------------------------------------------
(* One tracker.                                                            *)

(* The first match of a stack is the root, and no later one is.            *)
RootFirst(m) ==
    \A k \in 1..Len(m) : m[k] # 0 => (m[k] = 1 <=> \A j \in 1..(k - 1) : m[j] = 0)

(* The matches are a path of the tree: each one but the root is a child of *)
(* the match below it.  The code's index_in_parent leads to that node.     *)
PathOK(tree, m) ==
    \A k \in 1..Len(m) :
        m[k] # 0 =>
            /\ m[k] \in 1..Len(tree.fns)
            /\ m[k] # 1 => \E l \in 1..(k - 1) : /\ m[l] # 0 /\ tree.parent[m[k]] = m[l]
                                               /\ \A j \in 1..(k - 1) : l < j => m[j] = 0

(* An invocation tracker that follows n frames.                            *)
Track(t, n) ==
    /\ t = [tree |-> t.tree, exhausted |-> t.exhausted, match |-> t.match, root |-> t.root,
            processed |-> t.processed]
    /\ IsSeq(t.tree.fns) /\ Len(t.tree.fns) >= 1
    /\ IsSeq(t.tree.parent) /\ Len(t.tree.parent) = Len(t.tree.fns)
    /\ IsSeq(t.match) /\ Len(t.match) = n /\ RootFirst(t.match) /\ PathOK(t.tree, t.match)

(* The frame of a call is pushed,                                          *)
LEMMA PushTrack ==
    ASSUME NEW n \in Nat, NEW t, Track(t, n), NEW u, u = push_frame(t)
    PROVE  Track(u, n + 1)
<1> DEFINE m == Append(t.match, 0)
<1>1. IsSeq(t.match) /\ Len(t.match) = n /\ RootFirst(t.match)
  BY DEF Track
<1>2. IsSeq(m) /\ Len(m) = n + 1 /\ (\A i \in 1..n : m[i] = t.match[i]) /\ m[n + 1] = 0
  BY <1>1, SeqPush
<1> HIDE DEF m
<1>3. RootFirst(m)
  <2> SUFFICES ASSUME NEW k \in 1..Len(m), m[k] # 0
               PROVE  m[k] = 1 <=> \A j \in 1..(k - 1) : m[j] = 0
    BY DEF RootFirst
  <2>1. k \in 1..n /\ m[k] = t.match[k] /\ \A j \in 1..(k - 1) : j \in 1..n /\ m[j] = t.match[j]
    BY <1>2
  <2>2. t.match[k] = 1 <=> \A j \in 1..(k - 1) : t.match[j] = 0
    BY <1>1, <2>1 DEF RootFirst
  <2> QED BY <2>1, <2>2
<1>4. PathOK(t.tree, m)
  <2> SUFFICES ASSUME NEW k \in 1..Len(m), m[k] # 0
               PROVE  /\ m[k] \in 1..Len(t.tree.fns)
                      /\ m[k] # 1 => \E l \in 1..(k - 1) : /\ m[l] # 0 /\ t.tree.parent[m[k]] = m[l]
                                                         /\ \A j \in 1..(k - 1) : l < j => m[j] = 0
    BY DEF PathOK
  <2>1. k \in 1..n /\ m[k] = t.match[k] /\ \A j \in 1..(k - 1) : j \in 1..n /\ m[j] = t.match[j]
    BY <1>2
  <2>2. /\ t.match[k] \in 1..Len(t.tree.fns)
        /\ t.match[k] # 1 => \E l \in 1..(k - 1) : /\ t.match[l] # 0 /\ t.tree.parent[t.match[k]] = t.match[l]
                                                 /\ \A j \in 1..(k - 1) : l < j => t.match[j] = 0
    BY <1>1, <2>1 DEF PathOK, Track
  <2> QED BY <2>1, <2>2
<1>5. u = [tree |-> t.tree, exhausted |-> t.exhausted, match |-> m, root |-> t.root,
           processed |-> t.processed]
  BY DEF push_frame, Track, m
<1> QED BY <1>2, <1>3, <1>4, <1>5 DEF Track

(* and popped.                                                             *)
LEMMA PopTrack ==
    ASSUME NEW n \in Nat, n > 0, NEW t, Track(t, n), NEW u, u = pop_frame(t)
    PROVE  Track(u, n - 1)
<1> DEFINE m == SubSeq(t.match, 1, Len(t.match) - 1)
<1>1. IsSeq(t.match) /\ Len(t.match) = n /\ RootFirst(t.match) /\ t.match # <<>>
  BY SeqDomain DEF Track
<1>2. IsSeq(m) /\ Len(m) = n - 1 /\ \A i \in 1..(n - 1) : m[i] = t.match[i]
  BY <1>1, SeqPrefix
<1> HIDE DEF m
<1>3. RootFirst(m)
  <2> SUFFICES ASSUME NEW k \in 1..Len(m), m[k] # 0
               PROVE  m[k] = 1 <=> \A j \in 1..(k - 1) : m[j] = 0
    BY DEF RootFirst
  <2>1. k \in 1..n /\ m[k] = t.match[k] /\ \A j \in 1..(k - 1) : j \in 1..n /\ m[j] = t.match[j]
    BY <1>2
  <2>2. t.match[k] = 1 <=> \A j \in 1..(k - 1) : t.match[j] = 0
    BY <1>1, <2>1 DEF RootFirst
  <2> QED BY <2>1, <2>2
<1>4. PathOK(t.tree, m)
  <2> SUFFICES ASSUME NEW k \in 1..Len(m), m[k] # 0
               PROVE  /\ m[k] \in 1..Len(t.tree.fns)
                      /\ m[k] # 1 => \E l \in 1..(k - 1) : /\ m[l] # 0 /\ t.tree.parent[m[k]] = m[l]
                                                         /\ \A j \in 1..(k - 1) : l < j => m[j] = 0
    BY DEF PathOK
  <2>1. k \in 1..n /\ m[k] = t.match[k] /\ \A j \in 1..(k - 1) : j \in 1..n /\ m[j] = t.match[j]
    BY <1>2
  <2>2. /\ t.match[k] \in 1..Len(t.tree.fns)
        /\ t.match[k] # 1 => \E l \in 1..(k - 1) : /\ t.match[l] # 0 /\ t.tree.parent[t.match[k]] = t.match[l]
                                                 /\ \A j \in 1..(k - 1) : l < j => t.match[j] = 0
    BY <1>1, <2>1 DEF PathOK, Track
  <2> QED BY <2>1, <2>2
<1> DEFINE p == t.processed \/ (t.root > 0 /\ t.root > Len(m))
<1>5. u = [tree |-> t.tree, exhausted |-> t.exhausted, match |-> m, root |-> t.root, processed |-> p]
  <2>1. u = [t EXCEPT !.match = m, !.processed = p]
    BY <1>1 DEF pop_frame, m
  <2> HIDE DEF p
  <2> QED BY <2>1 DEF Track
<1> HIDE DEF p
<1> QED BY <1>2, <1>3, <1>4, <1>5 DEF Track

(* The current frame is recorded below the last authorized invocation.     *)
LEMMA RecordTrack ==
    ASSUME NEW n \in Nat, n > 0, NEW t, Track(t, n), NEW fn, NEW u, u = record_invocation(t, fn)
    PROVE  Track(u, n)
<1>1. CASE RecordError(t) # "Ok"
  BY <1>1 DEF record_invocation
<1>2. CASE RecordError(t) = "Ok"
  <2> DEFINE x == Len(t.tree.fns) + 1
             last == last_authorized_invocation(t)
             fns == Append(t.tree.fns, fn)
             parent == Append(t.tree.parent, last)
             tree == [fns |-> fns, parent |-> parent]
             ex == t.exhausted \union {x}
             m == [t.match EXCEPT ![Len(t.match)] = x]
  <2>1. /\ IsSeq(t.tree.fns) /\ Len(t.tree.fns) >= 1 /\ IsSeq(t.match) /\ Len(t.match) = n
        /\ RootFirst(t.match) /\ PathOK(t.tree, t.match)
        /\ IsSeq(t.tree.parent) /\ Len(t.tree.parent) = Len(t.tree.fns)
    BY DEF Track
  <2>2. /\ IsSeq(fns) /\ Len(fns) = x /\ x \in Nat /\ x >= 2
        /\ IsSeq(parent) /\ Len(parent) = x /\ parent[x] = last
        /\ \A i \in 1..(x - 1) : parent[i] = t.tree.parent[i]
    BY <2>1, SeqPush, SeqDomain
  <2>3. IsSeq(m) /\ Len(m) = n /\ (\A i \in 1..n : i # n => m[i] = t.match[i]) /\ m[n] = x
    <3>1. Len(t.match) > 0 /\ m = [t.match EXCEPT ![Len(t.match)] = x]
      BY <2>1
    <3> HIDE DEF m, x
    <3>2. /\ IsSeq(m) /\ Len(m) = Len(t.match)
          /\ \A i \in 1..Len(t.match) : i # Len(t.match) => m[i] = t.match[i]
          /\ m[Len(t.match)] = x
      BY <2>1, <3>1, SeqSet
    <3> QED BY <2>1, <3>2
  <2>4. u = [tree |-> tree, exhausted |-> ex, match |-> m, root |-> t.root, processed |-> t.processed]
    <3>1. u = [t EXCEPT !.tree = tree, !.exhausted = ex, !.match = m]
      BY <1>2 DEF record_invocation
    <3> HIDE DEF tree, ex, m
    <3> QED BY <3>1 DEF Track
  <2>5. t.match[n] = 0 /\ \E i \in 1..n : t.match[i] # 0
    <3>1. t.match # <<>>
      BY <2>1, SeqDomain
    <3>2. last_authorized_invocation(t) # 0 /\ ~current_frame_is_already_matched(t)
      BY <1>2 DEF RecordError
    <3>3. MatchedFrames(t) # {}
      BY <3>2 DEF last_authorized_invocation
    <3> QED BY <2>1, <3>1, <3>2, <3>3 DEF MatchedFrames, current_frame_is_already_matched
  <2>6. tree.fns = fns /\ tree.parent = parent
    OBVIOUS
  <2>7. \E l \in 1..(n - 1) : /\ t.match[l] # 0 /\ last = t.match[l]
                              /\ \A j \in 1..(n - 1) : l < j => t.match[j] = 0
    <3> HIDE DEF x, m
    <3> DEFINE S == MatchedFrames(t)
               l == CHOOSE i \in S : \A j \in S : j <= i
    <3>1. S = {i \in 1..n : t.match[i] # 0}
      BY <2>1 DEF MatchedFrames
    <3>2. S # {} /\ S \subseteq Nat /\ \A i \in S : i <= n
      BY <2>5, <3>1
    <3>3. last = t.match[l]
      BY <3>2 DEF last_authorized_invocation
    <3> HIDE DEF S, last
    <3>4. \E i \in S : \A j \in S : j <= i
      BY <3>2, Greatest
    <3>5. l \in S /\ \A j \in S : j <= l
      BY <3>4
    <3> HIDE DEF l
    <3>6. l \in 1..(n - 1)
      BY <2>5, <3>1, <3>5
    <3>7. \A j \in 1..(n - 1) : l < j => t.match[j] = 0
      BY <3>1, <3>5, <3>6
    <3>8. t.match[l] # 0
      BY <3>1, <3>5
    <3> QED BY <3>3, <3>6, <3>7, <3>8
  <2> HIDE DEF m, x, fns, parent, tree, ex, last
  <2>8. RootFirst(m)
    <3> SUFFICES ASSUME NEW k \in 1..Len(m), m[k] # 0
                 PROVE  m[k] = 1 <=> \A j \in 1..(k - 1) : m[j] = 0
      BY DEF RootFirst
    <3>1. \A j \in 1..(k - 1) : j \in 1..n /\ m[j] = t.match[j]
      BY <2>3
    <3>2. CASE k = n
      <4>1. PICK i \in 1..n : t.match[i] # 0
        BY <2>5
      <4>2. i \in 1..(k - 1)
        BY <2>5, <3>2, <4>1
      <4> QED BY <2>2, <2>3, <3>1, <3>2, <4>1, <4>2
    <3>3. CASE k # n
      <4>1. k \in 1..n /\ m[k] = t.match[k]
        BY <2>3, <3>3
      <4>2. t.match[k] = 1 <=> \A j \in 1..(k - 1) : t.match[j] = 0
        BY <2>1, <4>1 DEF RootFirst
      <4> QED BY <3>1, <4>1, <4>2
    <3> QED BY <3>2, <3>3
  <2>9. PathOK(tree, m)
    <3> SUFFICES ASSUME NEW k \in 1..Len(m), m[k] # 0
                 PROVE  /\ m[k] \in 1..Len(fns)
                        /\ m[k] # 1 => \E l \in 1..(k - 1) : /\ m[l] # 0 /\ parent[m[k]] = m[l]
                                                           /\ \A j \in 1..(k - 1) : l < j => m[j] = 0
      BY <2>6 DEF PathOK
    <3>1. \A j \in 1..(k - 1) : j \in 1..n /\ m[j] = t.match[j]
      BY <2>3
    <3>2. CASE k = n
      BY <2>2, <2>3, <2>7, <3>1, <3>2
    <3>3. CASE k # n
      <4>1. k \in 1..n /\ m[k] = t.match[k]
        BY <2>3, <3>3
      <4>2. /\ t.match[k] \in 1..Len(t.tree.fns)
            /\ t.match[k] # 1 => \E l \in 1..(k - 1) :
                                    /\ t.match[l] # 0 /\ t.tree.parent[t.match[k]] = t.match[l]
                                    /\ \A j \in 1..(k - 1) : l < j => t.match[j] = 0
        BY <2>1, <4>1 DEF PathOK
      <4>3. m[k] \in 1..(x - 1) /\ m[k] \in 1..x
        BY <2>1, <2>2, <4>1, <4>2, SeqDomain DEF x
      <4> QED BY <2>2, <3>1, <4>1, <4>2, <4>3
    <3> QED BY <3>2, <3>3
  <2> QED BY <2>2, <2>3, <2>4, <2>6, <2>8, <2>9 DEF Track
<1> QED BY <1>1, <1>2

(* A tracker whose root is the current frame.                              *)
LEMMA NewTrack ==
    ASSUME NEW n \in Nat, n > 0, NEW fn, NEW u, u = new_recording(fn, n)
    PROVE  Track(u, n)
<1> DEFINE m == [i \in 1..n |-> IF i = n THEN 1 ELSE 0]
           fns == <<fn>>
           parent == <<0>>
<1>1. u = [tree |-> [fns |-> fns, parent |-> parent], exhausted |-> {1}, match |-> m, root |-> n,
           processed |-> FALSE]
  BY DEF new_recording
<1>2. IsSeq(fns) /\ Len(fns) = 1 /\ IsSeq(parent) /\ Len(parent) = 1
  BY DEF IsSeq
<1>3. IsSeq(m) /\ Len(m) = n
  BY SeqOfFunction
<1>4. RootFirst(m)
  BY <1>3 DEF RootFirst
<1> DEFINE tree == [fns |-> fns, parent |-> parent]
<1>5. tree.fns = fns /\ tree.parent = parent
  OBVIOUS
<1> HIDE DEF fns, parent, tree
<1>6. PathOK(tree, m)
  <2>1. \A k \in 1..Len(m) : m[k] # 0 => m[k] = 1
    BY <1>3
  <2>2. Len(tree.fns) = 1
    BY <1>2, <1>5, Zenon
  <2>3. 1 \in 1..Len(tree.fns)
    BY <2>2
  <2> HIDE DEF m
  <2> QED BY <2>1, <2>3 DEF PathOK
<1> HIDE DEF m
<1> QED BY <1>1, <1>2, <1>3, <1>4, <1>5, <1>6 DEF Track, tree

(* Recording in a tracker that has matched a frame finds its stack sound:  *)
(* the manager has no internal error.                                      *)
LEMMA StackSound ==
    ASSUME NEW n \in Nat, NEW t, Track(t, n), has_matched_invocations_in_stack(t)
    PROVE  RecordError(t) \in {"Ok", "ExistingValue"}
<1> DEFINE S == MatchedFrames(t)
<1>1. Len(t.match) = n /\ RootFirst(t.match) /\ S # {} /\ S = {i \in 1..n : t.match[i] # 0}
  BY DEF Track, has_matched_invocations_in_stack, MatchedFrames
<1>2. ~BadStack(t)
  <2> SUFFICES ASSUME NEW i \in S
               PROVE  (t.match[i] = 1) <=> (\A j \in S : i <= j)
    BY DEF BadStack
  <2>1. t.match[i] = 1 <=> \A j \in 1..(i - 1) : t.match[j] = 0
    BY <1>1 DEF RootFirst
  <2>2. (\A j \in 1..(i - 1) : t.match[j] = 0) <=> \A j \in S : i <= j
    <3> HIDE DEF S
    <3> QED BY <1>1
  <2> QED BY <2>1, <2>2
<1>3. last_authorized_invocation(t) # 0
  <2> DEFINE l == CHOOSE i \in S : \A j \in S : j <= i
  <2>1. \E i \in S : \A j \in S : j <= i
    <3> HIDE DEF S
    <3>1. S \subseteq Nat /\ \A x \in S : x <= n
      BY <1>1
    <3> QED BY <1>1, <3>1, Greatest
  <2>2. l \in S
    BY <2>1
  <2>3. last_authorized_invocation(t) = t.match[l]
    BY <1>1 DEF last_authorized_invocation
  <2> HIDE DEF l, S
  <2> QED BY <1>1, <2>2, <2>3
<1> QED BY <1>2, <1>3 DEF RecordError

-----------------------------------------------------------------------------
(* The trackers, the handles and the nonces.                               *)

(* A tracker of an address: it has a nonce unless the address is the       *)
(* source account.                                                         *)
Owned(K, x, n) ==
    /\ x = [addr |-> x.addr, nonce |-> x.nonce, t |-> x.t]
    /\ Track(x.t, n)
    /\ x.addr \in Addresses /\ x.nonce \in Nat
    /\ x.nonce = 0 <=> K[x.addr] = "source"

(* The nonces the trackers ts have consumed.                               *)
NoncesOf(ts) == {<<ts[i].addr, ts[i].nonce>> : i \in {j \in 1..Len(ts) : ts[j].nonce # 0}}

(* Trackers ts of n frames, handles hs and nonces ns that go together,     *)
(* when d nonces have been drawn and the footprint is fp.                  *)
Point(K, d, fp, ts, hs, ns, n) ==
    /\ IsSeq(ts) /\ \A i \in 1..Len(ts) : Owned(K, ts[i], n) /\ ts[i].nonce <= d
    /\ \A i, j \in 1..Len(ts) : i # j /\ ts[i].nonce # 0 => ts[i].nonce # ts[j].nonce
    /\ ns = NoncesOf(ts)
    /\ hs \in [Handles -> Nat]
    /\ \A h \in Handles : hs[h] # 0 => hs[h] \in 1..Len(ts) /\ ts[hs[h]].addr = AddressOf[h]
    /\ \A x \in ns : <<"nonce", x[1], x[2]>> \in fp

(* Drawing more nonces and listing more keys does no harm.                 *)
LEMMA PointLater ==
    ASSUME NEW K, NEW d \in Nat, NEW fp, NEW ts, NEW hs, NEW ns, NEW n, Point(K, d, fp, ts, hs, ns, n),
           NEW e \in Nat, d <= e, NEW gp, fp \subseteq gp
    PROVE  Point(K, e, gp, ts, hs, ns, n)
<1>1. \A i \in 1..Len(ts) : Owned(K, ts[i], n) /\ ts[i].nonce <= e
  <2> SUFFICES ASSUME NEW i \in 1..Len(ts) PROVE Owned(K, ts[i], n) /\ ts[i].nonce <= e
    OBVIOUS
  <2>1. Owned(K, ts[i], n) /\ ts[i].nonce <= d
    BY DEF Point
  <2>2. ts[i].nonce \in Nat
    BY <2>1 DEF Owned
  <2> QED BY <2>1, <2>2
<1> QED BY <1>1 DEF Point

(* The trackers x and y are of one entry.                                  *)
OneEntry(x, y) ==
    /\ y.addr = x.addr /\ y.nonce = x.nonce
    /\ y = [addr |-> y.addr, nonce |-> y.nonce, t |-> y.t]

(* Nothing but the frames the trackers follow changes.                     *)
LEMMA PointSame ==
    ASSUME NEW K, NEW d, NEW fp, NEW ts, NEW hs, NEW ns, NEW n, Point(K, d, fp, ts, hs, ns, n),
           NEW us, NEW m, IsSeq(us), Len(us) = Len(ts),
           \A i \in 1..Len(ts) : OneEntry(ts[i], us[i]) /\ Track(us[i].t, m)
    PROVE  Point(K, d, fp, us, hs, ns, m)
<1>0. \A i \in 1..Len(ts) : us[i].addr = ts[i].addr /\ us[i].nonce = ts[i].nonce
  BY DEF OneEntry
<1>1. NoncesOf(us) = NoncesOf(ts)
  BY <1>0 DEF NoncesOf
<1>2. \A i \in 1..Len(us) : Owned(K, us[i], m) /\ us[i].nonce <= d
  BY DEF Point, Owned, OneEntry
<1>3. \A i, j \in 1..Len(us) : i # j /\ us[i].nonce # 0 => us[i].nonce # us[j].nonce
  <2>1. \A i, j \in 1..Len(ts) : i # j /\ ts[i].nonce # 0 => ts[i].nonce # ts[j].nonce
    BY DEF Point
  <2> QED BY <1>0, <2>1
<1>4. ns = NoncesOf(us) /\ hs \in [Handles -> Nat] /\ \A x \in ns : <<"nonce", x[1], x[2]>> \in fp
  BY <1>1 DEF Point
<1>5. \A h \in Handles : hs[h] # 0 => hs[h] \in 1..Len(us) /\ us[hs[h]].addr = AddressOf[h]
  BY <1>0 DEF Point
<1> QED BY <1>2, <1>3, <1>4, <1>5 DEF Point

(* The field t of a tracker is replaced.                                   *)
LEMMA WithTrack ==
    ASSUME NEW K, NEW n, NEW x, Owned(K, x, n), NEW t, NEW y, y = [x EXCEPT !.t = t]
    PROVE  OneEntry(x, y) /\ y.t = t
<1>1. x = [addr |-> x.addr, nonce |-> x.nonce, t |-> x.t]
  BY DEF Owned
<1>2. y = [addr |-> x.addr, nonce |-> x.nonce, t |-> t]
  BY <1>1
<1> QED BY <1>2 DEF OneEntry

(* The same, of any tracker.                                               *)
LEMMA WithSomeTrack ==
    \A K, n, x, t, y : Owned(K, x, n) /\ y = [x EXCEPT !.t = t] => OneEntry(x, y) /\ y.t = t
<1>1. ASSUME NEW K, NEW n, NEW x, Owned(K, x, n), NEW t, NEW y, y = [x EXCEPT !.t = t]
      PROVE  OneEntry(x, y) /\ y.t = t
  BY <1>1, WithTrack
<1> QED BY <1>1

(* All trackers get a frame.                                               *)
LEMMA PointPush ==
    ASSUME NEW K, NEW d, NEW fp, NEW ts, NEW hs, NEW ns, NEW n \in Nat, Point(K, d, fp, ts, hs, ns, n),
           NEW us, us = PushAll(ts)
    PROVE  Point(K, d, fp, us, hs, ns, n + 1)
<1>1. IsSeq(ts) /\ \A i \in 1..Len(ts) : Owned(K, ts[i], n)
  BY DEF Point
<1>2. DOMAIN ts = 1..Len(ts) /\ Len(ts) \in Nat
  BY <1>1, SeqDomain
<1>3. us = [i \in 1..Len(ts) |-> [ts[i] EXCEPT !.t = push_frame(@)]]
  BY <1>2 DEF PushAll
<1>4. IsSeq(us) /\ Len(us) = Len(ts)
  BY <1>2, <1>3, SeqOfFunction
<1>5. ASSUME NEW i \in 1..Len(ts)
      PROVE  OneEntry(ts[i], us[i]) /\ Track(us[i].t, n + 1)
  <2> DEFINE t == push_frame(ts[i].t)
  <2>1. us[i] = [ts[i] EXCEPT !.t = t]
    BY <1>3
  <2>2. Track(t, n + 1)
    BY <1>1, PushTrack DEF Owned
  <2> HIDE DEF t
  <2>3. us[i].t = t /\ OneEntry(ts[i], us[i])
    BY <1>1, <2>1, WithTrack
  <2> QED BY <2>2, <2>3
<1> QED BY <1>4, <1>5, PointSame

(* All trackers lose one.                                                  *)
LEMMA PointPop ==
    ASSUME NEW K, NEW d, NEW fp, NEW ts, NEW hs, NEW ns, NEW n \in Nat, n > 0,
           Point(K, d, fp, ts, hs, ns, n), NEW us, us = PopAll(ts)
    PROVE  Point(K, d, fp, us, hs, ns, n - 1)
<1>1. IsSeq(ts) /\ \A i \in 1..Len(ts) : Owned(K, ts[i], n)
  BY DEF Point
<1>2. DOMAIN ts = 1..Len(ts) /\ Len(ts) \in Nat
  BY <1>1, SeqDomain
<1>3. us = [i \in 1..Len(ts) |-> [ts[i] EXCEPT !.t = pop_frame(@)]]
  BY <1>2 DEF PopAll
<1>4. IsSeq(us) /\ Len(us) = Len(ts)
  BY <1>2, <1>3, SeqOfFunction
<1>5. ASSUME NEW i \in 1..Len(ts)
      PROVE  OneEntry(ts[i], us[i]) /\ Track(us[i].t, n - 1)
  <2> DEFINE t == pop_frame(ts[i].t)
  <2>1. us[i] = [ts[i] EXCEPT !.t = t]
    BY <1>3
  <2>2. Track(t, n - 1)
    BY <1>1, PopTrack DEF Owned
  <2> HIDE DEF t
  <2>3. us[i].t = t /\ OneEntry(ts[i], us[i])
    BY <1>1, <2>1, WithTrack
  <2> QED BY <2>2, <2>3
<1> QED BY <1>4, <1>5, PointSame

(* One tracker records the current frame.                                  *)
LEMMA PointRecord ==
    ASSUME NEW K, NEW d, NEW fp, NEW ts, NEW hs, NEW ns, NEW n \in Nat, n > 0,
           Point(K, d, fp, ts, hs, ns, n), NEW i \in 1..Len(ts), NEW fn,
           NEW us, us = [ts EXCEPT ![i].t = record_invocation(@, fn)]
    PROVE  Point(K, d, fp, us, hs, ns, n)
<1> DEFINE t == record_invocation(ts[i].t, fn)
<1>1. IsSeq(ts) /\ \A j \in 1..Len(ts) : Owned(K, ts[j], n)
  BY DEF Point
<1>2. DOMAIN ts = 1..Len(ts) /\ Len(ts) \in Nat
  BY <1>1, SeqDomain
<1>3. us = [j \in 1..Len(ts) |-> IF j = i THEN [ts[i] EXCEPT !.t = t] ELSE ts[j]]
  <2>1. ts = [j \in 1..Len(ts) |-> ts[j]]
    BY <1>1, <1>2 DEF IsSeq
  <2> QED BY <1>2, <2>1
<1>4. IsSeq(us) /\ Len(us) = Len(ts)
  BY <1>2, <1>3, SeqOfFunction
<1>5. Track(t, n)
  BY <1>1, RecordTrack DEF Owned
<1> HIDE DEF t
<1>6. ASSUME NEW j \in 1..Len(ts)
      PROVE  OneEntry(ts[j], us[j]) /\ Track(us[j].t, n)
  <2>1. CASE j = i
    <3> DEFINE x == ts[i]
               y == us[i]
    <3>1. y = [x EXCEPT !.t = t] /\ Owned(K, x, n)
      BY <1>1, <1>3
    <3> HIDE DEF x, y
    <3>2. y.t = t /\ OneEntry(x, y)
      BY <3>1, WithSomeTrack, Zenon
    <3> QED BY <1>5, <2>1, <3>2 DEF x, y
  <2>2. CASE j # i
    <3>1. us[j] = ts[j]
      BY <1>3, <2>2
    <3> QED BY <1>1, <3>1 DEF Owned, OneEntry
  <2> QED BY <2>1, <2>2
<1> QED BY <1>4, <1>6, PointSame

(* The entry of one handle is dropped.                                     *)
LEMMA PointHandle ==
    ASSUME NEW K, NEW d, NEW fp, NEW ts, NEW hs, NEW ns, NEW n, Point(K, d, fp, ts, hs, ns, n),
           NEW h \in Handles, NEW gs, gs = hs \/ gs = [hs EXCEPT ![h] = 0]
    PROVE  Point(K, d, fp, ts, gs, ns, n)
<1>1. hs \in [Handles -> Nat]
  BY DEF Point
<1>2. gs \in [Handles -> Nat] /\ \A g \in Handles : gs[g] # 0 => gs[g] = hs[g]
  BY <1>1
<1> QED BY <1>2 DEF Point

(* A tracker of a new entry for the object h, with the next nonce unless   *)
(* the address is the source account: e nonces have then been drawn, the   *)
(* footprint is gp, and us, gs and os are the trackers, handles, nonces.   *)
Added(K, d, fp, ts, hs, ns, n, h, fn, nonce, e, gp, us, gs, os) ==
    /\ nonce = IF K[AddressOf[h]] = "source" THEN 0 ELSE d + 1
    /\ us = Append(ts, [addr |-> AddressOf[h], nonce |-> nonce, t |-> new_recording(fn, n)])
    /\ gs = [hs EXCEPT ![h] = Len(ts) + 1]
    /\ IF nonce = 0 THEN e = d /\ gp = fp /\ os = ns
       ELSE /\ e = nonce /\ gp = fp \union {<<"nonce", AddressOf[h], nonce>>}
            /\ os = ns \union {<<AddressOf[h], nonce>>}

(* Its nonce is new, and listed.                                           *)
LEMMA PointNew ==
    ASSUME NEW K, NEW d \in Nat, NEW fp, NEW ts, NEW hs, NEW ns, NEW n \in Nat, n > 0,
           Point(K, d, fp, ts, hs, ns, n), NEW h \in Handles, NEW fn, NEW nonce,
           NEW e, NEW gp, NEW us, NEW gs, NEW os,
           Added(K, d, fp, ts, hs, ns, n, h, fn, nonce, e, gp, us, gs, os)
    PROVE  Point(K, e, gp, us, gs, os, n) /\ e \in Nat /\ d <= e /\ fp \subseteq gp
<1> USE DEF Added
<1> DEFINE a == AddressOf[h]
           t == new_recording(fn, n)
           x == [addr |-> a, nonce |-> nonce, t |-> t]
           k == Len(ts) + 1
<1>1. IsSeq(ts) /\ (\A i \in 1..Len(ts) : Owned(K, ts[i], n) /\ ts[i].nonce <= d)
      /\ hs \in [Handles -> Nat] /\ ns = NoncesOf(ts)
  BY DEF Point
<1>2. Track(t, n)
  BY NewTrack
<1>3. us = Append(ts, x)
  OBVIOUS
<1> HIDE DEF t
<1>4. a \in Addresses /\ nonce \in Nat /\ (nonce = 0 <=> K[a] = "source")
      /\ (nonce # 0 => nonce = d + 1)
  BY DEF Addresses
<1>5. x.addr = a /\ x.nonce = nonce /\ x.t = t /\ x = [addr |-> x.addr, nonce |-> x.nonce, t |-> x.t]
  OBVIOUS
<1> HIDE DEF x, a
<1>6. Owned(K, x, n)
  BY <1>2, <1>4, <1>5 DEF Owned
<1>7. /\ IsSeq(us) /\ Len(us) = k /\ Len(ts) \in Nat /\ us[k] = x
      /\ \A i \in 1..Len(ts) : us[i] = ts[i]
  BY <1>1, <1>3, SeqPush
<1>8. \A i \in 1..Len(us) : i \in 1..Len(ts) \/ i = k
  BY <1>7
<1>9. e \in Nat /\ d <= e /\ fp \subseteq gp /\ nonce <= e
  BY <1>4
<1>10. \A i \in 1..Len(ts) : ts[i].nonce \in Nat /\ ts[i].nonce <= e
  <2> SUFFICES ASSUME NEW i \in 1..Len(ts) PROVE ts[i].nonce \in Nat /\ ts[i].nonce <= e
    OBVIOUS
  <2>1. ts[i].nonce \in Nat /\ ts[i].nonce <= d
    BY <1>1 DEF Owned
  <2> QED BY <1>9, <2>1
<1>11. \A i \in 1..Len(us) : Owned(K, us[i], n) /\ us[i].nonce <= e
  BY <1>1, <1>5, <1>6, <1>7, <1>8, <1>9, <1>10
<1>12. ASSUME NEW i \in 1..Len(us), NEW j \in 1..Len(us), i # j, us[i].nonce # 0
       PROVE  us[i].nonce # us[j].nonce
  <2>1. CASE i \in 1..Len(ts) /\ j \in 1..Len(ts)
    BY <1>7, <1>12, <2>1 DEF Point
  <2>2. CASE i = k /\ j \in 1..Len(ts)
    <3>1. us[i].nonce = d + 1 /\ us[j].nonce \in Nat /\ us[j].nonce <= d
      BY <1>1, <1>4, <1>5, <1>7, <1>10, <1>12, <2>2
    <3> QED BY <3>1
  <2>3. CASE i \in 1..Len(ts) /\ j = k
    <3>1. us[j].nonce \in {0, d + 1} /\ us[i].nonce \in Nat /\ us[i].nonce <= d
      BY <1>1, <1>4, <1>5, <1>7, <1>10, <2>3
    <3> QED BY <1>12, <3>1
  <2> QED BY <1>8, <1>12, <2>1, <2>2, <2>3
<1>13. os = NoncesOf(us)
  <2>1. \A i \in 1..Len(ts) : i \in 1..Len(us)
    BY <1>7
  <2>2. k \in 1..Len(us)
    BY <1>7
  <2> HIDE DEF k
  <2>3. CASE nonce = 0
    BY <1>1, <1>5, <1>7, <1>8, <2>1, <2>3 DEF NoncesOf
  <2>4. CASE nonce # 0
    <3>1. os = ns \union {<<a, nonce>>}
      BY <2>4 DEF a
    <3> QED BY <1>1, <1>5, <1>7, <1>8, <2>1, <2>2, <2>4, <3>1 DEF NoncesOf
  <2> QED BY <2>3, <2>4
<1>14. gs \in [Handles -> Nat]
  BY <1>1, <1>7
<1>15. ASSUME NEW g \in Handles, gs[g] # 0
       PROVE  gs[g] \in 1..Len(us) /\ us[gs[g]].addr = AddressOf[g]
  <2>1. CASE g = h
    <3>1. gs[g] = k
      BY <1>1, <2>1
    <3> QED BY <1>5, <1>7, <2>1, <3>1 DEF a
  <2>2. CASE g # h
    <3>1. gs[g] = hs[g]
      BY <1>1, <2>2
    <3>2. hs[g] \in 1..Len(ts) /\ ts[hs[g]].addr = AddressOf[g]
      BY <1>15, <3>1 DEF Point
    <3> QED BY <1>7, <3>1, <3>2
  <2> QED BY <2>1, <2>2
<1>16. \A y \in os : <<"nonce", y[1], y[2]>> \in gp
  <2>1. \A y \in ns : <<"nonce", y[1], y[2]>> \in fp
    BY DEF Point
  <2>2. CASE nonce = 0
    <3>1. os = ns /\ gp = fp
      BY <2>2
    <3> QED BY <2>1, <3>1
  <2>3. CASE nonce # 0
    <3> DEFINE z == <<a, nonce>>
    <3>1. os = ns \union {z} /\ gp = fp \union {<<"nonce", a, nonce>>} /\ z[1] = a /\ z[2] = nonce
      BY <2>3 DEF a
    <3> HIDE DEF z
    <3> QED BY <2>1, <3>1
  <2> QED BY <2>2, <2>3
<1> QED BY <1>7, <1>9, <1>11, <1>12, <1>13, <1>14, <1>15, <1>16 DEF Point

-----------------------------------------------------------------------------
(* The invariant.                                                          *)

Depth(st) == IF st = <<>> THEN 0 ELSE Len(st) - 1

(* A rollback to the snapshot s, taken with n frames, is sound.            *)
Sound(K, d, fp, s, n) == Point(K, d, fp, s.trackers, s.handles, s.nonces, n)

(* The snapshot of the host function's frame is empty.                     *)
SnapsOK(K, d, fp, st) ==
    /\ IsSeq(st)
    /\ \A p \in 1..Len(st) : Sound(K, d, fp, st[p].snap, p - 1)
    /\ Len(st) >= 1 => st[1].snap.trackers = <<>> /\ st[1].snap.nonces = {}

(* What the properties are proved from.                                    *)
RecInv ==
    /\ AccountKind \in Worlds /\ drawn \in Nat
    /\ Point(AccountKind, drawn, footprint, trackers, handles, nonces, Depth(stack))
    /\ SnapsOK(AccountKind, drawn, footprint, stack)
    /\ stack = <<>> /\ err \notin {"Ok", "ExceededLimit"} => trackers = <<>> /\ nonces = {}
    /\ Recorded => \A i \in DOMAIN trackers : emulate_authentication(trackers[i].addr) \subseteq footprint
    /\ err # "InternalError"

(* Snapshots stay sound.                                                   *)
LEMMA SnapsLater ==
    ASSUME NEW K, NEW d \in Nat, NEW fp, NEW st, SnapsOK(K, d, fp, st),
           NEW e \in Nat, d <= e, NEW gp, fp \subseteq gp
    PROVE  SnapsOK(K, e, gp, st)
<1>1. ASSUME NEW p \in 1..Len(st) PROVE Sound(K, e, gp, st[p].snap, p - 1)
  <2>1. Point(K, d, fp, st[p].snap.trackers, st[p].snap.handles, st[p].snap.nonces, p - 1)
    BY DEF SnapsOK, Sound
  <2> QED BY <2>1, PointLater DEF Sound
<1> QED BY <1>1 DEF SnapsOK

(* The length of a stack with frames.                                      *)
LEMMA StackDepth ==
    ASSUME RecInv
    PROVE  /\ IsSeq(stack) /\ Len(stack) \in Nat /\ (Len(stack) = 0 <=> stack = <<>>)
           /\ stack # <<>> => Len(stack) >= 1 /\ Depth(stack) = CallStackLen /\ CallStackLen \in Nat
           /\ stack # <<>> /\ CallStackLen = 0 => Len(stack) = 1
           /\ stack # <<>> /\ CallStackLen > 0 => Len(stack) >= 2
<1>1. IsSeq(stack)
  BY DEF RecInv, SnapsOK
<1>2. Len(stack) \in Nat /\ (Len(stack) = 0 <=> stack = <<>>)
  BY <1>1, SeqDomain
<1> QED BY <1>1, <1>2 DEF Depth, CallStackLen

(* What has to be shown of a step that leaves frames on the stack.         *)
LEMMA InvAfter ==
    ASSUME RecInv, AccountKind' = AccountKind, drawn' \in Nat, stack' # <<>>, err' # "InternalError",
           Point(AccountKind, drawn', footprint', trackers', handles', nonces', Depth(stack')),
           SnapsOK(AccountKind, drawn', footprint', stack')
    PROVE  RecInv'
<1>1. (AccountKind \in Worlds)'
  BY DEF RecInv
<1>2. ~Recorded'
  BY DEF Recorded
<1> QED BY <1>1, <1>2 DEF RecInv

(* A call.                                                                 *)
LEMMA CallOK ==
    ASSUME RecInv, NEW c, NEW try, Call(c, try)
    PROVE  RecInv'
<1> DEFINE n == Depth(stack)
           s == snapshot(trackers')
           f == [fn |-> c, try |-> try, snap |-> s]
<1>1. /\ stack # <<>> /\ err = "Ok" /\ trackers' = PushAll(trackers) /\ stack' = Append(stack, f)
      /\ AccountKind' = AccountKind /\ handles' = handles /\ nonces' = nonces /\ drawn' = drawn
      /\ footprint' = footprint /\ err' = err
  BY DEF Call, Running
<1>2. s.trackers = trackers' /\ s.handles = handles /\ s.nonces = nonces /\ f.snap = s
  BY DEF snapshot
<1> HIDE DEF s
<1>3. f.snap = s
  BY <1>2
<1> HIDE DEF f
<1>4. n \in Nat /\ Len(stack) = n + 1 /\ IsSeq(stack)
  BY <1>1, StackDepth DEF CallStackLen
<1>5. Point(AccountKind, drawn, footprint, trackers, handles, nonces, n)
      /\ SnapsOK(AccountKind, drawn, footprint, stack)
  BY DEF RecInv
<1> HIDE DEF n
<1>6. Point(AccountKind, drawn, footprint, trackers', handles, nonces, n + 1)
  BY <1>1, <1>4, <1>5, PointPush
<1>7. /\ IsSeq(stack') /\ Len(stack') = n + 2 /\ stack'[n + 2] = f
      /\ \A p \in 1..(n + 1) : stack'[p] = stack[p]
  <2>1. /\ IsSeq(stack') /\ Len(stack') = Len(stack) + 1 /\ stack'[Len(stack) + 1] = f
        /\ \A p \in 1..Len(stack) : stack'[p] = stack[p]
    BY <1>1, <1>4, SeqPush
  <2> QED BY <1>4, <2>1
<1>8. Depth(stack') = n + 1 /\ stack' # <<>>
  BY <1>4, <1>7, SeqDomain DEF Depth
<1>9. SnapsOK(AccountKind, drawn, footprint, stack')
  <2>1. ASSUME NEW p \in 1..Len(stack') PROVE Sound(AccountKind, drawn, footprint, stack'[p].snap, p - 1)
    <3>1. CASE p \in 1..(n + 1)
      <4>1. Sound(AccountKind, drawn, footprint, stack[p].snap, p - 1)
        BY <1>4, <1>5, <3>1 DEF SnapsOK
      <4> QED BY <1>7, <3>1, <4>1
    <3>2. CASE p = n + 2
      <4>1. Sound(AccountKind, drawn, footprint, s, n + 1)
        BY <1>2, <1>6 DEF Sound
      <4>2. p - 1 = n + 1
        BY <1>4, <3>2
      <4> QED BY <1>3, <1>7, <3>2, <4>1, <4>2
    <3> QED BY <1>4, <1>7, <3>1, <3>2
  <2>2. stack'[1].snap.trackers = <<>> /\ stack'[1].snap.nonces = {}
    <3>1. stack'[1] = stack[1] /\ Len(stack) >= 1
      BY <1>4, <1>7
    <3> QED BY <1>5, <3>1 DEF SnapsOK
  <2> QED BY <1>7, <2>1, <2>2 DEF SnapsOK
<1>10. drawn' \in Nat /\ err' # "InternalError"
  BY <1>1 DEF RecInv
<1> QED BY <1>1, <1>6, <1>8, <1>9, <1>10, InvAfter

(* A step that leaves the stack alone.                                     *)
LEMMA StackKept ==
    ASSUME RecInv, AccountKind' = AccountKind, stack' = stack, stack # <<>>, err' # "InternalError",
           drawn' \in Nat, drawn <= drawn', footprint \subseteq footprint',
           Point(AccountKind, drawn', footprint', trackers', handles', nonces', CallStackLen)
    PROVE  RecInv'
<1>1. Depth(stack') = CallStackLen
  BY StackDepth
<1>2. SnapsOK(AccountKind, drawn, footprint, stack) /\ drawn \in Nat
  BY DEF RecInv
<1>3. SnapsOK(AccountKind, drawn', footprint', stack')
  BY <1>2, SnapsLater
<1> QED BY <1>1, <1>3, InvAfter

(* The first of some trackers is one of them.                              *)
LEMMA FirstIn ==
    ASSUME RecInv, NEW a, Open(a) # {}
    PROVE  First(Open(a)) \in Open(a)
<1>1. DOMAIN trackers \subseteq Nat
  BY SeqDomain DEF RecInv, Point
<1>2. Open(a) \subseteq Nat
  BY <1>1 DEF Open
<1>3. \E i \in Open(a) : \A j \in Open(a) : i <= j
  BY <1>2, Least
<1> QED BY <1>3 DEF First

(* A requirement is recorded in a tracker that has matched a frame.        *)
LEMMA RecordOK ==
    ASSUME RecInv, stack # <<>>, CallStackLen > 0, AccountKind' = AccountKind, stack' = stack,
           footprint' = footprint, NEW i \in DOMAIN trackers, has_matched_invocations_in_stack(trackers[i].t),
           NEW h \in Handles, NEW hs, hs = handles \/ hs = [handles EXCEPT ![h] = 0], Record(i, hs)
    PROVE  RecInv'
<1>1. /\ trackers' = [trackers EXCEPT ![i].t = record_invocation(@, Top.fn)]
      /\ err' = RecordError(trackers[i].t) /\ handles' = hs /\ nonces' = nonces /\ drawn' = drawn
  BY DEF Record
<1>2. CallStackLen \in Nat /\ Depth(stack) = CallStackLen
  BY StackDepth
<1>3. Point(AccountKind, drawn, footprint, trackers, handles, nonces, CallStackLen) /\ drawn \in Nat
  BY <1>2 DEF RecInv
<1>4. i \in 1..Len(trackers) /\ Track(trackers[i].t, CallStackLen)
  BY <1>3, SeqDomain DEF Point, Owned
<1>5. err' # "InternalError"
  BY <1>1, <1>2, <1>4, StackSound
<1>6. Point(AccountKind, drawn, footprint, trackers', handles, nonces, CallStackLen)
  BY <1>1, <1>2, <1>3, <1>4, PointRecord
<1>7. Point(AccountKind, drawn, footprint, trackers', handles', nonces, CallStackLen)
  BY <1>1, <1>6, PointHandle
<1>8. Point(AccountKind, drawn', footprint', trackers', handles', nonces', CallStackLen)
  BY <1>1, <1>7
<1>9. drawn' \in Nat /\ drawn <= drawn' /\ footprint \subseteq footprint'
  BY <1>1, <1>3
<1> QED BY <1>5, <1>8, <1>9, StackKept

(* require_auth.                                                           *)
LEMMA RequireOK ==
    ASSUME RecInv, NEW h \in Handles, RequireAuth(h)
    PROVE  RecInv'
<1> DEFINE i == handles[h]
           a == AddressOf[h]
           matched == has_matched_invocations_in_stack(trackers[i].t)
           hs == IF i # 0 /\ ~matched THEN [handles EXCEPT ![h] = 0] ELSE handles
<1>1. /\ stack # <<>> /\ err = "Ok" /\ CallStackLen > 0 /\ AccountKind' = AccountKind /\ stack' = stack
      /\ require_auth_internal(h)
  BY DEF RequireAuth, Running
<1>2. CallStackLen \in Nat /\ Depth(stack) = CallStackLen
  BY <1>1, StackDepth
<1>3. Point(AccountKind, drawn, footprint, trackers, handles, nonces, CallStackLen) /\ drawn \in Nat
  BY <1>2 DEF RecInv
<1>4. handles \in [Handles -> Nat] /\ DOMAIN trackers = 1..Len(trackers)
      /\ (i # 0 => i \in DOMAIN trackers)
  BY <1>3, SeqDomain DEF Point
<1>5. hs = handles \/ hs = [handles EXCEPT ![h] = 0]
  OBVIOUS
<1>6. hs[h] # 0 => i # 0 /\ matched
  BY <1>4
<1>7. CASE IsDirectInvoker(a)
  <2>1. /\ trackers' = trackers /\ handles' = handles /\ nonces' = nonces /\ drawn' = drawn
        /\ footprint' = footprint /\ err' = err
    BY <1>1, <1>7 DEF require_auth_internal
  <2>2. drawn' \in Nat /\ drawn <= drawn' /\ footprint \subseteq footprint' /\ err' # "InternalError"
    BY <1>1, <1>3, <2>1
  <2>3. Point(AccountKind, drawn', footprint', trackers', handles', nonces', CallStackLen)
    BY <1>3, <2>1
  <2> QED BY <1>1, <2>2, <2>3, StackKept
<1>8. CASE ~IsDirectInvoker(a) /\ hs[h] # 0
  <2>1. Record(i, hs) /\ footprint' = footprint
    BY <1>1, <1>8 DEF require_auth_internal, require_auth_recording
  <2>2. i \in DOMAIN trackers /\ matched
    BY <1>4, <1>6, <1>8
  <2> HIDE DEF hs, i
  <2> QED BY <1>1, <1>5, <2>1, <2>2, RecordOK DEF i
<1>9. CASE ~IsDirectInvoker(a) /\ hs[h] = 0 /\ Open(a) # {}
  <2> DEFINE j == First(Open(a))
  <2>1. Record(j, hs) /\ footprint' = footprint
    BY <1>1, <1>9 DEF require_auth_internal, require_auth_recording
  <2>2. j \in Open(a)
    BY <1>9, FirstIn
  <2>3. j \in DOMAIN trackers /\ has_matched_invocations_in_stack(trackers[j].t)
    BY <2>2 DEF Open
  <2> HIDE DEF hs, j
  <2> QED BY <1>1, <1>5, <2>1, <2>3, RecordOK
<1>10. CASE ~IsDirectInvoker(a) /\ hs[h] = 0 /\ Open(a) = {} /\ root_only /\ CallStackLen # 1
  <2>1. /\ trackers' = trackers /\ handles' = hs /\ nonces' = nonces /\ drawn' = drawn
        /\ footprint' = footprint /\ err' = "InvalidAction"
    BY <1>1, <1>10 DEF require_auth_internal, require_auth_recording
  <2> HIDE DEF hs
  <2>2. Point(AccountKind, drawn, footprint, trackers, hs, nonces, CallStackLen)
    BY <1>3, <1>5, PointHandle
  <2>3. Point(AccountKind, drawn', footprint', trackers', handles', nonces', CallStackLen)
    BY <2>1, <2>2
  <2>4. drawn' \in Nat /\ drawn <= drawn' /\ footprint \subseteq footprint' /\ err' # "InternalError"
    BY <1>3, <2>1
  <2> QED BY <1>1, <2>3, <2>4, StackKept
<1>11. CASE ~IsDirectInvoker(a) /\ hs[h] = 0 /\ Open(a) = {} /\ ~(root_only /\ CallStackLen # 1)
  <2> DEFINE nonce == IF AccountKind[a] = "source" THEN 0 ELSE drawn + 1
  <2>1. NewTracker(h)
    BY <1>1, <1>11 DEF require_auth_internal, require_auth_recording
  <2> DEFINE fn == Top.fn
             n == CallStackLen
  <2>2. Added(AccountKind, drawn, footprint, trackers, handles, nonces, n, h, fn, nonce,
              drawn', footprint', trackers', handles', nonces')
    BY <2>1 DEF NewTracker, Added
  <2>3. n \in Nat /\ n > 0 /\ Point(AccountKind, drawn, footprint, trackers, handles, nonces, n)
    BY <1>1, <1>2, <1>3
  <2> HIDE DEF nonce, fn, n
  <2>4. Point(AccountKind, drawn', footprint', trackers', handles', nonces', n)
        /\ drawn' \in Nat /\ drawn <= drawn' /\ footprint \subseteq footprint'
    BY <1>3, <2>2, <2>3, PointNew
  <2>5. err' # "InternalError"
    BY <2>1 DEF NewTracker
  <2> QED BY <1>1, <2>4, <2>5, StackKept DEF n
<1> QED BY <1>7, <1>8, <1>9, <1>10, <1>11

(* The guest fails.                                                        *)
LEMMA GuestErrorOK ==
    ASSUME RecInv, GuestError
    PROVE  RecInv'
<1>1. /\ stack # <<>> /\ AccountKind' = AccountKind /\ stack' = stack /\ trackers' = trackers
      /\ handles' = handles /\ nonces' = nonces /\ drawn' = drawn /\ footprint' = footprint
      /\ err' = "ContractError"
  BY DEF GuestError, Running
<1>2. Depth(stack) = CallStackLen
  BY <1>1, StackDepth
<1>3. Point(AccountKind, drawn', footprint', trackers', handles', nonces', CallStackLen) /\ drawn \in Nat
  BY <1>1, <1>2 DEF RecInv
<1>4. drawn' \in Nat /\ drawn <= drawn' /\ footprint \subseteq footprint' /\ err' # "InternalError"
  BY <1>1, <1>3
<1> QED BY <1>1, <1>3, <1>4, StackKept

(* A frame above the host function's is popped, from the trackers of now   *)
(* or from those of its snapshot.                                          *)
LEMMA PopOK ==
    ASSUME RecInv, PopOk \/ PopFailed
    PROVE  RecInv'
<1> DEFINE n == CallStackLen
           s == stack[Len(stack)].snap
           st == SubSeq(stack, 1, Len(stack) - 1)
<1>1. /\ stack # <<>> /\ CallStackLen > 0 /\ AccountKind' = AccountKind /\ stack' = st
      /\ drawn' = drawn /\ footprint' = footprint /\ (err' = "Ok" \/ err' = err)
  BY DEF PopOk, PopFailed, Running
<1>2. \/ trackers' = PopAll(trackers) /\ handles' = handles /\ nonces' = nonces
      \/ trackers' = PopAll(s.trackers) /\ handles' = s.handles /\ nonces' = s.nonces
  BY DEF PopOk, PopFailed, Top
<1>3. n \in Nat /\ n > 0 /\ Depth(stack) = n /\ IsSeq(stack) /\ Len(stack) = n + 1
  BY <1>1, StackDepth DEF CallStackLen
<1>4. Point(AccountKind, drawn, footprint, trackers, handles, nonces, n)
  BY <1>3 DEF RecInv
<1>5. SnapsOK(AccountKind, drawn, footprint, stack) /\ drawn \in Nat /\ err # "InternalError"
  BY DEF RecInv
<1>6. Point(AccountKind, drawn, footprint, s.trackers, s.handles, s.nonces, n)
  <2>1. Sound(AccountKind, drawn, footprint, stack[n + 1].snap, (n + 1) - 1) /\ (n + 1) - 1 = n
    BY <1>3, <1>5 DEF SnapsOK
  <2>2. s = stack[n + 1].snap
    BY <1>3
  <2> HIDE DEF s, n
  <2> QED BY <2>1, <2>2 DEF Sound
<1>7. IsSeq(st) /\ Len(st) = n /\ \A p \in 1..n : st[p] = stack[p]
  <2>1. Len(stack) - 1 = n /\ n \in 0..Len(stack)
    BY <1>3
  <2> QED BY <1>3, <2>1, SeqPrefix
<1> HIDE DEF s, st, n
<1>8. Point(AccountKind, drawn, footprint, trackers', handles', nonces', n - 1)
  <2>1. CASE trackers' = PopAll(trackers) /\ handles' = handles /\ nonces' = nonces
    <3>1. Point(AccountKind, drawn, footprint, trackers', handles, nonces, n - 1)
      BY <1>3, <1>4, <2>1, PointPop
    <3> QED BY <2>1, <3>1
  <2>2. CASE trackers' = PopAll(s.trackers) /\ handles' = s.handles /\ nonces' = s.nonces
    <3>1. Point(AccountKind, drawn, footprint, trackers', s.handles, s.nonces, n - 1)
      BY <1>3, <1>6, <2>2, PointPop
    <3> QED BY <2>2, <3>1
  <2> QED BY <1>2, <2>1, <2>2
<1>9. st # <<>> /\ Depth(st) = n - 1
  BY <1>3, <1>7, SeqDomain DEF Depth
<1>10. SnapsOK(AccountKind, drawn, footprint, st)
  <2>1. \A p \in 1..Len(st) : p \in 1..Len(stack) /\ st[p] = stack[p]
    BY <1>3, <1>7
  <2>2. st[1] = stack[1] /\ Len(stack) >= 1
    BY <1>3, <1>7
  <2> QED BY <1>5, <1>7, <2>1, <2>2 DEF SnapsOK
<1>11. Point(AccountKind, drawn', footprint', trackers', handles', nonces', Depth(stack'))
       /\ SnapsOK(AccountKind, drawn', footprint', stack')
  BY <1>1, <1>8, <1>9, <1>10
<1>12. drawn' \in Nat /\ stack' # <<>> /\ err' # "InternalError"
  BY <1>1, <1>5, <1>9
<1> QED BY <1>1, <1>11, <1>12, InvAfter

(* The host function's frame is popped.                                    *)
LEMMA PopHostOK ==
    ASSUME RecInv, PopHost \/ PopHostOverBudget
    PROVE  RecInv'
<1>1. /\ stack # <<>> /\ CallStackLen = 0 /\ AccountKind' = AccountKind /\ stack' = <<>>
      /\ drawn' = drawn /\ footprint \subseteq footprint'
  BY DEF PopHost, PopHostOverBudget
<1>2. Len(stack) = 1 /\ Depth(stack) = 0
  BY <1>1, StackDepth
<1>3. /\ Point(AccountKind, drawn, footprint, trackers, handles, nonces, 0)
      /\ SnapsOK(AccountKind, drawn, footprint, stack) /\ drawn \in Nat
      /\ AccountKind \in Worlds /\ err # "InternalError"
  BY <1>2 DEF RecInv
<1> DEFINE s == stack[1].snap
<1>4. /\ Point(AccountKind, drawn, footprint, s.trackers, s.handles, s.nonces, 0)
      /\ s.trackers = <<>> /\ s.nonces = {}
  <2>1. Sound(AccountKind, drawn, footprint, stack[1].snap, 1 - 1) /\ 1 - 1 = 0
    BY <1>2, <1>3 DEF SnapsOK
  <2>2. s.trackers = <<>> /\ s.nonces = {}
    BY <1>2, <1>3 DEF SnapsOK
  <2> QED BY <2>1, <2>2 DEF Sound
<1>5. Top.snap = s
  BY <1>2 DEF Top
<1> HIDE DEF s
<1>6. \/ /\ err = "Ok" /\ err' = "Ok" /\ trackers' = trackers /\ handles' = handles /\ nonces' = nonces
         /\ footprint' = footprint \union Emulated(Len(trackers))
      \/ /\ err # "Ok" /\ err' = err /\ trackers' = s.trackers /\ handles' = s.handles
         /\ nonces' = s.nonces
      \/ err' = "ExceededLimit" /\ trackers' = trackers /\ handles' = handles /\ nonces' = nonces
  BY <1>5 DEF PopHost, PopHostOverBudget
<1>7. Point(AccountKind, drawn, footprint', trackers', handles', nonces', 0)
  <2>1. Point(AccountKind, drawn, footprint, trackers', handles', nonces', 0)
    BY <1>3, <1>4, <1>6
  <2> QED BY <1>1, <1>3, <2>1, PointLater
<1>8. err' # "InternalError"
  BY <1>3, <1>6
<1>9. err' \notin {"Ok", "ExceededLimit"} => trackers' = <<>> /\ nonces' = {}
  BY <1>4, <1>6
<1>10. ASSUME err' = "Ok", NEW i \in DOMAIN trackers'
       PROVE  emulate_authentication(trackers[i].addr)' \subseteq footprint'
  <2>1. trackers' = trackers /\ footprint' = footprint \union Emulated(Len(trackers))
    BY <1>6, <1>10
  <2>2. i \in 1..Len(trackers)
    BY <1>3, <1>10, <2>1, SeqDomain DEF Point
  <2>3. emulate_authentication(trackers[i].addr) \subseteq Emulated(Len(trackers))
    BY <2>2 DEF Emulated
  <2>4. emulate_authentication(trackers[i].addr)' = emulate_authentication(trackers[i].addr)
    BY <1>1, <2>1 DEF emulate_authentication
  <2> QED BY <2>1, <2>3, <2>4
<1>11. IsSeq(stack') /\ Len(stack') = 0 /\ Depth(stack') = 0
  BY <1>1, NullSeq DEF Depth
<1>12. SnapsOK(AccountKind, drawn, footprint', stack')
  BY <1>11 DEF SnapsOK
<1> QED BY <1>1, <1>3, <1>7, <1>8, <1>9, <1>10, <1>11, <1>12 DEF RecInv, Recorded

(* Every step keeps the invariant.                                         *)
LEMMA RecStep ==
    ASSUME RecInv, [Next]_vars
    PROVE  RecInv'
<1>1. ASSUME UNCHANGED vars PROVE RecInv'
  BY <1>1 DEF vars, RecInv, Recorded, emulate_authentication
<1>2. ASSUME NEW c \in Contracts, NEW try \in BOOLEAN, Call(c, try) PROVE RecInv'
  BY <1>2, CallOK
<1>3. ASSUME NEW h \in Handles, RequireAuth(h) PROVE RecInv'
  BY <1>3, RequireOK
<1> QED BY <1>1, <1>2, <1>3, GuestErrorOK, PopOK, PopHostOK DEF Next, Over

(* Nothing has been recorded.                                              *)
LEMMA RecInit ==
    ASSUME Init
    PROVE  RecInv
<1> DEFINE none == [h \in Handles |-> 0]
           s == [trackers |-> <<>>, handles |-> none, nonces |-> {}]
           f == [fn |-> "host", try |-> FALSE, snap |-> s]
<1>1. /\ AccountKind \in Worlds /\ drawn = 0 /\ footprint = {} /\ trackers = <<>> /\ handles = none
      /\ nonces = {} /\ err = "Ok" /\ stack = <<f>>
  BY DEF Init
<1>2. ASSUME NEW ts, ts = <<>>
      PROVE  Point(AccountKind, drawn, footprint, ts, none, {}, 0)
  <2>1. IsSeq(ts) /\ Len(ts) = 0 /\ 1..Len(ts) = {}
    BY <1>2, NullSeq
  <2>2. none \in [Handles -> Nat] /\ \A h \in Handles : none[h] = 0
    OBVIOUS
  <2> HIDE DEF none
  <2>3. NoncesOf(ts) = {}
    BY <2>1 DEF NoncesOf
  <2> QED BY <2>1, <2>2, <2>3 DEF Point
<1>3. f.snap = s /\ s.trackers = <<>> /\ s.handles = none /\ s.nonces = {}
  OBVIOUS
<1> HIDE DEF s
<1>4. f.snap = s
  BY <1>3
<1> HIDE DEF f, none
<1>5. IsSeq(stack) /\ Len(stack) = 1 /\ stack[1] = f /\ stack # <<>>
  BY <1>1 DEF IsSeq
<1>6. Depth(stack) = 0
  BY <1>5 DEF Depth
<1>7. Sound(AccountKind, drawn, footprint, s, 0)
  BY <1>2, <1>3 DEF Sound
<1>8. SnapsOK(AccountKind, drawn, footprint, stack)
  <2>1. \A p \in 1..Len(stack) : stack[p] = f /\ p - 1 = 0
    BY <1>5
  <2> QED BY <1>3, <1>4, <1>5, <1>7, <2>1 DEF SnapsOK
<1>9. Point(AccountKind, drawn, footprint, trackers, handles, nonces, 0)
  BY <1>1, <1>2
<1> QED BY <1>1, <1>5, <1>6, <1>8, <1>9 DEF RecInv, Recorded

(* What the invariant says of the payloads.                                *)
LEMMA RecSuffices ==
    ASSUME RecInv
    PROVE  RecordingIsTransactional
<1>1. Point(AccountKind, drawn, footprint, trackers, handles, nonces, Depth(stack))
  BY DEF RecInv
<1>2. DOMAIN trackers = 1..Len(trackers)
  BY <1>1, SeqDomain DEF Point
<1>3. {<<trackers[i].addr, trackers[i].nonce>> :
           i \in {j \in DOMAIN trackers : trackers[j].nonce # 0}} = nonces
  BY <1>1, <1>2 DEF Point, NoncesOf
<1>4. \A i, j \in DOMAIN trackers :
          i # j /\ trackers[i].nonce # 0 => trackers[i].nonce # trackers[j].nonce
  BY <1>1, <1>2 DEF Point
<1>5. \A h \in Handles : handles[h] # 0 =>
          handles[h] \in DOMAIN trackers /\ trackers[handles[h]].addr = AddressOf[h]
  BY <1>1, <1>2 DEF Point
<1>6. stack # <<>> => \A i \in DOMAIN trackers : Len(trackers[i].t.match) = CallStackLen
  BY <1>1, <1>2, StackDepth DEF Point, Owned, Track
<1>7. {<<"nonce", n[1], n[2]>> : n \in nonces} \subseteq footprint
  BY <1>1 DEF Point
<1>8. \A i \in DOMAIN trackers : ~MismatchedPayload(Payloads[i])
  <2> SUFFICES ASSUME NEW i \in DOMAIN trackers
               PROVE  ~MismatchedPayload(get_recorded_auth_payload(trackers[i]))
    BY DEF Payloads
  <2> DEFINE x == trackers[i]
             p == get_recorded_auth_payload(x)
  <2>1. x.addr \in Addresses /\ (x.nonce = 0 <=> AccountKind[x.addr] = "source")
    BY <1>1, <1>2 DEF Point, Owned
  <2>2. p.nonce = x.nonce /\ p.address = IF AccountKind[x.addr] = "source" THEN "none" ELSE x.addr
    BY DEF get_recorded_auth_payload
  <2> HIDE DEF p, x
  <2>3. x.addr # "none"
    BY <2>1, RecordingAssumption
  <2>4. (p.address = "none") <=> (p.nonce = 0)
    BY <2>1, <2>2, <2>3
  <2>5. ~MismatchedPayload(p)
    BY <2>4 DEF MismatchedPayload
  <2> QED BY <2>5 DEF p, x
<1> QED BY <1>3, <1>4, <1>5, <1>6, <1>7, <1>8 DEF RecInv, RecordingIsTransactional

(* Failed calls leave nothing (rollback, pop_context): after any run the   *)
(* stored nonces are those of the trackers, handles lead to trackers of    *)
(* their address, match stacks follow the call stack, a failed run reports *)
(* nothing, and what recorded payloads need is in the footprint.           *)
THEOREM RecordingTransactional == Spec => []RecordingIsTransactional
<1>1. Init => RecInv
  BY RecInit
<1>2. RecInv /\ [Next]_vars => RecInv'
  BY RecStep
<1>3. RecInv => RecordingIsTransactional
  BY RecSuffices
<1> QED BY <1>1, <1>2, <1>3, PTL DEF Spec

(* Host::rollback and record_invocation: in the trees as they grow and are *)
(* taken back, the match stack of every tracker stays a path from the root *)
(* along the frames of the call stack, and the errors that are no error of *)
(* a guest ("This would be a bug") cannot happen.                          *)
THEOREM RecordedPaths ==
    Spec => [](/\ err # "InternalError"
               /\ \A i \in DOMAIN trackers : /\ RootFirst(trackers[i].t.match)
                                              /\ PathOK(trackers[i].t.tree, trackers[i].t.match))
<1>1. Init => RecInv
  BY RecInit
<1>2. RecInv /\ [Next]_vars => RecInv'
  BY RecStep
<1>3. RecInv => /\ err # "InternalError"
                /\ \A i \in DOMAIN trackers : /\ RootFirst(trackers[i].t.match)
                                               /\ PathOK(trackers[i].t.tree, trackers[i].t.match)
  BY SeqDomain DEF RecInv, Point, Owned, Track
<1> QED BY <1>1, <1>2, <1>3, PTL DEF Spec
=============================================================================
