--------------------------- MODULE PreflightProofs ---------------------------
(***************************************************************************)
(* A recorded footprint is enough: PreflightSuffices for every ledger, key *)
(* set, declared footprint, guest program, depth and TTL configuration.    *)
(* The two storages are related key by key; every storage operation is     *)
(* shown to keep them related as long as the declared footprint covers     *)
(* what has been recorded.                                                 *)
(***************************************************************************)
EXTENDS Preflight, TLAPS

-----------------------------------------------------------------------------
(* Naturals and sequences.                                                 *)

(* A sequence, whatever its elements are.                                  *)
IsSeq(q) == q \in Seq({q[i] : i \in DOMAIN q})

(* What appending an element leaves and adds.                              *)
LEMMA PushLast ==
    ASSUME NEW S, NEW q \in Seq(S), NEW e \in S
    PROVE  LET t == Append(q, e) IN
           /\ t \in Seq(S) /\ Len(t) = Len(q) + 1 /\ Len(q) \in Nat
           /\ \A i \in 1..Len(q) : t[i] = q[i]
           /\ t[Len(q) + 1] = e
  OBVIOUS

(* A sequence over some set is a sequence of its own elements.             *)
LEMMA SeqIsSeq ==
    ASSUME NEW S, NEW q \in Seq(S)
    PROVE  IsSeq(q)
<1>1. Len(q) \in Nat /\ DOMAIN q = 1..Len(q) /\ q = [i \in 1..Len(q) |-> q[i]]
  OBVIOUS
<1> DEFINE E == {q[i] : i \in DOMAIN q}
<1>2. \A i \in 1..Len(q) : q[i] \in E
  BY <1>1
<1> HIDE DEF E
<1>3. [i \in 1..Len(q) |-> q[i]] \in Seq(E)
  BY <1>1, <1>2
<1>4. q \in Seq(E)
  BY <1>1, <1>3
<1> QED BY <1>4 DEF IsSeq, E

(* The domain of a sequence, and when it is empty.                         *)
LEMMA SeqDomain ==
    ASSUME NEW q, IsSeq(q)
    PROVE  Len(q) \in Nat /\ DOMAIN q = 1..Len(q) /\ (Len(q) = 0 <=> q = <<>>)
<1> DEFINE E == {q[i] : i \in DOMAIN q}
<1>1. q \in Seq(E)
  BY DEF IsSeq
<1> HIDE DEF E
<1> QED BY <1>1

(* Appending to a sequence.                                                *)
LEMMA SeqPush ==
    ASSUME NEW q, IsSeq(q), NEW e
    PROVE  LET t == Append(q, e) IN
           /\ IsSeq(t) /\ Len(t) = Len(q) + 1 /\ Len(q) \in Nat
           /\ \A i \in 1..Len(q) : t[i] = q[i]
           /\ t[Len(q) + 1] = e
<1> DEFINE E == {q[i] : i \in DOMAIN q} \union {e}
           t == Append(q, e)
<1>1. q \in Seq({q[i] : i \in DOMAIN q})
  BY DEF IsSeq
<1>2. q \in Seq(E)
  <2> DEFINE D == {q[i] : i \in DOMAIN q}
  <2>1. q \in Seq(D) /\ D \subseteq E
    BY <1>1
  <2> HIDE DEF D, E
  <2> QED BY <2>1
<1>3. e \in E
  OBVIOUS
<1> HIDE DEF E
<1>4. /\ t \in Seq(E) /\ Len(t) = Len(q) + 1 /\ Len(q) \in Nat
      /\ \A i \in 1..Len(q) : t[i] = q[i]
      /\ t[Len(q) + 1] = e
  BY <1>2, <1>3, PushLast
<1> QED BY <1>4, SeqIsSeq

(* A prefix of a sequence.                                                 *)
LEMMA SeqPrefix ==
    ASSUME NEW q, IsSeq(q), NEW n \in 0..Len(q)
    PROVE  LET t == SubSeq(q, 1, n) IN
           IsSeq(t) /\ Len(t) = n /\ \A i \in 1..n : t[i] = q[i]
<1> DEFINE E == {q[i] : i \in DOMAIN q}
           t == SubSeq(q, 1, n)
<1>1. q \in Seq(E) /\ Len(q) \in Nat
  BY SeqDomain DEF IsSeq
<1> HIDE DEF E
<1>2. t \in Seq(E) /\ Len(t) = n /\ \A i \in 1..n : t[i] = q[i]
  <2>1. CASE n = 0
    BY <1>1, <2>1
  <2>2. CASE n # 0
    BY <1>1, <2>2
  <2> QED BY <2>1, <2>2
<1> QED BY <1>2, SeqIsSeq

-----------------------------------------------------------------------------

(* A cell a guest may see.                                                 *)
Good(k, c) == WellFormedCell(k, c) /\ ~IsExpired(k, c)

(* A recording storage holds only such cells.                              *)
RecOK(s) ==
    /\ s \in StorageRec /\ s.mode = "Recording"
    /\ \A k \in Keys : s.map[k] # Unloaded => Good(k, s.map[k])

(* What the enforcing run starts from.                                     *)
StartMap == EnforcingStart.map

(* The enforcing map m next to the recording map r: a key that is not      *)
(* loaded has not been touched.                                            *)
MapSim(r, m) ==
    m \in StorageMap /\ \A k \in Keys : m[k] = IF r[k] = Unloaded THEN StartMap[k] ELSE r[k]

Sim(s, t) ==
    /\ t \in StorageRec /\ t.mode = "Enforcing" /\ t.footprint = declared
    /\ MapSim(s.map, t.map)

Enough(s) == Covers(declared, s.footprint)

Grows(s, u) == \A k \in Keys : Rank[s.footprint[k]] <= Rank[u.footprint[k]]

(* The result r of an operation on s and the result e of the same one on t *)
(* cannot be told apart if what r has recorded is declared.                *)
Alike(s, t, r, e) ==
    /\ RecOK(r.s) /\ Grows(s, r.s)
    /\ Sim(s, t) /\ Enough(r.s) => r.err = e.err /\ r.out = e.out /\ Sim(r.s, e.s)

(* u is s with the cell c for k, and perhaps more access.                  *)
Change(s, u, k, c) ==
    /\ u \in StorageRec /\ u.mode = s.mode /\ Grows(s, u)
    /\ u.map[k] = c /\ \A j \in Keys \ {k} : u.map[j] = s.map[j]

(* The ledger both runs start from, and the declared footprint.            *)
StartOK ==
    /\ snap \in StorageMap /\ (\A k \in Keys : WellFormedCell(k, snap[k]))
    /\ Fits(min_live_until_ledger("Persistent"))
    /\ declared \in Footprint

-----------------------------------------------------------------------------
(* The parts of a storage.                                                 *)

(* The order of accesses.                                                  *)
LEMMA Ranks ==
    /\ Rank["NotListed"] = 0 /\ Rank["ReadOnly"] = 1 /\ Rank["ReadWrite"] = 2
    /\ \A a \in Access : Rank[a] \in {0, 1, 2} /\ Rank[a] \in Nat
BY DEF Rank, Access

(* The TTL bounds are naturals no earlier than the current ledger.         *)
LEMMA MinLive ==
    /\ \A d \in Durabilities : min_live_until_ledger(d) \in Nat /\ min_live_until_ledger(d) >= Seq0
    /\ max_live_until_ledger \in Nat /\ Seq0 \in U32 /\ Seq0 \in Nat /\ NoTtl \notin U32
    /\ \A k \in Keys : Durability[k] \in Durabilities
BY LedgerInfoAssumption
   DEF min_live_until_ledger, max_live_until_ledger, saturating_sub, U32, Durabilities, NoTtl

(* Footprint::record_access on a recording storage.                        *)
LEMMA AccessChange ==
    ASSUME NEW s \in StorageRec, NEW k \in Keys, NEW ty \in {"ReadOnly", "ReadWrite"},
           NEW u, u = [s EXCEPT !.footprint = record_access(@, k, ty)]
    PROVE  Change(s, u, k, s.map[k]) /\ Rank[u.footprint[k]] >= Rank[ty]
<1> DEFINE f == record_access(s.footprint, k, ty)
<1>1. s.footprint \in [Keys -> Access] /\ ty \in Access
  BY DEF StorageRec, Footprint, Access
<1>2. /\ f \in [Keys -> Access] /\ f[k] = IF s.footprint[k] = "ReadWrite" THEN "ReadWrite" ELSE ty
      /\ \A j \in Keys : j # k => f[j] = s.footprint[j]
  BY <1>1 DEF record_access
<1> HIDE DEF f
<1>3. u \in StorageRec /\ u.mode = s.mode /\ u.map = s.map /\ u.footprint = f
  <2>1. u = [s EXCEPT !.footprint = f]
    BY DEF f
  <2> QED BY <1>2, <2>1 DEF StorageRec, Footprint
<1>4. s.footprint[k] \in Access /\ \A j \in Keys : s.footprint[j] \in Access
  BY <1>1
<1>5. Rank[f[k]] >= Rank[ty] /\ Rank[f[k]] >= Rank[s.footprint[k]]
  <2>1. CASE s.footprint[k] = "ReadWrite"
    BY <1>2, <2>1, Ranks
  <2>2. CASE s.footprint[k] # "ReadWrite"
    BY <1>2, <1>4, <2>2, Ranks DEF Access
  <2> QED BY <2>1, <2>2
<1>6. \A j \in Keys : Rank[s.footprint[j]] <= Rank[f[j]]
  <2> SUFFICES ASSUME NEW j \in Keys PROVE Rank[s.footprint[j]] <= Rank[f[j]]
    OBVIOUS
  <2>1. Rank[s.footprint[j]] \in Nat /\ Rank[f[k]] \in Nat
    BY <1>2, <1>4, Ranks
  <2> QED BY <1>2, <1>5, <2>1
<1> QED BY <1>3, <1>5, <1>6 DEF Change, Grows

(* Inserting a cell.                                                       *)
LEMMA CellChange ==
    ASSUME NEW s \in StorageRec, NEW k \in Keys, NEW c \in Cell, NEW u, u = [s EXCEPT !.map[k] = c]
    PROVE  Change(s, u, k, c) /\ u.footprint = s.footprint
<1>1. s.map \in [Keys -> Cell] /\ s.footprint \in [Keys -> Access]
  BY DEF StorageRec, StorageMap, Footprint
<1> DEFINE m == [s.map EXCEPT ![k] = c]
<1>2. m \in [Keys -> Cell] /\ m[k] = c /\ \A j \in Keys : j # k => m[j] = s.map[j]
  BY <1>1
<1>3. u = [s EXCEPT !.map = m]
  OBVIOUS
<1> HIDE DEF m
<1>4. u \in StorageRec /\ u.mode = s.mode /\ u.map = m /\ u.footprint = s.footprint
  BY <1>2, <1>3 DEF StorageRec, StorageMap
<1>5. \A j \in Keys : Rank[s.footprint[j]] <= Rank[u.footprint[j]]
  BY <1>1, <1>4, Ranks
<1> QED BY <1>2, <1>4, <1>5 DEF Change, Grows

(* Access only grows.                                                      *)
LEMMA GrowsTwice ==
    ASSUME NEW s \in StorageRec, NEW t \in StorageRec, NEW u \in StorageRec, Grows(s, t), Grows(t, u)
    PROVE  Grows(s, u)
<1> SUFFICES ASSUME NEW k \in Keys PROVE Rank[s.footprint[k]] <= Rank[u.footprint[k]]
  BY DEF Grows
<1>1. s.footprint[k] \in Access /\ t.footprint[k] \in Access /\ u.footprint[k] \in Access
  BY DEF StorageRec, Footprint
<1>2. Rank[s.footprint[k]] \in Nat /\ Rank[t.footprint[k]] \in Nat /\ Rank[u.footprint[k]] \in Nat
  BY <1>1, Ranks
<1>3. Rank[s.footprint[k]] <= Rank[t.footprint[k]] /\ Rank[t.footprint[k]] <= Rank[u.footprint[k]]
  BY DEF Grows
<1> QED BY <1>2, <1>3

(* Two changes of one key are one.                                         *)
LEMMA ChangeTwice ==
    ASSUME NEW s \in StorageRec, NEW t, NEW u, NEW k \in Keys, NEW c, NEW d,
           Change(s, t, k, c), Change(t, u, k, d)
    PROVE  Change(s, u, k, d)
<1>1. t \in StorageRec /\ u \in StorageRec /\ Grows(s, t) /\ Grows(t, u)
  BY DEF Change
<1>2. Grows(s, u)
  BY <1>1, GrowsTwice
<1> QED BY <1>1, <1>2 DEF Change

(* What is declared for the later storage is declared for the earlier one. *)
LEMMA EnoughBefore ==
    ASSUME StartOK, NEW s \in StorageRec, NEW u \in StorageRec, Grows(s, u), Enough(u)
    PROVE  Enough(s)
<1> SUFFICES ASSUME NEW k \in Keys PROVE Rank[declared[k]] >= Rank[s.footprint[k]]
  BY DEF Enough, Covers
<1>1. s.footprint[k] \in Access /\ u.footprint[k] \in Access /\ declared[k] \in Access
  BY DEF StorageRec, Footprint, StartOK
<1>2. Rank[s.footprint[k]] \in Nat /\ Rank[u.footprint[k]] \in Nat /\ Rank[declared[k]] \in Nat
  BY <1>1, Ranks
<1>3. Rank[declared[k]] >= Rank[u.footprint[k]] /\ Rank[s.footprint[k]] <= Rank[u.footprint[k]]
  BY DEF Enough, Covers, Grows
<1> QED BY <1>2, <1>3

(* An access that was recorded and declared is allowed.                    *)
LEMMA Enforced ==
    ASSUME StartOK, NEW u \in StorageRec, Enough(u), NEW k \in Keys, NEW ty \in {"ReadOnly", "ReadWrite"},
           Rank[u.footprint[k]] >= Rank[ty]
    PROVE  enforce_access(declared, k, ty) /\ declared[k] # "NotListed"
<1>1. u.footprint[k] \in Access /\ declared[k] \in Access /\ ty \in Access
  BY DEF StorageRec, Footprint, StartOK, Access
<1>2. Rank[u.footprint[k]] \in Nat /\ Rank[declared[k]] \in Nat /\ Rank[ty] \in Nat
  BY <1>1, Ranks
<1>3. Rank[declared[k]] >= Rank[ty]
  BY <1>2 DEF Enough, Covers
<1>4. CASE ty = "ReadOnly"
  BY <1>1, <1>3, <1>4, Ranks DEF Access, enforce_access
<1>5. CASE ty = "ReadWrite"
  BY <1>1, <1>3, <1>5, Ranks DEF Access, enforce_access
<1> QED BY <1>4, <1>5

(* A change to a good cell keeps the recording storage in order,           *)
LEMMA ChangeOK ==
    ASSUME NEW s, RecOK(s), NEW k \in Keys, NEW c, NEW u, Change(s, u, k, c), Good(k, c)
    PROVE  RecOK(u) /\ Grows(s, u)
BY DEF RecOK, Change

(* and the same change keeps the enforcing one next to it.                 *)
LEMMA ChangeSim ==
    ASSUME NEW s, NEW t, Sim(s, t), NEW k \in Keys, NEW c, c # Unloaded, c \in Cell,
           NEW u, Change(s, u, k, c), NEW v, v = [t EXCEPT !.map[k] = c]
    PROVE  Sim(u, v)
<1>1. t \in StorageRec /\ t.mode = "Enforcing" /\ t.footprint = declared /\ MapSim(s.map, t.map)
  BY DEF Sim
<1>2. Change(t, v, k, c) /\ v.footprint = t.footprint
  BY <1>1, CellChange
<1>3. v \in StorageRec /\ v.mode = "Enforcing" /\ v.footprint = declared
  BY <1>1, <1>2 DEF Change
<1>4. \A j \in Keys : v.map[j] = IF u.map[j] = Unloaded THEN StartMap[j] ELSE u.map[j]
  BY <1>1, <1>2 DEF Change, MapSim
<1>5. v.map \in StorageMap
  BY <1>3 DEF StorageRec
<1> QED BY <1>3, <1>4, <1>5 DEF Sim, MapSim

-----------------------------------------------------------------------------
(* Storage operations.                                                     *)

(* What a read of an untouched key sees: an expired temporary entry is     *)
(* gone, an archived one is restored.                                      *)
Seen(k) ==
    IF ~IsExpired(k, snap[k]) THEN snap[k]
    ELSE IF Durability[k] = "Temporary" THEN None
    ELSE [snap[k] EXCEPT !.live = min_live_until_ledger("Persistent")]

(* Nothing a read finds is expired.                                        *)
LEMMA SeenGood ==
    ASSUME StartOK, NEW k \in Keys
    PROVE  Good(k, Seen(k)) /\ Seen(k) # Unloaded /\ Seen(k) \in Cell
<1> DEFINE live == min_live_until_ledger("Persistent")
<1>1. WellFormedCell(k, snap[k]) /\ live \in Nat /\ live >= Seq0 /\ live \in U32
  BY MinLive, LedgerInfoAssumption DEF StartOK, Durabilities, Fits, U32
<1> HIDE DEF live
<1>2. CASE ~IsExpired(k, snap[k])
  BY <1>1, <1>2, StorageAssumption DEF Seen, Good, WellFormedCell, Cell
<1>3. CASE IsExpired(k, snap[k]) /\ Durability[k] = "Temporary"
  BY <1>3, StorageAssumption DEF Seen, Good, WellFormedCell, Cell, IsExpired, Exists
<1>4. CASE IsExpired(k, snap[k]) /\ Durability[k] # "Temporary"
  <2> DEFINE e == [snap[k] EXCEPT !.live = live]
  <2>1. snap[k] \in Entry /\ HasTtl(k)
    BY <1>1, <1>4 DEF IsExpired, Exists, WellFormedCell
  <2>2. e \in Entry /\ e.live = live
    BY <1>1, <2>1 DEF Entry
  <2>3. Seen(k) = e
    BY <1>4 DEF Seen, live
  <2> HIDE DEF e
  <2>4. ~(live < Seq0)
    BY <1>1, MinLive
  <2>5. ~IsExpired(k, e)
    BY <2>2, <2>4 DEF IsExpired
  <2>6. WellFormedCell(k, e)
    BY <1>1, <2>1, <2>2 DEF WellFormedCell
  <2> QED BY <2>2, <2>3, <2>5, <2>6, StorageAssumption DEF Good, Cell
<1> QED BY <1>2, <1>3, <1>4

(* The embedder supplies just that.                                        *)
LEMMA StartSeen ==
    ASSUME StartOK, NEW k \in Keys
    PROVE  StartMap[k] = IF declared[k] = "NotListed" THEN Unloaded ELSE Seen(k)
<1> DEFINE p == Supplied(declared, snap, TRUE)
<1>1. StartMap[k] = IF declared[k] = "NotListed" THEN Unloaded ELSE p[k]
  BY DEF StartMap, EnforcingStart, with_enforcing_footprint_and_map, build_storage_map
<1>2. declared[k] # "NotListed" => p[k] = Seen(k)
  <2>1. IsExpired(k, snap[k]) => (IsArchived(k, snap[k]) <=> Durability[k] # "Temporary")
    BY MinLive DEF IsArchived, IsExpired, HasTtl, Durabilities
  <2> QED BY <2>1 DEF Supplied, Seen
<1> QED BY <1>1, <1>2

(* The handler of expired entries finds nothing to do in either run but    *)
(* for an entry that was just loaded.                                      *)
LEMMA Idle ==
    ASSUME StartOK, NEW s, RecOK(s), NEW t, NEW k \in Keys
    PROVE  /\ handle_maybe_expired_entry(s, k) = Res(s, "Ok", None)
           /\ Sim(s, t) => handle_maybe_expired_entry(t, k) = Res(t, "Ok", None)
<1>1. ~IsExpired(k, Unloaded)
  BY DEF IsExpired, Exists
<1>2. ~IsExpired(k, s.map[k])
  BY <1>1 DEF RecOK, Good
<1>3. ASSUME Sim(s, t) PROVE ~IsExpired(k, t.map[k])
  BY <1>1, <1>2, <1>3, StartSeen, SeenGood DEF Sim, MapSim, Good
<1> QED BY <1>2, <1>3 DEF handle_maybe_expired_entry

(* Reading through to the ledger in a recording storage.                   *)
LEMMA RecordedRead ==
    ASSUME RecordingBuild, StartOK, NEW s, RecOK(s), NEW k \in Keys,
           NEW r, r = prepare_read_only_access(s, k, snap)
    PROVE  /\ r.err = "Ok" /\ Rank[r.s.footprint[k]] >= Rank["ReadOnly"]
           /\ Change(s, r.s, k, IF s.map[k] = Unloaded THEN Seen(k) ELSE s.map[k])
<1> DEFINE a == [s EXCEPT !.footprint = record_access(@, k, "ReadOnly")]
           u == [a EXCEPT !.map[k] = snap[k]]
           live == min_live_until_ledger("Persistent")
<1>0. s \in StorageRec /\ s.mode = "Recording" /\ snap[k] \in Cell /\ Fits(live) /\ s.map[k] \in Cell
  BY DEF RecOK, StartOK, StorageMap, StorageRec
<1>1. r = handle_maybe_expired_entry(IF s.map[k] = Unloaded THEN u ELSE a, k)
  <2>1. Access2(s, k, "ReadOnly").s = a
    BY <1>0 DEF Access2, Res
  <2> QED BY <1>0, <2>1 DEF prepare_read_only_access
<1>2. Change(s, a, k, s.map[k]) /\ Rank[a.footprint[k]] >= Rank["ReadOnly"]
  BY <1>0, AccessChange
<1>3. a \in StorageRec
  BY <1>2 DEF Change
<1> HIDE DEF a
<1>4. CASE s.map[k] # Unloaded
  <2>1. a.map[k] = s.map[k] /\ ~IsExpired(k, s.map[k])
    BY <1>2, <1>4 DEF Change, RecOK, Good
  <2>2. r = Res(a, "Ok", None)
    BY <1>1, <1>4, <2>1 DEF handle_maybe_expired_entry
  <2> QED BY <1>2, <1>4, <2>2 DEF Res
<1>5. CASE s.map[k] = Unloaded
  <2>1. Change(a, u, k, snap[k]) /\ u.footprint = a.footprint
    BY <1>0, <1>3, CellChange
  <2>2. Change(s, u, k, snap[k]) /\ u \in StorageRec /\ u.map[k] = snap[k] /\ u.footprint = a.footprint
    <3> HIDE DEF u
    <3>1. Change(s, u, k, snap[k])
      BY <1>0, <1>2, <2>1, ChangeTwice
    <3> QED BY <2>1, <3>1 DEF Change
  <2>3. r = handle_maybe_expired_entry(u, k)
    BY <1>1, <1>5
  <2> HIDE DEF u
  <2>4. CASE ~IsExpired(k, snap[k])
    <3>1. r = Res(u, "Ok", None) /\ Seen(k) = snap[k]
      BY <2>2, <2>3, <2>4 DEF handle_maybe_expired_entry, Seen
    <3> QED BY <1>2, <1>5, <2>2, <3>1 DEF Res
  <2>5. CASE IsExpired(k, snap[k]) /\ Durability[k] = "Temporary"
    <3> DEFINE v == [u EXCEPT !.map[k] = None]
    <3>1. r = Res(v, "Ok", None) /\ Seen(k) = None
      BY <2>2, <2>3, <2>5 DEF handle_maybe_expired_entry, Seen
    <3>2. None \in Cell
      BY DEF Cell
    <3>3. Change(u, v, k, None) /\ v.footprint = u.footprint
      BY <2>2, <3>2, CellChange
    <3>4. Change(s, v, k, None)
      BY <1>0, <2>2, <3>3, ChangeTwice
    <3> HIDE DEF v
    <3> QED BY <1>2, <1>5, <2>2, <3>1, <3>3, <3>4 DEF Res
  <2>6. CASE IsExpired(k, snap[k]) /\ Durability[k] # "Temporary"
    <3> DEFINE w == [u EXCEPT !.footprint = record_access(@, k, "ReadWrite")]
               e == [snap[k] EXCEPT !.live = live]
               v == [w EXCEPT !.map[k] = e]
    <3>1. r = Res(v, "Ok", None) /\ Seen(k) = e
      BY <1>0, <2>2, <2>3, <2>6 DEF handle_maybe_expired_entry, Seen
    <3>2. e \in Cell
      BY <3>1, SeenGood
    <3> HIDE DEF e
    <3>3. Change(u, w, k, snap[k]) /\ Rank[w.footprint[k]] >= Rank["ReadWrite"]
      BY <2>2, AccessChange
    <3>4. Change(s, w, k, snap[k]) /\ w \in StorageRec
      <4> HIDE DEF w
      <4>1. Change(s, w, k, snap[k])
        BY <1>0, <2>2, <3>3, ChangeTwice
      <4> QED BY <3>3, <4>1 DEF Change
    <3> HIDE DEF w
    <3>5. Change(w, v, k, e) /\ v.footprint = w.footprint
      BY <3>2, <3>4, CellChange
    <3> HIDE DEF v
    <3>6. Change(s, v, k, e)
      BY <1>0, <3>4, <3>5, ChangeTwice
    <3>7. w.footprint[k] \in Access
      BY <3>4 DEF StorageRec, Footprint
    <3>8. Rank[v.footprint[k]] >= Rank["ReadOnly"]
      BY <3>3, <3>5, <3>7, Ranks
    <3> QED BY <1>5, <3>1, <3>6, <3>8 DEF Res
  <2> QED BY <2>4, <2>5, <2>6
<1> QED BY <1>4, <1>5

(* Storage::try_get_full.                                                  *)
LEMMA ReadAlike ==
    ASSUME RecordingBuild, StartOK, NEW s, RecOK(s), NEW t, NEW k \in Keys,
           NEW r, r = try_get_full(s, k, snap), NEW e, e = try_get_full(t, k, snap)
    PROVE  Alike(s, t, r, e) /\ r.err = "Ok" /\ r.out = r.s.map[k] /\ r.out # Unloaded
<1> DEFINE p == prepare_read_only_access(s, k, snap)
           c == IF s.map[k] = Unloaded THEN Seen(k) ELSE s.map[k]
<1>1. p.err = "Ok" /\ Rank[p.s.footprint[k]] >= Rank["ReadOnly"] /\ Change(s, p.s, k, c)
  BY RecordedRead
<1>2. Good(k, c) /\ c # Unloaded
  BY SeenGood DEF RecOK
<1> HIDE DEF c
<1>3. p.s.map[k] = c /\ p.s \in StorageRec
  BY <1>1 DEF Change
<1>4. r = Res(p.s, "Ok", c)
  BY <1>1, <1>2, <1>3 DEF try_get_full, ReadCell
<1>5. r.s = p.s /\ r.err = "Ok" /\ r.out = c
  BY <1>4 DEF Res
<1> HIDE DEF p
<1>6. RecOK(r.s) /\ Grows(s, r.s)
  BY <1>1, <1>2, <1>5, ChangeOK
<1>7. ASSUME Sim(s, t), Enough(r.s)
      PROVE  r.err = e.err /\ r.out = e.out /\ Sim(r.s, e.s)
  <2>1. t \in StorageRec /\ t.mode = "Enforcing" /\ t.footprint = declared /\ MapSim(s.map, t.map)
    BY <1>7 DEF Sim
  <2>2. enforce_access(declared, k, "ReadOnly") /\ declared[k] # "NotListed"
    BY <1>1, <1>3, <1>5, <1>7, Enforced
  <2>3. prepare_read_only_access(t, k, snap) = Res(t, "Ok", None)
    BY <2>1, <2>2 DEF prepare_read_only_access, Access2
  <2>4. t.map[k] = c
    BY <2>1, <2>2, StartSeen DEF MapSim, c
  <2>5. e = Res(t, "Ok", c)
    BY <1>2, <2>3, <2>4 DEF try_get_full, ReadCell, Res
  <2>6. MapSim(r.s.map, t.map)
    BY <1>1, <1>2, <1>3, <1>5, <2>1, <2>4 DEF MapSim, Change
  <2> QED BY <1>5, <2>1, <2>5, <2>6 DEF Res, Sim
<1> QED BY <1>3, <1>5, <1>2, <1>6, <1>7 DEF Alike

(* Storage::get_with_live_until_ledger.                                    *)
LEMMA GetAlike ==
    ASSUME RecordingBuild, StartOK, NEW s, RecOK(s), NEW t, NEW k \in Keys,
           NEW r, r = get_with_live_until_ledger(s, k, snap),
           NEW e, e = get_with_live_until_ledger(t, k, snap)
    PROVE  /\ Alike(s, t, r, e)
           /\ r.err = "Ok" => r.out = r.s.map[k] /\ Exists(r.out)
<1> DEFINE g == try_get_full(s, k, snap)
           f == try_get_full(t, k, snap)
<1>1. Alike(s, t, g, f) /\ g.err = "Ok" /\ g.out = g.s.map[k] /\ g.out # Unloaded
  BY ReadAlike
<1>2. r = OrMissing(g) /\ e = OrMissing(f)
  BY DEF get_with_live_until_ledger
<1> HIDE DEF g, f
<1>3. r.s = g.s /\ (r.err = "Ok" => r.out = g.out /\ g.out # None)
  BY <1>2 DEF OrMissing, Res
<1>4. ASSUME Sim(s, t), Enough(r.s)
      PROVE  r.err = e.err /\ r.out = e.out /\ Sim(r.s, e.s)
  <2>1. g.err = f.err /\ g.out = f.out /\ Sim(g.s, f.s)
    BY <1>1, <1>3, <1>4 DEF Alike
  <2> QED BY <1>2, <2>1 DEF OrMissing, Res
<1> QED BY <1>1, <1>3, <1>4 DEF Alike, Exists

(* Storage::put and del, for a cell that is good.                          *)
LEMMA PutAlike ==
    ASSUME StartOK, NEW s, RecOK(s), NEW t, NEW k \in Keys, NEW c, Good(k, c),
           NEW r, r = put_opt(s, k, c), NEW e, e = put_opt(t, k, c)
    PROVE  Alike(s, t, r, e)
<1> DEFINE a == [s EXCEPT !.footprint = record_access(@, k, "ReadWrite")]
           u == [a EXCEPT !.map[k] = c]
<1>0. s \in StorageRec /\ s.mode = "Recording" /\ c \in Cell /\ c # Unloaded
  BY StorageAssumption DEF RecOK, Good, WellFormedCell, Cell
<1>1. handle_maybe_expired_entry(s, k) = Res(s, "Ok", None)
  BY Idle
<1>2. r = Res(u, "Ok", None)
  <2>1. Access2(s, k, "ReadWrite") = Res(a, "Ok", None)
    BY <1>0 DEF Access2
  <2> HIDE DEF a
  <2> QED BY <1>1, <2>1 DEF put_opt, Res
<1>3. r.s = u /\ r.err = "Ok" /\ r.out = None
  BY <1>2 DEF Res
<1>4. Change(s, a, k, s.map[k]) /\ Rank[a.footprint[k]] >= Rank["ReadWrite"]
  BY <1>0, AccessChange
<1>5. a \in StorageRec
  BY <1>4 DEF Change
<1> HIDE DEF a
<1>6. Change(a, u, k, c) /\ u.footprint = a.footprint
  BY <1>0, <1>5, CellChange
<1> HIDE DEF u
<1>7. Change(s, u, k, c)
  BY <1>0, <1>4, <1>6, ChangeTwice
<1>8. u \in StorageRec /\ Rank[u.footprint[k]] >= Rank["ReadWrite"]
  BY <1>4, <1>6, <1>7 DEF Change
<1>9. RecOK(u) /\ Grows(s, u)
  BY <1>7, ChangeOK
<1>10. ASSUME Sim(s, t), Enough(u)
       PROVE  e.err = "Ok" /\ e.out = None /\ Sim(u, e.s)
  <2> DEFINE v == [t EXCEPT !.map[k] = c]
  <2>1. t \in StorageRec /\ t.mode = "Enforcing" /\ t.footprint = declared
    BY <1>10 DEF Sim
  <2>2. handle_maybe_expired_entry(t, k) = Res(t, "Ok", None)
    BY <1>10, Idle
  <2>3. enforce_access(declared, k, "ReadWrite")
    BY <1>8, <1>10, Enforced
  <2>4. Access2(t, k, "ReadWrite") = Res(t, "Ok", None)
    BY <2>1, <2>3 DEF Access2
  <2>5. e = Res(v, "Ok", None)
    BY <2>2, <2>4 DEF put_opt, Res
  <2>6. Sim(u, v)
    BY <1>0, <1>7, <1>10, ChangeSim
  <2> HIDE DEF v
  <2> QED BY <2>5, <2>6 DEF Res
<1> QED BY <1>3, <1>9, <1>10 DEF Alike

-----------------------------------------------------------------------------
(* Operations one after the other.                                         *)

(* An operation after one that went well.                                  *)
LEMMA AlikeTwice ==
    ASSUME StartOK, NEW s, RecOK(s), NEW t, NEW g, NEW f, Alike(s, t, g, f),
           NEW r, NEW e, Alike(g.s, f.s, r, e)
    PROVE  Alike(s, t, r, e)
<1>1. s \in StorageRec /\ g.s \in StorageRec /\ r.s \in StorageRec /\ Grows(s, g.s) /\ Grows(g.s, r.s)
  BY DEF Alike, RecOK
<1>2. Grows(s, r.s)
  BY <1>1, GrowsTwice
<1>3. Enough(r.s) => Enough(g.s)
  BY <1>1, EnoughBefore
<1> QED BY <1>2, <1>3 DEF Alike

(* A branch that both runs take, if they take it together.                 *)
LEMMA AlikeIf ==
    ASSUME StartOK, NEW s, RecOK(s), NEW t, NEW g, NEW f, Alike(s, t, g, f),
           NEW r, NEW e, NEW d, Alike(g.s, f.s, r, d),
           g.err = f.err /\ g.out = f.out => e = d
    PROVE  Alike(s, t, r, e)
<1>1. Alike(s, t, r, d)
  BY AlikeTwice
<1>2. s \in StorageRec /\ g.s \in StorageRec /\ r.s \in StorageRec /\ Grows(g.s, r.s)
  BY DEF Alike, RecOK
<1>3. Enough(r.s) => Enough(g.s)
  BY <1>2, EnoughBefore
<1> QED BY <1>1, <1>3 DEF Alike

(* An answer without another operation.                                    *)
LEMMA Answer ==
    ASSUME NEW s, RecOK(s), NEW t, NEW err0, NEW out0,
           NEW r, r = Res(s, err0, out0), NEW e, e = Res(t, err0, out0)
    PROVE  Alike(s, t, r, e)
<1>1. s \in StorageRec
  BY DEF RecOK
<1>2. Grows(s, s)
  <2> SUFFICES ASSUME NEW k \in Keys PROVE Rank[s.footprint[k]] <= Rank[s.footprint[k]]
    BY DEF Grows
  <2>1. s.footprint[k] \in Access
    BY <1>1 DEF StorageRec, Footprint
  <2> QED BY <2>1, Ranks
<1> QED BY <1>2 DEF Alike, Res

(* The value of the cells that writes put.                                 *)
LEMMA NewGood ==
    ASSUME StartOK, NEW k \in Keys, NEW v \in Values, NEW live, live = min_live_until_ledger(Durability[k]),
           HasTtl(k), Fits(live)
    PROVE  Good(k, [val |-> v, live |-> live])
<1>1. live \in Nat /\ live >= Seq0 /\ live \in U32 /\ ~(live < Seq0)
  BY MinLive, LedgerInfoAssumption DEF Fits, U32
<1> DEFINE c == [val |-> v, live |-> live]
<1>2. c \in Entry /\ c.live = live
  BY <1>1 DEF Entry
<1> HIDE DEF c
<1>3. Good(k, c)
  BY <1>1, <1>2 DEF Good, WellFormedCell, IsExpired
<1> QED BY <1>3 DEF c

(* An entry that is there, with another value.                             *)
LEMMA ReplacedGood ==
    ASSUME NEW k \in Keys, NEW c, Good(k, c), c # None, NEW v \in Values
    PROVE  Good(k, [c EXCEPT !.val = v])
<1>1. c \in Entry
  BY DEF Good, WellFormedCell
<1> DEFINE d == [c EXCEPT !.val = v]
<1>2. d \in Entry /\ d.live = c.live
  BY <1>1 DEF Entry
<1>3. Exists(c)
  BY <1>1, StorageAssumption DEF Exists
<1> HIDE DEF d
<1>4. Good(k, d)
  BY <1>1, <1>2, <1>3 DEF Good, WellFormedCell, IsExpired
<1> QED BY <1>4 DEF d

(* Host::put_contract_data_into_ledger, and store_contract_instance.       *)
LEMMA PutDataAlike ==
    ASSUME RecordingBuild, StartOK, NEW s, RecOK(s), NEW t, NEW k \in Keys, HasTtl(k), NEW v \in Values,
           NEW r, r = put_contract_data(s, k, v, snap), NEW e, e = put_contract_data(t, k, v, snap)
    PROVE  Alike(s, t, r, e)
<1> DEFINE g == try_get_full(s, k, snap)
           f == try_get_full(t, k, snap)
           live == min_live_until_ledger(Durability[k])
           c == [g.out EXCEPT !.val = v]
           n == [val |-> v, live |-> live]
<1>1. Alike(s, t, g, f) /\ g.err = "Ok" /\ g.out = g.s.map[k] /\ g.out # Unloaded
  BY ReadAlike
<1>2. RecOK(g.s) /\ Good(k, g.out)
  BY <1>1 DEF Alike, RecOK
<1>3. /\ g.out # None => r = put_opt(g.s, k, c)
      /\ g.out = None /\ ~Fits(live) => r = Res(g.s, "InternalError", None)
      /\ g.out = None /\ Fits(live) => r = put_opt(g.s, k, n)
  BY <1>1 DEF put_contract_data
<1>4. ASSUME g.err = f.err /\ g.out = f.out
      PROVE  /\ g.out # None => e = put_opt(f.s, k, c)
             /\ g.out = None /\ ~Fits(live) => e = Res(f.s, "InternalError", None)
             /\ g.out = None /\ Fits(live) => e = put_opt(f.s, k, n)
  BY <1>1, <1>4 DEF put_contract_data
<1>5. g.out # None => Good(k, c)
  BY <1>2, ReplacedGood
<1>6. Fits(live) => Good(k, n)
  BY NewGood
<1> HIDE DEF g, f, live, c, n
<1>7. CASE g.out # None
  <2>1. Alike(g.s, f.s, put_opt(g.s, k, c), put_opt(f.s, k, c))
    BY <1>2, <1>5, <1>7, PutAlike
  <2> QED BY <1>1, <1>3, <1>4, <1>7, <2>1, AlikeIf
<1>8. CASE g.out = None /\ ~Fits(live)
  <2>1. Alike(g.s, f.s, Res(g.s, "InternalError", None), Res(f.s, "InternalError", None))
    BY <1>2, Answer
  <2> QED BY <1>1, <1>3, <1>4, <1>8, <2>1, AlikeIf
<1>9. CASE g.out = None /\ Fits(live)
  <2>1. Alike(g.s, f.s, put_opt(g.s, k, n), put_opt(f.s, k, n))
    BY <1>2, <1>6, <1>9, PutAlike
  <2> QED BY <1>1, <1>3, <1>4, <1>9, <2>1, AlikeIf
<1> QED BY <1>7, <1>8, <1>9

(* Host::upload_contract_wasm.                                             *)
LEMMA UploadAlike ==
    ASSUME RecordingBuild, StartOK, NEW s, RecOK(s), NEW t, NEW k \in CodeKeys, NEW v \in Values,
           NEW r, r = upload_contract_wasm(s, k, v, snap), NEW e, e = upload_contract_wasm(t, k, v, snap)
    PROVE  Alike(s, t, r, e)
<1> DEFINE g == try_get_full(s, k, snap)
           f == try_get_full(t, k, snap)
           live == min_live_until_ledger("Persistent")
           same == Exists(g.out) /\ g.out.val = v
           n == [val |-> v, live |-> live]
<1>0. k \in Keys /\ Durability[k] = "Persistent" /\ HasTtl(k) /\ Fits(live)
  BY StorageAssumption DEF HasTtl, StartOK
<1>1. Alike(s, t, g, f) /\ g.err = "Ok"
  BY <1>0, ReadAlike
<1>2. RecOK(g.s)
  BY <1>1 DEF Alike
<1>3. r = IF same THEN Res(g.s, "Ok", None) ELSE put_opt(g.s, k, n)
  BY <1>0, <1>1 DEF upload_contract_wasm
<1>4. ASSUME g.err = f.err /\ g.out = f.out
      PROVE  e = IF same THEN Res(f.s, "Ok", None) ELSE put_opt(f.s, k, n)
  BY <1>0, <1>1, <1>4 DEF upload_contract_wasm
<1>5. Good(k, n)
  <2>1. live = min_live_until_ledger(Durability[k])
    BY <1>0
  <2> HIDE DEF live
  <2> QED BY <1>0, <2>1, NewGood
<1> HIDE DEF g, f, live, same, n
<1>6. CASE same
  <2>1. Alike(g.s, f.s, Res(g.s, "Ok", None), Res(f.s, "Ok", None))
    BY <1>2, Answer
  <2> QED BY <1>1, <1>3, <1>4, <1>6, <2>1, AlikeIf
<1>7. CASE ~same
  <2>1. Alike(g.s, f.s, put_opt(g.s, k, n), put_opt(f.s, k, n))
    BY <1>0, <1>2, <1>5, PutAlike
  <2> QED BY <1>1, <1>3, <1>4, <1>7, <2>1, AlikeIf
<1> QED BY <1>6, <1>7

(* Accounts and trustlines, modified in place.                             *)
LEMMA ClassicAlike ==
    ASSUME RecordingBuild, StartOK, NEW s, RecOK(s), NEW t, NEW k \in Keys, ~HasTtl(k), NEW v \in Values,
           NEW r, r = put_classic_entry(s, k, v, snap), NEW e, e = put_classic_entry(t, k, v, snap)
    PROVE  Alike(s, t, r, e)
<1> DEFINE g == get_with_live_until_ledger(s, k, snap)
           f == get_with_live_until_ledger(t, k, snap)
           n == [val |-> v, live |-> NoTtl]
<1>1. Alike(s, t, g, f)
  BY GetAlike
<1>2. RecOK(g.s)
  BY <1>1 DEF Alike
<1>3. r = IF g.err # "Ok" THEN g ELSE put_opt(g.s, k, n)
  BY DEF put_classic_entry
<1>4. e = IF f.err # "Ok" THEN f ELSE put_opt(f.s, k, n)
  BY DEF put_classic_entry
<1>5. Good(k, n)
  <2>1. n \in Entry /\ n.live = NoTtl
    BY DEF Entry
  <2> HIDE DEF n
  <2> QED BY <2>1 DEF Good, WellFormedCell, IsExpired
<1> HIDE DEF g, f, n
<1>6. CASE g.err # "Ok"
  BY <1>1, <1>3, <1>4, <1>6 DEF Alike
<1>7. CASE g.err = "Ok"
  <2>1. Alike(g.s, f.s, put_opt(g.s, k, n), put_opt(f.s, k, n))
    BY <1>2, <1>5, PutAlike
  <2> QED BY <1>1, <1>3, <1>4, <1>7, <2>1, AlikeIf
<1> QED BY <1>6, <1>7

(* What Storage::extend_ttl does with the entry it has read.               *)
NewLive(extend_to) ==
    IF Seq0 + extend_to > max_live_until_ledger THEN max_live_until_ledger ELSE Seq0 + extend_to

ExtendFails(c, extend_to) ==
    \/ c.live = NoTtl \/ c.live < Seq0 \/ ~Fits(Seq0 + extend_to) \/ ~Fits(max_live_until_ledger)

ExtendRefused(k, extend_to) ==
    Seq0 + extend_to > max_live_until_ledger /\ Durability[k] = "Temporary"

Lengthens(c, threshold, extend_to) ==
    NewLive(extend_to) > c.live /\ saturating_sub(c.live, Seq0) <= threshold

Extended(g, k, threshold, extend_to) ==
    IF g.err # "Ok" THEN g
    ELSE IF ExtendFails(g.out, extend_to) THEN Res(g.s, "InternalError", None)
    ELSE IF ExtendRefused(k, extend_to) THEN Res(g.s, "InvalidAction", None)
    ELSE IF Lengthens(g.out, threshold, extend_to)
         THEN Res([g.s EXCEPT !.map[k] = [g.out EXCEPT !.live = NewLive(extend_to)]], "Ok", None)
    ELSE Res(g.s, "Ok", None)

(* An extended entry is good.                                              *)
LEMMA ExtendedGood ==
    ASSUME NEW k \in Keys, NEW c, Good(k, c), Exists(c), NEW threshold \in U32, NEW extend_to \in U32,
           ~ExtendFails(c, extend_to), Lengthens(c, threshold, extend_to)
    PROVE  Good(k, [c EXCEPT !.live = NewLive(extend_to)])
<1> DEFINE n == NewLive(extend_to)
           d == [c EXCEPT !.live = n]
<1>1. c \in Entry /\ c.live # NoTtl /\ ~(c.live < Seq0)
  BY DEF Exists, Good, WellFormedCell, ExtendFails
<1>2. HasTtl(k) /\ c.live \in U32
  BY <1>1 DEF Exists, Good, WellFormedCell
<1>3. n \in Nat /\ Fits(n) /\ n > c.live
  <2>1. Seq0 + extend_to \in Nat /\ max_live_until_ledger \in Nat
    BY MinLive, LedgerInfoAssumption DEF U32
  <2>2. Fits(Seq0 + extend_to) /\ Fits(max_live_until_ledger)
    BY DEF ExtendFails
  <2> QED BY <2>1, <2>2 DEF NewLive, Lengthens
<1> HIDE DEF n
<1>4. n \in U32 /\ ~(n < Seq0)
  BY <1>1, <1>2, <1>3, MinLive, LedgerInfoAssumption DEF U32, Fits
<1>5. d \in Entry /\ d.live = n
  BY <1>1, <1>4 DEF Entry
<1> HIDE DEF d
<1>6. Good(k, d)
  BY <1>2, <1>4, <1>5 DEF Good, WellFormedCell, IsExpired
<1> QED BY <1>6 DEF d, n

(* The part of extend_ttl that follows the read.                           *)
LEMMA ExtendedAlike ==
    ASSUME StartOK, NEW s, RecOK(s), NEW t, NEW k \in Keys, NEW threshold \in U32, NEW extend_to \in U32,
           NEW g, NEW f, Alike(s, t, g, f), g.err = "Ok" => g.out = g.s.map[k] /\ Exists(g.out),
           NEW r, r = Extended(g, k, threshold, extend_to),
           NEW e, e = Extended(f, k, threshold, extend_to)
    PROVE  Alike(s, t, r, e)
<1>1. CASE g.err # "Ok"
  <2>1. r = g /\ (f.err # "Ok" => e = f)
    BY <1>1 DEF Extended
  <2> QED BY <1>1, <2>1 DEF Alike
<1>2. CASE g.err = "Ok"
  <2> DEFINE c == g.out
             d == [c EXCEPT !.live = NewLive(extend_to)]
             u == [g.s EXCEPT !.map[k] = d]
             v == [f.s EXCEPT !.map[k] = d]
  <2>1. RecOK(g.s) /\ Good(k, c) /\ Exists(c)
    BY <1>2 DEF Alike, RecOK, Exists
  <2>2. CASE ExtendFails(c, extend_to)
    <3>1. r = Res(g.s, "InternalError", None)
      BY <1>2, <2>2 DEF Extended
    <3>2. g.err = f.err /\ g.out = f.out => e = Res(f.s, "InternalError", None)
      BY <1>2, <2>2 DEF Extended
    <3>3. Alike(g.s, f.s, Res(g.s, "InternalError", None), Res(f.s, "InternalError", None))
      BY <2>1, Answer
    <3> QED BY <3>1, <3>2, <3>3, AlikeIf
  <2>3. CASE ~ExtendFails(c, extend_to) /\ ExtendRefused(k, extend_to)
    <3>1. r = Res(g.s, "InvalidAction", None)
      BY <1>2, <2>3 DEF Extended
    <3>2. g.err = f.err /\ g.out = f.out => e = Res(f.s, "InvalidAction", None)
      BY <1>2, <2>3 DEF Extended
    <3>3. Alike(g.s, f.s, Res(g.s, "InvalidAction", None), Res(f.s, "InvalidAction", None))
      BY <2>1, Answer
    <3> QED BY <3>1, <3>2, <3>3, AlikeIf
  <2>4. CASE /\ ~ExtendFails(c, extend_to) /\ ~ExtendRefused(k, extend_to)
             /\ ~Lengthens(c, threshold, extend_to)
    <3>1. r = Res(g.s, "Ok", None)
      BY <1>2, <2>4 DEF Extended
    <3>2. g.err = f.err /\ g.out = f.out => e = Res(f.s, "Ok", None)
      BY <1>2, <2>4 DEF Extended
    <3>3. Alike(g.s, f.s, Res(g.s, "Ok", None), Res(f.s, "Ok", None))
      BY <2>1, Answer
    <3> QED BY <3>1, <3>2, <3>3, AlikeIf
  <2>5. CASE /\ ~ExtendFails(c, extend_to) /\ ~ExtendRefused(k, extend_to)
             /\ Lengthens(c, threshold, extend_to)
    <3>1. r = Res(u, "Ok", None)
      BY <1>2, <2>5 DEF Extended
    <3>2. g.err = f.err /\ g.out = f.out => e = Res(v, "Ok", None)
      BY <1>2, <2>5 DEF Extended
    <3>3. Good(k, d)
      BY <2>1, <2>5, ExtendedGood
    <3> HIDE DEF d
    <3>4. d \in Cell /\ d # Unloaded /\ g.s \in StorageRec
      BY <2>1, <3>3, StorageAssumption DEF RecOK, Good, WellFormedCell, Cell
    <3>5. Change(g.s, u, k, d)
      BY <3>4, CellChange
    <3>6. Sim(g.s, f.s) => Sim(u, v)
      BY <3>4, <3>5, ChangeSim
    <3> HIDE DEF u, v
    <3>7. RecOK(u) /\ Grows(g.s, u)
      BY <2>1, <3>3, <3>5, ChangeOK
    <3>8. Alike(g.s, f.s, Res(u, "Ok", None), Res(v, "Ok", None))
      BY <3>6, <3>7 DEF Alike, Res
    <3> QED BY <3>1, <3>2, <3>8, AlikeIf
  <2> QED BY <2>2, <2>3, <2>4, <2>5
<1> QED BY <1>1, <1>2

(* Storage::extend_ttl.                                                    *)
LEMMA ExtendAlike ==
    ASSUME RecordingBuild, StartOK, NEW s, RecOK(s), NEW t, NEW k \in Keys,
           NEW threshold \in U32, NEW extend_to \in U32,
           NEW r, r = extend_ttl(s, k, threshold, extend_to, snap),
           NEW e, e = extend_ttl(t, k, threshold, extend_to, snap)
    PROVE  Alike(s, t, r, e)
<1> DEFINE g == get_with_live_until_ledger(s, k, snap)
           f == get_with_live_until_ledger(t, k, snap)
           x == Extended(f, k, threshold, extend_to)
<1>1. Alike(s, t, g, f) /\ (g.err = "Ok" => g.out = g.s.map[k] /\ Exists(g.out))
  BY GetAlike
<1>2. \A z : handle_maybe_expired_entry(z, k) = Res(z, "Ok", None) /\ ~(threshold > extend_to)
             => extend_ttl(z, k, threshold, extend_to, snap)
                  = Extended(get_with_live_until_ledger(z, k, snap), k, threshold, extend_to)
  <2> SUFFICES ASSUME NEW z, handle_maybe_expired_entry(z, k) = Res(z, "Ok", None), ~(threshold > extend_to)
               PROVE  extend_ttl(z, k, threshold, extend_to, snap)
                        = Extended(get_with_live_until_ledger(z, k, snap), k, threshold, extend_to)
    OBVIOUS
  <2> DEFINE h == handle_maybe_expired_entry(z, k)
             y == get_with_live_until_ledger(z, k, snap)
  <2>1. h.s = z /\ h.err = "Ok"
    BY DEF Res
  <2>2. get_with_live_until_ledger(h.s, k, snap) = y
    BY <2>1
  <2> HIDE DEF y
  <2> QED BY <2>1, <2>2 DEF extend_ttl, Extended, ExtendFails, ExtendRefused, Lengthens, NewLive
<1>3. handle_maybe_expired_entry(s, k) = Res(s, "Ok", None)
  BY Idle
<1>4. Sim(s, t) => handle_maybe_expired_entry(t, k) = Res(t, "Ok", None)
  BY Idle
<1>5. CASE threshold > extend_to
  <2>1. r = Res(s, "InvalidInput", None) /\ e = Res(t, "InvalidInput", None)
    BY <1>5 DEF extend_ttl
  <2> QED BY <2>1, Answer
<1>6. CASE ~(threshold > extend_to)
  <2>1. r = Extended(g, k, threshold, extend_to)
    BY <1>2, <1>3, <1>6
  <2>2. Sim(s, t) => e = x
    BY <1>2, <1>4, <1>6
  <2> HIDE DEF g, f
  <2>3. Alike(s, t, r, x)
    BY <1>1, <2>1, ExtendedAlike
  <2> HIDE DEF x
  <2> QED BY <2>2, <2>3 DEF Alike
<1> QED BY <1>5, <1>6

-----------------------------------------------------------------------------
(* The contract lifecycle.                                                 *)

(* The executable of an instance, and the key of its code.                 *)
LEMMA CodeKey ==
    ASSUME NEW v \in Values, CodeOf[v] # None
    PROVE  CodeOf[v] \in CodeKeys /\ CodeOf[v] \in Keys
BY LifecycleAssumption, StorageAssumption

(* An instance is a persistent entry.                                      *)
LEMMA InstanceKey ==
    ASSUME NEW i \in InstanceKeys
    PROVE  i \in Keys /\ HasTtl(i)
BY LifecycleAssumption DEF HasTtl

(* An instance that was read has an executable.                            *)
LEMMA Executable ==
    ASSUME NEW s, RecOK(s), NEW k \in Keys, NEW c, c = s.map[k], Exists(c)
    PROVE  c.val \in Values /\ Good(k, c)
<1>1. Good(k, c)
  BY DEF RecOK, Exists
<1>2. c \in Entry
  BY <1>1 DEF Good, WellFormedCell, Exists
<1> QED BY <1>1, <1>2 DEF Entry

(* call_contract_fn up to the frame.                                       *)
LEMMA LoadAlike ==
    ASSUME RecordingBuild, StartOK, NEW s, RecOK(s), NEW t, NEW i \in InstanceKeys,
           NEW r, r = load_contract(s, i, snap), NEW e, e = load_contract(t, i, snap)
    PROVE  Alike(s, t, r, e)
<1> DEFINE g == get_with_live_until_ledger(s, i, snap)
           f == get_with_live_until_ledger(t, i, snap)
           code == CodeOf[g.out.val]
<1>0. i \in Keys
  BY InstanceKey
<1>1. Alike(s, t, g, f) /\ (g.err = "Ok" => g.out = g.s.map[i] /\ Exists(g.out))
  BY <1>0, GetAlike
<1>2. RecOK(g.s)
  BY <1>1 DEF Alike
<1>3. r = IF g.err # "Ok" \/ code = None THEN g ELSE get_with_live_until_ledger(g.s, code, snap)
  BY DEF load_contract, retrieve_contract_instance_from_storage, retrieve_wasm_from_storage
<1>4. g.err = f.err /\ g.out = f.out =>
        e = IF g.err # "Ok" \/ code = None THEN f ELSE get_with_live_until_ledger(f.s, code, snap)
  BY DEF load_contract, retrieve_contract_instance_from_storage, retrieve_wasm_from_storage
<1>5. g.err = "Ok" /\ code # None => code \in Keys
  <2> HIDE DEF g
  <2>1. g.err = "Ok" => g.out.val \in Values
    BY <1>0, <1>1, <1>2, Executable
  <2> QED BY <2>1, CodeKey
<1> HIDE DEF g, f, code
<1>6. CASE g.err # "Ok" \/ code = None
  BY <1>1, <1>3, <1>4, <1>6 DEF Alike
<1>7. CASE g.err = "Ok" /\ code # None
  <2>1. Alike(g.s, f.s, get_with_live_until_ledger(g.s, code, snap), get_with_live_until_ledger(f.s, code, snap))
    BY <1>2, <1>5, <1>7, GetAlike
  <2> QED BY <1>1, <1>3, <1>4, <1>7, <2>1, AlikeIf
<1> QED BY <1>6, <1>7

(* store_contract_instance of instance storage.                            *)
LEMMA StoreAlike ==
    ASSUME RecordingBuild, StartOK, NEW s, RecOK(s), NEW t, NEW i \in InstanceKeys,
           NEW r, r = store_instance_storage(s, i, snap), NEW e, e = store_instance_storage(t, i, snap)
    PROVE  Alike(s, t, r, e)
<1> DEFINE g == try_get_full(s, i, snap)
           f == try_get_full(t, i, snap)
           c == g.out
<1>0. i \in Keys
  BY InstanceKey
<1>1. Alike(s, t, g, f) /\ g.err = "Ok" /\ g.out = g.s.map[i] /\ g.out # Unloaded
  BY <1>0, ReadAlike
<1>2. RecOK(g.s) /\ Good(i, c)
  BY <1>0, <1>1 DEF Alike, RecOK
<1>3. r = IF c = None THEN Res(g.s, "InternalError", None) ELSE put_opt(g.s, i, c)
  BY <1>1 DEF store_instance_storage
<1>4. g.err = f.err /\ g.out = f.out =>
        e = IF c = None THEN Res(f.s, "InternalError", None) ELSE put_opt(f.s, i, c)
  BY <1>1 DEF store_instance_storage
<1> HIDE DEF g, f, c
<1>5. CASE c = None
  <2>1. Alike(g.s, f.s, Res(g.s, "InternalError", None), Res(f.s, "InternalError", None))
    BY <1>2, Answer
  <2> QED BY <1>1, <1>3, <1>4, <1>5, <2>1, AlikeIf
<1>6. CASE c # None
  <2>1. Alike(g.s, f.s, put_opt(g.s, i, c), put_opt(f.s, i, c))
    BY <1>0, <1>2, PutAlike
  <2> QED BY <1>1, <1>3, <1>4, <1>6, <2>1, AlikeIf
<1> QED BY <1>5, <1>6

(* A step after the `?` operator.                                          *)
LEMMA AlikeThen ==
    ASSUME StartOK, NEW s, RecOK(s), NEW t, NEW g, NEW f, Alike(s, t, g, f),
           NEW x, NEW y, Alike(g.s, f.s, x, y),
           NEW r, r = (IF g.err # "Ok" THEN g ELSE x), NEW e, e = (IF f.err # "Ok" THEN f ELSE y)
    PROVE  Alike(s, t, r, e)
<1>1. CASE g.err # "Ok"
  BY <1>1 DEF Alike
<1>2. CASE g.err = "Ok"
  <2>1. r = x /\ (g.err = f.err /\ g.out = f.out => e = y)
    BY <1>2
  <2> QED BY <2>1, AlikeIf
<1> QED BY <1>1, <1>2

(* The code of an executable is there.                                     *)
LEMMA WasmExistsAlike ==
    ASSUME RecordingBuild, StartOK, NEW s, RecOK(s), NEW t, NEW k \in Keys,
           NEW r, r = wasm_exists(s, k, snap), NEW e, e = wasm_exists(t, k, snap)
    PROVE  Alike(s, t, r, e)
<1>1. r = get_with_live_until_ledger(s, k, snap) /\ e = get_with_live_until_ledger(t, k, snap)
  BY DEF wasm_exists, get_with_live_until_ledger
<1> QED BY <1>1, GetAlike

(* create_contract_with_id.                                                *)
LEMMA CreateIdAlike ==
    ASSUME RecordingBuild, StartOK, NEW s, RecOK(s), NEW t, NEW i \in InstanceKeys, NEW exec \in Values,
           NEW r, r = create_contract_with_id(s, i, exec, snap),
           NEW e, e = create_contract_with_id(t, i, exec, snap)
    PROVE  Alike(s, t, r, e)
<1> DEFINE g == try_get_full(s, i, snap)
           f == try_get_full(t, i, snap)
           code == CodeOf[exec]
           x == wasm_exists(g.s, code, snap)
           y == wasm_exists(f.s, code, snap)
           p == put_contract_data(x.s, i, exec, snap)
           q == put_contract_data(y.s, i, exec, snap)
           v == IF x.err # "Ok" THEN x ELSE p
           w == IF y.err # "Ok" THEN y ELSE q
<1>0. i \in Keys /\ HasTtl(i)
  BY InstanceKey
<1>1. Alike(s, t, g, f) /\ g.err = "Ok"
  BY <1>0, ReadAlike
<1>2. RecOK(g.s)
  BY <1>1 DEF Alike
<1>3. r = IF g.out # None THEN Res(g.s, "ExistingValue", None)
          ELSE IF code = None THEN put_contract_data(g.s, i, exec, snap) ELSE v
  BY <1>1 DEF create_contract_with_id, Then
<1>4. g.err = f.err /\ g.out = f.out =>
      e = IF g.out # None THEN Res(f.s, "ExistingValue", None)
          ELSE IF code = None THEN put_contract_data(f.s, i, exec, snap) ELSE w
  BY <1>1 DEF create_contract_with_id, Then
<1> HIDE DEF g, f
<1>5. CASE g.out # None
  <2>1. Alike(g.s, f.s, Res(g.s, "ExistingValue", None), Res(f.s, "ExistingValue", None))
    BY <1>2, Answer
  <2>2. r = Res(g.s, "ExistingValue", None)
    BY <1>3, <1>5
  <2>3. g.err = f.err /\ g.out = f.out => e = Res(f.s, "ExistingValue", None)
    BY <1>4, <1>5
  <2> QED BY <1>1, <2>1, <2>2, <2>3, AlikeIf
<1>6. CASE g.out = None /\ code = None
  <2>1. Alike(g.s, f.s, put_contract_data(g.s, i, exec, snap), put_contract_data(f.s, i, exec, snap))
    BY <1>0, <1>2, PutDataAlike
  <2>2. r = put_contract_data(g.s, i, exec, snap)
    BY <1>3, <1>6
  <2>3. g.err = f.err /\ g.out = f.out => e = put_contract_data(f.s, i, exec, snap)
    BY <1>4, <1>6
  <2> QED BY <1>1, <2>1, <2>2, <2>3, AlikeIf
<1>7. CASE g.out = None /\ code # None
  <2>0. code \in Keys
    BY <1>7, CodeKey
  <2>1. r = v /\ (g.err = f.err /\ g.out = f.out => e = w)
    BY <1>3, <1>4, <1>7
  <2> HIDE DEF code
  <2>2. Alike(g.s, f.s, x, y)
    BY <1>2, <2>0, WasmExistsAlike
  <2>3. RecOK(x.s)
    BY <2>2 DEF Alike
  <2> HIDE DEF x, y
  <2>4. Alike(x.s, y.s, p, q)
    BY <1>0, <2>3, PutDataAlike
  <2> HIDE DEF p, q
  <2>5. v = (IF x.err # "Ok" THEN x ELSE p) /\ w = (IF y.err # "Ok" THEN y ELSE q)
    OBVIOUS
  <2> HIDE DEF v, w
  <2>6. Alike(g.s, f.s, v, w)
    BY <1>2, <2>2, <2>4, <2>5, AlikeThen
  <2> QED BY <1>1, <2>1, <2>6, AlikeIf
<1> QED BY <1>5, <1>6, <1>7

(* create_contract_internal up to the frame.                               *)
LEMMA CreateAlike ==
    ASSUME RecordingBuild, StartOK, NEW s, RecOK(s), NEW t, NEW i \in InstanceKeys, NEW exec \in Values,
           NEW r, r = create_contract(s, i, exec, snap), NEW e, e = create_contract(t, i, exec, snap)
    PROVE  Alike(s, t, r, e)
<1> DEFINE g == create_contract_with_id(s, i, exec, snap)
           f == create_contract_with_id(t, i, exec, snap)
           x == load_contract(g.s, i, snap)
           y == load_contract(f.s, i, snap)
<1>1. Alike(s, t, g, f)
  BY CreateIdAlike
<1>2. RecOK(g.s)
  BY <1>1 DEF Alike
<1>3. r = (IF g.err # "Ok" THEN g ELSE x) /\ e = (IF f.err # "Ok" THEN f ELSE y)
  BY DEF create_contract, Then
<1> HIDE DEF g, f
<1>4. Alike(g.s, f.s, x, y)
  BY <1>2, LoadAlike
<1> HIDE DEF x, y
<1> QED BY <1>1, <1>3, <1>4, AlikeThen

(* update_current_contract_wasm.                                           *)
LEMMA UpdateAlike ==
    ASSUME RecordingBuild, StartOK, NEW s, RecOK(s), NEW t, NEW i \in InstanceKeys,
           NEW exec \in Values, CodeOf[exec] # None,
           NEW r, r = update_contract_wasm(s, i, exec, snap),
           NEW e, e = update_contract_wasm(t, i, exec, snap)
    PROVE  Alike(s, t, r, e)
<1> DEFINE code == CodeOf[exec]
           g == wasm_exists(s, code, snap)
           f == wasm_exists(t, code, snap)
           x == get_with_live_until_ledger(g.s, i, snap)
           y == get_with_live_until_ledger(f.s, i, snap)
           v == IF g.err # "Ok" THEN g ELSE x
           w == IF f.err # "Ok" THEN f ELSE y
           p == put_contract_data(v.s, i, exec, snap)
           q == put_contract_data(w.s, i, exec, snap)
<1>0. code \in Keys /\ i \in Keys /\ HasTtl(i)
  BY CodeKey, InstanceKey
<1>1. r = (IF v.err # "Ok" THEN v ELSE p) /\ e = (IF w.err # "Ok" THEN w ELSE q)
  BY DEF update_contract_wasm, Then, retrieve_contract_instance_from_storage
<1> HIDE DEF code
<1>2. Alike(s, t, g, f)
  BY <1>0, WasmExistsAlike
<1>3. RecOK(g.s)
  BY <1>2 DEF Alike
<1> HIDE DEF g, f
<1>4. Alike(g.s, f.s, x, y)
  BY <1>0, <1>3, GetAlike
<1> HIDE DEF x, y
<1>5. Alike(s, t, v, w)
  BY <1>2, <1>4, AlikeThen
<1>6. RecOK(v.s)
  BY <1>5 DEF Alike
<1> HIDE DEF v, w
<1>7. Alike(v.s, w.s, p, q)
  BY <1>0, <1>6, PutDataAlike
<1> HIDE DEF p, q
<1> QED BY <1>1, <1>5, <1>7, AlikeThen

(* extend_contract_code_ttl_from_contract_id.                              *)
LEMMA ExtendCodeAlike ==
    ASSUME RecordingBuild, StartOK, NEW s, RecOK(s), NEW t, NEW i \in InstanceKeys,
           NEW threshold \in U32, NEW extend_to \in U32,
           NEW r, r = extend_contract_code_ttl(s, i, threshold, extend_to, snap),
           NEW e, e = extend_contract_code_ttl(t, i, threshold, extend_to, snap)
    PROVE  Alike(s, t, r, e)
<1> DEFINE g == get_with_live_until_ledger(s, i, snap)
           f == get_with_live_until_ledger(t, i, snap)
           code == CodeOf[g.out.val]
<1>0. i \in Keys
  BY InstanceKey
<1>1. Alike(s, t, g, f) /\ (g.err = "Ok" => g.out = g.s.map[i] /\ Exists(g.out))
  BY <1>0, GetAlike
<1>2. RecOK(g.s)
  BY <1>1 DEF Alike
<1>3. r = IF g.err # "Ok" THEN g ELSE IF code = None THEN Res(g.s, "Ok", None)
          ELSE extend_ttl(g.s, code, threshold, extend_to, snap)
  BY DEF extend_contract_code_ttl, retrieve_contract_instance_from_storage
<1>4. g.err = f.err /\ g.out = f.out =>
      e = IF g.err # "Ok" THEN f ELSE IF code = None THEN Res(f.s, "Ok", None)
          ELSE extend_ttl(f.s, code, threshold, extend_to, snap)
  BY DEF extend_contract_code_ttl, retrieve_contract_instance_from_storage
<1>5. g.err = "Ok" /\ code # None => code \in Keys
  <2> HIDE DEF g
  <2>1. g.err = "Ok" => g.out.val \in Values
    BY <1>0, <1>1, <1>2, Executable
  <2> QED BY <2>1, CodeKey
<1> HIDE DEF g, f, code
<1>6. CASE g.err # "Ok"
  BY <1>1, <1>3, <1>4, <1>6 DEF Alike
<1>7. CASE g.err = "Ok" /\ code = None
  <2>1. Alike(g.s, f.s, Res(g.s, "Ok", None), Res(f.s, "Ok", None))
    BY <1>2, Answer
  <2> QED BY <1>1, <1>3, <1>4, <1>7, <2>1, AlikeIf
<1>8. CASE g.err = "Ok" /\ code # None
  <2> DEFINE p == extend_ttl(g.s, code, threshold, extend_to, snap)
             q == extend_ttl(f.s, code, threshold, extend_to, snap)
  <2>1. Alike(g.s, f.s, p, q)
    BY <1>2, <1>5, <1>8, ExtendAlike
  <2>2. r = p /\ (g.err = f.err /\ g.out = f.out => e = q)
    BY <1>3, <1>4, <1>8
  <2> HIDE DEF p, q
  <2> QED BY <1>1, <2>1, <2>2, AlikeIf
<1> QED BY <1>6, <1>7, <1>8

(* extend_contract_instance_and_code_ttl.                                  *)
LEMMA ExtendBothAlike ==
    ASSUME RecordingBuild, StartOK, NEW s, RecOK(s), NEW t, NEW i \in InstanceKeys,
           NEW threshold \in U32, NEW extend_to \in U32,
           NEW r, r = extend_contract_instance_and_code_ttl(s, i, threshold, extend_to, snap),
           NEW e, e = extend_contract_instance_and_code_ttl(t, i, threshold, extend_to, snap)
    PROVE  Alike(s, t, r, e)
<1> DEFINE g == extend_ttl(s, i, threshold, extend_to, snap)
           f == extend_ttl(t, i, threshold, extend_to, snap)
           x == extend_contract_code_ttl(g.s, i, threshold, extend_to, snap)
           y == extend_contract_code_ttl(f.s, i, threshold, extend_to, snap)
<1>1. Alike(s, t, g, f)
  BY InstanceKey, ExtendAlike
<1>2. RecOK(g.s)
  BY <1>1 DEF Alike
<1>3. r = (IF g.err # "Ok" THEN g ELSE x) /\ e = (IF f.err # "Ok" THEN f ELSE y)
  BY DEF extend_contract_instance_and_code_ttl, extend_contract_instance_ttl, Then
<1> HIDE DEF g, f
<1>4. Alike(g.s, f.s, x, y)
  BY <1>2, ExtendCodeAlike
<1> HIDE DEF x, y
<1> QED BY <1>1, <1>3, <1>4, AlikeThen

-----------------------------------------------------------------------------
(* The two runs.                                                           *)

FrameOK(f) ==
    /\ f.rmap \in StorageMap /\ (\A k \in Keys : f.rmap[k] # Unloaded => Good(k, f.rmap[k]))
    /\ f.contract \in InstanceKeys \cup {None}

(* What is true of the storages is true of every pair of rollback points:  *)
(* a failing frame makes them the storages.  The outermost frame is the    *)
(* host function's, without a contract of its own.                         *)
PreInv ==
    /\ StartOK /\ snap \in Snapshots
    /\ RecOK(rec)
    /\ IsSeq(frames) /\ (\A n \in 1..Len(frames) : FrameOK(frames[n]))
    /\ phase = "run" => Len(frames) >= 1
    /\ Len(frames) >= 1 => frames[1].contract = None
    /\ Enough(rec) =>
          /\ ~diverged /\ Sim(rec, enf)
          /\ \A n \in 1..Len(frames) : MapSim(frames[n].rmap, frames[n].emap)

(* What has to be shown of a step.                                         *)
LEMMA InvAfter ==
    ASSUME PreInv, snap' = snap, declared' = declared, RecOK(rec'), IsSeq(frames'),
           \A n \in 1..Len(frames') : FrameOK(frames'[n]),
           phase' = "run" => Len(frames') >= 1,
           Len(frames') >= 1 => frames'[1].contract = None,
           Enough(rec') => ~diverged' /\ Sim(rec', enf')
                           /\ \A n \in 1..Len(frames') : MapSim(frames'[n].rmap, frames'[n].emap)
    PROVE  PreInv'
<1>1. StartOK' /\ (snap \in Snapshots)'
  BY DEF PreInv, StartOK
<1>2. StartMap' = StartMap
  BY DEF StartMap, EnforcingStart
<1>3. RecOK(rec)' <=> RecOK(rec')
  BY DEF RecOK
<1>4. Enough(rec)' <=> Enough(rec')
  BY DEF Enough
<1>5. Sim(rec, enf)' <=> Sim(rec', enf')
  BY <1>2 DEF Sim, MapSim
<1>6. (\A n \in 1..Len(frames) : MapSim(frames[n].rmap, frames[n].emap))'
        <=> \A n \in 1..Len(frames') : MapSim(frames'[n].rmap, frames'[n].emap)
  BY <1>2 DEF MapSim
<1> QED BY <1>1, <1>3, <1>4, <1>5, <1>6 DEF PreInv

(* A call made in both runs.                                               *)
LEMMA StepOK ==
    ASSUME PreInv, NEW r, NEW e, Alike(rec, enf, r, e), NEW try, Step(r, e, try)
    PROVE  /\ snap' = snap /\ declared' = declared /\ phase' = phase
           /\ RecOK(rec') /\ rec' = r.s
           /\ Enough(rec') =>
                 /\ ~diverged' /\ Sim(rec', enf')
                 /\ \A n \in 1..Len(frames) : MapSim(frames[n].rmap, frames[n].emap)
<1>1. snap' = snap /\ declared' = declared /\ phase' = phase /\ rec' = r.s
  BY DEF Step
<1>2. RecOK(rec) /\ StartOK /\ RecOK(r.s) /\ Grows(rec, r.s)
  BY DEF PreInv, Alike
<1>3. rec \in StorageRec /\ r.s \in StorageRec
  BY <1>2 DEF RecOK
<1>4. ASSUME Enough(r.s)
      PROVE  /\ ~diverged' /\ Sim(r.s, enf')
             /\ \A n \in 1..Len(frames) : MapSim(frames[n].rmap, frames[n].emap)
  <2>1. Enough(rec)
    BY <1>2, <1>3, <1>4, EnoughBefore
  <2>2. /\ ~diverged /\ Sim(rec, enf)
        /\ \A n \in 1..Len(frames) : MapSim(frames[n].rmap, frames[n].emap)
    BY <2>1 DEF PreInv
  <2>3. r.err = e.err /\ r.out = e.out /\ Sim(r.s, e.s)
    BY <1>4, <2>2 DEF Alike
  <2>4. diverged' = FALSE /\ enf' = e.s
    BY <2>2, <2>3 DEF Step
  <2> QED BY <2>2, <2>3, <2>4
<1> QED BY <1>1, <1>2, <1>4

(* The frames stay as they are.                                            *)
LEMMA BothOK ==
    ASSUME PreInv, NEW r, NEW e, Alike(rec, enf, r, e), Both(r, e)
    PROVE  PreInv'
<1>1. Step(r, e, FALSE) /\ frames' = frames
  BY DEF Both
<1>2. /\ snap' = snap /\ declared' = declared /\ phase' = phase /\ RecOK(rec')
      /\ Enough(rec') =>
            /\ ~diverged' /\ Sim(rec', enf')
            /\ \A n \in 1..Len(frames) : MapSim(frames[n].rmap, frames[n].emap)
  BY <1>1, StepOK
<1>3. /\ IsSeq(frames) /\ (\A n \in 1..Len(frames) : FrameOK(frames[n]))
      /\ (phase = "run" => Len(frames) >= 1) /\ (Len(frames) >= 1 => frames[1].contract = None)
  BY DEF PreInv
<1> QED BY <1>1, <1>2, <1>3, InvAfter

(* A frame was entered, or what comes before it failed.                    *)
LEMMA EnteredOK ==
    ASSUME PreInv, Running, NEW r, NEW e, Alike(rec, enf, r, e), NEW i \in InstanceKeys \cup {None}, NEW try,
           Entered(r, e, i, try)
    PROVE  PreInv'
<1> DEFINE f == [rmap |-> rec'.map, emap |-> enf'.map, try |-> try, contract |-> i]
<1>1. Step(r, e, try) /\ frames' = IF r.err = "Ok" THEN Append(frames, f) ELSE frames
  BY DEF Entered
<1>2. /\ snap' = snap /\ declared' = declared /\ phase' = phase /\ RecOK(rec')
      /\ Enough(rec') =>
            /\ ~diverged' /\ Sim(rec', enf')
            /\ \A n \in 1..Len(frames) : MapSim(frames[n].rmap, frames[n].emap)
  BY <1>1, StepOK
<1>3. /\ IsSeq(frames) /\ (\A n \in 1..Len(frames) : FrameOK(frames[n]))
      /\ Len(frames) >= 1 /\ frames[1].contract = None
  BY DEF PreInv, Running
<1>4. CASE r.err # "Ok"
  <2>1. frames' = frames
    BY <1>1, <1>4
  <2> QED BY <1>2, <1>3, <2>1, InvAfter
<1>5. CASE r.err = "Ok"
  <2>0. f.rmap = rec'.map /\ f.emap = enf'.map /\ f.contract = i
    OBVIOUS
  <2>1. frames' = Append(frames, f)
    BY <1>1, <1>5
  <2>2. FrameOK(f)
    BY <1>2, <2>0 DEF FrameOK, RecOK, StorageRec
  <2> HIDE DEF f
  <2>3. /\ IsSeq(frames') /\ Len(frames') = Len(frames) + 1 /\ Len(frames) \in Nat
        /\ \A n \in 1..Len(frames) : frames'[n] = frames[n]
        /\ frames'[Len(frames) + 1] = f
    BY <1>3, <2>1, SeqPush, SeqDomain
  <2>4. \A n \in 1..Len(frames') : n \in 1..Len(frames) \/ n = Len(frames) + 1
    BY <2>3
  <2>5. \A n \in 1..Len(frames') : FrameOK(frames'[n])
    BY <1>3, <2>2, <2>3, <2>4
  <2>6. Len(frames') >= 1 /\ frames'[1] = frames[1]
    BY <1>3, <2>3
  <2>7. ASSUME Enough(rec')
        PROVE  \A n \in 1..Len(frames') : MapSim(frames'[n].rmap, frames'[n].emap)
    <3>1. MapSim(f.rmap, f.emap)
      BY <1>2, <2>0, <2>7 DEF Sim
    <3> QED BY <1>2, <2>3, <2>4, <2>7, <3>1
  <2> QED BY <1>2, <1>3, <2>3, <2>5, <2>6, <2>7, InvAfter
<1> QED BY <1>4, <1>5

(* The frames without the innermost one.                                   *)
LEMMA Popped ==
    ASSUME PreInv, phase = "run", NEW st, st = SubSeq(frames, 1, Len(frames) - 1)
    PROVE  /\ IsSeq(st) /\ Len(st) = Len(frames) - 1 /\ Len(frames) \in Nat /\ Len(frames) >= 1
           /\ \A n \in 1..Len(st) : n \in 1..Len(frames) /\ st[n] = frames[n]
           /\ \A n \in 1..Len(st) : FrameOK(st[n])
           /\ Len(st) >= 1 => st[1].contract = None
           /\ Len(frames) \in 1..Len(frames) /\ FrameOK(frames[Len(frames)])
<1>1. IsSeq(frames) /\ (\A n \in 1..Len(frames) : FrameOK(frames[n])) /\ Len(frames) >= 1
      /\ frames[1].contract = None
  BY DEF PreInv
<1>2. Len(frames) \in Nat /\ Len(frames) - 1 \in 0..Len(frames) /\ Len(frames) \in 1..Len(frames)
  BY <1>1, SeqDomain
<1>3. IsSeq(st) /\ Len(st) = Len(frames) - 1 /\ \A n \in 1..(Len(frames) - 1) : st[n] = frames[n]
  BY <1>1, <1>2, SeqPrefix
<1>4. \A n \in 1..Len(st) : n \in 1..Len(frames) /\ st[n] = frames[n]
  BY <1>2, <1>3
<1>5. Len(st) >= 1 => st[1] = frames[1]
  BY <1>2, <1>3
<1> QED BY <1>1, <1>2, <1>3, <1>4, <1>5

(* A frame that returns; it may have been stored first.                    *)
LEMMA PopOkOK ==
    ASSUME PreInv, PopOk
    PROVE  PreInv'
<1>1. /\ phase = "run" /\ Len(frames) > 1 /\ frames' = SubSeq(frames, 1, Len(frames) - 1)
      /\ snap' = snap /\ declared' = declared /\ rec' = rec /\ enf' = enf /\ phase' = phase
      /\ diverged' = diverged
  BY DEF PopOk, Running
<1>2. /\ IsSeq(frames') /\ Len(frames') = Len(frames) - 1 /\ Len(frames) \in Nat
      /\ \A n \in 1..Len(frames') : n \in 1..Len(frames) /\ frames'[n] = frames[n]
      /\ \A n \in 1..Len(frames') : FrameOK(frames'[n])
      /\ Len(frames') >= 1 => frames'[1].contract = None
  BY <1>1, Popped
<1>3. Len(frames') >= 1
  BY <1>1, <1>2
<1>4. RecOK(rec') /\ (Enough(rec') => ~diverged' /\ Sim(rec', enf')
                           /\ \A n \in 1..Len(frames') : MapSim(frames'[n].rmap, frames'[n].emap))
  BY <1>1, <1>2 DEF PreInv
<1> QED BY <1>1, <1>2, <1>3, <1>4, InvAfter

(* The instance is stored, then the frame is popped; or storing it fails.  *)
LEMMA PersistOK ==
    ASSUME RecordingBuild, PreInv, PersistAndPop
    PROVE  PreInv'
<1> DEFINE i == frames[Len(frames)].contract
           r == store_instance_storage(rec, i, snap)
           e == store_instance_storage(enf, i, snap)
           st == SubSeq(frames, 1, Len(frames) - 1)
<1>1. Running /\ i # None /\ Step(r, e, FALSE) /\ frames' = IF r.err = "Ok" THEN st ELSE frames
  BY DEF PersistAndPop
<1>2. phase = "run"
  BY <1>1 DEF Running
<1>3. /\ IsSeq(st) /\ Len(st) = Len(frames) - 1 /\ Len(frames) \in Nat /\ Len(frames) >= 1
      /\ \A n \in 1..Len(st) : n \in 1..Len(frames) /\ st[n] = frames[n]
      /\ \A n \in 1..Len(st) : FrameOK(st[n])
      /\ Len(st) >= 1 => st[1].contract = None
      /\ FrameOK(frames[Len(frames)])
  BY <1>2, Popped
<1>4. i \in InstanceKeys
  BY <1>1, <1>3 DEF FrameOK
<1>5. Len(frames) # 1
  <2>1. frames[1].contract = None
    BY <1>2, <1>3 DEF PreInv
  <2>2. Len(frames) = 1 => i = None
    BY <2>1
  <2> QED BY <1>1, <2>2
<1> HIDE DEF i, st
<1>6. Alike(rec, enf, r, e)
  BY <1>4, StoreAlike DEF PreInv
<1> HIDE DEF r, e
<1>7. /\ snap' = snap /\ declared' = declared /\ phase' = phase /\ RecOK(rec')
      /\ Enough(rec') =>
            /\ ~diverged' /\ Sim(rec', enf')
            /\ \A n \in 1..Len(frames) : MapSim(frames[n].rmap, frames[n].emap)
  BY <1>1, <1>6, StepOK
<1>8. CASE r.err # "Ok"
  <2>1. frames' = frames
    BY <1>1, <1>8
  <2>2. /\ IsSeq(frames) /\ (\A n \in 1..Len(frames) : FrameOK(frames[n]))
        /\ Len(frames) >= 1 /\ frames[1].contract = None
    BY <1>2 DEF PreInv
  <2> QED BY <1>7, <2>1, <2>2, InvAfter
<1>9. CASE r.err = "Ok"
  <2>1. frames' = st
    BY <1>1, <1>9
  <2>2. Len(st) >= 1
    BY <1>3, <1>5
  <2>3. Enough(rec') => \A n \in 1..Len(frames') : MapSim(frames'[n].rmap, frames'[n].emap)
    BY <1>3, <1>7, <2>1
  <2> QED BY <1>3, <1>7, <2>1, <2>2, <2>3, InvAfter
<1> QED BY <1>8, <1>9

(* A frame that fails makes its rollback points the storages.              *)
LEMMA PopFailedOK ==
    ASSUME PreInv, PopFailed
    PROVE  PreInv'
<1> DEFINE f == frames[Len(frames)]
<1>1. /\ phase = "run" /\ frames' = SubSeq(frames, 1, Len(frames) - 1)
      /\ rec' = rollback(rec, f.rmap) /\ enf' = (IF diverged THEN enf ELSE rollback(enf, f.emap))
      /\ phase' = (IF Len(frames) = 1 THEN "failed" ELSE "run")
      /\ snap' = snap /\ declared' = declared /\ diverged' = diverged
  BY DEF PopFailed
<1>2. /\ IsSeq(frames') /\ Len(frames') = Len(frames) - 1 /\ Len(frames) \in Nat /\ Len(frames) >= 1
      /\ \A n \in 1..Len(frames') : n \in 1..Len(frames) /\ frames'[n] = frames[n]
      /\ \A n \in 1..Len(frames') : FrameOK(frames'[n])
      /\ Len(frames') >= 1 => frames'[1].contract = None
      /\ Len(frames) \in 1..Len(frames) /\ FrameOK(f)
  BY <1>1, Popped
<1>3. phase' = "run" => Len(frames') >= 1
  <2>1. CASE Len(frames) = 1
    BY <1>1, <2>1
  <2>2. CASE Len(frames) # 1
    BY <1>2, <2>2
  <2> QED BY <2>1, <2>2
<1> DEFINE m == f.rmap
<1>4. m \in StorageMap /\ \A k \in Keys : m[k] # Unloaded => Good(k, m[k])
  BY <1>2 DEF FrameOK
<1>5. /\ rec' = [rec EXCEPT !.map = m]
      /\ rec \in StorageRec /\ rec.mode = "Recording"
  BY <1>1 DEF rollback, PreInv, RecOK
<1> HIDE DEF m
<1>6. rec' \in StorageRec /\ rec'.mode = "Recording" /\ rec'.map = m /\ rec'.footprint = rec.footprint
  BY <1>4, <1>5 DEF StorageRec
<1>7. RecOK(rec')
  BY <1>4, <1>6 DEF RecOK
<1>8. ASSUME Enough(rec')
      PROVE  /\ ~diverged' /\ Sim(rec', enf')
             /\ \A n \in 1..Len(frames') : MapSim(frames'[n].rmap, frames'[n].emap)
  <2>1. Enough(rec)
    BY <1>6, <1>8 DEF Enough
  <2>2. /\ ~diverged /\ Sim(rec, enf)
        /\ \A n \in 1..Len(frames) : MapSim(frames[n].rmap, frames[n].emap)
    BY <2>1 DEF PreInv
  <2> DEFINE w == f.emap
  <2>3. MapSim(m, w)
    BY <1>2, <2>2 DEF m
  <2>4. enf' = [enf EXCEPT !.map = w] /\ enf \in StorageRec /\ w \in StorageMap
        /\ enf.mode = "Enforcing" /\ enf.footprint = declared
    BY <1>1, <2>2, <2>3 DEF rollback, Sim, MapSim
  <2> HIDE DEF w
  <2>5. enf' \in StorageRec /\ enf'.mode = "Enforcing" /\ enf'.map = w /\ enf'.footprint = declared
    BY <2>4 DEF StorageRec
  <2>6. Sim(rec', enf')
    BY <1>6, <2>3, <2>5 DEF Sim
  <2> QED BY <1>1, <1>2, <2>2, <2>6
<1> QED BY <1>1, <1>2, <1>3, <1>7, <1>8, InvAfter

-----------------------------------------------------------------------------
(* The actions.                                                            *)

(* A host call on a key the guest names.                                   *)
LEMMA KeyCallOK ==
    ASSUME RecordingBuild, PreInv, NEW k \in Keys,
           \/ GetContractData(k) \/ HasContractData(k) \/ DelContractData(k) \/ GetAddressExecutable(k)
    PROVE  PreInv'
<1>0. StartOK /\ RecOK(rec)
  BY DEF PreInv
<1>1. CASE GetContractData(k)
  <2> DEFINE r == get_with_live_until_ledger(rec, k, snap)
             e == get_with_live_until_ledger(enf, k, snap)
  <2>1. Both(r, e)
    BY <1>1 DEF GetContractData
  <2>2. Alike(rec, enf, r, e)
    BY <1>0, GetAlike
  <2> HIDE DEF r, e
  <2> QED BY <2>1, <2>2, BothOK
<1>2. ASSUME HasContractData(k) \/ GetAddressExecutable(k) PROVE PreInv'
  <2> DEFINE r == try_get_full(rec, k, snap)
             e == try_get_full(enf, k, snap)
  <2>1. Both(r, e)
    BY <1>2 DEF HasContractData, GetAddressExecutable, get_address_executable
  <2>2. Alike(rec, enf, r, e)
    BY <1>0, ReadAlike
  <2> HIDE DEF r, e
  <2> QED BY <2>1, <2>2, BothOK
<1>3. CASE DelContractData(k)
  <2> DEFINE r == put_opt(rec, k, None)
             e == put_opt(enf, k, None)
  <2>1. Both(r, e)
    BY <1>3 DEF DelContractData, del_contract_data
  <2>2. Good(k, None)
    BY DEF Good, WellFormedCell, IsExpired, Exists
  <2>3. Alike(rec, enf, r, e)
    BY <1>0, <2>2, PutAlike
  <2> HIDE DEF r, e
  <2> QED BY <2>1, <2>3, BothOK
<1> QED BY <1>1, <1>2, <1>3

(* A host call that writes the value v.                                    *)
LEMMA ValueCallOK ==
    ASSUME RecordingBuild, PreInv, NEW k \in Keys, NEW v \in Values,
           PutContractData(k, v) \/ UploadWasm(k, v) \/ PutClassicEntry(k, v)
    PROVE  PreInv'
<1>0. StartOK /\ RecOK(rec)
  BY DEF PreInv
<1>1. CASE PutContractData(k, v)
  <2> DEFINE r == put_contract_data(rec, k, v, snap)
             e == put_contract_data(enf, k, v, snap)
  <2>1. Both(r, e) /\ HasTtl(k)
    BY <1>1 DEF PutContractData, IsDataKey
  <2>2. Alike(rec, enf, r, e)
    BY <1>0, <2>1, PutDataAlike
  <2> HIDE DEF r, e
  <2> QED BY <2>1, <2>2, BothOK
<1>2. CASE UploadWasm(k, v)
  <2> DEFINE r == upload_contract_wasm(rec, k, v, snap)
             e == upload_contract_wasm(enf, k, v, snap)
  <2>1. Both(r, e) /\ k \in CodeKeys
    BY <1>2 DEF UploadWasm
  <2>2. Alike(rec, enf, r, e)
    BY <1>0, <2>1, UploadAlike
  <2> HIDE DEF r, e
  <2> QED BY <2>1, <2>2, BothOK
<1>3. CASE PutClassicEntry(k, v)
  <2> DEFINE r == put_classic_entry(rec, k, v, snap)
             e == put_classic_entry(enf, k, v, snap)
  <2>1. Both(r, e) /\ ~HasTtl(k)
    BY <1>3 DEF PutClassicEntry
  <2>2. Alike(rec, enf, r, e)
    BY <1>0, <2>1, ClassicAlike
  <2> HIDE DEF r, e
  <2> QED BY <2>1, <2>2, BothOK
<1> QED BY <1>1, <1>2, <1>3

(* An extension of data, of an instance, of a code or of both.             *)
LEMMA ExtensionOK ==
    ASSUME RecordingBuild, PreInv, NEW k \in Keys, NEW x \in Extends,
           \/ ExtendTtl(k, x)
           \/ k \in InstanceKeys /\ (ExtendContractCodeTtl(k, x) \/ ExtendContractInstanceAndCodeTtl(k, x))
    PROVE  PreInv'
<1>0. StartOK /\ RecOK(rec)
  BY DEF PreInv
<1>1. x[1] \in U32 /\ x[2] \in U32
  BY PreflightAssumption
<1>2. CASE ExtendTtl(k, x)
  <2> DEFINE r == extend_ttl(rec, k, x[1], x[2], snap)
             e == extend_ttl(enf, k, x[1], x[2], snap)
  <2>1. Both(r, e)
    BY <1>2 DEF ExtendTtl, extend_contract_instance_ttl
  <2>2. Alike(rec, enf, r, e)
    BY <1>0, <1>1, ExtendAlike
  <2> HIDE DEF r, e
  <2> QED BY <2>1, <2>2, BothOK
<1>3. CASE k \in InstanceKeys /\ ExtendContractCodeTtl(k, x)
  <2> DEFINE r == extend_contract_code_ttl(rec, k, x[1], x[2], snap)
             e == extend_contract_code_ttl(enf, k, x[1], x[2], snap)
  <2>1. Both(r, e)
    BY <1>3 DEF ExtendContractCodeTtl
  <2>2. Alike(rec, enf, r, e)
    BY <1>0, <1>1, <1>3, ExtendCodeAlike
  <2> HIDE DEF r, e
  <2> QED BY <2>1, <2>2, BothOK
<1>4. CASE k \in InstanceKeys /\ ExtendContractInstanceAndCodeTtl(k, x)
  <2> DEFINE r == extend_contract_instance_and_code_ttl(rec, k, x[1], x[2], snap)
             e == extend_contract_instance_and_code_ttl(enf, k, x[1], x[2], snap)
  <2>1. Both(r, e)
    BY <1>4 DEF ExtendContractInstanceAndCodeTtl
  <2>2. Alike(rec, enf, r, e)
    BY <1>0, <1>1, <1>4, ExtendBothAlike
  <2> HIDE DEF r, e
  <2> QED BY <2>1, <2>2, BothOK
<1> QED BY <1>2, <1>3, <1>4

(* The current contract, that of the innermost frame, takes new code.      *)
LEMMA UpdateOK ==
    ASSUME RecordingBuild, PreInv, NEW v \in Values, UpdateCurrentContractWasm(v)
    PROVE  PreInv'
<1> DEFINE i == frames[Len(frames)].contract
           r == update_contract_wasm(rec, i, v, snap)
           e == update_contract_wasm(enf, i, v, snap)
<1>0. StartOK /\ RecOK(rec)
  BY DEF PreInv
<1>1. phase = "run" /\ i # None /\ CodeOf[v] # None /\ Both(r, e)
  BY DEF UpdateCurrentContractWasm, Running
<1>2. FrameOK(frames[Len(frames)])
  BY <1>1, Popped
<1>3. i \in InstanceKeys
  BY <1>1, <1>2 DEF FrameOK
<1> HIDE DEF i
<1>4. Alike(rec, enf, r, e)
  BY <1>0, <1>1, <1>3, UpdateAlike
<1> HIDE DEF r, e
<1> QED BY <1>1, <1>4, BothOK

(* A call of a contract, or of one both runs hold.                         *)
LEMMA CallOK ==
    ASSUME RecordingBuild, PreInv, NEW i \in InstanceKeys \cup {None}, NEW try, Call(i, try)
    PROVE  PreInv'
<1>0. StartOK /\ RecOK(rec) /\ Running
  BY DEF PreInv, Call
<1>1. CASE i = None
  <2> DEFINE r == Res(rec, "Ok", None)
             e == Res(enf, "Ok", None)
  <2>1. Entered(r, e, i, try)
    BY <1>1 DEF Call
  <2>2. Alike(rec, enf, r, e)
    BY <1>0, Answer
  <2> HIDE DEF r, e
  <2> QED BY <1>0, <2>1, <2>2, EnteredOK
<1>2. CASE i # None
  <2> DEFINE r == load_contract(rec, i, snap)
             e == load_contract(enf, i, snap)
  <2>1. Entered(r, e, i, try)
    BY <1>2 DEF Call
  <2>2. Alike(rec, enf, r, e)
    BY <1>0, <1>2, LoadAlike
  <2> HIDE DEF r, e
  <2> QED BY <1>0, <2>1, <2>2, EnteredOK
<1> QED BY <1>1, <1>2

(* A contract is created, with or without a constructor to run.            *)
LEMMA CreateOK ==
    ASSUME RecordingBuild, PreInv, NEW i \in InstanceKeys, NEW v \in Values,
           NEW constructor \in BOOLEAN, CreateContract(i, v, constructor)
    PROVE  PreInv'
<1> DEFINE r == create_contract(rec, i, v, snap)
           e == create_contract(enf, i, v, snap)
<1>0. StartOK /\ RecOK(rec) /\ Running
  BY DEF PreInv, CreateContract
<1>1. Entered(r, e, i, FALSE) \/ Both(r, e)
  BY DEF CreateContract
<1>2. Alike(rec, enf, r, e)
  BY <1>0, CreateAlike
<1> HIDE DEF r, e
<1>3. i \in InstanceKeys \cup {None}
  OBVIOUS
<1> QED BY <1>0, <1>1, <1>2, <1>3, EnteredOK, BothOK

(* The guest fails, the host function ends, or nothing happens.            *)
LEMMA RestOK ==
    ASSUME PreInv, GuestError \/ Finish \/ Over \/ UNCHANGED vars
    PROVE  PreInv'
<1>1. /\ snap' = snap /\ declared' = declared /\ rec' = rec /\ enf' = enf /\ frames' = frames
      /\ diverged' = diverged
      /\ phase' = phase \/ phase' = "done"
  BY DEF GuestError, Finish, Over, vars
<1>2. /\ RecOK(rec') /\ IsSeq(frames') /\ (\A n \in 1..Len(frames') : FrameOK(frames'[n]))
      /\ (phase' = "run" => Len(frames') >= 1)
      /\ (Len(frames') >= 1 => frames'[1].contract = None)
      /\ Enough(rec') => ~diverged' /\ Sim(rec', enf')
                         /\ \A n \in 1..Len(frames') : MapSim(frames'[n].rmap, frames'[n].emap)
  BY <1>1 DEF PreInv
<1> QED BY <1>1, <1>2, InvAfter

(* Every step keeps the two runs together.                                 *)
LEMMA PreStep ==
    ASSUME RecordingBuild, PreInv, [Next]_vars
    PROVE  PreInv'
<1>0. Touched[snap] \subseteq Keys
  BY PreflightAssumption DEF PreInv
<1>1. ASSUME NEW k \in Touched[snap],
             \/ GetContractData(k) \/ HasContractData(k) \/ DelContractData(k) \/ GetAddressExecutable(k)
      PROVE  PreInv'
  BY <1>0, <1>1, KeyCallOK
<1>2. ASSUME NEW k \in Touched[snap], NEW v \in Values,
             PutContractData(k, v) \/ UploadWasm(k, v) \/ PutClassicEntry(k, v)
      PROVE  PreInv'
  BY <1>0, <1>2, ValueCallOK
<1>3. ASSUME NEW k \in Touched[snap], NEW x \in Extends, ExtendTtl(k, x)
      PROVE  PreInv'
  BY <1>0, <1>3, ExtensionOK
<1>4. ASSUME NEW i \in Instances, NEW x \in Extends,
             ExtendContractCodeTtl(i, x) \/ ExtendContractInstanceAndCodeTtl(i, x)
      PROVE  PreInv'
  <2>1. i \in Keys /\ i \in InstanceKeys
    BY <1>0 DEF Instances
  <2> QED BY <1>4, <2>1, ExtensionOK
<1>5. ASSUME NEW i \in Instances, NEW v \in Values, NEW constructor \in BOOLEAN,
             CreateContract(i, v, constructor)
      PROVE  PreInv'
  <2>1. i \in InstanceKeys
    BY DEF Instances
  <2> QED BY <1>5, <2>1, CreateOK
<1>6. ASSUME NEW v \in Values, UpdateCurrentContractWasm(v)
      PROVE  PreInv'
  BY <1>6, UpdateOK
<1>7. ASSUME NEW i \in Instances \union {None}, NEW try \in BOOLEAN, Call(i, try)
      PROVE  PreInv'
  <2>1. i \in InstanceKeys \cup {None}
    BY DEF Instances
  <2> QED BY <1>7, <2>1, CallOK
<1>8. ASSUME PopOk \/ PersistAndPop \/ PopFailed
      PROVE  PreInv'
  BY <1>8, PopOkOK, PersistOK, PopFailedOK
<1>9. ASSUME GuestError \/ Finish \/ Over \/ UNCHANGED vars
      PROVE  PreInv'
  BY <1>9, RestOK
<1> QED BY <1>1, <1>2, <1>3, <1>4, <1>5, <1>6, <1>7, <1>8, <1>9 DEF Next

(* Recording has loaded nothing; the enforcing run holds what the embedder *)
(* supplied.                                                               *)
LEMMA PreInit ==
    ASSUME Init
    PROVE  PreInv
<1>1. StartOK /\ snap \in Snapshots
  BY PreflightAssumption DEF Init, StartOK
<1>2. rec.footprint = [k \in Keys |-> "NotListed"] /\ rec.map = [k \in Keys |-> Unloaded]
      /\ rec.mode = "Recording" /\ rec = with_recording_footprint
  BY DEF Init, with_recording_footprint
<1>3. rec.map \in StorageMap /\ rec.footprint \in Footprint /\ \A k \in Keys : rec.map[k] = Unloaded
  BY <1>2 DEF StorageMap, Cell, Footprint, Access
<1>4. rec \in StorageRec
  BY <1>3 DEF Init, with_recording_footprint, StorageRec, Mode, StorageMap, Footprint
<1>5. RecOK(rec)
  BY <1>2, <1>3, <1>4 DEF RecOK
<1>6. enf.map = StartMap /\ enf.footprint = declared /\ enf.mode = "Enforcing"
  BY DEF Init, EnforcingStart, with_enforcing_footprint_and_map, StartMap
<1>7. StartMap \in StorageMap
  <2>1. \A k \in Keys : StartMap[k] \in Cell
    BY <1>1, StartSeen, SeenGood DEF Cell
  <2>2. StartMap = [k \in Keys |-> StartMap[k]]
    BY DEF StartMap, EnforcingStart, with_enforcing_footprint_and_map, build_storage_map
  <2> QED BY <2>1, <2>2 DEF StorageMap
<1>8. enf \in StorageRec
  <2>1. enf = [footprint |-> declared, map |-> StartMap, mode |-> "Enforcing"]
    BY DEF Init, EnforcingStart, with_enforcing_footprint_and_map, StartMap
  <2> QED BY <1>1, <1>7, <2>1 DEF StorageRec, Mode, StartOK
<1>9. MapSim(rec.map, StartMap)
  BY <1>3, <1>7 DEF MapSim
<1>10. Sim(rec, enf)
  BY <1>6, <1>8, <1>9 DEF Sim
<1> DEFINE f == [rmap |-> rec.map, emap |-> enf.map, try |-> FALSE, contract |-> None]
<1>11. f.rmap = rec.map /\ f.emap = enf.map /\ f.contract = None
  OBVIOUS
<1>12. FrameOK(f) /\ MapSim(f.rmap, f.emap)
  BY <1>3, <1>6, <1>9, <1>11 DEF FrameOK
<1>13. frames = <<f>> /\ ~diverged
  BY DEF Init
<1> HIDE DEF f
<1>14. IsSeq(frames) /\ Len(frames) = 1 /\ frames[1] = f
  BY <1>13 DEF IsSeq
<1>15. \A n \in 1..Len(frames) : frames[n] = f
  BY <1>14
<1> QED BY <1>1, <1>5, <1>10, <1>11, <1>12, <1>13, <1>14, <1>15 DEF PreInv

(* A key the recording run holds is held alike by the enforcing run.       *)
LEMMA PreSuffices ==
    ASSUME PreInv
    PROVE  PreflightSuffices
BY DEF PreInv, PreflightSuffices, Enough, Sim, MapSim

(* The purpose of recording (storage.rs, Footprint): in a build with the   *)
(* recording feature, the only one in which a storage records, a declared  *)
(* footprint that covers what has been recorded makes the enforcing run    *)
(* return the same errors and the same entries with the same live-until    *)
(* ledgers, for every ledger, guest program, nesting and TTL               *)
(* configuration.                                                          *)
THEOREM PreflightCorrect ==
    ASSUME RecordingBuild
    PROVE  Spec => []PreflightSuffices
<1>1. Init => PreInv
  BY PreInit
<1>2. PreInv /\ [Next]_vars => PreInv'
  BY PreStep
<1>3. PreInv => PreflightSuffices
  BY PreSuffices
<1> QED BY <1>1, <1>2, <1>3, PTL DEF Spec
=============================================================================
