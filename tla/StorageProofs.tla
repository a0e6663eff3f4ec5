---------------------------- MODULE StorageProofs ----------------------------
(***************************************************************************)
(* Theorems about StorageTxn, for every ledger, footprint, key set, depth  *)
(* and TTL configuration.  The invariants are proved from IndInv, which    *)
(* says of every key what its access and its cell may be together, in the  *)
(* storage and in every rollback point.                                    *)
(***************************************************************************)
EXTENDS StorageTxn, TLAPS

(* The host refuses expired entries or the embedder supplies none.         *)
LiveSupply == RecordingBuild \/ FiltersExpired

(* What the footprint says of a key (a) and what a map holds for it (c).   *)
KeyOK(mode, k, a, c) ==
    /\ a \in Access
    /\ c \in Cell
    /\ mode = "Recording" => RecordingBuild
    /\ c # Unloaded => WellFormedCell(k, c) /\ a # "NotListed"
    /\ mode = "Enforcing" /\ a # "NotListed" => c # Unloaded
    /\ c # Unloaded /\ LiveSupply =>
          ~IsExpired(k, c) /\ (a = "ReadOnly" => OnlyExtends(c, EffectiveCell(k)))
    /\ mode = "Recording" /\ a # "NotListed" /\ IsArchived(k, snap[k]) => a = "ReadWrite"

(* An access only grows, and only in Recording mode.                       *)
Grows(mode, a, b) ==
    /\ a = "ReadWrite" => b = "ReadWrite"
    /\ b = "NotListed" => a = "NotListed"
    /\ mode = "Enforcing" => b = a

StoreOK(s) ==
    /\ s \in StorageRec
    /\ \A k \in Keys : KeyOK(s.mode, k, s.footprint[k], s.map[k])

(* t is s with the access of k set to a and its cell to c.                 *)
Changed(s, t, k, a, c) ==
    /\ t \in StorageRec
    /\ t.mode = s.mode
    /\ t.footprint[k] = a
    /\ t.map[k] = c
    /\ \A j \in Keys \ {k} : t.footprint[j] = s.footprint[j] /\ t.map[j] = s.map[j]

(* The result r of an operation on key k of a storage s, and one that is   *)
(* an internal error only on overflow.                                     *)
Sound(s, r, k) ==
    /\ Changed(s, r.s, k, r.s.footprint[k], r.s.map[k])
    /\ KeyOK(s.mode, k, r.s.footprint[k], r.s.map[k])
    /\ Grows(s.mode, s.footprint[k], r.s.footprint[k])
    /\ r.err \in Outcomes
ResOK(s, r, k) ==
    /\ Sound(s, r, k)
    /\ r.err = "InternalError" => ~LiveSupply \/ LedgerOverflows

(* The ledger a transaction starts from.                                   *)
LedgerOK ==
    /\ \A k \in Keys : WellFormedCell(k, snap[k])
    /\ min_live_until_ledger("Persistent") \in U32

-----------------------------------------------------------------------------

(* The TTL bounds are naturals no earlier than the current ledger, which   *)
(* the helpers of ledger_info.rs compute before the overflow check.        *)
LEMMA MinLive ==
    /\ \A d \in Durabilities : min_live_until_ledger(d) \in Nat /\ min_live_until_ledger(d) >= Seq0
    /\ max_live_until_ledger \in Nat /\ Seq0 \in U32 /\ NoTtl \notin U32
    /\ \A k \in Keys : Durability[k] \in Durabilities
BY LedgerInfoAssumption
   DEF min_live_until_ledger, max_live_until_ledger, saturating_sub, U32, Durabilities, NoTtl

(* An expired entry is only met in a map by an operation that just loaded  *)
(* it, so a storage in good order is left alone.                           *)
LEMMA HandleIdle ==
    ASSUME NEW s, StoreOK(s), NEW k \in Keys
    PROVE  handle_maybe_expired_entry(s, k) = Res(s, "Ok", None)
<1>1. CASE ~RecordingBuild
  BY <1>1 DEF handle_maybe_expired_entry
<1>2. CASE RecordingBuild
  <2>1. KeyOK(s.mode, k, s.footprint[k], s.map[k])
    BY DEF StoreOK
  <2>2. ~IsExpired(k, s.map[k])
    BY <1>2, <2>1 DEF KeyOK, LiveSupply, IsExpired, Exists
  <2> QED BY <2>2 DEF handle_maybe_expired_entry
<1> QED BY <1>1, <1>2

(* Footprint::record_access changes the access of one key and nothing      *)
(* else.                                                                   *)
LEMMA SetAccess ==
    ASSUME NEW s \in StorageRec, NEW k \in Keys, NEW ty \in {"ReadOnly", "ReadWrite"}
    PROVE  Changed(s, [s EXCEPT !.footprint = record_access(@, k, ty)], k,
                   IF s.footprint[k] = "ReadWrite" THEN "ReadWrite" ELSE ty, s.map[k])
BY DEF Changed, record_access, StorageRec, Footprint, StorageMap, Access

(* Inserting into the map changes the cell of one key and nothing else.    *)
LEMMA SetCell ==
    ASSUME NEW s \in StorageRec, NEW k \in Keys, NEW c \in Cell
    PROVE  Changed(s, [s EXCEPT !.map[k] = c], k, s.footprint[k], c)
BY DEF Changed, StorageRec, Footprint, StorageMap

(* Two changes of one key are a change of that key.                        *)
LEMMA ChangedTwice ==
    ASSUME NEW s \in StorageRec, NEW t, NEW u, NEW k \in Keys, NEW a, NEW b, NEW c, NEW d,
           Changed(s, t, k, a, c), Changed(t, u, k, b, d)
    PROVE  Changed(s, u, k, b, d)
BY DEF Changed

(* Reading a key through to the ledger: the access is recorded, an expired *)
(* temporary entry becomes absent, an archived one is restored and listed  *)
(* as read-write.                                                          *)
LEMMA PrepareRecording ==
    ASSUME NEW s, StoreOK(s), LedgerOK, NEW k \in Keys, s.mode = "Recording"
    PROVE  LET r == prepare_read_only_access(s, k, snap)
               a == IF s.footprint[k] = "ReadWrite" THEN "ReadWrite" ELSE "ReadOnly"
               c == IF s.map[k] = Unloaded THEN snap[k] ELSE s.map[k]
           IN  /\ r.err = "Ok"
               /\ IF ~IsExpired(k, c) THEN Changed(s, r.s, k, a, c)
                  ELSE IF Durability[k] = "Temporary" THEN Changed(s, r.s, k, a, None)
                  ELSE Changed(s, r.s, k, "ReadWrite",
                               [c EXCEPT !.live = min_live_until_ledger("Persistent")])
<1> DEFINE r == prepare_read_only_access(s, k, snap)
           a == IF s.footprint[k] = "ReadWrite" THEN "ReadWrite" ELSE "ReadOnly"
           c == IF s.map[k] = Unloaded THEN snap[k] ELSE s.map[k]
           t == [s EXCEPT !.footprint = record_access(@, k, "ReadOnly")]
           u == IF s.map[k] = Unloaded THEN [t EXCEPT !.map[k] = snap[k]] ELSE t
           live == min_live_until_ledger("Persistent")
           w == [u EXCEPT !.footprint = record_access(@, k, "ReadWrite")]
<1>0. /\ s \in StorageRec /\ RecordingBuild
      /\ snap[k] \in Cell /\ s.map[k] \in Cell /\ None \in Cell
      /\ live \in U32
  <2>1. KeyOK(s.mode, k, s.footprint[k], s.map[k]) /\ s \in StorageRec
    BY DEF StoreOK
  <2>2. WellFormedCell(k, snap[k]) /\ live \in U32
    BY DEF LedgerOK
  <2> QED BY <2>1, <2>2 DEF KeyOK, WellFormedCell, Cell
<1>1. Changed(s, t, k, a, s.map[k])
  BY <1>0, SetAccess
<1>2. t \in StorageRec /\ t.map[k] = s.map[k] /\ t.footprint[k] = a
  BY <1>1 DEF Changed
<1>3. Changed(s, u, k, a, c)
  <2>1. CASE s.map[k] = Unloaded
    <3> HIDE DEF t, a
    <3>1. Changed(t, [t EXCEPT !.map[k] = snap[k]], k, a, snap[k])
      BY <1>0, <1>2, SetCell
    <3>2. Changed(s, [t EXCEPT !.map[k] = snap[k]], k, a, snap[k])
      BY <3>1, <1>0, <1>1, ChangedTwice
    <3> QED BY <2>1, <3>2
  <2>2. CASE s.map[k] # Unloaded
    BY <2>2, <1>1
  <2> QED BY <2>1, <2>2
<1>4. r = handle_maybe_expired_entry(u, k)
  <2>1. Access2(s, k, "ReadOnly").s = t
    BY DEF Access2, Res
  <2> QED BY <2>1 DEF prepare_read_only_access
<1>5. u \in StorageRec /\ u.map[k] = c /\ u.mode = s.mode
  BY <1>3 DEF Changed
<1> HIDE DEF t, u, c, a
<1>6. CASE ~IsExpired(k, c)
  <2>1. r = Res(u, "Ok", None)
    BY <1>4, <1>5, <1>6 DEF handle_maybe_expired_entry
  <2> QED BY <2>1, <1>3, <1>6 DEF Res, a, c
<1>7. CASE IsExpired(k, c) /\ Durability[k] = "Temporary"
  <2>1. r = Res([u EXCEPT !.map[k] = None], "Ok", None)
    BY <1>0, <1>4, <1>5, <1>7 DEF handle_maybe_expired_entry
  <2>2. Changed(s, [u EXCEPT !.map[k] = None], k, a, None)
    BY <1>0, <1>3, <1>5, SetCell, ChangedTwice DEF Changed
  <2> QED BY <2>1, <2>2, <1>7 DEF Res, a, c
<1>8. CASE IsExpired(k, c) /\ Durability[k] # "Temporary"
  <2> DEFINE e == [c EXCEPT !.live = live]
  <2>1. c \in Entry
    BY <1>0, <1>8 DEF IsExpired, Exists, Cell, c
  <2>2. e \in Cell
    BY <2>1, <1>0 DEF Entry, Cell
  <2>3. Changed(u, w, k, "ReadWrite", c)
    BY <1>5, SetAccess
  <2>4. Changed(s, w, k, "ReadWrite", c)
    BY <2>3, <1>0, <1>3, ChangedTwice
  <2>5. w \in StorageRec /\ w.footprint[k] = "ReadWrite"
    BY <2>3 DEF Changed
  <2>6. Changed(s, [w EXCEPT !.map[k] = e], k, "ReadWrite", e)
    <3> HIDE DEF w, e
    <3>1. Changed(w, [w EXCEPT !.map[k] = e], k, "ReadWrite", e)
      BY <2>2, <2>5, SetCell
    <3> QED BY <3>1, <2>4, <1>0, ChangedTwice
  <2>7. r = Res([w EXCEPT !.map[k] = e], "Ok", None)
    BY <1>0, <1>4, <1>5, <1>8 DEF handle_maybe_expired_entry, Fits, U32
  <2> QED BY <2>6, <2>7, <1>8 DEF Res, a, c
<1> QED BY <1>6, <1>7, <1>8

-----------------------------------------------------------------------------
(* Each operation keeps the storage in good order.                         *)

(* An operation that is in good order for its key (ResOK) leaves the whole *)
(* storage in good order.                                                  *)
LEMMA ResStore ==
    ASSUME NEW s, NEW r, NEW k \in Keys, StoreOK(s), Sound(s, r, k)
    PROVE  StoreOK(r.s)
BY DEF StoreOK, ResOK, Sound, Changed

(* Two operations on one key compose, as when a host function reads an     *)
(* entry and then writes it.                                               *)
LEMMA ResTwice ==
    ASSUME NEW s, NEW g, NEW r, NEW k \in Keys, StoreOK(s), ResOK(s, g, k), ResOK(g.s, r, k)
    PROVE  ResOK(s, r, k)
BY DEF StoreOK, ResOK, Sound, Changed, Grows

(* An operation that ends by changing one key to a good cell is in good    *)
(* order.                                                                  *)
LEMMA DoneOK ==
    ASSUME NEW s, NEW k \in Keys, NEW t, NEW a, NEW c, NEW o,
           Changed(s, t, k, a, c), KeyOK(s.mode, k, a, c), Grows(s.mode, s.footprint[k], a)
    PROVE  ResOK(s, Res(t, "Ok", o), k)
<1>1. t.footprint[k] = a /\ t.map[k] = c
  BY DEF Changed
<1> QED BY <1>1 DEF ResOK, Sound, Res, Outcomes

(* Storage::try_get_full keeps the storage in good order and returns what  *)
(* the map then holds.                                                     *)
LEMMA TryGetOK ==
    ASSUME NEW s, StoreOK(s), LedgerOK, NEW k \in Keys
    PROVE  LET r == try_get_full(s, k, snap) IN
           /\ ResOK(s, r, k)
           /\ r.err = "Ok" => r.out = r.s.map[k] /\ r.out # Unloaded
<1> DEFINE r == try_get_full(s, k, snap)
           p == prepare_read_only_access(s, k, snap)
           a == IF s.footprint[k] = "ReadWrite" THEN "ReadWrite" ELSE "ReadOnly"
           c == IF s.map[k] = Unloaded THEN snap[k] ELSE s.map[k]
           live == min_live_until_ledger("Persistent")
<1>0. /\ KeyOK(s.mode, k, s.footprint[k], s.map[k])
      /\ s \in StorageRec /\ WellFormedCell(k, snap[k]) /\ live \in U32 /\ live >= Seq0
      /\ s.mode \in Mode
  BY MinLive DEF StoreOK, LedgerOK, StorageRec, Durabilities
<1>1. CASE s.mode = "Enforcing"
  <2>1. /\ p = Res(s, "Ok", None) /\ s.footprint[k] # "NotListed"
        \/ p = Res(s, "ExceededLimit", None)
    <3>1. s.footprint[k] \in Access
      BY <1>0 DEF KeyOK
    <3> QED BY <1>1, <3>1 DEF prepare_read_only_access, Access2, enforce_access, Access
  <2>2. r.s = s /\ r.err \in {"Ok", "ExceededLimit"} /\ (r.err = "Ok" => r.out = s.map[k] /\ r.out # Unloaded)
    <3>1. CASE p = Res(s, "ExceededLimit", None)
      BY <3>1 DEF try_get_full, ReadCell, Res
    <3>2. CASE p = Res(s, "Ok", None) /\ s.footprint[k] # "NotListed"
      <4>1. s.map[k] # Unloaded
        BY <3>2, <1>0, <1>1 DEF KeyOK
      <4> QED BY <4>1, <3>2 DEF try_get_full, ReadCell, Res
    <3> QED BY <2>1, <3>1, <3>2
  <2>3. Changed(s, s, k, s.footprint[k], s.map[k]) /\ Grows(s.mode, s.footprint[k], s.footprint[k])
    BY <1>0 DEF Changed, Grows
  <2> QED BY <2>2, <2>3, <1>0 DEF ResOK, Sound, Outcomes
<1>2. CASE s.mode = "Recording"
  <2>0. RecordingBuild /\ LiveSupply
    BY <1>2, <1>0 DEF KeyOK, LiveSupply
  <2>1. /\ p.err = "Ok"
        /\ IF ~IsExpired(k, c) THEN Changed(s, p.s, k, a, c)
           ELSE IF Durability[k] = "Temporary" THEN Changed(s, p.s, k, a, None)
           ELSE Changed(s, p.s, k, "ReadWrite", [c EXCEPT !.live = live])
    BY <1>2, PrepareRecording
  <2>2. /\ KeyOK(s.mode, k, p.s.footprint[k], p.s.map[k])
        /\ p.s.map[k] # Unloaded
        /\ Changed(s, p.s, k, p.s.footprint[k], p.s.map[k])
        /\ Grows(s.mode, s.footprint[k], p.s.footprint[k])
    <3>1. CASE s.map[k] # Unloaded
      <4>1. ~IsExpired(k, c) /\ s.footprint[k] # "NotListed"
        BY <3>1, <2>0, <1>0 DEF KeyOK
      <4>2. Changed(s, p.s, k, s.footprint[k], s.map[k])
        BY <3>1, <4>1, <2>1, <1>0 DEF KeyOK, Access
      <4> QED BY <4>2, <3>1, <1>0 DEF Changed, Grows
    <3>2. CASE s.map[k] = Unloaded /\ ~IsExpired(k, snap[k])
      <4>1. Changed(s, p.s, k, a, snap[k])
        BY <3>2, <2>1
      <4>2. snap[k] \in Cell /\ snap[k] # Unloaded /\ a \in Access /\ a # "NotListed"
        BY <1>0, StorageAssumption DEF WellFormedCell, Cell, Access
      <4>3. OnlyExtends(snap[k], EffectiveCell(k))
        <5>1. EffectiveCell(k) = snap[k]
          BY <3>2 DEF EffectiveCell, IsArchived
        <5>2. Exists(snap[k]) => snap[k].live >= snap[k].live
          BY <1>0, <4>2 DEF WellFormedCell, Exists, Entry, U32, NoTtl
        <5> QED BY <5>1, <5>2 DEF OnlyExtends
      <4>4. KeyOK(s.mode, k, a, snap[k])
        BY <4>2, <4>3, <3>2, <2>0, <1>2, <1>0 DEF KeyOK, IsArchived
      <4> QED BY <4>1, <4>2, <4>4, <1>2 DEF Changed, Grows
    <3>3. CASE s.map[k] = Unloaded /\ IsExpired(k, snap[k]) /\ Durability[k] = "Temporary"
      <4>1. Changed(s, p.s, k, a, None)
        BY <3>3, <2>1
      <4>2. None \in Cell /\ None # Unloaded /\ a \in Access /\ a # "NotListed"
        BY StorageAssumption DEF Cell, Access
      <4>3. OnlyExtends(None, EffectiveCell(k))
        BY <3>3 DEF EffectiveCell, IsArchived, OnlyExtends, Exists
      <4>4. KeyOK(s.mode, k, a, None)
        BY <4>2, <4>3, <3>3, <2>0, <1>2 DEF KeyOK, IsArchived, IsExpired, Exists, WellFormedCell
      <4> QED BY <4>1, <4>2, <4>4, <1>2 DEF Changed, Grows
    <3>4. CASE s.map[k] = Unloaded /\ IsExpired(k, snap[k]) /\ Durability[k] # "Temporary"
      <4> DEFINE e == [snap[k] EXCEPT !.live = live]
      <4>1. Changed(s, p.s, k, "ReadWrite", e)
        BY <3>4, <2>1
      <4>2. snap[k] \in Entry /\ HasTtl(k)
        BY <1>0, <3>4 DEF IsExpired, Exists, WellFormedCell
      <4>3. e \in Entry /\ e.live = live
        BY <4>2, <1>0 DEF Entry
      <4>4. e \in Cell /\ e # Unloaded /\ WellFormedCell(k, e) /\ ~IsExpired(k, e)
        BY <4>2, <4>3, <1>0, StorageAssumption, MinLive DEF Cell, WellFormedCell, IsExpired, U32
      <4> HIDE DEF e
      <4>5. KeyOK(s.mode, k, "ReadWrite", e)
        BY <4>4, <2>0, <1>2 DEF KeyOK, Access
      <4> QED BY <4>1, <4>4, <4>5, <1>2 DEF Changed, Grows
    <3> QED BY <3>1, <3>2, <3>3, <3>4
  <2>3. r = Res(p.s, "Ok", p.s.map[k])
    BY <2>1, <2>2 DEF try_get_full, ReadCell
  <2> QED BY <2>2, <2>3 DEF ResOK, Sound, Res, Outcomes
<1> QED BY <1>0, <1>1, <1>2 DEF Mode

(* Storage::get_with_live_until_ledger does too, and returns an entry.     *)
LEMMA GetOK ==
    ASSUME NEW s, StoreOK(s), LedgerOK, NEW k \in Keys
    PROVE  LET r == get_with_live_until_ledger(s, k, snap) IN
           /\ ResOK(s, r, k)
           /\ r.err = "Ok" => r.out = r.s.map[k] /\ Exists(r.out)
<1> DEFINE g == try_get_full(s, k, snap)
<1>1. ResOK(s, g, k) /\ (g.err = "Ok" => g.out = g.s.map[k] /\ g.out # Unloaded)
  BY TryGetOK
<1> HIDE DEF g
<1>2. CASE g.err = "Ok" /\ g.out = None
  <2>1. get_with_live_until_ledger(s, k, snap) = Res(g.s, "MissingValue", None)
    BY <1>2 DEF get_with_live_until_ledger, OrMissing, g
  <2> QED BY <1>1, <2>1 DEF ResOK, Sound, Res, Outcomes
<1>3. CASE ~(g.err = "Ok" /\ g.out = None)
  <2>1. get_with_live_until_ledger(s, k, snap) = g
    BY <1>3 DEF get_with_live_until_ledger, OrMissing, g
  <2> QED BY <1>1, <1>3, <2>1 DEF Exists
<1> QED BY <1>2, <1>3

(* Storage::put and del keep the storage in good order when the cell they  *)
(* are given is well formed and live.                                      *)
LEMMA PutOptOK ==
    ASSUME NEW s, StoreOK(s), NEW k \in Keys, NEW c,
           WellFormedCell(k, c), LiveSupply => ~IsExpired(k, c)
    PROVE  ResOK(s, put_opt(s, k, c), k)
<1> DEFINE r == put_opt(s, k, c)
           t == [s EXCEPT !.footprint = record_access(@, k, "ReadWrite")]
<1>0. /\ KeyOK(s.mode, k, s.footprint[k], s.map[k])
      /\ s \in StorageRec /\ s.mode \in Mode /\ s.footprint[k] \in Access
      /\ c \in Cell /\ c # Unloaded
  BY StorageAssumption DEF StoreOK, StorageRec, WellFormedCell, Cell, KeyOK
<1>1. handle_maybe_expired_entry(s, k) = Res(s, "Ok", None)
  BY HandleIdle
<1>2. r = LET a == Access2(s, k, "ReadWrite")
          IN  IF a.err # "Ok" THEN a ELSE Res([a.s EXCEPT !.map[k] = c], "Ok", None)
  BY <1>1 DEF put_opt, Res
<1>3. KeyOK(s.mode, k, "ReadWrite", c)
  BY <1>0 DEF KeyOK, Access
<1>4. CASE s.mode = "Recording"
  <2>1. r = Res([t EXCEPT !.map[k] = c], "Ok", None)
    BY <1>2, <1>4 DEF Access2, Res
  <2>2. Changed(s, t, k, "ReadWrite", s.map[k])
    BY <1>0, SetAccess
  <2> HIDE DEF t
  <2>3. Changed(t, [t EXCEPT !.map[k] = c], k, "ReadWrite", c)
    BY <1>0, <2>2, SetCell DEF Changed
  <2>4. Changed(s, [t EXCEPT !.map[k] = c], k, "ReadWrite", c)
    BY <2>2, <2>3, <1>0, ChangedTwice
  <2>5. Grows(s.mode, s.footprint[k], "ReadWrite")
    BY <1>4 DEF Grows
  <2> QED BY <2>1, <2>4, <2>5, <1>3, DoneOK
<1>5. CASE s.mode = "Enforcing" /\ s.footprint[k] = "ReadWrite"
  <2>1. r = Res([s EXCEPT !.map[k] = c], "Ok", None)
    BY <1>2, <1>5 DEF Access2, Res, enforce_access
  <2>2. Changed(s, [s EXCEPT !.map[k] = c], k, "ReadWrite", c)
    BY <1>0, <1>5, SetCell
  <2>3. Grows(s.mode, s.footprint[k], "ReadWrite")
    BY <1>5 DEF Grows
  <2> QED BY <2>1, <2>2, <2>3, <1>3, DoneOK
<1>6. CASE s.mode = "Enforcing" /\ s.footprint[k] # "ReadWrite"
  <2>1. r = Res(s, "ExceededLimit", None)
    BY <1>2, <1>6 DEF Access2, Res, enforce_access
  <2>2. Changed(s, s, k, s.footprint[k], s.map[k])
    BY <1>0 DEF Changed
  <2> QED BY <2>1, <2>2, <1>0 DEF ResOK, Sound, Res, Grows, Outcomes
<1> QED BY <1>0, <1>4, <1>5, <1>6 DEF Mode

(* Reading k and then writing c to it, or failing in between.              *)
LEMMA ReadThenPutOK ==
    ASSUME NEW s, StoreOK(s), NEW k \in Keys, NEW g, ResOK(s, g, k), NEW c,
           WellFormedCell(k, c), LiveSupply => ~IsExpired(k, c)
    PROVE  ResOK(s, put_opt(g.s, k, c), k)
<1>1. StoreOK(g.s)
  BY ResStore DEF ResOK
<1>2. ResOK(g.s, put_opt(g.s, k, c), k)
  BY <1>1, PutOptOK
<1> QED BY <1>2, ResTwice

(* A new entry with the minimum live-until ledger of its durability.       *)
LEMMA NewEntryOK ==
    ASSUME NEW k \in Keys, HasTtl(k), NEW v \in Values, NEW d \in Durabilities,
           Fits(min_live_until_ledger(d))
    PROVE  LET c == [val |-> v, live |-> min_live_until_ledger(d)]
           IN  WellFormedCell(k, c) /\ ~IsExpired(k, c)
BY MinLive DEF WellFormedCell, IsExpired, Entry, Fits, U32

(* The error every TTL computation that does not fit a u32 ends in.        *)
LEMMA FailedOK ==
    ASSUME NEW s, NEW k \in Keys, NEW g, ResOK(s, g, k), NEW e \in Outcomes,
           e = "InternalError" => ~LiveSupply \/ LedgerOverflows
    PROVE  ResOK(s, Res(g.s, e, None), k)
BY DEF ResOK, Sound, Res

(* put_contract_data_into_ledger keeps the storage in good order.          *)
LEMMA PutDataOK ==
    ASSUME NEW s, StoreOK(s), LedgerOK, NEW k \in Keys, HasTtl(k), NEW v \in Values
    PROVE  ResOK(s, put_contract_data(s, k, v, snap), k)
<1> DEFINE r == put_contract_data(s, k, v, snap)
           g == try_get_full(s, k, snap)
           live == min_live_until_ledger(Durability[k])
<1>1. ResOK(s, g, k) /\ (g.err = "Ok" => g.out = g.s.map[k] /\ g.out # Unloaded)
  BY TryGetOK
<1>0. r = IF g.err # "Ok" THEN g
          ELSE IF g.out # None THEN put_opt(g.s, k, [g.out EXCEPT !.val = v])
          ELSE IF ~Fits(live) THEN Res(g.s, "InternalError", None)
          ELSE put_opt(g.s, k, [val |-> v, live |-> live])
  BY DEF put_contract_data
<1>d. Durability[k] \in Durabilities /\ Durability[k] # "Classic"
  BY MinLive DEF HasTtl
<1> HIDE DEF r, g, live
<1>2. CASE g.err # "Ok"
  BY <1>0, <1>1, <1>2 DEF r
<1>3. CASE g.err = "Ok" /\ g.out # None
  <2>1. KeyOK(s.mode, k, g.s.footprint[k], g.out) /\ g.out # Unloaded
    BY <1>1, <1>3 DEF ResOK, Sound
  <2>2. g.out \in Entry /\ WellFormedCell(k, g.out) /\ (LiveSupply => ~IsExpired(k, g.out))
    BY <2>1, <1>3 DEF KeyOK, WellFormedCell
  <2> DEFINE c == [g.out EXCEPT !.val = v]
  <2>3. c \in Entry /\ c.live = g.out.live
    BY <2>2 DEF Entry
  <2>4. WellFormedCell(k, c) /\ (LiveSupply => ~IsExpired(k, c))
    BY <2>2, <2>3, <1>3, <2>1 DEF WellFormedCell, IsExpired, Exists
  <2> QED BY <1>0, <1>1, <1>3, <2>4, ReadThenPutOK DEF r
<1>4. CASE g.err = "Ok" /\ g.out = None /\ ~Fits(live)
  <2>1. LedgerOverflows
    BY <1>4, <1>d DEF LedgerOverflows, live, LedgerOK, Fits, U32, Durabilities
  <2> QED BY <1>0, <1>1, <1>4, <2>1, FailedOK DEF r, Outcomes
<1>5. CASE g.err = "Ok" /\ g.out = None /\ Fits(live)
  BY <1>0, <1>1, <1>5, <1>d, NewEntryOK, ReadThenPutOK DEF r, live
<1> QED BY <1>2, <1>3, <1>4, <1>5 DEF r

(* upload_contract_wasm keeps the storage in good order, though it may     *)
(* lower the live-until ledger of the code entry in the map.               *)
LEMMA UploadOK ==
    ASSUME NEW s, StoreOK(s), LedgerOK, NEW k \in Keys, HasTtl(k), NEW v \in Values
    PROVE  ResOK(s, upload_contract_wasm(s, k, v, snap), k)
<1> DEFINE g == try_get_full(s, k, snap)
           live == min_live_until_ledger("Persistent")
<1>1. ResOK(s, g, k)
  BY TryGetOK
<1>2. Fits(live) /\ "Persistent" \in Durabilities
  BY MinLive DEF LedgerOK, Fits, U32, Durabilities
<1>3. ResOK(s, put_opt(g.s, k, [val |-> v, live |-> live]), k)
  BY <1>1, <1>2, NewEntryOK, ReadThenPutOK
<1>4. ResOK(s, Res(g.s, "Ok", None), k)
  BY <1>1, FailedOK DEF Outcomes
<1> QED BY <1>1, <1>2, <1>3, <1>4 DEF upload_contract_wasm

(* Rewriting an account or a trustline keeps the storage in good order.    *)
LEMMA ClassicOK ==
    ASSUME NEW s, StoreOK(s), LedgerOK, NEW k \in Keys, ~HasTtl(k), NEW v \in Values
    PROVE  ResOK(s, put_classic_entry(s, k, v, snap), k)
<1> DEFINE g == get_with_live_until_ledger(s, k, snap)
           c == [val |-> v, live |-> NoTtl]
<1>1. ResOK(s, g, k)
  BY GetOK
<1>2. WellFormedCell(k, c) /\ ~IsExpired(k, c)
  BY DEF WellFormedCell, IsExpired, Entry
<1>3. ResOK(s, put_opt(g.s, k, c), k)
  BY <1>1, <1>2, ReadThenPutOK
<1> QED BY <1>1, <1>3 DEF put_classic_entry

(* del_contract_data keeps the storage in good order.                      *)
LEMMA DelOK ==
    ASSUME NEW s, StoreOK(s), NEW k \in Keys
    PROVE  ResOK(s, del_contract_data(s, k), k)
BY PutOptOK DEF del_contract_data, WellFormedCell, IsExpired, Exists

(* Storage::extend_ttl keeps the storage in good order, and fails with an  *)
(* internal error only on overflow or an expired supply.                   *)
LEMMA ExtendOK ==
    ASSUME NEW s, StoreOK(s), LedgerOK, NEW k \in Keys, HasTtl(k), NEW x \in Extends
    PROVE  /\ Sound(s, extend_ttl(s, k, x[1], x[2], snap), k)
           /\ Fits(Seq0 + x[2]) => ResOK(s, extend_ttl(s, k, x[1], x[2], snap), k)
<1> DEFINE r == extend_ttl(s, k, x[1], x[2], snap)
           g == get_with_live_until_ledger(s, k, snap)
           asked == Seq0 + x[2]
           past == asked > max_live_until_ledger
           new == IF past THEN max_live_until_ledger ELSE asked
           broken == \/ g.out.live = NoTtl \/ g.out.live < Seq0
                     \/ ~Fits(asked) \/ ~Fits(max_live_until_ledger)
<1>0. x[1] \in U32 /\ x[2] \in U32 /\ asked \in Nat /\ new \in Nat
  BY StorageTxnAssumption, MinLive DEF U32
<1>1. ResOK(s, g, k) /\ (g.err = "Ok" => g.out = g.s.map[k] /\ Exists(g.out))
  BY GetOK
<1>2. r = IF x[1] > x[2] THEN Res(s, "InvalidInput", None)
          ELSE IF g.err # "Ok" THEN g
          ELSE IF broken THEN Res(g.s, "InternalError", None)
          ELSE IF past /\ Durability[k] = "Temporary" THEN Res(g.s, "InvalidAction", None)
          ELSE IF new > g.out.live /\ saturating_sub(g.out.live, Seq0) <= x[1]
               THEN Res([g.s EXCEPT !.map[k] = [g.out EXCEPT !.live = new]], "Ok", None)
          ELSE Res(g.s, "Ok", None)
  <2>1. handle_maybe_expired_entry(s, k) = Res(s, "Ok", None)
    BY HandleIdle
  <2>2. handle_maybe_expired_entry(s, k).s = s /\ handle_maybe_expired_entry(s, k).err = "Ok"
    BY <2>1 DEF Res
  <2> QED BY <2>2 DEF extend_ttl
<1>3. ResOK(s, Res(s, "InvalidInput", None), k)
  BY DEF StoreOK, ResOK, Sound, Changed, Res, Grows, Outcomes
<1>4. g.err = "Ok" => /\ KeyOK(s.mode, k, g.s.footprint[k], g.out)
                      /\ g.out \in Entry /\ g.out.live \in U32
                      /\ g.out # Unloaded
  BY <1>1 DEF ResOK, Sound, KeyOK, Exists, WellFormedCell
<1> HIDE DEF r, g
<1>5. g.err = "Ok" /\ broken => /\ Sound(s, Res(g.s, "InternalError", None), k)
                                /\ Fits(asked) => ResOK(s, Res(g.s, "InternalError", None), k)
  <2>1. Sound(s, Res(g.s, "InternalError", None), k)
    BY <1>1 DEF ResOK, Sound, Res, Outcomes
  <2> SUFFICES ASSUME g.err = "Ok", broken, Fits(asked)
               PROVE  ResOK(s, Res(g.s, "InternalError", None), k)
    BY <2>1
  <2>2. LiveSupply => LedgerOverflows
    <3>1. LiveSupply => ~(g.out.live < Seq0)
      BY <1>4, <1>1 DEF KeyOK, IsExpired
    <3>2. g.out.live # NoTtl
      BY <1>4 DEF U32, NoTtl
    <3> QED BY <3>1, <3>2 DEF LedgerOverflows
  <2> QED BY <1>1, <2>2, FailedOK DEF Outcomes
<1>6. ResOK(s, Res(g.s, "InvalidAction", None), k) /\ ResOK(s, Res(g.s, "Ok", None), k)
  BY <1>1, FailedOK DEF Outcomes
<1>7. ASSUME g.err = "Ok", ~broken, new > g.out.live
      PROVE  ResOK(s, Res([g.s EXCEPT !.map[k] = [g.out EXCEPT !.live = new]], "Ok", None), k)
  <2> DEFINE c == [g.out EXCEPT !.live = new]
             a == g.s.footprint[k]
  <2>1. new \in U32
    BY <1>0, <1>7 DEF Fits, U32
  <2>2. c \in Entry /\ c.live = new /\ c.val = g.out.val
    BY <1>4, <1>7, <2>1 DEF Entry
  <2>3. c \in Cell /\ c # Unloaded /\ c # None /\ WellFormedCell(k, c)
    BY <2>1, <2>2, StorageAssumption DEF Cell, WellFormedCell
  <2>4. ~IsExpired(k, c)
    BY <1>4, <1>7, <1>0, <2>2, MinLive DEF IsExpired, U32
  <2>5. LiveSupply /\ a = "ReadOnly" => OnlyExtends(c, EffectiveCell(k))
    <3> HIDE DEF c
    <3> SUFFICES ASSUME LiveSupply, a = "ReadOnly" PROVE OnlyExtends(c, EffectiveCell(k))
      OBVIOUS
    <3>1. OnlyExtends(g.out, EffectiveCell(k)) /\ Exists(g.out)
      BY <1>1, <1>4, <1>7 DEF KeyOK
    <3>2. EffectiveCell(k).live \in Int
      <4>1. Exists(EffectiveCell(k)) /\ WellFormedCell(k, snap[k])
        BY <3>1 DEF OnlyExtends, LedgerOK
      <4>2. CASE IsArchived(k, snap[k])
        <5>1. snap[k] \in Entry
          BY <4>1, <4>2 DEF IsArchived, IsExpired, Exists, WellFormedCell
        <5>2. min_live_until_ledger("Persistent") \in U32
          BY DEF LedgerOK
        <5>3. EffectiveCell(k).live = min_live_until_ledger("Persistent")
          BY <4>2, <5>1 DEF EffectiveCell, Entry
        <5> QED BY <5>2, <5>3 DEF U32
      <4>3. CASE ~IsArchived(k, snap[k])
        <5>1. EffectiveCell(k) = snap[k] /\ snap[k] \in Entry
          BY <4>1, <4>3 DEF EffectiveCell, Exists, WellFormedCell
        <5> QED BY <5>1 DEF Entry, U32, NoTtl
      <4> QED BY <4>2, <4>3
    <3>3. c.val = EffectiveCell(k).val /\ c.live >= EffectiveCell(k).live
      BY <3>1, <3>2, <1>0, <1>4, <1>7, <2>2 DEF OnlyExtends, U32
    <3> QED BY <3>1, <3>3, <2>3 DEF OnlyExtends, Exists
  <2>6. KeyOK(s.mode, k, a, c)
    <3> HIDE DEF c
    <3> QED BY <1>4, <1>7, <2>3, <2>4, <2>5 DEF KeyOK
  <2>7. g.s \in StorageRec /\ s \in StorageRec /\ Changed(s, g.s, k, a, g.s.map[k])
        /\ Grows(s.mode, s.footprint[k], a)
    BY <1>1 DEF ResOK, Sound, Changed, StoreOK
  <2>8. Changed(s, [g.s EXCEPT !.map[k] = c], k, a, c)
    <3> HIDE DEF c
    <3>1. Changed(g.s, [g.s EXCEPT !.map[k] = c], k, a, c)
      BY <2>3, <2>7, SetCell
    <3> QED BY <3>1, <2>7, ChangedTwice
  <2> HIDE DEF c
  <2>9. ResOK(s, Res([g.s EXCEPT !.map[k] = c], "Ok", None), k)
    BY <2>6, <2>7, <2>8, DoneOK
  <2> QED BY <2>9 DEF c
<1>8. (g.err = "Ok" /\ broken) \/ ResOK(s, r, k)
  BY <1>1, <1>2, <1>3, <1>6, <1>7
<1>9. CASE ResOK(s, r, k)
  BY <1>9 DEF ResOK, r
<1>10. CASE g.err = "Ok" /\ broken /\ ~ResOK(s, r, k)
  <2>1. r = Res(g.s, "InternalError", None)
    BY <1>2, <1>3, <1>10
  <2> QED BY <1>5, <1>10, <2>1 DEF r
<1> QED BY <1>8, <1>9, <1>10

-----------------------------------------------------------------------------
(* The inductive invariant.                                                *)

MapsOK ==
    /\ StoreOK(storage)
    /\ frames \in Seq(Frame)
    /\ \A i \in 1..Len(frames) : \A k \in Keys :
          KeyOK(storage.mode, k, storage.footprint[k], frames[i].map[k])

(* The snapshot that changes are computed against shows, for the listed    *)
(* keys, the entries the transaction started from.                         *)
InitOK ==
    /\ init \in StorageMap
    /\ \A k \in Keys : WellFormedCell(k, init[k])
    /\ storage.mode = "Recording" => init = snap
    /\ storage.mode = "Enforcing" /\ LiveSupply =>
          \A k \in Listed(storage.footprint) : init[k] = EffectiveCell(k)

OutcomeOK ==
    /\ err \in Outcomes
    /\ phase \in {"run", "done", "failed"}
    /\ phase = "run" => Len(frames) > 0
    /\ \A k \in DOMAIN changes : changes[k] \in ChangeRec
    /\ LiveSupply => ChangesMatchStorage /\ NeverShortened

IndInv ==
    /\ snap \in Snapshots
    /\ LedgerOK
    /\ restored \in SUBSET Keys
    /\ MapsOK
    /\ InitOK
    /\ OutcomeOK

(* Both entry points of e2e_invoke.rs build a storage in good order.       *)
LEMMA StartOK ==
    ASSUME Init, LedgerOK
    PROVE  StoreOK(storage) /\ InitOK /\ restored \in SUBSET Keys
<1>0. /\ snap \in StorageMap
      /\ \A k \in Keys : WellFormedCell(k, snap[k]) /\ snap[k] \in Cell /\ snap[k] # Unloaded
  BY SnapshotsAssumption, StorageAssumption DEF Init, WellFormedCell, Cell
<1>1. CASE StartRecording
  <2>1. storage \in StorageRec
    BY <1>1 DEF StartRecording, with_recording_footprint, StorageRec, Footprint, StorageMap, Access, Cell, Mode
  <2>2. \A k \in Keys : storage.footprint[k] = "NotListed" /\ storage.map[k] = Unloaded
    BY <1>1 DEF StartRecording, with_recording_footprint
  <2>3. storage.mode = "Recording" /\ RecordingBuild /\ init = snap /\ restored = {}
    BY <1>1 DEF StartRecording, with_recording_footprint
  <2>4. StoreOK(storage)
    BY <2>1, <2>2, <2>3 DEF StoreOK, KeyOK, Access, Cell
  <2> QED BY <1>0, <2>3, <2>4 DEF InitOK
<1>2. CASE StartEnforcing
  <2>1. PICK fp \in Footprint :
            /\ RestoredAreReadWrite(fp, snap)
            /\ init = Supplied(fp, snap, FiltersExpired)
            /\ ~BuildFails(fp, init)
            /\ storage = with_enforcing_footprint_and_map(fp, init)
            /\ restored = RestoredKeys(fp, snap)
    BY <1>2 DEF StartEnforcing
  <2>2. fp \in Footprint
    OBVIOUS
  <2>3. \A k \in Keys : WellFormedCell(k, init[k])
    <3> SUFFICES ASSUME NEW k \in Keys PROVE WellFormedCell(k, init[k])
      OBVIOUS
    <3>1. init[k] \in {None, snap[k]} \/
          (IsArchived(k, snap[k])
             /\ init[k] = [snap[k] EXCEPT !.live = min_live_until_ledger("Persistent")])
      BY <2>1 DEF Supplied
    <3>2. CASE init[k] \in {None, snap[k]}
      BY <3>2, <1>0 DEF WellFormedCell
    <3>3. CASE /\ IsArchived(k, snap[k])
               /\ init[k] = [snap[k] EXCEPT !.live = min_live_until_ledger("Persistent")]
      <4>1. snap[k] \in Entry /\ HasTtl(k)
        BY <3>3, <1>0 DEF IsArchived, IsExpired, Exists, WellFormedCell
      <4> QED BY <4>1, <3>3 DEF WellFormedCell, Entry, LedgerOK
    <3> QED BY <3>1, <3>2, <3>3
  <2>4. init \in StorageMap /\ \A k \in Keys : init[k] \in Cell /\ init[k] # Unloaded
    <3>1. \A k \in Keys : init[k] \in Cell /\ init[k] # Unloaded
      BY <2>3, StorageAssumption DEF WellFormedCell, Cell
    <3>2. init = [k \in Keys |-> init[k]]
      BY <2>1 DEF Supplied
    <3> QED BY <3>1, <3>2 DEF StorageMap
  <2>5. /\ storage \in StorageRec /\ storage.mode = "Enforcing" /\ storage.footprint = fp
        /\ \A k \in Keys : storage.map[k] = IF fp[k] = "NotListed" THEN Unloaded ELSE init[k]
    <3>1. build_storage_map(fp, init) \in StorageMap
      BY <2>4 DEF build_storage_map, StorageMap, Cell
    <3>2. storage = [footprint |-> fp, map |-> build_storage_map(fp, init), mode |-> "Enforcing"]
      BY <2>1 DEF with_enforcing_footprint_and_map
    <3> QED BY <3>1, <3>2, <2>2 DEF StorageRec, Mode, build_storage_map
  <2>6. LiveSupply => \A k \in Keys : fp[k] # "NotListed" => init[k] = EffectiveCell(k)
    <3> SUFFICES ASSUME LiveSupply, NEW k \in Keys, fp[k] # "NotListed"
                 PROVE  init[k] = EffectiveCell(k)
      OBVIOUS
    <3>1. CASE FiltersExpired
      BY <3>1, <2>1 DEF Supplied, EffectiveCell, IsArchived
    <3>2. CASE ~FiltersExpired
      <4>1. init[k] = snap[k]
        BY <3>2, <2>1 DEF Supplied
      <4>2. ~IsExpired(k, init[k])
        BY <3>2, <2>1 DEF BuildFails, LiveSupply
      <4> QED BY <4>1, <4>2 DEF EffectiveCell, IsArchived
    <3> QED BY <3>1, <3>2
  <2>7. \A k \in Keys : LiveSupply /\ fp[k] # "NotListed" =>
            ~IsExpired(k, init[k]) /\ OnlyExtends(init[k], EffectiveCell(k))
    <3> SUFFICES ASSUME NEW k \in Keys, LiveSupply, fp[k] # "NotListed"
                 PROVE  ~IsExpired(k, init[k]) /\ OnlyExtends(init[k], EffectiveCell(k))
      OBVIOUS
    <3>1. Exists(init[k]) => init[k].live \in Int
      BY <2>3 DEF Exists, WellFormedCell, Entry, U32, NoTtl
    <3>2. OnlyExtends(init[k], EffectiveCell(k))
      BY <2>6, <3>1 DEF OnlyExtends
    <3>3. CASE IsArchived(k, snap[k])
      <4>1. snap[k] \in Entry
        BY <3>3, <1>0 DEF IsArchived, IsExpired, Exists, WellFormedCell
      <4>2. init[k].live = min_live_until_ledger("Persistent")
        BY <2>6, <3>3, <4>1 DEF EffectiveCell, Entry
      <4>3. min_live_until_ledger("Persistent") \in Nat /\ min_live_until_ledger("Persistent") >= Seq0
            /\ Seq0 \in U32
        BY MinLive DEF Durabilities
      <4> QED BY <3>2, <4>2, <4>3 DEF IsExpired, U32
    <3>4. CASE ~IsArchived(k, snap[k])
      BY <2>6, <3>2, <3>4 DEF EffectiveCell, IsExpired, Exists
    <3> QED BY <3>3, <3>4
  <2>8. StoreOK(storage)
    BY <2>2, <2>3, <2>4, <2>5, <2>7 DEF StoreOK, KeyOK, Footprint, Cell
  <2>9. InitOK
    BY <2>3, <2>4, <2>5, <2>6 DEF InitOK, Listed
  <2> QED BY <2>1, <2>8, <2>9 DEF RestoredKeys, Listed
<1> QED BY <1>1, <1>2 DEF Init

(* The inductive invariant holds when a transaction starts.                *)
LEMMA InitIndInv == Init => IndInv
<1> SUFFICES ASSUME Init PROVE IndInv
  OBVIOUS
<1>1. LedgerOK
  <2>1. min_live_until_ledger("Persistent") \in U32
    BY MinLive DEF Init, Fits, U32, Durabilities
  <2> QED BY <2>1, SnapshotsAssumption DEF LedgerOK, Init
<1>2. StoreOK(storage) /\ InitOK /\ restored \in SUBSET Keys
  BY <1>1, StartOK
<1>3. frames = <<[map |-> storage.map, try |-> FALSE]>> /\ err = "Ok" /\ phase = "run" /\ changes = <<>>
  BY DEF Init
<1>4. MapsOK
  <2>1. storage.map \in StorageMap
    BY <1>2 DEF StoreOK, StorageRec
  <2>2. frames \in Seq(Frame) /\ Len(frames) = 1 /\ frames[1].map = storage.map
    BY <2>1, <1>3 DEF Frame
  <2>3. \A i \in 1..Len(frames) : frames[i].map = storage.map
    BY <2>2
  <2> QED BY <1>2, <2>2, <2>3 DEF MapsOK, StoreOK
<1>5. OutcomeOK
  BY <1>3 DEF OutcomeOK, Outcomes, ChangesMatchStorage, NeverShortened
<1> QED BY <1>1, <1>2, <1>4, <1>5 DEF IndInv, Init

(* KeyOK survives a growing access: it is what keeps the rollback points   *)
(* in good order while the footprint grows.                                *)
LEMMA KeyGrows ==
    ASSUME NEW mode, NEW k \in Keys, NEW a, NEW b, NEW c, NEW d,
           KeyOK(mode, k, a, c), KeyOK(mode, k, b, d), Grows(mode, a, b)
    PROVE  KeyOK(mode, k, b, c)
BY DEF KeyOK, Grows, Access

(* The ledger below a transaction does not move.                           *)
LEMMA SameLedger ==
    ASSUME UNCHANGED snap
    PROVE  /\ LedgerOK <=> LedgerOK'
           /\ \A k \in Keys : EffectiveCell(k)' = EffectiveCell(k)
BY DEF LedgerOK, EffectiveCell

(* A storage operation in good order preserves the inductive invariant and *)
(* only widens the footprint, whether or not it ends the current frame.    *)
LEMMA StepOK ==
    ASSUME IndInv, Running, NEW k \in Keys, NEW r, Sound(storage, r, k),
           storage' = r.s, err' = r.err, UNCHANGED <<snap, restored, init, phase, changes>>,
           frames' \in Seq(Frame),
           \A i \in 1..Len(frames') : i \in 1..Len(frames) /\ frames'[i] = frames[i],
           Len(frames') > 0
    PROVE  IndInv' /\ FootprintStep
<1>0. StoreOK(storage) /\ storage' = r.s /\ snap' = snap
  BY DEF IndInv, MapsOK
<1>1. StoreOK(r.s)
  BY <1>0, ResStore
<1>2. \A j \in Keys : Grows(storage.mode, storage.footprint[j], r.s.footprint[j])
  BY <1>0 DEF ResOK, Sound, Changed, Grows
<1>3. r.s.mode = storage.mode /\ r.s \in StorageRec
  BY DEF ResOK, Sound, Changed
<1>4. MapsOK'
  <2>1. StoreOK(storage)'
    BY <1>0, <1>1 DEF StoreOK, KeyOK, EffectiveCell
  <2>2. \A i \in 1..Len(frames) : \A j \in Keys :
            KeyOK(storage.mode, j, r.s.footprint[j], frames[i].map[j])
    <3> SUFFICES ASSUME NEW i \in 1..Len(frames), NEW j \in Keys
                 PROVE  KeyOK(storage.mode, j, r.s.footprint[j], frames[i].map[j])
      OBVIOUS
    <3>1. KeyOK(storage.mode, j, storage.footprint[j], frames[i].map[j])
      BY DEF IndInv, MapsOK
    <3>2. KeyOK(storage.mode, j, r.s.footprint[j], r.s.map[j])
      BY <1>1, <1>3 DEF StoreOK
    <3> QED BY <3>1, <3>2, <1>2, KeyGrows
  <2>3. \A i \in 1..Len(frames') : \A j \in Keys :
            KeyOK(storage.mode, j, storage.footprint[j], frames[i].map[j])'
    BY <2>2, <1>0, <1>3 DEF KeyOK, EffectiveCell
  <2> QED BY <2>1, <2>3 DEF MapsOK
<1>5. InitOK'
  <2>1. InitOK /\ init' = init
    BY DEF IndInv
  <2>2. storage.mode = "Enforcing" => Listed(storage.footprint') = Listed(storage.footprint)
    BY <1>0, <1>2 DEF Grows, Listed
  <2> QED BY <2>1, <2>2, <1>0, <1>3, SameLedger DEF InitOK, Listed
<1>6. OutcomeOK'
  <2>1. OutcomeOK /\ err' = r.err /\ phase' = "run" /\ phase = "run" /\ changes' = changes
    BY DEF IndInv, Running
  <2>2. r.err \in Outcomes
    BY DEF ResOK, Sound
  <2> QED BY <2>1, <2>2, <1>0 DEF OutcomeOK, ChangesMatchStorage, NeverShortened
<1>7. FootprintStep
  <2>1. \A j \in Keys : Rank[r.s.footprint[j]] >= Rank[storage.footprint[j]]
    <3> SUFFICES ASSUME NEW j \in Keys PROVE Rank[r.s.footprint[j]] >= Rank[storage.footprint[j]]
      OBVIOUS
    <3>1. r.s.footprint[j] \in Access /\ storage.footprint[j] \in Access
      BY <1>0, <1>1 DEF StoreOK, KeyOK
    <3> QED BY <3>1, <1>2 DEF Rank, Grows, Access
  <2>2. storage.mode = "Enforcing" => r.s.footprint = storage.footprint
    <3>1. r.s.footprint \in Footprint /\ storage.footprint \in Footprint
      BY <1>0, <1>3 DEF StoreOK, StorageRec
    <3> QED BY <3>1, <1>2 DEF Grows, Footprint
  <2> QED BY <2>1, <2>2, <1>0, <1>3 DEF FootprintStep
<1> QED BY <1>0, <1>4, <1>5, <1>6, <1>7, SameLedger DEF IndInv

(* A storage host function in good order preserves the invariant.          *)
LEMMA ApplyOK ==
    ASSUME IndInv, Running, NEW k \in Keys, NEW r, Sound(storage, r, k), Apply(r)
    PROVE  IndInv' /\ FootprintStep
<1>1. frames \in Seq(Frame) /\ Len(frames) > 0
  BY DEF IndInv, MapsOK, OutcomeOK, Running
<1> QED BY <1>1, StepOK DEF Apply

(* A step that leaves the ledger and the footprint alone.                  *)
LEMMA SameFootprint ==
    ASSUME StoreOK(storage), storage'.mode = storage.mode,
           storage'.footprint = storage.footprint
    PROVE  FootprintStep
<1>1. \A j \in Keys : storage.footprint[j] \in Access
  BY DEF StoreOK, KeyOK
<1> QED BY <1>1 DEF FootprintStep, Rank, Access

(* push_context: the new rollback point is the map as it is.               *)
LEMMA CallOK ==
    ASSUME IndInv, NEW try \in BOOLEAN, Call(try)
    PROVE  IndInv' /\ FootprintStep
<1> DEFINE f == [map |-> storage.map, try |-> try]
<1>0. /\ StoreOK(storage) /\ frames \in Seq(Frame) /\ storage \in StorageRec
      /\ frames' = Append(frames, f) /\ phase = "run"
      /\ UNCHANGED <<snap, restored, init, storage, err, phase, changes>>
  BY DEF IndInv, MapsOK, StoreOK, Call, Running
<1>1. f \in Frame /\ frames' \in Seq(Frame) /\ Len(frames') = Len(frames) + 1
  BY <1>0 DEF Frame, StorageRec
<1>2. \A i \in 1..Len(frames') : frames'[i] = f \/ (i \in 1..Len(frames) /\ frames'[i] = frames[i])
  BY <1>0, <1>1
<1>3. MapsOK'
  <2>1. \A i \in 1..Len(frames') : \A j \in Keys :
            KeyOK(storage.mode, j, storage.footprint[j], frames'[i].map[j])
    BY <1>0, <1>2 DEF IndInv, MapsOK, StoreOK
  <2>2. StoreOK(storage)'
    BY <1>0 DEF StoreOK, KeyOK, EffectiveCell
  <2>3. \A i \in 1..Len(frames') : \A j \in Keys :
            KeyOK(storage.mode, j, storage.footprint[j], frames[i].map[j])'
    BY <2>1, <1>0 DEF KeyOK, EffectiveCell
  <2> QED BY <2>2, <2>3, <1>1 DEF MapsOK
<1>4. InitOK'
  BY <1>0, SameLedger DEF IndInv, InitOK, Listed
<1>5. OutcomeOK'
  BY <1>0, <1>1 DEF IndInv, OutcomeOK, ChangesMatchStorage, NeverShortened
<1> QED BY <1>0, <1>3, <1>4, <1>5, SameLedger, SameFootprint DEF IndInv

(* A failing guest changes nothing but the error.                          *)
LEMMA GuestErrorOK ==
    ASSUME IndInv, GuestError
    PROVE  IndInv' /\ FootprintStep
<1>0. /\ StoreOK(storage) /\ err' = "ContractError" /\ phase = "run"
      /\ UNCHANGED <<snap, restored, init, storage, frames, phase, changes>>
  BY DEF IndInv, MapsOK, GuestError, Running
<1>1. MapsOK'
  BY <1>0 DEF IndInv, MapsOK, StoreOK, KeyOK, EffectiveCell
<1>2. InitOK'
  BY <1>0, SameLedger DEF IndInv, InitOK, Listed
<1>3. OutcomeOK'
  BY <1>0 DEF IndInv, OutcomeOK, ChangesMatchStorage, NeverShortened, Outcomes
<1> QED BY <1>0, <1>1, <1>2, <1>3, SameLedger, SameFootprint DEF IndInv

(* Popping the last element of a sequence.                                 *)
LEMMA DropLast ==
    ASSUME NEW S, NEW q \in Seq(S), Len(q) > 0
    PROVE  LET t == SubSeq(q, 1, Len(q) - 1) IN
           /\ t \in Seq(S) /\ Len(t) = Len(q) - 1
           /\ \A i \in 1..Len(t) : i \in 1..Len(q) /\ t[i] = q[i]
           /\ Len(q) \in 1..Len(q) /\ q[Len(q)] \in S
<1>1. Len(q) \in Nat /\ Len(q) \in 1..Len(q) /\ q[Len(q)] \in S
  OBVIOUS
<1>2. CASE Len(q) = 1
  BY <1>2
<1>3. CASE Len(q) > 1
  BY <1>3
<1>4. Len(q) = 1 \/ Len(q) > 1
  BY <1>1
<1> QED BY <1>2, <1>3, <1>4, Zenon

(* pop_context without a rollback.                                         *)
LEMMA PopOkOK ==
    ASSUME IndInv, PopOk
    PROVE  IndInv' /\ FootprintStep
<1>0. /\ StoreOK(storage) /\ frames \in Seq(Frame) /\ Len(frames) > 1 /\ phase = "run"
      /\ frames' = SubSeq(frames, 1, Len(frames) - 1)
      /\ UNCHANGED <<snap, restored, init, storage, err, phase, changes>>
  BY DEF IndInv, MapsOK, PopOk, Running
<1>1. /\ frames' \in Seq(Frame) /\ Len(frames') = Len(frames) - 1
      /\ \A i \in 1..Len(frames') : i \in 1..Len(frames) /\ frames'[i] = frames[i]
  BY <1>0, DropLast
<1>2. MapsOK'
  <2>1. \A i \in 1..Len(frames') : \A j \in Keys :
            KeyOK(storage.mode, j, storage.footprint[j], frames'[i].map[j])
    BY <1>1 DEF IndInv, MapsOK
  <2>2. StoreOK(storage)'
    BY <1>0 DEF StoreOK, KeyOK, EffectiveCell
  <2>3. \A i \in 1..Len(frames') : \A j \in Keys :
            KeyOK(storage.mode, j, storage.footprint[j], frames[i].map[j])'
    BY <2>1, <1>0 DEF KeyOK, EffectiveCell
  <2> QED BY <2>2, <2>3, <1>1 DEF MapsOK
<1>3. InitOK'
  BY <1>0, SameLedger DEF IndInv, InitOK, Listed
<1>4. OutcomeOK'
  BY <1>0, <1>1 DEF IndInv, OutcomeOK, ChangesMatchStorage, NeverShortened
<1> QED BY <1>0, <1>2, <1>3, <1>4, SameLedger, SameFootprint DEF IndInv

(* with_frame ending in persist_instance_storage.                          *)
LEMMA PersistOK ==
    ASSUME IndInv, NEW k \in Keys, NEW v \in Values, PersistAndPop(k, v)
    PROVE  IndInv' /\ FootprintStep
<1> DEFINE r == put_contract_data(storage, k, v, snap)
<1>0. /\ StoreOK(storage) /\ LedgerOK /\ frames \in Seq(Frame) /\ Len(frames) > 1 /\ Running
      /\ storage' = r.s /\ err' = r.err
      /\ frames' = IF r.err = "Ok" THEN SubSeq(frames, 1, Len(frames) - 1) ELSE frames
      /\ UNCHANGED <<snap, restored, init, phase, changes>>
  BY DEF IndInv, MapsOK, PersistAndPop
<1>1. ResOK(storage, r, k)
  BY <1>0, PutDataOK DEF PersistAndPop, HasTtl
<1>2. /\ frames' \in Seq(Frame) /\ Len(frames') > 0
      /\ \A i \in 1..Len(frames') : i \in 1..Len(frames) /\ frames'[i] = frames[i]
  <2>1. CASE r.err = "Ok"
    <3>1. frames' = SubSeq(frames, 1, Len(frames) - 1)
      BY <1>0, <2>1
    <3>2. /\ frames' \in Seq(Frame) /\ Len(frames') = Len(frames) - 1
          /\ \A i \in 1..Len(frames') : i \in 1..Len(frames) /\ frames'[i] = frames[i]
      BY <1>0, <3>1, DropLast
    <3> QED BY <3>2, <1>0
  <2>2. CASE r.err # "Ok"
    <3>1. frames' = frames
      BY <1>0, <2>2
    <3> QED BY <3>1, <1>0
  <2> QED BY <2>1, <2>2
<1> HIDE DEF r
<1> QED BY <1>0, <1>1, <1>2, StepOK DEF ResOK

(* pop_context with a rollback: the old map is in good order under the     *)
(* footprint as it has become.                                             *)
LEMMA PopFailedOK ==
    ASSUME IndInv, PopFailed
    PROVE  IndInv' /\ FootprintStep
<1> DEFINE n == Len(frames)
           f == frames[n]
<1>0. /\ StoreOK(storage) /\ storage \in StorageRec
      /\ frames \in Seq(Frame) /\ n > 0 /\ phase = "run" /\ n \in Nat
      /\ storage' = [storage EXCEPT !.map = f.map]
      /\ frames' = SubSeq(frames, 1, n - 1)
      /\ err' \in {"Ok", err}
      /\ phase' = IF n = 1 THEN "failed" ELSE "run"
      /\ UNCHANGED <<snap, restored, init, changes>>
  BY DEF IndInv, MapsOK, OutcomeOK, StoreOK, PopFailed, rollback
<1>1. /\ frames' \in Seq(Frame) /\ Len(frames') = n - 1
      /\ \A i \in 1..Len(frames') : i \in 1..n /\ frames'[i] = frames[i]
      /\ f \in Frame /\ n \in 1..n
  BY <1>0, DropLast
<1>2. /\ storage' \in StorageRec /\ storage'.mode = storage.mode
      /\ storage'.footprint = storage.footprint /\ storage'.map = f.map
  BY <1>0, <1>1 DEF StorageRec, Frame
<1>3. MapsOK'
  <2>1. \A i \in 1..n : \A j \in Keys :
            KeyOK(storage.mode, j, storage.footprint[j], frames[i].map[j])
    BY DEF IndInv, MapsOK
  <2>2. \A j \in Keys : KeyOK(storage.mode, j, storage.footprint[j], storage'.map[j])
    BY <2>1, <1>1, <1>2
  <2>3. StoreOK(storage)'
    BY <2>2, <1>0, <1>2 DEF StoreOK, KeyOK, EffectiveCell
  <2>4. \A i \in 1..Len(frames') : \A j \in Keys :
            KeyOK(storage.mode, j, storage.footprint[j], frames[i].map[j])'
    BY <2>1, <1>0, <1>1, <1>2 DEF KeyOK, EffectiveCell
  <2> QED BY <2>3, <2>4, <1>1 DEF MapsOK
<1>4. InitOK'
  BY <1>0, <1>2, SameLedger DEF IndInv, InitOK, Listed
<1>5. OutcomeOK'
  BY <1>0, <1>1 DEF IndInv, OutcomeOK, ChangesMatchStorage, NeverShortened, Outcomes
<1> QED BY <1>0, <1>2, <1>3, <1>4, <1>5, SameLedger, SameFootprint DEF IndInv

(* What get_ledger_changes reports for a key of the map.                   *)
LEMMA LedgerChangeOK ==
    ASSUME IndInv, NEW k \in Keys, storage.map[k] # Unloaded, NEW rs,
           storage.footprint[k] # "NotListed"
    PROVE  LET c == ledger_change(storage, k, init, rs)
               m == storage.map[k]
           IN  /\ c \in ChangeRec
               /\ c.read_only = (storage.footprint[k] = "ReadOnly")
               /\ ~c.read_only => c.new_value = IF Exists(m) THEN m.val ELSE None
               /\ Exists(m) /\ HasTtl(k) => /\ c.new_live >= m.live
                                            /\ c.new_live >= old_live_until(k, init[k])
<1> DEFINE m == storage.map[k]
           c == ledger_change(storage, k, init, rs)
           old == old_live_until(k, init[k])
           new == IF HasTtl(k) /\ Exists(m) THEN MaxOf(m.live, old) ELSE 0
           ro == storage.footprint[k] = "ReadOnly"
           back == k \in rs /\ ~ro /\ Exists(m)
           low == min_live_until_ledger("Persistent")
<1>1. WellFormedCell(k, m) /\ WellFormedCell(k, init[k]) /\ low \in Nat
  BY DEF IndInv, MapsOK, StoreOK, KeyOK, InitOK, LedgerOK, U32
<1>2. Exists(m) => m.val \in Values /\ (HasTtl(k) => m.live \in Nat)
  BY <1>1 DEF WellFormedCell, Exists, Entry, U32
<1>3. old \in Nat
  BY <1>1 DEF WellFormedCell, Exists, Entry, U32, old_live_until
<1>4. new \in Nat /\ (Exists(m) /\ HasTtl(k) => new >= m.live /\ new >= old)
  BY <1>2, <1>3 DEF MaxOf
<1>5. c = [read_only |-> ro,
           new_value |-> IF ro \/ ~Exists(m) THEN None ELSE m.val,
           old_live |-> IF back THEN 0 ELSE old,
           new_live |-> IF back THEN MaxOf(new, low) ELSE new]
  BY DEF ledger_change
<1> HIDE DEF c, m, old, new, ro, back, low
<1>6. MaxOf(new, low) \in Nat /\ MaxOf(new, low) >= new
  BY <1>1, <1>4 DEF MaxOf
<1>7. (IF ro \/ ~Exists(m) THEN None ELSE m.val) \in Values \union {None}
  BY <1>2
<1>8. (IF back THEN 0 ELSE old) \in Nat /\ (IF back THEN MaxOf(new, low) ELSE new) \in Nat
      /\ (Exists(m) /\ HasTtl(k) => /\ (IF back THEN MaxOf(new, low) ELSE new) >= m.live
                                    /\ (IF back THEN MaxOf(new, low) ELSE new) >= old)
  BY <1>2, <1>3, <1>4, <1>6
<1>9. ro \in BOOLEAN
  BY DEF ro
<1>10. c \in ChangeRec
  BY <1>5, <1>7, <1>8, <1>9 DEF ChangeRec
<1>11. /\ c.read_only = ro
       /\ c.new_value = IF ro \/ ~Exists(m) THEN None ELSE m.val
       /\ c.new_live = IF back THEN MaxOf(new, low) ELSE new
  BY <1>5
<1> QED BY <1>8, <1>10, <1>11 DEF c, m, ro, old

(* get_ledger_changes: the changes describe the final storage and shorten  *)
(* no life.                                                                *)
LEMMA FinishOK ==
    ASSUME IndInv, Finish
    PROVE  IndInv' /\ FootprintStep
<1> DEFINE fp == storage.footprint
           rs == FinalRestored
           ch == get_ledger_changes(storage, init, rs)
<1>0. /\ StoreOK(storage) /\ phase = "run" /\ err = "Ok" /\ OutcomeOK /\ InitOK
      /\ frames' = <<>> /\ phase' = "done" /\ restored' = rs
      /\ UNCHANGED <<snap, init, storage>>
      /\ storage \in StorageRec /\ storage.mode \in Mode
  BY DEF IndInv, MapsOK, StoreOK, StorageRec, Finish, Running
<1>1. \A k \in Keys : KeyOK(storage.mode, k, fp[k], storage.map[k])
  BY <1>0 DEF StoreOK
<1>2. ~ChangesFail(storage)
  BY <1>1 DEF ChangesFail, KeyOK
<1>3. ~FinishError
  <2>1. storage.mode = "Recording" => RestoredAreReadWrite(fp, snap)
    BY <1>1 DEF RestoredAreReadWrite, RestoredKeys, Listed, KeyOK
  <2> QED BY <1>2, <2>1 DEF FinishError
<1>4. err' = "Ok" /\ changes' = ch
  BY <1>3 DEF Finish
<1>5. rs \in SUBSET Keys
  BY DEF IndInv, FinalRestored, RestoredKeys, Listed
<1> HIDE DEF rs, ch
<1>6. DOMAIN ch = ChangedKeys(storage) /\ ChangedKeys(storage) = Listed(fp)
  <2>1. DOMAIN ch = ChangedKeys(storage)
    BY DEF ch, get_ledger_changes
  <2>2. \A k \in Keys : /\ storage.map[k] # Unloaded => fp[k] # "NotListed"
                        /\ storage.mode = "Enforcing" /\ fp[k] # "NotListed"
                              => storage.map[k] # Unloaded
    BY <1>1 DEF KeyOK
  <2>3. CASE storage.mode = "Recording"
    BY <2>1, <2>2, <2>3 DEF ChangedKeys, Listed
  <2>4. CASE storage.mode = "Enforcing"
    BY <2>1, <2>2, <2>4 DEF ChangedKeys, Listed
  <2> QED BY <2>1, <2>3, <2>4, <1>0 DEF Mode
<1>7. \A k \in Listed(fp) : ch[k] = IF storage.map[k] = Unloaded
                                   THEN footprint_only_change(storage, k)
                                   ELSE ledger_change(storage, k, init, rs)
  BY <1>6 DEF ch, get_ledger_changes
<1>8. \A k \in Listed(fp) : k \in Keys /\ fp[k] # "NotListed"
  BY DEF Listed
<1>9. \A k \in Keys : storage.map[k] # Unloaded => k \in Listed(fp)
  BY <1>1 DEF Listed, KeyOK
<1>10. \A k \in DOMAIN ch : ch[k] \in ChangeRec
  <2> SUFFICES ASSUME NEW k \in Listed(fp) PROVE ch[k] \in ChangeRec
    BY <1>6
  <2>1. footprint_only_change(storage, k) \in ChangeRec
    BY DEF footprint_only_change, NoChange, ChangeRec
  <2>2. storage.map[k] # Unloaded => ledger_change(storage, k, init, rs) \in ChangeRec
    BY <1>8, LedgerChangeOK
  <2> QED BY <1>7, <2>1, <2>2
<1>11. LiveSupply => ChangesMatchStorage'
  <2> SUFFICES ASSUME LiveSupply, NEW k \in Keys, storage.map[k] # Unloaded
               PROVE  LET c == ch[k]
                          m == storage.map[k]
                      IN  /\ c.read_only => OnlyExtends(m, EffectiveCell(k))
                          /\ ~c.read_only => c.new_value = IF Exists(m) THEN m.val ELSE None
                          /\ Exists(m) /\ HasTtl(k) => c.new_live >= m.live
    <3>1. DOMAIN ch = Listed(storage'.footprint)
      BY <1>0, <1>6
    <3> QED BY <3>1, <1>0, <1>4, SameLedger DEF ChangesMatchStorage
  <2>1. ch[k] = ledger_change(storage, k, init, rs) /\ fp[k] # "NotListed"
    BY <1>7, <1>8, <1>9
  <2>2. fp[k] = "ReadOnly" => OnlyExtends(storage.map[k], EffectiveCell(k))
    BY <1>1 DEF KeyOK
  <2> QED BY <2>1, <2>2, LedgerChangeOK
<1>12. LiveSupply => NeverShortened'
  <2> SUFFICES ASSUME LiveSupply, NEW k \in Listed(fp),
                      Exists(storage.map[k]), Exists(snap[k]), HasTtl(k)
               PROVE  ch[k].new_live >= snap[k].live
    BY <1>0, <1>4, <1>6 DEF NeverShortened
  <2> DEFINE m == storage.map[k]
             c == ledger_change(storage, k, init, rs)
  <2>0. k \in Keys /\ fp[k] # "NotListed" /\ m # Unloaded
    BY <1>8 DEF Exists
  <2>1. ch[k] = c
    BY <1>7, <2>0
  <2>2. c.new_live >= m.live /\ c.new_live >= old_live_until(k, init[k]) /\ c.new_live \in Nat
    BY <2>0, LedgerChangeOK DEF ChangeRec
  <2>3. WellFormedCell(k, snap[k]) /\ WellFormedCell(k, m)
    BY <2>0, <1>1 DEF IndInv, LedgerOK, KeyOK
  <2>4. snap[k].live \in U32 /\ m.live \in U32 /\ snap[k].live \in Nat /\ m.live \in Nat
    BY <2>3 DEF WellFormedCell, Exists, U32
  <2>5. CASE IsExpired(k, snap[k])
    <3>1. m.live >= Seq0
      BY <2>0, <2>4, <1>1, MinLive DEF KeyOK, IsExpired, U32
    <3> QED BY <3>1, <2>1, <2>2, <2>4, <2>5, MinLive DEF IsExpired, U32
  <2>6. CASE ~IsExpired(k, snap[k])
    <3>1. EffectiveCell(k) = snap[k]
      BY <2>6 DEF EffectiveCell, IsArchived
    <3>2. init[k] = snap[k]
      BY <3>1, <1>0 DEF InitOK, Mode
    <3>3. old_live_until(k, init[k]) = snap[k].live
      BY <3>2, <2>4, <2>6 DEF old_live_until, IsExpired
    <3> QED BY <3>3, <2>1, <2>2
  <2> QED BY <2>5, <2>6
<1>13. MapsOK'
  BY <1>0 DEF MapsOK, StoreOK, KeyOK, EffectiveCell
<1>14. InitOK'
  BY <1>0, SameLedger DEF InitOK, Listed
<1>15. OutcomeOK'
  BY <1>0, <1>4, <1>10, <1>11, <1>12 DEF OutcomeOK, Outcomes
<1>16. FootprintStep
  BY <1>0, SameFootprint
<1> QED BY <1>0, <1>5, <1>13, <1>14, <1>15, <1>16, SameLedger DEF IndInv

(* Stuttering preserves the invariant.                                     *)
LEMMA StutterOK ==
    ASSUME IndInv, UNCHANGED vars
    PROVE  IndInv'
BY DEF IndInv, vars, LedgerOK, MapsOK, StoreOK, KeyOK, EffectiveCell, InitOK, OutcomeOK,
       ChangesMatchStorage, NeverShortened

(* Every step preserves the invariant and only widens the footprint.       *)
LEMMA NextOK ==
    ASSUME IndInv, [Next]_vars
    PROVE  IndInv' /\ [FootprintStep]_vars
<1>0. StoreOK(storage) /\ LedgerOK
  BY DEF IndInv, MapsOK
<1>1. ASSUME NEW k \in Keys, has_contract_data(k) PROVE IndInv' /\ FootprintStep
  BY <1>0, <1>1, TryGetOK, ApplyOK DEF ResOK, has_contract_data
<1>2. ASSUME NEW k \in Keys, get_contract_data(k) PROVE IndInv' /\ FootprintStep
  BY <1>0, <1>2, GetOK, ApplyOK DEF ResOK, get_contract_data
<1>3. ASSUME NEW k \in Keys, DelContractData(k) PROVE IndInv' /\ FootprintStep
  BY <1>0, <1>3, DelOK, ApplyOK DEF ResOK, DelContractData
<1>4. ASSUME NEW k \in Keys, NEW v \in Values, PutContractData(k, v) PROVE IndInv' /\ FootprintStep
  BY <1>0, <1>4, PutDataOK, ApplyOK DEF ResOK, PutContractData
<1>5. ASSUME NEW k \in Keys, NEW v \in Values, UploadWasm(k, v) PROVE IndInv' /\ FootprintStep
  <2>1. HasTtl(k)
    BY <1>5, StorageAssumption DEF UploadWasm, HasTtl
  <2> QED BY <1>0, <1>5, <2>1, UploadOK, ApplyOK DEF ResOK, UploadWasm
<1>6. ASSUME NEW k \in Keys, NEW v \in Values, PutClassicEntry(k, v) PROVE IndInv' /\ FootprintStep
  BY <1>0, <1>6, ClassicOK, ApplyOK DEF ResOK, PutClassicEntry
<1>7. ASSUME NEW k \in Keys, NEW x \in Extends, ExtendTtl(k, x) PROVE IndInv' /\ FootprintStep
  BY <1>0, <1>7, ExtendOK, ApplyOK DEF ExtendTtl
<1>8. ASSUME NEW try \in BOOLEAN, Call(try) PROVE IndInv' /\ FootprintStep
  BY <1>8, CallOK
<1>9. CASE GuestError
  BY <1>9, GuestErrorOK
<1>10. CASE PopOk
  BY <1>10, PopOkOK
<1>11. CASE PopFailed
  BY <1>11, PopFailedOK
<1>12. CASE Finish
  BY <1>12, FinishOK
<1>13. CASE Over
  BY <1>13, StutterOK DEF Over
<1>14. CASE UNCHANGED vars
  BY <1>14, StutterOK
<1>15. ASSUME NEW k \in Keys, NEW v \in Values, PersistAndPop(k, v) PROVE IndInv' /\ FootprintStep
  BY <1>15, PersistOK
<1>16. Touched[snap] \subseteq Keys
  BY StorageTxnAssumption DEF IndInv
<1> QED BY <1>1, <1>2, <1>3, <1>4, <1>5, <1>6, <1>7, <1>8, <1>9, <1>10, <1>11, <1>12, <1>13, <1>14, <1>15,
           <1>16
        DEF Next

-----------------------------------------------------------------------------
(* Theorems.                                                               *)

(* The inductive invariant holds throughout every transaction.             *)
LEMMA Invariance == Spec => []IndInv
<1>1. IndInv /\ [Next]_vars => IndInv'
  BY NextOK
<1> QED BY InitIndInv, <1>1, PTL DEF Spec

(* Type correctness: whatever guests do, every cell of the storage map and *)
(* of every rollback point is well-formed for the durability of its key.   *)
THEOREM TypeCorrect == Spec => []TypeOK
<1>1. IndInv => TypeOK
  <2> SUFFICES ASSUME IndInv PROVE TypeOK
    OBVIOUS
  <2>1. \A k \in Keys : storage.map[k] = Unloaded \/ WellFormedCell(k, storage.map[k])
    BY DEF IndInv, MapsOK, StoreOK, KeyOK
  <2>2. storage \in StorageRec /\ storage.map \in StorageMap
    BY DEF IndInv, MapsOK, StoreOK, StorageRec
  <2>3. \A i \in 1..Len(frames) : \A k \in Keys :
            frames[i].map[k] = Unloaded \/ WellFormedCell(k, frames[i].map[k])
    BY DEF IndInv, MapsOK, KeyOK
  <2>4. frames \in Seq(Frame) /\ \A i \in 1..Len(frames) : frames[i].map \in StorageMap
    <3>1. frames \in Seq(Frame)
      BY DEF IndInv, MapsOK
    <3>2. \A i \in 1..Len(frames) : frames[i] \in Frame
      BY <3>1
    <3> QED BY <3>1, <3>2 DEF Frame
  <2>5. /\ snap \in StorageMap /\ \A k \in Keys : WellFormedCell(k, snap[k])
        /\ restored \in SUBSET Keys
        /\ init \in StorageMap /\ \A k \in Keys : WellFormedCell(k, init[k])
    BY SnapshotsAssumption DEF IndInv, InitOK
  <2>6. /\ err \in Outcomes /\ phase \in {"run", "done", "failed"}
        /\ \A k \in DOMAIN changes : changes[k] \in ChangeRec
    BY DEF IndInv, OutcomeOK
  <2> QED BY <2>1, <2>2, <2>3, <2>4, <2>5, <2>6 DEF TypeOK, MapOK
<1> QED BY Invariance, <1>1, PTL

(* With a host that refuses expired entries, or an embedder that supplies  *)
(* none, no expired entry is ever in the storage map.                      *)
THEOREM EntriesLive ==
    ASSUME RecordingBuild \/ FiltersExpired
    PROVE  Spec => []MapEntriesAreLive
<1>1. IndInv => MapEntriesAreLive
  BY DEF IndInv, MapsOK, StoreOK, KeyOK, LiveSupply, MapEntriesAreLive, IsExpired, Exists
<1> QED BY Invariance, <1>1, PTL

(* An entry listed read-only is only ever extended.                        *)
THEOREM ReadOnlySafe ==
    ASSUME RecordingBuild \/ FiltersExpired
    PROVE  Spec => []ReadOnlyUntouched
<1>1. IndInv => ReadOnlyUntouched
  BY DEF IndInv, MapsOK, StoreOK, KeyOK, LiveSupply, ReadOnlyUntouched
<1> QED BY Invariance, <1>1, PTL

(* No storage call that computes only ledgers that fit has an internal     *)
(* error.                                                                  *)
LEMMA ErrorOK ==
    ASSUME LiveSupply, IndInv, ~LedgerOverflows
    PROVE  InternalErrorOnlyOnOverflow
<1>0. StoreOK(storage) /\ LedgerOK
  BY DEF IndInv, MapsOK
<1>1. ASSUME NEW k \in Keys, NEW r, ResOK(storage, r, k) PROVE r.err # "InternalError"
  BY <1>1 DEF ResOK
<1>2. \A k \in Keys : "InternalError" \notin AccessErrors(k)
  BY <1>0, <1>1, TryGetOK, GetOK DEF AccessErrors
<1>3. ASSUME NEW k \in Keys, ~HasTtl(k) PROVE "InternalError" \notin ClassicErrors(k)
  <2>1. \A v \in Values : put_classic_entry(storage, k, v, snap).err # "InternalError"
    BY <1>0, <1>1, <1>3, ClassicOK
  <2> QED BY <2>1 DEF ClassicErrors
<1>4. ASSUME NEW k \in Keys, HasTtl(k) PROVE "InternalError" \notin DataErrors(k)
  <2>1. \A v \in Values : put_contract_data(storage, k, v, snap).err # "InternalError"
    BY <1>0, <1>1, <1>4, PutDataOK
  <2>2. del_contract_data(storage, k).err # "InternalError"
    BY <1>0, <1>1, DelOK
  <2> QED BY <2>1, <2>2 DEF DataErrors
<1>5. ASSUME NEW k \in Keys, HasTtl(k) PROVE "InternalError" \notin CodeErrors(k)
  <2>1. \A v \in Values : upload_contract_wasm(storage, k, v, snap).err # "InternalError"
    BY <1>0, <1>1, <1>5, UploadOK
  <2> QED BY <2>1 DEF CodeErrors
<1>6. ASSUME NEW k \in Keys, HasTtl(k) PROVE "InternalError" \notin ExtendErrors(k)
  <2>1. \A x \in Extends : Fits(Seq0 + x[2])
            => extend_ttl(storage, k, x[1], x[2], snap).err # "InternalError"
    BY <1>0, <1>1, <1>6, ExtendOK
  <2> QED BY <2>1 DEF ExtendErrors
<1>7. ~FinishError
  <2>1. \A k \in Keys : KeyOK(storage.mode, k, storage.footprint[k], storage.map[k])
    BY <1>0 DEF StoreOK
  <2> QED BY <2>1 DEF FinishError, ChangesFail, RestoredAreReadWrite, RestoredKeys, Listed, KeyOK
<1>8. Touched[snap] \subseteq Keys
  BY StorageTxnAssumption DEF IndInv
<1>9. ASSUME NEW k \in Keys PROVE "InternalError" \notin CallErrors(k)
  BY <1>2, <1>3, <1>4, <1>5, <1>6 DEF CallErrors
<1> QED BY <1>7, <1>8, <1>9 DEF InternalErrorOnlyOnOverflow

(* The internal-error paths of the storage layer are dead code but for the *)
(* overflow of a TTL.                                                      *)
THEOREM InternalErrors ==
    ASSUME RecordingBuild \/ FiltersExpired
    PROVE  Spec => []InternalErrorOnlyOnOverflow
<1>1. LiveSupply
  BY DEF LiveSupply
<1>2. IndInv => InternalErrorOnlyOnOverflow
  BY <1>1, ErrorOK DEF InternalErrorOnlyOnOverflow
<1> QED BY Invariance, <1>2, PTL

(* Every archived entry a recording run touched is listed read-write.      *)
THEOREM ArchivedReadWrite == Spec => []ArchivedAccessIsReadWrite
<1>1. IndInv => ArchivedAccessIsReadWrite
  BY DEF IndInv, MapsOK, StoreOK, KeyOK, ArchivedAccessIsReadWrite, RestoredAreReadWrite,
         RestoredKeys, Listed
<1> QED BY Invariance, <1>1, PTL

(* The reported changes describe the final storage.                        *)
THEOREM ChangesCorrect ==
    ASSUME RecordingBuild \/ FiltersExpired
    PROVE  Spec => []ChangesMatchStorage
<1>1. IndInv => ChangesMatchStorage
  BY DEF IndInv, OutcomeOK, LiveSupply
<1> QED BY Invariance, <1>1, PTL

(* An entry that survives the transaction is reported to live at least as  *)
(* long as before, restored, created again or uploaded again.              *)
THEOREM LivesNotShortened ==
    ASSUME RecordingBuild \/ FiltersExpired
    PROVE  Spec => []NeverShortened
<1>1. IndInv => NeverShortened
  BY DEF IndInv, OutcomeOK, LiveSupply
<1> QED BY Invariance, <1>1, PTL

(* No step, a rollback included, takes an access out of the footprint.     *)
THEOREM FootprintMonotone == Spec => FootprintNeverShrinks
<1>1. IndInv /\ [Next]_vars => IndInv' /\ [FootprintStep]_vars
  BY NextOK
<1> QED BY InitIndInv, <1>1, PTL DEF Spec, FootprintNeverShrinks
=============================================================================
