------------------------- MODULE MeteredContainers -------------------------
(***************************************************************************)
(* The host's vectors and maps (host/metered_vector.rs, metered_map.rs),   *)
(* byte buffers and linear memory (host/mem_helper.rs) and the checked     *)
(* 256-bit arithmetic (host/num.rs).  A vector is a sequence of Vals, a    *)
(* map a sequence of <<key, value>> sorted by key.  Positions count from   *)
(* zero as in the code.  Charges are left to the module Budget.            *)
(***************************************************************************)
EXTENDS Values

CONSTANTS U32Max,        \* u32::MAX
          U8Max          \* u8::MAX

Ok(x) == [ok |-> TRUE, val |-> x]
Err == [ok |-> FALSE, val |-> Void]

(***************************************************************************)
(* Bounds (host/validity.rs).                                              *)
(***************************************************************************)
validate_index_lt_bound(i, bound) == i < bound
validate_index_le_bound(i, bound) == i <= bound
valid_range_from_start_end_bound(start, end, bound) ==
    validate_index_le_bound(start, bound) /\ validate_index_le_bound(end, bound) /\ start <= end
\* u32::checked_add and checked_mul.
fits_u32(n) == n <= U32Max

u8_from_u32val_input(u) == u.body <= U8Max

Take(s, n) == SubSeq(s, 1, n)
Skip(s, n) == SubSeq(s, n + 1, Len(s))
\* slice.get(start..end)
Range_(s, start, end) == SubSeq(s, start + 1, end)

\* from_vec, from_exact_iter: a length that is no u32 is refused.
from_exact_iter(s) == IF fits_u32(Len(s)) THEN Ok(s) ELSE Err

(***************************************************************************)
(* MeteredVector.                                                          *)
(***************************************************************************)
vector_set(s, i, x) ==
    IF validate_index_lt_bound(i, Len(s)) THEN Ok([s EXCEPT ![i + 1] = x]) ELSE Err
vector_get(s, i) == IF i < Len(s) THEN Ok(s[i + 1]) ELSE Err
push_front(s, x) == from_exact_iter(<<x>> \o s)
push_back(s, x) == from_exact_iter(Append(s, x))
pop_front(s) == IF s = <<>> THEN Err ELSE Ok(Skip(s, 1))
pop_back(s) == IF s = <<>> THEN Err ELSE Ok(Take(s, Len(s) - 1))
vector_remove(s, i) ==
    IF validate_index_lt_bound(i, Len(s)) THEN Ok(Take(s, i) \o Skip(s, i + 1)) ELSE Err
vector_insert(s, i, x) ==
    IF i > Len(s) THEN Err
    ELSE IF i = Len(s) THEN push_back(s, x)
    ELSE IF i = 0 THEN push_front(s, x)
    ELSE from_exact_iter(Take(s, i) \o <<x>> \o Skip(s, i))
append(s, t) == from_exact_iter(s \o t)
slice(s, start, end) ==
    IF valid_range_from_start_end_bound(start, end, Len(s)) THEN Ok(Range_(s, start, end))
    ELSE Err

\* A scan stops at the first element that is equal or cannot be compared.
first_index_of(s, x) ==
    LET hit == {i \in DOMAIN s : compare(DepthLimit, x, s[i]) \in {Equal, Failed}}
        first == CHOOSE i \in hit : \A j \in hit : i <= j
    IN  IF hit = {} THEN Ok(Void)
        ELSE IF compare(DepthLimit, x, s[first]) = Failed THEN Err ELSE Ok(U32Val(first - 1))
last_index_of(s, x) ==
    LET r == first_index_of(Reverse(s), x)
    IN  IF r.ok /\ r.val # Void THEN Ok(U32Val(Len(s) - 1 - r.val.body)) ELSE r

\* binary_search_by_pre_rust_182: <<"found", i>>, <<"absent", i>> or an
\* error, which the search carries out by answering Equal.
RECURSIVE search(_, _, _)
\* c[i] is how the i-th element compares with what is looked for.
search(c, left, right) ==
    IF left >= right THEN [ok |-> TRUE, found |-> FALSE, at |-> left]
    ELSE LET mid == left + (right - left) \div 2
             r == c[mid + 1]
         IN  CASE r = Equal -> [ok |-> TRUE, found |-> TRUE, at |-> mid]
               [] r = Failed -> [ok |-> FALSE, found |-> TRUE, at |-> mid]
               [] r = Less -> search(c, mid + 1, right)
               [] OTHER -> search(c, left, mid)
binary_search(c, n) == search(c, 0, n)

\* u64_from_binary_search_result: found in the high half, position in the low.
u64_from_binary_search_result(r) ==
    IF ~r.ok THEN Err ELSE Ok(U32Val(r.at + IF r.found THEN U32Max + 1 ELSE 0))

(***************************************************************************)
(* MeteredOrdMap.                                                          *)
(***************************************************************************)
\* from_map rechecks that the keys are sorted and unique.
from_map(m) == IF fits_u32(Len(m)) /\ SortedKeys(DepthLimit, m) THEN Ok(m) ELSE Err
find(m, k) == binary_search([i \in DOMAIN m |-> compare(DepthLimit, m[i][1], k)], Len(m))
\* Mutant: an existing binding is kept beside the new one.
insert_beside(m, k, v) ==
    LET r == find(m, k)
    IN  IF r.ok THEN Ok(Take(m, r.at) \o << <<k, v>> >> \o Skip(m, r.at)) ELSE Err
insert(m, k, v) ==
    LET r == find(m, k)
        rest == IF r.found THEN r.at + 1 ELSE r.at
    IN  IF r.ok THEN from_map(Take(m, r.at) \o << <<k, v>> >> \o Skip(m, rest)) ELSE Err
get(m, k) == LET r == find(m, k) IN IF r.ok /\ r.found THEN Ok(m[r.at + 1][2]) ELSE Err
contains_key(m, k) == LET r == find(m, k) IN IF r.ok THEN Ok(Bool(r.found)) ELSE Err
remove(m, k) ==
    LET r == find(m, k)
    IN  IF r.ok /\ r.found THEN from_map(Take(m, r.at) \o Skip(m, r.at + 1)) ELSE Err
get_at_index(m, i) == vector_get(m, i)
keys(m) == [i \in DOMAIN m |-> m[i][1]]
values(m) == [i \in DOMAIN m |-> m[i][2]]

(***************************************************************************)
(* Byte buffers: bytes, strings and symbols.                               *)
(***************************************************************************)
\* A range of a host object, checked against overflow and length.
copy_bytes_out(b, pos, len) ==
    IF fits_u32(pos + len) /\ pos + len <= Len(b) THEN Ok(Range_(b, pos, pos + len)) ELSE Err
\* A host object grown with zeros and overwritten from pos.
clone_resize_and_copy_bytes_in(b, pos, new) ==
    LET end == pos + Len(new)
        grown == b \o [i \in 1..(IF end > Len(b) THEN end - Len(b) ELSE 0) |-> 0]
    IN  IF fits_u32(end) THEN Ok(Take(grown, pos) \o new \o Skip(grown, end)) ELSE Err

\* MemHostObjectType::try_from_bytes of ScSymbol: at most SCSYMBOL_LIMIT
\* bytes, all of them symbol characters; bytes and strings take any.
try_from_bytes(kind, bytes) ==
    IF kind = "Symbol" /\ ~(ValidChars(bytes) /\ Len(bytes) <= SymbolLimit) THEN Err
    ELSE Ok(Obj(kind, bytes))

(***************************************************************************)
(* Linear memory: a sequence of cells; a Val and a slice (position and     *)
(* length) take two cells.                                                 *)
(***************************************************************************)
ValSz == 2
read_bytes(mem, pos, len) == IF pos + len <= Len(mem) THEN Ok(Range_(mem, pos, pos + len)) ELSE Err
write_bytes(mem, pos, buf) ==
    IF pos + Len(buf) <= Len(mem)
    THEN Ok(Take(mem, pos) \o buf \o Skip(mem, pos + Len(buf)))
    ELSE Err

\* Payload of a Val: its tag and body; U32Val and I32Val are the Vals whose
\* payload this module reads and writes.
TagU32 == 4
TagI32 == 5
to_le_bytes(v) == <<IF v.kind = "U32" THEN TagU32 ELSE TagI32, v.body>>
from_le_bytes(p) == [kind |-> IF p[1] = TagU32 THEN "U32" ELSE "I32", obj |-> FALSE, body |-> p[2]]
is_good(p) == p[1] \in {TagU32, TagI32}

\* The cells of n items of two cells from pos, when in range.
val_range(mem, pos, n) ==
    fits_u32(n * ValSz) /\ fits_u32(pos + n * ValSz) /\ pos + n * ValSz <= Len(mem)

write_vals(mem, pos, vals) ==
    IF val_range(mem, pos, Len(vals))
    THEN Ok(Take(mem, pos) \o FlattenSeq([i \in DOMAIN vals |-> to_le_bytes(vals[i])])
                           \o Skip(mem, pos + ValSz * Len(vals)))
    ELSE Err
read_vals(mem, pos, n) ==
    LET payload == [i \in 1..n |-> Range_(mem, pos + ValSz * (i - 1), pos + ValSz * i)]
    IN  IF val_range(mem, pos, n) /\ \A i \in 1..n : is_good(payload[i])
        THEN Ok([i \in 1..n |-> from_le_bytes(payload[i])]) ELSE Err

\* The byte strings that n slices in memory point at; for none, no memory is read.
scan_slices(mem, pos, n) ==
    LET at(i) == Range_(mem, pos + ValSz * (i - 1), pos + ValSz * i)
        inside(s) == fits_u32(s[1] + s[2]) /\ s[1] + s[2] <= Len(mem)
    IN  IF n = 0 \/ (val_range(mem, pos, n) /\ \A i \in 1..n : inside(at(i)))
        THEN Ok([i \in 1..n |-> Range_(mem, at(i)[1], at(i)[1] + at(i)[2])]) ELSE Err

SymbolBytes(sym) == IF sym.obj THEN sym.body ELSE SymbolChars(sym.body)
symbol_matches(bytes, sym) == compare_bytes(SymbolBytes(sym), bytes) = Equal

(***************************************************************************)
(* 256-bit arithmetic: the checked operations of ethnum.                   *)
(***************************************************************************)
Bits256 == 4 * WordBits
InRange(kind, n) ==
    IF kind = "I256" THEN n \in (-2^(Bits256 - 1))..(2^(Bits256 - 1) - 1) ELSE n \in 0..(2^Bits256 - 1)
checked(kind, n) == IF InRange(kind, n) THEN Ok(NumVal(kind, n)) ELSE Err

Abs_(n) == IF n < 0 THEN -n ELSE n
\* Division truncates towards zero; the remainder is never negative.
QuotTrunc(a, b) == LET q == Abs_(a) \div Abs_(b) IN IF (a < 0) = (b < 0) THEN q ELSE -q
checked_div(kind, a, b) == IF b = 0 THEN Err ELSE checked(kind, QuotTrunc(a, b))
\* MIN rem_euclid -1 overflows like the division it is computed with.
checked_rem_euclid(kind, a, b) ==
    IF b = 0 \/ ~InRange(kind, QuotTrunc(a, b)) THEN Err ELSE checked(kind, a % Abs_(b))
\* A product is formed once the factors' quotient shows that it fits.
checked_mul(kind, a, b) ==
    IF b # 0 /\ Abs_(a) > 2^Bits256 \div Abs_(b) THEN Err ELSE checked(kind, a * b)
\* Shifts by the width or more are refused; bits shifted out are lost.
\* (a shift of p is taken bit by bit, modulo the width)
Wrap(kind, n) == IF kind = "I256" THEN Signed(n, Bits256) ELSE n % 2^Bits256
checked_shl(kind, a, p) ==
    IF p >= Bits256 THEN Err
    ELSE checked(kind, FoldLeft(LAMBDA acc, i : Wrap(kind, 2 * acc), a, [i \in 1..p |-> i]))
checked_shr(kind, a, p) == IF p >= Bits256 THEN Err ELSE checked(kind, a \div 2^p)
checked_pow(kind, a, p) ==
    FoldLeft(LAMBDA acc, i : IF acc.ok THEN checked_mul(kind, NumOf(acc.val), a) ELSE acc,
             Ok(NumVal(kind, 1)), [i \in 1..p |-> i])
=============================================================================
