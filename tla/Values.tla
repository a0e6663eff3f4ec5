------------------------------- MODULE Values -------------------------------
(***************************************************************************)
(* Host values, their serialised form and the two orders on them           *)
(* (soroban-env-common val.rs, num.rs, symbol.rs, object.rs, convert.rs,   *)
(* compare.rs; soroban-env-host host/comparison.rs, host/conversion.rs).   *)
(*                                                                         *)
(* A Val is a record [kind, obj, body].  kind and obj are its tag: kind is *)
(* the type, obj says whether the tag is the object or the small form.     *)
(* The body of a small value is the packed bits, the body of an object is  *)
(* its content (objects are immutable; their handles are modelled in       *)
(* HostObjects).  Two objects of one content are two handles.              *)
(* An ScVal is a record [type, data]; 128 and 256 bit numbers are their    *)
(* 64-bit parts.  A word has WordBits bits, a Val body BodyBits.           *)
(***************************************************************************)
EXTENDS Integers, Sequences, FiniteSets, SequencesExt

CONSTANTS WordBits,      \* bits of a 64-bit word
          BodyBits,      \* bits of the body of a Val (56 of 64 in the code)
          CodeBits,      \* bits of the code of a symbol character
          CodeOf,        \* the code of each byte that is a symbol character
          MaxSmallChars, \* MAX_SMALL_CHARS, characters of a small symbol
          SymbolLimit,   \* SCSYMBOL_LIMIT
          DepthLimit     \* DEFAULT_HOST_DEPTH_LIMIT

ASSUME WidthsAssumption == BodyBits < WordBits /\ MaxSmallChars <= SymbolLimit

Less == -1
Equal == 0
Greater == 1
\* The outcome of a comparison that returns an error.
Failed == 2
\* No order: the small value is not of the object's type.
NotPaired == 3
\* The outcome of a conversion that returns an error.
NoVal == [kind |-> "none"]
NoScVal == [type |-> "none"]

\* core::cmp::Ord on integers, and the reverse of an ordering.
cmp(a, b) == IF a < b THEN Less ELSE IF a > b THEN Greater ELSE Equal
ReverseOrder(o) == IF o \in {Less, Greater} THEN -o ELSE o

IndexIn(seq, x) == CHOOSE i \in DOMAIN seq : seq[i] = x

(***************************************************************************)
(* Machine integers: w words of WordBits bits, two's complement.           *)
(***************************************************************************)
Signed(x, bits) == LET m == x % 2^bits IN IF m >= 2^(bits - 1) THEN m - 2^bits ELSE m

\* The words of an unsigned number, most significant first, and back.
u256_into_pieces(u, w) == [i \in 1..w |-> (u \div 2^(WordBits * (w - i))) % 2^WordBits]
u256_from_pieces(p) == FoldLeft(LAMBDA acc, x : acc * 2^WordBits + x, 0, p)

\* The words of a signed number: only the first is signed.
i256_into_pieces(i, w) ==
    LET p == u256_into_pieces(i % 2^(WordBits * w), w)
    IN  [p EXCEPT ![1] = Signed(p[1], WordBits)]
i256_from_pieces(p) ==
    Signed(u256_from_pieces([p EXCEPT ![1] = p[1] % 2^WordBits]), WordBits * Len(p))

is_small_u64(u) == u \in 0..(2^BodyBits - 1)
is_small_i64(i) == i \in (-2^(BodyBits - 1))..(2^(BodyBits - 1) - 1)

\* The width in words and the signedness of the numeric kinds.
WordsOf == [U64 |-> 1, I64 |-> 1, Timepoint |-> 1, Duration |-> 1,
            U128 |-> 2, I128 |-> 2, U256 |-> 4, I256 |-> 4]
NumKinds == DOMAIN WordsOf
SignedKinds == {"I64", "I128", "I256"}

(***************************************************************************)
(* Small symbols: codes packed into the low bits, high codes first.        *)
(***************************************************************************)
CharOf(code) == CHOOSE b \in DOMAIN CodeOf : CodeOf[b] = code

\* SymbolSmallIter: codes that are no character are skipped.
SymbolChars(body) ==
    LET codes == [i \in 1..MaxSmallChars |->
                    (body \div 2^(CodeBits * (MaxSmallChars - i))) % 2^CodeBits]
        real == SelectSeq(codes, LAMBDA c : \E b \in DOMAIN CodeOf : CodeOf[b] = c)
    IN  [i \in DOMAIN real |-> CharOf(real[i])]

ValidChars(bytes) == \A i \in DOMAIN bytes : bytes[i] \in DOMAIN CodeOf

SymbolSmall(bytes) ==
    [kind |-> "Symbol", obj |-> FALSE,
     body |-> FoldLeft(LAMBDA acc, b : acc * 2^CodeBits + CodeOf[b], 0, bytes)]

\* SymbolSmall::try_from_bytes, else symbol_new_from_slice.
SymbolFromBytes(bytes) ==
    IF Len(bytes) <= MaxSmallChars /\ ValidChars(bytes) THEN SymbolSmall(bytes)
    ELSE IF Len(bytes) <= SymbolLimit /\ ValidChars(bytes)
         THEN [kind |-> "Symbol", obj |-> TRUE, body |-> bytes]
         ELSE NoVal

(***************************************************************************)
(* Numbers as Vals: small when they fit the body, objects otherwise.       *)
(***************************************************************************)
get_body(v) == v.body
get_signed_body(v) == Signed(v.body, BodyBits)

IsSmallNum(kind, n) == IF kind \in SignedKinds THEN is_small_i64(n) ELSE is_small_u64(n)

SmallNum(kind, n) == [kind |-> kind, obj |-> FALSE, body |-> n % 2^BodyBits]
NumVal(kind, n) ==
    IF IsSmallNum(kind, n) THEN SmallNum(kind, n) ELSE [kind |-> kind, obj |-> TRUE, body |-> n]

NumOfSmall(v) == IF v.kind \in SignedKinds THEN get_signed_body(v) ELSE get_body(v)
NumOf(v) == IF v.obj THEN v.body ELSE NumOfSmall(v)

\* The major part of a U32Val or I32Val, as the integer it denotes.
U32Val(n) == [kind |-> "U32", obj |-> FALSE, body |-> n]
Void == [kind |-> "Void", obj |-> FALSE, body |-> 0]
Bool(b) == [kind |-> "Bool", obj |-> FALSE, body |-> IF b THEN 1 ELSE 0]
Obj(kind, content) == [kind |-> kind, obj |-> TRUE, body |-> content]

(***************************************************************************)
(* The order of Vals.                                                      *)
(***************************************************************************)
\* Tags of small values (False and True are two tags of one type).
SmallTags == <<"Bool", "Void", "Error", "U32", "I32", "U64", "I64", "Timepoint",
               "Duration", "U128", "I128", "U256", "I256", "Symbol">>
host_obj_discriminant(kind) ==
    IndexIn(<<"U64", "I64", "Timepoint", "Duration", "U128", "I128", "U256", "I256",
              "Bytes", "String", "Symbol", "Vec", "Map", "Address", "Muxed">>, kind)
ScValTypes == <<"Bool", "Void", "Error", "U32", "I32", "U64", "I64", "Timepoint",
                "Duration", "U128", "I128", "U256", "I256", "Bytes", "String",
                "Symbol", "Vec", "Map", "Address">>
get_scval_type(kind) == IF kind = "Muxed" THEN "Address" ELSE kind

\* Lexicographic order of two sequences of lengths la and lb whose elements
\* at i compare as c[i]; the first unequal or failed comparison decides.
CompareSeq(c, la, lb) ==
    LET common == 1..(IF la < lb THEN la ELSE lb)
        uneq == {i \in common : c[i] # Equal}
    IN  IF uneq = {} THEN cmp(la, lb) ELSE c[CHOOSE j \in uneq : \A k \in uneq : j <= k]

compare_bytes(a, b) == CompareSeq([i \in DOMAIN a |-> cmp(a[i], b[i])], Len(a), Len(b))

\* Mutant: small symbols compared by their packed codes.
compare_small_by_body(a, b) ==
    IF a.kind # b.kind THEN cmp(IndexIn(SmallTags, a.kind), IndexIn(SmallTags, b.kind))
    ELSE CASE a.kind = "Error" -> compare_bytes(a.body, b.body)
           [] a.kind \in NumKinds -> cmp(NumOf(a), NumOf(b))
           [] OTHER -> cmp(a.body, b.body)

\* Two small values: by tag, then by the body as its type reads it.
compare_small(a, b) ==
    IF a.kind # b.kind THEN cmp(IndexIn(SmallTags, a.kind), IndexIn(SmallTags, b.kind))
    ELSE CASE a.kind = "Symbol" -> compare_bytes(SymbolChars(a.body), SymbolChars(b.body))
           [] a.kind = "Error" -> compare_bytes(a.body, b.body)
           [] a.kind \in NumKinds -> cmp(NumOf(a), NumOf(b))
           [] OTHER -> cmp(a.body, b.body)

\* A small value against an object of the paired type.
try_compare_to_small(o, s) ==
    IF o.kind # s.kind THEN NotPaired
    ELSE IF o.kind = "Symbol" THEN compare_bytes(o.body, SymbolChars(s.body))
    ELSE cmp(o.body, NumOf(s))

by_scval_type(a, b) ==
    LET x == get_scval_type(a.kind)
        y == get_scval_type(b.kind)
    IN  IF x = y THEN Failed ELSE cmp(IndexIn(ScValTypes, x), IndexIn(ScValTypes, y))

RECURSIVE compare(_, _, _)
\* Compare<HostObject>: one level of depth for every pair of objects.
compare_obj(d, a, b) ==
    LET seq(x, y) ==
            CompareSeq([i \in DOMAIN x |-> compare(d - 1, x[i], y[i])], Len(x), Len(y))
    IN  IF d = 0 THEN Failed
        ELSE IF a.kind # b.kind
             THEN cmp(host_obj_discriminant(a.kind), host_obj_discriminant(b.kind))
        ELSE CASE a.kind = "Vec" -> seq(a.body, b.body)
               [] a.kind = "Map" ->
                      CompareSeq([i \in DOMAIN a.body |-> seq(a.body[i], b.body[i])],
                                 Len(a.body), Len(b.body))
               [] a.kind \in NumKinds -> cmp(a.body, b.body)
               [] OTHER -> compare_bytes(a.body, b.body)

obj_cmp(d, a, b) ==
    IF a.obj /\ b.obj THEN compare_obj(d, a, b)
    ELSE LET r == IF a.obj THEN try_compare_to_small(a, b)
                  ELSE LET o == try_compare_to_small(b, a)
                       IN  IF o = NotPaired THEN o ELSE ReverseOrder(o)
         IN  IF r = NotPaired THEN by_scval_type(a, b) ELSE r

\* Compare<Val>, d levels of depth left.
compare(d, a, b) == IF a.obj \/ b.obj THEN obj_cmp(d, a, b) ELSE compare_small(a, b)

(***************************************************************************)
(* The order of ScVals, which the ledger's keys are sorted by.  Every      *)
(* ScVal costs one level of depth.                                         *)
(***************************************************************************)
RECURSIVE compare_scval(_, _, _)
compare_scval(d, a, b) ==
    LET seq(x, y) ==
            CompareSeq([i \in DOMAIN x |-> compare_scval(d - 1, x[i], y[i])], Len(x), Len(y))
    IN  IF d = 0 \/ {a.type, b.type} \cap {"VecNone", "MapNone"} # {} THEN Failed
        ELSE IF a.type # b.type
             THEN cmp(IndexIn(ScValTypes, a.type), IndexIn(ScValTypes, b.type))
        ELSE CASE a.type = "Vec" -> seq(a.data, b.data)
               [] a.type = "Map" ->
                      CompareSeq([i \in DOMAIN a.data |-> seq(a.data[i], b.data[i])],
                                 Len(a.data), Len(b.data))
               [] a.type \in {"Bool", "Void", "U32", "I32"} -> cmp(a.data, b.data)
               [] OTHER -> compare_bytes(a.data, b.data)

(***************************************************************************)
(* Val to ScVal.  keys is storage_key_conversion_active: a muxed address   *)
(* must not be in a storage key.                                           *)
(***************************************************************************)
small_to_scval(v) ==
    [type |-> v.kind,
     data |-> CASE v.kind = "Symbol" -> SymbolChars(v.body)
                [] v.kind \in SignedKinds ->
                       i256_into_pieces(get_signed_body(v), WordsOf[v.kind])
                [] v.kind \in NumKinds -> u256_into_pieces(get_body(v), WordsOf[v.kind])
                [] OTHER -> v.body]

RECURSIVE from_host_val(_, _, _)
from_host_obj(d, keys, v) ==
    LET each(seq) == [i \in DOMAIN seq |-> from_host_val(d, keys, seq[i])]
        body == CASE v.kind = "Vec" -> each(v.body)
                  [] v.kind = "Map" -> [i \in DOMAIN v.body |-> each(v.body[i])]
                  [] v.kind \in SignedKinds -> i256_into_pieces(v.body, WordsOf[v.kind])
                  [] v.kind \in NumKinds -> u256_into_pieces(v.body, WordsOf[v.kind])
                  [] OTHER -> v.body
        failed == CASE v.kind = "Vec" -> NoScVal \in ToSet(body)
                    [] v.kind = "Map" -> \E e \in ToSet(body) : NoScVal \in ToSet(e)
                    [] v.kind = "Muxed" -> keys
                    [] OTHER -> FALSE
    IN  IF failed THEN NoScVal ELSE [type |-> get_scval_type(v.kind), data |-> body]

from_host_val(d, keys, v) ==
    IF d = 0 THEN NoScVal
    ELSE IF v.obj THEN from_host_obj(d - 1, keys, v) ELSE small_to_scval(v)

(***************************************************************************)
(* ScVal to Val: ScValObjRef::classify decides between small and object.   *)
(* A Vec or Map without a body, an unsorted Map, a Symbol with a foreign   *)
(* character or too long and an unknown address are refused.               *)
(***************************************************************************)
\* An address is <<account or contract or muxed account, id, multiplexing id>>.
AccountAddress == 0
ContractAddress == 1
MuxedAccount == 2

\* Instances, nonces and a Vec or Map without a body have types of their own.
can_represent_scval(s) == s.type \in ToSet(ScValTypes)

\* MeteredOrdMap::from_map: keys strictly increasing.
SortedKeys(d, m) == \A i \in 1..(Len(m) - 1) : compare(d, m[i][1], m[i + 1][1]) = Less

scval_num(s) ==
    NumVal(s.type, IF s.type \in SignedKinds THEN i256_from_pieces(s.data)
                   ELSE u256_from_pieces(s.data))

RECURSIVE to_host_val(_, _)
to_host_obj(d, s) ==
    LET each(seq) == [i \in DOMAIN seq |-> to_host_val(d, seq[i])]
    IN  CASE s.type = "Vec" ->
                 LET b == each(s.data) IN IF NoVal \in ToSet(b) THEN NoVal ELSE Obj("Vec", b)
          [] s.type = "Map" ->
                 LET b == [i \in DOMAIN s.data |-> each(s.data[i])]
                 IN  IF (\E e \in ToSet(b) : NoVal \in ToSet(e)) \/ ~SortedKeys(d, b) THEN NoVal
                     ELSE Obj("Map", b)
          [] s.type = "Address" ->
                 IF s.data[1] \in {AccountAddress, ContractAddress} THEN Obj("Address", s.data)
                 ELSE IF s.data[1] = MuxedAccount THEN Obj("Muxed", s.data) ELSE NoVal
          [] OTHER -> Obj(s.type, s.data)

to_host_val(d, s) ==
    IF d = 0 \/ ~can_represent_scval(s) THEN NoVal
    ELSE CASE s.type \in NumKinds -> scval_num(s)
           [] s.type = "Symbol" -> SymbolFromBytes(s.data)
           [] s.type \in {"Bytes", "String", "Vec", "Map", "Address"} -> to_host_obj(d - 1, s)
           [] OTHER -> [kind |-> s.type, obj |-> FALSE, body |-> s.data]
=============================================================================
