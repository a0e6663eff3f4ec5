---------------------------- MODULE Collections ----------------------------
(***************************************************************************)
(* What the host promises a guest about values, independently of how they  *)
(* are represented: a vector is a finite sequence, a map a finite function *)
(* enumerated in key order, a buffer a sequence of bytes, a number an      *)
(* integer, linear memory an array, the ledger a function.                 *)
(* An abstract value is a record [type, is]; is is a number, a sequence,   *)
(* or for a map the set of its <<key, value>> pairs.                       *)
(* call is the last call of the guest, ret what it returned.               *)
(***************************************************************************)
EXTENDS ValueOrder, Functions, TLC

CONSTANTS Limit,         \* the largest u32
          MaxByte,       \* the largest byte
          MaxSymbol,     \* characters of a symbol
          Chars,         \* bytes that are symbol characters
          IntBits,       \* width of the wide integers
          Depth          \* the levels of nesting a conversion follows

VARIABLES obj,           \* the container the guest works on
          memory,        \* its linear memory
          ledger,        \* the data it stored
          xdr,           \* a serialised value, or a buffer from elsewhere
          strict,        \* a storage key has been refused
          call, ret

vars == <<obj, memory, ledger, xdr, strict, call, ret>>

Good(x) == [ok |-> TRUE, val |-> x]
Nothing == [type |-> "Void", is |-> 0]
Error == [ok |-> FALSE, val |-> Nothing]
U32(n) == [type |-> "U32", is |-> n]
Truth(b) == [type |-> "Bool", is |-> IF b THEN 1 ELSE 0]
Value(t, x) == [type |-> t, is |-> x]

RECURSIVE Nesting(_)
Nesting(x) ==
    1 + CASE x.type = "Vec" -> Max({Nesting(y) : y \in Range(x.is)} \cup {0})
          [] x.type = "Map" -> Max(UNION {{Nesting(p[1]), Nesting(p[2])} : p \in x.is} \cup {0})
          [] OTHER -> 0

RECURSIVE Parts(_)
Parts(x) ==
    {x} \cup CASE x.type = "Vec" -> UNION {Parts(y) : y \in Range(x.is)}
               [] x.type = "Map" -> UNION {Parts(p[1]) \cup Parts(p[2]) : p \in x.is}
               [] OTHER -> {}
\* A muxed account address is <<2, account, id>>.
HasMuxed(x) == \E y \in Parts(x) : y.type = "Address" /\ y.is[1] = 2

(***************************************************************************)
(* Outcomes: the new container and the answer of a call c.                 *)
(***************************************************************************)
Answer(r) == [obj |-> obj, ret |-> r]
Turn(x) == [obj |-> x, ret |-> Good(Nothing)]
Checked(cond, outcome) == IF cond THEN outcome ELSE Answer(Error)

SeqOutcome(c, s, Make(_), Elem(_)) ==
    LET n == Len(s)
        i == c[2].is
    IN  CASE c[1] = "put" -> Checked(i < n, Turn(Make([s EXCEPT ![i + 1] = c[3]])))
          [] c[1] = "get" -> Checked(i < n, Answer(Good(Elem(s[i + 1]))))
          [] c[1] = "del" -> Checked(i < n, Turn(Make(RemoveAt(s, i + 1))))
          [] c[1] = "insert" -> Checked(i <= n, Turn(Make(InsertAt(s, i + 1, c[3]))))
          [] c[1] = "push_front" -> Turn(Make(<<c[2]>> \o s))
          [] c[1] = "push_back" -> Turn(Make(Append(s, c[2])))
          [] c[1] = "pop_front" -> Checked(n > 0, Turn(Make(Tail(s))))
          [] c[1] = "pop_back" -> Checked(n > 0, Turn(Make(Front(s))))
          [] c[1] = "front" -> Checked(n > 0, Answer(Good(Elem(s[1]))))
          [] c[1] = "back" -> Checked(n > 0, Answer(Good(Elem(s[n]))))
          [] c[1] = "len" -> Answer(Good(U32(n)))
          [] c[1] = "append" -> Turn(Make(s \o c[2].is))
          [] c[1] = "slice" -> Checked(i <= c[3].is /\ c[3].is <= n,
                                       Turn(Make(SubSeq(s, i + 1, c[3].is))))
          [] c[1] = "new" -> Turn(Make(<<>>))

SortedVec(s) == \A i \in 1..(Len(s) - 1) : ~Precedes(s[i + 1], s[i])

\* The results a search may give; in an unsorted vector, any.
SearchResults(s, x) ==
    LET place(i) == Cardinality({j \in DOMAIN s : Precedes(s[j], x)}) = i
    IN  IF x \in Range(s) THEN {U32(Limit + i) : i \in {j \in DOMAIN s : s[j] = x}}
        ELSE {U32(i) : i \in {j \in 0..Len(s) : place(j)}}

VecOutcomes(c, s) ==
    LET hits == {i \in DOMAIN s : s[i] = c[2]}
    IN  CASE c[1] = "first_index_of" ->
                 {Answer(Good(IF hits = {} THEN Nothing ELSE U32(Min(hits) - 1)))}
          [] c[1] = "last_index_of" ->
                 {Answer(Good(IF hits = {} THEN Nothing ELSE U32(Max(hits) - 1)))}
          [] c[1] = "binary_search" ->
                 IF SortedVec(s) THEN {Answer(Good(x)) : x \in SearchResults(s, c[2])}
                 ELSE {Answer(Good(U32(n))) : n \in 0..(2 * Limit)}
          [] OTHER -> {SeqOutcome(c, s, LAMBDA t : Value("Vec", t), LAMBDA e : e)}

BytesOutcomes(c, s) ==
    CASE c[1] \in {"put", "insert"} /\ c[3].is > MaxByte -> {Answer(Error)}
      [] c[1] = "push_back" /\ c[2].is > MaxByte -> {Answer(Error)}
      [] c[1] = "to_string" -> {Answer(Good(Value("String", s)))}
      [] OTHER -> {SeqOutcome([i \in DOMAIN c |->
                                  IF \/ c[1] \in {"put", "insert"} /\ i = 3
                                     \/ c[1] \in {"push_back"} /\ i = 2
                                  THEN c[i].is ELSE c[i]],
                              s, LAMBDA t : Value("Bytes", t), U32)}

\* A map is a function; its order is the order of its keys.
MapOutcomes(c, pairs) ==
    LET f == [k \in {p[1] : p \in pairs} |-> (CHOOSE p \in pairs : p[1] = k)[2]]
        graph(g) == Value("Map", {<<k, g[k]>> : k \in DOMAIN g})
        ks == SetToSortSeq(DOMAIN f, Precedes)
        k == c[2]
        nth == c[2].is + 1
    IN  {CASE c[1] = "put" ->
                  Turn(graph([x \in DOMAIN f \cup {k} |-> IF x = k THEN c[3] ELSE f[x]]))
           [] c[1] = "get" -> IF k \in DOMAIN f THEN Answer(Good(f[k])) ELSE Answer(Error)
           [] c[1] = "del" -> IF k \in DOMAIN f THEN Turn(graph(Restrict(f, DOMAIN f \ {k})))
                              ELSE Answer(Error)
           [] c[1] = "has" -> Answer(Good(Truth(k \in DOMAIN f)))
           [] c[1] = "len" -> Answer(Good(U32(Cardinality(DOMAIN f))))
           [] c[1] = "key_by_pos" -> IF nth \in DOMAIN ks THEN Answer(Good(ks[nth]))
                                     ELSE Answer(Error)
           [] c[1] = "val_by_pos" -> IF nth \in DOMAIN ks THEN Answer(Good(f[ks[nth]]))
                                     ELSE Answer(Error)
           [] c[1] = "keys" -> Answer(Good(Value("Vec", ks)))
           [] c[1] = "values" -> Answer(Good(Value("Vec", [i \in DOMAIN ks |-> f[ks[i]]])))
           [] c[1] = "new" -> Turn(graph(<<>>))}

ContainerCall ==
    \E o \in CASE obj.type = "Vec" -> VecOutcomes(call', obj.is)
               [] obj.type = "Map" -> MapOutcomes(call', obj.is)
               [] obj.type = "Bytes" -> BytesOutcomes(call', obj.is)
               [] OTHER -> {} :
        obj' = o.obj /\ ret' = o.ret /\ UNCHANGED <<memory, ledger, xdr, strict>>

(***************************************************************************)
(* Integers: the mathematical result, or an error when it has no           *)
(* representation, when the divisor is zero or the shift too wide.         *)
(***************************************************************************)
Representable(t, n) ==
    IF t = "I256" THEN n >= -2^(IntBits - 1) /\ n < 2^(IntBits - 1) ELSE n >= 0 /\ n < 2^IntBits
RECURSIVE Power(_, _)
\* a^p, or a number beyond every integer type once it is that large.
Power(a, p) == IF p = 0 THEN 1
               ELSE LET q == Power(a, p - 1)
                    IN  IF q > 2^IntBits \/ -q > 2^IntBits THEN 2^(IntBits + 1) ELSE q * a

\* The representable numbers congruent to a * 2^p.
Shifted(t, a, p) == {n \in {(a * 2^p) % 2^IntBits, ((a * 2^p) % 2^IntBits) - 2^IntBits} :
                       Representable(t, n)}

Magnitude(n) == IF n < 0 THEN -n ELSE n
\* Quotients leave a remainder of the dividend's sign, remainders are
\* those of the mathematical modulus.
NumResults(op, t, a, b) ==
    CASE op = "add" -> {a + b}
      [] op = "sub" -> {a - b}
      [] op = "mul" -> {a * b}
      [] op = "div" -> IF b = 0 THEN {} ELSE
             {q \in {Magnitude(a) \div Magnitude(b), -(Magnitude(a) \div Magnitude(b))} :
                 LET r == a - q * b IN Magnitude(r) < Magnitude(b) /\ (r = 0 \/ (r > 0) = (a > 0))}
      [] op = "rem_euclid" -> IF b = 0 \/ (t = "I256" /\ b = -1 /\ a = -2^(IntBits - 1)) THEN {}
                              ELSE {a % Magnitude(b)}
      [] op = "pow" -> {Power(a, b)}
      [] op = "shl" -> IF b >= IntBits THEN {} ELSE Shifted(t, a, b)
      [] op = "shr" -> IF b >= IntBits THEN {} ELSE {a \div 2^b}

Word == 2^(IntBits \div 4)
\* The number whose digits to base Word are d, and those digits of n.
NumberOf(d) == SumFunction([i \in DOMAIN d |-> d[i] * Word^(Len(d) - i)])
Congruent(t, n) == CHOOSE m \in {n, n - 2^IntBits} : Representable(t, m)
WordCount == [t \in {"U64", "I64", "Timepoint", "Duration"} |-> 1]
             @@ [t \in {"U128", "I128"} |-> 2] @@ [t \in {"U256", "I256"} |-> 4]
\* Digits are those of the mathematical number; only the first has its sign.
Digit(t, n, i) ==
    LET q == n \div Word^(WordCount[t] - i) IN IF i = 1 THEN q ELSE q % Word

\* An address is <<sort, id, multiplexing id>>; its strkey <<sort, id>>.
ObjectResult(c) ==
    LET a == c[2]
        b == c[3]
    IN  CASE c[1] = "to_be_bytes" ->
                 Good(Value("Bytes", CHOOSE d \in [1..4 -> 0..MaxByte] :
                                        NumberOf(d) \in {a.is, a.is + 2^IntBits}))
          [] c[1] = "from_be_bytes" ->
                 IF Len(b.is) = 4 THEN Good(Value(a.type, Congruent(a.type, NumberOf(b.is)))) ELSE Error
          [] c[1] = "piece" ->
                 Good(Value(IF b.is = 1 /\ a.type \in {"I64", "I128", "I256"} THEN "I32" ELSE "U32",
                            Digit(a.type, a.is, b.is)))
          [] c[1] = "from_pieces" -> Good(Value(a.type, NumberOf(b.is)))
          [] c[1] = "to_strkey" -> Good(Value("String", Front(a.is)))
          [] c[1] = "from_strkey" ->
                 IF a.type \in {"Bytes", "String"} /\ \E t \in 0..1, i \in 0..MaxByte : a.is = <<t, i>>
                 THEN Good(Value("Address", Append(a.is, 0))) ELSE Error
          [] c[1] = "unmux" -> Good(Value("Address", <<0, a.is[2], 0>>))
          [] c[1] = "mux_id" -> Good(Value("U64", a.is[3]))
          [] c[1] = "buf_len" -> Good(U32(Len(a.is)))
          [] c[1] = "to_bytes" -> Good(Value("Bytes", a.is))
ObjectCalls == {"to_be_bytes", "from_be_bytes", "piece", "from_pieces", "to_strkey", "from_strkey",
                "unmux", "mux_id", "buf_len", "to_bytes"}
ObjectCall == ret' = ObjectResult(call') /\ UNCHANGED <<obj, memory, ledger, xdr, strict>>

IntegerCall ==
    /\ LET t == call'[2].type
           good == {n \in NumResults(call'[1], t, call'[2].is, call'[3].is) : Representable(t, n)}
       IN  ret' = IF good = {} THEN Error ELSE Good(Value(t, CHOOSE n \in good : TRUE))
    /\ UNCHANGED <<obj, memory, ledger, xdr, strict>>

(***************************************************************************)
(* Linear memory: a call that reaches outside it fails and changes         *)
(* nothing; otherwise only the cells of the range change.                  *)
(***************************************************************************)
Inside(pos, len) == pos + len <= Len(memory)
Cells(pos, len) == SubSeq(memory, pos + 1, pos + len)
Overwritten(seq, pos, new) ==
    [i \in 1..Max({Len(seq), pos + Len(new)}) |->
        IF i > pos /\ i <= pos + Len(new) THEN new[i - pos] ELSE IF i <= Len(seq) THEN seq[i] ELSE 0]

\* The numbers of 32 bits are the Vals the memory holds, under tags 4 and 5.
Tags == 4 :> "U32" @@ 5 :> "I32"
ValsAt(pos, n) == [i \in 1..n |-> Value(Tags[memory[pos + 2 * i - 1]], memory[pos + 2 * i])]
GoodVals(pos, n) == Inside(pos, 2 * n) /\ \A i \in 1..n : memory[pos + 2 * i - 1] \in DOMAIN Tags
ValCells(vals) ==
    [j \in 1..(2 * Len(vals)) |->
        LET v == vals[(j + 1) \div 2]
        IN  IF j % 2 = 0 THEN v.is ELSE CHOOSE t \in DOMAIN Tags : Tags[t] = v.type]
SlicesInside(pos, n) ==
    Inside(pos, 2 * n) /\ \A i \in 1..n : Inside(memory[pos + 2 * i - 1], memory[pos + 2 * i])
SlicesAt(pos, n) == [i \in 1..n |-> Cells(memory[pos + 2 * i - 1], memory[pos + 2 * i])]
IsSymbol(bytes) == Len(bytes) <= MaxSymbol /\ Range(bytes) \subseteq Chars
SymbolsAt(pos, n) == [i \in 1..n |-> Value("Symbol", SlicesAt(pos, n)[i])]

\* The pairs of a map in key order, seen as a vector of values.
MapSeq(pairs) == SetToSortSeq(pairs, PairPrecedes)

Unchanged == [memory |-> memory, obj |-> obj, ret |-> Error]
Done(m, o) == [memory |-> m, obj |-> o, ret |-> Good(Nothing)]
Gives(x) == [memory |-> memory, obj |-> obj, ret |-> Good(x)]
MemoryOutcome(c) ==
    LET arg(i) == c[i].is
    IN  CASE c[1] \in {"bytes_new", "string_new", "symbol_new"} ->
                 IF Inside(arg(2), arg(3)) /\ (c[1] = "symbol_new" => IsSymbol(Cells(arg(2), arg(3))))
                 THEN Gives(Value(CASE c[1] = "bytes_new" -> "Bytes" [] c[1] = "string_new" -> "String"
                                    [] OTHER -> "Symbol", Cells(arg(2), arg(3))))
                 ELSE Unchanged
          [] c[1] = "copy_to" ->
                 IF arg(2) + arg(4) <= Len(obj.is) /\ Inside(arg(3), arg(4))
                 THEN Done(Overwritten(memory, arg(3), SubSeq(obj.is, arg(2) + 1, arg(2) + arg(4))), obj)
                 ELSE Unchanged
          [] c[1] = "copy_from" ->
                 IF arg(2) + arg(4) <= Limit /\ Inside(arg(3), arg(4))
                 THEN Done(memory, Value("Bytes", Overwritten(obj.is, arg(2), Cells(arg(3), arg(4)))))
                 ELSE Unchanged
          [] c[1] = "vec_new" ->
                 IF GoodVals(arg(2), arg(3)) THEN Gives(Value("Vec", ValsAt(arg(2), arg(3)))) ELSE Unchanged
          [] c[1] = "vec_unpack" ->
                 IF arg(3) = Len(obj.is) /\ Inside(arg(2), 2 * arg(3))
                 THEN Done(Overwritten(memory, arg(2), ValCells(obj.is)), obj) ELSE Unchanged
          [] c[1] = "symbol_index" ->
                 LET hits == {i \in 1..arg(4) : SlicesAt(arg(3), arg(4))[i] = arg(2)}
                 IN  IF SlicesInside(arg(3), arg(4)) /\ hits # {} THEN Gives(U32(Min(hits) - 1))
                     ELSE Unchanged
          [] c[1] = "map_new" ->
                 IF /\ SlicesInside(arg(2), arg(4)) /\ GoodVals(arg(3), arg(4))
                    /\ \A i \in 1..arg(4) : IsSymbol(SlicesAt(arg(2), arg(4))[i])
                    /\ \A i \in 1..(arg(4) - 1) :
                          Precedes(SymbolsAt(arg(2), arg(4))[i], SymbolsAt(arg(2), arg(4))[i + 1])
                 THEN Gives(Value("Map", {<<SymbolsAt(arg(2), arg(4))[i], ValsAt(arg(3), arg(4))[i]>> :
                                            i \in 1..arg(4)}))
                 ELSE Unchanged
          [] c[1] = "map_unpack" ->
                 LET pairs == MapSeq(obj.is)
                 IN  IF /\ arg(4) = Len(pairs) /\ SlicesInside(arg(2), arg(4))
                        /\ \A i \in 1..arg(4) : SlicesAt(arg(2), arg(4))[i] = pairs[i][1].is
                        /\ Inside(arg(3), 2 * arg(4))
                     THEN Done(Overwritten(memory, arg(3), ValCells([i \in DOMAIN pairs |-> pairs[i][2]])), obj)
                     ELSE Unchanged
\* A comparison answers -1, 0 or 1; it may give up on deep values.
CompareCall ==
    /\ LET a == call'[2]
           b == call'[3]
           order == IF Precedes(a, b) THEN -1 ELSE IF a = b THEN 0 ELSE 1
       IN  \/ ret' = Good(Value("I32", order))
           \/ ret' = Error /\ Max({Nesting(a), Nesting(b)}) > Depth
    /\ UNCHANGED <<obj, memory, ledger, xdr, strict>>

MemoryCall ==
    LET o == MemoryOutcome(call')
    IN  memory' = o.memory /\ obj' = o.obj /\ ret' = o.ret /\ UNCHANGED <<ledger, xdr, strict>>

(***************************************************************************)
(* Data at rest.  A key that nests too deep or holds a muxed address is    *)
(* refused; what was put is what is read, and a serialised value reads     *)
(* back unchanged.  After a refused key a muxed address may be refused in  *)
(* values too, until another key is accepted.                              *)
(***************************************************************************)
KeyFits(k) == Nesting(k) <= Depth /\ ~HasMuxed(k)
ValueFits(v) == Nesting(v) <= Depth /\ ~(strict /\ HasMuxed(v))
DataCall ==
    LET c == call'
        k == c[2]
    IN  /\ \/ /\ c[1] = "put_data" /\ KeyFits(k) /\ Nesting(c[3]) <= Depth
              /\ ledger' = [x \in DOMAIN ledger \cup {k} |-> IF x = k THEN c[3] ELSE ledger[x]]
              /\ ret' = Good(Nothing) /\ strict' = FALSE /\ UNCHANGED xdr
           \/ /\ c[1] = "put_data" /\ KeyFits(k) /\ Nesting(c[3]) > Depth
              /\ ret' = Error /\ strict' = FALSE /\ UNCHANGED <<ledger, xdr>>
           \/ /\ c[1] = "get_data" /\ KeyFits(k)
              /\ ret' = IF k \in DOMAIN ledger THEN Good(ledger[k]) ELSE Error
              /\ strict' = FALSE /\ UNCHANGED <<ledger, xdr>>
           \/ /\ c[1] \in {"put_data", "get_data"} /\ ~KeyFits(k)
              /\ ret' = Error /\ strict' = TRUE /\ UNCHANGED <<ledger, xdr>>
           \/ /\ c[1] = "serialize" /\ ValueFits(k)
              /\ xdr' = [wellformed |-> TRUE, val |-> k]
              /\ ret' = Good(Nothing) /\ UNCHANGED <<ledger, strict>>
           \/ /\ c[1] = "serialize" /\ ~ValueFits(k)
              /\ ret' = Error /\ UNCHANGED <<ledger, xdr, strict>>
           \/ /\ c[1] = "receive"
              /\ ret' = Good(Nothing) /\ UNCHANGED <<ledger, strict>>
           \/ /\ c[1] = "deserialize"
              /\ ret' = IF xdr.wellformed /\ Nesting(xdr.val) <= Depth THEN Good(xdr.val) ELSE Error
              /\ UNCHANGED <<ledger, xdr, strict>>
        /\ UNCHANGED <<obj, memory>>

Next == IF call'[1] \in {"put_data", "get_data", "serialize", "receive", "deserialize"} THEN DataCall
        ELSE IF call'[1] \in {"add", "sub", "mul", "div", "rem_euclid", "pow", "shl", "shr"}
             THEN IntegerCall
        ELSE IF call'[1] \in ObjectCalls THEN ObjectCall
        ELSE IF call'[1] = "cmp" THEN CompareCall
        ELSE IF memory # <<>> THEN MemoryCall ELSE ContainerCall

Init == strict = FALSE /\ ret = Good(Nothing)
Spec == Init /\ [][Next]_vars
=============================================================================
