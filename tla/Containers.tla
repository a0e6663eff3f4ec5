----------------------------- MODULE Containers -----------------------------
(***************************************************************************)
(* A guest working on one container object at a time through the host      *)
(* functions of the "vec", "map", "buf" and "int" modules and those that   *)
(* move data between a guest's linear memory, host objects and the ledger  *)
(* (soroban-env-host/src/host.rs).  Objects are immutable: a call that     *)
(* changes a container makes a new object, which the guest goes on with.   *)
(***************************************************************************)
EXTENDS MeteredContainers

CONSTANTS Starts,        \* <<the first object, the linear memory>>
          Elements,      \* Vals put into vectors
          Keys, Payloads,\* Vals used as keys and values of maps
          Bytes,         \* U32Vals used as bytes
          Indices,       \* positions given to calls
          Compared,      \* Vals compared with one another
          Wide, Exponents, \* Vals given to arithmetic, and U32Vals
          Slots, Data,   \* Vals used as storage keys and stored values
          Foreign,       \* ScVals of buffers made elsewhere
          MaxLen,        \* bound on the length of a container
          MaxMemoryCalls \* bound on the calls that use linear memory

VARIABLES reg,           \* the container the guest works on
          mem,           \* its linear memory
          stored,        \* contract data, by key: the ledger's ScVals
          xdr,           \* the ScVal a bytes object holds
          storage_key_conversion_active,
          call, ret,     \* the last call and its answer
          memory_calls

vars == <<reg, mem, stored, xdr, storage_key_conversion_active, call, ret, memory_calls>>
aside == <<stored, xdr, storage_key_conversion_active>>

Init ==
    /\ \E s \in Starts : reg = s[1] /\ mem = s[2]
    /\ stored = <<>> /\ xdr = NoScVal /\ storage_key_conversion_active = FALSE
    /\ call = <<"none">> /\ ret = Ok(Void) /\ memory_calls = 0

(***************************************************************************)
(* Calls on the container.                                                 *)
(***************************************************************************)
\* The call answers r; the container stays.
Answers(c, r) ==
    /\ call' = c /\ ret' = r
    /\ UNCHANGED <<reg, mem, aside, memory_calls>>
\* The call makes a new container of content r.val, unless it fails.
Makes(c, r) ==
    /\ call' = c
    /\ ret' = IF r.ok THEN Ok(Void) ELSE Err
    /\ reg' = IF r.ok THEN Obj(reg.kind, r.val) ELSE reg
    /\ UNCHANGED <<mem, aside, memory_calls>>

Works(kind) == reg.kind = kind /\ mem = <<>>
Room == Len(reg.body) < MaxLen

vec_new == Works("Vec") /\ Makes(<<"new", Void>>, Ok(<<>>))
vec_put(i, x) == Works("Vec") /\ Makes(<<"put", i, x>>, vector_set(reg.body, i.body, x))
vec_get(i) == Works("Vec") /\ Answers(<<"get", i>>, vector_get(reg.body, i.body))
vec_del(i) == Works("Vec") /\ Makes(<<"del", i>>, vector_remove(reg.body, i.body))
vec_len == Works("Vec") /\ Answers(<<"len", Void>>, Ok(U32Val(Len(reg.body))))
vec_push_front(x) == Works("Vec") /\ Room /\ Makes(<<"push_front", x>>, push_front(reg.body, x))
vec_pop_front == Works("Vec") /\ Makes(<<"pop_front", Void>>, pop_front(reg.body))
vec_push_back(x) == Works("Vec") /\ Room /\ Makes(<<"push_back", x>>, push_back(reg.body, x))
vec_pop_back == Works("Vec") /\ Makes(<<"pop_back", Void>>, pop_back(reg.body))
vec_front == Works("Vec") /\ Answers(<<"front", Void>>, vector_get(reg.body, 0))
vec_back ==
    /\ Works("Vec")
    /\ Answers(<<"back", Void>>, IF reg.body = <<>> THEN Err ELSE Ok(Last(reg.body)))
vec_insert(i, x) ==
    Works("Vec") /\ Room /\ Makes(<<"insert", i, x>>, vector_insert(reg.body, i.body, x))
vec_append(s) ==
    /\ Works("Vec") /\ Len(reg.body) + Len(s) <= MaxLen
    /\ Makes(<<"append", Obj("Vec", s)>>, append(reg.body, s))
vec_slice(i, j) == Works("Vec") /\ Makes(<<"slice", i, j>>, slice(reg.body, i.body, j.body))
vec_first_index_of(x) ==
    Works("Vec") /\ Answers(<<"first_index_of", x>>, first_index_of(reg.body, x))
vec_last_index_of(x) ==
    Works("Vec") /\ Answers(<<"last_index_of", x>>, last_index_of(reg.body, x))
vec_binary_search(x) ==
    /\ Works("Vec")
    /\ Answers(<<"binary_search", x>>,
               u64_from_binary_search_result(
                   binary_search([i \in DOMAIN reg.body |-> compare(DepthLimit, reg.body[i], x)],
                                 Len(reg.body))))

map_new == Works("Map") /\ Makes(<<"new", Void>>, Ok(<<>>))
map_put(k, v) == Works("Map") /\ Room /\ Makes(<<"put", k, v>>, insert(reg.body, k, v))
map_get(k) == Works("Map") /\ Answers(<<"get", k>>, get(reg.body, k))
map_del(k) == Works("Map") /\ Makes(<<"del", k>>, remove(reg.body, k))
map_len == Works("Map") /\ Answers(<<"len", Void>>, Ok(U32Val(Len(reg.body))))
map_has(k) == Works("Map") /\ Answers(<<"has", k>>, contains_key(reg.body, k))
ByPos(i, part) ==
    LET r == get_at_index(reg.body, i.body) IN IF r.ok THEN Ok(r.val[part]) ELSE Err
map_key_by_pos(i) == Works("Map") /\ Answers(<<"key_by_pos", i>>, ByPos(i, 1))
map_val_by_pos(i) == Works("Map") /\ Answers(<<"val_by_pos", i>>, ByPos(i, 2))
map_keys == Works("Map") /\ Answers(<<"keys", Void>>, Ok(Obj("Vec", keys(reg.body))))
map_values == Works("Map") /\ Answers(<<"values", Void>>, Ok(Obj("Vec", values(reg.body))))

\* Bytes come in as U32Vals that must fit eight bits, and go out as U32Vals.
Byte(r) == IF r.ok THEN Ok(U32Val(r.val)) ELSE Err
IfByte(u, r) == IF u8_from_u32val_input(u) THEN r ELSE Err
bytes_new == Works("Bytes") /\ Makes(<<"new", Void>>, Ok(<<>>))
bytes_put(i, u) ==
    Works("Bytes") /\ Makes(<<"put", i, u>>, IfByte(u, vector_set(reg.body, i.body, u.body)))
bytes_get(i) == Works("Bytes") /\ Answers(<<"get", i>>, Byte(vector_get(reg.body, i.body)))
bytes_del(i) == Works("Bytes") /\ Makes(<<"del", i>>, vector_remove(reg.body, i.body))
bytes_len == Works("Bytes") /\ Answers(<<"len", Void>>, Ok(U32Val(Len(reg.body))))
bytes_push(u) ==
    /\ Works("Bytes") /\ Room
    /\ Makes(<<"push_back", u>>, IfByte(u, from_exact_iter(Append(reg.body, u.body))))
bytes_pop == Works("Bytes") /\ Makes(<<"pop_back", Void>>, pop_back(reg.body))
bytes_front == Works("Bytes") /\ Answers(<<"front", Void>>, Byte(vector_get(reg.body, 0)))
bytes_back ==
    /\ Works("Bytes")
    /\ Answers(<<"back", Void>>, IF reg.body = <<>> THEN Err ELSE Byte(Ok(Last(reg.body))))
bytes_insert(i, u) ==
    /\ Works("Bytes") /\ Room
    /\ Makes(<<"insert", i, u>>, IfByte(u, vector_insert(reg.body, i.body, u.body)))
bytes_append(s) ==
    /\ Works("Bytes") /\ Len(reg.body) + Len(s) <= MaxLen
    /\ Makes(<<"append", Obj("Bytes", s)>>, append(reg.body, s))
bytes_slice(i, j) == Works("Bytes") /\ Makes(<<"slice", i, j>>, slice(reg.body, i.body, j.body))
bytes_to_string == Works("Bytes") /\ Answers(<<"to_string", Void>>, Ok(Obj("String", reg.body)))

(***************************************************************************)
(* Calls on linear memory.                                                 *)
(***************************************************************************)
UsesMemory == mem # <<>> /\ memory_calls < MaxMemoryCalls
\* A call that gives a value, one that writes memory, one that makes a new
\* container; a failed one changes nothing.
MemoryGives(c, r) ==
    /\ UsesMemory /\ memory_calls' = memory_calls + 1
    /\ call' = c /\ ret' = r
    /\ UNCHANGED <<reg, mem, aside>>
MemoryWrites(c, r) ==
    /\ UsesMemory /\ memory_calls' = memory_calls + 1
    /\ call' = c /\ ret' = IF r.ok THEN Ok(Void) ELSE Err
    /\ mem' = IF r.ok THEN r.val ELSE mem
    /\ UNCHANGED <<reg, aside>>

memobj_new_from_linear_memory(kind, pos, len) ==
    LET r == read_bytes(mem, pos.body, len.body)
    IN  IF r.ok THEN try_from_bytes(kind, r.val) ELSE Err
bytes_new_from_linear_memory(pos, len) ==
    MemoryGives(<<"bytes_new", pos, len>>, memobj_new_from_linear_memory("Bytes", pos, len))
string_new_from_linear_memory(pos, len) ==
    MemoryGives(<<"string_new", pos, len>>, memobj_new_from_linear_memory("String", pos, len))
symbol_new_from_linear_memory(pos, len) ==
    MemoryGives(<<"symbol_new", pos, len>>, memobj_new_from_linear_memory("Symbol", pos, len))

\* bytes_, string_ and symbol_copy_to_linear_memory.
memobj_copy_to_linear_memory(b_pos, lm_pos, len) ==
    /\ reg.kind \in {"Bytes", "String", "Symbol"}
    /\ LET out == copy_bytes_out(reg.body, b_pos.body, len.body)
       IN  MemoryWrites(<<"copy_to", b_pos, lm_pos, len>>,
                        IF out.ok THEN write_bytes(mem, lm_pos.body, out.val) ELSE Err)
bytes_copy_from_linear_memory(b_pos, lm_pos, len) ==
    /\ reg.kind = "Bytes" /\ UsesMemory /\ memory_calls' = memory_calls + 1
    /\ LET in == read_bytes(mem, lm_pos.body, len.body)
           r == IF in.ok THEN clone_resize_and_copy_bytes_in(reg.body, b_pos.body, in.val) ELSE Err
       IN  /\ call' = <<"copy_from", b_pos, lm_pos, len>>
           /\ ret' = IF r.ok THEN Ok(Void) ELSE Err
           /\ reg' = IF r.ok THEN Obj("Bytes", r.val) ELSE reg
    /\ UNCHANGED <<mem, aside>>

symbol_index_in_linear_memory(sym, pos, len) ==
    LET r == scan_slices(mem, pos.body, len.body)
        hits == {i \in DOMAIN r.val : symbol_matches(r.val[i], sym)}
    IN  MemoryGives(<<"symbol_index", sym, pos, len>>,
                    IF ~r.ok THEN Err ELSE IF hits = {} THEN Err
                    ELSE Ok(U32Val((CHOOSE i \in hits : \A j \in hits : i <= j) - 1)))

vec_new_from_linear_memory(pos, len) ==
    LET r == read_vals(mem, pos.body, len.body)
    IN  MemoryGives(<<"vec_new", pos, len>>, IF r.ok THEN Ok(Obj("Vec", r.val)) ELSE Err)
vec_unpack_to_linear_memory(pos, len) ==
    /\ reg.kind = "Vec"
    /\ MemoryWrites(<<"vec_unpack", pos, len>>,
                    IF Len(reg.body) # len.body THEN Err ELSE write_vals(mem, pos.body, reg.body))

map_new_from_linear_memory(keys_pos, vals_pos, len) ==
    LET names == scan_slices(mem, keys_pos.body, len.body)
        syms == [i \in DOMAIN names.val |-> SymbolFromBytes(names.val[i])]
        vals == read_vals(mem, vals_pos.body, len.body)
        m == from_map([i \in 1..len.body |-> <<syms[i], vals.val[i]>>])
    IN  MemoryGives(<<"map_new", keys_pos, vals_pos, len>>,
                    IF ~names.ok THEN Err
                    ELSE IF NoVal \in ToSet(syms) \/ ~vals.ok THEN Err
                    ELSE IF m.ok THEN Ok(Obj("Map", m.val)) ELSE Err)
\* Keys are checked against the names in memory before values are written.
map_unpack_to_linear_memory(keys_pos, vals_pos, len) ==
    /\ reg.kind = "Map"
    /\ LET names == scan_slices(mem, keys_pos.body, len.body)
           match == /\ Len(reg.body) = len.body /\ names.ok
                    /\ \A i \in 1..len.body : /\ reg.body[i][1].kind = "Symbol"
                                              /\ symbol_matches(names.val[i], reg.body[i][1])
       IN  MemoryWrites(<<"map_unpack", keys_pos, vals_pos, len>>,
                        IF match THEN write_vals(mem, vals_pos.body, values(reg.body)) ELSE Err)

(***************************************************************************)
(* Arithmetic on U256Val and I256Val.                                      *)
(***************************************************************************)
Idle == reg.kind = "Void"
\* Arithmetic and comparison touch no data: they are tried on fresh state.
Fresh == Idle /\ aside = <<<<>>, NoScVal, FALSE>>
Computes(op, a, b, r) == Fresh /\ Answers(<<op, a, b>>, r)
int256_add(a, b) == Computes("add", a, b, checked(a.kind, NumOf(a) + NumOf(b)))
int256_sub(a, b) == Computes("sub", a, b, checked(a.kind, NumOf(a) - NumOf(b)))
int256_mul(a, b) == Computes("mul", a, b, checked_mul(a.kind, NumOf(a), NumOf(b)))
int256_div(a, b) == Computes("div", a, b, checked_div(a.kind, NumOf(a), NumOf(b)))
int256_rem_euclid(a, b) == Computes("rem_euclid", a, b, checked_rem_euclid(a.kind, NumOf(a), NumOf(b)))
int256_pow(a, p) == Computes("pow", a, p, checked_pow(a.kind, NumOf(a), p.body))
int256_shl(a, p) == Computes("shl", a, p, checked_shl(a.kind, NumOf(a), p.body))
int256_shr(a, p) == Computes("shr", a, p, checked_shr(a.kind, NumOf(a), p.body))

\* Numbers as big-endian bytes (here one byte is one word) and as pieces.
\* obj_from_*_pieces makes an object whether or not the number is small.
int256_val_to_be_bytes(a) ==
    Computes("to_be_bytes", a, Void, Ok(Obj("Bytes", u256_into_pieces(NumOf(a) % 2^Bits256, 4))))
int256_val_from_be_bytes(kind, b) ==
    LET u == u256_from_pieces(b.body)
    IN  Computes("from_be_bytes", NumVal(kind, 0), b,
                 IF Len(b.body) # 4 THEN Err
                 ELSE Ok(NumVal(kind, IF kind \in SignedKinds THEN Signed(u, Bits256) ELSE u)))
Pieces(v) == IF v.kind \in SignedKinds THEN i256_into_pieces(v.body, WordsOf[v.kind])
             ELSE u256_into_pieces(v.body, WordsOf[v.kind])
obj_to_pieces(v, i) ==
    /\ v.obj /\ v.kind \in NumKinds /\ i \in DOMAIN Pieces(v)
    /\ Computes("piece", v, U32Val(i),
                Ok([kind |-> IF i = 1 /\ v.kind \in SignedKinds THEN "I32" ELSE "U32",
                    obj |-> FALSE, body |-> Pieces(v)[i]]))
obj_from_pieces(v) ==
    /\ v.obj /\ v.kind \in NumKinds
    /\ Computes("from_pieces", NumVal(v.kind, 0), Obj("Bytes", Pieces(v)),
                Ok(Obj(v.kind, IF v.kind \in SignedKinds THEN i256_from_pieces(Pieces(v))
                               ELSE u256_from_pieces(Pieces(v)))))

(***************************************************************************)
(* Addresses.  A strkey is <<version, id>>; the encoding is external.      *)
(***************************************************************************)
StrkeyLen == 2
address_to_strkey(a) ==
    /\ a.kind = "Address"
    /\ Computes("to_strkey", a, Void, Ok(Obj("String", <<a.body[1], a.body[2]>>)))
strkey_to_address(k) ==
    Computes("from_strkey", k, Void,
             IF ~k.obj THEN Err
             ELSE IF k.kind \notin {"Bytes", "String"} THEN Err
             ELSE IF Len(k.body) # StrkeyLen THEN Err
             ELSE IF k.body[1] \notin {AccountAddress, ContractAddress} THEN Err
             ELSE Ok(Obj("Address", Append(k.body, 0))))
get_address_from_muxed_address(m) ==
    /\ m.kind = "Muxed"
    /\ Computes("unmux", m, Void, Ok(Obj("Address", <<AccountAddress, m.body[2], 0>>)))
get_id_from_muxed_address(m) ==
    m.kind = "Muxed" /\ Computes("mux_id", m, Void, Ok(NumVal("U64", m.body[3])))
buf_len(b) == /\ b.obj /\ b.kind \in {"String", "Symbol"}
              /\ Computes("buf_len", b, Void, Ok(U32Val(Len(b.body))))
string_to_bytes(b) == b.kind = "String" /\ Computes("to_bytes", b, Void, Ok(Obj("Bytes", b.body)))

(***************************************************************************)
(* Comparison, serialisation and contract data.                            *)
(***************************************************************************)
\* Compare<Val>, which a guest calls as obj_cmp.
compare_vals(a, b) ==
    LET o == compare(DepthLimit, a, b)
    IN  /\ Fresh
        /\ Answers(<<"cmp", a, b>>,
                   IF o = Failed THEN Err ELSE Ok([kind |-> "I32", obj |-> FALSE, body |-> o]))

\* from_host_val_for_storage: the flag is reset only when the conversion
\* succeeds.
from_host_val_for_storage(k) == from_host_val(DepthLimit, TRUE, k)
KeyConverted(k) ==
    storage_key_conversion_active' = (from_host_val_for_storage(k) = NoScVal)

DataAnswers(c, r) ==
    call' = c /\ ret' = r /\ UNCHANGED <<reg, mem, memory_calls>>
put_contract_data(k, v) ==
    LET key == from_host_val_for_storage(k)
        val == from_host_val(DepthLimit, FALSE, v)
        good == key # NoScVal /\ val # NoScVal
    IN  /\ Idle /\ KeyConverted(k)
        /\ stored' = IF good THEN [x \in DOMAIN stored \cup {key} |-> IF x = key THEN val ELSE stored[x]]
                     ELSE stored
        /\ DataAnswers(<<"put_data", k, v>>, IF good THEN Ok(Void) ELSE Err)
        /\ UNCHANGED xdr
get_contract_data(k) ==
    LET key == from_host_val_for_storage(k)
        val == IF key \in DOMAIN stored THEN to_host_val(DepthLimit, stored[key]) ELSE NoVal
    IN  /\ Idle /\ KeyConverted(k)
        /\ DataAnswers(<<"get_data", k>>, IF val = NoVal THEN Err ELSE Ok(val))
        /\ UNCHANGED <<stored, xdr>>
serialize_to_bytes(v) ==
    LET s == from_host_val(DepthLimit, storage_key_conversion_active, v)
    IN  /\ Idle /\ xdr' = IF s = NoScVal THEN xdr ELSE s
        /\ DataAnswers(<<"serialize", v>>, IF s = NoScVal THEN Err ELSE Ok(Void))
        /\ UNCHANGED <<stored, storage_key_conversion_active>>
\* The environment hands the guest a buffer made elsewhere.
ReceiveBytes(s) ==
    /\ Idle /\ xdr' = s
    /\ DataAnswers(<<"receive">>, Ok(Void))
    /\ UNCHANGED <<stored, storage_key_conversion_active>>
\* can_represent_scval_recursive, then to_host_val.
RECURSIVE can_represent_scval_recursive(_)
can_represent_scval_recursive(s) ==
    /\ can_represent_scval(s)
    /\ s.type = "Vec" => \A i \in DOMAIN s.data : can_represent_scval_recursive(s.data[i])
    /\ s.type = "Map" => \A i \in DOMAIN s.data : \A j \in 1..2 :
                             can_represent_scval_recursive(s.data[i][j])
deserialize_from_bytes ==
    LET v == IF can_represent_scval_recursive(xdr) THEN to_host_val(DepthLimit, xdr) ELSE NoVal
    IN  /\ Idle /\ xdr # NoScVal
        /\ DataAnswers(<<"deserialize">>, IF v = NoVal THEN Err ELSE Ok(v))
        /\ UNCHANGED <<stored, xdr, storage_key_conversion_active>>

VecCalls ==
    \/ vec_new \/ vec_len \/ vec_pop_front \/ vec_pop_back \/ vec_front \/ vec_back
    \/ \E i \in Indices : vec_get(i) \/ vec_del(i)
    \/ \E i \in Indices, x \in Elements : vec_put(i, x) \/ vec_insert(i, x)
    \/ \E x \in Elements : \/ vec_push_front(x) \/ vec_push_back(x) \/ vec_first_index_of(x)
                           \/ vec_last_index_of(x) \/ vec_binary_search(x)
    \/ \E x \in Elements : vec_append(<<x, x>>)
    \/ \E i, j \in Indices : vec_slice(i, j)
MapCalls ==
    \/ map_new \/ map_len \/ map_keys \/ map_values
    \/ \E k \in Keys, v \in Payloads : map_put(k, v)
    \/ \E k \in Keys : map_get(k) \/ map_del(k) \/ map_has(k)
    \/ \E i \in Indices : map_key_by_pos(i) \/ map_val_by_pos(i)
BytesCalls ==
    \/ bytes_new \/ bytes_len \/ bytes_pop \/ bytes_front \/ bytes_back \/ bytes_to_string
    \/ \E i \in Indices : bytes_get(i) \/ bytes_del(i)
    \/ \E i \in Indices, u \in Bytes : bytes_put(i, u) \/ bytes_insert(i, u)
    \/ \E u \in Bytes : bytes_push(u)
    \/ \E u \in {b \in Bytes : u8_from_u32val_input(b)} : bytes_append(<<u.body, u.body>>)
    \/ \E i, j \in Indices : bytes_slice(i, j)
MemoryCalls ==
    \E pos, len \in Indices :
        \/ bytes_new_from_linear_memory(pos, len) \/ string_new_from_linear_memory(pos, len)
        \/ symbol_new_from_linear_memory(pos, len)
        \/ vec_new_from_linear_memory(pos, len) \/ vec_unpack_to_linear_memory(pos, len)
        \/ \E k \in Keys : k.kind = "Symbol" /\ symbol_index_in_linear_memory(k, pos, len)
        \/ \E p \in Indices : \/ memobj_copy_to_linear_memory(p, pos, len)
                              \/ bytes_copy_from_linear_memory(p, pos, len)
                              \/ map_new_from_linear_memory(p, pos, len)
                              \/ map_unpack_to_linear_memory(p, pos, len)
IntCalls ==
    \/ \E a, b \in Wide : /\ a.kind = b.kind
                          /\ \/ int256_add(a, b) \/ int256_sub(a, b) \/ int256_mul(a, b)
                             \/ int256_div(a, b) \/ int256_rem_euclid(a, b)
    \/ \E a \in Wide, p \in Exponents : int256_pow(a, p) \/ int256_shl(a, p) \/ int256_shr(a, p)
    \/ \E a \in Wide : int256_val_to_be_bytes(a)
    \/ \E a \in Compared : \/ obj_from_pieces(a) \/ \E i \in 1..4 : obj_to_pieces(a, i)
ObjCalls ==
    \E a \in Compared :
        \/ a.kind = "Bytes" /\ \E kind \in {"U256", "I256"} : int256_val_from_be_bytes(kind, a)
        \/ address_to_strkey(a) \/ strkey_to_address(a)
        \/ get_address_from_muxed_address(a) \/ get_id_from_muxed_address(a)
        \/ buf_len(a) \/ string_to_bytes(a)
DataCalls ==
    \/ \E a, b \in Compared : compare_vals(a, b)
    \/ \E k \in Slots, v \in Data : put_contract_data(k, v)
    \/ \E k \in Slots : get_contract_data(k)
    \/ \E v \in Data : serialize_to_bytes(v)
    \/ \E s \in Foreign : ReceiveBytes(s)
    \/ deserialize_from_bytes

Next == VecCalls \/ MapCalls \/ BytesCalls \/ MemoryCalls \/ IntCalls \/ ObjCalls \/ DataCalls

Spec == Init /\ [][Next]_vars
(***************************************************************************)
(* The values the representations stand for, and what the host promises.   *)
(***************************************************************************)
RECURSIVE Abs(_)
Abs(v) ==
    [type |-> get_scval_type(v.kind),
     is   |-> CASE v.kind \in NumKinds -> NumOf(v)
                [] v.kind = "Symbol" -> SymbolBytes(v)
                [] v.kind = "Vec" -> [i \in DOMAIN v.body |-> Abs(v.body[i])]
                [] v.kind = "Map" -> {<<Abs(e[1]), Abs(e[2])>> : e \in ToSet(v.body)}
                [] OTHER -> v.body]

RECURSIVE AbsSc(_)
AbsSc(s) ==
    [type |-> s.type,
     is   |-> CASE s.type \in SignedKinds -> i256_from_pieces(s.data)
                [] s.type \in NumKinds -> u256_from_pieces(s.data)
                [] s.type = "Vec" -> [i \in DOMAIN s.data |-> AbsSc(s.data[i])]
                [] s.type = "Map" -> {<<AbsSc(e[1]), AbsSc(e[2])>> : e \in ToSet(s.data)}
                [] OTHER -> s.data]

Order == INSTANCE ValueOrder WITH Types <- ScValTypes

RECURSIVE WellFormed(_)
\* An ScVal that stands for a value.
WellFormed(s) ==
    CASE s.type = "Symbol" -> Len(s.data) <= SymbolLimit /\ ValidChars(s.data)
      [] s.type = "Vec" -> \A i \in DOMAIN s.data : WellFormed(s.data[i])
      [] s.type = "Map" -> /\ \A i \in DOMAIN s.data, j \in 1..2 : WellFormed(s.data[i][j])
                           /\ \A i \in 1..(Len(s.data) - 1) :
                                 Order!Precedes(AbsSc(s.data[i][1]), AbsSc(s.data[i + 1][1]))
      [] s.type = "Address" -> s.data[1] \in {AccountAddress, ContractAddress, MuxedAccount}
      [] OTHER -> can_represent_scval(s)

AbsCall == [i \in DOMAIN call |-> IF i = 1 THEN call[1] ELSE Abs(call[i])]
AbsRet == [ok |-> ret.ok, val |-> Abs(ret.val)]
AbsStored ==
    [k \in {AbsSc(x) : x \in DOMAIN stored} |-> AbsSc(stored[CHOOSE x \in DOMAIN stored : AbsSc(x) = k])]

AbsXdr ==
    LET good == WellFormed(xdr)
    IN  [wellformed |-> good, val |-> IF good THEN AbsSc(xdr) ELSE Abs(Void)]

C == INSTANCE Collections
    WITH obj <- Abs(reg), memory <- mem, ledger <- AbsStored, xdr <- AbsXdr,
         strict <- storage_key_conversion_active, call <- AbsCall, ret <- AbsRet,
         Types <- ScValTypes, Limit <- U32Max, MaxByte <- U8Max, MaxSymbol <- SymbolLimit,
         Chars <- DOMAIN CodeOf, IntBits <- Bits256, Depth <- DepthLimit

\* Every call does what the abstract values promise, whatever mixture of
\* small values and objects represents them: vectors are sequences, maps
\* are functions enumerated in key order, calls on memory stay inside it,
\* and stored and serialised values are read back unchanged.
RefinesCollections == C!Spec

\* The host orders values as the ledger orders what they convert to: a map
\* key or storage key sorted on one side is sorted on the other.
OrderAgrees ==
    [][call'[1] = "cmp" =>
        LET a == from_host_val(DepthLimit, FALSE, call'[2])
            b == from_host_val(DepthLimit, FALSE, call'[3])
        IN  NoScVal \notin {a, b} =>
                /\ compare_scval(DepthLimit, a, b) = ret'.val.body
                /\ (a = b) = (ret'.val.body = Equal)]_vars

\* "But it can be used as a value": a muxed address is refused in storage
\* keys only, so a value that converted once converts again.
KeyRulesOnlyForKeys ==
    call[1] = "serialize" =>
        ret.ok = (from_host_val(DepthLimit, FALSE, call[2]) # NoScVal)

=============================================================================
