----------------------------- MODULE HostObjects -----------------------------
(***************************************************************************)
(* Host objects and the handles guests use for them (host_object.rs).      *)
(*                                                                         *)
(* A value is [tag, handle]; values with tag "Small" are not objects.  An  *)
(* odd handle is absolute, an index into the host's objects; an even one   *)
(* is relative, an index into the running frame's relative_objects, which  *)
(* holds absolute values.  An object is [tag, kids], kids the absolute     *)
(* values it contains.                                                     *)
(***************************************************************************)
EXTENDS Integers, Sequences

CONSTANT HandleSpace \* 2^32: index_to_handle shifts within 32 bits

ASSUME HandleAssumption == HandleSpace \in Nat \ {0}

Small == [tag |-> "Small", handle |-> 0]

is_relative_object_handle(handle) == handle % 2 = 0

handle_to_index(handle) == handle \div 2

index_to_handle(index, relative) ==
    ((2 * index) % HandleSpace) + (IF relative THEN 0 ELSE 1)

(* Mutant: an absolute handle is taken as it is.                           *)
relative_to_absolute_trusting(rel, v) ==
    LET index == handle_to_index(v.handle)
    IN  IF v.tag = "Small" \/ ~is_relative_object_handle(v.handle) THEN [v |-> v, err |-> "Ok"]
        ELSE IF index >= Len(rel) \/ (index < Len(rel) /\ rel[index + 1].tag # v.tag)
             THEN [v |-> Small, err |-> "InvalidInput"]
        ELSE [v |-> rel[index + 1], err |-> "Ok"]

relative_to_absolute(rel, v) ==
    LET index == handle_to_index(v.handle)
    IN  IF v.tag = "Small" THEN [v |-> v, err |-> "Ok"]
        ELSE IF \/ ~is_relative_object_handle(v.handle)
                \/ index >= Len(rel)
                \/ index < Len(rel) /\ rel[index + 1].tag # v.tag
             THEN [v |-> Small, err |-> "InvalidInput"]
        ELSE [v |-> rel[index + 1], err |-> "Ok"]

(* absolute_to_relative, after its charge: the table after and the value.  *)
absolute_to_relative(rel, v) ==
    IF v.tag = "Small" THEN [rel |-> rel, v |-> v, err |-> "Ok"]
    ELSE IF is_relative_object_handle(v.handle)
         THEN [rel |-> rel, v |-> Small, err |-> "InternalError"]
    ELSE [rel |-> Append(rel, v), err |-> "Ok",
          v |-> [tag |-> v.tag, handle |-> index_to_handle(Len(rel), TRUE)]]

(* visit_obj_untyped, after its charge.                                    *)
visit_obj(objs, v) ==
    IF is_relative_object_handle(v.handle) THEN [obj |-> Small, err |-> "InternalError"]
    ELSE IF handle_to_index(v.handle) >= Len(objs) THEN [obj |-> Small, err |-> "InvalidInput"]
    ELSE LET obj == objs[handle_to_index(v.handle) + 1]
         IN  [obj |-> obj, err |-> IF obj.tag = v.tag THEN "Ok" ELSE "InternalError"]

(* The value add_host_object returns for a new object.                     *)
new_from_handle(objs, tag) == [tag |-> tag, handle |-> index_to_handle(Len(objs), FALSE)]

(* What the object of an absolute value contains.                          *)
Kids(objs, v) ==
    IF v.tag = "Small" \/ is_relative_object_handle(v.handle)
       \/ handle_to_index(v.handle) >= Len(objs) THEN {}
    ELSE {objs[handle_to_index(v.handle) + 1].kids[i] :
            i \in DOMAIN objs[handle_to_index(v.handle) + 1].kids}

(* What can be reached from the values in S.                               *)
Reachable(objs, S) ==
    LET Step(R) == R \union UNION {Kids(objs, v) : v \in R}
        reach[n \in 0..Len(objs)] == IF n = 0 THEN S ELSE Step(reach[n - 1])
    IN  reach[Len(objs)] \ {Small}
=============================================================================
