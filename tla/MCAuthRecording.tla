--------------------------- MODULE MCAuthRecording ---------------------------
(***************************************************************************)
(* Instances of AuthRecording: ca, cb and cd are contracts, ca also as an  *)
(* address; h1 and h2 are two objects with the user's address.             *)
(***************************************************************************)
EXTENDS AuthRecording, TLC

CONSTANTS ca, cb, cd, user, h1, h2, h3

MCAddressOf == [h \in Handles |-> IF h = h3 THEN ca ELSE user]

World(u, c) == [a \in {user, ca} |-> IF a = user THEN u ELSE c]

MCWorlds == {World("account", "wasm"), World("source", "asset")}

(* cb and cd, and the user's two objects, are interchangeable.             *)
MCSymmetry == Permutations({cb, cd}) \union Permutations({h1, h2})
=============================================================================
