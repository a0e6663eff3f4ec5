---------------------------- MODULE MCContainers ----------------------------
(***************************************************************************)
(* A small instance: words of 3 bits, bodies of 2, symbol codes of 2, so   *)
(* that numbers and symbols are small or objects on either side of a       *)
(* boundary a few values reach.                                            *)
(***************************************************************************)
EXTENDS Containers, TLC

MCCodeOf == 5 :> 2 @@ 6 :> 1 @@ 7 :> 3

\* No call depends on the call before it: states are told apart by the rest.
State == <<reg, mem, aside, memory_calls>>

Sym(bytes) == SymbolFromBytes(bytes)
SymObj(bytes) == Obj("Symbol", bytes)
Account == Obj("Address", <<0, 1, 0>>)
Contract == Obj("Address", <<1, 1, 0>>)
Muxed == Obj("Muxed", <<2, 1, 1>>)
Vec(s) == Obj("Vec", s)
Small(kind, b) == [kind |-> kind, obj |-> FALSE, body |-> b]

MCMemory == <<6, 1, 7, 1, 4, 3, 5, 7>>
MCDataStarts == {<<Void, <<>> >>}
MCStarts ==
    { <<Vec(<<>>), <<>> >>, <<Obj("Map", <<>>), <<>> >>, <<Obj("Bytes", <<>>), <<>> >>,
      <<Void, <<>> >>,
      <<Vec(<<U32Val(1), Small("I32", 2)>>), MCMemory>>,
      <<Obj("Bytes", <<5, 6, 7>>), MCMemory>>, <<SymObj(<<5, 6, 7>>), MCMemory>>,
      <<Obj("Map", << <<Sym(<<5>>), U32Val(2)>>, <<SymObj(<<5, 6, 7>>), U32Val(1)>> >>), MCMemory>>,
      <<Obj("Map", << <<Sym(<<5>>), U32Val(2)>>, <<Sym(<<7>>), U32Val(1)>> >>), MCMemory>> }

MCElements == {U32Val(1), NumVal("U64", 5), NumVal("I64", -1), SymObj(<<5>>), Sym(<<6>>)}
MCKeys == {Sym(<<5>>), SymObj(<<5>>), Sym(<<7, 5>>), SymObj(<<5, 6, 7>>), Vec(<<U32Val(1)>>)}
MCPayloads == {U32Val(1), Void}
MCBytes == {U32Val(0), U32Val(7), U32Val(8)}
MCIndices == {U32Val(i) : i \in {0, 1, 2, 3, 5, 8}}
MCCompared ==
    {Void, Bool(FALSE), Bool(TRUE), Small("Error", <<1, 0>>), Small("Error", <<0, 1>>),
     U32Val(1), Small("I32", -1), NumVal("U64", 1), NumVal("U64", 5), NumVal("I64", -1),
     NumVal("I64", -3), NumVal("I64", 3), Obj("I64", -1), NumVal("Timepoint", 6),
     NumVal("I128", -1), NumVal("I128", -9), NumVal("U256", 70), NumVal("I256", 40),
     Sym(<<>>), Sym(<<5>>), Sym(<<6, 5>>), Sym(<<7>>), SymObj(<<5>>), SymObj(<<5, 6, 7>>), SymObj(<<6, 5>>),
     Obj("Bytes", <<5>>), Obj("Bytes", <<>>), Obj("String", <<5, 6>>), Account, Contract, Muxed,
     Obj("Bytes", <<7, 7, 0, 1>>), Obj("Bytes", <<2, 1, 1, 1>>), Obj("String", <<1, 3>>), Obj("Bytes", <<2, 3>>),
     Vec(<<>>), Vec(<<NumVal("I64", -1), U32Val(1)>>), Vec(<<Obj("I64", -1)>>),
     Vec(<<Vec(<<Vec(<<Vec(<<>>)>>)>>)>>), Vec(<<Vec(<<Vec(<<Void>>)>>)>>),
     Obj("Map", << <<Sym(<<5>>), U32Val(2)>> >>),
     Obj("Map", << <<SymObj(<<5>>), U32Val(1)>>, <<SymObj(<<5, 6, 7>>), Void>> >>)}
MCWide == {NumVal("U256", n) : n \in {0, 1, 3, 4, 64, 4095}}
          \cup {NumVal("I256", n) : n \in {-2048, -7, -2, -1, 0, 1, 2, 3, 2047}} \cup {Obj("I256", -1)}
MCExponents == {U32Val(n) : n \in {0, 1, 2, 11, 12}}
MCSlots == {Sym(<<5>>), SymObj(<<5>>), NumVal("I128", -5), Vec(<<Muxed>>)}
MCData == {Muxed, NumVal("I256", -70), Vec(<<Vec(<<Void>>)>>), Vec(<<Vec(<<Vec(<<>>)>>)>>),
           Obj("Map", << <<SymObj(<<5>>), NumVal("U64", 3)>> >>)}
MCForeign ==
    LET sc(t, b) == [type |-> t, data |-> b]
        key(b) == << sc("Symbol", b), sc("Void", 0) >>
    IN  {sc("VecNone", <<>>), sc("Map", <<key(<<5>>), key(<<6>>)>>), sc("Map", <<key(<<6>>), key(<<5>>)>>),
         sc("Map", <<key(<<5>>), key(<<5>>)>>), sc("Map", <<key(<<5>>), key(<<5, 6, 7>>), key(<<7>>)>>),
         sc("Symbol", <<4>>), sc("Address", <<3, 1, 0>>), sc("Symbol", <<5, 6, 7, 5>>), sc("Vec", <<sc("VecNone", <<>>)>>),
         sc("Vec", <<sc("Vec", <<sc("Vec", <<>>)>>)>>), sc("Vec", <<sc("Vec", <<sc("Vec", <<sc("Vec", <<>>)>>)>>)>>),
         sc("I256", <<-1, 7, 7, 6>>), sc("I128", <<0, 7>>), sc("U64", <<3>>), sc("U64", <<4>>)}
=============================================================================
