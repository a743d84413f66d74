----------------------------- MODULE MCJsonValue -----------------------------
(* Values JsonValue and JsonLaws are checked with. *)
EXTENDS JsonLaws

(* A name that is a number, and one that looks like an escaped slash. *)
MCZero == <<48>>
MCEscaped == <<126, 49>>
MCKeys == {MCZero, MCEscaped}
MCTexts == {<<>>, MCZero}

MCScalars == {Null, json("number_integer", -1)}

(***************************************************************************)
(* Numbers that are the same as others once they are cast: 7 is -1 as an   *)
(* integer, and 8 when two bits hold it.                                   *)
(***************************************************************************)
MCNumbers ==
    {json("number_integer", -1), json("number_integer", 3), json("number_unsigned", 3),
     json("number_unsigned", 7), json("number_float", 8), json("number_float", -1),
     json("number_float", NaN)}

MCPaths == {<<>>, <<MCZero>>, <<<<49>>>>, <<Dash>>, <<MCEscaped>>, <<<<>>>>, <<MCZero, MCZero>>,
            <<MCEscaped, MCZero>>, <<MCZero, MCEscaped>>, <<MCEscaped, MCEscaped>>}

MCSymmetry == Permutations(Names)

(* What the addresses are makes no difference, once each has its owner. *)
MCView == <<[i \in Names |-> TreeOf(heap, vals[i])], OwnedOnce>>
=============================================================================
