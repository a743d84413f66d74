---------------------------- MODULE JsonDocuments ----------------------------
(***************************************************************************)
(* Which sequences of tokens are JSON documents, and what each of them     *)
(* means: the grammar of RFC 7159 over spans of tokens, with the rule that *)
(* the last of several members of one name counts.                         *)
(***************************************************************************)
EXTENDS JsonTree

Token(type, text) == [type |-> type, text |-> text]
Simple(type) == Token(type, "")

(* A text that is none: what the lexer refuses or cannot convert. *)
Unusable == {"bad", "infinite", "discarded"}

LiteralValue ==
    [t \in {"literal_null", "literal_true", "literal_false"} |->
       CASE t = "literal_null" -> Null
         [] t = "literal_true" -> json("boolean", 1)
         [] t = "literal_false" -> json("boolean", 0)]

(* A number keeps the type it was found to have; which one it is does not matter. *)
NumberValue ==
    [t \in {"value_unsigned", "value_integer", "value_float"} |->
       json(CASE t = "value_unsigned" -> "number_unsigned"
              [] t = "value_integer" -> "number_integer"
              [] t = "value_float" -> "number_float", 1)]

-----------------------------------------------------------------------------
Opening == {"begin_array", "begin_object"}
Closing == {"end_array", "end_object"}

(* How many brackets are open after the first i tokens of s. *)
Nesting(s, i) ==
    Cardinality({k \in 1 .. i : s[k].type \in Opening})
      - Cardinality({k \in 1 .. i : s[k].type \in Closing})

(* The spans between the commas of doc[i .. j] that are in no bracket of it. *)
Parts(doc, i, j) ==
    LET commas == {k \in i .. j : /\ doc[k].type = "value_separator"
                                  /\ Nesting(doc, k) = Nesting(doc, i - 1)}
        cuts == SetToSortSeq(commas \cup {i - 1, j + 1}, <)
    IN  [n \in 1 .. (Len(cuts) - 1) |-> <<cuts[n] + 1, cuts[n + 1] - 1>>]

ScalarTrees(t) ==
    CASE t.text \in Unusable -> {}
      [] t.type = "value_string" /\ t.text \notin Unusable -> {StringOf(t.text)}
      [] t.type \in DOMAIN LiteralValue -> {LiteralValue[t.type]}
      [] t.type \in DOMAIN NumberValue /\ t.text \notin Unusable -> {NumberValue[t.type]}
      [] OTHER -> {}

(* The trees doc may mean: one if it is a value, none if it is not. *)
TreesOf(doc) ==
    LET Encloses(i, j, open, close) ==
            i < j /\ doc[i].type = open /\ doc[j].type = close
        Named(a, b) ==
            /\ a + 2 <= b
            /\ doc[a].type = "value_string" /\ doc[a].text \notin Unusable
            /\ doc[a + 1].type = "name_separator"
        Mean[p \in (1 .. Len(doc) + 1) \X (0 .. Len(doc))] ==
            LET i == p[1]
                j == p[2]
                parts == IF i + 1 < j THEN Parts(doc, i + 1, j - 1) ELSE <<>>
                name(k) == doc[parts[k][1]].text
                value(k) == Mean[<<parts[k][1] + 2, parts[k][2]>>]
                last(key) == CHOOSE k \in DOMAIN parts :
                                /\ name(k) = key
                                /\ \A l \in DOMAIN parts : name(l) = key => l <= k
                The(S) == CHOOSE x \in S : TRUE
            IN  CASE i > j -> {}
                  [] i = j -> ScalarTrees(doc[i])
                  [] Encloses(i, j, "begin_array", "end_array") ->
                       IF \A k \in DOMAIN parts : Mean[parts[k]] # {}
                       THEN {ArrayOf([k \in DOMAIN parts |-> The(Mean[parts[k]])])}
                       ELSE {}
                  [] Encloses(i, j, "begin_object", "end_object") ->
                       IF \A k \in DOMAIN parts :
                             Named(parts[k][1], parts[k][2]) /\ value(k) # {}
                       THEN {ObjectOf([key \in {name(k) : k \in DOMAIN parts} |->
                                         The(value(last(key)))])}
                       ELSE {}
                  [] OTHER -> {}
    IN  Mean[<<1, Len(doc)>>]

(* A document is a value, and nothing after it. *)
Documents(s) ==
    IF s # <<>> /\ Last(s).type = "end_of_input" THEN TreesOf(Front(s)) ELSE {}

(* The brackets that are still open, closed from the inside. *)
Closers(s) ==
    LET Open[i \in 0 .. Len(s)] ==
            IF i = 0 THEN <<>>
            ELSE CASE s[i].type = "begin_array" -> <<Simple("end_array")>> \o Open[i - 1]
                   [] s[i].type = "begin_object" -> <<Simple("end_object")>> \o Open[i - 1]
                   [] s[i].type \in Closing /\ Open[i - 1] # <<>> -> Tail(Open[i - 1])
                   [] OTHER -> Open[i - 1]
    IN  Open[Len(s)]

(* If s begins a document, it begins one of these. *)
Completions(s) ==
    LET v == <<Simple("literal_null")>>
        colon == <<Simple("name_separator")>>
        k == <<Token("value_string", "a")>>
    IN  {s} \cup {s \o f \o Closers(s) \o <<Simple("end_of_input")>> :
                    f \in {<<>>, v, colon \o v, k \o colon \o v}}
=============================================================================
