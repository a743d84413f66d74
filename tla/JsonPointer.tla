----------------------------- MODULE JsonPointer -----------------------------
(***************************************************************************)
(* json_pointer of src/include/json.hpp: a path as text, the tokens it     *)
(* stands for, and the ways to follow it into a value.  A text is the      *)
(* sequence of its bytes.  What is thrown is its number, 0 for none and a  *)
(* negative one for an exception of the standard library, a failed         *)
(* assertion, or an index out of bounds that is not looked at.             *)
(***************************************************************************)
EXTENDS JsonTree

InvalidArgument == -1
StdOutOfRange == -2
LengthError == -3
Asserted == -4
OutOfBounds == -5

Slash == 47
Tilde == 126
Zero == <<48>>
Dash == <<45>>

Digits == 48 .. 57
Spaces == {9, 10, 11, 12, 13, 32}

-----------------------------------------------------------------------------
(* replace_substring: f is looked for again after what has replaced it. *)
RECURSIVE Replaced(_, _, _)
Replaced(s, f, t) ==
    IF Len(s) < Len(f) THEN s
    ELSE IF IsPrefix(f, s) THEN t \o Replaced(SubSeq(s, Len(f) + 1, Len(s)), f, t)
    ELSE <<Head(s)>> \o Replaced(Tail(s), f, t)

escape(s) == Replaced(Replaced(s, <<Tilde>>, <<Tilde, 48>>), <<Slash>>, <<Tilde, 49>>)

\* Mistake: the other order.
UnescapeTildeFirst(s) ==
    Replaced(Replaced(s, <<Tilde, 48>>, <<Tilde>>), <<Tilde, 49>>, <<Slash>>)

unescape(s) == Replaced(Replaced(s, <<Tilde, 49>>, <<Slash>>), <<Tilde, 48>>, <<Tilde>>)

Below(path, token) == path \o <<Slash>> \o token

RECURSIVE Parts(_)
Parts(s) ==
    IF Slash \notin Range(s) THEN <<s>>
    ELSE LET n == CHOOSE k \in DOMAIN s : s[k] = Slash /\ Slash \notin Range(SubSeq(s, 1, k - 1))
         IN  <<SubSeq(s, 1, n - 1)>> \o Parts(SubSeq(s, n + 1, Len(s)))

(* split: the tokens of a reference string, or what is thrown. *)
BadEscape(t) == \E k \in DOMAIN t : /\ t[k] = Tilde
                                    /\ k = Len(t) \/ t[k + 1] \notin {48, 49}
Tokens(parts) ==
    IF \E i \in DOMAIN parts : BadEscape(parts[i]) THEN [tokens |-> <<>>, error |-> 108]
    ELSE [tokens |-> [i \in DOMAIN parts |-> unescape(parts[i])], error |-> 0]
split(s) ==
    CASE s = <<>> -> [tokens |-> <<>>, error |-> 0]
      [] s # <<>> /\ Head(s) # Slash -> [tokens |-> <<>>, error |-> 107]
      [] OTHER -> Tokens(Parts(Tail(s)))

-----------------------------------------------------------------------------
(***************************************************************************)
(* std::stoi: the digits at the start, after white space and a sign,       *)
(* whatever follows them; ten digits and more are taken for too many.      *)
(***************************************************************************)
RECURSIVE Stripped(_)
Stripped(t) == IF t # <<>> /\ Head(t) \in Spaces THEN Stripped(Tail(t)) ELSE t
LeadingDigits(t) == SubSeq(t, 1, CHOOSE k \in 0 .. Len(t) :
                                    /\ \A i \in 1 .. k : t[i] \in Digits
                                    /\ k < Len(t) => t[k + 1] \notin Digits)
Number(negative, ds) ==
    LET n == FoldLeft(LAMBDA m, d : 10 * m + (d - 48), 0, ds)
    IN  CASE ds = <<>> -> [value |-> 0, error |-> InvalidArgument]
          [] Len(ds) > 9 -> [value |-> 0, error |-> StdOutOfRange]
          [] OTHER -> [value |-> IF negative THEN -n ELSE n, error |-> 0]
Signless(t) == IF t # <<>> /\ Head(t) \in {43, 45} THEN Tail(t) ELSE t
stoi(token) ==
    Number(IsPrefix(Dash, Stripped(token)), LeadingDigits(Signless(Stripped(token))))

RECURSIVE to_string(_)
to_string(i) == IF i < 10 THEN <<48 + i>> ELSE to_string(i \div 10) \o <<48 + (i % 10)>>

-----------------------------------------------------------------------------
(***************************************************************************)
(* One token of a path: the value it is followed in, which some ways of    *)
(* following it change, and where in it the path goes on.                  *)
(***************************************************************************)
Goes(node, key) == [node |-> node, key |-> key, error |-> 0]
Stops(node, id) == [node |-> node, key |-> 0, error |-> id]

Named(node, token) ==
    Goes(ObjectOf(IF token \in DOMAIN Members(node) THEN Members(node)
                  ELSE With(Members(node), token, Null)), token)
(* A negative index is a huge one; -1 adds 2^64 - size nulls, or none. *)
Numbered(node, n) ==
    IF n = -1 /\ Elements(node) = <<>> THEN Stops(node, OutOfBounds)
    ELSE IF n < 0 THEN Stops(node, LengthError)
    ELSE Goes(ArrayOf(Filled(Elements(node), n)), n + 1)

(* The number an array's token is, or what is thrown for it. *)
IntIndex(number) ==
    IF number.error = InvalidArgument THEN [value |-> 0, error |-> 109] ELSE number
Index(token) ==
    IF Len(token) > 1 /\ Head(token) = 48 THEN [value |-> 0, error |-> 106]
    ELSE IntIndex(stoi(token))

InRange(es, n) == n \in 0 .. (Len(es) - 1)

(* get_checked: what is not there is not made. *)
Element401(node, index) ==
    IF index.error # 0 THEN Stops(node, index.error)
    ELSE IF InRange(node.elements, index.value) THEN Goes(node, index.value + 1)
    ELSE Stops(node, 401)
CheckedStep(node, token) ==
    CASE TypeOfTree(node) = "object" ->
           IF token \in DOMAIN node.members THEN Goes(node, token) ELSE Stops(node, 403)
      [] TypeOfTree(node) = "array" ->
           IF token = Dash THEN Stops(node, 402) ELSE Element401(node, Index(token))
      [] OTHER -> Stops(node, 404)

(* get_unchecked: null becomes an array or an object, - is a new element. *)
NewElement(node, index) ==
    IF index.error # 0 THEN Stops(node, index.error) ELSE Numbered(node, index.value)
IsArrayFor(node, becomes) == TypeOfTree(node) = "array" \/ (node = Null /\ becomes)
UncheckedStep(node, token) ==
    IF IsArrayFor(node, token = Dash \/ Range(token) \subseteq Digits)
    THEN IF token = Dash THEN Numbered(node, Len(Elements(node)))
         ELSE NewElement(node, Index(token))
    ELSE IF TypeOfTree(node) \in {"null", "object"} THEN Named(node, token)
    ELSE Stops(node, 404)

(* get_and_create *)
CreatingStep(node, token) ==
    IF IsArrayFor(node, token = Zero) THEN NewElement(node, IntIndex(stoi(token)))
    ELSE IF TypeOfTree(node) \in {"null", "object"} THEN Named(node, token)
    ELSE Stops(node, 313)

-----------------------------------------------------------------------------
(* The value at a path of names and positions that is there. *)
At(doc, path) ==
    FoldLeft(LAMBDA node, k : IF node.kind = "object" THEN node.members[k] ELSE node.elements[k],
             doc, path)

RECURSIVE Put(_, _, _)
Put(doc, path, v) ==
    IF path = <<>> THEN v
    ELSE IF doc.kind = "object"
         THEN ObjectOf([doc.members EXCEPT ![Head(path)] = Put(@, Tail(path), v)])
         ELSE ArrayOf([doc.elements EXCEPT ![Head(path)] = Put(@, Tail(path), v)])

(* All tokens of a pointer: the document, and where the pointer is in it. *)
Extended(s, r) ==
    IF r.error # 0 THEN [s EXCEPT !.error = r.error]
    ELSE [doc |-> Put(s.doc, s.path, r.node), path |-> Append(s.path, r.key), error |-> 0]
Follow(doc, tokens, Step(_, _)) ==
    FoldLeft(LAMBDA s, token :
               IF s.error # 0 THEN s ELSE Extended(s, Step(At(s.doc, s.path), token)),
             [doc |-> doc, path |-> <<>>, error |-> 0], tokens)
Checked(doc, tokens) == Follow(doc, tokens, CheckedStep)
Unchecked(doc, tokens) == Follow(doc, tokens, UncheckedStep)
Created(doc, tokens) == Follow(doc, tokens, CreatingStep)

-----------------------------------------------------------------------------
(***************************************************************************)
(* flatten: an object of one member for each value that holds no others,   *)
(* named by the path to it; unflatten makes the value from such an object. *)
(***************************************************************************)
RECURSIVE Flat(_, _)
Flat(path, t) ==
    CASE TypeOfTree(t) = "array" /\ t.elements # <<>> ->
           UNION {Flat(Below(path, to_string(i - 1)), t.elements[i]) : i \in DOMAIN t.elements}
      [] TypeOfTree(t) = "object" /\ DOMAIN t.members # {} ->
           UNION {Flat(Below(path, escape(k)), t.members[k]) : k \in DOMAIN t.members}
      [] TypeOfTree(t) \in {"array", "object"} /\ Elements(t) = <<>> /\ DOMAIN Members(t) = {} ->
           {<<path, Null>>}
      [] OTHER -> {<<path, t>>}
flatten(t) ==
    LET flat == Flat(<<>>, t)
    IN  ObjectOf([p \in {f[1] : f \in flat} |-> (CHOOSE f \in flat : f[1] = p)[2]])

Assigned(s, v) ==
    IF s.error # 0 THEN [doc |-> Null, error |-> s.error]
    ELSE [doc |-> Put(s.doc, s.path, v), error |-> 0]
Unflattened(doc, reference, v) ==
    IF TypeOfTree(v) \in {"array", "object"} THEN [doc |-> Null, error |-> 315]
    ELSE IF reference.error # 0 THEN [doc |-> Null, error |-> reference.error]
    ELSE Assigned(Created(doc, reference.tokens), v)
unflatten(t) ==
    IF TypeOfTree(t) # "object" THEN [doc |-> Null, error |-> 314]
    ELSE FoldLeft(LAMBDA s, p :
                    IF s.error # 0 THEN s ELSE Unflattened(s.doc, split(p), t.members[p]),
                  [doc |-> Null, error |-> 0], InOrder(DOMAIN t.members))
=============================================================================
