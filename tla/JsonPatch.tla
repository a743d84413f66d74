------------------------------ MODULE JsonPatch ------------------------------
(***************************************************************************)
(* patch and diff of src/include/json.hpp.  A patch is an array of         *)
(* objects with the members op, path, value and from; op is one of the     *)
(* names of RFC 6902, the texts of path and from are sequences of bytes.   *)
(***************************************************************************)
EXTENDS JsonPointer, JsonOrder

Done(doc) == [doc |-> doc, error |-> 0]
Raised(doc, id) == [doc |-> doc, error |-> id]

(* The second, unless the first has thrown. *)
Then(first, second) == IF first.error # 0 THEN Raised(first.doc, first.error) ELSE second

-----------------------------------------------------------------------------
\* Mistake: the index must be of an element that is there.
InsertedBelowSize(r, es, number, v) ==
    IF number.error # 0 THEN Raised(r.doc, number.error)
    ELSE IF number.value \notin 0 .. (Len(es) - 1) THEN Raised(r.doc, 401)
    ELSE Done(Put(r.doc, r.path, ArrayOf(InsertAt(es, number.value + 1, v))))

Inserted(r, es, number, v) ==
    IF number.error # 0 THEN Raised(r.doc, number.error)
    ELSE IF number.value \notin 0 .. Len(es) THEN Raised(r.doc, 401)
    ELSE Done(Put(r.doc, r.path, ArrayOf(InsertAt(es, number.value + 1, v))))

(* operation_add, into the parent that the path without its end leads to. *)
AddTo(r, parent, token, v) ==
    CASE TypeOfTree(parent) \in {"null", "object"} ->
           Done(Put(r.doc, r.path, ObjectOf(With(Members(parent), token, v))))
      [] TypeOfTree(parent) = "array" ->
           IF token = Dash THEN Done(Put(r.doc, r.path, ArrayOf(Append(parent.elements, v))))
           ELSE Inserted(r, parent.elements, stoi(token), v)
      [] OTHER -> Raised(r.doc, Asserted)
AddAt(r, token, v) == Then(r, AddTo(r, At(r.doc, r.path), token, v))
operation_add(doc, tokens, v) ==
    IF tokens = <<>> THEN Done(v)
    ELSE Then(IF Len(tokens) > 1 THEN Checked(doc, SubSeq(tokens, 1, 1)) ELSE Done(doc),
              AddAt(Unchecked(doc, Front(tokens)), Last(tokens), v))

(* operation_remove: nothing is removed from what is no container. *)
Erased(r, es, number) ==
    IF number.error # 0 THEN Raised(r.doc, number.error)
    ELSE IF ~InRange(es, number.value) THEN Raised(r.doc, 401)
    ELSE Done(Put(r.doc, r.path, ArrayOf(RemoveAt(es, number.value + 1))))
RemoveFrom(r, parent, token) ==
    CASE TypeOfTree(parent) = "object" ->
           IF token \notin DOMAIN parent.members THEN Raised(r.doc, 403)
           ELSE Done(Put(r.doc, r.path, ObjectOf([k \in DOMAIN parent.members \ {token}
                                                    |-> parent.members[k]])))
      [] TypeOfTree(parent) = "array" -> Erased(r, parent.elements, stoi(token))
      [] OTHER -> Done(r.doc)
RemoveAfter(r, token) == Then(r, RemoveFrom(r, At(r.doc, r.path), token))
operation_remove(doc, tokens) ==
    IF tokens = <<>> THEN Raised(doc, 405)
    ELSE RemoveAfter(Checked(doc, Front(tokens)), Last(tokens))

AssignTo(r, v) == Then(r, Done(Put(r.doc, r.path, v)))
operation_replace(doc, tokens, v) == AssignTo(Checked(doc, tokens), v)

MoveFrom(r, removed, tokens) ==
    Then(r, Then(removed, operation_add(removed.doc, tokens, At(r.doc, r.path))))
operation_move(doc, from, tokens) ==
    MoveFrom(Checked(doc, from), operation_remove(doc, from), tokens)

(* result[ptr] = result.at(from_ptr), whichever of the two is made first. *)
CopyFrom(target, source) == Then(source, AssignTo(target, At(source.doc, source.path)))
CopyInto(target, from) == Then(target, CopyFrom(target, Checked(target.doc, from)))
operation_copy(doc, from, tokens) ==
    {CopyFrom(Unchecked(doc, tokens), Checked(doc, from)), CopyInto(Unchecked(doc, tokens), from)}

(* An out_of_range is a test that fails, another exception goes on. *)
TestOf(r, v) ==
    IF r.error # 0 /\ r.error \notin 401 .. 404 THEN Raised(r.doc, r.error)
    ELSE IF r.error = 0 /\ Equal(At(r.doc, r.path), v) THEN Done(r.doc)
    ELSE Raised(r.doc, 501)
operation_test(doc, tokens, v) == TestOf(Checked(doc, tokens), v)

(* Without a value: the path may be followed before this is noticed. *)
Unvalued(r, op) ==
    {Raised(r.doc, 105)}
      \cup CASE op = "replace" /\ r.error # 0 -> {Raised(r.doc, r.error)}
             [] op = "test" /\ r.error # 0 -> {TestOf(r, Null)}
             [] OTHER -> {}

-----------------------------------------------------------------------------
(* What an operation needs, besides op and path. *)
Needs(op) == CASE op \in {"add", "replace", "test"} -> {"value"}
               [] op \in {"move", "copy"} -> {"from"}
               [] OTHER -> {}
Texts6902 == {"op", "path", "from"}
Missing(val, member) ==
    \/ member \notin DOMAIN val.members
    \/ member \in Texts6902 /\ TypeOfTree(val.members[member]) # "string"

(* One object of a patch: the set of what it may come to. *)
Performed(doc, val, op, path, from) ==
    IF path.error # 0 THEN {Raised(doc, path.error)}
    ELSE IF \E m \in Needs(op) : Missing(val, m) THEN Unvalued(Checked(doc, path.tokens), op)
    ELSE IF "from" \in Needs(op) /\ from.error # 0 THEN {Raised(doc, from.error)}
    ELSE CASE op = "add" -> {operation_add(doc, path.tokens, val.members["value"])}
           [] op = "remove" -> {operation_remove(doc, path.tokens)}
           [] op = "replace" -> {operation_replace(doc, path.tokens, val.members["value"])}
           [] op = "move" -> {operation_move(doc, from.tokens, path.tokens)}
           [] op = "copy" -> operation_copy(doc, from.tokens, path.tokens)
           [] op = "test" -> {operation_test(doc, path.tokens, val.members["value"])}
           [] OTHER -> {Raised(doc, 105)}
Applied(doc, val) ==
    IF TypeOfTree(val) # "object" THEN {Raised(doc, 104)}
    ELSE IF Missing(val, "op") \/ Missing(val, "path") THEN {Raised(doc, 105)}
    ELSE Performed(doc, val, val.members["op"].text, split(val.members["path"].text),
                   split(val.members["from"].text))

(* patch: the first operation that throws is the last. *)
patch(doc, json_patch) ==
    IF TypeOfTree(json_patch) # "array" THEN {Raised(doc, 104)}
    ELSE FoldLeft(LAMBDA results, val :
                    UNION {IF r.error # 0 THEN {r} ELSE Applied(r.doc, val) : r \in results},
                  {Done(doc)}, json_patch.elements)

-----------------------------------------------------------------------------
Replacing(path, v) == ObjectOf([op |-> StringOf("replace"), path |-> StringOf(path), value |-> v])
Removing(path) == ObjectOf([op |-> StringOf("remove"), path |-> StringOf(path)])
Adding(path, v) == ObjectOf([op |-> StringOf("add"), path |-> StringOf(path), value |-> v])

\* Mistake: elements are removed from the first on.
DiffOfRestAscending(s, t, path) ==
    LET at(i) == Below(path, to_string(i))
    IN  [i \in 1 .. (IF Len(t) < Len(s) THEN Len(s) - Len(t) ELSE 0) |->
           Removing(at(Len(t) + i - 1))]
        \o [i \in 1 .. (IF Len(s) < Len(t) THEN Len(t) - Len(s) ELSE 0) |->
              Adding(at(Len(s) + i - 1), t[Len(s) + i])]

(* The elements only one of the arrays has: the last is removed first. *)
DiffOfRest(s, t, path) ==
    LET at(i) == Below(path, to_string(i))
    IN  [i \in 1 .. (IF Len(t) < Len(s) THEN Len(s) - Len(t) ELSE 0) |-> Removing(at(Len(s) - i))]
        \o [i \in 1 .. (IF Len(s) < Len(t) THEN Len(t) - Len(s) ELSE 0) |->
              Adding(at(Len(s) + i - 1), t[Len(s) + i])]

RECURSIVE diff(_, _, _)
DiffOfArrays(s, t, path) ==
    FlattenSeq([i \in 1 .. Min({Len(s), Len(t)}) |->
                  diff(s[i], t[i], Below(path, to_string(i - 1)))])
      \o DiffOfRest(s, t, path)
DiffOfObjects(s, t, path) ==
    LET olds == InOrder(DOMAIN s)
        news == InOrder(DOMAIN t \ DOMAIN s)
        at(k) == Below(path, escape(k))
    IN  FlattenSeq([i \in DOMAIN olds |->
                      IF olds[i] \in DOMAIN t THEN diff(s[olds[i]], t[olds[i]], at(olds[i]))
                      ELSE <<Removing(at(olds[i]))>>])
          \o [i \in DOMAIN news |-> Adding(at(news[i]), t[news[i]])]
diff(source, target, path) ==
    LET type == TypeOfTree(source)
    IN  CASE Equal(source, target) -> <<>>
          [] ~Equal(source, target) /\ type = TypeOfTree(target) /\ type = "array" ->
               DiffOfArrays(source.elements, target.elements, path)
          [] ~Equal(source, target) /\ type = TypeOfTree(target) /\ type = "object" ->
               DiffOfObjects(source.members, target.members, path)
          [] OTHER -> <<Replacing(path, target)>>
=============================================================================
