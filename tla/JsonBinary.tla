------------------------------ MODULE JsonBinary ------------------------------
(***************************************************************************)
(* from_msgpack and from_cbor of src/include/json.hpp: a value is read     *)
(* from bytes, one first byte or one turn of a loop per step.  The bytes   *)
(* are a value that was written, whole or cut short, or any others.        *)
(***************************************************************************)
EXTENDS JsonBinaryFormats

CONSTANT
    Inputs         \* what is read: a format, the bytes, and the value they were
                   \* written for or cut short from, or Nothing

Nothing == [kind |-> "nothing"]

ASSUME InputRange ==
    \A input \in Inputs : input.format \in Formats /\ input.bytes \in Seq(Byte)

VARIABLES
    format,        \* "msgpack" or "cbor"
    tree,          \* what was written, or Nothing
    v,             \* the bytes to read
    idx,           \* where the next value begins, from 0
    frames,        \* the loops of the activations that are not done, the innermost last
    returned,      \* what the innermost activation has returned, or Nothing
    touched,       \* how many bytes of v an index has gone up to
    outcome        \* "reading", "read" or "thrown"

vars == <<format, tree, v, idx, frames, returned, touched, outcome>>

Init ==
    /\ \E input \in Inputs :
          format = input.format /\ tree = input.tree /\ v = input.bytes
    /\ idx = 0 /\ frames = <<>> /\ returned = Nothing
    /\ touched = 0 /\ outcome = "reading"

-----------------------------------------------------------------------------
\* Mistake: the last byte may be one behind the end.
CheckLengthLoose(len, offset) == len <= Len(v) /\ offset + len <= Len(v) + 1

(* check_length: whether it throws nothing. *)
CheckLength(len, offset) ==
    ~(len > Len(v) \/ offset > Len(v)) /\ len + offset <= Len(v)

Slice(offset, len) == [i \in 1 .. len |-> IF offset + i <= Len(v) THEN v[offset + i] ELSE 0]
Touches(n) == touched' = Max({touched, n})

Throws ==
    /\ outcome' = "thrown"
    /\ UNCHANGED <<idx, frames, returned, touched>>

(* The activation returns, with idx behind what it has read. *)
Returns(value, next) ==
    /\ returned' = value /\ idx' = next
    /\ Touches(next)
    /\ UNCHANGED <<frames, outcome>>

(* A loop begins: over a number of values, or until the byte 255. *)
UntilBreak == -1
Loops(kind, left, next) ==
    LET start == CASE kind = "array" -> ArrayOf(<<>>)
                   [] kind = "object" -> ObjectOf(<<>>)
                   [] kind = "text" -> StringOf(<<>>)
    IN  /\ frames' = Append(frames, [kind |-> kind, at |-> "loop", value |-> start,
                                     left |-> left, key |-> <<>>])
        /\ idx' = next /\ Touches(next)
        /\ UNCHANGED <<returned, outcome>>

Top == Last(frames)
Below == Front(frames)

(* Whether a value is to be read, and the first byte of it. *)
Wanted ==
    /\ outcome = "reading" /\ returned = Nothing
    /\ frames # <<>> => Top.at # "loop"
Begins(forms) ==
    /\ Wanted
    /\ CheckLength(1, idx)
    /\ FirstByteOf(format, v[idx + 1]).form \in forms
This == FirstByteOf(format, v[idx + 1])

-----------------------------------------------------------------------------
(* There is no first byte, or none that may begin a value. *)
ReadNothing ==
    /\ Wanted
    /\ CheckLength(1, idx) => FirstByteOf(format, v[idx + 1]).form = "invalid"
    /\ Throws

ReadConstant ==
    /\ Begins({"constant"})
    /\ Returns(This.value, idx + 1)

Number(form, b) ==
    CASE form = "unsigned" -> Unsigned(b)
      [] form = "signed" -> Signed(b)
      [] form = "negative" -> Negative(b)
      [] form = "float" -> Float(b)

(* get_from_vector, or the byte itself *)
ReadNumber ==
    /\ Begins({"unsigned", "signed", "negative", "float"})
    /\ IF This.width = 0 THEN Returns(Number(This.form, <<This.small>>), idx + 1)
       ELSE IF CheckLength(This.width, idx + 1)
       THEN Returns(Number(This.form, Slice(idx + 1, This.width)), idx + 1 + This.width)
       ELSE Throws

Length == IF This.width > 0 THEN SizeOf(Slice(idx + 1, This.width)) ELSE This.small

ReadText ==
    /\ Begins({"text"}) /\ This.width # UntilBreak
    /\ LET offset == idx + 1 + This.width
       IN  IF CheckLength(This.width, idx + 1) /\ CheckLength(Length, offset)
           THEN Returns(StringOf(Slice(offset, Length)), offset + Length)
           ELSE Throws

ReadMany ==
    /\ Begins({"array", "object", "text"}) /\ (This.form = "text" => This.width = UntilBreak)
    /\ IF This.width = UntilBreak THEN Loops(This.form, UntilBreak, idx + 1)
       ELSE IF CheckLength(This.width, idx + 1)
       THEN Loops(This.form, Length, idx + 1 + This.width)
       ELSE Throws

-----------------------------------------------------------------------------
Looping == outcome = "reading" /\ returned = Nothing /\ frames # <<>> /\ Top.at = "loop"

AtBreak == CheckLength(1, idx) /\ v[idx + 1] = 255

(* The loop is over. *)
EndLoop ==
    /\ Looping
    /\ Top.left = 0 \/ (Top.left = UntilBreak /\ AtBreak)
    /\ LET next == IF Top.left = 0 THEN idx ELSE idx + 1
       IN  /\ frames' = Below /\ returned' = Top.value
           /\ idx' = next /\ Touches(next)
    /\ UNCHANGED outcome

(* One more turn: another value, or a member, whose name must be a text. *)
Turn ==
    /\ Looping
    /\ Top.left # 0 /\ ~(Top.left = UntilBreak /\ AtBreak)
    /\ IF Top.left = UntilBreak /\ ~CheckLength(1, idx) THEN Throws
       ELSE IF Top.kind = "object" /\ ~(CheckLength(1, idx) /\ ExpectsString(format, v[idx + 1]))
       THEN Throws
       ELSE /\ frames' = Append(Below, [Top EXCEPT !.at = IF Top.kind = "object" THEN "key" ELSE "value"])
            /\ UNCHANGED <<idx, returned, touched, outcome>>

Received == outcome = "reading" /\ returned # Nothing /\ frames # <<>>
IsText(t) == "kind" \in DOMAIN t /\ t.kind = "string"

ReceiveKey ==
    /\ Received /\ Top.at = "key"
    /\ IF ~IsText(returned) THEN Throws
       ELSE /\ frames' = Append(Below, [Top EXCEPT !.key = returned.text, !.at = "value"])
            /\ returned' = Nothing
            /\ UNCHANGED <<idx, touched, outcome>>

(* An element, the value of a member, or one more piece of a text. *)
Grown ==
    CASE Top.kind = "array" -> ArrayOf(Append(Top.value.elements, returned))
      [] Top.kind = "object" -> ObjectOf(With(Top.value.members, Top.key, returned))
      [] Top.kind = "text" -> StringOf(Top.value.text \o returned.text)
Fewer == IF Top.left = UntilBreak THEN UntilBreak ELSE Top.left - 1
ReceiveValue ==
    /\ Received /\ Top.at = "value"
    /\ IF Top.kind = "text" /\ ~IsText(returned) THEN Throws
       ELSE /\ frames' = Append(Below, [Top EXCEPT !.value = Grown, !.left = Fewer, !.at = "loop"])
            /\ returned' = Nothing
            /\ UNCHANGED <<idx, touched, outcome>>

(* from_msgpack and from_cbor leave what comes after the value unread. *)
Finish ==
    /\ outcome = "reading" /\ returned # Nothing /\ frames = <<>>
    /\ outcome' = "read"
    /\ UNCHANGED <<idx, frames, returned, touched>>

Next ==
    /\ \/ ReadNothing \/ ReadConstant \/ ReadNumber \/ ReadText \/ ReadMany
       \/ EndLoop \/ Turn \/ ReceiveKey \/ ReceiveValue \/ Finish
    /\ UNCHANGED <<format, tree, v>>

Spec == Init /\ [][Next]_vars

-----------------------------------------------------------------------------
(* An activation's loop, with the values it is still to read. *)
Loop(f) ==
    /\ DOMAIN f = {"kind", "at", "value", "left", "key"}
    /\ f.kind \in {"array", "object", "text"} /\ f.at \in {"loop", "key", "value"}
    /\ f.left \in Nat \cup {UntilBreak}
    /\ f.at # "loop" => f.left # 0
    /\ f.at = "key" => f.kind = "object"

(* Every loop but the innermost waits for the value it has begun to read. *)
Nested(loops) ==
    /\ loops \in Seq(Range(loops))
    /\ \A i \in 1 .. Len(loops) : Loop(loops[i])
    /\ \A i \in 1 .. Len(loops) - 1 : loops[i].at # "loop"

TypeOK ==
    /\ format \in Formats /\ v \in Seq(Byte)
    /\ idx \in 0 .. Len(v) /\ touched \in 0 .. Len(v)
    /\ Nested(frames)
    /\ outcome \in {"reading", "read", "thrown"}
    /\ outcome = "read" => frames = <<>> /\ returned # Nothing

(* Whatever the bytes are, none behind the last is looked at. *)
ReadsInVector == touched <= Len(v)
=============================================================================
