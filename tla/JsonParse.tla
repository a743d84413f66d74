------------------------------ MODULE JsonParse ------------------------------
(***************************************************************************)
(* parser::parse and parse_internal of src/include/json.hpp: what becomes  *)
(* of the tokens the lexer finds, up to one token per step.  A frame is an *)
(* activation of parse_internal.  The text is not known: the lexer may     *)
(* find any token, and what it is found to promise in JsonScan is assumed  *)
(* here, that a number it could not convert is followed by an error.       *)
(* concat.cpp passes no callback, and keep is always true.                 *)
(***************************************************************************)
EXTENDS JsonHeap, JsonDocuments

CONSTANTS
    Tokens,        \* what the lexer may find: the type, and a text where it matters
    MaxTokens      \* the longest text, in tokens

ASSUME MaxTokensIsNatural == MaxTokens \in Nat

VARIABLES
    tokens,        \* the tokens read so far; the last of them is last_token
    frames,        \* the activations of parse_internal, the innermost last
    returned,      \* what the innermost of them has just returned
    heap,
    outcome        \* "begin", "running", "throwing", "thrown" or "parsed"

vars == <<tokens, frames, returned, heap, outcome>>

NoReturn == json("none", 0)
NoKey == "no key"

Activation == [at |-> "switch", result |-> Discarded, key |-> NoKey]

Init ==
    /\ tokens = <<>> /\ frames = <<>>
    /\ returned = NoReturn
    /\ heap = EmptyHeap
    /\ outcome = "begin"

-----------------------------------------------------------------------------
last_token == Last(tokens)
Is(type) == last_token.type = type

(* The text ends after MaxTokens; the lexer never accepts a bad number. *)
get_token ==
    \E t \in Tokens :
        /\ Len(tokens) + 1 >= MaxTokens => t.type = "end_of_input"
        /\ tokens # <<>> /\ last_token.text = "discarded" => t.type = "parse_error"
        /\ tokens' = Append(tokens, t)

Top == Last(frames)
Below == Front(frames)
At(place) == outcome = "running" /\ frames # <<>> /\ returned = NoReturn /\ Top.at = place

(* The bound of the model: there is memory for one more value. *)
Room == HasRoom(heap, 1)

Throw ==
    /\ outcome' = "throwing"
    /\ UNCHANGED <<tokens, frames, returned, heap>>

Return(value) ==
    /\ frames' = Below /\ returned' = value
    /\ UNCHANGED outcome

GoTo(place) ==
    /\ frames' = Append(Below, [Top EXCEPT !.at = place])
    /\ UNCHANGED <<returned, outcome>>

(* parse_internal is called, and what it returns is waited for at place. *)
Call(place) ==
    /\ frames' = Append(Append(Below, [Top EXCEPT !.at = place]), Activation)
    /\ UNCHANGED <<returned, outcome>>

(* parse *)
Parse ==
    /\ outcome = "begin" /\ outcome' = "running"
    /\ get_token
    /\ frames' = <<Activation>>
    /\ UNCHANGED <<returned, heap>>

(* [ or {: the result is an empty array or object until it is filled. *)
Open ==
    /\ At("switch") /\ last_token.type \in {"begin_object", "begin_array"}
    /\ Room
    /\ LET new == New(heap, IF Is("begin_object") THEN EmptyObject ELSE ArrayOf(<<>>))
       IN  /\ heap' = new.heap
           /\ frames' = Append(Below, [Top EXCEPT !.at = new.value.m_type,
                                                  !.result = new.value])
    /\ get_token
    /\ UNCHANGED <<returned, outcome>>

Literal ==
    /\ At("switch") /\ last_token.type \in DOMAIN LiteralValue
    /\ get_token
    /\ Return(LiteralValue[last_token.type])
    /\ UNCHANGED heap

String ==
    /\ At("switch") /\ Is("value_string")
    /\ IF last_token.text = "bad" THEN Throw
       ELSE LET new == New(heap, StringOf(last_token.text))
            IN  Room /\ get_token /\ heap' = new.heap /\ Return(new.value)

(* What get_number returns is not looked at: the result may stay discarded. *)
Number ==
    /\ At("switch") /\ last_token.type \in DOMAIN NumberValue
    /\ IF last_token.text = "infinite" THEN Throw
       ELSE /\ get_token
            /\ Return(IF last_token.text = "discarded" THEN Discarded ELSE NumberValue[last_token.type])
            /\ UNCHANGED heap

Unexpected ==
    /\ At("switch")
    /\ last_token.type \in {"end_object", "end_array", "name_separator", "value_separator",
                            "parse_error", "end_of_input"}
    /\ Throw

CloseEmpty ==
    /\ \/ At("object") /\ Is("end_object")
       \/ At("array") /\ Is("end_array")
    /\ get_token
    /\ Return(Top.result)
    /\ UNCHANGED heap

CommaFirst ==
    /\ At("object") \/ At("array")
    /\ Is("value_separator")
    /\ Throw

(* The members of an object: the first, and those after a comma. *)
Comma ==
    /\ \/ At("next member") /\ GoTo("key")
       \/ At("next element") /\ Call("element")
    /\ get_token
    /\ UNCHANGED heap

Key ==
    /\ \/ At("key")
       \/ At("object") /\ ~Is("end_object") /\ ~Is("value_separator")
    /\ IF ~Is("value_string") \/ last_token.text = "bad" THEN Throw
       ELSE /\ frames' = Append(Below, [Top EXCEPT !.at = "separator",
                                                   !.key = last_token.text])
            /\ get_token
            /\ UNCHANGED <<returned, heap, outcome>>

Separator ==
    /\ At("separator")
    /\ IF ~Is("name_separator") THEN Throw
       ELSE get_token /\ Call("member") /\ UNCHANGED heap

FirstElement ==
    /\ At("array") /\ ~Is("end_array") /\ ~Is("value_separator")
    /\ Call("element")
    /\ UNCHANGED <<tokens, heap>>

(* A value has been parsed; the loop goes on if a comma follows it. *)
Receives(place) == outcome = "running" /\ frames # <<>> /\ returned # NoReturn /\ Top.at = place
Receive(more, done) ==
    /\ frames' = Append(Below, [Top EXCEPT !.at = IF Is("value_separator") THEN more ELSE done,
                                           !.key = NoKey])
    /\ returned' = NoReturn
    /\ UNCHANGED <<tokens, outcome>>

\* Mistake: a member that is there already is kept, as with insert.
AddMemberOnce ==
    /\ Receives("member")
    /\ LET a == Top.result.m_value
           old == heap[a].members
       IN  heap' = IF Top.key \in DOMAIN old THEN Destroyed(heap, returned)
                   ELSE [heap EXCEPT ![a] = ObjectOf(With(old, Top.key, returned))]
    /\ Receive("next member", "close object")

\* Mistake: what the member was before is not destroyed.
AddMemberLeaks ==
    /\ Receives("member")
    /\ LET a == Top.result.m_value
       IN  heap' = [heap EXCEPT ![a] = ObjectOf(With(heap[a].members, Top.key, returned))]
    /\ Receive("next member", "close object")

(* result[key] = value: what the member was before is destroyed. *)
AddMember ==
    /\ Receives("member")
    /\ LET a == Top.result.m_value
           old == heap[a].members
           freed == IF Top.key \in DOMAIN old THEN Destroyed(heap, old[Top.key]) ELSE heap
       IN  heap' = IF returned = Discarded THEN heap
                   ELSE [freed EXCEPT ![a] = ObjectOf(With(old, Top.key, returned))]
    /\ Receive("next member", "close object")

(* push_back(value) *)
AddElement ==
    /\ Receives("element")
    /\ LET a == Top.result.m_value
       IN  heap' = IF returned = Discarded THEN heap
                   ELSE [heap EXCEPT ![a] = ArrayOf(Append(heap[a].elements, returned))]
    /\ Receive("next element", "close array")

Close ==
    /\ At("close object") \/ At("close array")
    /\ IF Is(IF Top.at = "close object" THEN "end_object" ELSE "end_array")
       THEN get_token /\ Return(Top.result) /\ UNCHANGED heap
       ELSE Throw

(* An exception leaves the activations one by one, and their results go. *)
Unwind ==
    /\ outcome = "throwing"
    /\ IF returned # NoReturn
       THEN heap' = Destroyed(heap, returned) /\ returned' = NoReturn
            /\ UNCHANGED <<frames, outcome>>
       ELSE IF frames # <<>>
       THEN heap' = Destroyed(heap, Top.result) /\ frames' = Below
            /\ UNCHANGED <<returned, outcome>>
       ELSE outcome' = "thrown" /\ UNCHANGED <<frames, returned, heap>>
    /\ UNCHANGED tokens

(* The rest of parse, once parse_internal has returned. *)
Finish ==
    /\ outcome = "running" /\ frames = <<>>
    /\ IF Is("end_of_input")
       THEN /\ outcome' = "parsed"
            /\ returned' = IF returned = Discarded THEN Null ELSE returned
            /\ UNCHANGED <<tokens, frames, heap>>
       ELSE Throw

Next ==
    \/ Parse \/ Open \/ Literal \/ String \/ Number \/ Unexpected
    \/ CloseEmpty \/ CommaFirst \/ Comma \/ Key \/ Separator \/ FirstElement
    \/ AddMember \/ AddElement \/ Close \/ Unwind \/ Finish

Spec == Init /\ [][Next]_vars

-----------------------------------------------------------------------------
(* Where an activation has an object, or an array, in result. *)
ObjectPlaces == {"object", "key", "separator", "member", "next member", "close object"}
ArrayPlaces == {"array", "element", "next element", "close array"}

Value ==
    [m_type : Allocated \cup {"none", "discarded", "null", "boolean", "number_unsigned",
                              "number_integer", "number_float"},
     m_value : Nat]
Texts == {t.text : t \in Tokens} \cup {NoKey}
Frame ==
    {f \in [at : {"switch"} \cup ObjectPlaces \cup ArrayPlaces, result : Value, key : Texts] :
       /\ f.at = "switch" => f.result = Discarded
       /\ f.at \in ObjectPlaces => f.result.m_type = "object"
       /\ f.at \in ArrayPlaces => f.result.m_type = "array"}

(* Free, or what one of the types that allocate holds. *)
IsCell(cell) ==
    \/ cell = Free
    \/ cell.kind = "string"
    \/ cell.kind = "object" /\ cell.members \in [DOMAIN cell.members -> Value]
    \/ cell.kind = "array" /\ cell.elements \in Seq(Value)

(***************************************************************************)
(* An activation that is filling an object has an object, and one that is  *)
(* filling an array an array; one that has not begun owns nothing.         *)
(***************************************************************************)
TypeOK ==
    /\ tokens \in Seq(Tokens)
    /\ frames \in Seq(Frame)
    /\ returned \in Value
    /\ DOMAIN heap = Addresses /\ \A a \in Addresses : IsCell(heap[a])
    /\ outcome \in {"begin", "running", "throwing", "thrown", "parsed"}
    /\ IF outcome = "begin" THEN frames = <<>> /\ returned = NoReturn ELSE tokens # <<>>

Results == [i \in DOMAIN frames |-> frames[i].result] \o <<returned>>

(***************************************************************************)
(* Every object, array and string has one owner at every step: an          *)
(* activation that fills it, the value on its way to one, or the object or *)
(* array it was put in.  In particular nothing is left once an exception   *)
(* has gone through all activations.                                       *)
(***************************************************************************)
OneOwner == SingleOwner(heap, Results)

(***************************************************************************)
(* A text that is parsed is a document, and the value is what the document *)
(* means: nothing discarded is in it, and of several members of one name   *)
(* the last one counts.  A text is refused only where it cannot be gone on *)
(* with to a document: none is refused, and no error is found too early.   *)
(***************************************************************************)
ParsesDocuments ==
    /\ outcome = "parsed" => Documents(tokens) = {TreeOf(heap, returned)}
    /\ outcome = "thrown" => \A doc \in Completions(tokens) : Documents(doc) = {}
=============================================================================
