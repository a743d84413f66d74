------------------------------ MODULE JsonOrder ------------------------------
(***************************************************************************)
(* operator== and operator< of src/include/json.hpp.  An integer has Width *)
(* bits.  A float is an integer that Precision bits and an exponent hold,  *)
(* or NaN: what integers are cast to, and what equals nothing.             *)
(***************************************************************************)
EXTENDS JsonTree

CONSTANTS Width, Precision

ASSUME WidthAssumption == Width \in 2 .. 30 /\ Precision \in 1 .. Width

Numbers == {"number_integer", "number_unsigned", "number_float"}

(* NaN as the m_value of a float; no integer rounds to so large a number. *)
NaN == 2 ^ (Width + 1)

IsNaN(a) == a.m_type = "number_float" /\ a.m_value = NaN

(* An unsigned number as static_cast<number_integer_t> has it. *)
Signed(n) == IF n >= 2 ^ (Width - 1) THEN n - 2 ^ Width ELSE n

(***************************************************************************)
(* An integer as static_cast<number_float_t> has it: the nearest number of *)
(* Precision bits, and the one with an even mantissa when two are as near. *)
(***************************************************************************)
Rounded(n) ==
    LET m == IF n < 0 THEN -n ELSE n
        unit == CHOOSE u \in {2 ^ e : e \in 0 .. Width} :
                    /\ m < u * 2 ^ Precision
                    /\ u = 1 \/ m >= u * 2 ^ (Precision - 1)
        kept == m \div unit
        rest == m % unit
        up == 2 * rest > unit \/ (2 * rest = unit /\ kept % 2 = 1)
        r == unit * (IF up THEN kept + 1 ELSE kept)
    IN  IF n < 0 THEN -r ELSE r

(* a's number where it is compared with b's. *)
Operand(a, b) ==
    CASE a.m_type # "number_float" /\ b.m_type = "number_float" -> Rounded(a.m_value)
      [] a.m_type = "number_unsigned" /\ b.m_type = "number_integer" -> Signed(a.m_value)
      [] OTHER -> a.m_value

EqualNumber(a, b) == ~IsNaN(a) /\ ~IsNaN(b) /\ Operand(a, b) = Operand(b, a)

RECURSIVE Equal(_, _)
Equal(a, b) ==
    LET s == TypeOfTree(a)
        t == TypeOfTree(b)
    IN  CASE {s, t} \subseteq Numbers -> EqualNumber(a, b)
          [] s = t /\ s = "array" ->
               /\ Len(a.elements) = Len(b.elements)
               /\ \A i \in DOMAIN a.elements : Equal(a.elements[i], b.elements[i])
          [] s = t /\ s = "object" ->
               /\ DOMAIN a.members = DOMAIN b.members
               /\ \A k \in DOMAIN a.members : Equal(a.members[k], b.members[k])
          [] s = t /\ s \in {"null", "boolean", "string"} -> a = b
          [] OTHER -> FALSE

(* operator< of value_t *)
Rank == [null |-> 0, boolean |-> 1, number_integer |-> 2, number_unsigned |-> 2,
         number_float |-> 2, object |-> 3, array |-> 4, string |-> 5]
TypeBefore(s, t) == "discarded" \notin {s, t} /\ Rank[s] < Rank[t]

\* Mistake: an unsigned number is compared as it is.
LessNumberUnconverted(a, b) == a.m_value < b.m_value

LessNumber(a, b) == ~IsNaN(a) /\ ~IsNaN(b) /\ Operand(a, b) < Operand(b, a)

(* std::lexicographical_compare, of elements and of members in order. *)
RECURSIVE Less(_, _), LessItems(_, _)
LessItems(s, t) ==
    CASE t = <<>> -> FALSE
      [] t # <<>> /\ s = <<>> -> TRUE
      [] OTHER -> LET a == Head(s)
                      b == Head(t)
                  IN  CASE Before(a[1], b[1]) -> TRUE
                        [] Before(b[1], a[1]) -> FALSE
                        [] a[1] = b[1] /\ Less(a[2], b[2]) -> TRUE
                        [] a[1] = b[1] /\ Less(b[2], a[2]) -> FALSE
                        [] OTHER -> LessItems(Tail(s), Tail(t))

(* What an array or an object is compared by; elements have no names. *)
Items(t) ==
    IF t.kind = "array" THEN [i \in DOMAIN t.elements |-> <<<<>>, t.elements[i]>>]
    ELSE LET ks == InOrder(DOMAIN t.members)
         IN  [i \in DOMAIN ks |-> <<ks[i], t.members[ks[i]]>>]
Less(a, b) ==
    LET s == TypeOfTree(a)
        t == TypeOfTree(b)
    IN  CASE {s, t} \subseteq Numbers -> LessNumber(a, b)
          [] s = t /\ s \in {"array", "object"} -> LessItems(Items(a), Items(b))
          [] s = t /\ s = "boolean" -> a.m_value < b.m_value
          [] s = t /\ s = "string" -> Before(a.text, b.text)
          [] s = t /\ s \in {"null", "discarded"} -> FALSE
          [] OTHER -> TypeBefore(s, t)
=============================================================================
