-------------------------- MODULE JsonBinaryFormats --------------------------
(***************************************************************************)
(* MessagePack and CBOR as src/include/json.hpp reads them: what it takes  *)
(* each first byte for, and the bytes of numbers and sizes after it.       *)
(* Numbers are the eight bytes of their 64 bits, the highest first, in     *)
(* two's complement; a text is the sequence of its bytes.                  *)
(***************************************************************************)
EXTENDS JsonTree, FiniteSetsExt

Formats == {"msgpack", "cbor"}

Byte == 0 .. 255

(* -1 - n *)
Complement(b) == [i \in DOMAIN b |-> 255 - b[i]]

-----------------------------------------------------------------------------
(***************************************************************************)
(* What a first byte begins: a form, how many bytes of a number or a size  *)
(* follow, and the number or the size if it is in the byte itself.         *)
(***************************************************************************)
FirstByte(form, width, small) == [form |-> form, width |-> width, small |-> small]
Constant(v) == [form |-> "constant", width |-> 0, small |-> 0, value |-> v]
Invalid == FirstByte("invalid", 0, 0)
True == json("boolean", 1)
False == json("boolean", 0)

(* 2^k bytes: one, two, four or eight. *)
Width(k) == <<1, 2, 4, 8>>[k + 1]

MsgpackHeads(b) ==
    CASE b <= 127 -> FirstByte("unsigned", 0, b)
      [] b \in 128 .. 143 -> FirstByte("object", 0, b - 128)
      [] b \in 144 .. 159 -> FirstByte("array", 0, b - 144)
      [] b \in 160 .. 191 -> FirstByte("text", 0, b - 160)
      [] b >= 224 -> FirstByte("signed", 0, b)
      [] b = 192 -> Constant(Null)
      [] b = 194 -> Constant(False)
      [] b = 195 -> Constant(True)
      [] b = 202 -> FirstByte("float", 4, 0)
      [] b = 203 -> FirstByte("float", 8, 0)
      [] b \in 204 .. 207 -> FirstByte("unsigned", Width(b - 204), 0)
      [] b \in 208 .. 211 -> FirstByte("signed", Width(b - 208), 0)
      [] b \in 217 .. 219 -> FirstByte("text", Width(b - 217), 0)
      [] b \in 220 .. 221 -> FirstByte("array", Width(b - 219), 0)
      [] b \in 222 .. 223 -> FirstByte("object", Width(b - 221), 0)
      [] OTHER -> Invalid

CborHeads(b) ==
    LET low == b % 32
        sized(form) ==
            CASE low <= 23 -> FirstByte(form, 0, low)
              [] low \in 24 .. 27 -> FirstByte(form, Width(low - 24), 0)
              [] low = 31 /\ form \in {"text", "array", "object"} -> FirstByte(form, -1, 0)
              [] OTHER -> Invalid
    IN  CASE b \div 32 = 0 -> sized("unsigned")
          [] b \div 32 = 1 -> sized("negative")
          [] b \div 32 = 3 -> sized("text")
          [] b \div 32 = 4 -> sized("array")
          [] b \div 32 = 5 -> sized("object")
          [] b = 244 -> Constant(False)
          [] b = 245 -> Constant(True)
          [] b = 246 -> Constant(Null)
          [] b \in 249 .. 251 -> FirstByte("float", Width(b - 248), 0)
          [] OTHER -> Invalid

FirstByteOf(format, b) == IF format = "msgpack" THEN MsgpackHeads(b) ELSE CborHeads(b)

(* Whether a member's name may begin with b. *)
ExpectsString(format, b) ==
    IF format = "msgpack" THEN b \in 160 .. 191 \/ b \in 217 .. 219
    ELSE b \in 96 .. 123 \/ b = 127

(* A sign is extended to eight bytes, or zeros are put in front. *)
Extended(b, fill) == [i \in 1 .. (8 - Len(b)) |-> fill] \o b
Unsigned(b) == json("number_unsigned", Extended(b, 0))
Signed(b) == json("number_integer", Extended(b, IF b[1] >= 128 THEN 255 ELSE 0))
Negative(b) == json("number_integer", Complement(Extended(b, 0)))

(***************************************************************************)
(* A half: 0, mantissa and exponent, of a value of that sign; the larger   *)
(* floats are known by their bytes.                                        *)
(***************************************************************************)
Half(b) ==
    LET exp == (b[1] \div 4) % 32
        mant == (b[1] % 4) * 256 + b[2]
    IN  CASE exp = 0 -> <<"finite", b[1] \div 128, mant, -24>>
          [] exp \in 1 .. 30 -> <<"finite", b[1] \div 128, mant + 1024, exp - 25>>
          [] OTHER -> IF mant = 0 THEN <<"infinite", b[1] \div 128>> ELSE <<"nan">>
Float(b) == json("number_float", IF Len(b) = 2 THEN Half(b) ELSE b)

(* A size of that many bytes; nothing is as long as Huge. *)
Huge == 256 * 256 * 256
SizeOf(b) ==
    IF \E i \in 1 .. (Len(b) - 3) : b[i] # 0 THEN Huge
    ELSE LET c == Extended(b, 0) IN c[6] * 65536 + c[7] * 256 + c[8]
=============================================================================
