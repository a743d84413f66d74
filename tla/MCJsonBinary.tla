---------------------------- MODULE MCJsonBinary ----------------------------
(* The values that are written, and the bytes that are read besides. *)
EXTENDS JsonBinaryWriter

(* Numbers at both sides of every width. *)
MCNumbers ==
    {Bytes8(n) : n \in {0, 1, 23, 24, 127, 128, 255, 256, 32767, 32768, 65535, 65536}}
      \cup {<<0, 0, 0, 0, 255, 255, 255, 255>>, <<0, 0, 0, 1, 0, 0, 0, 0>>,
            <<0, 0, 0, 0, 127, 255, 255, 255>>, <<0, 0, 0, 0, 128, 0, 0, 0>>,
            <<127, 255, 255, 255, 255, 255, 255, 255>>}
MCLargest == {<<128, 0, 0, 0, 0, 0, 0, 0>>, <<255, 255, 255, 255, 255, 255, 255, 255>>}
MCNegative == {Complement(b) : b \in MCNumbers \cup {Bytes8(31), Bytes8(32)}}

MCScalars ==
    {Null, True, False}
      \cup {json("number_unsigned", b) : b \in MCNumbers \cup MCLargest}
      \cup {json("number_integer", b) : b \in MCNumbers \cup MCNegative}
      \cup {json("number_float", <<63, 240, 0, 0, 0, 0, 0, 192>>)}

Repeated(n, x) == [i \in 1 .. n |-> x]
MCTexts == {StringOf(Repeated(n, 97)) : n \in {0, 1, 23, 24, 31, 32, 255, 256}}

(* Objects of n members, of names of one byte. *)
MCObject(n, t) == ObjectOf([k \in {<<i>> : i \in 1 .. n} |-> t])

MCTrees ==
    MCScalars \cup MCTexts
      \cup {ArrayOf(Repeated(n, Null)) : n \in {0, 1, 15, 16, 23, 24, 256}}
      \cup {MCObject(n, True) : n \in {0, 1, 15, 16, 24}}
      \cup {ArrayOf(<<MCObject(2, t), ArrayOf(<<u>>), t>>) :
              t \in {True, StringOf(<<98, 255>>)}, u \in {Null, ArrayOf(<<>>), StringOf(<<>>)}}
      \cup {ObjectOf((<<97, 97>> :> t) @@ (<<97>> :> MCObject(1, u)) @@ (<<>> :> Null)) :
              t \in {ArrayOf(<<False>>)}, u \in MCScalars}

(* Every form of head, complete or not. *)
MCBytes == {0, 1, 23, 24, 27, 33, 59, 96, 97, 120, 123, 127, 129, 146, 159, 161, 162, 191, 192,
            202, 204, 208, 215, 217, 219, 220, 222, 225, 246, 249, 255}
MCOthers ==
    {<<>>} \cup {<<a>> : a \in Byte} \cup (MCBytes \X MCBytes)
      \cup {<<a, b, c>> : a \in {96, 97, 127, 129, 146, 159, 161, 191}, b \in MCBytes, c \in MCBytes}
      \cup {<<a>> \o s : a \in {26, 27, 59, 122, 123, 154, 155, 186, 187, 207, 211, 219, 221, 223, 250, 251},
                         s \in {Repeated(8, 255), Repeated(4, 0) \o <<0, 0, 0, 1, 96, 96>>,
                                <<0, 0, 0, 1, 160, 160>>, <<0, 0, 1, 1>>, <<0, 0, 0, 2, 96>>}}
      \cup {<<249, a, b>> : a \in {0, 3, 4, 123, 124, 128, 252}, b \in {0, 1}}
      \cup {<<127>> \o s \o t \o <<255>> : s, t \in {<<>>, <<97, 98>>, <<127, 255>>, <<1>>, <<120, 1, 99>>}}
      \cup {<<191>> \o Repeated(31, 97), <<119>> \o Repeated(23, 97)}
      \cup {<<191, 97, 98, 1, 97, a, 2, b>> : a \in {98, 99}, b \in {255, 97}}

MCInputs ==
    (UNION {Cuts(fmt, t) : fmt \in Formats, t \in MCTrees})
      \cup [format : Formats, tree : {Nothing}, bytes : MCOthers]
=============================================================================
