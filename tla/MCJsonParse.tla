----------------------------- MODULE MCJsonParse -----------------------------
(* The tokens JsonParse is checked on. *)
EXTENDS JsonParse

MCTokens ==
    {Simple(t) : t \in {"begin_array", "end_array", "begin_object", "end_object",
                        "name_separator", "value_separator", "literal_true",
                        "parse_error", "end_of_input"}}
      \cup {Token("value_string", s) : s \in {"a", "b", "bad"}}
      \cup {Token("value_integer", ""),
            Token("value_unsigned", "discarded"), Token("value_float", "infinite")}
=============================================================================
