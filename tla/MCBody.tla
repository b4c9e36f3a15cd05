------------------------------- MODULE MCBody -------------------------------
(* An instance of RequestBody for TLC. *)
EXTENDS RequestBody

\* Bytes a form cannot hold as they are, beside ones it can: space % & + = A a
Text == {32, 37, 38, 43, 61, 65, 97}

Strings == {<<>>} \cup {<<x>> : x \in Text} \cup {<<37, x>> : x \in Text} \cup {<<52, 65>>}

\* Two pairs, with the same name up to case or with different ones.
MCForms ==
    {<< <<k, v>> >> : k \in Strings, v \in Strings} \cup
    {<< <<k, v>>, <<l, w>> >> : k \in {<<97>>, <<38>>}, v \in Strings,
                                l \in {<<65>>, <<61>>}, w \in {<<>>, <<37, 38>>}}

\* Up to three bytes, of those that end lines, strings and escapes.
MCRaw == UNION {[1..n -> {NUL, LF, CR, PERCENT, EQ, 52}] : n \in 0..3}

=============================================================================
