--------------------------- MODULE MCSegmentation ----------------------------
(***************************************************************************)
(* Two characters of the first row of Big5, a Big5 punctuation mark that   *)
(* is not packed, a letter, and half a character, which takes the letter   *)
(* behind it for its other half.  All short lines over them, and all       *)
(* longer ones over the two characters.                                    *)
(***************************************************************************)
EXTENDS Segmentation

a == <<164, 64>>
b == <<164, 65>>
Others == {<<161, 65>>, <<65>>, <<164>>}

MCLines ==
    {FlattenSeq(s) : s \in SeqOf({a, b} \cup Others, 3) \ {<<>>}}
    \cup {FlattenSeq(s) : s \in UNION {[1..n -> {a, b}] : n \in 4..5}}
    \cup {FlattenSeq(<<x, y, a, x, y>>) : x \in {a, b}, y \in {a, b}}
    \cup {FlattenSeq(s) : s \in {<<a, b, a, b, a, b>>, <<a, a, b, b, a, a>>,
                                 <<b, a, a, b, a, b>>, <<a, b, a, a, b, a>>}}

\* Words of two, three and four characters that overlap one another.
MCDictionaries ==
    {{}, {a}, {a, b}, {a, b, a \o b}, {a, b, b \o a, a \o b \o a}, {a \o b, b \o a},
     {a, b, a \o a, a \o b \o b}, {a, b, a \o b \o a \o b, b \o a \o b},
     {a, b, a \o b, b \o a \o a, a \o b \o a \o a}, {b, a \o a, b \o b}}

\* As in src/tabe_charref.h the first character counts more; here twice as much as any other,
\* so that sums tie.
MCCharRef == [p \in 0..(CharRefLen - 1) |-> IF p = 0 THEN 2 ELSE 1]
==============================================================================
