---------------------------- MODULE MCUserLexicon ----------------------------
(***************************************************************************)
(* Four characters: a function word, two with readings, one of which has   *)
(* two, and one the primary TsiDB does not know; and two words of these.   *)
(* The texts make runs that overlap, that end inside the text, that        *)
(* are words already, and that end the process.                            *)
(***************************************************************************)
EXTENDS UserLexicon

yi == <<164, 64>>   \* a function word
x  == <<164, 66>>
y  == <<164, 67>>   \* two readings
u  == <<164, 68>>   \* unknown

MCPrimaryReadings ==
    (yi :> << <<11>> >>) @@ (x :> << <<21>> >>) @@ (y :> << <<31>>, <<32>> >>)
    @@ (y \o x :> << <<32, 21>> >>) @@ (y \o y :> << <<31, 32>> >>)

MCPrepList == {yi}

MCTexts == {<<>>, x \o y, x \o y \o yi \o x \o x, y \o x, y \o x \o y, x \o y \o yi,
            y \o y, x \o y \o y \o x,
            x \o x \o yi \o u}

MCEvals == {[tsi |-> x \o y, yin |-> <<21, 32>>], [tsi |-> y \o x, yin |-> <<31, 21>>],
            [tsi |-> y \o x, yin |-> <<32, 21>>], [tsi |-> x \o y, yin |-> <<21, 31>>]}

MCCharRef == [p \in 0..(CharRefLen - 1) |-> 1]
==============================================================================
