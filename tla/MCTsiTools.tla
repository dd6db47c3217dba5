----------------------------- MODULE MCTsiTools ------------------------------
(***************************************************************************)
(* Two characters, one with two readings, given between brackets, one of   *)
(* which is the reading of the other, so that words sound alike; a word    *)
(* without syllables that has one possible reading, one that has two, and  *)
(* a word with two readings, one of which has an invalid syllable.         *)
(***************************************************************************)
EXTENDS TsiTools

x == <<164, 66>>
y == <<164, 67>>

Line(w, count, field) == [tsi |-> w, refcount |-> count, yin |-> field]

MCLines == {Line(x, 2, << <<1>> >>), Line(y, 1, << <<2, 1>> >>), Line(x \o x, 0, <<>>),
            Line(x \o y, 1, <<>>), Line(y \o x, 0, << <<2, 0>>, <<1>> >>)}

MCGuesses == {x \o x \o y}
==============================================================================
