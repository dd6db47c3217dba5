-------------------------------- MODULE Big5 ---------------------------------
(***************************************************************************)
(* The character codes of libtabe (src/tabe_util.c).  A string is a        *)
(* sequence of bytes without its closing NUL; a character (Zhi) is two     *)
(* bytes of it, and the library decides what is Chinese by asking whether  *)
(* the code packs into an index of the table of character counts.          *)
(***************************************************************************)
EXTENDS Integers, Sequences

\* The bytes a Big5 character may end with.
LowByte == (64..126) \cup (161..254)

\* The byte at 0-based offset i of s; past the end there is the NUL.
ByteAt(s, i) == IF i < Len(s) THEN s[i + 1] ELSE 0

\* tabeZhiIsBig5Code: A1..F9 followed by a low byte.
ZhiIsBig5Code(s, i) ==
    ByteAt(s, i) \in 161..249 /\ ByteAt(s, i + 1) \in LowByte

\* tabeZhiToZhiCode
ZhiToZhiCode(s, i) == ByteAt(s, i) * 256 + ByteAt(s, i + 1)

\* The place of a low byte in its row of 157 characters.
Column(low) == IF low <= 126 THEN low - 64 ELSE 63 + low - 161

(***************************************************************************)
(* tabeZhiCodeToPackedBig5Code: the 5401 frequent characters, the 7652     *)
(* less frequent ones with the 7 Eten extensions, and the 37 ZuYin         *)
(* symbols; -1 for every other code.                                       *)
(***************************************************************************)
PackedBig5(code) ==
    LET high == code \div 256
        low  == code % 256
    IN  CASE high \in 164..197 /\ low \in LowByte ->
               (high - 164) * 157 + Column(low)
          [] high = 198 /\ low \in 64..126 ->
               (high - 164) * 157 + Column(low)
          [] high \in 201..248 /\ low \in LowByte ->
               (high - 201) * 157 + Column(low) + 5401
          [] high = 249 /\ low \in (64..126) \cup (161..220) ->
               (high - 201) * 157 + Column(low) + 5401
          [] high = 163 /\ low \in 116..126 -> 13060 + low - 116
          [] high = 163 /\ low \in 161..186 -> 13060 + 11 + low - 161
          [] OTHER -> -1

\* The length of _CharRef, the table PackedBig5 indexes.
CharRefLen == 13097

\* The character at offset i of s is one of the packed ones.
IsPacked(s, i) == PackedBig5(ZhiToZhiCode(s, i)) >= 0
==============================================================================
