----------------------------- MODULE BimsEditing -----------------------------
(***************************************************************************)
(* The editing buffer of one bims client: bimsFeedKey, the selections,     *)
(* bimsPindown and bimsFetchText of src/supports/bims/bims.c.              *)
(*                                                                         *)
(* The buffer is three arrays that every edit must shift alike (yin,       *)
(* pindown, tsiboundary), and a text that bimsContextSmartEdit makes anew  *)
(* after each edit (SmartEdit).  Only the length of the text is kept here. *)
(*                                                                         *)
(* The client is one that keeps to what examples/GTK/gtkentry_glue.c does: *)
(* it feeds keys in the editing state only, picks one of the choices on    *)
(* offer or none, fetches text as soon as a key returns BC_VAL_COMMIT, and *)
(* never asks for text when there is none.  That client sets no maxlen and *)
(* leaves smart editing on; what others do about these is the variable     *)
(* client.                                                                 *)
(***************************************************************************)
EXTENDS Integers, Sequences, SequencesExt

CONSTANTS
    Yin, Zhi, NoPin,
    Readings,   \* tabeYinLookupZhiList: the characters of a syllable
    TsiYin,     \* the TsiYinDBs: the phrases of a sequence of syllables
    NoText,     \* internal_text when it is NULL
    TMP_BUFFER, \* elements of the arrays smart editing copies syllables and
                \* phrases to
    Clients,    \* what clients may set maxlen (0: never set) and no_smart_ed to
    MaxYin      \* bound on the syllables in the buffer

ASSUME ReadingsAssumption ==
    Readings \in [Yin -> (SUBSET Zhi) \ {{}}]
ASSUME TsiYinAssumption ==
    /\ DOMAIN TsiYin \subseteq Seq(Yin)
    /\ \A w \in DOMAIN TsiYin : \A p \in TsiYin[w] :
          /\ p \in Seq(Zhi)
          /\ Len(p) = Len(w)
          /\ \A i \in DOMAIN w : p[i] \in Readings[w[i]]
ASSUME NoPinAssumption == NoPin \notin Zhi
ASSUME NoTextAssumption == NoText \notin Nat
ASSUME BoundAssumption ==
    /\ TMP_BUFFER \in Nat /\ MaxYin \in Nat
    /\ Clients \subseteq [limits : SUBSET Nat, modes : SUBSET BOOLEAN]

VARIABLES
    client,         \* which of the Clients it is
    yin, pindown, tsiboundary,  \* the buffer; yinlen is their length
    yinpos,
    internal_text,  \* the number of characters it has room for, or NoText
    no_smart_ed,
    maxlen,
    zc,             \* the positions of zc.index that are not zero
    zsel,           \* the phrases on offer
    state,          \* editing, or choosing from zsel
    answer,         \* what the last bimsFeedKey returned
    fault           \* whether memory that is not there was written

buffer == <<yin, pindown, tsiboundary>>
options == <<client, no_smart_ed, maxlen>>
selection == <<zsel, state>>
vars == <<buffer, yinpos, internal_text, options, zc, selection, answer, fault>>

yinlen == Len(yin)

Init ==
    /\ client \in Clients
    /\ yin = << >> /\ pindown = << >> /\ tsiboundary = << >>
    /\ yinpos = 0
    /\ internal_text = NoText
    /\ no_smart_ed = FALSE
    /\ maxlen \in client.limits
    /\ zc = {}
    /\ zsel = {}
    /\ state = "EDITING"
    /\ answer = "NONE"
    /\ fault = FALSE

-----------------------------------------------------------------------------
(* Helpers *)

\* zc.string is empty: a tone alone is not shown.
StringEmpty == zc \cap {0, 1, 2} = {}

\* Smart editing copies the stretches it looks up to an array of TMP_BUFFER
\* syllables, and the phrases of those it finds, two bytes a character and a
\* byte to end them, to one of TMP_BUFFER bytes.  A stretch that no boundary
\* divides may be too long for the one, or a word in it for the other.
Overflows(syllables, boundary) ==
    \E i, j \in 1 .. Len(syllables) :
        /\ i < j
        /\ \A z \in (i + 1) .. j : ~ boundary[z]
        /\ \/ j - i >= TMP_BUFFER
           \/ /\ SubSeq(syllables, i, j) \in DOMAIN TsiYin
              /\ 2 * (j - i + 1) >= TMP_BUFFER

\* bimsContextSmartEdit, the last thing every edit does.  Which stretches it
\* looks up, and so whether it comes to one that is too long, is SmartEdit's.
SmartEdit ==
    IF no_smart_ed THEN UNCHANGED <<internal_text, fault>>
    ELSE /\ internal_text' = yinlen'
         /\ fault' \in {FALSE, Overflows(yin', tsiboundary')}

\* The edit needs n characters of the text.
HasText(n) == internal_text # NoText /\ internal_text >= n

\* Nothing is known of a process that wrote where it should not.
Fail ==
    /\ fault' = TRUE
    /\ UNCHANGED <<buffer, yinpos, internal_text, options, zc, selection, answer>>

\* The client feeds keys while it is editing and owes no fetch.
MayFeed ==
    /\ ~ fault
    /\ state = "EDITING"
    /\ answer # "COMMIT"

Returns(value) == answer' = value

\* The place a selection, a pin or a Hsu 'q' is about.
Target == IF yinpos = yinlen /\ yinpos > 0 THEN yinpos - 1 ELSE yinpos

-----------------------------------------------------------------------------
(* bimsFeedKey: keys that move the cursor or clear the ZuYin context *)

Escape ==
    /\ MayFeed
    /\ IF StringEmpty
       THEN Returns("IGNORE") /\ UNCHANGED zc
       ELSE Returns("ABSORB") /\ zc' = {}
    /\ UNCHANGED <<buffer, yinpos, internal_text, options, selection, fault>>

MoveCursor(allowed, pos) ==
    /\ MayFeed
    /\ IF allowed THEN Returns("ABSORB") /\ yinpos' = pos
                  ELSE Returns("IGNORE") /\ UNCHANGED yinpos
    /\ UNCHANGED <<buffer, internal_text, options, zc, selection, fault>>

Home == MoveCursor(yinpos > 0, 0)
Left == MoveCursor(yinpos > 0, yinpos - 1)
End == MoveCursor(yinpos < yinlen, yinlen)
Right == MoveCursor(yinpos < yinlen, yinpos + 1)

\* XK_Return.
Return ==
    /\ MayFeed
    /\ Returns("ABSORB")
    /\ UNCHANGED <<buffer, yinpos, internal_text, options, zc, selection, fault>>

-----------------------------------------------------------------------------
(* bimsFeedKey: XK_BackSpace and XK_Delete *)

\* With ZuYin symbols on display either key takes the last one away.
EraseSymbol ==
    /\ MayFeed
    /\ ~ StringEmpty
    /\ zc' = zc \ {CHOOSE i \in zc : \A j \in zc : j <= i}
    /\ Returns("ABSORB")
    /\ UNCHANGED <<buffer, yinpos, internal_text, options, selection, fault>>

\* memmove(a + (pos - 1), a + pos, ...), and yinlen drops by one.
ShiftDown(a, pos) == [i \in 1 .. (Len(a) - 1) |-> IF i < pos THEN a[i] ELSE a[i + 1]]

\* Wrong variant: pindown is not moved.
ErasePinsStay(pos) ==
    IF ~ HasText(IF pos < yinlen THEN yinlen ELSE yinlen - 1)
    THEN Fail
    ELSE /\ yin' = ShiftDown(yin, pos)
         /\ pindown' = SubSeq(pindown, 1, yinlen - 1)
         /\ tsiboundary' = ShiftDown(tsiboundary, pos)
         /\ yinpos' = pos - 1
         /\ SmartEdit
         /\ Returns("ABSORB")
         /\ UNCHANGED <<options, zc, selection>>

\* The syllable before pos goes, and so does its place in each array.
Erase(pos) ==
    IF ~ HasText(IF pos < yinlen THEN yinlen ELSE yinlen - 1)
    THEN Fail
    ELSE /\ yin' = ShiftDown(yin, pos)
         /\ pindown' = ShiftDown(pindown, pos)
         /\ tsiboundary' = ShiftDown(tsiboundary, pos)
         /\ yinpos' = pos - 1
         /\ SmartEdit
         /\ Returns("ABSORB")
         /\ UNCHANGED <<options, zc, selection>>

EraseIgnored ==
    /\ Returns("IGNORE")
    /\ UNCHANGED <<buffer, yinpos, internal_text, options, zc, selection, fault>>

BackSpace ==
    /\ MayFeed
    /\ StringEmpty
    /\ IF yinlen > 0 /\ yinpos > 0 THEN Erase(yinpos) ELSE EraseIgnored

Delete ==
    /\ MayFeed
    /\ StringEmpty
    /\ IF yinlen > 0 /\ yinpos < yinlen THEN Erase(yinpos + 1) ELSE EraseIgnored

-----------------------------------------------------------------------------
(* bimsFeedKey: XK_Tab and the keys of the keymaps *)

Tab ==
    /\ MayFeed
    /\ IF StringEmpty /\ yinlen > 0 /\ yinpos # yinlen
       THEN /\ tsiboundary' = [tsiboundary EXCEPT ![yinpos + 1] = ~ @]
            /\ UNCHANGED <<yin, pindown>>
            /\ SmartEdit
            /\ Returns("ABSORB")
       ELSE /\ Returns("IGNORE")
            /\ UNCHANGED <<buffer, internal_text, fault>>
    /\ UNCHANGED <<yinpos, options, zc, selection>>

\* A symbol takes its position.  With a tone, Eten26 and Hsu may turn a lone
\* initial into a final.
AfterSymbol ==
    {zc \cup {i} : i \in 0 .. 3}
        \cup (IF 0 \in zc /\ zc \subseteq {0, 3} THEN {{2, 3}} ELSE {})

\* Wrong variant: one syllable more is let in.
OverflowLate(len) == IF maxlen # 0 /\ len > maxlen + 1 THEN "COMMIT" ELSE "ABSORB"

Overflow(len) == IF maxlen # 0 /\ len > maxlen THEN "COMMIT" ELSE "ABSORB"

\* The symbols do not make a syllable yet.
TypeSymbol ==
    /\ MayFeed
    /\ \E z \in AfterSymbol : zc' = z
    /\ Returns(Overflow(yinlen))
    /\ UNCHANGED <<buffer, yinpos, internal_text, options, selection, fault>>

\* Wrong variant: the element at pos is overwritten.
ShiftUpOverwrites(a, pos, x) ==
    [i \in 1 .. (Len(a) + 1) |-> IF i = pos + 1 \/ i > Len(a) THEN x ELSE a[i]]

\* memmove(a + (yinpos + 1), a + yinpos, ...), and a new element at yinpos.
ShiftUp(a, pos, x) ==
    [i \in 1 .. (Len(a) + 1) |-> IF i <= pos THEN a[i]
                                 ELSE IF i = pos + 1 THEN x ELSE a[i - 1]]

\* There is a tone, and the symbols make a syllable: it enters the buffer.
TypeSyllable(y) ==
    /\ MayFeed
    /\ yinlen < MaxYin
    /\ \E z \in AfterSymbol : 3 \in z /\ z # {3}
    /\ yin' = ShiftUp(yin, yinpos, y)
    /\ pindown' = ShiftUp(pindown, yinpos, NoPin)
    /\ tsiboundary' = ShiftUp(tsiboundary, yinpos, FALSE)
    /\ yinpos' = yinpos + 1
    /\ zc' = {}
    /\ SmartEdit
    /\ Returns(Overflow(yinlen + 1))
    /\ UNCHANGED <<options, selection>>

\* A key the keymap does not know.
UnknownKey ==
    /\ MayFeed
    /\ Returns("IGNORE")
    /\ UNCHANGED <<buffer, yinpos, internal_text, options, zc, selection, fault>>

\* 'q' in the Hsu keymap pins the next of the first characters of the
\* syllable; where nothing is pinned it looks at the text for the present one.
CycleZhi ==
    /\ MayFeed
    /\ IF yinpos = 0
       THEN /\ Returns("ABSORB")
            /\ UNCHANGED <<buffer, yinpos, internal_text, options, zc, selection, fault>>
       ELSE LET i == Target + 1 IN
            IF pindown[i] = NoPin /\ ~ HasText(i)
            THEN Fail
            ELSE /\ \E z \in Readings[yin[i]] : pindown' = [pindown EXCEPT ![i] = z]
                 /\ UNCHANGED <<yin, tsiboundary>>
                 /\ SmartEdit
                 /\ Returns("ABSORB")
                 /\ UNCHANGED <<yinpos, options, zc, selection>>

-----------------------------------------------------------------------------
(* bimsToggleTsiSelection, bimsToggleZhiSelection, bimsToggleEditing,      *)
(* bimsPindown, bimsPindownByNumber                                        *)

\* The phrases of two to four syllables that start at the cursor.
TsiChoices ==
    UNION {TsiYin[w] : w \in DOMAIN TsiYin \cap
              {SubSeq(yin, Target + 1, Target + n) :
                  n \in {m \in 2 .. 4 : Target + m <= yinlen}}}

\* The choices there were are dropped even when there are no new ones.
ToggleTsiSelection ==
    /\ ~ fault
    /\ ~ no_smart_ed
    /\ yinlen > 0
    /\ zsel' = TsiChoices
    /\ state' = IF TsiChoices # {} THEN "TSI" ELSE state
    /\ UNCHANGED <<buffer, yinpos, internal_text, options, zc, answer, fault>>

ToggleZhiSelection ==
    /\ ~ fault
    /\ yinlen > 0
    /\ zsel' = {<<z>> : z \in Readings[yin[Target + 1]]}
    /\ state' = "ZHI"
    /\ UNCHANGED <<buffer, yinpos, internal_text, options, zc, answer, fault>>

\* Wrong variant: the choices stay on offer.
ToggleEditingKeepsChoices ==
    /\ ~ fault
    /\ state' = "EDITING"
    /\ UNCHANGED <<buffer, yinpos, internal_text, options, zc, zsel, answer, fault>>

ToggleEditing ==
    /\ ~ fault
    /\ zsel' = {}
    /\ state' = "EDITING"
    /\ UNCHANGED <<buffer, yinpos, internal_text, options, zc, answer, fault>>

\* bimsPindown, with a character the syllable at the cursor can be.
Pindown ==
    /\ ~ fault
    /\ state = "EDITING"
    /\ yinlen > 0
    /\ \E z \in Readings[yin[Target + 1]] :
          pindown' = [pindown EXCEPT ![Target + 1] = z]
    /\ UNCHANGED <<yin, tsiboundary, yinpos, options, zc, selection, answer>>
    /\ SmartEdit

\* The characters of the phrase are pinned from the cursor on.  Boundaries
\* inside the phrase go; there is one after it and one before it, but not at
\* the ends of the buffer.
PindownByNumber(phrase) ==
    /\ ~ fault
    /\ state # "EDITING"
    /\ phrase \in zsel
    /\ LET first == Target + 1
           after == Target + Len(phrase) + 1
           start == IF yinpos = yinlen THEN yinpos ELSE yinpos + 1
       IN  IF after > yinlen + 1
           THEN Fail
           ELSE /\ pindown' = [i \in 1 .. yinlen |->
                      IF first <= i /\ i < after THEN phrase[i - first + 1]
                                                 ELSE pindown[i]]
                /\ tsiboundary' = [i \in 1 .. yinlen |->
                      CASE i = after -> TRUE
                        [] i = start /\ yinpos # 0 -> TRUE
                        [] OTHER -> ~ (first <= i /\ i < after) /\ tsiboundary[i]]
                /\ UNCHANGED <<yin, yinpos, options, zc, selection, answer>>
                /\ SmartEdit

-----------------------------------------------------------------------------
(* bimsFetchText, bimsSetMaxLen, bimsToggleSmartEditing *)

\* Wrong variant: the cursor stays where it is.
FetchTextKeepsCursor(len) ==
    /\ ~ fault
    /\ state = "EDITING"
    /\ yinlen > 0
    /\ HasText(yinlen)
    /\ LET newlen == IF yinlen < len THEN yinlen ELSE len
           rest == yinlen - newlen
       IN  /\ yin' = SubSeq(yin, newlen + 1, newlen + rest)
           /\ pindown' = SubSeq(pindown, len + 1, len + rest)
           /\ tsiboundary' = SubSeq(tsiboundary, len + 1, len + rest)
           /\ SmartEdit
           /\ answer' = "NONE"
           /\ UNCHANGED <<yinpos, options, zc, selection>>

\* The first len syllables, or all of them, leave the buffer.  pindown and
\* tsiboundary are moved by len, yin and internal_text by what there is.
FetchText(len) ==
    /\ ~ fault
    /\ state = "EDITING"
    /\ yinlen > 0
    /\ LET newlen == IF yinlen < len THEN yinlen ELSE len
           rest == yinlen - newlen
       IN  IF ~ HasText(yinlen)
           THEN Fail
           ELSE /\ yin' = SubSeq(yin, newlen + 1, newlen + rest)
                /\ pindown' = SubSeq(pindown, len + 1, len + rest)
                /\ tsiboundary' = SubSeq(tsiboundary, len + 1, len + rest)
                /\ yinpos' = IF yinpos > newlen THEN yinpos - newlen ELSE 0
                /\ SmartEdit
                /\ answer' = "NONE"
                /\ UNCHANGED <<options, zc, selection>>

SetMaxLen ==
    /\ ~ fault
    /\ \E n \in client.limits : maxlen' = n
    /\ UNCHANGED <<buffer, yinpos, internal_text, client, no_smart_ed, zc, selection,
                   answer, fault>>

ToggleSmartEditing ==
    /\ ~ fault
    /\ \E mode \in client.modes : no_smart_ed' = mode
    /\ UNCHANGED <<buffer, yinpos, internal_text, client, maxlen, zc, selection,
                   answer, fault>>

-----------------------------------------------------------------------------

Next ==
    \/ Escape \/ Home \/ Left \/ End \/ Right \/ Return
    \/ EraseSymbol \/ BackSpace \/ Delete
    \/ Tab \/ TypeSymbol \/ UnknownKey \/ CycleZhi
    \/ \E y \in Yin : TypeSyllable(y)
    \/ ToggleTsiSelection \/ ToggleZhiSelection \/ ToggleEditing
    \/ Pindown
    \/ \E phrase \in zsel : PindownByNumber(phrase)
    \/ \E len \in 1 .. MaxYin : FetchText(len)
    \/ SetMaxLen \/ ToggleSmartEditing

Spec == Init /\ [][Next]_vars

-----------------------------------------------------------------------------
(* Properties *)

\* Every variable has its type, and the cursor is in the buffer.
TypeOK ==
    /\ client \in Clients
    /\ yin \in Seq(Yin)
    /\ pindown \in Seq(Zhi \cup {NoPin})
    /\ tsiboundary \in Seq(BOOLEAN)
    /\ Len(pindown) = yinlen
    /\ Len(tsiboundary) = yinlen
    /\ yinpos \in 0 .. yinlen
    /\ internal_text \in Nat \cup {NoText}
    /\ no_smart_ed \in BOOLEAN
    /\ maxlen \in Nat
    /\ zc \subseteq 0 .. 3
    /\ zsel \subseteq Seq(Zhi)
    /\ state \in {"EDITING", "TSI", "ZHI"}
    /\ answer \in {"NONE", "COMMIT", "IGNORE", "ABSORB"}
    /\ fault \in BOOLEAN

\* A pinned character is one its syllable can be: the arrays never slip
\* against each other, whatever is inserted, erased, fetched and pinned, and
\* the text never shows a character the user chose for another syllable.
PinsMatchSyllables ==
    \A i \in 1 .. yinlen : pindown[i] # NoPin => pindown[i] \in Readings[yin[i]]

\* A choice on offer fits the syllables at the cursor, so that taking it
\* writes no place behind the buffer.
ChoicesFit ==
    \A p \in zsel :
        /\ Target + Len(p) <= yinlen
        /\ \A i \in DOMAIN p : p[i] \in Readings[yin[Target + i]]

\* A limit that leaves room, in the arrays of smart editing, for a buffer of
\* one more and for the words in it with the byte that ends them.
Roomy(n) ==
    /\ 0 < n /\ n < TMP_BUFFER
    /\ \A w \in DOMAIN TsiYin : Len(w) <= n + 1 => 2 * Len(w) < TMP_BUFFER

\* The client has a limit from the first key on, and smart editing on.
Careful(c) == c.modes \subseteq {FALSE} /\ \A n \in c.limits : Roomy(n)

\* No edit of such a client writes behind the arrays of smart editing ("this
\* should be far enough for this implementaion", bims.c:963), or to a text
\* that is not there: fetching when it is told to keeps the buffer short
\* enough, whatever it types, erases and pins and whenever it changes the limit.
NoFault == Careful(client) => ~ fault

Cells == [i \in 1 .. yinlen |-> <<yin[i], pindown[i], tsiboundary[i]>>]

\* A step that changes the syllables inserts one without pin or boundary,
\* erases one, or takes some from the head; every other syllable keeps its
\* pin and its boundary.
EditsAreLocal ==
    [][yin' # yin =>
          \/ \E i \in 1 .. (yinlen + 1), y \in Yin :
                Cells' = InsertAt(Cells, i, <<y, NoPin, FALSE>>)
          \/ \E i \in 1 .. yinlen : Cells' = RemoveAt(Cells, i)
          \/ \E n \in 1 .. yinlen : Cells' = SubSeq(Cells, n + 1, yinlen)]_vars
=============================================================================
