# A TLA+ model of libtabe

libtabe is the Chinese input library behind several Taiwanese input method
servers. It keeps dictionaries of phrases (*tsi*) and of the syllable sequences
(*yin*) they are written with in Berkeley DB files, and contains **bims**, an
input method: the client feeds keys, bims assembles syllables, cuts them into
dictionary words and turns them into text.

This directory holds TLA+ modules for the stateful core of the library, TLC
configurations that check them, and proofs about the handle pools and the
dictionary pool above them, the client contexts, the editing buffer, smart
editing, keyboard input, segmentation, the user's lexicon, the utilities and the packed character codes. Paths
below are relative to the repository, and those without a directory are in `src/`;
`bims.c` is `src/supports/bims/bims.c`, `tsidbint` is `src/tabe_tsidbint.c`.

Run `tlc -config X.cfg M` for a configuration X of module M (the pairs are in
`PROJECT.json`), and `tlapm M.tla` for the proofs of `TsiDBPoolProofs`,
`BimsDBPoolProofs`, `BimsContextsProofs`, `BimsEditingProofs`, `SmartEditProofs`,
`ZuYinContextProofs`, `SegmentationProofs` and `TsiReadingsProofs`.

## 1. Inventory

The library is single-threaded. What is hard about it is *sequences of calls*:
several clients and applications share static lists, parallel arrays must be
shifted alike by a dozen operations, keys mean different things after different
keys, files are written in several steps, and a failed or repeated call leaves
things half done.

| Component | State | Operations | Interacts with | What makes it correct |
|---|---|---|---|---|
| Handle pools (`tsidbint` 49-261, and the same code in `tabe_tsiyindbint.c`) | static list `_tabe_rdb` of shared databases with counts; the handles; the open databases | `tabeTsiDBOpen`, `tabeTsiDBClose` | Berkeley DB; used by bims, the utilities and GTKTsi | a database is open exactly as long as someone holds it; no handle reaches a database of other flags |
| Record store (`tsidbint` 263-631, twin) | the files | Put, Get, cursors, packing | Berkeley DB | what is got is what was put; record formats round-trip |
| bims dictionary pool (`bims.c` 45-444) | `struct _db_pool`: primary pair and two parallel arrays | `bimsInit`, `bimsDestroy`, `bimsUserDBAppend`, `bimsDBPoolAppend`, `-Prepend`, `-Delete` | two handle pools | the arrays stay paired, each handle is closed once |
| bims client contexts (446-571, 1885-1961) | two linked lists, `bucket` and `freebc` | `bimsGetBC` (start of every call), `bimsFreeBC`, the setters | everything with a `bcid` | clients never share or inherit a context; the walk of `bimsFreeBC` ends |
| ZuYin keymaps (716-803, 2498-3183) | `zc`: four symbol slots | Check, Input, Clear; four keymaps, of which Eten26 and Hsu are state machines | editing buffer | every syllable can be typed; only legal combinations are held |
| Editing buffer (1536-2330) | `yin`, `pindown`, `tsiboundary`, cursor, text, selection | `bimsFeedKey`, selections, pins, `bimsFetchText` | keymaps, smart editing, lexicon | arrays stay aligned; edits are local; no write behind an array |
| Smart editing (870-1532) | segments, text | `bimsContextSmartEdit`, `bimsContextDP`, `bimsVerifyPindown` | database search | segments tile the buffer, respect pins and boundaries; terminates |
| Database search (575-711) | none | merge the answers of the dictionaries | dictionary pool | no phrase is lost |
| User lexicon (2084-2191, 3185-3336) | the user's two files | learn phrases from text, add one by hand, dump TsiDB to TsiYinDB | segmentation, database search, record store | what was learned can be found, also after a crash; what is learned is new |
| Tsi segmentation (`tabe_tsi.c`), chunk splitting (`tabe_chu.c`) | the chunks of a line | split; simplex, complex and backward methods | record store | output tiles input; terminates; long words are kept |
| Yin and Zhi tables (`tabe_yin.c`, `tabe_zuyin.c`, `tabe_util.c`) | constant tables | search, packing, conversion | all | searches find, conversions round-trip |
| Utilities (`util/`) | `tsi.db`, `yin.db` | fill, list, check and dump the databases | record store | the listing is the word list turned round; order does not matter; a dump reads back |
| GTKTsi | files; a dump thread and windows | edit the dictionary | record store | (cannot be compiled at this commit, section 6) |
| Data tables, build files, examples, GTK entry | - | - | - | out of scope, except that the syllables of the table are a constant of the model, and that the examples show how the library is called |

The behaviours that are hard to test are listed, at their lines, under
`hazards` in `PROJECT.json`.

## 2. Modules

| Module | Models | State ↔ code |
|---|---|---|
| `TsiDBPool` | the handle pools | `pool` = the list from `_tabe_rdb`; `lost` = entries it no longer reaches; `handle` = each `struct TsiDB`; `db` = what each Berkeley DB object is open on; `misclosed` = history of what was closed through a handle of another key |
| `DBSharing` | what sharing promises: one open database per key, as long as someone holds it | abstract |
| `TsiDBPoolProofs` | theorems about `TsiDBPool`, and that it implements `DBSharing` | |
| `BimsDBPool` | the dictionary pools of several applications; instantiates `TsiDBPool` twice (`T`, `Y`) | `app` = each `struct _db_pool`; `call` = the point inside a call that opens or closes two files |
| `BimsContexts` | `bimsGetBC`, `bimsFreeBC` and the setters | `bucket`, `freebc`, `ctx` = the contexts with `next`; `freeing` = the locals of `bimsFreeBC` |
| `ClientTable` | a table from identifiers to contexts | abstract |
| `SmartEdit` | one run of `bimsContextSmartEdit` | `yinhead`, `comb`, `ysinfo`, `internal_text` as in the code; `bc` = the fields it reads |
| `BimsEditing` | the editing buffer of one client | the fields of `struct bimsContext`; `internal_text` is its length only; `fault` = memory that is not there was used |
| `BimsDBPoolProofs`, `BimsContextsProofs`, `SmartEditProofs`, `BimsEditingProofs` | theorems about `BimsDBPool`, `BimsContexts`, `SmartEdit`, `BimsEditing` | |
| `ZuYin` | the symbols, the packed form of a syllable, the search in the table of syllables, and the conversions | pure; `Entry` is what the search reads, one past the end included |
| `YinTable` | the syllables of `_YinZhiTable` | a constant |
| `ZuYinContext` | `bimsZuYinContextInput`, the four keymaps with the Eten26 and Hsu machines | `index` = `zc.index`, `shown` = `zc.string`; `target`, `left` = the syllable a user has in mind and the keys still to press |
| `ZuYinContextProofs` | theorems about `ZuYinContext` and the search of `ZuYin` | |
| `Big5`, `ChunkSplit` | the character codes, `tabeChunkGet`, `tabeChuInfoToChunkInfo` | pure |
| `MaxMatch` | where each of the three methods cuts | pure |
| `Segmentation` | a line through the split and one of the methods, a turn of the outer loop at a time | `chunks` = `chu->chunk` with `num_tsi` and `tsi`; `done` = `tsihead`, or what the backward method has taken off the tail; `fault` as above |
| `SegmentationProofs` | theorems about `Segmentation`, with what the scans of `ChunkSplit` and the cuts of `MaxMatch` return, and about `Big5` | |
| `RecordStore`, `TsiReadings` | Put, Get, the walk over a database; the readings of a word | a database is a function from keys to records |
| `UserLexicon` | `bimsTsiGuess`, `bimsUserTsiEval`, `bimsTsiyinDump`, crashes | `tsidb`, `yindb` = the user's two files; `buf`, `words`, `todo` = the loops at work |
| `TsiTools` | the utilities on `tsi.db` and `yin.db` | `tsi_db`, `yin_db` = the two files; `left` = the lines not yet added |
| `TsiReadingsProofs` | theorems about `UserLexicon` and `TsiTools`, with what the walk of `RecordStore` and the entries and possible readings of `TsiReadings` are | |
| `MC*` | instances for TLC | |

Composition: `BimsDBPool` composes two `TsiDBPool`s by instantiation. The
content of a context (`text` in `BimsContexts`) is what `BimsEditing` models,
and its `SmartEdit` operator is the whole run that module `SmartEdit` takes
step by step. `ZuYinContext` is what a key does to the four symbol slots that
`BimsEditing` abstracts to filled or empty. `Segmentation` and `UserLexicon`
use the same cuts of `MaxMatch`, the first turn by turn, the second as a whole;
`UserLexicon` and `TsiTools` share the walk of `TsiReadings`, to which one adds
crashes and the other the order of the calls. `TsiDBPool` is shown to implement `DBSharing`, and `BimsContexts`
to implement `ClientTable`, each by a refinement mapping at the end of the
detailed module.

Definitions marked *Wrong variant* are not used by any specification. Each is
the definition that follows it with a plausible mistake (a count not taken, an
array not shifted); putting it in place of the right one makes TLC report the
property that `mutants` in `PROJECT.json` names, which shows that the property
depends on the code.

### Abstractions that matter

* **Memory** is a reference to one of finitely many objects, and `malloc` does
  not fail. In `TsiDBPool` a database object is its address: `dbp->close` (229)
  frees it and `db_create` (75) may return it at once, although the handle of a
  lost entry still points there. What the close of such a handle closes is
  whatever is there by then. If that is freed memory, nothing is known of the
  process afterwards (`Undefined`), and the model stops.
* **A database** is open on a key (name and flags) or closed in the pool
  modules, where any open may fail; in `RecordStore` and above it is a function
  from keys to records, open throughout, where any write of the user's files
  may fail. Berkeley DB keeps what was synced (`DB_FLAG_NOSYNC` is not set for
  the user's files) and walks in the order of the keys.
* **Dictionary** lookups in `SmartEdit` and `BimsEditing` are constant
  functions, with the consistency of the files as assumption
  (`TsiYinAssumption`). `bimsYinChooseZhi` is a constant, too.
* **Keys** are abstracted in `BimsEditing` to which of the four symbol slots
  they fill (`AfterSymbol`); in `ZuYinContext` they are the keys of the keymap.
* **Text** is a sequence of bytes in `Big5` and above, because half characters
  and codes that are not packed decide how a line is cut; a syllable is a
  number, as in the code.
* **Memory that is overwritten** ends what a model can say: `Segmentation` and
  `BimsEditing` set `fault` and stop, `UserLexicon` takes the process down.
  Which stretches smart editing looks up is decided in module `SmartEdit`, whose
  buffers are short enough for the arrays; `BimsEditing` takes any stretch
  without a boundary, and any word in one, as one it may come to (`Overflows`).
* **Unwritten memory** is a value of its own (`Junk`): closing it ends the
  process or not, and the comparison with an element past the end of an array
  goes either way.
* The `memmove`s of BackSpace and Delete read one element behind the arrays (1614-1628),
  as does the last turn of `bimsContextDP` (987). The value read is not used.
  At 987 and 1388 `yindata[0]` of a one-syllable segment is that of the *next*
  syllable; nothing reads `yindata` of such a segment, and the model keeps
  segments as offset and length.
* `updatedb` is not a variable of `BimsContexts`: `bimsGetBC` sets it at the
  start of every call, so no call finds it off. The update of the databases in
  `bimsFetchText` (2216-2307) needs a writable primary database, which
  `bimsInit` never opens; it is not modelled.
* **The client** of `BimsEditing` keeps to what
  `examples/GTK/gtkentry_glue.c` 167-222 does: keys are fed in the editing
  state only, one of the choices on offer is taken, text is fetched when
  `BC_VAL_COMMIT` is returned and not when there is none. That client does not
  set `maxlen` (its call is commented out, 164) and leaves smart editing on;
  `client` is which values a client may set the two to, 0 being `maxlen` when it
  is not set. A limit is set before the first key.

## 3. Runs

Passing runs check invariants, action properties, refinements and liveness;
a run that expects a violation shows one disagreement between a comment or
document and the code.

| Run | Bounds | Shows |
|---|---|---|
| `pool_keys` | 4 handles, 4 databases, 1 name, 3 flag sets, symmetry | all invariants of the pool, and that it implements `DBSharing` |
| `pool_use_after_close` | 4 handles, 2 names, one shared flag set | **violation**: `_tabe_rdb = rdbp->next` (255) loses entries, after which a handle's database is closed under it |
| `bims_pool` | 1 application, 2 dictionaries, 3 slots, 3 handles and 2 databases in each handle pool, any pair of names deleted | pairing of the arrays, ownership of every handle, the primary pair |
| `bims_prepend` | the same, 3 databases, both files of one dictionary deleted | **violation**: Prepend shifts one array of two (373) |
| `clients` | 3 identifiers, 3 contexts, one setting with one value | the lists partition the contexts at every step, one context per client, `ClientTable` is implemented, `bimsFreeBC` returns |
| `smart_edit` | 2 syllables, 4 characters, 5 words; buffers to 5 syllables, pinned ones to 4 | segments tile the buffer and are usable, pins are shown, the call returns |
| `smart_edit_rules` | the same without pins | **violation**: after a tie the old combinations take part in the next turn (1391) |
| `editing` | 2 syllables, 3 characters, 3 places; a client with `maxlen` 1 and smart editing on, and one with no limit that turns smart editing on and off | arrays stay aligned, choices fit, edits are local; the first client never makes an edit write where there is no memory |
| `zuyin` | all 1328 syllables, the four keymaps, any keys; two values for the memory behind the table | only symbols of its kind are in a slot; which syllables a keymap cannot type; what is composed reads back as what was shown |
| `segmentation` | all lines of up to 3 out of 2 characters, a mark, a letter and half a character, Chinese ones of up to 6; 10 dictionaries, 3 methods, `MaxTsiLen` 3 | the pieces are the line, the longest word is kept, the loops end |
| `lexicon` | 10 texts and 4 additions over 4 characters, `MaxRefCnt` 2, any number of crashes and failed writes | what is stored is listed by the next dump, once and truly; what is learned is new |
| `tools` | 5 lines in any order, 2 other changes | the listing is exact, order does not matter, a dump reads back |

Why the bounds are enough:

* *Pool.* Losing an entry takes two keys and a close of the older one. A lost
  entry interferes when its key is opened again, by a third handle; the fourth
  lets a count differ from zero and one while that happens, and lets an address
  that a handle still holds be used for another key. Names and flags are
  compared for equality only, so one name under two shared flag sets gives the
  two keys.
* *Dictionary pool.* Two slots make the arrays, the third meets arrays that
  exist, which is where Append and Prepend take their other branch. With two
  names under two flag sets, lost entries and shared handles occur among three
  handles. More applications only add users of the same two handle pools,
  which `pool_keys` explores without restricting who opens and closes; two
  applications that delete the two files of a dictionary together have been
  checked with the same bounds. With three handles no database is closed through
  a handle of another key; the proofs cover that.
* *Contexts.* Three contexts give a first, a middle and a last one to unlink,
  and a free list with more than one member. `bimsFreeBC` treats all settings
  alike (it does not touch them), so one of them with one value is enough;
  that the values stay with their client follows from the context staying with
  it, which `text` shows.
* *Smart editing.* One turn looks at three words. A leftover combination needs
  a tie, then another turn with more than two syllables left: four syllables,
  and one more so that it can win. Pins constrain a word by its own characters
  only, so buffers of four show every interplay with boundaries (`MaxPinned`).
* *ZuYin.* Nothing is bounded but the length of a syllable's symbols, which is
  four at most: the slots have a finite number of states and all of them that
  the keys reach are visited. What is behind the table is a value no syllable
  has, or one that a key sequence can ask for.
* *Segmentation.* The complex method looks at three words: with words of up to
  four characters and lines of up to six every rule decides for some line, and
  the branches for one and two characters left are taken. Counts of characters
  tie unless one is larger, so two values are enough. `MaxTsiLen` 3 (10
  in the code) lets a dictionary have a word that is too long.
* *Lexicon.* A run of single characters has two characters or three here, which
  reaches the count limit, words that share a reading, a word that is learned
  again after its listing was cut short, and one that was added by hand with
  another reading. Readings are compared for equality only.
* *Tools.* A word without syllables depends on the lines of its characters
  only, so one whose characters give one reading and one whose characters give
  two are enough; two changes put a deletion, a guess or a second listing
  before and after any line.
* *Editing.* Three places give the cursor and an edit a head, a middle and an end,
  and a phrase of two or three to take anywhere. `maxlen` 1 reaches the overflow
  answer with one syllable over the limit and one place to spare. `TMP_BUFFER` is
  scaled down from 80 to 5: a phrase of two syllables (4 bytes and the one that
  ends them) just fits the arrays of bytes, one of three, which the dictionary
  has, does not. The array of syllables, larger by then, is never too short in this
  instance; the proof covers both.

`CHECK_DEADLOCK FALSE` is set for the smart editing runs and for `segmentation`,
because a call or the line ends there, and for `editing`, because
a process may end where it writes to memory it does not have.
In the other runs something can always be called.

**Fairness.** `BimsContexts` has `WF_vars(FreeStep)`, `SmartEdit` and
`Segmentation` have `WF_vars(Next)`. All are loops of sequential code that nothing else interrupts
before they return, so once started they run on; no fairness is assumed of any
client. Without it the liveness properties would fail by stopping in the
middle of a function.

## 4. Proofs

`TsiDBPoolProofs` proves, for every set of names, flag sets, handles and
databases (finite or not), from the named assumptions of `TsiDBPool` that
`Closed` is not a key, `Free` is neither a handle nor a key, and `FlagSets` are
sets of flags:

| Theorem | Property |
|---|---|
| `TypeCorrect` | `TypeOK` |
| `PoolIsConsistent` | `PoolConsistent`: one entry per key, its database open on it |
| `HarmComesFromLoss` | `HarmNeedsLoss`: while no entry was lost, nothing is closed through a handle of another key |
| `PrivateHandlesOwn` | `PrivateDBOwned` |
| `NoUseAfterCloseHolds` | `NoUseAfterClose`: no close takes the database from another handle |
| `RefCountIsExact` | `RefCountExact`: the count is the number of holders |
| `LastCloseCloses` | `ClosedAfterLastClose`: an unheld database is closed |

all of them for the keys the property names. `RefCountExact` and
`ClosedAfterLastClose` hold for every key whose entry was not lost. A handle of a
lost key may be left dangling, and when `db_create` uses the address again, its
close takes the database of a key that was *not* lost: from then on that key is
among the `Unreliable` ones, and `NoUseAfterClose` and `PrivateDBOwned` leave it
out, as `PoolConsistent` does (which includes lost keys as long as that has not
happened to them). `HarmNeedsLoss` says that there is no other way to such a
close than the loss of an entry. The violation run shows why the condition is
needed.

The argument is one inductive invariant, `IInv`. None of the properties is
inductive alone. That a last close takes nothing from another handle needs the
count to be exact *before* the close (`RefCountExact`), and the count's
exactness needs `Users(k)` to be finite (`IsFiniteSet(Live)`: each step adds one
handle at most, and none is held at first). That a handle's database is open
follows from its entry's database being open (`PoolConsistent`) and the two
being the same one (`SharedLinked`, which is not a checked property but what
links list and handles). `OpenDBOwned` is the converse, needed for
`ClosedAfterLastClose`. `db_create` may return the address of any object that is
closed; that it is not that of a handle in good order is `NoUseAfterClose` itself
(`ReliableHandle`, `OpenedDB`). What a close does to the database it takes, which may
be one of another key, is `ClosedDB`; either the handle was in good order, and
the database is its own, or its key was lost, and the key of the database
becomes unreliable. `CutAfter`, `Recounted`, `HandleAdded`, `HandleRemoved`,
`UsersAdded` and `UsersRemoved` say what the operations do to the list, the
handles and the holders; then there is one lemma per action, with one step per
conjunct, and `NextInv` puts them together. `OpenEffect` and `CloseEffect` sum
up what an open and a close do for their caller: one handle more or less, and
the others untouched.

`PoolImplementsSharing`, at the end of `TsiDBPoolProofs`: the counted list
implements `DBSharing`, for the same constants. The mapping takes a handle to
the key it holds, or to nothing if that key is `Unreliable`, and the open
keys to those of the open databases that are not. `StepImplements` maps
each step under `IInv`, by three cases: a handle that is made (`NewHandleImplements`)
is an acquisition; one that goes and leaves the database open (`AbandonImplements`)
is a release by one of several holders, which the exact count provides; one that
takes its database with it (`DoCloseImplements`) is the release of the last
holder, together with the entries that the cut of the list drops. What is done
with a handle of an unreliable key is a stutter, or makes other keys unreliable,
which `DBSharing` calls forgetting them.

`BimsDBPoolProofs` proves about `BimsDBPool`, for every set of applications,
names, handles and databases, any pairs of names that `bimsDBPoolDelete` is
called with, and any bound on the length of a pool other than 1 (the first
dictionary that joins makes two slots at once), from the assumptions that the
markers `Null`, `Junk`, `Closed` and `Free` are none of the values they stand
beside:

| Theorem | Property |
|---|---|
| `EveryHandleIsOwned` | `HandlesOwned` |
| `PairsStayTogether` | `SlotsHoldPairs` |
| `PrimaryStaysUsable` | `PrimaryUsable` |

The proofs about the list are used through two instances of `TsiDBPoolProofs`,
`TP` and `YP`: their invariants are part of `IInv`, and of the list nothing else
is used than `OpenEffect` and `CloseEffect`. The rest of `IInv` is about *places*.
A place of a pool is a slot that is still to be closed, or, where no slot was
made, the primary pair itself; `TsiAt` and `YinAt` say which handle is in it. A
handle is live exactly as long as it is in one place, or in the hand of the call
that opened it, or was overwritten by Prepend (`TsiPlaced`, `YinPlaced`): this
is what makes "each is closed once" inductive, for `bimsDestroy` closes slot by
slot while the arrays still hold what it has closed. `PairsMatch` and
`HalvesTogether` relate the two halves of a place, and `PrimaryPlaced` the
pointers to the primary pair with the place they point to. `HandlesOwned` alone
is not inductive, because an append copies the primary pair into the first slot
and only `Shapes` says that the slots were empty before, and `SlotsHoldPairs` is not,
because a delete that takes one half of a place leaves the other.
`JoinInv` is what all four ways to join a pool have in common and `ClosingInv`
what both ways to close a pair have.

`BimsContextsProofs` proves about `BimsContexts`, for any clients, any settings
and any finite number of contexts, under the hypothesis that no client's
identifier is 0:

| Theorem | Property |
|---|---|
| `ListsPartition` | `ListsPartitionContexts` |
| `OneContext` | `OneContextPerClient` |
| `ListsImplementTable` | `ImplementsClientTable`: the two lists implement `ClientTable` |

The hypothesis is what the walk of `bimsFreeBC` needs (section 5): a client 0
would match the contexts of the free list. The code has only links, and that
following them visits certain contexts and then ends is no property of one
link. So `IInv` says that there is, for each list, a row of distinct contexts
that the links follow to `Null` (`Linked`), that the rows share no context and
hold all of them, with one context per client in use and empty ones free
(`Rows`), and that the walk of `bimsFreeBC` stands somewhere on one of the rows
(`WalkIn`). `NthIsLink` and `MembersAreRow` lead from the links to the rows, by
the least number at which they would differ, and `ListLonger` and `ListShorter`
say what the surgery does to a row. The walk goes over to the free list after
the first match, with `prev` still in the other one; that it then never finds
another match is what `Zero` and `Rows` provide. For the refinement a client
maps to the content of its context (`Shown`); an unlinked context and a setter
are one step of the table each (`FreeMatchImplements`, `CallImplements`), every other
step of the walk is a stutter.

`SmartEditProofs` proves about `SmartEdit`, for every dictionary, every count
of uses and buffers of any length, from the assumptions that a phrase listed for
some syllables has one character for each (`TsiYinAssumption`), that every
syllable has a character to choose (`ChooseZhiAssumption`), and that `NoPin` is
no character:

| Theorem | Property |
|---|---|
| `TypeCorrect` | `TypeOK` |
| `NoSyllableDropped` | `SegmentsTile` |
| `WordsAreUsable` | `WordsUsable` |
| `PinsAreShown` | `PinsShown` |
| `LeftoversNeverDecide` | no run: a combination of an earlier turn is never the only best one |

`SegmentsTile` is not inductive alone: a combination that `bimsContextDP` left in the
array from an earlier turn (1391) starts at an earlier syllable, and cutting it
again would cover syllables twice. It never is cut, because a leftover exists
only after a tie, and so there are at least two best ones among the leftovers
(`LeftoversTie`); a single best combination is therefore one of this turn
(`OneBestIsNew`), and with a tie the code cuts by other rules. That needs the
comparison of the rules to be transitive on what it compares
(`BetterIsTransitive`). `SegmentsCover` gives each syllable that is passed its word, from
which `Compose` takes its character; `MostUsed` shows that there is a most used
phrase to choose.

`BimsEditingProofs` proves about `BimsEditing`, for every set of syllables and
characters, every dictionary, buffers of any length and any bounds, from the
assumptions that the readings of a syllable are characters
(`ReadingsAssumption`), that a phrase listed for some syllables has one
character for each that it can be (`TsiYinAssumption`), and that `NoPin` is no
character and `NoText` no number:

| Theorem | Property |
|---|---|
| `TypeCorrect` | `TypeOK`: among others, the three arrays have one length and the cursor is inside |
| `PinsAreReadings` | `PinsMatchSyllables` |
| `ChoicesAlwaysFit` | `ChoicesFit` |
| `EditsStayLocal` | `EditsAreLocal` |
| `NoFaultAlways` | `NoFault` |

The inductive invariant `IInv` adds one conjunct to the first three properties:
`NoChoiceWhileEditing`. `ChoicesFit` is not inductive alone, because erasing or
fetching under choices on offer would make them too long; no key is fed and no
text fetched outside the editing state, and there no choice is on offer.
`PinsMatchSyllables` in turn needs `ChoicesFit` when a choice is taken. The
lemmas `ShiftUpInserts`, `ShiftDownProperties` and `SliceProperties` say what
the `memmove`s do to one array; `EditInv` is what all edits have in common, and
`FrameInv` what all other steps have. For `EditsStayLocal` the three arrays are
taken as one sequence of triples (`Cells`), and `InsertedIsInsertAt` and
`RemovedIsRemoveAt` say that moving them alike is inserting into it and removing
from it.

`NoFault` speaks of a client that is `Careful`: smart editing stays on, and each
limit it sets, the first before the first key, is `Roomy`, that is positive, smaller
than `TMP_BUFFER`, and such that words of one syllable more take less than
`TMP_BUFFER` bytes. The last is needed because two of the arrays are of bytes, of
which a character takes two (965, 1436): with the words of `tsi.src`, none longer
than ten characters, limits up to 79 are roomy, but a listed phrase of 40 syllables
would allow none above 38. The invariant `LimitedInv` says that the buffer is
within one of the limits, or over it by one syllable when the last answer was
`BC_VAL_COMMIT`, after which no key is fed before a fetch; that one syllable of
slack is why the arrays must be larger than the limit. It also says that the text
reaches as far as the buffer, which the keys that erase need. `ArraysSuffice` is
the bound on the two kinds of array, `ShorterLimited` what erasing and fetching
have in common. For other clients the property fails (section 5, `maxlen` 0 and
`no_smart_ed`).

`ZuYinContextProofs` proves about `ZuYinContext`, for every table of syllables
and any memory behind it, from the assumptions that the table is sorted
(`TableAssumption`) and each entry has one symbol of each kind at most and more
than a tone (`SyllablesAssumption`; TLC evaluates both for the table of
`tabe_yin2zhi.h`), and that `NoEntry` and `NoYin` are no numbers:

| Theorem | Property |
|---|---|
| `TypeCorrect` | `TypeOK` |
| `ReadsBackAlways` | `ReadsBack` |
| `OnlySyllablesAreFound` | no run: what `tabeYinToYinZhi` finds is in the table, or behind it |
| `EverySyllableIsFound` | no run: every syllable of the table is found |

`TypeOK` goes through the keymaps: each rule of Eten26 and Hsu changes a slot
to a symbol of the slot's kind, whatever is in the others. `ReadsBack` needs
that what was composed is more than a tone, for a tone alone is not shown.
That is `NothingBelow`: a search for less than every syllable only goes down,
and so never gets to the memory behind the table, which could be taken for a
tone. The rest is arithmetic on the fields of a yin (`FieldsOfYin`, `IndexOfYin`) and
that the symbols of a string give back the slots (`SlotsFound`).

The search is a loop, here a recursive function by its turns. `Iteration` shows
that such a function exists and `Induction` what holds of all its turns.
`EverySyllableIsFound` has the invariant `Near`: unless the entry was found it
is at most two steps away, and when the steps are down to one there are turns
enough left to walk to it. What could break it is the position one past the
end, where a smaller value behind the table sends the search up again, which
costs it a step (`ReachesFromBehind`). The position is only reached after
turns that made the step small (`Near` bounds the two together), so the one turn
that the loop has to spare makes good for it. This holds for tables of up to
1537 entries, the bound in the theorem; the table has 1328. It does not hold
for every size: of 3586 entries the search can miss one.

`SegmentationProofs` proves about `Segmentation`, for every set of lines and of
dictionaries, every length MAXTSILEN of at least two characters
(`MaxTsiLenAssumption`) and every table of counts, from two assumptions that C
makes true: no byte of a string is its closing NUL (`LinesAssumption`) and the
counts are unsigned (`CharRefAssumption`):

| Theorem | Property |
|---|---|
| `ChunksAreTheLineAlways` | `ChunksAreTheLine` |
| `WordsTileChunkAlways` | `WordsTileChunk` |
| `LongestWordKeptAlways` | `LongestWordKept` |

The inductive invariant `IInv` says of every chunk what has become of it: one
behind the caller is `Finished`, the one at work `Begun` up to `done`, unless
memory was overwritten, and one ahead `Fresh`. Beyond the properties it needs
three things. `done` is even in a Chinese chunk, so that a method stops at its
end and not one byte short of it. Nothing is found before the first turn, and a chunk that
is a word is taken whole by that turn, which is why it is `Finished` in one
piece. And while the line is being split, the next character is not a packed
one if the last chunk is Chinese (`Splitting`): without it two Chinese chunks
could follow one another. `TurnInv` and `EndInv` carry the invariant over a turn
that changes the chunk and over the step to the next chunk, for any new chunk;
`WordsAdded`, `OneWordAdded` and `TwoWordsAdded` say which words may be added.

What the turns add is found by recursive functions and by CHOOSE, and the
lemmas about them stand first. `Induction` says that a set of numbers with 0
that is closed under going on by one is all of them; with it the scans of
`tabeChunkGet` end (`ScanThere`), at the first packed character or at the end
(`StartProperties`, `EndProperties`), and the text in front of that character,
taken by itself, holds none where the scan looks (`OtherChunk`). `Rows` is the
table of concatenations that `FlattenSeq` defines by recursion, so that
`FlattenAppend`, `FlattenCons` and `FlattenReverse` can be proved of it.
`BestExists` is about the four rules of the complex method: as each of the
quantities they compare is bounded or at least 0, narrowing the combinations
down rule by rule leaves one that no other is better than, although ties go
through all the rules. `FirstWordIs` adds that a word which is all that is left
wins: no combination spans more, and none of the same span has as few words.

The module also proves of `tabeZhiCodeToPackedBig5Code`, for every 16-bit code,
that its result is -1 or an index of `_CharRef` (`PackedInTable`), and that no
two codes share one (`PackedInjective`). The three stretches of the function
are bounded one after the other (`StretchBounds`), and in each the row and the
column can be told from the place (`StretchInjective`). These have no run: a
run could only list the codes.

`TsiReadingsProofs` proves about `UserLexicon`, for every set of texts and of
added words and every primary dictionary, with Puts that fail and processes
that end at any step, from the assumptions that a reading has one syllable for
each character (`ReadingsAssumption` of the primary TsiDB, whose records are
packed that way, and `EvalsAssumption` of the words added, for which
`bimsUserTsiEval` takes both lengths from one number), that `MAX_REFCNT` is
not 0 (`MaxRefCntAssumption`), that texts are C strings (`TextsAssumption`) and
that no word of the primary TsiDB is longer than `MAXTSILEN`, the 10 characters
the segmentation looks up (`WordsAssumption`: `tsiadd` reads no more of a counted
word, `tsiadd.c` 310, and the longest of `tsi.src` has as many):

| Theorem | Property |
|---|---|
| `TypeOKAlways` | `TypeOK` |
| `StoredIsListedAlways` | `StoredIsListed` |
| `YinRecordsSoundAlways` | `YinRecordsSound` |
| `LearnedIsNewAlways` | `LearnedIsNew` |

`StoredIsListed` speaks only of moments when no dump is at work, and is far from
inductive. `Covered` holds at every moment: unless something was missed, what is
not listed yet is still to be listed by the dump at work. It holds at the start
of a dump because the dump walks over the whole TsiDB (`EntriesAre`), through a
turn because the entry is listed or counted as missed (`EntryListed`), through a
word counted once more because its readings stay (`WordCounted`), and a crash
with entries left counts as a miss. `YinRecordsSound` needs `Walking`, that the
entries still to come are sound as well: the TsiDB only grows, so that what was
sound when the dump started still is when its turn comes. That a learned word
has one syllable for each character goes back to the run in `buf`, each of
whose characters the primary TsiDB has a reading for (`Characters`,
`FirstReadingsAre`).

`LearnedIsNew` is about what the four rules leave behind. `SegmentationProofs`
proves that a run of single characters is never a word (`SinglesAreNoWord`),
which is not obvious, for the rules choose among combinations of three words
and cut only the first: where they cut a single character, the two other words
of the best combination and one more are a combination one character on, so
that from character to character the best reaches as far or further, and where
no further with a word less (`AfterSingle`, `AfterSingles`); a run that were a
word would begin a combination that reaches as far as the best at its first
character with fewer words (`RunIsNoWord`). The first two rules alone exclude
it, and the counts do not matter. A chunk is cut turn by turn
(`TurnsEnd`, `ComplexWordsPlaced`). In `UserLexicon` the invariant `Following`
says where the run in `buf` stands in the text, and the facts of
`SegmentationProofs` are used through an instance of it, whose definitions of
`MaxMatch` are shown to be the same (`SameWords`).

The walk over a database goes through the keys in their order. The order is
shown to be strict and total (`BeforeTransitive`, `BeforeTotal`); each key is at
the place that is the number of keys before it, two keys are never at the same
one (`PlacesDiffer`), and so the walk visits them all (`WalkVisits`).
`FlattenHolds` says of any sequence of sequences which elements `FlattenSeq`
returns.

The same module proves about `TsiTools`, for every word list, every set of
guessed words and any number of changes, from assumptions about the input files:
a word has one line (`OneLinePerWord`) and 1 to 10 characters, its bytes are
those of a C string and its syllables unsigned (`LinesAssumption`), and the runs
that `tsiguess` counts have 2 to 10 characters (`GuessesAssumption`, which
leaves out longer ones because `sscanf` reads them back cut):

| Theorem | Property |
|---|---|
| `ListingExactAlways` | `ListingExact` |
| `RoundTripAlways` | `RoundTrip` |
| `OrderOfLinesIrrelevantAlways` | `OrderOfLinesIrrelevant` |

Each utility is a fold over a walk or over the lines, and its fold is first
turned into a sequence of databases, one for each turn (`Turns`, `TurnsThere`,
`TurnsEnd`), over which `Induction` can go.

* The invariant `ToolsInv` says that every reading in `tsi_db` has a syllable for
  each character (`Kept`), which `ListingExact` needs because a listing is by
  the pieces of that length, and that `yin_db` is the dump of `tsi_db` as long
  as `fresh` holds. What a dump lists is then counted entry by entry:
  `ListingCounts` says how often a word stands under a reading after each entry,
  `EntriesCount` how often the walk hands over a word with a reading, since
  `WalkVisits` gives each key once and `FlattenTimes` adds up the pieces.
* `Expand` and `PossibleTsiYins` go from the last syllable to the first.
  `Descends` shows that a function defined that way exists, so that its
  equations may be used; with them `ExpandAre` and `PossibleAre` bound what the
  two return, and `Kept` holds for the record of any line (`ArchiveKept`).
* For `RoundTrip`, `CutBack` says that cutting what `FlattenSeq` put in a row
  gives the pieces back, if all are of one length (`FlattenParts`); a printed
  field has one choice at each syllable, and `ExpandOnes` gives it back as it
  was. `LineBack` is one line, `RestoredMore` the turn of the fold.
* For the order of the lines, `OrderInv` speaks of a `tsi_db` that only lines were
  added to: its words are those of the lines added, and the readings of each are
  those of its field, or, for a line without one, none or the only possible one
  of the characters added so far. That one stays the only possible one, because a word
  that has a possible reading has all its characters there, and none of them has
  a line still to come
  (`StillPossible`, `CharactersThere`). At the end all characters are there
  (`FiledPossible`). `LinesComplete` is a condition because of what the code does
  with other lines: a word with fewer syllables than characters gets no reading
  and is looked up as if it had no field, and an invalid syllable of a
  character is reported by `tsiyincheck` for every word of it. Every line of
  `tsi-src/tsi.src` that has a field has enough syllables.

The inductive invariants of `TsiDBPool`, `BimsDBPool`, `BimsContexts`, `SmartEdit`,
`Segmentation`, `UserLexicon` and `TsiTools` were checked with TLC on the
instances of section 3 before they were proved.

Only model-checked: `TypedIsComposed` of `ZuYinContext`, which is about the 1328
syllables of the one table, and liveness (`FreeReturns`, `Returns`,
`LineSegmented`), which is out of the prover's reach.

## 5. Disagreements noted without a run

These were met while modelling. Each is visible in the models or in one line
of the code; a run would show no more than that line does.

Handles and dictionaries:

* `doc/Changes:111` "tabeTsiDBClose() should free tsidb also." A shared handle
  that is not the last one stays allocated (`tsidbint` 252; state `"closed"`
  in `TsiDBPool`).
* The close of a handle whose entry was lost can close a database of another key,
  when `db_create` has returned the same address for it (`tsidbint` 75, 229; `misclosed`
  in `TsiDBPool`).
* A database whose entry was lost is never closed and so never flushed
  (`tsidbint` 211 "close and flush DB file"; 255). `bimsDestroy` ("close all
  the databases, if any", `bims.c` 151) is where that happens: it closes the
  oldest slot first.
* `bims.c` 84-85 "will be updated", 108: the primary pair is opened read-only.
  87-88 "must be non-zero throughout the system": `bimsDBPoolDelete` sets both
  to NULL (416, 430), and `bimsFetchText` dereferences one of them (2217).
* `doc/Changes:110` "bimsDBPoolDelete() should also check the primary tdb,
  ydb": the test for the primary TsiYinDB uses the index of the TsiDB (429).
  When they differ, `ydb` stays and points to a closed handle, which is why
  `PrimaryUsable` speaks of deletes of both files.
* "The TsiYinInfo structure can be filled with the union" (644):
  `bimsTsiYinDBPoolSearch` concatenates, and a phrase of two dictionaries is
  offered twice. A user's word that the primary dictionary also has does that,
  which `LearnedIsNew` says learning avoids, as long as the word is not longer
  than `MAXTSILEN`.

Client contexts and editing:

* "this function always return valid bims client context" (`bims.c` 456):
  `bimsFreeBC` sets `ysinfo` to NULL and leaves `num_ysinfo` (566), and
  `bimsQueryYinSeg` (2374-2389) reads that many elements for the next client.
* "reclaim the context for bims client" (507): free contexts have `bcid` 0, so
  for a client whose identifier is 0 the walk (518) frees them again, without
  end. `BimsContexts` has nonzero identifiers.
* "clear the BC to initial state" (`bimsFreeBC`, 531): keymap, maxlen,
  `no_smart_ed` and `tsiguess` stay, and the next client finds them, although
  `doc/Changes:285-287` calls the mode of each bc independent.
* "toggle into no db update mode" (1925): the next call turns updates on again
  (500).
* The table above `bimsFeedKey` gives BackSpace and Delete a meaning
  (1541-1542); with `no_smart_ed` set nothing makes the text that both write
  to before they take the syllable out (1618, 1629). `BimsEditing` has it as
  `Fail`, and `editing` gets there with its second client.
* "this should be far enough for this implementaion" (963, of 80 syllables):
  with `maxlen` 0, its initial value and that of the GTK client, nothing bounds
  the buffer. The arrays of bytes beside it (965, 1436) are of the same number,
  and hold a phrase of 39 characters.

Keymaps and syllables:

* "XK_Escape clear ZuYinContext" (1538): the key is ignored when only a tone
  was typed (1568), and the tone stays.
* The search in the table brings back a position larger than the number of
  entries (`tabe_yin.c` 90) and so reads one entry past the end, for 159 of
  the possible yins, all larger than the last syllable. Whatever is there,
  every syllable of the table is found (`EverySyllableIsFound`).
* With Eten26 and Hsu some syllables cannot be typed, because the keys of their
  symbols already mean another one together (`MCClashes`): most of them are
  a final alone, or an initial alone, which the table lists as the symbol.
  With Zozy and Eten every syllable can.

Segmentation:

* `doc/libtabe.sgml` 547: a chunk is Chinese characters only. What lies between is
  a chunk, too, with `num_tsi` -1 (`tabe_chu.c` 147-152), and every caller
  segments every chunk (`testtabe.c` 229, 271, 313; `bims.c` 2185): the first
  word found is written in front of the array.
* `tabeChunkSegmentationBackward` "return 0 if success, -1 if error"
  (`tabe_tsi.c` 547): where no word ends, not even one character, it does not
  return. `tabeChunkSegmentationSimplex` goes on to negative lengths there and
  overwrites memory. The complex method takes any character for a word.

Lexicon and utilities:

* `bimsTsiGuess` stores the first reading of each character, not the one that
  was typed (`bims.c` 2110-2126); a character the primary TsiDB has no reading
  for ends the process, and so does an empty text.
* `bimsUserTsiEval` puts its record in place of the one the word has: the
  other readings and the count are gone (3185-3227), while the TsiYinDB goes
  on listing them.
* Nothing lists the words again when the application starts: what a crash or a
  failed write left unlisted waits for the next new word (`StoredIsListed`).
* An empty TsiDB dumps a record without syllables, because the result of
  `CursorSet` is not looked at (3285; `util/tsiyindump.c` 58).
* `tsiadd` takes the place of the record a word has, with its count and
  readings (`util/tsiadd.c` 396); `%20s` cuts words at ten characters; the
  `-y` flag is not used. Seven words of `tsi-src/tsi.src` stand on two lines with
  different readings (94125 and 94126 are the first two), of which only the later
  is kept; `OneLinePerWord` excludes them. `tsidel` leaves `yin.db` as it is, and a second
  `tsiyindump` into the same file lists every word twice. `tsidump` loses
  invalid syllables, which is the condition in `RoundTrip`.

## 6. Not modelled, and the plan

Not modelled, and why:

* **GTKTsi.** It is in no Makefile, and calls `CursorSet` and
  `tabeTsiInfoLookupPossibleTsiYin` with one argument less than `tabe.h` 61 and
  96 declare: no program can be built from it at this commit, so the races of
  its dump thread (`GTKTsi.c` 927-1013) are races of no program.
* **The update of the databases in `bimsFetchText`** (2216-2307): its condition
  is a writable primary dictionary, and `bimsInit` opens it read-only.
* **The buffers of the database search** (575-711): the answers are joined in
  memory that the models do not have; what is found is the union.
* **`CursorPrev`, the cursor from a given key, and reading without syllables**
  (`DB_FLAG_NOUNPACK_YIN`): used for display, or not at all. **The packing of
  records** is abstracted to what survives it, which is everything a record
  of this library holds.
* **`bimstabeZhiToYin`, `tabeZhiCodeToZhi` and the characters of a syllable**:
  look-ups in constant tables without a decision.
* **The check of `tsiyincheck` for typing errors, `tsipackdb`, options and
  usage texts**: they change no database.
* The build files, the windows of the examples, the dictionary source.
