# Verification of JM-Core-Library

TLA+ models, model-checking configurations and TLAPS proofs of the diagnostic
core library in this repository. Paths below are relative to the repository
(`src/`) unless they name a module of this directory.

## 1. Inventory

| component | source | state it keeps | operations |
|---|---|---|---|
| lookup service | `jm/database.c` | the connection, five cached statements, the language, the class string of the live-data cursor | init, dispose, text, trouble-code and command lookups, live-data prepare/next |
| page encryption | `sqlite3/codecext.c`, `codec.c` | the codec of the pager: two keys and the flags that say which exist | sqlite3_key, sqlite3_rekey, one call per page read, written or journalled |
| ciphers and digests | `sqlite3/rijndael.c`, `sha2.c`, `codec.c` | the chaining value; the block being filled and the length counted | encrypt and decrypt in three modes; init, update, final |
| registration | `jm/register.c` | the path of `demo.dat`, the RSA key; the file itself | init, dispose, save, check, decrypt, id code |
| base 16/32/64 | `cyo/CyoDecode.c`, `CyoEncode.c` | none | encode, validate, decode |
| disk information | `jm/diskinfo-win.c`, `diskinfo-posix.c` | the serial numbers found so far | load, query |
| serial port | `jm/serial.c` (Android) | termios settings and modem lines of a descriptor | open, set attributes, poll, read, write, signals |
| live-data list | `jm/livedata.c`, `livedatavector.c` | a growable array of items that carry their own index | new, push back, index, dispose |
| arrays and strings | `eglib/garray.c`, `gptrarray.c`, `gstring.c` | a block, its capacity, how much of it is in use | append, insert, remove, resize, sort, free |
| lists and queues | `eglib/glist.c`, `gslist.c`, `gqueue.c` | nodes linked one or both ways; head, tail and length | the edits of GLib |
| hash table | `eglib/ghashtable.c` | chains of slots, the size at the last rehash, an iterator | insert, replace, remove, steal, iterate, rehash |
| sorting | `eglib/gqsort.c`, `sort.frag.h` | ranks of sorted lists; a stack of segments | merge sort of lists, quicksort of arrays |
| string splitting | `eglib/gstr.c` | the vector being built | `g_strsplit`, used by the registration for its lines |
| text functions | `eglib/gpattern.c`, `gshell.c`, `gmarkup.c` | the compiled pattern, the word being read, the parser's state and open elements | globbing, quoting and parsing of command lines, markup |
| character conversion | `eglib/gutf8.c`, `giconv.c` | the character a converter holds back | validation, offsets, UTF-8/16/32, `g_convert` |
| SQL extension functions | `sqlite3/extensionfunctions.c` | the tree of values of an aggregate | aggregates, string functions |
| processes | `eglib/gspawn.c` | pipes, children, descriptors | synchronous and asynchronous spawn |
| operating system of eglib | `eglib/gfile*.c` and others | files | read a file, replace a file |

How they interact: `database_init` reads the database password and the language
from the registration (two calls of `register_decrypt`, each of which reads and
decrypts `demo.dat` anew and splits the plain text with `g_strsplit`), hands the
password to `sqlite3_key`, and from then on every page that SQLite reads passes
through `sqlite3Codec`, which enciphers it in CBC mode under a key that MD5 made.
All of the lookup service's state is in file-scope variables: two sessions of one
process share it.

The registration finds the computer by its disks (`disk_info_load`) and decodes
its file as base 64. The texts the lookup service returns go through
`g_utf8_to_utf16`. The live-data list stands on the pointer array, its values on
the growable string; the markup parser and the command lines of `g_spawn` stand
on strings, arrays and lists; the serial port stands alone.

What is hard, and which properties make each part correct:

| component | hard behaviour | correct means |
|---|---|---|
| lookup service | statements cached over calls and sessions, a cursor interrupted by other lookups, a statement that repeats its last error | answers are those of the tables; rows come once and in order; dispose leaves nothing behind; no finalized statement is used |
| page encryption | two keys in one transaction, failure or crash anywhere in the rewriting, pages cached across the change of key | file and journal always recover to the last commit under one key; memory agrees with it |
| ciphers and digests | messages in chunks of any length, padding at the edge of a block, enciphering in place | the blocks compressed are those of the padded message; decryption inverts encryption, chaining included |
| registration | the file changes while it is read, or between the two readings of a login; partial writes; how many lines there are | an accepted file answers every question and is for these disks; a saved file can be read; a session has password and language of one file |
| disk information | three passes, any of which may fail, over a list that stays from load to load | each drive is listed once; what is listed is freed once |
| base 16/32/64 | padding, lengths that are no multiple of a block | decoding inverts encoding, inside the buffers; validator and decoder agree |
| string splitting | delimiters at both ends, next to each other, overlapping; limits | the tokens are those of a plain definition, nothing lost, vector large enough, the loop ends |
| serial port | read-modify-write without a lock, values that are not handled, interrupted and failing poll | lines and framing as asked last; poll ends and reports failures |
| containers | length, capacity, links and contents that must agree after any sequence of edits, growth included | each is the sequence, deque or dictionary its caller takes it for; nothing is lost, freed twice or reached outside of its block |
| hash table | removal and insertion under an iterator, keys that are equal but not identical, moving to a larger table | a partial function; an iteration meets what stayed exactly once |
| sorting | older lists first through ranks that are skipped; a stack of fixed size | sorted, stable (lists), within the ranks and the stack there are |
| text, conversion, SQL | state carried from one character, chunk or row to the next | what is read is what was written, wherever a chunk ends; no byte outside of the text |
| processes, files | several processes, ends of pipes, failures and kills at any point | what an answer TRUE or FALSE means is known, also where a failure falsifies it; nobody waits for ever but where nobody is left to end it; a file is the old one or the new one, or a named exception |

## 2. Modules

| module | models | how state and actions correspond |
|---|---|---|
| `Database` | `jm/database.c` | `slot` is the five static pointers with the statement behind each; one action per exported function, each the whole function: compile if NULL, reset, bind, step, and the nested text lookups of `database_get_trouble_code`. SQLite is external and may fail where `Faults` lets it. Texts are records that name the table cell they come from. |
| `PagerCodec` | `sqlite3/codecext.c` | `codec` is the structure with its flags; a page on disk is a content and the key it is sealed with. Actions: key, rekey (one step per page of its loop), commit and failure of it, and what the pager does with pages: load, evict, write, flush, commit, rollback, crash. |
| `CipherModes`, `Digests` | `sqlite3/rijndael.c`; `sha2.c` and MD5 of `codec.c` | one action per block; the cipher under one key is a permutation, a digest the sequence of blocks that are compressed |
| `Registration` | `jm/register.c` | `file` is a licence and how much of its base 64 text is there. A check or lookup is three steps (measure, read, answer), a save two (truncate, write), so that they interleave. Uses `StrTokens` for the lines. |
| `Login` | `database_init` of `jm/database.c` over `Registration` | the two calls of `register_decrypt`, each with its own reading of the file, and what the session has after them |
| `DiskInfo` | `jm/diskinfo-win.c` | the list and its array over loads; one action per pass and drive, with rights or without |
| `StrTokens` | `g_strsplit` by its result | the pieces between the occurrences of the delimiter (`Pieces`), and which of them the loop keeps (`Tokens`); abstract specification of `StrSplit` |
| `StrSplit` | `g_strsplit`, `add_to_vector` (the loop) | `spPos` is the moving pointer; one action per turn of the loop; tokens are intervals of the string |
| `BaseXX` | `cyo/CyoDecode.c`, `CyoEncode.c` | the three codecs are one with four parameters (bits, block sizes, padding) that `bxBase` selects, as their macros suggest; a character is its value in the alphabet, 64 or so for padding, 255 for others; decoder: one action per block |
| `SerialPort` | `jm/serial.c` | driver state, and per thread the call it is in and the copy it read; the system calls are the steps. `since` collects what other threads change while a call has its copy; `lost` and `raced` name the lines and the framing that a stale copy was written over. |
| `Memory` | malloc, realloc, memmove, memset | blocks as functions on `0..n-1`; `Inside` says which accesses are defined, and each container keeps what was not in a ghost |
| `PtrArray` | `eglib/gptrarray.c` | block, length and capacity; growth by doubling in the width of `guint`; implements `Vector` |
| `LiveDataVector` | `jm/livedatavector.c`, `livedata.c` | the pointer array and, of each item, its index field and whether it is live |
| `GArray`, `GString` | `eglib/garray.c`, `gstring.c` | block and lengths; beside them, in a ghost, the elements or characters that the calls' names say; any call may follow any other, until one has been outside of the block |
| `Chains`, `DList`, `SList` | `eglib/glist.c`, `gslist.c`, `gqueue.c` | nodes on a heap, pointer by pointer; implement `LinkedLists` (two sequences a caller edits, copies and joins); the queue stands on the list's calls and is in `DList` |
| `HashTable` | `eglib/ghashtable.c` | table of chains of slots; an iterator between its steps; implements `Dictionary` |
| `Sorting` | `eglib/sort.frag.h`, `gqsort.c` | ranks and the list left; array and stack; one action per insertion or segment |
| `Pattern`, `Shell`, `Markup` | `eglib/gpattern.c`, `gshell.c`, `gmarkup.c` | one action per character, per branch of the loop, per state of the parser; a character is its class |
| `Utf8`, `Conversions` | `eglib/gutf8.c`, `giconv.c` | calls on byte sequences; the loops of `g_utf8_to_utf16` and `g_convert` with the room they count |
| `SqlFunctions` | `sqlite3/extensionfunctions.c` | the tree row by row and the walks over it; string functions as operators on characters |
| `Spawn` | `eglib/gspawn.c`, both ways to start a process | parent, children, another child of the caller, and the ends of each pipe they hold; the calls of the system are the steps, each with the failures that the code looks at or does not |
| `FileContents` | `eglib/gfile.c`, `gfile-posix.c` | names, files and their blocks; writers, readers, kills, and the failure of every call of the system |
| `System` | - | `Spawn`, `FileContents` and `DiskInfo` beside each other, each at its own pace |
| `*Proofs` | - | theorems: `DatabaseProofs` (`Database` and `Login`); `EncryptionProofs` (`PagerCodec`, `Digests`, `CipherModes`); `SortProofs` (`Sorting`); `StoreProofs` (`PtrArray`, `LiveDataVector`, `GString`, `GArray`, `HashTable`); `ListProofs` (`DList` with the queue, `SList`); `ContainerProofs` (all containers, as `MCContainers` puts them together); `AlgorithmProofs` (digests, modes and sorts, as `MCText` has them among the other algorithms; `StrSplit`); `SystemProofs` (`System` and `SerialPort`) |
| `MC*` | - | tables, strings and licences for TLC |

Abstract specifications and what implements them: `PtrArray` implements `Vector`,
`DList` and `SList` implement `LinkedLists`, the queue a deque (`QIsDeque`),
`HashTable` implements `Dictionary`, and the final state of `StrSplit` is what
`StrTokens` defines. Compositions: `Login` is `Registration` used by the lookup
service; `LiveDataVector` is made of `PtrArray` calls, the queue of those of `DList`; `System` is
the conjunction of three specifications that share no variable.

`MCContainers` and `MCText` hold the parts that share no state with each other. A
variable `part`, fixed in the initial state, says which of them a behaviour is
about; the others do not move. Their properties are conjunctions, one name for
each question asked of all of them, whose parts are named and explained in the
modules: `SortsCorrect` is `LsCorrect /\ QsCorrect`, and `QsCorrect` in turn names
the partition, the stack and the order.

Operators named "Mutant" in a comment are changed forms of the definition that
follows; nothing uses them but experiments that check that a property would
notice such a change.

### Plan

Done: the lookup service, the page encryption, the registration and the login
over it, base 16/32/64, splitting, the serial port's settings and input, the
containers and the live-data list, sorting, text, conversions, the SQL
functions, processes, files, modes and digests, disks.

What is left, in the order in which it would be taken:

1. Proofs of what TLC finds true of the text conversions, patterns, command lines and SQL functions.
2. `SerialPort`: open, close and break, the transmit buffer and `write_serial`.
3. `Database` over the pages of `PagerCodec`: a session under a password of another file.
4. The remaining parsers and conversions: paths, `gmodule`, `g_strescape`,
   Windows 9x in `diskinfo-win.c`.

## 3. Runs

| run | question | bounds, and why they are enough |
|---|---|---|
| `db_lookups` | is an answer or a row ever wrong? | one session, two languages with a present, a NULL and a missing row; classes of 2, 1 and 0 rows; three functions, one of which nests a lookup of another |
| `db_sessions` | does anything outlive a session? | two sessions: a pointer can only be stale from an earlier one |
| `db_finalized` | finding: a finalized statement is used | two sessions |
| `codec_rekey` | does the file survive anything? | two used pages around the skipped one, so that one can be rewritten and one not; two keys and no key, two contents |
| `codec_writekey` | finding: a failed decrypting rekey leaves the codec writing plain text | the same |
| `registration_files` | may a check be wrong, or a session have halves of two files? | four computers, two with codes equal after the cut, one without disks; seven licences (letter case, fewer lines, no language, another key); 7 lines as in the code, codes cut at 3 characters instead of 15, an odd number too |
| `registration_saved` | finding: what is saved cannot be read | the same |
| `containers` | is every container what its caller takes it for, after any sequence of calls? | see below |
| `algorithms` | does every algorithm do what its name promises, inside its memory, and end? | see below |
| `base32_assert` | finding: valid text fails an assert | two characters of padding |
| `serial_clients` | do concurrent calls keep what was asked? | two threads, so that one writes back a copy that the other has made stale; three lines and the signal without a code; four requests; the groups of functions share no driver state, so each client uses one group |
| `serial_failure` | finding: a failing poll looks like a timeout | the same |

Bounds of `containers`, where constants of the code are scaled down so that the
case they decide happens with few entries:

- arrays: capacities from 2 instead of 16, `guint` of 4 bits, up to 4 entries of 3
  items: two doublings, and a quarter of `guint` is reached;
- strings: slack 1 and least block 2 instead of 16, sizes from 0, words of no, one and two characters,
  up to 3 characters: a growth, and an insertion that moves fewer cells than none;
  element arrays: blocks of 3 elements instead of 64, up to 4: two blocks, and `g_array_set_size` fills the first;
- lists: 4 nodes shared by two lists and a spare one, 2 data: first, middle, last, empty;
- hash table: sizes 1 and 5 instead of primes from 11, and 5 instead of 8 in the test of `rehash`; two equal
  keys at different addresses, two keys that fall into one bucket and then apart.

Bounds of `algorithms`, whose inputs are in `MCText`:

- `split`: all strings of up to 5 characters over 2, delimiters of 1 and 2
  characters, limits 0 to 3 and 7: every adjacency of two delimiters with both ends;
- base 16/32/64: inputs across a block boundary, all character sequences up to a
  block and a little, with padding and bad characters;
- sorts: all sequences of up to 6 keys of 3, and chosen ones of 7 to 15; segments under 3
  elements instead of 7 are left to insertion, so that segments are partitioned twice;
- patterns and subjects of up to 5 characters; lines of 4 characters and up to two words of two;
- UTF-16: texts of 4 characters of all widths; `g_convert`: texts of 3, a result of 2 bytes
  instead of 8 at first; UTF-8: leads with every byte that has a condition of its own behind them;
- markup: documents of up to 4 pieces, those of up to 3 cut in two everywhere, and 4 raw characters;
- SQL: up to 5 rows, and an unbalanced tree of 7; an `int` of 8 values, so that a value
  does not fit; strings of up to 3 characters of one and two bytes;
- spawn: pipes of 1 write, reads of 2 instead of 1024 bytes, programs of up to 4 writes: a
  program waits for room, a reader for data, and one read empties a pipe; another child or none;
- files: two writers of one call each and a reader, texts of 2 blocks: a file that is half of a text;
- digests: blocks of 8 bytes instead of 64 and words of 32 values instead of 2^32: lengths on both
  sides of one and two blocks, and one beyond a word; cipher: blocks of 2 bytes of 2 bits, texts of up to 3 blocks;
- disks: two drives, two loads, one answer that changes.

In `db_sessions` the connection of a closed session stays observable; with
`MaxSessions` the client stops, so deadlock is not checked there, nor for the
algorithms, which end, nor for the containers, whose parts are bounded.

Fairness: in `SerialPort` a thread that is in a call goes on with it (`WF` of its
own steps). The kernel schedules threads, and `poll` returns by its timeout.
Signals are bounded by `MaxIntr`, since the code restarts the timeout after each
and would not end if they kept coming. In `MCText` the loop of `g_convert` goes on,
being one thread's own code, and so do the caller and the children of `g_spawn`,
each scheduled on its own (`ConvertEnds`, `SpawnsEnd`): a program that is started writes its
script and exits, or is killed. Nothing makes another child of the caller end, which a failed
fork waits for (`SsWaitsForOther`), and nobody reads what a child writes once `select` has failed (`SsWaitsInVain`):
`SsEnds` excepts these two. The other loops end by a measure that decreases (`Advances`,
`QsShrinks`), without fairness.

## 4. Proofs

All theorems are for every value of the constants under the named assumptions of
the modules. Three of them say more than types and sizes:

- `IssueAssumption` (`Registration`): the first line of a licence sealed to this
  library is the id code of the disks it is for. It is what is issued, not what the code does;
  without it `IssuedFor` does not hold of any code.
- `PowerAssumption` (`PtrArray`): `2^k` is a positive number and `2^(k+1)` its double, the two
  facts of powers that the proofs use; TLC evaluates it for the widths of the runs.
- `PowersAssumption` (`Sorting`): the same, up to the length of the list or array.

**Database.** `TypeCorrect`, `NothingLeaks`, `ConnectionsClose`, `CursorStaysBound`,
`RowsDeliveredInOrder`, `EndIsTheEnd`, `OneSessionIsDefined` and `AnswersAreExact`,
from one inductive invariant. The
properties alone are not inductive: `Sessions` says that pointers of the open
session were compiled under the right key and that no pointer is of a later one,
`Freed` which session freed the string, `CursorAt` where the row pointer stands
between two calls. A lemma per exported function; `TrackAccounts` does the list of
statements for all of them. `AnswersAreExact` needs in addition that an error
left behind by a step is one the latest call on that statement met (`Answered`): so
the next reset tells it and the call after that is clean. `NestedTexts` follows the two
calls of `database_get_text` inside `database_get_trouble_code`.

**PagerCodec** (`EncryptionProofs`). `TypeCorrect`, `CrashLosesNothing`, `MemoryIsCommitted`,
`WhatIsWrittenCanBeRead`. That the journal holds committed pages (`Recoverable`)
needs what is in memory to be committed (`Faithful`), which needs the codec to
read with the key of the file (`RightKey`); that the commit of a rekey leaves one
key needs every page visited before `n` to be journalled (`Settling`) and flushed
under the new key (`Rewritten`). All of it holds until a codec that has lost its
write key has written a page (`spoiled`), the case of the finding.

**StrSplit** (`AlgorithmProofs`). `SplitTyped`, `SplitKept` (`Fits`, `Tiled` and `WithinLimit`), `LoopEnds`.
`Tiles` says how tokens lie to one another; `PointerAt` where the pointer
stands after the last one; `Uncut` that a token cut short at the final delimiter
can only be followed by one more.

**SerialPort** (`SystemProofs`). `PortTyped`, `LinesAsAsked`, `FramingAsAsked`: a line or the framing is as it was asked
last, unless a call that read the driver before another one wrote it has written its copy back (`lost`,
`raced`); the proof shows that nothing but such an overlap can set these. The
invariant adds that a copy is what the driver has but for what is in `since`
(`Fresh`), and which arguments a call has (`Typed`).

**Login** (`DatabaseProofs`). `LoginTyped`, `AcceptedIsUsable`, `AcceptedIsIssued`, `SessionOfOneFile`:
a reader during whose call nobody wrote knows the file (`Current`); a file that was
accepted has all lines, and who reads it now began after that (`Accepted`);
between the two readings the password is that of the file (`HalfWay`). How a text
is cut into lines is not used: `LinesOf` stays unexpanded.

**PtrArray and LiveDataVector** (`StoreProofs`). `ArrayIsSound`, `ListIsSound`,
`ArrayImplementsVector`. The capacity the array believes in is that of the block
(`Shape`). That the doubling ends and does not wrap (`EndsThere`, `Least`, `Rooms`) needs
that no more than a quarter of `guint` is asked for, since
`g_ptr_array_set_size` asks for the old length and the new one together. The list
adds that an item is live while the array holds it and that its index is its last
position (`Held`, `Owned`). For the refinement one lemma per function shows that
the sequence of entries takes the step of its name; `g_ptr_array_sort` by the
permutation that it applies.

**GString and GArray** (`StoreProofs`). `StringCorrect`, `StringStaysInside`, `PrependStillReads`, `ArrayCorrect`,
`ArrayStaysInside`, and the types. Any call may follow any other, those on a string whose length an insertion
has left behind (`strLoose`) and on an array that `g_array_set_size` has grown included. `StringCorrect` is what
holds of the contents (only while `len` is theirs) and of the room behind them (always); the two theorems on
staying inside name the only calls that do not: `g_string_sized_new(0)`, the insertion of at least two characters more than
follow the place, and `g_array_remove_index` on a full array. `StrInv` has the properties with the size of the block
named (`Spells`: the characters at the start, NUL behind them). `GaInv` adds that there is room for the element of zeros
unless the size was set and nothing else was called since. `EnsuredBlock` is followed through both of its users.

**HashTable** (`StoreProofs`). `HashCorrect`, `NeverShrinks` and `IsDictionary`, the refinement of
`Dictionary`, from `HInv`: the table as a data structure (`HShape`), its room (`HKeepsRoom`), its
owners (`HOwnsKeys`) and the iterator (`Fits`). `HashTableAssumption` is about the table of primes
(ascending, and one of them not below the number of names) and the load, three at least.

- Moving the slots: the order in which chains are read is a strict order of finitely many
  places, so that the k-th place (`Nth`) names each of them once (`Ranked`, by the least number with a
  property and no induction). Then the chains after a rehash hold the slots they held before,
  each in the bucket of its hash.
- The room: after a removal the difference from the last size cannot be large enough for
  `rehash`; this needs that `last_rehash` is below the size except in a new table.
- The iterator: a key has been returned if and only if its slot is not ahead (`Ahead`) of
  where the iterator stands (`Behind`). A removal of other keys keeps the order of the slots
  (`OrderSaved`), and so what is ahead.
- The dictionary: the place of a search depends on the chains, and what it finds does not (`LooksUp`):
  a call is a `Put` of one name, the leaving of some, or neither.

**DList, the queue and SList** (`ListProofs`). `QueueCorrect`, `QueueTyped`, `DListKeepsOrder`,
`SListSound`, `SListTyped`, `SListPurges`, and the refinements `DListIsSequence`, `QueueIsDeque` and
`SListIsSequence`. That neighbours agree is not inductive, since a ring that no head reaches would agree too.
`QInv` (three chains: the list, the spare one, the queue) and `SInv` (two) say that following `next`
from a head gives a sequence of distinct nodes that ends in NULL (`Along`; with `prev` the other way, `DAlong`),
that the chains share no node and take up the heap between them.

- `Follow` walks at most as many steps as there are nodes. `ListIs` turns it into the sequence that
  the chain is, and from there on all arguments are about sequences: an entry more (`Ins`) or less (`Del`),
  two joined, one reversed or permuted.
- For each operation a lemma says which sequence the chain is afterwards, and that the nodes
  outside the chain are as they were (`Edit`, `SEdit`). The framing of the other chains, and what
  `LinkedLists` says of the data, follow from that alone.
- The loops: `g_list_remove_all` by the number of turns that are left (`Left`, by the least number
  for which it would fail and not by the library's induction), `g_slist_remove_all` likewise, since its
  pointer stays where it is after a removal; `g_list_reverse` through the exchange of the two pointers of all nodes.
- The order of the sorts exists (`StableExists`), by the number of nodes that come before each
  (`PlacesRanked`), so that `StableOrder` chooses something, and it is the one permutation that
  `SortedStably` asks for.

**All containers** (`ContainerProofs`). `ContainersTyped`, `ListsAreLinked`, `ContainersImplement`, `WordIsKept`:
a step of `MCContainers` is a step of one container and leaves the others alone (`PartsStep`), so that what is proved of each
holds of the specification that TLC runs.

**Digests** (`EncryptionProofs`). `DigestTyped`, `DigestOfAll`, for every length of message, size of block
above three and word that counts whole blocks. `DgInv` says that the counters are those of what was sent
(`Md5CountOf`, `ShaCountOf`), that the array begins with the bytes of the block that is not complete (`Begun`; what follows them
may be anything), and that the blocks compressed are the whole blocks of the message (`WholeOf`). The two final functions make
the same cells of that (`PaddedTail`), by different thresholds (`PadBlocks`).

**CipherModes** (`EncryptionProofs`). `ModesTyped`, `ModesAreRight`, for every permutation, initial vector
and text, and blocks of two or three bytes of two bits: `CipherModesAssumption` asks that a byte can say how much padding
there is. What CBC defines is a recursive function; that it exists is shown for any function that is stepped from 0 to N
(`Steps`), by the least number for which there is none (`UpTo`).

- `CmInv`: while a call runs, the blocks done are those that the mode defines, the rest of the
  memory is the input where the two are one (`Worked`), and the chain is the block before.
- In place, a block is read before it is overwritten, and decryption takes its chain first: this is why
  the chain is compared with the ciphertext the call was given (`Decrypting`) and not with the memory.
- CFB1: the bits of one block, by the shifts of the register (`Shifts`, `Streamed`). The model says nothing of more blocks.
- The padding: how much there is can be read from the last byte (`TextOf`, `MorePadded`), and
  padding what was unpadded gives the same ciphertext (`OnlyPadded`).

**Sorting** (`SortProofs`). `ListSortIsStable`, `ListSortTyped`, `QuickSortSorts`, `QuickSortTyped` and
`QuickSortNarrows`, for every list, every array and every `MAX_THRESHOLD` from three. The loops of the code are
recursive functions here; that each has a value is proved from what is left to do becoming less: of a merge
by the number of nodes left (`MergeIs`), of the insertion sort and the partition by a lemma on loops (`LoopHas`), which
takes the state that the loop comes to, in however many steps. For that each function has a set of states as its domain, which a step does not leave.

- Merge sort (`LsInv`): ranks are in order (`Ranked`), and every node that was taken is in one of them, the older ones higher
  (`Placed`). A merge takes the node of the first list when keys are equal, and that list is the older
  (`MergeListsIs`); `Chain` says so of the ranks an insertion or the last sweep goes through. That a list
  with every node and in order is as long as the input (`AllOnce`) makes the result the one stable order.
- Quicksort (`QsInv`): the array is a permutation of the input (`Shuffled`), elements in the wrong order are in one
  segment of the stack (`SortedBut`), and the stack is one of segments that are apart, each not longer than those below it and the
  j-th with at most `n / 2^(j-1)` elements (`Stacked`), from which its depth follows. The larger part is pushed first:
  the smaller one has at most half of the segment (`PushedIs`). `Going` is the invariant of the two scans: what they have passed is not
  greater, or not less, than the pivot, which the exchanges may move (`OneTurn`).

**Digests, modes and sorts among the algorithms** (`AlgorithmProofs`). `EncryptionIsRight`, `SortsAreRight` and `QuickSortEnds`:
`CryptoCorrect`, `SortsCorrect` and `QsShrinks` of the specification that TLC runs, by the same argument as for the containers.

**System** (`SystemProofs`). `SystemSound` from one theorem for each part:

- `SpawnSyncCorrect`: who holds which end in which state of the two processes (`SsEndsHeld`), that
  a stream the parent has closed was at its end (`SsSeen`), so that TRUE means all of the output unless
  `select` failed, and how the child ended (`SsTold`), so that a status is that of a program that did all of its writes;
- `SpawnAsyncCorrect`: what is in the pipe between the processes says which step the one that
  runs the program is at (`SaWords`); it depends on whether there is a first child, on the
  inverted test of the flag (`saLeave`), on a first child that could not fork (`saTorn`) and on a
  caller that has gone because a call failed (`saCut`);
- `FileContentsCorrect`: while no two writers met (`FcAlone`), the file
  under the temporary name is the one writer's, as far as it got (`FcWriter`), and never one that a
  reader has open (`FcReader`): a rename changes what a name stands for and no file;
- `DiskInfoCorrect`: the list holds what was told in this load, in the order of the first answer (`DiKnown`).

What an answer means when something fails is part of these theorems, not an assumption of them:

| call | answer | although |
|---|---|---|
| synchronous spawn | TRUE, no status | the child was killed |
| | TRUE, status 1 | there is no such program |
| | TRUE, with the status of another child, which is reaped, or unset | fork failed: `waitpid (-1)` takes any child (`gspawn.c:290`) |
| | TRUE, garbage as the status | `waitpid` failed (`gspawn.c:292`) |
| | TRUE, with part of the output | `select` failed (`gspawn.c:170`) |
| | FALSE, no status | nothing was started, or a read failed and the child may run on |
| asynchronous spawn | TRUE | the first child could not fork (`gspawn.c:447` compares the raw status), was killed, or the flag closed the info pipe (`:417`) |
| | FALSE | the program runs: `waitpid` failed (`:447`), or a signal came during the last read (`:470`) |
| `g_file_get_contents` | TRUE, with unset bytes | a read failed (`gfile-posix.c:94`) |
| `g_file_set_contents` | TRUE | `fclose` could not write the rest (`gfile.c:145`) |

Model-checked only: the other parts of `MCText`, that is `TextCorrect`
(with `AsPromised`), `ConversionsCorrect`, `SqlCorrect` and the types of all of them together
(`AlgorithmsTypeOK`), most of which define what is right by recursion over the data; and everything that is liveness:
`PollEnds`, `ConvertEnds`, `SpawnsEnd`.

## 5. What the models leave out

Memory exhaustion; the mathematics of AES, MD5, SHA-2 and RSA (a page opens with its own
key only, a ciphertext decrypts whole or not at all; the rounds are a permutation, the
compression a sequence of blocks), RC4 and the derivation of keys; the wording of texts;
`wchar_t` against UTF-16; attached databases; shared cache between connections;
hardware flow control, which moves RTS by itself; `open`, `close`, `write` and break of
the serial port; Windows 9x in `diskinfo-win.c`; paths, modules, dates and directories of
eglib, which are calls of the system or formatting; floating point functions of SQL;
`register_init` and `register_dispose`, called once. Components without a module are
listed in `PROJECT.json` with the reason: SQLite's shell and header and the OpenSSL headers,
which are most of the lines of this repository, hold no logic of this library.

A model's step of `fork`, `waitpid`, `select`, `read`, `fopen` and the like has every failure
that the caller can see; left out of them are calls that a signal interrupts where the code repeats them, a read of the info
pipe that fails otherwise, closing a descriptor twice (`gspawn.c:145`, `:457` and `:472`, where another
thread may have got its number in between), and programs that fill a pipe they do not read. In `SqlFunctions` integers are
small; `_substr` looks one byte behind the terminator (`extensionfunctions.c:1018`), since a text is
a sequence of characters there and not a block, and a count of 64 bits that a string function
multiplies, allocates by or reads as `int` (`:699`, `:1062`, `:1094`) is one that fits.
A second `database_init` without a `database_dispose` between them is no call of `Database`
(it loses the first connection).

Seen while modelling, against a comment of the repository. The properties that cover the place leave the answer open,
so that they neither take the code's word nor the comment's:

- `g_strsplit` (`eglib/gstr.c:237`): "if the last character is a delimiter", an empty token is to be left behind it;
  the code does so except after another empty token (`"x\n\n"` gives the same two tokens as `"x\n"`). `AsPromised` allows
  both. `Registration` uses the tokens there are, and has a licence of that kind: without a language and a log
  password it has six lines for the library and is refused.
- markup: the head of `eglib/gmarkup.c` (line 4) has no hope for parsing in pieces, though most cuts are harmless;
  nothing is said of events of a document in pieces. `g_markup_parse_context_end_parse` is to "always signal errors"
  (line 468), but elements left open and misnamed closing tags are accepted; `MkReadsPieces` asks only
  that documents without any fault pass and that others are refused where a tag or a text cannot stand.
- `g_utf8_validate` (`eglib/gutf8.c:113`): the comment says that overlong sequences pass and that 0x10ffff is not checked; the
  code refuses both. `U8ValidatorExact` leaves that open: it bounds the place where validation stops from both sides.
- `g_spawn_async_with_pipes` (`eglib/gspawn.c:379`): the comment wants the error of a failing exec to reach the caller; with
  `G_SPAWN_LEAVE_DESCRIPTORS_OPEN`, whose test is inverted (`:417`), the pipe is closed before, and the caller is answered TRUE.

Seen while modelling, without a promise in the repository that they would break:

- patterns: `*` does not match the empty string, and `?*` not a single character (`PtComplete` says exactly when).
- command lines: in single quotes the reader of `g_shell_parse_argv` takes a backslash as an
  escape, which `g_shell_unquote` does not; an escaped space between words is dropped.
- text to UTF-16: illegal UTF-8 answers NULL, which `database_get_text` then copies from.
- `g_utf8_find_prev_char` and negative offsets test for a byte that no UTF-8 text has, and so
  step by bytes; the validator looks behind the NUL of a character that is cut short.
- strings: `g_string_prepend` and `g_string_insert` leave `len` as it was (`strLoose`), so that the next
  append or prepend goes by the old one and overwrites the tail, or the terminator; `g_string_sized_new(0)` writes
  its terminator into no cells (`gstring.c:69`); `g_string_insert` of more than follows moves a number of cells that has wrapped
  (`gstring.c:178`). No caller in the library makes these calls.
- arrays: `g_array_remove_index` on a full array reads the cell behind it (`garray.c:183`); `g_array_set_size` leaves a zero-terminated
  array full, without its element of zeros, when it grows to a multiple of the block, and does nothing at all
  when the size asked for is the capacity.
- hash table: `g_hash_table_destroy` is modelled as `remove_all`, after which nobody asks the table again.
- markup: text is never reset between two elements, so that it is told again with the next.
- SQL: `rightstr` of a negative number starts behind the string; integers of 64 bits are read as `int` by the aggregates.
- spawn: the answers in the table of section 4; in the synchronous call a child may stay a zombie after a failed
  read, and the read ends of the caller stay open after a failed `select`; in the asynchronous one the caller's ends stay
  open, and are not told, when the program cannot be run (`gspawn.c:472` closes those that were closed before).
- files: the answer of `fclose` is not looked at, nor that of `read`; all writers of one name share one temporary name.
- ciphers: CBC encryption of zero whole blocks writes one; the padded ECB decryption refuses a whole
  block of padding, which the encryption makes; CFB1 is right in place and for one block only.
- disks: the order of the serial numbers, and so the 15 characters of the id code, depends on which
  pass answered; on other platforms nothing is listed and the code is empty.

## 6. Findings

Each run below stops at a state that the quoted line of the repository excludes.

- `db_finalized`: `database_dispose` leaves the static statement pointers set; the
  next session uses finalized statements (`jm/database.c:41`).
- `codec_writekey`: a decrypting `sqlite3_rekey` that fails leaves the write-key
  flag cleared (`sqlite3/codecext.c:235`, `:323`).
- `registration_saved`: `register_save` writes the terminating NUL, so that the
  file is not base 64 (`jm/register.c:146`).
- `base32_assert`: text that the validator accepts fails an assert of the decoder
  (`cyo/CyoDecode.c:272`).
- `serial_failure`: the assignment of `*error` in `poll_serial` is never reached
  (`jm/serial.c:552`).
