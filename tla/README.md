# A verification project for first_project

The repository holds two things: the Windows program *Search*
(`src/Search_desktop/Search`), a single-instance window that lists the start
menu, and the sources of the ICU 58 "common" library, three times
(`src/common`, `src/Icuuc`, and the part of it that `src/icu_demo` needs).
This directory models the parts of both in which order, concurrency and
failure matter, checks them with TLC and proves the main results with TLAPS.

## 1. Inventory

| Part | State | Operations | What makes it hard | What makes it correct |
|---|---|---|---|---|
| Start-up and notification: `main.cpp` | the window found, the answer | `AttemptFastNotify`, `_tWinMain` | processes interleave; the asked program hangs, dies, ends or answers late | one frame when launches do not overlap; a launch ends by itself only if its request was handled; it never waits for ever |
| Message-only window: `message_window.cpp` | `window_`, `callback_`, `user_data_` | find, create, `WindowProc`, destructor | look and create are two steps; the static outlives the frame | marks a running program, and only one |
| Search frame: `search_frame.cpp` | frame window, `list_box_`, panels | show, `WM_COPYDATA`, minimise, maximise, close, panels, context menu, start-menu traversal | sent messages arrive inside other work and after the frame is gone; results ignored | can be found while it is open; raised when asked |
| Command line: `command_line.cpp` | `argv_` | parse, query, write out | written without quotes and parsed again by another process | the receiver sees what the sender meant |
| Search box: `search_box.cpp` | a delay timer | `PrepareSearch` | the timer restarts at each key | (nothing handles it yet) |
| Everything helper | a lock, a service connection | not called | | |
| One-time initialisation: `umutex.h`, `umutex.cpp` | `fState`, `fErrCode` | `umtx_initOnce`, `reset` | many first callers; errors; resets | runs once; complete before anybody passes; everybody learns the error |
| Mutex, condition variable: `umutex.cpp` | critical section, two gates, `fWaitCount` | lock, unlock, wait, broadcast | broadcasts and waits overlap in the middle of either | a broadcast wakes all who wait; nobody is stranded |
| Unified cache: `unifiedcache.cpp` | table, items in use, policy | `get`, `flush`, eviction slice, `setEvictionPolicy` | creation outside the mutex; waiting; eviction against use | one creator per key; same value while held; counts exact |
| Reference-counted objects: `sharedobject.cpp` | hard, soft and total counts, `cachePtr` | `addRef`, `removeRef`, soft references | atomic steps outside the mutex | deleted once, at the last reference, not touched later |
| Cleanup registry: `ucln_cmn.cpp` | tables of cleanup functions | register, `u_cleanup` | order; initialisation after cleanup | each cleanup once, and whatever exists is registered |
| Services and notifier: `serv.cpp`, `servnotf.cpp` | factories, three caches, timestamp, listeners | register, get, visible IDs, display names, reset, notify | an unlocked test of the listeners; display names read after the unlock; caches of caches | caches agree with the factories; listeners are told of each change |
| Converter cache: `ucnv_bld.cpp`, `ucnv.c`, `ustr_cnv.cpp` | shared data with counts, the default converter and its name | open, clone, close, flush, lend the default | counts against flush; data that refer to data; tests without the mutex | no data freed in use, all freed at the end; one user of the default converter |
| Resource bundles: `uresbund.cpp` | entries with counts, parents, aliases, pool | open, copy, items, close, flush | chains of counts that many bundles share | counts exact; the chain of a bundle is what its name says |
| Strings: `unistr.cpp`, `unistr.h` | text in the object or in a counted array | append, replace, truncate, assign, move, swap, open buffers | copies on several threads share an array until one is changed | no string sees the change of another; arrays freed once |
| Hash table: `uhash.c` | slots, count, size | put, get, remove, grow | marked slots; no memory; who owns the keys | a mapping; never full; keys deleted once |
| Sets of code points: `uniset.cpp` | an inversion list | add, remove, retain, complement | editing in place at the borders of ranges | the set the caller built |
| Normalisation buffer: `normalizer2impl.cpp` | text, the place where reordering may begin | append, insert, remove, grow | surrogate pairs; positions after growth | canonical order; what is settled stays |
| Sorting, comparison, look-up, Punycode: `uarrsort.c`, `ustring.cpp`, `ucmndata.c`, `punycode.cpp` | none | one function each | boundaries, neighbours, two ways to count | a result that a definition gives |
| Data loading, conversion, break iteration, IDNA and the rest of ICU | tables in files | | | pure functions of large data |

How they interact. Two *processes* of Search share nothing but windows: the
second one finds the message-only window of the first, grants it the right to
the foreground and sends `WM_COPYDATA` synchronously with a time limit; the
first one answers from its message loop through
`MessageWindow::WindowProc` and `SearchFrame::MessageOnlyWindowCallback`. The
*threads* of an ICU client share the cache: `UnifiedCache::getInstance` goes
through `umtx_initOnce`, every cache operation through `gCacheMutex`, a thread
that meets a value under construction waits on a condition variable, and
`SharedObject::removeRef` calls back into the cache; a value whose destructor
releases other cached values calls back from inside a flush or a slice. The
other registries count what they share in the same way, each under a mutex of
its own (`cnvCacheMutex`, `resbMutex`, a service's lock and `notifyLock`), and
`u_cleanup` empties them. The hash table is under all of them. Search itself
does not link ICU in this version.

The Windows branch of `umutex.cpp` is the one modelled: all project files in
the repository are Visual Studio ones. `src/Icuuc` is the same library one patch
release earlier; its `unifiedcache.cpp` and `umutex.cpp` are the same text as in
`src/common`, which is the copy modelled.

## 2. Modules

| Module | Models | State and actions |
|---|---|---|
| `LaunchProtocol` | abstract: what a launch promises its user | `phase` of each launch |
| `SearchInstance` | `main.cpp`, `message_window.cpp`, `search_frame.cpp` | `pc` is the place in `_tWinMain`; one action per system call that another process can notice; `Deliver` is the whole `WM_COPYDATA` handler; `DestroyFrame`, `EndLoop`, `Exit` are the three stages of a normal end |
| `MCSearchInstance` | symmetry for TLC | |
| `SearchInstanceProofs` | theorems | |
| `CommandLine` | `command_line.cpp` and the framing | operators for parsing and writing, four stages from the typed line to the answer |
| `OnceCell` | abstract one-time initialisation | `outcome`, `call` |
| `UInitOnce` | `umtx_initOnce` with error code | one action per access to `fState` or `fErrCode`, and `Reset` |
| `UInitOnceProofs` | theorems | |
| `CondVar` | abstract mutex with condition variable | `owner`, `sleep` |
| `UConditionVar` | the two gates | one action per call of the Windows API |
| `UConditionVarProofs` | theorems | |
| `MCUMutex` | `UInitOnce` or `UConditionVar` | `part` chooses one |
| `UnifiedCache` | the cache and its objects | what happens under `gCacheMutex` is one step, except slices and flushes, which visit one element a step because `removeRef` runs beside them; one action per access of `removeRef` |
| `UnifiedCacheProofs` | theorems: what each action changes and who creates a value; counts, deletion, values and the number of items | |
| `MCUnifiedCache` | keys, objects and policies for TLC | |
| `CompositeCache` | the cache with values that refer to other values | one thread with a stack of calls: flush, slice, destructor, `removeRef` and `createObject` at any depth. A `createObject` gets the values that its own refers to (`CreateGets`); it ends (`CreateEnds`), or it fails at any point, by itself or because a value that it needs cannot be had, gives back what it got and leaves `gNoValue` with an error (`CreateGivesUp`, `CreateReleases`, `CreateFailEnds`). `ClientCloses` is the destructor of the cache |
| `CompositeCacheProofs` | theorems: counts and references at every depth of calls; what a flush and the destructor leave | |
| `MCCaches` | `UnifiedCache` or `CompositeCache` | `part` chooses one |
| `ConverterCache` | converter data, converters, the default converter, cleanup | a locked section is one step; a call (`job`) goes through several, with its unlocked tests between |
| `ConverterCacheProofs` | theorems: who owns a converter; counts of data; what a flush and the cleanup free | |
| `ResourceBundleCache` | entries and bundles | one action per call, since each holds `resbMutex` throughout |
| `ServiceRegistry` | a service with its notifier | a locked call is one action; `TestListeners` and `NotifyChanged` are the two halves of `notifyChanged`; `GetDisplayNames` is the locked part of that call and `NamesRead` the loop over `dnCache` after it |
| `ServiceRegistryProofs` | theorems | |
| `UnicodeString` | strings with copy on write | a step has at most one access to a counter; `task` is the call a thread is in |
| `UnicodeStringProofs` | theorems | |
| `MCUnicodeString`, `MCSharedObjects` | instances for TLC | `MCSharedObjects` holds `ConverterCache`, `ResourceBundleCache`, `ServiceRegistry` and `UnicodeString`; `part` chooses one |
| `HashTable` | `uhash.c` | `elements`; one action per call, `PutWithoutMemory` when growth fails |
| `InversionList` | `uniset.cpp` | `list`; one action per operation, each the branches or the merge loop of the code |
| `ReorderingBuffer` | `normalizer2impl.cpp`, `.h` | `buf` (units, `reorderStart`, `lastCC`, room) |
| `SortArray`, `CodePointOrder`, `TocSearch`, `Punycode` | functions | operators; no variables |
| `MCAlgorithms` | the sequential code | `part` chooses a state machine, or `job` a call of a function and `result` what it returns |

The modules that hold several parts (`MCUMutex`, `MCCaches`, `MCSharedObjects`,
`MCAlgorithms`) do not compose them: the parts share no state in the code
either, and one behaviour is about one part.

History variables: `served` and `excuse` in `SearchInstance`, `epoch` and
`runs` in `UInitOnce`, `owed` in `UConditionVar`, `stale` in `UnifiedCache` and
`ConverterCache`, `crashed` in `CompositeCache` (the model stops where the code
would have used a null pointer), `heard` in `ServiceRegistry`, `value` and `torn` in
`UnicodeString`, `contents`, `keyObjects`, `leaked` and `broken` in `HashTable`,
`members` in `InversionList`, `fixed` and `appended` in `ReorderingBuffer`. They
record what a caller expects or what has gone wrong. None of them changes what
the code does next; those of `ReorderingBuffer` also bound the length of the
text.

Definitions whose comment begins with "Mutant:" are not part of a
specification. Each is a plausible slip in the definition that follows it, kept
to show that a property fails when the code is wrong in that way.

## 3. What TLC checks

| Run | Instance | Shows |
|---|---|---|
| `instance_safety` | 3 processes, symmetric | one frame, reachable (unless an excuse has occurred); the foreground is where the request is handled, unless two programs had windows at once; requests queued once and answered once; implements `LaunchProtocol` |
| `instance_live` | 2 processes | every launch ends or serves: without the timer when the message loops dispatch, and through the timer when the asked program hangs |
| `instance_unique` | 2 processes | **violated**: two markers of "the" running instance |
| `umutex` | one-time initialisation: 3 threads, 2 errors; condition variable: 3 threads | initialisation runs once, implements `OnceCell`, every call ends; counter and gates, implements `CondVar`, a broadcast wakes all who wait |
| `cache` | threads: 2 threads, 2 keys (one may alias the other), 2 objects, everything unused is evicted, slices of 3; references: 3 keys in every acyclic pattern of references, 2 policies, slices of 2 | counts, deletion, one creator, same value, no lost wakeup, the mutex is given back; nested slices and failed creations keep the counts exact, a flush is complete, the destructor leaves only what clients hold, calls end |
| `cache_stale` | 2 threads, 1 key, 1 object | **violated**: `removeRef` reads a deleted object |
| `composite_nested` | 3 keys, slices of 2 | **violated**: a slice inside a flush empties the table, and the flush looks at a null element |
| `shared_objects` | 2 threads; a base, an extension and a converter that uses both, 2 data, 2 converters; 10 bundle names with an alias, a `%%Parent`, a pool; 3 factories, 3 ids that fall back to each other; 4 strings, 3 arrays | counts exact, nothing freed in use, everything freed by a flush or `u_cleanup`; one user of the default converter; fallback chains right; service caches in step with the factories, listeners told; strings independent |
| `names_snapshot` | the services of `shared_objects` | **violated**: `getDisplayNames` reads names that another thread has deleted |
| `string_replace` | 2 threads with 2 strings each | **violated**: `doReplace` copies from an array it no longer owns |
| `algorithms` | 2 arguments of 4 tokens; a table of 3 or 5 slots; code points 0 to 5; texts of 4 marks; arrays of 7; strings of 3 units; Punycode of 4 characters or 5 units | words arrive, `--name` is never lost; table, list and buffer are what was put in; results are what the definitions say; Punycode is a bijection where it succeeds |
| `punycode_digits` | Punycode of 4 characters | **violated**: non-ASCII characters pass for digits |

Each property named for a whole part (`CacheInv`, `CompositeInv`,
`DataInv`, `ServiceInv`, `StringInv`, `TableInv`, `BufferInv`,
`ResultsRight`, `WordsArrive`) is a conjunction of named invariants beside it,
each with its own comment.

Why the bounds are enough. *Search*: a race needs two launches, and a third
lets one interfere with the exchange of two others (it takes the foreground,
or finds the second window); the proofs remove the bound for all of the safety
properties. *Command line*: the longest pattern that matters is a word, a
blank, the switch and "=", four tokens; two arguments are enough for duplicate
keys and for order. *One-time initialisation*: one thread runs, one spins, one
arrives late; two errors tell a stale error from this run's. *Condition
variable*: one thread broadcasts, one is between the gates, one arrives at
either; the proofs hold for any number. *Cache, threads*: one thread releases
while another gets, flushes or evicts; two keys give a shared value, a nested
`get` and an element to evict while another is in use; three visits of a slice
go beyond the number of elements, as the ten of the code do in a small cache.
Objects are allocated at most as often as `Obj` has members: afterwards
`createObject` only fails, which is a path of its own. *Cache, references*:
three keys give a chain, a fan and a value shared by two; a slice of two ends
in the middle of the table; the policies evict everything or all but one. *Converters*: two threads meet at every unlocked test; one extension
on one base shows both orders of a flush, and two data are an extension with its base, or
a private copy of a package beside the cached data; the proofs hold for any
number. *Bundles*: two open bundles share their
chains or not; the names bring together every kind of link. *Services*: three
ids are a way down with a middle, where a lookup may come upon a cached id that
is not the one that was made; three factories give a visible one over an
invisible one, two for one id, and one below both. *Strings*: the object's buffer is one unit and
the texts one and two, so that each operation crosses the border both ways;
three calls are one to share an array and two to race on it; two strings for
each thread are a source and a target; an allocation takes any free array, and
three (four in `string_replace`) are as many as three calls can have live at
once, while its failure is always a possibility of its own. *Hash table*: two sizes of table with keys that collide at one or both
steps, and all reached by puts and removals with growth that fails. *Code
points*: six code points hold every arrangement of three ranges, the end of
the list among them. *Buffer*: four characters with classes 0, 1, 220 twice and
230, of one or two units, cross two growths. *Sorting*: with `MIN_QSORT` 3
(9 in the code) seven elements are divided twice. *Table of contents*: all
tables of four names of length three over two letters have every pattern of
shared prefixes. *Punycode*: the characters stand at every border of the code
(basic, delimiter, first, last of one unit, surrogates, digits); `MAX_CP_COUNT`
is 4 (200 in the code), so that its overflow occurs.

Deadlock is checked in `umutex`, `cache` and `cache_stale`. In `MCUMutex` the
step `AllAsleep` stands for three threads that wait with nobody left to
broadcast, which is not a deadlock of the gates; in `MCCaches` the cache with references ends, closed or found broken, in the step
`Stopped`. It is not checked where the modelled system may stop or has nothing
to wait for: `SearchInstance` ends when all is done, `composite_nested`
ends at the violation or at the destructor, and in `shared_objects`,
`names_snapshot`, `string_replace`, `algorithms` and `punycode_digits` the bounds on calls,
changes and memory end the behaviours.

### Excuses

`excuse` records what has gone wrong so far: a launch began while another was on
its way ("overlap"), a send timed out ("timeout"), the message-only window could
not be created ("nocreate"), or one was created while another program had one
("twins"). Crashes, closes and failed sends are not excuses.

* `OneFrame` and `FrameIsReachable` are claimed while nothing is excused. The
  first three are the ways to a second frame or to one that cannot be found, so
  these two properties say nothing about the hazards behind them: what
  overlapping launches do is shown by `UniqueRunning`, and that the code ignores
  a failed `CreateMessageOnlyWindow` (`search_frame.cpp:238`) is a state of the
  model which no property forbids.
* `GrantReachesReceiver` is excused by "twins" alone: it holds through timeouts,
  requests that are handled late, failed windows and overlapping launches, until
  two programs have had a window at once. From then on a second launch can grant
  the foreground to one program while a request lies with the other.
* `RequestInv` and `LaunchPromise` have no excuse.

### Fairness

* `StartSpec`: the start-up code runs on. `HostSettles` adds, as a premise, that
  every message loop keeps dispatching (`RunFrameWindow` is a `GetMessage`
  loop), and nothing of the timer; `TimerSettles` that `SendMessageTimeoutW`
  comes back, and nothing of the program that is asked. Nothing is ever assumed
  of users, who launch, minimise, close and kill.
* `UInitOnce` (`InitOnceFairness`): a thread inside `umtx_initOnce` is scheduled and the function
  it runs ends. Weak fairness is enough, since nothing takes a state away from
  a thread that may go on.
* `UConditionVar` (`GateFairness`) and `UnifiedCache`: weak fairness for steps that stay
  enabled, strong fairness for taking the mutex, since a critical section can
  be taken by others between two tries; a thread that keeps finding it free
  gets it. Callers unlock and `createObject` returns. Nobody has to broadcast,
  and a wait need not end by itself.
* `CompositeCache`: a call that is under way takes its next step. New calls
  need not come.
* The registries and the strings are checked for safety only: every call of
  theirs is a bounded sequence of steps, none of which waits for another thread
  longer than a mutex is held.

### Disagreements found

* The message-only window is titled "...search.unique.running..."
  (`message_window.cpp:12`), but look-up and creation are separate steps
  (`search_frame.cpp:237-238`): overlapping launches produce two.
* `SharedObject::removeRef` is documented as thread-safe (`sharedobject.h:101`),
  but reads `cachePtr` (`sharedobject.cpp:44`) after giving up both counts. In
  between, a flush or slice on another thread may delete the object. The model
  goes on with either outcome of that read; `ItemsEventuallyExact` speaks only
  of behaviours without it.
* `UnifiedCache::_flush` and `_runEvictionSlice` look at the element that
  `_nextElement` returns without testing it (`unifiedcache.cpp:247`, `:283`).
  The comment at lines 158-160 expects items that refer to other items; the
  destructor of one runs another slice in the middle of the pass, which may
  empty the table. `FlushComplete` and `CallsEnd` speak of behaviours without
  that.
* `ICUService::getDisplayNames` promises "a snapshot of the mapping" that "will
  not change as factories are added or removed" (`serv.h:734-738`), but walks
  `dnCache` after the scope of the lock (`serv.cpp:786-807`). `clearCaches` in
  another thread's `registerFactory`, `unregister` or `reset`, or its
  `getDisplayNames` for another locale, deletes that table meanwhile. The cached
  state itself stays right (`ServiceInv`): the loop changes nothing.
* `UnicodeString::doReplace` gives up its reference to the old array before it
  copies from it (`unistr.cpp:1493`). "keep oldArray alive for the above
  operations" (`:1509-1510`) covers the last reference only; another thread that
  owns a copy may change or free the array in between, although "Clones can be
  used concurrently in multiple threads" (`unistr.h:3245`). `StringInv` does not
  speak of strings that were filled in that way.
* `u_strFromPunycode` looks a digit up by the low byte of a code unit
  (`punycode.cpp:458`): U+0161 counts as "a", where `punycode.h:97-98` promises
  `U_INVALID_CHAR_FOUND`.

## 4. What is proved

For every value of the constants, from the named assumptions only.

**SearchInstance** (`NoProcAssumption`). The three excused properties are not
inductive. `InstanceInv` is: types; `FramesAndWindows` (where a process with a
frame or a window can be); `RequestInv`; and three layers, each as long as what
breaks it has not happened. Without "twins", `GrantInPlace`: there is at most one
window, and a request that is about to be sent or is queued lies where that
window is and where the foreground was granted. Without "overlap", `OneAtATime`:
at most one process is between its start and its message loop, whoever asks has
found the one window, and so "twins" has not occurred either. Without any excuse,
`Undisturbed`: nobody is about to open a frame while a window exists, and an open
frame has its window. One lemma per group of actions shows that a step which
leaves `excuse` alone keeps the layers that it allows.
`Refinement` maps `pc` and `served` to the phases of `LaunchProtocol`
and needs `RequestInv`: `Deliver` is the only step that serves, and it finds a
pending launch and a program that is up.

**UInitOnce** (`ErrorAssumption`). `RunsOnce` needs `StateInv`, which says for
each value of `fState` who can be where and that `fErrCode` is this run's
outcome from the store on. `Refinement`: `RunInit` decides, `PostInit` and
`ReadErrCode` tell.

**UConditionVar** (`ThreadAssumption`: finitely many threads). The gates are
right only as long as the counter is, so `Inv` joins `CountInv` and
`NobodyStranded`. Only `CondWait` and `Relock` change who is counted; the
cardinality facts come from the library. `Refinement`: a broadcast takes effect
at `SetEvent` on the entry gate, a wait ends in `SetExitGate` or
`RelockBehindExit`, and an arrival at an open entry gate is a spurious wakeup.

**UnifiedCache** (`FiniteAssumption`: finitely many threads, keys and
objects). `UnifiedCacheProofs` has first, for each action, a lemma that says what the
action leaves in every variable; the later proofs use those and not the
definitions. The invariants stand on each other. `CreatorInv`: types, the place
of each thread in its calls (`ControlInv`), and `OneCreator`: a thread that
creates a value has the key's entry to itself from the moment it marks it until
it has put the value there. `RefsInv`: every count of an object is the number
of those that refer to it (entries, clients, calls between two steps of
`removeRef`); it is inductive only because nobody knows an object that has not
been created and nobody asks for a value it holds. `DeletionInv`: an object
whose counts are zero is deleted by one thread, the one that found them so.
`ValueInv`: a key whose value is another key's leads to that key's entry
(`MasterInv`), in the table, in clients' hands and on the way to them, so that a
client who holds a value finds the same one again (`SameValueWhileHeld`).
`ItemsInv` and `SliceInv`: the number of items in use is that of the cached
objects with references plus the decrements that are still due, as long as no
stale read has occurred, and never less (`ItemsEventuallyExact`).
`CacheInvAlways` puts them together.

**CompositeCache** (`SlotAssumption`: a table and a slice of at least one,
natural limits of the policy). A stack of calls has no depth that would bound
it, so `StackInv` says what each call on it knows and how the calls fit
together. Values under construction are at the bottom, each wanted by the one
below it, and since references are acyclic none of them needs one below it
(`NoCycle`); a value in its destructor is out of the table and out of use, and
has one destructor (`CallInv`, `ChainInv`, `GotInv`, `DeleteInv`). What a creation
does not refer to is the same set of its frame whether it has not got it yet or
has given it back, so that failing creations need no invariant of their own. A value is
alive exactly while it is in the table, in use or in its destructor (`KeyInv`).
From this follows whom every value refers to (`RefsAre`). The steps are of two
kinds: those that take calls off the stack, take a value out of the table or a
reference away and begin a destructor (`Unwinds`), and those in which values
are created, or fail to be (`Creating`). Either way one reference comes or goes with one
count, and `CompositeInv` follows: a value that is referred to has a count, so
its destructor has not begun. For the flush, `FlushInv` counts turns. The pass
that takes everything has at least as many turns left as the table has
elements, which gives `ClosedReleasesAll`. A pass that has evicted nothing yet
has turns up to every element it could evict, in the order of the round robin
(`Ahead`), so the pass that ends the loop has seen them all (`FlushComplete`).
A nested slice may take elements away or move the round robin in the middle of
a pass; it only makes the table smaller, and in the second kind of pass it runs
only after something has been evicted, when another pass must follow. A
behaviour in which a pass meets the null element of `composite_nested` ends
there (`crashed`).

**UnicodeString** (`StringAssumption`: finitely many threads, texts of code
units, natural sizes). `Inv` is: types; `RefsCounted` (a counter is the number of strings
that have the array and of threads that have taken it from a string and not yet
given it up); `DeletedOnce` (what `doReplace` keeps for later is deleted by one
thread, and nobody else has it); `ReadOnly` and `NoClash` (nobody changes a
string that a thread is copying from, and no two calls are on one string);
for each string its shape and the text it shows; for each thread what its call
knows: from the test of the counter to the write, the array is this string's
alone and large enough (`Writing`). The last is the heart of it: it is stable
only because a count of one can be made two by nobody but the owner of the
string, who is busy; and a copy can add its reference in time because nobody
changes its source meanwhile.

**ServiceRegistry** (`FactoryAssumption`, `IdAssumption`: finitely many ids, at
least one; `FallbackAssumption`). `ServiceInv` needs `OwnCached`: an entry is
also cached under its own descriptor, so that the one reference it is born with
belongs to a descriptor like all others. That a lookup may go on from a cached
descriptor that it meets on the way is right because the way of that descriptor
is the rest of its own, and nothing before it can be made (`LookupRight`). The
loop that collects the visible ids is a recursive function; that the function
exists and what it computes is proved with the least number of turns for which
it would be wrong. `NobodyMissed` is inductive with the types.

**ConverterCache** (`DataAssumption`: finitely many names of data, and bases
have no base; `NamesAssumption`; `BoundsAssumption`). Two inductive invariants,
one on top of the other. `OwnerInv`: a converter that is there has one owner,
which is a call, a client or `gDefaultConverter`; whoever has the default
converter, or is about to open it, knows the default name, unless `stale` says
why not; and a name is there only while the cleanup is registered. It gives
`DefaultInv`. `Counted`: each count of data is the number of references from
converters (`NeedOf`) and from extensions (`Built`); data with a base are of an
extension, and their base is not; what is cached is in the table and the other
way round; data that nobody refers to are cached. In the middle of an operator
the last clause fails for the one copy at hand, and a reference may belong to
the caller, so the lemmas about the operators (`CountExact`, `FreeExact`,
`UnloadGood`, `LoadGood`, `FlushOneGood`) take the references that are due as a
parameter. `DataInv` follows from both. For `ConvertersFreed`: one turn of the
flush leaves nothing unused that has a base, and the second then meets only data
without a base, whose deletion makes nothing else unused (`PassGood`); so two
turns suffice in every order of the table. The loops (turns over the table, the
data of a converter that is closed) are recursive functions; an induction over
their turns (`Induct`) comes from the library's well-founded ordering of finite
sets.

### Only model-checked

* All liveness, and whatever needs ENABLED: the prover has no rules for them.
* Of `CompositeCache`, that calls end (`CallsEnd`); `ElementFound` does not hold.
* `ResourceBundleCache` and the sequential algorithms: their loops are RECURSIVE
  operators, which take the SMT solver away from every proof in reach of them.
* `CommandLine`: its operators fold over sequences of any length, and what they
  compute would be an induction over data.

## 5. Abstractions

* Windows is external. A sent message is handled only while its thread
  dispatches; the shell's COM calls during the fill of the list may dispatch;
  a send fails when its window is destroyed; a message whose send timed out may
  or may not stay queued; the foreground right belongs to the last process it
  was granted to. Gates: `SetEvent` releases all that are blocked on the event.
* Each process is one launch and is not launched again.
* `CommandLine` has tokens in the place of characters and no quotes inside
  arguments; `std::map` order is any order.
* `umtx_initOnce`: warnings are the same as success, since only `U_FAILURE` is
  tested; memory order follows the acquire and release of the code.
* `UnifiedCache`: `gNoValue` is never registered and its counts are left out;
  the temporary reference `_inProgress` takes and drops under the mutex is left
  out; the round robin may visit any element next, which covers every layout of
  the hash table; a client holds at most one reference per key and thread; a
  value under construction may be another key's value, but values do not hold
  references to others. `PutFinds` is translated although it is never taken:
  `OneCreator` is why.
* The read of `cachePtr` in a deleted object yields the old pointer or null.
* `CompositeCache` has one thread, a value per key at a time (which is known by
  its key) and no waiting: all of a nested call runs under the recursive
  `gCacheMutex`, and what other threads do between calls is `UnifiedCache`'s
  matter. Which values a value refers to is fixed and acyclic, as `createObject`
  would not end otherwise. A creation may fail at any point; it fails when a value
  that it needs has failed, and it gives back all it got before it returns. The
  percentage in use is zero.
* `ConverterCache`: a name is the canonical one; options, aliases and conversion
  are left out. A file may fail to load at any time. A converter built on others
  loads them one by one and gives them back when one fails. `u_cleanup` and
  `ucnv_setDefaultName` are documented as not thread-safe and run while the
  other threads are outside; after a `ucnv_setDefaultName(NULL)`, or two threads
  that found different default names, `stale` excuses the default converter.
* `ResourceBundleCache`: what the data of a name say (alias, parent, pool, no
  fallback) is constant; memory does not fail. `FallbackChain` speaks of bundles
  that were opened by their own names.
* `ServiceRegistry`: an id falls back to a fixed list of others without
  repetition. With a default locale that itself falls back, `LocaleKey::fallback`
  may come to an id twice (fr, fr_FR, fr, root, if fr_FR is the default); a
  service with nothing above the root then counts the entry once more than the
  table has it (`serv.cpp:553-564`), and it is never deleted. That case is outside
  the model. Simple factories only; what `getDisplayNames` puts together from the
  names it reads is left out. A listener registers nothing from
  inside a notification. `heard` is compared with the last change after the
  listener was added.
* `UnicodeString`: an allocation gets any array that is free; texts are short
  sequences of letters; aliases of other memory
  and a source inside the string itself are left out. Nobody copies from a
  string that its owner is changing, as the documentation demands.
* `HashTable`: growth only (the policy in use), keys owned by the table; sizes
  and the ratio are smaller than in the code. `InversionList`: no strings, not
  frozen. `ReorderingBuffer`: no failure of memory.
* `SortArray`, `CodePointOrder`, `TocSearch`, `Punycode`: buffers are large
  enough; arguments are valid.

## 6. Not modelled, and the plan

Done: the instances of Search with `LaunchProtocol` and the command line; the
one-time initialisation with `OnceCell`; the condition variable with `CondVar`;
the unified cache with threads and with values that refer to each other; the
registries of counted objects (converters, resource bundles, services) with
cleanup; strings; and the sequential code of ICU that does more than look
something up: hash table, inversion list, reordering buffer, sorting,
comparison, table search, Punycode. Proofs for the first three, the unified
cache with threads and with values that refer to each other, converters,
services and strings.

Next, in this order:

1. Proofs about `ResourceBundleCache` (`BundleCountsExact`), with its recursive
   operators turned into recursive functions.
2. An abstract memo of values that `UnifiedCache` implements.
3. `UMutex` created by `umtx_initOnce`, and the cache over `CondVar` in the
   place of its built-in waiting.
4. `UnicodeString` with aliases of other memory and with a source text inside
   the string itself (`unistr.cpp:1549`: an append of a string to itself that
   needs a larger array).
5. Failures of memory in the middle of `entryOpen`, and `ures_openDirect` of
   aliases beside `ures_open`.
6. `CompositeCache` with threads.

Not modelled, and why:

* *Panels, list and buttons of the search frame.* They are calls of RCMiniUI,
  which is not in the repository; a model would have to invent what its views
  do. The traversal of the start menu and the context menu are sequences of
  shell calls without state of their own.
* *Search box, Everything helper, GDI+ guard, resources.* Nothing handles the
  search box's timer in this version, the helper's call is commented out
  (`main.cpp:299-301`), and the rest is a constructor, a destructor, constants.
* *The rest of ICU*: conversion, break iteration, locale names, IDNA,
  properties, data loading. Third-party code, which the repository does not
  change, and pure functions of large generated tables: what makes them right is
  the data. The library is there in three copies, half a million lines
  together, so that the modelled parts are a small share of the whole.
* *The demo* (`icu_demo/main.cpp`) makes two calls with null arguments.
