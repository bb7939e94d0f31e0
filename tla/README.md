# A TLA+ model of browserhistory

The repository holds three programs around one idea, a browsing history that can be
read, analysed and exported:

* a **browser extension** (`extension/`) that records page loads, private windows
  included, in a background service worker, stores them in `chrome.storage.local`
  and shows them in a popup;
* a **command-line tool** in C (`c/`) that reads the history databases of installed
  browsers, imports other files, categorizes, searches, analyses and exports;
* a **browser library** (`js/`) with a service worker of its own, and a PDF generator.

This directory models the parts whose behaviour depends on order, limits and
failures, checks the models with TLC and proves theorems about them with TLAPS.

## Inventory

| component | state it keeps | operations | hard behaviour | correct when |
|---|---|---|---|---|
| extension worker `background.js` | buffer, flush timer, storage calls in flight; stored history and counters | tab events, popup messages, flush, answers of storage | every `await` lets other callbacks in; writes fail; the browser stops the worker | nothing stored twice or lost, counters and history agree, reads see what was recorded, requests are answered |
| popup `popup.js`, content script `content.js` | shown list, filter, search | messages to the worker | answers out of order; metadata before or after its page completes | the list is that of the selected filter |
| session tracker `session_tracker.c` | sessions, their tabs, each tab's history array and position, a state machine | seven tab events, analysis of a history, statistics | long event sequences, limits of tabs, sessions and history, failed allocations, undated entries | the active tab is open, arrays are in bounds, sessions are what the gaps say |
| domain trie `domain_trie.c` | a tree of labels with counts, totals beside it | insert, lookup, aggregate, top-k, compact, serialize | inserts failing half way, depth and child limits, joined labels | a name has the counts it was given, a tree read back is the tree written |
| URL parser `url_parser.c` | a parsed URL | parse, normalize, parameters, domain, write | odd authorities, order of normalization steps, two-part ends of names | a URL leads to the same host however it is written |
| browsers `browser_detect.c`, `history_db.c` | found profiles, a result array | scan, query, deduplicate, sort | several epochs, limits of profiles, profiles that go away | one entry per URL, the latest visit kept |
| search `search_engine.c` | a parsed query, hits | parse, filter, match, rank | limit before ranking, negation, operators | the hits the words ask for, the best first |
| categorization `url_categorize.c` | rule tables | load rules, match, count | globs, sections without room, sections opened twice | a page counts in the first category that covers it |
| imports `csv_import.c`, `html_bookmark_import.c`, `import_ext.c` | a parser position, folder stack, columns | recognize, parse, append | quoting, nesting limits, ambiguous dates, lack of memory | what was written comes back |
| configuration `config_parser.c` | entries, include list, section | parse, get, validate, complete | nested includes, limits, quotes and comment signs | each pair in its file's section, includes end |
| main `brave_history.c` | one result | the pipeline of all of these | steps that fail or are skipped | each option sees the merged result |
| library `brave-history-access.js`, `history-sw.js` | in-memory log, IndexedDB, localStorage | track, register, fetch, message, timeouts | the worker is stopped; late answers; two pages write one key | what is answered is what was logged |
| exports, logging, platform | little | formatting and conversion | buffer limits | what is written can be read back |

They interact as follows. The content script and the popup send messages to the
extension worker, which alone touches `chrome.storage.local`; its export is a file the
command-line tool imports. In the tool, `main` runs one step after another on one
`HistoryResult`: query or scan, import, merge, statistics, categorize, search, sessions,
domains, export. Nothing there runs concurrently; what is hard are sequences of inputs,
limits and errors half way. The library's service worker is shared by all pages of an
origin: it logs their requests and answers them through message ports.

`PROJECT.json` lists every component with what is modelled of it, and the hazards of
the code at the line where they bite.

## Modules

| module | what it is |
|---|---|
| `HistoryTracker` | the extension worker with the browser, the popup's messages and storage around it |
| `HistoryTrackerProperties` | its properties, and the refinement mapping to `SharedHistory` |
| `SharedHistory` | abstract: savers each take the buffer and a copy of the log, and later write the copy with their batch behind it |
| `HistoryTrackerProofs` | theorems about the worker under any storage: types and counters; buffer, batches and stored history; what readers find and see; the refinement of `SharedHistory` |
| `TabContext`, `TabHistory` | the functions on one tab of the session tracker; one tab as a state machine, with the refinement mapping to `BackForwardList` |
| `BackForwardList` | abstract: a page, those behind it and those before it |
| `TabHistoryProofs` | lemmas about the functions on a tab; theorems about one tab, the refinement of `BackForwardList` among them |
| `SessionTracker`, `SessionTrackerProperties` | the session tracker with its two drivers |
| `SumLemmas`, `SessionTrackerProofs` | lemmas on sizes, folds, sums, prefixes, least and greatest members, used by five of the proofs; theorems about the session tracker |
| `DomainTrie`, `DomainTrieProperties` | the trie, against the list of the names it has accepted |
| `UrlParser` | URLs as operators on texts (over `UrlText`) |
| `DomainReport` | composes `DomainTrie` and `UrlParser` as `print_domains` and the URL fuzz driver do |
| `DomainTrieProofs` | theorems about the trie under any driver |
| `ConfigText`, `ConfigParser`, `ConfigParserProperties`, `ConfigParserProofs` | the text of one value; lines, includes and tables; what they must amount to; theorems about that |
| `BookmarkImport`, `CsvImport`, `JsonImport` | the three readers, and the writers whose files they read |
| `Imports`, `ImportsProperties` | the import loop of main over them |
| `HistoryTime`, `UrlText`, `Ordering` | times of two epochs; comparisons of texts; the members of a set in an order, for loops that skip and queries that sort |
| `BrowserQuery` | scan, queries, merge and imports of main |
| `SearchEngine`, `UrlCategorize` | the query language and ranking; rules and categories |
| `Pipeline`, `PipelineProperties` | main from the query to the search, composing the previous three |
| `PipelineProofs` | theorems about it: the profiles queried, what each brings, the merge, the ranking of hits, what the rules list, the limits |
| `WorkerLog`, `WorkerLogProperties` | the browser library: pages, service worker, localStorage and IndexedDB |
| `WorkerLogProofs` | theorems about it |
| `MC...` | values of constants for the runs |

### The extension worker

A JavaScript callback runs to completion, so an action is one callback up to the next
`await` that really waits. What an `async` function has left to do is the storage call
it awaits: `calls` is the set of unanswered calls, each with the local variables its
continuation uses (`batch`, the request whose handler awaits the flush, the snapshot).
Storage serves an extension's calls in the order they are issued, hence a call takes
effect when issued and its answer comes later, in any order with other answers and
events. A get or a set may be rejected (`MayFail`).

| code | action |
|---|---|
| `onInstalled` | `OnInstalled` |
| `onUpdated`, the flush at 50 entries, the timer | `OnUpdated`, `ArmTimer`, `Full`, `TimerFires` |
| `onCommitted`, the flush at 5 entries | `OnCommitted` |
| `flushToStorage` to its first await; after the get; after the set; the catch | `FlushToStorage`; `FlushGot`; `FlushStored`; `FlushRejected`, `PutBack` |
| `handleGetHistory`, `handleGetStats`, `handleExportJSON` | `AskToRead`, `ReadGot`, `ReadRejected`, `DownloadDone` |
| `handleClearHistory` | `AskToClear`, `ClearDone` |
| `handleContentData` | `ContentData` |
| termination of the worker | `Killed` at any time, `IdleTimeout` after 30 s without events |

`Storage` says how soon storage answers relative to other events: "slow", after any of them, or
"timely", before a timer armed later fires. The proofs are for either, the passing runs for slow storage, which includes the timely;
the runs that expect a violation show it with timely storage already.

An entry is its order of recording with its tab and page; URLs, titles and times say no
more than that order. The badge, console output and the `days` filter, which the popup
always sends as 0, are left out. `recorded`, `asked`, `forgotten`, `failures` and
`stops` only observe or bound, as does `held`, what the buffer held when a request was sent.

`SharedHistory` says what this amounts to, for any storage, failures and stops: an entry goes from
the buffer to one saver, with the whole batch into one write or back to the front of the
buffer; but that write undoes what others wrote since the saver read.

### The session tracker

`TabContext` has one operator per function on a tab; `tab_navigate` returns the set of
tabs it may leave, because realloc or strdup may fail after part of its work and no
caller looks at its result. `TabHistory` applies them to one tab. `SessionTracker` has
an operator for every function on a session, each case of the event switch
(`Handled`, `Refused` for the cases that return -1), the state machine
(`StateTransition`) and `ProcessEvent`, and two drivers: `AnalyzeEntry` replays history
entries as `session_tracker_analyze` does, `StreamEvent` feeds the events
`session_parse_events` produces for the fuzz driver. Positions in a tab's array count
from 0 as in the code, sessions and tabs from 1. Times count the browsers' units, `Second` of them a
second. The duration of a session is cut to whole seconds and kept as a float of minutes;
`MinuteFloats` has, for every value such a float can have, the least number of seconds that
is rounded to it, so `Minutes` tells apart what the code tells apart, whatever its precision. `seen`
records the accepted events for the properties. Nothing reads a tab's title and time
stamps; they are left out, as are the averages of `session_tracker_compute_stats`.

### The domain trie and URLs

The trie is the sequence of its nodes in depth-first order; a node is told by the labels
above it, and a label joined by compaction is a sequence of parts. `Insert` may leave any
of the tries a failing allocation or a full node leaves (`FailedInserts`), `Compact` is
`trie_compact`, at most once in a behaviour, as no caller does it twice (see "Also met"),
`Reload` writes and reads the trie and recounts it. Lookups, aggregates
and top-k are operators on the trie. `UrlParser` has an operator for each function of
`url_parser.c`; in-place changes of a `ParsedUrl` are a record turned into another.
`DomainReport` adds the URL in hand: `Report` is one round of the loop of
`print_domains`, `Fuzz` the fuzz driver up to its insert, `UseTrie` any use of the trie.
Percent encoding and UTF-8 validation, which nothing calls but the fuzz driver, are left out.

### The configuration

An action is one line: it is added to the current section, changes the section, or opens
a file, which becomes the innermost of `frames`. As no file is opened twice, what files
hold need not be fixed: any line may come next. Validation and defaults follow the parse.
`ConfigText` is what happens to the text of one value: comments, quotes, the cut to its room before
variables are expanded (`ExpandedValue`) and again after, types.

### Imports

Each reader is a function from a file, a sequence of tokens, to entries: the bookmark
reader a fold over the pieces between "<", with its folder stack; the CSV reader over
characters with its quote state, then over rows with the column map and date order; the
JSON reader by counting braces. A file grows item by item as a browser, a spreadsheet, the
program or the extension writes it, then the import loop reads it under some suffix,
with memory running out at any entry.

### The pipeline

`Query` is the part of main that fills the result: scan and query of all browsers, of one
type, or of one file, imports, and the merge. `Statistics`, `CategorizeEntries` and `Search`
follow in main's order, each only if asked for and if there are entries. A text is a short
sequence of characters with "://" as one; a line of rules is read up to the end of its buffer and its
names and items up to the end of theirs (`ReadLine`); regular expressions consist of letters and dots;
scores are integers, in twentieths. A second has 2 micro seconds, a day two seconds and
1601 is 134774 days before 1970: the relations that make the epochs differ are kept.

### The browser library

An action is a callback up to its next `await`. A page has a position `at` in
`initializeBraveHistoryAccess`; `TrackLocalHistory` and `SetItem` are the two halves of the
read-modify-write of localStorage, which pages in two processes interleave. The worker is
installed, activated, becomes redundant, or is stopped at any time between events; its
log `historyLog` is volatile, `storing` are IndexedDB transactions in flight and `stored`
is what is in the database. A request and its timer race (`Answered`, `TimesOut`). Methods that
read one value from the browser change no state and are left out, as is
`getAllStoredHistory`, which nothing calls.

## Runs

Runs that pass:

| run | bounds | shows |
|---|---|---|
| `tracker_overlap` | two tabs, one private; 3 entries, 2 requests, cap 2, one failure, one stop, slow storage | no duplicates in storage or answers, counters and history agree, the buffer is watched, the order of what is stored and shown, what a reader may rely on; the worker implements `SharedHistory` |
| `tracker_live` | a private tab; 2 entries, 2 requests of all kinds, a page's metadata, slow storage | the buffer drains, requests are answered |
| `tab_history` | array limit 5 starting at 2, 8 loads, failing allocations | bounds, the current URL, the back/forward list |
| `session` | 5 events of all types or 5 entries with 8 time stamps, one of them missing; 2 units to a second, floats of minutes that begin at 0, 1, 2, 4 and 8 seconds; 3 tabs, 3 sessions, failing allocations | the active tab, closed tabs, pages, transitions and limits; sessions are what the gaps say, the longest is found as far as floats tell |
| `domain_trie` | 3 inserts of 9 names, 2 entries of 15 URLs, depth 3, 2 children, top 2, one compaction, reloads, failing allocations | the tree and its totals, lookups, aggregates and top-k against the list of names; what compaction and reloading keep; URLs lead to their site |
| `config_parser` | 5 lines of 13, values of 4 characters, 2 sections, 3 entries, 3 includes | includes end, sections and order, quoted values, validated reads succeed |
| `imports` | files of up to 5 items in 5 formats under 3 suffixes, nesting deeper than the stack, out of memory at any entry, titles with quotes, escapes, braces and "\r" | what was written is what is read, in JSON without "\r" and unpaired braces |
| `pipeline` | four browsers in up to three layouts, 9 command lines, 2 profiles of a browser, queries of two browsers failing; 7 entries under all queries of up to 4 of 13 words with 3 terms and all rule files of up to 4 of 11 kinds of lines, buffers of 9 characters for a line, 3 for a name or domain, 4 for a pattern | databases, merge, search, ranking, rules and categories against their definitions |
| `worker_log` | 2 pages, 2 loads, 2 fetches, logs of 1 and 2 entries, one fault of any kind | logs and answers agree, localStorage keeps the navigation, registration ends |

The bounds are small because the hazards need little: two flushes in flight around three
entries already interleave in every way, a cap of two is exceeded by three entries, an
array of two that may grow to five is doubled, clipped and shifted. Every limit of the
code (tabs, sessions, children, sections, includes, terms, rules, profiles, dots) is a
constant given a value that the run exceeds, as the code uses limits only in comparisons.
Queries of four words hold three terms, so that (a OR b) AND c differs from a OR (b AND c), and a
fourth that is not read; two browsers never fail, so that a row left out for any reason is
missed; one page has no host; five items close one folder more than fits the stack.
Deadlock is not checked where the user may stop browsing, an input may end or a bound stops the model; `tab_history` checks it.

Runs in which TLC finds a counterexample to what a comment says; each is a finding in
`PROJECT.json` with the line it contradicts:

| run | what happens |
|---|---|
| `tracker_lost` | a second flush reads before the first has written and overwrites it |
| `tracker_popup` | a request finds the buffer empty while a flush holds the batch, and reads before that has written; so do the popup's two requests (`popup.js:40,43`) |
| `pipeline_epochs` | the merge compares raw times, so of a page that Chromium and Firefox know, Chromium's time wins even if it is older |

The two of the tracker need nothing unusual of storage, only two calls in flight.
What is left of "flush any pending entries first" for any storage is `FlushedFirst`, which `tracker_overlap` checks:
a request's flush does write what is in the buffer when the request comes, but not what another flush has taken.

### Also met

Writing the models also met the following, which have no run; where a property would trip over
one, its definition states the condition.

* Extension: a batch put back after a failed write has no timer, and may be stored behind newer entries
  that another flush has written and be shown before them, although `background.js:196` says "most recent
  first" (`StoredInOrder` and the order of `ShownOnceInOrder` are stated until a failure); entries in the buffer
  survive "delete all"; the 30 s timer is no match for termination after 30 s idle;
  metadata that arrives before its page's entry is written on the tab's previous one.
* Sessions: RAPID_FIRE never ends and IDLE is not entered again, as the time difference
  the state machine sees is never positive (`session_tracker.c:485`, `328`); opening tabs
  counts as staying on one (`311`); a NAVIGATE ignores the pseudo tab id of `615`; after an
  event stream the last session has no duration; "Recent Sessions" are the five oldest.
* Trie: compacting, inserting and compacting again could make two children with the same joined
  label; no caller does it. After a compaction lookups miss names with joined labels, top-k writes joined
  labels backwards, and a further insert can make a header that reading refuses;
  `print_domains` gives the visits as the number of URLs (`brave_history.c:222`).
* URLs: a code may spell a dot after dots were removed, so normalizing twice can
  differ; a final slash is dropped; the first "@" ends the user; a port that is none, or longer than
  seven digits, leaves its rest in the path, and written again that rest joins the host;
  a URL without a scheme loses its "//" when written; "host:port" is read as a scheme;
  a name with a final dot counts under its last label alone; beyond 32 dots the site is wrong;
  `url_percent_decode` leaves a half decoded text when it fails.
* Bookmarks: one that follows a closed subfolder carries the subfolder's name; titles
  are decoded twice; ">" in a quoted attribute ends the tag; a bad LAST_VISIT is not
  replaced by ADD_DATE. CSV: an ambiguous first date is read as American, columns beyond
  32 wrap around. JSON: braces in texts are counted, so that an unpaired one cuts or swallows
  objects, though `background.js:9` promises that the tool can import the export, and "\r" comes back as "r"
  (`JsonAsWritten` leaves both out); visit counts are lost.
* Configuration: in `"it's # x"` the apostrophe ends the quotes and the comment sign cuts the value,
  against the comment of `config_parser.c:348` (`QuotedIsKept` asks for signs that come in pairs, `Paired`); a value is cut at 2047 characters before and after its variables are expanded,
  without a word; what overflows in an included file is ignored (`config_parser.h:81`),
  "1" and "0" are booleans and fail an integer schema, a default of type float leaves 0,
  a final backslash drops the last line.
* Search: "max_results 0 = unlimited" returns nothing; "OR NOT x" becomes AND NOT;
  before:DATE excludes that day; "- x" excludes everything; filters behind the sixteenth term
  are ignored; Firefox's raw times score as ancient. Categories: a line of rules is cut at 1023
  characters, and what is left of an item becomes a rule the file does not list, or a section's name
  without its "]" opens nothing; a page without a host has no category, whatever keywords its title has; "priority, higher =
  checked first" is never used. Cutoffs: `>` in one place, `>=` in another.
* Library: the worker answers from memory only, so what it stored is forgotten
  after a restart; the request of a page it does not control reaches nobody and times out
  after 10 s; the cache is never filled, so the offline fallback fails; a load is
  tracked twice, and two pages can lose each other's updates of localStorage.

## Fairness

`FairSpec` of the worker assumes that a timer that stays due fires and that storage
answers as long as calls are outstanding: the event loop and the storage service do
both. Nothing is assumed of the user, who may never load another page, ask again or
answer a save dialog. `Drains` and `Answered` are checked without failures, since a
rejected read is never answered (see the hazards), and without stops.

`FairSpec` of `WorkerLog` assumes that the next step of a page that stays enabled is taken, its timers
included, and that a worker's installation and activation come to an end, in success
or not: the event loop and the browser see to both. The worker's answers are not
assumed, nor that it stays alive; a page's timer is what makes `Served` hold.

## Proofs

The theorems hold for every value of the constants that the named assumptions of the
modules allow: any caps and limits of at least one, any sets of tabs, pages, URLs, time
stamps and events, memory and calls of the browser failing at any point. They assume
nothing else but where it is said. Each inductive invariant was first checked by TLC
within the bounds of the component's run.

| theorem | states | inductive invariant |
|---|---|---|
| `TypeCorrect` | `TypeOK` | itself |
| `CountersNeverDrift` | `CountersAgree` | itself, with the types |
| `NeverStoredTwice` | `AtMostOnce` | `OnceInv` |
| `BufferIsWatched` | `BufferWatched` | `WatchInv` |
| `HistoryInOrder` | `StoredInOrder` | `OrderInv`, with `OnceInv` and `WatchInv` |
| `HeldIsFlushed` | `FlushedFirst` | `HeldInv`, with `OnceInv` |
| `ReadersSeeOnceInOrder` | `ShownOnceInOrder` | `ShownInv`, with `OnceInv` and `OrderInv` |
| `TrackerImplementsShared` | `ImplementsSharedHistory` | `Filled`, with `OnceInv` |
| `PositionInBounds` | `InBounds` | `Bounded` |
| `TabIsBackForwardList` | `ImplementsBackForwardList` | `Bounded` |
| `ActiveTabIsOpen`, `CountsAlwaysAgree`, `ClosedTabsStayClosed`, `SessionsFollowGaps`, `LongestIsLongest` | every property of the run `session` | `SessionTrackerProofs!IInv` |
| `AlwaysWellFormed`, `AlwaysFindsItsNames`, `AlwaysReadsWhatItWrites`, `AlwaysCompactionKeeps`, `AlwaysTopIsTop` | `WellFormed`, `FindsItsNames`, `ReadsWhatItWrites`, `CompactionKeeps`, `TopIsTop` | `Sound` (`Correct`) |
| `FilesOpenedOnce`, `PairsInTheirSection`, `QuotedStaysQuoted` | `EachFileOnce`, `InItsSection`, `QuotedIsKept` | `ConfigParserProofs!IInv` |
| `ReadsAsValidated` | `ValidatedReads`, if `SoundDefaults` | `ConfigParserProofs!IInv` |
| `AlwaysEachProfileOnce` | `EachProfileOnce` | `Typed` with `Sized` |
| `AlwaysBestFirst` | `BestFirst` | `Typed` with `HitsFound` |
| `AlwaysNewestOfEachProfile` | `NewestOfEachProfile` | `Typed` with `Segmented` |
| `AlwaysOneEntryPerPage` | `OneEntryPerPage` | `Typed` with `Segmented` and `Known` |
| `AlwaysRulesInTheirSection` | `RulesInTheirSection` | `Ruled`, and `Loaded` over the lines of a file |
| `LogsAlwaysAgree`, `NavigationIsTracked` | the safety properties of the run `worker_log` | `WorkerLogProofs!IInv` |

### The extension worker

* History and counters are two keys that overlapping flushes and clears overwrite with
  values they read earlier. `CountersAgree` therefore speaks of storage *and* of every
  snapshot a continuation holds: with the types that is inductive, because both keys are
  always read and written together. The step that matters is `AgreeAppended`.
* `OnceInv` says the same of places: an entry is in the buffer, in a batch that is not
  written, or in histories. Two histories may share entries (a snapshot in flight and
  storage), an unwritten batch and anything else may not; and no number is larger than
  the last one given out, so that a new entry is in no place yet.
* `WatchInv` adds to the buffer and its timer that before the first failure no write in
  flight is going to fail. Without it a batch could come back to a buffer without a timer.
* `OrderInv` says of every flush that waits for its read that its snapshot is older than its
  batch and that older than the buffer, until a failure.
* `HeldInv` follows what the buffer held when a request was sent: as long as the handler waits, for its flush
  or for its read, that is in the batch of its own flush and nowhere else that is unwritten. It needs `OnceInv`:
  an entry in that batch is in no other batch, so what the flush has written is written.
* `ShownInv`: an answer is made of the snapshot its read returned, of which every snapshot in flight has each
  entry once (`OnceInv`) and, until a failure, in order (`OrderInv`); the filter and the limit of entries take a
  part of it (`MatchingPart`, `ViewBackwards`). No clear or download answers a getHistory (`OthersAnswer`).
* `StepsAreShared` maps every step to one of `SharedHistory` or a stutter. Savers are a set, so two flushes in
  flight must not be the same saver: batches in flight are not empty (`Filled`) and share no entry
  (`OnceInv`), hence they differ (`BatchesDiffer`).

### The session tracker

* `Bounded` contains more than the bounds of a tab's position: a position behind the last
  URL, which a failed duplication leaves, comes with a free slot. Without that a second
  failure could shift again and leave the position two behind (`TabHistoryProofs`).
* `IInv` says of every session that its tabs are `Bounded`, that its ids are distinct and
  less than the next one, that the active tab is open, that pages and transitions are counted
  (`TabsOK`, `StatesCounted`), and of every session but the last that its duration is
  that of its times. Sums over tabs and states are the community modules' folds;
  `SumLemmas` shows from well-foundedness that they are sums, then that one summand more
  or changed changes them accordingly.
* `GroupedByGaps` compares all events with all before them, the tracker only
  with the end of the current session. What makes it inductive, as long as no event is refused,
  is `Orderly`: no event is later than the end of the last session, so that one that comes
  a gap after that end comes a gap after all of them, and there are as many sessions as gaps.
* `LongestOfAll` is established by `Analyzed`, the end of an analysis; `LongestStep` shows that the first largest of a sequence of durations is a largest, and that durations
  are what `Timed` says when they are compared: the greatest member of `MinuteFloats` up to the whole seconds.
  Longer by less than a second, or than a float can tell, is not longer.

### The domain trie

* `Tree` is the shape everything rests on: paths are distinct and each node but the root has its
  parent before it with nothing but its descendants in between. What is under a path is therefore an
  interval (`Interval`), and an insert splices a chain behind one (`SplicedTree`).
* `ReadsBack` relates the stack of `deserialize_node` to the tree: after n records the frames are the
  prefixes of the n-th path, each with the number of its children that come later (`Reading`).
  The next record's parent is then the deepest frame that lacks any, because frames below it
  belong to nodes that have all theirs.
* What joins labels is a recursion over a path. `Way` says how far a joined path reaches along the way
  to its node; `JoinInjective` and `WaysMeet` show that distinct nodes that stay have distinct joined
  paths and that prefixes of a joined path are joined paths (`CompactedTree`). It needs that nothing was
  joined before (`Singles`), hence one compaction.
* `Listed` ties the counts of every name to those of the list of accepted names, and `Sound`
  joins it with shape, types and totals. That nodes which are no names count nothing
  (`CountedAtNames`) is what lets a compaction drop them and keep every sum.
* `trie_top_k` is a fold over the nodes that inserts each name into a sorted array of at most k. `Ranked`
  says of the first n nodes that the i-th entry belongs to a name node of its own, that
  the entries descend, and that a name not listed has found the array full of names
  with as many visits (`RankedNext`, for one node more). `FlattenSingles` and `NameWritten` add that
  until a compaction the name shown is the one accepted.
* The theorems are about `ReportSpec`, all three drivers of `DomainReport`; of the URL parser
  `ReportAssumption` states that the labels it hands over are texts.

### The configuration parser

* `EachFileOnce` is inductive once the shape of the variables is known: `Include` looks for its
  path before it opens it, and every call has a path of its own. The defaults
  are a fold over the schema; `SumLemmas` gives its partial results, of which each
  has an entry more or is the one before, and `MaxKeys` at most.
* `SectionOf` finds the section of a line by going up through the files, the parser has only one
  variable for each call. `CallsInSection` ties the two: every call is in the section in effect
  for its file, and calls that began later are further in, so a header changes one
  of them. `RecursUnique` shows that the sections of the lines read do not depend on those
  that follow; that each line is below the `@include` its file began with makes the
  recursion sound (`Framed`).
* `PairsStored` says that the entry of a pair is the one of its rank among the pairs; the section it is
  stored in is that of the call by `CallsInSection`. It ends where defaults are added.
* `QuotedStaysQuoted` adds to this a lemma on texts of any length, `ValueIsBody`: before the closing
  quote, wherever a comment sign stands, the number of quotes is odd, so a comment can begin only behind it
  (`CommentBehindQuotes`). That is so if signs of the other kind come in pairs (`Paired`).
* `ReadsAsValidated` needs that the schema's defaults are what its own items ask for (`SoundDefaults`), because
  `config_apply_defaults` runs after `config_validate` and checks nothing; the schema of
  the run is checked to be so. `DefaultsAdded` keeps what was stored as a part of what is there once the defaults
  are in: an entry found is either the first one stored for its key or a default of it (`FoundIn`).
  As the ranks of the pairs are all the places of the entries (`RanksOnto`), the first one stored is the
  first one written (`FirstWritten`).

### The pipeline

* Loops that skip and queries that sort are `Ranked`, which places a member of a set by the number of
  those before it. `RankedGoes` shows by cardinalities that for any strict order this goes through
  each member once and in the order (`Goes`); scan, queries, merge and search rest on it.
* `Typed` says that the places queried and those still to query are, in the stage "read", the databases of
  the browsers asked for (`PlacesToRead`). A query moves a place from the queue to the answers and so
  leaves them what they are (`AnsweredFirst`); a profile that goes away is still a place that is queried
  (`PlacesKept`), although its query fails.
* `Segmented` says that the result is the entries of the answers placed one after another (`Parts`), each
  answer's the first so many of its database's newest rows, in order and each once; a failed
  query adds an answer and no entries. After the merge such a result still exists, and the result is
  what `browser_deduplicate` makes of it. A query extends the parts by one
  (`MoreParts`), a profile that goes away changes the rows of none that was read.
* `Known` keeps that the places answered are places of the installation. With it each
  row that was read has its entry among those merged and each of those its row (`Covering`), so that
  greatest counts and latest times of entries are those of rows.
* The order of the merged pages is that of their first entries. An entry's spot in the result and its row's
  place among the answers agree (`AnswerSpots`, `PartsInOrder`), as each answer's part lies behind those of earlier
  answers and within a part rows go newest first (`InReadOrder`); `OrderOfPages` carries it through the merge.
* `SearchExecute` is a fold that inserts each hit into a sorted sequence; `SortedHits` gives its
  partial results. That an entry as good in all respects does not score less (`FoundBestFirst`) is shown for each
  part of the score; of the recency it needs that raw times are never negative, which `Typed` provides.
* What is read of a line of rules is a line again, its items texts (`ReadLinesFacts`); the rest speaks of the lines as they are read.
* `Sized` bounds the arrays. A file of rules is a fold of `LoadLine`, and `RulesFold` shows that all its
  partial results are engines within the limits (`WellPlaced`), sections without room included.
* `Loaded` says of the engine after n lines that every category holds the first of what it has from the start and
  what the n lines list under its name (`AsListed`), that no name comes twice (`NamedOnce`), that
  the names met so far are there while there is room (`AllNamed`), and that the lines that follow
  belong to the current category, or to none if there is no current one (`InPlace`).
  All four are needed: a line may change one category only because no other has its name, and a new one starts
  empty because its name was not met before (`NewIsEmpty`). That what is cut off once stays
  cut off is `RoomForMore`; `FlatNext` gives the partial results of `FlattenSeq`, in which the property says what is listed.
* `SetupAssumption` says what an installation is (files of finitely many rows, one of each page, with times
  that are not negative, browsers of the seven types, no database of another browser's layout in Firefox's
  directories), `BuiltinAssumption` that `cat_engine_init_defaults` stops
  at the limits and that no two of its names are the same, `RuleFilesAssumption` that a file of rules is a list of lines. TLC evaluates them in `pipeline`.

### The browser library

* An answer on its way is for a page that has asked and not left (`AnswersAreCurrent`):
  only then the question cannot change under it, and the log it holds, which
  ends with the newest fetch (`LogIsCurrent`), stays newer than the question.
* What is stored is older than what is being stored, and that is newer than the last start
  (`StoreInOrder`).
* A page that is about to write has read a log that does not end with its address
  (`TrackedInOrder`), so that even two pages that overwrite each other write no repetition.
  `LogOf` counts the places where a new address begins; `LogOfAppend` shows what one
  address more does to it, from the invariant that every rank is some place's.

### Only model-checked

* Liveness (`Drains`, `Answered`, `Served`), which the prover does not handle.
* `LeadsToItsSite` of `domain_trie`, which is about whole texts.
* Of the run `pipeline` what a query and the matching of pages amount to (`HitsAsAsked`,
  `CountedWhereCovered`): both compare a scan of texts, character by character, with what it decides.
* `UrlParser` and `Imports`: what folds and recursive functions make of a
  whole text or file needs induction over it. The exceptions are the sums, folds and paths above, where
  the set of the values that have a property takes the part of the induction formula.

## Not modelled

Reports in HTML, Markdown and PDF are formatting without state; logging and the platform
functions convert and copy. The copy of a locked database, SQLite and the node packages
are outside or third-party. The popup's own state, the extraction of metadata from a page,
option parsing and printing of main are left out; so are `domain_filter` of the search, which
no caller sets, and the fixed table of `categorize.c`. The rounding of floating-point
scores is not modelled; that of a session's minutes is. `PROJECT.json` gives the reason for each component.
