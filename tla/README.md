# IEC 61850 IED simulator: verification project

The simulator lets one person run a dozen protection relays on a PC. A Python
service, `launcher_service.py`, keeps a list of relays ("rows"), serves a
browser page to edit them, starts one MMS server process
(`src/ied_mms_server.c`) for each and feeds it values through a JSON file. The
modules here model that service and that feed in TLA+; TLC checks small
instances, TLAPS proves the main results for every instance.

Paths in this file are relative to the repository.

## 1. The system

| Component | State | Operations | Talks to |
|---|---|---|---|
| Launcher state (`class LauncherState`) | rows with their process handles and statuses, next id, adapter, auto random flag, one re-entrant lock | load, settings, add/update/remove/start/stop/randomize row, start/stop/write all, import, export, scripts, snapshot, shutdown | everything below, under its lock |
| HTTP service (`build_handler`, `main`) | one thread per connection, the listening server | routing, reply with a snapshot, shutdown | launcher state (calls), page (JSON) |
| Maintenance thread | `last_auto_random_ms`, `stop_event` | every 500 ms: poll processes, perhaps randomize | launcher state (its lock) |
| Relay processes as the launcher sees them | pid, handle, exit code | spawn, poll, terminate, wait 2 s, kill | launcher (handles), values file |
| Values feed | `<stem>_values.json`, its stamp; `lastUpdatedUnixMs`; the data model | write in place; every 100 ms size, read, apply | launcher and relay server, only through the file |
| Values parser (C) | none | find sections by name and brace, parse entries, parse stamp | values feed |
| Tag resolution (C) | table of warned tags (128) | short reference, alias, warn once | generated models |
| Relay server lifecycle (C; Python stub) | `g_running`, the MMS server | arguments, model choice, bind, loop, signal | OS, libiec61850 |
| Launcher instances | port, `launcher_state.json` | ping, load or fall back to defaults, second copy | other copies through the port and the files |
| Browser page (`build_app_js`) | last snapshot, open dialogs, drafts | poll every 2 s, post actions, render | HTTP service |
| Row defaults and ranges | none | suggest name/ip, coerce entries and ranges | launcher state |
| Network adapters, alias script | generated PowerShell script | list adapters, generate, run elevated | PowerShell |

Build scripts, the installer, the generated models (500,000 generated lines of
tables) and the vendored libiec61850 have no logic of this program and are not
modelled.

### What is hard here, and what correct means

* **Launcher state.** Every operation is one section of the lock, but a request
  is two (the operation, then the snapshot of its reply), `prepare_network` is
  three, and between any two a process may die, the maintenance thread may
  randomize, `main` may shut down. Correct: every running relay is in one row's
  hands; statuses agree with processes; each row's file has that row's values
  and nothing else is left; the state file is the configuration in memory;
  ids reach one row and are not handed out twice.
* **Partial failures.** A stop may time out or raise, an import or an update may
  raise half-way, a file may refuse to go. The code goes on in all of these.
* **Shutdown.** Neither the handler threads nor, after two seconds, the
  maintenance thread are waited for.
* **Values feed.** Writer and reader share a file and no lock. The file is
  truncated and rewritten in place; the reader takes its size, then reads in one
  or several calls. Correct: a client never sees a tag go back, sees sections
  whole and in order, and in the end sees the last values written.
* **The relay's reading of a text.** Sections are found by the first occurrence
  of their name and by counting braces; tags are free text. Correct: a whole text
  is applied whole, whatever an earlier, cut one led to; a signal ends the
  process whenever it comes; unknown tags do not stop a pass or fill the log.
* **Several copies.** A new copy writes before it knows that it is alone.
  Correct: copies that start do not all step back; whoever was alone has its rows,
  and nothing else, on disk; a restart restores.
* **Values and ranges.** Requests that raise half-way leave values and ranges
  that do not go together, saved by the next request. Correct: bounds stay in
  order and each tag keeps its range.
* **The page.** Several requests in flight, replies in any order, forms drawn
  from old states, loops that look rows up in them. Correct: a request reaches the
  row the user saw; a loop over selected rows leaves none out; the reply to a
  request shows what was asked for; the page catches up.

`PROJECT.json` lists each such hazard at its line with the properties for it.

## 2. Modules

| Module | What it is | Code |
|---|---|---|
| `Launcher` | state, one action per lock section, properties | `launcher_service.py` 960-1790, 2728-2918 |
| `MCLauncher` | instances: stored and imported files, forms | |
| `LauncherProofs` | theorems about the relay processes, types and the state file of `Launcher` | |
| `LauncherConfigProofs` | theorems about its ids, values files and script | |
| `ServedValues` | abstract: what clients are promised | |
| `ValuesFeed` | the file, its writer and its reader; implements `ServedValues` | `launcher_service.py` 1614-1651, `ied_mms_server.c` 146-388, 500-593, 681-692 |
| `MCValuesFeed` | an instance: five tags in three sections | |
| `ValuesFeedProofs` | theorems about `ValuesFeed` and `ServedValues` | |
| `ValuesParser` | operators: what the server makes of a text | `ied_mms_server.c` 195-388, 500-557 |
| `TagResolver` | operators: the attribute for a tag | `ied_mms_server.c` 420-498 |
| `RelayServer` | one server process over both; implements `ServedValues` as well | `ied_mms_server.c` 49-54, 146-193, 224-252, 320-418, 500-697 |
| `MCRelayServer` | eleven lists of tags for a RED615 | |
| `RelayServerProofs` | theorems about `RelayServer`, and lemmas about what `ValuesParser` finds in a text cut anywhere | |
| `LauncherInstances` | copies of the launcher, the port, the disk | `launcher_service.py` 993-1001, 1292-1394, 1638-1651, 2870-2918 |
| `MCLauncherInstances` | one default row of two | |
| `LauncherInstancesProofs` | theorems about `LauncherInstances` | |
| `RowValues` | values and ranges of one row | `launcher_service.py` 685-733, 1209-1226, 1327-1574, 1748-1757 |
| `MCRowValues` | an analog and a word, two types, payloads and files | |
| `RowValuesProofs` | theorems about `RowValues` | |
| `BrowserPage` | the page, its requests, other users | `launcher_service.py` 1811-1856, 2181-2288, 2402-2724 |
| `MCBrowserPage` | an instance | |
| `BrowserPageProofs` | theorems about `BrowserPage` | |

The modules meet in what they share: `Launcher` is one copy of
`LauncherInstances` seen from inside, its requests being one `Edit` there; its
`tone` of values is what `RowValues` opens up; its sections of the lock are what
`BrowserPage` has between a request and its reply; the file it writes is that of
`ValuesFeed` (reads that overlap writes) and of `RelayServer` (what one text
does), and these two implement one promise, `ServedValues`.

### Launcher

State: `rows` is `self.rows`, from slots (which order rows as the list does) to
records; `proc`, `tone`, `nextId`, `autoRandom`, `adapter` are the fields of the
same meaning. `alive` are the processes that run, `doomed` those of them that
were killed and not waited for. `leaked` is a ghost: processes whose handle was
dropped while they ran. `valuesFile`, `script` and `persisted` are the files.
`pc` says where each handler thread is, `maint` the maintenance thread, `phase`
`main`.

Actions carry the names of the methods. Each models all that its section does:
`SaveRuntime` is the tail write, clean, script, save that four operations end
with; `StopRelays` and `ReleaseHandles` are `_stop_row_unlocked` for a set of
rows, with the outcome of each stop (died, killed after the timeout, raised)
chosen by `\E`; `StartRows` is `_start_row_unlocked` for a set; `PollProcesses`
is the poll that snapshots and maintenance make. `ChildExits` lets a relay end
at any moment. `RowsLoaded` computes ids, names and addresses a file leaves
open, row after row, as `_coerce_row_from_payload_unlocked` does; a row that raises
may have taken its id by then (`IdTaken`). An update that raises leaves the label of
the form and any values and ranges.

Abstracted: all values of a row are one token, so are all its ranges;
`*_config.json` and `*_values.json` are written together and are one file; a
name is a number, with `StemOf` for `safe_name`; an address is its last octet;
`relay_type`, `ied_key` and `port` are carried along by the code and left out;
the auto random interval has passed or not by choice; log lines and the
adapter's addresses do not matter to any property.

### ValuesFeed

The text is a sequence of cells, one for each tag and a last one for
`updated_unix_ms`. Since a write truncates first, the file always holds the
first `fileLen` cells of version `latest`. A write is `BeginWrite` and as many
`WriteChunk` as needed, and may break off with the launcher; a read is
`OpenFile` (the size is taken), `ReadChunk` as often as needed, then
`ReadComplete` or `ShortRead`, then `ApplyValues`. `Parsed` says what the brace
matching accepts of a prefix: the sections that are closed. `RestartServer`
starts the process again.

`Untorn` says when one buffer holds one version only: the content is read with
one call, and either written with one call or not written twice during one
read. C stdio reads whole blocks of a file below its buffer size and Python
writes one block below 8 KB, and two writes are at least one request apart, so
files of usual size satisfy it, and every theorem that needs it says so.

### ValuesParser, TagResolver, RelayServer

A text is a sequence of tokens: braces, keys (names of sections, the stamp) and
entries (a tag with its value); a tag is the sequence of its names between dots.
`Bounds` is `extract_section_bounds`: the first token with the name, whether key
or entry, the first brace from there, and the brace that closes it. `StampAt` is
the first occurrence of the stamp's name. `Resolve` is `resolve_attribute`; its
alias needs `.SSCBR1.` after the first dot of the tag became a slash.

`RelayServer` goes through `main`: `Spawn`, `BindFails` or `Listen`, then the
loop: `Read` takes any beginning of the text while it is being written and all of
it otherwise, `PassOver` and `LockModel` compare the stamp, `EnterSection`,
`UpdateAttribute`, `SkipUnknown`, `NextSection` go through the entries one by one,
and `EndPass` or `FailPass` unlock. `data` is the model, `visible` what clients
read: the model when it was last unlocked. `Signal` may come at any step; `Leave`
looks at the flag between passes; `Kill` needs no flag. `Gone` is the end of a
process; the next one starts with nothing.

Abstracted: punctuation; numbers are their version; a token that is cut is
missing, except that the stamp's digits may be cut (`CutStamp`). A tag is known
if its node is in the model; `MCRelayServer` lists nodes that
`red615_static_model.c` has. `Ordinary` names what the parser cannot cope with
and the properties exempt: an analog tag named `words`, an analog or word tag
named like the stamp, more than one tag with a brace, or a brace together with a
tag named like a section. A list has at least one analog and one bool; it may have
no words.

A client cannot read a tag without an attribute, and `ServedValues` speaks of all
tags, so `Seen` lets a known tag stand for it: one of its own section, or else the
last known one before it, or else the first.

### LauncherInstances

`pc` is the step each copy is at, `job` whether its steps on disk are part of a
start, a request or the end. A start is `NoAnswer` (nobody serves, or not within
250 ms), `LoadState`, `BeginSave` and `EndSave` (`write_text` truncates first),
`WriteFiles`, `CleanFiles`, `Bind` or `BindFails`, `Serve`. `stateFile` is `Torn`
between the truncation and the end of a save, and after a crash there. Two saves
at once may leave any of both, or `Torn`. `rivals` is a ghost: copies that were at
work together with another one. `Edit` is any request that changes the rows.

Each row has its own name here, and a row's files are one (as in `Launcher`).

### RowValues

`values` and `ranges` are the row's dictionaries; numbers are whole thousandths.
`CoerceEntries`, `CoerceRangeEntries`, `NormalizeRangeBounds` are the methods.
A payload may have a list, null or no list at all, and ranges, which the page's own
form does not send. `Bad` is what does not convert and is replaced, `Huge` what is
too big and raises (`1e999` for a word, an integer of 400 digits for an analog).
Bounds are converted minimum first, so that of a pair like ("", `1e999`) the second
is never looked at and the default taken. `UpdateRowFails` and
`UpdateRandomSettingsFails` are requests in which something raises: what was assigned
before stays, is not saved, and `OtherRequest`, any request about another row, saves
it later.
`Restart` stands for a restart and for an import of what was exported.

### BrowserPage

The service is its version, its rows (each known by the version it was made at)
and an epoch that imports and restarts count. A connection carries one request:
sent, done (`Perform`, the first section), back (`Answer`, the second). `snapshot`
is `store.snapshot`, `shown` the state the page was drawn from, which differ while
the user edits. `Receive` has one disjunct for each way a reply is handled.
`ApplyGlobal` begins the loop of `applyGlobalRandomSettings`, as often as the user
submits the dialog; each of its requests carries the selected rows that were not
updated yet (`owed`) and the epoch of the snapshot the loop began with (`from`), and
`After` says which row it comes to next: the first that the state of the last reply
still has. `ApplyToNone` is a loop that finds none in the snapshot.

Abstracted: all buttons about a row but removal are one `save`; drafts of open
tag lists and the choice of a network adapter do not change what is requested of
which row.

## 3. Runs

| Run | Question | Expected |
|---|---|---|
| `launcher_processes` | `TypeOK`, `NoStrayRelay`, `OneOwner`, `ShownAsRunning` with everything that can fail failing: stops, cleanup, half-converted requests, a hand-made import with a duplicate id and one whose second row raises | pass |
| `launcher_files` | `FilesMatchRows`, `NoStaleFiles`, `PersistedCurrent`, `RowIdsDistinct`, `RemovedIdsStayGone`, while names are distinct and nothing fails to convert | pass |
| `launcher_threads` | `PersistedCurrent`, `ScriptCurrent` with the sections of two handler threads and the maintenance thread in any order; `DeathNoticed`: a dead relay is noticed whatever they do | pass |
| `launcher_exit` | `ExitLeavesNoRelay` (the page: "Stop the launcher service and all running relay processes?") | violation |
| `launcher_names` | `FilesMatchRows` from the default inventory | violation |
| `launcher_import` | `ImportReplaces` (the documentation of imports) | violation |
| `values_feed` | `TypeOK`, `StampMeansServed`, `NeverGoesBack`, the refinement `KeepsPromise`, and `FinalValuesServed` | pass |
| `relay_server` | `TypeOK`, `WholePassServes`, `WarnedOnce`, `KeepsPromise`, `SignalEndsIt`, `FinalValuesServed` for eleven lists of tags, ordinary and odd, with cut texts, signals and kills | pass |
| `relay_alias` | `DefaultWordsKnown`: a relay knows the words every row has | violation |
| `launcher_instances` | `TypeOK`, `AtRestConsistent`, `RestartRestores`, `StartServes` with a shared port and copies that die anywhere | pass |
| `row_values` | `TypeOK`, `RestartKeeps`, `RangesKept` through requests of any shape that fail at any list | pass |
| `browser_page` | `TypeOK`, `RequestReachesRowSeen`, `OwnChangeShown`, `SelectedRowsReached`, `PageCatchesUp` with other users, imports and restarts | pass |

What the violations show:

* `launcher_exit`: a start request was accepted; the service is told to stop;
  `shutdown()` stops the rows and saves; the handler then gets the lock, spawns
  its relay, and the launcher exits. The relay keeps the port.
* `launcher_names`: `default_row_specs` appends the RED615 row inside the loop
  over the REU615 rows, so the default inventory has `RED615_SIM_01` twice, with
  one address; the two rows share one values file and randomizing one changes
  what the other's relay serves. `README.md` lists one such row.
* `launcher_import`: the rows before the one that does not convert have already
  replaced the configuration; the state file still has the old one.
* `relay_alias`: `substitute_alias_reference` is given the tag after its first
  dot became a slash and looks for `.SSCBR1.`; `LD0/SSCBR1.Beh.stVal` has none, so
  a RED615, which has `TCSSCBR1` only, serves neither of the words every row has.

### Bounds and why they are enough

`launcher_processes` has two rows, two pids, one handler thread, one value
token: two rows and two pids are what confusion between rows takes, and three
are no new case for properties about pairs. Threads share only what the lock
guards and each section is one step, so a second thread adds orders of sections
that one thread repeating requests also takes; only `prepare_network` and the
reply's snapshot leave a thread between sections, and for these
`launcher_threads` has two threads, with two pids, two adapters and two addresses.
`launcher_files` has one, three names, two value tokens, ids up to three (two initial
rows and one handed out) and no pids: every spawn fails, which writes the same files as one that
succeeds. `MaxId` and `MaxRows` disable `AddRow` when reached.
`values_feed` has sections of two, one and two tags, four versions, two cells
for each write call: a read may span the end of one write and the start of the
next, and a write may stop inside or between sections. `MaxVersion` disables
`BeginWrite`, which is also what makes `FinalValuesServed` about the last write.

`relay_server` has five tags in three sections, two versions and one slot for
warnings: two versions show a cut pass followed by a whole one, or one process
that has seen both, and one slot is full after the first unknown tag of a list
that has three. `launcher_instances` has two copies, two rows and two crashes: a
crash, a start after it, and one more on top. `row_values` has an analog and a
word, of which one type has no analog, and the numbers 0 and 1: bounds in order, equal,
reversed, and values inside and outside; conversions go tag by tag, and a list that
raises assigns none of its tags.
`browser_page` has two ids, both of rows there are when the page is opened (`Opened`),
two requests in flight and changes up to version 3 and the removals on top (1.6
million states): enough for a loop over both rows while another request or a second
loop is on its way and one row goes; for a removed row's id to be handed out again by
the mutant that reuses ids; and for a row to be added after an import or a restart. A
row added between the loop's snapshot and its last reply needs more versions than that
and is left to `SelectedRowsReachedHolds`. `Room` keeps changes for requests that were
sent, and for those a loop will send, so that the bound never stops an answer.

Handler threads are symmetric, and so are pids, where a run without fairness has
several.
Deadlock is not checked: the launcher may exit with its relays ended, and the
feed may have seen its last version. It is checked of the page and of row values.

Actions that stop relays bound `timedOut` and `failed` separately: TLC takes no
value at all for `\E x, y \in SUBSET S` when `S` is empty, and would pass over
every stop, removal and import made while no relay runs.

### Fairness

`Launcher!FairSpec`: the maintenance thread wakes (`stop_event.wait` times out)
and gets the lock, which is held for short sections only. Nothing is assumed of
requests, users, `main` or the death of relays. `ValuesFeed!FairSpec`: the
server's loop goes on; nothing is assumed of the launcher, which may stop in the
middle of a write, so `FinalValuesServed` is about runs in which the file is
whole from some time on. A server that is restarted for ever is exempt.

`RelayServer!FairSpec`: the process goes on with its loop and leaves its start;
nothing is assumed of the launcher. `LauncherInstances!FairSpec`: a copy that was
started goes on; nobody has to start, edit, quit or die.
`BrowserPage!FairSpec`: requests are answered, and the timer fires again and
again. The last is strong fairness because the model has few connections: the
timer of a page needs none to be free. Users do nothing they need not.

### Assumptions of the passing runs

`launcher_files` takes names to be distinct (`DistinctNames`), stems to keep them
apart, no request or file to fail half-way, and cleanup to succeed. Each is a
constant, because the code does not enforce it: `launcher_names` and
`launcher_import` show what happens otherwise.

`values_feed` takes two writes to get distinct stamps (`DistinctStamps`): with
equal ones and a read between them the second would be passed over; two writes
within a tick of the clock and a read between are left to that assumption. It takes
reads to be untorn as well (`OneWritePerRead`); for torn ones there is
`NeverGoesBackHolds` alone.

`launcher_processes` lets stops, cleanup and conversions fail, and then says where
strays can only come from: `NoStrayRelay` exempts processes that a raising stop or a
duplicate id let go of (`leaked`) and those killed and not yet dead (`doomed`).

`relay_server` states two properties for `Ordinary` lists. `AtRestConsistent` and
`RestartRestores` are about copies that were not at work together with another,
the second also about saves that did not break off; a saved list that is empty
comes back as the default rows. `RequestReachesRowSeen` and `SelectedRowsReached` end
with an import or a restart, which hand out ids anew, and the second is about loops
that end with a reply: one that finds none of its rows sends nothing. `PageCatchesUp` is about pages that go on
polling, without an open dialog or focused input.

## 4. Theorems

All hold for any number of rows, threads, processes, copies, connections, tags and
versions, and any sizes of calls, from the assumptions on the constants that each
module names, and those in the statement. Every safety invariant and every action
property that a passing run checks is proved, and so are both refinements of
`ServedValues`.

`LauncherProofs`:

* `NoStrayRelayHolds`, `OneOwnerHolds`, `ShownAsRunningHolds`: from `RelayInv`,
  their conjunction with the types of the process variables. None is inductive
  alone: that a stop of one row does not touch another's process, or one that is
  doomed, is `OneOwner`, and `OneOwner` after a spawn needs the new pid to be
  held by no row. One lemma per way the processes change (`StopStep`,
  `ReplaceStep`, `StartStep`, `PollStep`, `AddStep`, `DeathStep`); the other
  steps leave them alone (`AsideStep`).
* `TypeCorrect`: with `RelayInv` (`doomed` within `alive` needs it). Which row's
  values a shared file gets is the last row's, and that there is a last one is
  `Largest`, from the well-foundedness of the naturals.
* `PersistedCurrentHolds`: if no request and no imported file fails half-way.

`LauncherConfigProofs`, over the invariant of `LauncherProofs`:

* `RowIdsDistinctHolds` (if every file loaded is `IdsClear`): inductive as it
  stands, since `nextId` is above all ids; `LoadedIds` is about a file. A file is
  clear when no row gives an id that an earlier one gives or might have been
  handed. Files the launcher wrote are, as long as its ids are distinct: it writes
  the id of every row.
* `RemovedIdsStayGoneHolds`: without any assumption.
* `ScriptCurrentHolds` (`~BadPayloads`, `GoodImports`), `NoStaleFilesHolds` (also
  `~UnlinkMayFail`): inductive as they stand. `IdsForms`, `LabelForms` and
  `DiskForms` say, once, in which ways a step changes ids, names and files.
* `FilesMatchRowsHolds` (`~BadPayloads`, `GoodImports`, `DistinctNames`,
  `StemsApart`, every file `NamesClear`): from `FilesInv`, which adds that names
  stay distinct: two rows of one name share a file, and writing one spoils the
  other's. The instance of `launcher_files` meets all these assumptions. The
  default inventory is not `NamesClear`; `launcher_names` shows what comes of that.

`ValuesFeedProofs`:

* `TypeCorrect`, `NeverGoesBackHolds`: from `FeedInv`, which adds to the types
  that what was read was written, and that nothing served is newer than what
  has been read since the file was opened. `NeverGoesBack` needs neither whole
  reads nor distinct stamps.
* `KeepsPromiseHolds` (`ASSUME Untorn`): every step of the feed is one of
  `ServedValues` or changes nothing a client sees. Needs `UntornInv`: what was
  read since the file was opened is of one version. A read that is neither begun
  nor complete was cut short by the one write that began meanwhile.
* `SectionsInOrderHolds`: what the promise amounts to, that every section is of one
  version and none ahead of one before it; an invariant of `ServedValues`, carried
  over. No run asks it beside `KeepsPromise`.
* `StampMeansServedHolds` (`ASSUME Untorn, DistinctStamps`): stamps grow with
  versions, and the one remembered is that of a version served in all its tags.

`RelayServerProofs`:

* About the text: `TextLayout` says which token stands where in the text of any
  list, `SectionFound` where the parser finds a section in any beginning of it, when
  it does not begin inside a string: at its own brace, or for the words at that of
  the bools. `OpenedThere`, `ClosedThere` and `BoundThere` say that in all of an
  ordinary text it finds its own, closed at its own end or, with a brace in one of
  its tags, at the end of the text, where as many braces are closed as were opened.
* `TypeCorrect` (the cursor stays within the section and the section within what
  was read), `WarnedOnceHolds`: from `IInv`. It adds `BufferInv` (what was read was
  written, nothing newer is served), `PassInv` (in a pass the model is ahead of what
  clients read by exactly the entries it has come past) and `WarnInv` (who was
  warned about is in the table, or the table is full). `TypeOK` is not inductive
  without `PassInv`: only that says what stands at the cursor.
* `KeepsPromiseHolds`: a pass, ended or broken off, delivers to the known tags one
  version up to the end of a section (`Delivery`: a pass breaks off before a section,
  or at a bool when it took the bools for the words), and what stands for the others
  follows section by section (`StandsLead`).
* `WholePassServesHolds`: needs `WholeInv`, which adds that the stamp kept is older
  than what was read, or all of that version is served, and, for an ordinary list,
  that the words are read from where they are. A cut stamp is never mistaken for the
  stamp of a whole text.

`LauncherInstancesProofs`: `TypeCorrect`, `AtRestConsistentHolds` and
`RestartRestoresHolds`, from `IInv`: which job the steps of a copy belong to
(`StepsInv`), copies at work together are rivals (`RivalsInv`), how far a copy alone
has come with the disk at each of its steps (`DiskInv`), and that the last save can
be loaded unless it broke off (`SaveInv`).

`RowValuesProofs`: `TypeCorrect` (`TypeOK` is inductive as it stands, and says that
bounds are in order also after requests that fail half-way), and from it
`RestartKeepsHolds` and `RangesKeptHolds`: a conversion leaves alone what is
converted already (`CoercedIsIdentity`, `NormalizeIsIdentity`).

`BrowserPageProofs`: `TypeCorrect`, `RequestReachesRowSeenHolds`,
`OwnChangeShownHolds` and `SelectedRowsReachedHolds`, from `IInv`: every state the
page holds, or that is on its way to it, is one the service was in, each row of it
either is still there or has left its id to nobody (`Seeable`), and no reply is from
before what was asked for was done (`Sound`). For the loops it adds two things: rows
of today that were made before a state are in it, and those made after it have larger
ids than any in it (`Past`); so the rows a loop has not updated are the one it is at,
those it has still to come to, or ones that are not there any more (`Owing`).

TLC checked each of these invariants on the module's instance before it was proved.
The proofs brought two things to light in the models. `Stand` used to choose in a
way that let a tag nobody can read stand in the way of `ServedValues`; TLC shows it
with the list whose third tag is misspelt, which was added. And assumptions that the
instances met had not been stated: what payloads may hold (`PayloadAssumption`), that
the names the launcher writes have no brace in them and that no section but the words
is empty (`RelayAssumption`), that a stopped page shows no state (`PageAssumption`).

### Only model-checked

`DeathNoticed`, both `FinalValuesServed`, `SignalEndsIt`, `StartServes` and
`PageCatchesUp`: liveness and `ENABLED` are beyond the prover. What a recursive
definition computes for every input could not be proved either (induction needs an
operator as a parameter, and a module that declares a `RECURSIVE` operator loses
its SMT backend); no module has one.

## 5. Not modelled, and the plan

Done: all modules of section 2, and the theorems of section 4. Next, in this order:

1. `Launcher`'s writes as the `Publish` of `ServedValues`; file writes that raise
   and the end of the maintenance thread; the path a running relay reads after
   its row is renamed.
2. Theorems that say more than the runs ask: `SectionsInOrder` of `RelayServer`, and
   which lists outside `Ordinary` the parser copes with as well.

Left out for good: clock steps and durations (the two-second waits under the
lock), PowerShell and the text of the script, page layout and styles, the MMS
protocol (libiec61850 is taken to update attributes atomically under
`lockDataModel`), the Python stub and the C template, which are simpler variants
of the relay server, the tables of the generated models, and build files. The
tables are nearly all of the lines in the repository's sources, so that the
share of lines the modules map says little about how much of the logic they have.

Known and without a property:

* returning to the window redraws the page whatever is typed
  (`launcher_service.py` 2720), and saving a form sends all its values, also those
  randomized since it was drawn (2336);
* after the service was stopped, a late failing poll or Escape draws the control
  room again (2284); if the request to stop fails, the timer stays off (2577);
* the dialog of a row that another page removed draws nothing and keeps refresh
  paused until Escape (1970);
* a tag taken off a list keeps its last value in a running relay
  (`ied_mms_server.c` 500), and one that names a node which is no attribute is
  cast to one (488);
* a range finer than thousandths gives values outside it (1750); NaN and infinity
  from an imported file make JSON the page cannot read (1514).
