# smbanything in TLA+

smbanything serves the contents of one ZIP or TAR archive as a read-only SMB2
share. This directory holds TLA+ modules of the parts of it that are hard to
test, the TLC configurations that check them on small instances, and proofs
checked by TLAPS. Definitions keep the names of the code where TLA+ allows it;
`PROJECT.json` maps each of them to the lines it stands for. Paths below are
relative to the core crate's `src/smb/`, unless they begin with `src/`.

    tlc -workers 2 -config MCContents.cfg MCContents      # one run
    tlapm Contents_proofs.tla                             # one module of proofs

## 1. The system

**Owner** (`src/main.rs`, `src/tui.rs`, `src/picker.rs`). Opens archives on a
worker thread, starts the server, hands it new contents with `SmbHandle::load`,
polls the logon limit, stops the server; runs the terminal UI and its picker, or
waits for a signal. State: what is loaded, the archive being opened, the
terminal, the picker's listing, filter, selection and window.

**Server** (`mod.rs`: `start`, `accept_loop`, `Ctx`). One task accepts
connections and spawns one task for each. Shared state: the `Contents` (a
`RwLock` around the current backing, and the `OpenRegistry`), the credentials
and the server-wide count of refused logons.

**Connection** (`mod.rs`: `Conn`, `serve_connection`, `handle_message`,
`execute`; `session.rs`). Reads a message, verifies its signature, runs the
requests of its chain one after another, signs and sends the replies. State:
`SessionState` (negotiated, session id, outstanding challenge, signing key,
trees, refusals), `Handles` (open files, the compound placeholder), the one
`srvsvc` pipe.

**File commands** (`files.rs`). CREATE, READ, QUERY_DIRECTORY and QUERY_INFO run
under the read guard of the contents lock; CLOSE does not. Each handle shares an
`OpenState` (a `valid` flag, a cached reader or directory listing) with the
registry, which holds weak references.

**Backings** (`src/root.rs`, `src/archive.rs`, `src/archive/zip.rs`,
`src/archive/tar.rs`). An immutable index; a ZIP entry is expanded to a
temporary file on first read, under an LRU cache; a plain TAR is read through
one shared descriptor, a gzipped one through a pool of worker threads. The root
puts a README beside the archive's folder.

**TUN bridge** (`tun.rs`). A user-space TCP stack on a virtual interface whose
sockets are bridged, both directions, to the loopback listener.

How they interact: the owner calls `load` (shared memory, the contents lock);
connections call backings synchronously, on the runtime's worker threads;
connections share the refusal counter with each other and the owner; the bridge
talks to connections over loopback TCP.

| component | hard behaviour | what makes it correct |
| --- | --- | --- |
| contents, registry | a load against commands and releases that are under way | no answer, handle or cache of an old backing after a load; loads return |
| connection | compound chains, related or not; logon, LOGOFF and trees in any order | a key exactly while logged on; nothing open without a logon; handles and pipe die with their tree; the placeholder never dangles; a challenge is good once |
| messages, signing | two walks over the requests of a chain, two over its responses | exactly what runs was verified, exactly what is sent is signed |
| logon limit | check, logon and count are three steps, of several connections | the overshoot is bounded; the owner learns of it |
| enumeration | pages cut by bytes, padding, patterns that change, restarts; wildcards under a budget | each entry once, none skipped, the right final status; matching as the wildcards mean |
| metadata | layouts of many classes, cut to the client's buffer | answers fit, are cut between units, and agree with each other |
| file readers | one descriptor and one position for all connections; short reads | the bytes asked for, fewer only at an end |
| expanded cache | a slot and the LRU under different locks; eviction by `try_lock` | what is cached is accounted for; the limit is met again |
| gzip pool | routing before reading, rendezvous answers, panics, shutdown | every read is answered; streams keep warm readers; stopping joins |
| archive index | entries in any order, parents missing, names that differ in case | every file listed, found and read under its name; root and folder agree |
| pipe | answers split over reads; a new request replaces the rest | no byte of an answer lost or repeated, and it answers what was asked |
| server's life | a start that fails half way; silent clients; a stop with messages under way | nothing left behind; stop returns; silent connections go |
| bridge | half closes, resets, back-pressure | bytes in order, none lost before end of file, every slot returns to listening |
| owner | a result that arrives after an unload; signals, panics, a terminal to restore | what was abandoned is never published; the terminal is as found |
| picker | a listing that goes stale under filter, completion and window | the row drawn as selected is the one that keys act on |

`PROJECT.json` lists the components with their status and the hazards with
their lines.

## 2. The modules

Every component is a module with its own variables, `Init`, actions and `Next`.
Components that share no state are checked in one run by a composing module
(`MCReads`, `MCServer`, `MCThreads`): a variable `part`, chosen in the initial
state, says which of them a behaviour is of, and the others keep still. Fairness
is stated for the part that moves, so that each part's liveness is checked with
its own steps only.

A component's main invariant contains its types: `PipeAnswers`, `ScanAnswers`
and the like say what values the variables take before they say what is right
about them. `Ordered` has what a listing and its patterns share: walking through
some places of a sequence in their order.

### Contents, and what it implements: Share

`Share` is the promise as a client and the owner see it: contents have a
generation; a load replaces it in one step; a handle is bound to the generation
it was opened against and good only while that is current; every answer is given
at one instant between request and reply.

`Contents` is the code's way of keeping it. A backing is its generation, and
data is the generation it came from. The correspondence:

| code | module |
| --- | --- |
| `RwLock` around the backing | `Readers`, `ReadLockable`, and `loader`'s positions want, queued (waiting bit set), and `Exclusive` (inside) |
| `OpenRegistry::states` | `registry`; during `invalidate_all`, `todo` is the vector it took and `held` the `Arc` it upgraded |
| `Arc<OpenState>` | `stage`: open (in a table), dropping (taken out), lent (only the loader's `Arc` is left), dying (count zero, resources being dropped), gone |
| `OpenState::valid`, `OpenResources` | `valid`, `cache` |
| `NodeInfo` of the handle | `born`, `kind` |
| handler locals | `cur`, `local`, `reply` |

A file command is a sequence of actions with the steps of other connections and
of the load between them: `BeginCommand` takes the guard, the checks and the
backing calls follow in the code's order, `EndCommand` drops it. `Close`,
`CloseTree` and `CloseAll` take handles out of the table at once and drop them
one at a time, without the lock, as the code does. A READ holds the resources
mutex from `Read` to `ReadAt`; other critical sections of that mutex are one
action. `LoadInvalidate` clears the flag and the resources in one action: in
between the loader waits only for that mutex, and what reads the flag is under
the read guard and shut out.

The registry is pruned when its vector is full. Here pruning is allowed at every
`Register`; when it happens is `Registry`'s subject.

The refinement maps `table[c]` to the handles open in c's table and `opened` to
`born`; the load takes place at `LoadSwap`.

### Registry

The `OpenRegistry`'s vector and its capacity, with connections that open files,
close them without its mutex, and register one under it: `retain` looks at one
entry at a time, if and only if there is no room, and `push` doubles what is
full. An entry is the file it refers to. `RegistryBounded`: the vector is never
twice as large as what was open at once since the last load.

### Connection

One connection; one action per request of a chain, and `BeginMessage`,
`EndMessage`, `Drop`, `Accept` around it. `chain` is the code's `Chain`, with two
history fields (`begun`, `made`). Any request can be refused for its body, its
path or the contents: `Refuse` is that, and it poisons the rest of a chain if it
was a CREATE. Every other action is a request carried out, so its conjuncts are
the checks the code makes (`InSession`, `OnTree`, `Named`) and its effect on
`SessionState`, `Handles` and the pipe. Session ids, challenges, tree ids and
file ids are small numbers in the order they are drawn. `MaxTreeId` stands for
the end of the 32-bit tree id space. Credits, the cap on the response and CANCEL
change nothing here; the cap is one of the reasons for `Drop`.

### Chain

One message of a client, down to its extents: `verify` walks the chain of
requests to check their signatures, `handle_message` walks it to run them and
appends a response for each, and the chain of responses is signed and sent. A
buffer is its length and the headers that lie in it; a header has its
`NextCommand`, a command, and where the bytes end that its signature was made
over. `WalksAgree` relates what the four walks saw: every request that ran was
covered by a signature over exactly its bytes if one was due, every response is
signed once, and the signed pieces tile what is sent. The cap on a compound
response and the messages of the old protocol are in it.

### Pipe

The `srvsvc` pipe of a connection: binds, calls and faults come in by write or
transceive, answers go out in pieces of the client's sizes. Stubs are sequences
of words, so `requested_level` really walks the server name's padding.
`PipeAnswers`: what a client collected and what is pending make up one answer,
that of the last request; a bind's results are those of its contexts in order,
also when it declares more than can be read; the level is found where the
client's encoder put it.

### LogonLimit

Many connections around one counter. `Check`, `Setup`, and `CountRefusal` or
`ClearCount` are the three steps of a SESSION_SETUP; a chain may hold several.
`OwnerStops` is the owner's poll. Past the limit `Check` refuses and counts
nothing, as in the code.

### DirScan

One directory handle and all sequences of QUERY_DIRECTORY on it. A pattern is the
set of positions it matches. Sizes are numbers: an entry fits if its padded
predecessors and itself do. `returned` and `wanted` are history.

### Glob

`pattern_matches` and `glob_match`, call by call, with the budget they pay from.
Only `*` and `<` call it in a loop; every other call of itself is the last thing
that `glob_match` does. So its stack is `loops`, the loops under way, each with
the place it has reached and the last one it may reach: `Try` opens one, `GoOn`
goes on with it after a call returned false or leaves it, `Rest` is a last call.
What a pattern means (`Means`) knows nothing of this: its characters lead, one
after the other, from the beginning of the name to its end. `GlobMeans`: a match
is never invented; one is missed only in a pattern that is too long, or when the
whole budget is spent, and with a single `*` or `<` the budget is never spent
before the ceiling cuts it.

### FileInfo

CREATE's access verdicts, and the answers of CREATE, QUERY_INFO and CLOSE laid
out byte by byte: a byte is a field, its value and its place in it.
`InfoAnswers`: an answer fits the client's buffer; one that is cut says so, ends
between two units of its string and never inside the fixed part, and tells the
size with which all of it is given; what the classes say of one file agrees (a
size never exceeds the clusters it is rounded up to, at the end of 64 bits
either); and a client that asks for a right to write is refused alike whether
there is a file or not.

### FileRead

READ from where bytes lie: a plain TAR's descriptor, whose position all
connections share under a mutex; an expanded copy, opened anew; memory. The
operating system may hand out fewer bytes than asked for. `ReadsExact`: the
bytes returned are those of the file and range asked for, fewer only where the
file or the archive ends, and END_OF_FILE exactly when there is nothing to give
or less than the client's minimum.

### ExpandedCache

Readers of one ZIP archive: the threads that serve READs on handles without a
reader. The account stands for `ExpandedCache` (`resident`, `older`, `total`),
`cached` for the slots that hold a copy. A mutex is held by whoever stands at a
position between taking and giving it back (`Locked`, `ArchiveLocked`,
`AccountLocked`). Ticks are abstracted to the order they put entries in. The
search is one action per critical section; the eviction is one action per
candidate, because readers lock and free slots while it goes on. `Evict` clears
the slot and takes the entry out of the account in one action: what comes after
the slot is free again happens under the account's mutex, unseen. Copies that
handles have taken along are not the cache's any more and not modelled.

### GzipPool

The reader threads of a gzipped TAR. A READ picks a reader under the router's
mutex (`Route`), sends to its queue (`Send`) and waits for a rendezvous answer
(`Answer`). `Spawn`, `Initialized` and `StartFails` are the pool's start,
`BeginDrop`, `SendStop` and `Join` its end. Readers may panic: their queue goes,
and those who wait are told. The router's `last_used` is the order it puts readers in.

### ArchiveIndex

Archives of up to `MaxEntries` raw entries are read one entry at a time, as TAR
and ZIP files are: names checked and split, missing parents made, an entry that
would hide another refused with the whole archive, extents checked against the
archive's end. Then `stat`,
`list` and `open` of the index and of the root, and `SmbPath::parse`.
`IndexServes`: a listing is exactly the children, every file that was taken is
found and read by any spelling of its listed name. `RootAgrees`: stat, list and
open agree on what every path is, with and without an archive.

### Picker

One key at a time with a frame drawn before it; files come and go unnoticed in
between. The window, filter, completion, typed paths, hidden files and moves
through directories are all there. `PickerRight` relates what was drawn to
what the next key acts on, `SelectionKept` the selection across a refresh.

### Server

`start` (two listeners on one port, with retries when the port was not given;
the tunnel; the thread), the accept loop, `serve_connection` with its bounded
waits, `stop` from outside and the joins; the owner may also drop the handle.
A message being handled is handled to its end when the runtime shuts down,
everything else ends at its next wait. A client can fall silent in any position.

### Owner

`Owner` is the process: `serve` with and without the terminal UI, one action for
each part of a turn of `tui::run`, loader threads that end well, badly or by a
panic, the termination signal, panics, and the terminal's raw mode and screen.
`Logons` is the server reaching its limit, which is what LogonLimit is about.

### Bridge

One slot of the tunnel: a socket of the embedded TCP stack, a loopback stream to
the listener, and the pump between. A unit is one 16 KiB chunk, named by
connection and place. The client and the server are any that TCP allows: either
sends, reads slowly, closes a half, or (the client) resets. `StreamsKept`: both
ways the bytes that were sent are, in order, what has arrived plus what is in
the buffers on the way; an end is passed on behind the last byte; a socket
listens again only after the client knows; buffers keep their bounds.

## 3. The runs

| run | what it checks | bounds |
| --- | --- | --- |
| `contents` | `UsableExactlyIfCurrent`, `NoRetainedCache`, `ServedFresh`, `ImplementsShare` | 2 connections, 2 handles, 3 generations (two loads); connections and handles are symmetric |
| `contents_live` | `LoadReturns` | the same, one load, no symmetry |
| `contents_retained` | violated: `LoadLeavesNoReader` | as above |
| `connection` | `KeyExactlyIfAuthenticated`, `NothingOpenWithoutLogon`, `NothingDangles`, `ChallengeFresh`, `RefusalsBounded`, `TreeIdsNotReused` | 1 session id, 2 challenges, 3 tree ids of which 2 at once, 2 handles, 2 refusals; chains of any length |
| `connection_placeholder` | violated: `PlaceholderOfThisMessage` | 2 session ids, 3 challenges, 2 trees, 2 handles |
| `connection_session_id` | violated: `SessionIdNonZero` | the same |
| `logon_limit_race` | violated: `NothingAuthenticatesAtLimit` | 3 connections, limit 3 for the server and 2 for a connection |
| `reads` | `CacheAgrees`, `LimitMet`, `ScanAnswers`, `PagesFull`, `PipeAnswers`, `WalksAgree`, `PickerRight`, `SelectionKept`, `IndexServes`, `RootAgrees`, `GlobMeans`, `InfoAnswers`, `ReadsExact` | below |
| `picker_left_right` | violated: `LeftThenRight` | those of `reads` |
| `server` | the types of three components (`MCTypeOK`), `LimitOvershoot`, `LimitStops`; `NothingLeft`, `StopReturns`, `SilentDropped`; `UnloadHolds`, `TerminalRight`, `LoadAnswered`, `SignalEnds` | limit: 2 connections, limits 3 and 2; server: 2 clients, a tunnel, 1 retry; owner: 2 archives chosen, 1 unload |
| `server_unread` | violated: `SilentDropped` without `HostsRead` | as in `server` |
| `threads` | `StreamsStayHot`, `ReadsAnswered`, `PoolEnds`; `RegistryBounded`; `StreamsKept`, `SlotReturned` | pool: 3 readers, 3 streams (two of one file), 1 panic; registry: 4 files, a first vector of 1; bridge: 2 connections one after the other, 2 units each way, buffers of 1 |

Why these bounds are enough.

- `contents`: a race needs one handle being read, opened or released and one
  load; the second handle and connection give the walk an order and the lock a
  second reader, and the second load meets handles that the first one
  invalidated. The proofs below hold for every bound.
- `connection`: two trees at once and three ids show reuse and the survival of
  the other tree's handles; two challenges show a second logon on a connection
  that has one, and a LOGOFF between the legs of an exchange; two refusals show
  the limit in one chain and in several. One session id is enough for what
  `connection` checks; the violated runs have two so that they do not depend on
  it.
- `reads`, expanded copies: 2 readers, 4 entries of sizes 1, 1, 1, 3, limit 2.
  More entries than the readers can keep from eviction, and one of them alone
  above the limit.
- `reads`, directory: 4 entries, all 16 patterns, 3 buffers, all flags. One entry
  fits alone, one is kept out by another's padding, one fits only the largest
  buffer.
- `reads`, pipe: names of 0 to 2 units (every padding), both levels, stubs cut
  after every word, binds of up to 3 contexts that declare more than they have;
  reads of nothing, of a part and of all.
- `reads`, chain: messages of up to three requests of two units, links to the
  next, into a header, to the end and past it; signatures over every length.
- `reads`, picker: directories inside and hidden, one unreadable, files that
  vanish, filters that match nothing, something or are paths, windows of 1 to 3.
- `reads`, index: up to 3 entries out of names that differ in case, one that
  sorts between another and what is below it, one with a backslash, `..`, a name
  of the root, entries past the archive's end, and TAR's special records.
- `reads`, wildcards: every pattern up to 3 of seven characters and one that is
  too long, against every name up to 3 of three characters and some of 4 with
  dots. The budget is scaled with them (one visit of a pair, at most
  18 calls), so that it really runs out: `*<` on three dots and a letter spends
  all of it before it finds the match.
- `reads`, metadata: an empty file, one a byte over a cluster, the largest size
  (16 bits here); buffers on, below and above the size of each structure.
- `reads`, bytes: 2 callers, two files of one archive that ends inside the
  second, a copy, the README; reads that may come back short.
- `server`: two clients tell a connection's end from the server's; one retry
  shows a port taken back. With two archives one can be late when the next is
  chosen.
- `threads`: as many streams as readers, the bound in the code's claim; a panic
  leaves fewer readers than streams. A first vector of one doubles twice with
  four files. Buffers of one fill at once; the second
  connection meets what the first one left in the slot.

Deadlock is checked in `contents`, `contents_live`, `contents_retained` and the
runs of Connection. In the others the components really come to an end: a server
that has stopped, a pool that is gone, an archive that has been read.

Fairness. `contents_live` assumes weak fairness of the steps of a command or
release that has begun (handlers are synchronous code that the runtime runs to
the end in `block_in_place`; backing calls return) and of a load that has begun.
It assumes nothing of clients: they may send for ever or never again. That a
load gets in follows from the lock, which keeps new readers out once a writer
waits, and from handlers taking the guard once: one that asks for it a second
time (`ReadAtGuardAgain`) waits behind the queued writer for ever. The standard
library does not promise that order; its futex lock, which Linux and Windows
use, has it.

`server` assumes: of the limit, the owner's poll only, a loop with a timeout in
`src/main.rs` and `src/tui.rs` (a count that a success clears between two polls
is never seen, which is why `LimitStops` allows it); of the server, that its
threads and each connection's task run and timers go off; of the owner, that the
main thread runs (a turn waits at most 200 ms for a key) and that opening an
archive ends. `StopReturns` needs nothing of clients. `SilentDropped` needs
`HostsRead`, that the clients' hosts take what they are sent, and
`server_unread` shows that the code has no substitute for it.

`threads` assumes that threads run; nothing of how far files are read. For the
bridge also that the server reads and ends, and that the client's host answers
the stack, is delivered what was sent and closes what it has been told the end
of (strongly fair, since each of these waits for the stack to be polled): no
timeout is set on the tunnel's sockets, so that nothing else ends such a
connection.

Every property has a mutant: an operator beside a definition of the module that
changes it the way a bug would. `PROJECT.json` pairs them, and TLC finds each
property violated with its mutant in place.

## 4. The proofs

Every invariant and every action property that a run checks is also a theorem,
for all values of the constants that the named assumptions allow. The
assumptions are those of the modules, and TLC evaluates them in the runs. They
say what the code's types and its callers give: that sizes and bounds are
natural numbers, that a value which means "none" is not one of the others, that
what runs at once is finite. Those that say more are named below.

None of the properties is inductive. Each has an invariant that is (`IInv`, or
the component's name with `Inv`), one lemma for each action that keeps it, and a
theorem that combines them. `Ordered_proofs` has what several proofs share: least
and greatest elements, sums over finite sets (by the least set for which a claim
about them would fail), concatenation, and the walk of `Ordered`.

### Contents_proofs

`TypeOK`, `UsableExactlyIfCurrent`, `NoRetainedCache`, `ServedFresh` and
`ImplementsShare`, for every set of connections and handles and every number of
loads.

- `IInv` adds what holds *during* a load: the lock excludes (`LockExcludes`), the
  loader's locals mean what the code takes them to mean (`LoaderLocals`), **no
  valid handle escapes the walk** (`ValidRegistered`: it is registered, waiting
  to be visited, or held), caches belong to valid handles of their own generation
  (`CacheOfOwnGen`), only older handles are invalid (`InvalidIsOld`), and what a
  handler keeps in its locals between two steps is still true at the next one
  (`HandlerLocals`).
- `ValidRegistered` is where CREATE's registering under the read guard matters,
  and where closing without it is shown to be harmless: a handle whose count
  reached zero need not be visited.
- With `IInv` each action satisfies `ServedFresh` and maps to an action of
  `Share` or to a stutter.

`RegistryIsBounded`, for any files and any smallest vector. Files close while
`retain` looks, so that the entries it leaves in need not be open any more when
the vector grows. But all it has kept, and all that is still to be looked at and
open, were open at the moment it began, together with the file that is being
registered (`Remains`): that many were open at once.

### Connection_proofs

Every property of `connection`, for any bounds: `KeyFollowsLogon`, `NoReplay`,
`NothingOutlivesLogon`, `NothingLeftDangling`, `RefusalsCounted` and
`NoTreeIdReuse`. `IInv` has three groups, each proved over messages and over
requests: types; the session (key, challenge, refusals); the tables (trees,
handles, pipe, placeholder). Two conjuncts are there for the induction only.
`ClosedIsReset`: a closed connection has the state of a new one, without which
the next `Accept` would not start in order. `TreesHandedOut`: a live tree's id
was handed out, without which a new tree could take a live one's id.

### Answers_proofs: Pipe, Chain, FileInfo

`ClientIsAnswered` proves `PipeAnswers` for any requests, answers, contexts and
capacities. `PipeInv` keeps the answer that was made beside the request it was
made for (`AnsweredBy`) and that what was collected and what is pending are that
answer, cut in two (`AnswerWhole`). What an answer is worth then follows from
how `dispatch` makes it, in any number of pieces.

`ChainsAgree` proves `WalksAgree` for any message, however its headers lie:
`MessagesAssumption` says only that offsets and links are natural numbers and
that a message is not empty. The four walks have no common variable. `ChainInv`
relates the walk that runs requests to the extents that were verified (what has
run is the first extents of the message, `RanSoFar`, and the offset is where the
next begins, `AtRequest`) and the responses to the headers they were given
(`Built`, `Linked`): their links tile the buffer, so that the walk that signs
meets exactly the places where responses begin.

`AnswersOfInfo` proves `InfoAnswers` for any nodes, volume, class, rights and
buffer. The state is one answer (`InfoInv`: it is what one of the three commands
made); the work is to measure every layout, field by field, and to show that
the cut falls between two units of a string and behind every fixed part.

### Listing_proofs: DirScan, Picker, ArchiveIndex

`DirectoryIsAnswered` proves `ScanAnswers`, and `PagesHoldAll` `PagesFull`, for
any listing, patterns and page sizes. `ScanInv` adds `BehindCursor` (nothing that
was returned is before the cursor, and a scan that has not begun has none). A
page is the longest piece of what matches whose padded sizes fit: the sum of the
sizes before the cut fits, and one more would not.

`MarkedIsActedOn` proves `PickerRight`, and `SelectionIsKept` `SelectionKept`,
for any directories, filters and heights. `PickerAssumption` and
`LineageAssumption` say that paths are one below another under a top that is there
and can be read; `FilterAssumption` that a filter cut by a character is one, or
nothing.
The window follows the selection only when it is drawn, which is what the theorem
is about: each key leaves a picker in which the selection is among the rows, and
`scroll_to_fit` then always brings it between the first and the last row.

`ArchiveIsServed` proves `IndexServes`, and `RootIsOfOneMind` `RootAgrees`, for
any members in any order. `IndexAssumption` says what lower case is (its own
lower case, with a place in the order of names) and that the separators are
forbidden in names. `IndexInv`: the index is a tree (`TreeInv`: above each key is
a directory, and the last part of a key is the entry's name), every file taken
is in it and counted (`TakenInv`), and nothing that is served ends behind the
archive (`EndInv`). A listing is a range of keys, cut where the order of whole
paths leaves the directory: that names in between sort before or behind all of
its children is proved from the order of their first different parts.

### Readers_proofs: ExpandedCache, FileRead, Glob

`CacheCorrect` and `LimitKept` prove `CacheAgrees` and `LimitMet`, for any finite
set of readers, any entries and sizes, any limit. `CopiesCounted` and
`ExpandedOnce` need `LocksExclude`; `TotalIsSum` (`TotalKept`) says that the
running total is what it is a total of. `LimitMet` says something only once an
eviction is over; `PassedOverInUse` carries it through: whatever the eviction has
passed over was locked by a reader that can only be *looking* (by `ExpandedOnce`
nobody fills a slot that has a copy), will find the copy, and must then wait for
the account. So each copy passed over has a reader of its own, and the copy just
counted belongs to the reader that evicts. A consequence is that `insert` never
meets an entry that is already resident: that branch of the code is dead.

`ReadsAreExact` proves `ReadsExact` for any callers, files, offsets, lengths and
minima. `ReadAssumption` adds that the README starts at 0 and ends with its size.
`ReadInv` adds, of each caller, `Alone` (one that stands between a seek and a
read holds the mutex of the shared descriptor, or reads a descriptor of its own,
so that nobody moves it) and `ReadSoFar` (what it has is the bytes from its
offset on, and the descriptor stands just behind them).

`MatchesAreMeant` proves `GlobMeans` for any patterns, names, and bounds of the
budget. `GlobInv` has three parts. `OnlyMatches`: a match of what is left at the
call, or at any place a loop has yet to try, is a match of the whole.
`NoneMissed`: if there is a match, it is found, or ahead of the call, or ahead of
one of the loops, or the budget is gone; a call that returns false has looked at
all there is. `CallsOfOne`: where the pattern has one `*` or `<`, every place of
its loop has cost at most one call for each character behind it, so that the
calls stay below the pairs of places that the budget counts, and `BudgetLasts`.

### MCServer_proofs: LogonLimit, Server, Owner

`OvershootBounded` proves `LimitOvershoot` for every finite set of connections
and any limits. A refusal that has been decided is not counted yet:
`OvershootInv` reserves a place under the bound for each logon that has passed
the check; one passes only while the count is below the limit, and counting gives
its place up.

`NothingLeftBehind` proves `NothingLeft` for any clients, with or without a
tunnel. It is about the last state; `Phases` and `ConnsOfPhase` say what is up,
and where connections can be, in every state before it. `UnloadIsFinal` and
`TerminalRestored` prove `UnloadHolds` and `TerminalRight` for any numbers of
loads and unloads: what the loop listens to was chosen after the last unload
(`OpeningIsRecent`), and the run without the UI never gets into the loop
(`Modes`). `MCTypeCorrect` is about the three put together as the run has them.

### MCThreads_proofs: Bridge, GzipPool

`StreamsAreKept` proves `StreamsKept` for any buffers, numbers of connections and
of units (none of them 0). `BridgeInv` adds `SlotStates` (a socket without a
stream has what its client began with and nothing else; one that has sent its end
has nothing left to send) and `ToldOfState` (what the client knows goes with the
socket's state, and a reset that is owed is sent before the socket listens
again). A pump is one lemma for both directions (`PumpFits`): what is taken in
and what is passed on leave the concatenation of the four buffers, and so the
stream, as it was, and fit where they go.

`StreamsAreHot` proves `StreamsStayHot`: with no more streams than readers, every
stream that has begun keeps a reader that is where it continues. Streams have no
names in the code, only offsets, and two of them may be at the same one. `Hot`
therefore counts: at each offset there are as many ready readers as streams that
continue there. A READ that continues takes one of those and puts it at the next
offset; one that begins takes the reader that was picked longest ago
(`PickOrder`), which belongs to nobody, because no more readers were picked than
streams have begun (`FewPicked`). `PoolAssumption` says how files lie in a TAR:
the content of one comes after its header, so that none begins in another one or
at its end.

### Only model-checked

Liveness: `LoadReturns`, `LimitStops`, `StopReturns`, `SilentDropped`,
`LoadAnswered`, `SignalEnds`, `ReadsAnswered`, `PoolEnds` and `SlotReturned`. It
rests on fairness and on which actions are enabled, which the prover does not
reach.

## 5. Where code and documentation disagree

Six statements of the code's own comments are refuted by what it does. Each has
a run whose counterexample shows how.

- `mod.rs:418`, load: "when this method returns, no cached file reader keeps the
  previous backing open". A connection that is just releasing a handle does
  (`contents_retained`). `NoRetainedCache` is the part that holds.
- `mod.rs:1049`, chains: "a chain cannot reach back into the one before it". A
  message of related requests only can, through the placeholder
  (`connection_placeholder`).
- `session.rs:454`, session id: "any non-zero value". A LOGOFF between the legs
  of an exchange leaves 0 (`connection_session_id`).
- `mod.rs:1273`, logon limit: "nothing authenticates again". A logon that was
  already past the check does (`logon_limit_race`). `LimitOvershoot` is the part
  that holds.
- `mod.rs:719`, idle timeout: a bound without which a silent connection "would
  hold its task and socket for as long as the server ran". Replies are written
  without one (`mod.rs:878`): a client that falls silent and does not read them
  keeps its connection (`server_unread`).
- `src/picker.rs:265`, going up: "Left then Right returns to where the user was".
  Not from a hidden directory, which its parent does not list
  (`picker_left_right`).

Seen while modelling, without a run: a related request inherits the identity of
the last *successful* request rather than of the one before it; refusals past the
server's limit are not counted, so such a connection is not dropped for them;
`Conn::pipe` speaks of "at most one IPC$ tree" but two can be connected;
`scanned` is set before the encoder can refuse the buffer; trees survive a
LOGOFF. The registry is said to stay small "without turning every registration
into a full scan" (`files.rs:139`): with one file fewer open than the vector has
places, each file that is opened and closed fills it again, and `retain` runs over
all of it at every registration until one more file stays open. And the budget
of a match, "only ever exhausted by a pattern built to exhaust it"
(`files.rs:658`), also ends a pattern as plain as `*<??` on a name of 250
letters, a dot and three more, which it matches after 95890 calls and is allowed
81600.

## 6. Not modelled

- Cryptography: NTLMv2 and HMAC are data; a response verifies exactly against its
  own challenge, a signature exactly over its own bytes. The layout of NTLM and
  SPNEGO tokens is left out with them.
- Credits.
- `Bind::AllInterfaces`: a loopback bind at another address.
- The packet device, its driver and the routes of the tunnel: I/O. The embedded
  TCP stack and the runtime are external, modelled from how `src/` uses them.
- The chain of create contexts: a choice whether MxAc is in it. Timestamps and
  volume ids: fields without a value.
- ZIP and gzip decoding; the central directory's encoding; control characters in
  names, which only the archive's parser refuses.
- Symbolic links in the picker; drawing; the command line; the text of the
  connection instructions; CI and packaging; the vendored driver.
- Handlers of a connection do not panic here, and their mutexes are never
  poisoned. (Gzip readers, loaders and the owner do panic.)

## 7. Plan

Every component with state of its own is modelled, and every safety property
proved. What could follow: credits (`grant_credits`) in Chain.
