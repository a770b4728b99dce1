# A verification project for alpmrpc

alpmrpc lets native Windows programs use the libalpm of an MSYS2 installation.
A client DLL (`libalpm-14.dll`) exports libalpm's C interface; each function is
a generated stub that sends a request over a named pipe to `alpmrpcd`, which
calls the real libalpm and sends the result back. This directory models the
parts of it that carry state, model-checks them with TLC and proves the
invariants of most of them with TLAPS, for every number of processes, threads,
handles and objects.

Paths below are those of the repository (`src/server/...`, `src/client/...`,
`src/common/...`, `tools/gen/...`).

## 1. The system

| Component | State | Operations | Hard part | Modelled in |
|---|---|---|---|---|
| Handle table (`arpc_server.c`) | slots by id and by pointer, `g_next_seq`, `g_next_root` | put, adopt, get, ancestor, drop, drop_owner, drop_under, drop_ptr, reset | an object met twice is re-filed; a drop takes a subtree, frees adopted records, may fail to allocate | `HandleTable` |
| Generated handlers (`emit.py`) | none of their own | one per libalpm function: read arguments, call, file what comes back, drop what was destroyed | the owner an object is filed under decides when its id goes | `ServerObjects` |
| Invalidation hooks (`arpc_invalidate.c`) | the `dying` list of one call | pre and post hooks of trans_release, trans_commit, db_update, unregister_all_syncdbs | libalpm frees objects by itself, in the middle of a call whose callbacks reach the client; addresses are reused | `ServerObjects` |
| Request dispatch (`arpc_server.c`) | request, response | parse, look up, call, reply or error | a frame without a method; a reply that cannot be built | `Connection` |
| Server loops (`main.c`) | the pipe, the idle timer | accept, serve_connection, arpc_conn_exchange, `--stop` | nested requests inside a callback | `Connection`, `Endpoint` |
| Endpoint (`main.c`, `ensure_connected`) | pipe instances, `g_shutdown_requested` | launch, poll, accept, idle out, stop | nobody coordinates: clients and servers meet by the pipe's name alone | `Endpoint` |
| Callback bridge (`arpc_callbacks.c`, both sides) | registry per handle, `g_seq` | set_callback, cb_send, dispatch | an answer must meet its question, over any nesting, failure and reconnection | `Connection`; the registries in `HandleTable` (server) and `Session` (client) |
| Client call cycle (`arpc_client.c`) | `g_lock`, `g_pipe`, `g_next_id`, `g_conn_refs` | enter, ensure_connected, set_path_style, begin, invoke, transact, disconnect, unref | recursive lock, nested calls, reconnection in the middle of a callback | `Connection`, `RemoteCall`, `Session` |
| Cache of borrowed results (`arpc_client.c`, stubs of `emit.py`) | `g_owned`, `g_detached` | cached, cache, intern, detach, purge_owner, purge_root | the caller keeps pointers; callbacks read in the middle of a change; entries are found by id, also after a reconnection | `ClientCache`, `Session` |
| Package columns (`arpc_client.c`) | groups of packages with their columns, `g_slots` | group_register, field, fetch, drop_column, free_groups_of | lists that overlap; a callback reads or changes a field while its column is being fetched | `PkgColumns` |
| Gpgdir (`arpc_gpgdir.c`) | `g_seen`, `g_gpgdir`, gpgme's own directory | follow the handle of a request | one keyring directory per process, nested requests for other handles, errors that must not be cleared | `Gpgdir` |
| Framing (`arpc_wire.c`) | none | send, receive, verify the peer | partial transfers, length limits | `Wire` |
| JSON, base64 (`arpc_json.c`, `arpc_b64.c`) | the writer's buffer | read, write, splice | unchecked writes, sticky errors, numbers at their limits, padding | `Codec`, `Wire` |
| mtree, local functions, path conversion, API extraction | none that outlives a call | | I/O, or build time | not modelled |

How they interact: a stub takes the client's lock, looks in the cache, and if it
has to, runs one exchange on the pipe. While it waits it serves callbacks, which
may call stubs, on the same thread and the same pipe. The server is one thread:
it serves a request, and while libalpm is inside a callback it serves the
requests that the callback makes. A reply carries ids, which the table issued;
the client's cache files results by those ids and forgets them by the root in an
id's high bits, while the server forgets them by walking owners.

What makes it correct: an id names one object and a stale id names none; the
table stays a tree, and a root is exactly a subtree of it; a frame is only read
by the one that waits for it, and a call is carried out at most once; nobody
waits for ever; what the caller holds stays valid for as long as it would with
libalpm itself, and what it reads again is up to date.

## 2. The modules

**HandleTable** (`arpc_server.c`, `arpc_cb_set`, `owner_expr`). `tab` is what the
two open-addressed indexes hold, as one function from ids to slots; ids are pairs
of a root and a sequence number (the source packs them in 64 bits; with 24 bits of
root and 40 of sequence a process does not reach the limit, and the model does
not let it). One action per operation. `owed` is a ghost: adopted records that
have not been freed. `AllocFails` says whether growing or rebuilding may fail: a
put then files nothing, which is a stutter, and a drop drops nothing. The two walks
of at most eight steps are `Chain`. A callback may be registered under id 0, the NULL
handle's, which is valid input everywhere; the registry is not the table's and a
reset leaves it.

**ServerObjects** composes the table with the handlers, the hooks and a libalpm
for one handle. `heap` says which addresses hold an object, which database caches
a package and where it came from; a freed address may be used again in the next
step, even for the new version of the package that was freed. libalpm's own behaviour is external
and is taken from what the hooks and the overlay say of it. alpm_trans_commit
is three kinds of step (begin, one per target, end), because callbacks run inside
it and the client may make any reading call there. alpm_db_unregister takes any
database, the local one too, and is refused while there is a transaction; the
handler drops the ids either way. Four ghosts record ids whose object is gone
(`dangling`), those among them that were filed outside the database they went with
(`stray`), live databases and handles whose id was dropped (`forgotten`), and those
libalpm refused to unregister (`refused`).

**RemoteCall** is what the pair promises of a call: it is carried out at most
once, it returns a result only after it was carried out, and calls return
innermost first. **Connection** is the protocol: threads and servers as stacks of
frames, pipes that carry messages, the lock, the path style, callbacks with their
numbers, and the failures: a pipe that breaks, a server that dies and is started
again, a request, a reply or an answer that cannot be built, an error reply to the
path style. Messages carry, as a ghost, the
connection on which the question they answer was asked.

**ClientCache** is the cache with the stubs around it. A stub in flight is a frame
on `stk`, since the lock keeps every other thread out and only callbacks of the
same thread interleave. `val` is what libalpm would answer now; two values tell
fresh from stale. Pointers are numbered and never reused, so that use after free
is visible. `MaxMishaps` bounds the replies that are lost and the calls that libalpm
refuses. A handle has a database, a package of that and a loaded package.
Commits, updates and alpm_unregister_all_syncdbs destroy objects that the client
does not name, and alpm_pkg_free purges what it names, also when libalpm leaves it
alone. Three ghosts record where the promises of the code end: `unseen`,
what a call may have changed whose reply was lost, `refused`, the databases and
packages libalpm would not destroy, and `orphaned`, those that went by a call about
another object; `HeldUnlessRefused`, `StaleOnlyIfUnseen` and `EntriesOwned` state the
promises with these exceptions. `CachedListsFresh` states the second one
without any, for the instance in which alpm_sync_sysupgrade is a call.

**PkgColumns** is the cache of package fields, with the same stack of stubs.
`groups` and `slots` are `g_groups` and `g_slots`; a column is the sequence of what
the server answered for the members, each value paired with its package, so that
an entry read at the wrong place shows. The server reads a column one member at a
time, since libalpm may load a package, log, and so call back, at each. The ghost
`raced` names the groups in which a fetch met another fetch of the reasons or a
change of one, or where the reply to a change was lost. Two fields stand for all:
a string one, into which callers hold pointers, and the one numeric field that a
call changes. Allocation failures are left out here, and a package whose id the
server no longer knows (its entries are null and nobody asks for them).

**Session** composes the client with the server processes it meets. Every process
has its own `HandleTable` (`Server(p)`), whose operators the actions use and which
`TablesKept` shows it implements; the client has what it files by id, whichever
process issued it: `cache` (with the getter's name), `regs` (the callback registry)
and `refs` (`g_conn_refs`). The NULL handle is an argument like another: its calls
are answered with a failure, and the stubs do after that reply what they do after
any, alpm_release's arpc_conn_unref included (the ghost `spent` counts these). A call is one
step, which may lose its reply after it was carried out; other clients use the
same processes in between; processes exit and die. Handles are numbered objects,
so that an answer says which object it is about and which one was meant.

**Endpoint** is how clients and servers find each other. `srv` is where a server's
main() is, `end` its one instance of the pipe, `at` whose instance a process holds;
`cl` and `stop` are where a client's ensure_connected or `--stop` is. An instance can
be opened from CreateNamedPipe on, and closing it takes along whoever opened it since. The
launch and every opening is a step of its own, and so are the idle timeout and the
CloseHandle after it, between which a client may get in. A connection between two
live processes may also end by a fault of either: a peer check that cannot be made,
a frame refused for its size or for want of memory, a reply that cannot be built or
sent; `MaxFaults` bounds these and the launches and starts that fail. The ghost `cut` has the clients to which an idle exit or a fault happened;
`blind` the servers that `--stop` asked without getting a handle to their process,
for which it sleeps 100 ms in the place of waiting. The one assumption about
time is in `IdleFires`: 30 s of idling are longer than the 10 s that the client
which launched the server polls.

**Gpgdir** is `arpc_gpgdir_follow` under nested requests. libalpm and gpgme are
external, from what the comments in `arpc_gpgdir.c` say of them: entry points clear
a handle's error, alpm_errno does not, and the first signature check points gpgme by
itself. Addresses of handles are reused. Four ghosts name the exceptions of the
properties.

**Codec** has the JSON writer and reader and base64 as operators: a writer is a
record of its buffer, capacity, comma and error flag (and, as a ghost, whether
anything was written behind the buffer's end); an operation is a sequence of
pieces, each of which reserves and then writes unchecked; the reader is a recursive
descent over a sequence of characters with one character for each class the code
tells apart. **Wire** puts them to work: a handler's result is written operation by
operation into `rs.out`, spliced into a reply, framed, moved in chunks, refused or
taken, and parsed. A result may be bytes, whose base64 has an allocation of its own.
Widths are small constants with the proportions of the code: 8-bit integers, escapes
of two and of three characters for each of which three are reserved, a header of two
base-7 digits whose 49 values are more than `MaxFrame` and
fewer than the longest reply, bytes of four bits of which three make four base64
digits. `Receive` sends texts of other writers: numbers around every limit, brackets around the depth limit,
and strings that may be base64.

MC modules only add the symmetry sets and the sets of calls, results and texts of the
instances.

## 3. The runs

Passing:

| Run | What it shows | Bounds |
|---|---|---|
| `handle_table` | owners are live and above what they own, a root is a subtree, one id per object and never again, adopted records are held until freed, no callback outlives its handle (one of the NULL handle has none), also when allocations fail | 3 addresses, 5 ids: two roots, or a chain of all four levels and a record |
| `server_objects` | an id outlives its object only in the one case described under "Exceptions" below, and within a commit whose hook has noted it; the handle and its databases keep their ids, but for a database whose unregister was refused; the owners that handlers compute keep the tree | 1 handle, 3 databases, 3 packages of 2 names, 4 ids |
| `connection` | one turn at a time on every pipe that is up, no frame out of step until something fails, no question given another's answer, requests served under their client's path style, RemoteCall implemented; every stub returns, and a server whose pipe is gone listens again | 2 threads, 2 servers, 6 requests, 3 connections, 2 callbacks a server, 1 failure of any kind |
| `client_cache` | pointers held stay valid but for a refused unregister or alpm_pkg_free, lists are fresh between calls but for lost replies, one pointer per string value, entries go with their object, or with the handle if a call about another object took it (a commit, an unregister), and are freed once, a list that answers lookups does not change | 1 handle with a database, a package of it and a loaded one, 4 cached getters, a setter and a commit, nesting 2, 3 results, 1 lost reply or refusal |
| `pkg_columns` | a package is answered from its own entry whatever lists it was met in, strings handed out are not freed, a reason is out of date only after one of the named races | 2 packages in overlapping lists, nesting 2, 3 columns, lost replies |
| `session` | what is kept by id is taken for another object's only across processes and only after a failure or alpm_release(NULL); without these `g_conn_refs` keeps the pipe while there are handles and no longer; cache and registry hold nothing but of handles still held or whose release failed, and of NULL; every process's table implements `HandleTable` | 2 processes, 2 handles, 3 ids a process, 2 failures or calls given NULL, other clients |
| `endpoint` | a connection is lost only to an idle exit that met its opening or to a fault, never to `--stop`; a client gives up only if its server did not come up or was opened by another; `--stop` reports success only when every server it asked has exited, those it had no process handle of aside, and the others have no pipe; clients settle and servers go, whatever ends connections | 2 clients, 2 servers, 2 polls, 2 tries of `--stop`, 1 failure |
| `gpgdir` | libalpm runs with the keyring of its handle, and a remembered directory is current, each but for named exceptions | 2 handle addresses, 2 directories, nesting 3, 1 failure |
| `wire` | no write outside the buffer; the client reads what the handler wrote, an error, or nothing, but for the two cases under "Exceptions"; numbers, depth and base64 are taken exactly when they should; every transfer ends | 21 results, 119 texts, 2 frames, chunks of 1 and 16, 2 failed allocations |

Each module's `TypeOK` is checked as a conjunct of one of its invariants, except in
`handle_table`, where it stands alone.

Why the bounds are enough: owners are at most four deep and a drop depends on one
chain, so two chains and one record meet every case of a drop; re-filing needs one
object and two owners. A protocol failure that nests needs an outer call, its
callback, a nested call and its callback, and a second server to reconnect to: 4
requests (the path style doubles them on each new connection) and 2 callbacks. A
stale entry needs one entry, one change and one nested read; a stale column needs
at most two columns of one field, and one more shows the strings beside them. Ids of
two processes meet when each has issued one, and two handles of one process tell
its roots apart; the proofs cover any number. A race for a server needs two clients and the server
each of them launches, which are also the ones they find when they come back; to get
on or not, a client needs one poll that finds nothing.
Keyrings cross when a call for one handle nests in a call for the other, and again
in that. One failure at a time is what the runs of `Connection`, `Endpoint` and `ClientCache`
afford; the theorems of section 4 speak for any number, and for both path styles,
where the run has one. The texts of `wire` sit on both sides of every limit, and a second frame
shows what a first one leaves in the pipe.

Deadlock is checked in `gpgdir` only: in the other runs the bounds on ids, requests,
servers and frames end every behaviour, and `OneTurn` and the liveness properties say
what deadlock freedom would.

Violations: each states what a comment or the README of the repository says, and TLC finds a
behaviour of the code that contradicts it.

| Run | What is said | What happens |
|---|---|---|
| `callback_dropped` | a silent drop "would deadlock the transaction" (client `arpc_callbacks.c:165`) | transact drops an answer it could not build and keeps the connection; the server stays in the callback |
| `sysupgrade_stale` | `rules.invalidates` lists the calls that make a cached result stale (`overlay.json:54`) | alpm_sync_sysupgrade adds targets and is not listed |
| `release_null` | the client "drops the pipe when the caller's last libalpm handle is released" (`README.md:84`) | alpm_release(NULL) releases nothing and is counted down all the same: the pipe goes under an open handle |

### Exceptions

Promises that the code keeps but for named cases are stated with those cases as
part of the property. The runs and the proofs show that the modelled operations and
failures cause no others; section 5 says what is not modelled.

- `StaleOnlyIfStray`: "a stale id misses" (`arpc_invalidate.c:3`), unless a package
  is filed outside its own database (found through a list of databases and filed
  under the first of them, or under the handle by an event) and its own database,
  the local one too, is unregistered or its cache thrown away.
- `HandleAndDbsKept`: alpm_db_unregister drops the id of its database whatever libalpm
  answered (`srv_finish`): refused during a transaction, the live database and its
  objects come back under new ids.
- `CallbacksOfLiveHandles`: a callback registered for the NULL handle is under id 0,
  which nothing takes back.
- `HeldUnlessRefused`: results "stay valid as long as the object they came from"
  (`arpc_client.c:239`), unless alpm_db_unregister is refused, or alpm_pkg_free is given
  a database's package: their stubs purge whatever the call returned.
- `EntriesOwned`: what was read from an object that a call about another one destroyed
  (alpm_unregister_all_syncdbs, a commit, the packages of an unregistered database)
  stays until the handle goes ("They go when the handle does", `arpc_client.h:92`).
- `StaleOnlyIfUnseen`, `EntriesOwned`, `KeptForHandles`: a stub whose reply is lost
  returns before it detaches, purges or counts down.
- `StaleOnlyIfRaced`: a callback that reads the field being fetched leaves a second
  column, of which `drop_column` drops one; or the field changes under the fetch.
- `AnswersMatch` is stated for at most one failure. Callback numbers start over with a
  process, so after two (a server that dies in a callback, and an answer dropped)
  an old answer may carry the number of a new question.
- `MixedOnlyAcross`: ids "stay unique and are never reused" (`arpc_wire.h:44`)
  within a process. After a server died or a reply was lost, the client may reach
  another process, whose ids are the same numbers: a cached result or a callback of
  the old handle then answers for the new one.
- `KeptForHandles`: an alpm_initialize that libalpm refuses leaves the client connected,
  and the server held, until a handle comes and goes. A release that failed keeps
  the pipe for good.
- `HeldHere`, `KeptForHandles`: every alpm_release(NULL) takes one from `g_conn_refs`, so the
  pipe goes early, and the count may pass below zero (run `release_null`).
- `LostToIdleOrFault`, `GivesUpOnlyIfTaken`, `StopRetires`: the idle timer may meet a
  client that is opening the pipe; a frame or a peer check may fail between live
  processes; without a process handle `--stop` does not wait for the exit of a server
  it asked; two clients that race for servers may find the one
  they launched taken; `--stop` does not see a server that has no pipe at that moment.
- `OwnKeyring`, `EntryCurrent`: a nested call for another handle moves
  the keyring and nothing moves it back; init_gpgme points gpgme without g_gpgdir
  noting it; the directory may be set within a call that then fails; memory may run out.
- `Faithful`: `ensure_obj` takes a writer whose first allocation failed for one that
  has not begun, and the reply lacks its return value, which the client reads as 0
  or NULL; and bytes for whose base64 there is no memory are written as null, which
  the client reads as no bytes. Every other failed allocation on the way of a reply
  ends in an error reply, a malformed text or a failed call. `arpc_put_bytes` does with
  the bytes of a request what the server does with those of a reply.

### Fairness

`FairSpec` assumes weak fairness of every thread's and every server's own steps:
the operating system schedules them, reads on a broken pipe return, and libalpm
gets to the end of a call (`Reply`). Strong fairness of `Answer` says that a
callback returns: it may make calls of its own in between, so weak fairness would
not say it. No thread has to make a call, no failure has to happen, and no callback
has to be raised.

In `Endpoint`, weak fairness of a client inside ensure_connected or waiting for a
reply, of every server and of `--stop`: processes are scheduled, sleeps and the idle
timer end, and a read on a broken pipe returns. No client has to call or to leave,
so `ServersGo` is about the clients being gone. In `Wire`, weak fairness of a transfer
under way: both ends go on with io_exact until it is done.

## 4. The proofs

A component's proofs are in a module of their own, named after it. Each has an inductive
invariant `IInv`, a lemma for each action that says the step keeps it, `NextIInv`
with one step per action, and the theorems, which follow from `IInv` or from one
step taken in it. TLC has checked each `IInv` on the instance of the component's run.

**HandleTableProofs** proves, for every set of addresses, every bound on ids and with
or without allocation failures, all properties of the run `handle_table`:
`TypeCorrect`, `TreeKept`, `RootNamesSubtree`, `OneId`, `AdoptedOnce`,
`CallbacksLive` and the action property `NeverReused`. The assumptions are that
`MaxSeq` is a natural number and `AllocFails` a Boolean.
The inductive invariant is the conjunction of the safety invariants, less
`RootIsSubtree`, and two facts that no property states: no two handles share a root
(`HandleRoots`) and only records adopted without a tag are released by the table
(`ReleaseIsNone`). The first is what turns "same root as its owner" into "a root is
a subtree"; the second keeps a re-put of a package from ever meeting a slot that
frees its object.
The argument: kinds have depths, and an owner is strictly shallower (`OneUp`), so
four steps up reach NULL and the walks of eight steps never cut a chain short
(`ChainShort`, `ChainStep`, `ChainTop`). `AncestorSpec` says what arpc_ancestor
finds; with it `OwnerAbove` shows that the owner of a new object hangs above it,
`FiledSound` and `RefileSound` that a put keeps the table sound, `BelowClosed` and
`DropSound` that a drop of a subtree does. `RootNamesSubtree` then follows from `IInv`
alone.

**ServerObjectsProofs** proves all properties of the run `server_objects`:
`StaleOnlyIfStray` (`StaleMisses`), `HandleAndDbsKept` (`HandleAndDbIds`) and
`TableSound` (`TableStaysSound`), for any addresses, names, number of ids and packages
of a database. The assumptions are that `MaxSeq` is a natural number, that there are
finitely many addresses and that no address is of two kinds. The last one costs
nothing: an address stands for itself and the kind of object it holds, and since
find_ptr compares the tag with the pointer, one that is reused for another kind is
another object to the table; reuse within a kind, which is where an old id could
meet a new object, stays. The invariant of `ObjectsInvariant` is that of the table and

- `KindInv`: a tag says which kind of address its slot holds, so that a handler that
  asked for a package was not given a database;
- `LiveInv`: only ids of packages dangle, and every other id names a live object, an
  adopted record exactly when its tag is that of one;
- `HeapInv`: what libalpm has: one handle at most, with a local database; a cached package is
  its database's, a copy its record's or the transaction's. Hence a free of databases
  with their packages leaves nothing that points to what is gone;
- `TransInv`: what a transaction holds is alive, and its additions differ in name, so
  that two targets never replace the same package;
- `CallInv`: while a commit runs, every installed package that a target still to come may
  replace is among those the pre hook noted, and until the first target is done nothing
  dangles that it is to answer for; a question's copies are alive until the answer. This is
  what lets the post hook speak for frees it did not see, and what makes it right to
  drop nothing when `touched_nothing` says so;
- `ForgottenInv`: the handles and databases whose id was dropped while they live are
  databases that libalpm refused to unregister.

The argument: a handler either returns objects or drops ids. For the first, `Listed` is
put_list; its tables are one for each prefix of the list (`ListedIs`), and `ListedSound`
shows by induction over the prefixes (`Inductive`, from the least counterexample) that
each is sound and has gained slots for those objects only, each put being
`FiledSound` or `RefileSound` of `HandleTableProofs`. The owner the handler names is a live
id of the right kind (`OwnerFound`, by `AncestorSpec`). For the second, what is dropped
must be closed under owners (`Closed`), which subtrees are (`BelowFacts`, `UnderFacts`)
and unions of them (`ByPtrFacts`), and it must have every id of every object that is
freed, but for those filed outside their database (`DropGhosts`, `Homed`). `ReturnsKeeps`
and `DropsKeeps` say so once; a lemma for each action shows which case it is. The
lemmas named `Same...` say that the instance of the table whose operators the specification
uses and the one whose theorems are cited are the same.

**ConnectionProofs** proves `OneTurn` (`OnePartyAtATime`), `StyleInForce`
(`StyleOfTheCaller`), the refinement of `RemoteCall` (`AtMostOnce`) and `InStep`
(`FramesInStep`) for any threads, servers, requests, connections, callbacks and
failures of every kind, and `AnswersMatch` until the first failure (`AnswersInStep`).
The assumptions are that bounds are natural numbers, the style is one of the two and
`None` is no thread. The invariant of `ProtocolInvariant` has one part per holder of
state: only the thread with the lock has frames, they are nested calls and callbacks whose
request numbers grow inwards, and the requests that are open are its calls (`ClientInv`);
connections are numbered as they are made, and the one that is up is the client's and one
server's (`LinkInv`); a server's stack is nested too, and empty while it listens (`ServInv`);
a connection carries one frame at most each way (`ChanInv`); on a pipe that is up, of a
request on the way, a reply on the way, the server inside libalpm and the client outside
transact there is exactly one (`TurnInv`); a request on the way has not been started, one
on a server's stack is being carried out, one replied to has been, and each is in one place
(`RunInv`); a connected server is under the client's path style or is being told it
(`StyleInv`). The refinement rests on `RunInv`: frames left behind on a dead
connection, and servers that go on with a call nobody waits for, still name each request in
one place. `InStep` and `AnswersMatch` need a second invariant,
`PairInv`: until a failure, the client's and the server's stack mirror each other frame
by frame (`Level`), numbers of callbacks included, which is what makes a matching answer
the only one that can arrive.

**ClientCacheProofs** proves `HeldUnlessRefused` (`HeldPointersValid`), `EntriesOwned`
(`CacheEntriesOwned`), the action property `CachedPointerStable` (`CachedListStable`)
and, for instances without alpm_sync_sysupgrade, whose omission the run
`sysupgrade_stale` shows, `StaleOnlyIfUnseen` (`StaleListsUnseen`). The assumptions
limit getters and mutators to those the module defines. The invariant: pointers are
issued once, an entry is live or detached and not both, an interned string has one
entry per value (`TableOK`); a stub under way is about a live object (`CallsOK`);
what is left of a destroyed object is known to have been left behind (`OwnersOK`); and
what a caller holds is in one of the tables under the getter it was read with
(`HeldKept`), which is the fact that survives the move of an entry from one table to
the other. Freshness needs more (`StaleKnown`): a stale list is one that a change already
made concerns whose reply is still to come, so that its stub will detach it, or one
noted as unseen; `DetachesChanges` says that rules.invalidates names all that a call changes.

**PkgColumnsProofs** proves `ReadsOwnEntry` (`OwnEntryRead`), `HeldStringsValid`
(`StringsKept`) and `StaleOnlyIfRaced` (`ReasonsCurrent`), for any packages, lists,
roots, columns and nesting. Lists are assumed to be as alpm returns them: not
empty, without repetition and of one handle. The invariant says that a slot is the place of its package in its
group (`SlotInv`), a column has its members' answers in their order (`GroupInv`), a
fetch under way has the first of them (`CallInv`), no column is in two places or freed
while it is in one (`ColInv`), and what a caller holds is in a column of strings
(`HeldInv`), so that drop_column never frees it. `FreshInv` is the one that takes
thought: in a group where nothing raced there is at most one column of reasons, and it
is current or its drop is due from a call on the stack (`Doomed`).

**EndpointProofs** proves `LostToIdleOrFault` (`ConnectionsKept`) and the action properties
`GivesUpOnlyIfTaken` (`TimeoutExplained`) and `StopRetires` (`StopIsThorough`), for any
clients, servers, polls and tries. The invariant relates where a process is to the
instance it holds: a server that took a shutdown request serves `--stop` or is on its way
out (`ServInv`); a client at an instance still has it, unless it was cut off
(`HoldInv`); the server a client launched is coming up, free, or taken (`LaunchInv`);
and `--stop` has asked no server that is left but the one it is at, and those it had
no handle of (`StopInv`), which is why its success speaks for all others.

**GpgdirProofs** proves `OwnKeyring` (`KeyringOwn`) and `EntryCurrent`
(`EntriesCurrent`), for any handles, directories, nesting and failures. The invariant
keeps, for every call on the stack and not just the innermost, that the entry of its
handle was read and gpgme pointed for it, up to the named exceptions: each call becomes the
innermost again when those above it return. `Known` says that g_gpgdir is what
gpgme was told, unless init_gpgme told it by itself.

**SessionProofs** proves `MixedOnlyAcross` (`SessionMixedOnlyAcross`), `HeldHere`
(`SessionHeldHere`), `KeptForHandles` with the types (`SessionKeptForHandles`) and the
refinement of `HandleTable` by every process's table (`SessionTablesKept`), for any
processes, handles, ids and failures. The assumptions are that the bounds are natural
numbers and `NoProc` is no process. An id has the root of its handle and no process, so
the fact behind all of it is about roots: a process numbers the handles it opens, its
next root being one more than the number of those it opened (`OpenInv`), so that within
a process a root is one handle's for good, released or not (`RootsFacts`; `Roots` counts
them from the ghost `origin`). The rest of the invariant ties everything filed by an
id to that root: the slots of the tables (`TableInv`), what the caller has, with the
handle it belongs to (`HeldInv`), cached results (`CacheInv`) and callbacks (`RegsInv`).
Whatever is found under the id of an object has its root, so it is that object or
one of another process (`AnswersApart`). What is filed under id 0 is the NULL handle's
and names no object. `CountInv` is g_conn_refs, less the releases of NULL; `ConnInv` says
that until a failure or such a release the pipe leads to the process of every handle the caller has.

Only model-checked, and why:

- liveness (`CallReturns`, `ServerFreed`, `ClientSettles`, `ServersGo`, `Settles`),
  which needs ENABLED and fairness and is outside the proof system's reach;
- `InBounds`, `Faithful` and `ReadsExactly` of `Wire`: the reader and writer of `Codec`
  are recursive operators, so that what they compute for every input would need
  induction over data;
- `AnswersMatch` after a failure: the theorem covers behaviours up to the first one, the
  run `connection` those with one.

Every other invariant and action property of the passing runs is a theorem.

## 5. What is not modelled

- The conversion of paths (only which style is in force) and the wording of errors.
- White space, booleans and the digits of unicode escapes in JSON: the writer emits
  none of the first two, and an escape is one character here.
- Who the peer is and the access rights of the pipe, which are the operating system's:
  all processes of `Endpoint` belong to one user at one elevation. The derivation of
  the pipe's name is a hash of what both ends know.
- mtree copies an archive through libarchive within one call, and the client-local
  functions are pure: neither keeps state that another call could disturb.
- The generator's reading of `alpm.h`, which happens at build time.
- In `ServerObjects` there is one handle, and a handler is not given the address of a
  freed object, since what libalpm does with one is undefined. In `Session` a call is one step: calls that overlap are
  `Connection`'s.
- In `Connection`, a path-style request that cannot be built: the client disconnects
  at once, and what follows is what follows a pipe that breaks before the server has
  read the request. In `ClientCache`, packages handed over to a transaction, which
  libalpm frees in the end.
- The open-addressed indexes of the handle table are one function; probing and
  rebuilding are not told apart.

## 6. Plan

Every part of the plan is carried out. What would extend it: a second
`alpm_handle_t` in `ServerObjects` (its objects share only the table, whose theorems
are about any number of roots), and a reader and writer of `Codec` over sequences that
are functions of the position, about which the prover could reason.
