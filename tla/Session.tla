------------------------------- MODULE Session -------------------------------
(***************************************************************************)
(* A client over the server processes it meets, one after another: each    *)
(* process has a handle table of its own (HandleTable, one instance a       *)
(* process), which outlives its clients and starts over with it.  The       *)
(* client files what it keeps by id, and an id names no process: cached     *)
(* results, registered callbacks, and the count of handles that keeps the   *)
(* pipe open (src/src/client/arpc_client.c and arpc_callbacks.c).           *)
(*                                                                         *)
(* A call is one step.  Its reply may be lost after it was carried out, and *)
(* the process may die between two calls; the client then connects again,   *)
(* to whichever process it reaches.  Every handle object has a number, and  *)
(* stands for its database and results too.  The NULL handle is an argument *)
(* like another to both sides ("NULL handle is valid input to libalpm,      *)
(* which reports it itself"): its id is 0.                                  *)
(***************************************************************************)
EXTENDS Integers, FiniteSets

CONSTANTS
  Procs,          \* server processes
  NoProc,         \* INVALID_HANDLE_VALUE
  MaxOpen,        \* bound: handles opened, by this client and others
  MaxSeq,         \* bound: ids issued by one process
  MaxUpsets       \* bound: replies lost, processes that die while in use, and
                  \* calls given the NULL handle

ASSUME SessionAssumption ==
  /\ NoProc \notin Procs
  /\ MaxOpen \in Nat /\ MaxSeq \in Nat /\ MaxUpsets \in Nat

VARIABLES
  ended,          \* processes that have exited or died
  serves,         \* process -> "us", "other" or "nobody"
  tab, seq, root, \* process -> its table and counters
  cbs,            \* process -> ids of the handles whose callback is enabled
  conn,           \* g_pipe: the process at its other end
  refs,           \* g_conn_refs
  cache,          \* g_owned: key -> whose result it is, and the id in it
  regs,           \* g_regs: handle id -> whose callback it is
  held,           \* what the caller has: [id, obj], the object it means by the id
  unreleased,     \* ghost: handles it gave up though their release failed
  origin,         \* ghost: handle number -> the process that opened it
  bare,           \* ghost: connected by a call that got no handle
  failures,       \* so far: replies lost, processes that died in use
  nulls,          \* so far: calls given the NULL handle
  spent,          \* ghost: references given back by alpm_release(NULL)
  last            \* ghost: the answer this step gave: the object meant, and the one it is about

server == <<ended, serves, tab, seq, root, cbs>>
client == <<conn, refs, cache, regs, held>>
ghosts == <<unreleased, origin, bare, failures, nulls, spent>>
vars == <<server, client, ghosts, last>>

-----------------------------------------------------------------------------
Opened == DOMAIN origin
Handle(n) == [k |-> "HANDLE", n |-> n]
Db(n) == [k |-> "DB", n |-> n]
Objects == [k : {"HANDLE", "DB"}, n : 1 .. MaxOpen]
NoObject == [k |-> "none", n |-> 0]
NoAnswer == [meant |-> NoObject, about |-> NoObject]

\* The table of a process.  Its adopted records are left out.
Server(p) == INSTANCE HandleTable WITH
  Ptr <- Objects, AllocFails <- FALSE, tab <- tab[p], next_seq <- seq[p],
  next_root <- root[p], cbreg <- cbs[p], owed <- {}, up <- p \notin ended

NoId == [root |-> 0, seq |-> 0]
Item(id, obj) == [id |-> id, obj |-> obj]
Null == Item(NoId, Handle(0))
Handles(S) == {x \in S : x.obj.k = "HANDLE"}

With(f, x, v) == [y \in DOMAIN f \cup {x} |-> IF y = x THEN v ELSE f[y]]
Less(f, S) == [y \in DOMAIN f \ S |-> f[y]]

Init ==
  /\ ended = {} /\ serves = [p \in Procs |-> "nobody"]
  /\ tab = [p \in Procs |-> [i \in {} |-> NoId]]
  /\ seq = [p \in Procs |-> 1] /\ root = [p \in Procs |-> 1]
  /\ cbs = [p \in Procs |-> {}]
  /\ conn = NoProc /\ refs = 0
  /\ cache = [i \in {} |-> NoId] /\ regs = [i \in {} |-> NoId]
  /\ held = {} /\ unreleased = {} /\ origin = [n \in {} |-> NoProc]
  /\ bare = FALSE /\ failures = 0 /\ nulls = 0 /\ spent = 0 /\ last = NoAnswer

-----------------------------------------------------------------------------
(* A call.                                                                 *)

\* ensure_connected: the pipe there is, or that of a process that takes a client.
Reaches(p) ==
  /\ p \notin ended
  /\ p = conn \/ (conn = NoProc /\ serves[p] = "nobody")

\* The reply arrives, or the client gives the connection up without it.
Upsets == failures + nulls
Arrives(p) == conn' = p /\ UNCHANGED failures
Lost == Upsets < MaxUpsets /\ failures' = failures + 1 /\ conn' = NoProc

\* The process takes the client, if it has not yet.
Takes(p) == serves' = [serves EXCEPT ![p] = "us"] /\ UNCHANGED ended

Files(p, st) ==
  /\ tab' = [tab EXCEPT ![p] = st.tab]
  /\ seq' = [seq EXCEPT ![p] = st.seq]
  /\ root' = [root EXCEPT ![p] = st.root]

Answered(meant, about) == last' = [meant |-> meant, about |-> about]
Silent == last' = NoAnswer

\* A handle is opened in p, by anybody.
Opens(p) ==
  LET n == Cardinality(Opened) + 1
  IN  /\ n <= MaxOpen /\ seq[p] <= MaxSeq
      /\ Files(p, Server(p)!Filed(Server(p)!Table, Handle(n), "HANDLE", NoId, FALSE))
      /\ origin' = With(origin, n, p)

\* alpm_initialize.
Initialize(p) ==
  LET id == Server(p)!NewId(seq[p], root[p], "HANDLE", NoId)
  IN  /\ Reaches(p) /\ Takes(p) /\ Opens(p)
      /\ \/ /\ Arrives(p)
            /\ held' = held \cup {Item(id, Handle(Cardinality(Opened) + 1))}
            /\ refs' = refs + 1
            /\ UNCHANGED bare
         \/ Lost /\ bare' = FALSE /\ UNCHANGED <<held, refs>>
      /\ UNCHANGED <<cbs, cache, regs, unreleased, nulls, spent>> /\ Silent

\* alpm_initialize that libalpm refuses: no handle, and no reason to disconnect.
InitializeRefused(p) ==
  /\ Reaches(p) /\ Takes(p) /\ Arrives(p)
  /\ bare' = TRUE
  /\ UNCHANGED <<tab, seq, root, cbs, refs, cache, regs, held, unreleased, origin, nulls, spent>>
  /\ Silent

\* The object that an id names at p, if it names one of that kind.
Named(p, x) == Server(p)!Resolves(tab[p], x.id, x.obj.k)

\* Mutant: entries are found by the root of their owner, whatever the getter.
KeyOfRoot(x) == [id |-> [x.id EXCEPT !.seq = IF @ = 0 THEN 0 ELSE 1], getter |-> "HANDLE"]

\* make_key, find_owned: entries are found by the id of their owner and the getter's
\* name, here one for either kind of owner.
Key(x) == [id |-> x.id, getter |-> x.obj.k]

\* arpc_cached: a stub that need not call.  The ids in a list are the caller's too.
ReadCached(x) ==
  LET entry == cache[Key(x)]
  IN  /\ Key(x) \in DOMAIN cache
      /\ Answered(x.obj, entry.obj)
      /\ held' = IF entry.db = NoId THEN held
                 ELSE held \cup {Item(entry.db, Db(x.obj.n))}
      /\ UNCHANGED <<server, conn, refs, cache, regs, ghosts>>

\* A borrowed result of a handle is a list with its database, filed as it is read;
\* that of a database is about nothing else.
Read(x, p) ==
  LET obj == tab[p][x.id].ptr
      st  == IF x.obj.k = "DB" THEN Server(p)!Table
             ELSE Server(p)!Filed(Server(p)!Table, Db(obj.n), "DB", x.id, FALSE)
      db  == IF x.obj.k = "DB" THEN NoId
             ELSE Server(p)!FindPtr(st.tab, Db(obj.n), "DB")
  IN  /\ Key(x) \notin DOMAIN cache
      /\ Reaches(p) /\ Takes(p) /\ Named(p, x) /\ seq[p] <= MaxSeq
      /\ Files(p, st)
      /\ \/ /\ Arrives(p)
            /\ cache' = With(cache, Key(x), [obj |-> obj, db |-> db])
            /\ held' = IF db = NoId THEN held ELSE held \cup {Item(db, Db(x.obj.n))}
            /\ Answered(x.obj, obj)
            /\ UNCHANGED bare
         \/ Lost /\ bare' = FALSE /\ UNCHANGED <<cache, held>> /\ Silent
      /\ UNCHANGED <<cbs, refs, regs, unreleased, origin, nulls, spent>>

\* An id that p does not know: an error, and the connection stays.
ReadMisses(x, p) ==
  /\ Key(x) \notin DOMAIN cache
  /\ Reaches(p) /\ Takes(p) /\ ~Named(p, x) /\ Arrives(p)
  /\ UNCHANGED <<tab, seq, root, cbs, refs, cache, regs, held, unreleased, origin, bare, nulls, spent>>
  /\ Silent

\* arpc_cb_set.
CbsAfter(p, x) == IF Named(p, x) THEN cbs[p] \cup {x.id} ELSE cbs[p]

\* arpc_cb_register: the function is noted first, whatever becomes of the call.
SetCallback(x, p) ==
  /\ x.obj.k = "HANDLE"
  /\ Reaches(p) /\ Takes(p)
  /\ regs' = With(regs, x.id, x.obj)
  /\ cbs' = [cbs EXCEPT ![p] = CbsAfter(p, x)]
  /\ (Arrives(p) /\ UNCHANGED bare) \/ (Lost /\ bare' = FALSE)
  /\ UNCHANGED <<tab, seq, root, refs, cache, held, unreleased, origin, nulls, spent>> /\ Silent

\* arpc_cb_fn, for the stub that returns the callback: no call.
GetCallback(x) ==
  /\ x.id \in DOMAIN regs /\ x.obj.k = "HANDLE"
  /\ Answered(x.obj, regs[x.id])
  /\ UNCHANGED <<server, client, ghosts>>

\* A callback of a handle that p knows reaches arpc_dispatch_callback.  libalpm raises
\* none for the NULL handle.
Dispatch(p, id) ==
  /\ conn = p /\ p \notin ended /\ id \in cbs[p] \cap DOMAIN regs \cap DOMAIN tab[p]
  /\ Answered(tab[p][id].ptr, regs[id])
  /\ UNCHANGED <<server, client, ghosts>>

\* Mutant: registered callbacks stay.
PurgeRootOwned(id) ==
  /\ cache' = Less(cache, {k \in DOMAIN cache : k.id.root = id.root})
  /\ UNCHANGED regs

\* arpc_purge_root.
PurgeRoot(id) ==
  /\ cache' = Less(cache, {k \in DOMAIN cache : k.id.root = id.root})
  /\ regs' = Less(regs, {id})

\* Mutant: the pipe goes with the last handle but one.
DropsEarly(n) == n <= 1

\* arpc_conn_unref: one less, and the pipe goes with the last.
Unref(n) == n - 1
Drops(n) == n <= 0

\* alpm_release, carried out.  The caller gives up what it has of the handle with it.
Release(x, p) ==
  LET mine == {y \in held : y.obj.n = x.obj.n}
  IN  /\ x.obj.k = "HANDLE"
      /\ Reaches(p) /\ Takes(p) /\ Named(p, x)
      /\ tab' = [tab EXCEPT ![p] = Server(p)!Without(@, Server(p)!Below(@, x.id))]
      /\ cbs' = [cbs EXCEPT ![p] = @ \ {x.id}]
      /\ held' = held \ mine
      /\ \/ /\ PurgeRoot(x.id)
            /\ refs' = Unref(refs)
            /\ conn' = IF Drops(Unref(refs)) THEN NoProc ELSE p
            /\ bare' = (bare /\ ~Drops(Unref(refs)))
            /\ UNCHANGED <<unreleased, failures>>
         \/ /\ Lost /\ bare' = FALSE
            /\ unreleased' = unreleased \cup Handles(mine)
            /\ UNCHANGED <<refs, cache, regs>>
      /\ UNCHANGED <<seq, root, origin, nulls, spent>> /\ Silent

\* alpm_release of an id that p does not know: an error, and nothing is forgotten.
ReleaseMisses(x, p) ==
  LET mine == {y \in held : y.obj.n = x.obj.n}
  IN  /\ x.obj.k = "HANDLE"
      /\ Reaches(p) /\ Takes(p) /\ ~Named(p, x) /\ Arrives(p)
      /\ held' = held \ mine /\ unreleased' = unreleased \cup Handles(mine)
      /\ UNCHANGED <<tab, seq, root, cbs, refs, cache, regs, origin, bare, nulls, spent>> /\ Silent

\* Any call on a pipe whose process has gone: the stub fails and disconnects, that of
\* arpc_cb_register after it has noted the function.
FindsBroken ==
  /\ conn \in ended
  /\ conn' = NoProc /\ bare' = FALSE
  /\ \/ UNCHANGED <<regs, nulls>>
     \/ \E x \in Handles(held) : regs' = With(regs, x.id, x.obj) /\ UNCHANGED nulls
     \/ regs' = With(regs, NoId, Null.obj) /\ Upsets < MaxUpsets /\ nulls' = nulls + 1
  /\ UNCHANGED <<server, refs, cache, held, unreleased, origin, failures, spent>> /\ Silent

-----------------------------------------------------------------------------
(* Calls given the NULL handle.  libalpm refuses them, and nothing that a   *)
(* stub does after the reply depends on that.                               *)

NullCall(p) ==
  /\ Reaches(p) /\ Takes(p)
  /\ Upsets < MaxUpsets /\ nulls' = nulls + 1
  /\ UNCHANGED <<tab, seq, root, held, unreleased, origin>> /\ Silent

\* A borrowed result of no handle: "A cached NULL is an answer".
ReadNull(p) ==
  /\ Key(Null) \notin DOMAIN cache
  /\ NullCall(p)
  /\ \/ /\ Arrives(p) /\ bare' = TRUE
        /\ cache' = With(cache, Key(Null), [obj |-> NoObject, db |-> NoId])
     \/ Lost /\ bare' = FALSE /\ UNCHANGED cache
  /\ UNCHANGED <<cbs, refs, regs, spent>>

\* arpc_cb_register, arpc_cb_set: a registration under id 0, on both sides.
SetCallbackNull(p) ==
  /\ NullCall(p)
  /\ regs' = With(regs, NoId, Null.obj)
  /\ cbs' = [cbs EXCEPT ![p] = @ \cup {NoId}]
  /\ (Arrives(p) /\ bare' = TRUE) \/ (Lost /\ bare' = FALSE)
  /\ UNCHANGED <<refs, cache, spent>>

\* alpm_release(NULL): the answer is -1, and arpc_conn_unref follows all the same.
ReleaseNull(p) ==
  /\ NullCall(p)
  /\ \/ /\ PurgeRoot(NoId)
        /\ refs' = Unref(refs) /\ spent' = spent + 1
        /\ conn' = IF Drops(Unref(refs)) THEN NoProc ELSE p
        /\ bare' = (bare /\ ~Drops(Unref(refs)))
        /\ UNCHANGED failures
     \/ Lost /\ bare' = FALSE /\ UNCHANGED <<refs, cache, regs, spent>>
  /\ UNCHANGED cbs

-----------------------------------------------------------------------------
(* The processes.                                                          *)

\* Mutant: the table and its counters start over with every client.
AfterClientAnew(st) == [tab |-> [i \in {} |-> NoId], seq |-> 1, root |-> 1]

\* main: nothing of the table goes with a client.
AfterClient(st) == st

\* serve_connection ends: the process waits for the next client.
ClientGone(p) ==
  /\ p \notin ended
  /\ serves[p] = "other" \/ (serves[p] = "us" /\ conn # p)
  /\ serves' = [serves EXCEPT ![p] = "nobody"]
  /\ Files(p, AfterClient(Server(p)!Table))
  /\ UNCHANGED <<ended, cbs, client, ghosts>> /\ Silent

\* Another client gets the process.
OtherConnects(p) ==
  /\ p \notin ended /\ serves[p] = "nobody"
  /\ serves' = [serves EXCEPT ![p] = "other"]
  /\ UNCHANGED <<ended, tab, seq, root, cbs, client, ghosts>> /\ Silent

\* It opens a handle, and may go without releasing it.
OtherOpens(p) ==
  /\ p \notin ended /\ serves[p] = "other"
  /\ Opens(p)
  /\ UNCHANGED <<ended, serves, cbs, client, unreleased, bare, failures, nulls, spent>> /\ Silent

\* The process ends: by its idle timer or on request, or in the middle of serving.
\* arpc_handle_reset leaves the registrations to the exit.
End(p) ==
  /\ p \notin ended
  /\ IF p = conn THEN Upsets < MaxUpsets /\ failures' = failures + 1
     ELSE UNCHANGED failures
  /\ ended' = ended \cup {p} /\ serves' = [serves EXCEPT ![p] = "nobody"]
  /\ tab' = [tab EXCEPT ![p] = Less(@, DOMAIN @)]
  /\ UNCHANGED <<seq, root, cbs, client, unreleased, origin, bare, nulls, spent>> /\ Silent

Next ==
  \/ \E p \in Procs :
       \/ Initialize(p) \/ InitializeRefused(p)
       \/ \E x \in held :
            \/ Read(x, p) \/ ReadMisses(x, p) \/ SetCallback(x, p)
            \/ Release(x, p) \/ ReleaseMisses(x, p)
       \/ ReadNull(p) \/ SetCallbackNull(p) \/ ReleaseNull(p)
       \/ \E id \in cbs[p] : Dispatch(p, id)
       \/ ClientGone(p) \/ OtherConnects(p) \/ OtherOpens(p) \/ End(p)
  \/ \E x \in held \cup {Null} : ReadCached(x) \/ GetCallback(x)
  \/ FindsBroken

Spec == Init /\ [][Next]_vars

-----------------------------------------------------------------------------
(* Properties.                                                             *)

\* Every object here is under a handle, so no root is 0.
Ids == [root : 1 .. MaxOpen, seq : 1 .. MaxSeq]

\* The variables have their types.
TypeOK ==
  /\ ended \subseteq Procs /\ serves \in [Procs -> {"us", "other", "nobody"}]
  /\ \A p \in Procs : /\ DOMAIN tab[p] \subseteq Ids /\ cbs[p] \subseteq Ids \cup {NoId}
                      /\ seq[p] \in 1 .. MaxSeq + 1 /\ root[p] \in 1 .. MaxOpen + 1
  /\ conn \in Procs \cup {NoProc} /\ refs \in Int
  /\ DOMAIN cache \subseteq [id : Ids \cup {NoId}, getter : {"HANDLE", "DB"}]
  /\ DOMAIN regs \subseteq Ids \cup {NoId}
  /\ held \subseteq [id : Ids, obj : Objects] /\ unreleased \subseteq [id : Ids, obj : Objects]
  /\ \A n \in Opened : n \in 1 .. MaxOpen /\ origin[n] \in Procs
  /\ bare \in BOOLEAN
  /\ failures \in 0 .. MaxUpsets /\ nulls \in 0 .. MaxUpsets /\ spent \in 0 .. nulls

\* An id, a cached result or a registered callback is taken for another handle's only
\* across processes: arpc_wire.h says that ids "stay unique and are never reused", and
\* within one process, over any number of clients, lost replies and reconnections,
\* nothing the client keeps by id answers for an object other than the one meant.
MixedOnlyAcross ==
  last.about # last.meant /\ last.about # NoObject =>
    /\ last.about.k = last.meant.k
    /\ origin[last.about.n] # origin[last.meant.n]

\* As long as no reply is lost, no process dies in use and alpm_release has not been
\* given NULL, every handle the caller has is of the process at the other end of the
\* pipe: the count of handles keeps the pipe exactly that long, so the mixing above
\* needs one of the three.
HeldHere == failures = 0 /\ spent = 0 => \A x \in held : origin[x.obj.n] = conn

\* What is kept is kept for a handle the caller has, or one whose release failed:
\* g_conn_refs counts exactly these, less one for every alpm_release(NULL); cached
\* results and callbacks belong to them or to the NULL handle; and without any no
\* server is held, unless the client connected for a call that got no handle (nothing
\* closes that pipe until another handle comes and goes).
KeptForHandles ==
  /\ TypeOK
  /\ refs = Cardinality(Handles(held)) + Cardinality(unreleased) - spent
  /\ \A id \in {k.id : k \in DOMAIN cache} \cup DOMAIN regs :
       id = NoId \/ \E x \in held \cup unreleased : x.id.root = id.root
  /\ held = {} /\ unreleased = {} /\ conn # NoProc => bare

\* "drops the pipe when the caller's last libalpm handle is released" (src/README.md):
\* the client leaves a process it could still talk to only with no handle left open.
PipeGoesWithLast ==
  [][conn' = NoProc /\ conn \in Procs \ ended /\ UNCHANGED failures => Handles(held') = {}]_vars

\* Every process does with its table what HandleTable says, whatever its clients do.
TablesKept ==
  /\ \A p \in Procs : Server(p)!Init
  /\ [][\A p \in Procs : UNCHANGED Server(p)!vars \/ Server(p)!Next]_vars

=============================================================================
