---------------------------- MODULE ServerObjects ----------------------------
(***************************************************************************)
(* The objects libalpm keeps for one alpm_handle_t, the handlers that put   *)
(* them in the handle table, and the invalidation hooks that take them out  *)
(* (src/tools/gen/emit.py, src/src/server/arpc_invalidate.c).               *)
(*                                                                          *)
(* libalpm is external: `heap` says which addresses hold an object, which   *)
(* database a package is cached by and where it came from.  A freed address *)
(* may be reused at once.  Handlers are single steps of the one server      *)
(* thread, except the calls that run client callbacks: while those are open *)
(* (`call`) the client may ask nested questions.                            *)
(***************************************************************************)
EXTENDS Naturals, FiniteSets, Sequences, SequencesExt

CONSTANTS
  HandlePtr,      \* addresses of alpm_handle_t
  DbPtr,          \* addresses of alpm_db_t
  PkgPtr,         \* addresses of alpm_pkg_t and alpm_conflict_t
  Name,           \* package names
  MaxSeq          \* bound: ids issued

\* An address stands for itself and the kind of object it holds: the table looks
\* an object up by both (find_ptr), so one reused for another kind is another.
ASSUME AddressAssumption ==
  /\ IsFiniteSet(HandlePtr \cup DbPtr \cup PkgPtr)
  /\ HandlePtr \cap DbPtr = {} /\ HandlePtr \cap PkgPtr = {} /\ DbPtr \cap PkgPtr = {}
  /\ "none" \notin HandlePtr \cup DbPtr \cup PkgPtr

ASSUME BoundAssumption == MaxSeq \in Nat

VARIABLES
  tab, next_seq, next_root, cbreg, owed, up,   \* the table: see HandleTable
  heap,           \* live address -> object
  trans,          \* the handle's transaction
  call,           \* the call whose callback the client is inside, if any
  dangling,       \* ghost: live ids whose object has been freed
  stray,          \* ghost: those that were not filed under their database
  forgotten,      \* ghost: live handles and databases whose id has been dropped
  refused         \* ghost: live databases libalpm refused to unregister

T == INSTANCE HandleTable
     WITH Ptr <- HandlePtr \cup DbPtr \cup PkgPtr, AllocFails <- FALSE

tvars == <<tab, next_seq, next_root, cbreg, owed, up>>
vars == <<tvars, heap, trans, call, dangling, stray, forgotten, refused>>

-----------------------------------------------------------------------------
Origin == {"handle", "local", "sync", "file", "copy", "record"}
None == "none"
NoTrans == [st |-> "none", add |-> {}, rem |-> {}]
Idle == [op |-> "idle", dying |-> {}, todo |-> {}, done |-> {}]

Ids == DOMAIN tab
Live == DOMAIN heap
Dbs(origin) == {d \in Live \cap DbPtr : heap[d].origin = origin}

\* The packages a set of databases caches.
Cached(D) == {p \in Live \cap PkgPtr : heap[p].home \in D}

\* The installed packages of these names.
Installed(N) == {p \in Cached(Dbs("local")) : heap[p].name \in N}
NamesOf(P) == {heap[p].name : p \in P}

Object(home, origin, name) == [home |-> home, origin |-> origin, name |-> name]

\* The heap with P freed and the objects of `new` allocated.
Heap(P, new) ==
  [a \in (Live \ P) \cup DOMAIN new |->
     IF a \in DOMAIN new THEN new[a] ELSE heap[a]]

NoNew == [a \in {} |-> None]
New(a, object) == [x \in {a} |-> object]

\* Is the id of a database's package filed under something else than the database?
Misfiled(i) ==
  /\ tab[i].tag = "PKG"
  /\ heap[tab[i].ptr].origin \in {"local", "sync"}
  /\ tab[i].owner \in DOMAIN tab
  /\ tab[tab[i].owner].ptr # heap[tab[i].ptr].home

\* The step frees P, and leaves R although its caller asked for that to go: what
\* that and its drops mean for the ghosts.  A commit frees packages one by one
\* and not with their database, so where those are filed is no excuse.
FreedBut(P, R) ==
  LET hit == {i \in Ids \ dangling : tab[i].ptr \in P}
  IN  /\ dangling' = (dangling \cup hit) \cap DOMAIN tab'
      /\ stray' = (stray \cup {i \in hit : call.op # "commit" /\ Misfiled(i)})
                  \cap DOMAIN tab'
      /\ forgotten' = (forgotten \cup
           {tab[i].ptr : i \in {j \in Ids \ DOMAIN tab' : tab[j].tag \in {"HANDLE", "DB"}}}) \ P
      /\ refused' = (refused \cup R) \ P

Freed(P) == FreedBut(P, {})

-----------------------------------------------------------------------------
(* What handlers do with the table.                                        *)

\* An argument that crosses: arpc_arg_handle finds it, with that tag.  What
\* libalpm does with the address of a freed object is not modelled.
Arg(id, tag) == T!Resolves(tab, id, tag) /\ id \notin dangling

\* Whether the client asked for callbacks of this handle.
Wanted(hid) == hid \in cbreg

\* The table after one more object of a result, and after an adopted record.
Put(st, p, tag, o) == T!Filed(st, p, tag, o, FALSE)
Kept(st, p, o) == T!Filed(st, p, "NONE", o, TRUE)

\* put_list: the objects of a list are filed one after the other.
Listed(list, tag, o) ==
  LET st[k \in 0 .. Len(list)] ==
        IF k = 0 THEN T!Table ELSE Put(st[k - 1], list[k], tag, o)
  IN  st[Len(list)]

Files(P, tag, o) ==
  \E list \in SetToSeqs(P) :
    /\ Listed(list, tag, o).seq <= MaxSeq + 1
    /\ T!Becomes(Listed(list, tag, o))

\* A handler that files the objects P and frees nothing.
Returns(P, tag, o) ==
  /\ Files(P, tag, o)
  /\ UNCHANGED <<cbreg, owed, up>>
  /\ Freed({})

\* A handler after which the ids of S are gone.
Drops(S) ==
  /\ T!Dropped(S)
  /\ UNCHANGED up

\* The subtrees of the ids of the objects P (arpc_handle_drop_ptr on each).
ByPtr(P, tag) ==
  UNION {T!Below(tab, T!FindPtr(tab, p, tag)) :
           p \in {q \in P : T!FindPtr(tab, q, tag) # T!NoId}}

-----------------------------------------------------------------------------
Init ==
  /\ T!Init
  /\ heap = NoNew
  /\ trans = NoTrans
  /\ call = Idle
  /\ dangling = {} /\ stray = {} /\ forgotten = {} /\ refused = {}

\* alpm_initialize: a handle and its local database.
Initialize(h, d) ==
  /\ Live = {}
  /\ heap' = Heap({}, [a \in {h, d} |->
                         Object(IF a = h THEN None ELSE h,
                                IF a = h THEN "handle" ELSE "local", None)])
  /\ Returns({h}, "HANDLE", T!NoId)
  /\ UNCHANGED <<trans, call>>

\* alpm_release destroys the handle: the subtree goes, adopted records with it.
\* (A package loaded from a file and never added is leaked by the caller, not
\* freed; its address counts as free here, which only allows more.)
Release(hid) ==
  /\ call = Idle /\ Arg(hid, "HANDLE")
  /\ heap' = NoNew
  /\ trans' = NoTrans
  /\ Drops(T!Below(tab, hid))
  /\ cbreg' = cbreg \ {hid}
  /\ Freed(Live)
  /\ UNCHANGED call

\* alpm_get_localdb, alpm_get_syncdbs
GetDbs(hid, origin) ==
  /\ Arg(hid, "HANDLE")
  /\ Returns(Dbs(origin), "DB", T!Ancestor(tab, hid, T!ParentTag["DB"]))
  /\ UNCHANGED <<heap, trans, call>>

\* alpm_register_syncdb
RegisterSyncdb(hid, d) ==
  /\ call = Idle /\ Arg(hid, "HANDLE")
  /\ d \notin Live
  /\ heap' = Heap({}, New(d, Object(tab[hid].ptr, "sync", None)))
  /\ Returns({d}, "DB", T!Ancestor(tab, hid, T!ParentTag["DB"]))
  /\ UNCHANGED <<trans, call>>

\* alpm_db_unregister of any database, the local one too: it goes with the
\* packages it caches.  libalpm refuses while there is a transaction; the handler
\* drops the id and what is under it either way.
DbUnregister(did) ==
  LET d == tab[did].ptr
      P == IF trans = NoTrans THEN {d} \cup Cached({d}) ELSE {}
  IN  /\ call = Idle /\ Arg(did, "DB")
      /\ heap' = Heap(P, NoNew)
      /\ Drops(T!Below(tab, did))
      /\ cbreg' = cbreg \ {did}
      /\ FreedBut(P, {d})
      /\ UNCHANGED <<trans, call>>

\* Mutant: the pre hook notes every database of the handle.
SyncdbVictimsAll == Dbs("sync") \cup Dbs("local")

\* arpc_hook_alpm_unregister_all_syncdbs_pre: the databases about to go.
SyncdbVictims == Dbs("sync")

\* alpm_unregister_all_syncdbs frees the sync databases and their packages,
\* unless there is a transaction; the post hook drops them only on success.
UnregisterAllSyncdbs(hid) ==
  LET P == Dbs("sync") \cup Cached(Dbs("sync"))
  IN  /\ call = Idle /\ Arg(hid, "HANDLE")
      /\ trans = NoTrans
      /\ heap' = Heap(P, NoNew)
      /\ Drops(ByPtr(SyncdbVictims, "DB"))
      /\ Freed(P)
      /\ UNCHANGED <<cbreg, trans, call>>

\* libalpm reads a database's packages when it first needs them: `pkgs` says at
\* which addresses, and under which names.
LoadCache(d, pkgs) ==
  /\ d \in Live /\ Cached({d}) = {}
  /\ DOMAIN pkgs \cap Live = {} /\ IsInjective(pkgs)
  /\ call = Idle
  /\ heap' = Heap({}, [p \in DOMAIN pkgs |-> Object(d, heap[d].origin, pkgs[p])])
  /\ UNCHANGED <<tvars, trans, call, dangling, stray, forgotten, refused>>

\* alpm_db_get_pkgcache, or some of the packages: alpm_db_get_pkg, alpm_db_search,
\* the group calls.
DbGetPkgcache(did) ==
  /\ Arg(did, "DB")
  /\ \E P \in SUBSET Cached({tab[did].ptr}) : Returns(P, "PKG", did)
  /\ UNCHANGED <<heap, trans, call>>

\* alpm_find_dbs_satisfier, alpm_find_group_pkgs, alpm_sync_get_new_version: a
\* package of one of the databases, filed under the first of them.
FindDbsSatisfier(dids, p) ==
  /\ \A i \in DOMAIN dids : Arg(dids[i], "DB")
  /\ p \in Cached({tab[dids[i]].ptr : i \in DOMAIN dids})
  /\ Returns({p}, "PKG", dids[1])
  /\ UNCHANGED <<heap, trans, call>>

\* alpm_pkg_get_db, also as a field of arpc.pkg_fields
PkgGetDb(pid) ==
  /\ Arg(pid, "PKG")
  /\ heap[tab[pid].ptr].home \in DbPtr
  /\ Returns({heap[tab[pid].ptr].home}, "DB",
             T!Ancestor(tab, pid, T!ParentTag["DB"]))
  /\ UNCHANGED <<heap, trans, call>>

\* alpm_pkg_load
PkgLoad(hid, p, n) ==
  /\ call = Idle /\ Arg(hid, "HANDLE")
  /\ p \notin Live
  /\ heap' = Heap({}, New(p, Object(None, "file", n)))
  /\ Returns({p}, "PKG", T!Ancestor(tab, hid, T!ParentTag["PKG"]))
  /\ UNCHANGED <<trans, call>>

\* alpm_pkg_free: libalpm frees only a package loaded from a file; the handler
\* drops the id of whatever it was given.
PkgFree(pid) ==
  LET p == tab[pid].ptr
      P == IF heap[p].origin = "file" THEN {p} ELSE {}
  IN  /\ call = Idle /\ Arg(pid, "PKG")
      /\ p \notin trans.add \cup trans.rem /\ heap[p].origin # "copy"
      /\ heap' = Heap(P, NoNew)
      /\ Drops(T!Below(tab, pid))
      /\ cbreg' = cbreg \ {pid}
      /\ Freed(P)
      /\ UNCHANGED <<trans, call>>

-----------------------------------------------------------------------------
(* Transactions.                                                           *)

TransInit(hid) ==
  /\ call = Idle /\ Arg(hid, "HANDLE") /\ trans = NoTrans
  /\ trans' = [NoTrans EXCEPT !.st = "open"]
  /\ UNCHANGED <<tvars, heap, call, dangling, stray, forgotten, refused>>

\* libalpm refuses a second target of the same name.
NewTarget(p, targets) == heap[p].name \notin NamesOf(targets)

\* alpm_add_pkg: a loaded package becomes the transaction's.
AddPkg(pid) ==
  /\ call = Idle /\ Arg(pid, "PKG") /\ trans.st = "open"
  /\ heap[tab[pid].ptr].origin \in {"file", "sync"}
  /\ NewTarget(tab[pid].ptr, trans.add)
  /\ trans' = [trans EXCEPT !.add = @ \cup {tab[pid].ptr}]
  /\ UNCHANGED <<tvars, heap, call, dangling, stray, forgotten, refused>>

\* alpm_sync_sysupgrade adds packages the client has not named.
SyncSysupgrade(hid, p) ==
  /\ call = Idle /\ Arg(hid, "HANDLE") /\ trans.st = "open"
  /\ p \in Cached(Dbs("sync"))
  /\ NewTarget(p, trans.add)
  /\ trans' = [trans EXCEPT !.add = @ \cup {p}]
  /\ UNCHANGED <<tvars, heap, call, dangling, stray, forgotten, refused>>

\* alpm_remove_pkg: the transaction keeps a copy.
RemovePkg(pid, c) ==
  /\ call = Idle /\ Arg(pid, "PKG") /\ trans.st = "open"
  /\ heap[tab[pid].ptr].origin = "local" /\ c \notin Live
  /\ NewTarget(tab[pid].ptr, trans.rem)
  /\ heap' = Heap({}, New(c, Object(None, "copy", heap[tab[pid].ptr].name)))
  /\ trans' = [trans EXCEPT !.rem = @ \cup {c}]
  /\ UNCHANGED <<tvars, call, dangling, stray, forgotten, refused>>

\* alpm_trans_get_add, alpm_trans_get_remove: filed where the handle's packages
\* are, since the call names no database.
TransGet(hid, P) ==
  /\ Arg(hid, "HANDLE")
  /\ P \in {trans.add, trans.rem}
  /\ Returns(P, "PKG", T!Ancestor(tab, hid, T!ParentTag["PKG"]))
  /\ UNCHANGED <<heap, trans, call>>

\* Mutant: only the installed packages the call removes are noted.
CommitVictimsRemoved == Installed(NamesOf(trans.rem))

\* arpc_hook_alpm_trans_commit_pre: the installed version of every target.
CommitVictims == Installed(NamesOf(trans.add \cup trans.rem))

\* The handler of alpm_trans_commit up to the call.
CommitBegin(hid) ==
  /\ call = Idle /\ Arg(hid, "HANDLE") /\ trans.st = "open"
  /\ call' = [op |-> "commit", dying |-> CommitVictims,
              todo |-> trans.add \cup trans.rem, done |-> {}]
  /\ UNCHANGED <<tvars, heap, trans, dangling, stray, forgotten, refused>>

\* libalpm removes or installs one target, removals first: the installed version
\* is freed, and a new one allocated, perhaps where the old one was.  Without a
\* local database there is nowhere to install to, and the commit can only end.
CommitTarget(t, fresh) ==
  LET old == Installed({heap[t].name})
      new == IF t \in trans.add
             THEN New(fresh, Object(CHOOSE d \in Dbs("local") : TRUE, "local",
                                    heap[t].name))
             ELSE NoNew
  IN  /\ call.op = "commit" /\ t \in call.todo
      /\ t \in trans.add =>
           /\ fresh \notin Live \ old /\ trans.rem \cap call.todo = {}
           /\ Dbs("local") # {}
      /\ heap' = Heap(old, new)
      /\ call' = [call EXCEPT !.todo = @ \ {t}, !.done = @ \cup {t}]
      /\ UNCHANGED <<tvars, trans>>
      /\ Freed(old)

\* An event of the commit shows the client a package, filed under the handle
\* the callback is registered with.
Event(hid, p) ==
  /\ call.op = "commit" /\ Wanted(hid)
  /\ p \in trans.add \cup Cached(Dbs("local"))
  /\ Returns({p}, "PKG", hid)
  /\ UNCHANGED <<heap, trans, call>>

\* The post hook: it drops what the pre hook noted, unless the errno is one of
\* the checks before anything was touched.  A commit that failed half way
\* reports some other errno.
CommitEnd(hid, touchedNothing) ==
  LET S == IF touchedNothing THEN {} ELSE ByPtr(call.dying, "PKG")
  IN  /\ call.op = "commit" /\ Arg(hid, "HANDLE")
      /\ touchedNothing => call.done = {} /\ call.todo # {}
      /\ Drops(S)
      /\ call' = Idle
      /\ trans' = [trans EXCEPT !.st = "done"]
      /\ Freed({})
      /\ UNCHANGED <<cbreg, heap>>

\* arpc_hook_alpm_trans_release_pre: what the transaction owned.
ReleaseVictims == {p \in trans.add : heap[p].origin = "file"} \cup trans.rem

\* alpm_trans_release frees what the transaction owned; its hooks drop it.
TransRelease(hid) ==
  LET P == {p \in trans.add : heap[p].origin = "file"} \cup trans.rem
  IN  /\ call = Idle /\ Arg(hid, "HANDLE") /\ trans # NoTrans
      /\ heap' = Heap(P, NoNew)
      /\ trans' = NoTrans
      /\ Drops(ByPtr(ReleaseVictims, "PKG"))
      /\ Freed(P)
      /\ UNCHANGED <<cbreg, call>>

\* arpc_hook_alpm_db_update_post: unless none was fetched, every database passed.
UpdatedDbs(dids, rc) == IF rc = 1 THEN {} ELSE dids

\* alpm_db_update: libalpm frees the package cache of each database it fetched,
\* which the local one never is.  With a transaction open it cannot take the lock
\* and fetches none.
DbUpdate(hid, dids, fetched, rc) ==
  LET P == Cached({tab[i].ptr : i \in fetched})
      S == UNION {T!Below(tab, i) \ {i} : i \in UpdatedDbs(dids, rc)}
  IN  /\ call = Idle /\ Arg(hid, "HANDLE")
      /\ \A i \in dids : Arg(i, "DB")
      /\ \A i \in fetched : heap[tab[i].ptr].origin = "sync"
      /\ dids # {}
      /\ rc = 0 => fetched # {}
      /\ rc = 1 => fetched = {}
      /\ trans # NoTrans => rc = -1 /\ fetched = {}
      /\ heap' = Heap(P, NoNew)
      /\ Drops(S)
      /\ Freed(P)
      /\ UNCHANGED <<cbreg, trans, call>>

-----------------------------------------------------------------------------
(* Objects that exist for one call.                                        *)

\* alpm_checkconflicts, or alpm_trans_prepare failing with conflicts: the record
\* and its copy of a package are kept for the client, under the handle.
CheckConflicts(hid, r, c, n) ==
  LET o   == T!Ancestor(tab, hid, T!ParentTag["PKG"])
      st1 == Put(T!Table, c, "PKG", o)
      st2 == Kept(st1, r, o)
  IN  /\ call = Idle /\ Arg(hid, "HANDLE")
      /\ r # c /\ {r, c} \cap Live = {}
      /\ heap' = Heap({}, [a \in {r, c} |->
                             IF a = r THEN Object(None, "record", None)
                             ELSE Object(r, "copy", n)])
      /\ st2.seq <= MaxSeq + 1 /\ T!Becomes(st2)
      /\ owed' = owed \cup {r}
      /\ Freed({})
      /\ UNCHANGED <<cbreg, up, trans, call>>

\* A conflict question raised by alpm_trans_prepare: the trampoline files the
\* copy libalpm made for it and the client is asked.
Ask(hid, c, n) ==
  /\ call = Idle /\ trans.st = "open" /\ Wanted(hid)
  /\ c \notin Live
  /\ heap' = Heap({}, New(c, Object(None, "copy", n)))
  /\ call' = [Idle EXCEPT !.op = "question", !.dying = {c}]
  /\ Returns({c}, "PKG", hid)
  /\ UNCHANGED trans

\* The ids the trampoline takes back (arpc_handle_drop_ptr on each).
Answered(P) == ByPtr(P, "PKG")

\* The client has answered: the copies' ids go, and then libalpm frees them.
Answer ==
  /\ call.op = "question"
  /\ heap' = Heap(call.dying, NoNew)
  /\ Drops(Answered(call.dying))
  /\ call' = Idle
  /\ Freed(call.dying)
  /\ UNCHANGED <<cbreg, trans>>

\* arpc.set_callback for a handle.  A registration for the NULL handle, which
\* HandleTable allows too, is one no event and no question looks up.
SetCallback(hid, enabled) ==
  /\ T!CbSet(hid, enabled)
  /\ UNCHANGED <<up, heap, trans, call, dangling, stray, forgotten, refused>>

-----------------------------------------------------------------------------
Next ==
  \/ \E h \in HandlePtr, d \in DbPtr : Initialize(h, d)
  \/ \E id \in Ids :
       \/ Release(id)
       \/ UnregisterAllSyncdbs(id)
       \/ TransInit(id)
       \/ CommitBegin(id)
       \/ TransRelease(id)
       \/ DbUnregister(id)
       \/ DbGetPkgcache(id)
       \/ PkgGetDb(id)
       \/ PkgFree(id)
       \/ AddPkg(id)
       \/ \E enabled \in BOOLEAN : SetCallback(id, enabled)
       \/ \E touchedNothing \in BOOLEAN : CommitEnd(id, touchedNothing)
       \/ \E origin \in {"local", "sync"} : GetDbs(id, origin)
       \/ \E d \in DbPtr : RegisterSyncdb(id, d)
       \/ \E p \in PkgPtr : SyncSysupgrade(id, p) \/ Event(id, p)
       \/ \E p \in PkgPtr : RemovePkg(id, p)
       \/ \E p \in PkgPtr, n \in Name : PkgLoad(id, p, n) \/ Ask(id, p, n)
       \/ \E P \in {trans.add, trans.rem} : TransGet(id, P)
       \/ \E r, c \in PkgPtr, n \in Name : CheckConflicts(id, r, c, n)
       \/ \E dids \in SUBSET Ids, rc \in {-1, 0, 1} :
            \E fetched \in SUBSET dids : DbUpdate(id, dids, fetched, rc)
  \/ \E i, j \in Ids, p \in PkgPtr : FindDbsSatisfier(<<i, j>>, p)
  \/ \E d \in DbPtr, P \in SUBSET PkgPtr : \E pkgs \in [P -> Name] : LoadCache(d, pkgs)
  \/ \E t, fresh \in PkgPtr : CommitTarget(t, fresh)
  \/ Answer

Spec == Init /\ [][Next]_vars

-----------------------------------------------------------------------------
(* Properties.                                                             *)

\* The variables have their types.
TypeOK ==
  /\ T!TypeOK
  /\ \A a \in Live : /\ heap[a].origin \in Origin
                     /\ heap[a].home \in {None} \cup Live
  /\ trans.add \cup trans.rem \subseteq Live \cap PkgPtr
  /\ dangling \cup stray \subseteq Ids
  /\ forgotten \cup refused \subseteq Live

\* "The table promises that a stale id misses instead of reaching a freed object"
\* (arpc_invalidate.c), and this is where: an id outlives its object only if it
\* is a package filed outside its own database that went when the database did
\* (or its cache), or for as long as the commit that freed the object is running,
\* and then the hook has noted it.  Every other free -- of a handle, a database, a
\* replaced package, a transaction's package, a question's copy -- takes the ids
\* with it.
StaleOnlyIfStray ==
  \A i \in dangling :
    \/ i \in stray
    \/ call.op = "commit" /\ tab[i].ptr \in call.dying

\* The handle and its databases keep their ids for as long as they live: no hook
\* drops one by mistake (arpc_invalidate.c: "The local db is not among them and
\* keeps its id").  Only a database whose alpm_db_unregister was refused lives on
\* without the id it had, since srv_finish drops what the call would have
\* destroyed whatever libalpm returned.
HandleAndDbsKept ==
  forgotten \subseteq refused

\* The handlers compose with the table: the owners they compute keep its tree,
\* and no adopted record outlives its handle.
TableSound ==
  TypeOK /\ T!OwnersLive /\ T!RootIsSubtree /\ T!OneIdPerObject /\ T!AdoptedHeld

=============================================================================
