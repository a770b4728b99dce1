----------------------------- MODULE ClientCache -----------------------------
(***************************************************************************)
(* The client's cache of borrowed results (src/src/client/arpc_client.c and *)
(* the stubs of src/tools/gen/emit.py): lists and strings the caller may    *)
(* keep for as long as the object they came from, looked up by owner and    *)
(* getter, detached when a call changes them, freed with their owner.       *)
(*                                                                         *)
(* A stub holds the lock from its first line to its last, so between two    *)
(* steps of one only a callback it raised can run, and what that calls: a   *)
(* stack of stubs.  Pointers are numbered and never reused, so that a       *)
(* freed one can be told.                                                   *)
(***************************************************************************)
EXTENDS Naturals, FiniteSets, Sequences

CONSTANTS
  Roots,          \* libalpm handles the caller has
  Getters,        \* the borrowed results it reads
  Mutators,       \* the calls it makes that change something
  MaxMishaps,     \* bound: replies lost after the call was carried out, and
                  \* destructions libalpm refused
  MaxPtr,         \* bound: results materialised
  MaxDepth        \* bound: stubs nested in one another

ASSUME CacheAssumption ==
  /\ Getters \subseteq {"syncdbs", "trans_add", "logfile", "pkgcache", "depends"}
  /\ Mutators \subseteq {"register_syncdb", "set_logfile", "add_pkg",
                         "trans_commit", "db_update", "sysupgrade"}
  /\ MaxMishaps \in Nat
  /\ MaxPtr \in Nat /\ MaxDepth \in Nat

VARIABLES
  live,           \* g_owned: slot -> entry
  detached,       \* g_detached
  freed,          \* pointers released
  next_ptr,       \* the next pointer
  stk,            \* stubs under way, innermost first
  val,            \* slot -> what libalpm would hand out for it now
  gone,           \* ids of the objects destroyed
  held,           \* ghost: <<pointer, slot>> the caller may still use
  unseen,         \* ghost: slots a call may have changed whose reply was lost
  refused,        \* ghost: the objects libalpm refused to destroy
  orphaned,       \* ghost: the objects destroyed by a call about another one
  mishaps         \* replies lost and destructions refused so far

ghosts == <<unseen, refused, orphaned, mishaps>>
vars == <<live, detached, freed, next_ptr, stk, val, gone, held, ghosts>>

-----------------------------------------------------------------------------
HandleId(r) == [root |-> r, seq |-> 1]
DbId(r) == [root |-> r, seq |-> 2]
PkgId(r) == [root |-> r, seq |-> 3]         \* a package of the database
LoadedId(r) == [root |-> r, seq |-> 4]      \* one of alpm_pkg_load, the caller's own
Under(r) == {HandleId(r), DbId(r), PkgId(r), LoadedId(r)}

Slot(o, getter) == [owner |-> o, getter |-> getter]
Slots ==
  {s \in UNION {{Slot(HandleId(r), g) : g \in {"syncdbs", "trans_add", "logfile"}}
                  \cup {Slot(DbId(r), "pkgcache")}
                  \cup {Slot(o, "depends") : o \in {PkgId(r), LoadedId(r)}} : r \in Roots} :
     s.getter \in Getters}

\* The packages the caller has in hand.
Packages == {s.owner : s \in {x \in Slots : x.getter = "depends"}}

\* A string is interned by value on every call; a list is looked up first.
IsStr(s) == s.getter = "logfile"

\* What each call may change on the server.  (libalpm is external.)
Changes(m, r) ==
  CASE m = "register_syncdb" -> {Slot(HandleId(r), "syncdbs")}
    [] m = "set_logfile"     -> {Slot(HandleId(r), "logfile")}
    [] m = "add_pkg"         -> {Slot(HandleId(r), "trans_add")}
    [] m = "sysupgrade"      -> {Slot(HandleId(r), "trans_add")}
    [] m = "trans_commit"    -> {Slot(DbId(r), "pkgcache")}
    [] m = "db_update"       -> {Slot(DbId(r), "pkgcache")}

\* rules.invalidates: what the stub detaches.
Detaches(m, r) ==
  CASE m = "register_syncdb" -> {Slot(HandleId(r), "syncdbs")}
    [] m = "set_logfile"     -> {Slot(HandleId(r), "logfile")}
    [] m = "add_pkg"         -> {Slot(HandleId(r), "trans_add")}
    [] m = "sysupgrade"      -> {}
    [] m = "trans_commit"    -> {Slot(HandleId(r), "trans_add"),
                                 Slot(DbId(r), "pkgcache")}
    [] m = "db_update"       -> {Slot(DbId(r), "pkgcache")}

Entry(s, p, v) == [slot |-> s, ptr |-> p, val |-> v]
Entries == {live[s] : s \in DOMAIN live} \cup detached

\* A callback may call a stub while the one on top is in flight.
MayCall(o) ==
  /\ Len(stk) < MaxDepth
  /\ o \notin gone

\* Nothing under way is about these objects: destroying them is allowed.
Unused(O) == \A i \in DOMAIN stk : stk[i].about \notin O

With(s, e) == [x \in DOMAIN live \cup {s} |-> IF x = s THEN e ELSE live[x]]
Without(S) == [x \in DOMAIN live \ S |-> live[x]]

Returns(p, s) == held' = held \cup {<<p, s>>}

-----------------------------------------------------------------------------
Init ==
  /\ live = [s \in {} |-> 0]
  /\ detached = {}
  /\ freed = {}
  /\ next_ptr = 1
  /\ stk = <<>>
  /\ val = [s \in Slots |-> 0]
  /\ gone = {}
  /\ held = {}
  /\ unseen = {} /\ refused = {} /\ orphaned = {} /\ mishaps = 0

\* A getter's stub: arpc_cached answers, or the call goes out.
Get(s) ==
  /\ MayCall(s.owner)
  /\ IF s \in DOMAIN live /\ ~IsStr(s)
     THEN Returns(live[s].ptr, s) /\ UNCHANGED stk
     ELSE /\ next_ptr + Cardinality({i \in DOMAIN stk : stk[i].op = "get"}) <= MaxPtr
          /\ stk' = <<[op |-> "get", about |-> s.owner, slot |-> s]>> \o stk
          /\ UNCHANGED held
  /\ UNCHANGED <<live, detached, freed, next_ptr, val, gone, ghosts>>

\* Mutant: the newcomer takes the entry's place.
CacheReplaces(s) ==
  /\ live' = With(s, Entry(s, next_ptr, val[s]))
  /\ detached' = IF s \in DOMAIN live THEN detached \cup {live[s]} ELSE detached
  /\ Returns(next_ptr, s)
  /\ UNCHANGED freed

\* arpc_cache: if a callback fetched the same thing meanwhile, its copy stays
\* and the newcomer goes.
Cache(s) ==
  /\ IF s \in DOMAIN live
     THEN /\ freed' = freed \cup {next_ptr}
          /\ Returns(live[s].ptr, s)
          /\ UNCHANGED live
     ELSE /\ live' = With(s, Entry(s, next_ptr, val[s]))
          /\ Returns(next_ptr, s)
          /\ UNCHANGED freed
  /\ UNCHANGED detached

\* Mutant: a string that changed under a live entry is freed.
InternFrees(s) ==
  /\ live' = With(s, Entry(s, next_ptr, val[s]))
  /\ freed' = IF s \in DOMAIN live THEN freed \cup {live[s].ptr} ELSE freed
  /\ Returns(next_ptr, s)
  /\ UNCHANGED detached

\* intern: the live string if it is unchanged, else a detached one of that value
\* taken back, else a new one; the live one it replaces is detached.
Intern(s) ==
  LET was  == IF s \in DOMAIN live THEN {live[s]} ELSE {}
      same == {e \in was \cup detached : e.slot = s /\ e.val = val[s]}
      now  == IF same # {} THEN CHOOSE e \in same : TRUE
              ELSE Entry(s, next_ptr, val[s])
  IN  /\ live' = With(s, now)
      /\ detached' = (detached \cup was) \ {now}
      /\ Returns(now.ptr, s)
      /\ UNCHANGED freed

\* The reply to a getter: the server read the value as it is now, since once it
\* has, nothing else happens before the reply is in.
GetReply ==
  /\ stk # <<>> /\ Head(stk).op = "get"
  /\ next_ptr <= MaxPtr
  /\ next_ptr' = next_ptr + 1
  /\ IF IsStr(Head(stk).slot) THEN Intern(Head(stk).slot)
     ELSE Cache(Head(stk).slot)
  /\ stk' = Tail(stk)
  /\ UNCHANGED <<val, gone, ghosts>>

\* A call that changes something goes out.
Mutate(m, r) ==
  /\ MayCall(HandleId(r))
  /\ m \in {"trans_commit", "db_update"} => DbId(r) \notin gone
  /\ stk' = <<[op |-> m, about |-> HandleId(r), root |-> r,
               applied |-> FALSE]>> \o stk
  /\ UNCHANGED <<live, detached, freed, next_ptr, val, gone, held, ghosts>>

IsMutator(f) == f.op \in Mutators

\* The objects O are destroyed, and the pointers read from them with them.
Destroys(O) ==
  /\ gone' = gone \cup O
  /\ held' = {h \in held : h[2].owner \notin O}

\* The packages a call may free along with the cache they are in.
Frees(m, r) == IF m \in {"trans_commit", "db_update"} THEN {PkgId(r)} ELSE {}

\* What the call under way may change.
Changing ==
  IF stk # <<>> /\ IsMutator(Head(stk))
  THEN Slots \cap Changes(Head(stk).op, Head(stk).root) ELSE {}

\* libalpm makes the change, or fails to; callbacks may come before and after.
Apply(S, P) ==
  /\ stk # <<>> /\ IsMutator(Head(stk)) /\ ~Head(stk).applied
  /\ P \subseteq Frees(Head(stk).op, Head(stk).root) /\ Unused(P)
  /\ val' = [s \in Slots |-> IF s \in S THEN 1 - val[s] ELSE val[s]]
  /\ stk' = [stk EXCEPT ![1].applied = TRUE]
  /\ Destroys(P) /\ orphaned' = orphaned \cup P
  /\ UNCHANGED <<live, detached, freed, next_ptr, unseen, refused, mishaps>>

\* Mutant: entries are detached under the handle only, not under its root.
DetachSelf(S) ==
  LET T == {s \in S \cap DOMAIN live : s.owner.seq = 1}
  IN  live' = Without(T) /\ detached' = detached \cup {live[s] : s \in T}

\* arpc_detach: the entries leave the table and are kept.
Detach(S) ==
  LET T == S \cap DOMAIN live
  IN  live' = Without(T) /\ detached' = detached \cup {live[s] : s \in T}

\* The reply to it: what it may have changed is detached, whatever it returned.
MutatorReply ==
  /\ stk # <<>> /\ IsMutator(Head(stk)) /\ Head(stk).applied
  /\ Detach(Detaches(Head(stk).op, Head(stk).root))
  /\ stk' = Tail(stk)
  /\ UNCHANGED <<freed, next_ptr, val, gone, held, ghosts>>

\* libalpm refuses to destroy an object, or the reply is lost, or both.
Mishap(refuses, lost) ==
  LET n == (IF refuses THEN 1 ELSE 0) + (IF lost THEN 1 ELSE 0)
  IN  mishaps + n <= MaxMishaps /\ mishaps' = mishaps + n

\* arpc_invoke fails: the stub returns its failure value at once.
ReplyLost ==
  /\ stk # <<>>
  /\ Mishap(FALSE, TRUE)
  /\ stk' = Tail(stk)
  /\ unseen' = unseen \cup (IF IsMutator(Head(stk))
                             THEN Changes(Head(stk).op, Head(stk).root) ELSE {})
  /\ UNCHANGED <<live, detached, freed, next_ptr, val, gone, held, refused, orphaned>>

\* Mutant: only live entries are released.
PurgeLive(O) ==
  LET S == {s \in DOMAIN live : s.owner \in O}
  IN  /\ live' = Without(S)
      /\ freed' = freed \cup {live[s].ptr : s \in S}
      /\ UNCHANGED detached

\* purge_where: the entries of these owners are released, detached or not.
Purge(O) ==
  LET dead == {e \in Entries : e.slot.owner \in O}
  IN  /\ live' = Without({s \in DOMAIN live : s.owner \in O})
      /\ detached' = detached \ dead
      /\ freed' = freed \cup {e.ptr : e \in dead}

\* The slots of the objects O.
SlotsOf(O) == {s \in Slots : s.owner \in O}

\* The reply to a call that may have changed what is in S was lost: the stub returned
\* before it touched the cache.
Unreported(S) ==
  /\ unseen' = unseen \cup S
  /\ UNCHANGED <<live, detached, freed>>

\* The stub of alpm_release: everything under the root is purged, unless the
\* reply is lost.
Release(r, lost) ==
  /\ HandleId(r) \notin gone /\ Unused(Under(r))
  /\ Len(stk) < MaxDepth /\ Mishap(FALSE, lost)
  /\ Destroys(Under(r))
  /\ IF lost THEN Unreported(SlotsOf(Under(r))) ELSE Purge(Under(r)) /\ UNCHANGED unseen
  /\ UNCHANGED <<next_ptr, stk, val, refused, orphaned>>

DbList(r) == Slot(HandleId(r), "syncdbs")

\* The handle's list of databases changes, and its databases go with their packages.
DbsGo(r) ==
  /\ Destroys({DbId(r), PkgId(r)})
  /\ val' = [s \in Slots |-> IF s = DbList(r) THEN 1 - val[s] ELSE val[s]]

\* What arpc_purge_owner and then arpc_detach do for alpm_db_unregister.
PurgeDb(r) ==
  LET dead == {e \in Entries : e.slot.owner = DbId(r)}
      T    == {DbList(r)} \cap DOMAIN live
  IN  /\ live' = Without({s \in DOMAIN live : s.owner = DbId(r)} \cup T)
      /\ detached' = (detached \ dead) \cup {live[s] : s \in T}
      /\ freed' = freed \cup {e.ptr : e \in dead}

MayUnregister(r) ==
  /\ MayCall(HandleId(r))
  /\ DbId(r) \notin gone /\ Unused({DbId(r), PkgId(r)})

\* The stub of alpm_db_unregister: what was cached under the db itself is freed and
\* the handle's list of dbs detached -- also when libalpm refused and the db lives
\* on, and not when the reply is lost.  What was cached under its packages stays.
DbUnregister(r, refuses, lost) ==
  /\ MayUnregister(r) /\ Mishap(refuses, lost)
  /\ IF lost THEN Unreported(SlotsOf({DbId(r)}) \cup {DbList(r)})
     ELSE PurgeDb(r) /\ UNCHANGED unseen
  /\ IF refuses
     THEN /\ refused' = refused \cup {DbId(r)}
          /\ UNCHANGED <<gone, held, val, orphaned>>
     ELSE DbsGo(r) /\ orphaned' = orphaned \cup {PkgId(r)} /\ UNCHANGED refused
  /\ UNCHANGED <<next_ptr, stk>>

\* The stub of alpm_unregister_all_syncdbs: what was read from the dbs and the list of
\* them is detached, refused or not; nothing is freed before the handle goes.
UnregisterAll(r, refuses, lost) ==
  /\ MayUnregister(r) /\ Mishap(refuses, lost)
  /\ IF lost THEN Unreported(SlotsOf({DbId(r)}) \cup {DbList(r)})
     ELSE Detach(SlotsOf({DbId(r)}) \cup {DbList(r)}) /\ UNCHANGED <<freed, unseen>>
  /\ IF refuses
     THEN UNCHANGED <<gone, held, val, orphaned>>
     ELSE DbsGo(r) /\ orphaned' = orphaned \cup {DbId(r), PkgId(r)}
  /\ UNCHANGED <<next_ptr, stk, refused>>

\* The stub of alpm_pkg_free: what was cached under the package is freed, although
\* libalpm frees a loaded package only and leaves a database its own.
PkgFree(p, lost) ==
  /\ MayCall(p) /\ Unused({p}) /\ Mishap(p # LoadedId(p.root), lost)
  /\ IF lost THEN Unreported(SlotsOf({p})) ELSE Purge({p}) /\ UNCHANGED unseen
  /\ IF p = LoadedId(p.root) THEN Destroys({p}) /\ UNCHANGED refused
     ELSE /\ refused' = refused \cup {p}
          /\ UNCHANGED <<gone, held>>
  /\ UNCHANGED <<next_ptr, stk, val, orphaned>>

Next ==
  \/ \E s \in Slots : Get(s)
  \/ GetReply
  \/ \E m \in Mutators, r \in Roots : Mutate(m, r)
  \/ \E S \in SUBSET Changing, P \in SUBSET Packages : Apply(S, P)
  \/ MutatorReply
  \/ ReplyLost
  \/ \E r \in Roots, lost \in BOOLEAN : Release(r, lost)
  \/ \E r \in Roots, refuses, lost \in BOOLEAN : DbUnregister(r, refuses, lost)
  \/ \E r \in Roots, refuses, lost \in BOOLEAN : UnregisterAll(r, refuses, lost)
  \/ \E p \in Packages, lost \in BOOLEAN : PkgFree(p, lost)

Spec == Init /\ [][Next]_vars

-----------------------------------------------------------------------------
(* Properties.                                                             *)

\* What an entry and a stub under way may be.
Objects == UNION {Under(r) : r \in Roots}
EntryOf == [slot : Slots, ptr : 1 .. MaxPtr, val : {0, 1}]
Getting == [op : {"get"}, about : Objects, slot : Slots]
Mutating == [op : Mutators, about : Objects, root : Roots, applied : BOOLEAN]

\* Every entry is filed under its own slot and points at something that has been
\* materialised.
TypeOK ==
  /\ live \in [DOMAIN live -> EntryOf] /\ DOMAIN live \subseteq Slots
  /\ \A s \in DOMAIN live : live[s].slot = s
  /\ detached \subseteq EntryOf
  /\ next_ptr \in 1 .. MaxPtr + 1
  /\ freed \subseteq 1 .. next_ptr - 1
  /\ \A e \in Entries : e.ptr < next_ptr
  /\ held \subseteq (1 .. next_ptr - 1) \X Slots
  /\ stk \in Seq(Getting \cup Mutating)
  /\ val \in [Slots -> {0, 1}]
  /\ gone \subseteq Objects /\ refused \subseteq Objects /\ orphaned \subseteq gone
  /\ mishaps \in 0 .. MaxMishaps

\* "Strings and lists both stay valid as long as the object they came from"
\* (arpc_client.c): no pointer a caller got is released while its object lives,
\* whatever has been changed, fetched again or detached since, unless it came from a
\* database or a package libalpm had refused to destroy.
HeldUnlessRefused == \A h \in held : h[1] \in freed => h[2].owner \in refused

\* The cached lists that are not what libalpm would hand out now.
Stale ==
  {s \in DOMAIN live : ~IsStr(s) /\ s.owner \notin gone /\ live[s].val # val[s]}

\* "The next read of one fetches afresh" (arpc_client.c): between calls a cached
\* list is current, callbacks that filled the cache in the middle of a change
\* included.
CachedListsFresh == stk = <<>> => Stale = {}

\* The cases in which that holds: between calls a list is stale only if the reply
\* to a call that may have changed it was lost.
StaleOnlyIfUnseen == stk = <<>> => Stale \subseteq unseen

\* An object that went with another, whose handle is still there.
Adrift(o) == o \in orphaned /\ HandleId(o.root) \notin gone

\* "They go when the handle does" (arpc_client.h), "everything under it, detached or
\* not" (arpc_purge_root): a destroyed object has no entry left unless its handle
\* lives and it went by a call about another object, or the reply was lost; none is
\* released twice, and no two are the same memory.  "Take it back, so the pointer a
\* caller already holds stays the one this returns" (intern): there is one copy of a
\* string per getter and owner, live or detached.
EntriesOwned ==
  /\ TypeOK
  /\ \A e \in Entries : /\ e.slot.owner \in gone =>
                             e.slot \in unseen \/ Adrift(e.slot.owner)
                        /\ e.ptr \notin freed
  /\ \A e, f \in Entries : e.ptr = f.ptr => e = f
  /\ \A s \in DOMAIN live : live[s] \notin detached
  /\ \A e, f \in Entries :
       IsStr(e.slot) /\ e.slot = f.slot /\ e.val = f.val => e = f

\* "It is the one both get; the newcomer goes" (arpc_cache): as long as a list
\* answers lookups, it is the same list.
CachedPointerStable ==
  [][\A s \in DOMAIN live \cap DOMAIN live' :
       ~IsStr(s) => live'[s].ptr = live[s].ptr]_vars

=============================================================================
