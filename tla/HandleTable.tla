----------------------------- MODULE HandleTable -----------------------------
(***************************************************************************)
(* The server's handle table (src/src/server/arpc_server.c): ids for the   *)
(* libalpm objects a client may name, filed in a tree of owners.           *)
(*                                                                         *)
(* `tab` is what the two open-addressed indexes of the source hold between *)
(* two calls: a function from the live ids to their slots.  Ids are pairs  *)
(* (the source packs the root into the high bits of the sequence number).  *)
(* The server is one thread, so every operation is one step.  A put that    *)
(* cannot grow the table changes nothing and is a stuttering step: the      *)
(* object has no id, and a record that was to be adopted is leaked.         *)
(***************************************************************************)
EXTENDS Naturals, FiniteSets

CONSTANTS
  Ptr,            \* addresses of libalpm objects
  MaxSeq,         \* bound: ids issued by one server process
  AllocFails      \* whether calloc may fail (BOOLEAN)

ASSUME MaxSeqAssumption == MaxSeq \in Nat

ASSUME AllocFailsAssumption == AllocFails \in BOOLEAN

VARIABLES
  tab,            \* live id -> slot
  next_seq,       \* g_next_seq
  next_root,      \* g_next_root
  cbreg,          \* ids with a callback enabled (0 for the NULL handle)
  owed,           \* ghost: objects adopted and not freed yet
  up              \* the server process has not reached its exit path

vars == <<tab, next_seq, next_root, cbreg, owed, up>>

-----------------------------------------------------------------------------
Tags == {"HANDLE", "DB", "PKG", "CHANGELOG", "NONE"}

\* How far down the tree of owners an object of each tag hangs.
Depth == [HANDLE |-> 0, DB |-> 1, PKG |-> 2, CHANGELOG |-> 3, NONE |-> 3]

Id == [root : Nat, seq : Nat \ {0}]

\* NULL on the wire
NoId == [root |-> 0, seq |-> 0]

Slot == [ptr : Ptr, tag : Tags, owner : Id \cup {NoId}, release : BOOLEAN]

\* PARENT_TAG: the kind of object a new one is filed under.  A handle has none;
\* a record, which may hold packages, is filed where a package would be.
ParentTag == [HANDLE |-> "NONE", DB |-> "HANDLE", PKG |-> "DB",
              CHANGELOG |-> "PKG", NONE |-> "DB"]

-----------------------------------------------------------------------------
(* Lookups.  They take the table as a parameter: a handler that files       *)
(* several objects looks up in the table as the previous one left it.       *)

\* The owner of an id, NoId above the top and for an id that is not there.
Up(t, id) == IF id \in DOMAIN t THEN t[id].owner ELSE NoId

\* Mutant: a walk that gives up after the second owner.
ChainOfThree(t, id) == {id, Up(t, id), Up(t, Up(t, id))} \ {NoId}

\* The ids the eight iterations of under() and arpc_ancestor() visit.
Chain(t, id) ==
  LET u1 == Up(t, id)
      u2 == Up(t, u1)
      u3 == Up(t, u2)
      u4 == Up(t, u3)
      u5 == Up(t, u4)
      u6 == Up(t, u5)
      u7 == Up(t, u6)
  IN  {id, u1, u2, u3, u4, u5, u6, u7} \ {NoId}

Under(t, id, o) == o \in Chain(t, id)

\* Mutant: packages are never found again by pointer.
FindPtrNoPkg(t, p, tag) ==
  IF tag # "PKG" /\ \E i \in DOMAIN t : t[i].ptr = p /\ t[i].tag = tag
  THEN CHOOSE i \in DOMAIN t : t[i].ptr = p /\ t[i].tag = tag
  ELSE NoId

\* find_ptr: the id of an object the table already knows.
FindPtr(t, p, tag) ==
  IF \E i \in DOMAIN t : t[i].ptr = p /\ t[i].tag = tag
  THEN CHOOSE i \in DOMAIN t : t[i].ptr = p /\ t[i].tag = tag
  ELSE NoId

\* arpc_handle_get succeeds: the id is live and of the kind asked for.
Resolves(t, id, tag) == id \in DOMAIN t /\ t[id].tag = tag

\* The last live id of the chain.
Top(t, id) ==
  CHOOSE i \in Chain(t, id) : Up(t, i) \notin DOMAIN t

\* arpc_ancestor: the nearest object of `tag` at or above `id`, else the top.
Ancestor(t, id, tag) ==
  LET hits == {i \in Chain(t, id) \cap DOMAIN t : t[i].tag = tag}
  IN  IF id \notin DOMAIN t THEN id
      ELSE IF tag # "NONE" /\ hits # {}
           THEN CHOOSE i \in hits :
                  \A j \in hits : i \in Chain(t, j) => i = j
           ELSE Top(t, id)

-----------------------------------------------------------------------------
(* Updates of the table.                                                   *)

\* `have` is filed under an ancestor of `o`: file it under the closer one.
Refiled(t, have, o) ==
  IF o # NoId /\ o # t[have].owner /\ Under(t, o, t[have].owner)
  THEN [t EXCEPT ![have].owner = o]
  ELSE t

\* Mutant: an owner's root is not passed on.
NewIdOwnRoot(seq, root, tag, o) ==
  [root |-> IF tag = "HANDLE" THEN root ELSE 0, seq |-> seq]

\* The id of an object not seen before.
NewId(seq, root, tag, o) ==
  [root |-> IF o # NoId THEN o.root
            ELSE IF tag = "HANDLE" THEN root
            ELSE 0,
   seq |-> seq]

With(t, id, slot) ==
  [i \in DOMAIN t \cup {id} |-> IF i = id THEN slot ELSE t[i]]

\* rebuild() with the slots of S not kept.
Without(t, S) == [i \in DOMAIN t \ S |-> t[i]]

\* arpc_handle_put as a function of the table and its two counters.
Filed(st, p, tag, o, release) ==
  LET have == FindPtr(st.tab, p, tag)
      id   == NewId(st.seq, st.root, tag, o)
  IN  IF have # NoId
      THEN [st EXCEPT !.tab = Refiled(st.tab, have, o)]
      ELSE [tab  |-> With(st.tab, id, [ptr |-> p, tag |-> tag, owner |-> o,
                                       release |-> release]),
            seq  |-> st.seq + 1,
            root |-> IF o = NoId /\ tag = "HANDLE" THEN st.root + 1
                     ELSE st.root]

Table == [tab |-> tab, seq |-> next_seq, root |-> next_root]

Becomes(st) == tab' = st.tab /\ next_seq' = st.seq /\ next_root' = st.root

\* The subtree of an id.
Below(t, o) == {i \in DOMAIN t : Under(t, i, o)}

\* Mutant: a rebuild that hands out the highest dropped number again.
DroppedRecycled(S) ==
  /\ tab' = Without(tab, S)
  /\ owed' = owed \ {tab[i].ptr : i \in {j \in S : tab[j].release}}
  /\ next_seq' = IF \E i \in S : i.seq + 1 = next_seq THEN next_seq - 1
                 ELSE next_seq
  /\ UNCHANGED next_root

\* Mutant: a rebuild that forgets what the slots it leaves out hold.
DroppedUnreleased(S) ==
  tab' = Without(tab, S) /\ UNCHANGED <<owed, next_seq, next_root>>

\* The slots S go, and with them the adopted objects they hold.
Dropped(S) ==
  /\ tab' = Without(tab, S)
  /\ owed' = owed \ {tab[i].ptr : i \in {j \in S : tab[j].release}}
  /\ UNCHANGED <<next_seq, next_root>>

\* Mutant: a rebuild that releases what it meets before it has the new arrays.
NotDroppedReleased ==
  AllocFails /\ owed' = {} /\ UNCHANGED <<tab, next_seq, next_root>>

\* A rebuild that could not allocate leaves both indexes as they were.
NotDropped == AllocFails /\ UNCHANGED <<tab, owed, next_seq, next_root>>

-----------------------------------------------------------------------------
\* Mutant: the first id would be 0, which means NULL.
InitFromZero ==
  /\ tab = [i \in {} |-> NoId]
  /\ next_seq = 0
  /\ next_root = 1
  /\ cbreg = {}
  /\ owed = {}
  /\ up = TRUE

Init ==
  /\ tab = [i \in {} |-> NoId]
  /\ next_seq = 1
  /\ next_root = 1
  /\ cbreg = {}
  /\ owed = {}
  /\ up = TRUE

\* alpm_initialize: a new handle, nobody's.
PutHandle(p) ==
  /\ next_seq <= MaxSeq
  /\ Becomes(Filed(Table, p, "HANDLE", NoId, FALSE))
  /\ UNCHANGED <<cbreg, owed>>

\* Which calls return an object of each kind: a cursor only one that takes the
\* package, a db or a package one that takes anything above or beside it, and
\* a handle any call, since every object has one.
TakenBy(tag, arg) ==
  CASE tag = "CHANGELOG" -> tab[arg].tag = "PKG"
    [] tag = "DB"        -> tab[arg].tag \in {"HANDLE", "PKG"}
    [] tag = "PKG"       -> tab[arg].tag \in {"HANDLE", "DB", "PKG"}
    [] tag = "HANDLE"    -> tab[arg].tag \in {"DB", "PKG"}
    [] OTHER             -> FALSE

\* A call given `arg` returns an object: filed under the ancestor of `arg` of
\* the kind its own kind hangs from.  Only a handle already known can come back
\* this way.
PutFrom(p, tag, arg) ==
  /\ TakenBy(tag, arg)
  /\ tag = "HANDLE" => FindPtr(tab, p, tag) # NoId
  /\ next_seq <= MaxSeq
  /\ Becomes(Filed(Table, p, tag, Ancestor(tab, arg, ParentTag[tag]), FALSE))
  /\ UNCHANGED <<cbreg, owed>>

\* alpm_checkconflicts, alpm_trans_prepare: a record the client now holds ids
\* into is kept, filed under the handle, and owed a release.  The record is
\* new, so its address is no other adopted record's.
Adopt(p, h) ==
  /\ tab[h].tag = "HANDLE"
  /\ FindPtr(tab, p, "NONE") = NoId /\ p \notin owed
  /\ next_seq <= MaxSeq
  /\ Becomes(Filed(Table, p, "NONE", Ancestor(tab, h, ParentTag["NONE"]), TRUE))
  /\ owed' = owed \cup {p}
  /\ UNCHANGED cbreg

\* arpc_handle_drop, from alpm_pkg_changelog_close: that one slot.
Drop(id) ==
  /\ tab[id].tag = "CHANGELOG"
  /\ Dropped({id}) \/ NotDropped
  /\ UNCHANGED cbreg

\* Mutant: callback registrations outlive their handle.
DropOwnerKeepCallbacks(o) ==
  /\ tab[o].tag \in {"HANDLE", "DB", "PKG"}
  /\ Dropped(Below(tab, o)) \/ NotDropped
  /\ UNCHANGED cbreg

\* arpc_handle_drop_owner, from a call that destroys its first argument (and,
\* by pointer, from the invalidation hooks): the subtree, root included, and
\* the callbacks registered under the id.  An adopted record is never named.
DropOwner(o) ==
  /\ tab[o].tag \in {"HANDLE", "DB", "PKG"}
  /\ Dropped(Below(tab, o)) \/ NotDropped
  /\ cbreg' = cbreg \ {o}

\* arpc_handle_drop_under, from alpm_db_update: what is below, not itself.
DropUnder(o) ==
  /\ tab[o].tag = "DB"
  /\ Dropped(Below(tab, o) \ {o}) \/ NotDropped
  /\ UNCHANGED cbreg

\* arpc.set_callback.  The NULL handle is valid input to arpc_arg_handle, and the
\* registration is made before libalpm is asked to install anything, so one for
\* id 0 is made although libalpm refuses to install for it.
CbSet(h, enabled) ==
  /\ h = NoId \/ Resolves(tab, h, "HANDLE")
  /\ cbreg' = IF enabled THEN cbreg \cup {h} ELSE cbreg \ {h}
  /\ UNCHANGED <<tab, next_seq, next_root, owed>>

\* The exit path: arpc_handle_reset frees what is adopted and the process ends;
\* the callback registry goes with the process.
Reset ==
  /\ up' = FALSE
  /\ tab' = Without(tab, DOMAIN tab)
  /\ owed' = owed \ {tab[i].ptr : i \in {j \in DOMAIN tab : tab[j].release}}
  /\ UNCHANGED <<next_seq, next_root, cbreg>>

Serve ==
  \/ \E p \in Ptr : PutHandle(p)
  \/ \E p \in Ptr, tag \in Tags, arg \in DOMAIN tab : PutFrom(p, tag, arg)
  \/ \E p \in Ptr, h \in DOMAIN tab : Adopt(p, h)
  \/ \E id \in DOMAIN tab : Drop(id)
  \/ \E id \in DOMAIN tab : DropOwner(id)
  \/ \E id \in DOMAIN tab : DropUnder(id)
  \/ \E h \in DOMAIN tab \cup {NoId}, enabled \in BOOLEAN : CbSet(h, enabled)

Next ==
  \/ up /\ Serve /\ UNCHANGED up
  \/ up /\ Reset

Spec == Init /\ [][Next]_vars

-----------------------------------------------------------------------------
(* Properties.                                                             *)

\* Every variable has its type (the slots of g_tab, the two counters).
TypeOK ==
  /\ tab \in [DOMAIN tab -> Slot]
  /\ DOMAIN tab \subseteq Id
  /\ next_seq \in Nat \ {0}
  /\ next_root \in Nat \ {0}
  /\ cbreg \subseteq Id \cup {NoId}
  /\ owed \subseteq Ptr
  /\ up \in BOOLEAN

\* Every slot but a handle's hangs from a live one of a kind above it, under the
\* same root.
WellFiled(t) ==
  \A i \in DOMAIN t :
    /\ t[i].owner = NoId <=> t[i].tag = "HANDLE"
    /\ t[i].owner # NoId =>
         /\ t[i].owner \in DOMAIN t
         /\ Depth[t[t[i].owner].tag] < Depth[t[i].tag]
         /\ t[i].owner.root = i.root

\* Objects form a tree (arpc_server.h): no drop leaves an orphan behind and no
\* re-filing hangs an object under another root, so that the bounded walks of
\* under() and arpc_ancestor() always reach the handle.
OwnersLive == WellFiled(tab)

\* "An id carries its root in its high bits": the ids below a live handle are
\* exactly the live ids with its root.  The client forgets a released handle's
\* ids by root alone (arpc_purge_root), the server drops them by walking the
\* tree; the two must agree.
RootIsSubtree ==
  /\ \A h \in DOMAIN tab : tab[h].tag = "HANDLE" =>
       Below(tab, h) = {i \in DOMAIN tab : i.root = h.root}
  /\ \A i \in DOMAIN tab :
       \E h \in DOMAIN tab : tab[h].tag = "HANDLE" /\ h.root = i.root

\* "The same object always gets the same id": no two live ids name one object,
\* and a sequence number is one id's for as long as the process lives.
OneIdPerObject ==
  \A i, j \in DOMAIN tab :
    /\ i.seq < next_seq
    /\ i.root < next_root
    /\ i.seq = j.seq => i = j
    /\ tab[i].ptr = tab[j].ptr /\ tab[i].tag = tab[j].tag => i = j

\* An adopted record is freed once, with its owner: the slots with a release hold
\* exactly the records adopted and not freed, whatever was dropped, re-filed or
\* could not be dropped for want of memory in between.
AdoptedHeld ==
  owed = {tab[i].ptr : i \in {j \in DOMAIN tab : tab[j].release}}

\* A released handle has no callback registration left (arpc_cb_purge), so a
\* trampoline cannot be asked for by an id that names nothing, until the process
\* exits.  The one registration no release takes away is the NULL handle's:
\* arpc_handle_drop_owner(0) returns at once.  libalpm has installed no
\* trampoline for it, so nothing asks for it either.
CallbacksOfLiveHandles ==
  up => \A h \in cbreg : h = NoId \/ Resolves(tab, h, "HANDLE")

\* "Ids are never reused, so a stale id can never alias a live object"
\* (arpc_server.h): a live id keeps its object for as long as it is live, an id
\* that appears is newer than every id issued before, and none of those comes
\* back after a drop, since the next one to be issued only moves up.
IdsNeverReused ==
  [][/\ next_seq' >= next_seq
     /\ \A i \in DOMAIN tab' :
          \/ /\ i \in DOMAIN tab
             /\ tab'[i].ptr = tab[i].ptr
             /\ tab'[i].tag = tab[i].tag
          \/ next_seq <= i.seq /\ i.seq < next_seq']_vars

=============================================================================
