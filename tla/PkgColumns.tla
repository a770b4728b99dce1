----------------------------- MODULE PkgColumns -----------------------------
(***************************************************************************)
(* The client's batched package fields (src/src/client/arpc_client.c): the  *)
(* packages of a list form a group, and the first read of a field fetches   *)
(* it for the whole group, in one call, as a column.                        *)
(*                                                                         *)
(* A stub holds the lock to its end, so between two steps of one only a     *)
(* callback it raised can run: a stack of stubs.  The server reads a column *)
(* member by member, and libalpm may log, and so call back, at each.        *)
(* Columns and groups are numbered and never reused.  A value is paired     *)
(* with the package it is of.  Allocation failures are left out.            *)
(***************************************************************************)
EXTENDS Naturals, FiniteSets, Sequences, SequencesExt

CONSTANTS
  Pkgs,           \* package ids
  Root,           \* package -> the root of its handle
  Lists,          \* package lists a getter may hand out
  LoseReplies,    \* whether a reply may be lost after the call was carried out
  SetsNested,     \* whether callbacks call alpm_pkg_set_reason
  MaxCols,        \* bound: columns fetched
  MaxDepth        \* bound: stubs nested in one another

\* Every id in a list was filed under one owner, so they share a root.
ASSUME ListsAssumption ==
  \A L \in Lists :
    /\ L # <<>> /\ L \in Seq(Pkgs) /\ IsInjective(L)
    /\ \A i, j \in DOMAIN L : Root[L[i]] = Root[L[j]]

VARIABLES
  groups,         \* g_groups: number -> members in order, columns newest first
  slots,          \* g_slots: package -> its group and its place there
  next_grp,       \* the next group's number
  next_col,       \* the next column's number
  stk,            \* stubs under way, innermost first
  reason,         \* package -> its install reason, on the server
  gone,           \* roots released
  freed,          \* columns freed
  held,           \* ghost: <<column, package>> of the strings callers may use
  raced           \* ghost: groups whose reasons may be out of date

tables == <<groups, slots, next_grp>>
vars == <<tables, next_col, stk, reason, gone, freed, held, raced>>

Fields == {"name", "reason"}

\* A caller keeps a pointer into a column of strings, and a copy of a number.
IsStr(f) == f = "name"

\* What the server would answer for a member now.
Value(p, f) == <<p, IF f = "reason" THEN reason[p] ELSE 0>>

MayCall(p) ==
  /\ Len(stk) < MaxDepth
  /\ Root[p] \notin gone

\* The place of a field's first column in a group, 0 if there is none.
Place(g, f) == SelectInSeq(groups[g].cols, LAMBDA c : c.field = f)

Returns(p, c) ==
  held' = IF IsStr(c.field) THEN held \cup {<<c.n, p>>} ELSE held

Init ==
  /\ groups = [g \in {} |-> 0]
  /\ slots = [p \in {} |-> 0]
  /\ next_grp = 1 /\ next_col = 1
  /\ stk = <<>>
  /\ reason = [p \in Pkgs |-> 0]
  /\ gone = {} /\ freed = {} /\ held = {} /\ raced = {}

-----------------------------------------------------------------------------
\* What is in a table already stays as it is.
Joined(f, more) ==
  [x \in DOMAIN f \cup DOMAIN more |-> IF x \in DOMAIN f THEN f[x] ELSE more[x]]

\* Mutant: the place is counted among the members placed here.
GroupNewPlaced(L) ==
  LET new == {i \in DOMAIN L : L[i] \notin DOMAIN slots}
  IN  IF new = {} THEN UNCHANGED tables
      ELSE /\ groups' = Joined(groups, [g \in {next_grp} |-> [ids |-> L, cols |-> <<>>]])
           /\ slots' = Joined(slots, [p \in {L[i] : i \in new} |->
                [g |-> next_grp,
                 i |-> Cardinality({i \in new : \E j \in new : L[j] = p /\ i <= j})]])
           /\ next_grp' = next_grp + 1

\* group_new: the members that have no group get this one; if all have one it
\* is not made.
GroupNew(L) ==
  LET new == {i \in DOMAIN L : L[i] \notin DOMAIN slots}
  IN  IF new = {} THEN UNCHANGED tables
      ELSE /\ groups' = Joined(groups, [g \in {next_grp} |-> [ids |-> L, cols |-> <<>>]])
           /\ slots' = Joined(slots, [p \in {L[i] : i \in new} |->
                [g |-> next_grp, i |-> CHOOSE i \in new : L[i] = p]])
           /\ next_grp' = next_grp + 1

\* The reply to a getter of a package list: the list is built and registered.
BuildList(L) ==
  /\ MayCall(L[1])
  /\ GroupNew(L)
  /\ UNCHANGED <<next_col, stk, reason, gone, freed, held, raced>>

\* A batched accessor, the column being there.
FieldCached(p, f) ==
  /\ MayCall(p)
  /\ p \in DOMAIN slots
  /\ LET g == slots[p].g
     IN  Place(g, f) # 0 /\ Returns(p, groups[g].cols[Place(g, f)])
  /\ UNCHANGED <<tables, next_col, stk, reason, gone, freed, raced>>

\* A batched accessor, with no column of the field yet: arpc.pkg_fields goes out
\* for the package's group, one of its own if it is in no list.
FieldFetch(p, f) ==
  LET g == IF p \in DOMAIN slots THEN slots[p].g ELSE next_grp
  IN  /\ MayCall(p)
      /\ p \in DOMAIN slots => Place(g, f) = 0
      /\ GroupNew(<<p>>)
      /\ stk' = <<[op |-> "fetch", pkg |-> p, field |-> f, g |-> g,
                   vals |-> <<>>]>> \o stk
      /\ UNCHANGED <<next_col, reason, gone, freed, held, raced>>

Fetching == stk # <<>> /\ Head(stk).op = "fetch"

\* h_arpc_pkg_fields: the server reads the next member.
ReadMember ==
  /\ Fetching
  /\ LET f == Head(stk)
         k == Len(f.vals) + 1
     IN  /\ k <= Len(groups[f.g].ids)
         /\ stk' = [stk EXCEPT ![1].vals =
                      Append(@, Value(groups[f.g].ids[k], f.field))]
  /\ UNCHANGED <<tables, next_col, reason, gone, freed, held, raced>>

\* The reply: the column goes in front of the group's others, whether or not a
\* callback fetched the same field meanwhile.
FetchReply ==
  /\ Fetching
  /\ next_col <= MaxCols
  /\ LET f == Head(stk)
         c == [n |-> next_col, field |-> f.field, vals |-> f.vals]
     IN  /\ Len(f.vals) = Len(groups[f.g].ids)
         /\ groups' = [groups EXCEPT ![f.g].cols = Cons(c, @)]
         /\ Returns(f.pkg, c)
         /\ raced' = IF f.field = "reason" /\ Place(f.g, f.field) # 0
                     THEN raced \cup {f.g} ELSE raced
  /\ next_col' = next_col + 1
  /\ stk' = Tail(stk)
  /\ UNCHANGED <<slots, next_grp, reason, gone, freed>>

\* arpc_invoke fails: nothing is cached, and the accessor returns NULL or 0.
FetchFails ==
  /\ LoseReplies /\ Fetching
  /\ stk' = Tail(stk)
  /\ UNCHANGED <<tables, next_col, reason, gone, freed, held, raced>>

-----------------------------------------------------------------------------
\* alpm_pkg_set_reason goes out.
SetReason(p) ==
  /\ MayCall(p)
  /\ stk # <<>> => SetsNested
  /\ stk' = <<[op |-> "set_reason", pkg |-> p, applied |-> FALSE]>> \o stk
  /\ UNCHANGED <<tables, next_col, reason, gone, freed, held, raced>>

Setting(applied) ==
  stk # <<>> /\ Head(stk).op = "set_reason" /\ Head(stk).applied = applied

\* The groups whose reasons are being fetched by the stubs that wait.
BeingRead ==
  {stk[i].g : i \in {j \in DOMAIN stk : stk[j].op = "fetch" /\ stk[j].field = "reason"}}

\* The package's group, if it has one.
GroupOf(p) == IF p \in DOMAIN slots THEN {slots[p].g} ELSE {}

\* libalpm changes the reason, or fails to.  (libalpm is external.)
Apply(r) ==
  /\ Setting(FALSE)
  /\ reason' = [reason EXCEPT ![Head(stk).pkg] = r]
  /\ stk' = [stk EXCEPT ![1].applied = TRUE]
  /\ raced' = raced \cup (BeingRead \cap GroupOf(Head(stk).pkg))
  /\ UNCHANGED <<tables, next_col, gone, freed, held>>

\* Mutant: every column of the group goes.
DropColumnAll(p, f) ==
  IF p \in DOMAIN slots
  THEN LET g == slots[p].g
       IN  /\ groups' = [groups EXCEPT ![g].cols = <<>>]
           /\ freed' = freed \cup {c.n : c \in ToSet(groups[g].cols)}
  ELSE UNCHANGED <<groups, freed>>

\* Mutant: the column of the newest group that lists the package goes.
DropColumnNewest(p, f) ==
  LET in == {g \in DOMAIN groups : p \in ToSet(groups[g].ids)}
      g  == CHOOSE x \in in : \A y \in in : y <= x
  IN  IF in # {} /\ Place(g, f) # 0
      THEN /\ groups' = [groups EXCEPT ![g].cols = RemoveAt(@, Place(g, f))]
           /\ freed' = freed \cup {groups[g].cols[Place(g, f)].n}
      ELSE UNCHANGED <<groups, freed>>

\* drop_column: the first column of the field in the package's group goes.
DropColumn(p, f) ==
  IF p \in DOMAIN slots /\ Place(slots[p].g, f) # 0
  THEN LET g == slots[p].g
       IN  /\ groups' = [groups EXCEPT ![g].cols = RemoveAt(@, Place(g, f))]
           /\ freed' = freed \cup {groups[g].cols[Place(g, f)].n}
  ELSE UNCHANGED <<groups, freed>>

\* The reply: the package's column of reasons is dropped, whatever the call
\* returned.
SetReasonReply ==
  /\ Setting(TRUE)
  /\ DropColumn(Head(stk).pkg, "reason")
  /\ stk' = Tail(stk)
  /\ UNCHANGED <<slots, next_grp, next_col, reason, gone, held, raced>>

\* arpc_invoke fails, before or after libalpm carried the call out.
SetReasonLost ==
  /\ LoseReplies
  /\ \E applied \in BOOLEAN : Setting(applied)
  /\ stk' = Tail(stk)
  /\ raced' = raced \cup GroupOf(Head(stk).pkg)
  /\ UNCHANGED <<tables, next_col, reason, gone, freed, held>>

-----------------------------------------------------------------------------
\* The groups of a root: the first member speaks for all.
GroupsOf(r) == {g \in DOMAIN groups : Root[groups[g].ids[1]] = r}

\* free_groups_of: the root's groups, their columns, and its packages' slots.
FreeGroupsOf(r) ==
  /\ groups' = [g \in DOMAIN groups \ GroupsOf(r) |-> groups[g]]
  /\ freed' = freed \cup UNION {{c.n : c \in ToSet(groups[g].cols)} : g \in GroupsOf(r)}
  /\ slots' = [p \in {q \in DOMAIN slots : Root[q] # r} |-> slots[p]]

\* The stub of alpm_release, for a handle no stub under way is about: nothing is
\* freed if its reply is lost.
Release(r, lost) ==
  /\ r \notin gone
  /\ Len(stk) < MaxDepth
  /\ \A i \in DOMAIN stk : Root[stk[i].pkg] # r
  /\ gone' = gone \cup {r}
  /\ held' = {h \in held : Root[h[2]] # r}
  /\ IF lost THEN LoseReplies /\ UNCHANGED <<groups, slots, freed>>
     ELSE FreeGroupsOf(r)
  /\ UNCHANGED <<next_grp, next_col, stk, reason, raced>>

Next ==
  \/ \E L \in Lists : BuildList(L)
  \/ \E p \in Pkgs, f \in Fields : FieldCached(p, f) \/ FieldFetch(p, f)
  \/ ReadMember \/ FetchReply \/ FetchFails
  \/ \E p \in Pkgs : SetReason(p)
  \/ \E r \in {0, 1} : Apply(r)
  \/ SetReasonReply \/ SetReasonLost
  \/ \E r \in {Root[p] : p \in Pkgs}, lost \in BOOLEAN : Release(r, lost)

Spec == Init /\ [][Next]_vars

-----------------------------------------------------------------------------
(* Properties.                                                             *)

Answers == Seq(Pkgs \X {0, 1})
Columns == [n : Nat \ {0}, field : Fields, vals : Answers]
Fetches == [op : {"fetch"}, pkg : Pkgs, field : Fields, g : Nat, vals : Answers]
Settings == [op : {"set_reason"}, pkg : Pkgs, applied : BOOLEAN]

\* The variables have their types: groups hold columns as long as their member
\* lists, and a slot names a place in a group that is there.
TypeOK ==
  /\ next_grp \in Nat \ {0} /\ next_col \in Nat \ {0}
  /\ groups \in [DOMAIN groups -> [ids : Seq(Pkgs), cols : Seq(Columns)]]
  /\ DOMAIN groups \subseteq 1 .. next_grp - 1
  /\ \A g \in DOMAIN groups :
       /\ groups[g].ids # <<>>
       /\ \A c \in ToSet(groups[g].cols) :
            c.n < next_col /\ Len(c.vals) = Len(groups[g].ids)
  /\ slots \in [DOMAIN slots -> [g : DOMAIN groups, i : Nat]]
  /\ DOMAIN slots \subseteq Pkgs
  /\ \A p \in DOMAIN slots : slots[p].i \in DOMAIN groups[slots[p].g].ids
  /\ stk \in Seq(Fetches \cup Settings)
  /\ reason \in [Pkgs -> {0, 1}]
  /\ freed \subseteq 1 .. next_col - 1
  /\ held \subseteq (1 .. next_col - 1) \X Pkgs
  /\ raced \subseteq Nat

\* "A member that already has a group keeps it" (group_new): whatever lists it was
\* met in, and in whatever order, a package reads its own entry of every column
\* it may be answered from, and no group is left that nobody would ask.
ReadsOwnEntry ==
  /\ TypeOK
  /\ \A p \in DOMAIN slots :
       LET G == groups[slots[p].g]
       IN  /\ G.ids[slots[p].i] = p
           /\ \A c \in ToSet(G.cols) : c.vals[slots[p].i][1] = p
  /\ \A g \in DOMAIN groups : \E p \in DOMAIN slots : slots[p].g = g

\* "So nothing handed out is freed" (drop_column): a string a caller got stays
\* valid while the package's handle lives, through every set_reason and nested
\* fetch.
HeldStringsValid == \A h \in held : h[1] \notin freed

\* The packages whose reason would be answered, and wrongly.
Stale ==
  {p \in DOMAIN slots :
     /\ Root[p] \notin gone
     /\ Place(slots[p].g, "reason") # 0
     /\ LET G == groups[slots[p].g]
        IN  G.cols[Place(slots[p].g, "reason")].vals[slots[p].i] # Value(p, "reason")}

\* "Merely read that field afresh too" (drop_column): between calls, no package is
\* answered with the reason it had before a change, except in a group where a callback
\* fetched the reasons too, or changed one, while they were being fetched, or where the
\* reply to a change was lost.
StaleOnlyIfRaced == stk = <<>> => {slots[p].g : p \in Stale} \subseteq raced

=============================================================================
