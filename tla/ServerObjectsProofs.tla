------------------------ MODULE ServerObjectsProofs -------------------------
(***************************************************************************)
(* Proofs about the ids of libalpm's objects, for any addresses, names,    *)
(* callbacks and number of ids: what the handlers, hooks and trampolines   *)
(* of the server do to the table while libalpm allocates and frees.        *)
(***************************************************************************)
EXTENDS ServerObjects, TLAPS, WellFoundedInduction, FiniteSetTheorems

\* The table's own theorems, for the addresses of all kinds and a realloc that works.
TP == INSTANCE HandleTableProofs
      WITH Ptr <- HandlePtr \cup DbPtr \cup PkgPtr, AllocFails <- FALSE

-----------------------------------------------------------------------------
(* The table the specification uses and the one the theorems are about are *)
(* the same: operator by operator.                                         *)

\* The same ids, tags, depths and tables.
LEMMA SameConstants ==
  /\ T!NoId = TP!NoId /\ T!Depth = TP!Depth /\ T!ParentTag = TP!ParentTag
  /\ T!Table = TP!Table /\ T!Tags = TP!Tags /\ T!Id = TP!Id
  BY Zenon DEF T!NoId, TP!NoId, T!Depth, TP!Depth, T!ParentTag, TP!ParentTag,
     T!Table, TP!Table, T!Tags, TP!Tags, T!Id, TP!Id

\* The same slots.
LEMMA SameSlot == T!Slot = TP!Slot
  BY SameConstants, Zenon DEF T!Slot, TP!Slot

\* The same owner of an id.
LEMMA SameUp ==
  ASSUME NEW t, NEW i
  PROVE  T!Up(t, i) = TP!Up(t, i)
  BY SameConstants, Zenon DEF T!Up, TP!Up

\* The same chain of owners.
LEMMA SameChain ==
  ASSUME NEW t, NEW i
  PROVE  T!Chain(t, i) = TP!Chain(t, i)
  BY Zenon DEF T!Chain, TP!Chain, T!Up, TP!Up, T!NoId, TP!NoId

\* The same relation of being below.
LEMMA SameUnder ==
  ASSUME NEW t, NEW i, NEW o
  PROVE  T!Under(t, i, o) <=> TP!Under(t, i, o)
  BY SameChain, Zenon DEF T!Under, TP!Under

\* The same subtrees.
LEMMA SameBelow ==
  ASSUME NEW t, NEW o
  PROVE  T!Below(t, o) = TP!Below(t, o)
  BY SameUnder, Zenon DEF T!Below, TP!Below

\* The same id of an object, in find_ptr.
LEMMA SameFind ==
  ASSUME NEW t, NEW p, NEW tag
  PROVE  T!FindPtr(t, p, tag) = TP!FindPtr(t, p, tag)
  BY SameConstants, Zenon DEF T!FindPtr, TP!FindPtr

\* The same ancestor of a kind, in arpc_ancestor.
LEMMA SameAncestor ==
  ASSUME NEW t, NEW i, NEW tag
  PROVE T!Ancestor(t, i, tag) = TP!Ancestor(t, i, tag)
  BY Zenon DEF T!Ancestor, TP!Ancestor, T!Top, TP!Top, T!NoId, TP!NoId, T!Chain, TP!Chain, T!Up, TP!Up

\* The same slot for an object that is put again.
LEMMA SameRefiled ==
  ASSUME NEW t, NEW have, NEW o
  PROVE  T!Refiled(t, have, o) = TP!Refiled(t, have, o)
  BY SameUnder, SameConstants, Zenon DEF T!Refiled, TP!Refiled

\* The same next id.
LEMMA SameNewId ==
  ASSUME NEW seq, NEW root, NEW tag, NEW o
  PROVE  T!NewId(seq, root, tag, o) = TP!NewId(seq, root, tag, o)
  BY SameConstants, Zenon DEF T!NewId, TP!NewId

\* The same table with one slot more.
LEMMA SameWith ==
  ASSUME NEW t, NEW id, NEW slot
  PROVE  T!With(t, id, slot) = TP!With(t, id, slot)
  BY SameConstants, Zenon DEF T!With, TP!With

\* The same outcome of a put and of an adoption.
LEMMA SameFiled ==
  ASSUME NEW st, NEW p, NEW tag, NEW o, NEW release
  PROVE  T!Filed(st, p, tag, o, release) = TP!Filed(st, p, tag, o, release)
  BY SameFind, SameRefiled, SameNewId, SameWith, SameConstants, Zenon DEF T!Filed, TP!Filed

\* The same change of the table.
LEMMA SameBecomes ==
  ASSUME NEW st
  PROVE  T!Becomes(st) <=> TP!Becomes(st)
  BY Zenon DEF T!Becomes, TP!Becomes

\* The same drop of ids.
LEMMA SameDropped ==
  ASSUME NEW S
  PROVE  T!Dropped(S) <=> TP!Dropped(S)
  BY Zenon DEF T!Dropped, TP!Dropped, T!Without, TP!Without

\* The same answer to arpc.set_callback.
LEMMA SameCbSet ==
  ASSUME NEW h, NEW enabled
  PROVE  T!CbSet(h, enabled) <=> TP!CbSet(h, enabled)
  BY Zenon DEF T!CbSet, TP!CbSet, T!Resolves, TP!Resolves, T!NoId, TP!NoId

\* The same empty table.
LEMMA SameInit == T!Init <=> TP!Init
  BY Zenon DEF T!Init, TP!Init, T!NoId, TP!NoId

\* The same type invariant.
LEMMA SameTypeOK == T!TypeOK <=> TP!TypeOK
  BY SameSlot, SameConstants, Zenon DEF T!TypeOK, TP!TypeOK

\* The same demand that owners be live.
LEMMA SameOwners == T!OwnersLive <=> TP!OwnersLive
  BY SameConstants, Zenon DEF T!OwnersLive, TP!OwnersLive, T!WellFiled, TP!WellFiled

\* The same demand on the root.
LEMMA SameRoot == T!RootIsSubtree <=> TP!RootIsSubtree
  BY SameBelow, Zenon DEF T!RootIsSubtree, TP!RootIsSubtree

\* The same demand of one id per object.
LEMMA SameOne == T!OneIdPerObject <=> TP!OneIdPerObject
  BY Zenon DEF T!OneIdPerObject, TP!OneIdPerObject

\* The same demand on adopted records.
LEMMA SameAdopted == T!AdoptedHeld <=> TP!AdoptedHeld
  BY Zenon DEF T!AdoptedHeld, TP!AdoptedHeld

\* Induction for a set of numbers.
LEMMA Inductive ==
  ASSUME NEW S, 0 \in S, \A k \in Nat : k \in S => k + 1 \in S
  PROVE  Nat \subseteq S
  <1> DEFINE R == {ss \in Nat \X Nat : ss[1] < ss[2]}
             B == {k \in Nat : k \notin S}
  <1>1. R = OpToRel(<, Nat)
    BY DEF OpToRel
  <1>2. IsWellFoundedOn(R, Nat)
    BY <1>1, NatLessThanWellFounded, Zenon
  <1>3. SUFFICES ASSUME B # {} PROVE FALSE
    OBVIOUS
  <1>4. PICK x \in B : \A y \in B : ~ (<<y, x>> \in R)
    <2>1. B \subseteq Nat
      OBVIOUS
    <2> HIDE DEF R, B
    <2> QED BY <1>2, <1>3, <2>1, WFMin
  <1>5. x # 0 /\ x - 1 \in Nat /\ x - 1 \notin B
    <2>1. x # 0 /\ x \in Nat
      BY <1>4
    <2>2. x - 1 \in Nat /\ <<x - 1, x>> \in R
      BY <2>1
    <2>3. QED
      BY <1>4, <2>1, <2>2
  <1>6. QED
    BY <1>4, <1>5

\* The tables put_list goes through: one for each prefix of the list.
LEMMA ListedIs ==
  ASSUME NEW list, NEW tag, NEW o, Len(list) \in Nat
  PROVE  \E f : /\ Listed(list, tag, o) = f[Len(list)]
                /\ f[0] = T!Table
                /\ \A k \in 1 .. Len(list) : f[k] = Put(f[k - 1], list[k], tag, o)
  <1> DEFINE Is(f, n) == f = [k \in 0 .. n |-> IF k = 0 THEN T!Table
                                               ELSE Put(f[k - 1], list[k], tag, o)]
             S == {n \in Nat : \E f : Is(f, n)}
             N == Len(list)
             st == CHOOSE f : Is(f, N)
  <1>1. 0 \in S
    <2> DEFINE f == [k \in 0 .. 0 |-> T!Table]
    <2>1. Is(f, 0)
      OBVIOUS
    <2>2. QED
      BY <2>1
  <1>2. ASSUME NEW n \in Nat, n \in S
        PROVE  n + 1 \in S
    <2>1. PICK f : Is(f, n)
      BY <1>2
    <2> DEFINE g == [k \in 0 .. n + 1 |-> IF k = n + 1 THEN Put(f[n], list[n + 1], tag, o)
                                          ELSE f[k]]
               g2 == [k \in 0 .. n + 1 |-> IF k = 0 THEN T!Table
                                           ELSE Put(g[k - 1], list[k], tag, o)]
    <2>2. ASSUME NEW k \in 0 .. n + 1 PROVE g[k] = g2[k]
      <3>1. CASE k = n + 1
        BY <3>1
      <3>2. CASE k # n + 1
        <4>1. k \in 0 .. n
          BY <3>2
        <4>2. f[k] = IF k = 0 THEN T!Table ELSE Put(f[k - 1], list[k], tag, o)
          BY <4>1, <2>1
        <4>3. k # 0 => k - 1 \in 0 .. n + 1 /\ k - 1 # n + 1
          BY <4>1
        <4>4. QED
          BY <3>2, <4>1, <4>2, <4>3
      <3>3. QED
        BY <3>1, <3>2
    <2>3. g = g2
      BY <2>2
    <2>4. Is(g, n + 1)
      BY <2>3
    <2>5. QED
      <3> HIDE DEF Is, g
      <3> QED BY <2>4
  <1>3. N \in S
    <2> HIDE DEF S
    <2> QED BY <1>1, <1>2, Inductive
  <1>4. \E f : Is(f, N)
    BY <1>3
  <1>5. Is(st, N)
    <2> HIDE DEF Is
    <2> QED BY <1>4
  <1>6. Listed(list, tag, o) = st[N]
    BY DEF Listed
  <1>7. st[0] = T!Table /\ \A k \in 1 .. N : st[k] = Put(st[k - 1], list[k], tag, o)
    <2> HIDE DEF st
    <2> QED BY <1>5
  <1>8. QED
    <2> HIDE DEF st
    <2> QED BY <1>6, <1>7

\* A sound table, its counter and its root, and nothing else.
SoundRec(st) ==
  TP!Sound(st) /\ st = [tab |-> st.tab, seq |-> st.seq, root |-> st.root]

\* o may own an object of this tag in the table t.
Owns(t, o, tag) ==
  \/ o = TP!NoId /\ tag = "HANDLE"
  \/ /\ o \in DOMAIN t /\ tag \in {"DB", "PKG", "NONE"}
     /\ TP!Depth[t[o].tag] < TP!Depth[tag]

\* The table u has, besides the slots of t, only slots of `tag` for objects of P,
\* with nothing to release.
Adds(t, u, P, tag) ==
  /\ TP!Grows(t, u)
  /\ \A i \in DOMAIN u \ DOMAIN t : u[i].ptr \in P /\ u[i].tag = tag /\ ~u[i].release

\* arpc_handle_put, as a handler calls it.
LEMMA PutSound ==
  ASSUME NEW st, SoundRec(st), NEW p \in HandlePtr \cup DbPtr \cup PkgPtr,
         NEW tag \in {"HANDLE", "DB", "PKG"}, NEW o, Owns(st.tab, o, tag)
  PROVE  /\ SoundRec(Put(st, p, tag, o))
         /\ Adds(st.tab, Put(st, p, tag, o).tab, {p}, tag)
  <1>r. PICK r \in BOOLEAN : r = FALSE
    OBVIOUS
  <1> DEFINE new == TP!Filed(st, p, tag, o, r)
  <1>0. new = Put(st, p, tag, o)
    BY <1>r, SameFiled, Zenon DEF Put
  <1>1. /\ tag \in TP!Tags /\ (r => tag = "NONE")
        /\ TP!Sound(st) /\ st = [tab |-> st.tab, seq |-> st.seq, root |-> st.root]
        /\ \/ o = TP!NoId /\ tag = "HANDLE"
           \/ /\ o \in DOMAIN st.tab
              /\ tag # "HANDLE" => TP!Depth[st.tab[o].tag] < TP!Depth[tag]
              /\ tag = "HANDLE" => TP!FindPtr(st.tab, p, tag) # TP!NoId
    BY <1>r DEF TP!Tags, SoundRec, Owns
  <1>2. /\ TP!Sound(new)
        /\ DOMAIN st.tab \subseteq DOMAIN new.tab
        /\ \A i \in DOMAIN st.tab : /\ new.tab[i].ptr = st.tab[i].ptr
                                    /\ new.tab[i].tag = st.tab[i].tag
                                    /\ new.tab[i].release = st.tab[i].release
        /\ TP!FindPtr(st.tab, p, tag) # TP!NoId => DOMAIN new.tab = DOMAIN st.tab
        /\ TP!FindPtr(st.tab, p, tag) = TP!NoId =>
              \E id \in DOMAIN new.tab :
                /\ DOMAIN new.tab = DOMAIN st.tab \cup {id}
                /\ id \notin DOMAIN st.tab
                /\ new.tab[id].ptr = p
                /\ new.tab[id].tag = tag
                /\ new.tab[id].release = r
    BY <1>1, TP!FiledSound, BoundAssumption
  <1>3. new = [tab |-> new.tab, seq |-> new.seq, root |-> new.root]
    BY <1>1 DEF TP!Filed
  <1> HIDE DEF new
  <1>4. SoundRec(new)
    BY <1>2, <1>3 DEF SoundRec
  <1>5. Adds(st.tab, new.tab, {p}, tag)
    BY <1>r, <1>2 DEF Adds, TP!Grows
  <1>6. QED
    BY <1>0, <1>4, <1>5

\* arpc_handle_adopt of a record the table does not have: one slot, to be released.
LEMMA KeptSound ==
  ASSUME NEW st, SoundRec(st), NEW p \in HandlePtr \cup DbPtr \cup PkgPtr,
         NEW o, Owns(st.tab, o, "NONE"),
         \A i \in DOMAIN st.tab : st.tab[i].ptr = p => st.tab[i].tag # "NONE"
  PROVE  LET new == Kept(st, p, o)
         IN  /\ TP!Sound(new) /\ TP!Grows(st.tab, new.tab)
             /\ \E id : /\ DOMAIN new.tab = DOMAIN st.tab \cup {id}
                        /\ id \notin DOMAIN st.tab
                        /\ new.tab[id].ptr = p
                        /\ new.tab[id].tag = "NONE"
                        /\ new.tab[id].release
  <1>r. PICK r \in BOOLEAN : r = TRUE
    OBVIOUS
  <1> DEFINE new == TP!Filed(st, p, "NONE", o, r)
  <1>0. new = Kept(st, p, o)
    BY <1>r, SameFiled, Zenon DEF Kept
  <1>1. /\ "NONE" \in TP!Tags /\ o \in DOMAIN st.tab
        /\ TP!Sound(st) /\ st = [tab |-> st.tab, seq |-> st.seq, root |-> st.root]
        /\ TP!Depth[st.tab[o].tag] < TP!Depth["NONE"]
    BY DEF TP!Tags, SoundRec, Owns
  <1>2. TP!FindPtr(st.tab, p, "NONE") = TP!NoId
    BY DEF TP!FindPtr
  <1>3. /\ TP!Sound(new)
        /\ DOMAIN st.tab \subseteq DOMAIN new.tab
        /\ \A i \in DOMAIN st.tab : /\ new.tab[i].ptr = st.tab[i].ptr
                                    /\ new.tab[i].tag = st.tab[i].tag
                                    /\ new.tab[i].release = st.tab[i].release
        /\ TP!FindPtr(st.tab, p, "NONE") = TP!NoId =>
              \E id \in DOMAIN new.tab :
                /\ DOMAIN new.tab = DOMAIN st.tab \cup {id}
                /\ id \notin DOMAIN st.tab
                /\ new.tab[id].ptr = p
                /\ new.tab[id].tag = "NONE"
                /\ new.tab[id].release = r
    BY <1>1, TP!FiledSound, BoundAssumption
  <1> HIDE DEF new
  <1>4. TP!Grows(st.tab, new.tab)
    BY <1>3 DEF TP!Grows
  <1>5. QED
    BY <1>r, <1>0, <1>2, <1>3, <1>4

\* An owner stays one as the table grows.
LEMMA OwnsGrown ==
  ASSUME NEW t, NEW u, TP!Grows(t, u), NEW o, NEW tag, Owns(t, o, tag)
  PROVE  Owns(u, o, tag)
  BY DEF Owns, TP!Grows

\* The puts of a list add up.
LEMMA AddsMore ==
  ASSUME NEW t, NEW u, NEW v, NEW P, NEW tag, NEW p \in P,
         Adds(t, u, P, tag), Adds(u, v, {p}, tag)
  PROVE  Adds(t, v, P, tag)
  BY DEF Adds, TP!Grows

\* put_list: after the last of its objects the table is sound, and has at most
\* gained slots for them.
LEMMA ListedSound ==
  ASSUME NEW P, P \subseteq HandlePtr \cup DbPtr \cup PkgPtr, NEW list \in Seq(P),
         NEW tag \in {"HANDLE", "DB", "PKG"}, NEW o,
         SoundRec(T!Table), Owns(tab, o, tag)
  PROVE  /\ SoundRec(Listed(list, tag, o))
         /\ Adds(tab, Listed(list, tag, o).tab, P, tag)
  <1> DEFINE N == Len(list)
  <1>1. N \in Nat /\ \A k \in 1 .. N : list[k] \in P
    OBVIOUS
  <1>2. PICK f : /\ Listed(list, tag, o) = f[N]
                 /\ f[0] = T!Table
                 /\ \A k \in 1 .. N : f[k] = Put(f[k - 1], list[k], tag, o)
    BY <1>1, ListedIs
  <1> DEFINE S == {k \in Nat : k <= N => SoundRec(f[k]) /\ Adds(tab, f[k].tab, P, tag)}
  <1>3. 0 \in S
    <2>1. T!Table.tab = tab
      BY DEF T!Table
    <2>2. Adds(tab, tab, P, tag)
      BY DEF Adds, TP!Grows
    <2>3. QED
      BY <1>2, <2>1, <2>2
  <1>4. ASSUME NEW k \in Nat, k \in S
        PROVE  k + 1 \in S
    <2> SUFFICES ASSUME k + 1 <= N
                 PROVE  SoundRec(f[k + 1]) /\ Adds(tab, f[k + 1].tab, P, tag)
      OBVIOUS
    <2>1. SoundRec(f[k]) /\ Adds(tab, f[k].tab, P, tag)
      BY <1>1, <1>4
    <2>2. k + 1 \in 1 .. N /\ (k + 1) - 1 = k
      BY <1>1
    <2>3. f[k + 1] = Put(f[k], list[k + 1], tag, o) /\ list[k + 1] \in P
      BY <1>1, <1>2, <2>2
    <2>4. Owns(f[k].tab, o, tag)
      BY <2>1, OwnsGrown DEF Adds
    <2>5. SoundRec(f[k + 1]) /\ Adds(f[k].tab, f[k + 1].tab, {list[k + 1]}, tag)
      BY <2>1, <2>3, <2>4, PutSound
    <2>6. QED
      BY <2>1, <2>3, <2>5, AddsMore
  <1>5. N \in S
    <2> HIDE DEF S
    <2> QED BY <1>1, <1>3, <1>4, Inductive
  <1>6. QED
    BY <1>1, <1>2, <1>5

\* A list of the objects of a set.
LEMMA ListOf ==
  ASSUME NEW P, P \subseteq HandlePtr \cup DbPtr \cup PkgPtr, NEW list \in SetToSeqs(P)
  PROVE  list \in Seq(P)
  <1>1. IsFiniteSet(P)
    BY AddressAssumption, FS_Subset
  <1>2. Cardinality(P) \in Nat
    BY <1>1, FS_CardinalityType
  <1>3. list \in [1 .. Cardinality(P) -> P]
    BY DEF SetToSeqs
  <1>4. QED
    BY <1>2, <1>3

\* A handler that returns objects keeps the table's invariant, and leaves the
\* ghosts as they are: nothing was freed and nothing dropped.
LEMMA ReturnsStep ==
  ASSUME TP!IInv, dangling \subseteq Ids, stray \subseteq Ids,
         NEW P, P \subseteq HandlePtr \cup DbPtr \cup PkgPtr,
         NEW tag \in {"HANDLE", "DB", "PKG"}, NEW o, Owns(tab, o, tag),
         Returns(P, tag, o)
  PROVE  /\ TP!IInv'
         /\ Adds(tab, tab', P, tag)
         /\ dangling' = dangling /\ stray' = stray /\ forgotten' = forgotten /\ refused' = refused
  <1>1. PICK list \in SetToSeqs(P) : T!Becomes(Listed(list, tag, o))
    BY DEF Returns, Files
  <1> DEFINE new == Listed(list, tag, o)
  <1>2. TP!Sound(T!Table)
    BY TP!IInvSound, BoundAssumption, SameConstants
  <1>3. SoundRec(T!Table)
    BY <1>2 DEF SoundRec, T!Table
  <1>4. SoundRec(new) /\ Adds(tab, new.tab, P, tag)
    BY <1>3, ListOf, ListedSound
  <1> HIDE DEF new
  <1>5. TP!Becomes(new) /\ tab' = new.tab
    BY <1>1, SameBecomes DEF new, T!Becomes
  <1>6. owed' = owed \cup {new.tab[i].ptr :
                   i \in {j \in DOMAIN new.tab \ DOMAIN tab : new.tab[j].release}}
    <2>1. {j \in DOMAIN new.tab \ DOMAIN tab : new.tab[j].release} = {}
      BY <1>4 DEF Adds
    <2>2. owed' = owed
      BY DEF Returns
    <2>3. QED
      BY <2>1, <2>2
  <1>7. TP!IInv'
    <2>1. TP!Sound(new) /\ TP!Grows(tab, new.tab)
      BY <1>4 DEF SoundRec, Adds
    <2>2. UNCHANGED <<cbreg, up>>
      BY DEF Returns
    <2>3. QED
      BY <1>5, <1>6, <2>1, <2>2, TP!GrowKeepsIInv, BoundAssumption
  <1>8. Ids \subseteq DOMAIN tab'
    BY <1>4, <1>5 DEF Adds, TP!Grows, Ids
  <1>9. dangling' = dangling /\ stray' = stray /\ forgotten' = forgotten /\ refused' = refused
    BY <1>8 DEF Returns, Freed, FreedBut, Ids
  <1>10. QED
    BY <1>4, <1>5, <1>7, <1>9

-----------------------------------------------------------------------------
(* What drops take.                                                        *)

\* S takes what hangs from its members with it.
Closed(S) == \A i \in Ids : tab[i].owner \in S => i \in S

\* Every id but a handle's has a live owner, and an object of one kind one id.
LEMMA TreeFacts ==
  ASSUME TP!IInv
  PROVE  /\ \A i \in Ids : tab[i].tag # "HANDLE" => tab[i].owner \in Ids
         /\ \A i, j \in Ids : tab[i].ptr = tab[j].ptr /\ tab[i].tag = tab[j].tag => i = j
         /\ TP!Tree(tab)
  <1>1. TP!Sound(TP!Table) /\ TP!Table.tab = tab
    BY TP!IInvSound, BoundAssumption DEF TP!Table
  <1>2. TP!Tree(tab)
    BY <1>1 DEF TP!Sound
  <1>3. QED
    BY <1>2 DEF TP!IInv, TP!OwnersLive, TP!WellFiled, TP!OneIdPerObject, Ids

\* The subtree of an id: closed, and made of kinds further down the tree.
LEMMA BelowFacts ==
  ASSUME TP!IInv, NEW o \in Ids
  PROVE  /\ o \in T!Below(tab, o) /\ T!Below(tab, o) \subseteq Ids
         /\ Closed(T!Below(tab, o))
         /\ \A i \in T!Below(tab, o) : i # o => TP!Depth[tab[o].tag] < TP!Depth[tab[i].tag]
  <1>1. TP!Tree(tab)
    BY TreeFacts
  <1>2. /\ o \in TP!Below(tab, o)
        /\ TP!Below(tab, o) \subseteq DOMAIN tab
        /\ \A i \in DOMAIN tab : tab[i].owner \in TP!Below(tab, o) => i \in TP!Below(tab, o)
    BY <1>1, TP!BelowClosed, BoundAssumption DEF Ids
  <1>3. ASSUME NEW i \in TP!Below(tab, o), i # o
        PROVE  TP!Depth[tab[o].tag] < TP!Depth[tab[i].tag]
    <2>1. i \in DOMAIN tab /\ o \in TP!Chain(tab, i)
      BY <1>3 DEF TP!Below, TP!Under
    <2>2. QED
      BY <1>1, <1>3, <2>1, TP!ChainDepth, BoundAssumption
  <1>4. QED
    BY <1>2, <1>3, SameBelow DEF Closed, Ids

\* Below a database or a package are only packages and records.
LEMMA BelowKinds ==
  ASSUME TP!IInv, NEW o \in Ids, tab[o].tag \in {"DB", "PKG"}
  PROVE  \A i \in T!Below(tab, o) : i # o => tab[i].tag \notin {"HANDLE", "DB"}
  BY BelowFacts DEF TP!Depth

\* arpc_handle_drop_under: the subtree without its root is closed too.
LEMMA UnderFacts ==
  ASSUME TP!IInv, NEW o \in Ids
  PROVE  Closed(T!Below(tab, o) \ {o})
  <1> SUFFICES ASSUME NEW i \in Ids, tab[i].owner \in T!Below(tab, o) \ {o}
               PROVE  i \in T!Below(tab, o) \ {o}
    BY DEF Closed
  <1>1. i \in T!Below(tab, o)
    BY BelowFacts DEF Closed
  <1>2. ASSUME i = o PROVE FALSE
    <2>1. tab[o].owner \in Ids /\ TP!Depth[tab[o].tag] < TP!Depth[tab[tab[o].owner].tag]
      BY <1>2, BelowFacts
    <2>2. /\ TP!Depth[tab[tab[o].owner].tag] < TP!Depth[tab[o].tag]
          /\ TP!Depth[tab[o].tag] \in 0 .. 3 /\ TP!Depth[tab[tab[o].owner].tag] \in 0 .. 3
      <3>1. TP!NoId \notin TP!Id
        BY DEF TP!NoId, TP!Id
      <3>2. tab[o].owner # TP!NoId
        BY <2>1, <3>1, TreeFacts DEF TP!Tree, Ids
      <3>3. TP!Up(tab, o) = tab[o].owner
        BY DEF TP!Up, Ids
      <3>4. QED
        BY <2>1, <3>2, <3>3, TP!OneUp, TreeFacts, BoundAssumption DEF Ids
    <2>3. QED
      BY <2>1, <2>2
  <1>3. QED
    BY <1>1, <1>2

\* find_ptr finds the one id of an object and a kind.
LEMMA FindFacts ==
  ASSUME TP!IInv, NEW p, NEW tag
  PROVE  /\ \A i \in Ids : tab[i].ptr = p /\ tab[i].tag = tag => T!FindPtr(tab, p, tag) = i
         /\ T!FindPtr(tab, p, tag) # T!NoId =>
              /\ T!FindPtr(tab, p, tag) \in Ids
              /\ tab[T!FindPtr(tab, p, tag)].ptr = p
              /\ tab[T!FindPtr(tab, p, tag)].tag = tag
  <1> DEFINE have == TP!FindPtr(tab, p, tag)
  <1>1. TP!Tree(tab)
    BY TreeFacts
  <1>2. /\ have # TP!NoId => have \in DOMAIN tab /\ tab[have].ptr = p /\ tab[have].tag = tag
        /\ have = TP!NoId => ~ \E i \in DOMAIN tab : tab[i].ptr = p /\ tab[i].tag = tag
    BY <1>1, TP!FindPtrSpec, BoundAssumption
  <1> HIDE DEF have
  <1>3. \A i \in Ids : tab[i].ptr = p /\ tab[i].tag = tag => have = i
    BY <1>2, TreeFacts DEF Ids
  <1>4. T!FindPtr(tab, p, tag) = have /\ T!NoId = TP!NoId
    BY SameFind, SameConstants DEF have
  <1>5. QED
    BY <1>2, <1>3, <1>4 DEF Ids

\* The drops by pointer: closed, every id of an object of P among them, and
\* nothing but those and what is below.
LEMMA ByPtrFacts ==
  ASSUME TP!IInv, NEW P, NEW tag \in {"DB", "PKG"}
  PROVE  /\ ByPtr(P, tag) \subseteq Ids
         /\ Closed(ByPtr(P, tag))
         /\ \A i \in Ids : tab[i].ptr \in P /\ tab[i].tag = tag => i \in ByPtr(P, tag)
         /\ \A i \in ByPtr(P, tag) : \/ tab[i].ptr \in P /\ tab[i].tag = tag
                                     \/ tab[i].tag \notin {"HANDLE", "DB"}
  <1> DEFINE of(p) == T!FindPtr(tab, p, tag)
             Q == {p \in P : of(p) # T!NoId}
  <1>1. \A i : i \in ByPtr(P, tag) <=> \E p \in Q : i \in T!Below(tab, of(p))
    BY DEF ByPtr
  <1>2. \A p \in Q : of(p) \in Ids /\ tab[of(p)].ptr = p /\ tab[of(p)].tag = tag
    BY FindFacts
  <1>3. ByPtr(P, tag) \subseteq Ids
    BY <1>1, <1>2, BelowFacts
  <1>4. ASSUME NEW i \in Ids, tab[i].owner \in ByPtr(P, tag)
        PROVE  i \in ByPtr(P, tag)
    <2>1. PICK p \in Q : tab[i].owner \in T!Below(tab, of(p))
      BY <1>1, <1>4
    <2>2. i \in T!Below(tab, of(p))
      BY <1>2, <2>1, BelowFacts DEF Closed
    <2>3. QED
      BY <1>1, <2>2
  <1>5. ASSUME NEW i \in Ids, tab[i].ptr \in P, tab[i].tag = tag
        PROVE  i \in ByPtr(P, tag)
    <2>1. of(tab[i].ptr) = i
      BY <1>5, FindFacts
    <2>2. i # T!NoId
      BY TreeFacts DEF TP!Tree, Ids, TP!Id, T!NoId
    <2>3. tab[i].ptr \in Q /\ i \in T!Below(tab, of(tab[i].ptr))
      BY <1>5, <2>1, <2>2, BelowFacts
    <2>4. QED
      BY <1>1, <2>3
  <1>6. ASSUME NEW i \in ByPtr(P, tag)
        PROVE  \/ tab[i].ptr \in P /\ tab[i].tag = tag
               \/ tab[i].tag \notin {"HANDLE", "DB"}
    <2>1. PICK p \in Q : i \in T!Below(tab, of(p))
      BY <1>1
    <2>2. CASE i = of(p)
      BY <1>2, <2>2
    <2>3. CASE i # of(p)
      BY <1>2, <2>1, <2>3, BelowKinds
    <2>4. QED
      BY <2>2, <2>3
  <1>7. QED
    BY <1>3, <1>4, <1>5, <1>6 DEF Closed

\* A handler that drops ids keeps the table's invariant.
LEMMA DropsStep ==
  ASSUME TP!IInv, NEW S, S \subseteq Ids, Closed(S), Drops(S), cbreg' \subseteq cbreg,
         \A h \in S : tab[h].tag = "HANDLE" => h \notin cbreg'
  PROVE  /\ TP!IInv'
         /\ DOMAIN tab' = Ids \ S
         /\ \A i \in DOMAIN tab' : tab'[i] = tab[i]
  <1>1. TP!Dropped(S) /\ UNCHANGED up
    BY SameDropped DEF Drops
  <1>2. TP!IInv'
    BY <1>1, TP!DropKeepsIInv, BoundAssumption DEF Closed, Ids
  <1>3. QED
    BY <1>1, <1>2 DEF TP!Dropped, TP!Without, Ids

-----------------------------------------------------------------------------
(* The invariant.                                                          *)

\* An id's tag says which kind of address its slot holds.
KindInv ==
  \A i \in Ids :
    /\ tab[i].tag \in {"HANDLE", "DB", "PKG", "NONE"}
    /\ tab[i].tag = "HANDLE" => tab[i].ptr \in HandlePtr
    /\ tab[i].tag = "DB" => tab[i].ptr \in DbPtr
    /\ tab[i].tag \in {"PKG", "NONE"} => tab[i].ptr \in PkgPtr

\* Only a package's id can dangle, and every other id names a live object.
LiveInv ==
  /\ stray \subseteq dangling /\ dangling \subseteq Ids
  /\ \A i \in dangling : tab[i].tag = "PKG"
  /\ \A i \in Ids \ dangling :
       /\ tab[i].ptr \in Live
       /\ tab[i].tag = "NONE" <=> heap[tab[i].ptr].origin = "record"

\* Where the objects of each kind of address come from and what they belong to.
HeapInv ==
  /\ Live \subseteq HandlePtr \cup DbPtr \cup PkgPtr
  /\ \A h \in Live \cap HandlePtr : heap[h].origin = "handle" /\ heap[h].home = None
  /\ \A d \in Live \cap DbPtr :
       heap[d].origin \in {"local", "sync"} /\ heap[d].home \in Live \cap HandlePtr
  /\ \A p \in Live \cap PkgPtr :
       \/ /\ heap[p].origin \in {"local", "sync"}
          /\ heap[p].home \in Live \cap DbPtr
          /\ heap[heap[p].home].origin = heap[p].origin
       \/ heap[p].origin \in {"file", "record"} /\ heap[p].home = None
       \/ heap[p].origin = "copy" /\ heap[p].home = None
       \/ /\ heap[p].origin = "copy"
          /\ heap[p].home \in Live \cap PkgPtr
          /\ heap[heap[p].home].origin = "record"
  /\ \A g, h \in Live \cap HandlePtr : g = h

\* What a transaction holds on to is alive, and no two additions share a name.
TransInv ==
  /\ trans = [st |-> trans.st, add |-> trans.add, rem |-> trans.rem]
  /\ \A p \in trans.add : p \in Live \cap PkgPtr /\ heap[p].origin \in {"file", "sync"}
  /\ \A p \in trans.rem : p \in Live \cap PkgPtr /\ heap[p].origin = "copy"
  /\ \A p, q \in trans.add : heap[p].name = heap[q].name => p = q

\* What the hooks and trampolines noted covers what the call will still free.
CallInv ==
  /\ call = [op |-> call.op, dying |-> call.dying, todo |-> call.todo, done |-> call.done]
  /\ call.op \in {"idle", "question", "commit"}
  /\ call.op = "idle" => call = Idle
  /\ call.op = "question" =>
       \A p \in call.dying : /\ p \in Live \cap PkgPtr /\ p \notin trans.rem
                             /\ heap[p].origin = "copy"
  /\ call.op = "commit" =>
       /\ call.todo \subseteq trans.add \cup trans.rem
       /\ \A x \in call.todo, p \in Live \cap PkgPtr :
            heap[p].origin = "local" /\ heap[p].name = heap[x].name => p \in call.dying
       /\ call.done = {} => dangling \subseteq stray

\* The databases without an id are ones libalpm refused to unregister, and alive.
ForgottenInv == forgotten \subseteq refused /\ refused \subseteq Live

\* The inductive invariant.
IInv ==
  /\ TP!IInv
  /\ KindInv /\ LiveInv /\ HeapInv /\ TransInv /\ CallInv /\ ForgottenInv
  /\ StaleOnlyIfStray
  /\ up = TRUE

-----------------------------------------------------------------------------
(* The heap.                                                               *)

\* What a free of P and an allocation of `new` leave where.
LEMMA HeapAt ==
  ASSUME NEW P, NEW new, heap' = Heap(P, new)
  PROVE  /\ DOMAIN heap' = (Live \ P) \cup DOMAIN new
         /\ \A a \in DOMAIN new : heap'[a] = new[a]
         /\ \A a \in Live \ P : a \notin DOMAIN new => heap'[a] = heap[a]
  BY DEF Heap

\* Installed packages are those whose origin says so.
LEMMA InstalledIs ==
  ASSUME HeapInv, NEW N
  PROVE  Installed(N) = {p \in Live \cap PkgPtr : heap[p].origin = "local" /\ heap[p].name \in N}
  <1>1. \A p \in Live \cap PkgPtr : heap[p].home \in Dbs("local") <=> heap[p].origin = "local"
    BY AddressAssumption DEF HeapInv, Dbs, None
  <1>2. QED
    BY <1>1 DEF Installed, Cached

\* The packages a live database caches have its origin.
LEMMA CachedIs ==
  ASSUME HeapInv, NEW D, D \subseteq DbPtr, NEW p \in Cached(D)
  PROVE  /\ p \in Live \cap PkgPtr /\ heap[p].origin \in {"local", "sync"}
         /\ heap[p].home \in Live \cap D
         /\ heap[heap[p].home].origin = heap[p].origin
  BY AddressAssumption DEF HeapInv, Cached, None

\* An object that may be freed on its own: not a handle or an adopted record.
Freeable(a) ==
  \/ a \in DbPtr
  \/ a \in PkgPtr /\ heap[a].origin # "record"

\* An object fit to be allocated while P is freed.
Fit(P, new, a) ==
  \/ /\ a \in DbPtr /\ new[a].origin = "sync" /\ new[a].home \in (Live \ P) \cap HandlePtr
  \/ /\ a \in PkgPtr /\ new[a].origin \in {"local", "sync"}
     /\ new[a].home \in (Live \ P) \cap DbPtr
     /\ heap[new[a].home].origin = new[a].origin
  \/ a \in PkgPtr /\ new[a].origin \in {"file", "record", "copy"} /\ new[a].home = None
  \/ /\ a \in PkgPtr /\ new[a].origin = "copy"
     /\ new[a].home \in PkgPtr \cap DOMAIN new /\ new[new[a].home].origin = "record"

\* libalpm's frees and allocations keep the heap in order when a database goes
\* with its packages and nothing takes an address that is in use.
LEMMA HeapStep ==
  ASSUME HeapInv, NEW P, NEW new, heap' = Heap(P, new),
         \A a \in P \cap Live : Freeable(a),
         \A p \in Live \cap PkgPtr : heap[p].home \in P => p \in P,
         \A a \in DOMAIN new : a \notin Live \ P /\ Fit(P, new, a)
  PROVE  /\ HeapInv'
         /\ \A a \in Live \ P : a \in DOMAIN heap' /\ heap'[a] = heap[a]
  <1>1. /\ DOMAIN heap' = (Live \ P) \cup DOMAIN new
        /\ \A a \in DOMAIN new : heap'[a] = new[a]
        /\ \A a \in Live \ P : heap'[a] = heap[a]
    <2>1. \A a \in Live \ P : a \notin DOMAIN new
      OBVIOUS
    <2>2. /\ DOMAIN heap' = (Live \ P) \cup DOMAIN new
          /\ \A a \in DOMAIN new : heap'[a] = new[a]
          /\ \A a \in Live \ P : a \notin DOMAIN new => heap'[a] = heap[a]
      BY Zenon, HeapAt
    <2>3. QED
      BY <2>1, <2>2
  <1> DEFINE live2 == DOMAIN heap'
  <1>2. live2 \subseteq HandlePtr \cup DbPtr \cup PkgPtr
    BY <1>1 DEF HeapInv, Fit
  <1>3. ASSUME NEW h \in live2 \cap HandlePtr
        PROVE  h \in Live \ P /\ heap'[h].origin = "handle" /\ heap'[h].home = None
    BY <1>1, AddressAssumption DEF HeapInv, Fit
  <1>4. ASSUME NEW h \in Live \cap HandlePtr PROVE h \in live2
    BY <1>1, AddressAssumption DEF Freeable
  <1>5. ASSUME NEW d \in live2 \cap DbPtr
        PROVE  heap'[d].origin \in {"local", "sync"} /\ heap'[d].home \in live2 \cap HandlePtr
    <2>1. CASE d \in DOMAIN new
      BY <1>1, <2>1, AddressAssumption DEF Fit
    <2>2. CASE d \in Live \ P
      BY <1>1, <1>4, <2>2 DEF HeapInv
    <2>3. QED
      BY <1>1, <2>1, <2>2
  <1>6. ASSUME NEW p \in live2 \cap PkgPtr
        PROVE  \/ /\ heap'[p].origin \in {"local", "sync"}
                  /\ heap'[p].home \in live2 \cap DbPtr
                  /\ heap'[heap'[p].home].origin = heap'[p].origin
               \/ heap'[p].origin \in {"file", "record"} /\ heap'[p].home = None
               \/ heap'[p].origin = "copy" /\ heap'[p].home = None
               \/ /\ heap'[p].origin = "copy"
                  /\ heap'[p].home \in live2 \cap PkgPtr
                  /\ heap'[heap'[p].home].origin = "record"
    <2>1. CASE p \in DOMAIN new
      <3>1. heap'[p] = new[p] /\ Fit(P, new, p)
        BY <1>1, <2>1
      <3>2. QED
        BY <1>1, <3>1, AddressAssumption DEF Fit
    <2>2. CASE p \in Live \ P
      <3>1. heap'[p] = heap[p] /\ p \in Live \cap PkgPtr
        BY <1>1, <2>2
      <3>2. heap[p].home \in Live => heap[p].home \in Live \ P
        BY <2>2
      <3>3. heap[p].home \in Live => /\ heap[p].home \in live2
                                     /\ heap'[heap[p].home] = heap[heap[p].home]
        BY <1>1, <3>2
      <3>4. QED
        BY <3>1, <3>3 DEF HeapInv
    <2>3. QED
      BY <1>1, <2>1, <2>2
  <1>7. \A g, h \in live2 \cap HandlePtr : g = h
    BY <1>3 DEF HeapInv
  <1>9. HeapInv'
    BY <1>2, <1>3, <1>5, <1>6, <1>7 DEF HeapInv, Live, None
  <1>10. QED
    BY <1>1, <1>9

-----------------------------------------------------------------------------
(* The two shapes of a handler: it returns objects, or it drops ids.        *)

\* What a free and the drops that go with it mean for the ids that are left.
LEMMA DropGhosts ==
  ASSUME KindInv, LiveInv, ForgottenInv, NEW S, NEW P, NEW R, FreedBut(P, R),
         R \subseteq Live,
         DOMAIN tab' = Ids \ S, \A i \in DOMAIN tab' : tab'[i] = tab[i],
         \A a \in Live \ P : a \in DOMAIN heap' /\ heap'[a] = heap[a],
         \A i \in Ids \ S : i \notin dangling /\ tab[i].ptr \in P => tab[i].tag = "PKG",
         \A i \in S : tab[i].tag \in {"HANDLE", "DB"} => tab[i].ptr \in P \cup R,
         S \subseteq Ids
  PROVE  /\ KindInv' /\ LiveInv' /\ ForgottenInv'
         /\ \A i \in dangling' :
              /\ i \in Ids \ S
              /\ i \in dangling \/ (i \notin dangling /\ tab[i].ptr \in P)
         /\ \A i \in Ids \ S : i \in stray => i \in stray'
         /\ \A i \in Ids \ S :
              /\ i \notin dangling /\ tab[i].ptr \in P
              /\ call.op # "commit" /\ Misfiled(i)
              => i \in stray'
         /\ \A i \in Ids \ S : i \in dangling => i \in dangling'
  <1> DEFINE hit == {i \in Ids \ dangling : tab[i].ptr \in P}
             lost == {tab[i].ptr : i \in {j \in Ids \ DOMAIN tab' :
                                            tab[j].tag \in {"HANDLE", "DB"}}}
  <1>1. /\ dangling' = (dangling \cup hit) \cap DOMAIN tab'
        /\ stray' = (stray \cup {i \in hit : call.op # "commit" /\ Misfiled(i)})
                    \cap DOMAIN tab'
        /\ forgotten' = (forgotten \cup lost) \ P
        /\ refused' = (refused \cup R) \ P
    BY DEF FreedBut
  <1>2. KindInv'
    BY DEF KindInv, Ids
  <1>3. stray' \subseteq dangling' /\ dangling' \subseteq DOMAIN tab'
    BY <1>1 DEF LiveInv
  <1>4. \A i \in dangling' : tab'[i].tag = "PKG"
    BY <1>1 DEF LiveInv
  <1>5. ASSUME NEW i \in DOMAIN tab', i \notin dangling'
        PROVE  /\ tab'[i].ptr \in DOMAIN heap'
               /\ tab'[i].tag = "NONE" <=> heap'[tab'[i].ptr].origin = "record"
    <2>1. i \in Ids \ dangling /\ tab[i].ptr \notin P /\ tab'[i] = tab[i]
      BY <1>1, <1>5
    <2>2. tab[i].ptr \in Live /\ (tab[i].tag = "NONE" <=> heap[tab[i].ptr].origin = "record")
      BY <2>1 DEF LiveInv
    <2>3. QED
      BY <2>1, <2>2
  <1>6. LiveInv'
    BY <1>3, <1>4, <1>5 DEF LiveInv, Ids, Live
  <1>7. lost \subseteq P \cup R
    OBVIOUS
  <1> HIDE DEF lost, hit
  <1>8. ForgottenInv'
    BY <1>1, <1>7 DEF ForgottenInv, Live
  <1>9. QED
    BY <1>1, <1>2, <1>6, <1>8 DEF hit

\* A handler that drops the ids S while libalpm frees P keeps the invariant when
\* the ids that outlive their object are misfiled, and no handle or database
\* but a refused one loses its id.
LEMMA DropsKeeps ==
  ASSUME IInv, call.op # "commit", call' = Idle,
         NEW S, S \subseteq Ids, Closed(S), Drops(S), cbreg' \subseteq cbreg,
         \A h \in S : tab[h].tag = "HANDLE" => h \notin cbreg',
         NEW P, NEW R, FreedBut(P, R), R \subseteq Live, HeapInv', TransInv',
         \A a \in Live \ P : a \in DOMAIN heap' /\ heap'[a] = heap[a],
         \A i \in Ids \ S : i \notin dangling /\ tab[i].ptr \in P => Misfiled(i),
         \A i \in S : tab[i].tag \in {"HANDLE", "DB"} => tab[i].ptr \in P \cup R
  PROVE  IInv'
  <1>1. /\ TP!IInv' /\ DOMAIN tab' = Ids \ S
        /\ \A i \in DOMAIN tab' : tab'[i] = tab[i]
    BY DropsStep DEF IInv
  <1>2. \A i \in Ids \ S : i \notin dangling /\ tab[i].ptr \in P => tab[i].tag = "PKG"
    BY DEF Misfiled
  <1>3. /\ KindInv' /\ LiveInv' /\ ForgottenInv'
        /\ \A i \in dangling' :
              /\ i \in Ids \ S
              /\ i \in dangling \/ (i \notin dangling /\ tab[i].ptr \in P)
        /\ \A i \in Ids \ S : i \in stray => i \in stray'
        /\ \A i \in Ids \ S :
              i \notin dangling /\ tab[i].ptr \in P /\ Misfiled(i) => i \in stray'
    BY <1>1, <1>2, DropGhosts DEF IInv
  <1>u. up' = TRUE
    BY DEF Drops, IInv
  <1>4. \A i \in dangling : i \in stray
    BY DEF IInv, StaleOnlyIfStray
  <1>5. StaleOnlyIfStray'
    BY <1>3, <1>4 DEF StaleOnlyIfStray
  <1>6. CallInv'
    BY DEF CallInv, Idle
  <1>7. QED
    BY <1>1, <1>3, <1>5, <1>6, <1>u DEF IInv

\* The objects of P are of the kind of address that goes with a tag.
OfKind(P, tag) ==
  \/ tag = "HANDLE" /\ P \subseteq HandlePtr
  \/ tag = "DB" /\ P \subseteq DbPtr
  \/ tag = "PKG" /\ P \subseteq PkgPtr

\* A handler that returns live objects of P, and frees nothing, keeps the
\* invariant.
LEMMA ReturnsKeeps ==
  ASSUME IInv, NEW P, NEW tag \in {"HANDLE", "DB", "PKG"}, NEW o, OfKind(P, tag),
         Owns(tab, o, tag), Returns(P, tag, o),
         HeapInv', \A a \in Live : a \in DOMAIN heap' /\ heap'[a] = heap[a],
         \A p \in P : p \in DOMAIN heap' /\ heap'[p].origin # "record",
         trans' = trans, call' = call \/ call = Idle,
         (dangling' = dangling /\ stray' = stray) => CallInv'
  PROVE  IInv'
  <1>1. P \subseteq HandlePtr \cup DbPtr \cup PkgPtr
    BY DEF OfKind
  <1>2. /\ TP!IInv' /\ Adds(tab, tab', P, tag)
        /\ dangling' = dangling /\ stray' = stray /\ forgotten' = forgotten /\ refused' = refused
    <2>1. dangling \subseteq Ids /\ stray \subseteq Ids /\ TP!IInv
      BY DEF IInv, LiveInv
    <2>2. QED
      BY <1>1, <2>1, ReturnsStep
  <1>3. /\ Ids \subseteq DOMAIN tab'
        /\ \A i \in Ids : tab'[i].ptr = tab[i].ptr /\ tab'[i].tag = tab[i].tag
        /\ \A i \in DOMAIN tab' : i \notin Ids => tab'[i].ptr \in P /\ tab'[i].tag = tag
    BY <1>2 DEF Adds, TP!Grows, Ids
  <1>4. KindInv'
    BY <1>3 DEF IInv, KindInv, OfKind, Ids
  <1>5. LiveInv'
    <2>1. /\ stray' \subseteq dangling' /\ dangling' \subseteq DOMAIN tab'
          /\ \A i \in dangling' : tab'[i].tag = "PKG"
      BY <1>2, <1>3 DEF IInv, LiveInv
    <2>2. ASSUME NEW i \in DOMAIN tab', i \notin dangling'
          PROVE  /\ tab'[i].ptr \in DOMAIN heap'
                 /\ tab'[i].tag = "NONE" <=> heap'[tab'[i].ptr].origin = "record"
      <3>1. CASE i \in Ids
        <4>1. /\ tab[i].ptr \in Live
              /\ tab[i].tag = "NONE" <=> heap[tab[i].ptr].origin = "record"
          BY <1>2, <2>2, <3>1 DEF IInv, LiveInv
        <4>2. QED
          BY <1>3, <3>1, <4>1
      <3>2. CASE i \notin Ids
        BY <1>3, <2>2, <3>2
      <3>3. QED
        BY <3>1, <3>2
    <2>3. QED
      BY <2>1, <2>2 DEF LiveInv, Ids, Live
  <1>6. ForgottenInv'
    BY <1>2 DEF IInv, ForgottenInv, Live
  <1>7. TransInv'
    <2>1. TransInv
      BY DEF IInv
    <2>2. \A p \in trans.add \cup trans.rem : p \in DOMAIN heap' /\ heap'[p] = heap[p]
      BY <2>1 DEF TransInv
    <2>3. QED
      BY <2>1, <2>2 DEF TransInv, Live
  <1>8. StaleOnlyIfStray'
    <2>1. StaleOnlyIfStray /\ dangling \subseteq Ids
      BY DEF IInv, LiveInv
    <2>2. CASE call' = call
      BY <1>2, <1>3, <2>1, <2>2 DEF StaleOnlyIfStray
    <2>3. CASE call = Idle
      BY <1>2, <2>1, <2>3 DEF StaleOnlyIfStray, Idle
    <2>4. QED
      BY <2>2, <2>3
  <1>u. up' = TRUE
    BY DEF Returns, IInv
  <1>9. QED
    BY <1>2, <1>4, <1>5, <1>6, <1>7, <1>8, <1>u DEF IInv

\* A handler that only looks objects up keeps the invariant.
LEMMA QuietReturns ==
  ASSUME IInv, NEW P, NEW tag \in {"HANDLE", "DB", "PKG"}, NEW o, OfKind(P, tag),
         Owns(tab, o, tag), Returns(P, tag, o), UNCHANGED <<heap, trans, call>>,
         \A p \in P : p \in Live /\ heap[p].origin # "record"
  PROVE  IInv'
  <1>1. HeapInv'
    BY DEF IInv, HeapInv, Live, Dbs
  <1>2. ASSUME dangling' = dangling, stray' = stray PROVE CallInv'
    BY <1>2 DEF IInv, CallInv, Live, Idle
  <1>3. QED
    BY <1>1, <1>2, ReturnsKeeps DEF Live

-----------------------------------------------------------------------------
(* Arguments and owners.                                                   *)

\* An argument that crosses names a live object of its kind.
LEMMA ArgFacts ==
  ASSUME IInv, NEW id, NEW tag \in {"HANDLE", "DB", "PKG"}, Arg(id, tag)
  PROVE  /\ id \in Ids /\ tab[id].tag = tag /\ id \notin dangling
         /\ tab[id].ptr \in Live
         /\ heap[tab[id].ptr].origin # "record"
         /\ tag = "HANDLE" => tab[id].ptr \in HandlePtr
         /\ tag = "DB" => tab[id].ptr \in DbPtr
         /\ tag = "PKG" => tab[id].ptr \in PkgPtr
  <1>1. id \in Ids /\ tab[id].tag = tag /\ id \notin dangling
    BY DEF Arg, T!Resolves, Ids
  <1>2. QED
    BY <1>1 DEF IInv, LiveInv, KindInv

\* The owner a handler computes for what it returns is one.
LEMMA OwnerFound ==
  ASSUME IInv, NEW id \in Ids, NEW tag \in {"DB", "PKG", "NONE"}
  PROVE  Owns(tab, T!Ancestor(tab, id, T!ParentTag[tag]), tag)
  <1> DEFINE a == TP!Ancestor(tab, id, TP!ParentTag[tag])
  <1>1. TP!Tree(tab) /\ TP!ParentTag[tag] \in TP!Tags /\ id \in DOMAIN tab
    BY TreeFacts DEF IInv, TP!ParentTag, TP!Tags, Ids
  <1>2. a \in TP!Chain(tab, id) /\ tab[a].tag \in {TP!ParentTag[tag], "HANDLE"}
    BY <1>1, TP!AncestorSpec, BoundAssumption
  <1>3. TP!Chain(tab, id) \subseteq DOMAIN tab
    BY <1>1, TP!ChainStep, BoundAssumption
  <1>4. T!Ancestor(tab, id, T!ParentTag[tag]) = a
    BY SameAncestor, SameConstants
  <1> HIDE DEF a
  <1>5. TP!Depth[tab[a].tag] < TP!Depth[tag]
    BY <1>2 DEF TP!ParentTag, TP!Depth
  <1>6. QED
    BY <1>2, <1>3, <1>4, <1>5 DEF Owns

\* So is the database, or the handle, that a handler names outright.
LEMMA OwnerNamed ==
  ASSUME IInv, NEW id \in Ids, tab[id].tag \in {"HANDLE", "DB"}
  PROVE  Owns(tab, id, "PKG")
  BY DEF Owns, TP!Depth, Ids

\* Callbacks are asked for by the ids of live handles.
LEMMA WantedIsHandle ==
  ASSUME IInv, NEW hid \in Ids, Wanted(hid)
  PROVE  tab[hid].tag = "HANDLE"
  <1>1. TP!CallbacksOfLiveHandles /\ up = TRUE
    BY DEF IInv, TP!IInv
  <1>2. hid \in TP!Id /\ TP!NoId \notin TP!Id
    BY TP!NoIdNotLive, BoundAssumption DEF IInv, TP!IInv, TP!TypeOK, Ids
  <1>3. QED
    BY <1>1, <1>2 DEF Wanted, TP!CallbacksOfLiveHandles, TP!Resolves

\* One allocation, while something else is live.
LEMMA AllocStep ==
  ASSUME HeapInv, NEW a, a \notin Live, NEW home, NEW origin, NEW name,
         heap' = Heap({}, New(a, Object(home, origin, name))),
         \/ a \in DbPtr /\ origin = "sync" /\ home \in Live \cap HandlePtr
         \/ /\ a \in PkgPtr /\ origin \in {"local", "sync"}
            /\ home \in Live \cap DbPtr /\ heap[home].origin = origin
         \/ a \in PkgPtr /\ origin \in {"file", "copy"} /\ home = None
  PROVE  /\ HeapInv'
         /\ \A b \in Live : b \in DOMAIN heap' /\ heap'[b] = heap[b]
         /\ DOMAIN heap' = Live \cup {a}
         /\ heap'[a].origin = origin /\ heap'[a].home = home /\ heap'[a].name = name
  <1> DEFINE new == New(a, Object(home, origin, name))
  <1>1. /\ DOMAIN new = {a}
        /\ new[a].origin = origin /\ new[a].home = home /\ new[a].name = name
    BY DEF New, Object
  <1>2. heap' = Heap({}, new)
    OBVIOUS
  <1> HIDE DEF new
  <1>3. \A b \in DOMAIN new : b \notin Live \ {} /\ Fit({}, new, b)
    BY <1>1 DEF Fit
  <1>4. /\ HeapInv'
        /\ \A b \in Live \ {} : b \in DOMAIN heap' /\ heap'[b] = heap[b]
    BY <1>2, <1>3, HeapStep
  <1>5. DOMAIN heap' = (Live \ {}) \cup DOMAIN new /\ \A b \in DOMAIN new : heap'[b] = new[b]
    BY <1>2, HeapAt, Zenon
  <1>6. QED
    BY <1>1, <1>4, <1>5

-----------------------------------------------------------------------------
(* The actions.                                                            *)

\* A server that has just started has no object and no id.
LEMMA InitStep ==
  ASSUME Init
  PROVE  IInv
  <1>1. TP!IInv
    BY SameInit, TP!InitIInv, BoundAssumption DEF Init
  <1>2. tab = [i \in {} |-> T!NoId] /\ heap = [a \in {} |-> None]
    BY DEF Init, T!Init, NoNew
  <1>3. DOMAIN tab = {} /\ DOMAIN heap = {}
    BY <1>2
  <1>4. KindInv /\ LiveInv /\ HeapInv /\ ForgottenInv /\ StaleOnlyIfStray
    BY <1>3 DEF Init, KindInv, LiveInv, HeapInv, ForgottenInv, StaleOnlyIfStray, Ids, Live
  <1>5. TransInv /\ CallInv
    BY <1>3 DEF Init, TransInv, CallInv, NoTrans, Idle
  <1>6. up = TRUE
    BY DEF Init, T!Init
  <1>7. QED
    BY <1>1, <1>4, <1>5, <1>6 DEF IInv

\* alpm_initialize keeps the invariant.
LEMMA InitializeStep ==
  ASSUME IInv, NEW h \in HandlePtr, NEW d \in DbPtr, Initialize(h, d)
  PROVE  IInv'
  <1> DEFINE new == [a \in {h, d} |-> Object(IF a = h THEN None ELSE h,
                                             IF a = h THEN "handle" ELSE "local", None)]
  <1>0. h # d
    BY AddressAssumption
  <1>1. /\ new[h].home = None /\ new[h].origin = "handle"
        /\ new[d].home = h /\ new[d].origin = "local" /\ DOMAIN new = {h, d}
    BY <1>0 DEF Object
  <1>2. Live = {} /\ heap' = Heap({}, new)
    BY DEF Initialize
  <1> HIDE DEF new
  <1>3. DOMAIN heap' = {h, d} /\ heap'[h] = new[h] /\ heap'[d] = new[d]
    BY <1>1, <1>2 DEF Heap
  <1>4. HeapInv'
    BY <1>0, <1>1, <1>3, AddressAssumption DEF HeapInv, Live, None
  <1>5. Owns(tab, T!NoId, "HANDLE") /\ OfKind({h}, "HANDLE")
    BY SameConstants DEF Owns, OfKind
  <1>6. Returns({h}, "HANDLE", T!NoId) /\ trans' = trans /\ call' = call
    BY DEF Initialize
  <1>7. ASSUME dangling' = dangling, stray' = stray PROVE CallInv'
    <2>1. CallInv /\ TransInv
      BY DEF IInv
    <2>2. call.op = "commit" => call.todo = {}
      BY <1>2, <2>1 DEF CallInv, TransInv
    <2>3. call.op = "question" => call.dying = {}
      BY <1>2, <2>1 DEF CallInv
    <2>4. QED
      BY <1>6, <1>7, <2>1, <2>2, <2>3 DEF CallInv, Idle
  <1>8. QED
    BY <1>1, <1>2, <1>3, <1>4, <1>5, <1>6, <1>7, ReturnsKeeps

\* alpm_release: the handle is the only one, so nothing of the table is left.
LEMMA ReleaseStep ==
  ASSUME IInv, NEW hid \in Ids, Release(hid)
  PROVE  IInv'
  <1> DEFINE S == T!Below(tab, hid)
  <1>1. /\ tab[hid].tag = "HANDLE" /\ tab[hid].ptr \in Live \cap HandlePtr
        /\ call = Idle /\ call' = Idle /\ heap' = NoNew /\ trans' = NoTrans
        /\ Drops(S) /\ cbreg' = cbreg \ {hid} /\ Freed(Live)
    BY ArgFacts DEF Release
  <1>2. /\ TP!IInv /\ KindInv /\ LiveInv /\ HeapInv
    BY DEF IInv
  <1>3. ASSUME NEW g \in Ids, tab[g].tag = "HANDLE" PROVE g = hid
    <2>1. tab[g].ptr \in Live \cap HandlePtr
      BY <1>2, <1>3 DEF KindInv, LiveInv
    <2>2. QED
      BY <1>1, <1>2, <1>3, <2>1, TreeFacts DEF HeapInv
  <1>4. S = Ids
    <2>1. TP!RootIsSubtree
      BY <1>2, TP!IInvRoots, BoundAssumption
    <2>2. TP!Below(tab, hid) = {i \in DOMAIN tab : i.root = hid.root}
      BY <1>1, <2>1 DEF TP!RootIsSubtree, Ids
    <2>3. \A i \in DOMAIN tab : i.root = hid.root
      BY <1>3, <2>1 DEF TP!RootIsSubtree, Ids
    <2>4. QED
      BY <2>2, <2>3, SameBelow DEF Ids
  <1>5. DOMAIN heap' = {}
    BY <1>1 DEF NoNew
  <1>6. HeapInv'
    BY <1>5 DEF HeapInv, Live
  <1>7. TransInv'
    BY <1>1 DEF TransInv, NoTrans
  <1>8. Closed(S) /\ call.op # "commit"
    BY <1>1, <1>4 DEF Closed, Idle
  <1> HIDE DEF S
  <1>9. \A i \in S : tab[i].tag # "PKG" => tab[i].ptr \in Live \cup {}
    BY <1>2, <1>4 DEF LiveInv
  <1>10. FreedBut(Live, {})
    BY <1>1 DEF Freed
  <1>11. QED
    BY <1>1, <1>3, <1>4, <1>6, <1>7, <1>8, <1>9, <1>10, DropsKeeps

\* The address of an id that does not dangle says its kind.
LEMMA TagOf ==
  ASSUME IInv, NEW i \in Ids
  PROVE  /\ tab[i].ptr \in HandlePtr => tab[i].tag = "HANDLE"
         /\ tab[i].ptr \in DbPtr => tab[i].tag = "DB"
         /\ /\ tab[i].ptr \in PkgPtr /\ i \notin dangling
            /\ heap[tab[i].ptr].origin # "record"
            => tab[i].tag = "PKG"
         /\ tab[i].tag \notin {"HANDLE", "DB"} => tab[i].ptr \in PkgPtr
  BY AddressAssumption DEF IInv, KindInv, LiveInv

\* The id of a database's package is misfiled, or right below the id of its database.
LEMMA Homed ==
  ASSUME IInv, NEW i \in Ids, i \notin dangling, tab[i].ptr \in PkgPtr,
         heap[tab[i].ptr].origin \in {"local", "sync"},
         NEW did \in Ids, tab[did].tag = "DB", tab[did].ptr = heap[tab[i].ptr].home
  PROVE  Misfiled(i) \/ tab[i].owner = did
  <1>1. tab[i].tag = "PKG" /\ tab[did].ptr \in DbPtr
    BY TagOf DEF IInv, KindInv
  <1>2. tab[i].owner \in Ids
    BY <1>1, TreeFacts DEF IInv
  <1>3. ASSUME tab[tab[i].owner].ptr = tab[did].ptr PROVE tab[i].owner = did
    <2>1. tab[tab[i].owner].tag = "DB"
      BY <1>1, <1>2, <1>3, TagOf
    <2>2. QED
      BY <1>2, <1>3, <2>1, TreeFacts DEF IInv
  <1>4. QED
    BY <1>1, <1>2, <1>3 DEF Misfiled, Ids

\* alpm_get_localdb and alpm_get_syncdbs keep the invariant.
LEMMA GetDbsStep ==
  ASSUME IInv, NEW hid \in Ids, NEW origin \in {"local", "sync"}, GetDbs(hid, origin)
  PROVE  IInv'
  <1>1. OfKind(Dbs(origin), "DB")
    BY DEF OfKind, Dbs
  <1>2. \A p \in Dbs(origin) : p \in Live /\ heap[p].origin # "record"
    BY DEF Dbs
  <1>3. Owns(tab, T!Ancestor(tab, hid, T!ParentTag["DB"]), "DB")
    BY OwnerFound
  <1>4. QED
    BY <1>1, <1>2, <1>3, QuietReturns DEF GetDbs

\* alpm_register_syncdb keeps the invariant.
LEMMA RegisterSyncdbStep ==
  ASSUME IInv, NEW hid \in Ids, NEW d \in DbPtr, RegisterSyncdb(hid, d)
  PROVE  IInv'
  <1>1. /\ tab[hid].ptr \in Live \cap HandlePtr /\ d \notin Live
        /\ heap' = Heap({}, New(d, Object(tab[hid].ptr, "sync", None)))
        /\ call = Idle /\ call' = call /\ trans' = trans
        /\ Returns({d}, "DB", T!Ancestor(tab, hid, T!ParentTag["DB"]))
    BY ArgFacts DEF RegisterSyncdb
  <1>2. /\ HeapInv'
        /\ \A b \in Live : b \in DOMAIN heap' /\ heap'[b] = heap[b]
        /\ d \in DOMAIN heap' /\ heap'[d].origin = "sync"
    BY <1>1, AllocStep DEF IInv
  <1>3. Owns(tab, T!Ancestor(tab, hid, T!ParentTag["DB"]), "DB")
    BY OwnerFound
  <1>4. CallInv'
    BY <1>1 DEF CallInv, Idle
  <1>5. OfKind({d}, "DB")
    BY DEF OfKind
  <1>6. QED
    BY <1>1, <1>2, <1>3, <1>4, <1>5, ReturnsKeeps

\* A free of databases and their packages keeps the heap in order.
LEMMA DbsFreed ==
  ASSUME HeapInv, NEW D, D \subseteq Live \cap DbPtr,
         heap' = Heap(D \cup Cached(D), NoNew)
  PROVE  /\ HeapInv'
         /\ \A a \in Live \ (D \cup Cached(D)) : a \in DOMAIN heap' /\ heap'[a] = heap[a]
  <1> DEFINE P == D \cup Cached(D)
  <1>0. D \subseteq DbPtr
    OBVIOUS
  <1>1. \A p \in Cached(D) : p \in PkgPtr /\ heap[p].origin \in {"local", "sync"}
    BY <1>0, CachedIs
  <1>2. \A a \in P \cap Live : Freeable(a)
    BY <1>1 DEF Freeable
  <1>3. ASSUME NEW p \in Live \cap PkgPtr, heap[p].home \in P PROVE p \in P
    <2>1. CASE heap[p].home \in D
      BY <2>1 DEF Cached
    <2>2. CASE heap[p].home \in Cached(D)
      BY <1>1, <2>2, AddressAssumption DEF HeapInv, None
    <2>3. QED
      BY <1>3, <2>1, <2>2
  <1>4. DOMAIN NoNew = {}
    BY DEF NoNew
  <1> HIDE DEF P
  <1>5. /\ HeapInv'
        /\ \A a \in Live \ P : a \in DOMAIN heap' /\ heap'[a] = heap[a]
    BY <1>2, <1>3, <1>4, HeapStep DEF P
  <1>6. QED
    BY <1>5 DEF P

\* A free of nothing changes nothing.
LEMMA NothingFreed ==
  ASSUME HeapInv, heap' = Heap({}, NoNew)
  PROVE  /\ HeapInv'
         /\ \A a \in Live : a \in DOMAIN heap' /\ heap'[a] = heap[a]
  <1>1. DOMAIN NoNew = {}
    BY DEF NoNew
  <1>2. /\ HeapInv'
        /\ \A a \in Live \ {} : a \in DOMAIN heap' /\ heap'[a] = heap[a]
    BY <1>1, HeapStep
  <1>3. QED
    BY <1>2

\* What the transaction holds is still there after a free of something else.
LEMMA TransKept ==
  ASSUME TransInv, trans' = trans,
         \A p \in trans.add \cup trans.rem : p \in DOMAIN heap' /\ heap'[p] = heap[p]
  PROVE  TransInv'
  BY DEF TransInv, Live

\* alpm_db_unregister keeps the invariant.
LEMMA DbUnregisterStep ==
  ASSUME IInv, NEW did \in Ids, DbUnregister(did)
  PROVE  IInv'
  <1> DEFINE d == tab[did].ptr
             P == IF trans = NoTrans THEN {d} \cup Cached({d}) ELSE {}
             S == T!Below(tab, did)
  <1>1. /\ tab[did].tag = "DB" /\ d \in Live \cap DbPtr
        /\ call = Idle /\ call' = Idle /\ heap' = Heap(P, NoNew) /\ trans' = trans
        /\ Drops(S) /\ cbreg' = cbreg \ {did} /\ FreedBut(P, {d})
    BY ArgFacts DEF DbUnregister
  <1>2. TP!IInv /\ HeapInv /\ TransInv /\ LiveInv
    BY DEF IInv
  <1>3. /\ HeapInv'
        /\ \A a \in Live \ P : a \in DOMAIN heap' /\ heap'[a] = heap[a]
    <2>1. CASE trans = NoTrans
      BY <1>1, <1>2, <2>1, DbsFreed
    <2>2. CASE trans # NoTrans
      BY <1>1, <1>2, <2>2, NothingFreed
    <2>3. QED
      BY <2>1, <2>2
  <1>4. TransInv'
    <2>1. CASE trans = NoTrans
      BY <1>1, <1>2, <2>1, TransKept DEF NoTrans
    <2>2. CASE trans # NoTrans
      <3>1. \A p \in trans.add \cup trans.rem : p \in Live \ P
        BY <1>2, <2>2 DEF TransInv
      <3>2. QED
        BY <1>1, <1>2, <1>3, <3>1, TransKept
    <2>3. QED
      BY <2>1, <2>2
  <1>5. /\ did \in S /\ S \subseteq Ids /\ Closed(S)
        /\ \A i \in S : i # did => tab[i].tag \notin {"HANDLE", "DB"}
    BY <1>1, <1>2, BelowFacts, BelowKinds
  <1>6. ASSUME NEW i \in Ids \ S, i \notin dangling, tab[i].ptr \in P
        PROVE  Misfiled(i)
    <2>1. tab[i].ptr = d \/ tab[i].ptr \in Cached({d})
      BY <1>6
    <2>2. tab[i].ptr # d
      BY <1>1, <1>2, <1>5, <1>6, TagOf, TreeFacts
    <2>3. /\ tab[i].ptr \in Live \cap PkgPtr
          /\ heap[tab[i].ptr].origin \in {"local", "sync"}
          /\ heap[tab[i].ptr].home = d
      BY <1>1, <1>2, <2>1, <2>2, CachedIs
    <2>4. tab[i].owner # did
      BY <1>5, <1>6 DEF Closed
    <2>5. QED
      BY <1>1, <1>6, <2>3, <2>4, Homed
  <1>7. \A i \in S : tab[i].tag \in {"HANDLE", "DB"} => tab[i].ptr \in P \cup {d}
    BY <1>5
  <1>8. \A h \in S : tab[h].tag # "HANDLE"
    BY <1>1, <1>5
  <1>9. call.op # "commit" /\ cbreg' \subseteq cbreg
    BY <1>1 DEF Idle
  <1> HIDE DEF S, P
  <1>10. QED
    BY <1>1, <1>3, <1>4, <1>5, <1>6, <1>7, <1>8, <1>9, DropsKeeps

\* alpm_unregister_all_syncdbs keeps the invariant.
LEMMA UnregisterAllStep ==
  ASSUME IInv, NEW hid \in Ids, UnregisterAllSyncdbs(hid)
  PROVE  IInv'
  <1> DEFINE D == Dbs("sync")
             P == D \cup Cached(D)
             S == ByPtr(D, "DB")
  <1>1. /\ call = Idle /\ call' = Idle /\ heap' = Heap(P, NoNew)
        /\ trans = NoTrans /\ trans' = trans
        /\ Drops(S) /\ cbreg' = cbreg /\ Freed(P)
    BY DEF UnregisterAllSyncdbs, SyncdbVictims
  <1>2. TP!IInv /\ HeapInv /\ TransInv /\ LiveInv
    BY DEF IInv
  <1>3. D = {d \in Live \cap DbPtr : heap[d].origin = "sync"}
    BY DEF Dbs
  <1>4. /\ HeapInv'
        /\ \A a \in Live \ P : a \in DOMAIN heap' /\ heap'[a] = heap[a]
    BY <1>1, <1>2, <1>3, DbsFreed
  <1>5. TransInv'
    BY <1>1, <1>2, TransKept DEF NoTrans
  <1>6. /\ S \subseteq Ids /\ Closed(S)
        /\ \A i \in Ids : tab[i].ptr \in D /\ tab[i].tag = "DB" => i \in S
        /\ \A i \in S : \/ tab[i].ptr \in D /\ tab[i].tag = "DB"
                        \/ tab[i].tag \notin {"HANDLE", "DB"}
    BY <1>2, ByPtrFacts
  <1>7. ASSUME NEW i \in Ids \ S, i \notin dangling, tab[i].ptr \in P
        PROVE  Misfiled(i)
    <2>1. tab[i].ptr \notin D
      BY <1>3, <1>6, <1>7, TagOf
    <2>2. /\ tab[i].ptr \in Live \cap PkgPtr /\ heap[tab[i].ptr].origin = "sync"
          /\ heap[tab[i].ptr].home \in D /\ tab[i].tag = "PKG"
      <3>1. D \subseteq DbPtr /\ tab[i].ptr \in Cached(D)
        BY <1>3, <1>7, <2>1
      <3>2. /\ tab[i].ptr \in Live \cap PkgPtr /\ heap[tab[i].ptr].home \in D
            /\ heap[heap[tab[i].ptr].home].origin = heap[tab[i].ptr].origin
        BY <1>2, <3>1, CachedIs
      <3>3. QED
        BY <1>3, <1>7, <3>2, TagOf
    <2>3. tab[i].owner \in Ids \ S
      BY <1>2, <1>6, <1>7, <2>2, TreeFacts DEF Closed
    <2>4. tab[tab[i].owner].ptr # heap[tab[i].ptr].home
      BY <1>3, <1>6, <2>2, <2>3, TagOf
    <2>5. QED
      BY <2>2, <2>3, <2>4 DEF Misfiled, Ids
  <1>8. \A i \in S : tab[i].tag \in {"HANDLE", "DB"} => tab[i].ptr \in P \cup {}
    BY <1>6
  <1>9. \A h \in S : tab[h].tag # "HANDLE"
    BY <1>6
  <1>10. call.op # "commit" /\ cbreg' \subseteq cbreg /\ FreedBut(P, {})
    BY <1>1 DEF Idle, Freed
  <1> HIDE DEF S, P
  <1>11. QED
    BY <1>1, <1>4, <1>5, <1>6, <1>7, <1>8, <1>9, <1>10, DropsKeeps

\* alpm_db_get_pkgcache and the like keep the invariant.
LEMMA DbGetPkgcacheStep ==
  ASSUME IInv, NEW did \in Ids, DbGetPkgcache(did)
  PROVE  IInv'
  <1>1. tab[did].tag = "DB" /\ tab[did].ptr \in DbPtr
    BY ArgFacts DEF DbGetPkgcache
  <1>2. \A p \in Cached({tab[did].ptr}) : p \in Live \cap PkgPtr /\ heap[p].origin # "record"
    BY <1>1, CachedIs DEF IInv
  <1>3. PICK P \in SUBSET Cached({tab[did].ptr}) : Returns(P, "PKG", did)
    BY DEF DbGetPkgcache
  <1>4. OfKind(P, "PKG") /\ Owns(tab, did, "PKG") /\ UNCHANGED <<heap, trans, call>>
    BY <1>1, <1>2, <1>3, OwnerNamed DEF OfKind, DbGetPkgcache
  <1>5. QED
    BY <1>2, <1>3, <1>4, QuietReturns

\* alpm_find_dbs_satisfier: the package may be another database's, but its owner
\* is a database all the same.
LEMMA FindDbsSatisfierStep ==
  ASSUME IInv, NEW i \in Ids, NEW j \in Ids, NEW p \in PkgPtr,
         FindDbsSatisfier(<<i, j>>, p)
  PROVE  IInv'
  <1>1. /\ Arg(i, "DB") /\ Arg(j, "DB")
        /\ p \in Cached({tab[i].ptr, tab[j].ptr})
        /\ Returns({p}, "PKG", i) /\ UNCHANGED <<heap, trans, call>>
    BY DEF FindDbsSatisfier
  <1>2. tab[i].tag = "DB" /\ {tab[i].ptr, tab[j].ptr} \subseteq DbPtr
    BY <1>1, ArgFacts
  <1>3. p \in Live /\ heap[p].origin # "record"
    BY <1>1, <1>2, CachedIs DEF IInv
  <1>4. OfKind({p}, "PKG") /\ Owns(tab, i, "PKG")
    BY <1>2, OwnerNamed DEF OfKind
  <1>5. QED
    BY <1>1, <1>3, <1>4, QuietReturns

\* alpm_pkg_get_db keeps the invariant.
LEMMA PkgGetDbStep ==
  ASSUME IInv, NEW pid \in Ids, PkgGetDb(pid)
  PROVE  IInv'
  <1> DEFINE d == heap[tab[pid].ptr].home
  <1>1. /\ tab[pid].ptr \in Live \cap PkgPtr /\ d \in DbPtr
        /\ Returns({d}, "DB", T!Ancestor(tab, pid, T!ParentTag["DB"]))
        /\ UNCHANGED <<heap, trans, call>>
    BY ArgFacts DEF PkgGetDb
  <1>2. d \in Live /\ heap[d].origin # "record"
    BY <1>1, AddressAssumption DEF IInv, HeapInv, None
  <1>3. OfKind({d}, "DB") /\ Owns(tab, T!Ancestor(tab, pid, T!ParentTag["DB"]), "DB")
    BY <1>1, OwnerFound DEF OfKind
  <1>4. QED
    BY <1>1, <1>2, <1>3, QuietReturns

\* alpm_pkg_load keeps the invariant.
LEMMA PkgLoadStep ==
  ASSUME IInv, NEW hid \in Ids, NEW p \in PkgPtr, NEW n \in Name, PkgLoad(hid, p, n)
  PROVE  IInv'
  <1>1. /\ tab[hid].ptr \in Live /\ p \notin Live
        /\ heap' = Heap({}, New(p, Object(None, "file", n)))
        /\ call = Idle /\ call' = call /\ trans' = trans
        /\ Returns({p}, "PKG", T!Ancestor(tab, hid, T!ParentTag["PKG"]))
    BY ArgFacts DEF PkgLoad
  <1>2. /\ HeapInv'
        /\ \A b \in Live : b \in DOMAIN heap' /\ heap'[b] = heap[b]
        /\ p \in DOMAIN heap' /\ heap'[p].origin = "file"
    <2>1. HeapInv /\ Live # {}
      BY <1>1 DEF IInv
    <2>2. /\ HeapInv'
          /\ \A b \in Live : b \in DOMAIN heap' /\ heap'[b] = heap[b]
          /\ DOMAIN heap' = Live \cup {p}
          /\ heap'[p].origin = "file" /\ heap'[p].home = None /\ heap'[p].name = n
      BY <1>1, <2>1, AllocStep
    <2>3. QED
      BY <2>2
  <1>3. Owns(tab, T!Ancestor(tab, hid, T!ParentTag["PKG"]), "PKG")
    BY OwnerFound
  <1>4. CallInv' /\ OfKind({p}, "PKG")
    BY <1>1 DEF CallInv, Idle, OfKind
  <1>5. QED
    BY <1>1, <1>2, <1>3, <1>4, ReturnsKeeps

\* A conflict question files the copy libalpm made for it.
LEMMA AskStep ==
  ASSUME IInv, NEW hid \in Ids, NEW c \in PkgPtr, NEW n \in Name, Ask(hid, c, n)
  PROVE  IInv'
  <1>1. /\ Wanted(hid) /\ c \notin Live
        /\ heap' = Heap({}, New(c, Object(None, "copy", n)))
        /\ call = Idle /\ call' = [Idle EXCEPT !.op = "question", !.dying = {c}]
        /\ trans' = trans /\ Returns({c}, "PKG", hid)
    BY DEF Ask
  <1>2. tab[hid].tag = "HANDLE"
    BY <1>1, WantedIsHandle
  <1>3. Live # {}
    <2>1. hid \notin dangling
      BY <1>2 DEF IInv, LiveInv
    <2>2. QED
      BY <2>1 DEF IInv, LiveInv
  <1>4. /\ HeapInv'
        /\ \A b \in Live : b \in DOMAIN heap' /\ heap'[b] = heap[b]
        /\ c \in DOMAIN heap' /\ heap'[c].origin = "copy"
    BY <1>1, <1>3, AllocStep DEF IInv
  <1>5. Owns(tab, hid, "PKG") /\ OfKind({c}, "PKG")
    BY <1>2, OwnerNamed DEF OfKind
  <1>6. CallInv'
    <2>1. c \notin trans.rem
      BY <1>1 DEF IInv, TransInv
    <2>2. call' = [op |-> "question", dying |-> {c}, todo |-> {}, done |-> {}]
      BY <1>1 DEF Idle
    <2>3. /\ call'.op = "question" /\ call'.dying = {c}
          /\ call' = [op |-> call'.op, dying |-> call'.dying,
                      todo |-> call'.todo, done |-> call'.done]
      BY <2>2
    <2>4. QED
      BY <1>1, <1>4, <2>1, <2>3 DEF CallInv, Live
  <1>7. QED
    BY <1>1, <1>4, <1>5, <1>6, ReturnsKeeps

\* alpm_trans_get_add and alpm_trans_get_remove keep the invariant.
LEMMA TransGetStep ==
  ASSUME IInv, NEW hid \in Ids, NEW P \in {trans.add, trans.rem}, TransGet(hid, P)
  PROVE  IInv'
  <1>1. \A p \in P : p \in Live \cap PkgPtr /\ heap[p].origin # "record"
    BY DEF IInv, TransInv
  <1>2. OfKind(P, "PKG") /\ Owns(tab, T!Ancestor(tab, hid, T!ParentTag["PKG"]), "PKG")
    BY <1>1, OwnerFound DEF OfKind
  <1>3. QED
    BY <1>1, <1>2, QuietReturns DEF TransGet

\* An event of a commit that shows the client a package keeps the invariant.
LEMMA EventStep ==
  ASSUME IInv, NEW hid \in Ids, NEW p \in PkgPtr, Event(hid, p)
  PROVE  IInv'
  <1>1. /\ Wanted(hid) /\ p \in trans.add \cup Cached(Dbs("local"))
        /\ Returns({p}, "PKG", hid) /\ UNCHANGED <<heap, trans, call>>
    BY DEF Event
  <1>2. Dbs("local") \subseteq DbPtr
    BY DEF Dbs
  <1>3. p \in Live /\ heap[p].origin # "record"
    BY <1>1, <1>2, CachedIs DEF IInv, TransInv
  <1>4. OfKind({p}, "PKG") /\ Owns(tab, hid, "PKG")
    BY <1>1, WantedIsHandle, OwnerNamed DEF OfKind
  <1>5. QED
    BY <1>1, <1>3, <1>4, QuietReturns

\* alpm_pkg_free: the id goes whatever libalpm made of the package.
LEMMA PkgFreeStep ==
  ASSUME IInv, NEW pid \in Ids, PkgFree(pid)
  PROVE  IInv'
  <1> DEFINE p == tab[pid].ptr
             P == IF heap[p].origin = "file" THEN {p} ELSE {}
             S == T!Below(tab, pid)
  <1>1. /\ tab[pid].tag = "PKG" /\ p \in Live \cap PkgPtr
        /\ p \notin trans.add \cup trans.rem
        /\ call = Idle /\ call' = Idle /\ heap' = Heap(P, NoNew) /\ trans' = trans
        /\ Drops(S) /\ cbreg' = cbreg \ {pid} /\ Freed(P)
    BY ArgFacts DEF PkgFree
  <1>2. TP!IInv /\ HeapInv /\ TransInv
    BY DEF IInv
  <1>3. /\ HeapInv'
        /\ \A a \in Live \ P : a \in DOMAIN heap' /\ heap'[a] = heap[a]
    <2>1. \A a \in P \cap Live : Freeable(a)
      BY <1>1 DEF Freeable
    <2>2. ASSUME NEW q \in Live \cap PkgPtr, heap[q].home \in P PROVE q \in P
      BY <1>1, <1>2, <2>2, AddressAssumption DEF HeapInv, None
    <2>3. DOMAIN NoNew = {}
      BY DEF NoNew
    <2> HIDE DEF P
    <2>4. QED
      BY <1>1, <1>2, <2>1, <2>2, <2>3, HeapStep
  <1>4. TransInv'
    <2>1. \A q \in trans.add \cup trans.rem : q \in Live \ P
      BY <1>1, <1>2 DEF TransInv
    <2>2. QED
      BY <1>1, <1>2, <1>3, <2>1, TransKept
  <1>5. /\ pid \in S /\ S \subseteq Ids /\ Closed(S)
        /\ \A i \in S : i # pid => tab[i].tag \notin {"HANDLE", "DB"}
    BY <1>1, <1>2, BelowFacts, BelowKinds
  <1>6. ASSUME NEW i \in Ids \ S, i \notin dangling, tab[i].ptr \in P
        PROVE  Misfiled(i)
    <2>1. tab[i].ptr = p /\ heap[p].origin = "file"
      BY <1>6
    <2>2. tab[i].tag = "PKG"
      BY <1>1, <1>6, <2>1, TagOf
    <2>3. QED
      BY <1>1, <1>2, <1>5, <1>6, <2>1, <2>2, TreeFacts
  <1>7. \A i \in S : tab[i].tag \notin {"HANDLE", "DB"}
    BY <1>1, <1>5
  <1>8. call.op # "commit" /\ cbreg' \subseteq cbreg /\ FreedBut(P, {})
    BY <1>1 DEF Idle, Freed
  <1> HIDE DEF S, P
  <1>9. QED
    BY <1>1, <1>3, <1>4, <1>5, <1>6, <1>7, <1>8, DropsKeeps

\* A free of packages nobody belongs to keeps the heap in order.
LEMMA PkgsFreed ==
  ASSUME HeapInv, NEW P, heap' = Heap(P, NoNew),
         \A p \in P : p \in PkgPtr /\ p \in Live /\ heap[p].origin # "record"
  PROVE  /\ HeapInv'
         /\ \A a \in Live \ P : a \in DOMAIN heap' /\ heap'[a] = heap[a]
  <1>1. \A a \in P \cap Live : Freeable(a)
    BY DEF Freeable
  <1>2. ASSUME NEW q \in Live \cap PkgPtr, heap[q].home \in P PROVE q \in P
    BY <1>2, AddressAssumption DEF HeapInv, None
  <1>3. DOMAIN NoNew = {}
    BY DEF NoNew
  <1>4. QED
    BY <1>1, <1>2, <1>3, HeapStep

\* The drops of packages by pointer keep the invariant when all that is freed is
\* dropped.
LEMMA PkgsDropped ==
  ASSUME IInv, call.op # "commit", call' = Idle, NEW P, heap' = Heap(P, NoNew),
         \A p \in P : p \in Live \cap PkgPtr /\ heap[p].origin # "record",
         Drops(ByPtr(P, "PKG")), cbreg' = cbreg, Freed(P), TransInv'
  PROVE  IInv'
  <1> DEFINE S == ByPtr(P, "PKG")
  <1>1. TP!IInv /\ HeapInv
    BY DEF IInv
  <1>2. /\ HeapInv'
        /\ \A a \in Live \ P : a \in DOMAIN heap' /\ heap'[a] = heap[a]
    BY <1>1, PkgsFreed
  <1>3. /\ S \subseteq Ids /\ Closed(S)
        /\ \A i \in Ids : tab[i].ptr \in P /\ tab[i].tag = "PKG" => i \in S
        /\ \A i \in S : tab[i].tag \notin {"HANDLE", "DB"}
    BY <1>1, ByPtrFacts
  <1>4. ASSUME NEW i \in Ids \ S, i \notin dangling, tab[i].ptr \in P
        PROVE  Misfiled(i)
    BY <1>3, <1>4, TagOf
  <1>5. FreedBut(P, {})
    BY DEF Freed
  <1> HIDE DEF S
  <1>6. QED
    BY <1>2, <1>3, <1>4, <1>5, DropsKeeps DEF S

\* alpm_trans_release keeps the invariant.
LEMMA TransReleaseStep ==
  ASSUME IInv, NEW hid \in Ids, TransRelease(hid)
  PROVE  IInv'
  <1> DEFINE P == {p \in trans.add : heap[p].origin = "file"} \cup trans.rem
  <1>1. /\ call = Idle /\ call' = Idle /\ heap' = Heap(P, NoNew) /\ trans' = NoTrans
        /\ Drops(ByPtr(P, "PKG")) /\ cbreg' = cbreg /\ Freed(P)
    BY DEF TransRelease, ReleaseVictims
  <1>2. \A p \in P : p \in Live \cap PkgPtr /\ heap[p].origin # "record"
    BY DEF IInv, TransInv
  <1>3. TransInv'
    BY <1>1 DEF TransInv, NoTrans
  <1>4. call.op # "commit"
    BY <1>1 DEF Idle
  <1> HIDE DEF P
  <1>5. QED
    BY <1>1, <1>2, <1>3, <1>4, PkgsDropped

\* The client's answer to a question keeps the invariant.
LEMMA AnswerStep ==
  ASSUME IInv, Answer
  PROVE  IInv'
  <1> DEFINE P == call.dying
  <1>1. /\ call.op = "question" /\ call' = Idle /\ heap' = Heap(P, NoNew) /\ trans' = trans
        /\ Drops(ByPtr(P, "PKG")) /\ cbreg' = cbreg /\ Freed(P)
    BY DEF Answer, Answered
  <1>2. HeapInv /\ TransInv /\ CallInv
    BY DEF IInv
  <1>3. \A p \in P : /\ p \in Live \cap PkgPtr /\ heap[p].origin = "copy"
                     /\ p \notin trans.rem /\ p \notin trans.add
    BY <1>1, <1>2 DEF CallInv, TransInv
  <1>4. TransInv'
    <2>1. \A a \in Live \ P : a \in DOMAIN heap' /\ heap'[a] = heap[a]
      BY <1>1, <1>2, <1>3, PkgsFreed
    <2>2. \A q \in trans.add \cup trans.rem : q \in Live \ P
      BY <1>2, <1>3 DEF TransInv
    <2>3. QED
      BY <1>1, <1>2, <2>1, <2>2, TransKept
  <1>5. QED
    BY <1>1, <1>3, <1>4, PkgsDropped

\* The table's invariant is about its own variables.
LEMMA TableQuiet ==
  ASSUME TP!IInv, UNCHANGED tvars
  PROVE  TP!IInv'
  BY DEF tvars, TP!IInv, TP!TypeOK, TP!OwnersLive, TP!OneIdPerObject, TP!AdoptedHeld,
         TP!CallbacksOfLiveHandles, TP!Resolves

\* A step that leaves the table alone and frees nothing.
LEMMA HeapKeeps ==
  ASSUME IInv, UNCHANGED <<tvars, dangling, stray, forgotten, refused>>, call = Idle,
         HeapInv', \A a \in Live : a \in DOMAIN heap' /\ heap'[a] = heap[a],
         TransInv', CallInv'
  PROVE  IInv'
  <1>1. TP!IInv' /\ tab' = tab /\ dangling' = dangling /\ stray' = stray /\ forgotten' = forgotten /\ refused' = refused
    BY TableQuiet DEF IInv, tvars
  <1>2. KindInv' /\ LiveInv'
    <2>1. KindInv /\ LiveInv
      BY DEF IInv
    <2>2. KindInv'
      BY <1>1, <2>1 DEF KindInv, Ids
    <2>3. \A i \in Ids \ dangling : heap'[tab[i].ptr] = heap[tab[i].ptr] /\ tab[i].ptr \in DOMAIN heap'
      BY <2>1 DEF LiveInv
    <2>4. LiveInv'
      BY <1>1, <2>1, <2>3 DEF LiveInv, Ids, Live
    <2>5. QED
      BY <2>2, <2>4
  <1>3. ForgottenInv'
    BY <1>1 DEF IInv, ForgottenInv, Live
  <1>4. StaleOnlyIfStray'
    BY <1>1 DEF IInv, StaleOnlyIfStray, Idle
  <1>5. up' = TRUE
    BY DEF IInv, tvars
  <1>6. QED
    BY <1>1, <1>2, <1>3, <1>4, <1>5 DEF IInv

\* A step that leaves the table and the heap alone.
LEMMA TransKeeps ==
  ASSUME IInv, UNCHANGED <<tvars, heap, dangling, stray, forgotten, refused>>, call = Idle,
         TransInv', CallInv'
  PROVE  IInv'
  <1>1. HeapInv'
    BY DEF IInv, HeapInv, Live
  <1>2. QED
    BY <1>1, HeapKeeps DEF Live

\* libalpm's reading of a database's packages keeps the invariant.
LEMMA LoadCacheStep ==
  ASSUME IInv, NEW d \in DbPtr, NEW P \in SUBSET PkgPtr, NEW pkgs \in [P -> Name],
         LoadCache(d, pkgs)
  PROVE  IInv'
  <1> DEFINE new == [p \in DOMAIN pkgs |-> Object(d, heap[d].origin, pkgs[p])]
  <1>1. /\ d \in Live /\ DOMAIN pkgs \cap Live = {} /\ call = Idle /\ call' = call
        /\ trans' = trans /\ heap' = Heap({}, new)
        /\ UNCHANGED <<tvars, dangling, stray, forgotten, refused>>
    BY DEF LoadCache
  <1>2. HeapInv /\ TransInv
    BY DEF IInv
  <1>3. heap[d].origin \in {"local", "sync"}
    BY <1>1, <1>2 DEF HeapInv
  <1>4. /\ HeapInv'
        /\ \A b \in Live : b \in DOMAIN heap' /\ heap'[b] = heap[b]
    <2>1. /\ DOMAIN new = P
          /\ \A a \in P : new[a].origin = heap[d].origin /\ new[a].home = d
      BY DEF Object
    <2> HIDE DEF new
    <2>2. \A a \in DOMAIN new : a \notin Live \ {} /\ Fit({}, new, a)
      BY <1>1, <1>3, <2>1 DEF Fit
    <2>3. /\ HeapInv'
          /\ \A b \in Live \ {} : b \in DOMAIN heap' /\ heap'[b] = heap[b]
      BY <1>1, <1>2, <2>2, HeapStep
    <2>4. QED
      BY <2>3
  <1>5. TransInv'
    BY <1>1, <1>2, <1>4, TransKept DEF TransInv
  <1>6. CallInv'
    BY <1>1 DEF CallInv, Idle
  <1>7. QED
    BY <1>1, <1>4, <1>5, <1>6, HeapKeeps

\* alpm_trans_init keeps the invariant.
LEMMA TransInitStep ==
  ASSUME IInv, NEW hid \in Ids, TransInit(hid)
  PROVE  IInv'
  <1>1. TransInv'
    BY DEF TransInit, TransInv, NoTrans
  <1>2. CallInv'
    BY DEF TransInit, CallInv, Idle
  <1>3. QED
    BY <1>1, <1>2, TransKeeps DEF TransInit

\* A new target of the transaction that is a live package of a name not yet there.
LEMMA TargetAdded ==
  ASSUME IInv, NEW p, p \in Live \cap PkgPtr, heap[p].origin \in {"file", "sync"},
         NewTarget(p, trans.add), trans' = [trans EXCEPT !.add = @ \cup {p}],
         call = Idle, UNCHANGED <<tvars, heap, call, dangling, stray, forgotten, refused>>
  PROVE  IInv'
  <1>1. TransInv
    BY DEF IInv
  <1>2. \A q \in trans.add : heap[q].name # heap[p].name
    BY DEF NewTarget, NamesOf
  <1>3. trans' = [st |-> trans.st, add |-> trans.add \cup {p}, rem |-> trans.rem]
    BY <1>1 DEF TransInv
  <1>4. trans'.st = trans.st /\ trans'.add = trans.add \cup {p} /\ trans'.rem = trans.rem
    BY <1>3
  <1>5. \A q, r \in trans'.add : heap[q].name = heap[r].name => q = r
    BY <1>1, <1>2, <1>4 DEF TransInv
  <1>6. TransInv'
    BY <1>1, <1>3, <1>4, <1>5 DEF TransInv, Live
  <1>7. CallInv'
    BY DEF CallInv, Idle
  <1>8. QED
    BY <1>6, <1>7, TransKeeps

\* alpm_add_pkg keeps the invariant.
LEMMA AddPkgStep ==
  ASSUME IInv, NEW pid \in Ids, AddPkg(pid)
  PROVE  IInv'
  <1>1. tab[pid].ptr \in Live \cap PkgPtr
    BY ArgFacts DEF AddPkg
  <1>2. QED
    BY <1>1, TargetAdded DEF AddPkg

\* alpm_sync_sysupgrade keeps the invariant.
LEMMA SyncSysupgradeStep ==
  ASSUME IInv, NEW hid \in Ids, NEW p \in PkgPtr, SyncSysupgrade(hid, p)
  PROVE  IInv'
  <1>1. p \in Cached(Dbs("sync")) /\ Dbs("sync") \subseteq DbPtr /\ HeapInv
    BY DEF SyncSysupgrade, Dbs, IInv
  <1>2. p \in Live \cap PkgPtr /\ heap[p].origin = "sync"
    BY <1>1, CachedIs DEF Dbs
  <1>3. QED
    BY <1>2, TargetAdded DEF SyncSysupgrade

\* alpm_remove_pkg keeps the invariant.
LEMMA RemovePkgStep ==
  ASSUME IInv, NEW pid \in Ids, NEW c \in PkgPtr, RemovePkg(pid, c)
  PROVE  IInv'
  <1> DEFINE name == heap[tab[pid].ptr].name
  <1>1. /\ tab[pid].ptr \in Live /\ c \notin Live /\ call = Idle /\ call' = call
        /\ heap' = Heap({}, New(c, Object(None, "copy", name)))
        /\ trans' = [trans EXCEPT !.rem = @ \cup {c}]
        /\ UNCHANGED <<tvars, dangling, stray, forgotten, refused>>
    BY ArgFacts DEF RemovePkg
  <1> HIDE DEF name
  <1>2. HeapInv /\ TransInv /\ Live # {}
    BY <1>1 DEF IInv
  <1>3. /\ HeapInv'
        /\ \A b \in Live : b \in DOMAIN heap' /\ heap'[b] = heap[b]
        /\ DOMAIN heap' = Live \cup {c}
        /\ heap'[c].origin = "copy" /\ heap'[c].home = None /\ heap'[c].name = name
    BY <1>1, <1>2, AllocStep
  <1>4. trans' = [st |-> trans.st, add |-> trans.add, rem |-> trans.rem \cup {c}]
    BY <1>1, <1>2 DEF TransInv
  <1>5. trans'.st = trans.st /\ trans'.add = trans.add /\ trans'.rem = trans.rem \cup {c}
    BY <1>4
  <1>6. \A p \in trans.add \cup trans.rem : p \in DOMAIN heap' /\ heap'[p] = heap[p]
    BY <1>2, <1>3 DEF TransInv
  <1>7. TransInv'
    BY <1>2, <1>3, <1>4, <1>5, <1>6 DEF TransInv, Live
  <1>8. CallInv'
    BY <1>1 DEF CallInv, Idle
  <1>9. QED
    BY <1>1, <1>3, <1>7, <1>8, HeapKeeps

\* alpm_trans_commit up to the call: the pre hook notes what is to be replaced.
LEMMA CommitBeginStep ==
  ASSUME IInv, NEW hid \in Ids, CommitBegin(hid)
  PROVE  IInv'
  <1>1. /\ call = Idle /\ UNCHANGED <<tvars, heap, trans, dangling, stray, forgotten, refused>>
        /\ call' = [op |-> "commit", dying |-> CommitVictims,
                    todo |-> trans.add \cup trans.rem, done |-> {}]
    BY DEF CommitBegin
  <1>2. HeapInv /\ TransInv /\ StaleOnlyIfStray
    BY DEF IInv
  <1>3. TransInv'
    BY <1>1, <1>2 DEF TransInv, Live
  <1>4. dangling \subseteq stray
    BY <1>1, <1>2 DEF StaleOnlyIfStray, Idle
  <1>5. ASSUME NEW x \in trans.add \cup trans.rem, NEW p \in Live \cap PkgPtr,
               heap[p].origin = "local", heap[p].name = heap[x].name
        PROVE  p \in CommitVictims
    <2>1. heap[p].name \in NamesOf(trans.add \cup trans.rem)
      BY <1>5 DEF NamesOf
    <2>2. QED
      BY <1>2, <1>5, <2>1, InstalledIs DEF CommitVictims
  <1>6. /\ call'.op = "commit" /\ call'.dying = CommitVictims
        /\ call'.todo = trans.add \cup trans.rem /\ call'.done = {}
        /\ call' = [op |-> call'.op, dying |-> call'.dying,
                    todo |-> call'.todo, done |-> call'.done]
    BY <1>1
  <1>7. CallInv'
    BY <1>1, <1>4, <1>5, <1>6 DEF CallInv, Live
  <1>8. QED
    BY <1>1, <1>3, <1>7, TransKeeps

\* arpc.set_callback keeps the invariant.
LEMMA SetCallbackStep ==
  ASSUME IInv, NEW hid \in Ids, NEW enabled \in BOOLEAN, SetCallback(hid, enabled)
  PROVE  IInv'
  <1>1. /\ tab[hid].tag = "HANDLE"
        /\ cbreg' = IF enabled THEN cbreg \cup {hid} ELSE cbreg \ {hid}
        /\ UNCHANGED <<tab, next_seq, next_root, owed, up>>
        /\ UNCHANGED <<heap, trans, call, dangling, stray, forgotten, refused>>
    <2>1. hid # T!NoId
      BY TP!NoIdNotLive, BoundAssumption, SameConstants DEF IInv, TP!IInv, TP!TypeOK, Ids
    <2>2. QED
      BY <2>1 DEF SetCallback, T!CbSet, T!Resolves
  <1>2. TP!IInv'
    <2>1. hid \in TP!Id
      BY DEF IInv, TP!IInv, TP!TypeOK, Ids
    <2>2. cbreg' \subseteq cbreg \cup {hid}
      BY <1>1
    <2>3. TP!CallbacksOfLiveHandles'
      BY <1>1, <2>2 DEF IInv, TP!IInv, TP!CallbacksOfLiveHandles, TP!Resolves, Ids
    <2>4. TP!TypeOK'
      BY <1>1, <2>1, <2>2 DEF IInv, TP!IInv, TP!TypeOK
    <2>5. QED
      BY <1>1, <2>3, <2>4 DEF IInv, TP!IInv, TP!OwnersLive, TP!OneIdPerObject, TP!AdoptedHeld
  <1>3. /\ KindInv' /\ LiveInv' /\ HeapInv' /\ TransInv' /\ CallInv' /\ ForgottenInv'
        /\ StaleOnlyIfStray'
    BY <1>1 DEF IInv, KindInv, LiveInv, HeapInv, TransInv, CallInv, ForgottenInv,
                StaleOnlyIfStray, Ids, Live, Idle
  <1>4. QED
    BY <1>1, <1>2, <1>3 DEF IInv

\* One target of a commit: what it frees the pre hook has noted, and what it
\* allocates bears no name that is still to be replaced.
LEMMA CommitTargetStep ==
  ASSUME IInv, NEW t \in PkgPtr, NEW fresh \in PkgPtr, CommitTarget(t, fresh)
  PROVE  IInv'
  <1> DEFINE old == Installed({heap[t].name})
             d == CHOOSE x \in Dbs("local") : TRUE
             new == IF t \in trans.add
                    THEN New(fresh, Object(d, "local", heap[t].name)) ELSE NoNew
  <1>1. /\ call.op = "commit" /\ t \in call.todo
        /\ t \in trans.add => /\ fresh \notin Live \ old /\ trans.rem \cap call.todo = {}
                              /\ Dbs("local") # {}
        /\ heap' = Heap(old, new)
        /\ call' = [call EXCEPT !.todo = @ \ {t}, !.done = @ \cup {t}]
        /\ UNCHANGED tvars /\ trans' = trans /\ Freed(old)
    BY DEF CommitTarget
  <1>2. /\ TP!IInv /\ KindInv /\ LiveInv /\ HeapInv /\ TransInv /\ CallInv
        /\ ForgottenInv /\ StaleOnlyIfStray
    BY DEF IInv
  <1>3. old = {p \in Live \cap PkgPtr : heap[p].origin = "local" /\ heap[p].name = heap[t].name}
    BY <1>2, InstalledIs
  <1>4. old \subseteq call.dying
    BY <1>1, <1>2, <1>3 DEF CallInv
  <1>5. t \in trans.add \cup trans.rem /\ t \in Live
    BY <1>1, <1>2 DEF CallInv, TransInv
  <1>6. t \in trans.add => d \in Live \cap DbPtr /\ heap[d].origin = "local"
    <2>1. t \in trans.add => d \in Dbs("local")
      BY <1>1
    <2>2. QED
      BY <2>1 DEF Dbs
  <1>7. /\ t \in trans.add => /\ DOMAIN new = {fresh} /\ new[fresh].home = d
                              /\ new[fresh].origin = "local"
                              /\ new[fresh].name = heap[t].name
        /\ t \notin trans.add => DOMAIN new = {}
    BY DEF New, Object, NoNew
  <1> HIDE DEF old, new, d
  <1>8. /\ HeapInv'
        /\ \A a \in Live \ old : a \in DOMAIN heap' /\ heap'[a] = heap[a]
    <2>1. \A a \in old \cap Live : Freeable(a)
      BY <1>3 DEF Freeable
    <2>2. ASSUME NEW p \in Live \cap PkgPtr, heap[p].home \in old PROVE p \in old
      BY <1>2, <1>3, <2>2, AddressAssumption DEF HeapInv, None
    <2>3. t \in trans.add => d \in (Live \ old) \cap DbPtr
      BY <1>3, <1>6, AddressAssumption
    <2>4. \A a \in DOMAIN new : a \notin Live \ old /\ Fit(old, new, a)
      BY <1>1, <1>6, <1>7, <2>3 DEF Fit
    <2>5. QED
      BY <1>1, <1>2, <1>5, <2>1, <2>2, <2>4, HeapStep
  <1>9. /\ DOMAIN heap' = (Live \ old) \cup DOMAIN new
        /\ \A a \in DOMAIN new : heap'[a] = new[a]
    BY <1>1, HeapAt, Zenon
  <1>10. \A p \in trans.add \cup trans.rem :
            p \in Live \ old /\ p \in DOMAIN heap' /\ heap'[p] = heap[p]
    <2>1. \A p \in trans.add \cup trans.rem : p \in Live \ old
      BY <1>2, <1>3 DEF TransInv
    <2>2. QED
      BY <1>8, <2>1
  <1>11. TransInv'
    BY <1>1, <1>2, <1>10, TransKept
  <1>12. /\ call' = [op |-> "commit", dying |-> call.dying, todo |-> call.todo \ {t},
                     done |-> call.done \cup {t}]
    BY <1>1, <1>2 DEF CallInv
  <1>13. /\ call'.op = "commit" /\ call'.dying = call.dying
         /\ call'.todo = call.todo \ {t} /\ call'.done = call.done \cup {t}
         /\ call' = [op |-> call'.op, dying |-> call'.dying,
                     todo |-> call'.todo, done |-> call'.done]
    BY <1>12
  <1>14. ASSUME NEW x \in call.todo \ {t}, NEW p \in DOMAIN heap' \cap PkgPtr,
                heap'[p].origin = "local", heap'[p].name = heap'[x].name
         PROVE  p \in call.dying
    <2>1. x \in trans.add \cup trans.rem /\ heap'[x] = heap[x]
      BY <1>1, <1>2, <1>10 DEF CallInv
    <2>2. CASE p \in DOMAIN new
      <3>1. t \in trans.add /\ heap'[p].name = heap[t].name
        BY <1>7, <1>9, <2>2
      <3>2. x \in trans.add
        BY <1>1, <2>1, <3>1
      <3>3. QED
        BY <1>2, <1>14, <2>1, <3>1, <3>2 DEF TransInv
    <2>3. CASE p \in Live \ old
      BY <1>1, <1>2, <1>8, <1>14, <2>1, <2>3 DEF CallInv
    <2>4. QED
      BY <1>9, <2>2, <2>3
  <1>15. CallInv'
    <2>1. call'.todo \subseteq trans.add \cup trans.rem /\ call'.done # {}
      BY <1>1, <1>2, <1>13 DEF CallInv
    <2>2. QED
      BY <1>1, <1>13, <1>14, <2>1 DEF CallInv, Live
  <1>16. TP!IInv' /\ tab' = tab
    BY <1>1, <1>2, TableQuiet DEF tvars
  <1>17. \A i \in Ids \ {} : i \notin dangling /\ tab[i].ptr \in old => tab[i].tag = "PKG"
    BY <1>3, TagOf
  <1>18. /\ KindInv' /\ LiveInv' /\ ForgottenInv'
         /\ \A i \in dangling' :
              /\ i \in Ids \ {}
              /\ i \in dangling \/ (i \notin dangling /\ tab[i].ptr \in old)
         /\ \A i \in Ids \ {} : i \in stray => i \in stray'
    <2> DEFINE none == {}
    <2>1. /\ DOMAIN tab' = Ids \ none /\ \A i \in DOMAIN tab' : tab'[i] = tab[i]
          /\ \A i \in Ids \ none : i \notin dangling /\ tab[i].ptr \in old => tab[i].tag = "PKG"
      BY <1>16, <1>17 DEF Ids
    <2>2. /\ FreedBut(old, none) /\ none \subseteq Live /\ none \subseteq Ids
          /\ \A i \in none : tab[i].tag \in {"HANDLE", "DB"} => tab[i].ptr \in old \cup none
      BY <1>1 DEF Freed
    <2> HIDE DEF none
    <2>3. /\ KindInv' /\ LiveInv' /\ ForgottenInv'
          /\ \A i \in dangling' :
               /\ i \in Ids \ none
               /\ i \in dangling \/ (i \notin dangling /\ tab[i].ptr \in old)
          /\ \A i \in Ids \ none : i \in stray => i \in stray'
      BY <1>2, <1>8, <2>1, <2>2, DropGhosts
    <2>4. QED
      BY <2>3 DEF none
  <1>19. StaleOnlyIfStray'
    BY <1>2, <1>4, <1>13, <1>16, <1>18 DEF StaleOnlyIfStray
  <1>20. up' = TRUE
    BY <1>1 DEF IInv, tvars
  <1>21. QED
    BY <1>8, <1>11, <1>15, <1>16, <1>18, <1>19, <1>20 DEF IInv

\* The post hook of a commit takes the ids of what it freed.
LEMMA CommitEndStep ==
  ASSUME IInv, NEW hid \in Ids, NEW touchedNothing \in BOOLEAN,
         CommitEnd(hid, touchedNothing)
  PROVE  IInv'
  <1> DEFINE S == IF touchedNothing THEN {} ELSE ByPtr(call.dying, "PKG")
  <1>1. /\ call.op = "commit" /\ (touchedNothing => call.done = {})
        /\ Drops(S) /\ call' = Idle /\ trans' = [trans EXCEPT !.st = "done"]
        /\ Freed({}) /\ cbreg' = cbreg /\ heap' = heap
    BY DEF CommitEnd
  <1>2. /\ TP!IInv /\ KindInv /\ LiveInv /\ HeapInv /\ TransInv /\ CallInv
        /\ ForgottenInv /\ StaleOnlyIfStray
    BY DEF IInv
  <1>3. /\ S \subseteq Ids /\ Closed(S)
        /\ ~touchedNothing =>
             \A i \in Ids : tab[i].ptr \in call.dying /\ tab[i].tag = "PKG" => i \in S
        /\ \A i \in S : tab[i].tag \notin {"HANDLE", "DB"}
    <2>1. CASE touchedNothing
      BY <2>1, TreeFacts, <1>2 DEF Closed
    <2>2. CASE ~touchedNothing
      BY <1>2, <2>2, ByPtrFacts
    <2>3. QED
      BY <2>1, <2>2
  <1> HIDE DEF S
  <1>4. /\ TP!IInv' /\ DOMAIN tab' = Ids \ S
        /\ \A i \in DOMAIN tab' : tab'[i] = tab[i]
    BY <1>1, <1>2, <1>3, DropsStep
  <1>5. up' = TRUE
    BY <1>1 DEF Drops, IInv
  <1>6. /\ KindInv' /\ LiveInv' /\ ForgottenInv'
        /\ \A i \in dangling' :
              /\ i \in Ids \ S
              /\ i \in dangling \/ (i \notin dangling /\ tab[i].ptr \in {})
        /\ \A i \in Ids \ S : i \in stray => i \in stray'
    <2>1. \A a \in Live \ {} : a \in DOMAIN heap' /\ heap'[a] = heap[a]
      BY <1>1 DEF Live
    <2> DEFINE none == {}
    <2>2. /\ FreedBut(none, none) /\ none \subseteq Live
          /\ \A a \in Live \ none : a \in DOMAIN heap' /\ heap'[a] = heap[a]
          /\ \A i \in S : tab[i].tag \in {"HANDLE", "DB"} => tab[i].ptr \in none \cup none
          /\ \A i \in Ids \ S : i \notin dangling /\ tab[i].ptr \in none => tab[i].tag = "PKG"
      BY <1>1, <1>3, <2>1 DEF Freed
    <2> HIDE DEF none
    <2>3. /\ KindInv' /\ LiveInv' /\ ForgottenInv'
          /\ \A i \in dangling' :
               /\ i \in Ids \ S
               /\ i \in dangling \/ (i \notin dangling /\ tab[i].ptr \in none)
          /\ \A i \in Ids \ S : i \in stray => i \in stray'
      BY <1>2, <1>3, <1>4, <2>2, DropGhosts
    <2>4. QED
      BY <2>3 DEF none
  <1>7. ASSUME NEW i \in dangling' PROVE i \in stray'
    <2>1. i \in dangling /\ i \in Ids \ S
      BY <1>6
    <2>2. i \in stray \/ tab[i].ptr \in call.dying
      BY <1>2, <2>1 DEF StaleOnlyIfStray
    <2>3. tab[i].tag = "PKG"
      BY <1>2, <2>1 DEF LiveInv
    <2>4. touchedNothing => i \in stray
      BY <1>1, <1>2, <2>1 DEF CallInv
    <2>5. i \in stray
      BY <1>3, <2>1, <2>2, <2>3, <2>4
    <2>6. QED
      BY <1>6, <2>1, <2>5
  <1>8. StaleOnlyIfStray'
    BY <1>7 DEF StaleOnlyIfStray
  <1>9. HeapInv'
    BY <1>1, <1>2 DEF HeapInv, Live
  <1>10. TransInv'
    <2>1. trans' = [st |-> "done", add |-> trans.add, rem |-> trans.rem]
      BY <1>1, <1>2 DEF TransInv
    <2>2. QED
      BY <1>1, <1>2, <2>1 DEF TransInv, Live
  <1>11. CallInv'
    BY <1>1 DEF CallInv, Idle
  <1>12. QED
    BY <1>4, <1>5, <1>6, <1>8, <1>9, <1>10, <1>11 DEF IInv

\* alpm_db_update keeps the invariant.
LEMMA DbUpdateStep ==
  ASSUME IInv, NEW hid \in Ids, NEW dids \in SUBSET Ids, NEW rc \in {-1, 0, 1},
         NEW fetched \in SUBSET dids, DbUpdate(hid, dids, fetched, rc)
  PROVE  IInv'
  <1> DEFINE D == {tab[i].ptr : i \in fetched}
             P == Cached(D)
             U == UpdatedDbs(dids, rc)
             S == UNION {T!Below(tab, i) \ {i} : i \in U}
  <1>1. /\ call = Idle /\ call' = Idle /\ trans' = trans
        /\ \A i \in dids : Arg(i, "DB")
        /\ \A i \in fetched : heap[tab[i].ptr].origin = "sync"
        /\ rc = 1 => fetched = {}
        /\ trans # NoTrans => fetched = {}
        /\ heap' = Heap(P, NoNew) /\ Drops(S) /\ Freed(P) /\ cbreg' = cbreg
    BY DEF DbUpdate
  <1>2. TP!IInv /\ HeapInv /\ TransInv
    BY DEF IInv
  <1>3. /\ U \subseteq dids /\ fetched \subseteq U
    BY <1>1 DEF UpdatedDbs
  <1>4. \A i \in dids : i \in Ids /\ tab[i].tag = "DB" /\ tab[i].ptr \in Live \cap DbPtr
    BY <1>1, ArgFacts
  <1>5. \A p \in P : /\ p \in Live \cap PkgPtr /\ heap[p].origin = "sync"
                     /\ \E i \in fetched : heap[p].home = tab[i].ptr
    <2>1. D \subseteq DbPtr
      BY <1>4
    <2>2. QED
      BY <1>1, <1>2, <1>4, <2>1, CachedIs
  <1>6. /\ HeapInv'
        /\ \A a \in Live \ P : a \in DOMAIN heap' /\ heap'[a] = heap[a]
    BY <1>1, <1>2, <1>5, PkgsFreed
  <1>7. TransInv'
    <2>1. CASE trans = NoTrans
      BY <1>1, <1>2, <2>1, TransKept DEF NoTrans
    <2>2. CASE trans # NoTrans
      <3>1. P = {}
        BY <1>1, <1>5, <2>2
      <3>2. \A p \in trans.add \cup trans.rem : p \in Live \ P
        BY <1>2, <3>1 DEF TransInv
      <3>3. QED
        BY <1>1, <1>2, <1>6, <3>2, TransKept
    <2>3. QED
      BY <2>1, <2>2
  <1> HIDE DEF U, P
  <1>8. \A i : i \in S <=> \E u \in U : i \in T!Below(tab, u) \ {u}
    OBVIOUS
  <1> HIDE DEF S
  <1>9. ASSUME NEW i \in S PROVE i \in Ids /\ tab[i].tag \notin {"HANDLE", "DB"}
    <2>1. PICK u \in U : i \in T!Below(tab, u) \ {u}
      BY <1>8, <1>9
    <2>2. u \in Ids /\ tab[u].tag = "DB"
      BY <1>3, <1>4
    <2>3. QED
      BY <1>2, <2>1, <2>2, BelowFacts, BelowKinds
  <1>10. ASSUME NEW i \in Ids, tab[i].owner \in S PROVE i \in S
    <2>1. PICK u \in U : tab[i].owner \in T!Below(tab, u) \ {u}
      BY <1>8, <1>10
    <2>2. u \in Ids
      BY <1>3, <1>4
    <2>3. i \in T!Below(tab, u) \ {u}
      BY <1>2, <2>1, <2>2, UnderFacts DEF Closed
    <2>4. QED
      BY <1>8, <2>3
  <1>11. S \subseteq Ids /\ Closed(S)
    BY <1>9, <1>10 DEF Closed
  <1>12. ASSUME NEW i \in Ids \ S, i \notin dangling, tab[i].ptr \in P
         PROVE  Misfiled(i)
    <2>1. PICK f \in fetched : heap[tab[i].ptr].home = tab[f].ptr
      BY <1>5, <1>12
    <2>2. f \in U /\ f \in Ids /\ tab[f].tag = "DB"
      BY <1>3, <1>4
    <2>3. Misfiled(i) \/ tab[i].owner = f
      BY <1>5, <1>12, <2>1, <2>2, Homed
    <2>4. ASSUME tab[i].owner = f PROVE FALSE
      <3>1. tab[i].tag = "PKG"
        BY <1>5, <1>12, TagOf
      <3>2. i \in T!Below(tab, f) \ {f}
        BY <1>2, <1>12, <2>2, <2>4, <3>1, BelowFacts DEF Closed
      <3>3. QED
        BY <1>8, <1>12, <2>2, <3>2
    <2>5. QED
      BY <2>3, <2>4
  <1>13. \A i \in S : tab[i].tag \notin {"HANDLE", "DB"}
    BY <1>9
  <1>14. call.op # "commit" /\ cbreg' \subseteq cbreg /\ FreedBut(P, {})
    BY <1>1 DEF Idle, Freed
  <1>15. QED
    BY <1>1, <1>6, <1>7, <1>11, <1>12, <1>13, <1>14, DropsKeeps

\* A record of conflicts and its copy of a package are kept for the client.
LEMMA CheckConflictsStep ==
  ASSUME IInv, NEW hid \in Ids, NEW r \in PkgPtr, NEW c \in PkgPtr, NEW n \in Name,
         CheckConflicts(hid, r, c, n)
  PROVE  IInv'
  <1> DEFINE o   == T!Ancestor(tab, hid, T!ParentTag["PKG"])
             st1 == Put(T!Table, c, "PKG", o)
             st2 == Kept(st1, r, o)
             new == [a \in {r, c} |-> IF a = r THEN Object(None, "record", None)
                                      ELSE Object(r, "copy", n)]
  <1>1. /\ call = Idle /\ call' = call /\ trans' = trans /\ Arg(hid, "HANDLE")
        /\ r # c /\ r \notin Live /\ c \notin Live
        /\ heap' = Heap({}, new) /\ T!Becomes(st2)
        /\ owed' = owed \cup {r} /\ UNCHANGED <<cbreg, up>> /\ Freed({})
    BY DEF CheckConflicts
  <1>2. /\ TP!IInv /\ KindInv /\ LiveInv /\ HeapInv /\ TransInv
        /\ ForgottenInv /\ StaleOnlyIfStray
    BY DEF IInv
  <1>3. /\ DOMAIN new = {r, c}
        /\ new[r].home = None /\ new[r].origin = "record"
        /\ new[c].home = r /\ new[c].origin = "copy"
    BY <1>1 DEF Object
  <1>4. Live # {}
    BY <1>1, ArgFacts
  <1>5. Owns(tab, o, "PKG") /\ Owns(tab, o, "NONE")
    <2>1. Owns(tab, o, "PKG")
      BY OwnerFound
    <2>2. T!ParentTag["PKG"] = T!ParentTag["NONE"]
      BY DEF T!ParentTag
    <2>3. QED
      BY <2>1, <2>2, OwnerFound
  <1> HIDE DEF new, o
  <1>6. SoundRec(T!Table) /\ T!Table.tab = tab
    <2>1. TP!Sound(T!Table)
      BY <1>2, TP!IInvSound, BoundAssumption, SameConstants
    <2>2. QED
      BY <2>1 DEF SoundRec, T!Table
  <1>7. SoundRec(st1) /\ Adds(tab, st1.tab, {c}, "PKG")
    BY <1>5, <1>6, PutSound
  <1> HIDE DEF st1
  <1>8. Owns(st1.tab, o, "NONE")
    BY <1>5, <1>7, OwnsGrown DEF Adds
  <1>9. \A i \in DOMAIN st1.tab : st1.tab[i].ptr = r => st1.tab[i].tag # "NONE"
    <2>1. \A i \in Ids : tab[i].ptr = r => tab[i].tag # "NONE"
      BY <1>1, <1>2 DEF LiveInv
    <2>2. QED
      BY <1>7, <2>1 DEF Adds, TP!Grows, Ids
  <1>10. /\ TP!Sound(st2) /\ TP!Grows(st1.tab, st2.tab)
         /\ \E id : /\ DOMAIN st2.tab = DOMAIN st1.tab \cup {id}
                    /\ id \notin DOMAIN st1.tab
                    /\ st2.tab[id].ptr = r
                    /\ st2.tab[id].tag = "NONE"
                    /\ st2.tab[id].release
    BY <1>7, <1>8, <1>9, KeptSound
  <1> HIDE DEF st2
  <1>11. TP!Becomes(st2) /\ tab' = st2.tab
    BY <1>1, SameBecomes DEF T!Becomes
  <1>12. /\ Ids \subseteq DOMAIN tab'
         /\ \A i \in Ids : tab'[i].ptr = tab[i].ptr /\ tab'[i].tag = tab[i].tag
         /\ \A i \in DOMAIN tab' : i \notin Ids =>
              \/ tab'[i].ptr = c /\ tab'[i].tag = "PKG"
              \/ tab'[i].ptr = r /\ tab'[i].tag = "NONE"
    BY <1>7, <1>10, <1>11 DEF Adds, TP!Grows, Ids
  <1>13. TP!IInv'
    <2>1. TP!Grows(tab, st2.tab)
      BY <1>7, <1>10 DEF Adds, TP!Grows
    <2> DEFINE held == {j \in DOMAIN st2.tab \ DOMAIN tab : st2.tab[j].release}
    <2>2. PICK id : /\ DOMAIN st2.tab = DOMAIN st1.tab \cup {id}
                    /\ id \notin DOMAIN st1.tab
                    /\ st2.tab[id].ptr = r /\ st2.tab[id].release
      BY <1>10
    <2>3. \A j \in DOMAIN st1.tab \ DOMAIN tab : ~st2.tab[j].release
      BY <1>7, <1>10 DEF Adds, TP!Grows
    <2>4. held = {id}
      BY <1>7, <2>2, <2>3 DEF Adds, TP!Grows
    <2>5. owed' = owed \cup {st2.tab[i].ptr : i \in held}
      BY <1>1, <2>2, <2>4
    <2>6. QED
      BY <1>1, <1>2, <1>10, <1>11, <2>1, <2>5, TP!GrowKeepsIInv, BoundAssumption
  <1>14. dangling' = dangling /\ stray' = stray /\ forgotten' = forgotten /\ refused' = refused
    BY <1>1, <1>2, <1>12 DEF Freed, FreedBut, LiveInv, Ids
  <1>15. /\ HeapInv'
         /\ \A a \in Live \ {} : a \in DOMAIN heap' /\ heap'[a] = heap[a]
    <2>1. \A a \in DOMAIN new : a \notin Live \ {} /\ Fit({}, new, a)
      BY <1>1, <1>3 DEF Fit
    <2>2. QED
      BY <1>1, <1>2, <1>4, <2>1, HeapStep
  <1>16. /\ r \in DOMAIN heap' /\ heap'[r].origin = "record"
         /\ c \in DOMAIN heap' /\ heap'[c].origin = "copy"
    <2>1. DOMAIN heap' = (Live \ {}) \cup DOMAIN new /\ \A a \in DOMAIN new : heap'[a] = new[a]
      BY <1>1, HeapAt, Zenon
    <2>2. QED
      BY <1>3, <2>1
  <1>17. KindInv'
    BY <1>2, <1>12 DEF KindInv, Ids
  <1>18. LiveInv'
    <2>1. /\ stray' \subseteq dangling' /\ dangling' \subseteq DOMAIN tab'
          /\ \A i \in dangling' : tab'[i].tag = "PKG"
      BY <1>2, <1>12, <1>14 DEF LiveInv
    <2>2. ASSUME NEW i \in DOMAIN tab', i \notin dangling'
          PROVE  /\ tab'[i].ptr \in DOMAIN heap'
                 /\ tab'[i].tag = "NONE" <=> heap'[tab'[i].ptr].origin = "record"
      <3>1. CASE i \in Ids
        <4>1. /\ tab[i].ptr \in Live
              /\ tab[i].tag = "NONE" <=> heap[tab[i].ptr].origin = "record"
          BY <1>2, <1>14, <2>2, <3>1 DEF LiveInv
        <4>2. QED
          BY <1>12, <1>15, <3>1, <4>1
      <3>2. CASE i \notin Ids
        BY <1>12, <1>16, <2>2, <3>2
      <3>3. QED
        BY <3>1, <3>2
    <2>3. QED
      BY <2>1, <2>2 DEF LiveInv, Ids, Live
  <1>19. ForgottenInv'
    BY <1>2, <1>14, <1>15 DEF ForgottenInv, Live
  <1>20. TransInv'
    <2>1. \A p \in trans.add \cup trans.rem : p \in Live \ {}
      BY <1>2 DEF TransInv
    <2>2. QED
      BY <1>1, <1>2, <1>15, <2>1, TransKept
  <1>21. CallInv' /\ StaleOnlyIfStray'
    <2>1. CallInv'
      BY <1>1 DEF CallInv, Idle
    <2>2. StaleOnlyIfStray'
      BY <1>1, <1>2, <1>14 DEF StaleOnlyIfStray, Idle
    <2>3. QED
      BY <2>1, <2>2
  <1>22. up' = TRUE
    BY <1>1 DEF IInv
  <1>23. QED
    BY <1>13, <1>15, <1>17, <1>18, <1>19, <1>20, <1>21, <1>22 DEF IInv

-----------------------------------------------------------------------------
(* The theorems.                                                           *)

\* Every handler, hook and callback step keeps the invariant.
LEMMA NextIInv ==
  ASSUME IInv, Next
  PROVE  IInv'
  <1>1. CASE \E h \in HandlePtr, d \in DbPtr : Initialize(h, d)
    BY <1>1, InitializeStep
  <1>2. ASSUME NEW id \in Ids,
               \/ Release(id) \/ UnregisterAllSyncdbs(id) \/ TransInit(id)
               \/ CommitBegin(id) \/ TransRelease(id) \/ DbUnregister(id)
               \/ DbGetPkgcache(id) \/ PkgGetDb(id) \/ PkgFree(id) \/ AddPkg(id)
        PROVE  IInv'
    BY <1>2, ReleaseStep, UnregisterAllStep, TransInitStep, CommitBeginStep,
       TransReleaseStep, DbUnregisterStep, DbGetPkgcacheStep, PkgGetDbStep, PkgFreeStep,
       AddPkgStep
  <1>3. ASSUME NEW id \in Ids,
               \/ \E enabled \in BOOLEAN : SetCallback(id, enabled)
               \/ \E touchedNothing \in BOOLEAN : CommitEnd(id, touchedNothing)
               \/ \E origin \in {"local", "sync"} : GetDbs(id, origin)
               \/ \E d \in DbPtr : RegisterSyncdb(id, d)
               \/ \E p \in PkgPtr : SyncSysupgrade(id, p) \/ Event(id, p)
               \/ \E p \in PkgPtr : RemovePkg(id, p)
        PROVE  IInv'
    BY <1>3, SetCallbackStep, CommitEndStep, GetDbsStep, RegisterSyncdbStep,
       SyncSysupgradeStep, EventStep, RemovePkgStep
  <1>4. ASSUME NEW id \in Ids,
               \/ \E p \in PkgPtr, n \in Name : PkgLoad(id, p, n) \/ Ask(id, p, n)
               \/ \E P \in {trans.add, trans.rem} : TransGet(id, P)
               \/ \E r, c \in PkgPtr, n \in Name : CheckConflicts(id, r, c, n)
        PROVE  IInv'
    BY <1>4, PkgLoadStep, AskStep, TransGetStep, CheckConflictsStep
  <1>5. ASSUME NEW id \in Ids, NEW dids \in SUBSET Ids, NEW rc \in {-1, 0, 1},
               NEW fetched \in SUBSET dids, DbUpdate(id, dids, fetched, rc)
        PROVE  IInv'
    BY <1>5, DbUpdateStep
  <1>6. CASE \E i, j \in Ids, p \in PkgPtr : FindDbsSatisfier(<<i, j>>, p)
    BY <1>6, FindDbsSatisfierStep
  <1>7. CASE \E d \in DbPtr, P \in SUBSET PkgPtr :
               \E pkgs \in [P -> Name] : LoadCache(d, pkgs)
    BY <1>7, LoadCacheStep
  <1>8. CASE \E t, fresh \in PkgPtr : CommitTarget(t, fresh)
    BY <1>8, CommitTargetStep
  <1>9. CASE Answer
    BY <1>9, AnswerStep
  <1>10. QED
    BY <1>1, <1>2, <1>3, <1>4, <1>5, <1>6, <1>7, <1>8, <1>9 DEF Next

\* A step that changes nothing keeps the invariant.
LEMMA StutterStep ==
  ASSUME IInv, UNCHANGED vars
  PROVE  IInv'
  <1>1. UNCHANGED <<tvars, heap, trans, call, dangling, stray, forgotten, refused>>
    BY DEF vars
  <1>2. TP!IInv' /\ tab' = tab
    BY <1>1, TableQuiet DEF IInv, tvars
  <1>3. /\ KindInv' /\ LiveInv' /\ HeapInv' /\ TransInv' /\ CallInv' /\ ForgottenInv'
        /\ StaleOnlyIfStray'
    BY <1>1, <1>2 DEF IInv, KindInv, LiveInv, HeapInv, TransInv, CallInv, ForgottenInv,
                StaleOnlyIfStray, Ids, Live, Idle
  <1>4. up' = TRUE
    BY <1>1 DEF IInv, tvars
  <1>5. QED
    BY <1>2, <1>3, <1>4 DEF IInv

\* The handlers of the generated server and the invalidation hooks keep the table,
\* libalpm's objects and the open call in step.
THEOREM ObjectsInvariant == Spec => []IInv
  <1>1. Init => IInv
    BY InitStep
  <1>2. IInv /\ [Next]_vars => IInv'
    BY NextIInv, StutterStep
  <1>3. QED
    BY <1>1, <1>2, PTL DEF Spec

\* A stale id misses: an id outlives its object only if it was filed outside its
\* database and went with that, or while the commit that freed the object is
\* running.
THEOREM StaleMisses == Spec => []StaleOnlyIfStray
  <1>1. IInv => StaleOnlyIfStray
    BY DEF IInv
  <1>2. QED
    BY <1>1, ObjectsInvariant, PTL

\* No handler or hook drops the id of the handle or of a database while it lives,
\* unless it was asked to unregister it and libalpm refused.
THEOREM HandleAndDbIds == Spec => []HandleAndDbsKept
  <1>1. IInv => HandleAndDbsKept
    BY DEF IInv, ForgottenInv, HandleAndDbsKept
  <1>2. QED
    BY <1>1, ObjectsInvariant, PTL

\* The handlers compose with the table: under the owners they compute and the
\* subtrees they drop, it stays the tree HandleTable promises.
THEOREM TableStaysSound == Spec => []TableSound
  <1>1. ASSUME IInv PROVE TableSound
    <2>1. TP!IInv /\ HeapInv /\ TransInv /\ LiveInv /\ ForgottenInv
      BY <1>1 DEF IInv
    <2>2. TP!RootIsSubtree
      BY <2>1, TP!IInvRoots, BoundAssumption
    <2>3. TP!TypeOK /\ TP!OwnersLive /\ TP!OneIdPerObject /\ TP!AdoptedHeld
      BY <2>1 DEF TP!IInv
    <2>4. /\ T!TypeOK /\ T!OwnersLive /\ T!RootIsSubtree /\ T!OneIdPerObject
          /\ T!AdoptedHeld
      BY <2>2, <2>3, SameTypeOK, SameOwners, SameRoot, SameOne, SameAdopted
    <2>5. ASSUME NEW a \in Live
          PROVE  heap[a].origin \in Origin /\ heap[a].home \in {None} \cup Live
      <3>1. a \in HandlePtr \/ a \in DbPtr \/ a \in PkgPtr
        BY <2>1 DEF HeapInv
      <3>2. QED
        BY <2>1, <3>1 DEF HeapInv, Origin
    <2>6. /\ trans.add \cup trans.rem \subseteq Live \cap PkgPtr
          /\ dangling \cup stray \subseteq Ids
          /\ forgotten \cup refused \subseteq Live
      BY <2>1 DEF TransInv, LiveInv, ForgottenInv
    <2>7. TypeOK
      BY <2>4, <2>5, <2>6 DEF TypeOK
    <2>8. QED
      BY <2>4, <2>7 DEF TableSound
  <1>2. QED
    BY <1>1, ObjectsInvariant, PTL
=============================================================================
