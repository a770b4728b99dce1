-------------------------- MODULE HandleTableProofs --------------------------
(***************************************************************************)
(* Proofs about the handle table, for any set of addresses and any bound.  *)
(***************************************************************************)
EXTENDS HandleTable, TLAPS

\* A table as the code can build it: typed slots, filed as a tree.
Tree(t) ==
  /\ t \in [DOMAIN t -> Slot]
  /\ DOMAIN t \subseteq Id
  /\ WellFiled(t)

\* The depths of the five kinds.
LEMMA Depths ==
  /\ Depth["HANDLE"] = 0
  /\ Depth["DB"] = 1
  /\ Depth["PKG"] = 2
  /\ Depth["CHANGELOG"] = 3
  /\ Depth["NONE"] = 3
  /\ \A tag \in Tags : Depth[tag] \in 0..3 /\ (Depth[tag] = 0 <=> tag = "HANDLE")
  BY DEF Depth, Tags

\* NULL is not the id of anything.
LEMMA NoIdNotLive == NoId \notin Id
  BY DEF NoId, Id

\* One step up a well-filed table: the owner is live and strictly shallower, or
\* the slot is a handle's.
LEMMA OneUp ==
  ASSUME NEW t, Tree(t), NEW i \in DOMAIN t
  PROVE  /\ i # NoId
         /\ t[i].tag \in Tags
         /\ Depth[t[i].tag] \in 0..3
         /\ Up(t, i) = t[i].owner
         /\ Up(t, i) = NoId <=> Depth[t[i].tag] = 0
         /\ Up(t, i) = NoId <=> t[i].tag = "HANDLE"
         /\ Up(t, i) # NoId =>
              /\ Up(t, i) \in DOMAIN t
              /\ Depth[t[Up(t, i)].tag] < Depth[t[i].tag]
              /\ Up(t, i).root = i.root
  <1>1. t[i] \in Slot
    BY DEF Tree
  <1>2. t[i].tag \in Tags
    BY <1>1 DEF Slot
  <1>3. QED
    BY <1>2, Depths, NoIdNotLive DEF Tree, WellFiled, Up

\* Nothing is above NULL.
LEMMA UpNoId ==
  ASSUME NEW t, Tree(t)
  PROVE  Up(t, NoId) = NoId
  BY NoIdNotLive DEF Tree, Up

\* The four levels suffice: the fourth owner is NULL, so the walks' bound of
\* eight never cuts a chain short.
LEMMA ChainShort ==
  ASSUME NEW t, Tree(t), NEW i \in DOMAIN t
  PROVE  LET u1 == Up(t, i)
             u2 == Up(t, u1)
             u3 == Up(t, u2)
         IN  /\ Up(t, u3) = NoId
             /\ Chain(t, i) = {i, u1, u2, u3} \ {NoId}
  <1> DEFINE u1 == Up(t, i)
             u2 == Up(t, u1)
             u3 == Up(t, u2)
             d(x) == Depth[t[x].tag]
  <1>0. d(i) \in 0..3
    BY OneUp
  <1>1. u1 # NoId => u1 \in DOMAIN t /\ d(u1) \in 0..3 /\ d(u1) < d(i)
    BY OneUp
  <1>2. u2 # NoId => /\ u1 # NoId
                     /\ u2 \in DOMAIN t /\ d(u2) \in 0..3 /\ d(u2) < d(u1)
    BY OneUp, UpNoId, <1>1
  <1>3. u3 # NoId => /\ u2 # NoId
                     /\ u3 \in DOMAIN t /\ d(u3) \in 0..3 /\ d(u3) < d(u2)
    BY OneUp, UpNoId, <1>2
  <1>4. u3 # NoId => d(u3) = 0
    BY <1>0, <1>1, <1>2, <1>3
  <1>5. Up(t, u3) = NoId
    BY <1>3, <1>4, OneUp, UpNoId
  <1>6. Chain(t, i) = {i, u1, u2, u3} \ {NoId}
    <2> HIDE DEF u1, u2, u3
    <2>1. /\ u1 = Up(t, i) /\ u2 = Up(t, u1) /\ u3 = Up(t, u2)
          /\ Up(t, NoId) = NoId
      BY UpNoId DEF u1, u2, u3
    <2> QED BY <2>1, <1>5 DEF Chain
  <1>7. QED
    BY <1>5, <1>6

\* A chain is the id and its owner's chain.
LEMMA ChainStep ==
  ASSUME NEW t, Tree(t), NEW i \in DOMAIN t
  PROVE  /\ i \in Chain(t, i)
         /\ Chain(t, i) \subseteq DOMAIN t
         /\ t[i].owner = NoId => Chain(t, i) = {i}
         /\ t[i].owner # NoId => Chain(t, i) = {i} \cup Chain(t, t[i].owner)
  <1> DEFINE u1 == Up(t, i)
             u2 == Up(t, u1)
             u3 == Up(t, u2)
  <1>1. u1 = t[i].owner /\ Up(t, NoId) = NoId /\ i # NoId
    BY OneUp, UpNoId
  <1>2. Up(t, u3) = NoId /\ Chain(t, i) = {i, u1, u2, u3} \ {NoId}
    BY ChainShort
  <1>3. /\ u1 # NoId => u1 \in DOMAIN t
        /\ u2 # NoId => u2 \in DOMAIN t
        /\ u3 # NoId => u3 \in DOMAIN t
    BY OneUp, UpNoId
  <1>4. ASSUME u1 # NoId
        PROVE  Chain(t, u1) = {u1, u2, u3} \ {NoId}
    <2>1. Chain(t, u1) = {u1, u2, u3, Up(t, u3)} \ {NoId}
      BY ChainShort, <1>3, <1>4
    <2> QED BY <2>1, <1>2
  <1> HIDE DEF u1, u2, u3
  <1>5. u1 = NoId => u2 = NoId /\ u3 = NoId
    BY <1>1 DEF u2, u3
  <1>6. QED
    BY <1>1, <1>2, <1>3, <1>4, <1>5

\* Everything on a chain shares its root, and no two of it are of one kind.
LEMMA ChainRoot ==
  ASSUME NEW t, Tree(t), NEW i \in DOMAIN t
  PROVE  /\ \A j \in Chain(t, i) : j.root = i.root
         /\ \A j, k \in Chain(t, i) : t[j].tag = t[k].tag => j = k
  <1> DEFINE u1 == Up(t, i)
             u2 == Up(t, u1)
             u3 == Up(t, u2)
             d(x) == Depth[t[x].tag]
  <1>1. Chain(t, i) = {i, u1, u2, u3} \ {NoId}
    BY ChainShort
  <1>2. u1 # NoId => u1 \in DOMAIN t /\ u1.root = i.root /\ d(u1) < d(i)
    BY OneUp
  <1>3. u2 # NoId => /\ u1 # NoId /\ u2 \in DOMAIN t
                     /\ u2.root = i.root /\ d(u2) < d(u1)
    BY OneUp, UpNoId, <1>2
  <1>4. u3 # NoId => /\ u2 # NoId /\ u3 \in DOMAIN t
                     /\ u3.root = i.root /\ d(u3) < d(u2)
    BY OneUp, UpNoId, <1>3
  <1>5. /\ d(i) \in 0..3
        /\ u1 # NoId => d(u1) \in 0..3
        /\ u2 # NoId => d(u2) \in 0..3
        /\ u3 # NoId => d(u3) \in 0..3
    BY OneUp, <1>2, <1>3, <1>4
  <1> HIDE DEF u1, u2, u3
  <1>6. \A j, k \in Chain(t, i) : t[j].tag = t[k].tag => j = k
    BY <1>1, <1>2, <1>3, <1>4, <1>5
  <1>7. QED
    BY <1>1, <1>2, <1>3, <1>4, <1>6

\* A chain ends at a handle.
LEMMA ChainTop ==
  ASSUME NEW t, Tree(t), NEW i \in DOMAIN t
  PROVE  \E h \in Chain(t, i) : t[h].tag = "HANDLE"
  <1> DEFINE u1 == Up(t, i)
             u2 == Up(t, u1)
             u3 == Up(t, u2)
  <1>1. Up(t, u3) = NoId /\ Chain(t, i) = {i, u1, u2, u3} \ {NoId}
    BY ChainShort
  <1>2. \A x \in DOMAIN t : x # NoId /\ (Up(t, x) = NoId => t[x].tag = "HANDLE")
    BY OneUp
  <1>3. /\ u1 # NoId => u1 \in DOMAIN t
        /\ u2 # NoId => u2 \in DOMAIN t
        /\ u3 # NoId => u3 \in DOMAIN t
    BY OneUp, UpNoId
  <1>4. QED
    BY <1>1, <1>2, <1>3

\* find_ptr returns a live id of that object, or NULL when there is none.
LEMMA FindPtrSpec ==
  ASSUME NEW t, Tree(t), NEW p, NEW tag
  PROVE  LET have == FindPtr(t, p, tag)
         IN  /\ have # NoId => /\ have \in DOMAIN t
                               /\ t[have].ptr = p
                               /\ t[have].tag = tag
             /\ have = NoId => ~ \E i \in DOMAIN t : t[i].ptr = p /\ t[i].tag = tag
  <1>1. CASE \E i \in DOMAIN t : t[i].ptr = p /\ t[i].tag = tag
    <2>1. FindPtr(t, p, tag) \in {i \in DOMAIN t : t[i].ptr = p /\ t[i].tag = tag}
      BY <1>1 DEF FindPtr
    <2>2. FindPtr(t, p, tag) # NoId
      BY <2>1, NoIdNotLive DEF Tree
    <2>3. QED
      BY <2>1, <2>2
  <1>2. CASE ~ \E i \in DOMAIN t : t[i].ptr = p /\ t[i].tag = tag
    <2>1. FindPtr(t, p, tag) = NoId
      BY <1>2 DEF FindPtr
    <2>2. QED
      BY <2>1, <1>2
  <1>3. QED
    BY <1>1, <1>2

\* Whatever is further up a chain is of a kind further up the tree.
LEMMA ChainDepth ==
  ASSUME NEW t, Tree(t), NEW i \in DOMAIN t
  PROVE  \A j \in Chain(t, i) : i # j => Depth[t[j].tag] < Depth[t[i].tag]
  <1> DEFINE u1 == Up(t, i)
             u2 == Up(t, u1)
             u3 == Up(t, u2)
             d(x) == Depth[t[x].tag]
  <1>1. Chain(t, i) = {i, u1, u2, u3} \ {NoId}
    BY ChainShort
  <1>2. u1 # NoId => u1 \in DOMAIN t /\ d(u1) \in 0..3 /\ d(u1) < d(i)
    BY OneUp
  <1>3. u2 # NoId => u1 # NoId /\ u2 \in DOMAIN t /\ d(u2) \in 0..3 /\ d(u2) < d(u1)
    BY OneUp, UpNoId, <1>2
  <1>4. u3 # NoId => u2 # NoId /\ u3 \in DOMAIN t /\ d(u3) \in 0..3 /\ d(u3) < d(u2)
    BY OneUp, UpNoId, <1>3
  <1>5. d(i) \in 0..3
    BY OneUp
  <1> HIDE DEF u1, u2, u3
  <1>6. QED
    BY <1>1, <1>2, <1>3, <1>4, <1>5

\* arpc_ancestor returns a live id: one of the kind asked for when the chain has
\* one, and otherwise a handle.
LEMMA AncestorSpec ==
  ASSUME NEW t, Tree(t), NEW i \in DOMAIN t, NEW tag \in Tags
  PROVE  LET a == Ancestor(t, i, tag)
         IN  /\ a \in Chain(t, i)
             /\ t[a].tag \in {tag, "HANDLE"}
             /\ i # a => Depth[t[a].tag] < Depth[t[i].tag]
  <1> DEFINE hits == {j \in Chain(t, i) \cap DOMAIN t : t[j].tag = tag}
             a == Ancestor(t, i, tag)
  <1>1. Chain(t, i) \subseteq DOMAIN t
    BY ChainStep
  <1>2. a \in Chain(t, i) /\ t[a].tag \in {tag, "HANDLE"}
    <2>1. CASE tag # "NONE" /\ hits # {}
      <3>1. PICK j \in hits : \A k \in hits : k = j
        BY <2>1, ChainRoot
      <3>2. \E x \in hits : \A y \in hits : x \in Chain(t, y) => x = y
        BY <3>1
      <3>3. a = CHOOSE x \in hits : \A y \in hits : x \in Chain(t, y) => x = y
        BY <2>1 DEF Ancestor
      <3>4. a \in hits
        BY <3>2, <3>3
      <3>5. QED
        BY <3>4
    <2>2. CASE ~(tag # "NONE" /\ hits # {})
      <3>1. a = CHOOSE x \in Chain(t, i) : Up(t, x) \notin DOMAIN t
        BY <2>2 DEF Ancestor, Top
      <3>2. PICK h \in Chain(t, i) : t[h].tag = "HANDLE"
        BY ChainTop
      <3>3. Up(t, h) \notin DOMAIN t
        BY <3>2, <1>1, OneUp, NoIdNotLive DEF Tree
      <3>4. a \in Chain(t, i) /\ Up(t, a) \notin DOMAIN t
        BY <3>1, <3>2, <3>3
      <3>5. t[a].tag = "HANDLE"
        BY <3>4, <1>1, OneUp
      <3>6. QED
        BY <3>4, <3>5
    <2>3. QED
      BY <2>1, <2>2
  <1>3. \A j \in Chain(t, i) : i # j => Depth[t[j].tag] < Depth[t[i].tag]
    BY ChainDepth
  <1>4. QED
    BY <1>2, <1>3

-----------------------------------------------------------------------------
(* The inductive invariant.  OwnersLive and OneIdPerObject need each other  *)
(* (a new id must not be live already), and RootIsSubtree needs that no two *)
(* handles share a root, which is no conjunct of it.                       *)

\* No two handles share a root.
HandleRoots(t) ==
  \A i, j \in DOMAIN t :
    t[i].tag = "HANDLE" /\ t[j].tag = "HANDLE" /\ i.root = j.root => i = j

\* Only a record adopted without a tag is released by the table.
ReleaseIsNone(t) ==
  \A i \in DOMAIN t : t[i].release => t[i].tag = "NONE"

IInv ==
  /\ TypeOK
  /\ OwnersLive
  /\ OneIdPerObject
  /\ HandleRoots(tab)
  /\ ReleaseIsNone(tab)
  /\ AdoptedHeld
  /\ CallbacksOfLiveHandles

\* The part of the invariant about the table and its counters.
Sound(st) ==
  /\ Tree(st.tab)
  /\ st.seq \in Nat \ {0}
  /\ st.root \in Nat \ {0}
  /\ \A i, j \in DOMAIN st.tab :
       /\ i.seq < st.seq
       /\ i.root < st.root
       /\ i.seq = j.seq => i = j
       /\ /\ st.tab[i].ptr = st.tab[j].ptr
          /\ st.tab[i].tag = st.tab[j].tag
          => i = j
  /\ HandleRoots(st.tab)
  /\ ReleaseIsNone(st.tab)

\* The invariant says the table is sound as it stands.
LEMMA IInvSound ==
  ASSUME IInv
  PROVE  Sound(Table)
  BY DEF IInv, Sound, Table, TypeOK, OwnersLive, OneIdPerObject, Tree

\* Re-filing under a closer owner keeps the table sound and its ids, objects and
\* kinds as they were.
LEMMA RefileSound ==
  ASSUME NEW st, Sound(st), NEW have \in DOMAIN st.tab,
         NEW o \in DOMAIN st.tab,
         st.tab[have].tag # "HANDLE" =>
           Depth[st.tab[o].tag] < Depth[st.tab[have].tag],
         NEW t, t = Refiled(st.tab, have, o)
  PROVE  /\ Tree(t) /\ DOMAIN t = DOMAIN st.tab
         /\ \A i \in DOMAIN t : /\ t[i].ptr = st.tab[i].ptr
                                /\ t[i].tag = st.tab[i].tag
                                /\ t[i].release = st.tab[i].release
  <1>1. Tree(st.tab)
    BY DEF Sound
  <1>2. CASE t = st.tab
    BY <1>1, <1>2
  <1>3. CASE t # st.tab
    <2>1. /\ o # NoId
          /\ Under(st.tab, o, st.tab[have].owner)
          /\ t = [st.tab EXCEPT ![have].owner = o]
      BY <1>3 DEF Refiled
    <2>2. st.tab[have].owner \in Chain(st.tab, o)
      BY <2>1 DEF Under
    <2>3. st.tab[have].owner # NoId
      BY <2>2 DEF Chain
    <2>4. o.root = have.root
      <3>1. st.tab[have].owner.root = o.root
        BY <2>2, <1>1, ChainRoot
      <3>2. QED
        BY <3>1, <2>3, <1>1 DEF Tree, WellFiled
    <2>5. st.tab[have].tag # "HANDLE"
      BY <2>3, <1>1 DEF Tree, WellFiled
    <2>6. /\ DOMAIN t = DOMAIN st.tab
          /\ \A i \in DOMAIN t : /\ t[i].ptr = st.tab[i].ptr
                                 /\ t[i].tag = st.tab[i].tag
                                 /\ t[i].release = st.tab[i].release
                                 /\ i # have => t[i].owner = st.tab[i].owner
          /\ t[have].owner = o
      BY <2>1, <1>1 DEF Tree, Slot
    <2>7. t \in [DOMAIN t -> Slot]
      BY <2>1, <1>1 DEF Tree, Slot
    <2>8. WellFiled(t)
      BY <2>1, <2>4, <2>5, <2>6, <1>1 DEF Tree, WellFiled
    <2>9. DOMAIN t \subseteq Id
      BY <2>6, <1>1 DEF Tree
    <2>10. Tree(t)
      BY <2>7, <2>8, <2>9 DEF Tree
    <2>11. QED
      BY <2>6, <2>10
  <1>4. QED
    BY <1>2, <1>3

\* arpc_handle_put keeps the table sound, whatever owner arpc_ancestor found.
LEMMA FiledSound ==
  ASSUME NEW st, Sound(st), st = [tab |-> st.tab, seq |-> st.seq, root |-> st.root],
         NEW p \in Ptr, NEW tag \in Tags, NEW o, NEW release \in BOOLEAN,
         release => tag = "NONE",
         \/ o = NoId /\ tag = "HANDLE"
         \/ /\ o \in DOMAIN st.tab
            /\ tag # "HANDLE" => Depth[st.tab[o].tag] < Depth[tag]
            /\ tag = "HANDLE" => FindPtr(st.tab, p, tag) # NoId
  PROVE  /\ Sound(Filed(st, p, tag, o, release))
         /\ DOMAIN st.tab \subseteq DOMAIN Filed(st, p, tag, o, release).tab
         /\ \A i \in DOMAIN st.tab :
              LET new == Filed(st, p, tag, o, release).tab[i]
              IN  /\ new.ptr = st.tab[i].ptr
                  /\ new.tag = st.tab[i].tag
                  /\ new.release = st.tab[i].release
         /\ FindPtr(st.tab, p, tag) # NoId =>
              DOMAIN Filed(st, p, tag, o, release).tab = DOMAIN st.tab
         /\ FindPtr(st.tab, p, tag) = NoId =>
              \E id \in DOMAIN Filed(st, p, tag, o, release).tab :
                /\ DOMAIN Filed(st, p, tag, o, release).tab = DOMAIN st.tab \cup {id}
                /\ id \notin DOMAIN st.tab
                /\ Filed(st, p, tag, o, release).tab[id].ptr = p
                /\ Filed(st, p, tag, o, release).tab[id].tag = tag
                /\ Filed(st, p, tag, o, release).tab[id].release = release
  <1> DEFINE have == FindPtr(st.tab, p, tag)
             new == Filed(st, p, tag, o, release)
  <1>0. Tree(st.tab)
    BY DEF Sound
  <1>1. CASE have # NoId
    <2>1. have \in DOMAIN st.tab /\ st.tab[have].tag = tag
      BY <1>1, <1>0, FindPtrSpec
    <2>2. new = [tab |-> Refiled(st.tab, have, o), seq |-> st.seq, root |-> st.root]
      BY <1>1 DEF Filed
    <2>3. CASE o = NoId
      <3>1. new = st
        BY <2>2, <2>3 DEF Refiled
      <3>2. QED
        BY <3>1, <1>1
    <2>4. CASE o # NoId
      <3>1. /\ Tree(new.tab) /\ DOMAIN new.tab = DOMAIN st.tab
            /\ \A i \in DOMAIN new.tab : /\ new.tab[i].ptr = st.tab[i].ptr
                                         /\ new.tab[i].tag = st.tab[i].tag
                                         /\ new.tab[i].release = st.tab[i].release
        BY <2>1, <2>2, <2>4, RefileSound
      <3>2. new.seq = st.seq /\ new.root = st.root
        BY <2>2
      <3> HIDE DEF new
      <3>3. Sound(new)
        BY <3>1, <3>2 DEF Sound, HandleRoots, ReleaseIsNone
      <3>4. QED
        BY <3>1, <3>3, <1>1 DEF new
    <2>5. QED
      BY <2>3, <2>4
  <1>2. CASE have = NoId
    <2> DEFINE id == NewId(st.seq, st.root, tag, o)
               slot == [ptr |-> p, tag |-> tag, owner |-> o, release |-> release]
    <2>1. /\ new.tab = With(st.tab, id, slot)
          /\ new.seq = st.seq + 1
          /\ new.root = IF o = NoId /\ tag = "HANDLE" THEN st.root + 1 ELSE st.root
      BY <1>2 DEF Filed
    <2>2. \A i \in DOMAIN st.tab : st.tab[i].ptr # p \/ st.tab[i].tag # tag
      BY <1>2, <1>0, FindPtrSpec
    <2>3. /\ \A i \in DOMAIN st.tab : i \in Id /\ i.seq < st.seq /\ i.root < st.root
          /\ st.seq \in Nat \ {0} /\ st.root \in Nat \ {0}
      BY DEF Sound, Tree
    <2>4. /\ o # NoId => /\ o \in DOMAIN st.tab /\ tag # "HANDLE"
                         /\ Depth[st.tab[o].tag] < Depth[tag]
          /\ o = NoId => tag = "HANDLE"
      BY <1>2, NoIdNotLive, <2>3
    <2>5. /\ id.seq = st.seq
          /\ id.root = IF o # NoId THEN o.root ELSE st.root
          /\ id \in Id
          /\ id.root < new.root
      BY <2>1, <2>3, <2>4 DEF NewId, Id
    <2>6. id \notin DOMAIN st.tab
      BY <2>3, <2>5
    <2> HIDE DEF new, id
    <2>7. /\ DOMAIN new.tab = DOMAIN st.tab \cup {id}
          /\ new.tab[id] = slot
          /\ \A i \in DOMAIN st.tab : new.tab[i] = st.tab[i]
      BY <2>1, <2>6 DEF With
    <2>8. slot \in Slot
      BY <2>3, <2>4 DEF Slot
    <2>9. new.tab \in [DOMAIN new.tab -> Slot]
      BY <2>1, <2>7, <2>8, <1>0 DEF With, Tree
    <2>10. WellFiled(new.tab)
      BY <2>4, <2>5, <2>6, <2>7, <2>3, <1>0 DEF WellFiled, Tree
    <2>11. Tree(new.tab)
      BY <2>3, <2>5, <2>7, <2>9, <2>10 DEF Tree
    <2>12. \A i, j \in DOMAIN new.tab :
             /\ i.seq < new.seq
             /\ i.root < new.root
             /\ i.seq = j.seq => i = j
      <3>1. st.root <= new.root
        BY <2>1, <2>3
      <3>2. \A i \in DOMAIN st.tab : i.seq \in Nat /\ i.root \in Nat
        BY <2>3 DEF Id
      <3>3. id.seq \in Nat /\ id.root \in Nat /\ new.root \in Nat
        BY <2>5, <2>1, <2>3 DEF Id
      <3>4. \A i, j \in DOMAIN st.tab : i.seq = j.seq => i = j
        BY DEF Sound
      <3>5. QED
        BY <2>1, <2>3, <2>5, <2>7, <3>1, <3>2, <3>3, <3>4
    <2>13. \A i, j \in DOMAIN new.tab :
             new.tab[i].ptr = new.tab[j].ptr /\ new.tab[i].tag = new.tab[j].tag
             => i = j
      BY <2>2, <2>7 DEF Sound
    <2>14. HandleRoots(new.tab)
      <3>1. \A i \in DOMAIN st.tab : i.root \in Nat /\ i.root # st.root
        BY <2>3 DEF Id
      <3>2. QED
        BY <3>1, <2>4, <2>5, <2>7 DEF Sound, HandleRoots
    <2>15. ReleaseIsNone(new.tab)
      BY <2>7 DEF Sound, ReleaseIsNone
    <2>16. Sound(new)
      <3>1. new.seq \in Nat \ {0} /\ new.root \in Nat \ {0}
        BY <2>1, <2>3
      <3>2. QED
        BY <3>1, <2>11, <2>12, <2>13, <2>14, <2>15 DEF Sound
    <2>17. QED
      BY <2>6, <2>7, <2>16, <1>2 DEF new
  <1>3. QED
    BY <1>1, <1>2

\* A drop keeps the table sound when it takes the owners' dependants with them.
LEMMA DropSound ==
  ASSUME Sound(Table), NEW S \in SUBSET DOMAIN tab,
         \A i \in DOMAIN tab : tab[i].owner \in S => i \in S
  PROVE  LET t == Without(tab, S)
         IN  /\ Sound([tab |-> t, seq |-> next_seq, root |-> next_root])
             /\ DOMAIN t = DOMAIN tab \ S
             /\ \A i \in DOMAIN t : t[i] = tab[i]
  <1> DEFINE t == Without(tab, S)
             st == [tab |-> t, seq |-> next_seq, root |-> next_root]
  <1>1. DOMAIN t = DOMAIN tab \ S /\ \A i \in DOMAIN t : t[i] = tab[i]
    BY DEF Without
  <1>2. /\ Tree(tab) /\ HandleRoots(tab) /\ ReleaseIsNone(tab)
        /\ next_seq \in Nat \ {0} /\ next_root \in Nat \ {0}
        /\ \A i, j \in DOMAIN tab :
             /\ i.seq < next_seq
             /\ i.root < next_root
             /\ i.seq = j.seq => i = j
             /\ tab[i].ptr = tab[j].ptr /\ tab[i].tag = tab[j].tag => i = j
    BY DEF Sound, Table
  <1>3. t \in [DOMAIN t -> Slot]
    BY <1>1, <1>2 DEF Without, Tree
  <1> HIDE DEF t
  <1>4. WellFiled(t)
    BY <1>1, <1>2 DEF WellFiled, Tree
  <1>5. Tree(t)
    BY <1>1, <1>2, <1>3, <1>4 DEF Tree
  <1>6. HandleRoots(t) /\ ReleaseIsNone(t)
    BY <1>1, <1>2 DEF HandleRoots, ReleaseIsNone
  <1>7. Sound(st)
    BY <1>1, <1>2, <1>5, <1>6 DEF Sound
  <1>8. QED
    BY <1>1, <1>7 DEF t

\* The subtree of an id is closed: what hangs from a member is a member.
LEMMA BelowClosed ==
  ASSUME Tree(tab), NEW o \in DOMAIN tab
  PROVE  /\ o \in Below(tab, o)
         /\ Below(tab, o) \subseteq DOMAIN tab
         /\ \A i \in DOMAIN tab : tab[i].owner \in Below(tab, o) => i \in Below(tab, o)
  <1>1. o \in Below(tab, o)
    BY ChainStep DEF Below, Under
  <1>2. ASSUME NEW i \in DOMAIN tab, tab[i].owner \in Below(tab, o)
        PROVE  i \in Below(tab, o)
    <2>1. tab[i].owner # NoId /\ o \in Chain(tab, tab[i].owner)
      BY <1>2, NoIdNotLive DEF Below, Under, Tree
    <2>2. QED
      BY <2>1, ChainStep DEF Below, Under
  <1>3. QED
    BY <1>1, <1>2 DEF Below

\* Dropping a closed set of slots keeps the invariant, when the callbacks of the
\* handles in it go too; a drop that could not allocate changes nothing.
LEMMA DropKeepsIInv ==
  ASSUME IInv, NEW S \in SUBSET DOMAIN tab,
         \A i \in DOMAIN tab : tab[i].owner \in S => i \in S,
         Dropped(S) \/ NotDropped,
         cbreg' \subseteq cbreg,
         \A h \in S : tab[h].tag = "HANDLE" => h \notin cbreg',
         UNCHANGED up
  PROVE  IInv'
  <1>1. CASE NotDropped
    <2>1. UNCHANGED <<tab, owed, next_seq, next_root>>
      BY <1>1 DEF NotDropped
    <2>2. QED
      BY <2>1 DEF IInv, TypeOK, OwnersLive, OneIdPerObject, AdoptedHeld,
                  CallbacksOfLiveHandles, Resolves
  <1>2. CASE Dropped(S)
    <2>1. /\ tab' = Without(tab, S)
          /\ owed' = owed \ {tab[i].ptr : i \in {j \in S : tab[j].release}}
          /\ UNCHANGED <<next_seq, next_root>>
      BY <1>2 DEF Dropped
    <2>2. Sound(Table)
      BY IInvSound
    <2>3. /\ Sound([tab |-> tab', seq |-> next_seq, root |-> next_root])
          /\ DOMAIN tab' = DOMAIN tab \ S
          /\ \A i \in DOMAIN tab' : tab'[i] = tab[i]
      BY <2>1, <2>2, DropSound
    <2>4. /\ Tree(tab') /\ HandleRoots(tab') /\ ReleaseIsNone(tab')
          /\ \A i, j \in DOMAIN tab' :
               /\ i.seq < next_seq'
               /\ i.root < next_root'
               /\ i.seq = j.seq => i = j
               /\ tab'[i].ptr = tab'[j].ptr /\ tab'[i].tag = tab'[j].tag => i = j
      BY <2>3, <2>1 DEF Sound
    <2>5. TypeOK' /\ OwnersLive' /\ OneIdPerObject'
      BY <2>4, <2>1 DEF IInv, TypeOK, OwnersLive, OneIdPerObject, Tree
    <2>6. AdoptedHeld'
      <3> DEFINE held == {tab[i].ptr : i \in {j \in DOMAIN tab : tab[j].release}}
                 gone == {tab[i].ptr : i \in {j \in S : tab[j].release}}
      <3>1. \A i, j \in DOMAIN tab :
              tab[i].release /\ tab[j].release /\ tab[i].ptr = tab[j].ptr => i = j
        BY DEF IInv, ReleaseIsNone, OneIdPerObject
      <3>2. {tab'[i].ptr : i \in {j \in DOMAIN tab' : tab'[j].release}} = held \ gone
        BY <2>3, <3>1
      <3>3. owed = held
        BY DEF IInv, AdoptedHeld
      <3>4. QED
        BY <2>1, <3>2, <3>3 DEF AdoptedHeld
    <2>7. CallbacksOfLiveHandles'
      BY <2>3 DEF IInv, CallbacksOfLiveHandles, Resolves
    <2>8. QED
      BY <2>4, <2>5, <2>6, <2>7 DEF IInv
  <1>3. QED
    BY <1>1, <1>2

\* A table with more slots, the old ones perhaps under another owner.
Grows(t, u) ==
  /\ DOMAIN t \subseteq DOMAIN u
  /\ \A i \in DOMAIN t : /\ u[i].ptr = t[i].ptr
                         /\ u[i].tag = t[i].tag
                         /\ u[i].release = t[i].release

\* What puts make of the table keeps the invariant, as long as it is sound and
\* every new slot with a release is owed its release.
LEMMA GrowKeepsIInv ==
  ASSUME IInv, NEW new, Sound(new), Grows(tab, new.tab), Becomes(new),
         owed' = owed \cup {new.tab[i].ptr :
                    i \in {j \in DOMAIN new.tab \ DOMAIN tab : new.tab[j].release}},
         UNCHANGED <<cbreg, up>>
  PROVE  IInv'
  <1>2. tab' = new.tab /\ next_seq' = new.seq /\ next_root' = new.root
    BY DEF Becomes
  <1>3. /\ DOMAIN tab \subseteq DOMAIN tab'
        /\ \A i \in DOMAIN tab : /\ tab'[i].ptr = tab[i].ptr
                                 /\ tab'[i].tag = tab[i].tag
                                 /\ tab'[i].release = tab[i].release
    BY <1>2 DEF Grows
  <1>4. /\ Tree(tab') /\ HandleRoots(tab') /\ ReleaseIsNone(tab')
        /\ next_seq' \in Nat \ {0} /\ next_root' \in Nat \ {0}
        /\ \A i, j \in DOMAIN tab' :
             /\ i.seq < next_seq'
             /\ i.root < next_root'
             /\ i.seq = j.seq => i = j
             /\ tab'[i].ptr = tab'[j].ptr /\ tab'[i].tag = tab'[j].tag => i = j
    BY <1>2 DEF Sound
  <1>5. owed = {tab[i].ptr : i \in {j \in DOMAIN tab : tab[j].release}}
    BY DEF IInv, AdoptedHeld
  <1>6. owed' = owed \cup {tab'[i].ptr :
                  i \in {j \in DOMAIN tab' \ DOMAIN tab : tab'[j].release}}
    BY <1>2
  <1>7. AdoptedHeld'
    <2>1. \A p : p \in owed' =>
                   \E i \in DOMAIN tab' : tab'[i].release /\ tab'[i].ptr = p
      BY <1>3, <1>5, <1>6
    <2>2. \A i \in DOMAIN tab' : tab'[i].release => tab'[i].ptr \in owed'
      BY <1>3, <1>5, <1>6
    <2>3. QED
      BY <2>1, <2>2 DEF AdoptedHeld
  <1>8. owed' \subseteq Ptr
    <2>1. \A i \in DOMAIN tab' : tab'[i].ptr \in Ptr
      BY <1>4 DEF Tree, Slot
    <2>2. QED
      BY <1>7, <2>1 DEF AdoptedHeld
  <1>9. TypeOK' /\ OwnersLive' /\ OneIdPerObject'
    BY <1>4, <1>8 DEF IInv, TypeOK, OwnersLive, OneIdPerObject, Tree
  <1>10. CallbacksOfLiveHandles'
    BY <1>3 DEF IInv, CallbacksOfLiveHandles, Resolves
  <1>11. QED
    BY <1>4, <1>7, <1>9, <1>10 DEF IInv

\* arpc_handle_put and _adopt keep the invariant.
LEMMA PutKeepsIInv ==
  ASSUME IInv, NEW p \in Ptr, NEW tag \in Tags, NEW o, NEW release \in BOOLEAN,
         release <=> tag = "NONE",
         tag = "NONE" => FindPtr(tab, p, tag) = NoId /\ p \notin owed,
         \/ o = NoId /\ tag = "HANDLE"
         \/ /\ o \in DOMAIN tab
            /\ tag # "HANDLE" => Depth[tab[o].tag] < Depth[tag]
            /\ tag = "HANDLE" => FindPtr(tab, p, tag) # NoId,
         Becomes(Filed(Table, p, tag, o, release)),
         owed' = IF release THEN owed \cup {p} ELSE owed,
         UNCHANGED <<cbreg, up>>
  PROVE  IInv'
  <1> DEFINE new == Filed(Table, p, tag, o, release)
             fresh == {i \in DOMAIN new.tab \ DOMAIN tab : new.tab[i].release}
  <1>1. /\ Sound(Table)
        /\ Table = [tab |-> Table.tab, seq |-> Table.seq, root |-> Table.root]
        /\ Table.tab = tab
    BY IInvSound DEF Table
  <1>2. /\ Sound(new)
        /\ Grows(tab, new.tab)
        /\ FindPtr(tab, p, tag) # NoId => DOMAIN new.tab = DOMAIN tab
        /\ FindPtr(tab, p, tag) = NoId =>
             \E id \in DOMAIN new.tab :
               /\ DOMAIN new.tab = DOMAIN tab \cup {id}
               /\ id \notin DOMAIN tab
               /\ new.tab[id].ptr = p
               /\ new.tab[id].release = release
    BY <1>1, FiledSound DEF Grows
  <1> HIDE DEF new
  <1>3. owed' = owed \cup {new.tab[i].ptr : i \in fresh}
    <2>1. CASE release
      <3>1. PICK id \in DOMAIN new.tab : /\ DOMAIN new.tab = DOMAIN tab \cup {id}
                                         /\ id \notin DOMAIN tab
                                         /\ new.tab[id].ptr = p
                                         /\ new.tab[id].release
        BY <1>2, <2>1
      <3>2. fresh = {id}
        BY <3>1
      <3>3. QED
        BY <2>1, <3>1, <3>2
    <2>2. CASE ~release
      <3>1. fresh = {}
        BY <1>2, <2>2
      <3>2. QED
        BY <3>1, <2>2
    <2>3. QED
      BY <2>1, <2>2
  <1>4. QED
    BY <1>2, <1>3, GrowKeepsIInv DEF new

\* The owner owner_expr computes hangs above the object it is for.
LEMMA OwnerAbove ==
  ASSUME IInv, NEW arg \in DOMAIN tab, NEW tag \in Tags \ {"NONE"},
         TakenBy(tag, arg)
  PROVE  LET o == Ancestor(tab, arg, ParentTag[tag])
         IN  /\ o \in DOMAIN tab
             /\ tag # "HANDLE" => Depth[tab[o].tag] < Depth[tag]
  <1> DEFINE o == Ancestor(tab, arg, ParentTag[tag])
  <1>1. Tree(tab)
    BY IInvSound DEF Sound, Table
  <1>2. ParentTag[tag] \in Tags
    BY DEF ParentTag, Tags
  <1>3. /\ o \in Chain(tab, arg)
        /\ tab[o].tag \in {ParentTag[tag], "HANDLE"}
    BY <1>1, <1>2, AncestorSpec
  <1>4. o \in DOMAIN tab
    BY <1>1, <1>3, ChainStep
  <1>5. tag # "HANDLE" => Depth[tab[o].tag] < Depth[tag]
    BY <1>3, Depths DEF ParentTag, Tags
  <1>6. QED
    BY <1>4, <1>5

\* The empty table of a server that has just started satisfies the invariant.
LEMMA InitIInv ==
  ASSUME Init
  PROVE  IInv
  BY DEF Init, IInv, TypeOK, OwnersLive, WellFiled, OneIdPerObject, HandleRoots,
         ReleaseIsNone, AdoptedHeld, CallbacksOfLiveHandles

\* Every operation of arpc_server.c keeps the invariant: one step per action.
LEMMA NextIInv == IInv /\ [Next]_vars => IInv'
  <1> SUFFICES ASSUME IInv, [Next]_vars PROVE IInv'
    OBVIOUS
  <1>0. Tree(tab)
    BY IInvSound DEF Sound, Table
  <1>1. ASSUME NEW p \in Ptr, PutHandle(p), UNCHANGED up
        PROVE  IInv'
    BY <1>1, PutKeepsIInv DEF PutHandle, Tags
  <1>2. ASSUME NEW p \in Ptr, NEW tag \in Tags, NEW arg \in DOMAIN tab,
               PutFrom(p, tag, arg), UNCHANGED up
        PROVE  IInv'
    <2>1. tag # "NONE" /\ TakenBy(tag, arg)
      BY <1>2 DEF PutFrom, TakenBy
    <2>2. /\ Ancestor(tab, arg, ParentTag[tag]) \in DOMAIN tab
          /\ tag # "HANDLE" =>
               Depth[tab[Ancestor(tab, arg, ParentTag[tag])].tag] < Depth[tag]
      BY <2>1, OwnerAbove
    <2>3. QED
      BY <1>2, <2>1, <2>2, PutKeepsIInv DEF PutFrom
  <1>3. ASSUME NEW p \in Ptr, NEW h \in DOMAIN tab, Adopt(p, h), UNCHANGED up
        PROVE  IInv'
    <2> DEFINE o == Ancestor(tab, h, ParentTag["NONE"])
    <2>1. ParentTag["NONE"] \in Tags /\ ParentTag["NONE"] = "DB"
      BY DEF ParentTag, Tags
    <2>2. o \in Chain(tab, h) /\ tab[o].tag \in {"DB", "HANDLE"}
      BY <2>1, <1>0, AncestorSpec
    <2>3. o \in DOMAIN tab /\ Depth[tab[o].tag] < Depth["NONE"]
      BY <2>2, <1>0, ChainStep, Depths
    <2>4. QED
      BY <1>3, <2>3, PutKeepsIInv DEF Adopt, Tags
  <1>4. ASSUME NEW id \in DOMAIN tab, Drop(id), UNCHANGED up
        PROVE  IInv'
    <2>1. \A i \in DOMAIN tab : tab[i].owner # id
      <3>1. tab[id].tag = "CHANGELOG" /\ id # NoId
        BY <1>4, <1>0, NoIdNotLive DEF Drop, Tree
      <3>2. \A i \in DOMAIN tab : Depth[tab[i].tag] \in 0..3
        BY <1>0, OneUp
      <3>3. QED
        BY <3>1, <3>2, <1>0, Depths DEF Tree, WellFiled
    <2>2. QED
      BY <1>4, <2>1, DropKeepsIInv DEF Drop
  <1>5. ASSUME NEW o \in DOMAIN tab, DropOwner(o), UNCHANGED up
        PROVE  IInv'
    <2>1. \A h \in Below(tab, o) : tab[h].tag = "HANDLE" => h = o
      <3>1. \A h \in DOMAIN tab : tab[h].tag = "HANDLE" => Chain(tab, h) = {h}
        BY <1>0, ChainStep DEF Tree, WellFiled
      <3>2. QED
        BY <3>1 DEF Below, Under
    <2>2. QED
      BY <1>5, <2>1, <1>0, BelowClosed, DropKeepsIInv DEF DropOwner
  <1>6. ASSUME NEW o \in DOMAIN tab, DropUnder(o), UNCHANGED up
        PROVE  IInv'
    <2> DEFINE S == Below(tab, o) \ {o}
    <2>1. tab[o].tag = "DB" /\ cbreg' = cbreg
      BY <1>6 DEF DropUnder
    <2>2. \A h \in DOMAIN tab : tab[h].tag = "HANDLE" => h \notin Below(tab, o)
      <3>1. \A h \in DOMAIN tab : tab[h].tag = "HANDLE" => Chain(tab, h) = {h}
        BY <1>0, ChainStep DEF Tree, WellFiled
      <3>2. QED
        BY <3>1, <2>1 DEF Below, Under
    <2>3. \A i \in DOMAIN tab : tab[i].owner \in S => i \in S
      <3>1. ASSUME NEW i \in DOMAIN tab, tab[i].owner \in S
            PROVE  i \in S
        <4>1. i \in Below(tab, o)
          BY <3>1, <1>0, BelowClosed
        <4>2. i # o
          <5>1. tab[o].owner # NoId => tab[tab[o].owner].tag = "HANDLE"
            <6>1. tab[o].owner # NoId =>
                    /\ tab[o].owner \in DOMAIN tab
                    /\ Depth[tab[tab[o].owner].tag] < 1
              BY <2>1, <1>0, Depths DEF Tree, WellFiled
            <6>2. QED
              BY <6>1, <1>0, OneUp
          <5>2. tab[i].owner # NoId /\ tab[i].owner \in DOMAIN tab
            BY <3>1, <1>0, NoIdNotLive DEF Below, Tree
          <5>3. QED
            BY <5>1, <5>2, <3>1, <2>2
        <4>3. QED
          BY <4>1, <4>2
      <3>2. QED
        BY <3>1
    <2>4. S \in SUBSET DOMAIN tab
      BY DEF Below
    <2>5. QED
      BY <1>6, <2>1, <2>2, <2>3, <2>4, DropKeepsIInv DEF DropUnder
  <1>7. ASSUME NEW h \in DOMAIN tab \cup {NoId}, NEW enabled \in BOOLEAN, CbSet(h, enabled),
               UNCHANGED up
        PROVE  IInv'
    BY <1>7 DEF CbSet, IInv, TypeOK, OwnersLive, OneIdPerObject, AdoptedHeld,
                CallbacksOfLiveHandles, Resolves
  <1>8. ASSUME Reset
        PROVE  IInv'
    <2>1. DOMAIN tab' = {}
      BY <1>8 DEF Reset, Without
    <2>2. /\ owed' = owed \ {tab[i].ptr : i \in {j \in DOMAIN tab : tab[j].release}}
          /\ cbreg' = cbreg /\ up' = FALSE /\ UNCHANGED <<next_seq, next_root>>
          /\ tab' \in [DOMAIN tab' -> Slot]
      BY <1>8 DEF Reset, Without
    <2>3. {tab'[i].ptr : i \in {j \in DOMAIN tab' : tab'[j].release}} = {}
      BY <2>1
    <2>4. AdoptedHeld'
      BY <2>2, <2>3 DEF IInv, AdoptedHeld
    <2>5. QED
      BY <2>1, <2>2, <2>4
      DEF IInv, TypeOK, OwnersLive, WellFiled, OneIdPerObject, HandleRoots,
          ReleaseIsNone, CallbacksOfLiveHandles
  <1>9. CASE UNCHANGED vars
    BY <1>9 DEF vars, IInv, TypeOK, OwnersLive, OneIdPerObject, AdoptedHeld,
                 CallbacksOfLiveHandles, Resolves
  <1>10. QED
    BY <1>1, <1>2, <1>3, <1>4, <1>5, <1>6, <1>7, <1>8, <1>9 DEF Next, Serve

-----------------------------------------------------------------------------
\* The invariant holds in every reachable state of the table.
THEOREM TableInvariant == Spec => []IInv
  BY InitIInv, NextIInv, PTL DEF Spec

\* The table, its counters and the callback registry keep their types.
THEOREM TypeCorrect == Spec => []TypeOK
  <1>1. IInv => TypeOK
    BY DEF IInv
  <1>2. QED
    BY <1>1, TableInvariant, PTL

\* arpc_handle_put, _adopt and the drops keep the objects in a tree: no slot is
\* left without its owner, and no chain is longer than the kinds are deep.
THEOREM TreeKept == Spec => []OwnersLive
  <1>1. IInv => OwnersLive
    BY DEF IInv
  <1>2. QED
    BY <1>1, TableInvariant, PTL

\* In a table with the invariant, a root names the subtree of its handle.
LEMMA IInvRoots ==
  ASSUME IInv
  PROVE  RootIsSubtree
  <1>1. Tree(tab) /\ HandleRoots(tab)
    BY IInvSound DEF Sound, Table
  <1>2. ASSUME NEW i \in DOMAIN tab
        PROVE  \E h \in Chain(tab, i) : /\ h \in DOMAIN tab
                                        /\ tab[h].tag = "HANDLE"
                                        /\ h.root = i.root
    <2>1. Chain(tab, i) \subseteq DOMAIN tab
      BY <1>1, ChainStep
    <2>2. \A j \in Chain(tab, i) : j.root = i.root
      BY <1>1, ChainRoot
    <2>3. \E h \in Chain(tab, i) : tab[h].tag = "HANDLE"
      BY <1>1, ChainTop
    <2>4. QED
      BY <2>1, <2>2, <2>3
  <1>3. ASSUME NEW h \in DOMAIN tab, tab[h].tag = "HANDLE"
        PROVE  Below(tab, h) = {i \in DOMAIN tab : i.root = h.root}
    <2>1. \A i \in DOMAIN tab : h \in Chain(tab, i) => i.root = h.root
      BY <1>1, ChainRoot
    <2>2. \A i \in DOMAIN tab : i.root = h.root => h \in Chain(tab, i)
      BY <1>1, <1>2, <1>3 DEF HandleRoots
    <2>3. QED
      BY <2>1, <2>2 DEF Below, Under
  <1>4. QED
    BY <1>2, <1>3 DEF RootIsSubtree

\* What the client forgets by root (arpc_purge_root) is what the server drops by
\* walking the tree (arpc_handle_drop_owner), for every handle.
THEOREM RootNamesSubtree == Spec => []RootIsSubtree
  <1>1. IInv => RootIsSubtree
    BY IInvRoots
  <1>2. QED
    BY <1>1, TableInvariant, PTL

\* No object has two live ids and no number is issued twice.
THEOREM OneId == Spec => []OneIdPerObject
  <1>1. IInv => OneIdPerObject
    BY DEF IInv
  <1>2. QED
    BY <1>1, TableInvariant, PTL

\* rebuild() and arpc_handle_reset free an adopted record exactly once, with the
\* slot that holds it, allocation failures included.
THEOREM AdoptedOnce == Spec => []AdoptedHeld
  <1>1. IInv => AdoptedHeld
    BY DEF IInv
  <1>2. QED
    BY <1>1, TableInvariant, PTL

\* arpc_handle_drop_owner leaves no callback registered for a dropped handle.
THEOREM CallbacksLive == Spec => []CallbacksOfLiveHandles
  <1>1. IInv => CallbacksOfLiveHandles
    BY DEF IInv
  <1>2. QED
    BY <1>1, TableInvariant, PTL

\* A live id keeps its object until it is dropped, and no id comes back.
THEOREM NeverReused == Spec => IdsNeverReused
  <1> DEFINE Kept == /\ next_seq' >= next_seq
                     /\ \A i \in DOMAIN tab' :
                          \/ /\ i \in DOMAIN tab
                             /\ tab'[i].ptr = tab[i].ptr
                             /\ tab'[i].tag = tab[i].tag
                          \/ next_seq <= i.seq /\ i.seq < next_seq'
  <1>1. IInv /\ [Next]_vars => [Kept]_vars
    <2> SUFFICES ASSUME IInv, Next PROVE Kept
      BY DEF vars
    <2>0. /\ Sound(Table) /\ Table.tab = tab /\ Table.seq = next_seq
          /\ Tree(tab) /\ next_seq \in Nat
          /\ Table = [tab |-> Table.tab, seq |-> Table.seq, root |-> Table.root]
      BY IInvSound DEF Sound, Table
    <2>1. ASSUME tab' = tab \/ (\E S : tab' = Without(tab, S)),
                 UNCHANGED next_seq
          PROVE  Kept
      <3>1. DOMAIN tab' \subseteq DOMAIN tab /\ \A i \in DOMAIN tab' : tab'[i] = tab[i]
        BY <2>1 DEF Without
      <3>2. next_seq' >= next_seq
        BY <2>0, <2>1
      <3>3. QED
        BY <3>1, <3>2
    <2>2. ASSUME NEW p \in Ptr, NEW tag \in Tags, NEW o, NEW release \in BOOLEAN,
                 release => tag = "NONE",
                 \/ o = NoId /\ tag = "HANDLE"
                 \/ /\ o \in DOMAIN tab
                    /\ tag # "HANDLE" => Depth[tab[o].tag] < Depth[tag]
                    /\ tag = "HANDLE" => FindPtr(tab, p, tag) # NoId,
                 Becomes(Filed(Table, p, tag, o, release))
          PROVE  Kept
      <3> DEFINE new == Filed(Table, p, tag, o, release)
      <3>1. tab' = new.tab /\ next_seq' = new.seq
        BY <2>2 DEF Becomes
      <3>2. /\ Sound(new)
            /\ \A i \in DOMAIN tab : /\ new.tab[i].ptr = tab[i].ptr
                                     /\ new.tab[i].tag = tab[i].tag
        BY <2>0, <2>2, FiledSound
      <3>3. \A i \in DOMAIN new.tab : i \in Id /\ i.seq < new.seq
        BY <3>2 DEF Sound, Tree
      <3>4. CASE FindPtr(tab, p, tag) # NoId
        <4>1. new.tab = Refiled(tab, FindPtr(tab, p, tag), o) /\ new.seq = next_seq
          BY <2>0, <3>4 DEF Filed
        <4>2. DOMAIN new.tab = DOMAIN tab
          BY <4>1, <2>0 DEF Refiled, Tree
        <4>3. QED
          BY <3>1, <3>2, <4>1, <4>2, <2>0
      <3>5. CASE FindPtr(tab, p, tag) = NoId
        <4> DEFINE id == NewId(next_seq, Table.root, tag, o)
        <4>1. /\ new.seq = next_seq + 1
              /\ DOMAIN new.tab = DOMAIN tab \cup {id}
          BY <2>0, <3>5 DEF Filed, With
        <4>2. id.seq = next_seq
          BY DEF NewId
        <4> HIDE DEF new, id
        <4>3. QED
          BY <3>1, <3>2, <3>3, <4>1, <4>2, <2>0
      <3>6. QED
        BY <3>4, <3>5
    <2>3. ASSUME NEW p \in Ptr, PutHandle(p) PROVE Kept
      BY <2>2, <2>3 DEF PutHandle, Tags
    <2>4. ASSUME NEW p \in Ptr, NEW tag \in Tags, NEW arg \in DOMAIN tab,
                 PutFrom(p, tag, arg)
          PROVE  Kept
      <3>1. tag # "NONE" /\ TakenBy(tag, arg)
        BY <2>4 DEF PutFrom, TakenBy
      <3>2. /\ Ancestor(tab, arg, ParentTag[tag]) \in DOMAIN tab
            /\ tag # "HANDLE" =>
                 Depth[tab[Ancestor(tab, arg, ParentTag[tag])].tag] < Depth[tag]
        BY <3>1, OwnerAbove
      <3>3. QED
        BY <2>2, <2>4, <3>1, <3>2 DEF PutFrom
    <2>5. ASSUME NEW p \in Ptr, NEW h \in DOMAIN tab, Adopt(p, h) PROVE Kept
      <3> DEFINE o == Ancestor(tab, h, ParentTag["NONE"])
      <3>1. ParentTag["NONE"] \in Tags /\ ParentTag["NONE"] = "DB"
        BY DEF ParentTag, Tags
      <3>2. o \in Chain(tab, h) /\ tab[o].tag \in {"DB", "HANDLE"}
        BY <3>1, <2>0, AncestorSpec
      <3>3. o \in DOMAIN tab /\ Depth[tab[o].tag] < Depth["NONE"]
        BY <3>2, <2>0, ChainStep, Depths
      <3>4. QED
        BY <2>2, <2>5, <3>3 DEF Adopt, Tags
    <2>6. ASSUME NEW id \in DOMAIN tab, Drop(id) \/ DropOwner(id) \/ DropUnder(id)
          PROVE  Kept
      BY <2>1, <2>6 DEF Drop, DropOwner, DropUnder, Dropped, NotDropped
    <2>7. ASSUME NEW h \in DOMAIN tab \cup {NoId}, NEW enabled \in BOOLEAN, CbSet(h, enabled)
          PROVE  Kept
      BY <2>1, <2>7 DEF CbSet
    <2>8. ASSUME Reset PROVE Kept
      BY <2>1, <2>8 DEF Reset
    <2>9. QED
      BY <2>3, <2>4, <2>5, <2>6, <2>7, <2>8 DEF Next, Serve
  <1>2. QED
    BY <1>1, TableInvariant, PTL DEF Spec, IdsNeverReused
=============================================================================
