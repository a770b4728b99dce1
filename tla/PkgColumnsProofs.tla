-------------------------- MODULE PkgColumnsProofs --------------------------
(***************************************************************************)
(* Proofs about the client's package columns, for any packages, lists,      *)
(* handles, depth of nesting and number of columns.                         *)
(***************************************************************************)
EXTENDS PkgColumns, TLAPS, WellFoundedInduction

\* A pop: every frame that is left was one further down.
LEMMA Popped ==
  ASSUME NEW S, NEW s \in Seq(S), s # <<>>
  PROVE  /\ Tail(s) \in Seq(S) /\ Len(Tail(s)) = Len(s) - 1
         /\ \A i \in DOMAIN Tail(s) : i + 1 \in DOMAIN s /\ Tail(s)[i] = s[i + 1]
         /\ \A i \in DOMAIN s : i = 1 \/ (i - 1 \in DOMAIN Tail(s) /\ Tail(s)[i - 1] = s[i])
  OBVIOUS

\* The members of a group are of one handle, and a column has their answers in
\* their order.
GroupInv ==
  \A g \in DOMAIN groups :
    /\ \A i, j \in DOMAIN groups[g].ids : Root[groups[g].ids[i]] = Root[groups[g].ids[j]]
    /\ \A k \in DOMAIN groups[g].cols, i \in DOMAIN groups[g].ids :
         groups[g].cols[k].vals[i][1] = groups[g].ids[i]

\* A package's slot is its place in its group, and every group is somebody's.
SlotInv ==
  /\ \A p \in DOMAIN slots : groups[slots[p].g].ids[slots[p].i] = p
  /\ \A g \in DOMAIN groups : \E p \in DOMAIN slots : slots[p].g = g

\* A fetch under way is for the group of its package, and has the first answers.
CallInv ==
  \A i \in DOMAIN stk : stk[i].op = "fetch" =>
    /\ stk[i].pkg \in DOMAIN slots /\ slots[stk[i].pkg].g = stk[i].g
    /\ Len(stk[i].vals) <= Len(groups[stk[i].g].ids)
    /\ \A k \in DOMAIN stk[i].vals : stk[i].vals[k][1] = groups[stk[i].g].ids[k]

\* A column is in one place, and not freed.
ColInv ==
  /\ \A g \in DOMAIN groups : \A k \in DOMAIN groups[g].cols :
       groups[g].cols[k].n \notin freed
  /\ \A g, h \in DOMAIN groups :
       \A k \in DOMAIN groups[g].cols, l \in DOMAIN groups[h].cols :
         groups[g].cols[k].n = groups[h].cols[l].n => g = h /\ k = l

\* What a caller holds is in no column but one of strings, of its package's handle.
HeldInv ==
  \A h \in held :
    /\ h[1] \notin freed
    /\ \A g \in DOMAIN groups : \A k \in DOMAIN groups[g].cols :
         groups[g].cols[k].n = h[1] =>
           groups[g].cols[k].field = "name" /\ Root[groups[g].ids[1]] = Root[h[2]]

\* The groups of which a column of reasons is about to be dropped.
Doomed ==
  {slots[stk[i].pkg].g : i \in {j \in DOMAIN stk :
     stk[j].op = "set_reason" /\ stk[j].applied /\ stk[j].pkg \in DOMAIN slots}}

\* Where nothing raced, a group has at most one column of reasons; it is up to date
\* for the packages that read it, unless it is about to be dropped; and so are the
\* answers that have come in for one.
FreshInv ==
  \A g \in DOMAIN groups \ raced :
    /\ \A k, l \in DOMAIN groups[g].cols :
         groups[g].cols[k].field = "reason" /\ groups[g].cols[l].field = "reason" => k = l
    /\ g \in Doomed \/
       \A k \in DOMAIN groups[g].cols, p \in DOMAIN slots :
         groups[g].cols[k].field = "reason" /\ slots[p].g = g =>
           groups[g].cols[k].vals[slots[p].i] = Value(p, "reason")
    /\ \A i \in DOMAIN stk, p \in DOMAIN slots :
         /\ stk[i].op = "fetch" /\ stk[i].g = g /\ stk[i].field = "reason"
         /\ slots[p].g = g /\ slots[p].i \in DOMAIN stk[i].vals
         => stk[i].vals[slots[p].i] = Value(p, "reason")

\* The inductive invariant.
IInv == TypeOK /\ GroupInv /\ SlotInv /\ CallInv /\ ColInv /\ HeldInv /\ FreshInv

-----------------------------------------------------------------------------
(* Sequences.                                                              *)

\* A set of natural numbers that is not empty has a least element.
LEMMA Least ==
  ASSUME NEW S \in SUBSET Nat, S # {}
  PROVE  Min(S) \in S
  <1> DEFINE R == {ss \in Nat \X Nat : ss[1] < ss[2]}
  <1>1. R = OpToRel(<, Nat)
    BY DEF OpToRel
  <1>2. IsWellFoundedOn(R, Nat)
    BY <1>1, NatLessThanWellFounded, Zenon
  <1>3. \E x \in S : \A y \in S : ~ (<<y, x>> \in R)
    <2> HIDE DEF R
    <2> QED BY <1>2, WFMin
  <1>4. PICK x \in S : \A y \in S : ~ (<<y, x>> \in R)
    BY <1>3
  <1>5. ASSUME NEW y \in S PROVE x <= y
    <2>1. <<y, x>> \notin R /\ <<y, x>> \in Nat \X Nat
      BY <1>4
    <2>2. ~ (<<y, x>>[1] < <<y, x>>[2])
      BY <2>1
    <2>3. QED
      BY <2>2
  <1>6. QED
    BY <1>4, <1>5 DEF Min

\* What find_column finds: a column of the field, if there is one.
LEMMA PlaceIs ==
  ASSUME NEW g, NEW f, NEW S, groups[g].cols \in Seq(S)
  PROVE  /\ Place(g, f) # 0 => /\ Place(g, f) \in DOMAIN groups[g].cols
                               /\ groups[g].cols[Place(g, f)].field = f
         /\ Place(g, f) = 0 => \A k \in DOMAIN groups[g].cols : groups[g].cols[k].field # f
  <1> DEFINE s == groups[g].cols
             I == {i \in 1 .. Len(s) : s[i].field = f}
  <1>1. Place(g, f) = IF I # {} THEN Min(I) ELSE 0
    BY DEF Place, SelectInSeq
  <1>2. I \in SUBSET Nat /\ DOMAIN s = 1 .. Len(s) /\ Len(s) \in Nat
    OBVIOUS
  <1>3. I # {} => Min(I) \in I
    BY <1>2, Least
  <1>4. \A i \in I : i \in DOMAIN s /\ s[i].field = f /\ i # 0
    BY <1>2
  <1>5. \A i \in DOMAIN s : s[i].field = f => i \in I
    BY <1>2
  <1> HIDE DEF I, s
  <1>6. Place(g, f) # 0 => Place(g, f) \in DOMAIN s /\ s[Place(g, f)].field = f
    BY <1>1, <1>3, <1>4
  <1>7. Place(g, f) = 0 => \A k \in DOMAIN s : s[k].field # f
    BY <1>1, <1>3, <1>4, <1>5
  <1>8. QED
    BY <1>6, <1>7 DEF s

\* What is left of a sequence without one place of it.
LEMMA RemovedAt ==
  ASSUME NEW S, NEW s \in Seq(S), NEW k \in DOMAIN s
  PROVE  /\ RemoveAt(s, k) \in Seq(S)
         /\ \A j \in DOMAIN RemoveAt(s, k) : \E l \in DOMAIN s :
              /\ l # k /\ RemoveAt(s, k)[j] = s[l]
              /\ l = IF j < k THEN j ELSE j + 1
  <1> DEFINE u == SubSeq(s, 1, k - 1)
             v == SubSeq(s, k + 1, Len(s))
  <1>1. k \in 1 .. Len(s) /\ Len(s) \in Nat /\ DOMAIN s = 1 .. Len(s)
    OBVIOUS
  <1>2. u \in Seq(S) /\ Len(u) = k - 1 /\ \A j \in 1 .. k - 1 : u[j] = s[j]
    BY <1>1
  <1>3. v \in Seq(S) /\ Len(v) = Len(s) - k /\ \A j \in 1 .. Len(s) - k : v[j] = s[k + j]
    BY <1>1
  <1>4. RemoveAt(s, k) = u \o v
    BY DEF RemoveAt
  <1> HIDE DEF u, v
  <1>5. /\ u \o v \in Seq(S) /\ Len(u \o v) = Len(s) - 1
        /\ \A j \in 1 .. Len(s) - 1 : (u \o v)[j] = IF j < k THEN u[j] ELSE v[j - k + 1]
    <2>1. /\ u \o v \in Seq(S) /\ Len(u \o v) = Len(u) + Len(v)
          /\ \A j \in 1 .. Len(u) + Len(v) :
               (u \o v)[j] = IF j <= Len(u) THEN u[j] ELSE v[j - Len(u)]
      BY <1>2, <1>3
    <2>2. Len(u) + Len(v) = Len(s) - 1
      BY <1>1, <1>2, <1>3
    <2>3. ASSUME NEW j \in 1 .. Len(s) - 1
          PROVE  /\ j <= Len(u) <=> j < k
                 /\ j - Len(u) = j - k + 1
      BY <1>1, <1>2
    <2>4. QED
      BY <2>1, <2>2, <2>3
  <1>6. ASSUME NEW j \in 1 .. Len(s) - 1
        PROVE  \E l \in DOMAIN s : /\ l # k /\ (u \o v)[j] = s[l]
                                   /\ l = IF j < k THEN j ELSE j + 1
    <2>1. CASE j < k
      BY <1>1, <1>2, <1>5, <2>1
    <2>2. CASE ~ (j < k)
      <3>1. j - k + 1 \in 1 .. Len(s) - k /\ k + (j - k + 1) = j + 1 /\ j + 1 \in 1 .. Len(s)
        BY <1>1, <2>2
      <3>2. (u \o v)[j] = s[j + 1]
        BY <1>3, <1>5, <2>2, <3>1
      <3>3. QED
        BY <1>1, <2>2, <3>1, <3>2
    <2>3. QED
      BY <2>1, <2>2
  <1>7. DOMAIN (u \o v) = 1 .. Len(s) - 1
    BY <1>5
  <1>8. QED
    BY <1>4, <1>5, <1>6, <1>7

-----------------------------------------------------------------------------
(* The parts.                                                              *)

\* What the types say of a group, its columns and its members.
LEMMA GroupTyped ==
  ASSUME TypeOK, NEW g \in DOMAIN groups
  PROVE  /\ g \in Nat /\ g # next_grp
         /\ groups[g].ids \in Seq(Pkgs) /\ 1 \in DOMAIN groups[g].ids
         /\ DOMAIN groups[g].ids = 1 .. Len(groups[g].ids) /\ Len(groups[g].ids) \in Nat
         /\ groups[g].cols \in Seq(Columns)
         /\ \A k \in DOMAIN groups[g].cols :
              /\ groups[g].cols[k] \in Columns
              /\ groups[g].cols[k].n \in 1 .. next_col - 1
              /\ Len(groups[g].cols[k].vals) = Len(groups[g].ids)
  <1>1. /\ groups[g] \in [ids : Seq(Pkgs), cols : Seq(Columns)] /\ g \in 1 .. next_grp - 1
        /\ groups[g].ids # <<>> /\ next_grp \in Nat /\ next_col \in Nat
        /\ \A c \in ToSet(groups[g].cols) : c.n < next_col /\ Len(c.vals) = Len(groups[g].ids)
    BY DEF TypeOK
  <1>2. groups[g].ids \in Seq(Pkgs) /\ groups[g].cols \in Seq(Columns)
    BY <1>1
  <1>3. 1 \in DOMAIN groups[g].ids /\ DOMAIN groups[g].ids = 1 .. Len(groups[g].ids)
    BY <1>1, <1>2
  <1>4. ASSUME NEW k \in DOMAIN groups[g].cols
        PROVE  groups[g].cols[k] \in Columns /\ groups[g].cols[k] \in ToSet(groups[g].cols)
    BY <1>2 DEF ToSet
  <1>5. \A c \in Columns : c.n \in Nat \ {0}
    BY DEF Columns
  <1>6. QED
    BY <1>1, <1>2, <1>3, <1>4, <1>5

\* The same, of a package's slot.
LEMMA SlotTyped ==
  ASSUME TypeOK, NEW p \in DOMAIN slots
  PROVE  /\ p \in Pkgs /\ slots[p].g \in DOMAIN groups
         /\ slots[p].i \in DOMAIN groups[slots[p].g].ids
         /\ slots[p] \in [g : DOMAIN groups, i : Nat]
  BY DEF TypeOK

\* A stub under way is a fetch or a setting.
LEMMA FrameTyped ==
  \A x \in Fetches \cup Settings :
    /\ x.pkg \in Pkgs
    /\ x.op = "fetch" => x \in Fetches
    /\ x.op = "set_reason" => x \in Settings
  BY DEF Fetches, Settings

-----------------------------------------------------------------------------
(* The tables grow: group_new.                                             *)

\* What group_new does to the tables, if it makes a group.
LEMMA Registered ==
  ASSUME TypeOK, NEW L \in Seq(Pkgs), L # <<>>, GroupNew(L), ~ UNCHANGED tables
  PROVE  /\ next_grp' = next_grp + 1
         /\ DOMAIN groups' = DOMAIN groups \cup {next_grp}
         /\ \A g \in DOMAIN groups : groups'[g] = groups[g]
         /\ groups'[next_grp].ids = L /\ groups'[next_grp].cols = <<>>
         /\ groups' \in [DOMAIN groups' -> [ids : Seq(Pkgs), cols : Seq(Columns)]]
         /\ slots' \in [DOMAIN slots' -> [g : DOMAIN groups', i : Nat]]
         /\ DOMAIN slots \subseteq DOMAIN slots' /\ DOMAIN slots' \subseteq Pkgs
         /\ \A p \in DOMAIN slots : slots'[p] = slots[p]
         /\ \A p \in DOMAIN slots' \ DOMAIN slots :
              slots'[p].g = next_grp /\ slots'[p].i \in DOMAIN L /\ L[slots'[p].i] = p
         /\ DOMAIN slots' = DOMAIN slots \cup {L[i] : i \in DOMAIN L}
         /\ DOMAIN slots' # DOMAIN slots
  <1> DEFINE new == {i \in DOMAIN L : L[i] \notin DOMAIN slots}
             in  == {L[i] : i \in new}
             pl(p) == CHOOSE i \in new : L[i] = p
             G   == [ids |-> L, cols |-> <<>>]
  <1>1. /\ new # {}
        /\ groups' = Joined(groups, [g \in {next_grp} |-> G])
        /\ slots' = Joined(slots, [p \in in |-> [g |-> next_grp, i |-> pl(p)]])
        /\ next_grp' = next_grp + 1
    BY Zenon DEF GroupNew
  <1>2. \A p \in in : pl(p) \in new /\ L[pl(p)] = p
    OBVIOUS
  <1>3. /\ DOMAIN L = 1 .. Len(L) /\ Len(L) \in Nat /\ new \subseteq DOMAIN L /\ new \subseteq Nat
        /\ in \subseteq Pkgs /\ in # {} /\ in \cap DOMAIN slots = {}
        /\ in \cup DOMAIN slots = DOMAIN slots \cup {L[i] : i \in DOMAIN L}
    BY <1>1
  <1>4. G \in [ids : Seq(Pkgs), cols : Seq(Columns)] /\ G.ids = L /\ G.cols = <<>>
    OBVIOUS
  <1> HIDE DEF new, in, pl, G
  <1>5. next_grp \notin DOMAIN groups
    BY DEF TypeOK
  <1>6. /\ DOMAIN groups' = DOMAIN groups \cup {next_grp}
        /\ \A g \in DOMAIN groups : groups'[g] = groups[g]
        /\ groups'[next_grp] = G
        /\ groups' = [g \in DOMAIN groups' |-> groups'[g]]
    BY <1>1, <1>5 DEF Joined
  <1>7. /\ DOMAIN slots' = DOMAIN slots \cup in
        /\ \A p \in DOMAIN slots : slots'[p] = slots[p]
        /\ \A p \in in : slots'[p] = [g |-> next_grp, i |-> pl(p)]
        /\ slots' = [p \in DOMAIN slots' |-> slots'[p]]
    BY <1>1, <1>3 DEF Joined
  <1>8. groups' \in [DOMAIN groups' -> [ids : Seq(Pkgs), cols : Seq(Columns)]]
    BY <1>4, <1>6 DEF TypeOK
  <1>9. \A p \in DOMAIN slots' : slots'[p] \in [g : DOMAIN groups', i : Nat]
    BY <1>2, <1>3, <1>6, <1>7 DEF TypeOK
  <1>10. DOMAIN slots' \subseteq Pkgs
    BY <1>3, <1>7 DEF TypeOK
  <1>11. \A p \in DOMAIN slots' \ DOMAIN slots :
           slots'[p].g = next_grp /\ slots'[p].i \in DOMAIN L /\ L[slots'[p].i] = p
    BY <1>2, <1>3, <1>7
  <1>12. slots' \in [DOMAIN slots' -> [g : DOMAIN groups', i : Nat]]
    BY <1>7, <1>9
  <1>13. DOMAIN slots' # DOMAIN slots /\ DOMAIN slots' = DOMAIN slots \cup {L[i] : i \in DOMAIN L}
    BY <1>3, <1>7
  <1>14. QED
    BY <1>1, <1>4, <1>6, <1>7, <1>8, <1>10, <1>11, <1>12, <1>13

\* A list is registered, and at most a fetch that has read nothing is begun: the
\* invariant is kept.  The groups there are, and what reads them, do not change.
LEMMA Grown ==
  ASSUME IInv, NEW L \in Seq(Pkgs), L # <<>>,
         \A i, j \in DOMAIN L : Root[L[i]] = Root[L[j]],
         GroupNew(L), UNCHANGED <<next_col, reason, freed, held, raced>>,
         stk' \in Seq(Fetches \cup Settings),
         \A j \in DOMAIN stk : \E i \in DOMAIN stk' : stk'[i] = stk[j],
         \A i \in DOMAIN stk' :
           \/ \E j \in DOMAIN stk : stk'[i] = stk[j]
           \/ /\ stk'[i].op = "fetch" /\ stk'[i].vals = <<>>
              /\ stk'[i].pkg \in DOMAIN slots' /\ slots'[stk'[i].pkg].g = stk'[i].g
  PROVE  IInv'
  <1>0. TypeOK /\ GroupInv /\ SlotInv /\ CallInv /\ ColInv /\ HeldInv /\ FreshInv
    BY DEF IInv
  <1>m. /\ next_grp' \in Nat \ {0} /\ DOMAIN groups' \subseteq 1 .. next_grp' - 1
        /\ groups' \in [DOMAIN groups' -> [ids : Seq(Pkgs), cols : Seq(Columns)]]
        /\ slots' \in [DOMAIN slots' -> [g : DOMAIN groups', i : Nat]]
        /\ DOMAIN groups \subseteq DOMAIN groups'
        /\ \A g \in DOMAIN groups : groups'[g] = groups[g]
        /\ \A g \in DOMAIN groups' \ DOMAIN groups :
             /\ groups'[g].ids = L /\ groups'[g].cols = <<>>
             /\ \E p \in DOMAIN slots' : slots'[p].g = g
        /\ DOMAIN slots \subseteq DOMAIN slots' /\ DOMAIN slots' \subseteq Pkgs
        /\ \A p \in DOMAIN slots : slots'[p] = slots[p]
        /\ \A p \in DOMAIN slots' \ DOMAIN slots :
             /\ slots'[p].g \in DOMAIN groups' \ DOMAIN groups
             /\ slots'[p].i \in DOMAIN L /\ L[slots'[p].i] = p
    <2>1. CASE UNCHANGED tables
      BY <1>0, <2>1 DEF TypeOK, tables
    <2>2. CASE ~ UNCHANGED tables
      <3>1. next_grp \in Nat \ {0} /\ DOMAIN groups \subseteq 1 .. next_grp - 1
        BY <1>0 DEF TypeOK
      <3>2. next_grp \notin DOMAIN groups /\ next_grp' = next_grp + 1
        <4>1. next_grp \notin 1 .. next_grp - 1
          BY <3>1
        <4>2. QED
          BY <1>0, <2>2, <3>1, <4>1, Registered
      <3>3. DOMAIN groups' = DOMAIN groups \cup {next_grp}
        BY <1>0, <2>2, Registered
      <3>4. next_grp' \in Nat \ {0} /\ DOMAIN groups' \subseteq 1 .. next_grp' - 1
        BY <3>1, <3>2, <3>3
      <3>5. \E p \in DOMAIN slots' : p \notin DOMAIN slots
        BY <1>0, <2>2, Registered
      <3>6. /\ groups' \in [DOMAIN groups' -> [ids : Seq(Pkgs), cols : Seq(Columns)]]
            /\ slots' \in [DOMAIN slots' -> [g : DOMAIN groups', i : Nat]]
            /\ \A g \in DOMAIN groups : groups'[g] = groups[g]
            /\ groups'[next_grp].ids = L /\ groups'[next_grp].cols = <<>>
            /\ DOMAIN slots \subseteq DOMAIN slots' /\ DOMAIN slots' \subseteq Pkgs
            /\ \A p \in DOMAIN slots : slots'[p] = slots[p]
            /\ \A p \in DOMAIN slots' \ DOMAIN slots :
                 slots'[p].g = next_grp /\ slots'[p].i \in DOMAIN L /\ L[slots'[p].i] = p
        BY <1>0, <2>2, Registered
      <3>7. DOMAIN groups' \ DOMAIN groups = {next_grp}
        BY <3>2, <3>3
      <3>8. QED
        BY <3>3, <3>4, <3>5, <3>6, <3>7
    <2>3. QED
      BY <2>1, <2>2
  <1>e. \A k : k \notin DOMAIN <<>>
    OBVIOUS
  <1>1. TypeOK'
    <2>1. \A g \in DOMAIN groups' :
            /\ groups'[g].ids # <<>>
            /\ \A c \in ToSet(groups'[g].cols) :
                 c.n < next_col' /\ Len(c.vals) = Len(groups'[g].ids)
      <3> SUFFICES ASSUME NEW g \in DOMAIN groups'
                   PROVE  /\ groups'[g].ids # <<>>
                          /\ \A c \in ToSet(groups'[g].cols) :
                               c.n < next_col' /\ Len(c.vals) = Len(groups'[g].ids)
        OBVIOUS
      <3>1. CASE g \in DOMAIN groups
        BY <1>0, <1>m, <3>1 DEF TypeOK
      <3>2. CASE g \notin DOMAIN groups
        <4>1. groups'[g].ids = L /\ groups'[g].cols = <<>>
          BY <1>m, <3>2
        <4>2. ToSet(groups'[g].cols) = {}
          BY <4>1, <1>e DEF ToSet
        <4>3. QED
          BY <4>1, <4>2
      <3>3. QED
        BY <3>1, <3>2
    <2>2. \A p \in DOMAIN slots' : slots'[p].i \in DOMAIN groups'[slots'[p].g].ids
      <3> SUFFICES ASSUME NEW p \in DOMAIN slots'
                   PROVE  slots'[p].i \in DOMAIN groups'[slots'[p].g].ids
        OBVIOUS
      <3>1. CASE p \in DOMAIN slots
        BY <1>0, <1>m, <3>1, SlotTyped
      <3>2. CASE p \notin DOMAIN slots
        BY <1>m, <3>2
      <3>3. QED
        BY <3>1, <3>2
    <2>3. /\ next_col' \in Nat \ {0} /\ reason' \in [Pkgs -> {0, 1}]
          /\ freed' \subseteq 1 .. next_col' - 1
          /\ held' \subseteq (1 .. next_col' - 1) \X Pkgs /\ raced' \subseteq Nat
      BY <1>0 DEF TypeOK
    <2>4. QED
      BY <1>m, <2>1, <2>2, <2>3 DEF TypeOK
  <1>2. GroupInv'
    <2> SUFFICES ASSUME NEW g \in DOMAIN groups'
                 PROVE  /\ \A i, j \in DOMAIN groups'[g].ids :
                             Root[groups'[g].ids[i]] = Root[groups'[g].ids[j]]
                        /\ \A k \in DOMAIN groups'[g].cols, i \in DOMAIN groups'[g].ids :
                             groups'[g].cols[k].vals[i][1] = groups'[g].ids[i]
      BY DEF GroupInv
    <2>1. CASE g \in DOMAIN groups
      BY <1>0, <1>m, <2>1 DEF GroupInv
    <2>2. CASE g \notin DOMAIN groups
      <3>1. groups'[g].ids = L /\ groups'[g].cols = <<>>
        BY <1>m, <2>2
      <3>2. QED
        BY <3>1, <1>e
    <2>3. QED
      BY <2>1, <2>2
  <1>3. SlotInv'
    <2>1. ASSUME NEW p \in DOMAIN slots' PROVE groups'[slots'[p].g].ids[slots'[p].i] = p
      <3>1. CASE p \in DOMAIN slots
        BY <1>0, <1>m, <3>1, SlotTyped DEF SlotInv
      <3>2. CASE p \notin DOMAIN slots
        BY <1>m, <3>2
      <3>3. QED
        BY <3>1, <3>2
    <2>2. \A g \in DOMAIN groups' : \E p \in DOMAIN slots' : slots'[p].g = g
      BY <1>0, <1>m DEF SlotInv
    <2>3. QED
      BY <2>1, <2>2 DEF SlotInv
  <1>4. CallInv'
    <2> SUFFICES ASSUME NEW i \in DOMAIN stk', stk'[i].op = "fetch"
                 PROVE  /\ stk'[i].pkg \in DOMAIN slots' /\ slots'[stk'[i].pkg].g = stk'[i].g
                        /\ Len(stk'[i].vals) <= Len(groups'[stk'[i].g].ids)
                        /\ \A k \in DOMAIN stk'[i].vals :
                             stk'[i].vals[k][1] = groups'[stk'[i].g].ids[k]
      BY DEF CallInv
    <2>1. ASSUME NEW j \in DOMAIN stk, stk'[i] = stk[j]
          PROVE  /\ stk'[i].pkg \in DOMAIN slots' /\ slots'[stk'[i].pkg].g = stk'[i].g
                 /\ Len(stk'[i].vals) <= Len(groups'[stk'[i].g].ids)
                 /\ \A k \in DOMAIN stk'[i].vals :
                      stk'[i].vals[k][1] = groups'[stk'[i].g].ids[k]
      <3>1. stk[j].pkg \in DOMAIN slots /\ slots[stk[j].pkg].g = stk[j].g
        BY <1>0, <2>1 DEF CallInv
      <3>2. stk[j].g \in DOMAIN groups
        BY <1>0, <3>1, SlotTyped
      <3>3. /\ Len(stk[j].vals) <= Len(groups[stk[j].g].ids)
            /\ \A k \in DOMAIN stk[j].vals : stk[j].vals[k][1] = groups[stk[j].g].ids[k]
        BY <1>0, <2>1 DEF CallInv
      <3>4. /\ groups'[stk[j].g] = groups[stk[j].g] /\ stk[j].pkg \in DOMAIN slots'
            /\ slots'[stk[j].pkg].g = stk[j].g
        BY <1>m, <3>1, <3>2
      <3>5. QED
        BY <2>1, <3>3, <3>4
    <2>2. CASE /\ stk'[i].vals = <<>>
               /\ stk'[i].pkg \in DOMAIN slots' /\ slots'[stk'[i].pkg].g = stk'[i].g
      <3>1. stk'[i].g \in DOMAIN groups'
        BY <1>m, <2>2
      <3>2. groups'[stk'[i].g].ids \in Seq(Pkgs)
        BY <1>m, <3>1
      <3>3. Len(<<>>) = 0 /\ Len(groups'[stk'[i].g].ids) \in Nat
        BY <3>2
      <3>4. QED
        BY <2>2, <1>e, <3>3
    <2>3. QED
      BY <2>1, <2>2
  <1>c. ASSUME NEW g \in DOMAIN groups', NEW k \in DOMAIN groups'[g].cols
        PROVE  g \in DOMAIN groups /\ groups'[g] = groups[g]
    <2>1. groups'[g].cols # <<>>
      BY <1>e
    <2>2. QED
      BY <1>m, <2>1
  <1>f. freed' = freed /\ held' = held
    OBVIOUS
  <1>5. ColInv'
    BY <1>0, <1>c, <1>f DEF ColInv
  <1>6. HeldInv'
    BY <1>0, <1>c, <1>f DEF HeldInv
  <1>7. FreshInv'
    <2>1. \A p \in DOMAIN slots' : slots'[p].g \in DOMAIN groups =>
             p \in DOMAIN slots /\ slots'[p] = slots[p] /\ p \in Pkgs
      BY <1>m
    <2>2. \A p : Value(p, "reason")' = Value(p, "reason")
      BY DEF Value
    <2>3. ASSUME NEW g \in DOMAIN groups, g \in Doomed PROVE g \in Doomed'
      <3>1. PICK j \in DOMAIN stk : /\ stk[j].op = "set_reason" /\ stk[j].applied
                                    /\ stk[j].pkg \in DOMAIN slots /\ g = slots[stk[j].pkg].g
        BY <2>3 DEF Doomed
      <3>2. PICK i \in DOMAIN stk' : stk'[i] = stk[j]
        OBVIOUS
      <3>3. slots'[stk'[i].pkg].g = g /\ stk'[i].pkg \in DOMAIN slots'
        BY <1>m, <3>1, <3>2
      <3>4. QED
        BY <3>1, <3>2, <3>3 DEF Doomed
    <2>4. ASSUME NEW i \in DOMAIN stk', stk'[i].op = "fetch", stk'[i].vals # <<>>
          PROVE  \E j \in DOMAIN stk : stk'[i] = stk[j] /\ stk[j].g \in DOMAIN groups
      <3>1. PICK j \in DOMAIN stk : stk'[i] = stk[j]
        BY <2>4
      <3>2. stk[j].pkg \in DOMAIN slots /\ slots[stk[j].pkg].g = stk[j].g
        BY <1>0, <2>4, <3>1 DEF CallInv
      <3>3. QED
        BY <1>0, <3>1, <3>2, SlotTyped
    <2> SUFFICES ASSUME NEW g \in DOMAIN groups', g \notin raced
                 PROVE
          /\ \A k, l \in DOMAIN groups'[g].cols :
               groups'[g].cols[k].field = "reason" /\ groups'[g].cols[l].field = "reason"
               => k = l
          /\ g \in Doomed' \/
             \A k \in DOMAIN groups'[g].cols, p \in DOMAIN slots' :
               groups'[g].cols[k].field = "reason" /\ slots'[p].g = g =>
                 groups'[g].cols[k].vals[slots'[p].i] = Value(p, "reason")'
          /\ \A i \in DOMAIN stk', p \in DOMAIN slots' :
               /\ stk'[i].op = "fetch" /\ stk'[i].g = g /\ stk'[i].field = "reason"
               /\ slots'[p].g = g /\ slots'[p].i \in DOMAIN stk'[i].vals
               => stk'[i].vals[slots'[p].i] = Value(p, "reason")'
      BY DEF FreshInv
    <2>5. CASE g \in DOMAIN groups
      <3>1. g \in DOMAIN groups \ raced /\ groups'[g] = groups[g]
        BY <1>m, <2>5
      <3>2. \A k, l \in DOMAIN groups'[g].cols :
               groups'[g].cols[k].field = "reason" /\ groups'[g].cols[l].field = "reason"
               => k = l
        BY <1>0, <3>1 DEF FreshInv
      <3>3. g \in Doomed' \/
             \A k \in DOMAIN groups'[g].cols, p \in DOMAIN slots' :
               groups'[g].cols[k].field = "reason" /\ slots'[p].g = g =>
                 groups'[g].cols[k].vals[slots'[p].i] = Value(p, "reason")'
        BY <1>0, <3>1, <2>1, <2>2, <2>3 DEF FreshInv
      <3>4. \A i \in DOMAIN stk', p \in DOMAIN slots' :
               /\ stk'[i].op = "fetch" /\ stk'[i].g = g /\ stk'[i].field = "reason"
               /\ slots'[p].g = g /\ slots'[p].i \in DOMAIN stk'[i].vals
               => stk'[i].vals[slots'[p].i] = Value(p, "reason")'
        <4> SUFFICES ASSUME NEW i \in DOMAIN stk', NEW p \in DOMAIN slots',
                            stk'[i].op = "fetch", stk'[i].g = g, stk'[i].field = "reason",
                            slots'[p].g = g, slots'[p].i \in DOMAIN stk'[i].vals
                     PROVE  stk'[i].vals[slots'[p].i] = Value(p, "reason")'
          OBVIOUS
        <4>1. stk'[i].vals # <<>>
          BY <1>e
        <4>2. PICK j \in DOMAIN stk : stk'[i] = stk[j]
          BY <2>4, <4>1
        <4>3. p \in DOMAIN slots /\ slots'[p] = slots[p]
          BY <2>1, <2>5
        <4>4. stk[j].vals[slots[p].i] = Value(p, "reason")
          BY <1>0, <3>1, <4>2, <4>3 DEF FreshInv
        <4>5. QED
          BY <2>2, <4>2, <4>3, <4>4
      <3>5. QED
        BY <3>2, <3>3, <3>4
    <2>6. CASE g \notin DOMAIN groups
      <3>1. groups'[g].cols = <<>>
        BY <1>m, <2>6
      <3>2. ASSUME NEW i \in DOMAIN stk', NEW k \in DOMAIN stk'[i].vals,
                   stk'[i].op = "fetch", stk'[i].g = g
            PROVE  FALSE
        <4>1. stk'[i].vals # <<>>
          BY <1>e
        <4>2. QED
          BY <2>4, <2>6, <3>2, <4>1
      <3>3. QED
        BY <1>e, <3>1, <3>2
    <2>7. QED
      BY <2>5, <2>6
  <1>8. QED
    BY <1>1, <1>2, <1>3, <1>4, <1>5, <1>6, <1>7 DEF IInv

-----------------------------------------------------------------------------
(* The tables stay.                                                        *)

\* Then the invariant is a matter of the stack and of what callers hold.
LEMMA Steady ==
  ASSUME IInv, UNCHANGED <<tables, next_col, freed>>,
         stk' \in Seq(Fetches \cup Settings), reason' \in [Pkgs -> {0, 1}],
         raced' \subseteq Nat, held' \subseteq (1 .. next_col - 1) \X Pkgs,
         CallInv', HeldInv', FreshInv'
  PROVE  IInv'
  <1>1. groups' = groups /\ slots' = slots /\ next_grp' = next_grp
    BY DEF tables
  <1>2. TypeOK'
    BY <1>1 DEF IInv, TypeOK
  <1>3. GroupInv' /\ SlotInv' /\ ColInv'
    BY <1>1 DEF IInv, GroupInv, SlotInv, ColInv
  <1>4. QED
    BY <1>2, <1>3 DEF IInv

\* Stubs that fetch nothing begin, or stubs end, those that changed a reason in a
\* group that is marked.
LEMMA Recalled ==
  ASSUME IInv, UNCHANGED <<tables, next_col, freed, reason>>, held' \subseteq held,
         raced \subseteq raced', raced' \subseteq Nat,
         stk' \in Seq(Fetches \cup Settings),
         \A i \in DOMAIN stk' : stk'[i].op # "fetch" \/ \E j \in DOMAIN stk : stk'[i] = stk[j],
         \A j \in DOMAIN stk :
           \/ \E i \in DOMAIN stk' : stk'[i] = stk[j]
           \/ stk[j].op # "set_reason"
           \/ stk[j].pkg \in DOMAIN slots => slots[stk[j].pkg].g \in raced'
  PROVE  IInv'
  <1>0. TypeOK /\ CallInv /\ HeldInv /\ FreshInv
    BY DEF IInv
  <1>1. groups' = groups /\ slots' = slots
    BY DEF tables
  <1>2. CallInv'
    BY <1>0, <1>1 DEF CallInv
  <1>3. HeldInv'
    BY <1>0, <1>1 DEF HeldInv
  <1>4. ASSUME NEW g \in Doomed, g \notin raced' PROVE g \in Doomed'
    <2>1. PICK j \in DOMAIN stk : /\ stk[j].op = "set_reason" /\ stk[j].applied
                                  /\ stk[j].pkg \in DOMAIN slots /\ g = slots[stk[j].pkg].g
      BY DEF Doomed
    <2>2. PICK i \in DOMAIN stk' : stk'[i] = stk[j]
      BY <1>4, <2>1
    <2>3. QED
      BY <1>1, <2>1, <2>2 DEF Doomed
  <1>5. FreshInv'
    <2> SUFFICES ASSUME NEW g \in DOMAIN groups, g \notin raced'
                 PROVE
          /\ \A k, l \in DOMAIN groups[g].cols :
               groups[g].cols[k].field = "reason" /\ groups[g].cols[l].field = "reason"
               => k = l
          /\ g \in Doomed' \/
             \A k \in DOMAIN groups[g].cols, p \in DOMAIN slots :
               groups[g].cols[k].field = "reason" /\ slots[p].g = g =>
                 groups[g].cols[k].vals[slots[p].i] = Value(p, "reason")'
          /\ \A i \in DOMAIN stk', p \in DOMAIN slots :
               /\ stk'[i].op = "fetch" /\ stk'[i].g = g /\ stk'[i].field = "reason"
               /\ slots[p].g = g /\ slots[p].i \in DOMAIN stk'[i].vals
               => stk'[i].vals[slots[p].i] = Value(p, "reason")'
      BY <1>1 DEF FreshInv
    <2>1. \A p : Value(p, "reason")' = Value(p, "reason")
      BY DEF Value
    <2>2. g \in DOMAIN groups \ raced
      OBVIOUS
    <2>3. \A k, l \in DOMAIN groups[g].cols :
             groups[g].cols[k].field = "reason" /\ groups[g].cols[l].field = "reason" => k = l
      BY <1>0, <2>2 DEF FreshInv
    <2>4. g \in Doomed' \/
          \A k \in DOMAIN groups[g].cols, p \in DOMAIN slots :
            groups[g].cols[k].field = "reason" /\ slots[p].g = g =>
              groups[g].cols[k].vals[slots[p].i] = Value(p, "reason")'
      BY <1>0, <1>4, <2>1, <2>2 DEF FreshInv
    <2>5. \A i \in DOMAIN stk', p \in DOMAIN slots :
            /\ stk'[i].op = "fetch" /\ stk'[i].g = g /\ stk'[i].field = "reason"
            /\ slots[p].g = g /\ slots[p].i \in DOMAIN stk'[i].vals
            => stk'[i].vals[slots[p].i] = Value(p, "reason")'
      BY <1>0, <2>1, <2>2 DEF FreshInv
    <2>6. QED
      BY <2>3, <2>4, <2>5
  <1>6. /\ reason' \in [Pkgs -> {0, 1}] /\ held' \subseteq (1 .. next_col - 1) \X Pkgs
    BY <1>0 DEF TypeOK
  <1>7. QED
    BY <1>2, <1>3, <1>5, <1>6, Steady

\* A callback or the caller reads a column that is there.
LEMMA FieldCachedKeeps ==
  ASSUME IInv, NEW p \in Pkgs, NEW f \in Fields, FieldCached(p, f)
  PROVE  IInv'
  <1> DEFINE g == slots[p].g
             k == Place(g, f)
             c == groups[g].cols[k]
  <1>0. TypeOK /\ CallInv /\ HeldInv /\ FreshInv /\ ColInv /\ GroupInv /\ SlotInv
    BY DEF IInv
  <1>1. p \in DOMAIN slots /\ k # 0 /\ Returns(p, c)
        /\ UNCHANGED <<tables, next_col, stk, reason, gone, freed, raced>>
    BY DEF FieldCached
  <1>2. groups' = groups /\ slots' = slots
    BY <1>1 DEF tables
  <1>3. g \in DOMAIN groups
    BY <1>0, <1>1, SlotTyped
  <1>4. groups[g].cols \in Seq(Columns)
    BY <1>0, <1>3, GroupTyped
  <1> HIDE DEF g
  <1>5. k \in DOMAIN groups[g].cols
    BY <1>1, <1>4, PlaceIs
  <1>6. c.n \in 1 .. next_col - 1
    BY <1>0, <1>3, <1>5, GroupTyped
  <1>7. groups[g].ids[1] \in Pkgs /\ Root[groups[g].ids[1]] = Root[p]
    <2>1. slots[p].i \in DOMAIN groups[g].ids /\ groups[g].ids[slots[p].i] = p
      BY <1>0, <1>1, SlotTyped DEF SlotInv, g
    <2>2. 1 \in DOMAIN groups[g].ids /\ groups[g].ids \in Seq(Pkgs)
      BY <1>0, <1>3, GroupTyped
    <2>3. QED
      BY <1>0, <1>3, <2>1, <2>2 DEF GroupInv
  <1> HIDE DEF k
  <1>8. \A h \in held' : h \in held \/ (h = <<c.n, p>> /\ c.field = "name")
    BY <1>1 DEF Returns, IsStr
  <1>9. HeldInv'
    <2> SUFFICES ASSUME NEW h \in held'
                 PROVE  /\ h[1] \notin freed
                        /\ \A x \in DOMAIN groups : \A l \in DOMAIN groups[x].cols :
                             groups[x].cols[l].n = h[1] =>
                               /\ groups[x].cols[l].field = "name"
                               /\ Root[groups[x].ids[1]] = Root[h[2]]
      BY <1>1, <1>2 DEF HeldInv
    <2>1. CASE h \in held
      BY <1>0, <2>1 DEF HeldInv
    <2>2. CASE h = <<c.n, p>> /\ c.field = "name"
      <3>1. c.n \notin freed
        BY <1>0, <1>3, <1>5 DEF ColInv
      <3>2. ASSUME NEW x \in DOMAIN groups, NEW l \in DOMAIN groups[x].cols,
                   groups[x].cols[l].n = c.n
            PROVE  x = g /\ l = k
        BY <1>0, <1>3, <1>5, <3>2 DEF ColInv
      <3>3. h[1] = c.n /\ h[2] = p
        BY <2>2
      <3>4. QED
        BY <1>7, <2>2, <3>1, <3>2, <3>3
    <2>3. QED
      BY <1>8, <2>1, <2>2
  <1>10. CallInv' /\ FreshInv'
    <2>1. Doomed' = Doomed /\ \A q : Value(q, "reason")' = Value(q, "reason")
      BY <1>1, <1>2 DEF Doomed, Value
    <2>2. CallInv'
      BY <1>0, <1>1, <1>2 DEF CallInv
    <2>3. QED
      BY <1>0, <1>1, <1>2, <2>1, <2>2 DEF FreshInv
  <1>11. held' \subseteq (1 .. next_col - 1) \X Pkgs
    BY <1>0, <1>6, <1>8 DEF TypeOK
  <1>12. stk' \in Seq(Fetches \cup Settings) /\ reason' \in [Pkgs -> {0, 1}] /\ raced' \subseteq Nat
    BY <1>0, <1>1 DEF TypeOK
  <1>13. QED
    BY <1>1, <1>9, <1>10, <1>11, <1>12, Steady

\* A fetch fails: its frame goes.
LEMMA FetchFailsKeeps ==
  ASSUME IInv, FetchFails
  PROVE  IInv'
  <1>0. stk \in Seq(Fetches \cup Settings) /\ raced \subseteq Nat
    BY DEF IInv, TypeOK
  <1>1. stk # <<>> /\ Head(stk).op = "fetch" /\ stk' = Tail(stk)
        /\ UNCHANGED <<tables, next_col, reason, gone, freed, held, raced>>
    BY DEF FetchFails, Fetching
  <1>2. stk[1].op = "fetch"
    BY <1>0, <1>1
  <1>3. \A j \in DOMAIN stk : (\E i \in DOMAIN stk' : stk'[i] = stk[j]) \/ stk[j].op = "fetch"
    BY <1>0, <1>1, <1>2, Popped
  <1>4. stk' \in Seq(Fetches \cup Settings) /\ \A i \in DOMAIN stk' : \E j \in DOMAIN stk : stk'[i] = stk[j]
    BY <1>0, <1>1
  <1>5. QED
    BY <1>0, <1>1, <1>3, <1>4, Recalled

\* alpm_pkg_set_reason goes out: nothing changes yet.
LEMMA SetReasonKeeps ==
  ASSUME IInv, NEW p \in Pkgs, SetReason(p)
  PROVE  IInv'
  <1> DEFINE f == [op |-> "set_reason", pkg |-> p, applied |-> FALSE]
  <1>0. stk \in Seq(Fetches \cup Settings) /\ raced \subseteq Nat
    BY DEF IInv, TypeOK
  <1>1. stk' = <<f>> \o stk /\ UNCHANGED <<tables, next_col, reason, gone, freed, held, raced>>
    BY DEF SetReason
  <1>2. f \in Fetches \cup Settings /\ f.op = "set_reason"
    BY DEF Settings
  <1> HIDE DEF f
  <1>3. /\ stk' \in Seq(Fetches \cup Settings)
        /\ \A i \in DOMAIN stk' : stk'[i] = f \/ \E j \in DOMAIN stk : stk'[i] = stk[j]
        /\ \A j \in DOMAIN stk : \E i \in DOMAIN stk' : stk'[i] = stk[j]
    <2>1. /\ stk' \in Seq(Fetches \cup Settings) /\ stk'[1] = f
          /\ \A i \in DOMAIN stk : i + 1 \in DOMAIN stk' /\ stk'[i + 1] = stk[i]
          /\ \A i \in DOMAIN stk' : i = 1 \/ (i - 1 \in DOMAIN stk /\ stk'[i] = stk[i - 1])
      BY <1>0, <1>1, <1>2
    <2>2. QED
      BY <2>1
  <1>4. QED
    BY <1>0, <1>1, <1>2, <1>3, Recalled

\* Its reply is lost: the package's group is marked.
LEMMA SetReasonLostKeeps ==
  ASSUME IInv, SetReasonLost
  PROVE  IInv'
  <1>0. stk \in Seq(Fetches \cup Settings) /\ raced \subseteq Nat /\ TypeOK
    BY DEF IInv, TypeOK
  <1>1. stk # <<>> /\ stk' = Tail(stk) /\ raced' = raced \cup GroupOf(Head(stk).pkg)
        /\ UNCHANGED <<tables, next_col, reason, gone, freed, held>>
    BY DEF SetReasonLost, Setting
  <1>2. Head(stk) = stk[1]
    BY <1>0, <1>1
  <1>3. raced' \subseteq Nat
    BY <1>0, <1>1, SlotTyped, GroupTyped DEF GroupOf
  <1>4. stk[1].pkg \in DOMAIN slots => slots[stk[1].pkg].g \in raced'
    BY <1>1, <1>2 DEF GroupOf
  <1>5. \A j \in DOMAIN stk : (\E i \in DOMAIN stk' : stk'[i] = stk[j]) \/ j = 1
    BY <1>0, <1>1, Popped
  <1>6. stk' \in Seq(Fetches \cup Settings) /\ \A i \in DOMAIN stk' : \E j \in DOMAIN stk : stk'[i] = stk[j]
    BY <1>0, <1>1
  <1>7. QED
    BY <1>1, <1>3, <1>4, <1>5, <1>6, Recalled

\* A list is built from a reply, and registered.
LEMMA BuildListKeeps ==
  ASSUME IInv, NEW L \in Lists, BuildList(L)
  PROVE  IInv'
  <1>1. /\ L # <<>> /\ L \in Seq(Pkgs) /\ \A i, j \in DOMAIN L : Root[L[i]] = Root[L[j]]
    BY ListsAssumption
  <1>2. GroupNew(L) /\ UNCHANGED <<next_col, stk, reason, gone, freed, held, raced>>
    BY DEF BuildList
  <1>3. stk' \in Seq(Fetches \cup Settings)
    BY <1>2 DEF IInv, TypeOK
  <1>4. QED
    BY <1>1, <1>2, <1>3, Grown

\* A field is asked for that its package's group has no column of.
LEMMA FieldFetchKeeps ==
  ASSUME IInv, NEW p \in Pkgs, NEW fld \in Fields, FieldFetch(p, fld)
  PROVE  IInv'
  <1> DEFINE g == IF p \in DOMAIN slots THEN slots[p].g ELSE next_grp
             f == [op |-> "fetch", pkg |-> p, field |-> fld, g |-> g, vals |-> <<>>]
             L == <<p>>
  <1>0. stk \in Seq(Fetches \cup Settings) /\ TypeOK
    BY DEF IInv, TypeOK
  <1>1. GroupNew(L) /\ stk' = <<f>> \o stk
        /\ UNCHANGED <<next_col, reason, gone, freed, held, raced>>
    BY DEF FieldFetch
  <1>2. /\ L \in Seq(Pkgs) /\ L # <<>> /\ Len(L) = 1 /\ L[1] = p /\ DOMAIN L = {1}
        /\ \A i, j \in DOMAIN L : Root[L[i]] = Root[L[j]]
    OBVIOUS
  <1> HIDE DEF L
  <1>3. p \in DOMAIN slots' /\ slots'[p].g = g
    <2>1. CASE UNCHANGED tables
      <3>1. p \in DOMAIN slots
        <4>1. next_grp \in Nat
          BY <1>0 DEF TypeOK
        <4>2. p \notin DOMAIN slots => {i \in DOMAIN L : L[i] \notin DOMAIN slots} # {}
          BY <1>2
        <4>3. p \notin DOMAIN slots => next_grp' = next_grp + 1
          BY <1>1, <4>2 DEF GroupNew
        <4>4. next_grp' = next_grp
          BY <2>1 DEF tables
        <4>5. QED
          BY <4>1, <4>3, <4>4
      <3>2. QED
        BY <2>1, <3>1 DEF tables
    <2>2. CASE ~ UNCHANGED tables
      <3>1. /\ \A q \in DOMAIN slots : slots'[q] = slots[q]
            /\ \A q \in DOMAIN slots' \ DOMAIN slots : slots'[q].g = next_grp
            /\ DOMAIN slots' = DOMAIN slots \cup {L[i] : i \in DOMAIN L}
        BY <1>0, <1>1, <1>2, <2>2, Registered
      <3>2. p \in DOMAIN slots'
        BY <1>2, <3>1
      <3>3. QED
        BY <3>1, <3>2
    <2>3. QED
      BY <2>1, <2>2
  <1>4. g \in Nat
    BY <1>0, SlotTyped, GroupTyped DEF TypeOK
  <1> HIDE DEF g
  <1>5. f \in Fetches \cup Settings /\ f.op = "fetch" /\ f.vals = <<>> /\ f.pkg = p /\ f.g = g
    <2>1. <<>> \in Answers
      BY DEF Answers
    <2>2. QED
      BY <1>4, <2>1 DEF Fetches
  <1> HIDE DEF f
  <1>6. /\ stk' \in Seq(Fetches \cup Settings) /\ stk'[1] = f
        /\ \A i \in DOMAIN stk : i + 1 \in DOMAIN stk' /\ stk'[i + 1] = stk[i]
        /\ \A i \in DOMAIN stk' : i = 1 \/ (i - 1 \in DOMAIN stk /\ stk'[i] = stk[i - 1])
    BY <1>0, <1>1, <1>5
  <1>7. \A j \in DOMAIN stk : \E i \in DOMAIN stk' : stk'[i] = stk[j]
    BY <1>6
  <1>8. \A i \in DOMAIN stk' :
           \/ \E j \in DOMAIN stk : stk'[i] = stk[j]
           \/ /\ stk'[i].op = "fetch" /\ stk'[i].vals = <<>>
              /\ stk'[i].pkg \in DOMAIN slots' /\ slots'[stk'[i].pkg].g = stk'[i].g
    BY <1>3, <1>5, <1>6
  <1>9. QED
    BY <1>1, <1>2, <1>6, <1>7, <1>8, Grown

\* The server reads the next member: the answer is its own, and current.
LEMMA ReadMemberKeeps ==
  ASSUME IInv, ReadMember
  PROVE  IInv'
  <1> DEFINE f == stk[1]
             G == groups[f.g]
             k == Len(f.vals) + 1
             v == Value(G.ids[k], f.field)
             w == [f EXCEPT !.vals = Append(@, v)]
  <1>0. stk \in Seq(Fetches \cup Settings) /\ TypeOK /\ CallInv /\ HeldInv /\ FreshInv /\ SlotInv
    BY DEF IInv, TypeOK
  <1>1. stk # <<>> /\ Head(stk) = f /\ f.op = "fetch" /\ 1 \in DOMAIN stk
    BY <1>0 DEF ReadMember, Fetching
  <1>2. k <= Len(G.ids) /\ stk' = [stk EXCEPT ![1] = w]
        /\ UNCHANGED <<tables, next_col, reason, gone, freed, held, raced>>
    BY <1>1 DEF ReadMember
  <1>3. groups' = groups /\ slots' = slots
    BY <1>2 DEF tables
  <1>4. f \in Fetches
    BY <1>0, <1>1, FrameTyped
  <1>5. /\ f.pkg \in DOMAIN slots /\ slots[f.pkg].g = f.g
        /\ Len(f.vals) <= Len(G.ids) /\ \A x \in DOMAIN f.vals : f.vals[x][1] = G.ids[x]
    BY <1>0, <1>1 DEF CallInv
  <1>6. f.g \in DOMAIN groups /\ G.ids \in Seq(Pkgs) /\ DOMAIN G.ids = 1 .. Len(G.ids)
    <2>1. f.g \in DOMAIN groups
      BY <1>0, <1>5, SlotTyped
    <2>2. QED
      BY <1>0, <2>1, GroupTyped
  <1>7. f.vals \in Answers
    BY <1>4 DEF Fetches
  <1>8. Len(f.vals) \in Nat /\ DOMAIN f.vals = 1 .. Len(f.vals)
    BY <1>7 DEF Answers
  <1>9. k \in DOMAIN G.ids /\ G.ids[k] \in Pkgs
    BY <1>2, <1>6, <1>8
  <1>10. v \in Pkgs \X {0, 1} /\ v[1] = G.ids[k] /\ (f.field = "reason" => v = Value(G.ids[k], "reason"))
    BY <1>0, <1>9 DEF Value, TypeOK
  <1> HIDE DEF v
  <1> DEFINE a == Append(f.vals, v)
  <1>11. /\ a \in Answers /\ DOMAIN a = 1 .. k /\ a[k] = v /\ Len(a) = k
         /\ \A x \in DOMAIN f.vals : a[x] = f.vals[x]
    BY <1>7, <1>8, <1>10 DEF Answers
  <1> HIDE DEF a
  <1>12. /\ w \in Fetches /\ w.vals = a /\ w.op = "fetch" /\ w.pkg = f.pkg /\ w.g = f.g
         /\ w.field = f.field
    BY <1>1, <1>4, <1>11 DEF Fetches, a
  <1> HIDE DEF w
  <1>13. /\ stk' \in Seq(Fetches \cup Settings) /\ DOMAIN stk' = DOMAIN stk /\ stk'[1] = w
         /\ \A i \in DOMAIN stk : i # 1 => stk'[i] = stk[i]
    BY <1>0, <1>1, <1>2, <1>12
  <1>14. CallInv'
    <2>1. /\ w.pkg \in DOMAIN slots /\ slots[w.pkg].g = w.g
          /\ Len(w.vals) <= Len(groups[w.g].ids)
          /\ \A x \in DOMAIN w.vals : w.vals[x][1] = groups[w.g].ids[x]
      <3>1. \A x \in DOMAIN a : a[x][1] = G.ids[x]
        <4> SUFFICES ASSUME NEW x \in DOMAIN a PROVE a[x][1] = G.ids[x]
          OBVIOUS
        <4>1. x \in DOMAIN f.vals \/ x = k
          BY <1>8, <1>11
        <4>2. QED
          BY <1>5, <1>10, <1>11, <4>1
      <3>2. QED
        BY <1>2, <1>5, <1>11, <1>12, <3>1
    <2>2. QED
      BY <1>0, <1>3, <1>13, <2>1 DEF CallInv
  <1>15. HeldInv'
    BY <1>0, <1>2, <1>3 DEF HeldInv
  <1>16. FreshInv'
    <2>1. Doomed' = Doomed
      BY <1>1, <1>3, <1>12, <1>13 DEF Doomed
    <2>2. \A p : Value(p, "reason")' = Value(p, "reason")
      BY <1>2 DEF Value
    <2>3. ASSUME NEW g \in DOMAIN groups \ raced, NEW i \in DOMAIN stk, NEW p \in DOMAIN slots,
                 stk'[i].op = "fetch", stk'[i].g = g, stk'[i].field = "reason",
                 slots[p].g = g, slots[p].i \in DOMAIN stk'[i].vals
          PROVE  stk'[i].vals[slots[p].i] = Value(p, "reason")
      <3>1. CASE i # 1
        BY <1>0, <1>13, <2>3, <3>1 DEF FreshInv
      <3>2. CASE i = 1
        <4>1. stk'[i] = w /\ f.g = g /\ f.field = "reason" /\ slots[p].i \in DOMAIN a
          BY <1>12, <1>13, <2>3, <3>2
        <4>2. CASE slots[p].i \in DOMAIN f.vals
          <5>1. f.vals[slots[p].i] = Value(p, "reason")
            BY <1>0, <1>1, <2>3, <4>1, <4>2 DEF FreshInv
          <5>2. QED
            BY <1>11, <1>12, <4>1, <4>2, <5>1
        <4>3. CASE slots[p].i = k
          <5>1. G.ids[k] = p
            BY <1>0, <2>3, <4>1, <4>3 DEF SlotInv
          <5>2. QED
            BY <1>10, <1>11, <1>12, <4>1, <4>3, <5>1
        <4>4. QED
          BY <1>8, <1>11, <4>1, <4>2, <4>3
      <3>3. QED
        BY <3>1, <3>2
    <2>4. QED
      BY <1>0, <1>2, <1>3, <1>13, <2>1, <2>2, <2>3 DEF FreshInv
  <1>17. reason' \in [Pkgs -> {0, 1}] /\ raced' \subseteq Nat
         /\ held' \subseteq (1 .. next_col - 1) \X Pkgs
    BY <1>0, <1>2 DEF TypeOK
  <1>18. QED
    BY <1>2, <1>13, <1>14, <1>15, <1>16, <1>17, Steady

\* libalpm changes a reason: a column of its group is about to be dropped, and one that
\* is being fetched is marked.
LEMMA ApplyKeeps ==
  ASSUME IInv, NEW r \in {0, 1}, Apply(r)
  PROVE  IInv'
  <1> DEFINE f == stk[1]
             w == [f EXCEPT !.applied = TRUE]
  <1>0. stk \in Seq(Fetches \cup Settings) /\ TypeOK /\ CallInv /\ HeldInv /\ FreshInv /\ SlotInv
    BY DEF IInv, TypeOK
  <1>1. stk # <<>> /\ Head(stk) = f /\ f.op = "set_reason" /\ 1 \in DOMAIN stk
    BY <1>0 DEF Apply, Setting
  <1>2. /\ reason' = [reason EXCEPT ![f.pkg] = r] /\ stk' = [stk EXCEPT ![1] = w]
        /\ raced' = raced \cup (BeingRead \cap GroupOf(f.pkg))
        /\ UNCHANGED <<tables, next_col, gone, freed, held>>
    BY <1>1 DEF Apply
  <1>3. groups' = groups /\ slots' = slots
    BY <1>2 DEF tables
  <1>4. f \in Settings /\ f.pkg \in Pkgs
    BY <1>0, <1>1, FrameTyped
  <1>5. w \in Settings /\ w.op = "set_reason" /\ w.applied /\ w.pkg = f.pkg
    BY <1>4 DEF Settings
  <1> HIDE DEF w
  <1>6. /\ stk' \in Seq(Fetches \cup Settings) /\ DOMAIN stk' = DOMAIN stk /\ stk'[1] = w
        /\ \A i \in DOMAIN stk : i # 1 => stk'[i] = stk[i]
    BY <1>0, <1>1, <1>2, <1>5
  <1>7. /\ reason' \in [Pkgs -> {0, 1}] /\ raced' \subseteq Nat /\ raced \subseteq raced'
        /\ held' \subseteq (1 .. next_col - 1) \X Pkgs
    <2>1. GroupOf(f.pkg) \subseteq Nat
      BY <1>0, SlotTyped, GroupTyped DEF GroupOf
    <2>2. QED
      BY <1>0, <1>2, <1>4, <2>1 DEF TypeOK
  <1>8. CallInv'
    BY <1>0, <1>3, <1>5, <1>6 DEF CallInv
  <1>9. HeldInv'
    BY <1>0, <1>2, <1>3 DEF HeldInv
  <1>10. \A p \in Pkgs : p # f.pkg => Value(p, "reason")' = Value(p, "reason")
    BY <1>0, <1>2 DEF Value, TypeOK
  <1>11. Doomed \subseteq Doomed' /\ GroupOf(f.pkg) \subseteq Doomed'
    <2>1. ASSUME NEW g \in Doomed PROVE g \in Doomed'
      <3>1. PICK j \in DOMAIN stk : /\ stk[j].op = "set_reason" /\ stk[j].applied
                                    /\ stk[j].pkg \in DOMAIN slots /\ g = slots[stk[j].pkg].g
        BY DEF Doomed
      <3>2. stk'[j].op = "set_reason" /\ stk'[j].applied /\ stk'[j].pkg = stk[j].pkg
        BY <1>5, <1>6, <3>1
      <3>3. QED
        BY <1>3, <1>6, <3>1, <3>2 DEF Doomed
    <2>2. ASSUME f.pkg \in DOMAIN slots PROVE slots[f.pkg].g \in Doomed'
      <3>1. 1 \in DOMAIN stk' /\ stk'[1].op = "set_reason" /\ stk'[1].applied /\ stk'[1].pkg = f.pkg
        BY <1>1, <1>5, <1>6
      <3>2. QED
        BY <1>3, <2>2, <3>1 DEF Doomed
    <2>3. QED
      BY <2>1, <2>2 DEF GroupOf
  <1>12. FreshInv'
    <2> SUFFICES ASSUME NEW g \in DOMAIN groups, g \notin raced'
                 PROVE
          /\ \A k, l \in DOMAIN groups[g].cols :
               groups[g].cols[k].field = "reason" /\ groups[g].cols[l].field = "reason"
               => k = l
          /\ g \in Doomed' \/
             \A k \in DOMAIN groups[g].cols, p \in DOMAIN slots :
               groups[g].cols[k].field = "reason" /\ slots[p].g = g =>
                 groups[g].cols[k].vals[slots[p].i] = Value(p, "reason")'
          /\ \A i \in DOMAIN stk', p \in DOMAIN slots :
               /\ stk'[i].op = "fetch" /\ stk'[i].g = g /\ stk'[i].field = "reason"
               /\ slots[p].g = g /\ slots[p].i \in DOMAIN stk'[i].vals
               => stk'[i].vals[slots[p].i] = Value(p, "reason")'
      BY <1>3 DEF FreshInv
    <2>1. g \in DOMAIN groups \ raced
      BY <1>7
    <2>2. \A k, l \in DOMAIN groups[g].cols :
             groups[g].cols[k].field = "reason" /\ groups[g].cols[l].field = "reason" => k = l
      BY <1>0, <2>1 DEF FreshInv
    <2>3. ASSUME NEW p \in DOMAIN slots, slots[p].g = g
          PROVE  p \in Pkgs /\ (g \in GroupOf(f.pkg) \/ Value(p, "reason")' = Value(p, "reason"))
      <3>1. p \in Pkgs
        BY <1>0, SlotTyped
      <3>2. p = f.pkg => g \in GroupOf(f.pkg)
        BY <2>3 DEF GroupOf
      <3>3. QED
        BY <1>10, <3>1, <3>2
    <2>4. g \in Doomed' \/
          \A k \in DOMAIN groups[g].cols, p \in DOMAIN slots :
            groups[g].cols[k].field = "reason" /\ slots[p].g = g =>
              groups[g].cols[k].vals[slots[p].i] = Value(p, "reason")'
      BY <1>0, <1>11, <2>1, <2>3 DEF FreshInv
    <2>5. ASSUME NEW i \in DOMAIN stk', NEW p \in DOMAIN slots,
                 stk'[i].op = "fetch", stk'[i].g = g, stk'[i].field = "reason",
                 slots[p].g = g, slots[p].i \in DOMAIN stk'[i].vals
          PROVE  stk'[i].vals[slots[p].i] = Value(p, "reason")'
      <3>1. i \in DOMAIN stk /\ stk'[i] = stk[i]
        BY <1>5, <1>6, <2>5
      <3>2. g \in BeingRead
        BY <2>5, <3>1 DEF BeingRead
      <3>3. g \notin GroupOf(f.pkg)
        BY <1>2, <3>2
      <3>4. stk[i].vals[slots[p].i] = Value(p, "reason")
        BY <1>0, <2>1, <2>5, <3>1 DEF FreshInv
      <3>5. QED
        BY <2>3, <2>5, <3>1, <3>3, <3>4
    <2>6. QED
      BY <2>2, <2>4, <2>5
  <1>13. QED
    BY <1>2, <1>6, <1>7, <1>8, <1>9, <1>12, Steady

-----------------------------------------------------------------------------
(* Columns come and go.                                                    *)

\* The reply of a fetch: the column goes in front of the group's others.  It is the
\* newest, has the answers of the group's members, and is marked if it is the second.
LEMMA FetchReplyKeeps ==
  ASSUME IInv, FetchReply
  PROVE  IInv'
  <1> DEFINE f == Head(stk)
             g == f.g
             c == [n |-> next_col, field |-> f.field, vals |-> f.vals]
             q == groups[g].cols
             s == <<c>> \o q
  <1>0. /\ stk \in Seq(Fetches \cup Settings) /\ TypeOK /\ CallInv /\ HeldInv /\ FreshInv
        /\ SlotInv /\ GroupInv /\ ColInv
    BY DEF IInv, TypeOK
  <1>1. stk # <<>> /\ f = stk[1] /\ f.op = "fetch" /\ 1 \in DOMAIN stk
    BY <1>0 DEF FetchReply, Fetching
  <1>2. /\ Len(f.vals) = Len(groups[g].ids)
        /\ groups' = [groups EXCEPT ![g].cols = Cons(c, @)]
        /\ Returns(f.pkg, c)
        /\ raced' = IF f.field = "reason" /\ Place(g, f.field) # 0 THEN raced \cup {g} ELSE raced
        /\ next_col' = next_col + 1 /\ stk' = Tail(stk)
        /\ UNCHANGED <<slots, next_grp, reason, gone, freed>>
    BY DEF FetchReply
  <1>3. f \in Fetches /\ f.field \in Fields /\ f.vals \in Answers /\ f.pkg \in Pkgs
    BY <1>0, <1>1, FrameTyped DEF Fetches
  <1>4. /\ f.pkg \in DOMAIN slots /\ slots[f.pkg].g = g
        /\ \A x \in DOMAIN f.vals : f.vals[x][1] = groups[g].ids[x]
    BY <1>0, <1>1 DEF CallInv
  <1>5. g \in DOMAIN groups /\ f.g = g
    BY <1>0, <1>4, SlotTyped
  <1>6. /\ groups[g].ids \in Seq(Pkgs) /\ DOMAIN groups[g].ids = 1 .. Len(groups[g].ids)
        /\ 1 \in DOMAIN groups[g].ids /\ q \in Seq(Columns) /\ g \in Nat
        /\ groups[g] \in [ids : Seq(Pkgs), cols : Seq(Columns)]
    BY <1>0, <1>5, GroupTyped DEF TypeOK
  <1>7. next_col \in Nat \ {0} /\ DOMAIN f.vals = DOMAIN groups[g].ids
    BY <1>0, <1>2, <1>3, <1>6 DEF TypeOK, Answers
  <1>8. c \in Columns /\ c.n = next_col /\ c.field = f.field /\ c.vals = f.vals
    BY <1>3, <1>7 DEF Columns
  <1> HIDE DEF c, f, g
  <1>9. /\ s \in Seq(Columns) /\ s[1] = c /\ 1 \in DOMAIN s
        /\ \A i \in DOMAIN s : i = 1 \/ (i - 1 \in DOMAIN q /\ s[i] = q[i - 1])
        /\ \A i \in DOMAIN q : i \in Nat \ {0} /\ i + 1 \in DOMAIN s /\ s[i + 1] = q[i]
        /\ DOMAIN s \subseteq Nat
    <2>1. s \in Seq(Columns) /\ s # <<>>
      BY <1>6, <1>8
    <2>2. 1 \in DOMAIN s /\ DOMAIN s \subseteq Nat
      BY <2>1
    <2>3. \A i \in DOMAIN q : i \in Nat \ {0}
      BY <1>6
    <2>4. /\ s[1] = c
          /\ \A i \in DOMAIN s : i = 1 \/ (i - 1 \in DOMAIN q /\ s[i] = q[i - 1])
          /\ \A i \in DOMAIN q : i + 1 \in DOMAIN s /\ s[i + 1] = q[i]
      <3> HIDE DEF q
      <3> QED BY <1>6, <1>8 DEF q
    <2>5. QED
      BY <2>1, <2>2, <2>3, <2>4
  <1>10. /\ DOMAIN groups' = DOMAIN groups
         /\ \A x \in DOMAIN groups : x # g => groups'[x] = groups[x]
         /\ groups'[g].ids = groups[g].ids /\ groups'[g].cols = s
         /\ groups'[g] \in [ids : Seq(Pkgs), cols : Seq(Columns)]
         /\ groups' = [x \in DOMAIN groups' |-> groups'[x]]
    <2>1. groups'[g] = [groups[g] EXCEPT !.cols = s]
      <3>1. s = Cons(c, groups[g].cols)
        BY DEF Cons
      <3>2. groups'[g] = [groups[g] EXCEPT !.cols = Cons(c, @)]
        BY <1>2, <1>5
      <3>3. QED
        BY <3>1, <3>2
    <2>2. groups'[g].ids = groups[g].ids /\ groups'[g].cols = s
          /\ groups'[g] \in [ids : Seq(Pkgs), cols : Seq(Columns)]
      <3> HIDE DEF s
      <3> QED BY <1>6, <1>9, <2>1
    <2>3. QED
      BY <1>2, <2>2
  <1> HIDE DEF s, q
  <1>11. /\ stk' \in Seq(Fetches \cup Settings)
         /\ \A i \in DOMAIN stk' : \E j \in DOMAIN stk : stk'[i] = stk[j]
         /\ \A j \in DOMAIN stk : j = 1 \/ \E i \in DOMAIN stk' : stk'[i] = stk[j]
    BY <1>0, <1>1, <1>2, Popped
  <1>12. \A x \in DOMAIN groups : groups'[x].ids = groups[x].ids
    BY <1>10
  \* A column after the step is the new one or was there.
  <1>13. ASSUME NEW x \in DOMAIN groups, NEW k \in DOMAIN groups'[x].cols
         PROVE  \/ x = g /\ k = 1 /\ groups'[x].cols[k] = c
                \/ /\ x = g /\ k - 1 \in DOMAIN groups[x].cols /\ k \in Nat
                   /\ groups'[x].cols[k] = groups[x].cols[k - 1]
                \/ /\ x # g /\ k \in DOMAIN groups[x].cols
                   /\ groups'[x].cols[k] = groups[x].cols[k]
    BY <1>9, <1>10 DEF q
  <1>14. \A x \in DOMAIN groups : \A k \in DOMAIN groups[x].cols : groups[x].cols[k].n \in 1 .. next_col - 1
    BY <1>0, GroupTyped
  <1>15. next_col \notin 1 .. next_col - 1 /\ next_col \notin freed
    BY <1>0, <1>7 DEF TypeOK
  <1>16. TypeOK'
    <2>1. \A x \in DOMAIN groups : groups'[x] \in [ids : Seq(Pkgs), cols : Seq(Columns)]
      BY <1>0, <1>10 DEF TypeOK
    <2>2. groups' \in [DOMAIN groups' -> [ids : Seq(Pkgs), cols : Seq(Columns)]]
      BY <1>10, <2>1
    <2>3. ASSUME NEW x \in DOMAIN groups', NEW y \in ToSet(groups'[x].cols)
          PROVE  y.n < next_col' /\ Len(y.vals) = Len(groups'[x].ids)
      <3>1. PICK k \in DOMAIN groups'[x].cols : y = groups'[x].cols[k]
        BY DEF ToSet
      <3>2. (y = c /\ x = g) \/ \E l \in DOMAIN groups[x].cols : y = groups[x].cols[l]
        BY <1>10, <1>13, <3>1
      <3>3. CASE y = c /\ x = g
        BY <1>2, <1>7, <1>8, <1>10, <3>3
      <3>4. ASSUME NEW l \in DOMAIN groups[x].cols, y = groups[x].cols[l]
            PROVE  y.n < next_col' /\ Len(y.vals) = Len(groups'[x].ids)
        <4>1. y.n \in 1 .. next_col - 1 /\ Len(y.vals) = Len(groups[x].ids)
          BY <1>0, <1>10, <3>4, GroupTyped
        <4>2. QED
          BY <1>2, <1>7, <1>10, <1>12, <4>1
      <3>5. QED
        BY <3>2, <3>3, <3>4
    <2>4. \A x \in DOMAIN groups' : groups'[x].ids # <<>>
      BY <1>0, <1>10, <1>12 DEF TypeOK
    <2>5. /\ slots' \in [DOMAIN slots' -> [g : DOMAIN groups', i : Nat]]
          /\ DOMAIN slots' \subseteq Pkgs
          /\ \A p \in DOMAIN slots' : slots'[p].i \in DOMAIN groups'[slots'[p].g].ids
      BY <1>0, <1>2, <1>10, <1>12, SlotTyped DEF TypeOK
    <2>6. /\ freed' \subseteq 1 .. next_col' - 1 /\ 1 .. next_col - 1 \subseteq 1 .. next_col' - 1
          /\ next_col' \in Nat \ {0} /\ next_col \in 1 .. next_col' - 1
      <3>1. freed \subseteq 1 .. next_col - 1 /\ freed' = freed /\ next_col' = next_col + 1
        BY <1>0, <1>2 DEF TypeOK
      <3>2. QED
        BY <1>7, <3>1
    <2>7. held' \subseteq (1 .. next_col' - 1) \X Pkgs
      BY <1>0, <1>2, <1>3, <1>8, <2>6 DEF TypeOK, Returns
    <2>8. /\ next_grp' \in Nat \ {0} /\ DOMAIN groups' \subseteq 1 .. next_grp' - 1
          /\ reason' \in [Pkgs -> {0, 1}] /\ raced' \subseteq Nat
      BY <1>0, <1>2, <1>6, <1>10 DEF TypeOK
    <2>9. QED
      BY <1>11, <2>2, <2>3, <2>4, <2>5, <2>6, <2>7, <2>8 DEF TypeOK
  <1>17. GroupInv'
    <2>1. ASSUME NEW x \in DOMAIN groups, NEW k \in DOMAIN groups'[x].cols,
                 NEW i \in DOMAIN groups[x].ids
          PROVE  groups'[x].cols[k].vals[i][1] = groups[x].ids[i]
      <3>1. CASE x = g /\ groups'[x].cols[k] = c
        BY <1>4, <1>7, <1>8, <3>1
      <3>2. CASE \E l \in DOMAIN groups[x].cols : groups'[x].cols[k] = groups[x].cols[l]
        BY <1>0, <3>2 DEF GroupInv
      <3>3. QED
        BY <1>13, <3>1, <3>2
    <2>2. QED
      BY <1>0, <1>10, <1>12, <2>1 DEF GroupInv
  <1>18. SlotInv'
    BY <1>0, <1>2, <1>10, <1>12, SlotTyped DEF SlotInv
  <1>19. CallInv'
    <2> SUFFICES ASSUME NEW i \in DOMAIN stk', stk'[i].op = "fetch"
                 PROVE  /\ stk'[i].pkg \in DOMAIN slots' /\ slots'[stk'[i].pkg].g = stk'[i].g
                        /\ Len(stk'[i].vals) <= Len(groups'[stk'[i].g].ids)
                        /\ \A k \in DOMAIN stk'[i].vals :
                             stk'[i].vals[k][1] = groups'[stk'[i].g].ids[k]
      BY DEF CallInv
    <2>1. PICK j \in DOMAIN stk : stk'[i] = stk[j]
      BY <1>11
    <2>2. /\ stk[j].pkg \in DOMAIN slots /\ slots[stk[j].pkg].g = stk[j].g
          /\ Len(stk[j].vals) <= Len(groups[stk[j].g].ids)
          /\ \A k \in DOMAIN stk[j].vals : stk[j].vals[k][1] = groups[stk[j].g].ids[k]
      BY <1>0, <2>1 DEF CallInv
    <2>3. stk[j].g \in DOMAIN groups
      BY <1>0, <2>2, SlotTyped
    <2>4. QED
      BY <1>2, <1>12, <2>1, <2>2, <2>3
  <1>20. ColInv'
    <2>1. ASSUME NEW x \in DOMAIN groups, NEW k \in DOMAIN groups'[x].cols
          PROVE  groups'[x].cols[k].n \notin freed
      BY <1>0, <1>8, <1>13, <1>15 DEF ColInv
    <2>2. ASSUME NEW x \in DOMAIN groups, NEW y \in DOMAIN groups,
                 NEW k \in DOMAIN groups'[x].cols, NEW l \in DOMAIN groups'[y].cols,
                 groups'[x].cols[k].n = groups'[y].cols[l].n
          PROVE  x = y /\ k = l
      <3>1. CASE groups'[x].cols[k] = c
        <4>1. groups'[y].cols[l].n = next_col
          BY <1>8, <2>2, <3>1
        <4>2. y = g /\ l = 1
          BY <1>13, <1>14, <1>15, <4>1
        <4>3. groups'[x].cols[k].n = next_col
          BY <1>8, <3>1
        <4>4. x = g /\ k = 1
          BY <1>13, <1>14, <1>15, <4>3
        <4>5. QED
          BY <4>2, <4>4
      <3>2. CASE groups'[y].cols[l] = c
        <4>1. groups'[x].cols[k].n = next_col
          BY <1>8, <2>2, <3>2
        <4>2. x = g /\ k = 1
          BY <1>13, <1>14, <1>15, <4>1
        <4>3. groups'[y].cols[l].n = next_col
          BY <1>8, <3>2
        <4>4. y = g /\ l = 1
          BY <1>13, <1>14, <1>15, <4>3
        <4>5. QED
          BY <4>2, <4>4
      <3>3. CASE groups'[x].cols[k] # c /\ groups'[y].cols[l] # c
        <4>1. PICK k1 \in DOMAIN groups[x].cols :
                /\ groups'[x].cols[k] = groups[x].cols[k1]
                /\ IF x = g THEN k \in Nat /\ k1 = k - 1 ELSE k1 = k
          BY <1>13, <3>3
        <4>2. PICK l1 \in DOMAIN groups[y].cols :
                /\ groups'[y].cols[l] = groups[y].cols[l1]
                /\ IF y = g THEN l \in Nat /\ l1 = l - 1 ELSE l1 = l
          BY <1>13, <3>3
        <4>3. x = y /\ k1 = l1
          BY <1>0, <2>2, <4>1, <4>2 DEF ColInv
        <4>4. QED
          BY <4>1, <4>2, <4>3
      <3>4. QED
        BY <3>1, <3>2, <3>3
    <2>3. freed' = freed
      BY <1>2
    <2>4. QED
      BY <1>10, <2>1, <2>2, <2>3 DEF ColInv
  <1>21. HeldInv'
    <2> SUFFICES ASSUME NEW h \in held'
                 PROVE  /\ h[1] \notin freed
                        /\ \A x \in DOMAIN groups : \A l \in DOMAIN groups'[x].cols :
                             groups'[x].cols[l].n = h[1] =>
                               /\ groups'[x].cols[l].field = "name"
                               /\ Root[groups[x].ids[1]] = Root[h[2]]
      <3>1. freed' = freed /\ DOMAIN groups' = DOMAIN groups
        BY <1>2, <1>10
      <3>2. QED
        BY <1>12, <3>1 DEF HeldInv
    <2>1. h \in held \/ (h = <<c.n, f.pkg>> /\ c.field = "name")
      BY <1>2 DEF Returns, IsStr
    <2>2. CASE h \in held
      <3>1. h[1] \in 1 .. next_col - 1
        BY <1>0, <2>2 DEF TypeOK
      <3>2. ASSUME NEW x \in DOMAIN groups, NEW l \in DOMAIN groups'[x].cols,
                   groups'[x].cols[l].n = h[1]
            PROVE  \E m \in DOMAIN groups[x].cols : groups'[x].cols[l] = groups[x].cols[m]
        BY <1>8, <1>13, <1>15, <3>1, <3>2
      <3>3. QED
        BY <1>0, <2>2, <3>2 DEF HeldInv
    <2>3. CASE h = <<c.n, f.pkg>> /\ c.field = "name"
      <3>1. h[1] = next_col /\ h[2] = f.pkg
        BY <1>8, <2>3
      <3>2. ASSUME NEW x \in DOMAIN groups, NEW l \in DOMAIN groups'[x].cols,
                   groups'[x].cols[l].n = next_col
            PROVE  groups'[x].cols[l] = c /\ x = g
        BY <1>8, <1>13, <1>14, <1>15, <3>2
      <3>3. Root[groups[g].ids[1]] = Root[f.pkg]
        <4>1. slots[f.pkg].i \in DOMAIN groups[g].ids /\ groups[g].ids[slots[f.pkg].i] = f.pkg
          BY <1>0, <1>4, SlotTyped DEF SlotInv
        <4>2. \A i, j \in DOMAIN groups[g].ids : Root[groups[g].ids[i]] = Root[groups[g].ids[j]]
          BY <1>0, <1>5 DEF GroupInv
        <4>3. Root[groups[g].ids[1]] = Root[groups[g].ids[slots[f.pkg].i]]
          BY <1>6, <4>1, <4>2
        <4>4. QED
          BY <4>1, <4>3
      <3>4. QED
        BY <1>15, <2>3, <3>1, <3>2, <3>3
    <2>4. QED
      BY <2>1, <2>2, <2>3
  <1>22. FreshInv'
    <2>1. Doomed \subseteq Doomed'
      <3> SUFFICES ASSUME NEW d \in Doomed PROVE d \in Doomed'
        OBVIOUS
      <3>1. PICK j \in DOMAIN stk : /\ stk[j].op = "set_reason" /\ stk[j].applied
                                    /\ stk[j].pkg \in DOMAIN slots /\ d = slots[stk[j].pkg].g
        BY DEF Doomed
      <3>2. PICK i \in DOMAIN stk' : stk'[i] = stk[j]
        BY <1>1, <1>11, <3>1
      <3>3. QED
        BY <1>2, <3>1, <3>2 DEF Doomed
    <2>2. \A p : Value(p, "reason")' = Value(p, "reason")
      BY <1>2 DEF Value
    <2> SUFFICES ASSUME NEW x \in DOMAIN groups, x \notin raced'
                 PROVE
          /\ \A k, l \in DOMAIN groups'[x].cols :
               groups'[x].cols[k].field = "reason" /\ groups'[x].cols[l].field = "reason"
               => k = l
          /\ x \in Doomed' \/
             \A k \in DOMAIN groups'[x].cols, p \in DOMAIN slots :
               groups'[x].cols[k].field = "reason" /\ slots[p].g = x =>
                 groups'[x].cols[k].vals[slots[p].i] = Value(p, "reason")
          /\ \A i \in DOMAIN stk', p \in DOMAIN slots :
               /\ stk'[i].op = "fetch" /\ stk'[i].g = x /\ stk'[i].field = "reason"
               /\ slots[p].g = x /\ slots[p].i \in DOMAIN stk'[i].vals
               => stk'[i].vals[slots[p].i] = Value(p, "reason")
      <3>1. slots' = slots /\ DOMAIN groups' = DOMAIN groups
        BY <1>2, <1>10, Zenon
      <3>2. QED
        BY <2>2, <3>1 DEF FreshInv
    <2>3. x \in DOMAIN groups \ raced
      BY <1>2
    <2>4. x = g /\ f.field = "reason" => \A k \in DOMAIN groups[x].cols : groups[x].cols[k].field # "reason"
      BY <1>2, <1>6, PlaceIs DEF q
    <2>5. ASSUME NEW k \in DOMAIN groups'[x].cols, NEW l \in DOMAIN groups'[x].cols,
                 groups'[x].cols[k].field = "reason", groups'[x].cols[l].field = "reason"
          PROVE  k = l
      <3>1. CASE groups'[x].cols[k] = c /\ k = 1
        <4>1. CASE x = g /\ f.field = "reason"
          BY <1>13, <2>4, <2>5, <3>1, <4>1
        <4>2. CASE x # g
          BY <1>0, <1>13, <2>3, <2>5, <4>2 DEF FreshInv
        <4>3. QED
          BY <1>8, <2>5, <3>1, <4>1, <4>2
      <3>2. CASE x = g /\ groups'[x].cols[l] = c /\ l = 1
        BY <1>8, <1>13, <2>4, <2>5, <3>2
      <3>3. CASE x = g /\ ~(groups'[x].cols[k] = c /\ k = 1) /\ ~(groups'[x].cols[l] = c /\ l = 1)
        <4>1. /\ k - 1 \in DOMAIN groups[x].cols /\ k \in Nat /\ groups'[x].cols[k] = groups[x].cols[k - 1]
              /\ l - 1 \in DOMAIN groups[x].cols /\ l \in Nat /\ groups'[x].cols[l] = groups[x].cols[l - 1]
          BY <1>13, <3>3
        <4>2. k - 1 = l - 1
          BY <1>0, <2>3, <2>5, <4>1 DEF FreshInv
        <4>3. QED
          BY <4>1, <4>2
      <3>4. CASE x # g
        BY <1>0, <1>13, <2>3, <2>5, <3>4 DEF FreshInv
      <3>5. QED
        BY <3>1, <3>2, <3>3, <3>4
    <2>6. ASSUME x \notin Doomed', NEW k \in DOMAIN groups'[x].cols, NEW p \in DOMAIN slots,
                 groups'[x].cols[k].field = "reason", slots[p].g = x
          PROVE  groups'[x].cols[k].vals[slots[p].i] = Value(p, "reason")
      <3>1. CASE x = g /\ groups'[x].cols[k] = c
        <4>1. f.field = "reason" /\ slots[p].i \in DOMAIN f.vals
          BY <1>0, <1>7, <1>8, <2>6, <3>1, SlotTyped
        <4>2. f.vals[slots[p].i] = Value(p, "reason")
          BY <1>0, <1>1, <1>5, <2>3, <2>6, <3>1, <4>1 DEF FreshInv
        <4>3. QED
          BY <1>8, <3>1, <4>2
      <3>2. CASE \E l \in DOMAIN groups[x].cols : groups'[x].cols[k] = groups[x].cols[l]
        BY <1>0, <2>1, <2>3, <2>6, <3>2 DEF FreshInv
      <3>3. QED
        BY <1>13, <3>1, <3>2
    <2>7. ASSUME NEW i \in DOMAIN stk', NEW p \in DOMAIN slots,
                 stk'[i].op = "fetch", stk'[i].g = x, stk'[i].field = "reason",
                 slots[p].g = x, slots[p].i \in DOMAIN stk'[i].vals
          PROVE  stk'[i].vals[slots[p].i] = Value(p, "reason")
      BY <1>0, <1>11, <2>3, <2>7 DEF FreshInv
    <2>8. QED
      BY <2>5, <2>6, <2>7
  <1>23. QED
    BY <1>16, <1>17, <1>18, <1>19, <1>20, <1>21, <1>22 DEF IInv

\* The reply to alpm_pkg_set_reason: what drop_column takes is no string that a caller
\* has, and where nothing raced it is the group's only column of reasons.
LEMMA SetReasonReplyKeeps ==
  ASSUME IInv, SetReasonReply
  PROVE  IInv'
  <1> DEFINE f == Head(stk)
             g == slots[f.pkg].g
             m == Place(g, "reason")
             q == groups[g].cols
             s == RemoveAt(q, m)
             drops == f.pkg \in DOMAIN slots /\ m # 0
  <1>0. /\ stk \in Seq(Fetches \cup Settings) /\ TypeOK /\ CallInv /\ HeldInv /\ FreshInv
        /\ SlotInv /\ GroupInv /\ ColInv
    BY DEF IInv, TypeOK
  <1>1. stk # <<>> /\ f = stk[1] /\ f.op = "set_reason" /\ 1 \in DOMAIN stk
    BY <1>0 DEF SetReasonReply, Setting
  <1>2. /\ DropColumn(f.pkg, "reason") /\ stk' = Tail(stk)
        /\ UNCHANGED <<slots, next_grp, next_col, reason, gone, held, raced>>
    BY DEF SetReasonReply
  <1> HIDE DEF f
  <1>3. /\ drops => /\ groups' = [groups EXCEPT ![g].cols = RemoveAt(@, m)]
                    /\ freed' = freed \cup {q[m].n}
        /\ ~drops => groups' = groups /\ freed' = freed
    BY <1>2, Zenon DEF DropColumn
  <1>4. f.pkg \in DOMAIN slots =>
          /\ g \in DOMAIN groups /\ q \in Seq(Columns)
          /\ groups[g] \in [ids : Seq(Pkgs), cols : Seq(Columns)]
    BY <1>0, SlotTyped, GroupTyped DEF TypeOK
  <1>5. drops => /\ g \in DOMAIN groups /\ m \in DOMAIN q /\ q[m].field = "reason"
                 /\ q \in Seq(Columns) /\ groups[g] \in [ids : Seq(Pkgs), cols : Seq(Columns)]
    BY <1>4, PlaceIs
  <1>6. f.pkg \in DOMAIN slots /\ ~drops => \A k \in DOMAIN q : q[k].field # "reason"
    BY <1>4, PlaceIs
  <1> HIDE DEF m
  <1>7. drops => /\ s \in Seq(Columns)
                 /\ \A j \in DOMAIN s : \E l \in DOMAIN q :
                      /\ l # m /\ s[j] = q[l] /\ l = IF j < m THEN j ELSE j + 1
                 /\ DOMAIN s \subseteq Nat /\ m \in Nat
    <2> HIDE DEF s, q, drops
    <2> SUFFICES ASSUME drops
                 PROVE  /\ s \in Seq(Columns)
                        /\ \A j \in DOMAIN s : \E l \in DOMAIN q :
                             /\ l # m /\ s[j] = q[l] /\ l = IF j < m THEN j ELSE j + 1
                        /\ DOMAIN s \subseteq Nat /\ m \in Nat
      OBVIOUS
    <2>1. q \in Seq(Columns) /\ m \in DOMAIN q
      BY <1>5
    <2>2. /\ s \in Seq(Columns)
          /\ \A j \in DOMAIN s : \E l \in DOMAIN q :
               /\ l # m /\ s[j] = q[l] /\ l = IF j < m THEN j ELSE j + 1
      BY <2>1, RemovedAt DEF s
    <2>3. DOMAIN s \subseteq Nat /\ m \in Nat
      BY <2>1, <2>2
    <2>4. QED
      BY <2>2, <2>3
  <1>8. drops => /\ DOMAIN groups' = DOMAIN groups
                 /\ \A x \in DOMAIN groups : x # g => groups'[x] = groups[x]
                 /\ groups'[g].ids = groups[g].ids /\ groups'[g].cols = s
                 /\ groups'[g] \in [ids : Seq(Pkgs), cols : Seq(Columns)]
                 /\ groups' = [x \in DOMAIN groups' |-> groups'[x]]
    <2> HIDE DEF s, drops, g
    <2> SUFFICES ASSUME drops
                 PROVE  /\ DOMAIN groups' = DOMAIN groups
                        /\ \A x \in DOMAIN groups : x # g => groups'[x] = groups[x]
                        /\ groups'[g].ids = groups[g].ids /\ groups'[g].cols = s
                        /\ groups'[g] \in [ids : Seq(Pkgs), cols : Seq(Columns)]
                        /\ groups' = [x \in DOMAIN groups' |-> groups'[x]]
      OBVIOUS
    <2>1. groups' = [groups EXCEPT ![g].cols = RemoveAt(@, m)] /\ g \in DOMAIN groups
      BY <1>3, <1>5
    <2>2. groups'[g] = [groups[g] EXCEPT !.cols = s]
      BY <2>1 DEF s
    <2>3. s \in Seq(Columns) /\ groups[g] \in [ids : Seq(Pkgs), cols : Seq(Columns)]
      BY <1>5, <1>7
    <2>4. /\ groups'[g].ids = groups[g].ids /\ groups'[g].cols = s
          /\ groups'[g] \in [ids : Seq(Pkgs), cols : Seq(Columns)]
      BY <2>2, <2>3
    <2>5. QED
      BY <2>1, <2>4
  <1> HIDE DEF s
  <1>9. /\ DOMAIN groups' = DOMAIN groups
        /\ \A x \in DOMAIN groups : groups'[x].ids = groups[x].ids
        /\ \A x \in DOMAIN groups : groups'[x] \in [ids : Seq(Pkgs), cols : Seq(Columns)]
        /\ groups' = [x \in DOMAIN groups' |-> groups'[x]]
    BY <1>0, <1>3, <1>8 DEF TypeOK
  \* A column after the step was there, and was not the one dropped.
  <1>10. ASSUME NEW x \in DOMAIN groups, NEW k \in DOMAIN groups'[x].cols
         PROVE  \E l \in DOMAIN groups[x].cols :
                  /\ groups'[x].cols[k] = groups[x].cols[l]
                  /\ drops /\ x = g => l # m /\ k \in Nat /\ l = IF k < m THEN k ELSE k + 1
                  /\ ~(drops /\ x = g) => l = k
    <2>1. CASE drops /\ x = g
      BY <1>7, <1>8, <2>1 DEF q
    <2>2. CASE ~(drops /\ x = g)
      BY <1>3, <1>8, <2>2
    <2>3. QED
      BY <2>1, <2>2
  <1> HIDE DEF q, g
  <1>11. /\ stk' \in Seq(Fetches \cup Settings)
         /\ \A i \in DOMAIN stk' : \E j \in DOMAIN stk : stk'[i] = stk[j]
         /\ \A j \in DOMAIN stk : j = 1 \/ \E i \in DOMAIN stk' : stk'[i] = stk[j]
    BY <1>0, <1>1, <1>2, Popped
  <1>12. drops => q[m].n \in 1 .. next_col - 1
    BY <1>0, <1>5, GroupTyped DEF q
  <1>13. freed \subseteq freed' /\ \A n \in freed' : n \in freed \/ (drops /\ n = q[m].n)
    BY <1>3
  <1> HIDE DEF drops
  <1>14. TypeOK'
    <2>1. groups' \in [DOMAIN groups' -> [ids : Seq(Pkgs), cols : Seq(Columns)]]
      BY <1>9
    <2>2. ASSUME NEW x \in DOMAIN groups', NEW y \in ToSet(groups'[x].cols)
          PROVE  y.n < next_col' /\ Len(y.vals) = Len(groups'[x].ids)
      <3>1. PICK k \in DOMAIN groups'[x].cols : y = groups'[x].cols[k]
        BY DEF ToSet
      <3>2. PICK l \in DOMAIN groups[x].cols : y = groups[x].cols[l]
        BY <1>9, <1>10, <3>1
      <3>3. y.n \in 1 .. next_col - 1 /\ Len(y.vals) = Len(groups[x].ids) /\ next_col \in Nat
        BY <1>0, <1>9, <3>2, GroupTyped DEF TypeOK
      <3>4. next_col' = next_col /\ groups'[x].ids = groups[x].ids
        BY <1>2, <1>9
      <3>5. QED
        BY <3>3, <3>4
    <2>3. \A x \in DOMAIN groups' : groups'[x].ids # <<>>
      BY <1>0, <1>9 DEF TypeOK
    <2>4. /\ slots' \in [DOMAIN slots' -> [g : DOMAIN groups', i : Nat]]
          /\ DOMAIN slots' \subseteq Pkgs
          /\ \A p \in DOMAIN slots' : slots'[p].i \in DOMAIN groups'[slots'[p].g].ids
      BY <1>0, <1>2, <1>9, SlotTyped DEF TypeOK
    <2>5. freed' \subseteq 1 .. next_col' - 1
      BY <1>0, <1>2, <1>12, <1>13 DEF TypeOK
    <2>6. /\ next_grp' \in Nat \ {0} /\ DOMAIN groups' \subseteq 1 .. next_grp' - 1
          /\ reason' \in [Pkgs -> {0, 1}] /\ raced' \subseteq Nat /\ next_col' \in Nat \ {0}
          /\ held' \subseteq (1 .. next_col' - 1) \X Pkgs
      BY <1>0, <1>2, <1>9 DEF TypeOK
    <2>7. QED
      BY <1>11, <2>1, <2>2, <2>3, <2>4, <2>5, <2>6 DEF TypeOK
  <1>15. GroupInv'
    <2>1. ASSUME NEW x \in DOMAIN groups, NEW k \in DOMAIN groups'[x].cols,
                 NEW i \in DOMAIN groups[x].ids
          PROVE  groups'[x].cols[k].vals[i][1] = groups[x].ids[i]
      BY <1>0, <1>10 DEF GroupInv
    <2>2. QED
      BY <1>0, <1>9, <2>1 DEF GroupInv
  <1>16. SlotInv'
    BY <1>0, <1>2, <1>9, SlotTyped DEF SlotInv
  <1>17. CallInv'
    <2> SUFFICES ASSUME NEW i \in DOMAIN stk', stk'[i].op = "fetch"
                 PROVE  /\ stk'[i].pkg \in DOMAIN slots' /\ slots'[stk'[i].pkg].g = stk'[i].g
                        /\ Len(stk'[i].vals) <= Len(groups'[stk'[i].g].ids)
                        /\ \A k \in DOMAIN stk'[i].vals :
                             stk'[i].vals[k][1] = groups'[stk'[i].g].ids[k]
      BY DEF CallInv
    <2>1. PICK j \in DOMAIN stk : stk'[i] = stk[j]
      BY <1>11
    <2>2. /\ stk[j].pkg \in DOMAIN slots /\ slots[stk[j].pkg].g = stk[j].g
          /\ Len(stk[j].vals) <= Len(groups[stk[j].g].ids)
          /\ \A k \in DOMAIN stk[j].vals : stk[j].vals[k][1] = groups[stk[j].g].ids[k]
      BY <1>0, <2>1 DEF CallInv
    <2>3. stk[j].g \in DOMAIN groups
      BY <1>0, <2>2, SlotTyped
    <2>4. QED
      BY <1>2, <1>9, <2>1, <2>2, <2>3
  <1>18. ColInv'
    <2>1. ASSUME NEW x \in DOMAIN groups, NEW k \in DOMAIN groups'[x].cols
          PROVE  groups'[x].cols[k].n \notin freed'
      <3>1. PICK l \in DOMAIN groups[x].cols :
              groups'[x].cols[k] = groups[x].cols[l] /\ (drops /\ x = g => l # m)
        BY <1>10
      <3>2. groups[x].cols[l].n \notin freed
        BY <1>0 DEF ColInv
      <3>3. drops => groups[x].cols[l].n # q[m].n
        BY <1>0, <1>5, <3>1 DEF ColInv, q
      <3>4. QED
        BY <1>13, <3>1, <3>2, <3>3
    <2>2. ASSUME NEW x \in DOMAIN groups, NEW y \in DOMAIN groups,
                 NEW k \in DOMAIN groups'[x].cols, NEW l \in DOMAIN groups'[y].cols,
                 groups'[x].cols[k].n = groups'[y].cols[l].n
          PROVE  x = y /\ k = l
      <3>1. PICK k1 \in DOMAIN groups[x].cols :
              /\ groups'[x].cols[k] = groups[x].cols[k1]
              /\ drops /\ x = g => k \in Nat /\ k1 = IF k < m THEN k ELSE k + 1
              /\ ~(drops /\ x = g) => k1 = k
        BY <1>10
      <3>2. PICK l1 \in DOMAIN groups[y].cols :
              /\ groups'[y].cols[l] = groups[y].cols[l1]
              /\ drops /\ y = g => l \in Nat /\ l1 = IF l < m THEN l ELSE l + 1
              /\ ~(drops /\ y = g) => l1 = l
        BY <1>10
      <3>3. x = y /\ k1 = l1
        BY <1>0, <2>2, <3>1, <3>2 DEF ColInv
      <3>4. CASE drops /\ x = g
        BY <1>7, <3>1, <3>2, <3>3, <3>4
      <3>5. CASE ~(drops /\ x = g)
        BY <3>1, <3>2, <3>3, <3>5
      <3>6. QED
        BY <3>4, <3>5
    <2>3. QED
      BY <1>9, <2>1, <2>2 DEF ColInv
  <1>19. HeldInv'
    <2> SUFFICES ASSUME NEW h \in held
                 PROVE  /\ h[1] \notin freed'
                        /\ \A x \in DOMAIN groups : \A l \in DOMAIN groups'[x].cols :
                             groups'[x].cols[l].n = h[1] =>
                               /\ groups'[x].cols[l].field = "name"
                               /\ Root[groups[x].ids[1]] = Root[h[2]]
      <3>1. held' = held /\ DOMAIN groups' = DOMAIN groups
        BY <1>2, <1>9
      <3>2. QED
        BY <1>9, <3>1 DEF HeldInv
    <2>1. drops => h[1] # q[m].n
      <3>1. "reason" # "name"
        OBVIOUS
      <3>2. QED
        BY <1>0, <1>5, <3>1 DEF HeldInv, q
    <2>2. h[1] \notin freed'
      BY <1>0, <1>13, <2>1 DEF HeldInv
    <2>3. QED
      BY <1>0, <1>10, <2>2 DEF HeldInv
  <1>20. FreshInv'
    <2>1. ASSUME NEW d \in Doomed, ~(f.pkg \in DOMAIN slots /\ d = g) PROVE d \in Doomed'
      <3>1. PICK j \in DOMAIN stk : /\ stk[j].op = "set_reason" /\ stk[j].applied
                                    /\ stk[j].pkg \in DOMAIN slots /\ d = slots[stk[j].pkg].g
        BY DEF Doomed
      <3>2. PICK i \in DOMAIN stk' : stk'[i] = stk[j]
        BY <1>1, <1>11, <2>1, <3>1 DEF g
      <3>3. slots' = slots
        BY <1>2
      <3>4. QED
        BY <3>1, <3>2, <3>3 DEF Doomed
    <2>2. \A p : Value(p, "reason")' = Value(p, "reason")
      BY <1>2 DEF Value
    <2> SUFFICES ASSUME NEW x \in DOMAIN groups, x \notin raced
                 PROVE
          /\ \A k, l \in DOMAIN groups'[x].cols :
               groups'[x].cols[k].field = "reason" /\ groups'[x].cols[l].field = "reason"
               => k = l
          /\ x \in Doomed' \/
             \A k \in DOMAIN groups'[x].cols, p \in DOMAIN slots :
               groups'[x].cols[k].field = "reason" /\ slots[p].g = x =>
                 groups'[x].cols[k].vals[slots[p].i] = Value(p, "reason")
          /\ \A i \in DOMAIN stk', p \in DOMAIN slots :
               /\ stk'[i].op = "fetch" /\ stk'[i].g = x /\ stk'[i].field = "reason"
               /\ slots[p].g = x /\ slots[p].i \in DOMAIN stk'[i].vals
               => stk'[i].vals[slots[p].i] = Value(p, "reason")
      <3>1. slots' = slots /\ DOMAIN groups' = DOMAIN groups /\ raced' = raced
        BY <1>2, <1>9
      <3>2. QED
        BY <2>2, <3>1 DEF FreshInv
    <2>3. x \in DOMAIN groups \ raced
      OBVIOUS
    <2>4. ASSUME NEW k \in DOMAIN groups[x].cols, NEW l \in DOMAIN groups[x].cols,
                 groups[x].cols[k].field = "reason", groups[x].cols[l].field = "reason"
          PROVE  k = l
      BY <1>0, <2>3, <2>4 DEF FreshInv
    \* The package's own group has none left.
    <2>5. ASSUME f.pkg \in DOMAIN slots, x = g, NEW k \in DOMAIN groups'[x].cols
          PROVE  groups'[x].cols[k].field # "reason"
      <3>1. PICK l \in DOMAIN groups[x].cols :
              groups'[x].cols[k] = groups[x].cols[l] /\ (drops => l # m)
        BY <1>10, <2>5
      <3>2. CASE drops
        BY <1>5, <2>4, <2>5, <3>1, <3>2 DEF q
      <3>3. CASE ~drops
        BY <1>6, <2>5, <3>1, <3>3 DEF q
      <3>4. QED
        BY <3>2, <3>3
    <2>6. ASSUME ~(f.pkg \in DOMAIN slots /\ x = g) PROVE groups'[x] = groups[x]
      BY <1>3, <1>8, <2>6 DEF drops
    <2>7. \A k, l \in DOMAIN groups'[x].cols :
            groups'[x].cols[k].field = "reason" /\ groups'[x].cols[l].field = "reason" => k = l
      BY <2>4, <2>5, <2>6
    <2>8. x \in Doomed' \/
          \A k \in DOMAIN groups'[x].cols, p \in DOMAIN slots :
            groups'[x].cols[k].field = "reason" /\ slots[p].g = x =>
              groups'[x].cols[k].vals[slots[p].i] = Value(p, "reason")
      <3>1. CASE f.pkg \in DOMAIN slots /\ x = g
        BY <2>5, <3>1
      <3>2. CASE ~(f.pkg \in DOMAIN slots /\ x = g)
        <4>1. x \in Doomed \/
              \A k \in DOMAIN groups[x].cols, p \in DOMAIN slots :
                groups[x].cols[k].field = "reason" /\ slots[p].g = x =>
                  groups[x].cols[k].vals[slots[p].i] = Value(p, "reason")
          BY <1>0, <2>3 DEF FreshInv
        <4>2. QED
          BY <2>1, <2>6, <3>2, <4>1
      <3>3. QED
        BY <3>1, <3>2
    <2>9. ASSUME NEW i \in DOMAIN stk', NEW p \in DOMAIN slots,
                 stk'[i].op = "fetch", stk'[i].g = x, stk'[i].field = "reason",
                 slots[p].g = x, slots[p].i \in DOMAIN stk'[i].vals
          PROVE  stk'[i].vals[slots[p].i] = Value(p, "reason")
      BY <1>0, <1>11, <2>3, <2>9 DEF FreshInv
    <2>10. QED
      BY <2>7, <2>8, <2>9
  <1>21. QED
    BY <1>14, <1>15, <1>16, <1>17, <1>18, <1>19, <1>20 DEF IInv

\* alpm_release: what goes is all of the handle, and what callers still hold is of others.
LEMMA ReleaseKeeps ==
  ASSUME IInv, NEW r, NEW lost, Release(r, lost)
  PROVE  IInv'
  <1>0. /\ stk \in Seq(Fetches \cup Settings) /\ TypeOK /\ CallInv /\ HeldInv /\ FreshInv
        /\ SlotInv /\ GroupInv /\ ColInv /\ raced \subseteq Nat
    BY DEF IInv, TypeOK
  <1>1. /\ \A i \in DOMAIN stk : Root[stk[i].pkg] # r
        /\ held' = {h \in held : Root[h[2]] # r}
        /\ UNCHANGED <<next_grp, next_col, stk, reason, raced>>
        /\ (UNCHANGED <<groups, slots, freed>>) \/ FreeGroupsOf(r)
    BY DEF Release
  <1>2. CASE UNCHANGED <<groups, slots, freed>>
    <2>1. UNCHANGED <<tables, next_col, freed, reason>> /\ held' \subseteq held
      BY <1>1, <1>2 DEF tables
    <2>2. QED
      BY <1>0, <1>1, <2>1, Recalled
  <1>3. CASE FreeGroupsOf(r)
    \* A group goes if any member, and so every member, is of the handle.
    <2>1. \A g \in DOMAIN groups : \A i \in DOMAIN groups[g].ids :
            g \in GroupsOf(r) <=> Root[groups[g].ids[i]] = r
      <3> SUFFICES ASSUME NEW g \in DOMAIN groups, NEW i \in DOMAIN groups[g].ids
                   PROVE  g \in GroupsOf(r) <=> Root[groups[g].ids[i]] = r
        OBVIOUS
      <3>1. 1 \in DOMAIN groups[g].ids
        BY <1>0, GroupTyped
      <3>2. Root[groups[g].ids[1]] = Root[groups[g].ids[i]]
        BY <1>0, <3>1 DEF GroupInv
      <3>3. QED
        BY <3>2 DEF GroupsOf
    <2>2. /\ DOMAIN groups' = DOMAIN groups \ GroupsOf(r)
          /\ \A g \in DOMAIN groups' : g \in DOMAIN groups /\ groups'[g] = groups[g]
          /\ groups' = [g \in DOMAIN groups' |-> groups'[g]]
          /\ DOMAIN slots' = {p \in DOMAIN slots : Root[p] # r}
          /\ \A p \in DOMAIN slots' : p \in DOMAIN slots /\ slots'[p] = slots[p]
          /\ slots' = [p \in DOMAIN slots' |-> slots'[p]]
          /\ freed' = freed \cup UNION {{c.n : c \in ToSet(groups[g].cols)} : g \in GroupsOf(r)}
      BY <1>3 DEF FreeGroupsOf
    <2>3. ASSUME NEW p \in DOMAIN slots
          PROVE  p \in DOMAIN slots' <=> slots[p].g \in DOMAIN groups'
      <3>1. /\ slots[p].g \in DOMAIN groups /\ slots[p].i \in DOMAIN groups[slots[p].g].ids
            /\ groups[slots[p].g].ids[slots[p].i] = p
        BY <1>0, SlotTyped DEF SlotInv
      <3>2. slots[p].g \in GroupsOf(r) <=> Root[p] = r
        BY <2>1, <3>1
      <3>3. QED
        BY <2>2, <3>1, <3>2
    <2>4. \A n \in freed' : \/ n \in freed
                            \/ \E g \in GroupsOf(r) : \E k \in DOMAIN groups[g].cols :
                                 n = groups[g].cols[k].n
      BY <2>2 DEF ToSet
    <2>5. GroupsOf(r) \subseteq DOMAIN groups
      BY DEF GroupsOf
    <2>6. TypeOK'
      <3>1. groups' \in [DOMAIN groups' -> [ids : Seq(Pkgs), cols : Seq(Columns)]]
        BY <1>0, <2>2 DEF TypeOK
      <3>2. slots' \in [DOMAIN slots' -> [g : DOMAIN groups', i : Nat]]
        <4>1. ASSUME NEW p \in DOMAIN slots'
              PROVE  slots'[p] \in [g : DOMAIN groups', i : Nat]
          <5>1. slots'[p] = slots[p] /\ slots[p] \in [g : DOMAIN groups, i : Nat]
            BY <1>0, <2>2, SlotTyped
          <5>2. slots[p].g \in DOMAIN groups'
            BY <2>2, <2>3
          <5>3. QED
            BY <5>1, <5>2
        <4>2. QED
          BY <2>2, <4>1
      <3>3. freed' \subseteq 1 .. next_col - 1
        <4>1. freed \subseteq 1 .. next_col - 1
          BY <1>0 DEF TypeOK
        <4>2. \A g \in GroupsOf(r) : \A k \in DOMAIN groups[g].cols :
                groups[g].cols[k].n \in 1 .. next_col - 1
          BY <1>0, <2>5, GroupTyped
        <4>3. QED
          BY <2>4, <4>1, <4>2
      <3>4. /\ next_grp' \in Nat \ {0} /\ DOMAIN groups' \subseteq 1 .. next_grp' - 1
            /\ reason' \in [Pkgs -> {0, 1}] /\ raced' \subseteq Nat /\ next_col' \in Nat \ {0}
            /\ held' \subseteq (1 .. next_col' - 1) \X Pkgs
            /\ stk' \in Seq(Fetches \cup Settings) /\ DOMAIN slots' \subseteq Pkgs
        BY <1>0, <1>1, <2>2 DEF TypeOK
      <3>5. \A g \in DOMAIN groups' :
              /\ groups'[g].ids # <<>>
              /\ \A c \in ToSet(groups'[g].cols) :
                   c.n < next_col' /\ Len(c.vals) = Len(groups'[g].ids)
        BY <1>0, <1>1, <2>2 DEF TypeOK
      <3>6. \A p \in DOMAIN slots' : slots'[p].i \in DOMAIN groups'[slots'[p].g].ids
        BY <1>0, <2>2, <2>3, SlotTyped
      <3>7. next_col' = next_col
        BY <1>1
      <3>8. QED
        BY <3>1, <3>2, <3>3, <3>4, <3>5, <3>6, <3>7 DEF TypeOK
    <2>7. GroupInv'
      BY <1>0, <2>2 DEF GroupInv
    <2>8. SlotInv'
      BY <1>0, <2>2, <2>3 DEF SlotInv
    <2>9. CallInv'
      <3> SUFFICES ASSUME NEW i \in DOMAIN stk, stk[i].op = "fetch"
                   PROVE  /\ stk[i].pkg \in DOMAIN slots' /\ slots'[stk[i].pkg].g = stk[i].g
                          /\ Len(stk[i].vals) <= Len(groups'[stk[i].g].ids)
                          /\ \A k \in DOMAIN stk[i].vals :
                               stk[i].vals[k][1] = groups'[stk[i].g].ids[k]
        BY <1>1 DEF CallInv
      <3>1. /\ stk[i].pkg \in DOMAIN slots /\ slots[stk[i].pkg].g = stk[i].g
            /\ Len(stk[i].vals) <= Len(groups[stk[i].g].ids)
            /\ \A k \in DOMAIN stk[i].vals : stk[i].vals[k][1] = groups[stk[i].g].ids[k]
        BY <1>0 DEF CallInv
      <3>2. stk[i].pkg \in DOMAIN slots'
        BY <1>1, <2>2, <3>1
      <3>3. stk[i].g \in DOMAIN groups'
        BY <2>3, <3>1, <3>2
      <3>4. groups'[stk[i].g] = groups[stk[i].g] /\ slots'[stk[i].pkg] = slots[stk[i].pkg]
        BY <2>2, <3>2, <3>3
      <3>5. QED
        BY <3>1, <3>2, <3>4
    <2>10. ColInv'
      <3>1. ASSUME NEW g \in DOMAIN groups', NEW k \in DOMAIN groups'[g].cols
            PROVE  groups'[g].cols[k].n \notin freed'
        <4>1. g \in DOMAIN groups /\ g \notin GroupsOf(r) /\ groups'[g] = groups[g]
          BY <2>2
        <4>2. groups[g].cols[k].n \notin freed
          BY <1>0, <4>1 DEF ColInv
        <4>3. ASSUME NEW x \in GroupsOf(r), NEW l \in DOMAIN groups[x].cols,
                     groups[g].cols[k].n = groups[x].cols[l].n
              PROVE  FALSE
          BY <1>0, <2>5, <4>1, <4>3 DEF ColInv
        <4>4. QED
          BY <2>4, <4>1, <4>2, <4>3
      <3>2. QED
        BY <1>0, <2>2, <3>1 DEF ColInv
    <2>11. HeldInv'
      <3> SUFFICES ASSUME NEW h \in held'
                   PROVE  /\ h[1] \notin freed'
                          /\ \A x \in DOMAIN groups' : \A l \in DOMAIN groups'[x].cols :
                               groups'[x].cols[l].n = h[1] =>
                                 /\ groups'[x].cols[l].field = "name"
                                 /\ Root[groups'[x].ids[1]] = Root[h[2]]
        BY DEF HeldInv
      <3>1. h \in held /\ Root[h[2]] # r
        BY <1>1
      <3>2. ASSUME NEW x \in GroupsOf(r), NEW k \in DOMAIN groups[x].cols,
                   h[1] = groups[x].cols[k].n
            PROVE  FALSE
        <4>1. Root[groups[x].ids[1]] = Root[h[2]]
          BY <1>0, <2>5, <3>1, <3>2 DEF HeldInv
        <4>2. QED
          BY <3>1, <4>1 DEF GroupsOf
      <3>3. h[1] \notin freed'
        BY <1>0, <2>4, <3>1, <3>2 DEF HeldInv
      <3>4. QED
        BY <1>0, <2>2, <3>1, <3>3 DEF HeldInv
    <2>12. FreshInv'
      <3>1. ASSUME NEW g \in Doomed, g \in DOMAIN groups' PROVE g \in Doomed'
        <4>1. PICK j \in DOMAIN stk : /\ stk[j].op = "set_reason" /\ stk[j].applied
                                      /\ stk[j].pkg \in DOMAIN slots /\ g = slots[stk[j].pkg].g
          BY DEF Doomed
        <4>2. stk[j].pkg \in DOMAIN slots' /\ slots'[stk[j].pkg] = slots[stk[j].pkg]
          BY <1>1, <2>2, <4>1
        <4>3. stk' = stk
          BY <1>1
        <4>4. QED
          BY <4>1, <4>2, <4>3 DEF Doomed
      <3>2. stk' = stk /\ raced' = raced /\ \A p : Value(p, "reason")' = Value(p, "reason")
        BY <1>1 DEF Value
      <3> SUFFICES ASSUME NEW x \in DOMAIN groups', x \notin raced
                   PROVE
            /\ \A k, l \in DOMAIN groups'[x].cols :
                 groups'[x].cols[k].field = "reason" /\ groups'[x].cols[l].field = "reason"
                 => k = l
            /\ x \in Doomed' \/
               \A k \in DOMAIN groups'[x].cols, p \in DOMAIN slots' :
                 groups'[x].cols[k].field = "reason" /\ slots'[p].g = x =>
                   groups'[x].cols[k].vals[slots'[p].i] = Value(p, "reason")
            /\ \A i \in DOMAIN stk, p \in DOMAIN slots' :
                 /\ stk[i].op = "fetch" /\ stk[i].g = x /\ stk[i].field = "reason"
                 /\ slots'[p].g = x /\ slots'[p].i \in DOMAIN stk[i].vals
                 => stk[i].vals[slots'[p].i] = Value(p, "reason")
        BY <3>2 DEF FreshInv
      <3>3. x \in DOMAIN groups \ raced /\ groups'[x] = groups[x]
        BY <2>2
      <3>4. \A k, l \in DOMAIN groups'[x].cols :
              groups'[x].cols[k].field = "reason" /\ groups'[x].cols[l].field = "reason" => k = l
        BY <1>0, <3>3 DEF FreshInv
      <3>5. x \in Doomed' \/
            \A k \in DOMAIN groups'[x].cols, p \in DOMAIN slots' :
              groups'[x].cols[k].field = "reason" /\ slots'[p].g = x =>
                groups'[x].cols[k].vals[slots'[p].i] = Value(p, "reason")
        BY <1>0, <2>2, <3>1, <3>3 DEF FreshInv
      <3>6. \A i \in DOMAIN stk, p \in DOMAIN slots' :
              /\ stk[i].op = "fetch" /\ stk[i].g = x /\ stk[i].field = "reason"
              /\ slots'[p].g = x /\ slots'[p].i \in DOMAIN stk[i].vals
              => stk[i].vals[slots'[p].i] = Value(p, "reason")
        BY <1>0, <2>2, <3>3 DEF FreshInv
      <3>7. QED
        BY <3>4, <3>5, <3>6
    <2>13. QED
      BY <2>6, <2>7, <2>8, <2>9, <2>10, <2>11, <2>12 DEF IInv
  <1>4. QED
    BY <1>1, <1>2, <1>3

-----------------------------------------------------------------------------
(* The theorems.                                                           *)

\* Nothing is grouped, cached or under way at first.
LEMMA InitIInv == Init => IInv
  <1> SUFFICES ASSUME Init PROVE IInv
    OBVIOUS
  <1>1. /\ DOMAIN groups = {} /\ DOMAIN slots = {} /\ groups = [g \in DOMAIN groups |-> groups[g]]
        /\ slots = [p \in DOMAIN slots |-> slots[p]] /\ next_grp = 1 /\ next_col = 1
        /\ freed = {} /\ held = {} /\ raced = {} /\ reason \in [Pkgs -> {0, 1}]
    BY DEF Init
  <1>2. stk \in Seq(Fetches \cup Settings) /\ DOMAIN stk = {}
    BY DEF Init
  <1>3. TypeOK
    BY <1>1, <1>2 DEF TypeOK
  <1>4. QED
    BY <1>1, <1>2, <1>3 DEF IInv, GroupInv, SlotInv, CallInv, ColInv, HeldInv, FreshInv

\* Every step keeps the invariant: one step per action.
LEMMA NextIInv == IInv /\ [Next]_vars => IInv'
  <1> SUFFICES ASSUME IInv, [Next]_vars PROVE IInv'
    OBVIOUS
  <1>1. ASSUME NEW L \in Lists, BuildList(L) PROVE IInv'
    BY <1>1, BuildListKeeps
  <1>2. ASSUME NEW p \in Pkgs, NEW f \in Fields, FieldCached(p, f) PROVE IInv'
    BY <1>2, FieldCachedKeeps
  <1>3. ASSUME NEW p \in Pkgs, NEW f \in Fields, FieldFetch(p, f) PROVE IInv'
    BY <1>3, FieldFetchKeeps
  <1>4. CASE ReadMember
    BY <1>4, ReadMemberKeeps
  <1>5. CASE FetchReply
    BY <1>5, FetchReplyKeeps
  <1>6. CASE FetchFails
    BY <1>6, FetchFailsKeeps
  <1>7. ASSUME NEW p \in Pkgs, SetReason(p) PROVE IInv'
    BY <1>7, SetReasonKeeps
  <1>8. ASSUME NEW r \in {0, 1}, Apply(r) PROVE IInv'
    BY <1>8, ApplyKeeps
  <1>9. CASE SetReasonReply
    BY <1>9, SetReasonReplyKeeps
  <1>10. CASE SetReasonLost
    BY <1>10, SetReasonLostKeeps
  <1>11. ASSUME NEW r \in {Root[p] : p \in Pkgs}, NEW lost \in BOOLEAN, Release(r, lost)
         PROVE  IInv'
    BY <1>11, ReleaseKeeps
  <1>12. CASE UNCHANGED vars
    <2>1. /\ UNCHANGED <<tables, next_col, stk, reason, gone, freed, held, raced>>
          /\ stk \in Seq(Fetches \cup Settings) /\ raced \subseteq Nat
      BY <1>12 DEF vars, IInv, TypeOK
    <2>2. QED
      BY <2>1, Recalled
  <1>13. QED
    BY <1>1, <1>2, <1>3, <1>4, <1>5, <1>6, <1>7, <1>8, <1>9, <1>10, <1>11, <1>12 DEF Next

\* The inductive invariant holds of every behaviour: groups, slots, columns and the
\* fetches under way fit together (arpc_client.c, g_groups and g_slots).
THEOREM ColumnsInvariant == Spec => []IInv
  BY InitIInv, NextIInv, PTL DEF Spec

\* A package is answered from its own entry, whatever lists it was met in and whatever
\* was fetched, dropped and released meanwhile (group_new, arpc_pkg_field).
THEOREM OwnEntryRead == Spec => []ReadsOwnEntry
  <1>1. IInv => ReadsOwnEntry
    <2> SUFFICES ASSUME IInv PROVE ReadsOwnEntry
      OBVIOUS
    <2>0. TypeOK /\ GroupInv /\ SlotInv
      BY DEF IInv
    <2>1. ASSUME NEW p \in DOMAIN slots, NEW c \in ToSet(groups[slots[p].g].cols)
          PROVE  c.vals[slots[p].i][1] = p
      <3>1. PICK k \in DOMAIN groups[slots[p].g].cols : c = groups[slots[p].g].cols[k]
        BY DEF ToSet
      <3>2. slots[p].g \in DOMAIN groups /\ slots[p].i \in DOMAIN groups[slots[p].g].ids
        BY <2>0, SlotTyped
      <3>3. groups[slots[p].g].ids[slots[p].i] = p
        BY <2>0 DEF SlotInv
      <3>4. QED
        BY <2>0, <3>1, <3>2, <3>3 DEF GroupInv
    <2>2. QED
      BY <2>0, <2>1 DEF SlotInv, ReadsOwnEntry
  <1>2. QED
    BY <1>1, ColumnsInvariant, PTL

\* "Nothing handed out is freed" (drop_column): a string that a caller got is valid while
\* its package's handle lives.
THEOREM StringsKept == Spec => []HeldStringsValid
  <1>1. IInv => HeldStringsValid
    BY DEF IInv, HeldInv, HeldStringsValid
  <1>2. QED
    BY <1>1, ColumnsInvariant, PTL

\* Between calls a reason is out of date only in a group where a fetch met another fetch
\* or a change, or a reply was lost (arpc_pkg_field, drop_column).
THEOREM ReasonsCurrent == Spec => []StaleOnlyIfRaced
  <1>1. IInv => StaleOnlyIfRaced
    <2> SUFFICES ASSUME IInv, stk = <<>>, NEW p \in Stale, slots[p].g \notin raced
                 PROVE  FALSE
      BY DEF StaleOnlyIfRaced
    <2> DEFINE g == slots[p].g
               k == Place(g, "reason")
    <2>0. TypeOK /\ FreshInv
      BY DEF IInv
    <2>1. /\ p \in DOMAIN slots /\ k # 0
          /\ groups[g].cols[k].vals[slots[p].i] # Value(p, "reason")
      BY DEF Stale
    <2>2. g \in DOMAIN groups \ raced /\ groups[g].cols \in Seq(Columns)
      BY <2>0, <2>1, SlotTyped, GroupTyped
    <2> HIDE DEF g
    <2>3. k \in DOMAIN groups[g].cols /\ groups[g].cols[k].field = "reason"
      BY <2>1, <2>2, PlaceIs
    <2> HIDE DEF k
    <2>4. g \notin Doomed
      <3>1. DOMAIN stk = {}
        OBVIOUS
      <3>2. QED
        BY <3>1 DEF Doomed
    <2>5. slots[p].g = g
      BY DEF g
    <2>6. groups[g].cols[k].vals[slots[p].i] = Value(p, "reason")
      BY <2>0, <2>1, <2>2, <2>3, <2>4, <2>5 DEF FreshInv
    <2>7. QED
      BY <2>1, <2>6
  <1>2. QED
    BY <1>1, ColumnsInvariant, PTL

=============================================================================
