--------------------------- MODULE SessionProofs ---------------------------
(***************************************************************************)
(* Proofs about a client over its server processes, for any number of       *)
(* processes, handles, ids, failures and calls given the NULL handle.       *)
(***************************************************************************)
EXTENDS Session, FiniteSetTheorems, TLAPS

-----------------------------------------------------------------------------
(* The inductive invariant.                                                *)

\* The root that the process which opened a handle gave it: it numbers them.
Roots == [n \in Opened |-> Cardinality({m \in 1 .. n : origin[m] = origin[n]})]

\* How many handles a process has opened.
Issued == [p \in Procs |-> Cardinality({m \in Opened : origin[m] = p})]

\* Handles are numbered as they are opened, and so are the roots of a process.
OpenInv ==
  /\ Opened = 1 .. Cardinality(Opened)
  /\ Cardinality(Opened) \in 0 .. MaxOpen
  /\ \A n \in Opened : origin[n] \in Procs
  /\ root = [p \in Procs |-> Issued[p] + 1]

\* A table t of process p has the process's objects, each under the root of its
\* handle; s is the next number, org and rts are origin and Roots.
Sound(p, t, s, org, rts) ==
  /\ s \in 1 .. MaxSeq + 1
  /\ \A i \in DOMAIN t :
       /\ i \in Ids /\ i.seq < s
       /\ t[i].ptr \in Objects /\ t[i].tag = t[i].ptr.k
       /\ t[i].ptr.n \in DOMAIN org /\ org[t[i].ptr.n] = p
       /\ i.root = rts[t[i].ptr.n]
       /\ t[i].tag = "HANDLE" => t[i].owner = NoId

\* Callbacks c are of ids that were issued (or of none, the NULL handle), and no later
\* slot takes the id of one for another kind of object.
Called(c, t, s) == \A i \in c : i.seq < s /\ (i \in DOMAIN t => t[i].tag = "HANDLE")

TableInv ==
  /\ tab = [p \in Procs |-> tab[p]] /\ seq \in [Procs -> Nat]
  /\ cbs \in [Procs -> SUBSET (Ids \cup {NoId})]
  /\ \A p \in Procs :
       /\ Sound(p, tab[p], seq[p], origin, Roots)
       /\ Called(cbs[p], tab[p], seq[p])

\* What the caller has is of handles that were opened, by the root of each, and with
\* the handle itself; a handle is had once, and given up once.
HeldInv ==
  /\ held \subseteq [id : Ids, obj : Objects]
  /\ unreleased \subseteq [id : Ids, obj : Objects]
  /\ \A x \in held \cup unreleased : x.obj.n \in Opened /\ x.id.root = Roots[x.obj.n]
  /\ \A x \in unreleased : x.obj.k = "HANDLE"
  /\ \A x, y \in Handles(held) \cup unreleased : x.obj.n = y.obj.n => x = y
  /\ Handles(held) \cap unreleased = {}
  /\ \A x \in held : \E y \in Handles(held) : y.obj.n = x.obj.n

\* g_conn_refs counts the handles, less what the NULL handle's release took.
CountInv ==
  /\ IsFiniteSet(Handles(held)) /\ IsFiniteSet(unreleased) /\ spent \in Nat
  /\ refs = Cardinality(Handles(held)) + Cardinality(unreleased) - spent

\* A result is filed under an id with the root of the handle it is of; the NULL
\* handle's is NULL.
CacheInv ==
  /\ \A k \in DOMAIN cache \ {Key(Null)} :
       /\ k \in [id : Ids, getter : {"HANDLE", "DB"}]
       /\ cache[k].obj \in Objects /\ cache[k].obj.k = k.getter
       /\ cache[k].obj.n \in Opened /\ k.id.root = Roots[cache[k].obj.n]
       /\ cache[k].db # NoId => cache[k].db \in Ids /\ cache[k].db.root = k.id.root
       /\ \E x \in held \cup unreleased : x.id.root = k.id.root
  /\ Key(Null) \in DOMAIN cache =>
       cache[Key(Null)].obj = NoObject /\ cache[Key(Null)].db = NoId

\* So is a callback, under the handle's own id.
RegsInv ==
  /\ \A i \in DOMAIN regs \ {NoId} :
       /\ i \in Ids
       /\ regs[i] \in Objects /\ regs[i].k = "HANDLE"
       /\ regs[i].n \in Opened /\ i.root = Roots[regs[i].n]
       /\ \E x \in Handles(held) \cup unreleased : x.id = i
  /\ NoId \in DOMAIN regs => regs[NoId] = Null.obj

\* Until something fails, or the NULL handle is released, the client stays with the
\* process of its handles.
ConnInv ==
  /\ ended \subseteq Procs /\ serves \in [Procs -> {"us", "other", "nobody"}]
  /\ conn \in Procs \cup {NoProc} /\ bare \in BOOLEAN
  /\ failures \in 0 .. MaxUpsets /\ nulls \in 0 .. MaxUpsets /\ spent \in 0 .. nulls
  /\ held = {} /\ unreleased = {} /\ conn # NoProc => bare
  /\ failures = 0 => conn \notin ended
  /\ failures = 0 /\ spent = 0 => \A x \in held : origin[x.obj.n] = conn

IInv == OpenInv /\ TableInv /\ HeldInv /\ CountInv /\ CacheInv /\ RegsInv /\ ConnInv

-----------------------------------------------------------------------------
(* The roots.                                                              *)

\* Within a process, a root is one handle's, and the next one is nobody's yet.
LEMMA RootsFacts ==
  ASSUME OpenInv
  PROVE  /\ \A n \in Opened : n \in 1 .. MaxOpen /\ Roots[n] \in 1 .. MaxOpen
         /\ \A n \in Opened : Roots[n] < root[origin[n]]
         /\ \A m, n \in Opened : origin[m] = origin[n] /\ Roots[m] = Roots[n] => m = n
         /\ \A p \in Procs : root[p] \in 1 .. MaxOpen + 1
         /\ IsFiniteSet(Opened)
  <1> DEFINE k == Cardinality(Opened)
             S(n) == {m \in 1 .. n : origin[m] = origin[n]}
             A(p) == {m \in Opened : origin[m] = p}
  <1>1. k \in Nat /\ k <= MaxOpen /\ Opened = 1 .. k /\ MaxOpen \in Nat
    BY SessionAssumption DEF OpenInv
  <1>2. IsFiniteSet(Opened)
    BY <1>1, FS_Interval
  <1>3. ASSUME NEW p \in Procs
        PROVE  IsFiniteSet(A(p)) /\ Cardinality(A(p)) \in 0 .. k /\ root[p] = Cardinality(A(p)) + 1
    <2>1. IsFiniteSet(A(p)) /\ Cardinality(A(p)) <= k
      BY <1>2, FS_Subset
    <2>2. Cardinality(A(p)) \in Nat
      BY <2>1, FS_CardinalityType
    <2>3. QED
      BY <1>1, <2>1, <2>2 DEF OpenInv, Issued
  <1>4. ASSUME NEW n \in Opened
        PROVE  /\ n \in 1 .. k /\ n \in S(n) /\ Roots[n] = Cardinality(S(n))
               /\ IsFiniteSet(S(n)) /\ Cardinality(S(n)) \in 1 .. n
               /\ Cardinality(S(n)) <= Cardinality(A(origin[n]))
    <2>1. n \in 1 .. k /\ n \in S(n) /\ Roots[n] = Cardinality(S(n))
      BY <1>1 DEF Roots
    <2>2. IsFiniteSet(1 .. n) /\ Cardinality(1 .. n) = n
      BY <1>1, <2>1, FS_Interval
    <2>3. IsFiniteSet(S(n)) /\ Cardinality(S(n)) <= n
      BY <2>2, FS_Subset
    <2>4. Cardinality(S(n)) \in Nat /\ Cardinality(S(n)) # 0
      BY <2>1, <2>3, FS_CardinalityType, FS_EmptySet
    <2>5. S(n) \subseteq A(origin[n])
      BY <1>1, <2>1
    <2>6. Cardinality(S(n)) <= Cardinality(A(origin[n]))
      BY <2>5, <1>3, FS_Subset DEF OpenInv
    <2>7. QED
      BY <1>1, <2>1, <2>3, <2>4, <2>6
  <1> HIDE DEF k, S, A
  <1>5. ASSUME NEW m \in Opened, NEW n \in Opened, m < n, origin[m] = origin[n]
        PROVE  Roots[m] # Roots[n]
    <2>1. S(m) \subseteq S(n) \ {n}
      BY <1>1, <1>5 DEF S
    <2>2. IsFiniteSet(S(n) \ {n}) /\ Cardinality(S(n) \ {n}) = Cardinality(S(n)) - 1
      BY <1>4, FS_RemoveElement
    <2>3. Cardinality(S(m)) <= Cardinality(S(n)) - 1
      BY <2>1, <2>2, FS_Subset
    <2>4. Cardinality(S(n)) \in Nat /\ Cardinality(S(m)) \in Nat
      BY <1>4, <1>1
    <2>5. QED
      BY <2>3, <2>4, <1>4
  <1>6. \A n \in Opened : Roots[n] \in 1 .. MaxOpen /\ n \in 1 .. MaxOpen
    BY <1>1, <1>4
  <1>7. \A n \in Opened : Roots[n] < root[origin[n]]
    <2> SUFFICES ASSUME NEW n \in Opened PROVE Roots[n] < root[origin[n]]
      OBVIOUS
    <2>1. origin[n] \in Procs
      BY DEF OpenInv
    <2>2. /\ Roots[n] \in Nat /\ Roots[n] <= Cardinality(A(origin[n]))
          /\ Cardinality(A(origin[n])) \in Nat /\ root[origin[n]] = Cardinality(A(origin[n])) + 1
      BY <2>1, <1>1, <1>3, <1>4
    <2>3. QED
      BY <2>2
  <1>8. \A m, n \in Opened : origin[m] = origin[n] /\ Roots[m] = Roots[n] => m = n
    <2> SUFFICES ASSUME NEW m \in Opened, NEW n \in Opened, m # n, origin[m] = origin[n]
                 PROVE  Roots[m] # Roots[n]
      OBVIOUS
    <2>1. m < n \/ n < m
      BY <1>1
    <2>2. QED
      BY <2>1, <1>5
  <1>9. \A p \in Procs : root[p] \in 1 .. MaxOpen + 1
    BY <1>1, <1>3
  <1>10. QED
    BY <1>2, <1>6, <1>7, <1>8, <1>9

\* Process p opens one more handle: it has p's next root, and the others keep theirs.
LEMMA OpenStep ==
  ASSUME OpenInv, NEW p \in Procs, NEW n, n = Cardinality(Opened) + 1, n <= MaxOpen,
         origin' = With(origin, n, p), root' = [root EXCEPT ![p] = root[p] + 1]
  PROVE  /\ OpenInv' /\ n \in 1 .. MaxOpen /\ n \notin Opened /\ Opened' = Opened \cup {n}
         /\ Cardinality(Opened') = Cardinality(Opened) + 1
         /\ \A m \in Opened : origin'[m] = origin[m] /\ Roots'[m] = Roots[m]
         /\ origin'[n] = p /\ Roots'[n] = root[p] /\ root[p] \in 1 .. MaxOpen
  <1> DEFINE k == Cardinality(Opened)
             A(q) == {m \in Opened : origin[m] = q}
             B(q) == {m \in Opened' : origin'[m] = q}
  <1>1. k \in Nat /\ k <= MaxOpen /\ Opened = 1 .. k /\ MaxOpen \in Nat /\ n = k + 1
    BY SessionAssumption DEF OpenInv
  <1>2. n \in 1 .. MaxOpen /\ n \notin Opened
    BY <1>1
  <1>3. /\ Opened' = Opened \cup {n} /\ origin'[n] = p
        /\ \A m \in Opened : origin'[m] = origin[m]
    BY <1>2 DEF With, Opened
  <1>4. Opened' = 1 .. n
    BY <1>1, <1>3
  <1>5. Cardinality(Opened') = n
    BY <1>1, <1>4, FS_Interval
  <1>6. \A m \in Opened : Roots'[m] = Roots[m]
    <2> SUFFICES ASSUME NEW m \in Opened PROVE Roots'[m] = Roots[m]
      OBVIOUS
    <2>1. \A j \in 1 .. m : j \in Opened
      BY <1>1
    <2>2. {j \in 1 .. m : origin'[j] = origin'[m]} = {j \in 1 .. m : origin[j] = origin[m]}
      BY <2>1, <1>3
    <2>3. Roots'[m] = Cardinality({j \in 1 .. m : origin'[j] = origin'[m]})
      BY <1>3 DEF Roots
    <2>4. QED
      BY <2>2, <2>3 DEF Roots
  <1>7. \A q \in Procs : /\ IsFiniteSet(A(q)) /\ root[q] = Cardinality(A(q)) + 1
                         /\ Cardinality(A(q)) \in 0 .. k
    <2>1. IsFiniteSet(Opened)
      BY RootsFacts
    <2>2. \A q \in Procs : IsFiniteSet(A(q)) /\ Cardinality(A(q)) <= k
      BY <2>1, FS_Subset
    <2>3. \A q \in Procs : Cardinality(A(q)) \in Nat
      BY <2>2, FS_CardinalityType
    <2>4. QED
      BY <1>1, <2>2, <2>3 DEF OpenInv, Issued
  <1>8. B(p) = A(p) \cup {n} /\ n \notin A(p) /\ \A q \in Procs \ {p} : B(q) = A(q)
    BY <1>2, <1>3
  <1> HIDE DEF A, B
  <1>9. Cardinality(B(p)) = Cardinality(A(p)) + 1
    <2>1. Cardinality(A(p) \cup {n}) = Cardinality(A(p)) + 1
      BY <1>7, <1>8, FS_AddElement, Zenon
    <2>2. QED
      BY <1>8, <2>1
  <1>10. Roots'[n] = root[p]
    <2>1. {j \in 1 .. n : origin'[j] = origin'[n]} = B(p)
      BY <1>3, <1>4 DEF B
    <2>2. Roots'[n] = Cardinality({j \in 1 .. n : origin'[j] = origin'[n]})
      BY <1>3 DEF Roots
    <2>3. QED
      BY <2>1, <2>2, <1>7, <1>9
  <1>11. \A q \in Procs : root'[q] = Issued'[q] + 1
    <2> SUFFICES ASSUME NEW q \in Procs PROVE root'[q] = Cardinality(B(q)) + 1
      BY DEF Issued, B
    <2>1. CASE q = p
      BY <2>1, <1>7, <1>9 DEF OpenInv
    <2>2. CASE q # p
      BY <2>2, <1>7, <1>8 DEF OpenInv
    <2>3. QED
      BY <2>1, <2>2
  <1>12. OpenInv'
    <2>1. root' = [q \in Procs |-> Issued'[q] + 1]
      BY <1>11 DEF OpenInv
    <2>2. QED
      BY <1>1, <1>3, <1>4, <1>5, <2>1 DEF OpenInv
  <1>13. root[p] \in 1 .. MaxOpen
    <2> HIDE DEF k
    <2>1. Cardinality(A(p)) \in Nat /\ Cardinality(A(p)) <= k /\ root[p] = Cardinality(A(p)) + 1
      BY <1>1, <1>7
    <2>2. QED
      BY <1>1, <2>1
  <1>14. QED
    BY <1>1, <1>2, <1>3, <1>5, <1>6, <1>10, <1>12, <1>13

\* No handle is opened.
LEMMA OpenSame ==
  ASSUME OpenInv, UNCHANGED <<origin, root>>
  PROVE  OpenInv' /\ Opened' = Opened /\ Roots' = Roots
  BY DEF OpenInv, Opened, Roots, Issued

-----------------------------------------------------------------------------
(* The tables.                                                             *)

\* The two null ids are the same one, and no id of an object.
LEMMA NoIdFacts ==
  /\ NoId \notin Ids
  /\ \A p : Server(p)!NoId = NoId
  BY DEF NoId, Ids, Server!NoId

\* Nor is what is kept for the NULL handle under the id of one.
LEMMA NullFacts ==
  /\ Null.id = NoId /\ Null.obj = Handle(0) /\ NoId.seq = 0 /\ NoId.root = 0
  /\ Key(Null).id = NoId /\ Key(Null).getter = "HANDLE"
  /\ \A k : k.id \in Ids => k # Key(Null)
  BY NoIdFacts DEF Null, Item, NoId, Key, Handle

\* A kind of object is found by its pointer where it is, and nowhere else.
LEMMA FindPtrIs ==
  ASSUME NEW p \in Procs, NEW t, NEW q, NEW tag, \A i \in DOMAIN t : i \in Ids
  PROVE  LET have == Server(p)!FindPtr(t, q, tag)
         IN  /\ have # NoId => have \in DOMAIN t /\ t[have].ptr = q /\ t[have].tag = tag
             /\ have = NoId => ~ \E i \in DOMAIN t : t[i].ptr = q /\ t[i].tag = tag
  <1> DEFINE hits == {i \in DOMAIN t : t[i].ptr = q /\ t[i].tag = tag}
             have == Server(p)!FindPtr(t, q, tag)
  <1>1. CASE hits = {}
    <2>1. have = NoId
      BY <1>1, NoIdFacts DEF Server!FindPtr
    <2>2. QED
      BY <1>1, <2>1
  <1>2. CASE hits # {}
    <2>1. have \in hits
      BY <1>2 DEF Server!FindPtr
    <2>2. QED
      BY <2>1, NoIdFacts
  <1>3. QED
    BY <1>1, <1>2

\* The table of p with one more handle in it,
Opening(p) ==
  Server(p)!Filed(Server(p)!Table, Handle(Cardinality(Opened) + 1), "HANDLE", NoId, FALSE)

\* its id,
Opener(p) == Server(p)!NewId(seq[p], root[p], "HANDLE", NoId)

\* and the table with the database of the handle o.
Listing(p, o) ==
  Server(p)!Filed(Server(p)!Table, Db(tab[p][o].ptr.n), "DB", o, FALSE)

\* A new handle gets a slot of its own, with the next number and the next root.
LEMMA HandleFiled ==
  ASSUME OpenInv, TableInv, NEW p \in Procs, NEW n, n = Cardinality(Opened) + 1, n \notin Opened
  PROVE  /\ Opener(p) = [root |-> root[p], seq |-> seq[p]]
         /\ DOMAIN Opening(p).tab = DOMAIN tab[p] \cup {Opener(p)}
         /\ \A i \in DOMAIN tab[p] \ {Opener(p)} : Opening(p).tab[i] = tab[p][i]
         /\ Opening(p).tab[Opener(p)] =
              [ptr |-> Handle(n), tag |-> "HANDLE", owner |-> NoId, release |-> FALSE]
         /\ Opening(p).seq = seq[p] + 1 /\ Opening(p).root = root[p] + 1
  <1> DEFINE id == Opener(p)
             st == Opening(p)
             slot == [ptr |-> Handle(n), tag |-> "HANDLE", owner |-> NoId, release |-> FALSE]
  <1>1. Server(p)!FindPtr(tab[p], Handle(n), "HANDLE") = NoId
    <2>1. \A i \in DOMAIN tab[p] : i \in Ids /\ tab[p][i].ptr.n \in Opened
      BY DEF TableInv, Sound, Opened
    <2>2. Handle(n).n = n
      BY DEF Handle
    <2>3. QED
      BY <2>1, <2>2, FindPtrIs
  <1>2. id = [root |-> root[p], seq |-> seq[p]]
    BY NoIdFacts DEF Server!NewId, Opener
  <1> HIDE DEF id, slot, st
  <1>3. st = [tab |-> Server(p)!With(tab[p], id, slot), seq |-> seq[p] + 1, root |-> root[p] + 1]
    BY <1>1, NoIdFacts DEF Server!Filed, Server!Table, id, slot, st, Opening, Opener
  <1>4. st.tab = [i \in DOMAIN tab[p] \cup {id} |-> IF i = id THEN slot ELSE tab[p][i]]
    BY ONLY <1>3 DEF Server!With
  <1>5. /\ DOMAIN st.tab = DOMAIN tab[p] \cup {id} /\ st.tab[id] = slot
        /\ \A i \in DOMAIN tab[p] \ {id} : st.tab[i] = tab[p][i]
        /\ st.seq = seq[p] + 1 /\ st.root = root[p] + 1
    BY ONLY <1>3, <1>4
  <1>6. QED
    BY <1>2, <1>5, Zenon DEF id, slot, st

\* A database is found again where it is, or gets a slot under its handle.
LEMMA DbFiled ==
  ASSUME TableInv, NEW p \in Procs, NEW o \in DOMAIN tab[p], NEW m, m = tab[p][o].ptr.n,
         NEW id, id = [root |-> o.root, seq |-> seq[p]]
  PROVE  /\ Listing(p, o).root = root[p]
         /\ \/ /\ Listing(p, o).seq = seq[p] /\ DOMAIN Listing(p, o).tab = DOMAIN tab[p]
               /\ \E i \in DOMAIN tab[p] : tab[p][i].ptr = Db(m) /\ tab[p][i].tag = "DB"
               /\ \A i \in DOMAIN tab[p] :
                    /\ Listing(p, o).tab[i].ptr = tab[p][i].ptr
                    /\ Listing(p, o).tab[i].tag = tab[p][i].tag
                    /\ tab[p][i].tag = "HANDLE" =>
                         Listing(p, o).tab[i].owner = tab[p][i].owner
            \/ /\ Listing(p, o).seq = seq[p] + 1
               /\ DOMAIN Listing(p, o).tab = DOMAIN tab[p] \cup {id}
               /\ \A i \in DOMAIN tab[p] \ {id} : Listing(p, o).tab[i] = tab[p][i]
               /\ Listing(p, o).tab[id] = [ptr |-> Db(m), tag |-> "DB", owner |-> o,
                                           release |-> FALSE]
  <1> DEFINE have == Server(p)!FindPtr(tab[p], Db(m), "DB")
             slot == [ptr |-> Db(m), tag |-> "DB", owner |-> o, release |-> FALSE]
             new == Server(p)!Refiled(tab[p], have, o)
             st == Listing(p, o)
  <1>1. \A i \in DOMAIN tab[p] : i \in Ids
    BY DEF TableInv, Sound
  <1>2. o # NoId
    BY <1>1, NoIdFacts
  <1>3. /\ have # NoId => have \in DOMAIN tab[p] /\ tab[p][have].ptr = Db(m)
                          /\ tab[p][have].tag = "DB"
    BY <1>1, FindPtrIs
  <1>4. Server(p)!NewId(seq[p], root[p], "DB", o) = id
    BY <1>2, NoIdFacts DEF Server!NewId
  <1> HIDE DEF have, slot, st
  <1>5. CASE have # NoId
    <2>1. st = [Server(p)!Table EXCEPT !.tab = new]
      BY <1>5, NoIdFacts DEF Server!Filed, Server!Table, have, st, Listing
    <2>2. st.tab = new /\ st.seq = seq[p] /\ st.root = root[p]
      BY <2>1 DEF Server!Table
    <2>3. /\ DOMAIN new = DOMAIN tab[p]
          /\ \A i \in DOMAIN tab[p] :
               /\ new[i].ptr = tab[p][i].ptr /\ new[i].tag = tab[p][i].tag
               /\ i # have => new[i] = tab[p][i]
      BY <1>3, <1>5 DEF Server!Refiled
    <2>4. QED
      BY <1>3, <1>5, <2>2, <2>3 DEF st
  <1>6. CASE have = NoId
    <2>1. st = [tab |-> Server(p)!With(tab[p], id, slot), seq |-> seq[p] + 1, root |-> root[p]]
      BY <1>2, <1>4, <1>6, NoIdFacts DEF Server!Filed, Server!Table, have, slot, st, Listing
    <2>2. st.tab = [i \in DOMAIN tab[p] \cup {id} |-> IF i = id THEN slot ELSE tab[p][i]]
      BY ONLY <2>1 DEF Server!With
    <2>3. /\ DOMAIN st.tab = DOMAIN tab[p] \cup {id} /\ st.tab[id] = slot
          /\ \A i \in DOMAIN tab[p] \ {id} : st.tab[i] = tab[p][i]
          /\ st.seq = seq[p] + 1 /\ st.root = root[p]
      BY ONLY <2>1, <2>2
    <2>4. QED
      BY <2>3, Zenon DEF slot, st
  <1>7. QED
    BY <1>5, <1>6

\* A table that is not touched stays sound while handles are opened.
LEMMA SoundLater ==
  ASSUME TableInv, NEW q \in Procs,
         Opened \subseteq Opened',
         \A m \in Opened : origin'[m] = origin[m] /\ Roots'[m] = Roots[m]
  PROVE  Sound(q, tab[q], seq[q], origin', Roots')
  BY DEF TableInv, Sound, Opened

\* What is new in the table of process p, and in its callbacks.
LEMMA TableMoves ==
  ASSUME TableInv, NEW p \in Procs,
         tab' = [tab EXCEPT ![p] = tab'[p]], seq' = [seq EXCEPT ![p] = seq'[p]],
         cbs' = [cbs EXCEPT ![p] = cbs'[p]],
         Opened \subseteq Opened',
         \A m \in Opened : origin'[m] = origin[m] /\ Roots'[m] = Roots[m],
         Sound(p, tab'[p], seq'[p], origin', Roots'),
         cbs'[p] \subseteq Ids \cup {NoId}, Called(cbs'[p], tab'[p], seq'[p])
  PROVE  TableInv'
  <1>1. \A q \in Procs : Sound(q, tab[q], seq[q], origin', Roots')
    BY SoundLater
  <1>2. \A q \in Procs \ {p} : tab'[q] = tab[q] /\ seq'[q] = seq[q] /\ cbs'[q] = cbs[q]
    BY DEF TableInv
  <1>3. \A q \in Procs : Sound(q, tab'[q], seq'[q], origin', Roots')
    BY <1>1, <1>2
  <1>4. \A q \in Procs : Called(cbs'[q], tab'[q], seq'[q])
    BY <1>2 DEF TableInv
  <1>5. /\ tab' = [q \in Procs |-> tab'[q]] /\ seq' \in [Procs -> Nat]
        /\ cbs' \in [Procs -> SUBSET (Ids \cup {NoId})]
    <2>1. tab' = [q \in Procs |-> tab'[q]]
      BY DEF TableInv
    <2>2. seq'[p] \in Nat
      BY SessionAssumption DEF Sound
    <2>3. seq' \in [Procs -> Nat]
      BY <2>2 DEF TableInv
    <2>4. cbs' \in [Procs -> SUBSET (Ids \cup {NoId})]
      BY DEF TableInv
    <2>5. QED
      BY <2>1, <2>3, <2>4
  <1>6. QED
    BY <1>3, <1>4, <1>5 DEF TableInv

\* Nothing is filed or dropped.
LEMMA TableSame ==
  ASSUME TableInv, UNCHANGED <<tab, seq, cbs, origin>>, Roots' = Roots
  PROVE  TableInv'
  BY DEF TableInv, Sound, Called

\* A handle is opened in p, by anybody.
LEMMA OpensKeeps ==
  ASSUME OpenInv, TableInv, NEW p \in Procs, Opens(p), UNCHANGED cbs
  PROVE  LET n == Cardinality(Opened) + 1
         IN  /\ OpenInv' /\ TableInv'
             /\ Opener(p) \in Ids /\ Handle(n) \in Objects
             /\ n \notin Opened /\ Opened' = Opened \cup {n} /\ origin'[n] = p
             /\ Cardinality(Opened') = Cardinality(Opened) + 1
             /\ \A m \in Opened : origin'[m] = origin[m] /\ Roots'[m] = Roots[m]
             /\ Opener(p).root = Roots'[n]
  <1> DEFINE n == Cardinality(Opened) + 1
             id == Opener(p)
             st == Opening(p)
  <1>1. /\ n <= MaxOpen /\ seq[p] <= MaxSeq /\ origin' = With(origin, n, p)
        /\ tab' = [tab EXCEPT ![p] = st.tab] /\ seq' = [seq EXCEPT ![p] = st.seq]
        /\ root' = [root EXCEPT ![p] = st.root]
    BY Zenon DEF Opens, Files, Opening
  <1>2. n \notin Opened
    <2>1. Cardinality(Opened) \in Nat /\ Opened = 1 .. Cardinality(Opened)
      BY SessionAssumption DEF OpenInv
    <2>2. QED
      BY <2>1
  <1> HIDE DEF n, st
  <1>3. /\ id = [root |-> root[p], seq |-> seq[p]]
        /\ DOMAIN st.tab = DOMAIN tab[p] \cup {id}
        /\ \A i \in DOMAIN tab[p] \ {id} : st.tab[i] = tab[p][i]
        /\ st.tab[id] = [ptr |-> Handle(n), tag |-> "HANDLE", owner |-> NoId,
                         release |-> FALSE]
        /\ st.seq = seq[p] + 1 /\ st.root = root[p] + 1
    BY <1>2, HandleFiled, Zenon DEF st, n
  <1> HIDE DEF id
  <1>4. /\ OpenInv' /\ n \in 1 .. MaxOpen /\ Opened' = Opened \cup {n}
        /\ Cardinality(Opened') = Cardinality(Opened) + 1
        /\ \A m \in Opened : origin'[m] = origin[m] /\ Roots'[m] = Roots[m]
        /\ origin'[n] = p /\ Roots'[n] = root[p] /\ root[p] \in 1 .. MaxOpen
    <2>1. n = Cardinality(Opened) + 1
      BY DEF n
    <2>2. root' = [root EXCEPT ![p] = root[p] + 1]
      BY <1>1, <1>3
    <2>3. QED
      BY <2>1, <2>2, <1>1, OpenStep
  <1>5. /\ root[p] \in 1 .. MaxOpen /\ seq[p] \in 1 .. MaxSeq /\ MaxSeq \in Nat
    BY <1>1, <1>4, SessionAssumption DEF TableInv, Sound
  <1>6. id \in Ids /\ id.root = root[p] /\ id.seq = seq[p]
    BY <1>3, <1>5 DEF Ids
  <1>7. Handle(n) \in Objects /\ Handle(n).k = "HANDLE" /\ Handle(n).n = n
    BY <1>4 DEF Handle, Objects
  <1>8. Sound(p, st.tab, st.seq, origin', Roots')
    <2>1. Sound(p, tab[p], seq[p], origin', Roots')
      BY <1>4, SoundLater
    <2>2. \A i \in DOMAIN tab[p] : i # id
      BY <1>5, <1>6 DEF TableInv, Sound
    <2>3. st.seq \in 1 .. MaxSeq + 1 /\ \A i \in DOMAIN st.tab : i.seq < st.seq
      BY <1>3, <1>5, <1>6 DEF TableInv, Sound, Ids
    <2>4. ASSUME NEW i \in DOMAIN st.tab
          PROVE  /\ i \in Ids /\ st.tab[i].ptr \in Objects /\ st.tab[i].tag = st.tab[i].ptr.k
                 /\ st.tab[i].ptr.n \in Opened' /\ origin'[st.tab[i].ptr.n] = p
                 /\ i.root = Roots'[st.tab[i].ptr.n]
                 /\ st.tab[i].tag = "HANDLE" => st.tab[i].owner = NoId
      <3>1. CASE i = id
        BY <3>1, <1>3, <1>4, <1>6, <1>7
      <3>2. CASE i # id
        <4>1. i \in DOMAIN tab[p] /\ st.tab[i] = tab[p][i]
          BY <3>2, <1>3
        <4>2. QED
          BY <4>1, <2>1 DEF Sound, Opened
      <3>3. QED
        BY <3>1, <3>2
    <2>5. QED
      BY <2>3, <2>4 DEF Sound, Opened
  <1>9. TableInv'
    <2>1. /\ tab'[p] = st.tab /\ seq'[p] = st.seq /\ cbs'[p] = cbs[p]
          /\ tab' = [tab EXCEPT ![p] = tab'[p]] /\ seq' = [seq EXCEPT ![p] = seq'[p]]
          /\ cbs' = [cbs EXCEPT ![p] = cbs'[p]]
      BY <1>1 DEF TableInv
    <2>2. cbs'[p] \subseteq Ids \cup {NoId} /\ Called(cbs'[p], tab'[p], seq'[p])
      <3>1. \A i \in cbs[p] : i.seq < seq[p] /\ (i \in DOMAIN tab[p] => tab[p][i].tag = "HANDLE")
        BY DEF TableInv, Called
      <3>2. ASSUME NEW i \in cbs[p]
            PROVE  i.seq < st.seq /\ (i \in DOMAIN st.tab => st.tab[i].tag = "HANDLE")
        <4>1. i \in Ids \cup {NoId} /\ i.seq \in Nat
          BY NullFacts DEF TableInv, Ids
        <4>2. QED
          BY <3>1, <4>1, <1>3, <1>5, <1>6
      <3>3. QED
        BY <2>1, <3>2 DEF TableInv, Called
    <2>3. Sound(p, tab'[p], seq'[p], origin', Roots') /\ Opened \subseteq Opened'
      BY <1>4, <1>8, <2>1
    <2>4. QED
      BY <1>4, <2>1, <2>2, <2>3, TableMoves
  <1>10. QED
    BY <1>2, <1>4, <1>6, <1>7, <1>9 DEF n, id

\* A handle's database is filed as the handle's list is read, under the handle's root.
LEMMA DbFiledKeeps ==
  ASSUME TableInv, NEW p \in Procs, NEW o \in DOMAIN tab[p], tab[p][o].tag = "HANDLE",
         seq[p] <= MaxSeq, Files(p, Listing(p, o)),
         NEW db, db = Server(p)!FindPtr(Listing(p, o).tab, Db(tab[p][o].ptr.n), "DB"),
         UNCHANGED <<cbs, origin>>, Roots' = Roots
  PROVE  TableInv' /\ root' = [root EXCEPT ![p] = root[p]] /\ db \in Ids /\ db.root = o.root
  <1> DEFINE m == tab[p][o].ptr.n
             id == [root |-> o.root, seq |-> seq[p]]
             st == Listing(p, o)
  <1>1. Sound(p, tab[p], seq[p], origin, Roots)
    BY DEF TableInv
  <1>2. /\ o \in Ids /\ m \in 1 .. MaxOpen /\ m \in Opened /\ origin[m] = p /\ o.root = Roots[m]
        /\ seq[p] \in 1 .. MaxSeq /\ MaxSeq \in Nat
    BY <1>1, SessionAssumption DEF Sound, Objects, Opened
  <1>3. Db(m) \in Objects /\ Db(m).k = "DB" /\ Db(m).n = m
    BY <1>2 DEF Db, Objects
  <1>4. id \in Ids /\ id.root = o.root /\ id.seq = seq[p]
    BY <1>2 DEF Ids
  <1> HIDE DEF m, id, st
  <1>5. /\ st.root = root[p]
        /\ \/ /\ st.seq = seq[p] /\ DOMAIN st.tab = DOMAIN tab[p]
              /\ \E i \in DOMAIN tab[p] : tab[p][i].ptr = Db(m) /\ tab[p][i].tag = "DB"
              /\ \A i \in DOMAIN tab[p] :
                   /\ st.tab[i].ptr = tab[p][i].ptr /\ st.tab[i].tag = tab[p][i].tag
                   /\ tab[p][i].tag = "HANDLE" => st.tab[i].owner = tab[p][i].owner
           \/ /\ st.seq = seq[p] + 1 /\ DOMAIN st.tab = DOMAIN tab[p] \cup {id}
              /\ \A i \in DOMAIN tab[p] \ {id} : st.tab[i] = tab[p][i]
              /\ st.tab[id] = [ptr |-> Db(m), tag |-> "DB", owner |-> o, release |-> FALSE]
    <2>1. m = tab[p][o].ptr.n /\ id = [root |-> o.root, seq |-> seq[p]]
      BY DEF m, id
    <2>2. QED
      BY <2>1, DbFiled DEF st
  <1>6. /\ Sound(p, st.tab, st.seq, origin, Roots)
        /\ \A i \in DOMAIN tab[p] : /\ i \in DOMAIN st.tab
                                    /\ st.tab[i].tag = tab[p][i].tag
        /\ \E i \in DOMAIN st.tab : st.tab[i].ptr = Db(m) /\ st.tab[i].tag = "DB"
    <2>1. CASE st.seq = seq[p]
      <3>1. /\ DOMAIN st.tab = DOMAIN tab[p]
            /\ \E i \in DOMAIN tab[p] : tab[p][i].ptr = Db(m) /\ tab[p][i].tag = "DB"
            /\ \A i \in DOMAIN tab[p] :
                 /\ st.tab[i].ptr = tab[p][i].ptr /\ st.tab[i].tag = tab[p][i].tag
                 /\ tab[p][i].tag = "HANDLE" => st.tab[i].owner = tab[p][i].owner
        BY <2>1, <1>2, <1>5
      <3>2. QED
        BY <2>1, <3>1, <1>1 DEF Sound
    <2>2. CASE st.seq = seq[p] + 1
      <3>1. /\ DOMAIN st.tab = DOMAIN tab[p] \cup {id}
            /\ \A i \in DOMAIN tab[p] \ {id} : st.tab[i] = tab[p][i]
            /\ st.tab[id] = [ptr |-> Db(m), tag |-> "DB", owner |-> o, release |-> FALSE]
        BY <2>2, <1>2, <1>5
      <3>2. \A i \in DOMAIN tab[p] : i # id
        BY <1>1, <1>2, <1>4 DEF Sound
      <3>3. st.seq \in 1 .. MaxSeq + 1 /\ \A i \in DOMAIN st.tab : i.seq < st.seq
        BY <2>2, <3>1, <1>1, <1>2, <1>4 DEF Sound, Ids
      <3>4. ASSUME NEW i \in DOMAIN st.tab
            PROVE  /\ i \in Ids /\ st.tab[i].ptr \in Objects /\ st.tab[i].tag = st.tab[i].ptr.k
                   /\ st.tab[i].ptr.n \in DOMAIN origin /\ origin[st.tab[i].ptr.n] = p
                   /\ i.root = Roots[st.tab[i].ptr.n]
                   /\ st.tab[i].tag = "HANDLE" => st.tab[i].owner = NoId
        <4>1. CASE i = id
          BY <4>1, <3>1, <1>2, <1>3, <1>4 DEF Opened
        <4>2. CASE i # id
          BY <4>2, <3>1, <1>1 DEF Sound
        <4>3. QED
          BY <4>1, <4>2
      <3>5. Sound(p, st.tab, st.seq, origin, Roots)
        BY <3>3, <3>4 DEF Sound
      <3>6. QED
        BY <3>1, <3>2, <3>5
    <2>3. QED
      BY <2>1, <2>2, <1>5
  <1>7. db \in DOMAIN st.tab /\ st.tab[db].ptr = Db(m)
    <2>1. \A i \in DOMAIN st.tab : i \in Ids
      BY <1>6 DEF Sound
    <2>2. QED
      BY <2>1, <1>6, FindPtrIs DEF m, st
  <1>8. db \in Ids /\ db.root = o.root
    BY <1>2, <1>3, <1>6, <1>7 DEF Sound
  <1>9. /\ tab' = [tab EXCEPT ![p] = st.tab] /\ seq' = [seq EXCEPT ![p] = st.seq]
        /\ root' = [root EXCEPT ![p] = root[p]]
    BY <1>5 DEF Files, st
  <1>10. /\ tab'[p] = st.tab /\ seq'[p] = st.seq /\ cbs'[p] = cbs[p]
         /\ tab' = [tab EXCEPT ![p] = tab'[p]] /\ seq' = [seq EXCEPT ![p] = seq'[p]]
         /\ cbs' = [cbs EXCEPT ![p] = cbs'[p]]
    BY <1>9 DEF TableInv
  <1>11. /\ cbs'[p] \subseteq Ids \cup {NoId} /\ Called(cbs'[p], tab'[p], seq'[p])
         /\ Sound(p, tab'[p], seq'[p], origin', Roots')
    <2>1. \A i \in cbs[p] : i.seq < seq[p] /\ (i \in DOMAIN tab[p] => tab[p][i].tag = "HANDLE")
      BY DEF TableInv, Called
    <2>2. ASSUME NEW i \in cbs[p]
          PROVE  i.seq < st.seq /\ (i \in DOMAIN st.tab => st.tab[i].tag = "HANDLE")
      <3>1. i \in Ids \cup {NoId} /\ i.seq \in Nat
        BY NullFacts DEF TableInv, Ids
      <3>2. i.seq < st.seq
        BY <2>1, <3>1, <1>2, <1>5
      <3>3. i \in DOMAIN st.tab => i \in DOMAIN tab[p]
        BY <2>1, <3>1, <1>2, <1>4, <1>5
      <3>4. QED
        BY <2>1, <3>2, <3>3, <1>6
    <2>3. QED
      BY <1>6, <1>10, <2>2 DEF TableInv, Called
  <1>12. TableInv'
    BY <1>10, <1>11, TableMoves DEF Opened
  <1>13. QED
    BY <1>8, <1>9, <1>12

\* Slots go, and callbacks.
LEMMA DropKeeps ==
  ASSUME TableInv, NEW p \in Procs, NEW t, NEW c,
         tab' = [tab EXCEPT ![p] = t], seq' = seq, cbs' = [cbs EXCEPT ![p] = c],
         origin' = origin, Roots' = Roots,
         \A i \in DOMAIN t : i \in DOMAIN tab[p] /\ t[i] = tab[p][i],
         c \subseteq cbs[p]
  PROVE  TableInv'
  <1>1. /\ tab'[p] = t /\ seq'[p] = seq[p] /\ cbs'[p] = c
        /\ tab' = [tab EXCEPT ![p] = tab'[p]] /\ seq' = [seq EXCEPT ![p] = seq'[p]]
        /\ cbs' = [cbs EXCEPT ![p] = cbs'[p]]
    BY DEF TableInv
  <1>2. Sound(p, tab'[p], seq'[p], origin', Roots')
    BY <1>1 DEF TableInv, Sound
  <1>3. cbs'[p] \subseteq Ids \cup {NoId} /\ Called(cbs'[p], tab'[p], seq'[p])
    BY <1>1 DEF TableInv, Called
  <1>4. QED
    BY <1>1, <1>2, <1>3, TableMoves DEF Opened

\* alpm_release: the handle goes with all below it, and its callback.
LEMMA ReleaseDrops ==
  ASSUME TableInv, NEW p \in Procs, NEW o \in DOMAIN tab[p], tab[p][o].tag = "HANDLE",
         tab' = [tab EXCEPT ![p] = Server(p)!Without(tab[p], Server(p)!Below(tab[p], o))],
         cbs' = [cbs EXCEPT ![p] = cbs[p] \ {o}], seq' = seq, origin' = origin, Roots' = Roots
  PROVE  TableInv'
  <1> DEFINE S == Server(p)!Below(tab[p], o)
             t == Server(p)!Without(tab[p], S)
             c == cbs[p] \ {o}
  <1>1. DOMAIN t = DOMAIN tab[p] \ S /\ \A i \in DOMAIN t : t[i] = tab[p][i]
    BY DEF Server!Without
  <1>2. c \subseteq cbs[p] /\ \A i \in DOMAIN t : i \in DOMAIN tab[p] /\ t[i] = tab[p][i]
    BY <1>1
  <1>3. tab' = [tab EXCEPT ![p] = t] /\ cbs' = [cbs EXCEPT ![p] = c]
    OBVIOUS
  <1> HIDE DEF t, c
  <1>4. QED
    BY ONLY TableInv, <1>2, <1>3, seq' = seq, origin' = origin, Roots' = Roots, DropKeeps

\* A process that ends takes its table along.
LEMMA EndDrops ==
  ASSUME TableInv, NEW p \in Procs,
         tab' = [tab EXCEPT ![p] = Less(tab[p], DOMAIN tab[p])],
         cbs' = cbs, seq' = seq, origin' = origin, Roots' = Roots
  PROVE  TableInv'
  <1> DEFINE t == Less(tab[p], DOMAIN tab[p])
  <1>1. DOMAIN t = {}
    BY DEF Less
  <1> HIDE DEF t
  <1>2. tab' = [tab EXCEPT ![p] = t] /\ cbs' = [cbs EXCEPT ![p] = cbs[p]]
    BY DEF t, TableInv
  <1>3. QED
    BY <1>1, <1>2, DropKeeps

\* arpc_cb_set, of a handle the process knows or of none.
LEMMA CbSetKeeps ==
  ASSUME TableInv, NEW p \in Procs, NEW c,
         cbs' = [cbs EXCEPT ![p] = c],
         \A i \in c : i \in cbs[p] \/ i = NoId \/ (i \in DOMAIN tab[p] /\ tab[p][i].tag = "HANDLE"),
         UNCHANGED <<tab, seq, origin>>, Roots' = Roots
  PROVE  TableInv'
  <1>1. c \subseteq Ids \cup {NoId} /\ Called(c, tab[p], seq[p])
    <2> SUFFICES ASSUME NEW i \in c
                 PROVE  /\ i \in Ids \cup {NoId} /\ i.seq < seq[p]
                        /\ i \in DOMAIN tab[p] => tab[p][i].tag = "HANDLE"
      BY DEF Called
    <2>1. CASE i \in cbs[p]
      BY <2>1 DEF TableInv, Called
    <2>2. CASE i = NoId
      <3>1. i.seq = 0 /\ i \notin DOMAIN tab[p] /\ seq[p] \in 1 .. MaxSeq + 1
        BY <2>2, NoIdFacts, NullFacts DEF TableInv, Sound
      <3>2. QED
        BY <2>2, <3>1, SessionAssumption
    <2>3. CASE i \in DOMAIN tab[p] /\ tab[p][i].tag = "HANDLE"
      BY <2>3 DEF TableInv, Sound
    <2>4. QED
      BY <2>1, <2>2, <2>3
  <1>2. /\ tab'[p] = tab[p] /\ seq'[p] = seq[p] /\ cbs'[p] = c
        /\ tab' = [tab EXCEPT ![p] = tab'[p]] /\ seq' = [seq EXCEPT ![p] = seq'[p]]
        /\ cbs' = [cbs EXCEPT ![p] = cbs'[p]]
    BY DEF TableInv
  <1>3. /\ Sound(p, tab'[p], seq'[p], origin', Roots')
        /\ cbs'[p] \subseteq Ids \cup {NoId} /\ Called(cbs'[p], tab'[p], seq'[p])
    BY <1>1, <1>2 DEF TableInv
  <1>4. QED
    BY <1>2, <1>3, TableMoves DEF Opened

-----------------------------------------------------------------------------
(* What the client keeps.                                                  *)

\* Nothing of it changes while others open handles, or nobody does.
LEMMA HeldLater ==
  ASSUME HeldInv, UNCHANGED <<held, unreleased>>,
         Opened \subseteq Opened', \A m \in Opened : Roots'[m] = Roots[m]
  PROVE  HeldInv'
  BY DEF HeldInv, Handles

\* Nor does a cached result lose its owner, as long as what is kept grows,
LEMMA CacheLater ==
  ASSUME CacheInv, UNCHANGED cache, held \cup unreleased \subseteq held' \cup unreleased',
         Opened \subseteq Opened', \A m \in Opened : Roots'[m] = Roots[m]
  PROVE  CacheInv'
  BY DEF CacheInv

\* nor a registered callback its handle.
LEMMA RegsLater ==
  ASSUME RegsInv, UNCHANGED regs,
         Handles(held) \cup unreleased \subseteq Handles(held)' \cup unreleased',
         Opened \subseteq Opened', \A m \in Opened : Roots'[m] = Roots[m]
  PROVE  RegsInv'
  BY DEF RegsInv

\* The caller learns the id of a database of a handle it has.
LEMMA LearnsDb ==
  ASSUME HeldInv, CountInv, NEW x \in held, NEW db \in Ids, db.root = x.id.root,
         held' = held \cup {Item(db, Db(x.obj.n))},
         UNCHANGED <<unreleased, refs, origin, spent>>, Roots' = Roots
  PROVE  HeldInv' /\ CountInv' /\ Handles(held)' = Handles(held)
  <1> DEFINE y == Item(db, Db(x.obj.n))
  <1>1. x \in [id : Ids, obj : Objects] /\ x.obj.n \in Opened /\ x.id.root = Roots[x.obj.n]
    BY DEF HeldInv
  <1>2. /\ y \in [id : Ids, obj : Objects] /\ y.id = db /\ y.obj.k = "DB" /\ y.obj.n = x.obj.n
    BY <1>1 DEF Item, Db, Objects
  <1> HIDE DEF y
  <1>3. held' = held \cup {y}
    BY DEF y
  <1>4. Handles(held)' = Handles(held)
    BY <1>2, <1>3 DEF Handles
  <1>5. Opened' = Opened
    BY DEF Opened
  <1>6. /\ \E z \in Handles(held) : z.obj.n = y.obj.n
        /\ y.obj.n \in Opened /\ y.id.root = Roots[y.obj.n]
    BY <1>1, <1>2 DEF HeldInv
  <1>7. HeldInv'
    BY <1>2, <1>3, <1>4, <1>5, <1>6 DEF HeldInv
  <1>8. QED
    BY <1>4, <1>5, <1>7 DEF CountInv

\* A handle is given up though its release failed: it still counts, and what was kept
\* for it is kept for it still.
LEMMA GivesUp ==
  ASSUME HeldInv, CountInv, CacheInv, RegsInv, NEW x \in held, x.obj.k = "HANDLE",
         NEW mine, mine = {y \in held : y.obj.n = x.obj.n},
         held' = held \ mine, unreleased' = unreleased \cup Handles(mine),
         UNCHANGED <<refs, cache, regs, origin, spent>>, Roots' = Roots
  PROVE  HeldInv' /\ CountInv' /\ CacheInv' /\ RegsInv'
  <1>1. x \in Handles(held) /\ x \notin unreleased
    BY DEF Handles, HeldInv
  <1>2. Handles(mine) = {x}
    BY <1>1 DEF Handles, HeldInv
  <1>3. Handles(held)' = Handles(held) \ {x} /\ unreleased' = unreleased \cup {x}
    BY <1>2 DEF Handles
  <1>4. Opened' = Opened
    BY DEF Opened
  <1>5. HeldInv'
    <2>1. Handles(held)' \cup unreleased' \subseteq Handles(held) \cup unreleased
      BY <1>1, <1>3
    <2>2. \A y \in held' : y \in held /\ y.obj.n # x.obj.n
      OBVIOUS
    <2>3. \A y \in held' : \E z \in Handles(held)' : z.obj.n = y.obj.n
      BY <1>3, <2>2 DEF HeldInv
    <2>4. held' \cup unreleased' \subseteq held \cup unreleased /\ x \in held
      BY <1>3
    <2>5. QED
      BY <1>1, <1>3, <1>4, <2>1, <2>2, <2>3, <2>4 DEF HeldInv
  <1>6. CountInv'
    <2> DEFINE H == Handles(held)
               H2 == H \ {x}
               U2 == unreleased \cup {x}
    <2>1. IsFiniteSet(H) /\ IsFiniteSet(unreleased) /\ x \in H
      BY <1>1 DEF CountInv
    <2> HIDE DEF H
    <2>2. IsFiniteSet(H2) /\ Cardinality(H2) = Cardinality(H) - 1
      BY <2>1, FS_RemoveElement, Zenon
    <2>3. IsFiniteSet(U2) /\ Cardinality(U2) = Cardinality(unreleased) + 1
      BY <1>1, <2>1, FS_AddElement, Zenon
    <2>4. Cardinality(H) \in Nat /\ Cardinality(unreleased) \in Nat
      BY <2>1, FS_CardinalityType
    <2>5. Handles(held)' = H2 /\ unreleased' = U2
      BY <1>3 DEF H
    <2> HIDE DEF H2, U2
    <2>6. refs = Cardinality(H2) + Cardinality(U2) - spent
      BY <2>2, <2>3, <2>4 DEF CountInv, H
    <2>7. QED
      BY <2>2, <2>3, <2>5, <2>6 DEF CountInv
  <1>7. CacheInv'
    <2>1. \A y \in mine : y.id.root = x.id.root
      BY DEF HeldInv
    <2>2. \A y \in held \cup unreleased : \E z \in held' \cup unreleased' : z.id.root = y.id.root
      BY <1>3, <2>1
    <2>3. QED
      BY <1>4, <2>2 DEF CacheInv
  <1>8. RegsInv'
    BY <1>3, <1>4, RegsLater
  <1>9. QED
    BY <1>5, <1>6, <1>7, <1>8

\* A handle is released: it counts no more, and nothing is kept for it.
LEMMA Releases ==
  ASSUME OpenInv, HeldInv, CountInv, CacheInv, RegsInv, NEW x \in held, x.obj.k = "HANDLE",
         NEW mine, mine = {y \in held : y.obj.n = x.obj.n},
         held' = held \ mine, PurgeRoot(x.id), refs' = refs - 1,
         UNCHANGED <<unreleased, origin, spent>>, Roots' = Roots
  PROVE  HeldInv' /\ CountInv' /\ CacheInv' /\ RegsInv'
  <1>1. x \in Handles(held)
    BY DEF Handles
  <1>2. Handles(mine) = {x}
    BY <1>1 DEF Handles, HeldInv
  <1>3. Handles(held)' = Handles(held) \ {x}
    BY <1>2 DEF Handles
  <1>4. Opened' = Opened
    BY DEF Opened
  <1>5. HeldInv'
    <2>1. \A y \in held' : y \in held /\ y.obj.n # x.obj.n
      OBVIOUS
    <2>2. \A y \in held' : \E z \in Handles(held)' : z.obj.n = y.obj.n
      BY <1>3, <2>1 DEF HeldInv
    <2>3. QED
      BY <1>3, <1>4, <2>1, <2>2 DEF HeldInv
  <1>6. CountInv'
    <2> DEFINE H == Handles(held)
               H2 == H \ {x}
    <2>1. IsFiniteSet(H) /\ IsFiniteSet(unreleased) /\ x \in H
      BY <1>1 DEF CountInv
    <2> HIDE DEF H
    <2>2. IsFiniteSet(H2) /\ Cardinality(H2) = Cardinality(H) - 1
      BY <2>1, FS_RemoveElement, Zenon
    <2>3. Cardinality(H) \in Nat /\ Cardinality(unreleased) \in Nat
      BY <2>1, FS_CardinalityType
    <2>4. Handles(held)' = H2
      BY <1>3 DEF H
    <2> HIDE DEF H2
    <2>5. refs' = Cardinality(H2) + Cardinality(unreleased) - spent
      BY <2>2, <2>3 DEF CountInv, H
    <2>6. QED
      BY <2>1, <2>2, <2>4, <2>5 DEF CountInv
  <1>7. CacheInv'
    <2>1. /\ DOMAIN cache' = {k \in DOMAIN cache : k.id.root # x.id.root}
          /\ \A k \in DOMAIN cache' : cache'[k] = cache[k]
      BY DEF PurgeRoot, Less
    <2>2. \A y \in mine : y.id.root = x.id.root
      BY DEF HeldInv
    <2>3. \A y \in held \cup unreleased :
            y.id.root # x.id.root => y \in held' \cup unreleased'
      BY <2>2
    <2>4. QED
      BY <1>4, <2>1, <2>3 DEF CacheInv
  <1>8. RegsInv'
    <2>1. DOMAIN regs' = DOMAIN regs \ {x.id} /\ \A i \in DOMAIN regs' : regs'[i] = regs[i]
      BY DEF PurgeRoot, Less
    <2>2. QED
      BY <1>3, <1>4, <2>1 DEF RegsInv
  <1>9. QED
    BY <1>5, <1>6, <1>7, <1>8

\* A call about something the caller has leaves the client with the process that has it,
\* or the reply is lost.
LEMMA CallConn ==
  ASSUME OpenInv, HeldInv, ConnInv, NEW p \in Procs, NEW x \in held,
         Reaches(p), Takes(p), (Arrives(p) /\ UNCHANGED bare) \/ (Lost /\ bare' = FALSE),
         UNCHANGED <<origin, nulls, spent>>,
         \A y \in held' : \E z \in held : z.obj.n = y.obj.n,
         ~(held' = {} /\ unreleased' = {})
  PROVE  ConnInv'
  <1>2. ended' = ended /\ serves' \in [Procs -> {"us", "other", "nobody"}]
    BY DEF Takes, ConnInv
  <1>3. CASE Arrives(p) /\ UNCHANGED bare
    <2>1. conn' = p /\ failures' = failures /\ bare' = bare
      BY <1>3 DEF Arrives
    <2>2. failures = 0 /\ spent = 0 => p = conn
      <3>1. origin[x.obj.n] \in Procs
        BY DEF HeldInv, OpenInv
      <3>2. QED
        BY <3>1, SessionAssumption DEF ConnInv, Reaches
    <2>3. p \notin ended
      BY DEF Reaches
    <2>4. QED
      BY <1>2, <2>1, <2>2, <2>3 DEF ConnInv
  <1>4. CASE Lost /\ bare' = FALSE
    <2>1. failures' \in 0 .. MaxUpsets /\ failures' # 0 /\ conn' = NoProc
      BY <1>4, SessionAssumption DEF Lost, Upsets, ConnInv
    <2>2. QED
      BY <1>2, <1>4, <2>1, Zenon DEF ConnInv
  <1>5. QED
    BY <1>3, <1>4

-----------------------------------------------------------------------------
(* The steps.                                                              *)

\* A handle comes back from alpm_initialize, and counts.
LEMMA GetsHandle ==
  ASSUME HeldInv, CountInv, NEW n, NEW id \in Ids, Handle(n) \in Objects, n \notin Opened,
         Opened' = Opened \cup {n},
         \A m \in Opened : Roots'[m] = Roots[m], id.root = Roots'[n],
         held' = held \cup {Item(id, Handle(n))}, refs' = refs + 1, UNCHANGED <<unreleased, spent>>
  PROVE  HeldInv' /\ CountInv' /\ Handles(held) \subseteq Handles(held)' /\ held' # {}
  <1> DEFINE z == Item(id, Handle(n))
             H == Handles(held)
  <1>1. /\ z \in [id : Ids, obj : Objects] /\ z.id = id /\ z.obj.k = "HANDLE" /\ z.obj.n = n
    BY DEF Item, Handle
  <1> HIDE DEF z
  <1>2. held' = held \cup {z}
    BY DEF z
  <1>3. Handles(held)' = H \cup {z}
    BY <1>1, <1>2 DEF Handles
  <1>4. \A x \in held \cup unreleased : x.obj.n \in Opened /\ x.obj.n # n /\ x # z
    BY <1>1 DEF HeldInv
  <1>5. H \subseteq held
    BY DEF Handles
  <1>6. HeldInv'
    <2>1. \A x, y \in Handles(held)' \cup unreleased' : x.obj.n = y.obj.n => x = y
      BY <1>1, <1>3, <1>4, <1>5 DEF HeldInv
    <2>2. \A x \in held' : \E y \in Handles(held)' : y.obj.n = x.obj.n
      BY <1>1, <1>2, <1>3 DEF HeldInv
    <2>3. \A x \in held' \cup unreleased' : x.obj.n \in Opened' /\ x.id.root = Roots'[x.obj.n]
      BY <1>1, <1>2, <1>4 DEF HeldInv
    <2>4. Handles(held)' \cap unreleased' = {}
      BY <1>3, <1>4 DEF HeldInv
    <2>5. QED
      BY <1>1, <1>2, <2>1, <2>2, <2>3, <2>4 DEF HeldInv
  <1>7. IsFiniteSet(H) /\ IsFiniteSet(unreleased) /\ z \notin H
    BY <1>4, <1>5 DEF CountInv
  <1> HIDE DEF H
  <1>8. IsFiniteSet(H \cup {z}) /\ Cardinality(H \cup {z}) = Cardinality(H) + 1
    BY <1>7, FS_AddElement, Zenon
  <1>9. Cardinality(H) \in Nat /\ Cardinality(unreleased) \in Nat
    BY <1>7, FS_CardinalityType
  <1>10. refs = Cardinality(H) + Cardinality(unreleased) - spent /\ spent \in Nat
    BY DEF CountInv, H
  <1>11. refs' = Cardinality(H \cup {z}) + Cardinality(unreleased) - spent
    BY <1>8, <1>9, <1>10
  <1>12. CountInv'
    BY <1>3, <1>7, <1>8, <1>10, <1>11 DEF CountInv
  <1>13. QED
    BY <1>2, <1>3, <1>6, <1>12 DEF H

\* alpm_initialize.
LEMMA InitializeKeeps ==
  ASSUME IInv, NEW p \in Procs, Initialize(p)
  PROVE  IInv'
  <1> DEFINE n == Cardinality(Opened) + 1
  <1> USE DEF IInv
  <1>1. /\ Reaches(p) /\ Takes(p) /\ Opens(p)
        /\ \/ /\ Arrives(p) /\ held' = held \cup {Item(Opener(p), Handle(n))}
              /\ refs' = refs + 1 /\ bare' = bare
           \/ Lost /\ bare' = FALSE /\ held' = held /\ refs' = refs
        /\ cbs' = cbs /\ cache' = cache /\ regs' = regs /\ unreleased' = unreleased
        /\ nulls' = nulls /\ spent' = spent
    BY Zenon DEF Initialize, Opener
  <1>2. /\ OpenInv' /\ TableInv'
        /\ Opener(p) \in Ids /\ Handle(n) \in Objects
        /\ n \notin Opened /\ Opened' = Opened \cup {n} /\ origin'[n] = p
        /\ \A m \in Opened : origin'[m] = origin[m] /\ Roots'[m] = Roots[m]
        /\ Opener(p).root = Roots'[n]
    BY <1>1, OpensKeeps
  <1>3. Opened \subseteq Opened'
    BY <1>2
  <1> HIDE DEF n
  <1>4. ended' = ended /\ serves' \in [Procs -> {"us", "other", "nobody"}] /\ p \notin ended
    BY <1>1 DEF Takes, ConnInv, Reaches
  <1>5. CASE Arrives(p) /\ held' = held \cup {Item(Opener(p), Handle(n))}
             /\ refs' = refs + 1 /\ bare' = bare
    <2>1. /\ HeldInv' /\ CountInv' /\ Handles(held) \subseteq Handles(held)' /\ held' # {}
      BY <1>1, <1>2, <1>3, <1>5, GetsHandle
    <2>2. CacheInv' /\ RegsInv'
      BY <1>1, <1>2, <1>3, <1>5, <2>1, CacheLater, RegsLater
    <2>3. conn' = p /\ failures' = failures
      BY <1>5 DEF Arrives
    <2>4. failures = 0 /\ spent = 0 => \A x \in held' : origin'[x.obj.n] = p
      <3> SUFFICES ASSUME failures = 0, spent = 0, NEW x \in held' PROVE origin'[x.obj.n] = p
        OBVIOUS
      <3>1. CASE x \in held
        <4>1. x.obj.n \in Opened /\ origin[x.obj.n] = conn /\ conn \in Procs
          BY <3>1 DEF HeldInv, ConnInv, OpenInv
        <4>2. conn = p
          BY <4>1, <1>1, SessionAssumption DEF Reaches
        <4>3. QED
          BY <4>1, <4>2, <1>2
      <3>2. CASE x = Item(Opener(p), Handle(n))
        BY <3>2, <1>2 DEF Item, Handle
      <3>3. QED
        BY <3>1, <3>2, <1>5
    <2>5. ConnInv'
      BY <1>1, <1>4, <1>5, <2>1, <2>3, <2>4 DEF ConnInv
    <2>6. QED
      BY <1>2, <2>1, <2>2, <2>5
  <1>6. CASE Lost /\ bare' = FALSE /\ held' = held /\ refs' = refs
    <2>1. HeldInv'
      BY <1>1, <1>2, <1>3, <1>6, HeldLater
    <2>2. CacheInv' /\ RegsInv'
      BY <1>1, <1>2, <1>3, <1>6, CacheLater, RegsLater DEF Handles
    <2>3. CountInv'
      BY <1>1, <1>6 DEF CountInv, Handles
    <2>4. failures' \in 0 .. MaxUpsets /\ failures' # 0 /\ conn' = NoProc
      BY <1>6, SessionAssumption DEF Lost, Upsets, ConnInv
    <2>5. ConnInv'
      BY <1>1, <1>4, <1>6, <2>4, Zenon DEF ConnInv
    <2>6. QED
      BY <1>2, <2>1, <2>2, <2>3, <2>5
  <1>7. QED
    BY <1>1, <1>5, <1>6 DEF n

\* The server side, the handles and what is kept for them are as they were.
LEMMA AllButConn ==
  ASSUME IInv,
         UNCHANGED <<tab, seq, root, cbs, refs, cache, regs, held, unreleased, origin, spent>>
  PROVE  /\ OpenInv' /\ TableInv' /\ HeldInv' /\ CountInv' /\ CacheInv' /\ RegsInv'
         /\ Opened' = Opened /\ Roots' = Roots
  <1> USE DEF IInv
  <1>1. OpenInv' /\ Opened' = Opened /\ Roots' = Roots
    BY OpenSame
  <1>2. TableInv'
    BY <1>1, TableSame
  <1>3. HeldInv'
    BY <1>1, HeldLater
  <1>4. CacheInv' /\ RegsInv'
    BY <1>1, CacheLater, RegsLater DEF Handles
  <1>5. CountInv'
    BY <1>1 DEF CountInv, Handles
  <1>6. QED
    BY <1>1, <1>2, <1>3, <1>4, <1>5

\* alpm_initialize is refused.
LEMMA RefusedKeeps ==
  ASSUME IInv, NEW p \in Procs, InitializeRefused(p)
  PROVE  IInv'
  <1> USE DEF IInv
  <1>1. /\ Reaches(p) /\ Takes(p) /\ conn' = p /\ failures' = failures /\ bare' = TRUE
        /\ UNCHANGED <<tab, seq, root, cbs, refs, cache, regs, held, unreleased, origin>>
        /\ UNCHANGED <<nulls, spent>>
    BY DEF InitializeRefused, Arrives
  <1>2. /\ OpenInv' /\ TableInv' /\ HeldInv' /\ CountInv' /\ CacheInv' /\ RegsInv'
    BY <1>1, AllButConn
  <1>3. ended' = ended /\ serves' \in [Procs -> {"us", "other", "nobody"}] /\ p \notin ended
    BY <1>1 DEF Takes, ConnInv, Reaches
  <1>4. failures = 0 /\ spent = 0 => \A x \in held : origin[x.obj.n] = p
    <2> SUFFICES ASSUME failures = 0, spent = 0, NEW x \in held PROVE origin[x.obj.n] = p
      OBVIOUS
    <2>1. origin[x.obj.n] = conn /\ conn \in Procs
      BY DEF HeldInv, ConnInv, OpenInv
    <2>2. QED
      BY <2>1, <1>1, SessionAssumption DEF Reaches
  <1>5. ConnInv'
    BY <1>1, <1>3, <1>4 DEF ConnInv
  <1>6. QED
    BY <1>2, <1>5

\* The root in the table is only written over, or not at all.
LEMMA RootSame ==
  ASSUME OpenInv, NEW p \in Procs, root' = [root EXCEPT ![p] = root[p]]
  PROVE  root' = root
  BY DEF OpenInv

\* A result is read at the server, and filed if its reply arrives.
LEMMA ReadKeeps ==
  ASSUME IInv, NEW p \in Procs, NEW x \in held, Read(x, p)
  PROVE  IInv'
  <1> DEFINE obj == tab[p][x.id].ptr
             st == IF x.obj.k = "DB" THEN Server(p)!Table ELSE Listing(p, x.id)
             db == IF x.obj.k = "DB" THEN NoId ELSE Server(p)!FindPtr(st.tab, Db(obj.n), "DB")
             entry == [obj |-> obj, db |-> db]
  <1> USE DEF IInv
  <1>1. /\ Reaches(p) /\ Takes(p) /\ Named(p, x) /\ seq[p] <= MaxSeq /\ Files(p, st)
        /\ \/ /\ Arrives(p) /\ cache' = With(cache, Key(x), entry)
              /\ held' = IF db = NoId THEN held ELSE held \cup {Item(db, Db(x.obj.n))}
              /\ bare' = bare
           \/ Lost /\ bare' = FALSE /\ cache' = cache /\ held' = held
        /\ cbs' = cbs /\ refs' = refs /\ regs' = regs /\ unreleased' = unreleased
        /\ origin' = origin /\ nulls' = nulls /\ spent' = spent
    BY Zenon DEF Read, Listing
  <1>2. /\ x.id \in DOMAIN tab[p] /\ tab[p][x.id].tag = x.obj.k
        /\ x \in [id : Ids, obj : Objects] /\ x.obj.n \in Opened /\ x.id.root = Roots[x.obj.n]
    BY <1>1 DEF Named, Server!Resolves, HeldInv
  <1>3. /\ obj \in Objects /\ obj.k = x.obj.k /\ obj.n \in Opened /\ x.id.root = Roots[obj.n]
        /\ x.obj.k \in {"HANDLE", "DB"} /\ x.id \in Ids
    BY <1>2 DEF TableInv, Sound, Objects, Opened
  <1> HIDE DEF obj, entry
  <1>4. /\ root' = root /\ OpenInv' /\ TableInv' /\ Opened' = Opened /\ Roots' = Roots
        /\ db # NoId => db \in Ids /\ db.root = x.id.root
    <2>0. Roots' = Roots
      BY <1>1 DEF Roots, Opened
    <2>1. CASE x.obj.k = "DB"
      <3>1. tab' = [tab EXCEPT ![p] = tab[p]] /\ seq' = [seq EXCEPT ![p] = seq[p]]
            /\ root' = [root EXCEPT ![p] = root[p]]
        BY <1>1, <2>1 DEF Files, Server!Table
      <3>2. tab' = tab /\ seq' = seq /\ root' = root
        BY <3>1, RootSame DEF TableInv
      <3>3. OpenInv' /\ Opened' = Opened
        BY <1>1, <3>2, OpenSame
      <3>4. QED
        BY <1>1, <2>0, <2>1, <3>2, <3>3, TableSame
    <2>2. CASE x.obj.k # "DB"
      <3>1. Files(p, Listing(p, x.id)) /\ tab[p][x.id].tag = "HANDLE"
        BY <1>1, <1>2, <1>3, <2>2
      <3>2. db = Server(p)!FindPtr(Listing(p, x.id).tab, Db(tab[p][x.id].ptr.n), "DB")
        BY <2>2 DEF obj
      <3> HIDE DEF db
      <3>3. TableInv' /\ root' = [root EXCEPT ![p] = root[p]] /\ db \in Ids /\ db.root = x.id.root
        BY <1>1, <1>2, <2>0, <3>1, <3>2, DbFiledKeeps
      <3>4. root' = root
        BY <3>3, RootSame
      <3>5. QED
        BY <1>1, <2>0, <3>3, <3>4, OpenSame
    <2>3. QED
      BY <2>1, <2>2
  <1> HIDE DEF db, st
  <1>5. CASE Lost /\ bare' = FALSE /\ cache' = cache /\ held' = held
    <2>1. HeldInv' /\ CacheInv' /\ RegsInv'
      BY <1>1, <1>4, <1>5, HeldLater, CacheLater, RegsLater DEF Handles
    <2>2. CountInv'
      BY <1>1, <1>4, <1>5 DEF CountInv, Handles
    <2>3. ConnInv'
      BY <1>1, <1>5, CallConn
    <2>4. QED
      BY <1>4, <2>1, <2>2, <2>3
  <1>6. CASE /\ Arrives(p) /\ cache' = With(cache, Key(x), entry)
             /\ held' = IF db = NoId THEN held ELSE held \cup {Item(db, Db(x.obj.n))}
             /\ bare' = bare
    <2>1. HeldInv' /\ CountInv' /\ Handles(held)' = Handles(held) /\ held \subseteq held'
      <3>1. CASE db = NoId
        BY <1>1, <1>4, <1>6, <3>1, HeldLater DEF CountInv, Handles
      <3>2. CASE db # NoId
        BY <1>1, <1>4, <1>6, <3>2, LearnsDb
      <3>3. QED
        BY <3>1, <3>2
    <2>2. RegsInv'
      BY <1>1, <1>4, <2>1, RegsLater
    <2>3. Key(x).id = x.id /\ Key(x).getter = x.obj.k /\ Key(x) \in [id : Ids, getter : {"HANDLE", "DB"}]
      BY <1>3 DEF Key
    <2>4. entry.obj = obj /\ entry.db = db
      BY DEF entry
    <2>5. CacheInv'
      <3> DEFINE Filing(k) ==
            /\ k \in [id : Ids, getter : {"HANDLE", "DB"}]
            /\ cache'[k].obj \in Objects /\ cache'[k].obj.k = k.getter
            /\ cache'[k].obj.n \in Opened' /\ k.id.root = Roots'[cache'[k].obj.n]
            /\ cache'[k].db # NoId => cache'[k].db \in Ids /\ cache'[k].db.root = k.id.root
            /\ \E y \in held' \cup unreleased' : y.id.root = k.id.root
      <3> SUFFICES ASSUME NEW k \in DOMAIN cache'
                   PROVE  /\ k = Key(Null) => cache'[k].obj = NoObject /\ cache'[k].db = NoId
                          /\ k # Key(Null) => Filing(k)
        BY DEF CacheInv
      <3>1. CASE k = Key(x)
        <4>1. cache'[k] = entry
          BY <1>6, <3>1 DEF With
        <4>2. QED
          BY <1>3, <1>4, <2>1, <2>3, <2>4, <3>1, <4>1, NullFacts
      <3>2. CASE k # Key(x)
        <4>1. k \in DOMAIN cache /\ cache'[k] = cache[k]
          BY <1>6, <3>2 DEF With
        <4>2. QED
          BY <1>1, <1>4, <2>1, <4>1 DEF CacheInv
      <3>3. QED
        BY <3>1, <3>2
    <2>6. \A y \in held' : \E z \in held : z.obj.n = y.obj.n
      BY <1>6 DEF Item, Db
    <2>7. ConnInv'
      <3>1. held' # {}
        BY <2>1
      <3>2. QED
        BY <1>1, <1>6, <2>6, <3>1, CallConn
    <2>8. QED
      BY <1>4, <2>1, <2>2, <2>5, <2>7
  <1>7. QED
    BY <1>1, <1>5, <1>6

\* A result is found in the cache: the server has no part in it.
LEMMA ReadCachedKeeps ==
  ASSUME IInv, NEW x \in held, ReadCached(x)
  PROVE  IInv'
  <1> DEFINE db == cache[Key(x)].db
  <1> USE DEF IInv
  <1>1. /\ Key(x) \in DOMAIN cache
        /\ held' = IF db = NoId THEN held ELSE held \cup {Item(db, Db(x.obj.n))}
        /\ UNCHANGED <<server, conn, refs, cache, regs, ghosts>>
    BY Zenon DEF ReadCached
  <1>2. db # NoId => db \in Ids /\ db.root = x.id.root
    <2>1. Key(x).id = x.id /\ x.id \in Ids
      BY DEF Key, HeldInv
    <2>2. QED
      BY <1>1, <2>1, NullFacts DEF CacheInv
  <1> HIDE DEF db
  <1>3. OpenInv' /\ Opened' = Opened /\ Roots' = Roots
    BY <1>1, OpenSame DEF server, ghosts
  <1>4. HeldInv' /\ CountInv' /\ Handles(held)' = Handles(held) /\ held \subseteq held'
    <2>1. CASE db = NoId
      BY <1>1, <1>3, <2>1, HeldLater DEF CountInv, Handles, ghosts
    <2>2. CASE db # NoId
      BY <1>1, <1>2, <1>3, <2>2, LearnsDb DEF ghosts
    <2>3. QED
      BY <2>1, <2>2
  <1>5. TableInv'
    BY <1>1, <1>3, TableSame DEF server, ghosts
  <1>6. CacheInv' /\ RegsInv'
    BY <1>1, <1>3, <1>4, CacheLater, RegsLater DEF ghosts
  <1>7. \A y \in held' : \E z \in held : z.obj.n = y.obj.n
    BY <1>1 DEF Item, Db
  <1>8. ConnInv'
    BY <1>1, <1>4, <1>7 DEF ConnInv, server, ghosts
  <1>9. QED
    BY <1>3, <1>4, <1>5, <1>6, <1>8

\* The server does not know the id.
LEMMA ReadMissesKeeps ==
  ASSUME IInv, NEW p \in Procs, NEW x \in held, ReadMisses(x, p)
  PROVE  IInv'
  <1> USE DEF IInv
  <1>1. /\ Reaches(p) /\ Takes(p) /\ Arrives(p) /\ UNCHANGED bare
        /\ UNCHANGED <<tab, seq, root, cbs, refs, cache, regs, held, unreleased, origin>>
        /\ UNCHANGED <<nulls, spent>>
    BY DEF ReadMisses
  <1>2. ConnInv'
    BY <1>1, CallConn
  <1>3. QED
    BY <1>1, <1>2, AllButConn

\* A function is noted for a handle the caller has.
LEMMA NotesCallback ==
  ASSUME HeldInv, RegsInv, NEW x \in held, x.obj.k = "HANDLE",
         regs' = With(regs, x.id, x.obj), UNCHANGED <<held, unreleased, origin>>, Roots' = Roots
  PROVE  RegsInv'
  <1>1. /\ x.id \in Ids /\ x.obj \in Objects /\ x.obj.n \in Opened /\ x.id.root = Roots[x.obj.n]
        /\ x \in Handles(held)
    BY DEF HeldInv, Handles
  <1>2. /\ DOMAIN regs' = DOMAIN regs \cup {x.id} /\ regs'[x.id] = x.obj
        /\ \A i \in DOMAIN regs \ {x.id} : regs'[i] = regs[i]
    BY DEF With
  <1>3. Opened' = Opened /\ Handles(held)' = Handles(held)
    BY DEF Opened, Handles
  <1>4. QED
    BY <1>1, <1>2, <1>3, NoIdFacts DEF RegsInv

\* A function is noted for the NULL handle.
LEMMA NotesNull ==
  ASSUME RegsInv, regs' = With(regs, NoId, Null.obj), UNCHANGED <<held, unreleased, origin>>,
         Roots' = Roots
  PROVE  RegsInv'
  <1>1. /\ DOMAIN regs' = DOMAIN regs \cup {NoId} /\ regs'[NoId] = Null.obj
        /\ \A i \in DOMAIN regs \ {NoId} : regs'[i] = regs[i]
    BY DEF With
  <1>2. Opened' = Opened /\ Handles(held)' = Handles(held)
    BY DEF Opened, Handles
  <1>3. QED
    BY <1>1, <1>2 DEF RegsInv

\* arpc_cb_register.
LEMMA SetCallbackKeeps ==
  ASSUME IInv, NEW p \in Procs, NEW x \in held, SetCallback(x, p)
  PROVE  IInv'
  <1> USE DEF IInv
  <1>1. /\ x.obj.k = "HANDLE" /\ Reaches(p) /\ Takes(p) /\ regs' = With(regs, x.id, x.obj)
        /\ cbs' = [cbs EXCEPT ![p] = CbsAfter(p, x)]
        /\ (Arrives(p) /\ UNCHANGED bare) \/ (Lost /\ bare' = FALSE)
        /\ UNCHANGED <<tab, seq, root, refs, cache, held, unreleased, origin, nulls, spent>>
    BY DEF SetCallback
  <1>2. OpenInv' /\ Opened' = Opened /\ Roots' = Roots
    BY <1>1, OpenSame
  <1>3. TableInv'
    <2> DEFINE c == CbsAfter(p, x)
    <2>1. \A i \in c : i \in cbs[p] \/ (i \in DOMAIN tab[p] /\ tab[p][i].tag = "HANDLE")
      BY <1>1 DEF CbsAfter, Named, Server!Resolves
    <2> HIDE DEF c
    <2>2. cbs' = [cbs EXCEPT ![p] = c]
      BY <1>1 DEF c
    <2>3. TableInv /\ p \in Procs /\ UNCHANGED <<tab, seq, origin>> /\ Roots' = Roots
      BY <1>1, <1>2
    <2>4. QED
      BY ONLY <2>1, <2>2, <2>3, CbSetKeeps
  <1>4. HeldInv' /\ CacheInv' /\ RegsInv'
    BY <1>1, <1>2, HeldLater, CacheLater, NotesCallback
  <1>5. CountInv'
    BY <1>1, <1>2 DEF CountInv, Handles
  <1>6. ConnInv'
    BY <1>1, CallConn
  <1>7. QED
    BY <1>2, <1>3, <1>4, <1>5, <1>6

\* alpm_release.
LEMMA ReleaseKeeps ==
  ASSUME IInv, NEW p \in Procs, NEW x \in held, Release(x, p)
  PROVE  IInv'
  <1> DEFINE mine == {y \in held : y.obj.n = x.obj.n}
  <1> USE DEF IInv
  <1>1. /\ x.obj.k = "HANDLE" /\ Reaches(p) /\ Takes(p) /\ Named(p, x)
        /\ tab' = [tab EXCEPT ![p] = Server(p)!Without(tab[p], Server(p)!Below(tab[p], x.id))]
        /\ cbs' = [cbs EXCEPT ![p] = cbs[p] \ {x.id}]
        /\ held' = held \ mine
        /\ \/ /\ PurgeRoot(x.id) /\ refs' = refs - 1
              /\ conn' = IF refs - 1 <= 0 THEN NoProc ELSE p
              /\ bare' = (bare /\ ~(refs - 1 <= 0))
              /\ unreleased' = unreleased /\ failures' = failures
           \/ /\ Lost /\ bare' = FALSE /\ unreleased' = unreleased \cup Handles(mine)
              /\ refs' = refs /\ cache' = cache /\ regs' = regs
        /\ seq' = seq /\ root' = root /\ origin' = origin /\ nulls' = nulls /\ spent' = spent
    BY DEF Release, Unref, Drops
  <1> HIDE DEF mine
  <1>2. OpenInv' /\ Opened' = Opened /\ Roots' = Roots
    BY <1>1, OpenSame
  <1>3. TableInv'
    <2>1. x.id \in DOMAIN tab[p] /\ tab[p][x.id].tag = "HANDLE"
      BY <1>1 DEF Named, Server!Resolves
    <2>2. QED
      BY <1>1, <1>2, <2>1, ReleaseDrops
  <1>4. \A y \in held' : y \in held /\ y.obj.n # x.obj.n
    BY <1>1 DEF mine
  <1>5. mine = {y \in held : y.obj.n = x.obj.n}
    BY DEF mine
  <1>6. CASE /\ Lost /\ bare' = FALSE /\ unreleased' = unreleased \cup Handles(mine)
             /\ refs' = refs /\ cache' = cache /\ regs' = regs
    <2>1. HeldInv' /\ CountInv' /\ CacheInv' /\ RegsInv'
      BY <1>1, <1>2, <1>5, <1>6, GivesUp
    <2>2. ConnInv'
      <3>1. x \in unreleased'
        BY <1>1, <1>5, <1>6 DEF Handles
      <3>2. QED
        BY <1>1, <1>4, <1>6, <3>1, CallConn
    <2>3. QED
      BY <1>2, <1>3, <2>1, <2>2
  <1>7. CASE /\ PurgeRoot(x.id) /\ refs' = refs - 1
             /\ conn' = IF refs - 1 <= 0 THEN NoProc ELSE p
             /\ bare' = (bare /\ ~(refs - 1 <= 0))
             /\ unreleased' = unreleased /\ failures' = failures
    <2>1. HeldInv' /\ CountInv' /\ CacheInv' /\ RegsInv'
      BY <1>1, <1>2, <1>5, <1>7, Releases
    <2>2. ended' = ended /\ serves' \in [Procs -> {"us", "other", "nobody"}] /\ p \notin ended
      BY <1>1 DEF Takes, ConnInv, Reaches
    <2>3. refs \in Int /\ Cardinality(unreleased) \in Nat /\ spent \in Nat
      BY FS_CardinalityType DEF CountInv
    <2>4. failures = 0 /\ spent = 0 => \A y \in held' : origin'[y.obj.n] = conn'
      <3> SUFFICES ASSUME failures = 0, spent = 0, NEW y \in held' PROVE origin[y.obj.n] = conn'
        BY <1>1
      <3>1. refs' \in Nat /\ refs' # 0
        <4>1. \E z \in Handles(held)' : z.obj.n = y.obj.n
          BY <2>1 DEF HeldInv
        <4>2. Handles(held)' # {}
          BY <4>1
        <4>3. /\ Cardinality(Handles(held)') \in Nat /\ Cardinality(Handles(held)') # 0
              /\ Cardinality(unreleased') \in Nat
          BY <2>1, <4>2, FS_CardinalityType, FS_EmptySet DEF CountInv
        <4>4. refs' = Cardinality(Handles(held)') + Cardinality(unreleased') - spent' /\ spent' = 0
          BY <1>1, <2>1 DEF CountInv
        <4>5. QED
          BY <4>3, <4>4
      <3>2. conn' = p
        BY <1>7, <2>3, <3>1
      <3>3. origin[y.obj.n] = conn /\ conn \in Procs
        BY <1>4 DEF HeldInv, ConnInv, OpenInv
      <3>4. QED
        BY <3>2, <3>3, <1>1, SessionAssumption DEF Reaches
    <2>5. held' = {} /\ unreleased' = {} => conn' = NoProc
      <3> SUFFICES ASSUME held' = {}, unreleased' = {} PROVE conn' = NoProc
        OBVIOUS
      <3>1. Cardinality(Handles(held)') = 0 /\ Cardinality(unreleased') = 0
        <4>1. Handles(held)' = {}
          BY DEF Handles
        <4>2. QED
          BY <4>1, FS_EmptySet
      <3>2. refs' = 0 - spent'
        BY <2>1, <2>3, <3>1, <1>1 DEF CountInv
      <3>3. QED
        BY <1>1, <1>7, <2>3, <3>2
    <2>6. bare' \in BOOLEAN /\ conn' \in Procs \cup {NoProc}
      BY <1>7
    <2>7. /\ failures' = failures /\ failures \in 0 .. MaxUpsets /\ ended \subseteq Procs
          /\ nulls' \in 0 .. MaxUpsets /\ spent' \in 0 .. nulls' /\ spent' = spent
      BY <1>1, <1>7 DEF ConnInv
    <2>8. conn' \notin ended
      BY <1>7, <2>2, <2>7, SessionAssumption
    <2>9. ConnInv'
      BY <2>2, <2>4, <2>5, <2>6, <2>7, <2>8, Zenon DEF ConnInv
    <2>10. QED
      BY <1>2, <1>3, <2>1, <2>9
  <1>8. QED
    BY <1>1, <1>6, <1>7

\* alpm_release of a handle that the process does not know.
LEMMA ReleaseMissesKeeps ==
  ASSUME IInv, NEW p \in Procs, NEW x \in held, ReleaseMisses(x, p)
  PROVE  IInv'
  <1> DEFINE mine == {y \in held : y.obj.n = x.obj.n}
  <1> USE DEF IInv
  <1>1. /\ x.obj.k = "HANDLE" /\ Reaches(p) /\ Takes(p) /\ Arrives(p) /\ bare' = bare
        /\ held' = held \ mine /\ unreleased' = unreleased \cup Handles(mine)
        /\ UNCHANGED <<tab, seq, root, cbs, refs, cache, regs, origin, nulls, spent>>
    BY DEF ReleaseMisses
  <1>2. \A y \in held' : y \in held
    BY <1>1
  <1>3. mine = {y \in held : y.obj.n = x.obj.n}
    OBVIOUS
  <1> HIDE DEF mine
  <1>4. OpenInv' /\ Opened' = Opened /\ Roots' = Roots
    BY <1>1, OpenSame
  <1>5. TableInv'
    BY <1>1, <1>4, TableSame
  <1>6. HeldInv' /\ CountInv' /\ CacheInv' /\ RegsInv'
    BY <1>1, <1>3, <1>4, GivesUp
  <1>7. ConnInv'
    <2>1. x \in unreleased'
      BY <1>1, <1>3 DEF Handles
    <2>2. QED
      BY <1>1, <1>2, <2>1, CallConn
  <1>8. QED
    BY <1>4, <1>5, <1>6, <1>7

\* A call on a pipe whose process has gone.
LEMMA FindsBrokenKeeps ==
  ASSUME IInv, FindsBroken
  PROVE  IInv'
  <1> USE DEF IInv
  <1>1. /\ conn \in ended /\ conn' = NoProc /\ bare' = FALSE
        /\ \/ regs' = regs
           \/ \E x \in Handles(held) : regs' = With(regs, x.id, x.obj)
           \/ regs' = With(regs, NoId, Null.obj)
        /\ nulls' = nulls \/ (Upsets < MaxUpsets /\ nulls' = nulls + 1)
        /\ UNCHANGED <<server, refs, cache, held, unreleased, origin, failures, spent>>
    BY DEF FindsBroken
  <1>2. OpenInv' /\ Opened' = Opened /\ Roots' = Roots
    BY <1>1, OpenSame DEF server
  <1>3. TableInv'
    BY <1>1, <1>2, TableSame DEF server
  <1>4. HeldInv' /\ CacheInv'
    BY <1>1, <1>2, HeldLater, CacheLater
  <1>5. RegsInv'
    <2>1. CASE regs' = regs
      BY <2>1, <1>1, <1>2, RegsLater DEF Handles
    <2>2. ASSUME NEW x \in Handles(held), regs' = With(regs, x.id, x.obj)
          PROVE  RegsInv'
      <3>1. x \in held /\ x.obj.k = "HANDLE"
        BY DEF Handles
      <3>2. QED
        BY <2>2, <3>1, <1>1, <1>2, NotesCallback
    <2>3. CASE regs' = With(regs, NoId, Null.obj)
      BY <2>3, <1>1, <1>2, NotesNull
    <2>4. QED
      BY <1>1, <2>1, <2>2, <2>3
  <1>6. CountInv'
    BY <1>1, <1>2 DEF CountInv, Handles
  <1>7. failures # 0 /\ nulls' \in 0 .. MaxUpsets /\ spent' \in 0 .. nulls'
    BY <1>1, SessionAssumption DEF ConnInv, Upsets
  <1>8. ConnInv'
    BY <1>1, <1>7 DEF ConnInv, server
  <1>9. QED
    BY <1>2, <1>3, <1>4, <1>5, <1>6, <1>8

\* serve_connection ends, and the table stays.
LEMMA ClientGoneKeeps ==
  ASSUME IInv, NEW p \in Procs, ClientGone(p)
  PROVE  IInv'
  <1> USE DEF IInv
  <1>1. /\ serves' = [serves EXCEPT ![p] = "nobody"]
        /\ tab' = [tab EXCEPT ![p] = tab[p]] /\ seq' = [seq EXCEPT ![p] = seq[p]]
        /\ root' = [root EXCEPT ![p] = root[p]]
        /\ UNCHANGED <<ended, cbs, client, ghosts>>
    BY DEF ClientGone, Files, AfterClient, Server!Table
  <1>2. tab' = tab /\ seq' = seq /\ root' = root
    BY <1>1, RootSame DEF TableInv
  <1>3. OpenInv' /\ TableInv' /\ HeldInv' /\ CountInv' /\ CacheInv' /\ RegsInv'
    BY <1>1, <1>2, AllButConn DEF client, ghosts
  <1>4. ConnInv'
    BY <1>1 DEF ConnInv, client, ghosts
  <1>5. QED
    BY <1>3, <1>4

\* Another client gets the process.
LEMMA OtherConnectsKeeps ==
  ASSUME IInv, NEW p \in Procs, OtherConnects(p)
  PROVE  IInv'
  <1> USE DEF IInv
  <1>1. /\ serves' = [serves EXCEPT ![p] = "other"]
        /\ UNCHANGED <<ended, tab, seq, root, cbs, client, ghosts>>
    BY DEF OtherConnects
  <1>2. OpenInv' /\ TableInv' /\ HeldInv' /\ CountInv' /\ CacheInv' /\ RegsInv'
    BY <1>1, AllButConn DEF client, ghosts
  <1>3. ConnInv'
    BY <1>1 DEF ConnInv, client, ghosts
  <1>4. QED
    BY <1>2, <1>3

\* Another client opens a handle.
LEMMA OtherOpensKeeps ==
  ASSUME IInv, NEW p \in Procs, OtherOpens(p)
  PROVE  IInv'
  <1> USE DEF IInv
  <1>1. /\ Opens(p)
        /\ UNCHANGED <<ended, serves, cbs, conn, refs, cache, regs, held, unreleased, bare, failures>>
        /\ UNCHANGED <<nulls, spent>>
    BY DEF OtherOpens, client
  <1>2. /\ OpenInv' /\ TableInv' /\ Opened \subseteq Opened'
        /\ \A m \in Opened : origin'[m] = origin[m] /\ Roots'[m] = Roots[m]
    BY <1>1, OpensKeeps
  <1>3. HeldInv' /\ CacheInv' /\ RegsInv'
    BY <1>1, <1>2, HeldLater, CacheLater, RegsLater DEF Handles
  <1>4. CountInv'
    BY <1>1 DEF CountInv, Handles
  <1>5. ConnInv'
    BY <1>1, <1>2 DEF ConnInv, HeldInv
  <1>6. QED
    BY <1>2, <1>3, <1>4, <1>5

\* A process ends.
LEMMA EndKeeps ==
  ASSUME IInv, NEW p \in Procs, End(p)
  PROVE  IInv'
  <1> USE DEF IInv
  <1>1. /\ IF p = conn THEN Upsets < MaxUpsets /\ failures' = failures + 1
           ELSE UNCHANGED failures
        /\ ended' = ended \cup {p} /\ serves' = [serves EXCEPT ![p] = "nobody"]
        /\ tab' = [tab EXCEPT ![p] = Less(tab[p], DOMAIN tab[p])]
        /\ UNCHANGED <<seq, root, cbs, conn, refs, cache, regs, held, unreleased, origin, bare>>
        /\ UNCHANGED <<nulls, spent>>
    BY DEF End, client
  <1>2. OpenInv' /\ Opened' = Opened /\ Roots' = Roots
    BY <1>1, OpenSame
  <1>3. TableInv'
    BY <1>1, <1>2, EndDrops
  <1>4. HeldInv' /\ CacheInv' /\ RegsInv'
    BY <1>1, <1>2, HeldLater, CacheLater, RegsLater DEF Handles
  <1>5. CountInv'
    BY <1>1, <1>2 DEF CountInv, Handles
  <1>6. failures' \in 0 .. MaxUpsets /\ (failures' = 0 => failures = 0 /\ p # conn)
    BY <1>1, SessionAssumption DEF ConnInv, Upsets
  <1>7. ConnInv'
    BY <1>1, <1>6 DEF ConnInv
  <1>8. QED
    BY <1>2, <1>3, <1>4, <1>5, <1>7

\* What a call given the NULL handle does to the connection.
LEMMA NullConn ==
  ASSUME OpenInv, HeldInv, ConnInv, NEW p \in Procs, NullCall(p),
         \/ Arrives(p) /\ bare' = TRUE /\ spent' = spent
         \/ Lost /\ bare' = FALSE /\ spent' = spent
         \/ /\ spent' = spent + 1 /\ failures' = failures
            /\ conn' \in {p, NoProc} /\ bare' \in BOOLEAN
            /\ held = {} /\ unreleased = {} => conn' = NoProc
  PROVE  ConnInv'
  <1>1. /\ p \notin ended /\ (p = conn \/ conn = NoProc) /\ ended' = ended
        /\ serves' \in [Procs -> {"us", "other", "nobody"}]
        /\ UNCHANGED <<held, unreleased, origin>>
    BY DEF NullCall, Reaches, Takes, ConnInv
  <1>2. nulls' \in 0 .. MaxUpsets /\ spent \in 0 .. nulls' /\ spent + 1 \in 0 .. nulls'
    BY SessionAssumption DEF NullCall, Upsets, ConnInv
  <1>3. CASE Arrives(p) /\ bare' = TRUE /\ spent' = spent
    <2>1. conn' = p /\ failures' = failures /\ bare' = TRUE /\ spent' = spent
      BY <1>3 DEF Arrives
    <2>2. ASSUME failures = 0, spent = 0, NEW x \in held PROVE origin[x.obj.n] = p
      <3>1. origin[x.obj.n] = conn /\ origin[x.obj.n] \in Procs
        BY <2>2 DEF HeldInv, OpenInv, ConnInv
      <3>2. QED
        BY <3>1, <1>1, SessionAssumption
    <2>3. QED
      BY <1>1, <1>2, <2>1, <2>2 DEF ConnInv
  <1>4. CASE Lost /\ bare' = FALSE /\ spent' = spent
    <2>1. failures' \in 0 .. MaxUpsets /\ failures' # 0 /\ conn' = NoProc
      BY <1>4, SessionAssumption DEF Lost, Upsets, ConnInv
    <2>2. QED
      BY <1>1, <1>2, <1>4, <2>1, Zenon DEF ConnInv
  <1>5. CASE /\ spent' = spent + 1 /\ failures' = failures
             /\ conn' \in {p, NoProc} /\ bare' \in BOOLEAN
             /\ held = {} /\ unreleased = {} => conn' = NoProc
    <2>1. spent' # 0 /\ spent' \in 0 .. nulls'
      BY <1>2, <1>5
    <2>2. conn' \notin ended /\ conn' \in Procs \cup {NoProc} /\ failures' \in 0 .. MaxUpsets
      BY <1>1, <1>5, SessionAssumption DEF ConnInv
    <2>3. held' = {} /\ unreleased' = {} => conn' = NoProc
      BY <1>1, <1>5
    <2>4. QED
      BY <1>1, <1>2, <1>5, <2>1, <2>2, <2>3, Zenon DEF ConnInv
  <1>6. QED
    BY <1>3, <1>4, <1>5

\* A result of the NULL handle is asked for.
LEMMA ReadNullKeeps ==
  ASSUME IInv, NEW p \in Procs, ReadNull(p)
  PROVE  IInv'
  <1> DEFINE none == [obj |-> NoObject, db |-> NoId]
  <1> USE DEF IInv
  <1>1. /\ NullCall(p)
        /\ \/ Arrives(p) /\ bare' = TRUE /\ cache' = With(cache, Key(Null), none)
           \/ Lost /\ bare' = FALSE /\ cache' = cache
        /\ UNCHANGED <<cbs, refs, regs, spent>>
    BY DEF ReadNull
  <1>2. UNCHANGED <<tab, seq, root, held, unreleased, origin>>
    BY <1>1 DEF NullCall
  <1>3. OpenInv' /\ Opened' = Opened /\ Roots' = Roots
    BY <1>2, OpenSame
  <1>4. TableInv' /\ HeldInv' /\ RegsInv'
    BY <1>1, <1>2, <1>3, TableSame, HeldLater, RegsLater DEF Handles
  <1>5. CountInv'
    BY <1>1, <1>2 DEF CountInv, Handles
  <1>6. CacheInv'
    <2>1. CASE cache' = cache
      BY <2>1, <1>2, <1>3, CacheLater
    <2>2. CASE cache' = With(cache, Key(Null), none)
      <3>1. /\ DOMAIN cache' = DOMAIN cache \cup {Key(Null)} /\ cache'[Key(Null)] = none
            /\ \A k \in DOMAIN cache \ {Key(Null)} : cache'[k] = cache[k]
        BY <2>2 DEF With
      <3>2. none.obj = NoObject /\ none.db = NoId
        OBVIOUS
      <3> HIDE DEF none
      <3>3. QED
        BY <1>2, <1>3, <3>1, <3>2 DEF CacheInv
    <2>3. QED
      BY <1>1, <2>1, <2>2
  <1>7. ConnInv'
    BY <1>1, NullConn
  <1>8. QED
    BY <1>3, <1>4, <1>5, <1>6, <1>7

\* A callback is registered for the NULL handle.
LEMMA SetCallbackNullKeeps ==
  ASSUME IInv, NEW p \in Procs, SetCallbackNull(p)
  PROVE  IInv'
  <1> DEFINE c == cbs[p] \cup {NoId}
  <1> USE DEF IInv
  <1>1. /\ NullCall(p) /\ regs' = With(regs, NoId, Null.obj)
        /\ cbs' = [cbs EXCEPT ![p] = c]
        /\ (Arrives(p) /\ bare' = TRUE) \/ (Lost /\ bare' = FALSE)
        /\ UNCHANGED <<refs, cache, spent>>
    BY DEF SetCallbackNull
  <1>2. UNCHANGED <<tab, seq, root, held, unreleased, origin>>
    BY <1>1 DEF NullCall
  <1>3. OpenInv' /\ Opened' = Opened /\ Roots' = Roots
    BY <1>2, OpenSame
  <1>4. HeldInv' /\ CacheInv' /\ RegsInv'
    BY <1>1, <1>2, <1>3, HeldLater, CacheLater, NotesNull
  <1>5. CountInv'
    BY <1>1, <1>2 DEF CountInv, Handles
  <1>6. TableInv'
    <2>1. \A i \in c : i \in cbs[p] \/ i = NoId
      OBVIOUS
    <2> HIDE DEF c
    <2>2. cbs' = [cbs EXCEPT ![p] = c]
      BY <1>1
    <2>3. TableInv /\ p \in Procs /\ UNCHANGED <<tab, seq, origin>> /\ Roots' = Roots
      BY <1>2, <1>3
    <2>4. QED
      BY ONLY <2>1, <2>2, <2>3, CbSetKeeps
  <1>7. ConnInv'
    BY <1>1, NullConn
  <1>8. QED
    BY <1>3, <1>4, <1>5, <1>6, <1>7

\* alpm_release(NULL): a reference goes, and with the last one the connection.
LEMMA ReleaseNullKeeps ==
  ASSUME IInv, NEW p \in Procs, ReleaseNull(p)
  PROVE  IInv'
  <1> USE DEF IInv
  <1>1. /\ NullCall(p) /\ cbs' = cbs
        /\ \/ /\ PurgeRoot(NoId) /\ refs' = refs - 1 /\ spent' = spent + 1
              /\ conn' = IF refs - 1 <= 0 THEN NoProc ELSE p
              /\ bare' = (bare /\ ~(refs - 1 <= 0)) /\ failures' = failures
           \/ /\ Lost /\ bare' = FALSE
              /\ refs' = refs /\ cache' = cache /\ regs' = regs /\ spent' = spent
    BY DEF ReleaseNull, Unref, Drops
  <1>2. UNCHANGED <<tab, seq, root, held, unreleased, origin>>
    BY <1>1 DEF NullCall
  <1>3. OpenInv' /\ Opened' = Opened /\ Roots' = Roots
    BY <1>2, OpenSame
  <1>4. TableInv' /\ HeldInv'
    BY <1>1, <1>2, <1>3, TableSame, HeldLater
  <1>5. /\ IsFiniteSet(Handles(held)) /\ IsFiniteSet(unreleased) /\ spent \in Nat
        /\ Cardinality(Handles(held)) \in Nat /\ Cardinality(unreleased) \in Nat
        /\ refs = Cardinality(Handles(held)) + Cardinality(unreleased) - spent
        /\ Handles(held)' = Handles(held)
    BY <1>2, FS_CardinalityType DEF CountInv, Handles
  <1>6. CASE Lost /\ bare' = FALSE /\ refs' = refs /\ cache' = cache /\ regs' = regs /\ spent' = spent
    <2>1. CountInv' /\ CacheInv' /\ RegsInv'
      BY <1>2, <1>3, <1>5, <1>6, CacheLater, RegsLater DEF CountInv
    <2>2. ConnInv'
      BY <1>1, <1>6, NullConn
    <2>3. QED
      BY <1>3, <1>4, <2>1, <2>2
  <1>7. CASE /\ PurgeRoot(NoId) /\ refs' = refs - 1 /\ spent' = spent + 1
             /\ conn' = IF refs - 1 <= 0 THEN NoProc ELSE p
             /\ bare' = (bare /\ ~(refs - 1 <= 0)) /\ failures' = failures
    <2>1. CountInv'
      <3>1. refs' = Cardinality(Handles(held)) + Cardinality(unreleased) - spent' /\ spent' \in Nat
        BY <1>5, <1>7
      <3>2. QED
        BY <1>2, <1>5, <3>1 DEF CountInv
    <2>2. CacheInv'
      <3>1. DOMAIN cache' \subseteq DOMAIN cache /\ \A k \in DOMAIN cache' : cache'[k] = cache[k]
        BY <1>7 DEF PurgeRoot, Less
      <3>2. QED
        BY <1>2, <1>3, <3>1 DEF CacheInv
    <2>3. RegsInv'
      <3>1. DOMAIN regs' \subseteq DOMAIN regs /\ \A i \in DOMAIN regs' : regs'[i] = regs[i]
        BY <1>7 DEF PurgeRoot, Less
      <3>2. QED
        BY <1>2, <1>3, <1>5, <3>1 DEF RegsInv
    <2>4. held = {} /\ unreleased = {} => conn' = NoProc
      <3> SUFFICES ASSUME held = {}, unreleased = {} PROVE conn' = NoProc
        OBVIOUS
      <3>1. Handles(held) = {}
        BY DEF Handles
      <3>2. Cardinality(Handles(held)) = 0 /\ Cardinality(unreleased) = 0
        BY <3>1, FS_EmptySet
      <3>3. refs - 1 <= 0
        BY <1>5, <3>2
      <3>4. QED
        BY <1>7, <3>3
    <2>5. conn' \in {p, NoProc} /\ bare' \in BOOLEAN
      BY <1>7
    <2>6. ConnInv'
      BY <1>1, <1>7, <2>4, <2>5, NullConn
    <2>7. QED
      BY <1>3, <1>4, <2>1, <2>2, <2>3, <2>6
  <1>8. QED
    BY <1>1, <1>6, <1>7

-----------------------------------------------------------------------------
(* The invariant holds.                                                    *)

\* Nothing is open, filed or held at the start.
LEMMA InitIInv == Init => IInv
  <1> SUFFICES ASSUME Init PROVE IInv
    OBVIOUS
  <1>1. Opened = {} /\ Opened = 1 .. 0 /\ Cardinality({}) = 0 /\ IsFiniteSet({})
    BY FS_EmptySet DEF Init, Opened
  <1>2. Issued = [p \in Procs |-> 0]
    <2>1. \A p \in Procs : {m \in Opened : origin[m] = p} = {}
      BY <1>1
    <2>2. QED
      BY <1>1, <2>1 DEF Issued
  <1>3. OpenInv
    <2>1. root = [p \in Procs |-> Issued[p] + 1]
      BY <1>2 DEF Init
    <2>2. QED
      BY <1>1, <2>1, SessionAssumption DEF OpenInv
  <1>4. TableInv
    <2>1. \A p \in Procs : tab[p] = [i \in {} |-> NoId] /\ seq[p] = 1 /\ cbs[p] = {}
      BY DEF Init
    <2>2. \A p \in Procs : Sound(p, tab[p], seq[p], origin, Roots)
      BY <2>1, SessionAssumption DEF Sound
    <2>3. /\ tab = [p \in Procs |-> tab[p]] /\ seq \in [Procs -> Nat]
          /\ cbs \in [Procs -> SUBSET (Ids \cup {NoId})]
      BY DEF Init
    <2>4. QED
      BY <2>1, <2>2, <2>3 DEF TableInv, Called
  <1>5. held = {} /\ unreleased = {} /\ Handles(held) = {} /\ refs = 0 /\ spent = 0
    BY DEF Init, Handles
  <1>6. HeldInv
    BY <1>5 DEF HeldInv
  <1>7. CountInv
    BY <1>1, <1>5 DEF CountInv
  <1>8. CacheInv /\ RegsInv
    BY DEF Init, CacheInv, RegsInv
  <1>9. ConnInv
    <2>1. failures \in 0 .. MaxUpsets /\ nulls \in 0 .. MaxUpsets /\ spent \in 0 .. nulls
      BY SessionAssumption DEF Init
    <2>2. ended \subseteq Procs /\ serves \in [Procs -> {"us", "other", "nobody"}]
      BY DEF Init
    <2>3. bare \in BOOLEAN
      BY Zenon DEF Init
    <2>4. conn \notin ended /\ conn = NoProc /\ held = {}
      BY DEF Init
    <2>5. QED
      BY <2>1, <2>2, <2>3, <2>4 DEF ConnInv
  <1>10. QED
    BY <1>3, <1>4, <1>6, <1>7, <1>8, <1>9 DEF IInv

\* Every step keeps the invariant.
LEMMA NextIInv == IInv /\ [Next]_vars => IInv'
  <1> SUFFICES ASSUME IInv, [Next]_vars PROVE IInv'
    OBVIOUS
  <1>1. ASSUME UNCHANGED <<server, client, ghosts>> PROVE IInv'
    <2>1. OpenInv' /\ TableInv' /\ HeldInv' /\ CountInv' /\ CacheInv' /\ RegsInv'
      BY <1>1, AllButConn DEF server, client, ghosts
    <2>2. ConnInv'
      BY <1>1 DEF IInv, ConnInv, server, client, ghosts
    <2>3. QED
      BY <2>1, <2>2 DEF IInv
  <1>2. ASSUME NEW p \in Procs,
               \/ Initialize(p) \/ InitializeRefused(p)
               \/ ReadNull(p) \/ SetCallbackNull(p) \/ ReleaseNull(p)
               \/ ClientGone(p) \/ OtherConnects(p) \/ OtherOpens(p) \/ End(p)
        PROVE  IInv'
    BY <1>2, InitializeKeeps, RefusedKeeps, ReadNullKeeps, SetCallbackNullKeeps,
       ReleaseNullKeeps, ClientGoneKeeps, OtherConnectsKeeps, OtherOpensKeeps, EndKeeps
  <1>3. ASSUME NEW p \in Procs, NEW x \in held,
               \/ Read(x, p) \/ ReadMisses(x, p) \/ SetCallback(x, p)
               \/ Release(x, p) \/ ReleaseMisses(x, p)
        PROVE  IInv'
    BY <1>3, ReadKeeps, ReadMissesKeeps, SetCallbackKeeps, ReleaseKeeps, ReleaseMissesKeeps
  <1>4. ASSUME NEW p \in Procs, NEW id \in cbs[p], Dispatch(p, id)
        PROVE  IInv'
    BY <1>4, <1>1 DEF Dispatch
  <1>5. ASSUME NEW x \in held \cup {Null}, ReadCached(x) \/ GetCallback(x)
        PROVE  IInv'
    <2>1. CASE GetCallback(x)
      BY <2>1, <1>1 DEF GetCallback
    <2>2. CASE ReadCached(x) /\ x \in held
      BY <2>2, ReadCachedKeeps
    <2>3. CASE ReadCached(x) /\ x = Null
      <3>1. UNCHANGED <<server, conn, refs, cache, regs, ghosts>> /\ held' = held
        BY <2>3 DEF ReadCached, IInv, CacheInv
      <3>2. QED
        BY <3>1, <1>1 DEF client
    <2>4. QED
      BY <1>5, <2>1, <2>2, <2>3
  <1>6. CASE FindsBroken
    BY <1>6, FindsBrokenKeeps
  <1>7. CASE UNCHANGED vars
    BY <1>7, <1>1 DEF vars
  <1>8. QED
    BY <1>2, <1>3, <1>4, <1>5, <1>6, <1>7 DEF Next

\* The inductive invariant holds of every client over any server processes.
THEOREM SessionInvariant == Spec => []IInv
  <1>1. QED
    BY InitIInv, NextIInv, PTL DEF Spec

\* g_conn_refs counts the handles the caller has and those whose release failed, less
\* the releases of NULL, what is cached or registered is kept for one of them or for
\* NULL, and no server is held without one unless no handle came of the connection:
\* over any processes, lost replies, processes that die and calls given NULL.
THEOREM SessionKeptForHandles == Spec => []KeptForHandles
  <1>1. ASSUME IInv PROVE TypeOK
    <2> USE <1>1 DEF IInv
    <2>1. \A p \in Procs : /\ DOMAIN tab[p] \subseteq Ids /\ cbs[p] \subseteq Ids \cup {NoId}
                           /\ seq[p] \in 1 .. MaxSeq + 1
      BY DEF TableInv, Sound
    <2>2. \A p \in Procs : root[p] \in 1 .. MaxOpen + 1
      BY RootsFacts
    <2>3. \A n \in Opened : n \in 1 .. MaxOpen /\ origin[n] \in Procs
      BY RootsFacts DEF OpenInv
    <2>4. refs \in Int
      BY FS_CardinalityType DEF CountInv
    <2>5. /\ DOMAIN cache \subseteq [id : Ids \cup {NoId}, getter : {"HANDLE", "DB"}]
          /\ DOMAIN regs \subseteq Ids \cup {NoId}
      <3>1. Key(Null) \in [id : Ids \cup {NoId}, getter : {"HANDLE", "DB"}]
        BY DEF Key, Null, Item, Handle
      <3>2. QED
        BY <3>1 DEF CacheInv, RegsInv
    <2>6. QED
      BY <2>1, <2>2, <2>3, <2>4, <2>5 DEF TypeOK, HeldInv, ConnInv
  <1>2. ASSUME IInv PROVE KeptForHandles
    <2>1. \A id \in {k.id : k \in DOMAIN cache} :
            id = NoId \/ \E x \in held \cup unreleased : x.id.root = id.root
      BY <1>2, NullFacts DEF IInv, CacheInv
    <2>2. \A id \in DOMAIN regs :
            id = NoId \/ \E x \in held \cup unreleased : x.id.root = id.root
      BY <1>2 DEF IInv, RegsInv, Handles
    <2>3. refs = Cardinality(Handles(held)) + Cardinality(unreleased) - spent
      BY <1>2 DEF IInv, CountInv
    <2>4. held = {} /\ unreleased = {} /\ conn # NoProc => bare
      BY <1>2 DEF IInv, ConnInv
    <2>5. QED
      BY <1>1, <1>2, <2>1, <2>2, <2>3, <2>4 DEF KeptForHandles
  <1>3. QED
    BY <1>2, SessionInvariant, PTL

\* As long as nothing fails and alpm_release is not given NULL, every handle the caller
\* has is of the process at the other end of its pipe.
THEOREM SessionHeldHere == Spec => []HeldHere
  <1>1. IInv => HeldHere
    BY DEF IInv, ConnInv, HeldHere
  <1>2. QED
    BY <1>1, SessionInvariant, PTL

-----------------------------------------------------------------------------
(* Whose answer it is.                                                     *)

\* An object found by the root of the one that was meant is that one, or another
\* process's.
LEMMA AnswersApart ==
  ASSUME OpenInv, NEW a \in Objects, NEW b \in Objects, a.n \in Opened, b.n \in Opened,
         a.k = b.k, Roots[a.n] = Roots[b.n], Answered(a, b), origin' = origin
  PROVE  MixedOnlyAcross'
  <1>1. last'.meant = a /\ last'.about = b
    BY DEF Answered
  <1>2. a.n = b.n => a = b
    BY DEF Objects
  <1>3. a # b => origin[a.n] # origin[b.n]
    BY <1>2, RootsFacts
  <1>4. QED
    BY <1>1, <1>3 DEF MixedOnlyAcross

\* A step that answers nothing.
LEMMA SilentApart == Silent => MixedOnlyAcross'
  <1> SUFFICES ASSUME Silent PROVE MixedOnlyAcross'
    OBVIOUS
  <1>1. last'.about = NoObject
    BY DEF Silent, NoAnswer
  <1>2. QED
    BY <1>1 DEF MixedOnlyAcross

\* A result is read at the server under the id of its owner.
LEMMA ReadApart ==
  ASSUME IInv, NEW p \in Procs, NEW x \in held, Read(x, p)
  PROVE  MixedOnlyAcross'
  <1> USE DEF IInv
  <1>1. /\ Named(p, x) /\ origin' = origin
        /\ Answered(x.obj, tab[p][x.id].ptr) \/ Silent
    BY Zenon DEF Read
  <1>2. /\ x.id \in DOMAIN tab[p] /\ tab[p][x.id].tag = x.obj.k
        /\ x.obj \in Objects /\ x.obj.n \in Opened /\ x.id.root = Roots[x.obj.n]
    BY <1>1 DEF Named, Server!Resolves, HeldInv
  <1>3. /\ tab[p][x.id].ptr \in Objects /\ tab[p][x.id].ptr.k = x.obj.k
        /\ tab[p][x.id].ptr.n \in Opened /\ x.id.root = Roots[tab[p][x.id].ptr.n]
    BY <1>2 DEF TableInv, Sound, Opened
  <1>4. QED
    BY <1>1, <1>2, <1>3, AnswersApart, SilentApart

\* A result is found in the cache under the id of its owner.
LEMMA ReadCachedApart ==
  ASSUME IInv, NEW x \in held, ReadCached(x)
  PROVE  MixedOnlyAcross'
  <1> USE DEF IInv
  <1> DEFINE k == Key(x)
  <1>1. k \in DOMAIN cache /\ Answered(x.obj, cache[k].obj) /\ origin' = origin
    BY DEF ReadCached, ghosts
  <1>2. k.id = x.id /\ k.getter = x.obj.k
    BY DEF Key
  <1>3. x.obj \in Objects /\ x.obj.n \in Opened /\ x.id.root = Roots[x.obj.n]
    BY DEF HeldInv
  <1> HIDE DEF k
  <1>4. /\ cache[k].obj \in Objects /\ cache[k].obj.k = x.obj.k
        /\ cache[k].obj.n \in Opened /\ x.id.root = Roots[cache[k].obj.n]
    <2>1. k # Key(Null)
      BY <1>2, NullFacts DEF HeldInv
    <2>2. QED
      BY <1>1, <1>2, <2>1 DEF CacheInv
  <1>5. QED
    BY <1>1, <1>3, <1>4, AnswersApart

\* A callback is found under the id of its handle, for the stub that returns it,
LEMMA GetCallbackApart ==
  ASSUME IInv, NEW x \in held, GetCallback(x)
  PROVE  MixedOnlyAcross'
  <1> USE DEF IInv
  <1>1. /\ x.id \in DOMAIN regs /\ x.obj.k = "HANDLE"
        /\ Answered(x.obj, regs[x.id]) /\ origin' = origin
    BY DEF GetCallback, ghosts
  <1>2. x.obj \in Objects /\ x.obj.n \in Opened /\ x.id.root = Roots[x.obj.n]
    BY DEF HeldInv
  <1>3. /\ regs[x.id] \in Objects /\ regs[x.id].k = "HANDLE"
        /\ regs[x.id].n \in Opened /\ x.id.root = Roots[regs[x.id].n]
    BY <1>1, NoIdFacts DEF RegsInv, HeldInv
  <1>4. QED
    BY <1>1, <1>2, <1>3, AnswersApart

\* or under the NULL handle's,
LEMMA NullApart ==
  ASSUME IInv, ReadCached(Null) \/ GetCallback(Null)
  PROVE  MixedOnlyAcross'
  <1> USE DEF IInv
  <1>1. CASE ReadCached(Null)
    <2>1. last'.about = NoObject
      BY <1>1 DEF ReadCached, Answered, CacheInv
    <2>2. QED
      BY <2>1 DEF MixedOnlyAcross
  <1>2. CASE GetCallback(Null)
    <2>1. last'.about = Null.obj /\ last'.meant = Null.obj
      BY <1>2, NullFacts DEF GetCallback, Answered, RegsInv
    <2>2. QED
      BY <2>1 DEF MixedOnlyAcross
  <1>3. QED
    BY <1>1, <1>2

\* and for the server that asks for it.
LEMMA DispatchApart ==
  ASSUME IInv, NEW p \in Procs, NEW id \in cbs[p], Dispatch(p, id)
  PROVE  MixedOnlyAcross'
  <1> USE DEF IInv
  <1> DEFINE h == tab[p][id].ptr
  <1>1. id \in DOMAIN regs /\ Answered(h, regs[id]) /\ origin' = origin
    BY DEF Dispatch, ghosts
  <1>2. id \in DOMAIN tab[p] /\ tab[p][id].tag = "HANDLE" /\ id # NoId
    BY NoIdFacts DEF Dispatch, TableInv, Called, Sound
  <1>3. h \in Objects /\ h.k = "HANDLE" /\ h.n \in Opened /\ id.root = Roots[h.n]
    BY <1>2 DEF TableInv, Sound, Opened
  <1> HIDE DEF h
  <1>4. /\ regs[id] \in Objects /\ regs[id].k = "HANDLE"
        /\ regs[id].n \in Opened /\ id.root = Roots[regs[id].n]
    BY <1>1, <1>2 DEF RegsInv
  <1>5. QED
    BY <1>1, <1>3, <1>4, AnswersApart

\* Nothing the client keeps by id answers for an object other than the one meant,
\* unless that object is of another process.
THEOREM SessionMixedOnlyAcross == Spec => []MixedOnlyAcross
  <1>1. Init => MixedOnlyAcross
    <2>1. Init => last.about = NoObject
      BY DEF Init, NoAnswer
    <2>2. QED
      BY <2>1 DEF MixedOnlyAcross
  <1>2. ASSUME IInv, MixedOnlyAcross, [Next]_vars PROVE MixedOnlyAcross'
    <2>1. ASSUME NEW p \in Procs,
                 \/ Initialize(p) \/ InitializeRefused(p)
                 \/ ReadNull(p) \/ SetCallbackNull(p) \/ ReleaseNull(p)
                 \/ ClientGone(p) \/ OtherConnects(p) \/ OtherOpens(p) \/ End(p)
          PROVE  MixedOnlyAcross'
      <3>1. Silent
        BY <2>1, Zenon DEF Initialize, InitializeRefused, ReadNull, SetCallbackNull,
           ReleaseNull, NullCall, ClientGone, OtherConnects, OtherOpens, End
      <3>2. QED
        BY <3>1, SilentApart
    <2>2. ASSUME NEW p \in Procs, NEW x \in held,
                 ReadMisses(x, p) \/ SetCallback(x, p) \/ Release(x, p) \/ ReleaseMisses(x, p)
          PROVE  MixedOnlyAcross'
      <3>1. Silent
        BY <2>2, Zenon DEF ReadMisses, SetCallback, Release, ReleaseMisses
      <3>2. QED
        BY <3>1, SilentApart
    <2>3. ASSUME NEW p \in Procs, NEW x \in held, Read(x, p) PROVE MixedOnlyAcross'
      BY <1>2, <2>3, ReadApart
    <2>4. ASSUME NEW p \in Procs, NEW id \in cbs[p], Dispatch(p, id) PROVE MixedOnlyAcross'
      BY <1>2, <2>4, DispatchApart
    <2>5. ASSUME NEW x \in held \cup {Null}, ReadCached(x) \/ GetCallback(x)
          PROVE  MixedOnlyAcross'
      BY <1>2, <2>5, ReadCachedApart, GetCallbackApart, NullApart
    <2>6. CASE FindsBroken
      BY <2>6, SilentApart DEF FindsBroken
    <2>7. CASE UNCHANGED vars
      BY <1>2, <2>7 DEF vars, ghosts, MixedOnlyAcross
    <2>8. QED
      BY <1>2, <2>1, <2>2, <2>3, <2>4, <2>5, <2>6, <2>7 DEF Next
  <1>3. QED
    BY <1>1, <1>2, SessionInvariant, PTL DEF Spec

-----------------------------------------------------------------------------
(* Every process keeps to HandleTable.                                     *)

\* What a step does to the table of process q, as HandleTable has it.
Keeps(q) == UNCHANGED Server(q)!vars \/ Server(q)!Next

\* The process is not touched.
LEMMA StaysKept ==
  ASSUME NEW q \in Procs, tab'[q] = tab[q], seq'[q] = seq[q], root'[q] = root[q],
         cbs'[q] = cbs[q], q \in ended' <=> q \in ended
  PROVE  Keeps(q)
  BY DEF Keeps, Server!vars

\* Nothing but the table of p is touched.
LEMMA OthersKept ==
  ASSUME IInv, NEW p \in Procs, NEW q \in Procs, q # p,
         tab' = [tab EXCEPT ![p] = tab'[p]], seq' = [seq EXCEPT ![p] = seq'[p]],
         root' = [root EXCEPT ![p] = root'[p]], cbs' = [cbs EXCEPT ![p] = cbs'[p]],
         ended' \in {ended, ended \cup {p}}
  PROVE  Keeps(q)
  <1>1. tab'[q] = tab[q] /\ seq'[q] = seq[q] /\ root'[q] = root[q] /\ cbs'[q] = cbs[q]
    BY DEF IInv, TableInv, OpenInv
  <1>2. QED
    BY <1>1, StaysKept

\* A step of the process while it serves.
LEMMA ServesKept ==
  ASSUME NEW p \in Procs, p \notin ended, ended' = ended, Server(p)!Serve
  PROVE  Keeps(p)
  BY Zenon DEF Keeps, Server!Next

\* A handle is opened.
LEMMA OpensKept ==
  ASSUME IInv, NEW p \in Procs, Opens(p), p \notin ended, UNCHANGED <<ended, cbs>>
  PROVE  \A q \in Procs : Keeps(q)
  <1> DEFINE n == Cardinality(Opened) + 1
  <1>1. /\ seq[p] <= MaxSeq
        /\ tab' = [tab EXCEPT ![p] = Opening(p).tab] /\ seq' = [seq EXCEPT ![p] = Opening(p).seq]
        /\ root' = [root EXCEPT ![p] = Opening(p).root]
    BY Zenon DEF Opens, Files, Opening
  <1>2. /\ tab'[p] = Opening(p).tab /\ seq'[p] = Opening(p).seq /\ root'[p] = Opening(p).root
        /\ cbs'[p] = cbs[p]
    BY <1>1 DEF IInv, TableInv, OpenInv
  <1>3. Handle(n) \in Objects
    BY OpensKeeps DEF IInv
  <1>4. Server(p)!PutHandle(Handle(n))
    <2>1. Opening(p) = Server(p)!Filed(Server(p)!Table, Handle(n), "HANDLE", Server(p)!NoId, FALSE)
      BY NoIdFacts, Zenon DEF Opening
    <2>2. Server(p)!Becomes(Opening(p))
      BY <1>2, Zenon DEF Server!Becomes
    <2>3. QED
      BY <1>1, <1>2, <2>1, <2>2, Zenon DEF Server!PutHandle
  <1>5. Server(p)!Serve
    BY <1>3, <1>4, Zenon DEF Server!Serve
  <1>6. Keeps(p)
    BY <1>5, ServesKept
  <1>7. /\ tab' = [tab EXCEPT ![p] = tab'[p]] /\ seq' = [seq EXCEPT ![p] = seq'[p]]
        /\ root' = [root EXCEPT ![p] = root'[p]] /\ cbs' = [cbs EXCEPT ![p] = cbs'[p]]
    BY <1>1, <1>2 DEF IInv, TableInv
  <1>8. \A q \in Procs : q # p => Keeps(q)
    BY <1>7, OthersKept
  <1>9. QED
    BY <1>6, <1>8

\* Nothing of the processes changes but whom they serve.
LEMMA IdleKept ==
  ASSUME UNCHANGED <<ended, tab, seq, root, cbs>>
  PROVE  \A q \in Procs : Keeps(q)
  BY StaysKept

\* A handle's list is read: its database is returned by a call that took the handle.
LEMMA ReadKept ==
  ASSUME IInv, NEW p \in Procs, NEW x \in held, Read(x, p)
  PROVE  \A q \in Procs : Keeps(q)
  <1> DEFINE o == x.id
             m == tab[p][o].ptr.n
             st == IF x.obj.k = "DB" THEN Server(p)!Table ELSE Listing(p, o)
  <1> USE DEF IInv
  <1>1. /\ p \notin ended /\ ended' = ended /\ Named(p, x) /\ seq[p] <= MaxSeq /\ cbs' = cbs
        /\ tab' = [tab EXCEPT ![p] = st.tab] /\ seq' = [seq EXCEPT ![p] = st.seq]
        /\ root' = [root EXCEPT ![p] = st.root]
    BY Zenon DEF Read, Listing, Reaches, Takes, Files
  <1>2. CASE x.obj.k = "DB"
    <2>1. /\ tab' = [tab EXCEPT ![p] = tab[p]] /\ seq' = [seq EXCEPT ![p] = seq[p]]
          /\ root' = [root EXCEPT ![p] = root[p]]
      BY <1>1, <1>2 DEF Server!Table
    <2>2. tab' = tab /\ seq' = seq /\ root' = root
      BY <2>1, RootSame DEF TableInv
    <2>3. QED
      BY <1>1, <2>2, IdleKept
  <1>3. CASE x.obj.k # "DB"
    <2>1. /\ o \in DOMAIN tab[p] /\ tab[p][o].tag = "HANDLE" /\ tab[p][o].owner = NoId
          /\ m \in 1 .. MaxOpen /\ NoId \notin DOMAIN tab[p]
      BY <1>1, <1>3, NoIdFacts DEF Named, Server!Resolves, HeldInv, TableInv, Sound, Objects
    <2>2. st = Listing(p, o) /\ Db(m) \in Objects
      BY <1>3, <2>1 DEF Db, Objects
    <2> HIDE DEF o, m, st
    <2>3. Server(p)!Ancestor(tab[p], o, "HANDLE") = o
      <3>1. Server(p)!Up(tab[p], o) = NoId /\ Server(p)!Up(tab[p], NoId) = NoId /\ o # NoId
        BY <2>1, NoIdFacts DEF Server!Up
      <3>2. Server(p)!Chain(tab[p], o) = {o}
        BY <3>1, NoIdFacts DEF Server!Chain
      <3>3. {i \in Server(p)!Chain(tab[p], o) \cap DOMAIN tab[p] : tab[p][i].tag = "HANDLE"} = {o}
        BY <2>1, <3>2
      <3>4. (CHOOSE i \in {o} : \A j \in {o} : i \in Server(p)!Chain(tab[p], j) => i = j) = o
        OBVIOUS
      <3>5. QED
        BY <2>1, <3>3, <3>4 DEF Server!Ancestor
    <2>4. /\ tab'[p] = Listing(p, o).tab /\ seq'[p] = Listing(p, o).seq
          /\ root'[p] = Listing(p, o).root /\ cbs'[p] = cbs[p]
      BY <1>1, <2>2 DEF TableInv, OpenInv
    <2>5. Server(p)!PutFrom(Db(m), "DB", o)
      <3>1. Server(p)!ParentTag["DB"] = "HANDLE"
        BY DEF Server!ParentTag
      <3>2. Server(p)!TakenBy("DB", o)
        BY <2>1 DEF Server!TakenBy
      <3>3. Listing(p, o) =
              Server(p)!Filed(Server(p)!Table, Db(m), "DB",
                              Server(p)!Ancestor(tab[p], o, Server(p)!ParentTag["DB"]), FALSE)
        BY <2>3, <3>1, Zenon DEF Listing, m
      <3>4. Server(p)!Becomes(Listing(p, o))
        BY <2>4, Zenon DEF Server!Becomes
      <3>5. "DB" # "HANDLE"
        OBVIOUS
      <3>6. QED
        BY <1>1, <2>4, <3>2, <3>3, <3>4, <3>5, Zenon DEF Server!PutFrom
    <2>6. Server(p)!Serve
      <3>1. "DB" \in Server(p)!Tags
        BY DEF Server!Tags
      <3>2. QED
        BY <2>1, <2>2, <2>5, <3>1, Zenon DEF Server!Serve
    <2>7. Keeps(p)
      BY <1>1, <2>6, ServesKept
    <2>8. /\ tab' = [tab EXCEPT ![p] = tab'[p]] /\ seq' = [seq EXCEPT ![p] = seq'[p]]
          /\ root' = [root EXCEPT ![p] = root'[p]] /\ cbs' = [cbs EXCEPT ![p] = cbs'[p]]
      BY <1>1, <2>2, <2>4 DEF TableInv
    <2>9. \A q \in Procs : q # p => Keeps(q)
      BY <1>1, <2>8, OthersKept
    <2>10. QED
      BY <2>7, <2>9
  <1>4. QED
    BY <1>2, <1>3

\* alpm_release: the handle and all below it are dropped.
LEMMA ReleaseKept ==
  ASSUME IInv, NEW p \in Procs, NEW x \in held, Release(x, p)
  PROVE  \A q \in Procs : Keeps(q)
  <1> DEFINE o == x.id
             S == Server(p)!Below(tab[p], o)
  <1> USE DEF IInv
  <1>1. /\ p \notin ended /\ ended' = ended /\ Named(p, x) /\ x.obj.k = "HANDLE"
        /\ tab' = [tab EXCEPT ![p] = Server(p)!Without(tab[p], S)]
        /\ cbs' = [cbs EXCEPT ![p] = cbs[p] \ {o}] /\ seq' = seq /\ root' = root
    BY DEF Release, Reaches, Takes
  <1>2. o \in DOMAIN tab[p] /\ tab[p][o].tag = "HANDLE"
    BY <1>1 DEF Named, Server!Resolves
  <1> HIDE DEF o
  <1>3. /\ tab'[p] = Server(p)!Without(tab[p], S) /\ cbs'[p] = cbs[p] \ {o}
        /\ seq'[p] = seq[p] /\ root'[p] = root[p]
    BY <1>1 DEF TableInv
  <1>4. Server(p)!Dropped(S)
    BY <1>3 DEF Server!Dropped
  <1>5. tab[p][o].tag \in {"HANDLE", "DB", "PKG"}
    BY <1>2
  <1>6. Server(p)!DropOwner(o)
    BY <1>3, <1>4, <1>5, Zenon DEF Server!DropOwner
  <1>7. Server(p)!Serve
    BY <1>2, <1>6, Zenon DEF Server!Serve
  <1>8. Keeps(p)
    BY <1>1, <1>7, ServesKept
  <1>9. /\ tab' = [tab EXCEPT ![p] = tab'[p]] /\ seq' = [seq EXCEPT ![p] = seq'[p]]
        /\ root' = [root EXCEPT ![p] = root'[p]] /\ cbs' = [cbs EXCEPT ![p] = cbs'[p]]
    BY <1>1, <1>3 DEF TableInv, OpenInv
  <1>10. \A q \in Procs : q # p => Keeps(q)
    BY <1>1, <1>9, OthersKept
  <1>11. QED
    BY <1>8, <1>10

\* arpc_cb_set: the callback of a handle the process knows is enabled, or nothing is done.
LEMMA SetCallbackKept ==
  ASSUME IInv, NEW p \in Procs, NEW x \in held, SetCallback(x, p)
  PROVE  \A q \in Procs : Keeps(q)
  <1> USE DEF IInv
  <1>1. /\ p \notin ended /\ ended' = ended /\ x.obj.k = "HANDLE"
        /\ cbs' = [cbs EXCEPT ![p] = CbsAfter(p, x)] /\ tab' = tab /\ seq' = seq /\ root' = root
    BY DEF SetCallback, Reaches, Takes
  <1>2. cbs'[p] = CbsAfter(p, x)
    BY <1>1 DEF TableInv
  <1>3. ASSUME Named(p, x) PROVE Keeps(p)
    <2>1. Server(p)!Resolves(tab[p], x.id, "HANDLE") /\ x.id \in DOMAIN tab[p]
      BY <1>1, <1>3 DEF Named, Server!Resolves
    <2>2. cbs'[p] = cbs[p] \cup {x.id}
      BY <1>2, <1>3 DEF CbsAfter
    <2>3. Server(p)!CbSet(x.id, TRUE)
      BY <1>1, <2>1, <2>2 DEF Server!CbSet
    <2>4. Server(p)!Serve
      BY <2>1, <2>3, Zenon DEF Server!Serve
    <2>5. QED
      BY <1>1, <2>4, ServesKept
  <1>4. ASSUME ~Named(p, x) PROVE Keeps(p)
    <2>1. cbs'[p] = cbs[p]
      BY <1>2, <1>4 DEF CbsAfter
    <2>2. QED
      BY <1>1, <2>1, StaysKept
  <1>5. Keeps(p)
    BY <1>3, <1>4
  <1>6. /\ tab' = [tab EXCEPT ![p] = tab'[p]] /\ seq' = [seq EXCEPT ![p] = seq'[p]]
        /\ root' = [root EXCEPT ![p] = root'[p]] /\ cbs' = [cbs EXCEPT ![p] = cbs'[p]]
    BY <1>1, <1>2 DEF TableInv, OpenInv
  <1>7. \A q \in Procs : q # p => Keeps(q)
    BY <1>1, <1>6, OthersKept
  <1>8. QED
    BY <1>5, <1>7

\* A callback is registered for the NULL handle.
LEMMA SetCallbackNullKept ==
  ASSUME IInv, NEW p \in Procs, SetCallbackNull(p)
  PROVE  \A q \in Procs : Keeps(q)
  <1> USE DEF IInv
  <1>1. /\ p \notin ended /\ ended' = ended
        /\ cbs' = [cbs EXCEPT ![p] = cbs[p] \cup {NoId}] /\ tab' = tab /\ seq' = seq /\ root' = root
    BY DEF SetCallbackNull, NullCall, Reaches, Takes
  <1>2. cbs'[p] = cbs[p] \cup {NoId}
    BY <1>1 DEF TableInv
  <1>3. Server(p)!CbSet(NoId, TRUE)
    BY <1>1, <1>2, NoIdFacts DEF Server!CbSet
  <1>4. Server(p)!Serve
    <2>1. NoId \in DOMAIN tab[p] \cup {Server(p)!NoId}
      BY NoIdFacts
    <2>2. QED
      BY <2>1, <1>3, Zenon DEF Server!Serve
  <1>5. Keeps(p)
    BY <1>1, <1>4, ServesKept
  <1>6. /\ tab' = [tab EXCEPT ![p] = tab'[p]] /\ seq' = [seq EXCEPT ![p] = seq'[p]]
        /\ root' = [root EXCEPT ![p] = root'[p]] /\ cbs' = [cbs EXCEPT ![p] = cbs'[p]]
    BY <1>1, <1>2 DEF TableInv, OpenInv
  <1>7. \A q \in Procs : q # p => Keeps(q)
    BY <1>1, <1>6, OthersKept
  <1>8. QED
    BY <1>5, <1>7

\* A process ends, by its exit path or without it.
LEMMA EndKept ==
  ASSUME IInv, NEW p \in Procs, End(p)
  PROVE  \A q \in Procs : Keeps(q)
  <1> USE DEF IInv
  <1>1. /\ p \notin ended /\ ended' = ended \cup {p}
        /\ tab' = [tab EXCEPT ![p] = Less(tab[p], DOMAIN tab[p])]
        /\ cbs' = cbs /\ seq' = seq /\ root' = root
    BY DEF End
  <1>2. /\ tab'[p] = Less(tab[p], DOMAIN tab[p]) /\ cbs'[p] = cbs[p]
        /\ seq'[p] = seq[p] /\ root'[p] = root[p]
    BY <1>1 DEF TableInv
  <1>3. tab'[p] = Server(p)!Without(tab[p], DOMAIN tab[p])
    BY <1>2 DEF Less, Server!Without
  <1>4. Server(p)!Reset
    BY <1>1, <1>2, <1>3 DEF Server!Reset
  <1>5. Keeps(p)
    BY <1>1, <1>4, Zenon DEF Keeps, Server!Next
  <1>6. /\ tab' = [tab EXCEPT ![p] = tab'[p]] /\ seq' = [seq EXCEPT ![p] = seq'[p]]
        /\ root' = [root EXCEPT ![p] = root'[p]] /\ cbs' = [cbs EXCEPT ![p] = cbs'[p]]
    BY <1>1, <1>2 DEF TableInv, OpenInv
  <1>7. \A q \in Procs : q # p => Keeps(q)
    BY <1>1, <1>6, OthersKept
  <1>8. QED
    BY <1>5, <1>7

\* The end of a client leaves the table as it is.
LEMMA ClientGoneKept ==
  ASSUME IInv, NEW p \in Procs, ClientGone(p)
  PROVE  \A q \in Procs : Keeps(q)
  <1> USE DEF IInv
  <1>1. /\ tab' = [tab EXCEPT ![p] = tab[p]] /\ seq' = [seq EXCEPT ![p] = seq[p]]
        /\ root' = [root EXCEPT ![p] = root[p]] /\ ended' = ended /\ cbs' = cbs
    BY DEF ClientGone, Files, AfterClient, Server!Table
  <1>2. tab' = tab /\ seq' = seq /\ root' = root
    BY <1>1, RootSame DEF TableInv
  <1>3. QED
    BY <1>1, <1>2, IdleKept

\* The table of every process starts, and goes on over all its clients, as HandleTable
\* says: what is proved of HandleTable holds of each of them.
THEOREM SessionTablesKept == Spec => TablesKept
  <1>1. Init => \A p \in Procs : Server(p)!Init
    <2> SUFFICES ASSUME Init, NEW p \in Procs PROVE Server(p)!Init
      OBVIOUS
    <2>1. /\ tab[p] = [i \in {} |-> NoId] /\ seq[p] = 1 /\ root[p] = 1 /\ cbs[p] = {}
          /\ p \notin ended
      BY DEF Init
    <2>2. QED
      BY <2>1, NoIdFacts DEF Server!Init
  <1>2. ASSUME IInv, [Next]_vars
        PROVE  [\A p \in Procs : UNCHANGED Server(p)!vars \/ Server(p)!Next]_vars
    <2>1. ASSUME NEW p \in Procs, Initialize(p) \/ OtherOpens(p) PROVE \A q \in Procs : Keeps(q)
      <3>1. Opens(p) /\ p \notin ended /\ UNCHANGED <<ended, cbs>>
        BY <2>1, Zenon DEF Initialize, OtherOpens, Reaches, Takes
      <3>2. QED
        BY <1>2, <3>1, OpensKept
    <2>2. ASSUME NEW p \in Procs,
                 InitializeRefused(p) \/ ReadNull(p) \/ ReleaseNull(p) \/ OtherConnects(p)
          PROVE  \A q \in Procs : Keeps(q)
      BY <2>2, IdleKept DEF InitializeRefused, ReadNull, ReleaseNull, NullCall, OtherConnects, Takes
    <2>3. ASSUME NEW p \in Procs, ClientGone(p) \/ End(p) \/ SetCallbackNull(p)
          PROVE  \A q \in Procs : Keeps(q)
      BY <1>2, <2>3, ClientGoneKept, EndKept, SetCallbackNullKept
    <2>4. ASSUME NEW p \in Procs, NEW x \in held, Read(x, p) \/ SetCallback(x, p) \/ Release(x, p)
          PROVE  \A q \in Procs : Keeps(q)
      BY <1>2, <2>4, ReadKept, SetCallbackKept, ReleaseKept
    <2>5. ASSUME NEW p \in Procs, NEW x \in held, ReadMisses(x, p) \/ ReleaseMisses(x, p)
          PROVE  \A q \in Procs : Keeps(q)
      BY <2>5, IdleKept DEF ReadMisses, ReleaseMisses, Takes
    <2>6. ASSUME UNCHANGED server PROVE \A q \in Procs : Keeps(q)
      BY <2>6, IdleKept DEF server
    <2>7. ASSUME NEW p \in Procs, NEW id \in cbs[p], Dispatch(p, id) PROVE UNCHANGED server
      BY <2>7 DEF Dispatch
    <2>8. ASSUME NEW x \in held \cup {Null}, ReadCached(x) \/ GetCallback(x)
          PROVE  UNCHANGED server
      BY <2>8 DEF ReadCached, GetCallback
    <2>9. ASSUME FindsBroken PROVE UNCHANGED server
      BY <2>9 DEF FindsBroken
    <2>10. CASE Next
      <3>1. \A q \in Procs : Keeps(q)
        BY <2>1, <2>2, <2>3, <2>4, <2>5, <2>6, <2>7, <2>8, <2>9, <2>10 DEF Next
      <3>2. QED
        BY <3>1 DEF Keeps
    <2>11. QED
      BY <1>2, <2>10
  <1>3. QED
    BY <1>1, <1>2, SessionInvariant, PTL DEF Spec, TablesKept

=============================================================================
