-------------------------- MODULE ClientCacheProofs --------------------------
(***************************************************************************)
(* Proofs about the client's cache of borrowed results, for any handles,   *)
(* getters, setters, depth of nesting and number of results.               *)
(***************************************************************************)
EXTENDS ClientCache, TLAPS

\* The two tables and the freed pointers, taken by themselves.
TableOK ==
  /\ live \in [DOMAIN live -> EntryOf] /\ DOMAIN live \subseteq Slots
  /\ \A s \in DOMAIN live : live[s].slot = s
  /\ detached \subseteq EntryOf
  /\ next_ptr \in 1 .. MaxPtr + 1
  /\ freed \subseteq 1 .. next_ptr - 1
  /\ \A e \in Entries : e.ptr < next_ptr /\ e.ptr \notin freed
  /\ \A e, f \in Entries : e.ptr = f.ptr => e = f
  /\ \A s \in DOMAIN live : live[s] \notin detached
  /\ \A e, f \in Entries :
       IsStr(e.slot) /\ e.slot = f.slot /\ e.val = f.val => e = f

\* A stub under way is about an object that lives, one that changes something about
\* the handle.
CallsOK ==
  /\ stk \in Seq(Getting \cup Mutating)
  /\ \A i \in DOMAIN stk :
       /\ stk[i].about \notin gone
       /\ stk[i].op = "get" => stk[i].about = stk[i].slot.owner
       /\ stk[i].op \in Mutators => stk[i].about = HandleId(stk[i].root)

\* What is left of an object destroyed: nothing, or what a lost reply or a call about
\* another object of a living handle left behind.
OwnersOK ==
  \A e \in Entries : e.slot.owner \in gone => e.slot \in unseen \/ Adrift(e.slot.owner)

\* What a caller holds is still in one of the tables, under the getter it was read
\* with, or came from an object whose destruction was refused.
HeldKept ==
  \A h \in held : \/ h[2].owner \in refused
                  \/ \E e \in Entries : e.ptr = h[1] /\ e.slot = h[2]

\* The inductive invariant.
IInv ==
  /\ TableOK /\ CallsOK /\ HeldKept /\ OwnersOK
  /\ held \subseteq (1 .. next_ptr - 1) \X Slots
  /\ val \in [Slots -> {0, 1}]
  /\ gone \subseteq Objects /\ refused \subseteq Objects /\ orphaned \subseteq gone

-----------------------------------------------------------------------------
(* The tables.                                                             *)

\* An entry is live or detached, and typed.
LEMMA EntryTyped ==
  ASSUME TableOK
  PROVE  /\ \A e : e \in Entries <=> e \in detached \/ \E s \in DOMAIN live : e = live[s]
         /\ Entries \subseteq EntryOf
         /\ \A e \in Entries : e.slot \in Slots /\ e.ptr \in 1 .. MaxPtr /\ e.val \in {0, 1}
  <1>1. \A e : e \in Entries <=> e \in detached \/ \E s \in DOMAIN live : e = live[s]
    BY DEF Entries
  <1>2. Entries \subseteq EntryOf
    BY <1>1 DEF TableOK
  <1>3. QED
    BY <1>1, <1>2 DEF EntryOf

\* Entries leave the tables, or go from the live to the detached ones, and only what
\* left is freed: arpc_detach, purge_where and what alpm_db_unregister does.
LEMMA Shrunk ==
  ASSUME TableOK,
         DOMAIN live' \subseteq DOMAIN live,
         live' = [s \in DOMAIN live' |-> live[s]],
         detached' \subseteq Entries,
         \A s \in DOMAIN live' : live[s] \notin detached',
         \A p \in freed' : p \in freed \/ \E e \in Entries \ Entries' : p = e.ptr,
         next_ptr' = next_ptr
  PROVE  TableOK' /\ Entries' \subseteq Entries
  <1>1. Entries' \subseteq Entries
    BY DEF Entries
  <1>2. /\ live' \in [DOMAIN live' -> EntryOf] /\ DOMAIN live' \subseteq Slots
        /\ \A s \in DOMAIN live' : live'[s].slot = s
        /\ detached' \subseteq EntryOf
    BY EntryTyped DEF TableOK
  <1>3. freed' \subseteq 1 .. next_ptr' - 1
    <2>1. \A e \in Entries : e.ptr \in 1 .. next_ptr - 1
      BY EntryTyped DEF TableOK
    <2>2. QED
      BY <2>1 DEF TableOK
  <1>4. \A e \in Entries' : e.ptr < next_ptr' /\ e.ptr \notin freed'
    BY <1>1 DEF TableOK
  <1>5. QED
    BY <1>1, <1>2, <1>3, <1>4 DEF TableOK

\* arpc_detach: entries go from the live to the detached ones.
LEMMA DetachSound ==
  ASSUME TableOK, NEW S, Detach(S), UNCHANGED <<freed, next_ptr>>
  PROVE  TableOK' /\ Entries' = Entries
  <1> DEFINE T == S \cap DOMAIN live
  <1>1. /\ live' = Without(T) /\ detached' = detached \cup {live[s] : s \in T}
        /\ T \subseteq DOMAIN live
    BY DEF Detach
  <1> HIDE DEF T
  <1>2. DOMAIN live' = DOMAIN live \ T /\ live' = [s \in DOMAIN live' |-> live[s]]
    BY <1>1 DEF Without
  <1>3. detached' \subseteq Entries /\ \A s \in DOMAIN live' : live[s] \notin detached'
    BY <1>1, <1>2 DEF Entries, TableOK
  <1>4. TableOK' /\ Entries' \subseteq Entries
    BY <1>2, <1>3, Shrunk
  <1>5. Entries \subseteq Entries'
    BY <1>1, <1>2 DEF Entries
  <1>6. QED
    BY <1>4, <1>5

\* purge_where: the entries of the owners O are the ones that go.
LEMMA PurgeSound ==
  ASSUME TableOK, NEW O, Purge(O), next_ptr' = next_ptr
  PROVE  TableOK' /\ Entries' = {e \in Entries : e.slot.owner \notin O}
  <1> DEFINE dead == {e \in Entries : e.slot.owner \in O}
             S    == {s \in DOMAIN live : s.owner \in O}
  <1>1. /\ live' = Without(S) /\ detached' = detached \ dead
        /\ freed' = freed \cup {e.ptr : e \in dead}
    BY DEF Purge
  <1>2. DOMAIN live' = DOMAIN live \ S /\ live' = [s \in DOMAIN live' |-> live[s]]
    BY <1>1 DEF Without
  <1>3. Entries' = Entries \ dead
    <2>1. \A e \in Entries \ dead : e \in Entries'
      <3> SUFFICES ASSUME NEW e \in Entries \ dead PROVE e \in Entries'
        OBVIOUS
      <3>1. CASE e \in detached
        BY <3>1, <1>1 DEF Entries
      <3>2. ASSUME NEW s \in DOMAIN live, e = live[s] PROVE e \in Entries'
        <4>1. s \in DOMAIN live'
          BY <3>2, <1>2 DEF TableOK
        <4>2. live'[s] = e
          BY <3>2, <4>1, <1>2
        <4>3. QED
          BY <4>1, <4>2 DEF Entries
      <3>3. QED
        BY <3>1, <3>2, EntryTyped
    <2>2. \A e \in Entries' : e \in Entries \ dead
      BY <1>1, <1>2 DEF Entries, TableOK
    <2>3. QED
      BY <2>1, <2>2
  <1>4. detached' \subseteq Entries /\ \A s \in DOMAIN live' : live[s] \notin detached'
    BY <1>1, <1>2 DEF Entries, TableOK
  <1>5. TableOK'
    BY <1>1, <1>2, <1>3, <1>4, Shrunk
  <1>6. QED
    BY <1>3, <1>5

\* What alpm_db_unregister does to the tables.
LEMMA PurgeDbSound ==
  ASSUME TableOK, NEW r \in Roots, PurgeDb(r), next_ptr' = next_ptr
  PROVE  TableOK' /\ Entries' = {e \in Entries : e.slot.owner # DbId(r)}
  <1> DEFINE d    == DbId(r)
             list == DbList(r)
             dead == {e \in Entries : e.slot.owner = d}
             S    == {s \in DOMAIN live : s.owner = d}
             T    == {list} \cap DOMAIN live
  <1>1. /\ live' = Without(S \cup T) /\ detached' = (detached \ dead) \cup {live[s] : s \in T}
        /\ freed' = freed \cup {e.ptr : e \in dead}
    BY DEF PurgeDb
  <1>t. list.owner # d
    BY DEF DbList, Slot, HandleId, DbId
  <1> HIDE DEF d, list
  <1>2. DOMAIN live' = DOMAIN live \ (S \cup T) /\ live' = [s \in DOMAIN live' |-> live[s]]
    BY <1>1 DEF Without
  <1>3. Entries' = Entries \ dead
    <2>1. \A e \in Entries \ dead : e \in Entries'
      <3> SUFFICES ASSUME NEW e \in Entries \ dead PROVE e \in Entries'
        OBVIOUS
      <3>1. CASE e \in detached'
        BY <3>1 DEF Entries
      <3>2. ASSUME NEW s \in DOMAIN live, e = live[s], e \notin detached'
            PROVE  e \in Entries'
        <4>1. s \in DOMAIN live'
          BY <3>2, <1>1, <1>2 DEF TableOK
        <4>2. live'[s] = e
          BY <3>2, <4>1, <1>2
        <4>3. QED
          BY <4>1, <4>2 DEF Entries
      <3>3. QED
        BY <3>1, <3>2, <1>1, EntryTyped
    <2>2. \A e \in Entries' : e \in Entries \ dead
      BY <1>1, <1>2, <1>t DEF Entries, TableOK
    <2>3. QED
      BY <2>1, <2>2
  <1>4. detached' \subseteq Entries /\ \A s \in DOMAIN live' : live[s] \notin detached'
    BY <1>1, <1>2 DEF Entries, TableOK
  <1>5. TableOK'
    BY <1>1, <1>2, <1>3, <1>4, Shrunk
  <1>6. QED
    BY <1>3, <1>5 DEF d

\* The next pointer is nobody's.
LEMMA NextPtrNew ==
  ASSUME TableOK, next_ptr <= MaxPtr, MaxPtr \in Nat
  PROVE  /\ next_ptr \in 1 .. MaxPtr /\ next_ptr + 1 \in 1 .. MaxPtr + 1
         /\ next_ptr \notin freed
         /\ \A e \in Entries : e.ptr # next_ptr
         /\ 1 .. next_ptr - 1 \subseteq 1 .. (next_ptr + 1) - 1
         /\ next_ptr \in 1 .. (next_ptr + 1) - 1
  BY EntryTyped DEF TableOK

\* arpc_cache.
LEMMA CacheSound ==
  ASSUME TableOK, NEW s \in Slots, ~IsStr(s), Cache(s),
         next_ptr <= MaxPtr, next_ptr' = next_ptr + 1, MaxPtr \in Nat,
         val \in [Slots -> {0, 1}]
  PROVE  /\ TableOK'
         /\ Entries \subseteq Entries'
         /\ \A e \in Entries' \ Entries : e.slot = s
         /\ \E p \in 1 .. next_ptr : /\ held' = held \cup {<<p, s>>}
                                     /\ \E e \in Entries' : e.ptr = p /\ e.slot = s
  <1>1. CASE s \in DOMAIN live
    <2>1. UNCHANGED <<live, detached>> /\ freed' = freed \cup {next_ptr}
      BY <1>1 DEF Cache
    <2>2. Entries' = Entries
      BY <2>1 DEF Entries
    <2>3. TableOK'
      <3>1. freed' \subseteq 1 .. next_ptr' - 1
        BY <2>1, NextPtrNew DEF TableOK
      <3>2. \A e \in Entries' : e.ptr < next_ptr' /\ e.ptr \notin freed'
        BY <2>1, <2>2, NextPtrNew, EntryTyped DEF TableOK
      <3>3. next_ptr' \in 1 .. MaxPtr + 1
        BY NextPtrNew
      <3>4. QED
        BY <2>1, <2>2, <3>1, <3>2, <3>3 DEF TableOK
    <2>4. live[s] \in Entries /\ live[s].slot = s
      BY <1>1, EntryTyped DEF TableOK
    <2>5. live[s].ptr \in 1 .. next_ptr /\ held' = held \cup {<<live[s].ptr, s>>}
      BY <1>1, <2>4, EntryTyped DEF Cache, Returns, TableOK
    <2>6. QED
      BY <2>2, <2>3, <2>4, <2>5
  <1>2. CASE s \notin DOMAIN live
    <2> DEFINE n == Entry(s, next_ptr, val[s])
    <2>1. live' = With(s, n) /\ UNCHANGED <<detached, freed>> /\ held' = held \cup {<<next_ptr, s>>}
      BY <1>2 DEF Cache, Returns
    <2>2. n \in EntryOf /\ n.slot = s /\ n.ptr = next_ptr
      BY NextPtrNew DEF Entry, EntryOf
    <2> HIDE DEF n
    <2>3. /\ DOMAIN live' = DOMAIN live \cup {s} /\ live'[s] = n
          /\ \A x \in DOMAIN live : live'[x] = live[x]
          /\ live' = [x \in DOMAIN live' |-> live'[x]]
      BY <1>2, <2>1 DEF With
    <2>4. Entries' = Entries \cup {n} /\ n \notin Entries
      <3>1. Entries' = Entries \cup {n}
        BY <2>1, <2>3 DEF Entries
      <3>2. QED
        BY <3>1, <2>2, NextPtrNew
    <2>5. TableOK'
      <3>1. /\ live' \in [DOMAIN live' -> EntryOf] /\ DOMAIN live' \subseteq Slots
            /\ \A x \in DOMAIN live' : live'[x].slot = x
            /\ detached' \subseteq EntryOf
        BY <2>1, <2>2, <2>3 DEF TableOK
      <3>2. next_ptr' \in 1 .. MaxPtr + 1 /\ freed' \subseteq 1 .. next_ptr' - 1
        BY <2>1, NextPtrNew DEF TableOK
      <3>3. \A e \in Entries' : e.ptr < next_ptr' /\ e.ptr \notin freed'
        BY <2>1, <2>2, <2>4, NextPtrNew, EntryTyped DEF TableOK
      <3>4. \A e, f \in Entries' : e.ptr = f.ptr => e = f
        BY <2>2, <2>4, NextPtrNew DEF TableOK
      <3>5. \A x \in DOMAIN live' : live'[x] \notin detached'
        BY <2>1, <2>3, <2>4, EntryTyped DEF TableOK
      <3>6. \A e, f \in Entries' :
              IsStr(e.slot) /\ e.slot = f.slot /\ e.val = f.val => e = f
        BY <2>2, <2>4 DEF TableOK
      <3>7. QED
        BY <3>1, <3>2, <3>3, <3>4, <3>5, <3>6 DEF TableOK
    <2>6. QED
      BY <2>1, <2>2, <2>4, <2>5, NextPtrNew
  <1>3. QED
    BY <1>1, <1>2

\* intern: the string there is, or a new one; nothing leaves the tables.
LEMMA InternSound ==
  ASSUME TableOK, NEW s \in Slots, IsStr(s), Intern(s),
         next_ptr <= MaxPtr, next_ptr' = next_ptr + 1, MaxPtr \in Nat,
         val \in [Slots -> {0, 1}]
  PROVE  /\ TableOK'
         /\ Entries \subseteq Entries'
         /\ \A e \in Entries' \ Entries : e.slot = s
         /\ \A x \in DOMAIN live \cap DOMAIN live' : x # s => live'[x] = live[x]
         /\ \A x \in DOMAIN live' : x # s => x \in DOMAIN live
         /\ \E p \in 1 .. next_ptr : /\ held' = held \cup {<<p, s>>}
                                     /\ \E e \in Entries' : e.ptr = p /\ e.slot = s
  <1> DEFINE was  == IF s \in DOMAIN live THEN {live[s]} ELSE {}
             same == {e \in was \cup detached : e.slot = s /\ e.val = val[s]}
             new  == Entry(s, next_ptr, val[s])
             now  == IF same # {} THEN CHOOSE e \in same : TRUE ELSE new
  <1>1. /\ live' = With(s, now) /\ detached' = (detached \cup was) \ {now}
        /\ freed' = freed /\ held' = held \cup {<<now.ptr, s>>}
    BY DEF Intern, Returns
  <1>2. new \in EntryOf /\ new.slot = s /\ new.ptr = next_ptr /\ new.val = val[s]
    BY NextPtrNew DEF Entry, EntryOf
  <1>3. /\ was \subseteq Entries /\ detached \subseteq Entries
        /\ \A e \in was : e.slot = s
        /\ \A e \in Entries : e.slot = s => e \in was \cup detached
    BY EntryTyped DEF TableOK
  <1>4. same \subseteq Entries /\ \A e \in same : e.slot = s /\ e.val = val[s]
    BY <1>3
  <1>5. \A e \in Entries : e.slot = s /\ e.val = val[s] => e \in same
    BY <1>3
  <1>6. now \in same \/ (now = new /\ same = {})
    OBVIOUS
  <1> HIDE DEF new, same, now
  <1>7. now \in EntryOf /\ now.slot = s /\ now.val = val[s] /\ now.ptr \in 1 .. next_ptr
    BY <1>2, <1>4, <1>6, EntryTyped, NextPtrNew DEF TableOK
  <1>8. /\ DOMAIN live' = DOMAIN live \cup {s} /\ live'[s] = now
        /\ \A x \in DOMAIN live : x # s => live'[x] = live[x]
        /\ live' = [x \in DOMAIN live' |-> live'[x]]
    BY <1>1 DEF With
  <1>9. /\ \A x \in DOMAIN live : x # s => live[x] \notin was /\ live[x] # now
        /\ s \in DOMAIN live => live[s] \in was
    BY <1>7, <1>3 DEF TableOK
  <1>10. Entries' = Entries \cup {now}
    <2>1. \A e \in Entries : e \in Entries'
      <3> SUFFICES ASSUME NEW e \in Entries PROVE e \in Entries'
        OBVIOUS
      <3>1. e \in detached \/ e \in was \/ \E x \in DOMAIN live : x # s /\ e = live[x]
        BY EntryTyped, <1>9
      <3>2. CASE e \in detached \cup was
        BY <3>2, <1>1, <1>8 DEF Entries
      <3>3. CASE \E x \in DOMAIN live : x # s /\ e = live[x]
        BY <3>3, <1>8 DEF Entries
      <3>4. QED
        BY <3>1, <3>2, <3>3
    <2>2. now \in Entries'
      BY <1>8 DEF Entries
    <2>3. \A e \in Entries' : e \in Entries \cup {now}
      BY <1>1, <1>3, <1>8 DEF Entries
    <2>4. QED
      BY <2>1, <2>2, <2>3
  <1>11. now \in Entries \/ (now = new /\ \A e \in Entries : e.ptr # now.ptr
                                         /\ ~(e.slot = s /\ e.val = val[s]))
    BY <1>2, <1>4, <1>5, <1>6, NextPtrNew
  <1>12. TableOK'
    <2>1. /\ live' \in [DOMAIN live' -> EntryOf] /\ DOMAIN live' \subseteq Slots
          /\ \A x \in DOMAIN live' : live'[x].slot = x
      BY <1>7, <1>8 DEF TableOK
    <2>2. detached' \subseteq EntryOf
      BY <1>1, <1>3, EntryTyped
    <2>3. next_ptr' \in 1 .. MaxPtr + 1 /\ freed' \subseteq 1 .. next_ptr' - 1
      BY <1>1, NextPtrNew DEF TableOK
    <2>4. now.ptr \notin freed
      BY <1>2, <1>11, NextPtrNew DEF TableOK
    <2>5. \A e \in Entries' : e.ptr < next_ptr' /\ e.ptr \notin freed'
      BY <1>1, <1>7, <1>10, <2>4, EntryTyped DEF TableOK
    <2>6. \A e, f \in Entries' : e.ptr = f.ptr => e = f
      BY <1>10, <1>11 DEF TableOK
    <2>7. \A x \in DOMAIN live' : live'[x] \notin detached'
      BY <1>1, <1>8, <1>9 DEF TableOK
    <2>8. \A e, f \in Entries' :
            IsStr(e.slot) /\ e.slot = f.slot /\ e.val = f.val => e = f
      BY <1>7, <1>10, <1>11 DEF TableOK
    <2>9. QED
      BY <2>1, <2>2, <2>3, <2>5, <2>6, <2>7, <2>8 DEF TableOK
  <1>13. QED
    BY <1>1, <1>7, <1>8, <1>10, <1>12

-----------------------------------------------------------------------------
(* The invariant.                                                          *)

\* Nothing is cached, held or under way at first.
LEMMA InitIInv == Init => IInv
  <1> SUFFICES ASSUME Init PROVE IInv
    OBVIOUS
  <1>1. /\ DOMAIN live = {} /\ live = [s \in {} |-> live[s]] /\ detached = {} /\ freed = {}
        /\ held = {} /\ stk = <<>> /\ gone = {} /\ refused = {} /\ orphaned = {}
        /\ next_ptr = 1
    BY DEF Init
  <1>2. Entries = {}
    BY <1>1 DEF Entries
  <1>3. TableOK
    BY <1>1, <1>2, CacheAssumption DEF TableOK
  <1>4. CallsOK
    BY <1>1 DEF CallsOK
  <1>5. val \in [Slots -> {0, 1}]
    BY DEF Init
  <1>6. QED
    BY <1>1, <1>2, <1>3, <1>4, <1>5 DEF IInv, HeldKept, OwnersOK

\* A stub under way and its kind.
LEMMA TopCall ==
  ASSUME CallsOK, stk # <<>>
  PROVE  /\ Head(stk) = stk[1] /\ 1 \in DOMAIN stk
         /\ Head(stk) \in Getting \cup Mutating
         /\ Head(stk).op = "get" => Head(stk) \in Getting
         /\ IsMutator(Head(stk)) => Head(stk) \in Mutating
         /\ Tail(stk) \in Seq(Getting \cup Mutating)
         /\ \A i \in DOMAIN Tail(stk) : i + 1 \in DOMAIN stk /\ Tail(stk)[i] = stk[i + 1]
  <1>1. Head(stk) = stk[1] /\ 1 \in DOMAIN stk /\ Head(stk) \in Getting \cup Mutating
    BY DEF CallsOK
  <1>2. /\ Tail(stk) \in Seq(Getting \cup Mutating)
        /\ \A i \in DOMAIN Tail(stk) : i + 1 \in DOMAIN stk /\ Tail(stk)[i] = stk[i + 1]
    BY DEF CallsOK
  <1>3. "get" \notin Mutators
    BY CacheAssumption
  <1>4. QED
    BY <1>1, <1>2, <1>3 DEF Getting, Mutating, IsMutator

\* The innermost stub returns.
LEMMA CallReturned ==
  ASSUME CallsOK, stk # <<>>, stk' = Tail(stk), gone' = gone
  PROVE  CallsOK'
  BY TopCall DEF CallsOK

\* A stub is called.
LEMMA CallMade ==
  ASSUME CallsOK, NEW f \in Getting \cup Mutating, stk' = <<f>> \o stk, gone' = gone,
         f.about \notin gone, f.op = "get" => f.about = f.slot.owner,
         f.op \in Mutators => f.about = HandleId(f.root)
  PROVE  CallsOK'
  <1>1. /\ stk' \in Seq(Getting \cup Mutating) /\ stk'[1] = f
        /\ \A i \in DOMAIN stk' : i = 1 \/ (i - 1 \in DOMAIN stk /\ stk'[i] = stk[i - 1])
    BY DEF CallsOK
  <1>2. QED
    BY <1>1 DEF CallsOK

\* The objects under two handles are different ones.
LEMMA Objs ==
  /\ \A r \in Roots : Under(r) \subseteq Objects
  /\ \A s \in Slots : s.owner \in Objects
  /\ \A o \in Objects : o.root \in Roots /\ o \in Under(o.root)
  /\ \A q, r : HandleId(q) \in Under(r) => q = r
  /\ \A q, r : HandleId(q) # DbId(r) /\ HandleId(q) # PkgId(r) /\ HandleId(q) # LoadedId(r)
  /\ \A r : DbId(r).root = r /\ PkgId(r).root = r /\ LoadedId(r).root = r
  /\ Packages \subseteq Objects
  /\ \A p \in Packages : p = PkgId(p.root) \/ p = LoadedId(p.root)
  <1>1. \A r \in Roots : Under(r) \subseteq Objects
    BY DEF Objects
  <1>2. \A o \in Objects : o.root \in Roots /\ o \in Under(o.root)
    BY DEF Objects, Under, HandleId, DbId, PkgId, LoadedId
  <1>3. /\ \A q, r : HandleId(q) \in Under(r) => q = r
        /\ \A q, r : HandleId(q) # DbId(r) /\ HandleId(q) # PkgId(r) /\ HandleId(q) # LoadedId(r)
        /\ \A r : DbId(r).root = r /\ PkgId(r).root = r /\ LoadedId(r).root = r
    BY DEF Under, HandleId, DbId, PkgId, LoadedId
  <1>4. \A s \in Slots :
          \E r \in Roots : \/ s.owner = HandleId(r) /\ s.getter \in {"syncdbs", "trans_add", "logfile"}
                           \/ s.owner = DbId(r) /\ s.getter = "pkgcache"
                           \/ s.owner \in {PkgId(r), LoadedId(r)} /\ s.getter = "depends"
    BY DEF Slots, Slot
  <1>5. \A s \in Slots : s.owner \in Objects
    BY <1>1, <1>4 DEF Under
  <1>6. \A p \in Packages : p \in Objects /\ (p = PkgId(p.root) \/ p = LoadedId(p.root))
    <2> SUFFICES ASSUME NEW p \in Packages
                 PROVE  p \in Objects /\ (p = PkgId(p.root) \/ p = LoadedId(p.root))
      OBVIOUS
    <2>1. PICK s \in Slots : s.getter = "depends" /\ p = s.owner
      BY DEF Packages
    <2>2. \E r \in Roots : s.owner \in {PkgId(r), LoadedId(r)}
      BY <1>4, <2>1
    <2>3. QED
      BY <1>3, <1>5, <2>1, <2>2
  <1>7. QED
    BY <1>1, <1>2, <1>3, <1>5, <1>6

\* A step that destroys nothing leaves nothing behind, whatever it files under an
\* object that lives.
LEMMA OwnersKept ==
  ASSUME OwnersOK, UNCHANGED <<gone, orphaned>>, unseen \subseteq unseen',
         \A e \in Entries' : e \in Entries \/ e.slot.owner \notin gone
  PROVE  OwnersOK'
  BY DEF OwnersOK, Adrift

\* Objects other than handles are destroyed: what is left of them was not reported, or
\* they went by a call about another object.
LEMMA OwnersDestroyed ==
  ASSUME OwnersOK, Entries' \subseteq Entries, NEW O, gone' = gone \cup O,
         unseen \subseteq unseen', orphaned \subseteq orphaned',
         \A q : HandleId(q) \notin O,
         \A e \in Entries' :
           e.slot.owner \in O =>
             \/ e.slot \in unseen'
             \/ e.slot.owner \in orphaned' /\ HandleId(e.slot.owner.root) \notin gone
  PROVE  OwnersOK'
  <1> SUFFICES ASSUME NEW e \in Entries', e.slot.owner \in gone'
               PROVE  e.slot \in unseen' \/ Adrift(e.slot.owner)'
    BY DEF OwnersOK
  <1>1. CASE e.slot.owner \in O
    BY <1>1 DEF Adrift
  <1>2. CASE e.slot.owner \notin O
    BY <1>2 DEF Adrift, OwnersOK
  <1>3. QED
    BY <1>1, <1>2

\* What destroying or detaching leaves of the invariant, once what was freed is not
\* held or came from a refused object.
LEMMA ShrunkIInv ==
  ASSUME IInv, TableOK', Entries' \subseteq Entries, CallsOK', OwnersOK',
         next_ptr' = next_ptr, val' \in [Slots -> {0, 1}],
         gone' \subseteq Objects, orphaned' \subseteq gone',
         refused \subseteq refused', refused' \subseteq Objects,
         held' \subseteq held,
         \A h \in held', e \in Entries \ Entries' :
           e.ptr = h[1] /\ e.slot = h[2] => h[2].owner \in refused'
  PROVE  IInv'
  <1>1. HeldKept'
    BY DEF IInv, HeldKept
  <1>2. held' \subseteq (1 .. next_ptr' - 1) \X Slots
    BY DEF IInv
  <1>3. QED
    BY <1>1, <1>2 DEF IInv

\* The objects O go while no stub is about them.
LEMMA CallsDestroyed ==
  ASSUME CallsOK, NEW O, Unused(O), stk' = stk, gone' \subseteq gone \cup O
  PROVE  CallsOK'
  BY DEF CallsOK, Unused

\* A reply that is lost leaves the tables alone.
LEMMA UnreportedSound ==
  ASSUME TableOK, NEW S, Unreported(S), next_ptr' = next_ptr
  PROVE  TableOK' /\ Entries' = Entries /\ unseen' = unseen \cup S
  BY DEF Unreported, TableOK, Entries

\* Every step of a stub keeps the invariant: one step per action.
LEMMA NextIInv == IInv /\ [Next]_vars => IInv'
  <1> SUFFICES ASSUME IInv, [Next]_vars PROVE IInv'
    OBVIOUS
  <1>0. /\ TableOK /\ CallsOK /\ OwnersOK /\ MaxPtr \in Nat /\ val \in [Slots -> {0, 1}]
        /\ gone \subseteq Objects /\ refused \subseteq Objects /\ orphaned \subseteq gone
    BY CacheAssumption DEF IInv
  <1>s. \A s \in Slots : s.owner \in Objects
    BY Objs
  <1>1. ASSUME NEW s \in Slots, Get(s) PROVE IInv'
    <2>1. /\ s.owner \notin gone
          /\ UNCHANGED <<live, detached, freed, next_ptr, val, gone, ghosts>>
      BY <1>1 DEF Get, MayCall
    <2>2. Entries' = Entries /\ TableOK' /\ OwnersOK'
      <3>1. Entries' = Entries /\ TableOK'
        BY <2>1, <1>0 DEF Entries, TableOK
      <3>2. QED
        BY <2>1, <3>1, <1>0, OwnersKept DEF ghosts
    <2>3. CASE s \in DOMAIN live /\ ~IsStr(s)
      <3>1. held' = held \cup {<<live[s].ptr, s>>} /\ stk' = stk
        BY <1>1, <2>3 DEF Get, Returns
      <3>2. live[s] \in Entries /\ live[s].slot = s /\ live[s].ptr \in 1 .. next_ptr - 1
        BY <2>3, <1>0, EntryTyped DEF TableOK
      <3>3. CallsOK'
        BY <2>1, <3>1, <1>0 DEF CallsOK
      <3>4. HeldKept'
        BY <2>1, <2>2, <3>1, <3>2 DEF IInv, HeldKept, ghosts
      <3>5. QED
        BY <2>1, <2>2, <3>1, <3>2, <3>3, <3>4 DEF IInv, ghosts
    <2>4. CASE ~(s \in DOMAIN live /\ ~IsStr(s))
      <3> DEFINE f == [op |-> "get", about |-> s.owner, slot |-> s]
      <3>1. stk' = <<f>> \o stk /\ held' = held
        BY <1>1, <2>4 DEF Get
      <3>2. f \in Getting /\ f.about = s.owner /\ f.slot = s /\ f.op \notin Mutators
        BY <1>s, CacheAssumption DEF Getting
      <3>3. CallsOK'
        BY <2>1, <3>1, <3>2, <1>0, CallMade
      <3>4. HeldKept'
        BY <2>1, <2>2, <3>1 DEF IInv, HeldKept, ghosts
      <3>5. QED
        BY <2>1, <2>2, <3>1, <3>3, <3>4 DEF IInv, ghosts
    <2>5. QED
      BY <2>3, <2>4
  <1>2. CASE GetReply
    <2> DEFINE s == Head(stk).slot
    <2>1. /\ stk # <<>> /\ Head(stk).op = "get" /\ next_ptr <= MaxPtr /\ next_ptr' = next_ptr + 1
          /\ IF IsStr(s) THEN Intern(s) ELSE Cache(s)
          /\ stk' = Tail(stk) /\ UNCHANGED <<val, gone, ghosts>>
      BY <1>2 DEF GetReply
    <2>2. s \in Slots /\ s.owner \notin gone
      <3>1. Head(stk) \in Getting /\ Head(stk) = stk[1] /\ 1 \in DOMAIN stk
        BY <2>1, <1>0, TopCall
      <3>2. QED
        BY <2>1, <3>1, <1>0 DEF Getting, CallsOK
    <2> HIDE DEF s
    <2>3. /\ TableOK' /\ Entries \subseteq Entries'
          /\ \A e \in Entries' \ Entries : e.slot = s
          /\ \E p \in 1 .. next_ptr : /\ held' = held \cup {<<p, s>>}
                                      /\ \E e \in Entries' : e.ptr = p /\ e.slot = s
      BY <2>1, <2>2, <1>0, CacheSound, InternSound
    <2>4. CallsOK'
      BY <2>1, <1>0, CallReturned
    <2>5. HeldKept'
      BY <2>1, <2>2, <2>3 DEF IInv, HeldKept, ghosts
    <2>6. held' \subseteq (1 .. next_ptr' - 1) \X Slots
      BY <2>1, <2>2, <2>3, <1>0 DEF IInv, TableOK
    <2>7. OwnersOK'
      BY <2>1, <2>2, <2>3, <1>0, OwnersKept DEF ghosts
    <2>8. QED
      BY <2>1, <2>2, <2>3, <2>4, <2>5, <2>6, <2>7 DEF IInv, ghosts
  <1>3. ASSUME NEW m \in Mutators, NEW r \in Roots, Mutate(m, r) PROVE IInv'
    <2> DEFINE f == [op |-> m, about |-> HandleId(r), root |-> r, applied |-> FALSE]
    <2>1. /\ HandleId(r) \notin gone /\ stk' = <<f>> \o stk
          /\ UNCHANGED <<live, detached, freed, next_ptr, val, gone, held, ghosts>>
      BY <1>3 DEF Mutate, MayCall
    <2>2. f \in Mutating /\ f.about \notin gone /\ f.op # "get" /\ f.about = HandleId(f.root)
      BY <2>1, CacheAssumption, Objs DEF Mutating, Under
    <2>3. CallsOK'
      BY <2>1, <2>2, <1>0, CallMade
    <2>4. Entries' = Entries /\ TableOK'
      BY <2>1, <1>0 DEF Entries, TableOK
    <2>5. OwnersOK'
      BY <2>1, <2>4, <1>0, OwnersKept DEF ghosts
    <2>6. QED
      BY <2>1, <2>3, <2>4, <2>5 DEF IInv, HeldKept, ghosts
  <1>4. ASSUME NEW S \in SUBSET Changing, NEW P \in SUBSET Packages, Apply(S, P) PROVE IInv'
    <2> DEFINE f == [stk[1] EXCEPT !.applied = TRUE]
               q == stk[1].root
    <2>1. /\ stk # <<>> /\ IsMutator(Head(stk))
          /\ P \subseteq Frees(Head(stk).op, Head(stk).root) /\ Unused(P)
          /\ val' = [s \in Slots |-> IF s \in S THEN 1 - val[s] ELSE val[s]]
          /\ stk' = [stk EXCEPT ![1] = f]
          /\ gone' = gone \cup P /\ held' = {h \in held : h[2].owner \notin P}
          /\ orphaned' = orphaned \cup P
          /\ UNCHANGED <<live, detached, freed, next_ptr, unseen, refused>>
      BY <1>4 DEF Apply, Destroys
    <2>t. Head(stk) = stk[1] /\ 1 \in DOMAIN stk /\ stk[1] \in Mutating /\ stk[1].op \in Mutators
      BY <2>1, <1>0, TopCall DEF IsMutator
    <2>2. /\ f \in Mutating /\ f.about = stk[1].about /\ f.op = stk[1].op /\ f.op # "get"
          /\ f.root = q
      BY <2>t, CacheAssumption DEF Mutating
    <2>p. P \subseteq {PkgId(q)} /\ HandleId(q) \notin gone
      BY <2>1, <2>t, <1>0 DEF Frees, CallsOK
    <2> HIDE DEF f, q
    <2>3. CallsOK'
      <3>1. /\ stk' \in Seq(Getting \cup Mutating) /\ DOMAIN stk' = DOMAIN stk /\ stk'[1] = f
            /\ \A i \in DOMAIN stk : i # 1 => stk'[i] = stk[i]
        BY <2>1, <2>2, <1>0 DEF CallsOK
      <3>2. \A i \in DOMAIN stk' : stk'[i].about = stk[i].about
        BY <2>2, <3>1
      <3>3. \A i \in DOMAIN stk' : stk'[i].about \notin gone'
        BY <2>1, <3>1, <3>2, <1>0 DEF CallsOK, Unused
      <3>4. f.about = HandleId(f.root)
        BY <2>2, <2>t, <1>0 DEF CallsOK, q
      <3>5. QED
        BY <2>1, <2>2, <3>1, <3>3, <3>4, <1>0 DEF CallsOK
    <2>4. val' \in [Slots -> {0, 1}]
      BY <2>1, <1>0
    <2>5. Entries' = Entries /\ TableOK'
      BY <2>1, <1>0 DEF Entries, TableOK
    <2>6. OwnersOK'
      <3>1. \A x : HandleId(x) \notin P
        BY <2>p, Objs
      <3>2. \A e \in Entries' : e.slot.owner \in P =>
              e.slot.owner \in orphaned' /\ HandleId(e.slot.owner.root) \notin gone
        BY <2>1, <2>p, Objs
      <3>3. QED
        BY <2>1, <2>5, <3>1, <3>2, <1>0, OwnersDestroyed
    <2>7. P \subseteq Objects
      BY Objs
    <2>8. QED
      BY <2>1, <2>3, <2>4, <2>5, <2>6, <2>7, <1>0, ShrunkIInv
  <1>5. CASE MutatorReply
    <2> DEFINE S == Detaches(Head(stk).op, Head(stk).root)
    <2>1. /\ Detach(S) /\ stk # <<>> /\ stk' = Tail(stk)
          /\ UNCHANGED <<freed, next_ptr, val, gone, held, ghosts>>
      BY <1>5 DEF MutatorReply
    <2> HIDE DEF S
    <2>2. CallsOK'
      BY <2>1, <1>0, CallReturned
    <2>3. TableOK' /\ Entries' = Entries
      BY <2>1, <1>0, DetachSound
    <2>4. OwnersOK'
      BY <2>1, <2>3, <1>0, OwnersKept DEF ghosts
    <2>5. QED
      BY <2>1, <2>2, <2>3, <2>4, <1>0, ShrunkIInv DEF ghosts
  <1>6. CASE ReplyLost
    <2>1. /\ stk # <<>> /\ stk' = Tail(stk) /\ unseen \subseteq unseen'
          /\ UNCHANGED <<live, detached, freed, next_ptr, val, gone, held, refused, orphaned>>
      BY <1>6 DEF ReplyLost
    <2>2. CallsOK'
      BY <2>1, <1>0, CallReturned
    <2>3. Entries' = Entries /\ TableOK'
      BY <2>1, <1>0 DEF Entries, TableOK
    <2>4. OwnersOK'
      BY <2>1, <2>3, <1>0, OwnersKept
    <2>5. QED
      BY <2>1, <2>2, <2>3, <2>4, <1>0, ShrunkIInv
  <1>7. ASSUME NEW r \in Roots, NEW lost \in BOOLEAN, Release(r, lost) PROVE IInv'
    <2> DEFINE O == Under(r)
    <2>1. /\ Unused(O) /\ gone' = gone \cup O
          /\ IF lost THEN Unreported(SlotsOf(O)) ELSE Purge(O) /\ UNCHANGED unseen
          /\ held' = {h \in held : h[2].owner \notin O}
          /\ UNCHANGED <<next_ptr, stk, val, refused, orphaned>>
      BY <1>7 DEF Release, Destroys
    <2>2. O \subseteq Objects /\ \A q : HandleId(q) \in O => q = r
      BY Objs
    <2>3. \A o \in Objects : o.root = r => o \in O
      BY Objs
    <2> HIDE DEF O
    <2>4. CallsOK'
      BY <2>1, <1>0, CallsDestroyed
    <2>5. /\ TableOK' /\ Entries' \subseteq Entries /\ unseen \subseteq unseen'
          /\ \A e \in Entries' : e.slot.owner \in O => e.slot \in unseen'
          /\ \A e \in Entries \ Entries' : e.slot.owner \in O
      <3>1. CASE lost
        <4>1. TableOK' /\ Entries' = Entries /\ unseen' = unseen \cup SlotsOf(O)
          BY <2>1, <3>1, <1>0, UnreportedSound
        <4>2. QED
          BY <4>1, <1>0, EntryTyped DEF SlotsOf
      <3>2. CASE ~lost
        <4>1. TableOK' /\ Entries' = {e \in Entries : e.slot.owner \notin O} /\ unseen' = unseen
          BY <2>1, <3>2, <1>0, PurgeSound
        <4>2. QED
          BY <4>1
      <3>3. QED
        BY <3>1, <3>2
    <2>6. OwnersOK'
      <3> SUFFICES ASSUME NEW e \in Entries', e.slot.owner \in gone', e.slot \notin unseen'
                   PROVE  Adrift(e.slot.owner)'
        BY DEF OwnersOK
      <3>1. e.slot.owner \in gone /\ e.slot.owner \notin O
        BY <2>1, <2>5
      <3>2. Adrift(e.slot.owner) /\ e.slot.owner \in Objects
        BY <3>1, <2>5, <1>0 DEF OwnersOK
      <3>3. HandleId(e.slot.owner.root) \notin O
        BY <3>1, <3>2, <2>2, <2>3
      <3>4. QED
        BY <2>1, <3>2, <3>3 DEF Adrift
    <2>7. QED
      BY <2>1, <2>2, <2>4, <2>5, <2>6, <1>0, ShrunkIInv
  <1>8. ASSUME NEW r \in Roots, NEW refuses \in BOOLEAN, NEW lost \in BOOLEAN,
               DbUnregister(r, refuses, lost)
        PROVE  IInv'
    <2> DEFINE D == {DbId(r), PkgId(r)}
               U == SlotsOf({DbId(r)}) \cup {DbList(r)}
    <2>1. /\ Unused(D) /\ HandleId(r) \notin gone /\ DbId(r) \notin gone
          /\ IF lost THEN Unreported(U) ELSE PurgeDb(r) /\ UNCHANGED unseen
          /\ \/ refused' = refused \cup {DbId(r)} /\ UNCHANGED <<gone, held, val, orphaned>>
             \/ /\ gone' = gone \cup D /\ held' = {h \in held : h[2].owner \notin D}
                /\ val' = [s \in Slots |-> IF s = DbList(r) THEN 1 - val[s] ELSE val[s]]
                /\ orphaned' = orphaned \cup {PkgId(r)} /\ UNCHANGED refused
          /\ UNCHANGED <<next_ptr, stk>>
      BY <1>8 DEF DbUnregister, MayUnregister, MayCall, DbsGo, Destroys
    <2>2. /\ D \subseteq Objects /\ {DbId(r), PkgId(r)} \subseteq D /\ \A q : HandleId(q) \notin D
          /\ \A o \in D : o.root = r /\ (o = DbId(r) \/ o = PkgId(r))
      BY Objs DEF Under
    <2> HIDE DEF D
    <2>3. CallsOK'
      BY <2>1, <1>0, CallsDestroyed
    <2>4. /\ TableOK' /\ Entries' \subseteq Entries /\ unseen \subseteq unseen'
          /\ \A e \in Entries' : e.slot.owner = DbId(r) => e.slot \in unseen'
          /\ \A e \in Entries \ Entries' : e.slot.owner = DbId(r)
      <3>1. CASE lost
        <4>1. TableOK' /\ Entries' = Entries /\ unseen' = unseen \cup U
          BY <2>1, <3>1, <1>0, UnreportedSound
        <4>2. QED
          BY <4>1, <1>0, EntryTyped DEF SlotsOf
      <3>2. CASE ~lost
        <4>1. TableOK' /\ Entries' = {e \in Entries : e.slot.owner # DbId(r)} /\ unseen' = unseen
          BY <2>1, <3>2, <1>0, PurgeDbSound
        <4>2. QED
          BY <4>1
      <3>3. QED
        BY <3>1, <3>2
    <2>5. /\ val' \in [Slots -> {0, 1}] /\ gone' \subseteq Objects /\ orphaned' \subseteq gone'
          /\ refused \subseteq refused' /\ refused' \subseteq Objects /\ held' \subseteq held
          /\ \A h \in held' : h[2].owner = DbId(r) => DbId(r) \in refused'
      BY <2>1, <2>2, <1>0
    <2>6. OwnersOK'
      <3>1. CASE UNCHANGED <<gone, orphaned>>
        BY <3>1, <2>4, <1>0, OwnersKept
      <3>2. CASE gone' = gone \cup D /\ orphaned' = orphaned \cup {PkgId(r)}
        <4>1. \A e \in Entries' : e.slot.owner \in D =>
                \/ e.slot \in unseen'
                \/ e.slot.owner \in orphaned' /\ HandleId(e.slot.owner.root) \notin gone
          BY <2>1, <2>2, <2>4, <3>2
        <4>2. QED
          BY <2>2, <2>4, <3>2, <4>1, <1>0, OwnersDestroyed
      <3>3. QED
        BY <2>1, <3>1, <3>2
    <2>7. QED
      BY <2>1, <2>3, <2>4, <2>5, <2>6, <1>0, ShrunkIInv
  <1>9. ASSUME NEW r \in Roots, NEW refuses \in BOOLEAN, NEW lost \in BOOLEAN,
               UnregisterAll(r, refuses, lost)
        PROVE  IInv'
    <2> DEFINE D == {DbId(r), PkgId(r)}
               U == SlotsOf({DbId(r)}) \cup {DbList(r)}
    <2>1. /\ Unused(D) /\ HandleId(r) \notin gone
          /\ IF lost THEN Unreported(U) ELSE Detach(U) /\ UNCHANGED <<freed, unseen>>
          /\ \/ UNCHANGED <<gone, held, val, orphaned>>
             \/ /\ gone' = gone \cup D /\ held' = {h \in held : h[2].owner \notin D}
                /\ val' = [s \in Slots |-> IF s = DbList(r) THEN 1 - val[s] ELSE val[s]]
                /\ orphaned' = orphaned \cup D
          /\ UNCHANGED <<next_ptr, stk, refused>>
      BY <1>9 DEF UnregisterAll, MayUnregister, MayCall, DbsGo, Destroys
    <2>2. D \subseteq Objects /\ (\A q : HandleId(q) \notin D) /\ \A o \in D : o.root = r
      BY Objs DEF Under
    <2> HIDE DEF D, U
    <2>3. CallsOK'
      BY <2>1, <1>0, CallsDestroyed
    <2>4. TableOK' /\ Entries' = Entries /\ unseen \subseteq unseen'
      <3>1. CASE lost
        BY <2>1, <3>1, <1>0, UnreportedSound
      <3>2. CASE ~lost
        BY <2>1, <3>2, <1>0, DetachSound
      <3>3. QED
        BY <3>1, <3>2
    <2>5. /\ val' \in [Slots -> {0, 1}] /\ gone' \subseteq Objects /\ orphaned' \subseteq gone'
          /\ held' \subseteq held
      BY <2>1, <2>2, <1>0
    <2>6. OwnersOK'
      <3>1. CASE UNCHANGED <<gone, orphaned>>
        BY <3>1, <2>4, <1>0, OwnersKept
      <3>2. CASE gone' = gone \cup D /\ orphaned' = orphaned \cup D
        BY <2>1, <2>2, <2>4, <3>2, <1>0, OwnersDestroyed
      <3>3. QED
        BY <2>1, <3>1, <3>2
    <2>7. QED
      BY <2>1, <2>3, <2>4, <2>5, <2>6, <1>0, ShrunkIInv
  <1>10. ASSUME NEW p \in Packages, NEW lost \in BOOLEAN, PkgFree(p, lost) PROVE IInv'
    <2> DEFINE O == {p}
    <2>1. /\ Unused(O)
          /\ IF lost THEN Unreported(SlotsOf(O)) ELSE Purge(O) /\ UNCHANGED unseen
          /\ \/ gone' = gone \cup O /\ held' = {h \in held : h[2].owner \notin O} /\ refused' = refused
             \/ refused' = refused \cup O /\ UNCHANGED <<gone, held>>
          /\ UNCHANGED <<next_ptr, stk, val, orphaned>>
      BY <1>10 DEF PkgFree, Destroys
    <2>2. O \subseteq Objects /\ \A q : HandleId(q) \notin O
      BY Objs
    <2> HIDE DEF O
    <2>3. CallsOK'
      BY <2>1, <1>0, CallsDestroyed
    <2>4. /\ TableOK' /\ Entries' \subseteq Entries /\ unseen \subseteq unseen'
          /\ \A e \in Entries' : e.slot.owner \in O => e.slot \in unseen'
          /\ \A e \in Entries \ Entries' : e.slot.owner \in O
      <3>1. CASE lost
        <4>1. TableOK' /\ Entries' = Entries /\ unseen' = unseen \cup SlotsOf(O)
          BY <2>1, <3>1, <1>0, UnreportedSound
        <4>2. QED
          BY <4>1, <1>0, EntryTyped DEF SlotsOf
      <3>2. CASE ~lost
        <4>1. TableOK' /\ Entries' = {e \in Entries : e.slot.owner \notin O} /\ unseen' = unseen
          BY <2>1, <3>2, <1>0, PurgeSound
        <4>2. QED
          BY <4>1
      <3>3. QED
        BY <3>1, <3>2
    <2>5. /\ gone' \subseteq Objects /\ orphaned' \subseteq gone' /\ val' \in [Slots -> {0, 1}]
          /\ refused \subseteq refused' /\ refused' \subseteq Objects /\ held' \subseteq held
      BY <2>1, <2>2, <1>0
    <2>h. \A h \in held' : h[2].owner \in O => h[2].owner \in refused'
      BY <2>1
    <2>6. OwnersOK'
      <3>1. CASE gone' = gone
        BY <3>1, <2>1, <2>4, <1>0, OwnersKept
      <3>2. CASE gone' = gone \cup O
        BY <3>2, <2>1, <2>2, <2>4, <1>0, OwnersDestroyed
      <3>3. QED
        BY <2>1, <3>1, <3>2
    <2>7. QED
      BY <2>1, <2>3, <2>4, <2>5, <2>6, <2>h, <1>0, ShrunkIInv
  <1>11. CASE UNCHANGED vars
    <2>1. /\ Entries' = Entries
          /\ UNCHANGED <<live, detached, freed, next_ptr, stk, val, gone, held, unseen, refused,
                         orphaned>>
      BY <1>11 DEF vars, ghosts, Entries
    <2>2. TableOK' /\ CallsOK'
      BY <2>1, <1>0 DEF TableOK, CallsOK
    <2>3. OwnersOK'
      BY <2>1, <1>0, OwnersKept
    <2>4. QED
      BY <2>1, <2>2, <2>3 DEF IInv, HeldKept
  <1>12. QED
    BY <1>1, <1>2, <1>3, <1>4, <1>5, <1>6, <1>7, <1>8, <1>9, <1>10, <1>11 DEF Next

MishapsInv == mishaps \in 0 .. MaxMishaps

\* A lost reply and a refusal are counted when they happen, up to the bound.
LEMMA MishapsBounded == Spec => []MishapsInv
  <1>1. Init => MishapsInv
    BY CacheAssumption DEF Init, MishapsInv
  <1>2. MishapsInv /\ [Next]_vars => MishapsInv'
    <2> SUFFICES ASSUME MishapsInv, [Next]_vars
                 PROVE  mishaps' = mishaps \/ \E refuses, lost \in BOOLEAN : Mishap(refuses, lost)
      BY CacheAssumption DEF MishapsInv, Mishap
    <2>1. CASE \/ GetReply \/ MutatorReply \/ UNCHANGED vars
               \/ \E s \in Slots : Get(s)
               \/ \E m \in Mutators, r \in Roots : Mutate(m, r)
               \/ \E S \in SUBSET Changing, P \in SUBSET Packages : Apply(S, P)
      BY <2>1 DEF GetReply, MutatorReply, Get, Mutate, Apply, vars, ghosts
    <2>2. CASE ReplyLost
      BY <2>2 DEF ReplyLost
    <2>3. ASSUME NEW r \in Roots, NEW lost \in BOOLEAN, Release(r, lost)
          PROVE  Mishap(FALSE, lost)
      BY <2>3 DEF Release
    <2>4. ASSUME NEW r \in Roots, NEW refuses \in BOOLEAN, NEW lost \in BOOLEAN,
                 DbUnregister(r, refuses, lost) \/ UnregisterAll(r, refuses, lost)
          PROVE  Mishap(refuses, lost)
      BY <2>4 DEF DbUnregister, UnregisterAll
    <2>5. ASSUME NEW p \in Packages, NEW lost \in BOOLEAN, PkgFree(p, lost)
          PROVE  Mishap(p # LoadedId(p.root), lost)
      BY <2>5 DEF PkgFree
    <2>6. QED
      BY <2>1, <2>2, <2>3, <2>4, <2>5 DEF Next
  <1>3. QED
    BY <1>1, <1>2, PTL DEF Spec

\* The invariant and what it implies: the type, the tables, and that what a caller
\* holds is not freed.
LEMMA IInvImplies == IInv /\ MishapsInv => TypeOK /\ EntriesOwned /\ HeldUnlessRefused
  <1> SUFFICES ASSUME IInv, MishapsInv PROVE TypeOK /\ EntriesOwned /\ HeldUnlessRefused
    OBVIOUS
  <1>1. TypeOK
    BY DEF IInv, TypeOK, TableOK, CallsOK, MishapsInv
  <1>2. EntriesOwned
    BY <1>1 DEF IInv, EntriesOwned, TableOK, OwnersOK
  <1>3. HeldUnlessRefused
    BY DEF IInv, HeldKept, HeldUnlessRefused, TableOK
  <1>4. QED
    BY <1>1, <1>2, <1>3

\* The inductive invariant of the cache, on every behaviour.
THEOREM CacheInvariant == Spec => []IInv
  <1>1. QED
    BY InitIInv, NextIInv, PTL DEF Spec

\* "Strings and lists both stay valid as long as the object they came from"
\* (arpc_client.c): a pointer a caller was handed is freed only with its owner, or under an
\* object libalpm refused to destroy, however stubs nest through callbacks and
\* whichever replies are lost.
THEOREM HeldPointersValid == Spec => []HeldUnlessRefused
  <1>1. QED
    BY CacheInvariant, MishapsBounded, IInvImplies, PTL

\* arpc_purge_root, arpc_purge_owner and intern: every entry is filed under its slot and
\* is its own memory, none is released twice, none of an object destroyed is left behind
\* but by a lost reply or, until the handle goes, by a call about another object, and a
\* string is kept once per value.
THEOREM CacheEntriesOwned == Spec => []EntriesOwned
  <1>1. QED
    BY CacheInvariant, MishapsBounded, IInvImplies, PTL

-----------------------------------------------------------------------------
(* A cached list keeps its pointer.                                        *)

\* arpc_cache: a list in the cache is the one every stub that fetched it gets, also the
\* stub a callback overtook; no step replaces it under the callers that hold it.
THEOREM CachedListStable == Spec => CachedPointerStable
  <1> DEFINE Stable == \A s \in DOMAIN live \cap DOMAIN live' :
                         ~IsStr(s) => live'[s].ptr = live[s].ptr
  <1>1. IInv /\ [Next]_vars => [Stable]_vars
    <2> SUFFICES ASSUME IInv, Next PROVE Stable
      BY DEF vars
    <2>0. TableOK /\ CallsOK /\ MaxPtr \in Nat /\ val \in [Slots -> {0, 1}]
      BY CacheAssumption DEF IInv
    <2>1. ASSUME live' = live PROVE Stable
      BY <2>1
    <2>2. ASSUME NEW S, live' = Without(S) PROVE Stable
      BY <2>2 DEF Without
    <2>3. ASSUME NEW s \in Slots, Get(s) PROVE Stable
      BY <2>1, <2>3 DEF Get
    <2>4. CASE GetReply
      <3> DEFINE s == Head(stk).slot
      <3>1. CASE IsStr(s)
        <4>1. PICK e : live' = With(s, e)
          BY <2>4, <3>1 DEF GetReply, Intern
        <4>2. QED
          BY <3>1, <4>1 DEF With
      <3>2. CASE ~IsStr(s)
        <4>1. live' = live \/ (s \notin DOMAIN live
                               /\ live' = With(s, Entry(s, next_ptr, val[s])))
          BY <2>4, <3>2 DEF GetReply, Cache
        <4>2. QED
          BY <4>1 DEF With
      <3>3. QED
        BY <3>1, <3>2
    <2>5. ASSUME NEW m \in Mutators, NEW r \in Roots, Mutate(m, r) PROVE Stable
      BY <2>1, <2>5 DEF Mutate
    <2>6. ASSUME NEW S \in SUBSET Changing, NEW P \in SUBSET Packages, Apply(S, P) PROVE Stable
      BY <2>1, <2>6 DEF Apply
    <2>7. CASE MutatorReply
      BY <2>2, <2>7 DEF MutatorReply, Detach
    <2>8. CASE ReplyLost
      BY <2>1, <2>8 DEF ReplyLost
    <2>9. ASSUME NEW r \in Roots, NEW lost \in BOOLEAN, Release(r, lost) PROVE Stable
      BY <2>1, <2>2, <2>9 DEF Release, Purge, Unreported
    <2>10. ASSUME NEW r \in Roots, NEW refuses \in BOOLEAN, NEW lost \in BOOLEAN,
                  DbUnregister(r, refuses, lost)
           PROVE  Stable
      BY <2>1, <2>2, <2>10 DEF DbUnregister, PurgeDb, Unreported
    <2>11. ASSUME NEW r \in Roots, NEW refuses \in BOOLEAN, NEW lost \in BOOLEAN,
                  UnregisterAll(r, refuses, lost)
           PROVE  Stable
      BY <2>1, <2>2, <2>11 DEF UnregisterAll, Detach, Unreported
    <2>12. ASSUME NEW p \in Packages, NEW lost \in BOOLEAN, PkgFree(p, lost) PROVE Stable
      BY <2>1, <2>2, <2>12 DEF PkgFree, Purge, Unreported
    <2>13. QED
      BY <2>3, <2>4, <2>5, <2>6, <2>7, <2>8, <2>9, <2>10, <2>11, <2>12 DEF Next
  <1>2. QED
    BY <1>1, CacheInvariant, PTL DEF Spec, CachedPointerStable

-----------------------------------------------------------------------------
(* Stale lists.                                                            *)

\* The slots a change already made may concern, whose reply is still to come.
Pending ==
  {s \in Slots : \E i \in DOMAIN stk : /\ stk[i].op \in Mutators /\ stk[i].applied
                                       /\ s \in Changes(stk[i].op, stk[i].root)}

\* A stale list is one such, or one whose change was never reported.
StaleKnown == Stale \subseteq unseen \cup Pending

\* rules.invalidates names everything a call changes, alpm_sync_sysupgrade aside.
LEMMA DetachesChanges ==
  ASSUME NEW m \in Mutators, m # "sysupgrade", NEW r \in Roots
  PROVE  Changes(m, r) \subseteq Detaches(m, r)
  BY CacheAssumption DEF Changes, Detaches

\* A step that is no change and no reply to one: a stub is called, or a getter's
\* reply comes in.
LEMMA QuietStale ==
  ASSUME StaleKnown, Pending \subseteq Pending', unseen \subseteq unseen', gone' = gone,
         val' = val,
         \A s \in DOMAIN live' :
           \/ IsStr(s)
           \/ s \in DOMAIN live /\ live'[s].val = live[s].val
           \/ live'[s].val = val[s]
  PROVE  StaleKnown'
  BY DEF StaleKnown, Stale

\* What is pending after the innermost stub returns.
LEMMA PendingAfter ==
  ASSUME CallsOK, stk # <<>>, stk' = Tail(stk)
  PROVE  /\ \A s \in Pending : s \in Pending' \/ ( /\ IsMutator(Head(stk))
                                                  /\ s \in Changes(Head(stk).op, Head(stk).root))
  <1> SUFFICES ASSUME NEW s \in Pending, s \notin Pending'
               PROVE  IsMutator(Head(stk)) /\ s \in Changes(Head(stk).op, Head(stk).root)
    OBVIOUS
  <1>1. PICK i \in DOMAIN stk : /\ stk[i].op \in Mutators /\ stk[i].applied
                                /\ s \in Changes(stk[i].op, stk[i].root)
    BY DEF Pending
  <1>2. s \in Slots
    BY DEF Pending
  <1>3. i = 1 \/ (i - 1 \in DOMAIN stk' /\ stk'[i - 1] = stk[i])
    BY DEF CallsOK
  <1>4. i = 1
    BY <1>1, <1>2, <1>3 DEF Pending
  <1>5. QED
    BY <1>1, <1>4, TopCall DEF IsMutator

\* What is pending after a stub is called.
LEMMA PendingBefore ==
  ASSUME CallsOK, NEW f \in Getting \cup Mutating, stk' = <<f>> \o stk
  PROVE  Pending \subseteq Pending'
  <1> SUFFICES ASSUME NEW s \in Pending PROVE s \in Pending'
    OBVIOUS
  <1>1. PICK i \in DOMAIN stk : /\ stk[i].op \in Mutators /\ stk[i].applied
                                /\ s \in Changes(stk[i].op, stk[i].root)
    BY DEF Pending
  <1>2. i + 1 \in DOMAIN stk' /\ stk'[i + 1] = stk[i]
    BY DEF CallsOK
  <1>3. QED
    BY <1>1, <1>2 DEF Pending

\* Every step leaves a stale list either pending or unseen, as long as every call
\* detaches what it changes.
LEMMA NextStale ==
  ASSUME IInv, StaleKnown, [Next]_vars, "sysupgrade" \notin Mutators
  PROVE  StaleKnown'
  <1>0. TableOK /\ CallsOK /\ MaxPtr \in Nat /\ val \in [Slots -> {0, 1}]
    BY CacheAssumption DEF IInv
  <1>s. \A s \in Slots : s.owner \in Objects
    BY Objs
  <1>q. ASSUME live' = live, stk' = stk \/ (\E f \in Getting \cup Mutating : stk' = <<f>> \o stk),
               UNCHANGED <<unseen, gone, val>>
        PROVE  StaleKnown'
    <2>1. Pending \subseteq Pending'
      BY <1>q, <1>0, PendingBefore DEF Pending
    <2>2. QED
      BY <1>q, <2>1, QuietStale
  <1>l. ASSUME NEW list, stk' = stk, gone \subseteq gone', unseen \subseteq unseen',
               val' = val \/ val' = [s \in Slots |-> IF s = list THEN 1 - val[s] ELSE val[s]],
               \/ live' = live /\ list \in unseen'
               \/ \E S : live' = Without(S) /\ ({list} \cap DOMAIN live) \subseteq S
        PROVE  StaleKnown'
    <2>1. Pending' = Pending
      BY <1>l DEF Pending
    <2>2. \A s \in Stale' : s \in Stale \/ s \in unseen'
      BY <1>l, <1>0 DEF Stale, Without, TableOK
    <2>3. QED
      BY <1>l, <2>1, <2>2 DEF StaleKnown
  <1>1. ASSUME NEW s \in Slots, Get(s) PROVE StaleKnown'
    <2> DEFINE f == [op |-> "get", about |-> s.owner, slot |-> s]
    <2>1. f \in Getting
      BY <1>s DEF Getting
    <2>2. stk' = stk \/ stk' = <<f>> \o stk
      BY <1>1 DEF Get
    <2>3. live' = live /\ UNCHANGED <<unseen, gone, val>>
      BY <1>1 DEF Get, ghosts
    <2> HIDE DEF f
    <2>4. QED
      BY <2>1, <2>2, <2>3, <1>q
  <1>2. CASE GetReply
    <2> DEFINE s == Head(stk).slot
    <2>1. /\ stk # <<>> /\ Head(stk).op = "get"
          /\ IF IsStr(s) THEN Intern(s) ELSE Cache(s)
          /\ stk' = Tail(stk) /\ UNCHANGED <<val, gone, unseen>>
      BY <1>2 DEF GetReply, ghosts
    <2>2. ~IsMutator(Head(stk))
      BY <2>1, CacheAssumption DEF IsMutator
    <2>3. Pending \subseteq Pending'
      BY <2>1, <2>2, <1>0, PendingAfter
    <2>4. \A x \in DOMAIN live' : \/ IsStr(x)
                                  \/ x \in DOMAIN live /\ live'[x].val = live[x].val
                                  \/ live'[x].val = val[x]
      <3>1. CASE IsStr(s)
        <4>1. PICK e : live' = With(s, e)
          BY <2>1, <3>1 DEF Intern
        <4>2. QED
          BY <3>1, <4>1 DEF With
      <3>2. CASE ~IsStr(s)
        <4>1. live' = live \/ live' = With(s, Entry(s, next_ptr, val[s]))
          BY <2>1, <3>2 DEF Cache
        <4>2. QED
          BY <4>1 DEF With, Entry
      <3>3. QED
        BY <3>1, <3>2
    <2>5. QED
      BY <2>1, <2>3, <2>4, QuietStale
  <1>3. ASSUME NEW m \in Mutators, NEW r \in Roots, Mutate(m, r) PROVE StaleKnown'
    <2> DEFINE f == [op |-> m, about |-> HandleId(r), root |-> r, applied |-> FALSE]
    <2>1. f \in Mutating
      BY Objs DEF Mutating, Under
    <2>2. stk' = <<f>> \o stk /\ live' = live /\ UNCHANGED <<unseen, gone, val>>
      BY <1>3 DEF Mutate, ghosts
    <2> HIDE DEF f
    <2>3. QED
      BY <2>1, <2>2, <1>q
  <1>4. ASSUME NEW S \in SUBSET Changing, NEW P \in SUBSET Packages, Apply(S, P) PROVE StaleKnown'
    <2> DEFINE f == [stk[1] EXCEPT !.applied = TRUE]
    <2>0. stk # <<>> /\ IsMutator(Head(stk))
      BY <1>4 DEF Apply
    <2>c. S \subseteq Slots /\ S \subseteq Changes(Head(stk).op, Head(stk).root)
      BY <2>0 DEF Changing
    <2>1. /\ stk # <<>> /\ IsMutator(Head(stk)) /\ S \subseteq Changes(Head(stk).op, Head(stk).root)
          /\ val' = [s \in Slots |-> IF s \in S THEN 1 - val[s] ELSE val[s]]
          /\ stk' = [stk EXCEPT ![1] = f]
          /\ gone \subseteq gone' /\ UNCHANGED <<live, unseen>>
      BY <1>4, <2>c DEF Apply, Destroys
    <2>2. /\ f \in Mutating /\ f.applied /\ f.op = stk[1].op /\ f.root = stk[1].root
          /\ f.op \in Mutators /\ Head(stk) = stk[1]
      <3>1. stk[1] \in Mutating /\ Head(stk) = stk[1]
        BY <2>1, <1>0, TopCall
      <3>2. QED
        BY <3>1 DEF Mutating
    <2> HIDE DEF f
    <2>3. /\ DOMAIN stk' = DOMAIN stk /\ stk'[1] = f /\ 1 \in DOMAIN stk
          /\ \A i \in DOMAIN stk : i # 1 => stk'[i] = stk[i]
      BY <2>1, <2>2, <1>0, TopCall DEF CallsOK
    <2>4. S \subseteq Pending'
      <3> SUFFICES ASSUME NEW s \in S PROVE s \in Pending'
        OBVIOUS
      <3>1. /\ stk'[1].op \in Mutators /\ stk'[1].applied /\ 1 \in DOMAIN stk'
            /\ s \in Changes(stk'[1].op, stk'[1].root)
        BY <2>1, <2>2, <2>3
      <3>2. QED
        BY <3>1, <2>c DEF Pending
    <2>5. Pending \subseteq Pending'
      <3> SUFFICES ASSUME NEW s \in Pending PROVE s \in Pending'
        OBVIOUS
      <3>1. PICK i \in DOMAIN stk : /\ stk[i].op \in Mutators /\ stk[i].applied
                                    /\ s \in Changes(stk[i].op, stk[i].root)
        BY DEF Pending
      <3>2. /\ stk'[i].op \in Mutators /\ stk'[i].applied
            /\ s \in Changes(stk'[i].op, stk'[i].root) /\ i \in DOMAIN stk'
        BY <2>2, <2>3, <3>1
      <3>3. QED
        BY <3>2 DEF Pending
    <2>6. \A s \in Stale' : s \in Stale \/ s \in S
      BY <2>1, <1>0 DEF Stale, TableOK
    <2>7. QED
      BY <2>1, <2>4, <2>5, <2>6 DEF StaleKnown
  <1>5. CASE MutatorReply
    <2> DEFINE m == Head(stk).op
               r == Head(stk).root
    <2>1. /\ live' = Without(Detaches(m, r) \cap DOMAIN live)
          /\ stk # <<>> /\ stk' = Tail(stk) /\ IsMutator(Head(stk))
          /\ UNCHANGED <<val, gone, unseen>>
      BY <1>5 DEF MutatorReply, Detach, ghosts
    <2>2. m \in Mutators /\ m # "sysupgrade" /\ r \in Roots
      BY <2>1, <1>0, TopCall DEF Mutating
    <2>3. Changes(m, r) \subseteq Detaches(m, r)
      BY <2>2, DetachesChanges
    <2>4. \A s \in Pending : s \in Pending' \/ s \in Changes(m, r)
      BY <2>1, <1>0, PendingAfter
    <2> HIDE DEF m, r
    <2>5. \A s \in Stale' : s \in Stale /\ s \notin Changes(m, r)
      BY <2>1, <2>3 DEF Stale, Without
    <2>6. QED
      BY <2>1, <2>4, <2>5 DEF StaleKnown
  <1>6. CASE ReplyLost
    <2>1. /\ stk # <<>> /\ stk' = Tail(stk) /\ UNCHANGED <<live, val, gone>>
          /\ unseen' = unseen \cup (IF IsMutator(Head(stk))
                                    THEN Changes(Head(stk).op, Head(stk).root) ELSE {})
      BY <1>6 DEF ReplyLost
    <2>2. \A s \in Pending : s \in Pending' \/ s \in unseen'
      BY <2>1, <1>0, PendingAfter
    <2>3. Stale' = Stale
      BY <2>1 DEF Stale
    <2>4. QED
      BY <2>1, <2>2, <2>3 DEF StaleKnown
  <1>7. ASSUME NEW r \in Roots, NEW lost \in BOOLEAN, Release(r, lost) PROVE StaleKnown'
    <2>1. /\ stk' = stk /\ val' = val /\ gone \subseteq gone' /\ unseen \subseteq unseen'
          /\ live' = live \/ \E S : live' = Without(S)
      BY <1>7 DEF Release, Destroys, Purge, Unreported
    <2>2. Pending' = Pending
      BY <2>1 DEF Pending
    <2>3. Stale' \subseteq Stale
      BY <2>1 DEF Stale, Without
    <2>4. QED
      BY <2>1, <2>2, <2>3 DEF StaleKnown
  <1>8. ASSUME NEW r \in Roots, NEW refuses \in BOOLEAN, NEW lost \in BOOLEAN,
               DbUnregister(r, refuses, lost)
        PROVE  StaleKnown'
    <2> DEFINE list == DbList(r)
    <2>1. /\ stk' = stk /\ gone \subseteq gone' /\ unseen \subseteq unseen'
          /\ val' = val \/ val' = [s \in Slots |-> IF s = list THEN 1 - val[s] ELSE val[s]]
          /\ \/ live' = live /\ list \in unseen'
             \/ \E S : live' = Without(S) /\ ({list} \cap DOMAIN live) \subseteq S
      BY <1>8 DEF DbUnregister, DbsGo, Destroys, PurgeDb, Unreported
    <2> HIDE DEF list
    <2>2. QED
      BY <2>1, <1>l
  <1>9. ASSUME NEW r \in Roots, NEW refuses \in BOOLEAN, NEW lost \in BOOLEAN,
               UnregisterAll(r, refuses, lost)
        PROVE  StaleKnown'
    <2> DEFINE list == DbList(r)
    <2>1. /\ stk' = stk /\ gone \subseteq gone' /\ unseen \subseteq unseen'
          /\ val' = val \/ val' = [s \in Slots |-> IF s = list THEN 1 - val[s] ELSE val[s]]
          /\ \/ live' = live /\ list \in unseen'
             \/ \E S : live' = Without(S) /\ ({list} \cap DOMAIN live) \subseteq S
      BY <1>9 DEF UnregisterAll, DbsGo, Destroys, Detach, Unreported
    <2> HIDE DEF list
    <2>2. QED
      BY <2>1, <1>l
  <1>10. ASSUME NEW p \in Packages, NEW lost \in BOOLEAN, PkgFree(p, lost) PROVE StaleKnown'
    <2>1. /\ stk' = stk /\ val' = val /\ gone \subseteq gone' /\ unseen \subseteq unseen'
          /\ live' = live \/ \E S : live' = Without(S)
      BY <1>10 DEF PkgFree, Destroys, Purge, Unreported
    <2>2. Pending' = Pending
      BY <2>1 DEF Pending
    <2>3. Stale' \subseteq Stale
      BY <2>1 DEF Stale, Without
    <2>4. QED
      BY <2>1, <2>2, <2>3 DEF StaleKnown
  <1>11. CASE UNCHANGED vars
    BY <1>11, <1>q DEF vars, ghosts
  <1>12. QED
    BY <1>1, <1>2, <1>3, <1>4, <1>5, <1>6, <1>7, <1>8, <1>9, <1>10, <1>11 DEF Next

\* "The next read of one fetches afresh" (arpc_client.c): where rules.invalidates names
\* what every call of the caller changes, a list left stale between calls is one whose
\* reply was lost.  alpm_sync_sysupgrade is the call for which it does not.
THEOREM StaleListsUnseen ==
  ASSUME "sysupgrade" \notin Mutators
  PROVE  Spec => []StaleOnlyIfUnseen
  <1>1. Init => StaleKnown
    BY DEF Init, StaleKnown, Stale
  <1>2. IInv /\ StaleKnown /\ [Next]_vars => StaleKnown'
    BY NextStale
  <1>3. StaleKnown => StaleOnlyIfUnseen
    BY DEF StaleKnown, StaleOnlyIfUnseen, Pending
  <1>4. QED
    BY <1>1, <1>2, <1>3, CacheInvariant, PTL DEF Spec

=============================================================================
