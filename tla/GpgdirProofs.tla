---------------------------- MODULE GpgdirProofs ----------------------------
(***************************************************************************)
(* Proofs about the keyring in force, for any handles, directories, depth  *)
(* of nesting and number of failures.                                       *)
(***************************************************************************)
EXTENDS Gpgdir, TLAPS

\* The handles whose entry is their directory, as far as the server can know.
Current == {h \in Addr : seen[h] = dir[h] \/ h \in unread}

\* The handles whose directory gpgme points at, but for the named exceptions.
InForce == {h \in Addr : \/ engine = dir[h]
                         \/ h \in moved \cup unread \cup lapsed
                         \/ mislaid}

\* g_gpgdir is where gpgme points, unless gpgme was pointed without it being told.
Known == pointed = engine \/ mislaid

\* The inductive invariant.  A call that has not set a directory itself was
\* preceded by a reading of the entry, and by a pointing of gpgme; both are kept
\* for every call on the stack, since each becomes the innermost one again.  A call
\* about to set a directory has just had its error cleared and raises no callback.
IInv ==
  /\ TypeOK
  /\ Known
  /\ \A h \in live : err[h] => h \in Current
  /\ \A i \in DOMAIN stk :
       /\ stk[i].op \in {"call", "set"} => stk[i].h \in Current
       /\ stk[i].op = "call" => stk[i].h \in InForce
       /\ stk[i].op = "set" => stk[i].at = "libalpm" /\ ~err[stk[i].h]

\* A change of the innermost call leaves the others where they are.
LEMMA Topped ==
  ASSUME NEW S, NEW s \in Seq(S), s # <<>>, NEW x \in S
  PROVE  /\ [s EXCEPT ![1] = x] \in Seq(S)
         /\ Len([s EXCEPT ![1] = x]) = Len(s)
         /\ DOMAIN [s EXCEPT ![1] = x] = DOMAIN s
         /\ [s EXCEPT ![1] = x][1] = x
         /\ \A i \in DOMAIN s : i # 1 => [s EXCEPT ![1] = x][i] = s[i]
  OBVIOUS

\* What arpc_gpgdir_follow leaves: an entry for h, gpgme pointed for it, and the
\* handles of the other calls as they were or marked as moved.
LEMMA Followed ==
  ASSUME IInv, NEW h \in live, Follow(h)
  PROVE  /\ seen' \in [Addr -> Dir \cup {Nowhere}]
         /\ pointed' \in Dir \cup {Nowhere} /\ engine' \in Dir \cup {Nowhere}
         /\ mislaid' \in BOOLEAN /\ faults' \in 0 .. MaxFaults
         /\ moved' \subseteq Addr /\ unread' \subseteq Addr /\ lapsed' \subseteq Addr
         /\ Known'
         /\ seen'[h] = dir[h] \/ h \in unread'
         /\ \/ engine' = dir[h]
            \/ h \in moved' \cup unread' \cup lapsed'
            \/ mislaid'
         /\ \A g \in Addr \ {h} : seen'[g] = seen[g] /\ (g \in unread' <=> g \in unread)
         /\ \A i \in DOMAIN stk : stk[i].h # h /\ stk[i].h \in InForce =>
              \/ engine' = dir[stk[i].h]
              \/ stk[i].h \in moved' \cup unread' \cup lapsed'
              \/ mislaid'
  <1> DEFINE d == GpgdirOf(h)
  <1>0. /\ h \in Addr /\ d \in Dir \cup {Nowhere} /\ Default \in Dir /\ Nowhere \notin Dir
        /\ MaxFaults \in Nat
        /\ \A i \in DOMAIN stk : stk[i].h \in Addr
    BY GpgdirAssumption DEF IInv, TypeOK, GpgdirOf, Reads, Frames
  <1>1. h \in Current \/ Reads(h)
    BY DEF IInv, Reads
  <1>2. d = dir[h] \/ (~Reads(h) /\ d = seen[h])
    BY DEF GpgdirOf
  <1> USE DEF TypeOK, Known, Current, InForce, Needed, MovedFor, PointedAfter
  <1> HIDE DEF d
  <1>3. CASE /\ ~Needed(d)
             /\ seen' = [seen EXCEPT ![h] = d]
             /\ unread' = IF Reads(h) THEN unread \ {h} ELSE unread
             /\ moved' = moved \ {h} /\ lapsed' = lapsed \ {h}
             /\ UNCHANGED <<pointed, engine, faults, mislaid>>
    BY <1>0, <1>1, <1>2, <1>3 DEF IInv
  <1>4. CASE /\ Needed(d)
             /\ seen' = [seen EXCEPT ![h] = d]
             /\ unread' = IF Reads(h) THEN unread \ {h} ELSE unread
             /\ engine' = d /\ moved' = MovedFor(h) /\ lapsed' = lapsed \ {h}
             /\ pointed' = PointedAfter(d, TRUE)
             /\ mislaid' = FALSE
             /\ UNCHANGED faults
    <2>1. /\ moved' \subseteq Addr
          /\ \A i \in DOMAIN stk : stk[i].h # h => stk[i].h \in moved'
      BY <1>0, <1>4 DEF IInv
    <2>2. pointed' = d /\ engine' = d /\ mislaid' \in BOOLEAN
      BY <1>4
    <2>3. QED
      BY <1>0, <1>1, <1>2, <1>4, <2>1, <2>2 DEF IInv
  <1>5. CASE /\ Reads(h) /\ faults < MaxFaults /\ faults' = faults + 1
             /\ \/ seen[h] = Nowhere /\ UNCHANGED seen
                \/ /\ d \notin {seen[h], Default}
                   /\ seen' = [seen EXCEPT ![h] = IF @ = Nowhere THEN Default ELSE @]
             /\ unread' = unread \cup {h}
             /\ UNCHANGED <<pointed, engine, moved, lapsed, mislaid>>
    BY <1>0, <1>5 DEF IInv
  <1>6. CASE /\ Needed(d)
             /\ seen' = [seen EXCEPT ![h] = d]
             /\ unread' = IF Reads(h) THEN unread \ {h} ELSE unread
             /\ faults < MaxFaults /\ faults' = faults + 1
             /\ pointed' = PointedAfter(d, FALSE)
             /\ lapsed' = lapsed \cup {h}
             /\ UNCHANGED <<engine, moved, mislaid>>
    BY <1>0, <1>1, <1>2, <1>6 DEF IInv
  <1>7. CASE /\ Needed(d) /\ d # Default
             /\ seen' = [seen EXCEPT ![h] = d]
             /\ unread' = IF Reads(h) THEN unread \ {h} ELSE unread
             /\ faults < MaxFaults /\ faults' = faults + 1
             /\ engine' = d /\ moved' = MovedFor(h) /\ lapsed' = lapsed \ {h}
             /\ mislaid' = TRUE
             /\ UNCHANGED pointed
    BY <1>0, <1>1, <1>2, <1>7 DEF IInv
  <1>8. QED
    BY <1>3, <1>4, <1>5, <1>6, <1>7, Zenon DEF Follow, d

\* No handle is open and gpgme points nowhere at first.
LEMMA InitIInv == Init => IInv
  <1> SUFFICES ASSUME Init PROVE IInv
    OBVIOUS
  <1>1. stk \in Seq(Frames) /\ Len(stk) = 0 /\ DOMAIN stk = {}
    BY DEF Init
  <1>2. live = {} /\ dir \in [Addr -> Dir] /\ seen \in [Addr -> Dir \cup {Nowhere}]
    BY GpgdirAssumption DEF Init
  <1>3. err \in [Addr -> BOOLEAN]
    BY DEF Init
  <1>4. inited \in BOOLEAN /\ mislaid \in BOOLEAN
    BY DEF Init
  <1>5. faults \in 0 .. MaxFaults /\ Len(stk) <= MaxDepth
    BY <1>1, GpgdirAssumption DEF Init
  <1>6. moved = {} /\ unread = {} /\ lapsed = {} /\ pointed = Nowhere /\ engine = Nowhere
    BY DEF Init
  <1>7. TypeOK
    BY <1>1, <1>2, <1>3, <1>4, <1>5, <1>6 DEF TypeOK
  <1>8. QED
    BY <1>1, <1>2, <1>7 DEF Init, IInv, Known

\* Every request, answer and return keeps the invariant: one step per action.
LEMMA NextIInv == IInv /\ [Next]_vars => IInv'
  <1> SUFFICES ASSUME IInv, [Next]_vars PROVE IInv'
    OBVIOUS
  <1> USE GpgdirAssumption
  <1>0. TypeOK /\ stk \in Seq(Frames)
    BY DEF IInv, TypeOK
  <1>t. stk # <<>> => 1 \in DOMAIN stk /\ Head(stk) = stk[1] /\ stk[1] \in Frames
    BY <1>0
  <1>1. ASSUME NEW h \in Addr, Initialize(h) PROVE IInv'
    <2>1. \A i \in DOMAIN stk : stk[i].h # h
      BY <1>1 DEF Initialize, IInv, TypeOK
    <2>2. /\ UNCHANGED <<inited, stk, seen, pointed, engine, faults, mislaid>>
          /\ live' = live \cup {h}
          /\ dir' = [dir EXCEPT ![h] = Default]
          /\ err' = [err EXCEPT ![h] = FALSE]
          /\ moved' = moved \ {h} /\ unread' = unread \ {h} /\ lapsed' = lapsed \ {h}
      BY <1>1 DEF Initialize
    <2>3. TypeOK' /\ Known'
      BY <2>2 DEF IInv, TypeOK, Known
    <2>4. \A g \in Addr \ {h} :
            /\ g \in Current => g \in Current'
            /\ g \in InForce => g \in InForce'
      BY <2>2 DEF IInv, TypeOK, Current, InForce
    <2>5. ASSUME NEW g \in live', err'[g] PROVE g \in Current'
      <3>1. g # h /\ err[g] /\ g \in live /\ g \in Addr
        BY <2>2, <2>5, <1>0 DEF TypeOK
      <3>2. QED
        BY <3>1, <2>4 DEF IInv
    <2>6. \A i \in DOMAIN stk' : stk'[i] = stk[i] /\ stk[i].h \in Addr /\ stk[i].h # h
      BY <2>1, <2>2, <1>0 DEF TypeOK
    <2>7. \A i \in DOMAIN stk' :
            /\ stk'[i].op \in {"call", "set"} => stk'[i].h \in Current'
            /\ stk'[i].op = "call" => stk'[i].h \in InForce'
            /\ stk'[i].op = "set" => stk'[i].at = "libalpm" /\ ~err'[stk'[i].h]
      BY <2>2, <2>4, <2>6, <1>0 DEF IInv, TypeOK
    <2>8. QED
      BY <2>3, <2>5, <2>7 DEF IInv
  <1>2. ASSUME NEW h \in Addr, NEW op \in {"call", "release", "set"},
               NEW dest \in Dir \cup {Nowhere}, op = "set" => dest \in Dir,
               Request(h, op, dest)
        PROVE  IInv'
    <2> DEFINE f == Frame(h, op, dest)
    <2>1. /\ h \in live /\ Follow(h) /\ stk' = <<f>> \o stk
          /\ err' = [err EXCEPT ![h] = FALSE]
          /\ UNCHANGED <<live, dir, inited>>
          /\ Len(stk) < MaxDepth /\ ~Running
          /\ op = "release" => \A i \in DOMAIN stk : stk[i].h # h
          /\ \A i \in DOMAIN stk : stk[i].h = h => stk[i].op # "release"
      BY <1>2 DEF Request, MayCall, Open
    <2>2. f \in Frames /\ f.h = h /\ f.op = op /\ f.at = "libalpm" /\ f.dest = dest
      BY DEF Frame, Frames
    <2> HIDE DEF f
    <2>3. /\ stk' \in Seq(Frames) /\ Len(stk') = Len(stk) + 1
          /\ stk'[1] = f
          /\ \A i \in DOMAIN stk' : i = 1 \/ (i - 1 \in DOMAIN stk /\ stk'[i] = stk[i - 1])
      BY <1>0, <2>1, <2>2
    <2>4. \A i \in DOMAIN stk : stk[i].at = "client"
      <3>1. stk # <<>> => stk[1].at = "client"
        BY <1>t, <2>1 DEF Running, Frames
      <3>2. \A i \in DOMAIN stk : i = 1 \/ i > 1
        BY <1>0
      <3>3. QED
        BY <1>0, <3>1, <3>2 DEF TypeOK
    <2>5. TypeOK'
      <3>1. \A i \in DOMAIN stk' :
              /\ stk'[i].h \in live'
              /\ i > 1 => stk'[i].at = "client"
              /\ stk'[i].op = "set" => stk'[i].dest \in Dir
        BY <2>1, <2>2, <2>3, <2>4, <1>2, <1>0 DEF TypeOK
      <3>2. ASSUME NEW i \in DOMAIN stk', stk'[i].op = "release",
                   NEW j \in DOMAIN stk' \ {i}
            PROVE  stk'[j].h # stk'[i].h
        <4>1. CASE i = 1
          BY <4>1, <3>2, <2>1, <2>2, <2>3
        <4>2. CASE j = 1
          BY <4>2, <3>2, <2>1, <2>2, <2>3
        <4>3. CASE i # 1 /\ j # 1
          <5>1. /\ i - 1 \in DOMAIN stk /\ stk'[i] = stk[i - 1]
                /\ j - 1 \in DOMAIN stk /\ stk'[j] = stk[j - 1]
            BY <4>3, <2>3
          <5>2. i - 1 # j - 1
            BY <3>2, <2>3
          <5>3. QED
            BY <5>1, <5>2, <3>2, <1>0 DEF TypeOK
        <4>4. QED
          BY <4>1, <4>2, <4>3
      <3>3. err' \in [Addr -> BOOLEAN] /\ inited' \in BOOLEAN
        BY <2>1, <1>0 DEF TypeOK
      <3>4. Len(stk') <= MaxDepth
        BY <2>1, <2>3, <1>0
      <3>5. live' \subseteq Addr /\ dir' \in [Addr -> Dir]
        BY <2>1, <1>0 DEF TypeOK
      <3>6. QED
        BY <2>1, <2>3, <3>1, <3>2, <3>3, <3>4, <3>5, Followed DEF TypeOK
    <2>6. /\ h \in Current' /\ h \in InForce' /\ Known'
          /\ \A g \in Addr \ {h} : g \in Current => g \in Current'
          /\ \A i \in DOMAIN stk : stk[i].h # h /\ stk[i].h \in InForce => stk[i].h \in InForce'
      BY <2>1, Followed DEF Current, InForce
    <2>7. \A g \in live' : err'[g] => g \in Current'
      BY <2>1, <2>6 DEF IInv, TypeOK
    <2>8. ASSUME NEW i \in DOMAIN stk'
          PROVE  /\ stk'[i].op \in {"call", "set"} => stk'[i].h \in Current'
                 /\ stk'[i].op = "call" => stk'[i].h \in InForce'
                 /\ stk'[i].op = "set" => stk'[i].at = "libalpm" /\ ~err'[stk'[i].h]
      <3>1. CASE i = 1
        BY <3>1, <2>1, <2>2, <2>3, <2>6, <1>0 DEF TypeOK
      <3>2. CASE i # 1
        <4>1. i - 1 \in DOMAIN stk /\ stk'[i] = stk[i - 1] /\ stk[i - 1].h \in Addr
          BY <3>2, <2>3, <1>0 DEF TypeOK
        <4>2. stk[i - 1].op # "set"
          BY <4>1, <2>4 DEF IInv
        <4>3. QED
          BY <4>1, <4>2, <2>6 DEF IInv
      <3>3. QED
        BY <3>1, <3>2
    <2>9. QED
      BY <2>5, <2>6, <2>7, <2>8 DEF IInv
  <1>3. ASSUME NEW h \in Addr, Errno(h) PROVE IInv'
    <2>1. h \in live /\ Follow(h) /\ UNCHANGED lib
      BY <1>3 DEF Errno, MayCall
    <2>2. TypeOK'
      BY <2>1, Followed, <1>0 DEF TypeOK, lib
    <2>3. /\ h \in Current' /\ h \in InForce' /\ Known'
          /\ \A g \in Addr \ {h} : g \in Current => g \in Current'
          /\ \A i \in DOMAIN stk : stk[i].h # h /\ stk[i].h \in InForce => stk[i].h \in InForce'
      BY <2>1, Followed DEF Current, InForce, lib
    <2>4. QED
      BY <2>1, <2>2, <2>3, <1>0 DEF IInv, TypeOK, lib
  <1>4. CASE CheckSignature
    <2> DEFINE h == Head(stk).h
    <2>1. /\ stk # <<>> /\ UNCHANGED <<live, dir, err, stk, seen, pointed, faults, unread, lapsed>>
          /\ inited' = TRUE /\ engine' = dir[h] /\ mislaid' = (dir[h] # pointed)
          /\ moved' = MovedFor(h)
      BY <1>4 DEF CheckSignature, Running
    <2>2. h \in Addr /\ \A i \in DOMAIN stk : stk[i].h \in Addr
      BY <2>1, <1>0 DEF TypeOK
    <2>3. moved' \subseteq Addr /\ \A i \in DOMAIN stk : stk[i].h # h => stk[i].h \in moved'
      BY <2>1, <2>2, <1>0 DEF MovedFor, TypeOK
    <2> HIDE DEF h
    <2>4. TypeOK'
      BY <2>1, <2>2, <2>3, <1>0 DEF TypeOK
    <2>5. Known' /\ \A g \in Addr : g \in Current => g \in Current'
      BY <2>1 DEF Known, Current
    <2>6. \A i \in DOMAIN stk : stk[i].h \in InForce'
      BY <2>1, <2>2, <2>3 DEF InForce
    <2>7. QED
      BY <2>1, <2>2, <2>4, <2>5, <2>6 DEF IInv, TypeOK
  <1>5. CASE RaiseCallback \/ AnswerCallback
    <2>1. PICK where \in {"libalpm", "client"} :
            /\ stk # <<>>
            /\ stk' = [stk EXCEPT ![1].at = where]
            /\ stk[1].op # "set"
            /\ UNCHANGED <<live, dir, err, inited, seen, pointed, engine, faults, ghosts>>
      <3>1. CASE RaiseCallback
        BY <3>1, <1>t DEF RaiseCallback, Running
      <3>2. CASE AnswerCallback
        BY <3>2, <1>t DEF AnswerCallback, Running, IInv
      <3>3. QED
        BY <1>5, <3>1, <3>2
    <2> DEFINE f == [stk[1] EXCEPT !.at = where]
    <2>2. f \in Frames /\ f.h = stk[1].h /\ f.op = stk[1].op
      BY <2>1, <1>t DEF Frames
    <2>3. stk' = [stk EXCEPT ![1] = f]
      BY <2>1
    <2> HIDE DEF f
    <2>4. /\ stk' \in Seq(Frames) /\ Len(stk') = Len(stk) /\ DOMAIN stk' = DOMAIN stk
          /\ \A i \in DOMAIN stk : stk'[i].h = stk[i].h /\ stk'[i].op = stk[i].op
          /\ \A i \in DOMAIN stk : i # 1 => stk'[i] = stk[i]
      BY <2>1, <2>2, <2>3, <1>0
    <2>5. TypeOK'
      BY <2>1, <2>4, <1>0 DEF TypeOK, ghosts
    <2>6. Current' = Current /\ InForce' = InForce /\ Known' = Known
      BY <2>1 DEF Current, InForce, Known, ghosts
    <2>7. \A i \in DOMAIN stk' : stk'[i].op = "set" => stk'[i] = stk[i]
      BY <2>1, <2>4
    <2>8. QED
      BY <2>1, <2>4, <2>5, <2>6, <2>7 DEF IInv
  <1>6. CASE SetGpgdir
    <2> DEFINE h == Head(stk).h
               f == [stk[1] EXCEPT !.op = "was set", !.dest = Nowhere]
    <2>1. /\ stk # <<>> /\ Head(stk) = stk[1] /\ stk[1] \in Frames /\ 1 \in DOMAIN stk
          /\ stk[1].op = "set" /\ h \in Addr /\ h = stk[1].h
      BY <1>6, <1>t DEF SetGpgdir, Running, Frames
    <2>2. /\ dir' = [dir EXCEPT ![h] = stk[1].dest]
          /\ stk' = [stk EXCEPT ![1] = f]
          /\ UNCHANGED <<live, err, inited, seen, pointed, engine, faults, moved, lapsed, mislaid>>
      BY <1>6, <2>1 DEF SetGpgdir
    <2>3. unread' = IF \E i \in DOMAIN Tail(stk) : Tail(stk)[i].h = h
                    THEN unread \cup {h} ELSE unread
      BY <1>6 DEF SetGpgdir
    <2>4. f \in Frames /\ f.h = h /\ f.op = "was set" /\ f.at = stk[1].at
      BY <2>1 DEF Frames
    <2> HIDE DEF f, h
    <2>5. /\ stk' \in Seq(Frames) /\ Len(stk') = Len(stk) /\ DOMAIN stk' = DOMAIN stk
          /\ stk'[1] = f /\ \A i \in DOMAIN stk : i # 1 => stk'[i] = stk[i]
      BY <2>1, <2>2, <2>4, <1>0, Topped
    <2>6. /\ \A i \in DOMAIN stk : i # 1 /\ stk[i].h = h => h \in unread'
          /\ unread \subseteq unread' /\ unread' \subseteq Addr
      <3>1. \A i \in DOMAIN stk : i = 1 \/ (i - 1 \in DOMAIN Tail(stk) /\ Tail(stk)[i - 1] = stk[i])
        BY <2>1, <1>0
      <3>2. (\E i \in DOMAIN stk : i # 1 /\ stk[i].h = h) => unread' = unread \cup {h}
        BY <2>3, <3>1
      <3>3. QED
        BY <2>1, <2>3, <3>2, <1>0 DEF TypeOK
    <2>7. dir' \in [Addr -> Dir] /\ \A g \in Addr \ {h} : dir'[g] = dir[g]
      BY <2>1, <2>2, <1>0 DEF TypeOK
    <2>8. /\ \A g \in Addr \ {h} : /\ g \in Current => g \in Current'
                                   /\ g \in InForce => g \in InForce'
          /\ h \in unread' => h \in Current' /\ h \in InForce'
      BY <2>1, <2>2, <2>6, <2>7 DEF Current, InForce
    <2>9. TypeOK'
      <3>1. \A i \in DOMAIN stk' :
              /\ stk'[i].h = stk[i].h /\ stk'[i].at = stk[i].at
              /\ stk'[i].op \in {"set", "release"} => stk'[i] = stk[i]
        BY <2>1, <2>4, <2>5
      <3>2. QED
        BY <2>1, <2>2, <2>5, <2>6, <2>7, <3>1, <1>0 DEF TypeOK
    <2>10. \A g \in live' : err'[g] => g \in Current'
      <3>1. Current \subseteq Current' \cup {h}
        BY <2>8 DEF Current
      <3>2. ~err[h]
        BY <2>1 DEF IInv
      <3>3. QED
        BY <2>2, <3>1, <3>2 DEF IInv
    <2>11. ASSUME NEW i \in DOMAIN stk'
           PROVE  /\ stk'[i].op \in {"call", "set"} => stk'[i].h \in Current'
                  /\ stk'[i].op = "call" => stk'[i].h \in InForce'
                  /\ stk'[i].op = "set" => stk'[i].at = "libalpm" /\ ~err'[stk'[i].h]
      <3>1. CASE i = 1
        BY <3>1, <2>4, <2>5
      <3>2. CASE i # 1
        <4>1. i \in DOMAIN stk /\ stk'[i] = stk[i] /\ stk[i].h \in Addr
          BY <3>2, <2>5, <1>0 DEF TypeOK
        <4>2. stk[i].op = "set" => stk[i].at = "libalpm" /\ ~err'[stk[i].h]
          BY <4>1, <2>2 DEF IInv
        <4>3. CASE stk[i].h = h
          BY <4>1, <4>2, <4>3, <3>2, <2>6, <2>8
        <4>4. CASE stk[i].h # h
          BY <4>1, <4>2, <4>4, <2>8 DEF IInv
        <4>5. QED
          BY <4>3, <4>4
      <3>3. QED
        BY <3>1, <3>2
    <2>12. Known'
      BY <2>2 DEF IInv, Known
    <2>13. QED
      BY <2>9, <2>10, <2>11, <2>12 DEF IInv
  <1>7. CASE Succeeds \/ FailsWith
    <2> DEFINE f == Head(stk)
    <2>1. /\ stk # <<>> /\ stk' = Tail(stk)
          /\ UNCHANGED <<dir, inited, seen, pointed, engine, faults, ghosts>>
          /\ live' = IF f.op = "release" THEN live \ {f.h} ELSE live
      BY <1>7 DEF Succeeds, FailsWith, Running
    <2>2. /\ err' \in [Addr -> BOOLEAN]
          /\ \A g \in Addr : err'[g] => \/ err[g]
                                        \/ g = f.h /\ f.op \in {"call", "set"}
      BY <1>7, <1>0 DEF Succeeds, FailsWith, TypeOK
    <2>3. /\ f = stk[1] /\ 1 \in DOMAIN stk /\ stk' \in Seq(Frames) /\ Len(stk') = Len(stk) - 1
          /\ \A i \in DOMAIN stk' : i + 1 \in DOMAIN stk /\ stk'[i] = stk[i + 1]
          /\ Len(stk) \in Nat /\ \A i \in DOMAIN stk' : i \in Nat \ {0}
      BY <2>1, <1>0, <1>t
    <2> HIDE DEF f
    <2>4. Current' = Current /\ InForce' = InForce /\ Known' = Known
      BY <2>1 DEF Current, InForce, Known, ghosts
    <2>5. TypeOK'
      <3>1. \A i \in DOMAIN stk' : stk'[i].h \in live'
        BY <2>1, <2>3, <1>0 DEF TypeOK
      <3>2. \A i \in DOMAIN stk' : stk'[i].at = "client"
        BY <2>3, <1>0 DEF TypeOK
      <3>3. \A i \in DOMAIN stk' :
              /\ stk'[i].op = "set" => stk'[i].dest \in Dir
              /\ stk'[i].op = "release" => \A j \in DOMAIN stk' \ {i} : stk'[j].h # stk'[i].h
        BY <2>3, <1>0 DEF TypeOK
      <3>4. live' \subseteq Addr /\ Len(stk') <= MaxDepth
        BY <2>1, <2>3, <1>0 DEF TypeOK
      <3>5. QED
        BY <2>1, <2>2, <2>3, <3>1, <3>2, <3>3, <3>4, <1>0 DEF TypeOK, ghosts
    <2>6. \A g \in live' : err'[g] => g \in Current'
      <3>1. f.op \in {"call", "set"} => f.h \in Current
        BY <2>3 DEF IInv
      <3>2. QED
        BY <2>1, <2>2, <2>4, <3>1, <1>0 DEF IInv, TypeOK
    <2>7. \A i \in DOMAIN stk' :
            /\ stk'[i].op \in {"call", "set"} => stk'[i].h \in Current'
            /\ stk'[i].op = "call" => stk'[i].h \in InForce'
            /\ stk'[i].op # "set"
      <3>1. \A i \in DOMAIN stk' : stk'[i].at = "client"
        BY <2>3, <1>0 DEF TypeOK
      <3>2. QED
        BY <2>3, <2>4, <3>1 DEF IInv
    <2>8. QED
      BY <2>4, <2>5, <2>6, <2>7 DEF IInv
  <1>9. CASE UNCHANGED vars
    BY <1>9 DEF vars, lib, ghosts, IInv, TypeOK, Known, Current, InForce
  <1>10. QED
    BY <1>1, <1>2, <1>3, <1>4, <1>5, <1>6, <1>7, <1>9 DEF Next

\* The inductive invariant holds of every behaviour: entries, gpgme's directory and the
\* calls under way agree but for the named exceptions (arpc_gpgdir_follow).
THEOREM KeyringInvariant == Spec => []IInv
  BY InitIInv, NextIInv, PTL DEF Spec

\* libalpm runs with the keyring of the handle it runs for, but for the named
\* exceptions, however calls nest (arpc_gpgdir.c: "Each handle's signatures, checked
\* against that handle's keyring").
THEOREM KeyringOwn == Spec => []OwnKeyring
  <1>1. IInv => OwnKeyring
    <2> SUFFICES ASSUME IInv, Running, Head(stk).op = "call"
                 PROVE  Head(stk).h \in InForce
      BY DEF OwnKeyring, InForce
    <2>1. stk \in Seq(Frames) /\ stk # <<>>
      BY DEF IInv, TypeOK, Running
    <2>2. 1 \in DOMAIN stk /\ Head(stk) = stk[1]
      BY <2>1
    <2>3. QED
      BY <2>2 DEF IInv
  <1>2. QED
    BY <1>1, KeyringInvariant, PTL

\* The entry that stands in for a handle with an error pending is its directory,
\* but for the named exceptions.
THEOREM EntriesCurrent == Spec => []EntryCurrent
  <1>1. IInv => EntryCurrent
    BY DEF IInv, EntryCurrent, Current
  <1>2. QED
    BY <1>1, KeyringInvariant, PTL

=============================================================================
