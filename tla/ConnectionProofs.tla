-------------------------- MODULE ConnectionProofs --------------------------
(***************************************************************************)
(* Proofs about the call protocol, for any number of threads, servers,     *)
(* connections, callbacks and faults.                                      *)
(***************************************************************************)
EXTENDS Connection, TLAPS, FiniteSetTheorems

-----------------------------------------------------------------------------
(* The client's stack.                                                     *)

\* What lies under what: a callback runs inside the transact that read it, a call is made
\* by a callback or by nobody, or tells the path style for the call that connected.
Nested(stk) ==
  \A i \in DOMAIN stk :
    /\ stk[i].k = "cb" => i + 1 \in DOMAIN stk /\ stk[i + 1].k = "call"
    /\ stk[i].k = "begin" /\ i + 1 \in DOMAIN stk => stk[i + 1].k = "cb"
    /\ stk[i].k = "call" /\ i + 1 \in DOMAIN stk => stk[i + 1].k \in {"cb", "begin"}

\* Inner calls have the larger numbers.
Descending(stk) ==
  \A i, j \in DOMAIN stk :
    i < j /\ stk[i].k = "call" /\ stk[j].k = "call" => stk[j].id < stk[i].id

\* The requests a stack waits for.
CallIds(stk) == {stk[i].id : i \in {j \in DOMAIN stk : stk[j].k = "call"}}

ClientStacks == {stk \in Seq(ClientFrames) : Nested(stk) /\ Descending(stk)}

\* May the frame f be put on top of stk?
Fits(f, stk) ==
  /\ f.k = "cb" => In(stk, "call")
  /\ f.k = "begin" => stk = <<>> \/ In(stk, "cb")
  /\ f.k = "call" => /\ stk = <<>> \/ In(stk, "cb") \/ In(stk, "begin")
                     /\ \A c \in CallIds(stk) : c < f.id

\* A pop: every frame that is left was one further down.
LEMMA Popped ==
  ASSUME NEW S, NEW s \in Seq(S), s # <<>>
  PROVE  /\ Tail(s) \in Seq(S) /\ Len(Tail(s)) = Len(s) - 1
         /\ \A i \in DOMAIN Tail(s) : i + 1 \in DOMAIN s /\ Tail(s)[i] = s[i + 1]
         /\ \A i \in DOMAIN s : i = 1 \/ (i - 1 \in DOMAIN Tail(s) /\ Tail(s)[i - 1] = s[i])
  OBVIOUS

\* A frame that fits goes on top: the stack stays one, and its calls are one more.
LEMMA ClientPush ==
  ASSUME NEW stk \in ClientStacks, NEW f \in ClientFrames, Fits(f, stk)
  PROVE  /\ <<f>> \o stk \in ClientStacks /\ <<f>> \o stk # <<>>
         /\ Head(<<f>> \o stk) = f /\ Tail(<<f>> \o stk) = stk
         /\ CallIds(<<f>> \o stk) = CallIds(stk) \cup (IF f.k = "call" THEN {f.id} ELSE {})
  <1> DEFINE new == <<f>> \o stk
  <1>1. stk \in Seq(ClientFrames) /\ Nested(stk) /\ Descending(stk)
    BY DEF ClientStacks
  <1>2. /\ new \in Seq(ClientFrames) /\ new # <<>> /\ Head(new) = f /\ Tail(new) = stk
        /\ new[1] = f /\ 1 \in DOMAIN new
        /\ \A i \in DOMAIN stk : i + 1 \in DOMAIN new /\ new[i + 1] = stk[i]
        /\ \A i \in DOMAIN new : i = 1 \/ (i - 1 \in DOMAIN stk /\ new[i] = stk[i - 1])
    BY <1>1
  <1>3. \A i \in DOMAIN new : i \in Nat \ {0}
    BY <1>2
  <1>4. \A i \in DOMAIN stk : i \in Nat \ {0}
    BY <1>1
  <1>5. stk # <<>> => Head(stk) = stk[1] /\ 1 \in DOMAIN stk
    BY <1>1
  <1>6. 1 + 1 \in DOMAIN new => 1 \in DOMAIN stk /\ new[1 + 1] = stk[1]
    BY <1>2
  <1> HIDE DEF new
  <1>7. Nested(new)
    <2> SUFFICES ASSUME NEW i \in DOMAIN new
                 PROVE  /\ new[i].k = "cb" => i + 1 \in DOMAIN new /\ new[i + 1].k = "call"
                        /\ new[i].k = "begin" /\ i + 1 \in DOMAIN new => new[i + 1].k = "cb"
                        /\ new[i].k = "call" /\ i + 1 \in DOMAIN new
                             => new[i + 1].k \in {"cb", "begin"}
      BY DEF Nested
    <2>1. CASE i = 1
      <3>1. 1 \in DOMAIN stk => 1 + 1 \in DOMAIN new /\ stk # <<>>
        BY <1>1, <1>2
      <3>2. QED
        BY <2>1, <1>2, <1>5, <1>6, <3>1 DEF Fits, In
    <2>2. CASE i # 1
      <3>1. /\ i - 1 \in DOMAIN stk /\ new[i] = stk[i - 1] /\ (i - 1) + 1 = i
            /\ (i + 1) - 1 = i /\ i + 1 # 1
        BY <2>2, <1>2, <1>3
      <3>2. i + 1 \in DOMAIN new <=> i \in DOMAIN stk
        BY <3>1, <1>2, <1>4
      <3>3. i \in DOMAIN stk => new[i + 1] = stk[i]
        BY <1>2
      <3>4. QED
        BY <3>1, <3>2, <3>3, <1>1 DEF Nested
    <2>3. QED
      BY <2>1, <2>2
  <1>8. CallIds(new) = CallIds(stk) \cup (IF f.k = "call" THEN {f.id} ELSE {})
    <2>1. \A c \in CallIds(new) : c \in CallIds(stk) \/ (f.k = "call" /\ c = f.id)
      BY <1>2 DEF CallIds
    <2>2. \A c \in CallIds(stk) : c \in CallIds(new)
      BY <1>2 DEF CallIds
    <2>3. f.k = "call" => f.id \in CallIds(new)
      BY <1>2 DEF CallIds
    <2>4. QED
      BY <2>1, <2>2, <2>3
  <1>9. Descending(new)
    <2> SUFFICES ASSUME NEW i \in DOMAIN new, NEW j \in DOMAIN new, i < j,
                        new[i].k = "call", new[j].k = "call"
                 PROVE  new[j].id < new[i].id
      BY DEF Descending
    <2>1. j - 1 \in DOMAIN stk /\ new[j] = stk[j - 1]
      BY <1>2, <1>3
    <2>2. CASE i = 1
      <3>1. stk[j - 1].id \in CallIds(stk)
        BY <2>1 DEF CallIds
      <3>2. QED
        BY <2>1, <2>2, <3>1, <1>2 DEF Fits
    <2>3. CASE i # 1
      <3>1. i - 1 \in DOMAIN stk /\ new[i] = stk[i - 1] /\ i - 1 < j - 1
        BY <2>3, <1>2, <1>3
      <3>2. QED
        BY <2>1, <3>1, <1>1 DEF Descending
    <2>4. QED
      BY <2>2, <2>3
  <1>10. QED
    BY <1>2, <1>7, <1>8, <1>9 DEF ClientStacks, new

\* What is under the top of a stack, and which call goes with it.
LEMMA ClientPop ==
  ASSUME NEW stk \in ClientStacks, stk # <<>>
  PROVE  /\ Tail(stk) \in ClientStacks /\ Head(stk) \in ClientFrames
         /\ Head(stk).k = "cb" => In(Tail(stk), "call")
         /\ Head(stk).k = "begin" => Tail(stk) = <<>> \/ In(Tail(stk), "cb")
         /\ Head(stk).k = "call" =>
              /\ Tail(stk) = <<>> \/ In(Tail(stk), "cb") \/ In(Tail(stk), "begin")
              /\ Head(stk).id \in CallIds(stk)
              /\ CallIds(Tail(stk)) = CallIds(stk) \ {Head(stk).id}
              /\ \A c \in CallIds(stk) : c # Head(stk).id => c < Head(stk).id
         /\ Head(stk).k # "call" => CallIds(Tail(stk)) = CallIds(stk)
  <1> DEFINE new == Tail(stk)
  <1>1. stk \in Seq(ClientFrames) /\ Nested(stk) /\ Descending(stk)
    BY DEF ClientStacks
  <1>2. /\ new \in Seq(ClientFrames) /\ Head(stk) = stk[1] /\ 1 \in DOMAIN stk
        /\ Head(stk) \in ClientFrames
        /\ \A i \in DOMAIN new : i + 1 \in DOMAIN stk /\ new[i] = stk[i + 1]
        /\ \A i \in DOMAIN stk : i = 1 \/ (i - 1 \in DOMAIN new /\ new[i - 1] = stk[i])
    BY <1>1
  <1>3. (\A i \in DOMAIN new : i \in Nat \ {0}) /\ \A i \in DOMAIN stk : i \in Nat \ {0}
    BY <1>1, <1>2
  <1>4. new # <<>> => Head(new) = new[1] /\ 1 \in DOMAIN new /\ 1 + 1 \in DOMAIN stk
                      /\ new[1] = stk[1 + 1]
    BY <1>2
  <1>5. 1 + 1 \in DOMAIN stk => new # <<>>
    BY <1>1, <1>2
  <1> HIDE DEF new
  <1>6. Nested(new)
    <2> SUFFICES ASSUME NEW i \in DOMAIN new
                 PROVE  /\ new[i].k = "cb" => i + 1 \in DOMAIN new /\ new[i + 1].k = "call"
                        /\ new[i].k = "begin" /\ i + 1 \in DOMAIN new => new[i + 1].k = "cb"
                        /\ new[i].k = "call" /\ i + 1 \in DOMAIN new
                             => new[i + 1].k \in {"cb", "begin"}
      BY DEF Nested
    <2>1. i + 1 \in DOMAIN stk /\ new[i] = stk[i + 1] /\ (i + 1) + 1 # 1 /\ ((i + 1) + 1) - 1 = i + 1
      BY <1>2, <1>3
    <2>2. (i + 1) + 1 \in DOMAIN stk => i + 1 \in DOMAIN new /\ new[i + 1] = stk[(i + 1) + 1]
      BY <2>1, <1>2
    <2>3. i + 1 \in DOMAIN new => (i + 1) + 1 \in DOMAIN stk
      BY <1>2
    <2>4. QED
      BY <2>1, <2>2, <2>3, <1>1 DEF Nested
  <1>7. Descending(new)
    <2> SUFFICES ASSUME NEW i \in DOMAIN new, NEW j \in DOMAIN new, i < j,
                        new[i].k = "call", new[j].k = "call"
                 PROVE  new[j].id < new[i].id
      BY DEF Descending
    <2>1. i + 1 < j + 1
      BY <1>3
    <2>2. QED
      BY <2>1, <1>1, <1>2 DEF Descending
  <1>8. \A c \in CallIds(new) : c \in CallIds(stk)
    BY <1>2 DEF CallIds
  <1>9. \A c \in CallIds(stk) : c \in CallIds(new) \/ (stk[1].k = "call" /\ c = stk[1].id)
    BY <1>2 DEF CallIds
  <1>10. ASSUME stk[1].k = "call"
         PROVE  /\ stk[1].id \in CallIds(stk)
                /\ \A c \in CallIds(new) : c < stk[1].id /\ c \in Nat
    <2>1. stk[1].id \in CallIds(stk)
      BY <1>2, <1>10 DEF CallIds
    <2> SUFFICES ASSUME NEW c \in CallIds(new) PROVE c < stk[1].id /\ c \in Nat
      BY <2>1
    <2>2. PICK i \in DOMAIN new : new[i].k = "call" /\ c = new[i].id
      BY DEF CallIds
    <2>3. i + 1 \in DOMAIN stk /\ stk[i + 1] = new[i] /\ 1 < i + 1
      BY <1>2, <1>3
    <2>4. c \in Nat
      <3>1. new[i] \in ClientFrames
        BY <1>2
      <3>2. QED
        BY <2>2, <3>1 DEF ClientFrames, FramesOf
    <2>5. QED
      BY <1>1, <1>2, <1>10, <2>2, <2>3, <2>4 DEF Descending
  <1>11. stk[1].id \in Nat
    BY <1>2 DEF ClientFrames, FramesOf
  <1>12. /\ stk[1].k = "cb" => In(new, "call")
         /\ stk[1].k = "begin" => new = <<>> \/ In(new, "cb")
         /\ stk[1].k = "call" => new = <<>> \/ In(new, "cb") \/ In(new, "begin")
    <2>1. /\ stk[1].k = "cb" => 1 + 1 \in DOMAIN stk /\ stk[1 + 1].k = "call"
          /\ stk[1].k = "begin" /\ 1 + 1 \in DOMAIN stk => stk[1 + 1].k = "cb"
          /\ stk[1].k = "call" /\ 1 + 1 \in DOMAIN stk => stk[1 + 1].k \in {"cb", "begin"}
      BY <1>1, <1>2 DEF Nested
    <2>2. QED
      BY <1>4, <1>5, <2>1 DEF In
  <1>13. /\ stk[1].k = "call" => /\ CallIds(new) = CallIds(stk) \ {stk[1].id}
                                 /\ \A c \in CallIds(stk) : c # stk[1].id => c < stk[1].id
         /\ stk[1].k # "call" => CallIds(new) = CallIds(stk)
    <2>1. CASE stk[1].k = "call"
      <3>1. \A c \in CallIds(new) : c # stk[1].id
        BY <2>1, <1>10, <1>11
      <3>2. QED
        BY <2>1, <3>1, <1>8, <1>9, <1>10
    <2>2. CASE stk[1].k # "call"
      BY <2>2, <1>8, <1>9
    <2>3. QED
      BY <2>1, <2>2
  <1>14. QED
    BY <1>2, <1>6, <1>7, <1>10, <1>12, <1>13 DEF ClientStacks, new

\* The frames left of a call that fails: no call is on top, and its number is gone.
LEMMA ClientFail ==
  ASSUME NEW stk \in ClientStacks, In(stk, "call")
  PROVE  /\ Failed(stk) \in ClientStacks
         /\ Failed(stk) = <<>> \/ In(Failed(stk), "cb")
         /\ CallIds(Failed(stk)) = CallIds(stk) \ {Head(stk).id}
  <1> DEFINE below == Tail(stk)
  <1>1. /\ below \in ClientStacks /\ CallIds(below) = CallIds(stk) \ {Head(stk).id}
        /\ below = <<>> \/ In(below, "cb") \/ In(below, "begin")
    BY ClientPop DEF In
  <1>2. Failed(stk) = IF In(below, "begin") THEN Tail(below) ELSE below
    BY DEF Failed
  <1> HIDE DEF below
  <1>3. CASE In(below, "begin")
    <2>1. /\ Tail(below) \in ClientStacks /\ CallIds(Tail(below)) = CallIds(below)
          /\ Tail(below) = <<>> \/ In(Tail(below), "cb")
      BY <1>1, <1>3, ClientPop DEF In
    <2>2. QED
      BY <1>1, <1>2, <1>3, <2>1
  <1>4. CASE ~In(below, "begin")
    BY <1>1, <1>2, <1>4
  <1>5. QED
    BY <1>3, <1>4

-----------------------------------------------------------------------------
(* The client.                                                             *)

\* The requests the caller waits for.
OpenIds == {c \in 1 .. MaxId : out[c] = "open"}

\* One thread at most has frames, and holds the lock; its calls are the open requests,
\* inner ones later, and requests are numbered without a gap.
ClientInv ==
  /\ lock \in Thread \cup {None}
  /\ next_id \in 1 .. MaxId + 1
  /\ cstk \in [Thread -> ClientStacks]
  /\ out \in [1 .. MaxId -> {"none", "open", "ok", "failed"}]
  /\ \A t \in Thread : cstk[t] # <<>> <=> lock = t
  /\ \A c \in 1 .. MaxId : out[c] = "none" <=> next_id <= c
  /\ lock = None => OpenIds = {}
  /\ \A t \in Thread : lock = t => CallIds(cstk[t]) = OpenIds

\* A thread outside every stub.
LEMMA EmptyStack == <<>> \in ClientStacks /\ CallIds(<<>>) = {}
  BY DEF ClientStacks, Nested, Descending, CallIds

\* The thread that may run, and what it waits for.
LEMMA ClientOwner ==
  ASSUME ClientInv, NEW t \in Thread, lock \in {None, t}
  PROVE  /\ cstk[t] \in ClientStacks /\ CallIds(cstk[t]) = OpenIds
         /\ \A u \in Thread : u # t => cstk[u] = <<>>
  <1>1. t # None
    BY ThreadAssumption
  <1>2. cstk[t] \in ClientStacks /\ \A u \in Thread : u # t => cstk[u] = <<>>
    BY <1>1, ThreadAssumption DEF ClientInv
  <1>3. CASE lock = None
    BY <1>1, <1>2, <1>3, EmptyStack DEF ClientInv
  <1>4. CASE lock = t
    BY <1>2, <1>4 DEF ClientInv
  <1>5. QED
    BY <1>2, <1>3, <1>4

\* A thread with frames has the lock.
LEMMA ClientLocked ==
  ASSUME ClientInv, NEW t \in Thread, NEW k, In(cstk[t], k)
  PROVE  lock = t
  BY DEF ClientInv, In

\* The thread's frames become new.
LEMMA ClientMoves ==
  ASSUME ClientInv, NEW t \in Thread, lock \in {None, t}, NEW new \in ClientStacks,
         Becomes(t, new),
         next_id' \in 1 .. MaxId + 1,
         out' \in [1 .. MaxId -> {"none", "open", "ok", "failed"}],
         \A c \in 1 .. MaxId : out'[c] = "none" <=> next_id' <= c,
         CallIds(new) = OpenIds'
  PROVE  ClientInv'
  <1>1. cstk' = [cstk EXCEPT ![t] = new] /\ lock' = IF new = <<>> THEN None ELSE t
    BY DEF Becomes
  <1>2. cstk \in [Thread -> ClientStacks] /\ \A u \in Thread : u # t => cstk[u] = <<>>
    BY ClientOwner DEF ClientInv
  <1>3. /\ cstk' \in [Thread -> ClientStacks] /\ cstk'[t] = new
        /\ \A u \in Thread : u # t => cstk'[u] = <<>>
    BY <1>1, <1>2
  <1>4. lock' \in Thread \cup {None} /\ \A u \in Thread : cstk'[u] # <<>> <=> lock' = u
    BY <1>1, <1>3, ThreadAssumption
  <1>5. lock' = None => OpenIds' = {}
    BY <1>1, EmptyStack, ThreadAssumption
  <1>6. \A u \in Thread : lock' = u => CallIds(cstk'[u]) = OpenIds'
    BY <1>1, <1>3, ThreadAssumption
  <1>7. QED
    BY <1>3, <1>4, <1>5, <1>6 DEF ClientInv

\* ... with the same requests open;
LEMMA ClientGoesOn ==
  ASSUME ClientInv, NEW t \in Thread, lock \in {None, t}, NEW new \in ClientStacks,
         Becomes(t, new), CallIds(new) = CallIds(cstk[t]), UNCHANGED <<next_id, out>>
  PROVE  ClientInv'
  <1>1. OpenIds' = OpenIds
    BY DEF OpenIds
  <1>2. CallIds(new) = OpenIds'
    BY <1>1, ClientOwner
  <1>3. QED
    BY <1>2, ClientMoves DEF ClientInv

\* ... with one more, which has the next number;
LEMMA ClientOpens ==
  ASSUME ClientInv, NEW t \in Thread, lock \in {None, t}, NEW new \in ClientStacks,
         Becomes(t, new), CallIds(new) = CallIds(cstk[t]) \cup {next_id},
         next_id <= MaxId, next_id' = next_id + 1,
         out' = [out EXCEPT ![next_id] = "open"]
  PROVE  ClientInv' /\ next_id \in 1 .. MaxId /\ Abstract!Next_(next_id)
  <1>1. next_id \in 1 .. MaxId /\ next_id + 1 \in 1 .. MaxId + 1
    BY BoundAssumption DEF ClientInv
  <1>2. Abstract!Next_(next_id)
    BY <1>1, BoundAssumption DEF ClientInv, Abstract!Next_
  <1>3. out' \in [1 .. MaxId -> {"none", "open", "ok", "failed"}]
    BY <1>1 DEF ClientInv
  <1>4. \A c \in 1 .. MaxId : out'[c] = "none" <=> next_id + 1 <= c
    BY <1>1, BoundAssumption DEF ClientInv
  <1>5. OpenIds' = OpenIds \cup {next_id}
    BY <1>1, <1>2 DEF OpenIds, ClientInv
  <1>6. CallIds(new) = OpenIds'
    BY <1>5, ClientOwner
  <1>7. QED
    BY <1>1, <1>2, <1>3, <1>4, <1>6, ClientMoves

\* ... with a number used up by a request that could not be sent;
LEMMA ClientRefused ==
  ASSUME ClientInv, NEW t \in Thread, lock \in {None, t}, NEW new \in ClientStacks,
         Becomes(t, new), CallIds(new) = CallIds(cstk[t]),
         next_id <= MaxId, next_id' = next_id + 1,
         out' = [out EXCEPT ![next_id] = "failed"]
  PROVE  ClientInv' /\ next_id \in 1 .. MaxId /\ Abstract!Next_(next_id)
  <1>1. next_id \in 1 .. MaxId /\ next_id + 1 \in 1 .. MaxId + 1
    BY BoundAssumption DEF ClientInv
  <1>2. Abstract!Next_(next_id)
    BY <1>1, BoundAssumption DEF ClientInv, Abstract!Next_
  <1>3. out' \in [1 .. MaxId -> {"none", "open", "ok", "failed"}]
    BY <1>1 DEF ClientInv
  <1>4. \A c \in 1 .. MaxId : out'[c] = "none" <=> next_id + 1 <= c
    BY <1>1, BoundAssumption DEF ClientInv
  <1>5. OpenIds' = OpenIds
    <2>1. out[next_id] = "none"
      BY <1>1 DEF ClientInv
    <2>2. QED
      BY <1>1, <2>1 DEF OpenIds, ClientInv
  <1>6. CallIds(new) = OpenIds'
    BY <1>5, ClientOwner
  <1>7. QED
    BY <1>1, <1>2, <1>3, <1>4, <1>6, ClientMoves

\* ... with the innermost of them settled.
LEMMA ClientSettled ==
  ASSUME ClientInv, NEW t \in Thread, lock \in {None, t}, NEW new \in ClientStacks,
         NEW id \in CallIds(cstk[t]), \A c \in CallIds(cstk[t]) : c # id => c < id,
         NEW v \in {"ok", "failed"},
         Becomes(t, new), CallIds(new) = CallIds(cstk[t]) \ {id},
         next_id' = next_id, out' = [out EXCEPT ![id] = v]
  PROVE  ClientInv' /\ id \in 1 .. MaxId /\ Abstract!Innermost(id)
  <1>1. id \in 1 .. MaxId /\ out[id] = "open" /\ id \in OpenIds
    BY ClientOwner DEF OpenIds
  <1>2. Abstract!Innermost(id)
    <2>1. \A c \in 1 .. MaxId : out[c] = "open" => c = id \/ c < id
      BY ClientOwner DEF OpenIds
    <2>2. QED
      BY <1>1, <2>1, BoundAssumption DEF Abstract!Innermost
  <1>3. out' \in [1 .. MaxId -> {"none", "open", "ok", "failed"}]
    BY <1>1 DEF ClientInv
  <1>4. \A c \in 1 .. MaxId : out'[c] = "none" <=> next_id' <= c
    BY <1>1, BoundAssumption DEF ClientInv
  <1>5. OpenIds' = OpenIds \ {id}
    BY <1>1 DEF OpenIds, ClientInv
  <1>6. CallIds(new) = OpenIds'
    BY <1>5, ClientOwner
  <1>7. next_id' \in 1 .. MaxId + 1
    BY DEF ClientInv
  <1>8. QED
    BY <1>1, <1>2, <1>3, <1>4, <1>6, <1>7, ClientMoves

\* Is it the client's turn to write?
Talking == \A t \in Thread : ~In(cstk[t], "call")

\* One thread may run, so its stack alone says whose turn it is,
LEMMA TalkingIs ==
  ASSUME ClientInv, NEW t \in Thread, lock \in {None, t}
  PROVE  Talking <=> ~In(cstk[t], "call")
  BY ClientOwner DEF Talking, In

\* before and after a step of it.
LEMMA TalkingBecomes ==
  ASSUME ClientInv, NEW t \in Thread, lock \in {None, t}, NEW new, Becomes(t, new)
  PROVE  Talking' <=> ~In(new, "call")
  <1>1. /\ cstk'[t] = new
        /\ \A u \in Thread : u # t => cstk'[u] = <<>>
    BY ClientOwner DEF Becomes, ClientInv
  <1>2. QED
    BY <1>1 DEF Talking, In

\* What a step of the client means to RemoteCall.
OutStep ==
  \/ out' = out
  \/ /\ run' = run
     /\ \E c \in 1 .. MaxId :
          \/ Abstract!Next_(c) /\ out' = [out EXCEPT ![c] = "open"]
          \/ Abstract!Next_(c) /\ out' = [out EXCEPT ![c] = "failed"]
          \/ Abstract!Innermost(c) /\ out' = [out EXCEPT ![c] = "failed"]
          \/ /\ Abstract!Innermost(c) /\ out' = [out EXCEPT ![c] = "ok"]
             /\ pipe # 0 /\ s2c[pipe] # <<>>
             /\ Head(s2c[pipe]).k = "reply" /\ Head(s2c[pipe]).id = c

\* A stub begins: the lock is taken, and the turn stays with the client.
LEMMA CallMoves ==
  ASSUME ClientInv, NEW t \in Thread, Call(t)
  PROVE  ClientInv' /\ Talking /\ Talking'
  <1> DEFINE new == <<Begin>> \o cstk[t]
  <1>1. /\ lock \in {None, t}
        /\ cstk[t] = <<>> \/ In(cstk[t], "cb")
        /\ Becomes(t, new) /\ UNCHANGED <<next_id, out>>
    BY DEF Call, Busy
  <1>2. Begin \in ClientFrames /\ Begin.k = "begin"
    BY DEF Begin, Frame, ClientFrames, FramesOf
  <1>3. cstk[t] \in ClientStacks
    BY <1>1, ClientOwner
  <1>4. Fits(Begin, cstk[t])
    BY <1>1, <1>2 DEF Fits
  <1>5. new \in ClientStacks /\ CallIds(new) = CallIds(cstk[t]) /\ Head(new) = Begin
    BY <1>2, <1>3, <1>4, ClientPush
  <1> HIDE DEF new
  <1>6. ~In(new, "call") /\ ~In(cstk[t], "call")
    BY <1>1, <1>2, <1>5 DEF In
  <1>7. QED
    BY <1>1, <1>5, <1>6, ClientGoesOn, TalkingIs, TalkingBecomes

\* The frame of a request that has just been numbered.
LEMMA NewCall ==
  ASSUME ClientInv, NEW t \in Thread, lock \in {None, t}, NEW stk \in ClientStacks,
         CallIds(stk) \subseteq CallIds(cstk[t]),
         stk = <<>> \/ In(stk, "cb") \/ In(stk, "begin")
  PROVE  LET f == Frame("call", next_id, 0)
         IN  /\ <<f>> \o stk \in ClientStacks /\ In(<<f>> \o stk, "call")
             /\ CallIds(<<f>> \o stk) = CallIds(stk) \cup {next_id}
  <1> DEFINE f == Frame("call", next_id, 0)
  <1>1. f.k = "call" /\ f.id = next_id
    BY DEF Frame
  <1>2. f \in ClientFrames
    BY BoundAssumption DEF Frame, ClientFrames, FramesOf, ClientInv
  <1>3. \A c \in CallIds(stk) : c < next_id
    <2>1. \A c \in CallIds(stk) : c \in 1 .. MaxId /\ out[c] = "open"
      BY ClientOwner DEF OpenIds
    <2>2. QED
      BY <2>1, BoundAssumption DEF ClientInv
  <1>4. Fits(f, stk)
    BY <1>1, <1>3 DEF Fits
  <1> HIDE DEF f
  <1>5. /\ <<f>> \o stk \in ClientStacks /\ <<f>> \o stk # <<>> /\ Head(<<f>> \o stk) = f
        /\ CallIds(<<f>> \o stk) = CallIds(stk) \cup {next_id}
    BY <1>1, <1>2, <1>4, ClientPush
  <1>6. QED
    BY <1>1, <1>5 DEF In, f

\* A pipe is opened: the stub goes on, and may have to ask for the path style first.
LEMMA OpenMoves ==
  ASSUME ClientInv, NEW t \in Thread, NEW s \in Server, Open(t, s)
  PROVE  /\ ClientInv' /\ OutStep /\ Talking
         /\ TellsStyle <=> ~Talking'
         /\ TellsStyle => next_id \in 1 .. MaxId /\ next_id' = next_id + 1
         /\ ~TellsStyle => next_id' = next_id
  <1> DEFINE f == Frame("call", next_id, 0)
             new == <<f>> \o cstk[t]
  <1>1. In(cstk[t], "begin") /\ run' = run
    BY DEF Open
  <1>2. lock \in {None, t} /\ cstk[t] \in ClientStacks /\ ~In(cstk[t], "call")
    BY <1>1, ClientLocked, ClientOwner DEF In
  <1>3. Talking
    BY <1>2, TalkingIs
  <1>4. CASE TellsStyle
    <2>1. /\ next_id <= MaxId /\ next_id' = next_id + 1 /\ Becomes(t, new)
          /\ out' = [out EXCEPT ![next_id] = "open"]
      BY <1>4 DEF Open
    <2>2. new \in ClientStacks /\ In(new, "call") /\ CallIds(new) = CallIds(cstk[t]) \cup {next_id}
      BY <1>1, <1>2, NewCall
    <2> HIDE DEF new
    <2>3. ClientInv' /\ next_id \in 1 .. MaxId /\ Abstract!Next_(next_id)
      BY <1>2, <2>1, <2>2, ClientOpens
    <2>4. ~Talking'
      BY <1>2, <2>1, <2>2, TalkingBecomes
    <2>5. OutStep
      BY <1>1, <2>1, <2>3 DEF OutStep
    <2>6. QED
      BY <1>3, <1>4, <2>1, <2>3, <2>4, <2>5
  <1>5. CASE ~TellsStyle
    <2>1. UNCHANGED <<lock, cstk, next_id, out>>
      BY <1>5 DEF Open
    <2>2. ClientInv' /\ (Talking' <=> Talking)
      BY <2>1 DEF ClientInv, OpenIds, Talking
    <2>3. QED
      BY <1>3, <1>5, <2>1, <2>2 DEF OutStep
  <1>6. QED
    BY <1>4, <1>5

\* No pipe: the stub ends without having called.
LEMMA CannotOpenMoves ==
  ASSUME ClientInv, NEW t \in Thread, CannotOpen(t)
  PROVE  ClientInv'
  <1>1. In(cstk[t], "begin") /\ Becomes(t, Tail(cstk[t])) /\ UNCHANGED <<next_id, out>>
    BY DEF CannotOpen
  <1>2. lock \in {None, t} /\ cstk[t] \in ClientStacks
    BY <1>1, ClientLocked, ClientOwner
  <1>3. Tail(cstk[t]) \in ClientStacks /\ CallIds(Tail(cstk[t])) = CallIds(cstk[t])
    BY <1>1, <1>2, ClientPop DEF In
  <1>4. QED
    BY <1>1, <1>2, <1>3, ClientGoesOn

\* A request goes out with a new number, and the turn passes.
LEMMA InvokeMoves ==
  ASSUME ClientInv, NEW t \in Thread, Invoke(t)
  PROVE  /\ ClientInv' /\ OutStep /\ Talking /\ next_id \in 1 .. MaxId
         /\ Up(pipe) => ~Talking'
  <1> DEFINE f == Frame("call", next_id, 0)
             new == <<f>> \o Tail(cstk[t])
  <1>1. /\ In(cstk[t], "begin") /\ run' = run /\ next_id <= MaxId /\ next_id' = next_id + 1
    BY DEF Invoke
  <1>2. lock \in {None, t} /\ cstk[t] \in ClientStacks /\ ~In(cstk[t], "call")
    BY <1>1, ClientLocked, ClientOwner DEF In
  <1>3. /\ Tail(cstk[t]) \in ClientStacks /\ CallIds(Tail(cstk[t])) = CallIds(cstk[t])
        /\ Tail(cstk[t]) = <<>> \/ In(Tail(cstk[t]), "cb")
    BY <1>1, <1>2, ClientPop DEF In
  <1>4. CASE Up(pipe)
    <2>1. Becomes(t, new) /\ out' = [out EXCEPT ![next_id] = "open"]
      BY <1>4 DEF Invoke
    <2>2. new \in ClientStacks /\ In(new, "call") /\ CallIds(new) = CallIds(cstk[t]) \cup {next_id}
      BY <1>2, <1>3, NewCall
    <2> HIDE DEF new
    <2>3. ClientInv' /\ next_id \in 1 .. MaxId /\ Abstract!Next_(next_id)
      BY <1>1, <1>2, <2>1, <2>2, ClientOpens
    <2>4. ~Talking'
      BY <1>2, <2>1, <2>2, TalkingBecomes
    <2>5. OutStep
      BY <1>1, <2>1, <2>3 DEF OutStep
    <2>6. QED
      BY <1>2, <2>3, <2>4, <2>5, TalkingIs
  <1>5. CASE ~Up(pipe)
    <2>1. Becomes(t, Tail(cstk[t])) /\ out' = [out EXCEPT ![next_id] = "failed"]
      BY <1>5 DEF Invoke
    <2>2. ClientInv' /\ next_id \in 1 .. MaxId /\ Abstract!Next_(next_id)
      BY <1>1, <1>2, <1>3, <2>1, ClientRefused
    <2>3. OutStep
      BY <1>1, <2>1, <2>2 DEF OutStep
    <2>4. QED
      BY <1>2, <1>5, <2>2, <2>3, TalkingIs
  <1>6. QED
    BY <1>4, <1>5

\* The innermost call ends, with the frames new left.
LEMMA CallEnds ==
  ASSUME ClientInv, NEW t \in Thread, NEW stk \in ClientStacks, In(stk, "call"), lock = t,
         CallIds(stk) = CallIds(cstk[t]),
         NEW new \in ClientStacks, CallIds(new) = CallIds(stk) \ {Head(stk).id},
         NEW v \in {"ok", "failed"}, Becomes(t, new), next_id' = next_id, run' = run,
         out' = [out EXCEPT ![Head(stk).id] = v],
         v = "ok" => /\ pipe # 0 /\ s2c[pipe] # <<>>
                     /\ Head(s2c[pipe]).k = "reply" /\ Head(s2c[pipe]).id = Head(stk).id
  PROVE  ClientInv' /\ OutStep
  <1> DEFINE id == Head(stk).id
  <1>1. id \in CallIds(stk) /\ \A c \in CallIds(stk) : c # id => c < id
    BY ClientPop DEF In
  <1> HIDE DEF id
  <1>2. ClientInv' /\ id \in 1 .. MaxId /\ Abstract!Innermost(id)
    BY <1>1, ClientSettled DEF id
  <1>3. OutStep
    BY <1>2 DEF OutStep, id
  <1>4. QED
    BY <1>2, <1>3

\* A reply ends the call it answers, or the connection.
LEMMA TakeReplyMoves ==
  ASSUME ClientInv, NEW t \in Thread, TakeReply(t)
  PROVE  ClientInv' /\ OutStep /\ ~Talking /\ Talking'
  <1>1. In(cstk[t], "call") /\ pipe # 0 /\ s2c[pipe] # <<>> /\ Head(s2c[pipe]).k = "reply"
        /\ next_id' = next_id /\ run' = run
    BY DEF TakeReply
  <1>2. lock = t /\ lock \in {None, t} /\ cstk[t] \in ClientStacks
    BY <1>1, ClientLocked, ClientOwner
  <1>3. ~Talking
    BY <1>1, <1>2, TalkingIs
  <1>4. CASE IsReplyTo(Head(cstk[t]).id, Head(s2c[pipe]))
    <2>1. Becomes(t, Tail(cstk[t])) /\ out' = [out EXCEPT ![Head(cstk[t]).id] = "ok"]
      BY <1>4 DEF TakeReply
    <2>2. /\ Tail(cstk[t]) \in ClientStacks
          /\ CallIds(Tail(cstk[t])) = CallIds(cstk[t]) \ {Head(cstk[t]).id}
          /\ Tail(cstk[t]) = <<>> \/ In(Tail(cstk[t]), "cb") \/ In(Tail(cstk[t]), "begin")
      BY <1>1, <1>2, ClientPop DEF In
    <2>3. Head(s2c[pipe]).id = Head(cstk[t]).id
      BY <1>4 DEF IsReplyTo
    <2>4. ClientInv' /\ OutStep
      BY <1>1, <1>2, <2>1, <2>2, <2>3, CallEnds
    <2>5. ~In(Tail(cstk[t]), "call")
      BY <2>2 DEF In
    <2>6. QED
      BY <1>2, <1>3, <2>1, <2>4, <2>5, TalkingBecomes
  <1>5. CASE ~IsReplyTo(Head(cstk[t]).id, Head(s2c[pipe]))
    <2>1. Becomes(t, Failed(cstk[t])) /\ out' = [out EXCEPT ![Head(cstk[t]).id] = "failed"]
      BY <1>5 DEF TakeReply
    <2>2. /\ Failed(cstk[t]) \in ClientStacks
          /\ CallIds(Failed(cstk[t])) = CallIds(cstk[t]) \ {Head(cstk[t]).id}
          /\ Failed(cstk[t]) = <<>> \/ In(Failed(cstk[t]), "cb")
      BY <1>1, <1>2, ClientFail
    <2>3. ClientInv' /\ OutStep
      BY <1>1, <1>2, <2>1, <2>2, CallEnds
    <2>4. ~In(Failed(cstk[t]), "call")
      BY <2>2 DEF In
    <2>5. QED
      BY <1>2, <1>3, <2>1, <2>3, <2>4, TalkingBecomes
  <1>6. QED
    BY <1>4, <1>5

\* A callback is taken: the turn is the client's.
LEMMA TakeCallbackMoves ==
  ASSUME ClientInv, NEW t \in Thread, TakeCallback(t), Head(s2c[pipe]) \in ToClient
  PROVE  ClientInv' /\ ~Talking /\ Talking'
  <1> DEFINE m == Head(s2c[pipe])
             f == Frame("cb", m.id, m.from)
             new == <<f>> \o cstk[t]
  <1>1. In(cstk[t], "call") /\ Becomes(t, new) /\ UNCHANGED <<next_id, out>>
    BY DEF TakeCallback
  <1>2. lock \in {None, t} /\ cstk[t] \in ClientStacks
    BY <1>1, ClientLocked, ClientOwner
  <1>3. f \in ClientFrames /\ f.k = "cb"
    BY DEF Frame, ToClient, ClientFrames, FramesOf
  <1> HIDE DEF f
  <1>4. new \in ClientStacks /\ CallIds(new) = CallIds(cstk[t]) /\ Head(new) = f
    BY <1>1, <1>2, <1>3, ClientPush DEF Fits
  <1> HIDE DEF new
  <1>5. ~In(new, "call")
    BY <1>3, <1>4 DEF In
  <1>6. QED
    BY <1>1, <1>2, <1>4, <1>5, ClientGoesOn, TalkingIs, TalkingBecomes

\* The pipe broke: the call ends.
LEMMA ReadFailsMoves ==
  ASSUME ClientInv, NEW t \in Thread, ReadFails(t)
  PROVE  ClientInv' /\ OutStep
  <1>1. /\ In(cstk[t], "call") /\ next_id' = next_id /\ run' = run
        /\ Becomes(t, Failed(cstk[t])) /\ out' = [out EXCEPT ![Head(cstk[t]).id] = "failed"]
    BY DEF ReadFails
  <1>2. lock = t /\ cstk[t] \in ClientStacks
    BY <1>1, ClientLocked, ClientOwner
  <1>3. QED
    BY <1>1, <1>2, ClientFail, CallEnds

\* The frames under a callback.
LEMMA UnderCallback ==
  ASSUME ClientInv, NEW t \in Thread, In(cstk[t], "cb")
  PROVE  /\ lock = t /\ lock \in {None, t} /\ ~In(cstk[t], "call") /\ Talking
         /\ Tail(cstk[t]) \in ClientStacks /\ In(Tail(cstk[t]), "call")
         /\ CallIds(Tail(cstk[t])) = CallIds(cstk[t])
  <1>1. lock = t /\ lock \in {None, t} /\ cstk[t] \in ClientStacks /\ ~In(cstk[t], "call")
    BY ClientLocked, ClientOwner DEF In
  <1>2. /\ Tail(cstk[t]) \in ClientStacks /\ In(Tail(cstk[t]), "call")
        /\ CallIds(Tail(cstk[t])) = CallIds(cstk[t])
    BY <1>1, ClientPop DEF In
  <1>3. QED
    BY <1>1, <1>2, TalkingIs

\* The callback is answered, and the call under it waits again.
LEMMA AnswerMoves ==
  ASSUME ClientInv, NEW t \in Thread, Answer(t)
  PROVE  ClientInv' /\ OutStep /\ Talking /\ (Up(pipe) => ~Talking')
  <1> DEFINE below == Tail(cstk[t])
  <1>1. In(cstk[t], "cb") /\ next_id' = next_id /\ run' = run
    BY DEF Answer
  <1>2. /\ lock = t /\ lock \in {None, t} /\ Talking /\ below \in ClientStacks
        /\ In(below, "call") /\ CallIds(below) = CallIds(cstk[t])
    BY <1>1, UnderCallback
  <1>3. CASE Up(pipe)
    <2>1. Becomes(t, below) /\ out' = out
      BY <1>3 DEF Answer
    <2>2. QED
      BY <1>1, <1>2, <2>1, ClientGoesOn, TalkingBecomes DEF OutStep
  <1>4. CASE ~Up(pipe)
    <2>1. Becomes(t, Failed(below)) /\ out' = [out EXCEPT ![Head(below).id] = "failed"]
      BY <1>4 DEF Answer
    <2> HIDE DEF below
    <2>2. ClientInv' /\ OutStep
      BY <1>1, <1>2, <2>1, ClientFail, CallEnds
    <2>3. QED
      BY <1>2, <1>4, <2>2
  <1>5. QED
    BY <1>3, <1>4

\* The answer could not be built: the call under the callback waits all the same.
LEMMA AnswerNotBuiltMoves ==
  ASSUME ClientInv, NEW t \in Thread, AnswerNotBuilt(t)
  PROVE  ClientInv' /\ OutStep /\ Talking /\ Talking'
  <1> DEFINE below == Tail(cstk[t])
  <1>1. /\ In(cstk[t], "cb") /\ next_id' = next_id /\ run' = run
        /\ Becomes(t, Failed(below)) /\ out' = [out EXCEPT ![Head(below).id] = "failed"]
    BY DEF AnswerNotBuilt
  <1>2. /\ lock = t /\ lock \in {None, t} /\ Talking /\ below \in ClientStacks
        /\ In(below, "call") /\ CallIds(below) = CallIds(cstk[t])
    BY <1>1, UnderCallback
  <1> HIDE DEF below
  <1>3. /\ Failed(below) \in ClientStacks /\ CallIds(Failed(below)) = CallIds(below) \ {Head(below).id}
        /\ Failed(below) = <<>> \/ In(Failed(below), "cb")
    BY <1>2, ClientFail
  <1>4. ClientInv' /\ OutStep
    BY <1>1, <1>2, <1>3, CallEnds
  <1>5. ~In(Failed(below), "call")
    BY <1>3 DEF In
  <1>6. QED
    BY <1>1, <1>2, <1>4, <1>5, TalkingBecomes

\* The request could not be built: the turn stays with the client.
LEMMA RequestNotBuiltMoves ==
  ASSUME ClientInv, NEW t \in Thread, RequestNotBuilt(t)
  PROVE  /\ ClientInv' /\ OutStep /\ Talking /\ Talking'
         /\ next_id \in 1 .. MaxId /\ next_id' = next_id + 1
  <1>1. /\ In(cstk[t], "begin") /\ run' = run /\ next_id <= MaxId /\ next_id' = next_id + 1
        /\ Becomes(t, Tail(cstk[t])) /\ out' = [out EXCEPT ![next_id] = "failed"]
    BY DEF RequestNotBuilt
  <1>2. lock \in {None, t} /\ cstk[t] \in ClientStacks /\ ~In(cstk[t], "call")
    BY <1>1, ClientLocked, ClientOwner DEF In
  <1>3. /\ Tail(cstk[t]) \in ClientStacks /\ CallIds(Tail(cstk[t])) = CallIds(cstk[t])
        /\ Tail(cstk[t]) = <<>> \/ In(Tail(cstk[t]), "cb")
    BY <1>1, <1>2, ClientPop DEF In
  <1>4. ClientInv' /\ next_id \in 1 .. MaxId /\ Abstract!Next_(next_id)
    BY <1>1, <1>2, <1>3, ClientRefused
  <1>5. OutStep
    BY <1>1, <1>4 DEF OutStep
  <1>6. ~In(Tail(cstk[t]), "call")
    BY <1>3 DEF In
  <1>7. Talking /\ Talking'
    BY <1>1, <1>2, <1>3, <1>6, TalkingIs, TalkingBecomes
  <1>8. QED
    BY <1>1, <1>4, <1>5, <1>7

\* The path style was refused: the call about it fails, and the one that needed it.
LEMMA StyleRefusedMoves ==
  ASSUME ClientInv, NEW t \in Thread, StyleRefused(t)
  PROVE  ClientInv' /\ OutStep
  <1>1. /\ In(cstk[t], "call") /\ next_id' = next_id /\ run' = run
        /\ Becomes(t, Failed(cstk[t])) /\ out' = [out EXCEPT ![Head(cstk[t]).id] = "failed"]
    BY DEF StyleRefused
  <1>2. lock = t /\ lock \in {None, t} /\ cstk[t] \in ClientStacks
    BY <1>1, ClientLocked, ClientOwner
  <1>3. /\ Failed(cstk[t]) \in ClientStacks
        /\ CallIds(Failed(cstk[t])) = CallIds(cstk[t]) \ {Head(cstk[t]).id}
    BY <1>1, <1>2, ClientFail
  <1>4. QED
    BY <1>1, <1>2, <1>3, CallEnds

-----------------------------------------------------------------------------
(* The server's stack.                                                     *)

\* A callback is raised by the handler of a libalpm call; a request is served by the
\* connection's loop or inside a callback, and none is served twice.
ServerNested(stk) ==
  \A i \in DOMAIN stk :
    /\ stk[i].k = "cb" => i + 1 \in DOMAIN stk /\ stk[i + 1].k = "alpm"
    /\ stk[i].k # "cb" /\ i + 1 \in DOMAIN stk => stk[i + 1].k = "cb"

ServedOnce(stk) ==
  \A i, j \in DOMAIN stk :
    i # j /\ stk[i].k # "cb" /\ stk[j].k # "cb" => stk[i].id # stk[j].id

\* The requests being served.
ReqIds(stk) == {stk[i].id : i \in {j \in DOMAIN stk : stk[j].k # "cb"}}

ServerStacks == {stk \in Seq(ServerFrames) : ServerNested(stk) /\ ServedOnce(stk)}

\* A server that serves nothing.
LEMMA EmptyServer == <<>> \in ServerStacks /\ ReqIds(<<>>) = {}
  BY DEF ServerStacks, ServerNested, ServedOnce, ReqIds

\* A request or a callback goes on top of what a server does.
LEMMA ServerPush ==
  ASSUME NEW stk \in ServerStacks, NEW f \in ServerFrames,
         f.k = "cb" => In(stk, "alpm"),
         f.k # "cb" => (stk = <<>> \/ In(stk, "cb")) /\ f.id \notin ReqIds(stk)
  PROVE  /\ <<f>> \o stk \in ServerStacks /\ <<f>> \o stk # <<>>
         /\ Head(<<f>> \o stk) = f /\ Tail(<<f>> \o stk) = stk
         /\ ReqIds(<<f>> \o stk) = ReqIds(stk) \cup (IF f.k = "cb" THEN {} ELSE {f.id})
  <1> DEFINE new == <<f>> \o stk
  <1>1. stk \in Seq(ServerFrames) /\ ServerNested(stk) /\ ServedOnce(stk)
    BY DEF ServerStacks
  <1>2. /\ new \in Seq(ServerFrames) /\ new # <<>> /\ Head(new) = f /\ Tail(new) = stk
        /\ new[1] = f /\ 1 \in DOMAIN new
        /\ \A i \in DOMAIN stk : i + 1 \in DOMAIN new /\ new[i + 1] = stk[i]
        /\ \A i \in DOMAIN new : i = 1 \/ (i - 1 \in DOMAIN stk /\ new[i] = stk[i - 1])
    BY <1>1
  <1>3. (\A i \in DOMAIN new : i \in Nat \ {0}) /\ \A i \in DOMAIN stk : i \in Nat \ {0}
    BY <1>1, <1>2
  <1>4. stk # <<>> => Head(stk) = stk[1] /\ 1 \in DOMAIN stk
    BY <1>1
  <1>5. 1 + 1 \in DOMAIN new => 1 \in DOMAIN stk /\ new[1 + 1] = stk[1]
    BY <1>2
  <1> HIDE DEF new
  <1>6. ServerNested(new)
    <2> SUFFICES ASSUME NEW i \in DOMAIN new
                 PROVE  /\ new[i].k = "cb" => i + 1 \in DOMAIN new /\ new[i + 1].k = "alpm"
                        /\ new[i].k # "cb" /\ i + 1 \in DOMAIN new => new[i + 1].k = "cb"
      BY DEF ServerNested
    <2>1. CASE i = 1
      <3>1. 1 \in DOMAIN stk => 1 + 1 \in DOMAIN new /\ stk # <<>>
        BY <1>1, <1>2
      <3>2. QED
        BY <2>1, <1>2, <1>4, <1>5, <3>1 DEF In
    <2>2. CASE i # 1
      <3>1. /\ i - 1 \in DOMAIN stk /\ new[i] = stk[i - 1] /\ (i - 1) + 1 = i
            /\ (i + 1) - 1 = i /\ i + 1 # 1
        BY <2>2, <1>2, <1>3
      <3>2. i + 1 \in DOMAIN new <=> i \in DOMAIN stk
        BY <3>1, <1>2, <1>3
      <3>3. i \in DOMAIN stk => new[i + 1] = stk[i]
        BY <1>2
      <3>4. QED
        BY <3>1, <3>2, <3>3, <1>1 DEF ServerNested
    <2>3. QED
      BY <2>1, <2>2
  <1>7. ReqIds(new) = ReqIds(stk) \cup (IF f.k = "cb" THEN {} ELSE {f.id})
    <2>1. ASSUME NEW c \in ReqIds(new), ~(f.k # "cb" /\ c = f.id) PROVE c \in ReqIds(stk)
      <3>1. PICK i \in DOMAIN new : new[i].k # "cb" /\ c = new[i].id
        BY DEF ReqIds
      <3>2. i - 1 \in DOMAIN stk /\ stk[i - 1].k # "cb" /\ c = stk[i - 1].id
        BY <2>1, <3>1, <1>2
      <3>3. QED
        BY <3>2 DEF ReqIds
    <2>2. ASSUME NEW c \in ReqIds(stk) PROVE c \in ReqIds(new)
      <3>1. PICK i \in DOMAIN stk : stk[i].k # "cb" /\ c = stk[i].id
        BY DEF ReqIds
      <3>2. i + 1 \in DOMAIN new /\ new[i + 1].k # "cb" /\ c = new[i + 1].id
        BY <3>1, <1>2
      <3>3. QED
        BY <3>2 DEF ReqIds
    <2>3. f.k # "cb" => f.id \in ReqIds(new)
      BY <1>2 DEF ReqIds
    <2>4. QED
      BY <2>1, <2>2, <2>3
  <1>8. ServedOnce(new)
    <2> SUFFICES ASSUME NEW i \in DOMAIN new, NEW j \in DOMAIN new, i # j,
                        new[i].k # "cb", new[j].k # "cb", new[i].id = new[j].id
                 PROVE  FALSE
      BY DEF ServedOnce
    <2>1. ASSUME NEW n \in DOMAIN new, n # 1, new[n].k # "cb"
          PROVE  n - 1 \in DOMAIN stk /\ new[n] = stk[n - 1] /\ new[n].id \in ReqIds(stk)
      BY <2>1, <1>2 DEF ReqIds
    <2>2. CASE i = 1
      BY <2>1, <2>2, <1>2
    <2>3. CASE j = 1
      BY <2>1, <2>3, <1>2
    <2>4. CASE i # 1 /\ j # 1
      <3>1. i - 1 # j - 1
        BY <1>3
      <3>2. QED
        BY <2>1, <2>4, <3>1, <1>1 DEF ServedOnce
    <2>5. QED
      BY <2>2, <2>3, <2>4
  <1>9. QED
    BY <1>2, <1>6, <1>7, <1>8 DEF ServerStacks, new

\* What is under the top, and which request goes with it.
LEMMA ServerPop ==
  ASSUME NEW stk \in ServerStacks, stk # <<>>
  PROVE  /\ Tail(stk) \in ServerStacks /\ Head(stk) \in ServerFrames
         /\ Head(stk).k = "cb" => In(Tail(stk), "alpm") /\ ReqIds(Tail(stk)) = ReqIds(stk)
         /\ Head(stk).k # "cb" =>
              /\ Tail(stk) = <<>> \/ In(Tail(stk), "cb")
              /\ Head(stk).id \in ReqIds(stk)
              /\ ReqIds(Tail(stk)) = ReqIds(stk) \ {Head(stk).id}
  <1> DEFINE new == Tail(stk)
  <1>1. stk \in Seq(ServerFrames) /\ ServerNested(stk) /\ ServedOnce(stk)
    BY DEF ServerStacks
  <1>2. /\ new \in Seq(ServerFrames) /\ Head(stk) = stk[1] /\ 1 \in DOMAIN stk
        /\ Head(stk) \in ServerFrames
        /\ \A i \in DOMAIN new : i + 1 \in DOMAIN stk /\ new[i] = stk[i + 1]
        /\ \A i \in DOMAIN stk : i = 1 \/ (i - 1 \in DOMAIN new /\ new[i - 1] = stk[i])
    BY <1>1
  <1>3. (\A i \in DOMAIN new : i \in Nat \ {0}) /\ \A i \in DOMAIN stk : i \in Nat \ {0}
    BY <1>1, <1>2
  <1>4. new # <<>> => Head(new) = new[1] /\ 1 \in DOMAIN new /\ 1 + 1 \in DOMAIN stk
                      /\ new[1] = stk[1 + 1]
    BY <1>2
  <1>5. 1 + 1 \in DOMAIN stk => new # <<>>
    BY <1>1, <1>2
  <1> HIDE DEF new
  <1>6. ServerNested(new)
    <2> SUFFICES ASSUME NEW i \in DOMAIN new
                 PROVE  /\ new[i].k = "cb" => i + 1 \in DOMAIN new /\ new[i + 1].k = "alpm"
                        /\ new[i].k # "cb" /\ i + 1 \in DOMAIN new => new[i + 1].k = "cb"
      BY DEF ServerNested
    <2>1. i + 1 \in DOMAIN stk /\ new[i] = stk[i + 1] /\ (i + 1) + 1 # 1 /\ ((i + 1) + 1) - 1 = i + 1
      BY <1>2, <1>3
    <2>2. (i + 1) + 1 \in DOMAIN stk => i + 1 \in DOMAIN new /\ new[i + 1] = stk[(i + 1) + 1]
      BY <2>1, <1>2
    <2>3. i + 1 \in DOMAIN new => (i + 1) + 1 \in DOMAIN stk
      BY <1>2
    <2>4. QED
      BY <2>1, <2>2, <2>3, <1>1 DEF ServerNested
  <1>7. ServedOnce(new)
    <2> SUFFICES ASSUME NEW i \in DOMAIN new, NEW j \in DOMAIN new, i # j,
                        new[i].k # "cb", new[j].k # "cb"
                 PROVE  new[i].id # new[j].id
      BY DEF ServedOnce
    <2>1. i + 1 # j + 1
      BY <1>3
    <2>2. /\ i + 1 \in DOMAIN stk /\ new[i] = stk[i + 1]
          /\ j + 1 \in DOMAIN stk /\ new[j] = stk[j + 1]
      BY <1>2
    <2>3. stk[i + 1].id # stk[j + 1].id
      BY <2>1, <2>2, <1>1 DEF ServedOnce
    <2>4. QED
      BY <2>2, <2>3
  <1>8. \A c \in ReqIds(new) : c \in ReqIds(stk)
    BY <1>2 DEF ReqIds
  <1>9. \A c \in ReqIds(stk) : c \in ReqIds(new) \/ (stk[1].k # "cb" /\ c = stk[1].id)
    BY <1>2 DEF ReqIds
  <1>10. ASSUME stk[1].k # "cb"
         PROVE  stk[1].id \in ReqIds(stk) /\ stk[1].id \notin ReqIds(new)
    <2>1. stk[1].id \in ReqIds(stk)
      BY <1>2, <1>10 DEF ReqIds
    <2>2. ASSUME NEW i \in DOMAIN new, new[i].k # "cb" PROVE new[i].id # stk[1].id
      <3>1. i + 1 \in DOMAIN stk /\ stk[i + 1] = new[i] /\ 1 # i + 1
        BY <1>2, <1>3
      <3>2. QED
        BY <1>1, <1>2, <1>10, <2>2, <3>1 DEF ServedOnce
    <2>3. QED
      BY <2>1, <2>2 DEF ReqIds
  <1>11. /\ stk[1].k = "cb" => In(new, "alpm")
         /\ stk[1].k # "cb" => new = <<>> \/ In(new, "cb")
    <2>1. /\ stk[1].k = "cb" => 1 + 1 \in DOMAIN stk /\ stk[1 + 1].k = "alpm"
          /\ stk[1].k # "cb" /\ 1 + 1 \in DOMAIN stk => stk[1 + 1].k = "cb"
      BY <1>1, <1>2 DEF ServerNested
    <2>2. QED
      BY <1>4, <1>5, <2>1 DEF In
  <1>12. /\ stk[1].k = "cb" => ReqIds(new) = ReqIds(stk)
         /\ stk[1].k # "cb" => ReqIds(new) = ReqIds(stk) \ {stk[1].id}
    <2>1. CASE stk[1].k = "cb"
      BY <2>1, <1>8, <1>9
    <2>2. CASE stk[1].k # "cb"
      BY <2>2, <1>8, <1>9, <1>10
    <2>3. QED
      BY <2>1, <2>2
  <1>13. QED
    BY <1>2, <1>6, <1>7, <1>10, <1>11, <1>12 DEF ServerStacks, new

-----------------------------------------------------------------------------
(* The channels.                                                           *)

\* A frame sent into an empty pipe is the only one in it.
LEMMA ChanSend ==
  ASSUME NEW S, NEW chan \in [Conns -> Seq(S)], NEW k \in Conns, chan[k] = <<>>, NEW m \in S
  PROVE  /\ Send(chan, k, m) \in [Conns -> Seq(S)]
         /\ Send(chan, k, m)[k] = <<m>>
         /\ <<m>> # <<>> /\ Len(<<m>>) = 1 /\ Head(<<m>>) = m
         /\ \A j \in Conns : j # k => Send(chan, k, m)[j] = chan[j]
  <1>1. Append(chan[k], m) = <<m>>
    OBVIOUS
  <1>2. <<m>> \in Seq(S) /\ <<m>> # <<>> /\ Len(<<m>>) = 1 /\ Head(<<m>>) = m
    OBVIOUS
  <1>3. Send(chan, k, m) = [chan EXCEPT ![k] = <<m>>]
    BY <1>1 DEF Send
  <1>4. QED
    BY <1>2, <1>3

\* Reading the one frame of a pipe empties it.
LEMMA ChanReceive ==
  ASSUME NEW S, NEW chan \in [Conns -> Seq(S)], NEW k \in Conns, chan[k] # <<>>, Len(chan[k]) <= 1
  PROVE  /\ Received(chan, k) \in [Conns -> Seq(S)]
         /\ Received(chan, k)[k] = <<>>
         /\ Head(chan[k]) \in S
         /\ \A j \in Conns : j # k => Received(chan, k)[j] = chan[j]
  <1>1. Tail(chan[k]) = <<>> /\ Head(chan[k]) \in S
    OBVIOUS
  <1>2. <<>> \in Seq(S)
    OBVIOUS
  <1>3. Received(chan, k) = [chan EXCEPT ![k] = <<>>]
    BY <1>1 DEF Received
  <1>4. QED
    BY <1>1, <1>2, <1>3

-----------------------------------------------------------------------------
(* The invariant.                                                          *)

\* Connections are numbered as they are made.  The one that is up is the client's, and
\* one server's; no two servers serve the same.
LinkInv ==
  /\ pipe \in 0 .. MaxConn
  /\ link \in [Conns -> {"unused", "up", "down"}]
  /\ conn \in [Server -> 0 .. MaxConn]
  /\ \E n \in 0 .. MaxConn : \A j \in Conns : link[j] # "unused" <=> j <= n
  /\ \A k \in Conns : link[k] = "up" => pipe = k /\ \E s \in Server : conn[s] = k
  /\ pipe # 0 => link[pipe] # "unused"
  /\ \A s \in Server : conn[s] # 0 => link[conn[s]] # "unused"
  /\ \A s, u \in Server : conn[s] # 0 /\ conn[s] = conn[u] => s = u

\* A server that listens is inside nothing.
ServInv ==
  /\ sstk \in [Server -> ServerStacks]
  /\ \A s \in Server : conn[s] = 0 => sstk[s] = <<>>

\* A connection carries one frame at most each way.
ChanInv ==
  /\ c2s \in [Conns -> Seq(ToServer)] /\ s2c \in [Conns -> Seq(ToClient)]
  /\ \A k \in Conns : /\ Len(c2s[k]) <= 1 /\ Len(s2c[k]) <= 1
                      /\ link[k] = "unused" => c2s[k] = <<>> /\ s2c[k] = <<>>

\* The server of the client's connection is inside libalpm.
Serving == \E s \in Server : conn[s] = pipe /\ Running(s)
Asked == c2s[pipe] # <<>>
Told == s2c[pipe] # <<>>

\* Exactly one of the four has the turn.
TurnInv == Up(pipe) =>
  /\ Asked \/ Told \/ Serving \/ Talking
  /\ ~(Asked /\ Told) /\ ~(Asked /\ Serving) /\ ~(Asked /\ Talking)
  /\ ~(Told /\ Serving) /\ ~(Told /\ Talking) /\ ~(Serving /\ Talking)

\* A request on the wire has not been started, one on a server's stack is being carried
\* out, one replied to has been; and each is in one place.
RunInv ==
  /\ run \in [1 .. MaxId -> {"no", "running", "finished"}]
  /\ \A c \in 1 .. MaxId : next_id <= c => run[c] = "no"
  /\ \A k \in Conns : c2s[k] # <<>> /\ IsRequest(Head(c2s[k])) =>
       /\ Head(c2s[k]).id \in 1 .. MaxId /\ Head(c2s[k]).id < next_id
       /\ run[Head(c2s[k]).id] = "no"
  /\ \A k, l \in Conns :
       /\ c2s[k] # <<>> /\ IsRequest(Head(c2s[k]))
       /\ c2s[l] # <<>> /\ IsRequest(Head(c2s[l]))
       /\ Head(c2s[k]).id = Head(c2s[l]).id
       => k = l
  /\ \A k \in Conns : s2c[k] # <<>> /\ Head(s2c[k]).k = "reply" /\ Head(s2c[k]).id # 0 =>
       Head(s2c[k]).id \in 1 .. MaxId /\ run[Head(s2c[k]).id] = "finished"
  /\ \A s \in Server : \A c \in ReqIds(sstk[s]) : c \in 1 .. MaxId /\ run[c] = "running"
  /\ \A s, u \in Server : s # u => ReqIds(sstk[s]) \cap ReqIds(sstk[u]) = {}

\* Is the first request of server s's connection, which tells the path style, on its
\* way or being served?
Greeting(s) ==
  \/ sstk[s] = <<>> /\ c2s[conn[s]] # <<>> /\ Head(c2s[conn[s]]).k = "style"
  \/ In(sstk[s], "style") /\ Tail(sstk[s]) = <<>>

\* A connected server is under the client's style, or still being told it.
StyleInv ==
  /\ seq \in [Server -> Nat] /\ style \in [Server -> {"win32", "posix"}]
  /\ Style = "posix" =>
       /\ \A k \in Conns : c2s[k] # <<>> => Head(c2s[k]).k # "style"
       /\ \A s \in Server : ~In(sstk[s], "style") /\ (conn[s] # 0 => style[s] = "posix")
  /\ Style = "win32" =>
       \A s \in Server : conn[s] # 0 => style[s] = "win32" \/ Greeting(s)

IInv == ClientInv /\ LinkInv /\ ServInv /\ ChanInv /\ TurnInv /\ RunInv /\ StyleInv

\* Nothing is open, called or served at first.
LEMMA InitIInv == Init => IInv
  <1> SUFFICES ASSUME Init PROVE IInv
    OBVIOUS
  <1>1. /\ lock = None /\ cstk = [t \in Thread |-> <<>>] /\ pipe = 0 /\ next_id = 1
        /\ link = [k \in Conns |-> "unused"]
        /\ c2s = [k \in Conns |-> <<>>] /\ s2c = [k \in Conns |-> <<>>]
        /\ conn = [s \in Server |-> 0] /\ sstk = [s \in Server |-> <<>>]
        /\ seq = [s \in Server |-> 1] /\ style = [s \in Server |-> "posix"]
        /\ out = [c \in 1 .. MaxId |-> "none"] /\ run = [c \in 1 .. MaxId |-> "no"]
    BY DEF Init, Abstract!Init, Abstract!Request
  <1>2. ClientInv
    <2>1. OpenIds = {}
      BY <1>1 DEF OpenIds
    <2>2. \A t \in Thread : cstk[t] = <<>> /\ t # lock
      BY <1>1, ThreadAssumption
    <2>3. cstk \in [Thread -> ClientStacks]
      BY <1>1, EmptyStack
    <2>4. next_id \in 1 .. MaxId + 1 /\ \A c \in 1 .. MaxId : out[c] = "none" /\ next_id <= c
      BY <1>1, BoundAssumption
    <2>5. QED
      BY <1>1, <2>1, <2>2, <2>3, <2>4 DEF ClientInv
  <1>3. LinkInv
    <2>1. 0 \in 0 .. MaxConn /\ \A j \in Conns : ~(j <= 0)
      BY BoundAssumption DEF Conns
    <2>2. \A j \in Conns : link[j] = "unused"
      BY <1>1
    <2>3. \E n \in 0 .. MaxConn : \A j \in Conns : link[j] # "unused" <=> j <= n
      BY <2>1, <2>2
    <2>4. QED
      BY <1>1, <2>1, <2>3 DEF LinkInv
  <1>4. ServInv
    BY <1>1, EmptyServer DEF ServInv
  <1>5. ChanInv
    BY <1>1 DEF ChanInv
  <1>6. TurnInv
    BY <1>1 DEF TurnInv, Up
  <1>7. RunInv
    BY <1>1, EmptyServer DEF RunInv
  <1>8. StyleInv
    BY <1>1 DEF StyleInv, In
  <1>9. QED
    BY <1>2, <1>3, <1>4, <1>5, <1>6, <1>7, <1>8 DEF IInv

-----------------------------------------------------------------------------
(* Links.                                                                  *)

\* A connection goes down: for the client, which forgets it, for a server, which goes
\* back to listening, or just so.
LEMMA LinkDown ==
  ASSUME LinkInv, NEW j \in Conns, link[j] # "unused",
         link' = [link EXCEPT ![j] = "down"],
         pipe' = pipe \/ (pipe' = 0 /\ pipe = j),
         conn' = conn \/ \E s \in Server : conn[s] = j /\ conn' = [conn EXCEPT ![s] = 0]
  PROVE  /\ LinkInv'
         /\ \A k \in Conns : link'[k] = "unused" <=> link[k] = "unused"
         /\ Up(pipe)' => Up(pipe) /\ pipe' = pipe /\ pipe # j
  <1>1. /\ link \in [Conns -> {"unused", "up", "down"}] /\ pipe \in 0 .. MaxConn
        /\ conn \in [Server -> 0 .. MaxConn]
    BY DEF LinkInv
  <1>2. /\ link' \in [Conns -> {"unused", "up", "down"}] /\ pipe' \in 0 .. MaxConn
        /\ conn' \in [Server -> 0 .. MaxConn]
    BY <1>1, BoundAssumption
  <1>3. /\ link'[j] = "down" /\ \A k \in Conns : k # j => link'[k] = link[k]
        /\ \A k \in Conns : link'[k] = "unused" <=> link[k] = "unused"
    BY <1>1
  <1>4. \A s \in Server : conn'[s] = conn[s] \/ (conn'[s] = 0 /\ conn[s] = j)
    BY <1>1
  <1>5. \E n \in 0 .. MaxConn : \A i \in Conns : link'[i] # "unused" <=> i <= n
    BY <1>3 DEF LinkInv
  <1>6. \A k \in Conns : link'[k] = "up" => pipe' = k /\ \E s \in Server : conn'[s] = k
    BY <1>3, <1>4 DEF LinkInv
  <1>7. pipe' # 0 => link'[pipe'] # "unused"
    BY <1>1, <1>3 DEF LinkInv, Conns
  <1>8. \A s \in Server : conn'[s] # 0 => conn'[s] = conn[s] /\ conn[s] \in Conns
    BY <1>1, <1>4 DEF Conns
  <1>9. /\ \A s \in Server : conn'[s] # 0 => link'[conn'[s]] # "unused"
        /\ \A s, u \in Server : conn'[s] # 0 /\ conn'[s] = conn'[u] => s = u
    BY <1>3, <1>4, <1>8 DEF LinkInv
  <1>10. LinkInv'
    BY <1>2, <1>5, <1>6, <1>7, <1>9 DEF LinkInv
  <1>11. Up(pipe)' => Up(pipe) /\ pipe' = pipe /\ pipe # j
    <2>1. pipe' # 0 => pipe' \in Conns
      BY <1>2 DEF Conns
    <2>2. QED
      BY <1>3, <2>1 DEF Up
  <1>12. QED
    BY <1>3, <1>10, <1>11

\* The client disconnects.
LEMMA LinkDisconnect ==
  ASSUME LinkInv, Disconnect, conn' = conn
  PROVE  /\ LinkInv' /\ ~Up(pipe)'
         /\ \A k \in Conns : link'[k] = "unused" <=> link[k] = "unused"
  <1>1. pipe' = 0 /\ ~Up(pipe)'
    BY DEF Disconnect, Up
  <1>2. CASE pipe = 0
    <2>1. link' = link
      BY <1>2 DEF Disconnect
    <2>2. QED
      BY <1>1, <1>2, <2>1 DEF LinkInv
  <1>3. CASE pipe # 0
    <2>1. pipe \in Conns /\ link[pipe] # "unused" /\ link' = [link EXCEPT ![pipe] = "down"]
      BY <1>3 DEF Disconnect, LinkInv, Conns
    <2>2. QED
      BY <1>1, <2>1, LinkDown
  <1>4. QED
    BY <1>2, <1>3

\* The number of the next connection is a new one.
LEMMA NextConn ==
  ASSUME LinkInv, NEW k, k = Cardinality({j \in Conns : link[j] # "unused"}) + 1, k \in Conns
  PROVE  /\ link[k] = "unused"
         /\ \A j \in Conns : link[j] # "unused" <=> j <= k - 1
  <1>1. PICK n \in 0 .. MaxConn : \A j \in Conns : link[j] # "unused" <=> j <= n
    BY DEF LinkInv
  <1>2. {j \in Conns : link[j] # "unused"} = 1 .. n
    BY <1>1, BoundAssumption DEF Conns
  <1>3. Cardinality(1 .. n) = n
    <2>1. Cardinality(1 .. n) = IF 1 > n THEN 0 ELSE n - 1 + 1
      BY FS_Interval, BoundAssumption
    <2>2. QED
      BY <2>1, BoundAssumption
  <1>4. k = n + 1
    BY <1>2, <1>3
  <1>5. k - 1 = n /\ ~(k <= n)
    BY <1>4, BoundAssumption
  <1>6. link[k] = "unused"
    BY <1>1, <1>5
  <1>7. QED
    BY <1>1, <1>5, <1>6

\* A connection is made.
LEMMA LinkOpen ==
  ASSUME LinkInv, NEW s \in Server, conn[s] = 0, pipe = 0,
         NEW k \in Conns, k = Cardinality({j \in Conns : link[j] # "unused"}) + 1,
         link' = [link EXCEPT ![k] = "up"], conn' = [conn EXCEPT ![s] = k], pipe' = k
  PROVE  /\ LinkInv' /\ link[k] = "unused"
         /\ \A u \in Server : conn[u] # k
         /\ \A j \in Conns : j # k => (link'[j] = "unused" <=> link[j] = "unused")
  <1>1. link[k] = "unused" /\ \A j \in Conns : link[j] # "unused" <=> j <= k - 1
    BY NextConn
  <1>2. /\ link \in [Conns -> {"unused", "up", "down"}] /\ conn \in [Server -> 0 .. MaxConn]
        /\ \A j \in Conns : link[j] # "up"
        /\ \A u \in Server : conn[u] # 0 => conn[u] \in Conns /\ link[conn[u]] # "unused"
    BY DEF LinkInv, Conns
  <1>3. k \in 0 .. MaxConn /\ k # 0 /\ k \in Nat
    BY BoundAssumption DEF Conns
  <1>4. /\ link' \in [Conns -> {"unused", "up", "down"}] /\ conn' \in [Server -> 0 .. MaxConn]
        /\ link'[k] = "up" /\ \A j \in Conns : j # k => link'[j] = link[j]
        /\ conn'[s] = k /\ \A u \in Server : u # s => conn'[u] = conn[u]
    BY <1>2, <1>3
  <1>5. \A u \in Server : conn[u] # k
    BY <1>1, <1>2, <1>3
  <1>6. \A j \in Conns : link'[j] # "unused" <=> j <= k
    <2>1. \A j \in Conns : j <= k <=> j <= k - 1 \/ j = k
      BY <1>3 DEF Conns
    <2>2. QED
      BY <1>1, <1>4, <2>1
  <1>7. \A j \in Conns : link'[j] = "up" => j = k
    BY <1>2, <1>4
  <1>8. /\ \A u \in Server : conn'[u] # 0 => link'[conn'[u]] # "unused"
        /\ \A u, v \in Server : conn'[u] # 0 /\ conn'[u] = conn'[v] => u = v
    BY <1>2, <1>4, <1>5 DEF LinkInv
  <1>9. LinkInv'
    <2>1. \E n \in 0 .. MaxConn : \A j \in Conns : link'[j] # "unused" <=> j <= n
      BY <1>3, <1>6
    <2>2. \A j \in Conns : link'[j] = "up" => pipe' = j /\ \E u \in Server : conn'[u] = j
      BY <1>4, <1>7
    <2>3. pipe' # 0 => link'[pipe'] # "unused"
      BY <1>4
    <2>4. QED
      BY <1>3, <1>4, <1>8, <2>1, <2>2, <2>3 DEF LinkInv
  <1>10. QED
    BY <1>1, <1>4, <1>5, <1>9

-----------------------------------------------------------------------------
(* What a step leaves of the invariant.                                    *)

\* The client writes, the server reads, the server writes, the client reads.
LEMMA ToServerSent ==
  ASSUME ChanInv, NEW k \in Conns, c2s[k] = <<>>, NEW m \in ToServer, c2s' = Send(c2s, k, m)
  PROVE  /\ c2s' \in [Conns -> Seq(ToServer)] /\ c2s'[k] = <<m>>
         /\ <<m>> # <<>> /\ Len(<<m>>) = 1 /\ Head(<<m>>) = m
         /\ \A j \in Conns : j # k => c2s'[j] = c2s[j]
         /\ \A j \in Conns : Len(c2s'[j]) <= 1
  <1>1. c2s \in [Conns -> Seq(ToServer)]
    BY DEF ChanInv
  <1>2. /\ Send(c2s, k, m) \in [Conns -> Seq(ToServer)] /\ Send(c2s, k, m)[k] = <<m>>
        /\ <<m>> # <<>> /\ Len(<<m>>) = 1 /\ Head(<<m>>) = m
        /\ \A j \in Conns : j # k => Send(c2s, k, m)[j] = c2s[j]
    BY <1>1, ChanSend
  <1>3. Len(<<m>>) <= 1
    OBVIOUS
  <1>4. QED
    BY <1>2, <1>3 DEF ChanInv

\* The server reads the one frame there is.
LEMMA ToServerRead ==
  ASSUME ChanInv, NEW k \in Conns, c2s[k] # <<>>, c2s' = Received(c2s, k)
  PROVE  /\ c2s' \in [Conns -> Seq(ToServer)] /\ c2s'[k] = <<>> /\ Head(c2s[k]) \in ToServer
         /\ \A j \in Conns : j # k => c2s'[j] = c2s[j]
  <1>1. c2s \in [Conns -> Seq(ToServer)] /\ Len(c2s[k]) <= 1
    BY DEF ChanInv
  <1>2. QED
    BY <1>1, ChanReceive, Zenon

\* The server sends one into an empty pipe.
LEMMA ToClientSent ==
  ASSUME ChanInv, NEW k \in Conns, s2c[k] = <<>>, NEW m \in ToClient, s2c' = Send(s2c, k, m)
  PROVE  /\ s2c' \in [Conns -> Seq(ToClient)] /\ s2c'[k] = <<m>>
         /\ <<m>> # <<>> /\ Len(<<m>>) = 1 /\ Head(<<m>>) = m
         /\ \A j \in Conns : j # k => s2c'[j] = s2c[j]
         /\ \A j \in Conns : Len(s2c'[j]) <= 1
  <1>1. s2c \in [Conns -> Seq(ToClient)]
    BY DEF ChanInv
  <1>2. /\ Send(s2c, k, m) \in [Conns -> Seq(ToClient)] /\ Send(s2c, k, m)[k] = <<m>>
        /\ <<m>> # <<>> /\ Len(<<m>>) = 1 /\ Head(<<m>>) = m
        /\ \A j \in Conns : j # k => Send(s2c, k, m)[j] = s2c[j]
    BY <1>1, ChanSend
  <1>3. Len(<<m>>) <= 1
    OBVIOUS
  <1>4. QED
    BY <1>2, <1>3 DEF ChanInv

\* The client reads the one frame there is.
LEMMA ToClientRead ==
  ASSUME ChanInv, NEW k \in Conns, s2c[k] # <<>>, s2c' = Received(s2c, k)
  PROVE  /\ s2c' \in [Conns -> Seq(ToClient)] /\ s2c'[k] = <<>> /\ Head(s2c[k]) \in ToClient
         /\ \A j \in Conns : j # k => s2c'[j] = s2c[j]
  <1>1. s2c \in [Conns -> Seq(ToClient)] /\ Len(s2c[k]) <= 1
    BY DEF ChanInv
  <1>2. QED
    BY <1>1, ChanReceive, Zenon

\* No request is put on the wire, started or ended.
LEMMA RunKeeps ==
  ASSUME RunInv, UNCHANGED <<run, next_id>>,
         \A k \in Conns : \/ c2s'[k] = <<>> \/ c2s'[k] = c2s[k]
                          \/ ~IsRequest(Head(c2s'[k])),
         \A k \in Conns : \/ s2c'[k] = <<>> \/ s2c'[k] = s2c[k]
                          \/ Head(s2c'[k]).k # "reply" \/ Head(s2c'[k]).id = 0,
         \A s \in Server : ReqIds(sstk'[s]) \subseteq ReqIds(sstk[s])
  PROVE  RunInv'
  <1>1. \A k \in Conns : c2s'[k] # <<>> /\ IsRequest(Head(c2s'[k])) =>
          c2s'[k] = c2s[k]
    OBVIOUS
  <1>2. /\ \A k \in Conns : c2s'[k] # <<>> /\ IsRequest(Head(c2s'[k])) =>
             /\ Head(c2s'[k]).id \in 1 .. MaxId /\ Head(c2s'[k]).id < next_id
             /\ run[Head(c2s'[k]).id] = "no"
        /\ \A k, l \in Conns :
             /\ c2s'[k] # <<>> /\ IsRequest(Head(c2s'[k]))
             /\ c2s'[l] # <<>> /\ IsRequest(Head(c2s'[l]))
             /\ Head(c2s'[k]).id = Head(c2s'[l]).id
             => k = l
    BY <1>1 DEF RunInv
  <1>3. \A k \in Conns : s2c'[k] # <<>> /\ Head(s2c'[k]).k = "reply" /\ Head(s2c'[k]).id # 0 =>
          Head(s2c'[k]).id \in 1 .. MaxId /\ run[Head(s2c'[k]).id] = "finished"
    BY DEF RunInv
  <1>4. /\ \A s \in Server : \A c \in ReqIds(sstk'[s]) : c \in 1 .. MaxId /\ run[c] = "running"
        /\ \A s, u \in Server : s # u => ReqIds(sstk'[s]) \cap ReqIds(sstk'[u]) = {}
    BY DEF RunInv
  <1>5. QED
    BY <1>2, <1>3, <1>4 DEF RunInv, IsRequest

\* A request that has just been numbered is sent.
LEMMA RunSends ==
  ASSUME RunInv, ChanInv, next_id \in 1 .. MaxId, next_id' = next_id + 1,
         NEW k \in Conns, c2s[k] = <<>>, NEW m \in ToServer, m.id = next_id,
         c2s' = Send(c2s, k, m), UNCHANGED <<run, s2c, sstk>>
  PROVE  RunInv'
  <1>1. c2s'[k] = <<m>> /\ Head(<<m>>) = m /\ \A j \in Conns : j # k => c2s'[j] = c2s[j]
    BY ToServerSent
  <1>2. run[next_id] = "no" /\ \A c \in 1 .. MaxId : next_id' <= c => run[c] = "no"
    BY DEF RunInv
  <1>3. /\ \A j \in Conns : c2s'[j] # <<>> /\ IsRequest(Head(c2s'[j])) =>
             /\ Head(c2s'[j]).id \in 1 .. MaxId /\ Head(c2s'[j]).id < next_id'
             /\ run[Head(c2s'[j]).id] = "no"
             /\ j # k => Head(c2s'[j]).id # next_id
    BY <1>1, <1>2 DEF RunInv
  <1>4. \A j, l \in Conns :
             /\ c2s'[j] # <<>> /\ IsRequest(Head(c2s'[j]))
             /\ c2s'[l] # <<>> /\ IsRequest(Head(c2s'[l]))
             /\ Head(c2s'[j]).id = Head(c2s'[l]).id
             => j = l
    BY <1>1, <1>3 DEF RunInv
  <1>5. QED
    BY <1>2, <1>3, <1>4 DEF RunInv, IsRequest

\* A number is used up.
LEMMA RunSkips ==
  ASSUME RunInv, next_id \in 1 .. MaxId, next_id' = next_id + 1, ChanInv,
         UNCHANGED <<run, c2s, s2c, sstk>>
  PROVE  RunInv'
  <1>1. \A k \in Conns : c2s[k] # <<>> /\ IsRequest(Head(c2s[k])) =>
             Head(c2s[k]).id \in 1 .. MaxId /\ Head(c2s[k]).id < next_id + 1
    BY DEF RunInv
  <1>2. \A c \in 1 .. MaxId : next_id + 1 <= c => run[c] = "no"
    BY DEF RunInv
  <1>3. QED
    BY <1>1, <1>2 DEF RunInv, IsRequest

\* The client writes what is not about the path style to a connection.
LEMMA StyleKeeps ==
  ASSUME StyleInv, LinkInv, UNCHANGED <<seq, style, sstk, conn>>,
         \A k \in Conns : \/ c2s'[k] = c2s[k]
                          \/ c2s[k] = <<>> /\ c2s'[k] # <<>> /\ Head(c2s'[k]).k # "style"
  PROVE  StyleInv'
  <1>1. \A s \in Server : conn[s] # 0 => conn[s] \in Conns
    BY DEF LinkInv, Conns
  <1>2. \A s \in Server : conn[s] # 0 /\ Greeting(s) => Greeting(s)'
    BY <1>1 DEF Greeting
  <1>3. QED
    BY <1>2 DEF StyleInv

\* The client does something by itself, with whose turn it is unchanged.
LEMMA ClientAlone ==
  ASSUME IInv, ClientInv', UNCHANGED <<pipe, link, c2s, s2c, svars, run>>,
         next_id' = next_id \/ (next_id \in 1 .. MaxId /\ next_id' = next_id + 1),
         ~Up(pipe) \/ (Talking' <=> Talking)
  PROVE  IInv'
  <1>0. UNCHANGED <<conn, sstk, seq, style>>
    BY DEF svars
  <1>1. LinkInv' /\ ServInv' /\ ChanInv'
    BY <1>0 DEF IInv, LinkInv, ServInv, ChanInv
  <1>2. TurnInv'
    <2>1. /\ Up(pipe)' <=> Up(pipe)
          /\ Asked' <=> Asked
          /\ Told' <=> Told
          /\ Serving' <=> Serving
      BY <1>0 DEF Up, Asked, Told, Serving, Running
    <2>2. QED
      BY <2>1 DEF IInv, TurnInv
  <1>3. RunInv'
    <2>1. CASE next_id' = next_id
      BY <1>0, <2>1, RunKeeps DEF IInv
    <2>2. CASE next_id \in 1 .. MaxId /\ next_id' = next_id + 1
      BY <1>0, <2>2, RunSkips DEF IInv
    <2>3. QED
      BY <2>1, <2>2
  <1>4. StyleInv'
    BY <1>0, StyleKeeps DEF IInv
  <1>5. QED
    BY <1>1, <1>2, <1>3, <1>4 DEF IInv

\* The client disconnects, having read the last frame or not.
LEMMA ClientDisconnects ==
  ASSUME IInv, ClientInv', Disconnect, UNCHANGED <<c2s, svars, run>>,
         s2c' = s2c \/ (pipe # 0 /\ s2c[pipe] # <<>> /\ s2c' = Received(s2c, pipe)),
         next_id' = next_id \/ (next_id \in 1 .. MaxId /\ next_id' = next_id + 1 /\ s2c' = s2c)
  PROVE  IInv'
  <1>0. UNCHANGED <<conn, sstk, seq, style>>
    BY DEF svars
  <1>1. LinkInv' /\ ~Up(pipe)' /\ \A k \in Conns : link'[k] = "unused" <=> link[k] = "unused"
    BY <1>0, LinkDisconnect DEF IInv
  <1>2. TurnInv'
    BY <1>1 DEF TurnInv
  <1>3. ServInv'
    BY <1>0 DEF IInv, ServInv
  <1>4. /\ s2c' \in [Conns -> Seq(ToClient)]
        /\ \A k \in Conns : s2c'[k] = s2c[k] \/ s2c'[k] = <<>>
    <2>1. CASE s2c' = s2c
      BY <2>1 DEF IInv, ChanInv
    <2>2. CASE pipe # 0 /\ s2c[pipe] # <<>> /\ s2c' = Received(s2c, pipe)
      <3>1. pipe \in Conns
        BY <2>2 DEF IInv, LinkInv, Conns
      <3>2. QED
        BY <2>2, <3>1, ToClientRead DEF IInv
    <2>3. QED
      BY <2>1, <2>2
  <1>5. ChanInv'
    <2>1. Len(<<>>) <= 1
      OBVIOUS
    <2>2. QED
      BY <1>1, <1>4, <2>1 DEF IInv, ChanInv
  <1>6. RunInv'
    BY <1>0, <1>4, RunKeeps, RunSkips DEF IInv
  <1>7. StyleInv'
    BY <1>0, StyleKeeps DEF IInv
  <1>8. QED
    BY <1>1, <1>2, <1>3, <1>5, <1>6, <1>7 DEF IInv

\* The client writes to its connection, which is its turn no more.
LEMMA ClientWrites ==
  ASSUME IInv, ClientInv', Talking, ~Talking', Up(pipe),
         NEW m \in ToServer, m.k # "style", c2s' = Send(c2s, pipe, m),
         \/ ~IsRequest(m) /\ next_id' = next_id
         \/ next_id \in 1 .. MaxId /\ m.id = next_id /\ next_id' = next_id + 1,
         UNCHANGED <<pipe, link, s2c, svars, run>>
  PROVE  IInv'
  <1>0. UNCHANGED <<conn, sstk, seq, style>>
    BY DEF svars
  <1>1. pipe \in Conns /\ c2s[pipe] = <<>> /\ ~Told /\ ~Serving
    <2>1. pipe \in Conns
      BY DEF IInv, LinkInv, Conns, Up
    <2>2. QED
      BY <2>1 DEF IInv, TurnInv, Asked
  <1>2. /\ c2s' \in [Conns -> Seq(ToServer)] /\ c2s'[pipe] = <<m>> /\ <<m>> # <<>>
        /\ Len(<<m>>) = 1 /\ Head(<<m>>) = m
        /\ \A j \in Conns : j # pipe => c2s'[j] = c2s[j]
    BY <1>1, ToServerSent DEF IInv
  <1>3. LinkInv' /\ ServInv'
    BY <1>0 DEF IInv, LinkInv, ServInv
  <1>4. ChanInv'
    <2>1. \A k \in Conns : Len(c2s'[k]) <= 1
      BY <1>1, ToServerSent DEF IInv
    <2>2. link[pipe] # "unused"
      BY DEF Up
    <2>3. QED
      BY <1>2, <2>1, <2>2 DEF IInv, ChanInv
  <1>5. TurnInv'
    <2>1. Asked' /\ ~Told' /\ ~Serving'
      BY <1>0, <1>1, <1>2 DEF Asked, Told, Serving, Running
    <2>2. QED
      BY <2>1 DEF TurnInv
  <1>6. RunInv'
    <2>1. CASE ~IsRequest(m) /\ next_id' = next_id
      BY <1>0, <1>2, <2>1, RunKeeps DEF IInv
    <2>2. CASE next_id \in 1 .. MaxId /\ m.id = next_id /\ next_id' = next_id + 1
      BY <1>0, <1>1, <2>2, RunSends DEF IInv
    <2>3. QED
      BY <2>1, <2>2
  <1>7. StyleInv'
    BY <1>0, <1>1, <1>2, StyleKeeps DEF IInv
  <1>8. QED
    BY <1>3, <1>4, <1>5, <1>6, <1>7 DEF IInv

\* The client reads the frame there is.
LEMMA ClientReads ==
  ASSUME IInv, ClientInv', ~Talking, Talking', pipe # 0, s2c[pipe] # <<>>,
         s2c' = Received(s2c, pipe), UNCHANGED <<pipe, link, c2s, svars, run, next_id>>
  PROVE  IInv'
  <1>0. UNCHANGED <<conn, sstk, seq, style>>
    BY DEF svars
  <1>1. pipe \in Conns
    BY DEF IInv, LinkInv, Conns
  <1>2. /\ s2c' \in [Conns -> Seq(ToClient)] /\ s2c'[pipe] = <<>>
        /\ \A j \in Conns : j # pipe => s2c'[j] = s2c[j]
    BY <1>1, ToClientRead DEF IInv
  <1>3. LinkInv' /\ ServInv'
    BY <1>0 DEF IInv, LinkInv, ServInv
  <1>4. ChanInv'
    <2>1. Len(<<>>) <= 1
      OBVIOUS
    <2>2. QED
      BY <1>2, <2>1 DEF IInv, ChanInv
  <1>5. TurnInv'
    <2>1. Up(pipe) => ~Asked /\ Told /\ ~Serving
      BY DEF IInv, TurnInv, Told
    <2>2. /\ Up(pipe)' <=> Up(pipe)
          /\ Asked' <=> Asked
          /\ Serving' <=> Serving
          /\ ~Told'
      BY <1>0, <1>2 DEF Up, Asked, Told, Serving, Running
    <2>3. QED
      BY <2>1, <2>2 DEF TurnInv
  <1>6. RunInv'
    BY <1>0, <1>2, RunKeeps DEF IInv
  <1>7. StyleInv'
    BY <1>0, StyleKeeps DEF IInv
  <1>8. QED
    BY <1>3, <1>4, <1>5, <1>6, <1>7 DEF IInv

-----------------------------------------------------------------------------
(* The steps of the client.                                                *)

\* ensure_connected opens a pipe that nobody has used.
LEMMA OpenKeeps ==
  ASSUME IInv, NEW t \in Thread, NEW s \in Server, Open(t, s)
  PROVE  IInv'
  <1> DEFINE k == Cardinality({j \in Conns : link[j] # "unused"}) + 1
             m == Message("style", next_id, 0)
  <1>1. /\ pipe = 0 /\ conn[s] = 0 /\ k \in Conns
        /\ link' = [link EXCEPT ![k] = "up"] /\ conn' = [conn EXCEPT ![s] = k] /\ pipe' = k
        /\ style' = [style EXCEPT ![s] = "posix"]
        /\ c2s' = IF TellsStyle THEN Send(c2s, k, m) ELSE c2s
        /\ UNCHANGED <<s2c, sstk, seq, run>>
    BY DEF Open, Greeted
  <1>2. /\ ClientInv' /\ (TellsStyle <=> ~Talking')
        /\ TellsStyle => next_id \in 1 .. MaxId /\ next_id' = next_id + 1
        /\ ~TellsStyle => next_id' = next_id
    BY OpenMoves DEF IInv
  <1>3. m.k = "style" /\ m.id = next_id /\ (TellsStyle => m \in ToServer)
    BY <1>2, BoundAssumption DEF Message, ToServer, FramesOf
  <1>l. LinkInv /\ ServInv /\ ChanInv /\ RunInv /\ StyleInv
    BY DEF IInv
  <1>4. /\ LinkInv' /\ link[k] = "unused" /\ \A u \in Server : conn[u] # k
        /\ \A j \in Conns : j # k => (link'[j] = "unused" <=> link[j] = "unused")
    BY <1>1, <1>l, LinkOpen
  <1> HIDE DEF k, m
  <1>5. c2s[k] = <<>> /\ s2c[k] = <<>> /\ sstk[s] = <<>>
    BY <1>1, <1>4, <1>l DEF ChanInv, ServInv
  <1>6. /\ conn'[s] = k /\ \A u \in Server : u # s => conn'[u] = conn[u]
        /\ k # 0 /\ link'[k] = "up"
    BY <1>1, <1>l DEF LinkInv, Conns
  <1>7. /\ c2s' \in [Conns -> Seq(ToServer)]
        /\ \A j \in Conns : Len(c2s'[j]) <= 1
        /\ \A j \in Conns : j # k => c2s'[j] = c2s[j]
        /\ TellsStyle => c2s'[k] # <<>> /\ Head(c2s'[k]) = m
        /\ ~TellsStyle => c2s'[k] = <<>>
    <2>1. CASE TellsStyle
      BY <2>1, <1>1, <1>3, <1>5, <1>l, ToServerSent
    <2>2. CASE ~TellsStyle
      BY <2>2, <1>1, <1>5, <1>l DEF ChanInv
    <2>3. QED
      BY <2>1, <2>2
  <1>8. ServInv'
    BY <1>1, <1>5, <1>6, <1>l DEF ServInv
  <1>9. ChanInv'
    BY <1>1, <1>4, <1>6, <1>7, <1>l DEF ChanInv
  <1>10. TurnInv'
    <2>1. \A u \in Server : conn'[u] = k => u = s
      BY <1>4, <1>6
    <2>2. ~Serving'
      BY <1>1, <1>5, <2>1 DEF Serving, Running, In
    <2>3. ~Told' /\ (Asked' <=> TellsStyle)
      BY <1>1, <1>5, <1>7 DEF Asked, Told
    <2>4. QED
      BY <1>2, <2>2, <2>3 DEF TurnInv
  <1>11. RunInv'
    <2>1. CASE TellsStyle
      BY <2>1, <1>1, <1>2, <1>3, <1>5, <1>l, RunSends
    <2>2. CASE ~TellsStyle
      BY <2>2, <1>1, <1>2, <1>l, RunKeeps
    <2>3. QED
      BY <2>1, <2>2
  <1>12. StyleInv'
    <2>1. style' \in [Server -> {"win32", "posix"}] /\ style'[s] = "posix"
          /\ \A u \in Server : u # s => style'[u] = style[u]
      BY <1>1, <1>l DEF StyleInv
    <2>2. \A u \in Server : u # s /\ conn'[u] # 0 => conn[u] \in Conns /\ conn[u] # k
      BY <1>4, <1>6, <1>l DEF LinkInv, Conns
    <2>3. CASE Style = "posix"
      <3>1. c2s' = c2s
        BY <1>1, <2>3 DEF TellsStyle
      <3>2. QED
        BY <1>1, <1>6, <2>1, <2>3, <3>1, <1>l DEF StyleInv
    <2>4. CASE Style = "win32"
      <3>1. Greeting(s)'
        BY <1>1, <1>3, <1>5, <1>6, <1>7, <2>4 DEF Greeting, TellsStyle
      <3>2. \A u \in Server : u # s /\ conn'[u] # 0 /\ Greeting(u) => Greeting(u)'
        BY <1>1, <1>6, <1>7, <2>2 DEF Greeting
      <3>3. QED
        BY <1>1, <1>6, <2>1, <2>4, <3>1, <3>2, <1>l DEF StyleInv
    <2>5. QED
      BY <2>3, <2>4, StyleAssumption
  <1>13. QED
    BY <1>2, <1>4, <1>8, <1>9, <1>10, <1>11, <1>12 DEF IInv

\* A request is sent on a pipe that is empty both ways, with a number not seen before.
LEMMA InvokeKeeps ==
  ASSUME IInv, NEW t \in Thread, Invoke(t)
  PROVE  IInv'
  <1> DEFINE m == Message("alpm", next_id, 0)
  <1>1. /\ ClientInv' /\ Talking /\ next_id \in 1 .. MaxId /\ (Up(pipe) => ~Talking')
    BY InvokeMoves DEF IInv
  <1>2. next_id' = next_id + 1 /\ UNCHANGED <<s2c, svars, run>>
    BY DEF Invoke
  <1>3. CASE Up(pipe)
    <2>1. m \in ToServer /\ m.k # "style" /\ m.id = next_id
      BY <1>1, BoundAssumption DEF Message, ToServer, FramesOf
    <2>2. c2s' = Send(c2s, pipe, m) /\ UNCHANGED <<pipe, link>>
      BY <1>3 DEF Invoke
    <2> HIDE DEF m
    <2>3. QED
      BY <1>1, <1>2, <1>3, <2>1, <2>2, ClientWrites
  <1>4. CASE ~Up(pipe)
    <2>1. Disconnect /\ UNCHANGED c2s
      BY <1>4 DEF Invoke
    <2>2. QED
      BY <1>1, <1>2, <2>1, ClientDisconnects
  <1>5. QED
    BY <1>3, <1>4

\* A reply is read by the call that waits, whose request has ended.
LEMMA TakeReplyKeeps ==
  ASSUME IInv, NEW t \in Thread, TakeReply(t)
  PROVE  IInv'
  <1>1. ClientInv' /\ ~Talking /\ Talking'
    BY TakeReplyMoves DEF IInv
  <1>2. /\ pipe # 0 /\ s2c[pipe] # <<>> /\ s2c' = Received(s2c, pipe)
        /\ UNCHANGED <<next_id, c2s, svars, run>>
        /\ UNCHANGED <<pipe, link>> \/ Disconnect
    BY DEF TakeReply
  <1>3. QED
    BY <1>1, <1>2, ClientReads, ClientDisconnects

\* A callback is read by the call that waits; its server waits for the answer.
LEMMA TakeCallbackKeeps ==
  ASSUME IInv, NEW t \in Thread, TakeCallback(t)
  PROVE  IInv'
  <1>1. /\ pipe # 0 /\ s2c[pipe] # <<>> /\ s2c' = Received(s2c, pipe)
        /\ UNCHANGED <<pipe, link, next_id, c2s, svars, run>>
    BY DEF TakeCallback
  <1>2. Head(s2c[pipe]) \in ToClient
    <2>1. pipe \in Conns
      BY <1>1 DEF IInv, LinkInv, Conns
    <2>2. QED
      BY <1>1, <2>1, ToClientRead DEF IInv
  <1>3. ClientInv' /\ ~Talking /\ Talking'
    BY <1>2, TakeCallbackMoves DEF IInv
  <1>4. QED
    BY <1>1, <1>3, ClientReads

\* An answer is sent to the server that waits for one.
LEMMA AnswerKeeps ==
  ASSUME IInv, NEW t \in Thread, Answer(t)
  PROVE  IInv'
  <1> DEFINE f == Head(cstk[t])
             m == Message("answer", f.id, f.from)
  <1>1. ClientInv' /\ Talking /\ (Up(pipe) => ~Talking')
    BY AnswerMoves DEF IInv
  <1>2. In(cstk[t], "cb") /\ UNCHANGED <<next_id, s2c, svars, run>>
    BY DEF Answer
  <1>3. CASE Up(pipe)
    <2>1. c2s' = Send(c2s, pipe, m) /\ UNCHANGED <<pipe, link>>
      BY <1>3 DEF Answer
    <2>2. f \in ClientFrames
      <3>1. cstk[t] \in ClientStacks /\ cstk[t] # <<>>
        BY <1>2 DEF In, IInv, ClientInv
      <3>2. QED
        BY <3>1, ClientPop
    <2>3. m \in ToServer /\ m.k # "style" /\ ~IsRequest(m)
      BY <2>2 DEF Message, ToServer, ClientFrames, FramesOf, IsRequest
    <2> HIDE DEF m
    <2>4. QED
      BY <1>1, <1>2, <1>3, <2>1, <2>3, ClientWrites
  <1>4. CASE ~Up(pipe)
    <2>1. Disconnect /\ UNCHANGED c2s
      BY <1>4 DEF Answer
    <2>2. QED
      BY <1>1, <1>2, <2>1, ClientDisconnects
  <1>5. QED
    BY <1>3, <1>4

\* The steps of a thread, one by one.
LEMMA ClientKeeps ==
  ASSUME IInv, NEW t \in Thread, Call(t) \/ ClientStep(t) \/ ClientFault(t)
  PROVE  IInv'
  <1>1. CASE Call(t)
    <2>1. ClientInv' /\ Talking /\ Talking'
      BY <1>1, CallMoves DEF IInv
    <2>2. UNCHANGED <<pipe, link, c2s, s2c, svars, run, next_id>>
      BY <1>1 DEF Call
    <2>3. QED
      BY <2>1, <2>2, ClientAlone
  <1>2. ASSUME NEW s \in Server, Open(t, s) PROVE IInv'
    BY <1>2, OpenKeeps
  <1>3. CASE CannotOpen(t)
    <2>1. ClientInv'
      BY <1>3, CannotOpenMoves DEF IInv
    <2>2. UNCHANGED <<pipe, link, c2s, s2c, svars, run, next_id>> /\ ~Up(pipe)
      BY <1>3 DEF CannotOpen, Up
    <2>3. QED
      BY <2>1, <2>2, ClientAlone
  <1>4. CASE Invoke(t)
    BY <1>4, InvokeKeeps
  <1>5. CASE TakeReply(t)
    BY <1>5, TakeReplyKeeps
  <1>6. CASE TakeCallback(t)
    BY <1>6, TakeCallbackKeeps
  <1>7. CASE ReadFails(t)
    <2>1. ClientInv'
      BY <1>7, ReadFailsMoves DEF IInv
    <2>2. Disconnect /\ UNCHANGED <<next_id, c2s, s2c, svars, run>>
      BY <1>7 DEF ReadFails
    <2>3. QED
      BY <2>1, <2>2, ClientDisconnects
  <1>8. CASE Answer(t)
    BY <1>8, AnswerKeeps
  <1>9. CASE AnswerNotBuilt(t)
    <2>1. ClientInv' /\ Talking /\ Talking'
      BY <1>9, AnswerNotBuiltMoves DEF IInv
    <2>2. UNCHANGED <<pipe, link, c2s, s2c, svars, run, next_id>>
      BY <1>9 DEF AnswerNotBuilt
    <2>3. QED
      BY <2>1, <2>2, ClientAlone
  <1>10. CASE RequestNotBuilt(t)
    <2>1. /\ ClientInv' /\ Talking /\ Talking'
          /\ next_id \in 1 .. MaxId /\ next_id' = next_id + 1
      BY <1>10, RequestNotBuiltMoves DEF IInv
    <2>2. UNCHANGED <<pipe, link, c2s, s2c, svars, run>>
      BY <1>10 DEF RequestNotBuilt
    <2>3. QED
      BY <2>1, <2>2, ClientAlone
  <1>11. CASE StyleRefused(t)
    <2>1. ClientInv'
      BY <1>11, StyleRefusedMoves DEF IInv
    <2>2. /\ Disconnect /\ UNCHANGED <<next_id, c2s, svars, run>>
          /\ pipe # 0 /\ s2c[pipe] # <<>> /\ s2c' = Received(s2c, pipe)
      BY <1>11 DEF StyleRefused
    <2>3. QED
      BY <2>1, <2>2, ClientDisconnects
  <1>12. QED
    BY <1>1, <1>2, <1>3, <1>4, <1>5, <1>6, <1>7, <1>8, <1>9, <1>10, <1>11
       DEF ClientStep, ClientFault

\* arpc_conn_unref closes the pipe between calls.
LEMMA LastHandleReleasedKeeps ==
  ASSUME IInv, LastHandleReleased
  PROVE  IInv'
  <1>1. Disconnect /\ UNCHANGED <<lock, cstk, next_id, c2s, s2c, svars, out, run>>
    BY DEF LastHandleReleased
  <1>2. ClientInv'
    BY <1>1 DEF IInv, ClientInv, OpenIds
  <1>3. QED
    BY <1>1, <1>2, ClientDisconnects

-----------------------------------------------------------------------------
(* The steps of a server.                                                  *)

\* A step of a server leaves the client as it was.
LEMMA ClientSame ==
  ASSUME ClientInv, UNCHANGED <<cvars, out>>
  PROVE  ClientInv' /\ (Talking' <=> Talking) /\ pipe' = pipe /\ next_id' = next_id
  BY DEF ClientInv, Talking, OpenIds, cvars

\* One server's stack changes, and is empty if it gives its connection up.
LEMMA ServMoves ==
  ASSUME ServInv, LinkInv, NEW s \in Server, NEW new \in ServerStacks,
         sstk' = [sstk EXCEPT ![s] = new],
         (conn' = conn /\ conn[s] # 0) \/ (conn' = [conn EXCEPT ![s] = 0] /\ new = <<>>)
  PROVE  /\ ServInv' /\ sstk'[s] = new
         /\ \A u \in Server : u # s => sstk'[u] = sstk[u]
  <1>1. /\ sstk' \in [Server -> ServerStacks] /\ sstk'[s] = new
        /\ \A u \in Server : u # s => sstk'[u] = sstk[u]
    BY DEF ServInv
  <1>2. \A u \in Server : u # s => conn'[u] = conn[u]
    BY DEF LinkInv
  <1>3. conn'[s] = 0 => new = <<>>
    BY DEF LinkInv
  <1>4. QED
    BY <1>1, <1>2, <1>3 DEF ServInv

\* Is a stack inside a handler?
Inside(stk) == In(stk, "alpm") \/ In(stk, "style")

\* On a connection that is up one of the four has the turn, seen from its server.
LEMMA TurnOf ==
  ASSUME IInv, NEW s \in Server, conn[s] # 0
  PROVE  /\ conn[s] \in Conns
         /\ Up(conn[s]) =>
              /\ conn[s] = pipe
              /\ Serving <=> Inside(sstk[s])
              /\ c2s[conn[s]] # <<>> \/ s2c[conn[s]] # <<>> \/ Inside(sstk[s]) \/ Talking
              /\ c2s[conn[s]] # <<>> => s2c[conn[s]] = <<>> /\ ~Inside(sstk[s]) /\ ~Talking
              /\ s2c[conn[s]] # <<>> => ~Inside(sstk[s]) /\ ~Talking
              /\ Inside(sstk[s]) => ~Talking
  <1>1. conn[s] \in Conns
    BY DEF IInv, LinkInv, Conns
  <1>2. ASSUME Up(conn[s]) PROVE conn[s] = pipe /\ (Serving <=> Inside(sstk[s]))
    BY <1>1, <1>2 DEF IInv, LinkInv, Up, Serving, Running, Inside
  <1>3. QED
    BY <1>1, <1>2 DEF IInv, TurnInv, Asked, Told

\* A server does something on a connection other than the one that is up.
LEMMA TurnElsewhere ==
  ASSUME IInv, NEW s \in Server, conn[s] # 0, NEW new, sstk' = [sstk EXCEPT ![s] = new],
         \A u \in Server : u # s => conn'[u] = conn[u], conn'[s] \in {conn[s], 0},
         pipe' = pipe, Talking' <=> Talking,
         \A j \in Conns : j # conn[s] => c2s'[j] = c2s[j] /\ s2c'[j] = s2c[j],
         Up(pipe)' => Up(pipe) /\ pipe # conn[s]
  PROVE  TurnInv'
  <1> SUFFICES ASSUME Up(pipe)' PROVE TurnInv'
    BY DEF TurnInv
  <1>1. pipe \in Conns /\ pipe # conn[s] /\ pipe # 0 /\ Up(pipe)
    BY DEF Up, IInv, LinkInv, Conns
  <1>2. (Asked' <=> Asked) /\ (Told' <=> Told)
    BY <1>1 DEF Asked, Told
  <1>3. Serving' <=> Serving
    <2>1. \A u \in Server : conn'[u] = pipe <=> conn[u] = pipe
      BY <1>1
    <2>2. \A u \in Server : conn[u] = pipe => sstk'[u] = sstk[u]
      BY <1>1 DEF IInv, ServInv
    <2>3. QED
      BY <2>1, <2>2 DEF Serving, Running
  <1>4. QED
    BY <1>1, <1>2, <1>3 DEF TurnInv, IInv

\* A server that stays connected takes the turn and passes it on.
LEMMA TurnHere ==
  ASSUME IInv, NEW s \in Server, conn[s] # 0, NEW new, sstk' = [sstk EXCEPT ![s] = new],
         UNCHANGED <<link, conn, pipe>>, Talking' <=> Talking,
         \A j \in Conns : j # conn[s] => c2s'[j] = c2s[j] /\ s2c'[j] = s2c[j],
         Up(conn[s]) =>
           /\ c2s[conn[s]] # <<>> \/ Inside(sstk[s])
           /\ c2s'[conn[s]] # <<>> \/ s2c'[conn[s]] # <<>> \/ Inside(new)
           /\ c2s'[conn[s]] # <<>> => s2c'[conn[s]] = <<>> /\ ~Inside(new)
           /\ s2c'[conn[s]] # <<>> => ~Inside(new)
  PROVE  TurnInv'
  <1>1. CASE Up(conn[s])
    <2>1. conn[s] = pipe /\ ~Talking
      BY <1>1, TurnOf
    <2>2. Serving' <=> Inside(new)
      <3>1. sstk'[s] = new
        BY DEF IInv, ServInv
      <3>2. \A u \in Server : conn[u] = pipe => u = s
        BY <2>1 DEF IInv, LinkInv
      <3>3. QED
        BY <2>1, <3>1, <3>2 DEF Serving, Running, Inside
    <2>3. /\ Asked' <=> c2s'[conn[s]] # <<>>
          /\ Told' <=> s2c'[conn[s]] # <<>>
      BY <2>1 DEF Asked, Told
    <2>4. QED
      BY <1>1, <2>1, <2>2, <2>3 DEF TurnInv
  <1>2. CASE ~Up(conn[s])
    <2>1. Up(pipe)' => Up(pipe) /\ pipe # conn[s]
      BY <1>2 DEF Up
    <2>2. QED
      BY <2>1, TurnElsewhere
  <1>3. QED
    BY <1>1, <1>2

\* What a server's step leaves of the styles, if it is right about its own.
LEMMA StyleServes ==
  ASSUME StyleInv, ServInv, LinkInv, NEW s \in Server, conn[s] # 0,
         NEW new, sstk' = [sstk EXCEPT ![s] = new],
         \A u \in Server : u # s => conn'[u] = conn[u] /\ style'[u] = style[u],
         conn'[s] \in {conn[s], 0},
         seq' \in [Server -> Nat], style' \in [Server -> {"win32", "posix"}],
         \A j \in Conns : c2s'[j] = c2s[j] \/ (j = conn[s] /\ c2s'[j] = <<>>),
         Style = "posix" => ~In(new, "style") /\ (conn'[s] # 0 => style'[s] = "posix"),
         Style = "win32" /\ conn'[s] # 0 => style'[s] = "win32" \/ Greeting(s)'
  PROVE  StyleInv'
  <1>1. sstk'[s] = new /\ \A u \in Server : u # s => sstk'[u] = sstk[u]
    BY DEF ServInv
  <1>2. \A u \in Server : u # s /\ conn[u] # 0 => conn[u] \in Conns /\ conn[u] # conn[s]
    BY DEF LinkInv, Conns
  <1>3. \A u \in Server : u # s /\ conn[u] # 0 /\ Greeting(u) => Greeting(u)'
    BY <1>1, <1>2 DEF Greeting
  <1>4. CASE Style = "posix"
    BY <1>1, <1>4 DEF StyleInv
  <1>5. CASE Style = "win32"
    BY <1>3, <1>5 DEF StyleInv
  <1>6. QED
    BY <1>4, <1>5, StyleAssumption

\* A server whose frames are or become others than the greeting is under the style.
LEMMA UnderStyle ==
  ASSUME StyleInv, NEW s \in Server, conn[s] # 0,
         \/ sstk[s] # <<>> /\ ~In(sstk[s], "style")
         \/ sstk[s] = <<>> /\ c2s[conn[s]] # <<>> /\ Head(c2s[conn[s]]).k # "style"
  PROVE  style[s] = Style
  BY StyleAssumption DEF StyleInv, Greeting, In

\* A request is taken off the wire and started.
LEMMA RunStarts ==
  ASSUME RunInv, ServInv, NEW s \in Server, NEW k \in Conns, c2s[k] # <<>>, IsRequest(Head(c2s[k])),
         NEW id, id = Head(c2s[k]).id,
         NEW new, ReqIds(new) = ReqIds(sstk[s]) \cup {id},
         sstk' = [sstk EXCEPT ![s] = new],
         c2s'[k] = <<>>, \A j \in Conns : j # k => c2s'[j] = c2s[j],
         run' = [run EXCEPT ![id] = "running"], UNCHANGED <<s2c, next_id>>, next_id \in Nat
  PROVE  RunInv'
  <1>1. id \in 1 .. MaxId /\ id < next_id /\ run[id] = "no"
    BY DEF RunInv
  <1>2. /\ run' \in [1 .. MaxId -> {"no", "running", "finished"}] /\ run'[id] = "running"
        /\ \A c \in 1 .. MaxId : c # id => run'[c] = run[c]
    BY <1>1 DEF RunInv
  <1>3. sstk'[s] = new /\ \A u \in Server : u # s => sstk'[u] = sstk[u]
    BY DEF ServInv
  <1>4. \A u \in Server : id \notin ReqIds(sstk[u])
    BY <1>1 DEF RunInv
  <1>5. \A c \in 1 .. MaxId : next_id' <= c => run'[c] = "no"
    <2>1. \A c \in 1 .. MaxId : next_id <= c => c # id
      BY <1>1 DEF RunInv
    <2>2. QED
      BY <1>2, <2>1 DEF RunInv
  <1>6. \A j \in Conns : c2s'[j] # <<>> /\ IsRequest(Head(c2s'[j])) =>
          /\ c2s'[j] = c2s[j] /\ j # k /\ Head(c2s[j]).id # id
    BY DEF RunInv
  <1>7. /\ \A j \in Conns : c2s'[j] # <<>> /\ IsRequest(Head(c2s'[j])) =>
             /\ Head(c2s'[j]).id \in 1 .. MaxId /\ Head(c2s'[j]).id < next_id'
             /\ run'[Head(c2s'[j]).id] = "no"
        /\ \A j, l \in Conns :
             /\ c2s'[j] # <<>> /\ IsRequest(Head(c2s'[j]))
             /\ c2s'[l] # <<>> /\ IsRequest(Head(c2s'[l]))
             /\ Head(c2s'[j]).id = Head(c2s'[l]).id
             => j = l
    BY <1>2, <1>6 DEF RunInv
  <1>8. \A j \in Conns : s2c'[j] # <<>> /\ Head(s2c'[j]).k = "reply" /\ Head(s2c'[j]).id # 0 =>
          Head(s2c'[j]).id \in 1 .. MaxId /\ run'[Head(s2c'[j]).id] = "finished"
    BY <1>1, <1>2 DEF RunInv
  <1>9. \A u \in Server : \A c \in ReqIds(sstk'[u]) : c \in 1 .. MaxId /\ run'[c] = "running"
    <2>1. \A u \in Server : \A c \in ReqIds(sstk[u]) : /\ c \in 1 .. MaxId /\ run[c] = "running"
                                                       /\ run'[c] = run[c]
      BY <1>2, <1>4 DEF RunInv
    <2>2. \A u \in Server : \A c \in ReqIds(sstk'[u]) : c = id \/ c \in ReqIds(sstk[u])
      BY <1>3
    <2>3. QED
      BY <1>1, <1>2, <2>1, <2>2
  <1>10. \A u, v \in Server : u # v => ReqIds(sstk'[u]) \cap ReqIds(sstk'[v]) = {}
    <2>1. \A u, v \in Server : u # v => ReqIds(sstk[u]) \cap ReqIds(sstk[v]) = {}
      BY DEF RunInv
    <2>2. QED
      BY <1>3, <1>4, <2>1
  <1>11. QED
    BY ONLY <1>2, <1>5, <1>7, <1>8, <1>9, <1>10 DEF RunInv, IsRequest

\* A request has been carried out, and may be replied to.
LEMMA RunEnds ==
  ASSUME RunInv, ServInv, NEW s \in Server, NEW id \in ReqIds(sstk[s]),
         NEW new, ReqIds(new) \subseteq ReqIds(sstk[s]) \ {id},
         sstk' = [sstk EXCEPT ![s] = new],
         run' = [run EXCEPT ![id] = "finished"], UNCHANGED <<c2s, next_id>>,
         \A j \in Conns : s2c'[j] = s2c[j] \/ Head(s2c'[j]).id = id
  PROVE  RunInv'
  <1>1. id \in 1 .. MaxId /\ run[id] = "running"
    BY DEF RunInv
  <1>2. /\ run' \in [1 .. MaxId -> {"no", "running", "finished"}] /\ run'[id] = "finished"
        /\ \A c \in 1 .. MaxId : c # id => run'[c] = run[c]
    BY <1>1 DEF RunInv
  <1>3. sstk'[s] = new /\ \A u \in Server : u # s => sstk'[u] = sstk[u]
    BY DEF ServInv
  <1>4. \A u \in Server : u # s => id \notin ReqIds(sstk[u])
    BY DEF RunInv
  <1>5. \A c \in 1 .. MaxId : next_id' <= c => run'[c] = "no"
    BY <1>1, <1>2 DEF RunInv
  <1>6. \A j \in Conns : c2s'[j] # <<>> /\ IsRequest(Head(c2s'[j])) =>
             /\ Head(c2s'[j]).id \in 1 .. MaxId /\ Head(c2s'[j]).id < next_id'
             /\ run'[Head(c2s'[j]).id] = "no"
    BY <1>1, <1>2 DEF RunInv
  <1>7. \A j \in Conns : s2c'[j] # <<>> /\ Head(s2c'[j]).k = "reply" /\ Head(s2c'[j]).id # 0 =>
          Head(s2c'[j]).id \in 1 .. MaxId /\ run'[Head(s2c'[j]).id] = "finished"
    BY <1>1, <1>2 DEF RunInv
  <1>8. /\ \A u \in Server : \A c \in ReqIds(sstk'[u]) : c \in 1 .. MaxId /\ run'[c] = "running"
        /\ \A u, v \in Server : u # v => ReqIds(sstk'[u]) \cap ReqIds(sstk'[v]) = {}
    <2>1. \A u \in Server : ReqIds(sstk'[u]) \subseteq ReqIds(sstk[u]) /\ id \notin ReqIds(sstk'[u])
      BY <1>3, <1>4
    <2>2. /\ \A u \in Server : \A c \in ReqIds(sstk[u]) : c \in 1 .. MaxId /\ run[c] = "running"
          /\ \A u, v \in Server : u # v => ReqIds(sstk[u]) \cap ReqIds(sstk[v]) = {}
      BY DEF RunInv
    <2>3. \A u \in Server : \A c \in ReqIds(sstk'[u]) : c \in 1 .. MaxId /\ run'[c] = "running"
      BY <1>2, <2>1, <2>2
    <2>4. QED
      BY <2>1, <2>2, <2>3
  <1>9. \A j, l \in Conns :
             /\ c2s'[j] # <<>> /\ IsRequest(Head(c2s'[j]))
             /\ c2s'[l] # <<>> /\ IsRequest(Head(c2s'[l]))
             /\ Head(c2s'[j]).id = Head(c2s'[l]).id
             => j = l
    BY DEF RunInv
  <1>10. QED
    BY ONLY <1>2, <1>5, <1>6, <1>7, <1>8, <1>9 DEF RunInv, IsRequest

\* A request is read by a server at rest or in a callback, and has run nowhere else.
LEMMA TakeRequestKeeps ==
  ASSUME IInv, NEW s \in Server, TakeRequest(s)
  PROVE  IInv'
  <1> DEFINE k == conn[s]
             m == Head(c2s[k])
             f == Frame(m.k, m.id, 0)
             new == <<f>> \o sstk[s]
  <1>1. /\ k # 0 /\ ~Running(s) /\ c2s[k] # <<>> /\ IsRequest(m)
        /\ c2s' = Received(c2s, k) /\ sstk' = [sstk EXCEPT ![s] = new]
        /\ run' = [run EXCEPT ![m.id] = "running"]
        /\ UNCHANGED <<cvars, link, s2c, conn, seq, style, out>>
    BY DEF TakeRequest, Waiting, Serves
  <1>l. ClientInv /\ LinkInv /\ ServInv /\ ChanInv /\ RunInv /\ StyleInv
    BY DEF IInv
  <1>2. ClientInv' /\ (Talking' <=> Talking) /\ pipe' = pipe /\ next_id' = next_id
    BY <1>1, <1>l, ClientSame
  <1>3. k \in Conns
    BY <1>1, TurnOf
  <1>4. /\ c2s' \in [Conns -> Seq(ToServer)] /\ c2s'[k] = <<>> /\ m \in ToServer
        /\ \A j \in Conns : j # k => c2s'[j] = c2s[j]
    BY <1>1, <1>3, <1>l, ToServerRead
  <1>5. f \in ServerFrames /\ f.k \in {"alpm", "style"} /\ f.k = m.k /\ f.id = m.id
    BY <1>1, <1>4 DEF Frame, ServerFrames, ToServer, FramesOf, IsRequest
  <1>6. /\ sstk[s] \in ServerStacks
        /\ sstk[s] = <<>> \/ In(sstk[s], "cb")
    <2>1. sstk[s] \in ServerStacks
      BY <1>l DEF ServInv
    <2>2. sstk[s] # <<>> => Head(sstk[s]) \in ServerFrames
      BY <2>1, ServerPop
    <2>3. QED
      BY <1>1, <2>1, <2>2 DEF Running, In, ServerFrames, FramesOf
  <1>7. m.id \notin ReqIds(sstk[s])
    BY <1>1, <1>3, <1>l DEF RunInv
  <1> HIDE DEF f, k
  <1>8. /\ new \in ServerStacks /\ new # <<>> /\ Head(new) = f /\ Tail(new) = sstk[s]
        /\ ReqIds(new) = ReqIds(sstk[s]) \cup {m.id}
    BY <1>5, <1>6, <1>7, ServerPush
  <1> HIDE DEF new, m
  <1>9. LinkInv'
    BY <1>1, <1>2, <1>l DEF LinkInv
  <1>10. ServInv' /\ sstk'[s] = new /\ \A u \in Server : u # s => sstk'[u] = sstk[u]
    BY <1>1, <1>8, <1>l, ServMoves DEF k
  <1>11. ChanInv'
    <2>1. Len(<<>>) <= 1
      OBVIOUS
    <2>2. QED
      BY <1>1, <1>4, <2>1, <1>l DEF ChanInv
  <1>12. Inside(new)
    BY <1>5, <1>8 DEF Inside, In
  <1>13. TurnInv'
    <2>1. Up(conn[s]) => s2c[conn[s]] = <<>>
      BY <1>1, TurnOf DEF k
    <2>2. QED
      BY <1>1, <1>2, <1>4, <1>12, <2>1, TurnHere DEF k
  <1>14. RunInv'
    <2>1. next_id \in Nat
      BY <1>l DEF ClientInv
    <2>2. QED
      BY <1>1, <1>2, <1>3, <1>4, <1>8, <2>1, <1>l, RunStarts DEF m
  <1>15. StyleInv'
    <2>1. Style = "posix" => ~In(new, "style") /\ style'[s] = "posix"
      BY <1>1, <1>3, <1>5, <1>8, <1>l DEF StyleInv, In, m, k
    <2>2. Style = "win32" => style'[s] = "win32" \/ Greeting(s)'
      <3>1. CASE m.k = "style" /\ sstk[s] = <<>>
        BY <3>1, <1>5, <1>8, <1>10 DEF Greeting, In
      <3>2. CASE m.k # "style" /\ sstk[s] = <<>>
        <4>1. style[s] = Style
          BY <3>2, <1>1, <1>l, UnderStyle DEF m, k
        <4>2. QED
          BY <4>1, <1>1
      <3>3. CASE sstk[s] # <<>>
        <4>1. style[s] = Style
          BY <3>3, <1>1, <1>6, <1>l, UnderStyle DEF In, k
        <4>2. QED
          BY <4>1, <1>1
      <3>4. QED
        BY <3>1, <3>2, <3>3
    <2>3. seq' \in [Server -> Nat] /\ style' \in [Server -> {"win32", "posix"}]
      BY <1>1, <1>l DEF StyleInv
    <2>4. \A j \in Conns : c2s'[j] = c2s[j] \/ (j = conn[s] /\ c2s'[j] = <<>>)
      BY <1>4 DEF k
    <2>5. QED
      BY <1>1, <2>1, <2>2, <2>3, <2>4, <1>l, StyleServes DEF k
  <1>16. QED
    BY <1>2, <1>9, <1>10, <1>11, <1>13, <1>14, <1>15 DEF IInv

\* libalpm calls back: the question goes to the client that waits.
LEMMA RaiseCallbackKeeps ==
  ASSUME IInv, NEW s \in Server, RaiseCallback(s)
  PROVE  IInv'
  <1> DEFINE k == conn[s]
             f == Frame("cb", seq[s], k)
             m == Message("cb", seq[s], k)
             new == <<f>> \o sstk[s]
  <1>1. /\ In(sstk[s], "alpm") /\ seq' = [seq EXCEPT ![s] = @ + 1]
        /\ IF Up(k) THEN sstk' = [sstk EXCEPT ![s] = new] /\ s2c' = Send(s2c, k, m)
                    ELSE UNCHANGED <<sstk, s2c>>
        /\ UNCHANGED <<cvars, link, c2s, conn, style, out, run>>
    BY DEF RaiseCallback, Serves
  <1>l. ClientInv /\ LinkInv /\ ServInv /\ ChanInv /\ RunInv /\ StyleInv
    BY DEF IInv
  <1>2. ClientInv' /\ (Talking' <=> Talking) /\ pipe' = pipe /\ next_id' = next_id
    BY <1>1, <1>l, ClientSame
  <1>3. k # 0 /\ sstk[s] \in ServerStacks
    BY <1>1, <1>l DEF ServInv, In
  <1>4. k \in Conns
    BY <1>3, TurnOf
  <1>5. /\ f \in ServerFrames /\ f.k = "cb" /\ m \in ToClient /\ m.k = "cb"
        /\ seq' \in [Server -> Nat]
    <2>1. seq[s] \in Nat /\ k \in Nat
      BY <1>4, <1>l DEF StyleInv, Conns
    <2>2. seq' \in [Server -> Nat]
      BY <1>1, <2>1, <1>l DEF StyleInv
    <2>3. QED
      BY <2>1, <2>2 DEF Frame, Message, ServerFrames, ToClient, FramesOf
  <1>6. LinkInv'
    BY <1>1, <1>2, <1>l DEF LinkInv
  <1> HIDE DEF f, m, k
  <1>7. CASE Up(k)
    <2>1. sstk' = [sstk EXCEPT ![s] = new] /\ s2c' = Send(s2c, k, m)
      BY <1>1, <1>7
    <2>2. /\ new \in ServerStacks /\ new # <<>> /\ Head(new) = f /\ ReqIds(new) = ReqIds(sstk[s])
      <3>1. /\ new \in ServerStacks /\ new # <<>> /\ Head(new) = f
            /\ ReqIds(new) = ReqIds(sstk[s]) \cup (IF f.k = "cb" THEN {} ELSE {f.id})
        BY <1>1, <1>3, <1>5, ServerPush
      <3> HIDE DEF new
      <3>2. QED
        BY <1>5, <3>1
    <2> HIDE DEF new
    <2>3. c2s[k] = <<>> /\ s2c[k] = <<>>
      BY <1>1, <1>3, <1>7, TurnOf DEF k, Inside
    <2>4. /\ s2c' \in [Conns -> Seq(ToClient)] /\ s2c'[k] # <<>> /\ Head(s2c'[k]) = m
          /\ \A j \in Conns : j # k => s2c'[j] = s2c[j]
          /\ \A j \in Conns : Len(s2c'[j]) <= 1
      BY <1>4, <1>5, <2>1, <2>3, <1>l, ToClientSent
    <2>5. ServInv' /\ sstk'[s] = new /\ \A u \in Server : u # s => sstk'[u] = sstk[u]
      BY <1>1, <1>3, <2>1, <2>2, <1>l, ServMoves DEF k
    <2>6. ChanInv'
      BY <1>1, <1>7, <2>4, <1>l DEF ChanInv, Up
    <2>7. ~Inside(new) /\ ~In(new, "style") /\ Inside(sstk[s]) /\ ~In(sstk[s], "style")
      BY <1>1, <1>5, <2>2 DEF Inside, In
    <2>8. TurnInv'
      BY <1>1, <1>2, <1>3, <2>1, <2>3, <2>4, <2>7, TurnHere DEF k
    <2>9. RunInv'
      <3>1. \A u \in Server : ReqIds(sstk'[u]) \subseteq ReqIds(sstk[u])
        BY <2>2, <2>5
      <3>2. \A j \in Conns : s2c'[j] = s2c[j] \/ Head(s2c'[j]).k # "reply"
        BY <1>5, <2>4
      <3>3. QED
        BY <1>1, <1>2, <3>1, <3>2, <1>l, RunKeeps
    <2>10. StyleInv'
      <3>1. style[s] = Style
        BY <1>1, <1>3, <2>7, <1>l, UnderStyle DEF k, In
      <3>2. QED
        BY <1>1, <1>3, <1>5, <2>1, <2>7, <3>1, <1>l, StyleServes DEF k, StyleInv
    <2>11. QED
      BY <1>2, <1>6, <2>5, <2>6, <2>8, <2>9, <2>10 DEF IInv
  <1>8. CASE ~Up(k)
    <2>1. UNCHANGED <<sstk, s2c>>
      BY <1>1, <1>8
    <2>2. ServInv' /\ ChanInv'
      BY <1>1, <2>1, <1>l DEF ServInv, ChanInv
    <2>3. TurnInv'
      <3>1. /\ Up(pipe)' <=> Up(pipe)
            /\ Asked' <=> Asked
            /\ Told' <=> Told
            /\ Serving' <=> Serving
        BY <1>1, <1>2, <2>1 DEF Up, Asked, Told, Serving, Running
      <3>2. QED
        BY <1>2, <3>1 DEF IInv, TurnInv
    <2>4. RunInv'
      BY <1>1, <1>2, <2>1, <1>l, RunKeeps
    <2>5. StyleInv'
      BY <1>1, <1>5, <2>1, <1>l DEF StyleInv, Greeting
    <2>6. QED
      BY <1>2, <1>6, <2>2, <2>3, <2>4, <2>5 DEF IInv
  <1>9. QED
    BY <1>7, <1>8

\* A server that leaves its connection, by closing the pipe or by dying, disturbs nobody.
LEMMA ServerLeavesKeeps ==
  ASSUME IInv, NEW s \in Server, conn[s] # 0, sstk' = [sstk EXCEPT ![s] = <<>>],
         conn' = [conn EXCEPT ![s] = 0], link' = [link EXCEPT ![conn[s]] = "down"],
         UNCHANGED <<cvars, s2c, out>>, RunInv',
         c2s' = c2s \/ (c2s[conn[s]] # <<>> /\ c2s' = Received(c2s, conn[s])),
         seq' \in [Server -> Nat], style' \in [Server -> {"win32", "posix"}],
         \A u \in Server : u # s => style'[u] = style[u]
  PROVE  IInv'
  <1> DEFINE k == conn[s]
  <1>l. ClientInv /\ LinkInv /\ ServInv /\ ChanInv /\ RunInv /\ StyleInv
    BY DEF IInv
  <1>1. ClientInv' /\ (Talking' <=> Talking) /\ pipe' = pipe /\ next_id' = next_id
    BY <1>l, ClientSame
  <1>2. k \in Conns /\ link[k] # "unused"
    BY <1>l, TurnOf DEF LinkInv
  <1>3. /\ LinkInv'
        /\ \A j \in Conns : link'[j] = "unused" <=> link[j] = "unused"
        /\ Up(pipe)' => Up(pipe) /\ pipe # k
    BY <1>1, <1>2, <1>l, LinkDown
  <1>4. ServInv'
    BY <1>l, ServMoves, EmptyServer
  <1>5. /\ c2s' \in [Conns -> Seq(ToServer)]
        /\ \A j \in Conns : c2s'[j] = c2s[j] \/ (j = k /\ c2s'[j] = <<>>)
    <2>1. CASE c2s' = c2s
      BY <2>1, <1>l DEF ChanInv
    <2>2. CASE c2s[k] # <<>> /\ c2s' = Received(c2s, k)
      BY <2>2, <1>2, <1>l, ToServerRead
    <2>3. QED
      BY <2>1, <2>2
  <1>6. ChanInv'
    <2>1. Len(<<>>) <= 1
      OBVIOUS
    <2>2. QED
      BY <1>3, <1>5, <2>1, <1>l DEF ChanInv
  <1>7. (\A u \in Server : u # s => conn'[u] = conn[u]) /\ conn'[s] = 0
    BY <1>l DEF LinkInv
  <1>8. TurnInv'
    BY <1>1, <1>3, <1>5, <1>7, TurnElsewhere
  <1>9. ~In(<<>>, "style")
    BY DEF In
  <1>10. StyleInv'
    BY <1>5, <1>7, <1>9, <1>l, StyleServes
  <1>11. QED
    BY <1>1, <1>3, <1>4, <1>6, <1>8, <1>10 DEF IInv

\* A server that goes back to libalpm from a callback keeps the turns, and the style.
LEMMA ServerResumesKeeps ==
  ASSUME IInv, NEW s \in Server, conn[s] # 0, NEW new \in ServerStacks, In(new, "alpm"),
         sstk' = [sstk EXCEPT ![s] = new], UNCHANGED <<cvars, s2c, out, link, conn, seq>>, RunInv',
         \/ c2s' = c2s /\ (Up(conn[s]) => Inside(sstk[s]))
         \/ c2s[conn[s]] # <<>> /\ c2s' = Received(c2s, conn[s]),
         style' \in [Server -> {"win32", "posix"}], style'[s] = Style,
         \A u \in Server : u # s => style'[u] = style[u]
  PROVE  IInv'
  <1> DEFINE k == conn[s]
  <1>l. ClientInv /\ LinkInv /\ ServInv /\ ChanInv /\ RunInv /\ StyleInv
    BY DEF IInv
  <1>1. ClientInv' /\ (Talking' <=> Talking) /\ pipe' = pipe /\ next_id' = next_id
    BY <1>l, ClientSame
  <1>2. k \in Conns
    BY TurnOf
  <1>3. LinkInv'
    BY <1>1, <1>l DEF LinkInv
  <1>4. ServInv'
    BY <1>l, ServMoves
  <1>5. /\ c2s' \in [Conns -> Seq(ToServer)]
        /\ \A j \in Conns : c2s'[j] = c2s[j] \/ (j = k /\ c2s'[j] = <<>>)
        /\ Up(k) => c2s'[k] = <<>> /\ s2c[k] = <<>> /\ (c2s[k] # <<>> \/ Inside(sstk[s]))
    <2>1. CASE c2s' = c2s /\ (Up(k) => Inside(sstk[s]))
      <3>1. Up(k) => c2s[k] = <<>> /\ s2c[k] = <<>>
        BY <2>1, TurnOf
      <3>2. QED
        BY <2>1, <3>1, <1>l DEF ChanInv
    <2>2. CASE c2s[k] # <<>> /\ c2s' = Received(c2s, k)
      <3>1. Up(k) => s2c[k] = <<>>
        BY <2>2, TurnOf
      <3>2. QED
        BY <2>2, <3>1, <1>2, <1>l, ToServerRead
    <2>3. QED
      BY <2>1, <2>2
  <1>6. ChanInv'
    <2>1. Len(<<>>) <= 1
      OBVIOUS
    <2>2. QED
      BY <1>5, <2>1, <1>l DEF ChanInv
  <1>7. Inside(new) /\ ~In(new, "style")
    BY DEF Inside, In
  <1>8. TurnInv'
    BY <1>1, <1>5, <1>7, TurnHere
  <1>9. StyleInv'
    <2>1. seq' \in [Server -> Nat]
      BY <1>l DEF StyleInv
    <2>2. QED
      BY <2>1, <1>5, <1>7, <1>l, StyleServes
  <1>10. QED
    BY <1>1, <1>3, <1>4, <1>6, <1>8, <1>9 DEF IInv

\* The handler of a request leaves the server under the client's path style.
LEMMA CarriedStyle ==
  ASSUME IInv, NEW s \in Server, Running(s), Carried(s, Head(sstk[s]))
  PROVE  /\ conn[s] # 0 /\ Inside(sstk[s])
         /\ Head(sstk[s]).id \in ReqIds(sstk[s])
         /\ Tail(sstk[s]) \in ServerStacks /\ Head(sstk[s]) \in ServerFrames
         /\ ReqIds(Tail(sstk[s])) = ReqIds(sstk[s]) \ {Head(sstk[s]).id}
         /\ Tail(sstk[s]) = <<>> \/ In(Tail(sstk[s]), "cb")
         /\ style' \in [Server -> {"win32", "posix"}] /\ style'[s] = Style
         /\ \A u \in Server : u # s => style'[u] = style[u]
  <1> DEFINE f == Head(sstk[s])
  <1>l. ServInv /\ StyleInv
    BY DEF IInv
  <1>1. sstk[s] # <<>> /\ Head(sstk[s]).k \in {"alpm", "style"} /\ Inside(sstk[s])
    BY DEF Running, In, Inside
  <1>2. sstk[s] \in ServerStacks /\ conn[s] # 0
    BY <1>1, <1>l DEF ServInv
  <1>3. /\ Tail(sstk[s]) \in ServerStacks /\ Head(sstk[s]) \in ServerFrames
        /\ Tail(sstk[s]) = <<>> \/ In(Tail(sstk[s]), "cb")
        /\ Head(sstk[s]).id \in ReqIds(sstk[s])
        /\ ReqIds(Tail(sstk[s])) = ReqIds(sstk[s]) \ {Head(sstk[s]).id}
    BY <1>1, <1>2, ServerPop
  <1>4. style' = [style EXCEPT ![s] = IF f.k = "style" THEN "win32" ELSE @]
    BY DEF Carried
  <1>5. style \in [Server -> {"win32", "posix"}]
    BY <1>l DEF StyleInv
  <1>6. style'[s] = Style
    <2>1. CASE f.k = "style"
      <3>1. Style # "posix"
        BY <2>1, <1>1, <1>l DEF StyleInv, In
      <3>2. QED
        BY <2>1, <3>1, <1>4, <1>5, StyleAssumption
    <2>2. CASE f.k # "style"
      <3>1. style[s] = Style
        BY <2>2, <1>1, <1>2, <1>l, UnderStyle DEF In
      <3>2. QED
        BY <2>2, <3>1, <1>4, <1>5
    <2>3. QED
      BY <2>1, <2>2
  <1>7. QED
    BY <1>1, <1>2, <1>3, <1>4, <1>5, <1>6

\* TakeAnswer, whether the answer is the one waited for, another, or to nothing.
LEMMA TakeAnswerKeeps ==
  ASSUME IInv, NEW s \in Server, TakeAnswer(s)
  PROVE  IInv'
  <1> DEFINE k == conn[s]
             m == Head(c2s[k])
             r == Message("reply", 0, 0)
  <1>1. /\ k # 0 /\ ~Running(s) /\ c2s[k] # <<>> /\ m.k = "answer" /\ c2s' = Received(c2s, k)
        /\ UNCHANGED <<cvars, seq, style, out, run>>
    BY DEF TakeAnswer, Waiting
  <1>l. ClientInv /\ LinkInv /\ ServInv /\ ChanInv /\ RunInv /\ StyleInv
    BY DEF IInv
  <1>2. ClientInv' /\ (Talking' <=> Talking) /\ pipe' = pipe /\ next_id' = next_id
    BY <1>1, <1>l, ClientSame
  <1>3. k \in Conns
    BY <1>1, TurnOf
  <1>4. /\ c2s' \in [Conns -> Seq(ToServer)] /\ c2s'[k] = <<>>
        /\ \A j \in Conns : j # k => c2s'[j] = c2s[j]
    BY <1>1, <1>3, <1>l, ToServerRead
  <1>5. /\ sstk[s] \in ServerStacks
        /\ sstk[s] = <<>> \/ In(sstk[s], "cb")
    <2>1. sstk[s] \in ServerStacks
      BY <1>l DEF ServInv
    <2>2. sstk[s] # <<>> => Head(sstk[s]) \in ServerFrames
      BY <2>1, ServerPop
    <2>3. QED
      BY <1>1, <2>1, <2>2 DEF Running, In, ServerFrames, FramesOf
  <1>6. style \in [Server -> {"win32", "posix"}] /\ seq \in [Server -> Nat]
    BY <1>l DEF StyleInv
  <1>7. style[s] = Style
    <2>1. m.k # "style"
      BY <1>1
    <2>2. QED
      BY <2>1, <1>1, <1>5, <1>l, UnderStyle DEF In
  <1>8. CASE sstk[s] # <<>>
    <2> DEFINE new == Tail(sstk[s])
    <2>1. sstk' = [sstk EXCEPT ![s] = new] /\ UNCHANGED <<s2c, conn, link>>
      BY <1>8 DEF TakeAnswer, Busy, Serves
    <2>2. new \in ServerStacks /\ In(new, "alpm") /\ ReqIds(new) = ReqIds(sstk[s])
      BY <1>5, <1>8, ServerPop DEF In
    <2> HIDE DEF new
    <2>3. \A u \in Server : ReqIds(sstk'[u]) \subseteq ReqIds(sstk[u])
      BY <2>1, <2>2, <1>l DEF ServInv
    <2>4. RunInv'
      BY <1>1, <1>2, <1>4, <2>1, <2>3, <1>l, RunKeeps
    <2>5. QED
      BY <1>1, <1>6, <1>7, <2>1, <2>2, <2>4, ServerResumesKeeps
  <1>9. CASE sstk[s] = <<>>
    <2>1. MisplacedAnswer(s)
      BY <1>9 DEF TakeAnswer, Busy
    <2>2. CASE Up(k)
      <3>1. s2c' = Send(s2c, k, r) /\ UNCHANGED <<sstk, conn, link>>
        BY <2>1, <2>2 DEF MisplacedAnswer
      <3>2. r \in ToClient /\ r.id = 0
        BY DEF Message, ToClient, FramesOf
      <3>3. s2c[k] = <<>>
        BY <1>1, <2>2, TurnOf
      <3> HIDE DEF r, m, k
      <3>4. /\ s2c' \in [Conns -> Seq(ToClient)] /\ s2c'[k] # <<>> /\ Head(s2c'[k]) = r
            /\ \A j \in Conns : j # k => s2c'[j] = s2c[j]
            /\ \A j \in Conns : Len(s2c'[j]) <= 1
        BY <1>3, <3>1, <3>2, <3>3, <1>l, ToClientSent
      <3>5. LinkInv' /\ ServInv'
        BY <1>2, <3>1, <1>l DEF LinkInv, ServInv
      <3>6. ChanInv'
        <4>1. Len(<<>>) <= 1
          OBVIOUS
        <4>2. QED
          BY <1>4, <2>2, <3>1, <3>4, <4>1, <1>l DEF ChanInv, Up
      <3>7. RunInv'
        BY <1>1, <1>2, <1>4, <3>1, <3>2, <3>4, <1>l, RunKeeps
      <3>8. sstk' = [sstk EXCEPT ![s] = <<>>] /\ ~In(<<>>, "style") /\ ~Inside(<<>>)
        BY <1>9, <3>1, <1>l DEF ServInv, In, Inside
      <3>9. TurnInv'
        <4>1. /\ c2s[conn[s]] # <<>> /\ c2s'[conn[s]] = <<>> /\ s2c'[conn[s]] # <<>>
              /\ conn[s] # 0 /\ \A j \in Conns : j # conn[s] => c2s'[j] = c2s[j] /\ s2c'[j] = s2c[j]
          BY <1>1, <1>4, <3>4 DEF k
        <4> DEFINE new == <<>>
        <4>2. sstk' = [sstk EXCEPT ![s] = new] /\ ~Inside(new)
          BY <3>8
        <4> HIDE DEF new
        <4>3. QED
          BY <1>2, <3>1, <4>1, <4>2, TurnHere
      <3>10. StyleInv'
        <4>1. /\ conn[s] # 0 /\ seq' = seq /\ style' = style
              /\ \A j \in Conns : c2s'[j] = c2s[j] \/ (j = conn[s] /\ c2s'[j] = <<>>)
          BY <1>1, <1>4 DEF k
        <4> DEFINE new == <<>>
        <4>2. sstk' = [sstk EXCEPT ![s] = new] /\ ~In(new, "style")
          BY <3>8
        <4> HIDE DEF new
        <4>3. QED
          BY <1>6, <1>7, <3>1, <4>1, <4>2, <1>l, StyleServes
      <3>11. QED
        BY <1>2, <3>5, <3>6, <3>7, <3>9, <3>10 DEF IInv
    <2>3. CASE ~Up(k)
      <3>1. /\ sstk' = [sstk EXCEPT ![s] = <<>>] /\ conn' = [conn EXCEPT ![s] = 0]
            /\ link' = [link EXCEPT ![k] = "down"] /\ s2c' = s2c
        BY <2>1, <2>3 DEF MisplacedAnswer, GivesUp, Serves, Leaves
      <3>2. \A u \in Server : ReqIds(sstk'[u]) \subseteq ReqIds(sstk[u])
        BY <3>1, <1>9, <1>l DEF ServInv
      <3>3. RunInv'
        BY <1>1, <1>2, <1>4, <3>1, <3>2, <1>l, RunKeeps
      <3>4. QED
        BY <1>1, <1>6, <3>1, <3>3, ServerLeavesKeeps
    <2>4. QED
      BY <2>2, <2>3
  <1>10. QED
    BY <1>8, <1>9

\* What is left of the frames stk when a server gives up has no request that was not there.
LEMMA GivesUpStack ==
  ASSUME NEW s \in Server, NEW stk \in ServerStacks, GivesUp(s, stk), stk = <<>> \/ In(stk, "cb")
  PROVE  \E new : sstk' = [sstk EXCEPT ![s] = new] /\ ReqIds(new) \subseteq ReqIds(stk)
  <1>1. CASE stk = <<>>
    BY <1>1 DEF GivesUp, Serves
  <1>2. CASE stk # <<>>
    <2>1. sstk' = [sstk EXCEPT ![s] = Tail(stk)]
      BY <1>2 DEF GivesUp, Serves
    <2>2. ReqIds(Tail(stk)) = ReqIds(stk)
      BY <1>2, ServerPop DEF In
    <2>3. QED
      BY <2>1, <2>2
  <1>3. QED
    BY <1>1, <1>2

\* A server that cannot go on with the frames stk below its innermost request or callback.
LEMMA GivesUpKeeps ==
  ASSUME IInv, NEW s \in Server, conn[s] # 0, NEW stk \in ServerStacks, GivesUp(s, stk),
         stk = <<>> \/ In(stk, "cb"), UNCHANGED <<cvars, c2s, s2c, seq, out>>,
         Up(conn[s]) => Inside(sstk[s]),
         RunInv',
         style' \in [Server -> {"win32", "posix"}], stk # <<>> => style'[s] = Style,
         \A u \in Server : u # s => style'[u] = style[u]
  PROVE  IInv'
  <1>1. seq' \in [Server -> Nat]
    BY DEF IInv, StyleInv
  <1>2. CASE stk = <<>>
    <2>1. /\ sstk' = [sstk EXCEPT ![s] = <<>>] /\ conn' = [conn EXCEPT ![s] = 0]
          /\ link' = [link EXCEPT ![conn[s]] = "down"]
      BY <1>2 DEF GivesUp, Serves, Leaves
    <2>2. QED
      BY <1>1, <2>1, ServerLeavesKeeps
  <1>3. CASE stk # <<>>
    <2> DEFINE new == Tail(stk)
    <2>1. sstk' = [sstk EXCEPT ![s] = new] /\ UNCHANGED <<conn, link>>
      BY <1>3 DEF GivesUp, Serves
    <2>2. new \in ServerStacks /\ In(new, "alpm") /\ ReqIds(new) = ReqIds(stk)
      BY <1>3, ServerPop DEF In
    <2> HIDE DEF new
    <2>3. QED
      BY <1>3, <2>1, <2>2, ServerResumesKeeps
  <1>4. QED
    BY <1>2, <1>3

\* The client is gone: the server gives up the request and listens.
LEMMA ServerReadFailsKeeps ==
  ASSUME IInv, NEW s \in Server, ServerReadFails(s)
  PROVE  IInv'
  <1> DEFINE stk == sstk[s]
  <1>1. /\ conn[s] # 0 /\ ~Running(s) /\ ~Up(conn[s]) /\ GivesUp(s, stk)
        /\ UNCHANGED <<cvars, c2s, s2c, seq, style, out, run>>
    BY DEF ServerReadFails, Waiting
  <1>l. ClientInv /\ LinkInv /\ ServInv /\ ChanInv /\ RunInv /\ StyleInv
    BY DEF IInv
  <1>2. stk \in ServerStacks
    BY <1>l DEF ServInv
  <1>3. stk # <<>> => In(stk, "cb")
    <2>1. stk # <<>> => Head(stk) \in ServerFrames
      BY <1>2, ServerPop
    <2>2. QED
      BY <1>1, <2>1 DEF Running, In, ServerFrames, FramesOf
  <1>4. stk # <<>> => style[s] = Style
    BY <1>1, <1>3, <1>l, UnderStyle DEF In
  <1>5. RunInv'
    <2>1. PICK new : sstk' = [sstk EXCEPT ![s] = new] /\ ReqIds(new) \subseteq ReqIds(stk)
      BY <1>1, <1>2, <1>3, GivesUpStack
    <2>2. \A u \in Server : ReqIds(sstk'[u]) \subseteq ReqIds(sstk[u])
      BY <2>1, <1>l DEF ServInv
    <2>3. QED
      BY <1>1, <2>2, <1>l, RunKeeps DEF cvars
  <1>6. style \in [Server -> {"win32", "posix"}]
    BY <1>l DEF StyleInv
  <1> HIDE DEF stk
  <1>7. QED
    BY <1>1, <1>2, <1>3, <1>4, <1>5, <1>6, GivesUpKeeps

\* A request ends, and its reply goes to the client that waits for it.
LEMMA ReplyKeeps ==
  ASSUME IInv, NEW s \in Server, Reply(s)
  PROVE  IInv'
  <1> DEFINE f == Head(sstk[s])
             rest == Tail(sstk[s])
             k == conn[s]
             m == Message("reply", f.id, 0)
  <1>1. /\ Running(s) /\ Carried(s, f)
        /\ IF Up(k) THEN /\ s2c' = Send(s2c, k, m) /\ sstk' = [sstk EXCEPT ![s] = rest]
                         /\ UNCHANGED <<conn, link>>
                    ELSE GivesUp(s, rest) /\ s2c' = s2c
        /\ UNCHANGED <<cvars, c2s, seq, out>> /\ run' = [run EXCEPT ![f.id] = "finished"]
    BY DEF Reply, Serves, Carried
  <1>l. ClientInv /\ LinkInv /\ ServInv /\ ChanInv /\ RunInv /\ StyleInv
    BY DEF IInv
  <1>2. ClientInv' /\ (Talking' <=> Talking) /\ pipe' = pipe /\ next_id' = next_id
    BY <1>1, <1>l, ClientSame
  <1>3. /\ k # 0 /\ Inside(sstk[s]) /\ f.id \in ReqIds(sstk[s])
        /\ rest \in ServerStacks /\ f \in ServerFrames
        /\ ReqIds(rest) = ReqIds(sstk[s]) \ {f.id}
        /\ rest = <<>> \/ In(rest, "cb")
        /\ style' \in [Server -> {"win32", "posix"}] /\ style'[s] = Style
        /\ \A u \in Server : u # s => style'[u] = style[u]
    BY <1>1, CarriedStyle
  <1>4. k \in Conns
    BY <1>3, TurnOf
  <1>5. m \in ToClient /\ m.id = f.id
    BY <1>3 DEF Message, ToClient, ServerFrames, FramesOf
  <1> HIDE DEF f, m, rest
  <1>6. CASE Up(k)
    <2>1. /\ s2c' = Send(s2c, k, m) /\ sstk' = [sstk EXCEPT ![s] = rest]
          /\ UNCHANGED <<conn, link>>
      BY <1>1, <1>6
    <2>2. c2s[k] = <<>> /\ s2c[k] = <<>>
      BY <1>3, <1>6, TurnOf
    <2> HIDE DEF k
    <2>3. /\ s2c' \in [Conns -> Seq(ToClient)] /\ s2c'[k] # <<>> /\ Head(s2c'[k]) = m
          /\ \A j \in Conns : j # k => s2c'[j] = s2c[j]
          /\ \A j \in Conns : Len(s2c'[j]) <= 1
      BY <1>4, <1>5, <2>1, <2>2, <1>l, ToClientSent
    <2>4. LinkInv'
      BY <1>2, <2>1, <1>l DEF LinkInv
    <2>5. ServInv'
      BY <1>3, <2>1, <1>l, ServMoves DEF k
    <2>6. ChanInv'
      BY <1>1, <1>6, <2>1, <2>3, <1>l DEF ChanInv, Up
    <2>7. ~Inside(rest) /\ ~In(rest, "style")
      BY <1>3 DEF Inside, In
    <2>8. TurnInv'
      BY <1>1, <1>2, <1>3, <2>1, <2>2, <2>3, <2>7, TurnHere DEF k
    <2>9. RunInv'
      <3>1. \A j \in Conns : s2c'[j] = s2c[j] \/ Head(s2c'[j]).id = f.id
        BY <1>5, <2>3
      <3>2. QED
        BY <1>1, <1>2, <1>3, <2>1, <3>1, <1>l, RunEnds
    <2>10. StyleInv'
      <3>1. seq' \in [Server -> Nat] /\ \A j \in Conns : c2s'[j] = c2s[j]
        BY <1>1, <1>l DEF StyleInv
      <3>2. QED
        BY <1>3, <2>1, <2>7, <3>1, <1>l, StyleServes DEF k
    <2>11. QED
      BY <1>2, <2>4, <2>5, <2>6, <2>8, <2>9, <2>10 DEF IInv
  <1>7. CASE ~Up(k)
    <2>1. GivesUp(s, rest) /\ s2c' = s2c
      BY <1>1, <1>7
    <2>2. RunInv'
      <3>1. PICK new : sstk' = [sstk EXCEPT ![s] = new] /\ ReqIds(new) \subseteq ReqIds(rest)
        BY <1>3, <2>1, GivesUpStack
      <3>2. QED
        BY <1>1, <1>2, <1>3, <2>1, <3>1, <1>l, RunEnds
    <2>3. QED
      BY <1>1, <1>3, <1>7, <2>1, <2>2, GivesUpKeeps
  <1>8. QED
    BY <1>6, <1>7

\* A reply that cannot be built makes the server leave its frame loop.
LEMMA ReplyNotBuiltKeeps ==
  ASSUME IInv, NEW s \in Server, ReplyNotBuilt(s)
  PROVE  IInv'
  <1> DEFINE f == Head(sstk[s])
             rest == Tail(sstk[s])
  <1>1. /\ Running(s) /\ Carried(s, f) /\ GivesUp(s, rest)
        /\ UNCHANGED <<cvars, c2s, s2c, seq, out>> /\ run' = [run EXCEPT ![f.id] = "finished"]
    BY DEF ReplyNotBuilt, Carried
  <1>l. ServInv /\ RunInv
    BY DEF IInv
  <1>2. /\ conn[s] # 0 /\ Inside(sstk[s]) /\ f.id \in ReqIds(sstk[s])
        /\ rest \in ServerStacks
        /\ ReqIds(rest) = ReqIds(sstk[s]) \ {f.id}
        /\ rest = <<>> \/ In(rest, "cb")
        /\ style' \in [Server -> {"win32", "posix"}] /\ style'[s] = Style
        /\ \A u \in Server : u # s => style'[u] = style[u]
    BY <1>1, CarriedStyle
  <1> HIDE DEF f, rest
  <1>3. RunInv'
    <2>1. PICK new : sstk' = [sstk EXCEPT ![s] = new] /\ ReqIds(new) \subseteq ReqIds(rest)
      BY <1>1, <1>2, GivesUpStack
    <2>2. QED
      BY <1>1, <1>2, <2>1, <1>l, RunEnds DEF cvars
  <1>4. QED
    BY <1>1, <1>2, <1>3, GivesUpKeeps

\* A listening server may have served another client meanwhile.
LEMMA OtherClientKeeps ==
  ASSUME IInv, NEW s \in Server, OtherClient(s)
  PROVE  IInv'
  <1>1. /\ conn[s] = 0 /\ style' = [style EXCEPT ![s] = "win32"]
        /\ UNCHANGED <<cvars, link, c2s, s2c, conn, sstk, seq, out, run>>
    BY DEF OtherClient
  <1>l. ClientInv /\ LinkInv /\ ServInv /\ ChanInv /\ TurnInv /\ RunInv /\ StyleInv
    BY DEF IInv
  <1>2. ClientInv' /\ (Talking' <=> Talking) /\ pipe' = pipe /\ next_id' = next_id
    BY <1>1, <1>l, ClientSame
  <1>3. LinkInv' /\ ServInv' /\ ChanInv'
    BY <1>1, <1>2, <1>l DEF LinkInv, ServInv, ChanInv
  <1>4. TurnInv'
    BY <1>1, <1>2, <1>l DEF TurnInv, Up, Asked, Told, Serving, Running
  <1>5. RunInv'
    BY <1>1, <1>2, <1>l, RunKeeps
  <1>6. StyleInv'
    <2>1. style' \in [Server -> {"win32", "posix"}] /\ \A u \in Server : u # s => style'[u] = style[u]
      BY <1>1, <1>l DEF StyleInv
    <2>2. QED
      BY <1>1, <2>1, <1>l DEF StyleInv, Greeting
  <1>7. QED
    BY <1>2, <1>3, <1>4, <1>5, <1>6 DEF IInv

\* A pipe breaks: neither end can use it again.
LEMMA BreakKeeps ==
  ASSUME IInv, NEW k \in Conns, Break(k)
  PROVE  IInv'
  <1>1. /\ link[k] = "up" /\ link' = [link EXCEPT ![k] = "down"]
        /\ UNCHANGED <<cvars, c2s, s2c, svars, out, run>>
    BY DEF Break
  <1>l. ClientInv /\ LinkInv /\ ServInv /\ ChanInv /\ TurnInv /\ RunInv /\ StyleInv
    BY DEF IInv
  <1>2. ClientInv' /\ (Talking' <=> Talking) /\ pipe' = pipe /\ next_id' = next_id
    BY <1>1, <1>l, ClientSame
  <1>3. /\ LinkInv'
        /\ \A j \in Conns : link'[j] = "unused" <=> link[j] = "unused"
        /\ Up(pipe)' => Up(pipe)
    BY <1>1, <1>2, <1>l, LinkDown DEF svars
  <1>4. ServInv' /\ ChanInv'
    BY <1>1, <1>3, <1>l DEF ServInv, ChanInv, svars
  <1>5. TurnInv'
    BY <1>1, <1>2, <1>3, <1>l DEF TurnInv, Asked, Told, Serving, Running, svars
  <1>6. RunInv'
    BY <1>1, <1>2, <1>l, RunKeeps DEF svars
  <1>7. StyleInv'
    BY <1>1, <1>l, StyleKeeps DEF svars
  <1>8. QED
    BY <1>2, <1>3, <1>4, <1>5, <1>6, <1>7 DEF IInv

\* A server dies with what it was doing.
LEMMA DieKeeps ==
  ASSUME IInv, NEW s \in Server, Die(s)
  PROVE  IInv'
  <1>1. /\ conn[s] # 0 /\ link' = [link EXCEPT ![conn[s]] = "down"]
        /\ conn' = [conn EXCEPT ![s] = 0] /\ sstk' = [sstk EXCEPT ![s] = <<>>]
        /\ seq' = [seq EXCEPT ![s] = 1] /\ style' = [style EXCEPT ![s] = "posix"]
        /\ UNCHANGED <<cvars, c2s, s2c, out, run>>
    BY DEF Die, Serves
  <1>l. ServInv /\ RunInv /\ StyleInv
    BY DEF IInv
  <1>2. /\ seq' \in [Server -> Nat] /\ style' \in [Server -> {"win32", "posix"}]
        /\ \A u \in Server : u # s => style'[u] = style[u]
    BY <1>1, <1>l DEF StyleInv
  <1>3. \A u \in Server : ReqIds(sstk'[u]) \subseteq ReqIds(sstk[u])
    BY <1>1, <1>l, EmptyServer DEF ServInv
  <1>4. RunInv'
    BY <1>1, <1>3, <1>l, RunKeeps DEF cvars
  <1>5. QED
    BY <1>1, <1>2, <1>4, ServerLeavesKeeps

-----------------------------------------------------------------------------
(* The theorems.                                                           *)

\* Every step of the protocol keeps the inductive invariant.
LEMMA NextIInv == IInv /\ [Next]_vars => IInv'
  <1> SUFFICES ASSUME IInv, [Next]_vars PROVE IInv'
    OBVIOUS
  <1>1. ASSUME NEW t \in Thread, Call(t) \/ ClientStep(t) \/ ClientFault(t)
        PROVE  IInv'
    BY <1>1, ClientKeeps
  <1>2. CASE LastHandleReleased
    BY <1>2, LastHandleReleasedKeeps
  <1>3. ASSUME NEW s \in Server, ServerStep(s) PROVE IInv'
    BY <1>3, TakeRequestKeeps, TakeAnswerKeeps, ServerReadFailsKeeps, ReplyKeeps DEF ServerStep
  <1>4. ASSUME NEW s \in Server,
               RaiseCallback(s) \/ ReplyNotBuilt(s) \/ OtherClient(s) \/ Die(s)
        PROVE  IInv'
    BY <1>4, RaiseCallbackKeeps, ReplyNotBuiltKeeps, OtherClientKeeps, DieKeeps
  <1>5. ASSUME NEW k \in Conns, Break(k) PROVE IInv'
    BY <1>5, BreakKeeps
  <1>6. CASE UNCHANGED vars
    <2>1. UNCHANGED <<cvars, link, c2s, s2c, svars, out, run>>
      BY <1>6 DEF vars
    <2>2. ClientInv' /\ (Talking' <=> Talking) /\ pipe' = pipe /\ next_id' = next_id
      BY <2>1, ClientSame DEF IInv
    <2>3. QED
      BY <2>1, <2>2, ClientAlone DEF cvars
  <1>7. QED
    BY <1>1, <1>2, <1>3, <1>4, <1>5, <1>6 DEF Next

\* The inductive invariant holds in every state the protocol reaches.
THEOREM ProtocolInvariant == Spec => []IInv
  <1>1. QED
    BY InitIInv, NextIInv, PTL DEF Spec

\* The inductive invariant has the types in it.
LEMMA IInvTypes == IInv => TypeOK
  <1> SUFFICES ASSUME IInv PROVE TypeOK
    OBVIOUS
  <1>1. cstk \in [Thread -> Seq(ClientFrames)]
    BY DEF IInv, ClientInv, ClientStacks
  <1>2. sstk \in [Server -> Seq(ServerFrames)]
    BY DEF IInv, ServInv, ServerStacks
  <1>3. /\ lock \in Thread \cup {None} /\ next_id \in 1 .. MaxId + 1
        /\ out \in [1 .. MaxId -> {"none", "open", "ok", "failed"}]
    BY DEF IInv, ClientInv
  <1>4. /\ pipe \in 0 .. MaxConn /\ link \in [Conns -> {"unused", "up", "down"}]
        /\ conn \in [Server -> 0 .. MaxConn]
    BY DEF IInv, LinkInv
  <1>5. c2s \in [Conns -> Seq(ToServer)] /\ s2c \in [Conns -> Seq(ToClient)]
    BY DEF IInv, ChanInv
  <1>6. /\ seq \in [Server -> Nat] /\ style \in [Server -> {"win32", "posix"}]
        /\ run \in [1 .. MaxId -> {"no", "running", "finished"}]
    BY DEF IInv, StyleInv, RunInv
  <1>7. QED
    BY <1>1, <1>2, <1>3, <1>4, <1>5, <1>6 DEF TypeOK

\* The client has the turn on its connection when none of its threads waits in transact.
LEMMA ClientTurnIs ==
  ASSUME ClientInv, NEW k, pipe = k
  PROVE  ClientTurn(k) <=> Talking
  <1>1. CASE lock = None
    <2>1. \A t \in Thread : cstk[t] = <<>>
      BY <1>1, ThreadAssumption DEF ClientInv
    <2>2. QED
      BY <1>1, <2>1 DEF ClientTurn, Talking, In
  <1>2. CASE lock # None
    <2>1. lock \in Thread
      BY <1>2 DEF ClientInv
    <2>2. Talking <=> ~In(cstk[lock], "call")
      BY <2>1, TalkingIs
    <2>3. QED
      BY <1>2, <2>2 DEF ClientTurn
  <1>3. QED
    BY <1>1, <1>2

\* On a connection that is up there is one frame, or one server inside libalpm, or a client
\* that is not waiting.
LEMMA IInvOneTurn == IInv => OneTurn
  <1> SUFFICES ASSUME IInv PROVE OneTurn
    OBVIOUS
  <1>1. ASSUME NEW k \in Conns, link[k] = "up"
        PROVE  Len(c2s[k]) + Len(s2c[k])
                 + Cardinality({s \in Server : conn[s] = k /\ Running(s)})
                 + (IF ClientTurn(k) THEN 1 ELSE 0) = 1
    <2> DEFINE R == {s \in Server : conn[s] = k /\ Running(s)}
    <2>1. PICK u \in Server : conn[u] = k
      BY <1>1 DEF IInv, LinkInv
    <2>2. pipe = k /\ k # 0 /\ Up(k)
      BY <1>1 DEF IInv, LinkInv, Conns, Up
    <2>3. /\ c2s[k] # <<>> \/ s2c[k] # <<>> \/ Inside(sstk[u]) \/ Talking
          /\ c2s[k] # <<>> => s2c[k] = <<>> /\ ~Inside(sstk[u]) /\ ~Talking
          /\ s2c[k] # <<>> => ~Inside(sstk[u]) /\ ~Talking
          /\ Inside(sstk[u]) => ~Talking
      BY <2>1, <2>2, TurnOf
    <2>4. Cardinality(R) = IF Inside(sstk[u]) THEN 1 ELSE 0
      <3>1. \A s \in Server : conn[s] = k => s = u
        BY <2>1, <2>2 DEF IInv, LinkInv
      <3>2. CASE Inside(sstk[u])
        <4>1. R = {u}
          BY <2>1, <3>1, <3>2 DEF Running, Inside
        <4>2. QED
          BY <3>2, <4>1, FS_Singleton
      <3>3. CASE ~Inside(sstk[u])
        <4>1. R = {}
          BY <3>1, <3>3 DEF Running, Inside
        <4>2. QED
          BY <3>3, <4>1, FS_EmptySet
      <3>4. QED
        BY <3>2, <3>3
    <2>5. /\ Len(c2s[k]) = IF c2s[k] = <<>> THEN 0 ELSE 1
          /\ Len(s2c[k]) = IF s2c[k] = <<>> THEN 0 ELSE 1
      <3>1. /\ c2s[k] \in Seq(ToServer) /\ s2c[k] \in Seq(ToClient)
            /\ Len(c2s[k]) <= 1 /\ Len(s2c[k]) <= 1
        BY DEF IInv, ChanInv
      <3>2. QED
        BY <3>1
    <2>6. ClientTurn(k) <=> Talking
      BY <2>2, ClientTurnIs DEF IInv
    <2> HIDE DEF R
    <2>7. Len(c2s[k]) + Len(s2c[k]) + Cardinality(R) + (IF ClientTurn(k) THEN 1 ELSE 0) = 1
      BY <2>3, <2>4, <2>5, <2>6
    <2>8. QED
      BY <2>7 DEF R
  <1>2. QED
    BY <1>1, IInvTypes DEF OneTurn

\* "The exchange is strictly ordered": whatever nests in what, and whatever breaks, a
\* connection that is up has exactly one party whose turn it is (transact, arpc_conn_exchange,
\* serve_connection), for any number of threads, servers and connections.
THEOREM OnePartyAtATime == Spec => []OneTurn
  <1>1. QED
    BY ProtocolInvariant, IInvOneTurn, PTL

\* libalpm serves a request under the path style of the DLL that made it, whoever the
\* server listened to before (set_path_style, serve_connection).
THEOREM StyleOfTheCaller == Spec => []StyleInForce
  <1>1. IInv => StyleInForce
    <2> SUFFICES ASSUME IInv, NEW s \in Server, In(sstk[s], "alpm") PROVE style[s] = Style
      BY DEF StyleInForce
    <2>1. conn[s] # 0
      BY DEF IInv, ServInv, In
    <2>2. QED
      BY <2>1, UnderStyle DEF IInv, In
  <1>2. QED
    BY ProtocolInvariant, <1>1, PTL

-----------------------------------------------------------------------------
(* The protocol implements RemoteCall.                                     *)

\* A step that keeps `run` and does to `out` what the client may do.
LEMMA ClientRefines ==
  ASSUME IInv, OutStep, run' = run
  PROVE  Abstract!Next \/ UNCHANGED <<out, run>>
  <1>1. CASE out' = out
    BY <1>1
  <1>2. ASSUME NEW c \in 1 .. MaxId,
               \/ Abstract!Next_(c) /\ out' = [out EXCEPT ![c] = "open"]
               \/ Abstract!Next_(c) /\ out' = [out EXCEPT ![c] = "failed"]
               \/ Abstract!Innermost(c) /\ out' = [out EXCEPT ![c] = "failed"]
        PROVE  Abstract!Next
    BY <1>2 DEF Abstract!Next, Abstract!Request, Abstract!Open, Abstract!Refuse, Abstract!Fail
  <1>3. ASSUME NEW c \in 1 .. MaxId,
               Abstract!Innermost(c), out' = [out EXCEPT ![c] = "ok"],
               pipe # 0, s2c[pipe] # <<>>, Head(s2c[pipe]).k = "reply", Head(s2c[pipe]).id = c
        PROVE  Abstract!Next
    <2>1. pipe \in Conns
      BY <1>3 DEF IInv, LinkInv, Conns
    <2>2. run[c] = "finished"
      BY <1>3, <2>1 DEF IInv, RunInv
    <2>3. QED
      BY <1>3, <2>2 DEF Abstract!Next, Abstract!Request, Abstract!Return
  <1>4. QED
    BY <1>1, <1>2, <1>3 DEF OutStep

\* TakeRequest starts a request that was made and was not started.
LEMMA TakeRequestRefines ==
  ASSUME IInv, NEW s \in Server, TakeRequest(s)
  PROVE  Abstract!Next
  <1> DEFINE id == Head(c2s[conn[s]]).id
  <1>1. /\ conn[s] # 0 /\ c2s[conn[s]] # <<>> /\ IsRequest(Head(c2s[conn[s]]))
        /\ run' = [run EXCEPT ![id] = "running"] /\ out' = out
    BY DEF TakeRequest, Waiting
  <1>2. conn[s] \in Conns
    BY <1>1, TurnOf
  <1>3. id \in 1 .. MaxId /\ id < next_id /\ run[id] = "no"
    BY <1>1, <1>2 DEF IInv, RunInv
  <1>4. out[id] # "none"
    BY <1>3 DEF IInv, ClientInv
  <1> HIDE DEF id
  <1>5. QED
    BY <1>1, <1>3, <1>4 DEF Abstract!Next, Abstract!Request, Abstract!Begin

\* A handler that comes to its end finishes a request that is being carried out.
LEMMA CarriedRefines ==
  ASSUME IInv, NEW s \in Server, Running(s), Carried(s, Head(sstk[s])), out' = out
  PROVE  Abstract!Next
  <1> DEFINE id == Head(sstk[s]).id
  <1>1. id \in ReqIds(sstk[s])
    BY CarriedStyle
  <1>2. id \in 1 .. MaxId /\ run[id] = "running"
    BY <1>1 DEF IInv, RunInv
  <1>3. run' = [run EXCEPT ![id] = "finished"]
    BY DEF Carried
  <1> HIDE DEF id
  <1>4. QED
    BY <1>2, <1>3 DEF Abstract!Next, Abstract!Request, Abstract!Finish

\* Every step of the protocol is a step of RemoteCall, or leaves it alone.
LEMMA StepRefines == IInv /\ [Next]_vars => [Abstract!Next]_(Abstract!vars)
  <1> SUFFICES ASSUME IInv, [Next]_vars PROVE Abstract!Next \/ UNCHANGED <<out, run>>
    BY DEF Abstract!vars
  <1>c. ClientInv
    BY DEF IInv
  <1>1. ASSUME NEW t \in Thread, Call(t) \/ CannotOpen(t) \/ TakeCallback(t)
        PROVE  UNCHANGED <<out, run>>
    BY <1>1 DEF Call, CannotOpen, TakeCallback
  <1>2. ASSUME NEW t \in Thread, NEW s \in Server, Open(t, s)
        PROVE  Abstract!Next \/ UNCHANGED <<out, run>>
    <2>1. OutStep
      BY <1>2, <1>c, OpenMoves
    <2>2. run' = run
      BY <1>2 DEF Open
    <2>3. QED
      BY <2>1, <2>2, ClientRefines
  <1>3. ASSUME NEW t \in Thread,
               Invoke(t) \/ TakeReply(t) \/ ReadFails(t) \/ Answer(t) \/ ClientFault(t)
        PROVE  Abstract!Next \/ UNCHANGED <<out, run>>
    <2>1. OutStep
      BY <1>3, <1>c, InvokeMoves, TakeReplyMoves, ReadFailsMoves, AnswerMoves,
         RequestNotBuiltMoves, StyleRefusedMoves, AnswerNotBuiltMoves DEF ClientFault
    <2>2. run' = run
      BY <1>3 DEF Invoke, TakeReply, ReadFails, Answer, ClientFault,
                  RequestNotBuilt, StyleRefused, AnswerNotBuilt
    <2>3. QED
      BY <2>1, <2>2, ClientRefines
  <1>4. CASE LastHandleReleased
    BY <1>4 DEF LastHandleReleased
  <1>5. ASSUME NEW s \in Server, TakeRequest(s) PROVE Abstract!Next
    BY <1>5, TakeRequestRefines
  <1>6. ASSUME NEW s \in Server, Reply(s) \/ ReplyNotBuilt(s) PROVE Abstract!Next
    <2>1. Running(s) /\ Carried(s, Head(sstk[s])) /\ out' = out
      BY <1>6 DEF Reply, ReplyNotBuilt
    <2>2. QED
      BY <2>1, CarriedRefines
  <1>7. ASSUME NEW s \in Server,
               \/ TakeAnswer(s) \/ ServerReadFails(s) \/ RaiseCallback(s)
               \/ OtherClient(s) \/ Die(s)
        PROVE  UNCHANGED <<out, run>>
    BY <1>7 DEF TakeAnswer, ServerReadFails, RaiseCallback, OtherClient, Die
  <1>8. ASSUME NEW k \in Conns, Break(k) PROVE UNCHANGED <<out, run>>
    BY <1>8 DEF Break
  <1>9. CASE UNCHANGED vars
    BY <1>9 DEF vars
  <1>10. QED
    BY <1>1, <1>2, <1>3, <1>4, <1>5, <1>6, <1>7, <1>8, <1>9 DEF Next, ClientStep, ServerStep

\* The protocol implements RemoteCall: through any nesting, broken pipe, failed allocation,
\* dead server and reconnection a call is carried out at most once, a result is that of a
\* call carried out to its end, and calls return innermost first (arpc_invoke, transact,
\* serve_connection, arpc_conn_exchange).
THEOREM AtMostOnce == Spec => CallsAtMostOnce
  <1>1. Init => Abstract!Init
    BY DEF Init
  <1>2. QED
    BY <1>1, ProtocolInvariant, StepRefines, PTL DEF Spec, CallsAtMostOnce, Abstract!Spec

-----------------------------------------------------------------------------
(* As long as nothing has failed, the two stacks mirror each other.        *)

\* The stack of the client process: the lock lets one thread have frames.
Stk == IF lock = None THEN <<>> ELSE cstk[lock]

\* The call that tells the path style, made for the stub that connected.
Greets(stk) == Len(stk) = 2 /\ stk[2].k = "begin"

\* Its calls and callbacks, without the stub that has no request of its own yet.
Inner(stk) ==
  IF In(stk, "begin") THEN Tail(stk)
  ELSE IF Greets(stk) THEN <<stk[1]>> ELSE stk

\* Frame for frame, the same requests and the same questions.
Mirrors(stk, stk2) ==
  /\ Len(stk) = Len(stk2)
  /\ \A i \in DOMAIN stk : /\ stk[i].id = stk2[i].id /\ stk[i].from = stk2[i].from
                           /\ stk[i].k = "cb" <=> stk2[i].k = "cb"

\* The two stacks mirror each other but for the frame under way, on top of one of them.
InTurn(mine, theirs, asked, told) ==
  \/ asked = <<>> /\ told = <<>> /\ Mirrors(mine, theirs)
  \/ /\ asked # <<>> /\ IsRequest(Head(asked))
     /\ mine # <<>> /\ Head(mine).id = Head(asked).id /\ Head(mine).from = 0
     /\ Mirrors(Tail(mine), theirs)
  \/ /\ asked # <<>> /\ Head(asked).k = "answer"
     /\ In(theirs, "cb")
     /\ Head(theirs).id = Head(asked).id /\ Head(theirs).from = Head(asked).from
     /\ Mirrors(mine, Tail(theirs))
  \/ /\ told # <<>> /\ Head(told).k = "reply"
     /\ mine # <<>> /\ Head(mine).id = Head(told).id /\ Mirrors(Tail(mine), theirs)
  \/ /\ told # <<>> /\ Head(told).k = "cb"
     /\ In(theirs, "cb")
     /\ Head(theirs).id = Head(told).id /\ Head(theirs).from = Head(told).from
     /\ Mirrors(mine, Tail(theirs))

\* No stub is preparing a request but the innermost one, and the one the greeting is for.
Prepares(stk) == Greets(stk) \/ \A i \in DOMAIN stk : i # 1 => stk[i].k # "begin"

\* The greeting is the first request of its connection, and raises no callback.
GreetsFirst(stk, theirs, asked) ==
  Greets(stk) => /\ theirs = <<>> \/ In(theirs, "style")
                 /\ asked # <<>> => Head(asked).k = "style"

Level ==
  /\ ~outOfStep /\ ~crossed
  /\ pipe # 0 => Up(pipe)
  /\ pipe = 0 => Stk = <<>> \/ Stk = <<Begin>>
  /\ Prepares(Stk)
  /\ \A s \in Server : conn[s] # 0 /\ conn[s] # pipe => sstk[s] = <<>> /\ c2s[conn[s]] = <<>>
  /\ \A s \in Server : conn[s] # 0 /\ conn[s] = pipe =>
       /\ InTurn(Inner(Stk), sstk[s], c2s[pipe], s2c[pipe])
       /\ GreetsFirst(Stk, sstk[s], c2s[pipe])

PairInv == faults \in Nat /\ (faults = 0 => Level)

\* The thread that may run has the stack.
LEMMA StkOf ==
  ASSUME ClientInv, NEW t \in Thread, lock \in {None, t}
  PROVE  Stk = cstk[t] /\ Stk \in ClientStacks
  <1>1. lock = None => cstk[t] = <<>>
    BY ThreadAssumption DEF ClientInv
  <1>2. QED
    BY <1>1, ThreadAssumption DEF Stk, ClientInv

\* The stack of the thread that may run says whose turn it is.
LEMMA StkIs ==
  ASSUME ClientInv
  PROVE  Stk \in ClientStacks /\ (Talking <=> ~In(Stk, "call"))
  <1>1. CASE lock = None
    <2>1. \A t \in Thread : cstk[t] = <<>>
      BY <1>1, ThreadAssumption DEF ClientInv
    <2>2. QED
      BY <1>1, <2>1, EmptyStack DEF Stk, Talking, In
  <1>2. CASE lock \in Thread
    BY <1>2, StkOf, TalkingIs
  <1>3. QED
    BY <1>1, <1>2 DEF ClientInv

\* It is the new stack after a step of that thread.
LEMMA StkBecomes ==
  ASSUME ClientInv, NEW t \in Thread, lock \in {None, t}, NEW new, Becomes(t, new)
  PROVE  Stk' = new
  <1>1. cstk'[t] = new /\ lock' = IF new = <<>> THEN None ELSE t
    BY DEF Becomes, ClientInv
  <1>2. QED
    BY <1>1, ThreadAssumption DEF Stk

\* The calls and callbacks of a stack, by what is on top of it.
LEMMA InnerIdle ==
  ASSUME NEW stk \in ClientStacks, stk = <<>> \/ In(stk, "cb")
  PROVE  Inner(stk) = stk /\ ~Greets(stk)
  <1>1. stk \in Seq(ClientFrames) /\ Nested(stk)
    BY DEF ClientStacks
  <1>2. CASE stk = <<>>
    BY <1>2 DEF Inner, In, Greets
  <1>3. CASE In(stk, "cb")
    <2>1. stk[1].k = "cb" /\ 1 \in DOMAIN stk
      BY <1>1, <1>3 DEF In
    <2>2. stk[1 + 1].k = "call"
      BY <1>1, <2>1 DEF Nested
    <2>3. QED
      BY <1>3, <2>2 DEF Inner, In, Greets
  <1>4. QED
    BY <1>2, <1>3

\* The path style is asked for on behalf of the outermost stub, and of no other.
LEMMA GreetsFor ==
  ASSUME NEW stk \in ClientStacks, Greets(stk)
  PROVE  stk # <<>> /\ 2 \in DOMAIN stk /\ In(Tail(stk), "begin") /\ Tail(Tail(stk)) = <<>>
  <1>1. stk \in Seq(ClientFrames) /\ Len(stk) = 2 /\ stk[2].k = "begin"
    BY DEF ClientStacks, Greets
  <1>2. /\ stk # <<>> /\ 2 \in DOMAIN stk
        /\ Tail(stk) \in Seq(ClientFrames) /\ Len(Tail(stk)) = 1 /\ Tail(stk)[1] = stk[2]
    BY <1>1
  <1>3. ASSUME NEW q \in Seq(ClientFrames), Len(q) = 1 PROVE q # <<>> /\ Head(q) = q[1]
    <2>0. Len(<<>>) = 0
      OBVIOUS
    <2>1. q # <<>>
      BY ONLY <1>3, <2>0
    <2>2. QED
      BY <2>1
  <1>4. ASSUME NEW q \in Seq(ClientFrames), Len(q) = 1
        PROVE  Tail(q) \in Seq(ClientFrames) /\ Len(Tail(q)) = 0
    BY <1>3, <1>4
  <1>5. ASSUME NEW q \in Seq(ClientFrames), Len(q) = 0 PROVE q = <<>>
    BY <1>5
  <1>6. QED
    BY <1>1, <1>2, <1>3, <1>4, <1>5 DEF In

\* What the server mirrors of a stack that waits: all of it, or the question about the path style alone.
LEMMA InnerCall ==
  ASSUME NEW stk \in ClientStacks, In(stk, "call")
  PROVE  /\ Inner(stk) \in Seq(ClientFrames) /\ Inner(stk) # <<>>
         /\ Head(Inner(stk)) = Head(stk)
         /\ Greets(stk) => Tail(Inner(stk)) = <<>> /\ In(Tail(stk), "begin")
                           /\ Tail(Tail(stk)) = <<>>
         /\ ~Greets(stk) => Inner(stk) = stk
  <1>1. stk \in Seq(ClientFrames)
    BY DEF ClientStacks
  <1>2. stk # <<>> /\ ~In(stk, "begin") /\ Head(stk) = stk[1] /\ stk[1] \in ClientFrames
    BY <1>1 DEF In
  <1>3. CASE Greets(stk)
    <2>1. Inner(stk) = <<stk[1]>>
      BY <1>2, <1>3 DEF Inner
    <2>2. Len(stk) = 2 /\ stk[2].k = "begin"
      BY <1>3 DEF Greets
    <2>3. In(Tail(stk), "begin") /\ Tail(Tail(stk)) = <<>>
      BY <1>3, GreetsFor
    <2>4. <<stk[1]>> \in Seq(ClientFrames) /\ Tail(<<stk[1]>>) = <<>> /\ Head(<<stk[1]>>) = stk[1]
      BY <1>2
    <2>5. QED
      BY <1>2, <1>3, <2>1, <2>2, <2>3, <2>4
  <1>4. CASE ~Greets(stk)
    BY <1>1, <1>2, <1>4 DEF Inner
  <1>5. QED
    BY <1>3, <1>4

\* A frame put on both sides, and one taken from both.
LEMMA MirrorTop ==
  ASSUME NEW X, NEW Y, NEW mine \in Seq(X), NEW theirs \in Seq(Y), mine # <<>>, theirs # <<>>,
         Mirrors(Tail(mine), Tail(theirs)),
         Head(mine).id = Head(theirs).id, Head(mine).from = Head(theirs).from,
         Head(mine).k = "cb" <=> Head(theirs).k = "cb"
  PROVE  Mirrors(mine, theirs)
  <1>1. /\ Len(Tail(mine)) = Len(mine) - 1 /\ Head(mine) = mine[1]
        /\ Len(mine) \in Nat /\ (\A i \in DOMAIN mine : i \in Nat)
        /\ \A i \in DOMAIN mine : i = 1 \/ (i - 1 \in DOMAIN Tail(mine) /\ Tail(mine)[i - 1] = mine[i])
    OBVIOUS
  <1>2. /\ Len(Tail(theirs)) = Len(theirs) - 1 /\ Head(theirs) = theirs[1]
        /\ Len(theirs) \in Nat /\ DOMAIN theirs = 1 .. Len(theirs)
        /\ \A i \in DOMAIN theirs :
             i = 1 \/ (i - 1 \in DOMAIN Tail(theirs) /\ Tail(theirs)[i - 1] = theirs[i])
    OBVIOUS
  <1>3. Len(mine) = Len(theirs) /\ DOMAIN mine = DOMAIN theirs
    BY <1>1, <1>2 DEF Mirrors
  <1>4. ASSUME NEW i \in DOMAIN mine
        PROVE  /\ mine[i].id = theirs[i].id /\ mine[i].from = theirs[i].from
               /\ mine[i].k = "cb" <=> theirs[i].k = "cb"
    <2>1. CASE i = 1
      BY <2>1, <1>1, <1>2
    <2>2. CASE i # 1
      BY <2>2, <1>1, <1>2, <1>3 DEF Mirrors
    <2>3. QED
      BY <2>1, <2>2
  <1>5. QED
    BY <1>3, <1>4 DEF Mirrors

\* Stacks that mirror each other do so without their tops.
LEMMA MirrorPop ==
  ASSUME NEW X, NEW Y, NEW mine \in Seq(X), NEW theirs \in Seq(Y), Mirrors(mine, theirs),
         mine # <<>> \/ theirs # <<>>
  PROVE  /\ mine # <<>> /\ theirs # <<>> /\ Mirrors(Tail(mine), Tail(theirs))
         /\ Head(mine).id = Head(theirs).id /\ Head(mine).from = Head(theirs).from
         /\ Head(mine).k = "cb" <=> Head(theirs).k = "cb"
  <1>1. Len(mine) = Len(theirs) /\ mine # <<>> /\ theirs # <<>>
    BY DEF Mirrors
  <1>2. Head(mine) = mine[1] /\ 1 \in DOMAIN mine /\ Head(theirs) = theirs[1]
    BY <1>1
  <1>3. /\ Len(Tail(mine)) = Len(Tail(theirs))
        /\ \A i \in DOMAIN Tail(mine) : /\ i + 1 \in DOMAIN mine /\ Tail(mine)[i] = mine[i + 1]
                                        /\ Tail(theirs)[i] = theirs[i + 1]
    BY <1>1
  <1>4. QED
    BY <1>1, <1>2, <1>3 DEF Mirrors

\* Two sides at rest mirror each other.
LEMMA MirrorEmpty == Mirrors(<<>>, <<>>)
  BY DEF Mirrors

\* What the server mirrors is a stack of frames.
LEMMA InnerSeq ==
  ASSUME NEW stk \in ClientStacks
  PROVE  Inner(stk) \in Seq(ClientFrames)
  <1>1. stk \in Seq(ClientFrames) /\ (stk # <<>> => Head(stk) \in ClientFrames)
    BY ClientPop DEF ClientStacks
  <1>2. CASE In(stk, "begin")
    BY <1>1, <1>2 DEF Inner, In
  <1>3. CASE stk = <<>> \/ In(stk, "cb")
    BY <1>1, <1>3, InnerIdle
  <1>4. CASE In(stk, "call")
    BY <1>4, InnerCall
  <1>5. QED
    BY <1>1, <1>2, <1>3, <1>4 DEF In, ClientFrames, FramesOf

\* A step of the server of the client's connection keeps the ends level if it does so for
\* its own stack.
LEMMA LevelServer ==
  ASSUME LinkInv, ServInv, Level, NEW s \in Server, conn[s] # 0, conn[s] = pipe, NEW new,
         sstk' = [sstk EXCEPT ![s] = new], UNCHANGED <<cvars, link, conn>>,
         ~outOfStep', ~crossed', \A j \in Conns : j # pipe => c2s'[j] = c2s[j],
         InTurn(Inner(Stk), new, c2s'[pipe], s2c'[pipe]), GreetsFirst(Stk, new, c2s'[pipe])
  PROVE  Level'
  <1>1. Stk' = Stk /\ pipe' = pipe /\ conn' = conn /\ link' = link
    BY DEF Stk, cvars
  <1>2. sstk'[s] = new /\ \A u \in Server : u # s => sstk'[u] = sstk[u]
    BY DEF ServInv
  <1>3. \A u \in Server : conn[u] = pipe => u = s
    BY DEF LinkInv
  <1>4. (pipe' # 0 => Up(pipe)') /\ (pipe' = 0 => Stk' = <<>> \/ Stk' = <<Begin>>) /\ Prepares(Stk')
    BY <1>1 DEF Level, Up
  <1>5. \A u \in Server : conn'[u] # 0 /\ conn'[u] # pipe' =>
          sstk'[u] = <<>> /\ c2s'[conn'[u]] = <<>>
    <2> SUFFICES ASSUME NEW u \in Server, conn[u] # 0, conn[u] # pipe
                 PROVE  sstk'[u] = <<>> /\ c2s'[conn[u]] = <<>>
      BY <1>1
    <2>1. conn[u] \in Conns
      BY DEF LinkInv, Conns
    <2>2. QED
      BY <1>2, <2>1 DEF Level
  <1>6. \A u \in Server : conn'[u] # 0 /\ conn'[u] = pipe' =>
          /\ InTurn(Inner(Stk'), sstk'[u], c2s'[pipe'], s2c'[pipe'])
          /\ GreetsFirst(Stk', sstk'[u], c2s'[pipe'])
    BY <1>1, <1>2, <1>3
  <1>7. QED
    BY <1>4, <1>5, <1>6 DEF Level

\* A step of the client keeps the ends level if it does so for the stack of its thread.
LEMMA LevelClient ==
  ASSUME ClientInv, LinkInv, Level, NEW t \in Thread, lock \in {None, t}, NEW new, Becomes(t, new),
         pipe # 0, UNCHANGED <<pipe, link, svars>>,
         ~outOfStep', ~crossed', \A j \in Conns : j # pipe => c2s'[j] = c2s[j],
         Prepares(new),
         \A s \in Server : conn[s] = pipe =>
           InTurn(Inner(new), sstk[s], c2s'[pipe], s2c'[pipe]) /\ GreetsFirst(new, sstk[s], c2s'[pipe])
  PROVE  Level'
  <1>1. Stk' = new /\ pipe' = pipe /\ conn' = conn /\ link' = link /\ sstk' = sstk
    BY StkBecomes DEF svars
  <1>2. (pipe' # 0 => Up(pipe)') /\ Prepares(Stk')
    BY <1>1 DEF Level, Up
  <1>3. \A u \in Server : conn'[u] # 0 /\ conn'[u] # pipe' =>
          sstk'[u] = <<>> /\ c2s'[conn'[u]] = <<>>
    <2> SUFFICES ASSUME NEW u \in Server, conn[u] # 0, conn[u] # pipe
                 PROVE  sstk'[u] = <<>> /\ c2s'[conn[u]] = <<>>
      BY <1>1
    <2>1. conn[u] \in Conns
      BY DEF LinkInv, Conns
    <2>2. QED
      BY <1>1, <2>1 DEF Level
  <1>4. \A u \in Server : conn'[u] # 0 /\ conn'[u] = pipe' =>
          /\ InTurn(Inner(Stk'), sstk'[u], c2s'[pipe'], s2c'[pipe'])
          /\ GreetsFirst(Stk', sstk'[u], c2s'[pipe'])
    BY <1>1
  <1>5. QED
    BY <1>1, <1>2, <1>3, <1>4 DEF Level

\* While nothing has failed a server with something to do is that of the client's
\* connection, which is up.
LEMMA LevelBusy ==
  ASSUME IInv, Level, NEW s \in Server, conn[s] # 0, sstk[s] # <<>> \/ c2s[conn[s]] # <<>>
  PROVE  /\ conn[s] = pipe /\ Up(conn[s]) /\ conn[s] \in Conns
         /\ InTurn(Inner(Stk), sstk[s], c2s[pipe], s2c[pipe])
         /\ GreetsFirst(Stk, sstk[s], c2s[pipe])
  <1>1. conn[s] = pipe
    BY DEF Level
  <1>2. QED
    BY <1>1, TurnOf DEF Level

\* The server takes the request that the client's innermost call waits for.
LEMMA TakeRequestLevel ==
  ASSUME IInv, Level, NEW s \in Server, TakeRequest(s)
  PROVE  Level'
  <1> DEFINE k == conn[s]
             m == Head(c2s[k])
             f == Frame(m.k, m.id, 0)
             new == <<f>> \o sstk[s]
             mine == Inner(Stk)
  <1>l. ClientInv /\ LinkInv /\ ServInv /\ ChanInv
    BY DEF IInv
  <1>1. /\ k # 0 /\ c2s[k] # <<>> /\ IsRequest(m)
        /\ c2s' = Received(c2s, k) /\ sstk' = [sstk EXCEPT ![s] = new]
        /\ UNCHANGED <<cvars, link, s2c, conn, ghosts>>
    BY DEF TakeRequest, Waiting, Serves
  <1>2. /\ k = pipe /\ Up(k) /\ k \in Conns
        /\ InTurn(mine, sstk[s], c2s[k], s2c[k]) /\ GreetsFirst(Stk, sstk[s], c2s[k])
    BY <1>1, LevelBusy
  <1>3. s2c[k] = <<>> /\ ~Talking
    BY <1>1, <1>2, TurnOf
  <1>4. /\ c2s'[k] = <<>> /\ m \in ToServer
        /\ \A j \in Conns : j # k => c2s'[j] = c2s[j]
    BY <1>1, <1>2, <1>l, ToServerRead
  <1>5. Stk \in ClientStacks /\ In(Stk, "call")
    BY <1>3, <1>l, StkIs
  <1>6. /\ mine \in Seq(ClientFrames) /\ mine # <<>> /\ Head(mine) = Head(Stk)
        /\ Head(mine).k = "call"
    BY <1>5, InnerCall DEF In
  <1>7. Head(mine).id = m.id /\ Head(mine).from = 0 /\ Mirrors(Tail(mine), sstk[s])
    BY <1>1, <1>2, <1>3 DEF InTurn, IsRequest
  <1>8. f \in ServerFrames /\ f.k = m.k /\ f.id = m.id /\ f.from = 0 /\ m.k # "cb"
    BY <1>1, <1>4 DEF Frame, ServerFrames, ToServer, FramesOf, IsRequest
  <1>9. sstk[s] \in Seq(ServerFrames)
    BY <1>l DEF ServInv, ServerStacks
  <1> HIDE DEF k, m, f, mine
  <1>10. new \in Seq(ServerFrames) /\ new # <<>> /\ Head(new) = f /\ Tail(new) = sstk[s]
    BY <1>8, <1>9
  <1> HIDE DEF new
  <1>11. Mirrors(mine, new)
    BY <1>6, <1>7, <1>8, <1>10, MirrorTop
  <1>12. InTurn(mine, new, c2s'[k], s2c'[k])
    BY <1>1, <1>3, <1>4, <1>11 DEF InTurn
  <1>13. GreetsFirst(Stk, new, c2s'[k])
    BY <1>1, <1>2, <1>4, <1>8, <1>10 DEF GreetsFirst, In, m
  <1>14. ~outOfStep' /\ ~crossed'
    BY <1>1 DEF Level, ghosts
  <1>15. QED
    BY <1>1, <1>2, <1>4, <1>12, <1>13, <1>14, <1>l, LevelServer DEF k, mine

\* The server asks, and the question is on top of its stack.
LEMMA RaiseCallbackLevel ==
  ASSUME IInv, Level, NEW s \in Server, RaiseCallback(s)
  PROVE  Level'
  <1> DEFINE k == conn[s]
             f == Frame("cb", seq[s], k)
             m == Message("cb", seq[s], k)
             new == <<f>> \o sstk[s]
             mine == Inner(Stk)
  <1>l. ClientInv /\ LinkInv /\ ServInv /\ ChanInv
    BY DEF IInv
  <1>1. sstk[s] # <<>> /\ In(sstk[s], "alpm") /\ Inside(sstk[s]) /\ k # 0
    BY <1>l DEF RaiseCallback, In, Inside, ServInv
  <1>2. /\ k = pipe /\ Up(k) /\ k \in Conns
        /\ InTurn(mine, sstk[s], c2s[k], s2c[k]) /\ GreetsFirst(Stk, sstk[s], c2s[k])
    BY <1>1, LevelBusy
  <1>3. /\ sstk' = [sstk EXCEPT ![s] = new] /\ s2c' = Send(s2c, k, m)
        /\ UNCHANGED <<cvars, link, c2s, conn, ghosts>>
    BY <1>2 DEF RaiseCallback, Serves
  <1>4. c2s[k] = <<>> /\ s2c[k] = <<>>
    BY <1>1, <1>2, TurnOf
  <1>5. Mirrors(mine, sstk[s])
    BY <1>2, <1>4 DEF InTurn
  <1>6. /\ f \in ServerFrames /\ m \in ToClient /\ f.k = "cb" /\ m.k = "cb"
        /\ f.id = m.id /\ f.from = m.from
    <2>1. seq[s] \in Nat /\ k \in Nat
      BY <1>2 DEF IInv, StyleInv, Conns
    <2>2. QED
      BY <2>1 DEF Frame, Message, ServerFrames, ToClient, FramesOf
  <1>7. sstk[s] \in Seq(ServerFrames)
    BY <1>l DEF ServInv, ServerStacks
  <1> HIDE DEF k, m, f, mine
  <1>8. new \in Seq(ServerFrames) /\ new # <<>> /\ Head(new) = f /\ Tail(new) = sstk[s]
    BY <1>6, <1>7
  <1> HIDE DEF new
  <1>9. s2c'[k] # <<>> /\ Head(s2c'[k]) = m
    BY <1>2, <1>3, <1>4, <1>6, <1>l, ToClientSent
  <1>10. InTurn(mine, new, c2s'[k], s2c'[k])
    BY <1>3, <1>5, <1>6, <1>8, <1>9 DEF InTurn, In
  <1>11. GreetsFirst(Stk, new, c2s'[k])
    BY <1>1, <1>2 DEF GreetsFirst, In
  <1>12. ~outOfStep' /\ ~crossed'
    BY <1>3 DEF Level, ghosts
  <1>13. QED
    BY <1>1, <1>2, <1>3, <1>10, <1>11, <1>12, <1>l, LevelServer DEF k, mine

\* The answer the server takes is to the question on top of its stack.
LEMMA TakeAnswerLevel ==
  ASSUME IInv, Level, NEW s \in Server, TakeAnswer(s)
  PROVE  Level'
  <1> DEFINE k == conn[s]
             m == Head(c2s[k])
             q == Head(sstk[s])
             new == Tail(sstk[s])
             mine == Inner(Stk)
  <1>l. ClientInv /\ LinkInv /\ ServInv /\ ChanInv
    BY DEF IInv
  <1>1. /\ k # 0 /\ c2s[k] # <<>> /\ m.k = "answer" /\ c2s' = Received(c2s, k)
        /\ UNCHANGED cvars
    BY DEF TakeAnswer, Waiting
  <1>2. /\ k = pipe /\ Up(k) /\ k \in Conns
        /\ InTurn(mine, sstk[s], c2s[k], s2c[k]) /\ GreetsFirst(Stk, sstk[s], c2s[k])
    BY <1>1, LevelBusy
  <1>3. s2c[k] = <<>>
    BY <1>1, <1>2, TurnOf
  <1>4. In(sstk[s], "cb") /\ q.id = m.id /\ q.from = m.from /\ Mirrors(mine, new)
    BY <1>1, <1>2, <1>3 DEF InTurn, IsRequest
  <1>5. /\ sstk' = [sstk EXCEPT ![s] = new]
        /\ outOfStep' = (outOfStep \/ ~Answers(m, q))
        /\ crossed' = (crossed \/ (Answers(m, q) /\ <<m.id, m.from>> # <<q.id, q.from>>))
        /\ UNCHANGED <<s2c, conn, link>>
    BY <1>4 DEF TakeAnswer, Busy, Serves, In
  <1>6. ~outOfStep' /\ ~crossed'
    BY <1>4, <1>5 DEF Level, Answers
  <1>7. c2s'[k] = <<>> /\ \A j \in Conns : j # k => c2s'[j] = c2s[j]
    BY <1>1, <1>2, <1>l, ToServerRead
  <1>8. InTurn(mine, new, c2s'[k], s2c'[k])
    BY <1>3, <1>4, <1>5, <1>7 DEF InTurn
  <1>9. GreetsFirst(Stk, new, c2s'[k])
    BY <1>2, <1>4 DEF GreetsFirst, In
  <1> HIDE DEF new
  <1>10. QED
    BY <1>1, <1>2, <1>5, <1>6, <1>7, <1>8, <1>9, <1>l, LevelServer

\* The reply is to the request on top of both stacks.
LEMMA ReplyLevel ==
  ASSUME IInv, Level, NEW s \in Server, Reply(s)
  PROVE  Level'
  <1> DEFINE k == conn[s]
             f == Head(sstk[s])
             m == Message("reply", f.id, 0)
             new == Tail(sstk[s])
             mine == Inner(Stk)
  <1>l. ClientInv /\ LinkInv /\ ServInv /\ ChanInv
    BY DEF IInv
  <1>1. sstk[s] # <<>> /\ Inside(sstk[s]) /\ k # 0 /\ f.k # "cb"
    BY <1>l DEF Reply, Running, In, Inside, ServInv
  <1>2. /\ k = pipe /\ Up(k) /\ k \in Conns
        /\ InTurn(mine, sstk[s], c2s[k], s2c[k]) /\ GreetsFirst(Stk, sstk[s], c2s[k])
    BY <1>1, LevelBusy
  <1>3. /\ sstk' = [sstk EXCEPT ![s] = new] /\ s2c' = Send(s2c, k, m)
        /\ UNCHANGED <<cvars, link, c2s, conn, ghosts>>
    BY <1>2 DEF Reply, Serves
  <1>4. c2s[k] = <<>> /\ s2c[k] = <<>>
    BY <1>1, <1>2, TurnOf
  <1>5. Mirrors(mine, sstk[s])
    BY <1>2, <1>4 DEF InTurn
  <1>6. /\ sstk[s] \in ServerStacks /\ sstk[s] \in Seq(ServerFrames) /\ f \in ServerFrames
        /\ new = <<>> \/ In(new, "cb")
    BY <1>1, <1>l, ServerPop DEF ServInv, ServerStacks
  <1>7. m \in ToClient /\ m.k = "reply" /\ m.id = f.id
    BY <1>6 DEF Message, ServerFrames, ToClient, FramesOf
  <1>8. mine \in Seq(ClientFrames)
    BY <1>l, StkIs, InnerSeq
  <1>9. mine # <<>> /\ Head(mine).id = f.id /\ Mirrors(Tail(mine), new)
    BY <1>1, <1>5, <1>6, <1>8, MirrorPop
  <1> HIDE DEF k, m, f, mine
  <1>10. s2c'[k] # <<>> /\ Head(s2c'[k]) = m
    BY <1>2, <1>3, <1>4, <1>7, <1>l, ToClientSent
  <1>11. InTurn(mine, new, c2s'[k], s2c'[k])
    BY <1>3, <1>7, <1>9, <1>10 DEF InTurn
  <1>12. GreetsFirst(Stk, new, c2s'[k])
    <2>1. ASSUME Greets(Stk) PROVE new = <<>>
      <3>1. In(Stk, "call") /\ Stk \in ClientStacks
        BY <1>1, <1>2, <1>l, StkIs, TurnOf DEF k
      <3>2. Tail(mine) = <<>>
        BY <2>1, <3>1, InnerCall DEF mine
      <3>3. Len(new) = 0 /\ new \in Seq(ServerFrames)
        BY <1>1, <1>6, <1>9, <3>2, Popped DEF Mirrors
      <3> HIDE DEF new
      <3>4. QED
        BY <3>3
    <2>2. QED
      BY <1>3, <1>4, <2>1 DEF GreetsFirst
  <1>13. ~outOfStep' /\ ~crossed'
    BY <1>3 DEF Level, ghosts
  <1> HIDE DEF new
  <1>14. QED
    BY <1>1, <1>2, <1>3, <1>11, <1>12, <1>13, <1>l, LevelServer DEF k, mine

\* A server whose connection is gone was inside nothing, and leaves it.
LEMMA ServerReadFailsLevel ==
  ASSUME IInv, Level, NEW s \in Server, ServerReadFails(s)
  PROVE  Level'
  <1>l. LinkInv /\ ServInv
    BY DEF IInv
  <1>1. /\ conn[s] # 0 /\ ~Up(conn[s]) /\ GivesUp(s, sstk[s])
        /\ UNCHANGED <<cvars, c2s, s2c, ghosts>>
    BY DEF ServerReadFails, Waiting
  <1>2. conn[s] # pipe /\ sstk[s] = <<>>
    BY <1>1 DEF Level
  <1>3. /\ sstk' = [sstk EXCEPT ![s] = <<>>] /\ conn' = [conn EXCEPT ![s] = 0]
        /\ link' = [link EXCEPT ![conn[s]] = "down"]
    BY <1>1, <1>2 DEF GivesUp, Serves, Leaves
  <1>4. /\ sstk' = sstk /\ conn'[s] = 0 /\ \A u \in Server : u # s => conn'[u] = conn[u]
    BY <1>2, <1>3, <1>l DEF ServInv, LinkInv
  <1>5. /\ Stk' = Stk /\ pipe' = pipe /\ c2s' = c2s /\ s2c' = s2c
        /\ outOfStep' = outOfStep /\ crossed' = crossed
    BY <1>1 DEF Stk, cvars, ghosts
  <1>6. pipe' # 0 => Up(pipe)'
    BY <1>2, <1>3, <1>5, <1>l DEF Level, Up, LinkInv
  <1>7. \A u \in Server : conn'[u] # 0 /\ conn'[u] # pipe' =>
          sstk'[u] = <<>> /\ c2s'[conn'[u]] = <<>>
    BY <1>4, <1>5 DEF Level
  <1>8. \A u \in Server : conn'[u] # 0 /\ conn'[u] = pipe' =>
          /\ InTurn(Inner(Stk'), sstk'[u], c2s'[pipe'], s2c'[pipe'])
          /\ GreetsFirst(Stk', sstk'[u], c2s'[pipe'])
    BY <1>4, <1>5 DEF Level
  <1>9. QED
    BY <1>5, <1>6, <1>7, <1>8 DEF Level

\* Nothing that the two ends see changes.
LEMMA LevelSame ==
  ASSUME Level, UNCHANGED <<cvars, link, c2s, s2c, conn, sstk, outOfStep, crossed>>
  PROVE  Level'
  <1>1. /\ Stk' = Stk /\ pipe' = pipe /\ c2s' = c2s /\ s2c' = s2c /\ link' = link
        /\ conn' = conn /\ sstk' = sstk /\ outOfStep' = outOfStep /\ crossed' = crossed
    BY DEF Stk, cvars
  <1>2. \A u \in Server : conn'[u] # 0 /\ conn'[u] = pipe' =>
          /\ InTurn(Inner(Stk'), sstk'[u], c2s'[pipe'], s2c'[pipe'])
          /\ GreetsFirst(Stk', sstk'[u], c2s'[pipe'])
    BY <1>1 DEF Level
  <1>3. QED
    BY <1>1, <1>2 DEF Level, Up

\* The server of the client's connection mirrors a client that is not waiting.
LEMMA LevelTalking ==
  ASSUME IInv, Level, Talking, NEW s \in Server, conn[s] = pipe, pipe # 0
  PROVE  /\ c2s[pipe] = <<>> /\ s2c[pipe] = <<>> /\ Mirrors(Inner(Stk), sstk[s])
         /\ GreetsFirst(Stk, sstk[s], c2s[pipe])
  <1>1. Up(pipe) /\ InTurn(Inner(Stk), sstk[s], c2s[pipe], s2c[pipe])
        /\ GreetsFirst(Stk, sstk[s], c2s[pipe])
    BY DEF Level
  <1>2. c2s[pipe] = <<>> /\ s2c[pipe] = <<>>
    BY <1>1, TurnOf
  <1>3. QED
    BY <1>1, <1>2 DEF InTurn

\* A stack under which no stub is preparing a request, and what a push and a pop make of it.
LEMMA PreparesPush ==
  ASSUME NEW stk \in ClientStacks, NEW f \in ClientFrames, Prepares(stk), ~In(stk, "begin"), ~Greets(stk)
  PROVE  Prepares(<<f>> \o stk)
  <1> DEFINE new == <<f>> \o stk
  <1>1. stk \in Seq(ClientFrames)
    BY DEF ClientStacks
  <1>2. \A i \in DOMAIN stk : stk[i].k # "begin"
    BY <1>1 DEF Prepares, In
  <1>3. \A i \in DOMAIN new : i = 1 \/ (i - 1 \in DOMAIN stk /\ new[i] = stk[i - 1])
    BY <1>1
  <1> HIDE DEF new
  <1>4. Prepares(new)
    BY <1>2, <1>3 DEF Prepares
  <1>5. QED
    BY <1>4 DEF new

\* A frame goes from a stack that does not ask for the path style.
LEMMA PreparesPop ==
  ASSUME NEW stk \in ClientStacks, stk # <<>>, Prepares(stk), ~Greets(stk)
  PROVE  Prepares(Tail(stk)) /\ ~In(Tail(stk), "begin") /\ ~Greets(Tail(stk))
  <1> DEFINE new == Tail(stk)
  <1>1. stk \in Seq(ClientFrames)
    BY DEF ClientStacks
  <1>2. /\ new \in Seq(ClientFrames)
        /\ \A i \in DOMAIN new : i + 1 \in DOMAIN stk /\ new[i] = stk[i + 1] /\ i \in Nat \ {0}
    BY <1>1
  <1> HIDE DEF new
  <1>3. \A i \in DOMAIN new : i + 1 # 1
    BY <1>2
  <1>4. \A i \in DOMAIN new : new[i].k # "begin"
    BY <1>2, <1>3 DEF Prepares
  <1>5. Len(new) = 2 => 2 \in DOMAIN new
    BY <1>2
  <1>6. new # <<>> => Head(new) = new[1] /\ 1 \in DOMAIN new
    BY <1>2
  <1>7. Prepares(new) /\ ~In(new, "begin") /\ ~Greets(new)
    BY <1>4, <1>5, <1>6 DEF Prepares, In, Greets
  <1>8. QED
    BY <1>7 DEF new

\* A stub is called: its frame has no counterpart yet.
LEMMA CallLevel ==
  ASSUME IInv, Level, NEW t \in Thread, Call(t)
  PROVE  Level'
  <1> DEFINE new == <<Begin>> \o cstk[t]
  <1>l. ClientInv /\ LinkInv
    BY DEF IInv
  <1>1. /\ lock \in {None, t} /\ (cstk[t] # <<>> => In(cstk[t], "cb")) /\ Becomes(t, new)
        /\ UNCHANGED <<pipe, link, c2s, s2c, svars, ghosts>>
    BY DEF Call, Busy
  <1>2. Stk = cstk[t] /\ Stk \in ClientStacks /\ Talking
    BY <1>1, <1>l, StkOf, TalkingIs DEF In
  <1>3. Begin \in ClientFrames /\ Begin.k = "begin"
    BY DEF Begin, Frame, ClientFrames, FramesOf
  <1>4. Inner(Stk) = Stk /\ ~Greets(Stk) /\ ~In(Stk, "begin") /\ Stk \in Seq(ClientFrames)
    BY <1>1, <1>2, InnerIdle DEF In, ClientStacks
  <1>5. new # <<>> /\ Head(new) = Begin /\ Tail(new) = cstk[t] /\ new[1] = Begin
        /\ Len(new) = Len(Stk) + 1 /\ (2 \in DOMAIN new => 1 \in DOMAIN Stk /\ new[2] = Stk[1])
        /\ new \in Seq(ClientFrames)
    BY <1>2, <1>3, <1>4
  <1>6. Prepares(new)
    BY <1>2, <1>3, <1>4, PreparesPush DEF Level
  <1> HIDE DEF new
  <1>7. Inner(new) = Stk
    BY <1>2, <1>3, <1>5 DEF Inner, In
  <1>8. ~Greets(new)
    <2>1. ASSUME Greets(new) PROVE FALSE
      <3>e. \A q \in Seq(ClientFrames) : Len(q) = 2 => 2 \in DOMAIN q
        OBVIOUS
      <3>1. 2 \in DOMAIN new /\ new[2].k = "begin"
        BY <1>5, <2>1, <3>e DEF Greets
      <3>2. Stk # <<>> /\ Head(Stk) = Stk[1]
        BY <1>4, <1>5, <3>1
      <3>3. QED
        BY <1>4, <1>5, <3>1, <3>2 DEF In
    <2>2. QED
      BY <2>1
  <1>9. CASE pipe # 0
    <2>1. \A s \in Server : conn[s] = pipe =>
            InTurn(Inner(new), sstk[s], c2s'[pipe], s2c'[pipe]) /\ GreetsFirst(new, sstk[s], c2s'[pipe])
      BY <1>1, <1>2, <1>4, <1>7, <1>8, <1>9, LevelTalking DEF InTurn, GreetsFirst
    <2>2. ~outOfStep' /\ ~crossed'
      BY <1>1 DEF Level, ghosts
    <2>3. QED
      BY <1>1, <1>6, <1>9, <2>1, <2>2, <1>l, LevelClient
  <1>10. CASE pipe = 0
    <2>1. Stk = <<>>
      <3>1. <<Begin>> # <<>> /\ Head(<<Begin>>) = Begin
        OBVIOUS
      <3>2. QED
        BY <1>3, <1>4, <1>10, <3>1 DEF Level, In
    <2>2. Stk' = new /\ new = <<Begin>>
      <3>1. <<Begin>> \o <<>> = <<Begin>>
        BY <1>3
      <3>2. QED
        BY <1>1, <1>2, <2>1, <3>1, <1>l, StkBecomes DEF new
    <2>3. /\ pipe' = 0 /\ c2s' = c2s /\ sstk' = sstk /\ conn' = conn
          /\ outOfStep' = outOfStep /\ crossed' = crossed
      BY <1>1, <1>10 DEF svars, ghosts
    <2>4. \A u \in Server : conn'[u] # 0 /\ conn'[u] # pipe' =>
            sstk'[u] = <<>> /\ c2s'[conn'[u]] = <<>>
      BY <2>3, <1>10 DEF Level
    <2>5. QED
      BY <1>6, <2>2, <2>3, <2>4 DEF Level
  <1>11. QED
    BY <1>9, <1>10

\* The request that arpc_invoke sends is the client's innermost call.
LEMMA InvokeLevel ==
  ASSUME IInv, Level, NEW t \in Thread, Invoke(t)
  PROVE  Level'
  <1> DEFINE f == Frame("call", next_id, 0)
             rest == Tail(cstk[t])
             new == <<f>> \o rest
             m == Message("alpm", next_id, 0)
  <1>l. ClientInv /\ LinkInv /\ ChanInv
    BY DEF IInv
  <1>1. In(cstk[t], "begin") /\ pipe # 0 /\ Up(pipe)
    BY DEF Invoke, Level
  <1>2. /\ Becomes(t, new) /\ c2s' = Send(c2s, pipe, m)
        /\ UNCHANGED <<pipe, link, s2c, svars, ghosts>>
    BY <1>1 DEF Invoke
  <1>3. lock = t /\ lock \in {None, t}
    BY <1>1, <1>l, ClientLocked
  <1>4. Stk = cstk[t] /\ Stk \in ClientStacks /\ Talking /\ pipe \in Conns
    BY <1>1, <1>3, <1>l, StkOf, TalkingIs DEF In, LinkInv, Conns
  <1>5. rest \in ClientStacks /\ (rest = <<>> \/ In(rest, "cb"))
    BY <1>1, <1>4, ClientPop DEF In
  <1>6. ~Greets(Stk)
    <2>1. ASSUME Greets(Stk) PROVE FALSE
      <3>1. In(rest, "begin")
        BY <1>4, <2>1, GreetsFor
      <3>2. QED
        BY <1>5, <3>1 DEF In
    <2>2. QED
      BY <2>1
  <1>7. Prepares(rest) /\ ~In(rest, "begin") /\ ~Greets(rest)
    BY <1>1, <1>4, <1>6, PreparesPop DEF Level, In
  <1>8. f \in ClientFrames /\ f.k = "call" /\ f.id = next_id /\ f.from = 0
        /\ m \in ToServer /\ m.id = next_id /\ IsRequest(m)
    BY <1>l DEF Frame, Message, ClientFrames, ToServer, FramesOf, IsRequest, ClientInv
  <1>9. Inner(Stk) = rest
    BY <1>1, <1>4 DEF Inner
  <1> HIDE DEF f, rest, m
  <1>10. new \in ClientStacks /\ In(new, "call") /\ Head(new) = f /\ Tail(new) = rest
    <2>1. CallIds(rest) \subseteq CallIds(cstk[t])
      BY <1>1, <1>4, ClientPop DEF rest, In
    <2>2. new \in ClientStacks /\ In(new, "call")
      BY <1>3, <1>5, <2>1, <1>l, NewCall DEF f
    <2>3. QED
      BY <1>5, <1>8, <2>2 DEF ClientStacks
  <1>11. Prepares(new)
    BY <1>5, <1>7, <1>8, PreparesPush
  <1>12. ~Greets(new)
    <2>1. ASSUME Greets(new) PROVE FALSE
      <3>1. In(Tail(new), "begin")
        BY <1>10, <2>1, InnerCall
      <3>2. QED
        BY <1>7, <1>10, <3>1
    <2>2. QED
      BY <2>1
  <1> HIDE DEF new
  <1>13. Inner(new) = new /\ new # <<>>
    BY <1>10, <1>12, InnerCall
  <1>14. ASSUME NEW s \in Server, conn[s] = pipe
         PROVE  InTurn(Inner(new), sstk[s], c2s'[pipe], s2c'[pipe]) /\ GreetsFirst(new, sstk[s], c2s'[pipe])
    <2>1. c2s[pipe] = <<>> /\ s2c[pipe] = <<>> /\ Mirrors(rest, sstk[s])
      BY <1>1, <1>4, <1>9, <1>14, LevelTalking
    <2>2. c2s'[pipe] # <<>> /\ Head(c2s'[pipe]) = m
      BY <1>2, <1>4, <1>8, <2>1, <1>l, ToServerSent
    <2>3. QED
      BY <1>8, <1>10, <1>12, <1>13, <2>1, <2>2 DEF InTurn, GreetsFirst
  <1>15. \A j \in Conns : j # pipe => c2s'[j] = c2s[j]
    BY <1>2, <1>4, <1>l DEF Send, ChanInv
  <1>16. ~outOfStep' /\ ~crossed'
    BY <1>2 DEF Level, ghosts
  <1>17. QED
    BY <1>1, <1>2, <1>3, <1>11, <1>14, <1>15, <1>16, <1>l, LevelClient

\* A client that waits for a reply is on a connection that is up.
LEMMA LevelCalling ==
  ASSUME IInv, Level, NEW t \in Thread, In(cstk[t], "call")
  PROVE  /\ lock = t /\ lock \in {None, t} /\ Stk = cstk[t] /\ Stk \in ClientStacks
         /\ pipe # 0 /\ Up(pipe) /\ pipe \in Conns
         /\ \E s \in Server : conn[s] = pipe
  <1>l. ClientInv /\ LinkInv
    BY DEF IInv
  <1>1. lock = t /\ lock \in {None, t}
    BY <1>l, ClientLocked
  <1>2. Stk = cstk[t] /\ Stk \in ClientStacks
    BY <1>1, <1>l, StkOf
  <1>3. pipe # 0
    <2>1. Begin.k = "begin"
      BY DEF Begin, Frame
    <2>2. <<Begin>> # <<>> /\ Head(<<Begin>>) = Begin
      OBVIOUS
    <2>3. QED
      BY <1>2, <2>1, <2>2 DEF Level, In
  <1>4. Up(pipe) /\ pipe \in Conns
    BY <1>3, <1>l DEF Level, LinkInv, Conns
  <1>5. QED
    BY <1>1, <1>2, <1>3, <1>4, <1>l DEF LinkInv, Up

\* The reply the client takes is the one it waits for.
LEMMA TakeReplyLevel ==
  ASSUME IInv, Level, NEW t \in Thread, TakeReply(t)
  PROVE  Level'
  <1> DEFINE new == Tail(cstk[t])
             m == Head(s2c[pipe])
             id == Head(cstk[t]).id
             mine == Inner(Stk)
  <1>l. ClientInv /\ LinkInv /\ ServInv /\ ChanInv
    BY DEF IInv
  <1>1. /\ In(cstk[t], "call") /\ s2c[pipe] # <<>> /\ m.k = "reply"
        /\ s2c' = Received(s2c, pipe) /\ UNCHANGED <<c2s, svars, crossed>>
        /\ IF IsReplyTo(id, m)
           THEN Becomes(t, new) /\ UNCHANGED <<pipe, link, outOfStep>>
           ELSE TRUE
    BY DEF TakeReply
  <1>2. /\ lock = t /\ lock \in {None, t} /\ Stk = cstk[t] /\ Stk \in ClientStacks
        /\ pipe # 0 /\ Up(pipe) /\ pipe \in Conns
        /\ \E s \in Server : conn[s] = pipe
    BY <1>1, LevelCalling
  <1>3. mine # <<>> /\ Head(mine) = Head(Stk)
    BY <1>1, <1>2, InnerCall
  <1>4. \A s \in Server : conn[s] = pipe =>
          /\ c2s[pipe] = <<>> /\ Head(mine).id = m.id /\ Mirrors(Tail(mine), sstk[s])
          /\ GreetsFirst(Stk, sstk[s], c2s[pipe])
    <2> SUFFICES ASSUME NEW s \in Server, conn[s] = pipe
                 PROVE  /\ c2s[pipe] = <<>> /\ Head(mine).id = m.id
                        /\ Mirrors(Tail(mine), sstk[s])
                        /\ GreetsFirst(Stk, sstk[s], c2s[pipe])
      OBVIOUS
    <2>1. c2s[pipe] = <<>>
      BY <1>1, <1>2, TurnOf
    <2>2. InTurn(mine, sstk[s], c2s[pipe], s2c[pipe]) /\ GreetsFirst(Stk, sstk[s], c2s[pipe])
      BY <1>2 DEF Level
    <2>3. QED
      BY <1>1, <2>1, <2>2 DEF InTurn
  <1>5. IsReplyTo(id, m)
    BY <1>2, <1>3, <1>4 DEF IsReplyTo
  <1>6. Becomes(t, new) /\ UNCHANGED <<pipe, link, outOfStep>>
    BY <1>1, <1>5
  <1>7. Prepares(new) /\ Inner(new) = Tail(mine) /\ ~Greets(new)
    <2>1. CASE Greets(Stk)
      <3>1. In(new, "begin") /\ Tail(new) = <<>> /\ Tail(mine) = <<>>
        BY <1>1, <1>2, <2>1, InnerCall
      <3>2. new \in ClientStacks
        BY <1>1, <1>2, ClientPop DEF In
      <3>3. Inner(new) = <<>>
        BY <3>1 DEF Inner
      <3> HIDE DEF new
      <3>4. new \in Seq(ClientFrames) /\ Len(new) = 1
        <4>1. new \in Seq(ClientFrames) /\ new # <<>>
          BY <3>1, <3>2 DEF In, ClientStacks
        <4>2. Len(Tail(new)) = Len(new) - 1 /\ Len(new) \in Nat
          BY <4>1
        <4>3. Len(<<>>) = 0
          OBVIOUS
        <4>4. Len(Tail(new)) = 0
          BY <3>1, <4>3, Zenon
        <4>5. Len(new) = 1
          BY ONLY <4>2, <4>4
        <4>6. QED
          BY <4>1, <4>5
      <3>5. Prepares(new) /\ ~Greets(new)
        BY <3>4 DEF Prepares, Greets
      <3>6. QED
        BY <3>1, <3>3, <3>5
    <2>2. CASE ~Greets(Stk)
      <3>1. mine = Stk
        BY <1>1, <1>2, <2>2, InnerCall
      <3>2. Prepares(new) /\ ~In(new, "begin") /\ ~Greets(new)
        BY <1>1, <1>2, <2>2, PreparesPop DEF Level, In
      <3>3. Inner(new) = new
        BY <3>2 DEF Inner
      <3>4. QED
        BY <1>2, <3>1, <3>2, <3>3
    <2>3. QED
      BY <2>1, <2>2
  <1>8. s2c'[pipe] = <<>>
    BY <1>1, <1>2, <1>l, ToClientRead
  <1>9. ~outOfStep' /\ ~crossed'
    BY <1>1, <1>6 DEF Level
  <1> HIDE DEF new, mine
  <1>10. \A s \in Server : conn[s] = pipe =>
           InTurn(Inner(new), sstk[s], c2s'[pipe], s2c'[pipe]) /\ GreetsFirst(new, sstk[s], c2s'[pipe])
    BY <1>1, <1>4, <1>7, <1>8 DEF InTurn, GreetsFirst
  <1>11. QED
    BY <1>1, <1>2, <1>6, <1>7, <1>9, <1>10, <1>l, LevelClient

\* The callback the client runs is the question on top of the server's stack.
LEMMA TakeCallbackLevel ==
  ASSUME IInv, Level, NEW t \in Thread, TakeCallback(t)
  PROVE  Level'
  <1> DEFINE m == Head(s2c[pipe])
             f == Frame("cb", m.id, m.from)
             new == <<f>> \o cstk[t]
  <1>l. ClientInv /\ LinkInv /\ ServInv /\ ChanInv
    BY DEF IInv
  <1>1. /\ In(cstk[t], "call") /\ s2c[pipe] # <<>> /\ m.k = "cb"
        /\ s2c' = Received(s2c, pipe) /\ Becomes(t, new)
        /\ UNCHANGED <<pipe, link, c2s, svars, ghosts>>
    BY DEF TakeCallback
  <1>2. /\ lock = t /\ lock \in {None, t} /\ Stk = cstk[t] /\ Stk \in ClientStacks
        /\ pipe # 0 /\ Up(pipe) /\ pipe \in Conns
        /\ \E s \in Server : conn[s] = pipe
    BY <1>1, LevelCalling
  <1>3. s2c'[pipe] = <<>> /\ m \in ToClient
    BY <1>1, <1>2, <1>l, ToClientRead
  <1>4. f \in ClientFrames /\ f.k = "cb" /\ f.id = m.id /\ f.from = m.from
    BY <1>3 DEF Frame, ClientFrames, ToClient, FramesOf
  <1>5. ASSUME NEW s \in Server, conn[s] = pipe
        PROVE  /\ c2s[pipe] = <<>> /\ In(sstk[s], "cb") /\ ~Greets(Stk)
               /\ Head(sstk[s]).id = m.id /\ Head(sstk[s]).from = m.from
               /\ Mirrors(Inner(Stk), Tail(sstk[s]))
    <2>1. c2s[pipe] = <<>>
      BY <1>1, <1>2, <1>5, TurnOf
    <2>2. InTurn(Inner(Stk), sstk[s], c2s[pipe], s2c[pipe]) /\ GreetsFirst(Stk, sstk[s], c2s[pipe])
      BY <1>2, <1>5 DEF Level
    <2>3. /\ In(sstk[s], "cb") /\ Head(sstk[s]).id = m.id /\ Head(sstk[s]).from = m.from
          /\ Mirrors(Inner(Stk), Tail(sstk[s]))
      BY <1>1, <2>1, <2>2 DEF InTurn
    <2>4. QED
      BY <2>1, <2>2, <2>3 DEF GreetsFirst, In
  <1>6. ~Greets(Stk) /\ Inner(Stk) = Stk
    BY <1>1, <1>2, <1>5, InnerCall
  <1> HIDE DEF f, m
  <1>7. Prepares(new)
    BY <1>1, <1>2, <1>4, <1>6, PreparesPush DEF Level, In
  <1>8. /\ new \in ClientStacks /\ new # <<>> /\ Head(new) = f /\ Tail(new) = Stk
        /\ new \in Seq(ClientFrames)
    BY <1>1, <1>2, <1>4, ClientPush DEF Fits, ClientStacks
  <1> HIDE DEF new
  <1>9. Inner(new) = new /\ ~Greets(new)
    BY <1>4, <1>8, InnerIdle DEF In
  <1>10. ASSUME NEW s \in Server, conn[s] = pipe
         PROVE  InTurn(Inner(new), sstk[s], c2s'[pipe], s2c'[pipe]) /\ GreetsFirst(new, sstk[s], c2s'[pipe])
    <2>1. sstk[s] \in Seq(ServerFrames) /\ sstk[s] # <<>> /\ Head(sstk[s]).k = "cb"
      BY <1>5, <1>10, <1>l DEF ServInv, ServerStacks, In
    <2>2. Mirrors(new, sstk[s])
      BY <1>4, <1>5, <1>6, <1>8, <1>10, <2>1, MirrorTop
    <2>3. QED
      BY <1>1, <1>3, <1>5, <1>9, <1>10, <2>2 DEF InTurn, GreetsFirst
  <1>11. ~outOfStep' /\ ~crossed'
    BY <1>1 DEF Level, ghosts
  <1>12. QED
    BY <1>1, <1>2, <1>7, <1>10, <1>11, <1>l, LevelClient

\* The answer is to the question on top of the server's stack.
LEMMA AnswerLevel ==
  ASSUME IInv, Level, NEW t \in Thread, Answer(t)
  PROVE  Level'
  <1> DEFINE f == Head(cstk[t])
             new == Tail(cstk[t])
             m == Message("answer", f.id, f.from)
  <1>l. ClientInv /\ LinkInv /\ ServInv /\ ChanInv
    BY DEF IInv
  <1>1. In(cstk[t], "cb")
    BY DEF Answer
  <1>2. lock = t /\ lock \in {None, t} /\ Talking /\ new \in ClientStacks /\ In(new, "call")
    BY <1>1, <1>l, UnderCallback
  <1>3. Stk = cstk[t] /\ Stk \in ClientStacks /\ cstk[t] # <<>> /\ f.k = "cb"
    BY <1>1, <1>2, <1>l, StkOf DEF In
  <1>4. pipe # 0 /\ Up(pipe) /\ pipe \in Conns
    <2>1. Begin.k = "begin"
      BY DEF Begin, Frame
    <2>2. <<Begin>> # <<>> /\ Head(<<Begin>>) = Begin
      OBVIOUS
    <2>3. pipe # 0
      BY <1>1, <1>3, <2>1, <2>2 DEF Level, In
    <2>4. QED
      BY <2>3, <1>l DEF Level, LinkInv, Conns
  <1>5. Becomes(t, new) /\ c2s' = Send(c2s, pipe, m) /\ UNCHANGED <<pipe, link, s2c, svars, ghosts>>
    BY <1>4 DEF Answer
  <1>6. Inner(Stk) = Stk /\ ~Greets(Stk) /\ Stk \in Seq(ClientFrames) /\ f \in ClientFrames
    BY <1>1, <1>3, InnerIdle, ClientPop DEF ClientStacks
  <1>7. m \in ToServer /\ m.k = "answer" /\ m.id = f.id /\ m.from = f.from
    BY <1>6 DEF Message, ClientFrames, ToServer, FramesOf
  <1>8. Prepares(new) /\ ~Greets(new)
    BY <1>3, <1>6, PreparesPop DEF Level
  <1>9. Inner(new) = new
    BY <1>2, <1>8, InnerCall
  <1> HIDE DEF m
  <1>10. ASSUME NEW s \in Server, conn[s] = pipe
         PROVE  InTurn(Inner(new), sstk[s], c2s'[pipe], s2c'[pipe]) /\ GreetsFirst(new, sstk[s], c2s'[pipe])
    <2>1. c2s[pipe] = <<>> /\ Mirrors(Stk, sstk[s])
      BY <1>2, <1>4, <1>6, <1>10, LevelTalking
    <2>2. c2s'[pipe] # <<>> /\ Head(c2s'[pipe]) = m
      BY <1>4, <1>5, <1>7, <2>1, <1>l, ToServerSent
    <2>3. sstk[s] \in Seq(ServerFrames)
      BY <1>l DEF ServInv, ServerStacks
    <2>4. /\ sstk[s] # <<>> /\ Mirrors(new, Tail(sstk[s]))
          /\ Head(sstk[s]).id = f.id /\ Head(sstk[s]).from = f.from /\ Head(sstk[s]).k = "cb"
      BY <1>3, <1>6, <2>1, <2>3, MirrorPop
    <2>5. QED
      BY <1>7, <1>8, <1>9, <2>2, <2>4 DEF InTurn, In, GreetsFirst
  <1>11. \A j \in Conns : j # pipe => c2s'[j] = c2s[j]
    BY <1>4, <1>5, <1>l DEF Send, ChanInv
  <1>12. ~outOfStep' /\ ~crossed'
    BY <1>5 DEF Level, ghosts
  <1> HIDE DEF new
  <1>13. QED
    BY <1>2, <1>4, <1>5, <1>8, <1>10, <1>11, <1>12, <1>l, LevelClient

\* A new connection starts level: with nothing, or with the greeting.
LEMMA OpenLevel ==
  ASSUME IInv, Level, NEW t \in Thread, NEW s \in Server, Open(t, s)
  PROVE  Level'
  <1> DEFINE k == Cardinality({j \in Conns : link[j] # "unused"}) + 1
             f == Frame("call", next_id, 0)
             new == <<f>> \o cstk[t]
             m == Message("style", next_id, 0)
  <1>l. ClientInv /\ LinkInv /\ ServInv /\ ChanInv
    BY DEF IInv
  <1>1. /\ In(cstk[t], "begin") /\ pipe = 0 /\ conn[s] = 0 /\ k \in Conns
        /\ link' = [link EXCEPT ![k] = "up"] /\ conn' = [conn EXCEPT ![s] = k] /\ pipe' = k
        /\ IF TellsStyle THEN Becomes(t, new) /\ c2s' = Send(c2s, k, m)
                         ELSE UNCHANGED <<lock, cstk, c2s>>
        /\ UNCHANGED <<s2c, sstk, ghosts>>
    BY DEF Open
  <1> HIDE DEF k
  <1>2. link[k] = "unused" /\ \A u \in Server : conn[u] # k
    BY <1>1, <1>l, LinkOpen DEF k
  <1>3. c2s[k] = <<>> /\ s2c[k] = <<>> /\ sstk[s] = <<>> /\ k # 0
    BY <1>1, <1>2, <1>l DEF ChanInv, ServInv, Conns
  <1>4. lock = t /\ lock \in {None, t}
    BY <1>1, <1>l, ClientLocked
  <1>5. Stk = cstk[t] /\ Stk \in ClientStacks /\ Stk = <<Begin>>
    BY <1>1, <1>4, <1>l, StkOf DEF Level, In
  <1>6. (\A u \in Server : u # s => conn'[u] = conn[u] /\ conn[u] # k) /\ conn'[s] = k
    BY <1>1, <1>2, <1>l DEF LinkInv
  <1>7. link'[k] = "up"
    BY <1>1, <1>l DEF LinkInv
  <1>8. Begin \in ClientFrames /\ Begin.k = "begin"
    BY DEF Begin, Frame, ClientFrames, FramesOf
  <1>9. /\ \A j \in Conns : j # k => c2s'[j] = c2s[j]
        /\ Prepares(Stk') /\ InTurn(Inner(Stk'), <<>>, c2s'[k], s2c'[k])
        /\ GreetsFirst(Stk', <<>>, c2s'[k])
    <2>1. CASE ~TellsStyle
      <3>1. Stk' = <<Begin>> /\ c2s' = c2s /\ s2c' = s2c
        BY <1>1, <1>5, <2>1 DEF Stk
      <3>2. /\ Len(<<Begin>>) = 1 /\ Head(<<Begin>>) = Begin /\ Tail(<<Begin>>) = <<>>
            /\ <<Begin>> # <<>> /\ DOMAIN <<Begin>> = 1 .. 1
        OBVIOUS
      <3>3. Prepares(<<Begin>>) /\ ~Greets(<<Begin>>) /\ Inner(<<Begin>>) = <<>>
        BY <1>8, <3>2 DEF Prepares, Greets, Inner, In
      <3>4. QED
        BY <1>3, <3>1, <3>3, MirrorEmpty DEF InTurn, GreetsFirst
    <2>2. CASE TellsStyle
      <3>1. Becomes(t, new) /\ c2s' = Send(c2s, k, m)
        BY <1>1, <2>2
      <3>2. Stk' = new
        BY <1>4, <3>1, <1>l, StkBecomes
      <3>3. /\ f.k = "call" /\ f.id = next_id /\ f.from = 0 /\ f \in ClientFrames
            /\ m \in ToServer /\ m.k = "style" /\ m.id = next_id /\ IsRequest(m)
        BY <1>l DEF Frame, Message, ClientFrames, ToServer, FramesOf, IsRequest, ClientInv
      <3> HIDE DEF f, m
      <3>4. c2s'[k] # <<>> /\ Head(c2s'[k]) = m /\ \A j \in Conns : j # k => c2s'[j] = c2s[j]
        BY <1>1, <1>3, <3>1, <3>3, <1>l, ToServerSent
      <3>5. /\ new \in ClientStacks /\ In(new, "call") /\ Head(new) = f
        <4>1. new \in ClientStacks /\ In(new, "call")
          BY <1>1, <1>4, <1>5, <1>l, NewCall DEF f
        <4>2. QED
          BY <1>5, <3>3, <4>1 DEF ClientStacks
      <3>6. Greets(new)
        <4>1. /\ Len(Stk) = 1 /\ 1 \in DOMAIN Stk /\ Stk[1] = Begin /\ Stk \in Seq(ClientFrames)
          BY <1>5, <1>8
        <4>2. Len(new) = Len(Stk) + 1 /\ new[1 + 1] = Stk[1]
          BY <1>5, <3>3, <4>1
        <4> HIDE DEF new
        <4>3. QED
          BY <1>8, <4>1, <4>2 DEF Greets
      <3> HIDE DEF new
      <3>7. Inner(new) # <<>> /\ Head(Inner(new)) = f /\ Tail(Inner(new)) = <<>>
        BY <3>5, <3>6, InnerCall
      <3>8. QED
        BY <3>2, <3>3, <3>4, <3>6, <3>7, MirrorEmpty DEF InTurn, GreetsFirst, Prepares
    <2>3. QED
      BY <2>1, <2>2
  <1>10. \A u \in Server : conn'[u] # 0 /\ conn'[u] # pipe' =>
           sstk'[u] = <<>> /\ c2s'[conn'[u]] = <<>>
    <2> SUFFICES ASSUME NEW u \in Server, conn'[u] # 0, conn'[u] # k
                 PROVE  sstk[u] = <<>> /\ c2s'[conn'[u]] = <<>>
      BY <1>1
    <2>1. u # s /\ conn'[u] = conn[u]
      BY <1>6
    <2>2. conn[u] \in Conns /\ conn[u] # k /\ conn[u] # pipe
      BY <1>1, <2>1, <1>l DEF LinkInv, Conns
    <2>3. sstk[u] = <<>> /\ c2s[conn[u]] = <<>>
      BY <2>2 DEF Level, Conns
    <2>4. QED
      BY <1>9, <2>1, <2>2, <2>3
  <1>11. \A u \in Server : conn'[u] # 0 /\ conn'[u] = pipe' =>
           /\ InTurn(Inner(Stk'), sstk'[u], c2s'[pipe'], s2c'[pipe'])
           /\ GreetsFirst(Stk', sstk'[u], c2s'[pipe'])
    BY <1>1, <1>3, <1>6, <1>9
  <1>12. ~outOfStep' /\ ~crossed'
    BY <1>1 DEF Level, ghosts
  <1>13. pipe' # 0 /\ Up(pipe)'
    BY <1>1, <1>3, <1>7 DEF Up
  <1>14. QED
    BY <1>9, <1>10, <1>11, <1>12, <1>13 DEF Level

\* A stub gives up connecting.
LEMMA CannotOpenLevel ==
  ASSUME IInv, Level, NEW t \in Thread, CannotOpen(t)
  PROVE  Level'
  <1>l. ClientInv
    BY DEF IInv
  <1>1. /\ In(cstk[t], "begin") /\ pipe = 0 /\ Becomes(t, Tail(cstk[t]))
        /\ UNCHANGED <<pipe, link, c2s, s2c, svars, ghosts>>
    BY DEF CannotOpen
  <1>2. lock \in {None, t}
    BY <1>1, <1>l, ClientLocked
  <1>3. Stk = cstk[t] /\ Stk = <<Begin>>
    BY <1>1, <1>2, <1>l, StkOf DEF Level, In
  <1>4. Stk' = <<>>
    <2>1. Tail(<<Begin>>) = <<>>
      OBVIOUS
    <2>2. Stk' = Tail(cstk[t])
      BY <1>1, <1>2, <1>l, StkBecomes
    <2>3. QED
      BY <1>3, <2>1, <2>2
  <1>5. Prepares(<<>>)
    BY DEF Prepares
  <1>6. /\ pipe' = 0 /\ c2s' = c2s /\ sstk' = sstk /\ conn' = conn
        /\ outOfStep' = outOfStep /\ crossed' = crossed
    BY <1>1 DEF svars, ghosts
  <1>7. \A u \in Server : conn'[u] # 0 /\ conn'[u] # pipe' =>
          sstk'[u] = <<>> /\ c2s'[conn'[u]] = <<>>
    BY <1>1, <1>6 DEF Level
  <1>8. QED
    BY <1>4, <1>5, <1>6, <1>7 DEF Level

\* A connection that is put down when the last handle goes has nothing under way, and its
\* server is inside nothing.
LEMMA LastHandleReleasedLevel ==
  ASSUME IInv, Level, LastHandleReleased
  PROVE  Level'
  <1>l. ClientInv
    BY DEF IInv
  <1>1. lock = None /\ pipe # 0 /\ pipe' = 0 /\ UNCHANGED <<lock, cstk, c2s, s2c, svars, ghosts>>
    BY DEF LastHandleReleased, Disconnect
  <1>2. Stk = <<>> /\ Stk' = <<>>
    BY <1>1 DEF Stk
  <1>3. Talking /\ Inner(<<>>) = <<>>
    BY <1>2, <1>l, StkIs, InnerIdle DEF In
  <1>4. ASSUME NEW s \in Server, conn[s] = pipe
        PROVE  c2s[pipe] = <<>> /\ sstk[s] = <<>>
    <2>1. c2s[pipe] = <<>> /\ Mirrors(<<>>, sstk[s])
      BY <1>1, <1>2, <1>3, <1>4, LevelTalking
    <2>2. sstk[s] \in Seq(ServerFrames)
      BY DEF IInv, ServInv, ServerStacks
    <2>3. <<>> \in Seq(ClientFrames)
      OBVIOUS
    <2>4. QED
      BY <2>1, <2>2, <2>3, MirrorPop
  <1>5. /\ c2s' = c2s /\ sstk' = sstk /\ conn' = conn
        /\ outOfStep' = outOfStep /\ crossed' = crossed
    BY <1>1 DEF svars, ghosts
  <1>6. \A u \in Server : conn'[u] # 0 /\ conn'[u] # pipe' =>
          sstk'[u] = <<>> /\ c2s'[conn'[u]] = <<>>
    BY <1>4, <1>5 DEF Level
  <1>7. Prepares(<<>>)
    BY DEF Prepares
  <1>8. QED
    BY <1>1, <1>2, <1>5, <1>6, <1>7 DEF Level

\* A step that is no failure keeps the two ends level.
LEMMA NextLevel ==
  ASSUME IInv, PairInv, [Next]_vars
  PROVE  PairInv'
  <1>1. faults \in Nat
    BY DEF PairInv
  <1>3. ASSUME faults' = faults, Level => Level' PROVE PairInv'
    BY <1>3 DEF PairInv
  <1>4. ASSUME faults' = faults + 1 PROVE PairInv'
    BY <1>1, <1>4 DEF PairInv
  <1>5. ASSUME NEW t \in Thread, Call(t) \/ CannotOpen(t) \/ Invoke(t) \/ TakeCallback(t) \/ Answer(t)
        PROVE  PairInv'
    <2>1. faults' = faults
      BY <1>5 DEF Call, CannotOpen, Invoke, TakeCallback, Answer, ghosts
    <2>2. QED
      BY <1>3, <1>5, <2>1, CallLevel, CannotOpenLevel, InvokeLevel, TakeCallbackLevel, AnswerLevel
  <1>6. ASSUME NEW t \in Thread, NEW s \in Server, Open(t, s) PROVE PairInv'
    <2>1. faults' = faults
      BY <1>6 DEF Open, ghosts
    <2>2. QED
      BY <1>3, <1>6, <2>1, OpenLevel
  <1>7. ASSUME NEW t \in Thread, TakeReply(t) PROVE PairInv'
    <2>1. faults' = faults
      BY <1>7 DEF TakeReply
    <2>2. QED
      BY <1>3, <1>7, <2>1, TakeReplyLevel
  <1>8. ASSUME NEW t \in Thread, ReadFails(t) PROVE PairInv'
    <2>1. faults' = faults /\ In(cstk[t], "call") /\ ~Up(pipe)
      BY <1>8 DEF ReadFails, ghosts
    <2>2. ~Level
      BY <2>1, LevelCalling
    <2>3. QED
      BY <1>3, <2>1, <2>2
  <1>9. ASSUME NEW t \in Thread, ClientFault(t) PROVE PairInv'
    BY <1>4, <1>9 DEF ClientFault, RequestNotBuilt, StyleRefused, AnswerNotBuilt
  <1>10. CASE LastHandleReleased
    <2>1. faults' = faults
      BY <1>10 DEF LastHandleReleased, ghosts
    <2>2. QED
      BY <1>3, <1>10, <2>1, LastHandleReleasedLevel
  <1>11. ASSUME NEW s \in Server, TakeRequest(s) \/ ServerReadFails(s) \/ Reply(s) \/ RaiseCallback(s)
         PROVE  PairInv'
    <2>1. faults' = faults
      BY <1>11 DEF TakeRequest, ServerReadFails, Reply, RaiseCallback, ghosts
    <2>2. QED
      BY <1>3, <1>11, <2>1, TakeRequestLevel, ServerReadFailsLevel, ReplyLevel, RaiseCallbackLevel
  <1>12. ASSUME NEW s \in Server, TakeAnswer(s) PROVE PairInv'
    <2>1. faults' = faults
      BY <1>12 DEF TakeAnswer
    <2>2. QED
      BY <1>3, <1>12, <2>1, TakeAnswerLevel
  <1>13. ASSUME NEW s \in Server, OtherClient(s) PROVE PairInv'
    <2>1. faults' = faults /\ UNCHANGED <<cvars, link, c2s, s2c, conn, sstk, outOfStep, crossed>>
      BY <1>13 DEF OtherClient, ghosts
    <2>2. QED
      BY <1>3, <2>1, LevelSame
  <1>14. ASSUME NEW s \in Server, ReplyNotBuilt(s) \/ Die(s) PROVE PairInv'
    BY <1>4, <1>14 DEF ReplyNotBuilt, Die
  <1>15. ASSUME NEW k \in Conns, Break(k) PROVE PairInv'
    BY <1>4, <1>15 DEF Break
  <1>16. CASE UNCHANGED vars
    <2>1. faults' = faults /\ UNCHANGED <<cvars, link, c2s, s2c, conn, sstk, outOfStep, crossed>>
      BY <1>16 DEF vars, svars, ghosts
    <2>2. QED
      BY <1>3, <2>1, LevelSame
  <1>17. QED
    BY <1>5, <1>6, <1>7, <1>8, <1>9, <1>10, <1>11, <1>12, <1>13, <1>14, <1>15, <1>16
       DEF Next, ClientStep, ServerStep

\* Both sides are at rest at first.
LEMMA InitLevel == Init => PairInv
  <1> SUFFICES ASSUME Init PROVE PairInv
    OBVIOUS
  <1>1. Stk = <<>> /\ pipe = 0 /\ faults = 0 /\ ~outOfStep /\ ~crossed
    BY DEF Init, Stk
  <1>2. \A s \in Server : conn[s] = 0
    BY DEF Init
  <1>3. Prepares(<<>>)
    BY DEF Prepares
  <1>4. QED
    BY <1>1, <1>2, <1>3 DEF PairInv, Level

\* "The nesting is strict": as long as nothing has failed the two stacks mirror each other
\* frame for frame, so every reply and every answer is the one waited for (arpc_invoke's
\* check of the request id, arpc_cb_send's of cbseq), however deep calls and callbacks nest.
THEOREM FramesInStep == Spec => []InStep
  <1>1. PairInv => InStep
    BY DEF PairInv, Level, InStep
  <1>2. IInv /\ PairInv /\ [Next]_vars => PairInv'
    BY NextLevel
  <1>3. QED
    BY <1>1, <1>2, InitLevel, ProtocolInvariant, PTL DEF Spec

\* As long as nothing has failed no question takes another one's answer.
THEOREM AnswersInStep == Spec => [](faults = 0 => AnswersMatch)
  <1>1. PairInv => (faults = 0 => AnswersMatch)
    BY DEF PairInv, Level, AnswersMatch
  <1>2. IInv /\ PairInv /\ [Next]_vars => PairInv'
    BY NextLevel
  <1>3. QED
    BY <1>1, <1>2, InitLevel, ProtocolInvariant, PTL DEF Spec

=============================================================================
