----------------------------- MODULE Connection -----------------------------
(***************************************************************************)
(* The call protocol: the client's call cycle (arpc_begin, arpc_invoke,     *)
(* transact), the server's frame loops (serve_connection,                  *)
(* arpc_conn_exchange), and the callbacks and nested calls in between.     *)
(*                                                                         *)
(* Both ends are stacks of C frames.  On the client a thread is preparing a *)
(* request ("begin"), waiting in transact ("call") or running a caller's    *)
(* callback ("cb"); on the server libalpm is serving a request ("req") or   *)
(* waits in arpc_conn_exchange ("cb").  Connections are numbered; a frame   *)
(* is one message, since the framing of arpc_wire.c keeps them whole.       *)
(***************************************************************************)
EXTENDS Naturals, Sequences, FiniteSets

CONSTANTS
  Thread,         \* threads of the client process
  Server,         \* server processes that may listen
  Style,          \* the path style the DLL is built for: "win32" or "posix"
  AllocFails,     \* whether building a reply may run out of memory
  MaxId,          \* bound: requests numbered
  MaxConn,        \* bound: connections made
  MaxCb,          \* bound: callbacks raised by one server
  MaxFaults       \* bound: broken pipes, dead servers, failed allocations

ASSUME StyleAssumption == Style \in {"win32", "posix"}

ASSUME FaultAssumption == AllocFails \in BOOLEAN /\ MaxFaults \in Nat

ASSUME BoundAssumption == MaxId \in Nat /\ MaxConn \in Nat /\ MaxCb \in Nat

VARIABLES
  lock,           \* g_lock's owner
  cstk,           \* thread -> its frames, innermost first
  pipe,           \* g_pipe: the number of the connection, 0 for none
  next_id,        \* g_next_id
  link,           \* connection -> "unused", "up" or "down"
  c2s, s2c,       \* connection -> frames under way
  conn,           \* server -> the connection it serves, 0 while it listens
  sstk,           \* server -> its frames
  seq,            \* server -> g_seq
  style,          \* server -> the path style in force
  out, run,       \* ghost: the fate of each request (see RemoteCall)
  faults,         \* ghost: failures so far
  outOfStep,      \* ghost: a frame arrived that was not the one waited for
  crossed         \* ghost: a question took another one's answer

cvars == <<lock, cstk, pipe, next_id>>
svars == <<conn, sstk, seq, style>>
ghosts == <<faults, outOfStep, crossed>>
vars == <<cvars, link, c2s, s2c, svars, out, run, ghosts>>

Abstract == INSTANCE RemoteCall

-----------------------------------------------------------------------------
None == "none"

ASSUME ThreadAssumption == None \notin Thread

Conns == 1 .. MaxConn

Frame(k, id, from) == [k |-> k, id |-> id, from |-> from]
Begin == Frame("begin", 0, 0)

\* On the wire; a callback's answer carries its question's number.  `from` names
\* the connection of a question: the code does not send it.
Message(k, id, from) == [k |-> k, id |-> id, from |-> from]
IsRequest(m) == m.k \in {"alpm", "style"}

Busy(stk) == stk # <<>>
In(stk, k) == stk # <<>> /\ Head(stk).k = k

\* Is the server inside libalpm, as opposed to waiting for a frame?
Running(s) == In(sstk[s], "alpm") \/ In(sstk[s], "style")
Waiting(s) == conn[s] # 0 /\ ~Running(s)

Up(k) == k # 0 /\ link[k] = "up"

\* The client's pipe ends are put down; the number is not used again.
Disconnect ==
  /\ pipe' = 0
  /\ link' = IF pipe = 0 THEN link ELSE [link EXCEPT ![pipe] = "down"]

\* A stub returns: the lock goes with the outermost one.
Becomes(t, stk) ==
  /\ cstk' = [cstk EXCEPT ![t] = stk]
  /\ lock' = IF stk = <<>> THEN None ELSE t

\* The frames left when the innermost call fails.  If it was telling the path
\* style, the call that needed the connection fails with it.
Failed(stk) ==
  LET below == Tail(stk)
  IN  IF In(below, "begin") THEN Tail(below) ELSE below

Send(chan, k, m) == [chan EXCEPT ![k] = Append(@, m)]
Received(chan, k) == [chan EXCEPT ![k] = Tail(@)]

-----------------------------------------------------------------------------
Init ==
  /\ lock = None
  /\ cstk = [t \in Thread |-> <<>>]
  /\ pipe = 0
  /\ next_id = 1
  /\ link = [k \in Conns |-> "unused"]
  /\ c2s = [k \in Conns |-> <<>>]
  /\ s2c = [k \in Conns |-> <<>>]
  /\ conn = [s \in Server |-> 0]
  /\ sstk = [s \in Server |-> <<>>]
  /\ seq = [s \in Server |-> 1]
  /\ style = [s \in Server |-> "posix"]
  /\ Abstract!Init
  /\ faults = 0 /\ outOfStep = FALSE /\ crossed = FALSE

(* The client.                                                             *)

\* A stub is called: by a thread that gets the lock, or, since the lock is
\* recursive, by the callback its owner is running.
Call(t) ==
  /\ lock \in {None, t}
  /\ Busy(cstk[t]) => In(cstk[t], "cb")
  /\ next_id < MaxId
  /\ Becomes(t, <<Begin>> \o cstk[t])
  /\ UNCHANGED <<pipe, next_id, link, c2s, s2c, svars, out, run, ghosts>>

\* Mutant: the style is told on the first connection of the process only.
TellsStyleOnce == Style = "win32" /\ next_id = 1

\* set_path_style: a POSIX-path DLL has nothing to say.
TellsStyle == Style = "win32"

\* serve_connection starts with the server's own style.
Greeted(s) == [style EXCEPT ![s] = "posix"]

\* ensure_connected finds a server listening, or starts one; a Win32-path DLL
\* then tells it the path style, a call of its own.
Open(t, s) ==
  LET k == Cardinality({j \in Conns : link[j] # "unused"}) + 1
  IN  /\ In(cstk[t], "begin") /\ pipe = 0
      /\ conn[s] = 0 /\ k \in Conns
      /\ link' = [link EXCEPT ![k] = "up"]
      /\ conn' = [conn EXCEPT ![s] = k]
      /\ style' = Greeted(s)
      /\ pipe' = k
      /\ IF TellsStyle
         THEN /\ next_id <= MaxId
              /\ next_id' = next_id + 1
              /\ Becomes(t, <<Frame("call", next_id, 0)>> \o cstk[t])
              /\ c2s' = Send(c2s, k, Message("style", next_id, 0))
              /\ out' = [out EXCEPT ![next_id] = "open"]
         ELSE UNCHANGED <<lock, cstk, next_id, c2s, out>>
      /\ UNCHANGED <<s2c, sstk, seq, run, ghosts>>

\* No server within ten seconds: the call fails before it has a number.
CannotOpen(t) ==
  /\ In(cstk[t], "begin") /\ pipe = 0
  /\ Becomes(t, Tail(cstk[t]))
  /\ UNCHANGED <<pipe, next_id, link, c2s, s2c, svars, out, run, ghosts>>

\* arpc_invoke sends the request, or finds the pipe broken.
Invoke(t) ==
  /\ In(cstk[t], "begin") /\ pipe # 0
  /\ next_id <= MaxId
  /\ next_id' = next_id + 1
  /\ IF Up(pipe)
     THEN /\ Becomes(t, <<Frame("call", next_id, 0)>> \o Tail(cstk[t]))
          /\ c2s' = Send(c2s, pipe, Message("alpm", next_id, 0))
          /\ out' = [out EXCEPT ![next_id] = "open"]
          /\ UNCHANGED <<pipe, link>>
     ELSE /\ Becomes(t, Tail(cstk[t]))
          /\ out' = [out EXCEPT ![next_id] = "failed"]
          /\ Disconnect
          /\ UNCHANGED c2s
  /\ UNCHANGED <<s2c, svars, run, ghosts>>

\* There was no memory to build the request: its number is used up, and the connection stays.
RequestNotBuilt(t) ==
  /\ AllocFails /\ faults < MaxFaults
  /\ In(cstk[t], "begin") /\ pipe # 0
  /\ next_id <= MaxId
  /\ next_id' = next_id + 1
  /\ Becomes(t, Tail(cstk[t]))
  /\ out' = [out EXCEPT ![next_id] = "failed"]
  /\ faults' = faults + 1
  /\ UNCHANGED <<pipe, link, c2s, s2c, svars, run, outOfStep, crossed>>

\* Mutant: whatever is not a callback is the reply.
InStepAlways(id, m) == TRUE

\* arpc_invoke: "unless the pipe is a frame out of step".
IsReplyTo(id, m) == m.id = id

\* transact reads a frame that is no callback: the reply it waits for, or one
\* out of step, which ends the connection.
TakeReply(t) ==
  LET m  == Head(s2c[pipe])
      id == Head(cstk[t]).id
  IN  /\ In(cstk[t], "call") /\ pipe # 0
      /\ s2c[pipe] # <<>> /\ m.k = "reply"
      /\ s2c' = Received(s2c, pipe)
      /\ IF IsReplyTo(id, m)
         THEN /\ Becomes(t, Tail(cstk[t]))
              /\ out' = [out EXCEPT ![id] = "ok"]
              /\ UNCHANGED <<pipe, link, outOfStep>>
         ELSE /\ Becomes(t, Failed(cstk[t]))
              /\ out' = [out EXCEPT ![id] = "failed"]
              /\ outOfStep' = TRUE
              /\ Disconnect
      /\ UNCHANGED <<next_id, c2s, svars, run, faults, crossed>>

\* The reply to set_path_style is an error: the client disconnects, and the call that
\* needed the connection fails.  (To any other call an error reply is a reply.)
StyleRefused(t) ==
  LET m  == Head(s2c[pipe])
      id == Head(cstk[t]).id
  IN  /\ faults < MaxFaults
      /\ In(cstk[t], "call") /\ In(Tail(cstk[t]), "begin") /\ pipe # 0
      /\ s2c[pipe] # <<>> /\ m.k = "reply" /\ IsReplyTo(id, m)
      /\ s2c' = Received(s2c, pipe)
      /\ Becomes(t, Failed(cstk[t]))
      /\ out' = [out EXCEPT ![id] = "failed"]
      /\ Disconnect
      /\ faults' = faults + 1
      /\ UNCHANGED <<next_id, c2s, svars, run, outOfStep, crossed>>

\* transact reads a callback: arpc_dispatch_callback calls the caller's function.
TakeCallback(t) ==
  LET m == Head(s2c[pipe])
  IN  /\ In(cstk[t], "call") /\ pipe # 0
      /\ s2c[pipe] # <<>> /\ m.k = "cb"
      /\ s2c' = Received(s2c, pipe)
      /\ Becomes(t, <<Frame("cb", m.id, m.from)>> \o cstk[t])
      /\ UNCHANGED <<pipe, next_id, link, c2s, svars, out, run, ghosts>>

\* Mutant: a read that fails is tried again.
ReadFailsAgain(t) ==
  /\ In(cstk[t], "call") /\ ~Up(pipe)
  /\ UNCHANGED vars

\* recv_frame fails: the pipe is broken, or the connection went while the
\* callback ran.
ReadFails(t) ==
  /\ In(cstk[t], "call") /\ ~Up(pipe)
  /\ Becomes(t, Failed(cstk[t]))
  /\ out' = [out EXCEPT ![Head(cstk[t]).id] = "failed"]
  /\ Disconnect
  /\ UNCHANGED <<next_id, c2s, s2c, svars, run, ghosts>>

\* The callback returns and its answer is sent -- on the connection there is
\* now, which is another one if a nested call had to connect again.
Answer(t) ==
  LET f == Head(cstk[t])
  IN  /\ In(cstk[t], "cb")
      /\ IF Up(pipe)
         THEN /\ Becomes(t, Tail(cstk[t]))
              /\ c2s' = Send(c2s, pipe, Message("answer", f.id, f.from))
              /\ UNCHANGED <<pipe, link, out>>
         ELSE /\ Becomes(t, Failed(Tail(cstk[t])))
              /\ out' = [out EXCEPT ![Head(Tail(cstk[t])).id] = "failed"]
              /\ Disconnect
              /\ UNCHANGED c2s
      /\ UNCHANGED <<next_id, s2c, svars, run, ghosts>>

\* The answer could not be built: transact gives up and leaves the connection.
AnswerNotBuilt(t) ==
  /\ AllocFails /\ faults < MaxFaults
  /\ In(cstk[t], "cb")
  /\ Becomes(t, Failed(Tail(cstk[t])))
  /\ out' = [out EXCEPT ![Head(Tail(cstk[t])).id] = "failed"]
  /\ faults' = faults + 1
  /\ UNCHANGED <<pipe, next_id, link, c2s, s2c, svars, run, outOfStep, crossed>>

\* arpc_conn_unref: the last libalpm handle is gone.
LastHandleReleased ==
  /\ lock = None /\ pipe # 0
  /\ Disconnect
  /\ UNCHANGED <<lock, cstk, next_id, c2s, s2c, svars, out, run, ghosts>>

-----------------------------------------------------------------------------
(* The server.                                                             *)

Serves(s, stk) == sstk' = [sstk EXCEPT ![s] = stk]

\* serve_connection is left and main closes the pipe.
Leaves(s) ==
  /\ conn' = [conn EXCEPT ![s] = 0]
  /\ link' = [link EXCEPT ![conn[s]] = "down"]

\* The frames a server is left with when it cannot read or write: the innermost
\* arpc_conn_exchange returns 0 and libalpm gets the default answer; with none
\* open, the connection is over.
GivesUp(s, stk) ==
  IF stk = <<>>
  THEN Serves(s, <<>>) /\ Leaves(s)
  ELSE Serves(s, Tail(stk)) /\ UNCHANGED <<conn, link>>

\* Mutant: inside a callback the next frame is the answer, whatever it is.
TakeRequestTopOnly(s) ==
  LET k == conn[s]
      m == Head(c2s[k])
  IN  /\ Waiting(s) /\ c2s[k] # <<>> /\ IsRequest(m)
      /\ c2s' = Received(c2s, k)
      /\ IF Busy(sstk[s])
         THEN Serves(s, Tail(sstk[s])) /\ UNCHANGED run
         ELSE /\ Serves(s, <<Frame(m.k, m.id, 0)>> \o sstk[s])
              /\ run' = [run EXCEPT ![m.id] = "running"]
      /\ UNCHANGED <<cvars, link, s2c, conn, seq, style, out, ghosts>>

\* serve_connection and arpc_conn_exchange alike: a frame with a method is a
\* request, and is served.
TakeRequest(s) ==
  LET k == conn[s]
      m == Head(c2s[k])
  IN  /\ Waiting(s) /\ c2s[k] # <<>> /\ IsRequest(m)
      /\ c2s' = Received(c2s, k)
      /\ Serves(s, <<Frame(m.k, m.id, 0)>> \o sstk[s])
      /\ run' = [run EXCEPT ![m.id] = "running"]
      /\ UNCHANGED <<cvars, link, s2c, conn, seq, style, out, ghosts>>

\* libalpm calls a trampoline: the question is sent, or, with the pipe broken,
\* answered by its default.
RaiseCallback(s) ==
  LET k == conn[s]
  IN  /\ In(sstk[s], "alpm") /\ seq[s] <= MaxCb
      /\ seq' = [seq EXCEPT ![s] = @ + 1]
      /\ IF Up(k)
         THEN /\ Serves(s, <<Frame("cb", seq[s], k)>> \o sstk[s])
              /\ s2c' = Send(s2c, k, Message("cb", seq[s], k))
         ELSE UNCHANGED <<sstk, s2c>>
      /\ UNCHANGED <<cvars, link, c2s, conn, style, out, run, ghosts>>

\* Mutant: any answer will do.
AnswersAny(m, q) == TRUE

\* arpc_cb_send: "the answer is matched to the question".
Answers(m, q) == m.id = q.id

\* Mutant: a frame without a method is dropped silently.
MisplacedAnswerDropped(s) == UNCHANGED <<s2c, sstk, conn, link>>

\* A frame without a method outside of any callback: an error reply to request
\* 0 (arpc_handle_parsed).
MisplacedAnswer(s) ==
  IF Up(conn[s])
  THEN /\ s2c' = Send(s2c, conn[s], Message("reply", 0, 0))
       /\ UNCHANGED <<sstk, conn, link>>
  ELSE GivesUp(s, <<>>) /\ UNCHANGED s2c

\* A frame that is no request: in arpc_conn_exchange the answer, if it is to
\* this question.
TakeAnswer(s) ==
  LET k == conn[s]
      m == Head(c2s[k])
      q == Head(sstk[s])
  IN  /\ Waiting(s) /\ c2s[k] # <<>> /\ m.k = "answer"
      /\ c2s' = Received(c2s, k)
      /\ IF Busy(sstk[s])
         THEN /\ Serves(s, Tail(sstk[s]))
              /\ outOfStep' = (outOfStep \/ ~Answers(m, q))
              /\ crossed' = (crossed \/ (Answers(m, q)
                                         /\ <<m.id, m.from>> # <<q.id, q.from>>))
              /\ UNCHANGED <<s2c, conn, link>>
         ELSE /\ MisplacedAnswer(s)
              /\ outOfStep' = TRUE
              /\ UNCHANGED crossed
      /\ UNCHANGED <<cvars, seq, style, out, run, faults>>

\* Mutant: a read that fails is tried again.
ServerReadFailsAgain(s) ==
  /\ Waiting(s) /\ ~Up(conn[s])
  /\ UNCHANGED vars

\* recv_framed fails.
ServerReadFails(s) ==
  /\ Waiting(s) /\ ~Up(conn[s])
  /\ GivesUp(s, sstk[s])
  /\ UNCHANGED <<cvars, c2s, s2c, seq, style, out, run, ghosts>>

\* What the handler of a request has done by its end.
Carried(s, f) ==
  /\ run' = [run EXCEPT ![f.id] = "finished"]
  /\ style' = [style EXCEPT ![s] = IF f.k = "style" THEN "win32" ELSE @]

\* A handler is done and its reply is sent.
Reply(s) ==
  LET f    == Head(sstk[s])
      rest == Tail(sstk[s])
      k    == conn[s]
  IN  /\ Running(s)
      /\ Carried(s, f)
      /\ IF Up(k)
         THEN /\ s2c' = Send(s2c, k, Message("reply", f.id, 0))
              /\ Serves(s, rest)
              /\ UNCHANGED <<conn, link>>
         ELSE GivesUp(s, rest) /\ UNCHANGED s2c
      /\ UNCHANGED <<cvars, c2s, seq, out, ghosts>>

\* No reply could be built, not even an error: the frame loop is left.
ReplyNotBuilt(s) ==
  /\ AllocFails /\ faults < MaxFaults
  /\ Running(s)
  /\ Carried(s, Head(sstk[s]))
  /\ GivesUp(s, Tail(sstk[s]))
  /\ faults' = faults + 1
  /\ UNCHANGED <<cvars, c2s, s2c, seq, out, outOfStep, crossed>>

\* A server that listens may have served a client of the other build meanwhile.
OtherClient(s) ==
  /\ conn[s] = 0 /\ style[s] = "posix"
  /\ style' = [style EXCEPT ![s] = "win32"]
  /\ UNCHANGED <<cvars, link, c2s, s2c, conn, sstk, seq, out, run, ghosts>>

-----------------------------------------------------------------------------
(* The environment.                                                        *)

Break(k) ==
  /\ faults < MaxFaults /\ link[k] = "up"
  /\ link' = [link EXCEPT ![k] = "down"]
  /\ faults' = faults + 1
  /\ UNCHANGED <<cvars, c2s, s2c, svars, out, run, outOfStep, crossed>>

\* A server process dies; another one may be started in its place.
Die(s) ==
  /\ faults < MaxFaults /\ conn[s] # 0
  /\ link' = [link EXCEPT ![conn[s]] = "down"]
  /\ conn' = [conn EXCEPT ![s] = 0]
  /\ Serves(s, <<>>)
  /\ seq' = [seq EXCEPT ![s] = 1]
  /\ style' = [style EXCEPT ![s] = "posix"]
  /\ faults' = faults + 1
  /\ UNCHANGED <<cvars, c2s, s2c, out, run, outOfStep, crossed>>

ClientStep(t) ==
  \/ \E s \in Server : Open(t, s)
  \/ CannotOpen(t)
  \/ Invoke(t)
  \/ TakeReply(t)
  \/ TakeCallback(t)
  \/ ReadFails(t)
  \/ Answer(t)

ClientFault(t) == RequestNotBuilt(t) \/ StyleRefused(t) \/ AnswerNotBuilt(t)

ServerStep(s) ==
  \/ TakeRequest(s)
  \/ TakeAnswer(s)
  \/ ServerReadFails(s)
  \/ Reply(s)

Next ==
  \/ \E t \in Thread : Call(t) \/ ClientStep(t) \/ ClientFault(t)
  \/ LastHandleReleased
  \/ \E s \in Server : \/ ServerStep(s) \/ RaiseCallback(s) \/ ReplyNotBuilt(s)
                       \/ OtherClient(s) \/ Die(s)
  \/ \E k \in Conns : Break(k)

Spec == Init /\ [][Next]_vars

\* Threads and processes are scheduled and libalpm gets to the end of a call; a
\* callback may make calls of its own but returns in the end.  Nobody has to make
\* a call.
Fairness ==
  /\ \A t \in Thread : WF_vars(ClientStep(t)) /\ SF_vars(Answer(t))
  /\ \A s \in Server : WF_vars(ServerStep(s))

FairSpec == Spec /\ Fairness

-----------------------------------------------------------------------------
(* Properties.                                                             *)

\* The frames of each end's stack, and the messages each end writes.
FramesOf(kinds) == [k : kinds, id : Nat, from : Nat]
ClientFrames == FramesOf({"begin", "call", "cb"})
ServerFrames == FramesOf({"alpm", "style", "cb"})
ToServer == FramesOf({"alpm", "style", "answer"})
ToClient == FramesOf({"reply", "cb"})

\* Frames on the wire and on the stacks are of the kinds the two loops know.
TypeOK ==
  /\ lock \in Thread \cup {None}
  /\ cstk \in [Thread -> Seq(ClientFrames)]
  /\ pipe \in 0 .. MaxConn
  /\ next_id \in 1 .. MaxId + 1
  /\ link \in [Conns -> {"unused", "up", "down"}]
  /\ c2s \in [Conns -> Seq(ToServer)] /\ s2c \in [Conns -> Seq(ToClient)]
  /\ conn \in [Server -> 0 .. MaxConn]
  /\ sstk \in [Server -> Seq(ServerFrames)]
  /\ seq \in [Server -> Nat] /\ style \in [Server -> {"win32", "posix"}]
  /\ out \in [1 .. MaxId -> {"none", "open", "ok", "failed"}]
  /\ run \in [1 .. MaxId -> {"no", "running", "finished"}]

\* Is it the client's turn to write to connection k?
ClientTurn(k) ==
  /\ pipe = k
  /\ lock # None => ~In(cstk[lock], "call")

\* "The exchange is strictly ordered" (arpc_client.c), "one exchange at a time"
\* (main.c): on a connection that is up there is one frame under way, or the
\* server is inside libalpm, or it is the client's turn -- exactly one of them,
\* whatever nests in what.  So nobody ever writes into a pipe nobody is about
\* to read, and the two ends never wait for each other.
OneTurn ==
  /\ TypeOK
  /\ \A k \in Conns : link[k] = "up" =>
       Len(c2s[k]) + Len(s2c[k])
         + Cardinality({s \in Server : conn[s] = k /\ Running(s)})
         + (IF ClientTurn(k) THEN 1 ELSE 0) = 1

\* "The nesting is strict" (main.c): as long as nothing has failed, every frame
\* an end reads is the one it waits for, so the checks of the request id and of
\* cbseq never find a difference.
InStep == faults = 0 => ~outOfStep

\* "Taking the number anyway would answer one question with another's reply"
\* (arpc_callbacks.c): libalpm is only given an answer to its own question, also
\* after a failure.  A second failure can bring two questions of the same number, on
\* two connections, together.
AnswersMatch == faults <= 1 => ~crossed

\* "It is told on every connect, before anything else" (arpc_client.c) and "until
\* this connection says otherwise" (main.c): libalpm serves a request under the
\* path style of the DLL that made it.
StyleInForce ==
  \A s \in Server : In(sstk[s], "alpm") => style[s] = Style

\* The protocol implements RemoteCall: a call is carried out at most once, its
\* result is its own, and calls return innermost first, through any nesting,
\* broken pipe and reconnection.
CallsAtMostOnce == Abstract!Spec

\* Every stub that is called returns, with a result or without: no thread waits
\* in transact for ever.
CallReturns == \A t \in Thread : lock = t ~> lock # t

\* "A dead pipe must not wedge libalpm mid-transaction" (arpc_callbacks.c): a
\* server whose connection is gone gets back to listening.
ServerFreed ==
  \A s \in Server : (conn[s] # 0 /\ ~Up(conn[s])) ~> conn[s] = 0

\* "An unknown callback is answered rather than ignored: the server is blocked
\* waiting, and a silent drop would deadlock the transaction"
\* (client arpc_callbacks.c): every callback the server raises comes to an end.
CallbackEnds == \A s \in Server : In(sstk[s], "cb") ~> ~In(sstk[s], "cb")

=============================================================================
