--------------------------- MODULE EndpointProofs ---------------------------
(***************************************************************************)
(* Proofs about how clients and servers find each other, for any number of *)
(* clients and of servers launched, of polls and tries, and of failures.   *)
(***************************************************************************)
EXTENDS Endpoint, TLAPS

-----------------------------------------------------------------------------
(* The inductive invariant.                                                *)

States == {"unused", "starting", "listening", "idle", "serving",
           "between", "exiting", "failed", "gone"}

\* A server that took a shutdown request serves its asker to the end and exits.
ServInv ==
  /\ srv \in [Server -> States]
  /\ end \in [Server -> Process \cup {Free, NoPipe}]
  /\ shut \in [Server -> BOOLEAN]
  /\ \A s \in Server :
       /\ end[s] # NoPipe <=> srv[s] \in {"listening", "idle", "serving"}
       /\ shut[s] => end[s] \in {Stopper, NoPipe} /\ srv[s] \in {"serving", "exiting", "gone"}

\* A client that holds an instance still has its server, unless its connection was cut; and
\* only a client without a call remembers how the last one failed.
HoldInv ==
  /\ at \in [Process -> 0 .. MaxServers]
  /\ cl \in [Client -> Opening \cup {"idle", "conn", "call"}]
  /\ last \in [Client -> {"none", "timeout", "refused", "nolaunch", "lost"}]
  /\ cut \subseteq Client
  /\ \A c \in Client :
       /\ cl[c] \in {"check", "conn", "call"} =>
            at[c] \in Server /\ (end[at[c]] = c \/ c \in cut)
       /\ cl[c] # "idle" => last[c] = "none"
       /\ last[c] \in {"lost", "refused"} => c \in cut

\* The server a polling client launched is not up, is free for it, or was taken.
LaunchInv ==
  /\ polls \in [Client -> 0 .. MaxPolls]
  /\ mine \in [Client -> 0 .. MaxServers]
  /\ taken \subseteq Server
  /\ \A c \in Client : mine[c] # 0 =>
       /\ mine[c] \in Server /\ cl[c] \in {"open", "check"}
       /\ srv[mine[c]] # "unused"
       /\ \/ srv[mine[c]] \in {"starting", "failed"} \/ mine[c] \in taken
          \/ srv[mine[c]] = "listening" /\ end[mine[c]] = Free
          \/ cl[c] = "check"
  /\ \A c, d \in Client : mine[c] # 0 /\ mine[c] = mine[d] => c = d

\* --stop has asked the server it is at, or waits for, and no other that is left but one
\* it had no handle to wait with.
StopInv ==
  /\ stop \in {"idle", "try", "check", "read", "wait", "clear", "stuck"}
  /\ tries \in 0 .. MaxTries /\ proc \in 0 .. MaxServers
  /\ stop \in {"idle", "try", "check", "read", "wait"} => tries < MaxTries
  /\ stop \in {"check", "read"} => at[Stopper] \in Server
  /\ blind \subseteq Server
  /\ \A s \in Server : end[s] = Stopper =>
       \/ stop \in {"check", "read"} /\ at[Stopper] = s
       \/ stop = "wait" /\ proc = s
       \/ stop = "stuck" \/ s \in blind
  /\ \A s \in Server : shut[s] =>
       \/ srv[s] = "gone" \/ stop = "stuck" \/ s \in blind
       \/ stop = "read" /\ at[Stopper] = s
       \/ stop = "wait" /\ proc = s

IInv == ServInv /\ HoldInv /\ LaunchInv /\ StopInv

-----------------------------------------------------------------------------
(* The parts of the invariant a step does not touch.                       *)

\* No server moves.
LEMMA ServSame ==
  ASSUME ServInv, UNCHANGED svars
  PROVE  ServInv'
  BY DEF ServInv, svars

\* Neither a server nor --stop moves.
LEMMA StopSame ==
  ASSUME StopInv, UNCHANGED <<svars, xvars, blind>>, at'[Stopper] = at[Stopper]
  PROVE  StopInv'
  BY DEF StopInv, svars, xvars

-----------------------------------------------------------------------------
(* The client.                                                             *)

\* Only clients are cut off.
LEMMA CutClients ==
  ASSUME IInv
  PROVE  cut \subseteq Client
  BY DEF IInv, HoldInv

\* A client that closes its end and goes idle, having lost the server only if it was cut off.
LEMMA IdlesKeeps ==
  ASSUME IInv, NEW c \in Client, Settles(c, "idle"), Closes(c), UNCHANGED <<svars, xvars, taken, blind>>,
         cut' \subseteq Client, cut \ {c} \subseteq cut',
         NEW why \in {"none", "timeout", "refused", "nolaunch", "lost"},
         why \in {"lost", "refused"} => c \in cut',
         last' = [last EXCEPT ![c] = why]
  PROVE  IInv'
  <1>l. ServInv /\ HoldInv /\ LaunchInv /\ StopInv
    BY DEF IInv
  <1>1. ServInv'
    BY <1>l, ServSame
  <1>2. HoldInv'
    <2>1. /\ cl' = [cl EXCEPT ![c] = "idle"] /\ at' = [at EXCEPT ![c] = 0]
          /\ end' = end
      BY DEF Settles, Closes, svars
    <2>2. last' \in [Client -> {"none", "timeout", "refused", "nolaunch", "lost"}]
          /\ (\A d \in Client : d # c => last'[d] = last[d])
          /\ (last'[c] \in {"lost", "refused"} => c \in cut')
      BY <1>l DEF HoldInv, ghosts
    <2>3. at' \in [Process -> 0 .. MaxServers] /\ \A d \in Client : d # c => at'[d] = at[d]
      BY <1>l, <2>1, EndpointAssumption DEF HoldInv, Process, ghosts
    <2>4. /\ cl' \in [Client -> Opening \cup {"idle", "conn", "call"}] /\ cl'[c] = "idle"
          /\ \A d \in Client : d # c => cl'[d] = cl[d]
      BY <1>l, <2>1 DEF HoldInv, ghosts
    <2>5. QED
      BY <1>l, <2>1, <2>2, <2>3, <2>4 DEF HoldInv, ghosts
  <1>3. LaunchInv'
    BY <1>l, EndpointAssumption DEF Settles, LaunchInv, HoldInv, svars, ghosts
  <1>4. StopInv'
    <2>1. at'[Stopper] = at[Stopper]
      BY <1>l, EndpointAssumption DEF Closes, HoldInv, Process, ghosts
    <2>2. QED
      BY <1>l, <2>1, StopSame DEF ghosts
  <1>5. QED
    BY <1>1, <1>2, <1>3, <1>4 DEF IInv

\* A client that has its connection, or its next request under way.
LEMMA SettlesKeeps ==
  ASSUME IInv, NEW c \in Client, NEW state \in {"conn", "call"}, Settles(c, state),
         cl[c] \in {"check", "conn"}, UNCHANGED <<svars, xvars, ghosts, at, last>>
  PROVE  IInv'
  <1>l. ServInv /\ HoldInv /\ LaunchInv /\ StopInv
    BY DEF IInv
  <1>1. ServInv'
    BY <1>l, ServSame
  <1>2. HoldInv'
    BY <1>l DEF Settles, HoldInv, svars, ghosts
  <1>3. LaunchInv'
    BY <1>l, EndpointAssumption DEF Settles, LaunchInv, HoldInv, svars, ghosts
  <1>4. StopInv'
    BY <1>l, StopSame DEF ghosts
  <1>5. QED
    BY <1>1, <1>2, <1>3, <1>4 DEF IInv

\* No pipe could be opened: the client polls on, or gives up.
LEMMA NothingFreeKeeps ==
  ASSUME IInv, NEW c \in Client, NothingFree(c)
  PROVE  IInv'
  <1>l. ServInv /\ HoldInv /\ LaunchInv /\ StopInv
    BY DEF IInv
  <1>1. CASE mine[c] # 0 /\ OutOfPolls(c)
    BY <1>1, IdlesKeeps, CutClients DEF NothingFree, Fails, ghosts
  <1>2. CASE mine[c] # 0 /\ ~OutOfPolls(c)
    <2>1. polls' = [polls EXCEPT ![c] = @ + 1] /\ UNCHANGED <<svars, xvars, cl, mine, last, at, ghosts>>
      BY <1>2 DEF NothingFree
    <2>2. ServInv' /\ StopInv'
      BY <1>l, <2>1, ServSame, StopSame DEF ghosts
    <2>3. HoldInv'
      BY <1>l, <2>1 DEF HoldInv, svars, ghosts
    <2>4. LaunchInv'
      BY <1>l, <1>2, <2>1, EndpointAssumption DEF LaunchInv, OutOfPolls, svars, ghosts
    <2>5. QED
      BY <2>2, <2>3, <2>4 DEF IInv
  <1>3. CASE mine[c] = 0
    <2>1. /\ cl' = [cl EXCEPT ![c] = "launch"] /\ cl[c] = "open"
          /\ UNCHANGED <<svars, xvars, polls, mine, last, at, ghosts>>
      BY <1>3 DEF NothingFree
    <2>2. ServInv' /\ StopInv'
      BY <1>l, <2>1, ServSame, StopSame DEF ghosts
    <2>3. HoldInv'
      BY <1>l, <2>1 DEF HoldInv, svars, Opening, ghosts
    <2>4. LaunchInv'
      BY <1>l, <1>3, <2>1 DEF LaunchInv, HoldInv, svars, ghosts
    <2>5. QED
      BY <2>2, <2>3, <2>4 DEF IInv
  <1>4. QED
    BY <1>1, <1>2, <1>3 DEF NothingFree

\* The peer check is refused only by a server that is gone, which has no instance left.
LEMMA PeerCheckKeeps ==
  ASSUME IInv, NEW c \in Client, PeerCheck(c)
  PROVE  IInv'
  <1>1. CASE Alive(at[c]) /\ Settles(c, "conn") /\ UNCHANGED <<at, last>>
    BY <1>1, SettlesKeeps DEF PeerCheck, ghosts
  <1>2. CASE ~Alive(at[c]) /\ Fails(c, "refused")
    <2>1. at[c] \in Server /\ (end[at[c]] = c \/ c \in cut)
      BY DEF PeerCheck, IInv, HoldInv, ghosts
    <2>2. end[at[c]] = NoPipe
      BY <1>2, <2>1 DEF IInv, ServInv, Alive
    <2>3. c \in cut
      BY <2>1, <2>2, ProcessAssumption DEF Process
    <2>4. QED
      BY <1>2, <2>3, IdlesKeeps, CutClients DEF PeerCheck, Fails, ghosts
  <1>3. QED
    BY <1>1, <1>2 DEF PeerCheck

\* The client sends its request.
LEMMA RequestKeeps ==
  ASSUME IInv, NEW c \in Client, Request(c)
  PROVE  IInv'
  <1>1. CASE Up(c) /\ Settles(c, "call") /\ UNCHANGED <<at, last>>
    BY <1>1, SettlesKeeps DEF Request, ghosts
  <1>2. CASE ~Up(c) /\ Fails(c, "lost")
    <2>1. at[c] \in Server /\ (end[at[c]] = c \/ c \in cut)
      BY DEF Request, IInv, HoldInv, ghosts
    <2>2. c \in cut
      BY <1>2, <2>1 DEF Up, Server
    <2>3. QED
      BY <1>2, <2>2, IdlesKeeps, CutClients DEF Request, Fails, ghosts
  <1>3. QED
    BY <1>1, <1>2 DEF Request

\* The pipe has gone under a client: it closes its end.
LEMMA CallFailsKeeps ==
  ASSUME IInv, NEW c \in Client, CallFails(c)
  PROVE  IInv'
  <1>1. at[c] \in Server /\ (end[at[c]] = c \/ c \in cut)
    BY DEF CallFails, IInv, HoldInv, ghosts
  <1>2. c \in cut
    BY <1>1 DEF CallFails, Up, Server
  <1>3. QED
    BY <1>2, IdlesKeeps, CutClients DEF CallFails, Fails, ghosts

\* A fault at the client's end cuts its connection.
LEMMA ClientFaultKeeps ==
  ASSUME IInv, NEW c \in Client, PeerUnknown(c) \/ FrameRefused(c)
  PROVE  IInv'
  <1>1. cut' = cut \cup {c} /\ UNCHANGED <<svars, xvars, taken, blind>>
    BY DEF PeerUnknown, FrameRefused, Cuts
  <1>2. cut' \subseteq Client /\ c \in cut'
    BY <1>1 DEF IInv, HoldInv
  <1>3. PICK why \in {"refused", "lost"} : Fails(c, why)
    BY DEF PeerUnknown, FrameRefused
  <1>4. QED
    BY <1>1, <1>2, <1>3, IdlesKeeps DEF Fails

\* The last handle is released, or the client process ends.
LEMMA LeaveKeeps ==
  ASSUME IInv, NEW c \in Client, Leave(c) \/ LaunchFails(c)
  PROVE  IInv'
  <1>0. cut \subseteq Client
    BY CutClients
  <1>1. CASE Leave(c)
    <2>1. last' = [last EXCEPT ![c] = "none"]
      BY <1>1 DEF Leave, IInv, HoldInv
    <2>2. Settles(c, "idle") /\ Closes(c) /\ cut' = cut \ {c}
          /\ UNCHANGED <<svars, xvars, taken, blind>>
      BY <1>1 DEF Leave
    <2>3. QED
      BY <1>0, <2>1, <2>2, IdlesKeeps
  <1>2. CASE LaunchFails(c)
    BY <1>0, <1>2, IdlesKeeps DEF LaunchFails, Fails, ghosts
  <1>3. QED
    BY <1>1, <1>2

\* The client starts a server that was not there.
LEMMA LaunchKeeps ==
  ASSUME IInv, NEW c \in Client, Launch(c)
  PROVE  IInv'
  <1> DEFINE s == CHOOSE u \in Unused : TRUE
  <1>l. ServInv /\ HoldInv /\ LaunchInv /\ StopInv
    BY DEF IInv
  <1>1. /\ cl[c] = "launch" /\ srv' = [srv EXCEPT ![s] = "starting"]
        /\ mine' = [mine EXCEPT ![c] = s] /\ polls' = [polls EXCEPT ![c] = 1]
        /\ cl' = [cl EXCEPT ![c] = "open"]
        /\ UNCHANGED <<end, shut, last, xvars, at, ghosts>>
    BY DEF Launch
  <1>2. s \in Server /\ srv[s] = "unused" /\ s \in 0 .. MaxServers /\ s # 0
    BY EndpointAssumption DEF Launch, Unused, Server
  <1> HIDE DEF s
  <1>3. ServInv'
    BY <1>l, <1>1, <1>2 DEF ServInv, States
  <1>4. HoldInv'
    BY <1>l, <1>1 DEF HoldInv, Opening, ghosts
  <1>5. LaunchInv'
    <2>1. \A d \in Client : mine[d] # s
      BY <1>l, <1>2 DEF LaunchInv, ghosts
    <2>2. mine[c] = 0
      BY <1>l, <1>1 DEF LaunchInv, ghosts
    <2>3. /\ polls' \in [Client -> 0 .. MaxPolls] /\ mine' \in [Client -> 0 .. MaxServers]
          /\ mine'[c] = s /\ cl'[c] = "open" /\ srv'[s] = "starting"
          /\ \A d \in Client : d # c => mine'[d] = mine[d] /\ cl'[d] = cl[d]
          /\ \A u \in Server : u # s => srv'[u] = srv[u]
      BY <1>l, <1>1, <1>2, EndpointAssumption DEF LaunchInv, HoldInv, ServInv, ghosts
    <2>4. QED
      BY <1>l, <1>1, <1>2, <2>1, <2>3 DEF LaunchInv, ghosts
  <1>6. StopInv'
    BY <1>l, <1>1, <1>2 DEF StopInv, ServInv, xvars, ghosts
  <1>7. QED
    BY <1>3, <1>4, <1>5, <1>6 DEF IInv

\* A client wants a connection.
LEMMA WantKeeps ==
  ASSUME IInv, NEW c \in Client, Want(c)
  PROVE  IInv'
  <1>l. ServInv /\ HoldInv /\ LaunchInv /\ StopInv
    BY DEF IInv
  <1>1. ServInv'
    BY <1>l, ServSame DEF Want
  <1>2. HoldInv'
    BY <1>l DEF Want, HoldInv, svars, xvars, Opening, ghosts
  <1>3. LaunchInv'
    BY <1>l DEF Want, LaunchInv, svars, xvars, ghosts
  <1>4. StopInv'
    BY <1>l, StopSame DEF Want, ghosts
  <1>5. QED
    BY <1>1, <1>2, <1>3, <1>4 DEF IInv

\* A client that opens a free instance takes it from nobody.
LEMMA TryOpenKeeps ==
  ASSUME IInv, NEW c \in Client, NEW s \in Server, TryOpen(c, s)
  PROVE  IInv'
  <1>l. ServInv /\ HoldInv /\ LaunchInv /\ StopInv
    BY DEF IInv
  <1>1. ServInv'
    BY <1>l, ProcessAssumption
       DEF TryOpen, Opens, FreeAt, ServInv, xvars, Process, NoPipe, Free
  <1>2. HoldInv'
    BY <1>l, ProcessAssumption
       DEF TryOpen, Opens, FreeAt, HoldInv, ServInv, xvars, Process, Server, Opening, ghosts
  <1>3. LaunchInv'
    BY <1>l DEF TryOpen, Opens, FreeAt, LaunchInv, HoldInv, xvars, ghosts
  <1>4. StopInv'
    BY <1>l, EndpointAssumption DEF TryOpen, Opens, FreeAt, StopInv, xvars, ghosts
  <1>5. QED
    BY <1>1, <1>2, <1>3, <1>4 DEF IInv

-----------------------------------------------------------------------------
(* The server.                                                             *)

\* A server creates its pipe.
LEMMA CreatePipeKeeps ==
  ASSUME IInv, NEW s \in Server, CreatePipe(s)
  PROVE  IInv'
  <1>l. ServInv /\ HoldInv /\ LaunchInv /\ StopInv
    BY DEF IInv
  <1>1. ServInv'
    BY <1>l DEF CreatePipe, ServInv, cvars, xvars, States, NoPipe, Free
  <1>2. HoldInv'
    <2>1. \A c \in Client : end[s] # c
      BY <1>l, ProcessAssumption DEF CreatePipe, ServInv, Process, NoPipe
    <2>2. \A u \in Server : u # s => end'[u] = end[u]
      BY <1>l DEF CreatePipe, ServInv
    <2>3. QED
      BY <1>l, <2>1, <2>2 DEF CreatePipe, HoldInv, cvars, ghosts
  <1>3. LaunchInv'
    BY <1>l DEF CreatePipe, LaunchInv, ServInv, cvars, xvars, ghosts
  <1>4. StopInv'
    BY <1>l, ProcessAssumption DEF CreatePipe, StopInv, cvars, xvars, Process, ghosts
  <1>5. QED
    BY <1>1, <1>2, <1>3, <1>4 DEF IInv

\* A launched server cannot start.
LEMMA StartFailsKeeps ==
  ASSUME IInv, NEW s \in Server, StartFails(s)
  PROVE  IInv'
  <1>l. ServInv /\ HoldInv /\ LaunchInv /\ StopInv
    BY DEF IInv
  <1>1. ServInv'
    BY <1>l DEF StartFails, ServInv, cvars, xvars, States
  <1>2. HoldInv'
    BY <1>l DEF StartFails, HoldInv, cvars, xvars, ghosts
  <1>3. LaunchInv'
    BY <1>l DEF StartFails, LaunchInv, cvars, xvars, ghosts
  <1>4. StopInv'
    BY <1>l DEF StartFails, StopInv, cvars, xvars, ghosts
  <1>5. QED
    BY <1>1, <1>2, <1>3, <1>4 DEF IInv

\* A client that is still there is not turned away.
LEMMA AcceptKeeps ==
  ASSUME IInv, NEW s \in Server, Accept(s)
  PROVE  IInv'
  <1>l. ServInv /\ HoldInv /\ LaunchInv /\ StopInv
    BY DEF IInv
  <1>1. ServInv'
    BY <1>l DEF Accept, Accepts, HasClient, ServInv, cvars, xvars, States
  <1>2. HoldInv'
    BY <1>l, EndpointAssumption DEF Accept, Accepts, HasClient, HoldInv, ServInv, cvars, xvars, ghosts
  <1>3. LaunchInv'
    BY <1>l, EndpointAssumption, ProcessAssumption
       DEF Accept, Accepts, HasClient, LaunchInv, HoldInv, ServInv, cvars, xvars, States, ghosts
  <1>4. StopInv'
    BY <1>l, EndpointAssumption, ProcessAssumption
       DEF Accept, Accepts, HasClient, StopInv, ServInv, cvars, xvars, Process, ghosts
  <1>5. QED
    BY <1>1, <1>2, <1>3, <1>4 DEF IInv

\* The server closes an instance with its client still there, and cuts it off.
LEMMA CutKeeps ==
  ASSUME IInv, NEW s \in Server, AcceptFails(s) \/ ServeFails(s)
  PROVE  IInv'
  <1>l. ServInv /\ HoldInv /\ LaunchInv /\ StopInv
    BY DEF IInv
  <1>1. PICK state \in {"between", "exiting"} :
          /\ srv[s] \in {"listening", "serving"} /\ srv' = [srv EXCEPT ![s] = state]
          /\ srv[s] = "serving" \/ ~shut[s]
          /\ shut[s] => state = "exiting"
          /\ HasClient(s) /\ end' = [end EXCEPT ![s] = NoPipe] /\ Cuts(end[s])
          /\ UNCHANGED <<shut, cvars, xvars, at>>
    BY <1>l DEF AcceptFails, ServeFails, NextAfter, ServInv
  <1>2. /\ \A u \in Server : u # s => srv'[u] = srv[u] /\ end'[u] = end[u]
        /\ srv'[s] = state /\ end'[s] = NoPipe
        /\ srv' \in [Server -> States] /\ end' \in [Server -> Process \cup {Free, NoPipe}]
    BY <1>l, <1>1 DEF ServInv, States
  <1>3. /\ cut' = cut \cup (Client \cap {end[s]}) /\ UNCHANGED <<taken, blind>>
        /\ end[s] \in Process /\ at[end[s]] = s /\ shut' = shut
    BY <1>1 DEF Cuts, HasClient
  <1>4. ServInv'
    BY <1>l, <1>1, <1>2, <1>3 DEF ServInv
  <1>5. HoldInv'
    BY <1>l, <1>1, <1>2, <1>3 DEF HoldInv, cvars
  <1>6. LaunchInv'
    BY <1>l, <1>1, <1>2, <1>3, ProcessAssumption DEF LaunchInv, cvars, Process
  <1>7. StopInv'
    BY <1>l, <1>1, <1>2, <1>3, ProcessAssumption DEF StopInv, ServInv, xvars, Process
  <1>8. QED
    BY <1>4, <1>5, <1>6, <1>7 DEF IInv

\* The idle timer spares the server a client is polling for.
LEMMA IdleFiresKeeps ==
  ASSUME IInv, NEW s \in Server, IdleFires(s)
  PROVE  IInv'
  <1>l. ServInv /\ HoldInv /\ LaunchInv /\ StopInv
    BY DEF IInv
  <1>1. ServInv'
    BY <1>l DEF IdleFires, ServInv, cvars, xvars, States
  <1>2. HoldInv'
    BY <1>l DEF IdleFires, HoldInv, cvars, xvars, ghosts
  <1>3. LaunchInv'
    BY <1>l DEF IdleFires, LaunchInv, cvars, xvars, Opening, ghosts
  <1>4. StopInv'
    BY <1>l DEF IdleFires, StopInv, cvars, xvars, ghosts
  <1>5. QED
    BY <1>1, <1>2, <1>3, <1>4 DEF IInv

\* The idle timer has fired, and the pipe closes with whoever is on it.
LEMMA IdleClosesKeeps ==
  ASSUME IInv, NEW s \in Server, IdleCloses(s)
  PROVE  IInv'
  <1>l. ServInv /\ HoldInv /\ LaunchInv /\ StopInv
    BY DEF IInv
  <1>1. ServInv'
    BY <1>l DEF IdleCloses, Cuts, ServInv, cvars, xvars, States
  <1>2. HoldInv'
    BY <1>l DEF IdleCloses, Cuts, HoldInv, cvars, xvars, Process, ghosts
  <1>3. LaunchInv'
    BY <1>l DEF IdleCloses, Cuts, LaunchInv, cvars, xvars, ghosts
  <1>4. StopInv'
    BY <1>l, EndpointAssumption, ProcessAssumption
       DEF IdleCloses, Cuts, StopInv, cvars, xvars, Process, ghosts
  <1>5. QED
    BY <1>1, <1>2, <1>3, <1>4 DEF IInv

\* A server serves a client's request.
LEMMA ServeKeeps ==
  ASSUME IInv, NEW s \in Server, Serve(s)
  PROVE  IInv'
  <1>l. ServInv /\ HoldInv /\ LaunchInv /\ StopInv
    BY DEF IInv
  <1>1. ServInv'
    BY <1>l, ServSame DEF Serve
  <1>2. HoldInv'
    BY <1>l DEF Serve, HasClient, HoldInv, svars, xvars, ghosts
  <1>3. LaunchInv'
    BY <1>l DEF Serve, HasClient, LaunchInv, svars, xvars, ghosts
  <1>4. StopInv'
    BY <1>l, StopSame DEF Serve, ghosts
  <1>5. QED
    BY <1>1, <1>2, <1>3, <1>4 DEF IInv

\* A server finds its client gone and waits for the next.
LEMMA ClientGoneKeeps ==
  ASSUME IInv, NEW s \in Server, ClientGone(s)
  PROVE  IInv'
  <1>l. ServInv /\ HoldInv /\ LaunchInv /\ StopInv
    BY DEF IInv
  <1>1. ServInv'
    BY <1>l DEF ClientGone, HasClient, NextAfter, ServInv, cvars, xvars, States
  <1>2. HoldInv'
    BY <1>l DEF ClientGone, HasClient, NextAfter, HoldInv, cvars, xvars, Process, ghosts
  <1>3. LaunchInv'
    BY <1>l DEF ClientGone, HasClient, NextAfter, LaunchInv, cvars, xvars, ghosts
  <1>4. StopInv'
    BY <1>l, ProcessAssumption
       DEF ClientGone, HasClient, NextAfter, StopInv, cvars, xvars, Process, ghosts
  <1>5. QED
    BY <1>1, <1>2, <1>3, <1>4 DEF IInv

\* A server that has no pipe exits.
LEMMA ExitKeeps ==
  ASSUME IInv, NEW s \in Server, Exit(s)
  PROVE  IInv'
  <1>l. ServInv /\ HoldInv /\ LaunchInv /\ StopInv
    BY DEF IInv
  <1>1. ServInv'
    BY <1>l DEF Exit, ServInv, cvars, xvars, States
  <1>2. HoldInv'
    BY <1>l DEF Exit, HoldInv, cvars, xvars, ghosts
  <1>3. LaunchInv'
    BY <1>l DEF Exit, LaunchInv, cvars, xvars, ghosts
  <1>4. StopInv'
    BY <1>l DEF Exit, StopInv, cvars, xvars, ghosts
  <1>5. QED
    BY <1>1, <1>2, <1>3, <1>4 DEF IInv

-----------------------------------------------------------------------------
(* --stop.                                                                 *)

\* --stop begins with no server asked.
LEMMA StopBeginsKeeps ==
  ASSUME IInv, StopBegins
  PROVE  IInv'
  <1>l. ServInv /\ HoldInv /\ LaunchInv /\ StopInv
    BY DEF IInv
  <1>1. ServInv'
    BY <1>l, ServSame DEF StopBegins
  <1>2. HoldInv'
    BY <1>l DEF StopBegins, HoldInv, svars, cvars, ghosts
  <1>3. LaunchInv'
    BY <1>l DEF StopBegins, LaunchInv, svars, cvars, ghosts
  <1>4. StopInv'
    BY <1>l DEF StopBegins, StopInv, svars, cvars, ghosts
  <1>5. QED
    BY <1>1, <1>2, <1>3, <1>4 DEF IInv

\* --stop opens a free pipe.
LEMMA StopOpensKeeps ==
  ASSUME IInv, NEW s \in Server, StopOpens(s)
  PROVE  IInv'
  <1>l. ServInv /\ HoldInv /\ LaunchInv /\ StopInv
    BY DEF IInv
  <1>1. ServInv'
    BY <1>l, ProcessAssumption
       DEF StopOpens, Opens, FreeAt, ServInv, cvars, Process, NoPipe, Free
  <1>2. HoldInv'
    BY <1>l, EndpointAssumption, ProcessAssumption
       DEF StopOpens, Opens, FreeAt, HoldInv, cvars, Process, Server, ghosts
  <1>3. LaunchInv'
    BY <1>l, EndpointAssumption DEF StopOpens, Opens, FreeAt, LaunchInv, cvars, ghosts
  <1>4. StopInv'
    BY <1>l DEF StopOpens, Opens, FreeAt, StopInv, HoldInv, cvars, Process, ghosts
  <1>5. QED
    BY <1>1, <1>2, <1>3, <1>4 DEF IInv

\* --stop finds no free pipe: busy, or none at all.
LEMMA StopNothingFreeKeeps ==
  ASSUME IInv, StopNothingFree
  PROVE  IInv'
  <1>l. ServInv /\ HoldInv /\ LaunchInv /\ StopInv
    BY DEF IInv
  <1>1. ServInv'
    BY <1>l, ServSame DEF StopNothingFree
  <1>2. HoldInv'
    BY <1>l DEF StopNothingFree, NextTry, NoSuchPipe, HoldInv, svars, cvars, ghosts
  <1>3. LaunchInv'
    BY <1>l DEF StopNothingFree, NextTry, NoSuchPipe, LaunchInv, svars, cvars, ghosts
  <1>4. StopInv'
    BY <1>l, EndpointAssumption
       DEF StopNothingFree, NextTry, NoSuchPipe, StopInv, svars, cvars, ghosts
  <1>5. QED
    BY <1>1, <1>2, <1>3, <1>4 DEF IInv

\* --stop asks the server it reached.
LEMMA StopSendsKeeps ==
  ASSUME IInv, StopSends
  PROVE  IInv'
  <1>l. ServInv /\ HoldInv /\ LaunchInv /\ StopInv
    BY DEF IInv
  <1>1. ServInv'
    BY <1>l, ServSame DEF StopSends
  <1>2. HoldInv'
    BY <1>l, EndpointAssumption
       DEF StopSends, Closes, Alive, Up, HoldInv, svars, cvars, Process, ghosts
  <1>3. LaunchInv'
    BY <1>l DEF StopSends, Closes, Alive, Up, LaunchInv, svars, cvars, ghosts
  <1>4. StopInv'
    BY <1>l DEF StopSends, Closes, Alive, Up, StopInv, svars, cvars, ghosts
  <1>5. QED
    BY <1>1, <1>2, <1>3, <1>4 DEF IInv

\* The server it asked takes the request.
LEMMA StopServedKeeps ==
  ASSUME IInv, NEW s \in Server, StopServed(s)
  PROVE  IInv'
  <1>l. ServInv /\ HoldInv /\ LaunchInv /\ StopInv
    BY DEF IInv
  <1>1. ServInv'
    BY <1>l DEF StopServed, ServInv, cvars
  <1>2. HoldInv'
    BY <1>l DEF StopServed, HoldInv, cvars, ghosts
  <1>3. LaunchInv'
    BY <1>l DEF StopServed, LaunchInv, cvars, ghosts
  <1>4. StopInv'
    BY <1>l DEF StopServed, StopInv, cvars, ghosts
  <1>5. QED
    BY <1>1, <1>2, <1>3, <1>4 DEF IInv

\* The reply is read, or cannot be, and --stop disconnects.
LEMMA StopReadsKeeps ==
  ASSUME IInv, NEW handle \in BOOLEAN, StopReads(handle)
  PROVE  IInv'
  <1>l. ServInv /\ HoldInv /\ LaunchInv /\ StopInv
    BY DEF IInv
  <1>1. ServInv'
    BY <1>l, ServSame DEF StopReads
  <1>2. HoldInv'
    BY <1>l, EndpointAssumption DEF StopReads, Closes, Up, HoldInv, svars, cvars, Process, ghosts
  <1>3. LaunchInv'
    BY <1>l DEF StopReads, Closes, Up, LaunchInv, svars, cvars, ghosts
  <1>4. StopInv'
    <2>1. /\ stop = "read" /\ stop' = "wait" /\ at[Stopper] \in Server
          /\ Up(Stopper) => shut[at[Stopper]]
          /\ \/ proc' = at[Stopper] /\ blind' = blind
             \/ proc' = 0 /\ blind' = blind \cup {at[Stopper]}
          /\ UNCHANGED <<srv, end, shut, tries>>
      BY <1>l DEF StopReads, StopInv, svars
    <2>2. proc' \in 0 .. MaxServers
      BY <2>1, EndpointAssumption DEF Server
    <2>b. blind \subseteq Server
      BY <1>l DEF StopInv
    <2>c. blind' \subseteq Server
      BY <2>1, <2>b
    <2>3. /\ \A s \in Server : end[s] = Stopper => at[Stopper] = s \/ s \in blind
          /\ \A s \in Server : shut[s] => at[Stopper] = s \/ s \in blind \/ srv[s] = "gone"
      BY <1>l, <2>1 DEF StopInv
    <2>4. QED
      BY <1>l, <2>1, <2>2, <2>c, <2>3 DEF StopInv
  <1>5. QED
    BY <1>1, <1>2, <1>3, <1>4 DEF IInv

\* --stop waits for the process of the server it asked: it exits, or not in time.
LEMMA StopWaitsKeeps ==
  ASSUME IInv, StopWaits
  PROVE  IInv'
  <1>l. ServInv /\ HoldInv /\ LaunchInv /\ StopInv
    BY DEF IInv
  <1>1. ServInv'
    BY <1>l, ServSame DEF StopWaits
  <1>2. HoldInv'
    BY <1>l DEF StopWaits, NextTry, Exited, HoldInv, svars, cvars, ghosts
  <1>3. LaunchInv'
    BY <1>l DEF StopWaits, NextTry, Exited, LaunchInv, svars, cvars, ghosts
  <1>4. StopInv'
    <2>1. \/ proc = 0 /\ NextTry
          \/ proc # 0 /\ Exited(proc) /\ NextTry
          \/ stop' = "stuck" /\ tries' = tries
      BY DEF StopWaits
    <2>2. stop = "wait" /\ proc' = 0 /\ UNCHANGED <<srv, end, shut, at, blind>>
      BY DEF StopWaits, svars, ghosts
    <2>3. CASE stop' = "stuck" /\ tries' = tries
      BY <1>l, <2>2, <2>3, EndpointAssumption DEF StopInv
    <2>4. CASE NextTry /\ (proc = 0 \/ Exited(proc))
      <3>1. /\ tries' \in 0 .. MaxTries /\ stop' \in {"try", "stuck"}
            /\ stop' = "try" => tries' < MaxTries
        BY <1>l, <2>2, <2>4, EndpointAssumption DEF StopInv, NextTry
      <3>2. \A s \in Server : proc = s => srv[s] \in {"gone", "failed"}
        BY <2>4, EndpointAssumption DEF Exited, Server
      <3>3. \A s \in Server : end[s] = Stopper => stop' = "stuck" \/ s \in blind
        BY <1>l, <2>2, <3>2, ProcessAssumption DEF StopInv, ServInv, Process
      <3>4. \A s \in Server : shut[s] => srv[s] = "gone" \/ stop' = "stuck" \/ s \in blind
        BY <1>l, <2>2, <3>2 DEF StopInv, ServInv
      <3>5. QED
        BY <1>l, <2>2, <3>1, <3>3, <3>4, EndpointAssumption DEF StopInv
    <2>5. QED
      BY <2>1, <2>3, <2>4
  <1>5. QED
    BY <1>1, <1>2, <1>3, <1>4 DEF IInv

-----------------------------------------------------------------------------
(* The theorems.                                                           *)

\* No process has a pipe at first.
LEMMA InitIInv == Init => IInv
  <1> SUFFICES ASSUME Init PROVE IInv
    OBVIOUS
  <1>1. ServInv
    BY DEF Init, ServInv, States, NoPipe
  <1>2. HoldInv
    BY EndpointAssumption DEF Init, HoldInv
  <1>3. LaunchInv
    BY EndpointAssumption DEF Init, LaunchInv
  <1>4. StopInv
    BY EndpointAssumption, ProcessAssumption DEF Init, StopInv, Process
  <1>5. QED
    BY <1>1, <1>2, <1>3, <1>4 DEF IInv

\* Every step of clients, servers and --stop keeps the inductive invariant.
LEMMA NextIInv == IInv /\ [Next]_vars => IInv'
  <1> SUFFICES ASSUME IInv, [Next]_vars PROVE IInv'
    OBVIOUS
  <1>1. ASSUME NEW c \in Client, \/ Want(c) \/ Request(c) \/ Leave(c) \/ LaunchFails(c)
                                 \/ PeerUnknown(c) \/ FrameRefused(c)
        PROVE  IInv'
    BY <1>1, WantKeeps, RequestKeeps, LeaveKeeps, ClientFaultKeeps
  <1>2. ASSUME NEW c \in Client, ClientStep(c) PROVE IInv'
    BY <1>2, TryOpenKeeps, NothingFreeKeeps, PeerCheckKeeps, LaunchKeeps, CallFailsKeeps
       DEF ClientStep
  <1>3. ASSUME NEW s \in Server, StartFails(s) \/ AcceptFails(s) \/ ServeFails(s) PROVE IInv'
    BY <1>3, StartFailsKeeps, CutKeeps
  <1>4. ASSUME NEW s \in Server, ServerStep(s) PROVE IInv'
    BY <1>4, CreatePipeKeeps, AcceptKeeps, IdleFiresKeeps, IdleClosesKeeps, ServeKeeps,
       StopServedKeeps, ClientGoneKeeps, ExitKeeps DEF ServerStep
  <1>5. CASE StopBegins
    BY <1>5, StopBeginsKeeps
  <1>6. CASE StopStep
    BY <1>6, StopOpensKeeps, StopNothingFreeKeeps, StopSendsKeeps, StopReadsKeeps, StopWaitsKeeps
       DEF StopStep
  <1>7. CASE UNCHANGED vars
    BY <1>7 DEF vars, svars, cvars, xvars, ghosts, IInv, ServInv, HoldInv, LaunchInv, StopInv
  <1>8. QED
    BY <1>1, <1>2, <1>3, <1>4, <1>5, <1>6, <1>7 DEF Next

\* The inductive invariant holds in every state clients, servers and --stop reach.
THEOREM EndpointInvariant == Spec => []IInv
  <1>1. QED
    BY InitIInv, NextIInv, PTL DEF Spec

FaultsInv == faults \in 0 .. MaxFaults

\* Failures are counted one by one, up to the bound.
LEMMA FaultsBounded == Spec => []FaultsInv
  <1>1. Init => FaultsInv
    BY EndpointAssumption DEF Init, FaultsInv
  <1>2. FaultsInv /\ [Next]_vars => FaultsInv'
    <2> SUFFICES ASSUME FaultsInv, [Next]_vars PROVE faults' = faults \/ Fault
      BY EndpointAssumption DEF FaultsInv, Fault
    <2>1. ASSUME NEW c \in Client, \/ Want(c) \/ Request(c) \/ Leave(c) \/ LaunchFails(c)
                                   \/ PeerUnknown(c) \/ FrameRefused(c) \/ ClientStep(c)
          PROVE  faults' = faults \/ Fault
      BY <2>1 DEF Want, Request, Leave, LaunchFails, PeerUnknown, FrameRefused, ClientStep,
                  TryOpen, Opens, NothingFree, PeerCheck, Launch, CallFails, ghosts
    <2>2. ASSUME NEW s \in Server,
                 StartFails(s) \/ AcceptFails(s) \/ ServeFails(s) \/ ServerStep(s)
          PROVE  faults' = faults \/ Fault
      BY <2>2 DEF StartFails, AcceptFails, ServeFails, ServerStep, CreatePipe, Accept,
                  IdleFires, IdleCloses, Serve, StopServed, ClientGone, Exit, ghosts
    <2>3. CASE StopBegins \/ StopStep
      BY <2>3 DEF StopBegins, StopStep, StopOpens, Opens, StopNothingFree, StopSends,
                  StopReads, StopWaits, ghosts
    <2>4. CASE UNCHANGED vars
      BY <2>4 DEF vars, ghosts
    <2>5. QED
      BY <2>1, <2>2, <2>3, <2>4 DEF Next
  <1>3. QED
    BY <1>1, <1>2, PTL DEF Spec

\* "A server finishes its current connection first": a client loses its server, or is
\* refused by it, only to the idle timer that ran out while it was opening the instance, or
\* to a fault at one end;
\* never to --stop, to another client or to the accept loop.
THEOREM ConnectionsKept == Spec => []LostToIdleOrFault
  <1>1. IInv /\ FaultsInv => LostToIdleOrFault
    BY DEF IInv, ServInv, HoldInv, LaunchInv, StopInv, FaultsInv, LostToIdleOrFault, TypeOK, States
  <1>2. QED
    BY EndpointInvariant, FaultsBounded, <1>1, PTL

\* A client gives up after its ten seconds only if the server it launched has not come up,
\* or was opened by another process (ensure_connected).
THEOREM TimeoutExplained == Spec => GivesUpOnlyIfTaken
  <1> DEFINE Explained ==
        \A c \in Client : (last[c] # "timeout" /\ last'[c] = "timeout") =>
          srv[mine[c]] \in {"starting", "failed"} \/ mine[c] \in taken
  <1>1. IInv /\ [Next]_vars => [Explained]_vars
    <2> SUFFICES ASSUME IInv, Next, NEW c \in Client, last[c] # "timeout", last'[c] = "timeout"
                 PROVE  srv[mine[c]] \in {"starting", "failed"} \/ mine[c] \in taken
      OBVIOUS
    <2>l. last \in [Client -> {"none", "timeout", "refused", "nolaunch", "lost"}]
      BY DEF IInv, HoldInv
    <2>1. NothingFree(c) /\ mine[c] # 0
      <3>0. ASSUME NEW d \in Client, PeerUnknown(d) \/ FrameRefused(d) PROVE FALSE
        BY <3>0, <2>l DEF PeerUnknown, FrameRefused, Fails
      <3>1. ASSUME NEW d \in Client, ClientStep(d) PROVE NothingFree(c) /\ mine[c] # 0
        BY <3>1, <2>l DEF ClientStep, TryOpen, NothingFree, PeerCheck, Launch, CallFails, Fails, cvars
      <3>2. ASSUME NEW d \in Client, Want(d) \/ Request(d) \/ Leave(d) \/ LaunchFails(d) PROVE FALSE
        BY <3>2, <2>l DEF Want, Request, Leave, LaunchFails, Fails
      <3>3. ASSUME NEW s \in Server,
                   StartFails(s) \/ AcceptFails(s) \/ ServeFails(s) \/ ServerStep(s)
            PROVE  FALSE
        BY <3>3 DEF StartFails, AcceptFails, ServeFails, ServerStep, CreatePipe, Accept, IdleFires, IdleCloses, Serve,
                    StopServed, ClientGone, Exit, cvars
      <3>4. CASE StopBegins \/ StopStep
        BY <3>4 DEF StopBegins, StopStep, StopOpens, StopNothingFree, StopSends, StopReads,
                    StopWaits, cvars
      <3>5. QED
        BY <3>0, <3>1, <3>2, <3>3, <3>4 DEF Next
    <2>2. mine[c] \in Server /\ cl[c] = "open" /\ end[mine[c]] # Free
      BY <2>1 DEF NothingFree, FreeAt, IInv, LaunchInv
    <2>3. QED
      BY <2>1, <2>2 DEF IInv, LaunchInv
  <1>2. QED
    BY EndpointInvariant, <1>1, PTL DEF Spec, GivesUpOnlyIfTaken

\* "alpmrpcd --stop retires all of them": when it reports that nobody is left, every server
\* it asked has exited, unless it had no process handle to wait with, and one that is left
\* has no instance at that moment.
THEOREM StopIsThorough == Spec => StopRetires
  <1> DEFINE Thorough ==
        (stop # "clear" /\ stop' = "clear") =>
          \A s \in Server : Alive(s) =>
            /\ shut[s] => s \in blind
            /\ srv[s] \in {"starting", "between", "exiting"}
  <1>1. IInv /\ [Next]_vars => [Thorough]_vars
    <2> SUFFICES ASSUME IInv, Next, stop # "clear", stop' = "clear", NEW s \in Server, Alive(s)
                 PROVE  (shut[s] => s \in blind) /\ srv[s] \in {"starting", "between", "exiting"}
      OBVIOUS
    <2>1. StopNothingFree /\ NoSuchPipe
      <3>1. CASE StopBegins \/ StopStep
        BY <3>1 DEF StopBegins, StopStep, StopOpens, StopNothingFree, StopSends, StopReads,
                    StopWaits, NextTry
      <3>2. ASSUME NEW c \in Client,
                   \/ Want(c) \/ Request(c) \/ Leave(c) \/ LaunchFails(c) \/ ClientStep(c)
                   \/ PeerUnknown(c) \/ FrameRefused(c)
            PROVE  FALSE
        BY <3>2 DEF Want, PeerUnknown, FrameRefused, Request, Leave, LaunchFails, ClientStep, TryOpen, NothingFree, PeerCheck,
                    Launch, CallFails, xvars
      <3>3. ASSUME NEW u \in Server,
                   StartFails(u) \/ AcceptFails(u) \/ ServeFails(u) \/ ServerStep(u)
            PROVE  FALSE
        BY <3>3 DEF StartFails, AcceptFails, ServeFails, ServerStep, CreatePipe, Accept, IdleFires, IdleCloses, Serve,
                    StopServed, ClientGone, Exit, xvars
      <3>4. QED
        BY <3>1, <3>2, <3>3 DEF Next
    <2>2. stop = "try" /\ end[s] = NoPipe
      BY <2>1 DEF StopNothingFree, NoSuchPipe
    <2>3. srv[s] \in States \ {"unused", "failed", "gone", "listening", "idle", "serving"}
      BY <2>2 DEF Alive, IInv, ServInv, States
    <2>4. shut[s] => s \in blind
      BY <2>2, <2>3 DEF IInv, StopInv
    <2>5. QED
      BY <2>3, <2>4 DEF States
  <1>2. QED
    BY EndpointInvariant, <1>1, PTL DEF Spec, StopRetires

=============================================================================
