------------------------------ MODULE Endpoint ------------------------------
(***************************************************************************)
(* How clients and servers find each other: ensure_connected with its       *)
(* launch and its polling, the accept loop of alpmrpcd with its idle timer,  *)
(* and alpmrpcd --stop.                                                    *)
(*                                                                         *)
(* A server process owns at most one instance of the pipe.  A client that   *)
(* opens the name gets any free instance; with instances but none of them   *)
(* free the pipe is busy, and with no instance there is no such file.  An    *)
(* instance is open from CreateNamedPipe on, whether or not the server has   *)
(* come to wait for a client.  Processes of other users and elevations have *)
(* other names and are left out.                                           *)
(***************************************************************************)
EXTENDS Naturals, FiniteSets

CONSTANTS
  Client,         \* processes that use the DLL
  Stopper,        \* the process that runs alpmrpcd --stop
  MaxServers,     \* bound: server processes launched
  MaxPolls,       \* openings tried after a launch: 10 s at 25 ms each
  MaxTries,       \* openings --stop tries: 5 s at 25 ms each
  MaxFaults       \* bound: failures of the system and of allocations

ASSUME EndpointAssumption ==
  /\ Stopper \notin Client
  /\ MaxServers \in Nat /\ MaxPolls \in Nat \ {0} /\ MaxTries \in Nat \ {0}
  /\ MaxFaults \in Nat

VARIABLES
  srv,            \* server -> where its main() is
  end,            \* server -> its pipe instance: none, free, or who opened it
  shut,           \* server -> g_shutdown_requested
  cl,             \* client -> where it is in a call
  at,             \* process -> the server whose instance it holds open, 0 for none
  polls,          \* client -> openings tried since its launch
  mine,           \* client -> the server it launched for this connection, 0 for none
  stop,           \* where --stop is
  tries,          \* openings --stop has tried
  proc,           \* the process --stop waits for, 0 for none
  last,           \* ghost: client -> how its last call without a reply ended
  taken,          \* ghost: servers opened by another process than their launcher
  cut,            \* ghost: clients whose connection an idle server or a fault ended
  faults,         \* failures so far
  blind           \* ghost: servers --stop asked without a handle to wait with

svars == <<srv, end, shut>>
cvars == <<cl, polls, mine, last>>
xvars == <<stop, tries, proc>>
ghosts == <<taken, cut, blind, faults>>
vars == <<svars, cvars, xvars, at, ghosts>>

-----------------------------------------------------------------------------
Server == 1 .. MaxServers
Process == Client \cup {Stopper}
NoPipe == "none"
Free == "free"

ASSUME ProcessAssumption == {NoPipe, Free} \cap Process = {}

Alive(s) == srv[s] \notin {"unused", "failed", "gone"}
Unused == {s \in Server : srv[s] = "unused"}
FreeAt == {s \in Server : end[s] = Free}

\* Does the instance p opened still have a server at its other end?
Up(p) == at[p] # 0 /\ end[at[p]] = p

\* ... and the other way round?
HasClient(s) == end[s] \in Process /\ at[end[s]] = s

Opening == {"open", "check", "launch"}

\* A failure of the system or of an allocation, of which there is a bounded number.
Fault == faults < MaxFaults /\ faults' = faults + 1

Init ==
  /\ srv = [s \in Server |-> "unused"]
  /\ end = [s \in Server |-> NoPipe]
  /\ shut = [s \in Server |-> FALSE]
  /\ cl = [c \in Client |-> "idle"]
  /\ at = [p \in Process |-> 0]
  /\ polls = [c \in Client |-> 0]
  /\ mine = [c \in Client |-> 0]
  /\ stop = "idle" /\ tries = 0 /\ proc = 0
  /\ last = [c \in Client |-> "none"]
  /\ taken = {} /\ cut = {} /\ blind = {} /\ faults = 0

-----------------------------------------------------------------------------
(* The client.                                                             *)

\* CreateFile on the pipe's name: p gets the instance of s.
Opens(p, s) ==
  /\ end' = [end EXCEPT ![s] = p]
  /\ at' = [at EXCEPT ![p] = s]
  /\ taken' = IF p \in Client /\ mine[p] = s THEN taken ELSE taken \cup {s}
  /\ UNCHANGED <<cut, blind, faults>>

\* CloseHandle on p's end.
Closes(p) == at' = [at EXCEPT ![p] = 0]

\* ensure_connected is left.
Settles(c, state) ==
  /\ cl' = [cl EXCEPT ![c] = state]
  /\ polls' = [polls EXCEPT ![c] = 0]
  /\ mine' = [mine EXCEPT ![c] = 0]

\* A call fails, for reason why, and leaves the client without a connection.
Fails(c, why) ==
  /\ Settles(c, "idle")
  /\ last' = [last EXCEPT ![c] = why]
  /\ Closes(c)

\* A stub needs a connection and there is none.  (Each opening client may have
\* to launch a server; the bound leaves one for it.)
Want(c) ==
  /\ cl[c] = "idle"
  /\ Cardinality(Unused) > Cardinality({d \in Client : cl[d] \in Opening /\ mine[d] = 0})
  /\ cl' = [cl EXCEPT ![c] = "open"]
  /\ last' = [last EXCEPT ![c] = "none"]
  /\ cut' = cut \ {c}
  /\ UNCHANGED <<svars, polls, mine, xvars, at, taken, blind, faults>>

\* try_open gets a free instance.
TryOpen(c, s) ==
  /\ cl[c] = "open" /\ s \in FreeAt
  /\ Opens(c, s)
  /\ cl' = [cl EXCEPT ![c] = "check"]
  /\ UNCHANGED <<srv, shut, polls, mine, last, xvars>>

\* Was that the last opening of the ten seconds?
OutOfPolls(c) == polls[c] = MaxPolls

\* try_open finds nothing listening, or only busy instances: ensure_connected
\* launches a server, or, having done so, sleeps and tries again for a while.
NothingFree(c) ==
  /\ cl[c] = "open" /\ FreeAt = {}
  /\ \/ /\ mine[c] = 0
        /\ cl' = [cl EXCEPT ![c] = "launch"]
        /\ UNCHANGED <<polls, mine, last, at>>
     \/ /\ mine[c] # 0 /\ ~OutOfPolls(c)
        /\ polls' = [polls EXCEPT ![c] = @ + 1]
        /\ UNCHANGED <<cl, mine, last, at>>
     \/ /\ mine[c] # 0 /\ OutOfPolls(c)
        /\ Fails(c, "timeout")
  /\ UNCHANGED <<svars, xvars, ghosts>>

\* arpc_peer_is: the process at the other end is this user's -- or it has exited
\* meanwhile and cannot be asked, which try_open takes for somebody else's.
PeerCheck(c) ==
  /\ cl[c] = "check"
  /\ \/ /\ Alive(at[c])
        /\ Settles(c, "conn")
        /\ UNCHANGED <<at, last>>
     \/ ~Alive(at[c]) /\ Fails(c, "refused")
  /\ UNCHANGED <<svars, xvars, ghosts>>

\* p's connection ends for a reason that is not the other end's to give.
Cuts(p) ==
  /\ cut' = cut \cup (Client \cap {p})
  /\ UNCHANGED <<taken, blind>>

\* The peer check cannot ask a process that is there.
PeerUnknown(c) ==
  /\ cl[c] = "check" /\ Alive(at[c])
  /\ Fault
  /\ Fails(c, "refused") /\ Cuts(c)
  /\ UNCHANGED <<svars, xvars>>

\* launch_server: CreateProcess, and the first of the openings.
Launch(c) ==
  LET s == CHOOSE u \in Unused : TRUE
  IN  /\ cl[c] = "launch" /\ Unused # {}
      /\ srv' = [srv EXCEPT ![s] = "starting"]
      /\ mine' = [mine EXCEPT ![c] = s]
      /\ polls' = [polls EXCEPT ![c] = 1]
      /\ cl' = [cl EXCEPT ![c] = "open"]
      /\ UNCHANGED <<end, shut, last, xvars, at, ghosts>>

\* The executable is not there, or cannot be started.
LaunchFails(c) ==
  /\ cl[c] = "launch"
  /\ Fault
  /\ Fails(c, "nolaunch")
  /\ UNCHANGED <<svars, xvars, taken, cut, blind>>

\* A request goes out, the one that tells the path style included.
Request(c) ==
  /\ cl[c] = "conn"
  /\ \/ Up(c) /\ Settles(c, "call") /\ UNCHANGED <<at, last>>
     \/ ~Up(c) /\ Fails(c, "lost")
  /\ UNCHANGED <<svars, xvars, ghosts>>

\* Mutant: a read that fails is tried again.
CallFailsAgain(c) ==
  /\ cl[c] = "call" /\ ~Up(c)
  /\ UNCHANGED vars

\* The reply cannot be read.
CallFails(c) ==
  /\ cl[c] = "call" /\ ~Up(c)
  /\ Fails(c, "lost")
  /\ UNCHANGED <<svars, xvars, ghosts>>

\* A frame from a server that is there is refused for its size, finds no memory or
\* is malformed.
FrameRefused(c) ==
  /\ cl[c] = "call" /\ Up(c)
  /\ Fault
  /\ Fails(c, "lost") /\ Cuts(c)
  /\ UNCHANGED <<svars, xvars>>

\* The last libalpm handle is released, or the client process ends.
Leave(c) ==
  /\ cl[c] # "idle"
  /\ Settles(c, "idle")
  /\ Closes(c)
  /\ cut' = cut \ {c}
  /\ UNCHANGED <<svars, last, xvars, taken, blind, faults>>

-----------------------------------------------------------------------------
(* The server.                                                             *)

\* The top of the accept loop, for the first time or again: a new instance.
CreatePipe(s) ==
  /\ srv[s] \in {"starting", "between"}
  /\ srv' = [srv EXCEPT ![s] = "listening"]
  /\ end' = [end EXCEPT ![s] = Free]
  /\ UNCHANGED <<shut, cvars, xvars, at, ghosts>>

\* main() returns: no identity, no DACL, or, at any turn of the loop, no pipe.
StartFails(s) ==
  /\ srv[s] \in {"starting", "between"}
  /\ Fault
  /\ srv' = [srv EXCEPT ![s] = "failed"]
  /\ UNCHANGED <<end, shut, cvars, xvars, at, taken, cut, blind>>

\* Mutant: the server turns away clients that have yet to send a frame.
AcceptsChecked(s) == HasClient(s) /\ (end[s] \in Client => cl[end[s]] = "call")

\* Is there a client, and is it this user's?
Accepts(s) == HasClient(s)

\* ConnectNamedPipe reports a client.  One that is gone already is served until the
\* first read, or not at all if its process cannot be asked who it is.
Accept(s) ==
  /\ srv[s] = "listening" /\ end[s] \in Process
  /\ \/ /\ srv' = [srv EXCEPT ![s] = "serving"]
        /\ UNCHANGED end
     \/ /\ ~Accepts(s)
        /\ srv' = [srv EXCEPT ![s] = "between"]
        /\ end' = [end EXCEPT ![s] = NoPipe]
  /\ UNCHANGED <<shut, cvars, xvars, at, ghosts>>

\* ... and cannot be asked although it is there.
AcceptFails(s) ==
  /\ srv[s] = "listening" /\ HasClient(s)
  /\ Fault
  /\ srv' = [srv EXCEPT ![s] = "between"]
  /\ end' = [end EXCEPT ![s] = NoPipe]
  /\ Cuts(end[s])
  /\ UNCHANGED <<shut, cvars, xvars, at>>

\* Mutant: an idle time shorter than the time a client polls.
IdleFiresSoon(s) ==
  /\ srv[s] = "listening" /\ end[s] = Free
  /\ srv' = [srv EXCEPT ![s] = "idle"]
  /\ UNCHANGED <<end, shut, cvars, xvars, at, ghosts>>

\* Mutant: the wait for a client has no limit.
IdleFiresNever(s) == FALSE /\ UNCHANGED vars

\* WaitForSingleObject times out.  The idle time, 30 s, is longer than the 10 s
\* for which the client that launched this server polls.
IdleFires(s) ==
  /\ srv[s] = "listening" /\ end[s] = Free
  /\ ~\E c \in Client : mine[c] = s /\ cl[c] \in Opening
  /\ srv' = [srv EXCEPT ![s] = "idle"]
  /\ UNCHANGED <<end, shut, cvars, xvars, at, ghosts>>

\* CancelIo, CloseHandle: a client may have opened the instance since.
IdleCloses(s) ==
  /\ srv[s] = "idle"
  /\ srv' = [srv EXCEPT ![s] = "exiting"]
  /\ end' = [end EXCEPT ![s] = NoPipe]
  /\ Cuts(end[s]) /\ UNCHANGED faults
  /\ UNCHANGED <<shut, cvars, xvars, at>>

\* A request is served and replied to (a client's; for --stop see StopServed).
Serve(s) ==
  /\ srv[s] = "serving" /\ HasClient(s)
  /\ end[s] \in Client /\ cl[end[s]] = "call"
  /\ cl' = [cl EXCEPT ![end[s]] = "conn"]
  /\ UNCHANGED <<svars, polls, mine, last, xvars, at, ghosts>>

\* Where the accept loop goes after a client.
NextAfter(s) == IF shut[s] THEN "exiting" ELSE "between"

\* A process waits for a reply.
Waiting(p) == IF p = Stopper THEN stop = "read" ELSE cl[p] = "call"

\* serve_connection returns under its client: the request was refused or found no
\* memory, there is no reply, or it cannot be sent.
ServeFails(s) ==
  /\ srv[s] = "serving" /\ HasClient(s) /\ Waiting(end[s])
  /\ Fault
  /\ srv' = [srv EXCEPT ![s] = NextAfter(s)]
  /\ end' = [end EXCEPT ![s] = NoPipe]
  /\ Cuts(end[s])
  /\ UNCHANGED <<shut, cvars, xvars, at>>

\* serve_connection reads the broken pipe and returns; the instance is closed.
ClientGone(s) ==
  /\ srv[s] = "serving" /\ ~HasClient(s)
  /\ srv' = [srv EXCEPT ![s] = NextAfter(s)]
  /\ end' = [end EXCEPT ![s] = NoPipe]
  /\ UNCHANGED <<shut, cvars, xvars, at, ghosts>>

\* arpc_handle_reset and the end of the process.
Exit(s) ==
  /\ srv[s] = "exiting"
  /\ srv' = [srv EXCEPT ![s] = "gone"]
  /\ UNCHANGED <<end, shut, cvars, xvars, at, ghosts>>

-----------------------------------------------------------------------------
(* alpmrpcd --stop.                                                        *)

StopBegins ==
  /\ stop = "idle"
  /\ stop' = "try"
  /\ UNCHANGED <<svars, cvars, tries, proc, at, ghosts>>

\* One turn of its loop is over.
NextTry ==
  /\ tries' = tries + 1
  /\ stop' = IF tries + 1 < MaxTries THEN "try" ELSE "stuck"

StopOpens(s) ==
  /\ stop = "try" /\ s \in FreeAt
  /\ Opens(Stopper, s)
  /\ stop' = "check"
  /\ UNCHANGED <<srv, shut, cvars, tries, proc>>

\* ERROR_FILE_NOT_FOUND, as opposed to ERROR_PIPE_BUSY.
NoSuchPipe == \A s \in Server : end[s] = NoPipe

\* Nothing listening is success; with every instance busy it sleeps and asks
\* again.
StopNothingFree ==
  /\ stop = "try" /\ FreeAt = {}
  /\ IF NoSuchPipe THEN stop' = "clear" /\ UNCHANGED tries ELSE NextTry
  /\ UNCHANGED <<svars, cvars, proc, at, ghosts>>

\* The peer check and the request; either may find the server gone, or fail.
StopSends ==
  /\ stop = "check"
  /\ \/ /\ Alive(at[Stopper]) /\ Up(Stopper)
        /\ stop' = "read" /\ UNCHANGED <<at, faults>>
     \/ /\ IF Up(Stopper) THEN Fault ELSE UNCHANGED faults
        /\ stop' = "stuck" /\ Closes(Stopper)
  /\ UNCHANGED <<svars, cvars, tries, proc, taken, cut, blind>>

\* The server takes arpc.shutdown and replies.
StopServed(s) ==
  /\ srv[s] = "serving" /\ end[s] = Stopper
  /\ stop = "read" /\ ~shut[s]
  /\ shut' = [shut EXCEPT ![s] = TRUE]
  /\ UNCHANGED <<srv, end, cvars, stop, tries, proc, at, ghosts>>

\* The reply is read, or cannot be; "our disconnect is what lets it go".  There may
\* be no handle to the process.
StopReads(handle) ==
  /\ stop = "read"
  /\ Up(Stopper) => shut[at[Stopper]]
  /\ proc' = IF handle THEN at[Stopper] ELSE 0
  /\ blind' = IF handle THEN blind ELSE blind \cup {at[Stopper]}
  /\ IF handle THEN UNCHANGED faults ELSE Fault
  /\ Closes(Stopper)
  /\ stop' = "wait"
  /\ UNCHANGED <<svars, cvars, tries, taken, cut>>

\* Mutant: the pipe is waited for and not the process.
ExitedPipe(s) == end[s] = NoPipe

\* "The binary is free once the process is gone, not once the pipe is."
Exited(s) == srv[s] \in {"gone", "failed"}

\* WaitForSingleObject on the process: it exits, or not in the time there is.  With
\* no handle, a short sleep.
StopWaits ==
  /\ stop = "wait"
  /\ \/ proc = 0 /\ NextTry
     \/ proc # 0 /\ Exited(proc) /\ NextTry
     \/ proc # 0 /\ ~Exited(proc) /\ stop' = "stuck" /\ UNCHANGED tries
  /\ proc' = 0
  /\ UNCHANGED <<svars, cvars, at, ghosts>>

-----------------------------------------------------------------------------
ClientStep(c) ==
  \/ \E s \in Server : TryOpen(c, s)
  \/ NothingFree(c)
  \/ PeerCheck(c)
  \/ Launch(c)
  \/ CallFails(c)

ServerStep(s) ==
  \/ CreatePipe(s)
  \/ Accept(s)
  \/ IdleFires(s)
  \/ IdleCloses(s)
  \/ Serve(s)
  \/ StopServed(s)
  \/ ClientGone(s)
  \/ Exit(s)

StopStep ==
  \/ \E s \in Server : StopOpens(s)
  \/ StopNothingFree
  \/ StopSends
  \/ \E handle \in BOOLEAN : StopReads(handle)
  \/ StopWaits

Next ==
  \/ \E c \in Client : \/ Want(c) \/ Request(c) \/ Leave(c) \/ LaunchFails(c)
                       \/ PeerUnknown(c) \/ FrameRefused(c)
                       \/ ClientStep(c)
  \/ \E s \in Server : \/ StartFails(s) \/ AcceptFails(s) \/ ServeFails(s)
                       \/ ServerStep(s)
  \/ StopBegins
  \/ StopStep

Spec == Init /\ [][Next]_vars

\* Processes are scheduled, sleeps and the idle timer end, and a read on a broken
\* pipe returns.  No client has to call, or to leave.
Fairness ==
  /\ \A c \in Client : WF_vars(ClientStep(c))
  /\ \A s \in Server : WF_vars(ServerStep(s))
  /\ WF_vars(StopStep)

FairSpec == Spec /\ Fairness

-----------------------------------------------------------------------------
(* Properties.                                                             *)

\* The states of the three kinds of process; a server has an instance exactly
\* from CreateNamedPipe to CloseHandle, and one that took a shutdown request has
\* none for anybody else.
TypeOK ==
  /\ srv \in [Server -> {"unused", "starting", "listening", "idle", "serving",
                         "between", "exiting", "failed", "gone"}]
  /\ end \in [Server -> Process \cup {Free, NoPipe}]
  /\ shut \in [Server -> BOOLEAN]
  /\ \A s \in Server :
       /\ end[s] # NoPipe <=> srv[s] \in {"listening", "idle", "serving"}
       /\ shut[s] => end[s] \in {Stopper, NoPipe}
  /\ cl \in [Client -> Opening \cup {"idle", "conn", "call"}]
  /\ polls \in [Client -> 0 .. MaxPolls]
  /\ mine \in [Client -> 0 .. MaxServers]
  /\ last \in [Client -> {"none", "timeout", "refused", "nolaunch", "lost"}]
  /\ at \in [Process -> 0 .. MaxServers]
  /\ stop \in {"idle", "try", "check", "read", "wait", "clear", "stuck"}
  /\ tries \in 0 .. MaxTries /\ proc \in 0 .. MaxServers
  /\ taken \subseteq Server /\ blind \subseteq Server
  /\ cut \subseteq Client /\ faults \in 0 .. MaxFaults

\* "Asking is enough, because a server finishes its current connection first"
\* (main.c): a client loses a connection, or is refused one, only to a server
\* whose idle time ended while the client was opening it, or to a fault at one end: a
\* peer that cannot be asked, a frame that is refused, a reply that cannot be made or
\* sent.  Never to --stop, to another client or to the accept loop.
LostToIdleOrFault ==
  /\ TypeOK
  /\ \A c \in Client : last[c] \in {"lost", "refused"} => c \in cut

\* A client gives up after ten seconds only if the server it started has not
\* come up, or has been opened by somebody else -- in which case a client does
\* wait on another, although ensure_connected says that nothing here does.
GivesUpOnlyIfTaken ==
  [][\A c \in Client : (last[c] # "timeout" /\ last'[c] = "timeout") =>
        srv[mine[c]] \in {"starting", "failed"} \/ mine[c] \in taken]_vars

\* "alpmrpcd --stop retires all of them" (README): when it reports that nobody is
\* left, every server it asked has exited, one it had no process handle for aside,
\* and a server that is left is one without a pipe at that moment: starting, between
\* two clients, or on its way out by itself.
StopRetires ==
  [][(stop # "clear" /\ stop' = "clear") =>
        \A s \in Server : Alive(s) =>
          /\ shut[s] => s \in blind
          /\ srv[s] \in {"starting", "between", "exiting"}]_vars

\* A client that needs a connection, or waits for a reply, gets it or an error:
\* "nothing here waits on anybody else" for ever.
ClientSettles ==
  \A c \in Client :
    cl[c] \in Opening \cup {"call"} ~> cl[c] \in {"idle", "conn"}

\* "The spare one idles out" (arpc_client.c), "Nothing persists anywhere"
\* (README): once the clients are gone for good, so are all servers.
ServersGo ==
  <>[](\A c \in Client : cl[c] = "idle") => <>[](\A s \in Server : ~Alive(s))

=============================================================================
