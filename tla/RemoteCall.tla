----------------------------- MODULE RemoteCall -----------------------------
(***************************************************************************)
(* What the transport promises a stub of the client DLL: a call is carried *)
(* out at most once, one that returns a result has been carried out to the *)
(* end, and calls return innermost first.  A call that fails may have been *)
(* carried out, may be half way through, or may still be started.          *)
(***************************************************************************)
EXTENDS Naturals

CONSTANT MaxId      \* bound: requests one client process numbers

VARIABLES
  out,              \* what the caller has been told of each request
  run               \* how far the server is with it

vars == <<out, run>>

Request == 1 .. MaxId

Init ==
  /\ out = [c \in Request |-> "none"]
  /\ run = [c \in Request |-> "no"]

\* Requests are numbered in the order they are made.
Next_(c) == out[c] = "none" /\ \A d \in 1 .. c - 1 : out[d] # "none"

Innermost(c) == out[c] = "open" /\ \A d \in c + 1 .. MaxId : out[d] # "open"

Open(c)   == Next_(c) /\ out' = [out EXCEPT ![c] = "open"] /\ UNCHANGED run
Refuse(c) == Next_(c) /\ out' = [out EXCEPT ![c] = "failed"] /\ UNCHANGED run

Begin(c) ==
  /\ run[c] = "no" /\ out[c] # "none"
  /\ run' = [run EXCEPT ![c] = "running"]
  /\ UNCHANGED out

Finish(c) ==
  /\ run[c] = "running"
  /\ run' = [run EXCEPT ![c] = "finished"]
  /\ UNCHANGED out

Return(c) ==
  /\ Innermost(c) /\ run[c] = "finished"
  /\ out' = [out EXCEPT ![c] = "ok"]
  /\ UNCHANGED run

Fail(c) ==
  /\ Innermost(c)
  /\ out' = [out EXCEPT ![c] = "failed"]
  /\ UNCHANGED run

Next ==
  \E c \in Request :
    Open(c) \/ Refuse(c) \/ Begin(c) \/ Finish(c) \/ Return(c) \/ Fail(c)

Spec == Init /\ [][Next]_vars

=============================================================================
