------------------------------- MODULE Gpgdir -------------------------------
(***************************************************************************)
(* arpc_gpgdir.c: which keyring a signature is checked against.             *)
(*                                                                         *)
(* gpgme has one keyring directory for the whole process.  Before each call *)
(* the dispatcher points it at the directory of the handle the call is for. *)
(* Calls nest: a callback of one may make another, for the same handle or   *)
(* for another one.  libalpm and gpgme are modelled from what arpc_gpgdir.c *)
(* says of them: a libalpm entry point clears the handle's error, and the    *)
(* first signature check of the process points gpgme by itself.             *)
(***************************************************************************)
EXTENDS Naturals, Sequences

CONSTANTS
  Addr,           \* addresses of handles
  Dir,            \* keyring directories
  Default,        \* the one a new handle has, written NULL: gpgme's own
  Nowhere,        \* gpgme has not been pointed anywhere yet
  MaxDepth,       \* bound: calls nested in each other
  MaxFaults       \* bound: failed allocations and gpgme errors

ASSUME GpgdirAssumption ==
  /\ Default \in Dir /\ Nowhere \notin Dir
  /\ MaxDepth \in Nat /\ MaxFaults \in Nat

VARIABLES
  live,           \* the handles there are
  dir,            \* handle -> its gpgdir, in libalpm
  err,            \* handle -> does it have an error pending?
  seen,           \* g_seen: handle -> the directory last read, Nowhere for no entry
  pointed,        \* g_gpgdir, Nowhere while g_pointed is 0
  engine,         \* where gpgme points
  inited,         \* init_gpgme() has run
  stk,            \* the calls being served, innermost first
  faults,         \* failures so far
  moved,          \* ghost: handles whose gpgme was pointed for another since
  unread,         \* ghost: handles set within a call for them, or read in vain, since
                  \*        they were last read
  lapsed,         \* ghost: handles gpgme could not be pointed for
  mislaid         \* ghost: gpgme was pointed without g_gpgdir being told

lib == <<live, dir, err, inited, stk>>
ghosts == <<moved, unread, lapsed, mislaid>>
vars == <<lib, seen, pointed, engine, faults, ghosts>>

-----------------------------------------------------------------------------
\* A call in progress: for handle h, running libalpm or waiting in a callback.
Frame(h, op, dest) == [h |-> h, op |-> op, dest |-> dest, at |-> "libalpm"]

Running == stk # <<>> /\ Head(stk).at = "libalpm"
\* The calls in progress for other handles, once gpgme is pointed for h.
MovedFor(h) == (moved \cup {stk[i].h : i \in DOMAIN stk}) \ {h}
Open(h) == \E i \in DOMAIN stk : stk[i].h = h

Init ==
  /\ live = {}
  /\ dir = [h \in Addr |-> Default]
  /\ err = [h \in Addr |-> FALSE]
  /\ seen = [h \in Addr |-> Nowhere]
  /\ pointed = Nowhere /\ engine = Nowhere /\ inited = FALSE
  /\ stk = <<>> /\ faults = 0
  /\ moved = {} /\ unread = {} /\ lapsed = {} /\ mislaid = FALSE

\* Mutant: a handle's directory is read once.
ReadsUnseen(h) == ~err[h] /\ seen[h] = Nowhere

\* gpgdir_of asks libalpm only while h has no error pending, since asking would
\* clear it.
Reads(h) == ~err[h]

\* gpgdir_of: the entry of h after it, in a call where allocations succeed.
GpgdirOf(h) == IF Reads(h) THEN dir[h] ELSE seen[h]

\* Has gpgme to be pointed at d?
Needed(d) == d \notin {Nowhere, pointed}

\* Mutant: g_gpgdir is set before gpgme is, and stays if that fails.
PointedAfterEarly(d, took) == d

\* g_gpgdir after gpgme was asked to point at d.
PointedAfter(d, took) == IF took THEN d ELSE pointed

\* arpc_gpgdir_follow(h).  A failure is one of: there is no memory for an entry or
\* for the directory in it (a new entry then stays, with NULL), gpgme refuses, or
\* g_gpgdir cannot be copied after gpgme took it.  Copying NULL never fails.
Follow(h) ==
  LET d       == GpgdirOf(h)
      Filed   == /\ seen' = [seen EXCEPT ![h] = d]
                 /\ unread' = IF Reads(h) THEN unread \ {h} ELSE unread
      Points  == /\ engine' = d
                 /\ moved' = MovedFor(h)
                 /\ lapsed' = lapsed \ {h}
      Failure == faults < MaxFaults /\ faults' = faults + 1
  IN  \/ /\ ~Needed(d) /\ Filed
         /\ moved' = moved \ {h} /\ lapsed' = lapsed \ {h}
         /\ UNCHANGED <<pointed, engine, faults, mislaid>>
      \/ /\ Needed(d) /\ Filed /\ Points
         /\ pointed' = PointedAfter(d, TRUE)
         /\ mislaid' = FALSE
         /\ UNCHANGED faults
      \/ /\ Reads(h) /\ Failure
         /\ \/ seen[h] = Nowhere /\ UNCHANGED seen
            \/ /\ d \notin {seen[h], Default}
               /\ seen' = [seen EXCEPT ![h] = IF @ = Nowhere THEN Default ELSE @]
         /\ unread' = unread \cup {h}
         /\ UNCHANGED <<pointed, engine, moved, lapsed, mislaid>>
      \/ /\ Needed(d) /\ Filed /\ Failure
         /\ pointed' = PointedAfter(d, FALSE)
         /\ lapsed' = lapsed \cup {h}
         /\ UNCHANGED <<engine, moved, mislaid>>
      \/ /\ Needed(d) /\ d # Default /\ Filed /\ Failure /\ Points
         /\ mislaid' = TRUE
         /\ UNCHANGED pointed

-----------------------------------------------------------------------------
\* alpm_initialize: for no handle, so nothing is followed.  The address may be
\* that of a handle released before.
Initialize(h) ==
  /\ ~Running /\ h \notin live
  /\ live' = live \cup {h}
  /\ dir' = [dir EXCEPT ![h] = Default]
  /\ err' = [err EXCEPT ![h] = FALSE]
  /\ moved' = moved \ {h} /\ unread' = unread \ {h} /\ lapsed' = lapsed \ {h}
  /\ UNCHANGED <<inited, stk, seen, pointed, engine, faults, mislaid>>

\* A handle is not released, nor used, from a callback of its own release.
MayCall(h, op) ==
  /\ h \in live
  /\ op = "release" => ~Open(h)
  /\ \A i \in DOMAIN stk : stk[i].h = h => stk[i].op # "release"

\* A request for h, from the client or from one of its callbacks.  Every entry
\* point but alpm_errno clears the error.
Request(h, op, dest) ==
  /\ ~Running /\ Len(stk) < MaxDepth
  /\ MayCall(h, op)
  /\ Follow(h)
  /\ stk' = <<Frame(h, op, dest)>> \o stk
  /\ err' = [err EXCEPT ![h] = FALSE]
  /\ UNCHANGED <<live, dir, inited>>

\* alpm_errno: asked and answered.
Errno(h) ==
  /\ ~Running /\ MayCall(h, "errno")
  /\ Follow(h)
  /\ UNCHANGED lib

\* init_gpgme: "sets it the first time a signature is checked and never again".
CheckSignature ==
  LET d == dir[Head(stk).h]
  IN  /\ Running /\ ~inited /\ Head(stk).op = "call"
      /\ inited' = TRUE
      /\ engine' = d
      /\ mislaid' = (d # pointed)
      /\ moved' = MovedFor(Head(stk).h)
      /\ UNCHANGED <<live, dir, err, stk, seen, pointed, faults, unread, lapsed>>

RaiseCallback ==
  /\ Running /\ Head(stk).op # "set"
  /\ stk' = [stk EXCEPT ![1].at = "client"]
  /\ UNCHANGED <<live, dir, err, inited, seen, pointed, engine, faults, ghosts>>

AnswerCallback ==
  /\ stk # <<>> /\ ~Running
  /\ stk' = [stk EXCEPT ![1].at = "libalpm"]
  /\ UNCHANGED <<live, dir, err, inited, seen, pointed, engine, faults, ghosts>>

\* alpm_option_set_gpgdir takes the directory, before it logs that it did.
SetGpgdir ==
  LET f == Head(stk)
  IN  /\ Running /\ f.op = "set"
      /\ dir' = [dir EXCEPT ![f.h] = f.dest]
      /\ stk' = [stk EXCEPT ![1].op = "was set", ![1].dest = Nowhere]
      /\ unread' = IF \E i \in DOMAIN Tail(stk) : Tail(stk)[i].h = f.h
                   THEN unread \cup {f.h} ELSE unread
      /\ UNCHANGED <<live, err, inited, seen, pointed, engine, faults, moved, lapsed, mislaid>>

\* A call returns without an error of its own.
Succeeds ==
  LET f == Head(stk)
  IN  /\ Running /\ f.op # "set"
      /\ stk' = Tail(stk)
      /\ live' = IF f.op = "release" THEN live \ {f.h} ELSE live
      /\ UNCHANGED <<dir, err, inited, seen, pointed, engine, faults, ghosts>>

\* A call fails and leaves its error pending.
FailsWith ==
  /\ Running /\ Head(stk).op \in {"call", "set"}
  /\ err' = [err EXCEPT ![Head(stk).h] = TRUE]
  /\ stk' = Tail(stk)
  /\ UNCHANGED <<live, dir, inited, seen, pointed, engine, faults, ghosts>>

Next ==
  \/ \E h \in Addr :
       \/ Initialize(h)
       \/ \E op \in {"call", "release"} : Request(h, op, Nowhere)
       \/ \E d \in Dir : Request(h, "set", d)
       \/ Errno(h)
  \/ CheckSignature \/ SetGpgdir \/ RaiseCallback \/ AnswerCallback \/ Succeeds \/ FailsWith

Spec == Init /\ [][Next]_vars

-----------------------------------------------------------------------------
(* Properties.                                                             *)

\* What a frame may be; "was set" is a "set" that libalpm has taken.
Frames ==
  [h : Addr, op : {"call", "set", "was set", "release"}, dest : Dir \cup {Nowhere},
   at : {"libalpm", "client"}]

\* Directories where they belong; only the innermost call runs, for a live handle,
\* and a handle being released has no other call.
TypeOK ==
  /\ live \subseteq Addr
  /\ dir \in [Addr -> Dir] /\ err \in [Addr -> BOOLEAN]
  /\ seen \in [Addr -> Dir \cup {Nowhere}]
  /\ pointed \in Dir \cup {Nowhere} /\ engine \in Dir \cup {Nowhere}
  /\ inited \in BOOLEAN /\ mislaid \in BOOLEAN
  /\ stk \in Seq(Frames) /\ Len(stk) <= MaxDepth /\ faults \in 0 .. MaxFaults
  /\ moved \subseteq Addr /\ unread \subseteq Addr /\ lapsed \subseteq Addr
  /\ \A i \in DOMAIN stk :
       /\ stk[i].h \in live
       /\ i > 1 => stk[i].at = "client"
       /\ stk[i].op = "set" => stk[i].dest \in Dir
       /\ stk[i].op = "release" => \A j \in DOMAIN stk \ {i} : stk[j].h # stk[i].h

\* "Each handle's signatures, checked against that handle's keyring"
\* (arpc_gpgdir.c): wherever libalpm runs for a handle, gpgme points at the
\* handle's directory -- unless a call nested in this one was for another handle,
\* the entry is out of date (see EntryCurrent), gpgme could not be pointed for
\* this call, or gpgme is not where g_gpgdir says: init_gpgme does not tell, and a
\* copy may fail.
OwnKeyring ==
  Running /\ Head(stk).op = "call" =>
    LET h == Head(stk).h
    IN  \/ engine = dir[h]
        \/ h \in moved \cup unread \cup lapsed
        \/ mislaid

\* "Otherwise the last value read is still the handle's": while an error keeps
\* libalpm from being asked, the entry a call goes by is the handle's directory,
\* at any depth of nesting and also for a handle at the address of another --
\* unless the directory was set within a call for the handle, or could not be read.
EntryCurrent ==
  /\ TypeOK
  /\ \A h \in live : err[h] => seen[h] = dir[h] \/ h \in unread

=============================================================================
