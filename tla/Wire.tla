-------------------------------- MODULE Wire --------------------------------
(***************************************************************************)
(* A reply on its way from a handler to the client: written piece by piece  *)
(* into a growing buffer, spliced into the reply, framed (arpc_wire.c),      *)
(* moved through the pipe in chunks, and read again.  Every allocation may   *)
(* fail, the pipe may break anywhere, and a frame may be too long, or longer *)
(* than its length field can say.  Texts of other writers arrive too, and    *)
(* are read as they should be.                                              *)
(***************************************************************************)
EXTENDS Codec, FiniteSetsExt

CONSTANTS
  Results,        \* what handlers do: [fails, ret, outs], ret = NoNode for none
  Probes,         \* texts of other writers: see TextOf
  HdrBase,        \* values of a byte of the header (256); it has two here (4)
  MaxFrame,       \* ARPC_MAX_FRAME
  Chunks,         \* how much one ReadFile or WriteFile may move
  MaxFrames,      \* bound: frames sent
  MaxFaults       \* bound: allocations that fail

ASSUME WireAssumption ==
  /\ HdrBase \in Nat \ {0} /\ MaxFrame \in Nat /\ MaxFrame < HdrBase ^ 2
  /\ Chunks \subseteq Nat \ {0} /\ MaxFrames \in Nat /\ MaxFaults \in Nat

VARIABLES
  sent,           \* ghost: what is being sent, a result or a probe
  todo,           \* what is still to be written of it
  w,              \* the writer: rs.out, then that of the reply
  stage,          \* "idle", "result", "reply", "error", "send", "parse"
  out, pipe, rx,  \* the frame: not yet written, under way, read by the client
  up,             \* the connection
  got,            \* what the client made of it; NoNode until it has read all
  restarted,      \* ghost: a writer was started anew after a failure
  lost,           \* ghost: the bytes for whose base64 there was no memory
  frames, faults  \* so far

vars == <<sent, todo, w, stage, out, pipe, rx, up, got, restarted, lost, frames, faults>>

-----------------------------------------------------------------------------
(* The reply.  "i", "r" and "e" are the keys of the id, the result and the   *)
(* error, "v" is ARPC_RET_KEY, "o" and "p" are out parameters.               *)

Malformed == Node("malformed", 0, <<>>, <<>>)
OutKeys == << <<"o">>, <<"p">> >>
EFailed == 2
EInternal == 3

ReplyTo(result) == Obj(<< << <<"i">>, Num(1) >>, << <<"r">>, result >> >>)
ErrorReply(code) ==
  Obj(<< << <<"i">>, Num(1) >>, << <<"e">>, Obj(<< << <<"c">>, Num(code) >> >>) >> >>)

\* What a value should be read as; what is `gone` could not be encoded.
AsRead(v, gone) ==
  IF v.k # "bytes" THEN v ELSE IF v.str \in gone THEN Null ELSE Str(Encode(v.str))

\* The members that a handler's result should have.
MembersOf(r, gone) ==
  << << <<"v">>, IF r.ret = NoNode THEN Null ELSE AsRead(r.ret, gone) >> >>
    \o [i \in DOMAIN r.outs |-> <<OutKeys[i], AsRead(r.outs[i], gone)>>]

\* ensure_obj, which is called again and again.
Ensure == Op("ensure", "", <<>>, 0)
KeyOp(k) == Op("key", "", k, 0)
OpenObj == Op("open", "{", <<>>, 0)
CloseObj == Op("close", "}", <<>>, 0)

\* arpc_ret_*: a list is written through arpc_res_writer, which looks again.
RetOps(v) ==
  <<Ensure, KeyOp(<<"v">>)>> \o (IF v.k = "arr" THEN <<Ensure>> ELSE <<>>) \o OpsOf(v)

\* arpc_out_*: the return value goes first, null if there is none.
OutOps(r, i) ==
  <<Ensure>> \o (IF i = 1 /\ r.ret = NoNode THEN RetOps(Null) ELSE <<>>)
    \o <<KeyOp(OutKeys[i])>> \o OpsOf(r.outs[i])

\* The handler's writes, and what arpc_handle_parsed adds to them.
WritesOf(r) ==
  (IF r.ret = NoNode THEN <<>> ELSE RetOps(r.ret))
    \o FlattenSeq([i \in DOMAIN r.outs |-> OutOps(r, i)])
    \o <<Ensure>> \o (IF r.ret = NoNode /\ r.outs = <<>> THEN RetOps(Null) ELSE <<>>)
    \o <<CloseObj>>

\* The reply around a result: its text is spliced in as it is.
SpliceOps(text) ==
  <<OpenObj, KeyOp(<<"i">>), Op("num", "", <<>>, 1), Op("reserve", "", <<>>, Len(text) + 2),
    KeyOp(<<"r">>), Op("raw", "", text, 0), CloseObj>>

ErrorOps(code) == OpsOf(ErrorReply(code))

\* ensure_obj: `if (!rs->out.buf)`, whether or not that was a failure.
Starts(op) == op = Ensure /\ w.buf = <<>>

Before(op) == IF Starts(op) THEN Empty ELSE w
Done(op) == IF Starts(op) THEN OpenObj ELSE op

-----------------------------------------------------------------------------
(* The frame.                                                              *)

\* Header bytes have characters of their own.
HdrChars == <<"h0", "h1", "h2", "h3", "h4", "h5", "h6", "h7">>
HdrChar(b) == HdrChars[b + 1]
HdrByte(c) == SelectInSeq(HdrChars, LAMBDA h : h = c) - 1
HdrLen == 2

\* (unsigned)len.
Length(n) == n % HdrBase ^ 2

\* arpc_send_frame: the header, low byte first, and that many characters.
Framed(t) ==
  <<HdrChar(Len(t) % HdrBase), HdrChar((Len(t) \div HdrBase) % HdrBase)>>
    \o SubSeq(t, 1, Length(Len(t)))

\* The length that a header read says.
Announced == HdrByte(rx[1]) + HdrByte(rx[2]) * HdrBase

\* arpc_recv_frame: what it does not take.
RefusedLength(n) == n = 0 \/ n > MaxFrame

\* io_exact: how much it still waits for.
Missing ==
  IF Len(rx) < HdrLen THEN HdrLen - Len(rx)
  ELSE IF RefusedLength(Announced) THEN 0
  ELSE HdrLen + Announced - Len(rx)

-----------------------------------------------------------------------------
(* What other writers send: a number (its sign, its digits, and whether a   *)
(* point follows), brackets in brackets, or a string that should be base64. *)

TextOf(p) ==
  CASE p.k = "num"  -> (IF p.neg THEN <<"-">> ELSE <<>>)
                         \o [i \in DOMAIN p.digits |-> Digits[p.digits[i] + 1]]
                         \o (IF p.real THEN <<".", "0">> ELSE <<>>)
    [] p.k = "deep" -> [i \in 1 .. 2 * p.n |-> IF i <= p.n THEN "[" ELSE "]"]
    [] p.k = "b64"  -> <<"q">> \o p.chars \o <<"q">>

-----------------------------------------------------------------------------
Init ==
  /\ sent = [k |-> "none"] /\ todo = <<>> /\ w = Empty /\ stage = "idle"
  /\ out = <<>> /\ pipe = <<>> /\ rx = <<>> /\ up = TRUE
  /\ got = NoNode /\ restarted = FALSE /\ lost = {} /\ frames = 0 /\ faults = 0

\* A new exchange begins; the pipe is as the last one left it.
Begins(what) ==
  /\ stage = "idle" /\ up /\ frames < MaxFrames
  /\ sent' = what /\ got' = NoNode /\ restarted' = FALSE /\ lost' = {}
  /\ frames' = frames + 1
  /\ UNCHANGED <<pipe, rx, up, faults>>

\* arpc_handle_parsed calls a handler, which returns a result or fails.
Handle(r) ==
  /\ Begins([k |-> "result", r |-> r])
  /\ w' = Empty
  /\ stage' = IF r.fails THEN "error" ELSE "result"
  /\ todo' = IF r.fails THEN ErrorOps(EFailed) ELSE WritesOf(r)
  /\ UNCHANGED out

\* Another writer sends a text of its own.
Receive(p) ==
  /\ Begins([k |-> "probe", p |-> p])
  /\ stage' = "send" /\ out' = Framed(TextOf(p))
  /\ UNCHANGED <<todo, w>>

\* ensure_obj finds a buffer.
Skip ==
  /\ todo # <<>> /\ Head(todo) = Ensure /\ ~Starts(Ensure)
  /\ todo' = Tail(todo)
  /\ UNCHANGED <<sent, w, stage, out, pipe, rx, up, got, restarted, lost, frames, faults>>

\* One operation of the writer; growing the buffer for one of its pieces may fail.
Write ==
  LET op   == Head(todo)
      from == Before(op)
      does == Done(op)
  IN  /\ todo # <<>> /\ (op = Ensure => Starts(op))
      /\ \E f \in 0 .. Len(OpPieces(from, does)) :
           /\ f > 0 => /\ faults < MaxFaults
                       /\ Apply(from, does, f).err /\ ~Apply(from, does, 0).err
           /\ w' = Apply(from, does, f)
           /\ faults' = IF f > 0 THEN faults + 1 ELSE faults
      /\ restarted' = (restarted \/ (Starts(op) /\ w.err))
      /\ todo' = Tail(todo)
      /\ UNCHANGED <<sent, stage, out, pipe, rx, up, got, lost, frames>>

\* arpc_b64_encode has no memory: ajw_str gets NULL, and that stays null.  (It is called
\* before the key is written, but its answer is not looked at until here.)
EncodeNoMemory ==
  /\ todo # <<>> /\ Head(todo).k = "bytes"
  /\ faults < MaxFaults /\ faults' = faults + 1
  /\ lost' = lost \cup {Head(todo).s}
  /\ todo' = OpsOf(Null) \o Tail(todo)
  /\ UNCHANGED <<sent, w, stage, out, pipe, rx, up, got, restarted, frames>>

\* The result is complete: its text goes into the reply, whatever rs.out.err says.
Splice ==
  /\ stage = "result" /\ todo = <<>>
  /\ stage' = "reply" /\ todo' = SpliceOps(w.buf) /\ w' = Empty
  /\ UNCHANGED <<sent, out, pipe, rx, up, got, restarted, lost, frames, faults>>

\* finish: the text, if all of it could be written.
Finish ==
  /\ stage \in {"reply", "error"} /\ todo = <<>> /\ ~w.err
  /\ stage' = "send" /\ out' = Framed(w.buf) /\ w' = Empty
  /\ UNCHANGED <<sent, todo, pipe, rx, up, got, restarted, lost, frames, faults>>

\* Otherwise the error reply says so.
FinishNoMemory ==
  /\ stage = "reply" /\ todo = <<>> /\ w.err
  /\ stage' = "error" /\ todo' = ErrorOps(EInternal) /\ w' = Empty
  /\ UNCHANGED <<sent, out, pipe, rx, up, got, restarted, lost, frames, faults>>

\* The connection is down: the client's next call connects again.
Ends ==
  /\ up' = FALSE /\ stage' = "idle" /\ todo' = <<>> /\ w' = Empty
  /\ out' = <<>> /\ pipe' = <<>> /\ rx' = <<>>

\* Without even that, serve_connection ends.
NoReply ==
  /\ stage = "error" /\ todo = <<>> /\ w.err
  /\ Ends
  /\ UNCHANGED <<sent, got, restarted, lost, frames, faults>>

\* Mutant: what one WriteFile did not take is forgotten.
LeftNothing(s, n) == <<>>

\* io_exact goes on from where the last call stopped.
Left(s, n) == SubSeq(s, n + 1, Len(s))

\* io_exact, writing.
WriteChunk(c) ==
  LET n == Min({c, Len(out)})
  IN  /\ up /\ n > 0
      /\ pipe' = pipe \o SubSeq(out, 1, n) /\ out' = Left(out, n)
      /\ UNCHANGED <<sent, todo, w, stage, rx, up, got, restarted, lost, frames, faults>>

\* io_exact, reading.
ReadChunk(c) ==
  LET n == Min({c, Len(pipe), Missing})
  IN  /\ up /\ stage = "send" /\ n > 0
      /\ rx' = rx \o SubSeq(pipe, 1, n) /\ pipe' = SubSeq(pipe, n + 1, Len(pipe))
      /\ UNCHANGED <<sent, todo, w, stage, out, up, got, restarted, lost, frames, faults>>

\* arpc_recv_frame refuses a length, or has no memory for it: the client disconnects.
Refuse ==
  /\ up /\ stage = "send" /\ Len(rx) = HdrLen
  /\ \/ RefusedLength(Announced) /\ UNCHANGED faults
     \/ ~RefusedLength(Announced) /\ faults < MaxFaults /\ faults' = faults + 1
  /\ Ends
  /\ UNCHANGED <<sent, got, restarted, lost, frames>>

\* io_exact has read what the header said.
Take ==
  /\ up /\ stage = "send" /\ Len(rx) > HdrLen /\ Missing = 0
  /\ stage' = "parse"
  /\ UNCHANGED <<sent, todo, w, out, pipe, rx, up, got, restarted, lost, frames, faults>>

\* transact: a malformed frame ends the connection.
ParseFrame ==
  LET doc == Parse(SubSeq(rx, HdrLen + 1, Len(rx)))
  IN  /\ stage = "parse"
      /\ got' = IF doc = NoNode THEN Malformed ELSE doc
      /\ IF doc = NoNode THEN Ends
         ELSE stage' = "idle" /\ rx' = <<>> /\ UNCHANGED <<todo, w, out, pipe, up>>
      /\ UNCHANGED <<sent, restarted, lost, frames, faults>>

\* There is no memory for the nodes or strings of a frame.  To transact that is a malformed
\* one; arpc_invoke, which parses the reply again, fails the call and keeps the connection.
ParseNoMemory ==
  /\ stage = "parse" /\ faults < MaxFaults /\ faults' = faults + 1
  /\ \/ Ends
     \/ /\ Parse(SubSeq(rx, HdrLen + 1, Len(rx))) # NoNode
        /\ stage' = "idle" /\ rx' = <<>> /\ UNCHANGED <<todo, w, out, pipe, up>>
  /\ UNCHANGED <<sent, got, restarted, lost, frames>>

\* Either end goes away in the middle of a frame.
Break ==
  /\ up /\ stage = "send"
  /\ Ends
  /\ UNCHANGED <<sent, got, restarted, lost, frames, faults>>

\* The next call finds a fresh pipe.
Connect ==
  /\ ~up /\ up' = TRUE
  /\ UNCHANGED <<sent, todo, w, stage, out, pipe, rx, got, restarted, lost, frames, faults>>

Transfer ==
  \/ \E c \in Chunks : WriteChunk(c) \/ ReadChunk(c)
  \/ Refuse \/ Take

Next ==
  \/ \E r \in Results : Handle(r)
  \/ \E p \in Probes : Receive(p)
  \/ Skip \/ Write \/ EncodeNoMemory \/ Splice \/ Finish \/ FinishNoMemory \/ NoReply
  \/ Transfer \/ ParseFrame \/ ParseNoMemory \/ Break \/ Connect

Spec == Init /\ [][Next]_vars

\* Both ends go on with a frame that is under way.
FairSpec == Spec /\ WF_vars(Transfer)

-----------------------------------------------------------------------------
(* Properties.                                                             *)

\* The variables have their types, and the client never holds more than a header
\* and ARPC_MAX_FRAME characters, whatever length the other end announces.
TypeOK ==
  /\ stage \in {"idle", "result", "reply", "error", "send", "parse"}
  /\ up \in BOOLEAN /\ restarted \in BOOLEAN
  /\ frames \in 0 .. MaxFrames /\ faults \in 0 .. MaxFaults
  /\ w.err \in BOOLEAN /\ w.comma \in BOOLEAN /\ w.past \in BOOLEAN /\ w.cap \in Nat
  /\ stage \in {"idle", "send", "parse"} => todo = <<>>
  /\ Len(rx) <= HdrLen + MaxFrame

\* The writer never writes past its buffer, the terminating NUL included: the
\* unchecked writes of arpc_json.c ("every caller reserves first") always have room,
\* for the longest number and for every escape, also after an allocation failed.
\* Nor does the reader take more than the header and ARPC_MAX_FRAME (TypeOK).
InBounds == TypeOK /\ ~w.past

\* The text that a reply should be, and whether a frame can carry it.
RightReply(r, gone) ==
  IF r.fails THEN ErrorReply(EFailed) ELSE ReplyTo(Obj(MembersOf(r, gone)))

RECURSIVE TextLen(_)
TextLen(v) ==
  LET rest == [v EXCEPT !.child = Tail(@)]
      key  == IF v.k = "obj" THEN Len(v.child[1][1]) + 3 ELSE 0
  IN  CASE v.child # <<>> ->
             1 + key + TextLen(v.child[1][2])
               + (IF rest.child = <<>> THEN 1 ELSE TextLen(rest))
        [] v.k \in {"arr", "obj"} -> 2
        [] v.k = "null" -> 1
        [] v.k = "num" -> Len(NumText(v.num))
        [] v.k = "str" -> 2 + Len(FlattenSeq([i \in DOMAIN v.str |-> Escaped(v.str[i])]))

TooLong(r) == TextLen(RightReply(r, {})) > MaxFrame

\* The client reads the result that the handler wrote, or nothing.  Splicing does not
\* look at rs.out.err, a frame may be cut by its length field, and the buffer may stop
\* growing at any piece: in all these cases the text is malformed, so the client
\* disconnects, or an error reply says that memory ran out.  Two exceptions, in which a
\* well-formed reply says something else: ensure_obj starts a writer anew whose very first
\* allocation failed, and the result lacks what was written before, the return value
\* first; and bytes (no other value) read as null when arpc_b64_encode had no memory.
Faithful ==
  sent.k = "result" /\ got # NoNode =>
    LET r == sent.r
        all == MembersOf(r, lost)
    IN  \/ got = RightReply(r, lost)
        \/ faults > 0 /\ got = ErrorReply(EInternal)
        \/ got = Malformed /\ (faults > 0 \/ TooLong(r))
        \/ restarted /\ \E n \in 2 .. Len(all) + 1 : got = ReplyTo(Obj(SubSeq(all, n, Len(all))))

RECURSIVE Nested(_), Magnitude10(_)
Nested(n) == Arr(IF n = 1 THEN <<>> ELSE <<Nested(n - 1)>>)
Magnitude10(ds) == IF ds = <<>> THEN 0 ELSE 10 * Magnitude10(Front(ds)) + Last(ds)

\* What a text means.
Means(p) ==
  LET v == IF p.neg THEN -Magnitude10(p.digits) ELSE Magnitude10(p.digits)
  IN  CASE p.k = "num"  -> IF p.digits = <<>> \/ p.real \/ v \notin IntMin .. IntMax
                           THEN Malformed ELSE Num(v)
        [] p.k = "deep" -> IF p.n > MaxDepth THEN Malformed ELSE Nested(p.n)
        [] p.k = "b64"  -> Str(p.chars)

\* Padding belongs to the end of a text of whole groups, and everything else is a digit.
WellPadded(t) ==
  /\ Len(t) % 4 = 0
  /\ \E n \in 0 .. Min({2, Len(t)}) :
       /\ \A i \in Len(t) - n + 1 .. Len(t) : t[i] = Pad
       /\ \A i \in 1 .. Len(t) - n : \E d \in 1 .. DigitBase : t[i] = Letters[d]

\* arpc_b64_decode takes exactly the texts that are well padded ("AB=C" is not), gives
\* as many bytes as the padding leaves, and encoding them gives the text back, up to
\* the digit whose low bits the padding cuts off.
BytesExact ==
  got.k = "str" =>
    LET t == got.str
        bs == Decode(t)
        n == Cardinality({i \in DOMAIN t : t[i] = Pad})
    IN  /\ bs # NoBytes <=> WellPadded(t)
        /\ bs # NoBytes =>
             /\ Len(bs) = 3 * (Len(t) \div 4) - n
             /\ LET back == Encode(bs)
                IN  /\ Len(back) = Len(t) /\ Decode(back) = bs
                    /\ \A i \in DOMAIN t : (i # Len(t) - n \/ n = 0) => back[i] = t[i]

\* The reader takes a number exactly when it fits the integers (LLONG_MIN, whose
\* magnitude does not, and digits that wrap around included) and is no real, takes it
\* for what it is, and follows brackets to exactly AJ_MAX_DEPTH levels; and a string
\* is taken for bytes as BytesExact says.
ReadsExactly ==
  sent.k = "probe" /\ got # NoNode => got = Means(sent.p) /\ BytesExact

\* A frame is read to its end or the connection goes, however the chunks fall: the
\* reader never waits for characters that the writer does not send.
Settles == stage = "send" ~> stage # "send"

=============================================================================
