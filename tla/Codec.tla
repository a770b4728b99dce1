------------------------------- MODULE Codec --------------------------------
(***************************************************************************)
(* What goes on the wire: the JSON writer and reader (arpc_json.c) and      *)
(* base64 (arpc_b64.c), as operators.                                       *)
(*                                                                         *)
(* A text is a sequence of characters: the punctuation of JSON ("q" is the  *)
(* quote, "b" the backslash), digits, and one character for each class the  *)
(* code tells apart: a plain one "a", a control character with a short       *)
(* escape "c" (written b n), one without "x" (written b u u), and "null".    *)
(* Widths are constants: integers of Bits bits, bytes of which three make   *)
(* four base64 digits.                                                     *)
(***************************************************************************)
EXTENDS Integers, Sequences, SequencesExt

CONSTANTS
  Bits,           \* width of an integer (64)
  MaxDepth,       \* AJ_MAX_DEPTH (256)
  InitCap,        \* the first capacity of a writer (256)
  NumRoom,        \* what ajw_i64 reserves (24)
  EscRoom,        \* what wstr_escaped reserves for an escape (6)
  ByteBase,       \* values of a byte (256)
  DigitBase       \* values of a base64 digit (64)

ASSUME CodecAssumption ==
  /\ Bits \in Nat \ {0} /\ MaxDepth \in Nat
  /\ InitCap \in Nat \ {0} /\ NumRoom \in Nat /\ EscRoom \in Nat
  /\ ByteBase ^ 3 = DigitBase ^ 4

IntMax == 2 ^ (Bits - 1) - 1
IntMin == -(2 ^ (Bits - 1))
UIntMax == 2 ^ Bits - 1

Digits == <<"0", "1", "2", "3", "4", "5", "6", "7", "8", "9">>
IsDigit(c) == \E n \in 1 .. 10 : Digits[n] = c
DigitOf(c) == (CHOOSE n \in 1 .. 10 : Digits[n] = c) - 1

\* The nodes of a document; members of an object carry their key.
Node(k, n, s, c) == [k |-> k, num |-> n, str |-> s, child |-> c]
Num(n) == Node("num", n, <<>>, <<>>)
Str(s) == Node("str", 0, s, <<>>)
Bytes(bs) == Node("bytes", 0, bs, <<>>)      \* written as a string, in base64
Null == Node("null", 0, <<>>, <<>>)
Arr(vs) == Node("arr", 0, <<>>, [i \in DOMAIN vs |-> << <<>>, vs[i] >>])
Obj(ms) == Node("obj", 0, <<>>, ms)
NoNode == Node("none", 0, <<>>, <<>>)

-----------------------------------------------------------------------------
(* Base64.                                                                 *)

Letters == <<"A", "B", "C", "D", "E", "F", "G", "H">>
Pad == "="

\* arpc_b64_encode: the o-th character.
Encode(bs) ==
  LET n       == Len(bs)
      Byte(j) == IF j <= n THEN bs[j] ELSE 0
      Group(g) == Byte(3 * g + 1) * ByteBase ^ 2 + Byte(3 * g + 2) * ByteBase
                    + Byte(3 * g + 3)
  IN  [o \in 1 .. ((n + 2) \div 3) * 4 |->
        LET g == (o - 1) \div 4
            k == (o - 1) % 4
        IN  IF k >= 2 /\ n - 3 * g < k THEN Pad
            ELSE Letters[((Group(g) \div DigitBase ^ (3 - k)) % DigitBase) + 1]]

NoBytes == <<-1>>

\* "=" is only ever the third or fourth character of the final group.
IsPad(t, i) == t[i] = Pad /\ i > Len(t) - 2

\* arpc_b64_decode; NoBytes for text that is refused.
Decode(t) ==
  LET len   == Len(t)
      pad   == IF len = 0 \/ t[len] # Pad THEN 0 ELSE IF t[len - 1] = Pad THEN 2 ELSE 1
      known(i) == \E n \in 1 .. DigitBase : Letters[n] = t[i]
      val(i) == IF IsPad(t, i) THEN 0 ELSE (CHOOSE n \in 1 .. DigitBase : Letters[n] = t[i]) - 1
      group(g) == val(4 * g + 1) * DigitBase ^ 3 + val(4 * g + 2) * DigitBase ^ 2
                    + val(4 * g + 3) * DigitBase + val(4 * g + 4)
  IN  IF \/ len % 4 # 0
         \/ len > 0 /\ t[len] # Pad /\ t[len - 1] = Pad
         \/ \E i \in 1 .. len : ~IsPad(t, i) /\ ~known(i)
      THEN NoBytes
      ELSE [o \in 1 .. (len \div 4) * 3 - pad |->
             (group((o - 1) \div 3) \div ByteBase ^ (2 - ((o - 1) % 3))) % ByteBase]

-----------------------------------------------------------------------------
(* The writer.  An operation is a sequence of pieces; each reserves room    *)
(* for `need` characters and then writes its text without looking.          *)

\* `past` is a ghost: something was written behind the end of the buffer.
Empty == [buf |-> <<>>, cap |-> 0, comma |-> FALSE, err |-> FALSE, past |-> FALSE]

\* wputc_ and wraw_, which write a NUL after the text too.
Written(w, text) ==
  [w EXCEPT !.buf = @ \o text, !.past = @ \/ Len(w.buf) + Len(text) + 1 > w.cap]

RECURSIVE Doubled(_, _)
Doubled(cap, n) == IF cap >= n THEN cap ELSE Doubled(2 * cap, n)

\* Mutant: no room is kept for the terminating NUL.
GrowExact(w, need, fails) ==
  LET least == Len(w.buf) + need
  IN  CASE w.err \/ least <= w.cap -> w
        [] least > w.cap /\ ~w.err /\ fails -> [w EXCEPT !.err = TRUE]
        [] OTHER -> [w EXCEPT !.cap = Doubled(IF w.cap = 0 THEN InitCap ELSE w.cap, least)]

\* wgrow: nothing after a failure; otherwise more memory, if there is any.
Grow(w, need, fails) ==
  LET least == Len(w.buf) + need + 1
  IN  CASE w.err \/ least <= w.cap -> w
        [] least > w.cap /\ ~w.err /\ fails -> [w EXCEPT !.err = TRUE]
        [] OTHER -> [w EXCEPT !.cap = Doubled(IF w.cap = 0 THEN InitCap ELSE w.cap, least)]

Piece(need, text) == [need |-> need, text |-> text]
Char(c) == Piece(1, <<c>>)

\* Mutant: pieces go on being written after one has failed.
PutForgetful(w, piece, fails) ==
  LET g == Grow([w EXCEPT !.err = FALSE], piece.need, fails)
  IN  IF g.err THEN g ELSE Written(g, piece.text)

Put(w, piece, fails) ==
  LET g == Grow(w, piece.need, fails)
  IN  IF g.err THEN g ELSE Written(g, piece.text)

\* All pieces, of which the f-th does not get its memory (none for f = 0).
RECURSIVE Pieces(_, _, _)
Pieces(w, ps, f) ==
  IF ps = <<>> THEN w ELSE Pieces(Put(w, Head(ps), f = 1), Tail(ps), f - 1)

Sep(w) == IF w.comma THEN <<Char(",")>> ELSE <<>>

Escaped(c) ==
  CASE c = "q" -> <<"b", "q">>
    [] c = "b" -> <<"b", "b">>
    [] c = "c" -> <<"b", "n">>
    [] c = "x" -> <<"b", "u", "u">>
    [] OTHER   -> <<c>>

\* wstr_escaped: the same room for every escape; a run of plain characters is one of
\* them here.
Quoted(s) ==
  <<Piece(Len(s) + 2, <<"q">>)>>
    \o [i \in DOMAIN s |-> IF Escaped(s[i]) = <<s[i]>> THEN Char(s[i])
                           ELSE Piece(EscRoom, Escaped(s[i]))]
    \o <<Char("q")>>

RECURSIVE Decimal(_)
Decimal(u) ==
  IF u < 10 THEN <<Digits[u + 1]>> ELSE Append(Decimal(u \div 10), Digits[(u % 10) + 1])

\* The unsigned magnitude, which the type of v need not hold.
Magnitude(v) == IF v < 0 THEN -(v + 1) + 1 ELSE v

NumText(v) == (IF v < 0 THEN <<"-">> ELSE <<>>) \o Decimal(Magnitude(v))

\* The operations ajw_*: what each writes, and whether a comma is due after it.
Op(k, c, s, n) == [k |-> k, c |-> c, s |-> s, n |-> n]

OpPieces(w, op) ==
  CASE op.k = "open"  -> Sep(w) \o <<Char(op.c)>>
    [] op.k = "close" -> <<Char(op.c)>>
    [] op.k = "key"   -> Sep(w) \o Quoted(op.s) \o <<Char(":")>>
    [] op.k = "str"   -> Sep(w) \o Quoted(op.s)
    [] op.k = "bytes" -> Sep(w) \o Quoted(Encode(op.s))
    [] op.k = "num"   -> Sep(w) \o <<Piece(NumRoom, NumText(op.n))>>
    [] op.k = "null"  -> Sep(w) \o <<Char("null")>>
    [] op.k = "raw"   -> <<Piece(Len(op.s), op.s)>>
    [] op.k = "reserve" -> <<Piece(op.n, <<>>)>>

Apply(w, op, f) ==
  LET to == Pieces(w, OpPieces(w, op), f)
  IN  IF op.k = "reserve" THEN to
      ELSE [to EXCEPT !.comma = op.k \notin {"open", "key"}]

\* The operations that write a document.
RECURSIVE OpsOf(_)
OpsOf(v) ==
  LET members == FlattenSeq([i \in DOMAIN v.child |->
                   (IF v.k = "obj" THEN <<Op("key", "", v.child[i][1], 0)>> ELSE <<>>)
                     \o OpsOf(v.child[i][2])])
  IN  CASE v.k = "num"  -> <<Op("num", "", <<>>, v.num)>>
        [] v.k \in {"str", "bytes"} -> <<Op(v.k, "", v.str, 0)>>
        [] v.k = "null" -> <<Op("null", "", <<>>, 0)>>
        [] v.k = "arr"  -> <<Op("open", "[", <<>>, 0)>> \o members \o <<Op("close", "]", <<>>, 0)>>
        [] v.k = "obj"  -> <<Op("open", "{", <<>>, 0)>> \o members \o <<Op("close", "}", <<>>, 0)>>

-----------------------------------------------------------------------------
(* The reader.  A result is the position after what was read, 0 if it was   *)
(* refused, and the node.                                                   *)

Read(at, v) == [at |-> at, v |-> v]
Refused == Read(0, NoNode)
Is(t, i, c) == i <= Len(t) /\ t[i] = c

\* What a short escape stands for; "none" for one that does not exist.
Unescaped(c) ==
  CASE c = "q" -> "q" [] c = "b" -> "b" [] c = "n" -> "c" [] OTHER -> "none"

\* parse_string_raw, after the opening quote.
RECURSIVE StringFrom(_, _, _)
StringFrom(t, i, s) ==
  CASE i > Len(t)                -> Refused
    [] Is(t, i, "q")             -> Read(i + 1, Str(s))
    [] Is(t, i, "b") /\ Is(t, i + 1, "u") /\ Is(t, i + 2, "u")
         -> StringFrom(t, i + 3, Append(s, "x"))
    [] Is(t, i, "b") /\ i < Len(t) /\ Unescaped(t[i + 1]) # "none"
         -> StringFrom(t, i + 2, Append(s, Unescaped(t[i + 1])))
    [] i <= Len(t) /\ t[i] \notin {"q", "b", "c", "x"}
         -> StringFrom(t, i + 1, Append(s, t[i]))
    [] OTHER                     -> Refused

\* Mutant: the check that u * 10 + d fits leaves out the digit.
OverflowsAlmost(u, d) == u > UIntMax \div 10

Overflows(u, d) == u > (UIntMax - d) \div 10

\* The digits from i on, or -1 for a number that does not fit.
RECURSIVE Accumulated(_, _, _)
Accumulated(t, i, u) ==
  IF i > Len(t) \/ ~IsDigit(t[i]) THEN [at |-> i, u |-> u]
  ELSE IF Overflows(u, DigitOf(t[i])) THEN [at |-> i, u |-> -1]
  ELSE Accumulated(t, i + 1, (u * 10 + DigitOf(t[i])) % 2 ^ Bits)

Number(t, i) ==
  LET neg   == Is(t, i, "-")
      start == IF neg THEN i + 1 ELSE i
      a     == Accumulated(t, start, 0)
  IN  CASE start > Len(t) \/ ~IsDigit(t[start])      -> Refused
        [] a.u = -1 \/ Is(t, a.at, ".")               -> Refused
        [] neg  /\ a.u > IntMax + 1                   -> Refused
        [] ~neg /\ a.u > IntMax                       -> Refused
        [] OTHER -> Read(a.at, Num(IF neg THEN -a.u ELSE a.u))

RECURSIVE Value(_, _, _), Members(_, _, _, _, _)

TooDeep(depth) == depth >= MaxDepth

Value(t, i, depth) ==
  CASE i > Len(t)       -> Refused
    [] Is(t, i, "{") \/ Is(t, i, "[") ->
         LET close == IF t[i] = "{" THEN "}" ELSE "]"
         IN  IF TooDeep(depth) THEN Refused
             ELSE IF Is(t, i + 1, close)
             THEN Read(i + 2, Node(IF t[i] = "{" THEN "obj" ELSE "arr", 0, <<>>, <<>>))
             ELSE Members(t, i + 1, depth + 1, close, <<>>)
    [] Is(t, i, "q")    -> StringFrom(t, i + 1, <<>>)
    [] Is(t, i, "null") -> Read(i + 1, Null)
    [] OTHER            -> Number(t, i)

\* parse_container_: a member, and what may follow it.
Members(t, i, depth, close, so_far) ==
  LET isObj == close = "}"
      key   == IF isObj /\ Is(t, i, "q") THEN StringFrom(t, i + 1, <<>>) ELSE Refused
      value == IF ~isObj THEN Value(t, i, depth)
               ELSE IF key.at # 0 /\ Is(t, key.at, ":")
               THEN Value(t, key.at + 1, depth) ELSE Refused
      all   == Append(so_far, <<key.v.str, value.v>>)
  IN  CASE value.at = 0           -> Refused
        [] Is(t, value.at, ",")   -> Members(t, value.at + 1, depth, close, all)
        [] Is(t, value.at, close) ->
             Read(value.at + 1, Node(IF isObj THEN "obj" ELSE "arr", 0, <<>>, all))
        [] OTHER                  -> Refused

\* aj_parse: a value, and nothing after it.
Parse(t) ==
  LET r == Value(t, 1, 0)
  IN  IF r.at = Len(t) + 1 THEN r.v ELSE NoNode

\* aj_member: the first of that key.
Member(v, key) ==
  LET at == {i \in DOMAIN v.child : v.child[i][1] = key}
  IN  IF v.k # "obj" \/ at = {} THEN NoNode
      ELSE v.child[CHOOSE i \in at : \A j \in at : i <= j][2]

=============================================================================
