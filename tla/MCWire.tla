------------------------------- MODULE MCWire -------------------------------
(* The results and the texts of the instance for TLC.                       *)
EXTENDS Wire

Xs(n) == [i \in 1 .. n |-> "x"]
Result(ret, outs) == [fails |-> FALSE, ret |-> ret, outs |-> outs]

\* Short ones of every kind, and strings whose replies have just ARPC_MAX_FRAME
\* characters, more than that, as many as the length field has values, and more.
MCResults ==
  {Result(v, <<>>) : v \in {NoNode, Num(IntMin), Num(IntMax), Str(<<"q", "a", "c">>),
                            Arr(<<Num(1), Arr(<<>>)>>)}
                         \cup {Str(Xs(n)) : n \in {6, 7, 9, 10, 15}}
                         \cup {Str(Xs(9) \o <<"a", "a">>), Str(<<"a">> \o Xs(3)),
                               Bytes(<<>>), Bytes(<<5>>)}}
    \cup {Result(NoNode, <<Num(5)>>), Result(Num(-1), <<Str(<<"b">>)>>),
          Result(Num(0), <<Bytes(<<3>>)>>), Result(Bytes(<<4>>), <<Bytes(<<2>>)>>),
          Result(Num(2), <<Null, Num(0)>>), Result(Arr(<<Num(7)>>), <<Num(3)>>)}
    \cup {[fails |-> TRUE, ret |-> NoNode, outs |-> <<>>]}

MCProbes ==
  [k : {"num"}, neg : BOOLEAN, real : {FALSE},
   digits : {<<>>, <<0>>, <<1, 2, 7>>, <<1, 2, 8>>, <<1, 2, 9>>, <<2, 5, 5>>, <<2, 5, 6>>,
             <<2, 5, 9>>, <<2, 6, 0>>, <<1, 0, 2, 3>>, <<5, 1, 2>>, <<0, 0, 7>>}]
    \cup [k : {"num"}, neg : {FALSE}, real : {TRUE}, digits : {<<1>>}]
    \cup [k : {"deep"}, n : 1 .. MaxDepth + 2]
    \cup [k : {"b64"}, chars : [1 .. 4 -> {"A", "H", Pad}]
            \cup {<<>>, <<"A">>, <<"D", "A", "a", "A">>,
                  <<"D", "H", Pad, Pad, "D", "H", "A", "A">>,
                  <<"D", "H", "A", Pad, "D", "H", Pad, Pad>>,
                  <<"D", "H", "A", "C", "D", "H", Pad, Pad>>,
                  <<"D", "H", "A", "C", "D", "H", "C", Pad>>}]
=============================================================================
