----------------------------- MODULE MCPeerWire -----------------------------
(* Blocks that fit, overlap, end at the end of the buffer, pass it by one,  *)
(* start past it or at the last offset of a word, are of another piece, or  *)
(* fit the buffer and not a message; every kind of message without data;    *)
(* and every kind of malformed frame.                                       *)
EXTENDS PeerWire

Block(i, b, d) == [kind |-> "piece", index |-> i, begin |-> b, data |-> d]
Raw(b)         == [kind |-> "malformed", raw |-> b]

MCMessages ==
    {Block(12, 0, <<1, 2>>), Block(12, 1, <<3>>), Block(12, 4, <<4>>), Block(12, 4, <<5, 6>>),
     Block(12, 5, <<>>), Block(12, 9999, <<7>>), Block(21, 0, <<8>>),
     Block(12, 0, <<1, 2, 3, 4, 5>>)}
      \cup {[kind |-> "have", index |-> i] : i \in {0, 1234, 9999}}
      \cup {[kind |-> "plain", id |-> i] : i \in {0, 3, 8}}
      \cup {[kind |-> "request", index |-> 12, begin |-> 0, length |-> 3],
            [kind |-> "keep_alive"]}
      \cup {Raw(<<0, 0, 0, 1, 9>>), [kind |-> "ignored", raw |-> <<0, 0, 0, 4, 4, 0, 0, 0>>],
            Raw(<<0, 0, 0, 8, 7, 0, 0, 1, 2, 0, 0, 0>>),
            Raw(<<0, 0, 1, 4>> \o [i \in 1 .. 14 |-> 0])}
=============================================================================
