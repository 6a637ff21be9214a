----------------------------- MODULE MCDownload -----------------------------
(* URLs repeated within a tier, across tiers and as the primary one, and an *)
(* URL of a scheme that is not contacted.                                   *)
EXTENDS Download

MCUrls == {"udp1", "http2", "ftp"}
MCTiers == {<<>>, <<<<"udp1", "http2">>, <<"udp1">>>>, <<<<"ftp">>, <<"http2", "http2">>>>}

P(i) == [ip |-> <<10, 0, 0, i>>, port |-> 256 * i + 2]

(* Answers that overlap, repeat a peer, are empty, ask for less and for     *)
(* more than half an hour, and for so much that i64 states it as negative.  *)
MCAnswers ==
    {[interval |-> 900, peers |-> <<P(1), P(2), P(1)>>],
     [interval |-> 7999, peers |-> <<P(2), P(3)>>],
     [interval |-> 600, peers |-> <<>>]}

(* An error page, a refusal, peers missing, of another type, cut short.     *)
MCBadBodies ==
    {[error |-> "decode"], [dict |-> ("failure reason" :> [bytes |-> <<1>>])
                                       @@ ("peers" :> [bytes |-> <<>>])],
     [dict |-> ("interval" :> [int |-> 5])],
     [dict |-> ("peers" :> [list |-> <<>>])],
     [dict |-> ("peers" :> [bytes |-> <<10, 0, 0, 1, 1>>])], [list |-> <<>>]}
=============================================================================
