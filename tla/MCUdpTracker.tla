---------------------------- MODULE MCUdpTracker ----------------------------
(* One tracker behind two URLs, or two trackers; one port, so that the      *)
(* second announce meets what the first one left, or two.                   *)
EXTENDS UdpTracker

(* The second id is what is left of the first without its last byte.        *)
MCIds == << <<1, 2, 3, 4, 5, 6, 7, 8>>, <<1, 2, 3, 4, 5, 6, 7, 0>> >>

(* An answer without peers, and one with more than the buffer holds, of     *)
(* which one has port 0.                                                    *)
MCResponses ==
    {[interval |-> 1, peers |-> <<>>],
     [interval |-> 2, peers |-> <<[ip |-> 1, port |-> 0], [ip |-> 2, port |-> 2],
                                  [ip |-> 3, port |-> 3]>>]}
=============================================================================
