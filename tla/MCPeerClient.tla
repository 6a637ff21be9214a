---------------------------- MODULE MCPeerClient ----------------------------
(* Nine pieces take two bitfield bytes, so a payload can be whole, or short *)
(* and a Have can fall inside or outside what the peer sent.           *)
EXTENDS PeerClient

MCPayloads == {<<{7}>>, <<{6}, {7}>>}
MCHaveIndices == {0, 8}

(* request stands for piece and cancel, bad_have for the other messages that *)
(* recv_bitfield skips and handle_message ignores: the code does not tell    *)
(* them apart.                                                               *)
MCKinds == {"choke", "unchoke", "request", "keep_alive", "bad_have", "bad_id",
            "too_large"}

MCGarbage ==
    {Simple("unchoke"), [kind |-> "have", index |-> 8, data |-> <<>>]}
=============================================================================
