---------------------------- MODULE MC_PeerChannel ----------------------------
(* The connection message in the clear, metadata sealed, then a peer      *)
(* message sealed in two chunks: a seed near the end of the nonce space   *)
(* runs out before the message is sent.                                    *)
EXTENDS PeerChannel

MCOutbox ==
    <<[data |-> [msg |-> "connection", part |-> 1, parts |-> 1], enc |-> FALSE],
      [data |-> [msg |-> "metadata", part |-> 1, parts |-> 1], enc |-> TRUE],
      [data |-> [msg |-> "message", part |-> 1, parts |-> 2], enc |-> TRUE],
      [data |-> [msg |-> "message", part |-> 2, parts |-> 2], enc |-> TRUE]>>

MCSeeds == 0..(NonceSpace - 1)

=============================================================================
