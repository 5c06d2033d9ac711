----------------------------- MODULE MCTcpTable -----------------------------
(***************************************************************************)
(* Small instances of TcpTable for TLC.                                    *)
(***************************************************************************)
EXTENDS TcpTable

CONSTANTS Lens,      \* data lengths of PSH/ACK and ACK segments
          SeqsIn     \* sequence numbers of arriving segments

\* Every kind of segment the switch tells apart, with and without data, and
\* an RST (4) for the default case. Acknowledgement numbers are the sequence
\* number's, so that a wrapped number and a small one both reach curr_seq.
MCInputs ==
    {s \in [peer : Peers, mac : Macs, bits : {SYN, ACK, PSH_ACK, FIN_ACK, SYN_ACK, 4},
            seq : SeqsIn, ack : SeqsIn, len : Lens] :
        /\ s.bits \notin {ACK, PSH_ACK} => s.len = 0
        /\ s.ack = s.seq}

\* A close and a chat command for every slot and one beyond, one chat line,
\* a lone q with and without a newline, a line that is no command, a command
\* with an ID of -1, and the end of file.
MCLines ==
    [len : {2}, nl : {TRUE}, q : {FALSE}, last : {"c", "q"},
     id : 0 .. TCP_CONNECTION_LIMIT]
    \cup {[len |-> 1, nl |-> nl, q |-> TRUE, last |-> "q", id |-> 0] : nl \in BOOLEAN}
    \cup {[len |-> 3, nl |-> TRUE, q |-> FALSE, last |-> "c", id |-> -1],
          [len |-> 2, nl |-> TRUE, q |-> FALSE, last |-> "other", id |-> 0],
          [len |-> 0, nl |-> FALSE, q |-> FALSE, last |-> "other", id |-> 0]}
=============================================================================
