---------------------------- MODULE MCTcpSession ----------------------------
(***************************************************************************)
(* Small instances of TcpSession for TLC.                                  *)
(***************************************************************************)
EXTENDS TcpSession

\* What the peers may send.
MCInputs == [peer : Peers, mac : Macs, bits : {SYN, FIN_ACK, ACK, PSH_ACK},
             seq : Seqs, ack : Seqs, len : {0, 1}]

NoLines == {}

\* The peers are alike; for runs without liveness.
PeerSymmetry == Permutations(Peers)

Command(last, id) == [len |-> 2, nl |-> TRUE, q |-> FALSE, last |-> last, id |-> id]

\* Close and chat commands for the slots; a chat line is one octet long.
CloseLines == {Command("q", i) : i \in Slots}
ChatLines == {Command("c", i) : i \in Slots}
             \cup {[len |-> 1, nl |-> FALSE, q |-> FALSE, last |-> "other", id |-> 0]}
AllLines == CloseLines \cup ChatLines

\* Those for the first slot, which either peer may hold.
FirstSlotLines == {m \in AllLines : m.id = 0}
=============================================================================
