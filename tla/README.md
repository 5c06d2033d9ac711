# A verification development for osi-network-stack

The repository is a user-space network stack in C: one process reads Ethernet
frames from virtual VDE links, answers ARP, routes IPv4 packets, reports
undeliverable ones with ICMP, and serves a small TCP endpoint that a user at
the terminal can inspect, chat through and close. Beside it stand a few tools
and three study programs. This directory holds TLA+ modules translated from the
C source, TLC runs over small instances of them, and proofs checked by TLAPS.
`PROJECT.json` maps every definition to the lines it models.

## 1. Inventory

### Parts, their state and their operations

| Part | Source | State | Operations |
|---|---|---|---|
| TCP endpoint | `tcp.c`, `tcp.h` | `connection_table[TCP_CONNECTION_LIMIT]`: key, numbers, status, `io` per slot | `handle_tcp`, `handle_tcp_payload`, `connection_lookup`, `is_space`, `create_tcp_segment` |
| User interaction | `tcp.c` | `io` of the slots | `interaction_handler`, `promise`, `print_connections` |
| Poll loop | `stack.c` | `pollfd` array, its index in the round | `main`: connect, `poll`, one round over the descriptors |
| Ethernet reception | `ethernet.c` | none | `handle_frame`, `eth_cmp` |
| ARP | `arp.c` | `arp_cache` (fixed at start) | `handle_arp` |
| IP routing | `ip.c`, `ip-encapsulation.c` | `routing_table` (fixed at start) | `handle_packet`, `encapsulation`, the lookups |
| ICMP errors | `icmp.c` | none | `icmp` |
| VDE framing | `cs431vde.c` | the pipes' contents | `connect_to_vde_switch`, `receive_ethernet_frame` (two reads), `send_ethernet_frame` |
| Checksums | `crc32.c` | the running sum | `ip_checksum`, `crc32` |
| Hex tools | `util.c`, `hexdump.c`, `hexread.c` | the line buffer, `bin_bytes` | `binary_to_hex`, `hex_to_binary`, the read loops of both tools |
| Senders, receiver | `sender*.c`, `receiver.c` | the length read last | one fixed frame out, frames in until a length of 0 |
| Study programs | `ethernet-study/` | the devices, the slot, the counters | one slot of the backoff, hub and switch simulations |
| Scripts | `Makefile`, `scripts/`, `test/` | none | build, host set-up, a captured frame |

### How they interact

There is one thread. `poll(2)` waits for standard input and the links; for each
descriptor that is ready the loop runs `interaction_handler` or
`interface_receiver` to its end. A received frame is passed down by calls
(`handle_frame` → `handle_arp` | `handle_packet` → `icmp`, `handle_tcp` →
`encapsulation` → `send_ethernet_frame`), and the reply is written **into the
frame that arrived**: each layer swaps addresses, ports and lengths in place.
The user's segments are built afresh by `create_tcp_segment`. The connection
table is the one piece of state that both handlers change.

### What is hard here

* The endpoint is entered in an order nobody controls: segments of several peers
  and lines of the user interleave in any way, and each meets slots that still
  hold the key, the numbers and the write mode of a closed connection.
* The stack has no timer and never repeats a segment: everything that has to
  happen in the end depends on the peers' repeats.
* Links lose frames, and data of the two directions crosses.
* A FIN is answered by two passes of `handle_tcp` over the same frame.
* Integers change width (`uint16_t` data length into `int8_t`), and one number
  carries both a status and a length.
* Lengths, addresses and ports of a reply are put right by statements of four
  files, each of which relies on what the others have overwritten.
* A frame crosses a pipe as two writes and two blocking reads whose results
  nobody tests; the write of a frame above `PIPE_BUF` may be split. The loop acts
  on what `poll` reported before the handlers of the round ran, the process at
  the other end may be gone at any point, and what `poll` reports then depends on
  the host.
* The tools read whatever `read(2)` returns, cut anywhere, into buffers whose
  size is not tested.
* The simulations compare slots for equality and find collisions by comparing
  pairs of devices, some of which hold the values of an earlier slot.

### What makes each part correct

* *TCP endpoint*: a segment acts on its sender's connection and on no other; an
  open connection can be found, is never handed on, is opened by a handshake and
  closed by a FIN, and its peer hears of it; replies acknowledge what the table
  has recorded.
* *User interaction*: one conversation at a time, with the peer that was chosen.
* *Sessions*: what is acknowledged was delivered, once and in order; an open slot
  has a living peer and a connected peer its slot; both ends agree on the numbers;
  every exchange a peer begins ends.
* *Ethernet, ARP, IP, ICMP*: a packet in transit is forwarded by the longest
  prefix or reported to its source, with a correct length; replies go back to
  where the request came from; a dropped packet has no effect.
* *Poll loop, VDE framing*: until a plug exits or a frame is cut, both ends of a
  pipe agree where a frame begins and frames are handled whole, once and in order;
  and no link or user waits for ever because of another.
* *Hex tools*: what is written does not depend on where reads end and lines break.
* *Checksum*: an undamaged header gives zero, any header with one changed octet
  does not.
* *Senders, receiver*: what is printed is what was sent, each after its length.
* *Study programs*: no device that still has a frame is passed over, a medium or
  a port carries one frame in a slot, and every transmission is counted once.

`PROJECT.json` lists the hazards one by one, each at its line, with the
properties that cover it or the reason why none does yet.

## 2. Modules

```
 Tcp ──────────► TcpTable ──────► TcpSession ──► MCTcpSession
 (operators)     │   │   │        (+ links, peers)
 ConnectionMap ◄─┘   │   └──────► Stack ───────► MCStack
 (abstract)          │            (+ Ethernet, ARP, IP, ICMP)
                     └──► MCTcpTable

 VdeLinks ──► FrameDelivery           Backoff, EthernetStudy, Checksum,
              (abstract)              FrameTools, Hex ─► HexTools ──► MCPrograms

 Theorems:  TcpTableProofs ──► TcpSessionProofs ──► PromiseProofs ──► OrderProofs
                 └───────────► StackProofs           └──► AgreeProofs
            VdeLinksProofs
            ProgramProofs (Backoff, EthernetStudy, FrameTools, Checksum, HexTools)
```

**`Tcp`**: `tcp.c` and `tcp.h` as operators. A slot is a record `[io, peer, mac,
next_seq, curr_seq, status]`; a peer stands for the pair of address and port
that `connection_lookup` compares, a data length stands for its data.
`Selected` is `connection_lookup` followed by `is_space`, including the
first-match search that ignores the status. `PayloadEntry`, `PayloadStatus`,
`PayloadOctets` and `PayloadReply` are what `handle_tcp_payload` leaves in the
slot, returns, prints and writes into the header. Numbers are `% SeqSpace`
(`uint32_t`); `Int8` is the conversion of the length to `int8_t`.

**`TcpTable`**: the table as a state machine. One action is one handler call.
`Receive` is what `handle_packet` makes of a TCP segment: table full, no reply,
one reply, or two replies and a close (`TCP_FIN_ACK`). `UserLine` is
`interaction_handler` over one line read: a refused command, `[ID]q`, `[ID]c`, a
chat line, the lone `q`, end of file; a failed allocation in
`create_tcp_segment` is a choice. `sent` and `printed` are the output of the
last handler, `cause` a history variable naming the segment it served.

**`ConnectionMap`**: what the table promises, without slots: sets of half-open and
established peers, at most `Capacity` of them, and `Open`, `Establish`, `Close`.
`TcpTable` refines it with `halfOpen` and `established` mapped to the peers of
the slots with those statuses.

**`TcpSession`**: `TcpTable` joined to peers by FIFO links that may lose frames. A
peer is a standard TCP (the clients of `configuration.md` are netcat), external
to the repository; it opens, sends one octet per segment, repeats the oldest
unacknowledged segment when its link is idle, answers what is out of sequence,
and closes. A frame is named by what the code put into it, `toPeerPort` records
whether the ports were swapped.

**`Stack`**: `TcpTable` under Ethernet, ARP, IP and ICMP. One action is one call
of `interface_receiver` or `interaction_handler`; `wire` holds the frames it
sent. Each way through `handle_packet` is an action: digested (for an interface,
another protocol), forwarded, reported by ICMP, TCP for another port or host, TCP
for the endpoint, and TCP with an expired TTL, where the table changes although
an ICMP error replaces the reply. (`handle_tcp`'s second pass over an expired
FIN would find the error's header with sender `TCP_IP`; no frame on a link has
that source, so the pass selects no open connection.) Addresses are sequences
of octets and masks prefix lengths. `TcpFrame` and `UserFrame` compute the
lengths and addresses the C code arrives at by in-place changes.

**`VdeLinks`**: the poll loop over the pipes, the part the modules above take for
granted. `Connect` is `connect_to_vde_switch` for one link after the other;
`Poll`, `Skip`, `Serve`, `UserLine` and `Return` are the loop, with `fd` its index
and `revents` what `poll` reported; `ReadLength` is the first read of
`receive_ethernet_frame`, and `ReadNothing`, `ReadWhole`, `ReadShort` and
`ReadGarbage` what comes of the second; `Send` is one `send_ethernet_frame`. A plug
(`vde_plug`, external) writes a length, then the octets, and may exit at any
point. What the handlers do with a frame is in `Stack`; here they send up to two
frames and return. A write to a plug that has gone kills the process.

Two things depend on the host, and `configuration.md` and `scripts/tap_setup.sh`
name FreeBSD. There `poll` reports `POLLIN` for a pipe at its end of file
(`POLLIN_AT_EOF`), so that `interface_receiver` is called for a dead link in every
round: `nbo_len` then holds what its place on the stack held, 0 or anything
(`Stale`), and an old buffer is handled as a frame. And `PIPE_BUF` is 512 there:
the write of a longer frame (`Long`) may be split when the pipe has no room for all
of it. The read of its octets comes up short, the rest of the frame is old, and
what the plug writes then is taken for a length. A link on which
that happened is in `Dead`; from then on any octets are taken for lengths and
frames, and a length may overrun `frame[1600]` (`overrun`). On Linux, with
`POLLIN_AT_EOF` false and `Long` empty, only a plug that exits cuts a link off.

**`FrameDelivery`**: what the links promise: frames enter an open link and are
delivered whole, once and in order. A link that is closed, or whose next frame is
a long one, may deliver something that is no frame (`Cut`), only after all frames
before it, and nothing is promised of it from then on. `VdeLinks` implements it with
the links whose plug runs as the open ones, and the frames written whole and not yet
handled for those in transit.

**`Backoff`**, **`EthernetStudy`**: the three simulations. An action is a turn of
the `while` loop, each random number a choice. `Collided`, `HubCollided` and
`SwitchCollided` are the `col_det` of each program as the set it lists; the
switch's compares `dst_port` of the devices that transmit, which for the others
holds an earlier slot's port or uninitialised memory. The range of `Backoff` is
`(1 << count) - 1` with the shift count taken modulo the width of an `int`.

**`Hex`**, **`HexTools`**: `binary_to_hex` and `hex_to_binary` as operators, and the
tools as machines that fold what a read returned, octet by octet, into the
buffer, `bin_bytes` and standard output. A blank buffer leaves `bin_bytes` as it
was; one that is full of blanks overruns, and the model stops there, as it does when
`hexdump` reads more from standard input than it has reserved: `hexdump.c:27` reserves
`sizeof(int)` octets (`STDIN_ROOM`) and line 33 reads up to 16. What follows then is
undefined, so both are modelled: that what was overwritten matters (`ReadOverrun`) and
that it does not (`ReadStdin`). `StandsFor` and
`Legible` say what a text means without regard to lines and reads, and are what
`hexread` is compared with.

**`Checksum`**: the loops of `ip_checksum`, first inserting into a header and then
examining it, with at most one octet changed in between.

**`FrameTools`**: `sender.c`, `sender2.c` and `receiver.c` at one end of a pipe, with
a plug as in `VdeLinks` and frames whose octets are written at once; what becomes of
a split one is in `VdeLinks`, which has the same `receive_ethernet_frame`. At the end of the file the length is whatever the stack
held, so the receiver ends or prints its old buffer.

**`MCPrograms`**: puts the five stand-alone modules side by side in one state space;
`chosen` says which of them runs and never changes.

**`TcpTableProofs`**, **`TcpSessionProofs`**, **`PromiseProofs`**, **`OrderProofs`**,
**`AgreeProofs`**, **`StackProofs`**, **`VdeLinksProofs`**, **`ProgramProofs`**: theorems
about the modules they are named after (`PromiseProofs`, `OrderProofs` and
`AgreeProofs`: three more about `TcpSession`; `ProgramProofs`: the stand-alone
programs and the checksum). Those of
the table are used again for the sessions and the stack, whose steps change it by
the same handlers. Section 5 says what they establish.

The operators whose comment names a bug (`SelectedZero`, `SynEntryUncounted`,
`RouteIndexFirst`, ...) are deliberately wrong variants; `PROJECT.json` pairs
each with the property that tells it from the real definition.

## 3. Runs

| Run | Question | Result |
|---|---|---|
| `table` | Whatever arrives and is typed, does the table keep connections apart, open and close them by the rules, acknowledge what it recorded, and refine the connection map? | holds |
| `table_large` | The same with 253 octets of data: is a connection closed by a FIN only? | violated: 253 is -3 as an `int8_t`, which is `TCP_FIN_ACK` |
| `session` | With two standard peers, two segments in flight and a user who closes and chats at any moment: does every open slot have a living peer, was acknowledged data printed, in order while nothing is typed, and do both ends agree on the numbers once nothing is under way? | holds |
| `session_loss` | With up to two frames lost anywhere and reconnections: does every open slot have a living peer and every connected peer its slot, is acknowledged data printed, is everything acknowledged, does every close complete? | holds |
| `session_cross` | Is `curr_seq` the stack's next number when data of both directions crosses? | violated: an older acknowledgement moves it back |
| `session_chat` | Does the user's text reach the peer chosen? | violated: `io` outlives the connection and follows the slot |
| `session_bulk` | Is data in a segment without PSH acknowledged? | violated: the reply's ports are not swapped |
| `stack` | Over the configuration of `main`: longest prefix, forwarded or reported, lengths, ARP, addresses of replies | holds |
| `stack_ttl` | Does a packet reported as dropped leave the table alone? | violated: `handle_tcp` runs for TTL 1 |
| `links` | Under the poll loop of a FreeBSD host, with plugs that exit at any point and a frame above `PIPE_BUF`: do reads and writes of the pipes stay in step, are frames handled whole, once and in order until a link is cut, and is whatever waits served, also while dead links are served in every round? | holds |
| `programs` | Does each simulation, tool and the checksum compute what it is for, whatever is drawn and wherever reads end? | holds |
| `hexread_flush` | Is what `hexread` writes at the end part of what it read? | violated: a blank remainder is written with the last line's length |

The six violated properties each state what a comment, a message or a name in
the repository says; `findings` quotes the line.

### Bounds, and why they are enough

* `TCP_CONNECTION_LIMIT = 2` (10 in the code; 1 in `stack`): enough for a full
  table, a free slot behind a used one, a slot reused by another peer and two
  open connections. The theorems of section 5 hold for every limit.
* `Peers`: two real ones, and in `table` a third whose key is that of a fresh,
  zeroed slot, which a lookup confuses with a free slot.
* `SeqSpace = 4` or 16 for 2^32: what matters is that numbers wrap. In the
  sessions it exceeds the octets of one connection, as 2^32 does; the initial
  number 14 makes each connection wrap.
* `MCInputs` of `table`: every combination of control bits the switch tells
  apart, an RST for its default case, 0 and 1 octets; `MCLines`: each command on
  each slot and one beyond, malformed lines, chat lines, end of file.
* `Window`: in `session` a peer has two segments in flight, and a connection two octets,
  so that order is at stake. Where frames are lost (`session_loss`) it is 1, as for an
  interactive netcat client, and a real restriction for `AckedWasPrinted`: the stack
  acknowledges whatever comes, without a test for a gap, so with two segments in flight
  and one lost TLC finds an acknowledged octet that was never printed.
* `Lines`: in `session` the user closes and chats through the first slot
  (`FirstSlotLines`), which either peer may hold, with two lines: to choose and to
  write, or to close. The other slot is then a bystander; `table` has every line on
  every slot.
* `MaxConnects`, `MaxOctets`, `MaxLines`, `MaxLosses` (0 to 3) bound how much the
  environment does; two connections meet a slot's old contents, two losses meet
  every repeat, both answers to a FIN included. `Twice` bounds the history of
  printed octets: one that is printed over and over is recorded twice.
* `Calm`: `session` loses no frame and `session_loss` has no user, and the
  properties of the sessions say so in their premise, since with both they are
  false. With one frame lost and four lines typed TLC finds an open slot whose
  peer has closed: the peer's FIN is lost, a chat line makes the peer send an ACK
  with the number behind its FIN, the stack records that number without a test
  for the gap, and the next chat line acknowledges the FIN. In the same way the
  stack acknowledges octets it never saw, and the numbers of the ends part. What
  acknowledges too much is one decision, that `handle_tcp` takes the number of
  whatever arrives; `Calm` and `Window = 1` mark how far it is harmless.
* `stack`: three interfaces, the routes and ARP entries of `main` with two octets
  to an address, a fourth route nested in another so that prefixes compete, TTLs
  0, 1 and more, addresses with and without route and ARP entry, frames that are
  too short, for others, or broadcast. Segments are those of netcat: 12 octets of
  options and no FCS (the code adds 4 octets for an FCS to every TCP frame).

* `links`: two interfaces (three in the code) are enough for one to be served
  while another waits, stops or is gone, beside standard input. A frame is three
  parts: its length, and its octets as two parts, so that the first may be in the
  pipe without the second. A pipe holds four parts (`PipeRoom`): a frame and the
  length of the next, whose octets then meet a full pipe, or one with room for half of
  them. A switch sends two frames on a link (`MaxFrames`), of which the second
  is above `PIPE_BUF`: one before it is whole, and its rest, when it was cut, is the
  first on a link without framing. A user types one line (`MaxLines`) or ends standard
  input. The run is that of the FreeBSD host; section 5 proves safety for both hosts
  and all values.
* `programs`: one to three devices, two slots of the hub and the switch
  (`MaxSlots`), six of the backoff (`MaxT`), in which three devices can complete
  after repeated collisions. `IntBits = 4` for 32 makes the shift count wrap at
  a device's third collision. The switch needs two slots for a stale `dst_port` to
  matter. The list of collisions has an entry for each ordered pair and its array
  one for each device, so three devices that collide already write six entries into
  an array of three (`hub.c:137`). The model has the list as a set, as if the array
  had room.
* `LINE = 2` for 16 octets on a line. `STDIN_MAX` is what one read of a terminal or a
  pipe may return, a line of octets for `hexdump` and three characters an octet
  for `hexread`, as in the code; `STDIN_ROOM = 1` for the 4 octets `hexdump`
  reserves; `FILE_MAX = 5` for 1024, so that a file needs several reads. Texts are all those of up to five characters over digits,
  blanks and a letter that is no digit, those that fill the buffer with blanks,
  and everything `hexdump` writes for up to two lines and an octet. `bin_bytes`
  starts with any value from -1 to a line.
* `Octet = 3` for 256, headers of up to six octets and the checksum's two: three
  words can carry twice and an odd octet is left over. One octet changes at most,
  to any value; two changes may cancel in any sum.
* `FrameLimit = 3` frames reach a receiver, whose history of printed frames keeps
  one old buffer for any number of them.

Deadlock is not checked: the program really may wait for ever in `poll`, and
bounded environments stop.

### Fairness

`FairSpec` assumes, for each peer's link: weak fairness of `StackReceive`, since
`poll(2)` returns as long as a link has a frame and the loop serves each
descriptor it reports in every round, with no handler that blocks; and of
`PeerReceive` and `PeerRetransmit`, which is what any TCP does. Nothing makes a
peer connect, send or close, a user type, or a link lose a frame.

`FairSpec` of `VdeLinks` assumes that the stack's process runs (`WF` of
`StackStep`: it has one thread, and a step that is possible is its next one) and
that a plug that runs writes the octets of a frame whose length it has written
(`WF` of `PlugOctets`). That is an assumption about the plug and no fact about the
stack: a plug that stopped there without exiting would hold `receive_ethernet_frame`
in its second read (`cs431vde.c:23`), and with it every link and the user. The same
happens on a link without framing, whose plug runs: what is taken for a length may ask
for octets nobody sends. `WhatWaitsIsServed` excepts it (`Torn`). No switch has to
send, no user to type, no plug to exit or to live. What the simulations, the
tools and the checksum are asked is safety only.

## 4. What is only model-checked

* Liveness: `EverythingAcked`, `CloseCompletes` and `WhatWaitsIsServed` are out of
  the prover's reach.
* `AckedWasPrinted` with two segments in flight: it holds in `session`, where nothing
  is lost; the theorem is about peers with one.
* The runs that expect a violation are counterexamples, and need no proof.

## 5. What is proved

Every safety property of a passing run, and both refinements, are theorems.

Theorems hold for every value of the constants that satisfies the assumptions of
the modules. The assumptions say that limits, sequence spaces and numbers of
interfaces are positive, that inputs are segments, lines and frames, and that
initial numbers are sequence numbers; the others are named below. TLC evaluates
each of them in a run.

### The table (`TcpTableProofs`)

For every `TCP_CONNECTION_LIMIT`, `SeqSpace`, set of peers, inputs and lines:

* `TypeCorrect`: `TypeOK`;
* `LookupFindsOpenHolds`: no segments and lines, in whatever order, hide an open
  connection from `connection_lookup`;
* `OneChatHolds`: at most one slot is in write mode;
* `NoEvictionHolds`, `NoCrosstalkHolds`: an open connection keeps its peer, and
  only its own peer's segments change it;
* `OpensByHandshakeHolds`, `ClosesWithFinHolds`: how connections open and close,
  and what the peer is sent when they do;
* `OnlyFinClosesHolds`: on reception only a FIN closes, if no PSH/ACK is as long
  as `TCP_FIN_ACK` is in an `int8_t`. That excludes exactly the lengths of 253
  modulo 256, with which `table_large` shows the contrary;
* `AckIsNextSeqHolds`: segments acknowledge what the table recorded;
* `AnnouncesSenderHolds`: data of a connected peer is announced as its own;
* `TableImplementsMap`: the table refines `ConnectionMap`.

**The argument.** `LookupFindsOpen` is not inductive: it speaks of open slots, but
the slot that hides one is closed, and a closed slot becomes open with the key it
holds. The invariant is

    TableInv == TableType /\ KeyInv /\ PeerInv /\ OneChat

where `KeyInv` says that every slot that is open, in write mode or has ever held
a peer is the *first* with its key. It is kept because a slot takes a peer's key
only when no slot has that key (`Found` is tried before `FirstFree`), and a
closed slot keeps its key for ever or loses it to an unknown peer. Fresh slots,
which all have the zero key, are the reason for "has ever held a peer". `PeerInv`
says that open slots have peers of `Peers`.

`ReceiveStep` and `UserStep` reduce each handler to its effect on the table (one
slot replaced by one of a few entries, or nothing); `EveryStep` joins them, and
the steps of the invariant are proved from it. The action properties then follow
from the invariant and `EveryStep`. The refinement maps each step to `Open`,
`Establish`, `Close` or a stutter; `RoomLeft` counts open slots against the
capacity: with a free slot, fewer peers are connected than there are slots, since
`UniqueOpen` makes the map from peers to slots injective.

### The sessions (`TcpSessionProofs`)

For any number of peers and slots, any window smaller than the sequence space, data
with or without PSH, and any number of connections, octets, lines and losses:

* `SessionTypeCorrect`: `SessionTypeOK`;
* `OpenHasLivePeerHolds`: `OpenHasLivePeer`, that no slot is open for a peer that is
  not in the connection and has not asked for it;
* `PeerHasSlotHolds`: `PeerHasSlot`, the converse: a connected peer that has not closed
  has an open slot, as long as the user types nothing. With a user it is false: the
  slot is closed when the FIN/ACK leaves, which may be lost, and a connection that is
  closed half open has a stale `curr_seq` (the SYN case does not set it), so the peer
  does not take the FIN/ACK and stays connected. A peer that has sent its own FIN may
  wait with the slot closed; `CloseCompletes` is about that.

The assumption that matters is that the octets of one connection and its FIN have
numbers of their own (`MaxOctets + 1 < SeqSpace`), as TCP's 32 bits are meant to
ensure.

**The argument.** The slot and the peer never act together: what one did is known
to the other by a frame under way, so the invariant speaks of a peer, both queues
of its link and the set of its open slots at once:

    SessionInv == Calm => \A p \in Peers : Fine(peer[p], toStack[p], toPeer[p], Rows(p), losses = 0)

`Fine` has five parts. `SynOpens`: a SYN is alone on its link and its sender waits
for it. `FinCloses`: once a FIN/ACK of the stack is under way, the peer's slots are
closed. `Handshake`: while the peer waits, its slots are half open with its
number, and every SYN/ACK acknowledges it. `Connected`: while a slot is open and
the peer in the connection, no acknowledgement under way, none the slot could
still send, and no number still to be recorded covers the FIN; and when nothing
was lost, the FIN itself is under way. `Live` is the conclusion. The last
argument, whether anything was lost, is what `Calm` is needed for: with
losses but no lines the stack sends only in answer to what it receives, without
losses the frames under way show what was sent. `ReceiveCases` and `LineCases`
describe the handlers by the frames they send and the rows they leave,
`ReceiveFine` and `LineFine` prove `Fine` from that, and the actions of a peer
disturb `Fine` of that peer only (`PeerStep`).

`PeerHasSlot` needs no premise about losses and an invariant of its own (`Slotted`):
a peer that is connected, or waits while a SYN/ACK is under way to it, has an open
slot, and no FIN of it is on its link. A segment of another peer leaves open slots
alone (`KeepsRows`), one of the peer itself closes its slot only if it is a FIN
(`ReceiveSlotted`), and the user, who could, types nothing.

### Acknowledgements (`PromiseProofs`)

* `AckedWasPrintedHolds`: `AckedWasPrinted`, for any number of peers and slots, data
  with or without PSH, and any number of connections, octets, lines and losses, if
  peers have one segment in flight (`StopAndWait == Window <= 1`).

The hypothesis is the property's true limit: `handle_tcp_payload` compares no sequence
number with `next_seq`, so it acknowledges the octet behind one that was lost, and
with `Window = 2` TLC finds an acknowledged octet that nobody printed.

**The argument.** One octet at most is pending, sent and not acknowledged. The number
after it must not reach the peer in an acknowledgement before the octet is printed;
but that number may lie on the way to the stack, in a slot's `next_seq`, from which
any line of the user's takes it, and in frames on the way back. The invariant
`PromiseInv` says of a peer, its link, its slots and what was printed (`Keeps`):

* `InRange`: nothing under way or recorded is ahead of what the peer has sent;
* `Pending`: while the pending octet is not printed, no frame to the peer
  acknowledges it. If nothing was lost and a slot is open, no slot has recorded it
  either, and the octet is under way, ahead of whatever would make a slot record it;
* `Confirms`: the handshake's ACK is still ahead of any data for a half-open slot, on
  which the data of an ACK is recorded but not printed;
* `Opening`: behind a SYN/ACK for a waiting peer nothing acknowledges more than the
  SYN. A line typed for a *closed* slot in write mode could, as its frame carries an
  old number: `Left` is the set of those slots, and a SYN that is answered empties it;
* `InWindow`, `OneInFlight`, `Delivered`: what is pending lies within the octets of a
  connection and is one octet at most, and the conclusion.

`Pending`, `OneInFlight` and `Delivered` are kept under `StopAndWait`; the others are
proved for every window, and the agreement below uses those.

Each action of the peer and each handler has a lemma on `Keeps`. `ReceivePrints` says
when a segment's octet is not printed: it is refused for want of a slot, without
reply and without a slot to record it, or is the data of an ACK on a half-open slot,
without reply.

### Agreement (`AgreeProofs`)

* `QuietEndsAgreeHolds`: `QuietEndsAgree`, for any number of peers and slots, *every*
  window, data with or without PSH, and any number of connections, octets, losses and
  lines, as long as, as the property itself says, no line follows a loss (`Calm`).

**The argument.** The property speaks of a moment at which nothing is under way, and
what makes it true is all that was under way before. `AgreeInv` says of a peer, its
link and its slots (`Agrees`), where `Acked` means that an acknowledgement of all the
peer sent has arrived or is on its way to it:

* `Ordered`: no segment on the link ends before the one ahead of it, so reading
  never takes `next_seq` back;
* `NextAgrees`, as long as nothing was lost: when the peer is `Acked` and nothing it
  has to take is under way, the last segment on the link ends at `nxt`, or the link
  is empty and the slot has read up to `nxt`. A repeat, which would end earlier, goes
  only on an idle link and only when nothing acknowledges everything; a frame that
  the peer has to take makes it say `nxt` again, and so excuses what is ahead;
* `CurrAgrees`, as long as nothing was lost: the last segment on the link carries the
  number the peer expects, and when neither a segment nor anything the peer has to
  take is under way, an active slot sends from that number on. A frame the peer must
  take is answered, so the answer is on the link before the link falls idle;
* `Quiet`, as long as nothing was typed: the stack sends nothing the peer has to take,
  so the peer's expectation stays where the handshake put it; and once the peer is
  `Acked`, everything on the link ends at `nxt` and the slot has read as much, losses
  or not.

`NextAgrees` and `CurrAgrees` on one side and `Quiet` on the other follow the two
halves of `Calm`: nothing lost, or nothing typed. What a line sends the peer has to
take (`LineSendsData`), so it answers.
`ReadAgrees`, `LineAgrees` and `TakeAgrees` prove `Agrees` for a segment the stack
reads, a line it sends and a frame a peer takes; `AgreeInvQuiet` draws the conclusion
from `AgreeInv` with `Live`, `Handshake` and `Connected` of the sessions and
`PromiseInv`, which bound the numbers.

### Order (`OrderProofs`)

* `InOrderOutputHolds`: `InOrderOutput`, for any number of peers and slots, *every*
  window, and any number of connections and octets, if the peers' data has PSH and
  ACK set (`Pushes == DataBits \subseteq {PSH_ACK}`).

Without the hypothesis it is false: data with ACK alone is answered to the wrong port
(`session_bulk`), so its sender repeats it, and the stack prints it again.

**The argument.** Nothing in the endpoint orders the octets: it prints what arrives.
That they arrive once each and in order is a fact about the whole circle of what is
under way, as long as nothing is lost and the user types nothing. `OrderInv` says of
a peer `e`, the frames `in` from it and `out` to it, and what was printed (`InTurn`),
with `Place` a number's distance from the connection's first:

* `Sequenced`: the segments of `in` take up the numbers, one behind the other, as far
  as `e.nxt`; a FIN is the last of them, and a segment without data takes none;
* `Acked`: `out` acknowledges numbers in their order from `e.una` on, the last of
  them the one the stack reads next (`Ahead`). An idle link thus has
  `e.una = e.nxt`: a peer in a connection never repeats a segment, the only way for
  an octet to arrive twice. Every frame of `out` has the number the peer expects, so
  none is answered as out of sequence;
* `ReadNext`: the number read next is the place behind what was printed, and a slot
  is open to read it; `PrintedOnce`: the conclusion;
* `Asking`, `Rested`: before a connection only the SYN or its answer is under way,
  after one only ACKs without data.

`ReadSyn`, `ReadAck` and `ReadTaken` prove `InTurn` for what the stack may read,
`SendInTurn`, `TakeInTurn` and others for what the peer does. The slot is open when it
matters by `ReceiveAnswers`, and the invariant of the sessions gives the numbers
of the handshake.

### The stack (`StackProofs`)

For every set of interfaces, routing table, ARP cache and set of frames:

* `LongestRoute`: the loop over the routing table returns a matching entry of
  the longest mask, or nothing if none matches. By induction over the table;
* `ForwardedByRouteHolds`, `ForwardedOrReportedHolds`, `ArpReplyNamesOwnerHolds`;
* `TcpAnswersSenderHolds`, if a segment with ACK alone carries no data
  (`AcksCarryNothing`; `session_bulk` shows what happens otherwise);
* `WellFormedLengthHolds`, `StackTypeCorrect`, if segments arrive framed as
  netcat's are, without padding or FCS (`SegmentsFramed`: an Ethernet header and
  `total_length` octets), and no data is as long as a status is negative
  (`NoLengthIsStatus`). The code takes the data's length from the frame, so
  padding would count as data; and a length of 253 is answered as a FIN;
* `RouterImplementsMap`: behind Ethernet and IP the table still refines
  `ConnectionMap`.

`TablesAssumption` says that the tables are sequences of entries, `FramesAssumption`
that frames have the fields of their protocol, octets for TTLs and no more than
`MaxFrame` octets. The invariant is `TableInv` with `WireInv`: what is on the wire is
what the action for the last frame read puts there. The properties are then
facts about the operators that compose frames (`OnwardFields`, `ErrorFields`,
`TcpFrameFields`, ...).

### The links (`VdeLinksProofs`)

For every number of interfaces, both kinds of `poll`, every set of frames above
`PIPE_BUF`, every room in a pipe and every bound (`Stale` is no frame):

* `LinksTypeCorrect`: `LinksTypeOK`;
* `FramingIsKept`: `FramingKept`;
* `LinksImplementDelivery`: `ImplementsDelivery`;
* `LinksInvariant`: the invariant they follow from.

They say nothing of a link that was cut or read at its end of file, except that the
read of a length does not block there either: such a link gives the stack anything.

**The argument.** `FramingKept` looks at the head of a pipe; what makes it so is
the pipe as a whole. The invariant is

    LinksInv == LinksTypeOK /\ (\A i \in Links : PipeInv(i)) /\ LoopInv

`PipeInv` counts the parts of a link that is not in `Dead`: a plug has written three
for each frame it began, less those it owes (`Written`); the stack has taken three for
each frame it handled, and one more between its two reads (`Taken`); and the pipe
holds, in order, exactly the parts from the one number to the other (`Piped`). What
was handled is frame `n` in the `n`th place (`Intact`), and the read of a length finds
none only when the pipe is empty and the plug has gone. `LoopInv` says that what `poll` reported still holds for every
descriptor the loop has not come to (`Ahead`), since only the handler of a descriptor
empties its pipe and no plug comes back; hence the read of a length never waits.
Each write and read disturbs one link. For the refinement, `Connect` is `Open`,
`PlugExit` is `Close`, the write of a frame's last octets is `Enter`, `ReadWhole` is
`Deliver`, `ReadShort` and `ReadGarbage` are `Cut` on a link that was not dead, and
every other step is a stutter.

### The programs (`ProgramProofs`)

* `NoDeviceLostHolds`, `OneFramePerSlotHolds`: for any number of devices, any width
  of an `int` and any draws. The invariant is that no device that still has a frame
  waits for a slot that has passed; a retry is later than the collision because
  the range of a draw is a number (`RangeType`), even where the shift wraps.
* `AttemptsAccountedHolds`, `PortCarriesOneHolds`: for any number of devices of the
  hub and the switch. What a slot adds to the counters is the size of the sets
  of transmitting, colliding and heard devices, which the collision rules
  partition (`HubSplit`, `SwitchSplit`).
* `PrintsWhatWasSentHolds`: for the sender and the receiver, any number of frames
  and a plug that exits at any point, by the argument of `VdeLinks` for one pipe.
  `Old`, what the stack and the buffer held before, is assumed to be no frame.
* `ChecksumTellsHolds`: for headers of every length, odd ones included, and octets
  of any number of values above one. The sum of a header is a function whose
  existence and whose change under a change of one octet are proved by induction
  over the header (`SumsExist`, `TotalOfChange`). The invariant is that the sum
  under way is that of the octets added, and then *congruent* to the total
  modulo `Word - 1`, and 0 only if the total is: a fold takes away a multiple of
  `Word - 1` and leaves something (`FoldKeeps`), inserting the complement makes
  the total a multiple, and one octet is too small a change to reach another.
* `DumpsAllHolds`: for every length of a line, every limit of a read and every input.
  The invariant `DumpState` is that the whole lines of what was read are written and
  the others are in the buffer. What was written is `HexText` of them, in which every
  octet takes three places, so that texts join where a line ends (`HexTextJoin`);
  `BinaryToHexRows` shows that `binary_to_hex`, which writes its blanks and line
  feeds *between* octets, comes to the same.
* `DecodesTextHolds`: for every length of a line, every limit of a read and texts of
  any letters. The invariant `ReadState` is that some part of the text is converted
  into octets it stands for, and the buffer holds what follows, with fewer digits
  than a line; or that the tool has failed, and the text is illegible, or overrun its
  buffer. It is kept because a buffer is converted when it has an even number of
  digits: behind such a part the pairs of the whole text begin where they begin in
  what follows alone (`PairsJoin`), so that meanings join (`StandsJoin`) and the parts
  of a legible text are legible (`LegibleParts`). `HexToBinaryLaw` says that
  `hex_to_binary` finds the meaning of every text that has one, and `NULL` otherwise,
  by induction from the end of the text. `NULL` is assumed to be no octets
  (`NullAssumption`, `StrayAssumption`).

The library's induction theorems take an operator as a parameter, which the
installed provers cannot instantiate. Where induction is needed it is by a least
counterexample: the set of numbers for which a fact fails is a subset of the
natural numbers, and one that is not empty has a least element (`LeastNat`,
`LeastLength`), from the library's facts about well-founded relations. A function
that calls itself is *some* function with its equation; that there is one, for the
loops over a text as for the sums, is such an induction (`LoopExists`, `SumsExist`).

## 6. What is not modelled, and why

* Checksums (IP, TCP, ICMP, FCS) decide nothing: a wrong one is reported, and the
  `return` after it is commented out or missing.
* A pipe towards a plug that fills, signals other than `SIGPIPE`, and `exit` on a
  failed `poll` or `read`. `receive_ethernet_frame` returns a `uint16_t`, so its error
  branch (`stack.c:250`) is never taken.
* What a handler makes of a buffer that is no frame (`Stale` in `VdeLinks`): in `Stack`
  it would be one more member of the inputs.
* Outside `VdeLinks`, a handler call is one step and descriptors are served in any
  order, which includes the code's.
* The table-driven `crc32` is third-party code, and its result decides nothing.
* In the tools: failures of `open`, `read` and `malloc`, and texts with a NUL. In
  the study programs: the parsing of arguments, the percentage printed at the
  end, and `t + rand_n` beyond 32 bits, which takes 2^31 slots.
* The `pollfd` array is allocated too small; what follows from writing beyond it
  is no step of a model.
* The third ARP entry is uninitialised heap memory; it is taken as zero.
* Wording, printing and the address conversions behind it; `print_connections`.
* The `Makefile` and the scripts: build and host configuration, no program logic.

## 7. Plan

What is left to model: `TcpSession` on top of `Stack`, where peers sit behind different
interfaces and user segments leave on interface 0.
