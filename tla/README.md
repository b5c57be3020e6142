# Verification of ipk-rdt

TLA+ models, model checking and machine-checked proofs for `ipk-rdt`, the
reliable file transfer over UDP of this repository (`src/src/*.c`). Paths below
are relative to the repository as checked out under `src/`: `client.c` is
`src/src/client.c`.

## 1. The system

One binary runs as a client or as a server (`main.c`). The client reads a stream
(a file or stdin), the server writes one. They talk over UDP with packets of a
15-byte header (`protocol.h`): sequence number (per packet, not per byte),
cumulative acknowledgement number, connection identifier, checksum, payload
length, and the flags SYN, ACK, FIN, DATA.

| Component | State | Operations |
|---|---|---|
| Client machine (`client.c`) | state of `run_client`, `connection`, `server_addr`, `last_progress_ms`, `exit_code`, and in `handle_established` the window, `eof_reached`, `last_ack`, `dup_ack_count` | `handle_closed`, `handle_syn_sent`, `handle_established`, `handle_fin_wait`, `handle_time_wait`, the loop of `run_client` and its cleanup |
| Window (`window.c`) | `base`, `nextseqnum`, the cyclic buffer of packets with `is_valid`, `window_timer_ms` | `gbn_fill_and_send_window`, `gbn_process_ack`, `gbn_retransmit_window` |
| Server machine (`server.c`) | state of `run_server`, `connection`, `client_addr`, `last_progress_ms`, `exit_code`, the output stream | `handle_listen`, `handle_handshake`, `handle_established`, `handle_last_ack`, the loop of `run_server` and its cleanup |
| Packet wrappers (`utils.c`, `protocol.c`) | none of their own; `recv_packet` overwrites the peer's address | `send_packet`, `recv_packet`, `fill_header`, `build_packet`, `parse_packet`, `calculate_checksum` |
| Time and signals (`utils.c`) | the clock, `stop_requested` | `wait_for_packet`, `mark_progress`, `progress_timeout_reached`, `handle_signal` |
| Streams (`utils.c`) | position, error and end-of-file flags | `get_file_stream`, `read_chunk`; `fwrite` and `fclose` in the machines |
| Command line (`parser.c`) | the configuration | `parse_arguments`, `parse_number` |
| Setup and clean-up (`main.c`, `client.c`, `server.c`) | the list of addresses, the socket, the stream, the exit code | `main`, `setup_client_socket`, `setup_server_socket`, the ends of `run_client` and `run_server` |

**Interaction.** The two processes share nothing but the network. Within a
process everything is sequential; what interleaves is the two processes, the
network, the clock and signals. A process blocks in `select`
(`wait_for_packet`), and the client also in `fread`.

**What is hard here**, by component:

* *Handshake.* Three packets, any of which is lost, late or repeated. The server
  sends SYN+ACK only in answer to SYN. When the last ACK is lost, DATA stands
  in for it but is neither written nor acknowledged.
* *Window.* Slots are reused; ACKs are cumulative and arrive late, twice and out
  of order; three of the same number trigger a retransmission; a timer that is set,
  stopped and restarted in four places.
* *Server's acceptance.* One number decides what is written. It must survive
  every order of arrival.
* *Teardown.* FIN is resent at each entry of its handler, FIN+ACK on a timer
  and for each repeated FIN, the last ACK for each repeated FIN+ACK. Exit
  codes are decided by which of them gets lost.
* *Watchdog.* Which events count as progress decides whether a stuck transfer
  ends.
* *Sessions.* One server address, many clients, and a server that is started
  anew: what belongs to one session must not get into another.
* *Integrity.* A 16-bit checksum, an accumulator that is folded at different
  places, and a length that comes from the network.
* *Setup.* Options in any order and twice; several addresses, each of which may
  fail; an output file that must not be emptied too early.
* *Failures of system calls*, each with an exit code of its own, and signals that
  are seen only at the top of the loops.

The correctness of each: the window always holds what it may have to send again
and never moves back; the server writes exactly the stream, in order; a process
that reports success is right; nobody hangs; a lossy network does not keep the
stream from being delivered; an output holds chunks of one session only; what is
accepted is what was sent; a command line is judged by what it says, and a start
that fails leaves nothing behind.

## 2. The modules

| Module | What it models |
|---|---|
| `Network` | UDP in both directions as sets of packets in flight, packets, connections, exit codes; constants `Faults` and `MaxMishaps` say what the environment may do |
| `Window` | `window.c` as operators on a `GBNSenderState` |
| `Client` | `client.c`: one action per handler and outcome |
| `Server` | `server.c`: likewise |
| `Transfer` | client, server and network together; fairness; every property |
| `ReliableStream` | the abstract specification: a stream delivered piece by piece, and verdicts that tell the truth |
| `Ownership` | whose session a server process serves, by the identifier on the packets: what `Sessions` says of each of its clients |
| `Sessions` | one server address, two clients (the second is `Ownership`, and with it `Transfer`, again with its own variables), a server process that is killed and started anew |
| `Output` | the buffer of the server's output stream: what `fwrite` leaves in it and what `fclose`, or the C library for stdout, does to it |
| `Datagram` | the bytes of a packet: `build_packet`, `calculate_checksum`, the network's damage, `recv_packet`, `parse_packet`; the sum of RFC 1071, to compare with |
| `Arguments` | `parse_arguments` and `parse_number`, on what `getopt_long` returns |
| `Startup` | `main`, the setup of the sockets, the stream, the clean-up; a session is the code it ends in |
| `MCTransfer`, `MCProgress`, `MCSessions`, `MCOutput`, `MCDatagram`, `MCStartup` | instances for TLC; `MCProgress` adds a memory of received packets |
| `TransferProofs`, `SessionProofs`, `IsolationProofs`, `WindowProofs`, `RefinementProofs`, `OutputProofs`, `DatagramProofs`, `StartupProofs` | theorems and proofs: types; one session; sessions kept apart; the sender's window; the abstract stream and what is sent again; the output file; the checksum; the command line and the setup |

`Window` extends `Network`, `Client` extends `Window`, `Server` extends
`Network`, `Transfer` extends both and instantiates `ReliableStream`. `Ownership`
extends `Transfer`; `Sessions` extends `Ownership` and instantiates it a second time
for the rival client; `Output` extends `Transfer`. `Startup` extends `Arguments`. `Datagram` stands on its
own: what it shows of `parse_packet` is what `Network` takes for granted, namely
that a packet in flight is either the one that was sent or rejected.

### State and actions against the code

Variables carry the names of the code where they can: `cState`, `cConn`, `cWin`,
`cEof`, `cExit`, `cStop` are the client's `state`, `connection`, `gbn_state`,
`eof_reached`, `exit_code` and `stop_requested`; `cDup` is the pair `last_ack`,
`dup_ack_count`; `cAddr` and `sAddr` say at whom `server_addr` and
`client_addr` point (the peer, some other host, or, in a server nobody has
spoken to, nobody). `input` is the stream, `cRead` how much of it the client has
read, `out` what the server has written. `cPc` and `sPc` are program counters.

A handler is modelled by two kinds of actions, split where it blocks: from the
top of the loop to the `select`, and from what the `select` returns to the next
top of the loop. Everything between is one step, sends included, as no other
process can see the state in between. `handle_established` of the client has a
loop of its own, split further: its condition and progress check, each turn of
`gbn_fill_and_send_window` (`fread` may block between two packets, and the
server may act meanwhile), the retransmission, the `select`.

What is abstracted:

* *Payloads* are model values; that a chunk has up to 1185 bytes is not seen.
* *Time* is two facts: `cExpired` and `sExpired` (at least TIMEOUT seconds since
  `last_progress_ms`), set at any moment by `ClientDeadline` and `ServerDeadline`
  and cleared by `mark_progress`; and the retransmission timer, off, running or
  due. `select` may time out whenever the code can block in it, except that the
  client's transfer waits for what is left of its interval.
* *A `select` that fails* does so for a signal (`ClientSignal`, `ServerSignal`). One that
  fails without a signal has no action of its own: the process ends in the same way,
  in TIME_WAIT and LAST_ACK with EX_OSERR in place of EX_OK.
* *`rand()`* is seeded before the loop, so the number it will return is chosen in
  `Init` (`cDraw`, `sDraw`), for every number there is.
* *Integrity.* In `Network` a packet in flight is intact, and a damaged or foreign
  datagram (`Malformed`) is one that `parse_packet` rejects, after `recvfrom` has
  already stored its source. `Datagram` says when that is so.
* *Sequence numbers* are numbers modulo `SeqSpace`, 2^32 in the code. `window.c:86`
  adds `WINDOW_SIZE` to `base` in that arithmetic, and a window whose sum has
  wrapped counts as full: a transfer that comes to the end of the numbers stalls
  until TIMEOUT and never uses a number twice (`Stalled`, `OneChunkPerNumber`).
  `README.md:224` excludes such transfers.
* *The host* in `Startup` is which address families it has and which addresses are
  taken, chosen when `getaddrinfo` answers.

In `Sessions` a restart is one step that may come at any time, in the middle of a
session or after it. What the old process wrote is kept in `earlier`, by the
identifier that it drew. `rand()` is seeded with the second of the start
(`server.c:537`), so there are two kinds of restart. One in another second draws another connection
identifier (`ServerStartsAnew`; that it draws an old one by chance, one of 60000, is
left out). One in the same second draws what the process before it has drawn, always.
`SessionsSpec`, and what is checked and proved of it, has the former only; of the
latter the same does not hold, see section 4.

In `Output`, `written` counts the chunks that have left the buffer. Any `fwrite`
may flush any part of it; the close writes out the rest or fails.

In `Datagram` the loop of `calculate_checksum` is a pair of actions, `SumWord`
and `SumLast`, that both ends run through. The network delivers the datagram as it
is, with one aligned word changed in any way, cut anywhere, or with something
behind it.

`PROJECT.json` maps each definition to its lines.

## 3. What is checked

Faults are chosen per run: `dup` (a packet stays in flight after it arrives;
since it also may never arrive, this is loss, duplication, delay and reordering
without bound), `loss` (one packet at a time is dropped, counted), `corrupt`,
`stray`, `expire`, `signal`, `send`, `read`, `write`, `close`.

| Run | Instance | Shows |
|---|---|---|
| `network` | window 3, nine sequence numbers, first number 0 or 4, up to 4 chunks or 10 chunks, `dup` | `TypeOK`; `InOrderDelivery`: what is written is a prefix of the stream; `RingHoldsWindow`: each packet in flight is in its slot; `AckedIsWritten`: the client forgets only what is written, and sends FIN only after all of it; `TimerTracksWindow`: the timer is set exactly while something is in flight, but for a stall at the end of the numbers; `OneChunkPerNumber`: no number stands for two chunks; `WindowAdvances`: no ACK moves the window back |
| `faults` | window 2, up to 2 chunks, an output file, every fault but `loss` (`dup` subsumes it), one mishap | `HonestExit`: EX_OK means delivered; `SessionInv`, `WindowOK`, `EndIsKnown`: the invariants the proofs use; `RetriesFit`: what an end sends again in the handshake and the closing is what the other end waits for; `OutputIsWritten`: with EX_OK the file holds the input; `ImplementsStream`: refinement of `ReliableStream` |
| `loss` | window 2, up to 2 chunks, one lost packet, fairness | `DataDelivered`: a stream that is not empty is delivered and the client ends well |
| `watchdog` | up to 1 chunk, two lost packets, TIMEOUT, no fairness of the network | `NoHang`: both processes end |
| `restart` | two clients with different first numbers, two chunks and one, one restart in another second, `dup` | `OneSession`: no output mixes two streams; `EachIsServed`: a client that succeeds has had its stream written whole by one process; `SessionsInv`: the invariant the proofs use |
| `datagram` | bytes of three values, payloads of up to three bytes, buffers of 18 bytes | `NeverMistaken`: what is accepted is what was sent, but for the two zeros of the checksum; `IntactIsAccepted`; `SumsAsRFC1071`: the checksum is that of RFC 1071 for even and odd lengths; `TypeOK` |
| `startup` | every command line of up to 4 options of 19 kinds, every answer of every call of the setup | `VerdictIsRight`, `ConfigIsGiven`, `CodeTellsWhy`: the line is judged and read as it says; `NothingLeaks`; `OutputIsSpared`: an output file is emptied only by a server that was started rightly and comes to its session; `SuccessIsEarned` |
| `empty_stream` | empty input, one lost packet | violation of `ReliableDelivery`, section 4 |
| `stray` | two chunks, one stray datagram | violation of `DataDelivered`, section 4 |
| `last_ack` | two chunks, TIMEOUT | violation of `TimeoutIsFailure`, section 4 |
| `progress` | two chunks, TIMEOUT | violation of `DuplicateIsNoProgress`, section 4 |
| `same_second` | two clients with the same first number, two chunks each | violation of `OneSession`, section 4 |

**Bounds.** Four chunks through a window of three fill the window, make the client
wait, reuse a slot and leave a partly filled last window. Two chunks through a
window of two are the least with an out-of-order arrival and a cumulative ACK of
two. All runs let the packets of each phase meet the later phases. Ten
chunks do not fit nine numbers, so that the window reaches their end. Elsewhere
`SeqSpace` is 64 and numbers follow the length of the stream; the set of packets in
flight is finite for the same reason. `MaxMishaps` bounds `loss`,
`corrupt` and `stray` only; every other fault may happen at any time.

With bytes of three values a word has nine, so that damage gives a word each
of its values and the sum carries at every place; the header and the longest payload
fill the buffer, and padding overflows it. A client needs three options, so four
leave room for one that is repeated, wrong or too many, and for several faults at once; `-p` and `-w`
range over below, at and above each limit and a word that is no number.
`MaxRestarts` is 1: the second process meets what is in flight to the first.

`CHECK_DEADLOCK FALSE` is in every configuration since the programs end: a
state with both exited, a datagram that is accepted or rejected, a `main` that has
returned has no step. `NoHang` and `DataDelivered` cover that the two machines do
not stop before.

**Fairness.** `ProcessFairness`: code that can run does, and a `select` does
return when nothing comes; both are the scheduler's and the kernel's promise.
`TurnsInTime`: a turn of the loop of `handle_established` does not always take
longer than its own 250 ms; if it did, the client would retransmit for ever
(`client.c:300-302`, `continue`) without once reading its socket. It is stated
for `loss` only. `NetworkFairness`: a network that is given packets again and
again delivers one, and delivers a DATA packet that is sent again and again. The
latter is needed because a set of packets in flight may offer others for ever.
It promises nothing of a packet that is sent once. `WatchdogFairness`: silence
lasts until TIMEOUT. `watchdog` assumes nothing of the network.
None of them lets a blocking `fread` last for ever, see section 4.

**Mutants.** Each property has a mutant, a definition next to the original in its
module, introduced by a comment starting with "Mutant:", under which TLC finds
the property violated: a window off by one, an ACK test without its lower bound,
a transfer that ends with the input, a server that takes packets from ahead, a
handshake that does not accept DATA, a repeated FIN that is not recognised, a window compared by distance, a carry that is
dropped, a check in another order, a socket that stays open, and so on. They are
not used by any specification.

## 4. What the checks found

Runs show these disagreements between the code and its documentation:

* **An empty input needs the last ACK of the handshake.** If it is lost, the next
  packet is FIN. `handle_handshake` takes ACK or DATA (`server.c:249`, `264`) and
  ignores FIN; the client never sends the ACK again. Both end by TIMEOUT. With
  a chunk to send, DATA stands in (`server.c:261`), and `loss` shows that
  suffices. `README.md:217-218` promises reliable delivery under loss.
* **A rejected datagram changes the peer.** `recvfrom` writes the sender of any
  datagram into `server_addr` or `client_addr` (`utils.c:231`) before
  `parse_packet` rejects it, and the next packets go there. A packet of the peer
  puts it right again, if one is still to come. In the trace none is: both DATA
  overtake the last ACK of the handshake, the second arrives in HANDSHAKE and
  is ignored, the first is taken in place of the ACK, neither written nor
  acknowledged (`server.c:264-271`). Then one stray datagram reaches the waiting client.
  All its retransmissions go to the wrong host, and the server, which speaks only
  when spoken to, never corrects it. `server.c:143-144` and
  `tests/test_e2e_system.c:181` say such datagrams are dropped.
* **TIMEOUT in LAST_ACK** ends in EX_OK when the `select` notices it
  (`server.c:434`) and in EX_PROTOCOL when the top of the handler does
  (`server.c:422`). `README.md:140` promises a non-zero code. By `HonestExit` the
  EX_OK is at least true: the output is complete.
* **Duplicates as progress.** Any DATA from ahead of the expected number restarts
  the server's watchdog (`server.c:380-382`), though `README.md:137` wants new
  packets only.
* **Two clients of one second.** `rand()` is seeded with `time(NULL)`
  (`client.c:555`), so clients that start in the same second draw the same first
  number. `handle_handshake` knows its client by that number only (`server.c:232`) and repeats its SYN+ACK, with the
  `conn_id` in it, to the other. Both then write to one output, although
  `README.md:131` has `conn_id` prevent confusion of sessions.

Modelling showed these too; no run is kept for them:

* **A server restarted at once.** As `rand()` is seeded with the second of the start
  (`server.c:537`), a server process started in the same second as the one before it
  always draws the same `conn_id` and `seq_num` (`server.c:158-159`). DATA of a client
  that the old process served then passes for DATA of the session that another client
  opens with the new one, against `README.md:131`. With `ServerStarts({sDraw})` in place
  of `ServerStartsAnew` in `SessionsNext`, TLC finds `OneSession` violated.
* **A number that is no int.** `parse_number` returns a long, and `parser.c:72` assigns
  it to an int before the range is checked: `-p 4294967297` is taken for port 1. The
  comment at `parser.c:27` and `test_overflow_numbers_are_rejected`
  (`tests/test_parser.c:298`, which tries only a number that is no long either) want
  overflow rejected. `ToInt` models the conversion: with `IntSpace = 16` and a word
  whose value in `NumberOf` is 17, TLC finds `VerdictIsRight` violated. In the
  run `startup` every number fits, and the theorems on the command line assume so
  (`NumbersFit`).
* **stdout is not closed.** `server.c:589` closes the output unless it is stdout. What is
  in the buffer of stdout is written by the C library after `run_server` has
  returned EX_OK and the client has been told that all is well. With
  `OUTPUT = "stdout"` TLC finds `OutputIsWritten` violated.
* **One address only.** `parser.c:166-167` says a server without `-a` listens on all
  suitable local addresses; `setup_server_socket` returns the first that it can
  bind, which may be that of one family only (`server.c:77-79`).
* **Two servers at one name.** A second server for an address of two families
  (`-a localhost`) fails to bind the first, takes the next (`server.c:71-84`) and empties
  the output file of the one that runs, if it is given the same. `OutputIsSpared`
  does not say otherwise: it is about servers that do not come to a session.
* **A blocking `fread`.** With packets in flight the client may block in `fread` on a
  pipe or a terminal (`client.c:265`). It then reads no ACK, retransmits nothing, and
  notices neither TIMEOUT (`README.md:140`) nor a signal.

## 5. What is proved

`tlapm` checks every proof. The theorems on transfers are for every window size, set
of streams, initial number, identifier, size of the sequence space, set of faults
and bound of mishaps, under the assumptions named in the modules:
`ChunkAssumption` (the missing payload is not a payload), `SpaceAssumption` (there
is a sequence number), `DrawAssumption` (what `rand()` gives is a sequence number
below the last, identifiers are not zero), `FaultAssumption`, `WindowAssumption` (a
window has a slot), `InputsAssumption` (streams are sequences of chunks). Those on
datagrams are for bytes of any size (`ByteAssumption`) and buffers, packets and
padding of any size (`SizeAssumption`: a packet fits its buffer, as
`send_packet` is only given such). Those on `Sessions` are for all of the former, any
streams and first numbers of the rival and any number of restarts, where no
third host sends (`SessionsAssumption`). Those on the start are for command lines of
any length (`LineAssumption`: options that take a word have one), any limit of the
port and size of an int (`NumberAssumption`), and any host (`NullAssumption`: NULL is
no address and no exit code).

**The transfer.**

* `TypeCorrect`: `Spec => []TypeOK`, one case per action.
* `SessionCorrect`: `Spec => []SessionInv`.
* `DeliveredInOrder`, `ExitsAreHonest`, `AckedIsAlwaysWritten`: `InOrderDelivery`,
  `HonestExit` and `AckedIsWritten`, from `SessionInv`.
* `WindowCorrect`: `Spec => [](SessionInv /\ WindowOK)`.
* `RingAlwaysHoldsWindow`, `TimerAlwaysTracksWindow`, `WindowNeverRetreats`:
  `RingHoldsWindow`, `TimerTracksWindow` and the action property `WindowAdvances`,
  from both.
* `NumbersAreUsedOnce`: `OneChunkPerNumber`, from `RequestsOK`, for every size of the
  sequence space.
* `EndIsAlwaysKnown`: `EndIsKnown`.
* `RetriesAlwaysFit`: `RetriesFit`, from `SessionInv`, `EndIsKnown` and `OneConnection`.
* `ImplementsReliableStream`: `Spec => ImplementsStream`.

`InOrderDelivery`, `HonestExit` and `AckedIsWritten` are not inductive. That the server
writes the right chunk depends on what every DATA packet in flight carries, and so
on what the client's buffer holds, since a retransmission sends it. That the client may go to FIN
depends on what the ACKs in flight say, and these on what the server has
written at the time of sending them, no more than it has written since. So
`SessionInv` has four parts, and each relies on the others:

* `RequestsOK`: SYN in flight has the client's first number, DATA the chunk of its
  number (`CarriesItsChunk`), FIN the number after the last chunk;
* `RepliesOK`: no ACK in flight names a number beyond what is written, and a FIN+ACK
  exists only once everything is;
* `ServerOK`: what is written is a prefix of the stream, and the number expected
  next is its length;
* `ClientOK`: `nextseqnum` counts what is read, `base` is at most what is written,
  each waiting slot carries its chunk, FIN_WAIT comes after everything is written.

The proof has a lemma for what the client's steps do to each part
(`ClientKeepsRequests`, `ClientKeepsItsPart`, `ClientKeepsServerPart`), and the
server's (`ServerKeepsClientPart`, `ServerKeepsItsPart`); the network's loss only
shrinks what is in flight. `CarriesItsChunk` includes that the number after the chunk's
does not wrap: the window never fills a slot there (`RoomIsBelowTheEnd`).
`SessionInv` does not mention connection identifiers: with one client and one server
no packet of another session exists. The sessions below are about those.

`WindowOK` adds what the window needs on top. `Ring` says that it spans at most
`WINDOW_SIZE` numbers and that each has its own packet in its own slot. That filling
the next slot, or freeing acknowledged ones, leaves the others alone rests on
`SlotsDiffer`: numbers less than a window apart differ modulo its size, from
division with remainder. The rest of `WindowOK` is about the loop of
`handle_established`: after reading, the input has ended or the window is not
empty, so that the client comes to its `select` only with a packet in flight, or
`Stalled` at the end of the numbers; and an ACK that frees no waiting slot does not
move the window (`NoProgressNoChange`), so that the duplicate counter never sees an ACK that moved it.

`EndIsKnown` is what the refinement needs of the end of a stream: a server in
LAST_ACK or one that has succeeded has stepped over the FIN (`StreamClosed`), and a
client in TIME_WAIT or one that has succeeded over the FIN+ACK (`CloseConfirmed`).
That neither holds earlier is by numbers: no number up to that of FIN is
the one after it, even where it wraps (`BeforeTheEnd`); and a connection without an
identifier is not open. `ConfirmedByFinAck` is why the client is right, since a
FIN+ACK in flight means that the server has closed. Each step then delivers one
chunk, closes, confirms, ends one process, or stutters (`ClientImplements`,
`ServerImplements`).

`OneConnection` is what `RetriesFit` needs of the identifier and of the server's number,
of which `SessionInv` says nothing: the answers in flight bear those of the server, which
draws them once, on a SYN, when nothing is in flight to the client yet (`ServerAnswers`);
and the client takes them over from a SYN+ACK (`OpensBySynAck`). The numbers of
the client, and what the server expects, come from `SessionInv` up to FIN and from
`EndIsKnown` after it.

`FileIsWritten`: with an output file, `OutputSpec => []OutputIsWritten`. `OutputSpec`
implements `Spec` (`OutputKeepsTransfer`), so `HonestExit` holds, and `BufferOK` says
that a server which succeeds has nothing left in its buffer.

**Sessions at one address.** `SessionsAreApart`, `OutputsAreOfOneSession` and
`SuccessIsServed`: `SessionsSpec => [](NumbersDiffer => ...)` for `SessionsInv`,
`OneSession` and `EachIsServed`. `NumbersDiffer` says that the two clients have drawn
different first numbers; without it the run `same_second` refutes the conclusion, so
it cannot be dropped. It never changes, as a client draws once. The restarts of
`SessionsSpec` are those in another second (`ServerStartsAnew`); for the others the
conclusion is false (section 4).

`SessionInv` does not carry over: the numbers that an ACK names, or that the server
expects, are now those of whichever client it serves, and packets of dead server
processes are still in flight. What holds instead is tied to identifiers.

* `ClientSession`, for each client: its requests bear the identifier it has accepted
  and the chunk of their number; an answer under an identifier that is its own, or
  that is on offer to it in a SYN+ACK, tells of no more than the process of that
  identifier has written; this is part of its stream (`IsPart`) and what the
  client relies on (`ClientKnows`).
* `OneOwner`: no identifier is on offer to both clients.
* `ServesOne`: a server process outside LISTEN and DONE serves one client (`Serves`) and
  passes the other by (`PassesBy`). In HANDSHAKE the first number keeps them
  apart, from ESTABLISHED on the identifier. `NotYetTold`: the identifier is nowhere
  before the SYN is accepted, and only on SYN+ACK before the session is established.
* `WrittenForOne`: what is written at all has been written for a client that has
  accepted the identifier, so that one which is only on offer stands for nothing yet.

A step of a server process on behalf of one client is a step of a server beside a silent
client for the other. `SessionProofs` therefore proves once, with variables for one
client, what a client's step does to its `ClientSession` (`ClientStepKeeps`), what the
server's does to the client it talks to (`ServerStepKeeps`), and what any process
that moves on does to a client it passes by (`MovesKeepPlace`, `MovesKeepSession`,
`IdleKeepsSession`). `IsolationProofs` cites these for the client, and once more
through `INSTANCE SessionProofs WITH ...` for the rival (`RivalIsAClient`), and shows
what remains: that the two stay apart. A restart hands over `out` to `earlier` under the old
identifier, which leaves `Written` as it was, and starts with an identifier that is out
nowhere.

**The datagram.** `AcceptedIsNeverMistaken`, `IntactIsAlwaysAccepted` and
`DatagramTypeCorrect`. `DatagramInv` keeps the trace of the sender's partial sums,
one after each word, and compares the receiver's loop with it (`Compared`).
The sums agree up to the damaged word. From there on they differ, by an amount
modulo `WORD - 1` that the rest of the loop leaves alone (`DifferenceComes`,
`DifferenceStays`): adding with the carry put back is addition in a ring in which
only 0 and `WORD - 1` are the same, which is the exception in `NeverMistaken`. The
word of the checksum itself is read as 0 by both, and its damage is seen in the
comparison. What is cut is too short for its `payload_len`; what is padded is summed
but not extracted. `IntactFits` is the same comparison without damage.

`ChecksumIsRFC1071`: `SumsAsRFC1071`. `PlainSum` is a recursive function over the words,
and no induction over them is needed, since the loop of the code is one: the
invariant `TotalsSoFar` says that the totals of the words read so far exist, and that
whichever function satisfies the recursion for all of the bytes has at the loop's
place a number whose carries come to the accumulator. At the end these two give
what `PlainSum` is. The step is that a carry may be put back at once
(`CarriesMayBeAddedAtOnce`): what the carries of n come to is the number
from 1 to `Ones` that differs from n by a multiple of `Ones`, or 0 for 0.

**The start.** `UsableLinesAreAccepted`, `LastOptionCounts` and `ExitCodeIsTrue`
(`VerdictIsRight`, `ConfigIsGiven`, `CodeTellsWhy`), for numbers that fit an int
(`NumbersFit`). `ArgInv` says of each field of the configuration that it holds the
argument of the last option of its letter among those read so far
(`HoldsWord`, `HoldsNumber`), and that nothing read so far ends the program
(`GoodSoFar`). At the end of the line the last one read is the one of the greatest position
(`LastIsMax`), so the checks can be put in terms of the line (`WhatFails`);
that the first check that fails decides gives the exit code (`WhyRejected`).
`NothingIsLeftOpen`, `SuccessIsAlwaysEarned` and `OutputIsAlwaysSpared` follow from what
main holds at each stage (`LeakInv`, `CodeInv`, `SpareInv`), the last one from
`ArgInv` too: a server has emptied its output only with its options right and a socket, and
comes to a session from there.

**Only model-checked**: what is temporal under fairness (`DataDelivered`, `NoHang`),
which is beyond the prover. Every invariant and action property of the passing
runs is also a theorem.

**Not modelled**: the values of the clock, and a `clock_gettime` that fails; an
input on which nobody writes (section 4); the text of `help_message` and of the log;
`getopt_long`, `getaddrinfo` and the C library, which are external and modelled by
what the code gets from them; two server processes that draw the same identifier, by chance or within a second (section 4); a `select` that fails
without a signal; the
build and the tests.

## 6. Plan

Done, in this order: the transfer (`Network`, `Window`, `Client`, `Server`,
`Transfer`, `ReliableStream`) with its safety, refinement and liveness; the
proofs of types, session and window; numbers that wrap; `Sessions`; `Output`; `Datagram`;
`Arguments` and `Startup`; the proofs of the refinement, the output file, the datagram
and the start; the proofs of the sessions at one address and of the sum of RFC 1071; what is sent again
(`RetriesFit`).

Left:

1. `SessionsSpec` with a third host that sends (`stray`), and an abstract
   specification of a server address that serves one stream after another, which it
   implements.
2. A clock with values in place of `cExpired` and `sExpired`, to say how long a
   transfer without progress lasts.
