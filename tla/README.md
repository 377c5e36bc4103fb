# Verification of the DTLS/TUN data plane

TLA+ specifications, TLC models and TLAPS proofs for the tunnel programs
`edge_zero`, `edge` and `forwarder`. The specifications are written from the C
source; `PROJECT.json` maps every definition to the lines it models.

## 1. The system

Each program is one thread that drives one io_uring instance. A packet enters
through the UDP socket (one multishot `recvmsg`, buffers from a ring shared with
the kernel) or through the TUN device (`n_initial_read_ops` single-shot reads),
and leaves through the other descriptor. `edge_zero` passes the buffer of a
packet on without copying; `edge` and `forwarder` encrypt and decrypt with
OpenSSL in between.

| Component | State | Operations | Hard because |
|---|---|---|---|
| io-uring layer (`iouring.c`) | free lists of `io_op_t` and `buf_addr_t`, buffer ring, queues | get/put, `io_op_alloc_buf`, `io_op_free`, submit, recycle, re-arm, cleanup | a buffer changes owner four times per packet; a multishot operation lives on while its buffers come and go; pool, ring and completion queue have limits |
| packet handler (`packet_handler.c`) | none of its own | `wait_for_recv`, `tun_to_udp`, `udp_to_tun`, two DTLS variants | every error path must give back what it holds, once |
| edge without DTLS (`edge_zero.c`, `tun_udp_run_zero`) | `running`, the peer's address | start-up, loop, signal handler, cleanup | signals race the wait; requests are in flight during cleanup |
| connection (`connection.c`) | socket, SSL object, two memory BIOs | create, DTLS set-up, handshake, encrypt, decrypt | lost and reordered flights, partial set-up |
| DTLS edge (`edge.c`, `tun_udp_run`) | as above | as above, with copies | as above |
| forwarder (`forwarder.c`) | two connections on one ring | create, two handshakes in turn, forward, destroy | packets of one connection during the handshake of the other |
| DTLS context, TUN device, UDP socket | handles | set-up with 2 to 10 steps, tear-down | each step has an error path |
| utilities (`utils.c`) | log level | logging, address helpers, packet checks | - |

What makes the tunnel correct: an operation and a buffer have one user at a
time; none is lost while the loop runs; the receive stays armed and the reads
stay pending; what leaves is what came in, once; the loop goes on until it is
told to stop, and then stops; nothing is freed twice or used after it was freed.

## 2. Modules

| Module | Models | Remarks |
|---|---|---|
| `IoUring` | pools, ring, `io_op_t`, and the kernel (external) | state of the io-uring layer, no specification of its own |
| `PacketHandler` | `wait_for_recv`, `tun_to_udp`, `udp_to_tun` | extends `IoUring`; `OpExclusive` and `BufExclusive`, which every program must keep to, and the other parts of the inductive invariants |
| `EdgeZero` | `main` of `edge_zero.c`, `tun_udp_run_zero`, signals | extends `PacketHandler` |
| `Dtls` | `do_dtls_handshake` and the two DTLS functions of `packet_handler.c`, as far as they use the ring | extends `PacketHandler`, no specification of its own |
| `EdgeDtls` | `main` of `edge.c`, `tun_udp_run` | extends `EdgeZero` and `Dtls` |
| `Forwarder` | `main` of `forwarder.c`, `forwarder_run` | extends `Dtls` |
| `Session` | the DTLS functions of `connection.c` on both sides of a network | no ring |
| `Startup` | what the three programs acquire and release | every step may fail |
| `Relay` | abstract specification of a tunnel | implemented by `EdgeZero`, `EdgeDtls`, `Forwarder` and `Session` |
| `MCEdgeZero`, `MCEdgeDtls`, `MCForwarder`, `MCSession` | values for TLC | |
| `PacketHandlerProofs`, `LossProofs`, `CustodyProofs` | lemmas about the kernel and the functions of `packet_handler.c` | for any program that is built from them |
| `DtlsProofs` | lemmas about the handshake and the copying of `Dtls` | for both programs that use it |
| `EdgeZeroProofs`, `EdgeDtlsProofs`, `ForwarderProofs` | theorems about the three programs | |
| `SessionProofs` | theorems about `Session`, and the lemmas about sequences that they need | |

### IoUring, PacketHandler, EdgeZero

*State.* `io_op_pool`, `buf_addr_pool` and `br` are the two free lists and the
buffers lent to the kernel, as sets. `op` is the contents of every `io_op_t`
(`data_len` and `addr_len` only tell zero from positive). `inflight` are the
requests the kernel works on, `cq` the completion queue with the kernel's
overflow list (`IORING_FEAT_NODROP`). `mem` says which packet each buffer holds,
`arrived` and `out` what came in and what left: they exist for the properties.
`hand` and `ret` are `op` and `ret` of the loop; `reads_left` counts the initial
reads, and starts at any of `ReadCounts`, the values `n_initial_read_ops` may have; `heap` is the memory that was
not freed yet.

*Atomicity.* The program is a single thread, so what matters is where the kernel
and a signal can get between two of its steps. One action takes one completion
from the queue (`Wait*`), forwards one packet up to the submission (`Forwarded`
and its two failures), or releases one operation (`Release`). The model lets
kernel and signal act between these, which is everywhere the code makes a system
call that they can affect.

*Submission.* Each request is submitted as soon as it is prepared, so a full
submission queue and a failing `io_uring_submit` are one outcome, "submit". A
failed submission leaves its SQE in the queue, but every failure makes the loop
end before anything is submitted again.

*Kernel.* Written from how the code uses it. `KRecv` may end a multishot
request at any completion and must when the completion queue is full; `KNoBufs`
ends it when the ring is empty; `KNoDest` fails a send without an address.
`Faults` chooses what may go wrong: "submit", "cqe" (any request may fail),
"empty" (packets without payload), "late" (sends and writes may stay in the
kernel; without it they complete during their submission, as they do while
socket and device buffers have room).

*Free lists.* `Pick(S)` says which elements of a free list may come next. The
proofs assume nothing more of it than that it picks from a nonempty list. TLC
uses one fixed element (`AnyOne`): an element is reset when it is handed out, so
the choice changes names only.

*Left out.* Single-shot UDP receives and multishot TUN reads, which the build
switches off; `iouring_peek_cqe`, which is not called; log output; packet
lengths other than zero or not.

### Relay

`taken` and `delivered`: a packet that was taken in may leave once. Packets may
be lost (the program may end) and may overtake one another. The edges
and the forwarder instantiate it with `arrived` and `out`, for both directions
together, and `Session` with the packets encrypted and decrypted. A buffer that
is reused too early shows up as a packet that leaves twice.

### Dtls, EdgeDtls, Forwarder

`EdgeDtls` and `Forwarder` start from connections that `init_dtls_connection`
has set up. In the code as it stands neither program gets there (finding 3), so
these are models of the functions given what they ask for.

Unlike `edge_zero` these programs copy: `SubmitNew` takes an operation with a
buffer of its own, in which SSL leaves its result (`Copied`), and the packet in
hand is released as it is. A payload therefore records whether DTLS has
converted it; `<<fd, 0, "converted">>` is a flight of the handshake. OpenSSL
accepts a packet or, with the fault "bad", does not. Whether SSL has something
to send during a handshake, and with which datagram the handshake is complete,
is left open, except that a client begins with a flight and that a handshake is
not completed without a datagram of its own connection.

`EdgeDtls` takes start-up, loop, release, clean-up, signals and kernel from
`EdgeZero`, and adds the handshake between the receive and the device. `wait`
and `handle` occur in both the handshake and the loop; `conn_state` tells which.

`Forwarder` has two receives on one ring. `conn` is the connection whose
handshake is going on: inbound first. A datagram of the other connection is
dropped by `ShakeOther` without `io_op_free`, as in the code. `shaken` and
`dropped` record what became of a datagram in a handshake. A failure in the loop
leads to `forwarder_destroy`, one in a handshake ends the process.
`forwarder_destroy` is one step: what it frees under requests that are still in the
kernel is the subject of `KernelMemory` in `EdgeDtls`, which has the same copies and
the same clean-up in two steps.

### Session

Two sides, "client" and "server", and the datagrams on their way to each. The
memory BIO `wbio` is a sequence of bytes, and `Flush` is the one `BIO_read` that
each round makes: at most `BUF_SIZE` bytes become a datagram and the rest stays.
`Records` is what the other side finds in it: `recvmsg` puts a header and the
address in front, so a buffer of the same size has `Room` for less; a record that
is cut off is discarded, and so is a datagram that begins in the middle of one.

What OpenSSL does (external) is written from its use: four flights, each of them
one record here, since only a complete flight makes progress; a record that was
seen before is rejected; packets of the next epoch are dropped during the
handshake; the last flight goes out again if the timer has run out when
`SSL_do_handshake` is called, which only a datagram makes the program do; a
repeated last flight is answered inside `SSL_read`; `SSL_read` stops at the first
packet and keeps what follows (`held`). `dtls_decrypt_packet` treats "wants to
read" as an error, and the program then leaves its loop ("ended"). That
`SSL_do_handshake` or the wait fails for a reason of its own (`connection.c:200-211`
and `245-247`) ends a program during its handshake; it is an outcome of
`HandshakeFailed` in `Dtls`, and not repeated in `Session`, where every record is
one that the other side has written.

`len` chooses the length of the records once per behaviour, so that one run
covers flights that fit, that are cut off by the receiver and by the sender.

### Startup

A program is a sequence of calls, a call a sequence of steps that acquire
resources. A failing step releases what the code's error path releases, and the
caller goes on or returns as its test of the result says; `Inverted` is the
test `if (!ret != 0)`. A failing step may also leave a pointer to what it has
released (`keeps`, collected in `stale`). Following a pointer to something that is
not there ends in "null" or, if it is stale, in "dangling". A command line that
`usage()` refuses ends a program before it holds anything; `Setups` are the others.

## 3. Runs

| Run | Bounds | Result |
|---|---|---|
| `edge_faults` | 4 operations, 2 ring buffers, 2 completion entries, 1 read, 2 packets per side, all faults of the kernel, server | the inductive invariant `IndInv`, the safety invariants, `ReadsConserved` and the refinement hold (371 000 states) |
| `edge_live` | 7 operations, 4 ring buffers, 1 completion entry, 3 packets per side, no faults, server; 1 read, or 7, so that start-up runs out of operations and skips a read | the inductive invariant `DemandInv` and `StopsForAReason` hold; `Delivered` and `StopsAtNextPacket` hold under `FairSpec` (121 000 states) |
| `edge_dtls` | 4 operations, 2 ring buffers, 2 completion entries, 2 reads, 2 packets per side; late sends, empty and bad packets; server | the inductive invariant `DtlsInv`, safety, the refinement, `ReadsStay`, and `Tunnelled` under `DtlsFairSpec` (98 000 states) |
| `forwarder` | 4 operations, 2 ring buffers, 1 completion entry, 2 packets per side; late sends, bad packets, failing submissions | the inductive invariant `ForwarderInv`, safety, the refinement, and `Accounted` under `FairSpec` (161 000 states) |
| `session` | buffers of 4 bytes, 1 of them for the header; 6 combinations of lengths; 2 packets per side, 1 retransmission per side, 2 faults of the network | the inductive invariant `SessionInv`, safety, the refinement, `Connects` and `Carried` under `FairSpec` (18 000 states) |
| `startup_errors` | all programs, roles and options | `create_connection` and `new_tun_device` fail cleanly, no program goes on with half an object, no error path releases what it does not hold, `edge_zero` starts, what a program uses without having it is what an ignored failure was to get (2 600 states) |
| `edge_signal` | 1 packet per side | **violated**: a signal can be missed |
| `edge_cleanup` | late sends | **violated**: ring buffers freed under a write |
| `edge_burst` | 6 operations, 12 ring buffers, 6 completion entries, 1 read, 6 packets per side, no faults, client | **violated**: a burst ends the program |
| `startup_forwarder` | forwarder, all options | **violated**: `forwarder_create` fails on success |
| `forwarder_drop` | 8 operations, 4 ring buffers, bad packets only | **violated**: one bad packet ends the forwarder (without "bad" it holds) |
| `session_loss` | 1 lost datagram, flights that fit | **violated**: both sides wait for ever |

What some of the runs say beyond "it works":

* `edge_dtls`: because the DTLS edge copies, `KernelMemory` holds for it even
  with late sends, which it does not for `edge_zero`. Flights of the handshake
  whose completions were not reaped yet hold operations when the initial reads
  are submitted, and reads that find none are skipped; `ReadsStay` says that
  one is skipped only if no operation is free, which is when these flights and the
  other reads hold all but that of the receive, and that the number does not
  change after that, in either direction.
* `forwarder`: `LossBounded` makes the leak of `connection.c:218` exact: at most
  one ring buffer per dropped packet, and nothing else. `NeverBoth` and
  `Accounted` together say that each datagram has exactly one fate.
* `session`: `StuckOnlyByLoss` and `Connects`: a handshake hangs if and only if a
  flight is lost or is longer than `Room`; the hypotheses are needed (without
  either one TLC finds a counterexample). `EndsOnlyIf`: a duplicated datagram is
  enough to end a program, as is a flight sent again; loss and reordering are
  not. `Emptied`: nobody asks whether `wbio` has more, and as long as flights fit
  nobody has to. The invariants were also checked with three faults and two
  retransmissions (168 000 states).

*Why the bounds are enough.* Four operations are the least with which both a
read and a receive can be forwarded (receive, read, its replacement, a send),
two ring buffers and two packets let one packet overtake another and let a
buffer be reused while its predecessor is in flight, and two completion entries
let the queue overflow. With four operations the pool also runs empty. The
interesting limits (empty pool, empty ring, full queue) all occur. With four
operations only one packet from the TUN side can be in a send at a time; that
larger pools, where sends overlap, change nothing is what the theorems are for, which
assume no sizes. `edge_live` has seven, so that nothing but a signal, an unknown
destination or the seven reads can end it, and the liveness properties are not fulfilled by ending. For `edge_dtls` and `forwarder` four operations are again the
least with which both directions work, and few enough for the pool to run empty
at every point. In `session` two packets per side can be in one another's way in
the network and in `held`; two faults allow a loss together with a duplicate, or
a late packet that makes a timer be looked at; `Room` is one less than
`BUF_SIZE`, so that there is a flight between the two.

*Sizing.* `StopsForAReason` says why `edge_zero` may leave its loop: it was told
to, a request failed that the kernel could not but fail, or a step found no free
operation, and then there are fewer than `cq_depth + 2 n_initial_read_ops + 4` of
them; a receive finds the ring empty only if that has fewer than `cq_depth + 3`
buffers. It is proved for all sizes and checked where the bounds are just met. They
cannot be lower: for a client in a faultless environment, otherwise of the size of
`edge_live`, TLC finds it ending with six operations (3 packets per side) and with
three ring buffers (4 packets per side). A full queue makes the program take an
operation per packet before it reaps the first send, and a read needs two.
`edge_zero.c:20-27` has as many operations as completion entries (1024 of each, 15
reads, 34 too few) and twice as many ring buffers; `edge_burst` has six, six and
twelve, and a burst ends it. `KeepsRunning`, which that run refutes, says that
nothing but a signal ends the loop.

*Fairness.* `WF(Program)`: the thread is scheduled. `WF` of a send or a write
completing: the kernel finishes them, with or without success. Nothing forces a packet or a signal to
arrive, so a program that waits may wait forever. In `Session`, `WF` of the first
call and of receiving: both programs are scheduled and what the network does not
lose arrives. Encrypting is not fair; there may be no packets. The timer of
OpenSSL has no fairness, because nothing calls it.

*Deadlock* is checked in every run but those of `Session`; `Ended` lets a
finished process stutter. In `Session` the traffic is bounded and a handshake may
hang; `StuckOnlyByLoss` says when.

*Mutations.* Operators named `X_Y` next to a definition `X` are mutations of it:
`PROJECT.json` names, for each property, one with which TLC finds it violated.

## 4. Proofs

Everything in this table is proved for all sizes of the pools, the ring and the
queue, any number of packets and of initial reads, any `Faults` and any `Pick`.

| Property | `edge_zero` | DTLS edge | forwarder |
|---|---|---|---|
| inductive invariant | `Invariance` | `DtlsInvariance` | `ForwarderInvariance` |
| types | `TypeCorrect` | in `DtlsInv` | `ForwarderTypeCorrect` |
| one user per operation | `OpsExclusive` | in `DtlsInv` | `ForwarderOpsExclusive` |
| one user per buffer | `BufsExclusive` | in `DtlsInv` | `ForwarderBufsExclusive` |
| nothing is lost | `LosesNothing` | `DtlsLosesNothing` | `LossIsBounded` |
| the receives stay armed | `StaysListening` | in `DtlsInv` | `ListensToBoth` |
| the reads stay | `KeepsReading` | `DtlsKeepsReading` | has none |
| a buffer for every operation | `BufferForEach` | | |
| no double free | `NoDoubleFree` | `DtlsNoDoubleFree` | |
| no freed memory in the kernel | violated | `DtlsKernelMemory` | |
| what leaves is converted | | `DtlsConverts` | `HasOneFate` |
| implements `Relay` | `ImplementsRelay` | `DtlsImplementsRelay` | `ForwarderImplementsRelay` |
| leaves its loop only for a reason | `OnlyForAReason`, `DemandInvariance` | | |

And for `Session`, for any size of the buffers and of the header, any lengths of
the flights, any number of packets, retransmissions and faults:

| Property | Theorem |
|---|---|
| inductive invariant, types | `SessionInvariance`, `SessionTypeCorrect` |
| no packet twice, none that was not encrypted | `SessionImplementsRelay` |
| one `BIO_read` and one `SSL_read` are enough if flights fit | `NothingLeftBehind` |
| a program only ends after a repetition | `EndsForAReason` |
| a handshake only hangs if a flight was lost or does not fit | `StuckForAReason` |

*Assumptions.* `UringAssumption` (sizes are naturals, the kinds of objects are
distinct), `SizeAssumption` (finitely many operations, and as many `buf_addr_t`:
`iouring_init` allocates `n_io_ops` of both), `PickAssumption` (a free list
returns one of its elements), `EdgeAssumption` and `ForwarderAssumption` (two
descriptors, distinct blocks), `SessionAssumption` (a header is shorter than a
buffer, records are not empty, and a packet fits in a datagram). TLC evaluates them
in every run of the module.

*Layers.* The programs share the ring and `packet_handler.c`, so the invariants
share four parts, each with one lemma per step of `PacketHandler`:

1. `HandlerInv` (`PacketHandlerProofs`): who uses what. `OpExclusive` and
   `BufExclusive` are not inductive alone. `Bookkeeping` adds what the code
   relies on without saying so: a pooled operation is cleared; a multishot
   operation is a UDP receive without `buf_addr_t`; a completion that carries no
   buffer is the last of its request; the multishot operation that the loop is
   handling has a buffer or has just passed it on (so that `io_op_free` does not
   put it on the free list while it is armed); outside of a round the loop holds
   at most a multishot operation (so that `free(op)` after the loop frees nothing
   that is on the free list).
2. `Kept` and `Stranded` (`LossProofs`): nothing disappears. `Keeps` says of a
   step that it loses no operation and no buffer and leaves the receives alone.
   A ring buffer that a multishot operation has is only safe while the operation
   is being handled, because the next datagram overwrites `buf_idx`; `Stranded`
   are the buffers for which nobody is responsible any more. The edges strand
   none (`LossInv`), the forwarder at most one per dropped datagram
   (`ServingInv`, `DropCosts`).
3. `Custody` (`CustodyProofs`): where packets are. Whoever works on a packet owns
   the buffer it is in; two buffers that are `UnderWay` never hold the same
   packet; a packet that has left is in none of them, and left once. This is
   where reusing a buffer too early would show. `Finished` are the packets that
   are nowhere any more: `Lasting` says that a step brings none of them back,
   which gives the forwarder that what a handshake has consumed never leaves.
4. What each program adds: `HeapKept`, `Descriptors`, `ReadsInv` for `edge_zero`;
   `CopiedOut` and `KernelMemory` for the DTLS edge, where only a multishot
   operation uses a ring buffer, and so no send reads what clean-up frees, and
   `ReadsStarted`, with `Before` for the time when there are no reads yet;
   `OnlyMultishot` and the account of `shaken` and `dropped` for the forwarder.

*Refinement.* The only steps that change `arrived` and `out` are the kernel's.
`KernelCustody` says that such a step takes in the next packet of a descriptor, or
sends one that came in on the other descriptor and has not been sent, and that is a
step of `Relay` (`KernelRelays`; `ComesEnters` and `LeavesPasses` for the forwarder).

*Counting.* `SpareBuffer`: as many `buf_addr_t` as operations, each operation has
at most one and the receive has none (`OneOver`). `LossBounded`: `Counting` bounds
the buffers that nobody has by those that are stranded and those by the dropped
datagrams. `ReadsConserved`: a step keeps the set of reads or exchanges one element
(`Replaced`); during start-up a read is only skipped when no operation is free
(`ReadsInv`, with `OneOver`), and then all but the receive are reads.

*Demand.* `StopsForAReason` needs that a step that finds no operation, or a
receive that finds no ring buffer, does so only if there are too few.
The number of free ones is not bounded from below by what is in use now: it
depends on the order in which completions will be reaped. So `Bounded` counts, for
every position `i` of the queue, the work that there will be when the loop gets
there (`Work(i)`): the packets before `i`, which will have become sends, the sends
from `i` on, which will not have been freed, and the packet in hand (`Claims`). The
receive reports a datagram and stays armed only while the queue has room
(`Reported`); to these come one completion of each read, the last one of the
receive, and the packet in hand, hence `cq_depth + Reads + 2`. The ring needs the
same for buffers: those of sends that are queued before the last completion of the
receive (`Returning`) come back before it is armed again. None of this depends on
the sizes: `FewOps` and `FewBufs` only say how they compare with it. Sends that
stay in the kernel ("late") hold operations without an entry of the queue, so with
them a pool of any size may run empty, and `Bounded` is not claimed.
`Explained` traces every other failure to its cause: an error, an empty completion
or an empty packet can only be in the queue or in hand if the kernel could produce
it. Both hold as long as the program is `Steady`, whatever else
fails. `DemandInv` is relative to `IndInv`.

*Session.* The invariant has three layers.

1. `Genuine`, `TakeTurns` and `Replay` hold whatever the lengths and the faults.
   Everything that is on its way was written by the other side; the flights
   alternate, and a side that waits has not seen what it waits for; a packet that
   was decrypted is known and not accepted again. They give the types and the
   refinement.
2. If flights `Fits`, a datagram is a record (`Whole`): each `Flush` takes exactly
   what SSL has written, and `Records` of it is that record alone. Hence `Emptied`;
   `OnItsWay`, if nothing is lost, says that the flight a side waits for is in the
   network; `New`, if nothing is repeated, that whatever comes is unknown and in
   turn, so that no `SSL_read` fails.
3. If not, streams are cut at places that are not the ends of records. `Halted`
   follows only the first flight that does not fit: all before it fitted, the side
   that sent it receives nothing any more, and of what is left of it no part begins
   with its beginning (`Unfinished`), so that the other side never finds it. Nobody
   decrypts anything then, and so `EndsOnlyIf` holds for these lengths, too.

`Awaited` and `Records` search a sequence; what they find is characterized with the
least-number principle (`WFMin` on the naturals), which takes the place of induction.

*Only model-checked.*

* Liveness (`Delivered`, `StopsAtNextPacket`, `Tunnelled`, `Accounted`, `Connects`,
  `Carried`) is out of the prover's reach.
* `Startup` is finite: the three programs and all their options are in the run
  `startup_errors`, which is exhaustive, so a proof would say no more.
* That the sizes in `FewOps` and `FewBufs` are the least, and that the hypotheses of
  `StuckOnlyByLoss` and `Connects` are needed: TLC's counterexamples.
* `KernelMemory` does not hold for `edge_zero` (run `edge_cleanup`).

## 5. Findings

1. A signal between the test of `running` and the wait is not seen until a
   packet comes in (`packet_handler.c:16`, run `edge_signal`). The loop of the
   forwarder does not look at `running` at all (`forwarder.c:202`).
2. Cleanup frees ring buffers before it closes the ring (`iouring.c:642`, run
   `edge_cleanup`).
3. The result of `init_dtls_connection` is tested the wrong way round
   (`edge.c:129`, `forwarder.c:71`, `forwarder.c:85`): `edge` and `forwarder`
   end when it succeeds (run `startup_forwarder`), and go on without an SSL object
   when it fails, or with one that is freed: `connection.c:102` calls `SSL_free` and
   keeps the pointer.
4. A datagram that cannot be decrypted ends the forwarder, which should drop it
   (`forwarder.c:212`, run `forwarder_drop`). The edge does the same, and a
   datagram that the network duplicates is enough (`session`, `EndsOnlyIf`).
5. A lost flight is never sent again (`connection.c:213`, run `session_loss`).
6. The operation pool is smaller than a burst needs, and the program ends when it
   is empty (`edge_zero.c:25`, run `edge_burst`; `docs/ARCHITECTURE.md:121` promises
   "Graceful degradation on resource exhaustion").

Also seen, within what a passing property allows:

* Flights longer than a buffer has room for make the handshake hang
  (`iouring.c:313`, `connection.c:184`; `StuckOnlyByLoss`).
* A server that is to send before it knows its peer ends (`tun_udp_run.c:62`): the
  send fails, and nothing is tried again (`StopsForAReason`).
* `iouring_init` keeps the context, the ring, the pools and the buffers when a later
  allocation fails (`iouring.c:238`), although `docs/IMPLEMENTATION_SUMMARY.md:267`
  says "Resource cleanup (no leaks)". The programs end then; `CleanFailure` does not
  claim that `iouring_init` fails cleanly, only that nothing is acquired after that.
* `edge_zero` uses a connection that may be NULL (`edge_zero.c:113`).
  `ResultsTested` does not hold for `edge_zero` for this reason alone, and for `edge`
  as for the forwarder. `OnlyAfterIgnoredFailure` says of all three that what a
  program misses is what the call whose failure it did not notice was to get, and
  nothing else.

## 6. Not modelled

`utils.c`: logging and formatting have no effect on the tunnel, and its address
and packet helpers are pure functions that no program calls. Single-shot UDP
receives and multishot TUN reads, which the build switches off. The cookie
callbacks of `dtls_context.c`, which OpenSSL does not call because
`SSL_OP_COOKIE_EXCHANGE` is not set. `SSL_ERROR_WANT_WRITE`: a memory BIO accepts
every write. OpenSSL and the kernel beyond what the code relies on, scripts and
images.

## 7. Plan

The programs are proved about together with the ring, the sessions without it.
What is left is their composition: `EdgeDtls` with a `Session` in the place of
`Dtls`, so that what the handshake writes is what `iouring_submit` sends.
