# A TLA+ verification of networking-lab-2016

The repository holds the programs of a networking course: a TFTP client and
server, a second TFTP client, a chat server with a database, a router with its
hosts, and a chat program for two computers on one Ethernet. This directory
holds TLA+ modules that model them, the TLC configurations that check the models
on small instances, and TLAPS proofs of the properties that hold for every size.

    tlc -config UploadStopAndWait.cfg MCUpload.tla     check one run
    tlapm UploadProofs.tla                             check the proofs of one module

The proofs are in `NetProofs` (lemmas about the network), `UploadProofs`,
`UploadFileProofs`, `DownloadProofs`, `DownloadFileProofs`, `MyProofs`, `ChatProofs` and
`LabProofs`; the inductive invariants they rest on are in `UploadInv`, `DownloadInv`,
`MyInv`, `ChatInv` and `LabInv`.

`PROJECT.json` lists the runs, what each of them shows, which lines of the source
each definition stands for, and the hazards the properties are about.

## 1. Inventory

### 1.1 TFTP (`ASSIGNMENT4`)

| component | source | state | operations |
|---|---|---|---|
| server daemon | `tftpd.c` `main` | the listening socket, `n`, `errno`, the forked children | receive a request, check it, fork a child for an RRQ or a WRQ |
| server, write request | `tftpd.c` `tget` | the open file, `count`, `ackbuf`, `datasize`, `flag`, the attempt `j` | send the ACK that is due, receive a block, write it, retry, abort, close |
| server, read request | `tftpd.c` `tsend` | the file, `count`, `packetbuf[]`, `bcount`, `len`, `j` | read and send a block, wait for an ACK, resend the window, abort |
| client, upload | `tftpc.c` `tsend` | as above, and the server's port | send the WRQ, wait once for ACK 0, send blocks, wait, resend, abort |
| client, download | `tftpc.c` `tget` | the open file, `count`, `datasize`, `flag`, `tid`, `j` | send the RRQ, receive a block, acknowledge it, write it, abort |
| second client, download | `MY_TFTP/tftp_client.cpp` `get_file` | the file, `next_packet`, `data_section`, `TID` | as above, resends the RRQ or the ACK on a timeout |
| second client, upload | `MY_TFTP/tftp_client.cpp` `post_file` | `sent_packet`, `received_packet`, `backup_buffer` | WRQ with retries, stop-and-wait, resend |

*Interaction.* Datagrams only. One process of the client and one child of the
server talk through sockets of their own; each waits in a loop of non-blocking
`recvfrom` calls that ends with a datagram or after two seconds.
*Hard.* Datagrams are lost, duplicated and reordered; a timeout can race a late
answer; both ends choose window and block size separately; block numbers have 16
bits; either end can disappear; a file operation can fail half-way.
*Correct* when a reported success means that the file is stored whole, when blocks
are stored once and in order, when a lost datagram is repaired, and when both
ends stop in the end.

### 1.2 Chat server (`ASSIGNMENT3`)

| component | source | state | operations |
|---|---|---|---|
| connection threads | `server.c` `handler_read`, `handler_write` | per connection: `insert_flag`, `flag`, `prev_data`, `K`; the socket | register, ask for the pin, log in, list users, store a message for another user; once a second read the own row and forward its message |
| database layer | `mysqlite.h` | the table USERS (socket, name, pin, one message, status); the globals `result`, `ALL_USER`, `GLOBAL` | insert, update, socket_update, retrieve, retrieve_status, retrieve_active_user |
| client | `client1.c` | the socket | a thread that reads, a thread that writes |

*Interaction.* Two threads per connection share the database and the three global
variables of `mysqlite.h`, without a lock; a message travels through the DATA
column of its receiver's row.
*Hard.* Interleavings of the threads inside `retrieve` and `retrieve_active_user`;
a status read before and used after a sleep; one message slot per user that is
polled; logins and disconnections that the row does not notice.
A row is found by the socket number of its user's connection: a number that
outlives the connection, or is drawn again, belongs to somebody else.
*Correct* when a message is written only to a connection on which its owner's name
was typed, when what is stored for an active user is forwarded in the end, when a
pin opens the account it was typed for, and when no global array is left.

### 1.3 Router and hosts (`Network_layer`), DosTalk (`FINAL_DOSTALK`)

| component | source | state | operations |
|---|---|---|---|
| router | `ROUTER.C`, `MY_NET.H`, `ROUTING.H` | `MY_ARP[6]`, two addresses, `BUFF`, `BUFF2`, `length`, counters | two receive interrupts in two halves (buffer, copied), filter, rewrite, send |
| hosts | `1_1.C`, `1_3.C`, `2_1.C`, `2_3.C` | `MY_ARP[2]`, `BUFF`, `PACKET` | type a message, choose the destination MAC, send; receive, filter, show |
| DosTalk | `dostalk.C`, `sender.C`, `receiver.C` | `BUFF`, `PACKET` | type and send a frame, receive, filter, show |

*Interaction.* Ethernet frames through packet drivers that call the receiver twice
per frame.
*Hard.* Two cards interrupt `main` and each other, each with two calls per frame; the
first card receives before `main` has read the address of the second; a refused
call ends the program by `exit(1)`, also from within an interrupt, and leaves its
handles to the driver; the user types source and destination by hand, so anything
may be claimed; the table has six places for the seven rows of `ROUTING.TXT`.
*Correct* when a line is shown by the host it names and by no other, once, when a
frame is on no network but its author's and the one it names, and when a line
whose way is open gets there.

## 2. Plan

1. **TFTP upload** (done): `Udp`, `Tftp`, `TftpdGet`, `TftpcSend`, their composition
   `Upload`, the abstract `FileTransfer`, the inductive invariants `UploadInv`, the
   proofs `UploadProofs` and `UploadFileProofs`.
2. **TFTP download** (done): `TftpdSend`, `TftpcGet`, their composition `Download`,
   `DownloadInv`, `DownloadProofs` and `DownloadFileProofs`.
   It does not refine `FileTransfer`: the client stores any DATA packet as the next block,
   so a lost ACK is enough to store one twice (the property `InOrderUnlessAckLost`).
3. **Daemon and second client** (done): `Tftpd` (the receive loop of `main`, a set of
   children, the file on disk), `MyTftp` (`get_file` and `post_file`), their
   composition `MyTransfer`, `MyInv`, `MyProofs`.
4. **Chat server** (done): `UserTable` (the table and the functions of `mysqlite.h`),
   `ChatServer` (both threads of each connection), `ChatInv`, `ChatProofs`.
5. **Router, hosts, DosTalk** (done): `Addresses` (the tables), `PacketDriver` (the
   environment), `Stations` (all programs with one card), `Router`, their composition
   `Lab`, `LabInv`, `LabProofs`.
6. **Proofs** (done): every safety invariant the runs check is a theorem, and so are one
   action property and the refinement; liveness is only model-checked (section 5.6). No
   module declares a RECURSIVE operator.

Abstract specification: `FileTransfer` (done). For the other parts the promise is a
property over history variables (`typed` and `shown`, `claimed` and `mail`), because
each holds under conditions only, and the properties name them.

## 3. The modules

### 3.1 The network: `Udp`, `Tftp`

`net` is a bag of datagrams. `Exchange(D, S)` is what one step of a program does to
it: it takes at most one datagram and sends some. `Lose` and `Duplicate` are the
network's, within the budgets `MaxLosses` and `MaxDups`; `lost` remembers what was
lost, for the properties that say which losses are repaired. A datagram is taken
in any order, so reordering needs no action. `Faults` names the local failures
that may happen: `sendto` and `recvfrom` returning an error, `fork`, `fopen`, `fwrite` and
`fclose` failing.

`Tftp` has the datagrams. A block of a file is a number and a size; sizes are small
numbers (`StdSize` stands for 512), because the programs only compare them with each
other and with 512. The programs compare hosts, never ports, so a socket has a
host: `beside` is another socket of the server's host, `stranger` another host.
`nobody` stands for a port that no program listens at, or the port of a stranger
at the server's address.

### 3.2 Upload: `TftpcSend`, `TftpdGet`, `Upload`

One action is one pass of a receive loop with all it does before it waits again:
for the server child, `TgAccept` is the block read, written, `count` increased and
the next ACK sent; `TgRetry` is the end of a failed attempt, with the resend of
`ackbuf` and the test of `RETRIES`. A send that fails ends the function
(`ExchangeFails`, pc `returned`), with any part of the packets of that step already
sent. `TgClose` is apart, because the last ACK leaves before `fclose`.

The client's `packetbuf[]` is modelled slot by slot (`tsBuf`), with the one `len`
(`tsLen`) that the resend loop uses for all of them: two of the findings are
about these two variables. `TsFirst`, `TsFirstTimeout` are the single wait for
ACK 0 (`j` starts at `RETRIES - 1`), which goes on in any case.

`Slow` says when a timeout may expire. With `Slow = TRUE` it may at any time: a
timeout races every late answer. With `Slow = FALSE` delays are far below two
seconds: a timeout expires only when nothing is on its way to either program and
nobody is about to send. Safety is checked with `Slow = TRUE` wherever the state
space allows it.

`UploadInv` has four invariants: `IInv`, behind order and the client's success,
`WindowInv`, behind the window, `WholeInv`, behind the server's success and the
refinement, and `TimelyInv`, behind all of these where block numbers wrap.

### 3.3 Download: `TftpdSend`, `TftpcGet`, `Download`

The same conventions. The client sends nothing when it times out, and takes any
DATA packet for the next block; so what it promises is weaker, and the runs say
exactly under which conditions it holds: ack frequency 1, answers in time, no
lost ACK. `Paced` is the one assumption about the speed of the two programs: both
poll `TIMEOUT` times a millisecond, so without `Slow` the client's n-th timeout does
not come before the server's timeout number n - 1.

`DownloadInv` has the invariants: `WindowInv` says what is in `packetbuf[]`, `TimelyInv`
that the two programs take turns when answers come in time (`Timely`).

### 3.4 The daemon and the second client: `Tftpd`, `MyTftp`, `MyTransfer`

`Tftpd` is the loop of `main` in `tftpd.c` with up to two children (`Kids`, the bound).
The loop ends only on an `errno` that is not EAGAIN, and a successful `recvfrom` does
not reset it: `dErrno` is that variable, and decides whether a request is served or
read and lost. A child is `tget` or `tsend` with the default options, in fewer steps
than `TftpdGet` and `TftpdSend`, which have every option; what matters here is which file
it writes: a second child for a repeated WRQ truncates the file of the first, and
stdio writes the pieces of each at `fclose` (`disk`). The server fails too: `broken` remembers
which calls have failed and in which process, up to `MaxBroken` of them. A child's `sendto`
ends its function, its `fwrite` leaves the block without an ACK, its `fclose` lets only a
prefix reach the disk and nobody notices; a file that cannot be opened is answered by an
ERROR packet; a request whose `fork` fails is answered by nobody (`PollUnserved`), and that is
also what becomes of a request when both children are in use. The daemon itself ends
(`down`) on a datagram whose first byte is not 0 (`JUNK`, `PollInvalid`) and on an error of
`recvfrom` other than EAGAIN (`PollFails`).

`MyTftp` has one action per step of `get_file` and `post_file`: a datagram accepted or
refused, a timeout, the resend. `TID` and the port in `server_addr` are two variables in
the code and here. `flood` is the loop of line 587 that nothing ends. `MyTransfer`
puts both together, `MyInv` has its inductive invariant; `early` counts the timeouts
that expire out of the order the two delays give (2 s against 2001 polls), up to
`MaxEarly`. `Steady` names the conditions under which a download keeps its order; that no call
of the server has failed is one of them.

### 3.5 The chat server: `UserTable`, `ChatServer`

`users` is the table: rows with a socket number or drawn number as key, a name, one
message and a status; it survives a restart. `result`, `allSize` and `global` are the
globals of `mysqlite.h`. An SQL statement is one step. A call that works on a global
is as many steps as it has accesses (`clean`, `load`, `copy`; `count`, `alloc`,
`select`, `frame`), so that the threads of two connections meet inside it. With `Overlap
= FALSE` a thread enters a call only when no other one is inside: this is what a
lock around each call would give, and separates the hazards of the globals from those
of the table. `rd` and `wr` hold the locals of the two threads of a connection;
`exit` says why the server has ended (a second row with one key, a reset
connection, a broken pipe). `claimed`, `restarted`, `collided`, `shown` (what was written last to a
connection) and `gone` (has a user gone since the first of the two counts of a listing?) are
history.
`ChatInv` has the inductive invariant.

### 3.6 The laboratory: `Addresses`, `PacketDriver`, `Stations`, `Router`, `Lab`

`Addresses` has the tables byte for byte (without the common prefix 08:00:27), the
table of the router being the first six rows of `ROUTING.TXT`. `PacketDriver` is
external: a frame that is sent is put into the `ring` of every other card of the
network whose `mode` admits it. A driver may refuse a call (`Refuse`, within `MayFail`
and `MaxFailures`), and then the program does what it does on a carry flag: `exit(1)` after
`get_driver_info`, the receive mode and `send_pkt`, nothing at all after `get_mac` and
`access_type`. A program whose `get_mac` is refused goes on with what `malloc` left in the
place of its address (`own` of a host, `addr` of the router): a member of `Garbage`, which
`GarbageAssumption` keeps apart from the addresses of cards, since bytes that spell one by
chance would make the program answer for it. Without a handle the next call is refused.

`Stations` are the hosts and the programs of DosTalk: `Start`, `SetMode`, a typed line
(`TypeLine` with `put_dest`, `send_packet` and `flush`), `Bye`, and `Receive`, both calls of
`receiver` in one step, since nothing of the program runs between them. DosTalk needs
no router; in `Lab` its programs are on the first network, where they show every frame
and so tell what has passed there. In `Router`
they are two (`Give`, `Take`): the other card may interrupt in between, and `nest` is the
stack of interrupts. `main` moves only while `nest` is empty. `Lab` composes them, with
the history of the lines (`typed`, `path`, `shown`) and the call of a program that is
gone (`CallsNobody`). `LabInv` has the inductive invariant.

### The abstract specification: `FileTransfer`

The receiver stores the pieces of the file one after the other; it may report success
only when it has them all, and so may the sender; either may fail at any time.
`Upload` implements it (property `IsTransfer`, theorem `UploadIsTransfer`) with
`stored`, `receiver` and `sender` mapped to the file and the two program counters.
`Download` does not, and its properties say what it keeps instead.

## 4. What the runs show

| run | module | asks |
|---|---|---|
| `UploadStopAndWait` | `MCUpload` | `-w 1 -a 1`, one loss, one duplicate, a failing `fopen`, timeouts at any time: types, order (`InOrder`), the server's success (`ServerHasFile`), ACKs never ahead of the file (`AckedIsStored`), refinement of `FileTransfer` |
| `UploadWindow` | `MCUpload` | `-w 2 -a 2`, blocks above 512 bytes, debug mode, foreign datagrams, failing `sendto`, `fopen`, `fwrite`: the inductive invariant, what is missing on the server is still in `packetbuf[]`, but for the first piece (`MissingIsKept`), the client's success (`NoFalseSuccess`), termination of both ends |
| `UploadRepair` | `MCUpload` | answers in time, two losses, more blocks than block numbers, failing `fclose`: order, and every loss is repaired but that of the WRQ, of its ACK or of the last ACK (`vital` remembers these datagrams when they are lost; their block numbers alone would not tell them) |
| `DownloadTimely` | `MCDownload` | `-w 1 -a 1`, answers in time, two losses, a datagram of another host to the child: the inductive invariant, order as long as ACKs arrive, success of the client and of the server, repair of losses |
| `DownloadWindow` | `MCDownload` | `-w 2 -a 2`, five pieces, all local failures, debug mode, datagrams of another host to the client: the server resends its window, slot by slot and under one length (`WindowResent`), termination of both ends |
| `MyClient` | `MCMyTransfer` | the second client and the daemon, download and upload, two losses, an early timeout, every local failure of the client and any one of the server, foreign and malformed datagrams: the inductive invariant, the order and completeness of a download (`InOrder`), an upload that is reported is stored whole (`UploadedWhole`), and kept unless the request was served twice or `fclose` failed (`UploadKept`), a request is overlooked only beside an unreaped child or when `fork` fails, the client ends or floods, one loss is repaired |
| `ChatCalls` | `MCChat` | two users, two connections, three lines, three messages none of which begins another, calls that do not overlap: the inductive invariant, mail and logins stay with the names typed on a connection, as long as no restart and no drawn number interferes, a key is taken twice only then, a listing leaves its array only if a user has gone between its two counts (`ListingInBounds`), the message in the row of an active user is not kept back for ever unless it is the one written last (`StoredIsForwarded`) |
| `Lab` | `MCLab` | three hosts, router, `dostalk`, two lines, one refused call (of `get_mac` too), a late host, a leaving host: the inductive invariant, who shows a line (`OnlyAddresseeShows`, `HeardOnce`), where frames go and whose address they bear (`StaysOnItsWay`, `SourceIsOnThisNet`), who is called after the end (`GoneOnlyAfterRefusal`), and that an open way leads there (`SentIsShown`) |

Bounds. Three to six pieces make a first, a middle and a short last block and,
with windows of two or three, two windows and a part of one. Two losses cover the
loss of a datagram and of its repetition; a third adds only `RETRIES` exhausted,
which two retries (`RETRIES = 2` in some runs) reach as well. One duplicate is enough for every
stale ACK or block, since a second copy is dropped in the same way. `M` is above the
number of pieces except in `UploadRepair`, where the blocks 1 to 6 go by the
numbers 1, 2, 3, 0, 1, 2; in `DownloadTimely` it is above pieces and retries together,
because a client that stores copies counts past the end of the file.

In `DownloadWindow` five pieces are two windows and a half, and put the last piece
beside a full one in a window, where the one length of a resend matters (`tftpd.c:753`).
In `MyClient` two pieces are a full and a last one; two losses cover a request and an
answer, or one datagram twice; the third, which a download whose request was served twice
does not bear, is left to the proof. `MaxBroken = 1` lets each call of the server fail, one at a
time, beside both losses and the early timeout (1.3 million states, three minutes).
`MAX_RETRY = 2` lets the client give up; the order of the two limits is free in the proofs.
A third child would need a third copy of a request, and differs from the second in nothing; a
request that finds no child left is one whose `fork` fails. In `ChatCalls` three inputs are enough for two users to be
registered and one message, for a name typed on the other's connection, for a logout
and what follows it, and for a restart; two messages that do not begin one another show that the
filter keeps back repetitions only; `Ids` has the number of a connection and one that
is free, the two cases `rand() % 1000` can produce. In `Lab` two lines meet in the
router from both sides, or follow each other at one host, so that the destination
of the first can serve the second; three hosts give an addressee and a bystander on
the author's network and one across. The host that starts late and leaves is 1.3; the
other stations are up from the start, and two of them meet in the router. A line may name a card
of the router, no network, or its own destination's network for its source. `Garbage` has one value, since the programs
only compare addresses.

Fairness. `FairSpec` gives each program weak fairness of its next step, no more:
a receive loop that is waiting receives something or its poll count ends, and the
processes run on independent machines. That a call fails is never owed: a `recvfrom` error that
ends the daemon is an action of its own (`ServerFails`) without fairness. The network has no fairness: it may lose
everything within the budget. In `MyTransfer` the client, the daemon and each child have
it separately. The threads of the chat server have strong fairness: the operating
system runs each of them again and again, and with `Overlap = FALSE` a thread that waits
for another call to end would otherwise be passed over for ever; clients owe
nothing. In `Lab` the drivers deliver what they hold (weak fairness of `StationReceives` and
`RouterReceives`); nobody has to type, start or stop a program.

Deadlock is not checked in these runs: programs end, users stop typing, and the
composition stops.

### Runs that find the code in disagreement with itself

* `UploadTruncated`: with `-w 3 -a 3` a resent window carries one length for all its
  pieces; the server takes a cut piece for the last one and reports success
  (`tftpc.c:532`).
* `DownloadEarly`: one early timeout of the server, nothing lost, and the client
  stores a block twice and reports success (`tftpc.c:679`).
* `ChatOverlap`: two calls of `retrieve` overlap, and a message is written to the
  connection of another user (`mysqlite.h:185`).
* `MyPostStuck`: one lost datagram, and an upload resends for ever
  (`tftp_client.cpp:587`).

Others are seen by changing a constant of a passing run:
`UploadRepair` with `CAck = 2, SrvAck = 2` (the first piece of a window is never
resent, `tftpc.c:431`: its slot is the one that `MissingIsKept` leaves out), `UploadStopAndWait` with `"flush"` among the `Faults` (an unnoticed
`fclose` failure, `tftpd.c:520`), `DownloadTimely` with `"disk"` (the ACK leaves before
`fwrite`, `tftpc.c:698`) or with `CSize = 3` (a client with `-l 1024` takes the first
512-byte block for the last one, `tftpc.c:675`), or with `SrvAck = 2`, `CAck = 2` and `LastSize = 1`
(a resent window is cut to the length of the last piece, `tftpd.c:753`, and the client reports
success), `ChatCalls` with the messages `<<1>>` and `<<1, 2>>` (a message that begins the last one
is never written, `server.c:290`).

## 5. What is proved

A theorem is about every value of the constants that the assumptions of the modules
and its own hypothesis allow. Budgets (`MaxLosses`, `MaxDups`, `MaxLines`, `MaxInputs`,
`MaxEarly` and so on) are constants like the others, so what is proved holds for any
number of losses, lines or inputs.

| module | theorems | hypothesis |
|---|---|---|
| `UploadProofs` | `UploadTypes` | none |
| | `UploadInvariant`, `UploadInOrder`, `UploadNoFalseSuccess`, `UploadAckedIsStored` | `Setting` |
| `UploadFileProofs` | `UploadMissingIsKept` | `Setting` |
| | `UploadServerHasFile` | `Setting`, `OneAtATime` |
| | `UploadIsTransfer` | `Setting`, `OneAtATime`, no failure but of `fopen` |
| | `UploadWrappedInOrder` | `Timely` of `UploadInv` |
| | `UploadWrappedSuccess` | the same, `fclose` loses nothing |
| | `UploadWrappedHasFile` | the same, and `OneAtATime` |
| | `UploadWrappedIsTransfer` | `Timely`, `OneAtATime`, no failure but of `fopen` |
| `DownloadProofs` | `DownloadTypes` | none |
| | `DownloadWindowResent` | `Chunks < M`, no strange datagram bears the address of either host |
| `DownloadFileProofs` | `DownloadInvariant`, `DownloadInOrder`, `DownloadNoFalseSuccess`, `DownloadServerKnows` | `Timely` |
| `MyProofs` | `MyInvariant`, `MyTypeCorrect`, `MyUploadedWhole`, `MyUploadKept` | `Setting` of `MyInv` |
| | `MyInOrder` | `Setting` of `MyInv`, `RETRIES > 1` |
| | `MyOverlookedBesideChild` | none |
| `ChatProofs` | `ChatInvariant`, `ChatTypeCorrect`, `MailIsForClaimant`, `LoginIsOfClaimant`, `InsertIsSafe`, `ListingStaysInBounds` | none |
| `LabProofs` | `LabInvariant`, `LabTypeCorrect`, `AddresseeOnly`, `OnItsWay`, `HeardAndOnce`, `SourceOfThisNet`, `OnlyAfterRefusal` | none |

### 5.1 Upload

`Setting` (in `UploadInv`) is what the properties need: fewer pieces than block
numbers (`Chunks < M`; the code has no protection against an old block of a
wrapped number; for a network in time see the end of this section), strange
datagrams come from other hosts only (a socket of the server's host is taken for
the server), and `fclose` does not fail. All window sizes, sizes of blocks, retry
limits, loss and duplicate budgets are free, and so is `Slow`.

The argument. `InOrder` is not inductive: the server stores any block with the
number it expects, so the invariant must know what such a block can hold.

* `NetInv` says of every datagram in flight that it is `Sound`: a DATA packet carries
  the piece its number names (`PieceInFlight`), an ACK of the child names a block that
  is stored (or 0), and, once `fwrite` has failed, an earlier one.
* `BufferInv` is why a resent packet is sound: each slot of `packetbuf[]` holds a piece
  already read, and the first piece of the file is resent only while it is the only
  one. A resent window carries the length of its last piece, so a piece can
  arrive cut, but never the first: the server's `datasize` is the right one.
* `ServerInv` ties `count` to the length of the file. `FileInv` says that a file still
  being received is whole, because a block of another size than `datasize` ends
  the transfer: only the last block of an ended child can be damaged.

So `NoFalseSuccess` holds: a cut piece that ends the transfer is not the last piece, and
no ACK of a later one ever leaves the child; a block that `fwrite` has cut is never
acknowledged. Either way the client waits in vain for the ACK of its last piece. The
client's success is sound although the server's is not (`UploadTruncated`).

`MissingIsKept` says what the window is for: a piece that was sent and is not stored can
be sent again, because it is still in its slot. One piece is left out, and the code
overwrites it: with an ack frequency above 1 the pieces 1 and 2 have the same slot
(`tftpc.c:428`). `WindowInv` is stronger by where the client stands when it sends: the pieces up
to the last multiple of the ack frequency are stored, so what is missing is at most a
window, and a window of two or more pieces, after the first, fills different slots. The proof is about remainders;
the lemmas on them are in `NetProofs`, since the server's windows need them too.

The server's success is another matter: it is sound only if no piece can arrive cut.
With `OneAtATime` (ack frequency 1 on the client, and a `datasize` the server starts with or
recognises above 512 bytes) the only slot holds the last piece read, so every piece in
flight has its own length; `WholeInv` says so, and that a child that closes the file
has all of it. With it each step of `Upload` is a step of `FileTransfer` or leaves `stored`,
`receiver` and `sender` unchanged. A failing `fwrite` stores a part of a piece and a failing
`sendto` ends the function with a result that `FileTransfer` does not name; the
refinement is therefore stated, and checked by `UploadStopAndWait`, with a failing
`fopen` only.

*Where block numbers wrap* (`tftpc.c:427`, `count` has 16 bits), order rests on time: no
old copy may be left when its number comes again. `Timely` says so: ack frequency 1 on
the client, delays below the timeout, no duplicates, strange datagrams from other hosts.
Losses, faults, the server's ack frequency and the length of the file are free. `TimelyInv`
is then a different argument from `IInv`, about turns instead of numbers:

* `TurnInv`: while the client runs, one datagram is on its way to somebody who takes it
  (`Coming`), once, or none is: the WRQ, the piece read last, or an answer. An ACK among
  them names the block stored last. A timeout proves that nothing is on its way, so what is
  sent again is alone too.
* `CountInv`: the client is at most one piece ahead of the file, so the block the server
  expects is told from the one it has by numbers that differ by one (`NextNumber`: no
  two neighbours are equal, wrapped or not, since `M > 1`).
* `StoreInv` and `EndInv`: what is stored is whole, and with `OneAtATime` the server ends with
  the last piece and no other.

A failing `fclose` shortens the file after the child has told the client (`Intact`): order
survives it, success does not. `UploadRepair` checks the order, and the liveness that is
not provable, on files that wrap; `TimelyInv` itself was checked by TLC on small instances
before it was proved.

### 5.2 Download

`DownloadTypes` needs the control state as well (`TypeInv`): no piece is read after the
last one. `DownloadWindowResent` says that `packetbuf[]` holds in slots 0 to `bcount` the
pieces read since the last stop, for any ack frequency, and that they all go out again with
one length, that of the last piece read. `LengthInv` is behind it: between a send and the
ACK it waits for, `len` is the length of the last piece, which only a datagram taken for an
answer of the client could change. So what is resent is what was sent, but for a window that ends the file.

What the client stores is the file only under the conditions of `Timely`: ack frequency
1 and 512-byte blocks on both sides, delays below the timeout (`~Slow`), no duplicates,
foreign datagrams from other hosts only, a disk that takes what it is given, and fewer
pieces and retries together than block numbers. Losses are unlimited; `sendto` and
`fopen` may fail. `TimelyInv` has three parts.

* `TurnInv`: a piece and its ACK take turns. While the client receives, the only piece
  in flight is the last one read, once, and no ACK is; the ACK in flight, once, is that
  of the last piece stored. A timeout that is not early proves that neither is on its
  way, which is why a piece that is sent again is in flight once again.
* `StoreInv`: the file is a prefix of the source, unless an ACK was lost or went to a
  port that is not the server's. In that case (`Excused`) the client takes the piece that
  is sent again for the next one, and from then on the server waits for an ACK with a
  number that is gone: it never gets to its last piece, the client never to a short
  one. So neither reports success, whatever was lost.
* `CtlInv`: the counters against the length of the file, and the one slot.

One early timeout breaks this (`DownloadEarly`).

### 5.3 The daemon and the second client

`Setting` of `MyInv` excludes programs that write to the children, and blocks and ACKs
from other sockets of the server's host. `KidInv` says that the children of an upload have
stored 1, 2, 3, ... up to a piece the client has sent; `NetInv` that a block in flight is a
piece of the file under its number and that an ACK names a block its child has stored;
`DiskInv` that one child alone leaves on disk what it has stored. A client that ends
has the ACK of its last piece, so a child has stored every piece (`MyUploadedWhole`);
if there was no second child and the first has closed the file, the disk has it, unless
that `fclose` failed (`MyUploadKept`): a failing `fwrite` or `sendto` ends the child before the
ACK that the client waits for. `NetInv` also bounds what a failing child may send, an ERROR
packet, which is neither a block nor an ACK. These parts are `TransferInv`.

`MyInOrder` is about a download: what `get_file` stores is the beginning of the file, and
all of it when success is reported, although no block number is compared. The
conditions are those of `Steady`: nobody else meddles, no call of the server fails, no timeout is early, nothing is
duplicated, no ACK is lost twice, and when the request has been served twice no more
than two datagrams are lost. The last condition was found by the proof. The client
repeats its request when the first block does not come; the daemon may fork a second
child for it, and then two children wait for the ACK of block 1 while the client
listens to one of them. With the first block lost once, two more losses in one wait of the
client let the time of the forgotten child run out; its block 1 comes from the
server's host, and the client stores it as the next block. Losing the ACK of one block
twice does the same with one child, because `get_file` resends it once per timeout and so
does the server its block. A child that ended at its first failed attempt
(`RETRIES = 1`; the code has 3) could not even bear two losses, hence the hypothesis.

The invariant behind it is `OrderInv`. While the client waits, `OneMoving`: what is on its
way is one thing, a datagram that a running program will get, once, or a child about
to send; and it is `Expected`, the request, the ACK of the last block, or the next block.
A timeout that is not early proves that nothing is on its way, so what it sends is alone
again. `OpeningInv` counts, before the first block has come, the copies of it that the
children have sent: all but one in flight are among the losses, so a third copy would
need a third loss. `ServedInv` ties the child that is listened to to the client's count:
it is at the block that is due, or at the last one with its ACK on the way, or that ACK
has been lost and the client's timeout, which resends it, comes first. `OtherInv` is the
account of the second child: how many attempts and how many losses are left before its
timeout would be due. `WholeInv` adds that a short block is the last piece, so a
download that stops has everything.

`MyOverlookedBesideChild` is an action property: a request disappears without a child
only while an earlier child is not yet waited for, as long as `fork` does not fail. Its proof is about the copies of the
request before and after each step, and about `errno`: without a child, `waitpid` makes
it ECHILD, so what is received then is looked at.

### 5.4 The chat server

`ChatInv` holds for any users, connections, messages and drawn numbers, and with calls
that overlap: `AloneInv` (one thread inside a call) and the second part of `ListInv` (`global` is 0
but while a listing is read, and the array has the size of the list) are claimed only without
`Overlap`, as the properties are. The first part is what the two counts rest on: until a user
goes (`gone`), there are at least as many active users as the first one has found. `KeyInv` says that the table is finite and that no two rows have one
key. `OwnInv` is what mail and logins rest on: as long as the server is `Undisturbed` (no
overlap, no restart, no drawn number that is a connection's), a row under the number of
a connection has a name that was typed there, and so have `result`, between the SELECT
and the copy, the copies `cred` and `name`, and the owner of what was written last (`mail`). `LineInv`
gives the lines of each thread in each place: a pin is only read on a registered
connection, and a name that is being registered has been claimed.

### 5.5 The laboratory

`LabInv` holds for any choice of stations and late programs, any typed lines and any
refusals. `IsFrameOf` says what a frame on a wire can be: the frame of its author, on the
author's network, or the one the router has made of it, on the other; with the two
addresses the router knew then. `RingInv` and `BuffInv` say so of every frame in a ring and
in the buffers of interrupted calls, and that none is there twice. `ForwardInv` is why a
line is shown once: while the router holds a frame, nobody beyond has heard of it.
`PathInv` and `AddrInv` say that a line whose way was open was forwarded with the router's
own address, or, after a refused `get_mac` (`failed`), with the bytes in its place. These frames
are what `SourceIsOnThisNet` leaves out, and it names the program that was refused. `HandleInv`
says that a handle that outlives its program does so because
of a refusal.

### 5.6 What only TLC checks, and why

* Liveness (`ClientTerminates`, `ChildTerminates`, `LossRepaired`, `ClientEnds`,
  `StoredIsForwarded`, `SentIsShown`): fairness and ENABLED are out of the prover's reach.
* Block numbers that wrap while answers are late or datagrams are duplicated, or with a
  larger window: neither is a theorem nor checked. Old copies of a wrapped number are then in
  flight, and the code cannot tell them.
* The server's success with a larger window: it does not hold (`UploadTruncated`).

## 6. What is not modelled

* The bytes of a piece, of names and of messages: the programs only compare
  lengths. The transfer mode (netascii is sent as octet).
* A second child for a duplicated request in `Upload` and `Download`: it is in
  `MyTransfer`, whose children in turn have the default options only.
* Datagrams shorter than a header, which no program of the repository sends. A request that
  does not begin with 0 (`JUNK`) is there for the daemon only.
* A window above two in a file of 65536 blocks or more: the slot of block 0 would
  be negative (`SlotAssumption`), and the program undefined.
* A complaint (ERROR packet) that cannot be sent: the code only prints a message,
  and the network can lose it.
* Chat: SQLite's SQLITE_BUSY and strings torn by two threads that write one global at
  once (`ChatOverlap` needs neither); names of different lengths, equal pins of two
  users, and the stack variables `d` and `data` of `server.c` being other than zero when a
  thread starts. The earlier version of the server (`programme files`) has no pins
  and is superseded. `client1.c` is a user who types and reads.
* Laboratory: the text of a line is its number, so neither a line of 40 characters,
  which is not terminated, nor the garbage that may follow the first line of DosTalk is
  there; what the seventh row of `ROUTING.TXT` overwrites behind `MY_ARP[6]`; rings that
  overflow; the non-reentrancy of DOS under `printf` in an interrupt; the statistics.
* `db_helper.c` and `convert_csv.sh` (tools used once), scripts, binaries, and the
  obsolete clients.
