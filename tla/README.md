# A verification development for FalconFIX

FalconFIX is a C++20 FIX engine: sessions over TCP that number their messages,
detect gaps, ask for what is missing and replay it, and survive lost
connections and restarts. These modules model the part of the engine where that
happens, TLC checks them on small instances, and TLAPS proves the main
properties for every value of the constants. Paths are relative to the
repository; `session.cpp` is `src/engine/cpp/FIX4.4/engine/session.cpp` (FIX4.2
and FIX4.3 have the same generated file), and the map in `PROJECT.json` names the
lines of every definition (with a leading `src/` for the checkout).

Contents: [the system](#1-the-system) · [plan](#2-plan) ·
[modules and code](#3-modules-and-the-code-they-model) ·
[runs](#4-runs-what-tlc-checks) · [proofs](#5-proofs) ·
[disagreements](#6-disagreements-between-the-code-and-its-documents) ·
[not modelled](#7-not-modelled) · [running it](#8-running-it)

## 1. The system

### Components

| Component | State | Operations | What makes it correct |
|---|---|---|---|
| **Session** (`session.cpp`, `session.h`, `session_state.h`, `inbound_dispatch.h`) | status, the flags of the Logon/Logout exchange, `awaitingResend`, the outstanding test request, `m_in` (bytes not yet framed) | `onConnected`, `onReceive` and one handler per administrative message, `onDisconnected`, `onTimer`, `send`, `doLogout` | numbers go out once each and in order; a gap is closed by exactly the range asked for; nothing of an old connection survives into a new one; handshakes end |
| **Message store** (`message_store_base.h`, memory, null and file stores) | the two sequence numbers, the outgoing messages, three files on disk | `storeOutgoing`, `storeIncoming`, `getOutgoing`, `incrNext…`, `setNext…`, `reset`, loading | ascending numbers, every application message found by a resend, after a crash too; numbers never behind what was written |
| **Framing** (`tcp_frame_view.h`, `fast_buffer.h`, the loop of `onReceive`) | `m_in`, the chunk in hand | `parseTCPFrame`, `append`, `consume` | every complete frame in order, and again only where the loop stopped at it, however the bytes are cut |
| **Connections** (`tcp_initiator_connection.cpp`, `tcp_acceptor_connection.cpp`) | transport state, socket, endpoint list, listening server | `start`, `write`, `close`, `detach`, `onConnected`, `onRead`, `onClosed`, `onError`, `onAccept`, `onTimer` | one live socket, `onDisconnected` once per connection, reconnection |
| **Sockets** (`socket/boost/*`, plain and TLS) | asio socket, strand, write queue, connect timer | `connect`, `write`, `close`, read loop | handlers serialised, no thread waits for a strand that waits for it |
| **Runtime** (`fix_runtime.h`) | session registry, timer thread | `start`, `stop`, `sendToTarget`, `sendLogout` | timers run while sessions do, stop closes everything |
| **Schedule** (`session_schedule.h`, `session_time.h`) | none | "is this instant inside the session" | agrees with the windows it is configured with |
| Settings, logging, generated messages, `falcongen`, example programs | – | read or built once, or pure output | not modelled |

### How they interact

A session has one `recursive_mutex`. Every entry point – the socket's strand
(`onConnected`, `onReceive`, `onDisconnected`), the runtime's timer thread
(`onTimer`), the application's threads (`send`, `doLogout`) – takes it from its
first line to its last, with one exception: the test request timeout unlocks it
before it closes the connection. Calls down (`connection().write`,
`connection().close`, `m_store->…`, the application callbacks) happen with the
mutex held; `close()` on the strand comes back up synchronously as `onClosed`
and `Session::onDisconnected`. For the session, **one call is one atomic step**,
and the step of a handler contains everything it calls.

Below and around that mutex, calls are not atomic, and four modules look there:
the connection's own members (`m_socket`, `m_transportState`,
`m_nextConnectIndex`) are touched by the strand, the timer thread and `stop()`
without it (InitiatorConnection), those of an acceptor also by the accept
handler, which runs on no strand (AcceptorConnection); the process may be killed between any two file
operations of one call (FileStore); and a call of `onReceive` handles as many
frames as its chunk happens to contain (Framing).

### What is hard

* *Order.* A frame, a send, a deadline, a logout, a lost or a new connection may
  come in any order; the flags of `SessionState` must be right after each.
* *Loss.* A connection that breaks loses a suffix of what was written. The next
  one must find the gap, fill it, and neither repeat nor skip anything.
* *Two ends.* Each side resets its numbers by its own observation of how the
  connection ended; the accepted socket reads before its session hears of it; a
  new connection may replace a half-open one.
* *Partial failure.* A write may fail at any message of a replay, a disk may
  refuse a message that was already written to the wire, an endpoint may fail at
  once or later.
* *Crashes.* Message, record and numbers reach the wire and two files one after
  the other; a reset empties one file before it rewrites the other.
* *Threads.* The unlocked window between a test timeout and its `close()`;
  threads that wait for a strand; sockets that are replaced while their handlers
  run; a `close()` that walks every socket the server has accepted, called from
  the strand of one of them.
* *Pieces.* Frames end anywhere in a chunk, and the buffer is emptied by a
  handler the loop over that buffer has called.

`PROJECT.json` lists every hazard at its line with the properties that would
notice it.

## 2. Plan

| Step | Modules | State |
|---|---|---|
| 1 | `ResendPlan` → `ResendPlan_proofs`, `ResendLoop` → `ResendLoop_proofs`: the answer to a ResendRequest | done |
| 2 | `SessionCore` → `FIXSession` → `FIXSession_proofs`: one session against any counterparty | done |
| 3 | `Delivery` ← `SessionPair` → `SessionPair_proofs`: two sessions over a breaking connection refine in-order delivery | done |
| 4 | `DurableLog` ← `FileStore` → `FileStore_proofs`: crashes, torn records, reload | done |
| 5 | `InitiatorConnection` → `InitiatorConnection_proofs`: transport state, failover, reconnection, TLS writes, `stop()` | done |
| 6 | `FrameStream` ← `Framing` → `Framing_proofs`: `m_in` and the receive loop | done |
| 7 | `AcceptorConnection` → `AcceptorConnection_proofs`: accepts, replaced sockets, the three parts of `close()`, `stop()` | done |
| 8 | `start()` of several sessions; `Schedule` as operators against a reference definition | open |

Every safety property of the passing runs has its theorem. Still worth having: one
about pairs that reset in their Logon, under a condition that keeps an old
ResendRequest from being answered after the reset (§6, *Counted after a reset*).

## 3. Modules and the code they model

```
ResendPlan ──┬── ResendPlan_proofs ── (ResendLoop_proofs, SessionPair_proofs)
             ├── ResendLoop ── MCResendLoop
             │        └─────── ResendLoop_proofs
             └── SessionCore ──┬── FIXSession ── MCFIXSession
                               │        └─────── FIXSession_proofs
                Delivery ──────┴── SessionPair ── MCSessionPair
                                        └─────── SessionPair_proofs

DurableLog ───── FileStore ── FileStore_proofs
FrameStream ──── Framing ── Framing_proofs
                 InitiatorConnection ── MCInitiatorConnection
                          └──────────── InitiatorConnection_proofs
                 AcceptorConnection ── MCAcceptorConnection
                          └─────────── AcceptorConnection_proofs
```

**ResendPlan** (pure operators). The scan `getOutgoing` makes of the store, as the
places of what it returns, and the loop of `handleResendRequestReceived`: `Skip`
is each of its two `while` loops, `Flush` is the lambda `flushGapFill`, `Visit`
the body of the `for` loop, `Scanned` the whole of that loop, `Finish` what
follows. The record `Scan` is the handler's locals
(`expectedSeqNum`, `gapFillBegin`; 0 stands for "no gap pending" as in the code)
and what has been written.

**ResendLoop**. The same loop one iteration per step, with a write that may fail
at each. `Init` is any ascending store content inside the range. `BeginSeqNo` is
at least 1: a request that starts at 0 would make the sentinel ambiguous. That
the store ascends is what `StoreAscends` of FIXSession says; a file store whose
disk has refused a message may hold a number twice, and is outside ResendLoop.

**SessionCore**. The session as operators from the record before a call to the
record after it. Fields: `SessionState` (`status`, `sentLogon`, `receivedLogon`,
`sentLogout`, `receivedLogout`, `awaitingResend`, `resetOnDisconnect`,
`awaitingTest`, `testRequestID`), the store (`nextSender`, `nextTarget`,
`outgoing`, `disk`), the connection as the session sees it (`socket`: none, open,
or failing when sends return errors; `listening`: the acceptor's server), and the
outcome of the call (`sent`, `calls`, `rc`). Each method has an operator of its
name: `Send`, `SendLogon`, `SendLogout`, `DoLogout`, `OnConnected`,
`OnDisconnected`, `OnTimer`, `HandleLogon` … `HandleSequenceReset`, `Dispatch`,
`OnReceive`. An error of a callee ends the operator where the code returns.

**FIXSession**. One session; its environment is any frame, at any time, any
socket failure, a disk that refuses and recovers, any deadline, sends and
logouts. `TimerClose` is the second half of a test timeout, after the unlock.
`Receive(m)` is `onRead` with one complete frame.

**SessionPair**. An initiator and an acceptor, each a SessionCore record, and the
wire between them. `Connect` is the timer's `start()` and the acceptor's
`onAccept`; `Connected(p)` the later `onConnected`; in between the acceptor may
already read (`EarlyRead`), and what it reads is dropped because the transport is
not Connected yet. `Cut` loses a suffix of each direction and makes some sockets
fail. `ConnectionLost(p)` is `onClosed`, after everything that arrived was read.
**Delivery** is what both applications are promised; `Promise == INSTANCE
Delivery` with `submitted` (bodies `send()` accepted) and `delivered` (bodies
`fromApp` was called with) is the refinement mapping.

**FileStore**. The file store under the calls a session makes of it, one file
operation per step: `pc` is how far a call has come. `Session::send` is `Write`
(the wire), `Store` (`storeOutgoing`: memory, then `outgoing.bin`) and
`TakeNumber` (`incrNextSenderSeqNum` with its `persistMeta`); `onReceive` is
`Dispatch` and `Count`, or `StoreIncomingFails`; a reset is `Clear` (both files truncated) and
`PersistReset`, followed by `SetSenderBack` when it answers a ResetSeqNumFlag.
`Crash` may come at every step and in the middle of a file operation, `Restart`
is the constructor with `loadMeta` and `loadOutgoing`. `outgoing.bin` is the
numbers of its whole records, the number that a record written in part was to
have, and whether anything was appended behind that one: a load may take such
bytes for the missing end and make up records, until the header it reads is out
of range. If the tear is in the header, so is the number of a made-up record:
`Misread` is the set of numbers such a load may read, `MaxMadeUp` how many
records. `seq.meta` is a pair or, truncated and not rewritten,
nothing. A full disk is noticed only for records larger than the stream's buffer.
`spent`, `got`, `owed`, `forgotten` and `interrupted` are history: what the
session did, to compare with what the next process finds. `spent` starts again
only with a reset that gives the sender's numbers up; the one for a received
Logon does not, and `interrupted` says that a crash came before its
`SetSenderBack`. **DurableLog** is what that process may
rely on; the mapping takes the log from the whole records and the numbers from
`seq.meta`.

**InitiatorConnection**. `TCPInitiatorConnection` with its sockets, the timer
thread, an application thread and the thread that calls `stop()`. Handlers are
split where they call the session: `Connects`/`Up` is `onConnected`,
`ConnectFails`/`FailEnds` is `onError`, `Closes`/`Down`/`Drop` is `onClosed`,
`Arrives`/`ReceiveLogon`/`ReceiveLogout` is `onRead`; `Tick`, `Start` and `Make`
are `onTimer` and `start()`; `Stop`, `Detach`, `CloseAll` and `Clear` are
`FIXRuntime::stop`. A socket knows whether it still has callbacks (`bound`), who
waits for its strand to close it (`closer`) and who waits for it to write
(`writers`: TLS only, a plain write is done at once). `holder` is who keeps the
session mutex while it waits. Of the session the status is kept. `overlap` in a
configuration says whether `start()` and `stop()` may come while a handler is
between two of its steps. The code does not prevent that: `MayInterfere` and
`Undisturbed`, which do without `overlap`, have no counterpart in it and only
name the schedules a property is claimed of; see
[disagreements](#6-disagreements-between-the-code-and-its-documents).

**AcceptorConnection**. `TCPAcceptorConnection`, its `BoostTCPServer` and every
socket that was accepted. `place` says where each thread is: the accept handler
(`Accept` is the handler up to the end of `onAccept`, `Attach` the `attach()`
that opens the socket, `Up` `Session::onConnected`, then `startAccept` again), the
strand of each socket (`Arrives` is `onRead`, `ReceiveLogon`, `RefuseDuplicate`
and `ReceiveLogout` the handlers of the session; `Breaks` and `CloseTask` are
`closeInternal`, `OnClosed` and `Down` what it calls), the timer thread and the
thread that calls `stop()`. A handler takes one of `config.threads` io threads
until it ends, also while it waits. `close()` has the steps of the code, whoever
calls it: the socket in use (`StartClose`, or `RefuseDuplicate` from a handler),
the listener (`CloseServer`), each client that is still open (`CloseClient`), the
rest (`CloseDone`); `closer` of a socket is the thread that waits for its strand.
Of the session the status and the two flags that decide about a duplicate Logon
and an answered Logout are kept; a Logon it would refuse for its fields, or a
logout put off during a resend, is left to SessionCore. `config.replaces` allows
a new connection before the end of the last was noticed; `config.overlap` allows
`close()` of the timer thread or of `stop()`, and an accept that was already
under way, while something else is between two of its steps. `MayInterfere` and
`Undisturbed` are as in InitiatorConnection. `Detach` has two halves, the socket
and the server, since a socket may be accepted between them.

**Framing**. The loop of `onReceive`: `Read(n)` puts a chunk of any size behind
`m_in` or into `view`, then one step for each turn of the loop, named for what
the parser or the handler says: `Incomplete`, `Bad`, `Refuse` (an early return in
front of the dispatch), `Decline` (one behind it: `fromApp`, the typed parse or
`storeIncoming` failed), `Take`, `TakeFinish` (the return at the end of a resend),
`TakeLogout` (closes the session and empties `m_in` inside the loop),
`EndOfData`. What the session makes of a frame is its kind: one with `PossDup=Y`
that ended a resend (*replay*) is dispatched and counted again when the loop
comes to it again, one without (*finish*) is an old number then. `counted` is
what the numbers have taken, `handed` what the handlers have seen. `Connect` is
`onConnected` of a closed session; `Replace` that of a connection which is
accepted while the last one is half-open: an open session returns before
`m_in.clear()`. A byte is its connection, frame and place; `Parse` is the three
answers of `parseTCPFrame` (not enough, an error, a frame). **FrameStream** is
what the handlers are to see: the frames that were sent, in order, all of them
when nothing goes wrong (`lossy = FALSE`), each once, but for one of `Retried`,
which may come again before any other.

**Abstractions.** Time is "which deadline is due"; a message is the fields the
session reads; payloads are model values. In SessionCore a frame arrives whole,
one to a call, so a frame that stays at the head of `m_in` is in Framing only.
An error of `fromApp` is one of its own domain; one of the domains `fix_parse` and
`fix_validation`, which the session answers with a Reject, is not modelled. `Flawed` frames stand for those refused before their type matters:
*unframed* (parse error), *stale* (SendingTime too old), *identity* (foreign
CompIDs, only logged), *content* (the typed parse fails). `toAdmin`, `toApp` and
`fromAdmin` accept everything. The disk of SessionCore *refuses* when a file
cannot be opened or a large record cannot be written.

**`X_bug` definitions** are mistakes someone could make in `X`: a dropped guard,
a flag not cleared, `<` for `<=`. No specification uses them. Each checked
property has one that breaks it, so none holds by the shape of the model.

## 4. Runs: what TLC checks

| Run | Question | Bounds | Distinct states |
|---|---|---|---|
| `resend_loop` | Does the handler answer every range over every store, whole or broken off? | numbers 1..4, two payloads, one that cannot be rebuilt | 7 thousand |
| `session` | One session, initiator and acceptor, with no reset and with every kind, with stores that keep everything, keep nothing, or write to a disk that refuses: `StoreAscends`, `CleanWhenClosed`, `LoggedOnBothWays`, `TestAwaitedInSession`, `NumbersKept` | counterparty's numbers 0..3, own below 4, 2 test requests | 203 thousand |
| `pair_loss` | Do two sessions refine `Delivery` across a cut, a reconnection, an early read, a deadline and a logout? Is a session never ahead of its counterparty? With resets, do the numbers agree once both are logged on although each side resets alone? | 2 connections; two messages (of either side) with a cut, an early read and a logout, or one with a deadline as well, or with resets one and 2 deadlines | 1.1 million |
| `pair_calm` | Without loss: do logons and logouts end, is everything delivered, is no gap ever found? | one message each way, 1 connection, 1 deadline, 1 logout | 4 thousand, fair specification |
| `file_store` | What does a process find that is started after a crash anywhere? | numbers to 3, 4 records in memory and in the file, 2 made up by a load; any number of crashes | 818 thousand |
| `initiator` | Is there one connection, does no thread wait for itself, is the session logged on again? | 3 sockets alive at once, 1 to 3 endpoints, 3 troubles (a broken connection, a missed deadline, a logout) | 172 thousand, fair specification |
| `acceptor` | Does one socket call back, does every `close()` come back and leave nothing open, is a counterparty that returns logged on? | 3 sockets, one io thread, with and without replaced connections and overlaps, 2 troubles (a connection that breaks, a missed deadline, a logout, an odd Logon) | 303 thousand, fair specification |
| `framing` | Do the handlers see the frames that were sent, in order, whatever the chunks and wherever the loop stops? | 2 connections, one after the other or one replacing the other, of 3 frames of 3 bytes, chunks of any size | 3.3 million |

Four more runs end in a violation; they are among [the
disagreements](#6-disagreements-between-the-code-and-its-documents).

**Why the bounds are enough.** A gap needs two numbers, a resend that has to
merge gap fills around an application message needs four (administrative,
application, hole, administrative), and an old duplicate, an expected and a
too-high number need three; `SeqNums` and `MaxSeq` give those, with the number 0
for "to infinity" and for a missing NewSeqNo. `MaxTests = 2` lets an answer carry
the number of an earlier request. In the pair, one cut with two connections is
the shortest history with a resend, and two messages of one side are what an
order needs: one may be lost and the other arrive. The early read, the logout and
in the second scenario the deadline are each allowed once, so that each can fall
anywhere in it. A test timeout takes two
deadlines, the request and its expiry, which the scenario with resets allows. A
scenario gives the settings of the two sides and how much of each input is to
come, which `left` counts down. `Bounded` makes no call once a number of the
session has reached `MaxSeq` or `MaxTests`.

In FileStore a torn record with a whole one before it and two appended behind it
takes four records, and three numbers let the file hold one twice and another
after it; the two numbers of `Misread` are one below and one above all others;
`MaxNumber` and `MaxRecords` only stop new calls, crashes and restarts
are unlimited. In InitiatorConnection the socket in use, one that was replaced
and one whose handler is late are three; `MaxTroubles` bounds what goes wrong
while connected, while failed connects are unlimited; the endpoint lists cover a
single one, a failover, a list that is down altogether, and one of three that
cannot even be tried. In AcceptorConnection the socket in use, the one it
replaced and one that is accepted are three, and a socket that is closed can be
accepted again as a new one. In Framing a frame, the cut one and the one behind it are
three; a frame of three bytes can be cut in its "header", the first two, and in
its body, and `MinSize` stands for the 20 bytes the parser wants first. The proofs
hold for frames of any sizes.

**Deadlock** is not checked: when the inputs are used up, a range is answered or
the bounds are reached, these instances stop. That an instance which still had
something to do stops is what the liveness properties, `CloseEnds` and
`WriteEnds` say.

**Fairness.** `FairSpec` of SessionPair: weak fairness of each peer's strand
(boost::asio runs handlers that are ready), of `Connect` (the timer thread calls
the initiator's `onTimer`, which starts a connection whenever it is
disconnected) and of `TimerClose` (a thread that has unlocked goes on to its next
statement). `FairSpec` of InitiatorConnection: weak fairness of the timer thread
and of the rest of a `stop()` that has begun, and strong fairness of each strand,
because where overlaps are left out a strand waits while `start()` runs and is
then ready again; the threads of boost::asio do not starve a strand whose handler
becomes ready again and again. `FairSpec` of AcceptorConnection is the same for
its threads (a handler has to find a free io thread, hence the strong fairness),
and has a counterparty that connects again when it can, sends its Logon, answers
a Logout and closes after one. Part of a strand is the endpoint's answer to a
connect and the counterparty's to a Logon and a Logout. Nothing is assumed of
applications, deadlines, faults or the network, and each strand is one action for
fairness: reading is not fair against the loss of the connection.

**What the properties say.**

* `StoreAscends` – `getOutgoing` stops at the first number above the range, so
  one record out of place hides everything behind it from a resend.
* `CleanWhenClosed` – whichever way a connection ends, and the test timeout ends
  it in two steps, no flag of it is left.
* `LoggedOnBothWays`, `TestAwaitedInSession` – relations between flags that are
  set in different calls and cleared in others.
* `NumbersKept` – an action property: numbers go back only by a reset setting or
  the first Logon of a connection that asks for it.
* `Contiguous`, `RangeCovered`, `NoMessageSkipped`, `OnlyStored` – a replay is a
  partition of the range, and gap fills hide no message that could be replayed.
* `InOrderDelivery`, `TargetNotAhead`, `AgreedOnceUp`, `NoGap` – what the two
  ends promise each other.
* `LogonCompletes`, `LogoutCompletes`, `AllDelivered` – liveness. The first two
  say the code needs no timeout *when nothing is lost*; it has none for either
  (see below).
* `NumbersNotReused`, `ReceivedNotLost` – a crash repeats at most the one number
  or message that was in progress, and skips none. For the numbers there is one
  exception, a crash between the two writes of a Logon's reset (`interrupted`, see
  below).
* `StoredSurvives`, `AscendsAfterRestart` – what was stored is found again, in an
  order `getOutgoing` can use. Both except the case in which `seq.meta` was lost
  and `outgoing.bin` was not (`forgotten`); the order is that of the messages that
  were sent, a record that a load makes up behind a torn one may have any number.
* `Durable` – the refinement of DurableLog.
* `OneSocketCallsBack`, `SessionHasSocket`, `OneConnection`, `NoStaleFrame` – a
  socket that was replaced is out of play; a session that thinks it is connected
  will hear of the end of its socket.
* `CloseEnds` – nobody closes with the mutex its strand waits for; `StoppedQuietly`
  of the initiator – where `stop()` does not fall into a running handler, nothing
  calls into the connection it has destroyed; `Reconnects` –
  with one endpoint that answers the session is logged on again and again.
* `SessionHasSocket` of the acceptor – the accept handler, not the strand, tells
  the session of a connection, and the end of that connection does not overtake
  it; `OneSocketCallsBack` – nor does an `onClosed` take the socket of its
  successor. Both are claimed of one io thread, the second until `stop()` clears
  the connection.
* `NothingLeftOpen` – a `close()` reaches the sockets the connection has let go
  of; `CloseReturns`, `NoHandlerWaits` – and comes back, without a handler waiting
  for a strand; `HandlersNonBlocking`, without the exception for replaced
  connections, is violated; `Served` – as long as the acceptor listens.
* `PendingExact` – after a call exactly the part of a frame is pending, so no
  complete frame waits for bytes that may not come; `NoOldBytes` – the buffer
  holds nothing from before the session was opened (a connection that replaces a
  half-open one opens no session, and is joined to it); `NothingAfterClose` – a
  Logout ends the loop, by emptying the buffer or by leaving it; `SameFrames` – the
  refinement of FrameStream, which lets a frame that stopped the loop behind its
  handler come again.

## 5. Proofs

The proof modules are checked from nothing by `tlapm` (SMT, Zenon, PTL). Each
proves the type invariant `TypeOK` of its component, for every value of the
constants, SessionPair as a part of its invariant; the runs of these components
spend their time on the other properties.

**ResendPlan_proofs** (about 640 obligations) is about the operators, and assumes
nothing. What each helper of the handler does to a scan is a lemma; `Promised` is
what a scan has promised so far – an unbroken chain from the first number asked
for, gap fills that cover nothing replayable, replays that are stored. `Scanned`
is a recursive function over the store. That the recursion defines a function is
`ScansDefined`; `ScansLemma` shows `Promised` for every prefix of the store. Both
argue by `Least` – of the prefixes for which it fails there would be a shortest
one – because an induction theorem takes an operator the provers cannot
instantiate.
`ScannedExactly` is the result for the handler as a whole.

**ResendLoop_proofs** (about 330 obligations) assumes `MaxSeqAssumption` and
nothing else. The inductive invariant is `Inv`: `TypeOK`; the store ascends and
lies in the range; while the loop runs, `Progress` – `expected` is one past the
last visited message, it is not past the next one nor past the end of the range,
and a pending gap begins before it and covers nothing replayable – and the four
properties. `Contiguous` alone is not inductive: that a gap fill may be closed at
`expected` needs to know that nothing replayable lies between the pending gap and
`expected`, which is `Progress`. That `Visit` and `Finish` preserve it are lemmas
of ResendPlan_proofs. The theorems are `TypeCorrect`, `ContiguousAlways`,
`NoMessageEverSkipped`, `ReplaysOnlyStored`, `CoversRange`.

**FIXSession_proofs** (about 1400 obligations) assumes `ConfigsAssumption`,
`SeqNumsAssumption` and `BodiesAssumption`: any set of configurations, any
numbers, any payloads, and no bound on the session's own numbers is used. A
session in the middle of a call is `Sound` (typed, its store ascends, logged on
only with both Logons, a test awaited only then, no reset pending unless one is
configured); at the end of a call it is `Good`: sound, and cleared if it has no
socket. The two differ because `close()` empties the socket before
`onDisconnected` clears the flags. One lemma per SessionCore operator says that
it keeps a session sound or makes it good, and that without reset settings it
takes no number back; `OnReceiveLemma`, `OnTimerLemma` and their like put them
together per call, and `NextInv` per action. The pending timer close needs no
strengthening: `Close` makes any sound session good, whatever came in between.
The theorems are `TypeCorrect`, `StoreAlwaysAscends`, `AlwaysCleanWhenClosed`,
`AlwaysLoggedOnBothWays`, `TestsAwaitedInSession` and `NumbersAlwaysKept`, the
last from the step lemmas rather than from an invariant alone.

**FileStore_proofs** (about 1030 obligations) uses no assumption beyond
`BoundsAssumption`, whose bounds play no part in the argument: it holds for files
of any length. The properties about `seq.meta` relate it to history and are only
true at rest; the invariant says for every value of `pc` how far memory, `meta`
and history have come apart in the call in progress (between the write and
`TakeNumber` the number spent is one ahead, between `Clear` and `PersistReset`
the numbers on disk are those of before the reset, and between `PersistReset` and
`SetSenderBack` the sender's is one while `kept` still follows the last one
spent). `AscendsAfterRestart` needs the same of the *file* – the whole records
ascend and stay within the number on disk – because a crash replaces memory by
what a load makes of the file; of the records a load makes up nothing is assumed
but that they are typed. `StoreIsDurable` is the refinement: `Init` maps to `Init`, and each action
to one of `Keep`, `Advance`, `StartAgain`, `Drop` or a stutter.

**InitiatorConnection_proofs** assumes nothing of how many sockets, endpoints or
troubles there are. The invariant has a part that holds under every
interleaving (`Common`: types, `OneSocketCallsBack`, and for each thread what its
place says about who waits for whom – a thread in `closing` is the closer of at
most one socket, whoever holds the mutex while it waits is a writer or is closing
from a handler), and a part for configurations without overlap (`Calm`): at most
one socket is not closed and handlers run only on it (`Live`), the transport
state and the session's status fit the place of that handler (`Handlers`,
`Known`). `CloseEnds` follows because the only closer that ever holds the mutex
is a handler on the very strand that closes. Each action has its lemma. The invariant was
first checked by TLC on the instances of the run.

**AcceptorConnection_proofs** assumes that there are finitely many sockets and
nothing of their number or of the troubles. With one io thread at most one
handler is busy (`OneAtATime`, from the guard `FreeThread` and a fact about
cardinalities), which with the places of the threads gives `OneSocketCallsBack`,
until `stop()` clears the connection, by `NobodyCalls`: between the end of a connection and the line that drops
`m_socket` no socket has callbacks. `Known` is `SessionHasSocket` in the middle of
a handler: the session has its socket, or a new one is being made, or the end is
being told. Where closes do not overlap with handlers, `Orderly` says what may
run while another thread closes, and `Tracked` that every socket that is not
closed is in the server's list until the list has been walked; `NothingLeftOpen`
follows from it. `Single` adds that without replacements one
socket is not closed, and that it is the one whose handler closes. The invariant
was checked by TLC first, with one io thread and with two.

**SessionPair_proofs** (about 8900 obligations) assumes `PeersAssumption` and
`ScenariosAssumption`, and nothing of how many connections, cuts, deadlines,
logouts or messages there are. Its first parts are about pairs without reset
settings (`~Resets`), as `TargetNotAhead` is. `e =< n`, that the number the receiver
expects is not beyond the next one of the sender, is far from inductive: a gap
fill moves `e` to whatever it announces, so one has to know of every message that
is still under way that it announces no number beyond `n`, and when it is read
that it is the next one. The invariant, `Paired`, is `Direction` for each of the
two directions, with the stores that ascend. It says of the wire:

* `Ordered` – everything on it stays below `n`, and what is sent for the first
  time is beyond all that stands before it;
* `Settled`, when the receiver is not waiting – what is sent again stands first
  and is one `Unbroken` replay that begins at or after `e`;
* `Waiting`, when it is – what is sent for the first time is beyond `e`; either
  the replay of `e` is not on its way, or it is, from one place on and unbroken
  to the end of what is replayed;
* `Asked` – at most one ResendRequest is under way back, it begins with `e`, the
  receiver is waiting, and it has not been answered.

Without `Asked` two replays might follow each other and the second take `e` back;
without `Unbroken` a cut or a drop inside a replay might let a later gap fill pass
for the expected message. Lemmas in three layers: what reading, appending and
cutting do to `Direction` (`TailSettled`, `NewForward`, `ReplayForward`,
`PrefixForward`); what each SessionCore operator writes, stores and expects
(`Emits`, and `ReplayOnWire`, which takes `ScannedExactly` from the store to the
wire); and one lemma per action. `PairInvariant` is the invariant, `NeverAhead`
the property of the runs, `WiresInOrder` the directions.

`DeliversInOrder` is the refinement: such a pair implements Delivery. It assumes
`NothingForgotten` – both sessions have a store that keeps messages, no message
is one `buildPossDupReplay` refuses, and the applications refuse none. Each of the
three is needed: what cannot be sent again is filled away as a gap and never
delivered, and a message `fromApp` refuses is not counted and is delivered again.
Numbers alone do not tell what is delivered, so to `Paired` the proof adds
`InOrder`, which TLC checked first. It relates, for each direction, what was
submitted, the sender's store, the wire, the number `e` the receiver expects and
what it was handed:

* `Recorded` – the store holds every message of the application once, in order;
* `Had` – delivered are the first of them, and exactly those stored with a number
  below `e`;
* `TrueTo`, of every message under way – an application message is the stored one
  of that number, and anything else, a gap fill above all, passes over no stored
  one. This is where the two halves of `ScannedExactly` meet, `HidesNone` for the
  gap fills and `FromStore` for what is sent again.

That the message read has the number `e` then makes it the next one submitted
(`NextDelivered`); that `e` is never beyond `n` keeps a message submitted now from
counting as delivered already. Each action is a step of Delivery or stutters.

`NoGapWithoutLoss` says when the recovery of gaps is not needed at all. Its
hypotheses, `NothingLost`, are the ways in which a message can be lost: a second
connection, a cut by the network, a socket that may read before `onConnected`
(the dropped early read), a message that `fromApp` refuses. Each of the
four does open a gap, which TLC shows when it is taken away. `Settled` only says
that what arrives is not below `e`; here the receiver must have taken everything,
so `Calm` adds `Exact`, that the numbers on the wire are the ones from `e` to `n`
without one missing, as long as the receiver `Listens`. A session that has closed
its socket, or is about to, listens no more, and may then miss what it likes.

`AgreedWhenLoggedOn` is about pairs that do reset: on logout, on disconnect, every
day, in any mixture, but not in their Logon. Each side decides alone, so between
two connections nothing relates their numbers, and `Direction` does not hold over
a connection either: a side that restarted at one is far behind, and the other,
which kept its numbers, is *ahead*. `MildPaired` is what does hold. While both
sockets are open, each direction is a `Link`: a `Direction`, or `Unreplayed` –
new numbers ascend below `n`, nothing is sent again and nothing asks for it. A
receiver that is ahead takes nothing, so finds no gap and asks for nothing, and a
link stays `Unreplayed` until the sender has caught up, when it is a `Direction`
again (`UnreplayedIsSettled`). `Apart` says why a side that is ahead is not logged
on together with the other: the Logon that would log it on has a number it does
not expect. Of the initiator that is enough. Of the acceptor it is not, which
logs on first and answers: an acceptor that is ahead and logged on has written no
Logon that the initiator, which is not logged on, has still to read. The proof
does not go through the session's operators again. A session with reset settings
does in every call what the same session without them (`Eased`, `Marked`) does,
except that a call that loses its socket may clear the store (`Mirrors`, `Gone`),
so one lemma per operator says that the two agree, and the facts about sessions
that never reset carry over; `Tame` adds who becomes logged on, and by what.

**Framing_proofs** (about 2800 obligations) assumes `BoundsAssumption`, whose
bounds play no part, and `SizesAssumption`, that a frame has at least the
`MinSize` bytes the parser wants first: frames of any size, any number of them and
of connections, any of the `Troubles`. `PendingExact` compares lengths at the end
of a call and alone says nothing about which bytes these are. The invariant,
`FramingInv`, is about `Ahead`, what the loop holds followed by the wire. Its bytes
are `Drawn` from the frames that were sent, in their order; they are `From` a
connection since the session was opened; and it is `Behind` the frames that were
handed over, but for one that `Stays` at its head because it stopped the loop. As
long as nothing was lost it is `Lossless` – `Entire`, behind each byte comes the
next one of its frame and then the next frame, and `Starts` with the first byte of
the frame to be handed over next. That the parts are joined by concatenation makes
most of the work: `Suffix` and `Within` lemmas say what dropping a prefix, or
moving a chunk from the wire into the buffer, leaves of each part, and what is left
of it when a connection is replaced and only the buffer remains. `FrameFacts`,
`ParseFacts` and `WholeFacts` turn the answer of the parser into a fact about
`Ahead`. The four properties of the run follow; `FramesAreTheStream` maps each step
to a hand-over, a hand-over again, a send, a loss or a stutter of FrameStream.

**Only model-checked.** Every liveness property: `ENABLED` and fairness are out of
the prover's reach.

## 6. Disagreements between the code and its documents

Four have a run that must find the violation.

| Run | What happens |
|---|---|
| `dup_counted` | A possible duplicate with an old number passes `onReceive` and increments the expected number again, so the next new message is refused as old. The session rules ask for "exactly once per accepted message (and don't double-count on resend)". |
| `gap_deadlock` | When both sides miss something, each one's ResendRequest lies beyond the other's gap and is dropped; `awaitingResend` keeps both from asking again. |
| `tls_deadlock` | A send over TLS from the application or the timer waits, with the session mutex held, for the strand to write; the strand is in a handler that waits for the mutex. The rules for callbacks ask them to be "non-blocking". |
| `acceptor_deadlock` | A counterparty connects again before the end of its old connection was noticed, and sends a second Logon. The session closes the connection from the new socket's strand; the server's `close()` goes on to the old socket and waits for its strand, with the mutex held and, where the context was started with one thread, on the only thread that could run it. The rules for callbacks ask them to be "non-blocking". |

Others that the models show, of the same modules and without a run of their own:

* *Partial frame lost.* A frame refused at the head of a chunk (foreign CompIDs, a
  gap, an old number) ends the call; the part of the next frame behind it is not
  kept, and the next chunk begins in the middle of a frame (`session.cpp` 129).
  The rules ask to "accumulate partial reads until a full frame". `PendingExact`
  holds only without such a frame (`lossy`).
* *Two io threads.* The accept handler is on no strand. With `TwoThreads` of
  MCAcceptorConnection, and without `InTurn`, every property of `acceptor` is
  violated: an `onClosed` of the old socket that is already running drops the new `m_socket`,
  and the end of a connection may reach the session before `onConnected`, after
  which the session waits on a connection that is gone.
* *Close within a handler.* When `close()` of the timer thread or of `stop()`
  falls between two steps of the accept handler, the socket in hand is opened
  after the list of clients was walked and stays open until the last reference to
  the server goes; its destructor then closes and waits on an io thread. (`acceptor`
  without `~config.overlap` in `NothingLeftOpen` or `CloseReturns`.) Nor does
  `stop()` wait for a handler that is running, or for the accept that falls between
  its two detaching lines: either may then call into a connection that is destroyed.
  Nothing is claimed of the acceptor against this.
* *No more accepts.* An accept that fails is reported and not followed by another
  (`boost_tcp_server.cpp` 84), and a duplicate Logon or a test timeout closes the
  listener: in both cases no counterparty can connect any more.
* *Deferred logout.* `doLogout` during a resend sets `Closing`; when the resend
  ends `sendLogout` returns at once because the session is closing
  (`session.cpp` 217, 363). No Logout is sent, against "`doLogout` sends Logout".
* *Reset skipped.* The test timeout sets `Disconnected` before it closes, so
  `onDisconnected` sees no active session: `resetOnDisconnect` is not applied and
  `onLogout` is not called (`session.cpp` 318, 257).
* *Logon lost.* A Logon the acceptor reads before its `onConnected` is lost; its
  resend is a gap fill, as for every administrative message; the acceptor waits
  in `LogonSent`, where no deadline runs. (`CalmScenarios`
  with one early read violates `LogonCompletes`.)
* *Refused again.* A message `fromApp` refuses is neither counted nor rejected:
  the next frame is a gap, it is replayed, and the application gets it again,
  against "a non-ok return rejects/skips the message".
* *start() in a handler.* When the timer's `start()` comes between
  `onDisconnected` and the `m_socket.reset()` of the same `onClosed`, that reset
  drops the new socket and the transport stays in `Connecting`, where `start()`
  does nothing: the session never connects again. (`initiator` without
  `~config.overlap` in `SessionHasSocket` or `Reconnects`.) In the same way
  `stop()` may destroy a connection whose `onClosed` is still running.
* *Endpoint passed over.* A connect that fails at once advances twice
  (`tcp_initiator_connection.cpp` 91 and 192).
* *Counted after a reset.* A message sent before the Logon of a session with
  `resetOnLogon` opens a gap; the ResendRequest is answered after the reset, with
  numbers below the expected one, and each of them is counted again. Then the
  receiver expects more than the sender has used, with both logged on, and drops
  what follows. `AgreedOnceUp` is stated, and proved, without this setting.
* *Counted again from `m_in`.* The frame that ends a resend while a `doLogout`
  waits for it is handled and counted, but the call returns before it is consumed
  (`session.cpp` 213-218). Where it came from `m_in` it stays at its head and is
  parsed again with the next chunk; as a replay it is marked PossDup, passes for
  an old duplicate, and is handled and counted a second time. The frames behind it
  are then refused as old. A frame whose handler or store failed is handed over
  again in the same way. `SameFrames` is stated with these repeats
  (`HandAgain` of FrameStream); "exactly once per accepted message" does not hold.
* *Buffer of a replaced connection.* A counterparty that connects again before the
  end of its old connection was noticed finds the session open: `onConnected`
  returns before `m_in.clear()` (`session.cpp` 243-248), and the first bytes of the
  new connection are joined to the part of a frame the old one left. `NoOldBytes` is
  stated since the session was opened.
* *Reset interrupted.* A Logon with ResetSeqNumFlag resets the store and then sets
  the sender's number back (`session.cpp` 774-778), in two writes. A process killed
  between them starts again with the sender's number one, and uses all its numbers
  again, although nobody asked it to.
* *Torn header.* The load reads a header wherever the last record ended
  (`file_message_store.h` 165-194). Where an append was cut short and another
  followed, what it takes for a header is made of bytes of two records: it may give
  a message with a number of neither, or a length for which there is no memory,
  which ends the process because the load may not throw.
* *Logout not timed.* "A pending logout disconnects after `logoutTimeoutMs`" say the
  session rules; the setting is parsed (`session_settings.cpp` 361) and read by
  nothing. A Logout the counterparty does not answer is waited for as long as the
  connection lasts, which is why `LogoutCompletes` is checked without loss.

With no document that says otherwise: a Logon that arrives after this side has
sent its Logout makes the status `LoggedOn` again (`session.cpp` 788); the
session is logged on before `storeIncoming`, so with a disk that refuses, a Logon
can take effect without being counted; after a reset of one side only, a resend
delivers messages of the earlier session again; frames behind a Logout in the same chunk are still handled when nothing
was pending and no reset is configured; a frame that is refused out of `m_in`
stays there and blocks what follows until the connection ends; the value of a
checksum is not compared (`tcp_frame_view.h` 228 looks at its length);
`incoming.bin` is never read.

## 7. Not modelled

* **The bulk of the repository.** Nearly all its lines are generated: one class
  with setters, a parser and a serialiser for each FIX message, component and
  field, three times over, with their enumerations. They keep no state between
  calls and have no control flow to interleave; a model of one would repeat it.
  So the map covers a small share of all lines although it covers most of the
  hand-written session, store, connection and framing code.
* **Connection.** A `createTCPSocket`, `createTCPServer` or `listen` that fails;
  the initiator's close after a duplicate Logon; an acceptor over TLS; TLS together
  with overlaps; torn reads of
  `m_callbacks` or `m_socket` where two threads touch them (the outcome of such
  a race is taken to be one of the two orders); several sessions in one runtime,
  and `start()` that returns in the middle of them.
* **Sockets.** The asynchronous write queue and its back pressure, which no
  session uses; options; the TLS handshake, whose timer is cancelled before it
  begins.
* **Store.** Files that cannot be opened after they could; a machine that loses
  what the process has written (nothing is synced); a `seq.meta` written in part
  (it is one short write); old duplicates, which are not counted apart in
  FileStore.
* **Framing.** The fields of a header, and a test timeout or a new connection
  between two frames of a chunk (the mutex is held throughout). The session
  models take one whole frame per call, so frames behind a Logout in the same
  chunk, and a frame that stays in `m_in` and is handled again, are seen by Framing
  only.
* **Schedule** arithmetic (the session sees only "ended"); heartbeat intervals (a
  deadline may be due at any time, which includes every real timing).
* **Refusals of `toAdmin` and `toApp`.** They end a send as a write that fails
  does, which is modelled.
* Settings, logging, `falcongen`, examples: sequential, build time or pure output.

## 8. Running it

```
tlc -workers 2 -config MCFIXSession_session.cfg MCFIXSession
tlc -workers 2 -config FileStore.cfg FileStore
tlapm FileStore_proofs.tla
```

The `MC` modules give the constants that a `.cfg` cannot; the `.cfg` of a run
gives bounds and properties, and `PROJECT.json` which run uses which. The longest
run takes about two minutes, the longest proof, SessionPair's, about a quarter of
an hour.
