# tcp_pubsub in TLA+

TLA+ models of the eCAL `tcp_pubsub` library, the TLC runs that check them and the
theorems TLAPS proves about them. Line references are to `src/tcp_pubsub/src/` unless
a path is given.

## 1. The system

A *publisher* listens on a TCP port and sends every message to all the subscribers
connected to it; it keeps at most one message per subscriber that is being sent and one,
the newest, that waits. A *subscriber* has any number of *sessions*, each connected to
one publisher of a list, and gives what arrives to one user callback. Everything
asynchronous runs on the threads of an *executor* (an `asio::io_context`); every session
has a strand. Users call from any thread, callbacks included.

| Part | State | Operations | Interacts through |
|---|---|---|---|
| Publisher session (`publisher_session.cpp`) | `state_` (atomic), `sending_in_progress_` and `next_buffer_to_send_` (under `next_buffer_mutex_`), the socket | `start`, the reads of the handshake, `sendProtocolHandshakeResponse`, `sendDataBuffer`, `sendBufferToClient` and its completion, `cancel`, `sessionClosedHandler` | strand, the users' threads, closed handler into the publisher |
| Publisher (`publisher_impl.cpp`) | `is_running_`, acceptor, `publisher_sessions_` (under a mutex), buffer pool | `start`, `acceptClient`, `send`, `cancel`, the closed handler | executor threads, `send()` holds the list's mutex while it calls sessions |
| Subscriber session (`subscriber_session_impl.cpp`) | `canceled_`, `retries_left_`, socket, resolver, retry timer | resolve, connect, handshake request, reads, posted tasks, `connectionFailedHandler`, `cancel` | strand, retry timer, `synchronous_callback_`, closed handler into the subscriber |
| Subscriber (`subscriber_impl.cpp`) | session list, kind and value of the user's callback, `callback_thread_`, its stop flag, `last_callback_data_` with mutex and condition variable | `addSession`, `setCallback`, `clearCallback`, `cancel` | strands deliver, callback thread, calls from callbacks |
| Executor (`executor_impl.cpp`) | thread pool, io_context, work guard | start, stop, destruction | all handlers |
| Wire format (`tcp_header.h`, `protocol_handshake_message.h`) | none | header with a 16 bit length, 64 bit payload size | both sessions |
| Buffer pool (recycle, submodule), logger | reuse counts; none | | |

What is hard here: senders race completion handlers for the next buffer; a cancel can fall
between any two steps of a handshake, a retry or a change of callback; closing a session
calls back into an object that may be calling the session; `send()` holds one mutex while it
takes another; notifications of a condition variable are made without its mutex; callbacks
change the callback that runs. `PROJECT.json` lists each hazard at its line.

What each part promises:

- *Publisher session*: no stored buffer is forgotten and none is sent twice; the handshake
  response comes first; frames are not mixed; it closes once and for good.
- *Publisher*: the list holds the live sessions and only those (the second with one exception,
  section 5); `send()` reaches all of them; `send()` and `cancel()` return.
- *Subscriber session*: retries are bounded, spaced and spent; all publishers are tried;
  frames are read up to their end, whatever header the peer has; the endpoint it reports is the
  one it is connected to; after `cancel()` it closes, once, and holds no socket.
- *Subscriber*: callbacks get every message at most once and in order; no message is left in the slot; every session gets the callback that is set; `cancel()` and
  `setCallback()` return.
- *Executor*: the threads serve while anybody holds it; the last one to let go, on
  whatever thread, ends the pool without abandoning a handler or a session.
- *Together*: the callback gets whole messages, in order, none twice over all the
  connections of a session; the newest one arrives. All of it where the writes of a connection
  take turns, which only a message that is sent too early for its connection can upset.

## 2. Modules

| Module | Models | Checked as |
|---|---|---|
| `PublisherSession` | one or more publisher sessions, each with its strand, and the users' threads | `MCPublisherSession` |
| `SendQueue` | abstract: the queue of one plus one that `publisher.h` promises per connection | through the one below |
| `PublisherSessionQueue` | the refinement mapping from `PublisherSession` to `SendQueue` | `MCPublisherSession` |
| `SendChannel` | abstract: what a session does with its messages when they are also sent during the handshake | through the one below and `Connection` |
| `PublisherSessionChannel` | the refinement mapping from `PublisherSession` to `SendChannel` | `MCPublisherSession` |
| `Publisher` | EXTENDS `PublisherSession`: accepting, session list, `send`, `cancel`, executor threads | `MCPublisher` |
| `TcpHeader` | operators: the 16 bit arithmetic of a header's length | in `SubscriberSession` |
| `SubscriberSession` | EXTENDS `TcpHeader`: one subscriber session | `MCSubscriberSession` |
| `Connection` | EXTENDS `SubscriberSession`, INSTANCE `SendChannel`: both ends and TCP between them | itself |
| `Subscriber` | the list of sessions, the callback hand-over, the callback thread | itself |
| `Executor` | the thread pool and the references that keep it alive | itself |
| `PublisherSession_proofs`, `PublisherSessionQueue_proofs`, `PublisherSessionSafety_proofs`, `Publisher_proofs`, `SubscriberSession_proofs`, `Subscriber_proofs`, `Connection_proofs`, `Executor_proofs` | theorems | |

Operators called *Faulty variant* in a comment are plausible errors of the definition that
follows them. No behaviour uses them; they exist to show that the properties can be broken.

### PublisherSession

A *context* is the strand of a session or a thread of the user. `at[c]` is its next step,
`on[c]` the session it is in, `arg[c]` the buffer it holds. Steps end only where another
context can see or change something: the lock of `next_buffer_mutex_` (`Enqueue`,
`TakeNext`), the accesses to `state_`, the start of a write (`SendBufferToClient`), the close
of the socket, the closed handler. The mutex is held by a context at `write` unless it
carries the handshake response, which the code sends without it (line 293).

`SetRunning` is `state_.exchange(Running)` of line 294, `RestoreState` the store that takes
it back. `sessionClosedHandler()` is three steps: the exchange, the close, the handler.
`ReadCompletes`, `ReadFails` and `HandshakeReceived` are the reads on the strand; what a header
says is abstracted to which read comes next.

Buffers are numbers: 0 is the handshake response, messages count up. A message leaves in
`Chunks` pieces, because `async_write` calls `async_write_some` as often as it needs;
`wire` is the order of the pieces. The first pieces of the writes leave in the order in which the
writes were started, later ones in any order (`Transmit`, external).

`Submit` stands for one round of the publisher's `send()` loop: it gives a message to the
session while no other sender is in it (the list's mutex). `SendDuringHandshake = FALSE`
restricts it to sessions whose handshake response has been dealt with.

### Publisher

Composes the sessions with the accept chain (`AcceptConnection`, `HandleAccept` starts the
session, `PushBack` lists it), the session list, and the loops of `send()` and `cancel()`;
`todo[u]` is what is left of the loop of user `u`. `SessionsMutexFree` says that no user is
inside the loop of `send()`, the one critical section that is longer than a step. A
session's handler starts only while `BusyThreads < ThreadCount`, so a handler that waits for
a mutex keeps a thread of the executor. `RemoveSession` is the publisher's closed handler.

### SubscriberSession

`stage` is the link of the chain of asynchronous operations, `operation` whether its
operation is not yet started, started, or completed with the handler queued. Each link looks at
`canceled_` when it is entered (`Enter`) and starts its operation in a later step, so `cancel()` can
fall in between; `cancel()` itself is three steps (flag, socket, timer). A handler that is
already queued is not stopped by closing the socket or cancelling the timer. `connect` opens
the socket, also one that `cancel()` has closed. `tasks` are the two tasks posted for one
message. `timerExpired` never becomes false again: the expiry is set in the constructor only.

`frame` is the header length that was received and how many of its bytes are still
unread: `HeaderLengthRead`, `HeaderContentRead`, `DiscardRead` and `ReadPayload` are the four
functions that read a frame, with the byte counts of `TcpHeader`. `endpoint` is
`connected_publisher_endpoint_`, stored when a connection stands and reset in
`ConnectionFailed`. `tried` is history: the publishers asked for since the chain began at the first.

### TcpHeader

The struct is 12 bytes and begins with its own length, a `uint16_t`. A peer may send a longer or
a shorter header; `BytesToRead` and `BytesToDiscard` are the two narrowed counts,
`TooShort` the test before them. All of it is the same in both sessions. On a little endian host
`le16toh` does nothing; on others the code tests the length before it converts it
(`publisher_session.cpp:152`, `subscriber_session_impl.cpp:323`), and the operators do not apply.

### SendQueue and PublisherSessionQueue

`SendQueue` has one element that is sent, piece by piece, and one that waits; `Give` replaces
the latter, `Advance` moves on, `Close` may keep the current element or drop it (a write that
was under way when the session was canceled may still deliver pieces). `PublisherSessionQueue`
says where the implementation holds the current element: in a context about to write
it, in the write under way, or in the context that handles its completion. The restoring store of
line 296 is mapped to a closed connection, since that is what the session already is.

### SendChannel and PublisherSessionChannel

`SendQueue` is what `publisher.h` promises, and a session keeps it only if nothing is sent during
the handshake. `SendChannel` is what a session does in any case, still without its threads and
locks. `writes` may hold several elements: the handshake response is sent, and so is the element that
waited for it, without the flag `sending`, and an element given then does not wait (`Give`). A session that is
canceled while it responds looks open for a moment (line 294): that is the phase `aborted`, in
which an element may still be written. `Close` may keep any of the writes, which then still deliver
pieces. `PublisherSessionChannel` maps the members and the places of the contexts to it.

### Connection

The subscriber's actions are those of `SubscriberSession`, each conjoined with what it does
to the TCP connection: `Connected` opens the next one, `HandshakeRequested` lets the publisher
`Respond`, `HeaderArrives` and `PayloadArrives` need the pieces that have arrived, `PayloadHandled`
takes the type from what was read, `CallbackCalled` notes the message given. The publisher's are
those of `SendChannel`, and the loop of `send()` over the list, at any time and to sessions in any
state. A connection can end at any time (`CloseConnection`); the subscriber learns it from a failing
operation, possibly after reading what had arrived. A header arrives with the first piece of its frame.
Where the pieces of two frames mix, the subscriber takes a piece from the middle of one for a header, and
its length for anything (`FrameLengths`).

`early` and `outOfTurn` are history: the connections that were given a message before the completion of their
handshake response was handled, and those on which a write was begun while another one was under way (or
behind the end of the session). The properties speak of connections that are not `outOfTurn`; that
being `early` is the only way to become so is a property of its own (`OutOfTurnOnlyWhenEarly`).

### Executor

The owners are the `Publisher_Impl` and `Subscriber_Impl` objects. `OwnerHeld` is why one is alive: the
user's object (or, of a subscriber, a session the user holds); an operation that is
pending, queued or running, whose handler captures it; a session in its list, whose closed
handler captures it (`publisher_impl.cpp:182`, `subscriber_impl.cpp:82`); or its callback thread. Every owner
holds the Executor, so the last reference may be dropped by a handler on a thread of the
pool (`HandlerReturns`): `~Executor` then runs there (`ResetGuard`, `StopContext`, `ReleaseImpl`).
The threads hold the `Executor_Impl`; the last one to leave `run()` destroys it (`DropImpl`,
`DetachThreads`). `RunReturns` is asio's rule: stopped, or no guard and nothing to do.

`AcceptClient` starts a session and `PushBack` lists it later, so that `CancelOwner`, which cancels what is in the
list, can fall in between, and so can the end of the session on another thread. Such a session stays listed, alive
or dead; list, session and closed handler hold each other, and the pool never ends. `PoolEnds` names that case
(`SessionStays`) and says that there is no other.

### Subscriber

Contexts are the strands, the callback threads and the users' threads. Callbacks are
named by the number of the call that set them. `FeedThread` and `CallbackBegins` are the two
functions `setCallbackToSession()` gives to a session; the second keeps
`last_callback_data_mutex_` while the user's callback runs. The wait of the callback thread is
`Test` (the condition, mutex taken), `Doze` (the mutex released and asleep in one step, as
the condition variable guarantees), and waking by `NotifyAll`. A call made inside a
callback runs in the callback's context and returns into it (`Home`). The session's connection is
reduced to `Deliver` (a message is past its look at `canceled_`) and `SessionCloses`.
`UserCalls` and `CallbackCalls` are the calls made from users' threads and in callbacks; with
`ConcurrentCalls = FALSE` they come one after another, from whatever context. Calls that overlap meet
in `callback_thread_` without a lock, and then the program follows a null pointer or assigns over a thread that
can be joined: the model stops there (`JoinThread`, `SpawnThread`).

## 3. Runs

| Run | Instance | Shows |
|---|---|---|
| `Session` | one session, 2 users, 3 messages of 2 pieces, sends at any time; fair | `TypeOK`, `NextIsServed`, `HandshakeLeadsLiveWire`, `WrittenAtMostOnce`, `ClosedTwiceOnlyByRestore`, `NextIsWritten`, `CancelIsFinal` hold; `ImplementsChannel`: every step is one of `SendChannel` |
| `SessionQuiet` | 2 users, 4 messages, none during the handshake | `WireInOrder`: whole messages, in order; `ImplementsQueue`: every step is one of `SendQueue` |
| `SessionMixedFrames` | one user, 2 messages | `FramesAreWhole` is violated |
| `PublisherSafety` | 2 sessions, 1 user, 2 messages, 2 executor threads | `PublisherTypeOK`, `LiveSessionsListed`, `SendReachesAll`, `StaleOnlyWhenOvertaken` hold |
| `PublisherUsers` | 1 session, 2 users, 1 message, 1 executor thread; fair | `LiveSessionsListed`, `SendReachesAll`, `CallsReturn`, `CancelEmptiesList` hold |
| `SubscriberRetries` | 2 publishers, 2 retries, 6 attempts, 2 payloads, headers of 1, 4, 12, 13 and 65535 bytes; fair | `TypeOK`, `ClosedHoldsNoSocket`, `AttemptsBounded`, `GivesUpExhausted`, `HeaderConsumed`, `ReportsConnectedPublisher`, `CancelCloses`, `ResolvesEveryPublisher`, `EndsAgainOnlyByLastTask` hold |
| `SubscriberNoWait` | unlimited retries (the default) | `WaitsBeforeRetry` is violated |
| `Connection` | 2 connections, 2 messages of 2 pieces, one retry | `FramesReadWhole`, `OutOfTurnOnlyWhenEarly`, `DeliveredInOrder` hold |
| `ConnectionDelivery` | 1 connection, 3 messages of 2 pieces; fair | `NewestIsDelivered` holds |
| `Callbacks` | 2 sessions, 3 messages, 2 calls one after another from a user and in callbacks, besides `addSession()`, 2 callback threads; fair | `TypeOK`, `SlotFreed`, `SessionsUpToDate`, `MessagesInOrder`, `SlotIsServed`, `CallFromThreadReturns` hold |
| `CallbackJoinHangs` | 1 user, `setCallback()` then `cancel()`; fair | `CancelReturns` is violated |
| `ExecutorLife` | 2 threads, a publisher and a subscriber with a session each; fair | `NothingAbandoned`, `HeldPoolServes`, `PoolEnds` hold |

**Bounds.** `MaxSends`: three messages are enough for one that is being written, one that
waits and one that replaces it; `Chunks = 2` is the least number that can mix. Two users give
a send against a cancel, and two cancels. Two sessions are enough for a loop over the list that meets a
closing one; three are not needed since sessions share only the list and its mutex. Six
attempts pass the limit of two retries twice, with a payload in between. Two calls give every
change of callback from one kind to another and every callback that is changed by another call; a callback thread is created
by each at most once. (One session with three calls and three threads was checked too: the properties hold.) The message that comes out of order after a `cancel()` (section 5) needs
more calls; that `MessagesInOrder` excepts exactly that case is proved for
any number of calls (`GivenInOrder`). `MaxAttempts` stops only a session that waits for its next attempt;
once it is canceled the bound no longer applies, so it hides no end of a canceled session.
The five header lengths are one that is refused, one that ends before the payload's size, the
exact one, one byte to discard, and the most that fits. Two connections are enough for a message
to be given on the second after one was lost on the first, and two messages for one that overtakes the other; the
theorems say the same of any numbers. `ConnectionDelivery` has three messages for one that is
sent, one that waits and one that replaces it; `MaxPayloads = 4` is as many as the handshakes and
messages of either run. Two threads, a publisher and a subscriber let either drop the last reference while the other
thread is in a handler or has left, and let a session end, or a cancel come, between the accept handler's two steps.

**Symmetry** is used only where no temporal property with fairness is checked.

**Deadlock** is checked for the publisher: its runs have no state without a step (a
user can always cancel again). It is switched off for `SubscriberSession`, because a
session that has closed does nothing any more, for `Subscriber` and `Connection`, because
the bounds on calls, messages and connections end a behaviour, and for `Executor`, because a pool that
has ended is where it shall stop.

**Fairness.** `WF` of every step of a strand, of a thread in a call and of a callback
thread: the executor's and the operating system's threads run on. `WF` of the network taking
a piece of a write (or the write failing), of resolving and connecting coming to an end, of
time passing: the operating system ends each of them with a result or an error. Nothing is assumed
of the peer (it may never send), of accepting, or of the user. Callbacks are assumed to
return. In `Publisher` a session's handlers are fair together, and need a free
thread. In `Subscriber` the executor is assumed to have a thread for every strand. In
`ConnectionDelivery` the subscriber's chain, each iteration of `send()`, the handshake response and each
write are fair; that a connection is established, or ends, is not assumed of it. In `Executor`
the threads and the destructor run on, and the user's callbacks return; that the user lets go or an operation
completes by itself is not assumed: what ends the operations is that they are canceled.

## 4. Proofs

`PublisherSession_proofs` proves, for any sets of sessions and users, any number of messages,
any `Chunks > 0` and both values of `SendDuringHandshake` (assumption
`SessionAssumption`, the only one):

- `TypeCorrect`: `Spec => []TypeOK`.
- `NextIsAlwaysServed`: `Spec => []NextIsServed`. The lost wake-up a sender and a completion
  handler could produce between them does not exist.
- `HandshakeAlwaysLeads`: `Spec => []HandshakeLeadsLiveWire`.

The type is inductive only with the places of the contexts (`WellPlaced`: a strand is in its own session,
a sender holds a message, an idle context holds nothing), together `TypeInv`.
The two others are not inductive. `IInv` adds, for each session:

- `OpeningOK`: until `Running` is stored no user is at a write, and no write is started
  before the handshake response;
- `ClosingOK`: nothing has happened to a session that has not started; a canceled session is
  not live, and neither is one whose state is about to be restored;
- `TicketsOK`: on a live session the first write that was started is the handshake response, and
  as long as nothing is on the wire it is still to be carried, so it comes first;
- `ServedOK`: the flag, or a stored buffer of a running session, implies a write under way,
  and between the write of the response and `Running` that write is one.

It is needed because the argument for the buffer goes through the connection: a completion
handler that finds the session canceled drops the next buffer, which is right only because the
canceling context is then about to close the connection. Each step lemma has one
step per action. `CloseKeeps` handles the closing exchange for any context, `Frame` every action that
touches another session only.

`PublisherSessionQueue_proofs` proves `QueueImplemented`: `SendDuringHandshake = FALSE` and `Spec`
imply `ImplementsQueue`. Every action of the session is shown to be a step of `SendQueue` or
a stutter under the mapping. That needs more than `IInv`: `QuietInv` says that the
current element is in one place at a time (`OneInHand`: a write under way, a context about to write, or
one that handles a completion), that before the response is dealt with nobody was given a buffer,
and that the flag is true exactly while a message is current. Each action is first described
by what it does to one session (`Effect`), the invariant and the refinement are then
proved per effect. The theorem says for every instance what `SessionQuiet` checks on one.

`Publisher_proofs` proves, for any numbers of sessions, users, messages and executor threads (`SessionAssumption`),
`PublisherTypeCorrect`, `LiveAlwaysListed` (`PublisherSpec => []LiveSessionsListed`), `SendAlwaysReaches`
(`PublisherSpec => SendReachesAll`) and `StaleAlwaysOvertaken` (`PublisherSpec => StaleOnlyWhenOvertaken`). Every action is first reduced to its effect on the session it concerns, the
context that moves and the list (`StepEffect`); the invariants are proved per effect:

- `StartedInv`: nothing is in, listed for, or read and written for a session before `start()`, so starting one disturbs
  no loop that runs;
- `DeadInv`: a canceled session, or one whose `Canceled` was overwritten by `Running`, is not live, and the closed
  handler runs on a closed connection: it never takes a live session out of the list;
- `ListedInv`: an open connection is in the list or about to be pushed;
- `WritesInv`, `OneSender` and `LoopInv`: while the loop of `send()` holds the mutex, each live session of the list is still
  to be visited, is visited, or has the message in one of the places where it cannot be lost;
- `OnceInv`: no session is listed twice, nor listed and still to be pushed, so that removing it once is enough. A session that
  closes has its closed handler ahead; when that has run the session is not in the list, and only the accept handler that has
  not listed it yet can put it there.

`LiveSessionsListed` alone is not inductive: without `DeadInv` the closed handler could take a live session out of the
list; without `StartedInv` a session that is listed could come up behind a loop that has passed it.

`SubscriberSession_proofs` proves the invariants of `SubscriberRetries`, for any limit, number of
publishers and set of header lengths (`SubscriberSessionAssumption`): `TypeCorrect`, `NoSocketOutlives`,
`AttemptsAlwaysBounded`, `RetriesUsedUp`, `PayloadBehindHeader`,
`ConnectedPublisherReported`, and the action properties `EveryPublisherResolved` (`Spec => ResolvesEveryPublisher`) and
`EndedStaysEnded` (`Spec => EndsAgainOnlyByLastTask`). `HeaderConsumedExactly` is the arithmetic: for every 16 bit length
that is not refused, 2 + read + discarded is the length, the narrowing loses nothing.
Its `IInv` adds to the type: `CancelOK` (cancel's place and the flag), `SocketOK` (which
stages hold a socket), `EndpointOK`, `TasksOK` (what is posted at which stage, never
more than the two tasks of a message), `ClosedOK` (a second end needs a pending task and a cancel),
`AttemptsOK` (attempts and retries add up to the limit) and `FrameOK` (what is unread is what the next read takes).
`EveryPublisherResolved` rests on `TriedOK`: a chain that resolves has asked for all publishers before the current one.

`PublisherSessionSafety_proofs` proves three results about the wire and the end of a session. First, also for `SendDuringHandshake = FALSE`, `WireAlwaysInOrder`
(`Spec => []WireInOrder`) and `FramesWholeWhenQuiet`, that the property `SessionMixedFrames` finds violated
holds once nothing is sent during the handshake. The argument is made on the abstract queue:
`OrderInv` says that the wire is ordered and at most the current element, the current one at most the next one, and all
of them at most the newest message; that one user is in `send()`, with the newest message; and that an
open queue with a next element has a current one. `QuietInv` makes each step of a session a step of that queue.

Second, for both values of `SendDuringHandshake`, `BuffersWrittenAtMostOnce` (`Spec => []WrittenAtMostOnce`). The
invariant `OnceInv` says of each buffer that it is in one place at a time: held by a context, waiting as the
next one, in one write, or on the wire; that the pieces on the wire and those a write has left are together no
more than its pieces; and that a message that has not been sent, or the response of a handshake that is still being
read, is nowhere. With at most one write per buffer the sum in `WrittenAtMostOnce` (a fold over a set of
writes) is over no or one element, and `LeftInNone` and `LeftInOne` give its value.

Third, `ClosedTwiceAtMost` (`Spec => []ClosedTwiceOnlyByRestore`) over `IInv`: the calls of the closed handler plus the contexts that have won the exchange and have not called
it yet are at most one for the `Canceled` that is stored and one for the `Canceled` a `Running` was stored over.

`Subscriber_proofs` proves `SubscriberTypeCorrect` for any sets (`SubscriberAssumption`, which says also that
sessions, threads and users are different things) and any calls, and `SlotAlwaysFreed`, `GivenInOrder` and `SessionsAlwaysUpToDate` under
`Sequential`: calls come one after another. They may come from any number of users' threads, and from callbacks of
both kinds. The assumption is needed: calls that overlap break `callback_thread_` and miss sessions (section 5). The invariant has five parts:

- `Control`: one call is made at a time, and where it stands tells whether there is a callback thread and of which kind the
  callback is; every thread is told to stop while there is none. A thread that a callback has detached may live on, even
  undo the stop (section 5), and nothing here depends on its end;
- `Freed`: a synchronous callback that is set has found the slot empty, but for the moment before it is cleared;
- `Listed`: only a session in the list delivers, and after `cancel()` has emptied it every session that was in it is canceled;
- `Ordered`: for each session, what the strand holds is newer than what is in the slot, which is newer than what was
  given. The last comparison is only inductive for sessions that are not canceled, and does not hold for others (section 5);
- `UpToDate`, for `SessionsAlwaysUpToDate`: unless a call is still to renew the callbacks, the last callback that a listed
  session was given, installed or posted, is the one that is set, also for the sessions `cancel()` has copied out of the list.

`Connection_proofs` proves the safety of the whole, for any numbers of connections, messages and pieces, and whenever `send()`
is called (`ConnectionAssumption`, `SubscriberSessionAssumption`): `OutOfTurnAlwaysEarly`
(`ConnectionSpec => []OutOfTurnOnlyWhenEarly`), `FramesAlwaysReadWhole` (`ConnectionSpec => []FramesReadWhole`) and
`MessagesDeliveredInOrder` (`ConnectionSpec => DeliveredInOrder`). They rest on `ConnectionInv`, which adds to the session's `IInv`:

- `Streams`: a connection whose writes take turns has one write at most; what has left on it is whole frames, newer behind older, and the last of
  them lacks exactly what that write has left; the element that waits is newer than both; and what the connection was given is no newer
  than the newest message, older if the loop of `send()` has still to visit it;
- `Flags`: a connection that was given nothing early has its flag set exactly while a message is sent, so its
  writes take turns;
- `ReaderOK`: what the subscriber has consumed ends where a frame ends, and no further than the wire;
- `DeliveryOK`: what is still to be read, and what was read and waits for the callback, is newer than what the callback was
  given last, over the change of connections too, because a new connection is given only messages sent after it was opened.

`FramesReadWhole` alone is not inductive, because it says nothing of the pieces still to come; nor is the order of
the deliveries, because a message is compared with those that are not yet read. The publisher's steps are first reduced to
those of a queue (`StepOfQueue`), as long as they take turns.

`Executor_proofs` proves `StopAbandonsNothing` and `PoolServesHolders` for any sets of threads, publishers, subscribers
and sessions (`ExecutorAssumption`): the destructor runs only when nobody holds the
Executor (`HeldIsAlive`), from then on nobody can again, and the guard, the io_context and the threads go only by the
destructor (`EndsByDestroyer`).

Model-checked only: liveness, which needs fairness and ENABLED, which TLAPS does not handle (`NextIsWritten`,
`CancelIsFinal`, `CallsReturn`, `CancelEmptiesList`, `CancelCloses`, `SlotIsServed`, `CallFromThreadReturns`, `PoolEnds`,
`NewestIsDelivered`), and `ImplementsChannel`, on which `Connection` rests. Every other property of a passing run is stated by a theorem,
some of a subscriber's under an assumption (`Sequential`). What an operator computes is proved where a theorem needs it (`HeaderConsumedExactly`,
`RemoveFirstKeeps`).

## 5. Deviations

Three runs show the code doing something else than its documentation says
(`PROJECT.json`, findings): frames mixed after a send during the handshake
(`publisher_session.cpp:293`), retries that do not wait (`subscriber_session_impl.cpp:265`), and a
`cancel()` that hangs in `join()` because the stop flag is notified without the mutex (`subscriber_impl.cpp:279`).

The models also contain the following behaviours; each was seen as a counterexample of TLC to a
stronger property while the models were built. They limit what the properties above
can say.

- `publisher_session.cpp:294`: `Running` overwrites a `Canceled` until line 296 puts it back. A second caller can
  run the closed handler again (line 94 says it runs once), and a message can be written on a
  connection without a handshake. Hence `ClosedTwiceOnlyByRestore`, and `Live` in
  `HandshakeLeadsLiveWire`.
- `publisher_session.cpp:332`: a buffer stored during the handshake is sent after a newer one that was sent
  directly. Hence `SendDuringHandshake = FALSE` for `WireInOrder`, and `outOfTurn` in the properties of `Connection`.
- `publisher_session.cpp:324,107`: the socket is written and closed on users' threads;
  `publisher_session.h:110` says the strand protects it.
- `publisher_impl.cpp:216`: the session is started before it is listed. With two executor threads it can close in
  between; its closed handler then finds nothing to remove, and the dead session is listed for good and counted by `getSubscriberCount()`, which
  `publisher.h:140` calls "the number of active subscribers". Hence `StaleOnlyWhenOvertaken`.
- `publisher_impl.cpp:168`: a connection accepted before the acceptor closes and listed after `cancel()` copied
  the list survives the cancel (`publisher.h:237`: "Closes all connections to all subscribers").
- `publisher_impl.cpp:182`: a session in the list, its closed handler and its publisher hold each other. A session of the two kinds
  above therefore keeps the publisher and the Executor for ever. Hence `SessionStays` in `PoolEnds`.
- `publisher_impl.cpp:206`: any error of accept ends accepting while `isRunning()` stays true.
- `subscriber_session_impl.cpp:478`: two tasks are posted for a message; after a cancel both call
  `connectionFailedHandler()`, and the session reports its end twice, so that the subscriber comes to the line of
  which it says "This can never happen" (`subscriber_impl.cpp:103`). `EndsAgainOnlyByLastTask` is what remains.
- `subscriber_session_impl.cpp:158`: a failed connect waits and starts again at the first publisher; the
  ones behind a publisher that resolves and does not accept are never tried (`subscriber_session.h:55-56` says they are).
  `ResolvesEveryPublisher` is what remains.
- `subscriber_impl.cpp:173`: a synchronous callback that sets a synchronous callback waits for
  `last_callback_data_mutex_`, which its own strand holds since line 231; `subscriber.h:171` says that a callback may set a
  callback. `CallFromThreadReturns` is about the callback thread, where it can.
- `executor_impl.cpp:88`: with no threads the handlers that are left hold their owner, the owner the Executor, and the
  pool never ends.
- `subscriber_session_impl.cpp:466`: the callback may be called after `cancel()` has returned.
- `subscriber_impl.cpp:298`: `cancel()` leaves a message in the slot. A strand that is past its look at `canceled_`
  then gives a newer one to the old synchronous callback, and an asynchronous callback that is set after the cancel gets
  the older one. Hence `MessagesInOrder` is about sessions that have not been canceled.
- `subscriber_impl.cpp:298`: `cancel()` does not wait for a synchronous callback, only for a callback thread.
- `subscriber_impl.cpp:231`: synchronous callbacks of different sessions wait for each other
  (`subscriber.h:174` says they run in parallel).
- `subscriber_impl.cpp:182`: an asynchronous callback that sets another one detaches its own thread and resets the stop flag before that
  thread looks at it. It goes on, although line 142 speaks of removing it, and may call its callback without a
  message (line 196), or join the new thread when the callback makes a second call. `CallFromThreadReturns` is about the thread that is
  `callback_thread_`.
- `subscriber_session_impl.cpp:496`: a replaced callback is called until the strand runs the posted task.
- Calls that overlap, though `subscriber.h:97` and `:190` call them thread-safe: one `setCallback()` may use the thread object another one has
  reset, or replace it (`subscriber_impl.cpp:153`); a session added meanwhile keeps the old callback (`subscriber_impl.cpp:119`); and a
  message in the slot may be given behind a newer one. Hence `ConcurrentCalls = FALSE` in the runs and `Sequential` in the theorems; setting it to `TRUE`,
  with two users, shows each of them.

## 6. Not modelled

- Steps merged where no property tells them apart: the two plain assignments in `Switch`
  and in `ForgetCallback` (calls that overlap would race on them), and the loop of `RenewCallbacks` over the list. Spurious
  wake-ups of the condition variable are left out: the wait has a predicate, so they only
  repeat `Test`.
- The contents of headers beyond their length, the type and whether there is a payload; the
  size of payloads; the lifetime of the vectors a discard is read into. The number of bytes is kept in
  `SubscriberSession` only: the publisher's session reads headers with the same lines, and its
  model keeps which read comes next.
- Hosts that are not little endian, and peers of another protocol version beyond the end of the session.
- In `Connection`: `cancel()` of the subscriber, which `SubscriberSession` covers, and the steps of the threads and
  locks of the publisher's session, which `ImplementsChannel` covers.
- Moving an Executor: the destructor of one that was moved from dereferences a null pointer
  (`executor.cpp:22`), but Executors are shared, not moved.
- The buffer pool (third-party, empty submodule), logging, samples, tests, build files.
- The getters (`getSubscriberCount`, `getPort`, `isConnected`...): they change nothing.
- `getBuffer` and filling a buffer in `send()`: no other context can see the buffer yet.

## 7. Plan

1. A proof that a publisher session implements `SendChannel`, from the invariants of `PublisherSessionSafety_proofs`.
2. `Publisher` with its sessions replaced by `SendChannel`, for more sessions than the detailed model allows.
3. The safety part of the liveness properties, such as what holds from a `cancel()` until it returns.
