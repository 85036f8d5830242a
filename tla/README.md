# ScatterWeb in TLA+

A model of ScatterWeb's daemons: the double ratchet that encrypts a
conversation, the client that keeps its keys and sends with them, the
store-and-forward path of Outbox and Inbox, the AnonRouter's channels, and the
IPC that connects them all. TLC checks it on small instances; TLAPS proves the
safety of all five for every size.

## The system

Five processes of one user talk over Unix sockets (CBOR requests, answers and
pushes):

| part | state | what it does |
|------|-------|--------------|
| Client (`client/src`) | keystore, ratchet states, conversations, groups | encrypts and decrypts, hands frames to the Outbox, takes them from the Inbox |
| Outbox (`outbox/src`) | `queued_messages`, `recipient_inboxes` | sends frames to the recipients' Inboxes and retries until one acknowledges |
| Inbox (`inbox/src`) | `stored_messages`, allowlist, siblings | stores frames, acknowledges, copies to sibling devices, expires |
| AnonRouter (`anonrouter/src`) | channels, guards, tunnels, TFT | channels between daemons over UDP cells |
| `sw` (`cli/src`) | none | command line |

Shared code (`common/src`): ratchet, IPC client/server/codec, DHT records,
SQLite wrapper.

What makes it hard: the path loses, repeats and reorders; threads share
databases and connections and act on what they read earlier; daemons are killed
between two statements; a decryption that throws has already changed the cached
state; a call may wait for the thread that makes it; the client's two databases
are written one after the other; times use 0 for "never".

What should hold: a message decrypts at most once; both ends derive the same
keys; a frame reported delivered is not lost; a settled row stays settled and
every row is settled; an answer reaches its own call; an open channel has an
agreed key; the keystore opens and keeps its identity; keys are on disk before
the rows and frames that need them.

## Modules

| module | models | state and actions |
|--------|--------|-------------------|
| `Ratchet` | `ratchet.cpp`, `ratchet.hpp` | no state; each function is an operator on the `State` record, each way through `decrypt` a predicate |
| `RatchetManager` | `ratchet_manager.cpp` of two clients | `cache` (cached state), `db` (stored blob), `net`; `encrypt`, four outcomes of `decrypt`, `Lose`, `Restart` |
| `Transport` | the AnonRouter as the daemons use it | `net`, `now`; sending, receiving with repetition, loss, the clock |
| `Outbox` | `outbox/src` | the tables, one program counter per connection thread (`conn`), the rows held by the retry loop (`due`) and by the startup burst (`burst`) |
| `Inbox` | `inbox/src` | the tables and settings by device; a frame handler is one step |
| `Delivery` | Outbox and Inboxes composed | `Init`, `Next`, fairness, the properties, the refinement mapping |
| `Mailbox` | what store and forward promises | abstract: rows, addresses and boxes; no network, threads or crashes |
| `Socket` | `codec.cpp` and Unix sockets | `conns`: both queues, both ends and the server's descriptor of each connection |
| `IpcClient` | `ipc/client.cpp` | `client` (the object), `call` (by thread); `call` is `Register`, `WriteRequest`, then `Return` or `TimeOut`; the receive thread and `disconnect` |
| `IpcServer` | `ipc/server.cpp` | `server`, `fds` (how often `client_fds_` lists a descriptor); the accept thread, a thread per connection, `push`, `stop` |
| `Ipc` | client processes and one daemon | composition, fairness, properties |
| `Channel` | `channel.cpp`, `cell.cpp`, `garlic.cpp` | no state; `ChannelManager`'s methods on the map of channels, the cells and which key they need |
| `Router` | `router.cpp`, `udp_transport.cpp`, AnonRouter `ipc_handler.cpp` | routers with their channels, cells in flight, a `frame.send` in progress |
| `Keystore` | `keystore.cpp` | no state; a method maps a keystore to the sequence of keystores it passes through |
| `MessageStore` | client `store.cpp` | no state; statements on the tables |
| `Client` | `client.cpp`, client `ipc_handler.cpp` | `world` (keystore, tables, frames sent), sends in progress, a change of the passphrase in progress |
| `MCRatchet`, `MCDelivery`, `MCIpc`, `MCRouter`, `MCClient` | instances for TLC | |
| `RatchetProofs`, `DeliveryProofs`, `RouterProofs`, `IpcProofs` | | inductive invariants of `RatchetManager`, `Delivery`, `Router` and `Ipc`, their proofs and the theorems; the refinement of `Mailbox` |
| `ClientInvariant`, `ClientSessions`, `ClientRequests`, `ClientProofs` | | the inductive invariant of `Client`; that sessions, and contacts, groups and sends preserve it; the theorems |

Abstractions. Keys are symbolic: a root key is the sequence of secrets hashed
into it, a chain key its root, label and position; AES-GCM succeeds exactly when
keys are equal, and ML-KEM with a wrong key yields another secret, not an
error. A delivery frame is its `message_id` and persistence class; one clock
unit is the 60 s of the first retry delay. The stored ratchet state goes
through `Reloaded`, which is what `serialize` followed by `deserialize` does.

In `Channel` a key is the channel it was drawn for and the number of the draw; a
payload is empty, fits a cell or is longer. In `Keystore` a salt is a number and a file
is absent, torn or whole; a key is a passphrase and a salt. `Client` counts the
messages of a ratchet and the generations of a sender key. Its clock
counts in units in which a Key C lives for `Lifetime` and is renewed
`Threshold` before its end (30 and 7 days in the code, 2 and 1 in the run: what
matters is that both are positive and the second is smaller). It stands still
while a request is served or the hourly loop has something to renew.

Steps. Outbox threads take no lock, so that each SQL statement whose result is
used later is a step. An attempt and the update that follows it are one step,
and what the attempt sent is open: a call may throw after sending or return
without. An Inbox handles all frames on one thread, and a crash within a
handler equals the loss of its replies. Its replication at the end of
`process_delivery_frame` sends nothing, because it calls the AnonRouter from
the thread that must read the answer (`HandlerCallUnanswered` of the `ipc` run
shows that such a call is never answered); the maintenance loop replicates. The
Outbox's replication to siblings has no effect either, as `on_frame` has no
branch for it.

An IPC call is cut at its lock and its write, the server's connection thread at
read, answer, `close` and `remove_client`, between which the descriptor may be
used again. A SIGPIPE ends the process that writes, as none handles it.

`ChannelManager::send` takes two locks and is two steps. A cell that belongs to
a channel and does not authenticate makes `cell_decode` throw on the receiving
thread, which ends the router (`on_cellThrows`).

A client handler is a path of worlds, one for each durable change: it runs to
the end, or is killed at any point of it. `send_message` and its kin are cut
where they read the number of a message and the ratchet state, and
`change_passphrase` before it installs the new key, because other threads work
in between. `session.lock` is modelled while no send is in progress: the code
closes the database under a handler that uses it, which is undefined. A
frame counts as sent whether the Outbox answers or not.

## Runs

| run | checks | instance |
|-----|--------|----------|
| `ratchet` | `TypeOK`, `SkippedWithinCapacity`, `NoReplay`, `KemStepsAlternate`, `SkippedKeysGenuine` | repeats, a restart and a cache that overflows |
| `ratchet_lossy` | `NothingForgotten`, `KemStepsAlternate` | loss and reordering only, more epochs, a cache with room |
| `delivery` | `TypeOK`, `NoLoss`, `DeliveredWasReceived`, `OnlyRecipientsReceive`, `ScheduledWithinRetries`, `NoRevival`, `KeptUntilTaken`, `ImplementsMailbox`, `Settled` | a frame or a pass-through broadcast, one device, the retry schedule to its end, one crash, one change of settings |
| `delivery_siblings` | `NoLoss`, `CopiesHaveOrigin`, `KeptUntilTaken`, `ImplementsMailbox` | one frame, two devices, one that polls, one change of settings; up to the first retry |
| `ipc` | `TypeOK`, `OwnAnswer`, `HandlerCallUnanswered`, `WaitingCanWake`, `TerminatedOnlyWhenLost`, `DisconnectReturns` | one client process with two caller threads, two connections, two calls, a push, a stop |
| `anonrouter` | `TypeOK`, `OpenKeyIsAgreed`, `DeliveredWasSent`, `FailsOnlyWhenRekeyed`, `CloseIsFinal` | two routers, one bootstraps from the other; two channels, restarts |
| `client` | `TypeOK`, `KeystoreOpens`, `IdentityKept`, `NoKeyReuse`, `DeviceHoldsRecordedKey`, `CertFresh`, `RowBeforeFrame`, `KickRotates`, `ConversationKeysSaved` | one contact, two groups, two passphrases, the Outbox as device; a kill anywhere, a restart |

`ImplementsMailbox` says that Outbox, Inboxes and network together implement
`Mailbox`: queue status, recipients, stored, received and taken frames map to
its variables, and everything else is invisible.

Some properties hold only with an exception, which they name, and the exception
is real in each case. `KeystoreOpens` excludes a kill inside a
handler (a torn file, or a new salt next to the old file) and a save during a
change of the passphrase. `NoKeyReuse` excludes overlapping sends of one
conversation and compares no frames from before and after a kill, which rolls
the ratchet back to the last save.
`DeviceHoldsRecordedKey` excludes a device whose call failed, as a renewed key
is recorded all the same, and a kill, after which the keystore may be older
than what the device was told. `FailsOnlyWhenRekeyed` excludes a channel accepted twice
or upgraded: the cell under the other key ends the router.
`TerminatedOnlyWhenLost` excludes a connection the daemon closed: `disconnect`
does not join the thread then, and the next `connect` ends the process.

Five runs show where the code departs from its own comments:

| run | comment | the code |
|-----|---------|----------|
| `ratchet_reorder` | `ratchet.hpp:15`, out-of-order delivery of up to `MAX_SKIPPED_KEYS` messages | only the first message of an epoch carries `kem_ct`; a later one that overtakes it is rejected |
| `ratchet_stored` | `ratchet.cpp:202`, `skipped_keys` is encoded | it is the 13th entry of a map of 12 and is dropped |
| `delivery_poll` | `inbox.cpp:64`, polls for waiting messages | the answer is ignored |
| `delivery_passthrough` | `inbox.cpp:188`, pass-through frames are not replicated | the maintenance loop replicates them |
| `ipc_push` | `server.cpp:75`, per-client write errors are ignored | a write to a closed connection raises SIGPIPE, which ends the daemon |

Bounds. `MaxEpoch`, `MaxMsgs`, `MaxDups`, `MaxRestarts` limit a conversation;
`MaxTime`, `MaxNet`, `MaxCrashes`, `MaxChanges` and `LastEnqueue` limit a
delivery. They are large enough for two KEM steps, a gap that overflows the
cache, the passive wait, a crash between a row and its recipients, a stale
write of the retry loop, and both expiry sweeps. `LastEnqueue` leaves every row
time to expire before the clock stops. `MaxQueued` lets one of the two frames
be queued in a behaviour. An Inbox starts with no settings or all
of them, and they change `MaxChanges` times.

`MaxConns`, `MaxCalls`, `MaxPushes` and `MaxStops` limit the IPC: enough for an
answer that arrives after its call timed out and another waits, a reconnection,
a call from a push handler during `disconnect`, and a descriptor that is used
again before `remove_client`. `MaxIds`, `MaxAccepts`, `MaxSends`, `MaxStarts`,
`MaxRequests` and `MaxNet` limit the routers: enough for a repeated CHAN_OPEN
after an accept, two accepts, an upgrade and a late cell of each. `MaxTime`,
`MaxStarts`, `MaxRequests` and `MaxFaults` limit the client:
two processes, any unlocks and locks and three other requests, a kill or a call
without answer, and time for a Key C to expire. `Router` assumes that no
router bootstraps from itself. Symmetry is over groups
and passphrases. Deadlock is allowed in all runs: a bounded instance ends when
everything has been sent and handled or the clock stops.

Fairness. In `Delivery` (`FairSpec`): time passes; the maintenance loop, which
wakes every minute, runs; a dead Outbox is started again; calls of the startup
burst return or time out. Nothing is assumed of the network, the retry loop or
the client. In `Ipc`: a thread that can go on does, a waiting call ends with an
answer or its timeout, and a push handler returns once its call has. Nothing is
assumed of the server.

## Proofs

`RatchetProofs` proves, for every cache capacity and all bounds:

- `TypeCorrect`: `TypeOK` always holds;
- `CapacityRespected`: the skipped-key cache stays within `MAX_SKIPPED_KEYS`;
- `ReplaySafe`: no accepted message decrypts again, from the cached or the
  stored state;
- `ClientsAgree` (`KemStepsAlternate`): the clients take KEM steps in turn, and
  their root keys agree but for the step under way;
- `CacheIsGenuine` (`SkippedKeysGenuine`): a key in the cache is the one its
  message was encrypted with;
- `UnderWayReadable` (`NothingForgotten`), which assumes `Roomy`: the path
  repeats nothing, no client restarts and the cache has room for one direction's
  messages. Every message under way can then still be decrypted, in any order,
  unless it waits for the message with its epoch's `kem_ct`.

The other assumptions are those of the modules: two distinct parties and natural
bounds. None of the invariants is inductive alone. The argument for replay is
that an accepted message lies behind the receiver, at an earlier epoch or an
earlier number of the current one, and that no skipped key has its slot
(`Passed`). A repeat of it within the current epoch still consumes the next
chain key, and fails because that key's position is not its number; so the
invariant `IInv` also says that chain positions agree with the counters
(`LocalInv`) and that a message's key has the position of its number
(`Numbered`). `Passed` must hold of the cached and of the stored state, since a failed decryption
changes only the first and a restart falls back to the second. Each action
preserves it: the chain only moves forward, and the slots it saves lie between
its old position and the new one.

For the agreement of the clients the invariant says that either one of them
owes a KEM step and both have the same root (`Owes`), or one has taken its step
and the other has not received it, so that its root is one secret longer
(`Ahead`). It is said of every copy of the one client's state and every copy of
the other's, for the same reason as above.

That nothing is forgotten needs more (`CompleteInv`): a message under way that
lies behind the receive position has its key in the cache. A KEM step keeps this
because the `prev_count` of a message is the number of messages in the epoch
before, so the drain stops neither short of a message under way nor past one
still to be sent (`Bounded`); consuming a key keeps it because no two messages
of a sender share a slot (`Distinct`). That the cache never overflows is a count:
it holds at most one key for each message before the receive position
(`Within`). `ratchet_lossy` runs with the smallest cache that `Roomy` allows.

`RouterProofs` proves, for any set of routers, any bootstrap relation and all
bounds, the five properties of the `anonrouter` run: `TypeCorrect`,
`OpenChannelsAgree`, `DeliveriesAreGenuine`, `FailuresAreRekeyings` and
`ClosedForGood` (`CloseIsFinal`, an action property). They speak of channels,
but a channel changes through the cells in flight, so the invariant says what
every cell and every send in progress carries: a CHAN_OPEN comes from the
channel's opener, a CHAN_ACCEPT holds a key drawn for the channel, a data cell
is encrypted under an agreed key and its garlic is the encoding of a payload
that some other router was given. This survives late and repeated cells because
the agreed keys, the openers and the payloads given only grow (`Kept`).

`IpcProofs` proves, for any number of processes, threads and connections, the
invariants of the `ipc` run: `TypeCorrect`, `AnswersAreOwn`,
`HandlerCallsStarve`, `NoLostWakeUp` and `OrderlyReconnect`. The invariant says
that every answer in a socket names the request it was computed for, that the
calls in progress of a client have distinct ids below `next_id_` and are pending
until they have an outcome, that the receive thread is in a call only while
it runs a push handler, and that a receive thread nobody will join belongs to a
lost connection. That `accept()` always finds a descriptor is a counting
argument: a connection that waits to be accepted has none.

`DeliveryProofs` proves, for any frames, devices and bounds, the invariants of
the delivery runs: `TypeCorrect`, `AcknowledgedWasReceived`,
`DeliveredIsNotLost`, `AddresseesOnly`, `CopiesAreOfOriginals` and
`RetriesAreBounded`. A row changes because a packet arrives, so the invariant
says what a packet under way proves about its past (`PacketInv`): a delivery
frame was addressed to its device, a copy comes from another device that stored
the frame, an acknowledgement from a device that has. A frame of class "store"
that was received is stored or taken, and has no expiry until it is taken
(`StoredInv`). These facts survive late and repeated packets because addresses
and receptions only grow (`Kept`). The refinement is then taken step by
step: each step of a daemon thread, the network or the clock is one step of
`Mailbox` or leaves its variables alone (`DeliveryIsMailbox`). `SettledForGood`
(`NoRevival`) and `KeptForClient` (`KeptUntilTaken`) then follow from what a
mailbox step may do.

`ClientProofs` proves, for any contacts, groups, passphrases and devices and all
bounds, the nine invariants of the `client` run: `ClientTypes`,
`PassphraseOpens`, `IdentitySurvives`, `RatchetKeysFresh`, `DevicesAgree`,
`CertsFresh`, `RowsPrecedeFrames`, `KicksRotate` and `KeysPrecedeConversations`.
The assumptions are those of `Client`: the lifetime of a Key C and the threshold
of its renewal are positive and the second is smaller, contacts are not groups,
and `None` is nothing else. A handler is a path of worlds and may be killed at
each of them, so the inductive invariant has two halves. Of every world on the
path it says (`Good`, `FramesOk`, `RowsOk`) that the database in memory and the
one in the file both have the Key A that was shown, the keys of every
conversation, sender keys no older than the last kick and one Key C for a
device, as a kill swaps the one for the other; that no file means that nothing
was shown or sent; and that rows and frames match. Only between two handlers it
says (`Steady`, `SendsOk`, `Opens`) that certs are fresh, that the ratchets are
past the keys used in this life of the process, that devices hold the Key C on
record, what a send in progress has read and may rely on, and which passphrase
and salt the file and the session go by. `DiesStep` covers every kill,
`PassedStep` every handler that ends; each handler is left with its path. The
numbers of messages are a maximum over the rows (`next_seq`), which exists by
the least-number principle (`LeastNat`, from the library's `WFMin`).

Every invariant and action property that a passing run checks is proved. Only
model-checked: liveness (`Settled`, `DisconnectReturns`), which is out of the
prover's reach.

## Not modelled

- Outbox: requests for siblings and auth certs, hints, status queries, and
  `handle_poll_ack`, whose frame nobody sends.
- Inbox: `handle_outbox_poll`, whose frame nobody sends to an Inbox; the
  contact-request rate limit, unreachable while `is_cr_guard` is constant
  (`inbox.cpp:149`); the list of known Outboxes, a constant here; queries.
- AnonRouter: guards, tunnels and TFT, whose tables nothing fills, so that no
  cell is relayed and a channel that is not direct carries nothing. The
  channels that `ensure_channel` opens are of that kind, and no daemon
  calls `channel.accept`; `Router` models these requests for any caller, and
  `Transport` what the daemons are written for. `ChannelManager::on_chan_open`
  has no caller. The DHT stub.
- Client, receiving: `on_inbox_message` runs in the push handler, and its first
  call to the Inbox therefore times out (`client.cpp:574`); what follows is not
  reached. The ratchet runs start from two initialised states and exchange
  whole `ratchet::Message`s. Message status: the Outbox only pushes
  "delivered".
- Client, sending: names, texts, read marks, roles, and the tables of members
  and channels, which no handler looks at or fills. The allowlist and the DHT
  records are refused by their receivers, which look for other parameter names.
  With both devices the instance is too large for TLC, so it runs the Outbox.
- Encodings: the definite CBOR maps of the delivery frame (`cert.cpp:278`) and
  of the ratchet envelope (`client.cpp:774`) are too small and drop their last
  entries. This is a static count and no behaviour; the models follow frames by
  identity.
- Command line, SQLite wrapper, DHT records (used by tests only) and
  cryptographic byte formats: no protocol of their own.

## Plan

`Client`: an instance with both devices.
