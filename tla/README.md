# A verification project for node-dlc

TLA+ models of the concurrent and failure-prone parts of node-dlc, the TLC runs
that check them on small instances, and TLAPS proofs of what matters most for
every value of the constants.

## 1. The system

node-dlc is a TypeScript monorepo (13 packages under `src/packages`) for
discreet log contracts: the DLC messages and transactions, a Lightning-style
encrypted peer-to-peer transport and gossip, block and transaction watchers, and
LevelDB stores.  Each process is single-threaded; all concurrency comes from the
event loop (timers, sockets, ZeroMQ, awaits of storage and RPC) and from the
peers and the chain at the other end.

| part | package | state | operations | hard behaviour |
|---|---|---|---|---|
| Noise handshake | noise | handshake hash, chaining key, temporary keys, handshake state | three acts, processed as bytes arrive | a wrong key or a damaged act must never reach READY |
| Noise transport | noise | chaining key, two traffic keys and nonces, read state | encrypt, decrypt, rotate, push, `_read` | rotations of the two directions interleave; back-pressure |
| Peer, PingPong | wire | peer state, reconnect timer, ping interval and timer | connect, disconnect, socket events, init exchange, ping/pong | timers racing disconnects, reconnects, data arriving in a burst |
| PeerServer | wire | a listening server | listen, accept | none beyond those of Peer |
| GossipRelay | wire | update queue, an index per peer, relay state | start, stop, addPeer, removePeer, enqueue, timer | indices into a queue that is reordered and pruned |
| GossipFilter, GossipMemoryStore | wire | announcements, updates, pending messages | validate and apply a gossip message across awaits | messages of several peers interleave at every await |
| GossipManager, GossipPeer, ChannelsQuery, ChannelRangeQuery, GossipSyncWatcher | wire | sync state, query state, queues | start, add peer, sync, message handlers, watcher timer | a peer that disappears or never answers during a sync |
| BlockWatcher, BlockDiffer, TxWatcher | chainmon | best hash, watched keys | start, stop, new block, diff | reorganisations, blocks missed while down, fetches answered out of order |
| ChainManager | messaging | the monitored transactions, block height, sync state | restore, validate funding, validate closing, update epochs | a crash between two saves, an RPC call that fails, a spend of another output |
| LevelDB stores | leveldb | records and secondary keys | save, find, delete | multi-key writes that are not atomic |
| DLC and order messages | messaging | message fields | serialize, deserialize, toJSON, fromJSON, validate | two hand-written layouts per class, older and newer formats, nested classes skipped by length |
| Lightning wire messages | wire | message fields | serialize, deserialize | TLV streams, unknown even types |
| Funding transactions | core/dlc | none | coin selection, fees, maximal collateral, building | estimates against real sizes, shares that are rounded |
| Payout curves and CETs | core/dlc | none | payouts, rounding, ranges, digit prefixes | rounding, zero and boundary values, loops whose progress depends on both |
| Financial contracts | core/dlc/finance | none | build a payout function from a strategy | precision of quotients |
| AsyncProcessingQueue | core | a queue, a count, a lock | enqueue, the processing loop, its events | re-entrancy from event listeners, failing tasks |
| bitcoind client, RetryPolicy, waitForSync | bitcoind | policy state | JSON-RPC, retries | retries of a call already done |
| Bitcoin primitives | bitcoin | scripts, transactions, time locks | parse, build, sign, evaluate the stack | boundary values of numbers and scripts |
| Lightning commitment secrets | core/lightning | 49 buckets | insert, derive | which secrets may be derived |
| bufio, checksum, common, crypto, logger | support | buffers | read, write | boundary values |

How they interact: a `Peer` reads from a `NoiseSocket`; `GossipManager` makes a
`GossipPeer` for each Peer that is ready, which passes its messages through a
`GossipFilter` over the shared stores and hands what comes out to the
`GossipRelay`; `ChainManager` works on the records that the DLC store holds, and
the DLC store files what the DLC messages serialize; the payout function inside a
DLC offer becomes the ranges that CETs are made for, the collaterals in it the
funding transaction.

## 2. Plan

The order is that of importance: first what everything else rests on (the
transport), then the components in which the event loop, the peers and the chain
interleave, then the messages and the arithmetic of a contract.

| step | module | models | composed with | status |
|---|---|---|---|---|
| 1 | `MessageStream` | abstract: two ordered, loss-free streams | implemented by `NoiseTransport` | done |
| 2 | `NoiseTransport` | `noise-state.ts`, `noise-socket.ts` after the handshake | `MessageStream` (refinement) | done, proved |
| 3 | `NoiseHandshake` | the three acts and the socket states that drive them | | done, proved |
| 4 | `PeerConnection` | `Peer.ts` with `PingPongState.ts` | | done, proved |
| 5 | `GossipRelay` | `GossipRelay.ts` | | done, proved |
| 6 | `ChainManager` | `ChainManager.ts` on the LevelDB record of a DLC | | done, proved |
| 7 | `GossipFilter` | `GossipFilter.ts`, `GossipMemoryStore.ts`, the filter's use by `GossipPeer.ts` | | done, proved |
| 8 | `GossipSync` | `GossipManager`, `GossipPeer`, `ChannelRangeQuery`, `ChannelsQuery`, `GossipQueriesSync` | an abstraction of `PeerConnection` | done, proved |
| 9 | `ChainTree`, `BlockDiff`, `BlockWatch` | `BlockDiffer.ts`, `BlockWatcher.ts` | with each other, in `MCChainWatch` | done, proved |
| 10 | `Layout`, `Codec`, `JsonForm`, `DlcMessages` | a message between instance, bytes and JSON | the five `...Layouts` modules | done |
| 11 | `DlcLayouts`, `ContractLayouts`, `OracleLayouts`, `OrderLayouts`, `WireLayouts` | what each class writes and reads | `MCDlcMessages` | done |
| 12 | `FundingTx` | `CoinSelect.ts`, `TxFinalizer.ts`, `TxBuilder.ts` | `DlcContract` | done, proved |
| 13 | `PayoutRanges`, `DigitPrefixes` | `CETCalculator.ts`, the payout curves | `DlcContract` | done, proved |
| 14 | `LevelStores` | the multi-key writes of the two LevelDB stores with crashes | | done, proved |

"Proved" means the safety properties the runs check; what fairness brings about stays
with TLC, and so do the messages, whose layouts are read by recursive operators.

## 3. What is modelled

Each model keeps every state change, guard, early return and error path of the
code it maps and abstracts the data.  An action is the code from one point where
other code may run (an await, the end of an event handler) to the next.  Where a
name of the source fits, the definition has it.

### NoiseTransport and MessageStream

State.  `ck`, `sk`, `sn`, `rk`, `rn` are the fields of `NoiseState` at each end;
`readState` is `_readState` of the socket; `buf` is the read buffer of the TCP
socket, `inbox` the read buffer of the Duplex stream, `reading` its internal
flag, `scheduled` stands for a pending call of `_onData`.  Cryptography is
symbolic: a chaining key is the history of the rotations mixed into it, a
traffic key is its direction and the chaining key that its last rotation
produced, a ciphertext opens under exactly the key and nonce it was sealed with.
`used` is a history variable.

Actions.  `Write` is `_write` with `encryptMessage`, both nonce increments and
the rotation; `ProcessPacketLength` and `ProcessPacketBody` are the two handlers
of the loop of `_onData`; `DecryptFails` its catch; `OnDataStops` its exit;
`ConsumerReads` a `read()` by the user with the `_read` it causes.  Ciphertexts
arrive whole but a frame may arrive in two pieces, which is what `_l` is for.
The abstract specification, `MessageStream`, says that what an end has received
is a prefix of what the other has sent; `InOrder` is the refinement.

### NoiseHandshake

State.  `hs` is `_handshakeState`, `rpk`, `repk`, `h`, `ck`, `sk`, `rk` the fields
of `NoiseState`; `wire` holds the act in flight.  A hash and a chaining key are
the sequences of what was mixed into them, a shared secret the pair of key names.
Actions.  One per handler (`InitiateHandshake`, `ProcessInitiator`,
`ProcessResponderReply`, `ProcessInitiatorReply`), the failure of each act
(`ActFails`, which destroys the socket), damage on the wire, and the loss of the
connection.  The initiator may dial a key that is not the responder's, its own
included.

### PeerConnection

State.  `state`, `isInitiator`, `backoff` (`_reconnectHandle`) of `Peer`; `live`,
`held`, `pongTimer`, `sentPing`, `heard`, `pings` of `PingPongState`, where `live`
counts the running intervals and `held` says that the handle is one of them; the
present socket and what waits in it; `reading` is the Readable's own flag, which
says whether a `read()` of the consumer calls `_read` again.  `wanted`, `pending`,
`revived`, `closed` and `readyFired` are history.  Actions.  `UserConnects` (connect
and attach), `UserDisconnects`, at any time there is a socket to disconnect, also
while it connects or after it has closed, `UserReconnects`, `SocketReady`, `SocketCloses`, `ReconnectTimer`; the loop of
`_onSocketReadable`, one message per step since nothing else runs in between but
what the message itself causes; `StreamReads`, the stream calling `_read` of its own
accord; `Tick...` and `PongTimedOut`.  A message is its kind, a ping that asks for no
pong and a type nobody knows among them; the negotiation of features and chains is
its outcome.

### GossipRelay

State.  `queue`, the keys of `_peers` in insertion order and their indices;
`ready` says which peers' connections are up.  Actions.  `EnqueueNew`,
`EnqueueNewer`, `Tick` (flush of every peer, then prune) and `TickThrows` (the
send to one peer throws: those before it are flushed, the rest of the tick is
lost), and the coming and going of peers.  `sendMessage` throws when the peer is not
ready, which cannot change inside the synchronous loop: it throws at the first
message of a peer or at none.

### ChainManager

State.  The chain (`tip`, `at`), the LevelDB records (`store`), the list read by
`start()` and the records it holds in memory, `blockHeight`, and the place in
`start()`.  Actions.  Each stretch of `start()` between two awaits: the restore of
the height, the look-ups of every unsettled DLC, the scan of blocks and
transactions with `updateFundEpoch` and `updateCloseEpoch`; mining at any time;
`Crash`, which loses everything but the store; failures of calls where the code
catches them.

### GossipFilter

State.  `ann`, `store` and `pending` are the gossip store and the pending store
that the filters of all peers share; `task[p]` is the validation in progress for
peer p (GossipPeer handles one message at a time) with what it has read so far.
Actions.  The stretches between awaits of the three validations, from the find
that starts a stretch's decision to the save that ends it; the queued messages
that an announcement releases are validated inside its validation, and an error
among them ends it.  `Err` includes what GossipPeer does with the error.
`Spend` and `RemoveChannel` are the chain and `GossipManager.removeChannel`.
Interleaving at every await over-approximates the memory store, where an await
only yields to what is already queued; with LevelDB and a chain client each await
is real I/O.  The store operations are atomic, as they are in the memory store.

### GossipSync

State.  A `Peer` object is a name, `count` numbers its connections, and a
GossipPeer is the pair of both, since a Peer that reconnects gets a second
GossipPeer while the first goes on reading.  `read` is `_readState`, `task` is
`_syncRangeTask` with the state of its two queries, `managed`, `sync` and `relay`
are fields of `GossipManager`; the stage "Aborted" is a ChannelsQuery that is left
Active with nobody waiting, since what it asked could not be sent; `wire` and `inbox` are the messages on their way
and in the Peer's stream.  `had`, `astray` and `hurt` are history: what was read,
whether a reply was read by another GossipPeer than the one it answers, and which
peers dropped or sent an unknown message.
Actions.  `BecomeReady`, `AddPeer`, `Drop`, `Close` on the side of the manager;
`ReadGossip`, `ReadReply`, `ReadUnknown`, `Filtered`, `Drain` for the loop of
`_onPeerReadable` between its awaits, the reply handlers of both queries with all
they send; `Timeout` is the GossipSyncWatcher.  The other side's replies are
enumerated: both styles of `reply_channel_range`, refusals, messages of a type
nobody knows.

### ChainTree, BlockDiff and BlockWatch

A tree of blocks is given by constants.  `BlockDiff` takes a turn of the loop of
`diff` as a step (headers do not change while it waits).  `BlockWatch` keeps the
whole BlockWatcher as one record: `received` and `next` are its two maps of
hashes, `pending` the fetches under way, `reported`, `orphans` and `skipped` are
history.  `Advance` moves the node's tip and publishes only the new one, or
nothing; `Deliver` is `_onRawBlock`, `Answer` and `Reject` a fetch that returns in
any order, each with the whole cascade of blocks it processes.  `MCChainWatch`
composes the two as a program uses them: a diff for what happened while it was
down, then `start` with the block it ends at.

### The messages

`Layout` names the parts a class is written with (a number of a width, counted or
framed bytes, a nested class, a vector, an option, a TLV stream); `Codec` says
what bytes such a layout writes and what it reads from them, and `JsonForm` the
same for JSON.  Bytes are a sequence of tokens, each a width and what is in it; a
field's content is one of none, some, odd (non-ASCII, above 2^53) and long (above 100
bytes, where `OracleAttestation` takes an event id for something else), which is all
the code distinguishes.  Only its other guess, a count of outcomes above 1000, is not
made.  The writer's and the reader's layout of a class are two
definitions, translated from `serialize` and `deserialize` separately, and so for
JSON: where the code writes one thing and reads another, so do the layouts.
`DlcMessages` moves one message between its forms, lets a newer version add TLVs
to it on the way, and lets the three factories guess its class.
`MCDlcMessages` makes the messages in styles: all fields alike; ordinary ones, as
the tests of the repository make them, with contents that differ from field to field;
ordinary ones but for one own field that is zero, odd, long or absent; and ordinary
ones with something unusual nested in them.  An assumption that TLC evaluates,
`EveryFieldMet`, sees to it that the excuses of the properties leave no field out: each
is set in some message that loses nothing, except the eight of `NeverInBytes` and
`NeverInJson`, which the code always loses.

### FundingTx, PayoutRanges, DigitPrefixes and DlcContract

`FundingTx` has the fee formulas with their divisions and ceilings, the
selection of coins, `calculateMaxCollateral`, and the values of
`buildFundingTransaction` with its tests.  What it takes (`TermsOK`): coins with a
positive value and native witness programs (no scriptSig to pay for), a positive
rate, at least one contract, scripts of 22 to 34 bytes
(P2WPKH to P2WSH and P2TR), and no accepter with inputs where the collateral is
maximal, the "single-funded scenario" `calculateMaxCollateral` is for
(`TxBuilder.ts:85`).  The stable `sort` of the selection is an order (`Before`) and a
coin's place in it; the loop that adds coins until they are enough is the shortest
prefix that is.  `PayoutRanges` takes a turn of each of
the two nested loops of `splitIntoRanges` as a step; points on a curve are
fractions, `Left20` stands for the 20 decimals that BigNumber keeps.  What it takes
(`ContractOK`): points with ascending outcomes and payouts of at most the collateral,
lines that go from point to point, hyperbolas with b = c = 0 and k = a * d above zero
wherever their poles are, and rounding intervals in the order in which they begin.
An end point of a hyperbola pays what the offer says, on the curve or not: a covered
call ends with nothing (`CoveredCall.ts:91`).
`DigitPrefixes` are the functions that group a range into prefixes, as operators;
the last outcome of a contract can be written with the digits of its oracle
(`DigitsAssumption`), as the builders see to (`LinearPayout.ts:15`).
`DlcContract` composes them: an offer is funded, and once its funding
transaction is built its payout function is split and signed by digit prefixes.

### LevelStores

State.  `db` is a map from keys to values; `running` holds, for each of two calls
at a time, the steps left and what was last read; a call is the sequence of its
puts, deletes and reads in the order of the code, each awaited.  `gone`, `torn`
and `astray` are history: what was deleted, what a crash cut, what two calls wrote
over.  Actions.  `Begin`, one action per kind of step, `Crash`, after which a
program makes the calls that were cut again.  An announcement is
saved plain or extended; an extended one is filed under the outpoint that funds the
channel as well, between its record and the lists of its nodes, and
`deleteChannelAnnouncement` leaves that key where it is.  What such a key leads to is
therefore the record of a channel with this outpoint, or one that was deleted.  The
values of records are their keys; that a record's bytes are the record is the business of `DlcMessages`.
Two assumptions on what is stored: the output that funds a contract funds no
other (`ContractAssumption`), and the accepts of a batch spend the same inputs
(`WorkloadAssumption`), which `BatchDlcTxBuilder.ensureSameFundingInputs`
(`TxBuilder.ts:278`) insists on before there are transactions to save.

## 4. What the runs show

| run | instance | distinct states | question |
|---|---|---|---|
| `noise_transport` | 4 and 2 messages, rotation after 3 uses, buffer of 2 | 25,882 | does a pair of sockets keep order, never reuse a nonce, and stay in step until rotations cross |
| `noise_handshake` | 4 dialable keys, one act damaged in any of its parts | 122 | who may be READY with whom |
| `peer` | both roles, all kinds of message, 3 messages per connection, disconnect() at any time | 192,239 | timers, readiness and wake-ups over any number of connections; is disconnect() final |
| `relay` | 2 peers, one whose connection drops, queue of 2 | 125,420 | is every message sent once, in order, to all |
| `gossip_filter` | 2 peers, 1 channel, 2 nodes, 9 messages, 4 received | 1,732,296 | what do interleaved validations leave in the stores |
| `gossip_sync` | 2 peers, one of which may reconnect, 2 channels asked for one at a time | 523,976 | what does Synced mean, and does a synchronisation end |
| `chain_manager` | 2 DLCs, 3 blocks, crashes and failing calls | 330,032 | is what is recorded true, and is a close found |
| `chain_watch` | 7 blocks in two branches, any two blocks diffed, 3 fetches out of order | 57,373 | is a fork told, a spend reported, a diff right |
| `dlc_messages` | every class in the styles of section 3, 975 messages, 2 added TLVs | 17,370 | does a message arrive as it was made |
| `dlc_contract` | 22,796 sets of terms, 17,230 payout functions, 3 digits to base 3 | 210,974 | does the funding transaction balance, and has every outcome its payout and its signature |
| `dlc_contract_steep` | lines that rise by two roundings an outcome | violation | is the payout function evaluated |
| `level_stores` | any 3 calls of 13 on contracts or 12 on channels, two at a time, 1 crash | 1,472,748 | do keys lead to records and records have their keys |

Bounds.  `RotateAt = 3` puts a rotation before, inside and after a frame (a frame
uses two nonces), and four messages make each direction that writes them rotate
more than once; the code's 1000 only repeats this.  A buffer of two makes
back-pressure start and stop.  Three messages per connection suffice for an init,
a second init or a bad one, and a message after it; the connections themselves
are not bounded.  The relay's queue of two is pruned and refilled at every second
message.  Three blocks hold a funding, a close and one block in between in every
order.  Four gossip messages are an announcement with its two updates and one
more to interleave with; two validations are what a race needs.  A chunk of one
makes two channels two chunks, and one reconnection the twins.  In the tree of
blocks one branch is longer by one, both are longer than one block after the
fork, and a gap of two can be missed.  Payouts up to 4 over up to 11 outcomes with
roundings up to 4 give every relation of slope to rounding, intervals that begin
at, before and after a step, and bounds of ranges at both ends of a digit.  Hyperbolas
have their pole at the first outcome, before it or after it, and end on the curve or off it.
Wallets of up to three coins hold coins that cost more than they bring and coins
that suffice by a satoshi.  Three store calls are two that interleave and one
that follows.  Two of the three channels have the same outpoint, so that its key
passes from one to the other.  No run is symmetric-reduced.

Some shapes of input are excused by name in a property, because the code does not
provide for them; each name is a definition with its condition (`Awkward` and its
parts in `PayoutRanges`, `SetBack` in `DlcContract`, `Unfunded` in `FundingTx`, `LosesInBytes` and
`LosesInJson` in `DlcMessages`, `Overrun` and `astray` in `LevelStores`, `astray`
and `hurt` in `GossipSync`, the higher prior block in `BlockDiff`).  Every excuse
is needed: without it the run finds a counterexample.

Deadlock is checked except where the system may rightly stop: the transport,
when all is delivered; the handshake, when it is done; the peer, after
`disconnect()`; the filter, when no more messages are sent; the synchronisation,
the watcher, a message, a contract and the calls of a store, when they are done.

### Fairness

Only what the event loop or the operating system does of its own accord is fair:
data in flight arrives, a scheduled callback runs, an interval fires, a socket
that was ended closes (by the remote or by TCP's timeout), an awaited RPC call
returns or fails, and a consumer that was told of data reads it.  Users, remote
peers, miners, crashes and failures are never fair.  In `relay` the tick is fair
whether or not it throws.  In `gossip_sync` a GossipPeer reads, its watcher
fires, and what an other side that stays connected has sent arrives; that it
answers a query at all is an assumption, since the code has no timer for one: a
peer that keeps silent keeps the manager Syncing.  What it answers, a refusal
included, and whether it drops, is open.  In `dlc_contract` the loops go on.  `StartCompletes`, `Reaches`,
`SilenceNoticed`, `NothingStuck`, `DeliveredUnlessCrossed`, `Completes`,
`SyncEnds`, `InboxRead`, `Reported` and `LoopsEnd` rest on this.

### Where the code and its documentation differ

`dlc_contract_steep` shows the first of the following as a run; the others are
behaviour of the models that the properties excuse or allow, described here with
the line where the code does it.

Transport and peers.  Both directions rotate through one chaining key, so two
ends whose traffic crosses around a rotation derive different keys
(`noise-state.ts:466`; `InStepUntilCrossed` ends there).  `disconnect()` while the
connection is being made is overwritten when the handshake completes
(`Peer.ts:238`), and the timer of a reconnection that is pending is not cleared
(`Peer.ts:288`); `DisconnectIsFinal` names these two steps and allows no other.  A
message of a type nobody knows is pushed all the same, as undefined, since
`_processMessage` returns nothing for it and the caller pushes what it returns.  An
accepted
peer whose connection drops is neither reconnected nor reported closed; after a
bad init the loop goes on and pushes what follows; a first message that is not an
init leaves the state waiting for one on a socket that was ended; the ping timer
may call `sendMessage` between `disconnect()` and the close, which throws; pings of
an earlier connection count towards the flood limit.

Gossip.  A newer update that replaces a flushed one lands behind the peers'
indices and is not sent (`GossipRelay.ts:193`).  A message that the filter refused
is handed to the relay all the same (`GossipPeer.ts:205`).  One bad queued update
ends the processing of an announcement and strands the queued messages after it;
removing a channel from the memory store leaves its update of direction 1.  After
a reconnection two GossipPeers read from one Peer and take each other's replies,
so that the manager is Synced with channels missing or stays Syncing
(`GossipManager.ts:229`); a first peer without gossip_queries makes it Synced
without a synchronisation; one peer that is not ready makes `enableGossip` throw
and the manager forget a synchronisation that succeeded; a failed query is kept
as the task and asks for its next chunk in any state (`ChannelsQuery.ts:67`); one
whose first message could not be sent is left Active without the callbacks it has yet
to set, so that an end that arrives throws (`ChannelsQuery.ts:98`); a message of an unknown type reads as undefined and ends the loop with messages
left.

Chain.  The height to resume from is the highest epoch of any DLC
(`ChainManager.ts:164`), so that the close of another one below it is never found;
a record read with its first CET only is written back, and its execution by
another CET is then recorded as a mutual close (`leveldb-dlc-store.ts:477`).  A
script watched with a value is never reported, since two Value objects are
compared with `===` (`BlockWatcher.ts:91`); a listener that throws hides the rest of
its transaction; the fetches double with every missed block, and blocks come to
be processed twice and reported as orphans of themselves; a block that does not
descend from the first one has its ancestors fetched down to the genesis block,
whose parent is asked for and not found, unhandled.  `diff` walks past the common
ancestor whenever the block last seen is the higher one (`BlockDiffer.ts:64`).

Messages.  The negotiation fields of an accept are written bare and read as a
TLV; the exception is swallowed, and the fields, the batch groups and unknown TLVs
are lost (`DlcAccept.ts:246`).  `MultiOracleInfo` writes neither type nor length;
lengths of texts are counted in characters; the factories never find the classes
whose type is a bigsize; `deserialize` of an accept without its CETs does not skip
them.  Disjoint negotiation fields inside disjoint ones are written and refused when
they are read (`NegotiationFields.ts:196`); an event id above 100 bytes makes an
attestation read as one of the older format (`OracleAttestation.ts:62`); the fields of
an `OrderPositionInfo` without an instrument's name, and `htlcMaximumMsat` of a channel
update without its message flag, are not written.  In JSON a zero becomes the default (a sequence of 0, a base of 0), contract
flags other than zero and empty scripts throw, numbers above 2^53 are rounded in
some classes, and an order's negotiation fields stay a plain object.  The full
list is `LosesInBytes` and `LosesInJson`.

Contracts.  A curve with more than one rounding step from an outcome to the next
leaves outcomes without a CET (`CETCalculator.ts:401`; `Steep`).  A rising curve whose
first rounded payout reaches the end payout makes the outer loop start over for ever
(`Misjudged`); a rounding step at the outcome where an interval begins leaves a hole
(`ChangesAtBegin`); an interval that begins inside a piece when none has begun before
is passed over, since only an interval that was found has a next one
(`CETCalculator.ts:270`; `PassedOver`).  A rounded payout that changes with the last
outcome to another than that of the end point gives an empty range, whose prefixes
match outcomes far outside it (`Ragged`).  The inverse of a hyperbola answers with an
outcome before its pole when it is asked for a payout the curve never falls to
(`HyperbolaPayoutCurve.ts:69`), and the outer loop is set back to it (`NeverThere`,
`NeverThatLow`).  An accepter with a collateral and no inputs passes, and
the outputs exceed the inputs (`TxBuilder.ts:233`); fees are estimated for scripts
of 22 bytes, so that a maximal collateral cannot be funded with longer ones.

Stores.  After a crash cut `saveDlcAccept` and the offer was deleted, the call
made again writes nothing; a batch whose accepts have several inputs files
outpoints under other contracts, and with as many inputs as accepts, a batch of
one included, it throws halfway (`leveldb-dlc-store.ts:310`); deletes leave secondary
keys behind, among them the outpoint of a channel (`leveldb-gossip-store.ts:222`); a
crash between the record of an announcement and that key leaves a channel that
`findChannelAnnouncementByOutpoint` does not find until it is saved again
(`leveldb-gossip-store.ts:175`); an accept
that spends the fund output of another contract hides the transactions of that
contract; of two calls that change the channels of one node at once, one is lost.

## 5. What is proved

All theorems hold for every value of the constants under the assumptions named in
the modules: key names that differ and are not the word that stands for junk, a
rotation threshold of at least one, a high-water mark of at least one, message
types, and for the chain that the constants describe DLCs and transactions of the
modelled kinds.

- **NoiseTransportProofs.**  `TypeCorrect` needs that no traffic key is younger
  than the chaining key it will be mixed into (`KeysBehindCk`).  `NonceFreshness`
  adds that every pair used so far lies behind the present key and nonce
  (`UsedBehind`), an order that `Advance` only climbs.  `WakeupsNotLost` adds
  that a blocked socket has an unread message (`BlockedWakes`).  `StreamsInOrder`
  is the refinement: every ciphertext has a position in the stream towards its
  reader, the frame of message n takes the positions 2n-1 and 2n, and what has been
  decrypted, buffered and is in flight are consecutive (`Frames`); a read by the
  consumer is then the abstract `Receive`, every other step but `Write` a stutter.
  `InStep` rests on a chain: each ciphertext in transit was sealed one advance after
  the one before, the first with the receiver's key and the last one advance before
  the sender's (`AllLinked`).  An advance is a function of key and nonce alone only
  while the end's chaining key is the history of that key, which holds as long as
  one direction rotates (`KeysAligned`).
- **ConnectionProofs, the handshake.**  In each pair of handshake states the hash, the
  chaining key and the act in flight are fixed terms (`HandshakeInv`); mixing is
  injective, so an act that opens is the act that was sealed (`Act1Genuine`,
  `Act2Genuine`, `Act3Genuine`), and one that opens at the responder was sealed by
  someone who dialled its key.  `DialledKeyOnly` and `Agreement` follow.
- **ConnectionProofs, the peer.**  The invariant ties the ping interval and the socket
  to `state`: no interval while an init is awaited, so that starting one leaves
  one; no socket while a reconnection is scheduled.  From it follow
  `OnePingerAlways`, `QuietWithoutConnection`, `ReadyOnlyNow`; and, where all peers
  dial, that none is ever stranded.  `DisconnectFinal` has no assumption on when
  `disconnect()` is called: once it was, the state is that of a peer that is leaving
  (`Parting`), unless a reconnection was pending or a handshake completed since, and
  only a state other than that schedules a reconnection.
- **GossipRelayProofs.**  Indices stay in range through replacement and pruning,
  the queue holds one message per key, and what lies above a peer's index is not
  what it was sent (`NeverResent`).  `OnlyReplacementsSkip` goes through the other
  steps one by one: each keeps what lies below an index among what the peer was
  sent or found there when it joined.
- **ChainManagerProofs.**  The invariant says that the copies in memory agree
  with the store, that nothing is above the tip, and that a close that this
  `start()` must find is still ahead of it.  It gives `WhatIsRecordedIsTrue`,
  `NothingAboveIsMissed` and `SettledForever`, through any crash.
- **GossipFilterProofs.**  The invariant (`Sound`, `Filed`) says what a validation
  may hold at each place and that stores hold messages under their own key.
  `OnlySignedStored` is part of it; `StoreNeverOlder` and `ClosedForGood` are
  action properties proved from it, the latter with the notion of a validation
  that is free of the closed channel (`Free`).  `QueuedNotForgotten` adds that a
  validation has looked up no related message before its announcement is saved
  (`Fresh`); then what is saved comes to every message that waits for it, and no
  step but a bad signature takes one off its way (`StillLooks`).
- **GossipSyncProofs.**  The invariant adds to `AllEnabled` that every connected
  Peer that was added has a GossipPeer among those managed (`AllManaged`) and has
  been counted: enabling "all peers" passes none over, whichever of them threw,
  and one that becomes ready later is enabled then (`EveryPeerEnabled`).
  `NothingMissing` is `SyncedHasAll`, which alone says nothing of how a
  synchronisation gets there.  `SyncInv` says it at every moment, as long as no
  reply was read by another GossipPeer than the one it answers.  While the range
  is awaited, what has come and what is still in the stream or on the wire make
  up all channels, in order, up to the reply that completes the range
  (`RangesCover`).  From then on a channel has been read, or is announced before
  the end that is under way, or is still in the queue of the query
  (`EndsCover`); when messages are awaited the first two are all there is.
  This needs that one synchronisation runs at a time (`OneAwaits`), that one end
  is under way at most (`OneEnd`), that no message is for a connection that is yet
  to be made (`Recent`), and that the GossipPeer of an earlier connection has
  nothing left to wait for (`EarlierDone`).  `ScidsAssumption`, that there is a
  channel to announce, only fixes the form of the replies: an empty range is one of them.
- **ContractProofs.**  The chain watch, the stores and what is common to them: that
  sets of naturals have a least member, from which induction over numbers
  follows (`Least`, `Induct`).
  `DiffFindsTheFork` rests on the blocks below both headers staying those below the
  two `diff` was called with, plus what was taken (`DiffInv`), and on facts about
  trees given by parents and heights, such as that what lies below is lower
  (`LowerDown`).  `EveryForkTold` needs that of the blocks on top of the same one
  the first stays in the map of successors, and that for each of the others there
  has been an event with that first one (`Forks`), through any number of fetches in
  any order.
  `StoresIndexHasRecord` and `StoresRecordIsIndexed` follow from `StoresInv`.  Its
  first part is about the calls alone: in the steps of every call a record is put
  before the keys that lead to it and a list is read before it is put
  (`CallsMade`, for batches of any size and any number of inputs).  The invariant
  then says of every task what it will still put; a key that leads to a record was
  put after it, so that the record is there or was deleted (`KeysBacked`); a key of
  a saved record is there, or to be put by a call that nothing stops any more
  (`Found`); and how far a call that saves or deletes a channel has come with each
  of the two lists (`SavingOK`, `DeletingOK`), so that a saved channel is missing
  from one only while a task is at it or where two wrote over each other.  The key of an
  outpoint leads to the last channel saved with it, whose record was put first.  None of this can be seen from the database alone, since
  a crash leaves it between any two steps.
  `FundingBalances` is about sums: `SumOf` is a fold over a set, whose members are
  taken in some order; it follows that order's recursion (`SumIs`), from which
  induction over the subsets of a finite set (`SetInduct`) makes it additive,
  monotonic, and what it is for a constant.  The invariant (`FundingInv`) gives
  every variable as a function of the terms.  The fees split into what scripts cost
  and the rest (`FeesAre`), so that a longer script costs just so much more
  (`LongerScript`); what goes to the miner is, for each party, what it reckoned
  with, plus change too small to pay out, less the rounding of its shares, which is
  between 0 and one satoshi a contract less than all of them (`MinerFeeIs`).
  `FundingSelectionWorks` needs besides that a sum does not depend on how its
  summands are indexed (`SumMoved`).  That no coins are worth more than as many of
  the best is an exchange argument (`BestAre`): each coin outside the best scores no
  more than some threshold, each of the best no less.  Sizes are rounded up coin by
  coin in a score and once in a fee (`CoinSums`, `AsGood`), which is why `WouldDo`
  sets a vbyte aside for each coin whose size is rounded.  What is selected is then
  enough since the 68 vbytes set aside for a change input pay for 12 more bytes of
  script, for up to four contracts.  Both rest on `OffersAssumption`, that terms
  are as above.

- **PayoutProofs.**  What a contract pays, for every payout function and rounding,
  base and number of digits; `Awkward` names the shapes it does not hold for.
  *Merging.*  Ranges tile a stretch of outcomes when they follow each other and each
  pays what every outcome in it is owed (`Tiles`); they cover it when they do so once
  they are merged (`Covers`).  What is covered grows when a range is added that goes on
  where it ends or shares its end (`CoversOn`), or two that pay the same, of which the
  first is empty (`CoversTwo`): this is all that the loops add.  *Curves.*  A curve
  rises or falls throughout, so that where it is past some payout it stays past it
  (`Past`, `StaysPast`).  Its inverse rounds: of the outcomes before the one it answers
  with none is past the payout, and all those after are; of the one itself either may
  be so (`OutcomeIs`), also where the 20 decimals of a quotient end on the wrong side of
  an exact half.  The correction in the code decides it (`LastBeforeIs`).  *Legs.*  From one
  outcome to the next the rounded payout changes by at most one rounding, at the edge
  between two (`Edge`); so one turn of the inner loop finds the stretch that is paid
  the same (`OnLeg`).  *The invariant* (`SplitInv`) says that between two turns the
  ranges of the pieces before cover what lies before this one (`Begun`), that those of
  the piece cover it up to the outcome the outer loop (`TakenUp`) or the inner one
  (`Walked`) is at, and that the outcomes taken up lie behind; when the loops are
  done the ranges tile all outcomes (`Finished`).  It gives `ContractPaidAsDrawn` and
  `ContractNotSetBack`.  *Digits.*  An outcome is less than another when the first
  digit they differ in is (`Less`); the groups at the front are what is not below the
  start with its prefix, those at the back what is not above the end, and together
  with the middle ones they are prefixes of just the outcomes in between, one of each
  (`Exact`, `GroupExact`).  Since the ranges tile the outcomes, `ContractOnePrefix`
  follows.  Besides `OffersAssumption`, that contracts are as above, only the digits
  need an assumption (`DigitsAssumption`).

Only model-checked: everything temporal that rests on fairness (the provers do
not do liveness), `LoopsEnd` among it, of which `ContractNotSetBack` is the part that
is proved; and all of the messages, `KeptInBytes`, `UnknownKept` and `KeptInJson`,
whose layouts are interpreted by RECURSIVE operators (what a recursive definition
computes for every input needs induction over data).

## 6. What is not modelled

- Scripts, transactions and other Bitcoin primitives, cryptographic primitives,
  checksums, logging, and the command-line tool: no behaviour beyond input and
  output.
- `validate()` of the messages and their hashes: a conjunction of tests on one
  message, without state.  Signatures of gossip are an outcome in `GossipFilter`.
- The financial builders: closed arithmetic whose result is one of the payout
  functions that `PayoutRanges` takes.
- Hyperbolas with b or c other than zero, whose payouts are square roots that
  TLC's integers cannot follow; curves of more than two points are refused by
  `PolynomialPayoutCurve` itself.
- `AsyncProcessingQueue`, `Queue`, `LinkedList`: nothing in the repository imports
  them.  Their own hazards are an item that a listener of 'flushed' enqueues, which
  waits for the next enqueue, an 'error' without a listener, which leaves the lock
  held, and the bounds of `LinkedList.remove`.
- `RetryPolicy`, `waitForSync` and the JSON-RPC client: retries happen inside one
  call that the models let fail or return.
- The Lightning commitment secrets and scripts, which no other package uses.
- `TxWatcher`, which is the transaction part of `BlockWatcher`; `PeerServer`, which
  hands sockets to `Peer.attach`.
- In the stores: calls that put or delete a single key, the iterations over all
  records, `incrementDlcInfoValues` (an unguarded read-modify-write of counters).
- The broadcast heights of ChainManager's records, which nothing reads;
  half-closed noise sockets; reorganisations in ChainManager, which has no code
  for them; the closing transaction and serial ids in `FundingTx`.
