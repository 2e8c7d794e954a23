# TLA+ verification of the Axelar TON relayer

Specifications, model-checking runs and machine-checked proofs of the relayer that
connects TON with the Axelar network. Line numbers refer to the source in `src/`.

## 1. The system

The relayer is a set of processes that share PostgreSQL, Redis and RabbitMQ. What is
generic in a relayer (queues, the GMP API, the polling loop) comes from the crate
`relayer_core`, which is not in this repository. The TON part consists of:

| Component | State it keeps | Operations | Hard behaviour |
|---|---|---|---|
| Query ids (`high_load_query_id*.rs`, `models/ton_wallet_query_id.rs`) | a row per wallet: last id and `expires_at` | `next`, with or without a forced shift; three SQL statements | the id space ends, the row expires on one clock and the contract forgets ids on another |
| Wallet pool (`wallet_manager.rs`, `lock_manager.rs`) | a Redis key per wallet, with an expiry | `acquire`, `release` | workers interleave, a key outlives a crashed worker and may die before a slow one |
| Broadcaster (`broadcaster.rs`, `ton_wallet_high_load_v3.rs`, `client.rs`) | none between tasks | three broadcast functions over `send_to_chain` | awaits between reading and writing an id, two layers of retries, lost answers, several exits with a wallet in hand |
| Subscriber (`subscriber.rs`, `retry_subscriber.rs`, `models/ton_trace.rs`, `bin/ton_subscriber.rs`) | a cursor per account in memory and in the database, the table `ton_traces` | `poll_account` of two kinds of pollers | pollers read snapshots of one trace and write them in another order, failures and restarts between two writes |
| Trace parser (`transaction_parser/`) | none between traces | `parse_trace` with fourteen parsers | events are paired by key and by order; one error discards a trace |
| Ingestor (`ingestor.rs`) | event summaries in `ton_traces` | `handle_transaction` | redelivery of a trace after a failure |
| Gas calculator, gas estimator | none | `calc_message_gas`, `calc_message_gas_native_gas_refunded`, affine estimates | signed balances over several accounts, clamped at zero |
| Encoders and decoders (`boc/`, `out_action.rs`) | none | serialise and parse cells | strings cut at the boundaries of cells, numbers that lose leading zeros, layouts told apart only by whether they decode |
| Includer, refund manager, distributor, heartbeat, account checker | none, or owned by `relayer_core` | wiring, stubs, monitoring reads | none of their own |

How they interact. The Subscriber reads traces from the indexer (Toncenter) and puts the
complete ones in a queue; the Ingestor parses each into events for the GMP API. In the other
direction the Distributor puts tasks in a queue; the Includer's workers take them and call the
Broadcaster, which acquires a wallet from the pool, takes a query id for it, posts a message
to the API and releases the wallet. The message becomes a trace that the Subscriber sees later.

What makes each part correct:

* query ids: no id twice while the contract remembers it; a wallet never stays unusable;
* wallet pool: a wallet belongs to one worker at a time, and comes back whatever happens;
* Broadcaster: what is reported as sent is executed, nothing is executed twice, every task is
  reported and gives its wallet back;
* Subscriber: every trace that completes is published, once, and no trace is skipped;
* trace parser: every call, payment and ITS log is reported once, under the right message, and
  charged what it cost the relayer's accounts;
* Ingestor: a trace is reported whole or not at all, and its row agrees with what was reported;
* encoders and decoders: what is decoded is what was written.

`PROJECT.json` lists the hazards at the lines where they bite, with the properties for each.

## 2. Modules

    HighLoadQueryId            arithmetic of ids
      QueryIdWrapper           next() and the SQL statements on one row
        QueryIdProofs          lemmas on next() and on rows
        HighloadContract       the wallet contract's memory (external)
          SendToChain          one wallet, over any number of epochs
            SendToChainProofs
    SendRetries                retries_left                  (used by SendToChain, Broadcaster)
    WalletManager              wallets, Redis keys, workers
      MCWalletManager          + its refinement of ExclusivePool, the abstract pool
      WalletManagerProofs      the pool's invariants and the refinement
    Broadcaster                = WalletManager + HighloadContract + SendRetries
      MCBroadcaster
      BroadcasterProofs        uses WalletManagerProofs and QueryIdProofs
    TraceSubscriber            pollers and tables
      MCTraceSubscriber
      TraceSubscriberProofs
    GasCalculator              what a trace cost our accounts
      TraceParser              one trace to its events
        MCTraceParser
        TraceParserProofs      the parser and the sums of GasCalculator
        Ingestor               = TraceParser + queue, row and GMP API
          MCIngestor
          IngestorProofs       uses TraceParserProofs
    Cells                      bits, references, chains of cells
      BocMessages              the messages written and read
        MCBocMessages
        BocProofs              the codecs of Cells and every layout
    GasEstimator               required gas                  (used by Broadcaster)

A definition of the form `X...` that is commented as "Mutant" is a faulty variant of the
definition that follows it. No specification uses it; it serves to show that a property
notices the fault.

### HighLoadQueryId, QueryIdWrapper, HighloadContract, SendToChain

`HighLoadQueryId` keeps the code's names. An id is a pair of a shift and a bit number,
and `query_id` is its integer value. The three slightly different limits of the id space
(`has_next`, `EmergencyOverload`, `ShiftOverflow`) are kept as they are.

`QueryIdWrapper` models `HighLoadQueryIdDbWrapper::next` as operators on a row. Instead of
`expires_at` a row has `ttl`, the time left, so that behaviours of any length have finitely
many states; `Expired` (-1) is every time after the expiry, and also the lack of a row, which
`get_query_id` cannot tell from it. `Store` is `upsert_query_id` for the id 0 (it sets
the expiry) and `update_query_id` for every other one (it does not).

`HighloadContract` is the contract's replay protection, taken from the code quoted in
`high_load_query_id_db_wrapper.rs:1-18`. `age` is the time since `last_clean_time`; beyond
2 * Timeout all ages behave alike, hence the cap `OldAge`.

`SendToChain` is `send_to_chain` on a single wallet with its lock held, message after message
forever. `Allot` is a whole `next()`: under the lock its statements do not interleave with
another caller. A refused id leads to the retry with a forced shift (`PostRejected`,
`NextRetries`). `PostDelay` bounds the time between storing an id and the block that gets it (an
HTTP request lies in between); a post may take any time up to it. The history variable `late` is
the delay with which an id 0 was last accepted.

### WalletManager and ExclusivePool

A worker is `idle`, `acquiring` (it tries wallets in any order; `tried` is what it has been
through) or `holding`. `LockGranted` and `LockRefused` are SET NX EX as Redis executes it;
`LockError` is a failed call, after which the key may be set although the worker was
told otherwise. `Release` is DEL: the key has no owner, so it deletes whatever is there.
`Crash` forgets everything but the key. `lock[w]` is the time the key has left.

`HoldLimit` bounds the time a worker keeps a wallet. The code has no such bound. It is a
parameter so that both answers can be shown: below the key's lifetime the pool is exclusive
(checked and proved), at it it is not (`broadcaster_long_hold`).

`ExclusivePool` states the promise: a wallet is free, someone's, or orphaned, and changes
hands only by way of being free. `ImplementsPool` is the refinement.

### Broadcaster

Composes the pool's actions with the rest of a worker's state; every `await` is a point where
other workers, the chain and the clock interleave. `pc` names the awaits: building the message,
reading the row, writing the row, the POST, its answer, the release. The three broadcast
functions differ in their early checks (`Refused`), in what is built before the wallet is
acquired (`Acquired`), and in what they report (`Report`: the refund path answers `Ok` to an
error of `send_to_chain`). HTTP retries of one request (`Resend`) and retries of the message
under another id (`Retry`) are separate, as in the code. The includer builds the client with five HTTP
retries (`includer.rs:42`); `HTTP_RETRIES` is a parameter, 2 in `broadcaster` and any number in the theorems.
The history variable `lost` counts, for each task, the accepted requests whose answer did not arrive.

The API checks a message against the wallet's state and keeps it in `mempool`; `Execute` is
the block that contains it. A tick is longer than the time to a block (`Tick` waits for
an empty mempool). A message's payload is the task it belongs to. Tasks that do not decode are
refused like those whose gas is below the estimate (`RequiredGas`, from `GasEstimator`); the
instance has the latter, one unit below it, next to tasks that bring exactly the estimate. `ForeignId` are ids
that another deployment of the same wallets may have used, the case the forced shift is for.

`overran` records that a row expired while a worker had an id from it that it had not posted for
good (`HasId`). `next()` reads the row in one statement and writes it in another, and the POST comes
later still. If the row expires in between, the id belongs to an epoch that is over, the next
worker starts again at the first id, and may reach the same id before a block has dealt with the
late one. Whichever comes second is then refused although it was reported as sent. The attempt to
prove `SentIsExecuted` showed this case (it takes more tasks than a small instance has), hence the
condition `~overran` in `SentIsExecuted` and `DistinctInFlight`. It is a limit of the code rather than a
contradiction to its documentation: a row lives for three timeouts of the wallet, a call for seconds.

### TraceSubscriber

One poller per watched account and the retry poller. `poll_account` is split at its awaits:
the answer of the indexer (`Fetch`; the in-memory cursor moves here), the store of the cursor
(`StoreHeight`), one upsert after the other (`Upsert`), the return (`EndLoop`), then the
publishing loop of `relayer_core` (`Publish`, external). The retry poller reads candidates
(`FetchRetry`), asks the indexer (`FetchAsked`), and either counts down (`DecreaseRetry`) or
upserts. A trace is its stage and its `end_lt`; what an upsert compares (the transactions
and whether the trace is incomplete) changes exactly when these do. A new trace's `end_lt`
is beyond that of all traces shown before; when a trace completes only its own `end_lt` grows.
`Pages` are the answers the indexer may give: the request names no sort order, so
an answer that is cut may hold any traces.

### TraceParser

`create_parsers` as one action per kind of result (`AddCallContract`, `AddGasPaid`, `AddITS`,
`AddOther`, `AddNothing`, `ParseFails`), then the loops of `parse_trace`: calls with their
credits (`EmitCall`), ITS logs (`EmitITS`), the others (`EmitOther`), and costs (`AddCost`,
`ConvertCredit`). Each parser's `check_match` is an operator of its own name; `Kind` tries them
in the code's order. A message body is a record whose `form` names the layout it decodes as,
a transaction is named by its position. The prices are inputs, constant over the deliveries of a trace;
amounts are natural numbers, so an overflow of the decimals in `convert_jetton_to_native` does not occur
(`ConvertFails` is the missing price). The type invariant says that no amount and no cost is ever negative,
which for costs is the clamp at zero before the cast to `u64`.

`GasCalculator` computes the costs from fees, forwarding fees and values of the messages. The code
keeps a balance per account and adds them up; since only the sum is used, `cost` is a sum over the
transactions and, in each, over its messages. Fees are natural numbers, the values of messages
are integers (the code reads them as `i128`); `IsTransaction` says so. The reference `BalanceLoss` goes
account by account instead and counts transfers between our own accounts on both sides.

### Ingestor

`handle_transaction` around the parser: `Receive` starts `parse_trace` with nothing collected,
`Parse` is a step of TraceParser, then the summaries are written to the row (`StoreSummaries`,
`SkipUpdate` when there are none) and the events are returned. The queue and the GMP API belong to
`relayer_core`: a trace may be published more than once, a delivery that ends in an error or a crash
goes back to the end of the queue, and a failed post, like a failed update, may have taken effect.
One worker is modelled: workers share only the rows, each update replaces a whole row by what the
trace itself determines (proved, section 4), so two of them cannot disturb each other. The other four handlers
only return an error. `Malformed` reads off the trace what must keep it from being reported: a
message that a parser has matched and that does not decode, or more ITS logs than calls. The type
invariant bounds what is in flight: the queue and the delivery in hand together are at most what
was published, and a row has at most one event for each transaction and one for the trace.

### Cells and BocMessages

`Cells` has what the code uses of tonlib (external: bits, references, addresses, coins, loads that
fail at the end of a cell) and the two conversions of the repository, `buffer_to_cell` and
`cell_to_buffer`. In `BocMessages` a decoder is a layout, the sequence of loads that `from_boc_b64`
makes in the code's order, with the checks on the values. `Walk` carries a position (bits, references and
the fields so far) through the loads; the first that fails is the decoder's error. What a contract writes (`LogCell`) is
external and written down separately, bits and references each in their order, so that
reading it with the wrong layout, width or order shows. Conversions are modelled by what they do to the
bytes: `to_bytes_be` drops leading zero bytes, an address formatted with `to_str_radix(16)`
parses only if its first digit is not zero (`ParsesAsAddress`), and `.data()` reads one cell of a
chain (`Data`). TraceParser takes from this that a body decodes as its own kind and no other
(`JettonsToldApart` is the case in which the code depends on it).

Two assumptions say what the messages are, and nothing of their values. `RelayerAssumption` is about what
the relayer and the prover write: hashes of 32 bytes, addresses of 33, coins of at most 15 bytes, ASCII strings and
payloads that fit a chain of 1024 cells of 96 bytes, at least one action; a proof approves at most four
messages, because a dictionary is modelled by the references of a cell. An absent dictionary, and its 16-bit keys,
which the code reads with `key_reader_u8` (`approve_message.rs:64`), are not modelled. More than 254 actions are a
panic in `internal_transfer_body`: `SendExecute` is then not enabled (`MAX_ACTIONS`). `LogsAssumption` says the same of the logs, each with
the fields of its kind (`LogsOf`), the contracts among the addresses in workchain 0.

## 3. Runs

Time is in ticks. Only the order of the limits matters to the properties (key lifetime
against holding time, three timeouts against two cleanings), so a limit of one to three
ticks, with every interleaving of the ticks, meets all the cases.

| Run | Configuration | Checks | Bounds |
|---|---|---|---|
| `send_to_chain` | `SendToChain.cfg` | `TypeOK`, `ResetIdAccepted`, `IdsGrowInEpoch`, `AlwaysRecovers` | 9 ids (3 shifts of 3 bit numbers), Timeout 1, a delay of up to 1 tick before a block has the message, one retry. The id space can be used up within an epoch, the contract is cleaned at every phase of an epoch |
| `wallet_manager` | `WalletManager.cfg` | `ExclusiveAccess`, `KeyAgesWithHolder`, `ReleasesOwnLock`, `ImplementsPool`, `LockIsFreed` | 3 workers, 2 wallets, keys of 3 ticks, held for at most 2; lost Redis calls and crashes |
| `broadcaster` | `Broadcaster.cfg` | `TypeOK`, `SentIsExecuted`, `DistinctInFlight`, `ExecutedOnce` | 2 workers on 1 wallet (all conflicts are on one wallet), 2 executions (the second may get the first one's id, in the same epoch or the next) and one without enough gas, one retry with a forced shift, two HTTP retries, lost answers and any failure. Workers and tasks are symmetric |
| `broadcaster_progress` | `BroadcasterProgress.cfg` | `NothingLeaked`, `TasksEnd` | 2 workers, a proof and a refund, one retry and one HTTP retry, no Redis fault and no crash |
| `trace_subscriber` | `TraceSubscriber.cfg` | `TypeOK`, `RecordedIsPublished`, `CursorPassesRecorded`, `CompleteIsPublished` | 2 accounts and the retry poller, a trace of both accounts and one of a single account, logical times to 3, 2 retries; no faults, with fairness |
| `trace_subscriber_faults` | `TraceSubscriberFaults.cfg` | `PublishedIsComplete`, `CursorNeverAhead` | the same with 1 retry, answers cut after 1 trace, failing statements and restarts at any step |
| `trace_parser` | `TraceParser.cfg` | `TypeOK`, `EventIdsUnique`, `CreditBelongsToCall`, `PaidCallIsCredited`, `ITSPairedInOrder`, `ApprovalCostsAddUp`, `ChargedIsLost`, `OneOutcome` | every trace of up to 3 transactions of any kind, of up to 4 calls, payments and ITS logs, executions and refunds that a wallet or a user starts, and the failed executions |
| `ingestor` | `Ingestor.cfg` | `IngestorTypeOK`, `PostedIsStored`, `AllOrNothing`, `DeliveredIsPosted` | 7 traces (with and without events, in jettons, three malformed), 2 publications of any of them, 2 faults of any kind |
| `boc_messages` | `BocMessages.cfg` | `TypeOK`, `DecodedIsWritten`, `WrittenIsRead`, `JettonsToldApart`, `ExecutionNamesMessage` | every kind of message; strings of 5, 96 and 97 bytes in combination, of 0 to 193 bytes around both ends of the first two cells one at a time; coins of every length with several leading bytes; words with and without leading zeros; addresses and none; one and two actions, one and two approvals |

What they show. `send_to_chain`: three timeouts are enough for the first id of an
epoch, however the cleanings of the contract fall (two would not be), unless it reaches the contract faster
than the last one did; ids grow through any mix of plain and forced calls and stop in front of the two
that are kept back, and a wallet that has run out of ids comes back. `wallet_manager`:
under the bound on the holding time the Redis keys are an exclusive pool, and a holder's key is the one that was
set for it. `broadcaster`: with
that, an id is never in two messages at once, and a report "sent" means that the message is
executed; a delivery is executed once, and again only if the answer to an accepted request was lost:
refusals, errors, crashes and retries under another id never repeat it. `trace_subscriber*`: cursors, upserts and retries do not lose a trace as long as
nothing fails in the middle of a batch and no answer is cut. `trace_parser`: pairing by key
and by order is right for every order of the transactions, and what is charged is what our accounts
lost. `ingestor`: the summary is stored before anything is posted, and redeliveries repeat the same
events. `boc_messages`: a log is read as it was written or refused, but for two fields that are passed on altered (below).

`CHECK_DEADLOCK FALSE` is set for the Broadcaster (all tasks may be reported and no wallet
left to age), the TraceSubscriber (logical time ends at the bound), the TraceParser (it
returns), the Ingestor (the queue may be empty for good) and BocMessages (one message is read).
In `trace_subscriber` an answer always holds all matching traces; in `trace_subscriber_faults` it
is cut.

### Fairness

* `SendToChain!FairSpec`: the clock runs, messages keep coming, and posting does not fail
  forever for reasons other than the contract (strong fairness of `PostAccepted`, since a
  failing post leaves the state in which it is enabled). It describes an environment that
  keeps using the wallet, which is what the property is about.
* `WalletManager!WMFairSpec`: the clock runs, and a holder releases: `send_to_chain` has
  finitely many attempts, each with a timeout (`client.rs`), and every path of the broadcast
  functions ends in `release`. Nothing is assumed of Redis or of crashed workers.
* `Broadcaster!FairSpec`: a worker's task is scheduled (tokio), blocks are made, time passes.
* `TraceSubscriber!FairSpec`: `relayer_core` polls in an endless loop. The retry poller and each
  account poller are fair as a whole; nothing says which trace is handled first.
* `Ingestor!IngestorSpec`: the queue delivers what it holds and the worker goes on (tokio). The
  faults are bounded by `MaxFaults`, which stands for a database, a price feed and a GMP API that
  work again after finitely many failures; without that no trace need ever be posted. A malformed
  trace comes back forever and holds up no other one, because it goes to the end of the queue.

### Where the code and its documentation differ

Each of these runs reaches a state that violates a promise of the documentation.

| Run | Promise | What happens |
|---|---|---|
| `broadcaster_long_hold` | "exclusive access to wallets" | the key lives 60 seconds, `send_to_chain` may take longer (12 attempts of up to 6 requests of up to 30 seconds), and the key is neither renewed nor owned |
| `broadcaster_resend` | a forced shift is for ids that someone else has used | a POST whose answer is lost is repeated by the HTTP client, refused by the wallet that has executed it, and sent again under a new id: executed twice |
| `trace_subscriber_restart` | traces are published | the cursor is stored before the traces are recorded; a restart in between skips them |

Further limits of the code that the modules show, without a run of their own:

* `high_load_query_id_db_wrapper.rs:20` calls it safe to reset the id after three timeouts. The row counts them from
  its upsert (line 172), the contract from the block: an id 0 that was on its way for longer than the next one
  may still be among the old queries when the next one arrives, which is then refused. The condition `delay >= late` of
  `ResetIdAccepted` is there for this case; without it the property fails with a Timeout of 2 and a delay of one tick.
  The retry with a forced shift repairs it.
* The expiry of a row is set by the first id of an epoch and not moved by later ones
  (`Store`), so after a reset the ids from 1 on are handed out again while the contract may still
  remember them. `ResetIdAccepted` is about the first id only; for the others the retry with a
  forced shift repairs this, at the price of a refused request.
* The refund path reports an error of `send_to_chain` as success with an empty hash (`Report`).
* The cursor moves to the largest `end_lt` of an answer. If more traces match than an answer
  holds, those left out lie below the cursor unless the indexer happens to sort by `end_lt`
  (`Pages`, `Fetch`): with `PageLimit = 1` and no faults `CursorPassesRecorded` fails.
* A statement that fails in the middle of a batch (`UpsertError`) drops the traces recorded before
  it, whose rows no longer count as changed: with `Faults = {"db"}` `RecordedIsPublished` fails.
* The upsert accepts any snapshot that differs from the row, older ones included. A poller that
  fetched a trace while it was incomplete may overwrite the complete row, after which the trace
  is published a second time (`Upsert`); the Ingestor then posts the same events again
  (`PostedIsStored` covers this).
* An ITS transfer or link whose address starts with a zero hexadecimal digit cannot be decoded
  (`ParsesAsAddress`), one address in sixteen, and its whole trace is then discarded on
  every delivery (`Unreadable`, `AllOrNothing`).
* The data of an ITS transfer is cut after its first cell (`Data`), and a signers' hash is reported
  without its leading zero bytes (`to_bytes_be`); `SameField` states what is left.
* Two payments with the same key in one trace: the second replaces the first (`AddGasPaid`), so of
  two identical calls, each paid for, only the first is credited. `PaidCallIsCredited` says
  "the first call" for this reason.

## 4. Proofs

`tlapm` checks every leaf of the modules named `...Proofs`. The theorems hold for every value of
the constants that the modules' ASSUMEs admit: any number of workers, wallets, tasks, pollers and
traces, any size of the id space, any timeouts. Where a theorem has hypotheses of its own they are
named below. Each of the inductive invariants was checked by TLC on a run's instance first, except `BocInv`,
which only names what the variables are. Every invariant of every passing run is stated by a theorem.

Several proofs need an induction over data. It is done by contradiction: the set of the arguments for which
the claim fails, if it is not empty, has a least number (`LeastElement`) or a minimal set (`MinimalSubset`), by
the library's `WFMin`, and there the claim holds after all.

### WalletManagerProofs

* `KeyIsHolders`: if `HoldLimit < LockTTL` then `WMSpec => []KeyAgesWithHolder`.
* `Exclusive`: if `HoldLimit < LockTTL` then `WMSpec => []ExclusiveAccess`.
* `OwnLockReleased`: under the same assumption `WMSpec => []ReleasesOwnLock`.
* `NoLeak`: `WMSpec => []NothingLeaked`.

`ExclusiveAccess` alone is not inductive: a state in which a worker holds a wallet whose key is
gone satisfies it, and the next `LockGranted` breaks it. The invariant `PoolInv` adds to it and to the types (`WMTypeOK`, from `LockAssumption`)
`KeyAgesWithHolder`: the time left of a holder's key and the time it has been held add up to
`LockTTL`. As long as the latter is less than `LockTTL` the key is there (`HeldIsLocked`),
so no other worker is granted the wallet, and no release deletes another worker's key.
Crashes, lost answers and failed DELs are all covered.

The refinement, `PoolIsImplemented`: if `HoldLimit < LockTTL` then `WMSpec => ImplementsPool`. The mapping `Owner` gives a wallet to its holder, calls it orphaned when its key is there without
one, and free otherwise. `StepOfOwners` takes every action to a step of `ExclusivePool` or to a
stutter. The owner is a CHOOSE among the holders, so what it is before and after the step
(`OwnerInv`, by `OwnerFacts`) takes exclusiveness and a key for every holder. `OwnerAssumption`, that the two marks are no workers,
is checked by the run.

### SendToChainProofs

* `TypeCorrect`: `Spec => []TypeOK`. That the ids kept back are never allotted takes the value of `next()` at the
  end of the id space and that a forced shift stops in front of it.
* `IdsGrow`: `Spec => IdsGrowInEpoch`, an action property: while the row lives, each id is larger
  than the last, forced or not. It rests on `NextIdGrows` (the value of `next()` in all
  its cases, with the carry: `Ordered`) and on the invariant `RowInv`: a row that has
  not expired holds an id (`LiveRowHasId`), so that `next()` never starts again inside an epoch.
* `ResetAccepted`: `Spec => []ResetIdAccepted`, for every `PostDelay`. This is why three timeouts suffice. The
  invariant relates two clocks, the row's, which starts with the upsert, and the contract's, which
  starts `late` ticks later. `InQueries`: while the contract has the epoch's first id among its current queries, its
  last cleaning lies no later than the block that accepted the id. `InOldQueries`: if the id is among the old
  queries, the cleaning that moved it came no later than two timeouts after that block. When the row
  has expired, three timeouts in, a message that arrives `late` ticks later or more therefore drops it
  (`ForgottenInTime`). There is no slack: one that arrives sooner may be refused (section 3).

### BroadcasterProofs

* `ImplementsWalletManager`: `Spec => WMSpec`. Every step of the includer is a step of the pool or
  leaves it alone, so `BroadcasterExclusive` (with `HoldLimit < LockTTL`) and
  `BroadcasterLeaksNothing` follow from the pool's theorems.
* `BroadcasterTypes`: `Spec => []TypeOK`, from `CallInv`, which adds what a worker's `pc` says
  about its id and its attempts.
* `ExecutedAtMostOnce`: `Spec => []ExecutedOnce`, for any number of HTTP retries and without a bound on the holding time.
  A task belongs to one worker (`TasksApart`). `OnceInv` counts what was sent for a task (`Load`, its
  messages in the mempool and its executions): it is at most one more than the answers lost, and while the task may
  yet be posted (`MayPost`: before the first post, after a refusal, after a lost answer) it is at most the answers lost. Without a
  lost answer a task is executed once; `broadcaster_resend` is the case with one.
* `InFlightApart`: if `HoldLimit < LockTTL` then `Spec => []DistinctInFlight`. `FlightInv` relates the
  row to everything that carries an id of its epoch: an id that a worker is about to write is
  beyond the row's (`IdToWrite`), an id that it may yet post is the row's (`IdToPost`), and no message
  of the wallet in the mempool has an id beyond the row's (`InFlight`). Another worker on the same
  wallet would break this between the SELECT and the UPDATE, which is why the lock is needed;
  `NextIdGrows` of `QueryIdProofs` gives that the next id differs from all of them.
* `ReportedIsExecuted`: on the same assumption `Spec => []SentIsExecuted`. `FlightInv` has
  that the contract accepts what waits in the mempool; `SentInv` adds that a task whose message was
  taken by the API is there or on the chain, before its report as well as after.

### TraceSubscriberProofs

* `TypeCorrect`: `Spec => []TypeOK`.
* `OnlyCompletePublished`: `Spec => []PublishedIsComplete`, with all faults. A trace in a poller's hands
  to be published was complete when it was fetched (`InHandIsComplete`), and a complete trace
  stays complete.
* `CursorsBehind`: `Spec => []CursorNeverAhead`, with all faults. `Fetch` takes the cursor from the
  maximum of a page. That a nonempty finite set of numbers has one is shown with
  `LeastElement`, the library's minimum principle, applied to the distances from `MaxLt`.
* `RecordedPublished`: without failing statements and restarts, `Spec => []RecordedIsPublished`.
* `PassedIsRecorded`: with the same hypotheses, `Spec /\ []NoPageIsCut => []CursorPassesRecorded`:
  `NoPageIsCut` says that the indexer never has more new traces of an account than an answer holds.
  The invariant `ReachedIsRecorded` speaks of the cursor in memory, which is ahead of the stored one.
  Without these hypotheses the property fails (`trace_subscriber_restart`, and section 3).

### TraceParserProofs

* `CostIsLoss`: for every trace `cost(txs) = BalanceLoss(txs)`, what the code charges is what our accounts have
  lost. Sums over finite sets are shown to split off an element, to be the same for functions that agree, to add
  and to change their order (`Total`); a transaction's messages then cost, summed over our accounts, what
  `us_sending` and `us_receiving` say, and money that stays among our accounts cancels.
* `UniqueEventIds`: `Spec => []EventIdsUnique`, for any set of traces.
* `CreditsBelong`, `PaidIsCredited`, `ITSPairs`: if `LogsRecognised` then `Spec` implies
  `CreditBelongsToCall`, `PaidCallIsCredited` and `ITSPairedInOrder`.
* `TypeCorrect`, `Charges`, `ApprovalsAddUp`: `Spec` implies `TypeOK`, `ChargedIsLost` and `ApprovalCostsAddUp`.
* `Outcomes`: if `OneExecutionPerTrace` then `Spec => []OneOutcome`.

`LogsRecognised` says that the contracts log under the opcode and at the place where `check_match`
looks. The properties speak of the logs in the trace; a log that no parser looks at
has no event. MCIngestor evaluates it for the transactions of both runs.

`TraceAssumption`, on which the statements about amounts rest, says that a trace consists of transactions with natural
fees and amounts, and that one that continues has sent a message in its first transaction. `OneExecutionPerTrace` is about how
the contracts build a trace. A transaction that failed emits no log. In a trace whose relayer_execute
was refused for lack of gas, no other transaction nullifies a message at the gateway, because the
wallet's message carries one relayer_execute. For an arbitrary sequence of transactions `OneOutcome` is false.
MCTraceParser evaluates the assumption on its traces.

The invariant of the first four results has one part per question. `ListInv` and `MatchInv`: the three lists are in trace order,
hold what their names say, and stay behind the loop's position. `SourceInv`: every event comes
from an element of a list that its loop has passed, or from a payment that has left the map, and no
two come from one transaction; `KindsSplit` keeps the lists disjoint. `FoundInv`: nothing that the
first loop has passed is missing. `ReportedInv`: what the later loops have passed has
its event. `CreditInv`: a payment's key stays in the map until a call with that key takes it, and the
first such call has been credited.

`ChargeInv` adds the amounts. `OthersInv`: the list of the others is complete, and its parser of the whole trace
(position 0) is there exactly for a trace refused for lack of gas. `ValueInv`: an event comes from a
transaction of its kind, and its cost is what is due for its type once the last loop has passed it and 0
before; without the second half `ChargedIsLost` would not survive a step of that loop. `ApprovedInv`: the
count by which the cost of an approval is divided is the number of the approvals in the trace.
`ApprovalsReported`: each of them has its event, so that the shares add up. `ApprovalCostsAddUp` then
compares the two numbers through the injection from events to transactions that `SourceInv` gives.

### IngestorProofs

* `PostedStored`: `IngestorSpec => []PostedIsStored`, for any set of traces and any bounds.
* `NothingInPart`: `IngestorSpec => []AllOrNothing`.
* `IngestorTypes`: `IngestorSpec => []IngestorTypeOK`.

The row is rewritten on every delivery, so `PostedIsStored` holds only if `parse_trace` is a function of
the trace. This is shown without running it: `Reports(t, s)` says what the summaries of trace `t` are. The
lists of calls and ITS logs have the elements of their kinds, in order; every call, credit, paired
ITS log and other parser has a place, a number that grows in the order of the loops; and `s` has one summary
for each place, by increasing place. A credit belongs to the first call with its key and is the last payment
for it (`Credits`), since `HashMap::insert` replaces and `remove` takes out. `ReportsUnique`: at most one
sequence satisfies it, because sorted lists with the same elements are equal (`SortedUnique`) and a place has
one event (`OneReport`).

The invariant adds to that of the parser: `DecodedInv` (everything passed has been decoded, every ITS log passed
has its call), `MapInv` (the map has the last payment for a key, and nothing for the key of a call that
was passed), `OthersInv` (the list of the others is complete) and `PlacesInv` (the events have the places of
exactly what was passed). `Returned` concludes that on return `Reports(trace, event_summaries)` holds
and the trace is not malformed; there the number of ITS logs is compared with the number of
calls through the lengths of the lists (`ListLength`). `StoredInv` and `HandlerInv` carry this over redeliveries:
rows and batches satisfy `Reports`, and what is about to be posted is in the row, also when there was
nothing to write (`SkipUpdate`).

For the types, a trace is followed through the queue and the worker. That a row is no longer than the trace and
one more comes from the parser: its events have distinct sources, transactions or the trace itself (`SourceInv`).

### BocProofs

* `DecodedFaithfully`, `ReadUnlessUnreadable`: `Spec` implies `DecodedIsWritten` and `WrittenIsRead`. For logs, refunds
  and approvals of any values, a decoder returns the fields that were written, and fails exactly on the logs
  listed in `Unreadable`. `SameField` says which two fields lose something on the way.
* `JettonsApart`: `Spec => []JettonsToldApart`. An addition has one more address, before the coins. Read as an addition,
  a payment has the length of its amount where that address begins. Either this is no address, or the
  coins after it are at least as long as the bits that are left before the last word
  (`PaymentOverrun`, `NotAnAddition`), so the load of that word fails, whatever the amount and the minter.
* `ExecutionNamed`: `Spec => []ExecutionNamesMessage`, for every list of 1 to 254 actions in the wallet's message.
* `CellsAccepted`: `Spec` implies `TypeOK`, which looks at the first ten levels of a cell, and the same at
  every level: `\A n \in Nat : kind # "none" => Fits(cell, n)`.

The inductive invariant is small. `CellInv`: the cell is the one that is written for the message and the decoder;
`ReadInv`: what was read, if anything, is what the decoder makes of the cell. The work is in the codecs. Bytes are
regained from their bits (`Bits`, `Bytes`). A buffer of any length is regained from its chain of cells, and a string
of ASCII characters passes the check of `from_utf8` on the way (`TextKept`). Addresses and coins are told by their tags and lengths.
`Reached(c, layout, k, ...)` says where the decoder stands after `k` loads, and there is a lemma for each sort of load that
takes it from one to the next; a layout is then read by as many steps as it has loads. The wallet's list of
actions is a chain that is read to its last element (`Listed`, `Descend`). For `CellsAccepted` a cell is
`Acceptable` when it belongs to a set of cells in bounds that is closed under references; such a set can be
written down for a chain of any length, and its members fit to every depth (`AcceptableFits`). The recursive functions
(chains, lists, lengths) have to be shown to have a value at each argument first, from the least argument at
which they would not.

### Not proved

Liveness (`AlwaysRecovers`, `LockIsFreed`, `TasksEnd`, `CompleteIsPublished`, `DeliveredIsPosted`) is out of the
prover's reach, which has no rules for fairness and ENABLED. These five are checked by TLC on the instances
of section 3 only.

## 5. Not modelled

* Of the gas estimator the amounts attached to messages (`execute_send`, `approve_send`,
  `highload_wallet_send`): nothing modelled depends on them.
* Of the encoders the BOC framing, base64, the dictionary's tree, the header of an internal message
  and the signed external message of the wallet: tonlib's, or without a reader in this repository.
* `relayer_core`: queues, the GMP API, the includer's consumption loop, except for what the
  Ingestor and the Subscriber need of them. A task that is delivered again after a crash of the
  includer counts as a new task.
* Includer set-up, refund manager, distributor, heartbeat monitor, account checker: wiring,
  stubs, and reads for monitoring. `get_account_states` is used only by these.
* Texts, logs, metrics, configuration, timestamps of events.

## 6. Plan

Everything that was planned is written: query ids, wallet pool, Broadcaster, Subscriber, trace parser with the gas
calculator, Ingestor, encoders and decoders (in this order: the messages that spend money first,
then what the relayer reports, then the bits). Every safety property that a passing run checks is also proved.
What is left to TLC alone is liveness. When the code changes, the places to look at first are those of section 3
where it differs from its documentation: a key with an owner that is renewed would remove the hypothesis
`HoldLimit < LockTTL`, and a cursor that is stored after the traces those of `PassedIsRecorded`.
