----------------------------- MODULE SwapIndexer ------------------------------
(***************************************************************************)
(* The EVM watcher (src/services/evm/uniswapV4): it reads the logs of the  *)
(* Uniswap v4 pool manager and keeps the tables Pool, SwapEvent, Position  *)
(* and ScanCursor.                                                         *)
(*                                                                         *)
(* A task is one asynchronous call chain of a Node process: the historical *)
(* sync at start, a periodic sync, the handler of one websocket            *)
(* notification, or the single pass of a maintenance command in a process  *)
(* of its own.  Tasks interleave at every await; nothing makes one wait    *)
(* for another.  Every event is saved in several database calls, the last  *)
(* or the third of which moves the cursor, the one record of progress.     *)
(*                                                                         *)
(* A log is its index in Chain; the price of a pool is the index of the    *)
(* log it was taken from, and the state of its positions the index of the  *)
(* last ModifyLiquidity they include.  Blocks are final once mined.        *)
(***************************************************************************)
EXTENDS Naturals, Sequences, FiniteSets

CONSTANTS
    Pools,
    Tracked,        \* pools of tracked tokens: the filter on Initialize
    Chain,          \* the logs of the pool manager, in order
    WsUrls,         \* whether a websocket URL is configured: both, or one
    Syncs,          \* bound: periodic syncs that may overlap
    Maintenance,    \* bound: maintenance processes at a time
    Watcher,        \* the task of the historical sync
    MaxTasks,       \* bound: tasks in progress, the one that starts included
    StartBlock,     \* options.startBlock, or the network's default
    Batch,          \* blockBatchSize
    IdChunk,        \* idChunkSize
    MaxEvents       \* bound: exceptions, restarts, lost messages and commands

Kinds == {"initialize", "swap", "modify", "donate"}
Logs  == DOMAIN Chain

Kind(i)  == Chain[i].kind
Pool(i)  == Chain[i].pool
Block(i) == Chain[i].block

\* The last block of the model.
Height == IF Chain = <<>> THEN 0 ELSE Block(Len(Chain))

ASSUME IndexerAssumption ==
    /\ Tracked \subseteq Pools /\ IsFiniteSet(Pools)
    /\ Watcher \notin Syncs \cup Maintenance /\ Syncs \cap Maintenance = {}
    /\ Chain \in Seq([kind : Kinds, pool : Pools, block : Nat \ {0}])
    /\ \A i, j \in Logs : i < j => Block(i) <= Block(j)
    /\ \A i \in Logs : Kind(i) # "initialize" =>
          \E j \in 1..(i - 1) : Kind(j) = "initialize" /\ Pool(j) = Pool(i)
    /\ \A i, j \in Logs :
          Kind(i) = "initialize" /\ Kind(j) = "initialize" /\ Pool(i) = Pool(j) => i = j
    /\ StartBlock \in Nat \ {0}
    /\ WsUrls \subseteq BOOLEAN /\ WsUrls # {}
    /\ Batch \in Nat \ {0} /\ IdChunk \in Nat \ {0}
    /\ MaxTasks \in Nat \ {0} /\ MaxEvents \in Nat

Slots == {Watcher} \cup Syncs \cup Maintenance \cup Logs

VARIABLES
    latest,      \* eth_blockNumber
    wsUrl,
    pool,        \* Pool rows: [price, metrics] of each known pool
    stored,      \* SwapEvent rows
    position,    \* Position rows of each pool, as of the log they include
    cursor,      \* ScanCursor.lastBlock, 0 if there is no row
    running,     \* the watcher has started its timer and its subscriptions
    task,        \* the tasks in progress
    overlapped,  \* two tasks have been in progress at once
    disturbed,   \* a task was cut short, or maintenance ran beside another
    events

tables == <<pool, stored, position, cursor>>
vars   == <<latest, wsUrl, tables, running, task, overlapped, disturbed, events>>

Unknown == [price |-> 0, metrics |-> 0]

NoTask == [pc |-> "none", from |-> 0, to |-> 0, todo |-> {}, chunk |-> [p \in Pools |-> 0],
           log |-> 0, price |-> 0, metrics |-> 0]

Points == {"none", "cursor", "height", "discover", "pools", "scan", "upsert", "setCursor",
           "reread", "recompute", "meta"}

LogOrNone == Logs \cup {0}

\* Every variable keeps its type; only swaps become SwapEvent rows.
TypeOK ==
    /\ latest \in Nat
    /\ wsUrl \in BOOLEAN
    /\ pool \in [Pools -> [price : LogOrNone, metrics : LogOrNone]]
    /\ stored \subseteq {i \in Logs : Kind(i) = "swap"}
    /\ position \in [Pools -> LogOrNone]
    /\ cursor \in Nat
    /\ running \in BOOLEAN
    /\ task \in [Slots -> [pc : Points, from : Nat, to : Nat, todo : SUBSET Logs,
                           chunk : [Pools -> Nat], log : LogOrNone,
                           price : LogOrNone, metrics : LogOrNone]]
    /\ overlapped \in BOOLEAN /\ disturbed \in BOOLEAN
    /\ events \in 0..MaxEvents

Init ==
    /\ latest = 0
    /\ wsUrl \in WsUrls
    /\ pool = [p \in Pools |-> Unknown]
    /\ stored = {}
    /\ position = [p \in Pools |-> 0]
    /\ cursor = 0
    /\ running = FALSE
    /\ task = [t \in Slots |-> NoTask]
    /\ overlapped = FALSE /\ disturbed = FALSE
    /\ events = 0

Known(p) == pool[p].price # 0

Active == {t \in Slots : task[t].pc # "none"}
Idle   == Active = {}

Unusual == events < MaxEvents /\ events' = events + 1

LogsIn(a, b) == {i \in Logs : Block(i) \in a..b}

-------------------------------------------------------------------------------
(***************************************************************************)
(* Tasks come and go.                                                      *)
(***************************************************************************)
Starts(T) ==
    /\ overlapped' = (overlapped \/ ~Idle \/ Cardinality(T) > 1)
    /\ disturbed' = (disturbed \/ (~Idle /\ (T \cup Active) \cap Maintenance # {}))

Start(t) ==
    /\ task[t].pc = "none" /\ Cardinality(Active) < MaxTasks
    /\ task' = [task EXCEPT ![t].pc = "cursor"]
    /\ Starts({t})
    /\ UNCHANGED <<latest, wsUrl, tables, running>>

\* UniswapV4WatcherRunner.start, after which the timer starts a sync every few
\* seconds, whether or not the one before has ended; and performPoolAction.
StartWatcher == ~running /\ Start(Watcher) /\ UNCHANGED events

StartSync(t) == t \in Syncs /\ running /\ Start(t) /\ UNCHANGED events

StartMaintenance(t) == t \in Maintenance /\ Unusual /\ Start(t)

\* The historical sync is over: realtime starts.
Finish(t) ==
    /\ task' = [task EXCEPT ![t] = NoTask]
    /\ running' = (running \/ t = Watcher)
    /\ UNCHANGED <<latest, wsUrl, tables, overlapped, disturbed, events>>

Historical(t) == t = Watcher \/ t \in Maintenance

\* Variant: one is added to the cursor twice.
ReadCursorSkipping(t) ==
    /\ task[t].pc = "cursor"
    /\ task' = [task EXCEPT ![t].pc = "height",
                            ![t].from = IF cursor = 0 THEN 0 ELSE cursor + 2]
    /\ UNCHANGED <<latest, wsUrl, tables, running, overlapped, disturbed, events>>

\* The cursor first, the height of the chain afterwards.
ReadCursor(t) ==
    /\ task[t].pc = "cursor"
    /\ task' = [task EXCEPT ![t].pc = "height",
                            ![t].from = IF cursor = 0 THEN 0 ELSE cursor + 1]
    /\ UNCHANGED <<latest, wsUrl, tables, running, overlapped, disturbed, events>>

\* Without a cursor the historical sync begins at the start block, and a
\* periodic sync has nothing to do.
FromBlock(t) ==
    IF task[t].from # 0 THEN task[t].from
    ELSE IF Historical(t) THEN StartBlock ELSE latest + 1

NothingNew(t) ==
    /\ task[t].pc = "height"
    /\ FromBlock(t) > latest
    /\ Finish(t)

ReadHeight(t) ==
    /\ task[t].pc = "height"
    /\ FromBlock(t) <= latest
    /\ task' = [task EXCEPT
                   ![t].from = FromBlock(t),
                   ![t].to   = latest,
                   ![t].pc   = IF Historical(t) THEN "discover" ELSE "pools",
                   ![t].todo = IF Historical(t)
                               THEN {i \in LogsIn(FromBlock(t), latest) :
                                        Kind(i) = "initialize" /\ Pool(i) \in Tracked}
                               ELSE {}]
    /\ UNCHANGED <<latest, wsUrl, tables, running, overlapped, disturbed, events>>

EndDiscovery(t) ==
    /\ Historical(t) /\ task[t].pc = "discover" /\ task[t].todo = {}
    /\ task' = [task EXCEPT ![t].pc = "pools"]
    /\ UNCHANGED <<latest, wsUrl, tables, running, overlapped, disturbed, events>>

\* The known pools, in the order the database returns them, cut into chunks of
\* IdChunk.
Chunkings(P) ==
    {f \in [P -> 0..Cardinality(P)] :
        \A c \in 0..Cardinality(P) :
            LET InChunk(n) == {p \in P : f[p] = n}
            IN  /\ Cardinality(InChunk(c)) <= IdChunk
                /\ c > 0 /\ InChunk(c) # {} => Cardinality(InChunk(c - 1)) = IdChunk}

\* Variant: the pools found in the range of blocks itself.
ReadPoolsOfRange(t) ==
    LET found == {p \in Pools : \E i \in LogsIn(task[t].from, task[t].to) :
                                    Kind(i) = "initialize" /\ Pool(i) = p} IN
    /\ task[t].pc = "pools"
    /\ task' = [task EXCEPT ![t].pc = "scan",
                            ![t].todo = {i \in LogsIn(task[t].from, task[t].to) :
                                            Kind(i) # "initialize" /\ Pool(i) \in found}]
    /\ UNCHANGED <<latest, wsUrl, tables, running, overlapped, disturbed, events>>

ReadPools(t) ==
    LET known == {p \in Pools : Known(p)} IN
    /\ task[t].pc = "pools"
    /\ \E f \in Chunkings(known) :
          task' = [task EXCEPT
                     ![t].pc = "scan",
                     ![t].chunk = [p \in Pools |-> IF p \in known THEN f[p] ELSE 0],
                     ![t].todo = {i \in LogsIn(task[t].from, task[t].to) :
                                     Kind(i) # "initialize" /\ Known(Pool(i))}]
    /\ UNCHANGED <<latest, wsUrl, tables, running, overlapped, disturbed, events>>

\* Backfill: batches of blocks, in each the chunks of pools, in each the swaps,
\* then the liquidity changes, then the donations.
Rank == [initialize |-> 0, swap |-> 1, modify |-> 2, donate |-> 3]

Key(t, i) ==
    <<(Block(i) - task[t].from) \div Batch, task[t].chunk[Pool(i)], Rank[Kind(i)], i>>

\* Variant: the newest log first.
Follows(a, b) ==
    \E n \in 1..4 : a[n] > b[n] /\ \A m \in 1..(n - 1) : a[m] = b[m]

Precedes(a, b) ==
    \E n \in 1..4 : a[n] < b[n] /\ \A m \in 1..(n - 1) : a[m] = b[m]

IsNext(t, i) ==
    /\ task[t].pc = (IF Kind(i) = "initialize" THEN "discover" ELSE "scan")
    /\ \A j \in task[t].todo \ {i} : Precedes(Key(t, i), Key(t, j))

EndScan(t) ==
    /\ task[t].pc = "scan" \/ (~Historical(t) /\ task[t].pc = "discover")
    /\ task[t].todo = {}
    /\ Finish(t)

-------------------------------------------------------------------------------
(***************************************************************************)
(* Saving a log.                                                           *)
(***************************************************************************)
\* The log is in hand, and the task goes on at point pc.
Take(t, i, pc, price, metrics) ==
    task' = [task EXCEPT ![t].todo = @ \ {i}, ![t].log = i, ![t].pc = pc,
                         ![t].price = price, ![t].metrics = metrics]

\* The log is done with.
Drop(t, i) ==
    task' = [task EXCEPT ![t].todo = @ \ {i}, ![t].log = 0, ![t].price = 0, ![t].metrics = 0,
                         ![t].pc = IF Kind(i) = "initialize" THEN "discover" ELSE "scan"]

Goto(t, pc) == task' = [task EXCEPT ![t].pc = pc]

LogPool(t) == Pool(task[t].log)

\* saveInitialize: the row's metadata is replaced, of a pool known before too.
SaveInitialize(t, i) ==
    /\ IsNext(t, i) /\ Kind(i) = "initialize"
    /\ pool' = [pool EXCEPT ![Pool(i)] = [price |-> i, metrics |-> 0]]
    /\ Take(t, i, "setCursor", 0, 0)
    /\ UNCHANGED <<latest, wsUrl, stored, position, cursor, running, overlapped,
                   disturbed, events>>

\* saveSwap: a pool without a row is not known yet, or not tracked.
SwapOrModifyOfUnknownPool(t, i) ==
    /\ IsNext(t, i) /\ Kind(i) \in {"swap", "modify"} /\ ~Known(Pool(i))
    /\ Drop(t, i)
    /\ UNCHANGED <<latest, wsUrl, tables, running, overlapped, disturbed, events>>

SaveSwap(t, i) ==
    /\ IsNext(t, i) /\ Kind(i) = "swap" /\ Known(Pool(i))
    /\ stored' = stored \cup {i}
    /\ Take(t, i, "recompute", i, 0)
    /\ UNCHANGED <<latest, wsUrl, pool, position, cursor, running, overlapped,
                   disturbed, events>>

\* An insert that fails for another reason than a duplicate is logged.
SwapNotInserted(t, i) ==
    /\ IsNext(t, i) /\ Kind(i) = "swap" /\ Known(Pool(i))
    /\ Unusual /\ disturbed' = TRUE
    /\ Take(t, i, "recompute", i, 0)
    /\ UNCHANGED <<latest, wsUrl, tables, running, overlapped>>

\* recomputePoolMetrics reads the positions; the whole metadata is then written
\* back, with the swap's price or the one read before.
Recompute(t) ==
    /\ task[t].pc = "recompute"
    /\ task' = [task EXCEPT ![t].pc = "meta", ![t].metrics = position[LogPool(t)]]
    /\ UNCHANGED <<latest, wsUrl, tables, running, overlapped, disturbed, events>>

AfterMeta(t) ==
    IF Kind(task[t].log) = "swap" THEN Goto(t, "setCursor") ELSE Drop(t, task[t].log)

WriteMeta(t) ==
    /\ task[t].pc = "meta"
    /\ pool' = [pool EXCEPT ![LogPool(t)] = [price   |-> task[t].price,
                                             metrics |-> task[t].metrics]]
    /\ AfterMeta(t)
    /\ UNCHANGED <<latest, wsUrl, stored, position, cursor, running, overlapped,
                   disturbed, events>>

MetaNotWritten(t) ==
    /\ task[t].pc = "meta"
    /\ Unusual /\ disturbed' = TRUE
    /\ AfterMeta(t)
    /\ UNCHANGED <<latest, wsUrl, tables, running, overlapped>>

\* saveModifyLiquidity: the position is read from the chain as it is now, stored,
\* and the metadata is read again after the cursor has moved.
LastModify(p) ==
    CHOOSE i \in Logs :
        /\ Kind(i) = "modify" /\ Pool(i) = p /\ Block(i) <= latest
        /\ \A j \in Logs : Kind(j) = "modify" /\ Pool(j) = p /\ Block(j) <= latest => j <= i

SaveModify(t, i) ==
    /\ IsNext(t, i) /\ Kind(i) = "modify" /\ Known(Pool(i))
    /\ Take(t, i, "upsert", 0, LastModify(Pool(i)))
    /\ UNCHANGED <<latest, wsUrl, tables, running, overlapped, disturbed, events>>

\* fetchPositionDetails returned nothing.
PositionNotFound(t, i) ==
    /\ IsNext(t, i) /\ Kind(i) = "modify" /\ Known(Pool(i))
    /\ Unusual /\ disturbed' = TRUE
    /\ Drop(t, i)
    /\ UNCHANGED <<latest, wsUrl, tables, running, overlapped>>

UpsertPosition(t) ==
    /\ task[t].pc = "upsert"
    /\ position' = [position EXCEPT ![LogPool(t)] = task[t].metrics]
    /\ Goto(t, "setCursor")
    /\ UNCHANGED <<latest, wsUrl, pool, stored, cursor, running, overlapped,
                   disturbed, events>>

Reread(t) ==
    /\ task[t].pc = "reread"
    /\ task' = [task EXCEPT ![t].pc = "recompute", ![t].price = pool[LogPool(t)].price]
    /\ UNCHANGED <<latest, wsUrl, tables, running, overlapped, disturbed, events>>

\* Variant: a donation is stored as a swap.
SaveDonateAsSwap(t, i) ==
    /\ IsNext(t, i) /\ Kind(i) = "donate"
    /\ stored' = stored \cup {i}
    /\ Take(t, i, "setCursor", 0, 0)
    /\ UNCHANGED <<latest, wsUrl, pool, position, cursor, running, overlapped,
                   disturbed, events>>

\* Donations are not stored; the cursor moves all the same.
SaveDonate(t, i) ==
    /\ IsNext(t, i) /\ Kind(i) = "donate"
    /\ Take(t, i, "setCursor", 0, 0)
    /\ UNCHANGED <<latest, wsUrl, tables, running, overlapped, disturbed, events>>

\* Variant: the metrics are left as they were after a liquidity change.
SetCursorAndLeave(t) ==
    /\ task[t].pc = "setCursor"
    /\ cursor' = Block(task[t].log)
    /\ Drop(t, task[t].log)
    /\ UNCHANGED <<latest, wsUrl, pool, stored, position, running, overlapped,
                   disturbed, events>>

\* updateCursor: to the block of the log, wherever the cursor was.
SetCursor(t) ==
    /\ task[t].pc = "setCursor"
    /\ cursor' = Block(task[t].log)
    /\ IF Kind(task[t].log) = "modify" THEN Goto(t, "reread") ELSE Drop(t, task[t].log)
    /\ UNCHANGED <<latest, wsUrl, pool, stored, position, running, overlapped,
                   disturbed, events>>

-------------------------------------------------------------------------------
(***************************************************************************)
(* The chain, and the notifications of a new block.  Each log is handled   *)
(* by a task of its own as soon as it arrives.  Those of a connection that *)
(* broke do not arrive, and are not asked for again.                       *)
(***************************************************************************)
Notified ==
    IF wsUrl /\ running
    THEN {i \in LogsIn(latest + 1, latest + 1) :
             Kind(i) = "initialize" => Pool(i) \in Tracked}
    ELSE {}

MineAndNotify(D) ==
    /\ latest < Height
    /\ latest' = latest + 1
    /\ task' = [t \in Slots |->
                   IF t \in D
                   THEN [NoTask EXCEPT
                           !.pc = IF Kind(t) = "initialize" THEN "discover" ELSE "scan",
                           !.from = Block(t), !.to = Block(t), !.todo = {t}]
                   ELSE task[t]]
    /\ D = {} \/ Cardinality(Active) < MaxTasks
    /\ IF D = {} THEN UNCHANGED <<overlapped, disturbed>> ELSE Starts(D)
    /\ UNCHANGED <<wsUrl, tables, running>>

Mine == MineAndNotify(Notified) /\ UNCHANGED events

LoseNotifications ==
    /\ Unusual
    /\ \E D \in SUBSET Notified : D # Notified /\ MineAndNotify(D)

(***************************************************************************)
(* A periodic sync or a maintenance pass throws; the watcher's process     *)
(* stops, or dies of an exception in the historical sync or a handler; the *)
(* cursor is deleted by the maintenance command reset.                     *)
(***************************************************************************)
Throw(t) ==
    /\ t \in Syncs \cup Maintenance /\ t \in Active
    /\ Unusual /\ disturbed' = TRUE
    /\ task' = [task EXCEPT ![t] = NoTask]
    /\ UNCHANGED <<latest, wsUrl, tables, running, overlapped>>

Restart ==
    /\ running \/ Active \ Maintenance # {}
    /\ Unusual
    /\ running' = FALSE
    /\ task' = [t \in Slots |-> IF t \in Maintenance THEN task[t] ELSE NoTask]
    /\ disturbed' = (disturbed \/ Active \ Maintenance # {})
    /\ UNCHANGED <<latest, wsUrl, tables, overlapped>>

Reset ==
    /\ Unusual
    /\ cursor' = 0
    /\ UNCHANGED <<latest, wsUrl, pool, stored, position, running, task, overlapped,
                   disturbed>>

-------------------------------------------------------------------------------
Begin(t) == (t = Watcher /\ StartWatcher) \/ StartSync(t)

Step(t) ==
    \/ ReadCursor(t) \/ NothingNew(t) \/ ReadHeight(t)
    \/ EndDiscovery(t) \/ ReadPools(t) \/ EndScan(t)
    \/ Recompute(t) \/ WriteMeta(t) \/ UpsertPosition(t) \/ Reread(t) \/ SetCursor(t)
    \/ \E i \in task[t].todo :
          \/ SaveInitialize(t, i) \/ SwapOrModifyOfUnknownPool(t, i) \/ SaveSwap(t, i)
          \/ SaveModify(t, i) \/ SaveDonate(t, i)

Trouble(t) ==
    \/ Throw(t) \/ MetaNotWritten(t)
    \/ \E i \in task[t].todo : SwapNotInserted(t, i) \/ PositionNotFound(t, i)

Next ==
    \/ \E t \in Slots : Begin(t) \/ StartMaintenance(t) \/ Step(t) \/ Trouble(t)
    \/ Mine \/ LoseNotifications \/ Restart \/ Reset

Spec == Init /\ [][Next]_vars

(***************************************************************************)
(* The watcher is kept running, its timer fires, and what a task awaits    *)
(* comes back.                                                             *)
(***************************************************************************)
Fairness == \A t \in {Watcher} \cup Syncs : WF_vars(Begin(t) \/ Step(t))

FairSpec == Spec /\ Fairness

-------------------------------------------------------------------------------
(***************************************************************************)
(* Properties.                                                             *)
(***************************************************************************)
Swaps(p) == {i \in Logs : Kind(i) = "swap" /\ Pool(i) = p}

\* What the cursor is for: when nothing is in progress, the swaps up to the
\* cursor's block are in the table.
CursorMeansScanned ==
    Idle => \A p \in Pools : Known(p) =>
                \A i \in Swaps(p) : Block(i) <= cursor => i \in stored

\* Polling alone, a watcher that no exception cuts short loses no swap, though
\* the cursor moves back and forth and the syncs overlap.
PollingLosesNothing == ~wsUrl /\ ~disturbed => CursorMeansScanned

\* The price a pool shows is that of its last stored swap, unless two tasks have
\* been in progress at once.
PriceIsOfLastSwap ==
    Idle /\ ~overlapped /\ ~disturbed =>
        \A p \in Pools : Known(p) =>
            /\ \A i \in stored : Pool(i) = p => i <= pool[p].price
            /\ pool[p].price \in stored \/ Kind(pool[p].price) = "initialize"

\* And its depth and value are those of its stored positions.
MetricsAreOfPositions ==
    Idle /\ ~overlapped /\ ~disturbed =>
        \A p \in Pools : Known(p) => pool[p].metrics = position[p]

\* Polling alone, every swap of a known pool is stored in the end.
SwapsAreStored ==
    \A i \in {j \in Logs : Kind(j) = "swap"} :
        Block(i) <= latest /\ Known(Pool(i)) /\ ~wsUrl
            ~> i \in stored \/ disturbed \/ events > 0
===============================================================================
