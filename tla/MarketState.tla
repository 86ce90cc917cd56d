------------------------------- MODULE MarketState -------------------------------
(***************************************************************************)
(* The state of the markets the engine acts on (src/domain/state): read    *)
(* from the daemon, from the tables and the health server of the EVM       *)
(* watcher, from the chain and from the MEXC watcher, one after the other, *)
(* while all of them go on; and the engine's question whether the result   *)
(* is fresh.                                                               *)
(*                                                                         *)
(* The price of the pool is the time of the swap that made it (the pool is *)
(* made at 0).  The EVM watcher saves swaps as the websocket tells of      *)
(* them, and what was missed in a sync that reads the cursor, the height,  *)
(* and the logs in between.  One sync runs at a time, and the websocket    *)
(* tells of a swap at once or never: SwapIndexer has syncs and late events *)
(* overlap.                                                                *)
(***************************************************************************)
EXTENDS Integers, Sequences

CONSTANTS
    EvmMaxAge, CexMaxAge,  \* STALE_THRESHOLDS
    MaxTime,               \* bound on the clock
    MaxTroubles            \* bound on failures and restarts

None == -1

StateAssumption == {EvmMaxAge, CexMaxAge, MaxTime, MaxTroubles} \subseteq Nat

VARIABLES
    now,
    swaps,     \* times of the swaps in the pool
    row,       \* lastPrice in the pool's metadata
    cursor,    \* the scan cursor's block, by its time
    health,    \* of the watcher: sync is lastSyncAt, head the height that sync reached
    job,       \* the sync under way
    missed,    \* the cursor has passed a swap that was not saved
    build,     \* the state under construction
    state,     \* the state that was built, if the cycle goes on with it
    troubles

chain   == <<now, swaps>>
tables  == <<row, cursor>>
watcher == <<health, job, missed>>
vars    == <<chain, tables, watcher, build, state, troubles>>

Largest(S) == IF S = {} THEN None ELSE CHOOSE t \in S : \A u \in S : u <= t

SwapsIn(from, to) == {t \in swaps : from < t /\ t <= to}

NoSync == [from |-> None, to |-> None]

Health(up, sync, head) == [up |-> up, sync |-> sync, head |-> head]
Down == Health(FALSE, None, None)

Sources == {"pools", "watcher"}

\* head: of the watcher's last sync when the pools were read.
NoBuild == [stage |-> "idle", unread |-> {}, price |-> None, by |-> "row", head |-> None,
            health |-> Down, updated |-> None]

NoState == [accepted |-> FALSE, price |-> None, by |-> "row", head |-> None, sync |-> None,
            synced |-> None, sides |-> {}, updated |-> None, at |-> None]

Times == None..MaxTime

TypeOK ==
    /\ now \in 0..MaxTime /\ swaps \subseteq 0..MaxTime
    /\ row \in Times /\ cursor \in Times
    /\ health \in [up : BOOLEAN, sync : Times, head : Times]
    /\ job \in [from : Times, to : Times] /\ missed \in BOOLEAN
    /\ DOMAIN build = DOMAIN NoBuild /\ build.unread \subseteq Sources
    /\ build.stage \in {"idle", "evm", "views", "cex", "depth", "built"}
    /\ DOMAIN state = DOMAIN NoState /\ troubles \in 0..MaxTroubles

Init ==
    /\ now = 0 /\ swaps = {0}
    /\ row = None /\ cursor = None
    /\ health = Down /\ job = NoSync /\ missed = FALSE
    /\ build = NoBuild /\ state = NoState /\ troubles = 0

Trouble == troubles < MaxTroubles /\ troubles' = troubles + 1

\* What the chain and the watcher do once it has been read is not seen, and left out.
Seen == build.stage \in {"idle", "evm"}

\* A block, with a swap in the pool or without.
Tick ==
    /\ now < MaxTime
    /\ now' = now + 1
    /\ swaps' = swaps \/ (Seen /\ swaps' = swaps \cup {now + 1})
    /\ UNCHANGED <<tables, watcher, build, state, troubles>>

-----------------------------------------------------------------------------
(***************************************************************************)
(* Pools of one pair.  A row has what its metadata holds: two prices, the  *)
(* value locked and the time of the last swap, any of them perhaps None,   *)
(* and prices perhaps 0.                                                   *)
(***************************************************************************)
Metas == [price : Int, inverse : Int, tvl : Int, swapAt : Int]

\* A pool as buildEvmState takes it from a row: each price, where it is missing, is made of the other.
PoolOf(meta) ==
    LET positive(p) == IF p > 0 THEN p ELSE None
        either(p, q) == IF positive(p) # None THEN p
                        ELSE IF positive(q) # None THEN 100 \div q ELSE None
    IN  [price |-> either(meta.price, meta.inverse), inverse |-> either(meta.inverse, meta.price),
         tvl |-> positive(meta.tvl), swapAt |-> positive(meta.swapAt), address |-> TRUE]

Priced(pool) == pool.price # None /\ pool.inverse # None

\* The pair when no row is of it.
RequiredPool == [price |-> None, inverse |-> None, tvl |-> None, swapAt |-> None, address |-> FALSE]

\* Mutant: the larger one, or the one with the later swap.
PreferLarger(existing, candidate) == candidate.tvl > existing.tvl \/ candidate.swapAt > existing.swapAt

ShouldReplacePool(existing, candidate) ==
    /\ Priced(candidate) \/ ~Priced(existing)
    /\ \/ existing.price = None /\ candidate.price # None
       \/ existing.inverse = None /\ candidate.inverse # None
       \/ candidate.tvl > existing.tvl
       \/ candidate.swapAt > existing.swapAt

\* The pools' rows are gone through in the order of the table, the last discovered first.
ChoosePool(metas) ==
    LET pools == [i \in DOMAIN metas |-> PoolOf(metas[i])]
        chosen[n \in 0..Len(metas)] ==
            IF n = 0 THEN RequiredPool
            ELSE IF n = 1 \/ ShouldReplacePool(chosen[n - 1], pools[n]) THEN pools[n] ELSE chosen[n - 1]
    IN  chosen[Len(metas)]

-----------------------------------------------------------------------------
(* The EVM watcher (uniswapV4/runner.ts) *)

\* start: the health server answers, and the historical sync begins.
Starts ==
    /\ ~health.up
    /\ health' = Health(TRUE, None, None)
    /\ job' = [from |-> cursor, to |-> now]
    /\ UNCHANGED <<chain, tables, missed, build, state, troubles>>

Stops ==
    /\ health.up /\ Trouble
    /\ health' = Down /\ job' = NoSync
    /\ UNCHANGED <<chain, tables, missed, build, state>>

\* A log is saved: the row if it is the pool's, and the cursor.
Saved(price, block) == row' = price /\ cursor' = block

\* The subscriptions are made after the first sync.
Running == health.up /\ health.sync # None

SwapEvent ==
    /\ Running /\ now \in swaps /\ row # now
    /\ Saved(now, now)
    /\ UNCHANGED <<chain, watcher, build, state, troubles>>

\* A log of another pool moves the one cursor.
OtherEvent ==
    /\ Running /\ cursor # now
    /\ Saved(row, now)
    /\ missed' = (missed \/ Largest(swaps) > row)
    /\ UNCHANGED <<chain, health, job, build, state, troubles>>

\* Mutant: lastSyncAt is set before the logs are read.
SyncVouchesEarly ==
    /\ Running /\ job = NoSync
    /\ job' = [from |-> cursor, to |-> now]
    /\ health' = [health EXCEPT !.sync = now, !.head = now]
    /\ UNCHANGED <<chain, tables, missed, build, state, troubles>>

SyncLatest ==
    /\ Running /\ job = NoSync
    /\ job' = [from |-> cursor, to |-> now]
    /\ UNCHANGED <<chain, tables, health, missed, build, state, troubles>>

SyncSaves ==
    /\ job # NoSync
    /\ LET left == SwapsIn(job.from, job.to)
           next == CHOOSE t \in left : \A u \in left : t <= u
       IN  left # {} /\ Saved(next, next) /\ job' = [job EXCEPT !.from = next]
    /\ UNCHANGED <<chain, health, missed, build, state, troubles>>

SyncEnds ==
    /\ job # NoSync /\ SwapsIn(job.from, job.to) = {}
    /\ health' = [health EXCEPT !.sync = now, !.head = job.to]
    /\ job' = NoSync
    /\ UNCHANGED <<chain, tables, missed, build, state, troubles>>

\* A periodic sync that fails is logged, a historical one ends the watcher.
SyncFails ==
    /\ job # NoSync /\ Trouble
    /\ job' = NoSync /\ health' = (IF Running THEN health ELSE Down)
    /\ UNCHANGED <<chain, tables, missed, build, state>>

-----------------------------------------------------------------------------
(* Building a state *)

\* buildGlobalState: the reserve first, and without it there is no state.
ReadReserve ==
    /\ build.stage = "idle"
    /\ build' = [NoBuild EXCEPT !.stage = "evm", !.unread = Sources]
    /\ UNCHANGED <<chain, tables, watcher, state, troubles>>

ReserveFails ==
    /\ build.stage = "idle" /\ Trouble
    /\ build' = [NoBuild EXCEPT !.stage = "built"]
    /\ UNCHANGED <<chain, tables, watcher, state>>

Read(s, b) ==
    build' = [b EXCEPT !.unread = @ \ {s}, !.stage = IF build.unread = {s} THEN "views" ELSE @]

\* buildEvmState asks for the pools, and for the watcher's health and its cursor, at once; what fails
\* is as if there were none.
ReadPools ==
    /\ "pools" \in build.unread
    /\ Read("pools", [build EXCEPT !.price = row, !.head = health.head])
    /\ UNCHANGED <<chain, tables, watcher, state, troubles>>

ReadWatcher ==
    /\ "watcher" \in build.unread
    /\ Read("watcher", [build EXCEPT !.health = health])
    /\ UNCHANGED <<chain, tables, watcher, state, troubles>>

ReadFails(s) ==
    /\ s \in build.unread /\ Trouble
    /\ Read(s, build)
    /\ UNCHANGED <<chain, tables, watcher, state>>

\* enrichPoolsWithStateView: a pool with an address has the price the chain has; where there is no
\* contract or no answer it keeps the row's.
Enrich ==
    /\ build.stage = "views"
    /\ \/ build' = [build EXCEPT !.stage = "cex"]
       \/ /\ build.price # None
          /\ build' = [build EXCEPT !.stage = "cex", !.price = Largest(swaps), !.by = "view"]
    /\ UNCHANGED <<chain, tables, watcher, state, troubles>>

\* pickWatcherLastUpdated: the watcher's last sync; before the first its last log, or without it the
\* update of the cursor, either of which may be of any time.
LastUpdated(b) == IF b.health.sync # None THEN {b.health.sync} ELSE None..now

\* A time that is not known is fresh; the reserve's age is not asked.
IsStateFresh(evmUpdated, cexUpdated) ==
    /\ evmUpdated = None \/ now - evmUpdated <= EvmMaxAge
    /\ cexUpdated = None \/ now - cexUpdated <= CexMaxAge

\* sides: what the two best prices were taken from; updated: the exchange's watcher.lastUpdatedAt.
Finish(sides, updated) == \E evmUpdated \in LastUpdated(build) :
    /\ state' = IF ~IsStateFresh(evmUpdated, updated) THEN NoState
                ELSE [accepted |-> TRUE, price |-> build.price, by |-> build.by, head |-> build.head,
                      sync |-> build.health.sync, synced |-> build.health.head,
                      sides |-> sides, updated |-> updated, at |-> now]
    /\ build' = [NoBuild EXCEPT !.stage = "built"]

\* The snapshot of the MEXC watcher, which MexcFeed models; no answer leaves the empty market.
ReadFeed ==
    /\ build.stage = "cex"
    /\ \/ Finish({}, None)
       \/ \E updated \in None..now : Finish(IF updated = None THEN {} ELSE {"watcher"}, updated)
       \/ \E updated \in 0..now : build' = [build EXCEPT !.stage = "depth", !.updated = updated]
                                  /\ state' = state
    /\ UNCHANGED <<chain, tables, watcher, troubles>>

\* A book of fewer than five levels on a side is asked for again: of the exchange, each side that
\* is not empty taking the place of the watcher's.
ReadDepth ==
    /\ build.stage = "depth"
    /\ \E sides \in {{"rest"}, {"rest", "watcher"}, {"watcher"}, {}} : Finish(sides, build.updated)
    /\ UNCHANGED <<chain, tables, watcher, troubles>>

-----------------------------------------------------------------------------
Watching == Starts \/ Stops \/ SwapEvent \/ OtherEvent \/ SyncLatest \/ SyncSaves \/ SyncEnds \/ SyncFails

Building == ReadReserve \/ ReserveFails \/ ReadPools \/ ReadWatcher
            \/ (\E s \in Sources : ReadFails(s)) \/ Enrich \/ ReadFeed \/ ReadDepth

\* A behaviour ends with the state that is built: building one changes nothing that the next reads.
Next ==
    /\ build.stage # "built"
    /\ Tick \/ (Seen /\ Watching) \/ Building

Spec == Init /\ [][Next]_vars

-----------------------------------------------------------------------------
(* Properties *)

\* A pair is quoted at a price if any of its pools has one, in whatever order the rows come and
\* whatever their size and their last swaps.
ChosenIsPriced(metas) ==
    (\E i \in DOMAIN metas : Priced(PoolOf(metas[i]))) => Priced(ChoosePool(metas))

\* What is accepted as fresh is covered by what vouches for it.  A price from the tables is that
\* of the last swap the watcher's last sync could see, if that sync had ended when the pools were
\* read and no other pool's log had moved the cursor past a swap; and prices of the exchange come
\* with a time that is not too old.  (A watcher that is in its first sync vouches by its activity,
\* for swaps however old, and one that cannot be asked for anything.)
FreshStateIsVouchedFor ==
    state.accepted =>
        /\ state.price # None /\ state.by = "row" /\ state.sync # None
           /\ state.head = state.synced /\ ~missed
             => /\ state.price >= Largest({t \in swaps : t <= state.head})
                /\ state.at - state.sync <= EvmMaxAge
        /\ "watcher" \in state.sides
             => state.updated # None /\ state.at - state.updated <= CexMaxAge
===============================================================================
