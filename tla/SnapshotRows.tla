------------------------------ MODULE SnapshotRows ------------------------------
(***************************************************************************)
(* The rows a watcher writes of its snapshot: a timer that flushes at most *)
(* one row in DB_FLUSH_INTERVAL_MS, guarded by flushPending, and the flush *)
(* of a shutdown that resets both guards while an insert may be under way  *)
(* (apps/watchers/src/mexc/snapshot.ts).  A ticker is the time it is of.   *)
(***************************************************************************)
EXTENDS Integers, FiniteSets

CONSTANTS
    FlushEvery,  \* ticks of the clock between two rows
    MaxTime,     \* bound on the clock
    MaxFailures  \* bound on failed inserts

None == -1

\* What the constants must be.
RowsAssumption == FlushEvery \in Nat \ {0} /\ MaxTime \in Nat /\ MaxTime >= FlushEvery /\ MaxFailures \in Nat

VARIABLES
    now,
    ticker,     \* state.ticker
    inserts,    \* inserts under way: when each was started, its ticker, and whether it is the last
    pending,    \* flushPending
    lastFlush,  \* lastDbFlush
    rows,       \* the rows written: the ticker of each, and when it was captured
    final,      \* the ticker when the shutdown began
    phase,      \* "running", "flushing" or "down"
    failures, lost

guards == <<pending, lastFlush>>
vars == <<now, ticker, inserts, guards, rows, final, phase, failures, lost>>

Rows == [at : 0..MaxTime, ticker : 0..MaxTime]

TypeOK ==
    /\ now \in 0..MaxTime /\ ticker \in None..MaxTime
    /\ inserts \subseteq [at : 0..MaxTime, ticker : 0..MaxTime, final : BOOLEAN]
    /\ pending \in BOOLEAN /\ lastFlush \in 0..MaxTime
    /\ rows \subseteq Rows /\ final \in None..MaxTime
    /\ phase \in {"running", "flushing", "down"}
    /\ failures \in 0..MaxFailures /\ lost \in BOOLEAN

Init ==
    /\ now = FlushEvery /\ ticker = None
    /\ inserts = {} /\ pending = FALSE /\ lastFlush = 0 /\ rows = {}
    /\ final = None /\ phase = "running" /\ failures = 0 /\ lost = FALSE

Tick ==
    /\ phase # "down" /\ now < MaxTime
    /\ now' = now + 1
    /\ UNCHANGED <<ticker, inserts, guards, rows, final, phase, failures, lost>>

\* A ticker of the feed.
Update ==
    /\ phase # "down"
    /\ ticker' = now
    /\ UNCHANGED <<now, inserts, guards, rows, final, phase, failures, lost>>

\* What persistToDb asks before it inserts, its two guards given.
Persists(held, flushed) == ~held /\ now - flushed >= FlushEvery /\ ticker # None

Insert(isFinal) == inserts \cup {[at |-> now, ticker |-> ticker, final |-> isFinal]}

FlushTimer ==
    /\ phase = "running" /\ Persists(pending, lastFlush)
    /\ inserts' = Insert(FALSE) /\ pending' = TRUE
    /\ UNCHANGED <<now, ticker, lastFlush, rows, final, phase, failures, lost>>

Flushes(held) ==
    /\ phase = "running"
    /\ phase' = "flushing" /\ final' = ticker /\ lastFlush' = 0
    /\ IF Persists(held, 0)
       THEN inserts' = Insert(TRUE) /\ pending' = TRUE
       ELSE inserts' = inserts /\ pending' = held
    /\ UNCHANGED <<now, ticker, rows, failures, lost>>

\* Mutant: a flush on shutdown that leaves the pending insert its turn.
FlushToDbPolitely == Flushes(pending)

\* flushToDbNow, on shutdown: both guards are reset, whatever is under way.
FlushToDbNow == Flushes(FALSE)

Inserted(i) ==
    /\ phase # "down"
    /\ inserts' = inserts \ {i} /\ rows' = rows \cup {[at |-> i.at, ticker |-> i.ticker]}
    /\ lastFlush' = i.at /\ pending' = FALSE
    /\ UNCHANGED <<now, ticker, final, phase, failures, lost>>

InsertFails(i) ==
    /\ phase # "down" /\ failures < MaxFailures
    /\ inserts' = inserts \ {i} /\ pending' = FALSE
    /\ failures' = failures + 1 /\ lost' = (lost \/ i.final)
    /\ UNCHANGED <<now, ticker, lastFlush, rows, final, phase>>

\* The rest of shutdown, when its flush has returned.
Stop ==
    /\ phase = "flushing" /\ \A i \in inserts : ~i.final
    /\ phase' = "down"
    /\ UNCHANGED <<now, ticker, inserts, guards, rows, final, failures, lost>>

Next ==
    \/ Tick \/ Update \/ FlushTimer \/ FlushToDbNow \/ Stop
    \/ \E i \in inserts : Inserted(i) \/ InsertFails(i)

Spec == Init /\ [][Next]_vars

-----------------------------------------------------------------------------
(* Properties *)

\* A shutdown leaves a row of the ticker it found, unless its own insert failed: whatever inserts
\* were under way, and however short a time ago the last row was written.
ShutdownPersists ==
    phase = "down" /\ final # None /\ ~lost => \E r \in rows : r.ticker = final
===============================================================================
