----------------------------- MODULE ReserveWatch -----------------------------
(***************************************************************************)
(* The Zephyr watcher (apps/watchers/src/zephyr): it asks the daemon for   *)
(* the reserve on a timer, whether or not the last answer has come, keeps  *)
(* the last answer, and a second timer writes a row of it at most once in  *)
(* DB_FLUSH_INTERVAL_MS.  A signal stops it; it may be started again.      *)
(* A reserve is the height it is of; the daemon's chain only grows.        *)
(***************************************************************************)
EXTENDS Integers, FiniteSets

CONSTANTS
    Ratios,      \* the reserve ratio at each height, spot and averaged, in percent
    FlushEvery,  \* ticks of the clock between two rows
    MaxTime,     \* bound on the clock
    MaxPolls,    \* bound on the requests under way
    MaxMishaps   \* bound on failed requests, failed inserts and restarts

None == -1

Heights == DOMAIN Ratios

ReserveAssumption ==
    /\ IsFiniteSet(Heights) /\ Heights = 0..Cardinality(Heights) - 1 /\ 0 \in Heights
    /\ Ratios \in [Heights -> Nat \X Nat]
    /\ FlushEvery \in Nat \ {0} /\ MaxTime \in Nat /\ MaxTime >= FlushEvery
    /\ MaxPolls \in Nat \ {0} /\ MaxMishaps \in Nat

VARIABLES
    now,
    height,     \* the daemon's
    phase,      \* "bootstrapping", "running" or "down"
    polls,      \* requests under way: when each was made, and the height then
    asked,      \* when the last was made
    raw,        \* state.raw
    inserts,    \* inserts under way, and whether the process that made it still runs
    pending,    \* flushPending
    lastFlush,  \* lastDbFlush
    rows,       \* the table ReserveSnapshot
    raced,      \* an answer was taken while another request was under way
    mishaps

process == <<phase, polls, asked, raw, pending, lastFlush>>
vars == <<now, height, process, inserts, rows, raced, mishaps>>

\* What a row says may be converted.
Permits(ratio, ma) ==
    [zsdMintable   |-> ratio >= 400 /\ ma >= 400,
     zsdRedeemable |-> TRUE,
     zrsMintable   |-> ratio >= 400 /\ ratio <= 800 /\ ma >= 400 /\ ma <= 800,
     zrsRedeemable |-> ratio >= 400 /\ ma >= 400]

Row(h) == [at |-> now, height |-> h, permits |-> Permits(Ratios[h][1], Ratios[h][2])]

Written == [at : 0..MaxTime, height : Heights,
            permits : {Permits(Ratios[h][1], Ratios[h][2]) : h \in Heights}]

TypeOK ==
    /\ now \in 0..MaxTime /\ height \in Heights /\ phase \in {"bootstrapping", "running", "down"}
    /\ polls \subseteq [at : 0..MaxTime, height : Heights] /\ Cardinality(polls) <= MaxPolls
    /\ asked \in None..MaxTime /\ raw \in Heights \cup {None}
    /\ inserts \subseteq [row : Written, own : BOOLEAN] /\ rows \subseteq Written
    /\ pending \in BOOLEAN /\ lastFlush \in 0..MaxTime
    /\ raced \in BOOLEAN /\ mishaps \in 0..MaxMishaps

Init ==
    /\ now = FlushEvery /\ height = 0 /\ phase = "bootstrapping"
    /\ polls = {[at |-> now, height |-> 0]} /\ asked = now
    /\ raw = None /\ inserts = {} /\ pending = FALSE /\ lastFlush = 0
    /\ rows = {} /\ raced = FALSE /\ mishaps = 0

Tick ==
    /\ now < MaxTime
    /\ now' = now + 1
    /\ UNCHANGED <<height, process, inserts, rows, raced, mishaps>>

NewBlock ==
    /\ height + 1 \in Heights
    /\ height' = height + 1
    /\ UNCHANGED <<now, process, inserts, rows, raced, mishaps>>

Mishap == mishaps < MaxMishaps /\ mishaps' = mishaps + 1

\* The interval of the poll timer is a tick.
PollReserve ==
    /\ phase = "running" /\ asked < now /\ Cardinality(polls) < MaxPolls
    /\ polls' = polls \cup {[at |-> now, height |-> height]} /\ asked' = now
    /\ UNCHANGED <<now, height, phase, raw, pending, lastFlush, inserts, rows, raced, mishaps>>

\* The first request is awaited, and then the timers are started, however it went.
Returned(poll) ==
    /\ polls' = polls \ {poll}
    /\ phase' = "running"
    /\ UNCHANGED <<now, height, asked, pending, lastFlush, inserts, rows>>

\* The daemon answered at some time since it was asked.
UpdateReserveState(poll) ==
    /\ phase # "down"
    /\ raw' \in poll.height..height
    /\ raced' = (raced \/ polls # {poll})
    /\ Returned(poll) /\ UNCHANGED mishaps

PollFails(poll) ==
    /\ phase # "down" /\ Mishap
    /\ Returned(poll) /\ UNCHANGED <<raw, raced>>

FlushReserveSnapshot ==
    /\ phase = "running" /\ ~pending /\ raw # None /\ now - lastFlush >= FlushEvery
    /\ inserts' = inserts \cup {[row |-> Row(raw), own |-> TRUE]} /\ pending' = TRUE
    /\ UNCHANGED <<now, height, phase, polls, asked, raw, lastFlush, rows, raced, mishaps>>

Inserted(i) ==
    /\ rows' = rows \cup {i.row} /\ inserts' = inserts \ {i}
    /\ IF i.own THEN pending' = FALSE /\ lastFlush' = i.row.at ELSE UNCHANGED <<pending, lastFlush>>
    /\ UNCHANGED <<now, height, phase, polls, asked, raw, raced, mishaps>>

InsertFails(i) ==
    /\ Mishap
    /\ inserts' = inserts \ {i} /\ pending' = (pending /\ ~i.own)
    /\ UNCHANGED <<now, height, phase, polls, asked, raw, lastFlush, rows, raced>>

\* shutdown has no await: the process exits with it.  An insert may have reached the database.
Shutdown ==
    /\ phase # "down"
    /\ phase' = "down" /\ polls' = {} /\ raw' = None /\ pending' = FALSE
    /\ asked' = None /\ lastFlush' = 0
    /\ inserts' = {[i EXCEPT !.own = FALSE] : i \in inserts}
    /\ UNCHANGED <<now, height, rows, raced, mishaps>>

\* Started again, it knows nothing of the rows there are.
StartZephyrWatcher ==
    /\ phase = "down" /\ Mishap
    /\ phase' = "bootstrapping" /\ polls' = {[at |-> now, height |-> height]} /\ asked' = now
    /\ UNCHANGED <<now, height, raw, pending, lastFlush, inserts, rows, raced>>

Next ==
    \/ Tick \/ NewBlock \/ PollReserve \/ FlushReserveSnapshot \/ Shutdown \/ StartZephyrWatcher
    \/ \E p \in polls : UpdateReserveState(p) \/ PollFails(p)
    \/ \E i \in inserts : Inserted(i) \/ InsertFails(i)

Spec == Init /\ [][Next]_vars

-----------------------------------------------------------------------------
(* Properties *)

\* The rows follow the chain, over restarts and whatever inserts were under way, unless two requests
\* were: then the older answer may come last.
RowsFollowTheChain ==
    ~raced => \A r, s \in rows : r.at < s.at => r.height <= s.height

\* A row says of the conversions what a policy says of its reserve.
RowsPermitWhat(policy(_, _)) ==
    \A r \in rows : r.permits = policy(Ratios[r.height][1], Ratios[r.height][2])
===============================================================================
