-------------------------------- MODULE MexcRelay --------------------------------
(***************************************************************************)
(* What a page of the dashboard sees of the MEXC watcher: the watcher      *)
(* hands out its snapshot over HTTP (apps/watchers/src/mexc/http.ts) and   *)
(* repeats its events on websockets (wsServer.ts), and the page asks for   *)
(* the one and connects to the others (apps/web/app/mexc).                 *)
(*                                                                         *)
(* The page has one such connection for each of three topics, independent  *)
(* of each other; a behaviour is about one.  An event is its number, and   *)
(* what the page shows of a topic the numbers it is made of, the last      *)
(* applied first: one ticker, the trades, or the books merged into one.    *)
(***************************************************************************)
EXTENDS Integers, Sequences, FiniteSets

CONSTANTS
    MaxRevision, \* bound on the events of the watcher
    Mounts,      \* 1..n: the times the page is opened
    MaxQueue,    \* bound on the frames on their way to a page
    MaxHitches   \* bound on lost connections, failed requests and restarts of the watcher

RelayAssumption ==
    /\ MaxRevision \in Nat /\ MaxQueue \in Nat /\ MaxHitches \in Nat
    /\ IsFiniteSet(Mounts) /\ Mounts = 1..Cardinality(Mounts)

VARIABLES
    topic,
    revision,  \* the last event of the watcher
    since,     \* the last event when the watcher was started, of which it knows nothing
    up,        \* the watcher runs
    clients,   \* connections the server has a record of
    mounts,    \* times the page was opened
    page,      \* the mount that is open, or 0
    conn,      \* the connection of each mount
    frames,    \* frames sent to it and not handled
    retry,     \* its reconnectTimer is set
    fetch,     \* its HTTP request
    screen,    \* what the page shows
    source,    \* where the last of it came from
    hitches

server == <<revision, since, up, clients>>
vars == <<topic, server, mounts, page, conn, frames, retry, fetch, screen, source, hitches>>

Topics == {"ticker", "depth", "trades"}
Alive == {"connecting", "open", "closing"}
NoRequest == [of |-> "none", items |-> <<>>]

TypeOK ==
    /\ topic \in Topics /\ revision \in 0..MaxRevision /\ since \in 0..revision /\ up \in BOOLEAN
    /\ clients \subseteq Mounts /\ mounts \in {0} \cup Mounts /\ page \in {0, mounts}
    /\ conn \in [Mounts -> Alive \cup {"none", "closed"}] /\ retry \in [Mounts -> BOOLEAN]
    /\ frames \in [Mounts -> Seq([items : Seq(1..MaxRevision), all : BOOLEAN])]
    /\ fetch \in [Mounts -> [of : {"none", "snapshot", "trades", "snapshot answer", "trades answer"}, items : Seq(1..MaxRevision)]]
    /\ screen \in Seq(1..MaxRevision) /\ source \in {"none", "frame", "answer"}
    /\ hitches \in 0..MaxHitches

Init ==
    /\ topic \in Topics /\ revision = 0 /\ since = 0 /\ up = TRUE /\ clients = {}
    /\ mounts = 0 /\ page = 0
    /\ conn = [m \in Mounts |-> "none"] /\ frames = [m \in Mounts |-> <<>>]
    /\ retry = [m \in Mounts |-> FALSE] /\ fetch = [m \in Mounts |-> NoRequest]
    /\ screen = <<>> /\ source = "none" /\ hitches = 0

Hitch == hitches < MaxHitches /\ hitches' = hitches + 1

-----------------------------------------------------------------------------
(* The watcher *)

\* Its snapshot of the topic, the last first: none, the last, or all the trades.
Snapshot ==
    CASE revision = since -> <<>>
      [] revision # since /\ topic = "trades" -> [i \in 1..revision - since |-> revision + 1 - i]
      [] OTHER -> <<revision>>

\* broadcast: to those that follow the topic and are open.
Broadcast ==
    /\ up /\ revision < MaxRevision
    /\ \A m \in clients : Len(frames[m]) < MaxQueue
    /\ revision' = revision + 1
    /\ frames' = [m \in Mounts |->
            IF m \in clients THEN Append(frames[m], [items |-> <<revision'>>, all |-> FALSE])
            ELSE frames[m]]
    /\ UNCHANGED <<topic, since, up, clients, mounts, page, conn, retry, fetch, screen, source, hitches>>

\* upgradeHandler and sendInitial; the page's open event follows.
Upgrade(m) ==
    /\ up /\ conn[m] = "connecting"
    /\ conn' = [conn EXCEPT ![m] = "open"] /\ clients' = clients \cup {m}
    /\ frames' = [frames EXCEPT ![m] =
            IF Snapshot = <<>> THEN <<>> ELSE <<[items |-> Snapshot, all |-> topic = "trades"]>>]
    /\ UNCHANGED <<topic, revision, since, up, mounts, page, retry, fetch, screen, source, hitches>>

\* shutdown, of both servers: every client is closed.
Shutdown ==
    /\ up /\ Hitch
    /\ up' = FALSE /\ clients' = {}
    /\ conn' = [m \in Mounts |-> IF m \in clients THEN "closing" ELSE conn[m]]
    /\ UNCHANGED <<topic, revision, since, mounts, page, frames, retry, fetch, screen, source>>

Restart ==
    /\ ~up
    /\ up' = TRUE /\ since' = revision
    /\ UNCHANGED <<topic, revision, clients, mounts, page, conn, frames, retry, fetch, screen, source, hitches>>

-----------------------------------------------------------------------------
(* The page's connection *)

\* The page is opened anew, with nothing on it: it asks for the snapshot and connects.
Mount ==
    /\ page = 0 /\ mounts + 1 \in Mounts
    /\ mounts' = mounts + 1 /\ page' = mounts'
    /\ conn' = [conn EXCEPT ![mounts'] = "connecting"]
    /\ fetch' = [fetch EXCEPT ![mounts'] = [of |-> "snapshot", items |-> <<>>]]
    /\ screen' = <<>> /\ source' = "none"
    /\ UNCHANGED <<topic, server, frames, retry, hitches>>

\* The effects' clean-up clears the timer and then closes the connection, whose close event is
\* still listened to.
Unmount ==
    /\ page # 0
    /\ page' = 0
    /\ retry' = [retry EXCEPT ![page] = FALSE]
    /\ conn' = [conn EXCEPT ![page] = IF @ \in {"connecting", "open"} THEN "closing" ELSE @]
    /\ UNCHANGED <<topic, server, mounts, frames, fetch, screen, source, hitches>>

\* A ticker replaces the last one, a book is merged into the one shown, a trade goes before the
\* others, and an array of trades replaces them.
Apply(frame, shown) ==
    CASE topic = "ticker" \/ frame.all -> frame.items
      [] OTHER -> frame.items \o shown

\* handleMessage: an event before the connection is closed; a page that was left shows nothing.
Receive(m) ==
    /\ conn[m] = "open" /\ frames[m] # <<>>
    /\ frames' = [frames EXCEPT ![m] = Tail(@)]
    /\ IF m = page THEN screen' = Apply(Head(frames[m]), screen) /\ source' = "frame"
       ELSE UNCHANGED <<screen, source>>
    /\ UNCHANGED <<topic, server, mounts, page, conn, retry, fetch, hitches>>

\* A connection is refused or lost: the error handler closes it.
SocketError(m) ==
    /\ \/ conn[m] = "connecting" /\ ~up /\ UNCHANGED hitches
       \/ conn[m] = "open" /\ Hitch
    /\ conn' = [conn EXCEPT ![m] = "closing"]
    /\ UNCHANGED <<topic, server, mounts, page, frames, retry, fetch, screen, source>>

\* The close event, at both ends: frames are lost, and scheduleReconnect.
Closed(m) ==
    /\ conn[m] = "closing"
    /\ conn' = [conn EXCEPT ![m] = "closed"] /\ frames' = [frames EXCEPT ![m] = <<>>]
    /\ clients' = clients \ {m} /\ retry' = [retry EXCEPT ![m] = TRUE]
    /\ UNCHANGED <<topic, revision, since, up, mounts, page, fetch, screen, source, hitches>>

Reconnect(m) ==
    /\ retry[m]
    /\ retry' = [retry EXCEPT ![m] = FALSE] /\ conn' = [conn EXCEPT ![m] = "connecting"]
    /\ UNCHANGED <<topic, server, mounts, page, frames, fetch, screen, source, hitches>>

-----------------------------------------------------------------------------
(* The page's request *)

Asked(m) == fetch[m].of \in {"snapshot", "trades"}

Ask(m, of, items) == fetch' = [fetch EXCEPT ![m] = [of |-> of, items |-> items]]

\* /snapshot and /trades; an answer is on its way while the watcher goes on.
Served(m) ==
    /\ up /\ Asked(m)
    /\ IF fetch[m].of = "snapshot" THEN Ask(m, "snapshot answer", Snapshot)
       ELSE Ask(m, "trades answer", IF topic = "trades" THEN Snapshot ELSE <<>>)
    /\ UNCHANGED <<topic, server, mounts, page, conn, frames, retry, screen, source, hitches>>

\* Without a snapshot, /trades is asked for; without trades nothing more.
FetchFails(m) ==
    /\ Asked(m)
    /\ IF up THEN Hitch ELSE UNCHANGED hitches
    /\ IF fetch[m].of = "snapshot" THEN Ask(m, "trades", <<>>) ELSE Ask(m, "none", <<>>)
    /\ UNCHANGED <<topic, server, mounts, page, conn, frames, retry, screen, source>>

\* A snapshot has something of the topic, and trades that are asked for may be none.
Brings(answer) ==
    \/ answer.of = "snapshot answer" /\ answer.items # <<>>
    \/ answer.of = "trades answer" /\ topic = "trades"

\* A page that was left ignores the answer.  What it brings replaces what is shown, however old it
\* has become; after a snapshot without trades these are asked for.
Answered(m) ==
    /\ fetch[m].of \in {"snapshot answer", "trades answer"}
    /\ IF m = page /\ topic = "trades" /\ fetch[m].of = "snapshot answer" /\ ~Brings(fetch[m])
       THEN Ask(m, "trades", <<>>) ELSE Ask(m, "none", <<>>)
    /\ IF m = page /\ Brings(fetch[m]) THEN screen' = fetch[m].items /\ source' = "answer"
       ELSE UNCHANGED <<screen, source>>
    /\ UNCHANGED <<topic, server, mounts, page, conn, frames, retry, hitches>>

-----------------------------------------------------------------------------
Connection(m) == Upgrade(m) \/ Receive(m) \/ SocketError(m) \/ Closed(m) \/ Reconnect(m)

Request(m) == Served(m) \/ FetchFails(m) \/ Answered(m)

Next ==
    \/ Broadcast \/ Shutdown \/ Restart \/ Mount \/ Unmount
    \/ \E m \in Mounts : Connection(m) \/ Request(m)

Spec == Init /\ [][Next]_vars

-----------------------------------------------------------------------------
(* Properties *)

\* Each mount has one connection, or one timer that will make it, for as long as it is open (and,
\* if it had one when it was left, for ever after), and the server keeps no record of a closed one.
OneConnection ==
    /\ \A m \in Mounts : ~(conn[m] \in Alive /\ retry[m])
    /\ page # 0 => conn[page] \in Alive \/ retry[page]
    /\ \A m \in clients : conn[m] \in {"open", "closing"}

\* Only the HTTP answer, which is not ordered with the frames, makes a page go back: across lost
\* connections and restarts of the watcher the frames follow each other.
PageKeepsItsOrder ==
    [][screen # <<>> /\ screen' # <<>> /\ screen'[1] < screen[1] => "answer" \in {source, source'}]_vars
===============================================================================
