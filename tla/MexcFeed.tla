-------------------------------- MODULE MexcFeed --------------------------------
(***************************************************************************)
(* The MEXC watcher: a websocket that reconnects (services/mexc/ws.ts), a  *)
(* REST poll beside it (apps/watchers/src/mexc/watcher.ts) and the         *)
(* snapshot both write, which the HTTP server hands out (snapshot.ts).     *)
(* SnapshotRows models the rows of the snapshot in the database.           *)
(*                                                                         *)
(* The exchange's book changes with every tick of the clock, so that the   *)
(* age of a book is a difference of times; "at" is when the exchange had a *)
(* book, and what the watcher calls its time is "ts".                      *)
(***************************************************************************)
EXTENDS Integers, Sequences, FiniteSets

CONSTANTS
    Sockets,     \* 1..n: connections of one run of the watcher
    Polls,       \* polls that may be under way at once: the timer does not wait for the last one
    MaxTime,     \* bound on the clock
    MaxFrames,   \* bound on the frames of a socket not handled yet
    MaxLosses    \* bound on lost connections and failed polls

None == -1

ASSUME FeedAssumption ==
    /\ IsFiniteSet(Sockets) /\ Sockets = 1..Cardinality(Sockets) /\ 1 \in Sockets
    /\ MaxTime \in Nat /\ MaxFrames \in Nat /\ MaxLosses \in Nat

VARIABLES
    now,
    sock,       \* each connection: "unused", "connecting", "open", "closing" or "closed"
    ws,         \* this.ws, the connection made last
    inbox,      \* frames sent on each connection and not handled yet
    timer,      \* reconnectTimer is set
    poll,       \* each poll: idle, asked, or the time the exchange answered it
    shown,      \* the snapshot's ticker and depth, and what brought them
    updated,    \* lastUpdatedAt
    live,       \* watcher.live
    running,
    losses

socket == <<sock, ws, inbox, timer>>
snapshot == <<shown, updated, live>>
vars == <<now, socket, poll, snapshot, running, losses>>

Topics == {"ticker", "depth"}
Events == {"ticker", "depth", "deals"}

\* Beside events: an acknowledgement, a payload the parser does not know, a refused subscription.
Bodies == Events \cup {"accepted", "unknown", "refused"}

Idle == -2
Times == None..MaxTime

TypeOK ==
    /\ now \in 0..MaxTime
    /\ sock \in [Sockets -> {"unused", "connecting", "open", "closing", "closed"}]
    /\ ws \in Sockets /\ timer \in BOOLEAN
    /\ inbox \in [Sockets -> Seq([body : Bodies, at : 0..MaxTime])]
    /\ poll \in [Polls -> Idle..MaxTime]
    /\ shown \in [Topics -> [at : Times, by : {"none", "frame", "poll"}]]
    /\ updated \in Times /\ live \in BOOLEAN
    /\ running \in BOOLEAN /\ losses \in 0..MaxLosses

Init ==
    /\ now = 0
    /\ sock = [s \in Sockets |-> IF s = 1 THEN "connecting" ELSE "unused"]
    /\ ws = 1 /\ inbox = [s \in Sockets |-> <<>>] /\ timer = FALSE
    /\ poll = [p \in Polls |-> Idle]
    /\ shown = [t \in Topics |-> [at |-> None, by |-> "none"]]
    /\ updated = None /\ live = FALSE
    /\ running = TRUE /\ losses = 0

Tick ==
    /\ running /\ now < MaxTime
    /\ now' = now + 1
    /\ UNCHANGED <<socket, poll, snapshot, running, losses>>

Loss == losses < MaxLosses /\ losses' = losses + 1

-----------------------------------------------------------------------------
(* The websocket *)

Opened(s) ==
    /\ running /\ sock[s] = "connecting"
    /\ sock' = [sock EXCEPT ![s] = "open"]
    /\ UNCHANGED <<now, ws, inbox, timer, poll, snapshot, running, losses>>

\* The exchange sends a frame: a body the parser knows, or one it does not.
Push(s, body) ==
    /\ running /\ sock[s] = "open" /\ Len(inbox[s]) < MaxFrames
    /\ inbox' = [inbox EXCEPT ![s] = Append(@, [body |-> body, at |-> now])]
    /\ UNCHANGED <<now, sock, ws, timer, poll, snapshot, running, losses>>

\* updateTicker, updateDepth and addTrade; trades bring neither of the two topics.
Show(topics, at, ts, by) ==
    /\ shown' = [t \in Topics |-> IF t \in topics THEN [at |-> at, by |-> by] ELSE shown[t]]
    /\ updated' = ts /\ live' = TRUE

\* A ticker, a book or trades, with the time the exchange sent them.
HandleEvent(frame) == Show({frame.body} \cap Topics, frame.at, frame.at, "frame")

HandleError == live' = FALSE /\ UNCHANGED <<shown, updated>>

\* parseSubscriptionError: what the exchange answers to a subscription is an error or nothing.
SubscriptionAnswered(frame) ==
    IF frame.body = "refused" THEN HandleError ELSE UNCHANGED snapshot

\* handleMessage.
Receive(s) ==
    /\ running /\ sock[s] \in {"open", "closing"} /\ inbox[s] # <<>>
    /\ LET frame == Head(inbox[s])
       IN  \/ frame.body \in {"accepted", "refused"} /\ SubscriptionAnswered(frame)
           \/ frame.body = "unknown" /\ HandleError
           \/ frame.body \in Events /\ HandleEvent(frame)
    /\ inbox' = [inbox EXCEPT ![s] = Tail(@)]
    /\ UNCHANGED <<now, sock, ws, timer, poll, running, losses>>

ErrorOf(s) ==
    /\ running /\ sock[s] \in {"connecting", "open"} /\ Loss
    /\ HandleError
    /\ UNCHANGED <<now, ws, inbox, poll, running>>

\* Mutant: the error handler schedules a reconnection of its own.
SocketErrorReconnects(s) ==
    ErrorOf(s) /\ sock' = [sock EXCEPT ![ws] = "closing"] /\ timer' = TRUE

\* Mutant: the error handler drops the connection with its listeners.
SocketErrorTerminates(s) ==
    ErrorOf(s) /\ sock' = [sock EXCEPT ![ws] = "closed"] /\ timer' = timer

\* An error: the watcher is marked, and this.ws is closed.
SocketError(s) ==
    ErrorOf(s) /\ sock' = [sock EXCEPT ![ws] = "closing"] /\ timer' = timer

\* The exchange hangs up: the watcher is not marked.
HangUp(s) ==
    /\ running /\ sock[s] = "open" /\ Loss
    /\ sock' = [sock EXCEPT ![s] = "closing"]
    /\ UNCHANGED <<now, ws, inbox, timer, poll, snapshot, running>>

\* The close event, and scheduleReconnect; frames that have not arrived are lost.
Closed(s) ==
    /\ running /\ sock[s] = "closing"
    /\ sock' = [sock EXCEPT ![s] = "closed"] /\ timer' = TRUE
    /\ inbox' = [inbox EXCEPT ![s] = <<>>]
    /\ UNCHANGED <<now, ws, poll, snapshot, running, losses>>

Reconnect ==
    /\ running /\ timer /\ ws + 1 \in Sockets
    /\ timer' = FALSE /\ ws' = ws + 1
    /\ sock' = [sock EXCEPT ![ws + 1] = "connecting"]
    /\ UNCHANGED <<now, inbox, poll, snapshot, running, losses>>

-----------------------------------------------------------------------------
(* The poll: asked, answered by the exchange, answer handled *)

PollSnapshot(p) ==
    /\ running /\ poll[p] = Idle
    /\ poll' = [poll EXCEPT ![p] = None]
    /\ UNCHANGED <<now, socket, snapshot, running, losses>>

Served(p) ==
    /\ poll[p] = None
    /\ poll' = [poll EXCEPT ![p] = now]
    /\ UNCHANGED <<now, socket, snapshot, running, losses>>

PollAnswered(p) ==
    /\ poll[p] \in Nat
    /\ Show(Topics, poll[p], now, "poll")
    /\ poll' = [poll EXCEPT ![p] = Idle]
    /\ UNCHANGED <<now, socket, running, losses>>

PollFails(p) ==
    /\ poll[p] # Idle /\ Loss
    /\ poll' = [poll EXCEPT ![p] = Idle]
    /\ UNCHANGED <<now, socket, snapshot, running>>

\* shutdown, after its flush: timers, listeners and the socket; a poll under way goes on.
Shutdown ==
    /\ running
    /\ running' = FALSE /\ live' = FALSE
    /\ timer' = FALSE /\ sock' = [sock EXCEPT ![ws] = "closed"]
    /\ UNCHANGED <<now, ws, inbox, poll, shown, updated, losses>>

-----------------------------------------------------------------------------
Websocket == \/ \E s \in Sockets : Opened(s) \/ Receive(s) \/ Closed(s)
             \/ Reconnect

Losses == \E s \in Sockets : SocketError(s) \/ HangUp(s)

Frames == \E s \in Sockets, body \in Bodies : Push(s, body)

Polling == \E p \in Polls : PollSnapshot(p) \/ Served(p) \/ PollAnswered(p) \/ PollFails(p)

Next == Tick \/ Websocket \/ Losses \/ Frames \/ Polling \/ Shutdown

Spec == Init /\ [][Next]_vars

\* A connection is made, closed and retried in the end; the exchange owes nothing else.
FairSpec == Spec /\ WF_vars(Websocket)

-----------------------------------------------------------------------------
(* Properties *)

Connected == {s \in Sockets : sock[s] \in {"connecting", "open", "closing"}}

\* One connection, or one timer that will make it: never two connections feeding one snapshot.
OneSocket == Cardinality(Connected) + (IF timer THEN 1 ELSE 0) <= 1

\* Only a poll's answer, which is not ordered with the frames, makes the book that is shown go
\* back in time: frames follow each other in the order of the exchange, across lost connections too.
FramesKeepTheirOrder ==
    [][shown'["depth"].at < shown["depth"].at
         => "poll" \in {shown["depth"].by, shown'["depth"].by}]_vars

\* A lost connection is replaced by an open one, unless the watcher is shut down.
ConnectionIsReplaced ==
    sock[ws] \in {"closing", "closed"}
        ~> (sock[ws] = "open" \/ ~running \/ ws = Cardinality(Sockets))
===============================================================================
