---------------------------- MODULE MexcRelayProofs ----------------------------
(***************************************************************************)
(* A page that is open has one connection to the watcher, or one timer     *)
(* that will make it, whatever is lost and however often the watcher is    *)
(* restarted: Spec => []OneConnection, for any mounts of the page.         *)
(*                                                                         *)
(* OneConnection is nearly inductive.  What it does not say is that a      *)
(* mount to come has neither a connection nor a timer: without it, opening *)
(* the page could give it a second one.                                    *)
(*                                                                         *)
(* And frames never set the page back, by a second invariant (Follows).    *)
(* The last section has the types of what the page is sent and shows.      *)
(***************************************************************************)
EXTENDS MexcRelay, FiniteSetTheorems, TLAPS

States == Alive \cup {"none", "closed"}

\* The connections, timers and mounts keep their types.
Typed ==
    /\ conn \in [Mounts -> States] /\ retry \in [Mounts -> BOOLEAN]
    /\ clients \subseteq Mounts /\ mounts \in {0} \cup Mounts /\ page \in {0, mounts}

\* Mounts come in their order, and one to come has nothing yet.
Unmounted == \A m \in Mounts : m > mounts => conn[m] = "none" /\ ~retry[m]

IInv == Typed /\ Unmounted /\ OneConnection

USE DEF server

LEMMA MountsAreNumbers ==
    ASSUME RelayAssumption
    PROVE  Mounts \subseteq Int /\ 0 \notin Mounts
<1>1. Cardinality(Mounts) \in Nat
  BY FS_CardinalityType DEF RelayAssumption
<1> QED
  BY <1>1 DEF RelayAssumption

LEMMA InitHolds == ASSUME RelayAssumption, Init PROVE IInv
<1>1. Typed
  BY DEF Init, Typed, States
<1>2. Unmounted /\ OneConnection
  BY DEF Init, Unmounted, OneConnection, Alive
<1> QED
  BY <1>1, <1>2 DEF IInv

\* The page is opened: the new mount has its first connection.
LEMMA MountKeeps == ASSUME RelayAssumption, IInv, Mount PROVE IInv'
<1> USE DEF IInv, Typed
<1>1. /\ mounts' \in Mounts /\ mounts' = mounts + 1 /\ page' = mounts' /\ mounts \in Int
      /\ conn' = [conn EXCEPT ![mounts'] = "connecting"] /\ UNCHANGED <<retry, clients>>
  BY MountsAreNumbers DEF Mount
<1>2. mounts' > mounts
  BY <1>1
<1>3. conn[mounts'] = "none" /\ ~retry[mounts'] /\ mounts' \notin clients
  BY <1>1, <1>2 DEF Unmounted, OneConnection
<1>4. Typed'
  BY <1>1 DEF States, Alive
<1>5. \A m \in Mounts : m > mounts' => m > mounts /\ m # mounts'
  BY <1>1, MountsAreNumbers
<1>6. Unmounted'
  BY <1>1, <1>5 DEF Unmounted
<1>7. OneConnection'
  BY <1>1, <1>3 DEF OneConnection, Alive
<1> QED
  BY <1>4, <1>6, <1>7

\* The page is left: its timer is cleared, and its connection closes.
LEMMA UnmountKeeps == ASSUME RelayAssumption, IInv, Unmount PROVE IInv'
<1> USE DEF IInv, Typed
<1>1. /\ page \in Mounts /\ page = mounts /\ page' = 0 /\ UNCHANGED <<mounts, clients>>
      /\ retry' = [retry EXCEPT ![page] = FALSE]
      /\ conn' = [conn EXCEPT ![page] = IF @ \in {"connecting", "open"} THEN "closing" ELSE @]
  BY DEF Unmount
<1>2. Typed'
  BY <1>1 DEF States, Alive
<1>3. Unmounted'
  BY <1>1, MountsAreNumbers DEF Unmounted
<1>4. OneConnection'
  BY <1>1 DEF OneConnection, Alive
<1> QED
  BY <1>2, <1>3, <1>4

\* The watcher stops: every connection it knows is closing.
LEMMA ShutdownKeeps == ASSUME RelayAssumption, IInv, Shutdown PROVE IInv'
<1> USE DEF IInv, Typed
<1>1. /\ conn' = [m \in Mounts |-> IF m \in clients THEN "closing" ELSE conn[m]]
      /\ clients' = {} /\ UNCHANGED <<mounts, page, retry>>
  BY DEF Shutdown
<1>2. Typed'
  BY <1>1 DEF States, Alive
<1>3. Unmounted'
  BY <1>1 DEF Unmounted, OneConnection
<1>4. OneConnection'
  BY <1>1 DEF OneConnection, Alive
<1> QED
  BY <1>2, <1>3, <1>4

\* One connection is opened, fails, is closed, or is made again.
LEMMA ConnectionKeeps ==
    ASSUME RelayAssumption, IInv, NEW m \in Mounts, Connection(m)
    PROVE  IInv'
<1> USE DEF IInv, Typed
<1>1. CASE Upgrade(m)
  <2>1. /\ conn[m] = "connecting" /\ conn' = [conn EXCEPT ![m] = "open"]
        /\ clients' = clients \cup {m} /\ UNCHANGED <<mounts, page, retry>>
    BY <1>1 DEF Upgrade
  <2>2. Typed' /\ Unmounted'
    BY <2>1 DEF States, Alive, Unmounted
  <2>3. OneConnection'
    BY <2>1 DEF OneConnection, Alive
  <2> QED
    BY <2>2, <2>3
<1>2. CASE Receive(m)
  <2>1. UNCHANGED <<conn, clients, mounts, page, retry>>
    BY <1>2 DEF Receive
  <2> QED
    BY <2>1 DEF Unmounted, OneConnection
<1>3. CASE SocketError(m)
  <2>1. /\ conn[m] \in {"connecting", "open"} /\ conn' = [conn EXCEPT ![m] = "closing"]
        /\ UNCHANGED <<clients, mounts, page, retry>>
    BY <1>3 DEF SocketError
  <2>2. Typed' /\ Unmounted'
    BY <2>1 DEF States, Alive, Unmounted
  <2>3. OneConnection'
    BY <2>1 DEF OneConnection, Alive
  <2> QED
    BY <2>2, <2>3
<1>4. CASE Closed(m)
  <2>1. /\ conn[m] = "closing" /\ conn' = [conn EXCEPT ![m] = "closed"]
        /\ clients' = clients \ {m} /\ retry' = [retry EXCEPT ![m] = TRUE]
        /\ UNCHANGED <<mounts, page>>
    BY <1>4 DEF Closed
  <2>2. Typed' /\ Unmounted'
    BY <2>1 DEF States, Alive, Unmounted
  <2>3. OneConnection'
    BY <2>1 DEF OneConnection, Alive
  <2> QED
    BY <2>2, <2>3
<1>5. CASE Reconnect(m)
  <2>1. /\ retry[m] /\ conn' = [conn EXCEPT ![m] = "connecting"]
        /\ retry' = [retry EXCEPT ![m] = FALSE] /\ UNCHANGED <<mounts, page, clients>>
    BY <1>5 DEF Reconnect
  <2>2. m \notin clients
    BY <2>1 DEF OneConnection, Alive
  <2>3. Typed' /\ Unmounted'
    BY <2>1 DEF States, Alive, Unmounted
  <2>4. OneConnection'
    BY <2>1, <2>2 DEF OneConnection, Alive
  <2> QED
    BY <2>3, <2>4
<1> QED
  BY <1>1, <1>2, <1>3, <1>4, <1>5 DEF Connection

LEMMA StepHolds == ASSUME RelayAssumption, IInv, [Next]_vars PROVE IInv'
<1>1. CASE Mount
  BY <1>1, MountKeeps
<1>2. CASE Unmount
  BY <1>2, UnmountKeeps
<1>3. CASE Shutdown
  BY <1>3, ShutdownKeeps
<1>4. ASSUME NEW m \in Mounts, Connection(m)
      PROVE  IInv'
  BY <1>4, ConnectionKeeps
<1>5. ASSUME UNCHANGED <<conn, clients, mounts, page, retry>>
      PROVE  IInv'
  BY <1>5 DEF IInv, Typed, Unmounted, OneConnection
<1>6. CASE Broadcast \/ Restart \/ UNCHANGED vars
  BY <1>5, <1>6 DEF Broadcast, Restart, vars
<1>7. ASSUME NEW m \in Mounts, Request(m)
      PROVE  IInv'
  BY <1>5, <1>7 DEF Request, Served, FetchFails, Answered
<1> QED
  BY <1>1, <1>2, <1>3, <1>4, <1>6, <1>7 DEF Next

\* The page and the server agree on one connection, through every loss, restart and reconnection
\* (useMexcWebSocket.ts; wsServer.ts).
THEOREM OnePageConnection == ASSUME RelayAssumption PROVE Spec => []OneConnection
<1>1. Init => IInv
  BY InitHolds
<1>2. IInv /\ [Next]_vars => IInv'
  BY StepHolds
<1>3. IInv => OneConnection
  BY DEF IInv
<1> QED
  BY <1>1, <1>2, <1>3, PTL DEF Spec

-----------------------------------------------------------------------------
(***************************************************************************)
(* Frames never set the page back.  Those on their way to a mount have     *)
(* the heads in the order of the events, none beyond the last event; and   *)
(* what frames have made of the page is not ahead of those to come.  An    *)
(* answer breaks the second, until the next frame replaces its head.       *)
(***************************************************************************)
Frames == [items : Seq(Int), all : BOOLEAN]
Requests == [of : {"none", "snapshot", "trades", "snapshot answer", "trades answer"}, items : Seq(Int)]

Queued ==
    /\ revision \in Nat /\ since \in Nat /\ since <= revision
    /\ frames \in [Mounts -> Seq(Frames)]
    /\ fetch \in [Mounts -> Requests]
    /\ screen \in Seq(Int) /\ source \in {"none", "frame", "answer"}
    /\ \A m \in Mounts : \A i \in 1..Len(frames[m]) :
        /\ frames[m][i].items # <<>> /\ frames[m][i].items[1] <= revision
        /\ \A j \in 1..Len(frames[m]) : i <= j => frames[m][i].items[1] <= frames[m][j].items[1]

NotAhead ==
    /\ source = "none" => screen = <<>>
    /\ source = "frame" =>
        /\ screen # <<>> /\ screen[1] <= revision
        /\ page # 0 => \A i \in 1..Len(frames[page]) : screen[1] <= frames[page][i].items[1]

Follows == Queued /\ NotAhead

LEMMA SnapshotIsLatest ==
    ASSUME Queued
    PROVE  Snapshot \in Seq(Int) /\ (Snapshot # <<>> => Snapshot[1] = revision)
<1>1. CASE revision = since
  BY <1>1 DEF Snapshot
<1>2. CASE revision # since /\ topic = "trades"
  <2> DEFINE n == revision - since
             trades == [i \in 1..n |-> revision + 1 - i]
  <2>1. n \in Nat \ {0} /\ revision \in Int
    BY <1>2 DEF Queued
  <2>2. Snapshot = trades
    BY <1>2 DEF Snapshot
  <2>3. trades \in Seq(Int) /\ trades[1] = revision
    BY <2>1
  <2> QED
    BY <2>2, <2>3
<1>3. CASE revision # since /\ topic # "trades"
  <2>1. Snapshot = <<revision>> /\ revision \in Int
    BY <1>3 DEF Snapshot, Queued
  <2> QED
    BY <2>1
<1> QED
  BY <1>1, <1>2, <1>3

LEMMA FollowsInit == ASSUME Init PROVE Follows
<1>1. /\ revision = 0 /\ since = 0 /\ screen = <<>> /\ source = "none"
      /\ frames = [m \in Mounts |-> <<>>] /\ fetch = [m \in Mounts |-> NoRequest]
  BY DEF Init
<1>2. fetch \in [Mounts -> Requests]
  BY <1>1 DEF NoRequest, Requests
<1>3. frames \in [Mounts -> Seq(Frames)] /\ \A m \in Mounts : Len(frames[m]) = 0
  BY <1>1
<1>4. Queued
  BY <1>1, <1>2, <1>3 DEF Queued
<1> QED
  BY <1>1, <1>4 DEF Follows, NotAhead

\* The heads of the frames are numbers.
LEMMA HeadsAreNumbers ==
    ASSUME Queued, NEW m \in Mounts, NEW i \in 1..Len(frames[m])
    PROVE  /\ frames[m][i] \in Frames /\ frames[m][i].items # <<>>
           /\ frames[m][i].items[1] \in Int /\ frames[m][i].items[1] <= revision
<1>1. frames[m] \in Seq(Frames)
  BY DEF Queued
<1>2. frames[m][i] \in Frames
  BY <1>1
<1>3. frames[m][i].items \in Seq(Int)
  BY <1>2 DEF Frames
<1>4. frames[m][i].items # <<>> /\ frames[m][i].items[1] <= revision
  BY DEF Queued
<1> QED
  BY <1>2, <1>3, <1>4

LEMMA HeadsAreInOrder ==
    ASSUME Queued, NEW m \in Mounts, NEW i \in 1..Len(frames[m]), NEW j \in 1..Len(frames[m]), i <= j
    PROVE  frames[m][i].items[1] <= frames[m][j].items[1]
BY DEF Queued

\* An event goes to every client, after the events before it.
LEMMA BroadcastFollows ==
    ASSUME RelayAssumption, Typed, Follows, Broadcast
    PROVE  Follows'
<1> DEFINE frame == [items |-> <<revision + 1>>, all |-> FALSE]
<1>1. /\ revision' = revision + 1 /\ UNCHANGED <<since, page, fetch, screen, source>>
      /\ frames' = [m \in Mounts |-> IF m \in clients THEN Append(frames[m], frame) ELSE frames[m]]
  BY DEF Broadcast
<1>2. /\ frame \in Frames /\ frame.items # <<>> /\ frame.items[1] = revision + 1
  BY DEF Follows, Queued, Frames
<1> HIDE DEF frame
<1>3. ASSUME NEW m \in Mounts
      PROVE  /\ frames'[m] \in Seq(Frames) /\ Len(frames[m]) \in Nat
             /\ \A i \in 1..Len(frames[m]) : frames'[m][i] = frames[m][i]
             /\ \/ Len(frames'[m]) = Len(frames[m])
                \/ Len(frames'[m]) = Len(frames[m]) + 1 /\ frames'[m][Len(frames'[m])] = frame
  BY <1>1, <1>2 DEF Follows, Queued
<1>4. ASSUME NEW m \in Mounts, NEW i \in 1..Len(frames'[m])
      PROVE  \/ i \in 1..Len(frames[m]) /\ frames'[m][i] = frames[m][i]
             \/ i = Len(frames[m]) + 1 /\ frames'[m][i] = frame
  BY <1>3
<1>5. ASSUME NEW m \in Mounts, NEW i \in 1..Len(frames[m])
      PROVE  /\ frames[m][i].items # <<>> /\ frames[m][i].items[1] \in Int
             /\ frames[m][i].items[1] <= revision
  BY HeadsAreNumbers DEF Follows
<1>6. ASSUME NEW m \in Mounts, NEW i \in 1..Len(frames'[m])
      PROVE  /\ frames'[m][i].items # <<>> /\ frames'[m][i].items[1] <= revision'
             /\ \A j \in 1..Len(frames'[m]) : i <= j => frames'[m][i].items[1] <= frames'[m][j].items[1]
  <2>1. revision \in Nat /\ revision' = revision + 1
    BY <1>1 DEF Follows, Queued
  <2>2. frames'[m][i].items # <<>> /\ frames'[m][i].items[1] <= revision'
    <3>1. CASE i \in 1..Len(frames[m]) /\ frames'[m][i] = frames[m][i]
      BY <1>5, <2>1, <3>1
    <3>2. CASE frames'[m][i] = frame
      BY <1>2, <2>1, <3>2
    <3> QED
      BY <1>4, <3>1, <3>2
  <2>3. ASSUME NEW j \in 1..Len(frames'[m]), i <= j
        PROVE  frames'[m][i].items[1] <= frames'[m][j].items[1]
    <3>1. CASE j = Len(frames[m]) + 1 /\ frames'[m][j] = frame
      BY <1>2, <1>4, <1>5, <2>1, <3>1
    <3>2. CASE j \in 1..Len(frames[m]) /\ frames'[m][j] = frames[m][j]
      <4>1. i \in 1..Len(frames[m]) /\ frames'[m][i] = frames[m][i]
        BY <1>3, <1>4, <2>3, <3>2
      <4> QED
        BY <2>3, <3>2, <4>1 DEF Follows, Queued
    <3> QED
      BY <1>4, <3>1, <3>2
  <2> QED
    BY <2>2, <2>3
<1>7. frames' \in [Mounts -> Seq(Frames)]
  BY <1>1, <1>3
<1>8. Queued'
  BY <1>1, <1>6, <1>7 DEF Follows, Queued
<1>9. NotAhead'
  <2>1. ASSUME source = "frame", page # 0, NEW i \in 1..Len(frames'[page])
        PROVE  screen[1] <= frames'[page][i].items[1]
    <3>1. page \in Mounts /\ screen # <<>> /\ screen[1] <= revision /\ screen[1] \in Int
      <4>1. screen \in Seq(Int) /\ screen # <<>>
        BY <2>1 DEF Follows, NotAhead, Queued
      <4> QED
        BY <2>1, <4>1 DEF Typed, Follows, NotAhead
    <3>2. CASE i \in 1..Len(frames[page]) /\ frames'[page][i] = frames[page][i]
      BY <2>1, <3>2 DEF Follows, NotAhead
    <3>3. CASE frames'[page][i] = frame
      BY <1>2, <3>1, <3>3 DEF Follows, Queued
    <3> QED
      BY <1>4, <3>1, <3>2, <3>3
  <2>2. source = "frame" => screen # <<>> /\ screen[1] <= revision + 1
    BY DEF Follows, NotAhead, Queued
  <2> QED
    BY <1>1, <2>1, <2>2 DEF Follows, NotAhead
<1> QED
  BY <1>8, <1>9 DEF Follows

\* Whatever leaves the frames, the page and the screen alone keeps their order.
LEMMA OthersFollow ==
    ASSUME Follows, UNCHANGED <<revision, frames, page, screen, source>>,
           since' \in Nat, since' <= revision, fetch' \in [Mounts -> Requests]
    PROVE  Follows'
BY DEF Follows, Queued, NotAhead

\* A connection is opened: its one frame is the snapshot, and nothing is newer.
LEMMA UpgradeFollows ==
    ASSUME RelayAssumption, Typed, Follows, NEW m \in Mounts, Upgrade(m)
    PROVE  Follows'
<1> DEFINE frame == [items |-> Snapshot, all |-> topic = "trades"]
<1>1. /\ UNCHANGED <<revision, since, page, fetch, screen, source>>
      /\ frames' = [frames EXCEPT ![m] = IF Snapshot = <<>> THEN <<>> ELSE <<frame>>]
  BY DEF Upgrade
<1>2. frame \in Frames /\ (Snapshot # <<>> => frame.items # <<>> /\ frame.items[1] = revision)
  BY SnapshotIsLatest DEF Follows, Frames
<1> HIDE DEF frame
<1>3. /\ frames' \in [Mounts -> Seq(Frames)]
      /\ \A k \in Mounts : k # m => frames'[k] = frames[k]
      /\ \/ Len(frames'[m]) = 0
         \/ Snapshot # <<>> /\ Len(frames'[m]) = 1 /\ frames'[m][1] = frame
  BY <1>1, <1>2 DEF Follows, Queued
<1>4. ASSUME NEW i \in 1..Len(frames'[m])
      PROVE  frames'[m][i].items # <<>> /\ frames'[m][i].items[1] = revision
  <2>1. i = 1 /\ Snapshot # <<>> /\ frames'[m][i] = frame
    BY <1>3
  <2> QED
    BY <1>2, <2>1
<1>5. revision \in Nat
  BY DEF Follows, Queued
<1>6. Queued'
  <2>1. ASSUME NEW k \in Mounts, NEW i \in 1..Len(frames'[k])
        PROVE  /\ frames'[k][i].items # <<>> /\ frames'[k][i].items[1] <= revision
               /\ \A j \in 1..Len(frames'[k]) : i <= j => frames'[k][i].items[1] <= frames'[k][j].items[1]
    <3>1. CASE k = m
      BY <1>4, <1>5, <3>1
    <3>2. CASE k # m
      BY <1>3, <3>2 DEF Follows, Queued
    <3> QED
      BY <3>1, <3>2
  <2> QED
    BY <1>1, <1>3, <2>1 DEF Follows, Queued
<1>7. NotAhead'
  <2>1. ASSUME source = "frame", page # 0, NEW i \in 1..Len(frames'[page])
        PROVE  screen[1] <= frames'[page][i].items[1]
    <3>1. page \in Mounts
      BY <2>1 DEF Typed
    <3>2. CASE page = m
      BY <1>4, <2>1, <3>2 DEF Follows, NotAhead
    <3>3. CASE page # m
      BY <1>3, <2>1, <3>1, <3>3 DEF Follows, NotAhead
    <3> QED
      BY <3>2, <3>3
  <2> QED
    BY <1>1, <2>1 DEF Follows, NotAhead
<1> QED
  BY <1>6, <1>7 DEF Follows

\* A frame is handled: the page shows its head first, and those after it are not older.
LEMMA ReceiveFollows ==
    ASSUME RelayAssumption, Typed, Follows, NEW m \in Mounts, Receive(m)
    PROVE  /\ Follows'
           /\ source = "frame" /\ screen' # screen => screen'[1] >= screen[1]
<1> DEFINE head == Head(frames[m])
<1>1. /\ frames[m] # <<>> /\ frames' = [frames EXCEPT ![m] = Tail(@)]
      /\ UNCHANGED <<revision, since, page, fetch>>
      /\ \/ m = page /\ screen' = Apply(head, screen) /\ source' = "frame"
         \/ m # page /\ UNCHANGED <<screen, source>>
  BY DEF Receive
<1>2. /\ frames[m] \in Seq(Frames) /\ Len(frames[m]) \in Nat /\ 1 \in 1..Len(frames[m])
      /\ head = frames[m][1]
  BY <1>1 DEF Follows, Queued
<1>3. head \in Frames /\ head.items # <<>> /\ head.items[1] \in Int /\ head.items[1] <= revision
  BY <1>2, HeadsAreNumbers DEF Follows
<1>4. head.items \in Seq(Int) /\ screen \in Seq(Int)
  BY <1>3 DEF Frames, Follows, Queued
<1> HIDE DEF head
<1>5. Apply(head, screen) \in Seq(Int) /\ Apply(head, screen) # <<>> /\ Apply(head, screen)[1] = head.items[1]
  <2>1. head.items \o screen \in Seq(Int) /\ head.items \o screen # <<>>
        /\ (head.items \o screen)[1] = head.items[1]
    BY <1>3, <1>4
  <2> QED
    BY <1>3, <1>4, <2>1 DEF Apply
<1>6. /\ frames' \in [Mounts -> Seq(Frames)]
      /\ \A k \in Mounts : k # m => frames'[k] = frames[k]
      /\ frames'[m] = Tail(frames[m]) /\ Len(frames'[m]) = Len(frames[m]) - 1
  BY <1>1, <1>2 DEF Follows, Queued
<1>7. ASSUME NEW i \in 1..Len(frames'[m])
      PROVE  i + 1 \in 1..Len(frames[m]) /\ frames'[m][i] = frames[m][i + 1]
  BY <1>2, <1>6
<1>8. ASSUME NEW i \in 1..Len(frames'[m])
      PROVE  head.items[1] <= frames'[m][i].items[1]
  <2>1. i + 1 \in 1..Len(frames[m]) /\ 1 <= i + 1 /\ frames'[m][i] = frames[m][i + 1]
    BY <1>7
  <2> QED
    BY <1>2, <2>1, HeadsAreInOrder DEF Follows
<1>9. Queued'
  <2>1. ASSUME NEW k \in Mounts, NEW i \in 1..Len(frames'[k])
        PROVE  /\ frames'[k][i].items # <<>> /\ frames'[k][i].items[1] <= revision
               /\ \A j \in 1..Len(frames'[k]) : i <= j => frames'[k][i].items[1] <= frames'[k][j].items[1]
    <3>1. CASE k = m
      <4>1. /\ i + 1 \in 1..Len(frames[m]) /\ frames'[k][i] = frames[m][i + 1]
            /\ \A j \in 1..Len(frames'[k]) :
                  /\ j + 1 \in 1..Len(frames[m]) /\ frames'[k][j] = frames[m][j + 1]
                  /\ i <= j => i + 1 <= j + 1
        BY <1>7, <3>1
      <4> QED
        BY <4>1, HeadsAreNumbers, HeadsAreInOrder DEF Follows
    <3>2. CASE k # m
      BY <1>6, <3>2 DEF Follows, Queued
    <3> QED
      BY <3>1, <3>2
  <2>2. screen' \in Seq(Int) /\ source' \in {"none", "frame", "answer"}
    BY <1>1, <1>5 DEF Follows, Queued
  <2> QED
    BY <1>1, <1>6, <2>1, <2>2 DEF Follows, Queued
<1>10. NotAhead' /\ (source = "frame" /\ screen' # screen => screen'[1] >= screen[1])
  <2>1. CASE m = page
    <3>1. screen' # <<>> /\ screen'[1] = head.items[1] /\ screen'[1] <= revision /\ source' = "frame"
      BY <1>1, <1>3, <1>5, <2>1
    <3>2. \A i \in 1..Len(frames'[page]) : screen'[1] <= frames'[page][i].items[1]
      BY <1>8, <2>1, <3>1
    <3>3. ASSUME source = "frame"
          PROVE  screen[1] <= head.items[1] /\ screen[1] \in Int
      <4>1. screen # <<>> /\ page # 0 /\ \A i \in 1..Len(frames[page]) : screen[1] <= frames[page][i].items[1]
        BY <2>1, <3>3, MountsAreNumbers DEF Follows, NotAhead
      <4>2. screen[1] \in Int
        BY <1>4, <4>1
      <4> QED
        BY <1>2, <2>1, <4>1, <4>2
    <3> QED
      BY <1>1, <1>3, <3>1, <3>2, <3>3 DEF NotAhead
  <2>2. CASE m # page
    <3>1. UNCHANGED <<screen, source, page>>
      BY <1>1, <2>2
    <3>2. page # 0 => frames'[page] = frames[page]
      BY <1>6, <2>2 DEF Typed
    <3> QED
      BY <1>1, <3>1, <3>2 DEF Follows, NotAhead
  <2> QED
    BY <2>1, <2>2
<1> QED
  BY <1>9, <1>10 DEF Follows

\* The connection is closed, and its frames are lost.
LEMMA ClosedFollows ==
    ASSUME RelayAssumption, Typed, Follows, NEW m \in Mounts, Closed(m)
    PROVE  Follows'
<1>1. /\ frames' = [frames EXCEPT ![m] = <<>>]
      /\ UNCHANGED <<revision, since, page, fetch, screen, source>>
  BY DEF Closed
<1>2. /\ frames' \in [Mounts -> Seq(Frames)]
      /\ \A k \in Mounts : frames'[k] = frames[k] \/ Len(frames'[k]) = 0
  BY <1>1 DEF Follows, Queued
<1>3. page \in {0} \cup Mounts
  BY DEF Typed
<1> QED
  BY <1>1, <1>2, <1>3 DEF Follows, Queued, NotAhead

\* The page is opened with nothing on it, or left as it is.
LEMMA MountsFollow ==
    ASSUME RelayAssumption, Typed, Follows, Mount \/ Unmount
    PROVE  Follows' /\ (screen' = screen \/ screen' = <<>>)
<1>1. CASE Mount
  <2>1. /\ screen' = <<>> /\ source' = "none" /\ UNCHANGED <<revision, since, frames>>
        /\ fetch' = [fetch EXCEPT ![mounts'] = [of |-> "snapshot", items |-> <<>>]]
    BY <1>1 DEF Mount
  <2>2. [of |-> "snapshot", items |-> <<>>] \in Requests
    BY DEF Requests
  <2>3. fetch \in [Mounts -> Requests]
    BY DEF Follows, Queued
  <2>4. fetch' \in [Mounts -> Requests]
    BY <2>1, <2>2, <2>3
  <2> QED
    BY <2>1, <2>4 DEF Follows, Queued, NotAhead
<1>2. CASE Unmount
  BY <1>2 DEF Unmount, Follows, Queued, NotAhead
<1> QED
  BY <1>1, <1>2

\* A request is served, fails, or is answered: what the answer brings is shown as one.
LEMMA RequestFollows ==
    ASSUME RelayAssumption, Typed, Follows, NEW m \in Mounts, Request(m)
    PROVE  Follows' /\ (screen' = screen \/ source' = "answer")
<1>1. UNCHANGED <<revision, since, frames, page>>
  BY DEF Request, Served, FetchFails, Answered
<1>2. Snapshot \in Seq(Int) /\ fetch[m].items \in Seq(Int)
  BY SnapshotIsLatest DEF Follows, Queued, Requests
<1>3. fetch' \in [Mounts -> Requests]
  <2>1. ASSUME NEW of \in {"none", "snapshot", "trades", "snapshot answer", "trades answer"},
               NEW items \in Seq(Int), Ask(m, of, items)
        PROVE  fetch' \in [Mounts -> Requests]
    BY <2>1 DEF Ask, Follows, Queued, Requests
  <2>2. <<>> \in Seq(Int)
    OBVIOUS
  <2>3. CASE Served(m)
    BY <1>2, <2>1, <2>2, <2>3 DEF Served
  <2>4. CASE FetchFails(m)
    BY <2>1, <2>2, <2>4 DEF FetchFails
  <2>5. CASE Answered(m)
    BY <2>1, <2>2, <2>5 DEF Answered
  <2> QED
    BY <2>3, <2>4, <2>5 DEF Request
<1>4. \/ UNCHANGED <<screen, source>>
      \/ screen' = fetch[m].items /\ source' = "answer"
  BY DEF Request, Served, FetchFails, Answered
<1>5. CASE UNCHANGED <<screen, source>>
  BY <1>1, <1>3, <1>5, OthersFollow DEF Follows, Queued
<1>6. CASE screen' = fetch[m].items /\ source' = "answer"
  BY <1>1, <1>2, <1>3, <1>6 DEF Follows, Queued, NotAhead
<1> QED
  BY <1>4, <1>5, <1>6

LEMMA StepFollows ==
    ASSUME RelayAssumption, Typed, Follows, [Next]_vars
    PROVE  /\ Follows'
           /\ \/ screen' = screen \/ screen' = <<>> \/ source' = "answer"
              \/ source = "frame" => screen'[1] >= screen[1]
<1>1. CASE Broadcast
  BY <1>1, BroadcastFollows DEF Broadcast
<1>2. CASE Restart
  BY <1>2, OthersFollow DEF Restart, Follows, Queued
<1>3. CASE Mount \/ Unmount
  BY <1>3, MountsFollow
<1>4. CASE Shutdown
  BY <1>4, OthersFollow DEF Shutdown, Follows, Queued
<1>5. ASSUME NEW m \in Mounts, Connection(m)
      PROVE  /\ Follows'
             /\ screen' = screen \/ (source = "frame" => screen'[1] >= screen[1])
  <2>1. CASE Upgrade(m)
    BY <2>1, UpgradeFollows DEF Upgrade
  <2>2. CASE Receive(m)
    BY <2>2, ReceiveFollows
  <2>3. CASE Closed(m)
    BY <2>3, ClosedFollows DEF Closed
  <2>4. CASE SocketError(m) \/ Reconnect(m)
    BY <2>4, OthersFollow DEF SocketError, Reconnect, Follows, Queued
  <2> QED
    BY <1>5, <2>1, <2>2, <2>3, <2>4 DEF Connection
<1>6. ASSUME NEW m \in Mounts, Request(m)
      PROVE  Follows' /\ (screen' = screen \/ source' = "answer")
  BY <1>6, RequestFollows
<1>7. CASE UNCHANGED vars
  BY <1>7, OthersFollow DEF vars, Follows, Queued
<1> QED
  BY <1>1, <1>2, <1>3, <1>4, <1>5, <1>6, <1>7 DEF Next

\* What a step may never do to the page.
LEMMA StepKeepsPage ==
    ASSUME RelayAssumption, Typed, Follows, [Next]_vars, screen # <<>>, screen' # <<>>, screen'[1] < screen[1]
    PROVE  "answer" \in {source, source'}
<1>1. Follows'
  BY StepFollows
<1>2. screen[1] \in Int /\ screen'[1] \in Int
  <2>1. screen \in Seq(Int) /\ screen' \in Seq(Int)
    BY <1>1 DEF Follows, Queued
  <2> QED
    BY <2>1
<1>3. source \in {"frame", "answer"}
  BY DEF Follows, Queued, NotAhead
<1>4. \/ source' = "answer" \/ (source = "frame" => screen'[1] >= screen[1])
  BY <1>2, StepFollows
<1> QED
  BY <1>2, <1>3, <1>4

\* Only an HTTP answer makes the page go back: across lost connections and restarts of the watcher
\* the frames follow each other (wsServer.ts, sendInitial and broadcast; useMexcWebSocket.ts).
THEOREM PageFollows == ASSUME RelayAssumption PROVE Spec => PageKeepsItsOrder
<1>1. Init => IInv /\ Follows
  BY InitHolds, FollowsInit
<1>2. IInv /\ Follows /\ [Next]_vars => IInv' /\ Follows'
  BY StepHolds, StepFollows DEF IInv
<1>3. IInv /\ Follows /\ [Next]_vars =>
          [screen # <<>> /\ screen' # <<>> /\ screen'[1] < screen[1] => "answer" \in {source, source'}]_vars
  BY StepKeepsPage DEF IInv
<1> QED
  BY <1>1, <1>2, <1>3, PTL DEF Spec, PageKeepsItsOrder

-----------------------------------------------------------------------------
(***************************************************************************)
(* The types of the rest: what is on the page, on its way to it, and asked *)
(* for is made of the numbers of events.                                   *)
(***************************************************************************)
Numbers == Seq(1..MaxRevision)
Sent == [items : Numbers, all : BOOLEAN]
RequestKinds == {"none", "snapshot", "trades", "snapshot answer", "trades answer"}
Answers == [of : RequestKinds, items : Numbers]

ShownTyped ==
    /\ topic \in Topics /\ revision \in 0..MaxRevision /\ since \in 0..revision /\ up \in BOOLEAN
    /\ frames \in [Mounts -> Seq(Sent)] /\ fetch \in [Mounts -> Answers]
    /\ screen \in Numbers /\ source \in {"none", "frame", "answer"} /\ hitches \in 0..MaxHitches

LEMMA ShownBegins == ASSUME RelayAssumption, Init PROVE ShownTyped
<1>1. <<>> \in Numbers /\ frames \in [Mounts -> Seq(Sent)]
  BY DEF Init, Numbers
<1>2. NoRequest \in Answers
  BY <1>1 DEF NoRequest, Answers, RequestKinds
<1> QED
  BY <1>1, <1>2 DEF Init, ShownTyped, RelayAssumption

LEMMA SnapshotTyped ==
    ASSUME RelayAssumption, ShownTyped
    PROVE  Snapshot \in Numbers
<1>1. revision \in Int /\ since \in Int /\ 0 <= since /\ since <= revision /\ revision <= MaxRevision /\ MaxRevision \in Nat
  BY DEF ShownTyped, RelayAssumption
<1>2. CASE revision = since
  BY <1>2 DEF Snapshot, Numbers
<1>3. CASE revision # since /\ topic = "trades"
  <2> DEFINE n == revision - since
             trades == [i \in 1..n |-> revision + 1 - i]
             sent == 1..MaxRevision
  <2>1. n \in Nat
    BY <1>1
  <2>2. \A i \in 1..n : revision + 1 - i \in 1..MaxRevision
    BY <1>1

  <2>3. trades \in [1..n -> sent]
    BY <2>2
  <2>4. trades \in Numbers
    <3> HIDE DEF n, trades, sent
    <3>1. trades \in Seq(sent)
      BY <2>1, <2>3
    <3> QED
      BY <3>1 DEF Numbers, sent
  <2> QED
    BY <1>3, <2>4 DEF Snapshot
<1>4. CASE revision # since /\ topic # "trades"
  <2>1. revision \in 1..MaxRevision
    BY <1>1, <1>4
  <2>2. Snapshot = <<revision>>
    BY <1>4 DEF Snapshot
  <2>3. <<revision>> \in Numbers
    BY <2>1 DEF Numbers
  <2> QED
    BY <2>2, <2>3
<1> QED
  BY <1>2, <1>3, <1>4

LEMMA HitchTyped == ASSUME RelayAssumption, ShownTyped, Hitch PROVE hitches' \in 0..MaxHitches
BY DEF RelayAssumption, ShownTyped, Hitch

\* Frames are sent, dropped and handled.
LEMMA FramesTyped ==
    ASSUME RelayAssumption, ShownTyped, NEW m \in Mounts, Connection(m)
    PROVE  ShownTyped'
<1>1. UNCHANGED <<topic, revision, since, up, fetch>>
  BY DEF Connection, Upgrade, Receive, SocketError, Closed, Reconnect
<1>2. hitches' \in 0..MaxHitches
  BY HitchTyped DEF Connection, Upgrade, Receive, SocketError, Closed, Reconnect, ShownTyped
<1>3. frames[m] \in Seq(Sent)
  BY DEF ShownTyped
<1>4. frames' \in [Mounts -> Seq(Sent)]
  <2>1. CASE Upgrade(m)
    <3> DEFINE one == [items |-> Snapshot, all |-> topic = "trades"]
    <3>1. one \in Sent
      BY SnapshotTyped DEF Sent
    <3>2. frames' = [frames EXCEPT ![m] = IF Snapshot = <<>> THEN <<>> ELSE <<one>>]
      BY <2>1 DEF Upgrade
    <3> HIDE DEF one
    <3>3. <<>> \in Seq(Sent) /\ <<one>> \in Seq(Sent)
      BY <3>1
    <3> QED
      BY <3>2, <3>3 DEF ShownTyped
  <2>2. CASE Receive(m)
    <3>1. frames[m] # <<>> /\ frames' = [frames EXCEPT ![m] = Tail(frames[m])]
      BY <2>2 DEF Receive
    <3>2. Tail(frames[m]) \in Seq(Sent)
      BY <1>3, <3>1
    <3> QED
      BY <3>1, <3>2 DEF ShownTyped
  <2>3. CASE Closed(m)
    <3>1. frames' = [frames EXCEPT ![m] = <<>>] /\ <<>> \in Seq(Sent)
      BY <2>3 DEF Closed
    <3> QED
      BY <3>1 DEF ShownTyped
  <2>4. CASE SocketError(m) \/ Reconnect(m)
    BY <2>4 DEF SocketError, Reconnect, ShownTyped
  <2> QED
    BY <2>1, <2>2, <2>3, <2>4 DEF Connection
<1>5. screen' \in Numbers /\ source' \in {"none", "frame", "answer"}
  <2>1. CASE Receive(m)
    <3> DEFINE frame == Head(frames[m])
    <3>1. frames[m] # <<>>
      BY <2>1 DEF Receive
    <3>2. frame \in Sent
      BY <1>3, <3>1
    <3>3. frame.items \in Numbers /\ screen \in Numbers
      BY <3>2 DEF Sent, ShownTyped
    <3>4. frame.items \o screen \in Numbers
      <4> HIDE DEF frame
      <4> QED
        BY <3>3 DEF Numbers
    <3> QED
      BY <2>1, <3>3, <3>4 DEF Receive, Apply, ShownTyped
  <2>2. CASE UNCHANGED <<screen, source>>
    BY <2>2 DEF ShownTyped
  <2> QED
    BY <2>1, <2>2 DEF Connection, Upgrade, SocketError, Closed, Reconnect
<1> QED
  BY <1>1, <1>2, <1>4, <1>5 DEF ShownTyped

LEMMA AnswersTyped ==
    ASSUME RelayAssumption, ShownTyped, NEW m \in Mounts, Request(m)
    PROVE  ShownTyped'
<1>1. UNCHANGED <<topic, revision, since, up, frames>>
  BY DEF Request, Served, FetchFails, Answered
<1>2. hitches' \in 0..MaxHitches
  BY HitchTyped DEF Request, Served, FetchFails, Answered, ShownTyped
<1>3. fetch[m].items \in Numbers /\ <<>> \in Numbers /\ Snapshot \in Numbers
  <2>1. fetch[m] \in Answers
    BY DEF ShownTyped
  <2>2. <<>> \in Numbers
    BY DEF Numbers
  <2> QED
    BY <2>1, <2>2, SnapshotTyped DEF Answers
<1>4. \E of \in RequestKinds, items \in Numbers : Ask(m, of, items)
  BY <1>3 DEF Request, Served, FetchFails, Answered, RequestKinds
<1>5. fetch' \in [Mounts -> Answers]
  BY <1>4 DEF Ask, Answers, ShownTyped
<1>6. screen' \in Numbers /\ source' \in {"none", "frame", "answer"}
  BY <1>3 DEF Request, Served, FetchFails, Answered, ShownTyped
<1> QED
  BY <1>1, <1>2, <1>5, <1>6 DEF ShownTyped

LEMMA StepShown ==
    ASSUME RelayAssumption, ShownTyped, [Next]_vars
    PROVE  ShownTyped'
<1>0. MaxRevision \in Nat /\ revision \in 0..MaxRevision /\ since \in 0..revision
  BY DEF RelayAssumption, ShownTyped
<1>1. CASE Broadcast
  <2> DEFINE new == [items |-> <<revision'>>, all |-> FALSE]
  <2>1. /\ revision' = revision + 1 /\ revision < MaxRevision
        /\ frames' = [m \in Mounts |-> IF m \in clients THEN Append(frames[m], new) ELSE frames[m]]
        /\ UNCHANGED <<topic, since, up, fetch, screen, source, hitches>>
    BY <1>1 DEF Broadcast
  <2>2. revision' \in 1..MaxRevision /\ since' \in 0..revision' /\ revision' \in 0..MaxRevision
    BY <1>0, <2>1
  <2>3. <<revision'>> \in Numbers
    BY <2>2 DEF Numbers
  <2>4. new \in Sent
    BY <2>3 DEF Sent
  <2> HIDE DEF new
  <2>5. \A m \in Mounts : Append(frames[m], new) \in Seq(Sent)
    BY <2>4 DEF ShownTyped
  <2>6. frames' \in [Mounts -> Seq(Sent)]
    BY <2>1, <2>5 DEF ShownTyped
  <2> QED
    BY <2>1, <2>2, <2>6 DEF ShownTyped
<1>2. CASE Shutdown
  <2>1. hitches' \in 0..MaxHitches
    BY <1>2, HitchTyped DEF Shutdown
  <2> QED
    BY <1>2, <2>1 DEF Shutdown, ShownTyped
<1>3. CASE Restart
  <2>1. since' \in 0..revision'
    BY <1>0, <1>3 DEF Restart
  <2> QED
    BY <1>3, <2>1 DEF Restart, ShownTyped
<1>4. CASE Mount
  <2>1. /\ fetch' = [fetch EXCEPT ![mounts'] = [of |-> "snapshot", items |-> <<>>]]
        /\ screen' = <<>> /\ source' = "none"
        /\ UNCHANGED <<topic, server, frames, hitches>>
    BY <1>4 DEF Mount
  <2>2. <<>> \in Numbers
    BY DEF Numbers
  <2>3. [of |-> "snapshot", items |-> <<>>] \in Answers
    BY <2>2 DEF Answers, RequestKinds
  <2>4. fetch' \in [Mounts -> Answers]
    BY <2>1, <2>3 DEF ShownTyped
  <2> QED
    BY <2>1, <2>2, <2>4 DEF ShownTyped
<1>5. CASE Unmount
  BY <1>5 DEF Unmount, ShownTyped
<1>6. CASE UNCHANGED vars
  BY <1>6 DEF vars, ShownTyped
<1> QED
  BY <1>1, <1>2, <1>3, <1>4, <1>5, <1>6, FramesTyped, AnswersTyped DEF Next

LEMMA ShownIsTyped == Typed /\ ShownTyped => TypeOK
BY DEF Typed, States, ShownTyped, TypeOK, Sent, Answers, RequestKinds, Numbers
===============================================================================
