------------------------------ MODULE MarketProofs ------------------------------
(***************************************************************************)
(* What is proved of the parts of the Market, for any values of its        *)
(* constants.                                                              *)
(*                                                                         *)
(* A behaviour of the market is a behaviour of each of its parts, or       *)
(* leaves it alone (PartsBegin, PartsStep); so an invariant of a part is   *)
(* one of the market.  Of the page and the table the invariants are those  *)
(* of MexcRelayProofs and InventoryTableProofs.  After each part's         *)
(* invariant come its types, which MarketQuestionProofs puts together;     *)
(* and at the end what is asked once of the liquidity mathematics.         *)
(***************************************************************************)
EXTENDS Market, FiniteSetTheorems, WellFoundedInduction, TLAPS

USE DEF rowsVars, strategyVars, clipVars, stateVars, accountVars, fileVars, relayVars, reserveVars, tableVars,
        others, paperVars

-----------------------------------------------------------------------------
(* A behaviour of the market is one of each of its parts *)

\* Whatever part a behaviour is about, all others but the strategies are in an initial state of theirs.
LEMMA PartsBegin ==
    ASSUME MarketInit
    PROVE  /\ Init /\ Rows!Init /\ Reserve!Init /\ Global!Init /\ Account!Init /\ File!Init
           /\ Table!Init /\ Relay!Init /\ Clip!Init
           /\ part = "strategies" => Runs!Init
BY DEF MarketInit

\* And a step of the market is a step of each of its parts, or leaves it alone.
LEMMA PartsStep ==
    ASSUME [MarketNext]_allVars
    PROVE  /\ [Next]_vars /\ [Rows!Next]_(Rows!vars) /\ [Reserve!Next]_(Reserve!vars)
           /\ [Relay!Next]_(Relay!vars) /\ [Runs!Next]_(Runs!vars) /\ [Clip!Next]_(Clip!vars)
           /\ [Global!Next]_(Global!vars) /\ [Account!Next]_(Account!vars)
           /\ [File!Next]_(File!vars) /\ [Table!Next]_(Table!vars) /\ UNCHANGED <<part, case>>
<1> USE DEF Rows!vars, Rows!guards, Reserve!vars, Reserve!process, Relay!vars, Relay!server, Runs!vars,
            Clip!vars, Clip!bracket, Global!vars, Global!chain, Global!tables, Global!watcher,
            Account!vars, File!vars, Table!vars, Table!engine
<1>1. CASE FeedStep /\ UNCHANGED <<part, case>>
  BY <1>1 DEF FeedStep
<1>2. CASE RowsStep /\ UNCHANGED <<part, case>>
  BY <1>2 DEF RowsStep, vars
<1>3. CASE RelayStep /\ UNCHANGED <<part, case>>
  BY <1>3 DEF RelayStep, vars
<1>4. CASE ReserveStep /\ UNCHANGED <<part, case>>
  BY <1>4 DEF ReserveStep, vars
<1>5. CASE StrategyStep /\ UNCHANGED <<part, case>>
  BY <1>5 DEF StrategyStep, vars
<1>6. CASE ClipStep /\ UNCHANGED <<part, case>>
  BY <1>6 DEF ClipStep, vars
<1>7. CASE StateStep /\ UNCHANGED <<part, case>>
  BY <1>7 DEF StateStep, vars
<1>8. CASE AccountStep /\ UNCHANGED <<part, case>>
  BY <1>8 DEF AccountStep, vars
<1>9. CASE FileStep /\ UNCHANGED <<part, case>>
  BY <1>9 DEF FileStep, vars
<1>10. CASE TableStep /\ UNCHANGED <<part, case>>
  BY <1>10 DEF TableStep, vars
<1>11. CASE UNCHANGED allVars
  BY <1>11 DEF allVars
<1> QED
  BY <1>1, <1>2, <1>3, <1>4, <1>5, <1>6, <1>7, <1>8, <1>9, <1>10, <1>11 DEF MarketNext

-----------------------------------------------------------------------------
(***************************************************************************)
(* Numbers.  The induction theorems of the library take the formula as a   *)
(* parameter; these take the set of the numbers it holds of.               *)
(***************************************************************************)

\* There is a least of some numbers.
LEMMA LeastOfSome ==
    ASSUME NEW S, S # {}, S \subseteq Nat
    PROVE  \E n \in S : \A m \in S : n <= m
<1>1. PICK n \in S : \A m \in S : <<m, n>> \notin OpToRel(<, Nat)
  BY NatLessThanWellFounded, WFMin
<1>2. \A m \in S : ~(m < n)
  BY <1>1 DEF OpToRel
<1> QED
  BY <1>2

\* And a largest of some that are bounded.
LEMMA LargestOfSome ==
    ASSUME NEW n \in Nat, NEW S, S # {}, S \subseteq 0..n
    PROVE  \E g \in S : \A m \in S : m <= g
<1> DEFINE T == {n - s : s \in S}
<1>1. T # {} /\ T \subseteq Nat
  <2>1. PICK s \in S : TRUE
    OBVIOUS
  <2>2. n - s \in T
    BY <2>1
  <2>3. \A s1 \in S : n - s1 \in Nat
    OBVIOUS
  <2> QED
    BY <2>2, <2>3
<1>2. PICK t \in T : \A u \in T : t <= u
  BY <1>1, LeastOfSome
<1>3. PICK g \in S : t = n - g
  BY <1>2
<1>4. ASSUME NEW m \in S
      PROVE  m <= g
  <2>1. n - m \in T /\ m \in Int /\ g \in Int
    OBVIOUS
  <2>2. n - g <= n - m
    BY <1>2, <1>3, <2>1
  <2> QED
    BY <2>1, <2>2
<1> QED
  BY <1>4

\* What is true of 0, and of the next of every number of which it is true, is true of all.
LEMMA Inductively ==
    ASSUME NEW S, 0 \in S, \A n \in Nat : n \in S => n + 1 \in S
    PROVE  Nat \subseteq S
<1> DEFINE Others == Nat \ S
<1> SUFFICES ASSUME Others # {} PROVE FALSE
  OBVIOUS
<1>1. PICK n \in Others : \A m \in Others : n <= m
  BY LeastOfSome
<1>2. n # 0
  OBVIOUS
<1>3. n - 1 \in Nat /\ n = (n - 1) + 1
  BY <1>2
<1>4. n - 1 \in Others
  BY <1>3
<1> QED
  BY <1>1, <1>4

-----------------------------------------------------------------------------
(***************************************************************************)
(* The websocket of the MEXC watcher, for any number of reconnections,     *)
(* polls and frames: there is never a second connection, because the       *)
(* handlers of a connection are gone when the next is made; and what they  *)
(* show follows the exchange, because the frames of a lost connection are  *)
(* lost with it.                                                           *)
(***************************************************************************)

Alive == {"connecting", "open", "closing"}

\* The connection made last is the only one that is not closed, and the timer is set only when it is.
Latest ==
    /\ ws \in Sockets /\ sock \in [Sockets -> Alive \cup {"unused", "closed"}] /\ timer \in BOOLEAN
    /\ \A s \in Sockets : sock[s] \in Alive => s = ws
    /\ sock[ws] \in Alive => ~timer
    /\ \A s \in Sockets : s > ws => sock[s] = "unused"

LEMMA SocketsAreNumbers == 1 \in Sockets /\ \A s \in Sockets : s \in Nat /\ s >= 1
BY FeedAssumption, FS_CardinalityType

LEMMA LatestInit == Init => Latest
<1> SUFFICES ASSUME Init PROVE Latest
  OBVIOUS
<1>1. ws = 1 /\ ws \in Sockets /\ timer = FALSE
  BY SocketsAreNumbers DEF Init
<1>2. sock = [s \in Sockets |-> IF s = 1 THEN "connecting" ELSE "unused"]
  BY DEF Init
<1> QED
  <2>1. \A s \in Sockets : sock[s] = IF s = 1 THEN "connecting" ELSE "unused"
    BY <1>2
  <2>2. \A s \in Sockets : s > 1 => s # 1
    BY SocketsAreNumbers
  <2> QED
    BY <1>1, <1>2, <2>1, <2>2 DEF Latest, Alive

\* What a step may do to the connections: nothing, a new state of the one that is not closed, its
\* end, the next one, or the end of the watcher.
Moves(x) == sock[ws] \in Alive /\ sock' = [sock EXCEPT ![ws] = x] /\ ws' = ws

SocketStep ==
    \/ UNCHANGED <<sock, ws, timer>>
    \/ \E x \in Alive : Moves(x) /\ timer' = timer
    \/ Moves("closed") /\ timer' = TRUE
    \/ /\ timer /\ ws + 1 \in Sockets /\ ws' = ws + 1 /\ timer' = FALSE
       /\ sock' = [sock EXCEPT ![ws + 1] = "connecting"]
    \/ sock' = [sock EXCEPT ![ws] = "closed"] /\ timer' = FALSE /\ ws' = ws

LEMMA NextMovesSockets == Latest /\ [Next]_vars => SocketStep
<1> SUFFICES ASSUME Latest, [Next]_vars PROVE SocketStep
  OBVIOUS
<1>1. ASSUME NEW s \in Sockets, Opened(s) PROVE SocketStep
  BY <1>1 DEF Opened, Latest, Alive, SocketStep, Moves
<1>2. ASSUME NEW s \in Sockets, SocketError(s) PROVE SocketStep
  BY <1>2 DEF SocketError, ErrorOf, Latest, Alive, SocketStep, Moves
<1>3. ASSUME NEW s \in Sockets, HangUp(s) PROVE SocketStep
  BY <1>3 DEF HangUp, Latest, Alive, SocketStep, Moves
<1>4. ASSUME NEW s \in Sockets, Closed(s) PROVE SocketStep
  BY <1>4 DEF Closed, Latest, Alive, SocketStep, Moves
<1>5. CASE Reconnect
  BY <1>5 DEF Reconnect, SocketStep
<1>6. CASE Shutdown
  BY <1>6 DEF Shutdown, SocketStep
<1>7. CASE UNCHANGED <<sock, ws, timer>>
  BY <1>7 DEF SocketStep
<1> QED
  BY <1>1, <1>2, <1>3, <1>4, <1>5, <1>6, <1>7
     DEF Next, vars, socket, Websocket, Losses, Frames, Polling, Tick, Receive, Push, PollSnapshot, Served,
         PollAnswered, PollFails

LEMMA LatestNext == Latest /\ [Next]_vars => Latest'
<1> SUFFICES ASSUME Latest, SocketStep PROVE Latest'
  BY NextMovesSockets
<1>0. ws \in Sockets /\ ws \in Nat
  BY SocketsAreNumbers DEF Latest
<1>1. CASE UNCHANGED <<sock, ws, timer>>
  BY <1>1 DEF Latest
<1>2. ASSUME NEW x \in Alive, Moves(x), timer' = timer PROVE Latest'
  BY <1>0, <1>2 DEF Latest, Moves, Alive
<1>3. CASE Moves("closed") /\ timer' = TRUE
  BY <1>0, <1>3 DEF Latest, Moves, Alive
<1>4. CASE /\ timer /\ ws + 1 \in Sockets /\ ws' = ws + 1 /\ timer' = FALSE
           /\ sock' = [sock EXCEPT ![ws + 1] = "connecting"]
  <2>1. \A s \in Sockets : sock[s] \notin Alive
    BY <1>4 DEF Latest
  <2>2. \A s \in Sockets : sock'[s] = IF s = ws + 1 THEN "connecting" ELSE sock[s]
    BY <1>4 DEF Latest
  <2>3. \A s \in Sockets : s > ws + 1 => s > ws /\ s # ws + 1
    BY <1>0, SocketsAreNumbers
  <2> QED
    BY <1>4, <2>1, <2>2, <2>3 DEF Latest, Alive
<1>5. CASE sock' = [sock EXCEPT ![ws] = "closed"] /\ timer' = FALSE /\ ws' = ws
  <2>1. \A s \in Sockets : sock'[s] = IF s = ws THEN "closed" ELSE sock[s]
    BY <1>5 DEF Latest
  <2>2. \A s \in Sockets : s > ws => s # ws
    BY <1>0, SocketsAreNumbers
  <2> QED
    BY <1>0, <1>5, <2>1, <2>2 DEF Latest, Alive
<1> QED
  BY <1>1, <1>2, <1>3, <1>4, <1>5 DEF SocketStep

LEMMA LatestIsOne == Latest => OneSocket
<1> SUFFICES ASSUME Latest PROVE OneSocket
  OBVIOUS
<1>1. Connected = {} \/ Connected = {ws}
  <2>1. Connected = {s \in Sockets : sock[s] \in Alive}
    BY DEF Connected, Alive
  <2>2. Connected \subseteq {ws}
    BY <2>1 DEF Latest
  <2> QED
    BY <2>2
<1>2. Cardinality({}) = 0 /\ Cardinality({ws}) = 1
  BY FS_EmptySet, FS_Singleton
<1>3. Connected = {ws} => ~timer
  BY DEF Latest, Connected, Alive
<1> DEFINE due == IF timer THEN 1 ELSE 0
<1>4. due \in {0, 1} /\ (~timer => due = 0)
  OBVIOUS
<1>5. Cardinality(Connected) = 0 \/ (Cardinality(Connected) = 1 /\ due = 0)
  BY <1>1, <1>2, <1>3, <1>4
<1> HIDE DEF due
<1>6. Cardinality(Connected) + due <= 1
  BY <1>4, <1>5
<1> QED
  BY <1>6 DEF OneSocket, due

\* One connection, or one timer that will make it (services/mexc/ws.ts).
THEOREM OneSocketEver == Spec => []OneSocket
BY LatestIsOne, LatestInit, LatestNext, PTL DEF Spec

-----------------------------------------------------------------------------
(* The order of the frames *)

Frame == [body : Bodies, at : Nat]

Waiting == inbox[ws]

InOrder ==
    /\ \A i \in 1..Len(Waiting) : Waiting[i].at <= now
    /\ \A i, j \in 1..Len(Waiting) : i <= j => Waiting[i].at <= Waiting[j].at

NotAhead == \A i \in 1..Len(Waiting) : shown["depth"].at <= Waiting[i].at

\* Frames wait on the connection made last, in the order in which they were sent, and a frame's book
\* that is shown is not newer than any of them.
Sorted ==
    /\ now \in Nat /\ inbox \in [Sockets -> Seq(Frame)]
    /\ poll \in [Polls -> Int] /\ \A p \in Polls : poll[p] <= now
    /\ \A s \in Sockets : s > ws => inbox[s] = <<>>
    /\ InOrder
    /\ shown["depth"].at \in Int /\ shown["depth"].at <= now
    /\ shown["depth"].by # "poll" => NotAhead

LEMMA SortedInit == Init => Sorted
<1> SUFFICES ASSUME Init PROVE Sorted
  OBVIOUS
<1>1. \A s \in Sockets : inbox[s] = <<>>
  BY DEF Init
<1>2. Waiting = <<>>
  BY <1>1, SocketsAreNumbers DEF Init, Waiting
<1>3. inbox \in [Sockets -> Seq(Frame)]
  BY DEF Init
<1>4. poll \in [Polls -> Int] /\ \A p \in Polls : poll[p] <= 0
  BY DEF Init, Idle
<1>5. shown["depth"].at = -1
  BY DEF Init, Topics, None
<1>6. InOrder /\ NotAhead
  BY <1>2 DEF InOrder, NotAhead
<1> QED
  BY <1>1, <1>3, <1>4, <1>5, <1>6 DEF Init, Sorted

\* The frame that is handled is the oldest, and what it shows is not newer than the others.
LEMMA ReceiveKeepsOrder ==
    ASSUME Latest, Sorted, NEW s \in Sockets, Receive(s)
    PROVE  /\ Sorted'
           /\ shown["depth"].by # "poll" => shown'["depth"].at >= shown["depth"].at
<1>1. s = ws /\ ws' = ws /\ now' = now /\ poll' = poll /\ Waiting # <<>>
  BY DEF Receive, Latest, Alive, Waiting, socket
<1>2. Waiting \in Seq(Frame) /\ Len(Waiting) \in Nat /\ Len(Waiting) >= 1
  BY <1>1 DEF Sorted, Waiting, Latest
<1>3. inbox' = [inbox EXCEPT ![ws] = Tail(Waiting)] /\ Waiting' = Tail(Waiting)
  BY <1>1 DEF Receive, Waiting, Sorted
<1>4. inbox' \in [Sockets -> Seq(Frame)]
  <2>1. Tail(Waiting) \in Seq(Frame)
    BY <1>2
  <2>2. inbox \in [Sockets -> Seq(Frame)]
    BY DEF Sorted
  <2> QED
    BY <1>3, <2>1, <2>2
<1>5. /\ Len(Tail(Waiting)) = Len(Waiting) - 1
      /\ \A i \in 1..Len(Waiting) - 1 : Tail(Waiting)[i] = Waiting[i + 1]
  BY <1>2
<1>6. Head(Waiting) = Waiting[1] /\ Head(Waiting).at \in Nat /\ Head(Waiting).body \in Bodies
  <2>1. Waiting[1] \in Frame /\ Head(Waiting) = Waiting[1]
    BY <1>2
  <2> QED
    BY <2>1 DEF Frame
<1>7. InOrder'
  <2>1. \A i \in 1..Len(Waiting') : Waiting'[i] = Waiting[i + 1] /\ i + 1 \in 1..Len(Waiting)
    BY <1>2, <1>3, <1>5
  <2> QED
    BY <1>1, <1>2, <1>3, <1>5, <2>1 DEF InOrder, Sorted
<1>8. \/ shown'["depth"] = shown["depth"]
      \/ shown'["depth"] = [at |-> Head(Waiting).at, by |-> "frame"]
  BY <1>1 DEF Receive, Waiting, SubscriptionAnswered, HandleError, HandleEvent, Show, snapshot, Topics
<1>9. \A s2 \in Sockets : s2 > ws => inbox'[s2] = <<>>
  BY <1>1, <1>3, SocketsAreNumbers DEF Sorted, Latest
<1>10. \A i \in 1..Len(Waiting') : Waiting'[i] = Waiting[i + 1] /\ i + 1 \in 1..Len(Waiting)
  BY <1>2, <1>3, <1>5
<1>11. CASE shown'["depth"] = shown["depth"]
  <2>1. shown["depth"].by # "poll" => NotAhead'
    BY <1>10, <1>11 DEF NotAhead, Sorted
  <2> QED
    BY <1>1, <1>4, <1>7, <1>9, <1>11, <2>1 DEF Sorted
<1>12. CASE shown'["depth"] = [at |-> Head(Waiting).at, by |-> "frame"]
  <2>1. shown'["depth"].at = Waiting[1].at /\ Waiting[1].at \in Nat
    BY <1>6, <1>12
  <2>2. NotAhead'
    BY <1>2, <1>10, <2>1 DEF NotAhead, Sorted, InOrder
  <2>3. Waiting[1].at <= now
    BY <1>2 DEF Sorted, InOrder
  <2>4. shown["depth"].by # "poll" => shown["depth"].at <= Waiting[1].at
    BY <1>2 DEF Sorted, NotAhead
  <2> QED
    BY <1>1, <1>4, <1>7, <1>9, <2>1, <2>2, <2>3, <2>4 DEF Sorted
<1> QED
  BY <1>8, <1>11, <1>12

\* A new frame is of now.
LEMMA PushKeepsOrder ==
    ASSUME Latest, Sorted, NEW s \in Sockets, NEW body \in Bodies, Push(s, body)
    PROVE  Sorted'
<1> DEFINE frame == [body |-> body, at |-> now]
<1>1. s = ws /\ ws' = ws /\ now' = now /\ poll' = poll /\ shown' = shown /\ ws \in Sockets
  BY DEF Push, Latest, Alive, snapshot
<1>2. Waiting \in Seq(Frame) /\ Len(Waiting) \in Nat
  BY <1>1 DEF Sorted, Waiting
<1>f. frame \in Frame
  BY DEF Sorted, Frame
<1> HIDE DEF frame
<1>3. inbox' = [inbox EXCEPT ![ws] = Append(Waiting, frame)] /\ Waiting' = Append(Waiting, frame)
  BY <1>1 DEF frame, Push, Waiting, Sorted
<1>4. inbox' \in [Sockets -> Seq(Frame)]
  <2>1. Append(Waiting, frame) \in Seq(Frame)
    BY <1>2, <1>f
  <2>2. inbox \in [Sockets -> Seq(Frame)]
    BY DEF Sorted
  <2> QED
    BY <1>3, <2>1, <2>2
<1>5. /\ Len(Waiting') = Len(Waiting) + 1
      /\ \A i \in 1..Len(Waiting) : Waiting'[i] = Waiting[i]
      /\ Waiting'[Len(Waiting) + 1] = frame
  BY <1>2, <1>3
<1>6. ASSUME NEW i \in 1..Len(Waiting')
      PROVE  \/ i \in 1..Len(Waiting) /\ Waiting'[i] = Waiting[i]
             \/ i = Len(Waiting) + 1 /\ Waiting'[i].at = now
  BY <1>2, <1>5 DEF frame
<1>7. now \in Nat /\ \A i \in 1..Len(Waiting) : Waiting[i].at \in Nat
  <2>1. \A i \in 1..Len(Waiting) : Waiting[i] \in Frame
    BY <1>2
  <2> QED
    BY <2>1 DEF Frame, Sorted
<1>8. InOrder' /\ (NotAhead => NotAhead')
  <2>1. \A i \in 1..Len(Waiting') : Waiting'[i].at <= now
    BY <1>6, <1>7 DEF InOrder, Sorted
  <2>2. ASSUME NEW i \in 1..Len(Waiting'), NEW j \in 1..Len(Waiting'), i <= j
        PROVE  Waiting'[i].at <= Waiting'[j].at
    <3>1. CASE j = Len(Waiting) + 1
      BY <1>2, <1>6, <2>1, <3>1
    <3>2. CASE j \in 1..Len(Waiting)
      <4>1. i \in 1..Len(Waiting) /\ Waiting'[i] = Waiting[i] /\ Waiting'[j] = Waiting[j]
        BY <1>2, <1>5, <2>2, <3>2
      <4> QED
        BY <2>2, <3>2, <4>1 DEF InOrder, Sorted
    <3> QED
      BY <1>6, <3>1, <3>2
  <2>3. ASSUME NotAhead, NEW i \in 1..Len(Waiting') PROVE shown'["depth"].at <= Waiting'[i].at
    BY <1>1, <1>6, <1>7, <2>3 DEF NotAhead, Sorted
  <2> QED
    BY <1>1, <2>1, <2>2, <2>3 DEF InOrder, NotAhead
<1>9. \A t \in Sockets : t > ws => inbox'[t] = <<>>
  BY <1>1, <1>3, SocketsAreNumbers DEF Sorted
<1> QED
  BY <1>1, <1>4, <1>8, <1>9 DEF Sorted

LEMMA SortedNext == Latest /\ Latest' /\ Sorted /\ [Next]_vars => Sorted'
<1> SUFFICES ASSUME Latest, Latest', Sorted, [Next]_vars PROVE Sorted'
  OBVIOUS
<1>0. ws \in Sockets /\ ws \in Nat
  BY SocketsAreNumbers DEF Latest
<1>1. CASE UNCHANGED <<now, ws, inbox, poll, shown>>
  BY <1>1 DEF Sorted, InOrder, NotAhead, Waiting
<1>2. CASE Tick
  <2>1. /\ now' = now + 1 /\ UNCHANGED <<ws, inbox, poll, shown>>
    BY <1>2 DEF Tick, socket, snapshot
  <2>2. \A i \in 1..Len(Waiting) : Waiting[i].at \in Nat
    <3>1. Waiting \in Seq(Frame)
      BY <1>0 DEF Sorted, Waiting
    <3>2. \A i \in 1..Len(Waiting) : Waiting[i] \in Frame
      BY <3>1
    <3> QED
      BY <3>2 DEF Frame
  <2>3. Waiting' = Waiting
    BY <2>1 DEF Waiting
  <2>4. InOrder' /\ (NotAhead => NotAhead')
    BY <2>1, <2>2, <2>3 DEF InOrder, NotAhead, Sorted
  <2> QED
    BY <2>1, <2>4 DEF Sorted
<1>3. ASSUME NEW s \in Sockets, Receive(s) PROVE Sorted'
  BY <1>3, ReceiveKeepsOrder
<1>4. ASSUME NEW s \in Sockets, NEW body \in Bodies, Push(s, body) PROVE Sorted'
  BY <1>4, PushKeepsOrder
<1>5. ASSUME NEW s \in Sockets, Closed(s) PROVE Sorted'
  <2>1. s = ws /\ UNCHANGED <<now, ws, poll, shown>> /\ inbox' = [inbox EXCEPT ![ws] = <<>>]
    BY <1>5 DEF Closed, Latest, Alive, snapshot
  <2>2. Waiting' = <<>>
    BY <1>0, <2>1 DEF Waiting, Sorted
  <2>3. InOrder' /\ NotAhead'
    BY <2>2 DEF InOrder, NotAhead
  <2>4. inbox' \in [Sockets -> Seq(Frame)] /\ \A t \in Sockets : t > ws => inbox'[t] = <<>>
    BY <2>1 DEF Sorted
  <2> QED
    BY <2>1, <2>3, <2>4 DEF Sorted
<1>6. CASE Reconnect
  <2>1. ws' = ws + 1 /\ ws + 1 \in Sockets /\ UNCHANGED <<now, inbox, poll, shown>>
    BY <1>6 DEF Reconnect, snapshot
  <2>2. Waiting' = <<>>
    BY <1>0, <2>1 DEF Waiting, Sorted
  <2>3. InOrder' /\ NotAhead'
    BY <2>2 DEF InOrder, NotAhead
  <2>4. \A t \in Sockets : t > ws + 1 => inbox[t] = <<>>
    BY <1>0, SocketsAreNumbers DEF Sorted
  <2> QED
    BY <2>1, <2>3, <2>4 DEF Sorted
<1>7. ASSUME NEW p \in Polls, PollAnswered(p) PROVE Sorted'
  <2>1. UNCHANGED <<now, ws, inbox>> /\ shown'["depth"] = [at |-> poll[p], by |-> "poll"]
    BY <1>7 DEF PollAnswered, Show, Topics, socket
  <2>2. poll' \in [Polls -> Int] /\ \A q \in Polls : poll'[q] <= now
    BY <1>7 DEF PollAnswered, Idle, Sorted
  <2>3. InOrder'
    BY <2>1 DEF Sorted, InOrder, Waiting
  <2> QED
    BY <2>1, <2>2, <2>3 DEF Sorted
<1>8. ASSUME NEW p \in Polls, PollSnapshot(p) \/ Served(p) \/ PollFails(p) PROVE Sorted'
  <2>1. UNCHANGED <<now, ws, inbox, shown>>
    BY <1>8 DEF PollSnapshot, Served, PollFails, socket, snapshot
  <2>2. poll' \in [Polls -> Int] /\ \A q \in Polls : poll'[q] <= now
    BY <1>8 DEF PollSnapshot, Served, PollFails, Idle, None, Sorted
  <2>3. InOrder' /\ (NotAhead => NotAhead')
    BY <2>1 DEF Sorted, InOrder, NotAhead, Waiting
  <2> QED
    BY <2>1, <2>2, <2>3 DEF Sorted
<1> QED
  BY <1>1, <1>2, <1>3, <1>4, <1>5, <1>6, <1>7, <1>8
     DEF Next, vars, socket, snapshot, Websocket, Losses, Frames, Polling, Opened, SocketError, ErrorOf, HandleError,
         HangUp, Shutdown

\* What shows a book is a frame or an answer.
LEMMA StepKeepsOrder ==
    ASSUME Latest, Sorted, [Next]_vars
    PROVE  shown'["depth"].at < shown["depth"].at => "poll" \in {shown["depth"].by, shown'["depth"].by}
<1>1. CASE UNCHANGED shown
  BY <1>1 DEF Sorted
<1>2. ASSUME NEW s \in Sockets, Receive(s), shown["depth"].by # "poll" PROVE shown'["depth"].at >= shown["depth"].at
  BY <1>2, ReceiveKeepsOrder
<1>3. ASSUME NEW s \in Sockets, Receive(s) PROVE Sorted'
  BY <1>3, ReceiveKeepsOrder
<1>4. ASSUME NEW p \in Polls, PollAnswered(p) PROVE shown'["depth"].by = "poll"
  BY <1>4 DEF PollAnswered, Show, Topics
<1>5. \/ UNCHANGED shown \/ \E s \in Sockets : Receive(s)
      \/ \E p \in Polls : PollAnswered(p)
  BY DEF Next, vars, socket, snapshot, Websocket, Losses, Frames, Polling, Opened, SocketError, ErrorOf, HandleError,
         HangUp, Shutdown, Closed, Reconnect, Push, Tick, PollSnapshot, Served, PollFails
<1>6. ASSUME NEW s \in Sockets, Receive(s), shown["depth"].by # "poll"
      PROVE ~(shown'["depth"].at < shown["depth"].at)
  <2>1. shown["depth"].at \in Int /\ shown'["depth"].at \in Int
    BY <1>3, <1>6 DEF Sorted
  <2> QED
    BY <1>2, <1>6, <2>1
<1> QED
  BY <1>1, <1>4, <1>5, <1>6

\* Frames show the books in the order the exchange had them, over lost connections too: only an
\* answer of a poll sets the book back (services/mexc/ws.ts, apps/watchers/src/mexc/snapshot.ts).
THEOREM FramesInOrder == Spec => FramesKeepTheirOrder
<1>1. Init => Latest /\ Sorted
  BY LatestInit, SortedInit
<1>2. Latest /\ Sorted /\ [Next]_vars => Latest' /\ Sorted'
  BY LatestNext, SortedNext
<1>3. Latest /\ Sorted /\ [Next]_vars =>
        [shown'["depth"].at < shown["depth"].at
         => "poll" \in {shown["depth"].by, shown'["depth"].by}]_vars
  BY StepKeepsOrder
<1> QED
  BY <1>1, <1>2, <1>3, PTL DEF Spec, FramesKeepTheirOrder

-----------------------------------------------------------------------------
(* The types of the feed: the websockets, the polls, and what is shown *)

Boxes == [Sockets -> Seq([body : Bodies, at : 0..MaxTime])]
Shots == [Topics -> [at : Times, by : {"none", "frame", "poll"}]]
PollTimes == Idle..MaxTime

\* The types of the feed, the sets of the frames, of what is shown and of the polls by their names.
FeedTyped ==
    /\ now \in 0..MaxTime
    /\ sock \in [Sockets -> {"unused", "connecting", "open", "closing", "closed"}]
    /\ ws \in Sockets /\ timer \in BOOLEAN /\ inbox \in Boxes /\ poll \in [Polls -> PollTimes]
    /\ shown \in Shots /\ updated \in Times /\ live \in BOOLEAN
    /\ running \in BOOLEAN /\ losses \in 0..MaxLosses

LEMMA FeedTypedIsType == FeedTyped <=> TypeOK
BY DEF FeedTyped, TypeOK, Boxes, Shots, PollTimes

LEMMA FeedInit == Init => FeedTyped
<1> SUFFICES ASSUME Init PROVE FeedTyped
  OBVIOUS
<1>1. inbox \in Boxes
  BY DEF Init, Boxes
<1>2. None \in Times /\ Idle \in PollTimes /\ 0 \in 0..MaxTime /\ 0 \in 0..MaxLosses /\ 1 \in Sockets
  BY FeedAssumption DEF None, Idle, Times, PollTimes
<1>3. shown \in Shots
  BY <1>2 DEF Init, Shots
<1> QED
  BY <1>1, <1>2, <1>3 DEF Init, FeedTyped

\* What is shown is of a time the clock has come to.
LEMMA ShowTyped ==
    ASSUME FeedTyped, NEW topics, NEW t \in 0..MaxTime, NEW ts \in 0..MaxTime, NEW by \in {"frame", "poll"},
           Show(topics, t, ts, by)
    PROVE  shown' \in Shots /\ updated' \in Times /\ live' \in BOOLEAN
<1>1. t \in Times /\ ts \in Times
  BY FeedAssumption DEF Times, None
<1>2. [at |-> t, by |-> by] \in [at : Times, by : {"none", "frame", "poll"}]
  BY <1>1
<1>3. shown' \in Shots
  BY <1>2 DEF Show, FeedTyped, Shots
<1> QED
  BY <1>1, <1>3 DEF Show

LEMMA LossTyped == FeedTyped /\ Loss => losses' \in 0..MaxLosses
BY FeedAssumption DEF FeedTyped, Loss

LEMMA SocketTyped ==
    ASSUME FeedTyped, NEW s \in Sockets,
           Opened(s) \/ Closed(s) \/ SocketError(s) \/ HangUp(s) \/ Reconnect \/ Shutdown
    PROVE  FeedTyped'
<1>1. [inbox EXCEPT ![s] = <<>>] \in Boxes
  <2> DEFINE Sent == [body : Bodies, at : 0..MaxTime]
  <2>1. inbox \in [Sockets -> Seq(Sent)]
    BY DEF FeedTyped, Boxes
  <2> HIDE DEF Sent
  <2>2. [inbox EXCEPT ![s] = <<>>] \in [Sockets -> Seq(Sent)]
    BY <2>1
  <2> QED
    BY <2>2 DEF Boxes, Sent
<1>2. sock' \in [Sockets -> {"unused", "connecting", "open", "closing", "closed"}]
  <2>1. PICK q \in Sockets, x \in {"connecting", "open", "closing", "closed"} : sock' = [sock EXCEPT ![q] = x]
    <3>1. CASE Opened(s)
      BY <3>1 DEF Opened
    <3>2. CASE Closed(s)
      BY <3>2 DEF Closed
    <3>3. CASE SocketError(s) \/ Shutdown
      BY <3>3 DEF SocketError, Shutdown, FeedTyped
    <3>4. CASE HangUp(s)
      BY <3>4 DEF HangUp
    <3>5. CASE Reconnect
      BY <3>5 DEF Reconnect
    <3> QED
      BY <3>1, <3>2, <3>3, <3>4, <3>5
  <2> QED
    BY <2>1 DEF FeedTyped
<1>3. losses' = losses \/ losses' \in 0..MaxLosses
  BY LossTyped DEF Opened, Closed, SocketError, ErrorOf, HangUp, Reconnect, Shutdown
<1>4. inbox' \in Boxes
  BY <1>1 DEF FeedTyped, Opened, Closed, SocketError, ErrorOf, HangUp, Reconnect, Shutdown
<1>5. ws' \in Sockets /\ timer' \in BOOLEAN /\ running' \in BOOLEAN /\ live' \in BOOLEAN
  BY DEF FeedTyped, Opened, Closed, SocketError, ErrorOf, HangUp, Reconnect, Shutdown, HandleError, snapshot
<1>6. UNCHANGED <<now, poll, shown, updated>>
  BY DEF Opened, Closed, SocketError, ErrorOf, HangUp, Reconnect, Shutdown, HandleError, snapshot
<1> QED
  BY <1>2, <1>3, <1>4, <1>5, <1>6 DEF FeedTyped

LEMMA FrameTyped ==
    ASSUME FeedTyped, NEW s \in Sockets, Receive(s) \/ \E body \in Bodies : Push(s, body)
    PROVE  FeedTyped'
<1> DEFINE Sent == [body : Bodies, at : 0..MaxTime]
           frame == Head(inbox[s])
<1>1. inbox[s] \in Seq(Sent) /\ now \in 0..MaxTime
  BY DEF FeedTyped, Boxes
<1>2. CASE Receive(s)
  <2>1. inbox[s] # <<>> /\ UNCHANGED <<now, sock, ws, timer, poll, running, losses>>
        /\ inbox' = [inbox EXCEPT ![s] = Tail(@)]
    BY <1>2 DEF Receive
  <2>2. Tail(inbox[s]) \in Seq(Sent) /\ frame \in Sent
    <3> HIDE DEF Sent
    <3> QED
      BY <1>1, <2>1
  <2>3. inbox' \in Boxes
    BY <2>1, <2>2 DEF FeedTyped, Boxes
  <2>4. shown' \in Shots /\ updated' \in Times /\ live' \in BOOLEAN
    <3>1. CASE HandleEvent(frame)
      <4>1. frame.at \in 0..MaxTime
        BY <2>2
      <4> QED
        BY <3>1, <4>1, ShowTyped DEF HandleEvent
    <3>2. CASE HandleError \/ UNCHANGED snapshot
      BY <3>2 DEF HandleError, snapshot, FeedTyped
    <3> QED
      BY <1>2, <3>1, <3>2 DEF Receive, SubscriptionAnswered
  <2> QED
    BY <2>1, <2>3, <2>4 DEF FeedTyped
<1>3. ASSUME NEW body \in Bodies, Push(s, body)
      PROVE  FeedTyped'
  <2> DEFINE new == [body |-> body, at |-> now]
  <2>1. new \in Sent
    BY <1>1
  <2>2. inbox' = [inbox EXCEPT ![s] = Append(inbox[s], new)]
        /\ UNCHANGED <<now, sock, ws, timer, poll, snapshot, running, losses>>
    BY <1>3 DEF Push
  <2>3. Append(inbox[s], new) \in Seq(Sent)
    <3> HIDE DEF new, Sent
    <3> QED
      BY <1>1, <2>1
  <2>4. inbox' \in Boxes
    BY <2>2, <2>3 DEF FeedTyped, Boxes
  <2> QED
    BY <2>2, <2>4 DEF FeedTyped, snapshot
<1> QED
  BY <1>2, <1>3

LEMMA PollTyped ==
    ASSUME FeedTyped, NEW p \in Polls, PollSnapshot(p) \/ Served(p) \/ PollAnswered(p) \/ PollFails(p)
    PROVE  FeedTyped'
<1>1. {None, Idle, now} \subseteq PollTimes
  BY FeedAssumption DEF FeedTyped, None, Idle, PollTimes
<1>2. \E n \in {None, Idle, now} : poll' = [poll EXCEPT ![p] = n]
  BY DEF PollSnapshot, Served, PollAnswered, PollFails
<1>3. poll' \in [Polls -> PollTimes]
  BY <1>1, <1>2 DEF FeedTyped
<1>4. UNCHANGED <<now, socket, running>>
  BY DEF PollSnapshot, Served, PollAnswered, PollFails
<1>5. losses' \in 0..MaxLosses
  BY LossTyped DEF PollSnapshot, Served, PollAnswered, PollFails, FeedTyped
<1>6. shown' \in Shots /\ updated' \in Times /\ live' \in BOOLEAN
  <2>1. CASE PollAnswered(p)
    <3>1. poll[p] \in 0..MaxTime /\ now \in 0..MaxTime
      BY <2>1, FeedAssumption DEF PollAnswered, FeedTyped, Idle, PollTimes
    <3> QED
      BY <2>1, <3>1, ShowTyped DEF PollAnswered
  <2>2. CASE UNCHANGED snapshot
    BY <2>2 DEF snapshot, FeedTyped
  <2> QED
    BY <2>1, <2>2 DEF PollSnapshot, Served, PollFails
<1> QED
  BY <1>3, <1>4, <1>5, <1>6 DEF FeedTyped, socket

LEMMA FeedTypes == FeedTyped /\ [Next]_vars => FeedTyped'
<1> SUFFICES ASSUME FeedTyped, [Next]_vars PROVE FeedTyped'
  OBVIOUS
<1>1. CASE Tick
  <2>1. now' \in 0..MaxTime
    BY <1>1, FeedAssumption DEF Tick, FeedTyped
  <2> QED
    BY <1>1, <2>1 DEF Tick, FeedTyped, socket, snapshot
<1>2. CASE UNCHANGED vars
  BY <1>2 DEF vars, FeedTyped, socket, snapshot
<1>3. 1 \in Sockets
  BY FeedAssumption
<1> QED
  BY <1>1, <1>2, <1>3, SocketTyped, FrameTyped, PollTyped
    DEF Next, Websocket, Losses, Frames, Polling

-----------------------------------------------------------------------------
(* The connections of the watcher and of the page *)

RelayProofs == INSTANCE MexcRelayProofs

\* The page is the one of MexcRelayProofs.
LEMMA RelayIsProved ==
    /\ Relay!RelayAssumption => RelayProofs!RelayAssumption
    /\ Relay!Init => RelayProofs!Init
    /\ [Relay!Next]_(Relay!vars) => [RelayProofs!Next]_(RelayProofs!vars)
    /\ RelayProofs!OneConnection => Relay!OneConnection
<1> USE DEF Relay!server, RelayProofs!server, Relay!Hitch, RelayProofs!Hitch,
            Relay!Snapshot, RelayProofs!Snapshot, Relay!Ask, RelayProofs!Ask
<1>1. /\ RelayProofs!IsFiniteSet(Mounts) = Relay!IsFiniteSet(Mounts)
      /\ RelayProofs!Cardinality(Mounts) = Relay!Cardinality(Mounts)
  BY DEF RelayProofs!IsFiniteSet, Relay!IsFiniteSet, RelayProofs!Cardinality, Relay!Cardinality
<1>2. Relay!RelayAssumption => RelayProofs!RelayAssumption
  BY <1>1 DEF Relay!RelayAssumption, RelayProofs!RelayAssumption
<1>3. Relay!Init => RelayProofs!Init
  BY DEF RelayProofs!Init, Relay!Init, RelayProofs!Topics, Relay!Topics, RelayProofs!NoRequest, Relay!NoRequest
<1>4. /\ Relay!Broadcast => RelayProofs!Broadcast
      /\ Relay!Shutdown => RelayProofs!Shutdown
      /\ Relay!Restart => RelayProofs!Restart
      /\ Relay!Mount => RelayProofs!Mount
      /\ Relay!Unmount => RelayProofs!Unmount
  BY DEF Relay!Broadcast, RelayProofs!Broadcast, Relay!Shutdown, RelayProofs!Shutdown, Relay!Restart,
         RelayProofs!Restart, Relay!Mount, RelayProofs!Mount, Relay!Unmount, RelayProofs!Unmount
<1>5. ASSUME NEW m \in Mounts, Relay!Connection(m)
      PROVE  RelayProofs!Connection(m)
  BY <1>5
     DEF Relay!Connection, RelayProofs!Connection, Relay!Upgrade, RelayProofs!Upgrade, Relay!Receive, RelayProofs!Receive,
         Relay!SocketError, RelayProofs!SocketError, Relay!Closed, RelayProofs!Closed,
         Relay!Reconnect, RelayProofs!Reconnect, Relay!Apply, RelayProofs!Apply
<1>6. ASSUME NEW m \in Mounts, Relay!Request(m)
      PROVE  RelayProofs!Request(m)
  BY <1>6
     DEF Relay!Request, RelayProofs!Request, Relay!Served, RelayProofs!Served, Relay!FetchFails, RelayProofs!FetchFails,
         Relay!Answered, RelayProofs!Answered, Relay!Asked, RelayProofs!Asked, Relay!Brings, RelayProofs!Brings
<1>7. UNCHANGED Relay!vars => UNCHANGED RelayProofs!vars
  BY DEF Relay!vars, RelayProofs!vars
<1>8. [Relay!Next]_(Relay!vars) => [RelayProofs!Next]_(RelayProofs!vars)
  <2>1. Relay!Next => RelayProofs!Next
    BY <1>4, <1>5, <1>6, Zenon DEF Relay!Next, RelayProofs!Next
  <2> QED
    BY <1>7, <2>1
<1>9. RelayProofs!OneConnection => Relay!OneConnection
  BY DEF RelayProofs!OneConnection, Relay!OneConnection, RelayProofs!Alive, Relay!Alive
<1> QED
  BY <1>2, <1>3, <1>8, <1>9

LEMMA RelayIsTyped == RelayProofs!TypeOK => Relay!TypeOK
BY DEF RelayProofs!TypeOK, Relay!TypeOK, RelayProofs!Topics, Relay!Topics, RelayProofs!Alive, Relay!Alive

\* The watcher has one connection to the exchange, and the page that is open one to the watcher, or a
\* timer that will make it (services/mexc/ws.ts; web/app/mexc/useMexcWebSocket.ts).
THEOREM ConnectionsAreSingle == MarketSpec => []OneConnection
<1>1. MarketInit => Latest /\ RelayProofs!IInv
  BY MarketAssumption, PartsBegin, LatestInit, RelayIsProved, RelayProofs!InitHolds
<1>2. Latest /\ RelayProofs!IInv /\ [MarketNext]_allVars => Latest' /\ RelayProofs!IInv'
  BY MarketAssumption, PartsStep, LatestNext, RelayIsProved, RelayProofs!StepHolds
<1>3. Latest /\ RelayProofs!IInv => OneConnection
  BY RelayIsProved, LatestIsOne DEF OneConnection, RelayProofs!IInv
<1> QED
  BY <1>1, <1>2, <1>3, PTL DEF MarketSpec

\* Only an answer to a poll sets the book of the watcher back, and only an HTTP answer the page: frames
\* keep the order of the events, over lost connections and restarts (services/mexc/ws.ts,
\* apps/watchers/src/mexc; web/app/mexc/useMexcWebSocket.ts).
THEOREM BooksKeepOrder == MarketSpec => BooksKeepTheirOrder
<1> DEFINE Known == Latest /\ Sorted /\ RelayProofs!IInv /\ RelayProofs!Follows
<1>1. MarketInit => Known
  BY MarketAssumption, PartsBegin, LatestInit, SortedInit, RelayIsProved, RelayProofs!InitHolds,
     RelayProofs!FollowsInit
<1>2. Known /\ [MarketNext]_allVars => Known'
  BY MarketAssumption, PartsStep, LatestNext, SortedNext, RelayIsProved, RelayProofs!StepHolds,
     RelayProofs!StepFollows DEF RelayProofs!IInv
<1>3. Known /\ [MarketNext]_allVars =>
          [shown'["depth"].at < shown["depth"].at
           => "poll" \in {shown["depth"].by, shown'["depth"].by}]_vars
  BY PartsStep, StepKeepsOrder
<1>4. Known /\ [MarketNext]_allVars =>
          [screen # <<>> /\ screen' # <<>> /\ screen'[1] < screen[1]
           => "answer" \in {source, source'}]_(Relay!vars)
  BY MarketAssumption, PartsStep, RelayIsProved, RelayProofs!StepKeepsPage DEF RelayProofs!IInv
<1> QED
  BY <1>1, <1>2, <1>3, <1>4, PTL
     DEF MarketSpec, BooksKeepTheirOrder, FramesKeepTheirOrder, Relay!PageKeepsItsOrder

-----------------------------------------------------------------------------
(* The rows of the feed's snapshot *)

Owed ==
    \/ \E i \in inserts : i.final /\ i.ticker = final
    \/ \E r \in rows : r.ticker = final

\* Before the shutdown nothing is owed, and since it began its ticker is in the table, in an insert
\* of its own, or lost with it; and a watcher that is down awaits no such insert.
RowsInv ==
    /\ rowNow \in Int /\ rowNow >= FlushEvery /\ lost \in BOOLEAN
    /\ \A i \in inserts : i.final \in BOOLEAN
    /\ phase = "running" => ~lost /\ \A i \in inserts : ~i.final
    /\ phase = "down" => \A i \in inserts : ~i.final
    /\ phase # "running" /\ final # None /\ ~lost => Owed

LEMMA RowsInit == ASSUME Rows!RowsAssumption, Rows!Init PROVE RowsInv
<1>1. /\ rowNow = FlushEvery /\ inserts = {} /\ phase = "running" /\ lost = FALSE
      /\ FlushEvery \in Nat
  BY DEF Rows!Init, Rows!RowsAssumption
<1>2. rowNow \in Int /\ rowNow >= FlushEvery /\ phase # "down"
  BY <1>1
<1> QED
  BY <1>1, <1>2, Zenon DEF RowsInv

\* The shutdown flushes whatever the guards say.
LEMMA FlushKeeps == ASSUME Rows!RowsAssumption, RowsInv, Rows!FlushToDbNow PROVE RowsInv'
<1> DEFINE own == [at |-> rowNow, ticker |-> ticker, final |-> TRUE]
<1>1. /\ phase = "running" /\ phase' = "flushing" /\ final' = ticker
      /\ UNCHANGED <<rowNow, rows, lost>>
  BY DEF Rows!FlushToDbNow, Rows!Flushes
<1>2. CASE Rows!Persists(FALSE, 0)
  <2>1. inserts' = inserts \cup {own}
    BY <1>2 DEF Rows!FlushToDbNow, Rows!Flushes, Rows!Insert
  <2>2. own \in inserts' /\ own.final = TRUE /\ own.ticker = final'
    BY <1>1, <2>1
  <2>3. Owed'
    BY <2>2 DEF Owed
  <2>4. \A i \in inserts' : i.final \in BOOLEAN
    BY <2>1, <2>2 DEF RowsInv
  <2> QED
    BY <1>1, <2>3, <2>4 DEF RowsInv
<1>3. CASE ~Rows!Persists(FALSE, 0)
  <2>1. ticker = None
    BY <1>3 DEF Rows!Persists, Rows!RowsAssumption, RowsInv, Rows!None, None
  <2>2. inserts' = inserts
    BY <1>3 DEF Rows!FlushToDbNow, Rows!Flushes
  <2> QED
    BY <1>1, <2>1, <2>2 DEF RowsInv
<1> QED
  BY <1>2, <1>3

\* An insert ends: the row is there, or it failed and, if it was owed, is lost.
LEMMA InsertEnds ==
    ASSUME RowsInv, NEW i \in inserts, Rows!Inserted(i) \/ Rows!InsertFails(i)
    PROVE  RowsInv'
<1>1. inserts' = inserts \ {i} /\ UNCHANGED <<rowNow, final, phase>>
  BY DEF Rows!Inserted, Rows!InsertFails
<1>2. CASE Rows!Inserted(i)
  <2> DEFINE new == [at |-> i.at, ticker |-> i.ticker]
  <2>1. rows' = rows \cup {new} /\ lost' = lost
    BY <1>2 DEF Rows!Inserted
  <2>2. new \in rows' /\ new.ticker = i.ticker /\ \A r \in rows : r \in rows'
    BY <2>1
  <2> HIDE DEF new
  <2>3. Owed => Owed'
    BY <1>1, <2>2 DEF Owed
  <2> QED
    BY <1>1, <2>1, <2>3 DEF RowsInv
<1>3. CASE Rows!InsertFails(i)
  <2>1. rows' = rows /\ lost' = (lost \/ i.final) /\ phase # "down"
    BY <1>3 DEF Rows!InsertFails
  <2>2. lost' \in BOOLEAN /\ (~lost' => ~lost /\ ~i.final)
    BY <2>1 DEF RowsInv
  <2>3. Owed /\ ~lost' => Owed'
    BY <1>1, <2>1, <2>2 DEF Owed
  <2> QED
    BY <1>1, <2>1, <2>2, <2>3 DEF RowsInv
<1> QED
  BY <1>2, <1>3

LEMMA RowsNext ==
    ASSUME Rows!RowsAssumption, RowsInv, [Rows!Next]_(Rows!vars)
    PROVE  RowsInv'
<1>1. CASE UNCHANGED Rows!vars
  BY <1>1 DEF Rows!vars, Rows!guards, RowsInv, Owed
<1>2. CASE Rows!Tick
  BY <1>2 DEF Rows!Tick, Rows!guards, RowsInv, Rows!RowsAssumption, Owed
<1>3. CASE Rows!Update
  BY <1>3 DEF Rows!Update, Rows!guards, RowsInv, Owed
<1>4. CASE Rows!FlushTimer
  <2> DEFINE new == [at |-> rowNow, ticker |-> ticker, final |-> FALSE]
  <2>1. /\ inserts' = inserts \cup {new} /\ phase = "running"
        /\ UNCHANGED <<rowNow, rows, final, phase, lost>>
    BY <1>4 DEF Rows!FlushTimer, Rows!Insert
  <2>2. new.final = FALSE
    OBVIOUS
  <2> QED
    BY <2>1, <2>2 DEF RowsInv
<1>5. CASE Rows!Stop
  BY <1>5 DEF Rows!Stop, Rows!guards, RowsInv, Owed
<1> QED
  BY <1>1, <1>2, <1>3, <1>4, <1>5, FlushKeeps, InsertEnds DEF Rows!Next

LEMMA OwedIsPersisted == ASSUME RowsInv PROVE Rows!ShutdownPersists
BY DEF RowsInv, Owed, Rows!ShutdownPersists, Rows!None, None

\* The types of the rows, and that an insert has a ticker.
RowsTimes == 0..RowsMaxTime

RowsTyped ==
    /\ rowNow \in RowsTimes /\ ticker \in RowsTimes \cup {None}
    /\ \A i \in inserts : i = [at |-> i.at, ticker |-> i.ticker, final |-> i.final]
                          /\ i.at \in RowsTimes /\ i.ticker \in RowsTimes /\ i.final \in BOOLEAN
    /\ pending \in BOOLEAN /\ lastFlush \in RowsTimes
    /\ \A r \in rows : r = [at |-> r.at, ticker |-> r.ticker] /\ r.at \in RowsTimes /\ r.ticker \in RowsTimes
    /\ final \in RowsTimes \cup {None}
    /\ phase \in {"running", "flushing", "down"}
    /\ failures \in 0..MaxFailures /\ lost \in BOOLEAN

LEMMA RowsAreTyped == ASSUME Rows!RowsAssumption, RowsTyped PROVE Rows!TypeOK
<1>1. RowsTimes \subseteq 0..RowsMaxTime /\ RowsTimes \cup {None} \subseteq Rows!None..RowsMaxTime
  BY DEF RowsTimes, Rows!RowsAssumption, None, Rows!None
<1>2. inserts \subseteq [at : RowsTimes, ticker : RowsTimes, final : BOOLEAN]
  BY DEF RowsTyped
<1>3. rows \subseteq [at : RowsTimes, ticker : RowsTimes]
  BY DEF RowsTyped
<1> QED
  BY <1>1, <1>2, <1>3 DEF RowsTyped, Rows!TypeOK, Rows!Rows, RowsTimes

LEMMA RowsTypesBegin == ASSUME Rows!RowsAssumption, Rows!Init PROVE RowsTyped
<1>1. FlushEvery \in RowsTimes /\ 0 \in RowsTimes /\ Rows!None = None /\ 0 \in 0..MaxFailures
  BY DEF Rows!RowsAssumption, RowsTimes, None, Rows!None
<1> QED
  BY <1>1 DEF Rows!Init, RowsTyped

LEMMA RowsTypes ==
    ASSUME Rows!RowsAssumption, RowsTyped, [Rows!Next]_(Rows!vars)
    PROVE  RowsTyped'
<1> USE DEF Rows!guards
<1>0. Rows!None = None /\ 0 \in RowsTimes
  BY DEF None, Rows!None, RowsTimes, Rows!RowsAssumption
<1>1. CASE Rows!Tick
  <2>1. rowNow' \in RowsTimes
    BY <1>1 DEF Rows!Tick, RowsTyped, RowsTimes, Rows!RowsAssumption
  <2> QED
    BY <1>1, <2>1 DEF Rows!Tick, RowsTyped
<1>2. CASE Rows!Update
  BY <1>2 DEF Rows!Update, RowsTyped
<1>3. ASSUME NEW last \in BOOLEAN, ticker # None
      PROVE  \A i \in Rows!Insert(last) :
                i = [at |-> i.at, ticker |-> i.ticker, final |-> i.final]
                /\ i.at \in RowsTimes /\ i.ticker \in RowsTimes /\ i.final \in BOOLEAN
  BY <1>3 DEF Rows!Insert, RowsTyped
<1>4. CASE Rows!FlushTimer
  <2>1. inserts' = Rows!Insert(FALSE) /\ ticker # None
    BY <1>0, <1>4 DEF Rows!FlushTimer, Rows!Persists
  <2> QED
    BY <1>3, <1>4, <2>1 DEF Rows!FlushTimer, RowsTyped
<1>5. CASE Rows!FlushToDbNow
  <2>1. \/ inserts' = Rows!Insert(TRUE) /\ pending' = TRUE /\ ticker # None
        \/ inserts' = inserts /\ pending' = FALSE
    BY <1>0, <1>5 DEF Rows!FlushToDbNow, Rows!Flushes, Rows!Persists
  <2>2. phase' = "flushing" /\ final' = ticker /\ lastFlush' = 0
        /\ UNCHANGED <<rowNow, ticker, rows, failures, lost>>
    BY <1>5 DEF Rows!FlushToDbNow, Rows!Flushes
  <2>3. \A i \in inserts' : 
                i = [at |-> i.at, ticker |-> i.ticker, final |-> i.final]
                /\ i.at \in RowsTimes /\ i.ticker \in RowsTimes /\ i.final \in BOOLEAN
    BY <1>3, <2>1 DEF RowsTyped
  <2> QED
    BY <1>0, <2>1, <2>2, <2>3 DEF RowsTyped
<1>6. ASSUME NEW i \in inserts, Rows!Inserted(i)
      PROVE  RowsTyped'
  <2> DEFINE new == [at |-> i.at, ticker |-> i.ticker]
  <2>1. inserts' = inserts \ {i} /\ rows' = rows \cup {new}
        /\ lastFlush' = i.at /\ pending' = FALSE
        /\ UNCHANGED <<rowNow, ticker, final, phase, failures, lost>>
    BY <1>6 DEF Rows!Inserted
  <2>2. i.at \in RowsTimes /\ i.ticker \in RowsTimes
    BY DEF RowsTyped
  <2>3. new = [at |-> new.at, ticker |-> new.ticker] /\ new.at \in RowsTimes /\ new.ticker \in RowsTimes
    BY <2>2
  <2> HIDE DEF new
  <2>4. \A r \in rows' : r = [at |-> r.at, ticker |-> r.ticker] /\ r.at \in RowsTimes /\ r.ticker \in RowsTimes
    BY <2>1, <2>3 DEF RowsTyped
  <2> QED
    BY <2>1, <2>2, <2>4 DEF RowsTyped
<1>7. ASSUME NEW i \in inserts, Rows!InsertFails(i)
      PROVE  RowsTyped'
  <2>1. failures' \in 0..MaxFailures
    BY <1>7 DEF Rows!InsertFails, RowsTyped, Rows!RowsAssumption
  <2>2. lost' \in BOOLEAN
    BY <1>7 DEF Rows!InsertFails, RowsTyped
  <2> QED
    BY <1>7, <2>1, <2>2 DEF Rows!InsertFails, RowsTyped
<1>8. CASE Rows!Stop
  BY <1>8 DEF Rows!Stop, RowsTyped
<1>9. CASE UNCHANGED Rows!vars
  BY <1>9 DEF Rows!vars, RowsTyped
<1> QED
  BY <1>1, <1>2, <1>4, <1>5, <1>6, <1>7, <1>8, <1>9 DEF Rows!Next

-----------------------------------------------------------------------------
(* The rows of the reserve *)

\* The rows there are, and those on their way.
ReserveWritten == reserveRows \cup {i.row : i \in reserveInserts}

ReserveTyped ==
    /\ height \in Nat /\ watchNow \in Int /\ raw \in Int
    /\ raw <= height /\ (watching = "down" => raw = None)
    /\ \A r \in ReserveWritten :
        /\ r.at \in Int /\ r.at <= watchNow /\ r.height \in Int /\ r.height <= height
        /\ r.permits = Reserve!Permits(Ratios[r.height][1], Ratios[r.height][2])
    /\ \A p \in polls : p.height \in Nat /\ p.height <= height
    /\ \A i \in reserveInserts : i = [row |-> i.row, own |-> i.own]

\* While no two requests met, no row is ahead of the reserve that is kept, nor either of a request.
Following ==
    /\ raw # None => \A r \in ReserveWritten : r.height <= raw
    /\ \A p \in polls : raw <= p.height /\ \A r \in ReserveWritten : r.height <= p.height
    /\ \A r, s \in ReserveWritten : r.at < s.at => r.height <= s.height

ReserveInv == ReserveTyped /\ raced \in BOOLEAN /\ (~raced => Following)

LEMMA ReserveInit == ASSUME Reserve!ReserveAssumption, Reserve!Init PROVE ReserveInv
<1> DEFINE poll0 == [at |-> watchNow, height |-> 0]
<1>1. /\ watchNow = FlushEvery /\ FlushEvery \in Nat /\ height = 0 /\ watching = "bootstrapping"
      /\ polls = {poll0} /\ raw = None /\ raced = FALSE /\ reserveInserts = {} /\ reserveRows = {}
  BY DEF Reserve!Init, Reserve!ReserveAssumption, Reserve!None, None
<1>2. poll0.height = 0 /\ ReserveWritten = {}
  BY <1>1 DEF ReserveWritten
<1> HIDE DEF poll0
<1>3. raw \in Int /\ raw <= 0
  BY <1>1 DEF None
<1>4. ReserveTyped
  BY <1>1, <1>2, <1>3 DEF ReserveTyped
<1>5. Following
  BY <1>1, <1>2, <1>3 DEF Following
<1> QED
  BY <1>1, <1>4, <1>5 DEF ReserveInv

\* What a step may do besides adding rows or changing what is kept of the reserve.
LEMMA Calmly ==
    ASSUME ReserveInv, ReserveWritten' \subseteq ReserveWritten, polls' \subseteq polls, raw' \in {raw, None},
           watchNow' \in Int, watchNow' >= watchNow, height' \in Nat, height' >= height,
           raced' = raced, watching' = "down" => raw' = None,
           \A i \in reserveInserts' : i = [row |-> i.row, own |-> i.own]
    PROVE  ReserveInv'
<1>1. ReserveTyped'
  <2>1. raw' \in Int /\ raw' <= height'
    BY DEF ReserveInv, ReserveTyped, None
  <2> QED
    BY <2>1 DEF ReserveInv, ReserveTyped
<1>2. Following => Following'
  <2>1. ASSUME Following, NEW p \in polls'
        PROVE  raw' <= p.height
    BY <2>1 DEF Following, ReserveInv, ReserveTyped, None
  <2> QED
    BY <2>1 DEF Following
<1> QED
  BY <1>1, <1>2 DEF ReserveInv

\* An answer, taken while no other request is under way, is of a height no row is ahead of.
LEMMA AnswerKeeps ==
    ASSUME ReserveInv, NEW p \in polls, Reserve!UpdateReserveState(p)
    PROVE  ReserveInv'
<1>1. /\ raw' \in p.height..height /\ polls' = polls \ {p} /\ watching' = "running"
      /\ raced' = (raced \/ polls # {p})
      /\ UNCHANGED <<watchNow, height, reserveInserts, reserveRows>>
  BY DEF Reserve!UpdateReserveState, Reserve!Returned
<1>2. ReserveWritten' = ReserveWritten
  BY <1>1 DEF ReserveWritten
<1>3. raw' \in Int /\ raw' <= height /\ p.height <= raw'
  BY <1>1 DEF ReserveInv, ReserveTyped
<1>4. ReserveTyped'
  BY <1>1, <1>2, <1>3 DEF ReserveInv, ReserveTyped
<1>5. ASSUME ~raced'
      PROVE  Following'
  <2>1. Following /\ polls' = {}
    BY <1>1, <1>5 DEF ReserveInv
  <2>2. \A r \in ReserveWritten : r.height <= raw'
    BY <1>3, <2>1 DEF Following, ReserveInv, ReserveTyped
  <2> QED
    BY <1>2, <2>1, <2>2 DEF Following
<1>6. raced' \in BOOLEAN
  BY <1>1 DEF ReserveInv
<1> QED
  BY <1>4, <1>5, <1>6 DEF ReserveInv

\* A request is made, of a height no row is ahead of.
LEMMA RequestKeeps ==
    ASSUME ReserveInv, polls' \subseteq polls \cup {[at |-> watchNow, height |-> height]},
           UNCHANGED <<raw, watchNow, height, raced, reserveInserts, reserveRows>>,
           watching' # "down"
    PROVE  ReserveInv'
<1> DEFINE new == [at |-> watchNow, height |-> height]
<1>1. new.height = height
  OBVIOUS
<1>2. \A p \in polls' : p \in polls \/ p.height = height
  BY <1>1
<1>3. ReserveWritten' = ReserveWritten
  BY DEF ReserveWritten
<1>4. ReserveTyped'
  BY <1>2, <1>3 DEF ReserveInv, ReserveTyped
<1>5. Following => Following'
  BY <1>2, <1>3 DEF Following, ReserveInv, ReserveTyped
<1> QED
  BY <1>4, <1>5 DEF ReserveInv

\* The row that is written is of what is kept, and later than all others.
LEMMA FlushReserveKeeps ==
    ASSUME ReserveInv, Reserve!FlushReserveSnapshot
    PROVE  ReserveInv'
<1> DEFINE new == [at |-> watchNow, height |-> raw,
                   permits |-> Reserve!Permits(Ratios[raw][1], Ratios[raw][2])]
<1>1. /\ reserveInserts' = reserveInserts \cup {[row |-> new, own |-> TRUE]} /\ raw # None
      /\ UNCHANGED <<watchNow, height, watching, polls, raw, reserveRows, raced>>
  BY DEF Reserve!FlushReserveSnapshot, Reserve!Row, Reserve!None, None
<1>2. ReserveWritten' \subseteq ReserveWritten \cup {new}
  BY <1>1 DEF ReserveWritten
<1>3. /\ new.at = watchNow /\ new.height = raw
      /\ new.permits = Reserve!Permits(Ratios[new.height][1], Ratios[new.height][2])
  OBVIOUS
<1> HIDE DEF new
<1>4. \A r \in ReserveWritten' : r \in ReserveWritten \/ r = new
  BY <1>2
<1>5. ReserveTyped'
  BY <1>1, <1>3, <1>4 DEF ReserveInv, ReserveTyped
<1>6. ASSUME Following
      PROVE  Following'
  <2>1. /\ \A r \in ReserveWritten' : r.height <= raw
        /\ \A p \in polls : raw <= p.height /\ \A r \in ReserveWritten' : r.height <= p.height
    BY <1>1, <1>3, <1>4, <1>6 DEF Following, ReserveInv, ReserveTyped
  <2>2. \A r, s \in ReserveWritten' : r.at < s.at => r.height <= s.height
    BY <1>1, <1>3, <1>4, <1>6, <2>1 DEF Following, ReserveInv, ReserveTyped
  <2> QED
    BY <1>1, <2>1, <2>2 DEF Following
<1> QED
  BY <1>1, <1>5, <1>6 DEF ReserveInv

LEMMA ReserveNext ==
    ASSUME Reserve!ReserveAssumption, ReserveInv, [Reserve!Next]_(Reserve!vars)
    PROVE  ReserveInv'
<1> USE DEF Reserve!process
<1>0. height \in Nat /\ watchNow \in Int
  BY DEF ReserveInv, ReserveTyped
<1>1. ASSUME UNCHANGED <<watchNow, height, polls, raw, reserveInserts, reserveRows, raced, watching>>
      PROVE  ReserveInv'
  BY <1>1 DEF ReserveInv, ReserveTyped, Following, ReserveWritten
<1>2. CASE Reserve!Tick \/ Reserve!NewBlock
  <2>1. /\ watchNow' \in Int /\ watchNow' >= watchNow /\ height' \in Nat /\ height' >= height
        /\ UNCHANGED <<polls, raw, reserveInserts, reserveRows, raced, watching>>
    BY <1>0, <1>2 DEF Reserve!Tick, Reserve!NewBlock
  <2>2. ReserveWritten' \subseteq ReserveWritten
    BY <2>1 DEF ReserveWritten
  <2> QED
    BY <2>1, <2>2, Calmly DEF ReserveInv, ReserveTyped
<1>3. CASE Reserve!PollReserve \/ Reserve!StartZephyrWatcher
  <2>1. CASE Reserve!PollReserve
    BY <2>1, RequestKeeps DEF Reserve!PollReserve
  <2>2. CASE Reserve!StartZephyrWatcher
    <3>1. polls' = {[at |-> watchNow, height |-> height]} /\ watching' = "bootstrapping"
          /\ UNCHANGED <<raw, watchNow, height, raced, reserveInserts, reserveRows>>
      BY <2>2 DEF Reserve!StartZephyrWatcher
    <3> QED
      BY <3>1, RequestKeeps
  <2> QED
    BY <1>3, <2>1, <2>2
<1>4. CASE Reserve!Shutdown
  <2>1. /\ raw' = None /\ polls' = {} /\ UNCHANGED <<watchNow, height, raced, reserveRows>>
        /\ reserveInserts' = {[i EXCEPT !.own = FALSE] : i \in reserveInserts}
    BY <1>4 DEF Reserve!Shutdown, Reserve!None, None
  <2>3. ASSUME NEW i \in reserveInserts'
        PROVE  /\ i = [row |-> i.row, own |-> i.own]
               /\ \E j \in reserveInserts : i.row = j.row
    <3>1. PICK j \in reserveInserts : i = [j EXCEPT !.own = FALSE]
      BY <2>1
    <3>2. j = [row |-> j.row, own |-> j.own]
      BY DEF ReserveInv, ReserveTyped
    <3>3. i = [row |-> j.row, own |-> FALSE]
      BY <3>1, <3>2
    <3> QED
      BY <3>3
  <2>2. ReserveWritten' \subseteq ReserveWritten
    BY <2>1, <2>3 DEF ReserveWritten
  <2> QED
    BY <1>0, <2>1, <2>2, <2>3, Calmly
<1>5. ASSUME NEW p \in polls, Reserve!PollFails(p)
      PROVE  ReserveInv'
  <2>1. /\ polls' \subseteq polls /\ watching' = "running"
        /\ UNCHANGED <<watchNow, height, raw, reserveInserts, reserveRows, raced>>
    BY <1>5 DEF Reserve!PollFails, Reserve!Returned
  <2>2. ReserveWritten' \subseteq ReserveWritten
    BY <2>1 DEF ReserveWritten
  <2> QED
    BY <1>0, <2>1, <2>2, Calmly DEF ReserveInv, ReserveTyped
<1>6. ASSUME NEW i \in reserveInserts, Reserve!Inserted(i) \/ Reserve!InsertFails(i)
      PROVE  ReserveInv'
  <2>1. /\ UNCHANGED <<watchNow, height, watching, polls, raw, raced>>
        /\ reserveInserts' \subseteq reserveInserts
        /\ reserveRows' \subseteq reserveRows \cup {i.row}
    BY <1>6 DEF Reserve!Inserted, Reserve!InsertFails
  <2>2. ReserveWritten' \subseteq ReserveWritten
    BY <2>1 DEF ReserveWritten
  <2> QED
    BY <1>0, <2>1, <2>2, Calmly DEF ReserveInv, ReserveTyped
<1>7. CASE UNCHANGED Reserve!vars
  BY <1>1, <1>7 DEF Reserve!vars
<1> QED
  BY <1>2, <1>3, <1>4, <1>5, <1>6, <1>7, AnswerKeeps, FlushReserveKeeps DEF Reserve!Next

\* What a row permits is the policy of the reserve it is of.
LEMMA PermitsArePolicy ==
    ASSUME NEW ratio, NEW ma
    PROVE  Reserve!Permits(ratio, ma) = A!Policy(ratio, ma)
<1> DEFINE healthy == ratio >= 400 /\ ma >= 400
           usual   == ratio >= 400 /\ ratio <= 800 /\ ma >= 400 /\ ma <= 800
           within  == healthy /\ ratio <= 800 /\ ma <= 800
<1>1. usual = within
  <2>1. usual <=> within
    BY Zenon
  <2> QED
    BY <2>1
<1>2. A!Policy(ratio, ma) = [zsdMintable |-> healthy, zsdRedeemable |-> TRUE,
                             zrsMintable |-> within, zrsRedeemable |-> healthy]
  BY Zenon DEF A!Policy
<1>3. Reserve!Permits(ratio, ma) = [zsdMintable |-> healthy, zsdRedeemable |-> TRUE,
                                    zrsMintable |-> usual, zrsRedeemable |-> healthy]
  BY Zenon DEF Reserve!Permits
<1> QED
  BY <1>1, <1>2, <1>3, Zenon

LEMMA ReserveIsTold ==
    ASSUME ReserveInv
    PROVE  Reserve!RowsFollowTheChain /\ Reserve!RowsPermitWhat(A!Policy)
<1>1. Reserve!RowsFollowTheChain
  BY DEF ReserveInv, Following, ReserveWritten, Reserve!RowsFollowTheChain
<1>2. Reserve!RowsPermitWhat(A!Policy)
  BY PermitsArePolicy DEF ReserveInv, ReserveTyped, ReserveWritten, Reserve!RowsPermitWhat
<1> QED
  BY <1>1, <1>2

\* A shutdown of the MEXC watcher leaves a row of the ticker it found, unless the insert of it failed
\* (apps/watchers/src/mexc/snapshot.ts, flushToDbNow).  The rows of the reserve follow the chain over
\* every restart, unless two requests met, and say of the conversions what the engine's policy says of
\* their reserve (apps/watchers/src/zephyr/snapshot.ts; domain/zephyr/reserve.ts).
THEOREM RowsTell == MarketSpec => []RowsTellTheirSource
<1>1. MarketInit => RowsInv /\ ReserveInv
  BY MarketAssumption, PartsBegin, RowsInit, ReserveInit
<1>2. RowsInv /\ ReserveInv /\ [MarketNext]_allVars => RowsInv' /\ ReserveInv'
  BY MarketAssumption, PartsStep, RowsNext, ReserveNext
<1>3. RowsInv /\ ReserveInv => RowsTellTheirSource
  BY OwedIsPersisted, ReserveIsTold DEF RowsTellTheirSource
<1> QED
  BY <1>1, <1>2, <1>3, PTL DEF MarketSpec

(* The Zephyr watcher *)

WatchTimes == 0..ReserveMaxTime

\* The permits of a row.
PermitsAt(h) == Reserve!Permits(Ratios[h][1], Ratios[h][2])

IsWritten(r) ==
    /\ r = [at |-> r.at, height |-> r.height, permits |-> r.permits]
    /\ r.at \in WatchTimes /\ r.height \in Reserve!Heights /\ \E h \in Reserve!Heights : r.permits = PermitsAt(h)

IsAsked(p) == p = [at |-> p.at, height |-> p.height] /\ p.at \in WatchTimes /\ p.height \in Reserve!Heights

WatchTyped ==
    /\ watchNow \in WatchTimes /\ height \in Reserve!Heights /\ watching \in {"bootstrapping", "running", "down"}
    /\ \A p \in polls : IsAsked(p)
    /\ IsFiniteSet(polls) /\ Cardinality(polls) <= MaxPolls
    /\ asked \in WatchTimes \cup {None} /\ raw \in Reserve!Heights \cup {None}
    /\ \A i \in reserveInserts : i = [row |-> i.row, own |-> i.own] /\ IsWritten(i.row) /\ i.own \in BOOLEAN
    /\ \A r \in reserveRows : IsWritten(r)
    /\ flushing \in BOOLEAN /\ flushedAt \in WatchTimes
    /\ raced \in BOOLEAN /\ mishaps \in 0..MaxMishaps

LEMMA ReserveCounts == \A S : Reserve!Cardinality(S) = Cardinality(S) /\ Reserve!IsFiniteSet(S) = IsFiniteSet(S)
BY DEF Reserve!Cardinality, Cardinality, Reserve!IsFiniteSet, IsFiniteSet

LEMMA WatchIsTyped == ASSUME Reserve!ReserveAssumption, WatchTyped PROVE Reserve!TypeOK
<1>1. WatchTimes \cup {None} \subseteq Reserve!None..ReserveMaxTime /\ Reserve!None = None
  BY DEF WatchTimes, Reserve!ReserveAssumption, None, Reserve!None
<1>2. polls \subseteq [at : WatchTimes, height : Reserve!Heights]
  BY DEF WatchTyped, IsAsked
<1>3. \A r : IsWritten(r) => r \in Reserve!Written
  BY DEF IsWritten, Reserve!Written, WatchTimes, PermitsAt
<1>4. reserveInserts \subseteq [row : Reserve!Written, own : BOOLEAN] /\ reserveRows \subseteq Reserve!Written
  BY <1>3 DEF WatchTyped
<1> QED
  BY <1>1, <1>2, <1>4, ReserveCounts DEF WatchTyped, Reserve!TypeOK, WatchTimes

\* The heights between two heights are heights.
LEMMA HeightsBetween ==
    ASSUME Reserve!ReserveAssumption
    PROVE  /\ Reserve!Heights \subseteq Int /\ None \notin Reserve!Heights /\ 0 \in Reserve!Heights
           /\ \A low1, high1 \in Reserve!Heights : low1..high1 \subseteq Reserve!Heights
<1> DEFINE n == Cardinality(Reserve!Heights) - 1
<1>1. n \in Int
  BY FS_CardinalityType, ReserveCounts DEF Reserve!ReserveAssumption
<1>2. Reserve!Heights = 0..n /\ 0 \in Reserve!Heights
  BY ReserveCounts DEF Reserve!ReserveAssumption
<1> HIDE DEF n
<1> QED
  BY <1>1, <1>2 DEF None

LEMMA WatchTypesBegin == ASSUME Reserve!ReserveAssumption, Reserve!Init PROVE WatchTyped
<1> DEFINE poll0 == [at |-> watchNow, height |-> 0]
<1>1. /\ watchNow = FlushEvery /\ FlushEvery \in WatchTimes /\ height = 0 /\ watching = "bootstrapping"
      /\ polls = {poll0} /\ asked = watchNow /\ raw = None /\ raced = FALSE /\ reserveInserts = {}
      /\ reserveRows = {} /\ flushing = FALSE /\ flushedAt = 0 /\ 0 \in WatchTimes
      /\ mishaps = 0 /\ 0 \in 0..MaxMishaps /\ MaxPolls >= 1
  BY DEF Reserve!Init, Reserve!ReserveAssumption, Reserve!None, None, WatchTimes
<1>2. 0 \in Reserve!Heights
  BY HeightsBetween
<1>3. IsAsked(poll0)
  BY <1>1, <1>2 DEF IsAsked
<1> HIDE DEF poll0
<1>4. IsFiniteSet(polls) /\ Cardinality(polls) <= MaxPolls
  BY <1>1, FS_Singleton
<1> QED
  BY <1>1, <1>2, <1>3, <1>4 DEF WatchTyped

\* A request is made; requests end.
LEMMA RequestsTyped ==
    ASSUME Reserve!ReserveAssumption, WatchTyped
    PROVE  /\ \A p \in polls : /\ IsFiniteSet(polls \ {p}) /\ Cardinality(polls \ {p}) <= MaxPolls
                               /\ \A q \in polls \ {p} : IsAsked(q)
           /\ Cardinality(polls) < MaxPolls =>
                  LET more == polls \cup {[at |-> watchNow, height |-> height]}
                  IN  IsFiniteSet(more) /\ Cardinality(more) <= MaxPolls /\ \A q \in more : IsAsked(q)
           /\ LET one == {[at |-> watchNow, height |-> height]}
              IN  IsFiniteSet(one) /\ Cardinality(one) <= MaxPolls /\ \A q \in one : IsAsked(q)
<1> DEFINE new == [at |-> watchNow, height |-> height]
<1>1. IsFiniteSet(polls) /\ Cardinality(polls) \in Nat /\ Cardinality(polls) <= MaxPolls
      /\ MaxPolls \in Nat /\ MaxPolls >= 1
  BY FS_CardinalityType DEF WatchTyped, Reserve!ReserveAssumption
<1>2. IsAsked(new)
  BY DEF IsAsked, WatchTyped
<1> HIDE DEF new
<1>3. ASSUME NEW p \in polls
      PROVE  /\ IsFiniteSet(polls \ {p}) /\ Cardinality(polls \ {p}) <= MaxPolls
             /\ \A q \in polls \ {p} : IsAsked(q)
  <2>1. IsFiniteSet(polls \ {p}) /\ Cardinality(polls \ {p}) <= Cardinality(polls)
    BY <1>1, FS_Subset, Zenon
  <2>2. Cardinality(polls \ {p}) \in Nat
    BY <2>1, FS_CardinalityType
  <2>3. \A q \in polls \ {p} : IsAsked(q)
    BY DEF WatchTyped
  <2> QED
    BY <1>1, <2>1, <2>2, <2>3
<1>4. IsFiniteSet(polls \cup {new}) /\ Cardinality(polls \cup {new}) <= Cardinality(polls) + 1
  <2>1. /\ IsFiniteSet(polls \cup {new})
        /\ Cardinality(polls \cup {new}) = IF new \in polls THEN Cardinality(polls) ELSE Cardinality(polls) + 1
    BY <1>1, FS_AddElement, Zenon
  <2> QED
    BY <1>1, <2>1
<1>5. IsFiniteSet({new}) /\ Cardinality({new}) = 1
  BY FS_Singleton
<1>6. ASSUME Cardinality(polls) < MaxPolls
      PROVE  /\ IsFiniteSet(polls \cup {new}) /\ Cardinality(polls \cup {new}) <= MaxPolls
             /\ \A q \in polls \cup {new} : IsAsked(q)
  <2>1. Cardinality(polls \cup {new}) <= MaxPolls
    <3>1. Cardinality(polls \cup {new}) \in Nat
      BY <1>4, FS_CardinalityType
    <3> QED
      BY <1>1, <1>4, <1>6, <3>1
  <2> QED
    BY <1>2, <1>4, <2>1 DEF WatchTyped
<1>7. IsFiniteSet({new}) /\ Cardinality({new}) <= MaxPolls /\ \A q \in {new} : IsAsked(q)
  BY <1>1, <1>2, <1>5
<1> QED
  BY <1>3, <1>6, <1>7 DEF new

LEMMA MishapTyped == ASSUME Reserve!ReserveAssumption, WatchTyped, Reserve!Mishap PROVE mishaps' \in 0..MaxMishaps
BY DEF Reserve!ReserveAssumption, WatchTyped, Reserve!Mishap

\* Rows and inserts of them.
LEMMA WrittenTyped ==
    ASSUME Reserve!ReserveAssumption, WatchTyped, NEW i \in reserveInserts, Reserve!Inserted(i) \/ Reserve!InsertFails(i)
    PROVE  WatchTyped'
<1>1. IsWritten(i.row) /\ i.own \in BOOLEAN
  BY DEF WatchTyped
<1>2. i.row.at \in WatchTimes
  BY <1>1 DEF IsWritten
<1>3. reserveInserts' = reserveInserts \ {i} /\ UNCHANGED <<watchNow, height, watching, polls, asked, raw, raced>>
  BY DEF Reserve!Inserted, Reserve!InsertFails
<1>4. /\ reserveRows' \subseteq reserveRows \cup {i.row}
      /\ flushedAt' = flushedAt \/ flushedAt' = i.row.at
      /\ flushing' \in BOOLEAN
  BY DEF Reserve!Inserted, Reserve!InsertFails, WatchTyped
<1>5. mishaps' \in 0..MaxMishaps
  BY MishapTyped DEF Reserve!Inserted, Reserve!InsertFails, WatchTyped
<1>6. \A r \in reserveRows' : IsWritten(r)
  BY <1>1, <1>4 DEF WatchTyped
<1> QED
  BY <1>2, <1>3, <1>4, <1>5, <1>6 DEF WatchTyped

LEMMA WatchTypes ==
    ASSUME Reserve!ReserveAssumption, WatchTyped, [Reserve!Next]_(Reserve!vars)
    PROVE  WatchTyped'
<1> USE DEF Reserve!process
<1>0. Reserve!None = None /\ 0 \in WatchTimes
  BY DEF None, Reserve!None, WatchTimes, Reserve!ReserveAssumption
<1>1. CASE Reserve!Tick
  <2>1. watchNow' \in WatchTimes
    BY <1>1 DEF Reserve!Tick, WatchTyped, WatchTimes, Reserve!ReserveAssumption
  <2> QED
    BY <1>1, <2>1 DEF Reserve!Tick, WatchTyped
<1>2. CASE Reserve!NewBlock
  BY <1>2 DEF Reserve!NewBlock, WatchTyped
<1>3. CASE Reserve!PollReserve
  <2>1. /\ polls' = polls \cup {[at |-> watchNow, height |-> height]} /\ asked' = watchNow
        /\ Cardinality(polls) < MaxPolls
        /\ UNCHANGED <<watchNow, height, watching, raw, flushing, flushedAt, reserveInserts, reserveRows, raced, mishaps>>
    BY <1>3, ReserveCounts DEF Reserve!PollReserve
  <2>2. IsFiniteSet(polls') /\ Cardinality(polls') <= MaxPolls /\ \A q \in polls' : IsAsked(q)
    BY <2>1, RequestsTyped
  <2> QED
    BY <2>1, <2>2 DEF WatchTyped
<1>4. CASE Reserve!StartZephyrWatcher
  <2>1. /\ polls' = {[at |-> watchNow, height |-> height]} /\ asked' = watchNow /\ watching' = "bootstrapping"
        /\ UNCHANGED <<watchNow, height, raw, flushing, flushedAt, reserveInserts, reserveRows, raced>>
    BY <1>4 DEF Reserve!StartZephyrWatcher
  <2>2. IsFiniteSet(polls') /\ Cardinality(polls') <= MaxPolls /\ \A q \in polls' : IsAsked(q)
    BY <2>1, RequestsTyped
  <2>3. mishaps' \in 0..MaxMishaps
    BY <1>4, MishapTyped DEF Reserve!StartZephyrWatcher
  <2> QED
    BY <2>1, <2>2, <2>3 DEF WatchTyped
<1>5. CASE Reserve!FlushReserveSnapshot
  <2> DEFINE new == [row |-> Reserve!Row(raw), own |-> TRUE]
  <2>1. /\ reserveInserts' = reserveInserts \cup {new} /\ flushing' = TRUE /\ raw # None
        /\ UNCHANGED <<watchNow, height, watching, polls, asked, raw, flushedAt, reserveRows, raced, mishaps>>
    BY <1>0, <1>5 DEF Reserve!FlushReserveSnapshot
  <2>2. raw \in Reserve!Heights
    BY <2>1 DEF WatchTyped
  <2>3. IsWritten(Reserve!Row(raw))
    BY <2>2 DEF WatchTyped, IsWritten, Reserve!Row, PermitsAt
  <2>4. new = [row |-> new.row, own |-> new.own] /\ IsWritten(new.row) /\ new.own \in BOOLEAN
    BY <2>3
  <2> HIDE DEF new
  <2> QED
    BY <2>1, <2>4 DEF WatchTyped
<1>6. CASE Reserve!Shutdown
  <2>1. /\ watching' = "down" /\ polls' = {} /\ raw' = None /\ flushing' = FALSE
        /\ asked' = None /\ flushedAt' = 0
        /\ reserveInserts' = {[i EXCEPT !.own = FALSE] : i \in reserveInserts}
        /\ UNCHANGED <<watchNow, height, reserveRows, raced, mishaps>>
    BY <1>0, <1>6 DEF Reserve!Shutdown
  <2>2. ASSUME NEW i \in reserveInserts'
        PROVE  i = [row |-> i.row, own |-> i.own] /\ IsWritten(i.row) /\ i.own \in BOOLEAN
    <3>1. PICK j \in reserveInserts : i = [j EXCEPT !.own = FALSE]
      BY <2>1
    <3>2. j = [row |-> j.row, own |-> j.own] /\ IsWritten(j.row)
      BY DEF WatchTyped
    <3>3. i = [row |-> j.row, own |-> FALSE]
      BY <3>1, <3>2
    <3> QED
      BY <3>2, <3>3
  <2>3. IsFiniteSet(polls') /\ Cardinality(polls') <= MaxPolls
    BY <2>1, FS_EmptySet DEF Reserve!ReserveAssumption
  <2> QED
    BY <1>0, <2>1, <2>2, <2>3 DEF WatchTyped
<1>7. ASSUME NEW p \in polls, Reserve!UpdateReserveState(p) \/ Reserve!PollFails(p)
      PROVE  WatchTyped'
  <2>1. /\ polls' = polls \ {p} /\ watching' = "running"
        /\ UNCHANGED <<watchNow, height, asked, flushing, flushedAt, reserveInserts, reserveRows>>
    BY <1>7 DEF Reserve!UpdateReserveState, Reserve!PollFails, Reserve!Returned
  <2>2. raw' \in Reserve!Heights \cup {None}
    <3>1. p.height \in Reserve!Heights /\ height \in Reserve!Heights
      BY DEF WatchTyped, IsAsked
    <3>2. raw' = raw \/ raw' \in p.height..height
      BY <1>7 DEF Reserve!UpdateReserveState, Reserve!PollFails
    <3> QED
      BY <3>1, <3>2, HeightsBetween DEF WatchTyped
  <2>3. raced' \in BOOLEAN
    BY <1>7 DEF Reserve!UpdateReserveState, Reserve!PollFails, WatchTyped
  <2>4. mishaps' \in 0..MaxMishaps
    BY <1>7, MishapTyped DEF Reserve!UpdateReserveState, Reserve!PollFails, WatchTyped
  <2>5. IsFiniteSet(polls') /\ Cardinality(polls') <= MaxPolls /\ \A q \in polls' : IsAsked(q)
    BY <2>1, RequestsTyped
  <2> QED
    BY <2>1, <2>2, <2>3, <2>4, <2>5 DEF WatchTyped
<1>8. CASE UNCHANGED Reserve!vars
  BY <1>8 DEF Reserve!vars, WatchTyped
<1> QED
  BY <1>1, <1>2, <1>3, <1>4, <1>5, <1>6, <1>7, <1>8, WrittenTyped DEF Reserve!Next

-----------------------------------------------------------------------------
(* The file of paper balances *)

FilePoints == {"none", "read", "write", "fill", "repair", "refill"}
Stores == [File!Tokens -> Int]

FileOps ==
    [pc : FilePoints, token : File!Tokens \cup {File!NoToken}, amount : Int, read : {File!Torn} \cup Stores]

FileTyped ==
    /\ entered \in Stores /\ doubted \subseteq File!Tokens /\ op \in [Requests -> FileOps]
    /\ file # File!Torn => file \in Stores

\* A request about to write has the balances it read, of which those in no doubt are the ones entered
\* last; one that repairs the file has put all of them in doubt.
Sound(q) ==
    /\ op[q].pc \in {"write", "fill"} =>
          /\ File!Edits(q) /\ op[q].read \in Stores
          /\ \A t \in File!Tokens \ doubted : op[q].read[t] = entered[t]
    /\ op[q].pc \in {"repair", "refill"} => doubted = File!Tokens

FileInv == FileTyped /\ File!LoneEditsAreKept /\ \A q \in Requests : Sound(q)

LEMMA EmptyStore == File!Empty \in Stores
BY DEF File!Empty, Stores

LEMMA NoOpTyped == File!NoOp \in FileOps /\ File!NoOp.pc = "none"
BY DEF File!NoOp, FileOps, FilePoints

LEMMA FileInit == ASSUME File!BalancesAssumption, File!Init PROVE FileInv
<1>1. FileTyped
  BY NoOpTyped, EmptyStore DEF File!Init, FileTyped
<1>2. File!LoneEditsAreKept
  BY DEF File!Init, File!LoneEditsAreKept
<1>3. \A q \in Requests : Sound(q)
  BY NoOpTyped DEF File!Init, Sound
<1> QED
  BY <1>1, <1>2, <1>3 DEF FileInv

\* The step of one request.
LEMMA FileMoves ==
    ASSUME FileInv, NEW r \in Requests, NEW new \in FileOps, op' = [op EXCEPT ![r] = new],
           entered' \in Stores, doubted' \subseteq File!Tokens, file' # File!Torn => file' \in Stores
    PROVE  /\ FileTyped' /\ op'[r] = new
           /\ \A q \in Requests : q # r => op'[q] = op[q] /\ (File!Edits(q)' <=> File!Edits(q))
BY DEF FileInv, FileTyped, File!Edits

\* A step that leaves the file and what was entered, and whose request is sound after it.
LEMMA OneMoves ==
    ASSUME FileInv, NEW r \in Requests, NEW new \in FileOps, op' = [op EXCEPT ![r] = new],
           file' \in {file, File!Torn}, entered' = entered, doubted' \in {doubted, File!Tokens}, Sound(r)'
    PROVE  FileInv'
<1>1. /\ FileTyped'
      /\ \A q \in Requests : q # r => op'[q] = op[q] /\ (File!Edits(q)' <=> File!Edits(q))
  <2>1. entered' \in Stores /\ doubted' \subseteq File!Tokens /\ (file' # File!Torn => file' \in Stores)
    BY DEF FileInv, FileTyped
  <2> QED
    BY <2>1, FileMoves
<1>2. File!LoneEditsAreKept'
  BY DEF FileInv, File!LoneEditsAreKept
<1>3. ASSUME NEW q \in Requests, q # r PROVE Sound(q)'
  BY <1>1, <1>3 DEF FileInv, Sound
<1> QED
  BY <1>1, <1>2, <1>3 DEF FileInv

LEMMA EnterKeeps ==
    ASSUME FileInv, NEW r \in Requests, NEW t \in File!Tokens \cup {File!NoToken}, NEW n \in Int,
           File!Enter(r, t, n)
    PROVE  FileInv'
<1> DEFINE new == [File!NoOp EXCEPT !.pc = "read", !.token = t, !.amount = n]
<1>1. op' = [op EXCEPT ![r] = new] /\ UNCHANGED <<file, entered, doubted>>
  BY Zenon DEF File!Enter
<1>2. new \in FileOps /\ new.pc = "read"
  BY DEF FilePoints, FileOps, File!NoOp
<1> HIDE DEF new
<1>3. op'[r] = new
  BY <1>1 DEF FileInv, FileTyped
<1>4. Sound(r)'
  BY <1>2, <1>3 DEF Sound
<1> QED
  BY <1>1, <1>2, <1>4, OneMoves

\* A request ends, the file as it is.
LEMMA LeaveKeeps ==
    ASSUME FileInv, NEW r \in Requests, File!Leave(r), UNCHANGED <<file, entered, doubted>>
    PROVE  FileInv'
<1>1. op' = [op EXCEPT ![r] = File!NoOp]
  BY DEF File!Leave
<1>2. op'[r] = File!NoOp
  BY <1>1 DEF FileInv, FileTyped
<1>3. Sound(r)'
  BY <1>2, NoOpTyped DEF Sound
<1> QED
  BY <1>1, <1>3, NoOpTyped, OneMoves

\* A request reads the file: all of what was entered, or the emptied file, which puts all in doubt.
LEMMA ReadFileKeeps ==
    ASSUME FileInv, NEW r \in Requests, File!ReadFile(r)
    PROVE  FileInv'
<1>1. UNCHANGED <<file, entered>> /\ op[r] \in FileOps
  BY DEF File!ReadFile, FileInv, FileTyped
<1>2. CASE file = File!Torn
  <2> DEFINE new == [op[r] EXCEPT !.pc = "repair", !.read = File!Empty]
  <2>1. op' = [op EXCEPT ![r] = new] /\ doubted' = File!Tokens
    BY <1>2 DEF File!ReadFile, File!Goto, FileInv, FileTyped
  <2>2. new \in FileOps /\ new.pc = "repair"
    BY <1>1, EmptyStore DEF FileOps, FilePoints
  <2> HIDE DEF new
  <2>3. op'[r] = new
    BY <2>1 DEF FileInv, FileTyped
  <2>4. Sound(r)'
    BY <2>1, <2>2, <2>3 DEF Sound
  <2> QED
    BY <1>1, <2>1, <2>2, <2>4, OneMoves
<1>3. CASE file # File!Torn /\ File!Edits(r)
  <2> DEFINE new == [op[r] EXCEPT !.pc = "write", !.read = file]
  <2>1. op' = [op EXCEPT ![r] = new] /\ doubted' = doubted
    BY <1>3 DEF File!ReadFile, File!Goto, FileInv, FileTyped
  <2>2. new \in FileOps /\ new.pc = "write" /\ new.read = file /\ new.token = op[r].token /\ file \in Stores
    BY <1>1, <1>3 DEF FileOps, FilePoints, FileInv, FileTyped
  <2> HIDE DEF new
  <2>3. op'[r] = new
    BY <2>1 DEF FileInv, FileTyped
  <2>4. Sound(r)'
    BY <1>1, <1>3, <2>1, <2>2, <2>3 DEF Sound, File!Edits, FileInv, File!LoneEditsAreKept
  <2> QED
    BY <1>1, <2>1, <2>2, <2>4, OneMoves
<1>4. CASE file # File!Torn /\ ~File!Edits(r)
  <2>1. File!Leave(r) /\ doubted' = doubted
    BY <1>4 DEF File!ReadFile
  <2> QED
    BY <1>1, <2>1, LeaveKeeps
<1> QED
  BY <1>2, <1>3, <1>4

LEMMA TruncateKeeps ==
    ASSUME FileInv, NEW r \in Requests, File!Truncate(r)
    PROVE  FileInv'
<1> DEFINE pc == IF op[r].pc = "write" THEN "fill" ELSE "refill"
           new == [op[r] EXCEPT !.pc = pc, !.read = op[r].read]
<1>1. /\ file' = File!Torn /\ UNCHANGED <<entered, doubted>>
      /\ op[r].pc \in {"write", "repair"} /\ op[r] \in FileOps
      /\ op' = [op EXCEPT ![r] = new]
  BY DEF File!Truncate, File!Goto, File!At, FileInv, FileTyped
<1>2. new \in FileOps /\ new.pc = pc /\ new.read = op[r].read /\ new.token = op[r].token
  BY <1>1 DEF FileOps, FilePoints
<1> HIDE DEF new
<1>3. op'[r] = new
  BY <1>1 DEF FileInv, FileTyped
<1>4. Sound(r)'
  BY <1>1, <1>2, <1>3 DEF Sound, File!Edits, FileInv
<1> QED
  BY <1>1, <1>2, <1>4, OneMoves

\* The store with the edit in it is written: of the balances in no doubt all have what was entered, and
\* so has the edited one where nobody else has a store in hand.
LEMMA FillKeeps ==
    ASSUME FileInv, NEW r \in Requests, File!Fill(r)
    PROVE  FileInv'
<1> DEFINE token == op[r].token
           amount == op[r].amount
           read == op[r].read
<1>1. /\ op[r].pc = "fill"
      /\ file' = [read EXCEPT ![token] = amount]
      /\ entered' = [entered EXCEPT ![token] = amount]
      /\ op' = [op EXCEPT ![r] = File!NoOp]
      /\ doubted' = IF File!Alone(r) THEN doubted \ {token} ELSE doubted \cup {token}
  BY Zenon DEF File!Fill, File!Answer, File!Leave, File!At
<1>2. /\ token \in File!Tokens /\ amount \in Int /\ read \in Stores
      /\ \A t \in File!Tokens \ doubted : read[t] = entered[t]
  <2>1. op[r] \in FileOps /\ Sound(r)
    BY DEF FileInv, FileTyped
  <2>2. token \in File!Tokens \cup {File!NoToken} /\ amount \in Int
    BY <2>1 DEF FileOps
  <2> QED
    BY <1>1, <2>1, <2>2 DEF Sound, File!Edits
<1> HIDE DEF token, amount, read
<1>3. /\ file' \in Stores /\ entered' \in Stores /\ doubted' \subseteq File!Tokens
      /\ file'[token] = amount /\ entered'[token] = amount
      /\ \A t \in File!Tokens : t # token => file'[t] = read[t] /\ entered'[t] = entered[t]
  BY <1>1, <1>2 DEF FileInv, FileTyped, Stores
<1>4. /\ FileTyped' /\ op'[r] = File!NoOp
      /\ \A q \in Requests : q # r => op'[q] = op[q] /\ (File!Edits(q)' <=> File!Edits(q))
  BY <1>1, <1>3, NoOpTyped, FileMoves
<1>5. \A t \in File!Tokens \ doubted' : t # token => t \notin doubted
  BY <1>1
<1>6. File!LoneEditsAreKept'
  BY <1>2, <1>3, <1>5 DEF File!LoneEditsAreKept
<1>7. ASSUME NEW q \in Requests PROVE Sound(q)'
  <2>1. CASE q = r
    BY <1>4, <2>1, NoOpTyped DEF Sound
  <2>2. CASE q # r /\ op[q].pc \in {"write", "fill", "repair", "refill"}
    <3>1. doubted' = doubted \cup {token}
      BY <1>1, <2>2 DEF File!Alone
    <3>2. \A t \in File!Tokens \ doubted' : t # token /\ t \notin doubted
      BY <3>1
    <3>3. Sound(q)
      BY DEF FileInv
    <3> QED
      BY <1>2, <1>3, <1>4, <2>2, <3>1, <3>2, <3>3 DEF Sound
  <2>3. CASE q # r /\ op[q].pc \notin {"write", "fill", "repair", "refill"}
    BY <1>4, <2>3 DEF Sound
  <2> QED
    BY <2>1, <2>2, <2>3
<1> QED
  BY <1>4, <1>6, <1>7 DEF FileInv

\* Only a file of which all is in doubt is repaired.
LEMMA RefillKeeps ==
    ASSUME FileInv, NEW r \in Requests, File!Refill(r)
    PROVE  FileInv'
<1>1. /\ doubted = File!Tokens /\ UNCHANGED <<entered, doubted>> /\ file' = File!Empty
      /\ op[r] \in FileOps
  BY DEF File!Refill, File!At, FileInv, FileTyped, Sound
<1> DEFINE next == [op[r] EXCEPT !.pc = "write", !.read = File!Empty]
           new == IF File!Edits(r) THEN next ELSE File!NoOp
<1>2. op' = [op EXCEPT ![r] = new]
  BY DEF File!Refill, File!Goto, File!Leave, FileInv, FileTyped
<1>3. /\ next \in FileOps /\ next.pc = "write" /\ next.read = File!Empty /\ next.token = op[r].token
  BY <1>1, EmptyStore DEF FileOps, FilePoints
<1>4. new \in FileOps /\ (new.pc = "write" => new.read \in Stores /\ new.token # File!NoToken)
                      /\ new.pc \in {"write", "none"}
  BY <1>3, NoOpTyped, EmptyStore DEF File!Edits
<1> HIDE DEF next, new
<1>5. /\ FileTyped' /\ op'[r] = new
      /\ \A q \in Requests : q # r => op'[q] = op[q] /\ (File!Edits(q)' <=> File!Edits(q))
  BY <1>1, <1>2, <1>4, EmptyStore, FileMoves DEF FileInv, FileTyped
<1>6. File!LoneEditsAreKept'
  BY <1>1 DEF File!LoneEditsAreKept
<1>7. ASSUME NEW q \in Requests PROVE Sound(q)'
  BY <1>1, <1>4, <1>5 DEF Sound, FileInv, File!Edits
<1> QED
  BY <1>5, <1>6, <1>7 DEF FileInv

LEMMA FileNext ==
    ASSUME File!BalancesAssumption, FileInv, [File!Next]_(File!vars)
    PROVE  FileInv'
<1>1. CASE UNCHANGED File!vars
  BY <1>1 DEF File!vars, FileInv, FileTyped, Sound, File!LoneEditsAreKept, File!Edits
<1>2. ASSUME NEW r \in Requests, NEW t \in File!Tokens, NEW n \in Edited, File!Upsert(r, t, n)
      PROVE  FileInv'
  BY <1>2, EnterKeeps DEF File!Upsert, File!BalancesAssumption
<1>3. ASSUME NEW r \in Requests, File!Load(r)
      PROVE  FileInv'
  BY <1>3, EnterKeeps DEF File!Load
<1>4. ASSUME NEW r \in Requests, File!Crash(r)
      PROVE  FileInv'
  BY <1>4, LeaveKeeps DEF File!Crash
<1> QED
  BY <1>1, <1>2, <1>3, <1>4, ReadFileKeeps, TruncateKeeps, FillKeeps, RefillKeeps DEF File!Next

LEMMA FileIsKept == ASSUME FileInv PROVE File!LoneEditsAreKept
BY DEF FileInv

LEMMA EditsTyped ==
    /\ File!BalancesAssumption /\ File!Init => edits \in 0..MaxEdits
    /\ File!BalancesAssumption /\ edits \in 0..MaxEdits /\ [File!Next]_(File!vars) => edits' \in 0..MaxEdits
<1>1. File!BalancesAssumption /\ File!Init => edits \in 0..MaxEdits
  BY DEF File!BalancesAssumption, File!Init
<1>2. [File!Next]_(File!vars) => UNCHANGED edits \/ (edits < MaxEdits /\ edits' = edits + 1)
  BY DEF File!Next, File!vars, File!Upsert, File!Load, File!ReadFile, File!Truncate, File!Fill,
         File!Answer, File!Refill, File!Crash
<1> QED
  BY <1>1, <1>2 DEF File!BalancesAssumption

LEMMA FileIsTyped == ASSUME FileInv, edits \in 0..MaxEdits PROVE File!TypeOK
BY DEF FileInv, FileTyped, FileOps, FilePoints, Stores, File!TypeOK

-----------------------------------------------------------------------------
(* The table of balances *)

TableProofs == INSTANCE InventoryTableProofs WITH
    Coins <- Tabled, held <- balance, snapshot <- cycle, troubles <- tableTroubles,
    MaxTroubles <- TableTroubles

\* The table is the one of InventoryTableProofs.
LEMMA TableIsProved ==
    /\ Table!TableAssumption => TableProofs!TableAssumption
    /\ Table!Init => TableProofs!Init
    /\ [Table!Next]_(Table!vars) => [TableProofs!Next]_(TableProofs!vars)
    /\ TableProofs!SyncedRowsStand => Table!SyncedRowsStand
<1> USE DEF Table!engine, TableProofs!engine, Table!Respond, TableProofs!Respond,
            Table!Trouble, TableProofs!Trouble, Table!None, TableProofs!None,
            Table!NoSnapshot, TableProofs!NoSnapshot, Table!NoRequest, TableProofs!NoRequest
<1>1. Table!TableAssumption => TableProofs!TableAssumption
  BY DEF Table!TableAssumption, TableProofs!TableAssumption, Table!IsFiniteSet, TableProofs!IsFiniteSet,
         Table!VenueMap, TableProofs!VenueMap
<1>2. TableProofs!Assets = Table!Assets
  BY DEF TableProofs!Assets, Table!Assets
<1>3. /\ \A a : TableProofs!EngineKey(a) = Table!EngineKey(a)
      /\ \A c, v : TableProofs!SymbolKey(c, v) = Table!SymbolKey(c, v)
  BY DEF TableProofs!EngineKey, Table!EngineKey, TableProofs!VenueForAsset, Table!VenueForAsset,
         TableProofs!SymbolKey, Table!SymbolKey
<1>4. TableProofs!Keys = Table!Keys
  <2>1. TableProofs!Venues = Table!Venues
    BY DEF TableProofs!Venues, Table!Venues
  <2>2. {TableProofs!EngineKey(a) : a \in TableProofs!Assets} = {Table!EngineKey(a) : a \in Table!Assets}
    BY <1>2, <1>3
  <2>3. {TableProofs!SymbolKey(c, v) : c \in Tabled, v \in TableProofs!Venues}
            = {Table!SymbolKey(c, v) : c \in Tabled, v \in Table!Venues}
    BY <1>3, <2>1
  <2> QED
    BY <2>2, <2>3 DEF TableProofs!Keys, Table!Keys
<1>5. Table!Init => TableProofs!Init
  BY <1>2, <1>4 DEF Table!Init, TableProofs!Init
<1>6. ASSUME NEW S
      PROVE  TableProofs!SetToSeq(S) = Table!SetToSeq(S)
  BY DEF TableProofs!SetToSeq, Table!SetToSeq, TableProofs!IsInjective, Table!IsInjective,
         TableProofs!Cardinality, Table!Cardinality
<1>7. \A b, s : TableProofs!Entries(b, s) = Table!Entries(b, s)
  BY <1>2, <1>6 DEF TableProofs!Entries, Table!Entries
<1>8. /\ Table!LoadInventorySnapshot => TableProofs!LoadInventorySnapshot
      /\ Table!Upsert => TableProofs!Upsert
      /\ Table!UpsertFails => TableProofs!UpsertFails
      /\ Table!Crash => TableProofs!Crash
  BY <1>3, <1>7
     DEF Table!LoadInventorySnapshot, TableProofs!LoadInventorySnapshot, Table!Upsert, TableProofs!Upsert,
         Table!UpsertFails, TableProofs!UpsertFails, Table!Crash, TableProofs!Crash
<1>9. /\ \A a, n : Table!Change(a, n) => TableProofs!Change(a, n)
      /\ \A p, c, v, n : Table!Ask(p, c, v, n) => TableProofs!Ask(p, c, v, n)
  BY <1>3 DEF Table!Change, TableProofs!Change, Table!Ask, TableProofs!Ask
<1>10. ASSUME NEW p
       PROVE  /\ Table!ReadBalances(p) => TableProofs!ReadBalances(p)
              /\ Table!ApplyDeltas(p) => TableProofs!ApplyDeltas(p)
              /\ Table!ActionFails(p) => TableProofs!ActionFails(p)
  BY DEF Table!ReadBalances, TableProofs!ReadBalances, Table!ApplyDeltas, TableProofs!ApplyDeltas,
         Table!ActionFails, TableProofs!ActionFails, Table!Waiting, TableProofs!Waiting,
         Table!Amount, TableProofs!Amount, Table!Deltas, TableProofs!Deltas
<1>11. Table!Next => TableProofs!Next
  BY <1>2, <1>8, <1>9, <1>10, Zenon DEF Table!Next, TableProofs!Next
<1>12. UNCHANGED Table!vars => UNCHANGED TableProofs!vars
  BY DEF Table!vars, TableProofs!vars
<1>13. TableProofs!SyncedRowsStand => Table!SyncedRowsStand
  BY <1>2, <1>3, <1>4 DEF TableProofs!SyncedRowsStand, Table!SyncedRowsStand, TableProofs!Venues, Table!Venues
<1> QED
  BY <1>1, <1>5, <1>11, <1>12, <1>13

LEMMA TableIsTyped == TableProofs!TypeOK => Table!TypeOK
<1>1. TableProofs!Assets = Table!Assets /\ TableProofs!NoSnapshot = Table!NoSnapshot
  BY DEF TableProofs!Assets, Table!Assets, TableProofs!NoSnapshot, Table!NoSnapshot, TableProofs!None, Table!None
<1>2. /\ \A a : TableProofs!EngineKey(a) = Table!EngineKey(a)
      /\ \A c, v : TableProofs!SymbolKey(c, v) = Table!SymbolKey(c, v)
      /\ TableProofs!Venues = Table!Venues
  BY DEF TableProofs!EngineKey, Table!EngineKey, TableProofs!VenueForAsset, Table!VenueForAsset,
         TableProofs!SymbolKey, Table!SymbolKey, TableProofs!Venues, Table!Venues
<1>3. TableProofs!Keys = Table!Keys
  <2>1. {TableProofs!EngineKey(a) : a \in TableProofs!Assets} = {Table!EngineKey(a) : a \in Table!Assets}
    BY <1>1, <1>2
  <2>2. {TableProofs!SymbolKey(c, v) : c \in Tabled, v \in TableProofs!Venues}
            = {Table!SymbolKey(c, v) : c \in Tabled, v \in Table!Venues}
    BY <1>2
  <2> QED
    BY <2>1, <2>2 DEF TableProofs!Keys, Table!Keys
<1> QED
  BY <1>1, <1>3 DEF TableProofs!TypeOK, Table!TypeOK

\* An edit of the paper balances is kept of every token that is in no doubt: that no request wrote over
\* with what it had read before, and that none found emptied since (paperBalanceStore.ts).  And what a
\* complete cycle wrote of the balances stands until the next, however many requests of the dashboard
\* overlap, as none of them finds a row it asks for
\* (inventory/balances.ts, syncInventoryToDb; api/inventory/actions/route.ts).
THEOREM WritesStand == MarketSpec => []WritesAreKept
<1>1. MarketInit => FileInv /\ TableProofs!IInv
  BY MarketAssumption, PartsBegin, FileInit, TableIsProved, TableProofs!InitHolds
<1>2. FileInv /\ TableProofs!IInv /\ [MarketNext]_allVars => FileInv' /\ TableProofs!IInv'
  BY MarketAssumption, PartsStep, FileNext, TableIsProved, TableProofs!StepHolds
<1>3. FileInv /\ TableProofs!IInv => WritesAreKept
  BY FileIsKept, TableIsProved, TableProofs!WrittenStands DEF WritesAreKept
<1> QED
  BY <1>1, <1>2, <1>3, PTL DEF MarketSpec

-----------------------------------------------------------------------------
(***************************************************************************)
(* The freshness of the state.  As long as the cursor has passed no swap   *)
(* that was not saved, the row has every swap up to the cursor, the cursor *)
(* has come to every swap up to the height the watcher vouches for, and a  *)
(* sync under way started no earlier than the one before it ended: so a    *)
(* row set back by a sync that saves what the websocket was ahead of still *)
(* has what was vouched for.                                               *)
(***************************************************************************)
Builds == [stage : {"idle", "evm", "views", "cex", "depth", "built"}, unread : SUBSET Global!Sources,
           price : Int, by : {"row", "view"}, head : Int,
           health : [up : BOOLEAN, sync : Int, head : Int], updated : Int]

Past(t) == -1 <= t /\ t <= stateNow

VouchTyped ==
    /\ stateNow \in Nat /\ swaps \subseteq Nat /\ \A t \in swaps : Past(t)
    /\ row \in Int /\ cursor \in Int /\ missed \in BOOLEAN
    /\ health \in [up : BOOLEAN, sync : Int, head : Int] /\ job \in [from : Int, to : Int]
    /\ build \in Builds
    /\ Past(row) /\ Past(cursor) /\ Past(health.head) /\ Past(job.from) /\ Past(job.to)
    /\ Past(build.price) /\ Past(build.head)

\* Of the swaps up to one time, none is after the other.
Covers(to, from) == \A t \in swaps : t <= from => t <= to

Vouched ==
    /\ Covers(row, cursor) /\ Covers(cursor, health.head)
    /\ job # Global!NoSync => job.from <= cursor /\ Covers(job.from, health.head)
    /\ build.by = "row" => Covers(build.price, build.head)

VouchInv ==
    /\ VouchTyped /\ (~missed => Vouched)
    /\ build.stage = "depth" => build.updated # None
    /\ state.accepted => build.stage = "built"
    /\ Global!FreshStateIsVouchedFor

LEMMA LargestIsLargest ==
    ASSUME NEW n \in Nat, NEW S, S \subseteq 0..n
    PROVE  /\ Global!Largest(S) \in Int /\ \A t \in S : t <= Global!Largest(S)
           /\ S # {} => Global!Largest(S) \in S
<1>1. CASE S = {}
  BY <1>1 DEF Global!Largest, Global!None, None
<1>2. CASE S # {}
  <2>1. \E g \in S : \A m \in S : m <= g
    BY <1>2, LargestOfSome
  <2>2. Global!Largest(S) \in S /\ \A m \in S : m <= Global!Largest(S)
    BY <1>2, <2>1, Zenon DEF Global!Largest
  <2>3. Global!Largest(S) \in 0..n
    BY <2>2
  <2> QED
    BY <1>2, <2>2, <2>3 DEF None
<1> QED
  BY <1>1, <1>2

LEMMA VouchInit == ASSUME Global!StateAssumption, Global!Init PROVE VouchInv
<1> USE DEF None, Global!None
<1>1. /\ stateNow = 0 /\ swaps = {0} /\ row = -1 /\ cursor = -1 /\ missed = FALSE
      /\ health = Global!Down /\ job = Global!NoSync /\ build = Global!NoBuild /\ state = Global!NoState
  BY DEF Global!Init
<1>2. VouchTyped
  <2>1. /\ health \in [up : BOOLEAN, sync : Int, head : Int] /\ health.head = -1
        /\ job \in [from : Int, to : Int] /\ job.from = -1 /\ job.to = -1
    BY <1>1 DEF Global!Down, Global!Health, Global!NoSync
  <2>2. build \in Builds /\ build.price = -1 /\ build.head = -1
    BY <1>1 DEF Builds, Global!Down, Global!Health, Global!NoBuild
  <2>3. stateNow \in Nat /\ swaps \subseteq Nat /\ \A t \in swaps : Past(t)
    BY <1>1 DEF Past
  <2>4. row = -1 /\ cursor = -1 /\ missed \in BOOLEAN /\ stateNow = 0
    BY <1>1
  <2>5. row \in Int /\ cursor \in Int /\ Past(-1)
    BY <2>4 DEF Past
  <2> QED
    BY <2>1, <2>2, <2>3, <2>4, <2>5 DEF VouchTyped
<1>3. Vouched
  BY <1>1 DEF Vouched, Covers, Global!Down, Global!Health, Global!NoBuild
<1>4. /\ build.stage = "idle" /\ ~state.accepted
  BY <1>1 DEF Global!NoBuild, Global!NoState
<1> QED
  BY <1>2, <1>3, <1>4 DEF VouchInv, Global!FreshStateIsVouchedFor

\* Until the state is built, there is nothing accepted.
LEMMA StillBuilding ==
    ASSUME VouchInv, build.stage # "built", UNCHANGED state,
           VouchTyped', ~missed' => Vouched', build'.stage = "depth" => build'.updated # None
    PROVE  VouchInv'
BY DEF VouchInv, Global!FreshStateIsVouchedFor

LEMMA StateTicks ==
    ASSUME VouchInv, build.stage # "built", Global!Tick
    PROVE  VouchInv'
<1> USE DEF None
<1>1. /\ stateNow' = stateNow + 1 /\ (swaps' = swaps \/ swaps' = swaps \cup {stateNow + 1})
      /\ UNCHANGED <<row, cursor, health, job, missed, build, state>>
  BY DEF Global!Tick, Global!tables, Global!watcher
<1>2. VouchTyped'
  <2>1. VouchTyped
    BY DEF VouchInv
  <2>2. stateNow' \in Nat /\ stateNow <= stateNow' /\ \A t \in Int : Past(t) => Past(t)'
    BY <1>1, <2>1 DEF VouchTyped, Past
  <2>3. swaps' \subseteq Nat /\ \A t \in swaps' : Past(t)'
    <3>1. \A t \in swaps' : t \in swaps \/ t = stateNow'
      BY <1>1
    <3>2. \A t \in swaps : t \in Nat /\ -1 <= t /\ t <= stateNow'
      BY <2>1, <2>2 DEF VouchTyped, Past
    <3>3. \A t \in swaps' : t \in Nat /\ -1 <= t /\ t <= stateNow'
      BY <2>2, <3>1, <3>2
    <3> QED
      BY <3>3 DEF Past
  <2>4. /\ health' = health /\ job' = job /\ build' = build /\ row' = row /\ cursor' = cursor
        /\ missed' = missed
    BY <1>1
  <2>5. /\ row \in Int /\ cursor \in Int /\ missed \in BOOLEAN
        /\ health \in [up : BOOLEAN, sync : Int, head : Int] /\ job \in [from : Int, to : Int]
        /\ build \in Builds
    BY <2>1 DEF VouchTyped
  <2>6. /\ Past(row)' /\ Past(cursor)' /\ Past(health.head)' /\ Past(job.from)' /\ Past(job.to)'
        /\ Past(build.price)' /\ Past(build.head)'
    <3>1. \A t \in Int : Past(t) => -1 <= t /\ t <= stateNow'
      BY <2>2 DEF Past
    <3>2. health.head \in Int /\ job.from \in Int /\ job.to \in Int /\ build.price \in Int /\ build.head \in Int
      BY <2>5 DEF Builds
    <3> QED
      BY <2>1, <2>4, <2>5, <3>1, <3>2 DEF VouchTyped, Past
  <2> QED
    BY <2>2, <2>3, <2>4, <2>5, <2>6 DEF VouchTyped
<1>3. ASSUME NEW to \in Int, NEW from \in Int, from <= stateNow, \A t \in swaps : t <= from => t <= to
      PROVE  \A t \in swaps' : t <= from => t <= to
  <2>1. \A t \in swaps' : t \in swaps \/ t = stateNow + 1
    BY <1>1
  <2>2. stateNow \in Nat
    BY DEF VouchInv, VouchTyped
  <2> QED
    BY <1>3, <2>1, <2>2
<1>4. ASSUME ~missed'
      PROVE  Vouched'
  <2>1. Vouched /\ VouchTyped
    BY <1>1, <1>4 DEF VouchInv
  <2>2. /\ health.head \in Int /\ job.from \in Int /\ build.price \in Int /\ build.head \in Int
        /\ row \in Int /\ cursor \in Int
        /\ cursor <= stateNow /\ health.head <= stateNow /\ build.head <= stateNow
    BY <2>1 DEF VouchTyped, Builds, Past
  <2>3. Covers(row, cursor)' /\ Covers(cursor, health.head)'
    BY <1>1, <1>3, <2>1, <2>2 DEF Vouched, Covers
  <2>4. job # Global!NoSync => job.from <= cursor /\ Covers(job.from, health.head)'
    BY <1>1, <1>3, <2>1, <2>2 DEF Vouched, Covers
  <2>5. build.by = "row" => Covers(build.price, build.head)'
    BY <1>1, <1>3, <2>1, <2>2 DEF Vouched, Covers
  <2> QED
    BY <1>1, <2>3, <2>4, <2>5 DEF Vouched
<1> QED
  BY <1>1, <1>2, <1>4, StillBuilding DEF VouchInv

\* The watcher starts, stops, saves and synchronizes.
LEMMA WatcherKeeps ==
    ASSUME VouchInv, build.stage # "built", Global!Watching
    PROVE  VouchInv'
<1> USE DEF None, Global!None, Global!chain, Global!tables, Global!watcher, Global!Saved
<1>1. UNCHANGED <<stateNow, swaps, build, state>>
  BY DEF Global!Watching, Global!Starts, Global!Stops, Global!SwapEvent, Global!OtherEvent,
         Global!SyncLatest, Global!SyncSaves, Global!SyncEnds, Global!SyncFails
<1>2. VouchTyped /\ (~missed => Vouched)
  BY DEF VouchInv
<1>3. ASSUME VouchTyped', ~missed' => Vouched'
      PROVE  VouchInv'
  BY <1>1, <1>3, StillBuilding DEF VouchInv
<1>4. CASE Global!Starts
  <2>1. /\ health' = Global!Health(TRUE, -1, -1) /\ job' = [from |-> cursor, to |-> stateNow]
        /\ UNCHANGED <<row, cursor, missed>>
    BY <1>4 DEF Global!Starts
  <2>2. VouchTyped'
    BY <1>1, <1>2, <2>1 DEF VouchTyped, Past, Global!Health
  <2>3. health'.head = -1 /\ job'.from = cursor /\ \A t \in swaps : ~(t <= -1)
    BY <1>2, <2>1 DEF Global!Health, VouchTyped
  <2>4. \A from \in Int : Covers(from, -1)
    BY <2>3 DEF Covers
  <2>5. ASSUME ~missed
        PROVE  Vouched'
    <3>1. Covers(row, cursor)' /\ (build.by = "row" => Covers(build.price, build.head))'
      BY <1>1, <1>2, <2>1, <2>5 DEF Vouched, Covers
    <3>2. Covers(cursor, health.head)' /\ Covers(job.from, health.head)' /\ job'.from <= cursor'
      <4>1. /\ swaps' = swaps /\ health'.head = -1 /\ job'.from = cursor' /\ cursor' \in Int
        BY <1>1, <1>2, <2>1, <2>3 DEF VouchTyped
      <4> QED
        BY <2>3, <4>1 DEF Covers
    <3> QED
      BY <3>1, <3>2 DEF Vouched
  <2> QED
    BY <1>3, <2>1, <2>2, <2>5
<1>5. CASE Global!Stops \/ Global!SyncFails
  <2>1. /\ health' \in {health, Global!Down} /\ job' = Global!NoSync /\ UNCHANGED <<row, cursor, missed>>
    BY <1>5 DEF Global!Stops, Global!SyncFails
  <2>2. Global!Down \in [up : BOOLEAN, sync : Int, head : Int] /\ Global!Down.head = -1
        /\ Global!NoSync \in [from : Int, to : Int]
    BY <1>2 DEF VouchTyped, Past, Global!Down, Global!Health, Global!NoSync
  <2>3. VouchTyped'
    <3>1. health' \in [up : BOOLEAN, sync : Int, head : Int] /\ Past(health'.head)
      BY <1>2, <2>1, <2>2 DEF VouchTyped, Past
    <3>2. job' \in [from : Int, to : Int] /\ job'.from = -1 /\ job'.to = -1
      BY <2>1 DEF Global!NoSync
    <3> QED
      BY <1>1, <1>2, <2>1, <3>1, <3>2 DEF VouchTyped, Past
  <2>4. ~missed => Vouched'
    BY <1>1, <1>2, <2>1, <2>2 DEF VouchTyped, Past, Vouched, Covers
  <2> QED
    BY <1>3, <2>1, <2>3, <2>4
<1>6. CASE Global!SwapEvent
  <2>1. row' = stateNow /\ cursor' = stateNow /\ UNCHANGED <<health, job, missed>>
    BY <1>6 DEF Global!SwapEvent
  <2>2. VouchTyped'
    BY <1>1, <1>2, <2>1 DEF VouchTyped, Past
  <2>3. ~missed => Vouched'
    BY <1>1, <1>2, <2>1 DEF VouchTyped, Past, Vouched, Covers
  <2> QED
    BY <1>3, <2>1, <2>2, <2>3
<1>7. CASE Global!OtherEvent
  <2>1. /\ row' = row /\ cursor' = stateNow /\ UNCHANGED <<health, job>>
        /\ missed' = (missed \/ Global!Largest(swaps) > row)
    BY <1>7 DEF Global!OtherEvent
  <2>2. VouchTyped'
    BY <1>1, <1>2, <2>1 DEF VouchTyped, Past
  <2>3. ASSUME ~missed'
        PROVE  \A t \in swaps : t <= row /\ t <= stateNow
    <3>1. Global!Largest(swaps) \in Int /\ \A t \in swaps : t <= Global!Largest(swaps)
      <4>1. swaps \subseteq 0..stateNow /\ stateNow \in Nat
        BY <1>2 DEF VouchTyped, Past
      <4> QED
        BY <4>1, LargestIsLargest
    <3>2. ~(Global!Largest(swaps) > row)
      BY <2>1, <2>3, Zenon
    <3> QED
      BY <1>2, <3>1, <3>2 DEF VouchTyped, Past
  <2>4. ~missed' => Vouched'
    BY <1>1, <1>2, <2>1, <2>3 DEF VouchTyped, Past, Vouched, Covers
  <2> QED
    BY <1>3, <2>2, <2>4
<1>8. CASE Global!SyncLatest
  <2>1. /\ job' = [from |-> cursor, to |-> stateNow] /\ UNCHANGED <<row, cursor, health, missed>>
    BY <1>8 DEF Global!SyncLatest
  <2>2. VouchTyped' /\ job'.from = cursor
    BY <1>1, <1>2, <2>1 DEF VouchTyped, Past
  <2>3. ~missed => Vouched'
    BY <1>1, <1>2, <2>1, <2>2 DEF VouchTyped, Past, Vouched, Covers
  <2> QED
    BY <1>3, <2>1, <2>2, <2>3
<1>9. CASE Global!SyncSaves
  <2> DEFINE rest == Global!SwapsIn(job.from, job.to)
             next == CHOOSE t \in rest : \A u \in rest : t <= u
  <2>1. /\ rest # {} /\ row' = next /\ cursor' = next /\ job' = [job EXCEPT !.from = next]
        /\ job # Global!NoSync /\ UNCHANGED <<health, missed>>
    BY <1>9, Zenon DEF Global!SyncSaves
  <2>2. rest \subseteq swaps /\ rest \subseteq Nat /\ \A t \in rest : job.from < t
    BY <1>2 DEF VouchTyped, Global!SwapsIn
  <2>3. next \in rest
    <3>1. \E n \in rest : \A m \in rest : n <= m
      BY <2>1, <2>2, LeastOfSome
    <3> QED
      BY <3>1
  <2>4. next \in Nat /\ next <= stateNow /\ job.from < next
    BY <1>2, <2>2, <2>3 DEF VouchTyped, Past
  <2> HIDE DEF next
  <2>5. VouchTyped' /\ job'.from = next
    BY <1>1, <1>2, <2>1, <2>4 DEF VouchTyped, Past
  <2>6. ~missed => Vouched'
    BY <1>1, <1>2, <2>1, <2>4, <2>5 DEF VouchTyped, Past, Vouched, Covers
  <2> QED
    BY <1>3, <2>1, <2>5, <2>6
<1>10. CASE Global!SyncEnds
  <2>1. /\ job # Global!NoSync /\ Global!SwapsIn(job.from, job.to) = {}
        /\ health' = [health EXCEPT !.sync = stateNow, !.head = job.to] /\ job' = Global!NoSync
        /\ UNCHANGED <<row, cursor, missed>>
    BY <1>10 DEF Global!SyncEnds
  <2>2. VouchTyped' /\ health'.head = job.to
    <3>1. health' \in [up : BOOLEAN, sync : Int, head : Int] /\ health'.head = job.to
      <4>1. stateNow \in Int /\ job.to \in Int /\ health \in [up : BOOLEAN, sync : Int, head : Int]
        BY <1>2 DEF VouchTyped
      <4> QED
        BY <2>1, <4>1
    <3>2. job' \in [from : Int, to : Int] /\ job'.from = -1 /\ job'.to = -1
      BY <2>1 DEF Global!NoSync
    <3> QED
      BY <1>1, <1>2, <2>1, <3>1, <3>2 DEF VouchTyped, Past
  <2>3. \A t \in swaps : t <= job.to => t <= job.from
    BY <1>2, <2>1 DEF VouchTyped, Past, Global!SwapsIn
  <2>4. ~missed => Vouched'
    BY <1>1, <1>2, <2>1, <2>2, <2>3 DEF VouchTyped, Past, Vouched, Covers
  <2> QED
    BY <1>3, <2>1, <2>2, <2>4
<1> QED
  BY <1>4, <1>5, <1>6, <1>7, <1>8, <1>9, <1>10 DEF Global!Watching

\* Building a state reads it, one part after the other, and ends with what was read.
LEMMA BuildingKeeps ==
    ASSUME VouchInv, build.stage # "built", Global!Building
    PROVE  VouchInv'
<1> USE DEF None, Global!None, Global!chain, Global!tables, Global!watcher
<1>1. UNCHANGED <<stateNow, swaps, row, cursor, health, job, missed>>
  BY DEF Global!Building, Global!ReadReserve, Global!ReserveFails, Global!ReadPools, Global!ReadWatcher,
         Global!ReadFails, Global!Enrich, Global!ReadFeed, Global!ReadDepth
<1>2. VouchTyped /\ (~missed => Vouched) /\ build \in Builds
  BY DEF VouchInv, VouchTyped
\* It is enough that what was read last is covered.
<1>3. ASSUME build' \in Builds, Past(build'.price), Past(build'.head),
             ~missed /\ build'.by = "row" => Covers(build'.price, build'.head)
      PROVE  VouchTyped' /\ (~missed' => Vouched')
  BY <1>1, <1>2, <1>3 DEF VouchTyped, Vouched, Covers, Past
<1>4. /\ Global!NoBuild \in Builds /\ Global!NoBuild.price = -1 /\ Global!NoBuild.head = -1
      /\ Past(-1) /\ Covers(-1, -1)
  <2>1. Global!NoBuild \in Builds /\ Global!NoBuild.price = -1 /\ Global!NoBuild.head = -1
    BY DEF Builds, Global!NoBuild, Global!Down, Global!Health
  <2>2. Past(-1) /\ Covers(-1, -1)
    BY <1>2 DEF VouchTyped, Past, Covers
  <2> QED
    BY <2>1, <2>2
<1>5. CASE Global!ReadReserve \/ Global!ReserveFails
  <2>1. /\ build' \in Builds /\ build'.price = -1 /\ build'.head = -1
        /\ build'.stage \in {"evm", "built"} /\ state' = state
    BY <1>4, <1>5 DEF Global!ReadReserve, Global!ReserveFails, Builds, Global!Sources
  <2> QED
    BY <1>3, <1>4, <2>1, StillBuilding
<1>6. ASSUME NEW s \in Global!Sources, NEW b \in Builds, Global!Read(s, b), b.stage = build.stage,
             b.updated = build.updated, Past(b.price), Past(b.head),
             ~missed /\ b.by = "row" => Covers(b.price, b.head), state' = state
      PROVE  VouchInv'
  <2>1. /\ build' \in Builds /\ (build'.stage = "depth" => build.stage = "depth")
        /\ build'.price = b.price /\ build'.head = b.head /\ build'.by = b.by
        /\ build'.updated = build.updated
    BY <1>6 DEF Global!Read, Builds
  <2>2. VouchTyped' /\ (~missed' => Vouched')
    BY <1>3, <1>6, <2>1
  <2> QED
    BY <1>6, <2>1, <2>2, StillBuilding DEF VouchInv
<1>7. CASE Global!ReadPools
  <2> DEFINE b == [build EXCEPT !.price = row, !.head = health.head]
  <2>1. Global!Read("pools", b) /\ state' = state /\ "pools" \in Global!Sources
    BY <1>7 DEF Global!ReadPools, Global!Sources
  <2>2. /\ b \in Builds /\ b.price = row /\ b.head = health.head /\ b.stage = build.stage
        /\ b.updated = build.updated
    BY <1>2 DEF VouchTyped, Builds
  <2> HIDE DEF b
  <2>3. Past(row) /\ Past(health.head) /\ (~missed => Covers(row, health.head))
    BY <1>2 DEF VouchTyped, Past, Vouched, Covers
  <2> QED
    BY <1>6, <2>1, <2>2, <2>3
<1>8. CASE Global!ReadWatcher
  <2> DEFINE b == [build EXCEPT !.health = health]
  <2>1. Global!Read("watcher", b) /\ state' = state /\ "watcher" \in Global!Sources
    BY <1>8 DEF Global!ReadWatcher, Global!Sources
  <2>2. /\ b \in Builds /\ b.price = build.price /\ b.head = build.head /\ b.stage = build.stage
        /\ b.updated = build.updated /\ b.by = build.by
    BY <1>2 DEF VouchTyped, Builds
  <2> HIDE DEF b
  <2>3. /\ Past(build.price) /\ Past(build.head)
        /\ (~missed /\ build.by = "row" => Covers(build.price, build.head))
    BY <1>2 DEF VouchTyped, Vouched
  <2> QED
    BY <1>6, <2>1, <2>2, <2>3
<1>9. ASSUME NEW s \in Global!Sources, Global!ReadFails(s)
      PROVE  VouchInv'
  BY <1>2, <1>6, <1>9 DEF Global!ReadFails, VouchTyped, Vouched
<1>10. CASE Global!Enrich
  <2>1. CASE build' = [build EXCEPT !.stage = "cex"]
    <3>1. /\ build' \in Builds /\ build'.stage = "cex" /\ build'.price = build.price
          /\ build'.head = build.head /\ build'.by = build.by /\ state' = state
      BY <1>2, <1>10, <2>1 DEF Global!Enrich, Builds
    <3>2. VouchTyped' /\ (~missed' => Vouched')
      BY <1>2, <1>3, <3>1 DEF VouchTyped, Vouched
    <3> QED
      BY <3>1, <3>2, StillBuilding
  <2>2. CASE build' = [build EXCEPT !.stage = "cex", !.price = Global!Largest(swaps), !.by = "view"]
    <3>1. Global!Largest(swaps) \in Int /\ Past(Global!Largest(swaps))
      <4>1. swaps \subseteq 0..stateNow /\ stateNow \in Nat
        BY <1>2 DEF VouchTyped, Past
      <4>2. CASE swaps = {}
        BY <1>4, <4>2 DEF Global!Largest
      <4>3. CASE swaps # {}
        BY <1>2, <4>1, <4>3, LargestIsLargest DEF VouchTyped
      <4> QED
        BY <4>2, <4>3, <4>1, LargestIsLargest
    <3>2. /\ build' \in Builds /\ build'.stage = "cex" /\ build'.price = Global!Largest(swaps)
          /\ build'.head = build.head /\ build'.by = "view" /\ state' = state
      BY <1>2, <1>10, <2>2, <3>1 DEF Global!Enrich, Builds
    <3>3. VouchTyped' /\ (~missed' => Vouched')
      BY <1>2, <1>3, <3>1, <3>2 DEF VouchTyped
    <3> QED
      BY <3>2, <3>3, StillBuilding
  <2> QED
    BY <1>10, <2>1, <2>2 DEF Global!Enrich
\* The state is accepted or not.
<1>11. ASSUME NEW sides, NEW heardAt \in Int, Global!Finish(sides, heardAt),
              "watcher" \in sides => heardAt # None
       PROVE  VouchInv'
  <2>1. PICK evmUpdated \in Global!LastUpdated(build) :
          /\ state' = IF ~Global!IsStateFresh(evmUpdated, heardAt) THEN Global!NoState
                      ELSE [accepted |-> TRUE, price |-> build.price, by |-> build.by, head |-> build.head,
                            sync |-> build.health.sync, synced |-> build.health.head,
                            sides |-> sides, updated |-> heardAt, at |-> stateNow]
          /\ build' = [Global!NoBuild EXCEPT !.stage = "built"]
    BY <1>11 DEF Global!Finish
  <2>2. build' \in Builds /\ build'.price = -1 /\ build'.head = -1 /\ build'.stage = "built"
    BY <1>4, <2>1 DEF Builds
  <2>3. VouchTyped' /\ (~missed' => Vouched')
    BY <1>3, <1>4, <2>2
  <2>4. CASE state' = Global!NoState
    BY <2>2, <2>3, <2>4 DEF VouchInv, Global!FreshStateIsVouchedFor, Global!NoState
  <2>5. CASE Global!IsStateFresh(evmUpdated, heardAt)
    <3>1. /\ state'.accepted = TRUE /\ state'.price = build.price /\ state'.by = build.by
          /\ state'.head = build.head /\ state'.sync = build.health.sync /\ state'.sides = sides
          /\ state'.updated = heardAt /\ state'.at = stateNow
      BY <2>1, <2>5
    <3>2. ASSUME build.by = "row", ~missed
          PROVE  build.price >= Global!Largest({t \in swaps : t <= build.head})
      <4> DEFINE old == {t \in swaps : t <= build.head}
      <4>0. \A t \in old : t \in swaps /\ t <= build.head
        OBVIOUS
      <4>1. old \subseteq 0..stateNow /\ stateNow \in Nat /\ \A t \in old : t <= build.price
        <5>1. stateNow \in Nat /\ \A t \in swaps : t \in Nat /\ t <= stateNow
          BY <1>2 DEF VouchTyped, Past
        <5>2. \A t \in swaps : t <= build.head => t <= build.price
          BY <1>2, <3>2 DEF Vouched, Covers
        <5> HIDE DEF old
        <5> QED
          BY <4>0, <5>1, <5>2
      <4>2. build.price \in Int /\ build.price >= -1
        BY <1>2 DEF VouchTyped, Past, Builds
      <4> HIDE DEF old
      <4>3. CASE old = {}
        BY <4>2, <4>3 DEF Global!Largest, old
      <4>4. CASE old # {}
        BY <4>1, <4>2, <4>4, LargestIsLargest DEF old
      <4> QED
        BY <4>3, <4>4
    <3>3. ASSUME build.health.sync # None
          PROVE  stateNow - build.health.sync <= EvmMaxAge
      BY <2>5, <3>3 DEF Global!LastUpdated, Global!IsStateFresh
    <3>4. "watcher" \in sides => heardAt # None /\ stateNow - heardAt <= CexMaxAge
      BY <1>11, <2>5 DEF Global!IsStateFresh
    <3>5. Global!FreshStateIsVouchedFor'
      BY <1>1, <3>1, <3>2, <3>3, <3>4 DEF Global!FreshStateIsVouchedFor
    <3> QED
      BY <2>2, <2>3, <3>5 DEF VouchInv
  <2> QED
    BY <2>1, <2>4, <2>5
<1>12. CASE Global!ReadFeed
  <2>1. CASE Global!Finish({}, -1)
    BY <1>11, <2>1
  <2>2. ASSUME NEW heardAt \in -1..stateNow,
               Global!Finish(IF heardAt = -1 THEN {} ELSE {"watcher"}, heardAt)
        PROVE  VouchInv'
    BY <1>2, <1>11, <2>2 DEF VouchTyped
  <2>3. ASSUME NEW heardAt \in 0..stateNow, state' = state,
               build' = [build EXCEPT !.stage = "depth", !.updated = heardAt]
        PROVE  VouchInv'
    <3>1. /\ build' \in Builds /\ build'.updated = heardAt /\ heardAt # -1 /\ build'.price = build.price
          /\ build'.head = build.head /\ build'.by = build.by
      <4>1. heardAt \in Int /\ heardAt # -1
        BY <1>2, <2>3 DEF VouchTyped
      <4> QED
        BY <1>2, <2>3, <4>1 DEF Builds
    <3>2. VouchTyped' /\ (~missed' => Vouched')
      BY <1>2, <1>3, <3>1 DEF VouchTyped, Vouched
    <3> QED
      BY <2>3, <3>1, <3>2, StillBuilding
  <2> QED
    BY <1>12, <2>1, <2>2, <2>3 DEF Global!ReadFeed
<1>13. CASE Global!ReadDepth
  <2>1. build.updated # None /\ build.updated \in Int
    BY <1>2, <1>13 DEF Global!ReadDepth, VouchInv, Builds
  <2> QED
    BY <1>11, <1>13, <2>1 DEF Global!ReadDepth
<1> QED
  BY <1>5, <1>7, <1>8, <1>9, <1>10, <1>12, <1>13 DEF Global!Building

LEMMA VouchNext == ASSUME VouchInv, [Global!Next]_(Global!vars) PROVE VouchInv'
<1>1. CASE UNCHANGED Global!vars
  BY <1>1 DEF Global!vars, Global!chain, Global!tables, Global!watcher, VouchInv, VouchTyped, Past, Vouched,
              Covers, Global!FreshStateIsVouchedFor, Global!Largest
<1> QED
  BY <1>1, StateTicks, WatcherKeeps, BuildingKeeps DEF Global!Next

\* What is accepted as fresh is covered by what vouches for it (engine.ts; state/state.evm.ts,
\* state.cex.ts; uniswapV4/runner.ts).
THEOREM FreshIsVouchedFor == MarketSpec => []FreshStateIsVouchedFor
<1>1. MarketInit => VouchInv
  BY MarketAssumption, PartsBegin, VouchInit
<1>2. VouchInv /\ [MarketNext]_allVars => VouchInv'
  BY PartsStep, VouchNext
<1>3. VouchInv => FreshStateIsVouchedFor
  BY DEF VouchInv, FreshStateIsVouchedFor
<1> QED
  BY <1>1, <1>2, <1>3, PTL DEF MarketSpec

\* The types of the state of the markets, beside those of VouchTyped.
StateTyped ==
    /\ stateNow <= StateMaxTime /\ Past(health.sync)
    /\ DOMAIN state = DOMAIN Global!NoState /\ troubles \in 0..MaxTroubles

LEMMA StateTypesBegin == ASSUME Global!StateAssumption, Global!Init PROVE StateTyped
BY DEF Global!StateAssumption, Global!Init, StateTyped, Past, Global!Down, Global!Health, Global!None

LEMMA StateTypes ==
    ASSUME Global!StateAssumption, VouchTyped, StateTyped, [Global!Next]_(Global!vars)
    PROVE  StateTyped'
<1> USE DEF Global!chain, Global!tables, Global!watcher
<1>0. stateNow \in Nat /\ StateMaxTime \in Nat /\ MaxTroubles \in Nat /\ troubles \in 0..MaxTroubles
      /\ health \in [up : BOOLEAN, sync : Int, head : Int]
  BY DEF VouchTyped, StateTyped, Global!StateAssumption
<1>1. stateNow' \in Nat /\ stateNow' >= stateNow /\ stateNow' <= StateMaxTime
  <2>1. CASE Global!Tick
    BY <1>0, <2>1 DEF Global!Tick
  <2>2. CASE ~Global!Tick
    <3>1. stateNow' = stateNow
      BY <2>2 DEF Global!Next, Global!vars, Global!Watching, Global!Building, Global!Starts, Global!Stops,
          Global!SwapEvent, Global!OtherEvent, Global!SyncLatest, Global!SyncSaves, Global!SyncEnds, Global!SyncFails,
          Global!ReadReserve, Global!ReserveFails, Global!ReadPools, Global!ReadWatcher, Global!ReadFails,
          Global!Enrich, Global!ReadFeed, Global!ReadDepth
    <3> QED
      BY <1>0, <3>1 DEF StateTyped
  <2> QED
    BY <2>1, <2>2
<1>2. troubles' \in 0..MaxTroubles
  <2>1. troubles' = troubles \/ (troubles < MaxTroubles /\ troubles' = troubles + 1)
    BY DEF Global!Next, Global!vars, Global!Watching, Global!Building, Global!Starts, Global!Stops,
          Global!SwapEvent, Global!OtherEvent, Global!SyncLatest, Global!SyncSaves, Global!SyncEnds, Global!SyncFails,
          Global!ReadReserve, Global!ReserveFails, Global!ReadPools, Global!ReadWatcher, Global!ReadFails,
          Global!Enrich, Global!ReadFeed, Global!ReadDepth, Global!Tick, Global!Trouble
  <2> QED
    BY <1>0, <2>1
<1>3. DOMAIN state' = DOMAIN Global!NoState
  <2>1. CASE state' = state
    BY <2>1 DEF StateTyped
  <2>2. ASSUME NEW sides, NEW heardAt, Global!Finish(sides, heardAt)
        PROVE  DOMAIN state' = DOMAIN Global!NoState
    BY <2>2 DEF Global!Finish, Global!NoState
  <2> QED
    BY <2>1, <2>2 DEF Global!Next, Global!vars, Global!Watching, Global!Building, Global!Starts, Global!Stops,
          Global!SwapEvent, Global!OtherEvent, Global!SyncLatest, Global!SyncSaves, Global!SyncEnds, Global!SyncFails,
          Global!ReadReserve, Global!ReserveFails, Global!ReadPools, Global!ReadWatcher, Global!ReadFails,
          Global!Enrich, Global!ReadFeed, Global!ReadDepth, Global!Tick
<1>4. Past(health.sync)'
  <2>1. \/ health' = health
        \/ health' = Global!Down \/ health' = Global!Health(TRUE, Global!None, Global!None)
        \/ health' = [health EXCEPT !.sync = stateNow, !.head = job.to]
    BY DEF Global!Next, Global!vars, Global!Watching, Global!Building, Global!Starts, Global!Stops,
          Global!SwapEvent, Global!OtherEvent, Global!SyncLatest, Global!SyncSaves, Global!SyncEnds, Global!SyncFails,
          Global!ReadReserve, Global!ReserveFails, Global!ReadPools, Global!ReadWatcher, Global!ReadFails,
          Global!Enrich, Global!ReadFeed, Global!ReadDepth, Global!Tick
  <2>2. health'.sync = health.sync \/ health'.sync = -1 \/ health'.sync = stateNow
    <3>1. CASE health' = Global!Down \/ health' = Global!Health(TRUE, Global!None, Global!None)
      BY <3>1 DEF Global!Down, Global!Health, Global!None
    <3>2. CASE health' = [health EXCEPT !.sync = stateNow, !.head = job.to]
      BY <1>0, <3>2
    <3> QED
      BY <2>1, <3>1, <3>2
  <2> QED
    BY <1>0, <1>1, <2>2 DEF StateTyped, Past
<1> QED
  BY <1>1, <1>2, <1>3, <1>4 DEF StateTyped

LEMMA StateIsTyped == ASSUME Global!StateAssumption, VouchTyped, StateTyped PROVE Global!TypeOK
<1>1. StateMaxTime \in Nat /\ stateNow \in Nat /\ stateNow <= StateMaxTime
  BY DEF Global!StateAssumption, VouchTyped, StateTyped
<1>2. \A t \in Int : Past(t) => t \in Global!Times
  BY <1>1 DEF Past, Global!Times, Global!None
<1>3. swaps \subseteq 0..StateMaxTime
  BY <1>1 DEF VouchTyped, Past
<1>4. health \in [up : BOOLEAN, sync : Global!Times, head : Global!Times]
  BY <1>2 DEF VouchTyped, StateTyped
<1>5. job \in [from : Global!Times, to : Global!Times]
  BY <1>2 DEF VouchTyped
<1>6. DOMAIN build = DOMAIN Global!NoBuild /\ build.unread \subseteq Global!Sources
      /\ build.stage \in {"idle", "evm", "views", "cex", "depth", "built"}
  BY DEF VouchTyped, Builds, Global!NoBuild
<1> QED
  BY <1>1, <1>2, <1>3, <1>4, <1>5, <1>6 DEF VouchTyped, StateTyped, Global!TypeOK

-----------------------------------------------------------------------------
(***************************************************************************)
(* The account of the paper exchange.  Explained is a recursive function   *)
(* of the events.  That the balances are its value is inductive when it is *)
(* said of some account of the events: each new event adds one line to it. *)
(***************************************************************************)
\* The balance of a token after each of the events.
Adds(sum, token) ==
    /\ sum \in [0..Len(events) -> Int] /\ sum[0] = opening[token]
    /\ \A n \in 1..Len(events) : sum[n] = sum[n - 1] + Account!Effect(events[n], token)

\* A withdrawal or a trade takes of what is there; a deposit may be of less than nothing.
Takes(event, token) == event.type # "deposit" /\ Account!Effect(event, token) < 0

AccountInv ==
    /\ balances \in [Account!Tokens -> Int] /\ opening \in [Account!Tokens -> Int]
    /\ events \in Seq([type : {"deposit", "withdraw", "trade"}, deltas : [Account!Tokens -> Int], fee : Nat])
    /\ \A t \in Account!Tokens : \E sum : /\ Adds(sum, t) /\ sum[Len(events)] = balances[t]
                                         /\ \A n \in 1..Len(events) : Takes(events[n], t) => sum[n] >= 0

\* There is one such account: the one that is defined.
LEMMA AccountIsExplained ==
    ASSUME NEW token, NEW f, Adds(f, token), Len(events) \in Nat
    PROVE  \A n \in 0..Len(events) : Account!Explained(token)[n] = f[n]
<1> DEFINE n0 == Len(events)
           F(g) == [n \in 0..n0 |-> IF n = 0 THEN opening[token] ELSE g[n - 1] + Account!Effect(events[n], token)]
           g == CHOOSE h : h = F(h)
<1>1. f = F(f)
  BY DEF Adds
<1>2. g = F(g)
  BY <1>1
<1> HIDE DEF g
<1>3. g[0] = f[0] /\ \A n \in 1..n0 : g[n] = g[n - 1] + Account!Effect(events[n], token)
  BY <1>2 DEF Adds
<1>4. \A n \in Nat : n <= n0 => g[n] = f[n]
  <2> DEFINE S == {n \in Nat : n <= n0 => g[n] = f[n]}
  <2>1. 0 \in S
    BY <1>3
  <2>2. ASSUME NEW n \in Nat, n \in S
        PROVE  n + 1 \in S
    <3>1. CASE n + 1 <= n0
      BY <1>3, <2>2, <3>1 DEF Adds
    <3>2. CASE ~(n + 1 <= n0)
      BY <3>2
    <3> QED
      BY <3>1, <3>2
  <2> HIDE DEF S
  <2>3. Nat \subseteq S
    BY <2>1, <2>2, Inductively
  <2> QED
    BY <2>3 DEF S
<1>5. Account!Explained(token) = g
  BY DEF Account!Explained, g
<1> QED
  BY <1>4, <1>5

LEMMA AccountAdds == ASSUME AccountInv PROVE AccountAddsUp
<1> SUFFICES ASSUME NEW t \in Account!Tokens
             PROVE  /\ balances[t] = Account!Explained(t)[Len(events)]
                    /\ \A n \in DOMAIN events : Takes(events[n], t) => Account!Explained(t)[n] >= 0
  BY DEF AccountAddsUp, Account!AccountAddsUp, Takes
<1>1. Len(events) \in Nat /\ DOMAIN events = 1..Len(events)
  BY DEF AccountInv
<1>2. PICK sum : /\ Adds(sum, t) /\ sum[Len(events)] = balances[t]
                 /\ \A n \in 1..Len(events) : Takes(events[n], t) => sum[n] >= 0
  BY DEF AccountInv
<1>3. \A n \in 0..Len(events) : Account!Explained(t)[n] = sum[n]
  BY <1>1, <1>2, AccountIsExplained
<1> QED
  BY <1>1, <1>2, <1>3

LEMMA AccountInit == ASSUME Account!ExchangeAssumption, Account!Init PROVE AccountInv
<1>1. /\ balances \in [Account!Tokens -> Int] /\ opening = balances
      /\ events = <<>> /\ Len(events) = 0 /\ 1..Len(events) = {}
  BY DEF Account!Init, Account!ExchangeAssumption
<1>2. ASSUME NEW t \in Account!Tokens
      PROVE  \E sum : /\ Adds(sum, t) /\ sum[Len(events)] = balances[t]
                      /\ \A n \in 1..Len(events) : Takes(events[n], t) => sum[n] >= 0
  <2> DEFINE one == [n \in 0..0 |-> opening[t]]
  <2>1. Adds(one, t) /\ one[Len(events)] = balances[t]
    BY <1>1 DEF Adds
  <2>2. \A n \in 1..Len(events) : Takes(events[n], t) => one[n] >= 0
    BY <1>1
  <2> HIDE DEF one
  <2> QED
    BY <2>1, <2>2
<1> QED
  BY <1>1, <1>2 DEF AccountInv

\* An event is booked with the change it explains.
LEMMA BookKeeps ==
    ASSUME AccountInv, NEW change \in [Account!Tokens -> Int],
           NEW event \in [type : {"deposit", "withdraw", "trade"}, deltas : [Account!Tokens -> Int], fee : Nat],
           Account!Book(event, change), opening' = opening,
           \A t \in Account!Tokens :
              change[t] = Account!Effect(event, t) /\ (Takes(event, t) => balances[t] + change[t] >= 0)
    PROVE  AccountInv'
<1>1. /\ balances' = [t \in Account!Tokens |-> balances[t] + change[t]]
      /\ events' = Append(events, event) /\ Len(events) \in Nat /\ Len(events') = Len(events) + 1
      /\ \A n \in 1..Len(events) : events'[n] = events[n]
      /\ events'[Len(events) + 1] = event
  BY DEF Account!Book, AccountInv
<1>2. balances' \in [Account!Tokens -> Int]
  BY <1>1 DEF AccountInv
<1>3. events' \in Seq([type : {"deposit", "withdraw", "trade"}, deltas : [Account!Tokens -> Int], fee : Nat])
  BY <1>1 DEF AccountInv
<1>4. ASSUME NEW t \in Account!Tokens
      PROVE  \E sum : /\ Adds(sum, t)' /\ sum[Len(events')] = balances'[t]
                      /\ \A n \in 1..Len(events') : Takes(events'[n], t) => sum[n] >= 0
  <2>1. PICK sum : /\ Adds(sum, t) /\ sum[Len(events)] = balances[t]
                   /\ \A n \in 1..Len(events) : Takes(events[n], t) => sum[n] >= 0
    BY DEF AccountInv
  <2> DEFINE next == [n \in 0..Len(events) + 1 |-> IF n = Len(events) + 1 THEN balances'[t] ELSE sum[n]]
  <2>2. /\ balances'[t] = balances[t] + Account!Effect(event, t) /\ balances'[t] \in Int
        /\ Takes(event, t) => balances'[t] >= 0
    BY <1>1, <1>2
  <2>3. /\ next \in [0..Len(events') -> Int] /\ next[0] = opening[t]
        /\ next[Len(events')] = balances'[t]
    BY <1>1, <2>1, <2>2 DEF Adds
  <2>4. ASSUME NEW n \in 1..Len(events')
        PROVE  next[n] = next[n - 1] + Account!Effect(events'[n], t)
    <3>1. CASE n = Len(events) + 1
      BY <1>1, <2>1, <2>2, <3>1
    <3>2. CASE n \in 1..Len(events)
      BY <1>1, <2>1, <3>2 DEF Adds
    <3> QED
      BY <1>1, <3>1, <3>2
  <2>5. ASSUME NEW n \in 1..Len(events'), Takes(events'[n], t)
        PROVE  next[n] >= 0
    <3>1. CASE n = Len(events) + 1
      BY <1>1, <2>2, <2>5, <3>1
    <3>2. CASE n \in 1..Len(events)
      BY <1>1, <2>1, <2>5, <3>2
    <3> QED
      BY <1>1, <3>1, <3>2
  <2> HIDE DEF next
  <2>6. PICK f : f = next
    OBVIOUS
  <2>7. Adds(f, t)'
    BY <2>3, <2>4, <2>6 DEF Adds, Account!Effect
  <2>8. \A n \in 1..Len(events') : Takes(events'[n], t) => f[n] >= 0
    BY <2>5, <2>6
  <2>9. f[Len(events')] = balances'[t]
    BY <2>3, <2>6
  <2> QED
    BY <2>7, <2>8, <2>9
<1> QED
  BY <1>2, <1>3, <1>4 DEF AccountInv

\* A deposit of anything, or a withdrawal of what is there.
LEMMA MoveKeeps ==
    ASSUME AccountInv, NEW token \in Account!Tokens, NEW delta \in Int,
           NEW type \in {"deposit", "withdraw"}, opening' = opening,
           type = "withdraw" => balances[token] + delta >= 0,
           Account!Book(Account!Event(type, Account!Only(token, delta), 0), Account!Only(token, delta))
    PROVE  AccountInv'
<1> DEFINE change == Account!Only(token, delta)
           event  == Account!Event(type, change, 0)
<1>1. change \in [Account!Tokens -> Int]
  BY DEF Account!Only
<1>2. event \in [type : {"deposit", "withdraw", "trade"}, deltas : [Account!Tokens -> Int], fee : Nat]
  BY <1>1 DEF Account!Event
<1>3. ASSUME NEW t \in Account!Tokens
      PROVE  change[t] = Account!Effect(event, t) /\ (Takes(event, t) => balances[t] + change[t] >= 0)
  <2>1. event.deltas = change /\ event.fee = 0 /\ event.type = type
    BY DEF Account!Event
  <2>2. change[t] = IF t = token THEN delta ELSE 0
    BY DEF Account!Only
  <2> HIDE DEF change, event
  <2> QED
    BY <1>1, <2>1, <2>2 DEF Account!Effect, Takes, AccountInv
<1> HIDE DEF change, event
<1> QED
  BY <1>1, <1>2, <1>3, BookKeeps DEF change, event

\* A trade: the fee is not more than what is paid or got, and there is enough for both.
LEMMA TradeKeeps ==
    ASSUME AccountInv, NEW r \in Orders, NEW quantity \in Nat, NEW price \in Nat,
           Account!ExecuteOrder(r, quantity, price)
    PROVE  AccountInv'
<1> DEFINE notional == price * quantity
           fee      == Account!FeeOf(notional)
           buys     == order[r] = "BUY"
           sign     == IF buys THEN 1 ELSE -1
           deltas   == [ZEPH |-> sign * quantity, USDT |-> -sign * notional]
           change   == [deltas EXCEPT !["USDT"] = @ - fee]
           event    == Account!Event("trade", deltas, fee)
<1>1. Account!Book(event, change) /\ opening' = opening /\ Account!Affordable(order[r], quantity, price)
  BY DEF Account!ExecuteOrder
<1>2. notional \in Nat
  OBVIOUS
<1> HIDE DEF notional
<1>3. fee \in Nat /\ fee <= notional
  BY <1>2 DEF Account!FeeOf
<1>4. /\ buys => balances["USDT"] >= notional + fee
      /\ ~buys => balances["ZEPH"] >= quantity
  BY <1>1 DEF Account!Affordable, notional
<1> HIDE DEF fee
<1>5. /\ deltas \in [Account!Tokens -> Int]
      /\ deltas["ZEPH"] = (IF buys THEN quantity ELSE -quantity)
      /\ deltas["USDT"] = (IF buys THEN -notional ELSE notional)
  BY <1>2 DEF Account!Tokens
<1> HIDE DEF deltas
<1>6. /\ change \in [Account!Tokens -> Int] /\ change["ZEPH"] = deltas["ZEPH"]
      /\ change["USDT"] = deltas["USDT"] - fee
  BY <1>3, <1>5 DEF Account!Tokens
<1>7. /\ event \in [type : {"deposit", "withdraw", "trade"}, deltas : [Account!Tokens -> Int], fee : Nat]
      /\ event.deltas = deltas /\ event.fee = fee
  BY <1>3, <1>5 DEF Account!Event
<1> HIDE DEF change, event, buys
<1>8. ASSUME NEW t \in Account!Tokens
      PROVE  change[t] = Account!Effect(event, t) /\ (Takes(event, t) => balances[t] + change[t] >= 0)
  <2>1. balances["USDT"] \in Int /\ balances["ZEPH"] \in Int /\ t \in {"ZEPH", "USDT"}
    BY DEF AccountInv, Account!Tokens
  <2>2. CASE t = "ZEPH"
    BY <1>3, <1>4, <1>5, <1>6, <1>7, <2>1, <2>2 DEF Account!Effect, Takes
  <2>3. CASE t = "USDT"
    BY <1>2, <1>3, <1>4, <1>5, <1>6, <1>7, <2>1, <2>3 DEF Account!Effect, Takes
  <2> QED
    BY <2>1, <2>2, <2>3
<1> QED
  BY <1>1, <1>6, <1>7, <1>8, BookKeeps

LEMMA AccountNext ==
    ASSUME Account!ExchangeAssumption, AccountInv, [Account!Next]_(Account!vars)
    PROVE  AccountInv'
<1>1. ASSUME UNCHANGED <<balances, opening, events>>
      PROVE  AccountInv'
  BY <1>1 DEF AccountInv, Adds, Takes, Account!Effect
<1>2. CASE UNCHANGED Account!vars
  BY <1>1, <1>2 DEF Account!vars
<1>3. ASSUME NEW t \in Account!Tokens, NEW n \in Amounts, Account!Deposit(t, n * Account!Units(t))
      PROVE  AccountInv'
  <2>1. n * Account!Units(t) \in Int
    BY DEF Account!Units, Account!ExchangeAssumption
  <2> QED
    BY <1>3, <2>1, MoveKeeps DEF Account!Deposit
<1>4. ASSUME NEW t \in Account!Tokens, NEW n \in Amounts, Account!Withdraw(t, n * Account!Units(t))
      PROVE  AccountInv'
  <2>1. n * Account!Units(t) \in Int /\ balances[t] \in Int
    BY DEF Account!Units, Account!ExchangeAssumption, AccountInv
  <2>2. balances[t] + -(n * Account!Units(t)) >= 0
    BY <1>4, <2>1 DEF Account!Withdraw
  <2>3. -(n * Account!Units(t)) \in Int
    BY <2>1
  <2> QED
    BY <1>4, <2>2, <2>3, MoveKeeps DEF Account!Withdraw
<1>5. ASSUME NEW r \in Orders, NEW n \in Quantities, NEW p \in Prices, Account!ExecuteOrder(r, n, p)
      PROVE  AccountInv'
  BY <1>5, TradeKeeps DEF Account!ExchangeAssumption
<1>6. ASSUME NEW r \in Orders, Account!RefuseOrder(r) \/ \E side \in {"BUY", "SELL"} : Account!PlaceOrder(r, side)
      PROVE  AccountInv'
  BY <1>1, <1>6 DEF Account!RefuseOrder, Account!PlaceOrder
<1>7. ASSUME NEW amounts \in Openings, Account!Reset(amounts)
      PROVE  AccountInv'
  <2>1. /\ balances' \in [Account!Tokens -> Int] /\ opening' = balances'
        /\ events' = <<>> /\ Len(events') = 0
    BY <1>7 DEF Account!Reset, Account!ExchangeAssumption
  <2>2. ASSUME NEW t \in Account!Tokens
        PROVE  \E sum : /\ Adds(sum, t)' /\ sum[Len(events')] = balances'[t]
                        /\ \A n \in 1..Len(events') : Takes(events'[n], t) => sum[n] >= 0
    <3> DEFINE one == [n \in 0..0 |-> opening'[t]]
    <3>1. /\ one \in [0..Len(events') -> Int] /\ one[0] = opening'[t]
          /\ one[Len(events')] = balances'[t] /\ 1..Len(events') = {}
      BY <2>1
    <3> QED
      BY <3>1 DEF Adds
  <2> QED
    BY <2>1, <2>2 DEF AccountInv
<1> QED
  BY <1>2, <1>3, <1>4, <1>5, <1>6, <1>7 DEF Account!Next, Account!RequestWithdraw

\* The events of the paper exchange's account explain its balances, fees and all; and whatever became of
\* it while an order waited for its price, no trade and no withdrawal takes more than there is, for any
\* amounts of deposits, withdrawals and resets, those below nothing included (mexc/paper.ts;
\* api/paper/account/route.ts).
THEOREM EventsExplainBalances == MarketSpec => []AccountAddsUp
<1>1. MarketInit => AccountInv
  BY MarketAssumption, PartsBegin, AccountInit
<1>2. AccountInv /\ [MarketNext]_allVars => AccountInv'
  BY MarketAssumption, PartsStep, AccountNext
<1>3. AccountInv => AccountAddsUp
  BY AccountAdds
<1> QED
  BY <1>1, <1>2, <1>3, PTL DEF MarketSpec

\* The bounds of the account and of the orders that wait.
OrdersTyped == Len(events) <= MaxEvents /\ order \in [Orders -> {"none", "BUY", "SELL"}]

LEMMA OrdersTypesBegin == ASSUME Account!ExchangeAssumption, Account!Init PROVE OrdersTyped
<1>1. Len(events) = 0 /\ MaxEvents \in Nat
  BY DEF Account!Init, Account!ExchangeAssumption
<1> QED
  BY <1>1 DEF Account!Init, OrdersTyped

LEMMA OrdersTypes ==
    ASSUME Account!ExchangeAssumption, AccountInv, OrdersTyped, [Account!Next]_(Account!vars)
    PROVE  OrdersTyped'
<1>1. events \in Seq([type : {"deposit", "withdraw", "trade"}, deltas : [Account!Tokens -> Int], fee : Nat])
      /\ MaxEvents \in Nat
  BY DEF AccountInv, Account!ExchangeAssumption
<1>2. Len(events) \in Nat /\ \A e : Len(Append(events, e)) = Len(events) + 1
  BY <1>1
<1>3. \/ UNCHANGED events \/ events' = <<>>
      \/ Len(events) < MaxEvents /\ \E e : events' = Append(events, e)
  <2>1. ASSUME NEW e, NEW change, Account!Book(e, change)
        PROVE  Len(events) < MaxEvents /\ \E f : events' = Append(events, f)
    BY <2>1 DEF Account!Book
  <2>2. ASSUME NEW t, NEW n, Account!Deposit(t, n) \/ Account!Withdraw(t, n) \/ Account!RequestWithdraw(t, n)
        PROVE  Len(events) < MaxEvents /\ \E f : events' = Append(events, f)
    BY <2>1, <2>2, Zenon DEF Account!Deposit, Account!Withdraw, Account!RequestWithdraw
  <2>3. ASSUME NEW r, NEW n, NEW p, Account!ExecuteOrder(r, n, p)
        PROVE  Len(events) < MaxEvents /\ \E f : events' = Append(events, f)
    BY <2>1, <2>3, Zenon DEF Account!ExecuteOrder
  <2>4. ASSUME NEW r, NEW side, Account!PlaceOrder(r, side) \/ Account!RefuseOrder(r)
        PROVE  UNCHANGED events
    BY <2>4 DEF Account!PlaceOrder, Account!RefuseOrder
  <2>5. ASSUME NEW amounts, Account!Reset(amounts)
        PROVE  events' = <<>>
    BY <2>5 DEF Account!Reset
  <2>6. UNCHANGED Account!vars => UNCHANGED events
    BY DEF Account!vars
  <2> QED
    BY <2>2, <2>3, <2>4, <2>5, <2>6, Zenon DEF Account!Next
<1>4. Len(events') <= MaxEvents
  <2>1. CASE UNCHANGED events
    BY <2>1 DEF OrdersTyped
  <2>2. CASE events' = <<>>
    <3>1. Len(events') = 0
      BY <2>2
    <3> QED
      BY <1>1, <3>1
  <2>3. CASE Len(events) < MaxEvents /\ \E e : events' = Append(events, e)
    BY <1>1, <1>2, <2>3
  <2> QED
    BY <1>3, <2>1, <2>2, <2>3
<1>5. \/ UNCHANGED order
      \/ \E r \in Orders, side \in {"none", "BUY", "SELL"} : order' = [order EXCEPT ![r] = side]
  <2>1. ASSUME NEW t, NEW n, Account!Deposit(t, n) \/ Account!Withdraw(t, n) \/ Account!RequestWithdraw(t, n)
        PROVE  UNCHANGED order
    BY <2>1 DEF Account!Deposit, Account!Withdraw, Account!RequestWithdraw
  <2>2. ASSUME NEW r \in Orders, NEW n, NEW p, Account!ExecuteOrder(r, n, p) \/ Account!RefuseOrder(r)
        PROVE  order' = [order EXCEPT ![r] = "none"]
    BY <2>2 DEF Account!ExecuteOrder, Account!RefuseOrder
  <2>3. ASSUME NEW r \in Orders, NEW side \in {"BUY", "SELL"}, Account!PlaceOrder(r, side)
        PROVE  order' = [order EXCEPT ![r] = side]
    BY <2>3 DEF Account!PlaceOrder
  <2>4. ASSUME NEW amounts, Account!Reset(amounts) \/ UNCHANGED Account!vars
        PROVE  UNCHANGED order
    BY <2>4 DEF Account!Reset, Account!vars
  <2>5. CASE \E r \in Orders : \/ \E side \in {"BUY", "SELL"} : Account!PlaceOrder(r, side)
                               \/ \E n \in Quantities, p \in Prices : Account!ExecuteOrder(r, n, p)
                               \/ Account!RefuseOrder(r)
    BY <2>2, <2>3, <2>5
  <2> QED
    BY <2>1, <2>4, <2>5 DEF Account!Next
<1> QED
  BY <1>4, <1>5 DEF OrdersTyped

LEMMA AccountIsTyped == ASSUME AccountInv, OrdersTyped PROVE Account!TypeOK
<1>1. \A i \in DOMAIN events : events[i].type \in {"deposit", "withdraw", "trade"}
  <2> DEFINE Items == [type : {"deposit", "withdraw", "trade"}, deltas : [Account!Tokens -> Int], fee : Nat]
  <2>1. events \in Seq(Items) /\ \A e \in Items : e.type \in {"deposit", "withdraw", "trade"}
    BY DEF AccountInv
  <2> HIDE DEF Items
  <2> QED
    BY <2>1
<1> QED
  BY <1>1 DEF AccountInv, OrdersTyped, Account!TypeOK

-----------------------------------------------------------------------------
(***************************************************************************)
(* The search for a clip.  As long as it goes on, the best sample is the   *)
(* nearest of those seen, none of them is within the tolerance, and the    *)
(* bracket is on its two sides of the reference; and the last try with the *)
(* least amount is only made when no sample was safe.                      *)
(***************************************************************************)
Samples == [amount : Int, known : BOOLEAN, gap : Int, price : Int]

\* Against a conversion there is one price.
Native == {s \in Samples : s.price = 1}

\* The nearest of some samples, or one as near as all of them.
IsNearest(b, samples) ==
    IF flavor = "native" THEN \A s \in samples : Clip!Safe(s) => Clip!Safe(b) /\ b.gap >= s.gap
    ELSE \A s \in samples : s.known => b.known /\ Clip!Abs(b.gap) <= Clip!Abs(s.gap)

Bracketed ==
    /\ flavor \in {"native", "cex"} /\ seen \subseteq Samples
    /\ first \in Samples /\ low \in Samples /\ high \in Samples /\ best \in Samples
    /\ low.gap <= 0 /\ high.gap >= 0
    /\ flavor = "native" => {first, low, high, best} \subseteq Native

Seeking ==
    /\ IsNearest(best, seen) /\ \A s \in seen : ~Clip!Close(s)
    /\ flavor = "cex" => best.known

\* Against the exchange: what the clip is made of before its legs are built.
Chosen ==
    /\ result.known
    /\ \/ Clip!Close(result) /\ latest = result
       \/ \A s \in seen : ~Clip!Close(s) /\ (s.known => Clip!Abs(result.gap) <= Clip!Abs(s.gap))

ClipInv ==
    /\ Bracketed /\ at \in Int
    /\ stage \in {"first", "up", "down", "bisect", "least", "legs", "done", "failed"}
    /\ stage = "first" => seen = {} /\ best = Clip!NoSample
    /\ stage \in {"up", "down", "bisect"} => Seeking
    /\ stage = "least" => flavor = "native" /\ \A s \in seen : ~Clip!Safe(s)
    /\ stage = "legs" => flavor = "cex" /\ Chosen
    /\ Clip!ClipIsNearestSample

LEMMA ClipInit == ASSUME Clip!SizingAssumption, Clip!Init PROVE ClipInv
<1>1. Clip!NoSample \in Native /\ Clip!NoSample.gap = 0
  BY DEF Clip!NoSample, Clip!Sample, Samples, Native
<1>2. Bracketed /\ at \in Int
  BY <1>1 DEF Clip!Init, Clip!SizingAssumption, Bracketed, Native
<1>3. stage = "first" /\ seen = {} /\ best = Clip!NoSample
  BY DEF Clip!Init
<1> QED
  BY <1>2, <1>3 DEF ClipInv, Clip!ClipIsNearestSample

\* What the search prefers is as near as what it had and as what it got.
LEMMA PreferIsNearest ==
    ASSUME flavor \in {"native", "cex"}, NEW b \in Samples, NEW s \in Samples, NEW samples \in SUBSET Samples,
           IsNearest(b, samples)
    PROVE  /\ Clip!Prefer(b, s) \in Samples /\ IsNearest(Clip!Prefer(b, s), samples \cup {s})
           /\ b.known \/ s.known => (flavor = "cex" => Clip!Prefer(b, s).known)
           /\ Clip!Prefer(b, s) \in {b, s}
<1> USE DEF Clip!Abs, Clip!Safe, Samples
<1>1. ASSUME flavor = "native"
      PROVE  /\ Clip!Prefer(b, s) \in {b, s}
             /\ Clip!Safe(b) => Clip!Safe(Clip!Prefer(b, s)) /\ Clip!Prefer(b, s).gap >= b.gap
             /\ Clip!Safe(s) => Clip!Safe(Clip!Prefer(b, s)) /\ Clip!Prefer(b, s).gap >= s.gap
  <2>1. Clip!Prefer(b, s) = Clip!PreferNativeSample(b, s) /\ ~Clip!NoSample.known
    BY <1>1 DEF Clip!Prefer, Clip!NoSample, Clip!Sample
  <2> QED
    BY <2>1 DEF Clip!PreferNativeSample
<1>2. ASSUME flavor # "native"
      PROVE  /\ Clip!Prefer(b, s) \in {b, s}
             /\ b.known => Clip!Prefer(b, s).known /\ Clip!Abs(Clip!Prefer(b, s).gap) <= Clip!Abs(b.gap)
             /\ s.known => Clip!Prefer(b, s).known /\ Clip!Abs(Clip!Prefer(b, s).gap) <= Clip!Abs(s.gap)
  <2>1. Clip!Prefer(b, s) = Clip!PickBetter(b, s)
    BY <1>2 DEF Clip!Prefer
  <2> QED
    BY <2>1 DEF Clip!PickBetter
<1> DEFINE p == Clip!Prefer(b, s)
<1>3. p \in Samples /\ p \in {b, s}
  BY <1>1, <1>2
<1> HIDE DEF p
<1>4. CASE flavor = "native"
  <2>1. ASSUME NEW x \in samples \cup {s}, Clip!Safe(x)
        PROVE  Clip!Safe(p) /\ p.gap >= x.gap
    <3>1. CASE x \in samples
      <4>1. Clip!Safe(b) /\ b.gap >= x.gap
        BY <1>4, <2>1, <3>1 DEF IsNearest
      <4>2. Clip!Safe(p) /\ p.gap >= b.gap
        BY <1>1, <1>4, <4>1 DEF p
      <4> QED
        BY <1>3, <3>1, <4>1, <4>2
    <3>2. CASE x = s
      BY <1>1, <1>4, <2>1, <3>2 DEF p
    <3> QED
      BY <3>1, <3>2
  <2> QED
    BY <1>3, <1>4, <2>1 DEF IsNearest, p
<1>5. CASE flavor # "native"
  <2>1. ASSUME NEW x \in samples \cup {s}, x.known
        PROVE  p.known /\ Clip!Abs(p.gap) <= Clip!Abs(x.gap)
    <3>1. CASE x \in samples
      <4>1. b.known /\ Clip!Abs(b.gap) <= Clip!Abs(x.gap)
        BY <1>5, <2>1, <3>1 DEF IsNearest
      <4>2. p.known /\ Clip!Abs(p.gap) <= Clip!Abs(b.gap)
        BY <1>2, <1>5, <4>1 DEF p
      <4> QED
        BY <1>3, <3>1, <4>1, <4>2
    <3>2. CASE x = s
      BY <1>2, <1>5, <2>1, <3>2 DEF p
    <3> QED
      BY <3>1, <3>2
  <2>2. b.known \/ s.known => p.known
    BY <1>2, <1>5 DEF p
  <2> QED
    BY <1>3, <1>5, <2>1, <2>2 DEF IsNearest, p
<1> QED
  BY <1>4, <1>5

-----------------------------------------------------------------------------
(* The nearest candidate *)

Beats(c, d) == c.gap > d.gap \/ (c.gap = d.gap /\ c.amount > d.amount)

HasBest(S) == S # {} => \E c \in S : \A d \in S \ {c} : Beats(c, d)

\* One more sample keeps a best among some: it, or the one before.
LEMMA OneMoreHasBest ==
    ASSUME NEW S \in SUBSET Native, NEW x \in Native, x.known, \A s \in S : s.known, HasBest(S)
    PROVE  HasBest(S \cup {x})
<1>1. CASE S = {}
  BY <1>1 DEF HasBest
<1>2. CASE x \in S
  <2>1. S \cup {x} = S
    BY <1>2
  <2> QED
    BY <2>1
<1>3. CASE S # {} /\ x \notin S
  <2>1. PICK c \in S : \A d \in S \ {c} : Beats(c, d)
    BY <1>3 DEF HasBest
  <2>2. /\ c.gap \in Int /\ c.amount \in Int /\ x.gap \in Int /\ x.amount \in Int
        /\ c.gap # x.gap \/ c.amount # x.amount
    <3>1. c = [amount |-> c.amount, known |-> TRUE, gap |-> c.gap, price |-> 1]
          /\ x = [amount |-> x.amount, known |-> TRUE, gap |-> x.gap, price |-> 1]
      BY DEF Samples, Native
    <3> QED
      BY <1>3, <3>1 DEF Samples, Native
  <2>3. Beats(c, x) \/ Beats(x, c)
    BY <2>2 DEF Beats
  <2>4. CASE Beats(c, x)
    BY <2>1, <2>4 DEF HasBest
  <2>5. CASE Beats(x, c)
    <3>1. \A d \in S \ {c} : Beats(x, d)
      BY <2>1, <2>2, <2>5 DEF Beats, Samples, Native
    <3> QED
      BY <2>5, <3>1 DEF HasBest
  <2> QED
    BY <2>3, <2>4, <2>5
<1> QED
  BY <1>1, <1>2, <1>3

LEMMA CandidatesHaveBest ==
    ASSUME NEW a \in Native, NEW b \in Native, NEW c \in Native, NEW d \in Native, NEW e \in Native
    PROVE  HasBest({x \in {a, b, c, d, e} \ {Clip!NoSample} : Clip!Safe(x)})
<1> DEFINE Ok(x) == IF x # Clip!NoSample /\ Clip!Safe(x) THEN {x} ELSE {}
<1>1. ASSUME NEW S \in SUBSET Native, \A s \in S : s.known, HasBest(S), NEW x \in Native
      PROVE  HasBest(S \cup Ok(x)) /\ S \cup Ok(x) \in SUBSET Native /\ \A s \in S \cup Ok(x) : s.known
  <2>1. CASE x # Clip!NoSample /\ Clip!Safe(x)
    BY <1>1, <2>1, OneMoreHasBest DEF Clip!Safe
  <2>2. CASE ~(x # Clip!NoSample /\ Clip!Safe(x))
    <3>1. S \cup Ok(x) = S
      BY <2>2
    <3> QED
      BY <1>1, <3>1
  <2> QED
    BY <2>1, <2>2
<1>2. HasBest({})
  BY DEF HasBest
<1> DEFINE S1 == {} \cup Ok(a)
           S2 == S1 \cup Ok(b)
           S3 == S2 \cup Ok(c)
           S4 == S3 \cup Ok(d)
           S5 == S4 \cup Ok(e)
<1>3. {x \in {a, b, c, d, e} \ {Clip!NoSample} : Clip!Safe(x)} = S5
  OBVIOUS
<1> HIDE DEF Ok
<1>4. HasBest(S1) /\ S1 \in SUBSET Native /\ \A s \in S1 : s.known
  BY <1>1, <1>2
<1> HIDE DEF S1
<1>5. HasBest(S2) /\ S2 \in SUBSET Native /\ \A s \in S2 : s.known
  BY <1>1, <1>4
<1> HIDE DEF S2
<1>6. HasBest(S3) /\ S3 \in SUBSET Native /\ \A s \in S3 : s.known
  BY <1>1, <1>5
<1> HIDE DEF S3
<1>7. HasBest(S4) /\ S4 \in SUBSET Native /\ \A s \in S4 : s.known
  BY <1>1, <1>6
<1> HIDE DEF S4
<1>8. HasBest(S5)
  BY <1>1, <1>7
<1> QED
  BY <1>3, <1>8

-----------------------------------------------------------------------------
(* How a search ends, and how it goes on *)

Concluded ==
    \/ stage = "done" /\ flavor = "native" /\ Clip!ClipIsNearestSample
    \/ stage = "legs" /\ flavor = "cex" /\ Chosen
    \/ stage = "least" /\ flavor = "native" /\ \A s \in seen : ~Clip!Safe(s)

LEMMA SettleConcludes ==
    ASSUME NEW candidate \in Samples, at \in Int, Clip!SizingAssumption, Clip!Settle(candidate), Bracketed',
           IsNearest(best', seen'), UNCHANGED flavor, flavor = "native" => candidate \in Native,
           flavor = "cex" => best'.known /\ \A s \in seen' : ~Clip!Close(s)
    PROVE  Concluded' /\ at' \in Int
<1>1. CASE flavor = "cex"
  <2>1. stage' = "legs" /\ result' = best' /\ at' = at
    BY <1>1 DEF Clip!Settle, Clip!Ends
  <2>2. Chosen'
    BY <1>1, <2>1 DEF Chosen, IsNearest, Clip!Abs, Clip!Close
  <2> QED
    BY <1>1, <2>1, <2>2 DEF Concluded
<1>2. CASE flavor = "native"
  <2> DEFINE safe == {c \in {best', low', candidate, high', first'} \ {Clip!NoSample} : Clip!Safe(c)}
             nearest == CHOOSE c \in safe : \A d \in safe \ {c} :
                            c.gap > d.gap \/ (c.gap = d.gap /\ c.amount > d.amount)
  <2>1. IF safe # {} THEN Clip!Ends(nearest)
        ELSE stage' = "least" /\ at' = LeastAmount /\ UNCHANGED <<tries, result>>
    BY <1>2 DEF Clip!Settle
  <2>2. safe \subseteq Samples /\ best' \in Samples /\ seen' \subseteq Samples
    BY DEF Bracketed
  <2>3. HasBest(safe)
    BY <1>2, CandidatesHaveBest DEF Bracketed
  <2>4. best' # Clip!NoSample /\ Clip!Safe(best') => best' \in safe
    OBVIOUS
  <2>5. Clip!Safe(best') => best' # Clip!NoSample
    BY DEF Clip!Safe, Clip!NoSample, Clip!Sample
  <2>6. CASE safe = {}
    <3>1. ~Clip!Safe(best')
      BY <2>4, <2>5, <2>6
    <3>2. \A s \in seen' : ~Clip!Safe(s)
      BY <1>2, <3>1 DEF IsNearest
    <3>3. stage' = "least" /\ at' = LeastAmount
      BY <2>1, <2>6
    <3> QED
      BY <1>2, <3>2, <3>3 DEF Concluded, Clip!SizingAssumption, Clip!Safe
  <2>7. CASE safe # {}
    <3>1. nearest \in safe /\ \A d \in safe \ {nearest} : Beats(nearest, d)
      BY <2>3, <2>7 DEF HasBest, Beats
    <3>2. stage' = "done" /\ result' = nearest /\ at' = at
      BY <1>2, <2>1, <2>7 DEF Clip!Ends
    <3> HIDE DEF nearest
    <3>3. Clip!Safe(nearest) /\ nearest \in Samples
      BY <2>2, <3>1
    <3>4. Clip!Safe(best') => nearest.gap >= best'.gap
      <4>1. CASE nearest = best'
        BY <2>2, <4>1 DEF Samples
      <4>2. CASE nearest # best' /\ Clip!Safe(best')
        <5>1. Beats(nearest, best')
          BY <2>4, <2>5, <3>1, <4>2
        <5> QED
          BY <2>2, <3>3, <5>1 DEF Beats, Samples
      <4> QED
        BY <4>1, <4>2
    <3>5. ASSUME NEW s \in seen', Clip!Safe(s)
          PROVE  nearest.gap >= s.gap
      <4>1. Clip!Safe(best') /\ best'.gap >= s.gap
        BY <1>2, <3>5 DEF IsNearest
      <4> QED
        BY <2>2, <3>3, <3>4, <4>1 DEF Samples
    <3> QED
      BY <1>2, <3>2, <3>3, <3>5 DEF Concluded, Clip!ClipIsNearestSample, Clip!Safe
  <2> QED
    BY <2>6, <2>7
<1> QED
  BY <1>1, <1>2 DEF Bracketed

\* What a step leaves: a search that goes on, or one that has ended.
GoesOn ==
    /\ at' \in Int
    /\ \/ stage' \in {"up", "down", "bisect"}
       \/ Concluded'

LEMMA WaysToGoOn ==
    ASSUME at \in Int, Clip!SizingAssumption, Bracketed', IsNearest(best', seen'),
           UNCHANGED flavor, flavor = "cex" => best'.known /\ \A s \in seen' : ~Clip!Close(s)
    PROVE  /\ Clip!GoUp => GoesOn
           /\ Clip!GoDown => GoesOn
           /\ Clip!Bisect => GoesOn
<1>1. /\ best' \in Samples /\ low' \in Samples /\ high' \in Samples /\ low'.gap <= 0 /\ high'.gap >= 0
      /\ flavor = "native" => best' \in Native
  BY DEF Bracketed
<1>2. Clip!Settle(best') => GoesOn
  BY <1>1, SettleConcludes DEF GoesOn
<1>3. ASSUME Clip!GoUp
      PROVE  GoesOn
  <2>1. CASE Clip!Settle(best')
    BY <1>2, <2>1
  <2>2. CASE stage' = "up" /\ at' = Clip!Expand(at)
    BY <2>2 DEF GoesOn, Clip!Expand
  <2> QED
    BY <1>3, <2>1, <2>2 DEF Clip!GoUp, Clip!Seek
<1>4. ASSUME Clip!GoDown
      PROVE  GoesOn
  <2>1. CASE Clip!Settle(best')
    BY <1>2, <2>1
  <2>2. CASE stage' = "down" /\ at' = Clip!Contract(at)
    BY <2>2 DEF GoesOn, Clip!Contract, Clip!Larger, Clip!SizingAssumption
  <2> QED
    BY <1>4, <2>1, <2>2 DEF Clip!GoDown, Clip!Seek
<1>5. ASSUME Clip!Bisect
      PROVE  GoesOn
  <2>1. CASE Clip!Settle(best')
    BY <1>2, <2>1
  <2>2. CASE stage' = "bisect" /\ at' = Clip!Between
    <3>1. low'.amount \in Int /\ high'.amount \in Int /\ low'.gap \in Int /\ high'.gap \in Int
      BY <1>1 DEF Samples
    <3>2. low'.gap # high'.gap => high'.gap - low'.gap \in Nat \ {0}
      BY <1>1, <3>1
    <3>3. low'.gap # high'.gap => Clip!Secant \in Int
      <4> DEFINE n == low'.amount * high'.gap - high'.amount * low'.gap
      <4>1. n \in Int
        BY <3>1
      <4> HIDE DEF n
      <4>2. \A d \in Nat \ {0} : n \div d \in Int
        BY <4>1
      <4> QED
        BY <3>2, <4>2 DEF Clip!Secant, n
    <3>4. (low'.amount + high'.amount) \div 2 \in Int
      BY <3>1
    <3>5. Clip!Between \in Int
      BY <3>3, <3>4 DEF Clip!Between
    <3> QED
      BY <2>2, <3>5 DEF GoesOn
  <2> QED
    BY <1>5, <2>1, <2>2 DEF Clip!Bisect, Clip!Seek
<1> QED
  BY <1>3, <1>4, <1>5

\* The invariant after a step that goes on.
LEMMA GoesOnKeeps ==
    ASSUME GoesOn, Bracketed', IsNearest(best', seen'), \A s \in seen' : ~Clip!Close(s),
           UNCHANGED flavor, flavor = "cex" => best'.known
    PROVE  ClipInv'
<1>1. IsNearest(best, seen)'
  BY DEF IsNearest, Clip!Safe, Clip!Abs
<1>2. Seeking'
  BY <1>1 DEF Seeking, Clip!Close, Clip!Abs
<1>3. CASE stage' \in {"up", "down", "bisect"}
  <2>1. stage' \notin {"first", "least", "legs", "done"}
    BY <1>3
  <2> QED
    BY <1>2, <1>3, <2>1 DEF GoesOn, ClipInv, Clip!ClipIsNearestSample
<1>4. CASE Concluded'
  BY <1>4 DEF GoesOn, Concluded, ClipInv, Clip!ClipIsNearestSample
<1> QED
  BY <1>3, <1>4 DEF GoesOn

\* The invariant after a step that ends the search.
LEMMA ConcludedKeeps ==
    ASSUME Concluded', at' \in Int, Bracketed'
    PROVE  ClipInv'
BY DEF Concluded, ClipInv, Clip!ClipIsNearestSample

-----------------------------------------------------------------------------
(* The samples *)

\* A quote that comes back makes a sample.
LEMMA OutcomesAreSamples ==
    ASSUME Clip!SizingAssumption, at \in Int, NEW s \in Clip!Outcomes
    PROVE  s \in Samples /\ (flavor = "native" => s \in Native)
<1>1. CASE s = Clip!Unknown
  BY <1>1 DEF Clip!Unknown, Clip!Sample, Samples, Native
<1>2. ASSUME NEW g \in Gaps, NEW p \in Clip!CloseFills, s = Clip!Known(g, p)
      PROVE  s \in Samples /\ (flavor = "native" => s \in Native)
  <2>1. g \in Int /\ p \in Int /\ (flavor = "native" => p = 1)
    BY DEF Clip!SizingAssumption, Clip!CloseFills
  <2> QED
    BY <1>2, <2>1 DEF Clip!Known, Clip!Sample, Samples, Native
<1>3. s = Clip!Unknown \/ \E g \in Gaps, p \in Clip!CloseFills : s = Clip!Known(g, p)
  BY DEF Clip!Outcomes
<1> QED
  BY <1>1, <1>2, <1>3

\* Recording it keeps the best the nearest.
LEMMA RecordKeepsNearest ==
    ASSUME ClipInv, NEW s \in Samples, Clip!Record(s), UNCHANGED flavor,
           IsNearest(best, seen), flavor = "native" => s \in Native
    PROVE  /\ best' \in Samples /\ (flavor = "native" => best' \in Native) /\ seen' = seen \cup {s} /\ seen' \subseteq Samples
           /\ IsNearest(best', seen')
           /\ best.known \/ s.known => (flavor = "cex" => best'.known)
<1>1. /\ seen \in SUBSET Samples /\ best \in Samples /\ flavor \in {"native", "cex"}
      /\ flavor = "native" => best \in Native
  BY DEF ClipInv, Bracketed
<1>2. best' = Clip!Prefer(best, s) /\ seen' = seen \cup {s}
  BY DEF Clip!Record
<1> QED
  BY <1>1, <1>2, PreferIsNearest

\* Against the exchange a sample within the tolerance ends the search, and is the last.
LEMMA CloseEnds ==
    ASSUME NEW s \in Samples, Clip!Close(s), Clip!Ends(s), Clip!Record(s), UNCHANGED flavor, flavor = "cex"
    PROVE  Concluded'
<1>1. stage' = "legs" /\ result' = s /\ latest' = s /\ s.known
  BY DEF Clip!Ends, Clip!Record, Clip!Close
<1>2. Chosen'
  BY <1>1 DEF Chosen, Clip!Close, Clip!Abs
<1> QED
  BY <1>1, <1>2 DEF Concluded

LEMMA FirstSampleKeeps ==
    ASSUME Clip!SizingAssumption, ClipInv, NEW s \in Samples, flavor = "native" => s \in Native,
           Clip!FirstSample(s)
    PROVE  ClipInv'
<1>1. /\ stage = "first" /\ seen = {} /\ best = Clip!NoSample /\ at \in Int
      /\ Clip!Record(s) /\ UNCHANGED flavor /\ first' = s /\ flavor \in {"native", "cex"}
  BY DEF Clip!FirstSample, ClipInv, Bracketed
<1>2. IsNearest(best, seen)
  BY <1>1 DEF IsNearest
<1>3. /\ best' \in Samples /\ seen' = {s} /\ seen' \subseteq Samples
      /\ flavor = "native" => best' \in Native
      /\ IsNearest(best', seen')
      /\ s.known => (flavor = "cex" => best'.known)
  BY <1>1, <1>2, RecordKeepsNearest
<1>4. Clip!NoSample \in Samples /\ Clip!NoSample \in Native /\ Clip!NoSample.gap = 0
  BY DEF Clip!NoSample, Clip!Sample, Samples, Native
<1>5. /\ low' \in Samples /\ low'.gap <= 0 /\ high' \in Samples /\ high'.gap >= 0
      /\ flavor = "native" => low' \in Native /\ high' \in Native
  <2>1. /\ low' = (IF s.known /\ s.gap < 0 THEN s ELSE Clip!NoSample)
        /\ high' = (IF s.known /\ s.gap > 0 THEN s ELSE Clip!NoSample)
    BY DEF Clip!FirstSample
  <2>2. s.gap \in Int
    BY DEF Samples
  <2> QED
    BY <1>4, <2>1, <2>2
<1>6. Bracketed'
  BY <1>1, <1>3, <1>5 DEF Bracketed
<1>7. CASE Clip!Close(s) \/ (~s.known /\ flavor = "native")
  <2>1. Clip!Ends(s)
    BY <1>7 DEF Clip!FirstSample
  <2>2. stage' = (IF flavor = "native" THEN "done" ELSE "legs") /\ result' = s /\ at' = at
    BY <2>1 DEF Clip!Ends
  <2>3. CASE flavor = "native"
    <3>1. s.gap \in Int
      BY DEF Samples
    <3>2. \A x \in seen' : Clip!Safe(x) => Clip!Safe(s) /\ s.gap >= x.gap
      BY <1>3, <3>1
    <3> QED
      BY <1>1, <1>6, <2>2, <2>3, <3>2, ConcludedKeeps
        DEF Concluded, Clip!ClipIsNearestSample, Clip!Safe
  <2>4. CASE flavor = "cex"
    <3>1. Clip!Close(s)
      BY <1>7, <2>4
    <3>2. Concluded'
      BY <1>1, <2>1, <2>4, <3>1, CloseEnds
    <3> QED
      BY <1>1, <1>6, <2>2, <3>2, ConcludedKeeps
  <2> QED
    BY <1>1, <2>3, <2>4
<1>8. CASE ~(Clip!Close(s) \/ (~s.known /\ flavor = "native")) /\ ~s.known
  <2>1. stage' = "failed" /\ at' = at
    BY <1>8 DEF Clip!FirstSample
  <2> QED
    BY <1>1, <1>6, <2>1 DEF ClipInv, Clip!ClipIsNearestSample
<1>9. CASE ~(Clip!Close(s) \/ (~s.known /\ flavor = "native")) /\ s.known
  <2>1. Clip!GoUp \/ Clip!GoDown
    BY <1>9 DEF Clip!FirstSample
  <2>2. flavor = "cex" => best'.known
    BY <1>3, <1>9
  <2>3. \A x \in seen' : ~Clip!Close(x)
    BY <1>3, <1>9
  <2>4. GoesOn
    BY <1>1, <1>3, <1>6, <2>1, <2>2, <2>3, WaysToGoOn
  <2> QED
    BY <1>1, <1>3, <1>6, <2>2, <2>3, <2>4, GoesOnKeeps
<1> QED
  BY <1>7, <1>8, <1>9

\* A sample in the course of the search, wherever it falls.
LEMMA LaterSampleKeeps ==
    ASSUME Clip!SizingAssumption, ClipInv, NEW s \in Samples, flavor = "native" => s \in Native,
           Clip!CloseSample(s) \/ Clip!UnknownSample(s) \/ Clip!ExpansionSample(s)
           \/ Clip!ContractionSample(s) \/ Clip!BisectionSample(s)
    PROVE  ClipInv'
<1>1. /\ stage \in {"up", "down", "bisect"} /\ Clip!Record(s) /\ UNCHANGED <<flavor, first>>
  BY DEF Clip!CloseSample, Clip!UnknownSample, Clip!ExpansionSample, Clip!ContractionSample,
         Clip!BisectionSample
<1>2. /\ Seeking /\ Bracketed /\ at \in Int /\ s.gap \in Int
      /\ IsNearest(best, seen) /\ \A x \in seen : ~Clip!Close(x)
  BY <1>1 DEF ClipInv, Seeking, Samples
<1>3. /\ best' \in Samples /\ seen' = seen \cup {s} /\ seen' \subseteq Samples
      /\ flavor = "native" => best' \in Native
      /\ IsNearest(best', seen')
      /\ flavor = "cex" => best'.known
  BY <1>1, <1>2, RecordKeepsNearest DEF Seeking
<1>4. /\ low' = low \/ (low' = s /\ s.gap <= 0)
      /\ high' = high \/ (high' = s /\ s.gap >= 0)
  BY <1>2 DEF Clip!CloseSample, Clip!UnknownSample, Clip!ExpansionSample, Clip!ContractionSample,
              Clip!BisectionSample, Clip!bracket, Clip!SideLow, Clip!SideHigh
<1>5. /\ low' \in Samples /\ low'.gap <= 0 /\ high' \in Samples /\ high'.gap >= 0
      /\ flavor = "native" => low' \in Native /\ high' \in Native
  BY <1>2, <1>4 DEF Bracketed
<1>6. Bracketed'
  BY <1>1, <1>2, <1>3, <1>5 DEF Bracketed
<1>7. CASE Clip!Close(s)
  <2>1. IF flavor = "cex" THEN Clip!Ends(s) ELSE Clip!Settle(s)
    BY <1>7 DEF Clip!CloseSample, Clip!UnknownSample, Clip!ExpansionSample, Clip!ContractionSample,
                Clip!BisectionSample, Clip!Close
  <2>2. CASE flavor = "cex"
    <3>1. Clip!Ends(s) /\ at' = at
      BY <2>1, <2>2 DEF Clip!Ends
    <3>2. Concluded'
      BY <1>1, <1>7, <2>2, <3>1, CloseEnds
    <3> QED
      BY <1>2, <1>6, <3>1, <3>2, ConcludedKeeps
  <2>3. CASE flavor # "cex"
    <3>1. Concluded' /\ at' \in Int
      BY <1>1, <1>2, <1>3, <1>6, <2>1, <2>3, SettleConcludes
    <3> QED
      BY <1>6, <3>1, ConcludedKeeps
  <2> QED
    BY <2>2, <2>3
<1>8. CASE ~Clip!Close(s)
  <2>1. Clip!GoUp \/ Clip!GoDown \/ Clip!Bisect \/ Clip!Settle(best')
    BY <1>8 DEF Clip!CloseSample, Clip!UnknownSample, Clip!ExpansionSample, Clip!ContractionSample,
                Clip!BisectionSample
  <2>2. \A x \in seen' : ~Clip!Close(x)
    BY <1>2, <1>3, <1>8
  <2>3. GoesOn
    <3>1. CASE Clip!Settle(best')
      BY <1>1, <1>2, <1>3, <1>6, <2>2, <3>1, SettleConcludes DEF GoesOn
    <3>2. CASE Clip!GoUp \/ Clip!GoDown \/ Clip!Bisect
      BY <1>1, <1>2, <1>3, <1>6, <2>2, <3>2, WaysToGoOn
    <3> QED
      BY <2>1, <3>1, <3>2
  <2> QED
    BY <1>1, <1>3, <1>6, <2>2, <2>3, GoesOnKeeps
<1> QED
  BY <1>7, <1>8

\* The last try with the least amount.
LEMMA LeastSampleKeeps ==
    ASSUME Clip!SizingAssumption, ClipInv, NEW s \in Samples, Clip!LeastSample(s)
    PROVE  ClipInv'
<1>1. /\ stage = "least" /\ flavor = "native" /\ at \in Int /\ Bracketed
      /\ \A x \in seen : ~Clip!Safe(x)
      /\ UNCHANGED <<flavor, first, low, high, best>> /\ seen' = seen \cup {s}
  BY DEF Clip!LeastSample, ClipInv, Clip!bracket
<1>2. stage' = (IF flavor = "native" THEN "done" ELSE "legs") /\ at' = at /\ result' = (IF ~s.known \/ Clip!Safe(s) THEN s ELSE best)
  BY DEF Clip!LeastSample, Clip!Ends
<1>3. Bracketed'
  BY <1>1 DEF Bracketed
<1>4. s.gap \in Int
  BY DEF Samples
<1>5. \A x \in seen' : Clip!Safe(x) => Clip!Safe(result') /\ result'.gap >= x.gap
  BY <1>1, <1>2, <1>4
<1>6. Concluded'
  BY <1>1, <1>2, <1>5 DEF Concluded, Clip!ClipIsNearestSample, Clip!Safe
<1> QED
  BY <1>1, <1>2, <1>3, <1>6, ConcludedKeeps

\* A quote that fails.
LEMMA QuoteFailsKeeps ==
    ASSUME Clip!SizingAssumption, ClipInv, Clip!QuoteFails
    PROVE  ClipInv'
<1>1. /\ stage \notin {"legs", "done", "failed"} /\ at \in Int /\ Bracketed
      /\ flavor \in {"native", "cex"} /\ best \in Samples
      /\ stage \in {"first", "up", "down", "bisect", "least", "legs", "done", "failed"}
      /\ UNCHANGED <<flavor, seen, first, low, high, best>>
  BY DEF Clip!QuoteFails, ClipInv, Bracketed, Clip!bracket
<1>2. Bracketed'
  BY <1>1 DEF Bracketed
<1>3. CASE flavor = "cex" \/ stage = "first"
  <2>1. stage' = "failed" /\ at' = at
    BY <1>1, <1>3 DEF Clip!QuoteFails
  <2> QED
    BY <1>1, <1>2, <2>1 DEF ClipInv, Clip!ClipIsNearestSample
<1>4. CASE flavor = "native" /\ stage = "least"
  <2>1. stage' = "done" /\ at' = at
    BY <1>1, <1>4 DEF Clip!QuoteFails, Clip!Ends
  <2>2. \A x \in seen' : ~Clip!Safe(x)
    BY <1>1, <1>4 DEF ClipInv
  <2>3. Concluded'
    BY <1>1, <1>4, <2>1, <2>2 DEF Concluded, Clip!ClipIsNearestSample, Clip!Safe
  <2> QED
    BY <1>1, <1>2, <2>1, <2>3, ConcludedKeeps
<1>5. CASE flavor = "native" /\ stage \in {"up", "down", "bisect"}
  <2>1. Clip!Settle(best)
    BY <1>1, <1>5 DEF Clip!QuoteFails
  <2>2. IsNearest(best', seen')
    BY <1>1, <1>5 DEF ClipInv, Seeking
  <2>3. Concluded' /\ at' \in Int
    BY <1>1, <1>2, <1>5, <2>1, <2>2, SettleConcludes DEF Bracketed
  <2> QED
    BY <1>2, <2>3, ConcludedKeeps
<1> QED
  BY <1>1, <1>3, <1>4, <1>5

\* The legs of a clip of the exchange: two samples make it only when none was within the tolerance.
LEMMA BuildLegsKeeps ==
    ASSUME ClipInv, Clip!BuildLegs
    PROVE  ClipInv'
<1>1. /\ stage = "legs" /\ flavor = "cex" /\ Chosen /\ Bracketed /\ at \in Int
      /\ UNCHANGED <<flavor, at, seen, first, low, high, best, latest, result>>
  BY DEF Clip!BuildLegs, Clip!bracket, ClipInv
<1>2. Bracketed'
  BY <1>1 DEF Bracketed
<1>3. /\ stage' \in {"done", "failed"}
      /\ stage' = "done" => closing' \in {latest, result}
  BY DEF Clip!BuildLegs
<1>4. Clip!ClipIsNearestSample'
  BY <1>1, <1>3 DEF Chosen, Clip!ClipIsNearestSample, Clip!Close, Clip!Abs
<1> QED
  BY <1>1, <1>2, <1>3, <1>4 DEF ClipInv

LEMMA ClipNext ==
    ASSUME Clip!SizingAssumption, ClipInv, [Clip!Next]_(Clip!vars)
    PROVE  ClipInv'
<1>1. ASSUME NEW s \in Clip!Outcomes
      PROVE  s \in Samples /\ (flavor = "native" => s \in Native)
  BY <1>1, OutcomesAreSamples DEF ClipInv
<1>2. ASSUME NEW s \in Clip!Outcomes, Clip!FirstSample(s)
      PROVE  ClipInv'
  BY <1>1, <1>2, FirstSampleKeeps
<1>3. ASSUME NEW s \in Clip!Outcomes,
             Clip!CloseSample(s) \/ Clip!UnknownSample(s) \/ Clip!ExpansionSample(s)
             \/ Clip!ContractionSample(s) \/ Clip!BisectionSample(s)
      PROVE  ClipInv'
  BY <1>1, <1>3, LaterSampleKeeps
<1>4. ASSUME NEW s \in Clip!Outcomes, Clip!LeastSample(s)
      PROVE  ClipInv'
  BY <1>1, <1>4, LeastSampleKeeps
<1>5. CASE UNCHANGED Clip!vars
  BY <1>5 DEF Clip!vars, Clip!bracket, ClipInv, Bracketed, Seeking, Chosen, IsNearest,
              Clip!ClipIsNearestSample, Clip!Safe, Clip!Close, Clip!Abs
<1> QED
  BY <1>2, <1>3, <1>4, <1>5, QuoteFailsKeeps, BuildLegsKeeps DEF Clip!Next

\* However the search ended, within the tolerance, out of samples, on an unknown gap or a failed quote, the
\* clip is of the safe sample nearest the reference, against a conversion; against the exchange, of one
\* within the tolerance of its own closing price, or of none further from it than any other, and its two
\* legs are of one sample unless no sample was within the tolerance
\* (arbitrage/calibration.clip.ts, calibration.iterative.ts, calibration.twoVenue.ts).
THEOREM ClipIsNearest == MarketSpec => []ClipIsNearestSample
<1> USE MarketAssumption DEF MarketAssumption
<1>1. MarketInit => ClipInv
  BY PartsBegin, ClipInit
<1>2. ClipInv /\ [MarketNext]_allVars => ClipInv'
  BY PartsStep, ClipNext
<1>3. ClipInv => ClipIsNearestSample
  BY DEF ClipInv, ClipIsNearestSample
<1> QED
  BY <1>1, <1>2, <1>3, PTL DEF MarketSpec

-----------------------------------------------------------------------------
(* The types of the samples *)

\* Samples are of amounts that can be asked for.
Sized == [amount : Nat, known : BOOLEAN, gap : Int, price : Int]

SamplesSized == seen \subseteq Sized /\ {first, low, high, best, latest} \subseteq Sized

ClipTyped ==
    /\ SamplesSized /\ result \in Sized /\ closing \in Sized
    /\ at \in Nat /\ tries \in 0..MaxExpansions /\ count \in Nat

LEMMA ClipTypesBegin == ASSUME Clip!SizingAssumption, Clip!Init PROVE ClipTyped
<1>1. Clip!NoSample \in Sized
  BY DEF Clip!NoSample, Clip!Sample, Sized
<1> QED
  BY <1>1 DEF Clip!Init, Clip!SizingAssumption, ClipTyped, SamplesSized

LEMMA ClipIsTyped == ASSUME ClipInv, ClipTyped PROVE Clip!TypeOK
<1>1. \A s \in Sized : s = Clip!Sample(s.amount, s.known, s.gap, s.price)
  BY DEF Sized, Clip!Sample
<1>2. seen \cup {first, low, high, best, latest, result, closing} \subseteq Sized
  BY DEF ClipTyped, SamplesSized
<1> QED
  BY <1>1, <1>2 DEF ClipInv, Bracketed, ClipTyped, Clip!TypeOK

\* What a search that goes on, or ends, leaves.
Bounded == at' \in Nat /\ tries' \in 0..MaxExpansions /\ result' \in Sized

LEMMA EndsBounded ==
    ASSUME ClipTyped, NEW s \in Sized, Clip!Ends(s)
    PROVE  Bounded
BY DEF ClipTyped, Clip!Ends, Bounded

LEMMA SettleBounded ==
    ASSUME Clip!SizingAssumption, ClipTyped, NEW candidate \in Sized, Clip!Settle(candidate),
           Bracketed', SamplesSized', UNCHANGED flavor, flavor = "native" => candidate \in Native
    PROVE  Bounded
<1> DEFINE safe == {c \in {best', low', candidate, high', first'} \ {Clip!NoSample} : Clip!Safe(c)}
           nearest == CHOOSE c \in safe : \A d \in safe \ {c} :
                          c.gap > d.gap \/ (c.gap = d.gap /\ c.amount > d.amount)
<1>1. flavor \in {"native", "cex"}
  BY DEF Bracketed
<1>2. safe \subseteq Sized
  BY DEF SamplesSized
<1>3. flavor = "native" => HasBest(safe)
  BY CandidatesHaveBest DEF Bracketed
<1>4. flavor = "native" /\ safe # {} => nearest \in safe
  BY <1>3 DEF HasBest, Beats
<1>5. \/ Clip!Ends(best')
      \/ flavor = "native" /\ safe # {} /\ Clip!Ends(nearest)
      \/ at' = LeastAmount /\ UNCHANGED <<tries, result>>
  BY <1>1 DEF Clip!Settle
<1> HIDE DEF nearest, safe
<1>6. CASE Clip!Ends(best')
  BY <1>6, EndsBounded DEF SamplesSized
<1>7. CASE flavor = "native" /\ safe # {} /\ Clip!Ends(nearest)
  BY <1>2, <1>4, <1>7, EndsBounded
<1>8. CASE at' = LeastAmount /\ UNCHANGED <<tries, result>>
  BY <1>8 DEF ClipTyped, Bounded, Clip!SizingAssumption
<1> QED
  BY <1>5, <1>6, <1>7, <1>8

LEMMA WaysBounded ==
    ASSUME Clip!SizingAssumption, ClipTyped, Bracketed', SamplesSized', UNCHANGED flavor,
           Clip!GoUp \/ Clip!GoDown \/ Clip!Bisect
    PROVE  Bounded
<1>1. /\ at \in Nat /\ tries \in 0..MaxExpansions /\ MaxExpansions \in Nat /\ LeastAmount \in Nat
      /\ result \in Sized /\ best' \in Sized /\ low' \in Sized /\ high' \in Sized
      /\ low'.gap <= 0 /\ high'.gap >= 0
  BY DEF ClipTyped, SamplesSized, Bracketed, Clip!SizingAssumption
<1>2. ASSUME Clip!Settle(best')
      PROVE  Bounded
  BY <1>1, <1>2, SettleBounded DEF Bracketed
<1>3. ASSUME NEW where, NEW amount \in Nat, Clip!Seek(where, amount), tries' \in 0..MaxExpansions
      PROVE  Bounded
  BY <1>1, <1>3 DEF Clip!Seek, Bounded
<1>4. Clip!Expand(at) \in Nat /\ Clip!Contract(at) \in Nat
  BY <1>1 DEF Clip!Expand, Clip!Contract, Clip!Larger
<1>5. CASE Clip!GoUp
  BY <1>1, <1>2, <1>3, <1>4, <1>5 DEF Clip!GoUp, Clip!MayExpand
<1>6. CASE Clip!GoDown
  BY <1>1, <1>2, <1>3, <1>4, <1>6 DEF Clip!GoDown, Clip!MayContract, Clip!MayExpand
<1>7. CASE Clip!Bisect
  <2>1. low'.amount \in Nat /\ high'.amount \in Nat /\ low'.gap \in Int /\ high'.gap \in Int
    BY <1>1 DEF Sized
  <2>2. low'.gap # high'.gap => Clip!Secant \in Int
    <3> DEFINE n == low'.amount * high'.gap - high'.amount * low'.gap
    <3>1. n \in Int
      BY <2>1
    <3> HIDE DEF n
    <3>2. \A d \in Nat \ {0} : n \div d \in Int
      BY <3>1
    <3>3. low'.gap # high'.gap => high'.gap - low'.gap \in Nat \ {0}
      BY <1>1, <2>1
    <3> QED
      BY <3>2, <3>3 DEF Clip!Secant, n
  <2>3. Clip!Between \in Nat
    <3> DEFINE line == IF low'.gap # high'.gap THEN Clip!Secant ELSE 0
    <3>1. line \in Int
      BY <2>2
    <3>2. (low'.amount + high'.amount) \div 2 \in Nat
      BY <2>1
    <3>3. line - low'.amount > LeastAmount => line \in Nat
      BY <1>1, <2>1, <3>1
    <3>4. Clip!Between \in {line, (low'.amount + high'.amount) \div 2}
          /\ (Clip!Between = (low'.amount + high'.amount) \div 2 \/ line - low'.amount > LeastAmount)
      BY DEF Clip!Between
    <3> HIDE DEF line
    <3> QED
      BY <3>2, <3>3, <3>4
  <2> QED
    BY <1>1, <1>2, <1>3, <1>7, <2>3 DEF Clip!Bisect
<1> QED
  BY <1>5, <1>6, <1>7

LEMMA OutcomesAreSized ==
    ASSUME Clip!SizingAssumption, at \in Nat, NEW s \in Clip!Outcomes
    PROVE  s \in Sized
<1>1. CASE s = Clip!Unknown
  BY <1>1 DEF Clip!Unknown, Clip!Sample, Sized
<1>2. ASSUME NEW g \in Gaps, NEW p \in Clip!CloseFills, s = Clip!Known(g, p)
      PROVE  s \in Sized
  <2>1. g \in Int /\ p \in Int
    BY DEF Clip!SizingAssumption, Clip!CloseFills
  <2> QED
    BY <1>2, <2>1 DEF Clip!Known, Clip!Sample, Sized
<1>3. s = Clip!Unknown \/ \E g \in Gaps, p \in Clip!CloseFills : s = Clip!Known(g, p)
  BY DEF Clip!Outcomes
<1> QED
  BY <1>1, <1>2, <1>3

LEMMA RecordSized ==
    ASSUME ClipTyped, NEW s \in Sized, Clip!Record(s)
    PROVE  seen' \subseteq Sized /\ best' \in Sized /\ latest' \in Sized /\ count' \in Nat
<1>1. Clip!Prefer(best, s) \in {best, s}
  BY DEF Clip!Prefer, Clip!PreferNativeSample, Clip!PickBetter
<1> QED
  BY <1>1 DEF Clip!Record, ClipTyped, SamplesSized

LEMMA ClipTypes ==
    ASSUME Clip!SizingAssumption, ClipInv, ClipInv', ClipTyped, [Clip!Next]_(Clip!vars)
    PROVE  ClipTyped'
<1> USE DEF Clip!bracket
<1>0. Bracketed'
  BY DEF ClipInv
<1>1. ASSUME NEW s \in Sized, Clip!FirstSample(s)
      PROVE  ClipTyped'
  <2>0. UNCHANGED <<flavor, closing>>
    BY <1>1 DEF Clip!FirstSample
  <2>1. Clip!NoSample \in Sized
    BY DEF Clip!NoSample, Clip!Sample, Sized
  <2>2. seen' \subseteq Sized /\ best' \in Sized /\ latest' \in Sized /\ count' \in Nat
    BY <1>1, RecordSized DEF Clip!FirstSample
  <2>3. first' \in Sized /\ low' \in Sized /\ high' \in Sized
    BY <1>1, <2>1 DEF Clip!FirstSample
  <2>4. SamplesSized'
    BY <2>2, <2>3 DEF SamplesSized
  <2>5. \/ Clip!Ends(s) \/ Clip!GoUp \/ Clip!GoDown
        \/ UNCHANGED <<at, tries, result>>
    BY <1>1 DEF Clip!FirstSample
  <2>6. Bounded
    BY <1>0, <2>0, <2>4, <2>5, EndsBounded, WaysBounded DEF ClipTyped, Bounded
  <2> QED
    BY <2>0, <2>2, <2>4, <2>6 DEF ClipTyped, Bounded
<1>2. ASSUME NEW s \in Sized, flavor = "native" => s \in Native,
             Clip!CloseSample(s) \/ Clip!UnknownSample(s) \/ Clip!ExpansionSample(s)
             \/ Clip!ContractionSample(s) \/ Clip!BisectionSample(s)
      PROVE  ClipTyped'
  <2>1. Clip!Record(s) /\ UNCHANGED <<flavor, first, closing>>
    BY <1>2 DEF Clip!CloseSample, Clip!UnknownSample, Clip!ExpansionSample, Clip!ContractionSample,
                Clip!BisectionSample
  <2>2. seen' \subseteq Sized /\ best' \in Sized /\ latest' \in Sized /\ count' \in Nat
    BY <2>1, RecordSized
  <2>3. low' \in {low, s} /\ high' \in {high, s}
    BY <1>2 DEF Clip!CloseSample, Clip!UnknownSample, Clip!ExpansionSample, Clip!ContractionSample,
                Clip!BisectionSample, Clip!SideLow, Clip!SideHigh
  <2>4. SamplesSized'
    BY <2>1, <2>2, <2>3 DEF ClipTyped, SamplesSized
  <2>5. Clip!Ends(s) \/ Clip!Settle(s) \/ Clip!Settle(best') \/ Clip!GoUp \/ Clip!GoDown \/ Clip!Bisect
    BY <1>2 DEF Clip!CloseSample, Clip!UnknownSample, Clip!ExpansionSample, Clip!ContractionSample,
                Clip!BisectionSample
  <2>6. Bounded
    BY <1>0, <1>2, <2>1, <2>2, <2>4, <2>5, EndsBounded, SettleBounded, WaysBounded DEF Bracketed
  <2> QED
    BY <2>1, <2>2, <2>4, <2>6 DEF ClipTyped, Bounded
<1>3. ASSUME NEW s \in Sized, Clip!LeastSample(s)
      PROVE  ClipTyped'
  <2>1. SamplesSized' /\ count' \in Nat /\ closing' \in Sized
    BY <1>3 DEF Clip!LeastSample, ClipTyped, SamplesSized
  <2>2. Clip!Ends(s) \/ Clip!Ends(best)
    BY <1>3 DEF Clip!LeastSample
  <2>3. Bounded
    BY <2>2, EndsBounded DEF ClipTyped, SamplesSized
  <2> QED
    BY <2>1, <2>3 DEF ClipTyped, Bounded
<1>4. CASE Clip!QuoteFails
  <2>1. SamplesSized' /\ count' \in Nat /\ best \in Sized /\ closing' \in Sized /\ UNCHANGED <<flavor, best>>
    BY <1>4 DEF Clip!QuoteFails, ClipTyped, SamplesSized
  <2>2. Clip!Ends(best) \/ Clip!Settle(best) \/ UNCHANGED <<at, tries, result>>
    <3>1. flavor \in {"native", "cex"}
      BY DEF ClipInv, Bracketed
    <3> QED
      BY <1>4, <3>1 DEF Clip!QuoteFails
  <2>3. Bounded
    BY <1>0, <2>1, <2>2, EndsBounded, SettleBounded DEF ClipTyped, Bounded, Bracketed
  <2> QED
    BY <2>1, <2>3 DEF ClipTyped, Bounded
<1>5. CASE UNCHANGED Clip!vars
  BY <1>5 DEF Clip!vars, ClipTyped, SamplesSized
<1>6. \A s \in Clip!Outcomes : s \in Sized /\ (flavor = "native" => s \in Native)
  BY OutcomesAreSized, OutcomesAreSamples DEF ClipTyped, ClipInv
<1>7. CASE Clip!BuildLegs
  BY <1>7 DEF Clip!BuildLegs, ClipTyped, SamplesSized
<1> QED
  BY <1>1, <1>2, <1>3, <1>4, <1>5, <1>6, <1>7 DEF Clip!Next

-----------------------------------------------------------------------------
(***************************************************************************)
(* Sums.  A sum over a finite set is unfolded by whichever element is      *)
(* taken first.                                                            *)
(***************************************************************************)
Unfolds(g, F, S) ==
    /\ g \in [SUBSET S -> Int] /\ g[{}] = 0 /\ \A x \in S : F[x] \in Int
    /\ \A s \in SUBSET S : s # {} => \E x \in s : g[s] = F[x] + g[s \ {x}]

SumOver(F, S) == (CHOOSE g : Unfolds(g, F, S))[S]

\* A finite set with an element taken out is smaller.
LEMMA OneLess ==
    ASSUME NEW S, IsFiniteSet(S), NEW s \in SUBSET S, NEW x \in s
    PROVE  /\ IsFiniteSet(s) /\ IsFiniteSet(s \ {x}) /\ Cardinality(s) \in Nat /\ Cardinality(s \ {x}) \in Nat
           /\ Cardinality(s) = Cardinality(s \ {x}) + 1 /\ s \ {x} \in SUBSET S
<1>1. IsFiniteSet(s)
  BY FS_Subset, Zenon
<1>2. IsFiniteSet(s \ {x}) /\ Cardinality(s \ {x}) = Cardinality(s) - 1
  BY <1>1, FS_RemoveElement, Zenon
<1>3. Cardinality(s) \in Nat /\ Cardinality(s \ {x}) \in Nat
  BY <1>1, <1>2, FS_CardinalityType, Zenon
<1> QED
  BY <1>1, <1>2, <1>3

\* What holds of the empty set, and of a set if it holds of it without each of its elements, holds of all.
LEMMA BySize ==
    ASSUME NEW S, IsFiniteSet(S), NEW H, {} \in H,
           \A s \in SUBSET S : s # {} /\ (\A x \in s : s \ {x} \in H) => s \in H
    PROVE  SUBSET S \subseteq H
<1> DEFINE Of(n) == \A s \in SUBSET S : Cardinality(s) = n => s \in H
           N == {n \in Nat : Of(n)}
<1>1. ASSUME NEW s \in SUBSET S
      PROVE  IsFiniteSet(s) /\ Cardinality(s) \in Nat
  <2>1. IsFiniteSet(s)
    BY FS_Subset, Zenon
  <2> QED
    BY <2>1, FS_CardinalityType, Zenon
<1>2. 0 \in N
  <2>1. ASSUME NEW s \in SUBSET S, Cardinality(s) = 0
        PROVE  s \in H
    <3>1. s = {}
      BY <1>1, <2>1, FS_EmptySet, Zenon
    <3> QED
      BY <3>1
  <2>2. Of(0)
    BY <2>1, Zenon
  <2> HIDE DEF Of
  <2> QED
    BY <2>2
<1>3. ASSUME NEW n \in Nat, n \in N
      PROVE  n + 1 \in N
  <2>0. Of(n)
    BY <1>3
  <2>1. ASSUME NEW s \in SUBSET S, Cardinality(s) = n + 1
        PROVE  s \in H
    <3>1. ASSUME NEW x \in s
          PROVE  s \ {x} \in H
      <4> HIDE DEF N, Of
      <4>2. /\ Cardinality(s) = Cardinality(s \ {x}) + 1 /\ Cardinality(s \ {x}) \in Nat
            /\ s \ {x} \in SUBSET S
        BY OneLess, Zenon
      <4>1. Cardinality(s \ {x}) = n /\ s \ {x} \in SUBSET S
        BY <2>1, <4>2
      <4>3. Of(n) => (\A r \in SUBSET S : Cardinality(r) = n => r \in H)
        BY DEF Of
      <4> QED
        BY <2>0, <4>1, <4>3, Zenon
    <3>2. s # {}
      <4>1. Cardinality({}) = 0
        BY FS_EmptySet, Zenon
      <4>2. n + 1 # 0
        OBVIOUS
      <4> QED
        BY <2>1, <4>1, <4>2, Zenon
    <3>3. \A x \in s : s \ {x} \in H
      BY <3>1, Zenon
    <3> HIDE DEF N, Of
    <3> QED
      BY <3>2, <3>3
  <2>2. Of(n + 1)
    BY <2>1, Zenon
  <2> HIDE DEF Of
  <2> QED
    BY <2>2
<1> HIDE DEF N
<1>4. Nat \subseteq N
  BY <1>2, <1>3, Inductively
<1>5. ASSUME NEW s \in SUBSET S
      PROVE  s \in H
  <2>1. Cardinality(s) \in N
    BY <1>1, <1>4
  <2>2. Of(Cardinality(s))
    BY <2>1 DEF N
  <2> QED
    BY <2>2, Zenon
<1> QED
  BY <1>5

\* A sum is there, and unfolds by whatever is picked of each set.
Picks(g, F, pick, S) == g = [s \in SUBSET S |-> IF s = {} THEN 0 ELSE F[pick[s]] + g[s \ {pick[s]}]]

Rises(g, F, pick, S, n) ==
    /\ g \in [SUBSET S -> Int] /\ g[{}] = 0
    /\ \A s \in SUBSET S : s # {} /\ Cardinality(s) <= n => g[s] = F[pick[s]] + g[s \ {pick[s]}]

LEMMA SumRises ==
    ASSUME NEW S, IsFiniteSet(S), NEW F, \A x \in S : F[x] \in Int,
           NEW pick, \A s \in SUBSET S : s # {} => pick[s] \in s,
           NEW n \in Nat, NEW g, Rises(g, F, pick, S, n)
    PROVE  \E more : Rises(more, F, pick, S, n + 1)
<1> DEFINE Last(s) == F[pick[s]] + g[s \ {pick[s]}]
           Value(s) == IF s = {} THEN 0 ELSE IF Cardinality(s) <= n THEN g[s] ELSE Last(s)
           more == [s \in SUBSET S |-> Value(s)]
<1>1. ASSUME NEW s \in SUBSET S, s # {}
      PROVE  /\ s \ {pick[s]} \in SUBSET S /\ F[pick[s]] \in Int
             /\ Cardinality(s) = Cardinality(s \ {pick[s]}) + 1
             /\ Cardinality(s \ {pick[s]}) \in Nat
  <2>1. pick[s] \in s
    BY <1>1
  <2> QED
    BY <2>1, OneLess
<1>2. ASSUME NEW s \in SUBSET S
      PROVE  Value(s) \in Int
  <2>1. g[s] \in Int
    BY DEF Rises
  <2>2. CASE s = {}
    BY <2>2
  <2>3. CASE s # {}
    <3>1. F[pick[s]] \in Int /\ g[s \ {pick[s]}] \in Int
      BY <1>1, <2>3 DEF Rises
    <3> QED
      BY <2>1, <3>1
  <2> QED
    BY <2>2, <2>3
<1>3. {} \in SUBSET S /\ Value({}) = 0
  OBVIOUS
<1>4. \A s \in SUBSET S : more[s] = Value(s)
  <2> HIDE DEF Value
  <2> QED
    OBVIOUS
<1>5. more \in [SUBSET S -> Int]
  <2> HIDE DEF Value
  <2> QED
    BY <1>2
<1> HIDE DEF more
<1>6. ASSUME NEW s \in SUBSET S, s # {}, Cardinality(s) <= n + 1
      PROVE  more[s] = F[pick[s]] + more[s \ {pick[s]}]
  <2> DEFINE r == s \ {pick[s]}
  <2>1. r \in SUBSET S /\ Cardinality(r) <= n
    BY <1>1, <1>6
  <2>2. more[r] = g[r]
    <3>1. CASE r = {}
      BY <1>3, <1>4, <3>1 DEF Rises
    <3>2. CASE r # {}
      BY <1>4, <2>1, <3>2
    <3> QED
      BY <3>1, <3>2
  <2>3. more[s] = F[pick[s]] + g[r]
    <3>1. CASE Cardinality(s) <= n
      BY <1>4, <1>6, <3>1 DEF Rises
    <3>2. CASE ~(Cardinality(s) <= n)
      BY <1>4, <1>6, <3>2
    <3> QED
      BY <3>1, <3>2
  <2> QED
    BY <2>2, <2>3
<1>7. more[{}] = 0
  BY <1>3, <1>4
<1> QED
  BY <1>5, <1>6, <1>7 DEF Rises

LEMMA SumIsThere ==
    ASSUME NEW S, IsFiniteSet(S), NEW F, \A x \in S : F[x] \in Int,
           NEW pick, \A s \in SUBSET S : s # {} => pick[s] \in s
    PROVE  \E g : g \in [SUBSET S -> Int] /\ Picks(g, F, pick, S)
<1> DEFINE N == {n \in Nat : \E g : Rises(g, F, pick, S, n)}
<1>1. ASSUME NEW s \in SUBSET S
      PROVE  /\ IsFiniteSet(s) /\ Cardinality(s) \in Nat /\ Cardinality(s) <= Cardinality(S)
             /\ s # {} => Cardinality(s) # 0
  <2>1. IsFiniteSet(s) /\ Cardinality(s) <= Cardinality(S)
    BY FS_Subset, Zenon
  <2>2. Cardinality(s) \in Nat
    BY <2>1, FS_CardinalityType, Zenon
  <2>3. s # {} => Cardinality(s) # 0
    BY <2>1, FS_EmptySet, Zenon
  <2> QED
    BY <2>1, <2>2, <2>3
<1>2. 0 \in N
  <2> DEFINE g == [s \in SUBSET S |-> 0]
  <2>1. g \in [SUBSET S -> Int] /\ g[{}] = 0
    OBVIOUS
  <2>2. \A s \in SUBSET S : s # {} => ~(Cardinality(s) <= 0)
    BY <1>1
  <2> HIDE DEF g
  <2>3. Rises(g, F, pick, S, 0)
    BY <2>1, <2>2, Zenon DEF Rises
  <2> QED
    BY <2>3
<1>3. ASSUME NEW n \in Nat, n \in N
      PROVE  n + 1 \in N
  <2>1. PICK g : Rises(g, F, pick, S, n)
    BY <1>3
  <2>2. \E g2 : Rises(g2, F, pick, S, n + 1)
    BY <2>1, SumRises, Zenon
  <2> QED
    BY <2>2
<1> HIDE DEF N
<1>4. Nat \subseteq N
  BY <1>2, <1>3, Inductively
<1>5. Cardinality(S) \in N
  BY <1>1, <1>4
<1>6. PICK g : Rises(g, F, pick, S, Cardinality(S))
  BY <1>5 DEF N
<1>7. \A s \in SUBSET S : g[s] = IF s = {} THEN 0 ELSE F[pick[s]] + g[s \ {pick[s]}]
  BY <1>1, <1>6, Zenon DEF Rises
<1>8. g \in [SUBSET S -> Int]
  BY <1>6 DEF Rises
<1> QED
  BY <1>7, <1>8 DEF Picks

\* The order does not matter.
AnyOrder(g, F, S) == \A s \in SUBSET S : \A x \in s : g[s] = F[x] + g[s \ {x}]

LEMMA AnyFirst ==
    ASSUME NEW S, IsFiniteSet(S), NEW F, NEW g, Unfolds(g, F, S)
    PROVE  AnyOrder(g, F, S)
<1> DEFINE Any(s) == \A x \in s : g[s] = F[x] + g[s \ {x}]
           H == {s \in SUBSET S : Any(s)}
<1>1. ASSUME NEW s \in SUBSET S, s # {}, \A x \in s : s \ {x} \in H
      PROVE  Any(s)
  <2>1. PICK y \in s : g[s] = F[y] + g[s \ {y}]
    BY <1>1 DEF Unfolds
  <2>2. ASSUME NEW x \in s, x # y
        PROVE  g[s] = F[x] + g[s \ {x}]
    <3>0. Any(s \ {y}) /\ Any(s \ {x})
      BY <1>1, <2>2
    <3>1. g[s \ {y}] = F[x] + g[(s \ {y}) \ {x}] /\ g[s \ {x}] = F[y] + g[(s \ {x}) \ {y}]
      BY <2>2, <3>0
    <3>2. (s \ {y}) \ {x} = (s \ {x}) \ {y}
      OBVIOUS
    <3>3. /\ g[(s \ {x}) \ {y}] \in Int /\ F[x] \in Int /\ F[y] \in Int
      BY DEF Unfolds
    <3> DEFINE rest == g[(s \ {x}) \ {y}]
    <3>4. g[s] = F[y] + (F[x] + rest) /\ g[s \ {x}] = F[y] + rest
      BY <2>1, <3>1, <3>2
    <3> HIDE DEF H, Any, rest
    <3> QED
      BY <3>3, <3>4 DEF rest
  <2> QED
    BY <2>1, <2>2
<1>2. {} \in H
  OBVIOUS
<1>3. \A s \in SUBSET S : s # {} /\ (\A x \in s : s \ {x} \in H) => s \in H
  <2> HIDE DEF Any
  <2> QED
    BY <1>1
<1> HIDE DEF H
<1>4. SUBSET S \subseteq H
  BY <1>2, <1>3, BySize
<1>5. ASSUME NEW s \in SUBSET S
      PROVE  Any(s)
  BY <1>4 DEF H
<1> QED
  BY <1>5, Zenon DEF AnyOrder

\* The sum over nothing, and with an element taken first.
LEMMA SumUnfolds ==
    ASSUME NEW S, IsFiniteSet(S), NEW F, \A x \in S : F[x] \in Int
    PROVE  \E g : Unfolds(g, F, S) /\ SumOver(F, S) = g[S]
<1> DEFINE pick == [s \in SUBSET S |-> CHOOSE x \in s : TRUE]
<1>1. \A s \in SUBSET S : s # {} => pick[s] \in s
  OBVIOUS
<1> HIDE DEF pick
<1>2. PICK g : g \in [SUBSET S -> Int] /\ Picks(g, F, pick, S)
  BY <1>1, SumIsThere
<1>3. \A s \in SUBSET S : g[s] = IF s = {} THEN 0 ELSE F[pick[s]] + g[s \ {pick[s]}]
  BY <1>2, Zenon DEF Picks
<1>4. Unfolds(g, F, S)
  <2>1. g[{}] = 0
    BY <1>3
  <2>2. \A s \in SUBSET S : s # {} => \E x \in s : g[s] = F[x] + g[s \ {x}]
    BY <1>1, <1>3
  <2> QED
    BY <1>2, <2>1, <2>2 DEF Unfolds
<1>5. Unfolds(CHOOSE g2 : Unfolds(g2, F, S), F, S)
  BY <1>4
<1> QED
  BY <1>5 DEF SumOver

\* Two that unfold sums of the same are the same.
LEMMA OneSum ==
    ASSUME NEW S, IsFiniteSet(S), NEW F, NEW G, \A x \in S : F[x] \in Int /\ F[x] = G[x],
           NEW f, Unfolds(f, F, S), NEW g, Unfolds(g, G, S)
    PROVE  \A s \in SUBSET S : f[s] = g[s]
<1> DEFINE H == {s \in SUBSET S : f[s] = g[s]}
<1>1. {} \in H
  BY DEF Unfolds
<1>2. ASSUME NEW s \in SUBSET S, s # {}, \A x \in s : s \ {x} \in H
      PROVE  s \in H
  <2>1. PICK x \in s : f[s] = F[x] + f[s \ {x}]
    BY <1>2 DEF Unfolds
  <2>2. \A y \in S : G[y] \in Int
    OBVIOUS
  <2>3. \A r \in SUBSET S : \A y \in r : g[r] = G[y] + g[r \ {y}]
    <3>1. AnyOrder(g, G, S)
      BY AnyFirst
    <3> QED
      BY <3>1 DEF AnyOrder
  <2>4. s \ {x} \in H
    BY <1>2
  <2>5. f[s \ {x}] = g[s \ {x}]
    BY <2>4
  <2> QED
    BY <2>1, <2>3, <2>5
<1> HIDE DEF H
<1>3. SUBSET S \subseteq H
  BY <1>1, <1>2, BySize
<1> QED
  BY <1>3 DEF H

LEMMA SumOfNone == ASSUME NEW F PROVE SumOver(F, {}) = 0
<1>1. IsFiniteSet({})
  BY FS_EmptySet, Zenon
<1>2. \E g : Unfolds(g, F, {}) /\ SumOver(F, {}) = g[{}]
  BY <1>1, SumUnfolds
<1> QED
  BY <1>2 DEF Unfolds

LEMMA SumWithout ==
    ASSUME NEW S, IsFiniteSet(S), NEW F, \A x \in S : F[x] \in Int, NEW x \in S
    PROVE  SumOver(F, S) = F[x] + SumOver(F, S \ {x}) /\ SumOver(F, S) \in Int /\ SumOver(F, S \ {x}) \in Int
<1> DEFINE T == S \ {x}
<1>1. PICK g : Unfolds(g, F, S) /\ SumOver(F, S) = g[S]
  BY SumUnfolds
<1>2. IsFiniteSet(T) /\ T \in SUBSET S
  BY FS_Subset, Zenon
<1>3. PICK t : Unfolds(t, F, T) /\ SumOver(F, T) = t[T]
  BY <1>2, SumUnfolds
<1> DEFINE r == [s \in SUBSET T |-> g[s]]
<1>4. Unfolds(r, F, T)
  <2>1. ASSUME NEW s \in SUBSET T, s # {}
        PROVE  \E y \in s : r[s] = F[y] + r[s \ {y}]
    <3>1. PICK y \in s : g[s] = F[y] + g[s \ {y}]
      BY <1>1, <2>1 DEF Unfolds
    <3>2. s \ {y} \in SUBSET T /\ r[s] = g[s] /\ r[s \ {y}] = g[s \ {y}]
      OBVIOUS
    <3> QED
      BY <3>1, <3>2
  <2>2. r \in [SUBSET T -> Int] /\ r[{}] = 0
    BY <1>1 DEF Unfolds
  <2> HIDE DEF r
  <2> QED
    BY <2>1, <2>2 DEF Unfolds
<1>5. r[T] = t[T]
  <2> HIDE DEF r
  <2>1. \A y \in T : F[y] \in Int /\ F[y] = F[y]
    BY <1>2
  <2>2. \A s \in SUBSET T : r[s] = t[s]
    BY <1>2, <1>3, <1>4, <2>1, OneSum
  <2> QED
    BY <2>2
<1>6. g[S] = F[x] + g[T]
  BY <1>1, AnyFirst DEF AnyOrder
<1>7. g[S] \in Int /\ g[T] \in Int
  BY <1>1 DEF Unfolds
<1> QED
  BY <1>1, <1>3, <1>5, <1>6, <1>7

LEMMA SumIsInt ==
    ASSUME NEW S, IsFiniteSet(S), NEW F, \A x \in S : F[x] \in Int
    PROVE  SumOver(F, S) \in Int
<1>1. PICK g : Unfolds(g, F, S) /\ SumOver(F, S) = g[S]
  BY SumUnfolds
<1> QED
  BY <1>1 DEF Unfolds

\* Sums of the same are the same.
LEMMA SumsAgree ==
    ASSUME NEW S, IsFiniteSet(S), NEW F, NEW G, \A x \in S : F[x] \in Int /\ G[x] = F[x]
    PROVE  SumOver(G, S) = SumOver(F, S)
<1>1. PICK f : Unfolds(f, F, S) /\ SumOver(F, S) = f[S]
  BY SumUnfolds
<1>2. PICK g : Unfolds(g, G, S) /\ SumOver(G, S) = g[S]
  BY SumUnfolds
<1>3. \A x \in S : F[x] \in Int /\ F[x] = G[x]
  OBVIOUS
<1>4. \A s \in SUBSET S : f[s] = g[s]
  BY <1>1, <1>2, <1>3, OneSum
<1> QED
  BY <1>1, <1>2, <1>4

\* Sums are linear.
LEMMA SumsAdd ==
    ASSUME NEW S, IsFiniteSet(S), NEW F, NEW G, NEW k \in Int, NEW E,
           \A x \in S : F[x] \in Int /\ G[x] \in Int /\ E[x] = F[x] + k * G[x]
    PROVE  SumOver(E, S) = SumOver(F, S) + k * SumOver(G, S)
<1> DEFINE Add(s) == SumOver(E, s) = SumOver(F, s) + k * SumOver(G, s)
           H == {s \in SUBSET S : Add(s)}
<1>1. Add({})
  BY SumOfNone
<1>2. ASSUME NEW s \in SUBSET S, s # {}, \A x \in s : s \ {x} \in H
      PROVE  Add(s)
  <2>1. PICK x \in s : TRUE
    BY <1>2
  <2> DEFINE r == s \ {x}
  <2>2. Add(r)
    BY <1>2, <2>1
  <2>3. IsFiniteSet(s) /\ \A y \in s : F[y] \in Int /\ G[y] \in Int /\ E[y] \in Int
    <3>1. IsFiniteSet(s)
      BY FS_Subset, Zenon
    <3> QED
      BY <3>1
  <2>4. /\ SumOver(F, s) = F[x] + SumOver(F, r) /\ SumOver(F, r) \in Int
        /\ SumOver(G, s) = G[x] + SumOver(G, r) /\ SumOver(G, r) \in Int
        /\ SumOver(E, s) = E[x] + SumOver(E, r)
    BY <2>1, <2>3, SumWithout
  <2>5. E[x] = F[x] + k * G[x] /\ F[x] \in Int /\ G[x] \in Int
    BY <2>1
  <2> HIDE DEF H, r
  <2> QED
    BY <2>2, <2>4, <2>5
<1>3. {} \in H /\ \A s \in SUBSET S : s # {} /\ (\A x \in s : s \ {x} \in H) => s \in H
  <2> HIDE DEF Add
  <2> QED
    BY <1>1, <1>2
<1> HIDE DEF H
<1>4. SUBSET S \subseteq H
  BY <1>3, BySize
<1>5. S \in H
  BY <1>4
<1> QED
  BY <1>5 DEF H

\* The sum of what is 0 everywhere.
LEMMA SumOfZeros ==
    ASSUME NEW S, IsFiniteSet(S), NEW F, \A x \in S : F[x] = 0
    PROVE  SumOver(F, S) = 0
<1>1. \A x \in S : F[x] \in Int /\ F[x] \in Int /\ F[x] = F[x] + 1 * F[x]
  OBVIOUS
<1>2. SumOver(F, S) = SumOver(F, S) + 1 * SumOver(F, S)
  BY <1>1, SumsAdd
<1> QED
  BY <1>1, <1>2, SumIsInt

\* A fold of the library is such a sum.
FoldsUp(g, F, S) ==
    g = [s \in SUBSET S |-> IF s = {} THEN 0 ELSE F[CHOOSE x \in s : TRUE] + g[s \ {CHOOSE x \in s : TRUE}]]

LEMMA FoldIsThere ==
    ASSUME NEW S, IsFiniteSet(S), NEW F, \A x \in S : F[x] \in Int
    PROVE  \E g : FoldsUp(g, F, S)
<1> DEFINE pick == [s \in SUBSET S |-> CHOOSE x \in s : TRUE]
<1>1. \A s \in SUBSET S : s # {} => pick[s] \in s
  OBVIOUS
<1>2. \A s \in SUBSET S : pick[s] = CHOOSE x \in s : TRUE
  OBVIOUS
<1> HIDE DEF pick
<1>3. PICK g : g \in [SUBSET S -> Int] /\ Picks(g, F, pick, S)
  BY <1>1, SumIsThere
<1>4. g = [s \in SUBSET S |-> IF s = {} THEN 0 ELSE F[CHOOSE x \in s : TRUE] + g[s \ {CHOOSE x \in s : TRUE}]]
  BY <1>2, <1>3 DEF Picks
<1> QED
  BY <1>4 DEF FoldsUp

LEMMA FoldIsSum ==
    ASSUME NEW S, IsFiniteSet(S), NEW F, \A x \in S : F[x] \in Int, NEW g, FoldsUp(g, F, S)
    PROVE  g[S] = SumOver(F, S)
<1>1. PICK f : Unfolds(f, F, S) /\ SumOver(F, S) = f[S]
  BY SumUnfolds
<1> DEFINE H == {s \in SUBSET S : g[s] = f[s]}
<1>2. {} \in H
  <2>1. g[{}] = 0
    BY DEF FoldsUp
  <2> QED
    BY <1>1, <2>1 DEF Unfolds
<1>3. ASSUME NEW s \in SUBSET S, s # {}, \A x \in s : s \ {x} \in H
      PROVE  s \in H
  <2> DEFINE x == CHOOSE y \in s : TRUE
  <2>1. x \in s
    BY <1>3
  <2>2. g[s] = F[x] + g[s \ {x}]
    BY <1>3 DEF FoldsUp
  <2> HIDE DEF x
  <2>3. f[s] = F[x] + f[s \ {x}]
    BY <1>1, <2>1, AnyFirst DEF AnyOrder
  <2>4. g[s \ {x}] = f[s \ {x}]
    BY <1>3, <2>1
  <2> QED
    BY <2>2, <2>3, <2>4
<1> HIDE DEF H
<1>4. SUBSET S \subseteq H
  BY <1>2, <1>3, BySize
<1>5. g[S] = f[S]
  BY <1>4 DEF H
<1> QED
  BY <1>1, <1>5

-----------------------------------------------------------------------------
(***************************************************************************)
(* The way from one price to another through the positions of a pool.      *)
(* After every round the liquidity is that of the positions around the     *)
(* price, what was moved is what they hold more and less than in the       *)
(* beginning, and the ticks ahead are those above the price; as there is   *)
(* one less of them after every round that does not end at the goal, the   *)
(* last of the rounds does.                                                *)
(***************************************************************************)
\* Positions as the case of the property has them.
IsPositions(ps) ==
    /\ ps \in Seq([lower : L!TickRange, upper : L!TickRange, liquidity : Nat])
    /\ \A i \in DOMAIN ps : ps[i].lower < ps[i].upper

\* What a position changes at a tick.
Change(p, tick) == IF p.lower = tick THEN p.liquidity ELSE IF p.upper = tick THEN -p.liquidity ELSE 0

Changes(ps, tick) == [i \in DOMAIN ps |-> Change(ps[i], tick)]

LEMMA PositionFacts ==
    ASSUME NEW ps, IsPositions(ps)
    PROVE  /\ IsFiniteSet(DOMAIN ps)
           /\ \A i \in DOMAIN ps : /\ ps[i].lower \in L!TickRange /\ ps[i].upper \in L!TickRange
                                   /\ ps[i].liquidity \in Nat /\ ps[i].lower < ps[i].upper
<1>1. DOMAIN ps = 1..Len(ps) /\ Len(ps) \in Nat
  BY DEF IsPositions
<1>2. IsFiniteSet(1..Len(ps))
  <2>1. 1 \in Int /\ Len(ps) \in Int
    BY <1>1
  <2> QED
    BY <2>1, FS_Interval, Zenon
<1>3. ASSUME NEW i \in DOMAIN ps
      PROVE  ps[i] \in [lower : L!TickRange, upper : L!TickRange, liquidity : Nat]
  <2> DEFINE R == [lower : L!TickRange, upper : L!TickRange, liquidity : Nat]
  <2>1. ps \in Seq(R)
    BY DEF IsPositions
  <2> HIDE DEF R
  <2>2. ps[i] \in R
    BY <2>1
  <2> QED
    BY <2>2 DEF R
<1> QED
  BY <1>1, <1>2, <1>3 DEF IsPositions

LEMMA NetIsSum ==
    ASSUME NEW ps, IsPositions(ps), NEW tick
    PROVE  L!NetAt(ps, tick) = SumOver(Changes(ps, tick), DOMAIN ps)
<1> DEFINE S == DOMAIN ps
           F == Changes(ps, tick)
           net(i) == IF ps[i].lower = tick THEN ps[i].liquidity ELSE IF ps[i].upper = tick THEN -ps[i].liquidity ELSE 0
           Body(h) == [s \in SUBSET S |-> IF s = {} THEN 0
                                          ELSE net(CHOOSE x \in s : TRUE) + h[s \ {CHOOSE x \in s : TRUE}]]
           g == CHOOSE h : h = Body(h)
<1>1. L!NetAt(ps, tick) = g[S]
  BY DEF L!NetAt, L!MapThenSumSet, L!MapThenFoldSet
<1>2. IsFiniteSet(S) /\ \A x \in S : F[x] = net(x) /\ F[x] \in Int
  BY PositionFacts DEF Changes, Change
<1>3. ASSUME NEW h
      PROVE  (h = Body(h)) <=> FoldsUp(h, F, S)
  <2> HIDE DEF net, F, S
  <2> QED
    BY <1>2 DEF FoldsUp
<1> HIDE DEF Body, F, S
<1>4. \E h : h = Body(h)
  BY <1>2, <1>3, FoldIsThere
<1>5. g = Body(g)
  BY <1>4
<1> HIDE DEF g
<1>6. FoldsUp(g, F, S)
  BY <1>3, <1>5
<1> QED
  BY <1>1, <1>2, <1>6, FoldIsSum DEF F, S

\* The grid: whole ticks from a least to a largest, whose roots rise.
LEMMA GridFacts ==
    /\ L!TickRange \subseteq Int /\ L!MinTick \in L!TickRange /\ L!MaxTick \in L!TickRange
    /\ \A t \in L!TickRange : /\ L!MinTick <= t /\ t <= L!MaxTick /\ L!SqrtAt(t) \in Nat /\ L!SqrtAt(t) > 0
                              /\ t # L!MaxTick => t + 1 \in L!TickRange
    /\ \A t, u \in L!TickRange : t < u => L!SqrtAt(t) < L!SqrtAt(u)
<1>1. L!GridAssumption
  BY MarketAssumption DEF MarketAssumption
<1>2. /\ L!MinTick \in Int /\ L!MaxTick \in Int /\ L!MinTick < L!MaxTick
      /\ L!TickRange = L!MinTick..L!MaxTick
  BY <1>1 DEF L!GridAssumption
<1>3. \A t \in L!TickRange : L!SqrtAt(t) \in Nat /\ L!SqrtAt(t) # 0
  BY <1>1 DEF L!GridAssumption, L!SqrtAt
<1> QED
  BY <1>1, <1>2, <1>3 DEF L!GridAssumption

LEMMA SqrtsRise ==
    ASSUME NEW t \in L!TickRange, NEW u \in L!TickRange
    PROVE  /\ L!SqrtAt(t) <= L!SqrtAt(u) <=> t <= u
           /\ L!SqrtAt(t) < L!SqrtAt(u) <=> t < u
BY GridFacts

LEMMA TickIs ==
    ASSUME NEW t \in L!TickRange
    PROVE  /\ t \in Int /\ L!SqrtAt(t) \in Nat /\ L!SqrtAt(t) > 0
           /\ L!SqrtAt(L!MinTick) <= L!SqrtAt(t) /\ L!SqrtAt(t) <= L!SqrtAt(L!MaxTick)
<1>1. t \in Int /\ L!SqrtAt(t) \in Nat /\ L!SqrtAt(t) > 0
  BY GridFacts
<1>2. L!MinTick \in L!TickRange /\ L!MaxTick \in L!TickRange /\ L!MinTick <= t /\ t <= L!MaxTick
  BY GridFacts
<1>3. /\ L!SqrtAt(L!MinTick) <= L!SqrtAt(t) <=> L!MinTick <= t
      /\ L!SqrtAt(t) <= L!SqrtAt(L!MaxTick) <=> t <= L!MaxTick
  BY <1>2, SqrtsRise
<1> QED
  BY <1>1, <1>2, <1>3

\* The least and the largest of some ticks.
LEMMA LeastOfTicks ==
    ASSUME NEW S, S \subseteq L!TickRange, S # {}
    PROVE  L!Min(S) \in S /\ \A t \in S : L!Min(S) <= t
<1> DEFINE m == L!MinTick
           T == {t - m : t \in S}
<1>0. m \in Int /\ \A t \in S : t \in Int /\ m <= t
  BY GridFacts
<1> HIDE DEF m
<1>1. T # {} /\ T \subseteq Nat
  BY <1>0
<1>2. PICK n \in T : \A k \in T : n <= k
  BY <1>1, LeastOfSome
<1>3. PICK x \in S : n = x - m
  BY <1>2
<1>4. ASSUME NEW t \in S
      PROVE  x <= t
  <2>1. t - m \in T
    OBVIOUS
  <2>2. x - m <= t - m
    BY <1>2, <1>3, <2>1
  <2> QED
    BY <1>0, <2>2
<1> QED
  BY <1>4 DEF L!Min

LEMMA LargestOfTicks ==
    ASSUME NEW S, S \subseteq L!TickRange, S # {}
    PROVE  L!Max(S) \in S /\ \A t \in S : t <= L!Max(S)
<1> DEFINE T == {L!MaxTick - t : t \in S}
<1>0. \A t \in S : t \in Int /\ L!MaxTick \in Int /\ t <= L!MaxTick
  BY GridFacts
<1>1. T # {} /\ T \subseteq Nat
  BY <1>0
<1>2. PICK n \in T : \A k \in T : n <= k
  BY <1>1, LeastOfSome
<1>3. PICK x \in S : n = L!MaxTick - x
  BY <1>2
<1>4. \A t \in S : x >= t
  BY <1>0, <1>2, <1>3
<1>5. L!Max(S) \in S /\ \A t \in S : L!Max(S) >= t
  BY <1>4 DEF L!Max
<1> QED
  BY <1>0, <1>5

\* The tick of a price: the last that is not above it.
LEMMA TickIsLast ==
    ASSUME NEW sqrt \in Nat, L!SqrtAt(L!MinTick) <= sqrt
    PROVE  /\ L!TickAt(sqrt) \in L!TickRange
           /\ \A t \in L!TickRange : L!SqrtAt(t) <= sqrt <=> t <= L!TickAt(sqrt)
<1> DEFINE S == {t \in L!TickRange : L!SqrtAt(t) <= sqrt}
<1>1. S \subseteq L!TickRange /\ S # {}
  BY GridFacts
<1>2. L!TickAt(sqrt) \in S /\ \A t \in S : t <= L!TickAt(sqrt)
  <2>1. L!TickAt(sqrt) = L!Max(S)
    BY DEF L!TickAt
  <2> HIDE DEF S
  <2> QED
    BY <1>1, <2>1, LargestOfTicks
<1> DEFINE c == L!TickAt(sqrt)
<1> HIDE DEF c
<1>3. c \in L!TickRange /\ L!SqrtAt(c) <= sqrt
  BY <1>2 DEF c
<1>4. ASSUME NEW t \in L!TickRange
      PROVE  L!SqrtAt(t) <= sqrt <=> t <= c
  <2>1. CASE t \in S
    BY <1>2, <2>1 DEF c
  <2>2. CASE t \notin S
    <3>1. ~(L!SqrtAt(t) <= sqrt) /\ L!SqrtAt(t) \in Nat /\ L!SqrtAt(c) \in Nat
      BY <1>3, <2>2, GridFacts
    <3>2. L!SqrtAt(t) <= L!SqrtAt(c) <=> t <= c
      BY <1>3, SqrtsRise
    <3> QED
      BY <1>3, <3>1, <3>2
  <2> QED
    BY <2>1, <2>2
<1> QED
  BY <1>3, <1>4 DEF c

\* What the positions change at some of the ticks: what begins at one of them, without what ends at one.
ChangeIn(p, B) == (IF p.lower \in B THEN p.liquidity ELSE 0) - (IF p.upper \in B THEN p.liquidity ELSE 0)

ChangesIn(ps, B) == [i \in DOMAIN ps |-> ChangeIn(ps[i], B)]

Nets(ps, T) == [t \in T |-> L!NetAt(ps, t)]

LEMMA ChangesAreInts ==
    ASSUME NEW ps, IsPositions(ps), NEW i \in DOMAIN ps, NEW B, NEW t
    PROVE  /\ Changes(ps, t)[i] \in Int /\ ChangesIn(ps, B)[i] \in Int
           /\ t \in B => ChangesIn(ps, B)[i] = ChangesIn(ps, B \ {t})[i] + 1 * Changes(ps, t)[i]
<1> DEFINE p == ps[i]
<1>1. p.liquidity \in Nat /\ p.lower # p.upper
  <2>1. p.liquidity \in Nat /\ p.lower \in L!TickRange /\ p.upper \in L!TickRange /\ p.lower < p.upper
    BY PositionFacts, Zenon
  <2>2. p.lower \in Int /\ p.upper \in Int
    BY <2>1, GridFacts
  <2> HIDE DEF p
  <2> QED
    BY <2>1, <2>2
<1> DEFINE C == B \ {t}
<1>2. Changes(ps, t)[i] = Change(p, t) /\ ChangesIn(ps, B)[i] = ChangeIn(p, B) /\ ChangesIn(ps, C)[i] = ChangeIn(p, C)
  BY DEF Changes, ChangesIn
<1>3. /\ p.lower \in C <=> p.lower \in B /\ p.lower # t
      /\ p.upper \in C <=> p.upper \in B /\ p.upper # t
  OBVIOUS
<1> HIDE DEF p, C
<1>4. Change(p, t) \in Int /\ ChangeIn(p, B) \in Int
  BY <1>1 DEF Change, ChangeIn
<1>5. t \in B => ChangeIn(p, B) = ChangeIn(p, C) + Change(p, t)
  BY <1>1, <1>3 DEF Change, ChangeIn
<1> QED
  BY <1>2, <1>4, <1>5 DEF C

LEMMA NetIsInt ==
    ASSUME NEW ps, IsPositions(ps), NEW t
    PROVE  L!NetAt(ps, t) \in Int
<1>1. IsFiniteSet(DOMAIN ps) /\ \A i \in DOMAIN ps : Changes(ps, t)[i] \in Int
  BY PositionFacts, ChangesAreInts
<1>2. SumOver(Changes(ps, t), DOMAIN ps) \in Int
  BY <1>1, SumIsInt
<1> QED
  BY <1>2, NetIsSum

\* Tick by tick or position by position, the sum is the same.
LEMMA NetsAreChanges ==
    ASSUME NEW ps, IsPositions(ps), NEW T, IsFiniteSet(T)
    PROVE  SumOver(Nets(ps, T), T) = SumOver(ChangesIn(ps, T), DOMAIN ps)
<1> DEFINE S == DOMAIN ps
           N == Nets(ps, T)
           Same(B) == SumOver(N, B) = SumOver(ChangesIn(ps, B), S)
           H == {B \in SUBSET T : Same(B)}
<1>0. IsFiniteSet(S)
  BY PositionFacts
<1>1. Same({})
  <2>1. \A i \in S : ChangesIn(ps, {})[i] = 0
    BY DEF ChangesIn, ChangeIn
  <2> QED
    BY <1>0, <2>1, SumOfNone, SumOfZeros
<1>2. ASSUME NEW B \in SUBSET T, B # {}, \A t \in B : B \ {t} \in H
      PROVE  Same(B)
  <2>1. PICK t \in B : TRUE
    BY <1>2
  <2> DEFINE C == B \ {t}
             F == ChangesIn(ps, C)
             G == Changes(ps, t)
             E == ChangesIn(ps, B)
  <2>2. SumOver(N, C) = SumOver(F, S)
    BY <1>2, <2>1
  <2>3. IsFiniteSet(B) /\ \A x \in B : N[x] \in Int /\ N[x] = L!NetAt(ps, x)
    <3>1. IsFiniteSet(B)
      BY FS_Subset, Zenon
    <3> QED
      BY <3>1, NetIsInt DEF Nets
  <2>4. SumOver(N, B) = L!NetAt(ps, t) + SumOver(N, C)
    BY <2>1, <2>3, SumWithout
  <2>5. \A i \in S : F[i] \in Int /\ G[i] \in Int /\ E[i] = F[i] + 1 * G[i]
    BY <2>1, ChangesAreInts
  <2> HIDE DEF E, F, G, C, N, S
  <2>6. SumOver(E, S) = SumOver(F, S) + 1 * SumOver(G, S)
    BY <1>0, <2>5, SumsAdd
  <2>7. L!NetAt(ps, t) = SumOver(G, S)
    BY NetIsSum DEF G, S
  <2>8. SumOver(F, S) \in Int /\ SumOver(G, S) \in Int
    BY <1>0, <2>5, SumIsInt
  <2> QED
    BY <2>2, <2>4, <2>6, <2>7, <2>8 DEF E
<1>3. {} \in H /\ \A s \in SUBSET T : s # {} /\ (\A x \in s : s \ {x} \in H) => s \in H
  <2> HIDE DEF Same
  <2> QED
    BY <1>1, <1>2
<1> HIDE DEF H
<1>4. SUBSET T \subseteq H
  BY <1>3, BySize
<1>5. T \in H
  BY <1>4
<1> QED
  BY <1>5 DEF H

LEMMA BoundaryFacts ==
    ASSUME NEW ps, IsPositions(ps)
    PROVE  /\ IsFiniteSet(L!Boundaries(ps)) /\ L!Boundaries(ps) \subseteq L!TickRange
           /\ \A i \in DOMAIN ps : ps[i].lower \in L!Boundaries(ps) /\ ps[i].upper \in L!Boundaries(ps)
<1>1. L!Boundaries(ps) \subseteq L!TickRange
  BY PositionFacts DEF L!Boundaries
<1>2. IsFiniteSet(L!TickRange)
  <2>1. L!MinTick \in Int /\ L!MaxTick \in Int /\ L!TickRange = L!MinTick..L!MaxTick
    BY MarketAssumption DEF MarketAssumption, L!GridAssumption
  <2> QED
    BY <2>1, FS_Interval, Zenon
<1>3. IsFiniteSet(L!Boundaries(ps))
  BY <1>1, <1>2, FS_Subset, Zenon
<1> QED
  BY <1>1, <1>3 DEF L!Boundaries

\* The liquidity that is active at a tick: of the positions around it.
Active(p, c) == IF p.lower <= c /\ c < p.upper THEN p.liquidity ELSE 0

Actives(ps, c) == [i \in DOMAIN ps |-> Active(ps[i], c)]

LEMMA ActiveIsOfThoseAround ==
    ASSUME NEW ps, IsPositions(ps), NEW c \in Int
    PROVE  L!ActiveLiquidity(ps, c) = SumOver(Actives(ps, c), DOMAIN ps)
<1> DEFINE T == {t \in L!Boundaries(ps) : t <= c}
           F == Nets(ps, T)
           net(t) == L!NetAt(ps, t)
           Body(h) == [s \in SUBSET T |-> IF s = {} THEN 0
                                          ELSE net(CHOOSE x \in s : TRUE) + h[s \ {CHOOSE x \in s : TRUE}]]
           g == CHOOSE h : h = Body(h)
<1>1. L!ActiveLiquidity(ps, c) = g[T]
  BY DEF L!ActiveLiquidity, L!MapThenSumSet, L!MapThenFoldSet
<1>2. IsFiniteSet(T) /\ \A x \in T : F[x] = net(x) /\ F[x] \in Int
  <2>1. IsFiniteSet(T)
    BY BoundaryFacts, FS_Subset, Zenon
  <2> QED
    BY <2>1, NetIsInt DEF Nets
<1>3. ASSUME NEW h
      PROVE  (h = Body(h)) <=> FoldsUp(h, F, T)
  <2> HIDE DEF net, F, T
  <2> QED
    BY <1>2 DEF FoldsUp
<1> HIDE DEF Body, F, T
<1>4. \E h : h = Body(h)
  BY <1>2, <1>3, FoldIsThere
<1>5. g = Body(g)
  BY <1>4
<1> HIDE DEF g
<1>6. FoldsUp(g, F, T)
  BY <1>3, <1>5
<1>7. g[T] = SumOver(F, T)
  BY <1>2, <1>6, FoldIsSum
<1>8. SumOver(F, T) = SumOver(ChangesIn(ps, T), DOMAIN ps)
  BY <1>2, NetsAreChanges DEF F
<1>9. \A i \in DOMAIN ps : ChangesIn(ps, T)[i] \in Int /\ Actives(ps, c)[i] = ChangesIn(ps, T)[i]
  <2>1. ASSUME NEW i \in DOMAIN ps
        PROVE  Actives(ps, c)[i] = ChangesIn(ps, T)[i]
    <3> DEFINE p == ps[i]
    <3>1. p.liquidity \in Nat /\ p.lower \in Int /\ p.upper \in Int /\ p.lower < p.upper
      BY PositionFacts, GridFacts
    <3>2. p.lower \in T <=> p.lower <= c
      BY BoundaryFacts DEF T
    <3>3. p.upper \in T <=> p.upper <= c
      BY BoundaryFacts DEF T
    <3>4. Actives(ps, c)[i] = Active(p, c) /\ ChangesIn(ps, T)[i] = ChangeIn(p, T)
      BY DEF Actives, ChangesIn
    <3> HIDE DEF p
    <3> QED
      BY <3>1, <3>2, <3>3, <3>4 DEF Active, ChangeIn
  <2> QED
    BY <2>1, ChangesAreInts
<1>10. SumOver(Actives(ps, c), DOMAIN ps) = SumOver(ChangesIn(ps, T), DOMAIN ps)
  BY <1>9, PositionFacts, SumsAgree
<1> QED
  BY <1>1, <1>7, <1>8, <1>10

\* The liquidity of a position that is around a price, and what positions hold more than at another.
InAt(p, x) == IF L!SqrtAt(p.lower) <= x /\ x < L!SqrtAt(p.upper) THEN p.liquidity ELSE 0

Ins(ps, x) == [i \in DOMAIN ps |-> InAt(ps[i], x)]

More(ps, from, x, k) == [i \in DOMAIN ps |-> L!PositionAmounts(ps[i], x)[k] - L!PositionAmounts(ps[i], from)[k]]

IsPosition(p) ==
    /\ p.lower \in L!TickRange /\ p.upper \in L!TickRange /\ p.lower < p.upper /\ p.liquidity \in Nat

LEMMA PartsOfScale ==
    ASSUME NEW x \in Nat, x > 0
    PROVE  L!Scale \div x \in Int
BY DEF L!Scale

LEMMA AmountsAreInts ==
    ASSUME NEW p, IsPosition(p), NEW x \in Nat, x > 0
    PROVE  L!PositionAmounts(p, x)[1] \in Int /\ L!PositionAmounts(p, x)[2] \in Int
<1> DEFINE l == L!SqrtAt(p.lower)
           u == L!SqrtAt(p.upper)
           z == IF x < l THEN l ELSE IF x > u THEN u ELSE x
<1>1. l \in Nat /\ u \in Nat /\ l > 0 /\ u > 0 /\ p.liquidity \in Nat
  BY GridFacts DEF IsPosition
<1>2. L!PositionAmounts(p, x) = <<p.liquidity * (L!Scale \div z - L!Scale \div u), p.liquidity * (z - l)>>
  BY DEF L!PositionAmounts
<1> HIDE DEF l, u
<1>3. z \in Nat /\ z > 0
  BY <1>1
<1> HIDE DEF z
<1>4. L!Scale \div z \in Int /\ L!Scale \div u \in Int
  BY <1>1, <1>3, PartsOfScale
<1> DEFINE a == L!Scale \div z
           b == L!Scale \div u
<1> HIDE DEF a, b
<1>5. p.liquidity * (a - b) \in Int /\ p.liquidity * (z - l) \in Int
  BY <1>1, <1>3, <1>4 DEF a, b
<1> QED
  BY <1>2, <1>5 DEF a, b

\* Between two prices with no end of a position's range between them, it moves what the pool would with
\* the liquidity it has there.
LEMMA BetweenBoundaries ==
    ASSUME NEW p, IsPosition(p), NEW x \in Nat, x > 0, NEW y \in Nat, x < y,
           ~(x < L!SqrtAt(p.lower) /\ L!SqrtAt(p.lower) < y), ~(x < L!SqrtAt(p.upper) /\ L!SqrtAt(p.upper) < y)
    PROVE  /\ L!PositionAmounts(p, y)[1] - L!PositionAmounts(p, x)[1] = InAt(p, x) * (L!Scale \div y - L!Scale \div x)
           /\ L!PositionAmounts(p, y)[2] - L!PositionAmounts(p, x)[2] = InAt(p, x) * (y - x)
<1> DEFINE l == L!SqrtAt(p.lower)
           u == L!SqrtAt(p.upper)
           k == p.liquidity
           In(z) == IF z < l THEN l ELSE IF z > u THEN u ELSE z
           part0(z) == L!Scale \div z
           v == In(x)
           w == In(y)
<1>1. l \in Nat /\ u \in Nat /\ l > 0 /\ u > 0 /\ l < u /\ k \in Nat
  BY GridFacts DEF IsPosition
<1>2. /\ L!PositionAmounts(p, x) = <<k * (part0(v) - part0(u)), k * (v - l)>>
      /\ L!PositionAmounts(p, y) = <<k * (part0(w) - part0(u)), k * (w - l)>>
  BY DEF L!PositionAmounts
<1>3. InAt(p, x) = IF l <= x /\ x < u THEN k ELSE 0
  BY DEF InAt
<1>4. ~(x < l /\ l < y) /\ ~(x < u /\ u < y)
  OBVIOUS
<1> HIDE DEF l, u, k
<1>5. v \in Nat /\ w \in Nat /\ v > 0 /\ w > 0
  BY <1>1
<1>6. \/ l <= x /\ x < u /\ v = x /\ w = y
      \/ ~(l <= x /\ x < u) /\ v = w
  BY <1>1, <1>4
<1> HIDE DEF v, w, In
<1>7. part0(v) \in Int /\ part0(w) \in Int /\ part0(u) \in Int
  BY <1>1, <1>5, PartsOfScale
<1> DEFINE a == part0(v)
           b == part0(w)
           c == part0(u)
<1>8. /\ L!PositionAmounts(p, x)[1] = k * (a - c) /\ L!PositionAmounts(p, x)[2] = k * (v - l)
      /\ L!PositionAmounts(p, y)[1] = k * (b - c) /\ L!PositionAmounts(p, y)[2] = k * (w - l)
  BY <1>2
<1> HIDE DEF a, b, c
<1>9. k * (b - c) - k * (a - c) = k * (b - a) /\ k * (w - l) - k * (v - l) = k * (w - v)
  BY <1>1, <1>5, <1>7 DEF a, b, c
<1>10. CASE l <= x /\ x < u /\ v = x /\ w = y
  BY <1>3, <1>8, <1>9, <1>10 DEF a, b
<1>11. CASE ~(l <= x /\ x < u) /\ v = w
  <2>1. InAt(p, x) = 0 /\ a = b
    BY <1>3, <1>11 DEF a, b
  <2>2. L!Scale \div y \in Int /\ L!Scale \div x \in Int
    BY PartsOfScale
  <2>3. k * (b - a) = 0 /\ k * (w - v) = 0
    BY <1>1, <1>5, <1>7, <1>11, <2>1 DEF a, b
  <2> DEFINE r == L!Scale \div y - L!Scale \div x
  <2>4. r \in Int
    BY <2>2
  <2> HIDE DEF r
  <2> QED
    BY <1>8, <1>9, <2>1, <2>3, <2>4 DEF r
<1> QED
  BY <1>6, <1>10, <1>11

\* After any number of rounds.
WalkInv(ps, from, goal, w) ==
    /\ w.at \in Nat /\ from <= w.at /\ w.at <= goal
    /\ w.ahead = {t \in L!Boundaries(ps) : L!SqrtAt(t) > w.at}
    /\ w.liquidity = SumOver(Ins(ps, w.at), DOMAIN ps)
    /\ w.amount0 = -SumOver(More(ps, from, w.at, 1), DOMAIN ps)
    /\ w.amount1 = SumOver(More(ps, from, w.at, 2), DOMAIN ps)

LEMMA PositionsAre ==
    ASSUME NEW ps, IsPositions(ps), NEW i \in DOMAIN ps
    PROVE  IsPosition(ps[i])
BY PositionFacts DEF IsPosition

LEMMA MoreIsInt ==
    ASSUME NEW ps, IsPositions(ps), NEW from \in Nat, from > 0, NEW x \in Nat, x > 0, NEW i \in DOMAIN ps
    PROVE  More(ps, from, x, 1)[i] \in Int /\ More(ps, from, x, 2)[i] \in Int /\ Ins(ps, x)[i] \in Int
<1>1. /\ L!PositionAmounts(ps[i], x)[1] \in Int /\ L!PositionAmounts(ps[i], x)[2] \in Int
      /\ L!PositionAmounts(ps[i], from)[1] \in Int /\ L!PositionAmounts(ps[i], from)[2] \in Int
  BY PositionsAre, AmountsAreInts
<1>2. InAt(ps[i], x) \in Int
  BY PositionsAre DEF IsPosition, InAt
<1> QED
  BY <1>1, <1>2 DEF More, Ins

LEMMA WalkBegins ==
    ASSUME NEW ps, IsPositions(ps), NEW from \in Nat, NEW goal \in Nat, from < goal,
           L!SqrtAt(L!MinTick) <= from, NEW w,
           w = [at |-> from, liquidity |-> L!ActiveLiquidity(ps, L!TickAt(from)),
                ahead |-> {t \in L!Boundaries(ps) : t > L!TickAt(from)}, amount0 |-> 0, amount1 |-> 0]
    PROVE  WalkInv(ps, from, goal, w)
<1> DEFINE c == L!TickAt(from)
           S == DOMAIN ps
<1>1. c \in L!TickRange /\ \A t \in L!TickRange : L!SqrtAt(t) <= from <=> t <= c
  BY TickIsLast
<1>2. c \in Int /\ from > 0
  <2>1. c \in Int /\ L!SqrtAt(L!MinTick) \in Nat /\ L!SqrtAt(L!MinTick) > 0
    BY <1>1, GridFacts, TickIs
  <2> HIDE DEF c
  <2> QED
    BY <2>1
<1> HIDE DEF c
<1>3. IsFiniteSet(S)
  BY PositionFacts
<1>4. \A i \in S : /\ More(ps, from, from, 1)[i] = 0 /\ More(ps, from, from, 2)[i] = 0
                   /\ Ins(ps, from)[i] \in Int /\ Actives(ps, c)[i] = Ins(ps, from)[i]
  <2> TAKE i \in S
  <2> DEFINE p == ps[i]
  <2>1. p.lower \in L!TickRange /\ p.upper \in L!TickRange
    BY PositionFacts
  <2>2. p.lower \in Int /\ p.upper \in Int /\ L!SqrtAt(p.lower) \in Int /\ L!SqrtAt(p.upper) \in Int
    <3> HIDE DEF p
    <3> QED
      BY <2>1, TickIs
  <2>3. Actives(ps, c)[i] = Active(p, c) /\ Ins(ps, from)[i] = InAt(p, from)
    BY DEF Actives, Ins
  <2>4. L!SqrtAt(p.lower) <= from <=> p.lower <= c
    BY <1>1, <2>1
  <2>5. from < L!SqrtAt(p.upper) <=> c < p.upper
    BY <1>1, <1>2, <2>1, <2>2
  <2>6. Active(p, c) = InAt(p, from)
    BY <2>4, <2>5 DEF Active, InAt
  <2>7. Ins(ps, from)[i] \in Int
    BY <1>2, MoreIsInt
  <2>8. /\ L!PositionAmounts(p, from)[1] \in Int /\ L!PositionAmounts(p, from)[2] \in Int
    BY <1>2, PositionsAre, AmountsAreInts
  <2>9. More(ps, from, from, 1)[i] = 0 /\ More(ps, from, from, 2)[i] = 0
    BY <2>8 DEF More
  <2> QED
    BY <2>3, <2>6, <2>7, <2>9
<1>5. SumOver(More(ps, from, from, 1), S) = 0 /\ SumOver(More(ps, from, from, 2), S) = 0
  BY <1>3, <1>4, SumOfZeros
<1>6. SumOver(Actives(ps, c), S) = SumOver(Ins(ps, from), S)
  BY <1>3, <1>4, SumsAgree
<1>7. {t \in L!Boundaries(ps) : t > c} = {t \in L!Boundaries(ps) : L!SqrtAt(t) > from}
  <2>1. \A t \in L!Boundaries(ps) : t \in Int /\ L!SqrtAt(t) \in Int /\ (L!SqrtAt(t) <= from <=> t <= c)
    <3>1. \A t \in L!Boundaries(ps) : t \in L!TickRange
      BY BoundaryFacts
    <3> QED
      BY <1>1, <3>1, TickIs
  <2> QED
    BY <1>2, <2>1
<1>8. L!ActiveLiquidity(ps, c) = SumOver(Actives(ps, c), S)
  BY <1>2, ActiveIsOfThoseAround
<1>9. /\ w.at = from /\ w.liquidity = L!ActiveLiquidity(ps, c)
      /\ w.ahead = {t \in L!Boundaries(ps) : t > c} /\ w.amount0 = 0 /\ w.amount1 = 0
  BY DEF c
<1> QED
  BY <1>5, <1>6, <1>7, <1>8, <1>9 DEF WalkInv, S

\* What a round does, to a stop with no boundary before it.
LEMMA RoundAddsUp ==
    ASSUME NEW ps, IsPositions(ps), NEW from \in Nat, from > 0, NEW goal \in Nat,
           NEW w, WalkInv(ps, from, goal, w), NEW stop \in Nat, w.at < stop,
           \A t \in L!Boundaries(ps) : ~(w.at < L!SqrtAt(t) /\ L!SqrtAt(t) < stop)
    PROVE  /\ w.amount0 + w.liquidity * (L!Scale \div w.at - L!Scale \div stop) = -SumOver(More(ps, from, stop, 1), DOMAIN ps)
           /\ w.amount1 + w.liquidity * (stop - w.at) = SumOver(More(ps, from, stop, 2), DOMAIN ps)
<1> DEFINE S == DOMAIN ps
           x == w.at
           I == Ins(ps, x)
           F0 == More(ps, from, x, 1)
           E0 == More(ps, from, stop, 1)
           F1 == More(ps, from, x, 2)
           E1 == More(ps, from, stop, 2)
           d == L!Scale \div stop - L!Scale \div x
           e == stop - x
<1>1. IsFiniteSet(S) /\ x \in Nat /\ x > 0
  BY PositionFacts DEF WalkInv
<1>2. d \in Int /\ e \in Int
  BY <1>1, PartsOfScale
<1>3. \A i \in S : /\ F0[i] \in Int /\ F1[i] \in Int /\ I[i] \in Int
                   /\ E0[i] = F0[i] + d * I[i] /\ E1[i] = F1[i] + e * I[i]
  <2> TAKE i \in S
  <2> DEFINE p == ps[i]
             px == L!PositionAmounts(p, x)
             py == L!PositionAmounts(p, stop)
             pf == L!PositionAmounts(p, from)
  <2>1. F0[i] \in Int /\ F1[i] \in Int /\ I[i] \in Int
    BY <1>1, MoreIsInt
  <2>2. I[i] = InAt(p, x) /\ InAt(p, x) \in Int
    BY <2>1 DEF Ins
  <2>3. /\ ~(x < L!SqrtAt(p.lower) /\ L!SqrtAt(p.lower) < stop)
        /\ ~(x < L!SqrtAt(p.upper) /\ L!SqrtAt(p.upper) < stop)
    BY BoundaryFacts
  <2>4. py[1] - px[1] = InAt(p, x) * d /\ py[2] - px[2] = InAt(p, x) * e
    BY <1>1, <2>3, PositionsAre, BetweenBoundaries
  <2>5. /\ px[1] \in Int /\ px[2] \in Int /\ py[1] \in Int /\ py[2] \in Int /\ pf[1] \in Int /\ pf[2] \in Int
    BY <1>1, PositionsAre, AmountsAreInts
  <2>6. /\ F0[i] = px[1] - pf[1] /\ F1[i] = px[2] - pf[2] /\ E0[i] = py[1] - pf[1] /\ E1[i] = py[2] - pf[2]
    BY DEF More
  <2> DEFINE n == InAt(p, x)
  <2> HIDE DEF n, px, py, pf, E0, F0, E1, F1, I, d, e
  <2>7. n * d = d * n /\ n * e = e * n
    BY <1>2, <2>2 DEF n
  <2>8. E0[i] = F0[i] + n * d /\ E1[i] = F1[i] + n * e
    <3>1. n * d \in Int /\ n * e \in Int
      BY <1>2, <2>2 DEF n
    <3> DEFINE nd == n * d
               ne == n * e
    <3> HIDE DEF nd, ne
    <3>2. nd \in Int /\ ne \in Int /\ py[1] - px[1] = nd /\ py[2] - px[2] = ne
      BY <2>4, <3>1 DEF nd, ne, n
    <3> QED
      BY <2>5, <2>6, <3>2 DEF nd, ne
  <2> QED
    BY <2>1, <2>2, <2>7, <2>8 DEF n
<1> HIDE DEF E0, F0, E1, F1, I, d, e
<1>4. SumOver(E0, S) = SumOver(F0, S) + d * SumOver(I, S)
  BY <1>1, <1>2, <1>3, SumsAdd
<1>5. SumOver(E1, S) = SumOver(F1, S) + e * SumOver(I, S)
  BY <1>1, <1>2, <1>3, SumsAdd
<1>6. SumOver(I, S) \in Int /\ SumOver(F0, S) \in Int /\ SumOver(F1, S) \in Int
  BY <1>1, <1>3, SumIsInt
<1>7. w.liquidity = SumOver(I, S) /\ w.amount0 = -SumOver(F0, S) /\ w.amount1 = SumOver(F1, S)
  BY DEF WalkInv, I, F0, F1
<1> DEFINE l == SumOver(I, S)
<1>8. L!Scale \div x - L!Scale \div stop = -d
  BY <1>1, PartsOfScale DEF d
<1> HIDE DEF l
<1>9. l * (-d) = -(d * l) /\ l * e = e * l /\ d * l \in Int /\ e * l \in Int
  BY <1>2, <1>6 DEF l
<1>10. w.amount0 + w.liquidity * (-d) = -SumOver(E0, S)
  BY <1>4, <1>6, <1>7, <1>9 DEF l
<1>11. w.amount1 + w.liquidity * e = SumOver(E1, S)
  BY <1>5, <1>6, <1>7, <1>9 DEF l
<1> QED
  BY <1>8, <1>10, <1>11 DEF E0, E1, e

\* A round, to the next boundary and over it, or to the goal.
LEMMA WalkSteps ==
    ASSUME NEW ps, IsPositions(ps), NEW from \in Nat, from > 0, NEW goal \in Nat,
           NEW w, WalkInv(ps, from, goal, w), w.at < goal
    PROVE  LET v == L!DepthStep(ps, goal, w)
           IN  /\ WalkInv(ps, from, goal, v)
               /\ v.at < goal => Cardinality(v.ahead) = Cardinality(w.ahead) - 1
<1> DEFINE T == L!Boundaries(ps)
           S == DOMAIN ps
           m == L!Min(w.ahead)
           over == w.ahead # {} /\ L!SqrtAt(m) <= goal
           stop == IF over THEN L!SqrtAt(m) ELSE goal
           v == L!DepthStep(ps, goal, w)
<1>1. /\ v.at = stop /\ v.liquidity = w.liquidity + (IF over THEN L!NetAt(ps, m) ELSE 0)
      /\ v.ahead = IF over THEN w.ahead \ {m} ELSE w.ahead
      /\ v.amount0 = w.amount0 + w.liquidity * (L!Scale \div w.at - L!Scale \div stop)
      /\ v.amount1 = w.amount1 + w.liquidity * (stop - w.at)
  BY DEF L!DepthStep
<1> HIDE DEF v
<1>2. w.at \in Nat /\ w.at > 0 /\ w.ahead = {t \in T : L!SqrtAt(t) > w.at} /\ from <= w.at
  BY DEF WalkInv
<1>3. \A t \in T : t \in L!TickRange /\ t \in Int /\ L!SqrtAt(t) \in Nat
  BY BoundaryFacts, TickIs
<1>4. w.ahead # {} => m \in w.ahead /\ \A t \in w.ahead : m <= t
  <2>1. w.ahead \subseteq L!TickRange
    BY <1>2, <1>3
  <2> QED
    BY <2>1, LeastOfTicks
<1> HIDE DEF m
<1>5. over => m \in T /\ L!SqrtAt(m) > w.at /\ L!SqrtAt(m) <= goal
  BY <1>2, <1>4
<1>6. stop \in Nat /\ w.at < stop /\ stop <= goal /\ from <= stop
  <2>1. CASE over
    <3>1. L!SqrtAt(m) \in Nat
      BY <1>3, <1>5, <2>1
    <3> QED
      BY <1>2, <1>5, <2>1, <3>1
  <2>2. CASE ~over
    BY <1>2, <2>2
  <2> QED
    BY <2>1, <2>2
<1>7. \A t \in T : L!SqrtAt(t) > w.at => IF over THEN m <= t /\ L!SqrtAt(m) <= L!SqrtAt(t)
                                         ELSE L!SqrtAt(t) > goal
  <2> TAKE t \in T
  <2> SUFFICES ASSUME L!SqrtAt(t) > w.at
               PROVE  IF over THEN m <= t /\ L!SqrtAt(m) <= L!SqrtAt(t) ELSE L!SqrtAt(t) > goal
    OBVIOUS
  <2>1. t \in w.ahead /\ m \in w.ahead /\ m <= t
    BY <1>2, <1>4
  <2>2. m \in T
    BY <1>2, <2>1
  <2>3. L!SqrtAt(m) <= L!SqrtAt(t)
    BY <1>3, <2>1, <2>2, SqrtsRise
  <2>4. L!SqrtAt(m) \in Nat /\ L!SqrtAt(t) \in Nat /\ w.ahead # {}
    BY <1>3, <2>1, <2>2
  <2> QED
    BY <2>1, <2>3, <2>4
<1>8. \A t \in T : ~(w.at < L!SqrtAt(t) /\ L!SqrtAt(t) < stop)
  <2> TAKE t \in T
  <2>1. CASE over
    <3>1. L!SqrtAt(m) \in Nat /\ L!SqrtAt(t) \in Nat /\ stop = L!SqrtAt(m)
      BY <1>3, <1>5, <2>1
    <3>2. L!SqrtAt(t) > w.at => L!SqrtAt(m) <= L!SqrtAt(t)
      BY <1>7, <2>1
    <3> HIDE DEF stop
    <3> QED
      BY <1>2, <3>1, <3>2
  <2>2. CASE ~over
    <3>1. L!SqrtAt(t) \in Nat /\ stop = goal
      BY <1>3, <2>2
    <3>2. L!SqrtAt(t) > w.at => L!SqrtAt(t) > goal
      BY <1>7, <2>2
    <3> HIDE DEF stop
    <3> QED
      BY <1>2, <3>1, <3>2
  <2> QED
    BY <2>1, <2>2
<1>9. v.ahead = {t \in T : L!SqrtAt(t) > v.at}
  <2>1. CASE over
    <3>1. v.at = L!SqrtAt(m) /\ v.ahead = w.ahead \ {m} /\ m \in T /\ L!SqrtAt(m) \in Nat
      BY <1>1, <1>3, <1>5, <2>1
    <3>2. ASSUME NEW t \in T
          PROVE  t \in w.ahead /\ t # m <=> L!SqrtAt(t) > L!SqrtAt(m)
      <4>1. t \in Int /\ m \in Int /\ L!SqrtAt(t) \in Nat /\ t \in L!TickRange /\ m \in L!TickRange
        BY <1>3, <3>1
      <4>2. t \in w.ahead <=> L!SqrtAt(t) > w.at
        BY <1>2
      <4>3. L!SqrtAt(t) > w.at => m <= t
        BY <1>7, <2>1
      <4>4. L!SqrtAt(m) < L!SqrtAt(t) <=> m < t
        BY <4>1, SqrtsRise
      <4> QED
        BY <1>2, <1>5, <2>1, <3>1, <4>1, <4>2, <4>3, <4>4
    <3>3. w.ahead \subseteq T
      BY <1>2
    <3> HIDE DEF T
    <3> QED
      BY <3>1, <3>2, <3>3
  <2>2. CASE ~over
    <3>1. v.at = goal /\ v.ahead = w.ahead
      BY <1>1, <2>2
    <3>2. \A t \in T : L!SqrtAt(t) > w.at <=> L!SqrtAt(t) > goal
      BY <1>2, <1>3, <1>7, <2>2
    <3> QED
      BY <1>2, <3>1, <3>2
  <2> QED
    BY <2>1, <2>2
<1>10. IsFiniteSet(S) /\ \A i \in S : Ins(ps, w.at)[i] \in Int /\ Changes(ps, m)[i] \in Int
  BY <1>2, PositionFacts, MoreIsInt, ChangesAreInts
<1>11. ASSUME NEW i \in S
       PROVE  Ins(ps, stop)[i] = Ins(ps, w.at)[i] + 1 * (IF over THEN Changes(ps, m)[i] ELSE 0)
  <2> DEFINE p == ps[i]
             l == L!SqrtAt(p.lower)
             u == L!SqrtAt(p.upper)
  <2>1. /\ p.lower \in T /\ p.upper \in T /\ p.lower < p.upper /\ p.liquidity \in Nat
    BY BoundaryFacts, PositionFacts
  <2>2. l \in Nat /\ u \in Nat /\ p.lower \in Int /\ p.upper \in Int /\ l < u
    <3> HIDE DEF p
    <3> QED
      BY <1>3, <2>1, SqrtsRise
  <2>3. ~(w.at < l /\ l < stop) /\ ~(w.at < u /\ u < stop)
    BY <1>8, <2>1
  <2>4. over => (l = stop <=> p.lower = m) /\ (u = stop <=> p.upper = m)
    <3> SUFFICES ASSUME over PROVE (l = stop <=> p.lower = m) /\ (u = stop <=> p.upper = m)
      OBVIOUS
    <3>1. m \in L!TickRange /\ m \in Int /\ p.lower \in L!TickRange /\ p.upper \in L!TickRange
      BY <1>3, <1>5, <2>1
    <3>2. stop = L!SqrtAt(m) /\ L!SqrtAt(m) \in Nat
      BY <1>3, <1>5
    <3> HIDE DEF p
    <3>3. /\ l < L!SqrtAt(m) <=> p.lower < m
          /\ L!SqrtAt(m) < l <=> m < p.lower
          /\ u < L!SqrtAt(m) <=> p.upper < m
          /\ L!SqrtAt(m) < u <=> m < p.upper
      BY <3>1, SqrtsRise
    <3> QED
      BY <2>2, <3>1, <3>2, <3>3
  <2>5. ~over => ~(w.at < l /\ l <= stop) /\ ~(w.at < u /\ u <= stop)
    <3> SUFFICES ASSUME ~over PROVE ~(w.at < l /\ l <= stop) /\ ~(w.at < u /\ u <= stop)
      OBVIOUS
    <3>1. stop = goal /\ (l > w.at => l > goal) /\ (u > w.at => u > goal)
      BY <1>7, <2>1
    <3> HIDE DEF p, stop, l, u
    <3> QED
      BY <1>2, <2>2, <3>1
  <2>7. /\ Ins(ps, stop)[i] = IF l <= stop /\ stop < u THEN p.liquidity ELSE 0
        /\ Ins(ps, w.at)[i] = IF l <= w.at /\ w.at < u THEN p.liquidity ELSE 0
        /\ Changes(ps, m)[i] = IF p.lower = m THEN p.liquidity ELSE IF p.upper = m THEN -p.liquidity ELSE 0
    BY DEF Ins, InAt, Changes, Change
  <2> HIDE DEF p, l, u, stop, over
  <2> DEFINE k == p.liquidity
             x == w.at
  <2>8. k \in Nat /\ x \in Nat /\ p.lower # p.upper
    BY <1>2, <2>1, <2>2
  <2> HIDE DEF k, x
  <2>9. CASE over
    BY <1>6, <2>2, <2>3, <2>4, <2>7, <2>8, <2>9 DEF k, x
  <2>10. CASE ~over
    BY <1>6, <2>2, <2>5, <2>7, <2>8, <2>10 DEF k, x
  <2> QED
    BY <2>9, <2>10
<1>12. v.liquidity = SumOver(Ins(ps, stop), S)
  <2> DEFINE I == Ins(ps, stop)
             J == Ins(ps, w.at)
             C == Changes(ps, m)
  <2>1. w.liquidity = SumOver(J, S)
    BY DEF WalkInv
  <2>2. SumOver(J, S) \in Int /\ SumOver(C, S) \in Int
    BY <1>10, SumIsInt
  <2> HIDE DEF I, J, C, S
  <2>3. CASE over
    <3>1. \A i \in S : J[i] \in Int /\ C[i] \in Int /\ I[i] = J[i] + 1 * C[i]
      BY <1>10, <1>11, <2>3 DEF I, J, C
    <3>2. SumOver(I, S) = SumOver(J, S) + 1 * SumOver(C, S)
      BY <1>10, <3>1, SumsAdd
    <3>3. SumOver(C, S) = L!NetAt(ps, m)
      BY NetIsSum DEF C, S
    <3>4. v.liquidity = w.liquidity + L!NetAt(ps, m)
      BY <1>1, <2>3
    <3> QED
      BY <2>1, <2>2, <3>2, <3>3, <3>4 DEF I
  <2>4. CASE ~over
    <3>1. \A i \in S : J[i] \in Int /\ I[i] = J[i]
      BY <1>10, <1>11, <2>4 DEF I, J
    <3>2. SumOver(I, S) = SumOver(J, S)
      BY <1>10, <3>1, SumsAgree
    <3> QED
      BY <1>1, <2>1, <2>2, <2>4, <3>2 DEF I
  <2> QED
    BY <2>3, <2>4
<1>13. v.amount0 = -SumOver(More(ps, from, stop, 1), S) /\ v.amount1 = SumOver(More(ps, from, stop, 2), S)
  BY <1>1, <1>6, <1>8, RoundAddsUp DEF S
<1>14. WalkInv(ps, from, goal, v)
  BY <1>1, <1>6, <1>9, <1>12, <1>13 DEF WalkInv, S
<1>15. v.at < goal => Cardinality(v.ahead) = Cardinality(w.ahead) - 1
  <2> SUFFICES ASSUME v.at < goal PROVE Cardinality(v.ahead) = Cardinality(w.ahead) - 1
    OBVIOUS
  <2>1. over
    BY <1>1
  <2>2. IsFiniteSet(w.ahead)
    <3>1. w.ahead \subseteq T /\ IsFiniteSet(T)
      BY <1>2, BoundaryFacts
    <3> QED
      BY <3>1, FS_Subset, Zenon
  <2>3. m \in w.ahead /\ v.ahead = w.ahead \ {m}
    BY <1>1, <1>4, <2>1
  <2> HIDE DEF m
  <2> QED
    BY <2>2, <2>3, FS_RemoveElement, Zenon
<1> QED
  BY <1>14, <1>15 DEF v

\* The first n rounds of the walk.
Round(ps, goal, w) == IF w.at >= goal THEN w ELSE L!DepthStep(ps, goal, w)

Walks(f, ps, goal, begin, n) == f = [k \in 0..n |-> IF k = 0 THEN begin ELSE Round(ps, goal, f[k - 1])]

LEMMA WalkIsThere ==
    ASSUME NEW ps, NEW goal, NEW begin, NEW n \in Nat
    PROVE  \E f : Walks(f, ps, goal, begin, n)
<1> DEFINE S == {m \in Nat : \E f : Walks(f, ps, goal, begin, m)}
<1>1. 0 \in S
  <2> DEFINE f == [k \in 0..0 |-> begin]
  <2>1. Walks(f, ps, goal, begin, 0)
    BY DEF Walks
  <2> QED
    BY <2>1
<1>2. ASSUME NEW m \in Nat, m \in S
      PROVE  m + 1 \in S
  <2>1. PICK f : Walks(f, ps, goal, begin, m)
    BY <1>2
  <2> DEFINE next == Round(ps, goal, f[m])
             g == [k \in 0..m + 1 |-> IF k = m + 1 THEN next ELSE f[k]]
             Value(k) == IF k = 0 THEN begin ELSE Round(ps, goal, g[k - 1])
  <2>2. g[m + 1] = next /\ \A k \in 0..m : g[k] = f[k]
    <3> HIDE DEF next
    <3> QED
      OBVIOUS
  <2>3. \A k \in 0..m : f[k] = IF k = 0 THEN begin ELSE Round(ps, goal, f[k - 1])
    BY <2>1, Zenon DEF Walks
  <2>4. g = [k \in 0..m + 1 |-> g[k]]
    <3> HIDE DEF next
    <3> QED
      OBVIOUS
  <2> HIDE DEF g
  <2>5. ASSUME NEW k \in 0..m + 1
        PROVE  g[k] = Value(k)
    <3>1. CASE k = m + 1
      <4>1. k - 1 = m /\ m \in 0..m /\ k # 0
        BY <3>1
      <4> QED
        BY <2>2, <3>1, <4>1, Zenon
    <3>2. CASE k # m + 1
      <4>1. k \in 0..m /\ (k # 0 => k - 1 \in 0..m)
        BY <3>2
      <4>2. g[k] = f[k] /\ (k # 0 => g[k - 1] = f[k - 1])
        BY <2>2, <4>1, Zenon
      <4> QED
        BY <2>3, <4>1, <4>2, Zenon
    <3> QED
      BY <3>1, <3>2
  <2>6. g = [k \in 0..m + 1 |-> Value(k)]
    <3> HIDE DEF Value
    <3> QED
      BY <2>4, <2>5
  <2>7. Walks(g, ps, goal, begin, m + 1)
    BY <2>6, Zenon DEF Walks
  <2> QED
    BY <2>7
<1> HIDE DEF S
<1>3. Nat \subseteq S
  BY <1>1, <1>2, Inductively
<1> QED
  BY <1>3 DEF S

\* The walk ends at the goal, and there it adds up.
LEMMA WalkEnds ==
    ASSUME NEW ps, IsPositions(ps), NEW from \in Nat, from > 0, NEW goal \in Nat, NEW begin,
           WalkInv(ps, from, goal, begin), NEW n, n = Cardinality(L!Boundaries(ps)) + 1,
           NEW f, Walks(f, ps, goal, begin, n)
    PROVE  WalkInv(ps, from, goal, f[n]) /\ f[n].at = goal
<1> DEFINE T == L!Boundaries(ps)
           Good(w, k) == /\ WalkInv(ps, from, goal, w)
                         /\ w.at < goal => Cardinality(w.ahead) + k <= Cardinality(T)
           S == {k \in Nat : k <= n => Good(f[k], k)}
<1>1. IsFiniteSet(T) /\ Cardinality(T) \in Nat /\ n \in Nat
  <2>1. IsFiniteSet(T)
    BY BoundaryFacts
  <2>2. Cardinality(T) \in Nat
    BY <2>1, FS_CardinalityType, Zenon
  <2> QED
    BY <2>1, <2>2
<1>2. \A w : WalkInv(ps, from, goal, w) =>
          w.at \in Nat /\ w.at <= goal /\ Cardinality(w.ahead) \in Nat /\ Cardinality(w.ahead) <= Cardinality(T)
  <2> TAKE w
  <2> SUFFICES ASSUME WalkInv(ps, from, goal, w)
               PROVE  w.at \in Nat /\ w.at <= goal /\ Cardinality(w.ahead) \in Nat /\ Cardinality(w.ahead) <= Cardinality(T)
    OBVIOUS
  <2>1. w.at \in Nat /\ w.at <= goal /\ w.ahead \subseteq T
    BY DEF WalkInv
  <2>2. IsFiniteSet(w.ahead) /\ Cardinality(w.ahead) <= Cardinality(T)
    BY <1>1, <2>1, FS_Subset, Zenon
  <2>3. Cardinality(w.ahead) \in Nat
    BY <2>2, FS_CardinalityType, Zenon
  <2> QED
    BY <2>1, <2>2, <2>3
<1>3. f[0] = begin /\ \A k \in Nat : k + 1 <= n => f[k + 1] = Round(ps, goal, f[k])
  <2>1. \A k \in 0..n : f[k] = IF k = 0 THEN begin ELSE Round(ps, goal, f[k - 1])
    BY Zenon DEF Walks
  <2>2. 0 \in 0..n /\ \A k \in Nat : k + 1 <= n => k + 1 \in 0..n /\ k + 1 # 0 /\ (k + 1) - 1 = k
    BY <1>1
  <2> QED
    BY <2>1, <2>2, Zenon
<1>4. 0 \in S
  <2> DEFINE a == Cardinality(begin.ahead)
             b == Cardinality(T)
  <2>1. a <= b /\ a \in Nat /\ b \in Nat
    BY <1>1, <1>2
  <2> HIDE DEF a, b
  <2>2. a + 0 <= b
    BY <2>1
  <2>3. Good(begin, 0)
    BY <2>2 DEF a, b
  <2> HIDE DEF Good
  <2> QED
    BY <1>3, <2>3
<1>5. ASSUME NEW k \in Nat, k \in S
      PROVE  k + 1 \in S
  <2> SUFFICES ASSUME k + 1 <= n
               PROVE  Good(f[k + 1], k + 1)
    <3> HIDE DEF Good
    <3> QED
      OBVIOUS
  <2> DEFINE w == f[k]
             v == f[k + 1]
  <2>1. Good(w, k)
    <3>1. k <= n
      BY <1>1
    <3> HIDE DEF Good
    <3> QED
      BY <1>5, <3>1
  <2>2. v = Round(ps, goal, w)
    BY <1>3
  <2> HIDE DEF w, v, T
  <2>3. w.at \in Nat /\ w.at <= goal
    BY <1>2, <2>1
  <2>4. CASE w.at >= goal
    <3>1. v = w /\ ~(w.at < goal)
      BY <2>2, <2>3, <2>4 DEF Round
    <3>2. Good(v, k + 1)
      BY <2>1, <3>1
    <3> QED
      BY <3>2 DEF v
  <2>5. CASE ~(w.at >= goal)
    <3>1. v = L!DepthStep(ps, goal, w) /\ w.at < goal
      BY <2>2, <2>3, <2>5 DEF Round
    <3>2. WalkInv(ps, from, goal, v) /\ (v.at < goal => Cardinality(v.ahead) = Cardinality(w.ahead) - 1)
      BY <2>1, <3>1, WalkSteps
    <3>3. Cardinality(w.ahead) \in Nat /\ Cardinality(w.ahead) + k <= Cardinality(T) /\ Cardinality(T) \in Nat
      BY <1>1, <1>2, <2>1, <3>1
    <3>4. Good(v, k + 1)
      BY <3>2, <3>3
    <3> QED
      BY <3>4 DEF v
  <2> QED
    BY <2>4, <2>5
<1> HIDE DEF S
<1>6. Nat \subseteq S
  BY <1>4, <1>5, Inductively
<1>7. Good(f[n], n)
  BY <1>1, <1>6 DEF S
<1> DEFINE c == Cardinality(T)
           d == Cardinality(f[n].ahead)
<1>8. c \in Nat /\ d \in Nat /\ n = c + 1 /\ f[n].at \in Nat /\ f[n].at <= goal /\ (f[n].at < goal => d + n <= c)
  BY <1>1, <1>2, <1>7
<1> HIDE DEF c, d
<1>9. ~(f[n].at < goal)
  BY <1>8
<1> QED
  BY <1>7, <1>8, <1>9

LEMMA LiquidityCounts == \A S : L!Cardinality(S) = Cardinality(S)
BY DEF L!Cardinality, Cardinality

\* The folds that the property compares with.
LEMMA MoreIsFolded ==
    ASSUME NEW ps, IsPositions(ps), NEW from \in Nat, from > 0, NEW x \in Nat, x > 0, NEW k \in {1, 2}
    PROVE  LET more(i) == L!PositionAmounts(ps[i], x)[k] - L!PositionAmounts(ps[i], from)[k]
           IN  L!MapThenSumSet(more, DOMAIN ps) = SumOver(More(ps, from, x, k), DOMAIN ps)
<1> DEFINE S == DOMAIN ps
           F == More(ps, from, x, k)
           more(i) == L!PositionAmounts(ps[i], x)[k] - L!PositionAmounts(ps[i], from)[k]
           Body(h) == [s \in SUBSET S |-> IF s = {} THEN 0
                                          ELSE more(CHOOSE y \in s : TRUE) + h[s \ {CHOOSE y \in s : TRUE}]]
           g == CHOOSE h : h = Body(h)
<1>1. L!MapThenSumSet(more, S) = g[S]
  BY DEF L!MapThenSumSet, L!MapThenFoldSet
<1>2. IsFiniteSet(S) /\ \A i \in S : F[i] = more(i) /\ F[i] \in Int
  BY PositionFacts, MoreIsInt DEF More
<1>3. ASSUME NEW h
      PROVE  (h = Body(h)) <=> FoldsUp(h, F, S)
  <2> HIDE DEF more, F, S
  <2> QED
    BY <1>2 DEF FoldsUp
<1> HIDE DEF Body, F, S
<1>4. \E h : h = Body(h)
  BY <1>2, <1>3, FoldIsThere
<1>5. g = Body(g)
  BY <1>4
<1> HIDE DEF g
<1>6. FoldsUp(g, F, S)
  BY <1>3, <1>5
<1>7. g[S] = SumOver(F, S)
  BY <1>2, <1>6, FoldIsSum
<1> QED
  BY <1>1, <1>7 DEF F, S

\* So the way to the goal adds up.
LEMMA DepthHolds ==
    ASSUME NEW c, L!IsDepthCase(c)
    PROVE  L!DepthIsOfThe(c)
<1> SUFFICES ASSUME c.decimals = 0
             PROVE  LET w == L!SimulateDepth(c.positions, c.sqrt, c.goal, L!CurrentTick(c.sqrt, 0))
                        more0(i) == L!PositionAmounts(c.positions[i], c.goal)[1] - L!PositionAmounts(c.positions[i], c.sqrt)[1]
                        more1(i) == L!PositionAmounts(c.positions[i], c.goal)[2] - L!PositionAmounts(c.positions[i], c.sqrt)[2]
                    IN  /\ w.amount0 = -L!MapThenSumSet(more0, DOMAIN c.positions)
                        /\ w.amount1 = L!MapThenSumSet(more1, DOMAIN c.positions)
  BY Zenon DEF L!DepthIsOfThe
<1> DEFINE ps == c.positions
           from == c.sqrt
           goal == c.goal
           more0(i) == L!PositionAmounts(ps[i], goal)[1] - L!PositionAmounts(ps[i], from)[1]
           more1(i) == L!PositionAmounts(ps[i], goal)[2] - L!PositionAmounts(ps[i], from)[2]
           tick == L!CurrentTick(from, 0)
           n == Cardinality(L!Boundaries(ps)) + 1
           begin == [at |-> from, liquidity |-> L!ActiveLiquidity(ps, tick),
                     ahead |-> {t \in L!Boundaries(ps) : t > tick}, amount0 |-> 0, amount1 |-> 0]
           Body(h) == [k \in 0..n |-> IF k = 0 THEN begin
                                      ELSE IF h[k - 1].at >= goal THEN h[k - 1] ELSE L!DepthStep(ps, goal, h[k - 1])]
           f == CHOOSE h : h = Body(h)
<1>1. IsPositions(ps) /\ from \in Nat /\ goal \in Nat /\ L!SqrtAt(L!MinTick) <= from /\ from < goal
  BY DEF L!IsDepthCase, IsPositions
<1>2. from > 0 /\ goal > 0
  <2>1. L!SqrtAt(L!MinTick) \in Nat /\ L!SqrtAt(L!MinTick) > 0
    BY GridFacts
  <2> HIDE DEF from, goal
  <2> QED
    BY <1>1, <2>1
<1>3. tick = L!TickAt(from)
  <2>1. L!TickAt(from) \in Int
    BY <1>1, TickIsLast, GridFacts
  <2> QED
    BY <2>1 DEF L!CurrentTick
<1>4. L!SimulateDepth(ps, from, goal, tick) = f[n]
  BY LiquidityCounts DEF L!SimulateDepth
<1> HIDE DEF ps, from, goal, tick
<1>5. WalkInv(ps, from, goal, begin)
  BY <1>1, <1>3, WalkBegins
<1> HIDE DEF begin
<1>6. n \in Nat
  <2>1. IsFiniteSet(L!Boundaries(ps))
    BY <1>1, BoundaryFacts
  <2>2. Cardinality(L!Boundaries(ps)) \in Nat
    BY <2>1, FS_CardinalityType, Zenon
  <2> QED
    BY <2>2
<1>7. Walks(f, ps, goal, begin, n)
  <2>1. \A h : h = Body(h) <=> Walks(h, ps, goal, begin, n)
    BY DEF Walks, Round
  <2>2. \E h : h = Body(h)
    BY <1>6, <2>1, WalkIsThere
  <2> HIDE DEF Body, n
  <2>3. f = Body(f)
    BY <2>2
  <2> QED
    BY <2>1, <2>3
<1> HIDE DEF f
<1>8. WalkInv(ps, from, goal, f[n]) /\ f[n].at = goal
  BY <1>1, <1>2, <1>5, <1>7, WalkEnds
<1>9. /\ f[n].amount0 = -SumOver(More(ps, from, goal, 1), DOMAIN ps)
      /\ f[n].amount1 = SumOver(More(ps, from, goal, 2), DOMAIN ps)
  BY <1>8 DEF WalkInv
<1>10. L!MapThenSumSet(more0, DOMAIN ps) = SumOver(More(ps, from, goal, 1), DOMAIN ps)
  BY <1>1, <1>2, MoreIsFolded
<1>11. L!MapThenSumSet(more1, DOMAIN ps) = SumOver(More(ps, from, goal, 2), DOMAIN ps)
  BY <1>1, <1>2, MoreIsFolded
<1> QED
  BY <1>4, <1>9, <1>10, <1>11 DEF ps, from, goal, tick

-----------------------------------------------------------------------------
(***************************************************************************)
(* The position of a budget.  Every division on the way rounds down, so    *)
(* what the liquidity costs is never more than it was computed from; and   *)
(* a band that is no narrower than a tick leaves the price in the range.   *)
(***************************************************************************)
\* What a division leaves is not missed.
LEMMA QuotientFits ==
    ASSUME NEW n \in Nat, NEW d \in Nat, d > 0
    PROVE  n \div d \in Nat /\ d * (n \div d) <= n
<1>1. n \div d \in Int /\ 0 <= n \div d /\ d * (n \div d) <= n
  OBVIOUS
<1> QED
  BY <1>1

\* A quotient is no more than what the dividend is at most the multiple of.
LEMMA QuotientIsAtMost ==
    ASSUME NEW n \in Nat, NEW d \in Nat, d > 0, NEW a \in Nat, n <= d * a
    PROVE  n \div d <= a
<1> DEFINE q == n \div d
<1>1. q \in Nat /\ d * q <= n
  BY QuotientFits
<1> HIDE DEF q
<1> SUFFICES ASSUME q >= a + 1 PROVE FALSE
  BY <1>1 DEF q
<1>2. d * q >= d * (a + 1)
  BY <1>1
<1>3. d * (a + 1) = d * a + d
  OBVIOUS
<1>4. d * q \in Int /\ d * a \in Int
  BY <1>1
<1> QED
  BY <1>1, <1>2, <1>3, <1>4

\* The floor and the ceiling of a tick are multiples of the spacing, below it and above it.
LEMMA MultipleIsBelow ==
    ASSUME NEW t \in Int, NEW s \in Nat, s > 0
    PROVE  t \div s \in Int /\ s * (t \div s) <= t
OBVIOUS

LEMMA MultipleLeavesNone ==
    ASSUME NEW q \in Int, NEW s \in Nat, s > 0
    PROVE  (q * s) % s = 0
OBVIOUS

LEMMA FloorTickIs ==
    ASSUME NEW t \in Int, NEW s \in Nat, s > 0
    PROVE  L!FloorTick(t, s) \in Int /\ L!FloorTick(t, s) <= t /\ L!FloorTick(t, s) % s = 0
<1> DEFINE q == t \div s
<1>1. q \in Int /\ s * q <= t
  BY MultipleIsBelow
<1>2. L!FloorTick(t, s) = q * s
  BY DEF L!FloorTick
<1> HIDE DEF q
<1>3. q * s = s * q /\ q * s \in Int /\ (q * s) % s = 0
  BY <1>1, MultipleLeavesNone
<1> QED
  BY <1>1, <1>2, <1>3

LEMMA CeilTickIs ==
    ASSUME NEW t \in Int, NEW s \in Nat, s > 0
    PROVE  L!CeilTick(t, s) \in Int /\ t <= L!CeilTick(t, s) /\ L!CeilTick(t, s) % s = 0
<1> DEFINE q == (-t) \div s
<1>1. q \in Int /\ s * q <= -t
  BY MultipleIsBelow
<1>2. L!CeilTick(t, s) = -q * s
  BY DEF L!CeilTick
<1> HIDE DEF q
<1>3. -q \in Int /\ (-q) * s = -(q * s) /\ q * s = s * q /\ q * s \in Int /\ ((-q) * s) % s = 0
  BY <1>1, MultipleLeavesNone
<1> QED
  BY <1>1, <1>2, <1>3

\* The amounts of the liquidity that amounts are enough for.
LEMMA AmountsFit ==
    ASSUME NEW x \in Nat, NEW l \in Nat, NEW u \in Nat, l > 0, l <= x, x < u, NEW a \in Nat, NEW b \in Nat
    PROVE  LET k == L!LiquidityFor(x, l, u, a, b)
           IN  L!AmountsFor(x, l, u, k)[1] <= a /\ L!AmountsFor(x, l, u, k)[2] <= b
<1> DEFINE k == L!LiquidityFor(x, l, u, a, b)
           q == L!Q
<1>1. q \in Nat /\ q > 0
  BY DEF L!Q
<1>2. L!AmountsFor(x, l, u, k) = <<(k * q * (u - x)) \div (u * x), (k * (x - l)) \div q>>
  BY DEF L!AmountsFor
<1>3. k = IF x <= l THEN (a * l * u) \div ((u - l) * q)
          ELSE L!Min({(a * x * u) \div ((u - x) * q), (b * q) \div (x - l)})
  BY DEF L!LiquidityFor
<1> HIDE DEF k, q
<1>4. (a * x * u) \in Nat /\ (u - x) * q \in Nat /\ (u - x) * q > 0 /\ b * q \in Nat /\ u * x \in Nat /\ u * x > 0
      /\ u - x \in Nat /\ u - x > 0 /\ x - l \in Nat
  <2>1. u - x \in Nat /\ u - x > 0 /\ x - l \in Nat /\ x > 0 /\ u > 0
    OBVIOUS
  <2>2. (u - x) * q > 0 /\ (u - x) * q \in Nat
    BY <1>1, <2>1
  <2>3. a * x \in Nat /\ u * x \in Nat /\ u * x > 0 /\ b * q \in Nat
    BY <1>1, <2>1
  <2>4. (a * x) * u \in Nat
    BY <2>3
  <2> QED
    BY <2>1, <2>2, <2>3, <2>4
<1> DEFINE v == (a * x * u) \div ((u - x) * q)
<1>5. v \in Nat /\ ((u - x) * q) * v <= a * x * u
  BY <1>4, QuotientFits
<1> HIDE DEF v
<1>6. k \in Nat /\ k <= v /\ (x # l => (x - l) * k <= b * q)
  <2>1. CASE x = l
    BY <1>3, <1>5, <2>1 DEF v
  <2>2. CASE x # l
    <3> DEFINE w == (b * q) \div (x - l)
    <3>1. w \in Nat /\ (x - l) * w <= b * q
      BY <1>4, <2>2, QuotientFits
    <3>2. k = L!Min({v, w})
      BY <1>3, <2>2 DEF v
    <3> HIDE DEF w
    <3>3. k \in {v, w} /\ k <= v /\ k <= w
      BY <1>5, <3>1, <3>2 DEF L!Min
    <3>4. k \in Nat
      BY <1>5, <3>1, <3>3
    <3>5. (x - l) * k <= (x - l) * w
      BY <1>4, <3>1, <3>3, <3>4
    <3>6. (x - l) * k \in Int /\ (x - l) * w \in Int
      BY <1>4, <3>1, <3>4
    <3> QED
      BY <1>4, <3>1, <3>3, <3>4, <3>5, <3>6
  <2> QED
    BY <2>1, <2>2
<1>7. (k * q * (u - x)) \div (u * x) <= a
  <2> DEFINE d == (u - x) * q
  <2>1. d \in Nat /\ d * v <= a * x * u
    BY <1>4, <1>5
  <2>2. k * q * (u - x) = d * k
    BY <1>1, <1>4, <1>6
  <2> HIDE DEF d
  <2>3. d * k <= d * v /\ d * k \in Nat /\ d * v \in Nat
    BY <1>5, <1>6, <2>1
  <2>4. a * x * u = (u * x) * a
    OBVIOUS
  <2>5. k * q * (u - x) \in Nat /\ k * q * (u - x) <= (u * x) * a
    <3> DEFINE y == a * x * u
    <3>1. y \in Nat
      BY <1>4
    <3> HIDE DEF y
    <3> QED
      BY <2>1, <2>2, <2>3, <2>4, <3>1 DEF y
  <2> QED
    BY <1>4, <2>5, QuotientIsAtMost
<1>8. (k * (x - l)) \div q <= b
  <2>1. k * (x - l) = (x - l) * k /\ k * (x - l) \in Nat /\ q * b = b * q
    BY <1>1, <1>4, <1>6
  <2>2. (x - l) * k <= b * q
    <3>1. CASE x = l
      BY <1>4, <1>6, <3>1
    <3> QED
      BY <1>6, <3>1
  <2> QED
    BY <1>1, <2>1, <2>2, QuotientIsAtMost
<1> QED
  BY <1>2, <1>7, <1>8 DEF k

\* What is wanted of both is not less than nothing.
LEMMA DesiredIsNat ==
    ASSUME NEW x \in Nat, x > 0, NEW budget \in Nat, NEW first1
    PROVE  L!Desired(x, budget, first1)[1] \in Nat /\ L!Desired(x, budget, first1)[2] \in Nat
<1> DEFINE q == L!Q
<1>1. q \in Nat /\ q > 0
  BY DEF L!Q
<1>2. L!Desired(x, budget, first1) = IF first1 THEN <<(budget * q * q) \div (x * x), budget>>
                                     ELSE <<budget, (budget * x * x) \div (q * q)>>
  BY DEF L!Desired
<1> HIDE DEF q
<1>3. budget * q \in Nat /\ budget * x \in Nat /\ x * x \in Nat /\ x * x > 0 /\ q * q \in Nat /\ q * q > 0
  BY <1>1
<1>4. budget * q * q \in Nat /\ budget * x * x \in Nat
  BY <1>1, <1>3
<1>5. (budget * q * q) \div (x * x) \in Nat /\ (budget * x * x) \div (q * q) \in Nat
  BY <1>3, <1>4, QuotientFits
<1> QED
  BY <1>2, <1>5

\* So a band's position fits.
LEMMA BandHolds ==
    ASSUME NEW c, L!IsBandCase(c)
    PROVE  L!BandFits(c)
<1> DEFINE x == c.sqrt
           s == c.spacing
           t == L!TickAt(x)
           down == L!Clamp(x \div c.band)
           over == L!Clamp(x * c.band)
           lower == L!FloorTick(L!TickAt(down), s)
           upper == L!CeilTick(L!TickAt(over), s)
           min == L!SqrtAt(L!MinTick)
           max == L!SqrtAt(L!MaxTick)
<1>1. /\ x \in Nat /\ c.band \in Nat /\ c.budget \in Nat /\ s \in Nat /\ s > 0 /\ min <= x /\ x < max
      /\ \A i \in L!TickRange \ {L!MaxTick} : L!SqrtAt(i + 1) <= c.band * L!SqrtAt(i)
  BY DEF L!IsBandCase
<1>2. L!MinTick \in L!TickRange /\ L!MaxTick \in L!TickRange
  BY GridFacts
<1>3. min \in Nat /\ max \in Nat /\ min > 0 /\ min <= max
  BY <1>2, TickIs
<1>4. t \in L!TickRange /\ (\A i \in L!TickRange : L!SqrtAt(i) <= x <=> i <= t) /\ t \in Int
  BY <1>1, TickIsLast, TickIs
<1> HIDE DEF x, s, t, min, max
<1>5. t # L!MaxTick /\ t + 1 \in L!TickRange /\ L!SqrtAt(t) <= x /\ x < L!SqrtAt(t + 1)
  <2>1. t # L!MaxTick
    BY <1>1, <1>2, <1>3, <1>4 DEF max
  <2>2. t + 1 \in L!TickRange
    BY <1>4, <2>1, GridFacts
  <2>3. L!SqrtAt(t + 1) \in Nat /\ ~(t + 1 <= t) /\ t <= t
    BY <1>4, <2>2, TickIs
  <2> QED
    BY <1>1, <1>4, <2>1, <2>2, <2>3
<1>6. L!SqrtAt(t + 1) <= c.band * L!SqrtAt(t)
  BY <1>1, <1>4, <1>5
<1>7. L!SqrtAt(t + 1) <= x * c.band /\ x * c.band \in Nat /\ c.band >= 1
  <2> DEFINE y == L!SqrtAt(t)
             z == L!SqrtAt(t + 1)
             b == c.band
  <2>1. y \in Nat /\ z \in Nat /\ b \in Nat /\ z > 0
    BY <1>1, <1>4, <1>5, TickIs
  <2> HIDE DEF y, z, b
  <2>2. y <= x /\ z <= b * y
    BY <1>5, <1>6 DEF y, z, b
  <2>3. b * y <= b * x /\ b * x = x * b /\ b * x \in Nat /\ b * y \in Nat
    BY <1>1, <2>1, <2>2
  <2>4. b # 0
    BY <2>1, <2>2
  <2> QED
    BY <1>1, <2>1, <2>2, <2>3, <2>4 DEF z, b
<1>8. x \div c.band \in Nat /\ x \div c.band <= x
  <2>1. x <= c.band * x
    BY <1>1, <1>7
  <2> QED
    BY <1>1, <1>7, <2>1, QuotientFits, QuotientIsAtMost
<1>9. down \in Nat /\ min <= down /\ down <= x
  <2> DEFINE y == x \div c.band
  <2> HIDE DEF y
  <2>1. y \in Nat /\ y <= x
    BY <1>8 DEF y
  <2>2. L!Clamp(y) = IF y < min THEN min ELSE IF y > max THEN max ELSE y
    BY DEF L!Clamp, min, max
  <2>3. L!Clamp(y) \in Nat /\ min <= L!Clamp(y) /\ L!Clamp(y) <= x
    BY <1>1, <1>3, <2>1, <2>2
  <2> QED
    BY <2>3 DEF y
<1>10. over \in Nat /\ min <= over /\ L!SqrtAt(t + 1) <= over
  <2> DEFINE y == x * c.band
  <2> HIDE DEF y
  <2>1. y \in Nat /\ L!SqrtAt(t + 1) <= y
    BY <1>7 DEF y
  <2>2. L!Clamp(y) = IF y < min THEN min ELSE IF y > max THEN max ELSE y
    BY DEF L!Clamp, min, max
  <2>3. L!SqrtAt(t + 1) \in Nat /\ L!SqrtAt(t + 1) <= max /\ min <= L!SqrtAt(t + 1)
    BY <1>5, TickIs DEF max, min
  <2>4. L!Clamp(y) \in Nat /\ min <= L!Clamp(y) /\ L!SqrtAt(t + 1) <= L!Clamp(y)
    BY <1>3, <2>1, <2>2, <2>3
  <2> QED
    BY <2>4 DEF y
<1> HIDE DEF down, over
<1>11. /\ L!TickAt(down) \in Int /\ L!TickAt(down) <= t
  <2>1. L!TickAt(down) \in L!TickRange /\ \A i \in L!TickRange : L!SqrtAt(i) <= down <=> i <= L!TickAt(down)
    BY <1>9, TickIsLast DEF min
  <2> DEFINE i == L!TickAt(down)
  <2> HIDE DEF i
  <2>2. i \in Int /\ L!SqrtAt(i) \in Nat /\ i \in L!TickRange
    BY <2>1, TickIs DEF i
  <2>3. L!SqrtAt(i) <= down
    BY <2>1, <2>2 DEF i
  <2>4. L!SqrtAt(i) <= x
    BY <1>1, <1>9, <2>2, <2>3
  <2> QED
    BY <1>4, <2>2, <2>4 DEF i
<1>12. L!TickAt(over) \in Int /\ t + 1 <= L!TickAt(over)
  <2>1. L!TickAt(over) \in L!TickRange /\ \A i \in L!TickRange : L!SqrtAt(i) <= over <=> i <= L!TickAt(over)
    BY <1>10, TickIsLast DEF min
  <2> QED
    BY <1>5, <1>10, <2>1, TickIs
<1>13. lower \in Int /\ lower <= t /\ lower % s = 0
  <2>1. lower \in Int /\ lower <= L!TickAt(down) /\ lower % s = 0
    BY <1>1, <1>11, FloorTickIs
  <2> HIDE DEF lower
  <2> QED
    BY <1>4, <1>11, <2>1
<1>14. upper \in Int /\ t < upper /\ upper % s = 0
  <2>1. upper \in Int /\ L!TickAt(over) <= upper /\ upper % s = 0
    BY <1>1, <1>12, CeilTickIs
  <2> HIDE DEF upper
  <2> QED
    BY <1>4, <1>12, <2>1
<1> HIDE DEF lower, upper
<1> DEFINE ticks == L!TickBounds(c.sqrt, c.band, c.spacing)
<1>15. ticks.lower = lower /\ ticks.upper = upper
  <2>1. ticks = [lower |-> lower, upper |-> IF lower >= upper THEN lower + s ELSE upper]
    BY DEF L!TickBounds, lower, upper, down, over, x, s
  <2>2. ~(lower >= upper)
    BY <1>4, <1>13, <1>14
  <2> QED
    BY <2>1, <2>2
<1>16. lower \in L!TickRange /\ upper \in L!TickRange
  BY <1>15 DEF L!IsBandCase
<1> DEFINE l == L!SqrtAt(lower)
           u == L!SqrtAt(upper)
           desired == L!Desired(x, c.budget, c.quoteIsToken1)
<1>17. l \in Nat /\ u \in Nat /\ l > 0 /\ l <= x /\ x < u
  <2>1. l \in Nat /\ u \in Nat /\ l > 0
    BY <1>16, TickIs
  <2>2. L!SqrtAt(lower) <= x
    BY <1>4, <1>13, <1>16
  <2>3. ~(L!SqrtAt(upper) <= x)
    BY <1>4, <1>14, <1>16
  <2> QED
    BY <1>1, <2>1, <2>2, <2>3
<1>18. desired[1] \in Nat /\ desired[2] \in Nat
  BY <1>1, <1>3, DesiredIsNat
<1> DEFINE k == L!LiquidityFor(x, l, u, desired[1], desired[2])
           amounts == L!AmountsFor(x, l, u, k)
<1>19. amounts[1] <= desired[1] /\ amounts[2] <= desired[2]
  <2> HIDE DEF l, u, desired
  <2> QED
    BY <1>1, <1>17, <1>18, AmountsFit
<1> DEFINE p == L!SeedPosition(c)
<1>20. p.ticks = ticks /\ p.desired = desired /\ p.amounts = amounts
  BY <1>15 DEF L!SeedPosition, x
<1> HIDE DEF p, ticks, desired, amounts
<1> QED
  BY <1>13, <1>14, <1>15, <1>19, <1>20 DEF L!BandFits, p, t, s, x

\* The position that is seeded for a band costs no more than the budget and lies around the price, and what
\* the sampled depth of a pool says is moved to a price is what its positions hold more and less there, for
\* any grid of ticks, budgets, bands and positions (uniswapV4/liquidityMath.ts, computeTickBounds and
\* getLiquidityForAmounts; persistence.metrics.ts, simulateDepth).
THEOREM LiquidityFits == MarketSpec => []LiquidityAddsUp
<1> DEFINE Kept == part = "liquidity" => case \in BandCases \cup DepthCases
<1>1. MarketInit => Kept
  BY DEF MarketInit, Lasting
<1>2. Kept /\ [MarketNext]_allVars => Kept'
  BY PartsStep
<1>3. Kept => LiquidityAddsUp
  <2> SUFFICES ASSUME part = "liquidity", case \in BandCases \cup DepthCases
               PROVE  LiquidityAddsUp
    BY DEF LiquidityAddsUp
  <2>1. CASE case \in BandCases
    <3>1. L!IsBandCase(case)
      BY <2>1, MarketAssumption DEF MarketAssumption
    <3>2. L!BandFits(case) /\ "band" \in DOMAIN case
      BY <3>1, BandHolds DEF L!IsBandCase
    <3> QED
      BY <3>2 DEF LiquidityAddsUp
  <2>2. CASE case \in DepthCases
    <3>1. L!IsDepthCase(case)
      BY <2>2, MarketAssumption DEF MarketAssumption
    <3>2. L!DepthIsOfThe(case) /\ "band" \notin DOMAIN case
      BY <3>1, DepthHolds DEF L!IsDepthCase
    <3> QED
      BY <3>2 DEF LiquidityAddsUp
  <2> QED
    BY <2>1, <2>2
<1> QED
  BY <1>1, <1>2, <1>3, PTL DEF MarketSpec
===============================================================================
