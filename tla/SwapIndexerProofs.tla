--------------------------- MODULE SwapIndexerProofs ---------------------------
(***************************************************************************)
(* Polling alone loses no swap, for any chain, any number of syncs and any *)
(* cut into batches and chunks.  What matters of the order in which a task *)
(* takes its logs is only that all of them are in its hands until they are *)
(* done with; the cursor never runs ahead of what is in somebody's hands.  *)
(* Of a price the order matters: the swaps of one pool are taken in turn,  *)
(* over again too, so that the last to be written is the last there is.    *)
(***************************************************************************)
EXTENDS SwapIndexer, TLAPS, FiniteSetTheorems, SequenceTheorems, WellFoundedInduction

ChunkOf == [Pools -> Nat]

Tasks == [pc : Points, from : Nat, to : Nat, todo : SUBSET Logs, chunk : ChunkOf,
          log : LogOrNone, price : LogOrNone, metrics : LogOrNone]

\* At these points a log is in hand.
Saving == {"upsert", "setCursor", "reread", "recompute", "meta"}

\* What a task has in hand has been mined.
Mined ==
    \A t \in Slots :
        /\ task[t].to <= latest
        /\ \A i \in task[t].todo : Block(i) <= latest
        /\ task[t].pc \in Saving => task[t].log \in Logs /\ task[t].log \notin task[t].todo

Quiet == ~wsUrl /\ ~disturbed

Scanning(t) == task[t].pc \notin {"none", "cursor", "height"}

\* The pools of its range are not all read yet.
Discovering(t) ==
    \/ task[t].pc \in {"discover", "pools"}
    \/ task[t].pc = "setCursor" /\ Kind(task[t].log) = "initialize"

\* A historical sync is alone, and syncs are started when it is over.
Lone ==
    \A t \in Active :
        /\ Historical(t) => Active = {t}
        /\ t = Watcher => ~running
        /\ ~Historical(t) => running

\* What a task has in hand is of the blocks it reads, which begin at the start block.
InRange(t) ==
    /\ task[t].pc = "height" /\ task[t].from # 0 => task[t].from >= StartBlock
    /\ Scanning(t) => task[t].from >= StartBlock
    /\ Scanning(t) => \A i \in task[t].todo : Block(i) \in task[t].from..task[t].to
    /\ task[t].pc \in Saving => Block(task[t].log) \in task[t].from..task[t].to
    /\ ~Scanning(t) => task[t].todo = {}

\* Only a historical sync discovers pools.
Discovers(t) ==
    /\ task[t].pc = "discover" => Historical(t)
    /\ task[t].pc \in Saving /\ Kind(task[t].log) = "initialize" =>
          Historical(t) /\ task[t].pc = "setCursor"

\* What it saves is of a known pool, and it will not make the pool unknown.
Marked(t) ==
    /\ task[t].pc \in {"recompute", "meta"} => task[t].price # 0
    /\ task[t].pc \in {"upsert", "reread", "recompute", "meta"} => Known(LogPool(t))
    /\ task[t].pc = "setCursor" /\ Kind(task[t].log) = "modify" => Known(LogPool(t))

\* While pools are discovered the cursor is not past the blocks they are discovered in.
Behind(t) ==
    Historical(t) =>
        /\ task[t].pc = "height" /\ task[t].from = 0 => cursor = 0
        /\ task[t].pc = "height" /\ task[t].from # 0 => cursor < task[t].from
        /\ Discovering(t) => cursor <= task[t].to

KnownSwaps == {i \in Logs : Kind(i) = "swap" /\ Known(Pool(i))}

Owes(t, i) ==
    \/ i \in task[t].todo
    \/ Discovering(t) /\ Block(i) \in task[t].from..task[t].to

Covered(i) == i \in stored \/ \E t \in Slots : Owes(t, i)

\* Where the task is, the swap should be stored or in somebody's hands.
Passed(t, i) ==
    \/ task[t].pc = "height" /\ task[t].from # 0 /\ Block(i) < task[t].from
    \/ Scanning(t) /\ Block(i) <= task[t].to

\* Behind the cursor, and behind every task in progress, a swap is stored or in hand.
Covers ==
    \A i \in KnownSwaps :
        Block(i) <= cursor \/ (\E t \in Slots : Passed(t, i)) => Covered(i)

Order ==
    /\ Lone
    /\ cursor # 0 => cursor >= StartBlock
    /\ \A i \in KnownSwaps : Block(i) >= StartBlock
    /\ \A t \in Slots : InRange(t) /\ Discovers(t) /\ Marked(t) /\ Behind(t)
    /\ Covers

IInv == TypeOK /\ Mined /\ (Quiet => Order)

-------------------------------------------------------------------------------
(* Data *)

\* A set of numbers below a bound has a greatest one.
LEMMA Greatest ==
    ASSUME NEW n \in Nat, NEW S, S \subseteq 1..n, S # {}
    PROVE  \E m \in S : \A j \in S : j <= m
<1> DEFINE R == OpToRel(<, Nat)
           T == {n - j : j \in S}
<1>1. IsWellFoundedOn(R, Nat)
  BY NatLessThanWellFounded
<1> HIDE DEF R
<1>2. T \subseteq Nat
  <2>1. \A j \in S : n - j \in Nat
    OBVIOUS
  <2> QED
    BY <2>1
<1>3. T # {}
  OBVIOUS
<1> HIDE DEF T
<1>4. PICK x \in T : \A y \in T : ~(<<y, x>> \in R)
  BY <1>1, <1>2, <1>3, WFMin
<1>5. PICK m \in S : x = n - m
  BY DEF T
<1>6. ASSUME NEW j \in S PROVE j <= m
  <2>1. n - j \in T
    BY DEF T
  <2>2. ~(<<n - j, x>> \in R)
    BY <1>4, <2>1
  <2>3. ~(n - j < x)
    BY <2>1, <2>2, <1>2 DEF R, OpToRel
  <2> QED
    BY <2>3, <1>5
<1> QED
  BY <1>6

\* The logs are those of the assumption, in the order of their blocks.
LEMMA LogTypes ==
    /\ Logs = 1..Len(Chain) /\ Len(Chain) \in Nat
    /\ Logs \subseteq Nat \ {0}
    /\ \A i \in Logs : Kind(i) \in Kinds /\ Pool(i) \in Pools /\ Block(i) \in Nat \ {0}
<1>1. Chain \in Seq([kind : Kinds, pool : Pools, block : Nat \ {0}])
  BY IndexerAssumption
<1>2. Logs = 1..Len(Chain) /\ Len(Chain) \in Nat
  BY <1>1, LenProperties DEF Logs
<1>3. \A i \in Logs : Chain[i] \in [kind : Kinds, pool : Pools, block : Nat \ {0}]
  BY <1>1, <1>2, ElementOfSeq
<1> QED
  BY <1>2, <1>3 DEF Kind, Pool, Block

\* A pool's swaps are not before its Initialize.
LEMMA InitializedBefore ==
    ASSUME NEW i \in Logs, NEW j \in Logs, Kind(j) = "initialize", Kind(i) # "initialize",
           Pool(i) = Pool(j)
    PROVE  Block(j) <= Block(i)
<1>1. PICK k \in 1..(i - 1) : Kind(k) = "initialize" /\ Pool(k) = Pool(i)
  BY IndexerAssumption
<1>2. k \in Logs /\ k < i
  BY LogTypes
<1>3. k = j
  BY <1>1, <1>2, IndexerAssumption
<1> QED
  BY <1>2, <1>3, IndexerAssumption

\* The last change of a pool is a change of it.
LEMMA LastModifyIs ==
    ASSUME latest \in Nat, NEW i \in Logs, Kind(i) = "modify", Block(i) <= latest
    PROVE  LET m == LastModify(Pool(i))
           IN  m \in Logs /\ Kind(m) = "modify" /\ Pool(m) = Pool(i) /\ Block(m) <= latest
<1> DEFINE S == {j \in Logs : Kind(j) = "modify" /\ Pool(j) = Pool(i) /\ Block(j) <= latest}
<1>1. \E m \in S : \A j \in S : j <= m
  BY LogTypes, Greatest
<1>2. \E m \in Logs :
        /\ Kind(m) = "modify" /\ Pool(m) = Pool(i) /\ Block(m) <= latest
        /\ \A j \in Logs : Kind(j) = "modify" /\ Pool(j) = Pool(i) /\ Block(j) <= latest => j <= m
  BY <1>1
<1> QED
  BY <1>2 DEF LastModify

\* A cut of the known pools into chunks gives each a number.
LEMMA ChunkTypes ==
    ASSUME NEW P \in SUBSET Pools, NEW f \in Chunkings(P)
    PROVE  [p \in Pools |-> IF p \in P THEN f[p] ELSE 0] \in ChunkOf
<1>1. IsFiniteSet(P)
  BY FS_Subset, IndexerAssumption
<1>2. Cardinality(P) \in Nat
  BY <1>1, FS_CardinalityType
<1>3. f \in [P -> 0..Cardinality(P)]
  BY DEF Chunkings
<1>4. \A p \in P : f[p] \in Nat
  BY <1>2, <1>3
<1> QED
  BY <1>4 DEF ChunkOf

-------------------------------------------------------------------------------
(* The task that takes a step *)

\* After the step task t is this, and the others are what they were.
Becomes(t, pc, from, to, todo, log, price, metrics) ==
    /\ task' \in [Slots -> Tasks]
    /\ \A u \in Slots \ {t} : task'[u] = task[u]
    /\ task'[t].pc = pc /\ task'[t].from = from /\ task'[t].to = to /\ task'[t].todo = todo
    /\ task'[t].log = log /\ task'[t].price = price /\ task'[t].metrics = metrics

LEMMA TaskTypes == TypeOK => task \in [Slots -> Tasks]
BY DEF TypeOK, Tasks, ChunkOf

LEMMA GotoTask ==
    ASSUME task \in [Slots -> Tasks], NEW t \in Slots, NEW pc \in Points, Goto(t, pc)
    PROVE  Becomes(t, pc, task[t].from, task[t].to, task[t].todo, task[t].log, task[t].price,
                   task[t].metrics)
BY DEF Goto, Becomes, Tasks

LEMMA FinishedTask ==
    ASSUME task \in [Slots -> Tasks], NEW t \in Slots, task' = [task EXCEPT ![t] = NoTask]
    PROVE  Becomes(t, "none", 0, 0, {}, 0, 0, 0)
<1>1. NoTask \in Tasks
  BY DEF NoTask, Tasks, Points, LogOrNone, ChunkOf
<1> QED
  BY <1>1 DEF Becomes, NoTask

LEMMA TakeTask ==
    ASSUME task \in [Slots -> Tasks], NEW t \in Slots, NEW i \in Logs, NEW pc \in Points,
           NEW price \in LogOrNone, NEW metrics \in LogOrNone, Take(t, i, pc, price, metrics)
    PROVE  Becomes(t, pc, task[t].from, task[t].to, task[t].todo \ {i}, i, price, metrics)
<1> DEFINE new == [task[t] EXCEPT !.todo = @ \ {i}, !.log = i, !.pc = pc, !.price = price,
                                  !.metrics = metrics]
<1>1. task[t] \in Tasks /\ i \in LogOrNone
  BY DEF LogOrNone
<1>2. task[t].todo \ {i} \in SUBSET Logs
  BY <1>1 DEF Tasks
<1>3. new \in Tasks
  BY <1>1, <1>2 DEF Tasks
<1>4. /\ new.pc = pc /\ new.from = task[t].from /\ new.to = task[t].to
      /\ new.todo = task[t].todo \ {i} /\ new.log = i /\ new.price = price
      /\ new.metrics = metrics
  BY <1>1 DEF Tasks
<1>5. task' = [task EXCEPT ![t] = new]
  BY <1>1 DEF Take, Tasks
<1> HIDE DEF new
<1> QED
  BY <1>3, <1>4, <1>5 DEF Becomes

AfterDrop(i) == IF Kind(i) = "initialize" THEN "discover" ELSE "scan"

LEMMA DropTask ==
    ASSUME task \in [Slots -> Tasks], NEW t \in Slots, NEW i \in Logs, Drop(t, i)
    PROVE  Becomes(t, AfterDrop(i), task[t].from, task[t].to, task[t].todo \ {i}, 0, 0, 0)
<1>1. 0 \in LogOrNone /\ AfterDrop(i) \in Points
  BY DEF LogOrNone, AfterDrop, Points
<1> DEFINE new == [task[t] EXCEPT !.todo = @ \ {i}, !.log = 0, !.price = 0, !.metrics = 0,
                                  !.pc = AfterDrop(i)]
<1>2. task[t] \in Tasks
  OBVIOUS
<1>3. task[t].todo \ {i} \in SUBSET Logs
  BY <1>2 DEF Tasks
<1>4. new \in Tasks
  BY <1>1, <1>2, <1>3 DEF Tasks
<1>5. /\ new.pc = AfterDrop(i) /\ new.from = task[t].from /\ new.to = task[t].to
      /\ new.todo = task[t].todo \ {i} /\ new.log = 0 /\ new.price = 0 /\ new.metrics = 0
  BY <1>2 DEF Tasks
<1>6. task' = [task EXCEPT ![t] = new]
  BY <1>2 DEF Drop, AfterDrop, Tasks
<1> HIDE DEF new
<1> QED
  BY <1>4, <1>5, <1>6 DEF Becomes

LEMMA CursorTask ==
    ASSUME task \in [Slots -> Tasks], NEW t \in Slots, NEW from \in Nat,
           task' = [task EXCEPT ![t].pc = "height", ![t].from = from]
    PROVE  Becomes(t, "height", from, task[t].to, task[t].todo, task[t].log, task[t].price,
                   task[t].metrics)
<1>1. "height" \in Points
  BY DEF Points
<1> QED
  BY <1>1 DEF Becomes, Tasks

LEMMA HeightTask ==
    ASSUME task \in [Slots -> Tasks], NEW t \in Slots, NEW from \in Nat, NEW to \in Nat,
           NEW pc \in Points, NEW todo \in SUBSET Logs,
           task' = [task EXCEPT ![t].from = from, ![t].to = to, ![t].pc = pc, ![t].todo = todo]
    PROVE  Becomes(t, pc, from, to, todo, task[t].log, task[t].price, task[t].metrics)
BY DEF Becomes, Tasks

LEMMA PoolsTask ==
    ASSUME task \in [Slots -> Tasks], NEW t \in Slots, NEW chunk \in ChunkOf,
           NEW todo \in SUBSET Logs,
           task' = [task EXCEPT ![t].pc = "scan", ![t].chunk = chunk, ![t].todo = todo]
    PROVE  Becomes(t, "scan", task[t].from, task[t].to, todo, task[t].log, task[t].price,
                   task[t].metrics)
<1>1. "scan" \in Points
  BY DEF Points
<1> QED
  BY <1>1 DEF Becomes, Tasks

LEMMA RecomputeTask ==
    ASSUME task \in [Slots -> Tasks], NEW t \in Slots, NEW metrics \in LogOrNone,
           task' = [task EXCEPT ![t].pc = "meta", ![t].metrics = metrics]
    PROVE  Becomes(t, "meta", task[t].from, task[t].to, task[t].todo, task[t].log,
                   task[t].price, metrics)
<1>1. "meta" \in Points
  BY DEF Points
<1> QED
  BY <1>1 DEF Becomes, Tasks

LEMMA RereadTask ==
    ASSUME task \in [Slots -> Tasks], NEW t \in Slots, NEW price \in LogOrNone,
           task' = [task EXCEPT ![t].pc = "recompute", ![t].price = price]
    PROVE  Becomes(t, "recompute", task[t].from, task[t].to, task[t].todo, task[t].log, price,
                   task[t].metrics)
<1>1. "recompute" \in Points
  BY DEF Points
<1> QED
  BY <1>1 DEF Becomes, Tasks

-------------------------------------------------------------------------------
(* What a step leaves of the invariant *)

LEMMA MinedAfter ==
    ASSUME TypeOK, Mined, latest' = latest, NEW t \in Slots, NEW pc, NEW from, NEW to, NEW todo,
           NEW log, NEW price, NEW metrics, Becomes(t, pc, from, to, todo, log, price, metrics),
           to <= latest, \A i \in todo : Block(i) <= latest,
           pc \in Saving => log \in Logs /\ log \notin todo
    PROVE  Mined'
<1>1. ASSUME NEW u \in Slots
      PROVE  /\ task'[u].to <= latest'
             /\ \A i \in task'[u].todo : Block(i) <= latest'
             /\ task'[u].pc \in Saving =>
                   task'[u].log \in Logs /\ task'[u].log \notin task'[u].todo
  <2>1. CASE u = t
    BY <2>1 DEF Becomes
  <2>2. CASE u # t
    <3>1. task'[u] = task[u]
      BY <2>2 DEF Becomes
    <3> QED
      BY <3>1 DEF Mined
  <2> QED
    BY <2>1, <2>2
<1> QED
  BY <1>1 DEF Mined

\* What the other tasks have to themselves.
LEMMA OthersKeep ==
    ASSUME Mined, NEW u \in Slots, task'[u] = task[u],
           \A p \in Pools : Known(p) => Known(p)',
           InRange(u), Discovers(u), Marked(u)
    PROVE  InRange(u)' /\ Discovers(u)' /\ Marked(u)'
<1>1. InRange(u)'
  BY DEF InRange, Scanning
<1>2. Discovers(u)'
  BY DEF Discovers
<1>3. task[u].pc \in Saving => LogPool(u) \in Pools /\ LogPool(u)' = LogPool(u)
  BY LogTypes DEF Mined, LogPool
<1>4. Marked(u)'
  BY <1>3 DEF Marked, Saving
<1> QED
  BY <1>1, <1>2, <1>4

\* The general case: what is to be shown of a step of task t.
LEMMA OrderAfter ==
    ASSUME Mined, Order, NEW t \in Slots, \A u \in Slots \ {t} : task'[u] = task[u],
           Lone', cursor' # 0 => cursor' >= StartBlock,
           \A p \in Pools : Known(p) => Known(p)',
           \A i \in KnownSwaps' : Block(i) >= StartBlock,
           InRange(t)' /\ Discovers(t)' /\ Marked(t)' /\ Behind(t)',
           \A u \in Slots \ {t} : Behind(u)',
           Covers'
    PROVE  Order'
<1>1. ASSUME NEW u \in Slots PROVE InRange(u)' /\ Discovers(u)' /\ Marked(u)' /\ Behind(u)'
  <2>1. CASE u = t
    BY <2>1
  <2>2. CASE u # t
    BY <2>2, OthersKeep DEF Order
  <2> QED
    BY <2>1, <2>2
<1> QED
  BY <1>1 DEF Order

LEMMA SameKnownSwaps ==
    ASSUME \A p \in Pools : Known(p)' <=> Known(p) PROVE KnownSwaps' = KnownSwaps
BY LogTypes DEF KnownSwaps

\* A swap stays stored or in hand, if the task that takes the step stores it or keeps it.
LEMMA CoveredKept ==
    ASSUME NEW t \in Slots, \A u \in Slots \ {t} : task'[u] = task[u], stored \subseteq stored',
           NEW i, Covered(i), Owes(t, i) => i \in stored' \/ Owes(t, i)'
    PROVE  Covered(i)'
<1>1. CASE i \in stored
  BY <1>1 DEF Covered
<1>2. ASSUME NEW u \in Slots, Owes(u, i) PROVE Covered(i)'
  <2>1. CASE u = t
    BY <1>2, <2>1 DEF Covered
  <2>2. CASE u # t
    <3>1. Owes(u, i)'
      BY <1>2, <2>2 DEF Owes, Discovering
    <3> QED
      BY <3>1 DEF Covered
  <2> QED
    BY <2>1, <2>2
<1> QED
  BY <1>1, <1>2 DEF Covered

LEMMA CoversAfter ==
    ASSUME Order, NEW t \in Slots, \A u \in Slots \ {t} : task'[u] = task[u],
           stored \subseteq stored', KnownSwaps' = KnownSwaps,
           \A i \in KnownSwaps : Owes(t, i) => i \in stored' \/ Owes(t, i)',
           \A i \in KnownSwaps :
               Block(i) <= cursor' \/ Passed(t, i)' => Covered(i) \/ Owes(t, i)'
    PROVE  Covers'
<1>1. ASSUME NEW i \in KnownSwaps, NEW u \in Slots, Passed(u, i)'
      PROVE  Covered(i) \/ Owes(t, i)'
  <2>1. CASE u = t
    BY <1>1, <2>1
  <2>2. CASE u # t
    <3>1. Passed(u, i)
      BY <1>1, <2>2 DEF Passed, Scanning
    <3> QED
      BY <3>1 DEF Order, Covers
  <2> QED
    BY <2>1, <2>2
<1>2. ASSUME NEW i \in KnownSwaps, Covered(i) PROVE Covered(i)'
  BY <1>2, CoveredKept
<1>3. ASSUME NEW i \in KnownSwaps, Owes(t, i)' PROVE Covered(i)'
  BY <1>3 DEF Covered
<1> QED
  BY <1>1, <1>2, <1>3 DEF Covers

\* A step inside the scan of a task, that does not move the cursor.
LEMMA PlainStep ==
    ASSUME Mined, Order, NEW t \in Slots, NEW pc, NEW from, NEW to, NEW todo,
           NEW log, NEW price, NEW metrics, Becomes(t, pc, from, to, todo, log, price, metrics),
           UNCHANGED <<cursor, running>>, stored \subseteq stored',
           \A p \in Pools : Known(p)' <=> Known(p),
           Scanning(t), Scanning(t)', from = task[t].from, to = task[t].to,
           Discovering(t)' => Discovering(t),
           InRange(t)', Discovers(t)', Marked(t)',
           \A i \in KnownSwaps : Owes(t, i) => i \in stored' \/ Owes(t, i)'
    PROVE  Order'
<1>1. \A u \in Slots \ {t} : task'[u] = task[u]
  BY DEF Becomes
<1>2. task[t].pc # "none" /\ task'[t].pc # "none" /\ task'[t].pc # "height"
  BY DEF Scanning
<1>3. Active' = Active
  BY <1>1, <1>2 DEF Active
<1>4. Lone'
  BY <1>3 DEF Order, Lone, Historical
<1>5. Behind(t)'
  BY <1>2 DEF Order, Behind, Becomes, Historical
<1>6. \A u \in Slots \ {t} : Behind(u)'
  BY <1>1 DEF Order, Behind, Historical, Discovering
<1>7. KnownSwaps' = KnownSwaps
  BY SameKnownSwaps
<1>8. \A i \in KnownSwaps : Passed(t, i)' => Passed(t, i)
  BY <1>2 DEF Passed, Becomes
<1>9. Covers'
  BY <1>1, <1>7, <1>8, CoversAfter DEF Order, Covers
<1> QED
  BY <1>1, <1>4, <1>5, <1>6, <1>7, <1>9, OrderAfter DEF Order

-------------------------------------------------------------------------------
(* Each step of a task *)

LEMMA ReadCursorKeeps ==
    ASSUME IInv, NEW t \in Slots, ReadCursor(t) PROVE IInv'
<1> DEFINE from == IF cursor = 0 THEN 0 ELSE cursor + 1
<1>1. TypeOK /\ Mined /\ task \in [Slots -> Tasks] /\ cursor \in Nat
  BY TaskTypes DEF IInv, TypeOK
<1>2. task[t].pc = "cursor" /\ task' = [task EXCEPT ![t].pc = "height", ![t].from = from]
  BY DEF ReadCursor
<1>3. from \in Nat
  BY <1>1
<1> HIDE DEF from
<1>4. Becomes(t, "height", from, task[t].to, task[t].todo, task[t].log, task[t].price,
              task[t].metrics)
  BY <1>1, <1>2, <1>3, CursorTask
<1>5. UNCHANGED <<latest, wsUrl, tables, running, overlapped, disturbed, events>>
  BY DEF ReadCursor
<1>6. TypeOK'
  BY <1>1, <1>4, <1>5 DEF TypeOK, Becomes, Tasks, ChunkOf, tables
<1>7. Mined'
  BY <1>1, <1>4, <1>5, MinedAfter DEF Mined, Saving
<1>8. ASSUME Order PROVE Order'
  <2>1. \A u \in Slots \ {t} : task'[u] = task[u]
    BY <1>4 DEF Becomes
  <2>2. task'[t].pc = "height" /\ task'[t].from = from /\ task'[t].todo = task[t].todo
    BY <1>4 DEF Becomes
  <2>3. Lone'
    <3>1. Active' = Active
      BY <1>2, <2>1, <2>2 DEF Active
    <3> QED
      BY <1>5, <1>8, <3>1 DEF Order, Lone, Historical
  <2>4. ~Scanning(t) /\ ~Scanning(t)' /\ task[t].todo = {}
    BY <1>2, <1>8, <2>2 DEF Scanning, Order, InRange
  <2>5. InRange(t)'
    BY <1>1, <1>8, <2>2, <2>4, IndexerAssumption DEF from, InRange, Saving, Order
  <2>6. Discovers(t)' /\ Marked(t)'
    BY <2>2 DEF Discovers, Marked, Saving
  <2>7. Behind(t)'
    BY <1>1, <1>5, <2>2 DEF Behind, Discovering, from, tables
  <2>8. \A u \in Slots \ {t} : Behind(u)'
    BY <1>5, <1>8, <2>1 DEF Order, Behind, Historical, Discovering, tables
  <2>9. KnownSwaps' = KnownSwaps /\ \A p \in Pools : Known(p)' <=> Known(p)
    BY <1>5 DEF KnownSwaps, Known, tables
  <2>10. \A i \in KnownSwaps : ~Owes(t, i)
    BY <1>2, <2>4 DEF Owes, Discovering
  <2>11. ASSUME NEW i \in KnownSwaps, Passed(t, i)' PROVE Block(i) <= cursor
    BY <1>1, <2>2, <2>4, <2>11, LogTypes DEF Passed, KnownSwaps, from
  <2>12. Covers'
    BY <1>5, <1>8, <2>1, <2>9, <2>10, <2>11, CoversAfter DEF Order, Covers, tables
  <2> QED
    BY <1>1, <1>5, <1>8, <2>1, <2>3, <2>5, <2>6, <2>7, <2>8, <2>9, <2>12, OrderAfter
       DEF Order, tables
<1> QED
  BY <1>5, <1>6, <1>7, <1>8 DEF IInv, Quiet

LEMMA StartKeeps ==
    ASSUME IInv, NEW t \in Slots, Begin(t) \/ StartMaintenance(t) PROVE IInv'
<1>1. TypeOK /\ Mined /\ task \in [Slots -> Tasks] /\ cursor \in Nat
  BY TaskTypes DEF IInv, TypeOK
<1>2. Start(t)
  BY DEF Begin, StartWatcher, StartSync, StartMaintenance
<1>3. task[t].pc = "none" /\ Goto(t, "cursor") /\ "cursor" \in Points
  BY <1>2 DEF Start, Goto, Points
<1>4. Becomes(t, "cursor", task[t].from, task[t].to, task[t].todo, task[t].log, task[t].price,
              task[t].metrics)
  BY <1>1, <1>3, GotoTask
<1>5. UNCHANGED <<latest, wsUrl, tables, running>>
  BY <1>2 DEF Start
<1>6. events' \in 0..MaxEvents
  BY <1>1, IndexerAssumption DEF Begin, StartWatcher, StartSync, StartMaintenance, Unusual, TypeOK
<1>7. overlapped' \in BOOLEAN /\ disturbed' \in BOOLEAN /\ (~disturbed' => ~disturbed)
  BY <1>1, <1>2 DEF TypeOK, Start, Starts
<1>8. TypeOK'
  BY <1>1, <1>4, <1>5, <1>6, <1>7 DEF TypeOK, Becomes, Tasks, ChunkOf, tables
<1>9. Mined'
  BY <1>1, <1>4, <1>5, MinedAfter DEF Mined, Saving
<1>10. ASSUME Order, Quiet' PROVE Order'
  <2>1. \A u \in Slots \ {t} : task'[u] = task[u]
    BY <1>4 DEF Becomes
  <2>2. task'[t].pc = "cursor" /\ task'[t].todo = task[t].todo
    BY <1>4 DEF Becomes
  <2>3. Active' = Active \cup {t} /\ t \notin Active
    BY <1>3, <2>1, <2>2 DEF Active
  <2>4. Active = {} \/ ({t} \cup Active) \cap Maintenance = {}
    BY <1>2, <1>10 DEF Quiet, Start, Starts, Idle
  <2>5. /\ t = Watcher => ~running
        /\ t \in Syncs \cup Maintenance \cup {Watcher}
        /\ ~Historical(t) => running
    BY IndexerAssumption DEF Begin, StartWatcher, StartSync, StartMaintenance, Historical
  <2>6. Lone'
    <3>1. CASE Active = {}
      BY <1>5, <2>3, <2>5, <3>1 DEF Lone, Historical
    <3>2. CASE ({t} \cup Active) \cap Maintenance = {}
      <4>1. ASSUME Historical(t), NEW u \in Active PROVE FALSE
        <5>1. t = Watcher /\ u \notin Maintenance /\ u # Watcher
          BY <2>3, <3>2, <4>1 DEF Historical
        <5> QED
          BY <1>10, <2>5, <5>1 DEF Order, Lone, Historical
      <4>2. \A u \in Active : ~Historical(t) => ~Historical(u)
        BY <1>10, <2>5, <3>2 DEF Order, Lone, Historical
      <4> QED
        BY <1>5, <1>10, <2>3, <2>5, <4>1, <4>2 DEF Order, Lone, Historical
    <3> QED
      BY <2>4, <3>1, <3>2
  <2>7. ~Scanning(t) /\ ~Scanning(t)' /\ task[t].todo = {}
    BY <1>3, <1>10, <2>2 DEF Scanning, Order, InRange
  <2>8. InRange(t)' /\ Discovers(t)' /\ Marked(t)' /\ Behind(t)'
    BY <2>2, <2>7 DEF InRange, Discovers, Marked, Behind, Saving, Discovering
  <2>9. \A u \in Slots \ {t} : Behind(u)'
    BY <1>5, <1>10, <2>1 DEF Order, Behind, Historical, Discovering, tables
  <2>10. KnownSwaps' = KnownSwaps /\ \A p \in Pools : Known(p)' <=> Known(p)
    BY <1>5 DEF KnownSwaps, Known, tables
  <2>11. \A i \in KnownSwaps : ~Owes(t, i) /\ ~Passed(t, i)'
    BY <1>3, <2>2, <2>7 DEF Owes, Discovering, Passed
  <2>12. Covers'
    BY <1>5, <1>10, <2>1, <2>10, <2>11, CoversAfter DEF Order, Covers, tables
  <2> QED
    BY <1>1, <1>5, <1>10, <2>1, <2>6, <2>8, <2>9, <2>10, <2>12, OrderAfter DEF Order, tables
<1> QED
  BY <1>5, <1>7, <1>8, <1>9, <1>10 DEF IInv, Quiet

\* A task ends when it has nothing in hand.
LEMMA FinishKeeps ==
    ASSUME IInv, NEW t \in Slots, Finish(t), task[t].pc # "none",
           Quiet => task[t].todo = {} /\ ~Discovering(t)
    PROVE  IInv'
<1>1. TypeOK /\ Mined /\ task \in [Slots -> Tasks] /\ cursor \in Nat /\ latest \in Nat
  BY TaskTypes DEF IInv, TypeOK
<1>2. Becomes(t, "none", 0, 0, {}, 0, 0, 0)
  BY <1>1, FinishedTask DEF Finish
<1>3. /\ UNCHANGED <<latest, wsUrl, tables, overlapped, disturbed, events>>
      /\ running' = (running \/ t = Watcher)
  BY DEF Finish
<1>4. TypeOK'
  BY <1>1, <1>2, <1>3 DEF TypeOK, Becomes, Tasks, ChunkOf, tables
<1>5. Mined'
  BY <1>1, <1>2, <1>3, MinedAfter DEF Saving
<1>6. ASSUME Order, Quiet PROVE Order'
  <2>1. \A u \in Slots \ {t} : task'[u] = task[u]
    BY <1>2 DEF Becomes
  <2>2. task'[t].pc = "none" /\ task'[t].todo = {}
    BY <1>2 DEF Becomes
  <2>3. Active' = Active \ {t} /\ t \in Active
    BY <2>1, <2>2 DEF Active
  <2>4. Lone'
    <3>1. CASE t = Watcher
      BY <1>6, <2>3, <3>1 DEF Order, Lone, Historical
    <3>2. CASE t # Watcher
      BY <1>3, <1>6, <2>3, <3>2 DEF Order, Lone, Historical
    <3> QED
      BY <3>1, <3>2
  <2>5. InRange(t)' /\ Discovers(t)' /\ Marked(t)' /\ Behind(t)'
    BY <2>2 DEF InRange, Scanning, Discovers, Marked, Behind, Saving, Discovering
  <2>6. \A u \in Slots \ {t} : Behind(u)'
    BY <1>3, <1>6, <2>1 DEF Order, Behind, Historical, Discovering, tables
  <2>7. KnownSwaps' = KnownSwaps /\ \A p \in Pools : Known(p)' <=> Known(p)
    BY <1>3 DEF KnownSwaps, Known, tables
  <2>8. \A i \in KnownSwaps : ~Owes(t, i) /\ ~Passed(t, i)'
    BY <1>6, <2>2 DEF Owes, Passed, Scanning
  <2>9. Covers'
    BY <1>3, <1>6, <2>1, <2>7, <2>8, CoversAfter DEF Order, Covers, tables
  <2> QED
    BY <1>1, <1>3, <1>6, <2>1, <2>4, <2>5, <2>6, <2>7, <2>9, OrderAfter DEF Order, tables
<1> QED
  BY <1>3, <1>4, <1>5, <1>6 DEF IInv, Quiet

LEMMA NothingNewKeeps ==
    ASSUME IInv, NEW t \in Slots, NothingNew(t) PROVE IInv'
<1>1. task[t].pc = "height" /\ Finish(t) /\ ~Discovering(t) /\ ~Scanning(t)
  BY DEF NothingNew, Discovering, Scanning
<1>2. Quiet => task[t].todo = {}
  BY <1>1 DEF IInv, Order, InRange
<1> QED
  BY <1>1, <1>2, FinishKeeps

LEMMA EndScanKeeps ==
    ASSUME IInv, NEW t \in Slots, EndScan(t) PROVE IInv'
<1>1. task[t].pc \in {"scan", "discover"} /\ task[t].todo = {} /\ Finish(t)
  BY DEF EndScan
<1>2. Quiet => ~Discovering(t)
  BY DEF EndScan, IInv, Order, Discovers, Discovering
<1> QED
  BY <1>1, <1>2, FinishKeeps

LEMMA ReadHeightKeeps ==
    ASSUME IInv, NEW t \in Slots, ReadHeight(t) PROVE IInv'
<1> DEFINE from == FromBlock(t)
           pc   == IF Historical(t) THEN "discover" ELSE "pools"
           todo == IF Historical(t)
                   THEN {i \in LogsIn(FromBlock(t), latest) :
                            Kind(i) = "initialize" /\ Pool(i) \in Tracked}
                   ELSE {}
<1>1. TypeOK /\ Mined /\ task \in [Slots -> Tasks] /\ cursor \in Nat /\ latest \in Nat
  BY TaskTypes DEF IInv, TypeOK
<1>2. task[t].pc = "height" /\ from <= latest
  BY DEF ReadHeight
<1>3. task' = [task EXCEPT ![t].from = from, ![t].to = latest, ![t].pc = pc, ![t].todo = todo]
  BY DEF ReadHeight
<1>4. from \in Nat /\ pc \in Points
  BY <1>1, IndexerAssumption DEF FromBlock, Tasks, Points
<1>5. todo \in SUBSET Logs
  BY DEF LogsIn
<1>6. \A i \in todo : Block(i) \in from..latest
  BY DEF LogsIn
<1> HIDE DEF from, todo
<1>7. Becomes(t, pc, from, latest, todo, task[t].log, task[t].price, task[t].metrics)
  BY <1>1, <1>3, <1>4, <1>5, HeightTask
<1>8. UNCHANGED <<latest, wsUrl, tables, running, overlapped, disturbed, events>>
  BY DEF ReadHeight
<1>9. TypeOK'
  BY <1>1, <1>7, <1>8 DEF TypeOK, Becomes, Tasks, ChunkOf, tables
<1>10. Mined'
  BY <1>1, <1>4, <1>6, <1>7, <1>8, MinedAfter DEF Saving
<1>11. ASSUME Order PROVE Order'
  <2>1. \A u \in Slots \ {t} : task'[u] = task[u]
    BY <1>7 DEF Becomes
  <2>2. /\ task'[t].pc \in {"discover", "pools"} /\ (task'[t].pc = "discover" => Historical(t))
        /\ task'[t].from = from /\ task'[t].to = latest /\ task'[t].todo = todo
    BY <1>7 DEF Becomes
  <2>3. Lone'
    <3>1. Active' = Active
      BY <1>2, <2>1, <2>2 DEF Active
    <3> QED
      BY <1>8, <1>11, <3>1 DEF Order, Lone, Historical
  <2>4. ~Scanning(t) /\ Scanning(t)' /\ ~Discovering(t) /\ Discovering(t)' /\ task[t].todo = {}
    BY <1>2, <1>11, <2>2 DEF Scanning, Discovering, Order, InRange
  <2>5. /\ task[t].from # 0 => from = task[t].from
        /\ task[t].from = 0 => from = StartBlock /\ Historical(t)
    BY <1>1, <1>2 DEF from, FromBlock
  <2>6. from >= StartBlock
    BY <1>1, <1>2, <1>11, <2>5, IndexerAssumption DEF Order, InRange
  <2>7. InRange(t)'
    BY <1>6, <2>2, <2>4, <2>6 DEF InRange, Saving
  <2>8. Discovers(t)' /\ Marked(t)'
    BY <2>2 DEF Discovers, Marked, Saving, Historical
  <2>9. Behind(t)'
    <3>1. Historical(t) => cursor <= latest
      BY <1>1, <1>2, <1>4, <1>11, <2>5 DEF Order, Behind
    <3> QED
      BY <1>8, <2>2, <3>1 DEF Behind, Historical, tables
  <2>10. \A u \in Slots \ {t} : Behind(u)'
    BY <1>8, <1>11, <2>1 DEF Order, Behind, Historical, Discovering, tables
  <2>11. KnownSwaps' = KnownSwaps /\ \A p \in Pools : Known(p)' <=> Known(p)
    BY <1>8 DEF KnownSwaps, Known, tables
  <2>12. \A i \in KnownSwaps : ~Owes(t, i)
    BY <2>4 DEF Owes
  <2>13. ASSUME NEW i \in KnownSwaps, Passed(t, i)' PROVE Covered(i) \/ Owes(t, i)'
    <3>1. Block(i) \in Nat /\ Block(i) <= latest /\ Block(i) >= StartBlock
      BY <1>11, <2>2, <2>13, LogTypes DEF Passed, KnownSwaps, Order
    <3>2. CASE Block(i) >= from
      BY <1>1, <1>4, <2>2, <2>4, <3>1, <3>2 DEF Owes
    <3>3. CASE Block(i) < from
      <4>1. task[t].from # 0
        BY <2>5, <3>1, <3>3, IndexerAssumption
      <4>2. Passed(t, i)
        BY <1>2, <2>5, <3>3, <4>1 DEF Passed
      <4> QED
        BY <1>11, <4>2 DEF Order, Covers
    <3> QED
      BY <1>4, <3>1, <3>2, <3>3
  <2>14. Covers'
    BY <1>8, <1>11, <2>1, <2>11, <2>12, <2>13, CoversAfter DEF Order, Covers, tables
  <2> QED
    BY <1>1, <1>8, <1>11, <2>1, <2>3, <2>7, <2>8, <2>9, <2>10, <2>11, <2>14, OrderAfter
       DEF Order, tables
<1> QED
  BY <1>8, <1>9, <1>10, <1>11 DEF IInv, Quiet

LEMMA EndDiscoveryKeeps ==
    ASSUME IInv, NEW t \in Slots, EndDiscovery(t) PROVE IInv'
<1>1. TypeOK /\ Mined /\ task \in [Slots -> Tasks]
  BY TaskTypes DEF IInv
<1>2. task[t].pc = "discover" /\ Goto(t, "pools") /\ "pools" \in Points
  BY DEF EndDiscovery, Goto, Points
<1>3. Becomes(t, "pools", task[t].from, task[t].to, task[t].todo, task[t].log, task[t].price,
              task[t].metrics)
  BY <1>1, <1>2, GotoTask
<1>4. UNCHANGED <<latest, wsUrl, tables, running, overlapped, disturbed, events>>
  BY DEF EndDiscovery
<1>5. TypeOK'
  BY <1>1, <1>3, <1>4 DEF TypeOK, Becomes, Tasks, ChunkOf, tables
<1>6. Mined'
  BY <1>1, <1>3, <1>4, MinedAfter DEF Mined, Saving
<1>7. ASSUME Order PROVE Order'
  <2>1. /\ task'[t].pc = "pools" /\ task'[t].from = task[t].from /\ task'[t].to = task[t].to
        /\ task'[t].todo = task[t].todo
    BY <1>3 DEF Becomes
  <2>2. Scanning(t) /\ Scanning(t)' /\ Discovering(t) /\ Discovering(t)'
    BY <1>2, <2>1 DEF Scanning, Discovering
  <2>3. InRange(t)' /\ Discovers(t)' /\ Marked(t)'
    BY <1>7, <2>1, <2>2 DEF Order, InRange, Discovers, Marked, Saving
  <2>4. \A i \in KnownSwaps : Owes(t, i) => Owes(t, i)'
    BY <2>1, <2>2 DEF Owes
  <2> QED
    BY <1>1, <1>3, <1>4, <1>7, <2>2, <2>3, <2>4, PlainStep DEF tables, Known
<1> QED
  BY <1>4, <1>5, <1>6, <1>7 DEF IInv, Quiet

LEMMA ReadPoolsKeeps ==
    ASSUME IInv, NEW t \in Slots, ReadPools(t) PROVE IInv'
<1> DEFINE known == {p \in Pools : Known(p)}
           todo  == {i \in LogsIn(task[t].from, task[t].to) :
                        Kind(i) # "initialize" /\ Known(Pool(i))}
<1>1. TypeOK /\ Mined /\ task \in [Slots -> Tasks] /\ latest \in Nat
  BY TaskTypes DEF IInv, TypeOK
<1>2. PICK f \in Chunkings(known) :
        task' = [task EXCEPT ![t].pc = "scan",
                             ![t].chunk = [p \in Pools |-> IF p \in known THEN f[p] ELSE 0],
                             ![t].todo = todo]
  BY DEF ReadPools
<1>3. [p \in Pools |-> IF p \in known THEN f[p] ELSE 0] \in ChunkOf
  BY ChunkTypes
<1>4. todo \in SUBSET Logs /\ \A i \in todo : Block(i) \in task[t].from..task[t].to
  BY DEF LogsIn
<1>5. task[t].pc = "pools" /\ task[t].to <= latest /\ task[t].to \in Nat /\ task[t].from \in Nat
  BY <1>1 DEF ReadPools, Mined, Tasks
<1>6. \A i \in KnownSwaps : Block(i) \in task[t].from..task[t].to => i \in todo
  BY DEF KnownSwaps, LogsIn
<1> HIDE DEF todo
<1>7. Becomes(t, "scan", task[t].from, task[t].to, todo, task[t].log, task[t].price,
              task[t].metrics)
  BY <1>1, <1>2, <1>3, <1>4, PoolsTask
<1>8. UNCHANGED <<latest, wsUrl, tables, running, overlapped, disturbed, events>>
  BY DEF ReadPools
<1>9. TypeOK'
  BY <1>1, <1>7, <1>8 DEF TypeOK, Becomes, Tasks, ChunkOf, tables
<1>10. Mined'
  <2>1. \A i \in todo : Block(i) <= latest
    BY <1>1, <1>4, <1>5, LogTypes
  <2> QED
    BY <1>1, <1>5, <1>7, <1>8, <2>1, MinedAfter DEF Saving
<1>11. ASSUME Order PROVE Order'
  <2>1. /\ task'[t].pc = "scan" /\ task'[t].from = task[t].from /\ task'[t].to = task[t].to
        /\ task'[t].todo = todo
    BY <1>7 DEF Becomes
  <2>2. Scanning(t) /\ Scanning(t)' /\ ~Discovering(t)'
    BY <1>5, <2>1 DEF Scanning, Discovering
  <2>3. InRange(t)' /\ Discovers(t)' /\ Marked(t)'
    BY <1>4, <1>11, <2>1, <2>2 DEF Order, InRange, Discovers, Marked, Saving
  <2>4. ASSUME NEW i \in KnownSwaps, Owes(t, i) PROVE Owes(t, i)'
    <3>1. Block(i) \in task[t].from..task[t].to
      BY <1>11, <2>2, <2>4 DEF Owes, Order, InRange
    <3> QED
      BY <1>6, <2>1, <3>1 DEF Owes
  <2> QED
    BY <1>1, <1>7, <1>8, <1>11, <2>2, <2>3, <2>4, PlainStep DEF tables, Known
<1> QED
  BY <1>8, <1>9, <1>10, <1>11 DEF IInv, Quiet

\* The steps that only change the task: reading positions or metadata.
LEMMA RecomputeKeeps ==
    ASSUME IInv, NEW t \in Slots, Recompute(t) PROVE IInv'
<1> DEFINE metrics == position[LogPool(t)]
<1>1. TypeOK /\ Mined /\ task \in [Slots -> Tasks]
  BY TaskTypes DEF IInv
<1>2. task[t].pc = "recompute" /\ task' = [task EXCEPT ![t].pc = "meta", ![t].metrics = metrics]
  BY DEF Recompute
<1>3. task[t].log \in Logs /\ task[t].log \notin task[t].todo /\ LogPool(t) \in Pools
  BY <1>1, <1>2, LogTypes DEF Mined, Saving, LogPool
<1>4. metrics \in LogOrNone
  BY <1>1, <1>3 DEF TypeOK
<1> HIDE DEF metrics
<1>5. Becomes(t, "meta", task[t].from, task[t].to, task[t].todo, task[t].log, task[t].price,
              metrics)
  BY <1>1, <1>2, <1>4, RecomputeTask
<1>6. UNCHANGED <<latest, wsUrl, tables, running, overlapped, disturbed, events>>
  BY DEF Recompute
<1>7. TypeOK'
  BY <1>1, <1>5, <1>6 DEF TypeOK, Becomes, Tasks, ChunkOf, tables
<1>8. Mined'
  BY <1>1, <1>3, <1>5, <1>6, MinedAfter DEF Mined
<1>9. ASSUME Order PROVE Order'
  <2>1. /\ task'[t].pc = "meta" /\ task'[t].from = task[t].from /\ task'[t].to = task[t].to
        /\ task'[t].todo = task[t].todo /\ task'[t].log = task[t].log
        /\ task'[t].price = task[t].price
    BY <1>5 DEF Becomes
  <2>2. Scanning(t) /\ Scanning(t)' /\ ~Discovering(t) /\ ~Discovering(t)'
    BY <1>2, <2>1 DEF Scanning, Discovering
  <2>3. InRange(t)'
    BY <1>2, <1>9, <2>1, <2>2 DEF Order, InRange, Saving
  <2>4. Discovers(t)'
    BY <1>2, <1>9, <2>1 DEF Order, Discovers, Saving, Historical
  <2>5. Marked(t)'
    BY <1>2, <1>6, <1>9, <2>1 DEF Order, Marked, LogPool, Known, tables
  <2>6. \A i \in KnownSwaps : Owes(t, i) => Owes(t, i)'
    BY <2>1, <2>2 DEF Owes
  <2> QED
    BY <1>1, <1>5, <1>6, <1>9, <2>2, <2>3, <2>4, <2>5, <2>6, PlainStep DEF tables, Known
<1> QED
  BY <1>6, <1>7, <1>8, <1>9 DEF IInv, Quiet

LEMMA RereadKeeps ==
    ASSUME IInv, NEW t \in Slots, Reread(t) PROVE IInv'
<1> DEFINE price == pool[LogPool(t)].price
<1>1. TypeOK /\ Mined /\ task \in [Slots -> Tasks]
  BY TaskTypes DEF IInv
<1>2. task[t].pc = "reread" /\ task' = [task EXCEPT ![t].pc = "recompute", ![t].price = price]
  BY DEF Reread
<1>3. task[t].log \in Logs /\ task[t].log \notin task[t].todo /\ LogPool(t) \in Pools
  BY <1>1, <1>2, LogTypes DEF Mined, Saving, LogPool
<1>4. price \in LogOrNone
  BY <1>1, <1>3 DEF TypeOK
<1>5. Order => price # 0 /\ Known(LogPool(t))
  BY <1>2 DEF Order, Marked, Known
<1> HIDE DEF price
<1>6. Becomes(t, "recompute", task[t].from, task[t].to, task[t].todo, task[t].log, price,
              task[t].metrics)
  BY <1>1, <1>2, <1>4, RereadTask
<1>7. UNCHANGED <<latest, wsUrl, tables, running, overlapped, disturbed, events>>
  BY DEF Reread
<1>8. TypeOK'
  BY <1>1, <1>6, <1>7 DEF TypeOK, Becomes, Tasks, ChunkOf, tables
<1>9. Mined'
  BY <1>1, <1>3, <1>6, <1>7, MinedAfter DEF Mined
<1>10. ASSUME Order PROVE Order'
  <2>1. /\ task'[t].pc = "recompute" /\ task'[t].from = task[t].from /\ task'[t].to = task[t].to
        /\ task'[t].todo = task[t].todo /\ task'[t].log = task[t].log /\ task'[t].price = price
    BY <1>6 DEF Becomes
  <2>2. Scanning(t) /\ Scanning(t)' /\ ~Discovering(t) /\ ~Discovering(t)'
    BY <1>2, <2>1 DEF Scanning, Discovering
  <2>3. InRange(t)'
    BY <1>2, <1>10, <2>1, <2>2 DEF Order, InRange, Saving
  <2>4. Discovers(t)'
    BY <1>2, <1>10, <2>1 DEF Order, Discovers, Saving, Historical
  <2>5. Marked(t)'
    BY <1>2, <1>5, <1>7, <1>10, <2>1 DEF Marked, LogPool, Known, tables
  <2>6. \A i \in KnownSwaps : Owes(t, i) => Owes(t, i)'
    BY <2>1, <2>2 DEF Owes
  <2> QED
    BY <1>1, <1>6, <1>7, <1>10, <2>2, <2>3, <2>4, <2>5, <2>6, PlainStep DEF tables, Known
<1> QED
  BY <1>7, <1>8, <1>9, <1>10 DEF IInv, Quiet

LEMMA UpsertKeeps ==
    ASSUME IInv, NEW t \in Slots, UpsertPosition(t) PROVE IInv'
<1>1. TypeOK /\ Mined /\ task \in [Slots -> Tasks]
  BY TaskTypes DEF IInv
<1>2. task[t].pc = "upsert" /\ Goto(t, "setCursor") /\ "setCursor" \in Points
  BY DEF UpsertPosition, Points
<1>3. /\ task[t].log \in Logs /\ task[t].log \notin task[t].todo
      /\ LogPool(t) \in Pools /\ task[t].metrics \in LogOrNone
  BY <1>1, <1>2, LogTypes DEF Mined, Saving, LogPool, Tasks
<1>4. Becomes(t, "setCursor", task[t].from, task[t].to, task[t].todo, task[t].log,
              task[t].price, task[t].metrics)
  BY <1>1, <1>2, GotoTask
<1>5. /\ UNCHANGED <<latest, wsUrl, pool, stored, cursor, running, overlapped, disturbed, events>>
      /\ position' = [position EXCEPT ![LogPool(t)] = task[t].metrics]
  BY DEF UpsertPosition
<1>6. position' \in [Pools -> LogOrNone]
  BY <1>1, <1>3, <1>5 DEF TypeOK
<1>7. TypeOK'
  BY <1>1, <1>4, <1>5, <1>6 DEF TypeOK, Becomes, Tasks, ChunkOf
<1>8. Mined'
  BY <1>1, <1>3, <1>4, <1>5, MinedAfter DEF Mined
<1>9. ASSUME Order PROVE Order'
  <2>1. /\ task'[t].pc = "setCursor" /\ task'[t].from = task[t].from /\ task'[t].to = task[t].to
        /\ task'[t].todo = task[t].todo /\ task'[t].log = task[t].log
    BY <1>4 DEF Becomes
  <2>2. Kind(task[t].log) # "initialize"
    BY <1>2, <1>9 DEF Order, Discovers, Saving
  <2>3. Scanning(t) /\ Scanning(t)' /\ ~Discovering(t) /\ ~Discovering(t)'
    BY <1>2, <2>1, <2>2 DEF Scanning, Discovering
  <2>4. InRange(t)'
    BY <1>2, <1>9, <2>1, <2>3 DEF Order, InRange, Saving
  <2>5. Discovers(t)'
    BY <2>1, <2>2 DEF Discovers
  <2>6. Marked(t)'
    BY <1>2, <1>5, <1>9, <2>1 DEF Order, Marked, LogPool, Known
  <2>7. \A i \in KnownSwaps : Owes(t, i) => Owes(t, i)'
    BY <2>1, <2>3 DEF Owes
  <2> QED
    BY <1>1, <1>4, <1>5, <1>9, <2>3, <2>4, <2>5, <2>6, <2>7, PlainStep DEF Known
<1> QED
  BY <1>5, <1>7, <1>8, <1>9 DEF IInv, Quiet

LEMMA SetCursorKeeps ==
    ASSUME IInv, NEW t \in Slots, SetCursor(t) PROVE IInv'
<1>1. TypeOK /\ Mined /\ task \in [Slots -> Tasks]
  BY TaskTypes DEF IInv
<1>2. task[t].pc = "setCursor" /\ cursor' = Block(task[t].log)
  BY DEF SetCursor
<1>3. /\ task[t].log \in Logs /\ task[t].log \notin task[t].todo
      /\ Block(task[t].log) \in Nat /\ Kind(task[t].log) \in Kinds
  BY <1>1, <1>2, LogTypes DEF Mined, Saving
<1>4. /\ Kind(task[t].log) = "modify" => Goto(t, "reread")
      /\ Kind(task[t].log) # "modify" => Drop(t, task[t].log)
  BY DEF SetCursor
<1>5. PICK pc \in Points, log \in LogOrNone, price \in LogOrNone, metrics \in LogOrNone :
        /\ Becomes(t, pc, task[t].from, task[t].to, task[t].todo, log, price, metrics)
        /\ Kind(task[t].log) = "modify" => pc = "reread" /\ log = task[t].log
        /\ Kind(task[t].log) # "modify" => pc = AfterDrop(task[t].log)
  <2>1. "reread" \in Points
    BY DEF Points
  <2>2. CASE Kind(task[t].log) = "modify"
    <3>1. Becomes(t, "reread", task[t].from, task[t].to, task[t].todo, task[t].log,
                  task[t].price, task[t].metrics)
      BY <1>1, <1>4, <2>1, <2>2, GotoTask
    <3>2. /\ task[t].log \in LogOrNone /\ task[t].price \in LogOrNone
          /\ task[t].metrics \in LogOrNone
      BY <1>1 DEF Tasks
    <3> QED
      BY <2>1, <2>2, <3>1, <3>2
  <2>3. CASE Kind(task[t].log) # "modify"
    <3>1. task[t].todo \ {task[t].log} = task[t].todo
      BY <1>3
    <3>2. Becomes(t, AfterDrop(task[t].log), task[t].from, task[t].to, task[t].todo, 0, 0, 0)
      BY <1>1, <1>3, <1>4, <2>3, <3>1, DropTask
    <3>3. AfterDrop(task[t].log) \in Points /\ 0 \in LogOrNone
      BY DEF AfterDrop, Points, LogOrNone
    <3> QED
      BY <2>3, <3>2, <3>3
  <2> QED
    BY <2>2, <2>3
<1>6. UNCHANGED <<latest, wsUrl, pool, stored, position, running, overlapped, disturbed, events>>
  BY DEF SetCursor
<1>7. TypeOK'
  BY <1>1, <1>2, <1>3, <1>5, <1>6 DEF TypeOK, Becomes, Tasks, ChunkOf
<1>8. Mined'
  <2>1. pc \in Saving => log \in Logs /\ log \notin task[t].todo
    BY <1>3, <1>5 DEF Saving, AfterDrop
  <2> QED
    BY <1>1, <1>5, <1>6, <2>1, MinedAfter DEF Mined
<1>9. ASSUME Order PROVE Order'
  <2>1. \A u \in Slots \ {t} : task'[u] = task[u]
    BY <1>5 DEF Becomes
  <2>2. /\ task'[t].pc = pc /\ task'[t].from = task[t].from /\ task'[t].to = task[t].to
        /\ task'[t].todo = task[t].todo /\ task'[t].log = log
        /\ pc \in {"reread", "discover", "scan"}
        /\ pc = "reread" => log = task[t].log /\ Kind(task[t].log) = "modify"
        /\ pc = "discover" <=> Kind(task[t].log) = "initialize"
    BY <1>5 DEF Becomes, AfterDrop
  <2>3. /\ Scanning(t) /\ Scanning(t)' /\ (Discovering(t)' => Discovering(t))
        /\ (Discovering(t) => Discovering(t)')
    BY <1>2, <2>2 DEF Scanning, Discovering
  <2>4. /\ cursor' \in task[t].from..task[t].to /\ task[t].from >= StartBlock
        /\ task[t].from \in Nat /\ task[t].to \in Nat
    BY <1>1, <1>2, <1>9, <2>3 DEF Order, InRange, Saving, Tasks
  <2>5. Lone'
    <3>1. Active' = Active
      BY <1>2, <2>1, <2>2 DEF Active
    <3> QED
      BY <1>6, <1>9, <3>1 DEF Order, Lone, Historical
  <2>6. InRange(t)'
    BY <1>2, <1>9, <2>2, <2>3 DEF Order, InRange, Saving
  <2>7. Discovers(t)'
    BY <1>2, <1>9, <2>2 DEF Order, Discovers, Saving, Historical
  <2>8. Marked(t)'
    BY <1>2, <1>6, <1>9, <2>2 DEF Order, Marked, LogPool, Known
  <2>9. Behind(t)'
    BY <2>2, <2>4 DEF Behind
  <2>10. ASSUME NEW u \in Slots \ {t} PROVE Behind(u)'
    <3>1. Historical(u) => task[u].pc = "none"
      BY <1>2, <1>9 DEF Order, Lone, Active
    <3> QED
      BY <2>1, <3>1 DEF Behind, Discovering, Historical
  <2>11. KnownSwaps' = KnownSwaps /\ \A p \in Pools : Known(p)' <=> Known(p)
    BY <1>6 DEF KnownSwaps, Known
  <2>12. \A i \in KnownSwaps : Owes(t, i) => Owes(t, i)'
    BY <2>2, <2>3 DEF Owes
  <2>13. ASSUME NEW i \in KnownSwaps, Block(i) <= cursor' \/ Passed(t, i)' PROVE Covered(i)
    <3>1. Block(i) <= task[t].to
      BY <2>2, <2>4, <2>13, LogTypes DEF Passed, KnownSwaps
    <3> QED
      BY <1>9, <2>3, <3>1 DEF Order, Covers, Passed
  <2>14. Covers'
    BY <1>6, <1>9, <2>1, <2>11, <2>12, <2>13, CoversAfter
  <2>15. cursor' >= StartBlock
    BY <2>4, IndexerAssumption
  <2> QED
    BY <1>1, <1>9, <2>1, <2>5, <2>6, <2>7, <2>8, <2>9, <2>10, <2>11, <2>14, <2>15, OrderAfter
       DEF Order
<1> QED
  BY <1>6, <1>7, <1>8, <1>9 DEF IInv, Quiet

\* A swap's metadata is written, or a liquidity change is done with.
LEMMA AfterMetaTask ==
    ASSUME TypeOK, Mined, NEW t \in Slots, task[t].pc = "meta", AfterMeta(t)
    PROVE  \E pc \in Points, log \in LogOrNone, price \in LogOrNone, metrics \in LogOrNone :
              /\ Becomes(t, pc, task[t].from, task[t].to, task[t].todo, log, price, metrics)
              /\ Kind(task[t].log) = "swap" => pc = "setCursor" /\ log = task[t].log
              /\ Kind(task[t].log) # "swap" => pc = AfterDrop(task[t].log)
<1>1. task \in [Slots -> Tasks] /\ task[t].log \in Logs /\ task[t].log \notin task[t].todo
  BY TaskTypes DEF Mined, Saving
<1>2. CASE Kind(task[t].log) = "swap"
  <2>1. "setCursor" \in Points /\ Goto(t, "setCursor")
    BY <1>2 DEF Points, AfterMeta
  <2>2. Becomes(t, "setCursor", task[t].from, task[t].to, task[t].todo, task[t].log,
                task[t].price, task[t].metrics)
    BY <1>1, <2>1, GotoTask
  <2>3. /\ task[t].log \in LogOrNone /\ task[t].price \in LogOrNone
        /\ task[t].metrics \in LogOrNone
    BY <1>1 DEF Tasks
  <2> QED
    BY <1>2, <2>1, <2>2, <2>3
<1>3. CASE Kind(task[t].log) # "swap"
  <2>1. task[t].todo \ {task[t].log} = task[t].todo
    BY <1>1
  <2>2. Drop(t, task[t].log)
    BY <1>3 DEF AfterMeta
  <2>3. Becomes(t, AfterDrop(task[t].log), task[t].from, task[t].to, task[t].todo, 0, 0, 0)
    BY <1>1, <2>1, <2>2, DropTask
  <2>4. AfterDrop(task[t].log) \in Points /\ 0 \in LogOrNone
    BY DEF AfterDrop, Points, LogOrNone
  <2> QED
    BY <1>3, <2>3, <2>4
<1> QED
  BY <1>2, <1>3

LEMMA WriteMetaKeeps ==
    ASSUME IInv, NEW t \in Slots, WriteMeta(t) PROVE IInv'
<1>1. TypeOK /\ Mined /\ task \in [Slots -> Tasks]
  BY TaskTypes DEF IInv
<1>2. task[t].pc = "meta" /\ AfterMeta(t)
  BY DEF WriteMeta
<1>3. /\ task[t].log \in Logs /\ task[t].log \notin task[t].todo /\ LogPool(t) \in Pools
      /\ task[t].price \in LogOrNone /\ task[t].metrics \in LogOrNone
  BY <1>1, <1>2, LogTypes DEF Mined, Saving, LogPool, Tasks
<1>4. PICK pc \in Points, log \in LogOrNone, price \in LogOrNone, metrics \in LogOrNone :
        /\ Becomes(t, pc, task[t].from, task[t].to, task[t].todo, log, price, metrics)
        /\ Kind(task[t].log) = "swap" => pc = "setCursor" /\ log = task[t].log
        /\ Kind(task[t].log) # "swap" => pc = AfterDrop(task[t].log)
  BY <1>1, <1>2, AfterMetaTask
<1>5. /\ UNCHANGED <<latest, wsUrl, stored, position, cursor, running, overlapped, disturbed,
                     events>>
      /\ pool' = [pool EXCEPT ![LogPool(t)] = [price |-> task[t].price,
                                               metrics |-> task[t].metrics]]
  BY DEF WriteMeta
<1>6. pool' \in [Pools -> [price : LogOrNone, metrics : LogOrNone]]
  BY <1>1, <1>3, <1>5 DEF TypeOK
<1>7. TypeOK'
  BY <1>1, <1>4, <1>5, <1>6 DEF TypeOK, Becomes, Tasks, ChunkOf
<1>8. Mined'
  <2>1. pc \in Saving => log \in Logs /\ log \notin task[t].todo
    BY <1>3, <1>4 DEF Saving, AfterDrop
  <2> QED
    BY <1>1, <1>4, <1>5, <2>1, MinedAfter DEF Mined
<1>9. ASSUME Order PROVE Order'
  <2>1. Kind(task[t].log) # "initialize" /\ task[t].price # 0 /\ Known(LogPool(t))
    BY <1>2, <1>9 DEF Order, Discovers, Saving, Marked
  <2>2. /\ task'[t].pc = pc /\ task'[t].from = task[t].from /\ task'[t].to = task[t].to
        /\ task'[t].todo = task[t].todo /\ task'[t].log = log
        /\ pc \in {"setCursor", "scan"}
        /\ pc = "setCursor" => log = task[t].log /\ Kind(task[t].log) = "swap"
    BY <1>4, <2>1 DEF Becomes, AfterDrop
  <2>3. Scanning(t) /\ Scanning(t)' /\ ~Discovering(t) /\ ~Discovering(t)'
    BY <1>2, <2>2 DEF Scanning, Discovering
  <2>4. InRange(t)'
    BY <1>2, <1>9, <2>2, <2>3 DEF Order, InRange, Saving
  <2>5. Discovers(t)' /\ Marked(t)'
    BY <2>2 DEF Discovers, Marked, Saving
  <2>6. \A p \in Pools : Known(p)' <=> Known(p)
    BY <1>1, <1>3, <1>5, <2>1 DEF Known, TypeOK
  <2>7. \A i \in KnownSwaps : Owes(t, i) => Owes(t, i)'
    BY <2>2, <2>3 DEF Owes
  <2> QED
    BY <1>1, <1>4, <1>5, <1>9, <2>3, <2>4, <2>5, <2>6, <2>7, PlainStep
<1> QED
  BY <1>5, <1>7, <1>8, <1>9 DEF IInv, Quiet

-------------------------------------------------------------------------------
(* A log is taken up *)

LEMMA UnknownPoolKeeps ==
    ASSUME IInv, NEW t \in Slots, NEW i \in task[t].todo, SwapOrModifyOfUnknownPool(t, i)
    PROVE  IInv'
<1>1. TypeOK /\ Mined /\ task \in [Slots -> Tasks] /\ i \in Logs
  BY TaskTypes DEF IInv, Tasks
<1>2. task[t].pc = "scan" /\ ~Known(Pool(i)) /\ AfterDrop(i) = "scan"
  BY DEF SwapOrModifyOfUnknownPool, IsNext, AfterDrop
<1>3. Becomes(t, "scan", task[t].from, task[t].to, task[t].todo \ {i}, 0, 0, 0)
  BY <1>1, <1>2, DropTask DEF SwapOrModifyOfUnknownPool
<1>4. UNCHANGED <<latest, wsUrl, tables, running, overlapped, disturbed, events>>
  BY DEF SwapOrModifyOfUnknownPool
<1>5. TypeOK'
  BY <1>1, <1>3, <1>4 DEF TypeOK, Becomes, Tasks, ChunkOf, tables
<1>6. Mined'
  BY <1>1, <1>3, <1>4, MinedAfter DEF Mined, Saving
<1>7. ASSUME Order PROVE Order'
  <2>1. /\ task'[t].pc = "scan" /\ task'[t].from = task[t].from /\ task'[t].to = task[t].to
        /\ task'[t].todo = task[t].todo \ {i}
    BY <1>3 DEF Becomes
  <2>2. Scanning(t) /\ Scanning(t)' /\ ~Discovering(t) /\ ~Discovering(t)'
    BY <1>2, <2>1 DEF Scanning, Discovering
  <2>3. InRange(t)' /\ Discovers(t)' /\ Marked(t)'
    BY <1>7, <2>1, <2>2 DEF Order, InRange, Discovers, Marked, Saving
  <2>4. \A j \in KnownSwaps : Owes(t, j) => Owes(t, j)'
    BY <1>2, <2>1, <2>2 DEF Owes, KnownSwaps
  <2> QED
    BY <1>1, <1>3, <1>4, <1>7, <2>2, <2>3, <2>4, PlainStep DEF tables, Known
<1> QED
  BY <1>4, <1>5, <1>6, <1>7 DEF IInv, Quiet

LEMMA SaveSwapKeeps ==
    ASSUME IInv, NEW t \in Slots, NEW i \in task[t].todo, SaveSwap(t, i) PROVE IInv'
<1>1. TypeOK /\ Mined /\ task \in [Slots -> Tasks] /\ i \in Logs
  BY TaskTypes DEF IInv, Tasks
<1>2. task[t].pc = "scan" /\ Known(Pool(i)) /\ Kind(i) = "swap" /\ i # 0
  BY <1>1, LogTypes DEF SaveSwap, IsNext
<1>3. "recompute" \in Points /\ i \in LogOrNone /\ 0 \in LogOrNone
  BY <1>1 DEF Points, LogOrNone
<1>4. Becomes(t, "recompute", task[t].from, task[t].to, task[t].todo \ {i}, i, i, 0)
  BY <1>1, <1>3, TakeTask DEF SaveSwap
<1>5. /\ UNCHANGED <<latest, wsUrl, pool, position, cursor, running, overlapped, disturbed,
                     events>>
      /\ stored' = stored \cup {i}
  BY DEF SaveSwap
<1>6. TypeOK'
  BY <1>1, <1>2, <1>4, <1>5 DEF TypeOK, Becomes, Tasks, ChunkOf
<1>7. Mined'
  BY <1>1, <1>4, <1>5, MinedAfter DEF Mined
<1>8. ASSUME Order PROVE Order'
  <2>1. /\ task'[t].pc = "recompute" /\ task'[t].from = task[t].from
        /\ task'[t].to = task[t].to /\ task'[t].todo = task[t].todo \ {i}
        /\ task'[t].log = i /\ task'[t].price = i
    BY <1>4 DEF Becomes
  <2>2. Scanning(t) /\ Scanning(t)' /\ ~Discovering(t) /\ ~Discovering(t)'
    BY <1>2, <2>1 DEF Scanning, Discovering
  <2>3. InRange(t)'
    BY <1>8, <2>1, <2>2 DEF Order, InRange
  <2>4. Discovers(t)' /\ Marked(t)'
    BY <1>2, <1>5, <2>1 DEF Discovers, Marked, LogPool, Known
  <2>5. \A j \in KnownSwaps : Owes(t, j) => j \in stored' \/ Owes(t, j)'
    BY <1>5, <2>1, <2>2 DEF Owes
  <2> QED
    BY <1>1, <1>4, <1>5, <1>8, <2>2, <2>3, <2>4, <2>5, PlainStep DEF Known
<1> QED
  BY <1>5, <1>6, <1>7, <1>8 DEF IInv, Quiet

LEMMA SaveModifyKeeps ==
    ASSUME IInv, NEW t \in Slots, NEW i \in task[t].todo, SaveModify(t, i) PROVE IInv'
<1> DEFINE metrics == LastModify(Pool(i))
<1>1. TypeOK /\ Mined /\ task \in [Slots -> Tasks] /\ i \in Logs /\ latest \in Nat
  BY TaskTypes DEF IInv, Tasks, TypeOK
<1>2. task[t].pc = "scan" /\ Known(Pool(i)) /\ Kind(i) = "modify"
  BY DEF SaveModify, IsNext
<1>3. metrics \in LogOrNone
  BY <1>1, <1>2, LastModifyIs DEF Mined, LogOrNone
<1>4. Take(t, i, "upsert", 0, metrics) /\ "upsert" \in Points /\ 0 \in LogOrNone
  BY DEF SaveModify, Points, LogOrNone
<1> HIDE DEF metrics
<1>5. Becomes(t, "upsert", task[t].from, task[t].to, task[t].todo \ {i}, i, 0, metrics)
  BY <1>1, <1>3, <1>4, TakeTask
<1>6. UNCHANGED <<latest, wsUrl, tables, running, overlapped, disturbed, events>>
  BY DEF SaveModify
<1>7. TypeOK'
  BY <1>1, <1>5, <1>6 DEF TypeOK, Becomes, Tasks, ChunkOf, tables
<1>8. Mined'
  BY <1>1, <1>5, <1>6, MinedAfter DEF Mined
<1>9. ASSUME Order PROVE Order'
  <2>1. /\ task'[t].pc = "upsert" /\ task'[t].from = task[t].from
        /\ task'[t].to = task[t].to /\ task'[t].todo = task[t].todo \ {i} /\ task'[t].log = i
    BY <1>5 DEF Becomes
  <2>2. Scanning(t) /\ Scanning(t)' /\ ~Discovering(t) /\ ~Discovering(t)'
    BY <1>2, <2>1 DEF Scanning, Discovering
  <2>3. InRange(t)'
    BY <1>9, <2>1, <2>2 DEF Order, InRange
  <2>4. Discovers(t)' /\ Marked(t)'
    BY <1>2, <1>6, <2>1 DEF Discovers, Marked, LogPool, Known, tables
  <2>5. \A j \in KnownSwaps : Owes(t, j) => Owes(t, j)'
    BY <1>2, <2>1, <2>2 DEF Owes, KnownSwaps
  <2> QED
    BY <1>1, <1>5, <1>6, <1>9, <2>2, <2>3, <2>4, <2>5, PlainStep DEF Known, tables
<1> QED
  BY <1>6, <1>7, <1>8, <1>9 DEF IInv, Quiet

LEMMA SaveDonateKeeps ==
    ASSUME IInv, NEW t \in Slots, NEW i \in task[t].todo, SaveDonate(t, i) PROVE IInv'
<1>1. TypeOK /\ Mined /\ task \in [Slots -> Tasks] /\ i \in Logs
  BY TaskTypes DEF IInv, Tasks
<1>2. task[t].pc = "scan" /\ Kind(i) = "donate"
  BY DEF SaveDonate, IsNext
<1>3. Take(t, i, "setCursor", 0, 0) /\ "setCursor" \in Points /\ 0 \in LogOrNone
  BY DEF SaveDonate, Points, LogOrNone
<1>4. Becomes(t, "setCursor", task[t].from, task[t].to, task[t].todo \ {i}, i, 0, 0)
  BY <1>1, <1>3, TakeTask
<1>5. UNCHANGED <<latest, wsUrl, tables, running, overlapped, disturbed, events>>
  BY DEF SaveDonate
<1>6. TypeOK'
  BY <1>1, <1>4, <1>5 DEF TypeOK, Becomes, Tasks, ChunkOf, tables
<1>7. Mined'
  BY <1>1, <1>4, <1>5, MinedAfter DEF Mined
<1>8. ASSUME Order PROVE Order'
  <2>1. /\ task'[t].pc = "setCursor" /\ task'[t].from = task[t].from
        /\ task'[t].to = task[t].to /\ task'[t].todo = task[t].todo \ {i} /\ task'[t].log = i
    BY <1>4 DEF Becomes
  <2>2. Scanning(t) /\ Scanning(t)' /\ ~Discovering(t) /\ ~Discovering(t)'
    BY <1>2, <2>1 DEF Scanning, Discovering
  <2>3. InRange(t)'
    BY <1>8, <2>1, <2>2 DEF Order, InRange
  <2>4. Discovers(t)' /\ Marked(t)'
    BY <1>2, <2>1 DEF Discovers, Marked
  <2>5. \A j \in KnownSwaps : Owes(t, j) => Owes(t, j)'
    BY <1>2, <2>1, <2>2 DEF Owes, KnownSwaps
  <2> QED
    BY <1>1, <1>4, <1>5, <1>8, <2>2, <2>3, <2>4, <2>5, PlainStep DEF Known, tables
<1> QED
  BY <1>5, <1>6, <1>7, <1>8 DEF IInv, Quiet

\* A pool that is found is owed all its swaps: they are not before its Initialize.
LEMMA SaveInitializeKeeps ==
    ASSUME IInv, NEW t \in Slots, NEW i \in task[t].todo, SaveInitialize(t, i) PROVE IInv'
<1>1. TypeOK /\ Mined /\ task \in [Slots -> Tasks] /\ i \in Logs
  BY TaskTypes DEF IInv, Tasks
<1>2. task[t].pc = "discover" /\ Kind(i) = "initialize" /\ Pool(i) \in Pools /\ i # 0
  BY <1>1, LogTypes DEF SaveInitialize, IsNext
<1>3. "setCursor" \in Points /\ i \in LogOrNone /\ 0 \in LogOrNone
  BY <1>1 DEF Points, LogOrNone
<1>4. Becomes(t, "setCursor", task[t].from, task[t].to, task[t].todo \ {i}, i, 0, 0)
  BY <1>1, <1>3, TakeTask DEF SaveInitialize
<1>5. /\ UNCHANGED <<latest, wsUrl, stored, position, cursor, running, overlapped, disturbed,
                     events>>
      /\ pool' = [pool EXCEPT ![Pool(i)] = [price |-> i, metrics |-> 0]]
  BY DEF SaveInitialize
<1>6. pool' \in [Pools -> [price : LogOrNone, metrics : LogOrNone]]
  BY <1>1, <1>2, <1>3, <1>5 DEF TypeOK
<1>7. TypeOK'
  BY <1>1, <1>4, <1>5, <1>6 DEF TypeOK, Becomes, Tasks, ChunkOf
<1>8. Mined'
  BY <1>1, <1>4, <1>5, MinedAfter DEF Mined
<1>9. ASSUME Order PROVE Order'
  <2>1. \A u \in Slots \ {t} : task'[u] = task[u]
    BY <1>4 DEF Becomes
  <2>2. /\ task'[t].pc = "setCursor" /\ task'[t].from = task[t].from
        /\ task'[t].to = task[t].to /\ task'[t].todo = task[t].todo \ {i} /\ task'[t].log = i
    BY <1>4 DEF Becomes
  <2>3. Scanning(t) /\ Scanning(t)' /\ Discovering(t) /\ Discovering(t)'
    BY <1>2, <2>2 DEF Scanning, Discovering
  <2>4. /\ Block(i) \in task[t].from..task[t].to /\ task[t].from >= StartBlock
        /\ task[t].from \in Nat /\ task[t].to \in Nat /\ cursor \in Nat
    BY <1>1, <1>9, <2>3 DEF Order, InRange, Tasks, TypeOK
  <2>5. Historical(t) /\ Active = {t} /\ cursor <= task[t].to
    BY <1>2, <1>9, <2>3 DEF Order, Discovers, Lone, Active, Behind
  <2>6. Lone'
    <3>1. Active' = Active
      BY <1>2, <2>1, <2>2 DEF Active
    <3> QED
      BY <1>5, <1>9, <3>1 DEF Order, Lone, Historical
  <2>7. \A p \in Pools : Known(p)' <=> (Known(p) \/ p = Pool(i))
    BY <1>1, <1>2, <1>5 DEF Known, TypeOK
  <2>8. ASSUME NEW j \in KnownSwaps'
        PROVE  /\ Block(j) \in Nat /\ Block(j) >= StartBlock
               /\ j \in KnownSwaps \/ Block(j) >= task[t].from
    <3>1. j \in Logs /\ Kind(j) = "swap" /\ Pool(j) \in Pools /\ Block(j) \in Nat
      BY LogTypes DEF KnownSwaps
    <3>2. CASE Known(Pool(j))
      BY <1>9, <3>1, <3>2 DEF KnownSwaps, Order
    <3>3. CASE Pool(j) = Pool(i)
      <4>1. Block(i) <= Block(j) /\ Block(i) \in Nat
        BY <1>1, <1>2, <3>1, <3>3, InitializedBefore, LogTypes
      <4> QED
        BY <2>4, <3>1, <4>1, IndexerAssumption
    <3> QED
      BY <2>7, <3>1, <3>2, <3>3 DEF KnownSwaps
  <2>9. InRange(t)'
    BY <1>9, <2>2, <2>3, <2>4 DEF Order, InRange
  <2>10. Discovers(t)' /\ Marked(t)'
    BY <1>2, <2>2, <2>5 DEF Discovers, Marked, Historical
  <2>11. Behind(t)'
    BY <1>5, <2>2, <2>5 DEF Behind
  <2>12. ASSUME NEW u \in Slots \ {t}
         PROVE  task'[u].pc = "none" /\ Behind(u)' /\ ~Scanning(u)'
    BY <2>1, <2>5 DEF Active, Behind, Discovering, Scanning
  <2>13. ASSUME NEW j \in KnownSwaps',
                Block(j) <= cursor' \/ \E u \in Slots : Passed(u, j)'
         PROVE  Covered(j)'
    <3>1. Block(j) <= cursor \/ Passed(t, j)'
      <4>1. \A u \in Slots \ {t} : ~Passed(u, j)'
        BY <2>12 DEF Passed
      <4> QED
        BY <1>5, <2>13, <4>1
    <3>2. Block(j) <= task[t].to
      BY <2>2, <2>4, <2>5, <2>8, <3>1 DEF Passed
    <3>3. CASE j \in KnownSwaps
      <4>1. Covered(j)
        BY <1>9, <2>3, <3>2, <3>3 DEF Order, Covers, Passed
      <4>2. Owes(t, j) => Owes(t, j)'
        BY <1>2, <2>2, <2>3, <3>3 DEF Owes, KnownSwaps
      <4> QED
        BY <1>5, <2>1, <4>1, <4>2, CoveredKept
    <3>4. CASE Block(j) >= task[t].from
      <4>1. Owes(t, j)'
        BY <2>2, <2>3, <2>4, <2>8, <3>2, <3>4 DEF Owes
      <4> QED
        BY <4>1 DEF Covered
    <3> QED
      BY <2>8, <3>3, <3>4
  <2>14. Covers'
    BY <2>13 DEF Covers
  <2> QED
    BY <1>1, <1>5, <1>9, <2>1, <2>6, <2>7, <2>8, <2>9, <2>10, <2>11, <2>12, <2>14, OrderAfter
       DEF Order
<1> QED
  BY <1>5, <1>7, <1>8, <1>9 DEF IInv, Quiet

-------------------------------------------------------------------------------
(* Trouble, the chain, and the invariant *)

LEMMA ThrowKeeps ==
    ASSUME IInv, NEW t \in Slots, Throw(t) PROVE IInv'
<1>1. TypeOK /\ Mined /\ task \in [Slots -> Tasks] /\ latest \in Nat
  BY TaskTypes DEF IInv, TypeOK
<1>2. Becomes(t, "none", 0, 0, {}, 0, 0, 0)
  BY <1>1, FinishedTask DEF Throw
<1>3. UNCHANGED <<latest, wsUrl, tables, running, overlapped>> /\ disturbed' = TRUE
  BY DEF Throw
<1>4. events' \in 0..MaxEvents
  BY <1>1, IndexerAssumption DEF Throw, Unusual, TypeOK
<1>5. TypeOK'
  BY <1>1, <1>2, <1>3, <1>4 DEF TypeOK, Becomes, Tasks, ChunkOf, tables
<1>6. Mined'
  BY <1>1, <1>2, <1>3, MinedAfter DEF Saving
<1> QED
  BY <1>3, <1>5, <1>6 DEF IInv, Quiet

LEMMA MetaNotWrittenKeeps ==
    ASSUME IInv, NEW t \in Slots, MetaNotWritten(t) PROVE IInv'
<1>1. TypeOK /\ Mined /\ task \in [Slots -> Tasks]
  BY TaskTypes DEF IInv
<1>2. task[t].pc = "meta" /\ AfterMeta(t)
  BY DEF MetaNotWritten
<1>3. task[t].log \in Logs /\ task[t].log \notin task[t].todo
  BY <1>1, <1>2 DEF Mined, Saving
<1>4. PICK pc \in Points, log \in LogOrNone, price \in LogOrNone, metrics \in LogOrNone :
        /\ Becomes(t, pc, task[t].from, task[t].to, task[t].todo, log, price, metrics)
        /\ Kind(task[t].log) = "swap" => pc = "setCursor" /\ log = task[t].log
        /\ Kind(task[t].log) # "swap" => pc = AfterDrop(task[t].log)
  BY <1>1, <1>2, AfterMetaTask
<1>5. UNCHANGED <<latest, wsUrl, tables, running, overlapped>> /\ disturbed' = TRUE
  BY DEF MetaNotWritten
<1>6. events' \in 0..MaxEvents
  BY <1>1, IndexerAssumption DEF MetaNotWritten, Unusual, TypeOK
<1>7. TypeOK'
  BY <1>1, <1>4, <1>5, <1>6 DEF TypeOK, Becomes, Tasks, ChunkOf, tables
<1>8. Mined'
  <2>1. pc \in Saving => log \in Logs /\ log \notin task[t].todo
    BY <1>3, <1>4 DEF Saving, AfterDrop
  <2> QED
    BY <1>1, <1>4, <1>5, <2>1, MinedAfter DEF Mined
<1> QED
  BY <1>5, <1>7, <1>8 DEF IInv, Quiet

LEMMA LogTroubleKeeps ==
    ASSUME IInv, NEW t \in Slots, NEW i \in task[t].todo,
           SwapNotInserted(t, i) \/ PositionNotFound(t, i)
    PROVE  IInv'
<1>1. TypeOK /\ Mined /\ task \in [Slots -> Tasks] /\ i \in Logs
  BY TaskTypes DEF IInv, Tasks
<1>2. UNCHANGED <<latest, wsUrl, tables, running, overlapped>> /\ disturbed' = TRUE
  BY DEF SwapNotInserted, PositionNotFound
<1>3. events' \in 0..MaxEvents
  BY <1>1, IndexerAssumption DEF SwapNotInserted, PositionNotFound, Unusual, TypeOK
<1>4. /\ "recompute" \in Points /\ i \in LogOrNone /\ 0 \in LogOrNone
      /\ Kind(i) = "modify" => AfterDrop(i) = "scan"
  BY <1>1 DEF Points, LogOrNone, AfterDrop
<1>5. CASE SwapNotInserted(t, i)
  <2>1. Becomes(t, "recompute", task[t].from, task[t].to, task[t].todo \ {i}, i, i, 0)
    BY <1>1, <1>4, <1>5, TakeTask DEF SwapNotInserted
  <2>2. TypeOK'
    BY <1>1, <1>2, <1>3, <2>1 DEF TypeOK, Becomes, Tasks, ChunkOf, tables
  <2>3. Mined'
    BY <1>1, <1>2, <2>1, MinedAfter DEF Mined
  <2> QED
    BY <1>2, <2>2, <2>3 DEF IInv, Quiet
<1>6. CASE PositionNotFound(t, i)
  <2>1. Becomes(t, "scan", task[t].from, task[t].to, task[t].todo \ {i}, 0, 0, 0)
    BY <1>1, <1>4, <1>6, DropTask DEF PositionNotFound
  <2>2. TypeOK'
    BY <1>1, <1>2, <1>3, <2>1 DEF TypeOK, Becomes, Tasks, ChunkOf, tables
  <2>3. Mined'
    BY <1>1, <1>2, <2>1, MinedAfter DEF Mined, Saving
  <2> QED
    BY <1>2, <2>2, <2>3 DEF IInv, Quiet
<1> QED
  BY <1>5, <1>6

\* The order of things does not speak of the chain, nor of the counters.
LEMMA OrderStutters ==
    ASSUME Order, UNCHANGED <<cursor, pool, running, task, stored>> PROVE Order'
<1>1. Lone'
  BY DEF Order, Lone, Active, Historical
<1>2. KnownSwaps' = KnownSwaps
  BY DEF KnownSwaps, Known
<1>3. ASSUME NEW t \in Slots PROVE InRange(t)' /\ Discovers(t)' /\ Marked(t)' /\ Behind(t)'
  BY DEF Order, InRange, Discovers, Marked, Behind, Scanning, Discovering, Historical, LogPool,
         Known
<1>4. Covers'
  <2>1. \A i \in Logs, t \in Slots : Owes(t, i)' = Owes(t, i) /\ Passed(t, i)' = Passed(t, i)
    BY DEF Owes, Passed, Scanning, Discovering
  <2>2. \A i \in KnownSwaps : Covered(i)' <=> Covered(i)
    BY <2>1 DEF Covered, KnownSwaps
  <2> QED
    BY <1>2, <2>1, <2>2 DEF Order, Covers, KnownSwaps
<1> QED
  BY <1>1, <1>2, <1>3, <1>4 DEF Order

LEMMA MineKeeps ==
    ASSUME IInv, NEW D \in SUBSET Notified, MineAndNotify(D), events' \in 0..MaxEvents
    PROVE  IInv'
<1>1. TypeOK /\ Mined /\ task \in [Slots -> Tasks] /\ latest \in Nat /\ latest' = latest + 1
  BY TaskTypes DEF IInv, TypeOK, MineAndNotify
<1>2. UNCHANGED <<wsUrl, tables, running>>
  BY DEF MineAndNotify
<1>3. overlapped' \in BOOLEAN /\ disturbed' \in BOOLEAN /\ (~disturbed' => ~disturbed)
  BY <1>1 DEF TypeOK, MineAndNotify, Starts
<1>4. \A i \in D : i \in Logs /\ Block(i) = latest + 1
  BY <1>1, LogTypes DEF Notified, LogsIn
<1>5. ASSUME NEW t \in Slots
      PROVE  /\ t \in D => task'[t] = [NoTask EXCEPT
                              !.pc = IF Kind(t) = "initialize" THEN "discover" ELSE "scan",
                              !.from = Block(t), !.to = Block(t), !.todo = {t}]
             /\ t \notin D => task'[t] = task[t]
  BY DEF MineAndNotify
<1>6. NoTask \in Tasks
  BY DEF NoTask, Tasks, Points, LogOrNone, ChunkOf
<1>7. ASSUME NEW t \in Slots
      PROVE  /\ task'[t] \in Tasks /\ task'[t].to <= latest'
             /\ \A i \in task'[t].todo : Block(i) <= latest'
             /\ task'[t].pc \in Saving =>
                   task'[t].log \in Logs /\ task'[t].log \notin task'[t].todo
  <2>1. CASE t \in D
    <3> DEFINE pc == IF Kind(t) = "initialize" THEN "discover" ELSE "scan"
               new == [NoTask EXCEPT !.pc = pc, !.from = Block(t), !.to = Block(t),
                                     !.todo = {t}]
    <3>1. pc \in Points /\ pc \notin Saving
      BY DEF Points, Saving
    <3>2. Block(t) \in Nat /\ {t} \in SUBSET Logs /\ Block(t) = latest'
      BY <1>1, <1>4, <2>1, LogTypes
    <3> HIDE DEF pc
    <3>3. new \in Tasks /\ new.to = Block(t) /\ new.todo = {t} /\ new.pc = pc
      BY <1>6, <3>1, <3>2 DEF Tasks
    <3>4. task'[t] = new
      BY <1>5, <2>1 DEF pc
    <3> QED
      BY <3>1, <3>2, <3>3, <3>4
  <2>2. CASE t \notin D
    <3>1. task'[t] = task[t]
      BY <1>5, <2>2
    <3>2. task[t].to \in Nat /\ task[t].todo \in SUBSET Logs /\ task[t].to <= latest
      BY <1>1 DEF Tasks, Mined
    <3>3. \A i \in task[t].todo : Block(i) \in Nat /\ Block(i) <= latest
      BY <1>1, <3>2, LogTypes DEF Mined
    <3> QED
      BY <1>1, <3>1, <3>2, <3>3 DEF Mined
  <2> QED
    BY <2>1, <2>2
<1>8. task' \in [Slots -> Tasks]
  BY <1>7 DEF MineAndNotify
<1>9. TypeOK'
  BY <1>1, <1>2, <1>3, <1>8 DEF TypeOK, Tasks, ChunkOf, tables
<1>10. Mined'
  BY <1>7 DEF Mined
<1>11. ASSUME Order, Quiet' PROVE Order'
  <2>1. D = {}
    BY <1>2, <1>11 DEF Quiet, Notified
  <2>2. task' = task
    BY <1>1, <1>5, <1>8, <2>1
  <2> QED
    BY <1>2, <1>11, <2>2, OrderStutters DEF tables
<1> QED
  BY <1>2, <1>3, <1>9, <1>10, <1>11 DEF IInv, Quiet

LEMMA RestartKeeps ==
    ASSUME IInv, Restart PROVE IInv'
<1>1. TypeOK /\ Mined /\ task \in [Slots -> Tasks] /\ latest \in Nat
  BY TaskTypes DEF IInv, TypeOK
<1>2. UNCHANGED <<latest, wsUrl, tables, overlapped>> /\ running' = FALSE
  BY DEF Restart
<1>3. /\ events' \in 0..MaxEvents
      /\ disturbed' = (disturbed \/ Active \ Maintenance # {})
  BY <1>1, IndexerAssumption DEF Restart, Unusual, TypeOK
<1>4. \A t \in Slots : task'[t] = IF t \in Maintenance THEN task[t] ELSE NoTask
  BY DEF Restart
<1>5. NoTask \in Tasks
  BY DEF NoTask, Tasks, Points, LogOrNone, ChunkOf
<1>6. NoTask.pc = "none" /\ NoTask.to = 0 /\ NoTask.todo = {}
  BY DEF NoTask
<1>7. task' \in [Slots -> Tasks]
  BY <1>1, <1>4, <1>5 DEF Restart
<1>8. TypeOK'
  BY <1>1, <1>2, <1>3, <1>7 DEF TypeOK, Tasks, ChunkOf, tables
<1>9. Mined'
  BY <1>1, <1>2, <1>4, <1>6 DEF Mined, Saving
<1>10. ASSUME Order, Quiet' PROVE Order'
  <2>1. \A t \in Slots : t \notin Maintenance => task[t].pc = "none"
    BY <1>3, <1>10 DEF Quiet, Active
  <2>2. \A t \in Slots : t \notin Maintenance => task'[t].pc = "none" /\ task'[t].todo = {}
    BY <1>4, <1>6
  <2>3. \A t \in Slots : t \in Maintenance => task'[t] = task[t]
    BY <1>4
  <2>4. Active' = Active /\ \A t \in Active : t \in Maintenance
    BY <2>1, <2>2, <2>3 DEF Active
  <2>5. Lone'
    BY <1>2, <1>10, <2>4, IndexerAssumption DEF Order, Lone, Historical
  <2>6. KnownSwaps' = KnownSwaps /\ \A p \in Pools : Known(p)' <=> Known(p)
    BY <1>2 DEF KnownSwaps, Known, tables
  <2>7. ASSUME NEW t \in Slots PROVE InRange(t)' /\ Discovers(t)' /\ Marked(t)' /\ Behind(t)'
    <3>1. CASE t \in Maintenance
      <4>1. InRange(t)' /\ Discovers(t)' /\ Marked(t)'
        BY <1>1, <1>10, <2>3, <2>6, <3>1, OthersKeep DEF Order
      <4>2. Behind(t)'
        BY <1>2, <1>10, <2>3, <3>1 DEF Order, Behind, Discovering, Historical, tables
      <4> QED
        BY <4>1, <4>2
    <3>2. CASE t \notin Maintenance
      BY <2>2, <3>2 DEF InRange, Discovers, Marked, Behind, Scanning, Discovering, Saving
    <3> QED
      BY <3>1, <3>2
  <2>8. ASSUME NEW t \in Slots, NEW i \in KnownSwaps
        PROVE  (Passed(t, i)' => Passed(t, i)) /\ (Owes(t, i) => Owes(t, i)')
    <3>1. CASE t \in Maintenance
      BY <2>3, <3>1 DEF Passed, Owes, Scanning, Discovering
    <3>2. CASE t \notin Maintenance
      <4>1. ~Passed(t, i)'
        BY <2>2, <3>2 DEF Passed, Scanning
      <4>2. task[t].todo = {} /\ ~Discovering(t)
        BY <1>10, <2>1, <3>2 DEF Order, InRange, Scanning, Discovering
      <4> QED
        BY <4>1, <4>2 DEF Owes
    <3> QED
      BY <3>1, <3>2
  <2>9. \A i \in KnownSwaps : Covered(i) => Covered(i)'
    BY <1>2, <2>8 DEF Covered, tables
  <2>10. Covers'
    BY <1>2, <1>10, <2>6, <2>8, <2>9 DEF Order, Covers, tables
  <2> QED
    BY <1>2, <1>10, <2>5, <2>6, <2>7, <2>10 DEF Order, tables
<1> QED
  BY <1>2, <1>3, <1>8, <1>9, <1>10 DEF IInv, Quiet

LEMMA ResetKeeps ==
    ASSUME IInv, Reset PROVE IInv'
<1>1. TypeOK /\ Mined /\ cursor' = 0
  BY DEF IInv, Reset
<1>2. UNCHANGED <<latest, wsUrl, pool, stored, position, running, task, overlapped, disturbed>>
  BY DEF Reset
<1>3. events' \in 0..MaxEvents
  BY <1>1, IndexerAssumption DEF Reset, Unusual, TypeOK
<1>4. TypeOK'
  BY <1>1, <1>2, <1>3 DEF TypeOK
<1>5. Mined'
  BY <1>1, <1>2 DEF Mined
<1>6. ASSUME Order PROVE Order'
  <2>1. Lone'
    BY <1>2, <1>6 DEF Order, Lone, Active, Historical
  <2>2. KnownSwaps' = KnownSwaps
    BY <1>2 DEF KnownSwaps, Known
  <2>3. ASSUME NEW t \in Slots PROVE InRange(t)' /\ Discovers(t)' /\ Marked(t)'
    BY <1>2, <1>6 DEF Order, InRange, Discovers, Marked, Scanning, Historical, LogPool, Known
  <2>4. ASSUME NEW t \in Slots PROVE Behind(t)'
    <3>1. task[t].from \in Nat /\ task[t].to \in Nat
      BY <1>1 DEF TypeOK
    <3> QED
      BY <1>1, <1>2, <3>1 DEF Behind, Discovering, Historical
  <2>5. \A i \in KnownSwaps, t \in Slots :
            Owes(t, i)' = Owes(t, i) /\ Passed(t, i)' = Passed(t, i)
    BY <1>2 DEF Owes, Passed, Scanning, Discovering
  <2>6. \A i \in KnownSwaps : (Covered(i)' <=> Covered(i)) /\ ~(Block(i) <= cursor')
    BY <1>1, <1>2, <2>5, LogTypes DEF Covered, KnownSwaps
  <2>7. Covers'
    BY <1>6, <2>2, <2>5, <2>6 DEF Order, Covers
  <2> QED
    BY <1>1, <1>2, <1>6, <2>1, <2>2, <2>3, <2>4, <2>7 DEF Order
<1> QED
  BY <1>2, <1>4, <1>5, <1>6 DEF IInv, Quiet

LEMMA InitHolds == Init => IInv
<1> SUFFICES ASSUME Init PROVE IInv
  OBVIOUS
<1>1. NoTask \in Tasks
  BY DEF NoTask, Tasks, Points, LogOrNone, ChunkOf
<1>2. NoTask.pc = "none" /\ NoTask.to = 0 /\ NoTask.todo = {}
  BY DEF NoTask
<1>3. task \in [Slots -> Tasks] /\ \A t \in Slots : task[t] = NoTask
  BY <1>1 DEF Init
<1>4. Unknown \in [price : LogOrNone, metrics : LogOrNone] /\ 0 \in LogOrNone
  BY DEF Unknown, LogOrNone
<1>5. TypeOK
  <2>1. wsUrl \in BOOLEAN /\ events \in 0..MaxEvents
    BY IndexerAssumption DEF Init
  <2>2. pool \in [Pools -> [price : LogOrNone, metrics : LogOrNone]]
    BY <1>4 DEF Init
  <2>3. position \in [Pools -> LogOrNone]
    BY <1>4 DEF Init
  <2>4. latest \in Nat /\ cursor \in Nat /\ stored = {}
    BY DEF Init
  <2>5. running \in BOOLEAN /\ overlapped \in BOOLEAN /\ disturbed \in BOOLEAN
    BY DEF Init
  <2> QED
    BY <1>3, <2>1, <2>2, <2>3, <2>4, <2>5 DEF TypeOK, Tasks, ChunkOf
<1>6. Mined
  BY <1>2, <1>3 DEF Init, Mined, Saving
<1>7. KnownSwaps = {}
  BY LogTypes DEF Init, KnownSwaps, Known, Unknown
<1>8. Active = {}
  BY <1>2, <1>3 DEF Active
<1>9. Order
  BY <1>2, <1>3, <1>7, <1>8 DEF Init, Order, Lone, InRange, Discovers, Marked, Behind, Covers,
        Scanning, Discovering, Saving
<1> QED
  BY <1>5, <1>6, <1>9 DEF IInv

LEMMA StepKeeps ==
    ASSUME IInv, NEW t \in Slots, Step(t) PROVE IInv'
<1>1. ASSUME NEW i \in task[t].todo,
             \/ SaveInitialize(t, i) \/ SwapOrModifyOfUnknownPool(t, i) \/ SaveSwap(t, i)
             \/ SaveModify(t, i) \/ SaveDonate(t, i)
      PROVE  IInv'
  BY <1>1, SaveInitializeKeeps, UnknownPoolKeeps, SaveSwapKeeps, SaveModifyKeeps, SaveDonateKeeps
<1> QED
  BY <1>1, ReadCursorKeeps, NothingNewKeeps, ReadHeightKeeps, EndDiscoveryKeeps, ReadPoolsKeeps,
     EndScanKeeps, RecomputeKeeps, WriteMetaKeeps, UpsertKeeps, RereadKeeps, SetCursorKeeps
     DEF Step

LEMMA NextKeeps == IInv /\ [Next]_vars => IInv'
<1> SUFFICES ASSUME IInv, [Next]_vars PROVE IInv'
  OBVIOUS
<1>1. CASE UNCHANGED vars
  <2>1. TypeOK' /\ Mined'
    BY <1>1 DEF IInv, TypeOK, Mined, vars, tables
  <2> QED
    BY <1>1, <2>1, OrderStutters DEF IInv, Quiet, vars, tables
<1>2. ASSUME NEW t \in Slots, Begin(t) \/ StartMaintenance(t) \/ Step(t) \/ Trouble(t)
      PROVE  IInv'
  BY <1>2, StartKeeps, StepKeeps, ThrowKeeps, MetaNotWrittenKeeps, LogTroubleKeeps DEF Trouble
<1>3. ASSUME Mine PROVE IInv'
  <2>1. events' \in 0..MaxEvents
    BY <1>3 DEF Mine, IInv, TypeOK
  <2> QED
    BY <1>3, <2>1, MineKeeps DEF Mine
<1>4. ASSUME LoseNotifications PROVE IInv'
  <2>1. events' \in 0..MaxEvents
    BY <1>4, IndexerAssumption DEF LoseNotifications, Unusual, IInv, TypeOK
  <2> QED
    BY <1>4, <2>1, MineKeeps DEF LoseNotifications
<1> QED
  BY <1>1, <1>2, <1>3, <1>4, RestartKeeps, ResetKeeps DEF Next

\* The inductive invariant: what every task in progress has still to do, and that the cursor and
\* the tasks leave no swap of a known pool behind them (uniswapV4/watcher.ts, persistence.ts).
THEOREM Invariance == Spec => []IInv
BY InitHolds, NextKeeps, PTL DEF Spec

\* Every variable keeps its type, the position found of a pool being that of its last change.
THEOREM TypeCorrect == Spec => []TypeOK
<1>1. IInv => TypeOK
  BY DEF IInv
<1> QED
  BY <1>1, Invariance, PTL

\* Polling alone, a watcher that nothing cuts short has every swap up to its cursor in the table,
\* though the cursor moves back and forth and syncs overlap (updateCursor, syncHistoricalEvents).
THEOREM NoSwapIsLost == Spec => []PollingLosesNothing
<1>1. IInv => PollingLosesNothing
  <2> SUFFICES ASSUME IInv, Quiet, Idle, NEW p \in Pools, Known(p), NEW i \in Swaps(p),
                      Block(i) <= cursor
               PROVE  i \in stored
    BY DEF PollingLosesNothing, CursorMeansScanned, Quiet
  <2>1. i \in KnownSwaps
    BY DEF KnownSwaps, Swaps
  <2>2. Covered(i)
    BY <2>1 DEF IInv, Order, Covers
  <2>3. \A t \in Slots : ~Owes(t, i)
    BY DEF IInv, Order, InRange, Scanning, Owes, Discovering, Idle, Active
  <2> QED
    BY <2>2, <2>3 DEF Covered
<1> QED
  BY <1>1, Invariance, PTL

-------------------------------------------------------------------------------
(***************************************************************************)
(* What the pool rows show.  While one task at most is at work, and none   *)
(* was cut short, what is wrong in the rows is what that task will still   *)
(* put right.                                                              *)
(***************************************************************************)
\* What the tables hold, whoever is at work, and that a task that has ended has nothing in hand.
Kept ==
    /\ \A j \in stored : Block(j) <= latest /\ Known(Pool(j))
    /\ \A p \in Pools : position[p] # 0 =>
          /\ Kind(position[p]) = "modify" /\ Pool(position[p]) = p
          /\ Block(position[p]) <= latest /\ Known(p)
    /\ \A p \in Pools : Known(p) =>
          Kind(pool[p].price) = "initialize" \/ pool[p].price \in stored
    /\ \A t \in Slots : task[t].pc \in {"none", "cursor", "height"} => task[t].todo = {}

PriceRight(j)   == j <= pool[Pool(j)].price
MetricsRight(p) == Known(p) => pool[p].metrics = position[p]

\* The task takes Initialize logs, the other logs of its range not being in its hands yet.
Finding(t) ==
    \/ task[t].pc = "discover"
    \/ task[t].pc = "setCursor" /\ Kind(task[t].log) = "initialize"

\* It will read the logs of its range, of every pool known by then.
Ahead(t) == task[t].pc = "pools" \/ (Historical(t) /\ Finding(t))

WillTake(t, j) ==
    \/ j \in task[t].todo
    \/ Ahead(t) /\ Block(j) \in task[t].from..task[t].to

\* It is about to write the price of a swap, or the metrics, of pool p.
Pricing(t, p) ==
    task[t].pc \in {"recompute", "meta"} /\ Kind(task[t].log) = "swap" /\ LogPool(t) = p

Measuring(t, p) ==
    /\ \/ task[t].pc \in {"upsert", "reread", "recompute", "meta"}
       \/ task[t].pc = "setCursor" /\ Kind(task[t].log) = "modify"
    /\ LogPool(t) = p

\* The blocks it reads reach as far as what is stored, and what it has still to take.
Reaches(t) ==
    /\ task[t].pc \notin {"none", "cursor", "height"} =>
          /\ \A i \in task[t].todo : Block(i) \in task[t].from..task[t].to
          /\ \A j \in stored : Block(j) <= task[t].to
    /\ Ahead(t) => \A p \in Pools : position[p] # 0 => Block(position[p]) <= task[t].to

\* It takes Initialize logs first and only then; the handler of one finds the pool new.
Sorted(t) ==
    /\ \A i \in task[t].todo : Kind(i) = "initialize" <=> Finding(t)
    /\ Finding(t) /\ ~Historical(t) =>
          \A i \in task[t].todo : position[Pool(i)] = 0 /\ \A j \in stored : Pool(j) # Pool(i)

\* It takes the swaps of a pool in their order: of those stored, all after it are still to come.
Ordered(t) ==
    /\ \A i \in task[t].todo, j \in stored :
          Kind(i) = "swap" /\ Pool(j) = Pool(i) /\ j > i => j \in task[t].todo
    /\ \A j \in stored :
          Pricing(t, Pool(j)) /\ j > task[t].log => j \in task[t].todo

\* What it has in hand is what it will have to write.
Holds(t) ==
    /\ \A p \in Pools : Measuring(t, p) => Known(p)
    /\ task[t].pc \in {"upsert", "reread"} => Kind(task[t].log) = "modify"
    /\ task[t].pc = "upsert" =>
          /\ task[t].metrics \in Logs /\ Block(task[t].metrics) <= latest
          /\ Kind(task[t].metrics) = "modify" /\ Pool(task[t].metrics) = LogPool(t)
    /\ task[t].pc \in {"recompute", "meta"} =>
          \/ /\ Kind(task[t].log) = "swap"
             /\ task[t].price = task[t].log /\ task[t].log \in stored
          \/ /\ Kind(task[t].log) = "modify"
             /\ task[t].price = pool[LogPool(t)].price
    /\ task[t].pc = "meta" => task[t].metrics = position[LogPool(t)]

\* What is not right in the pool rows it will put right.
Repairs(t) ==
    /\ \A j \in stored :
          PriceRight(j) \/ WillTake(t, j) \/ (Pricing(t, Pool(j)) /\ j <= task[t].log)
    /\ \A p \in Pools :
          \/ MetricsRight(p) \/ Measuring(t, p)
          \/ \E j \in Logs : j = position[p] /\ WillTake(t, j)

Working(t) == Reaches(t) /\ Sorted(t) /\ Ordered(t) /\ Holds(t) /\ Repairs(t)

Settled == (\A j \in stored : PriceRight(j)) /\ (\A p \in Pools : MetricsRight(p))

Calm ==
    /\ Kept
    /\ \/ Idle /\ Settled
       \/ \E t \in Slots : Active = {t} /\ Working(t)

Undisturbed == ~overlapped /\ ~disturbed

-------------------------------------------------------------------------------
(* One task at a time *)

LEMMA AtWork ==
    ASSUME Calm, NEW t \in Slots, task[t].pc # "none"
    PROVE  Kept /\ Active = {t} /\ Working(t)
<1>1. t \in Active
  BY DEF Active
<1> QED
  BY <1>1 DEF Calm, Idle

LEMMA CalmAfter ==
    ASSUME NEW t \in Slots, Active = {t}, \A u \in Slots \ {t} : task'[u] = task[u],
           task'[t].pc # "none", Kept', Working(t)'
    PROVE  Calm'
<1>1. Active' = {t}
  BY DEF Active
<1> QED
  BY <1>1 DEF Calm

LEMMA KeptAfter ==
    ASSUME Kept, NEW t \in Slots, \A u \in Slots \ {t} : task'[u] = task[u],
           task'[t].pc \in {"none", "cursor", "height"} => task'[t].todo = {},
           UNCHANGED <<latest, pool, position, stored>>
    PROVE  Kept'
<1>1. \A u \in Slots : task'[u].pc \in {"none", "cursor", "height"} => task'[u].todo = {}
  BY DEF Kept
<1> QED
  BY <1>1 DEF Kept, Known

\* A task that takes no more logs and has none in hand leaves everything right.
LEMMA NothingToRepair ==
    ASSUME NEW t \in Slots, Working(t), task[t].todo = {}, ~Ahead(t),
           task[t].pc \notin Saving
    PROVE  Settled
<1>1. \A j : ~WillTake(t, j)
  BY DEF WillTake
<1>2. \A p : ~Pricing(t, p) /\ ~Measuring(t, p)
  BY DEF Pricing, Measuring, Saving
<1> QED
  BY <1>1, <1>2 DEF Working, Repairs, Settled

LEMMA SettledKept ==
    ASSUME Settled, UNCHANGED <<pool, position, stored>> PROVE Settled'
BY DEF Settled, PriceRight, MetricsRight, Known

\* Nothing is left to do when nothing is wrong.
LEMMA SettledRepairs == ASSUME NEW t \in Slots, Settled' PROVE Repairs(t)'
BY DEF Settled, Repairs

LEMMA DivMonotone ==
    ASSUME NEW a \in Nat, NEW b \in Nat, NEW n \in Nat \ {0}, a <= b
    PROVE  a \div n <= b \div n
OBVIOUS

\* Of two logs of one kind and one pool the first is taken first.
LEMMA InTurn ==
    ASSUME TypeOK, NEW t \in Slots, Reaches(t), NEW i \in task[t].todo, IsNext(t, i),
           NEW j \in task[t].todo, j # i, Kind(j) = Kind(i), Pool(j) = Pool(i)
    PROVE  i < j
<1> DEFINE a == (Block(i) - task[t].from) \div Batch
           b == (Block(j) - task[t].from) \div Batch
<1>1. i \in Logs /\ j \in Logs /\ task[t].from \in Nat
  BY DEF TypeOK
<1>2. Block(i) \in task[t].from..task[t].to /\ Block(j) \in task[t].from..task[t].to
  BY DEF IsNext, Reaches
<1>3. Precedes(Key(t, i), Key(t, j))
  BY DEF IsNext
<1>4. PICK n \in 1..4 : Key(t, i)[n] < Key(t, j)[n] /\
                        \A m \in 1..(n - 1) : Key(t, i)[m] = Key(t, j)[m]
  BY <1>3 DEF Precedes
<1>5. /\ Key(t, i)[1] = a /\ Key(t, j)[1] = b
      /\ Key(t, i)[2] = Key(t, j)[2] /\ Key(t, i)[3] = Key(t, j)[3]
      /\ Key(t, i)[4] = i /\ Key(t, j)[4] = j
  BY DEF Key
<1> HIDE DEF a, b
<1>6. i \in Nat /\ j \in Nat /\ Block(i) \in Nat /\ Block(j) \in Nat
  BY <1>1, LogTypes
<1>7. ASSUME j < i PROVE b <= a /\ a \in Int /\ b \in Int
  <2>1. Block(j) <= Block(i)
    BY <1>1, <1>7, IndexerAssumption
  <2>2. Block(j) - task[t].from \in Nat /\ Block(i) - task[t].from \in Nat
    BY <1>1, <1>2, <1>6
  <2>3. Block(j) - task[t].from <= Block(i) - task[t].from
    BY <1>1, <1>6, <2>1
  <2>4. Batch \in Nat \ {0}
    BY IndexerAssumption
  <2>5. b <= a
    BY <2>2, <2>3, <2>4, DivMonotone DEF a, b
  <2> QED
    BY <2>2, <2>4, <2>5 DEF a, b
<1>8. Key(t, i)[2] \in Nat /\ Key(t, i)[3] \in Nat
  <2>1. task[t].chunk[Pool(i)] \in Nat
    BY <1>1, LogTypes DEF TypeOK
  <2>2. Rank[Kind(i)] \in Nat
    BY <1>1, LogTypes DEF Rank, Kinds
  <2> QED
    BY <2>1, <2>2 DEF Key
<1>9. CASE n = 4
  BY <1>4, <1>5, <1>9
<1>10. CASE n = 1
  BY <1>1, <1>4, <1>5, <1>6, <1>7, <1>10
<1>11. CASE n = 3
  BY <1>4, <1>5, <1>8, <1>11
<1>12. CASE n = 2
  BY <1>4, <1>5, <1>8, <1>12
<1> QED
  BY <1>9, <1>10, <1>11, <1>12

-------------------------------------------------------------------------------
(* Each step of the one task *)

Steady == UNCHANGED <<latest, pool, position, stored>>

\* A task that has found nothing wrong, and reads its range.
LEMMA FreshWork ==
    ASSUME NEW t \in Slots, Settled', task'[t].pc \in {"cursor", "height"}, task'[t].todo = {}
    PROVE  Working(t)'
<1>1. Reaches(t)' /\ Sorted(t)' /\ Ordered(t)' /\ Holds(t)'
  BY DEF Reaches, Sorted, Ordered, Holds, Ahead, Finding, Pricing, Measuring
<1> QED
  BY <1>1, SettledRepairs DEF Working

LEMMA StartCalm ==
    ASSUME IInv, Calm, NEW t \in Slots, Begin(t) \/ StartMaintenance(t),
           ~overlapped' /\ ~disturbed'
    PROVE  Calm'
<1>1. Start(t) /\ task \in [Slots -> Tasks]
  BY TaskTypes DEF Begin, StartWatcher, StartSync, StartMaintenance, IInv
<1>2. task[t].pc = "none" /\ Goto(t, "cursor") /\ "cursor" \in Points /\ Idle
  BY <1>1 DEF Start, Goto, Points, Starts
<1>3. Steady
  BY <1>1 DEF Start, Steady, tables
<1>4. Becomes(t, "cursor", task[t].from, task[t].to, task[t].todo, task[t].log, task[t].price,
              task[t].metrics)
  BY <1>1, <1>2, GotoTask
<1>5. Kept /\ Settled
  <2>1. \A u \in Slots : Active # {u}
    BY <1>2 DEF Idle
  <2> QED
    BY <2>1 DEF Calm
<1>6. Active' = {t}
  BY <1>2, <1>4 DEF Becomes, Active, Idle
<1>7. task'[t].pc = "cursor" /\ task'[t].todo = {}
  BY <1>2, <1>4, <1>5 DEF Becomes, Kept
<1>8. Kept'
  BY <1>3, <1>4, <1>5, <1>7, KeptAfter DEF Becomes, Steady
<1>9. Working(t)'
  BY <1>3, <1>5, <1>7, SettledKept, FreshWork DEF Steady
<1> QED
  BY <1>6, <1>8, <1>9 DEF Calm

LEMMA ReadCursorCalm ==
    ASSUME IInv, Calm, NEW t \in Slots, ReadCursor(t) PROVE Calm'
<1> DEFINE from == IF cursor = 0 THEN 0 ELSE cursor + 1
<1>1. task \in [Slots -> Tasks] /\ from \in Nat
  BY TaskTypes DEF IInv, TypeOK
<1>2. task[t].pc = "cursor" /\ task' = [task EXCEPT ![t].pc = "height", ![t].from = from]
  BY DEF ReadCursor
<1> HIDE DEF from
<1>3. Becomes(t, "height", from, task[t].to, task[t].todo, task[t].log, task[t].price,
              task[t].metrics)
  BY <1>1, <1>2, CursorTask
<1>4. Kept /\ Active = {t} /\ Working(t) /\ Steady
  BY <1>2, AtWork DEF ReadCursor, Steady, tables
<1>5. task[t].todo = {} /\ task'[t].todo = {} /\ task'[t].pc = "height"
  BY <1>2, <1>3, <1>4 DEF Kept, Becomes
<1>6. Settled
  BY <1>2, <1>4, <1>5, NothingToRepair DEF Ahead, Finding, Saving
<1>7. Kept' /\ Working(t)'
  BY <1>3, <1>4, <1>5, <1>6, KeptAfter, SettledKept, FreshWork DEF Becomes, Steady
<1> QED
  BY <1>3, <1>4, <1>5, <1>7, CalmAfter DEF Becomes

LEMMA FinishCalm ==
    ASSUME IInv, Calm, NEW t \in Slots, Finish(t), task[t].pc # "none", task[t].todo = {},
           ~Ahead(t), task[t].pc \notin Saving
    PROVE  Calm'
<1>1. task \in [Slots -> Tasks]
  BY TaskTypes DEF IInv
<1>2. Becomes(t, "none", 0, 0, {}, 0, 0, 0)
  BY <1>1, FinishedTask DEF Finish
<1>3. Kept /\ Active = {t} /\ Working(t) /\ Steady
  BY AtWork DEF Finish, Steady, tables
<1>4. Settled'
  BY <1>3, NothingToRepair, SettledKept DEF Steady
<1>5. Kept'
  BY <1>2, <1>3, KeptAfter DEF Becomes, Steady
<1>6. Idle'
  BY <1>2, <1>3 DEF Becomes, Active, Idle
<1> QED
  BY <1>4, <1>5, <1>6 DEF Calm

LEMMA EndCalm ==
    ASSUME IInv, Calm, NEW t \in Slots, NothingNew(t) \/ EndScan(t) PROVE Calm'
<1>1. Finish(t) /\ task[t].pc \in {"height", "scan", "discover"}
  BY DEF NothingNew, EndScan
<1>2. Kept
  BY DEF Calm
<1>3. task[t].todo = {} /\ ~Ahead(t)
  BY <1>2 DEF NothingNew, EndScan, Ahead, Finding, Kept
<1> QED
  BY <1>1, <1>3, FinishCalm DEF Saving

\* The range goes to the last block there is.
LEMMA ReadHeightCalm ==
    ASSUME IInv, Calm, NEW t \in Slots, ReadHeight(t) PROVE Calm'
<1> DEFINE from == FromBlock(t)
           pc   == IF Historical(t) THEN "discover" ELSE "pools"
           todo == IF Historical(t)
                   THEN {i \in LogsIn(FromBlock(t), latest) :
                            Kind(i) = "initialize" /\ Pool(i) \in Tracked}
                   ELSE {}
<1>1. TypeOK /\ task \in [Slots -> Tasks] /\ cursor \in Nat /\ latest \in Nat
  BY TaskTypes DEF IInv, TypeOK
<1>2. task[t].pc = "height" /\ from <= latest
  BY DEF ReadHeight
<1>3. task' = [task EXCEPT ![t].from = from, ![t].to = latest, ![t].pc = pc, ![t].todo = todo]
  BY DEF ReadHeight
<1>4. from \in Nat /\ pc \in Points
  BY <1>1, IndexerAssumption DEF FromBlock, Tasks, Points
<1>5. todo \in SUBSET Logs
  BY DEF LogsIn
<1>6. /\ \A i \in todo : Block(i) \in from..latest /\ Kind(i) = "initialize"
      /\ ~Historical(t) => todo = {}
  BY DEF LogsIn
<1> HIDE DEF from, todo
<1>7. Becomes(t, pc, from, latest, todo, task[t].log, task[t].price, task[t].metrics)
  BY <1>1, <1>3, <1>4, <1>5, HeightTask
<1>8. Kept /\ Active = {t} /\ Working(t) /\ Steady
  BY <1>2, AtWork DEF ReadHeight, Steady, tables
<1>9. Settled'
  <2>1. task[t].todo = {} /\ ~Ahead(t)
    BY <1>2, <1>8 DEF Kept, Ahead, Finding
  <2> QED
    BY <1>2, <1>8, <2>1, NothingToRepair, SettledKept DEF Saving, Steady
<1>10. /\ task'[t].pc = pc /\ task'[t].from = from /\ task'[t].to = latest
       /\ task'[t].todo = todo /\ pc \in {"discover", "pools"}
  BY <1>7 DEF Becomes
<1>11. Kept'
  BY <1>7, <1>8, <1>10, KeptAfter DEF Becomes, Steady
<1>12. Reaches(t)'
  BY <1>6, <1>8, <1>10 DEF Reaches, Kept, Steady
<1>13. Sorted(t)'
  BY <1>6, <1>10 DEF Sorted, Finding, Historical
<1>14. Ordered(t)' /\ Holds(t)'
  BY <1>6, <1>10 DEF Ordered, Holds, Pricing, Measuring
<1>15. Working(t)'
  BY <1>9, <1>12, <1>13, <1>14, SettledRepairs DEF Working
<1> QED
  BY <1>7, <1>8, <1>10, <1>11, <1>15, CalmAfter DEF Becomes

LEMMA EndDiscoveryCalm ==
    ASSUME IInv, Calm, NEW t \in Slots, EndDiscovery(t) PROVE Calm'
<1>1. task \in [Slots -> Tasks]
  BY TaskTypes DEF IInv
<1>2. task[t].pc = "discover" /\ task[t].todo = {} /\ Historical(t) /\ Goto(t, "pools")
  BY DEF EndDiscovery, Goto
<1>3. Becomes(t, "pools", task[t].from, task[t].to, task[t].todo, task[t].log, task[t].price,
              task[t].metrics)
  BY <1>1, <1>2, GotoTask DEF Points
<1>4. Kept /\ Active = {t} /\ Working(t) /\ Steady
  BY <1>2, AtWork DEF EndDiscovery, Steady, tables
<1>5. /\ task'[t].pc = "pools" /\ task'[t].from = task[t].from /\ task'[t].to = task[t].to
      /\ task'[t].todo = {} /\ Ahead(t) /\ Ahead(t)'
  BY <1>2, <1>3 DEF Becomes, Ahead, Finding
<1>6. Kept'
  BY <1>3, <1>4, <1>5, KeptAfter DEF Becomes, Steady
<1>7. Reaches(t)' /\ Sorted(t)'
  BY <1>2, <1>4, <1>5 DEF Working, Reaches, Sorted, Finding, Steady
<1>8. Ordered(t)' /\ Holds(t)'
  BY <1>5 DEF Ordered, Holds, Pricing, Measuring
<1>9. Repairs(t)'
  BY <1>2, <1>4, <1>5 DEF Working, Repairs, WillTake, Pricing, Measuring, Steady, PriceRight,
                          MetricsRight, Known
<1> QED
  BY <1>3, <1>4, <1>5, <1>6, <1>7, <1>8, <1>9, CalmAfter DEF Becomes, Working

\* The pools of what is stored are known, so all of it in the range is taken again.
LEMMA ReadPoolsCalm ==
    ASSUME IInv, Calm, NEW t \in Slots, ReadPools(t) PROVE Calm'
<1> DEFINE known == {p \in Pools : Known(p)}
           todo  == {i \in LogsIn(task[t].from, task[t].to) :
                        Kind(i) # "initialize" /\ Known(Pool(i))}
<1>1. task \in [Slots -> Tasks] /\ stored \in SUBSET {i \in Logs : Kind(i) = "swap"}
      /\ position \in [Pools -> LogOrNone]
  BY TaskTypes DEF IInv, TypeOK
<1>2. PICK f \in Chunkings(known) :
         task' = [task EXCEPT
                    ![t].pc = "scan",
                    ![t].chunk = [p \in Pools |-> IF p \in known THEN f[p] ELSE 0],
                    ![t].todo = todo]
  BY DEF ReadPools
<1>3. known \in SUBSET Pools /\ todo \in SUBSET Logs
  BY DEF LogsIn
<1>4. \A i \in Logs : i \in todo <=> Block(i) \in task[t].from..task[t].to
                                     /\ Kind(i) # "initialize" /\ Known(Pool(i))
  BY DEF LogsIn
<1> HIDE DEF known, todo
<1>5. Becomes(t, "scan", task[t].from, task[t].to, todo, task[t].log, task[t].price,
              task[t].metrics)
  BY <1>1, <1>2, <1>3, ChunkTypes, PoolsTask
<1>6. task[t].pc = "pools" /\ Steady
  BY DEF ReadPools, Steady, tables
<1>7. Kept /\ Active = {t} /\ Working(t)
  BY <1>6, AtWork
<1>8. /\ task'[t].pc = "scan" /\ task'[t].from = task[t].from /\ task'[t].to = task[t].to
      /\ task'[t].todo = todo
  BY <1>5 DEF Becomes
<1>9. Kept'
  BY <1>5, <1>6, <1>7, <1>8, KeptAfter DEF Becomes, Steady
<1>10. Reaches(t)'
  BY <1>3, <1>4, <1>6, <1>7, <1>8 DEF Working, Reaches, Ahead, Finding, Steady
<1>11. Sorted(t)'
  BY <1>3, <1>4, <1>8 DEF Sorted, Finding
<1>12. \A j \in stored : Block(j) \in task[t].from..task[t].to => j \in todo
  BY <1>1, <1>4, <1>7 DEF Kept
<1>13. Ordered(t)'
  <2>1. ASSUME NEW i \in todo, NEW j \in stored, j > i PROVE j \in todo
    <3>1. i \in Logs /\ j \in Logs /\ task[t].from \in Nat /\ task[t].to \in Nat
      BY <1>1, <1>3 DEF Tasks
    <3>2. Block(i) <= Block(j) /\ Block(i) >= task[t].from /\ Block(j) <= task[t].to
      BY <1>4, <1>6, <1>7, <2>1, <3>1, LogTypes, IndexerAssumption DEF Working, Reaches
    <3> QED
      BY <1>12, <3>1, <3>2, LogTypes
  <2> QED
    BY <1>6, <1>8, <2>1 DEF Ordered, Pricing, Steady
<1>14. Holds(t)'
  BY <1>8 DEF Holds, Measuring
<1>15. Repairs(t)'
  <2>1. \A j \in Logs : WillTake(t, j) /\ Known(Pool(j)) /\ Kind(j) # "initialize" =>
                            WillTake(t, j)'
    BY <1>4, <1>6, <1>7, <1>8 DEF WillTake, Working, Reaches
  <2>2. \A p : ~Pricing(t, p) /\ ~Measuring(t, p)
    BY <1>6 DEF Pricing, Measuring
  <2>3. \A j \in Logs : j # 0
    BY LogTypes
  <2>4. ASSUME NEW j \in stored PROVE PriceRight(j) \/ WillTake(t, j)'
    BY <1>1, <1>7, <2>1, <2>2 DEF Kept, Working, Repairs
  <2>5. ASSUME NEW p \in Pools
        PROVE  MetricsRight(p) \/ \E j \in Logs : j = position[p] /\ WillTake(t, j)'
    BY <1>7, <2>1, <2>2, <2>3 DEF Kept, Working, Repairs
  <2> QED
    BY <1>6, <1>8, <2>4, <2>5 DEF Repairs, Steady, PriceRight, MetricsRight, Known, WillTake,
                                  Ahead, Finding
<1> QED
  BY <1>5, <1>7, <1>8, <1>9, <1>10, <1>11, <1>13, <1>14, <1>15, CalmAfter DEF Becomes, Working

\* A step of the scan that leaves the tables, and what is asked of it.
LEMMA SteadyStep ==
    ASSUME Kept, NEW t \in Slots, Active = {t}, Working(t), Steady,
           \A u \in Slots \ {t} : task'[u] = task[u],
           task'[t].from = task[t].from, task'[t].to = task[t].to,
           task'[t].todo \subseteq task[t].todo,
           task[t].pc \notin {"none", "cursor", "height", "pools"},
           task'[t].pc \notin {"none", "cursor", "height", "pools"},
           Finding(t)' <=> Finding(t), Holds(t)',
           \A p \in Pools : Pricing(t, p)' <=> Pricing(t, p),
           \A p \in Pools : Pricing(t, p) => task'[t].log = task[t].log,
           \A p \in Pools : Measuring(t, p) => Measuring(t, p)' \/ MetricsRight(p),
           \A j \in task[t].todo : j \notin task'[t].todo =>
               j \notin stored /\ \A p \in Pools : j = position[p] => Measuring(t, p)',
           \A j \in stored : Pool(j) \in Pools
    PROVE  Calm'
<1>1. Kept'
  BY KeptAfter DEF Steady
<1>2. Ahead(t)' <=> Ahead(t)
  BY DEF Ahead, Historical
<1>3. Reaches(t)'
  BY <1>2 DEF Working, Reaches, Steady
<1>4. Sorted(t)'
  BY DEF Working, Sorted, Steady, Historical
<1>5. Ordered(t)'
  <2>1. stored' = stored /\ Ordered(t)
    BY DEF Working, Steady
  <2>2. \A i \in task'[t].todo, j \in stored :
           Kind(i) = "swap" /\ Pool(j) = Pool(i) /\ j > i => j \in task'[t].todo
    BY <2>1 DEF Ordered
  <2>3. ASSUME NEW j \in stored, Pricing(t, Pool(j))', j > task'[t].log
        PROVE  j \in task'[t].todo
    <3>1. Pricing(t, Pool(j)) /\ j > task[t].log
      BY <2>3
    <3> QED
      BY <2>1, <3>1 DEF Ordered
  <2> QED
    BY <2>1, <2>2, <2>3 DEF Ordered
<1>6. Repairs(t)'
  <2>1. ASSUME NEW j, WillTake(t, j), j \in task[t].todo => j \in task'[t].todo
        PROVE  WillTake(t, j)'
    BY <1>2, <2>1 DEF WillTake
  <2>2. \A j \in stored : PriceRight(j)' <=> PriceRight(j)
    BY DEF PriceRight, Steady
  <2>3. \A p \in Pools : MetricsRight(p)' <=> MetricsRight(p)
    BY DEF MetricsRight, Known, Steady
  <2>4. ASSUME NEW j \in stored
        PROVE  PriceRight(j)' \/ WillTake(t, j)' \/ (Pricing(t, Pool(j))' /\ j <= task'[t].log)
    BY <2>1, <2>2 DEF Working, Repairs
  <2>5. ASSUME NEW p \in Pools
        PROVE  MetricsRight(p)' \/ Measuring(t, p)'
               \/ \E j \in Logs : j = position'[p] /\ WillTake(t, j)'
    <3>1. CASE \E j \in Logs : j = position[p] /\ WillTake(t, j)
      BY <2>1, <3>1 DEF Steady
    <3>2. CASE MetricsRight(p) \/ Measuring(t, p)
      BY <2>3, <3>2
    <3> QED
      BY <3>1, <3>2 DEF Working, Repairs
  <2> QED
    BY <2>4, <2>5 DEF Repairs, Steady
<1> QED
  BY <1>1, <1>3, <1>4, <1>5, <1>6, CalmAfter DEF Working

\* The types the steps need.
LEMMA StepTypes ==
    ASSUME IInv
    PROVE  /\ TypeOK /\ Mined /\ task \in [Slots -> Tasks] /\ latest \in Nat
           /\ stored \in SUBSET Logs /\ \A j \in stored : Kind(j) = "swap" /\ Pool(j) \in Pools
           /\ pool \in [Pools -> [price : LogOrNone, metrics : LogOrNone]]
           /\ position \in [Pools -> LogOrNone]
           /\ \A t \in Slots : task[t].pc \in Saving =>
                 task[t].log \in Logs /\ task[t].log \notin task[t].todo /\ LogPool(t) \in Pools
BY TaskTypes, LogTypes DEF IInv, TypeOK, Mined, LogPool

LEMMA RecomputeCalm ==
    ASSUME IInv, Calm, NEW t \in Slots, Recompute(t) PROVE Calm'
<1>1. task[t].pc = "recompute"
  BY DEF Recompute
<1>2. Kept /\ Active = {t} /\ Working(t) /\ Steady
  BY <1>1, AtWork DEF Recompute, Steady, tables
<1>3. task[t].log \in Logs /\ LogPool(t) \in Pools /\ position[LogPool(t)] \in LogOrNone
  BY <1>1, StepTypes DEF Saving
<1>4. Becomes(t, "meta", task[t].from, task[t].to, task[t].todo, task[t].log, task[t].price,
              position[LogPool(t)])
  BY <1>3, StepTypes, RecomputeTask DEF Recompute
<1>5. /\ task'[t].pc = "meta" /\ task'[t].from = task[t].from /\ task'[t].to = task[t].to
      /\ task'[t].todo = task[t].todo /\ task'[t].log = task[t].log
      /\ task'[t].price = task[t].price /\ task'[t].metrics = position[LogPool(t)]
      /\ \A u \in Slots \ {t} : task'[u] = task[u]
  BY <1>4 DEF Becomes
<1>6. /\ ~Finding(t) /\ ~Finding(t)'
      /\ \A p \in Pools : /\ Pricing(t, p)' <=> Pricing(t, p)
                          /\ Measuring(t, p)' <=> Measuring(t, p)
  BY <1>1, <1>5 DEF Finding, Pricing, Measuring, LogPool
<1>7. Holds(t)'
  BY <1>1, <1>2, <1>5, <1>6 DEF Working, Holds, LogPool, Steady, Known
<1> QED
  BY <1>1, <1>2, <1>5, <1>6, <1>7, StepTypes, SteadyStep

LEMMA RereadCalm ==
    ASSUME IInv, Calm, NEW t \in Slots, Reread(t) PROVE Calm'
<1>1. task[t].pc = "reread"
  BY DEF Reread
<1>2. Kept /\ Active = {t} /\ Working(t) /\ Steady
  BY <1>1, AtWork DEF Reread, Steady, tables
<1>3. task[t].log \in Logs /\ LogPool(t) \in Pools /\ pool[LogPool(t)].price \in LogOrNone
  BY <1>1, StepTypes DEF Saving
<1>4. Becomes(t, "recompute", task[t].from, task[t].to, task[t].todo, task[t].log,
              pool[LogPool(t)].price, task[t].metrics)
  BY <1>3, StepTypes, RereadTask DEF Reread
<1>5. /\ task'[t].pc = "recompute" /\ task'[t].from = task[t].from /\ task'[t].to = task[t].to
      /\ task'[t].todo = task[t].todo /\ task'[t].log = task[t].log
      /\ task'[t].price = pool[LogPool(t)].price
      /\ \A u \in Slots \ {t} : task'[u] = task[u]
  BY <1>4 DEF Becomes
<1>6. Kind(task[t].log) = "modify"
  BY <1>1, <1>2 DEF Working, Holds
<1>7. /\ ~Finding(t) /\ ~Finding(t)'
      /\ \A p \in Pools : /\ ~Pricing(t, p)' /\ ~Pricing(t, p)
                          /\ Measuring(t, p)' <=> Measuring(t, p)
  BY <1>1, <1>5, <1>6 DEF Finding, Pricing, Measuring, LogPool
<1>8. Holds(t)'
  BY <1>1, <1>2, <1>5, <1>6, <1>7 DEF Working, Holds, LogPool, Steady, Known
<1> QED
  BY <1>1, <1>2, <1>5, <1>7, <1>8, StepTypes, SteadyStep

LEMMA SetCursorCalm ==
    ASSUME IInv, Calm, NEW t \in Slots, SetCursor(t) PROVE Calm'
<1>1. task[t].pc = "setCursor"
  BY DEF SetCursor
<1>2. Kept /\ Active = {t} /\ Working(t) /\ Steady
  BY <1>1, AtWork DEF SetCursor, Steady
<1>3. task[t].log \in Logs /\ task[t].todo \ {task[t].log} = task[t].todo
  BY <1>1, StepTypes DEF Saving
<1>4. CASE Kind(task[t].log) = "modify"
  <2>1. Goto(t, "reread") /\ "reread" \in Points
    BY <1>4 DEF SetCursor, Points
  <2>2. Becomes(t, "reread", task[t].from, task[t].to, task[t].todo, task[t].log,
                task[t].price, task[t].metrics)
    BY <2>1, StepTypes, GotoTask
  <2>3. /\ task'[t].pc = "reread" /\ task'[t].from = task[t].from /\ task'[t].to = task[t].to
        /\ task'[t].todo = task[t].todo /\ task'[t].log = task[t].log
        /\ \A u \in Slots \ {t} : task'[u] = task[u]
    BY <2>2 DEF Becomes
  <2>4. /\ ~Finding(t) /\ ~Finding(t)'
        /\ \A p \in Pools : ~Pricing(t, p)' /\ ~Pricing(t, p)
                            /\ (Measuring(t, p)' <=> Measuring(t, p))
    BY <1>1, <1>4, <2>3 DEF Finding, Pricing, Measuring, LogPool
  <2>5. Holds(t)'
    BY <1>2, <1>4, <2>3, <2>4 DEF Working, Holds, Steady, Known
  <2> QED
    BY <1>1, <1>2, <2>3, <2>4, <2>5, StepTypes, SteadyStep
<1>5. CASE Kind(task[t].log) # "modify"
  <2>1. Becomes(t, AfterDrop(task[t].log), task[t].from, task[t].to, task[t].todo, 0, 0, 0)
    BY <1>3, <1>5, StepTypes, DropTask DEF SetCursor
  <2>2. /\ task'[t].pc = AfterDrop(task[t].log) /\ task'[t].from = task[t].from
        /\ task'[t].to = task[t].to /\ task'[t].todo = task[t].todo
        /\ \A u \in Slots \ {t} : task'[u] = task[u]
    BY <2>1 DEF Becomes
  <2>3. /\ Finding(t)' <=> Finding(t)
        /\ \A p \in Pools : ~Pricing(t, p)' /\ ~Pricing(t, p) /\ ~Measuring(t, p)
    BY <1>1, <1>5, <2>2 DEF Finding, Pricing, Measuring, AfterDrop
  <2>4. Holds(t)'
    BY <2>2 DEF Holds, Measuring, AfterDrop
  <2> QED
    BY <1>1, <1>2, <2>2, <2>3, <2>4, StepTypes, SteadyStep DEF AfterDrop
<1> QED
  BY <1>4, <1>5

LEMMA UnknownPoolCalm ==
    ASSUME IInv, Calm, NEW t \in Slots, NEW i \in task[t].todo, SwapOrModifyOfUnknownPool(t, i)
    PROVE  Calm'
<1>1. task[t].pc = "scan" /\ ~Known(Pool(i)) /\ AfterDrop(i) = "scan" /\ i \in Logs
  BY StepTypes DEF SwapOrModifyOfUnknownPool, IsNext, AfterDrop, Tasks
<1>2. Kept /\ Active = {t} /\ Working(t) /\ Steady
  BY <1>1, AtWork DEF SwapOrModifyOfUnknownPool, Steady, tables
<1>3. Becomes(t, "scan", task[t].from, task[t].to, task[t].todo \ {i}, 0, 0, 0)
  BY <1>1, StepTypes, DropTask DEF SwapOrModifyOfUnknownPool
<1>4. /\ task'[t].pc = "scan" /\ task'[t].from = task[t].from /\ task'[t].to = task[t].to
      /\ task'[t].todo = task[t].todo \ {i} /\ \A u \in Slots \ {t} : task'[u] = task[u]
  BY <1>3 DEF Becomes
<1>5. /\ ~Finding(t) /\ ~Finding(t)'
      /\ \A p \in Pools : ~Pricing(t, p) /\ ~Pricing(t, p)' /\ ~Measuring(t, p)
  BY <1>1, <1>4 DEF Finding, Pricing, Measuring
<1>6. Holds(t)'
  BY <1>4 DEF Holds, Measuring
<1>7. i \notin stored /\ \A p \in Pools : i # position[p]
  BY <1>1, <1>2, LogTypes DEF Kept
<1> QED
  BY <1>1, <1>2, <1>4, <1>5, <1>6, <1>7, StepTypes, SteadyStep

LEMMA SaveDonateCalm ==
    ASSUME IInv, Calm, NEW t \in Slots, NEW i \in task[t].todo, SaveDonate(t, i) PROVE Calm'
<1>1. task[t].pc = "scan" /\ Kind(i) = "donate" /\ i \in Logs
  BY StepTypes DEF SaveDonate, IsNext, Tasks
<1>2. Kept /\ Active = {t} /\ Working(t) /\ Steady
  BY <1>1, AtWork DEF SaveDonate, Steady, tables
<1>3. Take(t, i, "setCursor", 0, 0) /\ "setCursor" \in Points /\ 0 \in LogOrNone
  BY DEF SaveDonate, Points, LogOrNone
<1>4. Becomes(t, "setCursor", task[t].from, task[t].to, task[t].todo \ {i}, i, 0, 0)
  BY <1>1, <1>3, StepTypes, TakeTask
<1>5. /\ task'[t].pc = "setCursor" /\ task'[t].from = task[t].from /\ task'[t].to = task[t].to
      /\ task'[t].todo = task[t].todo \ {i} /\ task'[t].log = i
      /\ \A u \in Slots \ {t} : task'[u] = task[u]
  BY <1>4 DEF Becomes
<1>6. /\ ~Finding(t) /\ ~Finding(t)'
      /\ \A p \in Pools : ~Pricing(t, p) /\ ~Pricing(t, p)' /\ ~Measuring(t, p)
  BY <1>1, <1>5 DEF Finding, Pricing, Measuring
<1>7. Holds(t)'
  BY <1>1, <1>5 DEF Holds, Measuring
<1>8. i \notin stored /\ \A p \in Pools : i # position[p]
  BY <1>1, <1>2, StepTypes, LogTypes DEF Kept
<1> QED
  BY <1>1, <1>2, <1>5, <1>6, <1>7, <1>8, StepTypes, SteadyStep

LEMMA SaveModifyCalm ==
    ASSUME IInv, Calm, NEW t \in Slots, NEW i \in task[t].todo, SaveModify(t, i) PROVE Calm'
<1> DEFINE metrics == LastModify(Pool(i))
<1>1. /\ task[t].pc = "scan" /\ Known(Pool(i)) /\ Kind(i) = "modify"
      /\ i \in Logs /\ Block(i) <= latest
  BY StepTypes DEF SaveModify, IsNext, Tasks, Mined
<1>2. Kept /\ Active = {t} /\ Working(t) /\ Steady
  BY <1>1, AtWork DEF SaveModify, Steady, tables
<1>3. /\ metrics \in Logs /\ Kind(metrics) = "modify" /\ Pool(metrics) = Pool(i)
      /\ Block(metrics) <= latest
  BY <1>1, StepTypes, LastModifyIs
<1>4. /\ Take(t, i, "upsert", 0, metrics) /\ "upsert" \in Points
      /\ 0 \in LogOrNone /\ metrics \in LogOrNone
  BY <1>3 DEF SaveModify, Points, LogOrNone
<1> HIDE DEF metrics
<1>5. Becomes(t, "upsert", task[t].from, task[t].to, task[t].todo \ {i}, i, 0, metrics)
  BY <1>1, <1>4, StepTypes, TakeTask
<1>6. /\ task'[t].pc = "upsert" /\ task'[t].from = task[t].from /\ task'[t].to = task[t].to
      /\ task'[t].todo = task[t].todo \ {i} /\ task'[t].log = i /\ task'[t].metrics = metrics
      /\ \A u \in Slots \ {t} : task'[u] = task[u]
  BY <1>5 DEF Becomes
<1>7. /\ ~Finding(t) /\ ~Finding(t)'
      /\ \A p \in Pools : /\ ~Pricing(t, p) /\ ~Pricing(t, p)' /\ ~Measuring(t, p)
                          /\ Measuring(t, p)' <=> p = Pool(i)
  BY <1>1, <1>6 DEF Finding, Pricing, Measuring, LogPool
<1>8. Holds(t)'
  BY <1>1, <1>2, <1>3, <1>6, <1>7 DEF Holds, LogPool, Steady, Known
<1>9. i \notin stored /\ \A p \in Pools : i = position[p] => Measuring(t, p)'
  BY <1>1, <1>2, <1>7, StepTypes, LogTypes DEF Kept
<1> QED
  BY <1>1, <1>2, <1>6, <1>7, <1>8, <1>9, StepTypes, SteadyStep

\* A swap is stored before its price is written; what is stored after it in its pool is still
\* to come, for the swaps of a pool are taken in turn.
LEMMA SaveSwapCalm ==
    ASSUME IInv, Calm, NEW t \in Slots, NEW i \in task[t].todo, SaveSwap(t, i) PROVE Calm'
<1>1. /\ task[t].pc = "scan" /\ Known(Pool(i)) /\ Kind(i) = "swap" /\ i \in Logs
      /\ Block(i) <= latest /\ IsNext(t, i) /\ Pool(i) \in Pools
  BY StepTypes, LogTypes DEF SaveSwap, IsNext, Tasks, Mined
<1>2. Kept /\ Active = {t} /\ Working(t)
  BY <1>1, AtWork
<1>3. /\ UNCHANGED <<latest, pool, position>> /\ stored' = stored \cup {i}
      /\ Take(t, i, "recompute", i, 0)
  BY DEF SaveSwap
<1>4. "recompute" \in Points /\ i \in LogOrNone /\ 0 \in LogOrNone
  BY <1>1 DEF Points, LogOrNone
<1>5. Becomes(t, "recompute", task[t].from, task[t].to, task[t].todo \ {i}, i, i, 0)
  BY <1>1, <1>3, <1>4, StepTypes, TakeTask
<1>6. /\ task'[t].pc = "recompute" /\ task'[t].from = task[t].from /\ task'[t].to = task[t].to
      /\ task'[t].todo = task[t].todo \ {i} /\ task'[t].log = i /\ task'[t].price = i
      /\ \A u \in Slots \ {t} : task'[u] = task[u]
  BY <1>5 DEF Becomes
<1>7. /\ ~Finding(t) /\ ~Finding(t)' /\ ~Ahead(t) /\ ~Ahead(t)'
      /\ \A p : ~Pricing(t, p) /\ ~Measuring(t, p)
      /\ \A p : (Pricing(t, p)' <=> p = Pool(i)) /\ (Measuring(t, p)' <=> p = Pool(i))
  BY <1>1, <1>6 DEF Finding, Ahead, Pricing, Measuring, LogPool
<1>8. Kept'
  BY <1>1, <1>2, <1>3, <1>6 DEF Kept, Known
<1>9. Reaches(t)'
  BY <1>1, <1>2, <1>3, <1>6, <1>7 DEF Working, Reaches
<1>10. Sorted(t)'
  BY <1>2, <1>6, <1>7 DEF Working, Sorted
<1>11. Ordered(t)'
  <2>1. \A k \in task[t].todo : k # i /\ Kind(k) = "swap" /\ Pool(k) = Pool(i) => i < k
    BY <1>1, <1>2, StepTypes, InTurn DEF Working
  <2>2. ASSUME NEW k \in task'[t].todo, NEW j \in stored', Kind(k) = "swap", Pool(j) = Pool(k),
               j > k
        PROVE  j \in task'[t].todo
    <3>1. k \in Logs /\ j \in Logs /\ k \in task[t].todo /\ k # i
      BY <1>1, <1>3, <1>6, StepTypes DEF Tasks
    <3>2. j # i
      BY <1>1, <2>1, <2>2, <3>1, LogTypes
    <3> QED
      BY <1>2, <1>3, <1>6, <2>2, <3>1, <3>2 DEF Working, Ordered
  <2>3. ASSUME NEW j \in stored', Pool(j) = Pool(i), j > i PROVE j \in task'[t].todo
    <3>1. j \in stored /\ j # i
      BY <1>1, <1>3, <2>3, LogTypes
    <3> QED
      BY <1>1, <1>2, <1>6, <2>3, <3>1 DEF Working, Ordered
  <2> QED
    BY <1>6, <1>7, <2>2, <2>3 DEF Ordered
<1>12. Holds(t)'
  BY <1>1, <1>3, <1>6, <1>7 DEF Holds, Known
<1>13. Repairs(t)'
  <2>1. \A j : WillTake(t, j) => WillTake(t, j)' \/ j = i
    BY <1>6, <1>7 DEF WillTake
  <2>2. i <= i
    BY <1>1, LogTypes
  <2>3. ASSUME NEW j \in stored'
        PROVE  PriceRight(j)' \/ WillTake(t, j)' \/ (Pricing(t, Pool(j))' /\ j <= task'[t].log)
    <3>1. CASE j = i
      BY <1>6, <1>7, <2>2, <3>1
    <3>2. CASE j # i
      <4>1. j \in stored /\ (PriceRight(j)' <=> PriceRight(j))
        BY <1>3, <3>2 DEF PriceRight
      <4> QED
        BY <1>2, <1>7, <2>1, <3>2, <4>1 DEF Working, Repairs
    <3> QED
      BY <3>1, <3>2
  <2>4. ASSUME NEW p \in Pools
        PROVE  MetricsRight(p)' \/ Measuring(t, p)'
               \/ \E j \in Logs : j = position'[p] /\ WillTake(t, j)'
    <3>1. MetricsRight(p)' <=> MetricsRight(p)
      BY <1>3 DEF MetricsRight, Known
    <3>2. \A j \in Logs : j = position[p] => j # i
      BY <1>1, <1>2, LogTypes DEF Kept
    <3>3. position' = position
      BY <1>3
    <3> QED
      BY <1>2, <1>7, <2>1, <3>1, <3>2, <3>3 DEF Working, Repairs
  <2> QED
    BY <2>3, <2>4 DEF Repairs
<1> QED
  BY <1>2, <1>6, <1>8, <1>9, <1>10, <1>11, <1>12, <1>13, CalmAfter DEF Working

\* The metadata of a pool is written whole: its price is then the swap's, or the one it had.
LEMMA WriteMetaCalm ==
    ASSUME IInv, Calm, NEW t \in Slots, WriteMeta(t) PROVE Calm'
<1> DEFINE k == task[t].log
           q == LogPool(t)
<1>1. task[t].pc = "meta" /\ AfterMeta(t) /\ UNCHANGED <<latest, stored, position>>
  BY DEF WriteMeta
<1>2. Kept /\ Active = {t} /\ Working(t)
  BY <1>1, AtWork
<1>3. k \in Logs /\ q \in Pools /\ q = Pool(k) /\ k # 0
  BY <1>1, StepTypes, LogTypes DEF Saving, LogPool
<1>4. PICK pc \in Points, log \in LogOrNone, price \in LogOrNone, metrics \in LogOrNone :
        /\ Becomes(t, pc, task[t].from, task[t].to, task[t].todo, log, price, metrics)
        /\ Kind(task[t].log) = "swap" => pc = "setCursor" /\ log = task[t].log
        /\ Kind(task[t].log) # "swap" => pc = AfterDrop(task[t].log)
  BY <1>1, StepTypes, AfterMetaTask
<1>5. /\ Kind(k) \in {"swap", "modify"}
      /\ Kind(k) = "swap" => task[t].price = k /\ k \in stored
      /\ Kind(k) = "modify" => task[t].price = pool[q].price
      /\ task[t].metrics = position[q]
      /\ Known(q)
  BY <1>1, <1>2, <1>3 DEF Working, Holds, Measuring
<1>6. /\ task'[t].pc = pc /\ task'[t].from = task[t].from /\ task'[t].to = task[t].to
      /\ task'[t].todo = task[t].todo
      /\ pc \in {"setCursor", "scan"}
      /\ pc = "setCursor" => task'[t].log = k /\ Kind(k) = "swap"
      /\ \A u \in Slots \ {t} : task'[u] = task[u]
  BY <1>4, <1>5 DEF Becomes, AfterDrop
<1>7. /\ ~Finding(t) /\ ~Finding(t)' /\ ~Ahead(t) /\ ~Ahead(t)'
      /\ \A p : ~Pricing(t, p)' /\ ~Measuring(t, p)' /\ (Measuring(t, p) <=> p = q)
      /\ \A p : Pricing(t, p) <=> p = q /\ Kind(k) = "swap"
  BY <1>1, <1>6 DEF Finding, Ahead, Pricing, Measuring
<1>8. /\ pool'[q].price = task[t].price /\ pool'[q].metrics = task[t].metrics
      /\ \A p \in Pools : p # q => pool'[p] = pool[p]
  BY <1>3, StepTypes DEF WriteMeta
<1> HIDE DEF k, q
<1>9. \A p \in Pools : Known(p)' <=> Known(p)
  BY <1>3, <1>5, <1>8 DEF Known
<1>10. Kept'
  <2>1. \A u \in Slots : task'[u].pc \in {"none", "cursor", "height"} => task'[u].todo = {}
    BY <1>2, <1>6 DEF Kept
  <2>2. \A j \in stored' : Block(j) <= latest' /\ Known(Pool(j))'
    BY <1>1, <1>2, <1>9, StepTypes DEF Kept
  <2>3. \A p \in Pools : Known(p)' =>
           Kind(pool'[p].price) = "initialize" \/ pool'[p].price \in stored'
    BY <1>1, <1>2, <1>3, <1>5, <1>8, <1>9 DEF Kept
  <2> QED
    BY <1>1, <1>2, <1>9, <2>1, <2>2, <2>3 DEF Kept
<1>11. Reaches(t)'
  BY <1>1, <1>2, <1>6, <1>7 DEF Working, Reaches
<1>12. Sorted(t)'
  BY <1>2, <1>6, <1>7 DEF Working, Sorted
<1>13. Ordered(t)'
  BY <1>1, <1>2, <1>6, <1>7 DEF Working, Ordered
<1>14. Holds(t)'
  BY <1>6, <1>7 DEF Holds
<1>15. Repairs(t)'
  <2>1. \A j : WillTake(t, j)' <=> WillTake(t, j)
    BY <1>6, <1>7 DEF WillTake
  <2>2. ASSUME NEW j \in stored PROVE PriceRight(j)' \/ WillTake(t, j)
    <3>1. Pool(j) \in Pools /\ j \in Logs
      BY StepTypes
    <3>2. CASE Pool(j) = q /\ Kind(k) = "swap"
      <4>1. CASE j <= k
        BY <1>5, <1>8, <3>2, <4>1 DEF PriceRight
      <4>2. CASE j > k
        <5>1. Pricing(t, Pool(j))
          BY <1>7, <3>2
        <5> QED
          BY <1>2, <4>2, <5>1 DEF Working, Ordered, WillTake, k
      <4> QED
        BY <1>3, <3>1, <4>1, <4>2, LogTypes
    <3>3. CASE ~(Pool(j) = q /\ Kind(k) = "swap")
      <4>1. ~Pricing(t, Pool(j))
        BY <1>7, <3>3
      <4>2. PriceRight(j)' <=> PriceRight(j)
        BY <1>5, <1>8, <3>1, <3>3 DEF PriceRight
      <4> QED
        BY <1>2, <4>1, <4>2 DEF Working, Repairs
    <3> QED
      BY <3>2, <3>3
  <2>3. ASSUME NEW p \in Pools
        PROVE  MetricsRight(p)' \/ \E j \in Logs : j = position[p] /\ WillTake(t, j)
    <3>1. CASE p = q
      BY <1>1, <1>5, <1>8, <3>1 DEF MetricsRight
    <3>2. CASE p # q
      <4>1. MetricsRight(p)' <=> MetricsRight(p)
        BY <1>1, <1>8, <3>2 DEF MetricsRight, Known
      <4> QED
        BY <1>2, <1>7, <3>2, <4>1 DEF Working, Repairs
    <3> QED
      BY <3>1, <3>2
  <2>4. stored' = stored /\ position' = position
    BY <1>1
  <2> QED
    BY <2>1, <2>2, <2>3, <2>4 DEF Repairs
<1> QED
  BY <1>2, <1>6, <1>10, <1>11, <1>12, <1>13, <1>14, <1>15, CalmAfter DEF Working

LEMMA UpsertCalm ==
    ASSUME IInv, Calm, NEW t \in Slots, UpsertPosition(t) PROVE Calm'
<1> DEFINE q == LogPool(t)
           m == task[t].metrics
<1>1. /\ task[t].pc = "upsert" /\ Goto(t, "setCursor") /\ UNCHANGED <<latest, pool, stored>>
      /\ "setCursor" \in Points
  BY DEF UpsertPosition, Points
<1>2. Kept /\ Active = {t} /\ Working(t)
  BY <1>1, AtWork
<1>3. task[t].log \in Logs /\ q \in Pools
  BY <1>1, StepTypes DEF Saving
<1>4. /\ Kind(task[t].log) = "modify" /\ m \in Logs /\ Block(m) <= latest /\ Kind(m) = "modify"
      /\ Pool(m) = q /\ Known(q)
  BY <1>1, <1>2, <1>3 DEF Working, Holds, Measuring
<1>5. Becomes(t, "setCursor", task[t].from, task[t].to, task[t].todo, task[t].log,
              task[t].price, task[t].metrics)
  BY <1>1, StepTypes, GotoTask
<1>6. /\ task'[t].pc = "setCursor" /\ task'[t].from = task[t].from /\ task'[t].to = task[t].to
      /\ task'[t].todo = task[t].todo /\ task'[t].log = task[t].log
      /\ \A u \in Slots \ {t} : task'[u] = task[u]
  BY <1>5 DEF Becomes
<1>7. /\ ~Finding(t) /\ ~Finding(t)' /\ ~Ahead(t) /\ ~Ahead(t)'
      /\ \A p : ~Pricing(t, p) /\ ~Pricing(t, p)'
      /\ \A p : (Measuring(t, p) <=> p = q) /\ (Measuring(t, p)' <=> p = q)
  BY <1>1, <1>4, <1>6 DEF Finding, Ahead, Pricing, Measuring, LogPool
<1>8. position'[q] = m /\ \A p \in Pools : p # q => position'[p] = position[p]
  BY <1>3, StepTypes DEF UpsertPosition
<1> HIDE DEF q, m
<1>9. Kept'
  BY <1>1, <1>2, <1>3, <1>4, <1>6, <1>8 DEF Kept, Known
<1>10. Reaches(t)' /\ Sorted(t)' /\ Ordered(t)'
  BY <1>1, <1>2, <1>6, <1>7 DEF Working, Reaches, Sorted, Ordered
<1>11. Holds(t)'
  BY <1>1, <1>3, <1>4, <1>6, <1>7 DEF Holds, Known
<1>12. Repairs(t)'
  <2>1. \A j : WillTake(t, j)' <=> WillTake(t, j)
    BY <1>6, <1>7 DEF WillTake
  <2>2. ASSUME NEW j \in stored PROVE PriceRight(j)' \/ WillTake(t, j)
    BY <1>1, <1>2, <1>7 DEF Working, Repairs, PriceRight
  <2>3. ASSUME NEW p \in Pools
        PROVE  MetricsRight(p)' \/ Measuring(t, p)'
               \/ \E j \in Logs : j = position'[p] /\ WillTake(t, j)
    <3>1. CASE p = q
      BY <1>7, <3>1
    <3>2. CASE p # q
      <4>1. MetricsRight(p)' <=> MetricsRight(p)
        BY <1>1, <1>8, <3>2 DEF MetricsRight, Known
      <4> QED
        BY <1>2, <1>7, <1>8, <3>2, <4>1 DEF Working, Repairs
    <3> QED
      BY <3>1, <3>2
  <2>4. stored' = stored
    BY <1>1
  <2> QED
    BY <2>1, <2>2, <2>3, <2>4 DEF Repairs
<1> QED
  BY <1>2, <1>6, <1>9, <1>10, <1>11, <1>12, CalmAfter DEF Working

\* A row that is replaced by that of its Initialize is put right by the scan that follows, which
\* begins no later; the handler of a notified Initialize finds no swap of the pool.
LEMMA SaveInitializeCalm ==
    ASSUME IInv, Calm, NEW t \in Slots, NEW i \in task[t].todo, SaveInitialize(t, i) PROVE Calm'
<1>1. /\ task[t].pc = "discover" /\ Kind(i) = "initialize" /\ i \in Logs /\ i # 0
      /\ Pool(i) \in Pools /\ UNCHANGED <<latest, stored, position>>
  BY StepTypes, LogTypes DEF SaveInitialize, IsNext, Tasks
<1>2. Kept /\ Active = {t} /\ Working(t)
  BY <1>1, AtWork
<1>3. "setCursor" \in Points /\ i \in LogOrNone /\ 0 \in LogOrNone
  BY <1>1 DEF Points, LogOrNone
<1>4. Becomes(t, "setCursor", task[t].from, task[t].to, task[t].todo \ {i}, i, 0, 0)
  BY <1>1, <1>3, StepTypes, TakeTask DEF SaveInitialize
<1>5. /\ task'[t].pc = "setCursor" /\ task'[t].from = task[t].from /\ task'[t].to = task[t].to
      /\ task'[t].todo = task[t].todo \ {i} /\ task'[t].log = i
      /\ \A u \in Slots \ {t} : task'[u] = task[u]
  BY <1>4 DEF Becomes
<1>6. /\ Finding(t) /\ Finding(t)' /\ (Ahead(t) <=> Historical(t)) /\ (Ahead(t)' <=> Historical(t))
      /\ \A p : ~Pricing(t, p) /\ ~Pricing(t, p)' /\ ~Measuring(t, p) /\ ~Measuring(t, p)'
  BY <1>1, <1>5 DEF Finding, Ahead, Pricing, Measuring, Historical
<1>7. /\ pool'[Pool(i)].price = i /\ pool'[Pool(i)].metrics = 0
      /\ \A p \in Pools : p # Pool(i) => pool'[p] = pool[p]
  BY <1>1, StepTypes DEF SaveInitialize
<1>8. \A p \in Pools : Known(p) => Known(p)'
  BY <1>1, <1>7 DEF Known
<1>9. Kept'
  <2>1. \A u \in Slots : task'[u].pc \in {"none", "cursor", "height"} => task'[u].todo = {}
    BY <1>2, <1>5 DEF Kept
  <2>2. \A j \in stored' : Block(j) <= latest' /\ Known(Pool(j))'
    BY <1>1, <1>2, <1>8, StepTypes DEF Kept
  <2>3. \A p \in Pools : Known(p)' =>
           Kind(pool'[p].price) = "initialize" \/ pool'[p].price \in stored'
    BY <1>1, <1>2, <1>7 DEF Kept, Known
  <2> QED
    BY <1>1, <1>2, <1>8, <2>1, <2>2, <2>3 DEF Kept
<1>10. Reaches(t)'
  BY <1>1, <1>2, <1>5, <1>6 DEF Working, Reaches
<1>11. Sorted(t)'
  BY <1>1, <1>2, <1>5, <1>6 DEF Working, Sorted, Historical
<1>12. Ordered(t)'
  BY <1>2, <1>5, <1>6 DEF Working, Sorted, Ordered
<1>13. Holds(t)'
  BY <1>5, <1>6 DEF Holds
<1>14. ASSUME NEW j \in Logs, Kind(j) # "initialize", Pool(j) = Pool(i), Block(j) <= task[t].to,
              Historical(t)
       PROVE  WillTake(t, j)'
  <2>1. Block(i) <= Block(j) /\ Block(i) \in task[t].from..task[t].to
    BY <1>1, <1>2, <1>14, InitializedBefore DEF Working, Reaches
  <2>2. Block(j) \in task[t].from..task[t].to
    <3>1. task[t].from \in Nat /\ task[t].to \in Nat /\ Block(i) \in Nat /\ Block(j) \in Nat
      BY <1>1, <1>14, StepTypes, LogTypes DEF Tasks
    <3> QED
      BY <1>14, <2>1, <3>1
  <2> QED
    BY <1>5, <1>6, <1>14, <2>2 DEF WillTake
<1>15. Repairs(t)'
  <2>1. \A j : WillTake(t, j) /\ j # i => WillTake(t, j)'
    BY <1>5, <1>6 DEF WillTake
  <2>2. ASSUME NEW j \in stored PROVE PriceRight(j)' \/ WillTake(t, j)'
    <3>1. j \in Logs /\ Kind(j) # "initialize" /\ Pool(j) \in Pools /\ j # i
      BY <1>1, StepTypes
    <3>2. CASE Pool(j) = Pool(i)
      <4>1. Historical(t)
        BY <1>2, <1>6, <3>2 DEF Working, Sorted
      <4>2. Block(j) <= task[t].to
        BY <1>1, <1>2 DEF Working, Reaches
      <4> QED
        BY <1>14, <3>1, <3>2, <4>1, <4>2
    <3>3. CASE Pool(j) # Pool(i)
      <4>1. PriceRight(j)' <=> PriceRight(j)
        BY <1>7, <3>1, <3>3 DEF PriceRight
      <4> QED
        BY <1>2, <1>6, <2>1, <3>1, <4>1 DEF Working, Repairs
    <3> QED
      BY <3>2, <3>3
  <2>3. ASSUME NEW p \in Pools
        PROVE  MetricsRight(p)' \/ \E j \in Logs : j = position[p] /\ WillTake(t, j)'
    <3>1. position' = position /\ position[p] \in LogOrNone
      BY <1>1, StepTypes
    <3>2. \A j \in Logs : j = position[p] => Kind(j) = "modify" /\ Pool(j) = p /\ j # i
      BY <1>1, <1>2, LogTypes DEF Kept
    <3>3. CASE p = Pool(i) /\ position[p] # 0
      <4>1. Historical(t)
        BY <1>2, <1>6, <3>3 DEF Working, Sorted
      <4>2. position[p] \in Logs /\ Block(position[p]) <= task[t].to
        BY <1>2, <1>6, <3>1, <3>3, <4>1 DEF Working, Reaches, LogOrNone
      <4> QED
        BY <1>14, <3>2, <3>3, <4>1, <4>2
    <3>4. CASE p = Pool(i) /\ position[p] = 0
      BY <1>7, <3>1, <3>4 DEF MetricsRight
    <3>5. CASE p # Pool(i)
      <4>1. MetricsRight(p)' <=> MetricsRight(p)
        BY <1>7, <3>1, <3>5 DEF MetricsRight, Known
      <4> QED
        BY <1>2, <1>6, <2>1, <3>2, <4>1 DEF Working, Repairs
    <3> QED
      BY <3>3, <3>4, <3>5
  <2>4. stored' = stored /\ position' = position
    BY <1>1
  <2> QED
    BY <2>2, <2>3, <2>4 DEF Repairs
<1> QED
  BY <1>2, <1>5, <1>9, <1>10, <1>11, <1>12, <1>13, <1>15, CalmAfter DEF Working

-------------------------------------------------------------------------------
(* The chain, restarts and the command reset *)

LEMMA CalmStutters ==
    ASSUME Calm, UNCHANGED <<pool, position, stored, task>>, latest \in Nat, latest' \in Nat,
           latest <= latest', stored \subseteq Logs, position \in [Pools -> LogOrNone],
           task \in [Slots -> Tasks]
    PROVE  Calm'
<1>1. \A p \in Pools : position[p] # 0 => position[p] \in Logs
  BY DEF LogOrNone
<1>2. Kept'
  BY <1>1, LogTypes DEF Calm, Kept, Known
<1>3. Active' = Active /\ (Settled' <=> Settled)
  BY DEF Active, Settled, PriceRight, MetricsRight, Known
<1>4. ASSUME NEW t \in Slots, Working(t) PROVE Working(t)'
  <2>1. /\ Ahead(t)' <=> Ahead(t)
        /\ \A j : WillTake(t, j)' <=> WillTake(t, j)
        /\ \A p : (Pricing(t, p)' <=> Pricing(t, p)) /\ (Measuring(t, p)' <=> Measuring(t, p))
    BY DEF Ahead, WillTake, Finding, Historical, Pricing, Measuring, LogPool
  <2>2. Reaches(t)' /\ Sorted(t)' /\ Ordered(t)'
    BY <1>4, <2>1 DEF Working, Reaches, Sorted, Ordered, Finding, Historical
  <2>3. Holds(t)'
    <3>1. task[t].metrics \in Logs => Block(task[t].metrics) \in Nat
      BY LogTypes
    <3> QED
      BY <1>4, <2>1, <3>1 DEF Working, Holds, LogPool, Known
  <2>4. Repairs(t)'
    BY <1>4, <2>1 DEF Working, Repairs, PriceRight, MetricsRight, Known
  <2> QED
    BY <2>2, <2>3, <2>4 DEF Working
<1> QED
  BY <1>2, <1>3, <1>4 DEF Calm, Idle

\* One handler at most is started by a block, when nothing else is in progress: what it has in
\* hand is newer than all that is stored.
LEMMA MineCalm ==
    ASSUME IInv, Calm, NEW D \in SUBSET Notified, MineAndNotify(D), ~overlapped'
    PROVE  Calm'
<1>1. UNCHANGED <<pool, position, stored>> /\ latest' = latest + 1 /\ latest \in Nat
  BY StepTypes DEF MineAndNotify, tables
<1>2. \A i \in D : i \in Logs /\ Block(i) = latest + 1
  BY <1>1, LogTypes DEF Notified, LogsIn
<1>3. CASE D = {}
  <2>1. task' = task
    BY <1>3, StepTypes DEF MineAndNotify
  <2> QED
    BY <1>1, <2>1, StepTypes, CalmStutters
<1>4. CASE D # {}
  <2>1. Idle /\ ~(Cardinality(D) > 1)
    BY <1>4 DEF MineAndNotify, Starts
  <2>2. PICK t \in D : D = {t}
    <3>1. IsFiniteSet(D)
      <4>1. IsFiniteSet(Logs)
        BY LogTypes, FS_Interval
      <4> QED
        BY <1>2, <4>1, FS_Subset
    <3>2. Cardinality(D) = 1
      <4>1. Cardinality(D) \in Nat /\ Cardinality(D) # 0
        BY <1>4, <3>1, FS_CardinalityType, FS_EmptySet
      <4> QED
        BY <2>1, <4>1
    <3> QED
      BY <3>1, <3>2, FS_Singleton
  <2>3. /\ Kept /\ Settled
        /\ t \in Slots /\ t \in Logs /\ Block(t) = latest' /\ Block(t) \in Nat
    <3>1. \A u \in Slots : Active # {u}
      BY <2>1 DEF Idle
    <3> QED
      BY <1>1, <1>2, <2>2, <3>1 DEF Calm, Slots
  <2> DEFINE pc == IF Kind(t) = "initialize" THEN "discover" ELSE "scan"
  <2>4. /\ task'[t].pc = pc /\ task'[t].from = Block(t) /\ task'[t].to = Block(t)
        /\ task'[t].todo = {t}
        /\ \A u \in Slots \ {t} : task'[u] = task[u]
    BY <2>2, <2>3 DEF MineAndNotify, NoTask
  <2>5. pc \in {"discover", "scan"} /\ (pc = "discover" <=> Kind(t) = "initialize")
    OBVIOUS
  <2> HIDE DEF pc
  <2>6. Active' = {t}
    BY <2>1, <2>3, <2>4, <2>5 DEF Idle, Active
  <2>7. \A j \in stored : Block(j) <= latest /\ j \in Logs
    BY <2>3, StepTypes DEF Kept
  <2>8. \A p \in Pools : position[p] # 0 =>
           /\ position[p] \in Logs /\ Block(position[p]) <= latest
           /\ Kind(position[p]) = "modify" /\ Pool(position[p]) = p
    BY <2>3, StepTypes DEF Kept, LogOrNone
  <2>9. Kept'
    <3>1. \A u \in Slots : task'[u].pc \in {"none", "cursor", "height"} => task'[u].todo = {}
      BY <2>3, <2>4, <2>5 DEF Kept
    <3>2. \A j \in stored : Block(j) <= latest'
      BY <1>1, <2>7, LogTypes
    <3>3. \A p \in Pools : position[p] # 0 => Block(position[p]) <= latest'
      BY <1>1, <2>8, LogTypes
    <3> QED
      BY <1>1, <2>3, <3>1, <3>2, <3>3 DEF Kept, Known
  <2>10. /\ Finding(t)' <=> pc = "discover"
         /\ \A p : ~Pricing(t, p)' /\ ~Measuring(t, p)'
    BY <2>4, <2>5 DEF Finding, Pricing, Measuring
  <2>11. Reaches(t)'
    <3>1. \A j \in stored : Block(j) <= latest'
      BY <1>1, <2>7, LogTypes
    <3>2. \A p \in Pools : position[p] # 0 => Block(position[p]) <= latest'
      BY <1>1, <2>8, LogTypes
    <3> QED
      BY <1>1, <2>3, <2>4, <3>1, <3>2 DEF Reaches
  <2>12. Sorted(t)'
    <3>1. ASSUME NEW j \in Logs, Block(j) <= latest, Kind(j) # "initialize", Kind(t) = "initialize",
                 Pool(j) = Pool(t)
          PROVE  FALSE
      <4>1. Block(t) <= Block(j)
        BY <2>3, <3>1, InitializedBefore
      <4> QED
        BY <1>1, <2>3, <3>1, <4>1, LogTypes
    <3>2. Kind(t) = "initialize" => \A j \in stored : Pool(j) # Pool(t)
      BY <2>7, <3>1, StepTypes
    <3>3. Kind(t) = "initialize" => position[Pool(t)] = 0
      BY <2>3, <2>8, <3>1, LogTypes
    <3> QED
      BY <1>1, <2>4, <2>5, <2>10, <3>2, <3>3 DEF Sorted
  <2>13. Ordered(t)'
    <3>1. ASSUME NEW j \in stored, j > t PROVE FALSE
      <4>1. Block(t) <= Block(j)
        BY <2>3, <2>7, <3>1, LogTypes, IndexerAssumption
      <4> QED
        BY <1>1, <2>3, <2>7, <4>1, LogTypes
    <3> QED
      BY <1>1, <2>4, <2>10, <3>1 DEF Ordered
  <2>14. Holds(t)'
    BY <2>4, <2>5, <2>10 DEF Holds
  <2>15. Repairs(t)'
    BY <1>1, <2>3, SettledKept, SettledRepairs
  <2> QED
    BY <2>3, <2>6, <2>9, <2>11, <2>12, <2>13, <2>14, <2>15 DEF Calm, Working
<1> QED
  BY <1>3, <1>4

\* A restart that is no disturbance cuts no task short.
LEMMA RestartCalm ==
    ASSUME IInv, Calm, Restart, ~disturbed' PROVE Calm'
<1>1. Steady /\ \A u \in Slots : task'[u] = IF u \in Maintenance THEN task[u] ELSE NoTask
  BY DEF Restart, Steady, tables
<1>2. \A u \in Slots : u \notin Maintenance => task[u].pc = "none"
  BY DEF Restart, Active
<1>3. NoTask.pc = "none" /\ NoTask.todo = {}
  BY DEF NoTask
<1>4. Active' = Active
  BY <1>1, <1>2, <1>3 DEF Active
<1>5. Kept'
  <2>1. \A u \in Slots : task'[u].pc \in {"none", "cursor", "height"} => task'[u].todo = {}
    BY <1>1, <1>3 DEF Calm, Kept
  <2> QED
    BY <1>1, <2>1 DEF Calm, Kept, Steady, Known
<1>6. ASSUME NEW t \in Slots, Active = {t}, Working(t) PROVE Working(t)'
  <2>1. task'[t] = task[t]
    BY <1>1, <1>2, <1>6 DEF Active
  <2>2. /\ Ahead(t)' <=> Ahead(t)
        /\ \A j : WillTake(t, j)' <=> WillTake(t, j)
        /\ \A p : (Pricing(t, p)' <=> Pricing(t, p)) /\ (Measuring(t, p)' <=> Measuring(t, p))
    BY <2>1 DEF Ahead, WillTake, Finding, Historical, Pricing, Measuring, LogPool
  <2>3. Reaches(t)' /\ Sorted(t)' /\ Ordered(t)'
    BY <1>1, <1>6, <2>1, <2>2 DEF Working, Reaches, Sorted, Ordered, Finding, Historical, Steady
  <2>4. Holds(t)'
    BY <1>1, <1>6, <2>1, <2>2 DEF Working, Holds, LogPool, Known, Steady
  <2>5. Repairs(t)'
    BY <1>1, <1>6, <2>1, <2>2 DEF Working, Repairs, PriceRight, MetricsRight, Known, Steady
  <2> QED
    BY <2>3, <2>4, <2>5 DEF Working
<1> QED
  BY <1>1, <1>4, <1>5, <1>6, SettledKept DEF Calm, Idle, Steady

LEMMA CalmInit == Init => Calm
<1> SUFFICES ASSUME Init PROVE Calm
  OBVIOUS
<1>1. \A t \in Slots : task[t].pc = "none" /\ task[t].todo = {}
  BY DEF Init, NoTask
<1>2. stored = {} /\ \A p \in Pools : position[p] = 0 /\ ~Known(p)
  BY DEF Init, Known, Unknown
<1> QED
  BY <1>1, <1>2 DEF Calm, Kept, Idle, Active, Settled, MetricsRight

LEMMA StepCalm ==
    ASSUME IInv, Calm, NEW t \in Slots, Step(t) PROVE Calm'
<1>1. ASSUME NEW i \in task[t].todo,
             \/ SaveInitialize(t, i) \/ SwapOrModifyOfUnknownPool(t, i) \/ SaveSwap(t, i)
             \/ SaveModify(t, i) \/ SaveDonate(t, i)
      PROVE  Calm'
  BY <1>1, SaveInitializeCalm, UnknownPoolCalm, SaveSwapCalm, SaveModifyCalm, SaveDonateCalm
<1> QED
  BY <1>1, ReadCursorCalm, EndCalm, ReadHeightCalm, EndDiscoveryCalm, ReadPoolsCalm,
     RecomputeCalm, WriteMetaCalm, UpsertCalm, RereadCalm, SetCursorCalm DEF Step

\* What was not disturbed after the step was not disturbed before it.
LEMMA CalmNext == IInv /\ (Undisturbed => Calm) /\ [Next]_vars => (Undisturbed => Calm)'
<1> SUFFICES ASSUME IInv, Undisturbed => Calm, [Next]_vars, Undisturbed' PROVE Calm'
  OBVIOUS
<1>1. CASE UNCHANGED vars
  BY <1>1, StepTypes, CalmStutters DEF Undisturbed, vars, tables
<1>2. ASSUME NEW t \in Slots, Begin(t) \/ StartMaintenance(t) PROVE Calm'
  <2>1. Undisturbed
    BY <1>2 DEF Undisturbed, Begin, StartWatcher, StartSync, StartMaintenance, Start, Starts
  <2> QED
    BY <1>2, <2>1, StartCalm DEF Undisturbed
<1>3. ASSUME NEW t \in Slots, Step(t) PROVE Calm'
  <2>1. UNCHANGED <<overlapped, disturbed>>
    BY <1>3 DEF Step, ReadCursor, NothingNew, ReadHeight, EndDiscovery, ReadPools, EndScan, Finish,
       Recompute, WriteMeta, UpsertPosition, Reread, SetCursor, SaveInitialize,
       SwapOrModifyOfUnknownPool, SaveSwap, SaveModify, SaveDonate
  <2> QED
    BY <1>3, <2>1, StepCalm DEF Undisturbed
<1>4. ASSUME NEW t \in Slots, Trouble(t) PROVE FALSE
  BY <1>4 DEF Undisturbed, Trouble, Throw, MetaNotWritten, SwapNotInserted, PositionNotFound
<1>5. ASSUME NEW D \in SUBSET Notified, MineAndNotify(D) PROVE Calm'
  <2>1. Undisturbed
    BY <1>5 DEF Undisturbed, MineAndNotify, Starts
  <2> QED
    BY <1>5, <2>1, MineCalm DEF Undisturbed
<1>6. ASSUME Restart PROVE Calm'
  BY <1>6, RestartCalm DEF Undisturbed, Restart
<1>7. ASSUME Reset PROVE Calm'
  BY <1>7, StepTypes, CalmStutters DEF Undisturbed, Reset
<1> QED
  BY <1>1, <1>2, <1>3, <1>4, <1>5, <1>6, <1>7 DEF Next, Mine, LoseNotifications

\* While no two tasks have met and none was cut short: one task at most is at work, and all that
\* is wrong in the pool rows it will have put right when it ends.
THEOREM OneTaskPutsRight == Spec => [](Undisturbed => Calm)
<1>1. Init => (Undisturbed => Calm)
  BY CalmInit
<1> QED
  BY <1>1, CalmNext, Invariance, PTL DEF Spec

\* The price a pool shows is that of its last stored swap, whatever was scanned again and
\* in whatever batches and chunks (persistence.ts saveSwap, backfill.ts).
THEOREM ShownPriceIsOfLastSwap == Spec => []PriceIsOfLastSwap
<1>1. (Undisturbed => Calm) => PriceIsOfLastSwap
  <2> SUFFICES ASSUME Calm, Idle, NEW p \in Pools, Known(p)
               PROVE  /\ \A i \in stored : Pool(i) = p => i <= pool[p].price
                      /\ pool[p].price \in stored \/ Kind(pool[p].price) = "initialize"
    BY DEF PriceIsOfLastSwap, Undisturbed
  <2>1. Kept /\ Settled
    BY DEF Calm, Idle
  <2> QED
    BY <2>1 DEF Kept, Settled, PriceRight
<1> QED
  BY <1>1, OneTaskPutsRight, PTL

\* And its depth and value are those of its stored positions (recomputePoolMetrics).
THEOREM ShownMetricsAreOfPositions == Spec => []MetricsAreOfPositions
<1>1. (Undisturbed => Calm) => MetricsAreOfPositions
  BY DEF MetricsAreOfPositions, Undisturbed, Calm, Idle, Settled, MetricsRight
<1> QED
  BY <1>1, OneTaskPutsRight, PTL
===============================================================================
