-------------------------- MODULE InventoryTableProofs --------------------------
(***************************************************************************)
(* What a complete cycle of the engine wrote into InventoryBalance stands  *)
(* until the next, for any coins, balances, amounts and overlapping        *)
(* requests: Spec => []SyncedRowsStand.                                    *)
(*                                                                         *)
(* Two facts make it inductive.  Written: of the cycle in progress, an     *)
(* asset has its row, or its turn is still to come, or its write failed.   *)
(* Unnamed: no row has one of the dashboard's names, since the engine      *)
(* writes none, and a request that finds none has read 0, which is less    *)
(* than whatever it asks for, so that no transaction writes one either.    *)
(***************************************************************************)
EXTENDS InventoryTable, FiniteSetTheorems, TLAPS

EngineKeys == {EngineKey(a) : a \in Assets}
SymbolKeys == {SymbolKey(c, v) : c \in Coins, v \in Venues}

Requests == [from : SymbolKeys, to : SymbolKeys, amount : Nat \ {0}, have : {None, 0}]

Typed ==
    /\ held \in [Assets -> Held]
    /\ snapshot = NoSnapshot \/ snapshot \in [Assets -> Held]
    /\ left \in Seq(Assets) /\ errors \subseteq Assets
    /\ left # <<>> => snapshot \in [Assets -> Held]
    /\ table \in [Keys -> Int]
    /\ request \in [Posts -> Requests \cup {NoRequest}]

ToCome(a) == \E i \in 1..Len(left) : left[i] = a

Written ==
    snapshot # NoSnapshot =>
        \A a \in Assets \ errors :
            snapshot[a] # 0 => ToCome(a) \/ table[EngineKey(a)] = snapshot[a]

Unnamed == \A k \in SymbolKeys : table[k] = None

IInv == Typed /\ Written /\ Unnamed

USE DEF engine

-----------------------------------------------------------------------------
(* Keys *)

\* The names of the two writers differ, and the engine's tell its assets apart.
LEMMA KeysDiffer ==
    /\ Keys = EngineKeys \cup SymbolKeys
    /\ \A a \in Assets : EngineKey(a) \in EngineKeys /\ EngineKey(a) \notin SymbolKeys
    /\ \A a, b \in Assets : EngineKey(a) = EngineKey(b) => a = b
<1>1. Keys = EngineKeys \cup SymbolKeys
  BY DEF Keys, EngineKeys, SymbolKeys
<1>2. ASSUME NEW a \in Assets
      PROVE  EngineKey(a) \in EngineKeys /\ EngineKey(a) \notin SymbolKeys
  <2>1. EngineKey(a) \in EngineKeys
    BY DEF EngineKeys
  <2>2. EngineKey(a)[2] # ""
    <3>1. a[2] \in {"e", "n", "x"}
      BY DEF Assets
    <3>2. EngineKey(a)[2] = a[2]
      BY DEF EngineKey
    <3> QED
      BY <3>1, <3>2
  <2>3. \A k \in SymbolKeys : k[2] = ""
    <3>1. \A k \in SymbolKeys : \E c \in Coins, v \in Venues : k = SymbolKey(c, v)
      BY DEF SymbolKeys
    <3>2. \A c \in Coins, v \in Venues : SymbolKey(c, v)[2] = ""
      BY DEF SymbolKey
    <3> QED
      BY <3>1, <3>2
  <2> QED
    BY <2>1, <2>2, <2>3
<1>3. ASSUME NEW a \in Assets, NEW b \in Assets, EngineKey(a) = EngineKey(b)
      PROVE  a = b
  BY <1>3 DEF Assets, EngineKey
<1> QED
  BY <1>1, <1>2, <1>3

LEMMA AssetsAreFinite == ASSUME TableAssumption PROVE IsFiniteSet(Assets)
<1> DEFINE Endings == {"e", "n", "x"}
<1>1. IsFiniteSet(Endings)
  <2>1. IsFiniteSet({"e"}) /\ IsFiniteSet({"n"}) /\ IsFiniteSet({"x"})
    BY FS_Singleton
  <2>2. IsFiniteSet({"e"} \cup {"n"})
    BY <2>1, FS_Union
  <2>3. IsFiniteSet(({"e"} \cup {"n"}) \cup {"x"})
    BY <2>1, <2>2, FS_Union
  <2> QED
    BY <2>3
<1>2. IsFiniteSet(Coins \X Endings)
  BY <1>1, FS_Product DEF TableAssumption
<1>3. Assets = Coins \X Endings
  BY DEF Assets
<1> QED
  BY <1>2, <1>3

\* A finite set as a sequence has exactly its elements.
LEMMA SequenceOfSet ==
    ASSUME NEW S, IsFiniteSet(S)
    PROVE  /\ SetToSeq(S) \in Seq(S)
           /\ \A x \in S : \E i \in 1..Len(SetToSeq(S)) : SetToSeq(S)[i] = x
<1> DEFINE n == Cardinality(S)
           F == [1..n -> S]
           f == SetToSeq(S)
<1>1. n \in Nat /\ IsFiniteSet(1..n) /\ Cardinality(1..n) = n
  BY FS_CardinalityType, FS_Interval
<1>2. PICK g \in F : IsInjective(g)
  BY FS_CardinalityType DEF ExistsBijection, Bijection, Injection, IsInjective
<1>3. f \in F /\ IsInjective(f)
  BY <1>2 DEF SetToSeq
<1>4. f \in Surjection(1..n, S)
  BY <1>1, <1>3, FS_Injection DEF Injection
<1>5. \A x \in S : \E i \in 1..n : f[i] = x
  BY <1>4 DEF Surjection
<1>6. f \in Seq(S) /\ Len(f) = n
  BY <1>1, <1>3
<1> QED
  BY <1>5, <1>6

-----------------------------------------------------------------------------
(* The initial state and the steps *)

LEMMA InitHolds == ASSUME TableAssumption, Init PROVE IInv
<1>1. Typed
  BY DEF Init, Typed, None, TableAssumption
<1>2. Written /\ Unnamed
  BY KeysDiffer DEF Init, Written, Unnamed
<1> QED
  BY <1>1, <1>2 DEF IInv

\* A cycle begins: every asset of which there is something has its turn to come.
LEMMA LoadKeeps == ASSUME TableAssumption, IInv, LoadInventorySnapshot PROVE IInv'
<1> DEFINE Those(suffix) == {a \in Assets : a[2] = suffix /\ held[a] # 0}
           E(suffix) == Entries(held, suffix)
<1>1. /\ snapshot' = held /\ errors' = {} /\ left' = E("e") \o E("n") \o E("x")
      /\ UNCHANGED <<held, table, request>>
  BY DEF LoadInventorySnapshot
<1>2. ASSUME NEW suffix
      PROVE  /\ E(suffix) \in Seq(Assets)
             /\ \A a \in Those(suffix) : \E i \in 1..Len(E(suffix)) : E(suffix)[i] = a
  <2> DEFINE T == Those(suffix)
             f == E(suffix)
  <2>1. IsFiniteSet(T)
    BY AssetsAreFinite, FS_Subset
  <2>2. f = SetToSeq(T)
    BY DEF Entries
  <2> HIDE DEF T, f
  <2>3. /\ f \in Seq(T)
        /\ \A a \in T : \E i \in 1..Len(f) : f[i] = a
    BY <2>1, <2>2, SequenceOfSet
  <2>4. T \subseteq Assets
    BY DEF T
  <2>5. f \in Seq(Assets)
    BY <2>3, <2>4
  <2> QED
    BY <2>3, <2>5 DEF T, f
<1>3. \A a \in Assets : a[2] \in {"e", "n", "x"}
  BY DEF Assets
<1>4. E("e") \in Seq(Assets) /\ E("n") \in Seq(Assets) /\ E("x") \in Seq(Assets)
  BY <1>2
<1> HIDE DEF E
<1>5. left' \in Seq(Assets)
  BY <1>1, <1>4
<1>6. ASSUME NEW a \in Assets, held[a] # 0
      PROVE  ToCome(a)'
  <2>1. PICK suffix \in {"e", "n", "x"} : \E i \in 1..Len(E(suffix)) : E(suffix)[i] = a
    BY <1>2, <1>3, <1>6
  <2>2. /\ Len(left') = Len(E("e")) + Len(E("n")) + Len(E("x"))
        /\ \A j \in 1..Len(E("e")) : left'[j] = E("e")[j]
        /\ \A j \in 1..Len(E("n")) : left'[Len(E("e")) + j] = E("n")[j]
        /\ \A j \in 1..Len(E("x")) : left'[Len(E("e")) + Len(E("n")) + j] = E("x")[j]
        /\ Len(E("e")) \in Nat /\ Len(E("n")) \in Nat /\ Len(E("x")) \in Nat
    BY <1>1, <1>4
  <2>3. PICK i \in 1..Len(E(suffix)) : E(suffix)[i] = a
    BY <2>1
  <2>4. CASE suffix = "e"
    <3>1. i \in 1..Len(left') /\ left'[i] = a
      BY <2>2, <2>3, <2>4
    <3> QED
      BY <3>1 DEF ToCome
  <2>5. CASE suffix = "n"
    <3>1. Len(E("e")) + i \in 1..Len(left') /\ left'[Len(E("e")) + i] = a
      BY <2>2, <2>3, <2>5
    <3> QED
      BY <3>1 DEF ToCome
  <2>6. CASE suffix = "x"
    <3>1. Len(E("e")) + Len(E("n")) + i \in 1..Len(left') /\ left'[Len(E("e")) + Len(E("n")) + i] = a
      BY <2>2, <2>3, <2>6
    <3> QED
      BY <3>1 DEF ToCome
  <2> QED
    BY <2>4, <2>5, <2>6
<1>7. Written'
  BY <1>1, <1>6 DEF Written
<1>8. Typed' /\ Unnamed'
  BY <1>1, <1>5 DEF IInv, Typed, Unnamed
<1> QED
  BY <1>7, <1>8 DEF IInv

\* What is left after the first entry.
LEMMA NextEntry ==
    ASSUME Typed, left # <<>>, left' = Tail(left)
    PROVE  /\ Head(left) \in Assets /\ left' \in Seq(Assets)
           /\ \A a \in Assets : ToCome(a) => a = Head(left) \/ ToCome(a)'
<1>1. /\ left \in Seq(Assets) /\ Len(left) \in Nat \ {0} /\ Head(left) = left[1]
      /\ left' \in Seq(Assets) /\ Len(left') = Len(left) - 1
      /\ \A i \in 1..Len(left') : left'[i] = left[i + 1]
  BY DEF Typed
<1>2. ASSUME NEW a \in Assets, NEW i \in 1..Len(left), left[i] = a, i # 1
      PROVE  ToCome(a)'
  <2>1. i - 1 \in 1..Len(left') /\ left'[i - 1] = a
    BY <1>1, <1>2
  <2> QED
    BY <2>1 DEF ToCome
<1> QED
  BY <1>1, <1>2 DEF ToCome

\* A row of the cycle is written, which has none of the dashboard's names.
LEMMA UpsertKeeps == ASSUME TableAssumption, IInv, Upsert PROVE IInv'
<1> DEFINE a == Head(left)
<1>1. /\ left # <<>> /\ left' = Tail(left) /\ UNCHANGED <<held, snapshot, errors, request>>
      /\ table' = [table EXCEPT ![EngineKey(a)] = snapshot[a]]
  BY DEF Upsert
<1>2. /\ a \in Assets /\ left' \in Seq(Assets)
      /\ \A b \in Assets : ToCome(b) => b = a \/ ToCome(b)'
  BY <1>1, NextEntry DEF IInv
<1> HIDE DEF a
<1>3. snapshot[a] \in Nat /\ EngineKey(a) \in Keys
  BY <1>1, <1>2, KeysDiffer DEF IInv, Typed, TableAssumption
<1>4. Typed'
  BY <1>1, <1>2, <1>3 DEF IInv, Typed, None
<1>5. table'[EngineKey(a)] = snapshot[a]
      /\ \A b \in Assets : b # a => table'[EngineKey(b)] = table[EngineKey(b)]
  BY <1>1, <1>2, <1>3, KeysDiffer DEF IInv, Typed
<1>6. Written'
  BY <1>1, <1>2, <1>5 DEF IInv, Written
<1>7. \A k \in SymbolKeys : table'[k] = table[k]
  BY <1>1, <1>2, KeysDiffer DEF IInv, Typed
<1> QED
  BY <1>4, <1>6, <1>7 DEF IInv, Unnamed

LEMMA UpsertFailsKeeps == ASSUME TableAssumption, IInv, UpsertFails PROVE IInv'
<1> DEFINE a == Head(left)
<1>1. /\ left # <<>> /\ left' = Tail(left) /\ errors' = errors \cup {a}
      /\ UNCHANGED <<held, snapshot, table, request>>
  BY DEF UpsertFails
<1>2. /\ a \in Assets /\ left' \in Seq(Assets)
      /\ \A b \in Assets : ToCome(b) => b = a \/ ToCome(b)'
  BY <1>1, NextEntry DEF IInv
<1> HIDE DEF a
<1>3. Typed' /\ Unnamed'
  BY <1>1, <1>2 DEF IInv, Typed, Unnamed
<1>4. Written'
  BY <1>1, <1>2 DEF IInv, Written
<1> QED
  BY <1>3, <1>4 DEF IInv

\* The engine stops, or a wallet's balance changes: nothing is asked of the table.
LEMMA OthersKeep ==
    ASSUME TableAssumption, IInv, Crash \/ \E a \in Assets, amount \in Held : Change(a, amount)
    PROVE  IInv'
<1>1. CASE Crash
  BY <1>1 DEF Crash, IInv, Typed, Written, Unnamed
<1>2. ASSUME NEW a \in Assets, NEW amount \in Held, Change(a, amount)
      PROVE  IInv'
  <2>1. UNCHANGED <<snapshot, left, errors, table, request>> /\ held' = [held EXCEPT ![a] = amount]
    BY <1>2 DEF Change
  <2>2. held' \in [Assets -> Held]
    BY <2>1 DEF IInv, Typed
  <2> QED
    BY <2>1, <2>2 DEF IInv, Typed, Written, Unnamed, ToCome
<1> QED
  BY <1>1, <1>2

\* A change of the requests leaves the rows alone.
LEMMA RequestsKeep ==
    ASSUME IInv, UNCHANGED <<held, snapshot, left, errors, table>>,
           request' \in [Posts -> Requests \cup {NoRequest}]
    PROVE  IInv'
BY DEF IInv, Typed, Written, Unnamed, ToCome

LEMMA AskKeeps ==
    ASSUME TableAssumption, IInv, NEW p \in Posts, NEW a \in Transfers, Ask(p, a[1], a[2], a[3])
    PROVE  IInv'
<1> DEFINE from == SymbolKey(a[1], a[2][1])
           to == SymbolKey(a[1], a[2][2])
           asked == [from |-> from, to |-> to, amount |-> a[3], have |-> None]
<1>1. request' = [request EXCEPT ![p] = asked] /\ UNCHANGED <<held, snapshot, left, errors, table>>
  BY DEF Ask
<1>2. a[1] \in Coins /\ a[2] \in VenueMap /\ a[3] \in Nat \ {0}
  BY DEF TableAssumption
<1>3. a[2][1] \in Venues /\ a[2][2] \in Venues
  BY <1>2 DEF VenueMap, Venues
<1>4. from \in SymbolKeys /\ to \in SymbolKeys
  BY <1>2, <1>3 DEF SymbolKeys
<1> HIDE DEF from, to
<1>5. asked \in Requests
  BY <1>2, <1>4 DEF Requests
<1> HIDE DEF asked
<1>6. request' \in [Posts -> Requests \cup {NoRequest}]
  BY <1>1, <1>5 DEF IInv, Typed
<1> QED
  BY <1>1, <1>6, RequestsKeep

\* A request reads that there is nothing.
LEMMA ReadKeeps == ASSUME TableAssumption, IInv, NEW p \in Posts, ReadBalances(p) PROVE IInv'
<1> DEFINE asks == request[p]
<1>1. /\ asks # NoRequest /\ request' = [request EXCEPT ![p] = [asks EXCEPT !.have = Amount(asks.from)]]
      /\ UNCHANGED <<held, snapshot, left, errors, table>>
  BY DEF ReadBalances, Waiting, IInv, Typed
<1>2. asks \in Requests
  BY <1>1 DEF IInv, Typed
<1> HIDE DEF asks
<1>3. Amount(asks.from) = 0
  BY <1>2 DEF IInv, Unnamed, Requests, Amount
<1>4. [asks EXCEPT !.have = 0] \in Requests
  BY <1>2 DEF Requests
<1>5. request' \in [Posts -> Requests \cup {NoRequest}]
  BY <1>1, <1>3, <1>4 DEF IInv, Typed
<1> QED
  BY <1>1, <1>5, RequestsKeep

\* And is answered that it is not enough.
LEMMA ApplyKeeps == ASSUME TableAssumption, IInv, NEW p \in Posts, ApplyDeltas(p) PROVE IInv'
<1> DEFINE asks == request[p]
<1>1. /\ asks # NoRequest /\ asks.have # None
      /\ table' = IF asks.have < asks.amount THEN table ELSE Deltas(asks)
      /\ request' = [request EXCEPT ![p] = NoRequest] /\ UNCHANGED <<held, snapshot, left, errors>>
  BY DEF ApplyDeltas, Waiting, Respond
<1>2. asks \in Requests
  BY <1>1 DEF IInv, Typed
<1> HIDE DEF asks
<1>3. asks.have = 0 /\ asks.amount \in Nat \ {0}
  BY <1>1, <1>2 DEF Requests
<1>4. table' = table
  BY <1>1, <1>3
<1>5. request' \in [Posts -> Requests \cup {NoRequest}]
  BY <1>1 DEF IInv, Typed
<1> QED
  BY <1>1, <1>4, <1>5, RequestsKeep

LEMMA FailKeeps == ASSUME IInv, NEW p \in Posts, ActionFails(p) PROVE IInv'
<1>1. request' = [request EXCEPT ![p] = NoRequest] /\ UNCHANGED <<held, snapshot, left, errors, table>>
  BY DEF ActionFails, Respond
<1>2. request' \in [Posts -> Requests \cup {NoRequest}]
  BY <1>1 DEF IInv, Typed
<1> QED
  BY <1>1, <1>2, RequestsKeep

LEMMA StepHolds == ASSUME TableAssumption, IInv, [Next]_vars PROVE IInv'
<1>1. CASE UNCHANGED vars
  BY <1>1 DEF vars, IInv, Typed, Written, Unnamed, ToCome
<1>2. CASE \E p \in Posts : \/ \E a \in Transfers : Ask(p, a[1], a[2], a[3])
                            \/ ReadBalances(p) \/ ApplyDeltas(p) \/ ActionFails(p)
  BY <1>2, AskKeeps, ReadKeeps, ApplyKeeps, FailKeeps
<1> QED
  BY <1>1, <1>2, LoadKeeps, UpsertKeeps, UpsertFailsKeeps, OthersKeep DEF Next

\* When nothing of a cycle is to come, what has no row failed.
LEMMA WrittenStands == ASSUME IInv PROVE SyncedRowsStand
<1>1. left = <<>> => \A a \in Assets : ~ToCome(a)
  BY DEF ToCome
<1>2. \A c \in Coins, v \in Venues : SymbolKey(c, v) \in SymbolKeys
  BY DEF SymbolKeys
<1> QED
  BY <1>1, <1>2 DEF IInv, Typed, Written, Unnamed, SyncedRowsStand

\* The rows a complete cycle wrote stand, however many requests of the dashboard overlap, because none is
\* ever carried out: no row has the names they ask for, whatever they ask and whatever the wallets hold
\* (inventory/balances.ts, syncInventoryToDb; api/inventory/actions/route.ts).
THEOREM RowsStand == ASSUME TableAssumption PROVE Spec => []SyncedRowsStand
<1>1. Init => IInv
  BY InitHolds
<1>2. IInv /\ [Next]_vars => IInv'
  BY StepHolds
<1>3. IInv => SyncedRowsStand
  BY WrittenStands
<1> QED
  BY <1>1, <1>2, <1>3, PTL DEF Spec

-----------------------------------------------------------------------------
(* The types of the rest *)

TroublesTyped == troubles \in 0..MaxTroubles

LEMMA TroublesBegin == ASSUME TableAssumption, Init PROVE TroublesTyped
BY DEF TableAssumption, Init, TroublesTyped

LEMMA TroublesStep ==
    ASSUME TableAssumption, TroublesTyped, [Next]_vars
    PROVE  TroublesTyped'
<1>1. troubles' = troubles \/ Trouble
  BY DEF Next, vars, Change, LoadInventorySnapshot, Upsert, UpsertFails, Crash, Ask, ReadBalances, ApplyDeltas,
         ActionFails
<1> QED
  BY <1>1 DEF TableAssumption, TroublesTyped, Trouble

LEMMA TableIsTyped == Typed /\ TroublesTyped => TypeOK
BY DEF Typed, TroublesTyped, TypeOK
===============================================================================
