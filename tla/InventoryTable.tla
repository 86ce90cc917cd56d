---------------------------- MODULE InventoryTable ----------------------------
(***************************************************************************)
(* The table InventoryBalance and its two writers: the engine, which at    *)
(* the end of a cycle writes a row for each balance it loaded in the       *)
(* beginning of it (src/domain/inventory/balances.ts), and the dashboard,  *)
(* whose actions move an amount from the row of one venue to that of       *)
(* another (apps/web/app/api/inventory/actions/route.ts).                  *)
(*                                                                         *)
(* A row's key is a name and a venue.  The engine's names carry the suffix *)
(* of the asset ("ZEPH.n", "WZEPH.e"), the dashboard's do not.  Its        *)
(* requests overlap, and each looks at a row before the transaction that   *)
(* takes from it.                                                          *)
(***************************************************************************)
EXTENDS Integers, SequencesExt

CONSTANTS
    Coins,      \* coins whose balances are looked at
    Held,       \* balances a wallet may have
    Posts,      \* requests of the dashboard that may be under way at once
    Transfers,  \* what they may ask for: a coin, the venues it moves between, an amount
    MaxTroubles \* bound on failed writes and crashes

None == -1

\* wrap, unwrap, deposit_cex and withdraw_cex, whether or not the exchange lists the coin.
VenueMap == {<<"native", "evm">>, <<"evm", "native">>, <<"native", "cex">>, <<"cex", "native">>}

TableAssumption ==
    /\ IsFiniteSet(Coins) /\ Held \subseteq Nat /\ MaxTroubles \in Nat
    /\ Transfers \subseteq Coins \X VenueMap \X (Nat \ {0})

Venues == {"evm", "native", "cex"}
Assets == {<<c, suffix>> : c \in Coins, suffix \in {"e", "n", "x"}}

VARIABLES
    held,     \* what the wallets hold
    snapshot, \* inventory.balances of the cycle, NoSnapshot before the first
    left,     \* its entries not yet written
    errors,   \* entries of it whose write failed
    table,
    request,  \* the action each request asks for
    troubles

engine == <<snapshot, left, errors>>
vars == <<held, engine, table, request, troubles>>

NoSnapshot == <<>>
NoRequest == [from |-> "none"]

VenueForAsset(a) == CASE a[2] = "e" -> "evm" [] a[2] = "n" -> "native" [] a[2] = "x" -> "cex"

EngineKey(a) == <<a[1], a[2], VenueForAsset(a)>>

SymbolKey(coin, venue) == <<coin, "", venue>>

Keys == {EngineKey(a) : a \in Assets} \cup {SymbolKey(c, v) : c \in Coins, v \in Venues}

TypeOK ==
    /\ held \in [Assets -> Held]
    /\ snapshot = NoSnapshot \/ snapshot \in [Assets -> Held]
    /\ left \in Seq(Assets) /\ errors \subseteq Assets
    /\ table \in [Keys -> Int]
    /\ troubles \in 0..MaxTroubles

Init ==
    /\ held \in [Assets -> Held]
    /\ snapshot = NoSnapshot /\ left = <<>> /\ errors = {}
    /\ table = [k \in Keys |-> None]
    /\ request = [p \in Posts |-> NoRequest] /\ troubles = 0

\* A wallet's balance changes, by a plan or otherwise.
Change(a, amount) ==
    /\ held' = [held EXCEPT ![a] = amount]
    /\ UNCHANGED <<engine, table, request, troubles>>

Trouble == troubles < MaxTroubles /\ troubles' = troubles + 1

-----------------------------------------------------------------------------
(* The engine *)

\* Of the assets of a venue, those of which there is something.
Entries(balances, suffix) == SetToSeq({a \in Assets : a[2] = suffix /\ balances[a] # 0})

LoadInventorySnapshot ==
    /\ left = <<>>
    /\ snapshot' = held /\ errors' = {}
    /\ left' = Entries(held, "e") \o Entries(held, "n") \o Entries(held, "x")
    /\ UNCHANGED <<held, table, request, troubles>>

Upsert ==
    /\ left # <<>>
    /\ left' = Tail(left)
    /\ table' = [table EXCEPT ![EngineKey(Head(left))] = snapshot[Head(left)]]
    /\ UNCHANGED <<held, snapshot, errors, request, troubles>>

\* The entry is counted as an error and the next one is tried.
UpsertFails ==
    /\ left # <<>> /\ Trouble
    /\ left' = Tail(left) /\ errors' = errors \cup {Head(left)}
    /\ UNCHANGED <<held, snapshot, table, request>>

Crash ==
    /\ left # <<>> /\ Trouble
    /\ snapshot' = NoSnapshot /\ left' = <<>> /\ errors' = {}
    /\ UNCHANGED <<held, table, request>>

-----------------------------------------------------------------------------
(* The dashboard *)

Ask(p, coin, venues, amount) ==
    /\ request[p] = NoRequest
    /\ request' = [request EXCEPT ![p] =
          [from |-> SymbolKey(coin, venues[1]), to |-> SymbolKey(coin, venues[2]),
           amount |-> amount, have |-> None]]
    /\ UNCHANGED <<held, engine, table, troubles>>

Amount(k) == IF table[k] = None THEN 0 ELSE table[k]

Waiting(p) == request[p] # NoRequest /\ request[p].have = None

ReadBalances(p) ==
    /\ Waiting(p)
    /\ request' = [request EXCEPT ![p].have = Amount(request[p].from)]
    /\ UNCHANGED <<held, engine, table, troubles>>

\* The transaction: a row that is not there is not created with less than nothing.
Deltas(r) ==
    [table EXCEPT ![r.from] = IF @ = None THEN 0 ELSE @ - r.amount,
                  ![r.to]   = IF @ = None THEN r.amount ELSE @ + r.amount]

Respond(p) == request' = [request EXCEPT ![p] = NoRequest]

\* Decided by what was read, applied to what is there.
ApplyDeltas(p) ==
    /\ request[p] # NoRequest /\ ~Waiting(p)
    /\ table' = (IF request[p].have < request[p].amount THEN table ELSE Deltas(request[p]))
    /\ Respond(p)
    /\ UNCHANGED <<held, engine, troubles>>

ActionFails(p) ==
    /\ request[p] # NoRequest
    /\ Respond(p)
    /\ UNCHANGED <<held, engine, table, troubles>>

Next ==
    \/ \E a \in Assets, amount \in Held : Change(a, amount)
    \/ LoadInventorySnapshot \/ Upsert \/ UpsertFails \/ Crash
    \/ \E p \in Posts :
          \/ \E a \in Transfers : Ask(p, a[1], a[2], a[3])
          \/ ReadBalances(p) \/ ApplyDeltas(p) \/ ActionFails(p)

Spec == Init /\ [][Next]_vars

-----------------------------------------------------------------------------
(* Properties *)

\* What a complete cycle has written stands until the next, of every balance that was there.  And it
\* stands because no action of the dashboard is ever carried out, though they overlap and look at a row
\* before they take from it: they look for rows of names that nobody writes, whatever the wallets hold.
SyncedRowsStand ==
    /\ snapshot # NoSnapshot /\ left = <<>> =>
         \A a \in Assets \ errors : snapshot[a] # 0 => table[EngineKey(a)] = snapshot[a]
    /\ \A c \in Coins, v \in Venues : table[SymbolKey(c, v)] = None
===============================================================================
