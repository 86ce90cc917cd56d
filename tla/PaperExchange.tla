------------------------------ MODULE PaperExchange ------------------------------
(***************************************************************************)
(* The account of the paper exchange (services/mexc/paper.ts), which lives *)
(* in the memory of the web server behind api/paper/account.  Requests     *)
(* overlap: an order waits for its price, and the account goes on.         *)
(*                                                                         *)
(* The route takes any number for a deposit, a withdrawal or a balance of  *)
(* a reset, be it negative or nothing; only an order's quantity must be    *)
(* positive.                                                               *)
(***************************************************************************)
EXTENDS Integers, Sequences

CONSTANTS
    Orders,     \* orders that may wait at once
    Amounts,    \* amounts of deposits and withdrawals
    Quantities, \* amounts of orders
    Openings,   \* balances the account may be made or reset with
    Prices,     \* of one ZEPH, in thousandths of a dollar
    MaxEvents   \* bound on the events of the account

Tokens == {"ZEPH", "USDT"}

ExchangeAssumption ==
    /\ Amounts \subseteq Int /\ Quantities \subseteq Nat \ {0} /\ MaxEvents \in Nat
    /\ Openings \subseteq [Tokens -> Int]
    /\ \A p \in Prices : p \in Nat \ {0} /\ p % 1000 = 0

VARIABLES
    balances,  \* of the account, USDT in thousandths
    opening,   \* what the account was made or reset with
    events,
    order      \* the side of each order whose price is awaited, or "none"

vars == <<balances, opening, events, order>>

Event(type, deltas, fee) == [type |-> type, deltas |-> deltas, fee |-> fee]

TypeOK ==
    /\ balances \in [Tokens -> Int] /\ opening \in [Tokens -> Int]
    /\ Len(events) <= MaxEvents
    /\ \A i \in DOMAIN events : events[i].type \in {"deposit", "withdraw", "trade"}
    /\ order \in [Orders -> {"none", "BUY", "SELL"}]

Init ==
    /\ balances \in Openings /\ opening = balances
    /\ events = <<>> /\ order = [r \in Orders |-> "none"]

-----------------------------------------------------------------------------
Units(token) == IF token = "USDT" THEN 1000 ELSE 1

Only(token, delta) == [t \in Tokens |-> IF t = token THEN delta ELSE 0]

\* The balances and the event that explains them.
Book(event, change) ==
    /\ Len(events) < MaxEvents
    /\ balances' = [t \in Tokens |-> balances[t] + change[t]]
    /\ events' = Append(events, event)

\* deposit, which adds whatever it is given.
Deposit(token, amount) ==
    /\ Book(Event("deposit", Only(token, amount), 0), Only(token, amount))
    /\ UNCHANGED <<opening, order>>

\* withdraw, which throws without the balance.
Withdraw(token, amount) ==
    /\ balances[token] >= amount
    /\ Book(Event("withdraw", Only(token, -amount), 0), Only(token, -amount))
    /\ UNCHANGED <<opening, order>>

\* A tenth of a ZEPH, or a dollar.
WithdrawFee(token) == IF token = "USDT" THEN 1000 ELSE 0

\* What arrives elsewhere is less by the fee, which is no event of its own: the account gives the
\* whole amount, and gives nothing if the fee would eat it.
RequestWithdraw(token, amount) == amount > WithdrawFee(token) /\ Withdraw(token, amount)

\* marketOrder asks for the price.
PlaceOrder(r, side) ==
    /\ order[r] = "none" /\ Len(events) < MaxEvents
    /\ order' = [order EXCEPT ![r] = side]
    /\ UNCHANGED <<balances, opening, events>>

FeeOf(notional) == notional \div 1000

\* Mutant: what a purchase costs is checked without the fee.
AffordableWithoutFee(side, quantity, price) ==
    IF side = "BUY" THEN balances["USDT"] >= price * quantity ELSE balances["ZEPH"] >= quantity

\* executeMarketOrder's checks, of the balances as they are when the price has come.
Affordable(side, quantity, price) ==
    IF side = "BUY" THEN balances["USDT"] >= price * quantity + FeeOf(price * quantity)
    ELSE balances["ZEPH"] >= quantity

\* The trade: two changes, and the fee a third, which the event names apart.
ExecuteOrder(r, quantity, price) ==
    LET notional == price * quantity
        sign == IF order[r] = "BUY" THEN 1 ELSE -1
        deltas == [ZEPH |-> sign * quantity, USDT |-> -sign * notional]
    IN  /\ order[r] # "none" /\ Affordable(order[r], quantity, price)
        /\ Book(Event("trade", deltas, FeeOf(notional)),
                [deltas EXCEPT !["USDT"] = @ - FeeOf(notional)])
        /\ order' = [order EXCEPT ![r] = "none"]
        /\ UNCHANGED opening

\* No price, or not enough for it: the order is answered with a failure.
RefuseOrder(r) ==
    /\ order[r] # "none"
    /\ order' = [order EXCEPT ![r] = "none"]
    /\ UNCHANGED <<balances, opening, events>>

Reset(amounts) ==
    /\ balances' = amounts /\ opening' = amounts /\ events' = <<>>
    /\ UNCHANGED order

Next ==
    \/ \E t \in Tokens, n \in Amounts :
          \/ Deposit(t, n * Units(t))
          \/ Withdraw(t, n * Units(t)) \/ RequestWithdraw(t, n * Units(t))
    \/ \E r \in Orders :
          \/ \E side \in {"BUY", "SELL"} : PlaceOrder(r, side)
          \/ \E n \in Quantities, p \in Prices : ExecuteOrder(r, n, p)
          \/ RefuseOrder(r)
    \/ \E amounts \in Openings : Reset(amounts)

Spec == Init /\ [][Next]_vars

-----------------------------------------------------------------------------
(* Properties *)

Effect(event, token) == event.deltas[token] - (IF token = "USDT" THEN event.fee ELSE 0)

\* The balance of a token after each event, as the events explain it.
Explained(token) ==
    LET sum[n \in 0..Len(events)] ==
            IF n = 0 THEN opening[token] ELSE sum[n - 1] + Effect(events[n], token)
    IN  sum

\* The events since the account was opened explain its balances, fees and all; and whatever became of
\* the account while an order waited for its price, no trade and no withdrawal has taken of a token more
\* than there was.  What is overdrawn was opened so, or by a deposit of less than nothing.
AccountAddsUp ==
    \A t \in Tokens :
        /\ balances[t] = Explained(t)[Len(events)]
        /\ \A i \in DOMAIN events :
              events[i].type # "deposit" /\ Effect(events[i], t) < 0 => Explained(t)[i] >= 0
===============================================================================
