------------------------------ MODULE PaperBalances ------------------------------
(***************************************************************************)
(* The balances of paper mode in a file (services/paperBalanceStore.ts):   *)
(* the dashboard edits them (api/balances/paper), the web server and the   *)
(* engine read them.  Every request is a read and perhaps a write, none    *)
(* waits for another, and a write first empties the file.                  *)
(***************************************************************************)
EXTENDS Integers

CONSTANTS
    Requests,   \* requests that may be under way at once
    Edited,     \* amounts of edits: any finite number
    MaxEdits    \* bound on the edits of the file

Tokens == {"ZEPH", "USDT"}

BalancesAssumption == Edited \subseteq Int /\ MaxEdits \in Nat

VARIABLES
    file,      \* the balances in the file; Torn while a write has emptied it
    op,        \* of each request: its point and what it has read
    entered,   \* the last edit of each token that was answered
    doubted,   \* tokens whose last edit met another write, or whose balance a request found gone
    edits

vars == <<file, op, entered, doubted, edits>>

Torn == <<>>
NoToken == "none"
NoOp == [pc |-> "none", token |-> NoToken, amount |-> 0, read |-> Torn]

Empty == [t \in Tokens |-> 0]

TypeOK ==
    /\ file = Torn \/ file \in [Tokens -> Int]
    /\ \A r \in Requests : op[r].pc \in {"none", "read", "write", "fill", "repair", "refill"}
    /\ entered \in [Tokens -> Int] /\ doubted \subseteq Tokens /\ edits \in 0..MaxEdits

Init ==
    /\ file = Empty /\ op = [r \in Requests |-> NoOp]
    /\ entered = Empty /\ doubted = {} /\ edits = 0

-----------------------------------------------------------------------------
Edits(r) == op[r].token # NoToken

At(r, pc) == op[r].pc = pc

Enter(r, token, amount) ==
    /\ At(r, "none")
    /\ op' = [op EXCEPT ![r] = [NoOp EXCEPT !.pc = "read", !.token = token, !.amount = amount]]
    /\ UNCHANGED <<file, entered, doubted>>

\* upsertPaperBalance of a token; readPaperBalances alone, of a GET or of the engine.
Upsert(r, token, amount) == edits < MaxEdits /\ edits' = edits + 1 /\ Enter(r, token, amount)
Load(r) == Enter(r, NoToken, 0) /\ UNCHANGED edits

Goto(r, pc, read) == op' = [op EXCEPT ![r].pc = pc, ![r].read = read]
Leave(r) == op' = [op EXCEPT ![r] = NoOp]

\* readFile and JSON.parse: an emptied file does not parse, and is taken for an empty store, which
\* is written.
ReadFile(r) ==
    /\ At(r, "read")
    /\ IF file = Torn THEN Goto(r, "repair", Empty)
       ELSE IF Edits(r) THEN Goto(r, "write", file) ELSE Leave(r)
    /\ doubted' = (IF file = Torn THEN Tokens ELSE doubted)
    /\ UNCHANGED <<file, entered, edits>>

\* writeFile opens the file, which empties it, ...
Truncate(r) ==
    /\ op[r].pc \in {"write", "repair"}
    /\ file' = Torn
    /\ Goto(r, IF At(r, "write") THEN "fill" ELSE "refill", op[r].read)
    /\ UNCHANGED <<entered, doubted, edits>>

\* What another request has read it will write, over anything written since.
Alone(r) == \A q \in Requests \ {r} : op[q].pc \notin {"write", "fill", "repair", "refill"}

Answer(r) ==
    /\ entered' = [entered EXCEPT ![op[r].token] = op[r].amount] /\ Leave(r)
    /\ doubted' = (IF Alone(r) THEN doubted \ {op[r].token} ELSE doubted \cup {op[r].token})
    /\ UNCHANGED edits

\* Mutant: the store that is written holds the edit alone.
FillWithEdit(r) ==
    /\ At(r, "fill")
    /\ file' = [Empty EXCEPT ![op[r].token] = op[r].amount]
    /\ Answer(r)

\* ... and writes the store that was read with the edit in it.
Fill(r) ==
    /\ At(r, "fill")
    /\ file' = [op[r].read EXCEPT ![op[r].token] = op[r].amount]
    /\ Answer(r)

\* The empty store is written, and the edit goes on with it.
Refill(r) ==
    /\ At(r, "refill")
    /\ file' = Empty
    /\ IF Edits(r) THEN Goto(r, "write", Empty) ELSE Leave(r)
    /\ UNCHANGED <<entered, doubted, edits>>

\* The process of a request ends.
Crash(r) ==
    /\ ~At(r, "none")
    /\ Leave(r)
    /\ UNCHANGED <<file, entered, doubted, edits>>

Next ==
    \E r \in Requests :
        \/ \E t \in Tokens, n \in Edited : Upsert(r, t, n)
        \/ Load(r) \/ ReadFile(r) \/ Truncate(r) \/ Fill(r) \/ Refill(r) \/ Crash(r)

Spec == Init /\ [][Next]_vars

-----------------------------------------------------------------------------
(* Properties *)

\* An edit is kept, of either token, whatever else reads and writes the file, but for two cases: another
\* request had read the file before the edit was written, and was yet to write; or a request has found the
\* file emptied, by a write in progress or one that a crash cut short, which loses all balances.  The next
\* edit that meets no other write puts its token right again.
LoneEditsAreKept == file # Torn => \A t \in Tokens \ doubted : file[t] = entered[t]
===============================================================================
