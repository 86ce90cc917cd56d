------------------------------- MODULE ClipSizing -------------------------------
(***************************************************************************)
(* The search for the clip of an arbitrage: the amount whose opening swap  *)
(* brings the pool to the price of the close.  Against a native conversion *)
(* the reference stands still (calibration.clip.ts, with the loop of       *)
(* calibration.iterative.ts); against the exchange it moves with the clip  *)
(* (calibration.twoVenue.ts).                                              *)
(*                                                                         *)
(* Every sample is a quote awaited from the chain, which moves on between  *)
(* two of them, so that what an amount gives is not a function of it: a    *)
(* sample may have any gap, an unknown one, or fail.  A gap that is not    *)
(* positive is safe: the pool is not pushed past the reference.            *)
(*                                                                         *)
(* Against a conversion a gap is near enough when it is small; against the *)
(* exchange when it is a small part of the price the close would get,      *)
(* though there too samples are ranked by the gap itself.  Gaps are        *)
(* counted in ten-thousandths of the unit of prices, tolerances in basis   *)
(* points: a gap over a price is their quotient.                           *)
(***************************************************************************)
EXTENDS Integers, FiniteSets

CONSTANTS
    FirstAmount,     \* the estimate the search starts from
    LeastAmount,     \* minDecimal
    Gaps,            \* gaps a sample may have
    ClosePrices,     \* averages the exchange may fill a close at
    Tolerance,       \* a gap that is as good as none, for the exchange per unit of the price
    MaxEvaluations,  \* bound: 64 and 32 samples in the code
    MaxExpansions    \* bound: 64 and 32 steps out of one side in the code

\* What the constants must be.
SizingAssumption ==
    /\ LeastAmount \in Nat \ {0} /\ FirstAmount \in Nat /\ FirstAmount >= LeastAmount
    /\ Gaps \subseteq Int /\ ClosePrices \subseteq Nat \ {0} /\ Tolerance \in Nat
    /\ MaxEvaluations \in Nat \ {0} /\ MaxExpansions \in Nat \ {0}

VARIABLES
    flavor,     \* of the close: "native" or "cex"
    stage,      \* what the next sample is for, or how the search ended
    at,         \* the amount of the next sample
    tries,      \* steps out of one side so far
    count,      \* evaluations
    seen,       \* the samples recorded
    first,
    low, high,  \* the bracket: samples on either side of the reference
    best,
    latest,     \* the sample recorded last
    result,     \* the sample whose amount is the clip
    closing     \* against the exchange, the sample whose output the close leg sells

bracket == <<low, high>>
vars == <<flavor, stage, at, tries, count, seen, first, bracket, best, latest, result, closing>>

Sample(amount, known, gap, price) == [amount |-> amount, known |-> known, gap |-> gap, price |-> price]
NoSample == Sample(0, FALSE, 0, 1)

\* A native sample has the reference for its price.
CloseFills == IF flavor = "native" THEN {1} ELSE ClosePrices

\* What may come back from a quote of the next amount.
Known(gap, price) == Sample(at, TRUE, gap, price)
Unknown == Sample(at, FALSE, 0, 1)

Outcomes == {Known(g, p) : g \in Gaps, p \in CloseFills} \cup {Unknown}

Abs(n) == IF n < 0 THEN -n ELSE n
Larger(a, b) == IF a >= b THEN a ELSE b

Safe(s)  == s.known /\ s.gap <= 0

\* Within toleranceAbs of the reference; withinTolerance of the sample's own closing price.
Close(s) == s.known /\ Abs(s.gap) <= Tolerance * s.price

TypeOK ==
    /\ flavor \in {"native", "cex"}
    /\ stage \in {"first", "up", "down", "bisect", "least", "legs", "done", "failed"}
    /\ at \in Nat /\ tries \in 0..MaxExpansions /\ count \in Nat
    /\ \A s \in seen \cup {first, low, high, best, latest, result, closing} :
          s = Sample(s.amount, s.known, s.gap, s.price)

Init ==
    /\ flavor \in {"native", "cex"}
    /\ stage = "first" /\ at = FirstAmount /\ tries = 0 /\ count = 0 /\ seen = {}
    /\ first = NoSample /\ low = NoSample /\ high = NoSample /\ best = NoSample
    /\ latest = NoSample /\ result = NoSample /\ closing = NoSample

-----------------------------------------------------------------------------
(* Preferring one sample to another; a is there first *)

\* Mutant: the nearest to the reference, on either side.
PreferNearest(a, b) ==
    IF a = NoSample THEN b ELSE IF ~b.known THEN a ELSE IF Abs(a.gap) <= Abs(b.gap) THEN a ELSE b

\* preferNativeSample: the safe before the others, of those the nearest, of those the largest.
PreferNativeSample(a, b) ==
    IF a = NoSample THEN b
    ELSE IF Safe(a) # Safe(b) THEN IF Safe(a) THEN a ELSE b
    ELSE IF Safe(a) THEN IF a.gap > b.gap \/ (a.gap = b.gap /\ a.amount >= b.amount) THEN a ELSE b
    ELSE IF ~a.known THEN b
    ELSE IF ~b.known \/ Abs(a.gap) <= Abs(b.gap) THEN a ELSE b

PickBetter(a, b) ==
    IF ~b.known THEN a ELSE IF ~a.known \/ Abs(b.gap) < Abs(a.gap) THEN b ELSE a

Prefer(a, b) == IF flavor = "native" THEN PreferNativeSample(a, b) ELSE PickBetter(a, b)

-----------------------------------------------------------------------------
(* How a search goes on *)

Record(s) ==
    seen' = seen \cup {s} /\ count' = count + 1 /\ best' = Prefer(best, s) /\ latest' = s

\* A native sample has both its legs; for the exchange they are yet to be built.
Ends(s) ==
    /\ stage' = (IF flavor = "native" THEN "done" ELSE "legs")
    /\ result' = s /\ UNCHANGED <<at, tries>>

\* The native search takes the safe candidate nearest the reference; where none is safe the best,
\* after a last try with the least amount.
Settle(final) ==
    LET candidates == {best', low', final, high', first'} \ {NoSample}
        safe == {c \in candidates : Safe(c)}
        nearest == CHOOSE c \in safe : \A d \in safe \ {c} :
                      c.gap > d.gap \/ (c.gap = d.gap /\ c.amount > d.amount)
    IN  IF flavor = "cex" THEN Ends(best')
        ELSE IF safe # {} THEN Ends(nearest)
        ELSE stage' = "least" /\ at' = LeastAmount /\ UNCHANGED <<tries, result>>

Seek(where, amount) ==
    stage' = where /\ at' = amount /\ UNCHANGED result

\* The native loop doubles and halves, the other goes up and down by a quarter and stops at the least
\* amount.
Expand(amount) == IF flavor = "native" THEN 2 * amount ELSE (5 * amount) \div 4
Contract(amount) ==
    IF flavor = "native" THEN amount \div 2 ELSE Larger(LeastAmount, (4 * amount) \div 5)

MayExpand   == tries < MaxExpansions /\ (flavor = "native" => count' < MaxEvaluations)
MayContract == MayExpand /\ (flavor = "native" => Contract(at) >= LeastAmount)

GoUp   == IF MayExpand THEN Seek("up", Expand(at)) /\ tries' = tries + 1 ELSE Settle(best')
GoDown == IF MayContract THEN Seek("down", Contract(at)) /\ tries' = tries + 1 ELSE Settle(best')

\* Between the two sides: half way, or for the exchange where a straight line crosses the reference.
Secant ==
    (low'.amount * high'.gap - high'.amount * low'.gap) \div (high'.gap - low'.gap)

Between ==
    LET line == IF low'.gap # high'.gap THEN Secant ELSE 0
    IN  IF /\ flavor = "cex"
           /\ line - low'.amount > LeastAmount /\ high'.amount - line > LeastAmount
        THEN line ELSE (low'.amount + high'.amount) \div 2

Apart == Abs(high'.amount - low'.amount)

Bisect ==
    IF count' < MaxEvaluations
       /\ (IF flavor = "native" THEN Apart >= LeastAmount ELSE Apart > LeastAmount)
    THEN Seek("bisect", Between) /\ UNCHANGED tries
    ELSE Settle(best')

-----------------------------------------------------------------------------
(* The samples *)

\* The first decides on which side of the reference the search begins.
FirstSample(s) ==
    /\ stage = "first"
    /\ Record(s) /\ first' = s
    /\ low' = (IF s.known /\ s.gap < 0 THEN s ELSE NoSample)
    /\ high' = (IF s.known /\ s.gap > 0 THEN s ELSE NoSample)
    /\ IF Close(s) \/ (~s.known /\ flavor = "native") THEN Ends(s)
       ELSE IF ~s.known THEN stage' = "failed" /\ UNCHANGED <<at, tries, result>>
       ELSE IF s.gap < 0 THEN GoUp ELSE GoDown
    /\ UNCHANGED <<flavor, closing>>

\* The side of the bracket a sample falls on, the other side kept.
SideLow(s)  == IF s.known /\ s.gap <= 0 THEN s ELSE low
SideHigh(s) == IF s.known /\ s.gap > 0 THEN s ELSE high

\* A sample within the tolerance ends the search: at once with the exchange, by way of the candidates
\* otherwise.
CloseSample(s) ==
    /\ stage \in {"up", "down", "bisect"} /\ Close(s)
    /\ UNCHANGED <<flavor, first, closing>>
    /\ Record(s) /\ low' = SideLow(s) /\ high' = SideHigh(s)
    /\ IF flavor = "cex" THEN Ends(s) ELSE Settle(s)

\* A gap that is unknown ends the native search and a bisection; the exchange's expansion goes on.
UnknownSample(s) ==
    /\ stage \in {"up", "down", "bisect"} /\ ~s.known
    /\ UNCHANGED <<flavor, first, closing>>
    /\ Record(s) /\ UNCHANGED bracket
    /\ IF flavor = "native" \/ stage = "bisect" THEN Settle(best')
       ELSE IF stage = "up" THEN GoUp ELSE GoDown

ExpansionSample(s) ==
    /\ stage = "up" /\ s.known /\ ~Close(s)
    /\ UNCHANGED <<flavor, first, closing>>
    /\ Record(s)
    /\ IF s.gap >= 0 THEN high' = s /\ low' = low /\ Bisect
       ELSE low' = (IF flavor = "native" THEN s ELSE low) /\ high' = high /\ GoUp

ContractionSample(s) ==
    /\ stage = "down" /\ s.known /\ ~Close(s)
    /\ UNCHANGED <<flavor, first, closing>>
    /\ Record(s)
    /\ IF s.gap <= 0 THEN low' = s /\ high' = high /\ Bisect
       ELSE high' = (IF flavor = "native" THEN s ELSE high) /\ low' = low /\ GoDown

BisectionSample(s) ==
    /\ stage = "bisect" /\ s.known /\ ~Close(s)
    /\ UNCHANGED <<flavor, first, closing>>
    /\ Record(s) /\ low' = SideLow(s) /\ high' = SideHigh(s)
    /\ Bisect

\* The last try, when every sample was past the reference.
LeastSample(s) ==
    /\ stage = "least"
    /\ seen' = seen \cup {s} /\ count' = count + 1 /\ latest' = s
    /\ Ends(IF ~s.known \/ Safe(s) THEN s ELSE best)
    /\ UNCHANGED <<flavor, first, bracket, best, closing>>

\* A quote that fails: the native search makes do with what it has, but for its first sample; for the
\* exchange there is no option.
QuoteFails ==
    /\ stage \notin {"legs", "done", "failed"}
    /\ UNCHANGED <<flavor, count, seen, first, bracket, best, latest, closing>>
    /\ CASE flavor = "cex" \/ stage = "first" -> stage' = "failed" /\ UNCHANGED <<at, tries, result>>
         [] flavor = "native" /\ stage = "least" -> Ends(best)
         [] OTHER -> Settle(best)

\* calibrateCexRoute quotes the opening swap of the chosen amount again, and closes what the LAST sample
\* got out of its own: the chosen one's if that has no output.  Without a quote or an output there is no
\* option.
BuildLegs ==
    /\ stage = "legs"
    /\ \/ stage' = "done" /\ closing' \in (IF latest.known THEN {latest} ELSE {latest, result})
       \/ stage' = "failed" /\ UNCHANGED closing
    /\ UNCHANGED <<flavor, at, tries, count, seen, first, bracket, best, latest, result>>

Next ==
    \/ \E s \in Outcomes :
          \/ FirstSample(s) \/ CloseSample(s) \/ UnknownSample(s) \/ ExpansionSample(s)
          \/ ContractionSample(s) \/ BisectionSample(s) \/ LeastSample(s)
    \/ QuoteFails \/ BuildLegs

Spec == Init /\ [][Next]_vars

-----------------------------------------------------------------------------
(* Properties *)

\* The clip is made of the sample that will do best, whichever side the search began on and wherever it
\* broke off.  Against a conversion it does not push the pool past the reference if any sample did not,
\* and no sample that did not comes nearer.  Against the exchange it is within the tolerance of its own
\* closing price, or no sample was and none had a smaller gap; and only then, when the search has run out,
\* may the legs of the clip be of two different samples.
ClipIsNearestSample ==
    stage = "done" =>
        IF flavor = "native" THEN \A s \in seen : Safe(s) => Safe(result) /\ result.gap >= s.gap
        ELSE /\ result.known
             /\ Close(result) \/ \A s \in seen : s.known => ~Close(s) /\ Abs(result.gap) <= Abs(s.gap)
             /\ closing # result => \A s \in seen : ~Close(s)
===============================================================================
