------------------------------ MODULE RiskPlan ------------------------------
(* What the Risk tab computes (domain/risk): where a stop goes, how many     *)
(* shares a trade may have, what the open positions risk, and what of the    *)
(* plan they do not follow; and a user who takes the trades it sizes, moves  *)
(* stops and closes positions while the price moves.                        *)
(*                                                                         *)
(* Prices are whole numbers of the smallest price step.  Amounts of risk     *)
(* and of charges are in 1/Unit of it, so that no rate rounds.              *)
EXTENDS Integers, FiniteSets, FiniteSetsExt

CONSTANTS
    Capital,
    Risk,            \* RiskSpec: mode and value
    MaxAllocation,   \* percent of the capital
    MaxHeat,         \* percent of the capital
    Schedule,        \* ChargeSchedule: rates in percent, fees in prices
    AssumedPercent,  \* AssumedStop
    Entries, Prices, \* what the user may type, and where the price may go
    StopInputs,      \* records of a stop method and its value
    Low,             \* the lowest low of the history, {} without one
    Average,         \* the average true range of the history, {} without one
    Lots,            \* the lot sizes of the stocks
    Ids              \* bound: the positions of one behaviour

PlanAssumption ==
    /\ {Capital, MaxAllocation, MaxHeat, AssumedPercent} \subseteq Nat
    /\ Entries \cup Prices \cup Lots \subseteq Nat \ {0}

Unit == 10000

VARIABLES
    positions,  \* per id, at most one position
    price,      \* the quote of them all, {} while there is none
    trade,      \* the form's trade, {} while there is none to size
    low, high,  \* per limit that counts risk: the lots that fit, those that may
    sized       \* the quantity and what limits it, {} until it is known

vars == <<positions, price, trade, low, high, sized>>

\* Mutant: a budget may be below zero.
Below0Too(n) == n

AtLeast0(n) == IF n < 0 THEN 0 ELSE n

-----------------------------------------------------------------------------
(* Charges: a round trip buys at the entry and sells at the exit.            *)

Side(value, buying) ==
    LET s == Schedule
        brokerage == 100 * s.brokerage
        exchange == s.exchange * value
        sebi == s.sebi * value
        stamp == IF buying THEN s.stamp * value ELSE 0
        dp == IF buying THEN 0 ELSE 100 * s.dp
        taxable == brokerage + exchange + (IF s.gstOnSebi THEN sebi ELSE 0)
                   + (IF s.dpIncludesGst THEN 0 ELSE dp)
    IN  100 * (brokerage + s.stt * value + exchange + sebi + stamp + dp) + s.gst * taxable

RoundTrip(quantity, entry, exit) ==
    IF quantity <= 0 THEN 0 ELSE Side(quantity * entry, TRUE) + Side(quantity * exit, FALSE)

-----------------------------------------------------------------------------
(* What the open positions risk, and what they do not follow.               *)

Open == {i \in Ids : \E p \in positions[i] : p.open}
Position(i) == CHOOSE p \in positions[i] : TRUE

HitAtStop(p) == \E s \in p.stop, quote \in price : quote <= s
Hit(p) == \E s \in p.stop, quote \in price : quote < s

Breaches(p) ==
    {b \in {"no SL", "SL hit", "oversized", "SL wider"} :
        /\ p.open
        /\ b = "no SL" => p.stop = {}
        /\ b = "SL hit" => Hit(p)
        /\ b = "oversized" => p.quantity > p.planned.quantity
        /\ b = "SL wider" => \E s \in p.stop : 1000 * s < 995 * p.planned.stop}

\* A stop that the price is not below measures the risk from the entry; any
\* other position's risk is that from the price down to an assumed stop.
Usable(p) == p.stop # {} /\ \A s \in p.stop, quote \in price : quote >= s

RiskFromEntry(p) ==
    LET stop == IF p.stop = {} THEN p.entry ELSE Max(p.stop)
    IN  Unit * p.quantity * AtLeast0(p.entry - stop)

RiskOf(p) ==
    LET basis == IF price = {} THEN p.entry ELSE Max(price)
    IN  IF Usable(p) THEN RiskFromEntry(p)
        ELSE (Unit \div 100) * AssumedPercent * basis * p.quantity

Heat == MapThenSumSet(LAMBDA i : RiskOf(Position(i)), Open)
HeatLimit == (Unit \div 100) * MaxHeat * Capital
WholeHeat == HeatLimit
HeatLeft == AtLeast0(HeatLimit - Heat)
CapitalUsed == MapThenSumSet(LAMBDA i : Position(i).entry * Position(i).quantity, Open)
WholeCapital == Capital
FreeCapital == AtLeast0(Capital - CapitalUsed)

-----------------------------------------------------------------------------
(* Sizing: the most shares that keep every limit.                           *)

\* A quotient of numbers above zero, rounded to the nearest whole one.
Rounded(n, d) == (2 * n + d) \div (2 * d)

\* resolve_stop: the stops of a method and its value, none when it cannot say.
ResolvedStop(method, value, entry) ==
    {stop \in
        CASE method = "price" -> {value}
          [] method = "percent" -> IF value \in 1 .. 99 THEN {Rounded(entry * (100 - value), 100)}
                                   ELSE {}
          [] method = "atr" -> {entry - value * average : average \in Average}
          [] method = "low" -> Low :
     stop > 0 /\ stop < entry}

PerTrade == (Unit \div 100) * (IF Risk.mode = "percent" THEN Capital * Risk.value
                               ELSE 100 * Risk.value)

Budget(limit) == IF limit = "risk" THEN PerTrade ELSE HeatLeft

WithoutCharges(t, quantity) == Unit * quantity * (t.entry - t.stop)
RiskAt(t, quantity) == Unit * quantity * (t.entry - t.stop) + RoundTrip(quantity, t.entry, t.stop)

WholeLots(amount, perShare, lot) == AtLeast0(amount \div (perShare * lot))

ByRisk == {"risk", "heat"}

Sized(entry, input, lot) ==
    /\ trade = {} /\ Capital > 0 /\ Risk.value > 0
    /\ \E stop \in ResolvedStop(input.method, input.value, entry) :
          LET t == [entry |-> entry, stop |-> stop, lot |-> lot]
          IN  /\ trade' = {t}
              /\ high' = [limit \in ByRisk |->
                             WholeLots(Budget(limit), Unit * (entry - stop), lot)]
    /\ low' = [limit \in ByRisk |-> 0]
    /\ sized' = {}
    /\ UNCHANGED <<positions, price>>

\* One round of _most_lots: risk only grows with the quantity, so bisect.
Bisect(limit) ==
    /\ low[limit] < high[limit] /\ limit = "heat" => low["risk"] = high["risk"]
    /\ \E t \in trade :
          LET middle == (low[limit] + high[limit] + 1) \div 2
          IN  IF RiskAt(t, middle * t.lot) <= Budget(limit)
              THEN low' = [low EXCEPT ![limit] = middle] /\ UNCHANGED high
              ELSE high' = [high EXCEPT ![limit] = middle - 1] /\ UNCHANGED low
    /\ UNCHANGED <<positions, price, trade, sized>>

\* The limits, in the order in which they are reported.
Reported == <<"risk", "heat", "allocation", "free capital">>

Allowed(t) ==
    [limit \in Range(Reported) |->
        t.lot * CASE limit \in ByRisk -> low[limit]
                  [] limit = "allocation" ->
                        WholeLots((Capital * MaxAllocation) \div 100, t.entry, t.lot)
                  [] limit = "free capital" -> WholeLots(FreeCapital, t.entry, t.lot)]

\* The smallest of them; when several bind at once, the first is reported.
Decide ==
    /\ sized = {} /\ low = high
    /\ \E t \in trade :
          LET allowed == Allowed(t)
              quantity == Min({allowed[limit] : limit \in DOMAIN allowed})
              first == Min({n \in DOMAIN Reported : allowed[Reported[n]] = quantity})
          IN  sized' = {[quantity |-> quantity, limit |-> Reported[first]]}
    /\ UNCHANGED <<positions, price, trade, low, high>>

-----------------------------------------------------------------------------
(* The user and the market.  A change sizes the trade again, so one is taken *)
(* as the tab shows it; RiskBook has the dialog in between.                  *)

Nothing == trade' = {} /\ sized' = {} /\ low' = [l \in ByRisk |-> 0] /\ high' = low'

\* The trade is taken as it was sized, or without the stop.
Take(i, withStop) ==
    /\ positions[i] = {}
    /\ \E t \in trade, s \in sized :
          /\ s.quantity > 0
          /\ positions' = [positions EXCEPT ![i] =
                {[open |-> TRUE, entry |-> t.entry, quantity |-> s.quantity,
                  stop |-> IF withStop THEN {t.stop} ELSE {},
                  planned |-> [quantity |-> s.quantity, stop |-> t.stop]]}]
    /\ Nothing /\ UNCHANGED price

MoveStop(i, stop) ==
    /\ i \in Open /\ Position(i).stop # stop
    /\ positions' = [positions EXCEPT ![i] = {[Position(i) EXCEPT !.stop = stop]}]
    /\ Nothing /\ UNCHANGED price

Close(i) ==
    /\ i \in Open
    /\ positions' = [positions EXCEPT ![i] = {[Position(i) EXCEPT !.open = FALSE]}]
    /\ Nothing /\ UNCHANGED price

PriceMoves(to) ==
    /\ price # {to}
    /\ price' = {to}
    /\ Nothing /\ UNCHANGED positions

Init ==
    /\ positions = [i \in Ids |-> {}] /\ price = {} /\ trade = {} /\ sized = {}
    /\ low = [l \in ByRisk |-> 0] /\ high = low

Sizing == \E limit \in ByRisk : Bisect(limit)

Next ==
    \/ \E entry \in Entries, input \in StopInputs, lot \in Lots : Sized(entry, input, lot)
    \/ Sizing \/ Decide
    \/ \E i \in Ids :
          \/ \E withStop \in BOOLEAN : Take(i, withStop)
          \/ \E stop \in {{}} \cup {{p} : p \in Prices} : MoveStop(i, stop)
          \/ Close(i)
    \/ \E to \in Prices : PriceMoves(to)

Spec == Init /\ [][Next]_vars

-----------------------------------------------------------------------------

TypeOK ==
    /\ \A i \in Ids : \A p \in positions[i] :
          p.quantity \in Nat \ {0} /\ p.stop \subseteq Nat /\ p.open \in BOOLEAN
    /\ price \subseteq Prices /\ low \in [ByRisk -> Nat] /\ high \in [ByRisk -> Nat]
    /\ \A s \in sized : s.quantity \in Nat /\ s.limit \in Range(Reported)

\* What a quantity of a trade would do keeps every limit of the plan.
Keeps(t, quantity) ==
    LET risk == Unit * quantity * (t.entry - t.stop) + RoundTrip(quantity, t.entry, t.stop)
    IN  /\ risk <= PerTrade /\ risk + Heat <= (IF Heat > HeatLimit THEN Heat ELSE HeatLimit)
        /\ 100 * quantity * t.entry <= Capital * MaxAllocation
        /\ quantity * t.entry + CapitalUsed <= Capital

\* The sized quantity is the largest number of whole lots that keeps them all.
MostThatKeeps ==
    \A t \in trade, s \in sized :
       /\ Keeps(t, s.quantity) \/ s.quantity = 0
       /\ s.quantity % t.lot = 0
       /\ ~Keeps(t, s.quantity + t.lot)

\* Trades as the tab sizes them never need more than the capital.
UsedWithinCapital == CapitalUsed <= Capital

\* A position whose risk is only assumed is one that the tab flags as not
\* followed, and the other way round: two functions decide on the same prices.
AssumedIsFlagged ==
    \A i \in Open :
       Usable(Position(i)) <=> Breaches(Position(i)) \cap {"no SL", "SL hit"} = {}

\* A trade taken with its stop, which the price is not below, leaves the heat
\* within its limit, if it was.
TradeKeepsHeat ==
    [][\A i \in Ids :
          positions[i] = {} /\ positions'[i] # {} /\ Usable(Position(i)')
          => Heat' <= IF Heat > HeatLimit THEN Heat ELSE HeatLimit]_vars
=============================================================================
