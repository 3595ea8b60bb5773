----------------------------- MODULE Background -----------------------------
(* The services that work behind the dashboard on threads of their own: the *)
(* runner of Chartink's items, the refresh of the securities, and what      *)
(* RiskService values a position with, its price (RiskQuotes) and its daily *)
(* history (RiskBars).  They share no state.                                *)
EXTENDS Chartink

CONSTANTS
    Datasets, Isins, GiveUpAfter, RebuildEvery, MaxRefreshes, \* of the securities
    Positions, Sized,           \* the keys that prices are asked for
    RefreshAfter, RequestTakes, \* of the quotes, in frames
    Streamed                    \* the keys whose histories are topped up

VARIABLES
    stored, errors, profiles, snapshot, version, joins, refreshes, thread, cancel, due, tried,
    failures, drawn, ui, known, refetched,
    tickAge, askAge, source, inFlight, requests, turn, sinceAsked,
    streamed, asking, current, attempted, fetching, fetches, bars, draw, overtaken, asked,
    askedTwice

Security == INSTANCE Securities
Quotes == INSTANCE RiskQuotes
Bars == INSTANCE RiskBars WITH Keys <- Streamed, subscribed <- streamed, reading <- draw

securityVars == <<stored, errors, profiles, snapshot, version, joins, refreshes, thread, cancel,
                  due, tried, failures, drawn, ui, known, refetched>>
quoteVars == <<tickAge, askAge, source, inFlight, requests, turn, sinceAsked>>
barVars == <<streamed, asking, current, attempted, fetching, fetches, bars, draw, overtaken,
             asked, askedTwice>>

\* Chartink: an item runs in one place at a time, the tree shows the items that
\* there are, and two dashboards never share a branch.
ItemsSound == OneRunEach /\ TreeComplete /\ BranchesApart

\* Securities: no two snapshots have one version, the newest holds everything
\* that is stored, and a backfill asks for every company once.
SecuritiesSound ==
    /\ Security!TypeOK
    /\ Security!DrawnFromSnapshot
    /\ Security!SnapshotFresh
    /\ Security!NothingRefetched
    /\ Security!EveryoneTried

\* The risk tab: one request for quotes at a time, one for a history a day, and
\* no bars older than the last that came.
PricesSound ==
    /\ Quotes!TypeOK
    /\ Quotes!OneAtATime
    /\ Bars!TypeOK
    /\ Bars!PendingHonest
    /\ Bars!OnceADay
    /\ Bars!NothingOld

\* A deleted item stays deleted, rows that were stored stay, and no key is asked
\* for twice a minute: whatever is late, fails or is cancelled.
NothingUndone == DeletedStaysDeleted /\ Security!LastGoodRows /\ Quotes!OnceAMinute
=============================================================================
