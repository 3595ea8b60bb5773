------------------------------ MODULE Engines ------------------------------
(* The two engines that keep per-symbol state next to the feed, and the      *)
(* Chartink tab, which takes its contexts from the same loader.  They share  *)
(* no state here.                                                            *)
EXTENDS RvolEngine

CONSTANTS
    Index, Ticking, Workers, ScanDays, ScanSwitches,    \* of the scanner
    Symbols, Lists, Scores, Sorts, ViewSessions         \* of the Chartink tab

VARIABLES
    day, opened, cached, scanned, previous, slots, context, price, ui, added,
    changes, shown, runner, loads, queue, work, pending, failed, missed,
    seen, result, bands, moved, contextSession, contexts, requested, jobs,
    pane, item, view, sort, table

scanVars == <<day, opened, cached, scanned, previous, slots, context, price, ui, added,
              changes, shown, runner, loads, queue, work, pending, failed, missed>>
viewVars == <<seen, result, bands, moved, contextSession, contexts, requested, jobs,
              pane, item, view, sort, table>>

Scan == INSTANCE Scanner WITH
    LastDay <- ScanDays, MaxSwitches <- ScanSwitches,
    session <- scanned, states <- slots, switches <- changes

View == INSTANCE ChartinkView WITH
    LastSession <- ViewSessions, session <- seen, ui <- pane

\* The scanner: what is prepared once per session.  Its two session fields, however
\* they are read, skip no bar, what is pending is counted exactly, and every row
\* is loaded, is being loaded or is known to be missing.
ContextsSound == Scan!ContextsSound

\* The Chartink tab: what it draws of a result is all that is known of its stocks in
\* the session.
ViewSound ==
    /\ View!TypeOK
    /\ View!ContextsOfSession
    /\ View!DrawnIsKnown
    /\ View!TableIsView
    /\ View!AskedOnce
=============================================================================
