----------------------------- MODULE ChartinkView -----------------------------
(***************************************************************************)
(* What the Chartink tab shows of an item (services/chartink.py view, and  *)
(* the table of ui/tabs/chartink/pane.py): the last result, each stock's   *)
(* row with its price band and its burst score, which come in while the    *)
(* table stands.                                                           *)
(*                                                                         *)
(* Threads: the UI draws every half second; workers deliver the contexts;  *)
(* the runner saves results and the securities service its downloads.  A   *)
(* context is the session it was prepared for and the score it gives.  The *)
(* versions of the stamp only ever grow, so what counts of them is whether *)
(* they have moved since the stamp was taken.  The message that histories  *)
(* are loading is left out.                                                *)
(***************************************************************************)
EXTENDS Integers, Sequences, SequencesExt, FiniteSets

CONSTANTS
    Symbols,    \* bound: the stocks of results
    Lists,      \* bound: the stocks that one run after the other lists
    Scores,     \* bound: burst scores
    Sorts,      \* bound: the orders of "none", "up" and "down" that are chosen
    LastSession     \* bound: the sessions of a behaviour

ViewAssumption == Lists \in Seq(Seq(Symbols)) /\ Scores \subseteq Nat /\ LastSession \in Nat \ {0}

None == -1

VARIABLES
    session,        \* the session that has opened last
    result,         \* the result that is saved: [at, rows], at the run it comes from
    bands,          \* how often the securities were downloaded: 0, there are no bands
    moved,          \* whether a version has moved since the pane's stamp
    contextSession, \* _context_session
    contexts,       \* _contexts: the stocks that are in it
    requested,      \* _requested
    jobs,           \* those the loader was given: [symbol, session, at], "over" at the end
    ui,             \* what the UI thread does next
    item,           \* the result that view() works on, or NoResult
    view,           \* _view: [at, rows], the rows with what is known of their stocks
    sort,           \* _sort and _descending: None, "up" or "down" by the burst score
    table           \* what the table has: [signature, order, extras]

serviceVars == <<contextSession, contexts, requested, jobs>>
paneVars == <<ui, item, view, sort, table>>
vars == <<session, result, bands, moved, serviceVars, paneVars>>

-----------------------------------------------------------------------------
NoResult == [at |-> 0, rows |-> <<>>]
NoTable == [signature |-> <<>>, order |-> <<>>, extras |-> <<>>]

Init ==
    /\ session = 1 /\ result = NoResult /\ bands = 0 /\ moved = TRUE
    /\ contextSession = 0 /\ contexts = <<>> /\ requested = {} /\ jobs = {}
    /\ ui = "idle" /\ item = NoResult /\ view = NoResult /\ sort = "none" /\ table = NoTable

-----------------------------------------------------------------------------
(* The service.                                                             *)

\* view(): the stocks that nobody has asked for in this session are asked for.
\* Mutant: a new session keeps what was asked for in the one before it.
RequestKept(today) ==
    LET asked == requested
        missing == ToSet(item.rows) \ asked
    IN /\ contextSession' = today
       /\ contexts' = IF contextSession # today THEN <<>> ELSE contexts
       /\ requested' = asked \cup missing
       /\ jobs' = jobs \cup {[symbol |-> s, session |-> today, at |-> "cached"] : s \in missing}
Request(today) ==
    LET asked == IF contextSession # today THEN {} ELSE requested
        missing == ToSet(item.rows) \ asked
    IN /\ contextSession' = today
       /\ contexts' = IF contextSession # today THEN <<>> ELSE contexts
       /\ requested' = asked \cup missing
       /\ jobs' = jobs \cup {[symbol |-> s, session |-> today, at |-> "cached"] : s \in missing}

Put(symbol, context) == [s \in DOMAIN contexts \cup {symbol} |->
                            IF s = symbol THEN context ELSE contexts[s]]

\* _deliver: a context of an earlier session is dropped.
\* Mutant: whatever comes is kept.
DeliverAll(job, score) ==
    /\ contexts' = Put(job.symbol, [session |-> job.session, score |-> score])
    /\ moved' = TRUE
Deliver(job, score) ==
    IF contextSession = job.session
    THEN /\ contexts' = Put(job.symbol, [session |-> job.session, score |-> score])
         /\ moved' = TRUE
    ELSE UNCHANGED <<contexts, moved>>

Becomes(job, at) == (jobs \ {job}) \cup {[job EXCEPT !.at = at]}

\* load(): what the cache has, if it has any, is delivered at once, and what is not
\* current is fetched.
Cached(job, score) ==
    /\ job.at = "cached"
    /\ IF score = None THEN UNCHANGED <<contexts, moved>> ELSE Deliver(job, score)
    /\ jobs' \in {Becomes(job, "fetch"), Becomes(job, "over")}
    /\ UNCHANGED <<session, result, bands, contextSession, requested, paneVars>>

\* The worker: a history, none at all, or a failure, which nobody asks for again.
Fetched(job, score) ==
    /\ job.at = "fetch"
    /\ Deliver(job, score)
    /\ jobs' = Becomes(job, "over")
    /\ UNCHANGED <<session, result, bands, contextSession, requested, paneVars>>

FetchFails(job) ==
    /\ job.at = "fetch"
    /\ jobs' = Becomes(job, "over")
    /\ UNCHANGED <<session, result, bands, moved, contextSession, contexts, requested, paneVars>>

-----------------------------------------------------------------------------
(* The pane.                                                                *)

\* _current_view: the stamp is taken before the view is made.
RefreshView ==
    /\ ui = "idle"
    /\ ui' = IF ~moved THEN "draw" ELSE IF result.at = 0 THEN "draw" ELSE "request"
    /\ moved' = FALSE
    /\ item' = IF moved THEN result ELSE NoResult
    /\ view' = IF moved /\ result.at = 0 THEN NoResult ELSE view
    /\ UNCHANGED <<session, result, bands, serviceVars, sort, table>>

\* The session is looked up once a minute, so it may be the one before.
EnsureContexts(today) ==
    /\ ui = "request"
    /\ today \in {session, contextSession} \ {0}
    /\ Request(today)
    /\ ui' = "enrich"
    /\ UNCHANGED <<session, result, bands, moved, item, view, sort, table>>

Row(s) ==
    [symbol |-> s, band |-> bands,
     burst |-> IF s \in DOMAIN contexts THEN contexts[s].score ELSE None]

View == [at |-> item.at, rows |-> [i \in DOMAIN item.rows |-> Row(item.rows[i])]]

\* Mutant: the stamp is taken after the view is made.
EnrichThenStamp ==
    /\ ui = "enrich"
    /\ view' = View
    /\ ui' = "draw" /\ item' = NoResult
    /\ moved' = FALSE
    /\ UNCHANGED <<session, result, bands, serviceVars, sort, table>>
Enrich ==
    /\ ui = "enrich"
    /\ view' = View
    /\ ui' = "draw" /\ item' = NoResult
    /\ UNCHANGED <<session, result, bands, moved, serviceVars, sort, table>>

Extras(v) == [i \in DOMAIN v.rows |-> <<v.rows[i].band, v.rows[i].burst>>]

\* By the score, those without one last; equal ones stay in order.
SortedBy(extras, order) ==
    LET burst(i) == extras[i][2]
        before(i, j) ==
            IF burst(i) = burst(j) THEN i < j
            ELSE \/ burst(j) = None
                 \/ /\ burst(i) # None
                    /\ IF order = "up" THEN burst(i) < burst(j) ELSE burst(i) > burst(j)
    IN SetToSortSeq(DOMAIN extras, before)

\* The rows as shown.
VisibleRows(v) ==
    IF sort = "none" THEN [i \in DOMAIN v.rows |-> i] ELSE SortedBy(Extras(v), sort)

\* Mutant: the bursts are not in the signature of a table that is sorted by them.
SignatureShort(v) == <<v.at, sort, <<>>>>
Signature(v) == <<v.at, sort, IF sort = "none" THEN <<>> ELSE Extras(v)>>

Rebuilt(v) == [signature |-> Signature(v), order |-> VisibleRows(v), extras |-> Extras(v)]

\* The table is rebuilt when its signature changes, else its cells are filled in.
DrawTable ==
    /\ ui = "draw"
    /\ ui' = "idle"
    /\ table' = IF view.at = 0 THEN NoTable
                ELSE IF Signature(view) # table.signature THEN Rebuilt(view)
                ELSE [table EXCEPT !.extras = Extras(view)]
    /\ UNCHANGED <<session, result, bands, moved, serviceVars, item, view, sort>>

CycleSort ==
    /\ ui = "idle"
    /\ \E s \in Sorts : sort' = s
    /\ ui' = "draw"
    /\ UNCHANGED <<session, result, bands, moved, serviceVars, item, view, table>>

-----------------------------------------------------------------------------
(* What comes from elsewhere.                                               *)

Ran ==
    /\ result.at < Len(Lists)
    /\ result' = [at |-> result.at + 1, rows |-> Lists[result.at + 1]]
    /\ moved' = TRUE
    /\ UNCHANGED <<session, bands, serviceVars, paneVars>>

Downloaded ==
    /\ bands = 0
    /\ bands' = 1 /\ moved' = TRUE
    /\ UNCHANGED <<session, result, serviceVars, paneVars>>

Opens ==
    /\ session < LastSession
    /\ session' = session + 1
    /\ UNCHANGED <<result, bands, moved, serviceVars, paneVars>>

Next ==
    \/ \E j \in jobs, s \in Scores \cup {None} : Cached(j, s) \/ Fetched(j, s)
    \/ \E j \in jobs : FetchFails(j)
    \/ RefreshView \/ (\E t \in 1 .. LastSession : EnsureContexts(t))
    \/ Enrich \/ DrawTable \/ CycleSort
    \/ Ran \/ Downloaded \/ Opens

Spec == Init /\ [][Next]_vars

-----------------------------------------------------------------------------
TypeOK ==
    /\ session \in 1 .. LastSession /\ contextSession \in 0 .. session
    /\ DOMAIN contexts \subseteq requested /\ requested \subseteq Symbols
    /\ \A j \in jobs : j.symbol \in Symbols /\ j.session \in 1 .. session
    /\ ui \in {"idle", "request", "enrich", "draw"}
    /\ item \in {result, NoResult} \/ item.at < result.at

\* "A new session: yesterday's contexts are stale": none of them is in what is shown
\* from the moment the session is seen.
ContextsOfSession == \A s \in DOMAIN contexts : contexts[s].session = contextSession

\* Once the pane has nothing left to look at, it shows the last result with what has
\* been delivered for it: nothing that came while it drew is left out.
DrawnIsKnown ==
    ui = "idle" /\ ~moved /\ contextSession # 0 /\ result.at # 0 =>
       view.at = result.at /\ view.rows = [i \in DOMAIN result.rows |-> Row(result.rows[i])]

\* The table that cells were filled into is the one that the view would give anew.
TableIsView == ui = "idle" /\ view.at # 0 => table = Rebuilt(view)

\* Each stock of what is shown was asked for in the session it is shown in, once.
AskedOnce ==
    ui = "idle" =>
       \A i \in DOMAIN view.rows :
          LET asked == {j \in jobs : j.symbol = view.rows[i].symbol /\ j.session = contextSession}
          IN Cardinality(asked) = 1
=============================================================================
