----------------------------- MODULE MCEngines -----------------------------
(* The engines of Engines.tla, on small instances.  They share no state, so   *)
(* a behaviour is about one of them, which `component' names.                *)
EXTENDS Engines, Sequences, TLC

CONSTANTS index, worker

VARIABLES component

\* Two results, the second with one stock more than the first.
TwoResults == <<<<2>>, <<1, 2>>>>

ASSUME Scan!ScannerAssumption
ASSUME View!ViewAssumption

MCInit ==
    /\ component \in {"rvol", "scanner", "view"}
    /\ Init
    /\ Scan!Init
    /\ View!Init
    /\ component # "scanner" => \A k \in Keys : slots[k] = None
    /\ cached[index] = None
    /\ \A k \in Keys : component = "scanner" => slots[k] # None
    /\ component # "rvol" => market = None /\ Shown = {} /\ saved = {}

RvolStep == component = "rvol" /\ UNCHANGED <<component, scanVars, viewVars>>
ScanStep == component = "scanner" /\ UNCHANGED <<component, vars, viewVars>>
ViewStep == component = "view" /\ UNCHANGED <<component, vars, scanVars>>

MCNext ==
    \/ RvolStep /\ UiThread
    \/ \E K \in SUBSET Keys : RvolStep /\ SetSymbols(K)
    \/ RvolStep /\ Stop
    \/ RvolStep /\ SnapshotMinute
    \/ RvolStep /\ SnapshotRows
    \/ RvolStep /\ Roll
    \/ RvolStep /\ Builders
    \/ RvolStep /\ OpenSession
    \/ \E k \in Keys : RvolStep /\ Tick(k)
    \/ \E K \in SUBSET Keys : ScanStep /\ Scan!SetSymbols(K)
    \/ ScanStep /\ Scan!SetIndex
    \/ ScanStep /\ Scan!LoadAdded
    \/ ScanStep /\ Scan!Stop
    \/ ScanStep /\ Scan!SnapshotSession
    \/ ScanStep /\ Scan!SnapshotRows
    \/ ScanStep /\ Scan!SetPrevious
    \/ ScanStep /\ Scan!SetSession
    \/ ScanStep /\ Scan!LoadStates
    \/ ScanStep /\ Scan!Loaded
    \/ \E l \in Scan!Loaders :
          \/ \E job \in loads[l].read : ScanStep /\ Scan!ReadCache(l, job)
          \/ ScanStep /\ Scan!DeliverCached(l)
          \/ \E c \in loads[l].check : ScanStep /\ Scan!CheckCurrent(l, c[1], c[2])
          \/ ScanStep /\ Scan!LoadStopped(l)
    \/ ScanStep /\ Scan!Take(worker)
    \/ ScanStep /\ Scan!Fetch(worker)
    \/ ScanStep /\ Scan!FetchLimited(worker)
    \/ ScanStep /\ Scan!FetchFails(worker)
    \/ ScanStep /\ Scan!Deliver(worker)
    \/ ScanStep /\ Scan!NextDay
    \/ ScanStep /\ Scan!OpenSession
    \/ \E s \in Scan!Slots : ScanStep /\ Scan!Tick(s)
    \/ \E j \in jobs :
          \/ \E s \in {1, View!None} :
                \/ ViewStep /\ View!Cached(j, s)
                \/ ViewStep /\ View!Fetched(j, s)
          \/ ViewStep /\ View!FetchFails(j)
    \/ ViewStep /\ View!RefreshView
    \/ \E t \in {1, 2} : ViewStep /\ View!EnsureContexts(t)
    \/ ViewStep /\ View!Enrich
    \/ ViewStep /\ View!DrawTable
    \/ ViewStep /\ View!CycleSort
    \/ ViewStep /\ View!Ran
    \/ ViewStep /\ View!Downloaded
    \/ ViewStep /\ View!Opens

MCSpec == MCInit /\ [][MCNext]_<<component, vars, scanVars, viewVars>>
=============================================================================
