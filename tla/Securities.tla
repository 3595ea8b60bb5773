------------------------------ MODULE Securities ------------------------------
(***************************************************************************)
(* The Securities tab: a refresh of the NSE datasets and the backfill of   *)
(* company profiles on a background thread, the joined snapshot that the   *)
(* UI thread reads, and what the table was drawn from                      *)
(* (services/securities.py, services/fundamentals.py and their             *)
(* repositories, ui/tabs/securities/pane.py).                              *)
(*                                                                         *)
(* A stored dataset is abstracted to the refresh that stored it, a profile *)
(* to its age.  The join reads one table after the other, each in a        *)
(* statement of its own.                                                   *)
(***************************************************************************)
EXTENDS Integers, Sequences, FiniteSets

CONSTANTS
    Datasets,         \* the names, in the order in which they are fetched and read
    Isins,            \* companies the stored bands and listings name
    GiveUpAfter,      \* GIVE_UP_AFTER_FAILURES
    RebuildEvery,     \* _REBUILD_EVERY_SECTORS
    MaxRefreshes      \* bound: refreshes the user starts

SecuritiesAssumption ==
    /\ Datasets # <<>> /\ Datasets \in Seq({Datasets[i] : i \in DOMAIN Datasets})
    /\ {GiveUpAfter, RebuildEvery, MaxRefreshes} \subseteq Nat \ {0}

VARIABLES
    stored,           \* dataset -> the refresh that stored its rows, 0: none
    errors,           \* datasets whose last fetch failed (ref_datasets.error)
    profiles,         \* fundamentals_cache: isin -> "none", "fresh" or "old"
    snapshot,         \* _snapshot, or NoSnapshot
    version,          \* _version
    joins,            \* thread -> what its join has read, or NoJoin
    refreshes,        \* refreshes started
    thread,           \* what the refresh thread does next
    cancel,           \* _cancel
    due,              \* the backfill: isins to fetch yet
    tried,            \* the backfill: isins answered with a profile or a failure
    failures,         \* consecutive_failures
    drawn,            \* the snapshot the table was drawn from
    ui,               \* what the UI thread does next
    known,            \* history: isins answered with a profile that hasn't aged
    refetched         \* history: those of them that were asked for again

storage == <<stored, errors, profiles>>
joinVars == <<snapshot, version, joins>>
fetching == <<due, tried, failures>>
history == <<known, refetched>>
vars == <<storage, joinVars, refreshes, thread, cancel, fetching, drawn, ui, history>>

-----------------------------------------------------------------------------
AllDatasets == {Datasets[i] : i \in DOMAIN Datasets}
NoSnapshot == [version |-> 0]
NoJoin == [at |-> 0]
Threads == {"ui", "refresh"}
Off == [at |-> "off"]

Init ==
    /\ \E full \in BOOLEAN : stored = [d \in AllDatasets |-> IF full THEN 1 ELSE 0]
    /\ errors = {}
    /\ profiles \in [Isins -> {"none", "old"}]
    /\ snapshot = NoSnapshot /\ version = 0 /\ joins = [t \in Threads |-> NoJoin]
    /\ refreshes = 1 /\ thread = Off /\ cancel = FALSE
    /\ due = {} /\ tried = {} /\ failures = 0
    /\ drawn = NoSnapshot /\ ui = "idle" /\ known = {} /\ refetched = {}

-----------------------------------------------------------------------------
(* _rebuild and _join, on either thread, under the rebuild lock.            *)

\* Mutant: the lock is not taken.
LockIgnored == TRUE
LockFree == \A t \in Threads : joins[t] = NoJoin

\* The version of the new snapshot is taken with the lock.
StartJoin(t) ==
    /\ LockFree
    /\ joins' = [joins EXCEPT ![t] = [at |-> 1, version |-> version + 1, data |-> <<>>]]
    /\ UNCHANGED <<storage, snapshot, version, refreshes, cancel, fetching, drawn, history>>

JoinTable(t) ==
    /\ joins[t].at \in DOMAIN Datasets
    /\ joins' = [joins EXCEPT ![t] = [at |-> @.at + 1, version |-> @.version,
                                      data |-> Append(@.data, stored[Datasets[@.at]])]]
    /\ UNCHANGED <<storage, snapshot, version, refreshes, thread, cancel, fetching, drawn, ui,
                   history>>

\* The profiles come last, and the snapshot is put in place.
EndJoin(t) ==
    /\ joins[t].at = Len(Datasets) + 1
    /\ snapshot' = [version |-> joins[t].version, data |-> joins[t].data,
                    sectors |-> {i \in Isins : profiles[i] # "none"}]
    /\ version' = version + 1
    /\ joins' = [joins EXCEPT ![t] = NoJoin]
    /\ UNCHANGED <<storage, refreshes, cancel, fetching, drawn, history>>

-----------------------------------------------------------------------------
(* The UI thread.                                                           *)

\* snapshot(): the first read joins what is stored, and waits for its turn.
FirstRead ==
    /\ ui = "idle" /\ snapshot = NoSnapshot
    /\ ui' = "wait"
    /\ UNCHANGED <<storage, joinVars, refreshes, thread, cancel, fetching, drawn,
                   history>>

FirstJoin ==
    /\ ui = "wait" /\ StartJoin("ui") /\ ui' = "join"
    /\ UNCHANGED thread

FirstJoinEnds == ui = "join" /\ EndJoin("ui") /\ ui' = "idle" /\ UNCHANGED thread

\* _draw_table: nothing is drawn when the version is the one drawn before.
Redraw ==
    /\ ui = "idle" /\ snapshot # NoSnapshot
    /\ snapshot.version # drawn.version
    /\ drawn' = snapshot
    /\ UNCHANGED <<storage, joinVars, refreshes, thread, cancel, fetching, ui, history>>

Refresh ==
    /\ ui = "idle" /\ thread = Off /\ refreshes < MaxRefreshes
    /\ refreshes' = refreshes + 1
    /\ cancel' = FALSE
    /\ thread' = [at |-> "fetch", dataset |-> 1]
    /\ UNCHANGED <<storage, joinVars, fetching, drawn, ui, history>>

\* close(): the thread is joined for some seconds.
Close ==
    /\ ui = "idle"
    /\ cancel' = TRUE /\ ui' = "closed"
    /\ UNCHANGED <<storage, joinVars, refreshes, thread, fetching, drawn, history>>

-----------------------------------------------------------------------------
(* The refresh thread: the datasets.                                        *)

Fetching(d) == thread = [at |-> "fetch", dataset |-> d] /\ d <= Len(Datasets) /\ ~cancel
NextDataset(d) == thread' = [at |-> "fetch", dataset |-> d + 1]

\* Mutant: the rows go before the new ones are there.
EmptyFirst(d) == stored' = [stored EXCEPT ![Datasets[d]] = 0]
KeepRows(d) == UNCHANGED stored

\* The rows are replaced in one transaction, with the dataset's status.
Store(d) ==
    /\ Fetching(d) /\ NextDataset(d)
    /\ stored' = [stored EXCEPT ![Datasets[d]] = refreshes]
    /\ errors' = errors \ {Datasets[d]}
    /\ UNCHANGED <<profiles, joinVars, refreshes, cancel, fetching, drawn, ui, history>>

\* record_error: the others go on.
StoreFails(d) ==
    /\ Fetching(d) /\ NextDataset(d)
    /\ errors' = errors \cup {Datasets[d]}
    /\ KeepRows(d)
    /\ UNCHANGED <<profiles, joinVars, refreshes, cancel, fetching, drawn, ui, history>>

DatasetsDone ==
    /\ thread.at = "fetch" /\ (cancel \/ thread.dataset > Len(Datasets))
    /\ StartJoin("refresh")
    /\ thread' = [at |-> "join", then |-> "sectors"]
    /\ UNCHANGED ui

JoinDone ==
    /\ thread.at = "join" /\ EndJoin("refresh")
    /\ thread' = IF thread.then = "off" THEN Off ELSE [at |-> thread.then]
    /\ UNCHANGED ui

-----------------------------------------------------------------------------
(* The refresh thread: FundamentalsService.backfill.                        *)

\* Mutant: an old profile counts like a missing one, and so does a new one.
DueAll == Isins
DueIsins == {i \in Isins : profiles[i] # "fresh"}

StartBackfill ==
    /\ thread.at = "sectors"
    /\ IF cancel THEN thread' = Off /\ UNCHANGED fetching
       ELSE /\ thread' = [at |-> "call"]
            /\ due' = DueIsins /\ tried' = {} /\ failures' = 0
    /\ UNCHANGED <<storage, joinVars, refreshes, cancel, drawn, ui, history>>

\* Mutant: it never gives up.
CallingOn(i) == thread.at = "call" /\ ~cancel /\ i \in due
Calling(i) == thread.at = "call" /\ ~cancel /\ i \in due /\ failures < GiveUpAfter

\* Every RebuildEvery answers the snapshot shows the new sectors.
Answered(i) ==
    /\ due' = due \ {i} /\ tried' = tried \cup {i}
    /\ thread' = IF Cardinality(tried') % RebuildEvery = 0 THEN [at |-> "rebuild"] ELSE thread
    /\ UNCHANGED <<stored, errors, joinVars, refreshes, cancel, drawn, ui>>

\* Mutant: an empty profile may not be saved.
SavedSome(i) == {profiles, [profiles EXCEPT ![i] = "fresh"]}
Saved(i) == {[profiles EXCEPT ![i] = "fresh"]}

\* Saved as it arrives, an empty one too.
ProfileArrives(i) ==
    /\ Calling(i) /\ Answered(i)
    /\ profiles' \in Saved(i)
    /\ failures' = 0
    /\ known' = known \cup {i} /\ refetched' = refetched \cup ({i} \cap known)

ProfileFails(i) ==
    /\ Calling(i) /\ Answered(i)
    /\ failures' = failures + 1
    /\ UNCHANGED <<profiles, history>>

\* Mutants: after the pause the next one is asked for; cancel isn't looked at.
RateLimitedSkips(i) ==
    /\ Calling(i)
    /\ due' = due \ {i}
    /\ UNCHANGED <<storage, joinVars, refreshes, thread, cancel, tried, failures, drawn, ui,
                   history>>

RateLimitedForever(i) ==
    /\ thread.at = "call" /\ i \in due /\ failures < GiveUpAfter
    /\ thread' = [at |-> "pause"]
    /\ UNCHANGED <<storage, joinVars, refreshes, cancel, fetching, drawn, ui, history>>

\* A pause, which cancel ends, and the same one again.
RateLimited(i) ==
    /\ Calling(i)
    /\ thread' = [at |-> "pause"]
    /\ UNCHANGED <<storage, joinVars, refreshes, cancel, fetching, drawn, ui, history>>

PauseEnds ==
    /\ thread.at = "pause"
    /\ thread' = [at |-> "call"]
    /\ UNCHANGED <<storage, joinVars, refreshes, cancel, fetching, drawn, ui, history>>

RebuildSectors ==
    /\ thread.at = "rebuild" /\ StartJoin("refresh")
    /\ thread' = [at |-> "join", then |-> "call"]
    /\ UNCHANGED ui

BackfillDone ==
    /\ thread.at = "call" /\ (cancel \/ due = {} \/ failures >= GiveUpAfter)
    /\ StartJoin("refresh")
    /\ thread' = [at |-> "join", then |-> "off"]
    /\ UNCHANGED ui

\* BACKFILL_MAX_AGE passes.
ProfileAges(i) ==
    /\ profiles[i] = "fresh" /\ thread = Off
    /\ profiles' = [profiles EXCEPT ![i] = "old"] /\ known' = known \ {i}
    /\ UNCHANGED <<stored, errors, joinVars, refreshes, thread, cancel, fetching, drawn, ui,
                   refetched>>

-----------------------------------------------------------------------------
RefreshThread ==
    \/ \E d \in DOMAIN Datasets : Store(d) \/ StoreFails(d)
    \/ DatasetsDone \/ JoinTable("refresh") \/ JoinDone \/ StartBackfill
    \/ \E i \in Isins : ProfileArrives(i) \/ ProfileFails(i) \/ RateLimited(i)
    \/ PauseEnds \/ RebuildSectors \/ BackfillDone

UiJoins == FirstJoin \/ JoinTable("ui") \/ FirstJoinEnds

UiThread == FirstRead \/ UiJoins \/ Redraw \/ Refresh \/ Close

Next == UiThread \/ RefreshThread \/ \E i \in Isins : ProfileAges(i)

\* Both threads run; requests time out and pauses end.
Spec == Init /\ [][Next]_vars /\ WF_vars(RefreshThread) /\ WF_vars(UiJoins)

-----------------------------------------------------------------------------
TypeOK ==
    /\ stored \in [AllDatasets -> 0 .. MaxRefreshes] /\ errors \subseteq AllDatasets
    /\ tried \cap due = {} /\ failures \in 0 .. GiveUpAfter

\* A table that has the snapshot's version was drawn from that snapshot:
\* though both threads rebuild, no two snapshots have one version.
DrawnFromSnapshot == drawn.version = snapshot.version => drawn = snapshot

\* When no refresh runs and no join is under way, the snapshot has everything
\* that is stored: an earlier join never replaces a later one.
SnapshotFresh ==
    thread = Off /\ joins["ui"] = NoJoin /\ snapshot # NoSnapshot =>
        /\ \A d \in DOMAIN Datasets : snapshot.data[d] = stored[Datasets[d]]
        /\ \A i \in Isins : i \in snapshot.sectors <=> profiles[i] # "none"

\* A dataset that was ever stored is there in every later snapshot: a failed
\* or cancelled refresh leaves the last good rows.
LastGoodRows ==
    [][\A d \in DOMAIN Datasets :
          stored[Datasets[d]] > 0 => stored'[Datasets[d]] >= stored[Datasets[d]]]_stored

\* "an interrupted backfill resumes where it stopped": what was fetched within
\* BACKFILL_MAX_AGE isn't fetched again, wherever the last one ended.
NothingRefetched == refetched = {}

\* A backfill that was not ended early has an answer for every company that
\* had no fresh profile, through any number of rate limits.
EveryoneTried ==
    thread.at = "call" /\ due = {} => \A i \in Isins : profiles[i] = "fresh" \/ i \in tried

\* cancel() ends the refresh, whatever it waits for.
CancelEnds == []<>(cancel => thread = Off)
=============================================================================
