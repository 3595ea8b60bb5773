-------------------------- MODULE BackgroundProofs --------------------------
(***************************************************************************)
(* The services that work behind the dashboard, for any items, results,    *)
(* companies, keys and times.                                              *)
(***************************************************************************)
EXTENDS Background, FiniteSetTheorems, SequenceTheorems, WellFoundedInduction, TLAPS

-----------------------------------------------------------------------------
(* Chartink's items: the cached list agrees with the table on which items   *)
(* there are and where; what is queued isn't running.                       *)

Titles == Names \cup {Append(name, n) : name \in Names, n \in Nat}

Modal ==
    [kind : {"add", "columns"}] \cup [kind : {"widgets"}, name : Names]
    \cup [kind : {"rename"}, name : Titles \ {NoBranch}]
    \cup [kind : {"delete"}, ids : SUBSET Ids, name : Titles \cup {NoBranch}]

RowsOK ==
    /\ lastId \in 0 .. MaxItems /\ table = [id \in Ids |-> table[id]]
    /\ \A id \in Ids : table[id] # Gone
          => /\ id <= lastId /\ table[id].origin \in 1 .. MaxItems
             /\ table[id].branch \in Titles \cup {NoBranch}

QueueOK ==
    /\ queue \in Seq(1 .. lastId) /\ running \in 0 .. lastId
    /\ IsInjective(queue) /\ ~ Contains(queue, running)

Agrees(list, rows) ==
    list # NoList => /\ list = [id \in Ids |-> list[id]]
                     /\ \A id \in Ids : /\ list[id] # Gone <=> rows[id] # Gone
                                        /\ list[id].branch = rows[id].branch

ListsOK == Agrees(items, table) /\ Agrees(reading, table)

ItemsInv == RowsOK /\ QueueOK /\ ListsOK /\ BranchesApart /\ modals \in Seq(Modal)

StayDeleted == \A id \in 1 .. lastId : table[id] = Gone => table'[id] = Gone

\* What SetToSeq chooses is there to be chosen.
LEMMA SetToSeqIs ==
  ASSUME NEW S, IsFiniteSet(S)
  PROVE  SetToSeq(S) \in Seq(S) /\ IsInjective(SetToSeq(S))
<1>1. Cardinality(S) \in Nat /\ \E f \in [1 .. Cardinality(S) -> S] : IsInjective(f)
  BY FS_CardinalityType DEF ExistsBijection, Bijection, Injection
<1>2. SetToSeq(S) \in [1 .. Cardinality(S) -> S] /\ IsInjective(SetToSeq(S))
  BY <1>1 DEF SetToSeq
<1> QED
  BY <1>1, <1>2, SeqDef

\* A call of run() queues nothing twice, and not what is running.
LEMMA RunKeeps ==
  ASSUME QueueOK, lastId \in Nat, NEW last \in Nat, lastId <= last, NEW ids \in SUBSET (1 .. last)
  PROVE  /\ Run(queue, ids) \in Seq(1 .. last)
         /\ IsInjective(Run(queue, ids)) /\ ~ Contains(Run(queue, ids), running)
<1> DEFINE new == {id \in ids : id # running /\ ~ Contains(queue, id)}
           added == SetToSeq(new)
           all == Run(queue, ids)
<1>1. all = queue \o added /\ new \in SUBSET (1 .. last)
  BY DEF Run
<1> HIDE DEF all, added
<1>2. \A id \in new : id # running /\ ~ Contains(queue, id)
  OBVIOUS
<1> HIDE DEF new
<1>3. added \in Seq(new) /\ IsInjective(added)
  <2>1. IsFiniteSet(1 .. last)
    BY FS_Interval
  <2> QED
    BY <1>1, <2>1, FS_Subset, SetToSeqIs DEF added
<1>4. added \in Seq(1 .. last) /\ queue \in Seq(1 .. last)
  <2>1. queue \in Seq(1 .. lastId) /\ 1 .. lastId \subseteq 1 .. last
    BY DEF QueueOK
  <2> QED
    BY <1>1, <1>3, <2>1, SeqMonotonic
<1>5. /\ all \in Seq(1 .. last) /\ Len(all) = Len(queue) + Len(added)
      /\ \A i \in 1 .. Len(queue) + Len(added) :
            all[i] = IF i <= Len(queue) THEN queue[i] ELSE added[i - Len(queue)]
  BY <1>1, <1>4, ConcatProperties
<1>6. /\ DOMAIN all = 1 .. Len(all) /\ DOMAIN added = 1 .. Len(added)
      /\ DOMAIN queue = 1 .. Len(queue) /\ Len(queue) \in Nat /\ Len(added) \in Nat
  BY <1>4, <1>5, LenProperties
<1>7. \A i \in 1 .. Len(added) : added[i] # running /\ ~ Contains(queue, added[i])
  BY <1>2, <1>3, ElementOfSeq
<1>8. ~ Contains(all, running)
  <2> SUFFICES ASSUME NEW i \in 1 .. Len(all), all[i] = running PROVE FALSE
    BY DEF Contains
  <2>1. CASE i <= Len(queue)
    BY <1>5, <1>6, <2>1 DEF QueueOK, Contains
  <2>2. CASE i > Len(queue)
    <3>1. i - Len(queue) \in 1 .. Len(added) /\ added[i - Len(queue)] = running
      BY <1>5, <1>6, <2>2
    <3> QED
      BY <1>7, <3>1
  <2> QED
    BY <1>6, <2>1, <2>2
<1>9. ASSUME NEW i \in DOMAIN all, NEW j \in DOMAIN all, all[i] = all[j], i < j PROVE FALSE
  <2> DEFINE u == i - Len(queue)
             v == j - Len(queue)
  <2>1. i \in 1 .. Len(queue) + Len(added) /\ j \in 1 .. Len(queue) + Len(added)
    BY <1>5, <1>6
  <2>2. CASE j <= Len(queue)
    <3>1. i \in DOMAIN queue /\ j \in DOMAIN queue /\ queue[i] = queue[j]
      BY <1>5, <1>6, <1>9, <2>1, <2>2
    <3> QED
      BY <1>9, <2>1, <3>1 DEF QueueOK, IsInjective
  <2>3. CASE i > Len(queue)
    <3>1. u \in 1 .. Len(added) /\ v \in 1 .. Len(added) /\ u # v
      BY <1>6, <1>9, <2>1, <2>3
    <3>2. all[i] = added[u]
      BY <1>5, <1>6, <2>1, <2>3
    <3>3. all[j] = added[v]
      BY <1>5, <1>6, <1>9, <2>1, <2>3, SMTT(30)
    <3> HIDE DEF u, v
    <3> QED
      BY <1>3, <1>6, <1>9, <3>1, <3>2, <3>3 DEF IsInjective
  <2>4. CASE i <= Len(queue) /\ j > Len(queue)
    <3>1. i \in 1 .. Len(queue) /\ v \in 1 .. Len(added) /\ queue[i] = added[v]
      BY <1>5, <1>6, <1>9, <2>1, <2>4
    <3> HIDE DEF v
    <3> QED
      BY <1>7, <3>1 DEF Contains
  <2> QED
    BY <1>6, <2>1, <2>2, <2>3, <2>4
<1>10. IsInjective(all)
  <2>1. \A i, j \in DOMAIN all : i < j \/ j < i \/ i = j
    BY <1>5, <1>6
  <2> QED
    BY <1>9, <2>1 DEF IsInjective
<1> QED
  BY <1>5, <1>8, <1>10 DEF all

\* A set of numbers has a least one.
LEMMA LeastIsThere == ASSUME NEW S, S \subseteq Nat, S # {} PROVE Min(S) \in S
<1> DEFINE R == OpToRel(<, Nat)
<1>1. PICK x \in S : \A y \in S : ~(<<y, x>> \in R)
  <2> HIDE DEF R
  <2>1. IsWellFoundedOn(R, Nat)
    BY NatLessThanWellFounded DEF R
  <2> QED
    BY <2>1, WFMin
<1>2. \A y \in S : x <= y
  <2> SUFFICES ASSUME NEW y \in S PROVE x <= y
    OBVIOUS
  <2>1. x \in Nat /\ y \in Nat /\ ~(<<y, x>> \in R)
    <3> HIDE DEF R
    <3> QED
      BY <1>1
  <2> QED
    BY <2>1 DEF OpToRel
<1> QED
  BY <1>2 DEF Min

\* Of one more names than there are branches, one is free: a dashboard's name
\* and its numbered ones are all different.
LEMMA FreshBranch ==
  ASSUME ChartinkAssumption, NEW name \in Names, IsFiniteSet(Branches)
  PROVE  UniqueCollection(name) \in Titles \ Branches
<1> DEFINE letters == UNION {Range(n) : n \in Names}
           S == letters \cup Nat
           candidate(n) == IF n = 1 THEN name ELSE Append(name, n)
           numbers == 1 .. Cardinality(Branches) + 1
           free == {n \in numbers : candidate(n) \notin Branches}
<1>1. Cardinality(Branches) \in Nat
  BY FS_CardinalityType
<1>2. IsFiniteSet(numbers) /\ Cardinality(numbers) = Cardinality(Branches) + 1
  BY <1>1, FS_Interval
<1>3. name \in Seq(S)
  <2>1. name \in Seq(letters)
    BY DEF ChartinkAssumption
  <2> HIDE DEF letters
  <2> QED
    BY <2>1, SeqMonotonic
<1> HIDE DEF letters
<1>4. ASSUME NEW m \in numbers, NEW n \in numbers, candidate(m) = candidate(n) PROVE m = n
  <2>1. Nat \subseteq S
    OBVIOUS
  <2> HIDE DEF S
  <2>2. Len(name) \in Nat
    BY <1>3, LenProperties
  <2>3. ASSUME NEW k \in numbers
        PROVE  Len(Append(name, k)) = Len(name) + 1 /\ Append(name, k)[Len(name) + 1] = k
    <3>1. k \in S
      BY <1>1, <2>1
    <3> HIDE DEF numbers
    <3> QED
      BY <1>3, <3>1, AppendProperties
  <2>4. (m = 1 => Len(candidate(m)) = Len(name)) /\ (n = 1 => Len(candidate(n)) = Len(name))
    OBVIOUS
  <2>5. /\ m # 1 => /\ Len(candidate(m)) = Len(name) + 1
                    /\ candidate(m)[Len(name) + 1] = m
        /\ n # 1 => /\ Len(candidate(n)) = Len(name) + 1
                    /\ candidate(n)[Len(name) + 1] = n
    BY <2>3
  <2> HIDE DEF candidate, numbers
  <2> QED
    BY <1>4, <2>2, <2>4, <2>5
<1>5. free # {}
  <2> SUFFICES ASSUME \A n \in numbers : candidate(n) \in Branches PROVE FALSE
    OBVIOUS
  <2> DEFINE f == [n \in numbers |-> candidate(n)]
  <2>1. f \in [numbers -> Branches] /\ \A n \in numbers : f[n] = candidate(n)
    OBVIOUS
  <2> HIDE DEF f, numbers, candidate
  <2>2. \E m, n \in numbers : m # n /\ f[m] = f[n]
    BY <1>1, <1>2, <2>1, FS_PigeonHole
  <2> QED
    BY <1>4, <2>1, <2>2
<1>6. Min(free) \in free
  BY <1>1, <1>5, LeastIsThere
<1>7. UniqueCollection(name) = candidate(Min(free))
  BY DEF UniqueCollection
<1>8. candidate(Min(free)) \in Titles
  <2>1. \A n \in numbers : candidate(n) \in Titles
    BY <1>1 DEF Titles
  <2> QED
    BY <1>6, <2>1
<1> QED
  BY <1>6, <1>7, <1>8

LEMMA TopModal ==
  ASSUME modals \in Seq(Modal), modals # <<>>
  PROVE  /\ Front(modals) \in Seq(Modal)
         /\ Top.kind = "widgets" => Top.name \in Names
         /\ Top.kind = "rename" => Top.name \in Titles \ {NoBranch}
<1>1. Len(modals) \in Nat \ {0} /\ \A k \in 1 .. Len(modals) : modals[k] \in Modal
  BY EmptySeq, ElementOfSeq
<1>2. Front(modals) \in Seq(Modal)
  BY <1>1, SubSeqProperties DEF Front
<1>3. Top \in Modal
  BY <1>1 DEF Top, Last
<1>4. ASSUME NEW m \in Modal
      PROVE  /\ m.kind = "widgets" => m.name \in Names
             /\ m.kind = "rename" => m.name \in Titles \ {NoBranch}
  BY DEF Modal
<1> QED
  BY <1>2, <1>3, <1>4

\* What the tree shows is what is saved.
LEMMA TreeIsTable ==
  ASSUME MaxItems \in Nat, ItemsInv, HaveItems
  PROVE  /\ Listed = Saved /\ Saved \subseteq 1 .. lastId
         /\ \A id \in Saved : table[id].branch \in Branches \cup {NoBranch}
         /\ Branches \subseteq Titles \ {NoBranch} /\ IsFiniteSet(Branches)
<1>1. /\ items = [id \in Ids |-> items[id]]
      /\ \A id \in Ids : /\ items[id] # Gone <=> table[id] # Gone
                         /\ items[id].branch = table[id].branch
  BY DEF ItemsInv, ListsOK, Agrees, HaveItems
<1>2. Listed = Saved /\ \A id \in Listed : items[id].branch = table[id].branch
  BY <1>1 DEF Listed, Saved
<1>3. /\ Saved \subseteq 1 .. lastId /\ Saved \subseteq Ids
      /\ \A id \in Saved : table[id].branch \in Titles \cup {NoBranch}
  BY DEF ItemsInv, RowsOK, Saved, Ids
<1>4. Branches = {table[id].branch : id \in Saved} \ {NoBranch}
  BY <1>2 DEF Branches
<1>5. IsFiniteSet(Branches)
  <2> DEFINE of == [id \in Saved |-> table[id].branch]
             all == {table[id].branch : id \in Saved}
  <2>1. IsFiniteSet(Saved)
    <3>1. IsFiniteSet(Ids)
      BY FS_Interval DEF Ids
    <3> QED
      BY <1>3, <3>1, FS_Subset
  <2>2. of \in Surjection(Saved, all)
    BY DEF Surjection
  <2>3. IsFiniteSet(all)
    BY <2>1, <2>2, FS_Surjection
  <2>4. Branches = all \ {NoBranch}
    BY <1>4
  <2> HIDE DEF all
  <2> QED
    BY <2>3, <2>4, FS_Difference
<1> QED
  BY <1>2, <1>3, <1>4, <1>5

\* New rows, with one origin, on no branch or one of their own.
LEMMA AddKeeps ==
  ASSUME ItemsInv, MaxItems \in Nat, NEW count \in Nat \ {0},
         NEW branch \in Titles \cup {NoBranch},
         branch # NoBranch => \A id \in Saved : table[id].branch # branch,
         reading = NoList, AddMany(count, branch), modals' \in Seq(Modal)
  PROVE  ItemsInv' /\ StayDeleted
<1> DEFINE ids == lastId + 1 .. lastId + count
           row == [result |-> 0, branch |-> branch, origin |-> lastId + 1]
<1>1. /\ lastId \in Nat /\ lastId' = lastId + count /\ lastId' <= MaxItems
      /\ items' = NoList /\ reading' = NoList /\ running' = running
      /\ queue' = Run(queue, ids)
  BY DEF ItemsInv, RowsOK, AddMany, RunItems
<1>2. /\ ids \in SUBSET (1 .. lastId') /\ ids \subseteq Ids
      /\ \A id \in ids : id > lastId
      /\ lastId + 1 \in 1 .. MaxItems
  BY <1>1 DEF Ids
<1>3. table' = [id \in Ids |-> IF id \in ids THEN row ELSE table[id]]
  BY DEF AddMany
<1>4. row # Gone /\ row.origin = lastId + 1 /\ row.branch = branch
  BY <1>1 DEF Gone
<1>5. QueueOK'
  BY <1>1, <1>2, RunKeeps DEF ItemsInv, QueueOK
<1> HIDE DEF ids, row
<1>6. RowsOK'
  <2>1. table' = [id \in Ids |-> table'[id]]
    BY <1>3
  <2>2. ASSUME NEW id \in Ids, table'[id] # Gone
        PROVE  /\ id <= lastId' /\ table'[id].origin \in 1 .. MaxItems
               /\ table'[id].branch \in Titles \cup {NoBranch}
    <3>1. CASE id \in ids
      BY <1>2, <1>3, <1>4, <3>1
    <3>2. CASE id \notin ids
      BY <1>1, <1>3, <2>2, <3>2 DEF ItemsInv, RowsOK, Ids
    <3> QED
      BY <3>1, <3>2
  <2> QED
    BY <1>1, <2>1, <2>2 DEF RowsOK
<1>7. /\ \A id \in Saved' : IF id \in ids THEN table'[id] = row
                            ELSE id \in Saved /\ table'[id] = table[id]
      /\ \A id \in 1 .. lastId : table[id] = Gone => table'[id] = Gone
  BY <1>1, <1>2, <1>3 DEF Saved, Ids
<1>8. BranchesApart'
  BY <1>4, <1>7 DEF ItemsInv, BranchesApart
<1>9. ListsOK'
  BY <1>1 DEF ListsOK, Agrees
<1> QED
  BY <1>5, <1>6, <1>7, <1>8, <1>9 DEF ItemsInv, StayDeleted

\* Rows are dropped, or put on another branch.
LEMMA RowsGo ==
  ASSUME MaxItems \in Nat, RowsOK, lastId' = lastId, table' = [id \in Ids |-> table'[id]],
         \A id \in Ids : table'[id] # Gone
            => /\ table[id] # Gone /\ table'[id].origin = table[id].origin
               /\ table'[id].branch \in Titles \cup {NoBranch}
  PROVE  RowsOK' /\ StayDeleted
<1>1. RowsOK'
  BY DEF RowsOK
<1>2. 1 .. lastId \subseteq Ids
  BY DEF RowsOK, Ids
<1> QED
  BY <1>1, <1>2 DEF StayDeleted

\* What is renamed gets a branch that nobody is on.
LEMMA RenameKeeps ==
  ASSUME ChartinkAssumption, ItemsInv, NEW typed \in Names, RenamedCollection(typed)
  PROVE  ItemsInv' /\ StayDeleted
<1> DEFINE new == UniqueCollection(typed)
           on == {id \in Saved : table[id].branch = Top.name}
           moved(id) == [result |-> table[id].result, origin |-> table[id].origin,
                         branch |-> new]
<1>1. /\ HaveItems /\ Top.name \in Titles \ {NoBranch} /\ modals' \in Seq(Modal)
      /\ items' = NoList /\ reading = NoList /\ UNCHANGED <<lastId, reading, queue, running>>
  BY TopModal DEF RenamedCollection, Answers, Popped, HaveItems, Ready, ItemsInv, runVars
<1>2. /\ \A id \in Saved : table[id].branch \in Branches \cup {NoBranch}
      /\ new \in Titles \ Branches
  BY <1>1, TreeIsTable, FreshBranch DEF ChartinkAssumption
<1>3. table' = [id \in Ids |-> IF id \in on THEN moved(id) ELSE table[id]]
  BY DEF RenamedCollection
<1>4. \A id \in Ids : moved(id).origin = table[id].origin /\ moved(id).branch = new
  OBVIOUS
<1>5. /\ on \subseteq Saved /\ Saved \subseteq Ids
      /\ \A id \in Saved : table[id] # Gone /\ (id \in on <=> table[id].branch = Top.name)
      /\ \A id \in Ids : table[id] # Gone => id \in Saved
  BY DEF Saved
<1> HIDE DEF new, on, moved
<1>6. RowsOK' /\ StayDeleted
  BY <1>1, <1>2, <1>3, <1>4, <1>5, RowsGo DEF ItemsInv, RowsOK, ChartinkAssumption
<1>7. \A id \in Saved' : /\ id \in Saved /\ table'[id].origin = table[id].origin
                         /\ id \in on => table'[id].branch = new
                         /\ id \notin on => table'[id].branch = table[id].branch
  BY <1>3, <1>4, <1>5 DEF Saved
<1>8. BranchesApart'
  BY <1>1, <1>2, <1>5, <1>7 DEF ItemsInv, BranchesApart
<1> QED
  BY <1>1, <1>6, <1>8 DEF ItemsInv, QueueOK, ListsOK, Agrees

LEMMA DeleteKeeps ==
  ASSUME MaxItems \in Nat, ItemsInv, ConfirmDelete PROVE ItemsInv' /\ StayDeleted
<1>1. PICK ids : DeleteRows(ids)
  BY DEF ConfirmDelete
<1>2. /\ modals' \in Seq(Modal) /\ items' = NoList
      /\ reading = NoList /\ UNCHANGED <<lastId, reading, queue, running>>
  BY <1>1, TopModal DEF ConfirmDelete, DeleteRows, Answers, Popped, Ready, ItemsInv, runVars
<1>3. table' = [id \in Ids |-> IF id \in ids THEN Gone ELSE table[id]]
  BY <1>1 DEF DeleteRows
<1>4. RowsOK' /\ StayDeleted
  BY <1>2, <1>3, RowsGo DEF ItemsInv, RowsOK
<1>5. \A id \in Saved' : id \in Saved /\ table'[id] = table[id]
  BY <1>3 DEF Saved
<1>6. BranchesApart'
  BY <1>5 DEF ItemsInv, BranchesApart
<1> QED
  BY <1>2, <1>4, <1>6 DEF ItemsInv, QueueOK, ListsOK, Agrees

\* A result changes neither which rows there are nor where they are.
LEMMA ResultKeeps ==
  ASSUME MaxItems \in Nat, ItemsInv, SaveOutcome PROVE ItemsInv' /\ StayDeleted
<1>1. UNCHANGED <<lastId, items, reading, queue, running, modals>>
  BY DEF SaveOutcome, cacheVars, paneVars
<1>2. \A id \in Saved : table[id].origin # 0
  BY DEF Saved, ItemsInv, RowsOK
<1>3. /\ table' = [id \in Ids |-> table'[id]]
      /\ \A id \in Ids : /\ table'[id] # Gone <=> table[id] # Gone
                         /\ table'[id].branch = table[id].branch
                         /\ table'[id].origin = table[id].origin
  <2>1. CASE table' = table
    BY <2>1 DEF ItemsInv, RowsOK
  <2>2. CASE running \in Saved /\ table' = WithResult(running, runner.result)
    <3> DEFINE row == [result |-> runner.result, branch |-> table[running].branch,
                       origin |-> table[running].origin]
    <3>1. /\ row # Gone /\ row.branch = table[running].branch
          /\ row.origin = table[running].origin
      BY <1>2, <2>2 DEF Gone
    <3>2. table' = [table EXCEPT ![running] = row]
      BY <2>2 DEF WithResult
    <3>3. running \in Ids /\ table[running] # Gone
      BY <2>2 DEF Saved
    <3> HIDE DEF row
    <3> QED
      BY <3>1, <3>2, <3>3 DEF ItemsInv, RowsOK
  <2> QED
    BY <2>1, <2>2 DEF SaveOutcome, SavedResult
<1>4. RowsOK' /\ StayDeleted
  BY <1>1, <1>3, RowsGo DEF ItemsInv, RowsOK
<1>5. Saved' = Saved
  BY <1>3 DEF Saved
<1>6. BranchesApart'
  BY <1>3, <1>5 DEF ItemsInv, BranchesApart, Saved
<1>7. ListsOK'
  BY <1>1, <1>3 DEF ItemsInv, ListsOK, Agrees
<1> QED
  BY <1>1, <1>4, <1>6, <1>7 DEF ItemsInv, QueueOK

\* One step of the tab that only opens or answers a dialog, or queues items.
LEMMA PaneKeeps ==
  ASSUME ChartinkAssumption, ItemsInv, PaneSteps
  PROVE  ItemsInv' /\ StayDeleted
<1>1. MaxItems \in Nat /\ MaxWidgets \in Nat /\ modals \in Seq(Modal)
  BY DEF ChartinkAssumption, ItemsInv
<1>2. ASSUME modals' \in Seq(Modal), UNCHANGED <<rowVars, cacheVars, runVars>>
      PROVE  ItemsInv' /\ StayDeleted
  BY <1>2
  DEF ItemsInv, RowsOK, QueueOK, ListsOK, Agrees, BranchesApart, Saved, StayDeleted, rowVars,
      cacheVars, runVars
<1>3. ASSUME NEW modal \in Modal, Open(modal) PROVE ItemsInv' /\ StayDeleted
  <2>1. <<modal>> \in Seq(Modal)
    OBVIOUS
  <2> QED
    BY <1>2, <1>3, <2>1 DEF Open
<1>4. CASE ActionAddItem
  <2>1. [kind |-> "add"] \in Modal
    BY DEF Modal
  <2> QED
    BY <1>3, <1>4, <2>1 DEF ActionAddItem
<1>5. CASE Cancel \/ \E kind \in {"screener", "dashboard"} : StartImport(kind)
  BY <1>1, <1>2, <1>5, TopModal DEF Cancel, StartImport, Answers, Popped
<1>6. CASE ImportFailed
  BY <1>1, <1>2, <1>6 DEF ImportFailed
<1>7. CASE AddRequest \/ ScreenerFetched \/ ColumnsPayloadGiven
  <2>1. AddMany(1, NoBranch) /\ reading = NoList
    BY <1>7 DEF AddRequest, ScreenerFetched, ColumnsPayloadGiven, Answers, Ready
  <2>2. modals' \in Seq(Modal)
    BY <1>1, <1>7, TopModal
    DEF AddRequest, ScreenerFetched, ColumnsPayloadGiven, Answers, Popped
  <2> QED
    BY <1>1, <2>1, <2>2, AddKeeps
<1>8. ASSUME NEW name \in Names, AskFirst(name) PROVE ItemsInv' /\ StayDeleted
  <2> DEFINE modal == IF importing = "screener" THEN [kind |-> "columns"]
                      ELSE [kind |-> "widgets", name |-> name]
  <2>1. modal \in Modal
    BY DEF Modal
  <2>2. modals' = Append(modals, modal)
    BY <1>8 DEF AskFirst
  <2> HIDE DEF modal
  <2>3. modals' \in Seq(Modal)
    BY <1>1, <2>1, <2>2, AppendProperties
  <2> QED
    BY <1>2, <1>8, <2>3 DEF AskFirst
<1>9. ASSUME NEW count \in 1 .. MaxWidgets, WidgetsPicked(count)
      PROVE  ItemsInv' /\ StayDeleted
  <2> DEFINE branch == UniqueCollection(Top.name)
  <2>1. /\ HaveItems /\ reading = NoList /\ modals' \in Seq(Modal) /\ Top.name \in Names
        /\ AddMany(count, branch)
    BY <1>1, <1>9, TopModal DEF WidgetsPicked, Answers, Popped, Ready
  <2>2. branch \in Titles \ Branches
    BY <1>1, <2>1, TreeIsTable, FreshBranch
  <2> HIDE DEF branch
  <2>3. branch # NoBranch => \A id \in Saved : table[id].branch # branch
    BY <1>1, <2>1, <2>2, TreeIsTable
  <2> QED
    BY <1>1, <2>1, <2>2, <2>3, AddKeeps
<1>10. ASSUME NEW ids, RunSelected(ids), ids \subseteq Listed PROVE ItemsInv' /\ StayDeleted
  <2>1. /\ queue' = Run(queue, ids) /\ HaveItems
        /\ UNCHANGED <<table, lastId, items, reading, running, modals>>
    BY <1>10 DEF RunSelected, RunItems, rowVars, cacheVars, paneVars
  <2>2. ids \in SUBSET (1 .. lastId) /\ lastId \in Nat
    BY <1>1, <1>10, <2>1, TreeIsTable DEF ItemsInv, RowsOK
  <2>3. QueueOK'
    BY <2>1, <2>2, RunKeeps DEF ItemsInv, QueueOK
  <2> QED
    BY <2>1, <2>3
    DEF ItemsInv, RowsOK, ListsOK, Agrees, BranchesApart, Saved, StayDeleted
<1>11. ASSUME NEW branch \in Branches, AskRename(branch) PROVE ItemsInv' /\ StayDeleted
  <2>1. branch \in Titles \ {NoBranch}
    BY <1>1, <1>11, TreeIsTable DEF AskRename
  <2>2. [kind |-> "rename", name |-> branch] \in Modal
    BY <2>1 DEF Modal
  <2> QED
    BY <1>3, <1>11, <2>2 DEF AskRename
<1>12. ASSUME NEW ids, NEW branch \in Branches \cup {NoBranch}, AskDelete(ids, branch),
              ids \subseteq Listed
       PROVE  ItemsInv' /\ StayDeleted
  <2>1. branch \in Titles \cup {NoBranch} /\ ids \in SUBSET Ids
    BY <1>1, <1>12, TreeIsTable DEF AskDelete, Saved
  <2>2. [kind |-> "delete", ids |-> ids, name |-> branch] \in Modal
    BY <2>1 DEF Modal
  <2> QED
    BY <1>3, <1>12, <2>2 DEF AskDelete
<1>13. ASSUME NEW branch PROVE OnBranch(branch) \subseteq Listed
  BY DEF OnBranch
<1>14. ASSUME NEW name \in Names, RenamedCollection(name) PROVE ItemsInv' /\ StayDeleted
  BY <1>14, RenameKeeps
<1>15. CASE ConfirmDelete
  BY <1>1, <1>15, DeleteKeeps
<1>16. CASE \E id \in Listed : RunSelected({id}) \/ AskDelete({id}, NoBranch)
  BY <1>10, <1>12, <1>16
<1>17. CASE \E branch \in Branches :
               \/ RunSelected(OnBranch(branch)) \/ AskRename(branch)
               \/ AskDelete(OnBranch(branch), branch)
  BY <1>10, <1>11, <1>12, <1>13, <1>17
<1>18. CASE RunSelected(Screeners)
  BY <1>10, <1>13, <1>18 DEF Screeners
<1> QED
  BY <1>4, <1>5, <1>6, <1>7, <1>8, <1>9, <1>14, <1>15, <1>16, <1>17, <1>18 DEF PaneSteps

\* The runner, and the table's read: the list kept is the table's as it was
\* read, up to the results.
LEMMA ItemsStep ==
  ASSUME ChartinkAssumption, ItemsInv, [Next]_vars
  PROVE  ItemsInv' /\ StayDeleted
<1>1. ASSUME UNCHANGED <<rowVars, items, reading, modals>>, QueueOK' PROVE ItemsInv' /\ StayDeleted
  BY <1>1 DEF ItemsInv, RowsOK, ListsOK, Agrees, BranchesApart, Saved, StayDeleted, rowVars
<1>2. ASSUME UNCHANGED <<queue, running, lastId>> PROVE QueueOK'
  BY <1>2 DEF ItemsInv, QueueOK
<1>3. CASE ReadItems \/ KeepItems
  <2>1. UNCHANGED <<table, lastId, queue, running, modals>>
    BY <1>3 DEF ReadItems, KeepItems, rowVars, runVars, paneVars
  <2>2. ListsOK'
    BY <1>3, <2>1 DEF ReadItems, KeepItems, ItemsInv, RowsOK, ListsOK, Agrees
  <2> QED
    BY <2>1, <2>2 DEF ItemsInv, RowsOK, QueueOK, BranchesApart, Saved, StayDeleted
<1>4. CASE Close \/ GetItem \/ \E result \in Results \cup {0} : Answered(result)
  BY <1>1, <1>2, <1>4 DEF Close, GetItem, Answered, rowVars, cacheVars, runVars, paneVars
<1>5. CASE TakeItem
  <2>1. /\ running' = Head(queue) /\ queue' = Tail(queue) /\ lastId' = lastId
        /\ UNCHANGED <<rowVars, items, reading, modals>> /\ queue \in Seq(1 .. lastId)
        /\ queue # <<>>
    BY <1>5 DEF TakeItem, rowVars, cacheVars, paneVars, ItemsInv, QueueOK
  <2>2. /\ queue' \in Seq(1 .. lastId) /\ running' \in 1 .. lastId /\ running' = queue[1]
        /\ Len(queue) \in Nat \ {0} /\ Len(queue') = Len(queue) - 1
        /\ \A i \in 1 .. Len(queue') : queue'[i] = queue[i + 1]
    <3>1. Head(queue) = queue[1]
      OBVIOUS
    <3> QED
      BY <2>1, <3>1, HeadTailProperties, EmptySeq
  <2>3. DOMAIN queue = 1 .. Len(queue) /\ DOMAIN queue' = 1 .. Len(queue')
    BY <2>1, <2>2, LenProperties
  <2>4. \A i, j \in 1 .. Len(queue) : queue[i] = queue[j] => i = j
    BY <2>3 DEF ItemsInv, QueueOK, IsInjective
  <2>5. IsInjective(queue')
    <3> SUFFICES ASSUME NEW i \in 1 .. Len(queue'), NEW j \in 1 .. Len(queue'),
                        queue'[i] = queue'[j]
                 PROVE  i = j
      BY <2>3 DEF IsInjective
    <3>1. i + 1 \in 1 .. Len(queue) /\ j + 1 \in 1 .. Len(queue)
      BY <2>2
    <3>2. queue[i + 1] = queue[j + 1]
      BY <2>2
    <3>3. i + 1 = j + 1
      BY <2>4, <3>1, <3>2
    <3> QED
      BY <3>3
  <2>6. ~ Contains(queue', running')
    <3> SUFFICES ASSUME NEW i \in 1 .. Len(queue'), queue'[i] = running' PROVE FALSE
      BY DEF Contains
    <3>1. i + 1 \in 1 .. Len(queue) /\ 1 \in 1 .. Len(queue) /\ i + 1 # 1
      BY <2>2
    <3>2. queue[i + 1] = queue[1]
      BY <2>2
    <3> QED
      BY <2>4, <3>1, <3>2
  <2>7. QueueOK'
    BY <2>1, <2>2, <2>5, <2>6 DEF QueueOK
  <2> QED
    BY <1>1, <2>1, <2>7
<1>6. CASE EndRun \/ RunnerDies
  <2>1. running' = 0 /\ queue' = queue /\ UNCHANGED <<rowVars, items, reading, modals>>
    BY <1>6 DEF EndRun, RunnerDies, rowVars, cacheVars, paneVars
  <2>2. queue \in Seq(1 .. lastId) /\ lastId \in Nat
    BY DEF ItemsInv, QueueOK, RowsOK
  <2>3. ~ Contains(queue, 0)
    BY <2>2, ElementOfSeq DEF Contains
  <2>4. QueueOK'
    BY <2>1, <2>2, <2>3 DEF ItemsInv, QueueOK, rowVars, Contains
  <2> QED
    BY <1>1, <2>1, <2>4
<1>7. CASE RunnerChanged
  BY <1>7
  DEF RunnerChanged, ItemsInv, RowsOK, QueueOK, ListsOK, Agrees, BranchesApart, Saved, StayDeleted,
      rowVars, paneVars
<1>8. CASE SaveOutcome
  BY <1>8, ResultKeeps DEF ChartinkAssumption
<1>9. CASE PaneSteps
  BY <1>9, PaneKeeps
<1>10. CASE UNCHANGED vars
  BY <1>1, <1>2, <1>10 DEF vars, rowVars, cacheVars, runVars, paneVars
<1> QED
  BY <1>3, <1>4, <1>5, <1>6, <1>7, <1>8, <1>9, <1>10 DEF Next, RunnerSteps

LEMMA ItemsInit == ASSUME ChartinkAssumption, Init PROVE ItemsInv
<1>1. table = [id \in Ids |-> Gone] /\ lastId = 0 /\ MaxItems \in Nat
  BY DEF Init, ChartinkAssumption
<1>2. RowsOK /\ BranchesApart
  BY <1>1 DEF RowsOK, BranchesApart, Saved
<1>3. queue = <<>> /\ <<>> \in Seq(1 .. lastId) /\ Len(<<>>) = 0 /\ running = 0
  BY EmptySeq DEF Init
<1>4. QueueOK
  BY <1>1, <1>3 DEF QueueOK, IsInjective, Contains
<1>5. ListsOK /\ modals \in Seq(Modal)
  BY DEF Init, ListsOK, Agrees
<1> QED
  BY <1>2, <1>4, <1>5 DEF ItemsInv

\* ItemsInv holds of every behaviour of the tab, its runner and the reads.
THEOREM ItemsInvariant == ASSUME ChartinkAssumption PROVE Spec => []ItemsInv
BY ItemsInit, ItemsStep, PTL DEF Spec

\* Whatever the tab, the runner and the reads of the table do in between
\* (ChartinkService.run, _run_loop, items, add_many, rename_collection, delete):
\* an item is run by one place at a time, the tree shows the items there are
\* where they are, and two dashboards never share a branch.
THEOREM ItemsAlwaysSound == ASSUME ChartinkAssumption PROVE Spec => []ItemsSound
<1>1. ASSUME ItemsInv PROVE OneRunEach
  <2>1. queue \in Seq(1 .. lastId) /\ lastId \in 0 .. MaxItems /\ MaxItems \in Nat
    BY <1>1 DEF ItemsInv, QueueOK, RowsOK, ChartinkAssumption
  <2>2. Range(queue) \subseteq 1 .. lastId
    BY <2>1, LenProperties DEF Range
  <2> QED
    BY <1>1, <2>1, <2>2 DEF ItemsInv, QueueOK, OneRunEach, Ids
<1>2. ASSUME ItemsInv PROVE TreeComplete
  BY <1>2 DEF ItemsInv, ListsOK, Agrees, TreeComplete, Saved, Gone, NoList
<1> QED
  BY <1>1, <1>2, ItemsInvariant, PTL DEF ItemsInv, ItemsSound

\* A result that arrives late brings no deleted item back (save_result, delete).
THEOREM NothingReturns == ASSUME ChartinkAssumption PROVE Spec => DeletedStaysDeleted
<1>1. ItemsInv /\ [Next]_vars => [StayDeleted]_vars
  BY ItemsStep
<1> QED
  BY <1>1, ItemsInvariant, PTL DEF Spec, DeletedStaysDeleted, StayDeleted

-----------------------------------------------------------------------------
(* The securities: one join at a time, which counts the version on when it  *)
(* ends; the refresh thread writes nothing while it joins, and joins last.  *)

DatasetRowsOK ==
    /\ refreshes \in 1 .. MaxRefreshes /\ stored \in [Security!AllDatasets -> 0 .. refreshes]
    /\ errors \subseteq Security!AllDatasets

securityState == Security!vars

\* The backfill has an answer for a company, or is to ask for it yet; it is
\* never to ask for one whose profile is fresh.
Backfilling ==
    \/ thread.at \in {"call", "pause", "rebuild"}
    \/ thread.at = "join" /\ thread.then = "call"

BackfillOK ==
    /\ profiles \in [Isins -> {"none", "fresh", "old"}]
    /\ tried \cap due = {} /\ failures \in 0 .. GiveUpAfter
    /\ \A i \in due : i \in Isins /\ profiles[i] # "fresh"
    /\ \A i \in known : i \in Isins /\ profiles[i] = "fresh"
    /\ refetched = {}
    /\ Backfilling => \A i \in Isins : profiles[i] = "fresh" \/ i \in tried \cup due

Joins(t) == joins[t] # Security!NoJoin

JoinsOK ==
    /\ version \in Nat /\ joins = [t \in Security!Threads |-> joins[t]]
    /\ ~Joins("ui") \/ ~Joins("refresh")
    /\ Joins("refresh") => thread.at = "join"
    /\ thread.at = "join" => thread.then \in {"sectors", "call", "off"}
    /\ \A t \in Security!Threads : Joins(t)
          => /\ joins[t].at \in 1 .. Len(Datasets) + 1 /\ joins[t].version = version + 1
             /\ joins[t].data \in Seq(Nat) /\ Len(joins[t].data) = joins[t].at - 1

DrawnOK ==
    /\ snapshot.version = version /\ drawn.version \in 0 .. version
    /\ Security!DrawnFromSnapshot

\* What a join has read, and what the snapshot has, is what is stored.
ReadsStored(t) ==
    Joins(t) => \A d \in DOMAIN Datasets :
                   d < joins[t].at => joins[t].data[d] = stored[Datasets[d]]

ShowsStored ==
    /\ \A d \in DOMAIN Datasets : snapshot.data[d] = stored[Datasets[d]]
    /\ \A i \in Isins : i \in snapshot.sectors <=> profiles[i] # "none"

FreshOK ==
    /\ ReadsStored("refresh")
    /\ thread.at \in {"off", "sectors"}
          => ReadsStored("ui") /\ (snapshot # Security!NoSnapshot => ShowsStored)

SecurityInv == DatasetRowsOK /\ BackfillOK /\ JoinsOK /\ DrawnOK /\ FreshOK

RowsStay ==
    \A d \in DOMAIN Datasets :
       stored[Datasets[d]] > 0 => stored'[Datasets[d]] >= stored[Datasets[d]]

\* A thread that starts a join found none under way.
LEMMA StartJoinKeeps ==
  ASSUME Security!SecuritiesAssumption, SecurityInv, NEW t \in Security!Threads,
         Security!StartJoin(t), t = "refresh" => thread'.at = "join",
         t = "ui" => thread' = thread,
         thread'.at = "join" => thread'.then \in {"sectors", "call", "off"},
         Backfilling' => Backfilling
  PROVE  SecurityInv' /\ RowsStay
<1> DEFINE new == [at |-> 1, version |-> version + 1, data |-> <<>>]
<1>1. /\ \A u \in Security!Threads : ~Joins(u)
      /\ UNCHANGED <<stored, errors, profiles, snapshot, version, refreshes, due, tried, failures,
                     drawn, known, refetched>>
      /\ joins' = [joins EXCEPT ![t] = new]
  BY DEF Security!StartJoin, Security!LockFree, Joins, Security!storage, Security!fetching,
         Security!history
<1>2. /\ new.at = 1 /\ new.version = version + 1 /\ new.data = <<>>
      /\ <<>> \in Seq(Nat) /\ Len(<<>>) = 0
  BY EmptySeq
<1>3. Len(Datasets) \in Nat /\ DOMAIN Datasets = 1 .. Len(Datasets)
  BY LenProperties DEF Security!SecuritiesAssumption
<1> HIDE DEF new
<1>4. /\ joins'[t] = new /\ joins' = [u \in Security!Threads |-> joins'[u]]
      /\ \A u \in Security!Threads \ {t} : ~Joins(u)'
  BY <1>1 DEF SecurityInv, JoinsOK, Joins, Security!NoJoin
<1>5. JoinsOK'
  <2>1. ~Joins("ui")' \/ ~Joins("refresh")'
    BY <1>4 DEF Security!Threads
  <2>2. Joins("refresh")' => thread'.at = "join"
    BY <1>4 DEF Security!Threads
  <2>3. \A u \in Security!Threads : Joins(u)' => u = t
    BY <1>4
  <2>4. /\ new.at \in 1 .. Len(Datasets) + 1 /\ new.data \in Seq(Nat)
        /\ Len(new.data) = new.at - 1
    BY <1>2, <1>3
  <2>5. version \in Nat /\ version' = version
    BY <1>1 DEF SecurityInv, JoinsOK
  <2> QED
    BY <1>2, <1>4, <2>1, <2>2, <2>3, <2>4, <2>5 DEF JoinsOK
<1>6. FreshOK'
  <2>1. ReadsStored(t)' /\ \A u \in Security!Threads \ {t} : ReadsStored(u)'
    BY <1>2, <1>3, <1>4 DEF ReadsStored
  <2>2. ReadsStored("ui")' /\ ReadsStored("refresh")'
    BY <2>1 DEF Security!Threads
  <2>3. thread'.at \in {"off", "sectors"} => thread' = thread
    BY DEF Security!Threads
  <2> QED
    BY <1>1, <2>2, <2>3 DEF SecurityInv, FreshOK, ShowsStored
<1>7. DatasetRowsOK' /\ BackfillOK' /\ DrawnOK'
  BY <1>1 DEF SecurityInv, DatasetRowsOK, BackfillOK, DrawnOK, Security!DrawnFromSnapshot
<1>8. RowsStay
  BY <1>1 DEF RowsStay, SecurityInv, DatasetRowsOK, Security!AllDatasets
<1> QED
  BY <1>5, <1>6, <1>7, <1>8 DEF SecurityInv

\* The refresh thread writes nothing in between two reads of its join.
LEMMA JoinTableKeeps ==
  ASSUME Security!SecuritiesAssumption, SecurityInv, NEW t \in Security!Threads,
         Security!JoinTable(t)
  PROVE  SecurityInv' /\ RowsStay
<1> DEFINE at == joins[t].at
           read == stored[Datasets[at]]
           new == [at |-> at + 1, version |-> joins[t].version,
                   data |-> Append(joins[t].data, read)]
<1>1. /\ UNCHANGED <<stored, errors, profiles, snapshot, version, refreshes, thread, due, tried,
                     failures, drawn, known, refetched>>
      /\ joins' = [joins EXCEPT ![t] = new] /\ at \in DOMAIN Datasets
  BY DEF Security!JoinTable, Security!storage, Security!fetching, Security!history
<1>2. Len(Datasets) \in Nat /\ DOMAIN Datasets = 1 .. Len(Datasets)
  BY LenProperties DEF Security!SecuritiesAssumption
<1>3. /\ Joins(t) /\ at \in 1 .. Len(Datasets) /\ joins[t].version = version + 1
      /\ joins[t].data \in Seq(Nat) /\ Len(joins[t].data) = at - 1
  BY <1>1, <1>2 DEF SecurityInv, JoinsOK, Joins, Security!NoJoin
<1>4. read \in Nat
  BY <1>1 DEF SecurityInv, DatasetRowsOK, Security!AllDatasets
<1> HIDE DEF read
<1>5. /\ new.at = at + 1 /\ new.version = version + 1 /\ new.data \in Seq(Nat)
      /\ Len(new.data) = at
      /\ \A d \in 1 .. at : new.data[d] = IF d = at THEN read ELSE joins[t].data[d]
  BY <1>3, <1>4, AppendProperties
<1>6. new # Security!NoJoin
  BY <1>3, <1>5 DEF Security!NoJoin
<1> HIDE DEF new, at
<1>7. /\ joins'[t] = new /\ joins' = [u \in Security!Threads |-> joins'[u]]
      /\ \A u \in Security!Threads \ {t} : joins'[u] = joins[u]
      /\ \A u \in Security!Threads : Joins(u)' <=> Joins(u)
  BY <1>1, <1>3, <1>6 DEF SecurityInv, JoinsOK, Joins
<1>8. JoinsOK'
  <2>1. ASSUME NEW u \in Security!Threads, Joins(u)'
        PROVE  /\ joins'[u].at \in 1 .. Len(Datasets) + 1 /\ joins'[u].version = version + 1
               /\ joins'[u].data \in Seq(Nat) /\ Len(joins'[u].data) = joins'[u].at - 1
    <3>1. CASE u = t
      BY <1>2, <1>3, <1>5, <1>7, <3>1
    <3>2. CASE u # t
      BY <1>7, <2>1, <3>2 DEF SecurityInv, JoinsOK
    <3> QED
      BY <3>1, <3>2
  <2> QED
    BY <1>1, <1>7, <2>1 DEF SecurityInv, JoinsOK, Security!Threads
<1>9. \A u \in Security!Threads : ReadsStored(u) => ReadsStored(u)'
  <2>1. ASSUME ReadsStored(t) PROVE ReadsStored(t)'
    <3> SUFFICES ASSUME NEW d \in DOMAIN Datasets, d < at + 1
                 PROVE  new.data[d] = stored[Datasets[d]]
      BY <1>1, <1>5, <1>7 DEF ReadsStored
    <3>1. d \in 1 .. at
      BY <1>2, <1>3
    <3>2. CASE d = at
      BY <1>5, <3>1, <3>2 DEF read
    <3>3. CASE d # at
      BY <1>3, <1>5, <2>1, <3>1, <3>3 DEF ReadsStored, at
    <3> QED
      BY <3>2, <3>3
  <2>2. ASSUME NEW u \in Security!Threads, u # t, ReadsStored(u) PROVE ReadsStored(u)'
    BY <1>1, <1>7, <2>2 DEF ReadsStored
  <2> QED
    BY <2>1, <2>2
<1>10. FreshOK'
  BY <1>1, <1>9 DEF SecurityInv, FreshOK, ShowsStored, Security!Threads
<1>11. DatasetRowsOK' /\ BackfillOK' /\ DrawnOK'
  BY <1>1
  DEF SecurityInv, DatasetRowsOK, BackfillOK, Backfilling, DrawnOK, Security!DrawnFromSnapshot
<1>12. RowsStay
  BY <1>1 DEF RowsStay, SecurityInv, DatasetRowsOK, Security!AllDatasets
<1> QED
  BY <1>8, <1>10, <1>11, <1>12 DEF SecurityInv

\* A join that ends takes the next version, and its lock kept others out.
LEMMA EndJoinKeeps ==
  ASSUME Security!SecuritiesAssumption, SecurityInv, NEW t \in Security!Threads,
         Security!EndJoin(t), t = "ui" => thread' = thread,
         t = "refresh" => thread.at = "join" /\ thread'.at = thread.then
  PROVE  SecurityInv' /\ RowsStay
<1>1. /\ UNCHANGED <<stored, errors, profiles, refreshes, due, tried, failures, drawn, known,
                     refetched>>
      /\ joins' = [joins EXCEPT ![t] = Security!NoJoin] /\ version' = version + 1
      /\ joins[t].at = Len(Datasets) + 1
      /\ snapshot'.version = joins[t].version /\ snapshot'.data = joins[t].data
      /\ snapshot'.sectors = {i \in Isins : profiles[i] # "none"}
  BY DEF Security!EndJoin, Security!storage, Security!fetching, Security!history
<1>2. Len(Datasets) \in Nat /\ DOMAIN Datasets = 1 .. Len(Datasets)
  BY LenProperties DEF Security!SecuritiesAssumption
<1>3. Joins(t) /\ joins[t].version = version + 1 /\ version \in Nat
  <2>1. joins[t] # Security!NoJoin
    BY <1>1, <1>2 DEF Security!NoJoin
  <2> QED
    BY <2>1 DEF SecurityInv, JoinsOK, Joins
<1>4. /\ \A u \in Security!Threads : ~Joins(u)'
      /\ joins' = [u \in Security!Threads |-> joins'[u]]
  BY <1>1, <1>3 DEF SecurityInv, JoinsOK, Joins, Security!Threads
<1>5. t = "refresh" => thread'.at \in {"sectors", "call", "off"}
  BY DEF SecurityInv, JoinsOK
<1>6. JoinsOK'
  BY <1>1, <1>3, <1>4, <1>5 DEF SecurityInv, JoinsOK, Security!Threads
<1>7. DrawnOK'
  BY <1>1, <1>3 DEF SecurityInv, DrawnOK, Security!DrawnFromSnapshot
<1>8. FreshOK'
  <2>1. ReadsStored("ui")' /\ ReadsStored("refresh")'
    BY <1>4 DEF ReadsStored, Security!Threads
  <2>2. ASSUME thread'.at \in {"off", "sectors"} PROVE ReadsStored(t)
    BY <2>2 DEF SecurityInv, FreshOK, Security!Threads
  <2>3. ASSUME ReadsStored(t) PROVE ShowsStored'
    BY <1>1, <1>2, <1>3, <2>3 DEF ReadsStored, ShowsStored
  <2> QED
    BY <2>1, <2>2, <2>3 DEF FreshOK
<1>9. DatasetRowsOK' /\ BackfillOK'
  <2>1. Backfilling' => Backfilling
    BY <1>5 DEF Backfilling, Security!Threads
  <2> QED
    BY <1>1, <2>1 DEF SecurityInv, DatasetRowsOK, BackfillOK
<1>10. RowsStay
  BY <1>1 DEF RowsStay, SecurityInv, DatasetRowsOK, Security!AllDatasets
<1> QED
  BY <1>6, <1>7, <1>8, <1>9, <1>10 DEF SecurityInv

\* No join begins, reads or ends: what is written is written outside of the
\* refresh thread's joins, which it ends with.
LEMMA OtherStep ==
  ASSUME SecurityInv, UNCHANGED <<snapshot, version, joins>>,
         DatasetRowsOK', BackfillOK', DrawnOK', RowsStay,
         thread' # thread => thread.at # "join" /\ thread'.at # "join",
         thread'.at \in {"off", "sectors"} => thread.at \in {"off", "sectors"},
         \/ stored' = stored /\ \A i \in Isins : profiles'[i] = "none" <=> profiles[i] = "none"
         \/ thread.at # "join" /\ thread'.at \notin {"off", "sectors"}
  PROVE  SecurityInv' /\ RowsStay
<1>1. JoinsOK'
  BY DEF SecurityInv, JoinsOK, Joins
<1>2. FreshOK'
  BY DEF SecurityInv, JoinsOK, FreshOK, ReadsStored, ShowsStored, Joins
<1> QED
  BY <1>1, <1>2 DEF SecurityInv

\* The tab, and time.
LEMMA UiKeeps ==
  ASSUME Security!SecuritiesAssumption, SecurityInv,
         Security!UiThread \/ (\E i \in Isins : Security!ProfileAges(i)) \/ UNCHANGED securityState
  PROVE  SecurityInv' /\ RowsStay
<1>1. CASE Security!FirstJoin
  <2>1. Security!StartJoin("ui") /\ thread' = thread
    BY <1>1 DEF Security!FirstJoin
  <2>2. Backfilling' => Backfilling
    BY <2>1 DEF Backfilling
  <2> QED
    BY <2>1, <2>2, StartJoinKeeps DEF Security!Threads, SecurityInv, JoinsOK
<1>2. CASE Security!JoinTable("ui")
  BY <1>2, JoinTableKeeps DEF Security!Threads
<1>3. CASE Security!FirstJoinEnds
  BY <1>3, EndJoinKeeps DEF Security!Threads, Security!FirstJoinEnds
<1>4. RowsStay \/ stored' # stored
  BY DEF RowsStay, SecurityInv, DatasetRowsOK, Security!AllDatasets
<1>5. ASSUME UNCHANGED <<stored, errors, profiles, snapshot, version, joins, refreshes, thread,
                         due, tried, failures, drawn, known, refetched>>
      PROVE  SecurityInv' /\ RowsStay
  <2>1. DatasetRowsOK' /\ BackfillOK' /\ DrawnOK'
    BY <1>5
    DEF SecurityInv, DatasetRowsOK, BackfillOK, Backfilling, DrawnOK, Security!DrawnFromSnapshot
  <2> QED
    BY <1>4, <1>5, <2>1, OtherStep
<1>6. CASE Security!FirstRead \/ Security!Close \/ UNCHANGED securityState
  BY <1>5, <1>6
  DEF Security!FirstRead, Security!Close, Security!storage, Security!joinVars, Security!fetching,
      Security!history, Security!vars, securityState
<1>7. CASE Security!Redraw
  <2>1. /\ drawn' = snapshot
        /\ UNCHANGED <<stored, errors, profiles, snapshot, version, joins, refreshes, thread,
                       due, tried, failures, known, refetched>>
    BY <1>7 DEF Security!Redraw, Security!storage, Security!joinVars, Security!fetching,
                Security!history
  <2>2. DatasetRowsOK' /\ BackfillOK'
    BY <2>1 DEF SecurityInv, DatasetRowsOK, BackfillOK, Backfilling
  <2>3. DrawnOK'
    BY <2>1 DEF SecurityInv, JoinsOK, DrawnOK, Security!DrawnFromSnapshot
  <2> QED
    BY <1>4, <2>1, <2>2, <2>3, OtherStep
<1>8. CASE Security!Refresh
  <2>1. /\ refreshes' = refreshes + 1 /\ refreshes < MaxRefreshes
        /\ thread.at = "off" /\ thread'.at = "fetch"
        /\ UNCHANGED <<stored, errors, profiles, snapshot, version, joins, drawn, due, tried,
                       failures, known, refetched>>
    BY <1>8 DEF Security!Refresh, Security!Off, Security!storage, Security!joinVars,
                Security!fetching, Security!history
  <2>2. DatasetRowsOK'
    <3>1. /\ refreshes \in 1 .. MaxRefreshes /\ MaxRefreshes \in Nat
          /\ stored \in [Security!AllDatasets -> 0 .. refreshes] /\ errors' = errors
          /\ errors \subseteq Security!AllDatasets
      BY <2>1 DEF SecurityInv, DatasetRowsOK, Security!SecuritiesAssumption
    <3>2. refreshes' \in 1 .. MaxRefreshes /\ 0 .. refreshes \subseteq 0 .. refreshes'
      BY <2>1, <3>1
    <3>3. stored' \in [Security!AllDatasets -> 0 .. refreshes']
      BY <2>1, <3>1, <3>2
    <3> QED
      BY <3>1, <3>2, <3>3 DEF DatasetRowsOK
  <2>3. BackfillOK' /\ DrawnOK'
    BY <2>1 DEF SecurityInv, BackfillOK, Backfilling, DrawnOK, Security!DrawnFromSnapshot
  <2> QED
    BY <1>4, <2>1, <2>2, <2>3, OtherStep
<1>9. ASSUME NEW i \in Isins, Security!ProfileAges(i) PROVE SecurityInv' /\ RowsStay
  <2>1. /\ profiles[i] = "fresh" /\ profiles' = [profiles EXCEPT ![i] = "old"]
        /\ known' = known \ {i} /\ thread.at = "off"
        /\ UNCHANGED <<stored, errors, snapshot, version, joins, refreshes, thread, drawn, due,
                       tried, failures, refetched>>
    BY <1>9 DEF Security!ProfileAges, Security!Off, Security!joinVars, Security!fetching
  <2>2. BackfillOK'
    BY <2>1 DEF SecurityInv, BackfillOK, Backfilling
  <2>3. DatasetRowsOK' /\ DrawnOK'
    BY <2>1 DEF SecurityInv, DatasetRowsOK, DrawnOK, Security!DrawnFromSnapshot
  <2>4. \A j \in Isins : profiles'[j] = "none" <=> profiles[j] = "none"
    BY <2>1 DEF SecurityInv, BackfillOK
  <2> QED
    BY <1>4, <2>1, <2>2, <2>3, <2>4, OtherStep
<1> QED
  BY <1>1, <1>2, <1>3, <1>6, <1>7, <1>8, <1>9 DEF Security!UiThread, Security!UiJoins

\* The refresh thread fetches the datasets, joins, and asks for profiles.
LEMMA RefreshKeeps ==
  ASSUME Security!SecuritiesAssumption, SecurityInv, Security!RefreshThread
  PROVE  SecurityInv' /\ RowsStay
<1>1. ASSUME NEW d \in DOMAIN Datasets, Security!Store(d) \/ Security!StoreFails(d)
      PROVE  SecurityInv' /\ RowsStay
  <2>1. /\ thread.at = "fetch" /\ thread'.at = "fetch"
        /\ UNCHANGED <<profiles, snapshot, version, joins, refreshes, drawn, due, tried, failures,
                       known, refetched>>
        /\ stored' \in {stored, [stored EXCEPT ![Datasets[d]] = refreshes]}
        /\ errors' \in {errors \ {Datasets[d]}, errors \cup {Datasets[d]}}
    BY <1>1
    DEF Security!Store, Security!StoreFails, Security!Fetching, Security!NextDataset,
        Security!KeepRows, Security!joinVars, Security!fetching, Security!history
  <2>2. /\ refreshes \in Nat \ {0} /\ stored \in [Security!AllDatasets -> 0 .. refreshes]
        /\ Datasets[d] \in Security!AllDatasets
        /\ \A e \in DOMAIN Datasets : Datasets[e] \in Security!AllDatasets
    BY DEF SecurityInv, DatasetRowsOK, Security!AllDatasets, Security!SecuritiesAssumption
  <2>3. DatasetRowsOK'
    BY <2>1, <2>2 DEF SecurityInv, DatasetRowsOK
  <2>4. RowsStay
    BY <2>1, <2>2 DEF RowsStay
  <2>5. BackfillOK' /\ DrawnOK'
    BY <2>1 DEF SecurityInv, BackfillOK, Backfilling, DrawnOK, Security!DrawnFromSnapshot
  <2> QED
    BY <2>1, <2>3, <2>4, <2>5, OtherStep
<1>2. CASE Security!DatasetsDone \/ Security!RebuildSectors \/ Security!BackfillDone
  <2>1. /\ Security!StartJoin("refresh")
        /\ thread' \in {[at |-> "join", then |-> then] : then \in {"sectors", "call", "off"}}
        /\ thread'.then = "call" => thread.at = "rebuild"
    BY <1>2 DEF Security!DatasetsDone, Security!RebuildSectors, Security!BackfillDone
  <2>2. thread'.at = "join" /\ thread'.then \in {"sectors", "call", "off"}
    BY <2>1
  <2>3. Backfilling' => Backfilling
    BY <2>1, <2>2 DEF Backfilling
  <2> QED
    BY <2>1, <2>2, <2>3, StartJoinKeeps DEF Security!Threads
<1>3. CASE Security!JoinTable("refresh")
  BY <1>3, JoinTableKeeps DEF Security!Threads
<1>4. CASE Security!JoinDone
  <2>1. Security!EndJoin("refresh") /\ thread.at = "join" /\ thread'.at = thread.then
    BY <1>4 DEF Security!JoinDone, Security!Off
  <2> QED
    BY <2>1, EndJoinKeeps DEF Security!Threads
<1>5. RowsStay \/ stored' # stored
  BY DEF RowsStay, SecurityInv, DatasetRowsOK, Security!AllDatasets
<1>6. CASE Security!StartBackfill
  <2>1. /\ thread.at = "sectors"
        /\ UNCHANGED <<stored, errors, profiles, snapshot, version, joins, refreshes, drawn, known,
                       refetched>>
        /\ \/ thread'.at = "off" /\ UNCHANGED <<due, tried, failures>>
           \/ /\ thread'.at = "call" /\ tried' = {} /\ failures' = 0
              /\ due' = {i \in Isins : profiles[i] # "fresh"}
    BY <1>6 DEF Security!StartBackfill, Security!DueIsins, Security!Off, Security!storage,
                Security!joinVars, Security!fetching, Security!history
  <2>2. GiveUpAfter \in Nat
    BY DEF Security!SecuritiesAssumption
  <2>3. BackfillOK'
    BY <2>1, <2>2 DEF SecurityInv, BackfillOK, Backfilling
  <2>4. DatasetRowsOK' /\ DrawnOK'
    BY <2>1 DEF SecurityInv, DatasetRowsOK, DrawnOK, Security!DrawnFromSnapshot
  <2> QED
    BY <1>5, <2>1, <2>3, <2>4, OtherStep
<1>7. ASSUME NEW i \in Isins, Security!ProfileArrives(i) \/ Security!ProfileFails(i)
      PROVE  SecurityInv' /\ RowsStay
  <2>1. /\ thread.at = "call" /\ thread'.at \in {"call", "rebuild"} /\ i \in due
        /\ failures < GiveUpAfter
        /\ UNCHANGED <<stored, errors, snapshot, version, joins, refreshes, drawn>>
        /\ due' = due \ {i} /\ tried' = tried \cup {i}
    BY <1>7 DEF Security!ProfileArrives, Security!ProfileFails, Security!Calling,
                Security!Answered, Security!joinVars
  <2>2. \/ /\ profiles' = [profiles EXCEPT ![i] = "fresh"] /\ failures' = 0
           /\ known' = known \cup {i} /\ refetched' = refetched \cup ({i} \cap known)
        \/ failures' = failures + 1 /\ UNCHANGED <<profiles, known, refetched>>
    BY <1>7 DEF Security!ProfileArrives, Security!ProfileFails, Security!Saved, Security!history
  <2>3. GiveUpAfter \in Nat /\ i \notin known
    BY <2>1 DEF Security!SecuritiesAssumption, SecurityInv, BackfillOK
  <2>4. /\ failures' \in 0 .. GiveUpAfter /\ tried' \cap due' = {} /\ refetched' = {}
        /\ profiles' \in [Isins -> {"none", "fresh", "old"}]
    BY <2>1, <2>2, <2>3 DEF SecurityInv, BackfillOK
  <2>5. /\ \A j \in due' : j \in Isins /\ profiles'[j] # "fresh"
        /\ \A j \in known' : j \in Isins /\ profiles'[j] = "fresh"
    BY <2>1, <2>2 DEF SecurityInv, BackfillOK
  <2>6. \A j \in Isins : profiles'[j] = "fresh" \/ j \in tried' \cup due'
    BY <2>1, <2>2 DEF SecurityInv, BackfillOK, Backfilling
  <2>7. DatasetRowsOK' /\ DrawnOK'
    BY <2>1 DEF SecurityInv, DatasetRowsOK, DrawnOK, Security!DrawnFromSnapshot
  <2>8. BackfillOK'
    BY <2>4, <2>5, <2>6 DEF BackfillOK
  <2> QED
    BY <1>5, <2>1, <2>7, <2>8, OtherStep
<1>8. CASE (\E i \in Isins : Security!RateLimited(i)) \/ Security!PauseEnds
  <2>1. /\ thread.at \in {"call", "pause"} /\ thread'.at \in {"call", "pause"}
        /\ UNCHANGED <<stored, errors, profiles, snapshot, version, joins, refreshes, drawn, due,
                       tried, failures, known, refetched>>
    BY <1>8 DEF Security!RateLimited, Security!PauseEnds, Security!Calling, Security!storage,
                Security!joinVars, Security!fetching, Security!history
  <2>2. DatasetRowsOK' /\ BackfillOK' /\ DrawnOK'
    BY <2>1
    DEF SecurityInv, DatasetRowsOK, BackfillOK, Backfilling, DrawnOK, Security!DrawnFromSnapshot
  <2> QED
    BY <1>5, <2>1, <2>2, OtherStep
<1> QED
  BY <1>1, <1>2, <1>3, <1>4, <1>6, <1>7, <1>8 DEF Security!RefreshThread

LEMMA SecurityInit ==
  ASSUME Security!SecuritiesAssumption, Security!Init PROVE SecurityInv
<1>1. /\ refreshes = 1 /\ version = 0 /\ thread.at = "off" /\ refetched = {} /\ failures = 0
      /\ snapshot = drawn /\ snapshot = Security!NoSnapshot /\ snapshot.version = 0
      /\ joins = [t \in Security!Threads |-> Security!NoJoin] /\ due = {} /\ known = {}
  BY DEF Security!Init, Security!Off, Security!NoSnapshot
<1>2. DatasetRowsOK
  BY <1>1 DEF Security!Init, Security!SecuritiesAssumption, DatasetRowsOK
<1>3. BackfillOK
  BY <1>1 DEF Security!Init, Security!SecuritiesAssumption, BackfillOK, Backfilling
<1>4. JoinsOK /\ DrawnOK
  BY <1>1 DEF JoinsOK, Joins, DrawnOK, Security!Threads, Security!DrawnFromSnapshot
<1>5. FreshOK
  BY <1>1 DEF FreshOK, ReadsStored, Joins, Security!Threads
<1> QED
  BY <1>2, <1>3, <1>4, <1>5 DEF SecurityInv

LEMMA SecurityStep ==
  ASSUME Security!SecuritiesAssumption, SecurityInv, [Security!Next]_securityState
  PROVE  SecurityInv' /\ RowsStay
BY UiKeeps, RefreshKeeps DEF Security!Next

\* SecurityInv holds of every behaviour of the refreshes and the joins.
THEOREM SecuritiesInvariant ==
  ASSUME Security!SecuritiesAssumption PROVE Security!Spec => []SecurityInv
BY SecurityInit, SecurityStep, PTL DEF Security!Spec, securityState

\* Both threads join what is stored, and a refresh may end anywhere
\* (SecuritiesService._rebuild, _refresh_loop, FundamentalsService.backfill): no
\* two snapshots have one version, the last one holds everything stored, and a
\* backfill asks for every company that has no fresh profile, for no other.
THEOREM SecuritiesAlwaysSound ==
  ASSUME Security!SecuritiesAssumption PROVE Security!Spec => []SecuritiesSound
<1>1. ASSUME SecurityInv PROVE SecuritiesSound
  <2>1. Security!TypeOK
    <3>1. /\ refreshes \in 1 .. MaxRefreshes /\ MaxRefreshes \in Nat
          /\ stored \in [Security!AllDatasets -> 0 .. refreshes]
      BY <1>1 DEF SecurityInv, DatasetRowsOK, Security!SecuritiesAssumption
    <3>2. stored \in [Security!AllDatasets -> 0 .. MaxRefreshes]
      <4>1. 0 .. refreshes \subseteq 0 .. MaxRefreshes
        BY <3>1
      <4> QED
        BY <3>1, <4>1
    <3> QED
      BY <1>1, <3>2 DEF SecurityInv, DatasetRowsOK, BackfillOK, Security!TypeOK
  <2>2. Security!SnapshotFresh
    BY <1>1 DEF SecurityInv, FreshOK, ShowsStored, Security!SnapshotFresh, Security!Off
  <2>3. Security!EveryoneTried
    BY <1>1 DEF SecurityInv, BackfillOK, Backfilling, Security!EveryoneTried
  <2> QED
    BY <1>1, <2>1, <2>2, <2>3
    DEF SecurityInv, BackfillOK, DrawnOK, SecuritiesSound, Security!NothingRefetched
<1> QED
  BY <1>1, SecuritiesInvariant, PTL

\* A failed or cancelled refresh leaves the rows of the last good one
\* (replace_dataset, record_error).
THEOREM LastGoodRowsStay ==
  ASSUME Security!SecuritiesAssumption PROVE Security!Spec => Security!LastGoodRows
<1>1. SecurityInv /\ [Security!Next]_securityState => [RowsStay]_stored
  BY SecurityStep
<1> QED
  BY <1>1, SecuritiesInvariant, PTL
  DEF Security!Spec, securityState, Security!LastGoodRows, RowsStay

-----------------------------------------------------------------------------
(* The quotes: a worker at most has a request under way, and what the       *)
(* service remembers of its asking is what was asked.                       *)

QuotesInv ==
    /\ Quotes!TypeOK /\ sinceAsked = askAge
    /\ \A r, s \in requests : r = s

QuoteNumbers == {RefreshAfter, RequestTakes} \subseteq Nat

\* No price grows older than never.
LEMMA OlderIsAge ==
  ASSUME QuoteNumbers, NEW ages \in [Quotes!Keys -> 0 .. RefreshAfter]
  PROVE  Quotes!Older(ages) \in [Quotes!Keys -> 0 .. RefreshAfter]
BY DEF QuoteNumbers, Quotes!Older, Quotes!Never

\* Who asks finds no request under way, and asks for keys that nobody has
\* asked for lately.
LEMMA QuotesAsk ==
  ASSUME QuoteNumbers, QuotesInv, NEW keys \in SUBSET Quotes!Keys, Quotes!RefreshQuotes(keys),
         UNCHANGED <<tickAge, source>>, turn' \in {"portfolio", "info", "time"}
  PROVE  /\ QuotesInv'
         /\ \A r \in requests' \ requests :
               \A k \in r.keys : sinceAsked[k] >= RefreshAfter
<1> DEFINE stale == Quotes!Stale(keys)
           Now(ages) == [k \in Quotes!Keys |-> IF k \in stale THEN 0 ELSE ages[k]]
           new == [keys |-> stale, age |-> 0, answered |-> FALSE]
<1>1. /\ askAge \in [Quotes!Keys -> 0 .. RefreshAfter] /\ sinceAsked = askAge
      /\ tickAge \in [Quotes!Keys -> 0 .. RefreshAfter]
      /\ RefreshAfter \in Nat /\ RequestTakes \in Nat /\ inFlight = (requests # {})
  BY DEF QuotesInv, Quotes!TypeOK, Quotes!Never, QuoteNumbers
<1>2. /\ stale \in SUBSET Quotes!Keys
      /\ \A k \in stale : sinceAsked[k] >= RefreshAfter
  BY <1>1 DEF Quotes!Stale
<1>3. CASE UNCHANGED <<askAge, inFlight, requests, sinceAsked>>
  BY <1>3 DEF QuotesInv, Quotes!TypeOK
<1>4. CASE /\ ~inFlight /\ inFlight' = TRUE /\ requests' = requests \cup {new}
           /\ askAge' = Now(askAge) /\ sinceAsked' = Now(sinceAsked)
  <2>1. requests = {} /\ requests' = {new}
    BY <1>1, <1>4
  <2>2. Now(askAge) \in [Quotes!Keys -> 0 .. RefreshAfter] /\ Now(askAge) = Now(sinceAsked)
    BY <1>1
  <2>3. new \in [keys : SUBSET Quotes!Keys, age : 0 .. RequestTakes, answered : BOOLEAN]
    BY <1>1, <1>2
  <2>4. QuotesInv'
    <3>1. /\ tickAge' \in [Quotes!Keys -> 0 .. RefreshAfter]
          /\ source' \in [Quotes!Keys -> {"close", "quote", "live"}]
          /\ inFlight' = (requests' # {})
      BY <1>1, <1>4, <2>1 DEF QuotesInv, Quotes!TypeOK
    <3>2. /\ askAge' = Now(askAge) /\ sinceAsked' = askAge'
          /\ \A r, q \in requests' : r = q
      BY <1>4, <2>1, <2>2
    <3> HIDE DEF Now, new
    <3> QED
      BY <2>1, <2>2, <2>3, <3>1, <3>2 DEF QuotesInv, Quotes!TypeOK, Quotes!Never
  <2> QED
    BY <1>2, <2>1, <2>4
<1> QED
  BY <1>3, <1>4 DEF Quotes!RefreshQuotes, Quotes!Busy

\* One step of the feed, of the frame, or of a worker.
LEMMA QuotesStep ==
  ASSUME QuoteNumbers, QuotesInv, [Quotes!Next]_quoteVars
  PROVE  /\ QuotesInv'
         /\ \A r \in requests' : r.age = 0 /\ ~r.answered /\ r \notin requests
               => \A k \in r.keys : sinceAsked[k] >= RefreshAfter
<1> DEFINE Request == [keys : SUBSET Quotes!Keys, age : 0 .. RequestTakes, answered : BOOLEAN]
           Fresh == \A r \in requests' : r.age = 0 /\ ~r.answered /\ r \notin requests
                       => \A k \in r.keys : sinceAsked[k] >= RefreshAfter
<1>1. /\ {tickAge, askAge, sinceAsked} \subseteq [Quotes!Keys -> 0 .. RefreshAfter]
      /\ source \in [Quotes!Keys -> {"close", "quote", "live"}]
      /\ RefreshAfter \in Nat /\ RequestTakes \in Nat
      /\ requests \subseteq Request /\ \A r, s \in requests : r = s
  BY DEF QuotesInv, Quotes!TypeOK, Quotes!Never, QuoteNumbers
<1>2. CASE UNCHANGED quoteVars
  BY <1>2 DEF quoteVars, QuotesInv, Quotes!TypeOK
<1>3. ASSUME NEW k \in Quotes!Keys, Quotes!OnTick(k) PROVE QuotesInv' /\ Fresh
  <2>1. tickAge' \in [Quotes!Keys -> 0 .. RefreshAfter]
        /\ source' \in [Quotes!Keys -> {"close", "quote", "live"}]
    BY <1>1, <1>3 DEF Quotes!OnTick
  <2> QED
    BY <1>3, <2>1 DEF Quotes!OnTick, QuotesInv, Quotes!TypeOK, Quotes!Never
<1>4. CASE Quotes!Portfolio \/ Quotes!Info
  <2>1. PICK keys \in SUBSET Quotes!Keys : Quotes!RefreshQuotes(keys)
    BY <1>4 DEF Quotes!Portfolio, Quotes!Info, Quotes!Keys
  <2>2. UNCHANGED <<tickAge, source>> /\ turn' \in {"portfolio", "info", "time"}
    BY <1>4 DEF Quotes!Portfolio, Quotes!Info
  <2> QED
    BY <2>1, <2>2, QuotesAsk
<1>5. CASE Quotes!NextFrame
  <2> DEFINE Aged(r) == [r EXCEPT !.age = r.age + 1]
  <2>1. \A r \in requests : Aged(r) \in Request /\ Aged(r).age # 0
    BY <1>1, <1>5 DEF Quotes!NextFrame
  <2>2. requests' = {Aged(r) : r \in requests}
    BY <1>5 DEF Quotes!NextFrame
  <2>3. (requests' # {}) = (requests # {}) /\ inFlight' = inFlight /\ source' = source
        /\ turn' = "portfolio"
    BY <1>5, <2>2 DEF Quotes!NextFrame
  <2>4. /\ {tickAge', askAge', sinceAsked'} \subseteq [Quotes!Keys -> 0 .. RefreshAfter]
        /\ askAge' = sinceAsked'
    BY <1>1, <1>5, OlderIsAge DEF Quotes!NextFrame, QuotesInv
  <2>5. requests' \subseteq Request /\ (\A r, s \in requests' : r = s)
        /\ \A r \in requests' : r.age # 0
    <3> HIDE DEF Aged, Request
    <3> QED
      BY <1>1, <2>1, <2>2
  <2> QED
    BY <2>3, <2>4, <2>5 DEF QuotesInv, Quotes!TypeOK, Quotes!Never
<1>6. ASSUME NEW r \in requests, Quotes!Land(r) PROVE QuotesInv' /\ Fresh
  <2>1. requests' = {}
    BY <1>1, <1>6 DEF Quotes!Land
  <2> QED
    BY <1>6, <2>1 DEF Quotes!Land, Quotes!Landed, QuotesInv, Quotes!TypeOK
<1>7. ASSUME NEW r \in requests, NEW priced \in SUBSET r.keys, Quotes!Answered(r, priced)
      PROVE  QuotesInv' /\ Fresh
  <2> DEFINE answer == [r EXCEPT !.answered = TRUE]
  <2>1. requests' = {answer}
    BY <1>1, <1>7 DEF Quotes!Answered
  <2>2. answer \in Request /\ answer.answered
    BY <1>1
  <2>3. source' \in [Quotes!Keys -> {"close", "quote", "live"}]
    BY <1>1, <1>7 DEF Quotes!Answered
  <2>4. UNCHANGED <<tickAge, askAge, inFlight, turn, sinceAsked>> /\ requests # {}
    BY <1>7 DEF Quotes!Answered
  <2>5. requests' \subseteq Request /\ (\A q, s \in requests' : q = s) /\ requests' # {}
        /\ \A q \in requests' : q.answered
    <3> HIDE DEF answer, Request
    <3> QED
      BY <2>1, <2>2
  <2> QED
    BY <2>3, <2>4, <2>5 DEF QuotesInv, Quotes!TypeOK
<1> QED
  BY <1>2, <1>3, <1>4, <1>5, <1>6, <1>7 DEF Quotes!Next, Quotes!Frame, Quotes!Worker

\* QuotesInv holds whatever frames and answers interleave.
THEOREM QuotesInvariant == ASSUME QuoteNumbers PROVE Quotes!Spec => []QuotesInv
<1>1. ASSUME Quotes!Init PROVE QuotesInv
  <2>1. /\ [k \in Quotes!Keys |-> RefreshAfter] \in [Quotes!Keys -> 0 .. RefreshAfter]
        /\ [k \in Quotes!Keys |-> "close"] \in [Quotes!Keys -> {"close", "quote", "live"}]
    BY DEF QuoteNumbers
  <2>2. requests = {} /\ inFlight = (requests # {})
    BY <1>1 DEF Quotes!Init
  <2> QED
    BY <1>1, <2>1, <2>2 DEF Quotes!Init, QuotesInv, Quotes!TypeOK, Quotes!Never
<1>2. ASSUME QuotesInv, [Quotes!Next]_quoteVars PROVE QuotesInv'
  BY <1>2, QuotesStep
<1> QED
  BY <1>1, <1>2, PTL DEF Quotes!Spec, Quotes!vars, quoteVars

\* The quote API is asked for a price at most once in RefreshAfter frames,
\* whichever of the positions and the form asked (QUOTE_REFRESH_SECONDS).
THEOREM AlwaysOnceAMinute == ASSUME QuoteNumbers PROVE Quotes!Spec => Quotes!OnceAMinute
<1> DEFINE Fresh == \A r \in requests' : r.age = 0 /\ ~r.answered /\ r \notin requests
                       => \A k \in r.keys : sinceAsked[k] >= RefreshAfter
<1>1. ASSUME QuotesInv, [Quotes!Next]_quoteVars PROVE [Fresh]_quoteVars
  BY <1>1, QuotesStep
<1> QED
  BY <1>1, QuotesInvariant, PTL DEF Quotes!Spec, Quotes!vars, quoteVars, Quotes!OnceAMinute

-----------------------------------------------------------------------------
(* The histories.  Who claims a key has it to itself until it has asked, and *)
(* a draw that has read old candles of a key whose new ones are there has    *)
(* its fetch under way or was overtaken by its end.                          *)

Claiming(c) == asking[c] # Bars!Idle

ClaimsApart ==
    \A c \in Bars!Callers : Claiming(c) =>
       /\ asking[c].key \in attempted \ (fetching \cup asked)
       /\ \A d \in Bars!Callers \ {c} : Claiming(d) => asking[d].key # asking[c].key

FetchesKnown == fetching = {f.key : f \in fetches}

DrawHonest ==
    draw.has = "old" /\ draw.key \in current => draw.key \in fetching \cup overtaken

BarsInv ==
    /\ Bars!TypeOK /\ FetchesKnown /\ ClaimsApart /\ asked \subseteq attempted
    /\ Bars!OnceADay /\ DrawHonest /\ Bars!NothingOld

\* A claim, which no other caller holds, of what nobody asked for.
LEMMA ClaimsKeep ==
  ASSUME BarsInv,
         \/ \E c \in Bars!Callers, k \in Streamed : Bars!EnsureHistory(c, k)
         \/ \E c \in Bars!Callers : Bars!StartFetch(c)
  PROVE  BarsInv'
<1>1. /\ asking \in [Bars!Callers -> {Bars!Idle} \cup [key : Streamed, at : {"claimed"}]]
      /\ {streamed, current, attempted, fetching, overtaken, asked} \subseteq SUBSET Streamed
      /\ \A f, g \in fetches : f.key = g.key => f = g
      /\ fetches \subseteq [key : Streamed, came : {"nothing", "candles", "error"}]
      /\ FetchesKnown /\ ClaimsApart /\ asked \subseteq attempted /\ ~askedTwice
      /\ DrawHonest /\ Bars!NothingOld
  BY DEF BarsInv, Bars!TypeOK, Bars!OnceADay
<1>2. ASSUME NEW c \in Bars!Callers, NEW k \in Streamed, Bars!EnsureHistory(c, k)
      PROVE  BarsInv'
  <2>1. UNCHANGED <<current, fetching, fetches, bars, draw, overtaken, asked, askedTwice>>
    BY <1>2 DEF Bars!EnsureHistory, Bars!drawing, Bars!past
  <2>2. CASE k \in Bars!Claimed
    BY <1>1, <1>2, <2>1, <2>2
    DEF Bars!EnsureHistory, BarsInv, Bars!TypeOK, FetchesKnown, ClaimsApart, Claiming,
        Bars!OnceADay, DrawHonest, Bars!NothingOld
  <2>3. CASE k \notin Bars!Claimed
    <3> DEFINE claim == [key |-> k, at |-> "claimed"]
    <3>1. /\ attempted' = attempted \cup {k} /\ streamed' = streamed
          /\ asking' = [asking EXCEPT ![c] = claim] /\ asking[c] = Bars!Idle
          /\ k \notin attempted \cup fetching
      BY <1>2, <2>3 DEF Bars!EnsureHistory, Bars!Claimed
    <3>2. asking' \in [Bars!Callers -> {Bars!Idle} \cup [key : Streamed, at : {"claimed"}]]
      BY <1>1, <3>1
    <3>3. asking'[c].key = k /\ \A d \in Bars!Callers \ {c} : asking'[d] = asking[d]
      BY <1>1, <3>1
    <3>4. ClaimsApart'
      <4>1. ASSUME NEW d \in Bars!Callers, Claiming(d)'
            PROVE  /\ asking'[d].key \in attempted' \ (fetching' \cup asked')
                   /\ d # c => asking'[d].key # k
        BY <1>1, <2>1, <3>1, <3>3, <4>1 DEF ClaimsApart, Claiming
      <4>2. ASSUME NEW d \in Bars!Callers, NEW e \in Bars!Callers \ {d},
                   Claiming(d)', Claiming(e)'
            PROVE  asking'[d].key # asking'[e].key
        BY <1>1, <3>3, <4>1, <4>2 DEF ClaimsApart, Claiming
      <4> QED
        BY <4>1, <4>2 DEF ClaimsApart
    <3>5. Bars!TypeOK' /\ asked' \subseteq attempted'
      BY <1>1, <2>1, <3>1, <3>2 DEF BarsInv, Bars!TypeOK
    <3> QED
      BY <1>1, <2>1, <3>4, <3>5
      DEF BarsInv, FetchesKnown, Bars!OnceADay, DrawHonest, Bars!NothingOld
  <2> QED
    BY <2>2, <2>3
<1>3. ASSUME NEW c \in Bars!Callers, Bars!StartFetch(c) PROVE BarsInv'
  <2> DEFINE k == asking[c].key
             fetch == [key |-> k, came |-> "nothing"]
  <2>1. /\ k \in Streamed /\ Claiming(c)
        /\ k \in attempted /\ k \notin fetching /\ k \notin asked
    BY <1>1, <1>3 DEF Bars!StartFetch, ClaimsApart, Claiming, Bars!Idle
  <2>2. /\ UNCHANGED <<current, attempted, bars, draw, overtaken>>
        /\ streamed' = streamed \cup {k} /\ asking' = [asking EXCEPT ![c] = Bars!Idle]
    BY <1>3 DEF Bars!StartFetch, Bars!drawing
  <2>3. asking' \in [Bars!Callers -> {Bars!Idle} \cup [key : Streamed, at : {"claimed"}]]
        /\ \A d \in Bars!Callers : Claiming(d)' => d # c /\ asking'[d] = asking[d]
    BY <1>1, <2>2 DEF Claiming
  <2>4. \/ UNCHANGED <<fetching, fetches, asked, askedTwice>>
        \/ /\ fetching' = fetching \cup {k} /\ fetches' = fetches \cup {fetch}
           /\ asked' = asked \cup {k} /\ askedTwice' = FALSE
    BY <1>1, <1>3, <2>1 DEF Bars!StartFetch, Bars!past
  <2>5. fetching \subseteq fetching' /\ asked' \subseteq asked \cup {k}
        /\ fetching' \subseteq fetching \cup {k} /\ askedTwice' = FALSE
    BY <1>1, <2>4
  <2>6. ClaimsApart'
    <3>1. ASSUME NEW d \in Bars!Callers, Claiming(d)'
          PROVE  /\ Claiming(d) /\ asking'[d] = asking[d] /\ asking[d].key # k
                 /\ asking'[d].key \in attempted' \ (fetching' \cup asked')
      BY <1>1, <2>1, <2>2, <2>3, <2>5, <3>1 DEF ClaimsApart, Claiming
    <3> QED
      BY <1>1, <3>1 DEF ClaimsApart
  <2>7. /\ fetches' \subseteq [key : Streamed, came : {"nothing", "candles", "error"}]
        /\ \A f, g \in fetches' : f.key = g.key => f = g
        /\ FetchesKnown'
    <3>1. fetch \in [key : Streamed, came : {"nothing", "candles", "error"}] /\ fetch.key = k
      BY <2>1
    <3>2. \A f \in fetches : f.key # k
      BY <1>1, <2>1 DEF FetchesKnown
    <3> HIDE DEF fetch, k
    <3> QED
      BY <1>1, <2>4, <3>1, <3>2 DEF FetchesKnown
  <2>8. Bars!TypeOK' /\ asked' \subseteq attempted'
    BY <1>1, <2>1, <2>2, <2>3, <2>5, <2>7 DEF BarsInv, Bars!TypeOK
  <2> QED
    BY <1>1, <2>2, <2>5, <2>6, <2>7, <2>8
    DEF BarsInv, Bars!OnceADay, DrawHonest, Bars!NothingOld
<1> QED
  BY <1>2, <1>3

\* What a thread brings is known of before the key is no longer being fetched.
LEMMA FetchKeeps ==
  ASSUME BarsInv, NEW f \in fetches, Bars!Worker(f)
  PROVE  BarsInv'
<1> DEFINE Came(as) == [f EXCEPT !.came = as]
           FetchRecord == [key : Streamed, came : {"nothing", "candles", "error"}]
<1>1. /\ {streamed, current, attempted, fetching, overtaken, asked} \subseteq SUBSET Streamed
      /\ \A g, h \in fetches : g.key = h.key => g = h
      /\ fetches \subseteq FetchRecord /\ fetching = {g.key : g \in fetches}
      /\ bars \in [Streamed -> {"none", "old", "current"}]
      /\ FetchesKnown /\ ClaimsApart /\ asked \subseteq attempted /\ ~askedTwice
      /\ DrawHonest /\ Bars!NothingOld
  BY DEF BarsInv, Bars!TypeOK, Bars!OnceADay, FetchesKnown
<1>2. f.key \in fetching /\ f.key \in Streamed
  BY <1>1
<1>3. ASSUME NEW as \in {"candles", "error"}, fetches' = (fetches \ {f}) \cup {Came(as)},
             UNCHANGED <<streamed, asking, attempted, fetching, bars, draw, overtaken, asked,
                         askedTwice>>,
             current' \in {current, current \cup {f.key}}
      PROVE  BarsInv'
  <2>1. Came(as) \in FetchRecord /\ Came(as).key = f.key
    BY <1>1
  <2>2. /\ fetches' \subseteq FetchRecord
        /\ \A g, h \in fetches' : g.key = h.key => g = h
        /\ fetching' = {g.key : g \in fetches'}
    <3> HIDE DEF Came, FetchRecord
    <3>1. fetches' \subseteq FetchRecord
      BY <1>1, <1>3, <2>1
    <3>2. \A g, h \in fetches' : g.key = h.key => g = h
      BY <1>1, <1>3, <2>1
    <3>3. \A g \in fetches' : g.key \in {h.key : h \in fetches}
      BY <1>3, <2>1
    <3>4. \A g \in fetches : g.key \in {h.key : h \in fetches'}
      BY <1>3, <2>1
    <3>5. {h.key : h \in fetches} = {h.key : h \in fetches'}
      BY <3>3, <3>4
    <3> QED
      BY <1>1, <1>3, <3>1, <3>2, <3>5
  <2>3. Bars!TypeOK'
    <3>1. current' \subseteq Streamed
      BY <1>1, <1>2, <1>3
    <3>2. asking \in [Bars!Callers -> {Bars!Idle} \cup [key : Streamed, at : {"claimed"}]]
          /\ draw \in {Bars!NoDraw} \cup [key : Streamed, has : {"old", "current"}]
      BY DEF BarsInv, Bars!TypeOK
    <3>3. \A S \in {streamed', current', attempted', fetching', overtaken', asked'} :
             S \subseteq Streamed
      BY <1>1, <1>3, <3>1
    <3>4. asking' = asking /\ bars' = bars /\ draw' = draw
      BY <1>3
    <3> QED
      BY <1>1, <2>2, <3>2, <3>3, <3>4 DEF Bars!TypeOK
  <2>4. DrawHonest' /\ Bars!NothingOld'
    BY <1>1, <1>2, <1>3 DEF DrawHonest, Bars!NothingOld
  <2> QED
    BY <1>1, <1>3, <2>2, <2>3, <2>4
    DEF BarsInv, FetchesKnown, ClaimsApart, Claiming, Bars!OnceADay
<1>4. CASE Bars!Arrives(f)
  BY <1>3, <1>4 DEF Bars!Arrives, Bars!drawing, Bars!past
<1>5. CASE Bars!Fails(f)
  BY <1>3, <1>5 DEF Bars!Fails, Bars!drawing, Bars!past
<1>6. CASE Bars!Ends(f)
  <2>1. /\ fetches' = fetches \ {f} /\ fetching' = fetching \ {f.key}
        /\ bars' = [bars EXCEPT ![f.key] = "none"]
        /\ overtaken' = IF draw.key = f.key THEN overtaken \cup {f.key} ELSE overtaken
        /\ UNCHANGED <<streamed, asking, current, attempted, draw, asked, askedTwice>>
    BY <1>6 DEF Bars!Ends, Bars!Discarded, Bars!PoppedBars, Bars!past
  <2>2. fetching' = {g.key : g \in fetches'}
    BY <1>1, <2>1
  <2>3. DrawHonest' /\ Bars!NothingOld'
    BY <1>1, <1>2, <2>1 DEF DrawHonest, Bars!NothingOld
  <2>4. Bars!TypeOK'
    BY <1>1, <1>2, <2>1 DEF BarsInv, Bars!TypeOK
  <2>5. ClaimsApart'
    BY <1>1, <2>1 DEF ClaimsApart, Claiming
  <2> QED
    BY <1>1, <2>1, <2>2, <2>3, <2>4, <2>5 DEF BarsInv, FetchesKnown, Bars!OnceADay
<1> QED
  BY <1>4, <1>5, <1>6 DEF Bars!Worker

\* The tab's own steps, and midnight.
LEMMA DrawKeeps ==
  ASSUME BarsInv,
         \/ \E k \in Streamed : Bars!Unsubscribe(k) \/ Bars!ReadBars(k)
         \/ Bars!KeepBars \/ Bars!SaveSettings \/ Bars!NextDay \/ UNCHANGED barVars
  PROVE  BarsInv'
<1>1. /\ {streamed, current, attempted, fetching, overtaken, asked} \subseteq SUBSET Streamed
      /\ bars \in [Streamed -> {"none", "old", "current"}]
      /\ draw \in {Bars!NoDraw} \cup [key : Streamed, has : {"old", "current"}]
      /\ FetchesKnown /\ ClaimsApart /\ asked \subseteq attempted /\ ~askedTwice
      /\ DrawHonest /\ Bars!NothingOld
  BY DEF BarsInv, Bars!TypeOK, Bars!OnceADay
<1>2. ASSUME UNCHANGED <<asking, attempted, fetching, fetches, asked, askedTwice>>,
             streamed' \subseteq Streamed, current' = current, overtaken' \subseteq overtaken,
             bars' \in [Streamed -> {"none", "old", "current"}],
             draw' \in {Bars!NoDraw} \cup [key : Streamed, has : {"old", "current"}],
             DrawHonest' /\ Bars!NothingOld'
      PROVE  BarsInv'
  BY <1>1, <1>2
  DEF BarsInv, Bars!TypeOK, FetchesKnown, ClaimsApart, Claiming, Bars!OnceADay
<1>3. ASSUME NEW k \in Streamed, Bars!Unsubscribe(k) PROVE BarsInv'
  BY <1>1, <1>2, <1>3
  DEF Bars!Unsubscribe, Bars!drawing, Bars!past, DrawHonest, Bars!NothingOld
<1>4. ASSUME NEW k \in Streamed, Bars!ReadBars(k) PROVE BarsInv'
  <2>1. /\ bars[k] = "none" /\ overtaken' = overtaken \ {k}
        /\ draw' = [key |-> k, has |-> IF k \in current THEN "current" ELSE "old"]
        /\ UNCHANGED <<streamed, asking, current, attempted, fetching, fetches, bars, asked,
                       askedTwice>>
    BY <1>4 DEF Bars!ReadBars, Bars!past
  <2>2. DrawHonest' /\ Bars!NothingOld'
    BY <1>1, <2>1 DEF DrawHonest, Bars!NothingOld
  <2>3. draw' \in [key : Streamed, has : {"old", "current"}]
    BY <2>1
  <2> QED
    BY <1>1, <1>2, <2>1, <2>2, <2>3
<1>5. CASE Bars!KeepBars
  <2>1. /\ bars' = [bars EXCEPT ![draw.key] = draw.has] /\ draw' = Bars!NoDraw
        /\ draw \in [key : Streamed, has : {"old", "current"}]
        /\ UNCHANGED <<streamed, asking, current, attempted, fetching, fetches, overtaken, asked,
                       askedTwice>>
    BY <1>1, <1>5 DEF Bars!KeepBars, Bars!past
  <2>2. DrawHonest' /\ Bars!NothingOld'
    BY <1>1, <2>1 DEF DrawHonest, Bars!NothingOld, Bars!NoDraw
  <2>3. bars' \in [Streamed -> {"none", "old", "current"}]
    BY <1>1, <2>1
  <2> QED
    BY <1>1, <1>2, <2>1, <2>2, <2>3
<1>6. CASE Bars!SaveSettings
  BY <1>1, <1>2, <1>6 DEF Bars!SaveSettings, Bars!past, DrawHonest, Bars!NothingOld
<1>7. CASE Bars!NextDay
  <2>1. /\ current' = {} /\ attempted' = {} /\ overtaken' = {} /\ asked' = {}
        /\ bars' \in [Streamed -> {"none"}] /\ \A c \in Bars!Callers : ~Claiming(c)
        /\ UNCHANGED <<streamed, asking, fetching, fetches, draw, askedTwice>>
    BY <1>7 DEF Bars!NextDay, Claiming
  <2>2. Bars!TypeOK'
    BY <1>1, <2>1 DEF BarsInv, Bars!TypeOK
  <2> QED
    BY <1>1, <2>1, <2>2
    DEF BarsInv, FetchesKnown, ClaimsApart, Claiming, Bars!OnceADay, DrawHonest, Bars!NothingOld
<1>8. CASE UNCHANGED barVars
  BY <1>1, <1>2, <1>8 DEF barVars, DrawHonest, Bars!NothingOld
<1> QED
  BY <1>3, <1>4, <1>5, <1>6, <1>7, <1>8

\* BarsInv holds whatever claims, fetches and draws interleave.
THEOREM BarsInvariant == Bars!Spec => []BarsInv
<1>1. ASSUME Bars!Init PROVE BarsInv
  BY <1>1
  DEF Bars!Init, BarsInv, Bars!TypeOK, FetchesKnown, ClaimsApart, Claiming, Bars!OnceADay,
      DrawHonest, Bars!NothingOld, Bars!NoDraw
<1>2. ASSUME BarsInv, [Bars!Next]_barVars PROVE BarsInv'
  BY <1>2, ClaimsKeep, FetchKeeps, DrawKeeps DEF Bars!Next
<1> QED
  BY <1>1, <1>2, PTL DEF Bars!Spec, Bars!vars, barVars

\* What a position is valued with, whatever the workers' and the tab's order
\* (RiskService._refresh_quotes, _ensure_history, _fetch_history and _history):
\* one request for quotes at a time; a history is pending as long as its one
\* thread, is asked for once a day, and no older bars are drawn once it came,
\* unless its end fell between a draw's read and its write.
THEOREM PricesAlwaysSound ==
  ASSUME QuoteNumbers PROVE Quotes!Spec /\ Bars!Spec => []PricesSound
<1> \A S : Quotes!Cardinality(S) = Cardinality(S) /\ Bars!Cardinality(S) = Cardinality(S)
  BY DEF Quotes!Cardinality, Bars!Cardinality, Cardinality
<1>1. ASSUME QuotesInv PROVE Quotes!TypeOK /\ Quotes!OneAtATime
  <2>1. requests = {} \/ \E r \in requests : requests = {r}
    <3>1. \A r \in requests : requests = {r}
      BY <1>1 DEF QuotesInv
    <3> QED
      BY <3>1
  <2>2. Cardinality(requests) \in {0, 1}
    BY <2>1, FS_EmptySet, FS_Singleton
  <2> QED
    BY <1>1, <2>2 DEF QuotesInv, Quotes!OneAtATime
<1>2. ASSUME BarsInv PROVE Bars!PendingHonest
  <2> SUFFICES ASSUME NEW k \in Streamed
               PROVE  Cardinality({f \in fetches : f.key = k})
                         = IF k \in fetching THEN 1 ELSE 0
    BY DEF Bars!PendingHonest
  <2>1. (\A f, g \in fetches : f.key = g.key => f = g) /\ FetchesKnown
    BY <1>2 DEF BarsInv, Bars!TypeOK
  <2>2. CASE k \in fetching
    <3>1. PICK f \in fetches : f.key = k
      BY <2>1, <2>2 DEF FetchesKnown
    <3>2. {g \in fetches : g.key = k} = {f}
      BY <2>1, <3>1
    <3> QED
      BY <2>2, <3>2, FS_Singleton
  <2>3. CASE k \notin fetching
    <3>1. {f \in fetches : f.key = k} = {}
      BY <2>1, <2>3 DEF FetchesKnown
    <3> QED
      BY <2>3, <3>1, FS_EmptySet
  <2> QED
    BY <2>2, <2>3
<1>3. ASSUME QuotesInv, BarsInv PROVE PricesSound
  BY <1>1, <1>2, <1>3 DEF BarsInv, PricesSound
<1> QED
  BY <1>3, QuotesInvariant, BarsInvariant, PTL

\* Nothing that was done is undone by what comes late, fails or is cancelled: a
\* deleted item stays deleted, rows that were stored stay, and no key is asked
\* for twice a minute (SavedResult, KeepRows, _refresh_quotes).
THEOREM NothingIsUndone ==
  ASSUME ChartinkAssumption, Security!SecuritiesAssumption, QuoteNumbers
  PROVE  Spec /\ Security!Spec /\ Quotes!Spec => NothingUndone
BY NothingReturns, LastGoodRowsStay, AlwaysOnceAMinute DEF NothingUndone
=============================================================================
