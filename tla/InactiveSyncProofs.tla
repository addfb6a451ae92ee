------------------------- MODULE InactiveSyncProofs -------------------------
(***************************************************************************)
(* No customer and no outcome of a run is lost and no outcome is asked for  *)
(* again, for any processes and customers and any number of runs and        *)
(* failures.                                                               *)
(***************************************************************************)
EXTENDS InactiveSync, TLAPS

-----------------------------------------------------------------------------
Identity(run) == [generated |-> run.generated, customers |-> DOMAIN run.items]
Reported(t) == t \in Times /\ reports[t] # NONE

\* The flock: exactly its holder works.
LockInv == \A p \in Processes : pc[p] # "idle" <=> lock = p

\* A run is begun once for each reading of the clock.
BegunInv ==
  /\ \A run \in begun : run.generated <= now
  /\ \A run, other \in begun : run.generated = other.generated => run = other

\* The run in the file: once it is complete no report is later, and the one of
\* its time, if it is written, is its own.
FileInv ==
  Whole =>
    /\ Identity(database) \in begun
    /\ database.completed = NONE => \A t \in Times : Reported(t) => t < now
    /\ database.completed # NONE =>
         /\ Pending(database) = {} /\ database.completed <= now
         /\ \A t \in Times : Reported(t) => t <= database.completed
         /\ reports[database.completed] \in {NONE, database}

\* A report is of a run that was begun, and what the file says if it is still
\* there.
ReportsInv ==
  \A t \in Times : Reported(t) =>
    /\ reports[t].completed = t /\ t <= now
    /\ Pending(reports[t]) = {}
    /\ Identity(reports[t]) \in begun
    /\ Whole /\ database.generated = reports[t].generated => database = reports[t]

OneReport ==
  \A t, u \in Times :
    Reported(t) /\ Reported(u) /\ reports[t].generated = reports[u].generated => t = u

LatestInv ==
  ~Whole => \A t \in Times : Reported(t) => latest # NONE /\ latest.completed >= t

DataInv == BegunInv /\ FileInv /\ ReportsInv /\ OneReport /\ LatestInv /\ NothingLost

\* What a process has established where it is.
PlaceInv(p) ==
  /\ pc[p] # "idle" => now \in Times
  /\ pc[p] \in {"open", "collect", "create", "fill"} =>
       /\ \A t \in Times : Reported(t) => t < now
       /\ \A run \in begun : run.generated < now
  /\ pc[p] \in {"collect", "create"} => database = ABSENT
  /\ pc[p] = "fill" => database = PARTIAL
  /\ pc[p] = "token" => Whole /\ list[p] = Pending(database)
  /\ pc[p] \in {"report", "latest", "remove"} =>
       Whole /\ loaded[p] = database /\ database.completed # NONE
  /\ pc[p] \in {"latest", "remove"} => reports[database.completed] = database
  /\ pc[p] = "remove" => latest = database

IInv == TypeOK /\ LockInv /\ DataInv /\ \A p \in Processes : PlaceInv(p)

-----------------------------------------------------------------------------
LEMMA ConstantsFact ==
  /\ MaxLaunches \in Nat /\ Times \subseteq Nat
  /\ ABSENT \notin Run /\ PARTIAL \notin Run /\ NONE \notin Run /\ ABSENT # PARTIAL
  /\ NONE \notin Processes /\ NONE \notin Times
BY InactiveSyncAssumption DEF MaxLaunches, Times

LEMMA NumbersFact == TypeOK => now \in Nat /\ \A t \in Times : t \in Nat /\ t # NONE
<1>1. 0..MaxLaunches \subseteq Nat
  BY ConstantsFact
<1> QED
  BY <1>1, ConstantsFact DEF TypeOK

LEMMA ItemsFact ==
  /\ \A f \in Items : f \in [DOMAIN f -> Statuses] /\ DOMAIN f \subseteq Customers
  /\ \A C \in SUBSET Customers : [C -> Statuses] \subseteq Items
BY DEF Items

\* A file that is whole holds a run.
LEMMA WholeFact ==
  ASSUME TypeOK
  PROVE  /\ Whole <=> database \in Run
         /\ Whole => /\ database.generated \in Times /\ database.completed \in Times \cup {NONE}
                     /\ database.items \in Items
                     /\ DOMAIN database.items \subseteq Customers
                     /\ database.items \in [DOMAIN database.items -> Statuses]
<1>1. Whole <=> database \in Run
  BY ConstantsFact DEF TypeOK, Whole
<1>2. Whole => /\ database.generated \in Times /\ database.completed \in Times \cup {NONE}
               /\ database.items \in Items
  BY <1>1 DEF Run
<1> QED
  BY <1>1, <1>2, ItemsFact

-----------------------------------------------------------------------------
LEMMA InitEstablishes == Init => IInv
<1> SUFFICES ASSUME Init PROVE IInv
  OBVIOUS
<1> USE ConstantsFact, InactiveSyncAssumption DEF Init
<1>1. TypeOK
  BY DEF TypeOK, PCs
<1>2. LockInv
  BY DEF LockInv
<1>3. DataInv
  BY DEF DataInv, BegunInv, FileInv, ReportsInv, OneReport, LatestInv, NothingLost, Whole,
         Reported
<1>4. \A p \in Processes : PlaceInv(p)
  BY DEF PlaceInv
<1> QED
  BY <1>1, <1>2, <1>3, <1>4 DEF IInv

-----------------------------------------------------------------------------
LEMMA SavedItems ==
  ASSUME TypeOK, Whole, NEW batch \in Items
  PROVE  [c \in DOMAIN database.items |->
            IF c \in DOMAIN batch THEN batch[c] ELSE database.items[c]]
           \in [DOMAIN database.items -> Statuses]
BY WholeFact, ItemsFact

LEMMA FilledRun ==
  ASSUME TypeOK, NEW p \in Processes, PlaceInv(p), FillFile(p)
  PROVE  database' \in Run
<1>1. now \in Times
  BY DEF FillFile, PlaceInv
<1>2. [c \in list[p] |-> "pending"] \in Items
  <2>1. [c \in list[p] |-> "pending"] \in [list[p] -> Statuses] /\ list[p] \in SUBSET Customers
    BY DEF TypeOK, Statuses
  <2> QED
    BY <2>1, ItemsFact
<1> QED
  BY <1>1, <1>2 DEF FillFile, Run

LEMMA SavedRun ==
  ASSUME TypeOK, NEW p \in Processes, NEW batch \in Batches(p), SaveResults(p, batch),
         DOMAIN batch \subseteq Pending(database)
  PROVE  database' \in Run
<1> DEFINE items == [c \in DOMAIN database.items |->
                       IF c \in DOMAIN batch THEN batch[c] ELSE database.items[c]]
<1>1. Whole /\ batch \in Items /\ database' = [database EXCEPT !.items = items]
  BY DEF SaveResults, Batches
<1>2. items \in Items
  BY <1>1, SavedItems, WholeFact, ItemsFact
<1> HIDE DEF items
<1> QED
  BY <1>1, <1>2, WholeFact DEF Run

LEMMA TypeStep ==
  TypeOK /\ (\A p \in Processes : PlaceInv(p)) /\ [Next]_vars => TypeOK'
<1> SUFFICES ASSUME TypeOK, \A p \in Processes : PlaceInv(p), [Next]_vars PROVE TypeOK'
  OBVIOUS
<1> USE ConstantsFact DEF TypeOK, PCs, files, locals
<1>1. ASSUME NEW p \in Processes, Launch(p) PROVE TypeOK'
  BY <1>1 DEF Launch, Goto
<1>2. ASSUME NEW p \in Processes, Open(p) PROVE TypeOK'
  BY <1>2 DEF Open, Goto
<1>3. ASSUME NEW p \in Processes, NEW C \in SUBSET Customers, Collect(p, C) PROVE TypeOK'
  BY <1>3 DEF Collect, Goto
<1>4. ASSUME NEW p \in Processes, CreateFile(p) PROVE TypeOK'
  BY <1>4 DEF CreateFile, Goto
<1>5. ASSUME NEW p \in Processes, FillFile(p) PROVE TypeOK'
  <2>1. now \in Times
    BY <1>5 DEF FillFile, PlaceInv
  <2>3. database' \in Run
    BY <1>5, FilledRun
  <2>4. begun' \subseteq [generated : Times, customers : SUBSET Customers]
    BY <1>5, <2>1 DEF FillFile
  <2> QED
    BY <1>5, <2>3, <2>4 DEF FillFile, Goto
<1>6. ASSUME NEW p \in Processes, CreateFails(p) PROVE TypeOK'
  BY <1>6, InactiveSyncAssumption DEF CreateFails, Deviates, End, Goto
<1>7. ASSUME NEW p \in Processes, StoreUnusable(p) PROVE TypeOK'
  BY <1>7 DEF StoreUnusable, End, Goto
<1>8. ASSUME NEW p \in Processes, LoadPending(p) PROVE TypeOK'
  <2>1. Pending(database) \subseteq Customers
    BY <1>8, WholeFact DEF LoadPending, Pending
  <2> QED
    BY <1>8, <2>1 DEF LoadPending, Goto
<1>9. ASSUME NEW p \in Processes, HandOver(p) PROVE TypeOK'
  BY <1>9 DEF HandOver, Goto
<1>10. ASSUME NEW p \in Processes, NEW batch \in Batches(p), SaveResults(p, batch)
       PROVE  TypeOK'
  <2>1. CASE DOMAIN batch \subseteq Pending(database)
    BY <1>10, <2>1, SavedRun DEF SaveResults
  <2>2. CASE ~(DOMAIN batch \subseteq Pending(database))
    BY <1>10, <2>2, InactiveSyncAssumption DEF SaveResults, Deviates, End, Goto
  <2> QED
    BY <2>1, <2>2
<1>11. ASSUME NEW p \in Processes, GatewayEnds(p) PROVE TypeOK'
  BY <1>11, InactiveSyncAssumption DEF GatewayEnds, Deviates, Goto
<1>12. ASSUME NEW p \in Processes, Complete(p) PROVE TypeOK'
  <2>1. CASE Pending(database) = {}
    <3>1. now \in Times /\ database \in Run
      BY <1>12, WholeFact DEF Complete, PlaceInv
    <3>2. database' \in Run
      BY <1>12, <2>1, <3>1 DEF Complete, Run
    <3> QED
      BY <1>12, <2>1, <3>2 DEF Complete, Goto
  <2>2. CASE Pending(database) # {}
    BY <1>12, <2>2 DEF Complete, End, Goto
  <2> QED
    BY <2>1, <2>2
<1>13. ASSUME NEW p \in Processes, LoadRun(p) PROVE TypeOK'
  BY <1>13, WholeFact DEF LoadRun, Goto
<1>14. ASSUME NEW p \in Processes, WriteReport(p) PROVE TypeOK'
  <2>1. loaded[p] \in Run
    BY <1>14, WholeFact DEF WriteReport, PlaceInv
  <2> QED
    BY <1>14, <2>1 DEF WriteReport, Goto
<1>15. ASSUME NEW p \in Processes, WriteLatest(p) PROVE TypeOK'
  BY <1>15 DEF WriteLatest, Goto
<1>16. ASSUME NEW p \in Processes, RemoveFile(p) PROVE TypeOK'
  BY <1>16 DEF RemoveFile, Goto
<1>17. ASSUME NEW p \in Processes, Unlock(p) PROVE TypeOK'
  BY <1>17 DEF Unlock, End, Goto
<1>18. ASSUME NEW p \in Processes, Crash(p) PROVE TypeOK'
  BY <1>18, InactiveSyncAssumption DEF Crash, Deviates, End, Goto
<1>19. CASE UNCHANGED vars
  BY <1>19 DEF vars
<1> QED
  BY <1>1, <1>2, <1>3, <1>4, <1>5, <1>6, <1>7, <1>8, <1>9, <1>10, <1>11, <1>12, <1>13, <1>14,
     <1>15, <1>16, <1>17, <1>18, <1>19 DEF Next, Work

-----------------------------------------------------------------------------
(* The lock.                                                               *)

LEMMA LockStep == TypeOK /\ LockInv /\ [Next]_vars => LockInv'
<1> SUFFICES ASSUME TypeOK, LockInv, [Next]_vars PROVE LockInv'
  OBVIOUS
<1> USE ConstantsFact DEF TypeOK, LockInv
\* The holder goes on.
<1>1. ASSUME NEW p \in Processes, NEW place, pc[p] # "idle", place # "idle",
             Goto(p, place), UNCHANGED lock
      PROVE  LockInv'
  BY <1>1 DEF Goto
\* The holder ends.
<1>2. ASSUME NEW p \in Processes, pc[p] # "idle", End(p) PROVE LockInv'
  BY <1>2 DEF End, Goto
<1>3. ASSUME NEW p \in Processes, Launch(p) PROVE LockInv'
  BY <1>3 DEF Launch, Goto
<1>4. ASSUME NEW p \in Processes, CreateFails(p) \/ StoreUnusable(p) \/ Unlock(p) \/ Crash(p)
      PROVE  LockInv'
  BY <1>2, <1>4 DEF CreateFails, StoreUnusable, Unlock, Crash
<1>5. ASSUME NEW p \in Processes,
             \/ Open(p) \/ CreateFile(p) \/ FillFile(p) \/ LoadPending(p) \/ HandOver(p)
             \/ GatewayEnds(p) \/ LoadRun(p) \/ WriteReport(p) \/ WriteLatest(p) \/ RemoveFile(p)
             \/ \E C \in SUBSET Customers : Collect(p, C)
      PROVE  LockInv'
  <2>1. pc[p] # "idle" /\ UNCHANGED lock
    BY <1>5 DEF Open, CreateFile, FillFile, LoadPending, HandOver, GatewayEnds, LoadRun,
                WriteReport, WriteLatest, RemoveFile, Collect
  <2>2. \E place \in PCs \ {"idle"} : Goto(p, place)
    BY <1>5 DEF Open, CreateFile, FillFile, LoadPending, HandOver, GatewayEnds, LoadRun,
                WriteReport, WriteLatest, RemoveFile, Collect, PCs
  <2> QED
    BY <1>1, <2>1, <2>2
<1>6. ASSUME NEW p \in Processes, NEW batch \in Batches(p), SaveResults(p, batch) PROVE LockInv'
  <2>1. CASE DOMAIN batch \subseteq Pending(database)
    BY <1>6, <2>1 DEF SaveResults
  <2>2. CASE ~(DOMAIN batch \subseteq Pending(database))
    BY <1>2, <1>6, <2>2 DEF SaveResults
  <2> QED
    BY <2>1, <2>2
<1>7. ASSUME NEW p \in Processes, Complete(p) PROVE LockInv'
  <2>1. CASE Pending(database) = {}
    BY <1>1, <1>7, <2>1 DEF Complete
  <2>2. CASE Pending(database) # {}
    BY <1>2, <1>7, <2>2 DEF Complete
  <2> QED
    BY <2>1, <2>2
<1>8. CASE UNCHANGED vars
  BY <1>8 DEF vars
<1> QED
  BY <1>3, <1>4, <1>5, <1>6, <1>7, <1>8 DEF Next, Work

\* While one process works the others are idle, and idle ones have nothing to
\* establish.
LEMMA OnlyHolder ==
  ASSUME TypeOK, LockInv, LockInv', NEW p \in Processes, pc[p] # "idle" \/ pc'[p] # "idle",
         \A q \in Processes \ {p} : pc'[q] = pc[q], PlaceInv(p)'
  PROVE  \A q \in Processes : PlaceInv(q)'
<1>1. \A q \in Processes \ {p} : pc'[q] = "idle"
  BY ConstantsFact DEF LockInv
<1> QED
  BY <1>1 DEF PlaceInv

-----------------------------------------------------------------------------
(* The file and the reports, action by action.                             *)

\* Steps that leave the files, the clock and the history alone.
LEMMA DataUntouched ==
  ASSUME DataInv, UNCHANGED <<files, now, begun>>
  PROVE  DataInv'
BY DEF DataInv, BegunInv, FileInv, ReportsInv, OneReport, LatestInv, NothingLost, Whole,
       Identity, Pending, Reported, Reports, files

\* The clock goes on.
LEMMA DataLater ==
  ASSUME TypeOK, DataInv, UNCHANGED <<files, begun>>, now' \in Nat, now' >= now
  PROVE  DataInv'
<1> USE ConstantsFact DEF TypeOK, files
<1>1. /\ Whole' <=> Whole /\ \A t : Reported(t)' <=> Reported(t)
      /\ UNCHANGED <<database, reports, latest, begun>>
  BY DEF Whole, Reported
<1>2. BegunInv'
  <2>1. \A run \in begun : run.generated \in Nat
    OBVIOUS
  <2> QED
    BY <1>1, <2>1 DEF DataInv, BegunInv
<1>3. FileInv'
  <2> SUFFICES ASSUME Whole PROVE FileInv'
    BY <1>1 DEF FileInv
  <2>1. \A t \in Times : t < now => t < now'
    OBVIOUS
  <2>2. database.completed # NONE /\ database.completed <= now => database.completed <= now'
    <3> SUFFICES ASSUME database.completed # NONE, database.completed <= now
                 PROVE  database.completed <= now'
      OBVIOUS
    <3>1. database.completed \in Nat
      BY WholeFact
    <3>2. now \in Nat
      BY NumbersFact
    <3> QED
      BY <3>1, <3>2
  <2>3. Identity(database)' = Identity(database) /\ Pending(database)' = Pending(database)
    BY <1>1 DEF Identity, Pending
  <2> QED
    BY <1>1, <2>1, <2>2, <2>3 DEF DataInv, FileInv
<1>4. ReportsInv'
  BY <1>1 DEF DataInv, ReportsInv, Identity, Pending, Reported
<1>5. OneReport' /\ LatestInv' /\ NothingLost'
  BY <1>1 DEF DataInv, OneReport, LatestInv, NothingLost, Reports, Pending, Whole, Reported
<1> QED
  BY <1>2, <1>3, <1>4, <1>5 DEF DataInv

\* A file without a run is created or removed.
LEMMA DataPartial ==
  ASSUME TypeOK, DataInv, ~Whole, database' \in {ABSENT, PARTIAL},
         UNCHANGED <<reports, latest, now, begun>>
  PROVE  DataInv'
<1>1. ~Whole'
  BY DEF Whole
<1>2. BegunInv' /\ FileInv' /\ OneReport' /\ LatestInv'
  BY <1>1 DEF DataInv, BegunInv, FileInv, OneReport, LatestInv, Reported
<1>3. ReportsInv'
  BY <1>1 DEF DataInv, ReportsInv, Identity, Pending, Reported
<1>4. NothingLost'
  BY <1>1 DEF DataInv, NothingLost, Reports, Pending
<1> QED
  BY <1>2, <1>3, <1>4 DEF DataInv

LEMMA DataFilled ==
  ASSUME TypeOK, TypeOK', DataInv, NEW p \in Processes, PlaceInv(p), FillFile(p)
  PROVE  DataInv'
<1> USE ConstantsFact DEF TypeOK
<1>1. /\ now \in Times /\ ~Whole
      /\ \A t \in Times : Reported(t) => t < now
      /\ \A run \in begun : run.generated < now
  BY DEF FillFile, PlaceInv, Whole
<1>2. /\ database'.generated = now /\ database'.completed = NONE
      /\ DOMAIN database'.items = list[p]
      /\ begun' = begun \cup {[generated |-> now, customers |-> list[p]]}
      /\ UNCHANGED <<reports, latest, now>>
  BY DEF FillFile
<1>3. /\ Identity(database') = [generated |-> now, customers |-> list[p]]
      /\ Whole'
      /\ \A t : Reported(t)' <=> Reported(t)
  <2>1. Whole'
    BY FilledRun DEF Whole
  <2>2. \A t : Reported(t)' <=> Reported(t)
    BY <1>2 DEF Reported
  <2>3. Identity(database') = [generated |-> now, customers |-> list[p]]
    BY <1>2 DEF Identity
  <2> QED
    BY <2>1, <2>2, <2>3
<1>4. \A run \in begun : run.generated \in Nat
  OBVIOUS
<1>5. BegunInv'
  BY <1>1, <1>2, <1>4 DEF DataInv, BegunInv
<1>6. FileInv'
  <2>1. Identity(database)' \in begun'
    BY <1>2, <1>3 DEF Identity
  <2> QED
    BY <1>1, <1>2, <1>3, <2>1 DEF FileInv
<1>7. ReportsInv'
  <2> SUFFICES ASSUME NEW t \in Times, Reported(t)
               PROVE  /\ reports[t].completed = t /\ t <= now
                      /\ Pending(reports[t]) = {}
                      /\ Identity(reports[t]) \in begun'
                      /\ database'.generated # reports[t].generated
    BY <1>2, <1>3 DEF ReportsInv, Identity, Pending
  <2>1. /\ reports[t].completed = t /\ t <= now /\ Pending(reports[t]) = {}
        /\ Identity(reports[t]) \in begun
    BY DEF DataInv, ReportsInv
  <2>2. reports[t].generated < now
    BY <1>1, <2>1 DEF Identity
  <2> QED
    BY <1>1, <1>2, <2>1, <2>2
<1>8. OneReport' /\ LatestInv'
  BY <1>2, <1>3 DEF DataInv, OneReport, LatestInv
<1>9. NothingLost'
  <2> SUFFICES ASSUME NEW run \in begun'
               PROVE  \/ Whole' /\ database'.generated = run.generated
                           /\ DOMAIN database'.items = run.customers
                      \/ \E t \in Times : Reports(reports[t], run)
    BY <1>2 DEF NothingLost, Reports, Pending
  <2>1. CASE run \in begun
    BY <1>1, <2>1 DEF DataInv, NothingLost
  <2>2. CASE run \notin begun
    BY <1>2, <1>3, <2>2
  <2> QED
    BY <2>1, <2>2
<1> QED
  BY <1>5, <1>6, <1>7, <1>8, <1>9 DEF DataInv

\* Results are recorded in a run that is not complete.
LEMMA DataSaved ==
  ASSUME TypeOK, TypeOK', DataInv, NEW p \in Processes, NEW batch \in Batches(p),
         SaveResults(p, batch), DOMAIN batch \subseteq Pending(database)
  PROVE  DataInv'
<1> USE ConstantsFact DEF TypeOK
<1>1. Whole /\ database \in Run /\ Pending(database) # {} /\ database.completed = NONE
  BY WholeFact DEF SaveResults, Batches, DataInv, FileInv
<1>2. /\ database'.generated = database.generated /\ database'.completed = NONE
      /\ DOMAIN database'.items = DOMAIN database.items
      /\ UNCHANGED <<reports, latest, now, begun>>
  BY <1>1 DEF SaveResults, Run
<1>3. /\ Whole' /\ Identity(database)' = Identity(database)
      /\ \A t : Reported(t)' <=> Reported(t)
  <2>1. database' \in Run
    BY SavedRun
  <2> QED
    BY <1>2, <2>1 DEF Whole, Identity, Reported
<1>4. FileInv'
  BY <1>1, <1>2, <1>3 DEF DataInv, FileInv
<1>5. ASSUME NEW t \in Times, Reported(t) PROVE database.generated # reports[t].generated
  BY <1>1, <1>5 DEF DataInv, ReportsInv
<1>6. ReportsInv'
  BY <1>2, <1>3, <1>5 DEF DataInv, ReportsInv, Identity, Pending
<1>7. BegunInv' /\ OneReport' /\ LatestInv'
  BY <1>2, <1>3 DEF DataInv, BegunInv, OneReport, LatestInv
<1>8. NothingLost'
  <2>1. reports' = reports /\ begun' = begun
    BY <1>2
  <2> SUFFICES ASSUME NEW run \in begun
               PROVE  \/ Whole' /\ database'.generated = run.generated
                           /\ DOMAIN database'.items = run.customers
                      \/ \E t \in Times : Reports(reports[t], run)
    BY <2>1 DEF NothingLost, Reports, Pending
  <2> QED
    BY <1>1, <1>2, <1>3 DEF DataInv, NothingLost
<1> QED
  BY <1>4, <1>6, <1>7, <1>8 DEF DataInv

LEMMA DataCompleted ==
  ASSUME TypeOK, TypeOK', DataInv, NEW p \in Processes, PlaceInv(p), Complete(p),
         Pending(database) = {}
  PROVE  DataInv'
<1> USE ConstantsFact DEF TypeOK
<1>1. Whole /\ database \in Run /\ now \in Times
  BY WholeFact DEF Complete, PlaceInv
<1>2. CASE database.completed # NONE
  <2>1. database' = database
    BY <1>1, <1>2 DEF Complete, Run
  <2> QED
    BY <2>1, DataUntouched DEF Complete, files
<1>3. CASE database.completed = NONE
  <2>1. /\ database'.generated = database.generated /\ database'.completed = now
        /\ database'.items = database.items
        /\ UNCHANGED <<reports, latest, now, begun>>
    BY <1>1, <1>3 DEF Complete, Run
  <2>2. /\ Whole' /\ Identity(database)' = Identity(database)
        /\ Pending(database)' = {}
        /\ \A t : Reported(t)' <=> Reported(t)
    <3>1. database' \in Run
      BY <1>1, <1>3 DEF Complete, Run
    <3> QED
      BY <2>1, <3>1 DEF Whole, Identity, Pending, Reported
  <2>3. \A t \in Times : Reported(t) => t < now
    BY <1>1, <1>3 DEF DataInv, FileInv
  <2>4. FileInv'
    <3>1. \A t \in Times : Reported(t) => t <= now
      BY <2>3
    <3>2. reports[now] = NONE
      BY <1>1, <2>3 DEF Reported
    <3> QED
      BY <1>1, <2>1, <2>2, <3>1, <3>2 DEF DataInv, FileInv
  <2>5. ASSUME NEW t \in Times, Reported(t) PROVE database.generated # reports[t].generated
    BY <1>1, <1>3, <2>5 DEF DataInv, ReportsInv
  <2>6. ReportsInv'
    BY <2>1, <2>2, <2>5 DEF DataInv, ReportsInv, Identity, Pending
  <2>7. BegunInv' /\ OneReport' /\ LatestInv'
    BY <2>1, <2>2 DEF DataInv, BegunInv, OneReport, LatestInv
  <2>8. NothingLost'
    <3> SUFFICES ASSUME NEW run \in begun'
                 PROVE  \/ Whole' /\ database'.generated = run.generated
                             /\ DOMAIN database'.items = run.customers
                        \/ \E t \in Times : Reports(reports[t], run)
      BY <2>1 DEF NothingLost, Reports, Pending
    <3> QED
      BY <1>1, <2>1, <2>2 DEF DataInv, NothingLost
  <2> QED
    BY <2>4, <2>6, <2>7, <2>8 DEF DataInv
<1> QED
  BY <1>2, <1>3

\* The report replaces nothing but an earlier copy of itself.
LEMMA DataReported ==
  ASSUME TypeOK, TypeOK', DataInv, NEW p \in Processes, PlaceInv(p), WriteReport(p)
  PROVE  DataInv'
<1> USE ConstantsFact DEF TypeOK
<1> DEFINE c == database.completed
<1>1. /\ Whole /\ c \in Times /\ database # NONE
      /\ reports' = [reports EXCEPT ![c] = database]
      /\ UNCHANGED <<database, latest, now, begun>>
  BY WholeFact DEF WriteReport, PlaceInv
<1>2. /\ Identity(database) \in begun /\ Pending(database) = {}
      /\ \A t \in Times : Reported(t) => t <= c
      /\ reports[c] \in {NONE, database}
  BY <1>1 DEF DataInv, FileInv
<1>3. \A t \in Times : Reported(t)' <=> Reported(t) \/ t = c
  BY <1>1 DEF Reported
<1>4. c <= now
  <2>1. c # NONE
    BY <1>1
  <2> QED
    BY <1>1, <1>2, <2>1 DEF DataInv, FileInv
<1>5. reports'[c] = database /\ \A t \in Times \ {c} : reports'[t] = reports[t]
  BY <1>1
<1>6. Whole' /\ Identity(database)' = Identity(database) /\ Pending(database)' = {}
  BY <1>1, <1>2 DEF Whole, Identity, Pending
<1>7. c # NONE /\ c \in Nat /\ now \in Nat
  BY <1>1, NumbersFact
<1>8. BegunInv' /\ LatestInv'
  BY <1>1, <1>6 DEF DataInv, BegunInv, LatestInv
<1>9. FileInv'
  BY <1>1, <1>2, <1>3, <1>4, <1>5, <1>6, <1>7 DEF FileInv
\* A report of the run in the file is of the file, so of its time.
<1>10. \A t \in Times : Reported(t) /\ reports[t].generated = database.generated => t = c
  BY <1>1 DEF DataInv, ReportsInv
<1>11. ReportsInv'
  <2> SUFFICES ASSUME NEW t \in Times, Reported(t) \/ t = c
               PROVE  /\ reports'[t].completed = t /\ t <= now
                      /\ Pending(reports'[t]) = {}
                      /\ Identity(reports'[t]) \in begun
                      /\ database.generated = reports'[t].generated => database = reports'[t]
    BY <1>1, <1>3 DEF ReportsInv, Identity, Pending
  <2>1. CASE t = c
    BY <1>2, <1>4, <1>5, <2>1
  <2>2. CASE t # c
    <3>1. Reported(t) /\ reports'[t] = reports[t]
      BY <1>5, <2>2
    <3> QED
      BY <1>1, <3>1 DEF DataInv, ReportsInv
  <2> QED
    BY <2>1, <2>2
<1>12. OneReport'
  <2> SUFFICES ASSUME NEW t \in Times, NEW u \in Times, Reported(t) \/ t = c, Reported(u) \/ u = c,
                      reports'[t].generated = reports'[u].generated
               PROVE  t = u
    BY <1>3 DEF OneReport
  <2>1. CASE t = c \/ u = c
    BY <1>5, <1>10, <2>1
  <2>2. CASE t # c /\ u # c
    BY <1>5, <2>2 DEF DataInv, OneReport
  <2> QED
    BY <2>1, <2>2
<1>13. NothingLost'
  <2> SUFFICES ASSUME NEW run \in begun
               PROVE  \/ Whole /\ database.generated = run.generated
                           /\ DOMAIN database.items = run.customers
                      \/ \E t \in Times : Reports(reports'[t], run)
    BY <1>1, <1>6 DEF NothingLost, Reports, Pending
  <2>1. ASSUME NEW t \in Times, Reports(reports[t], run)
        PROVE  Reports(reports'[t], run)
    <3>1. reports[t] # NONE
      BY <2>1 DEF Reports
    <3>2. reports'[t] = reports[t]
      BY <1>2, <1>5, <3>1
    <3> QED
      BY <2>1, <3>2
  <2> QED
    BY <2>1 DEF DataInv, NothingLost
<1> QED
  BY <1>8, <1>9, <1>11, <1>12, <1>13 DEF DataInv

LEMMA DataLatest ==
  ASSUME TypeOK, DataInv, NEW p \in Processes, PlaceInv(p), WriteLatest(p)
  PROVE  DataInv'
<1>1. Whole /\ UNCHANGED <<database, reports, now, begun>>
  BY DEF WriteLatest, PlaceInv
<1>2. Whole' /\ \A t : Reported(t)' <=> Reported(t)
  BY <1>1 DEF Whole, Reported
<1>3. BegunInv' /\ FileInv' /\ ReportsInv' /\ OneReport'
  BY <1>1, <1>2 DEF DataInv, BegunInv, FileInv, ReportsInv, OneReport, Identity, Pending
<1>4. LatestInv' /\ NothingLost'
  BY <1>1, <1>2 DEF DataInv, LatestInv, NothingLost, Reports, Pending
<1> QED
  BY <1>3, <1>4 DEF DataInv

\* The file goes when both reports say what it says.
LEMMA DataRemoved ==
  ASSUME TypeOK, DataInv, NEW p \in Processes, PlaceInv(p), RemoveFile(p)
  PROVE  DataInv'
<1> USE ConstantsFact DEF TypeOK
<1> DEFINE c == database.completed
<1>1. /\ Whole /\ c \in Times /\ c # NONE /\ database # NONE
      /\ reports[c] = database /\ latest = database
      /\ UNCHANGED <<reports, latest, now, begun>>
  BY WholeFact DEF RemoveFile, PlaceInv
<1>2. ~Whole' /\ \A t : Reported(t)' <=> Reported(t)
  BY <1>1 DEF RemoveFile, Whole, Reported
<1>3. BegunInv' /\ FileInv' /\ OneReport'
  BY <1>1, <1>2 DEF DataInv, BegunInv, FileInv, OneReport
<1>4. ReportsInv'
  BY <1>1, <1>2 DEF DataInv, ReportsInv, Identity, Pending
<1>5. LatestInv'
  BY <1>1, <1>2 DEF DataInv, FileInv, LatestInv
<1>6. NothingLost'
  <2> SUFFICES ASSUME NEW run \in begun
               PROVE  \E t \in Times : Reports(reports[t], run)
    BY <1>1 DEF NothingLost, Reports, Pending
  <2>1. CASE Whole /\ database.generated = run.generated /\ DOMAIN database.items = run.customers
    <3>1. Pending(database) = {}
      BY <1>1 DEF DataInv, FileInv
    <3> QED
      BY <1>1, <2>1, <3>1 DEF Reports
  <2> QED
    BY <2>1 DEF DataInv, NothingLost
<1> QED
  BY <1>3, <1>4, <1>5, <1>6 DEF DataInv

LEMMA DataStep == IInv /\ TypeOK' /\ [Next]_vars => DataInv'
<1> SUFFICES ASSUME IInv, TypeOK', [Next]_vars PROVE DataInv'
  OBVIOUS
<1>1. TypeOK /\ DataInv /\ \A p \in Processes : PlaceInv(p)
  BY DEF IInv
<1>2. ASSUME NEW p \in Processes, Launch(p) PROVE DataInv'
  <2>1. UNCHANGED <<files, begun>> /\ now' \in Nat /\ now' >= now
    BY <1>1, <1>2, ConstantsFact DEF Launch, TypeOK
  <2> QED
    BY <1>1, <2>1, DataLater
<1>3. ASSUME NEW p \in Processes,
             \/ Open(p) \/ LoadPending(p) \/ HandOver(p) \/ GatewayEnds(p) \/ LoadRun(p)
             \/ Unlock(p) \/ Crash(p) \/ \E C \in SUBSET Customers : Collect(p, C)
      PROVE  DataInv'
  <2>1. UNCHANGED <<files, now, begun>>
    BY <1>3 DEF Open, LoadPending, HandOver, GatewayEnds, LoadRun, Unlock, Crash, Collect
  <2> QED
    BY <1>1, <2>1, DataUntouched
<1>4. ASSUME NEW p \in Processes, CreateFile(p) \/ CreateFails(p) \/ StoreUnusable(p)
      PROVE  DataInv'
  <2>1. ~Whole
    BY <1>1, <1>4 DEF CreateFile, CreateFails, StoreUnusable, PlaceInv, Whole
  <2>2. database' \in {ABSENT, PARTIAL} /\ UNCHANGED <<reports, latest, now, begun>>
    BY <1>4 DEF CreateFile, CreateFails, StoreUnusable
  <2> QED
    BY <1>1, <2>1, <2>2, DataPartial
<1>5. ASSUME NEW p \in Processes, FillFile(p) PROVE DataInv'
  BY <1>1, <1>5, DataFilled
<1>6. ASSUME NEW p \in Processes, NEW batch \in Batches(p), SaveResults(p, batch) PROVE DataInv'
  <2>1. CASE DOMAIN batch \subseteq Pending(database)
    BY <1>1, <1>6, <2>1, DataSaved
  <2>2. CASE ~(DOMAIN batch \subseteq Pending(database))
    BY <1>1, <1>6, <2>2, DataUntouched DEF SaveResults, files
  <2> QED
    BY <2>1, <2>2
<1>7. ASSUME NEW p \in Processes, Complete(p) PROVE DataInv'
  <2>1. CASE Pending(database) = {}
    BY <1>1, <1>7, <2>1, DataCompleted
  <2>2. CASE Pending(database) # {}
    BY <1>1, <1>7, <2>2, DataUntouched DEF Complete, files
  <2> QED
    BY <2>1, <2>2
<1>8. ASSUME NEW p \in Processes, WriteReport(p) PROVE DataInv'
  BY <1>1, <1>8, DataReported
<1>9. ASSUME NEW p \in Processes, WriteLatest(p) PROVE DataInv'
  BY <1>1, <1>9, DataLatest
<1>10. ASSUME NEW p \in Processes, RemoveFile(p) PROVE DataInv'
  BY <1>1, <1>10, DataRemoved
<1>11. CASE UNCHANGED vars
  BY <1>1, <1>11, DataUntouched DEF vars, files
<1> QED
  BY <1>2, <1>3, <1>4, <1>5, <1>6, <1>7, <1>8, <1>9, <1>10, <1>11 DEF Next, Work

-----------------------------------------------------------------------------
(* What the working process has established, action by action.             *)

LEMMA PlaceStep == IInv /\ TypeOK' /\ LockInv' /\ [Next]_vars => \A p \in Processes : PlaceInv(p)'
<1> SUFFICES ASSUME IInv, TypeOK', LockInv', [Next]_vars PROVE \A p \in Processes : PlaceInv(p)'
  OBVIOUS
<1> USE ConstantsFact DEF TypeOK
<1>1. TypeOK /\ LockInv /\ DataInv /\ \A p \in Processes : PlaceInv(p)
  BY DEF IInv
\* A step of one process: it is enough to look at that one.
<1>2. ASSUME NEW p \in Processes, NEW place \in PCs, pc[p] # "idle" \/ place # "idle",
             Goto(p, place), pc'[p] = place => PlaceInv(p)'
      PROVE  \A q \in Processes : PlaceInv(q)'
  <2>1. pc'[p] = place /\ \A q \in Processes \ {p} : pc'[q] = pc[q]
    BY <1>2 DEF Goto
  <2> QED
    BY <1>1, <1>2, <2>1, OnlyHolder
<1>3. ASSUME NEW p \in Processes, pc[p] # "idle", End(p)
      PROVE  \A q \in Processes : PlaceInv(q)'
  <2>1. Goto(p, "idle") /\ "idle" \in PCs
    BY <1>3 DEF End, PCs
  <2>2. pc'[p] = "idle" => PlaceInv(p)'
    BY DEF PlaceInv
  <2> QED
    BY <1>2, <1>3, <2>1, <2>2
<1>4. ASSUME NEW p \in Processes, Launch(p) PROVE \A q \in Processes : PlaceInv(q)'
  <2>1. Goto(p, "open") /\ now' = now + 1 /\ now' \in Times /\ UNCHANGED <<files, begun>>
    BY <1>1, <1>4 DEF Launch, Times
  <2>2. \A t \in Times : Reported(t)' => t < now'
    <3>1. \A t \in Times : Reported(t) => t <= now
      BY <1>1 DEF DataInv, ReportsInv
    <3>2. \A t : Reported(t)' <=> Reported(t)
      BY <2>1 DEF Reported, files
    <3>3. \A t \in Times : t <= now => t < now'
      BY <1>1, <2>1, NumbersFact
    <3> QED
      BY <3>1, <3>2, <3>3
  <2>3. \A run \in begun' : run.generated < now'
    <3>1. \A run \in begun : run.generated \in Nat /\ run.generated <= now
      BY <1>1 DEF DataInv, BegunInv
    <3>2. now \in Nat
      BY <1>1, NumbersFact
    <3> QED
      BY <2>1, <3>1, <3>2
  <2>4. pc'[p] = "open" => PlaceInv(p)'
    BY <2>1, <2>2, <2>3 DEF PlaceInv
  <2> QED
    BY <1>2, <2>1, <2>4 DEF PCs
\* Until the file is filled nothing of this run is on record.
<1>5. ASSUME NEW p \in Processes, Open(p) PROVE \A q \in Processes : PlaceInv(q)'
  <2>1. UNCHANGED <<database, reports, now, begun>>
    BY <1>5 DEF Open, files
  <2>2. CASE database = ABSENT
    <3>1. pc'[p] = "collect" => PlaceInv(p)'
      BY <1>1, <1>5, <2>1, <2>2 DEF Open, PlaceInv, Reported
    <3> QED
      BY <1>2, <1>5, <2>2, <3>1 DEF Open, PCs
  <2>3. CASE database # ABSENT
    <3>1. pc'[p] = "load" => PlaceInv(p)'
      BY <1>1, <1>5, <2>1 DEF Open, PlaceInv
    <3> QED
      BY <1>2, <1>5, <2>3, <3>1 DEF Open, PCs
  <2> QED
    BY <2>2, <2>3
<1>6. ASSUME NEW p \in Processes, NEW C \in SUBSET Customers, Collect(p, C)
      PROVE  \A q \in Processes : PlaceInv(q)'
  <2>1. pc'[p] = "create" => PlaceInv(p)'
    BY <1>1, <1>6 DEF Collect, PlaceInv, Reported, files
  <2> QED
    BY <1>2, <1>6, <2>1 DEF Collect, PCs
<1>7. ASSUME NEW p \in Processes, CreateFile(p) PROVE \A q \in Processes : PlaceInv(q)'
  <2>1. pc'[p] = "fill" => PlaceInv(p)'
    BY <1>1, <1>7 DEF CreateFile, PlaceInv, Reported
  <2> QED
    BY <1>2, <1>7, <2>1 DEF CreateFile, PCs
<1>8. ASSUME NEW p \in Processes, FillFile(p) PROVE \A q \in Processes : PlaceInv(q)'
  <2>1. pc'[p] = "load" => PlaceInv(p)'
    BY <1>1, <1>8 DEF FillFile, PlaceInv
  <2> QED
    BY <1>2, <1>8, <2>1 DEF FillFile, PCs
<1>9. ASSUME NEW p \in Processes, CreateFails(p) \/ StoreUnusable(p) \/ Unlock(p) \/ Crash(p)
      PROVE  \A q \in Processes : PlaceInv(q)'
  BY <1>3, <1>9 DEF CreateFails, StoreUnusable, Unlock, Crash
\* What is handed over is what the file says at that moment.
<1>10. ASSUME NEW p \in Processes, LoadPending(p) PROVE \A q \in Processes : PlaceInv(q)'
  <2>1. Whole' /\ now' = now /\ Pending(database)' = Pending(database)
    BY <1>10 DEF LoadPending, Whole, Pending, files
  <2>2. list'[p] = Pending(database)
    BY <1>10 DEF LoadPending
  <2>3. pc'[p] \in {"complete", "token"} => PlaceInv(p)'
    BY <1>1, <1>10, <2>1, <2>2 DEF LoadPending, PlaceInv
  <2>4. CASE Pending(database) = {}
    BY <1>2, <1>10, <2>3, <2>4 DEF LoadPending, PCs
  <2>5. CASE Pending(database) # {}
    BY <1>2, <1>10, <2>3, <2>5 DEF LoadPending, PCs
  <2> QED
    BY <2>4, <2>5
<1>11. ASSUME NEW p \in Processes, HandOver(p) \/ GatewayEnds(p)
       PROVE  \A q \in Processes : PlaceInv(q)'
  <2>1. pc[p] # "idle" /\ now' = now
    BY <1>11 DEF HandOver, GatewayEnds
  <2>2. pc'[p] \in {"sync", "complete"} => PlaceInv(p)'
    BY <1>1, <2>1 DEF PlaceInv
  <2>3. Goto(p, "sync") \/ Goto(p, "complete")
    BY <1>11 DEF HandOver, GatewayEnds
  <2> QED
    BY <1>2, <2>1, <2>2, <2>3 DEF PCs
<1>12. ASSUME NEW p \in Processes, NEW batch \in Batches(p), SaveResults(p, batch)
       PROVE  \A q \in Processes : PlaceInv(q)'
  <2>1. CASE DOMAIN batch \subseteq Pending(database)
    <3>1. UNCHANGED <<pc, now>> /\ pc[p] = "sync"
      BY <1>12, <2>1 DEF SaveResults
    <3>2. PlaceInv(p)'
      BY <1>1, <3>1 DEF PlaceInv
    <3> QED
      BY <1>1, <3>1, <3>2, OnlyHolder
  <2>2. CASE ~(DOMAIN batch \subseteq Pending(database))
    BY <1>3, <1>12, <2>2 DEF SaveResults
  <2> QED
    BY <2>1, <2>2
<1>13. ASSUME NEW p \in Processes, Complete(p) PROVE \A q \in Processes : PlaceInv(q)'
  <2>1. CASE Pending(database) = {}
    <3>1. pc'[p] = "loadRun" => PlaceInv(p)'
      BY <1>1, <1>13 DEF Complete, PlaceInv
    <3> QED
      BY <1>2, <1>13, <2>1, <3>1 DEF Complete, PCs
  <2>2. CASE Pending(database) # {}
    BY <1>3, <1>13, <2>2 DEF Complete
  <2> QED
    BY <2>1, <2>2
\* The reports are written from the file.
<1>14. ASSUME NEW p \in Processes, LoadRun(p) PROVE \A q \in Processes : PlaceInv(q)'
  <2>1. Whole' /\ loaded'[p] = database' /\ database'.completed # NONE /\ now' = now
    BY <1>14 DEF LoadRun, Whole, files
  <2>2. pc'[p] = "report" => PlaceInv(p)'
    BY <1>1, <1>14, <2>1 DEF LoadRun, PlaceInv
  <2> QED
    BY <1>2, <1>14, <2>2 DEF LoadRun, PCs
<1>15. ASSUME NEW p \in Processes, WriteReport(p) PROVE \A q \in Processes : PlaceInv(q)'
  <2>1. /\ Whole /\ loaded[p] = database /\ database.completed \in Times
        /\ UNCHANGED <<database, loaded, now>>
    BY <1>1, <1>15, WholeFact DEF WriteReport, PlaceInv, locals
  <2>2. reports'[database.completed] = database
    BY <1>15, <2>1 DEF WriteReport
  <2>3. pc'[p] = "latest" => PlaceInv(p)'
    BY <1>1, <1>15, <2>1, <2>2 DEF WriteReport, PlaceInv, Whole
  <2> QED
    BY <1>2, <1>15, <2>3 DEF WriteReport, PCs
<1>16. ASSUME NEW p \in Processes, WriteLatest(p) PROVE \A q \in Processes : PlaceInv(q)'
  <2>1. pc'[p] = "remove" => PlaceInv(p)'
    BY <1>1, <1>16 DEF WriteLatest, PlaceInv, Whole, locals
  <2> QED
    BY <1>2, <1>16, <2>1 DEF WriteLatest, PCs
<1>17. ASSUME NEW p \in Processes, RemoveFile(p) PROVE \A q \in Processes : PlaceInv(q)'
  <2>1. pc'[p] = "unlock" => PlaceInv(p)'
    BY <1>1, <1>17 DEF RemoveFile, PlaceInv
  <2> QED
    BY <1>2, <1>17, <2>1 DEF RemoveFile, PCs
<1>18. CASE UNCHANGED vars
  BY <1>1, <1>18 DEF vars, files, locals, PlaceInv, Whole, Pending, Reported
<1> QED
  BY <1>4, <1>5, <1>6, <1>7, <1>8, <1>9, <1>10, <1>11, <1>12, <1>13, <1>14, <1>15, <1>16, <1>17,
     <1>18 DEF Next, Work

-----------------------------------------------------------------------------
\* The invariant of the job.
THEOREM Invariant == Spec => []IInv
<1>1. IInv /\ [Next]_vars => IInv'
  <2> SUFFICES ASSUME IInv, [Next]_vars PROVE IInv'
    OBVIOUS
  <2>1. TypeOK'
    BY TypeStep DEF IInv
  <2>2. LockInv'
    BY LockStep DEF IInv
  <2>3. DataInv'
    BY <2>1, DataStep
  <2>4. \A p \in Processes : PlaceInv(p)'
    BY <2>1, <2>2, PlaceStep
  <2> QED
    BY <2>1, <2>2, <2>3, <2>4 DEF IInv
<1> QED
  BY <1>1, InitEstablishes, PTL DEF Spec

\* The variables keep their types: in particular an item's status is one that
\* the file's CHECK constraint allows.
THEOREM TypeCorrect == Spec => []TypeOK
<1>1. IInv => TypeOK
  BY DEF IInv
<1> QED
  BY <1>1, Invariant, PTL

\* A run that was begun is in the file or accounted for in a report, however
\* often the job dies.
THEOREM NoRunIsLost == Spec => []NothingLost
<1>1. IInv => NothingLost
  BY DEF IInv, DataInv
<1> QED
  BY <1>1, Invariant, PTL

\* One timestamped report for each run, and without a file the -latest report
\* is the most recent one.
THEOREM ReportsAreSettled == Spec => []ReportsSettled
<1>1. IInv => ReportsSettled
  BY DEF IInv, DataInv, OneReport, LatestInv, ReportsSettled, Reported, Whole
<1> QED
  BY <1>1, Invariant, PTL

\* Only customers without an outcome on record are handed to Salesforce.
THEOREM PendingAreHandedOver == Spec => []HandedOverPending
<1>1. IInv => HandedOverPending
  BY DEF IInv, PlaceInv, HandedOverPending
<1> QED
  BY <1>1, Invariant, PTL

-----------------------------------------------------------------------------
(* Outcomes on record.                                                     *)

\* What a step does to the file of a run.
LEMMA FileStep ==
  IInv /\ [Next]_vars /\ Whole =>
    \/ UNCHANGED database
    \/ database' \in {ABSENT, PARTIAL}
    \/ \E p \in Processes : \E batch \in Batches(p) :
         SaveResults(p, batch) /\ DOMAIN batch \subseteq Pending(database)
    \/ \E p \in Processes : Complete(p) /\ Pending(database) = {}
<1> SUFFICES ASSUME IInv, [Next]_vars, Whole
             PROVE  \/ UNCHANGED database
                    \/ database' \in {ABSENT, PARTIAL}
                    \/ \E p \in Processes : \E batch \in Batches(p) :
                         SaveResults(p, batch) /\ DOMAIN batch \subseteq Pending(database)
                    \/ \E p \in Processes : Complete(p) /\ Pending(database) = {}
  OBVIOUS
<1>1. ASSUME NEW p \in Processes,
             \/ Launch(p) \/ Open(p) \/ LoadPending(p) \/ HandOver(p) \/ GatewayEnds(p)
             \/ LoadRun(p) \/ WriteReport(p) \/ WriteLatest(p) \/ Unlock(p) \/ Crash(p)
             \/ \E C \in SUBSET Customers : Collect(p, C)
      PROVE  UNCHANGED database
  BY <1>1 DEF Launch, Open, LoadPending, HandOver, GatewayEnds, LoadRun, WriteReport,
              WriteLatest, Unlock, Crash, Collect, files
<1>2. ASSUME NEW p \in Processes,
             CreateFile(p) \/ CreateFails(p) \/ StoreUnusable(p) \/ RemoveFile(p)
      PROVE  database' \in {ABSENT, PARTIAL}
  BY <1>2 DEF CreateFile, CreateFails, StoreUnusable, RemoveFile
<1>3. ASSUME NEW p \in Processes, FillFile(p) PROVE FALSE
  BY <1>3 DEF FillFile, IInv, PlaceInv, Whole
<1>4. ASSUME NEW p \in Processes, NEW batch \in Batches(p), SaveResults(p, batch),
             ~(DOMAIN batch \subseteq Pending(database))
      PROVE  UNCHANGED database
  BY <1>4 DEF SaveResults
<1>5. ASSUME NEW p \in Processes, Complete(p), Pending(database) # {} PROVE UNCHANGED database
  BY <1>5 DEF Complete
<1>6. CASE UNCHANGED vars
  BY <1>6 DEF vars, files
<1> QED
  BY <1>1, <1>2, <1>3, <1>4, <1>5, <1>6 DEF Next, Work

\* What a step does to the reports.
LEMMA ReportStep ==
  IInv /\ [Next]_vars =>
    \A t \in Times : reports'[t] # reports[t] => Whole /\ reports'[t] = database
<1> SUFFICES ASSUME IInv, [Next]_vars, NEW t \in Times, reports'[t] # reports[t]
             PROVE  Whole /\ reports'[t] = database
  OBVIOUS
<1>1. ASSUME NEW p \in Processes, WriteReport(p) PROVE Whole /\ reports'[t] = database
  BY <1>1 DEF WriteReport, IInv, TypeOK, PlaceInv
<1>2. ASSUME NEW p \in Processes,
             \/ Launch(p) \/ Open(p) \/ LoadPending(p) \/ HandOver(p) \/ GatewayEnds(p)
             \/ LoadRun(p) \/ WriteLatest(p) \/ Unlock(p) \/ Crash(p)
             \/ CreateFile(p) \/ CreateFails(p) \/ StoreUnusable(p) \/ RemoveFile(p) \/ FillFile(p)
             \/ Complete(p)
             \/ \E batch \in Batches(p) : SaveResults(p, batch)
             \/ \E C \in SUBSET Customers : Collect(p, C)
      PROVE  UNCHANGED reports
  BY <1>2 DEF Launch, Open, LoadPending, HandOver, GatewayEnds, LoadRun, WriteLatest, Unlock,
              Crash, Collect, CreateFile, CreateFails, StoreUnusable, RemoveFile, FillFile,
              Complete, SaveResults, files
<1>3. CASE UNCHANGED vars
  BY <1>3 DEF vars, files
<1> QED
  BY <1>1, <1>2, <1>3 DEF Next, Work

\* An outcome that is on record never changes, neither by a later batch nor on
\* the way to the report.
THEOREM OutcomesStay == Spec => OutcomesKept
<1> DEFINE Kept(run, c, r) == r.generated = run.generated => r.items[c] = database.items[c]
<1>1. ASSUME IInv, [Next]_vars, NEW run \in begun, NEW c \in Customers,
             Whole, database.generated = run.generated, c \in run.customers,
             database.items[c] # "pending"
      PROVE  /\ Whole' => Kept(run, c, database')
             /\ \A t \in Times : reports'[t] # NONE => Kept(run, c, reports'[t])
  <2>1. database \in Run /\ c \in DOMAIN database.items
    <3>1. Identity(database) = run
      BY <1>1 DEF IInv, DataInv, BegunInv, FileInv, Identity
    <3> QED
      BY <1>1, <3>1, WholeFact DEF IInv, Identity
  <2>2. Whole' => Kept(run, c, database')
    <3>1. ASSUME NEW p \in Processes, NEW batch \in Batches(p), SaveResults(p, batch),
                 DOMAIN batch \subseteq Pending(database)
          PROVE  database'.items[c] = database.items[c]
      <4>1. c \notin DOMAIN batch
        BY <1>1, <3>1 DEF Pending
      <4> QED
        BY <2>1, <3>1, <4>1 DEF SaveResults, Run
    <3>2. ASSUME NEW p \in Processes, Complete(p), Pending(database) = {}
          PROVE  database'.items[c] = database.items[c]
      BY <2>1, <3>2 DEF Complete, Run
    <3> QED
      BY <1>1, <3>1, <3>2, FileStep DEF Whole
  <2>3. ASSUME NEW t \in Times, reports'[t] # NONE PROVE Kept(run, c, reports'[t])
    <3>1. CASE reports'[t] = reports[t]
      BY <1>1, <2>3, <3>1 DEF IInv, DataInv, ReportsInv, Reported
    <3>2. CASE reports'[t] # reports[t]
      BY <1>1, <3>2, ReportStep
    <3> QED
      BY <3>1, <3>2
  <2> QED
    BY <2>2, <2>3
<1>2. IInv /\ [Next]_vars =>
        [\A run \in begun, c \in Customers :
           /\ Whole /\ database.generated = run.generated /\ c \in run.customers
           /\ database.items[c] # "pending"
           => LET kept(r) == r.generated = run.generated => r.items[c] = database.items[c]
              IN /\ Whole' => kept(database')
                 /\ \A t \in Times : reports'[t] # NONE => kept(reports'[t])]_vars
  BY <1>1
<1> QED
  BY <1>2, Invariant, PTL DEF Spec, OutcomesKept

=============================================================================
