---------------------------- MODULE InactiveSync ----------------------------
(***************************************************************************)
(* The daily job that reports inactive customers to Salesforce             *)
(* (crons/inactive_customers).  Phase one collects the customers into a    *)
(* SQLite file; phase two hands the pending ones to Salesforce, records    *)
(* each batch of results in the file, and when none is pending writes two  *)
(* JSON reports and removes the file.  A process may die at any point; the *)
(* next launch goes on from whatever file it finds.                        *)
(*                                                                         *)
(* A file is absent, partial (created, but without its run row: the schema *)
(* script commits before the rows do) or holds a whole run.                *)
(***************************************************************************)
EXTENDS Naturals, FiniteSets

CONSTANTS
  Processes,     \* launches of the job that may overlap
  Customers,     \* customers that may be inactive
  MaxRuns,       \* bound: runs that phase one begins
  MaxFailures,   \* bound: crashes, exceptions and deviations of the gateway
  ABSENT, PARTIAL, NONE

MaxLaunches == MaxRuns + MaxFailures
Times == 1..MaxLaunches

Statuses == {"pending", "succeeded", "failed"}
Items == UNION {[C -> Statuses] : C \in SUBSET Customers}
Run == [generated : Times, completed : Times \cup {NONE}, items : Items]

ASSUME InactiveSyncAssumption ==
  /\ MaxRuns \in Nat /\ MaxFailures \in Nat
  /\ ABSENT # PARTIAL
  /\ {ABSENT, PARTIAL, NONE} \cap Run = {}
  /\ NONE \notin Processes \cup Times

VARIABLES
  lock,          \* the flock on the .lock file
  database,      \* the .sqlite3 file
  reports,       \* the timestamped reports, by the time in their name
  latest,        \* the -latest report
  pc,
  list,          \* per process: the customers collected, or loaded as pending
  loaded,        \* per process: the run the reports are written from
  now,           \* the clock: how often the job was launched
  failures,      \* how much of MaxFailures is used up
  begun          \* history: the runs whose database became whole

files == <<database, reports, latest>>
locals == <<list, loaded>>
vars == <<lock, files, pc, locals, now, failures, begun>>

PCs == {"idle", "open", "collect", "create", "fill", "load", "token", "sync",
        "complete", "loadRun", "report", "latest", "remove", "unlock"}

Whole == database \notin {ABSENT, PARTIAL}
Pending(run) == {c \in DOMAIN run.items : run.items[c] = "pending"}

Goto(p, place) == pc' = [pc EXCEPT ![p] = place]

\* The process ends: the context manager releases the flock or, when it was
\* killed, the kernel does.  The mutant is a lock file that stays.
EndLocked(p) ==
  /\ Goto(p, "idle")
  /\ list' = [list EXCEPT ![p] = {}]
  /\ loaded' = [loaded EXCEPT ![p] = NONE]
  /\ UNCHANGED lock
End(p) ==
  /\ Goto(p, "idle")
  /\ lock' = IF lock = p THEN NONE ELSE lock
  /\ list' = [list EXCEPT ![p] = {}]
  /\ loaded' = [loaded EXCEPT ![p] = NONE]

Deviates == failures < MaxFailures /\ failures' = failures + 1

-----------------------------------------------------------------------------
Init ==
  /\ lock = NONE
  /\ database = ABSENT
  /\ reports = [t \in Times |-> NONE]
  /\ latest = NONE
  /\ pc = [p \in Processes |-> "idle"]
  /\ list = [p \in Processes |-> {}]
  /\ loaded = [p \in Processes |-> NONE]
  /\ now = 0
  /\ failures = 0
  /\ begun = {}

\* crond starts the job.  One that does not get the lock returns at once and
\* changes nothing.  The mutant goes on without it.
LaunchUnlocked(p) ==
  /\ pc[p] = "idle" /\ now < MaxLaunches
  /\ Cardinality(begun) < MaxRuns \/ database # ABSENT
  /\ lock' = p
  /\ now' = now + 1
  /\ Goto(p, "open")
  /\ UNCHANGED <<files, locals, failures, begun>>
Launch(p) ==
  /\ pc[p] = "idle" /\ now < MaxLaunches
  /\ Cardinality(begun) < MaxRuns \/ database # ABSENT
  /\ lock = NONE
  /\ lock' = p
  /\ now' = now + 1
  /\ Goto(p, "open")
  /\ UNCHANGED <<files, locals, failures, begun>>

\* execute_workflow: a file that exists skips phase one.
Open(p) ==
  /\ pc[p] = "open"
  /\ Goto(p, IF database = ABSENT THEN "collect" ELSE "load")
  /\ UNCHANGED <<lock, files, locals, now, failures, begun>>

-----------------------------------------------------------------------------
(* Phase one                                                               *)

Collect(p, C) ==
  /\ pc[p] = "collect"
  /\ list' = [list EXCEPT ![p] = C]
  /\ Goto(p, "create")
  /\ UNCHANGED <<lock, files, loaded, now, failures, begun>>

\* sqlite3.connect creates the file, executescript commits the tables.
CreateFile(p) ==
  /\ pc[p] = "create"
  /\ database = ABSENT
  /\ database' = PARTIAL
  /\ Goto(p, "fill")
  /\ UNCHANGED <<lock, reports, latest, locals, now, failures, begun>>

\* The run row and all customers, in one transaction.
FillFile(p) ==
  /\ pc[p] = "fill"
  /\ database' = [generated |-> now, completed |-> NONE,
                  items |-> [c \in list[p] |-> "pending"]]
  /\ begun' = begun \cup {[generated |-> now, customers |-> list[p]]}
  /\ Goto(p, "load")
  /\ UNCHANGED <<lock, reports, latest, locals, now, failures>>

\* An exception in between removes the file again.
CreateFails(p) ==
  /\ pc[p] \in {"create", "fill"}
  /\ Deviates
  /\ database' = ABSENT
  /\ End(p)
  /\ UNCHANGED <<reports, latest, now, begun>>

-----------------------------------------------------------------------------
(* Phase two                                                               *)

\* validate_schema raises on a file without run row, in every operation of
\* the store; connecting to an absent file leaves an empty one.
StoreUnusable(p) ==
  /\ pc[p] \in {"load", "sync", "complete", "loadRun"}
  /\ ~Whole
  /\ database' = PARTIAL
  /\ End(p)
  /\ UNCHANGED <<reports, latest, now, failures, begun>>

LoadPending(p) ==
  /\ pc[p] = "load" /\ Whole
  /\ list' = [list EXCEPT ![p] = Pending(database)]
  /\ Goto(p, IF Pending(database) = {} THEN "complete" ELSE "token")
  /\ UNCHANGED <<lock, files, loaded, now, failures, begun>>

\* The access token arrives and the customers are handed to the gateway.
HandOver(p) ==
  /\ pc[p] = "token"
  /\ Goto(p, "sync")
  /\ UNCHANGED <<lock, files, locals, now, failures, begun>>

\* One batch of results, in one transaction: every UPDATE has to find its
\* customer pending, otherwise all of it is rolled back and the run raises.
\* One mutant's UPDATE does not look at the status, the other's writes one
\* that is not in the table's CHECK.
SaveResultsUnchecked(p, batch) ==
  /\ pc[p] = "sync" /\ Whole
  /\ DOMAIN batch \subseteq Pending(database)
  /\ database' = [database EXCEPT !.items =
                    [c \in DOMAIN @ |-> IF c \in DOMAIN batch THEN "sent" ELSE @[c]]]
  /\ UNCHANGED <<lock, reports, latest, pc, locals, now, failures, begun>>
SaveResultsAgain(p, batch) ==
  /\ pc[p] = "sync" /\ Whole
  /\ database' = [database EXCEPT !.items =
                    [c \in DOMAIN @ |-> IF c \in DOMAIN batch THEN batch[c] ELSE @[c]]]
  /\ UNCHANGED <<lock, reports, latest, pc, locals, now, failures, begun>>
SaveResults(p, batch) ==
  /\ pc[p] = "sync" /\ Whole
  /\ IF DOMAIN batch \subseteq Pending(database)
       THEN /\ database' = [database EXCEPT !.items =
                 [c \in DOMAIN @ |-> IF c \in DOMAIN batch THEN batch[c] ELSE @[c]]]
            /\ UNCHANGED <<pc, lock, locals, failures>>
       ELSE Deviates /\ End(p) /\ UNCHANGED database
  /\ UNCHANGED <<reports, latest, now, begun>>

\* The gateway yields no more batches; leaving customers out is a deviation.
GatewayEnds(p) ==
  /\ pc[p] = "sync" /\ Whole
  /\ IF Pending(database) = {} THEN UNCHANGED failures ELSE Deviates
  /\ Goto(p, "complete")
  /\ UNCHANGED <<lock, files, locals, now, begun>>

\* complete_sync_run; the mutant overwrites a completion time that is set.
CompleteAnew(p) ==
  /\ pc[p] = "complete" /\ Whole
  /\ IF Pending(database) = {}
       THEN database' = [database EXCEPT !.completed = now] /\ Goto(p, "loadRun")
                          /\ UNCHANGED <<lock, locals>>
       ELSE End(p) /\ UNCHANGED database
  /\ UNCHANGED <<reports, latest, now, failures, begun>>
Complete(p) ==
  /\ pc[p] = "complete" /\ Whole
  /\ IF Pending(database) = {}
       THEN /\ database' = [database EXCEPT !.completed = IF @ = NONE THEN now ELSE @]
            /\ Goto(p, "loadRun")
            /\ UNCHANGED <<lock, locals>>
       ELSE End(p) /\ UNCHANGED database
  /\ UNCHANGED <<reports, latest, now, failures, begun>>

\* load_sync_run, and the check that it has a completion time.
LoadRun(p) ==
  /\ pc[p] = "loadRun" /\ Whole
  /\ database.completed # NONE
  /\ loaded' = [loaded EXCEPT ![p] = database]
  /\ Goto(p, "report")
  /\ UNCHANGED <<lock, files, list, now, failures, begun>>

\* Each report is written to a temporary file that replaces the old one.
\* The mutant forgets the report named after the run.
SkipReport(p) ==
  /\ pc[p] = "report"
  /\ Goto(p, "latest")
  /\ UNCHANGED <<lock, files, locals, now, failures, begun>>
WriteReport(p) ==
  /\ pc[p] = "report"
  /\ reports' = [reports EXCEPT ![loaded[p].completed] = loaded[p]]
  /\ Goto(p, "latest")
  /\ UNCHANGED <<lock, database, latest, locals, now, failures, begun>>

WriteLatest(p) ==
  /\ pc[p] = "latest"
  /\ latest' = loaded[p]
  /\ Goto(p, "remove")
  /\ UNCHANGED <<lock, database, reports, locals, now, failures, begun>>

RemoveFile(p) ==
  /\ pc[p] = "remove"
  /\ database' = ABSENT
  /\ Goto(p, "unlock")
  /\ UNCHANGED <<lock, reports, latest, locals, now, failures, begun>>

Unlock(p) ==
  /\ pc[p] = "unlock"
  /\ End(p)
  /\ UNCHANGED <<files, now, failures, begun>>

-----------------------------------------------------------------------------
\* The process is killed, or an exception leaves the workflow outside of
\* create_sync_database: a transaction in progress is rolled back and the
\* files stay.
Crash(p) ==
  /\ pc[p] # "idle"
  /\ Deviates
  /\ End(p)
  /\ UNCHANGED <<files, now, begun>>

Batches(p) == {b \in Items : DOMAIN b # {} /\ DOMAIN b \subseteq list[p]
                              /\ \A c \in DOMAIN b : b[c] # "pending"}

Work(p) ==
  \/ Open(p) \/ CreateFile(p) \/ FillFile(p) \/ StoreUnusable(p) \/ LoadPending(p)
  \/ HandOver(p) \/ GatewayEnds(p) \/ Complete(p) \/ LoadRun(p)
  \/ WriteReport(p) \/ WriteLatest(p) \/ RemoveFile(p) \/ Unlock(p)
  \/ \E C \in SUBSET Customers : Collect(p, C)
  \/ \E b \in Batches(p) : SaveResults(p, b)

Next ==
  \E p \in Processes : Launch(p) \/ Work(p) \/ CreateFails(p) \/ Crash(p)

\* A process that is not killed goes on and crond launches the job every day.
Fairness ==
  /\ \A p \in Processes : WF_vars(Work(p))
  /\ WF_vars(\E p \in Processes : Launch(p))

Spec == Init /\ [][Next]_vars
FairSpec == Spec /\ Fairness
-----------------------------------------------------------------------------
(* Correctness                                                             *)

\* The types of all variables.
TypeOK ==
  /\ lock \in Processes \cup {NONE}
  /\ database \in Run \cup {ABSENT, PARTIAL}
  /\ reports \in [Times -> Run \cup {NONE}]
  /\ latest \in Run \cup {NONE}
  /\ pc \in [Processes -> PCs]
  /\ list \in [Processes -> SUBSET Customers]
  /\ loaded \in [Processes -> Run \cup {NONE}]
  /\ now \in 0..MaxLaunches
  /\ failures \in 0..MaxFailures
  /\ begun \subseteq [generated : Times, customers : SUBSET Customers]

\* A report that accounts for every customer of a run.
Reports(report, run) ==
  /\ report # NONE
  /\ report.generated = run.generated
  /\ DOMAIN report.items = run.customers
  /\ Pending(report) = {}

\* However often the job dies, a run that was begun is either still in the
\* file, with all of its customers, or in a report that accounts for all of
\* them: remove_sync_database never comes too early.
NothingLost ==
  \A run \in begun :
    \/ Whole /\ database.generated = run.generated /\ DOMAIN database.items = run.customers
    \/ \E t \in Times : Reports(reports[t], run)

\* A run gives one timestamped report, also when the job died between writing
\* it and removing the file and the next launch completed the run again; and
\* once the file is gone the -latest report is the most recent one.
ReportsSettled ==
  /\ \A t, u \in Times :
       reports[t] # NONE /\ reports[u] # NONE /\ reports[t].generated = reports[u].generated
         => t = u
  /\ database = ABSENT =>
       \A t \in Times : reports[t] # NONE =>
         latest # NONE /\ latest.completed >= t

\* The customers a process hands to Salesforce are pending at that moment:
\* no outcome on record is asked for again, whoever recorded it.
HandedOverPending ==
  \A p \in Processes : pc[p] = "token" => Whole /\ list[p] = Pending(database)

\* An outcome that is on record never changes, in the file and up to the report.
OutcomesKept ==
  [][\A run \in begun, c \in Customers :
       /\ Whole /\ database.generated = run.generated /\ c \in run.customers
       /\ database.items[c] # "pending"
       => LET kept(r) == r.generated = run.generated => r.items[c] = database.items[c]
          IN /\ Whole' => kept(database')
             /\ \A t \in Times : reports'[t] # NONE => kept(reports'[t])]_vars

\* A run in the file is reported in the end, through crashes, lost results
\* and failing launches, as long as those stop.
RunsReported ==
  \A t \in Times :
    (Whole /\ database.generated = t)
      ~> (\E u \in Times : reports[u] # NONE /\ reports[u].generated = t)

\* "Found ...; skipping phase 1 and resuming phase 2": whatever file is found
\* holds a run that phase two can go on with.
FoundFileIsResumable ==
  \A p \in Processes : pc[p] = "load" => Whole
=============================================================================
