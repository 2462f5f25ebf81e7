------------------------------ MODULE History ------------------------------
(***************************************************************************)
(* The history export (exports/history) between the start and the stop of  *)
(* the service.  Reports are appended to a queue; a job writes the queue   *)
(* to the database every few seconds, and so does the reporter that finds  *)
(* it full.  Both take the queue and replace it without a lock.  Another   *)
(* job writes a snapshot of all devices, page by page.  Stop disables the  *)
(* jobs, and Destroy drops the queue and closes the database while writes  *)
(* and jobs may still be under way.  The export is the same after a        *)
(* restart; the jobs of the last start may still be at their last run.     *)
(*                                                                         *)
(* Slices are values here: that goroutines which append to the same slice  *)
(* write the same place of its array changes which record is lost, and     *)
(* only where two are inside the unlocked steps at once, which raced       *)
(* tells.  The columns of a row and the deletion of old rows are left out. *)
(***************************************************************************)
EXTENDS Naturals, Sequences, FiniteSets, SequencesExt

CONSTANTS
    Reporter,       \* goroutines that call Export
    WriteNum,       \* length at which a reporter writes the queue, 20 in the code
    PageSize,       \* devices in one insert of a snapshot, 50 in the code
    Bounds          \* [devices, records, snapshots, starts]: devices in the shadow, bounds of a behaviour

VARIABLES
    service,        \* off, up, clear, destroy
    starts,         \* times it was started
    ready, tasks,   \* of the export: IsReady, and the number of the start whose jobs it holds, or 0
    db,             \* none, open, closed
    queue,
    rep,            \* what each reporter does: at, the record, the queue it has read
    real,           \* the flush job of each start: at, enable, the queue it has read
    snap,           \* the snapshot job of each start: at, enable, pages written
    bound,          \* which bounds hold
    running,        \* the process has not been ended by a panic
    reported,       \* records appended to the queue, numbered; counted for the bound
    snapshots,      \* counted for the bound
    written, lost,  \* history: times a record was written, was in a failed insert or a dropped queue
    raced           \* history: two goroutines were between reading and replacing the queue

serviceVars == <<service, starts, ready, tasks, running>>
jobVars == <<real, snap>>
dataVars == <<db, written, lost, bound>>
vars == <<serviceVars, jobVars, dataVars, queue, rep, reported, snapshots, raced>>

Start == 1 .. Max({b.starts : b \in Bounds})
Record == 1 .. Max({b.records : b \in Bounds})
Idle == [at |-> "idle", rec |-> 0, seen |-> <<>>]
NoJob == [at |-> "none", enable |-> FALSE, seen |-> <<>>]
NoSnap == [at |-> "none", enable |-> FALSE, pages |-> <<>>, failed |-> FALSE]
NoTimes == [k \in Record |-> 0]

Init ==
    /\ service = "off" /\ starts = 0 /\ ready = FALSE /\ tasks = 0 /\ db = "none" /\ queue = <<>>
    /\ rep = [r \in Reporter |-> Idle]
    /\ real = [n \in Start |-> NoJob] /\ snap = [n \in Start |-> NoSnap]
    /\ bound \in Bounds /\ running = TRUE
    /\ reported = 0 /\ snapshots = 0 /\ written = NoTimes /\ lost = NoTimes
    /\ raced = FALSE

\* Goroutines between reading and replacing the queue.
Inside ==
    {r \in Reporter : rep[r].at \in {"store", "replace"}}
      \union {<<"real", n>> : n \in {k \in Start : real[k].at = "replace"}}

----------------------------------------------------------------------------
(***************************************************************************)
(* The database: writes run side by side, and SQLite may refuse one that   *)
(* meets another; a closed database refuses all.                           *)
(***************************************************************************)
Writing == Cardinality({r \in Reporter : rep[r].at = "write"}) + Cardinality({n \in Start : real[n].at = "write"})
             + Cardinality({n \in Start : snap[n].at = "write"})

MayFail == db # "open" \/ Writing > 1

Times(s, k) == Cardinality({i \in DOMAIN s : s[i] = k})
Add(times, s) == [k \in Record |-> times[k] + Times(s, k)]

Insert(records) ==
    \/ db = "open" /\ written' = Add(written, records) /\ UNCHANGED lost
    \/ MayFail /\ lost' = Add(lost, records) /\ UNCHANGED written

----------------------------------------------------------------------------
(***************************************************************************)
(* Reporters: Export asks IsReady, then calls ExportTo.                    *)
(***************************************************************************)
Report(r) ==
    /\ rep[r].at = "idle" /\ ready /\ reported < bound.records
    /\ reported' = reported + 1
    /\ rep' = [rep EXCEPT ![r] = [at |-> "load", rec |-> reported', seen |-> <<>>]]
    /\ UNCHANGED <<serviceVars, jobVars, dataVars, queue, snapshots, raced>>

Load(r) ==
    /\ rep[r].at = "load"
    /\ rep' = [rep EXCEPT ![r].at = "store", ![r].seen = queue]
    /\ raced' = (raced \/ Inside # {})
    /\ UNCHANGED <<serviceVars, jobVars, dataVars, queue, reported, snapshots>>

Store(r) ==
    /\ rep[r].at = "store"
    /\ queue' = Append(rep[r].seen, rep[r].rec)
    /\ rep' = [rep EXCEPT ![r].at = "full", ![r].seen = <<>>]
    /\ UNCHANGED <<serviceVars, jobVars, dataVars, reported, snapshots, raced>>

\* The reporter that finds the queue full takes it.
Full(r) ==
    /\ rep[r].at = "full"
    /\ IF Len(queue) >= WriteNum
       THEN /\ rep' = [rep EXCEPT ![r].at = "replace", ![r].seen = queue]
            /\ raced' = (raced \/ Inside # {})
       ELSE rep' = [rep EXCEPT ![r] = Idle] /\ UNCHANGED raced
    /\ UNCHANGED <<serviceVars, jobVars, dataVars, queue, reported, snapshots>>

\* The full queue is written without being emptied.
Replace_Mutant(r) ==
    /\ rep[r].at = "replace"
    /\ rep' = [rep EXCEPT ![r].at = "write"]
    /\ UNCHANGED <<serviceVars, jobVars, dataVars, queue, reported, snapshots, raced>>

Replace(r) ==
    /\ rep[r].at = "replace"
    /\ queue' = <<>>
    /\ rep' = [rep EXCEPT ![r].at = "write"]
    /\ UNCHANGED <<serviceVars, jobVars, dataVars, reported, snapshots, raced>>

Write(r) ==
    /\ rep[r].at = "write"
    /\ Insert(rep[r].seen)
    /\ rep' = [rep EXCEPT ![r] = Idle]
    /\ UNCHANGED <<serviceVars, jobVars, db, bound, queue, reported, snapshots, raced>>

----------------------------------------------------------------------------
(***************************************************************************)
(* Jobs: Future.run                                                        *)
(***************************************************************************)
RealTick(n) ==
    /\ real[n].at = "wait"
    /\ real' = [real EXCEPT ![n].at = IF real[n].enable THEN "take" ELSE "ended"]
    /\ UNCHANGED <<serviceVars, snap, dataVars, queue, rep, reported, snapshots, raced>>

\* The job, too, waits for a full queue.
RealTake_Mutant(n) ==
    /\ real[n].at = "take"
    /\ IF Len(queue) < WriteNum THEN real' = [real EXCEPT ![n].at = "wait"] /\ UNCHANGED raced
       ELSE /\ real' = [real EXCEPT ![n].at = "replace", ![n].seen = queue]
            /\ raced' = (raced \/ Inside # {})
    /\ UNCHANGED <<serviceVars, snap, dataVars, queue, rep, reported, snapshots>>

RealTake(n) ==
    /\ real[n].at = "take"
    /\ IF queue = <<>> THEN real' = [real EXCEPT ![n].at = "wait"] /\ UNCHANGED raced
       ELSE /\ real' = [real EXCEPT ![n].at = "replace", ![n].seen = queue]
            /\ raced' = (raced \/ Inside # {})
    /\ UNCHANGED <<serviceVars, snap, dataVars, queue, rep, reported, snapshots>>

RealReplace(n) ==
    /\ real[n].at = "replace"
    /\ queue' = <<>>
    /\ real' = [real EXCEPT ![n].at = "write"]
    /\ UNCHANGED <<serviceVars, snap, dataVars, rep, reported, snapshots, raced>>

RealWrite(n) ==
    /\ real[n].at = "write"
    /\ Insert(real[n].seen)
    /\ real' = [real EXCEPT ![n].at = "wait", ![n].seen = <<>>]
    /\ UNCHANGED <<serviceVars, snap, db, bound, queue, rep, reported, snapshots, raced>>

\* The devices of the shadow are read once; an empty list has no page.
SnapTick(n) ==
    /\ snap[n].at = "wait" /\ (snap[n].enable => snapshots < bound.snapshots)
    /\ IF ~snap[n].enable THEN snap' = [snap EXCEPT ![n].at = "ended"] /\ UNCHANGED snapshots
       ELSE /\ snap' = [snap EXCEPT ![n] = [@ EXCEPT !.at = IF bound.devices = 0 THEN "wait" ELSE "write",
                                                     !.pages = <<>>, !.failed = FALSE]]
            /\ snapshots' = snapshots + 1
    /\ UNCHANGED <<serviceVars, real, dataVars, queue, rep, reported, raced>>

PageCount == (bound.devices + PageSize - 1) \div PageSize

\* Both ends of a page counted in.
Page_Mutant(i) == {d \in 1 .. bound.devices : d >= (i - 1) * PageSize /\ d <= i * PageSize}

\* The devices of page i: from where the last began to add up, to the end of the list.
Page(i) == {d \in 1 .. bound.devices : d > (i - 1) * PageSize /\ d <= i * PageSize}

SnapWrite(n) ==
    /\ snap[n].at = "write"
    /\ LET job == snap[n]
           i == Len(job.pages) + 1
       IN  \E good \in BOOLEAN :
             /\ IF good THEN db = "open" ELSE MayFail
             /\ snap' = [snap EXCEPT ![n] = [job EXCEPT !.pages = Append(job.pages, IF good THEN Page(i) ELSE {}),
                                                        !.failed = job.failed \/ ~good,
                                                        !.at = IF i = PageCount THEN "wait" ELSE "write"]]
    /\ UNCHANGED <<serviceVars, real, dataVars, queue, rep, reported, snapshots, raced>>

----------------------------------------------------------------------------
(***************************************************************************)
(* Start and Stop                                                          *)
(***************************************************************************)
\* Init of the export; without its directory or database it fails before it has jobs.
ServiceStart ==
    /\ service = "off" /\ starts < bound.starts
    /\ starts' = starts + 1 /\ service' = "up"
    /\ \/ /\ db' = "open" /\ ready' = TRUE /\ tasks' = starts'
          /\ real' = [real EXCEPT ![starts'] = [NoJob EXCEPT !.at = "wait", !.enable = TRUE]]
          /\ snap' = [snap EXCEPT ![starts'] = [NoSnap EXCEPT !.at = "wait", !.enable = TRUE]]
       \/ UNCHANGED <<db, ready, tasks, jobVars>>
    /\ UNCHANGED <<running, written, lost, bound, queue, rep, reported, snapshots, raced>>

\* Stop: Clear disables every job that the crontab lists.
Clear ==
    /\ service = "up"
    /\ service' = "clear"
    /\ real' = [n \in Start |-> [real[n] EXCEPT !.enable = FALSE]]
    /\ snap' = [n \in Start |-> [snap[n] EXCEPT !.enable = FALSE]]
    /\ UNCHANGED <<starts, ready, tasks, running, dataVars, queue, rep, reported, snapshots, raced>>

\* Destroy: an export whose first Init failed has no jobs to disable, and panics.
NotReady ==
    /\ service = "clear"
    /\ ready' = FALSE /\ service' = "destroy"
    /\ running' = (tasks # 0)
    /\ UNCHANGED <<starts, tasks, jobVars, dataVars, queue, rep, reported, snapshots, raced>>

Destroy ==
    /\ service = "destroy"
    /\ lost' = Add(lost, queue) /\ queue' = <<>>
    /\ raced' = (raced \/ Inside # {})
    /\ db' = "closed" /\ service' = "off"
    /\ UNCHANGED <<starts, ready, tasks, running, jobVars, written, bound, rep, reported, snapshots>>

Step ==
    \/ \E r \in Reporter : Report(r) \/ Load(r) \/ Store(r) \/ Full(r) \/ Replace(r) \/ Write(r)
    \/ \E n \in Start : RealTick(n) \/ RealTake(n) \/ RealReplace(n) \/ RealWrite(n)
    \/ \E n \in Start : SnapTick(n) \/ SnapWrite(n)
    \/ ServiceStart \/ Clear \/ NotReady \/ Destroy

\* Two goroutines in the unlocked steps at once may lose or double any record: nothing is asked after it.
Next == running /\ ~raced /\ Step

\* The ticker of the flush job goes on firing, and a write of the job ends.
Goes == running /\ ~raced /\ \E n \in Start : RealTick(n) \/ RealTake(n) \/ RealReplace(n) \/ RealWrite(n)

Fairness == WF_vars(Goes)

Spec == Init /\ [][Next]_vars /\ Fairness

----------------------------------------------------------------------------
(***************************************************************************)
(* A record that was appended to the queue is in one place, once: in the   *)
(* queue, in a batch that is being written, in the database, in a failed   *)
(* insert or in a queue that Destroy dropped.  Only where two goroutines   *)
(* were between reading and replacing the queue may it be lost or doubled  *)
(* (export.go:91-93 and 143-150).                                          *)
(***************************************************************************)
Batches(k) ==
    Cardinality({r \in Reporter : rep[r].at = "write" /\ k \in ToSet(rep[r].seen)})
      + Cardinality({n \in Start : real[n].at = "write" /\ k \in ToSet(real[n].seen)})

Appended == {k \in 1 .. reported : \A r \in Reporter : rep[r].at \in {"load", "store"} => rep[r].rec # k}

RecordsAreConserved ==
    ~raced => \A k \in Appended :
        Times(queue, k) + Batches(k) + written[k] + lost[k] = 1

(***************************************************************************)
(* The queue of a service that goes on is empty again and again: its flush *)
(* job takes what is in it, whether or not it fills up.                    *)
(***************************************************************************)
QueueIsFlushed == []<>(queue = <<>> \/ service # "up" \/ ~ready \/ raced)

(***************************************************************************)
(* A snapshot whose inserts were all good has every device in one of its   *)
(* pages, and no device in two (data_insert.go:62-121).                    *)
(***************************************************************************)
SnapshotsAreComplete ==
    \A n \in Start : snap[n].at = "wait" /\ snap[n].pages # <<>> /\ ~snap[n].failed =>
        \A d \in 1 .. bound.devices : Cardinality({i \in DOMAIN snap[n].pages : d \in snap[n].pages[i]}) = 1

=============================================================================
