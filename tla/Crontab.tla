------------------------------ MODULE Crontab ------------------------------
(***************************************************************************)
(* Timed jobs (pkg/crontab).  AddFunc makes a job that a ticker of its own *)
(* runs, or one of the cron library's, and appends it to a list without a  *)
(* lock; Clear disables the jobs of the list and replaces it with an empty *)
(* one when the service stops; a job's owner may disable it before.        *)
(*                                                                         *)
(* The goroutine of a ticker looks at the flag when the ticker fires, then *)
(* calls the function; Disable makes the ticker fire at once, so that the  *)
(* goroutine sees the flag and ends.  The library starts a function in a   *)
(* goroutine each time, whether or not the last has returned, and forgets  *)
(* a removed entry.                                                        *)
(***************************************************************************)
EXTENDS Naturals, Sequences, FiniteSets, Functions

CONSTANTS
    Job,
    Ticker,         \* jobs whose interval is a duration; of the others it is a cron expression
    MaxRuns         \* bound: runs of each job while it is enabled

VARIABLES
    futures,        \* the list
    adding,         \* AddFunc of each job: no, read (the list), done; and the list it has read
    job,            \* at: none, wait (the entry, or the goroutine of the ticker, is there), ended;
                    \* enable; calls that are started and not yet begun, and those running; calls
                    \* begun since the last change of enable; late: history, those that were started
                    \* when the job was disabled
    clearing,       \* Clear: no, walk; and the jobs it walks
    crossed         \* history: two goroutines were between reading and replacing the list

vars == <<futures, adding, job, clearing, crossed>>

Idle == [at |-> "no", seen |-> <<>>]

Init ==
    /\ futures = <<>> /\ clearing = Idle /\ crossed = FALSE
    /\ adding = [j \in Job |-> Idle]
    /\ job = [j \in Job |-> [at |-> "none", enable |-> FALSE, started |-> 0, running |-> 0, runs |-> 0, late |-> 0]]

Busy == {j \in Job : adding[j].at = "read"} # {} \/ clearing.at = "walk"

\* AddFunc reads the list to append to it; the library has the entry already, ...
AddRead(j) ==
    /\ adding[j].at = "no"
    /\ adding' = [adding EXCEPT ![j] = [at |-> "read", seen |-> futures]]
    /\ job' = [job EXCEPT ![j].at = IF j \in Ticker THEN @ ELSE "wait", ![j].enable = TRUE]
    /\ crossed' = (crossed \/ Busy)
    /\ UNCHANGED <<futures, clearing>>

\* ... replaces it, and starts the goroutine.
AddStore(j) ==
    /\ adding[j].at = "read"
    /\ futures' = Append(adding[j].seen, j)
    /\ adding' = [adding EXCEPT ![j] = [at |-> "done", seen |-> <<>>]]
    /\ job' = [job EXCEPT ![j].at = IF j \in Ticker THEN "wait" ELSE @]
    /\ UNCHANGED <<clearing, crossed>>

\* The goroutine of a ticker calls the function itself, and is not there while the function runs.
Waits(j) == j \in Ticker /\ job[j].at = "wait" /\ job[j].started = 0 /\ job[j].running = 0

\* Mutant of Fire: the flag is not looked at before the function is called.
Fire_Mutant(j) ==
    /\ Waits(j) /\ job[j].runs < MaxRuns
    /\ job' = [job EXCEPT ![j].started = 1]
    /\ UNCHANGED <<futures, adding, clearing, crossed>>

\* run: the ticker fires; the flag is looked at first.
Fire(j) ==
    /\ Waits(j)
    /\ IF job[j].enable
       THEN job[j].runs < MaxRuns /\ job' = [job EXCEPT ![j].started = 1]
       ELSE job' = [job EXCEPT ![j].at = "ended"]
    /\ UNCHANGED <<futures, adding, clearing, crossed>>

\* The library starts a goroutine for an entry that it still has.
FireCron(j) ==
    /\ j \notin Ticker /\ job[j].at = "wait" /\ job[j].started + job[j].runs < MaxRuns
    /\ job' = [job EXCEPT ![j].started = @ + 1]
    /\ UNCHANGED <<futures, adding, clearing, crossed>>

Call(j) ==
    /\ job[j].started > 0
    /\ job' = [job EXCEPT ![j].started = @ - 1, ![j].running = @ + 1, ![j].runs = @ + 1]
    /\ UNCHANGED <<futures, adding, clearing, crossed>>

Return(j) ==
    /\ job[j].running > 0
    /\ job' = [job EXCEPT ![j].running = @ - 1]
    /\ UNCHANGED <<futures, adding, clearing, crossed>>

\* Disable: a ticker fires at once, an entry of the library is removed.
Disabled(js) ==
    [j \in Job |->
        IF j \in js /\ job[j].enable
        THEN [job[j] EXCEPT !.at = IF j \in Ticker THEN @ ELSE "ended", !.enable = FALSE, !.runs = 0,
                            !.late = job[j].started]
        ELSE job[j]]

Disable(j) ==
    /\ adding[j].at = "done" /\ job[j].enable
    /\ job' = Disabled({j})
    /\ UNCHANGED <<futures, adding, clearing, crossed>>

\* Clear walks the list as it is when it begins, ...
ClearBegin ==
    /\ clearing.at = "no" /\ futures # <<>>
    /\ clearing' = [at |-> "walk", seen |-> futures]
    /\ crossed' = (crossed \/ Busy)
    /\ UNCHANGED <<futures, adding, job>>

\* The list is emptied, and its jobs go on.
ClearEnd_Mutant ==
    /\ clearing.at = "walk"
    /\ futures' = <<>> /\ clearing' = Idle
    /\ UNCHANGED <<adding, job, crossed>>

\* ... and replaces it.
ClearEnd ==
    /\ clearing.at = "walk"
    /\ job' = Disabled(Range(clearing.seen))
    /\ futures' = <<>> /\ clearing' = Idle
    /\ UNCHANGED <<adding, crossed>>

Next ==
    \/ \E j \in Job : AddRead(j) \/ AddStore(j) \/ Fire(j) \/ FireCron(j) \/ Call(j) \/ Return(j) \/ Disable(j)
    \/ ClearBegin \/ ClearEnd

Spec == Init /\ [][Next]_vars

----------------------------------------------------------------------------
(***************************************************************************)
(* A job that goes on is in the list, so the Clear of the next stop ends   *)
(* it, unless AddFunc met another AddFunc or Clear (crontab.go:43-76).     *)
(***************************************************************************)
JobsAreListed ==
    crossed \/ \A j \in Job : job[j].enable /\ adding[j].at = "done" => j \in Range(futures)

(***************************************************************************)
(* A disabled job begins no call but those that were started before: of a  *)
(* ticker at most one, where its flag had been looked at; of an entry of   *)
(* the library as many as it had goroutines (crontab.go:78-98).            *)
(***************************************************************************)
LateRuns ==
    \A j \in Job : ~job[j].enable => job[j].runs <= job[j].late /\ (j \in Ticker => job[j].runs <= 1)

=============================================================================
