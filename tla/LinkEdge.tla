------------------------------ MODULE LinkEdge ------------------------------
(***************************************************************************)
(* The link edge export (exports/linkedge): rules that write points or     *)
(* start other rules when a schedule, a point or a caller triggers them.   *)
(* A rule is kept in a file, in the map of configurations, in the map of   *)
(* trigger conditions and in the map of schedules.  No lock protects them: *)
(* callers of the service, schedules and the exports' goroutines meet in   *)
(* every order.                                                            *)
(***************************************************************************)
EXTENDS Integers, Sequences, FiniteSets

CONSTANTS
    Rule,           \* identifiers of rules
    Client,         \* goroutines that create, update and delete rules, numbered
    Runner,         \* goroutines that execute rules, numbered
    Device,         \* devices that actions write to
    Conn,           \* their connections
    connOf,         \* [Device -> Conn]
    Config,         \* the configurations clients store
    Preview,        \* the configurations clients execute without storing them
    NoRule,         \* the empty identifier of Execute
    Nothing,        \* a file or an entry of a map that does not exist
    Empty,          \* a file without content
    MaxDepth,       \* nested runs: 10 in the code
    MaxCalls        \* bound: operations of clients, runs they start, and restarts

\* An action that does nothing, of an unknown type or without points, is one of 0 points.
Action == [type : {"point"}, dev : Device, points : Nat]
            \cup [type : {"rule"}, rule : Rule]

ConfigType ==
    [enable : BOOLEAN, silent : BOOLEAN, conditions : Nat, schedules : Nat,
     bad : BOOLEAN, actions : Seq(Action)]

ASSUME LinkEdgeAssumption ==
    /\ IsFiniteSet(Rule) /\ NoRule \notin Rule
    /\ Client \subseteq Nat /\ Runner \subseteq Nat
    /\ connOf \in [Device -> Conn]
    /\ Config \subseteq ConfigType /\ Preview \subseteq ConfigType
    /\ {Nothing, Empty} \cap ConfigType = {} /\ Nothing # Empty
    /\ Nothing \notin [conf : ConfigType, recent : BOOLEAN]
    /\ MaxDepth \in Nat /\ MaxCalls \in Nat

\* What json.Unmarshal leaves of an empty file: the zero value.
Blank == [enable |-> FALSE, silent |-> FALSE, conditions |-> 0, schedules |-> 0,
          bad |-> FALSE, actions |-> <<>>]

VARIABLES
    file,           \* file[r]: what <ConfigPath>/r.json holds
    configs,        \* configs[r]: Nothing, or the configuration and whether its
                    \* ExecuteTime is less than a silent period ago
    conditions,     \* conditions[r]: number of entries in triggerConditions
    schedules,      \* schedules[r]: number of functions of the rule's cron
    ready,          \* export.ready
    clients,        \* clients[c]: where an operation of c stands
    runs,           \* runs[p]: where an execution stands
    calls,          \* how many operations, starts and restarts there have been
    disturbed       \* history: see Disturbs

memory == <<configs, conditions, schedules>>
vars == <<file, memory, ready, clients, runs, calls, disturbed>>

NoPoints == [d \in Device |-> 0]
NotAdding == [d \in Device |-> -1]

IdleClient == [at |-> "idle", rule |-> NoRule, conf |-> Blank, again |-> FALSE]
IdleRun == [at |-> "idle", rule |-> NoRule, depth |-> 0, top |-> FALSE, conf |-> Blank,
            next |-> 1, sucCount |-> 0, todo |-> NoPoints, adding |-> NotAdding,
            did |-> FALSE, failed |-> FALSE]

\* Goroutines are alike: a new one takes the first number that is free.
FirstIdle(p, procs) ==
    procs[p].at = "idle" /\ \A q \in DOMAIN procs : q < p => procs[q].at # "idle"

NewCall == calls < MaxCalls /\ calls' = calls + 1

\* again: the operation is an Update, whose Delete is followed by Create.
ClientType ==
    [at : {"idle", "create", "write", "register", "undo", "remove", "stop"},
     rule : Rule \cup {NoRule}, conf : ConfigType, again : BOOLEAN]

\* todo[d]: points to write to d; adding[d]: the sucCount that the goroutine of d
\* has read and not yet written back, or -1; did and failed are history: some
\* device has taken its points, some has not.
RunType ==
    [at : {"idle", "look", "act", "writing", "get", "put"},
     rule : Rule \cup {NoRule}, depth : Nat, top : BOOLEAN, conf : ConfigType,
     next : Nat \ {0}, sucCount : Nat, todo : [Device -> Nat],
     adding : [Device -> Nat \cup {-1}], did : BOOLEAN, failed : BOOLEAN]

EntryType == [conf : ConfigType, recent : BOOLEAN]

TypeOK ==
    /\ file \in [Rule -> ConfigType \cup {Nothing, Empty}]
    /\ configs \in [Rule -> EntryType \cup {Nothing}]
    /\ conditions \in [Rule -> Nat]
    /\ schedules \in [Rule -> Nat]
    /\ ready \in BOOLEAN
    /\ clients \in [Client -> ClientType]
    /\ runs \in [Runner -> RunType]
    /\ calls \in Nat
    /\ disturbed \in [Rule -> BOOLEAN]

\* What Get makes of the files of the rules in S, and registerTrigger of their triggers.
Loaded(S) == [r \in Rule |-> IF r \notin S \/ file[r] = Nothing THEN Nothing
                             ELSE [conf |-> IF file[r] = Empty THEN Blank ELSE file[r],
                                   recent |-> FALSE]]
ConditionsOf(S) ==
    [r \in Rule |-> IF r \in S /\ file[r] # Nothing THEN file[r].conditions ELSE 0]
SchedulesOf(S) ==
    [r \in Rule |-> IF r \in S /\ file[r] # Nothing THEN file[r].schedules ELSE 0]

\* The export has started, with no rules or with rules from an earlier run.
Init ==
    /\ file \in [Rule -> {Nothing} \cup {conf \in Config : ~conf.bad}]
    /\ configs = Loaded(Rule)
    /\ conditions = ConditionsOf(Rule)
    /\ schedules = SchedulesOf(Rule)
    /\ ready = TRUE
    /\ clients = [c \in Client |-> IdleClient]
    /\ runs = [p \in Runner |-> IdleRun]
    /\ calls = 0
    /\ disturbed = [r \in Rule |-> FALSE]

-----------------------------------------------------------------------------
(* Get: from the map, or else from the file, which it then puts in the map, *)
(* even when it cannot be parsed.                                           *)

Cached(r) == configs[r] # Nothing
Found(r) == Cached(r) \/ file[r] \notin {Nothing, Empty}
ConfOf(r) == IF Cached(r) THEN configs[r].conf ELSE file[r]
Reads(r) == ~Cached(r) /\ file[r] # Nothing

AfterGet(r) ==
    IF Reads(r)
    THEN [configs EXCEPT ![r] = [conf |-> IF file[r] = Empty THEN Blank ELSE file[r],
                                 recent |-> FALSE]]
    ELSE configs

Busy(r) == \E c \in Client : clients[c].at # "idle" /\ clients[c].rule = r

(* A rule is disturbed by operations of two clients at once, by a Get that  *)
(* reads its file during one, by a Trigger that puts back a configuration   *)
(* deleted or replaced meanwhile, and by an operation that fails half way.  *)
(* A start that loads every rule settles all of them.                       *)
Disturbs(S) == disturbed' = [r \in Rule |-> disturbed[r] \/ r \in S]

DisturbedByGet(r) == IF Reads(r) /\ Busy(r) THEN {r} ELSE {}

\* Get and GetList of the service.
Get(r) ==
    /\ Reads(r)
    /\ configs' = AfterGet(r)
    /\ Disturbs(DisturbedByGet(r))
    /\ UNCHANGED <<file, conditions, schedules, ready, clients, runs, calls>>

-----------------------------------------------------------------------------
(* Operations of clients.  A step of one of them is one access to the file  *)
(* or to the maps of the rule.                                              *)

NewOp(c) ==
    /\ FirstIdle(c, clients)
    /\ NewCall

DisturbedByOp(r) == IF Busy(r) THEN {r} ELSE {}

GoesTo(c, at) == clients' = [clients EXCEPT ![c].at = at]
Returns(c) == clients' = [clients EXCEPT ![c] = IdleClient]

\* The first lines of Create: an identifier in use and an empty list of actions are
\* refused.
Create(c, r, conf) ==
    /\ NewOp(c)
    /\ ~Cached(r)
    /\ conf.actions # <<>>
    /\ clients' = [clients EXCEPT ![c] =
         [at |-> "create", rule |-> r, conf |-> conf, again |-> FALSE]]
    /\ Disturbs(DisturbedByOp(r))
    /\ UNCHANGED <<file, memory, ready, runs>>

\* Mutant of Forget: the trigger conditions stay.
Forget_Mutant(r) ==
    /\ configs' = [configs EXCEPT ![r] = Nothing]
    /\ UNCHANGED <<conditions, schedules>>

\* Delete begins: what memory has of the rule, but for its schedules.
Forget(r) ==
    /\ configs' = [configs EXCEPT ![r] = Nothing]
    /\ conditions' = [conditions EXCEPT ![r] = 0]
    /\ UNCHANGED schedules

Delete(c, r) ==
    /\ NewOp(c)
    /\ Forget(r)
    /\ clients' = [clients EXCEPT ![c] =
         [at |-> "remove", rule |-> r, conf |-> Blank, again |-> FALSE]]
    /\ Disturbs(DisturbedByOp(r))
    /\ UNCHANGED <<file, ready, runs>>

Update(c, r, conf) ==
    /\ NewOp(c)
    /\ conf.actions # <<>>
    /\ Forget(r)
    /\ clients' = [clients EXCEPT ![c] =
         [at |-> "remove", rule |-> r, conf |-> conf, again |-> TRUE]]
    /\ Disturbs(DisturbedByOp(r))
    /\ UNCHANGED <<file, ready, runs>>

\* os.Create, which also empties a file that is there.
CreateFile(c) ==
    LET r == clients[c].rule IN
    /\ clients[c].at = "create"
    /\ file' = [file EXCEPT ![r] = Empty]
    /\ GoesTo(c, "write")
    /\ UNCHANGED <<memory, ready, runs, calls, disturbed>>

CannotCreateFile(c) ==
    /\ clients[c].at = "create"
    /\ Returns(c)
    /\ UNCHANGED <<file, memory, ready, runs, calls, disturbed>>

\* Into the file that os.Create has opened; a file removed meanwhile has no name any
\* more.
Written(c) ==
    LET r == clients[c].rule IN
    IF file[r] = Nothing THEN file ELSE [file EXCEPT ![r] = clients[c].conf]

WriteFile(c) ==
    /\ clients[c].at = "write"
    /\ file' = Written(c)
    /\ GoesTo(c, "register")
    /\ UNCHANGED <<memory, ready, runs, calls, disturbed>>

\* Write or Sync fails, and nobody removes the file.
CannotWriteFile(c) ==
    /\ clients[c].at = "write"
    /\ file' \in {file, Written(c)}
    /\ Returns(c)
    /\ Disturbs({clients[c].rule})
    /\ UNCHANGED <<memory, ready, runs, calls>>

\* registerTrigger: it stops at a trigger that is not valid, here the last one.
Registered(r, conf) ==
    /\ conditions' = [conditions EXCEPT ![r] = @ + conf.conditions]
    /\ schedules' = [schedules EXCEPT ![r] = @ + conf.schedules]

Register(c) ==
    LET r == clients[c].rule IN
    /\ clients[c].at = "register"
    /\ configs' = AfterGet(r)
    /\ IF Found(r)
       THEN /\ Registered(r, ConfOf(r))
            /\ IF ConfOf(r).bad THEN GoesTo(c, "undo") ELSE Returns(c)
       ELSE /\ UNCHANGED <<conditions, schedules>>
            /\ GoesTo(c, "undo")
    /\ UNCHANGED <<file, ready, runs, calls, disturbed>>

\* Create deletes what it could not register.
Undo(c) ==
    /\ clients[c].at = "undo"
    /\ Forget(clients[c].rule)
    /\ clients' = [clients EXCEPT ![c].at = "remove", ![c].again = FALSE]
    /\ UNCHANGED <<file, ready, runs, calls, disturbed>>

Remove(c) ==
    LET r == clients[c].rule IN
    /\ clients[c].at = "remove"
    /\ file[r] # Nothing
    /\ file' = [file EXCEPT ![r] = Nothing]
    /\ GoesTo(c, "stop")
    /\ UNCHANGED <<memory, ready, runs, calls, disturbed>>

\* Delete returns the error of os.Remove and leaves the schedules alone.
NothingToRemove(c) ==
    /\ clients[c].at = "remove"
    /\ file[clients[c].rule] = Nothing
    /\ Returns(c)
    /\ UNCHANGED <<file, memory, ready, runs, calls, disturbed>>

CannotRemove(c) ==
    /\ clients[c].at = "remove"
    /\ file[clients[c].rule] # Nothing
    /\ Returns(c)
    /\ Disturbs({clients[c].rule})
    /\ UNCHANGED <<file, memory, ready, runs, calls>>

\* The end of Delete, and in an Update the check Create begins with.
StopSchedule(c) ==
    LET r == clients[c].rule IN
    /\ clients[c].at = "stop"
    /\ schedules' = [schedules EXCEPT ![r] = 0]
    /\ IF clients[c].again /\ ~Cached(r) THEN GoesTo(c, "create") ELSE Returns(c)
    /\ UNCHANGED <<file, configs, conditions, ready, runs, calls, disturbed>>

-----------------------------------------------------------------------------
(* Executions: triggerLinkEdge, and Trigger around it for those that a      *)
(* schedule, a point or a caller starts.                                    *)

NewRun(p) ==
    /\ FirstIdle(p, runs)
    /\ NewCall

Becomes(p, run) == runs' = [runs EXCEPT ![p] = run]
Ends(p) == Becomes(p, IdleRun)

Trigger(p, r) ==
    /\ NewRun(p)
    /\ Becomes(p, [IdleRun EXCEPT !.at = "look", !.rule = r, !.top = TRUE])
    /\ UNCHANGED <<file, memory, ready, clients, disturbed>>

\* Execute runs a configuration that is not stored.
Execute(p, conf) ==
    /\ NewRun(p)
    /\ Becomes(p, [IdleRun EXCEPT !.at = "look", !.conf = conf])
    /\ UNCHANGED <<file, memory, ready, clients, disturbed>>

\* The configuration a run is about to execute, and whether it has one.
Stored(p) == runs[p].rule # NoRule
HasConf(p) == Stored(p) => Found(runs[p].rule)
Conf(p) == IF Stored(p) THEN ConfOf(runs[p].rule) ELSE runs[p].conf

Silenced(p) ==
    /\ Stored(p) /\ Cached(runs[p].rule)
    /\ configs[runs[p].rule].recent
    /\ Conf(p).silent

RunGets(p) ==
    IF Stored(p)
    THEN configs' = AfterGet(runs[p].rule) /\ Disturbs(DisturbedByGet(runs[p].rule))
    ELSE UNCHANGED <<configs, disturbed>>

\* An unknown or disabled rule, a silent period, or a condition that does not hold.
Refused(p) ==
    /\ runs[p].at = "look"
    /\ RunGets(p)
    /\ Ends(p)
    /\ UNCHANGED <<file, conditions, schedules, ready, clients, calls>>

Accepted(p) ==
    /\ runs[p].at = "look"
    /\ HasConf(p)
    /\ Conf(p).enable
    /\ ~Silenced(p)
    /\ RunGets(p)
    /\ Becomes(p, [runs[p] EXCEPT !.at = "act", !.conf = Conf(p)])
    /\ UNCHANGED <<file, conditions, schedules, ready, clients, calls>>

\* The loop over the actions: those whose condition does not hold count as done.
Acting(p) == runs[p].at = "act" /\ runs[p].next <= Len(runs[p].conf.actions)

Counted(p) == [runs[p] EXCEPT !.next = @ + 1, !.sucCount = @ + 1]

Skip(p) ==
    /\ Acting(p)
    /\ Becomes(p, Counted(p))
    /\ UNCHANGED <<file, memory, ready, clients, calls, disturbed>>

\* Points of the same device are written together.
Collect(p) ==
    LET action == runs[p].conf.actions[runs[p].next] IN
    /\ Acting(p)
    /\ action.type = "point"
    /\ Becomes(p, [runs[p] EXCEPT !.next = @ + 1, !.todo[action.dev] = @ + action.points])
    /\ UNCHANGED <<file, memory, ready, clients, calls, disturbed>>

\* Mutant of NextDepth: nested runs are not counted.
NextDepth_Mutant(p) == runs[p].depth

NextDepth(p) == runs[p].depth + 1

\* A goroutine for the other rule.  The one that would be too deep returns at once.
Spawn(p, q) ==
    LET action == runs[p].conf.actions[runs[p].next]
        nested == [IdleRun EXCEPT !.at = "look", !.rule = action.rule, !.depth = NextDepth(p)] IN
    /\ Acting(p)
    /\ action.type = "rule"
    /\ FirstIdle(q, runs)
    /\ IF NextDepth(p) > MaxDepth THEN Becomes(p, Counted(p))
       ELSE runs' = [runs EXCEPT ![p] = Counted(p), ![q] = nested]
    /\ UNCHANGED <<file, memory, ready, clients, calls, disturbed>>

BeginWriting(p) ==
    /\ runs[p].at = "act" /\ ~Acting(p)
    /\ Becomes(p, [runs[p] EXCEPT !.at = "writing"])
    /\ UNCHANGED <<file, memory, ready, clients, calls, disturbed>>

\* One goroutine per connection, one device after the other.  The sum in sucCount is
\* read and written by all of them.
Pending(p, d) ==
    /\ runs[p].at = "writing"
    /\ runs[p].todo[d] > 0
    /\ \A e \in Device : connOf[e] = connOf[d] => runs[p].adding[e] = -1

WritePoints(p, d) ==
    /\ Pending(p, d)
    /\ Becomes(p, [runs[p] EXCEPT !.adding[d] = runs[p].sucCount, !.did = TRUE])
    /\ UNCHANGED <<file, memory, ready, clients, calls, disturbed>>

Added(p, d) == runs[p].adding[d] + runs[p].todo[d]

AddPoints(p, d) ==
    /\ runs[p].adding[d] # -1
    /\ Becomes(p, [runs[p] EXCEPT !.sucCount = Added(p, d), !.todo[d] = 0, !.adding[d] = -1])
    /\ UNCHANGED <<file, memory, ready, clients, calls, disturbed>>

\* Mutant of NotWritten: points count as written before the device has answered.
NotWritten_Mutant(p, d) ==
    /\ Pending(p, d)
    /\ Becomes(p, [runs[p] EXCEPT !.sucCount = @ + runs[p].todo[d], !.todo[d] = 0, !.failed = TRUE])
    /\ UNCHANGED <<file, memory, ready, clients, calls, disturbed>>

\* An unknown device, one that is offline, or an error of the device.
NotWritten(p, d) ==
    /\ Pending(p, d)
    /\ Becomes(p, [runs[p] EXCEPT !.todo[d] = 0, !.failed = TRUE])
    /\ UNCHANGED <<file, memory, ready, clients, calls, disturbed>>

\* The value of EVT_TRIGGER.
Result(p) ==
    IF runs[p].sucCount = Len(runs[p].conf.actions) THEN "success"
    ELSE IF runs[p].sucCount = 0 THEN "fail" ELSE "partSuccess"

Reports(p) == runs[p].at = "writing" /\ \A d \in Device : runs[p].todo[d] = 0

Report(p) ==
    /\ Reports(p)
    /\ IF runs[p].top THEN Becomes(p, [IdleRun EXCEPT !.at = "get", !.rule = runs[p].rule])
                      ELSE Ends(p)
    /\ UNCHANGED <<file, memory, ready, clients, calls, disturbed>>

\* Trigger notes when the rule has run: it gets the configuration again ...
GetAgain(p) ==
    LET r == runs[p].rule IN
    /\ runs[p].at = "get"
    /\ RunGets(p)
    /\ IF Found(r) THEN Becomes(p, [runs[p] EXCEPT !.at = "put", !.conf = ConfOf(r)])
                   ELSE Ends(p)
    /\ UNCHANGED <<file, conditions, schedules, ready, clients, calls>>

\* ... and puts it back.
PutBack(p) ==
    LET r == runs[p].rule IN
    /\ runs[p].at = "put"
    /\ configs' = [configs EXCEPT ![r] = [conf |-> runs[p].conf, recent |-> TRUE]]
    /\ Disturbs(IF Cached(r) /\ configs[r].conf = runs[p].conf THEN {} ELSE {r})
    /\ Ends(p)
    /\ UNCHANGED <<file, conditions, schedules, ready, clients, calls>>

\* The silent periods of the rules that have run are over.
SilenceEnds(r) ==
    /\ Cached(r) /\ configs[r].recent
    /\ configs' = [configs EXCEPT ![r].recent = FALSE]
    /\ UNCHANGED <<file, conditions, schedules, ready, clients, runs, calls, disturbed>>

-----------------------------------------------------------------------------
(* The process stops, or is killed, anywhere, and starts again.  Init loads *)
(* the rules and then registers their triggers; the first file it cannot    *)
(* read, or trigger it cannot register, ends it.                            *)

Stops ==
    /\ NewCall
    /\ clients' = [c \in Client |-> IdleClient]
    /\ runs' = [p \in Runner |-> IdleRun]
    /\ UNCHANGED file

Unreadable == {r \in Rule : file[r] = Empty}
Invalid == {r \in Rule : file[r] \notin {Nothing, Empty} /\ file[r].bad}

RegisteredFrom(S) ==
    /\ conditions' = ConditionsOf(S)
    /\ schedules' = SchedulesOf(S)

Restart ==
    /\ Stops
    /\ Unreadable \cup Invalid = {}
    /\ configs' = Loaded(Rule)
    /\ RegisteredFrom(Rule)
    /\ ready' = TRUE
    /\ disturbed' = [r \in Rule |-> FALSE]

\* GetList stops at one of the files; the other rules may have been read before.
CannotLoad ==
    /\ Stops
    /\ \E r \in Unreadable, S \in SUBSET (Rule \ Unreadable) : configs' = Loaded(S \cup {r})
    /\ RegisteredFrom({})
    /\ ready' = FALSE
    /\ UNCHANGED disturbed

CannotRegister ==
    /\ Stops
    /\ Unreadable = {}
    /\ configs' = Loaded(Rule)
    /\ \E r \in Invalid, S \in SUBSET (Rule \ Invalid) : RegisteredFrom(S \cup {r})
    /\ ready' = FALSE
    /\ UNCHANGED disturbed

-----------------------------------------------------------------------------

ClientStep(c) ==
    \/ \E r \in Rule : Delete(c, r) \/ \E conf \in Config : Create(c, r, conf) \/ Update(c, r, conf)
    \/ CreateFile(c) \/ CannotCreateFile(c) \/ WriteFile(c) \/ CannotWriteFile(c)
    \/ Register(c) \/ Undo(c)
    \/ Remove(c) \/ NothingToRemove(c) \/ CannotRemove(c) \/ StopSchedule(c)

RunStep(p) ==
    \/ Refused(p) \/ Accepted(p)
    \/ Skip(p) \/ Collect(p) \/ (\E q \in Runner : Spawn(p, q)) \/ BeginWriting(p)
    \/ \E d \in Device : WritePoints(p, d) \/ AddPoints(p, d) \/ NotWritten(p, d)
    \/ Report(p) \/ GetAgain(p) \/ PutBack(p)

Starts(p) == (\E r \in Rule : Trigger(p, r)) \/ \E conf \in Preview : Execute(p, conf)

Next ==
    \/ \E c \in Client : ClientStep(c)
    \/ \E p \in Runner : Starts(p) \/ RunStep(p)
    \/ \E r \in Rule : Get(r) \/ SilenceEnds(r)
    \/ Restart \/ CannotLoad \/ CannotRegister

Spec == Init /\ [][Next]_vars

\* Some run that can go on does: the scheduler lets goroutines run, and a request to a
\* device ends, by its timeout at the latest.
FairSpec == Spec /\ WF_vars(\E p \in Runner : RunStep(p))

-----------------------------------------------------------------------------

Agrees(r) ==
    IF file[r] = Nothing
    THEN ~Cached(r) /\ conditions[r] = 0 /\ schedules[r] = 0
    ELSE /\ file[r] # Empty
         /\ Cached(r) /\ configs[r].conf = file[r]
         /\ conditions[r] = file[r].conditions
         /\ schedules[r] = file[r].schedules

\* Between operations, what is remembered of a rule and triggers it is what its file
\* says: Create, Update and Delete, through every early return, leave the file, the
\* configuration, the conditions and the schedules of a rule in agreement, unless one of
\* the accidents named at Disturbs has happened to that rule since the export started.
RulesAgree == ready => \A r \in Rule : disturbed[r] \/ Busy(r) \/ Agrees(r)

OnePointEach(conf) ==
    \A i \in DOMAIN conf.actions : conf.actions[i].type = "point" => conf.actions[i].points = 1

\* The event EVT_TRIGGER does not say too much: "success" is only sent when no device
\* failed and "fail" only when no device took a value, whatever the goroutines of the
\* connections do to sucCount.  (Of rules whose actions write one point each: sucCount
\* counts points, and is compared with the number of actions.)
ResultIsTrue ==
    \A p \in Runner : Reports(p) /\ OnePointEach(runs[p].conf) =>
        /\ Result(p) = "success" => ~runs[p].failed
        /\ Result(p) = "fail" => ~runs[p].did

\* Rules that start themselves or one another come to an end: the depth that each run
\* hands to the next stops them.
RunsEnd == []<>(\A p \in Runner : runs[p].at = "idle")
=============================================================================
