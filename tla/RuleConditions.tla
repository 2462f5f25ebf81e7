--------------------------- MODULE RuleConditions ---------------------------
(***************************************************************************)
(* When a rule of the link edge export may run (exports/linkedge).         *)
(*                                                                         *)
(* checkConditions decides whether the conditions of a rule hold: of       *)
(* points, of moments, of days of the year, of fields of the date and of   *)
(* the time of day.  devicePointTriggerHandler starts a rule for a         *)
(* reported value that satisfies one of its triggers, or has satisfied it  *)
(* for the trigger's duration.  Every report is handled in the goroutine   *)
(* it came from; the map of triggers has no lock, and the handler looks    *)
(* the trigger it walks up again to read and write its starting time.      *)
(*                                                                         *)
(* Years, months, days and weeks are lists that the field must be in, and  *)
(* one type here, "field".  Numbers are compared as 32-bit floats.         *)
(***************************************************************************)
EXTENDS Naturals, Sequences, FiniteSets, SequencesExt

CONSTANTS
    Lists,       \* conditions of a rule, to be checked
    Dates,       \* moments: year, month, day, week, minute of the day, milliseconds
    Readings,    \* the value the shadow gives for a point, or Missing
    Exact,       \* integers from Exact on lose their last bit (2^24 in a 32-bit float)
    Triggers,    \* triggers of the rule: sequences of [sym, want, duration]
    Reporter,    \* goroutines that export values of the point
    Reported,    \* the values they report
    MaxClock,    \* bound: seconds
    MaxUpdates,  \* bound: updates of the rule
    Missing, NotANumber

VARIABLES
    asked,       \* a list, the moment and the reading it is checked with
    clock,
    triggers,    \* triggerConditions of the rule
    start,       \* DurationStartTime of each, or 0
    handler,     \* each reporter: the value, the walk over the triggers
    updates,
    fired,       \* the last trigger that started the rule
    since,       \* history: when a report last failed each trigger
    overlapped,  \* history: two reports were handled at once
    crossed,     \* history: the triggers changed under a walk
    alive        \* the process has not ended

vars == <<asked, clock, triggers, start, handler, updates, fired, since, overlapped, crossed, alive>>

----------------------------------------------------------------------------
(***************************************************************************)
(* Points                                                                  *)
(***************************************************************************)

Symbols == {"=", "!=", ">", ">=", "<", "<="}

Float(n) == IF n < Exact THEN n ELSE 2 * (n \div 2)

Compare(sym, x, y) ==
    CASE sym = "="  -> x = y
      [] sym = "!=" -> x # y
      [] sym = ">"  -> x > y
      [] sym = ">=" -> x >= y
      [] sym = "<"  -> x < y
      [] sym = "<=" -> x <= y
      [] OTHER      -> TRUE

\* Mutant of Satisfies: at the bound, ">" is taken for ">=".
Satisfies_Mutant(sym, want, p) ==
    IF p.str
    THEN (sym = "=" /\ want = p.v) \/ (sym = "!=" /\ want # p.v)
    ELSE /\ NotANumber \notin {p.v, want}
         /\ Compare(IF sym = ">" THEN ">=" ELSE sym, Float(p.v), Float(want))

\* Strings are only equal or not; numbers are parsed from the text of value and condition.
Satisfies(sym, want, p) ==
    IF p.str
    THEN (sym = "=" /\ want = p.v) \/ (sym = "!=" /\ want # p.v)
    ELSE NotANumber \notin {p.v, want} /\ Compare(sym, Float(p.v), Float(want))

----------------------------------------------------------------------------
(***************************************************************************)
(* Dates                                                                   *)
(***************************************************************************)

Leap(y) == y % 4 = 0 /\ (y % 100 # 0 \/ y % 400 = 0)

Lengths(y) == <<31, IF Leap(y) THEN 29 ELSE 28, 31, 30, 31, 30, 31, 31, 30, 31, 30, 31>>

\* The days before each month, in a year that is not a leap year.
DaysBefore == <<0, 31, 59, 90, 120, 151, 181, 212, 243, 273, 304, 334>>

YearDay(y, m, d) == DaysBefore[m] + d + (IF Leap(y) /\ m > 2 THEN 1 ELSE 0)

\* A moment in minutes; days beyond the end of a month, and months beyond the year's, run over.
Instant(y, m, d, minute) ==
    IF m > 12 THEN (366 * (y + 1) + YearDay(y + 1, m - 12, d)) * 1440 + minute
    ELSE (366 * y + YearDay(y, m, d)) * 1440 + minute

\* "01-02" with the present year in front; 29 February is the 28th where four does not divide it.
NoDay == 0
ParseDate(y, day) ==
    LET md == IF day = <<2, 29>> /\ y % 4 # 0 THEN <<2, 28>> ELSE day
    IN IF md[2] <= Lengths(y)[md[1]] THEN YearDay(y, md[1], md[2]) ELSE NoDay

\* parseDate gives the first of January of the year 0; AddDate adds the present date to it.
VerifyTimes(begin, end, t) ==
    LET now == Instant(t.year, t.month, t.day, t.minute)
        On(minute) == Instant(0 + t.year, 1 + t.month, 1 + t.day, minute)
    IN On(begin) < now /\ now < On(end)

WithinDates(c, t) ==
    LET begin == ParseDate(t.year, c.begin)
        end == ParseDate(t.year, c.end)
        today == YearDay(t.year, t.month, t.day)
    IN NoDay \notin {begin, end}
         /\ today \in (IF end > begin THEN begin .. end ELSE 1 .. end \union begin .. 366)

----------------------------------------------------------------------------
(***************************************************************************)
(* checkConditions                                                         *)
(***************************************************************************)

Verdict(b) == IF b THEN "next" ELSE "error"

\* What one condition does to the walk: the next one is looked at, or the walk ends.
CheckCondition(c, t, reading) ==
    CASE c.type = "lastTime"    -> "next"
      [] c.type = "devicePoint" -> Verdict(c.complete /\ reading # Missing /\ Satisfies(c.sym, c.want, reading))
      [] c.type = "executeTime" -> Verdict(c.begin <= t.ms /\ t.ms <= c.end)
      [] c.type = "dateInterval" -> IF c.open \/ WithinDates(c, t) THEN "ok" ELSE "error"
      [] c.type = "field"       -> Verdict(t[c.field] \in c.list)
      [] c.type = "times"       -> Verdict(VerifyTimes(c.begin, c.end, t))
      [] OTHER                  -> "next"

\* Mutant of checkConditions: the first condition that holds decides.
checkConditions_Mutant(list, t, reading) ==
    list = <<>> \/ \E i \in DOMAIN list : CheckCondition(list[i], t, reading) # "error"

checkConditions(list, t, reading) ==
    LET outcomes == [i \in DOMAIN list |-> CheckCondition(list[i], t, reading)]
        first == SelectInSeq(outcomes, LAMBDA o : o # "next")
    IN first = 0 \/ outcomes[first] = "ok"

----------------------------------------------------------------------------
(***************************************************************************)
(* devicePointTriggerHandler                                               *)
(***************************************************************************)

Idle == [at |-> "idle", value |-> Missing, walked |-> <<>>, i |-> 0, all |-> FALSE]
NotFired == [at |-> 0, trigger |-> Missing, since |-> 0, value |-> Missing]

Init ==
    /\ asked \in [list : Lists, date : Dates, reading : Readings]
    /\ clock = 1 /\ triggers \in Triggers
    /\ start = [i \in DOMAIN triggers |-> 0]
    /\ handler = [r \in Reporter |-> Idle] /\ updates = 0
    /\ fired = NotFired /\ since = [i \in DOMAIN triggers |-> 0]
    /\ overlapped = FALSE /\ crossed = FALSE /\ alive = TRUE

Walking == \E r \in Reporter : handler[r].at # "idle"

\* DoExport hands over every report (all), ExportTo those that passed the filter.
Report(r, v, all) ==
    /\ alive /\ handler[r].at = "idle"
    /\ handler' = [handler EXCEPT ![r] = [at |-> "walk", value |-> v, walked |-> triggers, i |-> 1, all |-> all]]
    /\ overlapped' = (overlapped \/ Walking)
    /\ since' = [i \in DOMAIN triggers |->
                    IF all /\ ~Satisfies(triggers[i].sym, triggers[i].want, v) THEN clock ELSE since[i]]
    /\ UNCHANGED <<asked, clock, triggers, start, updates, fired, crossed, alive>>

Fire(c, v, held) == fired' = [at |-> clock, trigger |-> c, since |-> held, value |-> v]

\* The starting time of a trigger after a report: satisfied tells whether it satisfies the trigger,
\* long whether it has done so for long enough.
\* Mutant of NewStart: a value that fails leaves the starting time alone.
NewStart_Mutant(satisfied, long, old) == IF satisfied /\ (old = 0 \/ long) THEN clock ELSE old

NewStart(satisfied, long, old) ==
    IF ~satisfied THEN 0
    ELSE IF old = 0 \/ long THEN clock ELSE old

\* One turn of the loop over the triggers the walk began with.
WalkDuration(r, i, c, satisfied) ==
    IF i > Len(triggers)
    THEN alive' = FALSE /\ UNCHANGED <<start, fired>>
    ELSE LET long == start[i] # 0 /\ clock - start[i] >= c.duration
         IN /\ start' = [start EXCEPT ![i] = NewStart(satisfied, long, @)]
            /\ IF satisfied /\ long THEN Fire(c, handler[r].value, since[i]) ELSE UNCHANGED fired
            /\ UNCHANGED alive

WalkAtOnce(r, c, satisfied) ==
    /\ IF satisfied THEN Fire(c, handler[r].value, clock) ELSE UNCHANGED fired
    /\ UNCHANGED <<start, alive>>

Walk(r) ==
    LET h == handler[r]
        c == h.walked[h.i]
        satisfied == Satisfies(c.sym, c.want, h.value)
    IN /\ alive /\ h.at = "walk" /\ h.i <= Len(h.walked)
       /\ handler' = [handler EXCEPT ![r].i = @ + 1]
       /\ IF h.all # (c.duration > 0) THEN UNCHANGED <<start, fired, alive>>
          ELSE IF h.all THEN WalkDuration(r, h.i, c, satisfied) ELSE WalkAtOnce(r, c, satisfied)
       /\ UNCHANGED <<asked, clock, triggers, updates, since, overlapped, crossed>>

EndWalk(r) ==
    /\ alive /\ handler[r].at = "walk" /\ handler[r].i > Len(handler[r].walked)
    /\ handler' = [handler EXCEPT ![r] = Idle]
    /\ UNCHANGED <<asked, clock, triggers, start, updates, fired, since, overlapped, crossed, alive>>

\* An update deletes the rule and registers it again, trigger by trigger.
Delete ==
    /\ alive /\ updates < MaxUpdates
    /\ triggers' = <<>> /\ start' = <<>> /\ since' = <<>>
    /\ updates' = updates + 1
    /\ crossed' = (crossed \/ Walking)
    /\ UNCHANGED <<asked, clock, handler, fired, overlapped, alive>>

registerTrigger ==
    /\ alive
    /\ \E ts \in Triggers :
          /\ triggers # ts /\ IsPrefix(triggers, ts)
          /\ triggers' = Append(triggers, ts[Len(triggers) + 1])
    /\ start' = Append(start, 0) /\ since' = Append(since, clock)
    /\ crossed' = (crossed \/ Walking)
    /\ UNCHANGED <<asked, clock, handler, updates, fired, overlapped, alive>>

Tick ==
    /\ alive /\ clock < MaxClock
    /\ clock' = clock + 1
    /\ UNCHANGED <<asked, triggers, start, handler, updates, fired, since, overlapped, crossed, alive>>

Next ==
    \/ \E r \in Reporter : Walk(r) \/ EndWalk(r) \/ \E v \in Reported, all \in BOOLEAN : Report(r, v, all)
    \/ Delete \/ registerTrigger \/ Tick

Spec == Init /\ [][Next]_vars

----------------------------------------------------------------------------
\* What a condition says, apart from how it is checked.
Holds(c, t, reading) ==
    CASE c.type = "devicePoint" ->
            /\ c.complete /\ reading # Missing
            /\ IF reading.str
               THEN c.sym \in {"=", "!="} /\ (c.sym = "=" <=> c.want = reading.v)
               ELSE NotANumber \notin {c.want, reading.v} /\ Compare(c.sym, reading.v, c.want)
      [] c.type = "executeTime" -> t.ms \in c.begin .. c.end
      [] c.type = "dateInterval" ->
            LET begin == ParseDate(t.year, c.begin)
                end == ParseDate(t.year, c.end)
                today == YearDay(t.year, t.month, t.day)
            IN \/ c.open
               \/ /\ NoDay \notin {begin, end}
                  /\ (begin <= today /\ today <= end) \/ (end < begin /\ (today >= begin \/ today <= end))
      [] c.type = "field" -> t[c.field] \in c.list
      [] c.type = "times" -> c.begin < t.minute /\ t.minute < c.end
      [] OTHER -> TRUE

\* Where the check is known to go wrong: an interval of dates ends it, whatever conditions follow,
\* and one of a single day holds on every day; times of day never hold; a comparison the code does
\* not know holds of every number; numbers beyond Exact are rounded.
Strange(c, t, reading) ==
    \/ c.type \in {"dateInterval", "times"}
    \/ c.type = "devicePoint" /\ c.sym \notin Symbols
    \/ /\ c.type = "devicePoint" /\ reading # Missing /\ ~reading.str
       /\ \E n \in {c.want, reading.v} \ {NotANumber} : n >= Exact

\* A rule runs when all its conditions hold, and only then, whatever their kinds and order
\* (linkedge.go, checkConditions): for conditions that are not checked strangely, and with an
\* interval of two days or more, when it is the last (29 February counts as the 28th where it is not).
AllConditionsHold ==
    LET list == asked.list
        Day(date) == ParseDate(asked.date.year, date)
        Fair(i) == \/ ~Strange(list[i], asked.date, asked.reading)
                   \/ list[i].type = "dateInterval" /\ i = Len(list) /\ Day(list[i].begin) # Day(list[i].end)
    IN (\A i \in DOMAIN list : Fair(i))
         => (checkConditions(list, asked.date, asked.reading)
                <=> \A i \in DOMAIN list : Holds(list[i], asked.date, asked.reading))

\* A trigger with a duration starts its rule only when no report has failed it for that long, of
\* all goroutines that report (linkedge.go, devicePointTriggerHandler), unless two reports were
\* handled at once or the rule was changed meanwhile; only a change may end the process.
HeldLongEnough ==
    /\ (fired # NotFired /\ ~overlapped /\ ~crossed)
         => /\ fired.at - fired.since >= fired.trigger.duration
            /\ Satisfies(fired.trigger.sym, fired.trigger.want, fired.value)
    /\ ~alive => crossed
=============================================================================
