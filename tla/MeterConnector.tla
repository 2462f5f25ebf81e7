-------------------------- MODULE MeterConnector --------------------------
(***************************************************************************)
(* A serial line of electricity meters (plugins/dlt645/internal, with the  *)
(* client of core: dlt645client.go, messageAnalysis.go, serial.go).        *)
(*                                                                         *)
(* Every readable point is a group of its own under its meter.  A job of   *)
(* one second asks for the groups that are due; the client opens the line  *)
(* when it may, writes a request, and takes all that arrives until the     *)
(* line has been silent for a time-out as the answer.  It does not look    *)
(* whose answer it is.                                                     *)
(*                                                                         *)
(* A frame is what a meter sends: some octets of preamble, and nothing, an *)
(* answer, an answer whose digits are wrong, or a refusal; point is what   *)
(* was measured.  A frame that arrives after the time-out waits in the     *)
(* line for the next read.                                                 *)
(***************************************************************************)
EXTENDS Naturals, Sequences, FiniteSets, FiniteSetsExt

CONSTANTS
    Lines,     \* configurations: enable, auto (reconnect), virtual, and the points in order
    MaxLate,   \* bound: frames that arrive late
    MaxPreamble

VARIABLES
    line,      \* the configured line
    stage,     \* "new", "run", or "still": nothing is collected
    due,       \* points whose period is over
    job,       \* the collection job
    close,     \* the flag of Close
    closing,   \* what Close has done: "no", "flag", "task" (disabled), "port" (closed)
    port,      \* the port is open
    waiting,   \* frames that have arrived since the last read
    report,    \* the last exported value: the point, and whose value it is
    late,      \* frames that have arrived late
    crossed,   \* the job had passed its look at the flag when Close set it
    alive

meterVars == <<line, stage, due, job, close, closing, port, waiting, report, late, crossed, alive>>
setup == <<line, stage>>
ending == <<close, closing, crossed>>
wire == <<port, waiting, late>>

NoJob == [pc |-> "idle", left |-> {}, meter |-> 0, i |-> 1]
NoReport == [kind |-> "none", point |-> <<0, 0>>, of |-> <<0, 0>>]

\* The points of a meter, in order: its groups.  A point is its meter and its number.
Groups(m) == SelectSeq(line.points, LAMBDA p : p[1] = m)
Meters == {line.points[i][1] : i \in DOMAIN line.points}

Init ==
    /\ line \in Lines /\ stage = "new"
    /\ due = {} /\ job = NoJob
    /\ close = FALSE /\ closing = "no" /\ crossed = FALSE
    /\ port = FALSE /\ waiting = <<>> /\ late = 0
    /\ report = NoReport /\ alive = TRUE

----------------------------------------------------------------------------
\* A line that cannot be opened is kept all the same.
Start ==
    /\ stage = "new"
    /\ port' \in BOOLEAN
    /\ stage' = IF line.enable /\ Meters # {} THEN "run" ELSE "still"
    /\ due' = {line.points[i] : i \in DOMAIN line.points}
    /\ UNCHANGED <<line, job, ending, waiting, late, report, alive>>

Running == stage = "run" /\ alive

JobBegin ==
    /\ Running /\ job.pc = "idle" /\ closing \in {"no", "flag"}
    /\ job' = [NoJob EXCEPT !.pc = "walk", !.left = Meters]
    /\ UNCHANGED <<setup, due, ending, wire, report, alive>>

NextMeter ==
    /\ Running /\ job.pc = "walk" /\ job.left # {}
    /\ \E m \in job.left : job' = [pc |-> "groups", left |-> job.left \ {m}, meter |-> m, i |-> 1]
    /\ UNCHANGED <<setup, due, ending, wire, report, alive>>

\* The next group of the meter that is due; none, or the flag of Close, ends the meter.
NextGroup_Blind ==
    /\ Running /\ job.pc = "groups"
    /\ LET open == {i \in DOMAIN Groups(job.meter) : i >= job.i /\ Groups(job.meter)[i] \in due}
       IN IF open = {} THEN job' = [job EXCEPT !.pc = "walk"]
          ELSE job' = [job EXCEPT !.pc = "ask", !.i = Min(open)]
    /\ UNCHANGED <<setup, due, ending, wire, report, alive>>

NextGroup ==
    /\ Running /\ job.pc = "groups"
    /\ LET open == {i \in DOMAIN Groups(job.meter) : i >= job.i /\ Groups(job.meter)[i] \in due}
       IN IF close \/ open = {} THEN job' = [job EXCEPT !.pc = "walk"]
          ELSE job' = [job EXCEPT !.pc = "ask", !.i = Min(open)]
    /\ UNCHANGED <<setup, due, ending, wire, report, alive>>

----------------------------------------------------------------------------
(***************************************************************************)
(* The client                                                              *)
(***************************************************************************)
Asked == Groups(job.meter)[job.i]

Invalid == [kind |-> "invalid", of |-> <<0, 0>>]
Panics == [kind |-> "panic", of |-> <<0, 0>>]
Zero == [kind |-> "zero", of |-> <<0, 0>>]

Preamble(frames) == FoldFunction(LAMBDA f, n : f.preamble + n, 0, frames)

\* analysis: the preamble is skipped two octets at a time, and nothing may be left after it; one
\* answer of the right length is taken, digits that are none are a zero, and two refusals
\* together have the length and the ends of one answer.
Analysis(frames) ==
    LET bodies == {i \in DOMAIN frames : frames[i].body # "none"}
        first == Min(bodies)
        front == Preamble(SubSeq(frames, 1, first))
        behind == Preamble(SubSeq(frames, first + 1, Len(frames)))
    IN CASE bodies = {} -> IF Preamble(frames) > 0 THEN Panics ELSE Invalid
         [] bodies # {} /\ (front % 2 = 1 \/ behind > 0) -> Invalid
         [] OTHER -> CASE Cardinality(bodies) = 1 /\ frames[first].body = "good" ->
                              [kind |-> "value", of |-> frames[first].point]
                       [] Cardinality(bodies) = 1 /\ frames[first].body = "digits" -> Zero
                       [] Cardinality(bodies) = 2 /\ \A i \in bodies : frames[i].body = "refusal" -> Zero
                       [] OTHER -> Invalid

Frames(p) == [preamble : 0 .. MaxPreamble, body : {"good", "digits", "refusal"}, point : {p}]
                 \union [preamble : 1 .. MaxPreamble, body : {"none"}, point : {p}]

\* What the job does with the result of a read: a value is exported, an error may put the
\* model device offline; the period begins again.
Done(result) ==
    /\ alive' = (result.kind # "panic")
    /\ report' = IF result.kind \in {"value", "zero"}
                 THEN [kind |-> result.kind, point |-> Asked, of |-> result.of] ELSE report
    /\ due' = due \ {Asked}
    /\ job' = [job EXCEPT !.pc = "groups", !.i = @ + 1]

Simulate ==
    /\ Running /\ job.pc = "ask" /\ line.virtual
    /\ Done(Zero)
    /\ UNCHANGED <<setup, ending, wire>>

\* The line is closed, and may not or cannot be opened.
NoPort ==
    /\ Running /\ job.pc = "ask" /\ ~line.virtual /\ ~port
    /\ Done(Invalid)
    /\ UNCHANGED <<setup, ending, wire>>

\* A write that fails closes the line.
WriteFails ==
    /\ Running /\ job.pc = "ask" /\ ~line.virtual /\ (port \/ line.auto)
    /\ Done(Invalid)
    /\ port' = FALSE /\ waiting' = <<>>
    /\ UNCHANGED <<setup, ending, late>>

\* SendRawFrame with a line that is open, or is opened now and has nothing in it: the frames
\* that wait and the answer, if it comes in time, are what was read; or the answer comes late,
\* or never.
Exchange_KeptAnswer ==
    /\ Running /\ job.pc = "ask" /\ ~line.virtual /\ (port \/ line.auto)
    /\ port' = TRUE
    /\ \/ \E f \in Frames(Asked) : Done(Analysis(waiting \o <<f>>)) /\ waiting' = <<f>> /\ UNCHANGED late
       \/ Done(Analysis(waiting)) /\ waiting' = <<>> /\ UNCHANGED late
    /\ UNCHANGED <<setup, ending>>

Exchange ==
    /\ Running /\ job.pc = "ask" /\ ~line.virtual /\ (port \/ line.auto)
    /\ port' = TRUE
    /\ LET old == IF port THEN waiting ELSE <<>>
       IN \/ \E f \in Frames(Asked) : Done(Analysis(old \o <<f>>)) /\ waiting' = <<>> /\ UNCHANGED late
          \/ Done(Analysis(old)) /\ waiting' = <<>> /\ UNCHANGED late
          \/ /\ late < MaxLate /\ late' = late + 1
             /\ Done(Analysis(old))
             /\ \E f \in Frames(Asked) : waiting' = <<f>>
    /\ UNCHANGED <<setup, ending>>

JobEnd ==
    /\ Running /\ job.pc = "walk" /\ job.left = {}
    /\ job' = NoJob
    /\ UNCHANGED <<setup, due, ending, wire, report, alive>>

\* The period of a point is over.
Pass ==
    /\ Running
    /\ \E i \in DOMAIN line.points : due' = due \union {line.points[i]}
    /\ UNCHANGED <<setup, job, ending, wire, report, alive>>

----------------------------------------------------------------------------
\* A command for a meter's device gets no connector, and no error either: its goroutine ends,
\* and the process with it, unless somebody up the stack recovers.
Command ==
    /\ Running
    /\ alive' \in BOOLEAN
    /\ UNCHANGED <<setup, due, job, ending, wire, report>>

Close ==
    /\ Running
    /\ \/ closing = "no" /\ closing' = "flag" /\ close' = TRUE /\ crossed' = (job.pc = "ask") /\ UNCHANGED <<port, waiting>>
       \/ closing = "flag" /\ closing' = "task" /\ UNCHANGED <<close, crossed, port, waiting>>
       \/ closing = "task" /\ closing' = "port" /\ port' = FALSE /\ waiting' = <<>> /\ UNCHANGED <<close, crossed>>
    /\ UNCHANGED <<setup, due, job, late, report, alive>>

Next ==
    \/ Start
    \/ JobBegin \/ NextMeter \/ NextGroup \/ JobEnd \/ Pass
    \/ Simulate \/ NoPort \/ WriteFails \/ Exchange
    \/ Command \/ Close

Spec == Init /\ [][Next]_meterVars

----------------------------------------------------------------------------
\* A point is given the value of another only when an answer has come late: the line is
\* emptied by every read, and answers are not told apart (SendRawFrame, analysis).
WrongOnlyAfterLate == late = 0 /\ report.kind = "value" => report.of = report.point

\* After Close the port stays closed, unless the line reconnects by itself and the job had
\* passed its look at the flag before: that request opens the line, and nobody closes it
\* again (Close, SendRawFrame).
PortStaysClosed == closing = "port" /\ port => line.auto /\ crossed
=============================================================================
