------------------------- MODULE EvaluationRecorder -------------------------
(***************************************************************************)
(* The durable timing spans of one run.  A span is a row that is inserted  *)
(* before the work it times and closed after it, each in a transaction of  *)
(* its own; the process only holds the ids of its open spans.  Rows are    *)
(* listed in the order they were started, so a span's id is its position.  *)
(* One recorder works on the run at a time, hence reading the last attempt *)
(* number and inserting the next row are one step.                         *)
(***************************************************************************)
EXTENDS Naturals, Sequences, FiniteSets

VARIABLES spans,      \* rows of evaluation_spans
          stepSpan,   \* the attempt this process has open, or NoSpan
          phaseSpan   \* the phase it has open, or NoSpan

recorderVars == <<spans, stepSpan, phaseSpan>>

NoSpan == 0

Closed == {"succeeded", "failed", "interrupted"}

SpanStatuses == Closed \union {"running"}

RecorderTypeOK(stepIndices, phases) ==
  /\ spans \in Seq([step : stepIndices, attempt : Nat \ {0}, phase : phases \union {"step_total"},
                    parent : Nat, status : SpanStatuses])
  /\ {stepSpan, phaseSpan} \subseteq DOMAIN spans \union {NoSpan}

RecorderInit ==
  /\ spans = << >>
  /\ stepSpan = NoSpan
  /\ phaseSpan = NoSpan

-----------------------------------------------------------------------------
(* Operations                                                              *)

AllAttempts == {k \in DOMAIN spans : spans[k].phase = "step_total"}

Attempts(s) == {k \in AllAttempts : spans[k].step = s}

PhasesOf(k) == {j \in DOMAIN spans : spans[j].parent = k}

After(numbers) ==
  IF numbers = {} THEN 1 ELSE 1 + CHOOSE n \in numbers : \A m \in numbers : m <= n

(* Only attempts that have ended are counted.                              *)
NextAttemptNoOfEnded(s) ==
  After({spans[k].attempt : k \in {j \in Attempts(s) : spans[j].status \in Closed}})

NextAttemptNo(s) == After({spans[k].attempt : k \in Attempts(s)})

(* A span is inserted as running.                                          *)
Opened(s, attempt, phase, parent) ==
  Append(spans, [step |-> s, attempt |-> attempt, phase |-> phase, parent |-> parent,
                 status |-> "running"])

(* An attempt that was left open is taken up again.                        *)
ResumeStep(s) ==
  LET open == {k \in Attempts(s) : spans[k].status = "running"}
  IN  /\ stepSpan = NoSpan
      /\ \/ /\ open # {}
            /\ stepSpan' \in open
            /\ UNCHANGED spans
         \/ /\ open = {}
            /\ spans' = Opened(s, NextAttemptNo(s), "step_total", NoSpan)
            /\ stepSpan' = Len(spans')
      /\ UNCHANGED phaseSpan

StartStep(s) ==
  /\ stepSpan = NoSpan
  /\ spans' = Opened(s, NextAttemptNo(s), "step_total", NoSpan)
  /\ stepSpan' = Len(spans')
  /\ UNCHANGED phaseSpan

(* A phase belongs to the step and attempt of its parent.                  *)
StartPhase(phase) ==
  /\ stepSpan # NoSpan /\ phaseSpan = NoSpan
  /\ spans' = Opened(spans[stepSpan].step, spans[stepSpan].attempt, phase, stepSpan)
  /\ phaseSpan' = Len(spans')
  /\ UNCHANGED stepSpan

(* Closing a closed span again changes nothing.                            *)
Finished(k, status) == [spans EXCEPT ![k].status = IF @ = "running" THEN status ELSE @]

FinishPhase(status) ==
  /\ phaseSpan # NoSpan
  /\ spans' = Finished(phaseSpan, status)
  /\ phaseSpan' = NoSpan
  /\ UNCHANGED stepSpan

FinishStep(status) ==
  /\ stepSpan # NoSpan /\ phaseSpan = NoSpan
  /\ spans' = Finished(stepSpan, status)
  /\ stepSpan' = NoSpan
  /\ UNCHANGED phaseSpan

(* The process is killed: its rows stay as they are.                       *)
ForgetSpans ==
  /\ stepSpan' = NoSpan
  /\ phaseSpan' = NoSpan
  /\ UNCHANGED spans

-----------------------------------------------------------------------------
(* The report                                                              *)

(* A row that nobody has closed is reported as interrupted.                *)
Reported(k) == IF spans[k].status = "running" THEN "interrupted" ELSE spans[k].status

ReportedInterrupted == {k \in AllAttempts : Reported(k) = "interrupted"}

-----------------------------------------------------------------------------
(* Properties                                                              *)

(* The attempts of a step are numbered 1, 2, ... in the order they were    *)
(* started, across restarts and whatever became of the earlier ones.       *)
NumberedInOrder(s) ==
  \A k \in Attempts(s) : spans[k].attempt = Cardinality({j \in Attempts(s) : j <= k})

(* A span of a living process is open exactly while it is the one held.    *)
PhasesNest ==
  \A k \in DOMAIN spans :
     spans[k].phase # "step_total" =>
       LET parent == spans[k].parent
       IN  /\ parent \in AllAttempts /\ parent < k
           /\ spans[k].attempt = spans[parent].attempt
           /\ spans[parent].status \in Closed => spans[k].status \in Closed
=============================================================================
