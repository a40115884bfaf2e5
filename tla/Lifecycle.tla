------------------------------ MODULE Lifecycle ------------------------------
(***************************************************************************)
(* What the grading of submissions promises to those who look at a         *)
(* submission, whatever graders, queues and retries are behind it: a       *)
(* submission once accepted waits or is graded, its status is written only *)
(* together with a grading that finishes or by somebody who judges it, and *)
(* one that waits is graded in the end.                                    *)
(***************************************************************************)
CONSTANTS
  Subs,           \* the submissions
  GradeStatuses,  \* what a grading may leave as status
  Verdicts        \* what somebody who judges a submission may set

VARIABLES
  stage,      \* "absent", "waiting" or "graded"
  shown       \* the status of the submission

lifecycleVars == <<stage, shown>>

Init ==
  /\ stage = [s \in Subs |-> "absent"]
  /\ shown = [s \in Subs |-> "ANY"]

Accept(s) ==
  /\ stage[s] = "absent"
  /\ stage' = [stage EXCEPT ![s] = "waiting"]
  /\ UNCHANGED shown

\* A report may also come for a submission graded already: it was sent to
\* several graders, or rejudged while an earlier report was on its way.
Grade(s) ==
  /\ stage[s] # "absent"
  /\ stage' = [stage EXCEPT ![s] = "graded"]
  /\ \E status \in GradeStatuses : shown' = [shown EXCEPT ![s] = status]

\* Going back to wait, the submission keeps its status.
Regrade(s) ==
  /\ stage[s] = "graded"
  /\ stage' = [stage EXCEPT ![s] = "waiting"]
  /\ UNCHANGED shown

\* A judgement leaves the grading alone.
Judge(s) ==
  /\ stage[s] # "absent"
  /\ \E status \in Verdicts : shown' = [shown EXCEPT ![s] = status]
  /\ UNCHANGED stage

Next == \E s \in Subs : Accept(s) \/ Grade(s) \/ Regrade(s) \/ Judge(s)

Safety == Init /\ [][Next]_lifecycleVars

\* A waiting submission is graded in the end.
Spec == Safety /\ \A s \in Subs : WF_lifecycleVars(stage[s] = "waiting" /\ Grade(s))
=============================================================================
