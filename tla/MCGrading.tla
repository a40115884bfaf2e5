------------------------------ MODULE MCGrading ------------------------------
(***************************************************************************)
(* Instances of Grading for TLC.                                           *)
(***************************************************************************)
EXTENDS Grading

CONSTANTS g1, g2, x86, arm

OneSub == {1}
TwoSubs == 1..2

\* The first problem takes any processor, the second one requires an x86.
MCRequired == [s \in Subs |-> IF s = 1 THEN AnyArch ELSE x86]

\* g2 has the other processor, is faster and has two workers.
MCArch == [g \in Graders |-> IF g = g1 THEN x86 ELSE arm]
MCWorkers == [g \in Graders |-> IF g = g1 THEN 1 ELSE 2]
OneWorker == [g \in Graders |-> 1]
MCRating == [g \in Graders |-> IF g = g1 THEN 1 ELSE 2]
MCArchOnly == [g \in Graders |-> FALSE]

NoEvents == [e \in Events |-> 0]

Faults == [NoEvents EXCEPT !["crash"] = 1, !["disconnect"] = 1, !["error"] = 1,
                           !["restart"] = 1, !["retry"] = 1]
Losses == [NoEvents EXCEPT !["crash"] = 1, !["disconnect"] = 1, !["restart"] = 1]
Teachers == [NoEvents EXCEPT !["error"] = 1, !["rejudge"] = 1, !["review"] = 1]
OneRejudge == [NoEvents EXCEPT !["rejudge"] = 1]
OneReview == [NoEvents EXCEPT !["review"] = 1]

-----------------------------------------------------------------------------
(* What comments of submissions_service.dart say of rejudge and of reports. *)

\* "rejudge all problem submissions within course": the handler of a rejudge
\* ends only when it has queued every submission it selected.
RejudgesAll ==
  [][rejudging.pc = "read" /\ rejudging'.pc = "none"
       => rejudging.todo = {rejudging.cur}]_vars

\* "do not change submission status in case of review processed": the report
\* of an OK leaves a status set by a review alone.
ReviewKept ==
  [][\A s \in Subs \ SkipReview, g \in Graders :
       /\ StoreOutput(g) /\ updates[g].sub = s /\ updates[g].grade = "OK"
       /\ status[s] \in StatusesNotToChange
       => status'[s] = status[s]]_vars
=============================================================================
