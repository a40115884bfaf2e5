------------------------ MODULE ExternalServicesAlone ------------------------
(***************************************************************************)
(* The registry of graders under any sequence of calls of its users: any   *)
(* status a grader may report with any capacity up to its workers, BUSY    *)
(* included, which the grader of this repository never sends.  MaxSink     *)
(* bounds the number of submissions that wait in one sink.                 *)
(***************************************************************************)
EXTENDS ExternalServices

CONSTANT MaxSink

ASSUME MaxSinkAssumption == MaxSink \in Nat \ {0}

\* pushSubmissionToGrader, without the database.
Push(j) ==
  \E g \in FindService(Required[j.sub]) :
    /\ Len(sink[g]) < MaxSink
    /\ PushSubmission(g, j)

Status(g, newStatus, newCapacity) ==
  /\ g \in attached
  /\ SetServiceStatus(g, newStatus, newCapacity)

Cancel(g) == StreamAlive(g) /\ CancelCall(g)

Take(g) == StreamAlive(g) /\ sink[g] # <<>> /\ TakeFromSink(g)

ESNext ==
  \/ \E j \in Job : Push(j)
  \/ \E g \in Graders : RegisterNewService(g)
  \/ \E g \in Graders, newStatus \in ServiceStatus :
       \E newCapacity \in 0..Workers[g] : Status(g, newStatus, newCapacity)
  \/ \E g \in Graders : Cancel(g)
  \/ \E g \in Graders : Take(g)
  \/ CheckForInactiveGraders

ESSpec == ESInit /\ [][ESNext]_esVars
=============================================================================
