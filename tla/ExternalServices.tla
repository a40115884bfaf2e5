-------------------------- MODULE ExternalServices --------------------------
(***************************************************************************)
(* The registry of attached graders that the submissions service keeps in  *)
(* memory: external_services_manager.dart.  A grader is attached while it  *)
(* has a record in the map _connections; the record has the status and the *)
(* free capacity the service believes in, and the sink, the stream of      *)
(* submissions on its way to the grader.                                   *)
(*                                                                         *)
(* All of this code runs between two awaits of one Dart isolate, so each   *)
(* method is one step.                                                     *)
(***************************************************************************)
EXTENDS Integers, Sequences, FiniteSets

CONSTANTS
  Subs,       \* ids of the submissions, in the order of their insertion
  NumFiles,   \* number of files of a complete solution
  Archs,      \* CPU architectures
  AnyArch,    \* ARCH_ANY
  Required,   \* Required[s]: architecture the problem of s requires
  Graders,    \* names of the graders
  Workers,    \* Workers[g]: numberOfWorkers announced by g
  Rating,     \* Rating[g]: performanceRating announced by g
  Arch,       \* Arch[g]: platform announced by g
  ArchOnly    \* ArchOnly[g]: g takes only jobs that require its architecture

ASSUME GradersAssumption ==
  /\ Subs \subseteq Nat
  /\ NumFiles \in Nat \ {0}
  /\ AnyArch \notin Archs
  /\ Required \in [Subs -> Archs \cup {AnyArch}]
  /\ Workers \in [Graders -> Nat \ {0}]
  /\ Rating \in [Graders -> Nat \ {0}]
  /\ Arch \in [Graders -> Archs]
  /\ ArchOnly \in [Graders -> BOOLEAN]

\* A grader that is not attached has no connection; the other variables have
\* for it the values of Destroyed.
VARIABLES
  attached,   \* the keys of _connections
  condition,  \* field status of each connection
  capacity,   \* field capacity of each connection
  sink,       \* field sink: the submissions on their way to each grader
  canceled    \* serviceCall.isCanceled of each connection

esVars == <<attached, condition, capacity, sink, canceled>>

\* A submission on its way to a grader: its id and how many of the files of
\* the solution were in the database when its content was read.
Job == [sub : Subs, files : 0..NumFiles]

ServiceStatus == {"IDLE", "BUSY", "SHUTTING_DOWN"}

-----------------------------------------------------------------------------
(* Choosing a grader *)

\* The architecture filter of findService.
Suits(g, arch) ==
  /\ arch # AnyArch => arch = Arch[g]
  /\ ArchOnly[g] => arch # AnyArch

\* The status filter of findService as it is written: only a grader that is
\* not idle AND has capacity is passed over.
PassedOver(g) == condition[g] # "IDLE" /\ capacity[g] > 0

\* Mutant: the filter does not look at the architecture.
CandidatesOfAnyArch(arch) == {g \in attached : ~PassedOver(g)}

Candidates(arch) == {g \in attached : ~PassedOver(g) /\ Suits(g, arch)}

Score(g) == Rating[g] * capacity[g]

\* Mutant: the first instead of the last after sorting.
FindSlowest(arch) ==
  {g \in Candidates(arch) : \A h \in Candidates(arch) : Score(g) <= Score(h)}

\* The graders findService may return: sort is not stable, so that any
\* candidate with the highest score may come last.
FindService(arch) ==
  {g \in Candidates(arch) : \A h \in Candidates(arch) : Score(h) <= Score(g)}

\* Mutant: the capacity is not looked at.
CanPushIdle(g) == condition[g] = "IDLE"

\* ExternalServiceConnection.pushSubmission returns true.
CanPush(g) == condition[g] = "IDLE" /\ capacity[g] > 0

-----------------------------------------------------------------------------
(* Operations *)

PushSubmission(g, j) ==
  /\ CanPush(g)
  /\ sink' = [sink EXCEPT ![g] = Append(@, j)]
  /\ capacity' = [capacity EXCEPT ![g] = @ - 1]
  /\ UNCHANGED <<attached, condition, canceled>>

\* A connection that is still there under the same name is destroyed: its
\* sink goes with it.
RegisterNewService(g) ==
  /\ attached' = attached \cup {g}
  /\ condition' = [condition EXCEPT ![g] = "IDLE"]
  /\ capacity' = [capacity EXCEPT ![g] = Workers[g]]
  /\ sink' = [sink EXCEPT ![g] = <<>>]
  /\ canceled' = [canceled EXCEPT ![g] = FALSE]

\* Destroys and forgets the connections of the graders in gone.
Remove(gone) ==
  /\ attached' = attached \ gone
  /\ condition' = [g \in Graders |->
                     IF g \in gone THEN "SHUTTING_DOWN" ELSE condition[g]]
  /\ capacity' = [g \in Graders |-> IF g \in gone THEN 0 ELSE capacity[g]]
  /\ sink' = [g \in Graders |-> IF g \in gone THEN <<>> ELSE sink[g]]
  /\ canceled' = [g \in Graders |-> g \in gone \/ canceled[g]]

SetServiceStatus(g, newStatus, newCapacity) ==
  IF g \notin attached THEN UNCHANGED esVars
  ELSE IF newStatus = "SHUTTING_DOWN" THEN Remove({g})
  ELSE /\ condition' = [condition EXCEPT ![g] = newStatus]
       /\ capacity' = [capacity EXCEPT ![g] = newCapacity]
       /\ UNCHANGED <<attached, sink, canceled>>

\* The 500 ms timer.
CheckForInactiveGraders ==
  LET gone == {g \in attached : canceled[g]}
  IN  gone # {} /\ Remove(gone)

\* The transport under the call of g is gone: the call reports isCanceled and
\* nothing written to its sink reaches the grader any more.
CancelCall(g) ==
  /\ canceled' = [canceled EXCEPT ![g] = TRUE]
  /\ UNCHANGED <<attached, condition, capacity, sink>>

\* The grader reads the next submission from its stream.
TakeFromSink(g) ==
  /\ sink' = [sink EXCEPT ![g] = Tail(@)]
  /\ UNCHANGED <<attached, condition, capacity, canceled>>

\* g still receives what is written to its sink.
StreamAlive(g) == g \in attached /\ ~canceled[g]

ESInit ==
  /\ attached = {}
  /\ condition = [g \in Graders |-> "SHUTTING_DOWN"]
  /\ capacity = [g \in Graders |-> 0]
  /\ sink = [g \in Graders |-> <<>>]
  /\ canceled = [g \in Graders |-> TRUE]

-----------------------------------------------------------------------------
(* Properties *)

\* Type invariant: the free capacity of a grader never leaves 0..Workers[g],
\* a grader that is not attached has none.
ESTypeOK ==
  /\ attached \subseteq Graders
  /\ condition \in [Graders -> ServiceStatus]
  /\ capacity \in [Graders -> Nat]
  /\ sink \in [Graders -> Seq(Job)]
  /\ canceled \in [Graders -> BOOLEAN]
  /\ \A g \in Graders : capacity[g] <= Workers[g]
  /\ \A g \in Graders \ attached : capacity[g] = 0 /\ sink[g] = <<>>

\* A submission is refused only if no attached grader could take it: whenever
\* some attached grader of the right architecture is idle and has capacity,
\* every grader findService may return accepts the push.  (findService lets
\* busy graders through its filter; it is the order by score that keeps them
\* from hiding an idle one.)
NoReadyGraderHidden ==
  \A arch \in Archs \cup {AnyArch} :
    (\E g \in attached : Suits(g, arch) /\ CanPush(g))
      => \A h \in FindService(arch) : CanPush(h)

\* Whatever waits in the sink of a grader is something it agreed to run: jobs
\* of its own architecture, and none without one if it takes only those.
SinksSuit ==
  \A g \in Graders : \A i \in DOMAIN sink[g] :
    Suits(g, Required[sink[g][i].sub])
=============================================================================
