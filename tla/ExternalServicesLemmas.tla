------------------------ MODULE ExternalServicesLemmas ------------------------
(***************************************************************************)
(* Lemmas about the operations of the registry of graders, for any number  *)
(* of graders, workers and submissions.                                    *)
(***************************************************************************)
EXTENDS ExternalServices, TLAPS

(***************************************************************************)
(* Each operation keeps the types.                                         *)
(***************************************************************************)

\* A push keeps the types of the registry: the capacity it takes was there.
LEMMA PushSubmissionType ==
  ASSUME ESTypeOK, NEW g \in attached, NEW j \in Job, PushSubmission(g, j)
  PROVE  ESTypeOK'
<1>1. g \in Graders /\ Workers \in [Graders -> Nat \ {0}]
  BY GradersAssumption DEF ESTypeOK
<1>2. capacity[g] \in Nat /\ capacity[g] > 0
  BY <1>1 DEF PushSubmission, CanPush, ESTypeOK
<1>3. Append(sink[g], j) \in Seq(Job)
  BY <1>1 DEF ESTypeOK
<1>4. capacity' \in [Graders -> Nat] /\ capacity'[g] = capacity[g] - 1
  BY <1>1, <1>2 DEF PushSubmission, ESTypeOK
<1>5. sink' \in [Graders -> Seq(Job)]
  BY <1>1, <1>3 DEF PushSubmission, ESTypeOK
<1>6. \A h \in Graders : h # g => capacity'[h] = capacity[h] /\ sink'[h] = sink[h]
  BY <1>1 DEF PushSubmission, ESTypeOK
<1>7. capacity[g] <= Workers[g] /\ Workers[g] \in Nat
  BY <1>1 DEF ESTypeOK
<1>. QED
  BY <1>1, <1>2, <1>4, <1>5, <1>6, <1>7 DEF PushSubmission, ESTypeOK

\* So does a registration, which sets the capacity to the number of workers.
LEMMA RegisterNewServiceType ==
  ASSUME ESTypeOK, NEW g \in Graders, RegisterNewService(g)
  PROVE  ESTypeOK'
<1>1. Workers[g] \in Nat
  BY GradersAssumption
<1>2. /\ capacity' \in [Graders -> Nat] /\ capacity'[g] = Workers[g]
      /\ sink' \in [Graders -> Seq(Job)]
  BY <1>1 DEF RegisterNewService, ESTypeOK
<1>3. \A h \in Graders : h # g => capacity'[h] = capacity[h] /\ sink'[h] = sink[h]
  BY DEF RegisterNewService, ESTypeOK
<1>. QED
  BY <1>1, <1>2, <1>3 DEF RegisterNewService, ESTypeOK, ServiceStatus

\* So does dropping connections.
LEMMA RemoveType ==
  ASSUME ESTypeOK, NEW gone \in SUBSET attached, Remove(gone)
  PROVE  ESTypeOK'
BY GradersAssumption DEF Remove, ESTypeOK, ServiceStatus

\* So does a status report of a capacity up to the number of workers.
LEMMA SetServiceStatusType ==
  ASSUME ESTypeOK, NEW g \in Graders, NEW newStatus \in ServiceStatus,
         NEW newCapacity \in 0..Workers[g],
         SetServiceStatus(g, newStatus, newCapacity)
  PROVE  ESTypeOK'
<1>1. CASE g \notin attached
  BY <1>1 DEF SetServiceStatus, esVars, ESTypeOK
<1>2. CASE g \in attached /\ newStatus = "SHUTTING_DOWN"
  BY <1>2, RemoveType DEF SetServiceStatus
<1>3. CASE g \in attached /\ newStatus # "SHUTTING_DOWN"
  <2>1. Workers[g] \in Nat /\ newCapacity \in Nat /\ newCapacity <= Workers[g]
    BY GradersAssumption
  <2>2. capacity' = [capacity EXCEPT ![g] = newCapacity]
    BY <1>3 DEF SetServiceStatus
  <2>3. /\ capacity' \in [Graders -> Nat] /\ capacity'[g] = newCapacity
        /\ \A h \in Graders : h # g => capacity'[h] = capacity[h]
    BY <2>1, <2>2 DEF ESTypeOK
  <2>4. condition' \in [Graders -> ServiceStatus]
    BY <1>3 DEF SetServiceStatus, ESTypeOK
  <2>5. attached' = attached /\ sink' = sink /\ canceled' = canceled
    BY <1>3 DEF SetServiceStatus
  <2>6. \A h \in Graders : capacity'[h] <= Workers[h]
    BY <2>1, <2>3 DEF ESTypeOK
  <2>7. \A h \in Graders \ attached : capacity'[h] = 0 /\ sink[h] = <<>>
    BY <1>3, <2>3 DEF ESTypeOK
  <2>. QED
    BY <2>3, <2>4, <2>5, <2>6, <2>7 DEF ESTypeOK
<1>. QED
  BY <1>1, <1>2, <1>3

\* So does the loss of a connection.
LEMMA CancelCallType ==
  ASSUME ESTypeOK, NEW g \in Graders, CancelCall(g)
  PROVE  ESTypeOK'
BY DEF CancelCall, ESTypeOK

\* So does a grader that reads from its stream.
LEMMA TakeFromSinkType ==
  ASSUME ESTypeOK, NEW g \in attached, sink[g] # <<>>, TakeFromSink(g)
  PROVE  ESTypeOK' /\ Head(sink[g]) \in Job
<1>1. g \in Graders /\ sink[g] \in Seq(Job)
  BY DEF ESTypeOK
<1>2. Tail(sink[g]) \in Seq(Job) /\ Head(sink[g]) \in Job
  BY <1>1
<1>. QED
  BY <1>1, <1>2 DEF TakeFromSink, ESTypeOK

(***************************************************************************)
(* Choosing a grader.                                                      *)
(***************************************************************************)

\* Only capacity makes a score positive.
LEMMA ScorePositive ==
  ASSUME ESTypeOK, NEW g \in Graders
  PROVE  Score(g) \in Nat /\ (Score(g) > 0 <=> capacity[g] > 0)
<1>. DEFINE r == Rating[g]
            c == capacity[g]
<1>1. r \in Nat /\ r >= 1 /\ c \in Nat
  BY GradersAssumption DEF ESTypeOK
<1>. HIDE DEF r, c
<1>2. c = 0 => r * c = 0
  BY <1>1
<1>3. c > 0 => r * c >= 1
  BY <1>1
<1>4. r * c \in Nat
  BY <1>1
<1>. QED
  BY <1>1, <1>2, <1>3, <1>4 DEF Score, r, c

\* Busy graders pass the filter of findService, but those that do have no
\* capacity: their score is 0, so that they never win over a ready one.
LEMMA ReadyGraderFound == ESTypeOK => NoReadyGraderHidden
<1>. SUFFICES ASSUME ESTypeOK,
                     NEW arch \in Archs \cup {AnyArch},
                     NEW g \in attached, Suits(g, arch), CanPush(g),
                     NEW h \in FindService(arch)
              PROVE  CanPush(h)
  BY DEF NoReadyGraderHidden
<1>1. g \in Candidates(arch)
  BY DEF Candidates, PassedOver, CanPush
<1>2. g \in Graders /\ h \in Graders /\ ~PassedOver(h) /\ Score(g) <= Score(h)
  BY <1>1 DEF FindService, Candidates, ESTypeOK
<1>3. Score(g) \in Nat /\ Score(g) > 0 /\ Score(h) \in Nat
  BY <1>2, ScorePositive DEF CanPush
<1>4. Score(h) > 0
  BY <1>2, <1>3
<1>5. capacity[h] > 0
  BY <1>2, <1>4, ScorePositive
<1>. QED
  BY <1>2, <1>5 DEF PassedOver, CanPush

\* A push keeps the sinks free of jobs for another architecture.
LEMMA PushSuits ==
  ASSUME ESTypeOK, SinksSuit, NEW j \in Job,
         NEW g \in FindService(Required[j.sub]), PushSubmission(g, j)
  PROVE  SinksSuit'
<1>1. g \in Graders /\ Suits(g, Required[j.sub])
  BY DEF FindService, Candidates, ESTypeOK
<1>2. sink[g] \in Seq(Job) /\ sink'[g] = Append(sink[g], j)
  BY <1>1 DEF PushSubmission, ESTypeOK
<1>3. \A i \in DOMAIN sink'[g] :
        (i \in DOMAIN sink[g] /\ sink'[g][i] = sink[g][i]) \/ sink'[g][i] = j
  BY <1>2
<1>4. \A h \in Graders : h # g => sink'[h] = sink[h]
  BY DEF PushSubmission, ESTypeOK
<1>. QED
  BY <1>1, <1>3, <1>4 DEF SinksSuit, Suits

\* What is left in a sink still suits its grader.
LEMMA TakeSuits ==
  ASSUME ESTypeOK, SinksSuit, NEW g \in Graders, sink[g] # <<>>, TakeFromSink(g)
  PROVE  SinksSuit'
<1>1. sink[g] \in Seq(Job) /\ sink'[g] = Tail(sink[g])
  BY DEF TakeFromSink, ESTypeOK
<1>2. \A i \in DOMAIN sink'[g] :
        i + 1 \in DOMAIN sink[g] /\ sink'[g][i] = sink[g][i + 1]
  BY <1>1
<1>3. \A h \in Graders : h # g => sink'[h] = sink[h]
  BY DEF TakeFromSink, ESTypeOK
<1>. QED
  BY <1>2, <1>3 DEF SinksSuit, Suits

\* The sinks of dropped connections are empty.
LEMMA RemoveSuits ==
  ASSUME SinksSuit, NEW gone, Remove(gone)
  PROVE  SinksSuit'
BY DEF Remove, SinksSuit, Suits
=============================================================================
