------------------------ MODULE ExternalServicesProofs ------------------------
(***************************************************************************)
(* Theorems about the registry of graders under any sequence of calls.     *)
(***************************************************************************)
EXTENDS ExternalServicesAlone, ExternalServicesLemmas

\* Every call of the registry keeps its types.
LEMMA ESTypeStep == ESTypeOK /\ [ESNext]_esVars => ESTypeOK'
<1>. SUFFICES ASSUME ESTypeOK, [ESNext]_esVars PROVE ESTypeOK'
  OBVIOUS
<1>1. ASSUME NEW j \in Job, Push(j)
      PROVE  ESTypeOK'
  BY <1>1, PushSubmissionType DEF Push, FindService, Candidates
<1>2. ASSUME NEW g \in Graders, RegisterNewService(g)
      PROVE  ESTypeOK'
  BY <1>2, RegisterNewServiceType
<1>3. ASSUME NEW g \in Graders, NEW newStatus \in ServiceStatus,
             NEW newCapacity \in 0..Workers[g], Status(g, newStatus, newCapacity)
      PROVE  ESTypeOK'
  BY <1>3, SetServiceStatusType DEF Status
<1>4. ASSUME NEW g \in Graders, Cancel(g)
      PROVE  ESTypeOK'
  BY <1>4, CancelCallType DEF Cancel
<1>5. ASSUME NEW g \in Graders, Take(g)
      PROVE  ESTypeOK'
  BY <1>5, TakeFromSinkType DEF Take, StreamAlive
<1>6. CASE CheckForInactiveGraders
  BY <1>6, RemoveType DEF CheckForInactiveGraders
<1>7. CASE UNCHANGED esVars
  BY <1>7 DEF esVars, ESTypeOK
<1>. QED
  BY <1>1, <1>2, <1>3, <1>4, <1>5, <1>6, <1>7 DEF ESNext

\* The empty registry is well typed.
LEMMA ESTypeInit == ESInit => ESTypeOK
BY GradersAssumption DEF ESInit, ESTypeOK, ServiceStatus

\* The capacity the service counts for a grader stays between 0 and its
\* workers, whatever the graders report and whenever they come and go.
THEOREM RegistryTypeCorrect == ESSpec => []ESTypeOK
BY ESTypeInit, ESTypeStep, PTL DEF ESSpec

\* While a grader of the right architecture is idle and has capacity, no
\* submission is refused because findService returned another grader.
THEOREM ReadyGradersAreFound == ESSpec => []NoReadyGraderHidden
BY RegistryTypeCorrect, ReadyGraderFound, PTL

\* No sink ever holds a submission its grader would not have agreed to run.
THEOREM SinksAlwaysSuit == ESSpec => []SinksSuit
<1>1. ESInit => SinksSuit
  BY DEF ESInit, SinksSuit
<1>2. ESTypeOK /\ SinksSuit /\ [ESNext]_esVars => SinksSuit'
  <2>. SUFFICES ASSUME ESTypeOK, SinksSuit, [ESNext]_esVars PROVE SinksSuit'
    OBVIOUS
  <2>1. ASSUME NEW j \in Job, Push(j)
        PROVE  SinksSuit'
    BY <2>1, PushSuits DEF Push
  <2>2. ASSUME NEW g \in Graders, RegisterNewService(g)
        PROVE  SinksSuit'
    BY <2>2 DEF RegisterNewService, SinksSuit, Suits, ESTypeOK
  <2>3. ASSUME NEW g \in Graders, NEW newStatus, NEW newCapacity,
               Status(g, newStatus, newCapacity)
        PROVE  SinksSuit'
    BY <2>3, RemoveSuits DEF Status, SetServiceStatus, SinksSuit, Suits
  <2>4. ASSUME NEW g \in Graders, Take(g)
        PROVE  SinksSuit'
    BY <2>4, TakeSuits DEF Take
  <2>5. ASSUME CheckForInactiveGraders
        PROVE  SinksSuit'
    BY <2>5, RemoveSuits DEF CheckForInactiveGraders
  <2>6. ASSUME UNCHANGED sink
        PROVE  SinksSuit'
    BY <2>6 DEF SinksSuit, Suits
  <2>. QED
    BY <2>1, <2>2, <2>3, <2>4, <2>5, <2>6 DEF ESNext, Cancel, CancelCall, esVars
<1>. QED
  BY <1>1, <1>2, RegistryTypeCorrect, PTL DEF ESSpec
=============================================================================
