--------------------------- MODULE SupervisorProofs ---------------------------
(***************************************************************************)
(* Theorems about a service under the supervisor, for any number of        *)
(* callers, monitors, attempts and events.                                 *)
(***************************************************************************)
EXTENDS Supervisor, TLAPS

-----------------------------------------------------------------------------
(* Types *)

LEMMA StateInit == Init => StateOK
BY SupervisorAssumption
   DEF Init, StateOK, ServiceStatuses, Idle, CallerPlaces, Signals, NoMonitor, MonitorPlaces

\* What both kinds of goroutines do to the processes keeps the types.
LEMMA LaunchProcessType ==
  ASSUME StateOK, LaunchProcess
  PROVE  /\ launched' \in Nat /\ launched + 1 \in 0..launched'
         /\ 0..launched \subseteq 0..launched'
         /\ alive' \subseteq 1..launched' /\ asked' \subseteq alive'
BY DEF StateOK, LaunchProcess

LEMMA BudgetType ==
  ASSUME NEW e \in Events, StateOK, Spend(e)
  PROVE  budget' \in [Events -> Nat]
BY DEF StateOK, Spend

LEMMA StartType ==
  ASSUME StateOK, NEW c \in Callers,
         \/ CallStart(c) \/ ResetAttempts(c) \/ Launch(c) \/ Record(c)
         \/ Watch(c) \/ Announce(c) \/ AnnouncePanics(c)
  PROVE  StateOK'
<1>. USE DEF StateOK, fields, processes
<1>1. CASE CallStart(c)
  BY <1>1, BudgetType DEF CallStart, Goto, CallerPlaces, Signals, Events
<1>2. CASE ResetAttempts(c)
  BY <1>2 DEF ResetAttempts, Goto, CallerPlaces, Signals
<1>3. CASE Launch(c)
  <2>1. CASE LaunchProcess /\ UNCHANGED <<fields, budget>>
             /\ callers' = [callers EXCEPT ![c].pc = "record", ![c].proc = launched + 1]
    <3>1. callers' \in [Callers -> [pc : CallerPlaces, proc : 0..launched', signal : Signals]]
      <4>1. callers \in [Callers -> [pc : CallerPlaces, proc : 0..launched', signal : Signals]]
        BY <2>1, LaunchProcessType
      <4>. QED
        BY <2>1, <4>1, LaunchProcessType DEF CallerPlaces
    <3>2. monitors' \in [Monitors -> [pc : MonitorPlaces, proc : 0..launched']]
      BY <1>3, <2>1, LaunchProcessType DEF Launch
    <3>. QED
      BY <1>3, <2>1, <3>1, <3>2, LaunchProcessType DEF Launch
  <2>2. CASE LaunchFails /\ Goto(c, "watch") /\ UNCHANGED processes
    BY <1>3, <2>2, BudgetType
       DEF Launch, LaunchFails, Goto, CallerPlaces, Signals, Events, ServiceStatuses
  <2>. HIDE DEF StateOK, fields, processes
  <2>. QED
    BY <1>3, <2>1, <2>2, Zenon DEF Launch
<1>4. CASE Record(c)
  BY <1>4 DEF Record, RecordProcess, Goto, CallerPlaces, Signals, ServiceStatuses
<1>5. CASE Watch(c)
  <2>1. callers' \in [Callers -> [pc : CallerPlaces, proc : 0..launched, signal : Signals]]
    <3>1. CASE process # 0
      BY <1>5, <3>1 DEF Watch, Goto, CallerPlaces
    <3>2. CASE process = 0
      BY <1>5, <3>2 DEF Watch, Return, Idle, CallerPlaces, Signals
    <3>. QED
      BY <3>1, <3>2
  <2>. QED
    BY <1>5, <2>1 DEF Watch
<1>6. CASE Announce(c)
  BY <1>6 DEF Announce, Return, Idle, CallerPlaces, Signals, MonitorPlaces
<1>7. CASE AnnouncePanics(c)
  BY <1>7 DEF AnnouncePanics, Panic, Idle, NoMonitor, CallerPlaces, Signals, MonitorPlaces
<1>. QED
  BY <1>1, <1>2, <1>3, <1>4, <1>5, <1>6, <1>7

LEMMA StopType ==
  ASSUME StateOK, NEW c \in Callers,
         \/ CallStop(c) \/ Look(c) \/ Mark(c) \/ Timeout(c) \/ Stopped(c)
         \/ \E m \in Monitors : HandOver(c, m)
  PROVE  StateOK'
<1>. USE DEF StateOK, fields, processes
<1>1. CASE CallStop(c)
  BY <1>1, BudgetType DEF CallStop, Goto, CallerPlaces, Signals, Events
<1>2. CASE Look(c)
  BY <1>2 DEF Look, Return, Idle, CallerPlaces, Signals
<1>3. CASE Mark(c)
  <2>1. callers' \in [Callers -> [pc : CallerPlaces, proc : 0..launched, signal : Signals]]
    <3>1. callers' = [callers EXCEPT ![c].pc = "await", ![c].proc = 0]
      BY <1>3 DEF Mark
    <3>2. 0 \in 0..launched /\ "await" \in CallerPlaces
      BY DEF CallerPlaces
    <3>. QED
      BY <3>1, <3>2
  <2>2. alive' \subseteq 1..launched /\ asked' \subseteq alive'
    BY <1>3 DEF Mark, Ends
  <2>. QED
    BY <1>3, <2>1, <2>2 DEF Mark, ServiceStatuses
<1>4. CASE Timeout(c)
  BY <1>4 DEF Timeout, CallerPlaces, Signals
<1>5. CASE Stopped(c)
  BY <1>5 DEF Stopped, Return, Idle, CallerPlaces, Signals, ServiceStatuses
<1>6. CASE \E m \in Monitors : HandOver(c, m)
  <2>1. PICK m \in Monitors : HandOver(c, m)
    BY <1>6
  <2>2. callers' \in [Callers -> [pc : CallerPlaces, proc : 0..launched, signal : Signals]]
    BY <2>1 DEF HandOver, Goto, CallerPlaces
  <2>3. monitors' \in [Monitors -> [pc : MonitorPlaces, proc : 0..launched]]
    BY <2>1 DEF HandOver, NoMonitor, MonitorPlaces
  <2>. QED
    BY <2>1, <2>2, <2>3 DEF HandOver
<1>. QED
  BY <1>1, <1>2, <1>3, <1>4, <1>5, <1>6

LEMMA MonitorType ==
  ASSUME StateOK, NEW m \in Monitors, MonitorNext(m)
  PROVE  StateOK'
<1>. USE DEF StateOK, fields, processes, MonitorPlaces
<1>1. CASE Take(m)
  BY <1>1 DEF Take
<1>2. CASE MonitorPanics(m)
  BY <1>2 DEF MonitorPanics, Panic, Idle, NoMonitor, CallerPlaces, Signals
<1>3. CASE WaitReturns(m) \/ ReadStatus(m)
  BY <1>3 DEF WaitReturns, ReadStatus, MonitorGoto
<1>4. CASE Decide(m)
  BY <1>4 DEF Decide, MonitorGoto
<1>5. CASE Bury(m)
  BY <1>5 DEF Bury, NoMonitor, ServiceStatuses
<1>9. CASE Respawn(m)
  BY <1>9 DEF Respawn, ServiceStatuses
<1>6. CASE Wake(m)
  BY <1>6 DEF Wake, MonitorGoto
<1>7. CASE Relaunch(m)
  <2>1. CASE LaunchProcess /\ UNCHANGED <<fields, budget>>
             /\ monitors' = [monitors EXCEPT ![m] = [pc |-> "record", proc |-> launched + 1]]
    <3>1. monitors' \in [Monitors -> [pc : MonitorPlaces, proc : 0..launched']]
      BY <2>1, LaunchProcessType
    <3>2. callers' \in [Callers -> [pc : CallerPlaces, proc : 0..launched', signal : Signals]]
      BY <1>7, <2>1, LaunchProcessType DEF Relaunch
    <3>. QED
      BY <1>7, <2>1, <3>1, <3>2, LaunchProcessType DEF Relaunch
  <2>2. CASE LaunchFails /\ MonitorGoto(m, "take") /\ UNCHANGED processes
    BY <1>7, <2>2, BudgetType
       DEF Relaunch, LaunchFails, MonitorGoto, Events, ServiceStatuses
  <2>. HIDE DEF StateOK, fields, processes
  <2>. QED
    BY <1>7, <2>1, <2>2, Zenon DEF Relaunch
<1>8. CASE Rerecord(m)
  BY <1>8 DEF Rerecord, RecordProcess, ServiceStatuses
<1>. QED
  BY <1>1, <1>2, <1>3, <1>4, <1>5, <1>6, <1>7, <1>8, <1>9 DEF MonitorNext

LEMMA ProcessType ==
  ASSUME StateOK, NEW p \in alive, Exit(p) \/ Crash(p)
  PROVE  StateOK'
<1>1. CASE Exit(p)
  BY <1>1 DEF Exit, Ends, StateOK, fields, flags
<1>2. CASE Crash(p)
  BY <1>2, BudgetType DEF Crash, Ends, StateOK, fields, flags, Events
<1>. QED
  BY <1>1, <1>2

LEMMA FlagsStep == FlagsOK /\ [Next]_vars => FlagsOK'
<1>. SUFFICES ASSUME FlagsOK, [Next]_vars PROVE FlagsOK'
  OBVIOUS
<1>. USE DEF FlagsOK, flags
<1>1. ASSUME NEW c \in Callers, CallStart(c)
      PROVE  FlagsOK'
  BY <1>1, Zenon DEF CallStart
<1>2. ASSUME NEW c \in Callers, CallStop(c) \/ Look(c) \/ Stopped(c)
      PROVE  FlagsOK'
  BY <1>2, Zenon DEF CallStop, Look, Stopped
<1>3. CASE Panic
  BY <1>3, Zenon DEF Panic
<1>4. CASE UNCHANGED flags
  BY <1>4, Zenon
<1>. QED
  <2>1. ASSUME NEW c \in Callers, CallerNext(c)
        PROVE  FlagsOK'
    BY <2>1, <1>1, <1>2, <1>3, <1>4, Zenon
       DEF CallerNext, ResetAttempts, Launch, Record, Watch, Announce,
           AnnouncePanics, Mark, Timeout, HandOver
  <2>2. ASSUME NEW m \in Monitors, MonitorNext(m)
        PROVE  FlagsOK'
    BY <2>2, <1>3, <1>4, Zenon
       DEF MonitorNext, Take, MonitorPanics, WaitReturns, ReadStatus, Decide, Bury,
           Respawn, Wake, Relaunch, Rerecord
  <2>3. ASSUME NEW p \in alive, Exit(p) \/ Crash(p)
        PROVE  FlagsOK'
    BY <2>3, <1>4, Zenon DEF Exit, Crash
  <2>. QED
    BY <1>4, <2>1, <2>2, <2>3, Zenon DEF Next, vars

LEMMA StateStep == StateOK /\ [Next]_vars => StateOK'
<1>. SUFFICES ASSUME StateOK, [Next]_vars PROVE StateOK'
  OBVIOUS
<1>1. CASE \E c \in Callers : CallerNext(c)
  BY <1>1, StartType, StopType DEF CallerNext
<1>2. CASE \E m \in Monitors : MonitorNext(m)
  BY <1>2, MonitorType
<1>3. CASE \E p \in alive : Exit(p) \/ Crash(p)
  BY <1>3, ProcessType
<1>4. CASE UNCHANGED vars
  BY <1>4 DEF vars, fields, processes, flags, StateOK
<1>. QED
  BY <1>1, <1>2, <1>3, <1>4 DEF Next

\* The goroutines of the supervisor never leave the places and processes the
\* code knows, and no SIGTERM is pending for a process that has ended.
THEOREM SVTypeCorrect == Spec => []SVTypeOK
<1>1. Init => FlagsOK
  BY DEF Init, FlagsOK
<1>. QED
  BY <1>1, StateInit, StateStep, FlagsStep, PTL DEF Spec, SVTypeOK

-----------------------------------------------------------------------------
(* The process in the field is watched *)

\* Somebody knows of the process in the field.
Known ==
  \/ \E m \in Monitors : Watches(m)
  \/ \E c \in Callers : callers[c].pc \in {"watch", "announce", "stopped"}

\* A step that leaves the field alone takes nobody away who watches it.
LEMMA WatchedStep == StateOK /\ ProcessIsWatched /\ [Next]_vars => ProcessIsWatched'
<1>. SUFFICES ASSUME StateOK, ProcessIsWatched, [Next]_vars, process' # 0, ~panicked'
              PROVE  Known'
  BY DEF ProcessIsWatched, Known
<1>. USE DEF StateOK, ProcessIsWatched, Known, Watches, fields, processes, flags
<1>1. ASSUME NEW c \in Callers,
             \/ CallStart(c) \/ ResetAttempts(c) \/ CallStop(c) \/ Look(c)
             \/ Mark(c) \/ Timeout(c)
      PROVE  Known'
  <2>1. UNCHANGED <<process, monitors, panicked>>
    BY <1>1 DEF CallStart, ResetAttempts, CallStop, Look, Mark, Timeout
  <2>2. ~(callers[c].pc \in {"watch", "announce", "stopped"})
    BY <1>1 DEF CallStart, ResetAttempts, CallStop, Look, Mark, Timeout, Busy
  <2>3. \A d \in Callers : d # c => callers'[d] = callers[d]
    BY <1>1 DEF CallStart, ResetAttempts, CallStop, Look, Mark, Timeout, Goto, Return
  <2>. QED
    BY <2>1, <2>2, <2>3
<1>2. ASSUME NEW c \in Callers, Launch(c)
      PROVE  Known'
  BY <1>2 DEF Launch, LaunchProcess, LaunchFails, Goto
<1>3. ASSUME NEW c \in Callers, Record(c) \/ Watch(c)
      PROVE  Known'
  BY <1>3 DEF Record, RecordProcess, Watch, Goto, Return
<1>4. ASSUME NEW c \in Callers, Announce(c)
      PROVE  Known'
  BY <1>4 DEF Announce
<1>5. ASSUME NEW c \in Callers, NEW m \in Monitors, HandOver(c, m)
      PROVE  Known'
  BY <1>5 DEF HandOver, Goto
<1>6. ASSUME NEW m \in Monitors, Take(m) \/ Rerecord(m)
      PROVE  Known'
  BY <1>6 DEF Take, Rerecord, RecordProcess
<1>9. ASSUME NEW m \in Monitors,
             WaitReturns(m) \/ ReadStatus(m) \/ Decide(m) \/ Wake(m)
      PROVE  Known'
  <2>1. UNCHANGED <<process, callers, panicked>>
    BY <1>9 DEF WaitReturns, ReadStatus, Decide, Wake
  <2>2. \A n \in Monitors : n # m => monitors'[n] = monitors[n]
    BY <1>9 DEF WaitReturns, ReadStatus, Decide, Wake, MonitorGoto
  <2>3. Watches(m) => Watches(m)'
    BY <1>9 DEF WaitReturns, ReadStatus, Decide, Wake, MonitorGoto
  <2>. QED
    BY <2>1, <2>2, <2>3
<1>7. ASSUME NEW m \in Monitors, Relaunch(m)
      PROVE  Known'
  BY <1>7 DEF Relaunch, LaunchProcess, LaunchFails, MonitorGoto
<1>8. CASE UNCHANGED <<fields, callers, monitors, panicked>>
  BY <1>8
<1>. QED
  BY <1>1, <1>2, <1>3, <1>4, <1>5, <1>6, <1>7, <1>8, <1>9
     DEF Next, CallerNext, MonitorNext, Exit, Crash, vars, Stopped, Bury, Respawn,
         AnnouncePanics, MonitorPanics, Panic

\* The process in the field Process of a service has a monitor, or one that is
\* about to be started, however calls of Start and Stop come together.
THEOREM ProcessesAreWatched == Spec => []ProcessIsWatched
<1>1. Init => ProcessIsWatched
  BY DEF Init, ProcessIsWatched
<1>. QED
  BY <1>1, WatchedStep, SVTypeCorrect, PTL DEF Spec, SVTypeOK

-----------------------------------------------------------------------------
(* One process, as long as calls of Start do not come together *)

\* At most one goroutine starts or monitors a process, and none does while a
\* Stop that was told of the end of the process writes the fields.
Exclusive ==
  /\ \A c, d \in Callers : Starting(c) /\ Starting(d) => c = d
  /\ \A m, n \in Monitors : Active(m) /\ Active(n) => m = n
  /\ \A c \in Callers : Starting(c) \/ callers[c].pc = "stopped"
                          => \A m \in Monitors : ~Active(m)
  /\ \A c, d \in Callers : Starting(c) => callers[d].pc # "stopped"

Down == status \in {"STOPPED", "DEAD"}

\* The process that lives is the one this goroutine works on.
StarterKnows ==
  \A c \in Callers :
    /\ callers[c].pc \in {"reset", "launch"} => alive = {}
    /\ callers[c].pc = "record" => alive \subseteq {callers[c].proc}
    /\ callers[c].pc \in {"watch", "announce"} => alive \subseteq {process} /\ ~Down

MonitorKnows ==
  \A m \in Monitors : Active(m) =>
    /\ ~Down
    /\ monitors[m].pc = "take" => alive \subseteq {process}
    /\ monitors[m].pc \in {"wait", "record"} => alive \subseteq {monitors[m].proc}
    /\ monitors[m].pc \notin {"take", "wait", "record"} => alive = {}

NoneIsForgotten ==
  \/ \E c \in Callers : Starting(c)
  \/ \E m \in Monitors : Active(m)
  \/ alive = {}

AttemptsLeft ==
  /\ attempts <= MaxTries
  /\ \A m \in Monitors : monitors[m].pc \in {"respawn", "sleep"} => attempts < MaxTries

Alone == Exclusive /\ StarterKnows /\ MonitorKnows /\ NoneIsForgotten /\ AttemptsLeft

\* The inductive invariant behind the three properties.
SVInv == ~overlap => Alone

\* overlap is never taken back.
LEMMA OverlapStays == [Next]_vars /\ ~overlap' => ~overlap
<1>. SUFFICES ASSUME [Next]_vars, ~overlap' PROVE ~overlap
  OBVIOUS
<1>1. ASSUME NEW c \in Callers, CallerNext(c)
      PROVE  ~overlap
  BY <1>1, Zenon
     DEF CallerNext, CallStart, ResetAttempts, Launch, Record, Watch, Announce,
         AnnouncePanics, Panic, CallStop, Look, Mark, Timeout, HandOver, Stopped, flags
<1>2. ASSUME NEW m \in Monitors, MonitorNext(m)
      PROVE  ~overlap
  BY <1>2, Zenon
     DEF MonitorNext, Take, MonitorPanics, Panic, WaitReturns, ReadStatus, Decide,
         Bury, Respawn, Wake, Relaunch, Rerecord, flags
<1>3. ASSUME NEW p \in alive, Exit(p) \/ Crash(p)
      PROVE  ~overlap
  BY <1>3, Zenon DEF Exit, Crash, flags
<1>. QED
  BY <1>1, <1>2, <1>3, Zenon DEF Next, vars, flags

\* A goroutine that neither starts nor monitors a process, nor has been told
\* of the end of one.
Aside(caller) == caller.pc \in {"idle", "look", "mark", "await"}

\* Steps of such goroutines and of processes, and steps that change nothing.
LEMMA AsideStep ==
  ASSUME StateOK, Alone, UNCHANGED <<process, attempts, monitors>>,
         alive' \subseteq alive, Down' => Down,
         \A c \in Callers : \/ callers'[c] = callers[c]
                            \/ Aside(callers[c]) /\ Aside(callers'[c])
  PROVE  Alone'
<1>. USE DEF Alone, Starting, Active, Aside
<1>1. \A c \in Callers : /\ Starting(c) <=> Starting(c)'
                         /\ callers[c].pc = "stopped" <=> callers'[c].pc = "stopped"
  OBVIOUS
<1>2. Exclusive'
  BY <1>1 DEF Exclusive
<1>3. StarterKnows'
  BY DEF StarterKnows
<1>4. MonitorKnows'
  BY DEF MonitorKnows
<1>5. NoneIsForgotten' /\ AttemptsLeft'
  BY <1>1 DEF NoneIsForgotten, AttemptsLeft
<1>. QED
  BY <1>2, <1>3, <1>4, <1>5

LEMMA StopAlone ==
  ASSUME StateOK, Alone, NEW c \in Callers,
         CallStop(c) \/ Look(c) \/ Mark(c) \/ Timeout(c)
  PROVE  Alone'
<1>1. UNCHANGED <<process, attempts, monitors>>
  BY DEF CallStop, Look, Mark, Timeout, fields
<1>2. alive' \subseteq alive /\ (Down' => Down)
  BY DEF CallStop, Look, Mark, Timeout, Ends, Down, fields, processes
<1>3. Aside(callers[c]) /\ Aside(callers'[c])
  BY DEF CallStop, Look, Mark, Timeout, Aside, Busy, Goto, Return, Idle, StateOK
<1>4. \A d \in Callers : d # c => callers'[d] = callers[d]
  BY DEF CallStop, Look, Mark, Timeout, Goto, Return, StateOK
<1>. QED
  BY <1>1, <1>2, <1>3, <1>4, AsideStep

LEMMA CallStartAlone ==
  ASSUME StateOK, Alone, NEW c \in Callers, CallStart(c), ~overlap'
  PROVE  Alone'
<1>1. CASE status = "RUNNING"
  BY <1>1, AsideStep DEF CallStart, fields, processes, Down
<1>2. CASE status # "RUNNING"
  <2>1. /\ callers' = [callers EXCEPT ![c].pc = "reset"]
        /\ UNCHANGED <<status, process, attempts, monitors, alive>>
    BY <1>2 DEF CallStart, Goto, fields, processes
  <2>2. overlap' = (overlap \/ (\E d \in Callers : Busy(d))
                            \/ (\E m \in Monitors : Active(m)))
    BY <1>2 DEF CallStart
  <2>3. (\A d \in Callers : ~Busy(d)) /\ (\A m \in Monitors : ~Active(m))
    BY <2>2, Zenon
  <2>4. \A d \in Callers : callers[d].pc = "idle" /\ (d # c => callers'[d] = callers[d])
    BY <2>1, <2>3 DEF Busy, StateOK
  <2>5. callers'[c].pc = "reset"
    BY <2>1 DEF StateOK
  <2>6. alive = {}
    BY <2>3, <2>4 DEF Alone, NoneIsForgotten, Starting
  <2>. QED
    BY <2>1, <2>3, <2>4, <2>5, <2>6
       DEF Alone, Exclusive, StarterKnows, MonitorKnows, NoneIsForgotten, AttemptsLeft,
           Starting, Active
<1>. QED
  BY <1>1, <1>2

\* A goroutine that starts a process moves on: nobody else starts or monitors
\* one, so that only what it knows itself is left to show.
LEMMA StarterMoves ==
  ASSUME StateOK, Alone, NEW c \in Callers, Starting(c), UNCHANGED monitors,
         Starting(c)', attempts' \in {attempts, 0},
         \A d \in Callers : d # c => callers'[d] = callers[d],
         StarterKnows'
  PROVE  Alone'
<1>1. /\ \A d \in Callers : d # c => ~Starting(d) /\ ~Starting(d)'
      /\ \A d \in Callers : callers'[d].pc # "stopped"
      /\ \A m \in Monitors : ~Active(m) /\ ~Active(m)'
  BY DEF Alone, Exclusive, Starting, Active
<1>2. Exclusive' /\ MonitorKnows' /\ NoneIsForgotten'
  BY <1>1 DEF Exclusive, MonitorKnows, NoneIsForgotten
<1>3. AttemptsLeft'
  BY <1>1, SupervisorAssumption DEF AttemptsLeft, Active, Alone
<1>. QED
  BY <1>2, <1>3 DEF Alone

LEMMA StartAlone ==
  ASSUME StateOK, Alone, NEW c \in Callers,
         ResetAttempts(c) \/ Launch(c) \/ Record(c) \/ Watch(c) \/ Announce(c)
  PROVE  Alone'
<1>. USE DEF fields, processes
<1>1. Starting(c)
  BY DEF ResetAttempts, Launch, Record, Watch, Announce, Starting
<1>2. /\ \A d \in Callers : d # c => ~Starting(d)
      /\ \A m \in Monitors : ~Active(m)
      /\ \A d \in Callers : callers[d].pc # "stopped"
  BY <1>1 DEF Alone, Exclusive
<1>3. \A d \in Callers : d # c => callers'[d] = callers[d]
  BY DEF ResetAttempts, Launch, Record, Watch, Announce, Goto, Return, StateOK
<1>4. \A d \in Callers : d # c => ~Starting(d)'
  BY <1>2, <1>3 DEF Starting
<1>. DEFINE Knows ==
       /\ callers[c].pc \in {"reset", "launch"} => alive = {}
       /\ callers[c].pc = "record" => alive \subseteq {callers[c].proc}
       /\ callers[c].pc \in {"watch", "announce"} => alive \subseteq {process} /\ ~Down
<1>5. Knows /\ (Knows' => StarterKnows')
  BY <1>4 DEF Alone, StarterKnows, Starting
<1>6. CASE ResetAttempts(c)
  <2>1. Starting(c)' /\ Knows'
    BY <1>5, <1>6 DEF ResetAttempts, Goto, StateOK, Starting
  <2>. QED
    BY <1>1, <1>3, <1>5, <1>6, <2>1, StarterMoves DEF ResetAttempts
<1>7. CASE Launch(c)
  <2>1. CASE LaunchProcess /\ UNCHANGED <<fields, budget>>
             /\ callers' = [callers EXCEPT ![c].pc = "record", ![c].proc = launched + 1]
    <3>1. callers'[c].pc = "record" /\ callers'[c].proc = launched + 1
      BY <2>1 DEF StateOK
    <3>2. alive' \subseteq {launched + 1}
      BY <1>5, <1>7, <2>1 DEF LaunchProcess, Launch
    <3>3. Starting(c)' /\ Knows'
      BY <3>1, <3>2 DEF Starting
    <3>. QED
      BY <1>1, <1>3, <1>5, <1>7, <2>1, <3>3, StarterMoves DEF Launch
  <2>2. CASE LaunchFails /\ Goto(c, "watch") /\ UNCHANGED processes
    <3>1. callers'[c].pc = "watch" /\ status' = "FAILED" /\ alive' = {}
      BY <1>5, <1>7, <2>2 DEF Launch, LaunchFails, Goto, StateOK
    <3>2. Starting(c)' /\ Knows'
      BY <3>1 DEF Starting, Down
    <3>. QED
      BY <1>1, <1>3, <1>5, <1>7, <2>2, <3>2, StarterMoves DEF Launch, LaunchFails
  <2>. HIDE DEF fields, processes, Knows
  <2>. QED
    BY <1>7, <2>1, <2>2, Zenon DEF Launch
<1>8. CASE Record(c)
  <2>1. Starting(c)' /\ Knows'
    BY <1>5, <1>8 DEF Record, RecordProcess, Goto, StateOK, Starting, Down
  <2>. QED
    BY <1>1, <1>3, <1>5, <1>8, <2>1, StarterMoves DEF Record, RecordProcess
<1>9. CASE Watch(c)
  <2>1. CASE process # 0
    <3>1. Starting(c)' /\ Knows'
      BY <1>5, <1>9, <2>1 DEF Watch, Goto, StateOK, Starting, Down
    <3>. QED
      BY <1>1, <1>3, <1>5, <1>9, <3>1, StarterMoves DEF Watch
  <2>2. CASE process = 0
    <3>1. callers'[c].pc = "idle"
      BY <1>9, <2>2 DEF Watch, Return, Idle, StateOK
    <3>2. alive' = {}
      BY <1>5, <1>9, <2>2 DEF Watch, StateOK
    <3>3. UNCHANGED <<attempts, monitors>>
      BY <1>9 DEF Watch
    <3>. QED
      BY <1>2, <1>3, <3>1, <3>2, <3>3
         DEF Alone, Exclusive, StarterKnows, MonitorKnows, NoneIsForgotten,
             AttemptsLeft, Starting, Active
  <2>. QED
    BY <2>1, <2>2
<1>10. CASE Announce(c)
  <2>1. PICK m \in Monitors : monitors' = [monitors EXCEPT ![m].pc = "take"]
    BY <1>10 DEF Announce
  <2>2. monitors'[m].pc = "take" /\ \A n \in Monitors : n # m => monitors'[n] = monitors[n]
    BY <2>1 DEF StateOK
  <2>3. callers'[c].pc = "idle" /\ UNCHANGED <<status, process, attempts, alive>>
    BY <1>10 DEF Announce, Return, Idle, StateOK
  <2>4. alive \subseteq {process} /\ ~Down
    BY <1>5, <1>10 DEF Announce
  <2>5. \A d \in Callers : ~Starting(d)' /\ callers'[d].pc # "stopped"
    BY <1>2, <1>3, <1>4, <2>3 DEF Starting
  <2>6. Exclusive'
    BY <1>2, <2>2, <2>5 DEF Exclusive, Active
  <2>7. MonitorKnows'
    BY <1>2, <2>2, <2>3, <2>4 DEF MonitorKnows, Active, Down
  <2>8. StarterKnows' /\ NoneIsForgotten'
    BY <2>2, <2>5 DEF StarterKnows, Starting, NoneIsForgotten, Active
  <2>9. AttemptsLeft'
    BY <1>2, <2>2, <2>3 DEF Alone, AttemptsLeft, Active
  <2>. QED
    BY <2>6, <2>7, <2>8, <2>9 DEF Alone
<1>. QED
  BY <1>6, <1>7, <1>8, <1>9, <1>10

\* A panic leaves no goroutine, and comes only when there is no process.
LEMMA PanicAlone ==
  ASSUME StateOK, Alone, Panic,
         \/ \E c \in Callers : callers[c].pc = "announce"
         \/ \E m \in Monitors : monitors[m].pc = "take"
  PROVE  Alone'
<1>1. alive' = {}
  BY DEF Panic, processes, Alone, StarterKnows, MonitorKnows, Active, StateOK
<1>2. (\A c \in Callers : callers'[c].pc = "idle") /\ (\A m \in Monitors : monitors'[m].pc = "none")
  BY DEF Panic, Idle, NoMonitor
<1>3. attempts' = attempts
  BY DEF Panic, fields
<1>. QED
  BY <1>1, <1>2, <1>3
     DEF Alone, Exclusive, StarterKnows, MonitorKnows, NoneIsForgotten, AttemptsLeft,
         Starting, Active

LEMMA HandOverAlone ==
  ASSUME StateOK, Alone, NEW c \in Callers, NEW m \in Monitors, HandOver(c, m)
  PROVE  Alone'
<1>1. alive = {} /\ (\A n \in Monitors : n # m => ~Active(n)) /\ (\A d \in Callers : ~Starting(d))
  BY DEF HandOver, Alone, Exclusive, MonitorKnows, Active
<1>2. /\ callers'[c].pc = "stopped" /\ monitors'[m].pc = "none"
      /\ \A d \in Callers : d # c => callers'[d] = callers[d]
      /\ \A n \in Monitors : n # m => monitors'[n] = monitors[n]
      /\ UNCHANGED <<attempts, alive>>
  BY DEF HandOver, Goto, NoMonitor, StateOK, fields, processes
<1>3. (\A n \in Monitors : ~Active(n)') /\ (\A d \in Callers : ~Starting(d)')
  BY <1>1, <1>2 DEF Active, Starting
<1>. QED
  BY <1>1, <1>2, <1>3
     DEF Alone, Exclusive, StarterKnows, MonitorKnows, NoneIsForgotten, AttemptsLeft,
         Starting, Active

LEMMA StoppedAlone ==
  ASSUME StateOK, Alone, NEW c \in Callers, Stopped(c)
  PROVE  Alone'
<1>1. (\A m \in Monitors : ~Active(m)) /\ (\A d \in Callers : ~Starting(d))
  BY DEF Stopped, Alone, Exclusive
<1>2. /\ callers'[c].pc = "idle" /\ \A d \in Callers : d # c => callers'[d] = callers[d]
      /\ UNCHANGED <<attempts, monitors, alive>>
  BY DEF Stopped, Return, Idle, StateOK, processes
<1>3. \A d \in Callers : ~Starting(d)'
  BY <1>1, <1>2 DEF Starting
<1>. QED
  BY <1>1, <1>2, <1>3
     DEF Alone, Exclusive, StarterKnows, MonitorKnows, NoneIsForgotten, AttemptsLeft,
         Starting, Active

\* A monitor that goes on is the only one, so that what it knows is left to
\* show.
Knows(m) ==
  /\ ~Down
  /\ monitors[m].pc = "take" => alive \subseteq {process}
  /\ monitors[m].pc \in {"wait", "record"} => alive \subseteq {monitors[m].proc}
  /\ monitors[m].pc \notin {"take", "wait", "record"} => alive = {}
  /\ attempts <= MaxTries
  /\ monitors[m].pc \in {"respawn", "sleep"} => attempts < MaxTries

LEMMA MonitorMoves ==
  ASSUME StateOK, Alone, NEW m \in Monitors, Active(m), UNCHANGED callers, Active(m)',
         \A n \in Monitors : n # m => monitors'[n] = monitors[n],
         Knows(m)'
  PROVE  Alone'
<1>1. /\ \A n \in Monitors : n # m => ~Active(n) /\ ~Active(n)'
      /\ \A c \in Callers : ~Starting(c) /\ ~Starting(c)' /\ callers'[c].pc # "stopped"
  BY DEF Alone, Exclusive, Starting, Active
<1>2. Exclusive' /\ StarterKnows' /\ NoneIsForgotten'
  BY <1>1 DEF Exclusive, StarterKnows, NoneIsForgotten, Starting
<1>3. MonitorKnows' /\ AttemptsLeft'
  BY <1>1 DEF MonitorKnows, AttemptsLeft, Knows, Active
<1>. QED
  BY <1>2, <1>3 DEF Alone

LEMMA MonitorAlone ==
  ASSUME StateOK, Alone, NEW m \in Monitors, MonitorNext(m)
  PROVE  Alone'
<1>. USE DEF fields, processes
<1>1. CASE MonitorPanics(m)
  BY <1>1, PanicAlone DEF MonitorPanics
<1>2. CASE Bury(m)
  <2>1. /\ alive = {} /\ \A n \in Monitors : n # m => ~Active(n)
        /\ \A c \in Callers : ~Starting(c)
    BY <1>2 DEF Bury, Alone, Exclusive, MonitorKnows, Active
  <2>2. /\ monitors'[m].pc = "none" /\ UNCHANGED <<attempts, callers, alive>>
        /\ \A n \in Monitors : n # m => monitors'[n] = monitors[n]
    BY <1>2 DEF Bury, NoMonitor, StateOK
  <2>3. (\A n \in Monitors : ~Active(n)') /\ (\A c \in Callers : ~Starting(c)')
    BY <2>1, <2>2 DEF Active, Starting
  <2>. QED
    BY <2>1, <2>2, <2>3
       DEF Alone, Exclusive, StarterKnows, MonitorKnows, NoneIsForgotten,
           AttemptsLeft, Starting, Active
<1>3. ASSUME ~MonitorPanics(m), ~Bury(m)
      PROVE  Alone'
  <2>1. Active(m) /\ UNCHANGED callers
    BY <1>3 DEF MonitorNext, Take, WaitReturns, ReadStatus, Decide, Respawn, Wake,
                Relaunch, Rerecord, Active
  <2>2. \A n \in Monitors : n # m => monitors'[n] = monitors[n]
    BY <1>3 DEF MonitorNext, Take, WaitReturns, ReadStatus, Decide, Respawn, Wake,
                Relaunch, Rerecord, MonitorGoto, StateOK
  <2>3. Knows(m)
    BY <2>1 DEF Alone, MonitorKnows, AttemptsLeft, Knows
  <2>4. CASE Take(m)
    BY <2>1, <2>2, <2>3, <2>4, MonitorMoves DEF Take, Knows, Active, Down, StateOK
  <2>5. CASE WaitReturns(m)
    BY <2>1, <2>2, <2>3, <2>5, MonitorMoves
       DEF WaitReturns, MonitorGoto, Knows, Active, Down, StateOK
  <2>6. CASE ReadStatus(m)
    BY <2>1, <2>2, <2>3, <2>6, MonitorMoves
       DEF ReadStatus, MonitorGoto, Knows, Active, Down, StateOK
  <2>7. CASE Decide(m)
    BY <2>1, <2>2, <2>3, <2>7, MonitorMoves, SupervisorAssumption
       DEF Decide, CanRespawn, MonitorGoto, Knows, Active, Down, StateOK
  <2>8. CASE Respawn(m)
    BY <2>1, <2>2, <2>3, <2>8, MonitorMoves DEF Respawn, Knows, Active, Down, StateOK
  <2>9. CASE Wake(m)
    BY <2>1, <2>2, <2>3, <2>9, MonitorMoves, SupervisorAssumption
       DEF Wake, MonitorGoto, Knows, Active, Down, StateOK
  <2>10. CASE Relaunch(m)
    <3>1. CASE LaunchProcess /\ UNCHANGED <<fields, budget>>
               /\ monitors' = [monitors EXCEPT ![m] = [pc |-> "record", proc |-> launched + 1]]
      BY <2>1, <2>2, <2>3, <2>10, <3>1, MonitorMoves
         DEF Relaunch, LaunchProcess, Knows, Active, Down, StateOK
    <3>2. CASE LaunchFails /\ MonitorGoto(m, "take") /\ UNCHANGED processes
      BY <2>1, <2>2, <2>3, <2>10, <3>2, MonitorMoves
         DEF Relaunch, LaunchFails, MonitorGoto, Knows, Active, Down, StateOK
    <3>. HIDE DEF fields, processes
    <3>. QED
      BY <2>10, <3>1, <3>2, Zenon DEF Relaunch
  <2>11. CASE Rerecord(m)
    BY <2>1, <2>2, <2>3, <2>11, MonitorMoves
       DEF Rerecord, RecordProcess, Knows, Active, Down, StateOK
  <2>. QED
    BY <1>3, <2>4, <2>5, <2>6, <2>7, <2>8, <2>9, <2>10, <2>11 DEF MonitorNext
<1>. QED
  BY <1>1, <1>2, <1>3

LEMMA SVInvStep == StateOK /\ SVInv /\ [Next]_vars => SVInv'
<1>. SUFFICES ASSUME StateOK, SVInv, [Next]_vars, ~overlap' PROVE Alone'
  BY DEF SVInv
<1>1. Alone
  BY OverlapStays DEF SVInv
<1>2. ASSUME NEW c \in Callers, CallerNext(c)
      PROVE  Alone'
  BY <1>1, <1>2, CallStartAlone, StartAlone, StopAlone, StoppedAlone, HandOverAlone,
     PanicAlone DEF CallerNext, AnnouncePanics
<1>3. ASSUME NEW m \in Monitors, MonitorNext(m)
      PROVE  Alone'
  BY <1>1, <1>3, MonitorAlone
<1>4. ASSUME NEW p \in alive, Exit(p) \/ Crash(p)
      PROVE  Alone'
  BY <1>1, <1>4, AsideStep DEF Exit, Crash, Ends, Down, fields
<1>5. CASE UNCHANGED vars
  BY <1>1, <1>5, AsideStep DEF vars, fields, processes, Down
<1>. QED
  BY <1>2, <1>3, <1>4, <1>5 DEF Next

LEMMA SVInvAlways == Spec => []SVInv
<1>1. Init => SVInv
  BY SupervisorAssumption
     DEF Init, SVInv, Alone, Exclusive, StarterKnows, MonitorKnows, NoneIsForgotten,
         AttemptsLeft, Starting, Active, Idle, NoMonitor
<1>. QED
  BY <1>1, SVInvStep, SVTypeCorrect, PTL DEF Spec, SVTypeOK

\* Unless calls of Start come together, a service never has two processes,
\* however it crashes, fails to start and is stopped meanwhile.
THEOREM NeverTwoProcesses == Spec => []OneProcess
<1>1. SVInv => OneProcess
  BY DEF SVInv, OneProcess, Alone, StarterKnows, MonitorKnows, NoneIsForgotten,
         Starting, Active
<1>. QED
  BY <1>1, SVInvAlways, PTL

\* Under the same condition a service shown as stopped or dead has no process.
THEOREM DownMeansDown == Spec => []DownIsDown
<1>1. SVInv => DownIsDown
  BY DEF SVInv, DownIsDown, Alone, MonitorKnows, NoneIsForgotten, Active, Down
<1>. QED
  BY <1>1, SVInvAlways, PTL

\* Under the same condition the supervisor gives up after MaxTries attempts.
THEOREM RespawnsAreBounded == Spec => []TriesBounded
<1>1. SVInv => TriesBounded
  BY DEF SVInv, TriesBounded, Alone, AttemptsLeft
<1>. QED
  BY <1>1, SVInvAlways, PTL
=============================================================================
