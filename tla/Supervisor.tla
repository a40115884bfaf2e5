------------------------------ MODULE Supervisor ------------------------------
(***************************************************************************)
(* One service under the supervisor: service.go.  Calls of Start and Stop  *)
(* run in goroutines of their own (a handler of gRPC, the autostart, the   *)
(* shutdown); every process that Start has started gets a goroutine        *)
(* monitorProcess that waits for its end and starts it again.  They share  *)
(* the fields of Service and release its mutex between one access and the  *)
(* next: each step below is the code from one access to the next.          *)
(*                                                                         *)
(* Processes are numbered in the order they are started; 0 stands for nil. *)
(* The pipes, the files of a service and the SIGHUP its end sends to other *)
(* services are left out.  Nothing here lasts beyond the supervisor: when  *)
(* it panics, the behaviour ends.                                          *)
(***************************************************************************)
EXTENDS Integers, FiniteSets

CONSTANTS
  Callers,    \* goroutines that call Start and Stop
  Monitors,   \* bound: as many monitorProcess goroutines at a time
  MaxTries,   \* RestartPolicy.MaxTries
  Timely,     \* no monitor is slower than the timeout of Stop
  Budget      \* bound: how often each kind of event happens

\* "start", "stop"   a call
\* "crash"           a process ends without having been told to
\* "failure"         os.StartProcess fails
Events == {"start", "stop", "crash", "failure"}

ASSUME SupervisorAssumption ==
  /\ MaxTries \in Nat
  /\ Timely \in BOOLEAN
  /\ Budget \in [Events -> Nat]

VARIABLES
  status,     \* field Status
  process,    \* field process
  attempts,   \* field restartAttempts
  callers,    \* the call each caller is in
  monitors,   \* where each monitor is
  launched,   \* how many processes have been started so far
  alive,      \* those that have not ended
  asked,      \* those of them that have got a SIGTERM
  panicked,   \* the supervisor has dereferenced nil
  overlap,    \* history: a Start began while another goroutine was at work
  wanted,     \* history: no Stop has returned since the last Start began
  budget      \* what is left of Budget

fields == <<status, process, attempts>>
processes == <<launched, alive, asked>>
flags == <<panicked, overlap, wanted>>
vars == <<fields, callers, monitors, processes, flags, budget>>

Spend(e) == budget[e] > 0 /\ budget' = [budget EXCEPT ![e] = @ - 1]

\* A caller: its place in Start or Stop, the process it works on, and what
\* stopProcess sends next: SIGTERM, and SIGKILL once its timeout has fired.
Idle == [pc |-> "idle", proc |-> 0, signal |-> "SIGTERM"]

Signals == {"SIGTERM", "SIGKILL"}

CallerPlaces ==
  {"idle", "reset", "launch", "record", "watch", "announce",      \* Start
   "look", "mark", "await", "stopped"}                            \* Stop

\* A monitor: its place and the process it waits for.
NoMonitor == [pc |-> "none", proc |-> 0]

MonitorPlaces ==
  {"none", "take", "wait", "read", "decide", "send", "bury", "respawn",
   "sleep", "launch", "record"}

ServiceStatuses ==
  {"DISABLED", "STOPPED", "RUNNING", "RESPAWNING", "SHUTDOWN", "FAILED", "DEAD"}

Init ==
  /\ status \in {"STOPPED", "DISABLED"} /\ process = 0 /\ attempts = 0
  /\ callers = [c \in Callers |-> Idle]
  /\ monitors = [m \in Monitors |-> NoMonitor]
  /\ launched = 0 /\ alive = {} /\ asked = {}
  /\ panicked = FALSE /\ overlap = FALSE /\ wanted = FALSE
  /\ budget = Budget

Goto(c, pc) == callers' = [callers EXCEPT ![c].pc = pc]
Return(c) == callers' = [callers EXCEPT ![c] = Idle]
MonitorGoto(m, pc) == monitors' = [monitors EXCEPT ![m].pc = pc]

Busy(c) == callers[c].pc # "idle"
Active(m) == monitors[m].pc # "none"

\* A process ends.
Ends(p) == alive' = alive \ {p} /\ asked' = asked \ {p}

-----------------------------------------------------------------------------
(* startProcess, for a caller or a monitor *)

\* os.StartProcess succeeds.
LaunchProcess ==
  /\ launched' = launched + 1
  /\ alive' = alive \cup {launched + 1}
  /\ UNCHANGED asked

LaunchFails ==
  /\ Spend("failure")
  /\ status' = "FAILED" /\ process' = 0 /\ UNCHANGED attempts

RecordProcess(p) ==
  status' = "RUNNING" /\ process' = p /\ UNCHANGED attempts

\* Nil is dereferenced, which ends the supervisor with all its goroutines.
Panic ==
  /\ process = 0
  /\ panicked' = TRUE
  /\ callers' = [c \in Callers |-> Idle]
  /\ monitors' = [m \in Monitors |-> NoMonitor]
  /\ UNCHANGED <<fields, processes, overlap, wanted, budget>>

-----------------------------------------------------------------------------
(* Start *)

CallStart(c) ==
  /\ ~panicked /\ ~Busy(c) /\ Spend("start")
  /\ IF status = "RUNNING" THEN UNCHANGED <<callers, overlap, wanted>>
     ELSE /\ Goto(c, "reset")
          /\ overlap' = (overlap \/ (\E d \in Callers : Busy(d))
                                 \/ (\E m \in Monitors : Active(m)))
          /\ wanted' = TRUE
  /\ UNCHANGED <<fields, monitors, processes, panicked>>

ResetAttempts(c) ==
  /\ callers[c].pc = "reset"
  /\ attempts' = 0
  /\ Goto(c, "launch")
  /\ UNCHANGED <<status, process, monitors, processes, flags, budget>>

Launch(c) ==
  /\ callers[c].pc = "launch"
  /\ \/ /\ LaunchProcess
        /\ callers' = [callers EXCEPT ![c].pc = "record", ![c].proc = launched + 1]
        /\ UNCHANGED <<fields, budget>>
     \/ LaunchFails /\ Goto(c, "watch") /\ UNCHANGED processes
  /\ UNCHANGED <<monitors, flags>>

Record(c) ==
  /\ callers[c].pc = "record"
  /\ RecordProcess(callers[c].proc)
  /\ Goto(c, "watch")
  /\ UNCHANGED <<monitors, processes, flags, budget>>

\* Mutant: nobody watches the process.
AnnounceOnly(c) ==
  /\ callers[c].pc = "announce" /\ process # 0
  /\ Return(c)
  /\ UNCHANGED <<fields, monitors, processes, flags, budget>>

\* The field is read again, once without the mutex...
Watch(c) ==
  /\ callers[c].pc = "watch"
  /\ IF process # 0 THEN Goto(c, "announce") ELSE Return(c)
  /\ UNCHANGED <<fields, monitors, processes, flags, budget>>

\* ...and once with it, for the log, before the monitor is started.
Announce(c) ==
  /\ callers[c].pc = "announce" /\ process # 0
  /\ \E m \in Monitors :
       ~Active(m) /\ monitors' = [monitors EXCEPT ![m].pc = "take"]
  /\ Return(c)
  /\ UNCHANGED <<fields, processes, flags, budget>>

\* The log reads the pid of nil.
AnnouncePanics(c) == callers[c].pc = "announce" /\ Panic

-----------------------------------------------------------------------------
(* Stop *)

CallStop(c) ==
  /\ ~panicked /\ ~Busy(c) /\ Spend("stop")
  /\ IF status \in {"STOPPED", "SHUTDOWN"}
     THEN wanted' = FALSE /\ UNCHANGED callers
     ELSE Goto(c, "look") /\ UNCHANGED wanted
  /\ UNCHANGED <<fields, monitors, processes, panicked, overlap>>

Look(c) ==
  /\ callers[c].pc = "look"
  /\ IF process = 0
     THEN Return(c) /\ wanted' = FALSE
     ELSE /\ callers' = [callers EXCEPT ![c].pc = "mark", ![c].proc = process]
          /\ UNCHANGED wanted
  /\ UNCHANGED <<fields, monitors, processes, panicked, overlap, budget>>

\* Mutant: the status is final at once.
MarkStopped(c) ==
  /\ callers[c].pc = "mark"
  /\ status' = "STOPPED"
  /\ IF callers[c].signal = "SIGKILL"
     THEN Ends(callers[c].proc)
     ELSE asked' = asked \cup ({callers[c].proc} \cap alive) /\ UNCHANGED alive
  /\ callers' = [callers EXCEPT ![c].pc = "await", ![c].proc = 0]
  /\ UNCHANGED <<process, attempts, monitors, launched, flags, budget>>

\* The status is set and the signal sent: SIGTERM, which a process may
\* ignore, and SIGKILL once the timeout has fired.
Mark(c) ==
  /\ callers[c].pc = "mark"
  /\ status' = "SHUTDOWN"
  /\ IF callers[c].signal = "SIGKILL"
     THEN Ends(callers[c].proc)
     ELSE asked' = asked \cup ({callers[c].proc} \cap alive) /\ UNCHANGED alive
  /\ callers' = [callers EXCEPT ![c].pc = "await", ![c].proc = 0]
  /\ UNCHANGED <<process, attempts, monitors, launched, flags, budget>>

\* time.After delivers once.  The timeout is of seconds: if it is Timely,
\* whatever a monitor does meanwhile, its sleep included, is over by then.
Timeout(c) ==
  /\ callers[c].pc = "await" /\ callers[c].signal = "SIGTERM"
  /\ Timely => \A m \in Monitors : monitors[m].pc \in {"none", "wait"}
  /\ callers' = [callers EXCEPT ![c].pc = "look", ![c].signal = "SIGKILL"]
  /\ UNCHANGED <<fields, monitors, processes, flags, budget>>

\* The channel shutdownComplete has no buffer.
HandOver(c, m) ==
  /\ callers[c].pc = "await" /\ monitors[m].pc = "send"
  /\ Goto(c, "stopped")
  /\ monitors' = [monitors EXCEPT ![m] = NoMonitor]
  /\ UNCHANGED <<fields, processes, flags, budget>>

Stopped(c) ==
  /\ callers[c].pc = "stopped"
  /\ status' = "STOPPED" /\ process' = 0
  /\ Return(c)
  /\ wanted' = FALSE
  /\ UNCHANGED <<attempts, monitors, processes, panicked, overlap, budget>>

-----------------------------------------------------------------------------
(* monitorProcess *)

Take(m) ==
  /\ monitors[m].pc = "take" /\ process # 0
  /\ monitors' = [monitors EXCEPT ![m] = [pc |-> "wait", proc |-> process]]
  /\ UNCHANGED <<fields, callers, processes, flags, budget>>

\* Wait on nil panics.
MonitorPanics(m) == monitors[m].pc = "take" /\ Panic

\* Mutant: Wait returns while the process runs.
WaitFails(m) ==
  /\ monitors[m].pc = "wait"
  /\ MonitorGoto(m, "read")
  /\ UNCHANGED <<fields, callers, processes, flags, budget>>

WaitReturns(m) ==
  /\ monitors[m].pc = "wait" /\ monitors[m].proc \notin alive
  /\ MonitorGoto(m, "read")
  /\ UNCHANGED <<fields, callers, processes, flags, budget>>

\* Mutant: the monitor of a process that was stopped ends without a message.
ReadStatusOnly(m) ==
  /\ monitors[m].pc = "read"
  /\ monitors' = [monitors EXCEPT
                    ![m] = IF status = "SHUTDOWN" THEN NoMonitor
                           ELSE [@ EXCEPT !.pc = "decide"]]
  /\ UNCHANGED <<fields, callers, processes, flags, budget>>

ReadStatus(m) ==
  /\ monitors[m].pc = "read"
  /\ MonitorGoto(m, IF status = "SHUTDOWN" THEN "send" ELSE "decide")
  /\ UNCHANGED <<fields, callers, processes, flags, budget>>

\* Mutant: one attempt too many.
CanRespawnOnceMore(tries) == tries <= MaxTries

\* canRespawn: the process may have been up for long enough for the attempts
\* to be counted anew.
CanRespawn(tries) == tries < MaxTries

Decide(m) ==
  /\ monitors[m].pc = "decide"
  /\ attempts' \in {attempts, 0}
  /\ MonitorGoto(m, IF CanRespawn(attempts') THEN "respawn" ELSE "bury")
  /\ UNCHANGED <<status, process, callers, processes, flags, budget>>

Bury(m) ==
  /\ monitors[m].pc = "bury"
  /\ status' = "DEAD" /\ process' = 0
  /\ monitors' = [monitors EXCEPT ![m] = NoMonitor]
  /\ UNCHANGED <<attempts, callers, processes, flags, budget>>

Respawn(m) ==
  /\ monitors[m].pc = "respawn"
  /\ status' = "RESPAWNING" /\ process' = 0
  /\ monitors' = [monitors EXCEPT ![m] = [pc |-> "sleep", proc |-> 0]]
  /\ UNCHANGED <<attempts, callers, processes, flags, budget>>

\* Mutant: the attempts are counted down.
WakeCountsDown(m) ==
  /\ monitors[m].pc = "sleep"
  /\ attempts' = attempts - 1
  /\ MonitorGoto(m, "launch")
  /\ UNCHANGED <<status, process, callers, processes, flags, budget>>

Wake(m) ==
  /\ monitors[m].pc = "sleep"
  /\ attempts' = attempts + 1
  /\ MonitorGoto(m, "launch")
  /\ UNCHANGED <<status, process, callers, processes, flags, budget>>

Relaunch(m) ==
  /\ monitors[m].pc = "launch"
  /\ \/ /\ LaunchProcess
        /\ monitors' = [monitors EXCEPT ![m] = [pc |-> "record", proc |-> launched + 1]]
        /\ UNCHANGED <<fields, budget>>
     \/ LaunchFails /\ MonitorGoto(m, "take") /\ UNCHANGED processes
  /\ UNCHANGED <<callers, flags>>

\* Mutant: the monitor ends with the process it watched first.
RerecordOnly(m) ==
  /\ monitors[m].pc = "record"
  /\ RecordProcess(monitors[m].proc)
  /\ monitors' = [monitors EXCEPT ![m] = NoMonitor]
  /\ UNCHANGED <<callers, processes, flags, budget>>

Rerecord(m) ==
  /\ monitors[m].pc = "record"
  /\ RecordProcess(monitors[m].proc)
  /\ monitors' = [monitors EXCEPT ![m] = [pc |-> "take", proc |-> 0]]
  /\ UNCHANGED <<callers, processes, flags, budget>>

-----------------------------------------------------------------------------
(* The process itself *)

Exit(p) ==
  /\ p \in asked /\ Ends(p)
  /\ UNCHANGED <<fields, callers, monitors, launched, flags, budget>>

Crash(p) ==
  /\ p \in alive /\ Spend("crash") /\ Ends(p)
  /\ UNCHANGED <<fields, callers, monitors, launched, flags>>

-----------------------------------------------------------------------------

CallerNext(c) ==
  \/ CallStart(c) \/ ResetAttempts(c) \/ Launch(c) \/ Record(c)
  \/ Watch(c) \/ Announce(c) \/ AnnouncePanics(c)
  \/ CallStop(c) \/ Look(c) \/ Mark(c) \/ Timeout(c) \/ Stopped(c)
  \/ \E m \in Monitors : HandOver(c, m)

MonitorNext(m) ==
  \/ Take(m) \/ MonitorPanics(m) \/ WaitReturns(m) \/ ReadStatus(m) \/ Decide(m)
  \/ Bury(m) \/ Respawn(m) \/ Wake(m) \/ Relaunch(m) \/ Rerecord(m)

Next ==
  \/ \E c \in Callers : CallerNext(c)
  \/ \E m \in Monitors : MonitorNext(m)
  \/ \E p \in alive : Exit(p) \/ Crash(p)

Spec == Init /\ [][Next]_vars

\* Goroutines go on, the timeout fires, os.StartProcess returns.  No process
\* has to obey SIGTERM, and nobody has to call.
Fairness ==
  /\ \A c \in Callers :
       /\ WF_vars(ResetAttempts(c)) /\ WF_vars(Launch(c)) /\ WF_vars(Record(c))
       /\ WF_vars(Watch(c)) /\ WF_vars(Announce(c)) /\ WF_vars(AnnouncePanics(c))
       /\ WF_vars(Look(c)) /\ WF_vars(Mark(c))
       /\ WF_vars(Timeout(c)) /\ WF_vars(Stopped(c))
       /\ \A m \in Monitors : WF_vars(HandOver(c, m))
  /\ \A m \in Monitors : WF_vars(MonitorNext(m))

FairSpec == Spec /\ Fairness

-----------------------------------------------------------------------------
(* Properties *)

StateOK ==
  /\ status \in ServiceStatuses
  /\ process \in 0..launched
  /\ attempts \in Nat
  /\ callers \in [Callers -> [pc : CallerPlaces, proc : 0..launched, signal : Signals]]
  /\ monitors \in [Monitors -> [pc : MonitorPlaces, proc : 0..launched]]
  /\ launched \in Nat /\ alive \subseteq 1..launched /\ asked \subseteq alive
  /\ budget \in [Events -> Nat]

FlagsOK == panicked \in BOOLEAN /\ overlap \in BOOLEAN /\ wanted \in BOOLEAN

SVTypeOK == StateOK /\ FlagsOK

\* As long as every Start came while no other goroutine was at work on the
\* service, it has never two processes, whatever crashed or failed to start
\* and however calls of Stop came together.
OneProcess == ~overlap => \A p, q \in alive : p = q

Starting(c) == callers[c].pc \in {"reset", "launch", "record", "watch", "announce"}

\* Under the same condition a service that is shown as stopped or dead has no
\* process, unless it is being started.
DownIsDown ==
  ~overlap /\ status \in {"STOPPED", "DEAD"} /\ (\A c \in Callers : ~Starting(c))
    => alive = {}

\* Under the same condition no more than MaxTries attempts are made in a row.
TriesBounded == ~overlap => attempts <= MaxTries

\* m is going to notice the end of the process of the service.
Watches(m) ==
  \/ monitors[m].pc = "take"
  \/ /\ monitors[m].pc \in {"wait", "read", "decide", "send", "bury", "respawn"}
     /\ monitors[m].proc = process

\* The process in the field is never forgotten, even where calls of Start
\* come together and leave other processes behind: a monitor watches it, or
\* is about to, or a Stop is about to clear the field.
ProcessIsWatched ==
  process # 0 /\ ~panicked =>
    \/ \E m \in Monitors : Watches(m)
    \/ \E c \in Callers : callers[c].pc \in {"watch", "announce", "stopped"}

\* A service whose process has ended is not shown as running for ever.
DeathIsNoticed ==
  (status = "RUNNING" /\ process \notin alive) ~>
    (status # "RUNNING" \/ process \in alive \/ panicked)

Stopping(c) == callers[c].pc \in {"look", "mark", "await", "stopped"}

\* Every call of Stop returns, if calls of Start did not come together and
\* processes crashed less often than Budget allows: the timeout fires once,
\* and two crashes, one before each signal, leave Stop with nobody to wait for.
StopReturns ==
  \A c \in Callers :
    Stopping(c) ~> ~Stopping(c) \/ overlap \/ budget["crash"] = 0
=============================================================================
