-------------------------- MODULE SupervisorService --------------------------
(***************************************************************************)
(* The supervisor over its instances and the web server:                   *)
(* supervisor_service.go, instance.go, and the control tool that calls it. *)
(* What Start, Stop and the monitor do to one service, with every          *)
(* interleaving, is in Supervisor; here they are a few steps each, and the *)
(* module is about many services: the order they are started and stopped   *)
(* in, and the SIGHUP each end of a service sends to the others.           *)
(*                                                                         *)
(* A process goes by the number of its monitor, 0 for nil.  Log and pid    *)
(* files are left out.                                                     *)
(***************************************************************************)
EXTENDS Configuration

CONSTANTS
  Clients,       \* control tools
  MaxMonitors,   \* bound: as many monitors at a time
  MaxTries,      \* RestartPolicy.MaxTries
  Commands       \* what the control tools are used for: <<command, target>>

\* "boot"     the supervisor is started
\* "control"  a command of the control tool
\* "crash"    a process ends without having been told to
\* "term"     the supervisor gets a SIGTERM
\* "nostart"  os.StartProcess fails
SupEvents == {"boot", "control", "crash", "term", "nostart"}

ASSUME SupervisorServiceAssumption ==
  /\ MaxMonitors \in Nat /\ MaxTries \in Nat
  /\ {"autostart", "main"} \cap Clients = {}

Monitors == 1..MaxMonitors
Callers == Clients \cup {"autostart", "main"}

\* A service is named by its instance and itself.
Web == <<"", "webserver">>
Names == MasterServices \cup {"grader"}
Services == (Instances \X Names) \cup {Web}

\* "*" in the place of a service stands for all of an instance.
Targets == {Web} \cup (Instances \X (Names \cup {"*"}))

ASSUME CommandsAssumption == Commands \subseteq {"start", "stop", "restart"} \X Targets

VARIABLES
  supervisor,   \* "down", "up", "closing", "ended" or "panicked"
  config,       \* field Config of each instance
  known,        \* the keys of field Services of each instance
  status,       \* fields Status...
  process,      \* ...process...
  tries,        \* ...and restartAttempts of each service
  monitors,     \* each monitor and its process
  callers,      \* the call each goroutine is in
  pending,      \* processes with a SIGHUP they have not handled
  stale,        \* pairs: a process has a connection to an ended one of a service
  touched,      \* history: instances that were not left alone
  late,         \* history: processes started while the supervisor was closing
  supBudget     \* bound: how often each kind of event may still happen

table == <<config, known, status, process, tries>>
connections == <<pending, stale>>
supHistory == <<touched, late, supBudget>>
supVars == <<supervisor, table, monitors, callers, connections, supHistory>>

SupSpend(e) == supBudget[e] > 0 /\ supBudget' = [supBudget EXCEPT ![e] = @ - 1]

\* A monitor: its place, its service, what its process is doing, and whether
\* that process has ever been ready.
NoMonitor == [pc |-> "none", service |-> Web, phase |-> "gone", lived |-> "no"]

\* "booting"  any signal ends it      "ready"  its handlers of signals are there
\* "asked"    has got a SIGTERM       "gone"   has ended
\* A monitor with pc "failed" has dereferenced the process it could not start.
Phases == {"booting", "ready", "asked", "gone"}

\* A call: start or stop what is in queue, then perhaps start the target.
Idle == [pc |-> "idle", op |-> "stop", target |-> Web, then |-> "none",
         queue |-> <<>>, signal |-> "SIGTERM"]

Call(op, target, then, queue) ==
  [Idle EXCEPT !.pc = "serve", !.op = op, !.target = target, !.then = then, !.queue = queue]

SupInit ==
  /\ supervisor = "down" /\ config = <<>>
  /\ known = [n \in Instances |-> {}]
  /\ status = [k \in Services |-> "DISABLED"]
  /\ process = [k \in Services |-> 0] /\ tries = [k \in Services |-> 0]
  /\ monitors = [m \in Monitors |-> NoMonitor]
  /\ callers = [c \in Callers |-> Idle]
  /\ pending = {} /\ stale = {} /\ touched = {} /\ late = {}

Running == supervisor \in {"up", "closing"}

\* The orders Go may iterate over a map in.
Orders(S) == {f \in [1..Cardinality(S) -> S] : \A i, j \in DOMAIN f : f[i] = f[j] => i = j}

InInstance(n, names) == [i \in DOMAIN names |-> <<n, names[i]>>]

AllOf(instances) == [i \in DOMAIN instances |-> <<instances[i], "*">>]

-----------------------------------------------------------------------------
(* NewSupervisorService and ProcessAutostart *)

\* Mutant: the grader is in no map.
CreateNoGrader(n) == MasterServices

\* CreateServices: the grader of an instance without one is not in the map.
CreateServices(n) ==
  MasterServices \cup (IF LoadInstanceConfig(n).grader = "true" THEN {"grader"} ELSE {})

InitialStatus(k) ==
  IF k = Web THEN (IF autostart = "true" THEN "STOPPED" ELSE "DISABLED")
  ELSE LET c == LoadInstanceConfig(k[1]) IN
       IF k[2] \in Elements(c.services) \/ (k[2] = "grader" /\ c.grader = "true")
       THEN "STOPPED" ELSE "DISABLED"

Boot ==
  /\ supervisor = "down" /\ SupSpend("boot") /\ LoadServerConfigSucceeds
  /\ supervisor' = "up"
  /\ config' = [n \in ConfiguredInstances |-> LoadInstanceConfig(n)]
  /\ known' = [n \in Instances |-> IF n \in ConfiguredInstances THEN CreateServices(n) ELSE {}]
  /\ status' = [k \in Services |-> InitialStatus(k)]
  /\ \E order \in Orders(ConfiguredInstances) :
       callers' = [callers EXCEPT
                     !["autostart"] = Call("start", Web, "none",
                       AllOf(order) \o (IF autostart = "true" THEN <<Web>> ELSE <<>>))]
  /\ UNCHANGED <<process, tries, monitors, connections, touched, late>>

-----------------------------------------------------------------------------
(* Calls of the control tool *)

\* Names that are not known are dropped, but not the grader.
Named(n, s) ==
  IF n = "" THEN <<Web>>
  ELSE IF s \in known[n] \cup {"grader", "*"} THEN <<<<n, s>>>> ELSE <<>>

\* Start reads the file of the instance again, without adding its name.
Handle(c, op, target, then) ==
  LET n == target[1] IN
  IF op = "start" /\ n # "" /\ ~Parses(<<n, "supervisor">>)
  THEN callers' = [callers EXCEPT ![c] = Idle] /\ UNCHANGED config
  ELSE /\ callers' = [callers EXCEPT ![c] = Call(op, target, then, Named(n, target[2]))]
       /\ config' = IF op = "start" /\ n # ""
                    THEN [config EXCEPT ![n] = LoadSupervisorConfig(n)] ELSE config

Control(c, command, target) ==
  /\ Running /\ callers[c].pc = "idle" /\ SupSpend("control")
  /\ target = Web \/ target[1] \in DOMAIN config
  /\ IF command = "restart" THEN Handle(c, "stop", target, "start")
     ELSE Handle(c, command, target, "none")
  /\ touched' = touched \cup ({target[1]} \cap Instances)
  /\ UNCHANGED <<supervisor, known, status, process, tries, monitors, connections, late>>

\* Main, after a signal: the web server first, then the instances.
Terminate ==
  /\ supervisor = "up" /\ SupSpend("term")
  /\ supervisor' = "closing"
  /\ \E order \in Orders(DOMAIN config) :
       callers' = [callers EXCEPT !["main"] = Call("stop", Web, "none", <<Web>> \o AllOf(order))]
  /\ touched' = Instances
  /\ UNCHANGED <<table, monitors, connections, late>>

NextService(c) == Head(callers[c].queue)

Serving(c, op) ==
  /\ Running /\ callers[c].pc = "serve" /\ callers[c].op = op /\ callers[c].queue # <<>>

Skip(c) ==
  callers' = [callers EXCEPT ![c].pc = "serve", ![c].queue = Tail(@), ![c].signal = "SIGTERM"]

Return(c) ==
  /\ Running /\ callers[c].pc = "serve" /\ callers[c].queue = <<>>
  /\ IF callers[c].then = "start" THEN Handle(c, "start", callers[c].target, "none")
     ELSE callers' = [callers EXCEPT ![c] = Idle] /\ UNCHANGED config
  /\ supervisor' = IF c = "main" THEN "ended" ELSE supervisor
  /\ UNCHANGED <<known, status, process, tries, monitors, connections, supHistory>>

-----------------------------------------------------------------------------
(* Instance.Start *)

\* All that the configuration enables, as it is now; the grader last.
ServicesToStart(n) ==
  {InInstance(n, config[n].services)
     \o (IF config[n].grader = "true" THEN <<<<n, "grader">>>> ELSE <<>>)}

\* Mutant: what the configuration enables.
ServicesEnabled(n) ==
  {<<<<n, "grader">>>> \o InInstance(n, config[n].services)}

\* All there are, whatever the configuration says by now; the grader first.
ServicesToStop(n) ==
  {<<<<n, "grader">>>> \o InInstance(n, order) : order \in Orders(known[n] \ {"grader"})}

Expand(c) ==
  /\ \E op \in {"start", "stop"} :
       /\ Serving(c, op) /\ NextService(c)[2] = "*"
       /\ \E list \in (IF op = "start" THEN ServicesToStart(NextService(c)[1])
                       ELSE ServicesToStop(NextService(c)[1])) :
            callers' = [callers EXCEPT ![c].queue = list \o Tail(@)]
  /\ UNCHANGED <<supervisor, table, monitors, connections, supHistory>>

Exists(k) == k \in {Web} \cup {l \in Services \ {Web} : l[2] \in known[l[1]]}

\* GetStatus of nil ends the supervisor and leaves all processes.
StartPanics(c) ==
  /\ Serving(c, "start") /\ NextService(c)[2] # "*" /\ ~Exists(NextService(c))
  /\ supervisor' = "panicked"
  /\ UNCHANGED <<table, monitors, callers, connections, supHistory>>

\* The status is looked at, a few hundred milliseconds pass...
StartNext(c) ==
  /\ Serving(c, "start") /\ Exists(NextService(c))
  /\ IF status[NextService(c)] = "RUNNING" THEN Skip(c)
     ELSE callers' = [callers EXCEPT ![c].pc = "launch"]
  /\ UNCHANGED <<supervisor, table, monitors, connections, supHistory>>

Launched(k) == [pc |-> "watch", service |-> k, phase |-> "booting", lived |-> "no"]

\* The process of monitor m is a new one, of service k.
StartProcess(m, k) ==
  /\ monitors' = [monitors EXCEPT ![m] = Launched(k)]
  /\ status' = [status EXCEPT ![k] = "RUNNING"]
  /\ process' = [process EXCEPT ![k] = m]
  /\ late' = IF supervisor = "closing" THEN late \cup {m} ELSE late \ {m}

\* ...and it is looked at again by Start of the service.
LaunchService(c) ==
  /\ Running /\ callers[c].pc = "launch"
  /\ LET k == NextService(c) IN
     IF status[k] = "RUNNING"
     THEN UNCHANGED <<monitors, status, process, tries, late>>
     ELSE /\ \E m \in Monitors :
               /\ monitors[m].pc = "none"
               /\ \A l \in 1..(m - 1) : monitors[l].pc # "none"
               /\ StartProcess(m, k)
          /\ tries' = [tries EXCEPT ![k] = 0]
  /\ Skip(c)
  /\ UNCHANGED <<supervisor, config, known, connections, touched, supBudget>>

\* What is left of service k when its process could not be started.
NotStarted(k) ==
  /\ SupSpend("nostart")
  /\ status' = [status EXCEPT ![k] = "FAILED"]
  /\ process' = [process EXCEPT ![k] = 0]
  /\ touched' = touched \cup ({k[1]} \cap Instances)

\* Start of a service warns and goes on, without a monitor.
LaunchFails(c) ==
  /\ Running /\ callers[c].pc = "launch"
  /\ LET k == NextService(c) IN
     /\ status[k] # "RUNNING" /\ NotStarted(k)
     /\ tries' = [tries EXCEPT ![k] = 0]
  /\ Skip(c)
  /\ UNCHANGED <<supervisor, config, known, monitors, connections, late>>

-----------------------------------------------------------------------------
(* Ends of processes and SIGHUP *)

\* A service may be connected to any other of its instance that has a socket.
Connected(p, q) ==
  /\ p # q /\ monitors[p].phase = "ready" /\ monitors[q].phase \in {"ready", "asked"}
  /\ monitors[p].service[1] = monitors[q].service[1]
  /\ monitors[p].service # monitors[q].service
  /\ monitors[q].service[2] # "grader"

\* The processes of the monitors in S end.
End(S) ==
  /\ pending' = pending \ S
  /\ stale' = {c \in stale : c[1] \notin S}
              \cup {<<pair[1], monitors[pair[2]].service>> :
                      pair \in {c \in (Monitors \ S) \X S : Connected(c[1], c[2])}}

Phase(m, phase) == monitors' = [monitors EXCEPT ![m].phase = phase]

\* SendSIGHUP to each of the services: to processes recorded as running, of
\* which those that boot have no handler yet and die.
Recipients(services) == {process[k] : k \in {l \in services : status[l] = "RUNNING"}} \ {0}
Killed(services) == {m \in Recipients(services) : monitors[m].phase = "booting"}
Signalled(services) == {m \in Recipients(services) : monitors[m].phase = "ready"}

\* Mutant: the name of the instance is not compared.
NotifiedEverywhere(k) ==
  IF k[2] = "grader" THEN {}
  ELSE {Web} \cup {l \in Services \ {Web} : l[1] \in DOMAIN config /\ l[2] \in known[l[1]]}

\* Mutant: only the web server is told.
NotifiedWebOnly(k) == IF k[2] = "grader" THEN {} ELSE {Web}

\* Mutant: the web server is not told.
NotifiedInstanceOnly(k) ==
  IF k[2] = "grader" THEN {}
  ELSE {l \in Services \ {Web} :
          l[1] \in DOMAIN config /\ config[l[1]].name = k[1] /\ l[2] \in known[l[1]]}

\* NotifyOnServiceExit of the supervisor and of the instances that have the
\* name, as their configuration says; it has the name "" when Start has read
\* it, which is that of the web server.  The instance compares the name of the
\* service that has ended with those of instances: in one that is named like
\* that service, nobody is told.
Notified(k) ==
  IF k[2] = "grader" THEN {}
  ELSE {Web} \cup {l \in Services \ {Web} :
                     /\ l[1] \in DOMAIN config /\ config[l[1]].name = k[1]
                     /\ l[2] \in known[l[1]] /\ l[1] # k[2]}

\* The monitor reads the status and tells the others.
NotifyExit(m) ==
  /\ Running /\ monitors[m].pc = "watch" /\ monitors[m].phase = "gone"
  /\ LET k == monitors[m].service
         K == Killed(Notified(k)) IN
     /\ monitors' = [q \in Monitors |->
          IF q = m THEN [monitors[q] EXCEPT !.pc = IF status[k] = "SHUTDOWN" THEN "send" ELSE "act"]
          ELSE IF q \in K THEN [monitors[q] EXCEPT !.phase = "gone"] ELSE monitors[q]]
     /\ pending' = pending \cup Signalled(Notified(k))
  /\ UNCHANGED <<supervisor, table, callers, stale, supHistory>>

\* Mutant: the attempts are counted anew for any process.
ActAfresh(m) ==
  /\ Running /\ monitors[m].pc = "act"
  /\ LET k == monitors[m].service IN
     /\ tries' = [tries EXCEPT ![k] = 0]
     /\ process' = [process EXCEPT ![k] = 0]
     /\ IF tries'[k] < MaxTries
        THEN /\ status' = [status EXCEPT ![k] = "RESPAWNING"]
             /\ monitors' = [monitors EXCEPT ![m].pc = "sleep"]
        ELSE /\ status' = [status EXCEPT ![k] = "DEAD"]
             /\ monitors' = [monitors EXCEPT ![m] = NoMonitor]
  /\ UNCHANGED <<supervisor, config, known, callers, connections, supHistory>>

\* A process that was up for long enough has its attempts counted anew.
Act(m) ==
  /\ Running /\ monitors[m].pc = "act"
  /\ LET k == monitors[m].service IN
     /\ tries' \in {tries} \cup
          (IF monitors[m].lived = "yes" THEN {[tries EXCEPT ![k] = 0]} ELSE {})
     /\ process' = [process EXCEPT ![k] = 0]
     /\ IF tries'[k] < MaxTries
        THEN /\ status' = [status EXCEPT ![k] = "RESPAWNING"]
             /\ monitors' = [monitors EXCEPT ![m].pc = "sleep"]
        ELSE /\ status' = [status EXCEPT ![k] = "DEAD"]
             /\ monitors' = [monitors EXCEPT ![m] = NoMonitor]
  /\ UNCHANGED <<supervisor, config, known, callers, connections, supHistory>>

\* Mutant: attempts are counted down.
WakeCountsDown(m) ==
  /\ Running /\ monitors[m].pc = "sleep"
  /\ tries' = [tries EXCEPT ![monitors[m].service] = @ - 1]
  /\ StartProcess(m, monitors[m].service)
  /\ UNCHANGED <<supervisor, config, known, callers, connections, touched, supBudget>>

Wake(m) ==
  /\ Running /\ monitors[m].pc = "sleep"
  /\ tries' = [tries EXCEPT ![monitors[m].service] = @ + 1]
  /\ StartProcess(m, monitors[m].service)
  /\ UNCHANGED <<supervisor, config, known, callers, connections, touched, supBudget>>

\* The monitor goes on with the process that it could not start, and its
\* goroutine ends the supervisor.  What a Start does in between is in
\* Supervisor.
WakeFails(m) ==
  /\ Running /\ monitors[m].pc = "sleep"
  /\ NotStarted(monitors[m].service)
  /\ tries' = [tries EXCEPT ![monitors[m].service] = @ + 1]
  /\ monitors' = [monitors EXCEPT ![m].pc = "failed"]
  /\ supervisor' = "panicked"
  /\ UNCHANGED <<config, known, callers, connections, late>>

-----------------------------------------------------------------------------
(* Instance.Stop *)

\* SIGTERM: the web server waits for it on a channel nobody writes to.
Terminated(m) ==
  IF monitors[m].phase = "booting" THEN "gone"
  ELSE IF monitors[m].phase = "ready" /\ monitors[m].service # Web THEN "asked"
  ELSE monitors[m].phase

\* Stop of a service skips nil and what is down or being stopped, and
\* stopProcess what has no process.
StopNext(c) ==
  /\ Serving(c, "stop") /\ NextService(c)[2] # "*"
  /\ LET k == NextService(c)
         kill == callers[c].signal = "SIGKILL" IN
     IF \/ ~Exists(k)
        \/ ~kill /\ status[k] \in {"STOPPED", "SHUTDOWN"}
        \/ process[k] = 0
     THEN Skip(c) /\ UNCHANGED <<status, monitors, connections>>
     ELSE LET m == process[k]
              phase == IF kill THEN "gone" ELSE Terminated(m) IN
          /\ status' = [status EXCEPT ![k] = "SHUTDOWN"]
          /\ Phase(m, phase)
          /\ IF phase = "gone" THEN End({m}) ELSE UNCHANGED connections
          /\ callers' = [callers EXCEPT ![c].pc = "await"]
  /\ UNCHANGED <<supervisor, config, known, process, tries, supHistory>>

\* The timeout is of seconds: whatever a monitor does is over by then.
Timeout(c) ==
  /\ Running /\ callers[c].pc = "await" /\ callers[c].signal = "SIGTERM"
  /\ \A m \in Monitors :
       monitors[m].service = NextService(c) /\ monitors[m].pc # "none" =>
         monitors[m].pc = "watch" /\ monitors[m].phase # "gone"
  /\ callers' = [callers EXCEPT ![c].pc = "serve", ![c].signal = "SIGKILL"]
  /\ UNCHANGED <<supervisor, table, monitors, connections, supHistory>>

HandOver(c, m) ==
  /\ Running /\ callers[c].pc = "await" /\ monitors[m].pc = "send"
  /\ monitors[m].service = NextService(c)
  /\ status' = [status EXCEPT ![NextService(c)] = "STOPPED"]
  /\ process' = [process EXCEPT ![NextService(c)] = 0]
  /\ monitors' = [monitors EXCEPT ![m] = NoMonitor]
  /\ Skip(c)
  /\ UNCHANGED <<supervisor, config, known, tries, connections, supHistory>>

-----------------------------------------------------------------------------
(* The processes *)

\* A service in Dart needs all its files, and its endpoints not to be empty.
BootSucceeds(k) ==
  IF k = Web THEN ParseWebServerConfigSucceeds
  ELSE /\ files[<<k[1], "services">>] = "whole" /\ files[<<k[1], "endpoints">>] = "whole"
       /\ Parses(<<k[1], "token">>)

\* Two web servers cannot listen on one port.
PortTaken == \E m \in Monitors : monitors[m].service = Web /\ monitors[m].phase = "ready"

ProcessReady(m) ==
  /\ monitors[m].phase = "booting" /\ BootSucceeds(monitors[m].service)
  /\ monitors[m].service = Web => ~PortTaken
  /\ monitors' = [monitors EXCEPT ![m].phase = "ready", ![m].lived = "yes"]
  /\ UNCHANGED <<supervisor, table, callers, connections, supHistory>>

BootFails(m) ==
  /\ monitors[m].phase = "booting"
  /\ ~BootSucceeds(monitors[m].service) \/ (monitors[m].service = Web /\ PortTaken)
  /\ Phase(m, "gone")
  /\ touched' = touched \cup ({monitors[m].service[1]} \cap Instances)
  /\ UNCHANGED <<supervisor, table, callers, connections, late, supBudget>>

\* The process of the web server panics.
Fail(m) ==
  /\ monitors[m].phase = "ready"
  /\ Phase(m, "gone") /\ End({m})
  /\ UNCHANGED <<supervisor, table, callers, supHistory>>

Crash(m) ==
  /\ monitors[m].phase \in {"booting", "ready"} /\ SupSpend("crash")
  /\ Phase(m, "gone") /\ End({m})
  /\ touched' = touched \cup ({monitors[m].service[1]} \cap Instances)
  /\ UNCHANGED <<supervisor, table, callers, late>>

AskedEnds(m) ==
  /\ monitors[m].phase = "asked"
  /\ Phase(m, "gone") /\ End({m})
  /\ UNCHANGED <<supervisor, table, callers, supHistory>>

\* All connections are dropped, and made anew when they are needed.
HandleSIGHUP(m) ==
  /\ m \in pending
  /\ pending' = pending \ {m}
  /\ stale' = {c \in stale : c[1] # m}
  /\ UNCHANGED <<supervisor, table, monitors, callers, supHistory>>

-----------------------------------------------------------------------------

CallerNext(c) ==
  \/ Return(c) \/ Expand(c) \/ StartPanics(c) \/ StartNext(c) \/ LaunchService(c)
  \/ LaunchFails(c) \/ StopNext(c) \/ Timeout(c)
  \/ \E m \in Monitors : HandOver(c, m)

MonitorNext(m) ==
  \/ NotifyExit(m) \/ Act(m) \/ Wake(m) \/ WakeFails(m)

SupEvent ==
  \/ Boot \/ Terminate
  \/ \E c \in Clients, command \in Commands : Control(c, command[1], command[2])
  \/ \E m \in Monitors : Crash(m)

-----------------------------------------------------------------------------
(* Properties *)

SupTypeOK ==
  /\ supervisor \in {"down", "up", "closing", "ended", "panicked"}
  /\ DOMAIN config \subseteq Instances
  /\ known \in [Instances -> SUBSET Names]
  /\ status \in [Services -> {"DISABLED", "STOPPED", "RUNNING", "RESPAWNING", "SHUTDOWN",
                            "DEAD", "FAILED"}]
  /\ process \in [Services -> {0} \cup Monitors]
  /\ tries \in [Services -> Nat]
  /\ monitors \in [Monitors -> [pc : {"none", "watch", "act", "send", "sleep", "failed"},
                                service : Services, phase : Phases, lived : {"no", "yes"}]]
  /\ pending \subseteq {m \in Monitors : monitors[m].phase \in {"ready", "asked"}}
  /\ stale \subseteq Monitors \X Services

\* The end of a process is not known to the supervisor yet.
Unnoticed(k) ==
  \E q \in Monitors :
    monitors[q].service = k /\ monitors[q].pc = "watch" /\ monitors[q].phase = "gone"

\* A running service that has a connection to an ended process is told, or
\* will be.  Excepted are an instance whose configuration was read again by a
\* Start since the supervisor was started, from when on nobody is told, and one
\* that is named like the service that has ended, in which nobody ever is.
StaleIsTold ==
  \A c \in stale :
    LET k == monitors[c[1]].service IN
    \/ c[1] \in pending \/ Unnoticed(c[2])
    \/ process[k] # c[1] \/ status[k] # "RUNNING" \/ ~Running
    \/ k # Web /\ (config[k[1]].name # k[1] \/ k[1] = c[2][2])

\* What happens to one instance and to the web server never ends a service of
\* another: without a crash, a control command, a bad file or a start of its own
\* that fails, all its processes run on, through any chain of restarts elsewhere.
UntouchedRunsOn ==
  \A k \in Services \ {Web} :
    k[1] \notin touched => status[k] \in {"DISABLED", "STOPPED", "RUNNING"}

\* When the supervisor has ended, no process is left that its table still
\* has, even if its configuration enables fewer services by then; excepted are
\* those started after the signal, and those a control tool was stopping.
NothingLeftBehind ==
  supervisor = "ended" =>
    \A m \in Monitors :
      /\ monitors[m].phase # "gone" /\ process[monitors[m].service] = m
      => m \in late \/ status[monitors[m].service] = "SHUTDOWN"

\* Crashes do not set off restarts without an end, although the end of every
\* service kills those that are just booting: in the end nothing is launched,
\* for which no goroutine need be fair.
SettlesDown ==
  <>[][\A m \in Monitors :
         monitors'[m].phase = "booting" => monitors[m].phase = "booting"]_supVars
=============================================================================
