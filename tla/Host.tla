-------------------------------- MODULE Host --------------------------------
(***************************************************************************)
(* A machine: the tools that install it, the supervisor and the services   *)
(* it runs, and the web server, which is one of these.  They meet in the   *)
(* files of the configuration and in the SIGHUP that the supervisor sends  *)
(* to the web server when a service has ended.                             *)
(***************************************************************************)
EXTENDS Installation, SupervisorService, WebServer

CONSTANT Scenarios   \* bounds: what happens together

\* A scenario has the settings of the instances it starts with, none for a
\* fresh machine, the setting of server.yaml, and the three budgets.
ASSUME HostAssumption ==
  \A s \in Scenarios :
    /\ DOMAIN s.settings \subseteq Instances
    /\ \A n \in DOMAIN s.settings :
         s.settings[n] \in Settings /\ s.settings[n].site # "unnamed"
    /\ s.autostart \in {"true", "false"}
    /\ s.install \in [InstallEvents -> Nat]
    /\ s.supervisor \in [SupEvents -> Nat]
    /\ s.web \in [WebEvents -> Nat]

VARIABLE
  outdated   \* endpoints whose connection the web server made to an ended process

hostVars == <<confVars, installVars, supVars, webVars, outdated>>

HostInit ==
  /\ \E s \in Scenarios :
       /\ IF DOMAIN s.settings = {} THEN FreshMachine ELSE PreparedMachine(s.settings)
       /\ autostart = s.autostart
       /\ installBudget = s.install /\ supBudget = s.supervisor /\ webBudget = s.web
  /\ NothingHappened /\ SupInit /\ WebInit
  /\ outdated = {}

-----------------------------------------------------------------------------

InstallStep == InstallNext /\ UNCHANGED <<supVars, webVars, outdated>>

Installed == UNCHANGED <<confVars, installVars>>

\* The web server comes and goes with its process, which also gets the
\* SIGHUP; the ends of other processes leave its connections outdated.
WebReady(m) ==
  /\ ProcessReady(m)
  /\ IF monitors[m].service = Web THEN WebStarts ELSE UNCHANGED webVars
  /\ UNCHANGED outdated

WebHandlesSIGHUP(m) ==
  /\ HandleSIGHUP(m)
  /\ IF monitors[m].service = Web THEN InvalidateEndpointConnections ELSE UNCHANGED webVars
  /\ UNCHANGED outdated

Ended == {monitors[m].service : m \in
            {q \in Monitors : monitors[q].phase \in {"ready", "asked"}
                              /\ monitors'[q].phase = "gone"}}

WebFollows ==
  IF Web \in Ended
  THEN WebEnds /\ outdated' = {}
  ELSE /\ UNCHANGED webVars
       /\ outdated' = outdated \cup {e \in Ended \cap Endpoints : client[e] # 0}

SupervisorStep ==
  \/ /\ SupEvent \/ (\E c \in Callers : CallerNext(c))
     /\ WebFollows /\ Installed
  \/ \E m \in Monitors :
       \/ (MonitorNext(m) \/ BootFails(m) \/ AskedEnds(m)) /\ WebFollows /\ Installed
       \/ WebReady(m) /\ Installed
       \/ WebHandlesSIGHUP(m) /\ Installed

WebStep ==
  /\ WebNext
  /\ outdated' = {e \in outdated : client'[e] = client[e]}
  /\ UNCHANGED supVars /\ Installed

\* A goroutine of the web server panics, and its process with it.
WebPanics ==
  \/ /\ \E r \in Requests : ProxyPanics(r)
     /\ UNCHANGED <<supVars, outdated>> /\ Installed
  \/ /\ server = "panicked"
     /\ \E m \in Monitors : monitors[m].service = Web /\ Fail(m)
     /\ WebFollows /\ Installed

HostNext == InstallStep \/ SupervisorStep \/ WebStep \/ WebPanics

HostSpec == HostInit /\ [][HostNext]_hostVars

-----------------------------------------------------------------------------
(* Properties *)

HostTypeOK ==
  /\ InstallTypeOK /\ SupTypeOK /\ WebTypeOK
  /\ outdated \subseteq Endpoints
  /\ server = "down" <=> ~PortTaken

\* When a service has ended, the web server drops the connection it had to
\* it, or is about to be told to, whatever else ends, boots or is requested
\* meanwhile.  Excepted is a web server that is being stopped, or another
\* than the supervisor knows of.
OutdatedIsDropped ==
  \A e \in outdated, m \in Monitors :
    monitors[m].service = Web /\ monitors[m].phase = "ready" =>
      \/ drops[e] > 0 \/ m \in pending \/ Unnoticed(e)
      \/ process[Web] # m \/ status[Web] # "RUNNING" \/ ~Running

\* The supervisor dereferences nil only for a process that could not be started
\* again after its end, or for the grader of an instance that was configured
\* without one when the supervisor was started, perhaps by a file still being
\* written, or if somebody made up a configuration, or the name of a service.
PanicCause ==
  supervisor = "panicked" =>
    \/ \E m \in Monitors : monitors[m].pc = "failed"
    \/ edited # {}
    \/ \E n \in DOMAIN config :
         \/ status[<<n, "grader">>] = "DISABLED"
         \/ ~(Elements(settings[n].services) \subseteq MasterServices)
=============================================================================
