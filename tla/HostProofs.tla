------------------------------- MODULE HostProofs -------------------------------
(***************************************************************************)
(* Theorems about a machine, for any instances, services, scenarios and    *)
(* numbers of processes and requests.                                      *)
(***************************************************************************)
EXTENDS Host, WebServerProofs, SequenceTheorems, FiniteSetTheorems

-----------------------------------------------------------------------------
(* The web server of a machine *)

LEMMA HostInitIsWebInit == HostInit => WebInit /\ webBudget \in [WebEvents -> Nat]
BY HostAssumption DEF HostInit

LEMMA HostStepIsWebStep == [HostNext]_hostVars => [WebNext \/ ProcessNext]_webVars
<1>. SUFFICES ASSUME [HostNext]_hostVars PROVE [WebNext \/ ProcessNext]_webVars
  OBVIOUS
<1>1. CASE InstallStep
  BY <1>1 DEF InstallStep
<1>2. ASSUME WebFollows PROVE WebEnds \/ UNCHANGED webVars
  BY <1>2, Zenon DEF WebFollows
<1>3. CASE SupervisorStep
  BY <1>2, <1>3, Zenon DEF SupervisorStep, WebReady, WebHandlesSIGHUP, ProcessNext
<1>4. CASE WebStep
  BY <1>4 DEF WebStep
<1>5. CASE WebPanics
  BY <1>2, <1>5, Zenon DEF WebPanics, ProcessNext
<1>6. CASE UNCHANGED hostVars
  BY <1>6 DEF hostVars
<1>. QED
  BY <1>1, <1>3, <1>4, <1>5, <1>6, Zenon DEF HostNext

\* The web server that the supervisor starts, kills and sends signals to, on
\* files that tools and administrators change, is one of WebServer.
THEOREM HostRunsWebServer == HostSpec => WebSpec
<1>1. HostInit => WebInit /\ webBudget \in [WebEvents -> Nat]
  BY HostInitIsWebInit
<1>. QED
  BY <1>1, HostStepIsWebStep, PTL DEF HostSpec, WebSpec

\* What is proved of the web server holds on the machine.
THEOREM HostServes ==
  HostSpec => [](/\ WebTypeOK /\ DialsBounded /\ NilOnlyIfDropped
                 /\ ReloadIsComplete /\ FileServed)
BY HostRunsWebServer, WebTypeCorrect, DialsAreFew, NilIsDropped, ReloadsAreComplete,
   FilesAreServed, PTL

-----------------------------------------------------------------------------
(* The installation: types *)

LEMMA FileNames ==
  /\ Elements(GlobalFiles) = {"webserver", "password"}
  /\ Elements(InstanceFiles) = {"services", "endpoints", "supervisor", "web", "token"}
<1>1. DOMAIN GlobalFiles = {1, 2} /\ DOMAIN InstanceFiles = {1, 2, 3, 4, 5}
  BY DEF GlobalFiles, InstanceFiles
<1>. QED
  BY <1>1 DEF Elements, GlobalFiles, InstanceFiles

\* Where a file is, by its name.
LEMMA PathsOfNames ==
  /\ <<"", "webserver">> \in Paths /\ <<"", "password">> \in Paths
  /\ \A n \in Instances :
       \A f \in {"services", "endpoints", "supervisor", "web", "token"} : <<n, f>> \in Paths
BY FileNames DEF Paths

LEMMA PairParts ==
  ASSUME NEW S, NEW T, NEW p \in S \X T
  PROVE  p = <<p[1], p[2]>> /\ p[1] \in S /\ p[2] \in T
OBVIOUS

LEMMA PairItems == \A x, y : <<x, y>>[1] = x /\ <<x, y>>[2] = y
OBVIOUS

LEMMA PathParts ==
  \A p \in Paths :
    /\ p = <<p[1], p[2]>> /\ p[1] \in Instances \cup {""}
    /\ p[1] = "" => p[2] \in {"webserver", "password"}
    /\ p[1] # "" => p[2] \in Elements(InstanceFiles)
<1>. SUFFICES ASSUME NEW p \in Paths
             PROVE  /\ p = <<p[1], p[2]>> /\ p[1] \in Instances \cup {""}
                    /\ p[1] = "" => p[2] \in {"webserver", "password"}
                    /\ p[1] # "" => p[2] \in Elements(InstanceFiles)
  OBVIOUS
<1>1. CASE p \in {""} \X Elements(GlobalFiles)
  <2>1. p = <<p[1], p[2]>> /\ p[1] \in {""} /\ p[2] \in Elements(GlobalFiles)
    BY <1>1, PairParts, Zenon
  <2>. QED
    BY <2>1, FileNames, Zenon
<1>2. CASE p \in Instances \X Elements(InstanceFiles)
  <2>1. p = <<p[1], p[2]>> /\ p[1] \in Instances /\ p[2] \in Elements(InstanceFiles)
    BY <1>2, PairParts, Zenon
  <2>2. p[1] # ""
    BY <2>1, ConfigurationAssumption
  <2>. QED
    BY <2>1, <2>2, Zenon
<1>. QED
  BY <1>1, <1>2 DEF Paths

\* The lists of files the tools start with: all of an instance, the site after
\* its endpoints.
LEMMA GlobalListOf ==
  ASSUME NEW n, NEW list, list = InDirectory(n, GlobalFiles),
         <<n, "webserver">> \in Paths, <<n, "password">> \in Paths
  PROVE  /\ list \in Seq(Paths)
         /\ \A i \in DOMAIN list : list[i][1] = n /\ list[i][2] # "web"
<1>1. list = << <<n, "webserver">>, <<n, "password">> >>
  BY DEF InDirectory, GlobalFiles
<1>. QED
  BY <1>1

LEMMA GlobalList ==
  ASSUME NEW list, list = InDirectory("", GlobalFiles)
  PROVE  /\ list \in Seq(Paths)
         /\ \A i \in DOMAIN list : list[i][1] = "" /\ list[i][2] # "web"
<1>1. <<"", "webserver">> \in Paths /\ <<"", "password">> \in Paths
  BY PathsOfNames
<1>. QED
  BY <1>1, GlobalListOf, Zenon

LEMMA InstanceListType ==
  ASSUME NEW n \in Instances
  PROVE  InDirectory(n, InstanceFiles) \in Seq(Paths)
<1>1. DOMAIN InstanceFiles = 1..5
  BY DEF InstanceFiles
<1>2. \A i \in 1..5 : <<n, InstanceFiles[i]>> \in Paths
  BY <1>1, FileNames DEF Elements, Paths
<1>3. InDirectory(n, InstanceFiles) \in [1..5 -> Paths]
  BY <1>1, <1>2 DEF InDirectory
<1>. QED
  BY <1>3, SeqDef

LEMMA HeadAndTail ==
  ASSUME NEW S, NEW s \in Seq(S), s # <<>>
  PROVE  /\ Head(s) \in S /\ Tail(s) \in Seq(S) /\ Head(s) = s[1] /\ 1 \in DOMAIN s
         /\ \A i \in DOMAIN Tail(s) : i + 1 \in DOMAIN s /\ Tail(s)[i] = s[i + 1]
         /\ \A i \in DOMAIN s : i = 1 \/ (i - 1 \in DOMAIN Tail(s) /\ Tail(s)[i - 1] = s[i])
OBVIOUS

Tools == [pc : ToolPlaces, instance : Instances \cup {""}, kind : Kinds,
          password : Passwords, todo : Seq(Paths)]

\* A tool at work on a file has one to work on.
InstallTypes ==
  /\ InstallTypeOK /\ installBudget \in [InstallEvents -> Nat]
  /\ tool.pc = "write" => tool.todo # <<>>
  /\ tool.pc \in {"database", "initialize", "admin", "webconf"} => tool.instance \in Instances

LEMMA NoToolType == NoTool \in Tools
BY InstallationAssumption DEF NoTool, Tools, ToolPlaces, Kinds

LEMMA NewTool ==
  ASSUME NEW pc \in ToolPlaces, NEW n \in Instances \cup {""}, NEW kind \in Kinds,
         NEW p \in Passwords, NEW list \in Seq(Paths)
  PROVE  [pc |-> pc, instance |-> n, kind |-> kind, password |-> p, todo |-> list] \in Tools
BY DEF Tools

LEMMA PrimedPlace ==
  ASSUME NEW pc \in ToolPlaces, tool \in Tools
  PROVE  /\ [tool EXCEPT !.pc = pc] \in Tools
         /\ [tool EXCEPT !.pc = pc].pc = pc
         /\ [tool EXCEPT !.pc = pc].todo = tool.todo
         /\ [tool EXCEPT !.pc = pc].instance = tool.instance
         /\ [tool EXCEPT !.pc = pc].kind = tool.kind
BY DEF Tools

LEMMA Paid ==
  ASSUME installBudget \in [InstallEvents -> Nat], NEW e \in InstallEvents, Pay(e)
  PROVE  installBudget' \in [InstallEvents -> Nat] /\ installBudget'[e] # installBudget[e]
BY DEF Pay

LEMMA NoSeq == \A S : <<>> \in Seq(S)
OBVIOUS

LEMMA OneMore ==
  ASSUME NEW S, NEW f \in [S -> Nat], NEW x \in S
  PROVE  [f EXCEPT ![x] = @ + 1] \in [S -> Nat] /\ [f EXCEPT ![x] = @ + 1][x] = f[x] + 1
         /\ \A y \in S : [f EXCEPT ![x] = @ + 1][y] >= f[y]
OBVIOUS

LEMMA SubstitutedType ==
  ASSUME NEW name, settings[tool.instance] \in Settings
  PROVE  Substituted(name) \in Settings /\ (name = "supervisor" =>
           Substituted(name).site = settings[tool.instance].site)
<1>1. ASSUME NEW c \in Settings, NEW s \in Seq(STRING), NEW g \in {"true", "false"}
      PROVE  /\ [c EXCEPT !.services = s, !.grader = g] \in Settings
             /\ [c EXCEPT !.services = s, !.grader = g].site = c.site
             /\ [c EXCEPT !.site = "unnamed"] \in Settings
             /\ [c EXCEPT !.site = "static"] \in Settings
  BY DEF Settings
<1>2. ASSUME NEW S PROVE <<>> \in Seq(S)
  OBVIOUS
<1>3. AllServices \in Seq(STRING)
  BY ConfigurationAssumption
<1>. QED
  BY <1>1, <1>2, <1>3 DEF Substituted

LEMMA InstallStepTypes ==
  ASSUME InstallTypes, [InstallNext]_<<confVars, installVars>>
  PROVE  InstallTypes'
<1>. USE DEF InstallTypes, InstallTypeOK, ToolPlaces
<1>0. tool \in Tools /\ tool.pc \in ToolPlaces
  BY DEF Tools
<1>1. CASE UNCHANGED <<confVars, installVars>>
  BY <1>1 DEF confVars, installVars, machine
<1>2. ASSUME NEW p \in Passwords, RunPostInstall(p) PROVE InstallTypes'
  <2>1. tool' = [pc |-> "account", instance |-> "", kind |-> "all", password |-> p,
                 todo |-> InDirectory("", GlobalFiles)]
    BY <1>2 DEF RunPostInstall, NoTool
  <2>2. tool' \in Tools
    BY <2>1, GlobalList DEF Tools, Kinds
  <2>. QED
    BY <1>2, <2>1, <2>2, Paid DEF RunPostInstall, confVars, machine, Tools, InstallEvents
<1>3. ASSUME NEW n \in Instances, NEW kind \in Kinds, RunCreateInstance(n, kind)
      PROVE  InstallTypes'
  <2>1. \/ tool' = NoTool
        \/ tool' = [pc |-> IF kind = "grader" THEN "install" ELSE "database",
                    instance |-> n, kind |-> kind, password |-> DefaultPassword,
                    todo |-> InDirectory(n, InstanceFiles)]
    BY <1>3 DEF RunCreateInstance, NoTool
  <2>2. InDirectory(n, InstanceFiles) \in Seq(Paths)
    BY InstanceListType
  <2>5. begun' \subseteq Instances \X Kinds
    <3>1. <<n, kind>> \in Instances \X Kinds
      OBVIOUS
    <3>2. begun' \subseteq begun \cup {<<n, kind>>}
      BY <1>3, Zenon DEF RunCreateInstance
    <3>. QED
      BY <3>1, <3>2
  <2>3. CASE tool' = NoTool
    BY <1>3, <2>3, <2>5, NoToolType, Paid
       DEF RunCreateInstance, confVars, machine, Tools, InstallEvents, NoTool
  <2>4. CASE tool' # NoTool
    <3>1. /\ tool'.instance = n /\ tool'.pc \in {"install", "database"}
          /\ tool' \in Tools
      <4>1. PICK pc \in {"install", "database"} :
              tool' = [pc |-> pc, instance |-> n, kind |-> kind, password |-> DefaultPassword,
                       todo |-> InDirectory(n, InstanceFiles)]
        BY <2>1, <2>4, Zenon
      <4>2. DefaultPassword \in Passwords /\ pc \in ToolPlaces
        BY InstallationAssumption
      <4>3. tool' \in Tools
        BY <2>2, <4>1, <4>2, NewTool, Zenon
      <4>. QED
        BY <4>1, <4>3
    <3>. QED
      BY <1>3, <2>5, <3>1, Paid DEF RunCreateInstance, confVars, machine, Tools, InstallEvents
  <2>. QED
    BY <2>3, <2>4
<1>4. ASSUME tool' = NoTool, UNCHANGED <<confVars, machine>>,
             installBudget' \in [InstallEvents -> Nat],
             (begun \subseteq Instances \X Kinds)', (created \subseteq Instances \X Kinds)',
             (cut \subseteq Paths)', edited' = edited
      PROVE  InstallTypes'
  BY <1>4, NoToolType DEF confVars, machine, NoTool, Tools
<1>5. ASSUME NEW pc \in ToolPlaces \ {"none", "write"}, tool.pc # "write", ToolGoto(pc),
             pc \in {"database", "initialize", "admin", "webconf"} =>
               tool.pc \in {"database", "initialize", "admin", "webconf"},
             UNCHANGED <<confVars, begun, created, cut, edited, installBudget>>,
             account' \in {account, "present"}, (role \in Passwords \cup {"none"})',
             (database \in [Instances -> {"missing", "bare", "ready"}])',
             (admins \in [Instances -> Nat])'
      PROVE  InstallTypes'
  <2>1. tool' \in Tools /\ tool'.pc = pc /\ tool'.instance = tool.instance
    BY <1>0, <1>5, PrimedPlace DEF ToolGoto
  <2>. QED
    BY <1>5, <2>1 DEF confVars, Tools
<1>6. CASE CreateSystemUserAndGroup
  BY <1>5, <1>6 DEF CreateSystemUserAndGroup
<1>7. CASE CreatePostgreSQLUser
  <2>1. role' \in Passwords \cup {"none"}
    BY <1>7 DEF CreatePostgreSQLUser
  <2>. QED
    BY <1>5, <1>7, <2>1 DEF CreatePostgreSQLUser
<1>8. CASE LookupAccount
  BY <1>4, <1>5, <1>8 DEF LookupAccount, machine, Fatal
<1>9. CASE CreatePostgreSQLDatabase
  <2>1. database' \in [Instances -> {"missing", "bare", "ready"}]
    BY <1>9 DEF CreatePostgreSQLDatabase
  <2>. QED
    BY <1>5, <1>9, <2>1 DEF CreatePostgreSQLDatabase
<1>10. CASE InitializeDatabase
  <2>1. database' \in [Instances -> {"missing", "bare", "ready"}]
    BY <1>10 DEF InitializeDatabase
  <2>. QED
    BY <1>4, <1>5, <1>10, <2>1 DEF InitializeDatabase, machine, Fatal
<1>11. CASE CreateAdminUser
  <2>1. admins' \in [Instances -> Nat]
    <3>1. CASE database[tool.instance] = "ready" /\ ReadTextConfig = role
      <4>1. tool.instance \in Instances /\ admins \in [Instances -> Nat]
        BY <1>11 DEF CreateAdminUser
      <4>2. admins' = [admins EXCEPT ![tool.instance] = @ + 1]
        BY <1>11, <3>1 DEF CreateAdminUser
      <4>. QED
        BY <4>1, <4>2, OneMore
    <3>2. CASE ~(database[tool.instance] = "ready" /\ ReadTextConfig = role)
      BY <1>11, <3>2 DEF CreateAdminUser
    <3>. QED
      BY <3>1, <3>2
  <2>. QED
    BY <1>4, <1>5, <1>11, <2>1 DEF CreateAdminUser, machine, Fatal
<1>12. CASE ParseWebServerConf
  BY <1>4, <1>5, <1>12 DEF ParseWebServerConf, machine, Fatal
<1>14. CASE OpenFile
  <2>1. Tail(tool.todo) \in Seq(Paths) /\ NextFile \in Paths
    <3>1. tool.todo \in Seq(Paths) /\ tool.todo # <<>>
      BY <1>0, <1>14 DEF OpenFile, Tools
    <3>. QED
      BY <3>1, HeadAndTail, Zenon DEF NextFile
  <2>2. CASE files[NextFile] # "missing"
    <3>0. tool' = [tool EXCEPT !.todo = Tail(@)] /\ tool.pc = "install"
      BY <1>14, <2>2, Zenon DEF OpenFile
    <3>1. tool' \in Tools /\ tool'.pc = "install"
      BY <1>0, <2>1, <3>0 DEF Tools
    <3>. QED
      BY <1>14, <2>2, <3>1 DEF OpenFile, machine, Tools
  <2>3. CASE files[NextFile] = "missing"
    <3>1. tool' \in Tools /\ tool'.pc = "write" /\ tool'.todo = tool.todo
      BY <1>0, <1>14, <2>3, PrimedPlace DEF OpenFile, ToolGoto
    <3>2. files' \in [Paths -> FileStates]
      BY <1>14, <2>1, <2>3 DEF OpenFile, FileStates
    <3>. QED
      BY <1>14, <3>1, <3>2 DEF OpenFile, machine, Tools
  <2>. QED
    BY <2>2, <2>3
<1>15. CASE WriteFile
  <2>1. Tail(tool.todo) \in Seq(Paths) /\ NextFile \in Paths
    <3>1. tool.todo \in Seq(Paths) /\ tool.todo # <<>>
      BY <1>0, <1>15 DEF WriteFile, Tools
    <3>. QED
      BY <3>1, HeadAndTail, Zenon DEF NextFile
  <2>2. tool' \in Tools /\ tool'.pc = "install"
    BY <1>0, <1>15, <2>1 DEF WriteFile, Tools
  <2>3. files' \in [Paths -> FileStates]
    BY <1>15, <2>1 DEF WriteFile, FileStates
  <2>4. settings' \in [Instances -> Settings]
    <3>1. ASSUME tool.instance # "" PROVE Substituted(NextFile[2]) \in Settings
      <4>1. settings[tool.instance] \in Settings
        BY <1>0, <3>1 DEF Tools
      <4>. QED
        BY <4>1, SubstitutedType
    <3>. QED
      BY <1>0, <1>15, <3>1 DEF WriteFile, Tools
  <2>. QED
    BY <1>15, <2>2, <2>3, <2>4 DEF WriteFile, machine, Tools
<1>16. CASE Finish
  <2>1. created' \subseteq Instances \X Kinds
    <3>1. tool.instance # "" => <<tool.instance, tool.kind>> \in Instances \X Kinds
      BY <1>0 DEF Tools
    <3>. QED
      BY <1>16, <3>1 DEF Finish
  <2>. QED
    BY <1>4, <1>16, <2>1 DEF Finish
<1>17. CASE Die
  <2>1. cut' \subseteq Paths
    <3>1. ASSUME tool.pc = "write" PROVE NextFile \in Paths
      <4>1. tool.todo \in Seq(Paths) /\ tool.todo # <<>>
        BY <1>0, <3>1 DEF Tools
      <4>. QED
        BY <4>1, HeadAndTail, Zenon DEF NextFile
    <3>. QED
      BY <1>17, <3>1 DEF Die
  <2>. QED
    BY <1>4, <1>17, <2>1, Paid DEF Die, InstallEvents
<1>18. ASSUME NEW n \in Instances, NEW f \in {"supervisor", "web"},
              NEW new \in NewSettings, Edit(n, f, new)
       PROVE  InstallTypes'
  <2>1. settings' \in [Instances -> Settings]
    <3>1. settings[n] \in Settings /\ new \in Settings
      BY InstallationAssumption
    <3>2. /\ [settings[n] EXCEPT !.site = new.site] \in Settings
          /\ [new EXCEPT !.site = settings[n].site] \in Settings
      BY <3>1 DEF Settings
    <3>. QED
      BY <1>18, <3>2 DEF Edit
  <2>2. files' \in [Paths -> FileStates]
    BY <1>18 DEF Edit, FileStates
  <2>. QED
    BY <1>18, <2>1, <2>2, Paid DEF Edit, machine, InstallEvents
<1>19. ASSUME NEW n \in Instances, NEW f \in {"supervisor", "web"}, Spoil(n, f)
       PROVE  InstallTypes'
  <2>1. files' \in [Paths -> FileStates]
    BY <1>19 DEF Spoil, FileStates
  <2>. QED
    BY <1>19, <2>1, Paid DEF Spoil, machine, InstallEvents
<1>. QED
  BY <1>1, <1>2, <1>3, <1>6, <1>7, <1>8, <1>9, <1>10, <1>11, <1>12, <1>14, <1>15,
     <1>16, <1>17, <1>18, <1>19, Zenon
     DEF InstallNext, PostInstallNext, CreateInstanceNext, AdministratorNext

LEMMA InstallInitTypes == HostInit => InstallTypes
<1>. SUFFICES ASSUME HostInit PROVE InstallTypes
  OBVIOUS
<1>1. PICK s \in Scenarios :
        /\ IF DOMAIN s.settings = {} THEN FreshMachine ELSE PreparedMachine(s.settings)
        /\ autostart = s.autostart /\ installBudget = s.install
  BY Zenon DEF HostInit
<1>2. /\ DOMAIN s.settings \subseteq Instances
      /\ \A n \in DOMAIN s.settings : s.settings[n] \in Settings
      /\ autostart \in {"true", "false"} /\ installBudget \in [InstallEvents -> Nat]
  BY <1>1, HostAssumption
<1>3. tool = NoTool /\ cut = {} /\ edited = {}
  BY DEF HostInit, NothingHappened
<1>4. NoSettings \in Settings
  BY NoSeq DEF NoSettings, Settings
<1>5. /\ files \in [Paths -> FileStates] /\ settings \in [Instances -> Settings]
      /\ account \in {"missing", "present"} /\ role \in Passwords \cup {"none"}
      /\ database \in [Instances -> {"missing", "bare", "ready"}]
      /\ admins \in [Instances -> Nat]
      /\ begun = created /\ created \subseteq Instances \X Kinds
  <2>1. CASE FreshMachine
    BY <2>1, <1>4 DEF FreshMachine, FileStates
  <2>2. CASE PreparedMachine(s.settings)
    <3>1. settings \in [Instances -> Settings]
      <4>1. ASSUME NEW set, \A n \in DOMAIN set : set[n] \in Settings, NEW none \in Settings
            PROVE  [n \in Instances |-> IF n \in DOMAIN set THEN set[n] ELSE none]
                     \in [Instances -> Settings]
        BY <4>1
      <4>2. settings = [n \in Instances |->
                          IF n \in DOMAIN s.settings THEN s.settings[n] ELSE NoSettings]
        BY <2>2, Zenon DEF PreparedMachine
      <4>. QED
        BY <1>2, <1>4, <4>1, <4>2, Zenon
    <3>2. created \subseteq Instances \X Kinds
      <4>1. ASSUME NEW n \in DOMAIN s.settings
            PROVE  <<n, IF s.settings[n].grader = "true" THEN "all" ELSE "masters">>
                     \in Instances \X Kinds
        BY <1>2 DEF Kinds
      <4>2. created = {<<n, IF s.settings[n].grader = "true" THEN "all" ELSE "masters">> :
                         n \in DOMAIN s.settings}
        BY <2>2, Zenon DEF PreparedMachine
      <4>. QED
        BY <4>1, <4>2
    <3>. QED
      BY <2>2, <3>1, <3>2, InstallationAssumption DEF PreparedMachine, FileStates
  <2>. QED
    BY <1>1, <2>1, <2>2
<1>. QED
  BY <1>2, <1>3, <1>5, NoToolType DEF InstallTypes, InstallTypeOK, Tools, NoTool

\* The steps of the machine that are not the tools' leave what they write.
LEMMA HostStepIsInstallStep ==
  [HostNext]_hostVars => [InstallNext]_<<confVars, installVars>>
<1>. SUFFICES ASSUME [HostNext]_hostVars PROVE [InstallNext]_<<confVars, installVars>>
  OBVIOUS
<1>1. SupervisorStep => Installed
  BY Zenon DEF SupervisorStep
<1>2. WebStep \/ WebPanics => Installed
  BY Zenon DEF WebStep, WebPanics
<1>3. InstallStep => InstallNext
  BY DEF InstallStep
<1>4. UNCHANGED hostVars => Installed
  BY DEF hostVars, Installed
<1>. QED
  BY <1>1, <1>2, <1>3, <1>4, Zenon DEF HostNext, Installed

\* The types of what the tools and the administrator change.
THEOREM InstallTypeCorrect == HostSpec => []InstallTypeOK
<1>1. InstallTypes => InstallTypeOK
  BY DEF InstallTypes
<1>2. InstallTypes /\ [HostNext]_hostVars => InstallTypes'
  BY HostStepIsInstallStep, InstallStepTypes
<1>. QED
  BY <1>1, <1>2, InstallInitTypes, PTL DEF HostSpec

-----------------------------------------------------------------------------
(* The installation: which files are there *)

\* A tool works on files of one instance, on a site after its endpoints.
WorkInOrder ==
  /\ \A i \in DOMAIN tool.todo : tool.todo[i][1] = tool.instance
  /\ \A i, j \in DOMAIN tool.todo :
       tool.todo[i][2] = "web" /\ tool.todo[j][2] = "endpoints" => j < i

\* The file a tool writes is the one it has created, empty, and is of no
\* instance that was reported as created.
WritesWhatItOpened ==
  tool.pc = "write" => /\ files[NextFile] = "empty"
                       /\ \A c \in created : c[1] # NextFile[1]

EmptyIsCut ==
  \A p \in Paths : files[p] = "empty" => p \in cut \/ (tool.pc = "write" /\ p = NextFile)

BrokenIsEdited == \A p \in Paths : files[p] = "broken" => p[1] \in edited

\* A tool leaves none of the files of an instance out.
NoneLeftOut ==
  tool.pc # "none" /\ tool.instance # "" =>
    \A f \in Elements(InstanceFiles) :
      \/ files[<<tool.instance, f>>] # "missing"
      \/ \E i \in DOMAIN tool.todo : tool.todo[i] = <<tool.instance, f>>

CreatedIsThere ==
  \A c \in created, f \in Elements(InstanceFiles) : files[<<c[1], f>>] # "missing"

SiteIsLast ==
  \A n \in Instances : files[<<n, "web">>] # "missing" => files[<<n, "endpoints">>] # "missing"

FilesInv ==
  /\ WorkInOrder /\ WritesWhatItOpened /\ EmptyIsCut /\ BrokenIsEdited
  /\ NoneLeftOut /\ CreatedIsThere /\ SiteIsLast

LEMMA ToolType == InstallTypes => /\ tool \in Tools /\ tool.todo \in Seq(Paths)
                                  /\ tool.instance \in Instances \cup {""}
                                  /\ files \in [Paths -> FileStates]
                                  /\ created \subseteq Instances \X Kinds
BY DEF InstallTypes, InstallTypeOK, Tools

\* A step that changes no file, after which the tool writes none.
LEMMA NoFileChanges ==
  ASSUME FilesInv, files' = files, edited' = edited, created' = created,
         cut \subseteq cut', tool'.pc # "write", tool.pc = "write" => NextFile \in cut',
         WorkInOrder', NoneLeftOut'
  PROVE  FilesInv'
<1>. USE DEF FilesInv
<1>1. EmptyIsCut'
  BY DEF EmptyIsCut
<1>2. WritesWhatItOpened' /\ BrokenIsEdited' /\ CreatedIsThere' /\ SiteIsLast'
  BY DEF WritesWhatItOpened, BrokenIsEdited, CreatedIsThere, SiteIsLast
<1>. QED
  BY <1>1, <1>2

\* The tool has ended.
LEMMA ToolEnds ==
  ASSUME FilesInv, files' = files, edited' = edited, created' = created,
         cut \subseteq cut', tool' = NoTool, tool.pc = "write" => NextFile \in cut'
  PROVE  FilesInv'
<1>1. tool'.pc = "none" /\ tool'.todo = <<>>
  BY DEF NoTool
<1>2. WorkInOrder' /\ NoneLeftOut'
  BY <1>1 DEF WorkInOrder, NoneLeftOut
<1>. QED
  BY <1>1, <1>2, NoFileChanges

\* The tool goes on to another place.
LEMMA ToolGoesOn ==
  ASSUME InstallTypes, FilesInv, UNCHANGED <<files, edited, created, cut>>,
         NEW pc \in ToolPlaces \ {"none", "write"}, ToolGoto(pc), tool.pc \notin {"none", "write"}
  PROVE  FilesInv'
<1>1. /\ tool'.pc = pc /\ tool'.todo = tool.todo /\ tool'.instance = tool.instance
  BY ToolType, PrimedPlace DEF ToolGoto
<1>2. WorkInOrder'
  BY <1>1 DEF FilesInv, WorkInOrder
<1>3. NoneLeftOut'
  BY <1>1 DEF FilesInv, NoneLeftOut
<1>. QED
  BY <1>1, <1>2, <1>3, NoFileChanges

LEMMA InstanceListOrder ==
  ASSUME NEW n, NEW list, list = InDirectory(n, InstanceFiles)
  PROVE  /\ \A i \in DOMAIN list : list[i][1] = n
         /\ \A i, j \in DOMAIN list : list[i][2] = "web" /\ list[j][2] = "endpoints" => j < i
<1>1. /\ DOMAIN list = DOMAIN InstanceFiles
      /\ \A i \in DOMAIN InstanceFiles : list[i] = <<n, InstanceFiles[i]>>
  BY Zenon DEF InDirectory
<1>2. \A i \in DOMAIN list : list[i][1] = n /\ list[i][2] = InstanceFiles[i]
  BY <1>1
<1>3. \A i \in DOMAIN InstanceFiles :
        (InstanceFiles[i] = "web" => i = 4) /\ (InstanceFiles[i] = "endpoints" => i = 2)
  BY DEF InstanceFiles
<1>4. \A i, j \in DOMAIN list : list[i][2] = "web" /\ list[j][2] = "endpoints" => j < i
  <2>. SUFFICES ASSUME NEW i \in DOMAIN list, NEW j \in DOMAIN list,
                       list[i][2] = "web", list[j][2] = "endpoints"
                PROVE  j < i
    OBVIOUS
  <2>1. InstanceFiles[i] = "web" /\ InstanceFiles[j] = "endpoints"
    BY <1>2
  <2>2. i \in DOMAIN InstanceFiles /\ j \in DOMAIN InstanceFiles
    BY <1>1
  <2>3. i = 4 /\ j = 2
    BY <1>3, <2>1, <2>2
  <2>. QED
    BY <2>3
<1>. QED
  BY <1>2, <1>4

LEMMA InstanceListHasAll ==
  ASSUME NEW n, NEW list, list = InDirectory(n, InstanceFiles), NEW f \in Elements(InstanceFiles)
  PROVE  \E i \in DOMAIN list : list[i] = <<n, f>>
BY Zenon DEF InDirectory, Elements

\* A tool starts.
LEMMA ToolStarts ==
  ASSUME FilesInv, UNCHANGED <<files, edited, created, cut>>,
         tool.pc = "none", tool'.pc \notin {"none", "write"},
         \/ tool'.instance = "" /\ tool'.todo = InDirectory("", GlobalFiles)
         \/ tool'.instance \in Instances
            /\ tool'.todo = InDirectory(tool'.instance, InstanceFiles)
  PROVE  FilesInv'
<1>1. CASE tool'.instance = "" /\ tool'.todo = InDirectory("", GlobalFiles)
  <2>1. \A i \in DOMAIN tool'.todo :
          tool'.todo[i][1] = "" /\ tool'.todo[i][2] # "web"
    BY <1>1, GlobalList, Zenon
  <2>2. WorkInOrder'
    BY <1>1, <2>1, Zenon DEF WorkInOrder
  <2>3. NoneLeftOut'
    BY <1>1, Zenon DEF NoneLeftOut
  <2>. QED
    BY <2>2, <2>3, NoFileChanges
<1>2. ASSUME NEW n \in Instances, tool'.instance = n, tool'.todo = InDirectory(n, InstanceFiles)
      PROVE  FilesInv'
  <2>4. NoneLeftOut'
    BY <1>2, InstanceListHasAll, Zenon DEF NoneLeftOut
  <2>1. PICK list : list = tool'.todo
    OBVIOUS
  <2>5. list = InDirectory(n, InstanceFiles)
    BY <1>2, <2>1, Zenon
  <2>2. /\ \A i \in DOMAIN list : list[i][1] = n
        /\ \A i, j \in DOMAIN list : list[i][2] = "web" /\ list[j][2] = "endpoints" => j < i
    BY <2>5, InstanceListOrder
  <2>3. WorkInOrder'
    BY <1>2, <2>1, <2>2, Zenon DEF WorkInOrder
  <2>. QED
    BY <2>3, <2>4, NoFileChanges
<1>. QED
  BY <1>1, <1>2

\* A file is skipped, or written: in both cases it is there, and not empty if
\* it was written just now.
LEMMA FileIsDone ==
  ASSUME InstallTypes, FilesInv, UNCHANGED <<edited, created, cut>>,
         tool.pc \in {"install", "write"}, tool.todo # <<>>,
         tool' = [tool EXCEPT !.pc = "install", !.todo = Tail(@)],
         \/ files' = files /\ files[NextFile] # "missing" /\ tool.pc = "install"
         \/ files' = [files EXCEPT ![NextFile] = "whole"] /\ tool.pc = "write"
  PROVE  FilesInv'
<1>. USE DEF FilesInv
<1>1. /\ NextFile \in Paths /\ NextFile = tool.todo[1] /\ 1 \in DOMAIN tool.todo
      /\ \A i \in DOMAIN Tail(tool.todo) :
           i + 1 \in DOMAIN tool.todo /\ Tail(tool.todo)[i] = tool.todo[i + 1]
      /\ \A i \in DOMAIN tool.todo : i = 1 \/ (i - 1 \in DOMAIN Tail(tool.todo)
                                              /\ Tail(tool.todo)[i - 1] = tool.todo[i])
      /\ DOMAIN Tail(tool.todo) \subseteq Nat /\ DOMAIN tool.todo \subseteq Nat
  <2>1. tool.todo \in Seq(Paths)
    BY ToolType
  <2>. QED
    BY <2>1, HeadAndTail DEF NextFile
<1>2. tool'.pc = "install" /\ tool'.instance = tool.instance /\ tool'.todo = Tail(tool.todo)
  BY ToolType DEF Tools
<1>3. files'[NextFile] \notin {"missing", "empty"} \/ (files' = files /\ tool.pc = "install")
  BY <1>1, ToolType
<1>4. \A p \in Paths : p # NextFile => files'[p] = files[p]
  BY ToolType
<1>5. files'[NextFile] # "missing"
  BY <1>1, ToolType
<1>6. WorkInOrder'
  <2>1. \A i \in DOMAIN tool'.todo : tool'.todo[i][1] = tool'.instance
    BY <1>1, <1>2 DEF WorkInOrder
  <2>2. ASSUME NEW i \in DOMAIN tool'.todo, NEW j \in DOMAIN tool'.todo,
               tool'.todo[i][2] = "web", tool'.todo[j][2] = "endpoints"
        PROVE  j < i
    <3>1. j + 1 < i + 1
      BY <1>1, <1>2, <2>2 DEF WorkInOrder
    <3>. QED
      BY <1>1, <1>2, <3>1
  <2>. QED
    BY <2>1, <2>2 DEF WorkInOrder
<1>7. EmptyIsCut'
  BY <1>2, <1>3, <1>4 DEF EmptyIsCut
<1>8. BrokenIsEdited'
  <2>1. files'[NextFile] = "broken" => files[NextFile] = "broken"
    BY <1>1, ToolType
  <2>. QED
    BY <1>4, <2>1 DEF BrokenIsEdited
<1>9. \A p \in Paths : files[p] # "missing" => files'[p] # "missing"
  BY <1>4, <1>5
<1>10. NoneLeftOut'
  <2>1. ASSUME tool.instance # "", NEW f \in Elements(InstanceFiles)
        PROVE  \/ files'[<<tool.instance, f>>] # "missing"
               \/ \E i \in DOMAIN tool'.todo : tool'.todo[i] = <<tool.instance, f>>
    <3>1. <<tool.instance, f>> \in Paths
      BY <2>1, ToolType, PathsOfNames, FileNames
    <3>2. CASE files[<<tool.instance, f>>] # "missing"
      BY <1>9, <3>1, <3>2
    <3>3. ASSUME NEW i \in DOMAIN tool.todo, tool.todo[i] = <<tool.instance, f>>
          PROVE  \/ files'[<<tool.instance, f>>] # "missing"
                 \/ \E j \in DOMAIN tool'.todo : tool'.todo[j] = <<tool.instance, f>>
      <4>1. CASE i = 1
        BY <1>1, <1>5, <3>3, <4>1
      <4>2. CASE i # 1
        BY <1>1, <1>2, <3>3, <4>2
      <4>. QED
        BY <4>1, <4>2
    <3>. QED
      BY <2>1, <3>2, <3>3 DEF NoneLeftOut
  <2>. QED
    BY <1>2, <2>1 DEF NoneLeftOut
<1>11. CreatedIsThere'
  <2>1. \A c \in created, f \in Elements(InstanceFiles) : <<c[1], f>> \in Paths
    BY ToolType, PathsOfNames, FileNames
  <2>. QED
    BY <1>9, <2>1 DEF CreatedIsThere
<1>12. SiteIsLast'
  <2>1. ASSUME NEW n \in Instances, files'[<<n, "web">>] # "missing"
        PROVE  files'[<<n, "endpoints">>] # "missing"
    <3>1. <<n, "web">> \in Paths /\ <<n, "endpoints">> \in Paths
      BY PathsOfNames
    <3>2. files[<<n, "web">>] # "missing"
      <4>1. CASE <<n, "web">> = NextFile
        BY <1>1, <2>1, <4>1, ToolType DEF WritesWhatItOpened
      <4>2. CASE <<n, "web">> # NextFile
        BY <1>4, <2>1, <3>1, <4>2
      <4>. QED
        BY <4>1, <4>2
    <3>. QED
      BY <1>9, <3>1, <3>2 DEF SiteIsLast
  <2>. QED
    BY <2>1 DEF SiteIsLast
<1>. QED
  BY <1>2, <1>6, <1>7, <1>8, <1>10, <1>11, <1>12 DEF WritesWhatItOpened

\* A file is created.
LEMMA FileIsOpened ==
  ASSUME InstallTypes, FilesInv, UNCHANGED <<edited, created, cut>>,
         tool.pc = "install", tool.todo # <<>>, files[NextFile] = "missing",
         files' = [files EXCEPT ![NextFile] = "empty"], ToolGoto("write")
  PROVE  FilesInv'
<1>. USE DEF FilesInv
<1>1. /\ tool'.pc = "write" /\ tool'.todo = tool.todo /\ tool'.instance = tool.instance
  BY ToolType, PrimedPlace DEF ToolGoto, ToolPlaces
<1>2. /\ NextFile \in Paths /\ NextFile = tool.todo[1] /\ 1 \in DOMAIN tool.todo
      /\ NextFile' = NextFile
  <2>1. tool.todo \in Seq(Paths)
    BY ToolType
  <2>. QED
    BY <1>1, <2>1, HeadAndTail DEF NextFile
<1>3. files'[NextFile] = "empty" /\ \A p \in Paths : p # NextFile => files'[p] = files[p]
  BY <1>2, ToolType
<1>4. \A p \in Paths : files[p] # "missing" => files'[p] # "missing"
  BY <1>3
<1>5. WorkInOrder'
  BY <1>1 DEF WorkInOrder
<1>6. WritesWhatItOpened'
  <2>1. ASSUME NEW c \in created, c[1] = NextFile[1] PROVE FALSE
    <3>1. c[1] \in Instances
      BY ToolType
    <3>2. NextFile = <<c[1], NextFile[2]>> /\ NextFile[2] \in Elements(InstanceFiles)
      BY <1>2, <2>1, <3>1, PathParts, ConfigurationAssumption
    <3>. QED
      BY <3>2 DEF CreatedIsThere
  <2>. QED
    BY <1>2, <1>3, <2>1 DEF WritesWhatItOpened
<1>7. EmptyIsCut'
  BY <1>1, <1>2, <1>3 DEF EmptyIsCut
<1>8. BrokenIsEdited'
  BY <1>3 DEF BrokenIsEdited
<1>9. NoneLeftOut'
  <2>1. tool.instance # "" =>
          \A f \in Elements(InstanceFiles) : <<tool.instance, f>> \in Paths
    BY ToolType, PathsOfNames, FileNames
  <2>. QED
    BY <1>1, <1>4, <2>1 DEF NoneLeftOut
<1>10. CreatedIsThere'
  <2>1. \A c \in created, f \in Elements(InstanceFiles) : <<c[1], f>> \in Paths
    BY ToolType, PathsOfNames, FileNames
  <2>. QED
    BY <1>4, <2>1 DEF CreatedIsThere
<1>11. SiteIsLast'
  <2>1. ASSUME NEW n \in Instances, files'[<<n, "web">>] # "missing"
        PROVE  files'[<<n, "endpoints">>] # "missing"
    <3>1. <<n, "web">> \in Paths /\ <<n, "endpoints">> \in Paths
      BY PathsOfNames
    <3>2. CASE files[<<n, "web">>] # "missing"
      BY <1>4, <3>1, <3>2 DEF SiteIsLast
    <3>3. CASE files[<<n, "web">>] = "missing"
      <4>1. NextFile[2] = "web" /\ tool.instance = n /\ n # ""
        <5>1. <<n, "web">> = NextFile
          BY <1>3, <2>1, <3>1, <3>3
        <5>2. NextFile[1] = tool.instance
          BY <1>2 DEF WorkInOrder
        <5>3. NextFile[1] = n /\ NextFile[2] = "web"
          BY <5>1
        <5>. QED
          BY <1>2, <5>1, <5>2, <5>3, ConfigurationAssumption
      <4>2. \A j \in DOMAIN tool.todo : tool.todo[j] # <<n, "endpoints">>
        <5>1. \A j \in DOMAIN tool.todo : tool.todo[j][2] = "endpoints" => j < 1
          <6>1. tool.todo[1][2] = "web"
            BY <1>2, <4>1, Zenon
          <6>. QED
            BY <1>2, <6>1, Zenon DEF WorkInOrder
        <5>2. \A j \in DOMAIN tool.todo : j \in Nat /\ j >= 1
          <6>1. tool.todo \in Seq(Paths)
            BY ToolType
          <6>. QED
            BY <6>1
        <5>3. ASSUME NEW j \in DOMAIN tool.todo, tool.todo[j] = <<n, "endpoints">> PROVE FALSE
          <6>1. tool.todo[j][2] = "endpoints"
            BY <5>3
          <6>. QED
            BY <5>1, <5>2, <6>1
        <5>. QED
          BY <5>3, Zenon
      <4>3. files[<<n, "endpoints">>] # "missing"
        BY <4>1, <4>2, FileNames DEF NoneLeftOut
      <4>. QED
        BY <1>4, <3>1, <4>3
    <3>. QED
      BY <3>2, <3>3
  <2>. QED
    BY <2>1 DEF SiteIsLast
<1>. QED
  BY <1>5, <1>6, <1>7, <1>8, <1>9, <1>10, <1>11

\* An administrator writes a file there is.
LEMMA FileIsEdited ==
  ASSUME InstallTypes, FilesInv, UNCHANGED <<tool, created, cut>>,
         NEW n \in Instances, NEW f, <<n, f>> \in Paths, files[<<n, f>>] # "missing",
         tool.pc # "write", edited' = edited \cup {n},
         NEW state \in {"whole", "broken"}, files' = [files EXCEPT ![<<n, f>>] = state]
  PROVE  FilesInv'
<1>. USE DEF FilesInv
<1>1. /\ files'[<<n, f>>] = state
      /\ \A p \in Paths : p # <<n, f>> => files'[p] = files[p]
  BY ToolType
<1>2. \A p \in Paths : files'[p] # "missing" <=> files[p] # "missing"
  BY <1>1
<1>3. WorkInOrder' /\ WritesWhatItOpened'
  BY DEF WorkInOrder, WritesWhatItOpened
<1>4. EmptyIsCut'
  BY <1>1 DEF EmptyIsCut
<1>5. BrokenIsEdited'
  BY <1>1 DEF BrokenIsEdited
<1>6. NoneLeftOut'
  <2>1. tool.instance # "" =>
          \A g \in Elements(InstanceFiles) : <<tool.instance, g>> \in Paths
    BY ToolType, PathsOfNames, FileNames
  <2>. QED
    BY <1>2, <2>1 DEF NoneLeftOut
<1>7. CreatedIsThere'
  <2>1. \A c \in created, g \in Elements(InstanceFiles) : <<c[1], g>> \in Paths
    BY ToolType, PathsOfNames, FileNames
  <2>. QED
    BY <1>2, <2>1 DEF CreatedIsThere
<1>8. SiteIsLast'
  BY <1>2, PathsOfNames DEF SiteIsLast
<1>. QED
  BY <1>3, <1>4, <1>5, <1>6, <1>7, <1>8

\* The tool has come to its end, and reports the instance as created.
LEMMA InstanceIsReported ==
  ASSUME InstallTypes, FilesInv, Finish
  PROVE  FilesInv'
<1>. USE DEF FilesInv
<1>1. /\ files' = files /\ edited' = edited /\ cut' = cut /\ tool.pc = "install"
      /\ tool' = NoTool /\ tool.todo = <<>>
      /\ created' = IF tool.instance = "" THEN created
                    ELSE created \cup {<<tool.instance, tool.kind>>}
  BY DEF Finish, confVars
<1>2. tool'.pc = "none" /\ tool'.todo = <<>>
  BY <1>1 DEF NoTool
<1>3. WorkInOrder' /\ WritesWhatItOpened' /\ NoneLeftOut'
  <2>1. WorkInOrder'
    BY <1>2 DEF WorkInOrder
  <2>2. WritesWhatItOpened' /\ NoneLeftOut'
    BY <1>2 DEF WritesWhatItOpened, NoneLeftOut
  <2>. QED
    BY <2>1, <2>2
<1>4. EmptyIsCut' /\ BrokenIsEdited' /\ SiteIsLast'
  BY <1>1 DEF EmptyIsCut, BrokenIsEdited, SiteIsLast
<1>5. CreatedIsThere'
  <2>1. tool.instance # "" =>
          \A f \in Elements(InstanceFiles) : files[<<tool.instance, f>>] # "missing"
    <3>1. DOMAIN tool.todo = {}
      <4>1. tool.todo = <<>>
        BY <1>1
      <4>. QED
        BY <4>1
    <3>. QED
      BY <1>1, <3>1, Zenon DEF NoneLeftOut
  <2>2. \A c \in created' : c \in created \/ (tool.instance # "" /\ c[1] = tool.instance)
    <3>1. CASE tool.instance = ""
      BY <1>1, <3>1
    <3>2. CASE tool.instance # ""
      <4>1. created' = created \cup {<<tool.instance, tool.kind>>}
        BY <1>1, <3>2
      <4>. QED
        BY <3>2, <4>1, PairItems, Zenon
    <3>. QED
      BY <3>1, <3>2
  <2>. QED
    BY <1>1, <2>1, <2>2 DEF CreatedIsThere
<1>. QED
  BY <1>3, <1>4, <1>5

LEMMA FilesStep ==
  ASSUME InstallTypes, FilesInv, [InstallNext]_<<confVars, installVars>>
  PROVE  FilesInv'
<1>1. CASE UNCHANGED <<confVars, installVars>>
  <2>1. UNCHANGED <<files, edited, created, cut, tool>>
    BY <1>1 DEF confVars, installVars
  <2>. QED
    BY <2>1 DEF FilesInv, WorkInOrder, WritesWhatItOpened, EmptyIsCut, BrokenIsEdited,
                NoneLeftOut, CreatedIsThere, SiteIsLast, NextFile
<1>2. ASSUME NEW p \in Passwords, RunPostInstall(p) PROVE FilesInv'
  <2>1. /\ tool'.pc = "account" /\ tool'.instance = ""
        /\ tool'.todo = InDirectory("", GlobalFiles)
    BY <1>2 DEF RunPostInstall, NoTool
  <2>. QED
    BY <1>2, <2>1, ToolStarts DEF RunPostInstall, confVars
<1>3. ASSUME NEW n \in Instances, NEW kind \in Kinds, RunCreateInstance(n, kind)
      PROVE  FilesInv'
  <2>1. CASE account = "missing"
    BY <1>3, <2>1, ToolEnds DEF RunCreateInstance, confVars
  <2>2. CASE account # "missing"
    <3>1. /\ tool'.pc \in {"install", "database"} /\ tool'.instance = n
          /\ tool'.todo = InDirectory(n, InstanceFiles)
      BY <1>3, <2>2 DEF RunCreateInstance, NoTool
    <3>. QED
      BY <1>3, <3>1, ToolStarts DEF RunCreateInstance, confVars
  <2>. QED
    BY <2>1, <2>2
<1>4. ASSUME UNCHANGED <<confVars, created, cut, edited>>,
             tool.pc \in ToolPlaces \ {"none", "write"},
             \/ Fatal
             \/ \E pc \in ToolPlaces \ {"none", "write"} : ToolGoto(pc)
      PROVE  FilesInv'
  BY <1>4, ToolEnds, ToolGoesOn DEF Fatal, confVars
<1>5. CreateSystemUserAndGroup \/ CreatePostgreSQLUser \/ LookupAccount => FilesInv'
  BY <1>4 DEF CreateSystemUserAndGroup, CreatePostgreSQLUser, LookupAccount, ToolPlaces
<1>6. CreatePostgreSQLDatabase \/ InitializeDatabase \/ CreateAdminUser => FilesInv'
  BY <1>4 DEF CreatePostgreSQLDatabase, InitializeDatabase, CreateAdminUser, ToolPlaces
<1>7. ParseWebServerConf => FilesInv'
  BY <1>4 DEF ParseWebServerConf, ToolPlaces
<1>9. CASE OpenFile
  <2>1. CASE files[NextFile] # "missing"
    <3>1. tool' = [tool EXCEPT !.pc = "install", !.todo = Tail(@)]
      BY <1>9, <2>1, ToolType DEF OpenFile, Tools
    <3>. QED
      BY <1>9, <2>1, <3>1, FileIsDone DEF OpenFile
  <2>2. CASE files[NextFile] = "missing"
    BY <1>9, <2>2, FileIsOpened DEF OpenFile
  <2>. QED
    BY <2>1, <2>2
<1>10. CASE WriteFile
  BY <1>10, FileIsDone DEF WriteFile, InstallTypes
<1>11. CASE Finish
  BY <1>11, InstanceIsReported
<1>12. CASE Die
  BY <1>12, ToolEnds DEF Die, confVars
<1>13. ASSUME NEW n \in Instances, NEW f \in {"supervisor", "web"} PROVE <<n, f>> \in Paths
  BY PathsOfNames
<1>14. ASSUME NEW n \in Instances, NEW f \in {"supervisor", "web"},
              NEW new \in NewSettings, Edit(n, f, new)
       PROVE  FilesInv'
  BY <1>13, <1>14, FileIsEdited DEF Edit
<1>15. ASSUME NEW n \in Instances, NEW f \in {"supervisor", "web"}, Spoil(n, f)
       PROVE  FilesInv'
  BY <1>13, <1>15, FileIsEdited DEF Spoil
<1>. QED
  BY <1>1, <1>2, <1>3, <1>5, <1>6, <1>7, <1>9, <1>10, <1>11, <1>12, <1>14, <1>15, Zenon
     DEF InstallNext, PostInstallNext, CreateInstanceNext, AdministratorNext

-----------------------------------------------------------------------------
(* The installation: whether what is reported can be used *)

PasswordFile == <<"", "password">>

Reachable(n) ==
  /\ database[n] = "ready" /\ admins[n] > 0
  /\ Parses(PasswordFile) /\ ReadTextConfig = role

\* What a tool has seen to when it is at a place, and what is known of all
\* that was reported.  A password file that is being written is of a machine
\* on which nothing was.
ReachableInv ==
  /\ \A c \in created : c[2] # "grader" => Reachable(c[1])
  /\ tool.pc \in {"account", "role", "lookup"} => tool.instance = ""
  /\ tool.pc = "admin" => Parses(PasswordFile)
  /\ \/ tool.pc = "webconf"
     \/ tool.pc \in {"install", "write"} /\ tool.instance # "" /\ tool.kind # "grader"
     => Reachable(tool.instance)
  /\ tool.pc = "write" /\ NextFile = PasswordFile =>
       tool.instance = "" /\ \A c \in created : c[2] = "grader"

\* What makes an instance reachable is not taken back.
LEMMA ReachableStays ==
  ASSUME NEW n \in Instances, Reachable(n),
         files'[PasswordFile] = files[PasswordFile], role' = role,
         database'[n] = database[n], admins'[n] = admins[n]
  PROVE  Reachable(n)'
BY DEF Reachable, Parses, ReadTextConfig, PasswordFile

LEMMA ReachableGoesOn ==
  ASSUME InstallTypes, ReachableInv, created' = created,
         \A n \in Instances : Reachable(n) => Reachable(n)',
         tool' = NoTool
  PROVE  ReachableInv'
<1>1. tool'.pc = "none"
  BY DEF NoTool
<1>2. \A c \in created : c[1] \in Instances
  BY ToolType
<1>. QED
  BY <1>1, <1>2 DEF ReachableInv

\* A step that changes neither files, the role nor what a database has.
LEMMA ReachableKept ==
  ASSUME InstallTypes, UNCHANGED <<files, role, database, admins>>
  PROVE  /\ \A n : Reachable(n) => Reachable(n)'
         /\ Parses(PasswordFile)' = Parses(PasswordFile)
BY DEF Reachable, Parses, ReadTextConfig, PasswordFile

LEMMA ReachableInstallStep ==
  ASSUME InstallTypes, FilesInv, ReachableInv, PostInstallNext
  PROVE  ReachableInv'
<1>0. \A c \in created : c[1] \in Instances
  BY ToolType
<1>1. ASSUME NEW p \in Passwords, RunPostInstall(p) PROVE ReachableInv'
  <2>1. /\ tool'.pc = "account" /\ tool'.instance = "" /\ created' = created
        /\ UNCHANGED <<files, role, database, admins>>
    BY <1>1 DEF RunPostInstall, NoTool, confVars, machine
  <2>. QED
    BY <2>1, <1>0, ReachableKept DEF ReachableInv
<1>2. CASE CreateSystemUserAndGroup
  <2>1. tool'.pc = "role" /\ tool'.instance = tool.instance /\ tool.pc = "account"
    BY <1>2, ToolType, PrimedPlace DEF CreateSystemUserAndGroup, ToolGoto, ToolPlaces
  <2>2. created' = created /\ UNCHANGED <<files, role, database, admins>>
    BY <1>2 DEF CreateSystemUserAndGroup, confVars
  <2>. QED
    BY <2>1, <2>2, <1>0, ReachableKept DEF ReachableInv
<1>3. CASE CreatePostgreSQLUser
  <2>1. tool'.pc = "lookup" /\ tool'.instance = tool.instance /\ tool.pc = "role"
    BY <1>3, ToolType, PrimedPlace DEF CreatePostgreSQLUser, ToolGoto, ToolPlaces
  <2>2. created' = created /\ UNCHANGED <<files, database, admins>>
    BY <1>3 DEF CreatePostgreSQLUser, confVars
  <2>3. ReadTextConfig = role => role' = role
    BY <1>3, InstallationAssumption DEF CreatePostgreSQLUser, ReadTextConfig
  <2>4. \A n \in Instances : Reachable(n) => Reachable(n)'
    BY <2>2, <2>3 DEF Reachable, Parses, ReadTextConfig
  <2>. QED
    BY <2>1, <2>2, <2>4, <1>0 DEF ReachableInv
<1>4. CASE LookupAccount
  <2>1. created' = created /\ UNCHANGED <<files, role, database, admins>>
    BY <1>4 DEF LookupAccount, confVars, machine
  <2>2. CASE account = "missing"
    BY <1>4, <2>1, <2>2, ReachableKept, ReachableGoesOn DEF LookupAccount, Fatal
  <2>3. CASE account # "missing"
    <3>1. tool'.pc = "install" /\ tool'.instance = tool.instance /\ tool.pc = "lookup"
      BY <1>4, <2>3, ToolType, PrimedPlace DEF LookupAccount, ToolGoto, ToolPlaces
    <3>. QED
      BY <2>1, <3>1, <1>0, ReachableKept DEF ReachableInv
  <2>. QED
    BY <2>2, <2>3
<1>. QED
  BY <1>1, <1>2, <1>3, <1>4 DEF PostInstallNext

LEMMA ReachableCreateStep ==
  ASSUME InstallTypes, FilesInv, ReachableInv, CreateInstanceNext
  PROVE  ReachableInv'
<1>0. \A c \in created : c[1] \in Instances
  BY ToolType
<1>1. ASSUME NEW n \in Instances, NEW kind \in Kinds, RunCreateInstance(n, kind)
      PROVE  ReachableInv'
  <2>1. created' = created /\ UNCHANGED <<files, role, database, admins>>
    BY <1>1 DEF RunCreateInstance, confVars, machine
  <2>2. CASE account = "missing"
    BY <1>1, <2>1, <2>2, ReachableKept, ReachableGoesOn DEF RunCreateInstance
  <2>3. CASE account # "missing"
    <3>1. \/ tool'.pc = "install" /\ tool'.kind = "grader"
          \/ tool'.pc = "database"
      BY <1>1, <2>3 DEF RunCreateInstance, NoTool
    <3>. QED
      BY <2>1, <3>1, <1>0, ReachableKept DEF ReachableInv
  <2>. QED
    BY <2>2, <2>3
<1>2. CASE CreatePostgreSQLDatabase
  <2>1. tool'.pc = "initialize"
    BY <1>2, ToolType, PrimedPlace DEF CreatePostgreSQLDatabase, ToolGoto, ToolPlaces
  <2>2. created' = created /\ UNCHANGED <<files, role, admins>>
    BY <1>2 DEF CreatePostgreSQLDatabase, confVars
  <2>3. \A n \in Instances : database[n] = "ready" => database'[n] = database[n]
    BY <1>2 DEF CreatePostgreSQLDatabase, InstallTypes, InstallTypeOK
  <2>4. \A n \in Instances : Reachable(n) => Reachable(n)'
    BY <2>2, <2>3 DEF Reachable, Parses, ReadTextConfig
  <2>. QED
    BY <2>1, <2>2, <2>4, <1>0 DEF ReachableInv
<1>3. CASE InitializeDatabase
  <2>1. created' = created /\ UNCHANGED <<files, role, admins>>
    BY <1>3 DEF InitializeDatabase, confVars
  <2>2. CASE ~Parses(<<"", "password">>)
    BY <1>3, <2>1, <2>2, ReachableKept, ReachableGoesOn DEF InitializeDatabase, Fatal
  <2>3. CASE Parses(<<"", "password">>)
    <3>1. tool'.pc = "admin"
      BY <1>3, <2>3, ToolType, PrimedPlace DEF InitializeDatabase, ToolGoto, ToolPlaces
    <3>2. Parses(PasswordFile)'
      BY <2>1, <2>3 DEF Parses, PasswordFile
    <3>3. \A n \in Instances : database[n] = "ready" => database'[n] = database[n]
      BY <1>3, <2>3 DEF InitializeDatabase, InstallTypes, InstallTypeOK
    <3>4. \A n \in Instances : Reachable(n) => Reachable(n)'
      BY <2>1, <3>3 DEF Reachable, Parses, ReadTextConfig
    <3>. QED
      BY <2>1, <3>1, <3>2, <3>4, <1>0 DEF ReachableInv
  <2>. QED
    BY <2>2, <2>3
<1>4. CASE CreateAdminUser
  <2>1. created' = created /\ UNCHANGED <<files, role, database>>
    BY <1>4 DEF CreateAdminUser, confVars
  <2>2. tool.instance \in Instances /\ admins \in [Instances -> Nat]
    BY <1>4 DEF CreateAdminUser, InstallTypes, InstallTypeOK
  <2>3. CASE database[tool.instance] = "ready" /\ ReadTextConfig = role
    <3>1. admins' = [admins EXCEPT ![tool.instance] = @ + 1]
      BY <1>4, <2>3 DEF CreateAdminUser
    <3>2. /\ admins'[tool.instance] = admins[tool.instance] + 1
          /\ \A n \in Instances : admins'[n] >= admins[n]
      BY <2>2, <3>1, OneMore
    <3>3. /\ \A n \in Instances : admins[n] > 0 => admins'[n] > 0
          /\ admins'[tool.instance] > 0
      BY <2>2, <3>1, <3>2
    <3>4. /\ tool'.pc = "webconf" /\ tool'.instance = tool.instance /\ tool.pc = "admin"
          /\ tool'.kind = tool.kind
      BY <1>4, <2>3, ToolType, PrimedPlace DEF CreateAdminUser, ToolGoto, ToolPlaces
    <3>5. \A n \in Instances : Reachable(n) => Reachable(n)'
      BY <2>1, <3>3 DEF Reachable, Parses, ReadTextConfig
    <3>6. Reachable(tool.instance)'
      BY <2>1, <2>3, <3>3, <3>4 DEF ReachableInv, Reachable, Parses, ReadTextConfig
    <3>. QED
      BY <2>1, <3>4, <3>5, <3>6, <1>0 DEF ReachableInv
  <2>4. CASE ~(database[tool.instance] = "ready" /\ ReadTextConfig = role)
    BY <1>4, <2>1, <2>4, ReachableKept, ReachableGoesOn DEF CreateAdminUser, Fatal
  <2>. QED
    BY <2>3, <2>4
<1>5. CASE ParseWebServerConf
  <2>1. created' = created /\ UNCHANGED <<files, role, database, admins>>
    BY <1>5 DEF ParseWebServerConf, confVars, machine
  <2>2. CASE ~Parses(<<"", "webserver">>)
    BY <1>5, <2>1, <2>2, ReachableKept, ReachableGoesOn DEF ParseWebServerConf, Fatal
  <2>3. CASE Parses(<<"", "webserver">>)
    <3>1. tool'.pc = "install" /\ tool'.instance = tool.instance /\ tool.pc = "webconf"
      BY <1>5, <2>3, ToolType, PrimedPlace DEF ParseWebServerConf, ToolGoto, ToolPlaces
    <3>. QED
      BY <2>1, <3>1, <1>0, ReachableKept DEF ReachableInv
  <2>. QED
    BY <2>2, <2>3
<1>. QED
  BY <1>1, <1>2, <1>3, <1>4, <1>5 DEF CreateInstanceNext

LEMMA ReachableFileStep ==
  ASSUME InstallTypes, FilesInv, ReachableInv, OpenFile \/ WriteFile \/ Finish \/ Die
  PROVE  ReachableInv'
<1>0. /\ \A c \in created : c[1] \in Instances
      /\ PasswordFile \in Paths
      /\ tool.todo # <<>> => NextFile \in Paths /\ NextFile = tool.todo[1] /\ 1 \in DOMAIN tool.todo
  BY ToolType, PathsOfNames, HeadAndTail DEF PasswordFile, NextFile
<1>1. CASE OpenFile
  <2>1. /\ UNCHANGED <<role, database, admins, created>> /\ tool.pc = "install"
        /\ tool.todo # <<>>
    BY <1>1 DEF OpenFile, machine
  <2>2. CASE files[NextFile] # "missing"
    <3>1. /\ tool'.pc = "install" /\ tool'.instance = tool.instance /\ tool'.kind = tool.kind
          /\ files' = files
      BY <1>1, <2>1, <2>2, ToolType DEF OpenFile, Tools
    <3>. QED
      BY <2>1, <3>1, <1>0, ReachableKept DEF ReachableInv
  <2>3. CASE files[NextFile] = "missing"
    <3>1. /\ tool'.pc = "write" /\ tool'.instance = tool.instance /\ tool'.kind = tool.kind
          /\ tool'.todo = tool.todo /\ NextFile' = NextFile
          /\ files' = [files EXCEPT ![NextFile] = "empty"]
      BY <1>1, <2>3, ToolType, PrimedPlace DEF OpenFile, ToolGoto, ToolPlaces, NextFile
    <3>2. ASSUME NEW n \in Instances, Reachable(n)
          PROVE  NextFile # PasswordFile /\ Reachable(n)'
      <4>1. NextFile # PasswordFile
        BY <2>3, <3>2 DEF Reachable, Parses
      <4>2. files'[PasswordFile] = files[PasswordFile]
        BY <3>1, <4>1, <1>0, ToolType
      <4>. QED
        BY <2>1, <3>2, <4>1, <4>2, ReachableStays
    <3>3. NextFile = PasswordFile => tool.instance = ""
      <4>1. NextFile[1] = tool.instance
        BY <1>0, <2>1 DEF FilesInv, WorkInOrder
      <4>2. PasswordFile[1] = ""
        BY DEF PasswordFile
      <4>. QED
        BY <4>1, <4>2
    <3>4. NextFile = PasswordFile => \A c \in created : c[2] = "grader"
      BY <1>0, <3>2 DEF ReachableInv
    <3>5. tool.instance # "" => tool.instance \in Instances
      BY ToolType
    <3>. QED
      BY <2>1, <3>1, <3>2, <3>3, <3>4, <3>5, <1>0 DEF ReachableInv
  <2>. QED
    BY <2>2, <2>3
<1>2. CASE WriteFile
  <2>1. /\ UNCHANGED <<role, database, admins, created>> /\ tool.pc = "write"
        /\ tool.todo # <<>> /\ files' = [files EXCEPT ![NextFile] = "whole"]
    BY <1>2 DEF WriteFile, machine, InstallTypes
  <2>2. tool'.pc = "install" /\ tool'.instance = tool.instance /\ tool'.kind = tool.kind
    BY <1>2, ToolType DEF WriteFile, Tools
  <2>3. ASSUME NEW n \in Instances, Reachable(n), NextFile # PasswordFile
        PROVE  Reachable(n)'
    <3>1. files'[PasswordFile] = files[PasswordFile]
      BY <2>1, <2>3, <1>0, ToolType
    <3>. QED
      BY <2>1, <2>3, <3>1, ReachableStays
  <2>4. tool.instance # "" => tool.instance \in Instances
    BY ToolType
  <2>. QED
    BY <2>1, <2>2, <2>3, <2>4, <1>0 DEF ReachableInv
<1>3. CASE Finish
  <2>1. /\ UNCHANGED <<files, role, database, admins>> /\ tool.pc = "install" /\ tool' = NoTool
        /\ created' = IF tool.instance = "" THEN created
                      ELSE created \cup {<<tool.instance, tool.kind>>}
    BY <1>3 DEF Finish, confVars, machine
  <2>2. tool'.pc = "none"
    BY <2>1 DEF NoTool
  <2>3. ASSUME NEW c \in created', c[2] # "grader" PROVE Reachable(c[1])'
    <3>1. CASE c \in created
      BY <2>1, <2>3, <3>1, ReachableKept DEF ReachableInv
    <3>2. CASE c \notin created
      <4>1. tool.instance # "" /\ c = <<tool.instance, tool.kind>>
        BY <2>1, <2>3, <3>2
      <4>2. c[1] = tool.instance /\ c[2] = tool.kind
        BY <4>1
      <4>3. Reachable(c[1])
        BY <2>1, <2>3, <4>1, <4>2 DEF ReachableInv
      <4>. QED
        BY <2>1, <4>3, ReachableKept
    <3>. QED
      BY <3>1, <3>2
  <2>. QED
    BY <2>2, <2>3 DEF ReachableInv
<1>4. CASE Die
  <2>1. /\ UNCHANGED <<files, role, database, admins, created>> /\ tool' = NoTool
    BY <1>4 DEF Die, confVars, machine
  <2>. QED
    BY <2>1, ReachableKept, ReachableGoesOn
<1>. QED
  BY <1>1, <1>2, <1>3, <1>4

LEMMA ReachableStep ==
  ASSUME InstallTypes, FilesInv, ReachableInv, [InstallNext]_<<confVars, installVars>>
  PROVE  ReachableInv'
<1>0. \A c \in created : c[1] \in Instances
  BY ToolType
<1>1. ASSUME UNCHANGED <<role, admins, created, tool>>, tool.pc # "write" \/ files' = files,
             files'[PasswordFile] = files[PasswordFile],
             \A n \in Instances : database[n] = "ready" => database'[n] = "ready"
      PROVE  ReachableInv'
  <2>1. ASSUME NEW n \in Instances, Reachable(n) PROVE Reachable(n)'
    BY <1>1, <2>1 DEF Reachable, Parses, ReadTextConfig, PasswordFile
  <2>2. tool.instance # "" => tool.instance \in Instances
    BY ToolType
  <2>3. tool.pc = "webconf" => tool.instance \in Instances
    BY DEF InstallTypes
  <2>4. Parses(PasswordFile)' = Parses(PasswordFile)
    BY <1>1 DEF Parses, PasswordFile
  <2>5. NextFile' = NextFile
    BY <1>1 DEF NextFile
  <2>. QED
    BY <1>0, <1>1, <2>1, <2>2, <2>3, <2>4, <2>5 DEF ReachableInv
<1>2. CASE UNCHANGED <<confVars, installVars>>
  BY <1>1, <1>2 DEF confVars, installVars, machine
<1>4. ASSUME NEW n \in Instances, NEW f, NEW state, files' = [files EXCEPT ![<<n, f>>] = state]
      PROVE  files'[PasswordFile] = files[PasswordFile]
  <2>1. <<n, f>> # PasswordFile
    BY ConfigurationAssumption DEF PasswordFile
  <2>2. PasswordFile \in Paths
    BY PathsOfNames DEF PasswordFile
  <2>. QED
    BY <1>4, <2>1, <2>2, ToolType
<1>5. ASSUME NEW n \in Instances, NEW f, NEW new \in NewSettings, Edit(n, f, new)
      PROVE  ReachableInv'
  <2>1. /\ UNCHANGED <<role, admins, created, tool, database>> /\ tool.pc # "write"
        /\ files' = [files EXCEPT ![<<n, f>>] = "whole"]
    BY <1>5 DEF Edit, machine
  <2>. QED
    BY <1>1, <1>4, <2>1
<1>6. ASSUME NEW n \in Instances, NEW f, Spoil(n, f) PROVE ReachableInv'
  <2>1. /\ UNCHANGED <<role, admins, created, tool, database>> /\ tool.pc # "write"
        /\ files' = [files EXCEPT ![<<n, f>>] = "broken"]
    BY <1>6 DEF Spoil, machine
  <2>. QED
    BY <1>1, <1>4, <2>1
<1>. QED
  BY <1>2, <1>5, <1>6, ReachableInstallStep, ReachableCreateStep, ReachableFileStep, Zenon
     DEF InstallNext, AdministratorNext

-----------------------------------------------------------------------------
(* The installation: why a site has no host name *)

\* The run of a tool is among those that were begun, and a site without a host
\* name was edited, or written by a run that was begun for a grader only.
BegunInv ==
  /\ tool.pc # "none" /\ tool.instance # "" => <<tool.instance, tool.kind>> \in begun
  /\ \A n \in Instances :
       files[<<n, "web">>] = "whole" /\ settings[n].site = "unnamed" =>
         n \in edited \/ <<n, "grader">> \in begun

LEMMA ToolPlaceChanges ==
  ASSUME InstallTypes, NEW pc \in ToolPlaces, ToolGoto(pc)
  PROVE  tool'.instance = tool.instance /\ tool'.kind = tool.kind
BY ToolType DEF ToolGoto, Tools

\* A step that changes no file, of a tool that goes on or ends.
LEMMA BegunKept ==
  ASSUME BegunInv, UNCHANGED <<files, settings>>, edited \subseteq edited', begun \subseteq begun',
         \/ tool'.pc = "none" \/ tool'.instance = ""
         \/ <<tool'.instance, tool'.kind>> \in begun'
  PROVE  BegunInv'
BY DEF BegunInv

LEMMA NextFileIs ==
  ASSUME InstallTypes, FilesInv, tool.pc = "write"
  PROVE  NextFile \in Paths /\ NextFile[1] = tool.instance
<1>1. tool.todo \in Seq(Paths) /\ tool.todo # <<>>
  BY ToolType DEF InstallTypes
<1>2. NextFile \in Paths /\ NextFile = tool.todo[1] /\ 1 \in DOMAIN tool.todo
  BY <1>1, HeadAndTail DEF NextFile
<1>. QED
  BY <1>2 DEF FilesInv, WorkInOrder

LEMMA BegunFileStep ==
  ASSUME InstallTypes, FilesInv, BegunInv, WriteFile
  PROVE  BegunInv'
<1>1. /\ tool.pc = "write" /\ files' = [files EXCEPT ![NextFile] = "whole"]
      /\ settings' = IF tool.instance = "" THEN settings
                     ELSE [settings EXCEPT ![tool.instance] = Substituted(NextFile[2])]
      /\ UNCHANGED <<begun, edited>>
  BY DEF WriteFile
<1>2. NextFile \in Paths /\ NextFile[1] = tool.instance
  BY <1>1, NextFileIs
<1>3. tool'.instance = tool.instance /\ tool'.kind = tool.kind
  BY ToolType DEF WriteFile, Tools
<1>4. settings \in [Instances -> Settings] /\ files \in [Paths -> FileStates]
  BY DEF InstallTypes, InstallTypeOK
<1>5. ASSUME NEW n \in Instances, files'[<<n, "web">>] = "whole", settings'[n].site = "unnamed"
      PROVE  n \in edited \/ <<n, "grader">> \in begun
  <2>0. <<n, "web">> \in Paths /\ n # ""
    BY PathsOfNames, ConfigurationAssumption
  <2>1. CASE n # tool.instance
    <3>1. <<n, "web">> # NextFile
      BY <1>2, <2>1
    <3>2. files[<<n, "web">>] = "whole" /\ settings[n].site = "unnamed"
      BY <1>1, <1>4, <1>5, <2>0, <2>1, <3>1
    <3>. QED
      BY <3>2 DEF BegunInv
  <2>2. CASE n = tool.instance
    <3>1. settings'[n] = Substituted(NextFile[2])
      BY <1>1, <1>4, <2>0, <2>2
    <3>2. <<n, tool.kind>> \in begun
      BY <1>1, <2>0, <2>2 DEF BegunInv
    <3>3. CASE NextFile[2] = "web"
      <4>1. Substituted(NextFile[2]) =
              [settings[n] EXCEPT !.site = IF tool.kind = "grader" THEN "unnamed" ELSE "static"]
        BY <2>2, <3>3 DEF Substituted
      <4>2. settings[n] \in Settings
        BY <1>4
      <4>3. Substituted(NextFile[2]).site = IF tool.kind = "grader" THEN "unnamed" ELSE "static"
        BY <4>1, <4>2 DEF Settings
      <4>. QED
        BY <1>5, <3>1, <3>2, <4>3
    <3>4. CASE NextFile[2] # "web"
      <4>1. <<n, "web">> # NextFile
        BY <3>4
      <4>2. settings[n] \in Settings
        BY <1>4
      <4>3. Substituted(NextFile[2]).site = settings[n].site
        <5>1. CASE NextFile[2] = "supervisor"
          BY <2>2, <4>2, <5>1, SubstitutedType
        <5>2. CASE NextFile[2] # "supervisor"
          BY <2>2, <3>4, <5>2 DEF Substituted
        <5>. QED
          BY <5>1, <5>2
      <4>4. files[<<n, "web">>] = "whole"
        BY <1>1, <1>4, <1>5, <2>0, <4>1
      <4>. QED
        BY <1>5, <3>1, <4>3, <4>4 DEF BegunInv
    <3>. QED
      BY <3>3, <3>4
  <2>. QED
    BY <2>1, <2>2
<1>6. tool.instance # "" => <<tool.instance, tool.kind>> \in begun
  BY <1>1 DEF BegunInv
<1>. QED
  BY <1>1, <1>3, <1>5, <1>6 DEF BegunInv

LEMMA BegunStep ==
  ASSUME InstallTypes, FilesInv, BegunInv, [InstallNext]_<<confVars, installVars>>
  PROVE  BegunInv'
<1>1. CASE UNCHANGED <<confVars, installVars>>
  BY <1>1 DEF BegunInv, confVars, installVars
<1>2. ASSUME UNCHANGED <<files, settings, edited, begun>>, tool.pc # "none",
             \/ Fatal
             \/ \E pc \in ToolPlaces : ToolGoto(pc)
      PROVE  BegunInv'
  <2>1. CASE Fatal
    BY <1>2, <2>1, BegunKept DEF Fatal, NoTool
  <2>2. ASSUME NEW pc \in ToolPlaces, ToolGoto(pc) PROVE BegunInv'
    <3>1. tool'.instance = tool.instance /\ tool'.kind = tool.kind
      BY <2>2, ToolPlaceChanges
    <3>. QED
      BY <1>2, <3>1, BegunKept DEF BegunInv
  <2>. QED
    BY <1>2, <2>1, <2>2
<1>3. ASSUME NEW p \in Passwords, RunPostInstall(p) PROVE BegunInv'
  BY <1>3, BegunKept DEF RunPostInstall, NoTool, confVars
<1>4. ASSUME NEW n \in Instances, NEW kind \in Kinds, RunCreateInstance(n, kind) PROVE BegunInv'
  <2>1. /\ UNCHANGED <<files, settings, edited>> /\ begun \subseteq begun'
        /\ \/ tool'.pc = "none"
           \/ tool'.instance = n /\ tool'.kind = kind /\ <<n, kind>> \in begun'
    BY <1>4 DEF RunCreateInstance, confVars, NoTool
  <2>. QED
    BY <2>1, BegunKept
<1>5. CreateSystemUserAndGroup \/ CreatePostgreSQLUser \/ LookupAccount => BegunInv'
  BY <1>2 DEF CreateSystemUserAndGroup, CreatePostgreSQLUser, LookupAccount, ToolPlaces, confVars
<1>6. CreatePostgreSQLDatabase \/ InitializeDatabase => BegunInv'
  BY <1>2 DEF CreatePostgreSQLDatabase, InitializeDatabase, ToolPlaces, confVars
<1>7. CreateAdminUser \/ ParseWebServerConf => BegunInv'
  BY <1>2 DEF CreateAdminUser, ParseWebServerConf, ToolPlaces, confVars
<1>8. CASE OpenFile
  <2>1. CASE files[NextFile] # "missing"
    <3>1. tool'.instance = tool.instance /\ tool'.kind = tool.kind
      BY <1>8, <2>1, ToolType DEF OpenFile, Tools
    <3>. QED
      BY <1>8, <2>1, <3>1, BegunKept DEF OpenFile, BegunInv
  <2>2. CASE files[NextFile] = "missing"
    <3>1. tool'.instance = tool.instance /\ tool'.kind = tool.kind
      BY <1>8, <2>2, ToolPlaceChanges DEF OpenFile, ToolPlaces
    <3>2. /\ files' = [files EXCEPT ![NextFile] = "empty"]
          /\ UNCHANGED <<settings, edited, begun>> /\ tool.pc = "install"
      BY <1>8, <2>2, Zenon DEF OpenFile
    <3>3. \A n \in Instances : files'[<<n, "web">>] = "whole" => files[<<n, "web">>] = "whole"
      BY <3>2, PathsOfNames, ToolType
    <3>. QED
      BY <3>1, <3>2, <3>3 DEF BegunInv
  <2>. QED
    BY <2>1, <2>2
<1>9. CASE Finish \/ Die
  <2>1. tool' = NoTool /\ UNCHANGED <<files, settings, edited, begun>>
    BY <1>9 DEF Finish, Die, confVars
  <2>2. tool'.pc = "none"
    BY <2>1 DEF NoTool
  <2>. QED
    BY <2>1, <2>2, BegunKept
<1>10. ASSUME NEW n \in Instances, NEW f \in {"supervisor", "web"}, <<n, f>> \in Paths
       PROVE  /\ Spoil(n, f) => BegunInv'
              /\ \A new \in NewSettings : Edit(n, f, new) => BegunInv'
  <2>1. ASSUME NEW m \in Instances, m # n, NEW state, files' = [files EXCEPT ![<<n, f>>] = state]
        PROVE  files'[<<m, "web">>] = files[<<m, "web">>]
    BY <2>1, PathsOfNames, ToolType
  <2>2. CASE Spoil(n, f)
    BY <2>1, <2>2 DEF Spoil, BegunInv
  <2>3. ASSUME NEW new \in NewSettings, Edit(n, f, new) PROVE BegunInv'
    <3>1. ASSUME NEW m \in Instances, m # n PROVE settings'[m] = settings[m]
      BY <2>3, <3>1 DEF Edit, InstallTypes, InstallTypeOK
    <3>2. n \in edited' /\ edited \subseteq edited' /\ UNCHANGED <<begun, tool>>
      BY <2>3 DEF Edit
    <3>3. files' = [files EXCEPT ![<<n, f>>] = "whole"]
      BY <2>3 DEF Edit
    <3>. QED
      BY <2>1, <3>1, <3>2, <3>3 DEF BegunInv
  <2>. QED
    BY <2>2, <2>3
<1>. QED
  BY <1>1, <1>3, <1>4, <1>5, <1>6, <1>7, <1>8, <1>9, <1>10, BegunFileStep, PathsOfNames, Zenon
     DEF InstallNext, PostInstallNext, CreateInstanceNext, AdministratorNext

LEMMA BegunInit == HostInit => BegunInv
<1>. SUFFICES ASSUME HostInit PROVE BegunInv
  OBVIOUS
<1>1. tool.pc = "none"
  BY DEF HostInit, NothingHappened, NoTool
<1>2. PICK s \in Scenarios :
        IF DOMAIN s.settings = {} THEN FreshMachine ELSE PreparedMachine(s.settings)
  BY Zenon DEF HostInit
<1>3. ASSUME NEW n \in Instances, files[<<n, "web">>] = "whole" PROVE settings[n].site # "unnamed"
  <2>0. <<n, "web">> \in Paths /\ <<n, "web">>[1] = n /\ n # ""
    BY PathsOfNames, ConfigurationAssumption
  <2>1. CASE FreshMachine
    BY <1>3, <2>0, <2>1 DEF FreshMachine
  <2>2. CASE PreparedMachine(s.settings)
    <3>1. files[<<n, "web">>] = IF n \in DOMAIN s.settings \cup {""} THEN "whole" ELSE "missing"
      BY <2>0, <2>2, Zenon DEF PreparedMachine
    <3>2. n \in DOMAIN s.settings
      BY <1>3, <2>0, <3>1
    <3>3. settings = [m \in Instances |->
                        IF m \in DOMAIN s.settings THEN s.settings[m] ELSE NoSettings]
      BY <2>2, Zenon DEF PreparedMachine
    <3>4. settings[n] = s.settings[n]
      BY <3>2, <3>3
    <3>5. s.settings[n].site # "unnamed"
      BY <3>2, HostAssumption
    <3>. QED
      BY <3>4, <3>5
  <2>. QED
    BY <1>2, <2>1, <2>2
<1>. QED
  BY <1>1, <1>3 DEF BegunInv

-----------------------------------------------------------------------------
(* The installation: theorems *)

InstallIInv == InstallTypes /\ FilesInv /\ ReachableInv /\ BegunInv

LEMMA InstallInit == HostInit => InstallIInv
<1>. SUFFICES ASSUME HostInit PROVE InstallIInv
  OBVIOUS
<1>1. InstallTypes
  BY InstallInitTypes
<1>2. tool = NoTool /\ cut = {} /\ edited = {} /\ tool.pc = "none" /\ tool.todo = <<>>
  BY DEF HostInit, NothingHappened, NoTool
<1>3. DOMAIN tool.todo = {}
  <2>1. tool.todo = <<>>
    BY <1>2
  <2>. QED
    BY <2>1
<1>4. PICK s \in Scenarios :
        IF DOMAIN s.settings = {} THEN FreshMachine ELSE PreparedMachine(s.settings)
  BY Zenon DEF HostInit
<1>5. WorkInOrder /\ WritesWhatItOpened /\ NoneLeftOut
  BY <1>2, <1>3, Zenon DEF WorkInOrder, WritesWhatItOpened, NoneLeftOut
<1>6. CASE FreshMachine
  <2>1. created = {} /\ \A p \in Paths : files[p] = "missing"
    BY <1>6 DEF FreshMachine
  <2>2. EmptyIsCut /\ BrokenIsEdited /\ CreatedIsThere /\ SiteIsLast
    BY <2>1, PathsOfNames DEF EmptyIsCut, BrokenIsEdited, CreatedIsThere, SiteIsLast
  <2>3. ReachableInv
    BY <1>2, <2>1 DEF ReachableInv
  <2>. QED
    BY <1>1, <1>5, <2>2, <2>3, BegunInit DEF InstallIInv, FilesInv
<1>7. CASE PreparedMachine(s.settings)
  <2>0. PICK made : made = DOMAIN s.settings /\ made \subseteq Instances
    BY HostAssumption
  <2>1. /\ \A p \in Paths : files[p] = IF p[1] \in made \cup {""} THEN "whole" ELSE "missing"
        /\ role = DefaultPassword
        /\ \A n \in made : database[n] = "ready" /\ admins[n] = 1
    BY <1>7, <2>0 DEF PreparedMachine
  <2>2. \A c \in created : c[1] \in made
    <3>1. created = {<<n, IF s.settings[n].grader = "true" THEN "all" ELSE "masters">> : n \in made}
      BY <1>7, <2>0, Zenon DEF PreparedMachine
    <3>. QED
      BY <3>1
  <2>3. ASSUME NEW n \in Instances, NEW f \in Elements(InstanceFiles)
        PROVE  files[<<n, f>>] = IF n \in made THEN "whole" ELSE "missing"
    <3>1. PICK p \in Paths : p = <<n, f>> /\ p[1] = n
      BY PathsOfNames, FileNames
    <3>2. n \in made \cup {""} <=> n \in made
      BY ConfigurationAssumption
    <3>. QED
      BY <2>1, <3>1, <3>2, Zenon
  <2>4. EmptyIsCut /\ BrokenIsEdited
    BY <2>1 DEF EmptyIsCut, BrokenIsEdited
  <2>5. CreatedIsThere
    <3>1. ASSUME NEW c \in created, NEW f \in Elements(InstanceFiles)
          PROVE  files[<<c[1], f>>] # "missing"
      <4>1. c[1] \in made /\ c[1] \in Instances
        BY <2>0, <2>2
      <4>2. files[<<c[1], f>>] = "whole"
        BY <2>3, <4>1, Zenon
      <4>. QED
        BY <4>2
    <3>. QED
      BY <3>1 DEF CreatedIsThere
  <2>6. SiteIsLast
    <3>1. ASSUME NEW n \in Instances
          PROVE  files[<<n, "web">>] = files[<<n, "endpoints">>]
      <4>1. "web" \in Elements(InstanceFiles) /\ "endpoints" \in Elements(InstanceFiles)
        BY FileNames
      <4>. QED
        BY <2>3, <4>1, Zenon
    <3>. QED
      BY <3>1 DEF SiteIsLast
  <2>7. files[PasswordFile] = "whole"
    <3>1. PICK p \in Paths : p = PasswordFile /\ p[1] = ""
      BY PathsOfNames DEF PasswordFile
    <3>2. p[1] \in made \cup {""}
      BY <3>1, Zenon
    <3>3. files[p] = "whole"
      BY <2>1, <3>2, Zenon
    <3>. QED
      BY <3>1, <3>3, Zenon
  <2>8. ASSUME NEW n \in made PROVE Reachable(n)
    <3>1. database[n] = "ready" /\ admins[n] > 0
      <4>1. database[n] = "ready" /\ admins[n] = 1
        BY <2>1, Zenon
      <4>. QED
        BY <4>1
    <3>2. Parses(PasswordFile) /\ ReadTextConfig = role
      BY <2>1, <2>7 DEF Parses, ReadTextConfig, PasswordFile
    <3>. QED
      BY <3>1, <3>2 DEF Reachable
  <2>9. ReachableInv
    BY <1>2, <2>2, <2>8 DEF ReachableInv
  <2>. QED
    BY <1>1, <1>5, <2>4, <2>5, <2>6, <2>9, BegunInit DEF InstallIInv, FilesInv
<1>. QED
  BY <1>4, <1>6, <1>7

LEMMA InstallInvariant == HostSpec => []InstallIInv
<1>1. InstallIInv /\ [HostNext]_hostVars => InstallIInv'
  BY HostStepIsInstallStep, InstallStepTypes, FilesStep, ReachableStep, BegunStep
     DEF InstallIInv
<1>. QED
  BY <1>1, InstallInit, PTL DEF HostSpec

\* An instance whose creation was reported has its files, and unless it is
\* only a grader a database the services can log in to, whatever failed and
\* however often the tools were run.
THEOREM CompletedInstancesAreUsable == HostSpec => []CompletedIsUsable
<1>1. InstallIInv => CompletedIsUsable
  <2>. SUFFICES ASSUME InstallIInv, NEW n \in Instances, NEW kind \in Kinds,
                       <<n, kind>> \in created
                PROVE  /\ kind # "grader" =>
                            database[n] = "ready" /\ admins[n] > 0 /\ ReadTextConfig = role
                       /\ \A f \in Elements(InstanceFiles) :
                            /\ files[<<n, f>>] # "missing"
                            /\ files[<<n, f>>] = "empty" => <<n, f>> \in cut
                            /\ files[<<n, f>>] = "broken" => n \in edited
    BY DEF CompletedIsUsable
  <2>1. PICK c \in created : c = <<n, kind>> /\ c[1] = n /\ c[2] = kind
    OBVIOUS
  <2>2. kind # "grader" => Reachable(n)
    BY <2>1 DEF InstallIInv, ReachableInv
  <2>3. ASSUME NEW f \in Elements(InstanceFiles)
        PROVE  /\ files[<<n, f>>] # "missing"
               /\ files[<<n, f>>] = "empty" => <<n, f>> \in cut
               /\ files[<<n, f>>] = "broken" => n \in edited
    <3>1. <<n, f>> \in Paths /\ <<n, f>>[1] = n
      BY PathsOfNames, FileNames
    <3>2. files[<<n, f>>] # "missing"
      BY <2>1, Zenon DEF InstallIInv, FilesInv, CreatedIsThere
    <3>3. tool.pc = "write" => NextFile # <<n, f>>
      BY <2>1, <3>1 DEF InstallIInv, FilesInv, WritesWhatItOpened
    <3>. QED
      BY <3>1, <3>2, <3>3, Zenon DEF InstallIInv, FilesInv, EmptyIsCut, BrokenIsEdited
  <2>. QED
    BY <2>2, <2>3, Zenon DEF Reachable
<1>. QED
  BY <1>1, InstallInvariant, PTL

\* A site the web server cannot parse was edited, left empty by a tool that
\* died over it, or written for a grader only.
THEOREM BadSitesAreCaused == HostSpec => []BadSiteCause
<1>1. InstallIInv => BadSiteCause
  <2>. SUFFICES ASSUME InstallIInv, NEW n \in ConfiguredSites, ~ParseSiteConfigSucceeds(n),
                       n \notin edited,
                       ~(<<n, "web">> \in cut \/ (tool.pc = "write" /\ NextFile = <<n, "web">>))
                PROVE  settings[n].site = "unnamed" /\ <<n, "grader">> \in begun
    BY Zenon DEF BadSiteCause
  <2>0. n \in Instances /\ files[<<n, "web">>] # "missing"
    BY DEF ConfiguredSites
  <2>1. /\ <<n, "endpoints">> \in Paths /\ <<n, "endpoints">>[1] = n
        /\ <<n, "web">> \in Paths /\ <<n, "web">>[1] = n
    BY <2>0, PathsOfNames
  <2>2. files[<<n, "endpoints">>] \notin {"missing", "broken"}
    BY <2>0, <2>1 DEF InstallIInv, FilesInv, SiteIsLast, BrokenIsEdited
  <2>3. files[<<n, "endpoints">>] \in FileStates /\ files[<<n, "web">>] \in FileStates
    BY <2>1, ToolType DEF InstallIInv
  <2>4. Parses(<<n, "endpoints">>)
    BY <2>2, <2>3 DEF Parses, FileStates
  <2>5. files[<<n, "web">>] # "empty"
    BY <2>1, Zenon DEF InstallIInv, FilesInv, EmptyIsCut
  <2>6. files[<<n, "web">>] # "broken"
    BY <2>1 DEF InstallIInv, FilesInv, BrokenIsEdited
  <2>7. files[<<n, "web">>] = "whole"
    BY <2>0, <2>3, <2>5, <2>6 DEF FileStates
  <2>8. settings[n].site = "unnamed"
    BY <2>4, <2>7 DEF ParseSiteConfigSucceeds
  <2>. QED
    BY <2>0, <2>7, <2>8 DEF InstallIInv, BegunInv
<1>. QED
  BY <1>1, InstallInvariant, PTL

\* No tool takes away or replaces a complete file.
THEOREM WholeFilesAreKept == HostSpec => WholeFilesKept
<1>. DEFINE Kept ==
       \A p \in Paths :
         files[p] = "whole" =>
           installBudget'["edit"] # installBudget["edit"] \/
           (files'[p] = "whole" /\ (p[1] # "" => settings'[p[1]].site = settings[p[1]].site
                                                \/ p[2] # "web"))
<1>1. InstallIInv /\ [HostNext]_hostVars => [Kept]_<<confVars, installVars>>
  <2>. SUFFICES ASSUME InstallIInv, InstallNext, NEW p \in Paths, files[p] = "whole"
                PROVE  \/ installBudget'["edit"] # installBudget["edit"]
                       \/ /\ files'[p] = "whole"
                          /\ p[1] # "" => settings'[p[1]].site = settings[p[1]].site
                                           \/ p[2] # "web"
    BY HostStepIsInstallStep
  <2>1. ASSUME UNCHANGED <<files, settings>>
        PROVE  /\ files'[p] = "whole"
               /\ p[1] # "" => settings'[p[1]].site = settings[p[1]].site \/ p[2] # "web"
    BY <2>1
  <2>2. CASE PostInstallNext \/ CreateInstanceNext \/ Finish \/ Die
    BY <2>1, <2>2
       DEF PostInstallNext, CreateInstanceNext, RunPostInstall, CreateSystemUserAndGroup,
           CreatePostgreSQLUser, LookupAccount, RunCreateInstance, CreatePostgreSQLDatabase,
           InitializeDatabase, CreateAdminUser, ParseWebServerConf, Finish, Die, confVars
  <2>3. CASE OpenFile
    BY <2>1, <2>3, ToolType DEF OpenFile, InstallIInv
  <2>4. CASE WriteFile
    <3>1. /\ tool.pc = "write" /\ files' = [files EXCEPT ![NextFile] = "whole"]
          /\ settings' = IF tool.instance = "" THEN settings
                         ELSE [settings EXCEPT ![tool.instance] = Substituted(NextFile[2])]
      BY <2>4 DEF WriteFile
    <3>2. p # NextFile
      BY <3>1 DEF InstallIInv, FilesInv, WritesWhatItOpened
    <3>3. NextFile \in Paths /\ NextFile[1] = tool.instance
      <4>1. tool.todo \in Seq(Paths) /\ tool.todo # <<>>
        BY <3>1, ToolType DEF InstallIInv, InstallTypes
      <4>2. NextFile \in Paths /\ NextFile = tool.todo[1] /\ 1 \in DOMAIN tool.todo
        BY <4>1, HeadAndTail DEF NextFile
      <4>. QED
        BY <4>2 DEF InstallIInv, FilesInv, WorkInOrder
    <3>4. files'[p] = "whole"
      BY <3>1, <3>2, ToolType DEF InstallIInv
    <3>5. ASSUME p[1] # "", p[2] = "web" PROVE settings'[p[1]].site = settings[p[1]].site
      <4>0. settings \in [Instances -> Settings] /\ p[1] \in Instances
        BY <3>5, PathParts DEF InstallIInv, InstallTypes, InstallTypeOK
      <4>1. CASE p[1] # tool.instance
        BY <3>1, <4>0, <4>1
      <4>2. CASE p[1] = tool.instance
        <5>1. NextFile[2] # "web"
          <6>1. p = <<p[1], p[2]>> /\ NextFile = <<NextFile[1], NextFile[2]>>
            BY <3>3, PathParts
          <6>. QED
            BY <3>2, <3>3, <3>5, <4>2, <6>1
        <5>2. Substituted(NextFile[2]).site = settings[tool.instance].site
          <6>1. settings[tool.instance] \in Settings
            BY <4>0, <4>2
          <6>2. CASE NextFile[2] = "supervisor"
            BY <6>1, <6>2, SubstitutedType
          <6>3. CASE NextFile[2] # "supervisor"
            BY <5>1, <6>3 DEF Substituted
          <6>. QED
            BY <6>2, <6>3
        <5>. QED
          BY <3>1, <3>5, <4>0, <4>2, <5>2
      <4>. QED
        BY <4>1, <4>2
    <3>. QED
      BY <3>4, <3>5
  <2>5. CASE AdministratorNext
    <3>1. ASSUME Pay("edit") PROVE installBudget'["edit"] # installBudget["edit"]
      BY <3>1, Paid DEF InstallEvents, InstallIInv, InstallTypes
    <3>. QED
      BY <2>1, <2>5, <3>1 DEF AdministratorNext, Edit, Spoil, confVars
  <2>. QED
    BY <2>2, <2>3, <2>4, <2>5 DEF InstallNext
<1>2. ([][Kept]_<<confVars, installVars>>) <=> WholeFilesKept
  BY DEF WholeFilesKept
<1>. QED
  BY <1>1, <1>2, InstallInvariant, PTL DEF HostSpec

-----------------------------------------------------------------------------
(* The supervisor: what is left alone runs on *)

Items == (Instances \X (STRING \cup {"grader", "webserver", "*"})) \cup {Web}

Statuses == {"DISABLED", "STOPPED", "RUNNING", "RESPAWNING", "SHUTDOWN", "DEAD", "FAILED"}

MonitorRecords ==
  [pc : {"none", "watch", "act", "send", "sleep", "failed"}, service : Items, phase : Phases,
   lived : {"no", "yes"}]

Calls ==
  [pc : {"idle", "serve", "launch", "await"}, op : {"start", "stop"}, target : Items,
   then : {"none", "start"}, queue : Seq(Items), signal : {"SIGTERM", "SIGKILL"}]

ConfigTypes ==
  /\ DOMAIN config \subseteq Instances
  /\ \A n \in DOMAIN config : config[n].services \in Seq(STRING)
  /\ known \in [Instances -> SUBSET Names]
  /\ touched \subseteq Instances

TableTypes ==
  /\ status \in [Services -> Statuses]
  /\ process \in [Services -> {0} \cup Monitors]
  /\ monitors \in [Monitors -> MonitorRecords]

\* A call that waits for a service has it still in its queue.
CallTypes ==
  /\ callers \in [Callers -> Calls]
  /\ \A c \in Callers : callers[c].pc \in {"launch", "await"} => callers[c].queue # <<>>

\* Start takes the name from the configuration of what it was called for.
KeepsItsName == \A n \in DOMAIN config \ touched : config[n].name = n

ProcessIsIts ==
  \A k \in Services :
    process[k] # 0 => /\ monitors[process[k]].pc # "none"
                      /\ monitors[process[k]].service = k

NoneHasEnded ==
  \A m \in Monitors :
    monitors[m].pc # "none" /\ monitors[m].service[1] \in Instances \ touched =>
      monitors[m].pc = "watch" /\ monitors[m].phase \in {"booting", "ready"}

\* Only what somebody gave a command for is stopped.
StopsTouched ==
  \A c \in Callers :
    /\ callers[c].op = "stop" =>
         \A i \in DOMAIN callers[c].queue : callers[c].queue[i][1] \in touched \cup {""}
    /\ callers[c].then = "start" => callers[c].target[1] \in touched \cup {""}

\* The instances that are started and stopped are known to the supervisor.
CallsConfigured ==
  \A c \in Callers :
    /\ \A i \in DOMAIN callers[c].queue : callers[c].queue[i][1] \in DOMAIN config \cup {""}
    /\ callers[c].then = "start" => callers[c].target[1] \in DOMAIN config \cup {""}

NothingBeforeBoot == supervisor = "down" => \A c \in Callers : callers[c] = Idle

CallsInv == CallTypes /\ StopsTouched /\ CallsConfigured
ConfigInv == ConfigTypes /\ KeepsItsName
ProcessesInv == TableTypes /\ ProcessIsIts /\ NoneHasEnded /\ UntouchedRunsOn

UntouchedInv == CallsInv /\ ConfigInv /\ ProcessesInv /\ NothingBeforeBoot

LEMMA ServiceItems ==
  /\ Web \in Items /\ Targets \subseteq Items /\ Services \subseteq Items
  /\ Names \subseteq STRING \cup {"grader"}
  /\ \A k \in Services \ {Web} : k[1] \in Instances
  /\ Web[1] = "" /\ Web[2] # "*" /\ "" \notin Instances
<1>1. MasterServices \subseteq STRING
  <2>1. ASSUME NEW list \in Seq(STRING), NEW i \in DOMAIN list PROVE list[i] \in STRING
    OBVIOUS
  <2>. QED
    BY <2>1, ConfigurationAssumption, Zenon DEF MasterServices, Elements
<1>2. Web \in Items /\ Web[1] = "" /\ Web[2] # "*"
  BY DEF Web, Items
<1>3. Targets \subseteq Items /\ Services \subseteq Items
  BY <1>1, <1>2 DEF Targets, Services, Names, Items
<1>4. \A k \in Services \ {Web} : k[1] \in Instances
  BY DEF Services
<1>5. "" \notin Instances
  BY ConfigurationAssumption
<1>. QED
  BY <1>1, <1>2, <1>3, <1>4, <1>5 DEF Names

LEMMA ItemParts ==
  ASSUME NEW k \in Items
  PROVE  /\ k[1] \in Instances \cup {""}
         /\ k # Web => k[1] \in Instances /\ k = <<k[1], k[2]>>
         /\ k[2] = "*" => k[1] \in Instances
<1>1. CASE k = Web
  BY <1>1, ServiceItems
<1>2. CASE k # Web
  <2>1. k \in Instances \X (STRING \cup {"grader", "webserver", "*"})
    BY <1>2 DEF Items
  <2>2. k = <<k[1], k[2]>> /\ k[1] \in Instances
    BY <2>1, PairParts
  <2>. QED
    BY <1>2, <2>2
<1>. QED
  BY <1>1, <1>2

\* No goroutine has anything new to do.
NothingAdded ==
  /\ CallTypes'
  /\ \A c \in Callers :
       /\ callers'[c].op = callers[c].op /\ callers'[c].then = callers[c].then
       /\ callers'[c].target = callers[c].target
       /\ \A i \in DOMAIN callers'[c].queue :
            \E j \in DOMAIN callers[c].queue : callers'[c].queue[i] = callers[c].queue[j]

LEMMA NothingAddedKeeps ==
  ASSUME CallsInv, NothingAdded, touched \subseteq touched', DOMAIN config' = DOMAIN config
  PROVE  CallsInv'
<1>1. StopsTouched'
  BY DEF CallsInv, StopsTouched, NothingAdded
<1>2. CallsConfigured'
  BY DEF CallsInv, CallsConfigured, NothingAdded
<1>. QED
  BY <1>1, <1>2 DEF CallsInv, NothingAdded

LEMMA CallersKept ==
  ASSUME CallsInv, callers' = callers, touched \subseteq touched', DOMAIN config' = DOMAIN config
  PROVE  CallsInv'
BY DEF CallsInv, CallTypes, StopsTouched, CallsConfigured

LEMMA CallerGoes ==
  ASSUME CallTypes, NEW c \in Callers, NEW pc \in {"idle", "serve", "launch", "await"},
         callers[c].queue # <<>>,
         callers' = [callers EXCEPT ![c].pc = pc]
  PROVE  NothingAdded
<1>1. /\ callers'[c] = [callers[c] EXCEPT !.pc = pc]
      /\ \A d \in Callers : d # c => callers'[d] = callers[d]
      /\ callers' = [d \in Callers |-> callers'[d]]
  BY DEF CallTypes
<1>2. callers[c] \in Calls
  BY DEF CallTypes
<1>3. /\ callers'[c] \in Calls
      /\ callers'[c].queue = callers[c].queue /\ callers'[c].op = callers[c].op
      /\ callers'[c].then = callers[c].then /\ callers'[c].target = callers[c].target
  BY <1>1, <1>2 DEF Calls
<1>4. callers' \in [Callers -> Calls]
  BY <1>1, <1>3 DEF CallTypes
<1>. QED
  BY <1>1, <1>3, <1>4 DEF NothingAdded, CallTypes

LEMMA CallerTimesOut ==
  ASSUME CallTypes, NEW c \in Callers,
         callers' = [callers EXCEPT ![c].pc = "serve", ![c].signal = "SIGKILL"]
  PROVE  NothingAdded
<1>1. /\ callers'[c] = [callers[c] EXCEPT !.pc = "serve", !.signal = "SIGKILL"]
      /\ \A d \in Callers : d # c => callers'[d] = callers[d]
      /\ callers' = [d \in Callers |-> callers'[d]]
  BY DEF CallTypes
<1>2. callers[c] \in Calls
  BY DEF CallTypes
<1>3. /\ callers'[c] \in Calls /\ callers'[c].pc = "serve"
      /\ callers'[c].queue = callers[c].queue /\ callers'[c].op = callers[c].op
      /\ callers'[c].then = callers[c].then /\ callers'[c].target = callers[c].target
  BY <1>1, <1>2 DEF Calls
<1>4. callers' \in [Callers -> Calls]
  BY <1>1, <1>3 DEF CallTypes
<1>. QED
  BY <1>1, <1>3, <1>4 DEF NothingAdded, CallTypes

LEMMA CallerSkips ==
  ASSUME CallTypes, NEW c \in Callers, callers[c].queue # <<>>, Skip(c)
  PROVE  NothingAdded
<1>1. callers[c] \in Calls /\ callers[c].queue \in Seq(Items)
  BY DEF CallTypes, Calls
<1>2. PICK rest : rest = Tail(callers[c].queue)
  OBVIOUS
<1>3. /\ rest \in Seq(Items)
      /\ \A i \in DOMAIN rest :
           \E j \in DOMAIN callers[c].queue : rest[i] = callers[c].queue[j]
  <2>1. \A i \in DOMAIN rest : i + 1 \in DOMAIN callers[c].queue
                             /\ rest[i] = callers[c].queue[i + 1]
    BY <1>1, <1>2, HeadAndTail
  <2>. QED
    BY <1>1, <1>2, <2>1, HeadAndTail
<1>4. callers' = [callers EXCEPT ![c].pc = "serve", ![c].queue = rest, ![c].signal = "SIGTERM"]
  BY <1>2 DEF Skip
<1>5. /\ callers'[c] = [callers[c] EXCEPT !.pc = "serve", !.queue = rest, !.signal = "SIGTERM"]
      /\ \A d \in Callers : d # c => callers'[d] = callers[d]
      /\ callers' = [d \in Callers |-> callers'[d]]
  BY <1>4 DEF CallTypes
<1>6. /\ callers'[c] \in Calls /\ callers'[c].pc = "serve"
      /\ callers'[c].queue = rest /\ callers'[c].op = callers[c].op
      /\ callers'[c].then = callers[c].then /\ callers'[c].target = callers[c].target
  BY <1>1, <1>3, <1>5 DEF Calls
<1>7. callers' \in [Callers -> Calls]
  BY <1>5, <1>6 DEF CallTypes
<1>8. \A d \in Callers : d # c =>
        \A i \in DOMAIN callers'[d].queue :
          \E j \in DOMAIN callers[d].queue : callers'[d].queue[i] = callers[d].queue[j]
  BY <1>5
<1>9. \A i \in DOMAIN callers'[c].queue :
        \E j \in DOMAIN callers[c].queue : callers'[c].queue[i] = callers[c].queue[j]
  BY <1>3, <1>6
<1>10. ASSUME NEW d \in Callers
       PROVE  /\ callers'[d].op = callers[d].op /\ callers'[d].then = callers[d].then
              /\ callers'[d].target = callers[d].target
              /\ \A i \in DOMAIN callers'[d].queue :
                   \E j \in DOMAIN callers[d].queue : callers'[d].queue[i] = callers[d].queue[j]
  <2>1. CASE d = c
    BY <1>6, <1>9, <2>1
  <2>2. CASE d # c
    BY <1>5, <1>8, <2>2
  <2>. QED
    BY <2>1, <2>2
<1>11. \A d \in Callers : callers'[d].pc \in {"launch", "await"} => callers'[d].queue # <<>>
  BY <1>5, <1>6 DEF CallTypes
<1>. QED
  BY <1>7, <1>10, <1>11, Zenon DEF NothingAdded, CallTypes

LEMMA IdleCall == Idle \in Calls /\ Idle.then = "none" /\ Idle.queue = <<>> /\ Idle.pc = "idle"
BY ServiceItems, NoSeq DEF Idle, Calls

LEMMA QueueHead ==
  ASSUME CallsInv, NEW c \in Callers, callers[c].queue # <<>>
  PROVE  /\ NextService(c) \in Items
         /\ NextService(c)[1] \in DOMAIN config \cup {""}
         /\ callers[c].op = "stop" => NextService(c)[1] \in touched \cup {""}
<1>1. callers[c].queue \in Seq(Items)
  BY DEF CallsInv, CallTypes, Calls
<1>2. /\ NextService(c) \in Items /\ NextService(c) = callers[c].queue[1]
      /\ 1 \in DOMAIN callers[c].queue
  BY <1>1, HeadAndTail DEF NextService
<1>. QED
  BY <1>2 DEF CallsInv, StopsTouched, CallsConfigured

\* A goroutine begins something, which if it is to stop is of touched instances.
LEMMA CallerBegins ==
  ASSUME CallsInv, NEW c \in Callers, NEW a \in Calls, callers' = [callers EXCEPT ![c] = a],
         touched \subseteq touched', DOMAIN config' = DOMAIN config,
         a.pc \in {"idle", "serve"},
         a.op = "stop" => \A i \in DOMAIN a.queue : a.queue[i][1] \in touched' \cup {""},
         \A i \in DOMAIN a.queue : a.queue[i][1] \in DOMAIN config \cup {""},
         a.then = "start" => /\ a.target[1] \in touched' \cup {""}
                             /\ a.target[1] \in DOMAIN config \cup {""}
  PROVE  CallsInv'
<1>1. /\ callers' \in [Callers -> Calls]
      /\ callers'[c] = a /\ \A d \in Callers : d # c => callers'[d] = callers[d]
  BY DEF CallsInv, CallTypes
<1>2. ASSUME NEW d \in Callers
      PROVE  /\ callers'[d].op = "stop" =>
                  \A i \in DOMAIN callers'[d].queue :
                    callers'[d].queue[i][1] \in touched' \cup {""}
             /\ callers'[d].then = "start" => callers'[d].target[1] \in touched' \cup {""}
  <2>1. CASE d = c
    BY <1>1, <2>1
  <2>2. CASE d # c
    BY <1>1, <2>2 DEF CallsInv, StopsTouched
  <2>. QED
    BY <2>1, <2>2
<1>3. ASSUME NEW d \in Callers
      PROVE  /\ callers'[d].pc \in {"launch", "await"} => callers'[d].queue # <<>>
             /\ \A i \in DOMAIN callers'[d].queue :
                  callers'[d].queue[i][1] \in DOMAIN config \cup {""}
             /\ callers'[d].then = "start" => callers'[d].target[1] \in DOMAIN config \cup {""}
  <2>1. CASE d = c
    BY <1>1, <2>1
  <2>2. CASE d # c
    BY <1>1, <2>2 DEF CallsInv, CallTypes, CallsConfigured
  <2>. QED
    BY <2>1, <2>2
<1>. QED
  BY <1>1, <1>2, <1>3 DEF CallsInv, CallTypes, StopsTouched, CallsConfigured

LEMMA OneItem ==
  ASSUME NEW S, NEW k \in S
  PROVE  /\ <<k>> \in Seq(S) /\ DOMAIN <<k>> = {1} /\ <<k>>[1] = k
         /\ <<>> \in Seq(S) /\ DOMAIN <<>> = {}
OBVIOUS

LEMMA NamedItems ==
  ASSUME NEW target \in Items
  PROVE  /\ Named(target[1], target[2]) \in Seq(Items)
         /\ \A i \in DOMAIN Named(target[1], target[2]) :
              Named(target[1], target[2])[i][1] \in {target[1], ""}
<1>1. target # Web => target = <<target[1], target[2]>>
  BY ItemParts
<1>2. Web[1] = ""
  BY ServiceItems
<1>3. Named(target[1], target[2]) \in {<<Web>>, <<target>>, <<>>}
  <2>1. CASE target[1] = ""
    BY <2>1 DEF Named
  <2>2. CASE target[1] # ""
    <3>1. target = <<target[1], target[2]>>
      BY <1>1, <1>2, <2>2
    <3>2. Named(target[1], target[2]) \in {<< <<target[1], target[2]>> >>, <<>>}
      BY <2>2, Zenon DEF Named
    <3>. QED
      BY <3>1, <3>2
  <2>. QED
    BY <2>1, <2>2
<1>4. ASSUME NEW list \in {<<Web>>, <<target>>, <<>>}
      PROVE  list \in Seq(Items) /\ \A i \in DOMAIN list : list[i][1] \in {target[1], ""}
  <2>1. CASE list = <<Web>>
    <3>1. Web \in Items /\ Web[1] = ""
      BY ServiceItems
    <3>2. list \in Seq(Items) /\ DOMAIN list = {1} /\ list[1] = Web
      BY <2>1, <3>1, OneItem
    <3>. QED
      BY <3>1, <3>2
  <2>2. CASE list = <<target>>
    <3>1. list \in Seq(Items) /\ DOMAIN list = {1} /\ list[1] = target
      BY <2>2, OneItem
    <3>. QED
      BY <3>1
  <2>3. CASE list = <<>>
    BY <2>3, OneItem
  <2>. QED
    BY <2>1, <2>2, <2>3
<1>. QED
  BY <1>3, <1>4, Zenon

LEMMA LoadedConfig ==
  ASSUME InstallTypes, NEW n \in Instances
  PROVE  /\ LoadSupervisorConfig(n).services \in Seq(STRING)
         /\ LoadInstanceConfig(n).services \in Seq(STRING)
         /\ LoadInstanceConfig(n).name = n
<1>1. settings[n] \in Settings /\ settings[n].services \in Seq(STRING)
  BY DEF InstallTypes, InstallTypeOK, Settings
<1>2. LoadSupervisorConfig(n).services \in Seq(STRING)
  BY <1>1, NoSeq DEF LoadSupervisorConfig
<1>. QED
  BY <1>2 DEF LoadInstanceConfig, LoadSupervisorConfig

LEMMA HandleKeeps ==
  ASSUME InstallTypes, UntouchedInv, NEW c \in Callers, NEW op \in {"start", "stop"},
         NEW target \in Items, NEW then \in {"none", "start"}, Handle(c, op, target, then),
         touched \subseteq touched', touched' \subseteq Instances, known' = known,
         target[1] \in touched' \cup {""}, target[1] \in DOMAIN config \cup {""}
  PROVE  ConfigInv' /\ CallsInv'
<1>1. ConfigInv' /\ DOMAIN config' = DOMAIN config
  <2>1. CASE config' = config
    BY <2>1 DEF UntouchedInv, ConfigInv, ConfigTypes, KeepsItsName
  <2>2. CASE config' # config
    <3>1. /\ target[1] # "" /\ target[1] \in touched'
          /\ config' = [config EXCEPT ![target[1]] = LoadSupervisorConfig(target[1])]
      BY <2>2 DEF Handle
    <3>2. LoadSupervisorConfig(target[1]).services \in Seq(STRING)
      BY <3>1, LoadedConfig
    <3>3. /\ DOMAIN config' = DOMAIN config
          /\ \A n \in DOMAIN config : n # target[1] => config'[n] = config[n]
          /\ target[1] \in DOMAIN config => config'[target[1]] = LoadSupervisorConfig(target[1])
      BY <3>1
    <3>4. \A n \in DOMAIN config : config'[n].services \in Seq(STRING)
      BY <3>2, <3>3 DEF UntouchedInv, ConfigInv, ConfigTypes
    <3>5. \A n \in DOMAIN config \ touched' : config'[n].name = n
      BY <3>1, <3>3 DEF UntouchedInv, ConfigInv, KeepsItsName
    <3>. QED
      BY <3>3, <3>4, <3>5 DEF UntouchedInv, ConfigInv, ConfigTypes, KeepsItsName
  <2>. QED
    BY <2>1, <2>2
<1>2. CASE callers' = [callers EXCEPT ![c] = Idle]
  <2>1. DOMAIN Idle.queue = {} /\ Idle.then = "none" /\ Idle \in Calls /\ Idle.pc = "idle"
    BY IdleCall, OneItem, ServiceItems
  <2>2. CallsInv'
    BY <1>1, <1>2, <2>1, CallerBegins DEF UntouchedInv
  <2>. QED
    BY <1>1, <2>2
<1>3. CASE callers' = [callers EXCEPT ![c] = Call(op, target, then, Named(target[1], target[2]))]
  <2>1. PICK list \in Seq(Items) :
          /\ list = Named(target[1], target[2])
          /\ \A i \in DOMAIN list : list[i][1] \in {target[1], ""}
    BY NamedItems
  <2>2. PICK a : a = Call(op, target, then, list)
    OBVIOUS
  <2>5. /\ a \in Calls /\ a.pc = "serve" /\ a.op = op /\ a.then = then
        /\ a.queue = list /\ a.target = target
    BY <2>2 DEF Call, Idle, Calls
  <2>3. callers' = [callers EXCEPT ![c] = a]
    BY <1>3, <2>1, <2>2
  <2>6. \A i \in DOMAIN a.queue : /\ a.queue[i][1] \in touched' \cup {""}
                                 /\ a.queue[i][1] \in DOMAIN config \cup {""}
    BY <2>1, <2>5
  <2>7. CallsInv
    BY DEF UntouchedInv
  <2>4. CallsInv'
    BY <1>1, <2>3, <2>5, <2>6, <2>7, CallerBegins
  <2>. QED
    BY <1>1, <2>4
<1>. QED
  BY <1>2, <1>3, Zenon DEF Handle

\* A step that leaves the processes alone.
LEMMA TableKept ==
  ASSUME ProcessesInv, UNCHANGED <<status, process, monitors>>, touched \subseteq touched'
  PROVE  ProcessesInv'
BY DEF ProcessesInv, TableTypes, ProcessIsIts, NoneHasEnded, UntouchedRunsOn

LEMMA ConfigKept ==
  ASSUME ConfigInv, UNCHANGED <<config, known>>, touched \subseteq touched', touched' \subseteq Instances
  PROVE  ConfigInv'
BY DEF ConfigInv, ConfigTypes, KeepsItsName

\* Processes go on, end or are told, but those of untouched instances do not end.
LEMMA ProcessesKept ==
  ASSUME ProcessesInv, touched \subseteq touched', process' = process,
         status' \in [Services -> Statuses],
         \A k \in Services \ {Web} : k[1] \notin touched' => status'[k] = status[k],
         monitors' \in [Monitors -> MonitorRecords],
         \A m \in Monitors :
           /\ monitors'[m].service = monitors[m].service
           /\ monitors'[m].pc = "none" <=> monitors[m].pc = "none"
           /\ monitors[m].pc # "none" /\ monitors[m].service[1] \in Instances \ touched' =>
                monitors'[m].pc = "watch" /\ monitors'[m].phase \in {"booting", "ready"}
  PROVE  ProcessesInv'
<1>1. TableTypes'
  BY DEF ProcessesInv, TableTypes
<1>2. ProcessIsIts'
  BY DEF ProcessesInv, TableTypes, ProcessIsIts
<1>3. NoneHasEnded'
  BY DEF ProcessesInv, NoneHasEnded
<1>4. UntouchedRunsOn'
  BY DEF ProcessesInv, UntouchedRunsOn
<1>. QED
  BY <1>1, <1>2, <1>3, <1>4 DEF ProcessesInv

\* A process of service k is begun, has ended or is forgotten.
LEMMA ProcessOfOne ==
  ASSUME ProcessesInv, NEW k, NEW m \in Monitors, NEW s \in Statuses, NEW p \in {0, m},
         NEW r \in MonitorRecords, touched' = touched,
         monitors[m].pc = "none" \/ monitors[m].service = k,
         r.pc # "none" => r.service = k, p = m => r.pc # "none",
         k[1] \in Instances \ touched => s = "RUNNING" /\ r.pc = "watch" /\ r.phase = "booting",
         status' = [status EXCEPT ![k] = s], process' = [process EXCEPT ![k] = p],
         monitors' = [monitors EXCEPT ![m] = r]
  PROVE  ProcessesInv'
<1>1. TableTypes'
  BY DEF ProcessesInv, TableTypes
<1>2. /\ monitors'[m] = r /\ \A q \in Monitors : q # m => monitors'[q] = monitors[q]
      /\ \A l \in Services : l # k => status'[l] = status[l] /\ process'[l] = process[l]
      /\ k \in Services => status'[k] = s /\ process'[k] = p
      /\ Monitors \subseteq Nat \ {0}
  BY SupervisorServiceAssumption DEF ProcessesInv, TableTypes, Monitors
<1>3. ProcessIsIts'
  <2>. SUFFICES ASSUME NEW l \in Services, process'[l] # 0
                PROVE  /\ monitors'[process'[l]].pc # "none"
                       /\ monitors'[process'[l]].service = l
    BY DEF ProcessIsIts
  <2>1. CASE l = k
    BY <1>2, <2>1
  <2>2. CASE l # k
    <3>1. process'[l] = process[l] /\ process[l] \in Monitors
      BY <1>2, <2>2 DEF ProcessesInv, TableTypes
    <3>2. monitors[process[l]].pc # "none" /\ monitors[process[l]].service = l
      BY <3>1 DEF ProcessesInv, ProcessIsIts
    <3>3. process[l] # m
      BY <2>2, <3>2
    <3>. QED
      BY <1>2, <3>1, <3>2, <3>3
  <2>. QED
    BY <2>1, <2>2
<1>4. NoneHasEnded'
  <2>. SUFFICES ASSUME NEW q \in Monitors, monitors'[q].pc # "none",
                       monitors'[q].service[1] \in Instances \ touched
                PROVE  monitors'[q].pc = "watch" /\ monitors'[q].phase \in {"booting", "ready"}
    BY DEF NoneHasEnded
  <2>1. CASE q = m
    BY <1>2, <2>1
  <2>2. CASE q # m
    BY <1>2, <2>2 DEF ProcessesInv, NoneHasEnded
  <2>. QED
    BY <2>1, <2>2
<1>5. UntouchedRunsOn'
  <2>. SUFFICES ASSUME NEW l \in Services \ {Web}, l[1] \notin touched
                PROVE  status'[l] \in {"DISABLED", "STOPPED", "RUNNING"}
    BY DEF UntouchedRunsOn
  <2>1. CASE l = k
    BY <1>2, <2>1, ServiceItems
  <2>2. CASE l # k
    BY <1>2, <2>2 DEF ProcessesInv, UntouchedRunsOn
  <2>. QED
    BY <2>1, <2>2
<1>. QED
  BY <1>1, <1>3, <1>4, <1>5 DEF ProcessesInv

-----------------------------------------------------------------------------
(* The supervisor: ends of processes *)

LEMMA PhaseChanges ==
  ASSUME TableTypes, NEW m \in Monitors, NEW phase \in Phases, Phase(m, phase)
  PROVE  /\ monitors' \in [Monitors -> MonitorRecords]
         /\ \A q \in Monitors : /\ monitors'[q].service = monitors[q].service
                                /\ monitors'[q].pc = monitors[q].pc
                                /\ q # m => monitors'[q] = monitors[q]
         /\ monitors'[m].phase = phase
<1>1. monitors[m] \in MonitorRecords /\ monitors \in [Monitors -> MonitorRecords]
  BY DEF TableTypes
<1>2. /\ monitors'[m] = [monitors[m] EXCEPT !.phase = phase]
      /\ \A q \in Monitors : q # m => monitors'[q] = monitors[q]
      /\ monitors' = [q \in Monitors |-> monitors'[q]]
  BY <1>1 DEF Phase
<1>3. /\ monitors'[m] \in MonitorRecords /\ monitors'[m].phase = phase
      /\ monitors'[m].service = monitors[m].service /\ monitors'[m].pc = monitors[m].pc
  BY <1>1, <1>2 DEF MonitorRecords
<1>4. monitors' \in [Monitors -> MonitorRecords]
  BY <1>1, <1>2, <1>3
<1>. QED
  BY <1>2, <1>3, <1>4

\* A process may change its phase if it is of a touched instance, or lives on.
LEMMA OnePhase ==
  ASSUME ProcessesInv, touched \subseteq touched', NEW m \in Monitors, NEW phase \in Phases,
         Phase(m, phase), process' = process, status' \in [Services -> Statuses],
         \A k \in Services \ {Web} : k[1] \notin touched' => status'[k] = status[k],
         \/ monitors[m].service[1] \notin Instances \ touched'
         \/ monitors[m].pc = "none" \/ phase \in {"booting", "ready"}
  PROVE  ProcessesInv'
<1>1. TableTypes
  BY DEF ProcessesInv
<1>2. /\ monitors' \in [Monitors -> MonitorRecords]
      /\ \A q \in Monitors : /\ monitors'[q].service = monitors[q].service
                             /\ monitors'[q].pc = monitors[q].pc
                             /\ q # m => monitors'[q] = monitors[q]
      /\ monitors'[m].phase = phase
  BY <1>1, PhaseChanges
<1>3. ASSUME NEW q \in Monitors, monitors[q].pc # "none",
             monitors[q].service[1] \in Instances \ touched'
      PROVE  monitors'[q].pc = "watch" /\ monitors'[q].phase \in {"booting", "ready"}
  <2>1. monitors[q].pc = "watch" /\ monitors[q].phase \in {"booting", "ready"}
    BY <1>3 DEF ProcessesInv, NoneHasEnded
  <2>. QED
    BY <1>2, <1>3, <2>1
<1>. QED
  BY <1>2, <1>3, ProcessesKept

LEMMA ServiceOf ==
  ASSUME ProcessesInv, NEW m \in Monitors
  PROVE  /\ monitors[m] \in MonitorRecords /\ monitors[m].service \in Items
         /\ monitors[m].service[1] \in Instances \cup {""} /\ "" \notin Instances
         /\ monitors[m].phase \notin {"booting", "ready"} =>
              \/ monitors[m].pc = "none" \/ monitors[m].service[1] \notin Instances \ touched
         /\ monitors[m].pc \in {"act", "send", "sleep"} =>
              monitors[m].service[1] \notin Instances \ touched
<1>1. monitors[m] \in MonitorRecords /\ monitors[m].service \in Items
  BY DEF ProcessesInv, TableTypes, MonitorRecords
<1>. QED
  BY <1>1, ItemParts, ServiceItems DEF ProcessesInv, NoneHasEnded

\* All but the processes and what was touched is as before.
OnlyProcesses ==
  /\ UNCHANGED <<supervisor, config, known, callers>>
  /\ touched \subseteq touched' /\ touched' \subseteq Instances

LEMMA OnlyProcessesKeep ==
  ASSUME UntouchedInv, OnlyProcesses, ProcessesInv'
  PROVE  UntouchedInv'
<1>1. CallsInv'
  BY CallersKept DEF UntouchedInv, OnlyProcesses
<1>2. ConfigInv'
  BY ConfigKept DEF UntouchedInv, OnlyProcesses
<1>3. NothingBeforeBoot'
  BY DEF UntouchedInv, OnlyProcesses, NothingBeforeBoot
<1>. QED
  BY <1>1, <1>2, <1>3 DEF UntouchedInv

LEMMA ProcessEnds ==
  ASSUME UntouchedInv, NEW m \in Monitors,
         Crash(m) \/ BootFails(m) \/ AskedEnds(m) \/ (monitors[m].service = Web /\ Fail(m))
  PROVE  UntouchedInv'
<1>1. /\ ProcessesInv /\ touched \subseteq Instances
      /\ status \in [Services -> Statuses] /\ "gone" \in Phases
  BY DEF UntouchedInv, ConfigInv, ConfigTypes, ProcessesInv, TableTypes, Phases
<1>2. OnlyProcesses /\ UNCHANGED <<status, process>>
  BY <1>1 DEF Crash, BootFails, AskedEnds, Fail, table, connections, supHistory, OnlyProcesses
<1>3. Phase(m, "gone")
  BY DEF Crash, BootFails, AskedEnds, Fail
<1>4. \/ monitors[m].service[1] \notin Instances \ touched' \/ monitors[m].pc = "none"
  <2>1. CASE Crash(m) \/ BootFails(m)
    BY <2>1 DEF Crash, BootFails
  <2>2. CASE AskedEnds(m)
    BY <1>1, <2>2, ServiceOf DEF AskedEnds, supHistory
  <2>3. CASE monitors[m].service = Web /\ Fail(m)
    BY <2>3, ServiceItems
  <2>. QED
    BY <2>1, <2>2, <2>3
<1>5. ProcessesInv'
  BY <1>1, <1>2, <1>3, <1>4, OnePhase DEF OnlyProcesses
<1>. QED
  BY <1>2, <1>5, OnlyProcessesKeep

LEMMA ProcessIsReady ==
  ASSUME UntouchedInv, NEW m \in Monitors, ProcessReady(m)
  PROVE  UntouchedInv'
<1>1. /\ ProcessesInv /\ touched \subseteq Instances /\ status \in [Services -> Statuses]
      /\ monitors \in [Monitors -> MonitorRecords] /\ monitors[m] \in MonitorRecords
  BY DEF UntouchedInv, ConfigInv, ConfigTypes, ProcessesInv, TableTypes
<1>2. OnlyProcesses /\ UNCHANGED <<status, process, touched>>
  BY <1>1 DEF ProcessReady, table, connections, supHistory, OnlyProcesses
<1>3. /\ monitors'[m] = [monitors[m] EXCEPT !.phase = "ready", !.lived = "yes"]
      /\ \A q \in Monitors : q # m => monitors'[q] = monitors[q]
      /\ monitors' = [q \in Monitors |-> monitors'[q]]
  BY <1>1 DEF ProcessReady
<1>4. /\ monitors'[m] \in MonitorRecords /\ monitors'[m].phase = "ready"
      /\ monitors'[m].service = monitors[m].service /\ monitors'[m].pc = monitors[m].pc
  BY <1>1, <1>3 DEF MonitorRecords, Phases
<1>5. monitors' \in [Monitors -> MonitorRecords]
  BY <1>1, <1>3, <1>4
<1>6. ASSUME NEW q \in Monitors, monitors[q].pc # "none",
             monitors[q].service[1] \in Instances \ touched'
      PROVE  monitors'[q].pc = "watch" /\ monitors'[q].phase \in {"booting", "ready"}
  <2>1. monitors[q].pc = "watch" /\ monitors[q].phase \in {"booting", "ready"}
    BY <1>2, <1>6 DEF UntouchedInv, ProcessesInv, NoneHasEnded
  <2>. QED
    BY <1>3, <1>4, <2>1
<1>7. \A q \in Monitors : /\ monitors'[q].service = monitors[q].service
                          /\ monitors'[q].pc = monitors[q].pc
  BY <1>3, <1>4
<1>8. ProcessesInv'
  BY <1>1, <1>2, <1>5, <1>6, <1>7, ProcessesKept
<1>. QED
  BY <1>2, <1>8, OnlyProcessesKeep

LEMMA SIGHUPIsHandled ==
  ASSUME UntouchedInv, NEW m \in Monitors, HandleSIGHUP(m)
  PROVE  UntouchedInv'
<1>1. touched \subseteq Instances /\ ProcessesInv
  BY DEF UntouchedInv, ConfigInv, ConfigTypes
<1>2. OnlyProcesses /\ UNCHANGED <<status, process, monitors>>
  BY <1>1 DEF HandleSIGHUP, table, supHistory, OnlyProcesses
<1>. QED
  BY <1>1, <1>2, TableKept, OnlyProcessesKeep DEF OnlyProcesses

\* A SIGHUP kills no process of an untouched instance: none of its own ends,
\* and no other has its name.
LEMMA ExitIsNotified ==
  ASSUME UntouchedInv, NEW m \in Monitors, NotifyExit(m)
  PROVE  UntouchedInv'
<1>1. PICK k : k = monitors[m].service
  OBVIOUS
<1>2. PICK killed : killed = Killed(Notified(k))
  OBVIOUS
<1>3. PICK pc \in {"send", "act"} : pc = IF status[k] = "SHUTDOWN" THEN "send" ELSE "act"
  OBVIOUS
<1>4. /\ ProcessesInv /\ touched \subseteq Instances /\ status \in [Services -> Statuses]
      /\ monitors \in [Monitors -> MonitorRecords]
      /\ process \in [Services -> {0} \cup Monitors]
  BY DEF UntouchedInv, ConfigInv, ConfigTypes, ProcessesInv, TableTypes
<1>5. OnlyProcesses /\ UNCHANGED <<status, process, touched>>
  BY <1>4 DEF NotifyExit, table, supHistory, OnlyProcesses
<1>6. monitors' = [q \in Monitors |->
        IF q = m THEN [monitors[q] EXCEPT !.pc = pc]
        ELSE IF q \in killed THEN [monitors[q] EXCEPT !.phase = "gone"] ELSE monitors[q]]
  BY <1>1, <1>2, <1>3, Zenon DEF NotifyExit
<1>7. k[1] \notin Instances \ touched /\ monitors[m].pc = "watch"
  BY <1>1, <1>4, ServiceOf DEF NotifyExit
<1>8. \A q \in killed \cap Monitors : q # m => monitors[q].service[1] \notin Instances \ touched
  <2>. SUFFICES ASSUME NEW q \in killed, q \in Monitors
                PROVE  monitors[q].service[1] \notin Instances \ touched
    OBVIOUS
  <2>1. PICK l \in Notified(k) : process[l] = q /\ q # 0
    BY <1>2 DEF Killed, Recipients
  <2>2. CASE l = Web
    <3>1. Web \in Services
      BY DEF Services
    <3>2. monitors[q].service = Web
      BY <2>1, <2>2, <3>1 DEF UntouchedInv, ProcessesInv, ProcessIsIts
    <3>. QED
      BY <3>2, ServiceItems
  <2>3. CASE l # Web
    <3>1. l \in Services /\ l[1] \in DOMAIN config /\ config[l[1]].name = k[1]
      BY <2>1, <2>3 DEF Notified
    <3>2. monitors[q].service = l
      BY <2>1, <3>1 DEF UntouchedInv, ProcessesInv, ProcessIsIts
    <3>3. l[1] \in Instances /\ l[1] \notin touched => l[1] = k[1]
      BY <3>1 DEF UntouchedInv, ConfigInv, KeepsItsName
    <3>. QED
      BY <1>7, <3>2, <3>3
  <2>. QED
    BY <2>2, <2>3
<1>9. ASSUME NEW q \in Monitors
      PROVE  /\ monitors'[q] \in MonitorRecords
             /\ monitors'[q].service = monitors[q].service
             /\ monitors'[q].pc = "none" <=> monitors[q].pc = "none"
             /\ monitors[q].service[1] \in Instances \ touched => monitors'[q] = monitors[q]
  <2>1. monitors[q] \in MonitorRecords
    BY <1>4
  <2>2. CASE q = m
    <3>1. monitors'[q] = [monitors[q] EXCEPT !.pc = pc]
      BY <1>6, <2>2
    <3>. QED
      BY <1>1, <1>7, <2>1, <2>2, <3>1 DEF MonitorRecords
  <2>3. CASE q # m /\ q \in killed
    <3>1. monitors'[q] = [monitors[q] EXCEPT !.phase = "gone"]
      BY <1>6, <2>3
    <3>. QED
      BY <1>8, <2>1, <2>3, <3>1 DEF MonitorRecords, Phases
  <2>4. CASE q # m /\ q \notin killed
    BY <1>6, <2>1, <2>4
  <2>. QED
    BY <2>2, <2>3, <2>4
<1>10. monitors' \in [Monitors -> MonitorRecords]
  BY <1>6, <1>9
<1>11. ASSUME NEW q \in Monitors, monitors[q].pc # "none",
              monitors[q].service[1] \in Instances \ touched'
       PROVE  monitors'[q].pc = "watch" /\ monitors'[q].phase \in {"booting", "ready"}
  BY <1>4, <1>5, <1>9, <1>11 DEF ProcessesInv, NoneHasEnded
<1>12. ProcessesInv'
  BY <1>4, <1>5, <1>9, <1>10, <1>11, ProcessesKept
<1>. QED
  BY <1>5, <1>12, OnlyProcessesKeep

LEMMA NewMonitors ==
  /\ NoMonitor \in MonitorRecords /\ NoMonitor.pc = "none"
  /\ \A k \in Items : /\ Launched(k) \in MonitorRecords /\ Launched(k).pc = "watch"
                      /\ Launched(k).service = k /\ Launched(k).phase = "booting"
BY ServiceItems DEF NoMonitor, Launched, MonitorRecords, Phases

LEMMA MonitorActs ==
  ASSUME UntouchedInv, NEW m \in Monitors, Act(m)
  PROVE  UntouchedInv'
<1>1. PICK k : k = monitors[m].service
  OBVIOUS
<1>2. /\ ProcessesInv /\ touched \subseteq Instances /\ monitors[m] \in MonitorRecords
      /\ monitors \in [Monitors -> MonitorRecords]
  BY DEF UntouchedInv, ConfigInv, ConfigTypes, ProcessesInv, TableTypes
<1>3. OnlyProcesses /\ touched' = touched
  BY <1>2 DEF Act, supHistory, OnlyProcesses
<1>4. k[1] \notin Instances \ touched
  BY <1>1, <1>2, ServiceOf DEF Act
<1>5. process' = [process EXCEPT ![k] = 0]
  BY <1>1 DEF Act
<1>6. CASE /\ status' = [status EXCEPT ![k] = "RESPAWNING"]
           /\ monitors' = [monitors EXCEPT ![m].pc = "sleep"]
  <2>1. PICK r : r = [monitors[m] EXCEPT !.pc = "sleep"]
    OBVIOUS
  <2>2. r \in MonitorRecords /\ r.pc = "sleep" /\ r.service = k
    BY <1>1, <1>2, <2>1 DEF MonitorRecords
  <2>3. monitors' = [monitors EXCEPT ![m] = r]
    BY <1>2, <1>6, <2>1
  <2>4. "RESPAWNING" \in Statuses
    BY DEF Statuses
  <2>5. ProcessesInv'
    BY <1>1, <1>2, <1>3, <1>4, <1>5, <1>6, <2>2, <2>3, <2>4, ProcessOfOne
  <2>. QED
    BY <1>3, <2>5, OnlyProcessesKeep
<1>7. CASE /\ status' = [status EXCEPT ![k] = "DEAD"]
           /\ monitors' = [monitors EXCEPT ![m] = NoMonitor]
  <2>4. "DEAD" \in Statuses /\ 0 # m
    BY SupervisorServiceAssumption DEF Statuses, Monitors
  <2>5. ProcessesInv'
    BY <1>1, <1>2, <1>3, <1>4, <1>5, <1>7, <2>4, NewMonitors, ProcessOfOne
  <2>. QED
    BY <1>3, <2>5, OnlyProcessesKeep
<1>. QED
  BY <1>1, <1>6, <1>7, Zenon DEF Act

LEMMA MonitorWakes ==
  ASSUME UntouchedInv, NEW m \in Monitors, Wake(m)
  PROVE  UntouchedInv'
<1>1. PICK k : k = monitors[m].service
  OBVIOUS
<1>2. /\ ProcessesInv /\ touched \subseteq Instances /\ monitors[m] \in MonitorRecords
      /\ k \in Items
  BY <1>1, ServiceOf DEF UntouchedInv, ConfigInv, ConfigTypes, ProcessesInv, TableTypes
<1>3. OnlyProcesses /\ touched' = touched
  BY <1>2 DEF Wake, OnlyProcesses
<1>4. k[1] \notin Instances \ touched
  BY <1>1, <1>2, ServiceOf DEF Wake
<1>5. /\ process' = [process EXCEPT ![k] = m] /\ status' = [status EXCEPT ![k] = "RUNNING"]
      /\ monitors' = [monitors EXCEPT ![m] = Launched(k)]
  BY <1>1 DEF Wake, StartProcess
<1>6. "RUNNING" \in Statuses
  BY DEF Statuses
<1>7. ProcessesInv'
  BY <1>1, <1>2, <1>3, <1>4, <1>5, <1>6, NewMonitors, ProcessOfOne
<1>. QED
  BY <1>3, <1>7, OnlyProcessesKeep

\* A process of service k could not be started.
LEMMA ProcessFails ==
  ASSUME ProcessesInv, NEW k, touched \subseteq touched', touched' \subseteq Instances,
         k[1] \notin Instances \ touched',
         status' = [status EXCEPT ![k] = "FAILED"], process' = [process EXCEPT ![k] = 0],
         monitors' \in [Monitors -> MonitorRecords],
         \A m \in Monitors :
           /\ monitors'[m].service = monitors[m].service
           /\ monitors'[m].pc = "none" <=> monitors[m].pc = "none"
           /\ monitors'[m] = monitors[m] \/ monitors[m].service = k
  PROVE  ProcessesInv'
<1>1. TableTypes'
  BY DEF ProcessesInv, TableTypes, Statuses
<1>2. /\ \A l \in Services : l # k => status'[l] = status[l] /\ process'[l] = process[l]
      /\ k \in Services => process'[k] = 0
  BY DEF ProcessesInv, TableTypes
<1>3. ProcessIsIts'
  <2>. SUFFICES ASSUME NEW l \in Services, process'[l] # 0
                PROVE  /\ monitors'[process'[l]].pc # "none"
                       /\ monitors'[process'[l]].service = l
    BY DEF ProcessIsIts
  <2>1. process'[l] = process[l] /\ process[l] \in Monitors
    BY <1>2 DEF ProcessesInv, TableTypes
  <2>. QED
    BY <2>1 DEF ProcessesInv, ProcessIsIts
<1>4. NoneHasEnded'
  BY DEF ProcessesInv, NoneHasEnded
<1>5. UntouchedRunsOn'
  <2>. SUFFICES ASSUME NEW l \in Services \ {Web}, l[1] \notin touched'
                PROVE  status'[l] \in {"DISABLED", "STOPPED", "RUNNING"}
    BY DEF UntouchedRunsOn
  <2>1. l # k
    BY ServiceItems
  <2>. QED
    BY <1>2, <2>1 DEF ProcessesInv, UntouchedRunsOn
<1>. QED
  BY <1>1, <1>3, <1>4, <1>5 DEF ProcessesInv

LEMMA NotStartedTouches ==
  ASSUME UntouchedInv, NEW k \in Items, NotStarted(k)
  PROVE  /\ touched \subseteq touched' /\ touched' \subseteq Instances
         /\ k[1] \notin Instances \ touched'
         /\ status' = [status EXCEPT ![k] = "FAILED"] /\ process' = [process EXCEPT ![k] = 0]
BY DEF NotStarted, UntouchedInv, ConfigInv, ConfigTypes

LEMMA MonitorFails ==
  ASSUME UntouchedInv, NEW m \in Monitors, WakeFails(m)
  PROVE  UntouchedInv'
<1>1. PICK k : k = monitors[m].service
  OBVIOUS
<1>2. /\ ProcessesInv /\ monitors[m] \in MonitorRecords /\ k \in Items
      /\ monitors \in [Monitors -> MonitorRecords]
  BY <1>1, ServiceOf DEF UntouchedInv, ProcessesInv, TableTypes
<1>3. NotStarted(k) /\ monitors[m].pc = "sleep" /\ UNCHANGED <<config, known, callers>>
  BY <1>1 DEF WakeFails
<1>4. PICK r : r = [monitors[m] EXCEPT !.pc = "failed"]
  OBVIOUS
<1>5. r \in MonitorRecords /\ r.pc = "failed" /\ r.service = k
  BY <1>1, <1>2, <1>4 DEF MonitorRecords
<1>6. monitors' = [monitors EXCEPT ![m] = r]
  BY <1>2, <1>4 DEF WakeFails
<1>7. ProcessesInv'
  <2>1. /\ monitors'[m] = r /\ \A q \in Monitors : q # m => monitors'[q] = monitors[q]
        /\ monitors' \in [Monitors -> MonitorRecords]
    BY <1>2, <1>5, <1>6
  <2>2. ASSUME NEW q \in Monitors
        PROVE  /\ monitors'[q].service = monitors[q].service
               /\ monitors'[q].pc = "none" <=> monitors[q].pc = "none"
               /\ monitors'[q] = monitors[q] \/ monitors[q].service = k
    BY <1>1, <1>3, <1>5, <2>1
  <2>. QED
    BY <1>2, <1>3, <2>1, <2>2, NotStartedTouches, ProcessFails
<1>8. CallsInv' /\ ConfigInv'
  BY <1>2, <1>3, NotStartedTouches, CallersKept, ConfigKept DEF UntouchedInv
<1>. QED
  BY <1>7, <1>8 DEF UntouchedInv, NothingBeforeBoot, WakeFails

-----------------------------------------------------------------------------
(* The supervisor: calls *)

LEMMA ListIsFinite ==
  ASSUME NEW S, NEW list \in Seq(S)
  PROVE  IsFiniteSet(Elements(list))
<1>1. Len(list) \in Nat /\ DOMAIN list = 1..Len(list)
  OBVIOUS
<1>2. IsFiniteSet(DOMAIN list)
  BY <1>1, FS_Interval
<1>3. list = [i \in DOMAIN list |-> list[i]]
  OBVIOUS
<1>4. list \in [DOMAIN list -> Elements(list)]
  BY <1>3 DEF Elements
<1>5. \A e \in Elements(list) : \E i \in DOMAIN list : list[i] = e
  BY DEF Elements
<1>6. list \in Surjection(DOMAIN list, Elements(list))
  BY <1>4, <1>5 DEF Surjection
<1>. QED
  BY <1>2, <1>6, FS_Surjection

\* The names of services are finitely many.
LEMMA NamesAreFinite == IsFiniteSet(Names)
<1>1. IsFiniteSet(MasterServices)
  BY ConfigurationAssumption, ListIsFinite, Zenon DEF MasterServices
<1>. QED
  BY <1>1, FS_AddElement DEF Names

LEMMA OrderIsSeq ==
  ASSUME NEW S, IsFiniteSet(S), NEW order \in Orders(S)
  PROVE  order \in Seq(S)
<1>1. Cardinality(S) \in Nat
  BY FS_CardinalityType
<1>2. order \in [1..Cardinality(S) -> S]
  BY DEF Orders
<1>. QED
  BY <1>1, <1>2, SeqDef

LEMMA SeqOfItems ==
  ASSUME NEW n \in Instances, NEW S, S \subseteq STRING \cup {"grader"}, NEW list \in Seq(S)
  PROVE  /\ InInstance(n, list) \in Seq(Items)
         /\ \A i \in DOMAIN InInstance(n, list) : InInstance(n, list)[i][1] = n
<1>1. Len(list) \in Nat /\ DOMAIN list = 1..Len(list) /\ \A i \in DOMAIN list : list[i] \in S
  OBVIOUS
<1>2. \A i \in DOMAIN list : <<n, list[i]>> \in Items
  BY <1>1 DEF Items
<1>3. InInstance(n, list) \in [1..Len(list) -> Items]
  BY <1>1, <1>2 DEF InInstance
<1>4. InInstance(n, list) \in Seq(Items)
  BY <1>1, <1>3, SeqDef
<1>5. \A i \in DOMAIN InInstance(n, list) : InInstance(n, list)[i][1] = n
  BY DEF InInstance
<1>. QED
  BY <1>4, <1>5

LEMMA AllOfItems ==
  ASSUME NEW S, S \subseteq Instances, NEW list \in Seq(S)
  PROVE  /\ AllOf(list) \in Seq(Items)
         /\ \A i \in DOMAIN AllOf(list) : AllOf(list)[i][1] \in S
<1>1. Len(list) \in Nat /\ DOMAIN list = 1..Len(list) /\ \A i \in DOMAIN list : list[i] \in S
  OBVIOUS
<1>2. \A i \in DOMAIN list : <<list[i], "*">> \in Items
  BY <1>1 DEF Items
<1>3. AllOf(list) \in [1..Len(list) -> Items]
  BY <1>1, <1>2 DEF AllOf
<1>4. AllOf(list) \in Seq(Items)
  BY <1>1, <1>3, SeqDef
<1>5. \A i \in DOMAIN AllOf(list) : AllOf(list)[i][1] \in S
  BY <1>1 DEF AllOf
<1>. QED
  BY <1>4, <1>5

\* Two lists, of each of which something holds of the first parts.
LEMMA Concatenated ==
  ASSUME NEW S, NEW T, NEW s \in Seq(S), NEW t \in Seq(S),
         \A i \in DOMAIN s : s[i][1] \in T, \A i \in DOMAIN t : t[i][1] \in T
  PROVE  s \o t \in Seq(S) /\ \A i \in DOMAIN (s \o t) : (s \o t)[i][1] \in T
<1>1. s \o t \in Seq(S)
  OBVIOUS
<1>2. ASSUME NEW i \in DOMAIN (s \o t)
      PROVE  \/ i \in DOMAIN s /\ (s \o t)[i] = s[i]
             \/ i - Len(s) \in DOMAIN t /\ (s \o t)[i] = t[i - Len(s)]
  OBVIOUS
<1>. QED
  BY <1>1, <1>2

LEMMA OneService ==
  ASSUME NEW k \in Items, NEW T, k[1] \in T
  PROVE  <<k>> \in Seq(Items) /\ \A i \in DOMAIN <<k>> : <<k>>[i][1] \in T
<1>1. <<k>> \in Seq(Items) /\ DOMAIN <<k>> = {1} /\ <<k>>[1] = k
  BY OneItem
<1>. QED
  BY <1>1

LEMMA NoService == \A T : <<>> \in Seq(Items) /\ \A i \in DOMAIN <<>> : <<>>[i][1] \in T
OBVIOUS

\* What the star of an instance stands for is of that instance.
LEMMA ListOfInstance ==
  ASSUME ConfigTypes, NEW n \in DOMAIN config,
         NEW list \in ServicesToStart(n) \cup ServicesToStop(n)
  PROVE  list \in Seq(Items) /\ \A i \in DOMAIN list : list[i][1] \in {n}
<1>1. n \in Instances /\ config[n].services \in Seq(STRING) /\ known[n] \subseteq Names
  BY DEF ConfigTypes
<1>2. PICK g : g = <<n, "grader">>
  OBVIOUS
<1>3. g \in Items /\ g[1] \in {n}
  BY <1>1, <1>2 DEF Items
<1>4. <<g>> \in Seq(Items) /\ \A i \in DOMAIN <<g>> : <<g>>[i][1] \in {n}
  BY <1>3, OneService
<1>5. CASE list \in ServicesToStart(n)
  <2>1. PICK s : s = InInstance(n, config[n].services)
    OBVIOUS
  <2>2. s \in Seq(Items) /\ \A i \in DOMAIN s : s[i][1] \in {n}
    BY <1>1, <2>1, SeqOfItems
  <2>3. list \in {s \o <<g>>, s \o <<>>}
    BY <1>2, <1>5, <2>1, Zenon DEF ServicesToStart
  <2>4. s \o <<g>> \in Seq(Items) /\ \A i \in DOMAIN (s \o <<g>>) : (s \o <<g>>)[i][1] \in {n}
    BY <1>4, <2>2, Concatenated
  <2>5. s \o <<>> = s
    BY <2>2
  <2>. QED
    BY <2>2, <2>3, <2>4, <2>5, Zenon
<1>6. CASE list \in ServicesToStop(n)
  <2>1. PICK order \in Orders(known[n] \ {"grader"}) : list = <<g>> \o InInstance(n, order)
    BY <1>2, <1>6, Zenon DEF ServicesToStop
  <2>2. IsFiniteSet(known[n] \ {"grader"})
    BY <1>1, NamesAreFinite, FS_Subset
  <2>3. order \in Seq(known[n] \ {"grader"})
    BY <2>1, <2>2, OrderIsSeq
  <2>4. known[n] \ {"grader"} \subseteq STRING \cup {"grader"}
    BY <1>1, ServiceItems
  <2>5. PICK s : s = InInstance(n, order)
    OBVIOUS
  <2>6. s \in Seq(Items) /\ \A i \in DOMAIN s : s[i][1] \in {n}
    BY <1>1, <2>3, <2>4, <2>5, SeqOfItems
  <2>. QED
    BY <1>4, <2>1, <2>5, <2>6, Concatenated
<1>. QED
  BY <1>5, <1>6

\* All but the calls is as before.
OnlyCalls ==
  /\ UNCHANGED <<config, known, status, process, monitors, touched>>
  /\ supervisor' # "down"

LEMMA OnlyCallsKeep ==
  ASSUME UntouchedInv, OnlyCalls, CallsInv'
  PROVE  UntouchedInv'
<1>1. touched \subseteq Instances
  BY DEF UntouchedInv, ConfigInv, ConfigTypes
<1>2. ConfigInv'
  BY <1>1, ConfigKept DEF UntouchedInv, OnlyCalls
<1>3. ProcessesInv'
  BY TableKept DEF UntouchedInv, OnlyCalls
<1>4. NothingBeforeBoot'
  BY DEF OnlyCalls, NothingBeforeBoot
<1>. QED
  BY <1>2, <1>3, <1>4 DEF UntouchedInv

LEMMA CallGoesOn ==
  ASSUME UntouchedInv, OnlyCalls, NothingAdded
  PROVE  UntouchedInv'
<1>1. CallsInv'
  BY NothingAddedKeeps DEF UntouchedInv, OnlyCalls
<1>. QED
  BY <1>1, OnlyCallsKeep

LEMMA StarExpands ==
  ASSUME UntouchedInv, NEW c \in Callers, Expand(c)
  PROVE  UntouchedInv'
<1>1. PICK op \in {"start", "stop"} :
        /\ Serving(c, op) /\ NextService(c)[2] = "*"
        /\ \E list \in (IF op = "start" THEN ServicesToStart(NextService(c)[1])
                        ELSE ServicesToStop(NextService(c)[1])) :
             callers' = [callers EXCEPT ![c].queue = list \o Tail(@)]
  BY DEF Expand
<1>2. PICK n : n = NextService(c)[1]
  OBVIOUS
<1>3. PICK list \in ServicesToStart(n) \cup ServicesToStop(n) :
        callers' = [callers EXCEPT ![c].queue = list \o Tail(@)]
  BY <1>1, <1>2
<1>4. /\ callers[c].pc = "serve" /\ callers[c].queue # <<>> /\ callers[c].op = op /\ Running
      /\ CallsInv /\ ConfigTypes /\ callers[c] \in Calls /\ callers[c].queue \in Seq(Items)
      /\ callers \in [Callers -> Calls]
  BY <1>1 DEF Serving, UntouchedInv, CallsInv, CallTypes, Calls, ConfigInv
<1>5. n \in DOMAIN config /\ (op = "stop" => n \in touched)
  BY <1>1, <1>2, <1>4, QueueHead, ItemParts, ServiceItems
<1>6. list \in Seq(Items) /\ \A i \in DOMAIN list : list[i][1] \in {n}
  BY <1>3, <1>4, <1>5, ListOfInstance
<1>7. PICK rest : rest = Tail(callers[c].queue)
  OBVIOUS
<1>8. rest \in Seq(Items) /\ \A i \in DOMAIN rest : i + 1 \in DOMAIN callers[c].queue
                                                 /\ rest[i] = callers[c].queue[i + 1]
  BY <1>4, <1>7, HeadAndTail
<1>9. \A i \in DOMAIN rest : /\ rest[i][1] \in DOMAIN config \cup {""}
                             /\ op = "stop" => rest[i][1] \in touched \cup {""}
  BY <1>4, <1>8 DEF CallsInv, StopsTouched, CallsConfigured
<1>10. PICK queue : queue = list \o rest
  OBVIOUS
<1>11. queue \in Seq(Items) /\ \A i \in DOMAIN queue : queue[i][1] \in DOMAIN config \cup {""}
  <2>1. \A i \in DOMAIN list : list[i][1] \in DOMAIN config \cup {""}
    BY <1>5, <1>6
  <2>. QED
    BY <1>6, <1>8, <1>9, <1>10, <2>1, Concatenated
<1>12. op = "stop" => \A i \in DOMAIN queue : queue[i][1] \in touched \cup {""}
  <2>1. op = "stop" => \A i \in DOMAIN list : list[i][1] \in touched \cup {""}
    BY <1>5, <1>6
  <2>. QED
    BY <1>6, <1>8, <1>9, <1>10, <2>1, Concatenated
<1>13. PICK a : a = [callers[c] EXCEPT !.queue = queue]
  OBVIOUS
<1>14. callers' = [callers EXCEPT ![c] = a]
  BY <1>3, <1>4, <1>7, <1>10, <1>13
<1>15. /\ a \in Calls /\ a.pc = "serve" /\ a.op = op /\ a.queue = queue
       /\ a.then = callers[c].then /\ a.target = callers[c].target
  BY <1>4, <1>11, <1>13 DEF Calls
<1>16. OnlyCalls
  BY <1>4 DEF Expand, table, supHistory, OnlyCalls, Running
<1>17. a.then = "start" => /\ a.target[1] \in touched' \cup {""}
                           /\ a.target[1] \in DOMAIN config \cup {""}
  BY <1>4, <1>15, <1>16 DEF CallsInv, StopsTouched, CallsConfigured, OnlyCalls
<1>18. CallsInv'
  BY <1>4, <1>11, <1>12, <1>14, <1>15, <1>16, <1>17, CallerBegins DEF OnlyCalls
<1>. QED
  BY <1>16, <1>18, OnlyCallsKeep

LEMMA CallGoes ==
  ASSUME UntouchedInv, NEW c \in Callers, StartPanics(c) \/ StartNext(c) \/ Timeout(c)
  PROVE  UntouchedInv'
<1>1. CallsInv /\ CallTypes /\ callers \in [Callers -> Calls]
  BY DEF UntouchedInv, CallsInv, CallTypes
<1>2. CASE StartPanics(c)
  <2>1. OnlyCalls /\ callers' = callers
    BY <1>2 DEF StartPanics, table, supHistory, OnlyCalls
  <2>2. CallsInv'
    BY <1>1, <2>1, CallersKept DEF OnlyCalls
  <2>. QED
    BY <2>1, <2>2, OnlyCallsKeep
<1>3. CASE StartNext(c)
  <2>1. OnlyCalls /\ callers[c].queue # <<>>
    BY <1>3 DEF StartNext, Serving, table, supHistory, OnlyCalls, Running
  <2>2. Skip(c) \/ callers' = [callers EXCEPT ![c].pc = "launch"]
    BY <1>3 DEF StartNext
  <2>3. NothingAdded
    BY <1>1, <2>1, <2>2, CallerSkips, CallerGoes
  <2>. QED
    BY <2>1, <2>3, CallGoesOn
<1>4. CASE Timeout(c)
  <2>1. OnlyCalls
    BY <1>4 DEF Timeout, table, supHistory, OnlyCalls, Running
  <2>2. NothingAdded
    BY <1>1, <1>4, CallerTimesOut DEF Timeout
  <2>. QED
    BY <2>1, <2>2, CallGoesOn
<1>. QED
  BY <1>2, <1>3, <1>4

LEMMA CallReturns ==
  ASSUME InstallTypes, UntouchedInv, NEW c \in Callers, Return(c)
  PROVE  UntouchedInv'
<1>1. /\ CallsInv /\ callers[c] \in Calls /\ callers[c].target \in Items
      /\ touched \subseteq Instances /\ DOMAIN config \subseteq Instances
  BY DEF UntouchedInv, CallsInv, CallTypes, Calls, ConfigInv, ConfigTypes
<1>2. /\ UNCHANGED <<known, status, process, monitors, touched>> /\ supervisor' # "down"
      /\ IF callers[c].then = "start" THEN Handle(c, "start", callers[c].target, "none")
         ELSE callers' = [callers EXCEPT ![c] = Idle] /\ UNCHANGED config
  BY DEF Return, supHistory, Running
<1>3. ProcessesInv' /\ NothingBeforeBoot'
  BY <1>2, TableKept DEF UntouchedInv, NothingBeforeBoot
<1>4. CASE callers[c].then = "start"
  <2>1. callers[c].target[1] \in touched \cup {""}
    BY <1>1, <1>4 DEF CallsInv, StopsTouched
  <2>2. callers[c].target[1] \in DOMAIN config \cup {""}
    BY <1>1, <1>4 DEF CallsInv, CallsConfigured
  <2>3. Handle(c, "start", callers[c].target, "none")
    BY <1>2, <1>4
  <2>4. ConfigInv' /\ CallsInv'
    BY <1>1, <1>2, <2>1, <2>2, <2>3, HandleKeeps
  <2>. QED
    BY <1>3, <2>4 DEF UntouchedInv
<1>5. CASE callers[c].then # "start"
  <2>1. callers' = [callers EXCEPT ![c] = Idle] /\ config' = config
    BY <1>2, <1>5
  <2>2. DOMAIN Idle.queue = {} /\ Idle.then = "none" /\ Idle \in Calls /\ Idle.pc = "idle"
    BY IdleCall, OneItem, ServiceItems
  <2>3. CallsInv'
    BY <1>1, <1>2, <2>1, <2>2, CallerBegins
  <2>4. ConfigInv'
    BY <1>1, <1>2, <2>1, ConfigKept DEF UntouchedInv
  <2>. QED
    BY <1>3, <2>3, <2>4 DEF UntouchedInv
<1>. QED
  BY <1>4, <1>5

LEMMA ToolCalls ==
  ASSUME InstallTypes, UntouchedInv, NEW c \in Clients, NEW command \in Commands,
         Control(c, command[1], command[2])
  PROVE  UntouchedInv'
<1>1. PICK target : target = command[2]
  OBVIOUS
<1>2. command[1] \in {"start", "stop", "restart"} /\ target \in Targets /\ target \in Items
  <2>1. command \in {"start", "stop", "restart"} \X Targets
    BY CommandsAssumption
  <2>. QED
    BY <1>1, <2>1, PairParts, ServiceItems
<1>3. c \in Callers /\ touched \subseteq Instances
  BY DEF Callers, UntouchedInv, ConfigInv, ConfigTypes
<1>4. /\ UNCHANGED <<known, status, process, monitors>> /\ supervisor' # "down"
      /\ target = Web \/ target[1] \in DOMAIN config
      /\ touched' = touched \cup ({target[1]} \cap Instances)
  BY <1>1 DEF Control, Running
<1>5. /\ touched \subseteq touched' /\ touched' \subseteq Instances
      /\ target[1] \in touched' \cup {""} /\ target[1] \in DOMAIN config \cup {""}
  BY <1>2, <1>3, <1>4, ItemParts, ServiceItems
<1>6. ProcessesInv' /\ NothingBeforeBoot'
  BY <1>4, <1>5, TableKept DEF UntouchedInv, NothingBeforeBoot
<1>7. \E op \in {"start", "stop"}, then \in {"none", "start"} : Handle(c, op, target, then)
  BY <1>1, <1>2, Zenon DEF Control
<1>8. ConfigInv' /\ CallsInv'
  BY <1>2, <1>3, <1>4, <1>5, <1>7, HandleKeeps
<1>. QED
  BY <1>6, <1>8 DEF UntouchedInv

\* When the supervisor is told to end, nothing counts as left alone.
LEMMA MainStops ==
  ASSUME UntouchedInv, Terminate
  PROVE  UntouchedInv'
<1>1. /\ CallsInv /\ DOMAIN config \subseteq Instances /\ touched \subseteq Instances
      /\ "main" \in Callers
  BY DEF UntouchedInv, ConfigInv, ConfigTypes, Callers
<1>2. PICK order \in Orders(DOMAIN config) :
        callers' = [callers EXCEPT !["main"] = Call("stop", Web, "none", <<Web>> \o AllOf(order))]
  BY Zenon DEF Terminate
<1>3. /\ UNCHANGED <<config, known, status, process, monitors>> /\ supervisor' # "down"
      /\ touched' = Instances
  BY DEF Terminate, table
<1>4. order \in Seq(DOMAIN config)
  <2>1. IsFiniteSet(DOMAIN config)
    BY <1>1, ConfigurationAssumption, FS_Subset
  <2>. QED
    BY <1>2, <2>1, OrderIsSeq
<1>5. PICK w : w = Web
  OBVIOUS
<1>6. PICK queue : queue = <<w>> \o AllOf(order)
  OBVIOUS
<1>7. queue \in Seq(Items) /\ \A i \in DOMAIN queue : queue[i][1] \in DOMAIN config \cup {""}
  <2>1. /\ AllOf(order) \in Seq(Items)
        /\ \A i \in DOMAIN AllOf(order) : AllOf(order)[i][1] \in DOMAIN config \cup {""}
    BY <1>1, <1>4, AllOfItems
  <2>2. w \in Items /\ w[1] \in DOMAIN config \cup {""}
    BY <1>5, ServiceItems
  <2>3. <<w>> \in Seq(Items) /\ \A i \in DOMAIN <<w>> : <<w>>[i][1] \in DOMAIN config \cup {""}
    BY <2>2, OneService
  <2>. QED
    BY <1>6, <2>1, <2>3, Concatenated
<1>8. PICK a : a = Call("stop", w, "none", queue)
  OBVIOUS
<1>9. w \in Items
  BY <1>5, ServiceItems
<1>10. a \in Calls /\ a.pc = "serve" /\ a.op = "stop" /\ a.then = "none" /\ a.queue = queue
  BY <1>7, <1>8, <1>9 DEF Call, Idle, Calls
<1>11. callers' = [callers EXCEPT !["main"] = a]
  BY <1>2, <1>5, <1>6, <1>8, Zenon
<1>12. \A i \in DOMAIN a.queue : /\ a.queue[i][1] \in touched' \cup {""}
                                 /\ a.queue[i][1] \in DOMAIN config \cup {""}
  BY <1>1, <1>3, <1>7, <1>10
<1>13. DOMAIN config' = DOMAIN config /\ touched \subseteq touched' /\ touched' \subseteq Instances
  BY <1>1, <1>3
<1>14. CallsInv'
  BY <1>1, <1>10, <1>11, <1>12, <1>13, CallerBegins
<1>15. ConfigInv' /\ ProcessesInv' /\ NothingBeforeBoot'
  BY <1>3, <1>13, ConfigKept, TableKept DEF UntouchedInv, NothingBeforeBoot
<1>. QED
  BY <1>14, <1>15 DEF UntouchedInv

LEMMA SupervisorBoots ==
  ASSUME InstallTypes, UntouchedInv, Boot
  PROVE  UntouchedInv'
<1>1. /\ supervisor = "down" /\ supervisor' # "down"
      /\ config' = [n \in ConfiguredInstances |-> LoadInstanceConfig(n)]
      /\ known' = [n \in Instances |-> IF n \in ConfiguredInstances THEN CreateServices(n) ELSE {}]
      /\ status' = [k \in Services |-> InitialStatus(k)]
      /\ UNCHANGED <<process, monitors, touched>>
  BY DEF Boot
<1>2. DOMAIN config' = ConfiguredInstances /\ ConfiguredInstances \subseteq Instances
  BY <1>1 DEF ConfiguredInstances
<1>3. /\ touched \subseteq Instances /\ \A c \in Callers : callers[c] = Idle
      /\ CallsInv /\ ProcessesInv /\ callers \in [Callers -> Calls]
  BY <1>1 DEF UntouchedInv, ConfigInv, ConfigTypes, NothingBeforeBoot, CallsInv, CallTypes
<1>4. ConfigInv'
  <2>1. \A n \in DOMAIN config' : /\ config'[n].services \in Seq(STRING)
                                  /\ config'[n].name = n
    BY <1>1, <1>2, LoadedConfig
  <2>2. \A n \in Instances : CreateServices(n) \subseteq Names
    BY DEF CreateServices, Names
  <2>3. known' \in [Instances -> SUBSET Names]
    BY <1>1, <2>2
  <2>. QED
    BY <1>1, <1>2, <1>3, <2>1, <2>3 DEF ConfigInv, ConfigTypes, KeepsItsName
<1>5. ProcessesInv'
  <2>1. \A k \in Services : status'[k] \in {"STOPPED", "DISABLED"}
    BY <1>1 DEF InitialStatus
  <2>2. status' \in [Services -> Statuses]
    BY <1>1, <2>1 DEF Statuses
  <2>3. TableTypes' /\ UntouchedRunsOn'
    BY <1>1, <1>3, <2>1, <2>2 DEF TableTypes, UntouchedRunsOn, ProcessesInv
  <2>4. ProcessIsIts' /\ NoneHasEnded'
    BY <1>1, <1>3 DEF ProcessesInv, ProcessIsIts, NoneHasEnded
  <2>. QED
    BY <2>3, <2>4 DEF ProcessesInv
<1>6. CallsInv'
  <2>1. PICK order \in Orders(ConfiguredInstances) :
          callers' = [callers EXCEPT
                        !["autostart"] = Call("start", Web, "none",
                          AllOf(order) \o (IF autostart = "true" THEN <<Web>> ELSE <<>>))]
    BY Zenon DEF Boot
  <2>2. PICK w : w = Web
    OBVIOUS
  <2>3. PICK last : last = IF autostart = "true" THEN <<w>> ELSE <<>>
    OBVIOUS
  <2>4. w \in Items /\ w[1] \in ConfiguredInstances \cup {""}
    BY <2>2, ServiceItems
  <2>5. /\ last \in Seq(Items)
        /\ \A i \in DOMAIN last : last[i][1] \in ConfiguredInstances \cup {""}
    <3>1. /\ <<w>> \in Seq(Items)
          /\ \A i \in DOMAIN <<w>> : <<w>>[i][1] \in ConfiguredInstances \cup {""}
      BY <2>4, OneService
    <3>2. CASE last = <<w>>
      BY <3>1, <3>2
    <3>3. CASE last = <<>>
      BY <3>3, NoService
    <3>. QED
      BY <2>3, <3>2, <3>3
  <2>6. /\ AllOf(order) \in Seq(Items)
        /\ \A i \in DOMAIN AllOf(order) : AllOf(order)[i][1] \in ConfiguredInstances \cup {""}
    <3>1. IsFiniteSet(ConfiguredInstances)
      BY <1>2, ConfigurationAssumption, FS_Subset
    <3>2. order \in Seq(ConfiguredInstances)
      BY <2>1, <3>1, OrderIsSeq
    <3>. QED
      BY <1>2, <3>2, AllOfItems
  <2>7. PICK queue : queue = AllOf(order) \o last
    OBVIOUS
  <2>8. /\ queue \in Seq(Items)
        /\ \A i \in DOMAIN queue : queue[i][1] \in ConfiguredInstances \cup {""}
    BY <2>5, <2>6, <2>7, Concatenated
  <2>9. PICK a : a = Call("start", w, "none", queue)
    OBVIOUS
  <2>10. a \in Calls /\ a.pc = "serve" /\ a.op = "start" /\ a.then = "none" /\ a.queue = queue
    BY <2>4, <2>8, <2>9 DEF Call, Idle, Calls
  <2>11. callers' = [callers EXCEPT !["autostart"] = a]
    BY <2>1, <2>2, <2>3, <2>7, <2>9, Zenon
  <2>12. /\ Idle.then = "none" /\ Idle.pc = "idle" /\ DOMAIN Idle.queue = {}
    BY IdleCall, OneItem, ServiceItems
  <2>13. /\ callers' \in [Callers -> Calls]
         /\ \A c \in Callers : callers'[c] = a \/ callers'[c] = Idle
    BY <1>3, <2>10, <2>11
  <2>14. \A c \in Callers :
           /\ callers'[c].pc \notin {"launch", "await"} /\ callers'[c].then = "none"
           /\ callers'[c].op = "stop" => DOMAIN callers'[c].queue = {}
           /\ \A i \in DOMAIN callers'[c].queue :
                callers'[c].queue[i][1] \in ConfiguredInstances \cup {""}
    BY <2>8, <2>10, <2>12, <2>13
  <2>15. CallTypes' /\ StopsTouched' /\ CallsConfigured'
    BY <1>2, <2>13, <2>14 DEF CallTypes, StopsTouched, CallsConfigured
  <2>. QED
    BY <2>15 DEF CallsInv
<1>. QED
  BY <1>1, <1>4, <1>5, <1>6 DEF UntouchedInv, NothingBeforeBoot

LEMMA ServiceLaunched ==
  ASSUME UntouchedInv, NEW c \in Callers, LaunchService(c)
  PROVE  UntouchedInv'
<1>1. PICK k : k = NextService(c)
  OBVIOUS
<1>2. /\ CallsInv /\ CallTypes /\ ProcessesInv /\ touched \subseteq Instances
      /\ callers[c].queue # <<>> /\ k \in Items
  BY <1>1, QueueHead DEF UntouchedInv, CallsInv, CallTypes, ConfigInv, ConfigTypes, LaunchService
<1>3. /\ UNCHANGED <<supervisor, config, known, touched>> /\ Running /\ Skip(c)
  BY DEF LaunchService
<1>4. NothingAdded
  BY <1>2, <1>3, CallerSkips
<1>5. CallsInv' /\ ConfigInv' /\ NothingBeforeBoot'
  BY <1>2, <1>3, <1>4, NothingAddedKeeps, ConfigKept
     DEF UntouchedInv, NothingBeforeBoot, Running
<1>6. ProcessesInv'
  <2>1. CASE status[k] = "RUNNING"
    <3>1. UNCHANGED <<monitors, status, process>>
      BY <1>1, <2>1 DEF LaunchService
    <3>. QED
      BY <1>2, <1>3, <3>1, TableKept
  <2>2. CASE status[k] # "RUNNING"
    <3>1. PICK m \in Monitors : monitors[m].pc = "none" /\ StartProcess(m, k)
      BY <1>1, <2>2, Zenon DEF LaunchService
    <3>2. /\ process' = [process EXCEPT ![k] = m] /\ status' = [status EXCEPT ![k] = "RUNNING"]
          /\ monitors' = [monitors EXCEPT ![m] = Launched(k)]
      BY <3>1 DEF StartProcess
    <3>3. "RUNNING" \in Statuses
      BY DEF Statuses
    <3>. QED
      BY <1>2, <1>3, <3>1, <3>2, <3>3, NewMonitors, ProcessOfOne
  <2>. QED
    BY <2>1, <2>2
<1>. QED
  BY <1>5, <1>6 DEF UntouchedInv

LEMMA ServiceNotLaunched ==
  ASSUME UntouchedInv, NEW c \in Callers, LaunchFails(c)
  PROVE  UntouchedInv'
<1>1. PICK k : k = NextService(c)
  OBVIOUS
<1>2. /\ CallsInv /\ CallTypes /\ ProcessesInv /\ TableTypes
      /\ callers[c].queue # <<>> /\ k \in Items
  BY <1>1, QueueHead DEF UntouchedInv, CallsInv, CallTypes, ProcessesInv, LaunchFails
<1>3. /\ UNCHANGED <<supervisor, config, known, monitors>> /\ Running /\ Skip(c) /\ NotStarted(k)
  BY <1>1 DEF LaunchFails
<1>4. NothingAdded
  BY <1>2, <1>3, CallerSkips
<1>5. CallsInv' /\ ConfigInv' /\ NothingBeforeBoot'
  BY <1>2, <1>3, <1>4, NotStartedTouches, NothingAddedKeeps, ConfigKept
     DEF UntouchedInv, NothingBeforeBoot, Running
<1>6. ProcessesInv'
  BY <1>2, <1>3, NotStartedTouches, ProcessFails DEF TableTypes
<1>. QED
  BY <1>5, <1>6 DEF UntouchedInv

LEMMA ServiceHandedOver ==
  ASSUME UntouchedInv, NEW c \in Callers, NEW m \in Monitors, HandOver(c, m)
  PROVE  UntouchedInv'
<1>1. PICK k : k = NextService(c)
  OBVIOUS
<1>2. /\ CallsInv /\ CallTypes /\ ProcessesInv /\ touched \subseteq Instances
      /\ callers[c].queue # <<>>
  BY DEF UntouchedInv, CallsInv, CallTypes, ConfigInv, ConfigTypes, HandOver
<1>3. /\ UNCHANGED <<supervisor, config, known, touched>> /\ Running /\ Skip(c)
      /\ status' = [status EXCEPT ![k] = "STOPPED"] /\ process' = [process EXCEPT ![k] = 0]
      /\ monitors' = [monitors EXCEPT ![m] = NoMonitor]
      /\ monitors[m].service = k /\ monitors[m].pc = "send"
  BY <1>1 DEF HandOver, supHistory
<1>4. NothingAdded
  BY <1>2, <1>3, CallerSkips
<1>5. CallsInv' /\ ConfigInv' /\ NothingBeforeBoot'
  BY <1>2, <1>3, <1>4, NothingAddedKeeps, ConfigKept
     DEF UntouchedInv, NothingBeforeBoot, Running
<1>6. k[1] \notin Instances \ touched
  BY <1>2, <1>3, ServiceOf
<1>7. "STOPPED" \in Statuses /\ 0 # m
  BY SupervisorServiceAssumption DEF Statuses, Monitors
<1>8. ProcessesInv'
  BY <1>2, <1>3, <1>6, <1>7, NewMonitors, ProcessOfOne
<1>. QED
  BY <1>5, <1>8 DEF UntouchedInv

LEMMA CallerWaits ==
  ASSUME CallTypes, NEW c \in Callers, callers[c].queue # <<>>, StopNext(c)
  PROVE  NothingAdded
<1>1. Skip(c) \/ callers' = [callers EXCEPT ![c].pc = "await"]
  BY Zenon DEF StopNext
<1>. QED
  BY <1>1, CallerSkips, CallerGoes

\* A service is stopped only for a command about it.
LEMMA ServiceStopped ==
  ASSUME UntouchedInv, NEW c \in Callers, StopNext(c)
  PROVE  UntouchedInv'
<1>1. PICK k : k = NextService(c)
  OBVIOUS
<1>2. /\ CallsInv /\ CallTypes /\ ProcessesInv /\ TableTypes /\ touched \subseteq Instances
      /\ callers[c].queue # <<>> /\ callers[c].op = "stop"
  BY DEF UntouchedInv, CallsInv, CallTypes, ConfigInv, ConfigTypes, ProcessesInv, StopNext, Serving
<1>3. /\ UNCHANGED <<supervisor, config, known, process, touched>> /\ Running
  BY DEF StopNext, Serving, supHistory
<1>4. NothingAdded
  BY <1>2, CallerWaits
<1>5. CallsInv' /\ ConfigInv' /\ NothingBeforeBoot'
  BY <1>2, <1>3, <1>4, NothingAddedKeeps, ConfigKept
     DEF UntouchedInv, NothingBeforeBoot, Running
<1>6. k[1] \in touched \cup {""} /\ "" \notin Instances
  BY <1>1, <1>2, QueueHead, ServiceItems
<1>7. CASE UNCHANGED <<status, monitors>>
  BY <1>2, <1>3, <1>5, <1>7, TableKept DEF UntouchedInv
<1>8. CASE ~UNCHANGED <<status, monitors>>
  <2>2. PICK phase : phase = IF callers[c].signal = "SIGKILL" THEN "gone" ELSE Terminated(process[k])
    OBVIOUS
  <2>3. /\ Exists(k) /\ process[k] # 0 /\ status' = [status EXCEPT ![k] = "SHUTDOWN"]
        /\ Phase(process[k], phase)
    BY <1>1, <1>8, <2>2, Zenon DEF StopNext
  <2>4. k \in Services
    BY <2>3 DEF Exists, Services
  <2>5. /\ process[k] \in Monitors /\ monitors[process[k]].service = k
        /\ monitors[process[k]].phase \in Phases
    BY <1>2, <2>3, <2>4 DEF ProcessesInv, TableTypes, ProcessIsIts, MonitorRecords
  <2>6. phase \in Phases
    BY <2>2, <2>5 DEF Terminated, Phases
  <2>7. /\ status' \in [Services -> Statuses]
        /\ \A l \in Services \ {Web} : l[1] \notin touched' => status'[l] = status[l]
    BY <1>2, <1>3, <1>6, <2>3, ServiceItems DEF TableTypes, Statuses
  <2>8. ProcessesInv'
    BY <1>2, <1>3, <1>6, <2>3, <2>5, <2>6, <2>7, OnePhase
  <2>. QED
    BY <1>5, <2>8 DEF UntouchedInv
<1>. QED
  BY <1>7, <1>8

LEMMA CallerStep ==
  ASSUME InstallTypes, UntouchedInv, NEW c \in Callers, CallerNext(c)
  PROVE  UntouchedInv'
BY CallReturns, StarExpands, CallGoes, ServiceLaunched, ServiceNotLaunched, ServiceStopped,
   ServiceHandedOver, Zenon DEF CallerNext

LEMMA MonitorStep ==
  ASSUME UntouchedInv, NEW m \in Monitors, MonitorNext(m)
  PROVE  UntouchedInv'
BY ExitIsNotified, MonitorActs, MonitorWakes, MonitorFails, Zenon DEF MonitorNext

LEMMA EventStep ==
  ASSUME InstallTypes, UntouchedInv, SupEvent
  PROVE  UntouchedInv'
BY SupervisorBoots, MainStops, ToolCalls, ProcessEnds, Zenon DEF SupEvent

LEMMA NothingStep ==
  ASSUME UntouchedInv, UNCHANGED supVars
  PROVE  UntouchedInv'
<1>1. /\ UNCHANGED <<supervisor, config, known, status, process, monitors, callers, touched>>
      /\ touched \subseteq Instances
  BY DEF supVars, table, supHistory, UntouchedInv, ConfigInv, ConfigTypes
<1>2. OnlyProcesses /\ ProcessesInv'
  BY <1>1, TableKept DEF OnlyProcesses, UntouchedInv
<1>. QED
  BY <1>2, OnlyProcessesKeep

LEMMA UntouchedStep ==
  ASSUME InstallTypes, UntouchedInv, [HostNext]_hostVars
  PROVE  UntouchedInv'
<1>1. CASE InstallStep \/ WebStep \/ UNCHANGED hostVars
  <2>1. UNCHANGED supVars
    BY <1>1 DEF InstallStep, WebStep, hostVars
  <2>. QED
    BY <2>1, NothingStep
<1>2. CASE SupervisorStep
  <2>1. CASE SupEvent \/ \E c \in Callers : CallerNext(c)
    BY <2>1, EventStep, CallerStep, Zenon
  <2>2. ASSUME NEW m \in Monitors,
               MonitorNext(m) \/ BootFails(m) \/ AskedEnds(m) \/ WebReady(m) \/ WebHandlesSIGHUP(m)
        PROVE  UntouchedInv'
    <3>1. WebReady(m) => ProcessReady(m)
      BY DEF WebReady
    <3>2. WebHandlesSIGHUP(m) => HandleSIGHUP(m)
      BY DEF WebHandlesSIGHUP
    <3>. QED
      BY <2>2, <3>1, <3>2, MonitorStep, ProcessEnds, ProcessIsReady, SIGHUPIsHandled, Zenon
  <2>. QED
    BY <1>2, <2>1, <2>2, Zenon DEF SupervisorStep
<1>3. CASE WebPanics
  <2>1. \/ UNCHANGED supVars \/ \E m \in Monitors : monitors[m].service = Web /\ Fail(m)
    BY <1>3, Zenon DEF WebPanics
  <2>. QED
    BY <2>1, NothingStep, ProcessEnds, Zenon
<1>. QED
  BY <1>1, <1>2, <1>3, Zenon DEF HostNext

LEMMA UntouchedInit == HostInit => UntouchedInv
<1>. SUFFICES ASSUME SupInit PROVE UntouchedInv
  BY Zenon DEF HostInit
<1>1. ConfigInv
  <2>1. DOMAIN config = {}
    BY DEF SupInit
  <2>. QED
    BY <2>1 DEF SupInit, ConfigInv, ConfigTypes, KeepsItsName
<1>2. CallsInv /\ NothingBeforeBoot
  <2>1. /\ Idle \in Calls /\ Idle.then = "none" /\ Idle.pc = "idle" /\ DOMAIN Idle.queue = {}
    BY IdleCall, OneItem, ServiceItems
  <2>. QED
    BY <2>1 DEF SupInit, CallsInv, CallTypes, StopsTouched, CallsConfigured, NothingBeforeBoot
<1>3. ProcessesInv
  <2>1. NoMonitor \in MonitorRecords /\ NoMonitor.pc = "none"
    BY NewMonitors
  <2>. QED
    BY <2>1 DEF SupInit, ProcessesInv, TableTypes, Statuses, ProcessIsIts, NoneHasEnded,
                UntouchedRunsOn
<1>. QED
  BY <1>1, <1>2, <1>3 DEF UntouchedInv

\* The services of an instance run on whatever is started, stopped or edited
\* elsewhere, whichever processes of others end, and whatever the web server
\* does: Start and Stop keep to their instance, and SIGHUP to the name of it.
THEOREM UntouchedServicesRunOn == HostSpec => []UntouchedRunsOn
<1>1. InstallIInv => InstallTypes
  BY DEF InstallIInv
<1>2. InstallIInv /\ UntouchedInv /\ [HostNext]_hostVars => UntouchedInv'
  BY <1>1, UntouchedStep
<1>3. UntouchedInv => UntouchedRunsOn
  BY DEF UntouchedInv, ProcessesInv
<1>. QED
  BY <1>2, <1>3, UntouchedInit, InstallInvariant, PTL DEF HostSpec

-----------------------------------------------------------------------------
(* The supervisor: who is told of an end, and what is left at the end *)

Alive(m) == monitors[m].phase \in {"ready", "asked"}

\* Only services that there are have a process, and only a process that a
\* monitor waits for lives.
ServicesExist ==
  /\ \A m \in Monitors : Exists(monitors[m].service)
  /\ \A n \in Instances \ DOMAIN config : known[n] = {}

LivesWatched == \A m \in Monitors : monitors[m].phase # "gone" => monitors[m].pc = "watch"

RestingHasNone ==
  \A k \in Services : status[k] \notin {"RUNNING", "SHUTDOWN"} => process[k] = 0

\* What has got a SIGTERM is not recorded as running.
AskedIsStopped ==
  \A m \in Monitors :
    monitors[m].phase = "asked" =>
      /\ monitors[m].service # Web
      /\ process[monitors[m].service] # m \/ status[monitors[m].service] # "RUNNING"

PendingLives == pending \subseteq {m \in Monitors : Alive(m)}

StaleLives ==
  \A c \in stale :
    /\ c \in Monitors \X Services /\ Alive(c[1])
    /\ monitors[c[1]].service[1] = c[2][1] /\ c[2][2] # "grader"

ChainInv ==
  /\ ServicesExist /\ LivesWatched /\ RestingHasNone /\ AskedIsStopped
  /\ PendingLives /\ StaleLives

\* The SIGHUP for the end of service k is on its way to process p, or is not
\* due to it.
Told(p, k) ==
  \/ p \in pending \/ Unnoticed(k)
  \/ process[monitors[p].service] # p \/ status[monitors[p].service] # "RUNNING" \/ ~Running
  \/ /\ monitors[p].service # Web
     /\ \/ config[monitors[p].service[1]].name # monitors[p].service[1]
        \/ monitors[p].service[1] = k[2]

StaleTold == \A c \in stale : Told(c[1], c[2])

CallsExist == \A c \in Callers : callers[c].pc = "launch" => Exists(NextService(c))

\* What main has still to stop.
Waits(k) ==
  \E i \in DOMAIN callers["main"].queue :
    callers["main"].queue[i] = k \/ callers["main"].queue[i] = <<k[1], "*">>

\* No process of a service is left that should not be.
Done(k) ==
  process[k] # 0 /\ monitors[process[k]].phase # "gone" =>
    process[k] \in late \/ status[k] = "SHUTDOWN"

MainInv ==
  /\ supervisor \in {"down", "up"} => callers["main"] = Idle
  /\ callers["main"].op = "stop" /\ callers["main"].then = "none"
  /\ callers["main"].pc # "launch"
  /\ supervisor = "closing" => \A k \in Services : Done(k) \/ Waits(k)
  /\ supervisor = "ended" => \A k \in Services : Done(k)

NothingRunsYet ==
  supervisor = "down" =>
    /\ stale = {} /\ \A m \in Monitors : monitors[m] = NoMonitor
    /\ \A k \in Services : process[k] = 0

SupTypes ==
  /\ supervisor \in {"down", "up", "closing", "ended", "panicked"}
  /\ tries \in [Services -> Nat]

LeftInv == SupTypes /\ ChainInv /\ StaleTold /\ CallsExist /\ MainInv /\ NothingRunsYet

ServesWeb(m) == monitors[m].service = Web /\ monitors[m].phase = "ready"

\* The web server runs if one of its processes is ready, and is connected to
\* endpoints of its sites only.
ServerRuns ==
  /\ server = "down" <=> ~PortTaken
  /\ \A m, q \in Monitors : ServesWeb(m) /\ ServesWeb(q) => m = q

ConnectedToSites ==
  \A e \in Endpoints :
    client[e] # 0 => /\ server # "down" /\ e[1] \in DOMAIN sites
                     /\ e \in sites[e[1]].endpoints

AskedOfSites ==
  \A r \in Requests :
    requests[r].pc \in {"read", "dial", "reread"} =>
      /\ requests[r].site \in DOMAIN sites
      /\ EndpointOf(r) \in sites[requests[r].site].endpoints

OutdatedInv ==
  /\ ServerRuns /\ ConnectedToSites /\ AskedOfSites
  /\ \A e \in outdated : e \in Endpoints /\ client[e] # 0
  /\ OutdatedIsDropped

LEMMA KnownServices ==
  /\ \A k : Exists(k) => k \in Services
  /\ Web \in Services /\ Exists(Web)
  /\ \A k \in Services \ {Web} : Exists(k) <=> k[2] \in known[k[1]]
<1>1. \A k : Exists(k) => k \in Services
  BY DEF Exists, Services
<1>. QED
  BY <1>1 DEF Exists, Services

\* The configuration is not loaded anew, and no instance gets its name back.
Frame ==
  /\ known' = known /\ DOMAIN config' = DOMAIN config
  /\ \A n \in DOMAIN config : config'[n].name = config[n].name \/ config'[n].name = ""
  /\ Running' => Running

\* What no step may do to those that are to be told, nor to what is done.
ToldStays ==
  \A p \in Monitors, k \in Services :
    /\ Alive(p) /\ Alive(p)' /\ (p \in pending => p \in pending')
    /\ k[2] # "grader" /\ (monitors[p].service = Web \/ monitors[p].service[1] = k[1])
    /\ Told(p, k)
    => Told(p, k)'

StaleShape ==
  \A c \in stale' :
    \/ c \in stale /\ Alive(c[1])' /\ (c[1] \in pending => c[1] \in pending')
    \/ Unnoticed(c[2])'

EndsUnnoticed ==
  \A q \in Monitors :
    /\ monitors[q].phase \in {"ready", "asked"} /\ monitors'[q].phase = "gone"
    => Unnoticed(monitors[q].service)'

DoneStays == \A k \in Services : Done(k) => Done(k)'

Effect ==
  /\ ChainInv' /\ ToldStays /\ StaleShape /\ EndsUnnoticed
  /\ supervisor \in {"closing", "ended"} => DoneStays

LEMMA EffectTells ==
  ASSUME ChainInv, StaleTold, ToldStays, StaleShape
  PROVE  StaleTold'
<1>. SUFFICES ASSUME NEW c \in stale' PROVE Told(c[1], c[2])'
  BY DEF StaleTold
<1>1. CASE c \in stale /\ Alive(c[1])' /\ (c[1] \in pending => c[1] \in pending')
  <2>1. /\ c[1] \in Monitors /\ c[2] \in Services /\ Alive(c[1])
        /\ monitors[c[1]].service[1] = c[2][1] /\ c[2][2] # "grader"
    <3>1. c \in Monitors \X Services
      BY <1>1 DEF ChainInv, StaleLives
    <3>2. c[1] \in Monitors /\ c[2] \in Services
      BY <3>1, PairParts
    <3>. QED
      BY <1>1, <3>2 DEF ChainInv, StaleLives
  <2>2. Told(c[1], c[2])
    BY <1>1 DEF StaleTold
  <2>. QED
    BY <1>1, <2>1, <2>2, Zenon DEF ToldStays
<1>2. CASE Unnoticed(c[2])'
  BY <1>2 DEF Told
<1>. QED
  BY <1>1, <1>2 DEF StaleShape

\* What does not depend on monitors of other services.
LEMMA ServicesStillExist ==
  ASSUME UntouchedInv, ServicesExist, Frame,
         \A m \in Monitors : Exists(monitors'[m].service)
  PROVE  ServicesExist' /\ \A k : Exists(k)' <=> Exists(k)
<1>1. \A k : Exists(k)' <=> Exists(k)
  BY DEF Frame, Exists
<1>2. \A n \in Instances \ DOMAIN config' : known'[n] = {}
  BY DEF Frame, ServicesExist
<1>3. ASSUME NEW m \in Monitors PROVE Exists(monitors[m].service)'
  <2>1. PICK k : k = monitors'[m].service
    OBVIOUS
  <2>2. Exists(k) /\ Exists(k)'
    BY <1>1, <2>1
  <2>. QED
    BY <2>1, <2>2, Zenon DEF Exists
<1>. QED
  BY <1>1, <1>2, <1>3, Zenon DEF ServicesExist

LEMMA StillRenamed ==
  ASSUME ServicesExist, Frame, ConfigTypes, NEW p \in Monitors,
         monitors[p].service # Web, "" \notin Instances,
         config[monitors[p].service[1]].name # monitors[p].service[1]
  PROVE  config'[monitors[p].service[1]].name # monitors[p].service[1]
<1>1. PICK k : k = monitors[p].service
  OBVIOUS
<1>2. k \in Services \ {Web} /\ k[2] \in known[k[1]]
  BY <1>1, KnownServices DEF ServicesExist
<1>3. k[1] \in Instances
  BY <1>2, ServiceItems
<1>4. k[1] \in DOMAIN config
  BY <1>2, <1>3 DEF ServicesExist
<1>. QED
  BY <1>1, <1>3, <1>4 DEF Frame

LEMMA Tables ==
  ASSUME UntouchedInv
  PROVE  /\ monitors \in [Monitors -> MonitorRecords] /\ status \in [Services -> Statuses]
         /\ process \in [Services -> {0} \cup Monitors] /\ ConfigTypes
         /\ callers \in [Callers -> Calls] /\ ProcessIsIts
         /\ 0 \notin Monitors /\ "" \notin Instances
<1>1. 0 \notin Monitors
  BY SupervisorServiceAssumption DEF Monitors
<1>. QED
  BY <1>1, ServiceItems
     DEF UntouchedInv, ProcessesInv, TableTypes, ConfigInv, CallsInv, CallTypes

LEMMA ToldKept ==
  ASSUME UntouchedInv, ChainInv, Frame, NEW p \in Monitors, NEW k, Told(p, k),
         monitors'[p].service = monitors[p].service,
         p \in pending => p \in pending',
         Unnoticed(k) => Told(p, k)',
         process[monitors[p].service] # p \/ status[monitors[p].service] # "RUNNING" =>
           process'[monitors[p].service] # p \/ status'[monitors[p].service] # "RUNNING"
  PROVE  Told(p, k)'
<1>1. CASE p \in pending
  BY <1>1 DEF Told
<1>2. CASE Unnoticed(k)
  BY <1>2
<1>3. CASE process[monitors[p].service] # p \/ status[monitors[p].service] # "RUNNING"
  BY <1>3 DEF Told
<1>4. CASE ~Running
  BY <1>4 DEF Told, Frame
<1>5. CASE /\ monitors[p].service # Web
           /\ config[monitors[p].service[1]].name # monitors[p].service[1]
  <2>1. config'[monitors[p].service[1]].name # monitors[p].service[1]
    BY <1>5, Tables, StillRenamed DEF ChainInv
  <2>. QED
    BY <1>5, <2>1 DEF Told
<1>6. CASE monitors[p].service # Web /\ monitors[p].service[1] = k[2]
  BY <1>6 DEF Told
<1>. QED
  BY <1>1, <1>2, <1>3, <1>4, <1>5, <1>6 DEF Told

\* A step that does nothing to the processes.
LEMMA NothingHappensTo ==
  ASSUME UntouchedInv, ChainInv, Frame, UNCHANGED <<status, process, monitors, pending, stale>>,
         supervisor \in {"closing", "ended"} => late \subseteq late'
  PROVE  Effect
<1>1. ServicesExist'
  BY ServicesStillExist DEF ChainInv, ServicesExist
<1>2. ChainInv'
  BY <1>1 DEF ChainInv, LivesWatched, RestingHasNone, AskedIsStopped, PendingLives, StaleLives, Alive
<1>3. \A k : Unnoticed(k) => Unnoticed(k)'
  BY DEF Unnoticed
<1>4. ToldStays
  <2>. SUFFICES ASSUME NEW p \in Monitors, NEW k \in Services, Told(p, k) PROVE Told(p, k)'
    BY DEF ToldStays
  <2>1. Unnoticed(k) => Told(p, k)'
    BY <1>3 DEF Told
  <2>. QED
    BY <2>1, ToldKept
<1>5. StaleShape
  BY DEF StaleShape, ChainInv, StaleLives, Alive
<1>6. EndsUnnoticed
  BY DEF EndsUnnoticed
<1>7. supervisor \in {"closing", "ended"} => DoneStays
  BY DEF DoneStays, Done
<1>. QED
  BY <1>2, <1>4, <1>5, <1>6, <1>7 DEF Effect

\* A service gets a new process.
LEMMA ServiceStarts ==
  ASSUME UntouchedInv, ChainInv, Frame, NEW m \in Monitors, NEW k, Exists(k),
         StartProcess(m, k), UNCHANGED <<pending, stale>>, Running,
         monitors[m].pc \in {"none", "sleep"}
  PROVE  Effect
<1>1. /\ monitors \in [Monitors -> MonitorRecords] /\ status \in [Services -> Statuses]
      /\ process \in [Services -> {0} \cup Monitors] /\ k \in Services /\ k \in Items
      /\ 0 \notin Monitors
  BY Tables, KnownServices, ServiceItems
<1>2. /\ Launched(k).pc = "watch" /\ Launched(k).service = k /\ Launched(k).phase = "booting"
  BY <1>1, NewMonitors
<1>3. /\ monitors'[m] = Launched(k) /\ \A q \in Monitors : q # m => monitors'[q] = monitors[q]
      /\ status'[k] = "RUNNING" /\ process'[k] = m
      /\ \A l \in Services : l # k => status'[l] = status[l] /\ process'[l] = process[l]
  BY <1>1 DEF StartProcess
<1>4. monitors[m].phase = "gone"
  BY DEF ChainInv, LivesWatched
<1>5. \A q \in Monitors : Alive(q) => q # m
  BY <1>4 DEF Alive
<1>6. \A q \in Monitors : Alive(q)' <=> Alive(q)
  BY <1>2, <1>3, <1>4 DEF Alive
<1>7. ChainInv'
  <2>1. ServicesExist'
    BY <1>2, <1>3, ServicesStillExist DEF ChainInv, ServicesExist
  <2>2. LivesWatched' /\ RestingHasNone'
    BY <1>2, <1>3 DEF ChainInv, LivesWatched, RestingHasNone
  <2>3. ASSUME NEW q \in Monitors, monitors'[q].phase = "asked"
        PROVE  /\ monitors'[q].service # Web
               /\ \/ process'[monitors'[q].service] # q
                  \/ status'[monitors'[q].service] # "RUNNING"
    <3>1. q # m /\ monitors'[q] = monitors[q]
      BY <1>2, <1>3, <2>3
    <3>2. /\ monitors[q].service # Web /\ monitors[q].service \in Services
          /\ process[monitors[q].service] # q \/ status[monitors[q].service] # "RUNNING"
      BY <2>3, <3>1, KnownServices DEF ChainInv, AskedIsStopped, ServicesExist
    <3>3. CASE monitors[q].service = k
      BY <1>3, <3>1, <3>2, <3>3
    <3>4. CASE monitors[q].service # k
      BY <1>3, <3>1, <3>2, <3>4
    <3>. QED
      BY <3>3, <3>4
  <2>4. AskedIsStopped'
    BY <2>3 DEF AskedIsStopped
  <2>5. PendingLives'
    BY <1>6 DEF ChainInv, PendingLives
  <2>6. StaleLives'
    <3>. SUFFICES ASSUME NEW c \in stale
                  PROVE  /\ c \in Monitors \X Services /\ Alive(c[1])'
                         /\ monitors'[c[1]].service[1] = c[2][1] /\ c[2][2] # "grader"
      BY DEF StaleLives
    <3>1. /\ c \in Monitors \X Services /\ Alive(c[1])
          /\ monitors[c[1]].service[1] = c[2][1] /\ c[2][2] # "grader"
      BY DEF ChainInv, StaleLives
    <3>2. c[1] \in Monitors
      BY <3>1, PairParts
    <3>. QED
      BY <1>3, <1>5, <1>6, <3>1, <3>2
  <2>. QED
    BY <2>1, <2>2, <2>4, <2>5, <2>6 DEF ChainInv
<1>8. \A l : Unnoticed(l) => Unnoticed(l)'
  <2>. SUFFICES ASSUME NEW l, NEW q \in Monitors, monitors[q].service = l,
                       monitors[q].pc = "watch", monitors[q].phase = "gone"
                PROVE  Unnoticed(l)'
    BY DEF Unnoticed
  <2>1. monitors'[q] = monitors[q]
    BY <1>3
  <2>. QED
    BY <2>1 DEF Unnoticed
<1>9. ToldStays
  <2>. SUFFICES ASSUME NEW p \in Monitors, NEW l \in Services, Alive(p), Told(p, l)
                PROVE  Told(p, l)'
    BY DEF ToldStays
  <2>1. Unnoticed(l) => Told(p, l)'
    BY <1>8 DEF Told
  <2>2. p # m /\ monitors'[p] = monitors[p] /\ monitors[p].service \in Services
    BY <1>3, <1>5, KnownServices DEF ChainInv, ServicesExist
  <2>3. process[monitors[p].service] # p \/ status[monitors[p].service] # "RUNNING" =>
          process'[monitors[p].service] # p \/ status'[monitors[p].service] # "RUNNING"
    BY <1>3, <2>2
  <2>. QED
    BY <2>1, <2>2, <2>3, ToldKept
<1>10. StaleShape
  <2>. SUFFICES ASSUME NEW c \in stale PROVE Alive(c[1])'
    BY DEF StaleShape
  <2>1. c \in Monitors \X Services /\ Alive(c[1])
    BY DEF ChainInv, StaleLives
  <2>2. c[1] \in Monitors
    BY <2>1, PairParts
  <2>. QED
    BY <1>6, <2>1, <2>2
<1>11. EndsUnnoticed
  BY <1>2, <1>3, <1>4 DEF EndsUnnoticed
<1>12. ASSUME supervisor \in {"closing", "ended"}
       PROVE  DoneStays
  <2>1. m \in late' /\ late \subseteq late' \cup {m}
    BY <1>12 DEF StartProcess, Running
  <2>. SUFFICES ASSUME NEW l \in Services, Done(l), process'[l] # 0,
                       monitors'[process'[l]].phase # "gone"
                PROVE  process'[l] \in late' \/ status'[l] = "SHUTDOWN"
    BY DEF DoneStays, Done
  <2>2. CASE process'[l] = m
    BY <2>1, <2>2
  <2>3. CASE process'[l] # m
    <3>1. l # k /\ process'[l] = process[l] /\ status'[l] = status[l]
      BY <1>3, <2>3
    <3>2. process[l] \in Monitors /\ monitors'[process[l]] = monitors[process[l]]
      BY <1>1, <1>3, <2>3, <3>1
    <3>3. process[l] \in late \/ status[l] = "SHUTDOWN"
      BY <3>1, <3>2 DEF Done
    <3>. QED
      BY <2>1, <2>3, <3>1, <3>3
  <2>. QED
    BY <2>2, <2>3
<1>. QED
  BY <1>7, <1>9, <1>10, <1>11, <1>12 DEF Effect

\* A process ends, or gets a SIGTERM, of which a service that is recorded as
\* running has none.
LEMMA PhaseMoves ==
  ASSUME UntouchedInv, ChainInv, Frame, NEW m \in Monitors, NEW phase \in {"asked", "gone"},
         Phase(m, phase), process' = process, late' = late,
         status' \in [Services -> Statuses],
         \A k \in Services : status'[k] = status[k] \/ status'[k] = "SHUTDOWN",
         phase = "asked" => /\ Alive(m) /\ monitors[m].service # Web
                            /\ status'[monitors[m].service] = "SHUTDOWN"
                            /\ UNCHANGED <<pending, stale>>,
         phase = "gone" =>
           /\ pending' = pending \ {m}
           /\ \A c \in stale' :
                \/ c \in stale /\ c[1] # m
                \/ \E p \in Monitors \ {m} :
                     c = <<p, monitors[m].service>> /\ Connected(p, m)
  PROVE  Effect
<1>1. /\ monitors \in [Monitors -> MonitorRecords] /\ status \in [Services -> Statuses]
      /\ process \in [Services -> {0} \cup Monitors] /\ 0 \notin Monitors
  BY Tables
<1>2. PICK r : r = [monitors[m] EXCEPT !.phase = phase]
  OBVIOUS
<1>3. /\ monitors[m] \in MonitorRecords
      /\ r.phase = phase /\ r.service = monitors[m].service /\ r.pc = monitors[m].pc
  BY <1>1, <1>2 DEF MonitorRecords
<1>4. /\ monitors'[m] = r /\ \A q \in Monitors : q # m => monitors'[q] = monitors[q]
  BY <1>1, <1>2 DEF Phase
<1>5. \A q \in Monitors : /\ monitors'[q].service = monitors[q].service
                          /\ monitors'[q].pc = monitors[q].pc
                          /\ monitors'[q].phase = monitors[q].phase \/ q = m
                          /\ Alive(q)' => Alive(q)
  <2>1. ASSUME NEW q \in Monitors, q # m
        PROVE  monitors'[q] = monitors[q] /\ (Alive(q)' => Alive(q))
    BY <1>4, <2>1 DEF Alive
  <2>2. Alive(m)' => Alive(m)
    BY <1>3, <1>4 DEF Alive
  <2>. QED
    BY <1>3, <1>4, <2>1, <2>2
<1>6. \A q \in Monitors : Alive(q) => Alive(q)' \/ (q = m /\ phase = "gone")
  <2>1. phase = "asked" => Alive(m)'
    BY <1>3, <1>4 DEF Alive
  <2>. QED
    BY <1>4, <2>1 DEF Alive
<1>7. ASSUME NEW c \in stale'
      PROVE  /\ c[1] \in Monitors /\ c \in Monitors \X Services /\ Alive(c[1])'
             /\ monitors'[c[1]].service[1] = c[2][1] /\ c[2][2] # "grader"
             /\ \/ c \in stale
                \/ c[2] = monitors[m].service /\ phase = "gone" /\ Alive(m)
  <2>1. CASE c \in stale /\ (phase = "gone" => c[1] # m)
    <3>1. /\ c \in Monitors \X Services /\ Alive(c[1])
          /\ monitors[c[1]].service[1] = c[2][1] /\ c[2][2] # "grader"
      BY <2>1 DEF ChainInv, StaleLives
    <3>2. c[1] \in Monitors
      BY <3>1, PairParts
    <3>. QED
      BY <1>5, <1>6, <2>1, <3>1, <3>2
  <2>2. CASE phase = "gone" /\ \E p \in Monitors \ {m} :
               c = <<p, monitors[m].service>> /\ Connected(p, m)
    <3>1. PICK p \in Monitors \ {m} : c = <<p, monitors[m].service>> /\ Connected(p, m)
      BY <2>2
    <3>2. /\ p # m /\ Alive(p) /\ Alive(m) /\ monitors[m].service[2] # "grader"
          /\ monitors[p].service[1] = monitors[m].service[1]
      BY <3>1 DEF Connected, Alive
    <3>3. c[1] = p /\ c[2] = monitors[m].service /\ monitors[m].service \in Services
      BY <3>1, PairItems, KnownServices DEF ChainInv, ServicesExist
    <3>. QED
      BY <1>5, <1>6, <2>2, <3>1, <3>2, <3>3
  <2>. QED
    BY <2>1, <2>2
<1>8. ChainInv'
  <2>1. ServicesExist'
    BY <1>5, ServicesStillExist DEF ChainInv, ServicesExist
  <2>2. LivesWatched' /\ RestingHasNone'
    <3>1. LivesWatched'
      <4>. SUFFICES ASSUME NEW q \in Monitors, monitors'[q].phase # "gone"
                    PROVE  monitors[q].pc = "watch"
        BY <1>5 DEF LivesWatched
      <4>1. monitors[q].phase # "gone"
        BY <1>3, <1>4, <1>5 DEF Alive
      <4>. QED
        BY <4>1 DEF ChainInv, LivesWatched
    <3>2. RestingHasNone'
      BY DEF ChainInv, RestingHasNone
    <3>. QED
      BY <3>1, <3>2
  <2>3. AskedIsStopped'
    <3>. SUFFICES ASSUME NEW q \in Monitors, monitors'[q].phase = "asked"
                  PROVE  /\ monitors'[q].service # Web
                         /\ \/ process'[monitors'[q].service] # q
                            \/ status'[monitors'[q].service] # "RUNNING"
      BY DEF AskedIsStopped
    <3>1. monitors[q].service \in Services
      BY KnownServices DEF ChainInv, ServicesExist
    <3>2. CASE q = m
      BY <1>3, <1>4, <3>2
    <3>3. CASE q # m
      <4>1. /\ monitors'[q] = monitors[q] /\ monitors[q].service # Web
            /\ process[monitors[q].service] # q \/ status[monitors[q].service] # "RUNNING"
        BY <1>4, <3>3 DEF ChainInv, AskedIsStopped
      <4>. QED
        BY <3>1, <4>1
    <3>. QED
      BY <3>2, <3>3
  <2>4. PendingLives'
    BY <1>6 DEF ChainInv, PendingLives
  <2>5. StaleLives'
    BY <1>7 DEF StaleLives
  <2>. QED
    BY <2>1, <2>2, <2>3, <2>4, <2>5 DEF ChainInv
<1>9. \A l : Unnoticed(l) => Unnoticed(l)'
  <2>. SUFFICES ASSUME NEW l, NEW q \in Monitors, monitors[q].service = l,
                       monitors[q].pc = "watch", monitors[q].phase = "gone"
                PROVE  Unnoticed(l)'
    BY DEF Unnoticed
  <2>1. monitors'[q].phase = "gone"
    BY <1>3, <1>4, <1>5 DEF Alive
  <2>. QED
    BY <1>5, <2>1 DEF Unnoticed
<1>10. ToldStays
  <2>. SUFFICES ASSUME NEW p \in Monitors, NEW l \in Services, Told(p, l),
                       p \in pending => p \in pending'
                PROVE  Told(p, l)'
    BY DEF ToldStays
  <2>1. Unnoticed(l) => Told(p, l)'
    BY <1>9 DEF Told
  <2>2. monitors[p].service \in Services /\ monitors'[p].service = monitors[p].service
    BY <1>5, KnownServices DEF ChainInv, ServicesExist
  <2>. QED
    BY <2>1, <2>2, ToldKept
<1>11. EndsUnnoticed
  <2>. SUFFICES ASSUME NEW q \in Monitors, monitors[q].phase # "gone", monitors'[q].phase = "gone"
                PROVE  Unnoticed(monitors[q].service)'
    BY DEF EndsUnnoticed
  <2>1. monitors[q].pc = "watch"
    BY DEF ChainInv, LivesWatched
  <2>2. PICK l : l = monitors[q].service
    OBVIOUS
  <2>3. monitors'[q].service = l /\ monitors'[q].pc = "watch"
    BY <1>5, <2>1, <2>2
  <2>4. Unnoticed(l)'
    BY <2>3 DEF Unnoticed
  <2>. QED
    BY <2>2, <2>3, <2>4 DEF Unnoticed
<1>12. StaleShape
  <2>. SUFFICES ASSUME NEW c \in stale', c \notin stale \/ ~(c[1] \in pending => c[1] \in pending')
                PROVE  Unnoticed(c[2])'
    BY <1>7 DEF StaleShape
  <2>1. CASE c \notin stale
    <3>1. c[2] = monitors[m].service /\ phase = "gone" /\ Alive(m)
      BY <1>7, <2>1
    <3>2. monitors[m].phase \in {"ready", "asked"} /\ monitors'[m].phase = "gone"
      BY <1>3, <1>4, <3>1 DEF Alive
    <3>3. PICK l : l = c[2]
      OBVIOUS
    <3>4. monitors'[m].pc = "watch" /\ monitors'[m].service = l
      BY <1>5, <3>1, <3>2, <3>3 DEF ChainInv, LivesWatched
    <3>5. Unnoticed(l)'
      BY <3>2, <3>4 DEF Unnoticed
    <3>. QED
      BY <3>3, <3>5, Zenon
  <2>2. CASE c \in stale /\ c[1] \in pending /\ c[1] \notin pending'
    <3>1. c[1] = m /\ phase = "gone"
      BY <2>2
    <3>. QED
      BY <1>3, <1>4, <1>7, <3>1 DEF Alive
  <2>. QED
    BY <2>1, <2>2
<1>13. DoneStays
  <2>. SUFFICES ASSUME NEW l \in Services, Done(l), process[l] # 0,
                       monitors'[process[l]].phase # "gone"
                PROVE  process[l] \in late \/ status'[l] = "SHUTDOWN"
    BY DEF DoneStays, Done
  <2>1. process[l] \in Monitors
    BY <1>1
  <2>2. monitors[process[l]].phase # "gone"
    BY <1>3, <1>4, <1>5, <2>1 DEF Alive
  <2>. QED
    BY <2>2 DEF Done
<1>. QED
  BY <1>8, <1>10, <1>11, <1>12, <1>13 DEF Effect

\* The end of a process is noticed: whoever is to be told gets a SIGHUP.
LEMMA ExitTells ==
  ASSUME UntouchedInv, ChainInv, Frame, NEW m \in Monitors, NotifyExit(m)
  PROVE  Effect
<1>1. PICK k : k = monitors[m].service
  OBVIOUS
<1>2. PICK killed : killed = Killed(Notified(k))
  OBVIOUS
<1>3. PICK pc \in {"send", "act"} : pc = IF status[k] = "SHUTDOWN" THEN "send" ELSE "act"
  OBVIOUS
<1>4. /\ monitors \in [Monitors -> MonitorRecords] /\ status \in [Services -> Statuses]
      /\ process \in [Services -> {0} \cup Monitors] /\ 0 \notin Monitors
  BY Tables
<1>5. /\ Running /\ monitors[m].pc = "watch" /\ monitors[m].phase = "gone"
      /\ UNCHANGED <<status, process, stale, late>>
      /\ pending' = pending \cup Signalled(Notified(k))
  BY <1>1 DEF NotifyExit, table, supHistory
<1>6. monitors' = [q \in Monitors |->
        IF q = m THEN [monitors[q] EXCEPT !.pc = pc]
        ELSE IF q \in killed THEN [monitors[q] EXCEPT !.phase = "gone"] ELSE monitors[q]]
  BY <1>1, <1>2, <1>3, Zenon DEF NotifyExit
<1>7. \A q \in killed : monitors[q].phase = "booting"
  BY <1>2 DEF Killed
<1>8. ASSUME NEW q \in Monitors
      PROVE  /\ monitors'[q].service = monitors[q].service
             /\ q # m => monitors'[q].pc = monitors[q].pc
             /\ q \in killed /\ q # m => monitors'[q].phase = "gone"
             /\ q \notin killed \/ q = m => monitors'[q].phase = monitors[q].phase
  <2>1. monitors[q] \in MonitorRecords
    BY <1>4
  <2>2. CASE q = m
    <3>1. monitors'[q] = [monitors[q] EXCEPT !.pc = pc]
      BY <1>6, <2>2
    <3>. QED
      BY <2>1, <2>2, <3>1 DEF MonitorRecords
  <2>3. CASE q # m /\ q \in killed
    <3>1. monitors'[q] = [monitors[q] EXCEPT !.phase = "gone"]
      BY <1>6, <2>3
    <3>. QED
      BY <2>1, <2>3, <3>1 DEF MonitorRecords
  <2>4. CASE q # m /\ q \notin killed
    BY <1>6, <2>4
  <2>. QED
    BY <2>2, <2>3, <2>4
<1>9. m \notin killed /\ \A q \in Monitors : q \in killed => ~Alive(q)
  BY <1>5, <1>7 DEF Alive
<1>10. \A q \in Monitors : Alive(q)' <=> Alive(q)
  BY <1>8, <1>9 DEF Alive
<1>11. ChainInv'
  <2>1. ServicesExist'
    BY <1>8, ServicesStillExist DEF ChainInv, ServicesExist
  <2>2. LivesWatched' /\ RestingHasNone'
    BY <1>5, <1>8, <1>9 DEF ChainInv, LivesWatched, RestingHasNone
  <2>3. AskedIsStopped'
    <3>. SUFFICES ASSUME NEW q \in Monitors, monitors'[q].phase = "asked"
                  PROVE  /\ monitors'[q].service # Web
                         /\ \/ process'[monitors'[q].service] # q
                            \/ status'[monitors'[q].service] # "RUNNING"
      BY DEF AskedIsStopped
    <3>1. monitors[q].phase = "asked" /\ monitors'[q].service = monitors[q].service
      BY <1>8, <1>9
    <3>. QED
      BY <1>5, <3>1 DEF ChainInv, AskedIsStopped
  <2>4. PendingLives'
    <3>1. \A q \in Signalled(Notified(k)) : q \in Monitors /\ monitors[q].phase = "ready"
      <4>1. Notified(k) \subseteq Services
        BY KnownServices DEF Notified
      <4>. QED
        BY <1>4, <4>1 DEF Signalled, Recipients
    <3>. QED
      BY <1>5, <1>10, <3>1 DEF ChainInv, PendingLives, Alive
  <2>5. StaleLives'
    <3>. SUFFICES ASSUME NEW c \in stale
                  PROVE  /\ c \in Monitors \X Services /\ Alive(c[1])'
                         /\ monitors'[c[1]].service[1] = c[2][1] /\ c[2][2] # "grader"
      BY <1>5 DEF StaleLives
    <3>1. /\ c \in Monitors \X Services /\ Alive(c[1])
          /\ monitors[c[1]].service[1] = c[2][1] /\ c[2][2] # "grader"
      BY DEF ChainInv, StaleLives
    <3>2. c[1] \in Monitors
      BY <3>1, PairParts
    <3>. QED
      BY <1>8, <1>10, <3>1, <3>2
  <2>. QED
    BY <2>1, <2>2, <2>3, <2>4, <2>5 DEF ChainInv
<1>12. ToldStays
  <2>. SUFFICES ASSUME NEW p \in Monitors, NEW l \in Services, Alive(p), Told(p, l),
                       l[2] # "grader",
                       monitors[p].service = Web \/ monitors[p].service[1] = l[1]
                PROVE  Told(p, l)'
    BY DEF ToldStays
  <2>1. PICK s : s = monitors[p].service
    OBVIOUS
  <2>2. s \in Services /\ Exists(s) /\ monitors'[p].service = s
    BY <1>8, <2>1, KnownServices DEF ChainInv, ServicesExist
  <2>3. Unnoticed(l) => Told(p, l)'
    <3>. SUFFICES ASSUME NEW q \in Monitors, monitors[q].service = l,
                         monitors[q].pc = "watch", monitors[q].phase = "gone"
                  PROVE  Told(p, l)'
      BY DEF Unnoticed
    <3>1. CASE q # m
      <4>1. q \notin killed
        BY <1>7
      <4>2. Unnoticed(l)'
        BY <1>8, <3>1, <4>1 DEF Unnoticed
      <4>. QED
        BY <4>2 DEF Told
    <3>2. CASE q = m
      <4>1. l = k
        BY <1>1, <3>2
      <4>2. CASE process[s] # p \/ status[s] # "RUNNING"
        BY <1>5, <2>2, <4>2 DEF Told
      <4>3. CASE s # Web /\ config[s[1]].name # s[1]
        <5>1. config'[s[1]].name # s[1]
          BY <2>1, <4>3, Tables, StillRenamed DEF ChainInv
        <5>. QED
          BY <2>2, <4>3, <5>1 DEF Told
      <4>5. CASE s # Web /\ s[1] = l[2]
        BY <2>2, <4>5 DEF Told
      <4>4. CASE /\ process[s] = p /\ status[s] = "RUNNING"
                 /\ s = Web \/ (config[s[1]].name = s[1] /\ s[1] # l[2])
        <5>1. s \in Notified(k)
          <6>1. CASE s = Web
            BY <4>1, <6>1 DEF Notified
          <6>2. CASE s # Web
            <7>1. s \in Services \ {Web} /\ s[2] \in known[s[1]] /\ s[1] \in Instances
              BY <2>2, <6>2, KnownServices, ServiceItems
            <7>2. s[1] \in DOMAIN config
              BY <7>1 DEF ChainInv, ServicesExist
            <7>3. config[s[1]].name = k[1] /\ s[1] # k[2]
              BY <2>1, <4>1, <4>4, <6>2
            <7>. QED
              BY <4>1, <7>1, <7>2, <7>3 DEF Notified
          <6>. QED
            BY <6>1, <6>2
        <5>2. p \in Recipients(Notified(k))
          BY <1>4, <4>4, <5>1 DEF Recipients
        <5>3. monitors[p].phase = "ready"
          BY <2>1, <4>4 DEF Alive, ChainInv, AskedIsStopped
        <5>4. p \in pending'
          BY <1>5, <5>2, <5>3 DEF Signalled
        <5>. QED
          BY <5>4 DEF Told
      <4>. QED
        BY <4>2, <4>3, <4>4, <4>5
    <3>. QED
      BY <3>1, <3>2
  <2>4. p \in pending => p \in pending'
    BY <1>5
  <2>5. UNCHANGED <<process, status>>
    BY <1>5
  <2>. QED
    BY <2>1, <2>2, <2>3, <2>4, <2>5, ToldKept
<1>13. StaleShape
  <2>. SUFFICES ASSUME NEW c \in stale PROVE Alive(c[1])'
    BY <1>5 DEF StaleShape
  <2>1. c \in Monitors \X Services /\ Alive(c[1])
    BY DEF ChainInv, StaleLives
  <2>2. c[1] \in Monitors
    BY <2>1, PairParts
  <2>. QED
    BY <1>10, <2>1, <2>2
<1>14. EndsUnnoticed
  <2>1. \A q \in Monitors : ~(Alive(q) /\ monitors'[q].phase = "gone")
    BY <1>10 DEF Alive
  <2>. QED
    BY <2>1 DEF EndsUnnoticed, Alive
<1>15. DoneStays
  <2>. SUFFICES ASSUME NEW l \in Services, Done(l), process[l] # 0,
                       monitors'[process[l]].phase # "gone"
                PROVE  process[l] \in late \/ status[l] = "SHUTDOWN"
    BY <1>5 DEF DoneStays, Done
  <2>1. process[l] \in Monitors
    BY <1>4
  <2>2. monitors[process[l]].phase # "gone"
    BY <1>8, <2>1
  <2>. QED
    BY <2>2 DEF Done
<1>. QED
  BY <1>11, <1>12, <1>13, <1>14, <1>15 DEF Effect

\* A service whose process has ended has none any more.
LEMMA ServiceRests ==
  ASSUME UntouchedInv, ChainInv, Frame, NEW m \in Monitors, NEW k, NEW r, NEW s \in Statuses,
         k = monitors[m].service, monitors[m].pc # "watch", s # "RUNNING",
         r.phase = "gone", Exists(r.service),
         monitors' = [monitors EXCEPT ![m] = r], process' = [process EXCEPT ![k] = 0],
         status' = [status EXCEPT ![k] = s], UNCHANGED <<pending, stale, late>>
  PROVE  Effect
<1>1. /\ monitors \in [Monitors -> MonitorRecords] /\ status \in [Services -> Statuses]
      /\ process \in [Services -> {0} \cup Monitors] /\ 0 \notin Monitors
  BY Tables
<1>2. k \in Services
  BY KnownServices DEF ChainInv, ServicesExist
<1>3. /\ monitors'[m] = r /\ \A q \in Monitors : q # m => monitors'[q] = monitors[q]
      /\ process'[k] = 0 /\ status'[k] = s
      /\ \A l \in Services : l # k => process'[l] = process[l] /\ status'[l] = status[l]
  BY <1>1, <1>2
<1>4. monitors[m].phase = "gone"
  BY DEF ChainInv, LivesWatched
<1>5. \A q \in Monitors : /\ Alive(q)' <=> Alive(q)
                          /\ Alive(q) => q # m
  BY <1>3, <1>4 DEF Alive
<1>6. \A q \in Monitors : monitors[q].service \in Services
  BY KnownServices DEF ChainInv, ServicesExist
<1>7. ASSUME NEW q \in Monitors, q # m,
             process[monitors[q].service] # q \/ status[monitors[q].service] # "RUNNING"
      PROVE  process'[monitors[q].service] # q \/ status'[monitors[q].service] # "RUNNING"
  BY <1>3, <1>6, <1>7
<1>8. ChainInv'
  <2>1. ServicesExist'
    BY <1>3, ServicesStillExist DEF ChainInv, ServicesExist
  <2>2. LivesWatched' /\ RestingHasNone'
    BY <1>3 DEF ChainInv, LivesWatched, RestingHasNone
  <2>3. AskedIsStopped'
    <3>. SUFFICES ASSUME NEW q \in Monitors, monitors'[q].phase = "asked"
                  PROVE  /\ monitors'[q].service # Web
                         /\ \/ process'[monitors'[q].service] # q
                            \/ status'[monitors'[q].service] # "RUNNING"
      BY DEF AskedIsStopped
    <3>1. q # m /\ monitors'[q] = monitors[q]
      BY <1>3
    <3>2. /\ monitors[q].service # Web
          /\ process[monitors[q].service] # q \/ status[monitors[q].service] # "RUNNING"
      BY <3>1 DEF ChainInv, AskedIsStopped
    <3>. QED
      BY <1>7, <3>1, <3>2
  <2>4. PendingLives'
    BY <1>5 DEF ChainInv, PendingLives
  <2>5. StaleLives'
    <3>. SUFFICES ASSUME NEW c \in stale
                  PROVE  /\ c \in Monitors \X Services /\ Alive(c[1])'
                         /\ monitors'[c[1]].service[1] = c[2][1] /\ c[2][2] # "grader"
      BY DEF StaleLives
    <3>1. /\ c \in Monitors \X Services /\ Alive(c[1])
          /\ monitors[c[1]].service[1] = c[2][1] /\ c[2][2] # "grader"
      BY DEF ChainInv, StaleLives
    <3>2. c[1] \in Monitors
      BY <3>1, PairParts
    <3>. QED
      BY <1>3, <1>5, <3>1, <3>2
  <2>. QED
    BY <2>1, <2>2, <2>3, <2>4, <2>5 DEF ChainInv
<1>9. \A l : Unnoticed(l) => Unnoticed(l)'
  <2>. SUFFICES ASSUME NEW l, NEW q \in Monitors, monitors[q].service = l,
                       monitors[q].pc = "watch", monitors[q].phase = "gone"
                PROVE  Unnoticed(l)'
    BY DEF Unnoticed
  <2>1. monitors'[q] = monitors[q]
    BY <1>3
  <2>. QED
    BY <2>1 DEF Unnoticed
<1>10. ToldStays
  <2>. SUFFICES ASSUME NEW p \in Monitors, NEW l \in Services, Alive(p), Told(p, l)
                PROVE  Told(p, l)'
    BY DEF ToldStays
  <2>1. Unnoticed(l) => Told(p, l)'
    BY <1>9 DEF Told
  <2>2. p # m /\ monitors'[p] = monitors[p]
    BY <1>3, <1>5
  <2>. QED
    BY <1>7, <2>1, <2>2, ToldKept
<1>11. StaleShape
  <2>. SUFFICES ASSUME NEW c \in stale PROVE Alive(c[1])'
    BY DEF StaleShape
  <2>1. c \in Monitors \X Services /\ Alive(c[1])
    BY DEF ChainInv, StaleLives
  <2>2. c[1] \in Monitors
    BY <2>1, PairParts
  <2>. QED
    BY <1>5, <2>1, <2>2
<1>12. EndsUnnoticed
  <2>1. \A q \in Monitors : ~(Alive(q) /\ monitors'[q].phase = "gone")
    BY <1>5 DEF Alive
  <2>. QED
    BY <2>1 DEF EndsUnnoticed, Alive
<1>13. DoneStays
  <2>. SUFFICES ASSUME NEW l \in Services, Done(l), process'[l] # 0,
                       monitors'[process'[l]].phase # "gone"
                PROVE  process'[l] \in late \/ status'[l] = "SHUTDOWN"
    BY DEF DoneStays, Done
  <2>1. /\ process'[l] = process[l] /\ status'[l] = status[l]
        /\ process[l] \in Monitors /\ process[l] # 0
    BY <1>1, <1>3
  <2>2. monitors[process[l]].phase # "gone"
    BY <1>3, <2>1
  <2>. QED
    BY <2>1, <2>2 DEF Done
<1>. QED
  BY <1>8, <1>10, <1>11, <1>12, <1>13 DEF Effect

\* The start of a service has failed, which had no process that is waited for.
LEMMA ServiceFails ==
  ASSUME UntouchedInv, ChainInv, Frame, NEW k, Exists(k),
         process' = [process EXCEPT ![k] = 0], status' = [status EXCEPT ![k] = "FAILED"],
         UNCHANGED <<monitors, pending, stale, late>>
  PROVE  Effect
<1>1. /\ status \in [Services -> Statuses] /\ process \in [Services -> {0} \cup Monitors]
      /\ 0 \notin Monitors /\ k \in Services
  BY Tables, KnownServices
<1>2. /\ process'[k] = 0 /\ status'[k] = "FAILED"
      /\ \A l \in Services : l # k => process'[l] = process[l] /\ status'[l] = status[l]
  BY <1>1
<1>3. \A q \in Monitors : monitors[q].service \in Services
  BY KnownServices DEF ChainInv, ServicesExist
<1>4. ASSUME NEW q \in Monitors,
             process[monitors[q].service] # q \/ status[monitors[q].service] # "RUNNING"
      PROVE  process'[monitors[q].service] # q \/ status'[monitors[q].service] # "RUNNING"
  BY <1>2, <1>3, <1>4
<1>5. ChainInv'
  <2>1. ServicesExist'
    BY ServicesStillExist DEF ChainInv, ServicesExist
  <2>2. LivesWatched' /\ RestingHasNone'
    BY <1>2 DEF ChainInv, LivesWatched, RestingHasNone
  <2>3. AskedIsStopped'
    BY <1>4 DEF ChainInv, AskedIsStopped
  <2>4. PendingLives' /\ StaleLives'
    BY DEF ChainInv, PendingLives, StaleLives, Alive
  <2>. QED
    BY <2>1, <2>2, <2>3, <2>4 DEF ChainInv
<1>6. ToldStays
  <2>. SUFFICES ASSUME NEW p \in Monitors, NEW l \in Services, Told(p, l) PROVE Told(p, l)'
    BY DEF ToldStays
  <2>1. Unnoticed(l) => Told(p, l)'
    BY DEF Told, Unnoticed
  <2>. QED
    BY <1>4, <2>1, ToldKept
<1>7. StaleShape /\ EndsUnnoticed
  BY DEF StaleShape, EndsUnnoticed, ChainInv, StaleLives, Alive
<1>8. DoneStays
  <2>. SUFFICES ASSUME NEW l \in Services, Done(l) PROVE Done(l)'
    BY DEF DoneStays
  <2>1. CASE l = k
    BY <1>2, <2>1 DEF Done
  <2>2. CASE l # k
    BY <1>2, <2>2 DEF Done
  <2>. QED
    BY <2>1, <2>2
<1>. QED
  BY <1>5, <1>6, <1>7, <1>8 DEF Effect

LEMMA FailureEffect ==
  ASSUME UntouchedInv, ChainInv, Frame,
         \/ \E m \in Monitors : WakeFails(m)
         \/ \E c \in Callers : LaunchFails(c) /\ Exists(NextService(c))
  PROVE  Effect
<1>1. ASSUME NEW m \in Monitors, WakeFails(m) PROVE Effect
  <2>1. PICK k : k = monitors[m].service
    OBVIOUS
  <2>2. /\ monitors \in [Monitors -> MonitorRecords] /\ monitors[m] \in MonitorRecords
        /\ monitors[m].pc = "sleep"
    BY <1>1, Tables DEF WakeFails
  <2>3. monitors[m].phase = "gone" /\ Exists(k)
    BY <2>1, <2>2 DEF ChainInv, LivesWatched, ServicesExist
  <2>4. PICK r : r = [monitors[m] EXCEPT !.pc = "failed"]
    OBVIOUS
  <2>5. r.phase = "gone" /\ r.service = k
    BY <2>1, <2>2, <2>3, <2>4 DEF MonitorRecords
  <2>6. NotStarted(k) /\ UNCHANGED <<pending, stale, late>>
    BY <1>1, <2>1 DEF WakeFails, connections
  <2>7. monitors' = [monitors EXCEPT ![m] = r]
    BY <1>1, <2>2, <2>4 DEF WakeFails
  <2>8. /\ status' = [status EXCEPT ![k] = "FAILED"] /\ process' = [process EXCEPT ![k] = 0]
        /\ "FAILED" \in Statuses
    BY <2>6 DEF NotStarted, Statuses
  <2>. QED
    BY <2>1, <2>2, <2>3, <2>5, <2>6, <2>7, <2>8, ServiceRests
<1>2. ASSUME NEW c \in Callers, LaunchFails(c), Exists(NextService(c)) PROVE Effect
  <2>1. PICK k : k = NextService(c)
    OBVIOUS
  <2>2. NotStarted(k) /\ UNCHANGED <<monitors, pending, stale, late>>
    BY <1>2, <2>1 DEF LaunchFails, connections
  <2>. QED
    BY <1>2, <2>1, <2>2, ServiceFails DEF NotStarted
<1>. QED
  BY <1>1, <1>2

LEMMA MonitorRests ==
  ASSUME UntouchedInv, ChainInv, Frame, NEW m \in Monitors,
         Act(m) \/ \E c \in Callers : HandOver(c, m)
  PROVE  Effect
<1>1. PICK k : k = monitors[m].service
  OBVIOUS
<1>2. /\ monitors \in [Monitors -> MonitorRecords] /\ monitors[m] \in MonitorRecords
      /\ monitors[m].pc # "watch"
  <2>1. monitors \in [Monitors -> MonitorRecords] /\ monitors[m] \in MonitorRecords
    BY Tables
  <2>. QED
    BY <2>1 DEF Act, HandOver
<1>3. monitors[m].phase = "gone" /\ Exists(k)
  BY <1>1, <1>2 DEF ChainInv, LivesWatched, ServicesExist
<1>4. NoMonitor.phase = "gone" /\ Exists(NoMonitor.service)
  BY KnownServices DEF NoMonitor
<1>5. PICK r : r = [monitors[m] EXCEPT !.pc = "sleep"]
  OBVIOUS
<1>6. r.phase = "gone" /\ r.service = k
  BY <1>1, <1>2, <1>3, <1>5 DEF MonitorRecords
<1>7. UNCHANGED <<pending, stale, late>> /\ process' = [process EXCEPT ![k] = 0]
  BY <1>1 DEF Act, HandOver, connections, supHistory
<1>8. {"RESPAWNING", "DEAD", "STOPPED"} \subseteq Statuses
  BY DEF Statuses
<1>9. \/ /\ status' = [status EXCEPT ![k] = "RESPAWNING"]
         /\ monitors' = [monitors EXCEPT ![m] = r]
      \/ \E s \in {"DEAD", "STOPPED"} :
           /\ status' = [status EXCEPT ![k] = s]
           /\ monitors' = [monitors EXCEPT ![m] = NoMonitor]
  <2>1. CASE Act(m)
    <3>1. \/ /\ status' = [status EXCEPT ![k] = "RESPAWNING"]
             /\ monitors' = [monitors EXCEPT ![m].pc = "sleep"]
          \/ /\ status' = [status EXCEPT ![k] = "DEAD"]
             /\ monitors' = [monitors EXCEPT ![m] = NoMonitor]
      BY <1>1, <2>1, Zenon DEF Act
    <3>2. [monitors EXCEPT ![m].pc = "sleep"] = [monitors EXCEPT ![m] = r]
      BY <1>2, <1>5
    <3>. QED
      BY <3>1, <3>2
  <2>2. CASE \E c \in Callers : HandOver(c, m)
    BY <1>1, <2>2 DEF HandOver
  <2>. QED
    BY <2>1, <2>2
<1>10. CASE /\ status' = [status EXCEPT ![k] = "RESPAWNING"]
            /\ monitors' = [monitors EXCEPT ![m] = r]
  BY <1>1, <1>2, <1>3, <1>6, <1>7, <1>8, <1>10, ServiceRests
<1>11. ASSUME NEW s \in {"DEAD", "STOPPED"}, status' = [status EXCEPT ![k] = s],
              monitors' = [monitors EXCEPT ![m] = NoMonitor]
       PROVE  Effect
  BY <1>1, <1>2, <1>4, <1>7, <1>8, <1>11, ServiceRests
<1>. QED
  BY <1>9, <1>10, <1>11

LEMMA ReadyEffect ==
  ASSUME UntouchedInv, ChainInv, Frame, NEW m \in Monitors, ProcessReady(m)
  PROVE  Effect
<1>1. /\ monitors \in [Monitors -> MonitorRecords] /\ monitors[m] \in MonitorRecords
      /\ process \in [Services -> {0} \cup Monitors] /\ 0 \notin Monitors
  BY Tables
<1>2. /\ monitors[m].phase = "booting"
      /\ UNCHANGED <<status, process, pending, stale, late>>
      /\ monitors' = [monitors EXCEPT ![m].phase = "ready", ![m].lived = "yes"]
  BY DEF ProcessReady, table, connections, supHistory
<1>3. PICK r : r = [monitors[m] EXCEPT !.phase = "ready", !.lived = "yes"]
  OBVIOUS
<1>4. r.phase = "ready" /\ r.service = monitors[m].service /\ r.pc = monitors[m].pc
  BY <1>1, <1>3 DEF MonitorRecords
<1>5. monitors'[m] = r /\ \A q \in Monitors : q # m => monitors'[q] = monitors[q]
  BY <1>1, <1>2, <1>3
<1>6. \A q \in Monitors : /\ monitors'[q].service = monitors[q].service
                          /\ monitors'[q].pc = monitors[q].pc
                          /\ monitors[q].phase = "gone" => monitors'[q].phase = "gone"
                          /\ monitors'[q].phase \in {"gone", "asked"} =>
                               monitors'[q].phase = monitors[q].phase
                          /\ Alive(q) => Alive(q)'
  BY <1>2, <1>4, <1>5 DEF Alive
<1>7. ChainInv'
  <2>1. ServicesExist'
    BY <1>6, ServicesStillExist DEF ChainInv, ServicesExist
  <2>2. LivesWatched' /\ RestingHasNone'
    BY <1>2, <1>6 DEF ChainInv, LivesWatched, RestingHasNone
  <2>3. AskedIsStopped'
    BY <1>2, <1>6 DEF ChainInv, AskedIsStopped
  <2>4. PendingLives'
    BY <1>2, <1>6 DEF ChainInv, PendingLives
  <2>5. StaleLives'
    <3>. SUFFICES ASSUME NEW c \in stale
                  PROVE  /\ c \in Monitors \X Services /\ Alive(c[1])'
                         /\ monitors'[c[1]].service[1] = c[2][1] /\ c[2][2] # "grader"
      BY <1>2 DEF StaleLives
    <3>1. /\ c \in Monitors \X Services /\ Alive(c[1])
          /\ monitors[c[1]].service[1] = c[2][1] /\ c[2][2] # "grader"
      BY DEF ChainInv, StaleLives
    <3>2. c[1] \in Monitors
      BY <3>1, PairParts
    <3>. QED
      BY <1>6, <3>1, <3>2
  <2>. QED
    BY <2>1, <2>2, <2>3, <2>4, <2>5 DEF ChainInv
<1>8. \A l : Unnoticed(l) => Unnoticed(l)'
  BY <1>6 DEF Unnoticed
<1>9. ToldStays
  <2>. SUFFICES ASSUME NEW p \in Monitors, NEW l \in Services, Told(p, l)
                PROVE  Told(p, l)'
    BY DEF ToldStays
  <2>1. Unnoticed(l) => Told(p, l)'
    BY <1>8 DEF Told
  <2>2. UNCHANGED <<status, process, pending>> /\ monitors'[p].service = monitors[p].service
    BY <1>2, <1>6
  <2>. QED
    BY <2>1, <2>2, ToldKept
<1>10. StaleShape
  <2>. SUFFICES ASSUME NEW c \in stale PROVE Alive(c[1])'
    BY <1>2 DEF StaleShape
  <2>1. c \in Monitors \X Services /\ Alive(c[1])
    BY DEF ChainInv, StaleLives
  <2>2. c[1] \in Monitors
    BY <2>1, PairParts
  <2>. QED
    BY <1>6, <2>1, <2>2
<1>11. EndsUnnoticed
  BY <1>6 DEF EndsUnnoticed
<1>12. DoneStays
  <2>. SUFFICES ASSUME NEW l \in Services, Done(l), process[l] # 0,
                       monitors'[process[l]].phase # "gone"
                PROVE  process[l] \in late \/ status[l] = "SHUTDOWN"
    BY <1>2 DEF DoneStays, Done
  <2>1. monitors[process[l]].phase # "gone"
    BY <1>1, <1>6
  <2>. QED
    BY <2>1 DEF Done
<1>. QED
  BY <1>7, <1>9, <1>10, <1>11, <1>12 DEF Effect

LEMMA SIGHUPEffect ==
  ASSUME UntouchedInv, ChainInv, Frame, NEW m \in Monitors, HandleSIGHUP(m)
  PROVE  Effect
<1>1. /\ UNCHANGED <<status, process, monitors, late>>
      /\ pending' = pending \ {m} /\ stale' = {c \in stale : c[1] # m}
  BY DEF HandleSIGHUP, table, supHistory
<1>2. ServicesExist'
  BY <1>1, ServicesStillExist DEF ChainInv, ServicesExist
<1>3. ChainInv'
  BY <1>1, <1>2 DEF ChainInv, LivesWatched, RestingHasNone, AskedIsStopped, PendingLives,
                    StaleLives, Alive
<1>4. \A l : Unnoticed(l) => Unnoticed(l)'
  BY <1>1 DEF Unnoticed
<1>5. ToldStays
  <2>. SUFFICES ASSUME NEW p \in Monitors, NEW l \in Services, Told(p, l),
                       p \in pending => p \in pending'
                PROVE  Told(p, l)'
    BY DEF ToldStays
  <2>1. Unnoticed(l) => Told(p, l)'
    BY <1>4 DEF Told
  <2>. QED
    BY <1>1, <2>1, ToldKept
<1>6. StaleShape
  BY <1>1 DEF StaleShape, ChainInv, StaleLives, Alive
<1>7. EndsUnnoticed
  BY <1>1 DEF EndsUnnoticed
<1>8. DoneStays
  BY <1>1 DEF DoneStays, Done
<1>. QED
  BY <1>3, <1>5, <1>6, <1>7, <1>8 DEF Effect

LEMMA EndOfOne ==
  ASSUME NEW m \in Monitors, End({m})
  PROVE  /\ pending' = pending \ {m}
         /\ \A c \in stale' :
              \/ c \in stale /\ c[1] # m
              \/ \E p \in Monitors \ {m} : c = <<p, monitors[m].service>> /\ Connected(p, m)
<1>1. ASSUME NEW c \in stale', ~(c \in stale /\ c[1] # m)
      PROVE  \E p \in Monitors \ {m} : c = <<p, monitors[m].service>> /\ Connected(p, m)
  <2>1. PICK pair \in (Monitors \ {m}) \X {m} :
          Connected(pair[1], pair[2]) /\ c = <<pair[1], monitors[pair[2]].service>>
    BY <1>1 DEF End
  <2>2. pair[1] \in Monitors \ {m} /\ pair[2] = m
    BY <2>1, PairParts
  <2>. QED
    BY <2>1, <2>2
<1>. QED
  BY <1>1 DEF End

LEMMA EndEffect ==
  ASSUME UntouchedInv, ChainInv, Frame, NEW m \in Monitors,
         Crash(m) \/ BootFails(m) \/ AskedEnds(m) \/ Fail(m)
  PROVE  Effect
<1>1. /\ Phase(m, "gone") /\ UNCHANGED <<status, process, late>>
      /\ status \in [Services -> Statuses]
  BY Tables DEF Crash, BootFails, AskedEnds, Fail, table, supHistory
<1>2. CASE End({m})
  BY <1>1, <1>2, EndOfOne, PhaseMoves
<1>3. CASE BootFails(m)
  <2>1. UNCHANGED <<pending, stale>> /\ ~Alive(m)
    BY <1>3 DEF BootFails, connections, Alive
  <2>2. m \notin pending /\ \A c \in stale : c[1] # m
    BY <2>1 DEF ChainInv, PendingLives, StaleLives
  <2>3. pending' = pending \ {m} /\ \A c \in stale' : c \in stale /\ c[1] # m
    BY <2>1, <2>2
  <2>. QED
    BY <1>1, <2>3, PhaseMoves
<1>. QED
  BY <1>2, <1>3 DEF Crash, AskedEnds, Fail

LEMMA StopEffect ==
  ASSUME UntouchedInv, ChainInv, Frame, NEW c \in Callers, StopNext(c)
  PROVE  Effect
<1>1. PICK k : k = NextService(c)
  OBVIOUS
<1>2. /\ UNCHANGED <<process, late>> /\ status \in [Services -> Statuses]
      /\ process \in [Services -> {0} \cup Monitors] /\ ProcessIsIts
  BY Tables DEF StopNext, supHistory
<1>3. CASE UNCHANGED <<status, monitors, connections>>
  BY <1>2, <1>3, NothingHappensTo DEF connections
<1>4. CASE ~UNCHANGED <<status, monitors, connections>>
  <2>1. PICK phase :
          phase = IF callers[c].signal = "SIGKILL" THEN "gone" ELSE Terminated(process[k])
    OBVIOUS
  <2>2. PICK m : m = process[k]
    OBVIOUS
  <2>3. /\ Exists(k) /\ m # 0 /\ status' = [status EXCEPT ![k] = "SHUTDOWN"]
        /\ Phase(m, phase)
        /\ IF phase = "gone" THEN End({m}) ELSE UNCHANGED connections
    BY <1>1, <1>4, <2>1, <2>2, Zenon DEF StopNext
  <2>4. k \in Services /\ m \in Monitors /\ monitors[m].service = k
    BY <1>2, <2>2, <2>3, KnownServices DEF ProcessIsIts
  <2>5. /\ status' \in [Services -> Statuses] /\ status'[k] = "SHUTDOWN"
        /\ \A l \in Services : status'[l] = status[l] \/ status'[l] = "SHUTDOWN"
    BY <1>2, <2>3, <2>4 DEF Statuses
  <2>6. CASE phase = "gone"
    <3>1. End({m}) /\ Phase(m, "gone")
      BY <2>3, <2>6
    <3>. QED
      BY <1>2, <2>4, <2>5, <3>1, EndOfOne, PhaseMoves
  <2>7. CASE phase = "asked" /\ monitors[m].phase # "asked"
    <3>1. monitors[m].phase = "ready" /\ monitors[m].service # Web
      BY <2>1, <2>2, <2>7 DEF Terminated
    <3>2. Phase(m, "asked") /\ UNCHANGED <<pending, stale>> /\ Alive(m)
      BY <2>3, <2>7, <3>1 DEF connections, Alive
    <3>. QED
      BY <1>2, <2>4, <2>5, <3>1, <3>2, PhaseMoves
  <2>8. CASE phase = monitors[m].phase /\ phase # "gone"
    <3>1. monitors[m].phase # "booting"
      BY <2>1, <2>2, <2>8 DEF Terminated
    <3>2. monitors' = monitors /\ UNCHANGED <<pending, stale>>
      <4>1. monitors \in [Monitors -> MonitorRecords] /\ monitors[m] \in MonitorRecords
        BY <2>4, Tables
      <4>2. [monitors[m] EXCEPT !.phase = phase] = monitors[m]
        BY <2>8, <4>1 DEF MonitorRecords
      <4>3. monitors' = [monitors EXCEPT ![m] = monitors[m]]
        BY <2>3, <2>4, <4>1, <4>2 DEF Phase
      <4>. QED
        BY <2>3, <2>8, <4>1, <4>3 DEF connections
    <3>3. CASE monitors[m].phase = "asked"
      <4>1. monitors[m].service # Web
        BY <2>4, <3>3 DEF ChainInv, AskedIsStopped
      <4>2. Phase(m, "asked") /\ Alive(m)
        BY <2>3, <2>8, <3>3 DEF Alive
      <4>. QED
        BY <1>2, <2>4, <2>5, <3>2, <4>1, <4>2, PhaseMoves
    <3>4. CASE monitors[m].phase = "ready"
      <4>1. ServicesExist'
        BY <3>2, ServicesStillExist DEF ChainInv, ServicesExist
      <4>2. ChainInv'
        BY <1>2, <2>5, <3>2, <4>1, KnownServices
           DEF ChainInv, LivesWatched, RestingHasNone, AskedIsStopped, PendingLives,
               StaleLives, Alive, ServicesExist
      <4>3. \A l : Unnoticed(l) => Unnoticed(l)'
        BY <3>2 DEF Unnoticed
      <4>4. ToldStays
        <5>. SUFFICES ASSUME NEW p \in Monitors, NEW l \in Services, Told(p, l)
                      PROVE  Told(p, l)'
          BY DEF ToldStays
        <5>1. Unnoticed(l) => Told(p, l)'
          BY <4>3 DEF Told
        <5>2. monitors[p].service \in Services
          BY KnownServices DEF ChainInv, ServicesExist
        <5>. QED
          BY <1>2, <2>5, <3>2, <5>1, <5>2, ToldKept
      <4>5. StaleShape /\ EndsUnnoticed
        BY <3>2 DEF StaleShape, EndsUnnoticed, ChainInv, StaleLives, Alive
      <4>6. DoneStays
        BY <1>2, <2>5, <3>2 DEF DoneStays, Done
      <4>. QED
        BY <4>2, <4>4, <4>5, <4>6 DEF Effect
    <3>5. monitors[m].phase \in Phases
      <4>1. monitors[m] \in MonitorRecords
        BY <2>4, Tables
      <4>. QED
        BY <4>1 DEF MonitorRecords
    <3>. QED
      BY <2>8, <3>1, <3>3, <3>4, <3>5 DEF Phases
  <2>9. phase = "gone" \/ phase = "asked" \/ phase = monitors[m].phase
    BY <2>1, <2>2 DEF Terminated
  <2>. QED
    BY <2>6, <2>7, <2>8, <2>9
<1>. QED
  BY <1>3, <1>4

LEMMA StartEffect ==
  ASSUME UntouchedInv, ChainInv, Frame,
         \/ \E m \in Monitors : Wake(m)
         \/ \E c \in Callers : LaunchService(c) /\ Exists(NextService(c))
  PROVE  Effect
<1>1. ASSUME NEW m \in Monitors, Wake(m) PROVE Effect
  <2>1. PICK k : k = monitors[m].service
    OBVIOUS
  <2>2. Exists(k)
    BY <2>1 DEF ChainInv, ServicesExist
  <2>3. /\ StartProcess(m, k) /\ UNCHANGED <<pending, stale>> /\ monitors[m].pc = "sleep"
        /\ Running
    BY <1>1, <2>1 DEF Wake, connections
  <2>. QED
    BY <2>2, <2>3, ServiceStarts
<1>2. ASSUME NEW c \in Callers, LaunchService(c), Exists(NextService(c)) PROVE Effect
  <2>1. PICK k : k = NextService(c)
    OBVIOUS
  <2>2. UNCHANGED <<pending, stale>> /\ Running
    BY <1>2 DEF LaunchService, connections
  <2>3. CASE status[k] = "RUNNING"
    <3>1. UNCHANGED <<monitors, status, process, late>>
      BY <1>2, <2>1, <2>3 DEF LaunchService
    <3>. QED
      BY <2>2, <3>1, NothingHappensTo
  <2>4. CASE status[k] # "RUNNING"
    <3>1. PICK m \in Monitors : monitors[m].pc = "none" /\ StartProcess(m, k)
      BY <1>2, <2>1, <2>4, Zenon DEF LaunchService
    <3>. QED
      BY <1>2, <2>1, <2>2, <3>1, ServiceStarts
  <2>. QED
    BY <2>3, <2>4
<1>. QED
  BY <1>1, <1>2

-----------------------------------------------------------------------------
(* The supervisor: calls, and what main stops *)

LEMMA HandleFrame ==
  ASSUME NEW c, NEW op, NEW target, NEW then, Handle(c, op, target, then)
  PROVE  /\ DOMAIN config' = DOMAIN config
         /\ \A n \in DOMAIN config : config'[n].name = config[n].name \/ config'[n].name = ""
<1>1. \/ config' = config
      \/ config' = [config EXCEPT ![target[1]] = LoadSupervisorConfig(target[1])]
  BY Zenon DEF Handle
<1>2. LoadSupervisorConfig(target[1]).name = ""
  BY DEF LoadSupervisorConfig
<1>. QED
  BY <1>1, <1>2

\* A goroutine goes on without touching a process.
CallerPlain(c) == Return(c) \/ Expand(c) \/ StartPanics(c) \/ StartNext(c) \/ Timeout(c)

LEMMA PlainEffect ==
  ASSUME UntouchedInv, ChainInv,
         \/ \E c \in Callers : CallerPlain(c)
         \/ \E c \in Clients, command \in Commands : Control(c, command[1], command[2])
         \/ Terminate \/ UNCHANGED supVars
  PROVE  Frame /\ Effect
<1>1. UNCHANGED <<status, process, monitors, pending, stale, late, known>>
  BY DEF CallerPlain, Return, Expand, StartPanics, StartNext, Timeout, Control, Terminate,
         supVars, table, connections, supHistory
<1>2. Running' => Running
  BY DEF CallerPlain, Return, Expand, StartPanics, StartNext, Timeout, Control, Terminate,
         supVars, Running, Serving
<1>3. \/ config' = config
      \/ \E c, op, target, then : Handle(c, op, target, then)
  <2>1. CASE \E c \in Callers : CallerPlain(c)
    <3>1. PICK c \in Callers : CallerPlain(c)
      BY <2>1
    <3>2. CASE Return(c)
      BY <3>2, Zenon DEF Return
    <3>3. CASE Expand(c) \/ StartPanics(c) \/ StartNext(c) \/ Timeout(c)
      BY <3>3 DEF Expand, StartPanics, StartNext, Timeout, table
    <3>. QED
      BY <3>1, <3>2, <3>3 DEF CallerPlain
  <2>2. CASE \E c \in Clients, command \in Commands : Control(c, command[1], command[2])
    BY <2>2, Zenon DEF Control
  <2>3. CASE Terminate \/ UNCHANGED supVars
    BY <2>3 DEF Terminate, supVars, table
  <2>. QED
    BY <2>1, <2>2, <2>3
<1>4. Frame
  <2>1. CASE config' = config
    BY <1>1, <1>2, <2>1 DEF Frame
  <2>2. CASE \E c, op, target, then : Handle(c, op, target, then)
    BY <1>1, <1>2, <2>2, HandleFrame, Zenon DEF Frame
  <2>. QED
    BY <1>3, <2>1, <2>2
<1>. QED
  BY <1>1, <1>4, NothingHappensTo

\* Steps of the supervisor that touch a process.
ProcessStep ==
  \/ \E c \in Callers : \/ LaunchService(c) \/ LaunchFails(c) \/ StopNext(c)
                        \/ \E m \in Monitors : HandOver(c, m)
  \/ \E m \in Monitors :
       \/ MonitorNext(m) \/ Crash(m) \/ BootFails(m) \/ AskedEnds(m) \/ Fail(m)
       \/ ProcessReady(m) \/ HandleSIGHUP(m)

LEMMA ProcessEffect ==
  ASSUME UntouchedInv, ChainInv, CallsExist, ProcessStep
  PROVE  Frame /\ Effect /\ (supervisor' = supervisor \/ supervisor' = "panicked")
<1>1. UNCHANGED <<config, known>> /\ (supervisor' = supervisor \/ supervisor' = "panicked")
  BY DEF ProcessStep, LaunchService, LaunchFails, StopNext, HandOver, MonitorNext, NotifyExit, Act,
         Wake, WakeFails, Crash, BootFails, AskedEnds, Fail, ProcessReady, HandleSIGHUP, table
<1>2. Frame
  BY <1>1 DEF Frame, Running
<1>3. ASSUME NEW c \in Callers, LaunchService(c) PROVE Effect
  <2>1. Exists(NextService(c))
    BY <1>3 DEF CallsExist, LaunchService
  <2>. QED
    BY <1>2, <1>3, <2>1, StartEffect
<1>9. ASSUME NEW c \in Callers, LaunchFails(c) PROVE Effect
  <2>1. Exists(NextService(c))
    BY <1>9 DEF CallsExist, LaunchFails
  <2>. QED
    BY <1>2, <1>9, <2>1, FailureEffect
<1>4. ASSUME NEW c \in Callers, StopNext(c) PROVE Effect
  BY <1>2, <1>4, StopEffect
<1>5. ASSUME NEW m \in Monitors, NEW c \in Callers, HandOver(c, m) PROVE Effect
  BY <1>2, <1>5, MonitorRests
<1>6. ASSUME NEW m \in Monitors, MonitorNext(m) PROVE Effect
  BY <1>2, <1>6, ExitTells, MonitorRests, StartEffect, FailureEffect, Zenon DEF MonitorNext
<1>7. ASSUME NEW m \in Monitors, Crash(m) \/ BootFails(m) \/ AskedEnds(m) \/ Fail(m) PROVE Effect
  BY <1>2, <1>7, EndEffect
<1>8. ASSUME NEW m \in Monitors, ProcessReady(m) \/ HandleSIGHUP(m) PROVE Effect
  BY <1>2, <1>8, ReadyEffect, SIGHUPEffect
<1>. QED
  BY <1>1, <1>2, <1>3, <1>4, <1>5, <1>6, <1>7, <1>8, <1>9, Zenon DEF ProcessStep

\* Every order has all there is.
LEMMA OrderHasAll ==
  ASSUME NEW S, IsFiniteSet(S), NEW order \in Orders(S)
  PROVE  /\ DOMAIN order = 1..Cardinality(S) /\ Cardinality(S) \in Nat
         /\ \A x \in S : \E i \in DOMAIN order : order[i] = x
<1>1. Cardinality(S) \in Nat
  BY FS_CardinalityType
<1>2. PICK D : D = 1..Cardinality(S)
  OBVIOUS
<1>3. Cardinality(D) = Cardinality(S)
  BY <1>1, <1>2, FS_Interval
<1>4. order \in [D -> S] /\ \A i, j \in DOMAIN order : order[i] = order[j] => i = j
  BY <1>2 DEF Orders
<1>5. order \in Injection(D, S)
  BY <1>4 DEF Injection, IsInjective
<1>6. order \in Surjection(D, S)
  BY <1>3, <1>5, FS_Injection
<1>. QED
  BY <1>1, <1>2, <1>4, <1>6 DEF Surjection

LEMMA InOneOrTheOther ==
  ASSUME NEW S, NEW s \in Seq(S), NEW t \in Seq(S)
  PROVE  /\ \A i \in DOMAIN s : i \in DOMAIN (s \o t) /\ (s \o t)[i] = s[i]
         /\ \A i \in DOMAIN t : Len(s) + i \in DOMAIN (s \o t) /\ (s \o t)[Len(s) + i] = t[i]
OBVIOUS

\* The order in which an instance is stopped has all its services.
LEMMA StopsAll ==
  ASSUME ConfigTypes, NEW n \in Instances, NEW list \in ServicesToStop(n)
  PROVE  \A s \in known[n] : \E i \in DOMAIN list : list[i] = <<n, s>>
<1>1. known[n] \subseteq Names
  BY DEF ConfigTypes
<1>2. PICK g : g = <<n, "grader">>
  OBVIOUS
<1>3. PICK order \in Orders(known[n] \ {"grader"}) : list = <<g>> \o InInstance(n, order)
  BY <1>2, Zenon DEF ServicesToStop
<1>4. IsFiniteSet(known[n] \ {"grader"})
  BY <1>1, NamesAreFinite, FS_Subset
<1>5. order \in Seq(known[n] \ {"grader"})
  BY <1>3, <1>4, OrderIsSeq
<1>6. PICK t : t = InInstance(n, order)
  OBVIOUS
<1>7. /\ t \in Seq(Items) /\ DOMAIN t = DOMAIN order
      /\ \A i \in DOMAIN order : t[i] = <<n, order[i]>>
  <2>1. known[n] \ {"grader"} \subseteq STRING \cup {"grader"}
    BY <1>1, ServiceItems
  <2>2. t \in Seq(Items)
    BY <1>5, <1>6, <2>1, SeqOfItems
  <2>. QED
    BY <1>6, <2>2 DEF InInstance
<1>8. <<g>> \in Seq(Items) /\ DOMAIN <<g>> = {1} /\ <<g>>[1] = g
  <2>1. g \in Items
    BY <1>2 DEF Items
  <2>. QED
    BY <2>1, OneItem
<1>9. PICK h : h = <<g>>
  OBVIOUS
<1>10. list = h \o t
  BY <1>3, <1>6, <1>9
<1>11. /\ \A i \in DOMAIN h : i \in DOMAIN list /\ list[i] = h[i]
       /\ \A i \in DOMAIN t : Len(h) + i \in DOMAIN list /\ list[Len(h) + i] = t[i]
  BY <1>7, <1>8, <1>9, <1>10, InOneOrTheOther
<1>. SUFFICES ASSUME NEW s \in known[n] PROVE \E i \in DOMAIN list : list[i] = <<n, s>>
  OBVIOUS
<1>12. CASE s = "grader"
  BY <1>2, <1>8, <1>9, <1>11, <1>12
<1>13. CASE s # "grader"
  <2>0. PICK S : S = known[n] \ {"grader"}
    OBVIOUS
  <2>1. PICK i \in DOMAIN order : order[i] = s
    <3>1. IsFiniteSet(S) /\ order \in Orders(S) /\ s \in S
      BY <1>3, <1>4, <1>13, <2>0
    <3>. QED
      BY <3>1, OrderHasAll
  <2>. QED
    BY <1>7, <1>11, <2>1
<1>. QED
  BY <1>12, <1>13

LEMMA NoStar ==
  ASSUME NEW k \in Services
  PROVE  k[2] # "*" /\ k = <<k[1], k[2]>>
<1>1. Web[2] # "*" /\ Web = <<Web[1], Web[2]>> /\ "*" \notin Names
  BY ConfigurationAssumption, ServiceItems DEF Web, Names
<1>2. CASE k = Web
  BY <1>1, <1>2
<1>3. CASE k # Web
  <2>1. k \in Instances \X Names
    BY <1>3 DEF Services
  <2>2. k[2] \in Names /\ k = <<k[1], k[2]>>
    BY <2>1, PairParts
  <2>. QED
    BY <1>1, <2>2
<1>. QED
  BY <1>2, <1>3

LEMMA CallIs ==
  \A op, target, then, queue :
    /\ Call(op, target, then, queue).pc = "serve" /\ Call(op, target, then, queue).op = op
    /\ Call(op, target, then, queue).then = then /\ Call(op, target, then, queue).queue = queue
BY DEF Call, Idle

LEMMA UnknownHasNone ==
  ASSUME UntouchedInv, ServicesExist, NEW k \in Services, ~Exists(k)
  PROVE  process[k] = 0
<1>. SUFFICES ASSUME process[k] # 0 PROVE FALSE
  OBVIOUS
<1>1. process[k] \in Monitors /\ monitors[process[k]].service = k
  BY Tables DEF ProcessIsIts
<1>. QED
  BY <1>1 DEF ServicesExist

\* What is a call to do next is kept unless it goes on to the next service.
LEMMA NewCalls ==
  ASSUME NEW c, callers \in [Callers -> Calls], NEW op, NEW target, NEW then,
         Handle(c, op, target, then)
  PROVE  \A d \in Callers : d # c \/ callers'[d].pc \in {"idle", "serve"}
<1>1. \/ callers' = [callers EXCEPT ![c] = Idle]
      \/ callers' = [callers EXCEPT ![c] = Call(op, target, then, Named(target[1], target[2]))]
  BY Zenon DEF Handle
<1>2. Idle.pc = "idle" /\ Call(op, target, then, Named(target[1], target[2])).pc = "serve"
  BY CallIs DEF Idle
<1>. QED
  BY <1>1, <1>2

LEMMA OthersKept ==
  ASSUME NEW c, callers \in [Callers -> Calls],
         CallerNext(c) \/ \E op, target, then : Handle(c, op, target, then)
  PROVE  \A d \in Callers \ {c} : callers'[d] = callers[d]
<1>1. CASE \E op, target, then : Handle(c, op, target, then)
  BY <1>1, Zenon DEF Handle
<1>2. CASE Return(c)
  <2>1. \/ \E op, target, then : Handle(c, op, target, then)
        \/ callers' = [callers EXCEPT ![c] = Idle]
    BY <1>2, Zenon DEF Return
  <2>. QED
    BY <1>1, <2>1
<1>3. CASE Expand(c)
  <2>1. PICK q : callers' = [callers EXCEPT ![c].queue = q]
    BY <1>3 DEF Expand
  <2>. QED
    BY <2>1
<1>4. CASE StartPanics(c) \/ StartNext(c) \/ LaunchService(c) \/ LaunchFails(c) \/ StopNext(c)
           \/ Timeout(c) \/ \E m \in Monitors : HandOver(c, m)
  BY <1>4 DEF StartPanics, StartNext, LaunchService, LaunchFails, StopNext, Timeout, HandOver, Skip
<1>. QED
  BY <1>1, <1>2, <1>3, <1>4, Zenon DEF CallerNext

LEMMA CallerLaunches ==
  ASSUME UntouchedInv, CallsExist, NEW c \in Callers, CallerNext(c), callers'[c].pc = "launch"
  PROVE  NextService(c)' = NextService(c) /\ Exists(NextService(c))
<1>0. callers \in [Callers -> Calls] /\ callers[c] \in Calls
  BY Tables
<1>1. ~Return(c)
  <2>. SUFFICES ASSUME Return(c) PROVE FALSE
    OBVIOUS
  <2>1. \/ \E op, target, then : Handle(c, op, target, then)
        \/ callers' = [callers EXCEPT ![c] = Idle]
    BY Zenon DEF Return
  <2>2. ~\E op, target, then : Handle(c, op, target, then)
    BY <1>0, NewCalls
  <2>. QED
    BY <1>0, <2>1, <2>2 DEF Idle
<1>2. ~Expand(c)
  <2>. SUFFICES ASSUME Expand(c) PROVE FALSE
    OBVIOUS
  <2>1. PICK q : callers' = [callers EXCEPT ![c].queue = q]
    BY DEF Expand
  <2>2. callers[c].pc = "serve"
    BY DEF Expand, Serving
  <2>. QED
    BY <1>0, <2>1, <2>2 DEF Calls
<1>3. /\ ~LaunchService(c) /\ ~LaunchFails(c) /\ ~StopNext(c) /\ ~Timeout(c)
      /\ \A m \in Monitors : ~HandOver(c, m)
  BY <1>0 DEF LaunchService, LaunchFails, StopNext, Timeout, HandOver, Skip, Calls
<1>4. CASE StartPanics(c)
  BY <1>4 DEF StartPanics, Serving
<1>5. CASE StartNext(c)
  <2>1. callers' = [callers EXCEPT ![c].pc = "launch"] /\ Exists(NextService(c))
    BY <1>0, <1>5 DEF StartNext, Skip, Calls
  <2>. QED
    BY <1>0, <2>1 DEF NextService, Calls
<1>. QED
  BY <1>1, <1>2, <1>3, <1>4, <1>5, Zenon DEF CallerNext

\* A step of a goroutine, or one that leaves all calls as they are.
LEMMA CallsStillExist ==
  ASSUME UntouchedInv, CallsExist, Frame,
         \/ callers' = callers
         \/ \E c \in Callers : CallerNext(c)
         \/ \E c \in Clients : \E op, target, then : Handle(c, op, target, then)
         \/ Terminate
  PROVE  CallsExist'
<1>. SUFFICES ASSUME NEW d \in Callers, callers'[d].pc = "launch"
              PROVE  Exists(NextService(d))'
  BY DEF CallsExist
<1>0. callers \in [Callers -> Calls]
  BY Tables
<1>1. \A k : Exists(k)' <=> Exists(k)
  BY DEF Exists, Frame
<1>2. PICK k : k = NextService(d)'
  OBVIOUS
<1>3. k = NextService(d) /\ Exists(NextService(d))
  <2>1. CASE callers'[d] = callers[d]
    BY <1>2, <2>1 DEF CallsExist, NextService
  <2>2. ASSUME NEW c \in Callers, CallerNext(c)
        PROVE  k = NextService(d) /\ Exists(NextService(d))
    <3>1. CASE d = c
      BY <1>2, <2>2, <3>1, CallerLaunches
    <3>. QED
      BY <1>0, <2>1, <2>2, <3>1, OthersKept
  <2>3. ASSUME NEW c \in Clients, NEW op, NEW target, NEW then, Handle(c, op, target, then)
        PROVE  k = NextService(d) /\ Exists(NextService(d))
    <3>1. d # c
      BY <1>0, <2>3, NewCalls
    <3>. QED
      BY <1>0, <2>1, <2>3, <3>1, OthersKept
  <2>4. CASE Terminate
    <3>1. PICK q : callers' = [callers EXCEPT !["main"] = Call("stop", Web, "none", q)]
      BY <2>4, Zenon DEF Terminate
    <3>2. d # "main"
      BY <1>0, <3>1, CallIs
    <3>. QED
      BY <1>0, <2>1, <3>1, <3>2
  <2>. QED
    BY <2>1, <2>2, <2>3, <2>4
<1>4. Exists(k)'
  BY <1>1, <1>3
<1>. QED
  BY <1>2, <1>4 DEF Exists

\* Main is not at work, or not with this step.
LEMMA MainKept ==
  ASSUME MainInv, callers'["main"] = callers["main"],
         supervisor' = supervisor \/ supervisor' = "panicked",
         supervisor \in {"closing", "ended"} => DoneStays
  PROVE  MainInv'
<1>1. \A k : Waits(k)' <=> Waits(k)
  BY DEF Waits
<1>2. /\ supervisor' \in {"down", "up"} => callers'["main"] = Idle
      /\ callers'["main"].op = "stop" /\ callers'["main"].then = "none"
      /\ callers'["main"].pc # "launch"
  BY DEF MainInv
<1>3. supervisor' = "closing" => \A k \in Services : (Done(k) \/ Waits(k))'
  BY <1>1 DEF MainInv, DoneStays
<1>4. supervisor' = "ended" => \A k \in Services : Done(k)'
  BY DEF MainInv, DoneStays
<1>. QED
  BY <1>2, <1>3, <1>4 DEF MainInv

LEMMA MainGoesOn ==
  ASSUME MainInv, supervisor = "closing", supervisor' = "closing", DoneStays,
         callers'["main"].op = "stop", callers'["main"].then = "none",
         callers'["main"].pc # "launch",
         \A k \in Services : Waits(k) => Waits(k)' \/ Done(k)'
  PROVE  MainInv'
<1>1. \A k \in Services : (Done(k) \/ Waits(k))'
  BY DEF MainInv, DoneStays
<1>. QED
  BY <1>1 DEF MainInv

LEMMA MainSkips ==
  ASSUME UntouchedInv, MainInv, supervisor = "closing", supervisor' = "closing", DoneStays,
         callers["main"].queue # <<>>, Skip("main"),
         \A k \in Services :
           k = NextService("main") \/ <<k[1], "*">> = NextService("main") => Done(k)'
  PROVE  MainInv'
<1>1. callers \in [Callers -> Calls] /\ "main" \in Callers /\ callers["main"] \in Calls
  BY Tables DEF Callers
<1>2. PICK s : s = callers["main"].queue
  OBVIOUS
<1>3. s \in Seq(Items) /\ s # <<>>
  BY <1>1, <1>2 DEF Calls
<1>4. /\ Head(s) = s[1] /\ \A i \in DOMAIN s : i = 1 \/ (i - 1 \in DOMAIN Tail(s) /\ Tail(s)[i - 1] = s[i])
  BY <1>3, HeadAndTail
<1>5. callers' = [callers EXCEPT !["main"].pc = "serve", !["main"].queue = Tail(s),
                                 !["main"].signal = "SIGTERM"]
  BY <1>2 DEF Skip
<1>6. /\ callers'["main"].op = "stop" /\ callers'["main"].then = "none"
      /\ callers'["main"].pc # "launch" /\ callers'["main"].queue = Tail(s)
  BY <1>1, <1>5 DEF Calls, MainInv
<1>7. ASSUME NEW k \in Services, Waits(k) PROVE Waits(k)' \/ Done(k)'
  <2>1. PICK i \in DOMAIN s : s[i] = k \/ s[i] = <<k[1], "*">>
    BY <1>2, <1>7 DEF Waits
  <2>2. CASE i = 1
    BY <1>2, <1>4, <2>1, <2>2 DEF NextService
  <2>3. CASE i # 1
    <3>1. i - 1 \in DOMAIN Tail(s) /\ Tail(s)[i - 1] = s[i]
      BY <1>4, <2>3
    <3>. QED
      BY <1>6, <2>1, <3>1 DEF Waits
  <2>. QED
    BY <2>2, <2>3
<1>. QED
  BY <1>6, <1>7, MainGoesOn

LEMMA MainStopsNext ==
  ASSUME UntouchedInv, ChainInv, MainInv, supervisor = "closing", Effect, StopNext("main")
  PROVE  MainInv'
<1>1. callers \in [Callers -> Calls] /\ "main" \in Callers /\ callers["main"] \in Calls
  BY Tables DEF Callers
<1>2. PICK h : h = NextService("main")
  OBVIOUS
<1>3. /\ supervisor' = "closing" /\ process' = process /\ h[2] # "*" /\ DoneStays
      /\ callers["main"].queue # <<>>
  BY <1>2 DEF StopNext, Serving, Effect
<1>4. CASE \/ ~Exists(h)
           \/ callers["main"].signal # "SIGKILL" /\ status[h] \in {"STOPPED", "SHUTDOWN"}
           \/ process[h] = 0
  <2>1. Skip("main") /\ UNCHANGED <<status, monitors, connections>>
    BY <1>2, <1>4, Zenon DEF StopNext
  <2>2. ASSUME NEW k \in Services, k = h \/ <<k[1], "*">> = h PROVE Done(k)'
    <3>1. k = h
      BY <1>3, <2>2
    <3>2. process[k] = 0 \/ status[k] = "SHUTDOWN"
      BY <1>4, <3>1, UnknownHasNone DEF ChainInv, RestingHasNone
    <3>. QED
      BY <1>3, <2>1, <3>2 DEF Done
  <2>. QED
    BY <1>2, <1>3, <2>1, <2>2, MainSkips
<1>5. CASE ~(\/ ~Exists(h)
             \/ callers["main"].signal # "SIGKILL" /\ status[h] \in {"STOPPED", "SHUTDOWN"}
             \/ process[h] = 0)
  <2>1. callers' = [callers EXCEPT !["main"].pc = "await"]
    BY <1>2, <1>5, Zenon DEF StopNext
  <2>2. /\ callers'["main"].op = "stop" /\ callers'["main"].then = "none"
        /\ callers'["main"].pc # "launch" /\ callers'["main"].queue = callers["main"].queue
    BY <1>1, <2>1 DEF Calls, MainInv
  <2>3. \A k : Waits(k) => Waits(k)'
    BY <2>2 DEF Waits
  <2>. QED
    BY <1>3, <2>2, <2>3, MainGoesOn
<1>. QED
  BY <1>4, <1>5

LEMMA MainHandsOver ==
  ASSUME UntouchedInv, ChainInv, MainInv, supervisor = "closing", Effect,
         NEW m \in Monitors, HandOver("main", m)
  PROVE  MainInv'
<1>1. callers \in [Callers -> Calls] /\ "main" \in Callers
  BY Tables DEF Callers
<1>2. PICK h : h = NextService("main")
  OBVIOUS
<1>3. /\ supervisor' = "closing" /\ DoneStays /\ Skip("main")
      /\ process' = [process EXCEPT ![h] = 0] /\ monitors[m].service = h
      /\ callers["main"].pc = "await"
  BY <1>2 DEF HandOver, Effect
<1>4. callers["main"].queue # <<>>
  BY <1>1, <1>3 DEF UntouchedInv, CallsInv, CallTypes
<1>5. h \in Services /\ process \in [Services -> {0} \cup Monitors]
  BY <1>3, Tables, KnownServices DEF ChainInv, ServicesExist
<1>6. h[2] # "*"
  BY <1>5, NoStar
<1>7. ASSUME NEW k \in Services, k = h \/ <<k[1], "*">> = h PROVE Done(k)'
  <2>1. k = h
    BY <1>6, <1>7
  <2>. QED
    BY <1>3, <1>5, <2>1 DEF Done
<1>. QED
  BY <1>2, <1>3, <1>4, <1>7, MainSkips

LEMMA MainExpands ==
  ASSUME UntouchedInv, ChainInv, MainInv, supervisor = "closing", Effect, Expand("main")
  PROVE  MainInv'
<1>1. callers \in [Callers -> Calls] /\ "main" \in Callers /\ callers["main"] \in Calls
  BY Tables DEF Callers
<1>2. PICK s : s = callers["main"].queue
  OBVIOUS
<1>3. PICK h : h = NextService("main")
  OBVIOUS
<1>4. PICK list \in ServicesToStop(h[1]) :
        callers' = [callers EXCEPT !["main"].queue = list \o Tail(s)]
  <2>1. callers["main"].op # "start"
    BY DEF MainInv
  <2>. QED
    BY <1>2, <1>3, <2>1 DEF Expand, Serving
<1>5. s \in Seq(Items) /\ s # <<>> /\ h = Head(s) /\ h[2] = "*" /\ callers["main"].pc = "serve"
      /\ supervisor' = "closing" /\ DoneStays /\ UNCHANGED <<process, monitors>>
  BY <1>1, <1>2, <1>3 DEF Calls, Expand, Serving, NextService, Effect, table
<1>6. /\ Head(s) \in Items /\ Tail(s) \in Seq(Items) /\ Head(s) = s[1]
      /\ \A i \in DOMAIN s : i = 1 \/ (i - 1 \in DOMAIN Tail(s) /\ Tail(s)[i - 1] = s[i])
  BY <1>5, HeadAndTail
<1>7. h[1] \in Instances /\ h[1] \in DOMAIN config
  <2>1. h[1] \in DOMAIN config \cup {""}
    BY <1>1, <1>2, <1>3, <1>5, QueueHead DEF UntouchedInv
  <2>. QED
    BY <1>5, <1>6, <2>1, ItemParts, Tables
<1>8. list \in Seq(Items) /\ ConfigTypes
  BY <1>4, <1>7, ListOfInstance, Tables
<1>9. PICK t : t = Tail(s)
  OBVIOUS
<1>10. /\ \A i \in DOMAIN list : i \in DOMAIN (list \o t) /\ (list \o t)[i] = list[i]
       /\ \A i \in DOMAIN t : Len(list) + i \in DOMAIN (list \o t)
                              /\ (list \o t)[Len(list) + i] = t[i]
  BY <1>6, <1>8, <1>9, InOneOrTheOther
<1>11. PICK l : l = list \o t
  OBVIOUS
<1>12. /\ callers'["main"].op = "stop" /\ callers'["main"].then = "none"
       /\ callers'["main"].pc # "launch" /\ callers'["main"].queue = l
  BY <1>1, <1>4, <1>5, <1>9, <1>11 DEF Calls, MainInv
<1>13. ASSUME NEW k \in Services, Waits(k) PROVE Waits(k)' \/ Done(k)'
  <2>1. PICK i \in DOMAIN s : s[i] = k \/ s[i] = <<k[1], "*">>
    BY <1>2, <1>13 DEF Waits
  <2>2. CASE i # 1
    <3>1. i - 1 \in DOMAIN t /\ t[i - 1] = s[i]
      BY <1>6, <1>9, <2>2
    <3>2. Len(list) + (i - 1) \in DOMAIN l /\ l[Len(list) + (i - 1)] = s[i]
      BY <1>10, <1>11, <3>1
    <3>. QED
      BY <1>12, <2>1, <3>2 DEF Waits
  <2>3. CASE i = 1
    <3>1. k[1] = h[1] /\ k = <<k[1], k[2]>> /\ k # Web
      <4>1. h = k \/ h = <<k[1], "*">>
        BY <1>5, <1>6, <2>1, <2>3
      <4>2. k[2] # "*" /\ k = <<k[1], k[2]>>
        BY NoStar
      <4>3. h[1] = k[1]
        BY <1>5, <4>1, <4>2, PairItems
      <4>. QED
        BY <1>7, <4>2, <4>3, ServiceItems
    <3>2. CASE process[k] = 0
      BY <1>5, <3>2 DEF Done
    <3>3. CASE process[k] # 0
      <4>1. Exists(k)
        BY <3>3, UnknownHasNone DEF ChainInv
      <4>2. k[2] \in known[h[1]]
        BY <3>1, <4>1, KnownServices
      <4>3. PICK n : n = h[1]
        OBVIOUS
      <4>4. n \in Instances /\ list \in ServicesToStop(n) /\ k[2] \in known[n]
        BY <1>4, <1>7, <4>2, <4>3
      <4>5. PICK j \in DOMAIN list : list[j] = <<n, k[2]>>
        BY <1>8, <4>4, StopsAll
      <4>6. j \in DOMAIN l /\ l[j] = k
        BY <1>10, <1>11, <3>1, <4>3, <4>5
      <4>. QED
        BY <1>12, <4>6 DEF Waits
    <3>. QED
      BY <3>2, <3>3
  <2>. QED
    BY <2>2, <2>3
<1>. QED
  BY <1>5, <1>12, <1>13, MainGoesOn

LEMMA MainReturns ==
  ASSUME UntouchedInv, MainInv, supervisor = "closing", Effect, Return("main")
  PROVE  MainInv'
<1>1. callers \in [Callers -> Calls] /\ "main" \in Callers
  BY Tables DEF Callers
<1>2. /\ supervisor' = "ended" /\ DoneStays /\ callers["main"].queue = <<>>
  BY DEF Return, Effect
<1>3. callers' = [callers EXCEPT !["main"] = Idle]
  BY DEF Return, MainInv
<1>4. callers'["main"] = Idle
  BY <1>1, <1>3
<1>5. \A k \in Services : ~Waits(k)
  BY <1>2 DEF Waits
<1>6. \A k \in Services : Done(k)'
  BY <1>2, <1>5 DEF MainInv, DoneStays
<1>. QED
  BY <1>2, <1>4, <1>6 DEF MainInv, Idle

\* A step of main stops all that was there when it began.
LEMMA MainStep ==
  ASSUME UntouchedInv, ChainInv, MainInv, CallerNext("main"), Effect
  PROVE  MainInv'
<1>1. callers \in [Callers -> Calls] /\ "main" \in Callers /\ callers["main"] \in Calls
  BY Tables DEF Callers
<1>2. callers["main"].op = "stop" /\ callers["main"].pc # "launch"
  BY DEF MainInv
<1>3. /\ ~StartPanics("main") /\ ~StartNext("main")
      /\ ~LaunchService("main") /\ ~LaunchFails("main")
  BY <1>2 DEF StartPanics, StartNext, LaunchService, LaunchFails, Serving
<1>4. supervisor = "closing"
  <2>1. Running /\ callers["main"].pc # "idle"
    BY <1>3 DEF CallerNext, Return, Expand, StopNext, Timeout, HandOver, Serving
  <2>. QED
    BY <2>1 DEF MainInv, Running, Idle
<1>5. CASE Timeout("main")
  <2>1. /\ callers' = [callers EXCEPT !["main"].pc = "serve", !["main"].signal = "SIGKILL"]
        /\ supervisor' = "closing" /\ DoneStays
    BY <1>4, <1>5 DEF Timeout, Effect
  <2>2. /\ callers'["main"].op = "stop" /\ callers'["main"].then = "none"
        /\ callers'["main"].pc # "launch" /\ callers'["main"].queue = callers["main"].queue
    BY <1>1, <2>1 DEF Calls, MainInv
  <2>3. \A k : Waits(k) => Waits(k)'
    BY <2>2 DEF Waits
  <2>. QED
    BY <1>4, <2>1, <2>2, <2>3, MainGoesOn
<1>. QED
  BY <1>3, <1>4, <1>5, MainReturns, MainExpands, MainStopsNext, MainHandsOver, Zenon
     DEF CallerNext

LEMMA MainBegins ==
  ASSUME UntouchedInv, ChainInv, Terminate
  PROVE  MainInv'
<1>1. callers \in [Callers -> Calls] /\ "main" \in Callers /\ ConfigTypes
  BY Tables DEF Callers
<1>2. PICK order \in Orders(DOMAIN config) :
        callers' = [callers EXCEPT !["main"] = Call("stop", Web, "none", <<Web>> \o AllOf(order))]
  BY Zenon DEF Terminate
<1>3. PICK w : w = Web
  OBVIOUS
<1>4. PICK t : t = AllOf(order)
  OBVIOUS
<1>5. PICK l : l = <<w>> \o t
  OBVIOUS
<1>6. /\ callers'["main"].op = "stop" /\ callers'["main"].then = "none"
      /\ callers'["main"].pc = "serve" /\ callers'["main"].queue = l
  <2>1. callers'["main"] = Call("stop", Web, "none", l)
    BY <1>1, <1>2, <1>3, <1>4, <1>5
  <2>. QED
    BY <2>1, CallIs
<1>7. PICK D : D = DOMAIN config
  OBVIOUS
<1>8. D \subseteq Instances /\ IsFiniteSet(D) /\ order \in Orders(D)
  BY <1>1, <1>2, <1>7, ConfigurationAssumption, FS_Subset DEF ConfigTypes
<1>9. order \in Seq(D) /\ \A n \in D : \E i \in DOMAIN order : order[i] = n
  BY <1>8, OrderIsSeq, OrderHasAll
<1>10. t \in Seq(Items) /\ DOMAIN t = DOMAIN order
       /\ \A i \in DOMAIN order : t[i] = <<order[i], "*">>
  <2>1. t \in Seq(Items)
    BY <1>4, <1>8, <1>9, AllOfItems
  <2>. QED
    BY <1>4, <2>1 DEF AllOf
<1>11. <<w>> \in Seq(Items) /\ DOMAIN <<w>> = {1} /\ <<w>>[1] = w
  BY <1>3, ServiceItems, OneItem
<1>12. PICK h : h = <<w>>
  OBVIOUS
<1>13. /\ \A i \in DOMAIN h : i \in DOMAIN l /\ l[i] = h[i]
       /\ \A i \in DOMAIN t : Len(h) + i \in DOMAIN l /\ l[Len(h) + i] = t[i]
  BY <1>5, <1>10, <1>11, <1>12, InOneOrTheOther
<1>14. ASSUME NEW k \in Services PROVE (Done(k) \/ Waits(k))'
  <2>1. CASE k = Web
    <3>1. 1 \in DOMAIN l /\ l[1] = k
      BY <1>3, <1>11, <1>12, <1>13, <2>1
    <3>. QED
      BY <1>6, <3>1 DEF Waits
  <2>2. CASE k # Web /\ k[1] \in D
    <3>1. PICK i \in DOMAIN order : order[i] = k[1]
      BY <1>9, <2>2
    <3>2. Len(h) + i \in DOMAIN l /\ l[Len(h) + i] = <<k[1], "*">>
      BY <1>10, <1>13, <3>1
    <3>. QED
      BY <1>6, <3>2 DEF Waits
  <2>3. CASE k # Web /\ k[1] \notin D
    <3>1. known[k[1]] = {}
      BY <1>7, <2>3, ServiceItems DEF ChainInv, ServicesExist
    <3>2. ~Exists(k)
      BY <2>3, <3>1, KnownServices
    <3>3. process'[k] = 0
      BY <3>2, UnknownHasNone DEF ChainInv, Terminate, table
    <3>. QED
      BY <3>3 DEF Done
  <2>. QED
    BY <2>1, <2>2, <2>3
<1>15. supervisor' = "closing"
  BY DEF Terminate
<1>. QED
  BY <1>6, <1>14, <1>15 DEF MainInv

\* What the steps of the machine are to the supervisor.
SupStep ==
  \/ Boot \/ Terminate \/ ProcessStep \/ UNCHANGED supVars
  \/ \E c \in Callers : CallerPlain(c)
  \/ \E c \in Clients, command \in Commands : Control(c, command[1], command[2])

LEMMA HostStepIsSupStep ==
  ASSUME [HostNext]_hostVars
  PROVE  SupStep
<1>1. CASE InstallStep \/ WebStep \/ UNCHANGED hostVars
  <2>1. UNCHANGED supVars
    BY <1>1 DEF InstallStep, WebStep, hostVars
  <2>. QED
    BY <2>1 DEF SupStep
<1>2. CASE SupervisorStep
  <2>1. CASE SupEvent
    BY <2>1, Zenon DEF SupEvent, SupStep, ProcessStep
  <2>2. CASE \E c \in Callers : CallerNext(c)
    BY <2>2, Zenon DEF CallerNext, CallerPlain, SupStep, ProcessStep
  <2>3. ASSUME NEW m \in Monitors,
               MonitorNext(m) \/ BootFails(m) \/ AskedEnds(m) \/ WebReady(m) \/ WebHandlesSIGHUP(m)
        PROVE  SupStep
    <3>1. WebReady(m) => ProcessReady(m)
      BY DEF WebReady
    <3>2. WebHandlesSIGHUP(m) => HandleSIGHUP(m)
      BY DEF WebHandlesSIGHUP
    <3>. QED
      BY <2>3, <3>1, <3>2, Zenon DEF SupStep, ProcessStep
  <2>. QED
    BY <1>2, <2>1, <2>2, <2>3, Zenon DEF SupervisorStep
<1>3. CASE WebPanics
  <2>1. \/ UNCHANGED supVars \/ \E m \in Monitors : Fail(m)
    BY <1>3, Zenon DEF WebPanics
  <2>. QED
    BY <2>1, Zenon DEF SupStep, ProcessStep
<1>. QED
  BY <1>1, <1>2, <1>3, Zenon DEF HostNext

LEMMA NoneBeforeBoot ==
  ASSUME ChainInv, NothingRunsYet, supervisor = "down"
  PROVE  /\ ~ProcessStep /\ pending = {}
         /\ \A c \in Callers : ~CallerPlain(c)
         /\ \A c \in Clients, command \in Commands : ~Control(c, command[1], command[2])
<1>1. ~Running /\ \A m \in Monitors : monitors[m].phase = "gone"
  BY DEF Running, NothingRunsYet, NoMonitor
<1>2. pending = {}
  BY <1>1 DEF ChainInv, PendingLives, Alive
<1>3. \A c \in Callers : /\ ~LaunchService(c) /\ ~LaunchFails(c) /\ ~StopNext(c)
                         /\ \A m \in Monitors : ~HandOver(c, m)
  BY <1>1 DEF LaunchService, LaunchFails, StopNext, HandOver, Serving
<1>4. \A m \in Monitors : /\ ~NotifyExit(m) /\ ~Act(m) /\ ~Wake(m) /\ ~WakeFails(m)
                          /\ ~HandleSIGHUP(m)
  BY <1>1, <1>2 DEF NotifyExit, Act, Wake, WakeFails, HandleSIGHUP
<1>5. \A m \in Monitors : ~Crash(m) /\ ~BootFails(m) /\ ~AskedEnds(m) /\ ~Fail(m) /\ ~ProcessReady(m)
  BY <1>1 DEF Crash, BootFails, AskedEnds, Fail, ProcessReady
<1>6. \A c \in Callers : ~CallerPlain(c)
  BY <1>1 DEF CallerPlain, Return, Expand, StartPanics, StartNext, Timeout, Serving
<1>7. \A c \in Clients, command \in Commands : ~Control(c, command[1], command[2])
  BY <1>1 DEF Control
<1>. QED
  BY <1>2, <1>3, <1>4, <1>5, <1>6, <1>7, Zenon DEF ProcessStep, MonitorNext

LEMMA BootLeaves ==
  ASSUME UntouchedInv, LeftInv, Boot
  PROVE  LeftInv'
<1>1. /\ supervisor = "down" /\ supervisor' = "up"
      /\ config' = [n \in ConfiguredInstances |-> LoadInstanceConfig(n)]
      /\ known' = [n \in Instances |-> IF n \in ConfiguredInstances THEN CreateServices(n) ELSE {}]
      /\ status' = [k \in Services |-> InitialStatus(k)]
      /\ UNCHANGED <<process, tries, monitors, pending, stale>>
  BY DEF Boot, connections
<1>2. /\ stale = {} /\ pending = {} /\ \A m \in Monitors : monitors[m] = NoMonitor
      /\ \A k \in Services : process[k] = 0
  BY <1>1, NoneBeforeBoot DEF LeftInv, NothingRunsYet
<1>3. callers \in [Callers -> Calls] /\ \A c \in Callers : callers[c] = Idle
  BY <1>1, Tables DEF UntouchedInv, NothingBeforeBoot
<1>4. PICK q : callers' = [callers EXCEPT !["autostart"] = Call("start", Web, "none", q)]
  BY Zenon DEF Boot
<1>5. "main" \in Callers /\ "autostart" \in Callers
  BY DEF Callers
<1>6. \A c \in Callers : callers'[c].pc \in {"idle", "serve"}
  <2>1. Idle.pc = "idle" /\ Call("start", Web, "none", q).pc = "serve"
    BY CallIs DEF Idle
  <2>. QED
    BY <1>3, <1>4, <1>5, <2>1
<1>7. ServicesExist'
  <2>1. \A m \in Monitors : monitors'[m].service = Web
    BY <1>1, <1>2 DEF NoMonitor
  <2>2. DOMAIN config' = ConfiguredInstances
    BY <1>1
  <2>3. \A n \in Instances \ DOMAIN config' : known'[n] = {}
    BY <1>1, <2>2
  <2>. QED
    BY <2>1, <2>3 DEF ServicesExist, Exists
<1>8. ChainInv'
  <2>1. \A m \in Monitors : monitors'[m].phase = "gone"
    BY <1>1, <1>2 DEF NoMonitor
  <2>. QED
    BY <1>1, <1>2, <1>7, <2>1 DEF ChainInv, LivesWatched, RestingHasNone, AskedIsStopped,
                                   PendingLives, StaleLives
<1>9. StaleTold' /\ CallsExist'
  BY <1>1, <1>2, <1>6 DEF StaleTold, CallsExist
<1>10. MainInv'
  <2>1. callers'["main"] = Idle
    BY <1>3, <1>4, <1>5
  <2>. QED
    BY <1>1, <2>1 DEF MainInv, Idle
<1>11. SupTypes' /\ NothingRunsYet'
  BY <1>1 DEF SupTypes, NothingRunsYet, LeftInv
<1>. QED
  BY <1>8, <1>9, <1>10, <1>11 DEF LeftInv

LEMMA TriesAreNumbers ==
  ASSUME UntouchedInv, ChainInv, CallsExist, SupTypes, ProcessStep
  PROVE  tries' \in [Services -> Nat]
<1>1. tries \in [Services -> Nat] /\ \A m \in Monitors : monitors[m].service \in Services
  BY KnownServices DEF SupTypes, ChainInv, ServicesExist
<1>2. ASSUME NEW m \in Monitors, Act(m) PROVE tries' \in [Services -> Nat]
  <2>1. tries' \in {tries, [tries EXCEPT ![monitors[m].service] = 0]}
    BY <1>2 DEF Act
  <2>. QED
    BY <1>1, <2>1
<1>3. ASSUME NEW m \in Monitors, Wake(m) \/ WakeFails(m) PROVE tries' \in [Services -> Nat]
  <2>1. tries' = [tries EXCEPT ![monitors[m].service] = tries[monitors[m].service] + 1]
    BY <1>3 DEF Wake, WakeFails
  <2>. QED
    BY <1>1, <2>1
<1>4. ASSUME NEW c \in Callers, LaunchService(c) \/ LaunchFails(c)
      PROVE  tries' \in [Services -> Nat]
  <2>1. tries' = tries \/ tries' = [tries EXCEPT ![NextService(c)] = 0]
    BY <1>4, Zenon DEF LaunchService, LaunchFails
  <2>. QED
    BY <1>1, <2>1
<1>5. CASE tries' = tries
  BY <1>1, <1>5
<1>6. \/ tries' = tries
      \/ \E m \in Monitors : Act(m) \/ Wake(m) \/ WakeFails(m)
      \/ \E c \in Callers : LaunchService(c) \/ LaunchFails(c)
  BY DEF ProcessStep, StopNext, HandOver, MonitorNext, NotifyExit, Crash, BootFails, AskedEnds,
         Fail, ProcessReady, HandleSIGHUP, table
<1>. QED
  BY <1>2, <1>3, <1>4, <1>5, <1>6

LEMMA LeftStep ==
  ASSUME UntouchedInv, LeftInv, SupStep
  PROVE  LeftInv' /\ (supervisor # "down" => Frame /\ Effect)
<1>1. CASE Boot
  <2>1. supervisor = "down"
    BY <1>1 DEF Boot
  <2>. QED
    BY <1>1, <2>1, BootLeaves
<1>2. ASSUME Frame, Effect, SupTypes', CallsExist', MainInv', NothingRunsYet'
      PROVE  LeftInv' /\ Frame /\ Effect
  BY <1>2, EffectTells DEF LeftInv, Effect
<1>3. callers \in [Callers -> Calls] /\ "main" \in Callers /\ "main" \notin Clients
  BY Tables, SupervisorServiceAssumption DEF Callers
<1>4. ASSUME NEW c \in Clients, NEW command \in Commands, Control(c, command[1], command[2])
      PROVE  LeftInv' /\ Frame /\ Effect
  <2>1. Frame /\ Effect
    BY <1>4, PlainEffect DEF LeftInv
  <2>2. \E op, target, then : Handle(c, op, target, then)
    BY <1>4, Zenon DEF Control
  <2>3. CallsExist'
    BY <2>1, <2>2, CallsStillExist DEF LeftInv
  <2>4. callers'["main"] = callers["main"]
    BY <1>3, <2>2, OthersKept
  <2>5. supervisor' = supervisor /\ supervisor # "down" /\ tries' = tries
    BY <1>4 DEF Control, Running, table, Handle
  <2>6. MainInv' /\ SupTypes' /\ NothingRunsYet'
    BY <2>1, <2>4, <2>5, MainKept DEF LeftInv, SupTypes, NothingRunsYet, Effect
  <2>. QED
    BY <1>2, <2>1, <2>3, <2>6
<1>5. CASE Terminate
  <2>1. Frame /\ Effect
    BY <1>5, PlainEffect DEF LeftInv
  <2>2. MainInv' /\ CallsExist'
    BY <1>5, <2>1, MainBegins, CallsStillExist DEF LeftInv
  <2>3. SupTypes' /\ NothingRunsYet'
    BY <1>5 DEF Terminate, table, SupTypes, NothingRunsYet, LeftInv
  <2>. QED
    BY <1>2, <2>1, <2>2, <2>3
<1>6. CASE UNCHANGED supVars
  <2>1. Frame /\ Effect
    BY <1>6, PlainEffect DEF LeftInv
  <2>2. UNCHANGED <<supervisor, callers, tries, monitors, process, stale>>
    BY <1>6 DEF supVars, table, connections
  <2>3. MainInv' /\ CallsExist'
    BY <2>1, <2>2, MainKept, CallsStillExist DEF LeftInv, Effect
  <2>4. SupTypes' /\ NothingRunsYet'
    BY <2>2 DEF SupTypes, NothingRunsYet, LeftInv
  <2>. QED
    BY <1>2, <2>1, <2>3, <2>4
<1>7. ASSUME NEW c \in Callers, CallerPlain(c)
      PROVE  LeftInv' /\ Frame /\ Effect
  <2>1. Frame /\ Effect
    BY <1>7, PlainEffect DEF LeftInv
  <2>2. CallerNext(c)
    BY <1>7, Zenon DEF CallerPlain, CallerNext
  <2>3. CallsExist'
    BY <2>1, <2>2, CallsStillExist DEF LeftInv
  <2>4. /\ supervisor # "down" /\ tries' = tries
        /\ supervisor' \in {supervisor, "panicked"} \/ (c = "main" /\ supervisor' = "ended")
    <3>1. supervisor # "down"
      BY <1>7, NoneBeforeBoot DEF LeftInv
    <3>2. CASE Return(c)
      BY <3>1, <3>2 DEF Return
    <3>3. CASE Expand(c) \/ StartPanics(c) \/ StartNext(c) \/ Timeout(c)
      BY <3>1, <3>3 DEF Expand, StartPanics, StartNext, Timeout, table
    <3>. QED
      BY <1>7, <3>2, <3>3 DEF CallerPlain
  <2>5. MainInv'
    <3>1. CASE c = "main"
      BY <2>1, <2>2, <3>1, MainStep DEF LeftInv
    <3>2. CASE c # "main"
      <4>1. callers'["main"] = callers["main"]
        BY <1>3, <2>2, <3>2, OthersKept
      <4>. QED
        BY <2>1, <2>4, <3>2, <4>1, MainKept DEF LeftInv, Effect
    <3>. QED
      BY <3>1, <3>2
  <2>6. SupTypes' /\ NothingRunsYet'
    BY <2>4 DEF SupTypes, NothingRunsYet, LeftInv
  <2>. QED
    BY <1>2, <2>1, <2>3, <2>5, <2>6
<1>8. CASE ProcessStep
  <2>1. Frame /\ Effect /\ (supervisor' = supervisor \/ supervisor' = "panicked")
    BY <1>8, ProcessEffect DEF LeftInv
  <2>2. supervisor # "down"
    BY <1>8, NoneBeforeBoot DEF LeftInv
  <2>3. callers' = callers \/ \E c \in Callers : CallerNext(c)
    <3>1. CASE \E c \in Callers : \/ LaunchService(c) \/ LaunchFails(c) \/ StopNext(c)
                                  \/ \E m \in Monitors : HandOver(c, m)
      BY <3>1, Zenon DEF CallerNext
    <3>2. CASE \E m \in Monitors :
                 \/ MonitorNext(m) \/ Crash(m) \/ BootFails(m) \/ AskedEnds(m) \/ Fail(m)
                 \/ ProcessReady(m) \/ HandleSIGHUP(m)
      BY <3>2 DEF MonitorNext, NotifyExit, Act, Wake, WakeFails, Crash, BootFails, AskedEnds,
                  Fail, ProcessReady, HandleSIGHUP
    <3>. QED
      BY <1>8, <3>1, <3>2, Zenon DEF ProcessStep
  <2>4. CallsExist'
    BY <2>1, <2>3, CallsStillExist DEF LeftInv
  <2>5. MainInv'
    <3>1. CASE CallerNext("main")
      BY <2>1, <3>1, MainStep DEF LeftInv
    <3>2. CASE callers' = callers \/ \E c \in Callers \ {"main"} : CallerNext(c)
      <4>1. callers'["main"] = callers["main"]
        BY <1>3, <3>2, OthersKept
      <4>. QED
        BY <2>1, <4>1, MainKept DEF LeftInv, Effect
    <3>. QED
      BY <2>3, <3>1, <3>2
  <2>6. SupTypes' /\ NothingRunsYet'
    BY <1>8, <2>1, <2>2, TriesAreNumbers DEF SupTypes, NothingRunsYet, LeftInv
  <2>. QED
    BY <1>2, <2>1, <2>4, <2>5, <2>6
<1>. QED
  BY <1>1, <1>4, <1>5, <1>6, <1>7, <1>8, Zenon DEF SupStep

LEMMA LeftInit == HostInit => LeftInv
<1>. SUFFICES ASSUME SupInit PROVE LeftInv
  BY Zenon DEF HostInit
<1>1. "main" \in Callers /\ DOMAIN config = {}
  BY DEF Callers, SupInit
<1>2. ServicesExist
  <2>1. \A m \in Monitors : monitors[m].service = Web
    BY DEF SupInit, NoMonitor
  <2>2. \A n \in Instances : known[n] = {}
    BY DEF SupInit
  <2>. QED
    BY <2>1, <2>2 DEF ServicesExist, Exists
<1>3. ChainInv
  <2>1. \A m \in Monitors : monitors[m].phase = "gone"
    BY DEF SupInit, NoMonitor
  <2>2. pending = {} /\ stale = {} /\ \A k \in Services : process[k] = 0
    BY DEF SupInit
  <2>. QED
    BY <1>2, <2>1, <2>2 DEF ChainInv, LivesWatched, RestingHasNone, AskedIsStopped, PendingLives,
                       StaleLives
<1>4. StaleTold /\ CallsExist /\ NothingRunsYet /\ SupTypes
  BY DEF SupInit, StaleTold, CallsExist, NothingRunsYet, SupTypes, Idle
<1>5. MainInv
  BY <1>1 DEF SupInit, MainInv, Idle
<1>. QED
  BY <1>3, <1>4, <1>5 DEF LeftInv

LEMMA LeftInvariant == HostSpec => [](UntouchedInv /\ LeftInv)
<1>1. InstallIInv => InstallTypes
  BY DEF InstallIInv
<1>2. InstallIInv /\ (UntouchedInv /\ LeftInv) /\ [HostNext]_hostVars => (UntouchedInv /\ LeftInv)'
  BY <1>1, UntouchedStep, HostStepIsSupStep, LeftStep
<1>3. HostInit => UntouchedInv /\ LeftInv
  BY UntouchedInit, LeftInit
<1>. QED
  BY <1>2, <1>3, InstallInvariant, PTL DEF HostSpec

\* Who has a connection to a service that has ended is told of it by a
\* SIGHUP, through any interleaving of ends, restarts and calls: nothing is
\* lost between the end of a process and the notification by its monitor.
\* The instances may have any names, that of a service too, in which case
\* the check in NotifyOnServiceExit leaves their services untold.
THEOREM StaleServicesAreTold == HostSpec => []StaleIsTold
<1>1. LeftInv => StaleIsTold
  <2>. SUFFICES ASSUME LeftInv, NEW c \in stale
                PROVE  LET k == monitors[c[1]].service IN
                       \/ c[1] \in pending \/ Unnoticed(c[2])
                       \/ process[k] # c[1] \/ status[k] # "RUNNING" \/ ~Running
                       \/ k # Web /\ (config[k[1]].name # k[1] \/ k[1] = c[2][2])
    BY DEF StaleIsTold
  <2>1. Told(c[1], c[2])
    BY DEF LeftInv, StaleTold
  <2>. QED
    BY <2>1 DEF Told
<1>. QED
  BY <1>1, LeftInvariant, PTL

\* Main stops whatever the table has, also what was started, restarted or
\* handed over while it was at work, and services that the configuration no
\* longer enables.
THEOREM NothingIsLeftBehind == HostSpec => []NothingLeftBehind
<1>1. UntouchedInv /\ LeftInv => NothingLeftBehind
  <2>. SUFFICES ASSUME UntouchedInv, LeftInv, supervisor = "ended", NEW m \in Monitors,
                       monitors[m].phase # "gone", process[monitors[m].service] = m
                PROVE  m \in late \/ status[monitors[m].service] = "SHUTDOWN"
    BY DEF NothingLeftBehind
  <2>1. PICK k : k = monitors[m].service
    OBVIOUS
  <2>2. k \in Services
    BY <2>1, KnownServices DEF LeftInv, ChainInv, ServicesExist
  <2>3. Done(k) /\ m # 0
    BY <2>2, Tables DEF LeftInv, MainInv
  <2>. QED
    BY <2>1, <2>3 DEF Done
<1>. QED
  BY <1>1, LeftInvariant, PTL

-----------------------------------------------------------------------------
(* The web server and the ends of services *)

\* The steps that the web server follows.
FollowedStep ==
  \/ SupEvent \/ (\E c \in Callers : CallerNext(c))
  \/ \E m \in Monitors : MonitorNext(m) \/ BootFails(m) \/ AskedEnds(m) \/ Fail(m)

\* A process that is ready stays so, and keeps its SIGHUP, or ends.
ReadyStays(m) ==
  /\ monitors'[m].phase = "ready" =>
       monitors[m].phase = "ready" /\ (m \in pending => m \in pending')
  /\ monitors[m].phase = "ready" /\ monitors[m].service = Web =>
       monitors'[m].phase \in {"ready", "gone"}
  /\ Alive(m) => monitors'[m].service = monitors[m].service

LEMMA ReadyKept ==
  ASSUME NEW m \in Monitors, monitors'[m] = monitors[m], pending \subseteq pending'
  PROVE  ReadyStays(m)
BY DEF ReadyStays

LEMMA ReadyReplaced ==
  ASSUME NEW m \in Monitors, NEW q \in Monitors, NEW r, ~Alive(q),
         r.phase # "ready", monitors \in [Monitors -> MonitorRecords],
         monitors' = [monitors EXCEPT ![q] = r], UNCHANGED pending
  PROVE  ReadyStays(m)
BY DEF ReadyStays, Alive

LEMMA ReadyMoves ==
  ASSUME NEW m \in Monitors, NEW q \in Monitors, NEW phase, Phase(q, phase),
         phase # "ready" \/ monitors[q].phase = "ready", monitors \in [Monitors -> MonitorRecords],
         phase = "asked" => monitors[q].service # Web,
         phase \in Phases, phase = "booting" => monitors[q].phase # "ready",
         pending \ {q} \subseteq pending', phase # "gone" => pending \subseteq pending'
  PROVE  ReadyStays(m)
<1>1. PICK r : r = [monitors[q] EXCEPT !.phase = phase]
  OBVIOUS
<1>2. r.phase = phase /\ r.service = monitors[q].service
  BY <1>1 DEF MonitorRecords
<1>3. monitors' = [monitors EXCEPT ![q] = r]
  BY <1>1 DEF Phase
<1>4. CASE m = q
  <2>1. monitors'[m] = r
    BY <1>3, <1>4
  <2>. QED
    BY <1>2, <1>4, <2>1 DEF ReadyStays, Phases, Alive
<1>5. CASE m # q
  BY <1>3, <1>5 DEF ReadyStays
<1>. QED
  BY <1>4, <1>5

LEMMA ReadyFollowed ==
  ASSUME UntouchedInv, ChainInv, FollowedStep, NEW m \in Monitors
  PROVE  ReadyStays(m)
<1>1. monitors \in [Monitors -> MonitorRecords] /\ process \in [Services -> {0} \cup Monitors]
  BY Tables
<1>2. CASE monitors' = monitors /\ pending \subseteq pending'
  BY <1>2, ReadyKept
<1>3. ASSUME NEW q \in Monitors, Crash(q) \/ BootFails(q) \/ AskedEnds(q) \/ Fail(q)
      PROVE  ReadyStays(m)
  <2>1. Phase(q, "gone") /\ pending \ {q} \subseteq pending'
    BY <1>3 DEF Crash, BootFails, AskedEnds, Fail, End, connections
  <2>. QED
    BY <1>1, <2>1, ReadyMoves DEF Phases
<1>4. ASSUME NEW c \in Callers, StopNext(c) PROVE ReadyStays(m)
  <2>1. PICK k : k = NextService(c)
    OBVIOUS
  <2>2. CASE UNCHANGED <<status, monitors, connections>>
    BY <1>2, <2>2 DEF connections
  <2>3. CASE ~UNCHANGED <<status, monitors, connections>>
    <3>1. PICK phase :
            phase = IF callers[c].signal = "SIGKILL" THEN "gone" ELSE Terminated(process[k])
      OBVIOUS
    <3>2. PICK q : q = process[k]
      OBVIOUS
    <3>3. /\ Exists(k) /\ q # 0 /\ Phase(q, phase)
          /\ IF phase = "gone" THEN End({q}) ELSE UNCHANGED connections
      BY <1>4, <2>1, <2>3, <3>1, <3>2, Zenon DEF StopNext
    <3>4. q \in Monitors
      BY <1>1, <3>2, <3>3, KnownServices
    <3>5. phase = "gone" \/ phase = Terminated(q)
      BY <3>1, <3>2
    <3>6. /\ monitors[q].phase \in Phases
          /\ monitors[q].phase = "asked" => monitors[q].service # Web
      BY <1>1, <3>4 DEF MonitorRecords, ChainInv, AskedIsStopped
    <3>7. /\ phase \in Phases /\ phase # "booting"
          /\ phase # "ready" \/ monitors[q].phase = "ready"
          /\ phase = "asked" => monitors[q].service # Web
      BY <3>5, <3>6 DEF Terminated, Phases
    <3>8. pending \ {q} \subseteq pending' /\ (phase # "gone" => pending \subseteq pending')
      BY <3>3 DEF End, connections
    <3>. QED
      BY <1>1, <3>3, <3>4, <3>7, <3>8, ReadyMoves
  <2>. QED
    BY <2>2, <2>3
<1>5. ASSUME NEW q \in Monitors, NEW k, StartProcess(q, k), monitors[q].pc \in {"none", "sleep"},
             UNCHANGED pending
      PROVE  ReadyStays(m)
  <2>1. ~Alive(q) /\ Launched(k).phase # "ready"
    BY <1>5 DEF ChainInv, LivesWatched, Launched, Alive
  <2>2. monitors' = [monitors EXCEPT ![q] = Launched(k)]
    BY <1>5 DEF StartProcess
  <2>3. PICK r : r = Launched(k)
    OBVIOUS
  <2>. QED
    BY <1>1, <1>5, <2>1, <2>2, <2>3, ReadyReplaced
<1>6. ASSUME NEW c \in Callers, LaunchService(c) PROVE ReadyStays(m)
  <2>1. \/ monitors' = monitors
        \/ \E q \in Monitors : monitors[q].pc = "none" /\ StartProcess(q, NextService(c))
    BY <1>6, Zenon DEF LaunchService
  <2>2. UNCHANGED pending
    BY <1>6 DEF LaunchService, connections
  <2>. QED
    BY <1>2, <1>5, <2>1, <2>2
<1>7. ASSUME NEW q \in Monitors, Wake(q) PROVE ReadyStays(m)
  BY <1>5, <1>7 DEF Wake, connections
<1>14. ASSUME NEW c \in Callers, LaunchFails(c) PROVE ReadyStays(m)
  BY <1>2, <1>14 DEF LaunchFails, connections
<1>15. ASSUME NEW q \in Monitors, WakeFails(q) PROVE ReadyStays(m)
  <2>1. ~Alive(q) /\ monitors[q].phase # "ready" /\ UNCHANGED pending
    BY <1>15 DEF WakeFails, connections, ChainInv, LivesWatched, Alive
  <2>2. PICK r : r = [monitors[q] EXCEPT !.pc = "failed"]
    OBVIOUS
  <2>3. r.phase = monitors[q].phase
    BY <1>1, <2>2 DEF MonitorRecords
  <2>4. monitors' = [monitors EXCEPT ![q] = r]
    BY <1>1, <1>15, <2>2 DEF WakeFails
  <2>. QED
    BY <1>1, <2>1, <2>3, <2>4, ReadyReplaced
<1>8. ASSUME NEW q \in Monitors, Act(q) \/ \E c \in Callers : HandOver(c, q)
      PROVE  ReadyStays(m)
  <2>1. ~Alive(q) /\ monitors[q].phase # "ready" /\ UNCHANGED pending
    BY <1>8 DEF Act, HandOver, connections, ChainInv, LivesWatched, Alive
  <2>2. \/ monitors' = [monitors EXCEPT ![q].pc = "sleep"]
        \/ monitors' = [monitors EXCEPT ![q] = NoMonitor]
    BY <1>8 DEF Act, HandOver
  <2>3. PICK r : r = [monitors[q] EXCEPT !.pc = "sleep"]
    OBVIOUS
  <2>4. r.phase = monitors[q].phase
    BY <1>1, <2>3 DEF MonitorRecords
  <2>5. PICK n : n = NoMonitor
    OBVIOUS
  <2>6. n.phase # "ready"
    BY <2>5 DEF NoMonitor
  <2>7. monitors' = [monitors EXCEPT ![q] = r] \/ monitors' = [monitors EXCEPT ![q] = n]
    BY <2>2, <2>3, <2>5
  <2>. QED
    BY <1>1, <2>1, <2>4, <2>6, <2>7, ReadyReplaced
<1>9. ASSUME NEW q \in Monitors, NotifyExit(q) PROVE ReadyStays(m)
  <2>1. PICK killed : killed = Killed(Notified(monitors[q].service))
    OBVIOUS
  <2>2. \A p \in killed : monitors[p].phase = "booting"
    BY <2>1 DEF Killed
  <2>3. PICK pc : pc = IF status[monitors[q].service] = "SHUTDOWN" THEN "send" ELSE "act"
    OBVIOUS
  <2>4. monitors' = [p \in Monitors |->
          IF p = q THEN [monitors[p] EXCEPT !.pc = pc]
          ELSE IF p \in killed THEN [monitors[p] EXCEPT !.phase = "gone"] ELSE monitors[p]]
    BY <1>9, <2>1, <2>3 DEF NotifyExit
  <2>5. pending \subseteq pending' /\ monitors[q].phase = "gone"
    BY <1>9 DEF NotifyExit
  <2>6. CASE m = q
    <3>1. monitors'[m].phase = "gone"
      BY <1>1, <2>4, <2>5, <2>6 DEF MonitorRecords
    <3>. QED
      BY <2>5, <2>6, <3>1 DEF ReadyStays, Alive
  <2>7. CASE m # q /\ m \in killed
    <3>1. monitors'[m].phase = "gone"
      BY <1>1, <2>4, <2>7 DEF MonitorRecords
    <3>. QED
      BY <2>2, <2>7, <3>1 DEF ReadyStays, Alive
  <2>8. CASE m # q /\ m \notin killed
    BY <2>4, <2>5, <2>8, ReadyKept
  <2>. QED
    BY <2>6, <2>7, <2>8
<1>10. ASSUME Boot \/ Terminate
              \/ (\E c \in Clients, command \in Commands : Control(c, command[1], command[2]))
              \/ \E c \in Callers : CallerPlain(c)
       PROVE  ReadyStays(m)
  <2>1. UNCHANGED <<monitors, pending>>
    BY <1>10 DEF Boot, Terminate, Control, CallerPlain, Return, Expand, StartPanics, StartNext,
                 Timeout, connections
  <2>. QED
    BY <1>2, <2>1
<1>11. CASE SupEvent
  BY <1>3, <1>10, <1>11, Zenon DEF SupEvent
<1>12. ASSUME NEW c \in Callers, CallerNext(c) PROVE ReadyStays(m)
  BY <1>4, <1>6, <1>8, <1>10, <1>12, <1>14, Zenon DEF CallerNext, CallerPlain
<1>13. ASSUME NEW q \in Monitors, MonitorNext(q) PROVE ReadyStays(m)
  BY <1>7, <1>8, <1>9, <1>13, <1>15, Zenon DEF MonitorNext
<1>. QED
  BY <1>3, <1>11, <1>12, <1>13, Zenon DEF FollowedStep

\* The server goes on with the same process and connections.
LEMMA ServerGoesOn ==
  ASSUME ServerRuns, ConnectedToSites, AskedOfSites,
         (server = "down") <=> (server' = "down"), UNCHANGED <<sites, client>>,
         \A m \in Monitors : ServesWeb(m)' <=> ServesWeb(m),
         \A r \in Requests : \/ requests'[r] = requests[r]
                             \/ requests'[r].pc \notin {"read", "dial", "reread"}
  PROVE  ServerRuns' /\ ConnectedToSites' /\ AskedOfSites'
<1>1. PortTaken' <=> PortTaken
  BY DEF PortTaken, ServesWeb
<1>2. ServerRuns'
  BY <1>1 DEF ServerRuns
<1>3. ConnectedToSites'
  BY DEF ConnectedToSites
<1>4. AskedOfSites'
  BY DEF AskedOfSites, EndpointOf
<1>. QED
  BY <1>2, <1>3, <1>4

\* The web server is told of what services there are.
LEMMA EndpointsAreServices ==
  \A e \in Endpoints : e \in Services /\ e[2] # "grader" /\ e # Web
<1>. SUFFICES ASSUME NEW e \in Endpoints PROVE e \in Services /\ e[2] # "grader" /\ e # Web
  OBVIOUS
<1>1. e \in Instances \X MasterServices
  BY DEF Endpoints
<1>2. e[1] \in Instances /\ e[2] \in MasterServices
  BY <1>1, PairParts
<1>. QED
  BY <1>1, <1>2, ConfigurationAssumption, ServiceItems DEF Services, Names

LEMMA TellsWeb ==
  ASSUME UntouchedInv, ChainInv, ToldStays, NEW m \in Monitors, ServesWeb(m), ServesWeb(m)',
         m \in pending => m \in pending', NEW e \in Endpoints, Told(m, e)
  PROVE  Told(m, e)'
<1>1. Alive(m) /\ Alive(m)' /\ monitors[m].service = Web
  BY DEF Alive, ServesWeb
<1>. QED
  BY <1>1, EndpointsAreServices DEF ToldStays

LEMMA ToldIs ==
  ASSUME NEW m \in Monitors, ServesWeb(m), NEW e
  PROVE  Told(m, e) <=> \/ m \in pending \/ Unnoticed(e)
                        \/ process[Web] # m \/ status[Web] # "RUNNING" \/ ~Running
BY DEF Told, ServesWeb

LEMMA OutdatedFollows ==
  ASSUME Places, UntouchedInv, LeftInv, OutdatedInv, FollowedStep, WebFollows,
         supervisor # "down" => Effect
  PROVE  OutdatedInv'
<1>1. \A m \in Monitors : ReadyStays(m)
  BY ReadyFollowed DEF LeftInv
<1>2. \A m \in Monitors : ServesWeb(m)' => ServesWeb(m) /\ (m \in pending => m \in pending')
  BY <1>1 DEF ServesWeb, ReadyStays, Alive
<1>3. CASE Web \in Ended
  <2>1. PICK m \in Monitors : /\ monitors[m].phase \in {"ready", "asked"}
                              /\ monitors'[m].phase = "gone" /\ monitors[m].service = Web
    BY <1>3 DEF Ended
  <2>2. ServesWeb(m) /\ ~ServesWeb(m)'
    BY <2>1 DEF ServesWeb, LeftInv, ChainInv, AskedIsStopped
  <2>3. \A q \in Monitors : ~ServesWeb(q)'
    BY <1>2, <2>2 DEF OutdatedInv, ServerRuns
  <2>4. /\ server' = "down" /\ outdated' = {} /\ \A e \in Endpoints : client'[e] = 0
        /\ requests' = [r \in Requests |-> NoRequest]
    BY <1>3 DEF WebFollows, WebEnds
  <2>5. ServerRuns'
    BY <2>3, <2>4 DEF ServerRuns, PortTaken, ServesWeb
  <2>6. ConnectedToSites' /\ AskedOfSites'
    BY <2>4 DEF ConnectedToSites, AskedOfSites, NoRequest
  <2>. QED
    BY <2>4, <2>5, <2>6 DEF OutdatedInv, OutdatedIsDropped
<1>4. CASE Web \notin Ended
  <2>1. /\ UNCHANGED webVars
        /\ outdated' = outdated \cup {e \in Ended \cap Endpoints : client[e] # 0}
    BY <1>4 DEF WebFollows
  <2>2. UNCHANGED <<server, sites, client, requests, drops>>
    BY <2>1 DEF webVars, channels
  <2>3. \A m \in Monitors : ServesWeb(m)' <=> ServesWeb(m)
    <3>. SUFFICES ASSUME NEW m \in Monitors, ServesWeb(m) PROVE ServesWeb(m)'
      BY <1>2
    <3>1. monitors'[m].service = Web /\ monitors'[m].phase \in {"ready", "gone"}
      BY <1>1 DEF ReadyStays, ServesWeb, Alive
    <3>2. monitors'[m].phase # "gone"
      BY <1>4 DEF Ended, ServesWeb
    <3>. QED
      BY <3>1, <3>2 DEF ServesWeb
  <2>4. ServerRuns' /\ ConnectedToSites' /\ AskedOfSites'
    BY <2>2, <2>3, ServerGoesOn DEF OutdatedInv
  <2>5. \A e \in outdated' : e \in Endpoints /\ client'[e] # 0
    BY <2>1, <2>2 DEF OutdatedInv
  <2>6. ASSUME NEW e \in outdated', NEW m \in Monitors, ServesWeb(m)', drops'[e] <= 0
        PROVE  Told(m, e)'
    <3>1. ServesWeb(m) /\ (m \in pending => m \in pending') /\ e \in Endpoints
      BY <1>2, <2>5, <2>6
    <3>2. supervisor # "down"
      BY <3>1 DEF LeftInv, NothingRunsYet, ServesWeb, NoMonitor
    <3>3. CASE e \in outdated
      <4>1. Told(m, e)
        <5>1. ~(drops[e] > 0)
          <6>1. drops[e] \in Nat
            BY <3>1 DEF Places, ChannelsOK
          <6>. QED
            BY <2>2, <2>6, <6>1
        <5>. QED
          BY <3>1, <3>3, <5>1, ToldIs DEF OutdatedInv, OutdatedIsDropped, ServesWeb
      <4>. QED
        BY <2>6, <3>1, <3>2, <4>1, TellsWeb DEF LeftInv, Effect
    <3>4. CASE e \in Ended
      <4>1. PICK q \in Monitors : /\ monitors[q].phase \in {"ready", "asked"}
                                  /\ monitors'[q].phase = "gone" /\ monitors[q].service = e
        BY <3>4 DEF Ended
      <4>2. Unnoticed(monitors[q].service)'
        BY <3>2, <4>1 DEF Effect, EndsUnnoticed
      <4>3. monitors'[q].service = e
        BY <1>1, <4>1 DEF ReadyStays, Alive
      <4>. QED
        BY <4>2, <4>3 DEF Told, Unnoticed
    <3>. QED
      BY <2>1, <2>6, <3>3, <3>4
  <2>7. OutdatedIsDropped'
    <3>. SUFFICES ASSUME NEW e \in outdated', NEW m \in Monitors, ServesWeb(m)', ~(drops'[e] > 0)
                  PROVE  (\/ m \in pending \/ Unnoticed(e)
                          \/ process[Web] # m \/ status[Web] # "RUNNING" \/ ~Running)'
      BY DEF OutdatedIsDropped, ServesWeb
    <3>1. drops'[e] <= 0
      <4>1. drops[e] \in Nat
        BY <2>5 DEF Places, ChannelsOK
      <4>. QED
        BY <2>2, <4>1
    <3>. QED
      BY <2>6, <3>1 DEF Told, ServesWeb
  <2>. QED
    BY <2>4, <2>5, <2>7 DEF OutdatedInv
<1>. QED
  BY <1>3, <1>4

\* What is left of OutdatedIsDropped when the other parts are known.
LEMMA OutdatedIs ==
  ASSUME Places', ServerRuns', ConnectedToSites', AskedOfSites',
         \A e \in outdated' : e \in Endpoints /\ client'[e] # 0,
         \A e \in outdated', m \in Monitors :
           ServesWeb(m)' /\ drops'[e] = 0 => Told(m, e)'
  PROVE  OutdatedInv'
<1>. SUFFICES ASSUME NEW e \in outdated', NEW m \in Monitors, ServesWeb(m)', ~(drops'[e] > 0)
              PROVE  (\/ m \in pending \/ Unnoticed(e)
                      \/ process[Web] # m \/ status[Web] # "RUNNING" \/ ~Running)'
  BY DEF OutdatedInv, OutdatedIsDropped, ServesWeb
<1>1. drops'[e] = 0
  <2>1. drops'[e] \in Nat
    BY DEF Places, ChannelsOK
  <2>. QED
    BY <2>1
<1>2. Told(m, e)'
  BY <1>1
<1>. QED
  BY <1>2 DEF Told, ServesWeb

\* The same of the state before.
LEMMA OutdatedTold ==
  ASSUME OutdatedInv, NEW e \in outdated, NEW m \in Monitors, ServesWeb(m), drops[e] = 0
  PROVE  Told(m, e)
<1>1. ~(drops[e] > 0)
  OBVIOUS
<1>. QED
  BY <1>1, ToldIs DEF OutdatedInv, OutdatedIsDropped, ServesWeb

LEMMA OutdatedAtReady ==
  ASSUME Places, Places', UntouchedInv, LeftInv, OutdatedInv, Effect,
         NEW q \in Monitors, WebReady(q)
  PROVE  OutdatedInv'
<1>1. /\ monitors[q].phase = "booting"
      /\ monitors' = [monitors EXCEPT ![q].phase = "ready", ![q].lived = "yes"]
      /\ UNCHANGED <<pending, outdated>>
      /\ monitors \in [Monitors -> MonitorRecords]
  BY Tables DEF WebReady, ProcessReady, connections
<1>2. /\ \A m \in Monitors \ {q} : monitors'[m] = monitors[m]
      /\ monitors'[q].phase = "ready" /\ monitors'[q].service = monitors[q].service
  BY <1>1 DEF MonitorRecords
<1>3. CASE monitors[q].service = Web
  <2>1. /\ ~PortTaken /\ server = "down" /\ server' = "up"
        /\ UNCHANGED <<client, requests>>
    BY <1>3 DEF WebReady, ProcessReady, WebStarts, channels
  <2>2. \A e \in Endpoints : client[e] = 0
    BY <2>1 DEF OutdatedInv, ConnectedToSites
  <2>3. outdated = {}
    BY <2>2 DEF OutdatedInv
  <2>4. \A m \in Monitors : ServesWeb(m)' <=> m = q
    BY <1>2, <1>3, <2>1 DEF ServesWeb, PortTaken
  <2>5. ServerRuns'
    BY <2>1, <2>4 DEF ServerRuns, PortTaken, ServesWeb
  <2>6. ConnectedToSites'
    BY <2>1, <2>2 DEF ConnectedToSites
  <2>7. AskedOfSites'
    <3>1. \A r \in Requests : requests'[r] = NoRequest
      BY <2>1 DEF Places, AtRest
    <3>2. \A r \in Requests : requests'[r].pc = "idle"
      BY <3>1, NoRequestIs
    <3>. QED
      BY <3>2 DEF AskedOfSites
  <2>. QED
    BY <1>1, <2>3, <2>5, <2>6, <2>7, OutdatedIs
<1>4. CASE monitors[q].service # Web
  <2>1. UNCHANGED <<server, sites, client, requests, drops>>
    BY <1>4 DEF WebReady, webVars, channels
  <2>2. \A m \in Monitors : ServesWeb(m)' <=> ServesWeb(m)
    BY <1>2, <1>4 DEF ServesWeb
  <2>3. ServerRuns' /\ ConnectedToSites' /\ AskedOfSites'
    BY <2>1, <2>2, ServerGoesOn DEF OutdatedInv
  <2>4. \A e \in outdated' : e \in Endpoints /\ client'[e] # 0
    BY <1>1, <2>1 DEF OutdatedInv
  <2>5. ASSUME NEW e \in outdated', NEW m \in Monitors, ServesWeb(m)', drops'[e] = 0
        PROVE  Told(m, e)'
    <3>1. ServesWeb(m) /\ e \in outdated /\ drops[e] = 0
      BY <1>1, <2>1, <2>2, <2>5
    <3>2. Told(m, e) /\ e \in Endpoints
      BY <2>4, <2>5, <3>1, OutdatedTold
    <3>. QED
      BY <1>1, <2>5, <3>1, <3>2, TellsWeb DEF LeftInv, Effect
  <2>. QED
    BY <2>3, <2>4, <2>5, OutdatedIs
<1>. QED
  BY <1>3, <1>4

LEMMA OutdatedAtSIGHUP ==
  ASSUME Places, Places', UntouchedInv, LeftInv, OutdatedInv, Effect,
         NEW q \in Monitors, WebHandlesSIGHUP(q)
  PROVE  OutdatedInv'
<1>1. UNCHANGED <<monitors, outdated>> /\ pending' = pending \ {q}
  BY DEF WebHandlesSIGHUP, HandleSIGHUP
<1>2. \A m \in Monitors : ServesWeb(m)' <=> ServesWeb(m)
  BY <1>1 DEF ServesWeb
<1>3. UNCHANGED <<server, sites, client, requests>>
  BY DEF WebHandlesSIGHUP, InvalidateEndpointConnections, webVars, channels
<1>4. ServerRuns' /\ ConnectedToSites' /\ AskedOfSites'
  BY <1>2, <1>3, ServerGoesOn DEF OutdatedInv
<1>5. \A e \in outdated' : e \in Endpoints /\ client'[e] # 0
  BY <1>1, <1>3 DEF OutdatedInv
<1>6. ASSUME NEW e \in outdated', NEW m \in Monitors, ServesWeb(m)', drops'[e] = 0
      PROVE  Told(m, e)'
  <2>1. ServesWeb(m) /\ e \in outdated /\ e \in Endpoints
    BY <1>1, <1>2, <1>5, <1>6
  <2>2. CASE monitors[q].service = Web
    <3>1. e[1] \in DOMAIN sites /\ e \in sites[e[1]].endpoints
      BY <1>3, <1>5, <2>1 DEF OutdatedInv, ConnectedToSites
    <3>2. drops' = [x \in Endpoints |-> IF x[1] \in DOMAIN sites /\ x \in sites[x[1]].endpoints
                                        THEN drops[x] + 1 ELSE drops[x]]
      BY <2>2 DEF WebHandlesSIGHUP, InvalidateEndpointConnections
    <3>3. drops'[e] = drops[e] + 1
      BY <2>1, <3>1, <3>2
    <3>4. drops[e] \in Nat
      BY <2>1 DEF Places, ChannelsOK
    <3>. QED
      BY <1>6, <3>3, <3>4
  <2>3. CASE monitors[q].service # Web
    <3>1. drops' = drops
      BY <2>3 DEF WebHandlesSIGHUP, webVars, channels
    <3>2. m \in pending => m \in pending'
      BY <1>1, <2>1, <2>3 DEF ServesWeb
    <3>3. Told(m, e)
      BY <1>6, <2>1, <3>1, OutdatedTold
    <3>. QED
      BY <1>6, <2>1, <3>2, <3>3, TellsWeb DEF LeftInv, Effect
  <2>. QED
    BY <2>2, <2>3
<1>. QED
  BY <1>4, <1>5, <1>6, OutdatedIs

LEMMA OutdatedAtRest ==
  ASSUME Places', OutdatedInv, UNCHANGED supVars, outdated' \subseteq outdated,
         ServerRuns', ConnectedToSites', AskedOfSites',
         \A e \in outdated' : client'[e] # 0 /\ drops'[e] = drops[e]
  PROVE  OutdatedInv'
<1>1. UNCHANGED <<supervisor, config, status, process, monitors, pending>>
  BY DEF supVars, table, connections
<1>2. \A e \in outdated' : e \in Endpoints /\ client'[e] # 0
  BY DEF OutdatedInv
<1>3. ASSUME NEW e \in outdated', NEW m \in Monitors, ServesWeb(m)', drops'[e] = 0
      PROVE  Told(m, e)'
  <2>1. ServesWeb(m) /\ e \in outdated /\ drops[e] = 0
    BY <1>1, <1>3 DEF ServesWeb
  <2>2. Told(m, e)
    BY <2>1, OutdatedTold
  <2>. QED
    BY <1>1, <2>2 DEF Told, Unnoticed, Running
<1>. QED
  BY <1>2, <1>3, OutdatedIs

\* A request finds or makes a connection to an endpoint of its site.
LEMMA RequestsOfSites ==
  ASSUME Places, AskedOfSites, NEW r \in Requests, RequestStep(r)
  PROVE  /\ AskedOfSites'
         /\ \/ client' = client
            \/ /\ Dial(r) /\ server = "up" /\ EndpointOf(r) \in Endpoints
               /\ EndpointOf(r)[1] \in DOMAIN sites
               /\ EndpointOf(r) \in sites[EndpointOf(r)[1]].endpoints
<1>1. /\ server = "up" /\ UNCHANGED sites /\ requests' \in [Requests -> Records]
      /\ \A q \in Requests \ {r} : requests'[q] = requests[q] /\ requests[r] \in Records
  BY RequestMoves DEF statics, Places, RequestsOK
<1>2. requests \in [Requests -> Records]
  BY DEF Places, RequestsOK
<1>3. CASE ReadClient(r) \/ Dial(r) \/ Reread(r)
  <2>1. requests[r].pc \in {"read", "dial", "reread"}
    BY <1>3 DEF ReadClient, Dial, Reread
  <2>2. requests'[r].site = requests[r].site /\ requests'[r].what = requests[r].what
    BY <1>2, <1>3 DEF ReadClient, Dial, Reread, RequestGoto, Answer, Records
  <2>3. /\ EndpointOf(r) \in Endpoints /\ requests[r].site \in DOMAIN sites
        /\ EndpointOf(r) \in sites[requests[r].site].endpoints
        /\ EndpointOf(r)[1] = requests[r].site
    BY <2>1 DEF AskedOfSites, Places, RequestsOK, RequestOK, EndpointOf
  <2>4. AskedOfSites'
    <3>. SUFFICES ASSUME NEW q \in Requests, requests'[q].pc \in {"read", "dial", "reread"}
                  PROVE  /\ requests'[q].site \in DOMAIN sites'
                         /\ EndpointOf(q)' \in sites'[requests'[q].site].endpoints
      BY DEF AskedOfSites
    <3>1. CASE q = r
      BY <1>1, <2>2, <2>3, <3>1 DEF EndpointOf
    <3>2. CASE q # r
      BY <1>1, <3>2 DEF AskedOfSites, EndpointOf
    <3>. QED
      BY <3>1, <3>2
  <2>5. client' = client \/ Dial(r)
    BY <1>3 DEF ReadClient, Reread, channels
  <2>. QED
    BY <1>1, <2>3, <2>4, <2>5
<1>4. CASE ReadEntry(r) \/ ReadIndex(r) \/ ExtendURL(r) \/ SendProxied(r)
           \/ \E n \in Instances, f \in StaticFiles : GetRequest(r, n, f)
  <2>1. client' = client
    BY <1>4 DEF ReadEntry, ReadIndex, ExtendURL, SendProxied, GetRequest, channels
  <2>2. requests'[r].pc \notin {"read", "dial", "reread"}
    <3>1. CASE ReadEntry(r) \/ ReadIndex(r)
      <4>1. CASE ReadEntry(r)
        BY <4>1, GoesOn, IsAnswered DEF ReadEntry, Places, RequestPlaces, Answers
      <4>2. CASE ReadIndex(r)
        BY <4>2, IsAnswered DEF ReadIndex, Places, Answers
      <4>. QED
        BY <3>1, <4>1, <4>2
    <3>2. CASE ExtendURL(r) \/ SendProxied(r)
      BY <1>2, <3>2 DEF ExtendURL, SendProxied, RequestGoto, Answer, Records
    <3>3. ASSUME NEW n \in Instances, NEW f \in StaticFiles, GetRequest(r, n, f)
          PROVE  requests'[r].pc \notin {"read", "dial", "reread"}
      BY <1>2, <3>3 DEF GetRequest
    <3>. QED
      BY <1>4, <3>1, <3>2, <3>3
  <2>3. AskedOfSites'
    BY <1>1, <2>2 DEF AskedOfSites, EndpointOf
  <2>. QED
    BY <2>1, <2>3
<1>5. ASSUME NEW e \in Endpoints, GrpcRequest(r, e)
      PROVE  AskedOfSites' /\ client' = client
  <2>1. /\ e[1] \in DOMAIN sites /\ e \in sites[e[1]].endpoints /\ e = <<e[1], e[2]>>
        /\ client' = client
    BY <1>5, PairParts DEF GrpcRequest, channels, Endpoints
  <2>2. requests'[r].site = e[1] /\ requests'[r].what = e[2]
    BY <1>2, <1>5 DEF GrpcRequest
  <2>3. EndpointOf(r)' = e
    BY <2>1, <2>2 DEF EndpointOf
  <2>4. AskedOfSites'
    <3>. SUFFICES ASSUME NEW q \in Requests, requests'[q].pc \in {"read", "dial", "reread"}
                  PROVE  /\ requests'[q].site \in DOMAIN sites'
                         /\ EndpointOf(q)' \in sites'[requests'[q].site].endpoints
      BY DEF AskedOfSites
    <3>1. CASE q = r
      BY <1>1, <2>1, <2>2, <2>3, <3>1
    <3>2. CASE q # r
      BY <1>1, <3>2 DEF AskedOfSites, EndpointOf
    <3>. QED
      BY <3>1, <3>2
  <2>. QED
    BY <2>1, <2>4
<1>. QED
  BY <1>3, <1>4, <1>5 DEF RequestStep

LEMMA OutdatedServed ==
  ASSUME Places, Places', OutdatedInv, WebStep
  PROVE  OutdatedInv'
<1>1. /\ outdated' = {e \in outdated : client'[e] = client[e]} /\ UNCHANGED supVars
      /\ WebNext
  BY DEF WebStep
<1>2. /\ \A m \in Monitors : ServesWeb(m)' <=> ServesWeb(m)
      /\ PortTaken' <=> PortTaken
  BY <1>1 DEF supVars, ServesWeb, PortTaken
<1>3. \A e \in outdated' : e \in outdated /\ e \in Endpoints /\ client'[e] # 0
  BY <1>1 DEF OutdatedInv
<1>4. client \in [Endpoints -> Nat] /\ drops \in [Endpoints -> Nat]
  BY DEF Places, ChannelsOK
<1>5. ASSUME NEW r \in Requests, RequestStep(r) PROVE OutdatedInv'
  <2>1. UNCHANGED <<server, sites, drops>>
    BY <1>5, RequestMoves
  <2>2. ServerRuns'
    BY <1>2, <2>1 DEF ServerRuns, OutdatedInv
  <2>3. ConnectedToSites'
    <3>1. CASE client' = client
      BY <2>1, <3>1 DEF ConnectedToSites, OutdatedInv
    <3>2. CASE client' # client
      <4>1. PICK k : k = EndpointOf(r)
        OBVIOUS
      <4>2. /\ Dial(r) /\ server = "up" /\ k \in Endpoints
            /\ k[1] \in DOMAIN sites /\ k \in sites[k[1]].endpoints
        BY <1>5, <3>2, <4>1, RequestsOfSites DEF OutdatedInv
      <4>3. \A e \in Endpoints \ {k} : client'[e] = client[e]
        BY <1>4, <4>1, <4>2 DEF Dial
      <4>. QED
        BY <2>1, <4>2, <4>3 DEF ConnectedToSites, OutdatedInv
    <3>. QED
      BY <3>1, <3>2
  <2>4. AskedOfSites'
    BY <1>5, RequestsOfSites DEF OutdatedInv
  <2>. QED
    BY <1>1, <1>3, <2>1, <2>2, <2>3, <2>4, OutdatedAtRest
<1>6. ASSUME NEW d \in Endpoints, DropConnection(d) PROVE OutdatedInv'
  <2>1. /\ UNCHANGED <<server, sites, requests>>
        /\ client' = [client EXCEPT ![d] = 0] /\ drops' = [drops EXCEPT ![d] = @ - 1]
    BY <1>6 DEF DropConnection
  <2>2. ServerRuns' /\ AskedOfSites'
    BY <1>2, <2>1 DEF ServerRuns, AskedOfSites, EndpointOf, OutdatedInv
  <2>3. ConnectedToSites'
    BY <1>4, <2>1 DEF ConnectedToSites, OutdatedInv
  <2>4. \A e \in outdated' : drops'[e] = drops[e]
    BY <1>3, <1>4, <2>1
  <2>. QED
    BY <1>1, <1>3, <2>2, <2>3, <2>4, OutdatedAtRest
<1>7. ASSUME NEW n \in Instances, SiteStep(n) PROVE OutdatedInv'
  <2>1. UNCHANGED <<server, sites, client, drops, requests>>
    BY <1>7 DEF SiteStep, ReloadBegins, LoadFile, ReloadEnds, Deploy, Remove, channels
  <2>2. ServerRuns' /\ ConnectedToSites' /\ AskedOfSites'
    BY <1>2, <2>1, ServerGoesOn DEF OutdatedInv
  <2>. QED
    BY <1>1, <1>3, <2>1, <2>2, OutdatedAtRest
<1>. QED
  BY <1>1, <1>5, <1>6, <1>7, Zenon DEF WebNext, RequestStep, SiteStep

LEMMA OutdatedStep ==
  ASSUME Places, Places', UntouchedInv, LeftInv, OutdatedInv, [HostNext]_hostVars
  PROVE  OutdatedInv'
<1>1. supervisor # "down" => Effect
  BY HostStepIsSupStep, LeftStep
<1>2. ASSUME UNCHANGED <<supVars, webVars, outdated>> PROVE OutdatedInv'
  <2>1. UNCHANGED <<server, sites, client, drops, requests>>
    BY <1>2 DEF webVars, channels
  <2>2. \A m \in Monitors : ServesWeb(m)' <=> ServesWeb(m)
    BY <1>2 DEF supVars, ServesWeb
  <2>3. ServerRuns' /\ ConnectedToSites' /\ AskedOfSites'
    BY <2>1, <2>2, ServerGoesOn DEF OutdatedInv
  <2>. QED
    BY <1>2, <2>1, <2>3, OutdatedAtRest DEF OutdatedInv
<1>3. CASE InstallStep \/ UNCHANGED hostVars
  BY <1>2, <1>3 DEF InstallStep, hostVars
<1>4. CASE WebStep
  BY <1>4, OutdatedServed
<1>5. ASSUME NEW m \in Monitors, WebReady(m) \/ WebHandlesSIGHUP(m) PROVE OutdatedInv'
  <2>1. ProcessReady(m) \/ HandleSIGHUP(m)
    BY <1>5 DEF WebReady, WebHandlesSIGHUP
  <2>2. ProcessStep
    BY <2>1, Zenon DEF ProcessStep
  <2>3. Effect
    BY <1>1, <2>2, NoneBeforeBoot DEF LeftInv
  <2>. QED
    BY <1>5, <2>3, OutdatedAtReady, OutdatedAtSIGHUP
<1>6. ASSUME FollowedStep, WebFollows PROVE OutdatedInv'
  BY <1>1, <1>6, OutdatedFollows
<1>7. CASE SupervisorStep
  BY <1>5, <1>6, <1>7, Zenon DEF SupervisorStep, FollowedStep
<1>8. ASSUME NEW r \in Requests, ProxyPanics(r), UNCHANGED <<supVars, outdated>>
      PROVE  OutdatedInv'
  <2>1. /\ server' = "panicked" /\ UNCHANGED <<sites, client, drops>>
        /\ requests' = [q \in Requests |-> NoRequest]
    BY <1>8 DEF ProxyPanics, channels
  <2>2. server = "up"
    BY <1>8, NoRequestIs DEF ProxyPanics, Places, AtRest
  <2>3. \A q \in Requests : requests'[q].pc \notin {"read", "dial", "reread"}
    BY <2>1, NoRequestIs
  <2>4. \A m \in Monitors : ServesWeb(m)' <=> ServesWeb(m)
    BY <1>8 DEF supVars, ServesWeb
  <2>5. ServerRuns' /\ ConnectedToSites' /\ AskedOfSites'
    BY <2>1, <2>2, <2>3, <2>4, ServerGoesOn DEF OutdatedInv
  <2>. QED
    BY <1>8, <2>1, <2>5, OutdatedAtRest DEF OutdatedInv
<1>9. CASE WebPanics
  <2>1. \/ \E r \in Requests : ProxyPanics(r) /\ UNCHANGED <<supVars, outdated>>
        \/ FollowedStep /\ WebFollows
    BY <1>9, Zenon DEF WebPanics, FollowedStep
  <2>. QED
    BY <1>6, <1>8, <2>1
<1>. QED
  BY <1>3, <1>4, <1>7, <1>9, Zenon DEF HostNext

LEMMA OutdatedInit == HostInit => OutdatedInv
<1>. SUFFICES ASSUME SupInit, WebInit, outdated = {} PROVE OutdatedInv
  BY Zenon DEF HostInit
<1>1. \A m \in Monitors : ~ServesWeb(m)
  BY DEF SupInit, NoMonitor, ServesWeb
<1>2. ServerRuns
  BY <1>1 DEF WebInit, ServerRuns, PortTaken, ServesWeb
<1>3. ConnectedToSites
  BY DEF WebInit, ConnectedToSites
<1>4. AskedOfSites
  <2>1. \A r \in Requests : requests[r].pc = "idle"
    BY NoRequestIs DEF WebInit
  <2>. QED
    BY <2>1 DEF AskedOfSites
<1>. QED
  BY <1>2, <1>3, <1>4 DEF OutdatedInv, OutdatedIsDropped

LEMMA OutdatedInvariant == HostSpec => [](Places /\ UntouchedInv /\ LeftInv /\ OutdatedInv)
<1>1. HostSpec => []Places
  BY HostRunsWebServer, PlacesAlways, PTL
<1>2. /\ Places /\ Places' /\ (UntouchedInv /\ LeftInv) /\ OutdatedInv /\ [HostNext]_hostVars
      => OutdatedInv'
  BY OutdatedStep
<1>. QED
  BY <1>1, <1>2, OutdatedInit, LeftInvariant, PTL DEF HostSpec

\* The web server drops its connection to a service that has ended, or is
\* about to be told to: a SIGHUP that comes while requests make connections,
\* while others end or while it starts itself is never for the wrong process
\* nor without a goroutine for each endpoint there is a connection to.
THEOREM OutdatedConnectionsAreDropped == HostSpec => []OutdatedIsDropped
<1>1. OutdatedInv => OutdatedIsDropped
  BY DEF OutdatedInv
<1>. QED
  BY <1>1, OutdatedInvariant, PTL

\* The types of the machine; the web server has its state exactly while one
\* of the processes of its service listens on the port.
THEOREM HostTypeCorrect == HostSpec => []HostTypeOK
<1>1. ASSUME UntouchedInv, LeftInv PROVE SupTypeOK
  <2>1. /\ status \in [Services -> Statuses] /\ process \in [Services -> {0} \cup Monitors]
        /\ monitors \in [Monitors -> MonitorRecords] /\ ConfigTypes
    BY <1>1, Tables
  <2>2. \A m \in Monitors : monitors[m].service \in Services
    BY <1>1, KnownServices DEF LeftInv, ChainInv, ServicesExist
  <2>3. monitors \in [Monitors -> [pc : {"none", "watch", "act", "send", "sleep", "failed"},
                                   service : Services, phase : Phases, lived : {"no", "yes"}]]
    BY <2>1, <2>2 DEF MonitorRecords
  <2>4. pending \subseteq {m \in Monitors : monitors[m].phase \in {"ready", "asked"}}
    BY <1>1 DEF LeftInv, ChainInv, PendingLives, Alive
  <2>5. stale \subseteq Monitors \X Services
    BY <1>1 DEF LeftInv, ChainInv, StaleLives
  <2>6. supervisor \in {"down", "up", "closing", "ended", "panicked"} /\ tries \in [Services -> Nat]
    BY <1>1 DEF LeftInv, SupTypes
  <2>. QED
    BY <2>1, <2>3, <2>4, <2>5, <2>6 DEF SupTypeOK, ConfigTypes, Statuses
<1>2. OutdatedInv => outdated \subseteq Endpoints /\ ((server = "down") <=> ~PortTaken)
  BY DEF OutdatedInv, ServerRuns
<1>3. InstallTypeOK /\ WebTypeOK /\ Places /\ UntouchedInv /\ LeftInv /\ OutdatedInv => HostTypeOK
  BY <1>1, <1>2 DEF HostTypeOK
<1>4. HostSpec => []WebTypeOK
  BY HostServes, PTL
<1>. QED
  BY <1>3, <1>4, InstallTypeCorrect, OutdatedInvariant, PTL

-----------------------------------------------------------------------------
(* The supervisor: when it dereferences nil *)

\* The supervisor.yaml of an instance names a service that there is none of.
BadNames(n) ==
  /\ files[<<n, "supervisor">>] = "whole"
  /\ ~(Elements(settings[n].services) \subseteq MasterServices)

\* Unless a file was edited, the configuration enables services that there
\* are, and what is started is one of them, or a grader.
ConfigNames ==
  edited = {} =>
    \A n \in DOMAIN config :
      \/ BadNames(n)
      \/ /\ Elements(config[n].services) \subseteq MasterServices
         /\ "grader" \in known[n] \/ status[<<n, "grader">>] = "DISABLED"

Nameable == {k \in Items : k = Web \/ k[2] \in Names \cup {"*"} \/ BadNames(k[1])}

QueueNames == edited = {} => \A c \in Callers : callers[c].queue \in Seq(Nameable)

NilCause ==
  supervisor = "panicked" =>
    \/ \E m \in Monitors : monitors[m].pc = "failed"
    \/ edited # {}
    \/ \E n \in DOMAIN config : status[<<n, "grader">>] = "DISABLED" \/ BadNames(n)

CauseInv ==
  /\ \A n \in DOMAIN config : MasterServices \subseteq known[n]
  /\ ConfigNames /\ QueueNames /\ NilCause

\* No tool changes what a complete file names.
LEMMA BadNamesStay ==
  ASSUME InstallIInv, [HostNext]_hostVars, edited' = {}
  PROVE  edited = {} /\ \A n \in Instances : BadNames(n) => BadNames(n)'
<1>1. \/ InstallNext \/ UNCHANGED <<confVars, installVars>>
  BY HostStepIsInstallStep
<1>2. CASE UNCHANGED <<files, settings, edited>>
  BY <1>2 DEF BadNames
<1>3. CASE \/ PostInstallNext \/ CreateInstanceNext \/ Finish \/ Die
           \/ UNCHANGED <<confVars, installVars>>
  BY <1>2, <1>3
     DEF PostInstallNext, CreateInstanceNext, RunPostInstall, CreateSystemUserAndGroup,
         CreatePostgreSQLUser, LookupAccount, RunCreateInstance, CreatePostgreSQLDatabase,
         InitializeDatabase, CreateAdminUser, ParseWebServerConf, Finish, Die, confVars, installVars
<1>4. \A n \in Instances : <<n, "supervisor">> \in Paths
  BY PathsOfNames
<1>5. files \in [Paths -> FileStates] /\ settings \in [Instances -> Settings]
  BY DEF InstallIInv, InstallTypes, InstallTypeOK
<1>6. CASE OpenFile
  BY <1>4, <1>5, <1>6 DEF OpenFile, BadNames
<1>7. CASE WriteFile
  <2>1. /\ tool.pc = "write" /\ files' = [files EXCEPT ![NextFile] = "whole"]
        /\ settings' = IF tool.instance = "" THEN settings
                       ELSE [settings EXCEPT ![tool.instance] = Substituted(NextFile[2])]
        /\ edited' = edited
    BY <1>7 DEF WriteFile
  <2>2. NextFile \in Paths /\ NextFile[1] = tool.instance
    <3>1. tool.todo \in Seq(Paths) /\ tool.todo # <<>>
      BY <2>1, ToolType DEF InstallIInv, InstallTypes
    <3>2. NextFile \in Paths /\ NextFile = tool.todo[1] /\ 1 \in DOMAIN tool.todo
      BY <3>1, HeadAndTail DEF NextFile
    <3>. QED
      BY <3>2 DEF InstallIInv, FilesInv, WorkInOrder
  <2>3. ASSUME NEW n \in Instances, BadNames(n) PROVE BadNames(n)'
    <3>1. PICK p : p = <<n, "supervisor">>
      OBVIOUS
    <3>2. files[p] = "whole" /\ p \in Paths
      BY <1>4, <2>3, <3>1 DEF BadNames
    <3>3. p # NextFile
      BY <2>1, <3>2 DEF InstallIInv, FilesInv, WritesWhatItOpened
    <3>4. files'[p] = "whole"
      BY <1>5, <2>1, <3>2, <3>3
    <3>5. settings'[n].services = settings[n].services
      <4>1. CASE n # tool.instance
        BY <1>5, <2>1, <4>1
      <4>2. CASE n = tool.instance
        <5>1. NextFile[2] # "supervisor"
          <6>1. NextFile = <<NextFile[1], NextFile[2]>>
            BY <2>2, PathParts
          <6>. QED
            BY <2>2, <3>1, <3>3, <4>2, <6>1
        <5>2. Substituted(NextFile[2]).services = settings[n].services
          <6>1. settings[n] \in Settings
            BY <1>5
          <6>2. PICK x : x = settings[n]
            OBVIOUS
          <6>3. /\ [x EXCEPT !.site = "unnamed"].services = x.services
                /\ [x EXCEPT !.site = "static"].services = x.services
            BY <6>1, <6>2 DEF Settings
          <6>. QED
            BY <4>2, <5>1, <6>2, <6>3 DEF Substituted
        <5>. QED
          BY <1>5, <2>1, <4>2, <5>2
      <4>. QED
        BY <4>1, <4>2
    <3>. QED
      BY <2>3, <3>1, <3>4, <3>5 DEF BadNames
  <2>. QED
    BY <2>1, <2>3
<1>8. \A n, f, new : ~Edit(n, f, new) /\ ~Spoil(n, f)
  BY DEF Edit, Spoil
<1>. QED
  BY <1>1, <1>3, <1>6, <1>7, <1>8, Zenon DEF InstallNext, AdministratorNext

LEMMA LoadedNames ==
  ASSUME NEW n \in Instances
  PROVE  /\ \/ Elements(LoadSupervisorConfig(n).services) \subseteq MasterServices
            \/ BadNames(n)
         /\ LoadInstanceConfig(n).services = LoadSupervisorConfig(n).services
         /\ LoadInstanceConfig(n).grader = LoadSupervisorConfig(n).grader
<1>1. Elements(<<>>) = {}
  BY DEF Elements
<1>. QED
  BY <1>1 DEF LoadSupervisorConfig, LoadInstanceConfig, BadNames

\* A service that there is none of has the status that it was given.
LEMMA StatusKept ==
  ASSUME UntouchedInv, ChainInv, CallsExist, SupStep, ~Boot, NEW k \in Services, ~Exists(k)
  PROVE  status'[k] = status[k]
<1>1. status \in [Services -> Statuses]
  BY Tables
<1>2. ASSUME NEW m \in Monitors, NEW l, Exists(l), StartProcess(m, l) PROVE status'[k] = status[k]
  BY <1>1, <1>2 DEF StartProcess
<1>3. \A m \in Monitors : Exists(monitors[m].service)
  BY DEF ChainInv, ServicesExist
<1>4. ASSUME NEW c \in Callers, LaunchService(c) PROVE status'[k] = status[k]
  <2>1. Exists(NextService(c))
    BY <1>4 DEF CallsExist, LaunchService
  <2>2. UNCHANGED status \/ \E m \in Monitors : StartProcess(m, NextService(c))
    BY <1>4, Zenon DEF LaunchService
  <2>. QED
    BY <1>2, <2>1, <2>2
<1>5. ASSUME NEW c \in Callers, StopNext(c) PROVE status'[k] = status[k]
  <2>1. PICK l : l = NextService(c)
    OBVIOUS
  <2>2. UNCHANGED status \/ (Exists(l) /\ status' = [status EXCEPT ![l] = "SHUTDOWN"])
    BY <1>5, <2>1, Zenon DEF StopNext
  <2>. QED
    BY <1>1, <2>2
<1>6. ASSUME NEW m \in Monitors, NEW s, status' = [status EXCEPT ![monitors[m].service] = s]
      PROVE  status'[k] = status[k]
  <2>1. monitors[m].service # k
    BY <1>3
  <2>. QED
    BY <1>1, <1>6, <2>1
<1>7. ASSUME NEW c \in Callers, NEW m \in Monitors, HandOver(c, m) PROVE status'[k] = status[k]
  <2>1. status' = [status EXCEPT ![monitors[m].service] = "STOPPED"]
    BY <1>7 DEF HandOver
  <2>. QED
    BY <1>6, <2>1
<1>8. ASSUME NEW m \in Monitors, Act(m) PROVE status'[k] = status[k]
  <2>1. \/ status' = [status EXCEPT ![monitors[m].service] = "RESPAWNING"]
        \/ status' = [status EXCEPT ![monitors[m].service] = "DEAD"]
    BY <1>8, Zenon DEF Act
  <2>. QED
    BY <1>6, <2>1
<1>9. ASSUME NEW m \in Monitors, Wake(m) PROVE status'[k] = status[k]
  BY <1>2, <1>3, <1>9 DEF Wake
<1>11. ASSUME NEW m \in Monitors, WakeFails(m) PROVE status'[k] = status[k]
  BY <1>6, <1>11 DEF WakeFails, NotStarted
<1>12. ASSUME NEW c \in Callers, LaunchFails(c) PROVE status'[k] = status[k]
  <2>1. PICK l : l = NextService(c)
    OBVIOUS
  <2>2. Exists(l) /\ status' = [status EXCEPT ![l] = "FAILED"]
    BY <1>12, <2>1 DEF CallsExist, LaunchFails, NotStarted
  <2>. QED
    BY <1>1, <2>2
<1>10. CASE \/ \E m \in Monitors : \/ NotifyExit(m) \/ Crash(m) \/ BootFails(m) \/ AskedEnds(m)
                                   \/ Fail(m) \/ ProcessReady(m) \/ HandleSIGHUP(m)
            \/ \E c \in Callers : CallerPlain(c)
            \/ \E c \in Clients, command \in Commands : Control(c, command[1], command[2])
            \/ Terminate \/ UNCHANGED supVars
  BY <1>10 DEF NotifyExit, Crash, BootFails, AskedEnds, Fail, ProcessReady, HandleSIGHUP,
               CallerPlain, Return, Expand, StartPanics, StartNext, Timeout, Control, Terminate,
               supVars, table
<1>. QED
  BY <1>4, <1>5, <1>7, <1>8, <1>9, <1>10, <1>11, <1>12, Zenon
     DEF SupStep, ProcessStep, MonitorNext

\* What a call of Start reads.
LEMMA ConfigReads ==
  ASSUME SupStep, ~Boot
  PROVE  \A n \in DOMAIN config :
           config'[n] = config[n] \/ config'[n] = LoadSupervisorConfig(n)
<1>1. ASSUME NEW c, NEW op, NEW target, NEW then, Handle(c, op, target, then)
      PROVE  \A n \in DOMAIN config : config'[n] = config[n] \/ config'[n] = LoadSupervisorConfig(n)
  <2>1. \/ config' = config
        \/ config' = [config EXCEPT ![target[1]] = LoadSupervisorConfig(target[1])]
    BY <1>1, Zenon DEF Handle
  <2>. QED
    BY <2>1
<1>2. CASE \E c \in Clients, command \in Commands : Control(c, command[1], command[2])
  <2>1. \E c, op, target, then : Handle(c, op, target, then)
    BY <1>2, Zenon DEF Control
  <2>. QED
    BY <1>1, <2>1
<1>3. ASSUME NEW c \in Callers, CallerPlain(c)
      PROVE  \A n \in DOMAIN config : config'[n] = config[n] \/ config'[n] = LoadSupervisorConfig(n)
  <2>1. CASE Return(c)
    <3>1. config' = config \/ \E op, target, then : Handle(c, op, target, then)
      BY <2>1, Zenon DEF Return
    <3>. QED
      BY <1>1, <3>1
  <2>2. CASE Expand(c) \/ StartPanics(c) \/ StartNext(c) \/ Timeout(c)
    BY <2>2 DEF Expand, StartPanics, StartNext, Timeout, table
  <2>. QED
    BY <1>3, <2>1, <2>2 DEF CallerPlain
<1>4. CASE ProcessStep \/ Terminate \/ UNCHANGED supVars
  <2>1. config' = config
    BY <1>4 DEF ProcessStep, LaunchService, LaunchFails, StopNext, HandOver, MonitorNext,
                NotifyExit, Act, Wake, WakeFails, Crash, BootFails, AskedEnds, Fail, ProcessReady,
                HandleSIGHUP, Terminate, supVars, table
  <2>. QED
    BY <2>1
<1>. QED
  BY <1>2, <1>3, <1>4 DEF SupStep

LEMMA NamesCome ==
  ASSUME UntouchedInv, ChainInv, CallsExist, ConfigNames, NilCause, SupStep, ~Boot, Frame,
         edited' = {} => edited = {} /\ \A n \in Instances : BadNames(n) => BadNames(n)',
         \A n \in DOMAIN config : MasterServices \subseteq known[n]
  PROVE  (\A n \in DOMAIN config : MasterServices \subseteq known[n])' /\ ConfigNames'
<1>1. DOMAIN config' = DOMAIN config /\ known' = known /\ DOMAIN config \subseteq Instances
  BY Tables DEF Frame, ConfigTypes
<1>2. (\A n \in DOMAIN config : MasterServices \subseteq known[n])'
  BY <1>1
<1>3. ASSUME edited' = {}, NEW n \in DOMAIN config
      PROVE  \/ BadNames(n)'
             \/ /\ Elements(config'[n].services) \subseteq MasterServices
                /\ "grader" \in known[n] \/ status'[<<n, "grader">>] = "DISABLED"
  <2>. SUFFICES ASSUME ~BadNames(n)'
                PROVE  /\ Elements(config'[n].services) \subseteq MasterServices
                       /\ "grader" \in known[n] \/ status'[<<n, "grader">>] = "DISABLED"
    OBVIOUS
  <2>1. n \in Instances /\ ~BadNames(n)
    BY <1>1, <1>3
  <2>2. Elements(config'[n].services) \subseteq MasterServices
    <3>1. config'[n] = config[n] \/ config'[n] = LoadSupervisorConfig(n)
      BY <1>3, ConfigReads
    <3>2. Elements(config[n].services) \subseteq MasterServices
      BY <1>3, <2>1 DEF ConfigNames
    <3>3. Elements(LoadSupervisorConfig(n).services) \subseteq MasterServices
      BY <2>1, LoadedNames
    <3>. QED
      BY <3>1, <3>2, <3>3
  <2>3. "grader" \in known[n] \/ status[<<n, "grader">>] = "DISABLED"
    BY <1>3, <2>1 DEF ConfigNames
  <2>4. PICK k : k = <<n, "grader">>
    OBVIOUS
  <2>5. k \in Services \ {Web} /\ k[1] = n /\ k[2] = "grader"
    <3>1. k \in Instances \X Names
      BY <2>1, <2>4 DEF Names
    <3>2. k # Web
      BY <2>1, <2>4, ServiceItems DEF Web
    <3>. QED
      BY <2>4, <3>1, <3>2 DEF Services
  <2>6. "grader" \notin known[n] => status'[k] = status[k]
    BY <2>5, StatusKept, KnownServices
  <2>. QED
    BY <2>2, <2>3, <2>4, <2>6
<1>4. ConfigNames'
  BY <1>1, <1>3 DEF ConfigNames
<1>. QED
  BY <1>2, <1>4

LEMMA SeqMonotone ==
  ASSUME NEW S, NEW T, S \subseteq T
  PROVE  \A s \in Seq(S) : s \in Seq(T)
OBVIOUS

LEMMA SeqJoined ==
  ASSUME NEW S, NEW s \in Seq(S), NEW t \in Seq(S)
  PROVE  s \o t \in Seq(S)
OBVIOUS

LEMMA NameableItems ==
  /\ Web \in Nameable
  /\ \A n \in Instances :
       /\ <<n, "*">> \in Nameable /\ <<n, "grader">> \in Nameable
       /\ \A s \in Names : <<n, s>> \in Nameable
       /\ BadNames(n) => \A s \in STRING : <<n, s>> \in Nameable
<1>1. Web \in Nameable
  BY ServiceItems DEF Nameable
<1>2. ASSUME NEW n \in Instances, NEW s \in STRING \cup {"grader", "*"},
             s \in Names \cup {"*"} \/ BadNames(n)
      PROVE  <<n, s>> \in Nameable
  <2>1. PICK k : k = <<n, s>>
    OBVIOUS
  <2>2. k \in Items
    BY <2>1 DEF Items
  <2>3. k[1] = n /\ k[2] = s
    BY <2>1
  <2>. QED
    BY <1>2, <2>1, <2>2, <2>3 DEF Nameable
<1>3. Names \subseteq STRING \cup {"grader"} /\ "grader" \in Names
  BY ServiceItems DEF Names
<1>. QED
  BY <1>1, <1>2, <1>3

\* The queue of a call that Handle makes.
LEMMA HandleNames ==
  ASSUME UntouchedInv, NEW c, NEW op, NEW target, NEW then, Handle(c, op, target, then),
         NEW d \in Callers, target[1] \in Instances \cup {""},
         callers[d].queue \in Seq(Nameable)
  PROVE  callers'[d].queue \in Seq(Nameable)
<1>1. \/ callers' = [callers EXCEPT ![c] = Idle]
      \/ callers' = [callers EXCEPT ![c] = Call(op, target, then, Named(target[1], target[2]))]
  BY Zenon DEF Handle
<1>2. PICK G : G = Nameable
  OBVIOUS
<1>3. Named(target[1], target[2]) \in Seq(G)
  <2>1. CASE target[1] = ""
    <3>1. PICK w : w = Web
      OBVIOUS
    <3>2. Named(target[1], target[2]) = <<w>>
      BY <2>1, <3>1 DEF Named
    <3>3. w \in G
      BY <1>2, <3>1, NameableItems
    <3>. QED
      BY <3>2, <3>3, OneItem
  <2>2. CASE target[1] \in Instances /\ target[2] \in known[target[1]] \cup {"grader", "*"}
    <3>1. known[target[1]] \subseteq Names
      BY <2>2, Tables DEF ConfigTypes
    <3>2. <<target[1], target[2]>> \in G
      BY <1>2, <2>2, <3>1, NameableItems
    <3>3. PICK k : k = <<target[1], target[2]>>
      OBVIOUS
    <3>4. Named(target[1], target[2]) = <<k>>
      BY <2>2, <3>3, ServiceItems DEF Named
    <3>5. k \in G
      BY <3>2, <3>3
    <3>. QED
      BY <3>4, <3>5, OneItem
  <2>3. CASE target[1] # "" /\ target[2] \notin known[target[1]] \cup {"grader", "*"}
    <3>1. Named(target[1], target[2]) = <<>>
      BY <2>3 DEF Named
    <3>. QED
      BY <3>1, NoSeq
  <2>. QED
    BY <2>1, <2>2, <2>3
<1>4. Idle.queue \in Seq(G)
  BY IdleCall, NoSeq
<1>5. Call(op, target, then, Named(target[1], target[2])).queue \in Seq(G)
  <2>1. PICK q : q = Named(target[1], target[2])
    OBVIOUS
  <2>2. Call(op, target, then, q).queue = q
    BY DEF Call, Idle
  <2>. QED
    BY <1>3, <2>1, <2>2
<1>6. callers \in [Callers -> Calls]
  BY Tables
<1>. QED
  BY <1>1, <1>2, <1>4, <1>5, <1>6

LEMMA StartListNames ==
  ASSUME NEW n \in Instances, config[n].services \in Seq(STRING),
         BadNames(n) \/ Elements(config[n].services) \subseteq MasterServices,
         NEW list \in ServicesToStart(n)
  PROVE  list \in Seq(Nameable)
<1>1. PICK s : s = config[n].services
  OBVIOUS
<1>2. PICK t : t = InInstance(n, s)
  OBVIOUS
<1>3. PICK g : g = <<n, "grader">>
  OBVIOUS
<1>4. PICK G : G = Nameable
  OBVIOUS
<1>5. \A i \in DOMAIN s : <<n, s[i]>> \in G
  <2>. SUFFICES ASSUME NEW i \in DOMAIN s PROVE <<n, s[i]>> \in G
    OBVIOUS
  <2>1. s[i] \in STRING /\ s[i] \in Elements(s)
    BY <1>1 DEF Elements
  <2>2. BadNames(n) \/ s[i] \in Names
    BY <1>1, <2>1 DEF Names
  <2>. QED
    BY <1>4, <2>1, <2>2, NameableItems
<1>6. t \in Seq(G)
  <2>1. Len(s) \in Nat /\ DOMAIN s = 1..Len(s)
    BY <1>1
  <2>2. t = [i \in 1..Len(s) |-> <<n, s[i]>>]
    BY <1>2, <2>1 DEF InInstance
  <2>. QED
    BY <1>5, <2>1, <2>2
<1>7. <<g>> \in Seq(G) /\ <<>> \in Seq(G)
  BY <1>3, <1>4, NameableItems, OneItem
<1>8. list = t \o (IF config[n].grader = "true" THEN <<g>> ELSE <<>>)
  BY <1>1, <1>2, <1>3 DEF ServicesToStart
<1>. QED
  BY <1>4, <1>6, <1>7, <1>8, SeqJoined

LEMMA StopListNames ==
  ASSUME ConfigTypes, NEW n \in Instances, NEW list \in ServicesToStop(n)
  PROVE  list \in Seq(Nameable)
<1>1. known[n] \subseteq Names
  BY DEF ConfigTypes
<1>2. PICK g : g = <<n, "grader">>
  OBVIOUS
<1>3. PICK order \in Orders(known[n] \ {"grader"}) : list = <<g>> \o InInstance(n, order)
  BY <1>2, Zenon DEF ServicesToStop
<1>4. IsFiniteSet(known[n] \ {"grader"})
  BY <1>1, NamesAreFinite, FS_Subset
<1>5. PICK S : S = known[n] \ {"grader"}
  OBVIOUS
<1>6. order \in Seq(S) /\ S \subseteq Names
  BY <1>1, <1>3, <1>4, <1>5, OrderIsSeq
<1>7. PICK t : t = InInstance(n, order)
  OBVIOUS
<1>8. PICK G : G = Nameable
  OBVIOUS
<1>9. t \in Seq(G)
  <2>1. Len(order) \in Nat /\ DOMAIN order = 1..Len(order)
    BY <1>6
  <2>2. t = [i \in 1..Len(order) |-> <<n, order[i]>>]
    BY <1>7, <2>1 DEF InInstance
  <2>3. \A i \in 1..Len(order) : order[i] \in Names
    BY <1>6, <2>1
  <2>4. \A s \in Names : <<n, s>> \in G
    BY <1>8, NameableItems
  <2>. QED
    BY <2>1, <2>2, <2>3, <2>4
<1>10. <<g>> \in Seq(G)
  BY <1>2, <1>8, NameableItems, OneItem
<1>. QED
  BY <1>3, <1>7, <1>8, <1>9, <1>10, SeqJoined

LEMMA AllOfNames ==
  ASSUME NEW S, S \subseteq Instances, NEW order \in Seq(S)
  PROVE  AllOf(order) \in Seq(Nameable)
<1>1. PICK G : G = Nameable
  OBVIOUS
<1>2. Len(order) \in Nat /\ DOMAIN order = 1..Len(order)
  OBVIOUS
<1>3. AllOf(order) = [i \in 1..Len(order) |-> <<order[i], "*">>]
  BY <1>2 DEF AllOf
<1>4. \A i \in 1..Len(order) : order[i] \in Instances
  BY <1>2
<1>5. \A i \in 1..Len(order) : <<order[i], "*">> \in G
  BY <1>1, <1>4, NameableItems
<1>. QED
  BY <1>1, <1>2, <1>3, <1>5

\* No goroutine gets a name that it did not have.
LEMMA NothingAddedNames ==
  ASSUME NothingAdded, \A c \in Callers : callers[c].queue \in Seq(Nameable)
  PROVE  \A c \in Callers : callers'[c].queue \in Seq(Nameable)
<1>. SUFFICES ASSUME NEW c \in Callers PROVE callers'[c].queue \in Seq(Nameable)
  OBVIOUS
<1>1. PICK G : G = Nameable
  OBVIOUS
<1>2. PICK q : q = callers'[c].queue
  OBVIOUS
<1>3. PICK s : s = callers[c].queue
  OBVIOUS
<1>4. q \in Seq(Items) /\ s \in Seq(G)
  BY <1>1, <1>2, <1>3 DEF NothingAdded, CallTypes, Calls
<1>5. \A i \in DOMAIN q : \E j \in DOMAIN s : q[i] = s[j]
  BY <1>2, <1>3 DEF NothingAdded
<1>6. \A i \in DOMAIN q : q[i] \in G
  BY <1>4, <1>5
<1>7. q \in Seq(G)
  BY <1>4, <1>6
<1>. QED
  BY <1>1, <1>2, <1>7

LEMMA ExpandedNames ==
  ASSUME UntouchedInv, ConfigNames, edited = {}, NEW c \in Callers, Expand(c),
         \A d \in Callers : callers[d].queue \in Seq(Nameable)
  PROVE  callers'[c].queue \in Seq(Nameable)
<1>1. PICK op \in {"start", "stop"} :
        /\ Serving(c, op) /\ NextService(c)[2] = "*"
        /\ \E list \in (IF op = "start" THEN ServicesToStart(NextService(c)[1])
                        ELSE ServicesToStop(NextService(c)[1])) :
             callers' = [callers EXCEPT ![c].queue = list \o Tail(@)]
  BY DEF Expand
<1>2. PICK n : n = NextService(c)[1]
  OBVIOUS
<1>3. PICK list \in ServicesToStart(n) \cup ServicesToStop(n) :
        callers' = [callers EXCEPT ![c].queue = list \o Tail(@)]
  BY <1>1, <1>2
<1>4. /\ callers[c].queue # <<>> /\ CallsInv /\ ConfigTypes /\ callers \in [Callers -> Calls]
      /\ callers[c] \in Calls
  BY <1>1 DEF Serving, UntouchedInv, CallsInv, CallTypes, Calls, ConfigInv
<1>5. n \in DOMAIN config /\ n \in Instances
  BY <1>1, <1>2, <1>4, QueueHead, ItemParts, ServiceItems DEF ConfigTypes
<1>6. PICK G : G = Nameable
  OBVIOUS
<1>7. list \in Seq(G)
  <2>1. CASE list \in ServicesToStart(n)
    <3>1. config[n].services \in Seq(STRING)
      BY <1>4, <1>5 DEF ConfigTypes
    <3>2. BadNames(n) \/ Elements(config[n].services) \subseteq MasterServices
      BY <1>5 DEF ConfigNames
    <3>. QED
      BY <1>5, <1>6, <2>1, <3>1, <3>2, StartListNames
  <2>2. CASE list \in ServicesToStop(n)
    BY <1>4, <1>5, <1>6, <2>2, StopListNames
  <2>. QED
    BY <1>3, <2>1, <2>2
<1>8. PICK rest : rest = Tail(callers[c].queue)
  OBVIOUS
<1>9. rest \in Seq(G)
  <2>1. callers[c].queue \in Seq(G)
    BY <1>6
  <2>. QED
    BY <1>4, <1>8, <2>1, HeadAndTail
<1>10. PICK queue : queue = list \o rest
  OBVIOUS
<1>11. queue \in Seq(G)
  BY <1>7, <1>9, <1>10, SeqJoined
<1>12. callers' = [callers EXCEPT ![c].queue = queue]
  BY <1>3, <1>4, <1>8, <1>10
<1>13. callers'[c].queue = queue
  BY <1>4, <1>12 DEF Calls
<1>. QED
  BY <1>6, <1>11, <1>13

LEMMA CallerNames ==
  ASSUME UntouchedInv, ConfigNames, edited = {}, NEW c \in Callers, CallerNext(c),
         \A d \in Callers : callers[d].queue \in Seq(Nameable)
  PROVE  \A d \in Callers : callers'[d].queue \in Seq(Nameable)
<1>1. CallTypes /\ callers \in [Callers -> Calls]
  BY DEF UntouchedInv, CallsInv, CallTypes
<1>2. CASE Return(c) \/ Expand(c)
  <2>1. \A d \in Callers \ {c} : callers'[d] = callers[d]
    BY <1>1, OthersKept
  <2>2. callers'[c].queue \in Seq(Nameable)
    <3>1. CASE Expand(c)
      BY <3>1, ExpandedNames
    <3>2. CASE Return(c) /\ callers' = [callers EXCEPT ![c] = Idle]
      <4>1. callers'[c] = Idle
        BY <1>1, <3>2
      <4>. QED
        BY <4>1, IdleCall, NoSeq
    <3>3. CASE Return(c) /\ Handle(c, "start", callers[c].target, "none")
      <4>1. PICK target : target = callers[c].target
        OBVIOUS
      <4>2. target \in Items
        BY <1>1, <4>1 DEF Calls
      <4>3. target[1] \in Instances \cup {""}
        BY <4>2, ItemParts
      <4>4. Handle(c, "start", target, "none")
        BY <3>3, <4>1
      <4>. QED
        BY <4>3, <4>4, HandleNames
    <3>. QED
      BY <1>2, <3>1, <3>2, <3>3, Zenon DEF Return
  <2>. QED
    BY <2>1, <2>2
<1>3. CASE StartPanics(c)
  BY <1>3 DEF StartPanics
<1>4. CASE StartNext(c) \/ LaunchService(c) \/ LaunchFails(c) \/ StopNext(c) \/ Timeout(c)
           \/ \E m \in Monitors : HandOver(c, m)
  <2>2. NothingAdded
    <3>1. CASE StartNext(c)
      <4>1. Skip(c) \/ callers' = [callers EXCEPT ![c].pc = "launch"]
        BY <3>1 DEF StartNext
      <4>2. callers[c].queue # <<>>
        BY <3>1 DEF StartNext, Serving
      <4>. QED
        BY <1>1, <4>1, <4>2, CallerSkips, CallerGoes
    <3>2. CASE LaunchService(c) \/ LaunchFails(c) \/ \E m \in Monitors : HandOver(c, m)
      <4>1. Skip(c) /\ callers[c].queue # <<>>
        BY <1>1, <3>2 DEF LaunchService, LaunchFails, HandOver, CallTypes
      <4>. QED
        BY <1>1, <4>1, CallerSkips
    <3>3. CASE StopNext(c)
      <4>1. callers[c].queue # <<>>
        BY <3>3 DEF StopNext, Serving
      <4>. QED
        BY <1>1, <3>3, <4>1, CallerWaits
    <3>4. CASE Timeout(c)
      BY <1>1, <3>4, CallerTimesOut DEF Timeout
    <3>. QED
      BY <1>4, <3>1, <3>2, <3>3, <3>4
  <2>. QED
    BY <2>2, NothingAddedNames
<1>. QED
  BY <1>2, <1>3, <1>4, Zenon DEF CallerNext

\* What a command of the control tool, the signal to main and the start of
\* the supervisor queue.
LEMMA EventNames ==
  ASSUME UntouchedInv,
         \A d \in Callers : callers[d].queue \in Seq(Nameable),
         \/ Terminate \/ Boot
         \/ \E c \in Clients, command \in Commands : Control(c, command[1], command[2])
  PROVE  \A d \in Callers : callers'[d].queue \in Seq(Nameable)
<1>. SUFFICES ASSUME NEW d \in Callers PROVE callers'[d].queue \in Seq(Nameable)
  OBVIOUS
<1>1. callers \in [Callers -> Calls] /\ ConfigTypes
  BY Tables
<1>2. PICK G : G = Nameable
  OBVIOUS
<1>3. PICK w : w = Web
  OBVIOUS
<1>4. <<w>> \in Seq(G) /\ <<>> \in Seq(G)
  BY <1>2, <1>3, NameableItems, OneItem
<1>5. ASSUME NEW S, S \subseteq Instances, NEW order \in Orders(S) PROVE AllOf(order) \in Seq(G)
  <2>1. IsFiniteSet(S)
    BY <1>5, ConfigurationAssumption, FS_Subset
  <2>2. order \in Seq(S)
    BY <1>5, <2>1, OrderIsSeq
  <2>. QED
    BY <1>2, <1>5, <2>2, AllOfNames
<1>6. ASSUME NEW c, NEW op, NEW queue \in Seq(G),
             callers' = [callers EXCEPT ![c] = Call(op, Web, "none", queue)]
      PROVE  callers'[d].queue \in Seq(G)
  <2>1. Call(op, Web, "none", queue).queue = queue
    BY CallIs
  <2>. QED
    BY <1>1, <1>2, <1>6, <2>1
<1>7. CASE Terminate
  <2>1. PICK order \in Orders(DOMAIN config) :
          callers' = [callers EXCEPT !["main"] = Call("stop", Web, "none", <<Web>> \o AllOf(order))]
    BY <1>7, Zenon DEF Terminate
  <2>2. PICK t : t = AllOf(order)
    OBVIOUS
  <2>3. t \in Seq(G)
    BY <1>1, <1>5, <2>1, <2>2 DEF ConfigTypes
  <2>4. PICK queue : queue = <<w>> \o t
    OBVIOUS
  <2>5. queue \in Seq(G)
    BY <1>4, <2>3, <2>4, SeqJoined
  <2>6. callers' = [callers EXCEPT !["main"] = Call("stop", Web, "none", queue)]
    BY <1>3, <2>1, <2>2, <2>4, Zenon
  <2>. QED
    BY <1>2, <1>6, <2>5, <2>6
<1>8. CASE Boot
  <2>1. PICK order \in Orders(ConfiguredInstances) :
          callers' = [callers EXCEPT
                        !["autostart"] = Call("start", Web, "none",
                          AllOf(order) \o (IF autostart = "true" THEN <<Web>> ELSE <<>>))]
    BY <1>8, Zenon DEF Boot
  <2>2. PICK t : t = AllOf(order)
    OBVIOUS
  <2>3. t \in Seq(G)
    BY <1>5, <2>1, <2>2 DEF ConfiguredInstances
  <2>4. PICK last : last = IF autostart = "true" THEN <<w>> ELSE <<>>
    OBVIOUS
  <2>5. last \in Seq(G)
    BY <1>4, <2>4
  <2>6. PICK queue : queue = t \o last
    OBVIOUS
  <2>7. queue \in Seq(G)
    BY <2>3, <2>5, <2>6, SeqJoined
  <2>8. callers' = [callers EXCEPT !["autostart"] = Call("start", Web, "none", queue)]
    BY <1>3, <2>1, <2>2, <2>4, <2>6, Zenon
  <2>. QED
    BY <1>2, <1>6, <2>7, <2>8
<1>9. ASSUME NEW c \in Clients, NEW command \in Commands, Control(c, command[1], command[2])
      PROVE  callers'[d].queue \in Seq(G)
  <2>1. PICK target : target = command[2]
    OBVIOUS
  <2>2. target \in Items
    <3>1. command \in {"start", "stop", "restart"} \X Targets
      BY CommandsAssumption
    <3>2. target \in Targets
      BY <2>1, <3>1, PairParts
    <3>. QED
      BY <3>2, ServiceItems
  <2>3. target[1] \in Instances \cup {""}
    BY <2>2, ItemParts
  <2>4. \E op, then : Handle(c, op, target, then)
    BY <1>9, <2>1, Zenon DEF Control
  <2>. QED
    BY <1>2, <2>3, <2>4, HandleNames
<1>. QED
  BY <1>2, <1>7, <1>8, <1>9

\* The supervisor.yaml files that it reads when it is started.
LEMMA BootNames ==
  ASSUME InstallTypes, UntouchedInv, Boot, UNCHANGED confVars
  PROVE  (\A n \in DOMAIN config : MasterServices \subseteq known[n])' /\ ConfigNames'
<1>1. /\ config' = [n \in ConfiguredInstances |-> LoadInstanceConfig(n)]
      /\ known' = [n \in Instances |-> IF n \in ConfiguredInstances THEN CreateServices(n) ELSE {}]
      /\ status' = [k \in Services |-> InitialStatus(k)]
  BY DEF Boot
<1>2. DOMAIN config' = ConfiguredInstances /\ ConfiguredInstances \subseteq Instances
  BY <1>1 DEF ConfiguredInstances
<1>3. \A n \in DOMAIN config' : known'[n] = CreateServices(n)
  BY <1>1, <1>2
<1>4. (\A n \in DOMAIN config : MasterServices \subseteq known[n])'
  BY <1>3 DEF CreateServices
<1>5. ASSUME NEW n \in DOMAIN config', ~BadNames(n)
      PROVE  /\ Elements(config'[n].services) \subseteq MasterServices
             /\ "grader" \in known'[n] \/ status'[<<n, "grader">>] = "DISABLED"
  <2>1. PICK l : l = LoadInstanceConfig(n)
    OBVIOUS
  <2>2. n \in Instances /\ config'[n] = l
    BY <1>1, <1>2, <2>1
  <2>3. Elements(l.services) \subseteq MasterServices
    BY <1>5, <2>1, <2>2, LoadedNames
  <2>4. l.grader = "true" => "grader" \in known'[n]
    BY <1>3, <2>1 DEF CreateServices
  <2>5. PICK k : k = <<n, "grader">>
    OBVIOUS
  <2>6. k \in Services \ {Web} /\ k[1] = n /\ k[2] = "grader"
    <3>1. k \in Instances \X Names
      BY <2>2, <2>5 DEF Names
    <3>2. k # Web
      BY <2>2, <2>5, ServiceItems DEF Web
    <3>. QED
      BY <2>5, <3>1, <3>2 DEF Services
  <2>7. "grader" \notin Elements(l.services)
    BY <2>3, ConfigurationAssumption
  <2>8. l.grader # "true" => InitialStatus(k) = "DISABLED"
    BY <2>1, <2>6, <2>7 DEF InitialStatus
  <2>. QED
    BY <1>1, <2>2, <2>3, <2>4, <2>5, <2>6, <2>8
<1>6. \A n : BadNames(n)' <=> BadNames(n)
  BY DEF BadNames, confVars
<1>. QED
  BY <1>4, <1>5, <1>6 DEF ConfigNames

\* A start of what there is none of.
LEMMA NilIsNew ==
  ASSUME UntouchedInv, ConfigNames, edited = {}, \A d \in Callers : callers[d].queue \in Seq(Nameable),
         \A n \in DOMAIN config : MasterServices \subseteq known[n],
         NEW c \in Callers, StartPanics(c)
  PROVE  \E n \in DOMAIN config : status[<<n, "grader">>] = "DISABLED" \/ BadNames(n)
<1>1. PICK k : k = NextService(c)
  OBVIOUS
<1>2. callers[c].queue # <<>> /\ k[2] # "*" /\ ~Exists(k)
  BY <1>1 DEF StartPanics, Serving
<1>3. CallsInv /\ ConfigTypes
  BY DEF UntouchedInv, ConfigInv
<1>4. k \in Items /\ k[1] \in DOMAIN config \cup {""}
  BY <1>1, <1>2, <1>3, QueueHead
<1>5. k \in Nameable
  <2>1. PICK G : G = Nameable
    OBVIOUS
  <2>2. callers[c].queue \in Seq(G)
    BY <2>1
  <2>. QED
    BY <1>1, <1>2, <2>1, <2>2, HeadAndTail DEF NextService
<1>6. k # Web
  BY <1>2, KnownServices
<1>7. k[1] \in Instances /\ k = <<k[1], k[2]>> /\ k[1] \in DOMAIN config
  BY <1>4, <1>6, ItemParts, ServiceItems
<1>8. k[2] \in Names \/ BadNames(k[1])
  BY <1>2, <1>5, <1>6 DEF Nameable
<1>9. CASE k[2] \in Names
  <2>1. k \in Instances \X Names
    BY <1>7, <1>9
  <2>2. k \in Services \ {Web}
    BY <1>6, <2>1 DEF Services
  <2>3. k[2] \notin known[k[1]]
    BY <1>2, <2>2, KnownServices
  <2>4. k[2] = "grader"
    BY <1>7, <1>9, <2>3 DEF Names
  <2>5. BadNames(k[1]) \/ status[<<k[1], "grader">>] = "DISABLED"
    BY <1>7, <2>3, <2>4 DEF ConfigNames
  <2>. QED
    BY <1>7, <2>5
<1>. QED
  BY <1>7, <1>8, <1>9

\* What a step of the supervisor leaves of the causes.
LEMMA NilStep ==
  ASSUME UntouchedInv, CauseInv, edited' = {}, edited = {}, SupStep, UNCHANGED confVars
  PROVE  NilCause'
<1>. SUFFICES ASSUME supervisor' = "panicked", \A m \in Monitors : monitors'[m].pc # "failed"
              PROVE  \E n \in DOMAIN config' : status'[<<n, "grader">>] = "DISABLED" \/ BadNames(n)'
  BY DEF NilCause
<1>1. \A n : BadNames(n)' <=> BadNames(n)
  BY DEF BadNames, confVars
<1>2. ASSUME UNCHANGED <<config, status>>,
             \E n \in DOMAIN config : status[<<n, "grader">>] = "DISABLED" \/ BadNames(n)
      PROVE  \E n \in DOMAIN config' : status'[<<n, "grader">>] = "DISABLED" \/ BadNames(n)'
  BY <1>1, <1>2
<1>3. CASE /\ supervisor = "panicked" /\ UNCHANGED <<config, status>>
           /\ \A m \in Monitors : monitors'[m].pc = monitors[m].pc
  BY <1>2, <1>3 DEF CauseInv, NilCause
<1>4. CASE \E c \in Callers : StartPanics(c)
  <2>1. UNCHANGED <<config, status>>
    BY <1>4 DEF StartPanics, table
  <2>. QED
    BY <1>2, <1>4, <2>1, NilIsNew DEF CauseInv, QueueNames
<1>5. CASE Boot \/ Terminate
  BY <1>5 DEF Boot, Terminate
<1>6. CASE UNCHANGED supVars
  BY <1>3, <1>6 DEF supVars, table
<1>7. CASE \E c \in Callers : Return(c) \/ Expand(c) \/ StartNext(c) \/ Timeout(c)
  <2>1. supervisor # "panicked" /\ supervisor' \in {supervisor, "ended"}
    BY <1>7 DEF Return, Expand, StartNext, Timeout, Serving, Running
  <2>. QED
    BY <2>1
<1>8. CASE \E c \in Clients, command \in Commands : Control(c, command[1], command[2])
  BY <1>8 DEF Control, Running
<1>9. CASE ProcessStep
  <2>1. ~\E m \in Monitors : WakeFails(m)
    <3>. SUFFICES ASSUME NEW m \in Monitors, WakeFails(m) PROVE FALSE
      OBVIOUS
    <3>1. monitors \in [Monitors -> MonitorRecords]
      BY Tables
    <3>. QED
      BY <3>1 DEF WakeFails, MonitorRecords
  <2>2. supervisor' = supervisor \/ \E m \in Monitors : WakeFails(m)
    BY <1>9 DEF ProcessStep, LaunchService, LaunchFails, StopNext, HandOver, MonitorNext,
                NotifyExit, Act, Wake, Crash, BootFails, AskedEnds, Fail, ProcessReady, HandleSIGHUP
  <2>3. ~Running
    BY <2>1, <2>2 DEF Running
  <2>4. \E m \in Monitors : \/ Crash(m) \/ BootFails(m) \/ AskedEnds(m) \/ Fail(m)
                            \/ ProcessReady(m) \/ HandleSIGHUP(m)
    BY <1>9, <2>3 DEF ProcessStep, LaunchService, LaunchFails, StopNext, HandOver, MonitorNext,
                      NotifyExit, Act, Wake, WakeFails, Serving
  <2>5. UNCHANGED <<config, status>>
    BY <2>4 DEF Crash, BootFails, AskedEnds, Fail, ProcessReady, HandleSIGHUP, table
  <2>6. \A q \in Monitors : monitors'[q].pc = monitors[q].pc
    <3>1. monitors \in [Monitors -> MonitorRecords]
      BY Tables
    <3>2. PICK m \in Monitors : \/ \E phase : Phase(m, phase)
                                \/ monitors' = monitors
                                \/ monitors' = [monitors EXCEPT ![m].phase = "ready", ![m].lived = "yes"]
      BY <2>4 DEF Crash, BootFails, AskedEnds, Fail, ProcessReady, HandleSIGHUP
    <3>. QED
      BY <3>1, <3>2 DEF Phase, MonitorRecords
  <2>. QED
    BY <1>3, <2>1, <2>2, <2>5, <2>6
<1>. QED
  BY <1>4, <1>5, <1>6, <1>7, <1>8, <1>9, Zenon DEF SupStep, CallerPlain

\* Steps that are not of the supervisor change none of it, and steps of the
\* supervisor change no file.
LEMMA TwoKindsOfSteps ==
  ASSUME [HostNext]_hostVars
  PROVE  UNCHANGED supVars \/ UNCHANGED <<confVars, installVars>>
BY Zenon DEF HostNext, InstallStep, SupervisorStep, WebStep, WebPanics, Installed, hostVars

LEMMA CauseStep ==
  ASSUME InstallIInv, UntouchedInv, LeftInv, CauseInv, [HostNext]_hostVars
  PROVE  CauseInv'
<1>1. edited' = {} => edited = {} /\ \A n \in Instances : BadNames(n) => BadNames(n)'
  BY BadNamesStay
<1>2. SupStep
  BY HostStepIsSupStep
<1>3. DOMAIN config \subseteq Instances /\ callers \in [Callers -> Calls]
  BY Tables DEF ConfigTypes
<1>4. CASE UNCHANGED supVars
  <2>1. UNCHANGED <<supervisor, config, known, status, callers, monitors>>
    BY <1>4 DEF supVars, table
  <2>2. (\A n \in DOMAIN config : MasterServices \subseteq known[n])'
    BY <2>1 DEF CauseInv
  <2>3. ConfigNames'
    BY <1>1, <1>3, <2>1 DEF CauseInv, ConfigNames
  <2>4. QueueNames'
    <3>. SUFFICES ASSUME edited' = {}, NEW c \in Callers PROVE callers[c].queue \in Seq(Nameable')
      BY <2>1 DEF QueueNames
    <3>1. callers[c].queue \in Seq(Nameable)
      BY <1>1 DEF CauseInv, QueueNames
    <3>2. Nameable \subseteq Nameable'
      <4>. SUFFICES ASSUME NEW k \in Items, k # Web, BadNames(k[1]) PROVE BadNames(k[1])'
        BY DEF Nameable
      <4>1. PICK n : n = k[1]
        OBVIOUS
      <4>2. BadNames(n)'
        BY <1>1, <4>1, ItemParts
      <4>. QED
        BY <4>1, <4>2
    <3>. QED
      BY <3>1, <3>2, SeqMonotone
  <2>5. NilCause'
    BY <1>1, <1>3, <2>1 DEF CauseInv, NilCause
  <2>. QED
    BY <2>2, <2>3, <2>4, <2>5 DEF CauseInv
<1>5. CASE UNCHANGED <<confVars, installVars>>
  <2>1. UNCHANGED confVars /\ edited' = edited
    BY <1>5 DEF installVars
  <2>2. Nameable' = Nameable
    BY <2>1 DEF Nameable, BadNames, confVars
  <2>3. (\A n \in DOMAIN config : MasterServices \subseteq known[n])' /\ ConfigNames'
    <3>1. CASE Boot
      BY <2>1, <3>1, BootNames DEF InstallIInv
    <3>2. CASE ~Boot
      <4>1. Frame
        <5>1. CASE supervisor # "down"
          BY <1>2, <5>1, LeftStep
        <5>2. CASE supervisor = "down"
          <6>1. /\ ~ProcessStep /\ \A c \in Callers : ~CallerPlain(c)
                /\ \A c \in Clients, command \in Commands : ~Control(c, command[1], command[2])
            BY <5>2, NoneBeforeBoot DEF LeftInv
          <6>2. ~Terminate
            BY <5>2 DEF Terminate
          <6>3. UNCHANGED supVars
            BY <1>2, <3>2, <6>1, <6>2, Zenon DEF SupStep
          <6>. QED
            BY <6>3 DEF supVars, table, Frame, Running
        <5>. QED
          BY <5>1, <5>2
      <4>. QED
        BY <1>1, <1>2, <3>2, <4>1, NamesCome DEF CauseInv, LeftInv
    <3>. QED
      BY <3>1, <3>2
  <2>4. QueueNames'
    <3>. SUFFICES ASSUME edited' = {}
                  PROVE  \A c \in Callers : callers'[c].queue \in Seq(Nameable)
      BY <2>2 DEF QueueNames
    <3>1. edited = {} /\ ConfigNames /\ \A c \in Callers : callers[c].queue \in Seq(Nameable)
      BY <2>1 DEF CauseInv, QueueNames
    <3>2. CASE callers' = callers
      BY <3>1, <3>2
    <3>3. ASSUME NEW c \in Callers, CallerNext(c)
          PROVE  \A d \in Callers : callers'[d].queue \in Seq(Nameable)
      BY <3>1, <3>3, CallerNames
    <3>4. CASE \/ Terminate \/ Boot
               \/ \E c \in Clients, command \in Commands : Control(c, command[1], command[2])
      BY <3>1, <3>4, EventNames
    <3>5. ProcessStep => callers' = callers \/ \E c \in Callers : CallerNext(c)
      <4>1. CASE \E c \in Callers :
                   \/ LaunchService(c) \/ LaunchFails(c) \/ StopNext(c)
                   \/ \E m \in Monitors : HandOver(c, m)
        BY <4>1, Zenon DEF CallerNext
      <4>2. CASE \E m \in Monitors :
                   \/ MonitorNext(m) \/ Crash(m) \/ BootFails(m) \/ AskedEnds(m) \/ Fail(m)
                   \/ ProcessReady(m) \/ HandleSIGHUP(m)
        BY <4>2 DEF MonitorNext, NotifyExit, Act, Wake, WakeFails, Crash, BootFails, AskedEnds,
                    Fail, ProcessReady, HandleSIGHUP
      <4>. QED
        BY <4>1, <4>2, Zenon DEF ProcessStep
    <3>6. \A c \in Callers : CallerPlain(c) => CallerNext(c)
      BY Zenon DEF CallerPlain, CallerNext
    <3>7. UNCHANGED supVars => callers' = callers
      BY DEF supVars
    <3>. QED
      BY <1>2, <3>2, <3>3, <3>4, <3>5, <3>6, <3>7, Zenon DEF SupStep
  <2>5. NilCause'
    <3>1. CASE edited' = {}
      BY <1>1, <1>2, <2>1, <3>1, NilStep
    <3>2. CASE edited' # {}
      BY <3>2 DEF NilCause
    <3>. QED
      BY <3>1, <3>2
  <2>. QED
    BY <2>3, <2>4, <2>5 DEF CauseInv
<1>. QED
  BY <1>4, <1>5, TwoKindsOfSteps

LEMMA CauseInit == HostInit => CauseInv
<1>. SUFFICES ASSUME SupInit PROVE CauseInv
  BY Zenon DEF HostInit
<1>1. DOMAIN config = {} /\ supervisor = "down"
  BY DEF SupInit
<1>2. \A c \in Callers : callers[c].queue \in Seq(Nameable)
  <2>1. \A c \in Callers : callers[c] = Idle
    BY DEF SupInit
  <2>. QED
    BY <2>1, IdleCall, NoSeq
<1>. QED
  BY <1>1, <1>2 DEF CauseInv, ConfigNames, QueueNames, NilCause

\* But for a process that cannot be started again, only what no tool and no
\* file provides makes the supervisor dereference nil: whatever is started,
\* restarted or read again, a queue has only services that there are, or the
\* grader of an instance without one.
THEOREM NilIsCaused == HostSpec => []PanicCause
<1>1. CauseInv => PanicCause
  BY DEF CauseInv, NilCause, PanicCause, BadNames
<1>2. InstallIInv /\ (UntouchedInv /\ LeftInv) /\ CauseInv /\ [HostNext]_hostVars => CauseInv'
  BY CauseStep
<1>. QED
  BY <1>1, <1>2, CauseInit, InstallInvariant, LeftInvariant, PTL DEF HostSpec
=============================================================================
