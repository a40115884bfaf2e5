----------------------------- MODULE Installation -----------------------------
(***************************************************************************)
(* The tools that prepare a machine: yajudge_post_install, which is run    *)
(* once, and yajudge_create_instance, which is run for every instance.     *)
(* Each is a sequence of steps outside of any transaction, most of which   *)
(* end the tool with log.Fatalf when they fail; the other errors are only  *)
(* printed.  A tool may also die between two steps, and is then run again. *)
(* One tool runs at a time.                                                *)
(*                                                                         *)
(* Directories, permissions, nginx and systemd are left out.               *)
(***************************************************************************)
EXTENDS Configuration

CONSTANTS
  Passwords,        \* what -P of yajudge_post_install may be
  NewSettings       \* what an administrator writes into the files

\* "install", "create"   a tool is run
\* "die"                 a tool fails at a step or is killed
\* "edit"                an administrator edits a file of an instance
InstallEvents == {"install", "create", "die", "edit"}

\* The password the configuration gets, whatever -P is.
DefaultPassword == "yajudge"

ASSUME InstallationAssumption ==
  /\ DefaultPassword \in Passwords /\ "none" \notin Passwords
  /\ NewSettings \subseteq Settings

VARIABLES
  account,        \* the system user: "missing" or "present"
  role,           \* the password of the role of PostgreSQL, "none" without it
  database,       \* per instance: "missing", "bare" or "ready", with tables
  admins,         \* per instance: how many rows the table users has
  tool,           \* the tool that runs
  begun,          \* history: the instances that were begun, by kind...
  created,        \* ...and those whose creation was reported
  cut,            \* history: files a tool died over
  edited,         \* history: instances with an edited file
  installBudget   \* bound: how often each kind of event may still happen

machine == <<account, role, database, admins>>
installVars == <<machine, tool, begun, created, cut, edited, installBudget>>

\* What an instance has: all, all but the grader (--disable-grader), or only
\* the grader (--grader-only).
Kinds == {"all", "masters", "grader"}

ToolPlaces ==
  {"none", "account", "role", "lookup",                          \* post install
   "database", "initialize", "admin", "webconf",                 \* create instance
   "install", "write"}                                           \* both

NoTool == [pc |-> "none", instance |-> "", kind |-> "all", password |-> DefaultPassword,
           todo |-> <<>>]

Pay(e) ==
  installBudget[e] > 0 /\ installBudget' = [installBudget EXCEPT ![e] = @ - 1]

ToolGoto(pc) == tool' = [tool EXCEPT !.pc = pc]

InDirectory(n, names) == [i \in DOMAIN names |-> <<n, names[i]>>]

\* log.Fatalf
Fatal == tool' = NoTool

-----------------------------------------------------------------------------
(* yajudge_post_install *)

RunPostInstall(p) ==
  /\ tool.pc = "none" /\ Pay("install")
  /\ tool' = [NoTool EXCEPT !.pc = "account", !.password = p,
                            !.todo = InDirectory("", GlobalFiles)]
  /\ UNCHANGED <<confVars, machine, begun, created, cut, edited>>

\* useradd may fail, which nobody looks at.
CreateSystemUserAndGroup ==
  /\ tool.pc = "account"
  /\ account' \in {account, "present"}
  /\ ToolGoto("role")
  /\ UNCHANGED <<confVars, role, database, admins, begun, created, cut, edited, installBudget>>

\* Errors of PostgreSQL are printed; a role that exists keeps its password.
CreatePostgreSQLUser ==
  /\ tool.pc = "role"
  /\ role' \in {role, IF role = "none" THEN tool.password ELSE role}
  /\ ToolGoto("lookup")
  /\ UNCHANGED <<confVars, account, database, admins, begun, created, cut, edited, installBudget>>

LookupAccount ==
  /\ tool.pc = "lookup"
  /\ IF account = "missing" THEN Fatal ELSE ToolGoto("install")
  /\ UNCHANGED <<confVars, machine, begun, created, cut, edited, installBudget>>

-----------------------------------------------------------------------------
(* yajudge_create_instance *)

RunCreateInstance(n, kind) ==
  /\ tool.pc = "none" /\ Pay("create")
  /\ tool' = IF account = "missing" THEN NoTool
             ELSE [NoTool EXCEPT !.pc = IF kind = "grader" THEN "install" ELSE "database",
                                 !.instance = n, !.kind = kind,
                                 !.todo = InDirectory(n, InstanceFiles)]
  /\ begun' = IF account = "missing" THEN begun ELSE begun \cup {<<n, kind>>}
  /\ UNCHANGED <<confVars, machine, created, cut, edited>>

\* Skipped with --no-create-db; an error of PostgreSQL is printed.
CreatePostgreSQLDatabase ==
  /\ tool.pc = "database"
  /\ database' \in {database,
                    IF database[tool.instance] # "missing" THEN database
                    ELSE [database EXCEPT ![tool.instance] = "bare"]}
  /\ ToolGoto("initialize")
  /\ UNCHANGED <<confVars, account, role, admins, begun, created, cut, edited, installBudget>>

\* The password read from the file of the configuration.
ReadTextConfig == IF files[<<"", "password">>] = "whole" THEN DefaultPassword ELSE ""

\* The schema is one command to PostgreSQL: it makes all tables or, where they
\* are there already, none.  Its error is printed.  Skipped with
\* --no-initialize-db.
InitializeDatabase ==
  /\ tool.pc = "initialize"
  /\ IF Parses(<<"", "password">>)
     THEN /\ database' \in {database,
                            IF database[tool.instance] = "bare" /\ ReadTextConfig = role
                            THEN [database EXCEPT ![tool.instance] = "ready"] ELSE database}
          /\ ToolGoto("admin")
     ELSE UNCHANGED database /\ Fatal
  /\ UNCHANGED <<confVars, account, role, admins, begun, created, cut, edited, installBudget>>

\* Mutant: the error is printed.
CreateAdminUserAnyway ==
  /\ tool.pc = "admin"
  /\ admins' = IF database[tool.instance] = "ready" /\ ReadTextConfig = role
               THEN [admins EXCEPT ![tool.instance] = @ + 1] ELSE admins
  /\ ToolGoto("webconf")
  /\ UNCHANGED <<confVars, account, role, database, begun, created, cut, edited, installBudget>>

\* No login is unique: every run adds a row.
CreateAdminUser ==
  /\ tool.pc = "admin"
  /\ IF database[tool.instance] = "ready" /\ ReadTextConfig = role
     THEN admins' = [admins EXCEPT ![tool.instance] = @ + 1] /\ ToolGoto("webconf")
     ELSE UNCHANGED admins /\ Fatal
  /\ UNCHANGED <<confVars, account, role, database, begun, created, cut, edited, installBudget>>

\* The port for nginx is in webserver.yaml.
ParseWebServerConf ==
  /\ tool.pc = "webconf"
  /\ IF Parses(<<"", "webserver">>) THEN ToolGoto("install") ELSE Fatal
  /\ UNCHANGED <<confVars, machine, begun, created, cut, edited, installBudget>>

-----------------------------------------------------------------------------
(* InstallConfigFile and CreatePlainText, of either tool *)

NextFile == Head(tool.todo)

\* Mutant: a file that exists is written again.
OpenAnyFile ==
  /\ tool.pc = "install" /\ tool.todo # <<>>
  /\ files' = [files EXCEPT ![NextFile] = "empty"] /\ ToolGoto("write")
  /\ UNCHANGED <<settings, autostart, machine, begun, created, cut, edited, installBudget>>

\* A file that exists is skipped; any other is created, empty...
OpenFile ==
  /\ tool.pc = "install" /\ tool.todo # <<>>
  /\ IF files[NextFile] # "missing"
     THEN tool' = [tool EXCEPT !.todo = Tail(@)] /\ UNCHANGED files
     ELSE files' = [files EXCEPT ![NextFile] = "empty"] /\ ToolGoto("write")
  /\ UNCHANGED <<settings, autostart, machine, begun, created, cut, edited, installBudget>>

\* The content of the templates with their substitutions made.  Without
\* masters there is no host name either, but web.yaml is written all the same.
Substituted(name) ==
  LET n == tool.instance IN
  CASE name = "supervisor" ->
         [settings[n] EXCEPT !.services = IF tool.kind = "grader" THEN <<>> ELSE AllServices,
                             !.grader = IF tool.kind = "masters" THEN "false" ELSE "true"]
    [] name = "web" ->
         [settings[n] EXCEPT !.site = IF tool.kind = "grader" THEN "unnamed" ELSE "static"]
    [] OTHER -> settings[n]

\* ...and then filled.
WriteFile ==
  /\ tool.pc = "write"
  /\ files' = [files EXCEPT ![NextFile] = "whole"]
  /\ settings' = IF tool.instance = "" THEN settings
                 ELSE [settings EXCEPT ![tool.instance] = Substituted(NextFile[2])]
  /\ tool' = [tool EXCEPT !.pc = "install", !.todo = Tail(@)]
  /\ UNCHANGED <<autostart, machine, begun, created, cut, edited, installBudget>>

\* "Now you can start it using 'yajudge-control' command."
Finish ==
  /\ tool.pc = "install" /\ tool.todo = <<>>
  /\ created' = IF tool.instance = "" THEN created
                ELSE created \cup {<<tool.instance, tool.kind>>}
  /\ tool' = NoTool
  /\ UNCHANGED <<confVars, machine, begun, cut, edited, installBudget>>

-----------------------------------------------------------------------------

\* A step fails, or the tool is killed.
Die ==
  /\ tool.pc # "none" /\ Pay("die")
  /\ cut' = IF tool.pc = "write" THEN cut \cup {NextFile} ELSE cut
  /\ tool' = NoTool
  /\ UNCHANGED <<confVars, machine, begun, created, edited>>

\* An administrator edits the files of an instance, or spoils one.
Edit(n, f, new) ==
  /\ files[<<n, f>>] # "missing" /\ tool.pc # "write" /\ Pay("edit")
  /\ settings' = [settings EXCEPT ![n] =
                    IF f = "web" THEN [@ EXCEPT !.site = new.site]
                    ELSE [new EXCEPT !.site = settings[n].site]]
  /\ files' = [files EXCEPT ![<<n, f>>] = "whole"]
  /\ edited' = edited \cup {n}
  /\ UNCHANGED <<autostart, machine, tool, begun, created, cut>>

Spoil(n, f) ==
  /\ files[<<n, f>>] # "missing" /\ tool.pc # "write" /\ Pay("edit")
  /\ files' = [files EXCEPT ![<<n, f>>] = "broken"]
  /\ edited' = edited \cup {n}
  /\ UNCHANGED <<settings, autostart, machine, tool, begun, created, cut>>

-----------------------------------------------------------------------------

NoSettings == [services |-> <<>>, grader |-> "false", site |-> "unnamed"]

\* The templates are unpacked, and nothing else has been done.
FreshMachine ==
  /\ files = [p \in Paths |-> "missing"]
  /\ settings = [n \in Instances |-> NoSettings]
  /\ account = "missing" /\ role = "none"
  /\ database = [n \in Instances |-> "missing"]
  /\ admins = [n \in Instances |-> 0]
  /\ begun = {} /\ created = {}

\* What both tools leave when they are run once for every instance that set
\* has settings for, and nothing fails.
PreparedMachine(set) ==
  LET made == DOMAIN set IN
  /\ files = [p \in Paths |-> IF p[1] \in made \cup {""} THEN "whole" ELSE "missing"]
  /\ settings = [n \in Instances |-> IF n \in made THEN set[n] ELSE NoSettings]
  /\ account = "present" /\ role = DefaultPassword
  /\ database = [n \in Instances |-> IF n \in made THEN "ready" ELSE "missing"]
  /\ admins = [n \in Instances |-> IF n \in made THEN 1 ELSE 0]
  /\ created = {<<n, IF set[n].grader = "true" THEN "all" ELSE "masters">> : n \in made}
  /\ begun = created

NothingHappened == tool = NoTool /\ cut = {} /\ edited = {}

PostInstallNext ==
  \/ \E p \in Passwords : RunPostInstall(p)
  \/ CreateSystemUserAndGroup \/ CreatePostgreSQLUser \/ LookupAccount

CreateInstanceNext ==
  \/ \E n \in Instances, kind \in Kinds : RunCreateInstance(n, kind)
  \/ CreatePostgreSQLDatabase \/ InitializeDatabase \/ CreateAdminUser
  \/ ParseWebServerConf

AdministratorNext ==
  \E n \in Instances, f \in {"supervisor", "web"} :
    Spoil(n, f) \/ \E new \in NewSettings : Edit(n, f, new)

InstallNext ==
  \/ PostInstallNext \/ CreateInstanceNext
  \/ OpenFile \/ WriteFile \/ Finish \/ Die
  \/ AdministratorNext

-----------------------------------------------------------------------------
(* Properties *)

\* Types of what the tools and the administrator change.
InstallTypeOK ==
  /\ files \in [Paths -> FileStates] /\ settings \in [Instances -> Settings]
  /\ autostart \in {"true", "false"}
  /\ account \in {"missing", "present"} /\ role \in Passwords \cup {"none"}
  /\ database \in [Instances -> {"missing", "bare", "ready"}]
  /\ admins \in [Instances -> Nat]
  /\ tool \in [pc : ToolPlaces, instance : Instances \cup {""}, kind : Kinds,
               password : Passwords, todo : Seq(Paths)]
  /\ begun \subseteq Instances \X Kinds /\ created \subseteq Instances \X Kinds
  /\ cut \subseteq Paths /\ edited \subseteq Instances

\* "Now you can start it": when the creation of an instance was reported, its
\* database has tables, an administrator and the password in the files of the
\* configuration, and no file is missing or, unless an earlier run died over
\* it, empty; whatever failed on the way and however often it was run.
CompletedIsUsable ==
  \A n \in Instances, kind \in Kinds :
    <<n, kind>> \in created =>
      /\ kind # "grader" =>
           database[n] = "ready" /\ admins[n] > 0 /\ ReadTextConfig = role
      /\ \A f \in Elements(InstanceFiles) :
           /\ files[<<n, f>>] # "missing"
           /\ files[<<n, f>>] = "empty" => <<n, f>> \in cut
           /\ files[<<n, f>>] = "broken" => n \in edited

\* No tool takes away or replaces a file that is complete: a second run keeps
\* the private token and what an administrator has edited.
WholeFilesKept ==
  [][\A p \in Paths :
       files[p] = "whole" =>
         installBudget'["edit"] # installBudget["edit"] \/
         (files'[p] = "whole" /\ (p[1] # "" => settings'[p[1]].site = settings[p[1]].site
                                              \/ p[2] # "web"))]_<<confVars, installVars>>

\* One bad site makes the web server refuse all of them.  A site is bad only
\* if its web.yaml was edited, was left empty by a tool that died over it (or
\* is being filled), or was written without a host name for an instance that
\* was begun with --grader-only.  Wherever else a tool is or has died, what has
\* a web.yaml with a host name has the file of its endpoints.
BadSiteCause ==
  \A n \in ConfiguredSites :
    ~ParseSiteConfigSucceeds(n) =>
      \/ n \in edited
      \/ <<n, "web">> \in cut \/ (tool.pc = "write" /\ NextFile = <<n, "web">>)
      \/ settings[n].site = "unnamed" /\ <<n, "grader">> \in begun
=============================================================================
