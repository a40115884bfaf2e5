---------------------------- MODULE Configuration ----------------------------
(***************************************************************************)
(* The directory conf and how the servers read it: supervisor_config.go    *)
(* and server_config.go.  Each instance has a subdirectory of files; the   *)
(* files of the directory itself are under the name "".                    *)
(*                                                                         *)
(* Of a file the model keeps whether it is there and whether it is whole,  *)
(* and of its content what the servers decide by.  The files that only     *)
(* the services in Dart read are one file, "services".                     *)
(***************************************************************************)
EXTENDS Integers, FiniteSets, Sequences

CONSTANTS
  Instances,    \* names of instances
  AllServices   \* names of the services written in Dart, but the grader

Elements(s) == {s[i] : i \in DOMAIN s}

MasterServices == Elements(AllServices)

ASSUME ConfigurationAssumption ==
  /\ IsFiniteSet(Instances) /\ Instances \subseteq STRING /\ "" \notin Instances
  /\ AllServices \in Seq(STRING)
  /\ {"grader", "webserver", "*"} \cap MasterServices = {}

GlobalFiles == <<"webserver", "password">>

\* Mutant: the site is there before the list of its endpoints.
SiteFirst == <<"services", "web", "endpoints", "supervisor", "token">>

\* In the order the tool that creates an instance writes them: the templates
\* as ReadDir sorts them, then the private token.
InstanceFiles == <<"services", "endpoints", "supervisor", "web", "token">>

Paths == ({""} \X Elements(GlobalFiles)) \cup (Instances \X Elements(InstanceFiles))

\* "empty"   created, and cut short before its content was written
\* "broken"  edited to something that is not YAML
FileStates == {"missing", "empty", "whole", "broken"}

VARIABLES
  files,      \* the state of each file
  settings,   \* content of supervisor.yaml and web.yaml of each instance
  autostart   \* autostart_grpcwebserver of server.yaml, "true" or "false"

confVars == <<files, settings, autostart>>

\* services and grader are the autostart settings of supervisor.yaml; site is
\* what web.yaml makes of the instance.
Settings == [services : Seq(STRING), grader : {"true", "false"},
             site : {"static", "proxy", "unnamed"}]

-----------------------------------------------------------------------------
(* supervisor_config.go *)

\* YAML takes an empty file for an empty configuration.
Parses(path) == files[path] \in {"empty", "whole"}

\* The file does not hold the name of the instance.
LoadSupervisorConfig(n) ==
  IF files[<<n, "supervisor">>] = "whole"
  THEN [name |-> "", services |-> settings[n].services, grader |-> settings[n].grader]
  ELSE [name |-> "", services |-> <<>>, grader |-> "false"]

\* The subdirectories that have a supervisor.yaml.
ConfiguredInstances == {n \in Instances : files[<<n, "supervisor">>] # "missing"}

LoadServerConfigSucceeds ==
  \A n \in ConfiguredInstances : Parses(<<n, "supervisor">>)

\* LoadSupervisorConfigsFromSubdirectories adds the name.
LoadInstanceConfig(n) == [LoadSupervisorConfig(n) EXCEPT !.name = n]

-----------------------------------------------------------------------------
(* server_config.go *)

\* A site needs a host_name, which neither an empty file nor that of an
\* instance without one has, and the file of its endpoints.
ParseSiteConfigSucceeds(n) ==
  /\ files[<<n, "web">>] = "whole" /\ settings[n].site # "unnamed"
  /\ Parses(<<n, "endpoints">>)

ConfiguredSites == {n \in Instances : files[<<n, "web">>] # "missing"}

ParseWebServerConfigSucceeds ==
  /\ Parses(<<"", "webserver">>)
  /\ ConfiguredSites # {}
  /\ \A n \in ConfiguredSites : ParseSiteConfigSucceeds(n)

\* The endpoints of a site, one for each service; none if the file is empty.
SiteEndpoints(n) ==
  IF files[<<n, "endpoints">>] = "whole" THEN {n} \X MasterServices ELSE {}
=============================================================================
