------------------------------- MODULE MCHost -------------------------------
(* Instances of Host for TLC.  What hardly meets is looked at in scenarios *)
(* of their own, so that each can be larger.                               *)
EXTENDS Host, TLC

UsersAndContent == <<"users", "content">>

With(services, grader, site) == [services |-> services, grader |-> grader, site |-> site]

Installing(install, create, die, edit) ==
  [install |-> install, create |-> create, die |-> die, edit |-> edit]
Supervising(control, crash, term) ==
  [boot |-> 1, control |-> control, crash |-> crash, term |-> term, nostart |-> 0]
Requesting(request, deploy, reload) ==
  [request |-> request, deploy |-> deploy, reload |-> reload]

NoInstall == Installing(0, 0, 0, 0)
NoSupervisor == [Supervising(0, 0, 0) EXCEPT !.boot = 0]
NoWeb == Requesting(0, 0, 0)

AdministratorWrites == {With(<<"users">>, "true", "proxy")}

UsedCommands ==
  {<<"stop", Web>>, <<"restart", <<"i1", "*">>>>, <<"start", <<"i1", "grader">>>>,
   <<"start", <<"i1", "content">>>>}

\* A fresh machine, with second runs and a failure...
Fresh ==
  [settings |-> <<>>, autostart |-> "true", install |-> Installing(1, 2, 1, 0),
   supervisor |-> NoSupervisor, web |-> NoWeb]

\* ...or an edit.
FreshEdited == [Fresh EXCEPT !.install = Installing(1, 2, 0, 1)]

\* Two instances, of which one has a crash...
Crashes ==
  [settings |-> [i1 |-> With(UsersAndContent, "false", "static"),
                 users |-> With(<<"users">>, "false", "static")],
   autostart |-> "false",
   install |-> NoInstall, supervisor |-> Supervising(0, 2, 0), web |-> NoWeb]

\* ...or the web server that both have.
WebCrashes ==
  [settings |-> [i1 |-> With(<<"users">>, "false", "static"),
                 users |-> With(<<"content">>, "false", "static")],
   autostart |-> "true",
   install |-> NoInstall, supervisor |-> Supervising(0, 2, 0), web |-> NoWeb]

One(services, grader, site) == [i1 |-> With(services, grader, site)]

\* One instance with a grader, commands and a crash.
Controlled ==
  [settings |-> One(<<"users">>, "true", "static"), autostart |-> "false",
   install |-> NoInstall, supervisor |-> Supervising(1, 1, 0), web |-> NoWeb]

\* A process cannot be started, at first or again.
Failing ==
  [Controlled EXCEPT !.supervisor = [Supervising(1, 1, 0) EXCEPT !.nostart = 1]]

\* The instance is named like one of its services, which has a crash.
Namesake ==
  [settings |-> [users |-> With(UsersAndContent, "false", "static")],
   autostart |-> "false",
   install |-> NoInstall, supervisor |-> Supervising(0, 1, 0), web |-> NoWeb]

\* The supervisor is shut down, perhaps during a command...
Closed ==
  [settings |-> One(<<"users">>, "false", "static"), autostart |-> "false",
   install |-> NoInstall, supervisor |-> Supervising(1, 0, 1), web |-> NoWeb]

\* ...or while it restarts a service...
CrashClosed ==
  [settings |-> One(<<"users">>, "false", "static"), autostart |-> "true",
   install |-> NoInstall, supervisor |-> Supervising(0, 1, 1), web |-> NoWeb]

\* ...or that of the web server.
WebClosed ==
  [settings |-> One(<<>>, "false", "static"), autostart |-> "true",
   install |-> NoInstall, supervisor |-> Supervising(1, 0, 1), web |-> NoWeb]

\* Files of a running instance are edited.
Edited ==
  [settings |-> One(<<"users">>, "false", "static"), autostart |-> "true",
   install |-> Installing(0, 0, 0, 1), supervisor |-> Supervising(1, 0, 0), web |-> NoWeb]

\* Requests while a service crashes.
Served ==
  [settings |-> One(<<"users">>, "false", "static"), autostart |-> "true",
   install |-> NoInstall, supervisor |-> Supervising(0, 1, 0), web |-> Requesting(2, 0, 0)]

\* More requests than there are goroutines for.
Burst == [Served EXCEPT !.supervisor = Supervising(0, 0, 0), !.web = Requesting(3, 0, 0)]

\* A new version of the web application is written.
Deployed ==
  [settings |-> One(<<>>, "false", "static"), autostart |-> "true",
   install |-> NoInstall, supervisor |-> Supervising(0, 0, 0), web |-> Requesting(2, 1, 1)]

\* A site that passes requests on.
Proxied ==
  [settings |-> One(<<>>, "false", "proxy"), autostart |-> "true",
   install |-> NoInstall, supervisor |-> Supervising(0, 0, 0), web |-> Requesting(2, 0, 0)]

AllScenarios ==
  {Fresh, FreshEdited, Crashes, WebCrashes, Controlled, Failing, Namesake, Closed, CrashClosed,
   WebClosed, Edited, Served, Burst, Deployed, Proxied}
=============================================================================
