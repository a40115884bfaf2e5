------------------------------ MODULE WebServer ------------------------------
(***************************************************************************)
(* The gRPC web server: server_handlers.go, grpc_endpoint.go and           *)
(* static_handler.go.  It passes calls of gRPC on to the services over one *)
(* connection for each endpoint, which is made by the first request that   *)
(* finds none and dropped at SIGHUP, and answers other requests from a     *)
(* copy of the directory of the web application, or passes them on too.    *)
(* Every request has a goroutine; each step is the code from one lock, or  *)
(* access of something shared, to the next.                                *)
(*                                                                         *)
(* gRPC itself, redirection to https and HTTP/2 push are left out, and of  *)
(* a file the model keeps its version.                                     *)
(***************************************************************************)
EXTENDS Configuration

CONSTANTS
  Requests,     \* bound: as many requests at a time
  StaticFiles   \* files of a web application, "/index.html" among them

\* "request"  a client sends one      "deploy"  a file is written or removed
\* "reload"   the copy is renewed
WebEvents == {"request", "deploy", "reload"}

ASSUME WebServerAssumption ==
  /\ IsFiniteSet(Requests)
  /\ IsFiniteSet(StaticFiles)
  /\ "/index.html" \in StaticFiles /\ "*" \notin StaticFiles

Endpoints == Instances \X MasterServices

VARIABLES
  server,       \* "down", "up" or "panicked"
  sites,        \* the configuration of each site
  client,       \* field grpcClient of each endpoint: 0 for nil, else a connection
  opened,       \* how many connections have been made; none is ever closed
  drops,        \* goroutines that are to drop the connection
  dropped,      \* history: how many of them have
  requests,     \* where each request is
  disk,         \* the directory of each site: versions of files, 0 if absent
  cache,        \* field files of each static handler, likewise
  reloads,      \* what each reload under way has still to read
  proxied,      \* how often the URL of proxy_pass has been extended
  quiet,        \* history: directories not touched since the last reload began
  shaky,        \* history: sites that have lacked a file since the server started
  webBudget     \* bound: how often each kind of event may still happen

channels == <<client, opened, drops, dropped>>
statics == <<disk, cache, reloads, quiet, shaky>>
webVars == <<server, sites, channels, requests, statics, proxied, webBudget>>

WebSpend(e) == webBudget[e] > 0 /\ webBudget' = [webBudget EXCEPT ![e] = @ - 1]

\* A request: its place, its site, the service or file it asks for, and what
\* it was answered from.
NoRequest == [pc |-> "idle", site |-> "", what |-> "", got |-> ""]

NotLoading == <<>>

NoFiles == [f \in StaticFiles |-> 0]

WebInit ==
  /\ server = "down" /\ sites = <<>>
  /\ client = [e \in Endpoints |-> 0] /\ opened = [e \in Endpoints |-> 0]
  /\ drops = [e \in Endpoints |-> 0] /\ dropped = [e \in Endpoints |-> 0]
  /\ requests = [r \in Requests |-> NoRequest]
  /\ disk = [n \in Instances |-> [f \in StaticFiles |-> 1]]
  /\ cache = [n \in Instances |-> NoFiles]
  /\ reloads = [n \in Instances |-> NotLoading]
  /\ proxied = [n \in Instances |-> 0]
  /\ quiet = Instances /\ shaky = {}

RequestGoto(r, pc) == requests' = [requests EXCEPT ![r].pc = pc]
Answer(r, got) == requests' = [requests EXCEPT ![r].pc = "idle", ![r].got = got]

EndpointOf(r) == <<requests[r].site, requests[r].what>>

-----------------------------------------------------------------------------
(* main *)

\* The sites are set up from the configuration, with what is on the disk.
WebStarts ==
  /\ server = "down" /\ server' = "up"
  /\ sites' = [n \in ConfiguredSites |-> [site |-> settings[n].site,
                                          endpoints |-> SiteEndpoints(n)]]
  /\ cache' = [n \in Instances |-> disk[n]]
  /\ quiet' = Instances
  /\ shaky' = {n \in Instances : \E f \in StaticFiles : disk[n][f] = 0}
  /\ UNCHANGED <<channels, requests, disk, reloads, proxied, webBudget>>

\* Everything the process had is gone.
WebEnds ==
  /\ server' = "down" /\ sites' = <<>>
  /\ client' = [e \in Endpoints |-> 0] /\ opened' = [e \in Endpoints |-> 0]
  /\ drops' = [e \in Endpoints |-> 0] /\ dropped' = [e \in Endpoints |-> 0]
  /\ requests' = [r \in Requests |-> NoRequest]
  /\ cache' = [n \in Instances |-> NoFiles]
  /\ reloads' = [n \in Instances |-> NotLoading]
  /\ proxied' = [n \in Instances |-> 0]
  /\ UNCHANGED <<disk, quiet, shaky, webBudget>>

-----------------------------------------------------------------------------
(* grpc_endpoint.go *)

GrpcRequest(r, e) ==
  /\ server = "up" /\ requests[r].pc = "idle" /\ WebSpend("request")
  /\ e[1] \in DOMAIN sites /\ e \in sites[e[1]].endpoints
  /\ requests' = [requests EXCEPT ![r] = [pc |-> "read", site |-> e[1], what |-> e[2], got |-> ""]]
  /\ UNCHANGED <<server, sites, channels, statics, proxied>>

ReadClient(r) ==
  /\ requests[r].pc = "read"
  /\ IF client[EndpointOf(r)] = 0 THEN RequestGoto(r, "dial") ELSE Answer(r, "service")
  /\ UNCHANGED <<server, sites, channels, statics, proxied, webBudget>>

\* Mutant: what was read first is used.
DialOnly(r) ==
  /\ requests[r].pc = "dial"
  /\ opened' = [opened EXCEPT ![EndpointOf(r)] = @ + 1]
  /\ RequestGoto(r, "reread")
  /\ UNCHANGED <<server, sites, client, drops, dropped, statics, proxied, webBudget>>

\* CreateEndpointConnection does not look whether another request has made a
\* connection meanwhile.
Dial(r) ==
  /\ requests[r].pc = "dial"
  /\ opened' = [opened EXCEPT ![EndpointOf(r)] = @ + 1]
  /\ client' = [client EXCEPT ![EndpointOf(r)] = opened[EndpointOf(r)] + 1]
  /\ RequestGoto(r, "reread")
  /\ UNCHANGED <<server, sites, drops, dropped, statics, proxied, webBudget>>

\* Mutant: the connection is not kept.
RereadAndForget(r) ==
  /\ requests[r].pc = "reread" /\ client[EndpointOf(r)] # 0
  /\ client' = [client EXCEPT ![EndpointOf(r)] = 0]
  /\ Answer(r, "service")
  /\ UNCHANGED <<server, sites, opened, drops, dropped, statics, proxied, webBudget>>

Reread(r) ==
  /\ requests[r].pc = "reread" /\ client[EndpointOf(r)] # 0
  /\ Answer(r, "service")
  /\ UNCHANGED <<server, sites, channels, statics, proxied, webBudget>>

\* The proxy dereferences nil, in a goroutine where nobody recovers.
ProxyPanics(r) ==
  /\ requests[r].pc = "reread" /\ client[EndpointOf(r)] = 0
  /\ server' = "panicked"
  /\ requests' = [q \in Requests |-> NoRequest]
  /\ UNCHANGED <<sites, channels, statics, proxied, webBudget>>

\* SIGHUP: a goroutine for each endpoint...
InvalidateEndpointConnections ==
  /\ drops' = [e \in Endpoints |->
                 IF e[1] \in DOMAIN sites /\ e \in sites[e[1]].endpoints
                 THEN drops[e] + 1 ELSE drops[e]]
  /\ UNCHANGED <<server, sites, client, opened, dropped, requests, statics, proxied, webBudget>>

\* ...drops its connection.
DropConnection(e) ==
  /\ server = "up" /\ drops[e] > 0
  /\ drops' = [drops EXCEPT ![e] = @ - 1]
  /\ dropped' = [dropped EXCEPT ![e] = @ + 1]
  /\ client' = [client EXCEPT ![e] = 0]
  /\ UNCHANGED <<server, sites, opened, requests, statics, proxied, webBudget>>

-----------------------------------------------------------------------------
(* static_handler.go *)

Loading(n) == reloads[n] # NotLoading

\* The names ReadDir gives, in an order that is always the same.
Listing(n) ==
  LET names == {f \in StaticFiles : disk[n][f] # 0} IN
  CHOOSE list \in [1..Cardinality(names) -> names] :
    \A f \in names : \E i \in DOMAIN list : list[i] = f

\* Mutant: files that were removed stay.
ReloadKeepsFiles(n) ==
  /\ server = "up" /\ n \in DOMAIN sites /\ ~Loading(n) /\ WebSpend("reload")
  /\ reloads' = [reloads EXCEPT ![n] = Append(Listing(n), "*")]
  /\ quiet' = quiet \cup {n}
  /\ UNCHANGED <<server, sites, channels, requests, disk, cache, shaky, proxied>>

\* The lock is taken for as long as it lasts; "*" ends the list.
ReloadBegins(n) ==
  /\ server = "up" /\ n \in DOMAIN sites /\ ~Loading(n) /\ WebSpend("reload")
  /\ reloads' = [reloads EXCEPT ![n] = Append(Listing(n), "*")]
  /\ cache' = [cache EXCEPT ![n] = NoFiles]
  /\ quiet' = quiet \cup {n}
  /\ UNCHANGED <<server, sites, channels, requests, disk, shaky, proxied>>

\* A file that is not there any more ends the reload with what it has read.
LoadFile(n) ==
  /\ Loading(n) /\ Head(reloads[n]) # "*"
  /\ LET f == Head(reloads[n]) IN
     /\ cache' = [cache EXCEPT ![n][f] = disk[n][f]]
     /\ reloads' = [reloads EXCEPT ![n] = IF disk[n][f] = 0 THEN <<"*">> ELSE Tail(@)]
  /\ UNCHANGED <<server, sites, channels, requests, disk, quiet, shaky, proxied, webBudget>>

ReloadEnds(n) ==
  /\ Loading(n) /\ Head(reloads[n]) = "*"
  /\ reloads' = [reloads EXCEPT ![n] = NotLoading]
  /\ UNCHANGED <<server, sites, channels, requests, disk, cache, quiet, shaky, proxied, webBudget>>

\* A new version of a file is written, or the file removed.
Deploy(n, f) ==
  /\ n \in DOMAIN sites /\ WebSpend("deploy")
  /\ disk' = [disk EXCEPT ![n][f] = @ + 1]
  /\ quiet' = quiet \ {n}
  /\ UNCHANGED <<server, sites, channels, requests, cache, reloads, shaky, proxied>>

Remove(n, f) ==
  /\ n \in DOMAIN sites /\ disk[n][f] # 0 /\ WebSpend("deploy")
  /\ disk' = [disk EXCEPT ![n][f] = 0]
  /\ quiet' = quiet \ {n} /\ shaky' = shaky \cup {n}
  /\ UNCHANGED <<server, sites, channels, requests, cache, reloads, proxied>>

GetRequest(r, n, f) ==
  /\ server = "up" /\ requests[r].pc = "idle" /\ WebSpend("request")
  /\ n \in DOMAIN sites
  /\ requests' = [requests EXCEPT ![r] =
       [pc |-> IF sites[n].site = "proxy" THEN "extend" ELSE "entry",
        site |-> n, what |-> f, got |-> ""]]
  /\ UNCHANGED <<server, sites, channels, statics, proxied>>

\* Mutant: the map is read without the lock.
ReadAnytime(r) ==
  /\ requests[r].pc = "entry"
  /\ LET q == requests[r] IN
     IF cache[q.site][q.what] # 0 THEN Answer(r, "file") ELSE RequestGoto(r, "index")
  /\ UNCHANGED <<server, sites, channels, statics, proxied, webBudget>>

ReadEntry(r) ==
  /\ requests[r].pc = "entry" /\ ~Loading(requests[r].site)
  /\ LET q == requests[r] IN
     IF cache[q.site][q.what] # 0 THEN Answer(r, "file") ELSE RequestGoto(r, "index")
  /\ UNCHANGED <<server, sites, channels, statics, proxied, webBudget>>

\* What is not a file is taken for a page of the application.
ReadIndex(r) ==
  /\ requests[r].pc = "index" /\ ~Loading(requests[r].site)
  /\ Answer(r, IF cache[requests[r].site]["/index.html"] # 0 THEN "index" ELSE "nothing")
  /\ UNCHANGED <<server, sites, channels, statics, proxied, webBudget>>

-----------------------------------------------------------------------------
(* proxy_pass *)

\* The path of the request is appended to the URL of the site itself...
ExtendURL(r) ==
  /\ requests[r].pc = "extend"
  /\ proxied' = [proxied EXCEPT ![requests[r].site] = @ + 1]
  /\ RequestGoto(r, "send")
  /\ UNCHANGED <<server, sites, channels, statics, webBudget>>

\* ...which is then sent as it is by now.
SendProxied(r) ==
  /\ requests[r].pc = "send"
  /\ Answer(r, IF proxied[requests[r].site] = 1 THEN "asked" ELSE "other")
  /\ UNCHANGED <<server, sites, channels, statics, proxied, webBudget>>

-----------------------------------------------------------------------------

\* Steps of the web server itself, as long as it lives.
WebNext ==
  \/ \E r \in Requests :
       \/ \E e \in Endpoints : GrpcRequest(r, e)
       \/ \E n \in Instances, f \in StaticFiles : GetRequest(r, n, f)
       \/ ReadClient(r) \/ Dial(r) \/ Reread(r)
       \/ ReadEntry(r) \/ ReadIndex(r) \/ ExtendURL(r) \/ SendProxied(r)
  \/ \E e \in Endpoints : DropConnection(e)
  \/ \E n \in Instances :
       \/ ReloadBegins(n) \/ LoadFile(n) \/ ReloadEnds(n)
       \/ \E f \in StaticFiles : Deploy(n, f) \/ Remove(n, f)

\* ...and what happens to its process.
ProcessNext ==
  \/ WebStarts \/ WebEnds \/ InvalidateEndpointConnections
  \/ \E r \in Requests : ProxyPanics(r)

WebSpec ==
  /\ WebInit /\ webBudget \in [WebEvents -> Nat]
  /\ [][WebNext \/ ProcessNext]_webVars

-----------------------------------------------------------------------------
(* Properties *)

WebTypeOK ==
  /\ server \in {"down", "up", "panicked"}
  /\ DOMAIN sites \subseteq Instances
  /\ \A n \in DOMAIN sites : sites[n].endpoints \subseteq Endpoints
  /\ client \in [Endpoints -> Nat] /\ opened \in [Endpoints -> Nat]
  /\ drops \in [Endpoints -> Nat] /\ dropped \in [Endpoints -> Nat]
  /\ requests \in [Requests -> [pc : {"idle", "read", "dial", "reread", "entry", "index",
                                      "extend", "send"},
                                site : Instances \cup {""},
                                what : MasterServices \cup StaticFiles \cup {""},
                                got : {"", "service", "file", "index", "nothing", "asked",
                                       "other"}]]
  /\ disk \in [Instances -> [StaticFiles -> Nat]]
  /\ cache \in [Instances -> [StaticFiles -> Nat]]
  /\ proxied \in [Instances -> Nat]

\* A burst of requests that find no connection makes one each, and none is
\* ever closed; but there are no more of them than requests at a time for
\* each time the connection was dropped.
DialsBounded ==
  \A e \in Endpoints : opened[e] <= Cardinality(Requests) * (dropped[e] + 1)

\* The proxy never gets nil for a connection, unless one was dropped just
\* then: a request that dials finds a connection afterwards, even if others
\* dial at the same time.
NilOnlyIfDropped ==
  server = "panicked" => \E e \in Endpoints : dropped[e] > 0

\* A reload during which nobody writes leaves in the copy exactly what is in
\* the directory, without the files that are no longer there.
ReloadIsComplete ==
  \A n \in DOMAIN sites : n \in quiet /\ ~Loading(n) => cache[n] = disk[n]

\* As long as a directory has had all its files since the server was started,
\* none is answered with another page or with nothing, also during a reload.
FileServed ==
  \A r \in Requests :
    requests[r].got \in {"index", "nothing"} => requests[r].site \in shaky
=============================================================================
