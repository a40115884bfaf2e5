---------------------------- MODULE WebServerProofs ----------------------------
(***************************************************************************)
(* Theorems about the web server, for any sites, services, files and       *)
(* numbers of requests, and whatever is written to the configuration.      *)
(***************************************************************************)
EXTENDS WebServer, FiniteSetTheorems, TLAPS

-----------------------------------------------------------------------------
(* Places: types, and where requests and reloads are *)

ServerOK ==
  /\ server \in {"down", "up", "panicked"}
  /\ DOMAIN sites \subseteq Instances
  /\ \A n \in DOMAIN sites : sites[n].endpoints \subseteq Endpoints
  /\ proxied \in [Instances -> Nat]
  /\ webBudget \in [WebEvents -> Nat]

ChannelsOK ==
  /\ client \in [Endpoints -> Nat] /\ opened \in [Endpoints -> Nat]
  /\ drops \in [Endpoints -> Nat] /\ dropped \in [Endpoints -> Nat]

RequestPlaces == {"idle", "read", "dial", "reread", "entry", "index", "extend", "send"}
Answers == {"", "service", "file", "index", "nothing", "asked", "other"}

Records == [pc : RequestPlaces, site : Instances \cup {""},
            what : MasterServices \cup StaticFiles \cup {""}, got : Answers]

\* A call of gRPC is for an endpoint, and a file is asked of a site there is.
RequestOK(r) ==
  /\ requests[r].pc \in {"read", "dial", "reread"} => EndpointOf(r) \in Endpoints
  /\ requests[r].pc \in {"entry", "index"} =>
       requests[r].site \in DOMAIN sites /\ requests[r].what \in StaticFiles

RequestsOK == requests \in [Requests -> Records] /\ \A r \in Requests : RequestOK(r)

\* What a reload has to read: files, and "*" at the end.
ListOK(list) ==
  /\ list \in Seq(StaticFiles \cup {"*"})
  /\ list # <<>> => list[Len(list)] = "*"
  /\ \A i \in 1..(Len(list) - 1) : list[i] # "*"

DirectoriesOK ==
  /\ disk \in [Instances -> [StaticFiles -> Nat]]
  /\ cache \in [Instances -> [StaticFiles -> Nat]]
  /\ reloads = [n \in Instances |-> reloads[n]] /\ \A n \in Instances : ListOK(reloads[n])

\* A server that does not run has no requests, no sites and no reloads.
AtRest ==
  /\ server # "up" => \A r \in Requests : requests[r] = NoRequest
  /\ server = "down" => DOMAIN sites = {} /\ \A n \in Instances : reloads[n] = <<>>

Places == ServerOK /\ ChannelsOK /\ RequestsOK /\ DirectoriesOK /\ AtRest

\* The steps of one request, and of one directory.
RequestStep(r) ==
  \/ \E e \in Endpoints : GrpcRequest(r, e)
  \/ \E n \in Instances, f \in StaticFiles : GetRequest(r, n, f)
  \/ ReadClient(r) \/ Dial(r) \/ Reread(r)
  \/ ReadEntry(r) \/ ReadIndex(r) \/ ExtendURL(r) \/ SendProxied(r)

SiteStep(n) ==
  \/ ReloadBegins(n) \/ LoadFile(n) \/ ReloadEnds(n)
  \/ \E f \in StaticFiles : Deploy(n, f) \/ Remove(n, f)

LEMMA PlacesAreTypes == Places => WebTypeOK
BY DEF Places, ServerOK, ChannelsOK, RequestsOK, RequestOK, DirectoriesOK, WebTypeOK,
       Records, RequestPlaces, Answers

\* Steps are of a request, a directory, a connection or the process.
LEMMA StepsAre ==
  ASSUME WebNext \/ ProcessNext
  PROVE  \/ \E r \in Requests : RequestStep(r) \/ ProxyPanics(r)
         \/ \E n \in Instances : SiteStep(n)
         \/ \E e \in Endpoints : DropConnection(e)
         \/ WebStarts \/ WebEnds \/ InvalidateEndpointConnections
BY Zenon DEF WebNext, ProcessNext, RequestStep, SiteStep

-----------------------------------------------------------------------------

LEMMA NoSites == DOMAIN <<>> = {}
OBVIOUS

LEMMA NoList == ListOK(<<>>)
BY DEF ListOK

LEMMA NoRequestIs == NoRequest \in Records /\ NoRequest.pc = "idle" /\ NoRequest.got = ""
BY DEF NoRequest, Records, RequestPlaces, Answers

LEMMA PlacesInit == WebInit /\ webBudget \in [WebEvents -> Nat] => Places
<1>. SUFFICES ASSUME WebInit, webBudget \in [WebEvents -> Nat] PROVE Places
  OBVIOUS
<1>1. ServerOK
  BY NoSites DEF WebInit, ServerOK
<1>2. ChannelsOK
  BY DEF WebInit, ChannelsOK
<1>3. RequestsOK
  BY NoRequestIs DEF WebInit, RequestsOK, RequestOK
<1>4. DirectoriesOK
  BY NoList DEF WebInit, DirectoriesOK, NoFiles, NotLoading
<1>5. AtRest
  BY NoSites DEF WebInit, AtRest, NotLoading
<1>. QED
  BY <1>1, <1>2, <1>3, <1>4, <1>5 DEF Places

\* The process of the web server.
LEMMA PlacesOfProcess ==
  ASSUME Places,
         \/ WebStarts \/ WebEnds \/ InvalidateEndpointConnections
         \/ \E r \in Requests : ProxyPanics(r)
  PROVE  Places'
<1>. USE DEF channels, statics
<1>1. CASE WebStarts
  <2>1. ServerOK'
    BY <1>1 DEF WebStarts, Places, ServerOK, ConfiguredSites, SiteEndpoints, Endpoints
  <2>2. ChannelsOK'
    BY <1>1 DEF WebStarts, Places, ChannelsOK
  <2>3. RequestsOK'
    BY <1>1, NoRequestIs DEF WebStarts, Places, AtRest, RequestsOK, RequestOK, EndpointOf
  <2>4. DirectoriesOK' /\ AtRest'
    BY <1>1 DEF WebStarts, Places, DirectoriesOK, AtRest
  <2>. QED
    BY <2>1, <2>2, <2>3, <2>4 DEF Places
<1>2. CASE WebEnds
  <2>1. ServerOK'
    BY <1>2, NoSites DEF WebEnds, Places, ServerOK
  <2>2. ChannelsOK'
    BY <1>2 DEF WebEnds, ChannelsOK
  <2>3. RequestsOK'
    BY <1>2, NoRequestIs DEF WebEnds, RequestsOK, RequestOK
  <2>4. DirectoriesOK'
    BY <1>2, NoList DEF WebEnds, Places, DirectoriesOK, NoFiles, NotLoading
  <2>5. AtRest'
    BY <1>2, NoSites DEF WebEnds, AtRest, NotLoading
  <2>. QED
    BY <2>1, <2>2, <2>3, <2>4, <2>5 DEF Places
<1>3. CASE InvalidateEndpointConnections
  <2>1. ChannelsOK'
    BY <1>3 DEF InvalidateEndpointConnections, Places, ChannelsOK
  <2>2. ServerOK' /\ RequestsOK' /\ DirectoriesOK' /\ AtRest'
    BY <1>3 DEF InvalidateEndpointConnections, Places, ServerOK, RequestsOK, RequestOK,
                EndpointOf, DirectoriesOK, AtRest
  <2>. QED
    BY <2>1, <2>2 DEF Places
<1>4. CASE \E r \in Requests : ProxyPanics(r)
  <2>1. ServerOK' /\ AtRest'
    BY <1>4 DEF ProxyPanics, Places, ServerOK, AtRest
  <2>2. ChannelsOK' /\ DirectoriesOK'
    BY <1>4 DEF ProxyPanics, Places, ChannelsOK, DirectoriesOK
  <2>3. RequestsOK'
    BY <1>4, NoRequestIs DEF ProxyPanics, RequestsOK, RequestOK
  <2>. QED
    BY <2>1, <2>2, <2>3 DEF Places
<1>. QED
  BY <1>1, <1>2, <1>3, <1>4

\* A request goes on, or is answered.
LEMMA GoesOn ==
  ASSUME RequestsOK, NEW r \in Requests, NEW pc \in RequestPlaces, RequestGoto(r, pc)
  PROVE  /\ requests' \in [Requests -> Records]
         /\ requests'[r].pc = pc /\ EndpointOf(r)' = EndpointOf(r)
         /\ UNCHANGED <<requests[r].site, requests[r].what, requests[r].got>>
         /\ \A q \in Requests \ {r} : requests'[q] = requests[q]
<1>1. requests' = [requests EXCEPT ![r] = [requests[r] EXCEPT !.pc = pc]]
  BY DEF RequestGoto
<1>2. requests[r] \in Records /\ [requests[r] EXCEPT !.pc = pc] \in Records
  BY DEF RequestsOK, Records
<1>. QED
  BY <1>1, <1>2 DEF RequestsOK, Records, EndpointOf

LEMMA IsAnswered ==
  ASSUME RequestsOK, NEW r \in Requests, NEW got \in Answers, Answer(r, got)
  PROVE  /\ requests' \in [Requests -> Records]
         /\ requests'[r].pc = "idle" /\ requests'[r].got = got
         /\ UNCHANGED <<requests[r].site, requests[r].what>>
         /\ \A q \in Requests \ {r} : requests'[q] = requests[q]
<1>1. requests' = [requests EXCEPT ![r] = [requests[r] EXCEPT !.pc = "idle", !.got = got]]
  BY DEF Answer
<1>2. requests[r] \in Records /\ [requests[r] EXCEPT !.pc = "idle", !.got = got] \in Records
  BY DEF RequestsOK, Records, RequestPlaces
<1>. QED
  BY <1>1, <1>2 DEF RequestsOK, Records

LEMMA IsReplaced ==
  ASSUME RequestsOK, NEW r \in Requests, NEW rec \in Records,
         requests' = [requests EXCEPT ![r] = rec]
  PROVE  /\ requests' \in [Requests -> Records] /\ requests'[r] = rec
         /\ \A q \in Requests \ {r} : requests'[q] = requests[q]
BY DEF RequestsOK

LEMMA Spent ==
  ASSUME ServerOK, NEW e \in WebEvents, WebSpend(e)
  PROVE  webBudget' \in [WebEvents -> Nat]
BY DEF ServerOK, WebSpend

\* One request moves: its server runs.
LEMMA RequestMoves ==
  ASSUME Places, NEW r \in Requests, RequestStep(r)
  PROVE  /\ server = "up" /\ UNCHANGED <<server, sites, statics, drops, dropped>>
         /\ requests' \in [Requests -> Records]
         /\ \A q \in Requests \ {r} : requests'[q] = requests[q]
         /\ RequestOK(r)'
<1>1. UNCHANGED <<server, sites, statics, drops, dropped>>
  BY DEF RequestStep, channels, GrpcRequest, GetRequest, ReadClient, Dial, Reread, ReadEntry,
         ReadIndex, ExtendURL, SendProxied
<1>2. server = "up"
  <2>1. CASE requests[r].pc = "idle"
    BY <2>1 DEF RequestStep, GrpcRequest, GetRequest, ReadClient, Dial, Reread, ReadEntry,
                ReadIndex, ExtendURL, SendProxied
  <2>2. CASE requests[r].pc # "idle"
    BY <2>2, NoRequestIs DEF Places, AtRest
  <2>. QED
    BY <2>1, <2>2
<1>. DEFINE Moved == /\ requests' \in [Requests -> Records]
                     /\ \A q \in Requests \ {r} : requests'[q] = requests[q]
                     /\ RequestOK(r)'
<1>3. Moved
  <2>. USE DEF RequestOK, RequestPlaces, Answers
  <2>1. CASE \E e \in Endpoints : GrpcRequest(r, e)
    <3>1. PICK e \in Endpoints : GrpcRequest(r, e)
      BY <2>1
    <3>. DEFINE rec == [pc |-> "read", site |-> e[1], what |-> e[2], got |-> ""]
    <3>2. rec \in Records /\ <<rec.site, rec.what>> = e /\ rec.pc = "read"
      <4>1. e[1] \in Instances /\ e[2] \in MasterServices /\ e = <<e[1], e[2]>>
        BY DEF Endpoints
      <4>. QED
        BY <4>1 DEF Records
    <3>3. requests' = [requests EXCEPT ![r] = rec]
      BY <3>1 DEF GrpcRequest
    <3>. HIDE DEF rec
    <3>4. /\ requests' \in [Requests -> Records] /\ requests'[r] = rec
          /\ \A q \in Requests \ {r} : requests'[q] = requests[q]
      BY <3>2, <3>3, IsReplaced DEF Places
    <3>5. EndpointOf(r)' = e
      BY <3>2, <3>4 DEF EndpointOf
    <3>. QED
      BY <3>2, <3>4, <3>5
  <2>2. CASE \E n \in Instances, f \in StaticFiles : GetRequest(r, n, f)
    <3>1. PICK n \in Instances, f \in StaticFiles : GetRequest(r, n, f)
      BY <2>2
    <3>. DEFINE rec == [pc |-> IF sites[n].site = "proxy" THEN "extend" ELSE "entry",
                       site |-> n, what |-> f, got |-> ""]
    <3>2. /\ rec \in Records /\ rec.site = n /\ rec.what = f
          /\ rec.pc \in {"extend", "entry"}
      BY DEF Records
    <3>3. requests' = [requests EXCEPT ![r] = rec] /\ n \in DOMAIN sites /\ sites' = sites
      BY <3>1 DEF GetRequest
    <3>. HIDE DEF rec
    <3>. QED
      BY <3>2, <3>3, IsReplaced DEF Places
  <2>3. CASE ReadClient(r)
    BY <1>1, <2>3, GoesOn, IsAnswered DEF ReadClient, Places, RequestsOK
  <2>4. CASE Dial(r)
    BY <1>1, <2>4, GoesOn DEF Dial, Places, RequestsOK
  <2>5. CASE Reread(r)
    BY <1>1, <2>5, IsAnswered DEF Reread, Places, RequestsOK
  <2>6. CASE ReadEntry(r)
    BY <1>1, <2>6, GoesOn, IsAnswered DEF ReadEntry, Places, RequestsOK
  <2>7. CASE ReadIndex(r)
    BY <1>1, <2>7, IsAnswered DEF ReadIndex, Places, RequestsOK
  <2>8. CASE ExtendURL(r)
    BY <1>1, <2>8, GoesOn DEF ExtendURL, Places, RequestsOK
  <2>9. CASE SendProxied(r)
    BY <1>1, <2>9, IsAnswered DEF SendProxied, Places, RequestsOK
  <2>. HIDE DEF Moved, RequestOK
  <2>. QED
    BY <2>1, <2>2, <2>3, <2>4, <2>5, <2>6, <2>7, <2>8, <2>9, Zenon DEF RequestStep
<1>. QED
  BY <1>1, <1>2, <1>3

LEMMA PlacesOfRequest ==
  ASSUME Places, NEW r \in Requests, RequestStep(r)
  PROVE  Places'
<1>1. /\ server = "up" /\ UNCHANGED <<server, sites, statics, drops, dropped>>
      /\ requests' \in [Requests -> Records]
      /\ \A q \in Requests \ {r} : requests'[q] = requests[q]
      /\ RequestOK(r)'
  BY RequestMoves
<1>4. RequestsOK'
  BY <1>1 DEF Places, RequestsOK, RequestOK, EndpointOf
<1>5. webBudget' \in [WebEvents -> Nat]
  <2>1. WebSpend("request") \/ webBudget' = webBudget
    BY DEF RequestStep, GrpcRequest, GetRequest, ReadClient, Dial, Reread, ReadEntry, ReadIndex,
           ExtendURL, SendProxied
  <2>. QED
    BY <2>1, Spent DEF Places, ServerOK, WebEvents
<1>6. proxied' \in [Instances -> Nat]
  <2>1. \/ proxied' = [proxied EXCEPT ![requests[r].site] = @ + 1]
        \/ proxied' = proxied
    BY DEF RequestStep, GrpcRequest, GetRequest, ReadClient, Dial, Reread, ReadEntry, ReadIndex,
           ExtendURL, SendProxied
  <2>. QED
    BY <2>1 DEF Places, ServerOK
<1>7. client' \in [Endpoints -> Nat] /\ opened' \in [Endpoints -> Nat]
  <2>1. CASE Dial(r)
    <3>1. EndpointOf(r) \in Endpoints
      BY <2>1 DEF Dial, Places, RequestsOK, RequestOK
    <3>. QED
      BY <2>1, <3>1 DEF Dial, Places, ChannelsOK
  <2>2. CASE ~Dial(r)
    <3>1. UNCHANGED channels
      BY <2>2 DEF RequestStep, GrpcRequest, GetRequest, ReadClient, Reread, ReadEntry, ReadIndex,
                  ExtendURL, SendProxied
    <3>. QED
      BY <3>1 DEF Places, ChannelsOK, channels
  <2>. QED
    BY <2>1, <2>2
<1>8. ServerOK' /\ ChannelsOK'
  BY <1>1, <1>5, <1>6, <1>7 DEF Places, ServerOK, ChannelsOK
<1>. QED
  BY <1>1, <1>4, <1>8 DEF Places, DirectoriesOK, AtRest, statics

LEMMA PlacesOfDrop ==
  ASSUME Places, NEW e \in Endpoints, DropConnection(e)
  PROVE  Places'
<1>1. ChannelsOK'
  BY DEF DropConnection, Places, ChannelsOK
<1>2. ServerOK' /\ RequestsOK' /\ DirectoriesOK' /\ AtRest'
  BY DEF DropConnection, Places, ServerOK, RequestsOK, RequestOK, EndpointOf, DirectoriesOK,
         AtRest, statics
<1>. QED
  BY <1>1, <1>2 DEF Places

-----------------------------------------------------------------------------
(* Directories *)

\* ReadDir lists the files there are.
LEMMA ListingOfFiles ==
  ASSUME NEW n \in Instances
  PROVE  LET names == {f \in StaticFiles : disk[n][f] # 0} IN
         /\ Listing(n) \in Seq(names)
         /\ \A f \in names : \E i \in 1..Len(Listing(n)) : Listing(n)[i] = f
<1>. DEFINE names == {f \in StaticFiles : disk[n][f] # 0}
            k == Cardinality(names)
<1>1. k \in Nat /\ ExistsBijection(1..k, names)
  BY WebServerAssumption, FS_Subset, FS_CardinalityType
<1>2. PICK list \in [1..k -> names] : \A f \in names : \E i \in 1..k : list[i] = f
  BY <1>1 DEF ExistsBijection, Bijection, Injection, Surjection
<1>3. DOMAIN list = 1..k
  BY <1>2
<1>4. /\ Listing(n) \in [1..k -> names]
      /\ \A f \in names : \E i \in DOMAIN Listing(n) : Listing(n)[i] = f
  BY <1>2, <1>3 DEF Listing
<1>5. DOMAIN Listing(n) = 1..k
  BY <1>4
<1>. HIDE DEF names, k
<1>6. Listing(n) \in Seq(names) /\ Len(Listing(n)) = k
  BY <1>1, <1>4, <1>5
<1>. QED
  BY <1>4, <1>5, <1>6 DEF names

\* A list of files with "*" at its end.
LEMMA Listed ==
  ASSUME NEW list \in Seq(StaticFiles)
  PROVE  LET l == Append(list, "*") IN
         /\ ListOK(l) /\ l # <<>>
         /\ \A i \in 1..Len(list) : l[i] = list[i] /\ i < Len(l)
BY WebServerAssumption DEF ListOK

\* What is left of a list after its first file.
LEMMA Shortened ==
  ASSUME NEW list, ListOK(list), list # <<>>, Head(list) # "*"
  PROVE  /\ ListOK(Tail(list)) /\ Tail(list) # <<>>
         /\ Head(list) = list[1] /\ Head(list) \in StaticFiles
         /\ Len(Tail(list)) = Len(list) - 1 /\ Len(list) > 1
         /\ \A i \in 2..Len(list) : Tail(list)[i - 1] = list[i]
<1>1. list \in Seq(StaticFiles \cup {"*"}) /\ Len(list) \in Nat /\ Len(list) # 0
  BY DEF ListOK
<1>2. Head(list) = list[1] /\ Head(list) \in StaticFiles
  BY <1>1
<1>3. Len(list) > 1
  BY <1>1, <1>2 DEF ListOK
<1>4. /\ Tail(list) \in Seq(StaticFiles \cup {"*"}) /\ Len(Tail(list)) = Len(list) - 1
      /\ \A i \in 1..(Len(list) - 1) : Tail(list)[i] = list[i + 1]
  BY <1>1, <1>3
<1>5. Tail(list)[Len(Tail(list))] = "*"
  <2>1. Tail(list)[Len(list) - 1] = list[Len(list)]
    BY <1>1, <1>3, <1>4
  <2>. QED
    BY <1>4, <2>1 DEF ListOK
<1>6. \A i \in 1..(Len(Tail(list)) - 1) : Tail(list)[i] # "*"
  <2>1. TAKE i \in 1..(Len(Tail(list)) - 1)
  <2>2. i + 1 \in 1..(Len(list) - 1) /\ Tail(list)[i] = list[i + 1]
    BY <1>1, <1>4
  <2>. QED
    BY <2>2 DEF ListOK
<1>7. ListOK(Tail(list)) /\ Tail(list) # <<>>
  <2>1. Tail(list) # <<>>
    BY <1>1, <1>3
  <2>. QED
    BY <1>4, <1>5, <1>6, <2>1 DEF ListOK
<1>8. \A i \in 2..Len(list) : Tail(list)[i - 1] = list[i]
  <2>1. TAKE i \in 2..Len(list)
  <2>2. i - 1 \in 1..(Len(list) - 1) /\ (i - 1) + 1 = i
    BY <1>1
  <2>. QED
    BY <1>4, <2>2
<1>. QED
  BY <1>1, <1>2, <1>3, <1>4, <1>7, <1>8

\* "*" comes first only if nothing is left.
LEMMA AtItsEnd ==
  ASSUME NEW list, ListOK(list), list # <<>>, Head(list) = "*"
  PROVE  Len(list) = 1
<1>. DEFINE k == Len(list)
<1>1. list \in Seq(StaticFiles \cup {"*"})
  BY DEF ListOK
<1>2. k \in Nat /\ k # 0 /\ list[1] = "*"
  BY <1>1
<1>3. \A i \in 1..(k - 1) : list[i] # "*"
  BY DEF ListOK
<1>. HIDE DEF k
<1>4. k = 1
  BY <1>2, <1>3
<1>. QED
  BY <1>4 DEF k

LEMMA OnlyStar == ListOK(<<"*">>) /\ <<"*">> # <<>>
BY DEF ListOK

LEMMA PlacesOfSite ==
  ASSUME Places, NEW n \in Instances, SiteStep(n)
  PROVE  Places'
<1>. USE DEF channels
<1>1. UNCHANGED <<server, sites, requests, channels, proxied>>
  BY DEF SiteStep, ReloadBegins, LoadFile, ReloadEnds, Deploy, Remove
<1>2. ServerOK'
  <2>1. webBudget' \in [WebEvents -> Nat]
    BY DEF SiteStep, ReloadBegins, LoadFile, ReloadEnds, Deploy, Remove, WebSpend, Places,
           ServerOK, WebEvents
  <2>. QED
    BY <1>1, <2>1 DEF Places, ServerOK
<1>3. ChannelsOK' /\ RequestsOK'
  BY <1>1 DEF Places, ChannelsOK, RequestsOK, RequestOK, EndpointOf
<1>4. DirectoriesOK'
  <2>. USE DEF Places, DirectoriesOK
  <2>1. CASE ReloadBegins(n)
    <3>1. ListOK(Append(Listing(n), "*"))
      <4>1. Listing(n) \in Seq({f \in StaticFiles : disk[n][f] # 0})
        BY ListingOfFiles, Zenon
      <4>2. Listing(n) \in Seq(StaticFiles)
        BY <4>1
      <4>. QED
        BY <4>2, Listed
    <3>. QED
      BY <2>1, <3>1 DEF ReloadBegins, NoFiles
  <2>2. CASE LoadFile(n)
    <3>1. ListOK(reloads'[n])
      BY <2>2, Shortened, OnlyStar DEF LoadFile, Loading, NotLoading
    <3>. QED
      BY <2>2, <3>1 DEF LoadFile
  <2>3. CASE ReloadEnds(n)
    BY <2>3, NoList DEF ReloadEnds, NotLoading
  <2>4. CASE \E f \in StaticFiles : Deploy(n, f)
    BY <2>4 DEF Deploy
  <2>5. CASE \E f \in StaticFiles : Remove(n, f)
    BY <2>5 DEF Remove
  <2>. QED
    BY <2>1, <2>2, <2>3, <2>4, <2>5 DEF SiteStep
<1>5. AtRest'
  <2>1. server = "down" => reloads' = reloads
    BY DEF SiteStep, ReloadBegins, LoadFile, ReloadEnds, Deploy, Remove, Places, AtRest, Loading,
           NotLoading
  <2>. QED
    BY <1>1, <2>1 DEF Places, AtRest
<1>. QED
  BY <1>2, <1>3, <1>4, <1>5 DEF Places

LEMMA PlacesStep == Places /\ [WebNext \/ ProcessNext]_webVars => Places'
<1>. SUFFICES ASSUME Places, [WebNext \/ ProcessNext]_webVars PROVE Places'
  OBVIOUS
<1>1. CASE WebNext \/ ProcessNext
  BY <1>1, StepsAre, PlacesOfRequest, PlacesOfSite, PlacesOfDrop, PlacesOfProcess, Zenon
<1>2. CASE UNCHANGED webVars
  BY <1>2 DEF webVars, channels, statics, Places, ServerOK, ChannelsOK, RequestsOK, RequestOK,
              EndpointOf, DirectoriesOK, AtRest
<1>. QED
  BY <1>1, <1>2

LEMMA PlacesAlways == WebSpec => []Places
BY PlacesInit, PlacesStep, PTL DEF WebSpec

\* Connections, copies of directories and requests keep their types.
THEOREM WebTypeCorrect == WebSpec => []WebTypeOK
BY PlacesAlways, PlacesAreTypes, PTL

-----------------------------------------------------------------------------
(* Connections to endpoints *)

K == Cardinality(Requests)

Dialing(e) == {r \in Requests : requests[r].pc = "dial" /\ EndpointOf(r) = e}

\* Those that dial were sent to it before the connection was made, and since
\* it was dropped for the last time.
DialsInv ==
  \A e \in Endpoints :
    /\ client[e] = 0 => opened[e] <= K * dropped[e]
    /\ client[e] # 0 => opened[e] + Cardinality(Dialing(e)) <= K * dropped[e] + K

\* A request finds the connection it has made, unless it was dropped.
NilInv ==
  /\ \A r \in Requests :
       requests[r].pc = "reread" /\ dropped[EndpointOf(r)] = 0 => client[EndpointOf(r)] # 0
  /\ NilOnlyIfDropped

LEMMA KIsNat == K \in Nat
BY WebServerAssumption, FS_CardinalityType DEF K

LEMMA DialingIsFinite ==
  ASSUME NEW e
  PROVE  /\ IsFiniteSet(Dialing(e)) /\ Cardinality(Dialing(e)) \in Nat
         /\ Cardinality(Dialing(e)) <= K
<1>1. Dialing(e) \in SUBSET Requests
  BY DEF Dialing
<1>. QED
  BY <1>1, WebServerAssumption, FS_Subset, FS_CardinalityType DEF K

LEMMA Product == \A d \in Nat : K * d \in Nat /\ K * (d + 1) = K * d + K
BY KIsNat

LEMMA DialsAreBounded == Places /\ DialsInv => DialsBounded
<1>. SUFFICES ASSUME Places, DialsInv, NEW e \in Endpoints
              PROVE  opened[e] <= Cardinality(Requests) * (dropped[e] + 1)
  BY DEF DialsBounded
<1>1. opened[e] \in Nat /\ dropped[e] \in Nat /\ client[e] \in Nat
  BY DEF Places, ChannelsOK
<1>2. K * dropped[e] \in Nat /\ K * (dropped[e] + 1) = K * dropped[e] + K /\ K \in Nat
  BY <1>1, Product, KIsNat
<1>3. Cardinality(Dialing(e)) \in Nat
  BY DialingIsFinite
<1>4. opened[e] <= K * dropped[e] + K
  BY <1>1, <1>2, <1>3 DEF DialsInv
<1>. QED
  BY <1>2, <1>4 DEF K

\* Nobody else is sent to dial, and no connection made or dropped.
LEMMA DialsKept ==
  ASSUME Places, DialsInv, UNCHANGED <<client, opened, dropped>>,
         \A e \in Endpoints : client[e] # 0 => Dialing(e)' \subseteq Dialing(e)
  PROVE  DialsInv'
<1>. SUFFICES ASSUME NEW e \in Endpoints, client[e] # 0
              PROVE  opened[e] + Cardinality(Dialing(e)') <= K * dropped[e] + K
  BY DEF DialsInv
<1>1. /\ Cardinality(Dialing(e)') <= Cardinality(Dialing(e))
      /\ Cardinality(Dialing(e)') \in Nat /\ Cardinality(Dialing(e)) \in Nat
  BY DialingIsFinite, FS_Subset, FS_CardinalityType
<1>2. opened[e] \in Nat /\ K * dropped[e] \in Nat /\ K \in Nat
  BY Product, KIsNat DEF Places, ChannelsOK
<1>3. opened[e] + Cardinality(Dialing(e)) <= K * dropped[e] + K
  BY DEF DialsInv
<1>. HIDE DEF Dialing, K
<1>. QED
  BY <1>1, <1>2, <1>3

LEMMA NilKept ==
  ASSUME NilInv, UNCHANGED <<client, dropped>>,
         server' = "panicked" => server = "panicked",
         \A r \in Requests : requests'[r].pc = "reread" =>
            requests[r].pc = "reread" /\ EndpointOf(r)' = EndpointOf(r)
  PROVE  NilInv'
BY DEF NilInv, NilOnlyIfDropped

LEMMA DialStep ==
  ASSUME Places, DialsInv, NilInv, NEW r \in Requests, Dial(r)
  PROVE  DialsInv' /\ NilInv'
<1>. DEFINE e0 == EndpointOf(r)
<1>1. /\ server' = server /\ server = "up" /\ dropped' = dropped
      /\ \A q \in Requests \ {r} : requests'[q] = requests[q]
  BY RequestMoves DEF RequestStep
<1>2. requests[r].pc = "dial" /\ requests'[r].pc = "reread" /\ EndpointOf(r)' = e0
  BY GoesOn DEF Dial, Places, RequestPlaces
<1>3. e0 \in Endpoints
  BY <1>2 DEF Places, RequestsOK, RequestOK
<1>. HIDE DEF e0
<1>4. /\ opened' = [opened EXCEPT ![e0] = opened[e0] + 1]
      /\ client' = [client EXCEPT ![e0] = opened[e0] + 1]
  BY DEF Dial, e0
<1>5. DialsInv'
  <2>. SUFFICES ASSUME NEW e \in Endpoints
                PROVE  /\ client'[e] = 0 => opened'[e] <= K * dropped'[e]
                       /\ client'[e] # 0 =>
                            opened'[e] + Cardinality(Dialing(e)') <= K * dropped'[e] + K
    BY DEF DialsInv
  <2>1. CASE e # e0
    <3>1. Dialing(e)' = Dialing(e)
      BY <1>1, <1>2, <2>1 DEF Dialing, EndpointOf, e0
    <3>2. client'[e] = client[e] /\ opened'[e] = opened[e]
      BY <1>4, <2>1 DEF Places, ChannelsOK
    <3>. QED
      BY <1>1, <3>1, <3>2 DEF DialsInv
  <2>2. CASE e = e0
    <3>1. Dialing(e)' = Dialing(e) \ {r} /\ r \in Dialing(e)
      BY <1>1, <1>2, <2>2 DEF Dialing, EndpointOf, e0
    <3>2. Cardinality(Dialing(e)') = Cardinality(Dialing(e)) - 1
      BY <3>1, DialingIsFinite, FS_RemoveElement
    <3>3. opened[e] \in Nat /\ dropped[e] \in Nat /\ K * dropped[e] \in Nat /\ K \in Nat
      BY Product, KIsNat DEF Places, ChannelsOK
    <3>4. client'[e] = opened[e] + 1 /\ opened'[e] = opened[e] + 1
      BY <1>3, <1>4, <2>2 DEF Places, ChannelsOK
    <3>5. Cardinality(Dialing(e)) \in Nat /\ Cardinality(Dialing(e)) <= K
      BY DialingIsFinite
    <3>6. opened[e] + Cardinality(Dialing(e)) <= K * dropped[e] + K
      <4>1. CASE client[e] = 0
        <5>1. opened[e] <= K * dropped[e]
          BY <4>1 DEF DialsInv
        <5>. QED
          BY <3>3, <3>5, <5>1
      <4>2. CASE client[e] # 0
        BY <4>2 DEF DialsInv
      <4>. QED
        BY <4>1, <4>2
    <3>. QED
      BY <1>1, <3>2, <3>3, <3>4, <3>5, <3>6
  <2>. QED
    BY <2>1, <2>2
<1>6. NilInv'
  <2>1. \A q \in Requests : requests'[q].pc = "reread" /\ dropped'[EndpointOf(q)'] = 0
                             => client'[EndpointOf(q)'] # 0
    <3>1. TAKE q \in Requests
    <3>2. HAVE requests'[q].pc = "reread" /\ dropped'[EndpointOf(q)'] = 0
    <3>3. opened[e0] \in Nat /\ client'[e0] = opened[e0] + 1
      BY <1>3, <1>4 DEF Places, ChannelsOK
    <3>4. CASE EndpointOf(q)' = e0
      BY <3>3, <3>4
    <3>5. CASE EndpointOf(q)' # e0
      <4>1. q # r /\ requests'[q] = requests[q] /\ EndpointOf(q)' = EndpointOf(q)
        BY <1>1, <1>2, <3>5 DEF EndpointOf
      <4>2. EndpointOf(q) \in Endpoints
        BY <3>2, <4>1 DEF Places, RequestsOK, RequestOK
      <4>3. client'[EndpointOf(q)] = client[EndpointOf(q)]
        BY <1>4, <3>5, <4>1, <4>2 DEF Places, ChannelsOK
      <4>. QED
        BY <1>1, <3>2, <4>1, <4>3 DEF NilInv
    <3>. QED
      BY <3>4, <3>5
  <2>. QED
    BY <1>1, <2>1 DEF NilInv, NilOnlyIfDropped
<1>. QED
  BY <1>5, <1>6

LEMMA DropStep ==
  ASSUME Places, DialsInv, NilInv, NEW e0 \in Endpoints, DropConnection(e0)
  PROVE  DialsInv' /\ NilInv'
<1>1. /\ UNCHANGED <<server, requests, opened>> /\ server = "up"
      /\ client' = [client EXCEPT ![e0] = 0] /\ dropped' = [dropped EXCEPT ![e0] = @ + 1]
  BY DEF DropConnection
<1>2. DialsInv'
  <2>. SUFFICES ASSUME NEW e \in Endpoints
                PROVE  /\ client'[e] = 0 => opened'[e] <= K * dropped'[e]
                       /\ client'[e] # 0 =>
                            opened'[e] + Cardinality(Dialing(e)') <= K * dropped'[e] + K
    BY DEF DialsInv
  <2>1. Dialing(e)' = Dialing(e)
    BY <1>1 DEF Dialing, EndpointOf
  <2>2. CASE e # e0
    <3>1. client'[e] = client[e] /\ dropped'[e] = dropped[e]
      BY <1>1, <2>2 DEF Places, ChannelsOK
    <3>. QED
      BY <1>1, <2>1, <3>1 DEF DialsInv
  <2>3. CASE e = e0
    <3>1. client'[e] = 0 /\ dropped'[e] = dropped[e] + 1 /\ opened'[e] = opened[e]
      BY <1>1, <2>3 DEF Places, ChannelsOK
    <3>2. opened[e] <= K * dropped[e] + K
      <4>1. opened[e] \in Nat /\ K * dropped[e] \in Nat /\ K \in Nat
            /\ Cardinality(Dialing(e)) \in Nat
        BY Product, KIsNat, DialingIsFinite DEF Places, ChannelsOK
      <4>. QED
        BY <4>1 DEF DialsInv
    <3>3. K * (dropped[e] + 1) = K * dropped[e] + K
      BY Product DEF Places, ChannelsOK
    <3>. QED
      BY <3>1, <3>2, <3>3
  <2>. QED
    BY <2>2, <2>3
<1>3. NilInv'
  <2>1. ASSUME NEW r \in Requests, requests'[r].pc = "reread", dropped'[EndpointOf(r)'] = 0
        PROVE  client'[EndpointOf(r)'] # 0
    <3>1. EndpointOf(r)' = EndpointOf(r) /\ EndpointOf(r) \in Endpoints
      BY <1>1, <2>1 DEF EndpointOf, Places, RequestsOK, RequestOK
    <3>2. EndpointOf(r) # e0
      BY <1>1, <2>1, <3>1 DEF Places, ChannelsOK
    <3>. QED
      BY <1>1, <2>1, <3>1, <3>2 DEF NilInv, Places, ChannelsOK
  <2>. QED
    BY <1>1, <2>1 DEF NilInv, NilOnlyIfDropped
<1>. QED
  BY <1>2, <1>3

\* Where a request may go, but for one that dials.
LEMMA RequestGoes ==
  ASSUME Places, NEW r \in Requests, RequestStep(r), ~Dial(r)
  PROVE  /\ UNCHANGED channels
         /\ requests'[r].pc # "reread"
         /\ requests'[r].pc = "dial" =>
              client[EndpointOf(r)] = 0 /\ EndpointOf(r)' = EndpointOf(r)
<1>. USE DEF RequestPlaces, Answers
<1>1. UNCHANGED channels
  BY DEF RequestStep, GrpcRequest, GetRequest, ReadClient, Reread, ReadEntry, ReadIndex,
         ExtendURL, SendProxied
<1>2. CASE \E e \in Endpoints : GrpcRequest(r, e)
  <2>1. PICK e \in Endpoints :
          requests' = [requests EXCEPT ![r] =
                         [pc |-> "read", site |-> e[1], what |-> e[2], got |-> ""]]
    BY <1>2 DEF GrpcRequest
  <2>. DEFINE rec == [pc |-> "read", site |-> e[1], what |-> e[2], got |-> ""]
  <2>2. rec.pc = "read" /\ requests'[r] = rec
    BY <2>1 DEF Places, RequestsOK
  <2>. HIDE DEF rec
  <2>. QED
    BY <1>1, <2>2
<1>3. CASE \E n \in Instances, f \in StaticFiles : GetRequest(r, n, f)
  <2>1. PICK n \in Instances, f \in StaticFiles :
          requests' = [requests EXCEPT ![r] =
                         [pc |-> IF sites[n].site = "proxy" THEN "extend" ELSE "entry",
                          site |-> n, what |-> f, got |-> ""]]
    BY <1>3 DEF GetRequest
  <2>. DEFINE rec == [pc |-> IF sites[n].site = "proxy" THEN "extend" ELSE "entry",
                     site |-> n, what |-> f, got |-> ""]
  <2>2. rec.pc \in {"extend", "entry"} /\ requests'[r] = rec
    BY <2>1 DEF Places, RequestsOK
  <2>. HIDE DEF rec
  <2>. QED
    BY <1>1, <2>2
<1>4. CASE ReadClient(r)
  BY <1>1, <1>4, GoesOn, IsAnswered DEF ReadClient, Places
<1>5. CASE Reread(r)
  BY <1>1, <1>5, IsAnswered DEF Reread, Places
<1>6. CASE ReadEntry(r)
  BY <1>1, <1>6, GoesOn, IsAnswered DEF ReadEntry, Places
<1>7. CASE ReadIndex(r)
  BY <1>1, <1>7, IsAnswered DEF ReadIndex, Places
<1>8. CASE ExtendURL(r)
  BY <1>1, <1>8, GoesOn DEF ExtendURL, Places
<1>9. CASE SendProxied(r)
  BY <1>1, <1>9, IsAnswered DEF SendProxied, Places
<1>. QED
  BY <1>2, <1>3, <1>4, <1>5, <1>6, <1>7, <1>8, <1>9, Zenon DEF RequestStep

LEMMA PanicStep ==
  ASSUME Places, DialsInv, NilInv, NEW r \in Requests, ProxyPanics(r)
  PROVE  DialsInv' /\ NilInv'
<1>1. /\ requests[r].pc = "reread" /\ client[EndpointOf(r)] = 0
      /\ requests' = [q \in Requests |-> NoRequest] /\ UNCHANGED <<client, opened, dropped>>
  BY DEF ProxyPanics, channels
<1>2. \A e \in Endpoints : Dialing(e)' = {}
  BY <1>1, NoRequestIs DEF Dialing
<1>3. dropped[EndpointOf(r)] > 0 /\ EndpointOf(r) \in Endpoints
  BY <1>1 DEF NilInv, Places, RequestsOK, RequestOK, ChannelsOK
<1>4. NilInv'
  BY <1>1, <1>3, NoRequestIs DEF NilInv, NilOnlyIfDropped
<1>. QED
  BY <1>1, <1>2, <1>4, DialsKept

LEMMA ChannelsInit == WebInit => DialsInv /\ NilInv
<1>. SUFFICES ASSUME WebInit PROVE DialsInv /\ NilInv
  OBVIOUS
<1>1. \A e \in Endpoints : client[e] = 0 /\ opened[e] = 0 /\ dropped[e] = 0
  BY DEF WebInit
<1>2. \A r \in Requests : requests[r].pc = "idle"
  BY NoRequestIs DEF WebInit
<1>3. K * 0 = 0
  BY KIsNat
<1>. QED
  BY <1>1, <1>2, <1>3 DEF WebInit, DialsInv, NilInv, NilOnlyIfDropped

LEMMA ChannelsStep ==
  ASSUME Places, DialsInv, NilInv, [WebNext \/ ProcessNext]_webVars
  PROVE  DialsInv' /\ NilInv'
<1>1. ASSUME NEW r \in Requests, RequestStep(r)
      PROVE  DialsInv' /\ NilInv'
  <2>1. CASE Dial(r)
    BY <2>1, DialStep
  <2>2. CASE ~Dial(r)
    <3>1. /\ UNCHANGED <<server, client, opened, dropped>>
          /\ \A q \in Requests \ {r} : requests'[q] = requests[q]
          /\ requests'[r].pc # "reread"
          /\ requests'[r].pc = "dial" =>
               client[EndpointOf(r)] = 0 /\ EndpointOf(r)' = EndpointOf(r)
      BY <1>1, <2>2, RequestGoes, RequestMoves DEF channels
    <3>2. \A e \in Endpoints : client[e] # 0 => Dialing(e)' \subseteq Dialing(e)
      BY <3>1 DEF Dialing, EndpointOf
    <3>3. \A q \in Requests : requests'[q].pc = "reread" =>
             requests[q].pc = "reread" /\ EndpointOf(q)' = EndpointOf(q)
      BY <3>1 DEF EndpointOf
    <3>. QED
      BY <3>1, <3>2, <3>3, DialsKept, NilKept
  <2>. QED
    BY <2>1, <2>2
<1>2. ASSUME UNCHANGED <<client, opened, dropped, requests>>,
             server' = "panicked" => server = "panicked"
      PROVE  DialsInv' /\ NilInv'
  <2>1. \A e \in Endpoints : Dialing(e)' = Dialing(e)
    BY <1>2 DEF Dialing, EndpointOf
  <2>2. \A q \in Requests : EndpointOf(q)' = EndpointOf(q)
    BY <1>2 DEF EndpointOf
  <2>. QED
    BY <1>2, <2>1, <2>2, DialsKept, NilKept
<1>3. ASSUME NEW n \in Instances, SiteStep(n)
      PROVE  DialsInv' /\ NilInv'
  <2>1. UNCHANGED <<server, client, opened, dropped, requests>>
    BY <1>3 DEF SiteStep, ReloadBegins, LoadFile, ReloadEnds, Deploy, Remove, channels
  <2>. QED
    BY <1>2, <2>1
<1>4. CASE WebStarts
  BY <1>2, <1>4 DEF WebStarts, channels
<1>5. CASE WebEnds
  <2>1. \A e \in Endpoints : client'[e] = 0 /\ opened'[e] = 0 /\ dropped'[e] = 0
    BY <1>5 DEF WebEnds
  <2>2. (\A r \in Requests : requests'[r].pc = "idle") /\ server' = "down"
    BY <1>5, NoRequestIs DEF WebEnds
  <2>3. K * 0 = 0
    BY KIsNat
  <2>. QED
    BY <2>1, <2>2, <2>3 DEF DialsInv, NilInv, NilOnlyIfDropped
<1>6. CASE InvalidateEndpointConnections
  BY <1>2, <1>6 DEF InvalidateEndpointConnections
<1>7. CASE UNCHANGED webVars
  BY <1>2, <1>7 DEF webVars, channels
<1>8. CASE WebNext \/ ProcessNext
  BY <1>1, <1>3, <1>4, <1>5, <1>6, <1>8, StepsAre, DropStep, PanicStep, Zenon
<1>. QED
  BY <1>7, <1>8

LEMMA ChannelsAlways == WebSpec => [](DialsInv /\ NilInv)
<1>1. Places /\ (DialsInv /\ NilInv) /\ [WebNext \/ ProcessNext]_webVars => (DialsInv /\ NilInv)'
  BY ChannelsStep
<1>. QED
  BY <1>1, PlacesAlways, ChannelsInit, PTL DEF WebSpec

\* A burst of requests makes no more connections than there are requests at a
\* time, for each time the connection was dropped.
THEOREM DialsAreFew == WebSpec => []DialsBounded
BY PlacesAlways, ChannelsAlways, DialsAreBounded, PTL

\* The proxy gets nil only if a SIGHUP has dropped a connection.
THEOREM NilIsDropped == WebSpec => []NilOnlyIfDropped
<1>1. NilInv => NilOnlyIfDropped
  BY DEF NilInv
<1>. QED
  BY <1>1, ChannelsAlways, PTL

-----------------------------------------------------------------------------
(* Static files *)

\* The file f has still to be read.
Left(list, f) == \E i \in 1..Len(list) : list[i] = f

\* While a directory is left alone, what is not right in the copy is still to
\* be read, and what is to be read is there.
CopyInv ==
  \A n \in quiet \cap DOMAIN sites, f \in StaticFiles :
    /\ Left(reloads[n], f) => disk[n][f] # 0
    /\ ~Left(reloads[n], f) => cache[n][f] = disk[n][f]

\* A directory that has had all its files has them, in the copy or still to
\* be read; a request that was sent to the index, or answered from it, is for
\* another.
ServedInv ==
  /\ \A n \in DOMAIN sites \ shaky, f \in StaticFiles :
       /\ disk[n][f] # 0
       /\ cache[n][f] # 0 \/ Left(reloads[n], f)
  /\ \A r \in Requests :
       /\ requests[r].pc = "index" => requests[r].site \in shaky
       /\ requests[r].got \in {"index", "nothing"} => requests[r].site \in shaky

LEMMA LeftInNone == \A f : ~Left(<<>>, f)
BY DEF Left

LEMMA LeftAtEnd ==
  ASSUME NEW list, ListOK(list), list # <<>>, Head(list) = "*", NEW f \in StaticFiles
  PROVE  ~Left(list, f)
<1>1. Len(list) = 1 /\ list[1] = "*"
  BY AtItsEnd DEF ListOK
<1>. QED
  BY <1>1, WebServerAssumption DEF Left

LEMMA LeftInStar == \A f \in StaticFiles : ~Left(<<"*">>, f)
BY LeftAtEnd, OnlyStar

LEMMA LeftAfterHead ==
  ASSUME NEW list, ListOK(list), list # <<>>, Head(list) # "*", NEW f
  PROVE  Left(list, f) <=> f = Head(list) \/ Left(Tail(list), f)
<1>. DEFINE k == Len(list)
<1>1. /\ k \in Nat /\ k > 1 /\ Head(list) = list[1] /\ Len(Tail(list)) = k - 1
      /\ \A i \in 2..k : Tail(list)[i - 1] = list[i]
  BY Shortened DEF ListOK
<1>. HIDE DEF k
<1>2. ASSUME NEW i \in 1..k, list[i] = f
      PROVE  f = Head(list) \/ Left(Tail(list), f)
  <2>1. CASE i = 1
    BY <1>1, <1>2, <2>1
  <2>2. CASE i # 1
    <3>1. i - 1 \in 1..(k - 1) /\ Tail(list)[i - 1] = f
      BY <1>1, <1>2, <2>2
    <3>. QED
      BY <1>1, <3>1 DEF Left
  <2>. QED
    BY <2>1, <2>2
<1>3. ASSUME NEW i \in 1..(k - 1), Tail(list)[i] = f
      PROVE  Left(list, f)
  <2>1. i + 1 \in 2..k /\ i + 1 \in 1..k /\ (i + 1) - 1 = i
    BY <1>1
  <2>2. list[i + 1] = f
    BY <1>1, <1>3, <2>1
  <2>. QED
    BY <2>1, <2>2 DEF Left, k
<1>4. f = Head(list) => Left(list, f)
  <2>1. 1 \in 1..k
    BY <1>1
  <2>. QED
    BY <1>1, <2>1 DEF Left, k
<1>. QED
  BY <1>1, <1>2, <1>3, <1>4 DEF Left, k

\* A reload that begins has exactly the files that are there to read.
LEMMA LeftAtFirst ==
  ASSUME NEW n \in Instances, NEW f \in StaticFiles
  PROVE  Left(Append(Listing(n), "*"), f) <=> disk[n][f] # 0
<1>. DEFINE names == {g \in StaticFiles : disk[n][g] # 0}
            list == Listing(n)
<1>1. list \in Seq(names) /\ \A g \in names : \E i \in 1..Len(list) : list[i] = g
  BY ListingOfFiles, Zenon
<1>2. "*" # f
  BY WebServerAssumption
<1>3. f \in names <=> disk[n][f] # 0
  OBVIOUS
<1>. HIDE DEF names, list
<1>4. /\ Len(Append(list, "*")) = Len(list) + 1 /\ Len(list) \in Nat
      /\ \A i \in 1..Len(list) : Append(list, "*")[i] = list[i] /\ list[i] \in names
      /\ Append(list, "*")[Len(list) + 1] = "*"
  BY <1>1
<1>5. ASSUME f \in names PROVE Left(Append(list, "*"), f)
  <2>1. PICK i \in 1..Len(list) : list[i] = f
    BY <1>1, <1>5
  <2>2. i \in 1..Len(Append(list, "*")) /\ Append(list, "*")[i] = f
    BY <1>4, <2>1
  <2>. QED
    BY <2>2 DEF Left
<1>6. ASSUME Left(Append(list, "*"), f) PROVE f \in names
  <2>1. PICK i \in 1..Len(Append(list, "*")) : Append(list, "*")[i] = f
    BY <1>6 DEF Left
  <2>2. i \in 1..Len(list)
    BY <1>2, <1>4, <2>1
  <2>. QED
    BY <1>4, <2>1, <2>2
<1>. QED
  BY <1>3, <1>5, <1>6 DEF list

LEMMA CopyIsComplete == Places /\ CopyInv => ReloadIsComplete
<1>. SUFFICES ASSUME Places, CopyInv, NEW n \in DOMAIN sites, n \in quiet, ~Loading(n)
              PROVE  cache[n] = disk[n]
  BY DEF ReloadIsComplete
<1>1. \A f \in StaticFiles : cache[n][f] = disk[n][f]
  BY LeftInNone DEF CopyInv, Loading, NotLoading
<1>2. cache[n] \in [StaticFiles -> Nat] /\ disk[n] \in [StaticFiles -> Nat]
  BY DEF Places, ServerOK, DirectoriesOK
<1>. QED
  BY <1>1, <1>2

\* Requests do not touch directories, and answer what is left.
LEMMA StaticsOfRequest ==
  ASSUME Places, CopyInv, ServedInv, NEW r \in Requests, RequestStep(r)
  PROVE  CopyInv' /\ ServedInv'
<1>1. /\ UNCHANGED <<sites, disk, cache, reloads, quiet, shaky>>
      /\ \A q \in Requests \ {r} : requests'[q] = requests[q]
  BY RequestMoves DEF statics
<1>2. CopyInv'
  BY <1>1 DEF CopyInv
<1>. DEFINE Told == /\ requests'[r].pc = "index" => requests'[r].site \in shaky
                    /\ requests'[r].got \in {"index", "nothing"} => requests'[r].site \in shaky
<1>3. Told
  <2>. USE DEF RequestPlaces, Answers
  <2>1. CASE \E e \in Endpoints : GrpcRequest(r, e)
    <3>1. PICK e \in Endpoints :
            requests' = [requests EXCEPT ![r] =
                           [pc |-> "read", site |-> e[1], what |-> e[2], got |-> ""]]
      BY <2>1 DEF GrpcRequest
    <3>. DEFINE rec == [pc |-> "read", site |-> e[1], what |-> e[2], got |-> ""]
    <3>2. rec.pc = "read" /\ rec.got = "" /\ requests'[r] = rec
      BY <3>1 DEF Places, RequestsOK
    <3>. HIDE DEF rec
    <3>. QED
      BY <3>2
  <2>2. CASE \E n \in Instances, f \in StaticFiles : GetRequest(r, n, f)
    <3>1. PICK n \in Instances, f \in StaticFiles :
            requests' = [requests EXCEPT ![r] =
                           [pc |-> IF sites[n].site = "proxy" THEN "extend" ELSE "entry",
                            site |-> n, what |-> f, got |-> ""]]
      BY <2>2 DEF GetRequest
    <3>. DEFINE rec == [pc |-> IF sites[n].site = "proxy" THEN "extend" ELSE "entry",
                       site |-> n, what |-> f, got |-> ""]
    <3>2. rec.pc \in {"extend", "entry"} /\ rec.got = "" /\ requests'[r] = rec
      BY <3>1 DEF Places, RequestsOK
    <3>. HIDE DEF rec
    <3>. QED
      BY <3>2
  <2>3. CASE ReadClient(r)
    BY <2>3, GoesOn, IsAnswered DEF ReadClient, Places, ServedInv
  <2>4. CASE Dial(r)
    BY <2>4, GoesOn DEF Dial, Places, ServedInv
  <2>5. CASE Reread(r)
    BY <2>5, IsAnswered DEF Reread, Places
  <2>6. CASE ReadEntry(r)
    <3>. DEFINE n == requests[r].site
                f == requests[r].what
    <3>1. n \in DOMAIN sites /\ f \in StaticFiles /\ ~Left(reloads[n], f)
      BY <2>6, LeftInNone DEF ReadEntry, Loading, NotLoading, Places, RequestsOK, RequestOK
    <3>2. cache[n][f] = 0 => n \in shaky
      BY <3>1 DEF ServedInv
    <3>3. \/ cache[n][f] # 0 /\ Answer(r, "file")
          \/ cache[n][f] = 0 /\ RequestGoto(r, "index")
      BY <2>6 DEF ReadEntry
    <3>. HIDE DEF f
    <3>. QED
      BY <3>2, <3>3, GoesOn, IsAnswered DEF Places, ServedInv
  <2>7. CASE ReadIndex(r)
    BY <2>7, IsAnswered DEF ReadIndex, Places, ServedInv
  <2>8. CASE ExtendURL(r)
    BY <2>8, GoesOn DEF ExtendURL, Places, ServedInv
  <2>9. CASE SendProxied(r)
    BY <2>9, IsAnswered DEF SendProxied, Places
  <2>. HIDE DEF Told
  <2>. QED
    BY <2>1, <2>2, <2>3, <2>4, <2>5, <2>6, <2>7, <2>8, <2>9, Zenon DEF RequestStep
<1>. QED
  BY <1>1, <1>2, <1>3 DEF ServedInv

\* The copy of another directory, and the requests, are left alone.
LEMMA ElsewhereKept ==
  ASSUME Places, CopyInv, ServedInv, NEW n \in Instances, SiteStep(n)
  PROVE  /\ UNCHANGED <<sites, requests>> /\ shaky \subseteq shaky'
         /\ \A m \in Instances \ {n} :
              /\ reloads'[m] = reloads[m] /\ disk'[m] = disk[m] /\ cache'[m] = cache[m]
              /\ m \in quiet' <=> m \in quiet
              /\ m \in shaky' <=> m \in shaky
<1>. USE DEF Places, DirectoriesOK
<1>1. CASE ReloadBegins(n)
  BY <1>1 DEF ReloadBegins
<1>2. CASE LoadFile(n)
  BY <1>2 DEF LoadFile
<1>3. CASE ReloadEnds(n)
  BY <1>3 DEF ReloadEnds
<1>4. CASE \E f \in StaticFiles : Deploy(n, f)
  BY <1>4 DEF Deploy
<1>5. CASE \E f \in StaticFiles : Remove(n, f)
  BY <1>5 DEF Remove
<1>. QED
  BY <1>1, <1>2, <1>3, <1>4, <1>5, Zenon DEF SiteStep

\* What a step leaves in the directory it is about.
CopyOf(n) ==
  n \in quiet => \A f \in StaticFiles :
                   /\ Left(reloads[n], f) => disk[n][f] # 0
                   /\ ~Left(reloads[n], f) => cache[n][f] = disk[n][f]
ServedOf(n) ==
  n \notin shaky => \A f \in StaticFiles :
                      disk[n][f] # 0 /\ (cache[n][f] # 0 \/ Left(reloads[n], f))

LEMMA StaticsOfSite ==
  ASSUME Places, CopyInv, ServedInv, NEW n \in Instances, SiteStep(n)
  PROVE  CopyInv' /\ ServedInv'
<1>1. n \in DOMAIN sites => CopyOf(n) /\ ServedOf(n)
  BY DEF CopyInv, ServedInv, CopyOf, ServedOf
<1>2. ASSUME n \in DOMAIN sites PROVE CopyOf(n)' /\ ServedOf(n)'
  <2>. USE DEF Places, DirectoriesOK
  <2>1. CASE ReloadBegins(n)
    <3>1. /\ UNCHANGED <<disk, shaky>> /\ reloads'[n] = Append(Listing(n), "*")
          /\ \A f \in StaticFiles : cache'[n][f] = 0
      BY <2>1 DEF ReloadBegins, NoFiles
    <3>2. \A f \in StaticFiles : Left(reloads'[n], f) <=> disk[n][f] # 0
      BY <3>1, LeftAtFirst
    <3>. QED
      BY <1>1, <1>2, <3>1, <3>2 DEF CopyOf, ServedOf
  <2>2. CASE LoadFile(n)
    <3>. DEFINE list == reloads[n]
                g == Head(list)
    <3>1. ListOK(list) /\ list # <<>> /\ Head(list) # "*" /\ g \in StaticFiles
      BY <2>2, Shortened DEF LoadFile, Loading, NotLoading
    <3>2. /\ UNCHANGED <<disk, shaky, quiet>>
          /\ reloads'[n] = IF disk[n][g] = 0 THEN <<"*">> ELSE Tail(list)
          /\ cache'[n] = [cache[n] EXCEPT ![g] = disk[n][g]]
      BY <2>2 DEF LoadFile
    <3>3. /\ \A f \in StaticFiles : f # g => cache'[n][f] = cache[n][f]
          /\ cache'[n][g] = disk[n][g]
      BY <3>1, <3>2
    <3>4. \A f : Left(list, f) <=> f = g \/ Left(Tail(list), f)
      BY <3>1, LeftAfterHead
    <3>. HIDE DEF g
    <3>5. CASE disk[n][g] # 0
      BY <1>1, <1>2, <3>1, <3>2, <3>3, <3>4, <3>5 DEF CopyOf, ServedOf
    <3>6. CASE disk[n][g] = 0
      <4>1. Left(list, g)
        BY <3>4
      <4>2. n \notin quiet /\ n \in shaky
        BY <1>1, <1>2, <3>1, <3>6, <4>1 DEF CopyOf, ServedOf
      <4>. QED
        BY <3>2, <4>2 DEF CopyOf, ServedOf
    <3>. QED
      BY <3>5, <3>6
  <2>3. CASE ReloadEnds(n)
    <3>1. UNCHANGED <<disk, cache, quiet, shaky>> /\ reloads'[n] = <<>>
      BY <2>3 DEF ReloadEnds, NotLoading
    <3>2. \A f \in StaticFiles : ~Left(reloads[n], f) /\ ~Left(reloads'[n], f)
      BY <2>3, <3>1, LeftAtEnd, LeftInNone DEF ReloadEnds, Loading, NotLoading
    <3>. QED
      BY <1>1, <1>2, <3>1, <3>2 DEF CopyOf, ServedOf
  <2>4. CASE \E f \in StaticFiles : Deploy(n, f)
    <3>1. /\ UNCHANGED <<cache, reloads, shaky>> /\ n \notin quiet'
          /\ \A f \in StaticFiles : disk[n][f] # 0 => disk'[n][f] # 0
      BY <2>4 DEF Deploy
    <3>. QED
      BY <1>1, <1>2, <3>1 DEF CopyOf, ServedOf
  <2>5. CASE \E f \in StaticFiles : Remove(n, f)
    <3>1. n \notin quiet' /\ n \in shaky'
      BY <2>5 DEF Remove
    <3>. QED
      BY <3>1 DEF CopyOf, ServedOf
  <2>. HIDE DEF Places, DirectoriesOK
  <2>. QED
    BY <2>1, <2>2, <2>3, <2>4, <2>5, Zenon DEF SiteStep
<1>3. CopyInv'
  <2>. SUFFICES ASSUME NEW m \in (quiet \cap DOMAIN sites)'
                PROVE  \A f \in StaticFiles :
                         /\ Left(reloads'[m], f) => disk'[m][f] # 0
                         /\ ~Left(reloads'[m], f) => cache'[m][f] = disk'[m][f]
    BY DEF CopyInv
  <2>1. m \in DOMAIN sites /\ m \in Instances
    BY ElsewhereKept DEF Places, ServerOK
  <2>2. CASE m = n
    BY <1>2, <2>1, <2>2 DEF CopyOf
  <2>3. CASE m # n
    BY <2>1, <2>3, ElsewhereKept DEF CopyInv
  <2>. QED
    BY <2>2, <2>3
<1>4. ServedInv'
  <2>1. ASSUME NEW m \in (DOMAIN sites \ shaky)'
        PROVE  \A f \in StaticFiles :
                 disk'[m][f] # 0 /\ (cache'[m][f] # 0 \/ Left(reloads'[m], f))
    <3>1. m \in DOMAIN sites /\ m \in Instances
      BY <2>1, ElsewhereKept DEF Places, ServerOK
    <3>2. CASE m = n
      BY <1>2, <2>1, <3>1, <3>2 DEF ServedOf
    <3>3. CASE m # n
      BY <2>1, <3>1, <3>3, ElsewhereKept DEF ServedInv
    <3>. QED
      BY <3>2, <3>3
  <2>. QED
    BY <2>1, ElsewhereKept DEF ServedInv
<1>. QED
  BY <1>3, <1>4

LEMMA StaticsInit == WebInit => CopyInv /\ ServedInv
<1>. SUFFICES ASSUME WebInit PROVE CopyInv /\ ServedInv
  OBVIOUS
<1>1. DOMAIN sites = {}
  BY NoSites DEF WebInit
<1>2. \A r \in Requests : requests[r].pc = "idle" /\ requests[r].got = ""
  BY NoRequestIs DEF WebInit
<1>. QED
  BY <1>1, <1>2 DEF CopyInv, ServedInv

LEMMA StaticsStep ==
  ASSUME Places, CopyInv, ServedInv, [WebNext \/ ProcessNext]_webVars
  PROVE  CopyInv' /\ ServedInv'
<1>1. ASSUME UNCHANGED <<sites, disk, cache, reloads, quiet, shaky, requests>>
      PROVE  CopyInv' /\ ServedInv'
  BY <1>1 DEF CopyInv, ServedInv
<1>2. CASE \E e \in Endpoints : DropConnection(e)
  BY <1>1, <1>2 DEF DropConnection, statics
<1>3. CASE WebStarts
  <2>1. /\ \A r \in Requests : requests'[r] = NoRequest
        /\ \A n \in Instances : reloads'[n] = <<>> /\ cache'[n] = disk'[n]
        /\ shaky' = {n \in Instances : \E f \in StaticFiles : disk'[n][f] = 0}
        /\ DOMAIN sites' \subseteq Instances
    BY <1>3 DEF WebStarts, Places, AtRest, ConfiguredSites
  <2>. QED
    BY <2>1, NoRequestIs, LeftInNone DEF CopyInv, ServedInv
<1>4. CASE WebEnds
  <2>1. DOMAIN sites' = {} /\ \A r \in Requests : requests'[r] = NoRequest
    BY <1>4, NoSites DEF WebEnds
  <2>. QED
    BY <2>1, NoRequestIs DEF CopyInv, ServedInv
<1>5. CASE InvalidateEndpointConnections
  BY <1>1, <1>5 DEF InvalidateEndpointConnections, statics
<1>6. ASSUME NEW r \in Requests, ProxyPanics(r)
      PROVE  CopyInv' /\ ServedInv'
  <2>1. /\ UNCHANGED <<sites, disk, cache, reloads, quiet, shaky>>
        /\ \A q \in Requests : requests'[q] = NoRequest
    BY <1>6 DEF ProxyPanics, statics
  <2>. QED
    BY <2>1, NoRequestIs DEF CopyInv, ServedInv
<1>7. CASE UNCHANGED webVars
  BY <1>1, <1>7 DEF webVars, statics
<1>8. CASE WebNext \/ ProcessNext
  BY <1>2, <1>3, <1>4, <1>5, <1>6, <1>8, StepsAre, StaticsOfRequest, StaticsOfSite, Zenon
<1>. QED
  BY <1>7, <1>8

LEMMA StaticsAlways == WebSpec => [](CopyInv /\ ServedInv)
<1>1. Places /\ (CopyInv /\ ServedInv) /\ [WebNext \/ ProcessNext]_webVars
        => (CopyInv /\ ServedInv)'
  BY StaticsStep
<1>. QED
  BY <1>1, PlacesAlways, StaticsInit, PTL DEF WebSpec

\* A reload during which nobody writes leaves the copy as the directory is.
THEOREM ReloadsAreComplete == WebSpec => []ReloadIsComplete
BY PlacesAlways, StaticsAlways, CopyIsComplete, PTL

\* A directory that has had all its files is served, during reloads too.
THEOREM FilesAreServed == WebSpec => []FileServed
<1>1. ServedInv => FileServed
  BY DEF ServedInv, FileServed
<1>. QED
  BY <1>1, StaticsAlways, PTL
=============================================================================
