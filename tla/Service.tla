------------------------------ MODULE Service ------------------------------
(***************************************************************************)
(* The process: it is checked or started with a configuration file, builds *)
(* its routes, opens the storage directory, serves requests to its hubs,   *)
(* and is stopped; the file is edited in the meantime, and the storage     *)
(* directory stays.  Requests come one after the other: FileStore and      *)
(* ProxyHandler have the interleavings.                                    *)
(***************************************************************************)
EXTENDS StoreLayout

CONSTANTS Sites,   \* deployments: the files one goes through, the requests
                   \* it gets, the URLs whose answers change
          MaxAge,  \* bound on the age of entries
          Nil

ASSUME ServiceType == /\ MaxAge \in Nat
                      /\ Added \subseteq Tokens
                      /\ \A s \in Sites : /\ s.files \subseteq FileConfig
                                          /\ s.requests \subseteq Request
ASSUME NilFresh == \A s \in Sites : \A f \in s.files : Nil # Loaded(f)

VARIABLES site,    \* the deployment, chosen at the start
          file,    \* its configuration file
          loaded,  \* the configuration of the running process, or Nil
          routes,  \* its HubRegistry
          disk,    \* the storage directory
          last     \* the last event and what came of it

vars == <<site, file, loaded, routes, disk, last>>

Happened(what) == last' = [outcome |-> what]

TypeOK == /\ site \in Sites
          /\ file \in site.files
          /\ loaded = Nil \/ \E f \in site.files : loaded = Loaded(f)
          /\ routes = <<>> <=> loaded = Nil
          /\ \A h \in DOMAIN routes : NormalHost(routes[h].hub.domain) = h
          /\ \A f \in DOMAIN disk.files :
               /\ disk.files[f].age \in 0..MaxAge
               /\ disk.files[f].current \in BOOLEAN
               /\ f \notin disk.dirs
               /\ Parents(f) \subseteq disk.dirs
          /\ \A d \in disk.dirs : Parents(d) \subseteq disk.dirs

Init == /\ site \in Sites
        /\ file \in site.files
        /\ loaded = Nil
        /\ routes = <<>>
        /\ disk = [files |-> <<>>, dirs |-> {}]
        /\ last = [outcome |-> "none"]

-----------------------------------------------------------------------------
(* The configuration file is edited.                                       *)
Edit == /\ \E f \in site.files \ {file} : file' = f
        /\ Happened("edited")
        /\ UNCHANGED <<site, loaded, routes, disk>>

(* logrus.ParseLevel, in InitLogger; a log file that cannot be opened is   *)
(* none of its errors.                                                     *)
Levels == {"panic", "fatal", "error", "warn", "warning", "info", "debug", "trace"}
Logs(conf) == conf.level \in Levels

(* Mutant: --check-config answers before the logger is made.               *)
AcceptsUnlogged(conf) == Valid(conf)

(* run, up to the point where --check-config ends it.                      *)
Accepts(conf) == Valid(conf) /\ Logs(conf)

(* any-hub --check-config.                                                 *)
Check == /\ Happened(IF Accepts(Loaded(file)) THEN "accepted" ELSE "rejected")
         /\ UNCHANGED <<site, file, loaded, routes, disk>>

(* run: the file is loaded, the logger made, the routes built, the storage *)
(* directory made, the port opened.  The last two may fail.                *)
Starts(conf) == Valid(conf) /\ Logs(conf) /\ Registers(conf)

OpenStorage == disk' = [disk EXCEPT !.dirs = @ \cup {<<>>}]

Start == /\ loaded = Nil
         /\ Starts(Loaded(file))
         /\ OpenStorage
         /\ loaded' = Loaded(file)
         /\ routes' = Registry(Loaded(file))
         /\ Happened("started")
         /\ UNCHANGED <<site, file>>

(* Exit 1, because of the configuration or of the environment.             *)
StartRefused == /\ loaded = Nil
                /\ ~Starts(Loaded(file))
                /\ Happened("refused")
                /\ UNCHANGED <<site, file, loaded, routes, disk>>

StartFails == /\ loaded = Nil
              /\ Starts(Loaded(file))
              /\ \/ UNCHANGED disk  \* NewStore
                 \/ OpenStorage     \* Listen
              /\ Happened("aborted")
              /\ UNCHANGED <<site, file, loaded, routes>>

Stop == /\ loaded # Nil
        /\ loaded' = Nil
        /\ routes' = <<>>
        /\ Happened("stopped")
        /\ UNCHANGED <<site, file, disk>>

-----------------------------------------------------------------------------
(* The upstream changes the answer to a URL.                               *)
Change(url) ==
  /\ url \in site.changing
  /\ disk' = [disk EXCEPT !.files =
                [f \in DOMAIN @ |-> IF @[f].answer.url = url
                                    THEN [@[f] EXCEPT !.current = FALSE] ELSE @[f]]]
  /\ Happened("changed")
  /\ UNCHANGED <<site, file, loaded, routes>>

Older(entry) == IF entry.age < MaxAge THEN [entry EXCEPT !.age = @ + 1] ELSE entry

(* Time passes, where it matters.                                          *)
Tick == /\ site.clock
        /\ disk' = [disk EXCEPT !.files = [f \in DOMAIN @ |-> Older(@[f])]]
        /\ Happened("ticked")
        /\ UNCHANGED <<site, file, loaded, routes>>

-----------------------------------------------------------------------------
(* isDiagnosticsPath: what is below "/-/" is not for the hubs.             *)
Diagnostic(req) == Len(req.path) > 1 /\ req.path[1] = "-"

(* Lookup.                                                                 *)
Mapped(req) == NormalHost(req.host) \in DOMAIN routes
Route(req) == routes[NormalHost(req.host)]

(* RegisterModuleRoutes: the diagnostics only read the registries.         *)
Diagnose(req) == /\ Diagnostic(req)
                 /\ last' = [outcome |-> "diagnosed", req |-> req]

(* requestContextMiddleware: 404 host_unmapped.                            *)
Unmapped(req) == /\ ~Diagnostic(req) /\ ~Mapped(req)
                 /\ last' = [outcome |-> "unmapped", req |-> req]

(* The policy of the module for a request to route r.                      *)
Says(r, req) == Policy(r.hub.type, Locator(r.hub, req), req.method)

(* Mutant: an entry that is as old as the TTL is still young.              *)
YoungAtTTL(r, f) == Entry(disk, f) /\ disk.files[f].age <= r.ttl

(* ShouldBypassValidation: there is an entry, and it is younger than the   *)
(* TTL.                                                                    *)
Young(r, f) == Entry(disk, f) /\ disk.files[f].age < r.ttl

Outcome(what, r, req) == last' = [outcome |-> what, req |-> req, route |-> r]

(* Handle serves the entry: unasked, because the policy or the TTL says    *)
(* so, or after isCacheFresh accepted it.                                  *)
Hit(r, req, f) ==
  LET asked == Says(r, req) = "check" /\ ~Young(r, f) IN
  /\ Says(r, req) # "pass"
  /\ Finds(disk, f)
  /\ asked => r.validates
  /\ last' = [outcome |-> "hit", req |-> req, route |-> r, entry |-> disk.files[f],
              asked |-> asked]
  /\ UNCHANGED disk

(* fetchAndStream, on a disk d: the answer is passed on, because of the    *)
(* policy, the method or its status, or it is stored; its Last-Modified    *)
(* may be old, and is where time does not count.  If Put fails, or the     *)
(* body breaks off in it, the client gets 502 cache_write_failed.          *)
Fetch(d, r, req, f) ==
  \/ /\ disk' = d
     /\ Outcome("passed", r, req)
  \/ /\ Says(r, req) # "pass" /\ req.method = "GET"
     /\ \E age \in IF site.clock THEN {0, MaxAge} ELSE {MaxAge} :
          disk' = PutEntry(d, f, [answer |-> Answer(r.hub, req), hub |-> r.hub,
                                  current |-> TRUE, age |-> age])
     /\ Outcome(IF PutFails(d, f) THEN "failed" ELSE "stored", r, req)
  \/ /\ Says(r, req) # "pass" /\ req.method = "GET"
     /\ ~Blocked(d, f)
     /\ disk' = BrokenPut(d, f)
     /\ Outcome("broken", r, req)

(* Get finds nothing or fails, or the entry is not fresh, or the policy    *)
(* does not ask for it.                                                    *)
Miss(r, req, f) == /\ \/ Says(r, req) = "pass"
                      \/ Misses(disk, f)
                      \/ Says(r, req) = "check" /\ ~Young(r, f)
                   /\ Fetch(disk, r, req, f)

(* isCacheFresh is told 404, and removes the entry; the request goes on.   *)
Drop(r, req, f) == /\ Says(r, req) = "check" /\ r.validates
                   /\ Finds(disk, f) /\ ~Young(r, f)
                   /\ Fetch(RemoveEntry(disk, f), r, req, f)

(* Forwarder.Handle and Handler.Handle; all modules have this handler.     *)
Handle(r, req) == LET f == EntryPath(r.hub, req)
                  IN  Hit(r, req, f) \/ Miss(r, req, f) \/ Drop(r, req, f)

Serve(req) ==
  /\ loaded # Nil
  /\ \/ (Diagnose(req) \/ Unmapped(req)) /\ UNCHANGED disk
     \/ ~Diagnostic(req) /\ Mapped(req) /\ Handle(Route(req), req)
  /\ UNCHANGED <<site, file, loaded, routes>>

Next == \/ Edit \/ Check \/ Start \/ StartRefused \/ StartFails \/ Stop \/ Tick
        \/ \E url \in site.changing : Change(url)
        \/ \E req \in site.requests : Serve(req)

Spec == Init /\ [][Next]_vars

-----------------------------------------------------------------------------
Served == last.outcome \in {"hit", "passed", "stored", "failed", "broken"}

(* URLs that no resource has, whose locators are those of others: a path   *)
(* with a segment "__qs", and one that ends in "-" at npm.                 *)
Odd(hub, url) == \/ "__qs" \in ToSet(url.origin) \cup ToSet(url.path)
                 \/ hub.type = "npm" /\ url.path # <<>> /\ Last(url.path) = "-"

(* The answers that share an entry although they differ: those to other    *)
(* methods and headers, which no locator has, those of "/" and "/root",    *)
(* those of a pypi index asked for by the short name of the       *)
(* project and by its path, whose links lead to the upstream or to the     *)
(* hub, those of composer archives whose URLs differ in the query, and     *)
(* those of odd URLs.                                                      *)
Share(hub, a, b) ==
  \/ a.url = b.url /\ a.links = b.links
  \/ Odd(hub, a.url) \/ Odd(hub, b.url)
  \/ /\ {a.url.path, b.url.path} = {<<>>, <<"root">>}
     /\ a.url.query = NoQuery /\ b.url.query = NoQuery
  \/ hub.type = "pypi" /\ a.url = b.url
  \/ hub.type = "composer" /\ a.links = Raw
                           /\ [a.url EXCEPT !.query = b.url.query] = b.url

(* Who is served from the cache is served an answer of the URL he asks     *)
(* for, with the links of his hub, if the entry was stored for this hub as *)
(* it is configured now; Share lists what is mixed up, and a GET with      *)
(* other headers may have been answered (buildLocator, entryPath).         *)
OwnResource ==
  (last.outcome = "hit" /\ last.entry.hub = last.route.hub) =>
    Share(last.route.hub, last.entry.answer, Answer(last.route.hub, last.req))

(* No hub serves what another one stored, whatever hosts, names, upstreams *)
(* and types are changed between two runs of the process, unless the names *)
(* of the two put the directory of one into that of the other (entryPath). *)
HubsApart ==
  last.outcome = "hit" =>
    LET stored == last.entry.hub.name
        asked == last.route.hub.name
    IN  stored = asked \/ IsStrictPrefix(stored, asked) \/ IsStrictPrefix(asked, stored)

(* The hubs a deployment may have, and what the policies take for granted  *)
(* of it: where an entry is served unasked no answer changes that a hub    *)
(* stores there.                                                           *)
HubsOf(s) == UNION {ToSet(Loaded(f).hubs) : f \in {g \in s.files : Valid(Loaded(g))}}
PoliciesFit(s) ==
  \A hub \in HubsOf(s), req \in s.requests : Url(hub, req) \in s.changing =>
    \A other \in HubsOf(s), asked \in s.requests :
      EntryPath(other, asked) = EntryPath(hub, req)
        => Policy(other.type, Locator(other, asked), asked.method) # "serve"

(* What is served without asking the upstream has not changed there, or is *)
(* younger than the TTL of the hub, or, if the hub has none, than that of  *)
(* its module or the global one, all of the configuration that runs: the   *)
(* policies take no path for immutable that is not, and no TTL of an       *)
(* earlier configuration counts (the cachePolicy hooks, ResolveStrategy).  *)
(* Which of the last two should count is left open.                        *)
UnaskedCurrent ==
  (last.outcome = "hit" /\ ~last.asked) =>
    LET hub == last.route.hub IN
    \/ last.entry.current
    \/ last.entry.age < hub.ttl
    \/ hub.ttl = 0 /\ last.entry.age < ModuleTTL[hub.type]
    \/ hub.ttl = 0 /\ last.entry.age < loaded.global.ttl

(* In an npm hub package documents, documents of versions, scoped packages *)
(* and tarballs live side by side, in whatever order they come: a request  *)
(* fails only if the same path was cached before with a query when it has  *)
(* none, or without one when it has (rewriteNPMLocator).                   *)
NpmCoexist ==
  (last.outcome = "failed" /\ last.route.hub.type = "npm") =>
    \E other \in site.requests :
      /\ other.path = last.req.path
      /\ (other.query = NoQuery) # (last.req.query = NoQuery)
      /\ Parents(EntryPath(last.route.hub, other)) \subseteq disk.dirs

(* No entry of a deployment is below the metadata of another, or below     *)
(* another.                                                                *)
NoneBelowMetadata(s) ==
  \A hub, other \in HubsOf(s), req, asked \in s.requests :
    MetaPath(EntryPath(hub, req)) \notin Parents(EntryPath(other, asked))
Flat(s) ==
  /\ NoneBelowMetadata(s)
  /\ \A hub, other \in HubsOf(s), req, asked \in s.requests :
       EntryPath(hub, req) \notin Parents(EntryPath(other, asked))

(* What NpmCoexist takes for granted of a deployment: no hub shares the    *)
(* directory of another or lies in it, no path has the segments that the   *)
(* code adds, and nothing is below a tarball or the metadata of an entry.  *)
NpmTidy(s) ==
  /\ \A hub, other \in HubsOf(s) : ~IsStrictPrefix(hub.name, other.name)
  /\ \A hub, other \in HubsOf(s) : hub.name = other.name => hub.type = other.type
  /\ \A req \in s.requests : ToSet(req.path) \cap {"__qs", "package.json"} = {}
  /\ \A req, asked \in s.requests : Below(req.path, "-") => ~IsStrictPrefix(req.path, asked.path)
  /\ NoneBelowMetadata(s)

(* The request for the entry at g, or its answer, takes that at f away.    *)
LostTo(f, g) == /\ last'.outcome \in {"stored", "passed", "failed", "broken"}
                /\ f = MetaPath(g) \/ (f = g /\ last'.outcome # "stored")
LossesMeant == \A f \in DOMAIN disk.files \ DOMAIN disk'.files :
                 LostTo(f, EntryPath(last'.route.hub, last'.req))

(* An entry disappears while a request to it is handled, or because its    *)
(* name is that of the metadata of the entry of that request; no other     *)
(* entry is lost, however the names nest and whatever becomes of the       *)
(* process and its configuration (fileStore.Put, fileStore.Remove).        *)
EntryKept == [][LossesMeant]_vars

(* What a Domain or a Host header should be: a name or an address, and one *)
(* colon before a port, if any; an address in brackets may have colons.    *)
IsName(s) == /\ Places(s, "[") = {} /\ Places(s, "]") = {}
             /\ \A i, j \in Places(s, ":") : i = j
IsAddress(s) ==
  /\ Places(s, "[") = {1}
  /\ \E close \in 2..Len(s) :
       /\ Places(s, "]") = {close}
       /\ s[close - 1] # "."
       /\ close = Len(s) \/ (s[close + 1] = ":" /\ LastPlace(s, ":") = close + 1)
WellFormed(s) == IsName(s) \/ IsAddress(s)

(* The host it names: the address, or the name, whose case and whose final *)
(* dot do not count.                                                       *)
Named(s) ==
  LowerCase(IF IsAddress(s) THEN SubSeq(s, 2, LastPlace(s, "]") - 1)
            ELSE WithoutDot(IF Places(s, ":") = {} THEN s
                            ELSE SubSeq(s, 1, LastPlace(s, ":") - 1)))

SameHost(s, t) == WellFormed(s) /\ WellFormed(t) /\ Named(s) = Named(t)
BareAddress(s) == IsAddress(s) /\ Last(s) = "]"

(* A request is served for the hub whose Domain names the host it asks     *)
(* for, and answered 404 only if there is none: the code compares what the *)
(* two name, so that case, a port and a final dot make no difference       *)
(* (normalizeHost).  An address in brackets must have a port in both or in *)
(* neither; an address without brackets is no host.                        *)
RoutedRight ==
  /\ Served /\ WellFormed(last.req.host) /\ WellFormed(last.route.hub.domain)
       => SameHost(last.req.host, last.route.hub.domain)
  /\ last.outcome = "unmapped" =>
       \A hub \in ToSet(loaded.hubs) :
         \/ ~SameHost(hub.domain, last.req.host)
         \/ BareAddress(hub.domain) # BareAddress(last.req.host)

(* A file that --check-config rejects does not start, and one it accepts   *)
(* is refused at the start for one reason only: two hubs have the same     *)
(* host, or one has a Domain that is no host or names none (run, Validate, *)
(* NewHubRegistry).                                                        *)
Unroutable(hubs) ==
  \E i, j \in DOMAIN hubs :
    \/ ~WellFormed(hubs[i].domain) \/ Named(hubs[i].domain) = <<>>
    \/ i # j /\ SameHost(hubs[i].domain, hubs[j].domain)
CheckedStarts ==
  [][/\ (last.outcome = "accepted" /\ last'.outcome = "refused") => Unroutable(file.hubs)
     /\ last.outcome = "rejected" => last'.outcome \notin {"started", "aborted"}]_vars

(* A file that the start refuses is one that --check-config rejects: every *)
(* illegal file is (specs/001 SC-001).  The code breaks this: the check    *)
(* ends before the routes are built (Validate, NewHubRegistry).            *)
AcceptedStarts == last.outcome = "refused" => ~Accepts(Loaded(file))

(* What is below the Upstream of a hub is what its clients get below its   *)
(* host (specs/007 quickstart).  The code breaks this: an absolute path    *)
(* replaces that of the Upstream (resolveUpstreamURL).                     *)
BelowBase ==
  Served /\ last.outcome # "hit" =>
    LET hub == last.route.hub
        path == Normal(hub, last.req.path)
    IN  NamesOrigin(hub, path) \/ Url(hub, last.req).path = hub.upstream[3] \o path

(* The method of a request reaches the upstream (specs/002 FR-002): only   *)
(* reads are answered from the cache.  The code breaks this: the policies  *)
(* of the modules take every method (determineCachePolicyWithHook).        *)
Forwarded == last.outcome = "hit" => last.req.method \in Reads

(* A path that has a body and the paths below it can be cached together    *)
(* (cache/doc.go: the body goes to a file __content).  The code breaks     *)
(* this: Blocked.                                                          *)
EntriesCoexist == last.outcome # "failed"
=============================================================================
