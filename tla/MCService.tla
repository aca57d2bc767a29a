----------------------------- MODULE MCService -----------------------------
(* Deployments: a hub of every type with resources that change and others  *)
(* that do not, and three in which the configuration file is edited: its   *)
(* times, the names and domains of its hubs, and the rest of it.           *)
EXTENDS Service, TLC

MCTokens == STRING
MCLower == [Hub |-> "hub"]
MCTTL == [t \in Types |-> IF t \in {"npm", "go", "composer"} THEN 1 ELSE 0]
MCLooks == {<<"p.tgz", ".tgz">>, <<"sha256:1", "sha256:">>, <<"v1.zip", ".zip">>,
            <<"p.zip", ".zip">>, <<"p.whl", ".whl">>, <<"contents-x.gz", "contents-">>,
            <<"p.apk", ".apk">>, <<"provider-x.json", "provider-">>}

Unset == [key \in DOMAIN Numbers |-> Absent]
File(hubs) == [global |-> Unset, level |-> "info", storage |-> "./storage", hubs |-> hubs]
Upstream == <<"https", "origin", <<>>>>
Domain == <<"hub">>
OneHub(type) == Hub(<<"h">>, Domain, type, Upstream)

Ask(method, host, path, query) ==
  [method |-> method, host |-> host, path |-> path, query |-> query, headers |-> "usual"]
Get(path) == Ask("GET", Domain, path, NoQuery)
GetQ(path, query) == Ask("GET", Domain, path, query)

(* One hub, never edited: some answers change, others do not.  Whatever is *)
(* stored has an old Last-Modified, so no TTL counts.                      *)
OneSite(hub, changing, fixed) ==
  [files |-> {File(<<hub>>)}, requests |-> changing \cup fixed,
   changing |-> {Url(hub, req) : req \in changing}, clock |-> FALSE]

Tags == <<"v2", "x", "tags", "list">>
DockerSite == OneSite(OneHub("docker"),
  {Get(Tags), GetQ(Tags, "n=1"), Get(<<"v2", "_catalog">>), Get(<<"v2">>),
   Get(<<"v2", "x", "manifests", "latest">>)},
  {Get(<<"v2", "x", "manifests", "sha256:1">>)})

(* Two names of one list, one of them asked for with other headers, and a  *)
(* list of the hub's own.                                                  *)
LibrarySite == OneSite([OneHub("docker") EXCEPT !.upstream[2] = "docker.io"],
  {Get(Tags), [Get(Tags) EXCEPT !.headers = "signed"], Get(<<"v2", "library", "x", "tags", "list">>),
   Get(<<"v2", "a", "x", "tags", "list">>), Get(<<"v2", "_catalog">>)}, {})

(* An entry, one that has the name of its metadata, one below that name,   *)
(* and the root entry.                                                     *)
GoSite == OneSite(OneHub("go"),
  {Get(<<"a">>), Get(<<"a.meta">>), Get(<<"a.meta", "c">>), Get(<<>>),
   Get(<<"root">>), Get(<<"m", "@v", "list">>)},
  {Get(<<"m", "@v", "v1.zip">>)})

DebianSite == OneSite(OneHub("debian"),
  {Get(<<"dists", "s", "inrelease">>), Get(<<"dists", "s", "contents-x.gz">>),
   GetQ(<<"dists", "s", "inrelease">>, "q"), Get(<<"pool">>)},
  {Get(<<"pool", "p.deb">>), Get(<<"dists", "s", "by-hash", "1">>)})

Apkindex == <<"v", "apkindex.tar.gz">>
ApkSite == OneSite([OneHub("apk") EXCEPT !.upstream[3] = <<"alpine">>],
  {Get(Apkindex), Get(<<"v", "readme">>), Ask("HEAD", Domain, Apkindex, NoQuery)},
  {Get(<<"v", "p.apk">>)})

Mirror == <<"dist", "https", "mirror", "x.zip">>
ComposerSite == OneSite(OneHub("composer"),
  {Get(<<"packages.json">>), GetQ(<<"packages.json">>, "q"),
   Get(<<"p2", "x.json">>), Get(<<"provider-x.json">>)},
  {Get(Mirror), GetQ(Mirror, "q"), Get(<<"dist", "x.zip">>), GetQ(<<"dist", "x.zip">>, "q")})

(* The index of a project under its short name, its path and as a file     *)
(* would be named, and the domain of the hub is edited.                    *)
PypiSite ==
  LET base == OneSite(OneHub("pypi"),
                {Get(<<"p">>), Get(<<"simple", "p">>), Get(<<"simple", "p.zip">>),
                 Ask("POST", Domain, <<"simple", "p">>, NoQuery)},
                {Get(<<"files", "https", "cdn", "p.whl">>), Get(<<"files", "p.whl">>)})
      Renamed(req) == [req EXCEPT !.host = <<"new">>]
  IN  [base EXCEPT !.files = @ \cup {File(<<[OneHub("pypi") EXCEPT !.domain = <<"new">>]>>)},
                   !.requests = @ \cup {Renamed(Get(<<"p">>)), Renamed(Get(<<"simple", "p">>))}]

(* Package documents, versions, scopes and tarballs.                       *)
NpmSite == OneSite(OneHub("npm"),
  {Get(<<"p">>), GetQ(<<"p">>, "write"), Get(<<"@s", "p">>),
   Get(<<"-", "package", "p", "dist-tags">>)},
  {Get(<<"p", "1.0.0">>), Get(<<"p", "-", "p.tgz">>)})

(* The TTL and the validation mode are edited while entries age.           *)
ClockSite ==
  LET base == OneSite(OneHub("npm"), {Get(<<"p">>), Ask("HEAD", Domain, <<"p">>, NoQuery)},
                      {Get(<<"p", "-", "p.tgz">>)})
      Times(hub) == {[hub EXCEPT !.ttl = ttl, !.mode = mode] :
                       ttl \in {-1, 0, 2}, mode \in {None, "never"}}
  IN  [base EXCEPT !.clock = TRUE, !.files =
         {File(<<hub>>) : hub \in Times(OneHub("npm"))} \cup
         {[File(<<OneHub("npm")>>) EXCEPT !.global.ttl = 1]}]

(* Two hubs of other names, domains, types and upstreams each time, one    *)
(* name below the other: what a request finds may be anyone's.             *)
NamesSite ==
  LET one == Hub(<<"a">>, <<"hub">>, "go", Upstream)
      below == Hub(<<"a", "b">>, <<"new">>, "go", Upstream)
      other == Hub(<<"c">>, <<"new">>, "apk", Upstream)
      Swapped(i, j) == <<[i EXCEPT !.domain = j.domain], [j EXCEPT !.domain = i.domain]>>
      path == <<"b", "apkindex.tar.gz">>
  IN  [files |-> {File(<<one, below>>), File(<<one, other>>),
                  File(Swapped(one, [other EXCEPT !.upstream = <<"http", "mirror", <<>>>>]))},
       requests |-> {Ask("GET", host, p, NoQuery) :
                       host \in {<<"hub">>, <<"new">>}, p \in {path, Tail(path)}},
       changing |-> {Url(one, Get(path))}, clock |-> FALSE]

(* The spellings of a host, and files that are refused.  Requests to the   *)
(* hub of this site are passed on.                                         *)
Spelt == {<<"hub">>, <<"Hub">>, <<"hub", ".">>, <<"hub", ":", "5000">>,
          <<"Hub", ".", ":", "5000">>, <<"hub", ":">>, <<"hub", ":", "x">>,
          <<".">>, <<":", "5000">>, <<"sub", ".", "hub">>, <<"other">>,
          <<"[", "fe80", ":", ":", "1", "]">>, <<"[", "fe80", ":", ":", "1", "]", ":", "5000">>,
          <<"fe80", ":", ":", "1">>, <<"fe80", ":", ":", "2">>}
Usual == File(<<OneHub("apk")>>)
ConfigSite ==
  LET At(domain) == [OneHub("apk") EXCEPT !.domain = domain]
      Two(domain) == File(<<OneHub("apk"), [At(domain) EXCEPT !.name = <<"i">>]>>)
  IN  [files |->
         {File(<<At(domain)>>) : domain \in Spelt \cup {<<>>, <<"http-hub">>}}
         \cup {Two(domain) : domain \in Spelt}
         \cup {File(<<>>), File(<<OneHub("apk"), At(<<"other">>)>>),
               File(<<[OneHub("apk") EXCEPT !.type = "maven"]>>),
               File(<<[OneHub("apk") EXCEPT !.name = <<>>]>>),
               File(<<[OneHub("apk") EXCEPT !.mode = "always"]>>),
               File(<<[OneHub("apk") EXCEPT !.user = "me"]>>),
               File(<<[OneHub("apk") EXCEPT !.user = "me", !.password = "x"]>>),
               File(<<[OneHub("apk") EXCEPT !.proxy = <<"socks5", "p", <<>>>>]>>),
               File(<<[OneHub("apk") EXCEPT !.upstream = <<"https", None, <<>>>>]>>),
               [Usual EXCEPT !.level = "loud"], [Usual EXCEPT !.storage = None],
               [Usual EXCEPT !.global.port = 65536]}
         \cup {[Usual EXCEPT !.global[key] = value] :
                 key \in DOMAIN Numbers, value \in {-1, 0}},
       requests |-> {Ask("GET", host, <<"x">>, NoQuery) : host \in Spelt},
       changing |-> {}, clock |-> FALSE]

(* Paths that no resource has, whose locators are those of others.         *)
OddSite ==
  LET hubs == <<OneHub("npm"), Hub(<<"i">>, <<"new">>, "go", Upstream)>>
      paths == {<<"a", "__qs", "q">>, <<"a", "-">>, <<"a", "-", "package.json">>}
  IN  [files |-> {File(hubs)}, clock |-> FALSE, changing |-> {},
       requests |-> {GetQ(<<"a">>, "q"), Ask("GET", <<"new">>, <<"a">>, "q"),
                     Ask("GET", <<"new">>, <<"a", "__qs", "q">>, NoQuery)}
                    \cup {Get(path) : path \in paths}]

MCSites == {OddSite, DockerSite, LibrarySite, GoSite, DebianSite, ApkSite, ComposerSite, PypiSite,
            NpmSite, ClockSite, NamesSite, ConfigSite}

(* What the theorems Unasked, Coexistence and Storing ask of a deployment  *)
(* is true of these.                                                       *)
ASSUME Fitting == \A s \in MCSites : PoliciesFit(s)
ASSUME Tidy == \A s \in MCSites \ {GoSite, NamesSite, OddSite} : NpmTidy(s)
ASSUME Level == \A s \in {LibrarySite, ApkSite, PypiSite, NamesSite, ConfigSite} : Flat(s)

(* The list and its page only; an index; files of two hubs; a package      *)
(* document that is put.                                                   *)
MCTags == {[DockerSite EXCEPT !.requests = {Get(Tags), GetQ(Tags, "n=1")}]}
MCApk == {ApkSite}
MCTwo == {[ConfigSite EXCEPT !.files = {f \in @ : Len(f.hubs) = 2}]}
MCPut == {[NpmSite EXCEPT !.requests = {Get(<<"p">>), Ask("PUT", Domain, <<"p">>, NoQuery)}]}
=============================================================================
