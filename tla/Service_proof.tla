--------------------------- MODULE Service_proof ---------------------------
(***************************************************************************)
(* The process in every deployment: requests reach their hub and nothing   *)
(* but its own answers to them, entries are lost only to requests for      *)
(* them, and files that are accepted start.                                *)
(***************************************************************************)
EXTENDS Service, SequenceTheorems, FiniteSetTheorems, TLAPS

(* Two beginnings of one sequence are comparable.                          *)
LEMMA Beginnings ==
  ASSUME NEW s \in Names, NEW t \in Names, NEW u \in Names, NEW v \in Names,
         s \o u = t \o v
  PROVE  s = t \/ IsStrictPrefix(s, t) \/ IsStrictPrefix(t, s)
<1>1. ASSUME NEW i \in 1..Len(s), i <= Len(t) PROVE s[i] = t[i]
  <2>1. (s \o u)[i] = s[i] /\ (t \o v)[i] = t[i]
    BY <1>1 DEF Names
  <2> QED
    BY <2>1
<1>2. ASSUME NEW a \in Names, NEW b \in Names, Len(a) <= Len(b),
             \A i \in 1..Len(a) : a[i] = b[i]
      PROVE  IsPrefix(a, b)
  <2>1. Len(a) \in Nat /\ a = [i \in 1..Len(a) |-> a[i]]
    BY DEF Names
  <2>2. SubSeq(a, 1, Len(a)) = [i \in 1..Len(a) |-> a[i]]
    BY <2>1 DEF Names
  <2>3. SubSeq(b, 1, Len(a)) = [i \in 1..Len(a) |-> b[i]]
    BY <1>2, <2>1 DEF Names
  <2> QED
    BY <1>2, <2>2, <2>3 DEF IsPrefix
<1>3. Len(s) <= Len(t) => IsPrefix(s, t)
  BY <1>1, <1>2 DEF Names
<1>4. Len(t) <= Len(s) => IsPrefix(t, s)
  <2>1. ASSUME Len(t) <= Len(s), NEW i \in 1..Len(t) PROVE t[i] = s[i]
    BY <1>1, <2>1 DEF Names
  <2> QED
    BY <1>2, <2>1
<1> QED
  BY <1>3, <1>4 DEF IsStrictPrefix, Names

(* A set of natural numbers has a least one, and the places of a token in  *)
(* a sequence have a last one.                                             *)
LEMMA Least ==
  ASSUME NEW K, K \subseteq Nat, K # {}
  PROVE  Min(K) \in K /\ \A k \in K : Min(K) <= k
<1> DEFINE Upto == {1..k : k \in K}
<1>1. Upto \subseteq FiniteSubsetsOf(Nat)
  <2>1. ASSUME NEW k \in K PROVE 1..k \in FiniteSubsetsOf(Nat)
    <3>1. k \in Nat /\ 1..k \subseteq Nat
      OBVIOUS
    <3>2. IsFiniteSet(1..k)
      BY <3>1, FS_Interval
    <3> QED
      BY <3>1, <3>2 DEF FiniteSubsetsOf
  <2> QED
    BY <2>1
<1>2. Upto # {}
  OBVIOUS
<1>3. \E x \in Upto : \A y \in Upto : ~(<<y, x>> \in StrictSubsetOrdering(Nat))
  <2>1. IsWellFoundedOn(StrictSubsetOrdering(Nat), FiniteSubsetsOf(Nat))
    BY FS_StrictSubsetOrderingWellFounded
  <2> HIDE DEF Upto
  <2> QED
    BY <1>1, <1>2, <2>1, WFMin
<1>4. PICK m \in K : \A k \in K : <<1..k, 1..m>> \notin StrictSubsetOrdering(Nat)
  BY <1>3
<1>5. ASSUME NEW k \in K PROVE m <= k
  <2>1. SUFFICES ASSUME k < m PROVE FALSE
    OBVIOUS
  <2>2. 1..k \subseteq 1..m /\ m \in 1..m /\ m \notin 1..k
    BY <2>1
  <2>3. 1..k \in SUBSET Nat /\ 1..m \in SUBSET Nat
    OBVIOUS
  <2> HIDE <2>1
  <2>4. <<1..k, 1..m>> \in StrictSubsetOrdering(Nat)
    BY <2>2, <2>3 DEF StrictSubsetOrdering
  <2> QED
    BY <1>4, <2>4
<1> QED
  BY <1>5 DEF Min

LEMMA LastOne ==
  ASSUME NEW s \in Names, NEW t, Places(s, t) # {}
  PROVE  /\ LastPlace(s, t) \in Places(s, t)
         /\ \A j \in Places(s, t) : j <= LastPlace(s, t)
<1> DEFINE K == {Len(s) - i : i \in Places(s, t)}
<1>1. \A i \in Places(s, t) : i \in 1..Len(s)
  BY DEF Places, Names
<1>2. K \subseteq Nat /\ K # {}
  BY <1>1
<1>3. PICK i \in Places(s, t) : \A j \in Places(s, t) : Len(s) - i <= Len(s) - j
  <2> HIDE DEF K
  <2>1. Min(K) \in K /\ \A k \in K : Min(K) <= k
    BY <1>2, Least
  <2> QED
    BY <2>1 DEF K
<1>4. \A j \in Places(s, t) : j <= i
  BY <1>1, <1>3
<1> QED
  BY <1>4 DEF LastPlace

(* A locator and the query it is taken to end in.                          *)
LEMMA CoreTyped ==
  ASSUME NEW loc \in Names
  PROVE  /\ Core(loc) \in Names /\ Len(Core(loc)) \in 0..Len(loc)
         /\ SubSeq(loc, Len(Core(loc)) + 1, Len(loc)) \in Names
         /\ QueryPlaces(loc) # {} => /\ Min(QueryPlaces(loc)) \in QueryPlaces(loc)
                                     /\ \A i \in QueryPlaces(loc) : Min(QueryPlaces(loc)) <= i
                                     /\ Core(loc) = SubSeq(loc, 1, Min(QueryPlaces(loc)) - 1)
<1> DEFINE m == Min(QueryPlaces(loc))
<1>1. QueryPlaces(loc) \subseteq Nat
  BY DEF QueryPlaces
<1>2. CASE QueryPlaces(loc) = {}
  BY <1>2 DEF Core, Names
<1>3. CASE QueryPlaces(loc) # {}
  <2>1. m \in QueryPlaces(loc) /\ \A i \in QueryPlaces(loc) : m <= i
    BY <1>1, <1>3, Least
  <2>2. m \in 1..(Len(loc) - 1)
    BY <2>1 DEF QueryPlaces
  <2>3. Core(loc) = SubSeq(loc, 1, m - 1)
    BY <1>3 DEF Core
  <2> HIDE DEF m
  <2>4. Core(loc) \in Names /\ Len(Core(loc)) = m - 1
    BY <2>2, <2>3 DEF Names
  <2> QED
    BY <2>1, <2>2, <2>3, <2>4 DEF Names, m
<1> QED
  BY <1>2, <1>3

LEMMA Pair == ASSUME NEW a \in Tokens, NEW b \in Tokens PROVE <<a, b>> \in Names
  BY DEF Names

(* Every file of a hub is below the directory of the hub.                  *)
LEMMA LocatorNamed ==
  ASSUME NEW hub, NEW req \in Request
  PROVE  /\ Normal(hub, req.path) \in Names
         /\ Suffix(KeyQuery(hub, req)) \in Names
         /\ Locator(hub, req) \in Names
<1>1. /\ req.path \in Names /\ req.query \in Tokens
      /\ {"v2", "library", "simple", "package.json", "__qs", NoQuery, "root"} \subseteq Tokens
  BY ServiceType DEF Request, Added
<1>2. Normal(hub, req.path) \in Names
  <2>1. ASSUME InLibrary(hub, req.path) PROVE <<"v2", "library">> \o Tail(req.path) \in Names
    <3>1. req.path # <<>>
      BY <1>1, <2>1 DEF InLibrary, Names
    <3>2. Tail(req.path) \in Names
      BY <1>1, <3>1, HeadTailProperties DEF Names
    <3>4. <<"v2", "library">> \in Names
      BY <1>1, Pair
    <3> QED
      BY <3>2, <3>4 DEF Names
  <2>2. <<"simple">> \o req.path \in Names
    BY <1>1 DEF Names
  <2> QED
    BY <1>1, <2>1, <2>2 DEF Normal
<1>3. Suffix(KeyQuery(hub, req)) \in Names
  <2>1. KeyQuery(hub, req) \in Tokens
    BY <1>1 DEF KeyQuery
  <2>2. <<"__qs", KeyQuery(hub, req)>> \in Names
    BY <1>1, <2>1, Pair
  <2>3. <<>> \in Names
    BY DEF Names
  <2> QED
    BY <2>2, <2>3 DEF Suffix
<1>4. ASSUME NEW loc \in Names PROVE Rewritten(hub, loc) \in Names
  <2>1. /\ Core(loc) \in Names
        /\ SubSeq(loc, Len(Core(loc)) + 1, Len(loc)) \in Names
    BY CoreTyped
  <2>2. Append(Core(loc), "package.json") \in Names
    BY <1>1, <2>1 DEF Names
  <2>3. Append(Core(loc), "package.json") \o SubSeq(loc, Len(Core(loc)) + 1, Len(loc)) \in Names
    BY <2>1, <2>2 DEF Names
  <2> QED
    BY <2>3 DEF Rewritten, Npm
<1>5. Normal(hub, req.path) \o Suffix(KeyQuery(hub, req)) \in Names
  BY <1>2, <1>3 DEF Names
<1> QED
  BY <1>2, <1>3, <1>4, <1>5 DEF Locator

LEMMA BelowHub ==
  ASSUME NEW hub, hub.name \in Names, NEW req \in Request
  PROVE  \E loc \in Names : loc # <<>> /\ EntryPath(hub, req) = hub.name \o loc
<1>1. <<"root">> \in Names
  BY ServiceType DEF Names, Added
<1> QED
  BY <1>1, LocatorNamed DEF EntryPath

LEMMA EntryNamed ==
  ASSUME NEW hub, hub.name \in Names, NEW req \in Request
  PROVE  EntryPath(hub, req) \in Names \ {<<>>}
<1>1. PICK loc \in Names : loc # <<>> /\ EntryPath(hub, req) = hub.name \o loc
  BY BelowHub
<1>2. Len(hub.name \o loc) > 0 /\ hub.name \o loc \in Names
  BY <1>1 DEF Names
<1> QED
  BY <1>1, <1>2

(* The hubs of a deployment are those of its files, normalised.            *)
LEMMA HubsTyped ==
  ASSUME NEW s \in Sites, NEW hub \in HubsOf(s)
  PROVE  /\ hub.name \in Names /\ hub.domain \in Names
         /\ hub.ttl \in Nat /\ hub.type \in Types
<1>1. PICK f \in s.files : Valid(Loaded(f)) /\ hub \in ToSet(Loaded(f).hubs)
  BY DEF HubsOf
<1>2. f \in FileConfig
  BY ServiceType
<1>3. Loaded(f).hubs = [i \in DOMAIN f.hubs |-> Normalized(f.hubs[i])]
  BY <1>2 DEF Loaded, FileConfig
<1>4. PICK i \in DOMAIN f.hubs : hub = Normalized(f.hubs[i])
  BY <1>1, <1>3 DEF ToSet
<1>5. f.hubs[i] \in HubConfig
  BY <1>2 DEF FileConfig
<1>6. ValidHub(hub)
  BY <1>1, <1>3, <1>4 DEF Valid
<1> QED
  BY <1>4, <1>5, <1>6 DEF Normalized, HubConfig, ValidHub

(* A route is that of a hub whose Domain gives its host.                   *)
LEMMA RouteOfHub ==
  ASSUME NEW conf, NEW h \in DOMAIN Registry(conf)
  PROVE  \E hub \in ToSet(conf.hubs) : /\ NormalHost(hub.domain) = h
                                       /\ Registry(conf)[h] = HubRoute(conf, hub)
<1> DEFINE hub == CHOOSE b \in ToSet(conf.hubs) : NormalHost(b.domain) = h
<1>1. h \in Hosts(conf) /\ Registry(conf)[h] = HubRoute(conf, hub)
  BY DEF Registry
<1>2. hub \in ToSet(conf.hubs) /\ NormalHost(hub.domain) = h
  BY <1>1 DEF Hosts
<1> QED
  BY <1>1, <1>2

-----------------------------------------------------------------------------
(* An entry answers a request to the hub it was stored for, and is current *)
(* unless the answer changes.                                              *)
StoredIn(s, f, e) ==
  /\ e = [answer |-> e.answer, hub |-> e.hub, current |-> e.current, age |-> e.age]
  /\ e.hub \in HubsOf(s)
  /\ \E req \in s.requests : f = EntryPath(e.hub, req) /\ e.answer = Answer(e.hub, req)
  /\ e.current \in BOOLEAN /\ e.age \in 0..MaxAge
  /\ e.current \/ e.answer.url \in s.changing

(* Entries and directories keep apart, and nothing lacks its directory.    *)
Tree(d) ==
  /\ \A f \in DOMAIN d.files : f \notin d.dirs /\ Parents(f) \subseteq d.dirs
  /\ \A p \in d.dirs : Parents(p) \subseteq d.dirs

Storage(s, d) == /\ d = [files |-> d.files, dirs |-> d.dirs]
                 /\ \A f \in DOMAIN d.files : StoredIn(s, f, d.files[f])
                 /\ Tree(d)

(* The routes are those of the configuration the process was started with. *)
Running == \/ loaded = Nil /\ routes = <<>>
           \/ \E f \in site.files : /\ Starts(Loaded(f))
                                    /\ loaded = Loaded(f)
                                    /\ routes = Registry(Loaded(f))

Verdict == /\ last.outcome = "accepted" => Accepts(Loaded(file))
           /\ last.outcome = "rejected" => ~Accepts(Loaded(file))

Inv == /\ site \in Sites /\ file \in site.files
       /\ Running /\ Verdict
       /\ Storage(site, disk)

LEMMA RoutesRunning ==
  ASSUME Inv, NEW h \in DOMAIN routes
  PROVE  /\ loaded # Nil
         /\ routes[h].hub \in HubsOf(site)
         /\ routes[h].hub \in ToSet(loaded.hubs)
         /\ NormalHost(routes[h].hub.domain) = h
         /\ routes[h] = HubRoute(loaded, routes[h].hub)
<1>1. routes # <<>>
  OBVIOUS
<1>2. PICK f \in site.files : /\ Starts(Loaded(f)) /\ loaded = Loaded(f)
                             /\ routes = Registry(Loaded(f))
  BY <1>1 DEF Inv, Running
<1>3. PICK hub \in ToSet(loaded.hubs) : /\ NormalHost(hub.domain) = h
                                       /\ routes[h] = HubRoute(loaded, hub)
  BY <1>2, RouteOfHub
<1>4. routes[h].hub = hub
  BY <1>3 DEF HubRoute
<1>5. Valid(Loaded(f))
  BY <1>2 DEF Starts
<1>6. hub \in HubsOf(site)
  BY <1>2, <1>3, <1>5 DEF HubsOf
<1>7. loaded # Nil
  BY <1>2, NilFresh DEF Inv
<1> QED
  BY <1>3, <1>4, <1>6, <1>7

-----------------------------------------------------------------------------
(* What Put and Remove do to a disk of this kind.                          *)
LEMMA Siblings ==
  ASSUME NEW f \in Names \ {<<>>}
  PROVE  /\ f \notin Parents(f) /\ MetaPath(f) \notin Parents(f)
         /\ Parents(MetaPath(f)) = Parents(f)
         /\ \A p \in Parents(f) : Parents(p) \subseteq Parents(f)
<1> DEFINE x == Last(f) \o ".meta"
           T == Tokens \cup {x}
           g == Append(Front(f), x)
<1>1. Len(f) \in Nat \ {0} /\ f \in Seq(T) /\ x \in T
  BY SeqMonotonic DEF Names
<1>3. MetaPath(f) = g
  BY DEF MetaPath
<1> HIDE DEF x, T
<1>2. Front(f) = SubSeq(f, 1, Len(f) - 1)
  BY DEF Front
<1>10. \A i \in 1..(Len(f) - 1) : f[i] \in T
  BY <1>1
<1>11. Front(f) \in Seq(T) /\ Len(Front(f)) = Len(f) - 1
  <2> DEFINE n == Len(f) - 1
  <2>1. n \in Nat /\ 1 \in Int /\ n \in Int
    BY <1>1
  <2>2. \A i \in 1..n : f[i] \in T
    BY <1>10
  <2> HIDE DEF n
  <2>3. SubSeq(f, 1, n) \in Seq(T) /\ Len(SubSeq(f, 1, n)) = IF 1 <= n THEN n - 1 + 1 ELSE 0
    BY ONLY <2>1, <2>2, SubSeqProperties
  <2>4. Len(SubSeq(f, 1, n)) = n
    BY <2>1, <2>3
  <2> QED
    BY <1>2, <2>3, <2>4 DEF n
<1>4. g \in Seq(T) /\ Len(g) = Len(f)
  BY <1>1, <1>11
<1>5. ASSUME NEW n \in 0..(Len(f) - 1)
      PROVE  /\ SubSeq(g, 1, n) = SubSeq(f, 1, n)
             /\ Len(SubSeq(f, 1, n)) = n
  <2>1. \A i \in 1..n : g[i] = f[i]
    BY <1>1, <1>2, <1>11
  <2> HIDE DEF g
  <2> QED
    BY <1>1, <1>4, <2>1
<1> HIDE DEF g
<1>6. \A p \in Parents(f) : Len(p) < Len(f)
  BY <1>5 DEF Parents
<1>7. Parents(g) = Parents(f)
  BY <1>4, <1>5 DEF Parents
<1>8. ASSUME NEW n \in 0..(Len(f) - 1), NEW m \in 0..(n - 1)
      PROVE  SubSeq(SubSeq(f, 1, n), 1, m) = SubSeq(f, 1, m)
  BY <1>1
<1>9. \A p \in Parents(f) : Parents(p) \subseteq Parents(f)
  BY <1>5, <1>8 DEF Parents
<1>12. f \notin Parents(f) /\ g \notin Parents(f)
  BY <1>1, <1>4, <1>6
<1> QED
  BY <1>3, <1>7, <1>9, <1>12

LEMMA TreeOfPut ==
  ASSUME NEW d, Tree(d), NEW f \in Names \ {<<>>}, NEW e
  PROVE  Tree(PutEntry(d, f, e))
<1> DEFINE put == PutEntry(d, f, e)
<1>1. CASE Blocked(d, f)
  BY <1>1 DEF PutEntry
<1>2. CASE ~Blocked(d, f)
  <2>1. /\ DOMAIN put.files = Others(d, f) \cup {f}
        /\ put.dirs = IF MetaStuck(d, f) THEN d.dirs
                      ELSE (d.dirs \ {MetaPath(f)}) \cup Parents(f)
    BY <1>2 DEF PutEntry
  <2> HIDE DEF put
  <2>2. f \notin d.dirs /\ \A g \in DOMAIN d.files : g \notin Parents(f)
    BY <1>2 DEF Blocked, Entry
  <2>3. Others(d, f) \subseteq DOMAIN d.files
    BY DEF Others
  <2>4. CASE MetaStuck(d, f)
    <3>1. MetaPath(f) \in d.dirs
      BY <2>4 DEF MetaStuck
    <3>2. Parents(f) \subseteq d.dirs
      BY <3>1, Siblings DEF Tree
    <3> QED
      BY <2>1, <2>2, <2>3, <2>4, <3>2 DEF put, Tree
  <2>5. CASE ~MetaStuck(d, f)
    <3>1. \A g \in DOMAIN d.files \cup d.dirs : MetaPath(f) \notin Parents(g)
      BY <2>5 DEF MetaStuck, Tree
    <3>2. put.dirs = (d.dirs \ {MetaPath(f)}) \cup Parents(f)
      BY <2>1, <2>5
    <3>3. \A g \in DOMAIN d.files \cup d.dirs : Parents(g) \subseteq put.dirs
      BY <3>1, <3>2 DEF Tree
    <3>4. \A p \in put.dirs : Parents(p) \subseteq put.dirs
      BY <3>2, <3>3, Siblings
    <3>5. \A g \in DOMAIN put.files : g \notin put.dirs
      BY <2>1, <2>2, <2>3, <3>2, Siblings DEF Tree
    <3>6. \A g \in DOMAIN put.files : Parents(g) \subseteq put.dirs
      BY <2>1, <2>3, <3>2, <3>3
    <3> QED
      BY <3>4, <3>5, <3>6 DEF put, Tree
  <2> QED
    BY <2>4, <2>5
<1> QED
  BY <1>1, <1>2

LEMMA RemoveStored ==
  ASSUME NEW s, NEW d, NEW f, Storage(s, d)
  PROVE  Storage(s, RemoveEntry(d, f))
<1>1. RemoveEntry(d, f) = [files |-> Restrict(d.files, Others(d, f)), dirs |-> d.dirs]
  BY DEF RemoveEntry, Storage
<1>2. Others(d, f) \subseteq DOMAIN d.files
  BY DEF Others
<1> QED
  BY <1>1, <1>2 DEF Storage, Tree, Restrict

LEMMA PutStored ==
  ASSUME NEW s, NEW d, NEW f \in Names \ {<<>>}, NEW e, Storage(s, d), StoredIn(s, f, e)
  PROVE  Storage(s, PutEntry(d, f, e))
<1> DEFINE put == PutEntry(d, f, e)
<1>1. CASE Blocked(d, f)
  BY <1>1 DEF PutEntry
<1>2. CASE ~Blocked(d, f)
  <2>1. put.files = [g \in Others(d, f) \cup {f} |-> IF g = f THEN e ELSE d.files[g]]
    BY <1>2 DEF PutEntry
  <2>2. put = [files |-> put.files, dirs |-> put.dirs]
    BY <1>2 DEF PutEntry
  <2>3. Tree(put)
    BY TreeOfPut DEF Storage
  <2> HIDE DEF put
  <2>4. ASSUME NEW g \in DOMAIN put.files PROVE StoredIn(s, g, put.files[g])
    <3>1. CASE g = f
      BY <2>1, <3>1
    <3>2. CASE g # f
      <4>1. g \in DOMAIN d.files /\ put.files[g] = d.files[g]
        BY <2>1, <3>2 DEF Others
      <4> QED
        BY <4>1 DEF Storage
    <3> QED
      BY <3>1, <3>2
  <2> QED
    BY <2>2, <2>3, <2>4 DEF put, Storage
<1> QED
  BY <1>1, <1>2

LEMMA BrokenStored ==
  ASSUME NEW s, NEW d, NEW f \in Names \ {<<>>}, Storage(s, d), ~Blocked(d, f)
  PROVE  Storage(s, BrokenPut(d, f))
<1> DEFINE put == BrokenPut(d, f)
<1>1. /\ put.files = d.files /\ put.dirs = d.dirs \cup Parents(f)
      /\ put = [files |-> put.files, dirs |-> put.dirs]
  <2>1. \A x : [d EXCEPT !.dirs = x] = [files |-> d.files, dirs |-> x]
    BY DEF Storage
  <2> QED
    BY <2>1 DEF BrokenPut
<1>2. \A g \in DOMAIN d.files : g \notin Parents(f)
  BY DEF Blocked, Entry
<1>3. \A p \in Parents(f) : Parents(p) \subseteq Parents(f)
  BY Siblings
<1> HIDE DEF put
<1>4. Tree(put)
  BY <1>1, <1>2, <1>3 DEF Storage, Tree
<1> QED
  BY <1>1, <1>4 DEF Storage, put

LEMMA FetchStored ==
  ASSUME NEW s \in Sites, site = s, NEW d, Storage(s, d),
         NEW r, r.hub \in HubsOf(s), NEW req \in s.requests,
         Fetch(d, r, req, EntryPath(r.hub, req))
  PROVE  Storage(s, disk')
<1> DEFINE f == EntryPath(r.hub, req)
           New(age) == [answer |-> Answer(r.hub, req), hub |-> r.hub,
                        current |-> TRUE, age |-> age]
<1>1. f \in Names \ {<<>>}
  BY ServiceType, HubsTyped, EntryNamed
<1>2. \A age \in 0..MaxAge : StoredIn(s, f, New(age))
  BY DEF StoredIn
<1>3. \/ disk' = d
      \/ \E age \in 0..MaxAge : disk' = PutEntry(d, f, New(age))
      \/ ~Blocked(d, f) /\ disk' = BrokenPut(d, f)
  BY ServiceType DEF Fetch
<1> HIDE DEF f, New
<1> QED
  BY <1>1, <1>2, <1>3, PutStored, BrokenStored

LEMMA Updated ==
  ASSUME NEW s, NEW f, NEW e, StoredIn(s, f, e)
  PROVE  /\ \A x \in 0..MaxAge : StoredIn(s, f, [e EXCEPT !.age = x])
         /\ e.answer.url \in s.changing => StoredIn(s, f, [e EXCEPT !.current = FALSE])
<1>1. ASSUME NEW x
      PROVE  /\ [e EXCEPT !.age = x] = [answer |-> e.answer, hub |-> e.hub,
                                        current |-> e.current, age |-> x]
             /\ [e EXCEPT !.current = x] = [answer |-> e.answer, hub |-> e.hub,
                                            current |-> x, age |-> e.age]
  BY DEF StoredIn
<1>2. ASSUME NEW x \in 0..MaxAge PROVE StoredIn(s, f, [e EXCEPT !.age = x])
  BY <1>1 DEF StoredIn
<1> QED
  BY <1>1, <1>2 DEF StoredIn

LEMMA Aged ==
  ASSUME NEW s, NEW f, NEW e, StoredIn(s, f, e)
  PROVE  StoredIn(s, f, Older(e))
<1>1. e.age \in 0..MaxAge /\ MaxAge \in Nat
  BY ServiceType DEF StoredIn
<1>2. CASE e.age < MaxAge
  <2>1. e.age + 1 \in 0..MaxAge /\ Older(e) = [e EXCEPT !.age = e.age + 1]
    BY <1>1, <1>2 DEF Older
  <2>2. PICK x \in 0..MaxAge : Older(e) = [e EXCEPT !.age = x]
    BY <2>1
  <2>3. StoredIn(s, f, [e EXCEPT !.age = x])
    BY Updated
  <2> QED
    BY <2>2, <2>3
<1>3. CASE ~(e.age < MaxAge)
  BY <1>3 DEF Older
<1> QED
  BY <1>2, <1>3

-----------------------------------------------------------------------------
LEMMA ServeStores ==
  ASSUME Inv, NEW req \in site.requests, Serve(req)
  PROVE  Storage(site, disk')
<1>1. CASE UNCHANGED disk
  BY <1>1 DEF Inv
<1>2. CASE Mapped(req) /\ Handle(Route(req), req)
  <2> DEFINE r == Route(req)
             f == EntryPath(r.hub, req)
  <2>1. r.hub \in HubsOf(site)
    BY <1>2, RoutesRunning DEF Mapped, Route
  <2>2. site \in Sites /\ Storage(site, disk)
    BY DEF Inv
  <2>3. CASE Hit(r, req, f)
    BY <2>3, <1>1 DEF Hit
  <2>4. CASE Miss(r, req, f)
    <3>1. Fetch(disk, r, req, f)
      BY <2>4 DEF Miss
    <3> HIDE DEF r
    <3> QED
      BY <2>1, <2>2, <3>1, FetchStored
  <2>5. CASE Drop(r, req, f)
    <3>1. Fetch(RemoveEntry(disk, f), r, req, f) /\ Storage(site, RemoveEntry(disk, f))
      BY <2>2, <2>5, RemoveStored DEF Drop
    <3> HIDE DEF r
    <3> QED
      BY <2>1, <2>2, <3>1, FetchStored
  <2> QED
    BY <1>2, <2>3, <2>4, <2>5 DEF Handle
<1> QED
  BY <1>1, <1>2 DEF Serve

(* The storage directory is nobody's entry.                                *)
LEMMA Opened ==
  ASSUME NEW s \in Sites, NEW d, Storage(s, d)
  PROVE  Storage(s, [d EXCEPT !.dirs = @ \cup {<<>>}])
<1> DEFINE new == [d EXCEPT !.dirs = @ \cup {<<>>}]
<1>1. new.files = d.files /\ new.dirs = d.dirs \cup {<<>>}
      /\ new = [files |-> new.files, dirs |-> new.dirs]
  <2>1. \A x : [d EXCEPT !.dirs = x] = [files |-> d.files, dirs |-> x]
    BY DEF Storage
  <2> QED
    BY <2>1
<1>2. Parents(<<>>) = {}
  BY DEF Parents
<1>3. <<>> \notin DOMAIN d.files
  <2>1. ASSUME NEW f \in DOMAIN d.files PROVE f # <<>>
    <3>1. PICK req \in s.requests : f = EntryPath(d.files[f].hub, req)
      BY DEF Storage, StoredIn
    <3>2. d.files[f].hub.name \in Names
      BY HubsTyped DEF Storage, StoredIn
    <3> QED
      BY <3>1, <3>2, EntryNamed, ServiceType
  <2> QED
    BY <2>1
<1> HIDE DEF new
<1> QED
  BY <1>1, <1>2, <1>3 DEF Storage, Tree, new

(* The entries change, but no one is added and none moves.                 *)
LEMMA Refreshed ==
  ASSUME NEW s, NEW d, Storage(s, d), NEW new, DOMAIN new = DOMAIN d.files,
         \A f \in DOMAIN d.files : StoredIn(s, f, new[f])
  PROVE  Storage(s, [d EXCEPT !.files = new])
<1> DEFINE put == [d EXCEPT !.files = new]
<1>1. /\ put.dirs = d.dirs /\ put.files = new
      /\ put = [files |-> put.files, dirs |-> put.dirs]
  BY DEF Storage
<1> HIDE DEF put
<1> QED
  BY <1>1 DEF Storage, Tree, put

(* However the file is edited, the process started and stopped and requests*)
(* served, the routes are those of a file of the deployment, and the disk  *)
(* is a tree of entries that answer its requests (run, Serve, Put, Remove).*)
THEOREM Invariance == Spec => []Inv
<1>1. Init => Inv
  <2> SUFFICES ASSUME Init PROVE Inv
    OBVIOUS
  <2>1. Storage(site, disk)
    BY DEF Init, Storage, Tree
  <2> QED
    BY <2>1 DEF Init, Inv, Running, Verdict
<1>2. Inv /\ [Next]_vars => Inv'
  <2> SUFFICES ASSUME Inv, [Next]_vars PROVE Inv'
    OBVIOUS
  <2>1. CASE Edit
    BY <2>1 DEF Edit, Happened, Inv, Running, Verdict
  <2>2. CASE Check
    BY <2>2 DEF Check, Happened, Inv, Running, Verdict
  <2>3. CASE Start
    <3>1. Storage(site, disk')
      BY <2>3, Opened DEF Start, OpenStorage, Inv
    <3> QED
      BY <2>3, <3>1 DEF Start, Happened, Inv, Running, Verdict
  <2>4. CASE StartRefused
    BY <2>4 DEF StartRefused, Happened, Inv, Running, Verdict
  <2>5. CASE StartFails
    <3>1. Storage(site, disk')
      BY <2>5, Opened DEF StartFails, OpenStorage, Inv
    <3> QED
      BY <2>5, <3>1 DEF StartFails, Happened, Inv, Running, Verdict
  <2>6. CASE Stop
    BY <2>6 DEF Stop, Happened, Inv, Running, Verdict
  <2>7. CASE Tick
    <3>1. \A f \in DOMAIN disk.files : StoredIn(site, f, Older(disk.files[f]))
      BY Aged DEF Inv, Storage
    <3> DEFINE new == [f \in DOMAIN disk.files |-> Older(disk.files[f])]
    <3>2. disk' = [disk EXCEPT !.files = new] /\ DOMAIN new = DOMAIN disk.files
      BY <2>7 DEF Tick
    <3>4. \A f \in DOMAIN disk.files : new[f] = Older(disk.files[f])
      OBVIOUS
    <3> HIDE DEF new
    <3>3. Storage(site, disk')
      BY <3>1, <3>2, <3>4, Refreshed DEF Inv
    <3> QED
      BY <2>7, <3>3 DEF Tick, Happened, Inv, Running, Verdict
  <2>8. ASSUME NEW url \in site.changing, Change(url) PROVE Inv'
    <3> DEFINE New(f) == IF disk.files[f].answer.url = url
                         THEN [disk.files[f] EXCEPT !.current = FALSE] ELSE disk.files[f]
    <3>1. \A f \in DOMAIN disk.files : StoredIn(site, f, New(f))
      BY <2>8, Updated DEF Inv, Storage
    <3> DEFINE new == [f \in DOMAIN disk.files |-> New(f)]
    <3>2. disk' = [disk EXCEPT !.files = new] /\ DOMAIN new = DOMAIN disk.files
      BY <2>8 DEF Change
    <3>4. \A f \in DOMAIN disk.files : StoredIn(site, f, new[f])
      BY <3>1
    <3> HIDE DEF new
    <3>3. Storage(site, disk')
      BY <3>2, <3>4, Refreshed DEF Inv
    <3> QED
      BY <2>8, <3>3 DEF Change, Happened, Inv, Running, Verdict
  <2>9. ASSUME NEW req \in site.requests, Serve(req) PROVE Inv'
    <3>1. Storage(site, disk')
      BY <2>9, ServeStores
    <3>2. last'.outcome \notin {"accepted", "rejected"}
      BY <2>9 DEF Serve, Diagnose, Unmapped, Handle, Hit, Miss, Drop, Fetch, Outcome
    <3> QED
      BY <2>9, <3>1, <3>2 DEF Serve, Inv, Running, Verdict
  <2>10. CASE UNCHANGED vars
    BY <2>10 DEF vars, Inv, Running, Verdict
  <2> QED
    BY <2>1, <2>2, <2>3, <2>4, <2>5, <2>6, <2>7, <2>8, <2>9, <2>10 DEF Next
<1> QED
  BY <1>1, <1>2, PTL DEF Spec

(* The routes are those of the running process and none is without it, no  *)
(* file is a directory, and each has its own (NewHubRegistry, Put).        *)
THEOREM TypeCorrect == Spec => []TypeOK
<1>1. ASSUME Inv PROVE TypeOK
  <2>1. \A f \in DOMAIN disk.files : /\ disk.files[f].age \in 0..MaxAge
                                     /\ disk.files[f].current \in BOOLEAN
    BY <1>1 DEF Inv, Storage, StoredIn
  <2>2. \A h \in DOMAIN routes : NormalHost(routes[h].hub.domain) = h
    BY <1>1, RoutesRunning
  <2>3. routes = <<>> <=> loaded = Nil
    <3>1. ASSUME NEW f \in site.files, Starts(Loaded(f)), loaded = Loaded(f),
                 routes = Registry(Loaded(f))
          PROVE  routes # <<>> /\ loaded # Nil
      <4>1. loaded # Nil
        BY <1>1, <3>1, NilFresh DEF Inv
      <4>2. f \in FileConfig /\ Loaded(f).hubs # <<>>
        BY <1>1, <3>1, ServiceType DEF Inv, Starts, Valid
      <4>3. /\ Loaded(f).hubs = [i \in 1..Len(f.hubs) |-> Normalized(f.hubs[i])]
            /\ Len(f.hubs) \in Nat
        BY <4>2 DEF Loaded, FileConfig
      <4>4. 1 \in DOMAIN Loaded(f).hubs
        BY <4>2, <4>3
      <4>5. Loaded(f).hubs[1] \in ToSet(Loaded(f).hubs)
        BY <4>4 DEF ToSet
      <4>6. DOMAIN routes # {}
        BY <3>1, <4>5 DEF Registry, Hosts
      <4> QED
        BY <4>1, <4>6
    <3> QED
      BY <1>1, <3>1 DEF Inv, Running
  <2> QED
    BY <1>1, <2>1, <2>2, <2>3 DEF TypeOK, Inv, Running, Storage, Tree
<1> QED
  BY Invariance, <1>1, PTL

-----------------------------------------------------------------------------
(* What a hit says of the step and of the entry.                           *)
LEMMA HitServes ==
  ASSUME Inv, [Next]_vars, last'.outcome = "hit", last' # last
  PROVE  /\ site' = site /\ last'.req \in site.requests
         /\ last'.route.hub \in HubsOf(site)
         /\ last'.route = HubRoute(loaded, last'.route.hub)
         /\ NormalHost(last'.route.hub.domain) = NormalHost(last'.req.host)
         /\ StoredIn(site, EntryPath(last'.route.hub, last'.req), last'.entry)
         /\ Says(last'.route, last'.req) # "pass"
         /\ ~last'.asked => \/ Says(last'.route, last'.req) # "check"
                            \/ last'.entry.age < last'.route.ttl
<1>1. PICK req \in site.requests : Serve(req)
  BY DEF Next, Edit, Check, Start, StartRefused, StartFails, Stop, Tick, Change, Happened, vars
<1> DEFINE r == Route(req)
           f == EntryPath(r.hub, req)
<1>2. Mapped(req) /\ Hit(r, req, f) /\ site' = site
  BY <1>1 DEF Serve, Diagnose, Unmapped, Handle, Miss, Drop, Fetch, Outcome
<1>3. /\ last'.req = req /\ last'.route = r /\ last'.entry = disk.files[f]
      /\ last'.asked = (Says(r, req) = "check" /\ ~Young(r, f))
      /\ Says(r, req) # "pass" /\ f \in DOMAIN disk.files
  BY <1>2 DEF Hit, Finds, Entry
<1>4. /\ r.hub \in HubsOf(site) /\ r = HubRoute(loaded, r.hub)
      /\ NormalHost(r.hub.domain) = NormalHost(req.host)
  BY <1>2, RoutesRunning DEF Mapped, Route
<1>5. StoredIn(site, f, disk.files[f])
  BY <1>3 DEF Inv, Storage
<1>6. Young(r, f) => disk.files[f].age < r.ttl
  BY DEF Young
<1> HIDE DEF r, f
<1>7. EntryPath(last'.route.hub, last'.req) = f
  BY <1>3 DEF f
<1> QED
  BY <1>2, <1>3, <1>4, <1>5, <1>6, <1>7

(* Hubs keep apart in the storage directory, in every deployment: none     *)
(* serves what another one stored, unless the name of one leads into the   *)
(* directory of the other (entryPath).                                     *)
THEOREM Separation == Spec => []HubsApart
<1>1. Init => HubsApart
  BY DEF Init, HubsApart
<1>2. ASSUME Inv, HubsApart, [Next]_vars PROVE HubsApart'
  <2>1. CASE last'.outcome = "hit" /\ last' # last
    <3> DEFINE hub == last'.route.hub
               f == EntryPath(hub, last'.req)
               e == last'.entry
    <3>1. /\ hub \in HubsOf(site) /\ last'.req \in site.requests /\ StoredIn(site, f, e)
      BY <1>2, <2>1, HitServes
    <3>2. site \in Sites /\ site.requests \subseteq Request
      BY <1>2, ServiceType DEF Inv
    <3>3. hub.name \in Names /\ \E loc \in Names : f = hub.name \o loc
      BY <3>1, <3>2, HubsTyped, BelowHub
    <3>4. e.hub.name \in Names /\ \E loc \in Names : f = e.hub.name \o loc
      <4>1. PICK req \in site.requests : f = EntryPath(e.hub, req)
        BY <3>1 DEF StoredIn
      <4>2. e.hub.name \in Names
        BY <3>1, <3>2, HubsTyped DEF StoredIn
      <4> QED
        BY <3>2, <4>1, <4>2, BelowHub
    <3> QED
      BY <3>3, <3>4, Beginnings DEF HubsApart
  <2>2. CASE last'.outcome # "hit" \/ last' = last
    BY <1>2, <2>2 DEF HubsApart
  <2> QED
    BY <2>1, <2>2
<1> QED
  BY Invariance, <1>1, <1>2, PTL DEF Spec

-----------------------------------------------------------------------------
LEMMA FetchKeeps ==
  ASSUME Inv, NEW d, NEW r, NEW req, NEW f, Fetch(d, r, req, f),
         d.files = disk.files \/ d = RemoveEntry(disk, f),
         NEW e \in DOMAIN disk.files \ DOMAIN disk'.files
  PROVE  LostTo(e, f) /\ last'.route = r /\ last'.req = req
<1>1. DOMAIN d.files = DOMAIN disk.files \/ DOMAIN d.files = Others(disk, f)
  BY DEF RemoveEntry, Restrict, Inv, Storage
<1>2. CASE disk' = d /\ Outcome("passed", r, req)
  <2>1. e \in {f, MetaPath(f)}
    BY <1>1, <1>2 DEF Others
  <2> QED
    BY <1>2, <2>1 DEF Outcome, LostTo
<1>3. ASSUME NEW new, disk' = PutEntry(d, f, new),
             Outcome(IF PutFails(d, f) THEN "failed" ELSE "stored", r, req)
      PROVE  LostTo(e, f) /\ last'.route = r /\ last'.req = req
  <2>1. CASE Blocked(d, f)
    <3>1. disk' = d /\ last'.outcome = "failed"
      BY <1>3, <2>1 DEF PutEntry, PutFails, Outcome
    <3>2. e \in {f, MetaPath(f)}
      BY <1>1, <3>1 DEF Others
    <3> QED
      BY <1>3, <3>1, <3>2 DEF Outcome, LostTo
  <2>2. CASE ~Blocked(d, f)
    <3>1. DOMAIN disk'.files = Others(d, f) \cup {f}
      BY <1>3, <2>2 DEF PutEntry
    <3>2. e = MetaPath(f)
      BY <1>1, <3>1 DEF Others
    <3> QED
      BY <1>3, <3>2 DEF Outcome, LostTo
  <2> QED
    BY <2>1, <2>2
<1>4. CASE disk' = BrokenPut(d, f) /\ Outcome("broken", r, req)
  <2>1. disk'.files = d.files
    BY <1>4 DEF BrokenPut, RemoveEntry, Inv, Storage
  <2>2. e \in {f, MetaPath(f)}
    BY <1>1, <2>1 DEF Others
  <2> QED
    BY <1>4, <2>2 DEF Outcome, LostTo
<1> QED
  BY <1>2, <1>3, <1>4 DEF Fetch

LEMMA StepKeeps ==
  ASSUME Inv, [Next]_vars, NEW e \in DOMAIN disk.files \ DOMAIN disk'.files
  PROVE  LostTo(e, EntryPath(last'.route.hub, last'.req))
<1>1. ASSUME NEW req \in site.requests, Serve(req)
      PROVE  LostTo(e, EntryPath(last'.route.hub, last'.req))
  <2> DEFINE r == Route(req)
             f == EntryPath(r.hub, req)
  <2>1. CASE Miss(r, req, f)
    BY <2>1, FetchKeeps DEF Miss
  <2>2. CASE Drop(r, req, f)
    BY <2>2, FetchKeeps DEF Drop
  <2>3. disk' # disk
    OBVIOUS
  <2> QED
    BY <1>1, <2>1, <2>2, <2>3 DEF Serve, Handle, Hit
<1>2. DOMAIN disk'.files # DOMAIN disk.files
  OBVIOUS
<1>3. CASE Tick
  BY <1>2, <1>3 DEF Tick, Inv, Storage
<1>4. ASSUME NEW url, Change(url) PROVE FALSE
  BY <1>2, <1>4 DEF Change, Inv, Storage
<1>5. CASE Start
  BY <1>2, <1>5 DEF Start, OpenStorage, Inv, Storage
<1>6. CASE StartFails
  BY <1>2, <1>6 DEF StartFails, OpenStorage, Inv, Storage
<1>7. CASE Edit \/ Check \/ StartRefused \/ Stop \/ UNCHANGED vars
  BY <1>2, <1>7 DEF Edit, Check, StartRefused, Stop, vars
<1> QED
  BY <1>1, <1>3, <1>4, <1>5, <1>6, <1>7 DEF Next

(* No entry is lost but to a request for it, or for the entry whose        *)
(* metadata have its name, whatever the names and paths are and however    *)
(* the process is stopped, edited and started (Put, Remove).               *)
THEOREM Keeping == Spec => EntryKept
<1>1. Inv /\ [Next]_vars => [LossesMeant]_vars
  BY StepKeeps DEF LossesMeant
<1> QED
  BY Invariance, <1>1, PTL DEF Spec, EntryKept

-----------------------------------------------------------------------------
LEMMA ThreePolicies ==
  ASSUME NEW type \in Types, NEW loc, NEW method
  PROVE  Policy(type, loc, method) \in {"pass", "check", "serve"}
BY DEF Types, Policy, Docker, NpmPolicy, Go, Pypi, Debian, Apk, Composer

(* What is served unasked has not changed at the upstream or is younger    *)
(* than a TTL of the running configuration, in every deployment of whose   *)
(* answers the policies take none for immutable that changes (cachePolicy, *)
(* ResolveStrategy).                                                       *)
THEOREM Unasked == Spec => [](PoliciesFit(site) => UnaskedCurrent)
<1>1. Init => UnaskedCurrent
  BY DEF Init, UnaskedCurrent
<1>2. ASSUME Inv, PoliciesFit(site) => UnaskedCurrent, [Next]_vars
      PROVE  (PoliciesFit(site) => UnaskedCurrent)'
  <2>0. site' = site
    BY <1>2 DEF Next, Edit, Check, Start, StartRefused, StartFails, Stop, Tick, Change, Serve, vars
  <2> SUFFICES ASSUME PoliciesFit(site) PROVE UnaskedCurrent'
    BY <2>0
  <2>1. CASE last'.outcome = "hit" /\ last' # last /\ ~last'.asked
    <3> DEFINE hub == last'.route.hub
               req == last'.req
               e == last'.entry
    <3>1. /\ hub \in HubsOf(site) /\ req \in site.requests
          /\ StoredIn(site, EntryPath(hub, req), e)
          /\ last'.route = HubRoute(loaded, hub)
          /\ Says(last'.route, req) # "pass"
          /\ Says(last'.route, req) # "check" \/ e.age < last'.route.ttl
      BY <1>2, <2>1, HitServes
    <3>2. hub.type \in Types /\ hub.ttl \in Nat
      BY <1>2, <3>1, HubsTyped DEF Inv
    <3>3. CASE e.age < last'.route.ttl
      <4>1. last'.route.ttl = TTLHint(loaded, hub)
        BY <3>1 DEF HubRoute
      <4>2. last'.route.ttl = IF hub.ttl > 0 THEN hub.ttl ELSE ModuleTTL[hub.type]
        BY <4>1 DEF TTLHint, EffectiveCacheTTL
      <4> HIDE DEF hub, e
      <4>3. e.age < hub.ttl \/ (hub.ttl = 0 /\ e.age < ModuleTTL[hub.type])
        BY <3>2, <3>3, <4>2
      <4> QED
        BY <4>3 DEF UnaskedCurrent, hub, e
    <3>4. CASE Says(last'.route, req) # "check"
      <4>1. Policy(hub.type, Locator(hub, req), req.method) = "serve"
        BY <3>1, <3>2, <3>4, ThreePolicies DEF Says
      <4>2. PICK stored \in site.requests :
              /\ EntryPath(hub, req) = EntryPath(e.hub, stored)
              /\ e.answer = Answer(e.hub, stored)
        BY <3>1 DEF StoredIn
      <4>3. e.hub \in HubsOf(site) /\ e.answer.url = Url(e.hub, stored)
        BY <3>1, <4>2 DEF StoredIn, Answer
      <4>4. Url(e.hub, stored) \notin site.changing
        BY <1>2, <3>1, <4>1, <4>2, <4>3 DEF PoliciesFit, Inv
      <4>5. e.current
        BY <3>1, <4>3, <4>4 DEF StoredIn
      <4> QED
        BY <4>5 DEF UnaskedCurrent
    <3> QED
      BY <3>1, <3>3, <3>4
  <2>2. CASE last' = last /\ last.outcome = "hit"
    <3>1. loaded' = loaded
      BY <1>2, <2>2 DEF Next, Edit, Check, Start, StartRefused, StartFails, Stop, Tick, Change,
                        Serve, Happened, vars
    <3> QED
      BY <1>2, <2>2, <3>1 DEF UnaskedCurrent
  <2>3. CASE last'.outcome # "hit" \/ last'.asked
    BY <2>3 DEF UnaskedCurrent
  <2> QED
    BY <2>1, <2>2, <2>3
<1> QED
  BY Invariance, <1>1, <1>2, PTL DEF Spec

-----------------------------------------------------------------------------
LEMMA LowerCased ==
  ASSUME NEW s \in Names
  PROVE  /\ DOMAIN LowerCase(s) = 1..Len(s) /\ Len(s) \in Nat
         /\ \A i \in 1..Len(s) :
              LowerCase(s)[i] = IF s[i] \in DOMAIN Lower THEN Lower[s[i]] ELSE s[i]
         /\ \A i \in 1..Len(s) : LowerCase(s)[i] = "[" <=> s[i] = "["
<1>1. DOMAIN s = 1..Len(s) /\ Len(s) \in Nat
  BY DEF Names
<1>2. \A i \in 1..Len(s) : LowerCase(s)[i] = IF s[i] \in DOMAIN Lower THEN Lower[s[i]] ELSE s[i]
  BY <1>1 DEF LowerCase
<1>3. \A t \in DOMAIN Lower : t # "[" /\ Lower[t] # "["
  BY MarksType DEF Marks
<1> QED
  BY <1>1, <1>2, <1>3 DEF LowerCase

LEMMA PlaceOf ==
  ASSUME NEW s \in Names, NEW t, NEW i
  PROVE  i \in Places(s, t) <=> i \in 1..Len(s) /\ s[i] = t
BY DEF Places, Names

LEMMA Inside ==
  ASSUME NEW s \in Names, NEW n \in 2..Len(s)
  PROVE  /\ SubSeq(s, 2, n - 1) \in Names /\ Len(SubSeq(s, 2, n - 1)) = n - 2
         /\ \A i \in 1..(n - 2) : SubSeq(s, 2, n - 1)[i] = s[i + 1]
<1> DEFINE m == n - 1
<1>1. 2 \in Int /\ m \in Int /\ n = m + 1 /\ m >= 1 /\ \A i \in 2..m : s[i] \in Tokens
  BY DEF Names
<1> HIDE DEF m
<1>2. /\ SubSeq(s, 2, m) \in Seq(Tokens)
      /\ Len(SubSeq(s, 2, m)) = IF 2 <= m THEN m - 2 + 1 ELSE 0
      /\ \A i \in 1..(m - 2 + 1) : SubSeq(s, 2, m)[i] = s[2 + i - 1]
  BY ONLY <1>1, SubSeqProperties
<1>3. Len(SubSeq(s, 2, m)) = n - 2
  BY <1>1, <1>2
<1>4. ASSUME NEW i \in 1..(n - 2) PROVE SubSeq(s, 2, m)[i] = s[i + 1]
  <2>1. i \in 1..(m - 2 + 1) /\ 2 + i - 1 = i + 1
    BY <1>1
  <2> QED
    BY <1>2, <2>1
<1> QED
  BY <1>2, <1>3, <1>4 DEF m, Names

(* What normalizeHost makes of the host of a name, of an address without a *)
(* port, and of one with a port.                                           *)
LEMMA NormalOfName ==
  ASSUME NEW s \in Names, IsName(s)
  PROVE  /\ NormalHost(s) = Named(s) /\ ~IsAddress(s)
         /\ 1 \in DOMAIN NormalHost(s) => NormalHost(s)[1] # "["
<1>1. /\ Places(s, "[") = {} /\ Places(s, "]") = {}
      /\ \A i, j \in Places(s, ":") : i = j
      /\ DOMAIN s = 1..Len(s) /\ Len(s) \in Nat
  BY DEF IsName, Names
<1>2. ~IsAddress(s)
  BY <1>1 DEF IsAddress
<1> DEFINE c == LastPlace(s, ":")
           name == IF Places(s, ":") = {} THEN s ELSE SubSeq(s, 1, c - 1)
<1>3. Places(s, ":") # {} => Places(s, ":") = {c} /\ c \in 1..Len(s)
  BY <1>1, LastOne DEF Places
<1>4. Places(s, ":") # {} => ~Bracketed(s)
  BY <1>1, <1>3 DEF Bracketed, Places
<1>5. WithoutPort(s) = name
  BY <1>1, <1>3, <1>4 DEF WithoutPort, Splits, HostPart
<1>6. Named(s) = LowerCase(WithoutDot(name))
  BY <1>2 DEF Named
<1>7. name \in Names /\ \A i \in 1..Len(name) : name[i] # "["
  <2>1. \A i \in 1..Len(s) : s[i] # "["
    BY <1>1 DEF Places
  <2> HIDE DEF c
  <2> QED
    BY <1>3, <2>1 DEF Names
<1> HIDE DEF name
<1>8. WithoutDot(name) \in Names /\ \A i \in 1..Len(WithoutDot(name)) : WithoutDot(name)[i] # "["
  BY <1>7 DEF WithoutDot, Names, Front
<1> QED
  BY <1>2, <1>5, <1>6, <1>8, LowerCased DEF NormalHost

LEMMA NormalOfAddress ==
  ASSUME NEW s \in Names, IsAddress(s)
  PROVE  /\ BareAddress(s) =>
              /\ NormalHost(s) = LowerCase(s) /\ Len(s) >= 2
              /\ s[1] = "[" /\ s[Len(s)] = "]"
              /\ Named(s) = LowerCase(SubSeq(s, 2, Len(s) - 1))
         /\ ~BareAddress(s) =>
              /\ NormalHost(s) = Named(s)
              /\ 1 \in DOMAIN NormalHost(s) => NormalHost(s)[1] # "["
<1>1. PICK close \in 2..Len(s) :
        /\ Places(s, "]") = {close}
        /\ s[close - 1] # "."
        /\ close = Len(s) \/ (s[close + 1] = ":" /\ LastPlace(s, ":") = close + 1)
  BY DEF IsAddress
<1>2. /\ Places(s, "[") = {1} /\ DOMAIN s = 1..Len(s) /\ Len(s) \in Nat
      /\ Last(s) = s[Len(s)]
  BY DEF IsAddress, Names, Last
<1>9. /\ close \in Nat /\ 2 <= close /\ close <= Len(s)
      /\ close \in 1..Len(s) /\ 2 \in 1..Len(s) /\ Len(s) \in 1..Len(s)
  <2>1. Len(s) \in Nat /\ close \in 2..Len(s)
    BY <1>2
  <2> QED
    BY ONLY <2>1
<1>3. Bracketed(s) /\ s[close] = "]"
  <2>1. 1 \in Places(s, "[") /\ close \in Places(s, "]")
    BY <1>1, <1>2
  <2> QED
    BY <2>1, PlaceOf DEF Bracketed
<1>4. LastPlace(s, "]") = close
  BY <1>1, LastOne
<1>5. Named(s) = LowerCase(SubSeq(s, 2, close - 1))
  BY <1>4 DEF Named
<1>6. BareAddress(s) <=> close = Len(s)
  <2>1. BareAddress(s) <=> s[Len(s)] = "]"
    BY <1>2 DEF BareAddress
  <2>3. s[Len(s)] = "]" <=> Len(s) = close
    BY <1>1, <1>9, PlaceOf
  <2> QED
    BY <2>1, <2>3
<1>7. CASE close = Len(s)
  <2>1. Places(s, ":") # {} => LastPlace(s, ":") \in 1..Len(s) /\ LastPlace(s, ":") \in Nat
    BY <1>2, LastOne DEF Places
  <2>2. Places(s, ":") # {} => ~Splits(s) /\ ~EndsInPort(s)
    <3>1. "]" \notin Ports
      BY MarksType DEF Marks
    <3> QED
      BY <1>1, <1>2, <1>3, <1>7, <2>1, <3>1 DEF Splits, EndsInPort
  <2>3. WithoutPort(s) = s
    BY <2>2 DEF WithoutPort
  <2>4. WithoutDot(s) = s
    BY <1>2, <1>3, <1>7 DEF WithoutDot
  <2> QED
    BY <1>1, <1>2, <1>3, <1>5, <1>6, <1>7, <2>3, <2>4 DEF NormalHost, Bracketed
<1>8. CASE close # Len(s)
  <2> DEFINE inner == SubSeq(s, 2, close - 1)
  <2>1. s[close + 1] = ":" /\ LastPlace(s, ":") = close + 1 /\ close + 1 \in 1..Len(s)
    BY <1>1, <1>8
  <2>2. close + 1 \in Places(s, ":")
    BY <1>2, <2>1 DEF Places
  <2>3. WithoutPort(s) = inner
    <3>1. LastPlace(s, ":") - 1 = close /\ LastPlace(s, ":") - 2 = close - 1
      BY <1>9, <2>1
    <3>2. Splits(s) /\ HostPart(s) = inner
      BY <1>1, <1>2, <1>3, <3>1 DEF Splits, HostPart
    <3> QED
      BY <2>2, <3>2 DEF WithoutPort
  <2>4. /\ inner \in Names /\ Len(inner) = close - 2
        /\ \A i \in 1..(close - 2) : inner[i] = s[i + 1]
    BY Inside
  <2>5. inner # <<>> => Last(inner) # "."
    BY <1>1, <2>4 DEF Last
  <2>6. NormalHost(s) = LowerCase(inner)
    BY <2>3, <2>5 DEF NormalHost, WithoutDot
  <2>7. 1 \in 1..Len(inner) => inner[1] # "["
    <3>1. 2 \notin Places(s, "[")
      BY <1>2
    <3>2. s[2] # "["
      BY <1>9, <3>1, PlaceOf
    <3> QED
      BY <1>9, <2>4, <3>2
  <2> HIDE DEF inner
  <2>8. 1 \in DOMAIN LowerCase(inner) => LowerCase(inner)[1] # "["
    BY <2>4, <2>7, LowerCased
  <2> QED
    BY <1>5, <1>6, <1>8, <2>6, <2>8 DEF inner
<1> QED
  BY <1>7, <1>8

(* Hosts are told apart as they should be, except that an address with a   *)
(* port is not the one without.                                            *)
LEMMA NormalNamed ==
  ASSUME NEW s \in Names, NEW t \in Names, WellFormed(s), WellFormed(t)
  PROVE  /\ NormalHost(s) = NormalHost(t)
              <=> Named(s) = Named(t) /\ (BareAddress(s) <=> BareAddress(t))
         /\ NormalHost(s) = <<>> => Named(s) = <<>>
<1>1. ASSUME NEW u \in Names, WellFormed(u), BareAddress(u)
      PROVE  /\ NormalHost(u) = LowerCase(u) /\ Len(u) >= 2 /\ Len(u) \in Nat
             /\ u[1] = "[" /\ u[Len(u)] = "]"
             /\ Named(u) = LowerCase(SubSeq(u, 2, Len(u) - 1))
             /\ 1 \in DOMAIN NormalHost(u) /\ NormalHost(u)[1] = "["
  <2>1. IsAddress(u)
    BY <1>1 DEF BareAddress
  <2>2. Len(u) \in Nat
    BY DEF Names
  <2> QED
    BY <1>1, <2>1, <2>2, NormalOfAddress, LowerCased
<1>2. ASSUME NEW u \in Names, WellFormed(u), ~BareAddress(u)
      PROVE  /\ NormalHost(u) = Named(u)
             /\ 1 \in DOMAIN NormalHost(u) => NormalHost(u)[1] # "["
  BY <1>2, NormalOfName, NormalOfAddress DEF WellFormed
<1>3. CASE BareAddress(s) /\ BareAddress(t)
  <2> DEFINE in(u) == SubSeq(u, 2, Len(u) - 1)
  <2>1. ASSUME NEW u \in Names, BareAddress(u), WellFormed(u)
        PROVE  /\ in(u) \in Names /\ Len(in(u)) = Len(u) - 2
               /\ \A i \in 1..(Len(u) - 2) : in(u)[i] = u[i + 1]
    <3>1. Len(u) \in 2..Len(u)
      BY <1>1, <2>1
    <3> QED
      BY <3>1, Inside
  <2> HIDE DEF in
  <2>2. ASSUME LowerCase(s) = LowerCase(t) PROVE LowerCase(in(s)) = LowerCase(in(t))
    <3>1. Len(s) = Len(t)
      BY <2>2, LowerCased
    <3>2. Len(in(s)) = Len(in(t)) /\ in(s) \in Names /\ in(t) \in Names
      BY <1>3, <2>1, <3>1
    <3>3. ASSUME NEW i \in 1..Len(in(s)) PROVE LowerCase(in(s))[i] = LowerCase(in(t))[i]
      <4>1. i + 1 \in 1..Len(s) /\ i \in 1..(Len(s) - 2) /\ i \in 1..(Len(t) - 2)
        BY <1>1, <1>3, <2>1, <3>1
      <4>2. in(s)[i] = s[i + 1] /\ in(t)[i] = t[i + 1]
        BY <1>3, <2>1, <4>1
      <4>3. LowerCase(s)[i + 1] = LowerCase(t)[i + 1]
        BY <2>2
      <4> QED
        BY <3>1, <3>2, <4>1, <4>2, <4>3, LowerCased
    <3> QED
      BY <3>2, <3>3, LowerCased DEF LowerCase, Names
  <2>3. ASSUME LowerCase(in(s)) = LowerCase(in(t)) PROVE LowerCase(s) = LowerCase(t)
    <3>1. Len(in(s)) = Len(in(t)) /\ in(s) \in Names /\ in(t) \in Names
      BY <1>3, <2>1, <2>3, LowerCased
    <3>2. Len(s) = Len(t)
      BY <1>1, <1>3, <2>1, <3>1
    <3>3. ASSUME NEW i \in 1..Len(s) PROVE LowerCase(s)[i] = LowerCase(t)[i]
      <4>1. CASE i = 1 \/ i = Len(s)
        <5>1. s[i] = t[i]
          BY <1>1, <1>3, <3>2, <4>1
        <5> QED
          BY <3>2, <5>1, LowerCased
      <4>2. CASE i # 1 /\ i # Len(s)
        <5>1. i - 1 \in 1..(Len(s) - 2) /\ i - 1 \in 1..(Len(t) - 2) /\ i - 1 + 1 = i
          BY <1>1, <1>3, <3>2, <4>2
        <5>2. in(s)[i - 1] = s[i] /\ in(t)[i - 1] = t[i]
          BY <1>3, <2>1, <5>1
        <5>3. LowerCase(in(s))[i - 1] = LowerCase(in(t))[i - 1]
          BY <2>3
        <5>4. i - 1 \in 1..Len(in(s)) /\ i - 1 \in 1..Len(in(t))
          BY <1>3, <2>1, <5>1
        <5> QED
          BY <3>1, <3>2, <5>2, <5>3, <5>4, LowerCased
      <4> QED
        BY <4>1, <4>2
    <3> QED
      BY <3>2, <3>3, LowerCased DEF LowerCase, Names
  <2> QED
    BY <1>1, <1>3, <2>2, <2>3 DEF in
<1>4. CASE ~(BareAddress(s) <=> BareAddress(t))
  BY <1>1, <1>2, <1>4
<1>5. CASE ~BareAddress(s) /\ ~BareAddress(t)
  <2>1. NormalHost(s) = Named(s) /\ NormalHost(t) = Named(t)
    BY <1>2, <1>5
  <2> QED
    BY <1>5, <2>1 DEF BareAddress
<1>6. NormalHost(s) = <<>> => Named(s) = <<>>
  BY <1>1, <1>2
<1> QED
  BY <1>3, <1>4, <1>5, <1>6

LEMMA RoutesHosts == Inv /\ loaded # Nil => DOMAIN routes = Hosts(loaded)
BY DEF Inv, Running, Registry

LEMMA LoadedHubs ==
  ASSUME Inv, loaded # Nil
  PROVE  \A hub \in ToSet(loaded.hubs) : hub.domain \in Names
<1>1. PICK f \in site.files : Starts(Loaded(f)) /\ loaded = Loaded(f)
  BY DEF Inv, Running
<1>2. \A hub \in ToSet(loaded.hubs) : hub \in HubsOf(site)
  BY <1>1 DEF HubsOf, Starts
<1> QED
  BY <1>2, HubsTyped DEF Inv

(* A request reaches the hub whose Domain names its host, if there is one, *)
(* and no other, whatever the Domains are (normalizeHost, Lookup).         *)
THEOREM Routing == Spec => []RoutedRight
<1>1. Init => RoutedRight
  BY DEF Init, RoutedRight, Served
<1>2. ASSUME Inv, RoutedRight, [Next]_vars PROVE RoutedRight'
  <2>1. ASSUME NEW req \in site.requests, Serve(req) PROVE RoutedRight'
    <3>1. req \in Request /\ req.host \in Names /\ site \in Sites
      BY <1>2, ServiceType DEF Inv, Request
    <3>2. CASE Unmapped(req)
      <4>1. /\ last'.outcome = "unmapped" /\ last'.req = req /\ loaded' = loaded
            /\ loaded # Nil
        BY <2>1, <3>2 DEF Unmapped, Serve
      <4>2. NormalHost(req.host) \notin Hosts(loaded)
        BY <1>2, <3>2, <4>1, RoutesHosts DEF Unmapped, Mapped
      <4>3. ASSUME NEW hub \in ToSet(loaded.hubs), SameHost(hub.domain, req.host),
                   BareAddress(hub.domain) <=> BareAddress(req.host)
            PROVE  FALSE
        <5>1. NormalHost(hub.domain) # NormalHost(req.host)
          BY <4>2 DEF Hosts
        <5>2. hub.domain \in Names
          BY <1>2, <4>1, LoadedHubs
        <5> QED
          BY <3>1, <4>3, <5>1, <5>2, NormalNamed DEF SameHost
      <4>4. ~Served'
        BY <4>1 DEF Served
      <4>5. \A hub \in ToSet(loaded.hubs) :
              \/ ~SameHost(hub.domain, req.host)
              \/ ~(BareAddress(hub.domain) <=> BareAddress(req.host))
        BY <4>3
      <4>6. \A hub \in ToSet(loaded'.hubs) :
              \/ ~SameHost(hub.domain, last'.req.host)
              \/ BareAddress(hub.domain) # BareAddress(last'.req.host)
        BY <4>1, <4>5
      <4> QED
        BY <4>4, <4>6 DEF RoutedRight
    <3>3. CASE Mapped(req) /\ Handle(Route(req), req)
      <4>1. /\ last'.req = req /\ last'.route = Route(req) /\ last'.outcome # "unmapped"
        BY <3>3 DEF Handle, Hit, Miss, Drop, Fetch, Outcome
      <4>2. /\ Route(req).hub \in HubsOf(site)
            /\ NormalHost(Route(req).hub.domain) = NormalHost(req.host)
        BY <1>2, <3>3, RoutesRunning DEF Mapped, Route
      <4>3. Route(req).hub.domain \in Names
        BY <3>1, <4>2, HubsTyped
      <4>4. WellFormed(req.host) /\ WellFormed(Route(req).hub.domain)
              => SameHost(req.host, Route(req).hub.domain)
        BY <3>1, <4>2, <4>3, NormalNamed DEF SameHost
      <4> QED
        BY <4>1, <4>4 DEF RoutedRight
    <3>4. CASE Diagnose(req)
      BY <3>4 DEF Diagnose, RoutedRight, Served
    <3> QED
      BY <2>1, <3>2, <3>3, <3>4 DEF Serve
  <2>2. CASE UNCHANGED vars
    BY <1>2, <2>2 DEF vars, RoutedRight, Served
  <2> QED
    BY <1>2, <2>1, <2>2 DEF Next, Edit, Check, Start, StartRefused, StartFails, Stop, Tick,
                      Change, Happened, RoutedRight, Served
<1> QED
  BY Invariance, <1>1, <1>2, PTL DEF Spec

(* Two hubs of a file that is not registered have one host, or one has     *)
(* none.                                                                   *)
LEMMA Unregistered ==
  ASSUME NEW f \in FileConfig, ~Registers(Loaded(f)), Valid(Loaded(f))
  PROVE  Unroutable(f.hubs)
<1> DEFINE hosts == [i \in 1..Len(f.hubs) |-> NormalHost(f.hubs[i].domain)]
<1>1. /\ Len(f.hubs) \in Nat /\ DOMAIN f.hubs = 1..Len(f.hubs)
      /\ \A i \in 1..Len(f.hubs) : f.hubs[i].domain \in Names
      /\ \A i \in 1..Len(f.hubs) : f.hubs[i] \in HubConfig
  <2>1. f.hubs \in Seq(HubConfig)
    BY DEF FileConfig
  <2>2. \A i \in 1..Len(f.hubs) : f.hubs[i] \in HubConfig
    BY <2>1
  <2> QED
    BY <2>1, <2>2 DEF HubConfig
<1>2. Loaded(f).hubs = [i \in 1..Len(f.hubs) |-> Normalized(f.hubs[i])]
  BY <1>1 DEF Loaded, FileConfig
<1>3. \A i \in 1..Len(f.hubs) : Normalized(f.hubs[i]).domain = f.hubs[i].domain
  BY <1>1 DEF Normalized, HubConfig
<1>4. Len(Loaded(f).hubs) = Len(f.hubs)
  BY <1>1, <1>2
<1>5. Hosts(Loaded(f)) = {hosts[i] : i \in 1..Len(f.hubs)}
  <2>1. ToSet(Loaded(f).hubs) = {Normalized(f.hubs[i]) : i \in 1..Len(f.hubs)}
    BY <1>2 DEF ToSet
  <2>2. \A i \in 1..Len(f.hubs) : hosts[i] = NormalHost(Normalized(f.hubs[i]).domain)
    BY <1>3
  <2> HIDE DEF hosts
  <2> QED
    BY <2>1, <2>2 DEF Hosts
<1>6. CASE <<>> \in Hosts(Loaded(f))
  <2>1. PICK i \in 1..Len(f.hubs) : NormalHost(f.hubs[i].domain) = <<>>
    BY <1>5, <1>6
  <2>2. WellFormed(f.hubs[i].domain) => Named(f.hubs[i].domain) = <<>>
    BY <1>1, <2>1, NormalNamed
  <2> QED
    BY <1>1, <2>2 DEF Unroutable
<1>7. CASE Cardinality(Hosts(Loaded(f))) # Len(f.hubs)
  <2>1. PICK i, j \in 1..Len(f.hubs) : i # j /\ hosts[i] = hosts[j]
    <3>1. SUFFICES ASSUME \A i, j \in 1..Len(f.hubs) : hosts[i] = hosts[j] => i = j
                   PROVE  Cardinality(Hosts(Loaded(f))) = Len(f.hubs)
      BY <1>7
    <3> HIDE DEF hosts
    <3>2. hosts \in Bijection(1..Len(f.hubs), Hosts(Loaded(f)))
      <4>1. DOMAIN hosts = 1..Len(f.hubs) /\ hosts \in [1..Len(f.hubs) -> Hosts(Loaded(f))]
        BY <1>5 DEF hosts
      <4> QED
        BY <1>5, <3>1, <4>1 DEF Bijection, Injection, Surjection, IsInjective
    <3>3. IsFiniteSet(1..Len(f.hubs)) /\ Cardinality(1..Len(f.hubs)) = Len(f.hubs)
      BY <1>1, FS_Interval
    <3> QED
      BY <3>2, <3>3, FS_Bijection DEF ExistsBijection
  <2>2. NormalHost(f.hubs[i].domain) = NormalHost(f.hubs[j].domain)
    BY <2>1
  <2>3. \/ ~WellFormed(f.hubs[i].domain) \/ ~WellFormed(f.hubs[j].domain)
        \/ SameHost(f.hubs[i].domain, f.hubs[j].domain)
    BY <1>1, <2>2, NormalNamed DEF SameHost
  <2> QED
    BY <1>1, <2>1, <2>3 DEF Unroutable
<1> QED
  BY <1>4, <1>6, <1>7 DEF Registers

(* A file that is accepted starts unless its hosts cannot be told apart,   *)
(* and one that is rejected never does, for every file (--check-config,    *)
(* run, NewHubRegistry).                                                   *)
THEOREM Accepted == Spec => CheckedStarts
<1> DEFINE Step == /\ (last.outcome = "accepted" /\ last'.outcome = "refused")
                        => Unroutable(file.hubs)
                   /\ last.outcome = "rejected" => last'.outcome \notin {"started", "aborted"}
<1>1. ASSUME Inv, Next PROVE Step
  <2>1. file \in FileConfig
    BY <1>1, ServiceType DEF Inv
  <2>2. CASE Start \/ StartFails
    BY <1>1, <2>2 DEF Start, StartFails, Happened, Starts, Inv, Verdict, Accepts
  <2>3. CASE StartRefused
    <3>1. last'.outcome = "refused" /\ ~Starts(Loaded(file))
      BY <2>3 DEF StartRefused, Happened
    <3>2. last.outcome = "accepted" => Unroutable(file.hubs)
      BY <1>1, <2>1, <3>1, Unregistered DEF Inv, Verdict, Accepts, Starts
    <3> QED
      BY <3>1, <3>2
  <2>4. ASSUME NEW req, Serve(req) PROVE Step
    BY <2>4 DEF Serve, Diagnose, Unmapped, Handle, Hit, Miss, Drop, Fetch, Outcome
  <2> QED
    BY <1>1, <2>2, <2>3, <2>4 DEF Next, Edit, Check, Stop, Tick, Change, Happened
<1>2. Inv /\ [Next]_vars => [Step]_vars
  BY <1>1
<1> QED
  BY Invariance, <1>2, PTL DEF Spec, CheckedStarts

-----------------------------------------------------------------------------
(* A locator of a path without a "__qs" segment tells what the path and    *)
(* the query were.                                                         *)
Plain(loc) == \A i \in 1..Len(loc) : loc[i] # "__qs"

LEMMA SuffixIs ==
  ASSUME NEW q \in Tokens
  PROVE  /\ Suffix(q) \in Names
         /\ q = NoQuery => Suffix(q) = <<>> /\ Len(Suffix(q)) = 0
         /\ q # NoQuery => Len(Suffix(q)) = 2 /\ Suffix(q)[1] = "__qs" /\ Suffix(q)[2] = q
<1>1. "__qs" \in Tokens
  BY ServiceType DEF Added
<1>2. <<>> \in Names /\ <<"__qs", q>> \in Names
  BY <1>1, Pair DEF Names
<1> QED
  BY <1>2 DEF Suffix

LEMMA Joined ==
  ASSUME NEW a \in Names, NEW b \in Names
  PROVE  /\ a \o b \in Names /\ Len(a) \in Nat /\ Len(b) \in Nat
         /\ Len(a \o b) = Len(a) + Len(b)
         /\ \A i \in 1..Len(a) : (a \o b)[i] = a[i]
         /\ \A i \in 1..Len(b) : (a \o b)[Len(a) + i] = b[i]
<1>1. ASSUME NEW i \in 1..Len(b) PROVE (a \o b)[Len(a) + i] = b[i]
  BY DEF Names
<1> QED
  BY <1>1 DEF Names

LEMMA Same ==
  ASSUME NEW a \in Names, NEW b \in Names, Len(a) = Len(b),
         \A i \in 1..Len(a) : a[i] = b[i]
  PROVE  a = b
BY DEF Names

LEMMA Cancelled ==
  ASSUME NEW a \in Names, NEW b \in Names, NEW c \in Names, a \o b = a \o c
  PROVE  b = c
<1>1. Len(b) = Len(c)
  BY DEF Names
<1>2. \A i \in 1..Len(b) : (a \o b)[Len(a) + i] = b[i]
  BY Joined
<1>3. \A i \in 1..Len(c) : (a \o b)[Len(a) + i] = c[i]
  <2>1. \A i \in 1..Len(c) : (a \o c)[Len(a) + i] = c[i]
    BY Joined
  <2> QED
    BY <2>1
<1>4. \A i \in 1..Len(b) : b[i] = c[i]
  BY <1>1, <1>2, <1>3
<1> QED
  BY <1>1, <1>4, Same

(* What it is to be a path and a query, put together.                      *)
PutTogether(loc, a, q) ==
  /\ a \in Names /\ Len(a) \in Nat
  /\ Len(loc) = Len(a) + IF q = NoQuery THEN 0 ELSE 2
  /\ \A i \in 1..Len(a) : loc[i] = a[i] /\ a[i] # "__qs"
  /\ q # NoQuery => loc[Len(a) + 1] = "__qs" /\ loc[Len(a) + 2] = q

LEMMA Together ==
  ASSUME NEW a \in Names, Plain(a), NEW q \in Tokens
  PROVE  PutTogether(a \o Suffix(q), a, q)
<1> DEFINE loc == a \o Suffix(q)
<1>1. Suffix(q) \in Names
  BY SuffixIs
<1>2. /\ Len(a) \in Nat /\ Len(loc) = Len(a) + Len(Suffix(q))
      /\ \A i \in 1..Len(a) : loc[i] = a[i]
      /\ \A i \in 1..Len(Suffix(q)) : loc[Len(a) + i] = Suffix(q)[i]
  BY <1>1, Joined
<1>3. /\ q = NoQuery => Len(Suffix(q)) = 0
      /\ q # NoQuery => Len(Suffix(q)) = 2 /\ Suffix(q)[1] = "__qs" /\ Suffix(q)[2] = q
  BY SuffixIs
<1> HIDE DEF loc
<1>4. ASSUME q # NoQuery PROVE loc[Len(a) + 1] = "__qs" /\ loc[Len(a) + 2] = q
  <2>1. 1 \in 1..Len(Suffix(q)) /\ 2 \in 1..Len(Suffix(q))
    BY ONLY <1>3, <1>4
  <2>2. loc[Len(a) + 1] = Suffix(q)[1] /\ loc[Len(a) + 2] = Suffix(q)[2]
    BY ONLY <1>2, <2>1
  <2> QED
    BY ONLY <1>3, <1>4, <2>2
<1>5. Len(loc) = Len(a) + IF q = NoQuery THEN 0 ELSE 2
  BY <1>2, <1>3
<1>6. \A i \in 1..Len(a) : loc[i] = a[i] /\ a[i] # "__qs"
  BY <1>2 DEF Plain
<1>8. a \in Names /\ Len(a) \in Nat
  BY <1>2
<1>7. PutTogether(loc, a, q)
  BY ONLY <1>4, <1>5, <1>6, <1>8 DEF PutTogether
<1> QED
  BY <1>7 DEF loc

LEMMA TakenApart ==
  ASSUME NEW loc, NEW a, NEW q, PutTogether(loc, a, q), NEW b, NEW r, PutTogether(loc, b, r)
  PROVE  a = b /\ q = r
<1>1. Len(a) \in Nat /\ Len(b) \in Nat
  BY DEF PutTogether
<1>2. Len(a) = Len(b)
  <2>1. ASSUME q = NoQuery, r # NoQuery PROVE FALSE
    <3>1. Len(a) = Len(b) + 2
      BY <1>1, <2>1 DEF PutTogether
    <3>2. Len(b) + 1 \in 1..Len(a)
      BY <1>1, <3>1
    <3> QED
      BY <2>1, <3>2 DEF PutTogether
  <2>2. ASSUME q # NoQuery, r = NoQuery PROVE FALSE
    <3>1. Len(b) = Len(a) + 2
      BY <1>1, <2>2 DEF PutTogether
    <3>2. Len(a) + 1 \in 1..Len(b)
      BY <1>1, <3>1
    <3> QED
      BY <2>2, <3>2 DEF PutTogether
  <2> QED
    BY <1>1, <2>1, <2>2 DEF PutTogether
<1>3. a = b
  BY <1>2, Same DEF PutTogether
<1>4. q = r
  BY <1>1, <1>2 DEF PutTogether
<1> QED
  BY <1>3, <1>4

LEMMA Cut ==
  ASSUME NEW a \in Names, Plain(a), NEW b \in Names, Plain(b),
         NEW q \in Tokens, NEW r \in Tokens, a \o Suffix(q) = b \o Suffix(r)
  PROVE  a = b /\ q = r
<1>1. PutTogether(a \o Suffix(q), a, q)
  BY Together
<1>2. PutTogether(b \o Suffix(r), b, r)
  BY Together
<1>3. PutTogether(a \o Suffix(q), b, r)
  BY <1>2
<1> QED
  BY <1>1, <1>3, TakenApart

(* rewriteNPMLocator keeps apart what was apart.                           *)
LEMMA CoreIs ==
  ASSUME NEW a \in Names, Plain(a), NEW q \in Tokens
  PROVE  /\ Core(a \o Suffix(q)) = a
         /\ SubSeq(a \o Suffix(q), Len(a) + 1, Len(a \o Suffix(q))) = Suffix(q)
<1> DEFINE loc == a \o Suffix(q)
<1>1. /\ Suffix(q) \in Names /\ loc \in Names /\ Len(loc) = Len(a) + Len(Suffix(q))
      /\ Len(a) \in Nat
      /\ \A i \in 1..Len(a) : loc[i] = a[i]
      /\ \A i \in 1..Len(Suffix(q)) : loc[Len(a) + i] = Suffix(q)[i]
  BY SuffixIs, Joined
<1>2. CASE q = NoQuery
  <2>1. loc = a /\ Suffix(q) = <<>>
    BY <1>2, SuffixIs DEF Names
  <2>2. QueryPlaces(a) = {}
    BY DEF QueryPlaces, Plain, Names
  <2>3. Core(a) = a
    BY <2>2 DEF Core
  <2>4. SubSeq(a, Len(a) + 1, Len(a)) = <<>>
    BY DEF Names
  <2> QED
    BY <2>1, <2>3, <2>4
<1>3. CASE q # NoQuery
  <2>1. Len(loc) = Len(a) + 2 /\ loc[Len(a) + 1] = "__qs" /\ Len(Suffix(q)) = 2
    BY <1>1, <1>3, SuffixIs
  <2>2. QueryPlaces(loc) = {Len(a) + 1}
    <3> HIDE DEF loc
    <3>1. Len(a) + 1 \in QueryPlaces(loc)
      BY <1>1, <2>1 DEF QueryPlaces
    <3>2. ASSUME NEW i \in QueryPlaces(loc) PROVE i = Len(a) + 1
      <4>1. i \in 1..(Len(a) + 1) /\ loc[i] = "__qs"
        BY <1>1, <2>1 DEF QueryPlaces
      <4>2. i \notin 1..Len(a)
        BY <1>1, <4>1 DEF Plain
      <4> QED
        BY <1>1, <4>1, <4>2
    <3> QED
      BY <3>1, <3>2
  <2>3. Min(QueryPlaces(loc)) = Len(a) + 1
    <3> HIDE DEF loc
    <3>1. QueryPlaces(loc) \subseteq Nat
      BY DEF QueryPlaces
    <3> QED
      BY <2>2, <3>1, Least
  <2>4. Core(loc) = SubSeq(loc, 1, Len(a))
    <3> HIDE DEF loc
    <3>1. Core(loc) = SubSeq(loc, 1, Min(QueryPlaces(loc)) - 1)
      BY <2>2 DEF Core
    <3>2. Min(QueryPlaces(loc)) - 1 = Len(a)
      BY <1>1, <2>3
    <3> QED
      BY <3>1, <3>2
  <2>5. SubSeq(loc, 1, Len(a)) = a
    <3> HIDE DEF loc
    <3> QED
      BY <1>1, <2>1 DEF Names
  <2>6. SubSeq(loc, Len(a) + 1, Len(loc)) = Suffix(q)
    <3> HIDE DEF loc
    <3> QED
      BY <1>1, <2>1 DEF Names
  <2> QED
    BY <2>4, <2>5, <2>6
<1> QED
  BY <1>2, <1>3

LEMMA NpmApart ==
  ASSUME NEW a \in Names, Plain(a), a # <<>> => Last(a) # "-", NEW q \in Tokens,
         NEW b \in Names, Plain(b), b # <<>> => Last(b) # "-", NEW r \in Tokens,
         Npm(a \o Suffix(q)) = Npm(b \o Suffix(r))
  PROVE  a = b /\ q = r
<1> DEFINE Home(c) == IF Below(c, "-") THEN c ELSE Append(c, "package.json")
<1>1. ASSUME NEW c \in Names, Plain(c), NEW p \in Tokens
      PROVE  /\ Npm(c \o Suffix(p)) = Home(c) \o Suffix(p)
             /\ Home(c) \in Names /\ Plain(Home(c))
  <2>1. Npm(c \o Suffix(p)) = Home(c) \o Suffix(p)
    BY <1>1, CoreIs DEF Npm
  <2>2. "package.json" \in Tokens
    BY ServiceType DEF Added
  <2>3. Append(c, "package.json") \in Names /\ Plain(Append(c, "package.json"))
    BY <1>1, <2>2 DEF Names, Plain
  <2> QED
    BY <1>1, <2>1, <2>3
<1>2. Home(a) = Home(b) /\ q = r
  <2> HIDE DEF Home
  <2>1. ASSUME NEW c \in Names, Plain(c), NEW p \in Tokens
        PROVE  PutTogether(Npm(c \o Suffix(p)), Home(c), p)
    <3>1. /\ Npm(c \o Suffix(p)) = Home(c) \o Suffix(p)
          /\ Home(c) \in Names /\ Plain(Home(c))
      BY <1>1, <2>1
    <3>2. PutTogether(Home(c) \o Suffix(p), Home(c), p)
      BY <3>1, Together
    <3> QED
      BY <3>1, <3>2
  <2>2. PutTogether(Npm(a \o Suffix(q)), Home(a), q)
    BY <2>1
  <2>3. PutTogether(Npm(b \o Suffix(r)), Home(b), r)
    BY <2>1
  <2>4. PutTogether(Npm(a \o Suffix(q)), Home(b), r)
    BY <2>3
  <2> QED
    BY ONLY <2>2, <2>4, TakenApart
<1>3. ASSUME NEW c \in Names, NEW d \in Names, Below(c, "-"), ~Below(d, "-"),
             c = Append(d, "package.json"), d # <<>> => Last(d) # "-"
      PROVE  FALSE
  <2>1. PICK i \in 1..(Len(c) - 1) : c[i] = "-"
    BY <1>3 DEF Below
  <2>2. Len(c) - 1 = Len(d) /\ Len(d) \in Nat
    BY <1>3 DEF Names
  <2>3. i \in 1..Len(d) /\ d[i] = "-"
    BY <1>3, <2>1, <2>2 DEF Names
  <2>4. i = Len(d)
    BY <1>3, <2>2, <2>3 DEF Below
  <2> QED
    BY <1>3, <2>2, <2>3, <2>4 DEF Last
<1>4. Append(a, "package.json") = Append(b, "package.json") => a = b
  BY DEF Names
<1> QED
  BY <1>2, <1>3, <1>4

LEMMA NotOdd ==
  ASSUME NEW hub, NEW req \in Request, ~Odd(hub, Url(hub, req))
  PROVE  LET path == Normal(hub, req.path)
         IN  Plain(path) /\ (hub.type = "npm" /\ path # <<>> => Last(path) # "-")
<1> DEFINE path == Normal(hub, req.path)
           url == Url(hub, req)
<1>1. path \in Names
  BY LocatorNamed
<1> HIDE DEF path
<1>2. CASE ~NamesOrigin(hub, path)
  <2>1. url.path = path
    BY <1>2 DEF Url, path
  <2>2. "__qs" \notin ToSet(path)
    BY <2>1 DEF Odd
  <2>3. Plain(path)
    BY <1>1, <2>2 DEF Plain, ToSet, Names
  <2>4. hub.type = "npm" /\ path # <<>> => Last(path) # "-"
    BY <2>1 DEF Odd
  <2> QED
    BY <2>3, <2>4 DEF path
<1>3. CASE NamesOrigin(hub, path)
  <2>1. url.origin = SubSeq(path, 2, 3) /\ url.path = SubSeq(path, 4, Len(path))
    BY <1>3 DEF Url, path
  <2>2. "__qs" \notin ToSet(SubSeq(path, 2, 3)) /\ "__qs" \notin ToSet(SubSeq(path, 4, Len(path)))
    BY <2>1 DEF Odd
  <2>3. Len(path) > 3 /\ path[1] # "__qs" /\ hub.type # "npm" /\ Len(path) \in Nat
    BY <1>1, <1>3 DEF NamesOrigin, Names
  <2>4. ASSUME NEW i \in 2..3 PROVE path[i] # "__qs"
    <3>1. /\ i - 1 \in DOMAIN SubSeq(path, 2, 3)
          /\ SubSeq(path, 2, 3)[i - 1] = path[i]
      BY <1>1, <2>3 DEF Names
    <3> QED
      BY <2>2, <3>1 DEF ToSet
  <2>5. ASSUME NEW i \in 4..Len(path) PROVE path[i] # "__qs"
    <3>1. /\ i - 3 \in DOMAIN SubSeq(path, 4, Len(path))
          /\ SubSeq(path, 4, Len(path))[i - 3] = path[i]
      BY <1>1, <2>3 DEF Names
    <3> QED
      BY <2>2, <3>1 DEF ToSet
  <2>6. Plain(path)
    BY <2>3, <2>4, <2>5 DEF Plain
  <2> QED
    BY <2>3, <2>6 DEF path
<1> QED
  BY <1>2, <1>3

(* Requests have one entry only if path and query are the same, but for    *)
(* the root.                                                               *)
LEMMA EntriesApart ==
  ASSUME NEW hub, hub.name \in Names, NEW a \in Request, NEW b \in Request,
         ~Odd(hub, Url(hub, a)), ~Odd(hub, Url(hub, b)),
         EntryPath(hub, a) = EntryPath(hub, b)
  PROVE  \/ Normal(hub, a.path) = Normal(hub, b.path) /\ KeyQuery(hub, a) = KeyQuery(hub, b)
         \/ /\ {Normal(hub, a.path), Normal(hub, b.path)} = {<<>>, <<"root">>}
            /\ KeyQuery(hub, a) = NoQuery /\ KeyQuery(hub, b) = NoQuery
<1> DEFINE path(r) == Normal(hub, r.path)
           key(r) == KeyQuery(hub, r)
           whole(r) == path(r) \o Suffix(key(r))
<1>1. ASSUME NEW r \in {a, b}
      PROVE  /\ path(r) \in Names /\ Plain(path(r)) /\ key(r) \in Tokens
             /\ hub.type = "npm" /\ path(r) # <<>> => Last(path(r)) # "-"
             /\ Locator(hub, r) \in Names
             /\ PutTogether(whole(r), path(r), key(r))
             /\ Locator(hub, r) = IF hub.type = "npm" THEN Npm(whole(r)) ELSE whole(r)
             /\ EntryPath(hub, r) = hub.name \o (IF Locator(hub, r) = <<>>
                                                 THEN <<"root">> ELSE Locator(hub, r))
  <2>1. r \in Request
    OBVIOUS
  <2>2. path(r) \in Names /\ Locator(hub, r) \in Names
    BY <2>1, LocatorNamed
  <2>3. Plain(path(r)) /\ (hub.type = "npm" /\ path(r) # <<>> => Last(path(r)) # "-")
    BY <2>1, NotOdd
  <2>4. key(r) \in Tokens
    BY ServiceType DEF KeyQuery, Request, Added
  <2>5. PutTogether(whole(r), path(r), key(r))
    BY <2>2, <2>3, <2>4, Together
  <2> QED
    BY <2>2, <2>3, <2>4, <2>5 DEF Locator, Rewritten, EntryPath
<1> HIDE DEF path, key, whole
<1>2. (IF Locator(hub, a) = <<>> THEN <<"root">> ELSE Locator(hub, a))
      = (IF Locator(hub, b) = <<>> THEN <<"root">> ELSE Locator(hub, b))
  <2>1. <<"root">> \in Names
    BY ServiceType DEF Names, Added
  <2> DEFINE below(r) == IF Locator(hub, r) = <<>> THEN <<"root">> ELSE Locator(hub, r)
  <2>2. below(a) \in Names /\ below(b) \in Names
    BY <1>1, <2>1
  <2>3. hub.name \o below(a) = hub.name \o below(b)
    BY <1>1
  <2> HIDE DEF below
  <2>4. below(a) = below(b)
    BY ONLY <2>2, <2>3, Cancelled, hub.name \in Names
  <2> QED
    BY <2>4 DEF below
<1>3. CASE Locator(hub, a) = Locator(hub, b) /\ hub.type # "npm"
  <2>1. PutTogether(whole(a), path(b), key(b)) /\ PutTogether(whole(a), path(a), key(a))
    BY <1>1, <1>3
  <2>2. path(a) = path(b) /\ key(a) = key(b)
    BY <2>1, TakenApart
  <2> QED
    BY <2>2 DEF path, key
<1>4. CASE Locator(hub, a) = Locator(hub, b) /\ hub.type = "npm"
  <2>1. Npm(whole(a)) = Npm(whole(b))
    BY <1>1, <1>4
  <2>2. path(a) = path(b) /\ key(a) = key(b)
    BY <1>1, <1>4, <2>1, NpmApart DEF whole
  <2> QED
    BY <2>2 DEF path, key
<1>5. ASSUME NEW r \in {a, b}, NEW t \in {a, b},
             Locator(hub, r) = <<>>, Locator(hub, t) = <<"root">>
      PROVE  /\ path(r) = <<>> /\ path(t) = <<"root">>
             /\ key(r) = NoQuery /\ key(t) = NoQuery
  <2>1. hub.type # "npm"
    <3>1. ASSUME hub.type = "npm" PROVE FALSE
      <4>1. Npm(whole(r)) = <<>>
        BY <1>1, <1>5, <3>1
      <4>2. Npm(whole(r)) # <<>>
        <5>1. Core(whole(r)) = path(r)
              /\ SubSeq(whole(r), Len(path(r)) + 1, Len(whole(r))) = Suffix(key(r))
          BY <1>1, CoreIs DEF whole
        <5>2. Suffix(key(r)) \in Names
          BY <1>1, SuffixIs
        <5>3. "package.json" \in Tokens
          BY ServiceType DEF Added
        <5>4. Append(path(r), "package.json") \in Names /\ Len(Append(path(r), "package.json")) > 0
          BY <1>1, <5>3 DEF Names
        <5> DEFINE home == Append(path(r), "package.json")
        <5>5. home \o Suffix(key(r)) # <<>>
          <6> HIDE DEF home
          <6>1. /\ Len(home \o Suffix(key(r))) = Len(home) + Len(Suffix(key(r)))
                /\ Len(home) \in Nat /\ Len(Suffix(key(r))) \in Nat
            BY <5>2, <5>4, Joined DEF home
          <6>2. Len(home) > 0
            BY <5>4 DEF home
          <6>3. Len(<<>>) = 0
            OBVIOUS
          <6> QED
            BY ONLY <6>1, <6>2, <6>3
        <5>6. Below(path(r), "-") => Len(path(r)) > 1
          BY <1>1 DEF Below, PutTogether
        <5>7. whole(r) = <<>> => Len(path(r)) = 0
          BY <1>1 DEF PutTogether
        <5> QED
          BY <5>1, <5>5, <5>6, <5>7 DEF Npm
      <4> QED
        BY <4>1, <4>2
    <3> QED
      BY <3>1
  <2>2. whole(r) = <<>> /\ whole(t) = <<"root">>
    BY <1>1, <1>5, <2>1
  <2>3. PutTogether(<<>>, path(r), key(r)) /\ PutTogether(<<"root">>, path(t), key(t))
    BY <1>1, <2>2
  <2>4. Len(path(r)) = 0 /\ key(r) = NoQuery /\ path(r) \in Names
    BY <2>3 DEF PutTogether
  <2>5. Len(path(t)) = 1 /\ key(t) = NoQuery /\ path(t)[1] = "root" /\ path(t) \in Names
    BY <2>3 DEF PutTogether
  <2>6. path(r) = <<>>
    BY <2>4 DEF Names
  <2>7. path(t) = <<"root">>
    BY <2>5 DEF Names
  <2> QED
    BY <2>4, <2>5, <2>6, <2>7
<1>6. CASE Locator(hub, a) # Locator(hub, b)
  <2>1. \/ Locator(hub, a) = <<>> /\ Locator(hub, b) = <<"root">>
        \/ Locator(hub, b) = <<>> /\ Locator(hub, a) = <<"root">>
    BY <1>2, <1>6
  <2>2. {path(a), path(b)} = {<<>>, <<"root">>} /\ key(a) = NoQuery /\ key(b) = NoQuery
    BY <1>5, <2>1
  <2> QED
    BY <2>2 DEF path, key
<1> QED
  BY <1>3, <1>4, <1>6

LEMMA EntriesShared ==
  ASSUME NEW hub, hub.name \in Names, NEW a \in Request, NEW b \in Request,
         EntryPath(hub, a) = EntryPath(hub, b)
  PROVE  Share(hub, Answer(hub, a), Answer(hub, b))
<1>1. \A r : Answer(hub, r).url = Url(hub, r) /\ Answer(hub, r).links = Links(hub, r)
  BY DEF Answer
<1>2. SUFFICES ASSUME ~Odd(hub, Url(hub, a)), ~Odd(hub, Url(hub, b))
               PROVE  Share(hub, Answer(hub, a), Answer(hub, b))
  BY <1>1 DEF Share
<1>3. \A r : Url(hub, r).query = r.query
  BY DEF Url
<1>4. CASE Normal(hub, a.path) = Normal(hub, b.path) /\ KeyQuery(hub, a) = KeyQuery(hub, b)
  <2>1. CASE a.query = b.query
    <3>1. Url(hub, a) = Url(hub, b)
      BY <1>4, <2>1 DEF Url
    <3>2. CASE hub.type = "pypi"
      BY <1>1, <3>1, <3>2 DEF Share
    <3>3. CASE hub.type = "composer"
      <4>1. a.path = b.path
        BY <1>4, <3>3 DEF Normal
      <4>2. Links(hub, a) = Links(hub, b)
        BY <4>1 DEF Links
      <4> QED
        BY <1>1, <3>1, <4>2 DEF Share
    <3>4. CASE hub.type \notin {"pypi", "composer"}
      <4>1. Links(hub, a) = Links(hub, b)
        BY <3>4 DEF Links
      <4> QED
        BY <1>1, <3>1, <4>1 DEF Share
    <3> QED
      BY <3>2, <3>3, <3>4
  <2>2. CASE a.query # b.query
    <3>1. hub.type = "composer" /\ (\/ StartsWith(a.path, {"dist", "dists"})
                                   \/ StartsWith(b.path, {"dist", "dists"}))
      BY <1>4, <2>2 DEF KeyQuery
    <3>2. a.path = b.path
      BY <1>4, <3>1 DEF Normal
    <3>3. Links(hub, a) = Raw
      BY <3>1, <3>2 DEF Links, Composer
    <3>4. [Url(hub, a) EXCEPT !.query = Url(hub, b).query] = Url(hub, b)
      <4>1. \E origin, path :
              /\ Url(hub, a) = [origin |-> origin, path |-> path, query |-> a.query]
              /\ Url(hub, b) = [origin |-> origin, path |-> path, query |-> b.query]
        BY <1>4 DEF Url
      <4> QED
        BY <4>1
    <3> QED
      BY <1>1, <3>1, <3>3, <3>4 DEF Share
  <2> QED
    BY <2>1, <2>2
<1>5. CASE /\ {Normal(hub, a.path), Normal(hub, b.path)} = {<<>>, <<"root">>}
           /\ KeyQuery(hub, a) = NoQuery /\ KeyQuery(hub, b) = NoQuery
  <2>1. ASSUME NEW r \in {a, b}
        PROVE  Url(hub, r).path = Normal(hub, r.path) /\ Url(hub, r).query = NoQuery
    <3>1. Normal(hub, r.path) \in {<<>>, <<"root">>} /\ KeyQuery(hub, r) = NoQuery
      BY <1>5
    <3>2. Len(Normal(hub, r.path)) <= 1
      <4>1. Len(<<>>) <= 1 /\ Len(<<"root">>) <= 1
        OBVIOUS
      <4> QED
        BY ONLY <3>1, <4>1
    <3>3. Url(hub, r).path = Normal(hub, r.path)
      BY <3>2 DEF Url, NamesOrigin
    <3>4. ~(hub.type = "composer" /\ StartsWith(r.path, {"dist", "dists"}))
      BY <3>2 DEF Normal, StartsWith
    <3> QED
      BY <1>3, <3>1, <3>3, <3>4 DEF KeyQuery
  <2> QED
    BY <1>1, <1>5, <2>1 DEF Share
<1> QED
  BY <1>2, <1>4, <1>5, EntriesApart

(* Who is served from the cache is served an answer of the URL he asks     *)
(* for, with the links of his hub, in every deployment, but for the        *)
(* answers that Share lists; which method and headers it answered is not   *)
(* kept apart (buildLocator, rewriteNPMLocator, entryPath).                *)
THEOREM Resources == Spec => []OwnResource
<1>1. Init => OwnResource
  BY DEF Init, OwnResource
<1>2. ASSUME Inv, OwnResource, [Next]_vars PROVE OwnResource'
  <2>1. CASE last'.outcome = "hit" /\ last' # last /\ last'.entry.hub = last'.route.hub
    <3> DEFINE hub == last'.route.hub
    <3>1. /\ hub \in HubsOf(site) /\ last'.req \in site.requests
          /\ StoredIn(site, EntryPath(hub, last'.req), last'.entry)
      BY <1>2, <2>1, HitServes
    <3>2. site \in Sites /\ site.requests \subseteq Request
      BY <1>2, ServiceType DEF Inv
    <3>3. PICK stored \in site.requests : /\ EntryPath(hub, stored) = EntryPath(hub, last'.req)
                                         /\ last'.entry.answer = Answer(hub, stored)
      BY <2>1, <3>1 DEF StoredIn
    <3>4. hub.name \in Names
      BY <3>1, <3>2, HubsTyped
    <3>5. Share(hub, Answer(hub, stored), Answer(hub, last'.req))
      BY <3>1, <3>2, <3>3, <3>4, EntriesShared
    <3> QED
      BY <3>3, <3>5 DEF OwnResource
  <2>2. CASE \/ last'.outcome # "hit" \/ last' = last
             \/ last'.entry.hub # last'.route.hub
    BY <1>2, <2>2 DEF OwnResource
  <2> QED
    BY <2>1, <2>2
<1> QED
  BY Invariance, <1>1, <1>2, PTL DEF Spec

-----------------------------------------------------------------------------
(* Of two files of an npm hub one can be below the other only if they are  *)
(* a path without a query and the same path with one.                      *)
NpmHome(path) == IF Below(path, "-") THEN path ELSE Append(path, "package.json")
NpmPath(path) == \A i \in 1..Len(path) : path[i] \notin {"__qs", "package.json"}

LEMMA HomeIs ==
  ASSUME NEW a \in Names, NpmPath(a), NEW q \in Tokens
  PROVE  /\ NpmHome(a) \in Names /\ Len(a) \in Nat
         /\ Len(NpmHome(a)) = IF Below(a, "-") THEN Len(a) ELSE Len(a) + 1
         /\ \A i \in 1..Len(a) : NpmHome(a)[i] = a[i]
         /\ ~Below(a, "-") => NpmHome(a)[Len(a) + 1] = "package.json"
         /\ PutTogether(Npm(a \o Suffix(q)), NpmHome(a), q)
<1>1. Plain(a)
  BY DEF NpmPath, Plain
<1>2. "package.json" \in Tokens
  BY ServiceType DEF Added
<1>3. /\ Append(a, "package.json") \in Names /\ Len(Append(a, "package.json")) = Len(a) + 1
      /\ \A i \in 1..Len(a) : Append(a, "package.json")[i] = a[i]
      /\ Append(a, "package.json")[Len(a) + 1] = "package.json" /\ Len(a) \in Nat
  BY <1>2 DEF Names
<1>4. Npm(a \o Suffix(q)) = NpmHome(a) \o Suffix(q)
  BY <1>1, CoreIs DEF Npm, NpmHome
<1>5. Plain(NpmHome(a))
  <2>1. Plain(Append(a, "package.json"))
    <3> DEFINE g == Append(a, "package.json")
    <3>1. /\ Len(g) = Len(a) + 1 /\ Len(a) \in Nat /\ g[Len(a) + 1] = "package.json"
          /\ \A i \in 1..Len(a) : g[i] = a[i]
      BY <1>3
    <3> HIDE DEF g
    <3>2. ASSUME NEW i \in 1..Len(g) PROVE g[i] # "__qs"
      BY <1>1, <3>1 DEF Plain
    <3> QED
      BY <3>2 DEF Plain, g
  <2> QED
    BY <1>1, <2>1 DEF NpmHome
<1>6. NpmHome(a) \in Names
  BY <1>3 DEF NpmHome
<1>7. PutTogether(NpmHome(a) \o Suffix(q), NpmHome(a), q)
  BY <1>5, <1>6, Together
<1> QED
  BY <1>3, <1>4, <1>6, <1>7 DEF NpmHome

LEMMA Nested ==
  ASSUME NEW a \in Names, NpmPath(a), NEW q \in Tokens, NEW f, PutTogether(f, NpmHome(a), q),
         NEW b \in Names, NpmPath(b), NEW r \in Tokens, NEW g, PutTogether(g, NpmHome(b), r),
         Len(f) < Len(g), \A i \in 1..Len(f) : f[i] = g[i],
         Below(a, "-") => ~IsStrictPrefix(a, b)
  PROVE  a = b /\ q = NoQuery /\ r # NoQuery
<1> DEFINE m == Len(NpmHome(a))
           n == Len(NpmHome(b))
<1>1. /\ m \in Nat /\ Len(f) = m + (IF q = NoQuery THEN 0 ELSE 2)
      /\ \A i \in 1..m : f[i] = NpmHome(a)[i] /\ f[i] # "__qs"
      /\ q # NoQuery => f[m + 1] = "__qs"
  BY DEF PutTogether
<1>2. /\ n \in Nat /\ Len(g) = n + (IF r = NoQuery THEN 0 ELSE 2)
      /\ \A i \in 1..n : g[i] = NpmHome(b)[i] /\ g[i] # "__qs"
      /\ r # NoQuery => g[n + 1] = "__qs"
  BY DEF PutTogether
<1>3. /\ Len(a) \in Nat /\ m = (IF Below(a, "-") THEN Len(a) ELSE Len(a) + 1)
      /\ \A i \in 1..Len(a) : NpmHome(a)[i] = a[i]
      /\ ~Below(a, "-") => NpmHome(a)[Len(a) + 1] = "package.json"
  BY HomeIs
<1>4. /\ Len(b) \in Nat /\ n = (IF Below(b, "-") THEN Len(b) ELSE Len(b) + 1)
      /\ \A i \in 1..Len(b) : NpmHome(b)[i] = b[i]
      /\ ~Below(b, "-") => NpmHome(b)[Len(b) + 1] = "package.json"
  BY HomeIs
<1> HIDE DEF m, n
<1>5. q = NoQuery
  <2>1. SUFFICES ASSUME q # NoQuery PROVE FALSE
    OBVIOUS
  <2>2. Len(f) = m + 2 /\ f[m + 1] = "__qs" /\ m + 1 \in 1..Len(f)
    BY <1>1, <2>1
  <2>3. g[m + 1] = "__qs"
    BY <2>2
  <2>4. m >= n
    BY <1>1, <1>2, <2>3
  <2> QED
    BY <1>1, <1>2, <2>2, <2>4
<1>6. Len(f) = m
  BY <1>1, <1>5
<1>7. m >= n
  <2>1. SUFFICES ASSUME m < n PROVE FALSE
    BY <1>1, <1>2
  <2>2. \A i \in 1..m : NpmHome(a)[i] = NpmHome(b)[i]
    BY <1>1, <1>2, <1>6, <2>1
  <2>3. CASE ~Below(a, "-")
    <3>1. NpmHome(b)[m] = "package.json" /\ m \in 1..Len(b)
      BY <1>1, <1>2, <1>3, <1>4, <2>1, <2>2, <2>3
    <3> QED
      BY <1>4, <3>1 DEF NpmPath
  <2>4. CASE Below(a, "-")
    <3>1. m = Len(a) /\ Len(a) <= Len(b)
      BY <1>1, <1>2, <1>3, <1>4, <2>1, <2>4
    <3>2. \A i \in 1..Len(a) : a[i] = b[i]
      BY <1>3, <1>4, <2>2, <3>1
    <3>3. CASE Below(b, "-")
      <4>1. Len(a) < Len(b)
        BY <1>4, <2>1, <3>1, <3>3
      <4>2. a = SubSeq(b, 1, Len(a))
        BY <3>1, <3>2 DEF Names
      <4>3. IsStrictPrefix(a, b)
        BY <3>1, <4>1, <4>2 DEF IsStrictPrefix, IsPrefix
      <4> QED
        BY <2>4, <4>3
    <3>4. CASE ~Below(b, "-")
      <4>1. PICK i \in 1..(Len(a) - 1) : a[i] = "-"
        BY <2>4 DEF Below
      <4>2. i \in 1..(Len(b) - 1) /\ b[i] = "-"
        BY <1>3, <1>4, <3>1, <3>2, <4>1
      <4> QED
        BY <3>4, <4>2 DEF Below
    <3> QED
      BY <3>3, <3>4
  <2> QED
    BY <2>3, <2>4
<1>8. r # NoQuery
  BY <1>1, <1>2, <1>6, <1>7
<1>9. m = n
  <2>1. SUFFICES ASSUME m # n PROVE FALSE
    OBVIOUS
  <2>2. n + 1 \in 1..m
    BY <1>1, <1>2, <1>7, <2>1
  <2>3. f[n + 1] = "__qs"
    BY <1>2, <1>6, <1>8, <2>2
  <2> QED
    BY <1>1, <2>2, <2>3
<1>10. \A i \in 1..m : NpmHome(a)[i] = NpmHome(b)[i]
  BY <1>1, <1>2, <1>6, <1>9
<1>11. Below(a, "-") <=> Below(b, "-")
  <2>1. ASSUME Below(a, "-"), ~Below(b, "-") PROVE FALSE
    <3>1. Len(b) + 1 = Len(a) /\ NpmHome(b)[Len(a)] = "package.json"
      BY <1>3, <1>4, <1>9, <2>1
    <3>2. a[Len(a)] = "package.json" /\ Len(a) \in 1..Len(a)
      BY <1>3, <1>4, <1>10, <2>1, <3>1
    <3> QED
      BY <3>2 DEF NpmPath
  <2>2. ASSUME Below(b, "-"), ~Below(a, "-") PROVE FALSE
    <3>1. Len(a) + 1 = Len(b) /\ NpmHome(a)[Len(b)] = "package.json"
      BY <1>3, <1>4, <1>9, <2>2
    <3>2. b[Len(b)] = "package.json" /\ Len(b) \in 1..Len(b)
      BY <1>3, <1>4, <1>9, <1>10, <2>2, <3>1
    <3> QED
      BY <3>2 DEF NpmPath
  <2> QED
    BY <2>1, <2>2
<1>12. Len(a) = Len(b)
  BY <1>3, <1>4, <1>9, <1>11
<1>13. \A i \in 1..Len(a) : a[i] = b[i]
  BY <1>3, <1>4, <1>10, <1>12
<1> QED
  BY <1>5, <1>8, <1>12, <1>13, Same

LEMMA Prefixed ==
  ASSUME NEW s \in Names, NEW t \in Names, Len(s) <= Len(t), \A i \in 1..Len(s) : s[i] = t[i]
  PROVE  s = t \/ IsStrictPrefix(s, t)
<1>1. s = SubSeq(t, 1, Len(s))
  BY DEF Names
<1> QED
  BY <1>1 DEF IsStrictPrefix, IsPrefix

LEMMA NpmBelow ==
  ASSUME NEW s \in Sites, NpmTidy(s),
         NEW hub \in HubsOf(s), NEW other \in HubsOf(s), hub.type = "npm" \/ other.type = "npm",
         NEW req \in s.requests, NEW asked \in s.requests,
         EntryPath(hub, req) \in Parents(EntryPath(other, asked))
  PROVE  /\ req.path = asked.path /\ req.query = NoQuery /\ asked.query # NoQuery
         /\ \A r : EntryPath(hub, r) = EntryPath(other, r)
<1> DEFINE f == EntryPath(hub, req)
           g == EntryPath(other, asked)
<1>1. /\ req \in Request /\ asked \in Request
      /\ hub.name \in Names /\ other.name \in Names
  BY ServiceType, HubsTyped
<1>2. PICK k \in Names : k # <<>> /\ f = hub.name \o k
  BY <1>1, BelowHub
<1>3. PICK l \in Names : l # <<>> /\ g = other.name \o l
  BY <1>1, BelowHub
<1>4. /\ Len(f) \in Nat /\ Len(f) < Len(g)
      /\ \A i \in 1..Len(f) : f[i] = g[i]
  <2>1. PICK n \in 0..(Len(g) - 1) : f = SubSeq(g, 1, n)
    BY DEF Parents
  <2>2. g \in Names
    BY <1>1, EntryNamed
  <2> HIDE DEF f, g
  <2> QED
    BY <2>1, <2>2 DEF Names
<1>5. /\ Len(f) = Len(hub.name) + Len(k) /\ Len(hub.name) \in Nat /\ Len(k) \in Nat
      /\ \A i \in 1..Len(hub.name) : f[i] = hub.name[i]
      /\ \A i \in 1..Len(k) : f[Len(hub.name) + i] = k[i]
  <2> HIDE DEF f
  <2>1. /\ Len(hub.name \o k) = Len(hub.name) + Len(k) /\ Len(hub.name) \in Nat /\ Len(k) \in Nat
        /\ \A i \in 1..Len(hub.name) : (hub.name \o k)[i] = hub.name[i]
        /\ \A i \in 1..Len(k) : (hub.name \o k)[Len(hub.name) + i] = k[i]
    BY <1>1, Joined
  <2> QED
    BY <1>2, <2>1
<1>6. /\ Len(g) = Len(other.name) + Len(l) /\ Len(other.name) \in Nat /\ Len(l) \in Nat
      /\ \A i \in 1..Len(other.name) : g[i] = other.name[i]
      /\ \A i \in 1..Len(l) : g[Len(other.name) + i] = l[i]
  <2> HIDE DEF g
  <2>1. /\ Len(other.name \o l) = Len(other.name) + Len(l)
        /\ Len(other.name) \in Nat /\ Len(l) \in Nat
        /\ \A i \in 1..Len(other.name) : (other.name \o l)[i] = other.name[i]
        /\ \A i \in 1..Len(l) : (other.name \o l)[Len(other.name) + i] = l[i]
    BY <1>1, Joined
  <2> QED
    BY <1>3, <2>1
<1> HIDE DEF f, g
<1>7. hub.name = other.name
  <2>1. CASE Len(hub.name) <= Len(other.name)
    <3>1. ASSUME NEW i \in 1..Len(hub.name) PROVE hub.name[i] = other.name[i]
      <4>1. i \in 1..Len(f) /\ i \in 1..Len(other.name)
        BY <1>5, <1>6, <2>1
      <4>2. f[i] = hub.name[i]
        BY <1>5
      <4>3. g[i] = other.name[i]
        BY <1>6, <4>1
      <4> QED
        BY <1>4, <4>1, <4>2, <4>3
    <3> QED
      BY <1>1, <2>1, <3>1, Prefixed DEF NpmTidy
  <2>2. CASE Len(other.name) <= Len(hub.name)
    <3>1. ASSUME NEW i \in 1..Len(other.name) PROVE other.name[i] = hub.name[i]
      <4>1. i \in 1..Len(f) /\ i \in 1..Len(hub.name)
        BY <1>5, <1>6, <2>2
      <4>2. f[i] = hub.name[i]
        BY <1>5, <4>1
      <4>3. g[i] = other.name[i]
        BY <1>6
      <4> QED
        BY <1>4, <4>1, <4>2, <4>3
    <3> QED
      BY <1>1, <2>2, <3>1, Prefixed DEF NpmTidy
  <2> QED
    BY <1>5, <1>6, <2>1, <2>2
<1>8. hub.type = "npm" /\ other.type = "npm"
  BY <1>7 DEF NpmTidy
<1>9. \A r : EntryPath(hub, r) = EntryPath(other, r)
  BY <1>7, <1>8 DEF EntryPath, Locator, Rewritten, Normal, KeyQuery
<1>10. Len(k) < Len(l) /\ \A i \in 1..Len(k) : k[i] = l[i]
  <2>1. Len(k) < Len(l)
    BY <1>4, <1>5, <1>6, <1>7
  <2>2. ASSUME NEW i \in 1..Len(k) PROVE k[i] = l[i]
    <3>1. Len(hub.name) + i \in 1..Len(f) /\ i \in 1..Len(l)
      BY <1>5, <1>6, <2>1
    <3> QED
      BY <1>4, <1>5, <1>6, <1>7, <3>1
  <2> QED
    BY <2>1, <2>2
<1>11. ASSUME NEW any \in {hub, other}, NEW r \in {req, asked}, NEW loc \in Names, loc # <<>>,
              EntryPath(any, r) = any.name \o loc
       PROVE  /\ r.path \in Names /\ NpmPath(r.path) /\ r.query \in Tokens
              /\ PutTogether(loc, NpmHome(r.path), r.query)
  <2>1. r.path \in Names /\ r.query \in Tokens
    BY <1>1 DEF Request
  <2>2. NpmPath(r.path)
    <3>1. ToSet(r.path) \cap {"__qs", "package.json"} = {}
      BY DEF NpmTidy
    <3>2. ASSUME NEW i \in 1..Len(r.path) PROVE r.path[i] \in ToSet(r.path)
      BY <2>1, <3>2 DEF ToSet, Names
    <3> QED
      BY <3>1, <3>2 DEF NpmPath
  <2>3. PutTogether(Npm(r.path \o Suffix(r.query)), NpmHome(r.path), r.query)
    BY <2>1, <2>2, HomeIs
  <2>4. Locator(any, r) = Npm(r.path \o Suffix(r.query))
    BY <1>8 DEF Locator, Rewritten, Normal, KeyQuery
  <2>5. Npm(r.path \o Suffix(r.query)) # <<>>
    <3>1. Len(NpmHome(r.path)) > 0
      BY <2>1, <2>2, HomeIs DEF Below
    <3>2. Len(Npm(r.path \o Suffix(r.query))) > 0
      BY <2>3, <3>1 DEF PutTogether
    <3>3. Len(<<>>) = 0
      OBVIOUS
    <3> QED
      BY ONLY <3>2, <3>3
  <2>6. any.name \o Locator(any, r) = any.name \o loc
    BY <1>11, <2>4, <2>5 DEF EntryPath
  <2>7. Locator(any, r) \in Names /\ any.name \in Names
    BY <1>1, LocatorNamed
  <2>8. Locator(any, r) = loc
    BY <2>6, <2>7, Cancelled
  <2> QED
    BY <2>1, <2>2, <2>3, <2>4, <2>8
<1>12. /\ req.path \in Names /\ NpmPath(req.path) /\ req.query \in Tokens
       /\ PutTogether(k, NpmHome(req.path), req.query)
  BY <1>2, <1>11 DEF f
<1>13. /\ asked.path \in Names /\ NpmPath(asked.path) /\ asked.query \in Tokens
       /\ PutTogether(l, NpmHome(asked.path), asked.query)
  BY <1>3, <1>11 DEF g
<1>14. Below(req.path, "-") => ~IsStrictPrefix(req.path, asked.path)
  BY DEF NpmTidy
<1> QED
  BY <1>9, <1>10, <1>12, <1>13, <1>14, Nested

(* Every directory is that of something that was stored, and so are those  *)
(* beside it.                                                              *)
Grown(s, d) ==
  \A x \in d.dirs :
    \/ x = <<>>
    \/ \E hub \in HubsOf(s), req \in s.requests :
         x \in Parents(EntryPath(hub, req)) /\ Parents(EntryPath(hub, req)) \subseteq d.dirs

LEMMA NoMetaDir ==
  ASSUME NEW s \in Sites, NoneBelowMetadata(s), NEW d, Grown(s, d),
         NEW hub \in HubsOf(s), NEW req \in s.requests
  PROVE  MetaPath(EntryPath(hub, req)) \notin d.dirs
<1> DEFINE f == EntryPath(hub, req)
<1>1. f \in Names \ {<<>>}
  BY ServiceType, HubsTyped, EntryNamed
<1>2. MetaPath(f) # <<>>
  <2>1. Len(f) \in Nat \ {0}
    BY <1>1 DEF Names
  <2>2. SubSeq(f, 1, 0) \in Parents(f)
    BY <2>1 DEF Parents
  <2>3. Parents(<<>>) = {}
    BY DEF Parents
  <2> QED
    BY <1>1, <2>2, <2>3, Siblings
<1> QED
  BY <1>2 DEF Grown, NoneBelowMetadata

LEMMA GrownPut ==
  ASSUME NEW s \in Sites, NoneBelowMetadata(s), NEW d, Grown(s, d),
         NEW hub \in HubsOf(s), NEW req \in s.requests, NEW e
  PROVE  Grown(s, PutEntry(d, EntryPath(hub, req), e))
<1> DEFINE f == EntryPath(hub, req)
           put == PutEntry(d, f, e)
<1>1. MetaPath(f) \notin d.dirs
  BY NoMetaDir
<1>2. put.dirs = d.dirs \/ put.dirs = d.dirs \cup Parents(f)
  BY <1>1 DEF PutEntry
<1> HIDE DEF put, f
<1>3. Grown(s, put)
  BY <1>2 DEF Grown, f
<1> QED
  BY <1>3 DEF put, f

LEMMA GrownBroken ==
  ASSUME NEW s, NEW d, Grown(s, d), d = [files |-> d.files, dirs |-> d.dirs],
         NEW hub \in HubsOf(s), NEW req \in s.requests
  PROVE  Grown(s, BrokenPut(d, EntryPath(hub, req)))
<1> DEFINE f == EntryPath(hub, req)
           put == BrokenPut(d, f)
<1>1. put.dirs = d.dirs \cup Parents(f)
  BY DEF BrokenPut
<1> HIDE DEF put, f
<1>2. Grown(s, put)
  BY <1>1 DEF Grown, f
<1> QED
  BY <1>2 DEF put, f

LEMMA GrownStep ==
  ASSUME Inv, [Next]_vars, NoneBelowMetadata(site), Grown(site, disk)
  PROVE  Grown(site, disk')
<1>1. ASSUME disk'.dirs = disk.dirs PROVE Grown(site, disk')
  BY <1>1 DEF Grown
<1>2. ASSUME OpenStorage PROVE Grown(site, disk')
  <2>1. disk'.dirs = disk.dirs \cup {<<>>}
    BY <1>2 DEF OpenStorage, Inv, Storage
  <2> QED
    BY <2>1 DEF Grown
<1>3. ASSUME NEW req \in site.requests, Serve(req) PROVE Grown(site, disk')
  <2> DEFINE r == Route(req)
             f == EntryPath(r.hub, req)
  <2>1. CASE Mapped(req) /\ Handle(r, req) /\ disk' # disk
    <3>1. r.hub \in HubsOf(site) /\ site \in Sites
      BY <2>1, RoutesRunning DEF Mapped, Route, Inv
    <3>2. PICK d \in {disk, RemoveEntry(disk, f)} : Fetch(d, r, req, f)
      BY <2>1 DEF Handle, Hit, Miss, Drop
    <3>3. d.dirs = disk.dirs /\ d = [files |-> d.files, dirs |-> d.dirs]
      BY DEF RemoveEntry, Inv, Storage
    <3>4. Grown(site, d)
      BY <3>3 DEF Grown
    <3>5. disk' = d \/ disk' = BrokenPut(d, f) \/ \E e : disk' = PutEntry(d, f, e)
      BY <3>2 DEF Fetch
    <3> HIDE DEF r
    <3> QED
      BY <3>1, <3>3, <3>4, <3>5, GrownPut, GrownBroken
  <2>2. CASE disk' = disk
    BY <2>2
  <2> QED
    BY <1>3, <2>1, <2>2 DEF Serve
<1>4. CASE Tick \/ \E url \in site.changing : Change(url)
  <2>1. disk'.dirs = disk.dirs
    BY <1>4 DEF Tick, Change, Inv, Storage
  <2> QED
    BY <1>1, <2>1
<1> QED
  BY <1>1, <1>2, <1>3, <1>4 DEF Next, Edit, Check, Start, StartRefused, StartFails, Stop, vars

LEMMA Growing == Spec => [](NoneBelowMetadata(site) => Grown(site, disk))
<1>1. Init => Grown(site, disk)
  BY DEF Init, Grown
<1>2. ASSUME Inv, [Next]_vars, NoneBelowMetadata(site) => Grown(site, disk)
      PROVE  (NoneBelowMetadata(site) => Grown(site, disk))'
  <2>1. site' = site
    BY <1>2 DEF Next, Edit, Check, Start, StartRefused, StartFails, Stop, Tick, Change, Serve, vars
  <2> QED
    BY <1>2, <2>1, GrownStep
<1> QED
  BY Invariance, <1>1, <1>2, PTL DEF Spec

(* In an npm hub documents and tarballs live side by side, in every tidy   *)
(* deployment: only a path that was cached without a query cannot be       *)
(* stored with one, and the reverse (rewriteNPMLocator, Put).              *)
THEOREM Coexistence == Spec => [](NpmTidy(site) => NpmCoexist)
<1>1. Init => NpmCoexist
  BY DEF Init, NpmCoexist
<1>2. ASSUME Inv, [Next]_vars, NoneBelowMetadata(site) => Grown(site, disk),
             NpmTidy(site) => NpmCoexist
      PROVE  (NpmTidy(site) => NpmCoexist)'
  <2>0. site' = site
    BY <1>2 DEF Next, Edit, Check, Start, StartRefused, StartFails, Stop, Tick, Change, Serve, vars
  <2> SUFFICES ASSUME NpmTidy(site), NoneBelowMetadata(site), Grown(site, disk), NpmCoexist
               PROVE NpmCoexist'
    BY <1>2, <2>0 DEF NpmTidy
  <2>1. ASSUME NEW req \in site.requests, Serve(req),
               last'.outcome = "failed", last'.route.hub.type = "npm"
        PROVE  NpmCoexist'
    <3> DEFINE r == Route(req)
               hub == r.hub
               f == EntryPath(hub, req)
    <3>1. Mapped(req) /\ (Miss(r, req, f) \/ Drop(r, req, f))
      BY <2>1 DEF Serve, Diagnose, Unmapped, Handle, Hit
    <3>2. hub \in HubsOf(site) /\ site \in Sites
      BY <1>2, <3>1, RoutesRunning DEF Mapped, Route, Inv
    <3>3. PICK d \in {disk, RemoveEntry(disk, f)} : Fetch(d, r, req, f)
      BY <3>1 DEF Miss, Drop
    <3>4. PICK e : disk' = PutEntry(d, f, e) /\ PutFails(d, f)
                   /\ last'.route = r /\ last'.req = req
      <4> HIDE DEF r, f
      <4>1. CASE Outcome("passed", r, req) \/ Outcome("broken", r, req)
        BY <2>1, <4>1 DEF Outcome
      <4>2. CASE /\ \E e : disk' = PutEntry(d, f, e)
                 /\ Outcome(IF PutFails(d, f) THEN "failed" ELSE "stored", r, req)
        <5>1. PutFails(d, f)
          BY <2>1, <4>2 DEF Outcome
        <5> QED
          BY <4>2, <5>1 DEF Outcome
      <4> QED
        BY <3>3, <4>1, <4>2 DEF Fetch
    <3>5. d.dirs = disk.dirs /\ DOMAIN d.files \subseteq DOMAIN disk.files
      BY <1>2 DEF RemoveEntry, Restrict, Others, Inv, Storage
    <3>6. MetaPath(f) \notin disk.dirs
      <4> HIDE DEF r
      <4> QED
        BY <3>2, NoMetaDir
    <3>7. Blocked(d, f) /\ disk'.dirs = disk.dirs
      BY <3>4, <3>5, <3>6 DEF PutFails, MetaStuck, PutEntry
    <3>8. SUFFICES \E other \in site.requests :
                     /\ other.path = req.path
                     /\ (other.query = NoQuery) # (req.query = NoQuery)
                     /\ Parents(EntryPath(hub, other)) \subseteq disk.dirs
      BY <2>0, <3>4, <3>7 DEF NpmCoexist
    <3>9. hub.type = "npm"
      BY <2>1, <3>4
    <3> HIDE DEF r
    <3>10. CASE f \in disk.dirs
      <4>1. f # <<>>
        BY <3>2, ServiceType, HubsTyped, EntryNamed
      <4>2. PICK any \in HubsOf(site), other \in site.requests :
              f \in Parents(EntryPath(any, other)) /\ Parents(EntryPath(any, other)) \subseteq disk.dirs
        BY <3>10, <4>1 DEF Grown
      <4>3. /\ req.path = other.path /\ req.query = NoQuery /\ other.query # NoQuery
            /\ \A q : EntryPath(hub, q) = EntryPath(any, q)
        BY <3>2, <3>9, <4>2, NpmBelow
      <4> QED
        BY <4>2, <4>3
    <3>11. ASSUME NEW p \in Parents(f), p \in DOMAIN disk.files
           PROVE  \E other \in site.requests :
                     /\ other.path = req.path
                     /\ (other.query = NoQuery) # (req.query = NoQuery)
                     /\ Parents(EntryPath(hub, other)) \subseteq disk.dirs
      <4> DEFINE any == disk.files[p].hub
      <4>1. StoredIn(site, p, disk.files[p]) /\ Parents(p) \subseteq disk.dirs
        BY <1>2, <3>11 DEF Inv, Storage, Tree
      <4>2. PICK other \in site.requests : p = EntryPath(any, other)
        BY <4>1 DEF StoredIn
      <4>3. any \in HubsOf(site)
        BY <4>1 DEF StoredIn
      <4> HIDE DEF any
      <4>4. /\ other.path = req.path /\ other.query = NoQuery /\ req.query # NoQuery
            /\ \A q : EntryPath(any, q) = EntryPath(hub, q)
        BY <3>2, <3>9, <3>11, <4>2, <4>3, NpmBelow
      <4> QED
        BY <4>1, <4>2, <4>4
    <3> QED
      BY <3>5, <3>7, <3>10, <3>11 DEF Blocked, Entry
  <2>2. CASE last'.outcome # "failed" \/ last'.route.hub.type # "npm"
    BY <2>2 DEF NpmCoexist
  <2>3. CASE UNCHANGED vars
    BY <2>0, <2>3 DEF NpmCoexist, vars
  <2> QED
    BY <1>2, <2>1, <2>2, <2>3 DEF Next, Edit, Check, Start, StartRefused, StartFails, Stop, Tick,
                              Change, Happened
<1> QED
  BY Invariance, Growing, <1>1, <1>2, PTL DEF Spec

(* A cache write fails only in a deployment in which some entry is below   *)
(* another or below its metadata (MkdirAll, rename, writeMetadata).        *)
THEOREM Storing == Spec => [](Flat(site) => EntriesCoexist)
<1>1. Init => EntriesCoexist
  BY DEF Init, EntriesCoexist
<1>2. ASSUME Inv, [Next]_vars, NoneBelowMetadata(site) => Grown(site, disk),
             Flat(site) => EntriesCoexist
      PROVE  (Flat(site) => EntriesCoexist)'
  <2>0. site' = site
    BY <1>2 DEF Next, Edit, Check, Start, StartRefused, StartFails, Stop, Tick, Change, Serve, vars
  <2> SUFFICES ASSUME Flat(site), NoneBelowMetadata(site), Grown(site, disk), EntriesCoexist,
                      ~EntriesCoexist'
               PROVE  FALSE
    BY <1>2, <2>0 DEF Flat
  <2>1. PICK req \in site.requests : Serve(req)
    BY <1>2 DEF Next, Edit, Check, Start, StartRefused, StartFails, Stop, Tick, Change, Happened,
                EntriesCoexist, vars
  <2> DEFINE r == Route(req)
             hub == r.hub
             f == EntryPath(hub, req)
  <2>2. Mapped(req) /\ (Miss(r, req, f) \/ Drop(r, req, f))
    BY <2>1 DEF Serve, Diagnose, Unmapped, Handle, Hit, EntriesCoexist
  <2>3. hub \in HubsOf(site) /\ site \in Sites
    BY <1>2, <2>2, RoutesRunning DEF Mapped, Route, Inv
  <2>4. PICK d \in {disk, RemoveEntry(disk, f)} : Fetch(d, r, req, f)
    BY <2>2 DEF Miss, Drop
  <2>5. PutFails(d, f)
    <3> HIDE DEF r, f
    <3> QED
      BY <2>4 DEF Fetch, Outcome, EntriesCoexist
  <2>6. d.dirs = disk.dirs /\ DOMAIN d.files \subseteq DOMAIN disk.files
    BY <1>2 DEF RemoveEntry, Restrict, Others, Inv, Storage
  <2>7. MetaPath(f) \notin disk.dirs
    <3> HIDE DEF r
    <3> QED
      BY <2>3, NoMetaDir
  <2>8. Blocked(d, f)
    BY <2>5, <2>6, <2>7 DEF PutFails, MetaStuck
  <2> HIDE DEF r
  <2>9. f \notin disk.dirs
    <3>1. f # <<>>
      BY <2>3, ServiceType, HubsTyped, EntryNamed
    <3> QED
      BY <2>3, <3>1 DEF Grown, Flat
  <2>10. ASSUME NEW p \in Parents(f), p \in DOMAIN disk.files PROVE FALSE
    <3> DEFINE any == disk.files[p].hub
    <3>1. StoredIn(site, p, disk.files[p])
      BY <1>2, <2>10 DEF Inv, Storage
    <3>2. any \in HubsOf(site) /\ \E other \in site.requests : p = EntryPath(any, other)
      BY <3>1 DEF StoredIn
    <3> QED
      BY <2>3, <2>10, <3>2 DEF Flat
  <2> QED
    BY <2>6, <2>8, <2>9, <2>10 DEF Blocked, Entry
<1> QED
  BY Invariance, Growing, <1>1, <1>2, PTL DEF Spec
=============================================================================
