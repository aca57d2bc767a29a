---------------------------- MODULE ComposerHub ----------------------------
(***************************************************************************)
(* A composer hub and its clients.  A client reads the metadata of a       *)
(* package, which lists references and the URLs of their archives, and     *)
(* then asks for an archive, either by its rewritten URL (/dist/...) or by *)
(* the mirror pattern of packages.json (/dists/<package>/<ref>.<type>).    *)
(* The hub rewrites metadata on its way into the cache and learns, in      *)
(* memory only, which URL a reference stands for; a hit is served from     *)
(* disk without being rewritten again.  The store and the revalidation     *)
(* are those of ProxyHandler and FileStore: Put is one step here, and the  *)
(* verdict of isCacheFresh is left open.                                   *)
(***************************************************************************)
EXTENDS Naturals

CONSTANTS Clients,
          Refs,        \* package, reference and type: what a mirror URL names
          Paths,       \* scheme, host and path of an archive's URL
          Queries,     \* its query string
          MaxVer,      \* bound on upstream versions of the metadata
          Listed,      \* Listed[v]: function from references to URLs
          MaxRestarts, \* bound on restarts of the proxy
          MaxCuts,     \* bound on upstream bodies that end early
          Nil, Empty, NotFound, Failed

URLs == Paths \X Queries
Versions == 1..MaxVer

ASSUME BoundsType == /\ MaxVer \in Nat \ {0}
                     /\ MaxRestarts \in Nat /\ MaxCuts \in Nat
ASSUME ListedType == Listed \in [Versions -> UNION {[S -> URLs] : S \in SUBSET Refs}]

(* What a client asks for.                                                 *)
Metadata == [kind |-> "meta"]
Mirror(ref) == [kind |-> "dists", ref |-> ref]
Legacy(url) == [kind |-> "dist", url |-> url]
Jobs == {Metadata} \cup {Mirror(ref) : ref \in Refs} \cup {Legacy(u) : u \in URLs}

(* Mutant: the file name is lost, the locator is that of the package.      *)
LocatorOfPackage(job) == IF job.kind = "meta" THEN job ELSE [kind |-> "dists"]

(* The locator of a job: normalizePath drops the query of a dist path.     *)
Locator(job) == IF job.kind = "dist" THEN [kind |-> "dist", path |-> job.url[1]]
                                     ELSE job
Locators == {Locator(job) : job \in Jobs}

(* Bodies: a version of the metadata, or an archive, which is named after  *)
(* its URL.                                                                *)
Page(v) == <<"p2", v>>
Pages == {Page(v) : v \in Versions}
Bodies == Pages \cup URLs \cup {Empty}
ASSUME NilFresh == Nil \notin Jobs \cup Bodies /\ Empty \notin Pages \cup URLs
                   /\ Pages \cap URLs = {}
                   /\ {NotFound, Failed} \cap (Bodies \cup {Nil}) = {}
                   /\ NotFound # Failed

VARIABLES version, \* current metadata upstream
          known,   \* composerDists.items
          disk,    \* the cache: a body with the epoch that rewrote it, or Nil
          pc, job,
          got,     \* what a request has in hand: opened entry or answer
          copy,    \* the metadata a client holds
          answer,  \* the outcome of a client's last request
          restarts, cuts

vars == <<version, known, disk, pc, job, got, copy, answer, restarts, cuts>>

(* since: the number of restarts when the body came from the upstream      *)
(* (history).                                                              *)
Held == [body : Bodies, since : 0..MaxRestarts]
Outcomes == [job : Jobs, body : Bodies \cup {NotFound, Failed}, forgot : BOOLEAN]

TypeOK == /\ version \in Versions
          /\ known \in [Refs -> URLs \cup {Nil}]
          /\ disk \in [Locators -> Held \cup {Nil}]
          /\ pc \in [Clients -> {"idle", "lookup", "head", "fetch", "rewrite",
                                 "store"}]
          /\ job \in [Clients -> Jobs \cup {Nil}]
          /\ got \in [Clients -> Held \cup {Nil}]
          /\ copy \in [Clients -> Held \cup {Nil}]
          /\ answer \in [Clients -> Outcomes \cup {Nil}]
          /\ restarts \in 0..MaxRestarts
          /\ cuts \in 0..MaxCuts

Init == /\ version = 1
        /\ known = [ref \in Refs |-> Nil]
        /\ disk = [l \in Locators |-> Nil]
        /\ pc = [c \in Clients |-> "idle"]
        /\ job = [c \in Clients |-> Nil]
        /\ got = [c \in Clients |-> Nil]
        /\ copy = [c \in Clients |-> Nil]
        /\ answer = [c \in Clients |-> Nil]
        /\ restarts = 0
        /\ cuts = 0

Goto(c, from, to) == pc[c] = from /\ pc' = [pc EXCEPT ![c] = to]
Set(f, c, x) == [f EXCEPT ![c] = x]
Fetched(body) == [body |-> body, since |-> restarts]

(* The references a metadata body lists; an empty one lists none.          *)
ListedBy(body) == IF body \in Pages THEN DOMAIN Listed[body[2]] ELSE {}

-----------------------------------------------------------------------------
(* The upstream publishes metadata.  Archives do not change.               *)
Publish == /\ version < MaxVer
           /\ version' = version + 1
           /\ UNCHANGED <<known, disk, pc, job, got, copy, answer, restarts, cuts>>

(* The outcome of request c is body.  A client keeps the metadata it got,  *)
(* and notes whether the proxy restarted since that came from upstream.    *)
Answer(c, held, body) ==
  /\ pc' = Set(pc, c, "idle")
  /\ answer' = Set(answer, c,
       [job |-> job[c], body |-> body,
        forgot |-> copy[c] # Nil /\ copy[c].since < restarts])
  /\ copy' = IF job[c] = Metadata /\ held # Nil THEN Set(copy, c, held) ELSE copy
  /\ job' = Set(job, c, Nil)
  /\ got' = Set(got, c, Nil)

(* A client asks for the metadata or for an archive it lists.              *)
Ask(c, j) ==
  /\ Goto(c, "idle", "lookup")
  /\ CASE j.kind = "meta" -> TRUE
       [] j.kind = "dists" -> copy[c] # Nil /\ j.ref \in ListedBy(copy[c].body)
       [] j.kind = "dist" -> /\ copy[c] # Nil
                             /\ \E ref \in ListedBy(copy[c].body) :
                                  Listed[copy[c].body[2]][ref] = j.url
  /\ job' = Set(job, c, j)
  /\ answer' = Set(answer, c, Nil)
  /\ UNCHANGED <<version, known, disk, got, copy, restarts, cuts>>

(* Handler.Handle looks the locator up.  The policy wants metadata         *)
(* revalidated and lets archives be served as they are.                    *)
RequireRevalidate(j) == j = Metadata

Lookup(c) ==
  LET entry == disk[Locator(job[c])] IN
  /\ pc[c] = "lookup"
  /\ \/ /\ entry = Nil
        /\ Goto(c, "lookup", "fetch")
        /\ UNCHANGED <<job, got, copy, answer>>
     \/ /\ entry # Nil /\ RequireRevalidate(job[c])
        /\ Goto(c, "lookup", "head")
        /\ got' = Set(got, c, entry)
        /\ UNCHANGED <<job, copy, answer>>
     \/ /\ entry # Nil /\ ~RequireRevalidate(job[c])
        /\ Answer(c, Nil, entry.body)
  /\ UNCHANGED <<version, known, disk, restarts, cuts>>

(* isCacheFresh of a metadata entry: fresh, and it is served without being *)
(* rewritten, or not.                                                      *)
Head(c) ==
  /\ pc[c] = "head"
  /\ \/ Answer(c, got[c], got[c].body)
     \/ /\ Goto(c, "head", "fetch")
        /\ got' = Set(got, c, Nil)
        /\ UNCHANGED <<job, copy, answer>>
  /\ UNCHANGED <<version, known, disk, restarts, cuts>>

(* resolveDistUpstream: a mirror URL is looked up in the registry, a       *)
(* rewritten one says where it leads.  Nil: below the hub's own upstream.  *)
Upstream(j) == IF j.kind = "dists" THEN known[j.ref] ELSE j.url

(* The GET.  An archive the registry does not know is asked of the hub's   *)
(* upstream, which has no /dists/ path.  An answer other than 200 is       *)
(* passed on and not stored.                                               *)
Fetch(c) ==
  /\ pc[c] = "fetch"
  /\ \/ /\ job[c] = Metadata
        /\ Goto(c, "fetch", "rewrite")
        /\ got' = Set(got, c, Fetched(Page(version)))
        /\ UNCHANGED <<job, copy, answer>>
     \/ /\ job[c] # Metadata
        /\ Upstream(job[c]) # Nil
        /\ Goto(c, "fetch", "rewrite")
        /\ got' = Set(got, c, Fetched(Upstream(job[c])))
        /\ UNCHANGED <<job, copy, answer>>
     \/ /\ job[c] # Metadata
        /\ Upstream(job[c]) = Nil
        /\ Answer(c, Nil, NotFound)
     \/ Answer(c, Nil, Failed)
  /\ UNCHANGED <<version, known, disk, restarts, cuts>>

(* Mutant: the registry holds the last metadata only.                      *)
RememberLast(v) == [ref \in Refs |-> IF ref \in DOMAIN Listed[v] THEN Listed[v][ref]
                                                                 ELSE Nil]

(* Mutant: the map is replaced by the references of the new metadata.      *)
RememberOnly(v) == Listed[v]

(* distRegistry.remember for every reference the metadata lists; what      *)
(* other metadata taught stays.                                            *)
Remember(v) == [ref \in Refs |-> IF ref \in DOMAIN Listed[v] THEN Listed[v][ref]
                                                             ELSE known[ref]]

(* applyHookRewrite reads the whole body.  Metadata teaches the registry   *)
(* and gets rewritten URLs, an archive passes as it is.                    *)
Rewrite(c) == /\ Goto(c, "rewrite", "store")
              /\ known' = IF job[c] = Metadata THEN Remember(got[c].body[2]) ELSE known
              /\ UNCHANGED <<version, disk, job, got, copy, answer, restarts, cuts>>

(* The body ends early: applyHookRewrite puts an empty body in its place   *)
(* and reports an error that fetchAndStream only logs.                     *)
Cut(c) == /\ cuts < MaxCuts
          /\ Goto(c, "rewrite", "store")
          /\ cuts' = cuts + 1
          /\ got' = [got EXCEPT ![c].body = Empty]
          /\ UNCHANGED <<version, known, disk, job, copy, answer, restarts>>

(* cacheAndStream: Put under the entry lock, or its failure.               *)
Store(c) ==
  /\ pc[c] = "store"
  /\ \/ /\ disk' = [disk EXCEPT ![Locator(job[c])] = got[c]]
        /\ Answer(c, got[c], got[c].body)
     \/ /\ Answer(c, Nil, Failed)
        /\ UNCHANGED disk
  /\ UNCHANGED <<version, known, restarts, cuts>>

(* The proxy is restarted: requests in flight fail, the registry is empty, *)
(* the cache stays.                                                        *)
Restart == /\ restarts < MaxRestarts
           /\ restarts' = restarts + 1
           /\ known' = [ref \in Refs |-> Nil]
           /\ pc' = [c \in Clients |-> "idle"]
           /\ job' = [c \in Clients |-> Nil]
           /\ got' = [c \in Clients |-> Nil]
           /\ UNCHANGED <<version, disk, copy, answer, cuts>>

Handle(c) == Lookup(c) \/ Head(c) \/ Fetch(c) \/ Rewrite(c) \/ Cut(c) \/ Store(c)

Next == \/ Publish
        \/ Restart
        \/ \E c \in Clients : (\E j \in Jobs : Ask(c, j)) \/ Handle(c)

Spec == Init /\ [][Next]_vars

-----------------------------------------------------------------------------
(* A mirror URL leads nowhere only if the proxy was restarted after the    *)
(* metadata that names the reference came from the upstream: whatever      *)
(* metadata was rewritten in the meantime, for whichever client, and even  *)
(* if the client was served it from the cache (resolveComposerMirrorDist). *)
MirrorResolved ==
  \A c \in Clients : (answer[c] # Nil /\ answer[c].body = NotFound) => answer[c].forgot

(* An archive that is served for a mirror URL is one the upstream listed   *)
(* for this very reference, and one that is served for a rewritten URL is  *)
(* one it listed under the same path (the query is not part of the         *)
(* locator).                                                               *)
RightArchive ==
  \A c \in Clients :
    (/\ answer[c] # Nil /\ answer[c].job # Metadata
     /\ answer[c].body \notin {Empty, NotFound, Failed}) =>
      \E v \in 1..version : \E ref \in DOMAIN Listed[v] :
        /\ Listed[v][ref] = answer[c].body
        /\ answer[c].job.kind = "dists" => answer[c].job.ref = ref
        /\ answer[c].job.kind = "dist" => answer[c].job.url[1] = answer[c].body[1]

(* The cache holds whole bodies: an upstream answer that ends early leaves *)
(* no entry behind (store.go: a failed Put leaves nothing).  The code      *)
(* breaks this: Cut.                                                       *)
WholeBodies == \A l \in Locators : disk[l] # Nil => disk[l].body # Empty
=============================================================================
