------------------------- MODULE ManifestFallback -------------------------
(***************************************************************************)
(* Manifests of a docker hub whose upstream is registry.k8s.io: when the   *)
(* upstream does not know /v2/<repo>/manifests/<ref>, the handler asks for *)
(* /v2/<repo>/<repo>/manifests/<ref>, stores the answer under the path of  *)
(* the client and notes the path it came from in the entry's metadata, so  *)
(* that revalidation asks for that path.  Requests (GETs) run              *)
(* concurrently; Get reads body and metadata of an entry one after the     *)
(* other, and Put replaces them one after the other, under the entry lock. *)
(* Whether isCacheFresh accepts an answer that is neither 404 nor a        *)
(* failure is the subject of ProxyHandler and left open here.              *)
(***************************************************************************)
EXTENDS Naturals, Sequences

CONSTANTS Reqs,
          Wanted,         \* paths clients ask for, as sequences of segments
          RegistryK8s,    \* the upstream host is registry.k8s.io
          HasCredentials,
          MaxVer,         \* bound on upstream publications
          MaxBreaks,      \* bound on Puts that fail after the rename
          MaxRestarts,
          Nil

ASSUME BoundsType == MaxVer \in Nat /\ MaxBreaks \in Nat /\ MaxRestarts \in Nat
ASSUME FlagsType == RegistryK8s \in BOOLEAN /\ HasCredentials \in BOOLEAN

(* Segments that end the name of a repository, splitDockerRepoPath.        *)
Reserved == {"manifests", "blobs", "tags", "referrers", "_catalog"}

(* manifestFallbackPath accepts manifests of one-segment repositories.     *)
Eligible(p) == /\ RegistryK8s
               /\ Len(p) > 3
               /\ p[1] = "v2" /\ p[2] \notin Reserved /\ p[3] = "manifests"
FallbackPath(p) == <<"v2", p[2]>> \o Tail(p)

Paths == Wanted \cup {FallbackPath(p) : p \in {q \in Wanted : Eligible(q)}}
Manifests == [from : Paths, ver : 1..MaxVer]
ASSUME PathsType == Wanted \subseteq Seq(STRING)
Outcomes == {"hit", "fetched", "notFound", "failed"}
ASSUME NilFresh == Nil \notin Paths \cup Manifests \cup Reqs \cup Outcomes

VARIABLES clock, \* publications so far
          up,    \* the upstream: version at a path, 0 if it has none
          body, meta, \* the cache: body file and metadata file of a path
          lock,  \* holder of a path's entry lock
          pc, path,
          ent,   \* what a request read: body and effective path, or Nil
          got,   \* the upstream answer it stores, or Nil
          tries, \* retries in the present exchange
          result,
          breaks, restarts

(* History, read by the properties only.                                   *)
VARIABLES gone,    \* paths the upstream was without since the request began
          hurt,    \* the last Put of the path failed after its rename
          stirred  \* someone wrote the entry while the request read it

upstream == <<clock, up>>
store == <<body, meta, lock>>
local == <<path, ent, got, tries, result>>
vars == <<upstream, store, pc, local, breaks, restarts, gone, hurt, stirred>>

PCs == {"idle", "get", "getMeta", "reval", "drop", "fetch", "fallback", "put",
        "putMeta", "done"}

TypeOK == /\ clock \in 0..MaxVer
          /\ up \in [Paths -> 0..MaxVer]
          /\ body \in [Wanted -> Manifests \cup {Nil}]
          /\ meta \in [Wanted -> Paths \cup {Nil}]
          /\ lock \in [Wanted -> Reqs \cup {Nil}]
          /\ pc \in [Reqs -> PCs]
          /\ path \in [Reqs -> Wanted \cup {Nil}]
          /\ ent \in [Reqs -> [body : Manifests, eff : Paths \cup {Nil}] \cup {Nil}]
          /\ got \in [Reqs -> Manifests \cup {Nil}]
          /\ tries \in [Reqs -> 0..1]
          /\ result \in [Reqs -> Outcomes \cup {Nil}]
          /\ breaks \in 0..MaxBreaks
          /\ restarts \in 0..MaxRestarts
          /\ gone \in [Reqs -> SUBSET Paths]
          /\ hurt \in [Wanted -> BOOLEAN]
          /\ stirred \in [Reqs -> BOOLEAN]

Init == /\ clock = 0
        /\ up = [p \in Paths |-> 0]
        /\ body = [p \in Wanted |-> Nil]
        /\ meta = [p \in Wanted |-> Nil]
        /\ lock = [p \in Wanted |-> Nil]
        /\ pc = [r \in Reqs |-> "idle"]
        /\ path = [r \in Reqs |-> Nil]
        /\ ent = [r \in Reqs |-> Nil]
        /\ got = [r \in Reqs |-> Nil]
        /\ tries = [r \in Reqs |-> 0]
        /\ result = [r \in Reqs |-> Nil]
        /\ breaks = 0
        /\ restarts = 0
        /\ gone = [r \in Reqs |-> {}]
        /\ hurt = [p \in Wanted |-> FALSE]
        /\ stirred = [r \in Reqs |-> FALSE]

Goto(r, from, to) == pc[r] = from /\ pc' = [pc EXCEPT ![r] = to]
Set(f, r, x) == [f EXCEPT ![r] = x]

-----------------------------------------------------------------------------
(* The upstream gets a manifest at a path, or loses it.                    *)
Publish(p) == /\ clock < MaxVer
              /\ clock' = clock + 1
              /\ up' = Set(up, p, clock + 1)
              /\ UNCHANGED <<store, pc, local, breaks, restarts, gone, hurt, stirred>>

Withdraw(p) == /\ up[p] # 0
               /\ up' = Set(up, p, 0)
               /\ gone' = [r \in Reqs |-> gone[r] \cup {p}]
               /\ UNCHANGED <<clock, store, pc, local, breaks, restarts, hurt, stirred>>

(* Mutant: the retry is retried.                                           *)
RetryAgain(r) == /\ HasCredentials
                 /\ tries' = Set(tries, r, tries[r] + 1)
                 /\ UNCHANGED <<pc, path, ent, got, result>>

(* A call is answered 401 or 429 and made once more, with a token or with  *)
(* the credentials of the hub.                                             *)
Retry(r) == /\ HasCredentials /\ tries[r] = 0
            /\ tries' = Set(tries, r, tries[r] + 1)
            /\ UNCHANGED <<pc, path, ent, got, result>>

(* Whoever is reading the entry of p is disturbed by a write to it.        *)
Stir(p) == stirred' = [r \in Reqs |-> stirred[r] \/ (pc[r] = "getMeta" /\ path[r] = p)]

(* The request is answered; its entry and its answer are closed.           *)
Finish(r, outcome) == /\ pc' = Set(pc, r, "done")
                      /\ result' = Set(result, r, outcome)
                      /\ ent' = Set(ent, r, Nil)
                      /\ got' = Set(got, r, Nil)
                      /\ tries' = Set(tries, r, 0)
                      /\ UNCHANGED path

-----------------------------------------------------------------------------
Begin(r, p) == /\ Goto(r, "idle", "get")
               /\ path' = Set(path, r, p)
               /\ gone' = Set(gone, r, {q \in Paths : up[q] = 0})
               /\ UNCHANGED <<upstream, store, ent, got, tries, result, breaks,
                              restarts, hurt, stirred>>

(* fileStore.Get: the body, then the metadata.                             *)
Get(r) ==
  LET p == path[r] IN
  /\ pc[r] = "get"
  /\ \/ /\ body[p] = Nil
        /\ Goto(r, "get", "fetch")
        /\ UNCHANGED <<ent, stirred>>
     \/ /\ body[p] # Nil
        /\ Goto(r, "get", "getMeta")
        /\ ent' = Set(ent, r, [body |-> body[p], eff |-> Nil])
        /\ stirred' = Set(stirred, r, hurt[p] \/ lock[p] # Nil)
  /\ UNCHANGED <<upstream, store, path, got, tries, result, breaks, restarts,
                 gone, hurt>>

GetMeta(r) == /\ Goto(r, "getMeta", "reval")
              /\ ent' = Set(ent, r, [ent[r] EXCEPT !.eff = meta[path[r]]])
              /\ UNCHANGED <<upstream, store, path, got, tries, result, breaks,
                             restarts, gone, hurt, stirred>>

(* effectiveRevalidateURL.                                                 *)
Effective(r) == IF ent[r].eff = Nil THEN path[r] ELSE ent[r].eff

(* isCacheFresh: a HEAD, made again once if refused.  A 404 drops the      *)
(* entry, any other answer may be taken for "not fresh".                   *)
Revalidate(r) ==
  /\ pc[r] = "reval"
  /\ \/ Retry(r)
     \/ /\ up[Effective(r)] # 0
        /\ Finish(r, "hit")
     \/ /\ up[Effective(r)] = 0
        /\ Goto(r, "reval", "drop")
        /\ tries' = Set(tries, r, 0)
        /\ UNCHANGED <<path, ent, got, result>>
     \/ /\ Goto(r, "reval", "fetch")
        /\ tries' = Set(tries, r, 0)
        /\ ent' = Set(ent, r, Nil)
        /\ UNCHANGED <<path, got, result>>
  /\ UNCHANGED <<upstream, store, breaks, restarts, gone, hurt, stirred>>

(* fileStore.Remove; isCacheFresh ignores its error.                       *)
Drop(r) ==
  LET p == path[r] IN
  /\ Goto(r, "drop", "fetch")
  /\ lock[p] = Nil
  /\ ent' = Set(ent, r, Nil)
  /\ \/ /\ body' = Set(body, p, Nil)
        /\ meta' \in {meta, Set(meta, p, Nil)}
        /\ Stir(p)
     \/ UNCHANGED <<body, meta, stirred>>
  /\ UNCHANGED <<upstream, lock, path, got, tries, result, breaks, restarts, gone,
                 hurt>>

(* Mutant: any answer that is not the manifest makes the handler fall back.*)
FallsBackAlways(r) == Eligible(path[r])

(* Mutant: the answer to a retried call is passed on as it is.             *)
FallsBackFirstTry(r) == up[path[r]] = 0 /\ Eligible(path[r]) /\ tries[r] = 0

(* retryRegistryK8sManifestFallback: the last answer for the path of the   *)
(* client was a 404.                                                       *)
FallsBack(r) == up[path[r]] = 0 /\ Eligible(path[r])

(* Two answers to a GET of path p: the manifest, and a 404 that is passed  *)
(* on to the client.                                                       *)
Fetched(r, p) == /\ up[p] # 0
                 /\ pc' = Set(pc, r, "put")
                 /\ got' = Set(got, r, [from |-> p, ver |-> up[p]])
                 /\ UNCHANGED <<path, ent, tries, result>>
PassedOn(r, p) == /\ up[p] = 0
                  /\ Finish(r, "notFound")

(* fetchAndStream with the path of the client.                             *)
Fetch(r) ==
  /\ pc[r] = "fetch"
  /\ \/ Retry(r)
     \/ Fetched(r, path[r])
     \/ /\ FallsBack(r)
        /\ pc' = Set(pc, r, "fallback")
        /\ tries' = Set(tries, r, 0)
        /\ UNCHANGED <<path, ent, got, result>>
     \/ ~FallsBack(r) /\ PassedOn(r, path[r])
     \/ Finish(r, "failed")
  /\ UNCHANGED <<upstream, store, breaks, restarts, gone, hurt, stirred>>

(* The same with the fallback path, once.                                  *)
Fallback(r) ==
  /\ pc[r] = "fallback"
  /\ \/ Retry(r)
     \/ Fetched(r, FallbackPath(path[r]))
     \/ PassedOn(r, FallbackPath(path[r]))
     \/ Finish(r, "failed")
  /\ UNCHANGED <<upstream, store, breaks, restarts, gone, hurt, stirred>>

(* fileStore.Put: the body, and the path it came from.  A Put can fail     *)
(* before the rename, and after it.                                        *)
Put(r) ==
  LET p == path[r] IN
  /\ pc[r] = "put"
  /\ \/ /\ Goto(r, "put", "putMeta")
        /\ lock[p] = Nil
        /\ lock' = Set(lock, p, r)
        /\ body' = Set(body, p, got[r])
        /\ Stir(p)
        /\ UNCHANGED local
     \/ /\ Finish(r, "failed")
        /\ UNCHANGED <<lock, body, stirred>>
  /\ UNCHANGED <<upstream, meta, breaks, restarts, gone, hurt>>

(* Mutant: an empty effective path leaves the metadata file alone.         *)
WrittenKept(r) == IF got[r].from = path[r] THEN meta[path[r]] ELSE got[r].from

(* writeMetadata: what the metadata file of the entry becomes.             *)
Written(r) == IF got[r].from = path[r] THEN Nil ELSE got[r].from

PutMeta(r) ==
  LET p == path[r] IN
  /\ pc[r] = "putMeta"
  /\ lock' = Set(lock, p, Nil)
  /\ Stir(p)
  /\ \/ /\ meta' = Set(meta, p, Written(r))
        /\ hurt' = Set(hurt, p, FALSE)
        /\ Finish(r, "fetched")
        /\ UNCHANGED breaks
     \/ /\ breaks < MaxBreaks
        /\ breaks' = breaks + 1
        /\ hurt' = Set(hurt, p, TRUE)
        /\ Finish(r, "failed")
        /\ UNCHANGED meta
  /\ UNCHANGED <<upstream, body, restarts, gone>>

(* What a request knew, once it is over.                                   *)
End(r) == /\ Goto(r, "done", "idle")
          /\ path' = Set(path, r, Nil)
          /\ result' = Set(result, r, Nil)
          /\ gone' = Set(gone, r, {})
          /\ stirred' = Set(stirred, r, FALSE)
          /\ UNCHANGED <<upstream, store, ent, got, tries, breaks, restarts, hurt>>

(* The proxy is restarted; the files stay as they are.                     *)
Restart == /\ restarts < MaxRestarts
           /\ restarts' = restarts + 1
           /\ hurt' = [p \in Wanted |-> hurt[p] \/ lock[p] # Nil]
           /\ lock' = [p \in Wanted |-> Nil]
           /\ pc' = [r \in Reqs |-> "idle"]
           /\ path' = [r \in Reqs |-> Nil]
           /\ ent' = [r \in Reqs |-> Nil]
           /\ got' = [r \in Reqs |-> Nil]
           /\ tries' = [r \in Reqs |-> 0]
           /\ result' = [r \in Reqs |-> Nil]
           /\ gone' = [r \in Reqs |-> {}]
           /\ stirred' = [r \in Reqs |-> FALSE]
           /\ UNCHANGED <<upstream, body, meta, breaks>>

Handle(r) == \/ Get(r) \/ GetMeta(r) \/ Revalidate(r) \/ Drop(r) \/ Fetch(r)
             \/ Fallback(r) \/ Put(r) \/ PutMeta(r) \/ End(r)

Next == \/ \E p \in Paths : Publish(p) \/ Withdraw(p)
        \/ \E r \in Reqs : (\E p \in Wanted : Begin(r, p)) \/ Handle(r)
        \/ Restart

Spec == Init /\ [][Next]_vars

-----------------------------------------------------------------------------
(* A manifest from the fallback path is stored and sent only if the        *)
(* upstream was without the path of the client at some moment of the       *)
(* request (retryRegistryK8sManifestFallback, "existing paths that already *)
(* work continue to use the original path first").                         *)
FallbackJustified ==
  \A r \in Reqs : (got[r] # Nil /\ got[r].from # path[r]) => path[r] \in gone[r]

(* A client is told 404 only if the upstream was without its path, and     *)
(* without the fallback path where there is one, during the request.       *)
NotFoundJustified ==
  \A r \in Reqs : result[r] = "notFound" =>
    /\ path[r] \in gone[r]
    /\ Eligible(path[r]) => FallbackPath(path[r]) \in gone[r]

(* isCacheFresh removes the entry it found only if the upstream was        *)
(* without the path the manifest came from during the request: a fallback  *)
(* entry survives the 404 of the path it is stored under.  Exceptions: the *)
(* entry was written while Get read it or its last Put broke off, or       *)
(* another request has replaced it since.                                  *)
RemovedOnlyIfGone ==
  [][\A p \in Wanted : (body[p] # Nil /\ body'[p] = Nil) =>
       \E r \in Reqs : /\ pc[r] = "drop" /\ path[r] = p
                       /\ \/ body[p].from \in gone[r]
                          \/ body[p] # ent[r].body
                          \/ stirred[r]]_vars
=============================================================================
