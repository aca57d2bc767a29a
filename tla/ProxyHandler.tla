--------------------------- MODULE ProxyHandler ---------------------------
(***************************************************************************)
(* Handler.Handle for one locator of one hub: requests that run            *)
(* concurrently look the locator up in the disk cache, revalidate a hit    *)
(* with a conditional HEAD, serve it or fetch from the upstream, store     *)
(* what a GET brought back and remember its ETag in memory.  The upstream  *)
(* publishes version after version, some of which are "deleted" (404).     *)
(* The store is the one of FileStore reduced to what the handler sees: a   *)
(* body and its modification time, which Get reads one after the other     *)
(* without a lock, and Put writes one after the other under the entry      *)
(* lock.  Fallback paths are left to ManifestFallback.                     *)
(***************************************************************************)
EXTENDS Naturals, FiniteSets

CONSTANTS Reqs,              \* requests in flight at the same time
          Heads,             \* those that may be HEAD requests
          Conditional,       \* those that may send validators of their own
          MaxVer,            \* bound on upstream versions
          MaxTime,           \* bound on the clock
          MaxRestarts,       \* bound on restarts of the proxy
          TTL,               \* CacheStrategy.TTLHint, 0: none
          RequireRevalidate, \* policy of the hub's module for the locator
          SupportsValidation,\* ValidationMode # never
          HasCredentials,    \* the hub has a user name and a password
          Rewrites,          \* the module has a RewriteResponse hook
          Tagged,            \* answers carry Docker-Content-Digest or Etag
          Dated,             \* answers carry Last-Modified
          Orderly,           \* every version has a later date than those before
          Flaky,             \* calls and disk operations may fail
          Nil

ASSUME RequestsType == Heads \subseteq Reqs /\ Conditional \subseteq Reqs
ASSUME BoundsType == /\ MaxVer \in Nat \ {0} /\ MaxTime \in Nat
                     /\ MaxRestarts \in Nat /\ TTL \in Nat
ASSUME FlagsType == {RequireRevalidate, SupportsValidation, HasCredentials,
                     Rewrites, Tagged, Dated, Orderly, Flaky} \subseteq BOOLEAN

VARIABLES now,       \* clock
          up,        \* current version of the upstream
          appeared,  \* appeared[v]: when v was published
          dated,     \* dated[v]: its Last-Modified
          present,   \* versions that are a resource and not a deletion
          disk,      \* the cache entry, or Nil
          lock,      \* holder of the entry lock
          etag,      \* Handler.etags at the locator, or Nil
          pc, method,
          cond,      \* version whose validators the client sent, or Nil
          ent,       \* the entry a request got from the store
          sent,      \* version whose validator its HEAD carried, or Nil
          rsp,       \* the upstream answer it works on
          tries,     \* refusals it met in the present stage
          restarts

(* History, read by the properties only.                                   *)
VARIABLES first,     \* the upstream's version when the HEAD was sent
          how        \* why a hit was served

upstream == <<up, appeared, dated, present>>
request == <<method, cond>>
local == <<ent, sent, first, rsp, tries>>
vars == <<now, upstream, disk, lock, etag, pc, request, local, restarts, how>>

Versions == 1..MaxVer
Verbs == {"GET", "HEAD"}
(* An error page or the empty answer of a HEAD, should one get stored.     *)
NoBody == 0
(* cut: nothing was stored of the body, which ended early.  own, which is  *)
(* history: the time is the one that the Put of the body gave it.          *)
Entries == [body : Versions \cup {NoBody}, cut : BOOLEAN, mtime : Nat, own : BOOLEAN]
Answers == [ver : Versions, body : Versions \cup {NoBody}, cut : BOOLEAN, mod : Nat]
(* Why a hit was served: the policy asks for no revalidation, the TTL has  *)
(* not run out, or the status of the HEAD.                                 *)
Reasons == {"policy", "ttl", "304", "200"}
ASSUME NilFresh == Nil \notin Nat \cup Reqs \cup Entries \cup Answers \cup Reasons

PCs == {"idle", "lookup", "open", "reval", "headSent", "judge", "drop", "forget",
        "serve", "fetch", "put", "rename", "times", "remember", "done"}

TypeOK == /\ now \in Nat
          /\ up \in Versions
          /\ appeared \in [Versions -> Nat]
          /\ dated \in [Versions -> Nat]
          /\ present \subseteq Versions
          /\ disk \in Entries \cup {Nil}
          /\ lock \in Reqs \cup {Nil}
          /\ etag \in Versions \cup {Nil}
          /\ pc \in [Reqs -> PCs]
          /\ method \in [Reqs -> Verbs \cup {Nil}]
          /\ cond \in [Reqs -> Versions \cup {Nil}]
          /\ ent \in [Reqs -> Entries \cup {Nil}]
          /\ sent \in [Reqs -> Versions \cup {Nil}]
          /\ rsp \in [Reqs -> Answers \cup {Nil}]
          /\ tries \in [Reqs -> 0..1]
          /\ restarts \in 0..MaxRestarts
          /\ first \in [Reqs -> Versions \cup {Nil}]
          /\ how \in [Reqs -> Reasons \cup {Nil}]

Init == /\ now = 0
        /\ up = 1
        /\ appeared = [v \in Versions |-> 0]
        /\ dated = [v \in Versions |-> 0]
        /\ present = {1}
        /\ disk = Nil
        /\ lock = Nil
        /\ etag = Nil
        /\ pc = [r \in Reqs |-> "idle"]
        /\ method = [r \in Reqs |-> Nil]
        /\ cond = [r \in Reqs |-> Nil]
        /\ ent = [r \in Reqs |-> Nil]
        /\ sent = [r \in Reqs |-> Nil]
        /\ rsp = [r \in Reqs |-> Nil]
        /\ tries = [r \in Reqs |-> 0]
        /\ restarts = 0
        /\ first = [r \in Reqs |-> Nil]
        /\ how = [r \in Reqs |-> Nil]

Goto(r, from, to) == pc[r] = from /\ pc' = [pc EXCEPT ![r] = to]
Set(f, r, x) == [f EXCEPT ![r] = x]

-----------------------------------------------------------------------------
(* The upstream, and time.  A date is never in the future; it may be that   *)
(* of an earlier version, or before it, unless the upstream is orderly.    *)

Publish == /\ up < MaxVer
           /\ \E date \in 0..now :
                /\ Orderly => \A v \in 1..up : dated[v] < date
                /\ dated' = [dated EXCEPT ![up + 1] = date]
           /\ appeared' = [appeared EXCEPT ![up + 1] = now]
           /\ up' = up + 1
           /\ present' \in {present, present \cup {up + 1}}
           /\ UNCHANGED <<now, disk, lock, etag, pc, request, local, restarts, how>>

Tick == /\ now < MaxTime
        /\ now' = now + 1
        /\ UNCHANGED <<upstream, disk, lock, etag, pc, request, local, restarts,
                       how>>

(* normalizeETag of a digest or tag, which has lost its quotes.            *)
Tag(v) == IF Tagged THEN v ELSE Nil

(* extractModTime of an answer read now.  Without Last-Modified it is the  *)
(* local time, which is later than every time taken before.                *)
ModTime(v) == IF Dated THEN dated[v] ELSE now
RemoteTime(v) == IF Dated THEN dated[v] ELSE now + 1

Refuses(r) == Flaky \/ (HasCredentials /\ tries[r] = 0)  \* 401 or 429

-----------------------------------------------------------------------------
(* Handle: cache lookup and what the policy makes of it.                   *)

(* c: the client has a copy of its own and asks If-None-Match or           *)
(* If-Modified-Since; CopyHeaders forwards that in every upstream call.    *)
Begin(r, m, c) ==
  /\ Goto(r, "idle", "lookup")
  /\ m = "HEAD" => r \in Heads
  /\ c # Nil => r \in Conditional /\ c <= up
  /\ method' = Set(method, r, m)
  /\ cond' = Set(cond, r, c)
  /\ UNCHANGED <<now, upstream, disk, lock, etag, local, restarts, how>>

(* Mutant: the TTL includes the instant at which it ends.                  *)
BypassAtTTL(e) == TTL > 0 /\ now <= e.mtime + TTL

(* ShouldBypassValidation.                                                 *)
Bypass(e) == TTL > 0 /\ now < e.mtime + TTL

(* The cached entry is closed and the request goes to the upstream.        *)
Fetching(r) == /\ pc' = [pc EXCEPT ![r] = "fetch"]
               /\ ent' = Set(ent, r, Nil)
               /\ sent' = Set(sent, r, Nil)
               /\ first' = Set(first, r, Nil)
               /\ rsp' = Set(rsp, r, Nil)
               /\ tries' = Set(tries, r, 0)

(* Not there, or a failing Get, which counts as a miss.                    *)
Miss(r) == /\ disk = Nil \/ Flaky
           /\ Fetching(r)
           /\ UNCHANGED how

(* Get takes the time from the stat.  The body that ent[r] has until the   *)
(* open is history.                                                        *)
Stat(r) == /\ disk # Nil
           /\ pc' = [pc EXCEPT ![r] = "open"]
           /\ ent' = Set(ent, r, disk)
           /\ UNCHANGED <<sent, first, rsp, tries, how>>

Lookup(r) ==
  /\ pc[r] = "lookup"
  /\ Miss(r) \/ Stat(r)
  /\ UNCHANGED <<now, upstream, disk, lock, etag, request, restarts>>

(* The body of the file as it is now, with the time read before.           *)
Opened(r) == [body |-> disk.body, cut |-> disk.cut,
              mtime |-> ent[r].mtime, own |-> ent[r].own]

(* There: what the policy, the TTL and the validation mode make of it.     *)
Found(r) ==
  LET On(next) == /\ pc' = [pc EXCEPT ![r] = next]
                  /\ ent' = Set(ent, r, Opened(r))
                  /\ UNCHANGED <<sent, first, rsp, tries>>
  IN  /\ disk # Nil
      /\ CASE ~RequireRevalidate -> On("serve") /\ how' = Set(how, r, "policy")
           [] RequireRevalidate /\ Bypass(Opened(r)) ->
                On("serve") /\ how' = Set(how, r, "ttl")
           [] RequireRevalidate /\ ~Bypass(Opened(r)) /\ SupportsValidation ->
                On("reval") /\ UNCHANGED how
           [] OTHER -> Fetching(r) /\ UNCHANGED how

Open(r) ==
  /\ pc[r] = "open"
  /\ Miss(r) \/ Found(r)
  /\ UNCHANGED <<now, upstream, disk, lock, etag, request, restarts>>

-----------------------------------------------------------------------------
(* isCacheFresh.                                                           *)

(* revalidateRequest reads the remembered tag and sends the HEAD; without  *)
(* one the client's validators stay in it.                                 *)
SendHead(r) ==
  /\ Goto(r, "reval", "headSent")
  /\ sent' = Set(sent, r, IF etag # Nil THEN etag ELSE cond[r])
  /\ first' = Set(first, r, up)
  /\ UNCHANGED <<now, upstream, disk, lock, etag, request, ent, rsp, tries,
                 restarts, how>>

Hit(r, why) == pc' = [pc EXCEPT ![r] = "serve"] /\ how' = Set(how, r, why)

(* One retry with a token or the credentials, in each of the two stages.   *)
(* The request for the token is part of the refused call: without a token  *)
(* the stage fails.                                                        *)
MayRetry(r) == HasCredentials /\ tries[r] = 0

(* The answer to the HEAD; everything but 200, 304 and 404 ends in a fetch.*)
(* An upstream may ignore validators, or not know a tag without quotes.    *)
Head200(r) == /\ up \in present
              /\ pc' = [pc EXCEPT ![r] = "judge"]
              /\ rsp' = Set(rsp, r, [ver |-> up, body |-> NoBody, cut |-> FALSE,
                                     mod |-> RemoteTime(up)])
              /\ UNCHANGED <<ent, sent, first, tries, how>>

Head304(r) == /\ up \in present
              /\ sent[r] = up
              /\ Hit(r, "304")
              /\ UNCHANGED local

Head404(r) == /\ up \notin present
              /\ pc' = [pc EXCEPT ![r] = "drop"]
              /\ UNCHANGED <<local, how>>

HeadRefused(r) == /\ Refuses(r)
                  /\ MayRetry(r)
                  /\ pc' = [pc EXCEPT ![r] = "reval"]
                  /\ tries' = Set(tries, r, 1)
                  /\ UNCHANGED <<ent, sent, first, rsp, how>>

(* Transport error, no token, 5xx, or refused for good.                    *)
HeadFailed(r) == /\ Flaky
                 /\ Fetching(r)
                 /\ UNCHANGED how

HeadAnswer(r) ==
  /\ pc[r] = "headSent"
  /\ Head200(r) \/ Head304(r) \/ Head404(r) \/ HeadRefused(r) \/ HeadFailed(r)
  /\ UNCHANGED <<now, upstream, disk, lock, etag, request, restarts>>

(* Mutant: the remote time is compared with the clock.                     *)
NewerThanClock(r) == rsp[r].mod > now
Newer(r) == rsp[r].mod > ent[r].mtime

(* 200: without any validator it says nothing; else the tag is remembered  *)
(* at once and the Last-Modified decides.                                  *)
Judge(r) ==
  /\ pc[r] = "judge"
  /\ etag' = IF Tagged THEN Tag(rsp[r].ver) ELSE etag
  /\ IF (Tagged \/ Dated) /\ ~Newer(r)
       THEN /\ Hit(r, "200")
            /\ rsp' = Set(rsp, r, Nil)
            /\ UNCHANGED <<ent, sent, first, tries>>
       ELSE Fetching(r) /\ UNCHANGED how
  /\ UNCHANGED <<now, upstream, disk, lock, request, restarts>>

(* 404: the entry is removed (an error is ignored), then the tag.          *)
Drop(r) ==
  /\ Goto(r, "drop", "forget")
  /\ lock = Nil
  /\ \/ disk' = Nil
     \/ Flaky /\ UNCHANGED disk
  /\ UNCHANGED <<now, upstream, lock, etag, request, local, restarts, how>>

Forget(r) ==
  /\ pc[r] = "forget"
  /\ Fetching(r)
  /\ etag' = Nil
  /\ UNCHANGED <<now, upstream, disk, lock, request, restarts, how>>

(* serveCache: the body is the file opened by Get.  A HEAD asks the        *)
(* upstream once more and ignores the answer.                              *)
Serve(r) ==
  /\ Goto(r, "serve", "done")
  /\ UNCHANGED <<now, upstream, disk, lock, etag, request, local, restarts,
                 how>>

-----------------------------------------------------------------------------
(* fetchAndStream and cacheAndStream.                                      *)

Finished(r) == /\ pc' = [pc EXCEPT ![r] = "done"]
               /\ rsp' = Set(rsp, r, Nil)
               /\ tries' = Set(tries, r, 0)
               /\ UNCHANGED <<ent, sent, first>>

(* Mutant: the answer to a HEAD is stored as well.                         *)
ShouldStoreHead(r, status) == status = 200

ShouldStore(r, status) == status = 200 /\ method[r] = "GET"

(* The final answer: stored when it should be, relayed in any case.        *)
Answered(r, status, body, cut) ==
  IF ShouldStore(r, status)
    THEN /\ pc' = [pc EXCEPT ![r] = "put"]
         /\ rsp' = Set(rsp, r, [ver |-> up, body |-> body, cut |-> cut,
                                mod |-> ModTime(up)])
         /\ UNCHANGED <<ent, sent, first, tries>>
    ELSE Finished(r)

(* applyHookRewrite reads the whole body: if that ends early an empty one  *)
(* takes its place, and the status stays.                                  *)
FetchOK(r) == /\ up \in present
              /\ \E cut \in {FALSE, Rewrites} :
                   Answered(r, 200, IF method[r] = "GET" THEN up ELSE NoBody, cut)

FetchUnchanged(r) == /\ up \in present
                     /\ cond[r] = up
                     /\ Answered(r, 304, NoBody, FALSE)

FetchGone(r) == /\ up \notin present
                /\ Answered(r, 404, NoBody, FALSE)

(* Mutant: a second refusal is retried too.                                *)
FetchRetryTwice(r) == /\ Refuses(r)
                      /\ HasCredentials
                      /\ tries' = Set(tries, r, tries[r] + 1)
                      /\ UNCHANGED <<pc, ent, sent, first, rsp>>

(* retryOnAuthFailure: refused for the first time with credentials.        *)
FetchRetry(r) == /\ Refuses(r)
                 /\ MayRetry(r)
                 /\ tries' = Set(tries, r, 1)
                 /\ UNCHANGED <<pc, ent, sent, first, rsp>>

(* Refused for good or 5xx: relayed.  Transport error or no token: 502.    *)
FetchFailed(r) == /\ Flaky
                  /\ Answered(r, 500, NoBody, FALSE)

Fetch(r) ==
  /\ pc[r] = "fetch"
  /\ \/ FetchOK(r) \/ FetchUnchanged(r) \/ FetchGone(r)
     \/ FetchRetry(r) \/ FetchFailed(r)
  /\ UNCHANGED <<now, upstream, disk, lock, etag, request, restarts, how>>

PutLock(r) ==
  /\ Goto(r, "put", "rename")
  /\ lock = Nil
  /\ lock' = r
  /\ UNCHANGED <<now, upstream, disk, etag, request, local, restarts, how>>

(* The body is copied and takes the place of the old one.  A request that  *)
(* is between stat and open will pair it with the time of the old one.     *)
PutRename(r) ==
  /\ Goto(r, "rename", "times")
  /\ disk' = [body |-> rsp[r].body, cut |-> rsp[r].cut, mtime |-> now, own |-> FALSE]
  /\ ent' = [q \in Reqs |-> IF pc[q] = "open" THEN [ent[q] EXCEPT !.own = FALSE]
                                             ELSE ent[q]]
  /\ UNCHANGED <<now, upstream, lock, etag, request, sent, first, rsp, tries,
                 restarts, how>>

Chtimes(r) == disk' = [disk EXCEPT !.mtime = rsp[r].mod, !.own = TRUE]

(* Chtimes, and the metadata, of which the handler sees nothing.           *)
PutTimes(r) ==
  /\ Goto(r, "times", "remember")
  /\ Chtimes(r)
  /\ lock' = Nil
  /\ UNCHANGED <<now, upstream, etag, request, local, restarts, how>>

(* The copy, Chtimes or the metadata fail: cache_write_failed.             *)
PutFail(r) ==
  /\ Flaky
  /\ \/ pc[r] \in {"rename", "times"} /\ UNCHANGED disk
     \/ pc[r] = "times" /\ Chtimes(r)
  /\ Finished(r)
  /\ lock' = Nil
  /\ UNCHANGED <<now, upstream, etag, request, restarts, how>>

(* rememberETag, after Put has released the entry lock.                    *)
Remember(r) ==
  /\ pc[r] = "remember"
  /\ Finished(r)
  /\ etag' = IF Tagged THEN Tag(rsp[r].ver) ELSE etag
  /\ UNCHANGED <<now, upstream, disk, lock, request, restarts, how>>

Forgotten(r) ==
  /\ method' = Set(method, r, Nil)
  /\ cond' = Set(cond, r, Nil)
  /\ ent' = Set(ent, r, Nil)
  /\ sent' = Set(sent, r, Nil)
  /\ first' = Set(first, r, Nil)
  /\ rsp' = Set(rsp, r, Nil)
  /\ tries' = Set(tries, r, 0)
  /\ how' = Set(how, r, Nil)

End(r) == /\ Goto(r, "done", "idle")
          /\ Forgotten(r)
          /\ UNCHANGED <<now, upstream, disk, lock, etag, restarts>>

(* The proxy stops and starts again: the files stay, the tags are gone.    *)
Restart ==
  /\ restarts < MaxRestarts
  /\ restarts' = restarts + 1
  /\ lock' = Nil
  /\ etag' = Nil
  /\ pc' = [r \in Reqs |-> "idle"]
  /\ method' = [r \in Reqs |-> Nil]
  /\ cond' = [r \in Reqs |-> Nil]
  /\ ent' = [r \in Reqs |-> Nil]
  /\ sent' = [r \in Reqs |-> Nil]
  /\ rsp' = [r \in Reqs |-> Nil]
  /\ tries' = [r \in Reqs |-> 0]
  /\ first' = [r \in Reqs |-> Nil]
  /\ how' = [r \in Reqs |-> Nil]
  /\ UNCHANGED <<now, upstream, disk>>

Get(r) == Lookup(r) \/ Open(r)
Validate(r) == \/ SendHead(r) \/ HeadAnswer(r) \/ Judge(r) \/ Drop(r) \/ Forget(r)
Store(r) == PutLock(r) \/ PutRename(r) \/ PutTimes(r) \/ PutFail(r) \/ Remember(r)
Step(r) == Get(r) \/ Validate(r) \/ Serve(r) \/ Fetch(r) \/ Store(r) \/ End(r)

Next == \/ Publish \/ Tick \/ Restart
        \/ \E r \in Reqs :
             \/ \E m \in Verbs, c \in Versions \cup {Nil} : Begin(r, m, c)
             \/ Step(r)

Spec == Init /\ [][Next]_vars

-----------------------------------------------------------------------------
Served(r) == pc[r] = "done" /\ how[r] # Nil

(* A hit that had to be revalidated is a version that was the upstream's   *)
(* current one at some moment of the request, or a later one, if the dates *)
(* of versions are in order (isCacheFresh).                                *)
FreshHit == \A r \in Reqs :
  Served(r) /\ how[r] \in {"304", "200"} => ent[r].body >= first[r]

(* The same, without restriction on clients, upstreams, failures or        *)
(* restarts: a revalidated hit is stale only if the tag that was sent is   *)
(* not the one of the entry; if the upstream has given a later version no  *)
(* later date (isCacheFresh asks for "after"); or if the time of the entry *)
(* is not the one its own Put gave it, because Get met a Put between stat  *)
(* and open or between rename and Chtimes, or a Put stopped there.         *)
RevalidationSound == \A r \in Reqs :
  (/\ Served(r)
   /\ how[r] \in {"304", "200"}
   /\ sent[r] \in {Nil, ent[r].body}
   /\ ent[r].own) =>
     \/ ent[r].body >= first[r]
     \/ how[r] = "200" /\ \E v \in first[r]..up : dated[v] <= dated[ent[r].body]

(* An entry that is served without asking the upstream, because the TTL    *)
(* has not run out (ShouldBypassValidation), was superseded less than TTL  *)
(* ago if at all, if it has the time its own Put gave it.                  *)
StalenessBounded ==
  [][\A r \in Reqs :
       (how[r] # "ttl" /\ how'[r] = "ttl" /\ ent'[r].own) =>
         LET served == ent'[r].body
         IN  served = up \/ appeared[served + 1] + TTL > now]_vars

(* The cache holds answers to GETs that were 200, never an error page, the *)
(* answer to a HEAD or a body that ended early, whatever the interleaving  *)
(* of requests (cacheAndStream), but for the empty bodies that a module's  *)
(* rewriting leaves of those that ended early (applyHookRewrite).          *)
CacheHoldsAnswers == disk # Nil => disk.body \in present /\ (disk.cut => Rewrites)
=============================================================================
