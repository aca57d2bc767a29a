------------------------- MODULE ProxyCache_proof -------------------------
(***************************************************************************)
(* What the invariant of ProxyHandler_proof leaves to say: the cache holds *)
(* answers to GETs, and hits within the TTL are not older than it allows.  *)
(***************************************************************************)
EXTENDS ProxyHandler_proof

(* A body is whole, or what rewriting made of one that was not.            *)
Whole(x) == x.body \in present /\ (x.cut => Rewrites)

(* So are those that are stored, or about to be.                           *)
Wholes == /\ disk # Nil => Whole(disk)
          /\ \A r \in Reqs : pc[r] \in {"put", "rename", "times"} => Whole(rsp[r])

LEMMA WholesOfOne ==
  ASSUME TypeOK, Wholes, NEW r \in Reqs, UNCHANGED <<disk, present>>,
         \A q \in Reqs \ {r} : pc'[q] = pc[q] /\ rsp'[q] = rsp[q],
         pc'[r] \in {"put", "rename", "times"} => Whole(rsp[r])'
  PROVE  Wholes'
BY DEF Wholes, Whole

(* No step of a request moves another or changes its answer.               *)
LEMMA OthersStay ==
  ASSUME Inv, NEW r \in Reqs, Step(r)
  PROVE  \A q \in Reqs \ {r} : pc'[q] = pc[q] /\ rsp'[q] = rsp[q]
<1> USE DEF Set, upstream, local, Inv, TypeOK
<1>1. CASE Get(r)
  BY <1>1 DEF Get, Lookup, Open, Miss, Stat, Found, Fetching
<1>2. CASE Validate(r) \/ Serve(r)
  BY <1>2 DEF Validate, SendHead, HeadAnswer, Judge, Drop, Forget, Goto, Fetching,
              Head200, Head304, Head404, HeadRefused, HeadFailed, Hit, Serve
<1>3. CASE Fetch(r)
  BY <1>3 DEF Fetch, FetchOK, FetchUnchanged, FetchGone, FetchRetry, FetchFailed,
              Answered, Finished
<1>4. CASE Store(r) \/ End(r)
  BY <1>4 DEF Store, Finished, PutLock, PutRename, PutTimes, PutFail, Remember, End,
              Forgotten, Goto
<1> QED
  BY <1>1, <1>2, <1>3, <1>4 DEF Step

(* A request gets to put only with a 200 to a GET.                         *)
LEMMA FetchWhole ==
  ASSUME Inv, NEW r \in Reqs, Fetch(r), pc'[r] \in {"put", "rename", "times"}
  PROVE  Whole(rsp[r])' /\ rsp'[r].ver = up /\ rsp'[r].mod = ModTime(up)
<1> USE DEF Set, upstream, Inv, TypeOK
<1>1. ~Finished(r) /\ ~FetchRetry(r) /\ present' = present
  BY DEF Fetch, Finished, FetchRetry
<1>2. FetchOK(r)
  BY <1>1 DEF Fetch, FetchUnchanged, FetchGone, FetchFailed, Answered, ShouldStore
<1>3. PICK cut \in {FALSE, Rewrites} :
        Answered(r, 200, IF method[r] = "GET" THEN up ELSE NoBody, cut)
  BY <1>2 DEF FetchOK
<1>4. /\ method[r] = "GET"
      /\ rsp' = [rsp EXCEPT ![r] = [ver |-> up, body |-> IF method[r] = "GET" THEN up ELSE NoBody,
                                    cut |-> cut, mod |-> ModTime(up)]]
  BY <1>1, <1>3 DEF Answered, ShouldStore
<1>5. rsp'[r] = [ver |-> up, body |-> up, cut |-> cut, mod |-> ModTime(up)]
  BY <1>4
<1>6. up \in present
  BY <1>2 DEF FetchOK
<1>7. cut => Rewrites
  BY Zenon
<1> QED
  BY <1>1, <1>5, <1>6, <1>7 DEF Whole

(* Where a step of r leads, and from where.                                *)
LEMMA WayToPut ==
  ASSUME Inv, NEW r \in Reqs, Get(r) \/ Validate(r) \/ Serve(r) \/ End(r)
  PROVE  pc'[r] \notin {"put", "rename", "times"} /\ UNCHANGED upstream
                                                  /\ disk' \in {disk, Nil}
<1> USE DEF Inv, TypeOK
<1>1. CASE Get(r)
  BY <1>1 DEF Get, Lookup, Open, Miss, Stat, Found, Fetching
<1>2. CASE Validate(r) \/ Serve(r) \/ End(r)
  BY <1>2 DEF Validate, SendHead, HeadAnswer, Judge, Drop, Forget, Goto, Fetching,
              Head200, Head304, Head404, HeadRefused, HeadFailed, Hit, Serve, End
<1> QED
  BY <1>1, <1>2

LEMMA WholesStep ==
  ASSUME Inv, Wholes, NEW r \in Reqs, Step(r)
  PROVE  Wholes'
<1> USE DEF Set, upstream, local
<1>1. \A q \in Reqs \ {r} : pc'[q] = pc[q] /\ rsp'[q] = rsp[q]
  BY OthersStay
<1>2. CASE Get(r) \/ Validate(r) \/ Serve(r) \/ End(r)
  BY <1>1, <1>2, WayToPut DEF Wholes, Whole
<1>3. CASE Fetch(r)
  <2>1. UNCHANGED <<disk, present>>
    BY <1>3 DEF Fetch
  <2> QED
    BY <1>1, <1>3, <2>1, FetchWhole, WholesOfOne DEF Inv
<1>4. CASE PutLock(r) \/ Remember(r)
  <2>1. UNCHANGED <<disk, present>>
    BY <1>4 DEF PutLock, Remember
  <2>2. pc'[r] \in {"put", "rename", "times"} => pc[r] = "put" /\ rsp' = rsp
    BY <1>4 DEF Inv, TypeOK, PutLock, Remember, Goto, Finished
  <2>3. pc'[r] \in {"put", "rename", "times"} => Whole(rsp[r])'
    BY <2>1, <2>2 DEF Wholes, Whole
  <2> QED
    BY <1>1, <2>1, <2>3, WholesOfOne DEF Inv
<1>5. CASE PutRename(r)
  <2>1. /\ pc[r] = "rename" /\ UNCHANGED <<rsp, present>>
        /\ disk'.body = rsp[r].body /\ disk'.cut = rsp[r].cut
    BY <1>5 DEF PutRename, Goto
  <2> QED
    BY <1>1, <2>1 DEF Wholes, Whole
<1>6. CASE PutTimes(r) \/ PutFail(r)
  <2>1. disk' = disk \/ (Chtimes(r) /\ disk \in Entries /\ disk # Nil)
    BY <1>6, NilFresh DEF PutTimes, PutFail, Goto, Inv, TypeOK, ReqOK, Locked
  <2>2. disk' # Nil => disk # Nil /\ disk'.body = disk.body /\ disk'.cut = disk.cut
    BY <2>1 DEF Chtimes, Entries
  <2>3. pc'[r] \notin {"put", "rename", "times"} /\ present' = present
    BY <1>6 DEF PutTimes, PutFail, Goto, Finished, Inv, TypeOK
  <2> QED
    BY <1>1, <2>2, <2>3 DEF Wholes, Whole
<1> QED
  BY <1>2, <1>3, <1>4, <1>5, <1>6 DEF Step, Store

(* The cache only ever holds bodies of GETs that were answered 200         *)
(* (cacheAndStream), whatever is asked for, fails or restarts, and without *)
(* a rewriting hook (applyHookRewrite) none that ended early.              *)
THEOREM CacheAlwaysHoldsAnswers == Spec => []CacheHoldsAnswers
<1>1. Init => Wholes
  BY DEF Init, Wholes
<1>2. Inv /\ Wholes /\ [Next]_vars => Wholes'
  <2> SUFFICES ASSUME Inv, Wholes, [Next]_vars PROVE Wholes'
    OBVIOUS
  <2> USE DEF upstream, local, Wholes, Whole
  <2>1. CASE Publish
    <3>1. present \subseteq present' /\ UNCHANGED <<disk, pc, rsp>>
      BY <2>1 DEF Publish
    <3> QED
      BY <3>1
  <2>2. CASE Tick \/ UNCHANGED vars
    BY <2>2 DEF Tick, vars
  <2>3. CASE Restart
    BY <2>3 DEF Restart
  <2>4. ASSUME NEW r \in Reqs, NEW m, NEW c, Begin(r, m, c) PROVE Wholes'
    BY <2>4 DEF Begin, Goto, Inv, TypeOK
  <2> QED
    BY <2>1, <2>2, <2>3, <2>4, WholesStep DEF Next
<1>3. Wholes => CacheHoldsAnswers
  BY DEF Wholes, Whole, CacheHoldsAnswers
<1> QED
  BY Invariance, <1>1, <1>2, <1>3, PTL DEF Spec

-----------------------------------------------------------------------------
(* Time t is not after the version that supersedes v appeared.             *)
Before(v, t) == v < up => t <= appeared[v + 1]

(* The time that a Put gives to a body is one at which it was current.     *)
Timely(e) == e.own => Before(e.body, e.mtime)
Given(r) == pc[r] \in {"put", "rename", "times"} => Before(rsp[r].ver, rsp[r].mod)
Times == (disk # Nil => Timely(disk)) /\ \A r \in Reqs : Given(r)

LEMMA TimesOfOne ==
  ASSUME TypeOK, Times, NEW r \in Reqs, UNCHANGED upstream, Given(r)',
         disk' # Nil => Timely(disk)',
         \A q \in Reqs \ {r} : pc'[q] = pc[q] /\ rsp'[q] = rsp[q]
  PROVE  Times'
BY DEF Times, Given, Timely, Before, upstream

(* What Chtimes writes is the time that was given.                         *)
LEMMA ChtimesTimely ==
  ASSUME Inv, Times, NEW r \in Reqs, pc[r] = "times", Chtimes(r), UNCHANGED upstream
  PROVE  Timely(disk)'
<1>1. /\ disk \in Entries /\ disk.body = rsp[r].ver /\ Before(rsp[r].ver, rsp[r].mod)
  BY DEF Inv, TypeOK, ReqOK, Locked, Storing, Times, Given
<1>2. disk'.body = rsp[r].ver /\ disk'.mtime = rsp[r].mod
  BY <1>1 DEF Chtimes, Entries
<1> QED
  BY <1>1, <1>2 DEF Timely, Before, upstream

LEMMA TimesStep ==
  ASSUME Inv, Times, NEW r \in Reqs, Step(r)
  PROVE  Times'
<1>0. \A q \in Reqs \ {r} : pc'[q] = pc[q] /\ rsp'[q] = rsp[q]
  BY OthersStay
<1>1. CASE Get(r) \/ Validate(r) \/ Serve(r) \/ End(r)
  <2>1. pc'[r] \notin {"put", "rename", "times"} /\ UNCHANGED upstream
        /\ disk' \in {disk, Nil}
    BY <1>1, WayToPut
  <2> QED
    BY <1>0, <2>1, TimesOfOne DEF Inv, Times, Given, Timely, Before, upstream
<1>2. CASE Fetch(r)
  <2>1. UNCHANGED <<disk, upstream>>
    BY <1>2 DEF Fetch
  <2>2. pc'[r] \in {"put", "rename", "times"} => rsp'[r].ver = up
    BY <1>2, FetchWhole
  <2>3. ~(up < up)
    BY DEF Inv, TypeOK, Versions
  <2>4. Given(r)'
    BY <2>1, <2>2, <2>3 DEF Given, Before, upstream
  <2>5. disk' # Nil => Timely(disk)'
    BY <2>1 DEF Times, Timely, Before, upstream
  <2> QED
    BY <1>0, <2>1, <2>4, <2>5, TimesOfOne DEF Inv
<1>3. CASE PutLock(r) \/ PutRename(r) \/ Remember(r)
  <2>1. UNCHANGED upstream
    BY <1>3 DEF PutLock, PutRename, Remember, upstream
  <2>2. disk' = disk \/ disk'.own = FALSE
    <3>1. CASE PutRename(r)
      BY <3>1 DEF PutRename
    <3>2. CASE PutLock(r) \/ Remember(r)
      BY <3>2 DEF PutLock, Remember
    <3> QED
      BY <1>3, <3>1, <3>2
  <2>3. pc'[r] \in {"put", "rename", "times"} => pc[r] \in {"put", "rename"} /\ rsp' = rsp
    <3>1. CASE PutLock(r) \/ PutRename(r)
      <4>1. pc[r] \in {"put", "rename"} /\ rsp' = rsp
        BY <3>1 DEF PutLock, PutRename, Goto, local
      <4> QED
        BY <4>1
    <3>2. CASE Remember(r)
      <4>1. pc'[r] = "done"
        BY <3>2 DEF Remember, Finished, Inv, TypeOK
      <4> QED
        BY <4>1
    <3> QED
      BY <1>3, <3>1, <3>2
  <2>4. disk' # Nil => Timely(disk)'
    BY <2>1, <2>2 DEF Times, Timely, Before, upstream
  <2>5. Given(r)'
    BY <2>1, <2>3 DEF Times, Given, Before, upstream
  <2> QED
    BY <1>0, <2>1, <2>4, <2>5, TimesOfOne DEF Inv
<1>4. CASE PutTimes(r) \/ PutFail(r)
  <2>1. /\ UNCHANGED upstream
        /\ disk' = disk \/ (Chtimes(r) /\ pc[r] = "times")
        /\ pc'[r] \notin {"put", "rename", "times"}
    BY <1>4 DEF PutTimes, PutFail, Goto, Finished, Inv, TypeOK, upstream
  <2>2. disk' # Nil => Timely(disk)'
    BY <2>1, ChtimesTimely DEF Times, Timely, Before, upstream
  <2> QED
    BY <1>0, <2>1, <2>2, TimesOfOne DEF Inv, Given
<1> QED
  BY <1>1, <1>2, <1>3, <1>4 DEF Step, Store

(* A version that appears now is later than all the times there are.       *)
LEMMA TimesPublish ==
  ASSUME Inv, Times, Publish
  PROVE  Times'
<1>1. /\ up' = up + 1 /\ appeared' = [appeared EXCEPT ![up + 1] = now]
      /\ UNCHANGED <<disk, pc, rsp>>
  BY DEF Publish, local
<1>2. up \in Versions /\ now \in Nat /\ appeared \in [Versions -> Nat] /\ up < MaxVer
  BY DEF Publish, Inv, TypeOK
<1>3. up \in Nat /\ up + 1 \in Versions
  BY <1>2, BoundsType DEF Versions
<1>4. ASSUME NEW v \in Versions, NEW t \in Nat, t <= now, Before(v, t), v <= up
      PROVE  v < up' => t <= appeared'[v + 1]
  <2>1. v \in Nat
    BY DEF Versions
  <2>2. CASE v < up
    <3>1. appeared'[v + 1] = appeared[v + 1]
      BY <1>1, <1>2, <1>3, <2>1, <2>2, BoundsType DEF Versions
    <3> QED
      BY <1>4, <2>2, <3>1 DEF Before
  <2>3. CASE v = up
    BY <1>1, <1>2, <1>3, <1>4, <2>3
  <2> QED
    BY <1>3, <1>4, <2>1, <2>2, <2>3
<1>5. disk' # Nil => Timely(disk)'
  <2> SUFFICES ASSUME disk # Nil, disk.own PROVE Before(disk.body, disk.mtime)'
    BY <1>1 DEF Timely
  <2>1. /\ disk.body \in Versions /\ disk.body <= up /\ disk.mtime \in Nat
        /\ disk.mtime <= now /\ Before(disk.body, disk.mtime)
    BY DEF Inv, TypeOK, Stored, EntryOK, Entries, Times, Timely
  <2> QED
    BY <1>1, <1>4, <2>1 DEF Before
<1>6. ASSUME NEW r \in Reqs PROVE Given(r)'
  <2> SUFFICES ASSUME pc[r] \in {"put", "rename", "times"}
               PROVE  Before(rsp[r].ver, rsp[r].mod)'
    BY <1>1 DEF Given
  <2>1. /\ rsp[r].ver \in Versions /\ rsp[r].ver <= up /\ rsp[r].mod \in Nat
        /\ rsp[r].mod <= now /\ Before(rsp[r].ver, rsp[r].mod)
    BY DEF Inv, TypeOK, ReqOK, Storing, Answers, Times, Given
  <2> QED
    BY <1>1, <1>4, <2>1 DEF Before
<1> QED
  BY <1>5, <1>6 DEF Times

(* A hit becomes one within the TTL only when its file is opened.          *)
LEMMA DecidedByFound ==
  ASSUME Inv, NEW r \in Reqs, NEW q \in Reqs, Step(q), how[r] # "ttl", how'[r] = "ttl"
  PROVE  q = r /\ pc[r] = "open" /\ Found(r) /\ Bypass(Opened(r)) /\ ent'[r] = Opened(r)
<1> USE DEF Set, local, Inv, TypeOK
<1>1. ~Validate(q) /\ ~Lookup(q)
  BY DEF Validate, SendHead, HeadAnswer, Head200, Head304, Head404, HeadRefused,
         HeadFailed, Hit, Judge, Drop, Forget, Lookup, Miss, Stat
<1>2. ~Serve(q) /\ ~Fetch(q) /\ ~Store(q)
  BY DEF Serve, Fetch, Store, PutLock, PutRename, PutTimes, PutFail, Remember
<1>3. ~End(q)
  BY NilFresh DEF End, Forgotten, Reasons
<1>4. Open(q)
  BY <1>1, <1>2, <1>3 DEF Step, Get
<1>5. Found(q)
  BY <1>4 DEF Open, Miss
<1> QED
  BY <1>4, <1>5 DEF Open, Found

(* A hit that the TTL alone justifies (ShouldBypassValidation) is a        *)
(* version that was superseded less than TTL ago, if at all, if the entry  *)
(* has the time of its own Put.                                            *)
THEOREM StalenessAlwaysBounded == Spec => StalenessBounded
<1>1. Init => Times
  BY DEF Init, Times, Given
<1>2. Inv /\ Times /\ [Next]_vars => Times'
  <2> SUFFICES ASSUME Inv, Times, [Next]_vars PROVE Times'
    OBVIOUS
  <2> USE DEF upstream, local
  <2>1. CASE Tick \/ UNCHANGED vars
    BY <2>1 DEF Tick, vars, Times, Given, Timely, Before
  <2>2. CASE Restart
    BY <2>2 DEF Restart, Times, Given, Timely, Before
  <2>3. ASSUME NEW r \in Reqs, NEW m, NEW c, Begin(r, m, c) PROVE Times'
    <3>1. /\ UNCHANGED <<upstream, disk, rsp>>
          /\ pc' = [pc EXCEPT ![r] = "lookup"] /\ pc \in [Reqs -> PCs]
      BY <2>3 DEF Begin, Goto, Inv, TypeOK
    <3> QED
      BY <3>1 DEF Times, Given, Timely, Before
  <2> QED
    BY <2>1, <2>2, <2>3, TimesStep, TimesPublish DEF Next
<1>3. ASSUME Inv, Times, [Next]_vars, NEW r \in Reqs,
             how[r] # "ttl", how'[r] = "ttl", ent'[r].own
      PROVE  \/ ent'[r].body = up
             \/ appeared[ent'[r].body + 1] + TTL > now
  <2>1. \E q \in Reqs : Step(q)
    <3>1. ~UNCHANGED vars /\ ~Publish /\ ~Tick
      BY <1>3 DEF vars, Publish, Tick
    <3>2. ~Restart
      BY <1>3, NilFresh DEF Restart, Reasons
    <3>3. ASSUME NEW q \in Reqs, NEW m, NEW c PROVE ~Begin(q, m, c)
      BY <1>3 DEF Begin
    <3> QED
      BY <1>3, <3>1, <3>2, <3>3 DEF Next
  <2>2. /\ pc[r] = "open" /\ disk # Nil /\ Bypass(Opened(r)) /\ ent'[r] = Opened(r)
    BY <1>3, <2>1, DecidedByFound DEF Found
  <2>3. /\ ent[r].own /\ ent[r] = disk /\ disk \in Entries
    BY <1>3, <2>2 DEF Inv, TypeOK, ReqOK, Statted, Opened
  <2>4. /\ ent'[r].body = disk.body /\ Opened(r).mtime = disk.mtime
        /\ disk.body \in Versions /\ disk.body <= up /\ disk.mtime \in Nat
        /\ Before(disk.body, disk.mtime)
    BY <1>3, <2>2, <2>3 DEF Inv, Stored, EntryOK, Entries, Times, Timely, Opened
  <2>5. up \in Nat /\ up <= MaxVer /\ now \in Nat /\ appeared \in [Versions -> Nat]
        /\ disk.body \in Nat
    BY <1>3, <2>4, BoundsType DEF Inv, TypeOK, Versions
  <2>6. CASE disk.body < up
    <3>1. disk.mtime <= appeared[disk.body + 1] /\ appeared[disk.body + 1] \in Nat
      BY <2>4, <2>5, <2>6, BoundsType DEF Before, Versions
    <3> QED
      BY <2>2, <2>4, <2>5, <3>1, BoundsType DEF Bypass
  <2> QED
    BY <2>4, <2>5, <2>6
<1>4. Inv /\ Times /\ [Next]_vars =>
        [\A r \in Reqs : (how[r] # "ttl" /\ how'[r] = "ttl" /\ ent'[r].own) =>
           LET served == ent'[r].body
           IN  served = up \/ appeared[served + 1] + TTL > now]_vars
  BY <1>3
<1> QED
  BY Invariance, <1>1, <1>2, <1>4, PTL DEF Spec, StalenessBounded
=============================================================================
