------------------------ MODULE ProxyHandler_proof ------------------------
(***************************************************************************)
(* Revalidation is sound for any number of concurrent requests, versions,  *)
(* restarts and failures, whatever headers the upstream sends: a stale hit *)
(* needs a remembered tag that is not the entry's, a later version whose   *)
(* date is not later, or an entry that has another entry's time.           *)
(***************************************************************************)
EXTENDS ProxyHandler, TLAPS

(* Versions appear in order; a date is that of the appearance or earlier.  *)
Clock ==
  /\ \A v \in Versions : v <= up => dated[v] <= appeared[v] /\ appeared[v] <= now
  /\ \A u, v \in Versions : u < v /\ v <= up =>
       /\ appeared[u] <= appeared[v]
       /\ Orderly => dated[u] < dated[v]

(* An entry is a published version; its time is not in the future, and is  *)
(* the version's date if it is the one that its own Put gave it.           *)
EntryOK(e) == /\ e.body \in Versions /\ e.body <= up
              /\ e.mtime <= now
              /\ e.own /\ Dated => e.mtime = dated[e.body]

Stored == disk # Nil => EntryOK(disk)

(* What a request has opened is such an entry.                             *)
Holding(r) ==
  /\ ent[r] # Nil => EntryOK(ent[r])
  /\ pc[r] \in {"open", "reval", "headSent", "judge", "serve"} => ent[r] # Nil
  /\ how[r] # Nil => ent[r] # Nil /\ pc[r] \in {"serve", "done"}

(* Between stat and open the file is the same one, is gone, or its time is *)
(* no longer known to be that of its body.                                 *)
Statted(r) == pc[r] = "open" /\ ent[r].own => disk \in {Nil, ent[r]}

(* The answer to a HEAD is no older than the HEAD.                         *)
Asking(r) == pc[r] \in {"headSent", "judge"} => first[r] \in Versions /\ first[r] <= up
Judging(r) == pc[r] = "judge" =>
  /\ rsp[r] # Nil
  /\ first[r] <= rsp[r].ver /\ rsp[r].ver <= up
  /\ IF Dated THEN rsp[r].mod = dated[rsp[r].ver]
              ELSE rsp[r].mod > ent[r].mtime

(* What is being stored is the body of a GET and its own time.             *)
Storing(r) == pc[r] \in {"put", "rename", "times", "remember"} =>
  /\ rsp[r] # Nil
  /\ rsp[r].body = rsp[r].ver /\ rsp[r].ver <= up
  /\ rsp[r].mod <= now
  /\ Dated => rsp[r].mod = dated[rsp[r].ver]

(* Nobody else touches the entry between rename and Chtimes.               *)
Locked(r) ==
  /\ pc[r] \in {"rename", "times"} => lock = r
  /\ pc[r] = "times" => disk # Nil /\ disk.body = rsp[r].body /\ ~disk.own

(* A body that current versions date no later than.                        *)
Overdated(r) == \E v \in first[r]..up : dated[v] <= dated[ent[r].body]

(* RevalidationSound, already true when the hit is decided.                *)
HitSound(r) == how[r] \in {"304", "200"} =>
  /\ first[r] \in Versions
  /\ sent[r] \in {Nil, ent[r].body} /\ ent[r].own =>
       ent[r].body >= first[r] \/ (how[r] = "200" /\ Overdated(r))

ReqOK(r) == /\ Holding(r) /\ Statted(r) /\ Asking(r) /\ Judging(r) /\ Storing(r)
            /\ Locked(r) /\ HitSound(r)

Inv == TypeOK /\ Clock /\ Stored /\ \A r \in Reqs : ReqOK(r)

-----------------------------------------------------------------------------
(* Steps of others.                                                        *)

(* All that another request does to q is to overtake it between stat and   *)
(* open.                                                                   *)
Overtaken(q) == pc[q] = "open" /\ ent'[q] = [ent[q] EXCEPT !.own = FALSE]
Untouched(q) == /\ pc'[q] = pc[q] /\ sent'[q] = sent[q] /\ first'[q] = first[q]
                /\ rsp'[q] = rsp[q] /\ how'[q] = how[q]
                /\ ent'[q] = ent[q] \/ Overtaken(q)

(* What q relies on while others write.                                    *)
Spared(q) == /\ pc[q] = "open" /\ ent'[q].own => disk' \in {disk, Nil}
             /\ pc[q] = "times" => disk' = disk
             /\ pc[q] \in {"rename", "times"} => lock' = lock

(* The past of the upstream does not change.                               *)
Later == /\ up <= up' /\ now <= now'
         /\ \A v \in Versions : v <= up => dated'[v] = dated[v]

LEMMA EntryLater ==
  ASSUME TypeOK, TypeOK', Later, NEW e \in Entries, EntryOK(e)
  PROVE  EntryOK(e)'
<1> /\ e.body \in Nat /\ e.mtime \in Nat /\ up \in Nat /\ up' \in Nat
    /\ now \in Nat /\ now' \in Nat
  BY DEF TypeOK, Entries, Versions, NoBody
<1> QED
  BY DEF EntryOK, Later

LEMMA HitSoundLater ==
  ASSUME Inv, TypeOK', Later, NEW q \in Reqs, Untouched(q)
  PROVE  HitSound(q)'
<1> SUFFICES ASSUME how[q] \in {"304", "200"} PROVE HitSound(q)'
  BY DEF HitSound, Untouched
<1>1. TypeOK /\ Holding(q) /\ HitSound(q)
  BY DEF Inv, ReqOK
<1>2. /\ ent[q] \in Entries /\ EntryOK(ent[q]) /\ pc[q] # "open"
  BY <1>1, NilFresh DEF Holding, TypeOK, Reasons
<1>3. /\ ent'[q] = ent[q] /\ first'[q] = first[q] /\ sent'[q] = sent[q]
      /\ how'[q] = how[q]
  BY <1>2 DEF Untouched, Overtaken
<1>4. first[q] \in Nat /\ first[q] >= 1
      /\ up \in Versions /\ up' \in Versions /\ up <= up'
  BY <1>1 DEF HitSound, Versions, TypeOK, Later
<1>5. Overdated(q) => Overdated(q)'
  <2> SUFFICES ASSUME NEW v \in first[q]..up, dated[v] <= dated[ent[q].body]
               PROVE  Overdated(q)'
    BY DEF Overdated
  <2>1. v \in Versions /\ v <= up /\ v \in first[q]..up'
    BY <1>4, BoundsType DEF Versions
  <2>2. dated'[v] = dated[v] /\ dated'[ent[q].body] = dated[ent[q].body]
    BY <1>2, <2>1 DEF Later, EntryOK
  <2> QED
    BY <1>3, <2>1, <2>2 DEF Overdated
<1> QED
  BY <1>1, <1>3, <1>5 DEF HitSound

(* A request is not disturbed by a step that leaves its own state alone,   *)
(* nor the entry while the request holds the lock or has read its time.    *)
LEMMA Undisturbed ==
  ASSUME Inv, TypeOK', Later, NEW q \in Reqs, Untouched(q), Spared(q)
  PROVE  ReqOK(q)'
<1>1. ReqOK(q) /\ TypeOK
  BY DEF Inv
<1>2. pc'[q] = pc[q] /\ rsp'[q] = rsp[q] /\ how'[q] = how[q] /\ first'[q] = first[q]
  BY DEF Untouched
<1>3. Holding(q)'
  <2>1. \A e \in Entries : EntryOK(e) => EntryOK(e)'
    BY <1>1, EntryLater
  <2>2. CASE ent'[q] = ent[q]
    <3>1. ent[q] # Nil => ent[q] \in Entries /\ EntryOK(ent[q])
      BY <1>1 DEF ReqOK, Holding, TypeOK
    <3> QED
      BY <1>1, <1>2, <2>1, <2>2, <3>1 DEF ReqOK, Holding, EntryOK
  <2>3. CASE Overtaken(q)
    <3>1. ent[q] # Nil /\ ent[q] \in Entries /\ EntryOK(ent[q])
      BY <1>1, <2>3 DEF ReqOK, Holding, Overtaken, TypeOK
    <3>2. /\ ent'[q].body = ent[q].body /\ ent'[q].mtime = ent[q].mtime
          /\ ~ent'[q].own /\ ent'[q] \in Entries
      BY <2>3, <3>1 DEF Overtaken, Entries
    <3> QED
      BY <1>1, <1>2, <2>1, <3>1, <3>2, NilFresh DEF ReqOK, Holding, EntryOK
  <2> QED
    BY <2>2, <2>3 DEF Untouched
<1>4. Statted(q)'
  <2> SUFFICES ASSUME pc[q] = "open", ent'[q].own PROVE disk' \in {Nil, ent'[q]}
    BY <1>2 DEF Statted
  <2>1. ent[q] \in Entries
    BY <1>1 DEF ReqOK, Holding, TypeOK
  <2>2. ent'[q] = ent[q]
    BY <2>1 DEF Untouched, Overtaken, Entries
  <2> QED
    BY <1>1, <2>2 DEF ReqOK, Statted, Spared
<1>5. Asking(q)'
  BY <1>1, <1>2 DEF ReqOK, Asking, Later, TypeOK, Versions
<1>6. Judging(q)'
  <2> SUFFICES ASSUME pc[q] = "judge" PROVE Judging(q)'
    BY <1>2 DEF Judging
  <2>1. rsp[q] \in Answers /\ ent'[q] = ent[q]
    BY <1>1 DEF ReqOK, Judging, TypeOK, Untouched, Overtaken
  <2> QED
    BY <1>1, <1>2, <2>1 DEF ReqOK, Judging, Later, TypeOK, Versions, Answers
<1>7. Storing(q)'
  <2> SUFFICES ASSUME pc[q] \in {"put", "rename", "times", "remember"}
               PROVE  Storing(q)'
    BY <1>2 DEF Storing
  <2>1. /\ rsp[q] # Nil
        /\ rsp[q].body = rsp[q].ver /\ rsp[q].ver <= up
        /\ rsp[q].mod <= now
        /\ Dated => rsp[q].mod = dated[rsp[q].ver]
    BY <1>1 DEF ReqOK, Storing
  <2>2. rsp[q].ver \in Versions /\ rsp[q].mod \in Nat
    BY <1>1, <2>1 DEF TypeOK, Answers
  <2>3. up \in Nat /\ up' \in Nat /\ now \in Nat /\ now' \in Nat
    BY <1>1 DEF TypeOK, Versions
  <2>4. rsp[q].ver <= up' /\ rsp[q].mod <= now'
    BY <2>1, <2>2, <2>3 DEF Later, Versions
  <2>5. Dated => rsp[q].mod = dated'[rsp[q].ver]
    BY <2>1, <2>2 DEF Later
  <2> QED
    BY <1>2, <2>1, <2>4, <2>5 DEF Storing
<1>8. Locked(q)'
  BY <1>1, <1>2 DEF ReqOK, Locked, Spared
<1> QED
  BY <1>3, <1>4, <1>5, <1>6, <1>7, <1>8, HitSoundLater DEF ReqOK

(* A step of r at an unchanged upstream and clock.                         *)
LEMMA OneStep ==
  ASSUME Inv, TypeOK', UNCHANGED <<now, upstream>>, Stored',
         NEW r \in Reqs, ReqOK(r)',
         \A q \in Reqs \ {r} : Untouched(q) /\ Spared(q)
  PROVE  Inv'
<1>1. Clock'
  BY DEF Inv, Clock, upstream
<1>2. Later
  BY DEF Inv, TypeOK, Later, upstream, Versions
<1>3. \A q \in Reqs \ {r} : ReqOK(q)'
  BY <1>2, Undisturbed
<1> QED
  BY <1>1, <1>3 DEF Inv

(* A step of r that changes neither the entry nor the lock.                *)
LEMMA LocalStep ==
  ASSUME Inv, TypeOK', UNCHANGED <<now, upstream, disk, lock>>,
         NEW r \in Reqs, ReqOK(r)', \A q \in Reqs \ {r} : Untouched(q)
  PROVE  Inv'
<1>1. Stored'
  BY DEF Inv, Stored, EntryOK, upstream
<1>2. \A q \in Reqs \ {r} : Spared(q)
  BY DEF Spared
<1> QED
  BY <1>1, <1>2, OneStep

-----------------------------------------------------------------------------
(* The three ways a request moves on: to the upstream, to a hit, to its    *)
(* end.                                                                    *)

LEMMA FetchingInv ==
  ASSUME Inv, NEW r \in Reqs, Fetching(r),
         pc[r] \notin {"idle", "serve", "done"},
         etag' \in Versions \cup {Nil},
         UNCHANGED <<now, upstream, disk, lock, request, restarts, how>>
  PROVE  Inv'
<1> USE DEF Fetching, Set, upstream, request
<1>1. TypeOK'
  BY DEF Inv, TypeOK, PCs
<1>2. \A q \in Reqs \ {r} : Untouched(q)
  BY DEF Inv, TypeOK, Untouched
<1>3. ReqOK(r)
  BY DEF Inv
<1>4. pc'[r] = "fetch" /\ ent'[r] = Nil /\ how'[r] = Nil
  BY <1>3 DEF Inv, TypeOK, ReqOK, Holding
<1>5. ReqOK(r)'
  BY <1>3, <1>4, NilFresh
  DEF ReqOK, Holding, Statted, Asking, Judging, Storing, Locked, HitSound,
      Reasons
<1> QED
  BY <1>1, <1>2, <1>5, LocalStep DEF Inv

LEMMA HitInv ==
  ASSUME Inv, NEW r \in Reqs, NEW why \in Reasons,
         NEW e \in Entries, EntryOK(e), pc[r] \in {"open", "headSent", "judge"},
         Hit(r, why), ent' = Set(ent, r, e),
         rsp' \in {rsp, Set(rsp, r, Nil)}, etag' \in Versions \cup {Nil},
         why \in {"304", "200"} =>
           /\ first[r] \in Versions
           /\ sent[r] \in {Nil, e.body} /\ e.own =>
                \/ e.body >= first[r]
                \/ why = "200" /\ \E v \in first[r]..up : dated[v] <= dated[e.body],
         UNCHANGED <<now, upstream, disk, lock, request, sent, first, tries, restarts>>
  PROVE  Inv'
<1> USE DEF Hit, Set, upstream, request
<1>1. TypeOK'
  BY DEF Inv, TypeOK, PCs
<1>2. \A q \in Reqs \ {r} : Untouched(q)
  BY DEF Inv, TypeOK, Untouched
<1>3. ReqOK(r)
  BY DEF Inv
<1>4. /\ pc'[r] = "serve" /\ ent'[r] = e /\ how'[r] = why
      /\ first'[r] = first[r] /\ sent'[r] = sent[r]
  BY DEF Inv, TypeOK
<1>5. EntryOK(e)' /\ e # Nil
  BY NilFresh DEF EntryOK
<1>6. ReqOK(r)'
  BY <1>3, <1>4, <1>5
  DEF ReqOK, Holding, Statted, Asking, Judging, Storing, Locked, HitSound,
      EntryOK, Overdated
<1> QED
  BY <1>1, <1>2, <1>6, LocalStep DEF Inv

(* The lock may have been r's, and the entry been written under it.        *)
LEMMA FinishedInv ==
  ASSUME Inv, NEW r \in Reqs, Finished(r), pc[r] \notin {"idle", "serve", "open"},
         how[r] = Nil, etag' \in Versions \cup {Nil},
         lock' = lock \/ (lock = r /\ lock' = Nil),
         disk' \in Entries \cup {Nil}, Stored',
         \A q \in Reqs \ {r} : pc[q] = "open" /\ ent[q].own => disk' \in {disk, Nil},
         disk' = disk \/ lock = r,
         UNCHANGED <<now, upstream, request, restarts, how>>
  PROVE  Inv'
<1> USE DEF Finished, Set, upstream, request
<1>1. TypeOK'
  <2>1. lock' \in Reqs \cup {Nil}
    BY DEF Inv, TypeOK
  <2>2. /\ pc' \in [Reqs -> PCs]
        /\ rsp' \in [Reqs -> Answers \cup {Nil}]
        /\ tries' \in [Reqs -> 0..1]
    BY DEF Inv, TypeOK, PCs
  <2> QED
    BY <2>1, <2>2 DEF Inv, TypeOK
<1>2. ReqOK(r)
  BY DEF Inv
<1>3. /\ pc'[r] = "done" /\ ent'[r] = ent[r] /\ how'[r] = Nil
  BY DEF Inv, TypeOK
<1>4. ReqOK(r)'
  BY <1>2, <1>3, NilFresh
  DEF ReqOK, Holding, Statted, Asking, Judging, Storing, Locked, HitSound,
      EntryOK, Reasons
<1>5. \A q \in Reqs \ {r} : Untouched(q) /\ Spared(q)
  <2> SUFFICES ASSUME NEW q \in Reqs \ {r} PROVE Untouched(q) /\ Spared(q)
    OBVIOUS
  <2>1. Untouched(q)
    BY DEF Inv, TypeOK, Untouched
  <2>2. pc[q] \in {"rename", "times"} => lock # r
    BY DEF Inv, ReqOK, Locked
  <2> QED
    BY <2>1, <2>2 DEF Spared
<1> QED
  BY <1>1, <1>4, <1>5, OneStep

(* A call that leaves the entry and the lock alone.                        *)
LEMMA RelayedInv ==
  ASSUME Inv, NEW r \in Reqs, Finished(r), pc[r] \notin {"idle", "serve", "open"},
         how[r] = Nil, etag' \in Versions \cup {Nil},
         UNCHANGED <<now, upstream, disk, lock, request, restarts, how>>
  PROVE  Inv'
<1>1. Stored' /\ disk' \in Entries \cup {Nil}
  BY DEF Inv, Stored, EntryOK, upstream, TypeOK
<1> QED
  BY <1>1, FinishedInv

-----------------------------------------------------------------------------
(* The actions.                                                            *)

LEMMA BeginInv ==
  ASSUME Inv, NEW r \in Reqs, NEW m \in Verbs,
         NEW c \in Versions \cup {Nil}, Begin(r, m, c)
  PROVE  Inv'
<1> USE DEF Begin, Goto, Set, upstream, request, local
<1>1. TypeOK'
  BY DEF Inv, TypeOK, PCs
<1>2. \A q \in Reqs \ {r} : Untouched(q)
  BY DEF Inv, TypeOK, Untouched
<1>3. ReqOK(r)
  BY DEF Inv
<1>4. /\ pc[r] = "idle" /\ pc'[r] = "lookup" /\ ent'[r] = ent[r]
      /\ how'[r] = Nil
  BY <1>3 DEF Inv, TypeOK, ReqOK, Holding
<1>5. ReqOK(r)'
  BY <1>3, <1>4, NilFresh
  DEF ReqOK, Holding, Statted, Asking, Judging, Storing, Locked, HitSound,
      EntryOK, Reasons
<1> QED
  BY <1>1, <1>2, <1>5, LocalStep DEF Inv

LEMMA MissInv ==
  ASSUME Inv, NEW r \in Reqs, Miss(r), pc[r] \in {"lookup", "open"},
         UNCHANGED <<now, upstream, disk, lock, etag, request, restarts>>
  PROVE  Inv'
<1>1. etag' \in Versions \cup {Nil}
  BY DEF Inv, TypeOK
<1> QED
  BY <1>1, FetchingInv DEF Miss

LEMMA LookupInv ==
  ASSUME Inv, NEW r \in Reqs, Lookup(r)
  PROVE  Inv'
<1>1. /\ pc[r] = "lookup"
      /\ UNCHANGED <<now, upstream, disk, lock, etag, request, restarts>>
  BY DEF Lookup
<1>2. CASE Miss(r)
  BY <1>1, <1>2, MissInv
<1>3. CASE Stat(r)
  <2> USE DEF Stat, Set, upstream, request
  <2>1. disk \in Entries /\ EntryOK(disk) /\ disk # Nil
    BY <1>3 DEF Inv, TypeOK, Stored
  <2>2. TypeOK'
    BY <1>1, <1>3, <2>1 DEF Inv, TypeOK, PCs
  <2>3. \A q \in Reqs \ {r} : Untouched(q)
    BY <1>1, <1>3 DEF Inv, TypeOK, Untouched
  <2>4. ReqOK(r)
    BY DEF Inv
  <2>5. pc'[r] = "open" /\ ent'[r] = disk /\ how'[r] = Nil
    BY <1>1, <1>3, <2>4 DEF Inv, TypeOK, ReqOK, Holding
  <2>6. ReqOK(r)'
    BY <1>1, <2>1, <2>4, <2>5, NilFresh
    DEF ReqOK, Holding, Statted, Asking, Judging, Storing, Locked, HitSound,
        EntryOK, Reasons
  <2> QED
    BY <1>1, <2>2, <2>3, <2>6, LocalStep DEF Inv
<1> QED
  BY <1>2, <1>3 DEF Lookup

(* The entry opened has its own time only if no Put came between.          *)
LEMMA OpenedOK ==
  ASSUME Inv, NEW r \in Reqs, pc[r] = "open", disk # Nil
  PROVE  Opened(r) \in Entries /\ EntryOK(Opened(r)) /\ Opened(r) # Nil
<1>1. /\ disk \in Entries /\ EntryOK(disk)
      /\ ent[r] \in Entries /\ EntryOK(ent[r])
      /\ ent[r].own => disk = ent[r]
  BY DEF Inv, TypeOK, Stored, ReqOK, Holding, Statted
<1>2. Opened(r) \in Entries /\ EntryOK(Opened(r))
  BY <1>1 DEF Opened, Entries, EntryOK
<1> QED
  BY <1>2, NilFresh

LEMMA OpenInv ==
  ASSUME Inv, NEW r \in Reqs, Open(r)
  PROVE  Inv'
<1>1. /\ pc[r] = "open"
      /\ UNCHANGED <<now, upstream, disk, lock, etag, request, restarts>>
      /\ etag' \in Versions \cup {Nil}
  BY DEF Open, Inv, TypeOK
<1>2. CASE Miss(r)
  BY <1>1, <1>2, MissInv
<1>3. CASE Found(r)
  <2> DEFINE e == Opened(r)
  <2>1. e \in Entries /\ EntryOK(e) /\ e # Nil
    BY <1>1, <1>3, OpenedOK DEF Found
  <2>2. CASE ~RequireRevalidate \/ Bypass(e)
    <3>1. PICK why \in {"policy", "ttl"} :
             /\ Hit(r, why) /\ ent' = Set(ent, r, e)
             /\ UNCHANGED <<sent, first, rsp, tries>>
      BY <1>3, <2>2 DEF Found, Hit
    <3> HIDE DEF e
    <3> QED
      BY <1>1, <2>1, <3>1, HitInv DEF Reasons
  <2>3. CASE RequireRevalidate /\ ~Bypass(e) /\ SupportsValidation
    <3>1. /\ pc' = [pc EXCEPT ![r] = "reval"] /\ ent' = Set(ent, r, e)
          /\ UNCHANGED <<sent, first, rsp, tries, how>>
      BY <1>3, <2>3 DEF Found
    <3> HIDE DEF e
    <3> USE DEF Set, upstream, request
    <3>2. TypeOK'
      BY <1>1, <2>1, <3>1 DEF Inv, TypeOK, PCs
    <3>3. \A q \in Reqs \ {r} : Untouched(q)
      BY <1>1, <3>1 DEF Inv, TypeOK, Untouched
    <3>4. ReqOK(r)
      BY DEF Inv
    <3>5. pc'[r] = "reval" /\ ent'[r] = e /\ how'[r] = Nil
      BY <1>1, <3>1, <3>4 DEF Inv, TypeOK, ReqOK, Holding
    <3>6. ReqOK(r)'
      BY <1>1, <2>1, <3>4, <3>5, NilFresh
      DEF ReqOK, Holding, Statted, Asking, Judging, Storing, Locked, HitSound,
          EntryOK, Reasons
    <3> QED
      BY <1>1, <3>2, <3>3, <3>6, LocalStep DEF Inv
  <2>4. CASE RequireRevalidate /\ ~Bypass(e) /\ ~SupportsValidation
    <3>1. Fetching(r) /\ UNCHANGED how
      BY <1>3, <2>4 DEF Found
    <3> QED
      BY <1>1, <3>1, FetchingInv
  <2> QED
    BY <2>2, <2>3, <2>4, FlagsType
<1> QED
  BY <1>2, <1>3 DEF Open

LEMMA SendHeadInv ==
  ASSUME Inv, NEW r \in Reqs, SendHead(r)
  PROVE  Inv'
<1> USE DEF SendHead, Goto, Set, upstream, request
<1>1. TypeOK'
  BY DEF Inv, TypeOK, PCs
<1>2. \A q \in Reqs \ {r} : Untouched(q)
  BY DEF Inv, TypeOK, Untouched
<1>3. ReqOK(r)
  BY DEF Inv
<1>4. /\ pc[r] = "reval" /\ pc'[r] = "headSent" /\ ent'[r] = ent[r]
      /\ how'[r] = Nil /\ first'[r] = up /\ up \in Versions /\ up <= up
  BY <1>3, BoundsType DEF Inv, TypeOK, ReqOK, Holding, Versions
<1>5. ReqOK(r)'
  BY <1>3, <1>4, NilFresh
  DEF ReqOK, Holding, Statted, Asking, Judging, Storing, Locked, HitSound,
      EntryOK, Reasons
<1> QED
  BY <1>1, <1>2, <1>5, LocalStep DEF Inv

(* A 304 means that the upstream is still at the version whose tag was     *)
(* sent; a 200 carries the upstream's present version.                     *)
LEMMA HeadAnswerInv ==
  ASSUME Inv, NEW r \in Reqs, HeadAnswer(r)
  PROVE  Inv'
<1>1. /\ pc[r] = "headSent"
      /\ UNCHANGED <<now, upstream, disk, lock, etag, request, restarts>>
  BY DEF HeadAnswer
<1>2. ReqOK(r) /\ TypeOK
  BY DEF Inv
<1>3. /\ ent[r] \in Entries /\ EntryOK(ent[r]) /\ how[r] = Nil
      /\ first[r] \in Versions /\ first[r] <= up
      /\ etag' \in Versions \cup {Nil}
  BY <1>1, <1>2 DEF ReqOK, Holding, Asking, TypeOK
<1>4. /\ ent[r].body \in Nat /\ ent[r].mtime \in Nat /\ ent[r].mtime <= now
      /\ first[r] \in Nat /\ up \in Versions /\ up \in Nat /\ now \in Nat
      /\ ent[r] # Nil
  BY <1>2, <1>3, NilFresh, BoundsType DEF TypeOK, Entries, Versions, NoBody, EntryOK
<1>5. CASE Head200(r)
  <2> DEFINE answer == [ver |-> up, body |-> NoBody, cut |-> FALSE,
                      mod |-> RemoteTime(up)]
  <2> USE DEF Set, upstream, request, local
  <2>1. RemoteTime(up) \in Nat
    BY <1>2, <1>4 DEF RemoteTime, TypeOK
  <2>2. answer \in Answers
    BY <1>4, <2>1 DEF Answers
  <2>3. /\ pc' = [pc EXCEPT ![r] = "judge"] /\ rsp' = [rsp EXCEPT ![r] = answer]
        /\ UNCHANGED <<ent, sent, first, tries, how>>
    BY <1>5 DEF Head200
  <2> HIDE DEF answer
  <2>4. TypeOK'
    BY <1>1, <1>2, <2>2, <2>3 DEF TypeOK, PCs
  <2>5. \A q \in Reqs \ {r} : Untouched(q)
    BY <1>1, <1>2, <2>3 DEF TypeOK, Untouched
  <2>6. /\ pc'[r] = "judge" /\ rsp'[r] = answer /\ ent'[r] = ent[r]
        /\ how'[r] = Nil /\ first'[r] = first[r]
    BY <1>1, <1>2, <1>3, <2>3 DEF TypeOK
  <2>7. answer # Nil
    BY <2>2, NilFresh
  <2>8. Judging(r)'
    <3>1. IF Dated THEN answer.mod = dated[answer.ver]
                   ELSE answer.mod > ent[r].mtime
      BY <1>4 DEF answer, RemoteTime
    <3>2. first[r] <= answer.ver /\ answer.ver <= up
      BY <1>3, <1>4 DEF answer
    <3> QED
      BY <1>1, <2>6, <2>7, <3>1, <3>2 DEF Judging
  <2>9. ReqOK(r)'
    BY <1>1, <1>2, <1>4, <2>6, <2>8, NilFresh
    DEF ReqOK, Holding, Statted, Asking, Storing, Locked, HitSound, EntryOK, Reasons
  <2> QED
    BY <1>1, <2>4, <2>5, <2>9, LocalStep
<1>6. CASE Head304(r)
  <2>1. sent[r] = up /\ Hit(r, "304") /\ UNCHANGED local
    BY <1>6 DEF Head304
  <2>2. ent' = Set(ent, r, ent[r]) /\ UNCHANGED <<sent, first, rsp, tries>>
    BY <1>2, <2>1 DEF Set, TypeOK, local
  <2>3. sent[r] \in {Nil, ent[r].body} => ent[r].body >= first[r]
    BY <1>3, <1>4, <2>1, NilFresh
  <2> QED
    BY <1>1, <1>3, <2>1, <2>2, <2>3, HitInv DEF Reasons
<1>7. CASE Head404(r) \/ HeadRefused(r)
  <2> USE DEF Set, upstream, request, local
  <2>1. /\ pc' = [pc EXCEPT ![r] = IF Head404(r) THEN "drop" ELSE "reval"]
        /\ tries' = tries \/ tries' = [tries EXCEPT ![r] = 1]
        /\ UNCHANGED <<ent, sent, first, rsp, how>>
    BY <1>7 DEF Head404, HeadRefused
  <2>2. pc' \in [Reqs -> PCs] /\ tries' \in [Reqs -> 0..1]
    BY <1>2, <2>1 DEF TypeOK, PCs
  <2>3. TypeOK'
    BY <1>1, <1>2, <2>1, <2>2 DEF TypeOK
  <2>4. \A q \in Reqs \ {r} : Untouched(q)
    BY <1>1, <1>2, <2>1 DEF TypeOK, Untouched
  <2>5. /\ pc'[r] \in {"drop", "reval"} /\ ent'[r] = ent[r] /\ how'[r] = Nil
        /\ first'[r] = first[r]
    BY <1>1, <1>2, <1>3, <2>1 DEF TypeOK
  <2>6. ReqOK(r)'
    BY <1>1, <1>2, <1>4, <2>5, NilFresh
    DEF ReqOK, Holding, Statted, Asking, Judging, Storing, Locked, HitSound,
        EntryOK, Reasons
  <2> QED
    BY <1>1, <2>3, <2>4, <2>6, LocalStep
<1>8. CASE HeadFailed(r)
  BY <1>1, <1>3, <1>8, FetchingInv DEF HeadFailed
<1> QED
  BY <1>5, <1>6, <1>7, <1>8 DEF HeadAnswer

(* An entry that is not older than the version the HEAD saw has a date     *)
(* that is not earlier.                                                    *)
LEMMA JudgeInv ==
  ASSUME Inv, NEW r \in Reqs, Judge(r)
  PROVE  Inv'
<1>1. /\ pc[r] = "judge"
      /\ UNCHANGED <<now, upstream, disk, lock, request, restarts>>
  BY DEF Judge
<1>2. ReqOK(r) /\ TypeOK /\ Clock
  BY DEF Inv
<1>3. /\ ent[r] \in Entries /\ EntryOK(ent[r]) /\ how[r] = Nil
      /\ first[r] \in Versions /\ rsp[r] \in Answers
  BY <1>1, <1>2 DEF ReqOK, Holding, Asking, Judging, TypeOK
<1>4. rsp[r].ver \in Versions /\ etag' \in Versions \cup {Nil}
  BY <1>2, <1>3 DEF Judge, Tag, TypeOK, Answers
<1>5. CASE (Tagged \/ Dated) /\ ~Newer(r)
  <2>1. /\ Hit(r, "200") /\ rsp' = Set(rsp, r, Nil)
        /\ UNCHANGED <<ent, sent, first, tries>>
    BY <1>5 DEF Judge
  <2>2. ent' = Set(ent, r, ent[r])
    BY <1>2, <2>1 DEF Set, TypeOK
  <2>3. ent[r].own => \E v \in first[r]..up : dated[v] <= dated[ent[r].body]
    <3> SUFFICES ASSUME ent[r].own
                 PROVE  dated[rsp[r].ver] <= dated[ent[r].body] /\ rsp[r].ver \in first[r]..up
      OBVIOUS
    <3>1. /\ rsp[r].mod \in Nat /\ ent[r].mtime \in Nat
          /\ rsp[r].ver \in Nat /\ first[r] \in Nat /\ up \in Nat
      BY <1>2, <1>3, <1>4 DEF Answers, Entries, Versions, TypeOK
    <3>2. /\ first[r] <= rsp[r].ver /\ rsp[r].ver <= up
          /\ IF Dated THEN rsp[r].mod = dated[rsp[r].ver]
                      ELSE rsp[r].mod > ent[r].mtime
      BY <1>1, <1>2 DEF ReqOK, Judging
    <3>3. ~(rsp[r].mod > ent[r].mtime)
      BY <1>5 DEF Newer
    <3>4. rsp[r].mod = dated[rsp[r].ver] /\ ent[r].mtime = dated[ent[r].body]
      BY <1>3, <3>2, <3>3 DEF EntryOK
    <3> QED
      BY <3>1, <3>2, <3>3, <3>4
  <2> QED
    BY <1>1, <1>3, <1>4, <2>1, <2>2, <2>3, HitInv DEF Reasons
<1>6. CASE ~((Tagged \/ Dated) /\ ~Newer(r))
  BY <1>1, <1>3, <1>4, <1>6, FetchingInv DEF Judge
<1> QED
  BY <1>5, <1>6

LEMMA DropInv ==
  ASSUME Inv, NEW r \in Reqs, Drop(r)
  PROVE  Inv'
<1> USE DEF Drop, Goto, Set, upstream, request, local
<1>1. TypeOK'
  BY DEF Inv, TypeOK, PCs
<1>2. Stored'
  BY DEF Inv, Stored, EntryOK
<1>3. \A q \in Reqs \ {r} : Untouched(q)
  BY DEF Inv, TypeOK, Untouched
<1>4. ReqOK(r)
  BY DEF Inv
<1>5. /\ pc[r] = "drop" /\ pc'[r] = "forget" /\ ent'[r] = ent[r]
      /\ how'[r] = Nil /\ first'[r] = first[r]
  BY <1>4 DEF Inv, TypeOK, ReqOK, Holding
<1>6. ReqOK(r)'
  BY <1>4, <1>5, NilFresh
  DEF ReqOK, Holding, Statted, Asking, Judging, Storing, Locked, HitSound,
      EntryOK, Reasons
<1>7. \A q \in Reqs \ {r} : Spared(q)
  BY NilFresh DEF Inv, ReqOK, Locked, Spared
<1> QED
  BY <1>1, <1>2, <1>3, <1>6, <1>7, OneStep

LEMMA ForgetInv ==
  ASSUME Inv, NEW r \in Reqs, Forget(r)
  PROVE  Inv'
BY FetchingInv DEF Forget

LEMMA ServeInv ==
  ASSUME Inv, NEW r \in Reqs, Serve(r)
  PROVE  Inv'
<1> USE DEF Serve, Goto, Set, upstream, request, local
<1>1. TypeOK'
  BY DEF Inv, TypeOK, PCs
<1>2. \A q \in Reqs \ {r} : Untouched(q)
  BY DEF Inv, TypeOK, Untouched
<1>3. ReqOK(r)
  BY DEF Inv
<1>4. /\ pc[r] = "serve" /\ pc'[r] = "done" /\ ent'[r] = ent[r]
      /\ how'[r] = how[r] /\ first'[r] = first[r] /\ sent'[r] = sent[r]
  BY DEF Inv, TypeOK
<1>5. ReqOK(r)'
  BY <1>3, <1>4
  DEF ReqOK, Holding, Statted, Asking, Judging, Storing, Locked, HitSound,
      EntryOK, Overdated
<1> QED
  BY <1>1, <1>2, <1>5, LocalStep

(* What is stored is the body of a GET that was 200.                       *)
LEMMA FetchInv ==
  ASSUME Inv, NEW r \in Reqs, Fetch(r)
  PROVE  Inv'
<1>1. /\ pc[r] = "fetch"
      /\ UNCHANGED <<now, upstream, disk, lock, etag, request, restarts, how>>
  BY DEF Fetch
<1>2. ReqOK(r) /\ TypeOK /\ Clock
  BY DEF Inv
<1>3. how[r] = Nil /\ etag' \in Versions \cup {Nil}
  BY <1>1, <1>2 DEF ReqOK, Holding, TypeOK
<1>4. ASSUME Finished(r) PROVE Inv'
  BY <1>1, <1>3, <1>4, RelayedInv
<1>5. CASE FetchRetry(r)
  <2> USE DEF FetchRetry, Set, upstream, request
  <2>1. TypeOK'
    BY <1>1, <1>2, <1>3, <1>5 DEF TypeOK
  <2>2. \A q \in Reqs \ {r} : Untouched(q)
    BY <1>1, <1>5 DEF Untouched
  <2>3. ReqOK(r)'
    BY <1>1, <1>2, <1>3, <1>5, NilFresh
    DEF ReqOK, Holding, Statted, Asking, Judging, Storing, Locked, HitSound,
        EntryOK, Reasons
  <2> QED
    BY <1>1, <2>1, <2>2, <2>3, LocalStep
<1>6. ASSUME NEW cut \in BOOLEAN, method[r] = "GET",
             pc' = [pc EXCEPT ![r] = "put"], UNCHANGED <<ent, sent, first, tries>>,
             rsp' = Set(rsp, r, [ver |-> up, body |-> up, cut |-> cut,
                                 mod |-> ModTime(up)])
      PROVE  Inv'
  <2> DEFINE answer == [ver |-> up, body |-> up, cut |-> cut, mod |-> ModTime(up)]
  <2> USE DEF Set, upstream, request
  <2>1. ModTime(up) \in Nat /\ up \in Versions /\ up \in Nat /\ now \in Nat
    BY <1>2 DEF ModTime, TypeOK, Versions
  <2>2. answer \in Answers
    BY <2>1 DEF Answers
  <2>3. rsp' = [rsp EXCEPT ![r] = answer]
    BY <1>6
  <2>4. ModTime(up) <= now /\ (Dated => ModTime(up) = dated[up])
    <3>1. Dated => dated[up] \in Nat /\ appeared[up] \in Nat
                   /\ dated[up] <= appeared[up] /\ appeared[up] <= now
      BY <1>2, <2>1 DEF Clock, TypeOK
    <3> QED
      BY <2>1, <3>1 DEF ModTime
  <2>5. /\ answer # Nil /\ answer.ver = up /\ answer.body = up
        /\ answer.mod <= now /\ (Dated => answer.mod = dated[up])
    BY <2>2, <2>4, NilFresh
  <2> HIDE DEF answer
  <2>6. TypeOK'
    BY <1>1, <1>2, <1>3, <1>6, <2>2, <2>3 DEF TypeOK, PCs
  <2>7. \A q \in Reqs \ {r} : Untouched(q)
    BY <1>1, <1>2, <1>6, <2>3 DEF TypeOK, Untouched
  <2>8. /\ pc'[r] = "put" /\ rsp'[r] = answer /\ ent'[r] = ent[r]
        /\ how'[r] = Nil
    BY <1>1, <1>2, <1>3, <1>6, <2>3 DEF TypeOK
  <2>9. Storing(r)'
    BY <1>1, <2>1, <2>5, <2>8 DEF Storing
  <2>10. ReqOK(r)'
    BY <1>1, <1>2, <2>8, <2>9, NilFresh
    DEF ReqOK, Holding, Statted, Asking, Judging, Locked, HitSound, EntryOK, Reasons
  <2> QED
    BY <1>1, <2>6, <2>7, <2>10, LocalStep
<1>7. CASE FetchOK(r)
  <2> PICK cut \in {FALSE, Rewrites} :
        Answered(r, 200, IF method[r] = "GET" THEN up ELSE NoBody, cut)
    BY <1>7 DEF FetchOK
  <2>0. cut \in BOOLEAN
    <3>1. Rewrites \in BOOLEAN
      BY FlagsType
    <3> QED
      BY <3>1
  <2>1. CASE ShouldStore(r, 200)
    <3>1. method[r] = "GET"
      BY <2>1 DEF ShouldStore
    <3> QED
      BY <1>6, <2>0, <2>1, <3>1 DEF Answered
  <2>2. CASE ~ShouldStore(r, 200)
    BY <1>4, <2>2 DEF Answered
  <2> QED
    BY <2>1, <2>2
<1>8. CASE FetchUnchanged(r) \/ FetchGone(r) \/ FetchFailed(r)
  BY <1>4, <1>8 DEF FetchUnchanged, FetchGone, FetchFailed, Answered, ShouldStore
<1> QED
  BY <1>5, <1>7, <1>8 DEF Fetch

LEMMA PutLockInv ==
  ASSUME Inv, NEW r \in Reqs, PutLock(r)
  PROVE  Inv'
<1> USE DEF PutLock, Goto, Set, upstream, request, local
<1>1. TypeOK'
  BY DEF Inv, TypeOK, PCs
<1>2. Stored'
  BY DEF Inv, Stored, EntryOK
<1>3. \A q \in Reqs \ {r} : Untouched(q)
  BY DEF Inv, TypeOK, Untouched
<1>4. ReqOK(r)
  BY DEF Inv
<1>5. /\ pc[r] = "put" /\ pc'[r] = "rename" /\ ent'[r] = ent[r]
      /\ how'[r] = Nil /\ first'[r] = first[r] /\ rsp'[r] = rsp[r]
  BY <1>4 DEF Inv, TypeOK, ReqOK, Holding
<1>6. ReqOK(r)'
  BY <1>4, <1>5, NilFresh
  DEF ReqOK, Holding, Statted, Asking, Judging, Storing, Locked, HitSound,
      EntryOK, Reasons
<1>7. \A q \in Reqs \ {r} : Spared(q)
  BY NilFresh DEF Inv, ReqOK, Locked, Spared
<1> QED
  BY <1>1, <1>2, <1>3, <1>6, <1>7, OneStep

LEMMA PutRenameInv ==
  ASSUME Inv, NEW r \in Reqs, PutRename(r)
  PROVE  Inv'
<1> USE DEF upstream, request
<1>0. /\ pc[r] = "rename" /\ pc' = [pc EXCEPT ![r] = "times"]
      /\ disk' = [body |-> rsp[r].body, cut |-> rsp[r].cut, mtime |-> now, own |-> FALSE]
      /\ UNCHANGED <<now, upstream, lock, etag, request, sent, first, rsp, tries,
                     restarts, how>>
  BY DEF PutRename, Goto
<1>1. ReqOK(r) /\ TypeOK
  BY DEF Inv
<1>2. /\ rsp[r] \in Answers /\ rsp[r].body \in Versions
      /\ rsp[r].body <= up /\ now \in Nat
  BY <1>0, <1>1 DEF ReqOK, Storing, TypeOK, Answers
<1>3. /\ disk' \in Entries /\ disk'.body = rsp[r].body
      /\ disk'.mtime = now /\ disk'.own = FALSE
  BY <1>0, <1>2 DEF Entries, Answers
<1>4. ASSUME NEW q \in Reqs
      PROVE  /\ pc[q] # "open" => ent'[q] = ent[q]
             /\ pc[q] = "open" => Overtaken(q) /\ ent'[q] \in Entries /\ ~ent'[q].own
             /\ ent'[q] \in Entries \cup {Nil}
  <2>1. CASE pc[q] = "open"
    <3>1. Overtaken(q)
      BY <2>1 DEF PutRename, Overtaken
    <3>2. ent[q] \in Entries
      BY <2>1 DEF Inv, TypeOK, ReqOK, Holding
    <3>3. ent'[q] = [body |-> ent[q].body, cut |-> ent[q].cut,
                     mtime |-> ent[q].mtime, own |-> FALSE]
      BY <3>1, <3>2 DEF Overtaken, Entries
    <3>4. ent'[q] \in Entries
      BY <3>2, <3>3 DEF Entries
    <3> QED
      BY <2>1, <3>1, <3>3, <3>4
  <2>2. CASE pc[q] # "open"
    <3>1. ent'[q] = ent[q]
      BY <2>2 DEF PutRename
    <3> QED
      BY <1>1, <2>2, <3>1 DEF TypeOK
  <2> QED
    BY <2>1, <2>2
<1>5. TypeOK' /\ Stored'
  <2>1. ent' \in [Reqs -> Entries \cup {Nil}]
    <3> DEFINE E(q) == IF pc[q] = "open" THEN [ent[q] EXCEPT !.own = FALSE] ELSE ent[q]
    <3>1. ent' = [q \in Reqs |-> E(q)]
      BY DEF PutRename
    <3> HIDE DEF E
    <3> QED
      BY <1>4, <3>1
  <2>2. TypeOK'
    BY <1>0, <1>1, <1>3, <2>1 DEF TypeOK, PCs
  <2>3. Stored'
    BY <1>0, <1>2, <1>3 DEF Stored, EntryOK
  <2> QED
    BY <2>2, <2>3
<1>6. /\ pc[r] = "rename" /\ pc'[r] = "times" /\ ent'[r] = ent[r]
      /\ how'[r] = Nil /\ first'[r] = first[r] /\ rsp'[r] = rsp[r]
      /\ disk' # Nil /\ disk'.body = rsp[r].body /\ ~disk'.own
  BY <1>0, <1>1, <1>3, <1>4, NilFresh DEF TypeOK, ReqOK, Holding
<1>7. ReqOK(r)'
  BY <1>0, <1>1, <1>6, NilFresh
  DEF ReqOK, Holding, Statted, Asking, Judging, Storing, Locked, HitSound,
      EntryOK, Reasons
<1>8. \A q \in Reqs \ {r} : Untouched(q) /\ Spared(q)
  <2> SUFFICES ASSUME NEW q \in Reqs \ {r} PROVE Untouched(q) /\ Spared(q)
    OBVIOUS
  <2>1. Untouched(q)
    BY <1>0, <1>1, <1>4 DEF TypeOK, Untouched
  <2>2. pc[q] # "times" /\ (pc[q] = "open" => ~ent'[q].own)
    BY <1>0, <1>4 DEF Inv, ReqOK, Locked
  <2> QED
    BY <1>0, <2>1, <2>2 DEF Spared
<1> QED
  BY <1>0, <1>5, <1>7, <1>8, OneStep

(* Chtimes gives the entry the time of its own version.  Nobody counts on  *)
(* the time it had.                                                        *)
LEMMA ChtimesOK ==
  ASSUME Inv, NEW r \in Reqs, pc[r] = "times", Chtimes(r), UNCHANGED <<now, upstream>>
  PROVE  /\ disk' \in Entries /\ Stored'
         /\ \A q \in Reqs : pc[q] = "open" /\ ent[q].own => disk' \in {disk, Nil}
<1>1. ReqOK(r) /\ TypeOK /\ Stored
  BY DEF Inv
<1>2. /\ disk \in Entries /\ EntryOK(disk) /\ ~disk.own
      /\ rsp[r] \in Answers /\ rsp[r].mod \in Nat /\ rsp[r].mod <= now
      /\ disk.body = rsp[r].ver
      /\ Dated => rsp[r].mod = dated[rsp[r].ver]
  BY <1>1 DEF ReqOK, Locked, Storing, Stored, TypeOK, Answers
<1>3. /\ disk' \in Entries /\ disk'.body = disk.body
      /\ disk'.mtime = rsp[r].mod
  BY <1>2 DEF Entries, Chtimes
<1>4. Stored'
  BY <1>2, <1>3 DEF Stored, EntryOK, upstream
<1>5. \A q \in Reqs : pc[q] = "open" => ~ent[q].own
  BY <1>2, NilFresh DEF Inv, ReqOK, Statted
<1> QED
  BY <1>3, <1>4, <1>5

LEMMA PutTimesInv ==
  ASSUME Inv, NEW r \in Reqs, PutTimes(r)
  PROVE  Inv'
<1> USE DEF PutTimes, Goto, Set, upstream, request, local
<1>1. ReqOK(r) /\ TypeOK
  BY DEF Inv
<1>2. /\ disk' \in Entries /\ Stored'
      /\ \A q \in Reqs : pc[q] = "open" /\ ent[q].own => disk' \in {disk, Nil}
  BY ChtimesOK
<1>3. TypeOK'
  BY <1>1, <1>2 DEF TypeOK, PCs
<1>4. \A q \in Reqs \ {r} : Untouched(q)
  BY <1>1 DEF TypeOK, Untouched
<1>5. /\ pc[r] = "times" /\ pc'[r] = "remember" /\ ent'[r] = ent[r]
      /\ how'[r] = Nil /\ first'[r] = first[r] /\ rsp'[r] = rsp[r]
  BY <1>1 DEF TypeOK, ReqOK, Holding
<1>6. ReqOK(r)'
  BY <1>1, <1>5, NilFresh
  DEF ReqOK, Holding, Statted, Asking, Judging, Storing, Locked, HitSound,
      EntryOK, Reasons
<1>7. \A q \in Reqs \ {r} : Spared(q)
  BY <1>1, <1>2, <1>4 DEF Inv, ReqOK, Locked, Spared
<1> QED
  BY <1>2, <1>3, <1>4, <1>6, <1>7, OneStep

LEMMA PutFailInv ==
  ASSUME Inv, NEW r \in Reqs, PutFail(r)
  PROVE  Inv'
<1>1. /\ how[r] = Nil /\ lock = r /\ pc[r] \in {"rename", "times"}
      /\ etag' \in Versions \cup {Nil} /\ Finished(r) /\ lock' = Nil
      /\ UNCHANGED <<now, upstream, request, restarts, how>>
  BY DEF PutFail, Inv, ReqOK, Holding, Locked, TypeOK
<1>2. CASE disk' = disk
  <2>1. Stored' /\ disk' \in Entries \cup {Nil}
    BY <1>1, <1>2 DEF Inv, Stored, EntryOK, upstream, TypeOK
  <2> QED
    BY <1>1, <1>2, <2>1, FinishedInv
<1>3. CASE pc[r] = "times" /\ Chtimes(r)
  <2>1. /\ disk' \in Entries /\ Stored'
        /\ \A q \in Reqs : pc[q] = "open" /\ ent[q].own => disk' \in {disk, Nil}
    BY <1>1, <1>3, ChtimesOK
  <2> QED
    BY <1>1, <2>1, FinishedInv
<1> QED
  BY <1>2, <1>3 DEF PutFail

LEMMA RememberInv ==
  ASSUME Inv, NEW r \in Reqs, Remember(r)
  PROVE  Inv'
<1>1. how[r] = Nil /\ rsp[r] \in Answers
  BY DEF Remember, Inv, ReqOK, Holding, Storing, TypeOK
<1>2. etag' \in Versions \cup {Nil}
  BY <1>1 DEF Remember, Inv, TypeOK, Tag, Answers
<1> QED
  BY <1>1, <1>2, RelayedInv DEF Remember

LEMMA EndInv ==
  ASSUME Inv, NEW r \in Reqs, End(r)
  PROVE  Inv'
<1> USE DEF End, Forgotten, Goto, Set, upstream, request
<1>1. TypeOK'
  BY DEF Inv, TypeOK, PCs
<1>2. \A q \in Reqs \ {r} : Untouched(q)
  BY DEF Inv, TypeOK, Untouched
<1>3. pc'[r] = "idle" /\ ent'[r] = Nil /\ how'[r] = Nil
  BY DEF Inv, TypeOK
<1>4. ReqOK(r)'
  BY <1>3, NilFresh
  DEF ReqOK, Holding, Statted, Asking, Judging, Storing, Locked, HitSound,
      Reasons
<1> QED
  BY <1>1, <1>2, <1>4, LocalStep

LEMMA PublishInv ==
  ASSUME Inv, Publish
  PROVE  Inv'
<1> USE DEF Publish, request, local
<1>0. TypeOK /\ Clock
  BY DEF Inv
<1>1. /\ TypeOK /\ Clock /\ up \in Nat /\ now \in Nat /\ up + 1 \in Versions
      /\ appeared \in [Versions -> Nat] /\ dated \in [Versions -> Nat]
      /\ up' = up + 1 /\ now' = now
  <2>1. up \in Versions /\ now \in Nat
        /\ appeared \in [Versions -> Nat] /\ dated \in [Versions -> Nat]
    BY <1>0 DEF TypeOK
  <2>2. up \in Nat /\ up + 1 \in Versions
    BY <2>1, BoundsType DEF Versions
  <2> QED
    BY <1>0, <2>1, <2>2
<1>2. PICK date \in 0..now : /\ Orderly => \A v \in 1..up : dated[v] < date
                             /\ dated' = [dated EXCEPT ![up + 1] = date]
  BY Zenon
<1>3. TypeOK'
  <2>1. dated' \in [Versions -> Nat] /\ appeared' \in [Versions -> Nat]
    BY <1>1, <1>2
  <2>2. present' \subseteq Versions
    BY <1>1 DEF TypeOK
  <2> QED
    BY <1>1, <2>1, <2>2 DEF TypeOK
<1>4. /\ \A v \in Versions : v \in Nat /\ v >= 1 /\ (v <= up + 1 => v <= up \/ v = up + 1)
      /\ dated'[up + 1] = date /\ appeared'[up + 1] = now
      /\ \A v \in Versions : v <= up => dated'[v] = dated[v] /\ appeared'[v] = appeared[v]
  BY <1>1, <1>2 DEF Versions
<1>5. Later
  BY <1>1, <1>4 DEF Later
<1>6. Clock'
  <2>1. \A v \in Versions : v <= up' => dated'[v] <= appeared'[v] /\ appeared'[v] <= now'
    BY <1>1, <1>2, <1>4 DEF Clock
  <2>2. ASSUME NEW u \in Versions, NEW v \in Versions, u < v, v <= up'
        PROVE  appeared'[u] <= appeared'[v] /\ (Orderly => dated'[u] < dated'[v])
    <3>1. CASE v <= up
      BY <1>1, <1>4, <2>2, <3>1 DEF Clock
    <3>2. CASE v = up + 1
      <4>1. u <= up /\ appeared[u] <= now /\ u \in 1..up
        BY <1>1, <1>4, <2>2, <3>2 DEF Clock
      <4> QED
        BY <1>1, <1>2, <1>4, <3>2, <4>1
    <3> QED
      BY <1>1, <1>4, <2>2, <3>1, <3>2
  <2> QED
    BY <2>1, <2>2 DEF Clock
<1>7. Stored'
  BY <1>1, <1>3, <1>5, EntryLater DEF Inv, Stored, TypeOK
<1>8. \A q \in Reqs : ReqOK(q)'
  BY <1>3, <1>5, Undisturbed DEF Untouched, Spared
<1> QED
  BY <1>3, <1>6, <1>7, <1>8 DEF Inv

LEMMA TickInv ==
  ASSUME Inv, Tick
  PROVE  Inv'
<1> USE DEF Tick, upstream, request, local
<1>1. TypeOK /\ Clock
  BY DEF Inv
<1>2. TypeOK'
  BY <1>1 DEF TypeOK
<1>3. Later
  BY <1>1 DEF Later, TypeOK, Versions
<1>4. Clock'
  <2>1. /\ now \in Nat /\ now' = now + 1
        /\ \A v \in Versions : appeared[v] \in Nat
    BY <1>1 DEF TypeOK
  <2> QED
    BY <1>1, <2>1 DEF Clock
<1>5. Stored'
  BY <1>1, <1>2, <1>3, EntryLater DEF Inv, Stored, TypeOK
<1>6. \A q \in Reqs : ReqOK(q)'
  BY <1>2, <1>3, Undisturbed DEF Untouched, Spared
<1> QED
  BY <1>2, <1>4, <1>5, <1>6 DEF Inv

(* What a restart finds on disk may be an interrupted Put.                 *)
LEMMA RestartInv ==
  ASSUME Inv, Restart
  PROVE  Inv'
<1> USE DEF Restart, upstream, request
<1>1. TypeOK'
  BY BoundsType DEF Inv, TypeOK, PCs
<1>2. Clock' /\ Stored'
  BY DEF Inv, Clock, Stored, EntryOK
<1>3. ASSUME NEW r \in Reqs PROVE ReqOK(r)'
  <2>1. pc'[r] = "idle" /\ ent'[r] = Nil /\ how'[r] = Nil
    OBVIOUS
  <2> QED
    BY <2>1, NilFresh
    DEF ReqOK, Holding, Statted, Asking, Judging, Storing, Locked, HitSound,
        Reasons
<1> QED
  BY <1>1, <1>2, <1>3 DEF Inv

LEMMA StutterInv ==
  ASSUME Inv, UNCHANGED vars
  PROVE  Inv'
<1> USE DEF vars, upstream, request, local
<1>1. TypeOK' /\ Clock' /\ Stored'
  BY DEF Inv, TypeOK, Clock, Stored, EntryOK
<1>2. ASSUME NEW r \in Reqs PROVE ReqOK(r)'
  <2>1. ReqOK(r)
    BY DEF Inv
  <2> QED
    BY <2>1
    DEF ReqOK, Holding, Statted, Asking, Judging, Storing, Locked, HitSound,
        EntryOK, Overdated
<1> QED
  BY <1>1, <1>2 DEF Inv

LEMMA InitInv == Init => Inv
<1> SUFFICES ASSUME Init PROVE Inv
  OBVIOUS
<1> USE DEF Init
<1>1. TypeOK
  BY BoundsType DEF TypeOK, PCs, Versions
<1>2. Clock /\ Stored
  BY BoundsType DEF Clock, Stored, Versions
<1>3. ASSUME NEW r \in Reqs PROVE ReqOK(r)
  BY NilFresh
  DEF ReqOK, Holding, Statted, Asking, Judging, Storing, Locked, HitSound,
      Reasons
<1> QED
  BY <1>1, <1>2, <1>3 DEF Inv

-----------------------------------------------------------------------------
(* Every state of the handler satisfies the invariant.                     *)
THEOREM Invariance == Spec => []Inv
<1>1. Inv /\ [Next]_vars => Inv'
  <2> SUFFICES ASSUME Inv, [Next]_vars PROVE Inv'
    OBVIOUS
  <2>1. ASSUME NEW r \in Reqs, Step(r) PROVE Inv'
    BY <2>1, LookupInv, OpenInv, SendHeadInv, HeadAnswerInv, JudgeInv, DropInv,
       ForgetInv, ServeInv, FetchInv, PutLockInv, PutRenameInv, PutTimesInv,
       PutFailInv, RememberInv, EndInv
    DEF Step, Get, Validate, Store
  <2> QED
    BY <2>1, BeginInv, PublishInv, TickInv, RestartInv, StutterInv DEF Next
<1> QED
  BY InitInv, <1>1, PTL DEF Spec

(* The variables of the handler keep their types.                          *)
THEOREM TypeCorrect == Spec => []TypeOK
<1>1. Inv => TypeOK
  BY DEF Inv
<1> QED
  BY Invariance, <1>1, PTL

(* A hit that isCacheFresh (handler.go 779-840) accepted is a version that *)
(* was current when the HEAD was sent or later, unless the tag sent was    *)
(* another version's, a version since then has no later date, or the entry *)
(* has not the time of its own Put.                                        *)
THEOREM RevalidationAlwaysSound == Spec => []RevalidationSound
<1>1. Inv => RevalidationSound
  BY DEF Inv, ReqOK, HitSound, Overdated, RevalidationSound
<1> QED
  BY Invariance, <1>1, PTL

(* Without tags from the upstream and validators from clients there is     *)
(* nothing to send in a HEAD.                                              *)
Untagged == /\ etag = Nil
            /\ \A r \in Reqs : cond[r] = Nil /\ sent[r] = Nil

LEMMA UntaggedNext ==
  ASSUME Inv, Untagged, ~Tagged, Conditional = {}, [Next]_vars
  PROVE  Untagged'
<1> USE DEF upstream, request, local
<1>1. ASSUME etag' \in {etag, Nil}, cond' = cond, sent' = sent PROVE Untagged'
  BY <1>1 DEF Untagged
<1>2. ASSUME NEW r \in Reqs, etag' \in {etag, Nil},
             cond' = cond \/ cond' = Set(cond, r, Nil), sent' = sent \/ sent' = Set(sent, r, Nil)
      PROVE  Untagged'
  BY <1>2 DEF Untagged, Set, Inv, TypeOK
<1>3. CASE Publish \/ Tick \/ UNCHANGED vars
  BY <1>1, <1>3 DEF Publish, Tick, vars
<1>4. CASE Restart
  BY <1>4 DEF Restart, Untagged
<1>5. ASSUME NEW r \in Reqs, NEW m \in Verbs, NEW c \in Versions \cup {Nil}, Begin(r, m, c)
      PROVE  Untagged'
  BY <1>2, <1>5 DEF Begin
<1>6. ASSUME NEW r \in Reqs, Step(r) PROVE Untagged'
  <2>1. CASE Get(r)
    BY <1>2, <2>1 DEF Get, Lookup, Open, Miss, Stat, Found, Fetching
  <2>2. CASE SendHead(r)
    BY <1>2, <2>2 DEF SendHead, Untagged
  <2>3. CASE HeadAnswer(r)
    BY <1>2, <2>3 DEF HeadAnswer, Head200, Head304, Head404, HeadRefused, HeadFailed, Fetching
  <2>4. CASE Judge(r) \/ Drop(r) \/ Forget(r) \/ Serve(r)
    BY <1>2, <2>4 DEF Judge, Drop, Forget, Serve, Fetching
  <2>5. CASE Fetch(r)
    BY <1>2, <2>5 DEF Fetch, FetchOK, FetchUnchanged, FetchGone, FetchRetry, FetchFailed,
                      Answered, Finished
  <2>6. CASE Store(r)
    BY <1>2, <2>6 DEF Store, PutLock, PutRename, PutTimes, PutFail, Remember, Finished
  <2>7. CASE End(r)
    BY <1>2, <2>7 DEF End, Forgotten
  <2> QED
    BY <1>6, <2>1, <2>2, <2>3, <2>4, <2>5, <2>6, <2>7 DEF Step, Validate
<1> QED
  BY <1>3, <1>4, <1>5, <1>6 DEF Next

AllOwn == \A r \in Reqs : Served(r) => ent[r].own

(* It takes a tag, a validator of a client, dates out of order or an entry *)
(* with another's time to break FreshHit: where the upstream sends no tags *)
(* and dates its versions in order, and clients send no validators, every  *)
(* hit on an entry with its own time that isCacheFresh accepted is fresh,  *)
(* HEAD requests, failures and restarts included.                          *)
THEOREM FreshWithoutTags ==
  Spec => [](~Tagged /\ Conditional = {} /\ Orderly /\ AllOwn => FreshHit)
<1>1. Init => Untagged
  BY DEF Init, Untagged
<1>2. ASSUME Inv, Untagged, RevalidationSound, Orderly, AllOwn PROVE FreshHit
  <2> SUFFICES ASSUME NEW r \in Reqs, Served(r), how[r] \in {"304", "200"}
               PROVE  ent[r].body >= first[r]
    BY DEF FreshHit
  <2>1. \/ ent[r].body >= first[r]
        \/ \E v \in first[r]..up : dated[v] <= dated[ent[r].body]
    BY <1>2 DEF RevalidationSound, Untagged, AllOwn
  <2>2. /\ first[r] \in Nat /\ first[r] >= 1 /\ up \in Nat /\ up <= MaxVer
        /\ ent[r].body \in Versions /\ ent[r].body \in Nat /\ MaxVer \in Nat
        /\ dated \in [Versions -> Nat]
    BY <1>2, NilFresh, BoundsType
    DEF Inv, TypeOK, ReqOK, Holding, HitSound, EntryOK, Versions, Reasons
  <2>3. ASSUME NEW v \in first[r]..up, dated[v] <= dated[ent[r].body]
        PROVE  ent[r].body >= first[r]
    <3>1. v \in Versions /\ v <= up /\ v \in Nat /\ v >= first[r]
      BY <2>2 DEF Versions
    <3>2. ~(dated[ent[r].body] < dated[v])
      BY <2>2, <2>3, <3>1
    <3>3. ~(ent[r].body < v)
      BY <1>2, <2>2, <3>1, <3>2 DEF Inv, Clock
    <3> QED
      BY <2>2, <3>1, <3>3
  <2> QED
    BY <2>1, <2>3
<1>3. CASE ~Tagged /\ Conditional = {} /\ Orderly
  <2>1. Inv /\ Untagged /\ [Next]_vars => Untagged'
    BY <1>3, UntaggedNext
  <2>2. Inv /\ Untagged /\ RevalidationSound => (AllOwn => FreshHit)
    BY <1>2, <1>3
  <2> QED
    BY Invariance, RevalidationAlwaysSound, <1>1, <2>1, <2>2, PTL DEF Spec
<1>4. CASE ~(~Tagged /\ Conditional = {} /\ Orderly)
  <2>1. ~Tagged /\ Conditional = {} /\ Orderly /\ AllOwn => FreshHit
    BY <1>4
  <2> QED
    BY <2>1, PTL
<1> QED
  BY <1>3, <1>4
=============================================================================
