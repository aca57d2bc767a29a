---------------------- MODULE ManifestFallback_proof ----------------------
(***************************************************************************)
(* The registry.k8s.io fallback for any paths, requests, publications,     *)
(* failures and restarts: it is taken, a client is told 404 and an entry   *)
(* is removed only for cause.                                              *)
(***************************************************************************)
EXTENDS ManifestFallback, TLAPS

Cached == [body : Manifests, eff : Paths \cup {Nil}]

(* What a request that is under way knows.                                 *)
Informed(r) ==
  pc[r] # "idle" => /\ path[r] \in Wanted
                    /\ \A q \in Paths : up[q] = 0 => q \in gone[r]

Answered(r) ==
  /\ pc[r] \in {"put", "putMeta"} <=> got[r] # Nil
  /\ pc[r] = "fallback" => Eligible(path[r]) /\ path[r] \in gone[r]
  /\ got[r] # Nil => got[r].from = path[r] \/ path[r] \in gone[r]
  /\ result[r] = "notFound" =>
       /\ pc[r] = "done" /\ path[r] \in gone[r]
       /\ Eligible(path[r]) => FallbackPath(path[r]) \in gone[r]

(* The entry it has read: body and effective path belong together unless a *)
(* writer has disturbed it.                                                *)
Reader(r) ==
  /\ pc[r] \in {"getMeta", "reval", "drop"} => ent[r] \in Cached
  /\ pc[r] = "getMeta" =>
       \/ stirred[r]
       \/ /\ body[path[r]] = ent[r].body
          /\ lock[path[r]] = Nil /\ ~hurt[path[r]]
  /\ pc[r] \in {"reval", "drop"} => stirred[r] \/ ent[r].body.from = Effective(r)
  /\ pc[r] = "drop" => Effective(r) \in gone[r]

Writer(r) ==
  pc[r] = "putMeta" => lock[path[r]] = r /\ body[path[r]] = got[r]

ReqOK(r) == Informed(r) /\ Answered(r) /\ Reader(r) /\ Writer(r)

(* The metadata of an entry at rest name the path its body came from.      *)
KeyOK(p) ==
  /\ lock[p] # Nil => pc[lock[p]] = "putMeta" /\ path[lock[p]] = p
  /\ lock[p] = Nil /\ ~hurt[p] /\ body[p] # Nil =>
       meta[p] = IF body[p].from = p THEN Nil ELSE body[p].from

Inv == TypeOK /\ (\A r \in Reqs : ReqOK(r)) /\ (\A p \in Wanted : KeyOK(p))

-----------------------------------------------------------------------------
LEMMA Fallen ==
  ASSUME NEW p \in Wanted, Eligible(p)
  PROVE  FallbackPath(p) \in Paths
BY DEF Paths

(* A step of r, which changes no entry but that of p, and that one only if *)
(* r holds or takes its lock and its readers are disturbed.                *)
Same(q) == /\ pc'[q] = pc[q] /\ path'[q] = path[q] /\ ent'[q] = ent[q]
           /\ got'[q] = got[q] /\ result'[q] = result[q] /\ gone'[q] = gone[q]
           /\ stirred[q] => stirred'[q]
Kept(p) == /\ body'[p] = body[p] /\ meta'[p] = meta[p]
           /\ lock'[p] = lock[p] /\ hurt'[p] = hurt[p]

LEMMA OneStep ==
  ASSUME Inv, TypeOK', NEW r \in Reqs, NEW p \in Wanted,
         pc[r] = "idle" \/ path[r] = p, up' = up,
         \A q \in Reqs \ {r} : Same(q),
         \A j \in Wanted \ {p} : Kept(j),
         \/ Kept(p)
         \/ /\ lock[p] \in {Nil, r}
            /\ \A q \in Reqs \ {r} : pc[q] = "getMeta" /\ path[q] = p => stirred'[q],
         ReqOK(r)', KeyOK(p)'
  PROVE  Inv'
<1>1. ASSUME NEW q \in Reqs \ {r} PROVE ReqOK(q)'
  <2>1. Same(q) /\ ReqOK(q) /\ q # Nil
    BY NilFresh DEF Inv
  <2>2. Informed(q)' /\ Answered(q)'
    BY <2>1 DEF Same, ReqOK, Informed, Answered
  <2>3. CASE pc[q] = "idle"
    BY <2>1, <2>2, <2>3 DEF Same, ReqOK, Reader, Writer
  <2>4. CASE path[q] \in Wanted /\ Kept(path[q])
    BY <2>1, <2>2, <2>4 DEF Same, Kept, ReqOK, Reader, Writer, Effective
  <2>5. CASE path[q] = p /\ ~Kept(p)
    <3>1. pc[q] # "putMeta"
      BY <2>1, <2>5 DEF ReqOK, Writer
    <3> QED
      BY <2>1, <2>2, <2>5, <3>1 DEF Same, ReqOK, Reader, Writer, Effective
  <2> QED
    BY <2>1, <2>3, <2>4, <2>5 DEF ReqOK, Informed
<1>2. ASSUME NEW j \in Wanted \ {p} PROVE KeyOK(j)'
  <2>1. KeyOK(j) /\ Kept(j) /\ lock[j] \in Reqs \cup {Nil}
    BY DEF Inv, TypeOK
  <2>2. lock[j] # Nil => lock[j] \in Reqs \ {r}
    BY <2>1 DEF KeyOK
  <2>3. lock[j] # Nil => Same(lock[j])
    BY <2>2
  <2> QED
    BY <2>1, <2>3 DEF KeyOK, Kept, Same
<1> QED
  BY <1>1, <1>2 DEF Inv

(* The same, of a step that leaves the store alone.                        *)
LEMMA LocalStep ==
  ASSUME Inv, TypeOK', NEW r \in Reqs, NEW p \in Wanted,
         pc[r] = "idle" \/ path[r] = p, UNCHANGED <<up, store, hurt>>,
         pc[r] # "putMeta", \A q \in Reqs \ {r} : Same(q), ReqOK(r)'
  PROVE  Inv'
<1>1. \A j \in Wanted : Kept(j)
  BY DEF store, Kept
<1>2. KeyOK(p) /\ lock[p] \in Reqs \cup {Nil} /\ Kept(p)
  BY <1>1 DEF Inv, TypeOK
<1>3. lock[p] # Nil => lock[p] \in Reqs \ {r}
  BY <1>2 DEF KeyOK
<1>4. lock[p] # Nil => Same(lock[p])
  BY <1>3
<1>5. KeyOK(p)'
  BY <1>2, <1>4 DEF KeyOK, Kept, Same
<1> QED
  BY <1>1, <1>5, OneStep

-----------------------------------------------------------------------------
Locals == /\ pc \in [Reqs -> PCs]
          /\ path \in [Reqs -> Wanted \cup {Nil}]
          /\ ent \in [Reqs -> Cached \cup {Nil}]
          /\ got \in [Reqs -> Manifests \cup {Nil}]
          /\ tries \in [Reqs -> 0..1]
          /\ result \in [Reqs -> Outcomes \cup {Nil}]

LEMMA LocalsType == TypeOK => Locals
BY DEF TypeOK, Locals, Cached

LEMMA TypeKept ==
  ASSUME TypeOK, Locals', UNCHANGED <<upstream, store, breaks, restarts, gone, hurt, stirred>>
  PROVE  TypeOK'
BY DEF TypeOK, Locals, Cached, upstream, store

(* The end of a request.                                                   *)
LEMMA Finished ==
  ASSUME TypeOK, NEW r \in Reqs, NEW o \in Outcomes, Finish(r, o)
  PROVE  /\ Locals'
         /\ pc'[r] = "done" /\ result'[r] = o /\ got'[r] = Nil /\ path' = path
         /\ \A q \in Reqs \ {r} : /\ pc'[q] = pc[q] /\ result'[q] = result[q]
                                  /\ ent'[q] = ent[q] /\ got'[q] = got[q]
BY LocalsType DEF Locals, Finish, Set, PCs

(* A request that is answered with something other than 404.               *)
LEMMA FinishedOK ==
  ASSUME Inv, NEW r \in Reqs, NEW o \in Outcomes \ {"notFound"}, Finish(r, o),
         pc[r] # "idle", up' = up, gone' = gone
  PROVE  ReqOK(r)'
<1>1. pc'[r] = "done" /\ result'[r] = o /\ got'[r] = Nil /\ path' = path
  BY Finished DEF Inv
<1>2. Informed(r) /\ pc[r] # "idle"
  BY DEF Inv, ReqOK
<1> QED
  BY <1>1, <1>2 DEF ReqOK, Informed, Answered, Reader, Writer

(* A retried call changes a counter only.                                  *)
LEMMA Retried ==
  ASSUME Inv, NEW r \in Reqs, Retry(r), pc[r] \in {"reval", "fetch", "fallback"},
         UNCHANGED <<upstream, store, breaks, restarts, gone, hurt, stirred>>
  PROVE  Inv'
<1>1. Locals'
  BY LocalsType DEF Inv, Retry, Set, Locals
<1>2. TypeOK'
  BY <1>1, TypeKept DEF Inv
<1> QED
  BY <1>2 DEF Retry, upstream, store, Inv, ReqOK, Informed, Answered, Reader, Writer,
              Effective, KeyOK

-----------------------------------------------------------------------------
LEMMA BeginInv ==
  ASSUME Inv, NEW r \in Reqs, NEW p \in Wanted, Begin(r, p)
  PROVE  Inv'
<1> USE DEF Begin, Goto, Set
<1>1. TypeOK'
  BY DEF Inv, TypeOK, PCs, upstream, store
<1>2. /\ pc[r] = "idle" /\ pc'[r] = "get" /\ path'[r] = p
      /\ gone'[r] = {q \in Paths : up[q] = 0} /\ up' = up
      /\ UNCHANGED <<ent, got, result>>
  BY DEF Inv, TypeOK, upstream
<1>3. \A q \in Reqs \ {r} : Same(q)
  BY DEF Inv, TypeOK, Same
<1>4. ReqOK(r)'
  <2>1. got[r] = Nil /\ result[r] # "notFound"
    BY <1>2 DEF Inv, ReqOK, Answered
  <2> QED
    BY <1>2, <2>1 DEF ReqOK, Informed, Answered, Reader, Writer
<1> QED
  BY <1>1, <1>2, <1>3, <1>4, LocalStep DEF upstream

LEMMA GetInv ==
  ASSUME Inv, NEW r \in Reqs, Get(r)
  PROVE  Inv'
<1> USE DEF Get, Goto, Set
<1> PICK p \in Wanted : p = path[r]
  BY DEF Inv, ReqOK, Informed
<1>1. /\ ReqOK(r) /\ KeyOK(p) /\ p = path[r] /\ pc[r] = "get"
      /\ body[p] \in Manifests \cup {Nil}
  BY DEF Inv, TypeOK
<1>2. TypeOK'
  <2>1. pc' \in [Reqs -> PCs]
    BY DEF Inv, TypeOK, PCs
  <2>2. ent' \in [Reqs -> Cached \cup {Nil}]
    BY <1>1 DEF Inv, TypeOK, Cached
  <2>3. stirred' \in [Reqs -> BOOLEAN]
    <3>1. CASE UNCHANGED stirred
      BY <3>1 DEF Inv, TypeOK
    <3>2. CASE stirred' = [stirred EXCEPT ![r] = hurt[p] \/ lock[p] # Nil]
      BY <3>2 DEF Inv, TypeOK
    <3> QED
      BY <1>1, <3>1, <3>2
  <2> QED
    BY <2>1, <2>2, <2>3 DEF Inv, TypeOK, Cached, upstream, store
<1>3. \A q \in Reqs \ {r} : Same(q)
  BY DEF Inv, TypeOK, Same
<1>4. UNCHANGED <<upstream, store, path, got, result, gone, hurt>>
  OBVIOUS
<1>5. ReqOK(r)'
  <2>1. CASE pc'[r] = "fetch"
    BY <1>1, <1>4, <2>1 DEF ReqOK, Informed, Answered, Reader, Writer, upstream
  <2>2. CASE pc'[r] # "fetch"
    <3>0. /\ body[p] # Nil /\ pc' = [pc EXCEPT ![r] = "getMeta"]
          /\ ent' = [ent EXCEPT ![r] = [body |-> body[p], eff |-> Nil]]
          /\ stirred' = [stirred EXCEPT ![r] = hurt[p] \/ lock[p] # Nil]
      BY <2>2 DEF Inv, TypeOK
    <3>1. /\ body[p] # Nil /\ pc'[r] = "getMeta"
          /\ ent'[r] = [body |-> body[p], eff |-> Nil]
          /\ stirred'[r] <=> hurt[p] \/ lock[p] # Nil
      BY <3>0 DEF Inv, TypeOK
    <3>2. ent'[r] \in Cached /\ ent'[r].body = body[p]
      BY <1>1, <3>1 DEF Cached
    <3>3. UNCHANGED <<up, body, lock>>
      BY <1>4 DEF upstream, store
    <3> QED
      BY <1>1, <1>4, <3>1, <3>2, <3>3 DEF ReqOK, Informed, Answered, Reader, Writer
  <2> QED
    BY <2>1, <2>2
<1> QED
  BY <1>1, <1>2, <1>3, <1>4, <1>5, LocalStep DEF upstream

LEMMA GetMetaInv ==
  ASSUME Inv, NEW r \in Reqs, GetMeta(r)
  PROVE  Inv'
<1> USE DEF GetMeta, Goto
<1> PICK p \in Wanted : p = path[r]
  BY DEF Inv, ReqOK, Informed
<1>1. /\ ReqOK(r) /\ KeyOK(p) /\ p = path[r] /\ pc[r] = "getMeta"
      /\ ent[r] \in Cached /\ meta[p] \in Paths \cup {Nil}
  BY DEF Inv, TypeOK, ReqOK, Reader
<1> DEFINE e == [body |-> ent[r].body, eff |-> meta[p]]
<1>2. e \in Cached /\ ent' = [ent EXCEPT ![r] = e]
  <2>1. [ent[r] EXCEPT !.eff = meta[p]] = e /\ e \in Cached
    BY <1>1 DEF Cached
  <2>2. ent' = [ent EXCEPT ![r] = [ent[r] EXCEPT !.eff = meta[p]]]
    BY <1>1 DEF Set
  <2> QED
    BY <2>1, <2>2
<1>3. TypeOK'
  <2>1. pc' \in [Reqs -> PCs]
    BY DEF Inv, TypeOK, PCs
  <2>2. ent' \in [Reqs -> Cached \cup {Nil}]
    BY <1>2, LocalsType DEF Inv, Locals
  <2> QED
    BY <2>1, <2>2, TypeKept, LocalsType DEF Inv, Locals
<1>4. pc'[r] = "reval" /\ ent'[r] = e /\ UNCHANGED <<up, store, path, got, result, gone, hurt, stirred>>
  BY <1>2 DEF Inv, TypeOK, upstream
<1>5. \A q \in Reqs \ {r} : Same(q)
  BY <1>2 DEF Inv, TypeOK, Same
<1>6. ReqOK(r)'
  <2>1. stirred[r] \/ ent[r].body.from = IF e.eff = Nil THEN p ELSE e.eff
    <3>1. CASE ~stirred[r]
      <4>1. body[p] = ent[r].body /\ lock[p] = Nil /\ ~hurt[p]
        BY <1>1, <3>1 DEF ReqOK, Reader
      <4>2. body[p] \in Manifests /\ body[p] # Nil /\ body[p].from \in Paths
        BY <1>1, <4>1, NilFresh DEF Cached, Manifests
      <4>3. meta[p] = IF body[p].from = p THEN Nil ELSE body[p].from
        BY <1>1, <4>1, <4>2 DEF KeyOK
      <4> QED
        BY <4>1, <4>2, <4>3, NilFresh
    <3> QED
      BY <3>1
  <2>2. Effective(r)' = IF e.eff = Nil THEN p ELSE e.eff
    BY <1>1, <1>4 DEF Effective
  <2>3. ent'[r].body = ent[r].body /\ ent'[r] \in Cached
    <3>1. e.body = ent[r].body
      OBVIOUS
    <3> HIDE DEF e
    <3> QED
      BY ONLY <1>2, <1>4, <3>1
  <2>4. Reader(r)'
    BY <1>4, <2>1, <2>2, <2>3 DEF Reader
  <2> QED
    BY <1>1, <1>4, <2>4 DEF ReqOK, Informed, Answered, Writer
<1> QED
  BY <1>1, <1>3, <1>4, <1>5, <1>6, LocalStep

(* The HEAD is answered, or a fetch: only the request itself changes.      *)
LEMMA AskedInv ==
  ASSUME Inv, NEW r \in Reqs, pc[r] \in {"reval", "fetch", "fallback", "put"}, Locals',
         UNCHANGED <<upstream, store, breaks, restarts, gone, hurt, stirred>>,
         path' = path,
         \A q \in Reqs \ {r} : /\ pc'[q] = pc[q] /\ result'[q] = result[q]
                               /\ ent'[q] = ent[q] /\ got'[q] = got[q],
         ReqOK(r)'
  PROVE  Inv'
<1>1. TypeOK'
  BY TypeKept DEF Inv
<1>2. \A q \in Reqs \ {r} : Same(q)
  BY DEF Same
<1>3. PICK p \in Wanted : p = path[r]
  BY DEF Inv, ReqOK, Informed
<1> QED
  BY <1>1, <1>2, <1>3, LocalStep DEF upstream

LEMMA RevalidateInv ==
  ASSUME Inv, NEW r \in Reqs, Revalidate(r)
  PROVE  Inv'
<1> USE DEF Revalidate
<1>1. /\ ReqOK(r) /\ pc[r] = "reval" /\ Locals /\ TypeOK
      /\ UNCHANGED <<upstream, store, breaks, restarts, gone, hurt, stirred>>
  BY LocalsType DEF Inv
<1>2. CASE Retry(r)
  BY <1>1, <1>2, Retried
<1>3. CASE Finish(r, "hit")
  BY <1>1, <1>3, Finished, FinishedOK, AskedInv DEF Outcomes, Inv, upstream
<1>4. CASE /\ up[Effective(r)] = 0 /\ Goto(r, "reval", "drop")
           /\ tries' = Set(tries, r, 0) /\ UNCHANGED <<path, ent, got, result>>
  <2>1. Locals'
    BY <1>1, <1>4 DEF Locals, Goto, Set, PCs
  <2>2. pc'[r] = "drop" /\ \A q \in Reqs \ {r} : pc'[q] = pc[q]
    BY <1>1, <1>4 DEF Locals, Goto
  <2>3. Effective(r) \in Paths
    BY <1>1 DEF ReqOK, Informed, Reader, Effective, Cached, Paths
  <2>4. Effective(r) \in gone[r]
    BY <1>1, <1>4, <2>3 DEF ReqOK, Informed
  <2>5. ReqOK(r)'
    BY <1>1, <1>4, <2>2, <2>4 DEF ReqOK, Informed, Answered, Reader, Writer, Effective, upstream
  <2> QED
    BY <1>1, <1>4, <2>1, <2>2, <2>5, AskedInv
<1>5. CASE /\ Goto(r, "reval", "fetch") /\ tries' = Set(tries, r, 0)
           /\ ent' = Set(ent, r, Nil) /\ UNCHANGED <<path, got, result>>
  <2>1. Locals'
    BY <1>1, <1>5 DEF Locals, Goto, Set, PCs
  <2>2. /\ pc'[r] = "fetch"
        /\ \A q \in Reqs \ {r} : pc'[q] = pc[q] /\ ent'[q] = ent[q]
    BY <1>1, <1>5 DEF Locals, Goto, Set
  <2>3. ReqOK(r)'
    BY <1>1, <1>5, <2>2 DEF ReqOK, Informed, Answered, Reader, Writer, upstream
  <2> QED
    BY <1>1, <1>5, <2>1, <2>2, <2>3, AskedInv
<1> QED
  BY <1>2, <1>3, <1>4, <1>5

(* The manifest arrives.                                                   *)
LEMMA FetchedInv ==
  ASSUME Inv, NEW r \in Reqs, NEW p \in Paths, pc[r] \in {"fetch", "fallback"},
         Fetched(r, p), p = path[r] \/ path[r] \in gone[r],
         UNCHANGED <<upstream, store, breaks, restarts, gone, hurt, stirred>>
  PROVE  Inv'
<1> USE DEF Fetched, Set
<1> DEFINE g == [from |-> p, ver |-> up[p]]
<1>1. ReqOK(r) /\ Locals /\ TypeOK
  BY LocalsType DEF Inv
<1>2. up[p] \in 1..MaxVer
  BY <1>1, BoundsType DEF TypeOK
<1>3. g \in Manifests /\ g.from = p /\ g # Nil
  BY <1>2, NilFresh DEF Manifests
<1>4. got' = [got EXCEPT ![r] = g] /\ pc' = [pc EXCEPT ![r] = "put"]
  OBVIOUS
<1> HIDE DEF g
<1>5. Locals'
  BY <1>1, <1>3, <1>4 DEF Locals, PCs
<1>6. /\ pc'[r] = "put" /\ got'[r] = g
      /\ \A q \in Reqs \ {r} : pc'[q] = pc[q] /\ got'[q] = got[q]
  BY <1>1, <1>4 DEF Locals
<1>7. result[r] # "notFound" /\ UNCHANGED <<path, ent, result>>
  BY <1>1 DEF ReqOK, Answered
<1>8. ReqOK(r)'
  BY <1>1, <1>3, <1>6, <1>7 DEF ReqOK, Informed, Answered, Reader, Writer, upstream
<1> QED
  BY <1>5, <1>6, <1>7, <1>8, AskedInv

(* A 404 is passed on.                                                     *)
LEMMA PassedOnInv ==
  ASSUME Inv, NEW r \in Reqs, NEW p \in Paths, pc[r] \in {"fetch", "fallback"},
         PassedOn(r, p), p = path[r] \/ path[r] \in gone[r],
         Eligible(path[r]) => p = FallbackPath(path[r]),
         UNCHANGED <<upstream, store, breaks, restarts, gone, hurt, stirred>>
  PROVE  Inv'
<1>1. ReqOK(r) /\ TypeOK /\ up[p] = 0 /\ Finish(r, "notFound")
  BY DEF Inv, PassedOn
<1>2. p \in gone[r]
  BY <1>1 DEF ReqOK, Informed
<1>3. /\ Locals' /\ path' = path
      /\ pc'[r] = "done" /\ result'[r] = "notFound" /\ got'[r] = Nil
      /\ \A q \in Reqs \ {r} : /\ pc'[q] = pc[q] /\ result'[q] = result[q]
                               /\ ent'[q] = ent[q] /\ got'[q] = got[q]
  BY <1>1, Finished DEF Outcomes
<1>4. ReqOK(r)'
  BY <1>1, <1>2, <1>3 DEF ReqOK, Informed, Answered, Reader, Writer, upstream
<1> QED
  BY <1>3, <1>4, AskedInv

LEMMA FetchInv ==
  ASSUME Inv, NEW r \in Reqs, Fetch(r)
  PROVE  Inv'
<1> USE DEF Fetch
<1>1. /\ ReqOK(r) /\ pc[r] = "fetch" /\ Locals /\ TypeOK
      /\ UNCHANGED <<upstream, store, breaks, restarts, gone, hurt, stirred>>
      /\ path[r] \in Wanted /\ path[r] \in Paths
  BY LocalsType DEF Inv, ReqOK, Informed, Paths
<1>2. CASE Retry(r)
  BY <1>1, <1>2, Retried
<1>3. CASE Fetched(r, path[r])
  BY <1>1, <1>3, FetchedInv
<1>4. CASE /\ FallsBack(r) /\ pc' = Set(pc, r, "fallback")
           /\ tries' = Set(tries, r, 0) /\ UNCHANGED <<path, ent, got, result>>
  <2>1. Locals'
    BY <1>1, <1>4 DEF Locals, Set, PCs
  <2>2. pc'[r] = "fallback" /\ \A q \in Reqs \ {r} : pc'[q] = pc[q]
    BY <1>1, <1>4 DEF Locals, Set
  <2>3. path[r] \in gone[r] /\ Eligible(path[r])
    BY <1>1, <1>4 DEF FallsBack, ReqOK, Informed
  <2>4. ReqOK(r)'
    BY <1>1, <1>4, <2>2, <2>3 DEF ReqOK, Informed, Answered, Reader, Writer, upstream
  <2> QED
    BY <1>1, <1>4, <2>1, <2>2, <2>4, AskedInv
<1>5. CASE ~FallsBack(r) /\ PassedOn(r, path[r])
  <2>1. ~Eligible(path[r])
    BY <1>5 DEF FallsBack, PassedOn
  <2> QED
    BY <1>1, <1>5, <2>1, PassedOnInv
<1>6. CASE Finish(r, "failed")
  BY <1>1, <1>6, Finished, FinishedOK, AskedInv DEF Outcomes, Inv, upstream
<1> QED
  BY <1>2, <1>3, <1>4, <1>5, <1>6

LEMMA FallbackInv ==
  ASSUME Inv, NEW r \in Reqs, Fallback(r)
  PROVE  Inv'
<1> USE DEF Fallback
<1>1. /\ ReqOK(r) /\ pc[r] = "fallback" /\ Locals /\ TypeOK
      /\ UNCHANGED <<upstream, store, breaks, restarts, gone, hurt, stirred>>
      /\ path[r] \in Wanted /\ Eligible(path[r]) /\ path[r] \in gone[r]
  BY LocalsType DEF Inv, ReqOK, Informed, Answered
<1>2. FallbackPath(path[r]) \in Paths
  BY <1>1, Fallen
<1>3. CASE Retry(r)
  BY <1>1, <1>3, Retried
<1>4. CASE Fetched(r, FallbackPath(path[r]))
  BY <1>1, <1>2, <1>4, FetchedInv
<1>5. CASE PassedOn(r, FallbackPath(path[r]))
  BY <1>1, <1>2, <1>5, PassedOnInv
<1>6. CASE Finish(r, "failed")
  BY <1>1, <1>6, Finished, FinishedOK, AskedInv DEF Outcomes, Inv, upstream
<1> QED
  BY <1>3, <1>4, <1>5, <1>6

-----------------------------------------------------------------------------
(* The writers.                                                            *)
LEMMA DropInv ==
  ASSUME Inv, NEW r \in Reqs, Drop(r)
  PROVE  Inv'
<1> USE DEF Drop, Goto, Set
<1> PICK p \in Wanted : p = path[r]
  BY DEF Inv, ReqOK, Informed
<1>1. /\ ReqOK(r) /\ KeyOK(p) /\ p = path[r] /\ pc[r] = "drop" /\ lock[p] = Nil
      /\ UNCHANGED <<upstream, lock, path, got, result, gone, hurt>>
  BY DEF Inv
<1>2. \/ /\ body' = [body EXCEPT ![p] = Nil] /\ Stir(p)
         /\ meta' = meta \/ meta' = [meta EXCEPT ![p] = Nil]
      \/ UNCHANGED <<body, meta, stirred>>
  BY <1>1
<1>3. TypeOK'
  <2>1. pc' \in [Reqs -> PCs] /\ ent' \in [Reqs -> Cached \cup {Nil}]
    BY DEF Inv, TypeOK, PCs, Cached
  <2>2. /\ body' \in [Wanted -> Manifests \cup {Nil}]
        /\ meta' \in [Wanted -> Paths \cup {Nil}]
    BY <1>2 DEF Inv, TypeOK
  <2>3. stirred' \in [Reqs -> BOOLEAN]
    BY <1>2 DEF Inv, TypeOK, Stir
  <2> QED
    BY <2>1, <2>2, <2>3 DEF Inv, TypeOK, Cached, upstream
<1>4. \A q \in Reqs : stirred[q] => stirred'[q]
  BY <1>2 DEF Stir
<1>5. \A q \in Reqs \ {r} : Same(q)
  BY <1>1, <1>4 DEF Inv, TypeOK, Same
<1>6. \A j \in Wanted \ {p} : Kept(j)
  BY <1>1, <1>2 DEF Kept, Inv, TypeOK
<1>7. \/ Kept(p)
      \/ \A q \in Reqs \ {r} : pc[q] = "getMeta" /\ path[q] = p => stirred'[q]
  BY <1>1, <1>2 DEF Kept, Stir
<1>8. pc'[r] = "fetch" /\ KeyOK(p)'
  <2>1. body'[p] = Nil \/ (body'[p] = body[p] /\ meta'[p] = meta[p])
    BY <1>2 DEF Inv, TypeOK
  <2> QED
    BY <1>1, <2>1 DEF KeyOK, Inv, TypeOK
<1>9. ReqOK(r)'
  BY <1>1, <1>8 DEF ReqOK, Informed, Answered, Reader, Writer, upstream
<1> QED
  BY <1>1, <1>3, <1>5, <1>6, <1>7, <1>8, <1>9, OneStep DEF upstream

LEMMA PutInv ==
  ASSUME Inv, NEW r \in Reqs, Put(r)
  PROVE  Inv'
<1> USE DEF Put, Set
<1> PICK p \in Wanted : p = path[r]
  BY DEF Inv, ReqOK, Informed
<1>1. /\ ReqOK(r) /\ KeyOK(p) /\ p = path[r] /\ pc[r] = "put" /\ TypeOK
      /\ got[r] \in Manifests /\ UNCHANGED <<upstream, meta, breaks, restarts, gone, hurt>>
  BY DEF Inv, TypeOK, ReqOK, Answered
<1>2. CASE Finish(r, "failed") /\ UNCHANGED <<lock, body, stirred>>
  BY <1>1, <1>2, Finished, FinishedOK, AskedInv DEF Outcomes, upstream, store
<1>3. CASE /\ Goto(r, "put", "putMeta") /\ lock[p] = Nil
           /\ lock' = [lock EXCEPT ![p] = r]
           /\ body' = [body EXCEPT ![p] = got[r]]
           /\ Stir(p) /\ UNCHANGED local
  <2>1. TypeOK'
    <3>1. pc' \in [Reqs -> PCs] /\ stirred' \in [Reqs -> BOOLEAN]
      BY <1>1, <1>3 DEF TypeOK, PCs, Goto, Stir
    <3>2. lock' \in [Wanted -> Reqs \cup {Nil}] /\ body' \in [Wanted -> Manifests \cup {Nil}]
      BY <1>1, <1>3 DEF TypeOK
    <3> QED
      BY <1>1, <1>3, <3>1, <3>2 DEF TypeOK, upstream, local
  <2>2. /\ pc'[r] = "putMeta" /\ lock'[p] = r /\ body'[p] = got[r]
        /\ UNCHANGED <<path, ent, got, result>>
    BY <1>1, <1>3 DEF Goto, TypeOK, local
  <2>3. \A q \in Reqs \ {r} : Same(q)
    BY <1>1, <1>3 DEF TypeOK, Same, Goto, Stir, local
  <2>4. \A j \in Wanted \ {p} : Kept(j)
    BY <1>1, <1>3 DEF Kept, TypeOK
  <2>5. \A q \in Reqs \ {r} : pc[q] = "getMeta" /\ path[q] = p => stirred'[q]
    BY <1>3 DEF Stir
  <2>6. ReqOK(r)' /\ KeyOK(p)'
    BY <1>1, <2>2, NilFresh DEF ReqOK, Informed, Answered, Reader, Writer, KeyOK, upstream
  <2> QED
    BY <1>1, <1>3, <2>1, <2>3, <2>4, <2>5, <2>6, OneStep DEF upstream
<1> QED
  BY <1>1, <1>2, <1>3

LEMMA PutMetaInv ==
  ASSUME Inv, NEW r \in Reqs, PutMeta(r)
  PROVE  Inv'
<1> USE DEF PutMeta, Set
<1> PICK p \in Wanted : p = path[r]
  BY DEF Inv, ReqOK, Informed
<1>1. /\ ReqOK(r) /\ KeyOK(p) /\ p = path[r] /\ pc[r] = "putMeta" /\ TypeOK
      /\ got[r] \in Manifests /\ got[r].from \in Paths
      /\ UNCHANGED <<upstream, body, restarts, gone>> /\ Stir(p)
      /\ lock' = [lock EXCEPT ![p] = Nil] /\ lock[p] = r /\ body[p] = got[r]
  BY DEF Inv, TypeOK, ReqOK, Answered, Writer, Manifests
<1> DEFINE m == IF got[r].from = p THEN Nil ELSE got[r].from
<1>2. PICK o \in {"fetched", "failed"} : Finish(r, o)
  OBVIOUS
<1>3. \/ /\ meta' = [meta EXCEPT ![p] = m] /\ hurt' = [hurt EXCEPT ![p] = FALSE]
         /\ breaks' = breaks
      \/ /\ meta' = meta /\ hurt' = [hurt EXCEPT ![p] = TRUE]
         /\ breaks < MaxBreaks /\ breaks' = breaks + 1
  BY <1>1 DEF Written
<1>4. /\ Locals' /\ path' = path
      /\ pc'[r] = "done" /\ result'[r] = o /\ got'[r] = Nil
      /\ \A q \in Reqs \ {r} : /\ pc'[q] = pc[q] /\ result'[q] = result[q]
                               /\ ent'[q] = ent[q] /\ got'[q] = got[q]
  BY <1>1, <1>2, Finished DEF Outcomes
<1>5. TypeOK'
  <2>1. /\ lock' \in [Wanted -> Reqs \cup {Nil}] /\ meta' \in [Wanted -> Paths \cup {Nil}]
        /\ hurt' \in [Wanted -> BOOLEAN] /\ stirred' \in [Reqs -> BOOLEAN]
    BY <1>1, <1>3 DEF TypeOK, Stir
  <2>2. breaks' \in 0..MaxBreaks
    BY <1>1, <1>3, BoundsType DEF TypeOK
  <2> QED
    BY <1>1, <1>4, <2>1, <2>2 DEF TypeOK, Locals, Cached, upstream
<1>6. \A q \in Reqs \ {r} : Same(q)
  BY <1>1, <1>4 DEF Same, Stir
<1>7. \A j \in Wanted \ {p} : Kept(j)
  BY <1>1, <1>3 DEF Kept, TypeOK
<1>8. \A q \in Reqs \ {r} : pc[q] = "getMeta" /\ path[q] = p => stirred'[q]
  BY <1>1 DEF Stir
<1>9. KeyOK(p)'
  <2>1. lock'[p] = Nil /\ body'[p] = got[r] /\ (hurt'[p] \/ meta'[p] = m)
    BY <1>1, <1>3 DEF TypeOK
  <2> QED
    BY <2>1 DEF KeyOK
<1>10. ReqOK(r)'
  BY <1>1, <1>2, <1>4, FinishedOK DEF Outcomes, upstream
<1> QED
  BY <1>1, <1>5, <1>6, <1>7, <1>8, <1>9, <1>10, OneStep DEF upstream

LEMMA EndInv ==
  ASSUME Inv, NEW r \in Reqs, End(r)
  PROVE  Inv'
<1> USE DEF End, Goto, Set
<1> PICK p \in Wanted : p = path[r]
  BY DEF Inv, ReqOK, Informed
<1>1. /\ ReqOK(r) /\ KeyOK(p) /\ p = path[r] /\ pc[r] = "done" /\ TypeOK
      /\ UNCHANGED <<upstream, store, ent, got, hurt>>
  BY DEF Inv
<1>2. TypeOK'
  <2>1. pc' \in [Reqs -> PCs] /\ path' \in [Reqs -> Wanted \cup {Nil}]
    BY <1>1 DEF TypeOK, PCs
  <2>2. /\ result' \in [Reqs -> Outcomes \cup {Nil}] /\ gone' \in [Reqs -> SUBSET Paths]
        /\ stirred' \in [Reqs -> BOOLEAN]
    BY <1>1 DEF TypeOK
  <2> QED
    BY <1>1, <2>1, <2>2 DEF TypeOK, upstream, store
<1>3. /\ pc'[r] = "idle" /\ result'[r] = Nil /\ got'[r] = Nil
      /\ \A q \in Reqs \ {r} : /\ pc'[q] = pc[q] /\ path'[q] = path[q]
                               /\ result'[q] = result[q] /\ gone'[q] = gone[q]
                               /\ stirred'[q] = stirred[q]
  BY <1>1 DEF TypeOK, ReqOK, Answered
<1>4. ReqOK(r)'
  BY <1>1, <1>3, NilFresh DEF ReqOK, Informed, Answered, Reader, Writer, Outcomes
<1>5. \A q \in Reqs \ {r} : Same(q)
  BY <1>1, <1>3 DEF Same
<1> QED
  BY <1>1, <1>2, <1>4, <1>5, LocalStep DEF upstream

-----------------------------------------------------------------------------
(* The environment.                                                        *)
LEMMA UpstreamInv ==
  ASSUME Inv, NEW p \in Paths, Publish(p) \/ Withdraw(p)
  PROVE  Inv'
<1> USE DEF Publish, Withdraw, Set
<1>1. UNCHANGED <<store, pc, path, ent, got, tries, result, breaks, restarts, hurt, stirred>>
  BY DEF local
<1>2. /\ clock' \in 0..MaxVer /\ up' \in [Paths -> 0..MaxVer]
      /\ gone' \in [Reqs -> SUBSET Paths]
  BY BoundsType DEF Inv, TypeOK
<1>3. TypeOK'
  BY <1>1, <1>2 DEF Inv, TypeOK, store
<1>4. \A r \in Reqs : gone[r] \subseteq gone'[r]
  OBVIOUS
<1>6. ASSUME NEW r \in Reqs, NEW q \in Paths, up'[q] = 0
      PROVE  up[q] = 0 \/ q \in gone'[r]
  <2>1. CASE Publish(p)
    BY <1>6, <2>1, BoundsType DEF Inv, TypeOK
  <2>2. CASE Withdraw(p)
    BY <1>6, <2>2 DEF Inv, TypeOK
  <2> QED
    BY <2>1, <2>2
<1>7. ASSUME NEW r \in Reqs PROVE ReqOK(r)'
  <2>1. ReqOK(r) /\ gone[r] \subseteq gone'[r]
    BY <1>4 DEF Inv
  <2>2. Informed(r)'
    BY <1>1, <1>6, <2>1 DEF ReqOK, Informed
  <2>3. Answered(r)' /\ Reader(r)' /\ Writer(r)'
    BY <1>1, <2>1 DEF ReqOK, Answered, Reader, Writer, Effective, store
  <2> QED
    BY <2>2, <2>3 DEF ReqOK
<1>8. ASSUME NEW j \in Wanted PROVE KeyOK(j)'
  BY <1>1 DEF Inv, KeyOK, store
<1> QED
  BY <1>3, <1>7, <1>8 DEF Inv

LEMMA RestartInv ==
  ASSUME Inv, Restart
  PROVE  Inv'
<1> USE DEF Restart
<1>1. TypeOK'
  <2>1. restarts' \in 0..MaxRestarts
    BY BoundsType DEF Inv, TypeOK
  <2>2. hurt' \in [Wanted -> BOOLEAN]
    OBVIOUS
  <2> QED
    BY <2>1, <2>2 DEF Inv, TypeOK, PCs, upstream
<1>2. ASSUME NEW r \in Reqs PROVE ReqOK(r)'
  BY NilFresh DEF ReqOK, Informed, Answered, Reader, Writer, Outcomes
<1>3. ASSUME NEW p \in Wanted PROVE KeyOK(p)'
  <2>1. KeyOK(p) /\ lock'[p] = Nil /\ (~hurt'[p] => lock[p] = Nil /\ ~hurt[p])
    BY DEF Inv
  <2> QED
    BY <2>1 DEF KeyOK
<1> QED
  BY <1>1, <1>2, <1>3 DEF Inv

-----------------------------------------------------------------------------
LEMMA InitInv == Init => Inv
<1> SUFFICES ASSUME Init PROVE Inv
  OBVIOUS
<1> USE DEF Init
<1>1. TypeOK
  BY BoundsType DEF TypeOK, PCs
<1>2. ASSUME NEW r \in Reqs PROVE ReqOK(r)
  BY NilFresh DEF ReqOK, Informed, Answered, Reader, Writer, Outcomes
<1>3. ASSUME NEW p \in Wanted PROVE KeyOK(p)
  BY DEF KeyOK
<1> QED
  BY <1>1, <1>2, <1>3 DEF Inv

LEMMA NextInv == Inv /\ [Next]_vars => Inv'
<1> SUFFICES ASSUME Inv, [Next]_vars PROVE Inv'
  OBVIOUS
<1>1. ASSUME NEW p \in Paths, Publish(p) \/ Withdraw(p) PROVE Inv'
  BY <1>1, UpstreamInv
<1>2. ASSUME NEW r \in Reqs, NEW p \in Wanted, Begin(r, p) PROVE Inv'
  BY <1>2, BeginInv
<1>3. ASSUME NEW r \in Reqs, Handle(r) PROVE Inv'
  BY <1>3, GetInv, GetMetaInv, RevalidateInv, DropInv, FetchInv, FallbackInv, PutInv,
     PutMetaInv, EndInv DEF Handle
<1>4. CASE Restart
  BY <1>4, RestartInv
<1>5. CASE UNCHANGED vars
  BY <1>5 DEF vars, upstream, store, local, Inv, TypeOK, ReqOK, Informed, Answered, Reader,
     Writer, Effective, KeyOK
<1> QED
  BY <1>1, <1>2, <1>3, <1>4, <1>5 DEF Next

(* The inductive invariant: what requests know of the upstream, and what   *)
(* entries and their metadata say, is true of some moment of the request.  *)
THEOREM Invariance == Spec => []Inv
BY InitInv, NextInv, PTL DEF Spec

(* The handler's locals and the cached manifests keep their types.         *)
THEOREM TypeCorrect == Spec => []TypeOK
<1>1. Inv => TypeOK
  BY DEF Inv
<1> QED
  BY Invariance, <1>1, PTL

(* The fallback path is used only for manifests whose own path the         *)
(* upstream was without (retryRegistryK8sManifestFallback).                *)
THEOREM FallbackAlwaysJustified == Spec => []FallbackJustified
<1>1. Inv => FallbackJustified
  BY DEF Inv, ReqOK, Answered, FallbackJustified
<1> QED
  BY Invariance, <1>1, PTL

(* A client is told 404 only if neither path was there all the time.       *)
THEOREM NotFoundAlwaysJustified == Spec => []NotFoundJustified
<1>1. Inv => NotFoundJustified
  BY DEF Inv, ReqOK, Answered, NotFoundJustified
<1> QED
  BY Invariance, <1>1, PTL

(* No step but Drop takes a body away.                                     *)
LEMMA OnlyDropRemoves ==
  ASSUME Inv, [Next]_vars, NEW p \in Wanted, body[p] # Nil, body'[p] = Nil
  PROVE  \E r \in Reqs : pc[r] = "drop" /\ path[r] = p
<1>1. CASE UNCHANGED body
  BY <1>1
<1>2. ASSUME NEW r \in Reqs, Drop(r) PROVE pc[r] = "drop" /\ path[r] = p
  BY <1>2 DEF Drop, Goto, Set, Inv, TypeOK
<1>3. ASSUME NEW r \in Reqs, Put(r), ~UNCHANGED body PROVE FALSE
  <2>1. body' = [body EXCEPT ![path[r]] = got[r]] /\ pc[r] = "put"
    BY <1>3 DEF Put, Set
  <2>2. got[r] # Nil
    BY <2>1 DEF Inv, ReqOK, Answered
  <2> QED
    BY <2>1, <2>2 DEF Inv, TypeOK
<1> QED
  BY <1>1, <1>2, <1>3 DEF Next, Handle, Publish, Withdraw, Begin, Get, GetMeta, Revalidate,
     Fetch, Fallback, PutMeta, End, Restart, store, vars

(* isCacheFresh removes an entry it has read undisturbed only if the       *)
(* upstream was without the path the manifest came from.                   *)
THEOREM OnlyGoneRemoved == Spec => RemovedOnlyIfGone
<1>1. ASSUME Inv, [Next]_vars, NEW p \in Wanted, body[p] # Nil, body'[p] = Nil
      PROVE  \E r \in Reqs : /\ pc[r] = "drop" /\ path[r] = p
                             /\ \/ body[p].from \in gone[r]
                                \/ body[p] # ent[r].body
                                \/ stirred[r]
  <2>1. PICK r \in Reqs : pc[r] = "drop" /\ path[r] = p
    BY <1>1, OnlyDropRemoves
  <2>2. stirred[r] \/ ent[r].body.from \in gone[r]
    BY <1>1, <2>1 DEF Inv, ReqOK, Reader
  <2> QED
    BY <2>1, <2>2
<1>2. Inv /\ [Next]_vars =>
        [\A p \in Wanted : (body[p] # Nil /\ body'[p] = Nil) =>
           \E r \in Reqs : /\ pc[r] = "drop" /\ path[r] = p
                           /\ \/ body[p].from \in gone[r]
                              \/ body[p] # ent[r].body
                              \/ stirred[r]]_vars
  BY <1>1
<1> QED
  BY Invariance, <1>2, PTL DEF Spec, RemovedOnlyIfGone
=============================================================================
