-------------------------- MODULE EntryLock_proof --------------------------
(***************************************************************************)
(* Type correctness, mutual exclusion and the table's bookkeeping, for any *)
(* number of goroutines, keys and lock objects.                            *)
(***************************************************************************)
EXTENDS EntryLock, FiniteSetTheorems, TLAPS

(* s.mu is held exactly inside lookup, ref and unref; who has no pointer   *)
(* is where the code has none; the mutex of a lock in use is held by the   *)
(* goroutine that is inside with it.                                       *)
MapMutex == \A p \in Procs : pc[p] \in {"lookup", "ref", "unref"} <=> mu = p
Pointers == \A p \in Procs : /\ Using(p) <=> lk[p] # Nil
                             /\ pc[p] # "idle" => key[p] \in Keys
Owners == /\ \A p \in Procs : pc[p] = "inside" => owner[lk[p]] = p
          /\ \A p, q \in Procs : Using(q) /\ owner[lk[q]] = p
               => pc[p] = "inside" /\ lk[p] = lk[q]

Inv == /\ TypeOK
       /\ MapMutex
       /\ Pointers
       /\ Owners
       /\ PointersCurrent
       /\ TableTracksUsers

-----------------------------------------------------------------------------
(* The users of a lock are finitely many, so counting them makes sense.    *)
LEMMA UsersFinite == \A o : IsFiniteSet(Users(o))
<1>1. \A o : Users(o) \subseteq Procs
  BY DEF Users
<1> QED
  BY <1>1, ProcsFinite, FS_Subset

(* With nobody using it, every part of the invariant holds at the start.   *)
LEMMA InitInv == Init => Inv
<1> SUFFICES ASSUME Init PROVE Inv
  OBVIOUS
<1>1. TypeOK
  BY DEF Init, TypeOK, PCs
<1>2. MapMutex /\ Pointers /\ Owners /\ PointersCurrent
  BY NilFresh DEF Init, MapMutex, Pointers, Owners, PointersCurrent, Using, Counted
<1>3. TableTracksUsers
  BY DEF Init, TableTracksUsers, Tracked
<1> QED
  BY <1>1, <1>2, <1>3 DEF Inv

(* The bookkeeping survives any step that changes neither the table nor    *)
(* the counters nor who uses what.                                         *)
LEMMA SameUsers ==
  ASSUME TableTracksUsers,
         UNCHANGED <<key, lk, locks, refs>>,
         \A p \in Procs : (Using(p) <=> Using(p)') /\ (Counted(p) <=> Counted(p)')
  PROVE  TableTracksUsers'
<1>1. \A o : Users(o)' = Users(o)
  BY DEF Users
<1> QED
  BY <1>1 DEF TableTracksUsers, Tracked

(* To show that the lock of k is still tracked, name its object.           *)
LEMMA TrackedNext ==
  ASSUME TypeOK', NEW k \in Keys,
         \A u \in Locks : locks'[k] = u =>
            /\ \E q \in Procs : Using(q)' /\ key'[q] = k
            /\ \A j \in Keys : locks'[j] = u => j = k
            /\ refs'[u] = Cardinality(Users(u)')
  PROVE  Tracked(k)'
<1> SUFFICES ASSUME locks'[k] # Nil PROVE Tracked(k)'
  BY DEF Tracked
<1>1. PICK u \in Locks : locks'[k] = u
  BY DEF TypeOK
<1>2. (Users(locks[k]))' = Users(u)'
  BY <1>1 DEF Users
<1> QED
  BY <1>1, <1>2 DEF Tracked

LEMMA StartInv ==
  ASSUME Inv, NEW p \in Procs, NEW k \in Keys, Start(p, k)
  PROVE  Inv'
<1> USE DEF Start, Goto
<1>1. TypeOK'
  BY DEF Inv, TypeOK, PCs
<1>2. (MapMutex /\ Pointers /\ Owners)'
  BY DEF Inv, TypeOK, PCs, MapMutex, Pointers, Owners, Using, Counted
<1>3. PointersCurrent'
  BY DEF Inv, TypeOK, PCs, Pointers, PointersCurrent, Using, Counted
<1>4. TableTracksUsers'
  <2>1. \A o : Users(o)' = Users(o)
    BY DEF Users, Counted, Inv, TypeOK, PCs
  <2>2. \A q \in Procs : (Using(q)' <=> Using(q)) /\ (Using(q) => key'[q] = key[q])
    BY DEF Using, Counted, Inv, TypeOK, PCs
  <2> QED
    BY <2>1, <2>2 DEF Inv, TableTracksUsers, Tracked
<1> QED
  BY <1>1, <1>2, <1>3, <1>4 DEF Inv

LEMMA LockMapInv ==
  ASSUME Inv, NEW p \in Procs, LockMap(p) \/ LockMapAgain(p)
  PROVE  Inv'
<1> USE DEF LockMap, LockMapAgain, Goto
<1>1. TypeOK'
  BY DEF Inv, TypeOK, PCs
<1>2. (MapMutex /\ Pointers /\ Owners)'
  BY NilFresh DEF Inv, TypeOK, PCs, MapMutex, Pointers, Owners, Using, Counted
<1>3. PointersCurrent'
  BY DEF Inv, TypeOK, PCs, PointersCurrent, Using, Counted
<1>4. TableTracksUsers'
  BY SameUsers DEF Inv, TypeOK, PCs, Using, Counted
<1> QED
  BY <1>1, <1>2, <1>3, <1>4 DEF Inv

LEMMA LookupInv ==
  ASSUME Inv, NEW p \in Procs, Lookup(p)
  PROVE  Inv'
<1> USE DEF Lookup, Goto
<1>a. /\ mu = p /\ lk[p] = Nil /\ key[p] \in Keys /\ ~Using(p)
      /\ \A q \in Procs : pc[q] # "ref"
  BY DEF Inv, TypeOK, PCs, MapMutex, Pointers, Using, Counted
<1>1. CASE Found(p)
  <2> USE <1>1 DEF Found
  <2>1. TypeOK'
    BY <1>a DEF Inv, TypeOK, PCs
  <2>2. (MapMutex /\ Pointers /\ Owners)'
    <3>1. (MapMutex /\ Pointers)'
      BY <1>a DEF Inv, TypeOK, PCs, MapMutex, Pointers, Using, Counted
    <3>2. PICK q \in Procs : Using(q) /\ key[q] = key[p]
      BY <1>a DEF Inv, TableTracksUsers, Tracked
    <3>3. lk[q] = locks[key[p]] /\ q # p
      BY <1>a, <3>2 DEF Inv, PointersCurrent
    <3>4. Owners'
      BY <1>a, <3>2, <3>3 DEF Inv, TypeOK, PCs, Owners, Using, Counted
    <3> QED
      BY <3>1, <3>4
  <2>3. PointersCurrent'
    BY <1>a DEF Inv, TypeOK, PCs, PointersCurrent, Using, Counted
  <2>4. TableTracksUsers'
    <3>1. \A o \in Locks : Users(o)' = Users(o)
      BY <1>a, NilFresh DEF Users, Counted, Using, Inv, TypeOK, PCs
    <3>2. \A q \in Procs : Using(q) => Using(q)' /\ key'[q] = key[q]
      BY <1>a DEF Using, Counted, Inv, TypeOK, PCs
    <3> QED
      BY <3>1, <3>2 DEF Inv, TypeOK, TableTracksUsers, Tracked
  <2> QED
    BY <2>1, <2>2, <2>3, <2>4 DEF Inv
<1>2. CASE Create(p)
  <2>1. PICK o \in Fresh : /\ locks[key[p]] = Nil
                           /\ lk' = [lk EXCEPT ![p] = o]
                           /\ locks' = [locks EXCEPT ![key[p]] = o]
                           /\ refs' = [refs EXCEPT ![o] = 0]
                           /\ owner' = [owner EXCEPT ![o] = Nil]
    BY <1>2 DEF Create
  <2>2. /\ o \in Locks /\ o # Nil
        /\ \A k \in Keys : locks[k] # o
        /\ \A q \in Procs : lk[q] # o
    BY NilFresh DEF Fresh
  <2>3. TypeOK'
    BY <1>a, <2>1, <2>2 DEF Inv, TypeOK, PCs
  <2>4. (MapMutex /\ Pointers)'
    BY <1>a, <2>1, <2>2 DEF Inv, TypeOK, PCs, MapMutex, Pointers, Using, Counted
  <2>5. Owners'
    BY <1>a, <2>1, <2>2, NilFresh DEF Inv, TypeOK, PCs, Owners, Pointers, Using, Counted
  <2>6. PointersCurrent'
    BY <1>a, <2>1, <2>2 DEF Inv, TypeOK, PCs, Pointers, PointersCurrent, Using, Counted
  <2>7. TableTracksUsers'
    <3>1. \A u \in Locks : Users(u)' = Users(u)
      BY <1>a, <2>1, NilFresh DEF Users, Counted, Using, Inv, TypeOK, PCs
    <3>2. Users(o) = {}
      BY <2>2 DEF Users
    <3>3. \A q \in Procs : Using(q) => Using(q)' /\ key'[q] = key[q]
      BY <1>a DEF Using, Counted, Inv, TypeOK, PCs
    <3>4. Using(p)'
      BY DEF Using, Inv, TypeOK
    <3>5. Cardinality(Users(o)') = 0
      BY <3>1, <3>2, <2>2, FS_EmptySet
    <3>6. ASSUME NEW k \in Keys PROVE Tracked(k)'
      <4> SUFFICES ASSUME NEW u \in Locks, locks'[k] = u
                   PROVE  /\ \E q \in Procs : Using(q)' /\ key'[q] = k
                          /\ \A j \in Keys : locks'[j] = u => j = k
                          /\ refs'[u] = Cardinality(Users(u)')
        BY <2>3, TrackedNext
      <4>1. CASE k = key[p]
        <5>1. u = o /\ refs'[o] = 0 /\ key'[p] = k
          BY <1>a, <2>1, <2>2, <4>1 DEF Inv, TypeOK
        <5> QED
          BY <1>a, <2>1, <2>2, <3>4, <3>5, <4>1, <5>1 DEF Inv, TypeOK
      <4>2. CASE k # key[p]
        <5>1. locks[k] = u /\ u # o /\ u # Nil /\ refs'[u] = refs[u]
          BY <1>a, <2>1, <2>2, <4>2, NilFresh DEF Inv, TypeOK
        <5>2. Tracked(k)
          BY DEF Inv, TableTracksUsers
        <5>3. refs[u] = Cardinality(Users(u))
          BY <5>1, <5>2 DEF Tracked
        <5>4. \A j \in Keys : locks'[j] = u => j = k
          BY <1>a, <2>1, <5>1, <5>2 DEF Inv, TypeOK, Tracked
        <5>5. \E q \in Procs : Using(q)' /\ key'[q] = k
          BY <3>3, <5>1, <5>2 DEF Tracked
        <5> QED
          BY <3>1, <5>1, <5>3, <5>4, <5>5
      <4> QED
        BY <4>1, <4>2
    <3> QED
      BY <3>6 DEF TableTracksUsers
  <2> QED
    BY <2>3, <2>4, <2>5, <2>6, <2>7 DEF Inv
<1> QED
  BY <1>1, <1>2

LEMMA RefInv ==
  ASSUME Inv, NEW p \in Procs, Ref(p)
  PROVE  Inv'
<1> USE DEF Ref, Goto
<1>a. /\ mu = p /\ Using(p) /\ ~Counted(p) /\ key[p] \in Keys
      /\ lk[p] \in Locks /\ locks[key[p]] = lk[p]
  BY DEF Inv, TypeOK, PCs, MapMutex, Pointers, PointersCurrent, Using, Counted
<1>1. TypeOK'
  BY <1>a DEF Inv, TypeOK, PCs
<1>2. (MapMutex /\ Pointers /\ Owners)'
  BY <1>a, NilFresh DEF Inv, TypeOK, PCs, MapMutex, Pointers, Owners, Using, Counted
<1>3. PointersCurrent'
  BY <1>a DEF Inv, TypeOK, PCs, PointersCurrent, Using, Counted
<1>4. TableTracksUsers'
  <2>1. Users(lk[p])' = Users(lk[p]) \cup {p} /\ p \notin Users(lk[p])
    BY <1>a DEF Users, Counted, Inv, TypeOK, PCs
  <2>2. \A o \in Locks : o # lk[p] => Users(o)' = Users(o)
    BY <1>a DEF Users, Counted, Inv, TypeOK, PCs
  <2>3. Cardinality(Users(lk[p])') = Cardinality(Users(lk[p])) + 1
    BY <2>1, UsersFinite, FS_AddElement
  <2>4. \A q \in Procs : Using(q) => Using(q)'
    BY <1>a DEF Using, Counted, Inv, TypeOK, PCs
  <2>5. refs'[lk[p]] = refs[lk[p]] + 1 /\ \A o \in Locks : o # lk[p] => refs'[o] = refs[o]
    BY <1>a DEF Inv, TypeOK
  <2>6. ASSUME NEW k \in Keys PROVE Tracked(k)'
    <3> SUFFICES ASSUME NEW u \in Locks, locks'[k] = u
                 PROVE  /\ \E q \in Procs : Using(q)' /\ key'[q] = k
                        /\ \A j \in Keys : locks'[j] = u => j = k
                        /\ refs'[u] = Cardinality(Users(u)')
      BY <1>1, TrackedNext
    <3>1. locks[k] = u /\ u # Nil /\ Tracked(k)
      BY NilFresh DEF Inv, TableTracksUsers
    <3>2. refs[u] = Cardinality(Users(u))
      BY <3>1 DEF Tracked
    <3>3. refs'[u] = Cardinality(Users(u)')
      BY <2>2, <2>3, <2>5, <3>2
    <3> QED
      BY <2>4, <3>1, <3>3 DEF Tracked
  <2> QED
    BY <2>6 DEF TableTracksUsers
<1> QED
  BY <1>1, <1>2, <1>3, <1>4 DEF Inv

LEMMA EntryMutexInv ==
  ASSUME Inv, NEW p \in Procs, LockEntry(p) \/ UnlockEntry(p)
  PROVE  Inv'
<1> USE DEF LockEntry, UnlockEntry, Goto
<1>a. lk[p] \in Locks /\ Using(p)
  BY DEF Inv, TypeOK, PCs, Pointers, Using, Counted
<1>1. TypeOK'
  BY <1>a DEF Inv, TypeOK, PCs
<1>2. (MapMutex /\ Pointers)'
  BY DEF Inv, TypeOK, PCs, MapMutex, Pointers, Using, Counted
<1>3. Owners'
  BY <1>a, NilFresh DEF Inv, TypeOK, PCs, Pointers, Owners, Using, Counted
<1>4. PointersCurrent'
  BY DEF Inv, TypeOK, PCs, PointersCurrent, Using, Counted
<1>5. TableTracksUsers'
  BY SameUsers DEF Inv, TypeOK, PCs, Using, Counted
<1> QED
  BY <1>1, <1>2, <1>3, <1>4, <1>5 DEF Inv

LEMMA UnrefInv ==
  ASSUME Inv, NEW p \in Procs, Unref(p)
  PROVE  Inv'
<1> USE DEF Unref, Forget, DropRef, Goto
<1>0. PICK o \in Locks : lk[p] = o
  BY DEF Inv, TypeOK, PCs, Pointers, Using, Counted
<1>a. /\ mu = p /\ Using(p) /\ Counted(p) /\ key[p] \in Keys /\ o \in Locks
      /\ locks[key[p]] = o
      /\ \A q \in Procs : q # p => pc[q] \notin {"lookup", "ref", "unref"}
  BY <1>0 DEF Inv, TypeOK, PCs, MapMutex, Pointers, PointersCurrent, Using, Counted
<1>b. refs[o] = Cardinality(Users(o)) /\ o # Nil
  BY <1>0, <1>a, NilFresh DEF Inv, TableTracksUsers, Tracked
<1>c. p \in Users(o) /\ Users(o)' = Users(o) \ {p}
  BY <1>0, <1>a, NilFresh DEF Users, Counted, Inv, TypeOK, PCs
<1>d. /\ Cardinality(Users(o)) \in Nat
      /\ Cardinality(Users(o) \ {p}) = Cardinality(Users(o)) - 1
      /\ Cardinality(Users(o) \ {p}) \in Nat
  <2>1. IsFiniteSet(Users(o)) /\ IsFiniteSet(Users(o) \ {p})
    BY <1>c, UsersFinite, FS_RemoveElement
  <2> QED
    BY <1>c, <2>1, FS_RemoveElement, FS_CardinalityType
<1>e. refs'[o] = Cardinality(Users(o)') /\ refs'[o] \in Nat
  BY <1>0, <1>a, <1>b, <1>c, <1>d DEF Inv, TypeOK
<1>1. TypeOK'
  BY <1>0, <1>a, <1>e DEF Inv, TypeOK, PCs
<1>2. (MapMutex /\ Pointers)'
  BY <1>0, <1>a, NilFresh DEF Inv, TypeOK, PCs, MapMutex, Pointers, Using, Counted
<1>3. Owners'
  BY <1>0, <1>a, NilFresh DEF Inv, TypeOK, PCs, Owners, Pointers, Using, Counted
<1>f. ASSUME NEW q \in Procs, q # p, Using(q), lk[q] = o
      PROVE  refs'[o] # 0 /\ key[q] = key[p]
  <2>1. Counted(q) /\ q \in Users(o)'
    BY <1>0, <1>a, <1>c, <1>f DEF Using, Counted, Users
  <2>2. Users(o)' # {}
    BY <2>1
  <2>3. refs'[o] # 0
    BY <1>c, <1>e, <2>2, UsersFinite, FS_RemoveElement, FS_EmptySet
  <2>4. key[q] = key[p]
    BY <1>0, <1>a, <1>b, <1>f DEF Inv, Pointers, PointersCurrent, TableTracksUsers, Tracked, Using, Counted
  <2> QED
    BY <2>3, <2>4
<1>4. PointersCurrent'
  <2>1. ASSUME NEW q \in Procs, Using(q)'
        PROVE  lk'[q] # Nil /\ locks'[key'[q]] = lk'[q]
    <3>1. q # p /\ Using(q) /\ lk'[q] = lk[q] /\ key'[q] = key[q]
      BY <2>1 DEF Using, Counted, Inv, TypeOK, PCs
    <3>2. lk[q] # Nil /\ locks[key[q]] = lk[q] /\ key[q] \in Keys
      BY <3>1 DEF Inv, PointersCurrent, Pointers, Using, Counted
    <3>3. CASE key[q] = key[p]
      BY <1>0, <1>a, <1>f, <3>1, <3>2, <3>3
    <3>4. CASE key[q] # key[p]
      BY <1>0, <1>a, <3>1, <3>2, <3>4 DEF Inv, TypeOK
    <3> QED
      BY <3>3, <3>4
  <2> QED
    BY <2>1 DEF PointersCurrent
<1>5. TableTracksUsers'
  <2>1. ASSUME NEW k \in Keys PROVE Tracked(k)'
    <3> SUFFICES ASSUME NEW u \in Locks, locks'[k] = u
                 PROVE  /\ \E q \in Procs : Using(q)' /\ key'[q] = k
                        /\ \A j \in Keys : locks'[j] = u => j = k
                        /\ refs'[u] = Cardinality(Users(u)')
      BY <1>1, TrackedNext
    <3>1. locks[k] = u /\ u # Nil /\ Tracked(k)
      BY <1>0, <1>a, NilFresh DEF Inv, TypeOK, TableTracksUsers
    <3>2. \A j \in Keys : locks'[j] = u => j = k
      BY <1>0, <1>a, <3>1, NilFresh DEF Inv, TypeOK, Tracked
    <3>3. CASE k = key[p]
      <4>1. u = o /\ refs'[o] # 0
        BY <1>0, <1>a, <3>1, <3>3, NilFresh DEF Inv, TypeOK
      <4>2. PICK q \in Users(o)' : TRUE
        BY <1>e, <4>1, FS_EmptySet
      <4>3. q \in Procs /\ Using(q)' /\ Using(q) /\ lk[q] = o /\ q # p
        BY <1>c, <4>2 DEF Users, Using, Counted, Inv, TypeOK, PCs
      <4>4. key'[q] = k
        BY <1>f, <3>3, <4>3 DEF Inv, TypeOK
      <4> QED
        BY <1>e, <3>2, <4>1, <4>3, <4>4
    <3>4. CASE k # key[p]
      <4>1. u # o
        BY <1>0, <1>a, <3>1, <3>4 DEF Tracked
      <4>2. PICK q \in Procs : Using(q) /\ key[q] = k
        BY <3>1 DEF Tracked
      <4>3. q # p /\ Using(q)' /\ key'[q] = k
        BY <3>4, <4>2 DEF Using, Counted, Inv, TypeOK, PCs
      <4>4. Users(u)' = Users(u)
        <5>1. \A q2 \in Procs : (Counted(q2) /\ lk[q2] = u)' <=> (Counted(q2) /\ lk[q2] = u)
          BY <1>0, <4>1, <3>1, NilFresh DEF Counted, Inv, TypeOK, PCs
        <5> QED
          BY <5>1 DEF Users
      <4>5. refs'[u] = refs[u] /\ refs[u] = Cardinality(Users(u))
        BY <1>0, <3>1, <4>1 DEF Inv, TypeOK, Tracked
      <4> QED
        BY <3>2, <4>3, <4>4, <4>5
    <3> QED
      BY <3>3, <3>4
  <2> QED
    BY <2>1 DEF TableTracksUsers
<1> QED
  BY <1>1, <1>2, <1>3, <1>4, <1>5 DEF Inv

LEMMA StutterInv == Inv /\ UNCHANGED vars => Inv'
<1> SUFFICES ASSUME Inv, UNCHANGED vars PROVE Inv'
  OBVIOUS
<1> USE DEF vars
<1>1. (TypeOK /\ MapMutex /\ Pointers /\ Owners /\ PointersCurrent)'
  BY DEF Inv, TypeOK, MapMutex, Pointers, Owners, PointersCurrent, Using, Counted
<1>2. TableTracksUsers'
  BY SameUsers DEF Inv, Using, Counted
<1> QED
  BY <1>1, <1>2 DEF Inv

-----------------------------------------------------------------------------
(* The lock table of fileStore stays consistent in every reachable state:  *)
(* pointers held by goroutines are the table's, counters count users, and  *)
(* unused entries are gone.                                                *)
THEOREM Invariance == Spec => []Inv
<1>1. Inv /\ [Next]_vars => Inv'
  <2> SUFFICES ASSUME Inv, [Next]_vars PROVE Inv'
    OBVIOUS
  <2>1. CASE UNCHANGED vars
    BY <2>1, StutterInv
  <2>2. ASSUME NEW p \in Procs, NEW k \in Keys, Start(p, k) PROVE Inv'
    BY <2>2, StartInv
  <2>3. ASSUME NEW p \in Procs, Step(p) PROVE Inv'
    BY <2>3, LockMapInv, LookupInv, RefInv, EntryMutexInv, UnrefInv DEF Step
  <2> QED
    BY <2>1, <2>2, <2>3 DEF Next
<1> QED
  BY InitInv, <1>1, PTL DEF Spec

(* Every variable of lockEntry keeps its type; in particular a reference   *)
(* counter never goes below zero.                                          *)
THEOREM TypeCorrect == Spec => []TypeOK
<1>1. Inv => TypeOK
  BY DEF Inv
<1> QED
  BY Invariance, <1>1, PTL

(* Two writers of one key are never inside Put or Remove together, however *)
(* often the key's lock object was deleted and made anew in between.       *)
THEOREM WritersExclusive == Spec => []MutualExclusion
<1>1. Inv => MutualExclusion
  <2> SUFFICES ASSUME Inv, NEW p \in Procs, NEW q \in Procs,
                      pc[p] = "inside", pc[q] = "inside", key[p] = key[q]
               PROVE  p = q
    BY DEF MutualExclusion
  <2>1. lk[p] = lk[q]
    BY DEF Inv, PointersCurrent, Using, Counted
  <2> QED
    BY <2>1 DEF Inv, Owners
<1> QED
  BY Invariance, <1>1, PTL

(* The table never holds an entry nobody uses, entries belong to one key,  *)
(* and their counters are exact.                                           *)
THEOREM TableSound == Spec => []TableTracksUsers
<1>1. Inv => TableTracksUsers
  BY DEF Inv
<1> QED
  BY Invariance, <1>1, PTL

(* A goroutine never waits on a mutex that the table has replaced.         *)
THEOREM PointersAlwaysCurrent == Spec => []PointersCurrent
<1>1. Inv => PointersCurrent
  BY DEF Inv
<1> QED
  BY Invariance, <1>1, PTL

-----------------------------------------------------------------------------
(* The steps of the table, as a keyed mutex sees them.                     *)
Asked == [p \in Procs |-> IF pc[p] \in {"idle", "unlockMap", "unref"} THEN Nil
                          ELSE key[p]]
Held == [k \in Keys |-> IF Insiders(k) = {} THEN Nil ELSE MemberOf(Insiders(k))]

LEMMA Sole == \A p : MemberOf({p}) = p
BY DEF MemberOf

(* A step of p that leaves the sections alone.                             *)
LEMMA UnseenStep ==
  ASSUME Inv, NEW p \in Procs,
         LockMap(p) \/ Lookup(p) \/ Ref(p) \/ LockMapAgain(p) \/ Unref(p)
  PROVE  UNCHANGED Abstract!vars
<1>1. /\ \A q \in Procs \ {p} : pc'[q] = pc[q] /\ key'[q] = key[q]
      /\ pc[p] # "inside" /\ pc'[p] # "inside"
      /\ \/ /\ key'[p] = key[p] /\ pc[p] # "idle" /\ pc'[p] # "idle"
            /\ pc[p] \in {"unlockMap", "unref"} <=> pc'[p] \in {"unlockMap", "unref"}
         \/ pc[p] = "unref" /\ pc'[p] = "idle"
  BY DEF Inv, TypeOK, LockMap, Lookup, Ref, LockMapAgain, Unref, Forget, Goto
<1>2. Asked' = Asked
  BY <1>1 DEF Asked
<1>3. \A k \in Keys : Insiders(k)' = Insiders(k)
  BY <1>1 DEF Insiders
<1>4. Held' = Held
  BY <1>3 DEF Held
<1> QED
  BY <1>2, <1>4 DEF Abstract!vars, Asked, Held

LEMMA AskSeen ==
  ASSUME Inv, NEW p \in Procs, NEW k \in Keys, Start(p, k)
  PROVE  Abstract!Ask(p, k)
<1>1. /\ \A q \in Procs \ {p} : pc'[q] = pc[q] /\ key'[q] = key[q]
      /\ pc[p] = "idle" /\ pc'[p] = "lockMap" /\ key'[p] = k
  BY DEF Inv, TypeOK, Start, Goto
<1>2. Asked[p] = Nil /\ Asked' = [Asked EXCEPT ![p] = k]
  BY <1>1 DEF Asked
<1>3. \A j \in Keys : Insiders(j)' = Insiders(j)
  BY <1>1 DEF Insiders
<1>4. Held' = Held
  BY <1>3 DEF Held
<1> QED
  BY <1>2, <1>4 DEF Abstract!Ask, Asked, Held

(* The mutex of a key is free only if nobody is inside.                    *)
LEMMA EnterSeen ==
  ASSUME Inv, NEW p \in Procs, LockEntry(p)
  PROVE  Abstract!Enter(p)
<1> PICK k \in Keys : k = key[p]
  BY DEF Inv, Pointers, LockEntry, Goto
<1>1. /\ \A q \in Procs \ {p} : pc'[q] = pc[q] /\ key'[q] = key[q]
      /\ pc[p] = "lockEntry" /\ pc'[p] = "inside" /\ key'[p] = k /\ key[p] = k
      /\ owner[lk[p]] = Nil
  BY DEF Inv, TypeOK, LockEntry, Goto
<1>2. Insiders(k) = {}
  <2> SUFFICES ASSUME NEW q \in Procs, pc[q] = "inside", key[q] = k PROVE FALSE
    BY DEF Insiders
  <2>1. lk[q] = lk[p]
    BY <1>1 DEF Inv, PointersCurrent, Using, Counted
  <2> QED
    BY <1>1, <2>1, NilFresh DEF Inv, Owners
<1>3. Asked' = Asked /\ Asked[p] = k
  BY <1>1 DEF Asked
<1>4. Insiders(k)' = {p} /\ \A j \in Keys \ {k} : Insiders(j)' = Insiders(j)
  BY <1>1, <1>2 DEF Insiders
<1>5. Held[k] = Nil /\ Held' = [Held EXCEPT ![k] = p]
  <2>1. Insiders(k)' # {} /\ MemberOf(Insiders(k)') = p
    BY <1>4, Sole
  <2> QED
    BY <1>2, <1>4, <2>1 DEF Held
<1> QED
  BY <1>3, <1>5 DEF Abstract!Enter, Asked, Held

LEMMA LeaveSeen ==
  ASSUME Inv, NEW p \in Procs, UnlockEntry(p)
  PROVE  Abstract!Leave(p)
<1> PICK k \in Keys : k = key[p]
  BY DEF Inv, Pointers, UnlockEntry, Goto
<1>1. /\ \A q \in Procs \ {p} : pc'[q] = pc[q] /\ key'[q] = key[q]
      /\ pc[p] = "inside" /\ pc'[p] = "unlockMap" /\ key'[p] = k /\ key[p] = k
  BY DEF Inv, TypeOK, UnlockEntry, Goto
<1>2. Insiders(k) = {p}
  <2>1. ASSUME NEW q \in Procs, pc[q] = "inside", key[q] = k PROVE q = p
    <3>1. lk[q] = lk[p]
      BY <1>1, <2>1 DEF Inv, PointersCurrent, Using, Counted
    <3> QED
      BY <1>1, <2>1, <3>1 DEF Inv, Owners
  <2> QED
    BY <1>1, <2>1 DEF Insiders
<1>3. Asked[p] = k /\ Asked' = [Asked EXCEPT ![p] = Nil]
  BY <1>1 DEF Asked
<1>4. Insiders(k)' = {} /\ \A j \in Keys \ {k} : Insiders(j)' = Insiders(j)
  BY <1>1, <1>2 DEF Insiders
<1>5. Held[k] = p /\ Held' = [Held EXCEPT ![k] = Nil]
  BY <1>2, <1>4, Sole DEF Held
<1> QED
  BY <1>3, <1>5 DEF Abstract!Leave, Asked, Held

(* The table and its counters implement one mutex per key (the safety part *)
(* of ImplementsKeyedMutex; fairness stays with the model checker).        *)
THEOREM MutexPerKey == Spec => Abstract!Safety
<1>1. Init => Abstract!Init
  <2> SUFFICES ASSUME Init PROVE Abstract!Init
    OBVIOUS
  <2>1. \A k \in Keys : Insiders(k) = {}
    BY DEF Init, Insiders
  <2> QED
    BY <2>1 DEF Init, Abstract!Init
<1>2. Inv /\ [Next]_vars => [Abstract!Next]_(Abstract!vars)
  <2> SUFFICES ASSUME Inv, [Next]_vars PROVE [Abstract!Next]_(Abstract!vars)
    OBVIOUS
  <2>1. ASSUME NEW p \in Procs, NEW k \in Keys, Start(p, k)
        PROVE  [Abstract!Next]_(Abstract!vars)
    BY <2>1, AskSeen DEF Abstract!Next
  <2>2. ASSUME NEW p \in Procs, Step(p) PROVE [Abstract!Next]_(Abstract!vars)
    BY <2>2, UnseenStep, EnterSeen, LeaveSeen DEF Step, Abstract!Next
  <2>3. CASE UNCHANGED vars
    BY <2>3 DEF vars, Abstract!vars, Insiders
  <2> QED
    BY <2>1, <2>2, <2>3 DEF Next
<1> QED
  BY Invariance, <1>1, <1>2, PTL DEF Spec, Abstract!Safety
=============================================================================
