---------------------------- MODULE EntryLock ----------------------------
(***************************************************************************)
(* fileStore.lockEntry and the unlock closure it returns: one mutex per    *)
(* locator key, created on demand in s.locks, shared by everybody who      *)
(* asks for the key while it exists and deleted by the last user.  The     *)
(* table and the counters are guarded by s.mu; the entry's own mutex is    *)
(* taken and released outside s.mu, so goroutines hold pointers to a lock  *)
(* object across steps of others.  Lock objects are explicit (Locks), so a *)
(* deletion followed by a new &entryLock{} really is another mutex.        *)
(***************************************************************************)
EXTENDS Naturals, FiniteSets

CONSTANTS Procs,   \* goroutines running Put or Remove
          Keys,    \* locator keys
          Locks,   \* lock objects the heap can hold
          Nil      \* nil pointer, no key, nobody

ASSUME ProcsFinite == IsFiniteSet(Procs)
ASSUME NilFresh == Nil \notin Procs \cup Keys \cup Locks

VARIABLES pc,      \* where each goroutine is in lockEntry / unlock
          key,     \* the key it works on
          lk,      \* its local `lock`: a lock object
          mu,      \* holder of s.mu
          locks,   \* s.locks
          refs,    \* entryLock.refs
          owner    \* holder of entryLock.mu

vars == <<pc, key, lk, mu, locks, refs, owner>>

PCs == {"idle", "lockMap", "lookup", "ref", "lockEntry", "inside",
        "unlockMap", "unref"}

TypeOK == /\ pc \in [Procs -> PCs]
          /\ key \in [Procs -> Keys \cup {Nil}]
          /\ lk \in [Procs -> Locks \cup {Nil}]
          /\ mu \in Procs \cup {Nil}
          /\ locks \in [Keys -> Locks \cup {Nil}]
          /\ refs \in [Locks -> Nat]
          /\ owner \in [Locks -> Procs \cup {Nil}]

Init == /\ pc = [p \in Procs |-> "idle"]
        /\ key = [p \in Procs |-> Nil]
        /\ lk = [p \in Procs |-> Nil]
        /\ mu = Nil
        /\ locks = [k \in Keys |-> Nil]
        /\ refs = [o \in Locks |-> 0]
        /\ owner = [o \in Locks |-> Nil]

Goto(p, from, to) == pc[p] = from /\ pc' = [pc EXCEPT ![p] = to]

(* Objects nobody points to: what the allocator may hand out.              *)
Fresh == {o \in Locks : /\ \A k \in Keys : locks[k] # o
                        /\ \A p \in Procs : lk[p] # o}

Start(p, k) == /\ Goto(p, "idle", "lockMap")
               /\ key' = [key EXCEPT ![p] = k]
               /\ UNCHANGED <<lk, mu, locks, refs, owner>>

LockMap(p) == /\ Goto(p, "lockMap", "lookup")
              /\ mu = Nil
              /\ mu' = p
              /\ UNCHANGED <<key, lk, locks, refs, owner>>

Found(p) == /\ locks[key[p]] # Nil
            /\ lk' = [lk EXCEPT ![p] = locks[key[p]]]
            /\ UNCHANGED <<locks, refs, owner>>

Create(p) == /\ locks[key[p]] = Nil
             /\ \E o \in Fresh :
                  /\ lk' = [lk EXCEPT ![p] = o]
                  /\ locks' = [locks EXCEPT ![key[p]] = o]
                  /\ refs' = [refs EXCEPT ![o] = 0]
                  /\ owner' = [owner EXCEPT ![o] = Nil]

Lookup(p) == /\ Goto(p, "lookup", "ref")
             /\ Found(p) \/ Create(p)
             /\ UNCHANGED <<key, mu>>

(* Mutant: refs is raised by the creator only.                             *)
RefByCreator(p) == /\ Goto(p, "ref", "lockEntry")
                   /\ refs' = [refs EXCEPT ![lk[p]] = 1]
                   /\ mu' = Nil
                   /\ UNCHANGED <<key, lk, locks, owner>>

Ref(p) == /\ Goto(p, "ref", "lockEntry")
          /\ refs' = [refs EXCEPT ![lk[p]] = @ + 1]
          /\ mu' = Nil
          /\ UNCHANGED <<key, lk, locks, owner>>

LockEntry(p) == /\ Goto(p, "lockEntry", "inside")
                /\ owner[lk[p]] = Nil
                /\ owner' = [owner EXCEPT ![lk[p]] = p]
                /\ UNCHANGED <<key, lk, mu, locks, refs>>

(* The body of Put or Remove is over and the deferred unlock runs.         *)
UnlockEntry(p) == /\ Goto(p, "inside", "unlockMap")
                  /\ owner' = [owner EXCEPT ![lk[p]] = Nil]
                  /\ UNCHANGED <<key, lk, mu, locks, refs>>

LockMapAgain(p) == /\ Goto(p, "unlockMap", "unref")
                   /\ mu = Nil
                   /\ mu' = p
                   /\ UNCHANGED <<key, lk, locks, refs, owner>>

(* Mutant: the reference is given back twice.                              *)
DropRefTwice(p) == refs' = [refs EXCEPT ![lk[p]] = @ - 2]

DropRef(p) == refs' = [refs EXCEPT ![lk[p]] = @ - 1]

(* Leaving s.mu; the closure's variables are garbage from here on.         *)
Forget(p) == /\ Goto(p, "unref", "idle")
             /\ mu' = Nil
             /\ key' = [key EXCEPT ![p] = Nil]
             /\ lk' = [lk EXCEPT ![p] = Nil]
             /\ UNCHANGED owner

(* Mutant: the entry is deleted without looking at the counter.            *)
UnrefAlwaysDelete(p) == /\ Forget(p)
                        /\ DropRef(p)
                        /\ locks' = [locks EXCEPT ![key[p]] = Nil]

(* Mutant: unused entries stay in the table.                               *)
UnrefNoDelete(p) == /\ Forget(p)
                    /\ DropRef(p)
                    /\ UNCHANGED locks

Unref(p) == /\ Forget(p)
            /\ DropRef(p)
            /\ locks' = IF refs'[lk[p]] = 0 THEN [locks EXCEPT ![key[p]] = Nil]
                                            ELSE locks

Step(p) == \/ LockMap(p)
           \/ Lookup(p)
           \/ Ref(p)
           \/ LockEntry(p)
           \/ UnlockEntry(p)
           \/ LockMapAgain(p)
           \/ Unref(p)

Next == \E p \in Procs : (\E k \in Keys : Start(p, k)) \/ Step(p)

(* Waiting on a sync.Mutex is strongly fair (a starving waiter gets the    *)
(* mutex handed over); everything else runs when it can.  UnlockEntry is   *)
(* fair because the code under the lock is I/O that ends.                  *)
Fairness == \A p \in Procs : /\ SF_vars(LockMap(p) \/ LockMapAgain(p))
                             /\ SF_vars(LockEntry(p))
                             /\ WF_vars(Step(p))

Spec == Init /\ [][Next]_vars /\ Fairness

-----------------------------------------------------------------------------
(* Counted: refs includes p.  Using: p has a pointer to a lock object.     *)
Counted(p) == pc[p] \in {"lockEntry", "inside", "unlockMap", "unref"}
Using(p) == pc[p] = "ref" \/ Counted(p)
Users(o) == {p \in Procs : Counted(p) /\ lk[p] = o}

(* Two goroutines are never both inside the section of one key, although   *)
(* the lock object of a key is deleted and recreated all the time.         *)
MutualExclusion ==
  \A p, q \in Procs :
    (pc[p] = "inside" /\ pc[q] = "inside" /\ key[p] = key[q]) => p = q

(* The pointer a goroutine took under s.mu stays the table's lock of its   *)
(* key until it has given it back, so every newcomer waits on the same     *)
(* mutex.                                                                  *)
PointersCurrent ==
  \A p \in Procs : Using(p) => lk[p] # Nil /\ locks[key[p]] = lk[p]

Tracked(k) ==
  locks[k] # Nil =>
    /\ \E p \in Procs : Using(p) /\ key[p] = k
    /\ \A j \in Keys : locks[j] = locks[k] => j = k
    /\ refs[locks[k]] = Cardinality(Users(locks[k]))

(* The table does not leak: an entry is there only while somebody uses it, *)
(* it belongs to one key, and its counter is the number of its users.      *)
TableTracksUsers == \A k \in Keys : Tracked(k)

(* Who is inside the section of k: by MutualExclusion, one at most.        *)
Insiders(k) == {p \in Procs : pc[p] = "inside" /\ key[p] = k}
MemberOf(S) == CHOOSE p \in S : TRUE

Abstract == INSTANCE KeyedMutex WITH
  asked <- [p \in Procs |-> IF pc[p] \in {"idle", "unlockMap", "unref"}
                              THEN Nil ELSE key[p]],
  holder <- [k \in Keys |-> IF Insiders(k) = {} THEN Nil
                              ELSE MemberOf(Insiders(k))]

(* The table implements a mutex per key, fairness included: whoever calls  *)
(* lockEntry gets the key once its earlier holders have returned.          *)
ImplementsKeyedMutex == Abstract!Spec
=============================================================================
