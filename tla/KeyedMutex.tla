---------------------------- MODULE KeyedMutex ----------------------------
(***************************************************************************)
(* What internal/cache promises its writers: for every cache key at most   *)
(* one goroutine is between lockEntry and the unlock it returned, and a    *)
(* goroutine that asked is let in once the earlier holders have left.      *)
(* EntryLock implements this with a reference-counted table of mutexes;    *)
(* FileStore and ProxyHandler build on it.                                 *)
(***************************************************************************)
EXTENDS Naturals

CONSTANTS Procs,   \* goroutines that run Put or Remove
          Keys,    \* locator keys "hub::path"
          Nil      \* nobody / no key

VARIABLES asked,   \* asked[p]: the key p wants or holds
          holder   \* holder[k]: who is inside the section of k

vars == <<asked, holder>>

TypeOK == /\ asked \in [Procs -> Keys \cup {Nil}]
          /\ holder \in [Keys -> Procs \cup {Nil}]

Init == /\ asked = [p \in Procs |-> Nil]
        /\ holder = [k \in Keys |-> Nil]

Ask(p, k) == /\ asked[p] = Nil
             /\ asked' = [asked EXCEPT ![p] = k]
             /\ UNCHANGED holder

Enter(p) == \E k \in Keys :
              /\ asked[p] = k
              /\ holder[k] = Nil
              /\ holder' = [holder EXCEPT ![k] = p]
              /\ UNCHANGED asked

Leave(p) == \E k \in Keys :
              /\ asked[p] = k
              /\ holder[k] = p
              /\ holder' = [holder EXCEPT ![k] = Nil]
              /\ asked' = [asked EXCEPT ![p] = Nil]

Next == \E p \in Procs : (\E k \in Keys : Ask(p, k)) \/ Enter(p) \/ Leave(p)

Safety == Init /\ [][Next]_vars

(* Entering is strongly fair: the key is freed again and again while a     *)
(* goroutine waits, and sync.Mutex hands it over to a waiter that starves. *)
Spec == /\ Safety
        /\ \A p \in Procs : SF_vars(Enter(p)) /\ WF_vars(Leave(p))
=============================================================================
