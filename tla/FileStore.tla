---------------------------- MODULE FileStore ----------------------------
(***************************************************************************)
(* fileStore.Get, Put and Remove at the granularity of their system calls. *)
(* An entry is two files, the body and <body>.meta; Put replaces the first *)
(* by rename, then sets its times, then replaces the second.  Writers of a *)
(* key exclude each other (KeyedMutex, which EntryLock implements), Get    *)
(* takes no lock.  Any system call may fail (at most MaxFaults times) and  *)
(* the process may crash (at most MaxCrashes times); the disk survives.    *)
(* Keys name different files here; StoreLayout has the keys that do not.   *)
(***************************************************************************)
EXTENDS Naturals, FiniteSets

CONSTANTS Procs,       \* goroutines serving requests
          Keys,        \* locator keys
          Vers,        \* bodies the upstream may send
          Paths,       \* upstream paths
          EffOf,       \* EffectiveUpstreamPath stored with a body, or Nil
          MaxFaults,   \* bound on failing system calls
          MaxCrashes,  \* bound on crashes
          Now,         \* a modification time taken from the local clock
          Nil

ASSUME EffOfType == EffOf \in [Vers -> Paths \cup {Nil}]
ASSUME BoundsType == MaxFaults \in Nat /\ MaxCrashes \in Nat
ASSUME TagsFresh == Nil \notin Vers \cup Paths \cup Procs /\ Now \notin Vers

VARIABLES pc,      \* next system call of each goroutine
          op,      \* its call: [key, ver]
          holder,  \* holder of the entry lock of a key
          temp,    \* the .cache-* file of a running Put
          mtemp,   \* whether its .cache-meta-* file exists
          disk,    \* per key: body file, its mtime, metadata file
          got,     \* what a Get has read so far
          out,     \* verdict of the call, once decided
          faults, crashes

(* History, read by the properties only.                                   *)
VARIABLES hurt,    \* a writer of k stopped after it had changed the body
          quiet    \* no writer and no damage since this Get began

files == <<disk, temp, mtemp>>
history == <<hurt, quiet>>
vars == <<pc, op, holder, files, got, out, faults, crashes, history>>

Bodies == [ver : Vers, whole : BOOLEAN]
Entries == [body : Bodies \cup {Nil}, mtime : Vers \cup {Now, Nil},
            meta : Paths \cup {Nil}]
NoEntry == [body |-> Nil, mtime |-> Nil, meta |-> Nil]
NoOp == [key |-> Nil, ver |-> Nil]

Getting == {"gStat", "gOpen", "gMeta"}
Intact == {"pTemp", "pCopy", "pRename", "rBody"}  \* entry not yet touched
Broken == {"pTimes", "pMeta", "pMetaRename", "rMeta"}  \* half way through
Outcomes == {"hit", "miss", "ok", "error"}

ASSUME NilFresh == Nil \notin Bodies \cup Outcomes

TypeOK ==
  /\ pc \in [Procs -> {"idle", "gDone", "pLock", "rLock", "unlock"}
                        \cup Getting \cup Intact \cup Broken]
  /\ op \in [Procs -> [key : Keys \cup {Nil}, ver : Vers \cup {Nil}]]
  /\ holder \in [Keys -> Procs \cup {Nil}]
  /\ temp \in [Procs -> Bodies \cup {Nil}]
  /\ mtemp \in [Procs -> BOOLEAN]
  /\ disk \in [Keys -> Entries]
  /\ got \in [Procs -> Entries]
  /\ out \in [Procs -> Outcomes \cup {Nil}]
  /\ faults \in 0..MaxFaults
  /\ crashes \in 0..MaxCrashes
  /\ hurt \in [Keys -> BOOLEAN]
  /\ quiet \in [Procs -> BOOLEAN]

Init == /\ pc = [p \in Procs |-> "idle"]
        /\ op = [p \in Procs |-> NoOp]
        /\ holder = [k \in Keys |-> Nil]
        /\ temp = [p \in Procs |-> Nil]
        /\ mtemp = [p \in Procs |-> FALSE]
        /\ disk = [k \in Keys |-> NoEntry]
        /\ got = [p \in Procs |-> NoEntry]
        /\ out = [p \in Procs |-> Nil]
        /\ faults = 0
        /\ crashes = 0
        /\ hurt = [k \in Keys |-> FALSE]
        /\ quiet = [p \in Procs |-> FALSE]

Goto(p, from, to) == pc[p] = from /\ pc' = [pc EXCEPT ![p] = to]
Verdict(p, o) == out' = [out EXCEPT ![p] = o]
Faults(n) == faults + n <= MaxFaults /\ faults' = faults + n
Fault == Faults(1)
Begin(p, to, k, v) == /\ Goto(p, "idle", to)
                      /\ op' = [op EXCEPT ![p] = [key |-> k, ver |-> v]]
SetBody(k, b, t) == disk' = [disk EXCEPT ![k] = [@ EXCEPT !.body = b, !.mtime = t]]
SetTime(k, t) == disk' = [disk EXCEPT ![k] = [@ EXCEPT !.mtime = t]]
SetMeta(k, m) == disk' = [disk EXCEPT ![k] = [@ EXCEPT !.meta = m]]
SetTemp(p, x) == temp' = [temp EXCEPT ![p] = x]

-----------------------------------------------------------------------------
(* Get: stat, open, read the metadata file; no lock.                       *)

GetBegin(p, k) ==
  /\ Begin(p, "gStat", k, Nil)
  /\ quiet' = [quiet EXCEPT ![p] = holder[k] = Nil /\ ~hurt[k]]
  /\ UNCHANGED <<holder, files, got, out, faults, crashes, hurt>>

Miss(p) == /\ disk[op[p].key].body = Nil
           /\ pc' = [pc EXCEPT ![p] = "gDone"]
           /\ Verdict(p, "miss")
           /\ UNCHANGED got

GetStat(p) ==
  /\ pc[p] = "gStat"
  /\ \/ Miss(p)
     \/ /\ disk[op[p].key].body # Nil
        /\ Goto(p, "gStat", "gOpen")
        /\ got' = [got EXCEPT ![p].mtime = disk[op[p].key].mtime]
        /\ UNCHANGED out
  /\ UNCHANGED <<op, holder, files, faults, crashes, history>>

(* The open file is the body as it is now, whatever is renamed over its    *)
(* name afterwards.                                                        *)
GetOpen(p) ==
  /\ pc[p] = "gOpen"
  /\ \/ Miss(p)
     \/ /\ disk[op[p].key].body # Nil
        /\ Goto(p, "gOpen", "gMeta")
        /\ got' = [got EXCEPT ![p].body = disk[op[p].key].body]
        /\ UNCHANGED out
  /\ UNCHANGED <<op, holder, files, faults, crashes, history>>

GetMeta(p) ==
  /\ Goto(p, "gMeta", "gDone")
  /\ got' = [got EXCEPT ![p].meta = disk[op[p].key].meta]
  /\ Verdict(p, "hit")
  /\ UNCHANGED <<op, holder, files, faults, crashes, history>>

GetFail(p) ==
  /\ pc[p] \in Getting
  /\ Fault
  /\ pc' = [pc EXCEPT ![p] = "gDone"]
  /\ Verdict(p, "error")
  /\ UNCHANGED <<op, holder, files, got, crashes, history>>

Reset(p) == /\ op' = [op EXCEPT ![p] = NoOp]
            /\ got' = [got EXCEPT ![p] = NoEntry]
            /\ out' = [out EXCEPT ![p] = Nil]
            /\ quiet' = [quiet EXCEPT ![p] = FALSE]

GetEnd(p) == /\ Goto(p, "gDone", "idle")
             /\ Reset(p)
             /\ UNCHANGED <<holder, files, faults, crashes, hurt>>

-----------------------------------------------------------------------------
(* The entry lock, and the unlock deferred to the return of Put / Remove.  *)

PutBegin(p, k, v) ==
  /\ Begin(p, "pLock", k, v)
  /\ UNCHANGED <<holder, files, got, out, faults, crashes, history>>

RemoveBegin(p, k) ==
  /\ Begin(p, "rLock", k, Nil)
  /\ UNCHANGED <<holder, files, got, out, faults, crashes, history>>

(* Taking the lock; from here on no Get of the key is quiet any more.      *)
Inside(p) ==
  /\ Goto(p, "pLock", "pTemp") \/ Goto(p, "rLock", "rBody")
  /\ holder' = [holder EXCEPT ![op[p].key] = p]
  /\ quiet' = [q \in Procs |-> quiet[q] /\ op[q].key # op[p].key]
  /\ UNCHANGED <<op, files, got, out, faults, crashes, hurt>>

(* Mutant: the entry lock is not taken.                                    *)
NoLock(p) == Inside(p)

Lock(p) == /\ pc[p] \in {"pLock", "rLock"}
           /\ holder[op[p].key] = Nil
           /\ Inside(p)

(* A temporary file that is still there stays under a name nobody reads:   *)
(* the model forgets it.                                                   *)
Unlock(p) ==
  /\ Goto(p, "unlock", "idle")
  /\ holder' = [holder EXCEPT ![op[p].key] = Nil]
  /\ SetTemp(p, Nil)
  /\ mtemp' = [mtemp EXCEPT ![p] = FALSE]
  /\ Reset(p)
  /\ UNCHANGED <<disk, faults, crashes, hurt>>

-----------------------------------------------------------------------------
(* Put.                                                                    *)

PutTemp(p) == /\ Goto(p, "pTemp", "pCopy")
              /\ SetTemp(p, [ver |-> op[p].ver, whole |-> FALSE])
              /\ UNCHANGED <<op, holder, disk, mtemp, got, out, faults,
                             crashes, history>>

PutCopy(p) == /\ Goto(p, "pCopy", "pRename")
              /\ SetTemp(p, [ver |-> op[p].ver, whole |-> TRUE])
              /\ UNCHANGED <<op, holder, disk, mtemp, got, out, faults,
                             crashes, history>>

(* Mutant: the temporary file of a failed Put is forgotten.                *)
AbortKeepsTemp(p) ==
  /\ pc[p] \in {"pTemp", "pCopy", "pRename"}
  /\ Fault
  /\ pc' = [pc EXCEPT ![p] = "unlock"]
  /\ Verdict(p, "error")
  /\ UNCHANGED <<op, holder, disk, temp, mtemp, got, crashes, history>>

(* Mutant: a failed copy still goes to the rename.                         *)
AbortOnlyRename(p) ==
  /\ pc[p] \in {"pTemp", "pCopy", "pRename"}
  /\ Fault
  /\ pc' = [pc EXCEPT ![p] = IF pc[p] = "pCopy" THEN "pRename" ELSE "unlock"]
  /\ SetTemp(p, IF pc[p] = "pCopy" THEN temp[p] ELSE Nil)
  /\ Verdict(p, "error")
  /\ UNCHANGED <<op, holder, disk, mtemp, got, crashes, history>>

(* MkdirAll, CreateTemp, the copy (upstream read, disk write, cancelled    *)
(* request), Close or Rename fails: the temporary file is removed, unless  *)
(* that fails too, which Put ignores.                                      *)
PutAbort(p) ==
  /\ pc[p] \in {"pTemp", "pCopy", "pRename"}
  /\ \/ Fault /\ SetTemp(p, Nil)
     \/ temp[p] # Nil /\ Faults(2) /\ UNCHANGED temp
  /\ pc' = [pc EXCEPT ![p] = "unlock"]
  /\ Verdict(p, "error")
  /\ UNCHANGED <<op, holder, disk, mtemp, got, crashes, history>>

(* The new body appears with the time it was written at.                   *)
PutRename(p) ==
  /\ Goto(p, "pRename", "pTimes")
  /\ SetBody(op[p].key, temp[p], Now)
  /\ SetTemp(p, Nil)
  /\ UNCHANGED <<op, holder, mtemp, got, out, faults, crashes, history>>

(* Mutant: Chtimes is called with the zero time.                           *)
PutTimesZero(p) ==
  /\ Goto(p, "pTimes", "pMeta")
  /\ SetTime(op[p].key, 0)
  /\ UNCHANGED <<op, holder, temp, mtemp, got, out, faults, crashes, history>>

(* Mutant: Chtimes is not called.                                          *)
PutTimesSkipped(p) ==
  /\ Goto(p, "pTimes", "pMeta")
  /\ UNCHANGED <<op, holder, files, got, out, faults, crashes, history>>

PutTimes(p) ==
  /\ Goto(p, "pTimes", "pMeta")
  /\ SetTime(op[p].key, op[p].ver)
  /\ UNCHANGED <<op, holder, temp, mtemp, got, out, faults, crashes, history>>

Complete(p) == /\ Verdict(p, "ok")
               /\ hurt' = [hurt EXCEPT ![op[p].key] = FALSE]

(* Mutant: an empty effective path leaves the old metadata file there.     *)
PutMetaKept(p) ==
  /\ Goto(p, "pMeta", "unlock")
  /\ EffOf[op[p].ver] = Nil
  /\ Complete(p)
  /\ UNCHANGED <<op, holder, files, got, faults, crashes, quiet>>

(* writeMetadata: an empty path removes the file, any other replaces it    *)
(* through a temporary file of its own.                                    *)
PutMetaNone(p) ==
  /\ Goto(p, "pMeta", "unlock")
  /\ EffOf[op[p].ver] = Nil
  /\ SetMeta(op[p].key, Nil)
  /\ Complete(p)
  /\ UNCHANGED <<op, holder, temp, mtemp, got, faults, crashes, quiet>>

PutMetaTemp(p) ==
  /\ Goto(p, "pMeta", "pMetaRename")
  /\ EffOf[op[p].ver] # Nil
  /\ mtemp' = [mtemp EXCEPT ![p] = TRUE]
  /\ UNCHANGED <<op, holder, temp, disk, got, out, faults, crashes, history>>

PutMetaRename(p) ==
  /\ Goto(p, "pMetaRename", "unlock")
  /\ SetMeta(op[p].key, EffOf[op[p].ver])
  /\ mtemp' = [mtemp EXCEPT ![p] = FALSE]
  /\ Complete(p)
  /\ UNCHANGED <<op, holder, temp, got, faults, crashes, quiet>>

(* Chtimes or a step of writeMetadata fails: Put returns the error and     *)
(* leaves the new body where it is.  The metadata's temporary file is      *)
(* removed, unless that fails too.                                         *)
PutBreak(p) ==
  /\ pc[p] \in {"pTimes", "pMeta", "pMetaRename"}
  /\ \/ Fault /\ mtemp' = [mtemp EXCEPT ![p] = FALSE]
     \/ mtemp[p] /\ Faults(2) /\ UNCHANGED mtemp
  /\ pc' = [pc EXCEPT ![p] = "unlock"]
  /\ Verdict(p, "error")
  /\ hurt' = [hurt EXCEPT ![op[p].key] = TRUE]
  /\ UNCHANGED <<op, holder, temp, disk, got, crashes, quiet>>

-----------------------------------------------------------------------------
(* Remove: the body, then the metadata; files that are gone already are    *)
(* no error.                                                               *)

RemoveBody(p) ==
  /\ Goto(p, "rBody", "rMeta")
  /\ SetBody(op[p].key, Nil, Nil)
  /\ UNCHANGED <<op, holder, temp, mtemp, got, out, faults, crashes, history>>

RemoveMeta(p) ==
  /\ Goto(p, "rMeta", "unlock")
  /\ SetMeta(op[p].key, Nil)
  /\ Complete(p)
  /\ UNCHANGED <<op, holder, temp, mtemp, got, faults, crashes, quiet>>

RemoveFail(p) ==
  /\ pc[p] \in {"rBody", "rMeta"}
  /\ Fault
  /\ pc' = [pc EXCEPT ![p] = "unlock"]
  /\ Verdict(p, "error")
  /\ hurt' = [hurt EXCEPT ![op[p].key] = @ \/ pc[p] = "rMeta"]
  /\ UNCHANGED <<op, holder, files, got, crashes, quiet>>

-----------------------------------------------------------------------------
(* The process dies and starts again.  Temporary files of writers stay on  *)
(* disk under names nobody reads, so the model forgets them.               *)
Crash ==
  /\ crashes < MaxCrashes
  /\ crashes' = crashes + 1
  /\ hurt' = [k \in Keys |->
                hurt[k] \/ \E p \in Procs : pc[p] \in Broken /\ op[p].key = k]
  /\ pc' = [p \in Procs |-> "idle"]
  /\ op' = [p \in Procs |-> NoOp]
  /\ holder' = [k \in Keys |-> Nil]
  /\ temp' = [p \in Procs |-> Nil]
  /\ mtemp' = [p \in Procs |-> FALSE]
  /\ got' = [p \in Procs |-> NoEntry]
  /\ out' = [p \in Procs |-> Nil]
  /\ quiet' = [p \in Procs |-> FALSE]
  /\ UNCHANGED <<disk, faults>>

Get(p) == \/ \E k \in Keys : GetBegin(p, k)
          \/ GetStat(p) \/ GetOpen(p) \/ GetMeta(p) \/ GetFail(p) \/ GetEnd(p)

Put(p) == \/ \E k \in Keys, v \in Vers : PutBegin(p, k, v)
          \/ PutTemp(p) \/ PutCopy(p) \/ PutRename(p) \/ PutTimes(p)
          \/ PutMetaNone(p) \/ PutMetaTemp(p) \/ PutMetaRename(p)
          \/ PutAbort(p) \/ PutBreak(p)

Remove(p) == \/ \E k \in Keys : RemoveBegin(p, k)
             \/ RemoveBody(p) \/ RemoveMeta(p) \/ RemoveFail(p)

Next == \/ \E p \in Procs : Get(p) \/ Put(p) \/ Remove(p) \/ Lock(p) \/ Unlock(p)
        \/ Crash

Spec == Init /\ [][Next]_vars

-----------------------------------------------------------------------------
(* All parts of the entry of k were written by one Put, or all are gone.   *)
EntryOf(v) == [body |-> [ver |-> v, whole |-> TRUE], mtime |-> v,
               meta |-> EffOf[v]]
Coherent(e) == e = NoEntry \/ \E v \in Vers : e = EntryOf(v)

(* A key nobody is writing holds a coherent entry, unless the last writer  *)
(* that touched its body failed or died half way; the next complete Put or *)
(* Remove repairs that.                                                    *)
CoherentAtRest ==
  \A k \in Keys : holder[k] = Nil /\ ~hurt[k] => Coherent(disk[k])

(* A Get that overlapped no writer of its key returns the body, time and   *)
(* effective path of one Put, although it reads them in three calls.       *)
QuietGetCoherent ==
  \A p \in Procs : out[p] = "hit" /\ quiet[p] => Coherent(got[p])

(* A call that ends its writing with a temporary file still there, which   *)
(* nothing removes later, has seen two failures: of a step of Put, and of  *)
(* the removal after it (fileStore.Put, writeMetadata).                    *)
TempsRemoved ==
  [][\A p \in Procs :
       (pc[p] # "unlock" /\ pc'[p] = "unlock" /\ (temp'[p] # Nil \/ mtemp'[p]))
         => faults' = faults + 2]_vars

-----------------------------------------------------------------------------
BodyVer(b) == IF b = Nil THEN Nil ELSE IF b.whole THEN b.ver ELSE "torn"

CallOf(p) ==
  IF pc[p] = "idle" THEN Nil
  ELSE IF pc[p] \in Getting \cup {"gDone"}
         THEN [op |-> "get", key |-> op[p].key]
  ELSE IF op[p].ver # Nil
         THEN [op |-> "put", key |-> op[p].key, ver |-> op[p].ver]
         ELSE [op |-> "remove", key |-> op[p].key]

(* A Get is decided when it has opened the file.                           *)
AnswerOf(p) ==
  IF out[p] = "hit" \/ pc[p] = "gMeta"
    THEN [verdict |-> "body", body |-> BodyVer(got[p].body)]
  ELSE IF out[p] = Nil THEN Nil
  ELSE [verdict |-> out[p], body |-> Nil]

Register == INSTANCE BodyRegister WITH
  stored <- [k \in Keys |-> BodyVer(disk[k].body)],
  call <- [p \in Procs |-> CallOf(p)],
  answer <- [p \in Procs |-> AnswerOf(p)]

ASSUME RegisterNil == Nil \notin Register!Calls \cup Register!Answers

(* Bodies behave as an atomic register per key: concurrent Gets, Puts and  *)
(* Removes, failures and crashes included, never show a partial body.      *)
ImplementsRegister == Register!Spec
=============================================================================
