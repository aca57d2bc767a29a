-------------------------- MODULE FileStore_proof --------------------------
(***************************************************************************)
(* The cache store for any number of goroutines, keys, bodies, failures    *)
(* and crashes: entries at rest are coherent, a Get that no writer met is, *)
(* and a temporary file stays behind only where two calls have failed.     *)
(***************************************************************************)
EXTENDS FileStore, TLAPS

(* Where a goroutine holds the lock of its key.                            *)
Section == Intact \cup Broken \cup {"unlock"}
Storing == {"pLock", "pTemp", "pCopy", "pRename", "pTimes", "pMeta", "pMetaRename"}

OpOK(p) ==
  /\ pc[p] = "idle" => op[p] = NoOp
  /\ pc[p] # "idle" => op[p].key \in Keys
  /\ pc[p] \in Getting \cup {"gDone", "rLock", "rBody", "rMeta"} => op[p].ver = Nil
  /\ pc[p] \in Storing => op[p].ver \in Vers
  /\ pc[p] \in Section => holder[op[p].key] = p

OutOK(p) ==
  /\ pc[p] = "gDone" => out[p] \in {"hit", "miss", "error"}
  /\ pc[p] = "unlock" => out[p] \in {"ok", "error"}
  /\ pc[p] \notin {"gDone", "unlock"} => out[p] = Nil

TempOK(p) ==
  /\ temp[p] # Nil => pc[p] \in {"pCopy", "pRename", "unlock"}
  /\ mtemp[p] => pc[p] \in {"pMetaRename", "unlock"}
  /\ pc[p] = "pRename" => temp[p] = [ver |-> op[p].ver, whole |-> TRUE]

(* What a writer has made of the entry of its key.                         *)
WrittenOK(p) ==
  /\ pc[p] \in Intact \cup {"unlock"} => hurt[op[p].key] \/ Coherent(disk[op[p].key])
  /\ pc[p] \in {"pTimes", "pMeta", "pMetaRename"} =>
       disk[op[p].key].body = [ver |-> op[p].ver, whole |-> TRUE]
  /\ pc[p] \in {"pMeta", "pMetaRename"} => disk[op[p].key].mtime = op[p].ver
  /\ pc[p] = "rMeta" => disk[op[p].key].body = Nil /\ disk[op[p].key].mtime = Nil

(* What a Get has read; that of a quiet one is what the disk still holds.  *)
ReadOK(p) ==
  /\ pc[p] = "gMeta" \/ out[p] = "hit" => got[p].body # Nil /\ got[p].body.whole
  /\ quiet[p] => /\ pc[p] \in Getting \cup {"gDone"}
                 /\ holder[op[p].key] = Nil /\ ~hurt[op[p].key]
  /\ quiet[p] /\ pc[p] \in {"gOpen", "gMeta"} =>
       got[p].mtime = disk[op[p].key].mtime
  /\ quiet[p] /\ pc[p] = "gMeta" => got[p].body = disk[op[p].key].body
  /\ quiet[p] /\ out[p] = "hit" => got[p] = disk[op[p].key]

ProcOK(p) == OpOK(p) /\ OutOK(p) /\ TempOK(p) /\ WrittenOK(p) /\ ReadOK(p)

KeyOK(k) ==
  /\ disk[k].body # Nil => disk[k].body.whole
  /\ holder[k] = Nil => hurt[k] \/ Coherent(disk[k])
  /\ holder[k] # Nil => pc[holder[k]] \in Section /\ op[holder[k]].key = k

Inv == TypeOK /\ (\A p \in Procs : ProcOK(p)) /\ (\A k \in Keys : KeyOK(k))

-----------------------------------------------------------------------------
(* A step of p, which touches no entry but that of k, and that one only if *)
(* p holds or takes its lock.                                              *)
Same(q) == /\ pc'[q] = pc[q] /\ op'[q] = op[q] /\ temp'[q] = temp[q]
           /\ mtemp'[q] = mtemp[q] /\ got'[q] = got[q] /\ out'[q] = out[q]
           /\ quiet'[q] => quiet[q]
Kept(k) == disk'[k] = disk[k] /\ holder'[k] = holder[k] /\ hurt'[k] = hurt[k]

LEMMA OneStep ==
  ASSUME Inv, TypeOK', NEW p \in Procs, NEW k \in Keys,
         pc[p] = "idle" \/ op[p].key = k,
         \A q \in Procs \ {p} : Same(q),
         \A j \in Keys \ {k} : Kept(j),
         \/ Kept(k)
         \/ holder[k] = p
         \/ holder[k] = Nil /\ \A q \in Procs : quiet'[q] => op[q].key # k,
         ProcOK(p)', KeyOK(k)'
  PROVE  Inv'
<1>1. ASSUME NEW q \in Procs \ {p} PROVE ProcOK(q)'
  <2>1. Same(q) /\ ProcOK(q) /\ p # Nil /\ q # Nil
    BY TagsFresh DEF Inv
  <2>2. CASE op[q].key \in Keys /\ Kept(op[q].key)
    BY <2>1, <2>2 DEF Same, Kept, ProcOK, OpOK, OutOK, TempOK, WrittenOK, ReadOK
  <2>3. CASE pc[q] = "idle"
    BY <2>1, <2>3 DEF Same, ProcOK, OpOK, OutOK, TempOK, WrittenOK, ReadOK, Section,
                      Intact, Broken, Getting, Storing
  <2>4. CASE op[q].key = k /\ ~Kept(k)
    <3>1. ~quiet'[q] /\ pc[q] \notin Section
      BY <2>1, <2>4 DEF Same, ProcOK, OpOK, ReadOK
    <3> QED
      BY <2>1, <3>1 DEF Same, ProcOK, OpOK, OutOK, TempOK, WrittenOK, ReadOK, Section,
                        Intact, Broken
  <2> QED
    BY <2>1, <2>2, <2>3, <2>4 DEF ProcOK, OpOK
<1>2. ASSUME NEW j \in Keys \ {k} PROVE KeyOK(j)'
  <2>1. KeyOK(j) /\ Kept(j)
    BY DEF Inv
  <2>2. ASSUME holder[j] # Nil PROVE holder[j] \in Procs \ {p}
    BY <2>1, <2>2 DEF Inv, TypeOK, KeyOK, Section, Intact, Broken
  <2>3. holder[j] # Nil => Same(holder[j])
    BY <2>2
  <2> QED
    BY <2>1, <2>3 DEF KeyOK, Kept, Same
<1> QED
  BY <1>1, <1>2 DEF Inv

(* The same, of a step that leaves disk and locks alone.                   *)
LEMMA ReadStep ==
  ASSUME Inv, TypeOK', NEW p \in Procs, UNCHANGED <<disk, holder, hurt>>,
         \A q \in Procs \ {p} : Same(q), ProcOK(p)',
         \A k \in Keys : holder[k] = p => pc'[p] \in Section /\ op'[p] = op[p]
  PROVE  Inv'
<1>1. ASSUME NEW q \in Procs \ {p} PROVE ProcOK(q)'
  BY DEF Inv, Same, ProcOK, OpOK, OutOK, TempOK, WrittenOK, ReadOK
<1>2. ASSUME NEW k \in Keys PROVE KeyOK(k)'
  <2>1. KeyOK(k) /\ holder[k] \in Procs \cup {Nil}
    BY DEF Inv, TypeOK
  <2>2. holder[k] \in Procs \ {p} => Same(holder[k])
    OBVIOUS
  <2> QED
    BY <2>1, <2>2 DEF KeyOK, Same
<1> QED
  BY <1>1, <1>2 DEF Inv

(* Who has not got a lock is in no lock.                                   *)
LEMMA Outside ==
  ASSUME Inv, NEW p \in Procs, pc[p] \notin Section, NEW k \in Keys
  PROVE  holder[k] # p
BY TagsFresh DEF Inv, KeyOK

-----------------------------------------------------------------------------
LEMMA BeginInv ==
  ASSUME Inv, NEW p \in Procs, NEW k \in Keys,
         \/ GetBegin(p, k) \/ RemoveBegin(p, k)
         \/ \E v \in Vers : PutBegin(p, k, v)
  PROVE  Inv'
<1> USE DEF Begin, Goto
<1>1. TypeOK'
  <2>1. pc' \in [Procs -> {"idle", "gDone", "pLock", "rLock", "unlock"}
                            \cup Getting \cup Intact \cup Broken]
    BY DEF Inv, TypeOK, GetBegin, RemoveBegin, PutBegin, Getting
  <2>2. ASSUME NEW v \in Vers \cup {Nil}, op' = [op EXCEPT ![p] = [key |-> k, ver |-> v]]
        PROVE  op' \in [Procs -> [key : Keys \cup {Nil}, ver : Vers \cup {Nil}]]
    BY <2>2 DEF Inv, TypeOK
  <2>3. quiet' \in [Procs -> BOOLEAN]
    BY DEF Inv, TypeOK, GetBegin, RemoveBegin, PutBegin, history
  <2> QED
    BY <2>1, <2>2, <2>3 DEF Inv, TypeOK, GetBegin, RemoveBegin, PutBegin, files, history
<1>2. \A q \in Procs \ {p} : Same(q)
  BY DEF Inv, TypeOK, GetBegin, RemoveBegin, PutBegin, files, history, Same
<1>3. ProcOK(p)
  BY DEF Inv
<1>4. pc[p] = "idle" /\ UNCHANGED <<disk, holder, hurt>>
  BY DEF GetBegin, RemoveBegin, PutBegin, files, history
<1>5. ProcOK(p)'
  <2>1. /\ pc'[p] \in {"gStat", "pLock", "rLock"}
        /\ op'[p].key = k
        /\ pc'[p] # "pLock" => op'[p].ver = Nil
        /\ pc'[p] = "pLock" => op'[p].ver \in Vers
        /\ UNCHANGED <<temp, mtemp, got, out>>
    BY DEF Inv, TypeOK, GetBegin, RemoveBegin, PutBegin, files
  <2>2. CASE GetBegin(p, k)
    <3>1. quiet'[p] => holder[k] = Nil /\ ~hurt[k]
      BY <2>2 DEF Inv, TypeOK, GetBegin
    <3>2. pc'[p] = "gStat"
      BY <2>2 DEF Inv, TypeOK, GetBegin
    <3>3. OpOK(p)' /\ WrittenOK(p)'
      BY <2>1, <3>2 DEF OpOK, WrittenOK, Section, Intact, Broken, Getting, Storing
    <3>4. OutOK(p)' /\ TempOK(p)'
      BY <1>3, <1>4, <2>1, <3>2 DEF ProcOK, OutOK, TempOK
    <3>5. out'[p] = Nil
      BY <1>3, <1>4, <2>1 DEF ProcOK, OutOK
    <3>6. ReadOK(p)'
      BY <1>4, <2>1, <3>1, <3>2, <3>5, NilFresh DEF ReadOK, Getting, Outcomes
    <3> QED
      BY <3>3, <3>4, <3>6 DEF ProcOK
  <2>3. CASE ~GetBegin(p, k)
    <3>1. ~quiet'[p]
      BY <1>3, <1>4, <2>3 DEF RemoveBegin, PutBegin, history, ProcOK, ReadOK, Getting
    <3>2. pc'[p] \in {"pLock", "rLock"}
      BY <2>3 DEF Inv, TypeOK, RemoveBegin, PutBegin
    <3>3. OpOK(p)' /\ WrittenOK(p)'
      BY <2>1, <3>2 DEF OpOK, WrittenOK, Section, Intact, Broken, Getting, Storing
    <3>4. OutOK(p)' /\ TempOK(p)'
      BY <1>3, <1>4, <2>1, <3>2 DEF ProcOK, OutOK, TempOK
    <3>5. ReadOK(p)'
      BY <1>3, <1>4, <2>1, <3>1, <3>2, NilFresh DEF ProcOK, OutOK, ReadOK, Outcomes
    <3> QED
      BY <3>3, <3>4, <3>5 DEF ProcOK
  <2> QED
    BY <2>2, <2>3
<1>6. \A j \in Keys : holder[j] # p
  BY <1>4, Outside DEF Section, Intact, Broken
<1> QED
  BY <1>1, <1>2, <1>4, <1>5, <1>6, ReadStep

(* A Get goes on: only pc, got and out change.                             *)
GetOn(p) == /\ pc[p] \in Getting
            /\ pc'[p] \in Getting \cup {"gDone"}
            /\ UNCHANGED <<op, holder, files, hurt, quiet>>

LEMMA GetOnOK ==
  ASSUME NEW p \in Procs, ProcOK(p), GetOn(p), OutOK(p)',
         pc'[p] = "gMeta" \/ out'[p] = "hit" => got'[p].body # Nil /\ got'[p].body.whole,
         quiet[p] /\ pc'[p] \in {"gOpen", "gMeta"} =>
           got'[p].mtime = disk[op[p].key].mtime,
         quiet[p] /\ pc'[p] = "gMeta" => got'[p].body = disk[op[p].key].body,
         quiet[p] /\ out'[p] = "hit" => got'[p] = disk[op[p].key]
  PROVE  ProcOK(p)'
<1> USE DEF ProcOK, GetOn, files
<1>1. OpOK(p)' /\ TempOK(p)' /\ WrittenOK(p)'
  BY DEF OpOK, TempOK, WrittenOK, Section, Intact, Broken, Getting, Storing
<1>2. ReadOK(p)'
  BY DEF ReadOK
<1> QED
  BY <1>1, <1>2

LEMMA ChangedEntry ==
  ASSUME NEW e \in Entries, NEW f \in Entries
  PROVE  /\ [e EXCEPT !.body = f.body] \in Entries
         /\ [e EXCEPT !.mtime = f.mtime] \in Entries
         /\ [e EXCEPT !.meta = f.meta] \in Entries
BY DEF Entries

LEMMA ChangedEntries ==
  ASSUME NEW p \in Procs, NEW e \in Entries, NEW read \in [Procs -> Entries]
  PROVE  /\ [read EXCEPT ![p].body = e.body] \in [Procs -> Entries]
         /\ [read EXCEPT ![p].mtime = e.mtime] \in [Procs -> Entries]
         /\ [read EXCEPT ![p].meta = e.meta] \in [Procs -> Entries]
BY ChangedEntry

LEMMA GetInv ==
  ASSUME Inv, NEW p \in Procs, GetStat(p) \/ GetOpen(p) \/ GetMeta(p) \/ GetFail(p)
  PROVE  Inv'
<1> USE DEF Goto, Verdict, Fault, Faults
<1>0. /\ ProcOK(p) /\ op[p].key \in Keys /\ KeyOK(op[p].key)
      /\ disk[op[p].key] \in Entries /\ got[p] \in Entries /\ pc[p] \in Getting
  BY DEF Inv, TypeOK, ProcOK, OpOK, GetStat, GetOpen, GetMeta, GetFail, Getting
<1>1. TypeOK'
  <2>1. pc' \in [Procs -> {"idle", "gDone", "pLock", "rLock", "unlock"}
                            \cup Getting \cup Intact \cup Broken]
    BY DEF Inv, TypeOK, GetStat, GetOpen, GetMeta, GetFail, Miss, Getting
  <2>2. got' \in [Procs -> Entries]
    <3>1. \/ got' = got
          \/ got' = [got EXCEPT ![p].mtime = disk[op[p].key].mtime]
          \/ got' = [got EXCEPT ![p].body = disk[op[p].key].body]
          \/ got' = [got EXCEPT ![p].meta = disk[op[p].key].meta]
      BY DEF GetStat, GetOpen, GetMeta, GetFail, Miss
    <3>2. got \in [Procs -> Entries]
      BY DEF Inv, TypeOK
    <3>3. \A e \in Entries :
            /\ [got EXCEPT ![p].body = e.body] \in [Procs -> Entries]
            /\ [got EXCEPT ![p].mtime = e.mtime] \in [Procs -> Entries]
            /\ [got EXCEPT ![p].meta = e.meta] \in [Procs -> Entries]
      BY <3>2, ChangedEntries
    <3> QED
      BY <1>0, <3>1, <3>2, <3>3
  <2>3. out' \in [Procs -> Outcomes \cup {Nil}]
    BY DEF Inv, TypeOK, GetStat, GetOpen, GetMeta, GetFail, Miss, Outcomes
  <2>4. faults' \in 0..MaxFaults
    BY BoundsType DEF Inv, TypeOK, GetStat, GetOpen, GetMeta, GetFail
  <2> QED
    BY <2>1, <2>2, <2>3, <2>4 DEF Inv, TypeOK, GetStat, GetOpen, GetMeta, GetFail,
       files, history
<1>2. \A q \in Procs \ {p} : Same(q)
  BY DEF Inv, TypeOK, GetStat, GetOpen, GetMeta, GetFail, Miss, files, history, Same
<1>3. GetOn(p)
  BY DEF Inv, TypeOK, GetStat, GetOpen, GetMeta, GetFail, Miss, history, Getting, GetOn
<1>4. ProcOK(p)'
  <2>1. CASE pc'[p] = "gDone" /\ out'[p] \in {"miss", "error"}
    BY <1>0, <1>3, <2>1, GetOnOK DEF OutOK
  <2>2. CASE GetStat(p) /\ ~Miss(p)
    <3>1. /\ pc'[p] = "gOpen" /\ out'[p] = Nil
          /\ got'[p].mtime = disk[op[p].key].mtime
      BY <1>0, <2>2 DEF Inv, TypeOK, GetStat, Entries, ProcOK, OutOK
    <3> QED
      BY <1>0, <1>3, <3>1, GetOnOK, NilFresh DEF Outcomes, OutOK
  <2>3. CASE GetOpen(p) /\ ~Miss(p)
    <3>1. /\ pc'[p] = "gMeta" /\ out'[p] = Nil
          /\ got'[p].mtime = got[p].mtime
          /\ got'[p].body = disk[op[p].key].body /\ disk[op[p].key].body # Nil
      BY <1>0, <2>3 DEF Inv, TypeOK, GetOpen, Entries, ProcOK, OutOK
    <3>2. quiet[p] => got[p].mtime = disk[op[p].key].mtime
      BY <1>0, <2>3 DEF GetOpen, ProcOK, ReadOK
    <3> QED
      BY <1>0, <1>3, <3>1, <3>2, GetOnOK, NilFresh DEF Outcomes, OutOK, KeyOK
  <2>4. CASE GetMeta(p)
    <3>1. /\ pc'[p] = "gDone" /\ out'[p] = "hit"
          /\ got'[p] = [body |-> got[p].body, mtime |-> got[p].mtime,
                        meta |-> disk[op[p].key].meta]
      BY <1>0, <2>4 DEF Inv, TypeOK, GetMeta, Entries
    <3>2. /\ got[p].body # Nil /\ got[p].body.whole
          /\ quiet[p] => /\ got[p].mtime = disk[op[p].key].mtime
                         /\ got[p].body = disk[op[p].key].body
      BY <1>0, <2>4 DEF GetMeta, ProcOK, ReadOK
    <3>3. quiet[p] => got'[p] = disk[op[p].key]
      BY <1>0, <3>1, <3>2 DEF Entries
    <3> QED
      BY <1>0, <1>3, <3>1, <3>2, <3>3, GetOnOK DEF OutOK
  <2> QED
    BY <2>1, <2>2, <2>3, <2>4 DEF Inv, TypeOK, GetStat, GetOpen, GetFail, Miss
<1>5. \A j \in Keys : holder[j] # p
  BY <1>0, Outside DEF Section, Intact, Broken, Getting
<1> QED
  BY <1>1, <1>2, <1>3, <1>4, <1>5, ReadStep DEF GetOn, files

-----------------------------------------------------------------------------
LEMMA EndInv ==
  ASSUME Inv, NEW p \in Procs, GetEnd(p) \/ Unlock(p)
  PROVE  Inv'
<1> USE DEF Goto, Reset, SetTemp
<1>a. ProcOK(p) /\ op[p].key \in Keys /\ pc[p] \in {"gDone", "unlock"}
  BY DEF Inv, TypeOK, ProcOK, OpOK, GetEnd, Unlock
<1> PICK k \in Keys : k = op[p].key
  BY <1>a
<1>0. ProcOK(p) /\ KeyOK(k) /\ pc[p] \in {"gDone", "unlock"} /\ k = op[p].key
  BY <1>a DEF Inv
<1>1. TypeOK'
  <2>1. NoOp \in [key : Keys \cup {Nil}, ver : Vers \cup {Nil}] /\ NoEntry \in Entries
    BY DEF NoOp, NoEntry, Entries
  <2>2. pc' \in [Procs -> {"idle", "gDone", "pLock", "rLock", "unlock"}
                            \cup Getting \cup Intact \cup Broken]
    BY DEF Inv, TypeOK, GetEnd, Unlock
  <2>3. holder' \in [Keys -> Procs \cup {Nil}]
    BY DEF Inv, TypeOK, GetEnd, Unlock
  <2>4. op' \in [Procs -> [key : Keys \cup {Nil}, ver : Vers \cup {Nil}]]
    BY <2>1 DEF Inv, TypeOK, GetEnd, Unlock
  <2>5. got' \in [Procs -> Entries]
    BY <2>1 DEF Inv, TypeOK, GetEnd, Unlock
  <2>6. out' \in [Procs -> Outcomes \cup {Nil}] /\ quiet' \in [Procs -> BOOLEAN]
    BY DEF Inv, TypeOK, GetEnd, Unlock
  <2>7. temp' \in [Procs -> Bodies \cup {Nil}] /\ mtemp' \in [Procs -> BOOLEAN]
    BY DEF Inv, TypeOK, GetEnd, Unlock, files
  <2> QED
    BY <2>2, <2>3, <2>4, <2>5, <2>6, <2>7 DEF Inv, TypeOK, GetEnd, Unlock, files
<1>2. \A q \in Procs \ {p} : Same(q)
  BY DEF Inv, TypeOK, GetEnd, Unlock, files, Same
<1>3. ProcOK(p)'
  <2>1. /\ pc'[p] = "idle" /\ op'[p] = NoOp /\ out'[p] = Nil /\ ~quiet'[p]
        /\ temp'[p] \in {temp[p], Nil} /\ (mtemp'[p] => mtemp[p])
        /\ pc[p] = "unlock" => temp'[p] = Nil /\ ~mtemp'[p]
    BY DEF Inv, TypeOK, GetEnd, Unlock, files
  <2> QED
    BY <1>0, <2>1, NilFresh DEF ProcOK, OpOK, OutOK, TempOK, WrittenOK, ReadOK, Section,
       Intact, Broken, Getting, Storing, Outcomes
<1>4. CASE GetEnd(p)
  <2>1. \A j \in Keys : holder[j] # p
    BY <1>4, Outside DEF GetEnd, Section, Intact, Broken
  <2>2. UNCHANGED <<disk, holder, hurt>>
    BY <1>4 DEF GetEnd, files
  <2> QED
    BY <1>1, <1>2, <1>3, <2>1, <2>2, ReadStep
<1>5. CASE Unlock(p)
  <2>1. /\ holder[k] = p /\ holder'[k] = Nil /\ UNCHANGED <<disk, hurt>>
        /\ \A j \in Keys \ {k} : holder'[j] = holder[j]
    BY <1>0, <1>5 DEF Unlock, files, ProcOK, OpOK, Section, Inv, TypeOK
  <2>2. KeyOK(k)'
    BY <1>0, <1>5, <2>1 DEF Unlock, KeyOK, ProcOK, WrittenOK, Coherent
  <2>3. \A j \in Keys \ {k} : Kept(j)
    BY <2>1 DEF Kept
  <2> QED
    BY <1>0, <1>1, <1>2, <1>3, <2>1, <2>2, <2>3, OneStep
<1> QED
  BY <1>4, <1>5

LEMMA LockInv ==
  ASSUME Inv, NEW p \in Procs, Lock(p)
  PROVE  Inv'
<1> DEFINE k == op[p].key
<1> USE DEF Goto, Lock, Inside
<1>0. ProcOK(p) /\ k \in Keys /\ KeyOK(k) /\ pc[p] \in {"pLock", "rLock"}
  BY DEF Inv, TypeOK, ProcOK, OpOK
<1>1. TypeOK'
  <2>1. pc' \in [Procs -> {"idle", "gDone", "pLock", "rLock", "unlock"}
                            \cup Getting \cup Intact \cup Broken]
    BY DEF Inv, TypeOK, Intact
  <2>2. holder' \in [Keys -> Procs \cup {Nil}]
    BY DEF Inv, TypeOK
  <2>3. quiet' \in [Procs -> BOOLEAN]
    BY DEF Inv, TypeOK
  <2> QED
    BY <2>1, <2>2, <2>3 DEF Inv, TypeOK, files
<1>2. /\ UNCHANGED <<op, temp, mtemp, got, out, disk, hurt>>
      /\ holder[k] = Nil /\ holder'[k] = p
      /\ pc'[p] = IF pc[p] = "pLock" THEN "pTemp" ELSE "rBody"
      /\ \A q \in Procs : quiet'[q] => quiet[q] /\ op[q].key # k
  BY <1>0 DEF Inv, TypeOK, files
<1>3. \A q \in Procs \ {p} : Same(q)
  BY <1>2 DEF Inv, TypeOK, Same
<1>4. ProcOK(p)'
  <2>1. OpOK(p)' /\ OutOK(p)' /\ TempOK(p)'
    BY <1>0, <1>2 DEF ProcOK, OpOK, OutOK, TempOK, Section, Intact, Broken, Getting, Storing
  <2>2. hurt[k] \/ Coherent(disk[k])
    BY <1>0, <1>2 DEF KeyOK
  <2>3. WrittenOK(p)'
    BY <1>0, <1>2, <2>2 DEF WrittenOK, Coherent
  <2>4. out[p] = Nil
    BY <1>0 DEF ProcOK, OutOK
  <2>5. ReadOK(p)'
    BY <1>0, <1>2, <2>4, NilFresh DEF ReadOK, Outcomes
  <2> QED
    BY <2>1, <2>3, <2>5 DEF ProcOK
<1>5. KeyOK(k)'
  BY <1>0, <1>2, TagsFresh DEF KeyOK, Section, Intact
<1>6. \A j \in Keys \ {k} : Kept(j)
  BY <1>2 DEF Kept, Inv, TypeOK
<1> QED
  BY <1>0, <1>1, <1>2, <1>3, <1>4, <1>5, <1>6, OneStep

-----------------------------------------------------------------------------
(* A step of a writer that keeps its lock.                                 *)
Writes(p) == /\ pc[p] \in Section /\ pc'[p] \in Section
             /\ UNCHANGED <<op, holder, got, quiet>>
             /\ \A q \in Procs \ {p} : /\ pc'[q] = pc[q] /\ temp'[q] = temp[q]
                                       /\ mtemp'[q] = mtemp[q] /\ out'[q] = out[q]
             /\ \A j \in Keys \ {op[p].key} : disk'[j] = disk[j] /\ hurt'[j] = hurt[j]

LEMMA WriteStep ==
  ASSUME Inv, TypeOK', NEW p \in Procs, Writes(p),
         pc'[p] \in Storing => op[p].ver \in Vers,
         pc'[p] \in {"rBody", "rMeta"} => op[p].ver = Nil,
         OutOK(p)', TempOK(p)', WrittenOK(p)',
         LET b == disk'[op[p].key].body IN b # Nil => b.whole
  PROVE  Inv'
<1> DEFINE k == op[p].key
<1> USE DEF Writes
<1>0. ProcOK(p) /\ k \in Keys /\ KeyOK(k) /\ holder[k] = p /\ p # Nil
  BY TagsFresh DEF Inv, ProcOK, OpOK, Section, Intact, Broken
<1>1. OpOK(p)'
  BY <1>0 DEF ProcOK, OpOK, Section, Intact, Broken, Getting, Storing
<1>2. ReadOK(p)'
  <2>1. pc'[p] \notin Getting \cup {"gDone"} /\ pc[p] \notin Getting \cup {"gDone"}
    BY DEF Section, Intact, Broken, Getting
  <2>2. out'[p] # "hit"
    BY <2>1, NilFresh DEF OutOK, Outcomes
  <2>3. ~quiet'[p]
    BY <1>0, <2>1 DEF ProcOK, ReadOK
  <2> QED
    BY <2>1, <2>2, <2>3 DEF ReadOK, Getting
<1>3. ProcOK(p)'
  BY <1>1, <1>2 DEF ProcOK
<1>4. KeyOK(k)'
  BY <1>0 DEF KeyOK
<1>5. (\A q \in Procs \ {p} : Same(q)) /\ \A j \in Keys \ {k} : Kept(j)
  BY DEF Same, Kept
<1> QED
  BY <1>0, <1>3, <1>4, <1>5, OneStep

(* The disk after one of the three changes that writers make.              *)
Changed(k, b, t, m) ==
  /\ disk' \in [Keys -> Entries]
  /\ disk'[k] = [body |-> b, mtime |-> t, meta |-> m]
  /\ \A j \in Keys \ {k} : disk'[j] = disk[j]

LEMMA EntryChanged ==
  ASSUME disk \in [Keys -> Entries], NEW k \in Keys, NEW e \in Entries,
         disk' = [disk EXCEPT ![k] = e]
  PROVE  Changed(k, e.body, e.mtime, e.meta)
<1>1. e = [body |-> e.body, mtime |-> e.mtime, meta |-> e.meta]
  BY DEF Entries
<1> QED
  BY <1>1 DEF Changed

LEMMA DiskChanged ==
  ASSUME disk \in [Keys -> Entries], NEW k \in Keys, NEW b \in Bodies \cup {Nil},
         NEW t \in Vers \cup {Now, Nil}, NEW m \in Paths \cup {Nil}
  PROVE  /\ SetBody(k, b, t) => Changed(k, b, t, disk[k].meta)
         /\ SetTime(k, t) => Changed(k, disk[k].body, t, disk[k].meta)
         /\ SetMeta(k, m) => Changed(k, disk[k].body, disk[k].mtime, m)
<1> DEFINE e1 == [disk[k] EXCEPT !.body = b, !.mtime = t]
           e2 == [disk[k] EXCEPT !.mtime = t]
           e3 == [disk[k] EXCEPT !.meta = m]
<1>1. disk[k] \in Entries
  OBVIOUS
<1>2. /\ e1 \in Entries /\ e1.body = b /\ e1.mtime = t /\ e1.meta = disk[k].meta
      /\ e2 \in Entries /\ e2.body = disk[k].body /\ e2.mtime = t
      /\ e2.meta = disk[k].meta
      /\ e3 \in Entries /\ e3.body = disk[k].body /\ e3.mtime = disk[k].mtime
      /\ e3.meta = m
  BY <1>1 DEF Entries
<1>3. /\ SetBody(k, b, t) => disk' = [disk EXCEPT ![k] = e1]
      /\ SetTime(k, t) => disk' = [disk EXCEPT ![k] = e2]
      /\ SetMeta(k, m) => disk' = [disk EXCEPT ![k] = e3]
  BY DEF SetBody, SetTime, SetMeta
<1> HIDE DEF e1, e2, e3
<1> QED
  BY <1>2, <1>3, EntryChanged

-----------------------------------------------------------------------------
LEMMA PrepareInv ==
  ASSUME Inv, NEW p \in Procs,
         PutTemp(p) \/ PutCopy(p) \/ PutAbort(p) \/ PutMetaTemp(p)
  PROVE  Inv'
<1> USE DEF Goto, Verdict, Fault, Faults, SetTemp
<1>0. /\ ProcOK(p) /\ op[p].key \in Keys /\ op[p].ver \in Vers /\ KeyOK(op[p].key)
      /\ pc[p] \in {"pTemp", "pCopy", "pRename", "pMeta"}
  BY DEF Inv, ProcOK, OpOK, PutTemp, PutCopy, PutAbort, PutMetaTemp, Storing
<1>1. TypeOK'
  <2>1. pc' \in [Procs -> {"idle", "gDone", "pLock", "rLock", "unlock"}
                            \cup Getting \cup Intact \cup Broken]
    BY DEF Inv, TypeOK, PutTemp, PutCopy, PutAbort, PutMetaTemp, Intact, Broken
  <2>2. temp' \in [Procs -> Bodies \cup {Nil}]
    <3>1. \A w \in BOOLEAN : [ver |-> op[p].ver, whole |-> w] \in Bodies
      BY <1>0 DEF Bodies
    <3>2. \/ temp' = temp \/ temp' = [temp EXCEPT ![p] = Nil]
          \/ \E w \in BOOLEAN : temp' = [temp EXCEPT ![p] = [ver |-> op[p].ver, whole |-> w]]
      BY DEF PutTemp, PutCopy, PutAbort, PutMetaTemp
    <3>3. temp \in [Procs -> Bodies \cup {Nil}]
      BY DEF Inv, TypeOK
    <3> QED
      BY <3>1, <3>2, <3>3
  <2>3. mtemp' \in [Procs -> BOOLEAN]
    BY DEF Inv, TypeOK, PutTemp, PutCopy, PutAbort, PutMetaTemp
  <2>4. out' \in [Procs -> Outcomes \cup {Nil}]
    BY DEF Inv, TypeOK, PutTemp, PutCopy, PutAbort, PutMetaTemp, Outcomes
  <2>5. faults' \in 0..MaxFaults
    BY BoundsType DEF Inv, TypeOK, PutTemp, PutCopy, PutAbort, PutMetaTemp
  <2> QED
    BY <2>1, <2>2, <2>3, <2>4, <2>5 DEF Inv, TypeOK, PutTemp, PutCopy, PutAbort,
       PutMetaTemp, history
<1>2. Writes(p) /\ UNCHANGED <<disk, hurt>>
  BY DEF Inv, TypeOK, PutTemp, PutCopy, PutAbort, PutMetaTemp, history, Writes, Section,
     Intact, Broken
<1>3. /\ pc'[p] \in {"pCopy", "pRename", "unlock", "pMetaRename"}
      /\ OutOK(p)'
  BY <1>0 DEF Inv, TypeOK, PutTemp, PutCopy, PutAbort, PutMetaTemp, ProcOK, OutOK
<1>4. TempOK(p)'
  BY <1>0 DEF Inv, TypeOK, PutTemp, PutCopy, PutAbort, PutMetaTemp, ProcOK, TempOK
<1>5. WrittenOK(p)'
  <2>1. CASE PutTemp(p) \/ PutCopy(p) \/ PutAbort(p)
    <3>1. pc[p] \in Intact /\ pc'[p] \in {"pCopy", "pRename", "unlock"}
      BY <2>1 DEF Inv, TypeOK, PutTemp, PutCopy, PutAbort, Intact
    <3> QED
      BY <1>0, <1>2, <3>1 DEF ProcOK, WrittenOK, Writes, Coherent
  <2>2. CASE PutMetaTemp(p)
    <3>1. pc[p] = "pMeta" /\ pc'[p] = "pMetaRename"
      BY <2>2 DEF Inv, TypeOK, PutMetaTemp
    <3> QED
      BY <1>0, <1>2, <3>1 DEF ProcOK, WrittenOK, Writes, Intact
  <2> QED
    BY <2>1, <2>2
<1> QED
  BY <1>0, <1>1, <1>2, <1>3, <1>4, <1>5, WriteStep DEF KeyOK

LEMMA PutDiskInv ==
  ASSUME Inv, NEW p \in Procs, PutRename(p) \/ PutTimes(p)
  PROVE  Inv'
<1> USE DEF Goto, SetTemp
<1> PICK k \in Keys : k = op[p].key
  BY DEF Inv, ProcOK, OpOK, PutRename, PutTimes
<1>0. /\ ProcOK(p) /\ op[p].ver \in Vers /\ pc[p] \in {"pRename", "pTimes"}
      /\ disk \in [Keys -> Entries] /\ temp[p] \in Bodies \cup {Nil}
      /\ out[p] = Nil /\ k = op[p].key
  BY DEF Inv, TypeOK, ProcOK, OpOK, OutOK, PutRename, PutTimes, Storing
<1>1. /\ PutRename(p) => Changed(k, temp[p], Now, disk[k].meta)
      /\ PutTimes(p) => Changed(k, disk[k].body, op[p].ver, disk[k].meta)
  BY <1>0, DiskChanged DEF PutRename, PutTimes
<1>2. TypeOK'
  <2>1. pc' \in [Procs -> {"idle", "gDone", "pLock", "rLock", "unlock"}
                            \cup Getting \cup Intact \cup Broken]
    BY DEF Inv, TypeOK, PutRename, PutTimes, Broken
  <2>2. temp' \in [Procs -> Bodies \cup {Nil}]
    BY DEF Inv, TypeOK, PutRename, PutTimes
  <2> QED
    BY <1>1, <2>1, <2>2 DEF Changed, Inv, TypeOK, PutRename, PutTimes, history
<1>3. Writes(p) /\ pc'[p] \in {"pTimes", "pMeta"}
  BY <1>0, <1>1 DEF Changed, Inv, TypeOK, PutRename, PutTimes, history, Writes, Section,
     Intact, Broken
<1>4. OutOK(p)' /\ TempOK(p)'
  BY <1>0 DEF Inv, TypeOK, PutRename, PutTimes, ProcOK, OutOK, TempOK
<1>5. WrittenOK(p)'
  <2>1. CASE PutRename(p)
    <3>1. pc'[p] = "pTimes" /\ op' = op /\ temp[p] = [ver |-> op[p].ver, whole |-> TRUE]
      BY <1>0, <2>1 DEF PutRename, Inv, TypeOK, ProcOK, TempOK
    <3>4. disk'[k].body = temp[p]
      BY <1>1, <2>1 DEF Changed
    <3>2. disk'[op[p].key].body = [ver |-> op[p].ver, whole |-> TRUE]
      BY <1>0, <3>1, <3>4
    <3> QED
      BY <3>1, <3>2 DEF WrittenOK, Intact
  <2>2. CASE PutTimes(p)
    <3>1. pc'[p] = "pMeta" /\ op' = op
          /\ disk[k].body = [ver |-> op[p].ver, whole |-> TRUE]
      BY <1>0, <2>2 DEF PutTimes, Inv, TypeOK, ProcOK, WrittenOK
    <3>4. disk'[k].body = disk[k].body /\ disk'[k].mtime = op[p].ver
      BY <1>1, <2>2 DEF Changed
    <3>2. /\ disk'[op[p].key].body = [ver |-> op[p].ver, whole |-> TRUE]
          /\ disk'[op[p].key].mtime = op[p].ver
      BY <1>0, <3>1, <3>4
    <3> QED
      BY <3>1, <3>2 DEF WrittenOK, Intact
  <2> QED
    BY <2>1, <2>2
<1>6. disk'[k].body.whole
  BY <1>0, <1>3, <1>5 DEF WrittenOK, Writes
<1> QED
  BY <1>0, <1>2, <1>3, <1>4, <1>5, <1>6, WriteStep

(* The last step of a Put or Remove makes the entry coherent.              *)
LEMMA CompleteInv ==
  ASSUME Inv, NEW p \in Procs, PutMetaNone(p) \/ PutMetaRename(p) \/ RemoveMeta(p)
  PROVE  Inv'
<1> USE DEF Goto, Complete, Verdict
<1> PICK k \in Keys : k = op[p].key
  BY DEF Inv, ProcOK, OpOK, PutMetaNone, PutMetaRename, RemoveMeta
<1>0. /\ ProcOK(p) /\ pc[p] \in {"pMeta", "pMetaRename", "rMeta"}
      /\ disk \in [Keys -> Entries] /\ k = op[p].key
      /\ pc[p] # "rMeta" => op[p].ver \in Vers /\ EffOf[op[p].ver] \in Paths \cup {Nil}
  BY EffOfType DEF Inv, TypeOK, ProcOK, OpOK, PutMetaNone, PutMetaRename, RemoveMeta, Storing
<1> DEFINE m == IF pc[p] = "rMeta" THEN Nil ELSE EffOf[op[p].ver]
<1>1. Changed(k, disk[k].body, disk[k].mtime, m)
  BY <1>0, DiskChanged DEF PutMetaNone, PutMetaRename, RemoveMeta
<1>2. TypeOK'
  <2>1. pc' \in [Procs -> {"idle", "gDone", "pLock", "rLock", "unlock"}
                            \cup Getting \cup Intact \cup Broken]
    BY DEF Inv, TypeOK, PutMetaNone, PutMetaRename, RemoveMeta
  <2>2. mtemp' \in [Procs -> BOOLEAN] /\ out' \in [Procs -> Outcomes \cup {Nil}]
        /\ hurt' \in [Keys -> BOOLEAN]
    BY DEF Inv, TypeOK, PutMetaNone, PutMetaRename, RemoveMeta, Outcomes
  <2> QED
    BY <1>1, <2>1, <2>2 DEF Changed, Inv, TypeOK, PutMetaNone, PutMetaRename, RemoveMeta
<1>3. Writes(p) /\ pc'[p] = "unlock"
  BY <1>0, <1>1 DEF Changed, Inv, TypeOK, PutMetaNone, PutMetaRename, RemoveMeta, Writes,
     Section, Intact, Broken
<1>4. OutOK(p)' /\ TempOK(p)'
  BY <1>0 DEF Inv, TypeOK, PutMetaNone, PutMetaRename, RemoveMeta, ProcOK, OutOK, TempOK
<1>5. Coherent(disk'[k])
  <2>1. CASE pc[p] = "rMeta"
    <3>1. disk[k].body = Nil /\ disk[k].mtime = Nil
      BY <1>0, <2>1 DEF ProcOK, WrittenOK
    <3> QED
      BY <1>1, <2>1, <3>1 DEF Changed, Coherent, NoEntry
  <2>2. CASE pc[p] # "rMeta"
    <3>1. disk[k].body = [ver |-> op[p].ver, whole |-> TRUE] /\ disk[k].mtime = op[p].ver
      BY <1>0, <2>2 DEF ProcOK, WrittenOK
    <3> QED
      BY <1>0, <1>1, <2>2, <3>1 DEF Changed, Coherent, EntryOf
  <2> QED
    BY <2>1, <2>2
<1>6. WrittenOK(p)'
  BY <1>0, <1>3, <1>5 DEF Writes, WrittenOK, Coherent, Intact
<1>7. disk'[k].body = disk[k].body
  BY <1>1 DEF Changed
<1>8. disk[k].body # Nil => disk[k].body.whole
  BY DEF Inv, KeyOK
<1> QED
  BY <1>0, <1>2, <1>3, <1>4, <1>6, <1>7, <1>8, WriteStep DEF Storing

LEMMA RemoveBodyInv ==
  ASSUME Inv, NEW p \in Procs, RemoveBody(p)
  PROVE  Inv'
<1> USE DEF Goto, RemoveBody
<1> PICK k \in Keys : k = op[p].key
  BY DEF Inv, ProcOK, OpOK
<1>0. /\ ProcOK(p) /\ pc[p] = "rBody" /\ op[p].ver = Nil
      /\ disk \in [Keys -> Entries] /\ k = op[p].key
  BY DEF Inv, TypeOK, ProcOK, OpOK
<1>1. Changed(k, Nil, Nil, disk[k].meta)
  BY <1>0, DiskChanged
<1>2. pc' \in [Procs -> {"idle", "gDone", "pLock", "rLock", "unlock"}
                          \cup Getting \cup Intact \cup Broken]
  BY DEF Inv, TypeOK, Broken
<1>3. TypeOK'
  BY <1>1, <1>2 DEF Changed, Inv, TypeOK, history
<1>4. Writes(p) /\ pc'[p] = "rMeta"
  BY <1>0, <1>1 DEF Changed, Inv, TypeOK, Writes, Section, Intact, Broken, history
<1>5. OutOK(p)' /\ TempOK(p)'
  BY <1>0, <1>4 DEF ProcOK, OutOK, TempOK
<1>6. disk'[k].body = Nil /\ disk'[k].mtime = Nil
  BY <1>1 DEF Changed
<1>7. WrittenOK(p)'
  BY <1>0, <1>4, <1>6 DEF Writes, WrittenOK, Intact
<1> QED
  BY <1>0, <1>3, <1>4, <1>5, <1>6, <1>7, WriteStep DEF Storing

(* A writer that fails half way through marks the entry.                   *)
LEMMA BreakInv ==
  ASSUME Inv, NEW p \in Procs, PutBreak(p) \/ RemoveFail(p)
  PROVE  Inv'
<1> USE DEF Goto, Verdict, Fault, Faults
<1> PICK k \in Keys : k = op[p].key
  BY DEF Inv, ProcOK, OpOK, PutBreak, RemoveFail
<1>0. /\ ProcOK(p) /\ KeyOK(k) /\ pc[p] \in Broken \cup {"rBody"} /\ k = op[p].key
      /\ pc'[p] = "unlock" /\ out'[p] = "error" /\ UNCHANGED <<op, disk>>
  BY DEF Inv, TypeOK, PutBreak, RemoveFail, files, Broken
<1>1. /\ hurt'[k] \/ (pc[p] = "rBody" /\ hurt'[k] = hurt[k])
      /\ \A j \in Keys \ {k} : hurt'[j] = hurt[j]
      /\ hurt' \in [Keys -> BOOLEAN]
  <2>1. hurt \in [Keys -> BOOLEAN]
    BY DEF Inv, TypeOK
  <2>2. CASE PutBreak(p)
    BY <1>0, <2>1, <2>2 DEF PutBreak
  <2>3. CASE RemoveFail(p)
    BY <1>0, <2>1, <2>3 DEF RemoveFail
  <2> QED
    BY <2>2, <2>3
<1>2. TypeOK'
  <2>1. pc' \in [Procs -> {"idle", "gDone", "pLock", "rLock", "unlock"}
                            \cup Getting \cup Intact \cup Broken]
    BY DEF Inv, TypeOK, PutBreak, RemoveFail
  <2>2. mtemp' \in [Procs -> BOOLEAN] /\ out' \in [Procs -> Outcomes \cup {Nil}]
    BY DEF Inv, TypeOK, PutBreak, RemoveFail, files, Outcomes
  <2>3. faults' \in 0..MaxFaults
    BY BoundsType DEF Inv, TypeOK, PutBreak, RemoveFail
  <2> QED
    BY <1>1, <2>1, <2>2, <2>3 DEF Inv, TypeOK, PutBreak, RemoveFail, files
<1>3. Writes(p)
  BY <1>0, <1>1 DEF Inv, TypeOK, PutBreak, RemoveFail, files, Writes, Section, Intact, Broken
<1>4. OutOK(p)'
  BY <1>0 DEF OutOK
<1>5. TempOK(p)'
  BY <1>0 DEF Inv, TypeOK, PutBreak, RemoveFail, files, ProcOK, TempOK, Broken
<1>6. WrittenOK(p)'
  <2>1. hurt'[k] \/ Coherent(disk[k])
    BY <1>0, <1>1 DEF ProcOK, WrittenOK, Intact
  <2> QED
    BY <1>0, <2>1 DEF WrittenOK, Coherent, Intact
<1> QED
  BY <1>0, <1>2, <1>3, <1>4, <1>5, <1>6, WriteStep DEF Storing, KeyOK

LEMMA CrashInv ==
  ASSUME Inv, Crash
  PROVE  Inv'
<1> USE DEF Crash
<1>1. TypeOK'
  <2>1. NoOp \in [key : Keys \cup {Nil}, ver : Vers \cup {Nil}] /\ NoEntry \in Entries
    BY DEF NoOp, NoEntry, Entries
  <2>2. hurt' \in [Keys -> BOOLEAN]
    OBVIOUS
  <2>3. crashes' \in 0..MaxCrashes
    BY BoundsType DEF Inv, TypeOK
  <2> QED
    BY <2>1, <2>2, <2>3 DEF Inv, TypeOK
<1>2. ASSUME NEW p \in Procs PROVE ProcOK(p)'
  BY NilFresh DEF ProcOK, OpOK, OutOK, TempOK, WrittenOK, ReadOK, Section, Intact, Broken,
     Getting, Storing, Outcomes
<1>3. ASSUME NEW k \in Keys PROVE KeyOK(k)'
  <2>1. hurt'[k] \/ Coherent(disk[k])
    <3>1. CASE holder[k] = Nil
      BY <3>1 DEF Inv, KeyOK
    <3>2. CASE holder[k] # Nil
      <4>1. PICK p \in Procs : p = holder[k] /\ pc[p] \in Section /\ op[p].key = k
        BY <3>2 DEF Inv, TypeOK, KeyOK
      <4>2. CASE pc[p] \in Broken
        BY <4>1, <4>2
      <4>3. CASE pc[p] \notin Broken
        BY <4>1, <4>3 DEF Section, Inv, ProcOK, WrittenOK
      <4> QED
        BY <4>2, <4>3
    <3> QED
      BY <3>1, <3>2
  <2> QED
    BY <2>1 DEF Inv, KeyOK, Coherent
<1> QED
  BY <1>1, <1>2, <1>3 DEF Inv

-----------------------------------------------------------------------------
(* Every state of the store satisfies the invariant.                       *)
THEOREM Invariance == Spec => []Inv
<1>1. Init => Inv
  <2> SUFFICES ASSUME Init PROVE Inv
    OBVIOUS
  <2>1. TypeOK
    BY BoundsType DEF Init, TypeOK, NoOp, NoEntry, Entries
  <2>2. ASSUME NEW p \in Procs PROVE ProcOK(p)
    BY NilFresh DEF Init, ProcOK, OpOK, OutOK, TempOK, WrittenOK, ReadOK, Section, Intact,
       Broken, Getting, Storing, Outcomes
  <2>3. ASSUME NEW k \in Keys PROVE KeyOK(k)
    BY DEF Init, KeyOK, Coherent, NoEntry
  <2> QED
    BY <2>1, <2>2, <2>3 DEF Inv
<1>2. Inv /\ [Next]_vars => Inv'
  <2> SUFFICES ASSUME Inv, [Next]_vars PROVE Inv'
    OBVIOUS
  <2>1. ASSUME NEW p \in Procs, Get(p) PROVE Inv'
    BY <2>1, BeginInv, GetInv, EndInv DEF Get
  <2>2. ASSUME NEW p \in Procs, Put(p) PROVE Inv'
    BY <2>2, BeginInv, PrepareInv, PutDiskInv, CompleteInv, BreakInv DEF Put
  <2>3. ASSUME NEW p \in Procs, Remove(p) PROVE Inv'
    BY <2>3, BeginInv, RemoveBodyInv, CompleteInv, BreakInv DEF Remove
  <2>4. CASE UNCHANGED vars
    BY <2>4 DEF vars, files, history, Inv, TypeOK, ProcOK, OpOK, OutOK, TempOK, WrittenOK,
       ReadOK, KeyOK, Coherent
  <2> QED
    BY <2>1, <2>2, <2>3, <2>4, LockInv, EndInv, CrashInv DEF Next
<1> QED
  BY <1>1, <1>2, PTL DEF Spec

(* The files, locks and calls of the store keep their types.               *)
THEOREM TypeCorrect == Spec => []TypeOK
<1>1. Inv => TypeOK
  BY DEF Inv
<1> QED
  BY Invariance, <1>1, PTL

(* An entry nobody is writing is coherent unless its last writer failed or *)
(* died half way through (fileStore.Put, fileStore.Remove).                *)
THEOREM AlwaysCoherentAtRest == Spec => []CoherentAtRest
<1>1. Inv => CoherentAtRest
  BY DEF Inv, KeyOK, CoherentAtRest
<1> QED
  BY Invariance, <1>1, PTL

(* A Get that no writer of its key overlaps returns the body, time and     *)
(* effective path of one Put, although it takes no lock (fileStore.Get).   *)
THEOREM QuietGetsCoherent == Spec => []QuietGetCoherent
<1>1. Inv => QuietGetCoherent
  <2> SUFFICES ASSUME Inv, NEW p \in Procs, out[p] = "hit", quiet[p]
               PROVE  Coherent(got[p])
    BY DEF QuietGetCoherent
  <2>1. /\ got[p] = disk[op[p].key] /\ holder[op[p].key] = Nil /\ ~hurt[op[p].key]
        /\ op[p].key \in Keys
    BY DEF Inv, ProcOK, OpOK, ReadOK, Getting
  <2> QED
    BY <2>1 DEF Inv, KeyOK
<1> QED
  BY Invariance, <1>1, PTL

(* A step that ends the writing of p and leaves a file of its own fails in *)
(* two calls.                                                              *)
LEMMA LeftByTwoFaults ==
  ASSUME Inv, NEW p \in Procs,
         Get(p) \/ Put(p) \/ Remove(p) \/ Lock(p) \/ Unlock(p),
         pc[p] # "unlock", pc'[p] = "unlock", temp'[p] # Nil \/ mtemp'[p]
  PROVE  faults' = faults + 2
<1> USE DEF Goto, SetTemp, Verdict, Fault, Faults, Begin, Reset, Complete
<1>0. TempOK(p)
  BY DEF Inv, ProcOK
<1>1. pc[p] \in {"pTemp", "pCopy", "pRename", "pTimes", "pMeta", "pMetaRename",
                 "rBody", "rMeta"}
  BY DEF Inv, TypeOK, Get, GetBegin, GetStat, GetOpen, GetMeta, GetFail, GetEnd,
     Miss, Put, PutBegin, PutTemp, PutCopy, PutRename, PutTimes, PutMetaNone,
     PutMetaTemp, PutMetaRename, PutAbort, PutBreak, Remove, RemoveBegin, RemoveBody,
     RemoveMeta, RemoveFail, Lock, Inside, Unlock, Broken
<1>2. CASE PutAbort(p)
  BY <1>0, <1>1, <1>2 DEF Inv, TypeOK, PutAbort, TempOK
<1>3. CASE PutBreak(p)
  BY <1>0, <1>1, <1>3 DEF Inv, TypeOK, PutBreak, TempOK
<1>4. CASE PutMetaNone(p) \/ PutMetaRename(p) \/ RemoveMeta(p) \/ RemoveFail(p)
  BY <1>0, <1>1, <1>4 DEF Inv, TypeOK, PutMetaNone, PutMetaRename, RemoveMeta,
     RemoveFail, TempOK, files
<1> QED
  BY <1>1, <1>2, <1>3, <1>4 DEF Inv, TypeOK, Get, GetBegin, GetStat, GetOpen,
     GetMeta, GetFail, GetEnd, Miss, Put, PutBegin, PutTemp, PutCopy, PutRename, PutTimes,
     PutMetaTemp, Remove, RemoveBegin, RemoveBody, Lock, Inside, Unlock

(* However many calls fail, a Put leaves a temporary file only if the call *)
(* that removes it fails too, the os.Remove whose error fileStore.Put and  *)
(* writeMetadata ignore.                                                   *)
THEOREM TempsAlwaysRemoved == Spec => TempsRemoved
<1> DEFINE Left(p) == pc[p] # "unlock" /\ pc'[p] = "unlock" /\ (temp'[p] # Nil \/ mtemp'[p])
<1>1. ASSUME Inv, [Next]_vars, NEW p \in Procs, Left(p) PROVE faults' = faults + 2
  <2>1. CASE UNCHANGED vars
    BY <1>1, <2>1 DEF vars
  <2>2. CASE Crash
    BY <1>1, <2>2 DEF Crash
  <2>3. ASSUME NEW q \in Procs, Get(q) \/ Put(q) \/ Remove(q) \/ Lock(q) \/ Unlock(q)
        PROVE  faults' = faults + 2
    <3>1. q = p
      <4> USE DEF Inv, TypeOK, files, Goto
      <4>1. CASE Get(q)
        BY <1>1, <4>1 DEF Get, GetBegin, GetStat, GetOpen, GetMeta, GetFail, GetEnd, Miss, Begin
      <4>2. CASE Put(q)
        BY <1>1, <4>2 DEF Put, PutBegin, PutTemp, PutCopy, PutRename, PutTimes, PutMetaNone,
           PutMetaTemp, PutMetaRename, PutAbort, PutBreak, Begin
      <4>3. CASE Remove(q)
        BY <1>1, <4>3 DEF Remove, RemoveBegin, RemoveBody, RemoveMeta, RemoveFail, Begin
      <4>4. CASE Lock(q) \/ Unlock(q)
        BY <1>1, <4>4 DEF Lock, Inside, Unlock
      <4> QED
        BY <2>3, <4>1, <4>2, <4>3, <4>4
    <3> QED
      BY <1>1, <2>3, <3>1, LeftByTwoFaults
  <2> QED
    BY <1>1, <2>1, <2>2, <2>3 DEF Next
<1>2. Inv /\ [Next]_vars => [\A p \in Procs : Left(p) => faults' = faults + 2]_vars
  BY <1>1
<1> HIDE DEF Left
<1>3. Spec => [][\A p \in Procs : Left(p) => faults' = faults + 2]_vars
  BY Invariance, <1>2, PTL DEF Spec
<1> QED
  BY <1>3 DEF TempsRemoved, Left
=============================================================================
