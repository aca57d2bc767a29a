---------------------- MODULE FileStoreRegister_proof ----------------------
(***************************************************************************)
(* The cache store implements an atomic register of whole bodies per key   *)
(* (BodyRegister), for any number of goroutines, keys, failures and        *)
(* crashes: every system call maps to a step of the register or to none.   *)
(***************************************************************************)
EXTENDS FileStore_proof

Stored == [k \in Keys |-> BodyVer(disk[k].body)]
Call == [p \in Procs |-> CallOf(p)]
Answer == [p \in Procs |-> AnswerOf(p)]

(* A step of p, as the others see it.                                      *)
Others(p) == \A q \in Procs \ {p} : /\ pc'[q] = pc[q] /\ op'[q] = op[q]
                                    /\ got'[q] = got[q] /\ out'[q] = out[q]

LEMMA Mapped ==
  ASSUME NEW p \in Procs, Others(p)
  PROVE  /\ Call' = [Call EXCEPT ![p] = CallOf(p)']
         /\ Answer' = [Answer EXCEPT ![p] = AnswerOf(p)']
<1>1. \A q \in Procs \ {p} : CallOf(q)' = CallOf(q) /\ AnswerOf(q)' = AnswerOf(q)
  BY DEF Others, CallOf, AnswerOf
<1>2. Call' = [q \in Procs |-> CallOf(q)'] /\ Answer' = [q \in Procs |-> AnswerOf(q)']
  BY DEF Call, Answer
<1>3. /\ [Call EXCEPT ![p] = CallOf(p)'] =
           [q \in Procs |-> IF q = p THEN CallOf(p)' ELSE CallOf(q)]
      /\ [Answer EXCEPT ![p] = AnswerOf(p)'] =
           [q \in Procs |-> IF q = p THEN AnswerOf(p)' ELSE AnswerOf(q)]
  BY DEF Call, Answer
<1> QED
  BY <1>1, <1>2, <1>3

(* A step that the register does not see.                                  *)
LEMMA Unseen ==
  ASSUME NEW p \in Procs, Others(p), CallOf(p)' = CallOf(p), AnswerOf(p)' = AnswerOf(p),
         Stored' = Stored
  PROVE  UNCHANGED Register!vars
<1>1. Call' = Call /\ Answer' = Answer
  BY Mapped DEF Call, Answer
<1> QED
  BY <1>1 DEF Register!vars, Call, Answer, Stored

-----------------------------------------------------------------------------
(* What the register sees of a state that satisfies the invariant.         *)
LEMMA CallSeen ==
  ASSUME Inv, NEW p \in Procs
  PROVE  /\ pc[p] = "idle" <=> Call[p] = Nil
         /\ pc[p] \in Getting \cup {"gDone"} =>
              Call[p] = [op |-> "get", key |-> op[p].key]
         /\ pc[p] \in Storing =>
              Call[p] = [op |-> "put", key |-> op[p].key, ver |-> op[p].ver]
         /\ pc[p] \in {"rLock", "rBody", "rMeta"} =>
              Call[p] = [op |-> "remove", key |-> op[p].key]
         /\ pc[p] # "idle" => Call[p] \in Register!Calls
<1>1. Call[p] = CallOf(p)
  BY DEF Call
<1>2. OpOK(p) /\ op[p].ver \in Vers \cup {Nil}
  BY DEF Inv, TypeOK, ProcOK
<1>3. /\ \A k \in Keys : [op |-> "get", key |-> k] \in Register!Calls
      /\ \A k \in Keys, v \in Vers :
           [op |-> "put", key |-> k, ver |-> v] \in Register!Calls
      /\ \A k \in Keys : [op |-> "remove", key |-> k] \in Register!Calls
  BY DEF Register!Calls
<1>4. ASSUME pc[p] # "idle" PROVE CallOf(p) \in Register!Calls
  <2>1. op[p].key \in Keys
    BY <1>2, <1>4 DEF OpOK
  <2>2. CASE pc[p] \in Getting \cup {"gDone"}
    <3>1. CallOf(p) = [op |-> "get", key |-> op[p].key]
      BY <1>4, <2>2 DEF CallOf
    <3> QED
      BY <1>3, <2>1, <3>1
  <2>3. CASE pc[p] \notin Getting \cup {"gDone"} /\ op[p].ver # Nil
    <3>1. CallOf(p) = [op |-> "put", key |-> op[p].key, ver |-> op[p].ver]
      BY <1>4, <2>3 DEF CallOf
    <3>2. op[p].ver \in Vers
      BY <1>2, <2>3
    <3> QED
      BY <1>3, <2>1, <3>1, <3>2
  <2>4. CASE pc[p] \notin Getting \cup {"gDone"} /\ op[p].ver = Nil
    <3>1. CallOf(p) = [op |-> "remove", key |-> op[p].key]
      BY <1>4, <2>4 DEF CallOf
    <3> QED
      BY <1>3, <2>1, <3>1
  <2> QED
    BY <2>2, <2>3, <2>4
<1>5. pc[p] = "idle" <=> CallOf(p) = Nil
  BY <1>4, RegisterNil DEF CallOf
<1>6. /\ pc[p] \in Getting \cup {"gDone"} => CallOf(p) = [op |-> "get", key |-> op[p].key]
      /\ pc[p] \in Storing =>
           CallOf(p) = [op |-> "put", key |-> op[p].key, ver |-> op[p].ver]
      /\ pc[p] \in {"rLock", "rBody", "rMeta"} =>
           CallOf(p) = [op |-> "remove", key |-> op[p].key]
  BY <1>2, TagsFresh DEF CallOf, OpOK, Getting, Storing
<1> QED
  BY <1>1, <1>4, <1>5, <1>6

LEMMA AnswerSeen ==
  ASSUME Inv, NEW p \in Procs
  PROVE  /\ pc[p] \notin {"gMeta", "gDone", "unlock"} => Answer[p] = Nil
         /\ pc[p] = "gMeta" => Answer[p].verdict = "body"
         /\ pc[p] \in {"gDone", "unlock"} => Answer[p] # Nil
<1>1. Answer[p] = AnswerOf(p) /\ OutOK(p) /\ ReadOK(p)
  BY DEF Answer, Inv, ProcOK
<1>2. out[p] # Nil => out[p] \in Outcomes
  BY DEF Inv, TypeOK
<1>3. got[p].body \in Bodies \cup {Nil}
  BY DEF Inv, TypeOK, Entries
<1>4. pc[p] = "gMeta" \/ out[p] = "hit" => BodyVer(got[p].body) \in Vers
  BY <1>1, <1>3 DEF ReadOK, BodyVer, Bodies
<1>5. /\ \A v \in Vers : [verdict |-> "body", body |-> v] \in Register!Answers
      /\ \A o \in {"miss", "ok", "error"} :
           [verdict |-> o, body |-> Nil] \in Register!Answers
  BY DEF Register!Answers
<1>6. pc[p] \in {"gDone", "unlock"} => AnswerOf(p) \in Register!Answers
  BY <1>1, <1>2, <1>4, <1>5, NilFresh DEF OutOK, AnswerOf, Outcomes
<1>7. pc[p] \notin {"gMeta", "gDone", "unlock"} => AnswerOf(p) = Nil
  BY <1>1, NilFresh DEF OutOK, AnswerOf, Outcomes
<1>8. pc[p] = "gMeta" => AnswerOf(p).verdict = "body"
  BY DEF AnswerOf
<1> QED
  BY <1>1, <1>6, <1>7, <1>8, RegisterNil

LEMMA WholeSeen ==
  ASSUME NEW v \in Vers
  PROVE  BodyVer([ver |-> v, whole |-> TRUE]) = v
<1>1. [ver |-> v, whole |-> TRUE] \in Bodies
  BY DEF Bodies
<1> QED
  BY <1>1, NilFresh DEF BodyVer

LEMMA StoredSeen ==
  ASSUME Inv, NEW k \in Keys
  PROVE  /\ Stored[k] = BodyVer(disk[k].body)
         /\ disk[k].body = Nil => Stored[k] = Nil
         /\ disk[k].body # Nil => Stored[k] \in Vers /\ Stored[k] # Nil
         /\ \A v \in Vers : disk[k].body = [ver |-> v, whole |-> TRUE] => Stored[k] = v
<1>1. disk[k].body \in Bodies \cup {Nil} /\ KeyOK(k)
  BY DEF Inv, TypeOK, Entries
<1>3. /\ disk[k].body = Nil => BodyVer(disk[k].body) = Nil
      /\ disk[k].body # Nil => BodyVer(disk[k].body) \in Vers
  BY <1>1 DEF KeyOK, BodyVer, Bodies
<1> QED
  BY <1>1, <1>3, WholeSeen, TagsFresh DEF Stored

-----------------------------------------------------------------------------
(* Every step but a crash is a step of one goroutine, which changes the    *)
(* bodies of the key it works on only by PutRename and RemoveBody.         *)
LEMMA OneGoroutine ==
  ASSUME Inv, NEW p \in Procs, Get(p) \/ Put(p) \/ Remove(p) \/ Lock(p) \/ Unlock(p)
  PROVE  Others(p)
<1> USE DEF Inv, TypeOK, Goto, Begin, Verdict, Reset, Others
<1>1. CASE Get(p)
  BY <1>1 DEF Get, GetBegin, GetStat, GetOpen, GetMeta, GetFail, GetEnd, Miss
<1>2. CASE Put(p)
  BY <1>2 DEF Put, PutBegin, PutTemp, PutCopy, PutRename, PutTimes, PutMetaNone,
     PutMetaTemp, PutMetaRename, PutAbort, PutBreak, Complete
<1>3. CASE Remove(p)
  BY <1>3 DEF Remove, RemoveBegin, RemoveBody, RemoveMeta, RemoveFail, Complete
<1>4. CASE Lock(p) \/ Unlock(p)
  BY <1>4 DEF Lock, Inside, Unlock
<1> QED
  BY <1>1, <1>2, <1>3, <1>4

LEMMA BeginSeen ==
  ASSUME Inv, NEW p \in Procs, NEW k \in Keys,
         \/ GetBegin(p, k) \/ RemoveBegin(p, k)
         \/ \E v \in Vers : PutBegin(p, k, v)
  PROVE  \E c \in Register!Calls : Register!Begin(p, c)
<1>1. pc[p] = "idle" /\ UNCHANGED <<disk, out, got>>
  BY DEF GetBegin, RemoveBegin, PutBegin, Begin, Goto, files
<1>2. PICK c \in Register!Calls : CallOf(p)' = c
  <2>1. CASE GetBegin(p, k)
    <3>1. pc'[p] = "gStat" /\ op'[p].key = k
      BY <2>1 DEF Inv, TypeOK, GetBegin, Begin, Goto
    <3>2. CallOf(p)' = [op |-> "get", key |-> k]
      BY <3>1 DEF CallOf, Getting
    <3> QED
      BY <3>2 DEF Register!Calls
  <2>2. CASE RemoveBegin(p, k)
    <3>1. pc'[p] = "rLock" /\ op'[p].key = k /\ op'[p].ver = Nil
      BY <2>2 DEF Inv, TypeOK, RemoveBegin, Begin, Goto
    <3>2. CallOf(p)' = [op |-> "remove", key |-> k]
      BY <3>1 DEF CallOf, Getting
    <3> QED
      BY <3>2 DEF Register!Calls
  <2>3. ASSUME NEW v \in Vers, PutBegin(p, k, v)
        PROVE  \E c \in Register!Calls : CallOf(p)' = c
    <3>1. pc'[p] = "pLock" /\ op'[p].key = k /\ op'[p].ver = v /\ v # Nil
      BY <2>3, TagsFresh DEF Inv, TypeOK, PutBegin, Begin, Goto
    <3>2. CallOf(p)' = [op |-> "put", key |-> k, ver |-> v]
      BY <3>1 DEF CallOf, Getting
    <3> QED
      BY <3>2 DEF Register!Calls
  <2> QED
    BY <2>1, <2>2, <2>3
<1>3. Others(p)
  BY OneGoroutine DEF Get, Put, Remove
<1>4. Call[p] = Nil /\ Answer[p] = Nil
  BY <1>1, CallSeen, AnswerSeen
<1>5. pc'[p] # "gMeta"
  BY DEF Inv, TypeOK, GetBegin, RemoveBegin, PutBegin, Begin, Goto
<1>6. AnswerOf(p)' = AnswerOf(p)
  BY <1>1, <1>5 DEF AnswerOf
<1>7. Answer' = Answer /\ Call' = [Call EXCEPT ![p] = c] /\ Stored' = Stored
  BY <1>1, <1>2, <1>3, <1>6, Mapped DEF Answer, Stored
<1> QED
  BY <1>4, <1>7 DEF Register!Begin, Call, Answer, Stored

(* A Get is decided when it misses the file or has opened it.              *)
LEMMA ObserveSeen ==
  ASSUME Inv, NEW p \in Procs, GetOpen(p) \/ (GetStat(p) /\ Miss(p))
  PROVE  Register!Observe(p)
<1> DEFINE k == op[p].key
<1>1. /\ pc[p] \in {"gStat", "gOpen"} /\ k \in Keys
      /\ UNCHANGED <<disk, op>>
  BY DEF Inv, ProcOK, OpOK, GetStat, GetOpen, files
<1>2. Call[p] # Nil /\ Call[p].op = "get" /\ Call[p].key = k /\ Answer[p] = Nil
  <2>1. Call[p] # Nil /\ Answer[p] = Nil
    BY <1>1, CallSeen, AnswerSeen
  <2>2. Call[p] = [op |-> "get", key |-> k]
    BY <1>1, CallSeen DEF Getting
  <2> QED
    BY <2>1, <2>2
<1>3. Others(p)
  BY OneGoroutine DEF Get
<1>4. CallOf(p)' = CallOf(p)
  <2>1. pc'[p] \in {"gMeta", "gDone"}
    BY DEF Inv, TypeOK, GetStat, GetOpen, Miss, Goto
  <2> QED
    BY <1>1, <2>1 DEF CallOf, Getting
<1>5. AnswerOf(p)' = IF Stored[k] = Nil THEN Register!Plain("miss")
                     ELSE [verdict |-> "body", body |-> Stored[k]]
  <2>1. CASE Miss(p)
    <3>1. pc'[p] = "gDone" /\ out'[p] = "miss" /\ disk[k].body = Nil
      BY <2>1 DEF Inv, TypeOK, Miss, Verdict
    <3>2. AnswerOf(p)' = [verdict |-> "miss", body |-> Nil]
      BY <3>1, NilFresh DEF AnswerOf, Outcomes
    <3> QED
      BY <1>1, <3>1, <3>2, StoredSeen DEF Register!Plain
  <2>2. CASE ~Miss(p)
    <3>1. pc'[p] = "gMeta" /\ got'[p].body = disk[k].body /\ disk[k].body # Nil
      BY <2>2 DEF Inv, TypeOK, Entries, GetOpen, Goto
    <3>2. AnswerOf(p)' = [verdict |-> "body", body |-> BodyVer(disk[k].body)]
      BY <3>1 DEF AnswerOf, BodyVer
    <3> QED
      BY <1>1, <3>1, <3>2, StoredSeen
  <2> QED
    BY <2>1, <2>2
<1> DEFINE a == IF Stored[Call[p].key] = Nil THEN Register!Plain("miss")
                ELSE [verdict |-> "body", body |-> Stored[Call[p].key]]
<1>6. Call' = Call /\ Stored' = Stored /\ Answer' = [Answer EXCEPT ![p] = a]
  BY <1>1, <1>2, <1>3, <1>4, <1>5, Mapped DEF Call, Stored
<1> QED
  BY <1>2, <1>6 DEF Register!Observe, Register!Decide, Call, Answer, Stored

(* A rename or the removal of the body is the effect of the call.          *)
LEMMA EffectSeen ==
  ASSUME Inv, NEW p \in Procs, PutRename(p) \/ RemoveBody(p)
  PROVE  Register!Effect(p)
<1> DEFINE k == op[p].key
           b == IF pc[p] = "pRename" THEN op[p].ver ELSE Nil
<1>1. /\ pc[p] \in {"pRename", "rBody"} /\ k \in Keys /\ ProcOK(p)
      /\ disk \in [Keys -> Entries] /\ UNCHANGED <<op, out, got>>
      /\ pc[p] = "pRename" => op[p].ver \in Vers
  BY DEF Inv, TypeOK, ProcOK, OpOK, PutRename, RemoveBody, Goto, Storing
<1>2. /\ Call[p] # Nil /\ Answer[p] = Nil /\ Call[p].key = k
      /\ \/ pc[p] = "pRename" /\ Call[p].op = "put" /\ Call[p].ver = b
         \/ pc[p] = "rBody" /\ Call[p].op = "remove" /\ b = Nil
  <2>1. Call[p] # Nil /\ Answer[p] = Nil
    BY <1>1, CallSeen, AnswerSeen
  <2>2. pc[p] = "pRename" => Call[p] = [op |-> "put", key |-> k, ver |-> op[p].ver]
    BY CallSeen DEF Storing
  <2>3. pc[p] = "rBody" => Call[p] = [op |-> "remove", key |-> k]
    BY CallSeen
  <2> QED
    BY <1>1, <2>1, <2>2, <2>3
<1>3. Others(p)
  BY OneGoroutine DEF Put, Remove
<1>4. CallOf(p)' = CallOf(p) /\ AnswerOf(p)' = AnswerOf(p)
  <2>1. pc'[p] \in {"pTimes", "rMeta"}
    BY DEF Inv, TypeOK, PutRename, RemoveBody, Goto
  <2> QED
    BY <1>1, <2>1 DEF CallOf, AnswerOf, Getting
<1>5. /\ BodyVer(disk'[k].body) = b
      /\ \A j \in Keys \ {k} : disk'[j] = disk[j]
  <2>1. CASE PutRename(p)
    <3>1. temp[p] = [ver |-> b, whole |-> TRUE] /\ b \in Vers /\ pc[p] = "pRename"
      BY <1>1, <2>1 DEF PutRename, Goto, ProcOK, TempOK
    <3>2. temp[p] \in Bodies
      BY <3>1 DEF Bodies
    <3>3. Changed(k, temp[p], Now, disk[k].meta)
      BY <1>1, <2>1, <3>2, DiskChanged DEF PutRename
    <3>4. disk'[k].body = temp[p]
      BY <3>3 DEF Changed
    <3> QED
      <4>1. \A j \in Keys \ {k} : disk'[j] = disk[j]
        BY <3>3 DEF Changed
      <4>2. BodyVer(temp[p]) = b
        BY <3>1, WholeSeen
      <4> QED
        BY <3>4, <4>1, <4>2
  <2>2. CASE RemoveBody(p)
    <3>1. Changed(k, Nil, Nil, disk[k].meta) /\ b = Nil
      BY <1>1, <2>2, DiskChanged DEF RemoveBody, Goto
    <3> QED
      BY <3>1 DEF Changed, BodyVer
  <2> QED
    BY <2>1, <2>2
<1>6. Call' = Call /\ Answer' = Answer
  BY <1>3, <1>4, Mapped DEF Call, Answer
<1>7. Stored' = [Stored EXCEPT ![k] = b]
  <2>1. \A j \in Keys : BodyVer(disk'[j].body) = IF j = k THEN b ELSE BodyVer(disk[j].body)
    BY <1>5
  <2>2. Stored' = [j \in Keys |-> BodyVer(disk'[j].body)]
    BY DEF Stored, BodyVer
  <2> QED
    BY <2>1, <2>2 DEF Stored
<1>8. \/ Call[p].op = "put" /\ Stored' = [Stored EXCEPT ![Call[p].key] = Call[p].ver]
      \/ Call[p].op = "remove" /\ Stored' = [Stored EXCEPT ![Call[p].key] = Nil]
  BY <1>2, <1>7
<1> QED
  BY <1>2, <1>6, <1>8 DEF Register!Effect, Register!Store, Call, Answer, Stored

(* The last step of a Put or Remove: what it wrote is still there.         *)
LEMMA SucceedSeen ==
  ASSUME Inv, NEW p \in Procs, PutMetaNone(p) \/ PutMetaRename(p) \/ RemoveMeta(p)
  PROVE  Register!Succeed(p)
<1> DEFINE k == op[p].key
<1>1. /\ pc[p] \in {"pMeta", "pMetaRename", "rMeta"} /\ k \in Keys /\ ProcOK(p)
      /\ disk \in [Keys -> Entries] /\ UNCHANGED <<op, got>>
      /\ pc[p] # "rMeta" => op[p].ver \in Vers /\ EffOf[op[p].ver] \in Paths \cup {Nil}
  BY EffOfType DEF Inv, TypeOK, ProcOK, OpOK, PutMetaNone, PutMetaRename, RemoveMeta, Goto,
     Storing
<1>2. /\ Call[p] # Nil /\ Answer[p] = Nil /\ Call[p].key = k
      /\ \/ pc[p] # "rMeta" /\ Call[p].op = "put" /\ Call[p].ver = op[p].ver
         \/ pc[p] = "rMeta" /\ Call[p].op = "remove"
  <2>1. Call[p] # Nil /\ Answer[p] = Nil
    BY <1>1, CallSeen, AnswerSeen
  <2>2. pc[p] # "rMeta" => Call[p] = [op |-> "put", key |-> k, ver |-> op[p].ver]
    BY <1>1, CallSeen DEF Storing
  <2>3. pc[p] = "rMeta" => Call[p] = [op |-> "remove", key |-> k]
    BY CallSeen
  <2> QED
    BY <1>1, <2>1, <2>2, <2>3
<1>3. Others(p)
  BY OneGoroutine DEF Put, Remove
<1>4. pc'[p] = "unlock" /\ out'[p] = "ok"
  BY DEF Inv, TypeOK, PutMetaNone, PutMetaRename, RemoveMeta, Goto, Complete, Verdict
<1>5. CallOf(p)' = CallOf(p) /\ AnswerOf(p)' = Register!Plain("ok")
  BY <1>1, <1>4, NilFresh DEF CallOf, AnswerOf, Getting, Outcomes, Register!Plain
<1>6. \A j \in Keys : disk'[j].body = disk[j].body
  <2> DEFINE m == IF pc[p] = "rMeta" THEN Nil ELSE EffOf[op[p].ver]
  <2>1. Changed(k, disk[k].body, disk[k].mtime, m)
    BY <1>1, DiskChanged DEF PutMetaNone, PutMetaRename, RemoveMeta, Goto
  <2> QED
    BY <2>1 DEF Changed
<1>7. Stored[k] = IF Call[p].op = "put" THEN Call[p].ver ELSE Nil
  <2>1. CASE pc[p] # "rMeta"
    <3>1. disk[k].body = [ver |-> op[p].ver, whole |-> TRUE]
      BY <1>1, <2>1 DEF ProcOK, WrittenOK
    <3> QED
      BY <1>1, <1>2, <2>1, <3>1, StoredSeen
  <2>2. CASE pc[p] = "rMeta"
    <3>1. disk[k].body = Nil
      BY <1>1, <2>2 DEF ProcOK, WrittenOK
    <3> QED
      BY <1>1, <1>2, <2>2, <3>1, StoredSeen
  <2> QED
    BY <2>1, <2>2
<1>8. /\ Call' = Call /\ Stored' = Stored
      /\ Answer' = [Answer EXCEPT ![p] = Register!Plain("ok")]
  BY <1>3, <1>5, <1>6, Mapped DEF Call, Stored, BodyVer
<1>9. Call[p].op # "get" /\ Stored[Call[p].key] = IF Call[p].op = "put" THEN Call[p].ver ELSE Nil
  BY <1>2, <1>7
<1> QED
  BY <1>2, <1>8, <1>9 DEF Register!Succeed, Register!Decide, Call, Answer, Stored

LEMMA FailSeen ==
  ASSUME Inv, NEW p \in Procs, GetFail(p) \/ PutAbort(p) \/ PutBreak(p) \/ RemoveFail(p)
  PROVE  Register!Fail(p)
<1>1. /\ pc[p] \in Getting \cup Intact \cup Broken
      /\ out'[p] = "error" /\ UNCHANGED <<op, got, disk>>
      /\ pc'[p] = IF pc[p] \in Getting THEN "gDone" ELSE "unlock"
  BY DEF Inv, TypeOK, GetFail, PutAbort, PutBreak, RemoveFail, Verdict, files, Getting,
     Intact, Broken
<1>2. Others(p)
  BY OneGoroutine DEF Get, Put, Remove
<1>3. Call[p] # Nil /\ (Answer[p] = Nil \/ Answer[p].verdict = "body")
  BY <1>1, CallSeen, AnswerSeen DEF Getting, Intact, Broken
<1>4. CallOf(p)' = CallOf(p) /\ AnswerOf(p)' = Register!Plain("error")
  BY <1>1, NilFresh DEF CallOf, AnswerOf, Getting, Intact, Broken, Outcomes, Register!Plain
<1>5. /\ Call' = Call /\ Stored' = Stored
      /\ Answer' = [Answer EXCEPT ![p] = Register!Plain("error")]
  BY <1>1, <1>2, <1>4, Mapped DEF Call, Stored
<1> QED
  BY <1>3, <1>5 DEF Register!Fail, Call, Answer, Stored

LEMMA ReturnSeen ==
  ASSUME Inv, NEW p \in Procs, GetEnd(p) \/ Unlock(p)
  PROVE  Register!Return(p)
<1>1. /\ pc[p] \in {"gDone", "unlock"} /\ pc'[p] = "idle" /\ out'[p] = Nil
      /\ UNCHANGED disk
  BY DEF Inv, TypeOK, GetEnd, Unlock, Goto, Reset, files
<1>2. Others(p)
  BY OneGoroutine DEF Get
<1>3. CallOf(p)' = Nil /\ AnswerOf(p)' = Nil
  BY <1>1, NilFresh DEF CallOf, AnswerOf, Outcomes
<1>4. Answer[p] # Nil
  BY <1>1, AnswerSeen
<1>5. /\ Call' = [Call EXCEPT ![p] = Nil] /\ Stored' = Stored
      /\ Answer' = [Answer EXCEPT ![p] = Nil]
  BY <1>1, <1>2, <1>3, Mapped DEF Stored
<1> QED
  BY <1>4, <1>5 DEF Register!Return, Call, Answer, Stored

(* The other system calls are invisible.                                   *)
LEMMA RestUnseen ==
  ASSUME Inv, NEW p \in Procs,
         \/ GetStat(p) /\ ~Miss(p)
         \/ GetMeta(p) \/ Lock(p)
         \/ PutTemp(p) \/ PutCopy(p) \/ PutTimes(p) \/ PutMetaTemp(p)
  PROVE  UNCHANGED Register!vars
<1>0. op[p].key \in Keys /\ disk \in [Keys -> Entries] /\ OutOK(p)
      /\ op[p].ver \in Vers \cup {Nil} /\ got[p] \in Entries
  BY DEF Inv, TypeOK, ProcOK, OpOK, GetStat, GetMeta, Lock, PutTemp, PutCopy, PutTimes,
     PutMetaTemp, Goto
<1>1. Others(p)
  BY OneGoroutine DEF Get, Put
<1>2. UNCHANGED op
  BY DEF GetStat, GetMeta, Lock, Inside, PutTemp, PutCopy, PutTimes, PutMetaTemp
<1>3. CallOf(p)' = CallOf(p)
  <2>1. \/ pc[p] \in Getting /\ pc'[p] \in {"gOpen", "gDone"}
        \/ pc[p] \in {"pLock", "rLock", "pTemp", "pCopy", "pTimes", "pMeta"}
             /\ pc'[p] \in {"pTemp", "rBody", "pCopy", "pRename", "pMeta", "pMetaRename"}
    BY DEF Inv, TypeOK, GetStat, GetMeta, Lock, Inside, PutTemp, PutCopy, PutTimes,
       PutMetaTemp, Goto, Getting
  <2> QED
    BY <1>2, <2>1 DEF CallOf, Getting
<1>4. AnswerOf(p)' = AnswerOf(p)
  <2>1. CASE GetMeta(p)
    <3>1. pc[p] = "gMeta" /\ out'[p] = "hit" /\ got'[p].body = got[p].body
      BY <1>0, <2>1 DEF Inv, TypeOK, GetMeta, Goto, Verdict, Entries
    <3> QED
      BY <3>1 DEF AnswerOf, BodyVer
  <2>2. CASE ~GetMeta(p)
    <3>1. pc[p] # "gMeta" /\ pc'[p] # "gMeta" /\ out[p] = Nil /\ out'[p] = Nil
      BY <1>0, <2>2 DEF Inv, TypeOK, GetStat, Lock, Inside, PutTemp, PutCopy, PutTimes,
         PutMetaTemp, Goto, OutOK
    <3> QED
      BY <3>1, NilFresh DEF AnswerOf, Outcomes
  <2> QED
    BY <2>1, <2>2
<1>5. Stored' = Stored
  <2>1. CASE PutTimes(p)
    <3>1. op[p].ver \in Vers
      BY <2>1 DEF PutTimes, Goto, Inv, ProcOK, OpOK, Storing
    <3>2. Changed(op[p].key, disk[op[p].key].body, op[p].ver, disk[op[p].key].meta)
      BY <1>0, <2>1, <3>1, DiskChanged DEF PutTimes
    <3>3. \A j \in Keys : disk'[j].body = disk[j].body
      BY <1>0, <3>2 DEF Changed
    <3> QED
      BY <3>3 DEF Stored, BodyVer
  <2>2. CASE ~PutTimes(p)
    BY <2>2 DEF Stored, GetStat, GetMeta, Lock, Inside, PutTemp, PutCopy, PutMetaTemp, files
  <2> QED
    BY <2>1, <2>2
<1> QED
  BY <1>1, <1>3, <1>4, <1>5, Unseen

LEMMA CrashSeen ==
  ASSUME Inv, Crash
  PROVE  Register!Crash
<1>1. \A p \in Procs : CallOf(p)' = Nil /\ AnswerOf(p)' = Nil
  BY NilFresh DEF Crash, CallOf, AnswerOf, Outcomes
<1>2. /\ Call' = [p \in Procs |-> Nil] /\ Answer' = [p \in Procs |-> Nil]
      /\ Stored' = Stored
  BY <1>1 DEF Crash, Call, Answer, Stored
<1> QED
  BY <1>2 DEF Register!Crash, Call, Answer, Stored

-----------------------------------------------------------------------------
(* Concurrent Gets, Puts and Removes, with failures and crashes, behave as *)
(* operations of an atomic register: no call sees a partial body, and a    *)
(* body appears and goes at one moment (cache.Store).                      *)
THEOREM StoreImplementsRegister == Spec => ImplementsRegister
<1>1. Init => Register!Init
  <2> SUFFICES ASSUME Init PROVE Register!Init
    OBVIOUS
  <2>1. Stored = [k \in Keys |-> Nil]
    BY DEF Init, Stored, BodyVer, NoEntry
  <2>2. Call = [p \in Procs |-> Nil] /\ Answer = [p \in Procs |-> Nil]
    BY NilFresh DEF Init, Call, Answer, CallOf, AnswerOf, Outcomes
  <2> QED
    BY <2>1, <2>2 DEF Register!Init, Call, Answer, Stored
<1>2. Inv /\ [Next]_vars => [Register!Next]_(Register!vars)
  <2> SUFFICES ASSUME Inv, [Next]_vars PROVE [Register!Next]_(Register!vars)
    OBVIOUS
  <2>1. ASSUME NEW p \in Procs, Get(p) PROVE [Register!Next]_(Register!vars)
    BY <2>1, BeginSeen, ObserveSeen, FailSeen, ReturnSeen, RestUnseen
       DEF Get, Register!Next
  <2>2. ASSUME NEW p \in Procs, Put(p) PROVE [Register!Next]_(Register!vars)
    BY <2>2, BeginSeen, EffectSeen, SucceedSeen, FailSeen, RestUnseen
       DEF Put, Register!Next
  <2>3. ASSUME NEW p \in Procs, Remove(p) PROVE [Register!Next]_(Register!vars)
    BY <2>3, BeginSeen, EffectSeen, SucceedSeen, FailSeen DEF Remove, Register!Next
  <2>4. ASSUME NEW p \in Procs, Lock(p) \/ Unlock(p) PROVE [Register!Next]_(Register!vars)
    BY <2>4, ReturnSeen, RestUnseen DEF Register!Next
  <2>5. CASE Crash
    BY <2>5, CrashSeen DEF Register!Next
  <2>6. CASE UNCHANGED vars
    BY <2>6 DEF vars, files, history, Register!vars, CallOf, AnswerOf, BodyVer
  <2> QED
    BY <2>1, <2>2, <2>3, <2>4, <2>5, <2>6 DEF Next
<1> QED
  BY Invariance, <1>1, <1>2, PTL DEF Spec, ImplementsRegister, Register!Spec
=============================================================================
