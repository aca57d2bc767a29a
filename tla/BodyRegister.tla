--------------------------- MODULE BodyRegister ---------------------------
(***************************************************************************)
(* What cache.Store promises about bodies (internal/cache/store.go): per   *)
(* key a register of whole bodies.  Every call takes effect at one moment  *)
(* between its start and its return; a Put or Remove that fails may or may *)
(* not have taken effect; a crash of the process loses the calls under way *)
(* and no stored body.                                                     *)
(***************************************************************************)
CONSTANTS Procs, Keys, Vers, Nil

VARIABLES stored,  \* stored[k]: the body of k, or Nil
          call,    \* call[p]: the operation under way, or Nil
          answer   \* answer[p]: Nil while undecided, what the call returns

vars == <<stored, call, answer>>

Calls == [op : {"get"}, key : Keys]
           \cup [op : {"put"}, key : Keys, ver : Vers]
           \cup [op : {"remove"}, key : Keys]
Answers == [verdict : {"body", "miss", "ok", "error"}, body : Vers \cup {Nil}]
Plain(v) == [verdict |-> v, body |-> Nil]

Init == /\ stored = [k \in Keys |-> Nil]
        /\ call = [p \in Procs |-> Nil]
        /\ answer = [p \in Procs |-> Nil]

Begin(p, c) == /\ call[p] = Nil
               /\ call' = [call EXCEPT ![p] = c]
               /\ UNCHANGED <<stored, answer>>

Decide(p, a) == /\ call[p] # Nil
                /\ answer[p] = Nil
                /\ answer' = [answer EXCEPT ![p] = a]
                /\ UNCHANGED call

Observe(p) == /\ call[p] # Nil
              /\ call[p].op = "get"
              /\ LET v == stored[call[p].key]
                 IN  Decide(p, IF v = Nil THEN Plain("miss")
                                     ELSE [verdict |-> "body", body |-> v])
              /\ UNCHANGED stored

Store(p, v) == stored' = [stored EXCEPT ![call[p].key] = v]

(* The effect and the verdict are separate: after the effect the call may  *)
(* still fail, and a Remove may find nothing to remove.                    *)
Effect(p) == /\ call[p] # Nil
             /\ answer[p] = Nil
             /\ \/ call[p].op = "put" /\ Store(p, call[p].ver)
                \/ call[p].op = "remove" /\ Store(p, Nil)
             /\ UNCHANGED <<call, answer>>

Succeed(p) == /\ call[p] # Nil
              /\ call[p].op # "get"
              /\ stored[call[p].key] =
                   IF call[p].op = "put" THEN call[p].ver ELSE Nil
              /\ Decide(p, Plain("ok"))
              /\ UNCHANGED stored

(* A Get may fail after it has seen the body.                              *)
Fail(p) == /\ call[p] # Nil
           /\ answer[p] = Nil \/ answer[p].verdict = "body"
           /\ answer' = [answer EXCEPT ![p] = Plain("error")]
           /\ UNCHANGED <<stored, call>>

Return(p) == /\ answer[p] # Nil
             /\ answer' = [answer EXCEPT ![p] = Nil]
             /\ call' = [call EXCEPT ![p] = Nil]
             /\ UNCHANGED stored

Crash == /\ call' = [p \in Procs |-> Nil]
         /\ answer' = [p \in Procs |-> Nil]
         /\ UNCHANGED stored

Next == \/ \E p \in Procs :
             \/ \E c \in Calls : Begin(p, c)
             \/ Observe(p) \/ Effect(p) \/ Succeed(p) \/ Fail(p) \/ Return(p)
        \/ Crash

Spec == Init /\ [][Next]_vars
=============================================================================
