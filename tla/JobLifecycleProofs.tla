-------------------------- MODULE JobLifecycleProofs ---------------------------
(***************************************************************************)
(* What a client concludes from JobLifecycle, for any set of jobs.  The     *)
(* pipeline implements JobLifecycle (ExecutionLifecycleProofs), so the same *)
(* holds of what processJob writes while the worker stays up.               *)
(***************************************************************************)
EXTENDS JobLifecycle, TLAPS

\* An answer comes with its text, before the status says that the job is finished.
Explained == \A j \in Jobs : answer[j] # "null" => Explains(reason[j], answer[j])

Inv == TypeOK /\ VerdictIsAnswer /\ Explained

LEMMA InvInit == Init => Inv
  BY DEF Init, Inv, TypeOK, VerdictIsAnswer, Explained, Terminal, Texts

LEMMA InvStep == Inv /\ [Next]_vars => Inv'
  <1> SUFFICES ASSUME Inv, [Next]_vars PROVE Inv'
    OBVIOUS
  <1> USE DEF Inv, TypeOK, VerdictIsAnswer, Explained, Terminal, Unfinished, Answers, Texts,
              Explains
  <1>1. CASE UNCHANGED vars
    BY <1>1 DEF vars
  <1>2. ASSUME NEW j \in Jobs, Submit(j) PROVE Inv'
    BY <1>2 DEF Submit, Move
  <1>3. ASSUME NEW j \in Jobs, MakeReady(j) PROVE Inv'
    BY <1>3 DEF MakeReady, Move
  <1>4. ASSUME NEW j \in Jobs, Run(j) PROVE Inv'
    BY <1>4 DEF Run, Move
  <1>5. ASSUME NEW j \in Jobs, Answer(j) PROVE Inv'
    BY <1>5 DEF Answer
  <1>6. ASSUME NEW j \in Jobs, Succeed(j) PROVE Inv'
    BY <1>6 DEF Succeed, Move
  <1>7. ASSUME NEW j \in Jobs, EndWithError(j) PROVE Inv'
    BY <1>7 DEF EndWithError, Move
  <1>8. ASSUME NEW j \in Jobs, GiveUp(j) PROVE Inv'
    BY <1>8 DEF GiveUp, Move
  <1>9. ASSUME NEW j \in Jobs, Correct(j) PROVE Inv'
    BY <1>9 DEF Correct
  <1>. QED
    BY <1>1, <1>2, <1>3, <1>4, <1>5, <1>6, <1>7, <1>8, <1>9 DEF Next

(* A finished job has the answer its status stands for: no answer is missing, its
   text is that of this answer, and only a program that exited with 0 is a
   success (processJob updates the row before it writes the status). *)
THEOREM VerdictHasAnswer == Spec => []VerdictIsAnswer
  <1>1. Inv => VerdictIsAnswer
    BY DEF Inv
  <1>. QED
    BY <1>1, InvInit, InvStep, PTL DEF Spec

LEMMA FinishedStep ==
  ASSUME Inv, [Next]_vars, NEW j \in Jobs, phase[j] \in Terminal
  PROVE  /\ phase'[j] \in Terminal
         /\ answer'[j] = answer[j]
         /\ reason'[j] = reason[j] \/ (reason[j] = "timeout" /\ reason'[j] = "fault")
         /\ (phase'[j] = "FINISHED_WITH_SUCCESS") <=> (phase[j] = "FINISHED_WITH_SUCCESS")
  <1> USE DEF Inv, TypeOK, VerdictIsAnswer, Terminal, Unfinished, Answers
  <1>1. CASE UNCHANGED vars
    BY <1>1 DEF vars
  <1>2. ASSUME NEW k \in Jobs, Submit(k) \/ MakeReady(k) \/ Run(k) \/ Succeed(k) \/ EndWithError(k)
        PROVE  phase'[j] = phase[j] /\ answer' = answer /\ reason' = reason
    BY <1>2 DEF Submit, MakeReady, Run, Succeed, EndWithError, Move
  <1>3. ASSUME NEW k \in Jobs, Answer(k) 
        PROVE  phase' = phase /\ answer'[j] = answer[j] /\ reason'[j] = reason[j]
    BY <1>3 DEF Answer
  <1>4. ASSUME NEW k \in Jobs, GiveUp(k), k # j
        PROVE  phase'[j] = phase[j] /\ answer' = answer /\ reason' = reason
    BY <1>4 DEF GiveUp, Move
  <1>5. ASSUME GiveUp(j)
        PROVE  /\ answer' = answer /\ reason' = reason
               /\ phase[j] = "FINISHED_WITH_ERROR"
               /\ phase'[j] = "FAILED"
    BY <1>5 DEF GiveUp, Move
  <1>6. ASSUME NEW k \in Jobs, Correct(k)
        PROVE  /\ phase' = phase /\ answer' = answer
               /\ reason'[j] = reason[j] \/ (reason[j] = "timeout" /\ reason'[j] = "fault")
    BY <1>6 DEF Correct
  <1>. QED
    BY <1>1, <1>2, <1>3, <1>4, <1>5, <1>6 DEF Next

(* A client that stops polling at the first terminal status has seen the
   verdict: a timed out job goes from FINISHED_WITH_ERROR to FAILED, its error text
   may be corrected from a timeout to another error, and nothing else about a
   finished job changes. *)
THEOREM VerdictIsFinal == Spec => VerdictStands
  <1>1. Inv /\ [Next]_vars =>
          [\A j \in Jobs :
             phase[j] \in Terminal =>
               /\ phase'[j] \in Terminal
               /\ answer'[j] = answer[j]
               /\ reason'[j] = reason[j] \/ (reason[j] = "timeout" /\ reason'[j] = "fault")
               /\ (phase'[j] = "FINISHED_WITH_SUCCESS") <=> (phase[j] = "FINISHED_WITH_SUCCESS")]_vars
    BY FinishedStep
  <1>. QED
    BY <1>1, InvInit, InvStep, PTL DEF Spec, VerdictStands
================================================================================
