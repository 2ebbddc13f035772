------------------------ MODULE ArchiveOldCalls_proofs -----------------------
(***************************************************************************)
(* For any number of calls, any batch sizes and any number of faults:      *)
(* mor_archive_old_calls loses no row, archives no detail before its call, *)
(* and implements indivisible moves of old calls.                          *)
(*                                                                         *)
(* The argument: `total1' is the size of the destination when the batch is *)
(* loaded, and the batch has `records' elements; so the only way for the   *)
(* destination to grow by `records' is to hold the whole batch, whatever   *)
(* the server skipped.  The DELETEs, which start only then, name rows of   *)
(* the batch.  How a run ends is a second invariant (RunInv): a transfer   *)
(* that was not stopped leaves no old row, and a task is marked by one of  *)
(* the statements or handlers that a run goes through.                     *)
(***************************************************************************)
EXTENDS ArchiveOldCalls, FiniteSetTheorems, TLAPS

\* The rows of the batch come from the source, are old, and, for details,
\* belong to archived calls.
BatchInv ==
    pc \in {"load", "verify", "delete"} =>
        /\ batch \subseteq src[tab]
        /\ batch \subseteq old
        /\ tab = "call_details" => batch \subseteq dst["calls"]

\* What total1 and records count, and what their comparison establishes.
CountInv ==
    /\ pc \in {"select", "load", "delete"} => total1 = Cardinality(dst[tab])
    /\ pc \in {"load", "verify"} => records = Cardinality(batch)
    /\ pc = "verify" /\ CopyComplete => batch \subseteq dst[tab]
    /\ pc = "delete" => batch \subseteq dst[tab]

IInv == TypeOK /\ NoRowLost /\ DetailsFollowCall /\ BatchInv /\ CountInv

\* A set that grows by as many elements as B has, through elements of B only,
\* ends up containing B.
LEMMA GrowthIsWholeBatch ==
    ASSUME NEW D, IsFiniteSet(D), NEW B, IsFiniteSet(B), NEW T \in SUBSET B,
           Cardinality(D \cup T) - Cardinality(D) = Cardinality(B)
    PROVE  B \subseteq D \cup T
<1>1. IsFiniteSet(T) /\ Cardinality(T) <= Cardinality(B)
      /\ (Cardinality(B) = Cardinality(T) => B = T)
  BY FS_Subset
<1>2. IsFiniteSet(D \cap T)
  BY <1>1, FS_Subset, D \cap T \in SUBSET T
<1>3. /\ Cardinality(D) \in Nat /\ Cardinality(B) \in Nat
      /\ Cardinality(T) \in Nat /\ Cardinality(D \cap T) \in Nat
  BY <1>1, <1>2, FS_CardinalityType
<1>4. Cardinality(D \cup T)
        = Cardinality(D) + Cardinality(T) - Cardinality(D \cap T)
  BY <1>1, FS_Union
<1>5. Cardinality(T) = Cardinality(B)
  BY <1>1, <1>3, <1>4
<1>6. QED
  BY <1>1, <1>5

\* The tables are finite, so their sizes are numbers.
LEMMA TableSizes ==
    ASSUME NEW S \in SUBSET Ids
    PROVE  IsFiniteSet(S) /\ Cardinality(S) \in Nat
BY ConstAssumption, FS_Subset, FS_CardinalityType DEF ConstAssumption

\* It holds before the first run, when nothing is archived.
LEMMA InitIInv == Init => IInv
<1> SUFFICES ASSUME Init PROVE IInv
  OBVIOUS
<1>1. TypeOK
  BY DEF Init, TypeOK, Tables, Status, PC
<1>2. NoRowLost /\ DetailsFollowCall
  BY DEF Init, NoRowLost, DetailsFollowCall, Tables
<1>3. BatchInv /\ CountInv
  BY DEF Init, BatchInv, CountInv
<1>4. QED
  BY <1>1, <1>2, <1>3 DEF IInv

\* A fault is one of the known kinds.
LEMMA FaultsAreKnown ==
    ASSUME NEW K, faults \subseteq Kinds, Fault(K)
    PROVE  faults' \subseteq Kinds
BY ConstAssumption DEF ConstAssumption, Fault

\* Every action keeps the types.
LEMMA TypeStep == TypeOK /\ [Next]_vars => TypeOK'
<1> SUFFICES ASSUME TypeOK, [Next]_vars PROVE TypeOK'
  OBVIOUS
<1> USE DEF TypeOK, runVars
<1>0. \A K : Fault(K) => target' = target
  BY DEF Fault
<1>1. CASE Launch
  BY <1>1, ConstAssumption DEF Launch, dbVars, ConstAssumption, PC, Status, Tables
<1>2. CASE GetTask
  BY <1>2 DEF GetTask, dbVars, PC
<1>3. CASE NothingToDo
  BY <1>3, <1>0, FaultsAreKnown DEF NothingToDo, Exit, dbVars, PC, Status
<1>4. CASE LockTask
  BY <1>4 DEF LockTask, dbVars, flagVars, PC, Status
<1>5. CASE CountRows
  BY <1>5, TableSizes DEF CountRows, NextTransfer, dbVars, flagVars, PC, Tables
<1>6. CASE SelectBatch
  <2>1. CASE UNCHANGED <<batch, records>>
    BY <1>6, <2>1 DEF SelectBatch, NextTransfer, dbVars, flagVars, PC, Tables
  <2>2. CASE \E B \in SUBSET Eligible(tab) : batch' = B /\ records' = Cardinality(B)
    <3>1. PICK B \in SUBSET Eligible(tab) : batch' = B /\ records' = Cardinality(B)
      BY <2>2
    <3>2. B \in SUBSET Ids
      BY <3>1 DEF Eligible, PC, Tables
    <3>3. records' \in Nat
      BY <3>1, <3>2, TableSizes
    <3>4. QED
      BY <1>6, <3>1, <3>2, <3>3 DEF SelectBatch, NextTransfer, dbVars, flagVars, PC, Tables
  <2>3. QED
    BY <1>6, <2>1, <2>2 DEF SelectBatch, PC, Tables
<1>7. CASE LoadBatch
  BY <1>7 DEF LoadBatch, flagVars, PC, Tables
<1>8. CASE VerifyCount
  BY <1>8, TableSizes DEF VerifyCount, Exit, dbVars, flagVars, PC, Status, Tables
<1>9. CASE DeleteRows
  BY <1>9 DEF DeleteRows, flagVars, PC, Tables
<1>10. CASE EndTransfers \/ TestFinished \/ TestStopped
  BY <1>10 DEF EndTransfers, TestFinished, TestStopped, dbVars, flagVars, PC
<1>11. CASE FinishTask
  BY <1>11 DEF FinishTask, dbVars, flagVars, PC, Status
<1>12. CASE UnlockTask
  BY <1>12 DEF UnlockTask, dbVars, flagVars, PC, Status
<1>13. CASE GrowOld
  BY <1>13 DEF GrowOld, flagVars
<1>14. CASE TimeLimit
  BY <1>14, <1>0, FaultsAreKnown DEF TimeLimit, dbVars, PC
<1>15. CASE Signal \/ SignalRefused
  BY <1>15, <1>0, FaultsAreKnown DEF Signal, SignalRefused, Exit, dbVars, PC, Status
<1>16. CASE SqlError
  BY <1>16, <1>0, FaultsAreKnown DEF SqlError, Exit, dbVars, PC, Status
<1>17. CASE Crash
  BY <1>17, <1>0, FaultsAreKnown DEF Crash, dbVars, flagVars, PC
<1>18. CASE LoadSkips
  BY <1>18, <1>0, FaultsAreKnown DEF LoadSkips, flagVars, PC, Tables
<1>19. CASE UNCHANGED vars
  BY <1>19 DEF vars, dbVars, flagVars
<1>20. QED
  BY <1>1, <1>2, <1>3, <1>4, <1>5, <1>6, <1>7, <1>8, <1>9, <1>10, <1>11, <1>12,
     <1>13, <1>14, <1>15, <1>16, <1>17, <1>18, <1>19
     DEF Next, Program, Environment, Disturbance

\* The actions that touch no table, read no batch and start no round.
LEMMA OtherSteps ==
    ASSUME IInv,
           \/ Launch \/ GetTask \/ NothingToDo \/ LockTask \/ EndTransfers
           \/ TestFinished \/ TestStopped \/ FinishTask \/ UnlockTask \/ Signal
           \/ SignalRefused \/ SqlError \/ Crash \/ TimeLimit \/ UNCHANGED vars
    PROVE  (NoRowLost /\ DetailsFollowCall /\ BatchInv /\ CountInv)'
<1> USE DEF IInv, NoRowLost, DetailsFollowCall, BatchInv, CountInv, CopyComplete,
            runVars, Fault
<1>1. CASE \/ Launch \/ GetTask \/ LockTask \/ EndTransfers \/ TestFinished
           \/ TestStopped \/ FinishTask \/ UnlockTask
  BY <1>1 DEF Launch, GetTask, LockTask, EndTransfers, TestFinished, TestStopped,
              FinishTask, UnlockTask, dbVars, flagVars
<1>2. CASE NothingToDo \/ SqlError \/ SignalRefused \/ Crash
  BY <1>2 DEF NothingToDo, SqlError, SignalRefused, Crash, Exit, dbVars, flagVars
<1>3. CASE TimeLimit \/ Signal \/ UNCHANGED vars
  BY <1>3 DEF TimeLimit, Signal, Fault, vars, dbVars, flagVars
<1>4. QED
  BY <1>1, <1>2, <1>3

\* The round that copies a batch: the copy is whole before anything is deleted.
LEMMA RoundSteps ==
    ASSUME IInv,
           \/ GrowOld \/ CountRows \/ SelectBatch \/ LoadBatch \/ LoadSkips
           \/ VerifyCount \/ DeleteRows
    PROVE  (NoRowLost /\ DetailsFollowCall /\ BatchInv /\ CountInv)'
<1> USE DEF IInv, NoRowLost, DetailsFollowCall, BatchInv, CountInv
<1>1. CASE GrowOld
  BY <1>1 DEF GrowOld, flagVars, CopyComplete
<1>2. CASE CountRows
  BY <1>2 DEF CountRows, NextTransfer, dbVars, flagVars
<1>3. CASE SelectBatch
  BY <1>3 DEF SelectBatch, NextTransfer, Eligible, dbVars, flagVars
<1>4. CASE LoadBatch \/ LoadSkips
  <2>1. PICK taken \in SUBSET batch :
              dst' = [dst EXCEPT ![tab] = dst[tab] \cup taken]
    BY <1>4 DEF LoadBatch, LoadSkips
  <2>2. /\ pc = "load" /\ pc' = "verify"
        /\ UNCHANGED <<src, old, tab, batch, records, total1>>
    BY <1>4 DEF LoadBatch, LoadSkips
  <2>3. tab \in Tables /\ dst \in [Tables -> SUBSET Ids] /\ batch \in SUBSET Ids
    BY DEF TypeOK
  <2>4. dst'[tab] = dst[tab] \cup taken /\ \A t \in Tables : dst[t] \subseteq dst'[t]
    BY <2>1, <2>3
  <2>5. NoRowLost'
    BY <2>2, <2>3, <2>4, <2>1 DEF TypeOK
  <2>6. DetailsFollowCall'
    BY <2>1, <2>2, <2>3, <2>4 DEF Tables
  <2>7. BatchInv'
    BY <2>2, <2>4 DEF Tables
  <2>8. CopyComplete' => batch' \subseteq dst'[tab']
    <3>1. ASSUME CopyComplete' PROVE batch \subseteq dst[tab] \cup taken
      <4>1. Cardinality(dst[tab] \cup taken) - Cardinality(dst[tab])
              = Cardinality(batch)
        BY <3>1, <2>2, <2>4 DEF CopyComplete
      <4>2. IsFiniteSet(dst[tab]) /\ IsFiniteSet(batch)
        BY <2>3, TableSizes
      <4>3. QED
        BY <4>1, <4>2, GrowthIsWholeBatch
    <3>2. QED
      BY <3>1, <2>2, <2>4
  <2>9. CountInv'
    BY <2>2, <2>8
  <2>10. QED
    BY <2>5, <2>6, <2>7, <2>9
<1>5. CASE VerifyCount
  BY <1>5 DEF VerifyCount, Exit, dbVars, flagVars
<1>6. CASE DeleteRows
  <2>1. PICK D \in SUBSET batch :
              /\ src' = [src EXCEPT ![tab] = src[tab] \ D]
              /\ batch' = batch \ D
              /\ pc' = IF batch = D THEN "select" ELSE "delete"
    BY <1>6 DEF DeleteRows
  <2>2. pc = "delete" /\ UNCHANGED <<dst, old, tab, records, total1>>
    BY <1>6 DEF DeleteRows
  <2>3. tab \in Tables /\ src \in [Tables -> SUBSET Ids]
    BY DEF TypeOK
  <2>4. D \subseteq dst[tab]
    BY <2>1, <2>2
  <2>5. NoRowLost'
    BY <2>1, <2>2, <2>3, <2>4
  <2>6. DetailsFollowCall' /\ BatchInv'
    BY <2>1, <2>2, <2>3
  <2>7. CountInv'
    BY <2>1, <2>2
  <2>8. QED
    BY <2>5, <2>6, <2>7
<1>7. QED
  BY <1>1, <1>2, <1>3, <1>4, <1>5, <1>6

\* Every step keeps the inductive invariant.
LEMMA StepIInv == IInv /\ [Next]_vars => IInv'
BY TypeStep, OtherSteps, RoundSteps DEF IInv, Next, Program, Environment, Disturbance

\* The inductive invariant holds in every state the program can reach.
THEOREM Invariance == Spec => []IInv
BY InitIInv, StepIInv, PTL DEF Spec

\* The variables keep their types.
THEOREM TypeCorrect == Spec => []TypeOK
<1>1. IInv => TypeOK
  BY DEF IInv
<1>2. QED
  BY <1>1, Invariance, PTL

\* No fault, skipped row or kill loses a row of calls or call_details.
THEOREM NoRowIsLost == Spec => []NoRowLost
<1>1. IInv => NoRowLost
  BY DEF IInv
<1>2. QED
  BY <1>1, Invariance, PTL

\* No archived detail is without its archived call.
THEOREM DetailsAreNoOrphans == Spec => []DetailsFollowCall
<1>1. IInv => DetailsFollowCall
  BY DEF IInv
<1>2. QED
  BY <1>1, Invariance, PTL

\* Where depends on the row sets only, and a copy does not move a row: its
\* source is still read first.
LEMMA CopyIsInvisible ==
    ASSUME IInv, src' = src,
           \A t \in Tables : dst[t] \subseteq dst'[t]
    PROVE  Where' = Where
<1>1. ASSUME NEW c \in Ids, c \notin src["calls"]
      PROVE  c \in dst["calls"] /\ c \in dst'["calls"]
  BY <1>1 DEF IInv, NoRowLost, Tables
<1>2. QED
  BY <1>1 DEF Where

\* A DELETE from calls is a Move of the rows it names; one from call_details
\* is invisible.
LEMMA DeleteIsMove == IInv /\ DeleteRows => [Archive!Next]_(Archive!vars)
<1> SUFFICES ASSUME IInv, DeleteRows PROVE [Archive!Next]_(Archive!vars)
  OBVIOUS
<1> USE DEF IInv
<1>1. PICK D \in SUBSET batch : src' = [src EXCEPT ![tab] = src[tab] \ D]
  BY DEF DeleteRows
<1>2. pc = "delete" /\ UNCHANGED <<dst, old>>
  BY DEF DeleteRows
<1>3. tab \in Tables /\ src \in [Tables -> SUBSET Ids] /\ batch \in SUBSET Ids
  BY DEF TypeOK
<1>4. D \subseteq src[tab] /\ D \subseteq dst[tab] /\ D \subseteq old
  BY <1>2 DEF BatchInv, CountInv
<1>5. CASE tab = "calls"
  <2>1. D \in SUBSET {c \in old : Where[c] = "live"}
    BY <1>3, <1>4, <1>5 DEF Where
  <2>2. Where' = [c \in Ids |-> IF c \in D THEN "archived" ELSE Where[c]]
    <3>1. src'["calls"] = src["calls"] \ D /\ dst'["calls"] = dst["calls"]
      BY <1>1, <1>2, <1>3, <1>5
    <3>2. QED
      BY <3>1, <1>4, <1>5 DEF Where
  <2>3. QED
    BY <2>1, <2>2, <1>2 DEF Archive!Next, Archive!Move
<1>6. CASE tab = "call_details"
  <2>1. Where' = Where
    BY <1>1, <1>2, <1>3, <1>6 DEF Where, Tables
  <2>2. QED
    BY <2>1, <1>2 DEF Archive!vars
<1>7. QED
  BY <1>3, <1>5, <1>6 DEF Tables

\* Every step is a move of old calls, a day that passes, or a stutter.
LEMMA StepRefines == IInv /\ [Next]_vars => [Archive!Next]_(Archive!vars)
<1> SUFFICES ASSUME IInv, [Next]_vars PROVE [Archive!Next]_(Archive!vars)
  OBVIOUS
<1>1. CASE DeleteRows
  BY <1>1, DeleteIsMove
<1>2. CASE GrowOld
  <2>1. Where' = Where
    BY <1>2 DEF GrowOld, Where
  <2>2. QED
    BY <1>2, <2>1 DEF GrowOld, Archive!Next, Archive!GrowOld
<1>3. CASE LoadBatch \/ LoadSkips
  <2>1. UNCHANGED <<src, old>>
    BY <1>3 DEF LoadBatch, LoadSkips
  <2>2. \A t \in Tables : dst[t] \subseteq dst'[t]
    BY <1>3 DEF LoadBatch, LoadSkips, IInv, TypeOK
  <2>3. QED
    BY <2>1, <2>2, CopyIsInvisible DEF Archive!vars
<1>4. CASE UNCHANGED dbVars
  <2>1. Where' = Where /\ old' = old
    BY <1>4 DEF dbVars, Where
  <2>2. QED
    BY <2>1 DEF Archive!vars
<1>5. DeleteRows \/ GrowOld \/ LoadBatch \/ LoadSkips \/ UNCHANGED dbVars
  BY DEF Next, Program, Environment, Disturbance, vars, Launch, GetTask, NothingToDo,
         LockTask, CountRows, SelectBatch, VerifyCount, EndTransfers, TestFinished,
         TestStopped, FinishTask, UnlockTask, TimeLimit, Signal, SignalRefused, SqlError,
         Crash
<1>6. QED
  BY <1>1, <1>2, <1>3, <1>4, <1>5

\* Seen through calls first and calls_old second, the program moves old calls
\* one indivisible step at a time, and loses none.
THEOREM Refinement == Spec => ImplementsCallArchive
<1>1. Init => Archive!Init
  BY DEF Init, Archive!Init, Where, Tables
<1>2. QED
  BY <1>1, StepRefines, Invariance, PTL
     DEF Spec, ImplementsCallArchive, Archive!Spec

-----------------------------------------------------------------------------
(***************************************************************************)
(* How a run ends.  A transfer that was not stopped ends when there is     *)
(* nothing left to select; what has been archived is old, so nothing left  *)
(* to select means nothing left in both tables.  The flags say why it was  *)
(* stopped: only a time limit leaves `finished', and whatever else ends a  *)
(* transfer has marked the task, or came too early or too late to do so.   *)
(***************************************************************************)
Cleared(t) == src[t] \cap dst[t] = {} /\ target \subseteq dst[t] \ src[t]

\* Calls are archived, and asked for, at an age they do not lose.
AgeInv == dst["calls"] \subseteq old /\ target \subseteq old

\* What a transfer that was not stopped leaves behind.
ClearedInv ==
    /\ pc \in {"get", "config"} => tab = "calls"
    /\ ~forced_stop /\ tab = "call_details" /\ pc \in Transferring => Cleared("calls")
    /\ ~forced_stop /\ pc \in {"end", "test"} => Cleared("calls") /\ Cleared("call_details")
    /\ pc = "finish" => \A t \in Tables : Cleared(t)
    /\ pc = "unlock" /\ "limit" \notin faults => \A t \in Tables : target \subseteq dst[t] \ src[t]

\* What the flags say of the task.
FlagInv ==
    /\ marked <=> ~finished
    /\ forced_stop /\ finished => "limit" \in faults
    /\ pc \in {"get", "config"} =>
         /\ task \in {"WAITING", "FAILED"}
         /\ marked => "early" \in faults
    /\ pc \in Transferring \cup {"config", "end"} => task_failed
    /\ pc \in Transferring \cup {"end", "test", "retest"} /\ marked =>
         task = "FAILED" \/ "early" \in faults \/ "late" \in faults
    /\ pc = "retest" => forced_stop \/ ~finished

RunInv == AgeInv /\ ClearedInv /\ FlagInv /\ TaskSettled

LEMMA InitRunInv == Init => RunInv
  BY DEF Init, RunInv, AgeInv, ClearedInv, FlagInv, TaskSettled, Transferring, Tables

\* Calls age, none is archived before its time, and a run asks for the calls
\* that are old when it begins.
LEMMA AgeStep == IInv /\ AgeInv /\ [Next]_vars => AgeInv'
<1> SUFFICES ASSUME IInv, AgeInv, [Next]_vars PROVE AgeInv'
  OBVIOUS
<1> USE DEF AgeInv
<1>1. CASE LoadBatch \/ LoadSkips
  <2>1. PICK taken \in SUBSET batch : dst' = [dst EXCEPT ![tab] = dst[tab] \cup taken]
    BY <1>1 DEF LoadBatch, LoadSkips
  <2>2. batch \subseteq old
    BY <1>1 DEF IInv, BatchInv, LoadBatch, LoadSkips
  <2>3. dst'["calls"] \subseteq dst["calls"] \cup batch
    BY <2>1 DEF IInv, TypeOK, Tables
  <2> QED
    BY <1>1, <2>2, <2>3 DEF LoadBatch, LoadSkips, runVars, Fault
<1>2. CASE GrowOld
  BY <1>2 DEF GrowOld, runVars
<1>3. CASE Launch
  BY <1>3 DEF Launch, dbVars
<1>4. CASE DeleteRows
  BY <1>4 DEF DeleteRows, runVars
<1>5. CASE UNCHANGED dbVars /\ UNCHANGED target
  BY <1>5 DEF dbVars
<1>6. \/ LoadBatch \/ LoadSkips \/ GrowOld \/ Launch \/ DeleteRows
      \/ (UNCHANGED dbVars /\ UNCHANGED target)
  BY DEF Next, Program, Environment, Disturbance, vars, GetTask, NothingToDo, LockTask,
         CountRows, SelectBatch, VerifyCount, EndTransfers, TestFinished, TestStopped,
         FinishTask, UnlockTask, TimeLimit, Signal, SignalRefused, SqlError, Crash, Fault,
         runVars
<1> QED
  BY <1>1, <1>2, <1>3, <1>4, <1>5, <1>6

\* When nothing is left to select, nothing is in both tables, and all that the run
\* was to move is in the destination.
LEMMA NothingLeft ==
    ASSUME IInv, AgeInv, Eligible(tab) = {},
           tab = "call_details" => Cleared("calls")
    PROVE  Cleared(tab)
<1>1. tab \in Tables /\ NoRowLost /\ DetailsFollowCall /\ target \in SUBSET Ids
  BY DEF IInv, TypeOK
<1>2. CASE tab = "calls"
  BY <1>1, <1>2 DEF Eligible, Cleared, AgeInv, NoRowLost, Tables
<1>3. CASE tab = "call_details"
  BY <1>1, <1>3 DEF Eligible, Cleared, AgeInv, NoRowLost, DetailsFollowCall, Tables
<1> QED
  BY <1>1, <1>2, <1>3 DEF Tables

\* A transfer ends: it was stopped, or there was nothing left to select.
LEMMA TransferEnds ==
    ASSUME IInv, AgeInv, ClearedInv, pc \in Transferring, NextTransfer,
           forced_stop \/ Eligible(tab) = {},
           UNCHANGED <<src, dst, forced_stop, target>>
    PROVE  ClearedInv'
<1>1. CASE forced_stop
  BY <1>1 DEF ClearedInv, NextTransfer, Transferring
<1>2. CASE ~forced_stop
  <2>1. tab = "call_details" => Cleared("calls")
    BY <1>2 DEF ClearedInv
  <2>2. Cleared(tab)
    BY <1>2, <2>1, NothingLeft
  <2>3. tab \in Tables
    BY DEF IInv, TypeOK
  <2>4. \A t \in Tables : Cleared(t) => Cleared(t)'
    BY DEF Cleared
  <2>5. CASE tab = "calls"
    BY <2>2, <2>4, <2>5 DEF ClearedInv, NextTransfer, Tables
  <2>6. CASE tab = "call_details"
    BY <2>1, <2>2, <2>4, <2>6 DEF ClearedInv, NextTransfer, Tables
  <2> QED
    BY <2>3, <2>5, <2>6 DEF Tables
<1> QED
  BY <1>1, <1>2

\* A round changes only the tables it works on.
LEMMA RoundIsLocal ==
    ASSUME IInv, ClearedInv, LoadBatch \/ LoadSkips \/ DeleteRows
    PROVE  ClearedInv'
<1>1. /\ pc \in Transferring /\ pc' \in Transferring
      /\ UNCHANGED <<tab, forced_stop, target>>
  BY DEF LoadBatch, LoadSkips, DeleteRows, Transferring, flagVars, runVars, Fault
<1>2. tab # "calls" => src'["calls"] = src["calls"] /\ dst'["calls"] = dst["calls"]
  BY DEF LoadBatch, LoadSkips, DeleteRows, IInv, TypeOK, Tables
<1> QED
  BY <1>1, <1>2 DEF ClearedInv, Cleared, Transferring

LEMMA ClearedStep == IInv /\ AgeInv /\ FlagInv /\ ClearedInv /\ [Next]_vars => ClearedInv'
<1> SUFFICES ASSUME IInv, AgeInv, FlagInv, ClearedInv, [Next]_vars PROVE ClearedInv'
  OBVIOUS
<1>1. CASE LoadBatch \/ LoadSkips \/ DeleteRows
  BY <1>1, RoundIsLocal
<1>2. CASE CountRows \/ SelectBatch
  <2>1. /\ pc \in Transferring
        /\ UNCHANGED <<src, dst, forced_stop, target, faults>>
    BY <1>2 DEF CountRows, SelectBatch, Transferring, dbVars, flagVars, runVars
  <2>2. CASE NextTransfer /\ (forced_stop \/ Eligible(tab) = {})
    BY <2>1, <2>2, TransferEnds
  <2>3. CASE pc' \in Transferring /\ tab' = tab
    BY <2>1, <2>3 DEF ClearedInv, Cleared, Transferring
  <2> QED
    BY <1>2, <2>2, <2>3 DEF CountRows, SelectBatch, Transferring
<1>3. CASE EndTransfers \/ TestFinished \/ TestStopped
  BY <1>3 DEF EndTransfers, TestFinished, TestStopped, ClearedInv, Cleared, FlagInv, Tables,
       Transferring, dbVars, runVars, flagVars
<1>4. CASE Launch
  BY <1>4 DEF Launch, ClearedInv, Transferring
<1>5. CASE VerifyCount
  BY <1>5 DEF VerifyCount, Exit, ClearedInv, Cleared, Transferring, dbVars, runVars, flagVars
<1>6. CASE GetTask \/ NothingToDo \/ LockTask \/ FinishTask \/ UnlockTask
  BY <1>6 DEF GetTask, NothingToDo, LockTask, FinishTask, UnlockTask, Exit, Fault,
         ClearedInv, Cleared, Transferring, dbVars, runVars, flagVars
<1>7. CASE Signal \/ SignalRefused \/ SqlError \/ Crash \/ TimeLimit
  BY <1>7 DEF Signal, SignalRefused, SqlError, Crash, TimeLimit, Exit, Fault, ClearedInv,
       Cleared, Transferring, dbVars, runVars, flagVars
<1>8. CASE GrowOld \/ UNCHANGED vars
  BY <1>8 DEF GrowOld, vars, ClearedInv, Cleared, Transferring, dbVars, runVars, flagVars
<1> QED
  BY <1>1, <1>2, <1>3, <1>4, <1>5, <1>6, <1>7, <1>8 DEF Next, Program, Environment, Disturbance

\* Whatever ends a run has settled the task or is on record.
LEMMA FlagStep == IInv /\ FlagInv /\ TaskSettled /\ [Next]_vars => (FlagInv /\ TaskSettled)'
<1> SUFFICES ASSUME IInv, FlagInv, TaskSettled, [Next]_vars PROVE (FlagInv /\ TaskSettled)'
  OBVIOUS
<1>0. /\ forced_stop \in BOOLEAN /\ finished \in BOOLEAN /\ task_failed \in BOOLEAN
      /\ marked \in BOOLEAN /\ task \in Status
      /\ forced_stop' \in BOOLEAN /\ finished' \in BOOLEAN /\ task_failed' \in BOOLEAN
      /\ marked' \in BOOLEAN
  BY TypeStep DEF IInv, TypeOK
<1> USE <1>0 DEF FlagInv, TaskSettled, Transferring, Status
<1>1. CASE LoadBatch \/ LoadSkips \/ DeleteRows \/ CountRows \/ SelectBatch
  BY <1>1 DEF LoadBatch, LoadSkips, DeleteRows, CountRows, SelectBatch, NextTransfer, Fault,
       flagVars, runVars
<1>2. CASE EndTransfers \/ TestFinished \/ TestStopped \/ FinishTask \/ UnlockTask
  BY <1>2 DEF EndTransfers, TestFinished, TestStopped, FinishTask, UnlockTask, flagVars,
       runVars
<1>3. CASE Launch \/ GetTask \/ LockTask
  BY <1>3 DEF Launch, GetTask, LockTask, flagVars, runVars
<1>4. CASE VerifyCount \/ NothingToDo
  BY <1>4 DEF VerifyCount, NothingToDo, Exit, Fault, flagVars, runVars
<1>5. CASE TimeLimit
  BY <1>5 DEF TimeLimit, Fault, flagVars, runVars
<1>6. CASE Signal
  <2>1. /\ faults \subseteq faults' /\ SignalKind \in faults'
        /\ pc \in {"get", "config"} => "early" \in faults'
        /\ pc \in {"test", "retest"} => "late" \in faults'
    BY <1>6 DEF Signal, Fault, SignalKind
  <2>2. /\ task' = (IF task_failed /\ ~marked THEN "FAILED" ELSE task)
        /\ marked' /\ forced_stop' /\ ~finished'
        /\ pc # "off" /\ UNCHANGED <<pc, task_failed>>
    BY <1>6 DEF Signal
  <2> QED
    BY <2>1, <2>2
<1>8. CASE SignalRefused \/ SqlError \/ Crash
  <2>1. "sql" \in faults' \/ "crash" \in faults'
    BY <1>8 DEF SignalRefused, SqlError, Crash, Fault
  <2>2. pc' = "off"
    BY <1>8 DEF SignalRefused, SqlError, Crash, Exit
  <2>3. /\ faults \subseteq faults'
        /\ \/ (marked' <=> marked) /\ (forced_stop' <=> forced_stop) /\ (finished' <=> finished)
           \/ marked' /\ forced_stop' /\ ~finished'
    BY <1>8 DEF SignalRefused, SqlError, Crash, Exit, Fault, flagVars
  <2>4. marked' <=> ~finished'
    BY <2>3
  <2>5. forced_stop' /\ finished' => "limit" \in faults'
    BY <2>3
  <2> QED
    BY <2>1, <2>2, <2>4, <2>5
<1>7. CASE GrowOld \/ UNCHANGED vars
  BY <1>7 DEF GrowOld, vars, flagVars, runVars
<1> QED
  BY <1>1, <1>2, <1>3, <1>4, <1>5, <1>6, <1>7, <1>8 DEF Next, Program, Environment, Disturbance

LEMMA RunInvariance == Spec => []RunInv
<1>1. IInv /\ RunInv /\ [Next]_vars => RunInv'
  BY AgeStep, ClearedStep, FlagStep DEF RunInv
<1> QED
  BY <1>1, InitRunInv, Invariance, PTL DEF Spec

\* A run that ends on its own leaves no row in both tables.
THEOREM FinishedRunsLeaveNoDuplicate == Spec => []FinishedRunLeavesNoDuplicate
<1>1. RunInv => FinishedRunLeavesNoDuplicate
  BY DEF RunInv, ClearedInv, Cleared, FinishedRunLeavesNoDuplicate
<1> QED
  BY <1>1, RunInvariance, PTL

\* A run about to report DONE has moved all that was old when it began, unless its
\* time was up.
THEOREM DoneRunsMovedTheirTarget == Spec => []DoneRunMovedTarget
<1>1. RunInv => DoneRunMovedTarget
  BY DEF RunInv, ClearedInv, Cleared, DoneRunMovedTarget
<1> QED
  BY <1>1, RunInvariance, PTL

\* No run ends with its task IN PROGRESS unless a kill, a refused statement, a signal
\* before the task was marked or one after its failure mark was cleared is to blame.
THEOREM TasksAreSettled == Spec => []TaskSettled
<1>1. RunInv => TaskSettled
  BY DEF RunInv
<1> QED
  BY <1>1, RunInvariance, PTL
=============================================================================
