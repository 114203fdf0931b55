--------------------------- MODULE HumanStepProofs ---------------------------
(***************************************************************************)
(* For any number of steps, rounds and faults, whatever signals arrive:    *)
(* nobody is asked twice but for a fault, and a run goes on only with an   *)
(* answer that was given, to the question it waits on.                     *)
(*                                                                         *)
(* The argument: a step makes a row only while its slot is empty, so a     *)
(* slot that is not empty names the last row of its step, and every answer *)
(* taken before was to a row before that one.                              *)
(***************************************************************************)
EXTENDS HumanStep, SequenceTheorems, FiniteSetTheorems, TLAPS

(* One step at a time is between creating its row and storing its slot.     *)
OneMade == \A m, n \in Steps : at[m] = "made" /\ at[n] = "made" => m = n

(* Who answered is written with the answer, and stays.                      *)
RowSane(n, r) ==
  /\ r.state = "open" => r.by = None
  /\ r.state = "answered" => r.by # None
  /\ n \in Asks => r.by \in People \cup {None}

RowsSane == \A n \in Steps : \A k \in 1 .. Len(row[n]) : RowSane(n, row[n][k])

(* The row in question is the last of its step.                             *)
Pending(n) == slot[n] # 0 \/ at[n] = "made"

LastIsPending ==
  \A n \in Steps : /\ slot[n] # 0 => slot[n] = Len(row[n])
                   /\ at[n] = "made" => Len(row[n]) > 0 /\ slot[n] = 0

(* Answers are to earlier rows, in order.                                   *)
AnswersPast ==
  \A n \in Steps : \A i \in 1 .. Len(answer[n]) :
    /\ answer[n][i].row \in 1 .. Len(row[n])
    /\ Pending(n) => answer[n][i].row < Len(row[n])
    /\ row[n][answer[n][i].row].by # None
    /\ \A j \in 1 .. i - 1 : answer[n][j].row < answer[n][i].row

(* Every row is accounted for.                                              *)
Accounted(n, k) ==
  \/ k = slot[n] \/ (at[n] = "made" /\ k = Len(row[n]))
  \/ (\E i \in 1 .. Len(answer[n]) : answer[n][i].row = k) \/ <<n, k>> \in orphans

RowsAccounted == \A n \in Steps : \A k \in 1 .. Len(row[n]) : Accounted(n, k)

OrphansCounted == IsFiniteSet(orphans) /\ Cardinality(orphans) <= faults

(* Whom the signal and the answers name completed something.                *)
NamesSane ==
  /\ signal # None /\ signal.by # None => Completed(signal.by)
  /\ \A n \in Steps : \A i \in 1 .. Len(answer[n]) :
       answer[n][i].by # None => Completed(answer[n][i].by)

Inv == /\ TypeOK /\ OneMade /\ RowsSane /\ LastIsPending
       /\ AnswersPast /\ RowsAccounted /\ OrphansCounted /\ NamesSane
------------------------------------------------------------------------------
LEMMA InvInit == Init => Inv
<1> SUFFICES ASSUME Init PROVE Inv
  OBVIOUS
<1>1. TypeOK
  BY HumanStepAssumption DEF Init, TypeOK
<1>2. OrphansCounted
  BY FS_EmptySet DEF Init, OrphansCounted, HumanStepAssumption
<1> QED
  BY <1>1, <1>2 DEF Init, Inv, OneMade, RowsSane, LastIsPending, AnswersPast, RowsAccounted, NamesSane

(* What overwriting a row and making one do to the rows.                    *)
LEMMA RowWritten ==
  ASSUME TypeOK, NEW n \in Steps, NEW k \in DOMAIN row[n], NEW r \in Row, Write(n, k, r)
  PROVE  /\ k \in 1 .. Len(row[n])
         /\ row' \in [Steps -> Seq(Row)]
         /\ \A m \in Steps : Len(row'[m]) = Len(row[m])
         /\ \A m \in Steps : \A j \in 1 .. Len(row[m]) :
              row'[m][j] = IF m = n /\ j = k THEN r ELSE row[m][j]
<1>1. /\ row \in [Steps -> Seq(Row)] /\ row[n] \in Seq(Row) /\ k \in 1 .. Len(row[n])
      /\ row' = [row EXCEPT ![n] = [row[n] EXCEPT ![k] = r]]
  BY DEF TypeOK, Write
<1>2. /\ [row[n] EXCEPT ![k] = r] \in Seq(Row)
      /\ Len([row[n] EXCEPT ![k] = r]) = Len(row[n])
      /\ \A j \in 1 .. Len(row[n]) : [row[n] EXCEPT ![k] = r][j] = IF j = k THEN r ELSE row[n][j]
  BY <1>1, ExceptSeq
<1> QED BY <1>1, <1>2

LEMMA RowMade ==
  ASSUME TypeOK, NEW n \in Steps, NewRow(n)
  PROVE  /\ row' \in [Steps -> Seq(Row)]
         /\ \A m \in Steps : Len(row'[m]) = IF m = n THEN Len(row[m]) + 1 ELSE Len(row[m])
         /\ \A m \in Steps : \A j \in 1 .. Len(row[m]) : row'[m][j] = row[m][j]
         /\ RowSane(n, row'[n][Len(row[n]) + 1])
<1> DEFINE new == [state |-> "open", by |-> None, told |-> TRUE]
<1>1. row \in [Steps -> Seq(Row)] /\ new \in Row /\ RowSane(n, new)
  BY DEF TypeOK, Row, RowSane
<1>2. row[n] \in Seq(Row) /\ row' = [row EXCEPT ![n] = Append(row[n], new)]
  BY <1>1 DEF NewRow
<1>3. /\ Append(row[n], new) \in Seq(Row)
      /\ Len(Append(row[n], new)) = Len(row[n]) + 1
      /\ \A j \in 1 .. Len(row[n]) : Append(row[n], new)[j] = row[n][j]
      /\ Append(row[n], new)[Len(row[n]) + 1] = new
  BY <1>1, <1>2, AppendProperties
<1> QED BY <1>1, <1>2, <1>3

(* A completion stays on record, so whom it is signed by stays named.       *)
LEMMA NamesKept ==
  ASSUME Inv, UNCHANGED answer,
         \A m \in Steps : \A k \in DOMAIN row[m] :
           k \in DOMAIN row'[m] /\ (row[m][k].by # None => row'[m][k].by = row[m][k].by),
         \/ signal' \in {signal, None}
         \/ \E m \in Asks : \E k \in DOMAIN row[m] : row'[m][k].by = signal'.by
         \/ signal'.by = None
  PROVE  NamesSane'
<1>1. \A p : p # None /\ Completed(p) => \E m \in Asks : \E k \in DOMAIN row'[m] : row'[m][k].by = p
  BY DEF Completed, Steps
<1>2. signal' # None /\ signal'.by # None
        => \E m \in Asks : \E k \in DOMAIN row'[m] : row'[m][k].by = signal'.by
  BY <1>1 DEF Inv, NamesSane, Steps
<1>3. \A n \in Steps : \A i \in 1 .. Len(answer[n]) : answer[n][i].by # None
        => \E m \in Asks : \E k \in DOMAIN row'[m] : row'[m][k].by = answer[n][i].by
  BY <1>1 DEF Inv, NamesSane
<1> QED BY <1>2, <1>3 DEF NamesSane, Completed

(* People and listeners overwrite a row, and touch nothing of the steps.    *)
LEMMA WriteKeeps ==
  ASSUME Inv, NEW n \in Steps, NEW k \in DOMAIN row[n], NEW r \in Row, Write(n, k, r),
         RowSane(n, r), row[n][k].by # None => r.by = row[n][k].by,
         signal' \in {None} \cup [step : Steps, by : People \cup {None}],
         signal' = signal \/ signal'.by = None \/ (n \in Asks /\ signal'.by = r.by),
         faults' \in 0 .. MaxFaults, faults <= faults'
  PROVE  Inv'
<1>0. TypeOK
  BY DEF Inv
<1>1. /\ k \in 1 .. Len(row[n])
      /\ row' \in [Steps -> Seq(Row)]
      /\ \A m \in Steps : Len(row'[m]) = Len(row[m])
      /\ \A m \in Steps : \A j \in 1 .. Len(row[m]) :
           row'[m][j] = IF m = n /\ j = k THEN r ELSE row[m][j]
  BY <1>0, RowWritten
<1>2. UNCHANGED <<slot, at, run, identity, answer, orphans>>
  BY DEF Write
<1>3. row \in [Steps -> Seq(Row)] /\ \A m \in Steps : DOMAIN row[m] = 1 .. Len(row[m])
  BY DEF Inv, TypeOK
<1>4. \A m \in Steps : DOMAIN row'[m] = 1 .. Len(row[m])
  BY <1>1
<1>5. TypeOK'
  <2>1. \A o \in orphans' : o[1] \in Steps /\ o[2] \in DOMAIN row'[o[1]]
    BY <1>2, <1>3, <1>4 DEF Inv, TypeOK
  <2>2. \A m \in Steps : slot'[m] # 0 => slot'[m] \in DOMAIN row'[m] /\ at'[m] \in {"parked", "due"}
    BY <1>2, <1>3, <1>4 DEF Inv, TypeOK
  <2> QED BY <1>1, <1>2, <2>1, <2>2 DEF Inv, TypeOK
<1>6. RowsSane'
  BY <1>1 DEF Inv, RowsSane, RowSane
<1>7. (OneMade /\ LastIsPending)'
  BY <1>1, <1>2 DEF Inv, OneMade, LastIsPending
<1>8. AnswersPast'
  <2> SUFFICES ASSUME NEW m \in Steps, NEW i \in 1 .. Len(answer[m])
               PROVE  /\ answer[m][i].row \in 1 .. Len(row'[m])
                      /\ Pending(m) => answer[m][i].row < Len(row'[m])
                      /\ row'[m][answer[m][i].row].by # None
                      /\ \A j \in 1 .. i - 1 : answer[m][j].row < answer[m][i].row
    BY <1>2 DEF AnswersPast, Pending
  <2>1. /\ answer[m][i].row \in 1 .. Len(row[m])
        /\ Pending(m) => answer[m][i].row < Len(row[m])
        /\ row[m][answer[m][i].row].by # None
        /\ \A j \in 1 .. i - 1 : answer[m][j].row < answer[m][i].row
    BY DEF Inv, AnswersPast
  <2>2. row'[m][answer[m][i].row].by # None
    BY <1>1, <2>1
  <2> QED BY <1>1, <2>1, <2>2
<1>9. RowsAccounted'
  BY <1>1, <1>2 DEF Inv, RowsAccounted, Accounted
<1>10. OrphansCounted'
  <2>1. Cardinality(orphans) \in Nat
    BY FS_CardinalityType DEF Inv, OrphansCounted
  <2> QED BY <1>2, <2>1, HumanStepAssumption DEF Inv, OrphansCounted, TypeOK
<1>11. NamesSane'
  <2>1. \A m \in Steps : \A j \in DOMAIN row[m] :
          j \in DOMAIN row'[m] /\ (row[m][j].by # None => row'[m][j].by = row[m][j].by)
    BY <1>1, <1>3, <1>4
  <2>2. n \in Asks /\ signal'.by = r.by
          => \E m \in Asks : \E j \in DOMAIN row[m] : row'[m][j].by = signal'.by
    BY <1>1, <1>3
  <2>3. UNCHANGED answer
    BY <1>2
  <2>4. \/ signal' \in {signal, None}
        \/ \E m \in Asks : \E j \in DOMAIN row[m] : row'[m][j].by = signal'.by
        \/ signal'.by = None
    BY <2>2
  <2> QED BY <2>1, <2>3, <2>4, NamesKept
<1> QED BY <1>5, <1>6, <1>7, <1>8, <1>9, <1>10, <1>11 DEF Inv

(* A fault leaves at most one row behind.                                   *)
LEMMA OneMoreOrphan ==
  ASSUME Inv, NEW o, orphans' = orphans \cup {o}, Fault
  PROVE  OrphansCounted'
<1>1. IsFiniteSet(orphans) /\ Cardinality(orphans) \in Nat /\ Cardinality(orphans) <= faults
  BY FS_CardinalityType DEF Inv, OrphansCounted
<1>2. /\ IsFiniteSet(orphans \cup {o})
      /\ Cardinality(orphans \cup {o})
           = IF o \in orphans THEN Cardinality(orphans) ELSE Cardinality(orphans) + 1
  BY <1>1, FS_AddElement
<1> QED BY <1>1, <1>2, HumanStepAssumption DEF Inv, TypeOK, Fault, OrphansCounted

(* A step that makes a row: it was accounted for, or it is by this step.    *)
LEMMA NewRowKeeps ==
  ASSUME Inv, NEW n \in Steps, NewRow(n), slot[n] = 0,
         \A m \in Steps : at[m] # "made",
         UNCHANGED <<slot, signal, identity, answer>>,
         run' \in {"suspended", "running", "failed", "done"},
         \/ /\ at' = [at EXCEPT ![n] = "made"]
            /\ UNCHANGED <<orphans, faults>>
         \/ /\ UNCHANGED at
            /\ orphans' = orphans \cup {<<n, Len(row[n]) + 1>>}
            /\ Fault
  PROVE  Inv'
<1>0. TypeOK
  BY DEF Inv
<1>1. /\ row' \in [Steps -> Seq(Row)]
      /\ \A m \in Steps : Len(row'[m]) = IF m = n THEN Len(row[m]) + 1 ELSE Len(row[m])
      /\ \A m \in Steps : \A j \in 1 .. Len(row[m]) : row'[m][j] = row[m][j]
      /\ RowSane(n, row'[n][Len(row[n]) + 1])
  BY <1>0, RowMade
<1>2. /\ \A m \in Steps : Len(row[m]) \in Nat /\ DOMAIN row[m] = 1 .. Len(row[m])
      /\ \A m \in Steps : DOMAIN row'[m] = 1 .. Len(row'[m])
  BY <1>0, <1>1 DEF TypeOK
<1>3. /\ at' \in [Steps -> {"parked", "due", "made", "through"}]
      /\ \A m \in Steps : m # n => at'[m] = at[m]
  BY <1>0 DEF TypeOK
<1>4. faults' \in 0 .. MaxFaults /\ (orphans' # orphans => faults' = faults + 1) /\ faults <= faults'
  BY <1>0, HumanStepAssumption DEF TypeOK, Fault
<1>5. TypeOK'
  <2>1. \A o \in orphans' : o[1] \in Steps /\ o[2] \in DOMAIN row'[o[1]]
    <3>1. \A o \in orphans : o[1] \in Steps /\ o[2] \in 1 .. Len(row[o[1]])
      BY <1>0, <1>2 DEF TypeOK
    <3>2. n \in Steps /\ Len(row[n]) + 1 \in 1 .. Len(row'[n])
      BY <1>1, <1>2
    <3>3. \A o \in orphans : o[1] \in Steps /\ o[2] \in 1 .. Len(row'[o[1]])
      BY <1>1, <1>2, <3>1
    <3>4. \A o \in orphans' : o \in orphans \/ o = <<n, Len(row[n]) + 1>>
      OBVIOUS
    <3>5. \A o \in orphans' : o[1] \in Steps /\ o[2] \in 1 .. Len(row'[o[1]])
      BY <3>2, <3>3, <3>4
    <3> QED BY <1>2, <3>5
  <2>2. \A m \in Steps : slot'[m] # 0 => slot'[m] \in DOMAIN row'[m] /\ at'[m] \in {"parked", "due"}
    BY <1>0, <1>1, <1>2, <1>3 DEF TypeOK
  <2> QED BY <1>0, <1>1, <1>3, <1>4, <2>1, <2>2 DEF TypeOK
<1>6. OneMade'
  BY <1>3 DEF OneMade
<1>7. RowsSane'
  <2> SUFFICES ASSUME NEW m \in Steps, NEW k \in 1 .. Len(row'[m]) PROVE RowSane(m, row'[m][k])
    BY DEF RowsSane, RowSane
  <2>1. CASE k \in 1 .. Len(row[m])
    BY <1>1, <2>1 DEF Inv, RowsSane
  <2>2. CASE m = n /\ k = Len(row[n]) + 1
    BY <1>1, <2>2
  <2> QED BY <1>1, <1>2, <2>1, <2>2
<1>8. LastIsPending'
  BY <1>1, <1>2, <1>3, <1>0 DEF Inv, LastIsPending, TypeOK
<1>9. AnswersPast'
  <2> SUFFICES ASSUME NEW m \in Steps, NEW i \in 1 .. Len(answer[m])
               PROVE  /\ answer[m][i].row \in 1 .. Len(row'[m])
                      /\ Pending(m)' => answer[m][i].row < Len(row'[m])
                      /\ row'[m][answer[m][i].row].by # None
                      /\ \A j \in 1 .. i - 1 : answer[m][j].row < answer[m][i].row
    BY DEF AnswersPast, Pending
  <2>1. /\ answer[m][i].row \in 1 .. Len(row[m])
        /\ Pending(m) => answer[m][i].row < Len(row[m])
        /\ row[m][answer[m][i].row].by # None
        /\ \A j \in 1 .. i - 1 : answer[m][j].row < answer[m][i].row
    BY DEF Inv, AnswersPast
  <2>2. Pending(m)' => m = n \/ Pending(m)
    BY <1>3 DEF Pending
  <2>3. /\ answer[m][i].row \in 1 .. Len(row'[m])
        /\ Pending(m)' => answer[m][i].row < Len(row'[m])
    BY <1>1, <1>2, <2>1, <2>2
  <2>4. row'[m][answer[m][i].row] = row[m][answer[m][i].row]
    BY <1>1, <2>1
  <2> QED BY <2>1, <2>3, <2>4
<1>10. RowsAccounted'
  <2> SUFFICES ASSUME NEW m \in Steps, NEW k \in 1 .. Len(row'[m]) PROVE Accounted(m, k)'
    BY DEF RowsAccounted, Accounted
  <2>1. CASE k \in 1 .. Len(row[m])
    <3>1. Accounted(m, k)
      BY <2>1 DEF Inv, RowsAccounted
    <3> QED BY <3>1 DEF Accounted
  <2>2. CASE m = n /\ k = Len(row[n]) + 1
    <3>1. k = Len(row'[n])
      BY <1>1, <2>2
    <3>2. at'[n] = "made" \/ <<n, k>> \in orphans'
      BY <1>0, <2>2 DEF TypeOK
    <3> QED BY <2>2, <3>1, <3>2 DEF Accounted
  <2> QED BY <1>1, <1>2, <2>1, <2>2
<1>11. OrphansCounted'
  <2>1. CASE orphans' = orphans /\ faults' = faults
    BY <2>1 DEF Inv, OrphansCounted
  <2>2. CASE orphans' = orphans \cup {<<n, Len(row[n]) + 1>>} /\ Fault
    BY <2>2, OneMoreOrphan
  <2> QED BY <2>1, <2>2
<1>12. NamesSane'
  <2>1. \A m \in Steps : \A j \in DOMAIN row[m] :
          j \in DOMAIN row'[m] /\ row'[m][j].by = row[m][j].by
    <3>1. \A m \in Steps : \A j \in 1 .. Len(row[m]) :
            j \in 1 .. Len(row'[m]) /\ row'[m][j] = row[m][j]
      BY <1>1, <1>2
    <3> QED BY <1>2, <3>1
  <2> QED BY <2>1, NamesKept
<1> QED BY <1>5, <1>6, <1>7, <1>8, <1>9, <1>10, <1>11, <1>12 DEF Inv

(* Steps that come and go, parked or due, without a row, slot or answer.    *)
LEMMA QuietKeeps ==
  ASSUME Inv, UNCHANGED <<row, slot, identity, answer, orphans>>,
         at' \in [Steps -> {"parked", "due", "made", "through"}],
         \A n \in Steps : at'[n] = "made" <=> at[n] = "made",
         \A n \in Steps : at'[n] = "through" => at[n] = "through",
         run' \in {"suspended", "running", "failed", "done"},
         signal' \in {signal, None},
         faults' = faults \/ Fault
  PROVE  Inv'
<1>1. faults' \in 0 .. MaxFaults /\ faults <= faults'
  BY HumanStepAssumption DEF Inv, TypeOK, Fault
<1>2. TypeOK'
  BY <1>1 DEF Inv, TypeOK
<1>3. (OneMade /\ RowsSane /\ LastIsPending /\ RowsAccounted)'
  BY DEF Inv, OneMade, RowsSane, LastIsPending, RowsAccounted, Accounted
<1>4. AnswersPast'
  BY DEF Inv, AnswersPast, Pending
<1>5. OrphansCounted'
  <2>1. IsFiniteSet(orphans) /\ Cardinality(orphans) \in Nat /\ Cardinality(orphans) <= faults
    BY FS_CardinalityType DEF Inv, OrphansCounted
  <2> QED BY <1>1, <2>1, HumanStepAssumption DEF Inv, OrphansCounted, TypeOK
<1>6. NamesSane'
  BY NamesKept
<1> QED BY <1>2, <1>3, <1>4, <1>5, <1>6 DEF Inv

(* The slot takes over the row that was made.                               *)
LEMMA SuspensionKeeps == ASSUME Inv, NEW n \in Steps, suspension(n) PROVE Inv'
<1>1. /\ \A m \in Steps : Len(row[m]) \in Nat /\ DOMAIN row[m] = 1 .. Len(row[m])
      /\ at[n] = "made" /\ Len(row[n]) > 0 /\ slot[n] = 0
  BY DEF Inv, TypeOK, suspension, LastIsPending
<1>2. /\ \A m \in Steps : slot'[m] = IF m = n THEN Len(row[n]) ELSE slot[m]
      /\ \A m \in Steps : at'[m] = IF m = n THEN "parked" ELSE at[m]
      /\ UNCHANGED <<row, run, signal, identity, answer, orphans, faults>>
  BY DEF Inv, TypeOK, suspension
<1>3. TypeOK'
  BY <1>1, <1>2 DEF Inv, TypeOK, suspension
<1>4. (OneMade /\ RowsSane /\ LastIsPending /\ OrphansCounted)'
  BY <1>1, <1>2 DEF Inv, OneMade, RowsSane, LastIsPending, OrphansCounted
<1>5. AnswersPast'
  <2>1. \A m \in Steps : Pending(m)' => Pending(m)
    BY <1>1, <1>2 DEF Pending
  <2> QED BY <1>2, <2>1 DEF Inv, AnswersPast
<1>6. RowsAccounted'
  <2> SUFFICES ASSUME NEW m \in Steps, NEW k \in 1 .. Len(row[m]) PROVE Accounted(m, k)'
    BY <1>2 DEF RowsAccounted, Accounted
  <2>1. Accounted(m, k) /\ k # 0
    BY DEF Inv, RowsAccounted
  <2> QED BY <1>1, <1>2, <2>1 DEF Accounted
<1>7. NamesSane'
  BY <1>2, NamesKept
<1> QED BY <1>3, <1>4, <1>5, <1>6, <1>7 DEF Inv

(* The step goes on with the answer to the row its slot names.              *)
LEMMA AdvanceKeeps ==
  ASSUME Inv, NEW n \in Steps, slot[n] # 0, Advance(n),
         row[n][slot[n]].state = "answered",
         UNCHANGED <<row, signal, identity, orphans, faults>>
  PROVE  Inv'
<1> DEFINE last == Len(row[n])
           old == answer[n]
<1>1. /\ row[n] \in Seq(Row) /\ old \in Seq(Answer) /\ slot[n] = last /\ last \in Nat \ {0}
      /\ at[n] # "made"
      /\ \A m \in Steps : DOMAIN row[m] = 1 .. Len(row[m])
  BY DEF Inv, TypeOK, LastIsPending
<1>2. answerFor(n) \in Answer /\ answerFor(n).row = last
  BY <1>1, HumanStepAssumption DEF Inv, TypeOK, answerFor, Answer
<1>3. /\ Append(old, answerFor(n)) \in Seq(Answer)
      /\ Len(Append(old, answerFor(n))) = Len(old) + 1
      /\ \A i \in 1 .. Len(old) : Append(old, answerFor(n))[i] = old[i]
      /\ Append(old, answerFor(n))[Len(old) + 1].row = last
  BY <1>1, <1>2, AppendProperties
<1>4. answer' = [answer EXCEPT ![n] = Append(old, answerFor(n))]
  BY DEF Advance
<1>5. /\ answer' \in [Steps -> Seq(Answer)]
      /\ \A m \in Steps : m # n => answer'[m] = answer[m]
      /\ Len(answer'[n]) = Len(old) + 1 /\ Len(old) \in Nat
      /\ \A i \in 1 .. Len(old) : answer'[n][i] = old[i]
      /\ answer'[n][Len(old) + 1].row = last
  BY <1>1, <1>3, <1>4 DEF Inv, TypeOK
<1>6. /\ \A m \in Steps : slot'[m] = IF m = n THEN 0 ELSE slot[m]
      /\ \A m \in Steps : at'[m] = IF m = n THEN "through" ELSE at[m]
  BY DEF Inv, TypeOK, Advance
<1>7. TypeOK'
  BY <1>1, <1>5, <1>6 DEF Inv, TypeOK, Advance
<1>8. (OneMade /\ RowsSane /\ LastIsPending /\ OrphansCounted)'
  BY <1>6 DEF Inv, OneMade, RowsSane, LastIsPending, OrphansCounted
<1>9. AnswersPast'
  <2> SUFFICES ASSUME NEW m \in Steps, NEW i \in 1 .. Len(answer'[m])
               PROVE  /\ answer'[m][i].row \in 1 .. Len(row[m])
                      /\ Pending(m)' => answer'[m][i].row < Len(row[m])
                      /\ row[m][answer'[m][i].row].by # None
                      /\ \A j \in 1 .. i - 1 : answer'[m][j].row < answer'[m][i].row
    BY DEF AnswersPast, Pending
  <2>1. \A l \in 1 .. Len(answer[m]) :
          /\ answer[m][l].row \in 1 .. Len(row[m])
          /\ Pending(m) => answer[m][l].row < Len(row[m])
          /\ row[m][answer[m][l].row].by # None
          /\ \A j \in 1 .. l - 1 : answer[m][j].row < answer[m][l].row
    BY DEF Inv, AnswersPast
  <2>2. CASE m # n
    BY <1>5, <1>6, <2>1, <2>2 DEF Pending
  <2>3. CASE m = n /\ i \in 1 .. Len(old)
    <3>1. ~Pending(n)'
      BY <1>6 DEF Pending
    <3>2. \A j \in 1 .. i : j \in 1 .. Len(old) /\ answer'[n][j] = answer[n][j]
      BY <1>5, <2>3
    <3>3. i \in 1 .. i /\ \A j \in 1 .. i - 1 : j \in 1 .. i
      BY <2>3
    <3> QED BY <2>1, <2>3, <3>1, <3>2, <3>3
  <2>4. CASE m = n /\ i = Len(old) + 1
    <3>1. Pending(n) /\ ~Pending(n)'
      BY <1>6 DEF Pending
    <3>2. row[n][last].by # None /\ last \in 1 .. Len(row[n])
      BY <1>1 DEF Inv, RowsSane, RowSane
    <3>3. answer'[n][i].row = last
      BY <1>5, <2>4
    <3>4. \A j \in 1 .. i - 1 : answer'[n][j].row < last
      BY <1>5, <2>1, <2>4, <3>1
    <3> QED BY <2>4, <3>1, <3>2, <3>3, <3>4
  <2> QED BY <1>5, <2>2, <2>3, <2>4
<1>10. RowsAccounted'
  <2> SUFFICES ASSUME NEW m \in Steps, NEW k \in 1 .. Len(row[m]) PROVE Accounted(m, k)'
    BY DEF RowsAccounted, Accounted
  <2>1. Accounted(m, k)
    BY DEF Inv, RowsAccounted
  <2>2. CASE m # n
    <3>1. /\ answer'[m] = answer[m] /\ slot'[m] = slot[m] /\ at'[m] = at[m]
          /\ row' = row /\ orphans' = orphans
      BY <1>5, <1>6, <2>2
    <3> QED BY <2>1, <3>1 DEF Accounted
  <2>3. CASE m = n /\ k = last
    <3>1. Len(old) + 1 \in 1 .. Len(answer'[n]) /\ answer'[n][Len(old) + 1].row = k
      BY <1>5, <2>3
    <3> QED BY <2>3, <3>1 DEF Accounted
  <2>4. CASE m = n /\ k # last
    <3>1. (\E i \in 1 .. Len(old) : old[i].row = k) \/ <<n, k>> \in orphans
      BY <1>1, <2>1, <2>4 DEF Accounted
    <3>2. \A i \in 1 .. Len(old) : i \in 1 .. Len(answer'[n]) /\ answer'[n][i] = old[i]
      BY <1>5
    <3> QED BY <2>4, <3>1, <3>2 DEF Accounted
  <2> QED BY <2>2, <2>3, <2>4
<1>11. NamesSane'
  <2>1. answerFor(n).by # None => Completed(answerFor(n).by)
    BY DEF Inv, NamesSane, answerFor
  <2>2. \A m \in Steps : \A i \in 1 .. Len(answer'[m]) :
          \/ answer'[m][i] = answerFor(n)
          \/ i \in 1 .. Len(answer[m]) /\ answer'[m][i] = answer[m][i]
    BY <1>1, <1>2, <1>3, <1>4, <1>5
  <2>3. \A p : Completed(p)' <=> Completed(p)
    BY DEF Completed
  <2> QED BY <2>1, <2>2, <2>3 DEF Inv, NamesSane
<1> QED BY <1>7, <1>8, <1>9, <1>10, <1>11 DEF Inv

(* A crash parks every branch; a row whose slot was not stored is orphaned. *)
LEMMA CrashKeeps == ASSUME Inv, Crash PROVE Inv'
<1>1. /\ \A m \in Steps : Len(row[m]) \in Nat /\ DOMAIN row[m] = 1 .. Len(row[m])
      /\ \A m \in Steps : at[m] = "made" => Len(row[m]) \in 1 .. Len(row[m])
  BY DEF Inv, TypeOK, LastIsPending
<1>2. /\ \A m \in Steps : at'[m] \in {"parked", "through"}
      /\ \A m \in Steps : at'[m] = "through" => at[m] = "through"
      /\ at' \in [Steps -> {"parked", "due", "made", "through"}]
  BY DEF Crash
<1>3. UNCHANGED <<row, slot, signal, identity, answer>> /\ Fault
  BY DEF Crash
<1>4. orphans' = orphans \cup {<<m, Len(row[m])>> : m \in {q \in Steps : at[q] = "made"}}
  BY DEF Crash
<1>5. TypeOK'
  <2>1. \A o \in orphans' : o[1] \in Steps /\ o[2] \in DOMAIN row[o[1]]
    <3>1. \A o \in orphans : o[1] \in Steps /\ o[2] \in DOMAIN row[o[1]]
      BY DEF Inv, TypeOK
    <3> QED BY <1>1, <1>4, <3>1
  <2>2. faults' \in 0 .. MaxFaults
    BY <1>3, HumanStepAssumption DEF Inv, TypeOK, Fault
  <2> QED BY <1>2, <1>3, <2>1, <2>2 DEF Inv, TypeOK, Crash
<1>6. (OneMade /\ RowsSane /\ LastIsPending)'
  BY <1>2, <1>3 DEF Inv, OneMade, RowsSane, LastIsPending
<1>7. AnswersPast'
  BY <1>2, <1>3 DEF Inv, AnswersPast, Pending
<1>8. RowsAccounted'
  <2> SUFFICES ASSUME NEW m \in Steps, NEW k \in 1 .. Len(row[m]) PROVE Accounted(m, k)'
    BY <1>3 DEF RowsAccounted, Accounted
  <2>1. Accounted(m, k)
    BY DEF Inv, RowsAccounted
  <2> QED BY <1>3, <1>4, <2>1 DEF Accounted
<1>9. OrphansCounted'
  <2>1. CASE \E m \in Steps : at[m] = "made"
    <3>1. PICK m \in Steps : at[m] = "made"
      BY <2>1
    <3>2. orphans' = orphans \cup {<<m, Len(row[m])>>}
      BY <1>4, <3>1 DEF Inv, OneMade
    <3> QED BY <1>3, <3>2, OneMoreOrphan
  <2>2. CASE ~\E m \in Steps : at[m] = "made"
    <3>1. orphans' = orphans
      BY <1>4, <2>2
    <3>2. IsFiniteSet(orphans) /\ Cardinality(orphans) \in Nat /\ Cardinality(orphans) <= faults
      BY FS_CardinalityType DEF Inv, OrphansCounted
    <3> QED BY <1>3, <3>1, <3>2, HumanStepAssumption DEF Inv, OrphansCounted, TypeOK, Fault
  <2> QED BY <2>1, <2>2
<1>10. NamesSane'
  BY <1>3, NamesKept
<1> QED BY <1>5, <1>6, <1>7, <1>8, <1>9, <1>10 DEF Inv
------------------------------------------------------------------------------
(* What the steps of the run do to the invariant.                           *)
LEMMA VisitKeeps == ASSUME Inv, NEW n \in Steps, Visit(n) PROVE Inv'
<1>1. CASE createTask(n)
  BY <1>1, NewRowKeeps DEF createTask, Entered, Inv, TypeOK
<1>2. CASE suspension(n)
  BY <1>2, SuspensionKeeps
<1>3. CASE CannotCreate(n)
  <2>1. CASE UNCHANGED <<row, orphans>>
    BY <1>3, <2>1, QuietKeeps DEF CannotCreate, Inv, TypeOK
  <2>2. CASE NewRow(n) /\ orphans' = orphans \cup {<<n, Len(row[n]) + 1>>}
    BY <1>3, <2>2, NewRowKeeps DEF CannotCreate, Entered
  <2> QED BY <1>3, <2>1, <2>2 DEF CannotCreate
<1>4. ASSUME Entered(n), slot[n] # 0, Park(n), UNCHANGED <<row, signal, identity, orphans, faults>>
      PROVE  Inv'
  <2>1. /\ at' \in [Steps -> {"parked", "due", "made", "through"}]
        /\ \A m \in Steps : at'[m] = "made" <=> at[m] = "made"
        /\ \A m \in Steps : at'[m] = "through" => at[m] = "through"
    BY <1>4 DEF Entered, Park, Inv, TypeOK
  <2> QED BY <1>4, <2>1, QuietKeeps DEF Park, Inv, TypeOK
<1>5. ASSUME StepFails, UNCHANGED <<row, signal, identity, orphans>>, faults' = faults \/ Fault
      PROVE  Inv'
  BY <1>5, QuietKeeps DEF StepFails, Inv, TypeOK
<1>6. CASE execute(n)
  BY <1>4, <1>5, <1>6, AdvanceKeeps DEF execute
<1>7. CASE Unreadable(n)
  BY <1>4, <1>7 DEF Unreadable
<1>8. CASE Refused(n)
  BY <1>5, <1>8 DEF Refused
<1> QED BY <1>1, <1>2, <1>3, <1>6, <1>7, <1>8 DEF Visit

(* What people, Decidiq and the listeners do to it.                         *)
LEMMA OutsideKeeps ==
  ASSUME Inv, NEW n \in Steps, NEW k \in DOMAIN row[n], Outside(n, k)
  PROVE  Inv'
<1> DEFINE r == row[n][k]
<1>1. r \in Row /\ RowSane(n, r)
  <2>1. row[n] \in Seq(Row) /\ k \in 1 .. Len(row[n])
    BY DEF Inv, TypeOK
  <2> QED BY <2>1 DEF Inv, RowsSane
<1>2. faults \in 0 .. MaxFaults /\ faults <= faults
  BY HumanStepAssumption DEF Inv, TypeOK
<1>3. CASE complete(n, k)
  <2>1. PICK p \in IF n \in Asks THEN People ELSE {Decidiq} :
               Write(n, k, [state |-> "answered", by |-> p, told |-> FALSE])
    BY <1>3 DEF complete
  <2> DEFINE new == [state |-> "answered", by |-> p, told |-> FALSE]
  <2>2. new \in Row /\ RowSane(n, new) /\ r.by = None
    BY <1>1, <1>3, HumanStepAssumption DEF Row, RowSane, complete, Open
  <2> QED BY <1>2, <1>3, <2>1, <2>2, WriteKeeps DEF complete, Inv, TypeOK
<1>4. CASE withdraw(n, k)
  <2> DEFINE new == [state |-> "withdrawn", by |-> None, told |-> n \in Asks]
  <2>1. new \in Row /\ RowSane(n, new) /\ r.by = None
    BY <1>1, <1>4 DEF Row, RowSane, withdraw, Open
  <2> QED BY <1>2, <1>4, <2>1, WriteKeeps DEF withdraw, Inv, TypeOK
<1>5. CASE delete(n, k)
  <2> DEFINE new == [r EXCEPT !.state = "gone"]
  <2>1. new \in Row /\ RowSane(n, new) /\ new.by = r.by
    BY <1>1 DEF Row, RowSane
  <2>2. faults' \in 0 .. MaxFaults /\ faults <= faults'
    BY <1>5, HumanStepAssumption DEF delete, Fault, Inv, TypeOK
  <2> QED BY <1>5, <2>1, <2>2, WriteKeeps DEF delete, Inv, TypeOK
<1> DEFINE told == [r EXCEPT !.told = TRUE]
<1>6. told \in Row /\ RowSane(n, told) /\ told.by = r.by
  BY <1>1 DEF Row, RowSane
<1>7. CASE handle(n, k)
  <2>1. signal' \in {None} \cup [step : Steps, by : People \cup {None}]
    BY <1>1, <1>7 DEF handle, RowSane, Inv, TypeOK
  <2>2. signal' = signal \/ signal'.by = None \/ (n \in Asks /\ signal'.by = told.by)
    BY <1>6, <1>7 DEF handle
  <2> QED BY <1>2, <1>6, <1>7, <2>1, <2>2, WriteKeeps DEF handle
<1>8. CASE SignalLost(n, k)
  BY <1>2, <1>6, <1>8, WriteKeeps DEF SignalLost, Inv, TypeOK
<1> QED BY <1>3, <1>4, <1>5, <1>7, <1>8 DEF Outside

LEMMA InvNext == Inv /\ [Next]_vars => Inv'
<1> SUFFICES ASSUME Inv, [Next]_vars PROVE Inv'
  OBVIOUS
<1>1. CASE Wake
  BY <1>1, QuietKeeps DEF Wake, Inv, TypeOK
<1>2. CASE EndPass
  BY <1>2, QuietKeeps DEF EndPass, Inv, TypeOK
<1>3. CASE Crash
  BY <1>3, CrashKeeps
<1>4. CASE \E n \in Steps : Visit(n)
  BY <1>4, VisitKeeps
<1>5. CASE \E n \in Steps : ComeBack(n)
  BY <1>5, QuietKeeps DEF ComeBack, Inv, TypeOK
<1>6. CASE \E n \in Steps : \E k \in DOMAIN row[n] : Outside(n, k)
  BY <1>6, OutsideKeeps
<1>7. CASE UNCHANGED vars
  BY <1>7, QuietKeeps DEF vars, Inv, TypeOK
<1> QED BY <1>1, <1>2, <1>3, <1>4, <1>5, <1>6, <1>7 DEF Next

LEMMA InvHolds == Spec => []Inv
BY InvInit, InvNext, PTL DEF Spec
------------------------------------------------------------------------------
(* Types; and a slot never names a row its step did not make.               *)
THEOREM TypeCorrect == Spec => []TypeOK
<1>1. Inv => TypeOK
  BY DEF Inv
<1> QED BY <1>1, InvHolds, PTL

(* However heartbeats, signals, answers and crashes interleave, a step asks *)
(* again only once it was answered or a fault lost what it had asked.       *)
THEOREM NobodyAskedTwice == Spec => []AskedOnce
<1>1. Inv => AskedOnce
  <2> SUFFICES ASSUME Inv PROVE AskedOnce
    OBVIOUS
  <2>1. \A n \in Steps : DOMAIN row[n] = 1 .. Len(row[n]) /\ DOMAIN answer[n] = 1 .. Len(answer[n])
    BY DEF Inv, TypeOK
  <2> SUFFICES ASSUME NEW n \in Steps, NEW k \in 1 .. Len(row[n])
               PROVE  \/ k = slot[n] \/ (at[n] = "made" /\ k = Len(row[n]))
                      \/ k \in Used(n) \/ <<n, k>> \in orphans
    BY <2>1 DEF Inv, OrphansCounted, AskedOnce
  <2> QED BY <2>1 DEF Inv, RowsAccounted, Accounted, Used
<1> QED BY <1>1, InvHolds, PTL

(* No signal, however late or misdirected, makes a run go on: an answer it  *)
(* goes on with was given, to the round it asked in, and is taken once.     *)
THEOREM OnlyTrueAnswers == Spec => []AnswersAreTrue
<1>1. Inv => AnswersAreTrue
  <2> SUFFICES ASSUME Inv PROVE AnswersAreTrue
    OBVIOUS
  <2>1. \A n \in Steps : DOMAIN row[n] = 1 .. Len(row[n]) /\ DOMAIN answer[n] = 1 .. Len(answer[n])
    BY DEF Inv, TypeOK
  <2> QED BY <2>1 DEF Inv, AnswersPast, NamesSane, AnswersAreTrue
<1> QED BY <1>1, InvHolds, PTL
==============================================================================
