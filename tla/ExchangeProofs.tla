--------------------------- MODULE ExchangeProofs ---------------------------
(***************************************************************************)
(* Proofs about the outbox (Outbox), for any number of rows, invocations   *)
(* and faults, with the step simulation of AtLeastOnce, and about          *)
(* communications (Delivery, Campaign, Scheduled), for every set of keys,  *)
(* consumers, retries, provider reports, recipients and outreaches and     *)
(* every bound on faults.                                                  *)
(***************************************************************************)
EXTENDS Outbox, Delivery, Campaign, Scheduled, FiniteSetTheorems, TLAPS

-----------------------------------------------------------------------------
(***************************************************************************)
(* Outbox: rows, messages and invocations, and what is promised of them.   *)
(***************************************************************************)

\* Every step keeps the types, and each invocation holds a message or claimed
\* rows only where its program counter says so.
LEMMA TypeStep ==
  TypeOK /\ Placed /\ [Next]_vars => (TypeOK /\ Placed)'
<1> SUFFICES ASSUME TypeOK, Placed, [Next]_vars
             PROVE  (TypeOK /\ Placed)'
  OBVIOUS
<1> USE OutboxAssumption DEF TypeOK, Status, Busy, local, Goto, Placed
<1>1. ASSUME NEW e \in Events, InsertRow(e) PROVE (TypeOK /\ Placed)'
  BY <1>1 DEF InsertRow, Inserted
<1>2. ASSUME NEW e \in Events, BecomeDue(e) PROVE (TypeOK /\ Placed)'
  BY <1>2 DEF BecomeDue
<1>3. ASSUME NEW e \in Events, Duplicate(e) PROVE (TypeOK /\ Placed)'
  BY <1>3 DEF Duplicate, Count
<1>4. ASSUME NEW w \in Workers, CronClaim(w) PROVE (TypeOK /\ Placed)'
  BY <1>4 DEF CronClaim, StartClaim, Claimable, Claimed, Goto
<1>5. ASSUME NEW w \in Workers, RequestClaim(w) PROVE (TypeOK /\ Placed)'
  BY <1>5 DEF RequestClaim, StartClaim, Claimable, Claimed, Goto
<1>6. ASSUME NEW w \in Workers, SendOk(w) PROVE (TypeOK /\ Placed)'
  BY <1>6 DEF SendOk
<1>7. ASSUME NEW w \in Workers, SendDone(w) PROVE (TypeOK /\ Placed)'
  BY <1>7 DEF SendDone, AfterSend, Goto
<1>8. ASSUME NEW w \in Workers, ReadRow(w) PROVE (TypeOK /\ Placed)'
  BY <1>8 DEF ReadRow, Goto
<1>9. ASSUME NEW w \in Workers, ApplyAtOnce(w) PROVE (TypeOK /\ Placed)'
  BY <1>9 DEF ApplyAtOnce, Inserted, Goto
<1>10. ASSUME NEW w \in Workers, ApplyPlacement(w) PROVE (TypeOK /\ Placed)'
  BY <1>10 DEF ApplyPlacement, Inserted, Goto
<1>11. ASSUME NEW w \in Workers, FinishPlacements(w) PROVE (TypeOK /\ Placed)'
  BY <1>11 DEF FinishPlacements, Goto
<1>12. ASSUME NEW w \in Workers, Settle(w) PROVE (TypeOK /\ Placed)'
  BY <1>12 DEF Settle, Goto
<1>13. ASSUME NEW w \in Workers, NestedClaim(w) PROVE (TypeOK /\ Placed)'
  BY <1>13 DEF NestedClaim, Claimable, Claimed, Goto
<1>14. ASSUME NEW w \in Workers, MarkFailed(w) PROVE (TypeOK /\ Placed)'
  BY <1>14 DEF MarkFailed, MarkOutboxFailed, Goto
<1>15. ASSUME NEW w \in Workers, Ack(w) PROVE (TypeOK /\ Placed)'
  BY <1>15 DEF Ack, Goto
<1>16. ASSUME NEW w \in Workers, SendFails(w) PROVE (TypeOK /\ Placed)'
  BY <1>16 DEF SendFails, MarkOutboxFailed, Count, MayFail
<1>17. ASSUME NEW w \in Workers, SendAmbiguous(w) PROVE (TypeOK /\ Placed)'
  BY <1>17 DEF SendAmbiguous, MarkOutboxFailed, Count
<1>18. ASSUME NEW w \in Workers, SendAborts(w) PROVE (TypeOK /\ Placed)'
  BY <1>18 DEF SendAborts, Count, Goto
<1>19. ASSUME NEW w \in Workers, HandlerFails(w) PROVE (TypeOK /\ Placed)'
  BY <1>19 DEF HandlerFails, Goto, Count, MayFail
<1>20. ASSUME NEW w \in Workers, Crash(w) PROVE (TypeOK /\ Placed)'
  BY <1>20 DEF Crash, Count, Goto
<1>21. ASSUME NEW w \in Workers, NEW e \in Events, Receive(w, e) PROVE (TypeOK /\ Placed)'
  BY <1>21 DEF Receive, Goto
<1>22. CASE UNCHANGED vars
  BY <1>22 DEF vars
<1> QED
  BY <1>1, <1>2, <1>3, <1>4, <1>5, <1>6, <1>7, <1>8, <1>9, <1>10, <1>11,
     <1>12, <1>13, <1>14, <1>15, <1>16, <1>17, <1>18, <1>19, <1>20, <1>21,
     <1>22
  DEF Next, Step, Fault

\* Nothing is sent, held or applied before its row is inserted; a row never
\* becomes absent again.
LEMMA TableStep ==
  TypeOK /\ Placed /\ InTable /\ [Next]_vars => InTable'
<1> SUFFICES ASSUME TypeOK, Placed, InTable, [Next]_vars
             PROVE  InTable'
  OBVIOUS
<1> USE OutboxAssumption DEF TypeOK, Status, Busy, local, Goto, Placed, InTable
<1>1. ASSUME NEW e \in Events, InsertRow(e) PROVE InTable'
  BY <1>1 DEF InsertRow, Inserted
<1>2. ASSUME NEW e \in Events, BecomeDue(e) PROVE InTable'
  BY <1>2 DEF BecomeDue
<1>3. ASSUME NEW e \in Events, Duplicate(e) PROVE InTable'
  BY <1>3 DEF Duplicate, Count
<1>4. ASSUME NEW w \in Workers, CronClaim(w) PROVE InTable'
  BY <1>4 DEF CronClaim, StartClaim, Claimable, Claimed, Goto
<1>5. ASSUME NEW w \in Workers, RequestClaim(w) PROVE InTable'
  BY <1>5 DEF RequestClaim, StartClaim, Claimable, Claimed, Goto
<1>6. ASSUME NEW w \in Workers, SendOk(w) PROVE InTable'
  BY <1>6 DEF SendOk
<1>7. ASSUME NEW w \in Workers, SendDone(w) PROVE InTable'
  BY <1>7 DEF SendDone, AfterSend, Goto
<1>8. ASSUME NEW w \in Workers, ReadRow(w) PROVE InTable'
  BY <1>8 DEF ReadRow, Goto
<1>9. ASSUME NEW w \in Workers, ApplyAtOnce(w) PROVE InTable'
  BY <1>9 DEF ApplyAtOnce, Inserted, Goto
<1>10. ASSUME NEW w \in Workers, ApplyPlacement(w) PROVE InTable'
  BY <1>10 DEF ApplyPlacement, Inserted, Goto
<1>11. ASSUME NEW w \in Workers, FinishPlacements(w) PROVE InTable'
  BY <1>11 DEF FinishPlacements, Goto
<1>12. ASSUME NEW w \in Workers, Settle(w) PROVE InTable'
  BY <1>12 DEF Settle, Goto
<1>13. ASSUME NEW w \in Workers, NestedClaim(w) PROVE InTable'
  BY <1>13 DEF NestedClaim, Claimable, Claimed, Goto
<1>14. ASSUME NEW w \in Workers, MarkFailed(w) PROVE InTable'
  BY <1>14 DEF MarkFailed, MarkOutboxFailed, Goto
<1>15. ASSUME NEW w \in Workers, Ack(w) PROVE InTable'
  BY <1>15 DEF Ack, Goto
<1>16. ASSUME NEW w \in Workers, SendFails(w) PROVE InTable'
  BY <1>16 DEF SendFails, MarkOutboxFailed, Count, MayFail
<1>17. ASSUME NEW w \in Workers, SendAmbiguous(w) PROVE InTable'
  BY <1>17 DEF SendAmbiguous, MarkOutboxFailed, Count
<1>18. ASSUME NEW w \in Workers, SendAborts(w) PROVE InTable'
  BY <1>18 DEF SendAborts, Count, Goto
<1>19. ASSUME NEW w \in Workers, HandlerFails(w) PROVE InTable'
  BY <1>19 DEF HandlerFails, Goto, Count, MayFail
<1>20. ASSUME NEW w \in Workers, Crash(w) PROVE InTable'
  BY <1>20 DEF Crash, Count, Goto
<1>21. ASSUME NEW w \in Workers, NEW e \in Events, Receive(w, e) PROVE InTable'
  BY <1>21 DEF Receive, Goto
<1>22. CASE UNCHANGED vars
  BY <1>22 DEF vars
<1> QED
  BY <1>1, <1>2, <1>3, <1>4, <1>5, <1>6, <1>7, <1>8, <1>9, <1>10, <1>11,
     <1>12, <1>13, <1>14, <1>15, <1>16, <1>17, <1>18, <1>19, <1>20, <1>21,
     <1>22
  DEF Next, Step, Fault

\* A step that takes a message, a claimant or an owing consumer away from a
\* claimed row puts another in its place, settles the row, or ends the
\* invocation.
LEMMA ClaimStep ==
  TypeOK /\ Placed /\ InTable /\ ClaimedIsOwed /\ [Next]_vars => ClaimedIsOwed'
<1> SUFFICES ASSUME TypeOK, Placed, InTable, ClaimedIsOwed, [Next]_vars
             PROVE  ClaimedIsOwed'
  OBVIOUS
<1> USE OutboxAssumption DEF TypeOK, Status, Busy, local, Goto, Placed, InTable, ClaimedIsOwed, Owes
<1>1. ASSUME NEW e \in Events, InsertRow(e) PROVE ClaimedIsOwed'
  BY <1>1 DEF InsertRow, Inserted
<1>2. ASSUME NEW e \in Events, BecomeDue(e) PROVE ClaimedIsOwed'
  BY <1>2 DEF BecomeDue
<1>3. ASSUME NEW e \in Events, Duplicate(e) PROVE ClaimedIsOwed'
  BY <1>3 DEF Duplicate, Count
<1>4. ASSUME NEW w \in Workers, CronClaim(w) PROVE ClaimedIsOwed'
  BY <1>4 DEF CronClaim, StartClaim, Claimable, Claimed, Goto
<1>5. ASSUME NEW w \in Workers, RequestClaim(w) PROVE ClaimedIsOwed'
  BY <1>5 DEF RequestClaim, StartClaim, Claimable, Claimed, Goto
<1>6. ASSUME NEW w \in Workers, SendOk(w) PROVE ClaimedIsOwed'
  BY <1>6 DEF SendOk
<1>7. ASSUME NEW w \in Workers, SendDone(w) PROVE ClaimedIsOwed'
  BY <1>7 DEF SendDone, AfterSend, Goto
<1>8. ASSUME NEW w \in Workers, ReadRow(w) PROVE ClaimedIsOwed'
  BY <1>8 DEF ReadRow, Goto
<1>9. ASSUME NEW w \in Workers, ApplyAtOnce(w) PROVE ClaimedIsOwed'
  BY <1>9 DEF ApplyAtOnce, Inserted, Goto
<1>10. ASSUME NEW w \in Workers, ApplyPlacement(w) PROVE ClaimedIsOwed'
  BY <1>10 DEF ApplyPlacement, Inserted, Goto
<1>11. ASSUME NEW w \in Workers, FinishPlacements(w) PROVE ClaimedIsOwed'
  BY <1>11 DEF FinishPlacements, Goto
<1>12. ASSUME NEW w \in Workers, Settle(w) PROVE ClaimedIsOwed'
  BY <1>12 DEF Settle, Goto
<1>13. ASSUME NEW w \in Workers, NestedClaim(w) PROVE ClaimedIsOwed'
  BY <1>13 DEF NestedClaim, Claimable, Claimed, Goto
<1>14. ASSUME NEW w \in Workers, MarkFailed(w) PROVE ClaimedIsOwed'
  BY <1>14 DEF MarkFailed, MarkOutboxFailed, Goto
<1>15. ASSUME NEW w \in Workers, Ack(w) PROVE ClaimedIsOwed'
  BY <1>15 DEF Ack, Goto
<1>16. ASSUME NEW w \in Workers, SendFails(w) PROVE ClaimedIsOwed'
  BY <1>16 DEF SendFails, MarkOutboxFailed, Count, MayFail
<1>17. ASSUME NEW w \in Workers, SendAmbiguous(w) PROVE ClaimedIsOwed'
  BY <1>17 DEF SendAmbiguous, MarkOutboxFailed, Count
<1>18. ASSUME NEW w \in Workers, SendAborts(w) PROVE ClaimedIsOwed'
  BY <1>18 DEF SendAborts, Count, Goto
<1>19. ASSUME NEW w \in Workers, HandlerFails(w) PROVE ClaimedIsOwed'
  BY <1>19 DEF HandlerFails, Goto, Count, MayFail
<1>20. ASSUME NEW w \in Workers, Crash(w) PROVE ClaimedIsOwed'
  BY <1>20 DEF Crash, Count, Goto
<1>21. ASSUME NEW w \in Workers, NEW e \in Events, Receive(w, e) PROVE ClaimedIsOwed'
  BY <1>21 DEF Receive, Goto
<1>22. CASE UNCHANGED vars
  BY <1>22 DEF vars
<1> QED
  BY <1>1, <1>2, <1>3, <1>4, <1>5, <1>6, <1>7, <1>8, <1>9, <1>10, <1>11,
     <1>12, <1>13, <1>14, <1>15, <1>16, <1>17, <1>18, <1>19, <1>20, <1>21,
     <1>22
  DEF Next, Step, Fault

\* A handler that is through has inserted every delivery row it owes, by way
\* of one transaction or placement by placement.
LEMMA EffectsStep ==
  TypeOK /\ Placed /\ InTable /\ Effects /\ [Next]_vars => Effects'
<1> SUFFICES ASSUME TypeOK, Placed, InTable, Effects, [Next]_vars
             PROVE  Effects'
  OBVIOUS
<1> USE OutboxAssumption DEF TypeOK, Status, Busy, local, Goto, Placed, InTable, Effects, Progress
<1>1. ASSUME NEW e \in Events, InsertRow(e) PROVE Effects'
  BY <1>1 DEF InsertRow, Inserted
<1>2. ASSUME NEW e \in Events, BecomeDue(e) PROVE Effects'
  BY <1>2 DEF BecomeDue
<1>3. ASSUME NEW e \in Events, Duplicate(e) PROVE Effects'
  BY <1>3 DEF Duplicate, Count
<1>4. ASSUME NEW w \in Workers, CronClaim(w) PROVE Effects'
  BY <1>4 DEF CronClaim, StartClaim, Claimable, Claimed, Goto
<1>5. ASSUME NEW w \in Workers, RequestClaim(w) PROVE Effects'
  BY <1>5 DEF RequestClaim, StartClaim, Claimable, Claimed, Goto
<1>6. ASSUME NEW w \in Workers, SendOk(w) PROVE Effects'
  BY <1>6 DEF SendOk
<1>7. ASSUME NEW w \in Workers, SendDone(w) PROVE Effects'
  BY <1>7 DEF SendDone, AfterSend, Goto
<1>8. ASSUME NEW w \in Workers, ReadRow(w) PROVE Effects'
  BY <1>8 DEF ReadRow, Goto
<1>9. ASSUME NEW w \in Workers, ApplyAtOnce(w) PROVE Effects'
  BY <1>9 DEF ApplyAtOnce, Inserted, Goto
<1>10. ASSUME NEW w \in Workers, ApplyPlacement(w) PROVE Effects'
  BY <1>10 DEF ApplyPlacement, Inserted, Goto
<1>11. ASSUME NEW w \in Workers, FinishPlacements(w) PROVE Effects'
  BY <1>11 DEF FinishPlacements, Goto
<1>12. ASSUME NEW w \in Workers, Settle(w) PROVE Effects'
  BY <1>12 DEF Settle, Goto
<1>13. ASSUME NEW w \in Workers, NestedClaim(w) PROVE Effects'
  BY <1>13 DEF NestedClaim, Claimable, Claimed, Goto
<1>14. ASSUME NEW w \in Workers, MarkFailed(w) PROVE Effects'
  BY <1>14 DEF MarkFailed, MarkOutboxFailed, Goto
<1>15. ASSUME NEW w \in Workers, Ack(w) PROVE Effects'
  BY <1>15 DEF Ack, Goto
<1>16. ASSUME NEW w \in Workers, SendFails(w) PROVE Effects'
  BY <1>16 DEF SendFails, MarkOutboxFailed, Count, MayFail
<1>17. ASSUME NEW w \in Workers, SendAmbiguous(w) PROVE Effects'
  BY <1>17 DEF SendAmbiguous, MarkOutboxFailed, Count
<1>18. ASSUME NEW w \in Workers, SendAborts(w) PROVE Effects'
  BY <1>18 DEF SendAborts, Count, Goto
<1>19. ASSUME NEW w \in Workers, HandlerFails(w) PROVE Effects'
  BY <1>19 DEF HandlerFails, Goto, Count, MayFail
<1>20. ASSUME NEW w \in Workers, Crash(w) PROVE Effects'
  BY <1>20 DEF Crash, Count, Goto
<1>21. ASSUME NEW w \in Workers, NEW e \in Events, Receive(w, e) PROVE Effects'
  BY <1>21 DEF Receive, Goto
<1>22. CASE UNCHANGED vars
  BY <1>22 DEF vars
<1> QED
  BY <1>1, <1>2, <1>3, <1>4, <1>5, <1>6, <1>7, <1>8, <1>9, <1>10, <1>11,
     <1>12, <1>13, <1>14, <1>15, <1>16, <1>17, <1>18, <1>19, <1>20, <1>21,
     <1>22
  DEF Next, Step, Fault

\* Without duplicates and cut-offs a row that becomes claimable again has lost
\* its last message, claimant and consumer in the same step.
LEMMA ExclusiveStep ==
  TypeOK /\ Placed /\ Exclusive /\ SingleCopy /\ [Next]_vars => (Exclusive /\ SingleCopy)'
<1> SUFFICES ASSUME TypeOK, Placed, Exclusive, SingleCopy, [Next]_vars
             PROVE  (Exclusive /\ SingleCopy)'
  OBVIOUS
<1> USE OutboxAssumption DEF TypeOK, Status, Busy, local, Goto, Placed, Exclusive, SingleCopy, Holds, Handling
<1>1. ASSUME NEW e \in Events, InsertRow(e) PROVE (Exclusive /\ SingleCopy)'
  BY <1>1 DEF InsertRow, Inserted
<1>2. ASSUME NEW e \in Events, BecomeDue(e) PROVE (Exclusive /\ SingleCopy)'
  BY <1>2 DEF BecomeDue
<1>3. ASSUME NEW e \in Events, Duplicate(e) PROVE (Exclusive /\ SingleCopy)'
  BY <1>3 DEF Duplicate, Count
<1>4. ASSUME NEW w \in Workers, CronClaim(w) PROVE (Exclusive /\ SingleCopy)'
  BY <1>4 DEF CronClaim, StartClaim, Claimable, Claimed, Goto
<1>5. ASSUME NEW w \in Workers, RequestClaim(w) PROVE (Exclusive /\ SingleCopy)'
  BY <1>5 DEF RequestClaim, StartClaim, Claimable, Claimed, Goto
<1>6. ASSUME NEW w \in Workers, SendOk(w) PROVE (Exclusive /\ SingleCopy)'
  BY SMTT(90), <1>6 DEF SendOk
<1>7. ASSUME NEW w \in Workers, SendDone(w) PROVE (Exclusive /\ SingleCopy)'
  BY <1>7 DEF SendDone, AfterSend, Goto
<1>8. ASSUME NEW w \in Workers, ReadRow(w) PROVE (Exclusive /\ SingleCopy)'
  BY <1>8 DEF ReadRow, Goto
<1>9. ASSUME NEW w \in Workers, ApplyAtOnce(w) PROVE (Exclusive /\ SingleCopy)'
  BY <1>9 DEF ApplyAtOnce, Inserted, Goto
<1>10. ASSUME NEW w \in Workers, ApplyPlacement(w) PROVE (Exclusive /\ SingleCopy)'
  BY <1>10 DEF ApplyPlacement, Inserted, Goto
<1>11. ASSUME NEW w \in Workers, FinishPlacements(w) PROVE (Exclusive /\ SingleCopy)'
  BY <1>11 DEF FinishPlacements, Goto
<1>12. ASSUME NEW w \in Workers, Settle(w) PROVE (Exclusive /\ SingleCopy)'
  BY <1>12 DEF Settle, Goto
<1>13. ASSUME NEW w \in Workers, NestedClaim(w) PROVE (Exclusive /\ SingleCopy)'
  BY <1>13 DEF NestedClaim, Claimable, Claimed, Goto
<1>14. ASSUME NEW w \in Workers, MarkFailed(w) PROVE (Exclusive /\ SingleCopy)'
  <2>1. PICK e \in Events : e = job[w] /\ Handling(w, e) /\ ~Handling(w, e)'
    BY <1>14 DEF MarkFailed
  <2>2. SUFFICES ASSUME faults.dups = 0, faults.crashes = 0
                 PROVE  (Exclusive /\ SingleCopy)'
    BY <1>14 DEF MarkFailed
  <2>3. queue[e] = 0 /\ e \notin todo[w]
    <3>1. queue[e] \in Nat /\ queue[e] <= 1
      BY <2>2
    <3>2. queue[e] # 1 /\ e \notin todo[w]
      BY <2>1, <2>2
    <3> QED
      BY <3>1, <3>2
  <2>4. \A v \in Workers \ {w} : ~Holds(v, e)
    BY <2>1, <2>2
  <2>5. \A v \in Workers : ~Holds(v, e)'
    BY <1>14, <2>1, <2>3, <2>4 DEF MarkFailed
  <2>6. \A x \in Events \ {e} : row'[x] = row[x]
    BY <1>14, <2>1 DEF MarkFailed, MarkOutboxFailed
  <2>7. \A x \in Events : \A v \in Workers : Handling(v, x)' => Handling(v, x)
    BY <1>14 DEF MarkFailed
  <2> QED
    BY <1>14, <2>2, <2>3, <2>5, <2>6, <2>7 DEF MarkFailed
<1>15. ASSUME NEW w \in Workers, Ack(w) PROVE (Exclusive /\ SingleCopy)'
  BY <1>15 DEF Ack, Goto
<1>16. ASSUME NEW w \in Workers, SendFails(w) PROVE (Exclusive /\ SingleCopy)'
  <2>1. faults'.dups = faults.dups /\ faults'.crashes = faults.crashes
    BY <1>16 DEF SendFails, Count
  <2>2. SUFFICES ASSUME faults.dups = 0, faults.crashes = 0
                 PROVE  (Exclusive /\ SingleCopy)'
    BY <2>1
  <2>3. PICK e \in todo[w] : MarkOutboxFailed(e) /\ todo' = [todo EXCEPT ![w] = @ \ {e}]
    BY <1>16 DEF SendFails
  <2>4. e \in Events /\ queue[e] = 0 /\ ~Handling(w, e)
    BY SMTT(90), <2>2, <2>3
  <2>5. \A v \in Workers \ {w} : ~Holds(v, e)
    BY <2>2, <2>3, <2>4
  <2>6. \A v \in Workers : ~Holds(v, e)'
    BY <1>16, <2>3, <2>4, <2>5 DEF SendFails
  <2>7. \A x \in Events \ {e} : row'[x] = row[x]
    BY <2>3 DEF MarkOutboxFailed
  <2>8. \A x \in Events : \A v \in Workers : Holds(v, x)' => Holds(v, x)
    BY <1>16, <2>3 DEF SendFails
  <2> QED
    BY <1>16, <2>2, <2>3, <2>4, <2>6, <2>7, <2>8 DEF SendFails
<1>17. ASSUME NEW w \in Workers, SendAmbiguous(w) PROVE (Exclusive /\ SingleCopy)'
  BY <1>17 DEF SendAmbiguous, MarkOutboxFailed, Count
<1>18. ASSUME NEW w \in Workers, SendAborts(w) PROVE (Exclusive /\ SingleCopy)'
  BY <1>18 DEF SendAborts, Count, Goto
<1>19. ASSUME NEW w \in Workers, HandlerFails(w) PROVE (Exclusive /\ SingleCopy)'
  BY <1>19 DEF HandlerFails, Goto, Count, MayFail
<1>20. ASSUME NEW w \in Workers, Crash(w) PROVE (Exclusive /\ SingleCopy)'
  BY <1>20 DEF Crash, Count, Goto
<1>21. ASSUME NEW w \in Workers, NEW e \in Events, Receive(w, e) PROVE (Exclusive /\ SingleCopy)'
  BY <1>21 DEF Receive, Goto
<1>22. CASE UNCHANGED vars
  BY <1>22 DEF vars
<1> QED
  BY <1>1, <1>2, <1>3, <1>4, <1>5, <1>6, <1>7, <1>8, <1>9, <1>10, <1>11,
     <1>12, <1>13, <1>14, <1>15, <1>16, <1>17, <1>18, <1>19, <1>20, <1>21,
     <1>22
  DEF Next, Step, Fault

-----------------------------------------------------------------------------
(* The theorems.                                                           *)

\* The first state satisfies the invariant.
LEMMA InductiveInit == Init => Inductive
BY OutboxAssumption
   DEF Init, Inductive, TypeOK, Status, Busy, Placed, InTable, ClaimedIsOwed,
       Effects, Progress, Exclusive, SingleCopy, Holds, Handling

\* Every step keeps it.
LEMMA InductiveStep == Inductive /\ [Next]_vars => Inductive'
BY TypeStep, TableStep, ClaimStep, EffectsStep, ExclusiveStep DEF Inductive

\* The inductive invariant holds in every reachable state.
THEOREM Invariance == Spec => []Inductive
BY InductiveInit, InductiveStep, PTL DEF Spec

\* Every variable keeps its type, however many rows, invocations and faults.
THEOREM TypeCorrect == Spec => []TypeOK
<1>1. Inductive => TypeOK
  BY DEF Inductive
<1> QED
  BY Invariance, <1>1, PTL

\* No claimed row is ever without a message, a claimant or a consumer unless
\* an invocation ended between claiming it and sending it: the only way a row
\* of claimAndEnqueueOutbox can be stranded.
THEOREM ClaimsAreInFlight == Spec => []ClaimedInFlight
<1>1. Inductive => ClaimedInFlight
  BY DEF Inductive, ClaimedIsOwed, ClaimedInFlight, InFlight, Owes, Handling, Busy
<1> QED
  BY Invariance, <1>1, PTL

\* processOutboxJob never marks a row dispatched before its handler has
\* inserted every delivery row it owes, even when it fails and is run again.
THEOREM DispatchIsSound == Spec => []DispatchedIsApplied
<1>1. Inductive => DispatchedIsApplied
  BY DEF Inductive, Effects, DispatchedIsApplied
<1> QED
  BY Invariance, <1>1, PTL

\* Without duplicated messages and cut-off invocations, the claiming UPDATE
\* alone gives each row at most one message, claimant or consumer.
THEOREM ExactlyOneCopy == Spec => []SingleCopy
<1>1. Inductive => SingleCopy
  BY DEF Inductive
<1> QED
  BY Invariance, <1>1, PTL

-----------------------------------------------------------------------------
(* The outbox implements AtLeastOnce.                                      *)

\* Each step of the outbox is one of the abstract steps or a stutter.
LEMMA PromiseStep ==
  Inductive /\ [Next]_vars => [Promise!Next]_(Promise!promise)
<1> SUFFICES ASSUME Inductive, [Next]_vars
             PROVE  [Promise!Next]_(Promise!promise)
  OBVIOUS
<1> DEFINE Stutter == UNCHANGED <<Owed, applied>>
<1> USE OutboxAssumption
    DEF Inductive, TypeOK, Status, Busy, local, Goto, Placed, InTable, Owed
<1>1. ASSUME NEW e \in Events, InsertRow(e) PROVE Promise!Owe(e)
  BY <1>1 DEF InsertRow, Inserted, Promise!Owe
<1>2. ASSUME NEW w \in Workers, ApplyAtOnce(w) PROVE Promise!Apply(job[w])
  BY <1>2 DEF ApplyAtOnce, Inserted, Promise!Apply, Effects, Progress
<1>3. ASSUME NEW w \in Workers, ApplyPlacement(w) PROVE Promise!Spawn(job[w])
  <2>1. PICK c \in rest[w] : row' = Inserted({c})
    BY <1>3 DEF ApplyPlacement
  <2>2. c \in Children[job[w]] /\ job[w] \in Owed /\ c \in Events
    BY <1>3, <2>1 DEF ApplyPlacement, Effects, Progress
  <2>3. Owed' = Owed \cup {c}
    BY <2>1, <2>2 DEF Inserted
  <2> QED
    BY <1>3, <2>2, <2>3 DEF ApplyPlacement, Promise!Spawn
<1>4. ASSUME NEW w \in Workers, FinishPlacements(w) PROVE Promise!Apply(job[w])
  BY <1>4 DEF FinishPlacements, Promise!Apply, Effects, Progress
<1>5. ASSUME NEW w \in Workers, ApplyAtOnce(w) \/ ApplyPlacement(w) \/ FinishPlacements(w)
      PROVE  job[w] \in Events
  BY <1>5 DEF ApplyAtOnce, ApplyPlacement, FinishPlacements
<1>6. ASSUME NEW e \in Events, BecomeDue(e) PROVE Stutter
  BY <1>6 DEF BecomeDue
<1>7. ASSUME NEW e \in Events, Duplicate(e) PROVE Stutter
  BY <1>7 DEF Duplicate, Count
<1>8. ASSUME NEW w \in Workers, CronClaim(w) PROVE Stutter
  BY <1>8 DEF CronClaim, StartClaim, Claimable, Claimed
<1>9. ASSUME NEW w \in Workers, RequestClaim(w) PROVE Stutter
  BY <1>9 DEF RequestClaim, StartClaim, Claimable, Claimed
<1>10. ASSUME NEW w \in Workers, SendOk(w) PROVE Stutter
  BY <1>10 DEF SendOk
<1>11. ASSUME NEW w \in Workers, SendDone(w) PROVE Stutter
  BY <1>11 DEF SendDone, AfterSend
<1>12. ASSUME NEW w \in Workers, ReadRow(w) PROVE Stutter
  BY <1>12 DEF ReadRow
<1>13. ASSUME NEW w \in Workers, Settle(w) PROVE Stutter
  BY <1>13 DEF Settle
<1>14. ASSUME NEW w \in Workers, NestedClaim(w) PROVE Stutter
  BY <1>14 DEF NestedClaim, Claimable, Claimed
<1>15. ASSUME NEW w \in Workers, MarkFailed(w) PROVE Stutter
  BY <1>15 DEF MarkFailed, MarkOutboxFailed
<1>16. ASSUME NEW w \in Workers, Ack(w) PROVE Stutter
  BY <1>16 DEF Ack
<1>17. ASSUME NEW w \in Workers, SendFails(w) PROVE Stutter
  BY <1>17 DEF SendFails, MarkOutboxFailed, Count, MayFail
<1>18. ASSUME NEW w \in Workers, SendAmbiguous(w) PROVE Stutter
  BY <1>18 DEF SendAmbiguous, MarkOutboxFailed, Count
<1>19. ASSUME NEW w \in Workers, SendAborts(w) PROVE Stutter
  BY <1>19 DEF SendAborts, Count
<1>20. ASSUME NEW w \in Workers, HandlerFails(w) PROVE Stutter
  BY <1>20 DEF HandlerFails, Count, MayFail
<1>21. ASSUME NEW w \in Workers, Crash(w) PROVE Stutter
  BY <1>21 DEF Crash, Count
<1>22. ASSUME NEW w \in Workers, NEW e \in Events, Receive(w, e) PROVE Stutter
  BY <1>22 DEF Receive
<1>23. ASSUME UNCHANGED vars PROVE Stutter
  BY <1>23 DEF vars
<1> HIDE DEF Inductive, TypeOK, Placed, InTable, Stutter, Owed
<1>a. \/ \E e \in Events : Promise!Owe(e) \/ Promise!Spawn(e) \/ Promise!Apply(e)
      \/ Stutter
  BY <1>1, <1>2, <1>3, <1>4, <1>5, <1>6, <1>7, <1>8, <1>9, <1>10, <1>11, <1>12, <1>13,
     <1>14, <1>15, <1>16, <1>17, <1>18, <1>19, <1>20, <1>21,
     <1>22, <1>23
  DEF Next, Step, Fault
<1> QED
  BY <1>a DEF Stutter, Promise!Next, Promise!promise

\* The outbox implements what its users rely on: no effect without an inserted
\* row, no delivery row but those the handled event owes, no handler through
\* before all of them are in the table, and nothing of it ever taken back.
THEOREM OutboxKeepsPromise == Spec => KeepsPromise
<1>1. Init => Promise!Init
  BY DEF Init, Owed, Promise!Init
<1> QED
  BY <1>1, PromiseStep, Invariance, PTL DEF Spec, KeepsPromise, Promise!Spec

-----------------------------------------------------------------------------
(***************************************************************************)
(* Delivery: the attempts, consumers and outcomes of one recipient.        *)
(***************************************************************************)

(* The inductive invariant.                                                *)

\* What a consumer and an outcome request hold between two awaits.
Jobs ==
  {Idle} \cup [at : {"prepare", "settle"}, key : Keys]
    \cup [at : {"send"}, key : Keys, number : Numbers]
    \cup [at : {"record"}, key : Keys, number : Numbers,
          result : {"accepted", "failed", "blocked_external"}, retryable : BOOLEAN]
Reports == {Idle} \cup [at : {"commit"}, outcome : Outcome, seen : DeliveryStatus]

Requested == {k \in Keys : requestRow[k] # "absent"}
Opened == {k \in Keys : requestRow[k] = "open"}
Preparing == {c \in Consumers : consumer[c].at = "prepare"}

\* Every attempt, every consumer about to make one and every open request is
\* paid for by a request or a disturbance of its own.
Paid ==
  recipient.count + Cardinality(Opened) + Cardinality(Preparing)
    <= Cardinality(Requested) + disturbances

\* A recipient without an address is never requested, retried or reported on.
Untouched ==
  /\ recipient.count <= 1 /\ recipient.status \in {"none", "failed"}
  /\ recipient.status = "none" => recipient.count = 0
  /\ \A k \in Keys : requestRow[k] = "absent"
  /\ \A c \in Consumers : consumer[c] = Idle
  /\ \A d \in Desks : desk[d] = Idle
  /\ \A i \in Intakes : intake[i] = Idle
  /\ mail = {}

Delivered == \E o \in recorded : o.type = "delivered"

\* The ledger without its count.
Books ==
  /\ \A n \in Numbers : attempts[n].status # "none" <=> n <= recipient.count
  /\ \A n \in mail : n <= recipient.count
  /\ \A c \in Consumers : Sending(c) => consumer[c].number <= recipient.count
  /\ \A c, e \in Consumers :
       Sending(c) /\ Sending(e) /\ consumer[c].number = consumer[e].number => c = e
  /\ recipient.status = "delivered" => Delivered
  /\ \A i \in Intakes : intake[i] # Idle /\ intake[i].seen = "delivered" => Delivered

Held ==
  /\ consumer \in [Consumers -> Jobs]
  /\ intake \in [Intakes -> Reports]
  /\ desk = [d \in Desks |-> desk[d]]

DeliveryInductive ==
  /\ DeliveryTypeOK
  /\ Held
  /\ Books
  /\ IsFiniteSet(Preparing)
  /\ recipient.email => Paid /\ recipient.status \in DeliveryStatus
  /\ ~recipient.email => Untouched

-----------------------------------------------------------------------------
(* Counting.                                                               *)

\* There are finitely many keys, hence finitely many numbers, and a first one.
LEMMA NumbersAreNat == Cardinality(Keys) \in Nat /\ Numbers \subseteq Nat /\ 1 \in Numbers
<1>1. IsFiniteSet(Keys) /\ FirstKey \in Keys /\ MaxFaults \in Nat
  BY DeliveryAssumption
<1>2. Cardinality(Keys) \in Nat
  BY <1>1, FS_CardinalityType
<1>3. Cardinality(Keys) # 0
  BY <1>1, FS_EmptySet
<1> QED BY <1>1, <1>2, <1>3 DEF Numbers

\* The requested and the open keys are finitely many.
LEMMA KeysAreCounted ==
  /\ IsFiniteSet(Requested) /\ Cardinality(Requested) \in Nat
  /\ IsFiniteSet(Opened) /\ Cardinality(Opened) \in Nat
  /\ Cardinality(Requested) <= Cardinality(Keys)
<1>1. IsFiniteSet(Keys) /\ Requested \in SUBSET Keys /\ Opened \in SUBSET Keys
  BY DeliveryAssumption DEF Requested, Opened
<1>2. IsFiniteSet(Requested) /\ IsFiniteSet(Opened) /\ Cardinality(Requested) <= Cardinality(Keys)
  BY <1>1, FS_Subset
<1> QED BY <1>2, FS_CardinalityType

\* And so they will be.
LEMMA StillCounted ==
  /\ Cardinality(Opened) \in Nat /\ Cardinality(Opened') \in Nat
  /\ Cardinality(Requested) \in Nat /\ Cardinality(Requested') \in Nat
<1>1. /\ IsFiniteSet(Keys)
      /\ \A T \in SUBSET Keys : IsFiniteSet(T) /\ Cardinality(T) \in Nat
  BY DeliveryAssumption, FS_Subset, FS_CardinalityType
<1>2. /\ Requested \in SUBSET Keys /\ Opened \in SUBSET Keys
      /\ Requested' \in SUBSET Keys /\ Opened' \in SUBSET Keys
  BY DEF Requested, Opened
<1> QED BY <1>1, <1>2

\* What is paid stays paid: a step that opens a request, starts a consumer or
\* makes an attempt ends another of them, or is paid for by itself.
LEMMA PaidStays ==
  ASSUME DeliveryInductive, Paid, recipient'.count \in Nat, disturbances' \in Nat,
         IsFiniteSet(Preparing'),
         NEW o \in Int, NEW p \in Int, NEW r \in Int,
         Cardinality(Opened') <= Cardinality(Opened) + o,
         Cardinality(Preparing') <= Cardinality(Preparing) + p,
         Cardinality(Requested') >= Cardinality(Requested) + r,
         recipient'.count + o + p + disturbances <= recipient.count + r + disturbances'
  PROVE  Paid'
<1>1. recipient.count \in Nat /\ disturbances \in Nat /\ Cardinality(Preparing) \in Nat
  BY FS_CardinalityType, DeliveryAssumption DEF DeliveryInductive, DeliveryTypeOK
<1>2. /\ Cardinality(Opened) \in Nat /\ Cardinality(Opened') \in Nat
      /\ Cardinality(Requested) \in Nat /\ Cardinality(Requested') \in Nat
  BY StillCounted
<1>3. Cardinality(Preparing') \in Nat
  BY FS_CardinalityType
<1> QED BY <1>1, <1>2, <1>3 DEF Paid

\* A set with one element more, and with one less.
LEMMA OneMoreOrLess ==
  ASSUME NEW S, NEW x, IsFiniteSet(S)
  PROVE  /\ IsFiniteSet(S \cup {x}) /\ IsFiniteSet(S \ {x})
         /\ Cardinality(S \cup {x}) <= Cardinality(S) + 1
         /\ Cardinality(S \cup {x}) >= Cardinality(S) + 0
         /\ x \notin S => Cardinality(S \cup {x}) >= Cardinality(S) + 1
         /\ Cardinality(S \ {x}) <= Cardinality(S) + 0
         /\ x \in S => Cardinality(S \ {x}) <= Cardinality(S) + (-1)
<1>1. Cardinality(S) \in Nat
  BY FS_CardinalityType
<1>2. /\ IsFiniteSet(S \cup {x}) /\ IsFiniteSet(S \ {x})
      /\ Cardinality(S \cup {x}) = IF x \in S THEN Cardinality(S) ELSE Cardinality(S) + 1
      /\ Cardinality(S \ {x}) = IF x \in S THEN Cardinality(S) - 1 ELSE Cardinality(S)
  BY FS_AddElement, FS_RemoveElement
<1> QED BY <1>1, <1>2

\* A row that becomes open, which is a new request when it was absent.
LEMMA RowOpens ==
  ASSUME DeliveryTypeOK, NEW k \in Keys, requestRow' = [requestRow EXCEPT ![k] = "open"]
  PROVE  /\ Cardinality(Opened') <= Cardinality(Opened) + 1
         /\ Cardinality(Requested') >= Cardinality(Requested) + 0
         /\ requestRow[k] = "absent" => Cardinality(Requested') >= Cardinality(Requested) + 1
<1>1. Opened' = Opened \cup {k} /\ Requested' = Requested \cup {k}
  BY DEF DeliveryTypeOK, Opened, Requested
<1>2. requestRow[k] = "absent" => k \notin Requested
  BY DEF Requested
<1>3. /\ Cardinality(Opened \cup {k}) <= Cardinality(Opened) + 1
      /\ Cardinality(Requested \cup {k}) >= Cardinality(Requested) + 0
      /\ k \notin Requested => Cardinality(Requested \cup {k}) >= Cardinality(Requested) + 1
  BY KeysAreCounted, OneMoreOrLess
<1> QED BY <1>1, <1>2, <1>3

\* A row that is taken or settled is open no longer.
LEMMA RowCloses ==
  ASSUME DeliveryTypeOK, NEW k \in Keys, NEW x \in {"held", "settled"},
         requestRow' = [requestRow EXCEPT ![k] = x]
  PROVE  /\ Cardinality(Opened') <= Cardinality(Opened) + 0
         /\ requestRow[k] = "open" => Cardinality(Opened') <= Cardinality(Opened) + (-1)
         /\ Cardinality(Requested') >= Cardinality(Requested) + 0
<1>1. Opened' = Opened \ {k} /\ Requested' = Requested \cup {k}
  BY DEF DeliveryTypeOK, Opened, Requested
<1>2. requestRow[k] = "open" => k \in Opened
  BY DEF Opened
<1>3. /\ Cardinality(Opened \ {k}) <= Cardinality(Opened) + 0
      /\ k \in Opened => Cardinality(Opened \ {k}) <= Cardinality(Opened) + (-1)
      /\ Cardinality(Requested \cup {k}) >= Cardinality(Requested) + 0
  BY KeysAreCounted, OneMoreOrLess
<1> QED BY <1>1, <1>2, <1>3

\* A consumer that starts is about to make one attempt more.
LEMMA ConsumerStarts ==
  ASSUME Held, IsFiniteSet(Preparing), NEW c \in Consumers, NEW j, j.at = "prepare",
         consumer' = [consumer EXCEPT ![c] = j]
  PROVE  /\ IsFiniteSet(Preparing') /\ Cardinality(Preparing') <= Cardinality(Preparing) + 1
<1>1. Preparing' = Preparing \cup {c}
  BY DEF Held, Preparing
<1>2. /\ IsFiniteSet(Preparing \cup {c})
      /\ Cardinality(Preparing \cup {c}) <= Cardinality(Preparing) + 1
  BY OneMoreOrLess
<1> QED BY <1>1, <1>2

\* A consumer that goes on is about to make an attempt no longer.
LEMMA ConsumerGoesOn ==
  ASSUME Held, IsFiniteSet(Preparing), NEW c \in Consumers, NEW j, j.at # "prepare",
         consumer' = [consumer EXCEPT ![c] = j]
  PROVE  /\ IsFiniteSet(Preparing') /\ Cardinality(Preparing') <= Cardinality(Preparing) + 0
         /\ consumer[c].at = "prepare" => Cardinality(Preparing') <= Cardinality(Preparing) + (-1)
<1>1. Preparing' = Preparing \ {c}
  BY DEF Held, Preparing
<1>2. consumer[c].at = "prepare" => c \in Preparing
  BY DEF Preparing
<1>3. /\ IsFiniteSet(Preparing \ {c})
      /\ Cardinality(Preparing \ {c}) <= Cardinality(Preparing) + 0
      /\ c \in Preparing => Cardinality(Preparing \ {c}) <= Cardinality(Preparing) + (-1)
  BY OneMoreOrLess
<1> QED BY <1>1, <1>2, <1>3

-----------------------------------------------------------------------------
(* Consumers.                                                              *)

\* Somebody who holds something works for an addressed recipient.
LEMMA WorkIsAddressed ==
  ASSUME DeliveryInductive,
         \/ \E c \in Consumers : consumer[c] # Idle
         \/ \E k \in Keys : requestRow[k] # "absent"
         \/ \E d \in Desks : desk[d] # Idle
         \/ \E i \in Intakes : intake[i] # Idle
  PROVE  recipient.email /\ Paid /\ recipient.status \in DeliveryStatus
  BY DEF DeliveryInductive, Untouched

\* Which record a consumer holds is told by the step it is at.
LEMMA JobsTyped ==
  ASSUME NEW j \in Jobs
  PROVE  /\ j # Idle <=> j.at \in {"prepare", "send", "record", "settle"}
         /\ j # Idle => j.key \in Keys
         /\ j.at \in {"send", "record"} => j.number \in Numbers
         /\ j.at = "record" =>
              j.result \in {"accepted", "failed", "blocked_external"} /\ j.retryable \in BOOLEAN
  BY DEF Jobs, Idle

\* A consumer's step that writes neither the recipient nor an attempt: what it
\* sends is the attempt it made.
LEMMA ConsumerStep ==
  ASSUME DeliveryInductive, NEW c \in Consumers, NEW j \in Jobs,
         consumer' = [consumer EXCEPT ![c] = j],
         j.at \in {"send", "record"} => Sending(c) /\ j.number = consumer[c].number,
         UNCHANGED <<recipient, attempts, desk, intake, recorded>>,
         mail' = mail \/ (Sending(c) /\ mail' = mail \cup {consumer[c].number}),
         requestRow' \in [Keys -> {"absent", "open", "held", "settled"}],
         disturbances' \in 0..MaxFaults,
         recipient.email, IsFiniteSet(Preparing'), Paid'
  PROVE  DeliveryInductive'
<1>1. consumer \in [Consumers -> Jobs]
  BY DEF DeliveryInductive, Held
<1>2. \A e \in Consumers : consumer'[e] = IF e = c THEN j ELSE consumer[e]
  BY <1>1
<1>3. consumer' \in [Consumers -> Jobs]
  BY <1>1
<1>4. Sending(c) => consumer[c].number \in Numbers /\ consumer[c].number <= recipient.count
  BY <1>1, JobsTyped DEF DeliveryInductive, Books, Sending
<1>5. \A e \in Consumers : Sending(e)' => Sending(e) /\ consumer'[e].number = consumer[e].number
  BY <1>2 DEF Sending
<1>6. Books'
  <2>1. /\ \A n \in Numbers : attempts'[n].status # "none" <=> n <= recipient'.count
        /\ \A n \in mail' : n <= recipient'.count
    BY <1>4 DEF DeliveryInductive, Books
  <2>2. \A e \in Consumers : Sending(e)' => consumer'[e].number <= recipient'.count
    BY <1>5 DEF DeliveryInductive, Books
  <2>3. \A e, f \in Consumers :
          Sending(e)' /\ Sending(f)' /\ consumer'[e].number = consumer'[f].number => e = f
    BY <1>5 DEF DeliveryInductive, Books
  <2>4. /\ recipient'.status = "delivered" => Delivered'
        /\ \A i \in Intakes : intake'[i] # Idle /\ intake'[i].seen = "delivered" => Delivered'
    BY DEF DeliveryInductive, Books, Delivered
  <2> QED BY <2>1, <2>2, <2>3, <2>4 DEF Books
<1>7. DeliveryTypeOK'
  BY <1>4 DEF DeliveryInductive, DeliveryTypeOK
<1>8. Held'
  BY <1>3 DEF DeliveryInductive, Held
<1> QED BY <1>6, <1>7, <1>8 DEF DeliveryInductive

\* The counts of disturbances and attempts are numbers.
LEMMA CountsTyped ==
  ASSUME DeliveryTypeOK
  PROVE  /\ recipient.count \in Nat /\ disturbances \in Nat /\ disturbances \in 0..MaxFaults
         /\ disturbances < MaxFaults => disturbances + 1 \in 0..MaxFaults
         /\ requestRow \in [Keys -> {"absent", "open", "held", "settled"}]
  BY DeliveryAssumption DEF DeliveryTypeOK

\* A consumer takes an open request, or one that another consumer has.
LEMMA StartStep ==
  ASSUME DeliveryInductive, NEW c \in Consumers, NEW k \in Keys, Start(c, k)
  PROVE  DeliveryInductive'
<1>1. DeliveryTypeOK /\ Held /\ IsFiniteSet(Preparing)
  BY DEF DeliveryInductive
<1>2. PICK j : j = [at |-> "prepare", key |-> k]
  OBVIOUS
<1>3. j \in Jobs /\ j.at = "prepare"
  BY <1>2 DEF Jobs
<1>4. consumer' = [consumer EXCEPT ![c] = j]
  BY <1>2 DEF Start
<1>5. IsFiniteSet(Preparing') /\ Cardinality(Preparing') <= Cardinality(Preparing) + 1
  BY <1>1, <1>3, <1>4, ConsumerStarts
<1>6. recipient.email /\ Paid
  BY WorkIsAddressed DEF Start
<1>7. /\ requestRow' = [requestRow EXCEPT ![k] = "held"]
      /\ UNCHANGED <<recipient, attempts, desk, intake, mail, recorded>>
  BY DEF Start
<1>8. requestRow' \in [Keys -> {"absent", "open", "held", "settled"}]
  BY <1>1, <1>7, CountsTyped
<1>9. Paid' /\ disturbances' \in 0..MaxFaults
  <2>1. CASE requestRow[k] = "open" /\ disturbances' = disturbances
    <3>1. /\ Cardinality(Opened') <= Cardinality(Opened) + (-1)
          /\ Cardinality(Requested') >= Cardinality(Requested) + 0
      BY <1>1, <1>7, <2>1, RowCloses
    <3>2. recipient'.count + (-1) + 1 + disturbances <= recipient.count + 0 + disturbances'
      BY <1>1, <1>7, <2>1, CountsTyped
    <3> QED BY <1>1, <1>5, <1>6, <1>7, <2>1, <3>1, <3>2, CountsTyped, PaidStays
  <2>2. CASE disturbances < MaxFaults /\ disturbances' = disturbances + 1
    <3>1. /\ Cardinality(Opened') <= Cardinality(Opened) + 0
          /\ Cardinality(Requested') >= Cardinality(Requested) + 0
      BY <1>1, <1>7, RowCloses
    <3>2. recipient'.count + 0 + 1 + disturbances <= recipient.count + 0 + disturbances'
      BY <1>1, <1>7, <2>2, CountsTyped
    <3> QED BY <1>1, <1>5, <1>6, <1>7, <2>2, <3>1, <3>2, CountsTyped, PaidStays
  <2> QED BY <2>1, <2>2 DEF Start
<1> QED BY <1>3, <1>4, <1>5, <1>6, <1>7, <1>8, <1>9, ConsumerStep

\* A consumer goes on without a new attempt: what it leaves to be paid is no
\* more than it was.
LEMMA GoesOnPaid ==
  ASSUME DeliveryInductive, NEW c \in Consumers, NEW j \in Jobs, j.at # "prepare",
         consumer[c] # Idle, consumer' = [consumer EXCEPT ![c] = j],
         recipient'.count = recipient.count,
         \/ requestRow' = requestRow
         \/ \E k \in Keys : requestRow' = [requestRow EXCEPT ![k] = "settled"],
         disturbances' = disturbances
  PROVE  recipient.email /\ IsFiniteSet(Preparing') /\ Paid'
<1>1. DeliveryTypeOK /\ Held /\ IsFiniteSet(Preparing)
  BY DEF DeliveryInductive
<1>2. IsFiniteSet(Preparing') /\ Cardinality(Preparing') <= Cardinality(Preparing) + 0
  BY <1>1, ConsumerGoesOn
<1>3. recipient.email /\ Paid
  BY WorkIsAddressed
<1>4. /\ Cardinality(Opened') <= Cardinality(Opened) + 0
      /\ Cardinality(Requested') >= Cardinality(Requested) + 0
  <2>1. CASE requestRow' = requestRow
    <3>1. Opened' = Opened /\ Requested' = Requested
      BY <2>1 DEF Opened, Requested
    <3> QED BY <3>1, KeysAreCounted
  <2>2. ASSUME NEW k \in Keys, requestRow' = [requestRow EXCEPT ![k] = "settled"]
        PROVE  /\ Cardinality(Opened') <= Cardinality(Opened) + 0
               /\ Cardinality(Requested') >= Cardinality(Requested) + 0
    BY <1>1, <2>2, RowCloses
  <2> QED BY <2>1, <2>2
<1>5. recipient'.count + 0 + 0 + disturbances <= recipient.count + 0 + disturbances'
  BY <1>1, CountsTyped
<1> QED BY <1>1, <1>2, <1>3, <1>4, <1>5, CountsTyped, PaidStays

\* Reading a terminal recipient, calling the provider, settling the request.
LEMMA QuietSteps ==
  ASSUME DeliveryInductive, NEW c \in Consumers,
         PrepareTerminal(c) \/ NotConfigured(c) \/ ProviderAccepts(c) \/ ProviderFails(c)
           \/ SettleRequest(c)
  PROVE  DeliveryInductive'
<1>1. DeliveryTypeOK /\ consumer[c] \in Jobs
  BY DEF DeliveryInductive, Held
<1>2. consumer[c] # Idle /\ consumer[c].key \in Keys
  BY <1>1, JobsTyped DEF PrepareTerminal, NotConfigured, ProviderAccepts, ProviderFails,
     SettleRequest
<1>3. CASE PrepareTerminal(c)
  <2>1. PICK j : j = [at |-> "settle", key |-> consumer[c].key]
    OBVIOUS
  <2>2. j \in Jobs /\ j.at = "settle"
    BY <1>2, <2>1 DEF Jobs
  <2>3. /\ consumer' = [consumer EXCEPT ![c] = j]
        /\ UNCHANGED <<recipient, attempts, requestRow, desk, intake, mail, recorded, disturbances>>
    BY <1>3, <2>1 DEF PrepareTerminal
  <2>4. recipient.email /\ IsFiniteSet(Preparing') /\ Paid'
    BY <1>2, <2>2, <2>3, GoesOnPaid
  <2> QED BY <1>1, <2>2, <2>3, <2>4, CountsTyped, ConsumerStep
<1>4. CASE SettleRequest(c)
  <2>1. PICK k \in Keys : k = consumer[c].key
    BY <1>2
  <2>2. PICK j : j = Idle
    OBVIOUS
  <2>3. j \in Jobs /\ j.at = "idle"
    BY <2>2 DEF Jobs, Idle
  <2>4. /\ consumer' = [consumer EXCEPT ![c] = j]
        /\ requestRow' = [requestRow EXCEPT ![k] = "settled"]
        /\ UNCHANGED <<recipient, attempts, desk, intake, mail, recorded, disturbances>>
    BY <1>4, <2>1, <2>2 DEF SettleRequest
  <2>5. recipient.email /\ IsFiniteSet(Preparing') /\ Paid'
    BY <1>2, <2>3, <2>4, GoesOnPaid
  <2>6. requestRow' \in [Keys -> {"absent", "open", "held", "settled"}]
    BY <1>1, <2>4, CountsTyped
  <2> QED BY <1>1, <2>3, <2>4, <2>5, <2>6, CountsTyped, ConsumerStep
<1>5. CASE NotConfigured(c) \/ ProviderAccepts(c) \/ ProviderFails(c)
  <2>1. consumer[c].at = "send" /\ consumer[c].number \in Numbers
    BY <1>1, <1>5, JobsTyped DEF NotConfigured, ProviderAccepts, ProviderFails
  <2>2. PICK result \in {"accepted", "failed", "blocked_external"}, retryable \in BOOLEAN :
          Answer(c, result, retryable)
    BY <1>5 DEF NotConfigured, ProviderAccepts, ProviderFails
  <2>3. PICK j : j = [at |-> "record", key |-> consumer[c].key, number |-> consumer[c].number,
                      result |-> result, retryable |-> retryable]
    OBVIOUS
  <2>4. j \in Jobs /\ j.at = "record" /\ j.number = consumer[c].number
    BY <1>2, <2>1, <2>3 DEF Jobs
  <2>5. consumer' = [consumer EXCEPT ![c] = j]
    BY <2>2, <2>3 DEF Answer
  <2>6. /\ UNCHANGED <<recipient, attempts, requestRow, desk, intake, recorded, disturbances>>
        /\ mail' = mail \/ mail' = mail \cup {consumer[c].number}
    BY <1>5 DEF NotConfigured, ProviderAccepts, ProviderFails
  <2>7. recipient.email /\ IsFiniteSet(Preparing') /\ Paid'
    BY <1>2, <2>4, <2>5, <2>6, GoesOnPaid
  <2>8. Sending(c)
    BY <2>1 DEF Sending
  <2> QED BY <1>1, <2>4, <2>5, <2>6, <2>7, <2>8, CountsTyped, ConsumerStep
<1> QED BY <1>3, <1>4, <1>5

\* A consumer that throws or is cut off: its request may be open again, which
\* its disturbance pays for.
LEMMA FaultSteps ==
  ASSUME DeliveryInductive, NEW c \in Consumers, Throw(c) \/ ConsumerCrash(c)
  PROVE  DeliveryInductive'
<1>1. DeliveryTypeOK /\ Held /\ IsFiniteSet(Preparing) /\ consumer[c] \in Jobs
  BY DEF DeliveryInductive, Held
<1>2. consumer[c] # Idle /\ consumer[c].key \in Keys
  BY <1>1, JobsTyped DEF Throw, ConsumerCrash
<1>3. PICK k \in Keys : k = consumer[c].key
  BY <1>2
<1>4. PICK j : j = Idle
  OBVIOUS
<1>5. j \in Jobs /\ j.at = "idle"
  BY <1>4 DEF Jobs, Idle
<1>6. /\ consumer' = [consumer EXCEPT ![c] = j]
      /\ disturbances < MaxFaults /\ disturbances' = disturbances + 1
      /\ UNCHANGED <<recipient, attempts, desk, intake, mail, recorded>>
  BY <1>4 DEF Throw, ConsumerCrash
<1>7. \/ requestRow' = [requestRow EXCEPT ![k] = "open"]
      \/ requestRow' = [requestRow EXCEPT ![k] = "settled"]
  <2>1. CASE Throw(c)
    BY <1>3, <2>1 DEF Throw
  <2>2. CASE ConsumerCrash(c)
    BY <1>1, <1>3, <2>2 DEF ConsumerCrash, DeliveryTypeOK
  <2> QED BY <2>1, <2>2
<1>8. /\ Cardinality(Opened') <= Cardinality(Opened) + 1
      /\ Cardinality(Requested') >= Cardinality(Requested) + 0
  <2>1. CASE requestRow' = [requestRow EXCEPT ![k] = "open"]
    BY <1>1, <2>1, RowOpens
  <2>2. CASE requestRow' = [requestRow EXCEPT ![k] = "settled"]
    <3>1. Cardinality(Opened') <= Cardinality(Opened) + 0
          /\ Cardinality(Requested') >= Cardinality(Requested) + 0
      BY <1>1, <2>2, RowCloses
    <3> QED BY <3>1, StillCounted
  <2> QED BY <1>7, <2>1, <2>2
<1>9. IsFiniteSet(Preparing') /\ Cardinality(Preparing') <= Cardinality(Preparing) + 0
  BY <1>1, <1>5, <1>6, ConsumerGoesOn
<1>10. recipient'.count + 1 + 0 + disturbances <= recipient.count + 0 + disturbances'
  BY <1>1, <1>6, CountsTyped
<1>11. recipient.email /\ Paid
  BY <1>2, WorkIsAddressed
<1>12. Paid'
  BY <1>1, <1>6, <1>8, <1>9, <1>10, <1>11, CountsTyped, PaidStays
<1>13. requestRow' \in [Keys -> {"absent", "open", "held", "settled"}]
  BY <1>1, <1>7, CountsTyped
<1> QED BY <1>1, <1>5, <1>6, <1>9, <1>11, <1>12, <1>13, CountsTyped, ConsumerStep

\* A new attempt has the next number: there is room for it because it is paid
\* for, and no other consumer can have it.
LEMMA PrepareStep ==
  ASSUME DeliveryInductive, NEW c \in Consumers, Prepare(c)
  PROVE  DeliveryInductive'
<1>1. DeliveryTypeOK /\ Held /\ IsFiniteSet(Preparing) /\ consumer[c] \in Jobs
  BY DEF DeliveryInductive, Held
<1>2. consumer[c] # Idle /\ consumer[c].key \in Keys /\ consumer[c].at = "prepare"
  BY <1>1, JobsTyped DEF Prepare
<1>3. recipient.email /\ Paid
  BY <1>2, WorkIsAddressed
<1>4. PICK n : n = recipient.count + 1
  OBVIOUS
<1>5. PICK j : j = [at |-> "send", key |-> consumer[c].key, number |-> n]
  OBVIOUS
<1>6. /\ consumer' = [consumer EXCEPT ![c] = j]
      /\ attempts' = [attempts EXCEPT ![n].status = "sending"]
      /\ recipient' = [recipient EXCEPT !.status = "sending", !.count = n, !.error = "none"]
      /\ UNCHANGED <<requestRow, desk, intake, mail, recorded, disturbances>>
  BY <1>4, <1>5 DEF Prepare, AttemptNumber
<1>7. n \in Numbers
  <2>1. Cardinality(Preparing) \in Nat /\ Cardinality(Preparing) # 0
    BY <1>1, <1>2, FS_CardinalityType, FS_EmptySet DEF Preparing
  <2>2. /\ Cardinality(Opened) \in Nat /\ Cardinality(Requested) \in Nat
        /\ Cardinality(Requested) <= Cardinality(Keys)
        /\ Cardinality(Keys) \in Nat
    BY KeysAreCounted, NumbersAreNat
  <2>3. recipient.count \in Nat /\ disturbances \in 0..MaxFaults /\ MaxFaults \in Nat
    BY <1>1, CountsTyped, DeliveryAssumption
  <2> QED BY <1>3, <1>4, <2>1, <2>2, <2>3 DEF Paid, Numbers
<1>8. j \in Jobs /\ j.at = "send" /\ j.number = n
  BY <1>2, <1>5, <1>7 DEF Jobs
<1>9. n \in Nat /\ recipient.count \in Nat /\ recipient.count < n
  BY <1>1, <1>4, CountsTyped
<1>10. /\ recipient'.status = "sending" /\ recipient'.count = n /\ recipient'.email = recipient.email
       /\ recipient' \in [status : DeliveryStatus \cup {"none"}, count : Nat, email : BOOLEAN,
                          error : ErrorCodes, message : Numbers \cup {0}]
  BY <1>1, <1>6, <1>9 DEF DeliveryTypeOK, DeliveryStatus, ErrorCodes
<1>11. /\ attempts' \in [Numbers -> [status : AttemptStatus, retryable : BOOLEAN]]
       /\ \A m \in Numbers : attempts'[m].status = IF m = n THEN "sending" ELSE attempts[m].status
  BY <1>1, <1>6, <1>7 DEF DeliveryTypeOK, AttemptStatus
<1>12. DeliveryTypeOK'
  BY <1>1, <1>6, <1>10, <1>11 DEF DeliveryTypeOK
<1>13. consumer' \in [Consumers -> Jobs]
       /\ \A e \in Consumers : consumer'[e] = IF e = c THEN j ELSE consumer[e]
  BY <1>1, <1>6, <1>8 DEF Held
<1>14. Held'
  BY <1>1, <1>6, <1>13 DEF Held
<1>15. Books'
  <2>1. \A m \in Numbers : attempts'[m].status # "none" <=> m <= recipient'.count
    BY <1>4, <1>9, <1>10, <1>11, NumbersAreNat DEF DeliveryInductive, Books
  <2>2. \A m \in mail' : m <= recipient'.count
    BY <1>1, <1>6, <1>9, <1>10, NumbersAreNat DEF DeliveryInductive, Books, DeliveryTypeOK
  <2>3. \A e \in Consumers : Sending(e) =>
          consumer[e].number \in Nat /\ consumer[e].number <= recipient.count
    BY <1>1, JobsTyped, NumbersAreNat DEF DeliveryInductive, Books, Held, Sending
  <2>4. \A e \in Consumers : Sending(e)' => consumer'[e].number <= recipient'.count
    BY <1>8, <1>9, <1>10, <1>13, <2>3 DEF Sending
  <2>5. \A e, f \in Consumers :
          Sending(e)' /\ Sending(f)' /\ consumer'[e].number = consumer'[f].number => e = f
    BY <1>8, <1>9, <1>13, <2>3 DEF DeliveryInductive, Books, Sending
  <2>6. \A i \in Intakes : intake'[i] # Idle /\ intake'[i].seen = "delivered" => Delivered'
    BY <1>6 DEF DeliveryInductive, Books, Delivered
  <2> QED BY <1>10, <2>1, <2>2, <2>4, <2>5, <2>6 DEF Books
<1>16. IsFiniteSet(Preparing') /\ Cardinality(Preparing') <= Cardinality(Preparing) + (-1)
  BY <1>1, <1>2, <1>6, <1>8, ConsumerGoesOn
<1>17. Paid'
  <2>1. Opened' = Opened /\ Requested' = Requested
    BY <1>6 DEF Opened, Requested
  <2>2. /\ Cardinality(Opened') <= Cardinality(Opened) + 0
        /\ Cardinality(Requested') >= Cardinality(Requested) + 0
    BY <2>1, KeysAreCounted
  <2>3. recipient'.count + 0 + (-1) + disturbances <= recipient.count + 0 + disturbances'
    BY <1>1, <1>4, <1>6, <1>10, CountsTyped
  <2> QED BY <1>1, <1>3, <1>6, <1>9, <1>10, <1>16, <2>2, <2>3, CountsTyped, PaidStays
<1> QED BY <1>3, <1>10, <1>12, <1>14, <1>15, <1>16, <1>17 DEF DeliveryInductive, DeliveryStatus

\* A step that leaves the consumers, the count and the ledger's numbers alone
\* and gives the addressed recipient another status.
LEMMA StatusStep ==
  ASSUME DeliveryInductive, recipient.email,
         UNCHANGED <<consumer, mail, disturbances>>,
         recipient' \in [status : DeliveryStatus, count : Nat, email : BOOLEAN,
                         error : ErrorCodes, message : Numbers \cup {0}],
         recipient'.count = recipient.count, recipient'.email,
         attempts' = attempts,
         requestRow' \in [Keys -> {"absent", "open", "held", "settled"}],
         desk' = [d \in Desks |-> desk'[d]], intake' \in [Intakes -> Reports],
         recorded \subseteq recorded', recorded' \subseteq Outcome,
         recipient'.status = "delivered" => Delivered',
         \A i \in Intakes : intake'[i] # Idle /\ intake'[i].seen = "delivered" => Delivered',
         Paid'
  PROVE  DeliveryInductive'
<1>1. DeliveryTypeOK'
  BY DEF DeliveryInductive, DeliveryTypeOK
<1>2. Held'
  BY DEF DeliveryInductive, Held
<1>3. Books'
  BY DEF DeliveryInductive, Books, Sending
<1>4. Preparing' = Preparing
  BY DEF Preparing
<1> QED BY <1>1, <1>2, <1>3, <1>4 DEF DeliveryInductive

\* Recording the answer: the attempt exists already, and its number is free.
LEMMA RecordSteps ==
  ASSUME DeliveryInductive, NEW c \in Consumers, RecordAccepted(c) \/ FinalizeFailedAttempt(c)
  PROVE  DeliveryInductive'
<1>1. DeliveryTypeOK /\ Held /\ IsFiniteSet(Preparing) /\ consumer[c] \in Jobs
  BY DEF DeliveryInductive, Held
<1>2. consumer[c] # Idle /\ consumer[c].key \in Keys /\ consumer[c].at = "record"
  BY <1>1, JobsTyped DEF RecordAccepted, FinalizeFailedAttempt
<1>3. PICK n \in Numbers : n = consumer[c].number
  BY <1>1, <1>2, JobsTyped
<1>4. PICK result \in {"accepted", "failed", "blocked_external"} : result = consumer[c].result
  BY <1>1, <1>2, JobsTyped
<1>5. PICK j : j = [at |-> "settle", key |-> consumer[c].key]
  OBVIOUS
<1>6. j \in Jobs /\ j.at = "settle"
  BY <1>2, <1>5 DEF Jobs
<1>7. /\ consumer' = [consumer EXCEPT ![c] = j]
      /\ UNCHANGED <<requestRow, desk, intake, mail, recorded, disturbances>>
  BY <1>5 DEF RecordAccepted, FinalizeFailedAttempt
<1>8. /\ attempts' \in [Numbers -> [status : AttemptStatus, retryable : BOOLEAN]]
      /\ \A m \in Numbers :
           attempts'[m].status = IF m = n THEN result ELSE attempts[m].status
  <2>1. CASE RecordAccepted(c)
    <3>1. attempts' = [attempts EXCEPT ![n].status = "accepted"] /\ result = "accepted"
      BY <1>3, <1>4, <2>1 DEF RecordAccepted
    <3> QED BY <1>1, <3>1 DEF DeliveryTypeOK, AttemptStatus
  <2>2. CASE FinalizeFailedAttempt(c)
    <3>1. PICK retryable \in BOOLEAN : retryable = consumer[c].retryable
      BY <1>1, <1>2, JobsTyped
    <3>2. PICK a : a = [status |-> result, retryable |-> retryable]
      OBVIOUS
    <3>3. attempts' = [attempts EXCEPT ![n] = a]
      BY <1>3, <1>4, <2>2, <3>1, <3>2 DEF FinalizeFailedAttempt
    <3>4. a \in [status : AttemptStatus, retryable : BOOLEAN] /\ a.status = result
      BY <3>2 DEF AttemptStatus
    <3> QED BY <1>1, <3>3, <3>4 DEF DeliveryTypeOK
  <2> QED BY <2>1, <2>2
<1>9. /\ recipient'.status = result /\ recipient'.count = recipient.count
      /\ recipient'.email = recipient.email
      /\ recipient' \in [status : DeliveryStatus \cup {"none"}, count : Nat, email : BOOLEAN,
                         error : ErrorCodes, message : Numbers \cup {0}]
  <2>1. CASE RecordAccepted(c)
    <3>1. recipient' = [recipient EXCEPT !.status = "accepted", !.message = n]
          /\ result = "accepted"
      BY <1>3, <1>4, <2>1 DEF RecordAccepted
    <3> QED BY <1>1, <3>1 DEF DeliveryTypeOK, DeliveryStatus
  <2>2. CASE FinalizeFailedAttempt(c)
    <3>1. PICK code \in ErrorCodes : code = FailureCode(result)
      BY DEF FailureCode, ErrorCodes
    <3>2. recipient' = [recipient EXCEPT !.status = result, !.error = code]
      BY <1>4, <2>2, <3>1 DEF FinalizeFailedAttempt
    <3> QED BY <1>1, <3>2 DEF DeliveryTypeOK, DeliveryStatus
  <2> QED BY <2>1, <2>2
<1>10. recipient.email /\ IsFiniteSet(Preparing') /\ Paid'
  BY <1>2, <1>6, <1>7, <1>9, GoesOnPaid
<1>11. consumer' \in [Consumers -> Jobs]
       /\ \A e \in Consumers : consumer'[e] = IF e = c THEN j ELSE consumer[e]
  BY <1>1, <1>6, <1>7 DEF Held
<1>12. Held' /\ DeliveryTypeOK'
  BY <1>1, <1>7, <1>8, <1>9, <1>11 DEF Held, DeliveryTypeOK
<1>13. Books'
  <2>1. attempts[n].status # "none"
    BY <1>2, <1>3 DEF DeliveryInductive, Books, Sending
  <2>2. \A m \in Numbers : attempts'[m].status # "none" <=> m <= recipient'.count
    BY <1>8, <1>9, <2>1 DEF DeliveryInductive, Books
  <2>3. \A e \in Consumers : Sending(e)' => Sending(e) /\ consumer'[e] = consumer[e]
    BY <1>6, <1>11 DEF Sending
  <2>4. /\ \A m \in mail' : m <= recipient'.count
        /\ \A e \in Consumers : Sending(e)' => consumer'[e].number <= recipient'.count
        /\ \A e, f \in Consumers :
             Sending(e)' /\ Sending(f)' /\ consumer'[e].number = consumer'[f].number => e = f
        /\ \A i \in Intakes : intake'[i] # Idle /\ intake'[i].seen = "delivered" => Delivered'
    BY <1>7, <1>9, <2>3 DEF DeliveryInductive, Books, Delivered
  <2> QED BY <1>9, <2>2, <2>4 DEF Books
<1> QED BY <1>9, <1>10, <1>12, <1>13 DEF DeliveryInductive, DeliveryStatus

-----------------------------------------------------------------------------
(* Queueing, retries and provider reports.                                 *)

\* An addressed recipient starts with one request, another one with nothing.
LEMMA QueueSteps ==
  ASSUME DeliveryInductive, QueueAddressed \/ QueueUnaddressed
  PROVE  DeliveryInductive'
<1>1. DeliveryTypeOK /\ Held /\ Books /\ IsFiniteSet(Preparing)
  BY DEF DeliveryInductive
<1>2. Untouched /\ recipient.count = 0 /\ recipient.status = "none"
  BY DEF DeliveryInductive, Untouched, QueueAddressed, QueueUnaddressed, DeliveryStatus
<1>3. UNCHANGED <<consumer, desk, intake, mail, recorded, disturbances>>
  BY DEF QueueAddressed, QueueUnaddressed
<1>4. Held' /\ Preparing' = Preparing /\ Delivered' = Delivered
  BY <1>1, <1>3 DEF Held, Preparing, Delivered
<1>5. CASE QueueAddressed
  <2>1. /\ recipient' = [recipient EXCEPT !.status = "queued", !.email = TRUE]
        /\ requestRow' = [requestRow EXCEPT ![FirstKey] = "open"]
        /\ attempts' = attempts
    BY <1>5 DEF QueueAddressed
  <2>2. /\ recipient'.status = "queued" /\ recipient'.count = 0 /\ recipient'.email
        /\ recipient' \in [status : DeliveryStatus \cup {"none"}, count : Nat, email : BOOLEAN,
                           error : ErrorCodes, message : Numbers \cup {0}]
    BY <1>1, <1>2, <2>1 DEF DeliveryTypeOK, DeliveryStatus
  <2>3. DeliveryTypeOK'
    BY <1>1, <1>3, <2>1, <2>2, DeliveryAssumption DEF DeliveryTypeOK
  <2>4. Books'
    BY <1>1, <1>2, <1>3, <1>4, <2>1, <2>2 DEF Books, Sending
  <2>5. Paid'
    <3>1. Opened' = {FirstKey} /\ Requested' = {FirstKey}
      BY <1>1, <1>2, <2>1, DeliveryAssumption DEF Untouched, Opened, Requested, DeliveryTypeOK
    <3>2. Preparing' = {}
      BY <1>2, <1>3 DEF Untouched, Preparing, Idle
    <3>3. Cardinality(Opened') = 1 /\ Cardinality(Requested') = 1 /\ Cardinality(Preparing') = 0
      BY <3>1, <3>2, FS_Singleton, FS_EmptySet
    <3> QED BY <1>1, <1>3, <2>2, <3>3, CountsTyped DEF Paid
  <2> QED BY <1>1, <1>4, <2>2, <2>3, <2>4, <2>5 DEF DeliveryInductive, DeliveryStatus
<1>6. CASE QueueUnaddressed
  <2>1. /\ recipient' = [recipient EXCEPT !.status = "failed", !.count = 1, !.error = "email_missing"]
        /\ attempts' = [attempts EXCEPT ![1].status = "failed"]
        /\ requestRow' = requestRow
    BY <1>6 DEF QueueUnaddressed
  <2>2. /\ recipient'.status = "failed" /\ recipient'.count = 1
        /\ recipient'.email = recipient.email
        /\ recipient' \in [status : DeliveryStatus \cup {"none"}, count : Nat, email : BOOLEAN,
                           error : ErrorCodes, message : Numbers \cup {0}]
    BY <1>1, <2>1 DEF DeliveryTypeOK, DeliveryStatus, ErrorCodes
  <2>3. /\ attempts' \in [Numbers -> [status : AttemptStatus, retryable : BOOLEAN]]
        /\ \A m \in Numbers :
             attempts'[m].status = IF m = 1 THEN "failed" ELSE attempts[m].status
    BY <1>1, <2>1, NumbersAreNat DEF DeliveryTypeOK, AttemptStatus
  <2>4. DeliveryTypeOK'
    BY <1>1, <1>3, <2>1, <2>2, <2>3 DEF DeliveryTypeOK
  <2>5. Books'
    <3>1. \A m \in Numbers : m \in Nat /\ m >= 1
      BY NumbersAreNat DEF Numbers
    <3>2. \A m \in Numbers : attempts'[m].status # "none" <=> m <= recipient'.count
      BY <1>1, <1>2, <2>2, <2>3, <3>1 DEF Books
    <3> QED BY <1>1, <1>2, <1>3, <1>4, <2>2, <3>2 DEF Books, Sending, Untouched, Idle
  <2>6. ~recipient.email
    BY <1>2 DEF DeliveryInductive, DeliveryStatus
  <2>7. Untouched'
    BY <1>2, <1>3, <2>1, <2>2 DEF Untouched
  <2> QED BY <1>1, <1>4, <2>2, <2>4, <2>5, <2>6, <2>7 DEF DeliveryInductive
<1> QED BY <1>5, <1>6

\* Nothing that is counted changes.
LEMMA PaidUnchanged ==
  ASSUME Paid, UNCHANGED <<requestRow, consumer, disturbances>>,
         recipient'.count = recipient.count
  PROVE  Paid'
  BY DEF Paid, Opened, Requested, Preparing

\* The row of an addressed recipient.
LEMMA AddressedRow ==
  ASSUME DeliveryInductive, recipient.email
  PROVE  /\ recipient \in [status : DeliveryStatus, count : Nat, email : BOOLEAN,
                           error : ErrorCodes, message : Numbers \cup {0}]
         /\ Paid
  BY DEF DeliveryInductive, DeliveryTypeOK

\* A retry reads and, later, makes a request that pays for itself.
LEMMA RetrySteps ==
  ASSUME DeliveryInductive, NEW d \in Desks, RetryRead(d) \/ RetryCommit(d)
  PROVE  DeliveryInductive'
<1>1. DeliveryTypeOK /\ Held /\ Books /\ IsFiniteSet(Preparing)
  BY DEF DeliveryInductive
<1>2. recipient.email
  <2>1. CASE RetryRead(d)
    BY <2>1 DEF RetryRead, RetryEligible
  <2>2. CASE RetryCommit(d)
    BY <2>2, WorkIsAddressed DEF RetryCommit
  <2> QED BY <2>1, <2>2
<1>3. /\ desk' = [e \in Desks |-> desk'[e]] /\ intake' \in [Intakes -> Reports]
      /\ UNCHANGED <<consumer, mail, disturbances, attempts, intake, recorded>>
      /\ Delivered' = Delivered
  BY <1>1 DEF Held, RetryRead, RetryCommit, Delivered
<1>4. \A i \in Intakes : intake'[i] # Idle /\ intake'[i].seen = "delivered" => Delivered'
  BY <1>1, <1>3 DEF Books
<1>5. recorded \subseteq recorded' /\ recorded' \subseteq Outcome
  BY <1>1, <1>3 DEF DeliveryTypeOK
<1>6. CASE RetryRead(d)
  <2>1. recipient' = recipient /\ requestRow' = requestRow
    BY <1>6 DEF RetryRead
  <2>2. recipient'.status = "delivered" => Delivered'
    BY <1>1, <1>3, <2>1 DEF Books
  <2>3. Paid'
    BY <1>2, <1>3, <2>1, AddressedRow, PaidUnchanged
  <2> QED BY <1>1, <1>2, <1>3, <1>4, <1>5, <2>1, <2>2, <2>3, AddressedRow, CountsTyped, StatusStep
<1>7. CASE RetryCommit(d)
  <2>1. recipient' = [recipient EXCEPT !.status = "queued"]
    BY <1>7 DEF RetryCommit
  <2>2. /\ recipient'.status = "queued" /\ recipient'.count = recipient.count /\ recipient'.email
        /\ recipient' \in [status : DeliveryStatus, count : Nat, email : BOOLEAN,
                           error : ErrorCodes, message : Numbers \cup {0}]
    BY <1>2, <2>1, AddressedRow DEF DeliveryStatus
  <2>3. PICK k \in Keys :
          requestRow' = [requestRow EXCEPT ![k] = IF @ = "absent" THEN "open" ELSE @]
    BY <1>7 DEF RetryCommit
  <2>4. Paid' /\ requestRow' \in [Keys -> {"absent", "open", "held", "settled"}]
    <3>1. CASE requestRow[k] = "absent"
      <4>1. requestRow' = [requestRow EXCEPT ![k] = "open"]
        BY <2>3, <3>1
      <4>2. /\ Cardinality(Opened') <= Cardinality(Opened) + 1
            /\ Cardinality(Requested') >= Cardinality(Requested) + 1
        BY <1>1, <3>1, <4>1, RowOpens
      <4>3. Preparing' = Preparing
        BY <1>3 DEF Preparing
      <4>4. IsFiniteSet(Preparing') /\ Cardinality(Preparing') <= Cardinality(Preparing) + 0
        BY <1>1, <4>3, FS_CardinalityType
      <4>5. recipient'.count + 1 + 0 + disturbances <= recipient.count + 1 + disturbances'
        BY <1>1, <1>3, <2>2, CountsTyped
      <4> QED BY <1>1, <1>2, <1>3, <2>2, <4>1, <4>2, <4>4, <4>5, AddressedRow, CountsTyped, PaidStays
    <3>2. CASE requestRow[k] # "absent"
      <4>1. requestRow' = requestRow
        BY <1>1, <2>3, <3>2 DEF DeliveryTypeOK
      <4> QED BY <1>1, <1>2, <1>3, <2>2, <4>1, AddressedRow, PaidUnchanged, CountsTyped
    <3> QED BY <3>1, <3>2
  <2> QED BY <1>2, <1>3, <1>4, <1>5, <2>2, <2>4, StatusStep
<1> QED BY <1>6, <1>7

\* What a status becomes is a status, and "delivered" only from a delivered
\* message or by a delivered event.
LEMMA NextStatus ==
  ASSUME NEW s \in DeliveryStatus, NEW t \in EventTypes
  PROVE  /\ DeliveryStateForProviderEvent(s, t) \in DeliveryStatus
         /\ DeliveryStateForProviderEvent(s, t) = "delivered" => s = "delivered" \/ t = "delivered"
  BY DEF DeliveryStateForProviderEvent, DeliveryStatus, EventTypes

\* A report that is read, dropped as a duplicate, or recorded.
LEMMA OutcomeSteps ==
  ASSUME DeliveryInductive, NEW i \in Intakes,
         OutcomeRead(i) \/ OutcomeDuplicate(i) \/ OutcomeCommit(i)
  PROVE  DeliveryInductive'
<1>1. DeliveryTypeOK /\ Held /\ Books /\ IsFiniteSet(Preparing) /\ intake[i] \in Reports
  BY DEF DeliveryInductive, Held
<1>2. recipient.email
  <2>1. CASE OutcomeRead(i)
    <3>1. mail # {}
      BY <2>1 DEF OutcomeRead
    <3> QED BY <3>1 DEF DeliveryInductive, Untouched
  <2>2. CASE OutcomeDuplicate(i) \/ OutcomeCommit(i)
    BY <2>2, WorkIsAddressed DEF OutcomeDuplicate, OutcomeCommit
  <2> QED BY <2>1, <2>2
<1>3. /\ UNCHANGED <<attempts, requestRow, consumer, desk, mail, disturbances>>
      /\ desk' = [e \in Desks |-> desk'[e]]
      /\ requestRow' \in [Keys -> {"absent", "open", "held", "settled"}]
  BY <1>1 DEF Held, OutcomeRead, OutcomeDuplicate, OutcomeCommit, DeliveryTypeOK
<1>4. recorded \subseteq Outcome
  BY <1>1 DEF DeliveryTypeOK
<1>5. CASE OutcomeRead(i) \/ OutcomeDuplicate(i)
  <2>1. UNCHANGED <<recipient, recorded>>
    BY <1>5 DEF OutcomeRead, OutcomeDuplicate
  <2>2. PICK r \in Reports : /\ intake' = [intake EXCEPT ![i] = r]
                             /\ r = Idle \/ r.seen = recipient.status
    <3>1. CASE OutcomeRead(i)
      <4>1. PICK o \in Outcome :
              intake' = [intake EXCEPT ![i] =
                [at |-> "commit", outcome |-> o, seen |-> recipient.status]]
        BY <3>1 DEF OutcomeRead
      <4>2. recipient.status \in DeliveryStatus
        BY <1>2, AddressedRow
      <4>3. PICK r : r = [at |-> "commit", outcome |-> o, seen |-> recipient.status]
        OBVIOUS
      <4>4. r \in Reports /\ r.seen = recipient.status
        BY <4>2, <4>3 DEF Reports
      <4> QED BY <4>1, <4>3, <4>4
    <3>2. CASE OutcomeDuplicate(i)
      BY <3>2 DEF OutcomeDuplicate, Reports
    <3> QED BY <1>5, <3>1, <3>2
  <2>3. Delivered' = Delivered /\ (recipient'.status = "delivered" => Delivered')
    BY <1>1, <2>1 DEF Books, Delivered
  <2>4. /\ intake' \in [Intakes -> Reports]
        /\ \A e \in Intakes : intake'[e] = IF e = i THEN r ELSE intake[e]
    BY <1>1, <2>2 DEF Held
  <2>5. \A e \in Intakes : intake'[e] # Idle /\ intake'[e].seen = "delivered" => Delivered'
    BY <1>1, <2>1, <2>2, <2>3, <2>4 DEF Books
  <2>6. Paid'
    BY <1>2, <1>3, <2>1, AddressedRow, PaidUnchanged
  <2> QED BY <1>2, <1>3, <1>4, <2>1, <2>3, <2>4, <2>5, <2>6, AddressedRow, StatusStep
<1>6. CASE OutcomeCommit(i)
  <2>1. /\ intake[i] # Idle
        /\ intake[i].outcome \in Outcome /\ intake[i].seen \in DeliveryStatus
    BY <1>1, <1>6 DEF OutcomeCommit, Reports
  <2>2. PICK o \in Outcome, s \in DeliveryStatus : o = intake[i].outcome /\ s = intake[i].seen
    BY <2>1
  <2>3. o.type \in EventTypes /\ o.type \in ErrorCodes
    BY <2>2, DeliveryAssumption DEF Outcome, ErrorCodes
  <2>4. PICK next \in DeliveryStatus :
          /\ next = DeliveryStateForProviderEvent(s, o.type)
          /\ next = "delivered" => s = "delivered" \/ o.type = "delivered"
    BY <2>3, NextStatus
  <2>5. recipient' = [recipient EXCEPT
          !.status = next, !.error = IF next \in {"bounced", "failed"} THEN o.type ELSE @]
    BY <1>6, <2>2, <2>4 DEF OutcomeCommit
  <2>6. PICK e \in ErrorCodes : recipient' = [recipient EXCEPT !.status = next, !.error = e]
    BY <1>2, <2>3, <2>5, AddressedRow
  <2>7. /\ recipient'.status = next /\ recipient'.count = recipient.count /\ recipient'.email
        /\ recipient' \in [status : DeliveryStatus, count : Nat, email : BOOLEAN,
                           error : ErrorCodes, message : Numbers \cup {0}]
    BY <1>2, <2>6, AddressedRow
  <2>8. recorded' = recorded \cup {o} /\ intake' = [intake EXCEPT ![i] = Idle]
    BY <1>6, <2>2 DEF OutcomeCommit
  <2>9. (Delivered => Delivered') /\ (o.type = "delivered" => Delivered')
    BY <2>8 DEF Delivered
  <2>10. recipient'.status = "delivered" => Delivered'
    BY <1>1, <2>1, <2>2, <2>4, <2>7, <2>9 DEF Books
  <2>11. /\ intake' \in [Intakes -> Reports]
         /\ \A f \in Intakes : intake'[f] = IF f = i THEN Idle ELSE intake[f]
    BY <1>1, <2>8 DEF Held, Reports
  <2>12. \A f \in Intakes : intake'[f] # Idle /\ intake'[f].seen = "delivered" => Delivered'
    BY <1>1, <2>9, <2>11 DEF Books
  <2>13. Paid'
    BY <1>2, <1>3, <2>7, AddressedRow, PaidUnchanged
  <2>14. recorded \subseteq recorded' /\ recorded' \subseteq Outcome
    BY <1>4, <2>8
  <2> QED BY <1>2, <1>3, <2>7, <2>10, <2>11, <2>12, <2>13, <2>14, StatusStep
<1> QED BY <1>5, <1>6

-----------------------------------------------------------------------------
(* Theorems.                                                               *)

\* Every step keeps the ledger and what pays for it.
LEMMA DeliverySteps ==
  ASSUME DeliveryInductive, [DeliveryNext]_deliveryVars
  PROVE  DeliveryInductive'
<1>1. CASE UNCHANGED deliveryVars
  BY <1>1 DEF deliveryVars, DeliveryInductive, DeliveryTypeOK, Held, Books, Sending, Delivered,
     Preparing, Paid, Opened, Requested, Untouched
<1>2. CASE QueueAddressed \/ QueueUnaddressed
  BY <1>2, QueueSteps
<1>3. ASSUME NEW c \in Consumers, Work(c) \/ Throw(c) \/ ConsumerCrash(c)
      PROVE  DeliveryInductive'
  <2>1. CASE \E k \in Keys : Start(c, k)
    BY <2>1, StartStep
  <2>2. CASE PrepareTerminal(c) \/ NotConfigured(c) \/ ProviderAccepts(c) \/ ProviderFails(c)
               \/ SettleRequest(c)
    BY <2>2, QuietSteps
  <2>3. CASE Prepare(c)
    BY <2>3, PrepareStep
  <2>4. CASE RecordAccepted(c) \/ FinalizeFailedAttempt(c)
    BY <2>4, RecordSteps
  <2>5. CASE Throw(c) \/ ConsumerCrash(c)
    BY <2>5, FaultSteps
  <2> QED BY <1>3, <2>1, <2>2, <2>3, <2>4, <2>5 DEF Work
<1>4. ASSUME NEW d \in Desks, RetryRead(d) \/ RetryCommit(d)
      PROVE  DeliveryInductive'
  BY <1>4, RetrySteps
<1>5. ASSUME NEW i \in Intakes, OutcomeRead(i) \/ OutcomeDuplicate(i) \/ OutcomeCommit(i)
      PROVE  DeliveryInductive'
  BY <1>5, OutcomeSteps
<1> QED BY <1>1, <1>2, <1>3, <1>4, <1>5 DEF DeliveryNext

\* The inductive invariant holds, for every number of faults and retries.
THEOREM DeliveryInvariance == DeliverySpec => []DeliveryInductive
<1>1. DeliveryInit => DeliveryInductive
  <2> SUFFICES ASSUME DeliveryInit PROVE DeliveryInductive
    OBVIOUS
  <2>1. /\ recipient.status = "none" /\ recipient.count = 0 /\ ~recipient.email
        /\ recipient.error = "none" /\ recipient.message = 0
    BY DEF DeliveryInit
  <2>2. DeliveryTypeOK
    <3>1. recipient \in [status : DeliveryStatus \cup {"none"}, count : Nat, email : BOOLEAN,
                         error : ErrorCodes, message : Numbers \cup {0}]
      BY DEF DeliveryInit, ErrorCodes
    <3>2. attempts \in [Numbers -> [status : AttemptStatus, retryable : BOOLEAN]]
      BY DEF DeliveryInit, NoAttempt, AttemptStatus
    <3> QED BY <3>1, <3>2, DeliveryAssumption DEF DeliveryInit, DeliveryTypeOK
  <2>3. Held
    BY DEF DeliveryInit, Held, Jobs, Reports
  <2>4. /\ \A c \in Consumers : consumer[c] = Idle
        /\ \A d \in Desks : desk[d] = Idle
        /\ \A i \in Intakes : intake[i] = Idle
        /\ \A k \in Keys : requestRow[k] = "absent"
        /\ \A n \in Numbers : attempts[n].status = "none"
        /\ mail = {}
    BY DEF DeliveryInit, NoAttempt
  <2>5. Books
    <3>1. \A n \in Numbers : ~(n <= 0)
      BY NumbersAreNat DEF Numbers
    <3> QED BY <2>1, <2>4, <3>1 DEF Books, Sending, Idle
  <2>6. IsFiniteSet(Preparing)
    <3>1. Preparing = {}
      BY <2>4 DEF Preparing, Idle
    <3> QED BY <3>1, FS_EmptySet
  <2>7. Untouched
    BY <2>1, <2>4 DEF Untouched
  <2> QED BY <2>1, <2>2, <2>3, <2>5, <2>6, <2>7 DEF DeliveryInductive
<1> QED BY <1>1, DeliverySteps, PTL DEF DeliverySpec

\* The ledger of attempts is exact: as many attempts as requests and
\* disturbances pay for, each with its row before the provider is asked and a
\* number of its own, and "delivered" rests on an event.
THEOREM LedgerIsExact == DeliverySpec => []DeliveryLedger
<1>1. DeliveryInductive => DeliveryLedger
  <2> SUFFICES ASSUME DeliveryInductive PROVE DeliveryLedger
    OBVIOUS
  <2>1. DeliveryTypeOK /\ Books
    BY DEF DeliveryInductive
  <2>2. \A n \in mail : attempts[n].status # "none"
    BY <2>1 DEF DeliveryTypeOK, Books
  <2>3. recipient.email =>
          recipient.count <= Cardinality({k \in Keys : requestRow[k] # "absent"}) + disturbances
    <3>1. recipient.email => Paid
      BY DEF DeliveryInductive
    <3>2. Cardinality(Preparing) \in Nat
      BY FS_CardinalityType DEF DeliveryInductive
    <3>3. recipient.email => recipient.count <= Cardinality(Requested) + disturbances
      BY <2>1, <3>1, <3>2, StillCounted, CountsTyped DEF Paid
    <3> QED BY <3>3 DEF Requested
  <2> QED BY <2>1, <2>2, <2>3 DEF Books, Delivered, DeliveryLedger
<1> QED BY <1>1, DeliveryInvariance, PTL

\* A delivered recipient is moved only by somebody who read it before.
THEOREM OnlyStaleMovesDelivered == DeliverySpec => OnlyStaleLeavesDelivered
<1>1. ASSUME DeliveryInductive, [DeliveryNext]_deliveryVars
      PROVE  [recipient.status = "delivered" /\ recipient'.status # "delivered" =>
                \/ \E c \in Consumers : Sending(c) /\ consumer'[c] # consumer[c]
                \/ \E d \in Desks : desk[d] # Idle /\ desk'[d] = Idle
                \/ \E i \in Intakes :
                     intake[i] # Idle /\ intake[i].seen # "delivered" /\ intake'[i] = Idle
             ]_deliveryVars
  <2> SUFFICES ASSUME recipient.status = "delivered", recipient'.status # "delivered"
               PROVE  \/ \E c \in Consumers : Sending(c) /\ consumer'[c] # consumer[c]
                      \/ \E d \in Desks : desk[d] # Idle /\ desk'[d] = Idle
                      \/ \E i \in Intakes :
                           intake[i] # Idle /\ intake[i].seen # "delivered" /\ intake'[i] = Idle
    OBVIOUS
  <2>1. Held
    BY <1>1 DEF DeliveryInductive
  <2>2. \/ \E c \in Consumers : RecordAccepted(c) \/ FinalizeFailedAttempt(c)
        \/ \E d \in Desks : RetryCommit(d)
        \/ \E i \in Intakes : OutcomeCommit(i)
    BY <1>1 DEF DeliveryNext, deliveryVars, QueueAddressed, QueueUnaddressed, Work, Start,
       PrepareTerminal, Prepare, NotConfigured, ProviderAccepts, ProviderFails, SettleRequest,
       Throw, ConsumerCrash, RetryRead, OutcomeRead, OutcomeDuplicate
  <2>3. ASSUME NEW c \in Consumers, RecordAccepted(c) \/ FinalizeFailedAttempt(c)
        PROVE  Sending(c) /\ consumer'[c] # consumer[c]
    <3>1. consumer[c].at = "record"
      BY <2>3 DEF RecordAccepted, FinalizeFailedAttempt
    <3>2. consumer'[c].at = "settle"
      BY <2>1, <2>3 DEF RecordAccepted, FinalizeFailedAttempt, Held
    <3> QED BY <3>1, <3>2 DEF Sending
  <2>4. ASSUME NEW d \in Desks, RetryCommit(d)
        PROVE  desk[d] # Idle /\ desk'[d] = Idle
    BY <2>1, <2>4 DEF RetryCommit, Held
  <2>5. ASSUME NEW i \in Intakes, OutcomeCommit(i)
        PROVE  intake[i] # Idle /\ intake[i].seen # "delivered" /\ intake'[i] = Idle
    <3>1. intake[i] # Idle /\ intake'[i] = Idle
      BY <2>1, <2>5 DEF OutcomeCommit, Held
    <3>2. recipient'.status = DeliveryStateForProviderEvent(intake[i].seen, intake[i].outcome.type)
      BY <1>1, <2>5 DEF OutcomeCommit, DeliveryInductive, DeliveryTypeOK
    <3>3. intake[i].seen = "delivered" => recipient'.status = "delivered"
      BY <3>2 DEF DeliveryStateForProviderEvent
    <3> QED BY <3>1, <3>3
  <2> QED BY <2>2, <2>3, <2>4, <2>5
<1> QED BY <1>1, DeliveryInvariance, PTL DEF DeliverySpec, OnlyStaleLeavesDelivered

-----------------------------------------------------------------------------
(***************************************************************************)
(* Campaign: the status of a communication, recomputed from its            *)
(* recipients.                                                             *)
(***************************************************************************)

\* What a transaction may hold: nothing, the row it wrote, or also the status
\* it computed.
Written == [at : {"recompute"}, row : Recipients, status : DeliveryStatus]
Computed == [at : {"commit"}, row : Recipients, status : DeliveryStatus,
             computed : CampaignStatuses]

\* A transaction that runs alone is the only open one, so nobody commits
\* between what it reads and what it writes.
CampaignInductive ==
  /\ StatusSettles
  /\ txn \in [Transactions -> {Closed} \cup Written \cup Computed]
  /\ \A t \in alone : Open = {t}

\* The status of a communication is one of its statuses.
LEMMA StatusIsComputed ==
  ASSUME NEW s PROVE CampaignStatus(s) \in CampaignStatuses
  BY DEF CampaignStatus, CampaignStatuses

\* What an open transaction sees are statuses of the recipients.
LEMMA VisibleTyped ==
  ASSUME CampaignInductive, NEW t \in Open
  PROVE  /\ Visible(t) \in [Recipients -> DeliveryStatus]
         /\ t \in Transactions /\ txn[t] \in Written \cup Computed
<1>1. t \in Transactions /\ txn[t] \in Written \cup Computed
  BY DEF CampaignInductive, Open
<1>2. txn[t].row \in Recipients /\ txn[t].status \in DeliveryStatus
  BY <1>1 DEF Written, Computed
<1>3. committed \in [Recipients -> DeliveryStatus]
  BY DEF CampaignInductive, StatusSettles, CampaignTypeOK
<1> QED BY <1>1, <1>2, <1>3 DEF Visible

\* A transaction that begins is alone or disturbs the one that was.
LEMMA WriteKeepsInductive ==
  ASSUME CampaignInductive, NEW t \in Transactions, NEW r \in Recipients, WriteRecipient(t, r)
  PROVE  CampaignInductive'
<1>1. PICK status \in DeliveryStatus :
        txn' = [txn EXCEPT ![t] = [at |-> "recompute", row |-> r, status |-> status]]
  BY DEF WriteRecipient
<1>2. /\ txn'[t] = [at |-> "recompute", row |-> r, status |-> status]
      /\ \A u \in Transactions : u # t => txn'[u] = txn[u]
      /\ txn' \in [Transactions -> {Closed} \cup Written \cup Computed]
  BY <1>1 DEF CampaignInductive, Written
<1>3. txn'[t] # Closed
  BY <1>2 DEF Closed
<1>4. Open' = Open \cup {t}
  BY <1>2, <1>3 DEF Open
<1>5. alone' \subseteq {t} /\ (alone' # {} => Open' = {t})
  BY <1>4 DEF WriteRecipient
<1>6. UNCHANGED <<committed, campaign, settled>>
  BY DEF WriteRecipient
<1>7. StatusSettles'
  BY <1>2, <1>4, <1>5, <1>6 DEF CampaignInductive, StatusSettles, CampaignTypeOK
<1> QED BY <1>2, <1>5, <1>7 DEF CampaignInductive

\* What it computes is the status of what its commit leaves.
LEMMA RecomputeKeepsInductive ==
  ASSUME CampaignInductive, NEW t \in Transactions, Recompute(t)
  PROVE  CampaignInductive'
<1>1. t \in Open /\ txn[t] \in Written \cup Computed
  BY VisibleTyped DEF Recompute, Open
<1>2. txn[t] \in Written
  BY <1>1 DEF Recompute, Written, Computed
<1> DEFINE held == [at |-> "commit", row |-> txn[t].row, status |-> txn[t].status,
                    computed |-> CampaignStatus(Visible(t))]
<1>3. /\ txn'[t] = held
      /\ \A u \in Transactions : u # t => txn'[u] = txn[u]
      /\ txn' = [txn EXCEPT ![t] = held]
  BY DEF Recompute, CampaignInductive
<1>4. held \in Computed
  BY <1>2, StatusIsComputed DEF Written, Computed
<1>5. txn' \in [Transactions -> {Closed} \cup Written \cup Computed]
  BY <1>3, <1>4 DEF CampaignInductive
<1>6. held # Closed
  BY DEF Closed
<1>7. Open' = Open
  BY <1>1, <1>3, <1>6 DEF Open
<1>8. UNCHANGED <<committed, campaign, alone, settled>>
  BY DEF Recompute
<1>9. ASSUME NEW u \in alone', txn'[u].at = "commit"
      PROVE  txn'[u].computed = CampaignStatus(Visible(u)')
  <2>1. u \in alone /\ u \in Transactions
    BY <1>8 DEF CampaignInductive, StatusSettles, CampaignTypeOK, Open
  <2>2. u = t
    BY <1>1, <2>1 DEF CampaignInductive
  <2>3. Visible(t)' = Visible(t)
    BY <1>3, <1>8 DEF Visible
  <2> QED BY <1>3, <2>2, <2>3
<1>10. StatusSettles'
  BY <1>7, <1>8, <1>9 DEF CampaignInductive, StatusSettles, CampaignTypeOK
<1> QED BY <1>5, <1>7, <1>8, <1>10 DEF CampaignInductive

\* A transaction that ends leaves no other alone.
LEMMA EndLeavesNobodyAlone ==
  ASSUME CampaignInductive, NEW t \in Open, txn' = [txn EXCEPT ![t] = Closed],
         alone' = alone \ {t}
  PROVE  /\ alone' = {}
         /\ txn' \in [Transactions -> {Closed} \cup Written \cup Computed]
<1>1. \A u \in alone : u = t
  BY DEF CampaignInductive
<1> QED BY <1>1 DEF CampaignInductive

\* A commit of a transaction that ran alone settles the status.
LEMMA CommitKeepsInductive ==
  ASSUME CampaignInductive, NEW t \in Transactions, Commit(t)
  PROVE  CampaignInductive'
<1>1. t \in Open /\ txn[t] \in Written \cup Computed
  BY VisibleTyped DEF Commit, Open
<1>2. txn[t].computed \in CampaignStatuses
  BY <1>1 DEF Commit, Written, Computed
<1>3. committed' \in [Recipients -> DeliveryStatus]
  BY <1>1, VisibleTyped DEF Commit
<1>4. alone' = {} /\ txn' \in [Transactions -> {Closed} \cup Written \cup Computed]
  BY <1>1, EndLeavesNobodyAlone DEF Commit
<1>5. settled' => campaign' = CampaignStatus(committed')
  BY DEF Commit, CampaignInductive, StatusSettles
<1>6. campaign' \in CampaignStatuses /\ settled' \in BOOLEAN
  BY <1>2 DEF Commit
<1> QED BY <1>3, <1>4, <1>5, <1>6 DEF CampaignInductive, StatusSettles, CampaignTypeOK

\* A transaction that fails changes no status.
LEMMA RollbackKeepsInductive ==
  ASSUME CampaignInductive, NEW t \in Transactions, Rollback(t)
  PROVE  CampaignInductive'
<1>1. t \in Open
  BY DEF Rollback, Open
<1>2. alone' = {} /\ txn' \in [Transactions -> {Closed} \cup Written \cup Computed]
  BY <1>1, EndLeavesNobodyAlone DEF Rollback
<1>3. UNCHANGED <<committed, campaign, settled>>
  BY DEF Rollback
<1> QED BY <1>2, <1>3 DEF CampaignInductive, StatusSettles, CampaignTypeOK

\* The invariant of every behaviour of the transactions that recompute the
\* status of a communication.
THEOREM CampaignInvariance == CampaignSpec => []CampaignInductive
<1>1. CampaignInit => CampaignInductive
  <2> SUFFICES ASSUME CampaignInit PROVE CampaignInductive
    OBVIOUS
  <2>1. committed \in [Recipients -> DeliveryStatus]
    BY DEF CampaignInit, DeliveryStatus
  <2>2. campaign = CampaignStatus(committed) /\ campaign \in CampaignStatuses
    BY StatusIsComputed DEF CampaignInit
  <2> QED BY <2>1, <2>2 DEF CampaignInit, CampaignInductive, StatusSettles, CampaignTypeOK
<1>2. CampaignInductive /\ [CampaignNext]_campaignVars => CampaignInductive'
  <2> SUFFICES ASSUME CampaignInductive, [CampaignNext]_campaignVars PROVE CampaignInductive'
    OBVIOUS
  <2>1. ASSUME NEW t \in Transactions, NEW r \in Recipients, WriteRecipient(t, r)
        PROVE  CampaignInductive'
    BY <2>1, WriteKeepsInductive
  <2>2. ASSUME NEW t \in Transactions, Recompute(t) PROVE CampaignInductive'
    BY <2>2, RecomputeKeepsInductive
  <2>3. ASSUME NEW t \in Transactions, Commit(t) PROVE CampaignInductive'
    BY <2>3, CommitKeepsInductive
  <2>4. ASSUME NEW t \in Transactions, Rollback(t) PROVE CampaignInductive'
    BY <2>4, RollbackKeepsInductive
  <2>5. CASE UNCHANGED campaignVars
    BY <2>5 DEF campaignVars, CampaignInductive, StatusSettles, CampaignTypeOK, Open, Visible
  <2> QED BY <2>1, <2>2, <2>3, <2>4, <2>5 DEF CampaignNext
<1> QED BY <1>1, <1>2, PTL DEF CampaignSpec

\* A transaction on one recipient that no other overlapped leaves the
\* communication with the status its recipients add up to, however many
\* overlapping ones came before.
THEOREM Settles == CampaignSpec => []StatusSettles
<1>1. CampaignInductive => StatusSettles
  BY DEF CampaignInductive
<1> QED BY <1>1, CampaignInvariance, PTL

-----------------------------------------------------------------------------
(***************************************************************************)
(* Scheduled: outreach that a cron invocation hands over.                  *)
(***************************************************************************)

\* An invocation that works on a request, with what it knows of it: its communication
\* exists before it is marked, and something went wrong before it is given up.
HandingOver == [at : {"next", "insert", "mark", "enqueue", "fail"}, day : 0..1,
                of : Outreaches, left : SUBSET Outreaches]
InvocationFits(i) ==
  \/ cron[i] = Off
  \/ cron[i] \in [at : {"next"}, day : 0..1, left : SUBSET Outreaches]
  \/ cron[i] \in [at : {"remind"}, day : 0..1, left : SUBSET Outreaches, audience : SUBSET Assignees]
  \/ /\ cron[i] \in HandingOver
     /\ cron[i].at \in {"mark", "enqueue"} => outreach[cron[i].of].queued
     /\ cron[i].at = "fail" => outreach[cron[i].of].queued \/ errors > 0

ScheduledInductive ==
  /\ OutreachIsSent
  /\ cron = [i \in Crons |-> cron[i]]
  /\ \A i \in Crons : InvocationFits(i)
\* An invocation that does not move stays as it is, while communications are only added.
LEMMA InvocationFitsStill ==
  ASSUME NEW i \in Crons, InvocationFits(i), cron'[i] = cron[i],
         \A o \in Outreaches : outreach[o].queued => outreach'[o].queued,
         errors > 0 => errors' > 0
  PROVE  InvocationFits(i)'
<1>1. PICK j : j = cron[i]
  OBVIOUS
<1>2. CASE j = Off
  BY <1>1, <1>2 DEF InvocationFits, Off
<1>3. CASE \/ j \in [at : {"next"}, day : 0..1, left : SUBSET Outreaches]
           \/ j \in [at : {"remind"}, day : 0..1, left : SUBSET Outreaches, audience : SUBSET Assignees]
  BY <1>1, <1>3 DEF InvocationFits
<1>4. CASE /\ j \in HandingOver
           /\ j.at \in {"mark", "enqueue"} => outreach[j.of].queued
           /\ j.at = "fail" => outreach[j.of].queued \/ errors > 0
  <2>1. j.of \in Outreaches
    BY <1>4 DEF HandingOver
  <2> QED BY <1>1, <1>4, <2>1 DEF InvocationFits, HandingOver
<1> QED BY <1>1, <1>2, <1>3, <1>4 DEF InvocationFits

\* One invocation moves to j, and the request it handles to a.
LEMMA InvocationMoves ==
  ASSUME ScheduledInductive, NEW i \in Crons, NEW j, cron' = [cron EXCEPT ![i] = j],
         InvocationFits(i)', OutreachIsSent',
         \A o \in Outreaches : outreach[o].queued => outreach'[o].queued,
         errors > 0 => errors' > 0
  PROVE  ScheduledInductive'
<1>1. /\ cron' = [k \in Crons |-> cron'[k]]
      /\ \A k \in Crons : k # i => cron'[k] = cron[k]
  BY DEF ScheduledInductive
<1>2. \A k \in Crons : InvocationFits(k)
  BY DEF ScheduledInductive
<1>3. \A k \in Crons : k # i => InvocationFits(k)'
  BY <1>1, <1>2, InvocationFitsStill
<1> QED BY <1>1, <1>3 DEF ScheduledInductive

\* What the invariant says of an invocation at work on a request.
LEMMA HandingOverFits ==
  ASSUME ScheduledInductive, NEW i \in Crons, cron[i].at \in {"insert", "mark", "enqueue", "fail"}
  PROVE  /\ cron[i] \in HandingOver
         /\ cron[i].at \in {"mark", "enqueue"} => outreach[cron[i].of].queued
         /\ cron[i].at = "fail" => outreach[cron[i].of].queued \/ errors > 0
BY DEF ScheduledInductive, InvocationFits, Off

\* A step of an invocation on the request it handles.
LEMMA HandingOverKeeps ==
  ASSUME ScheduledInductive, NEW i \in Crons, NEW at \in {"next", "insert", "mark", "enqueue", "fail"},
         cron[i] \in HandingOver, Moves(i, at), UNCHANGED <<overdue, day, reminder>>,
         NEW a \in [status : {"none", "pending", "consumed", "failed"}, queued : BOOLEAN],
         outreach' = [outreach EXCEPT ![cron[i].of] = a],
         outreach[cron[i].of].queued => a.queued,
         errors' \in 0..MaxErrors, errors > 0 => errors' > 0,
         a.status = "consumed" => a.queued,
         a.status = "failed" /\ ~a.queued => errors' > 0,
         at \in {"mark", "enqueue"} => a.queued,
         at = "fail" => a.queued \/ errors' > 0
  PROVE  ScheduledInductive'
<1>1. PICK j, o : j = [cron[i] EXCEPT !.at = at] /\ o = cron[i].of
  OBVIOUS
<1>2. cron' = [cron EXCEPT ![i] = j] /\ j \in HandingOver /\ j.at = at /\ j.of = o /\ o \in Outreaches
  BY <1>1 DEF ScheduledInductive, Moves, HandingOver
<1>3. /\ outreach \in [Outreaches ->
           [status : {"none", "pending", "consumed", "failed"}, queued : BOOLEAN]]
      /\ cron = [k \in Crons |-> cron[k]] /\ MaxErrors \in Nat /\ errors \in 0..MaxErrors
  BY ScheduledAssumption DEF ScheduledInductive, OutreachIsSent, ScheduledTypeOK
<1>4. /\ cron'[i] = j /\ outreach'[o] = a
      /\ \A p \in Outreaches : p # o => outreach'[p] = outreach[p]
  BY <1>1, <1>2, <1>3
<1>5. InvocationFits(i)'
  BY <1>2, <1>4 DEF InvocationFits, HandingOver
<1>6. OutreachIsSent'
  <2>1. ScheduledTypeOK'
    BY <1>1, <1>3 DEF ScheduledInductive, OutreachIsSent, ScheduledTypeOK
  <2>2. ASSUME NEW p \in Outreaches
        PROVE  /\ outreach'[p].status = "consumed" => outreach'[p].queued
               /\ outreach'[p].status = "failed" /\ ~outreach'[p].queued => errors' > 0
    <3>1. CASE p = o
      BY <1>4, <3>1
    <3>2. CASE p # o
      BY <1>4, <3>2 DEF ScheduledInductive, OutreachIsSent
    <3> QED BY <3>1, <3>2
  <2> QED BY <2>1, <2>2 DEF OutreachIsSent
<1>7. \A p \in Outreaches : outreach[p].queued => outreach'[p].queued
  BY <1>1, <1>4
<1> QED BY <1>2, <1>5, <1>6, <1>7, InvocationMoves

\* A step that leaves the requests alone.
LEMMA OnlyCronMoves ==
  ASSUME ScheduledInductive, NEW i \in Crons, NEW j, cron' = [cron EXCEPT ![i] = j],
         UNCHANGED <<outreach, overdue, day>>, reminder' \in [0..1 -> SUBSET Assignees],
         errors' \in 0..MaxErrors, errors > 0 => errors' > 0, InvocationFits(i)'
  PROVE  ScheduledInductive'
<1>1. OutreachIsSent'
  BY DEF ScheduledInductive, OutreachIsSent, ScheduledTypeOK
<1> QED BY <1>1, InvocationMoves

\* A pass over the pending requests begins.
LEMMA ListPendingKeeps ==
  ASSUME ScheduledInductive, NEW i \in Crons, ListPending(i) PROVE ScheduledInductive'
<1>1. PICK L \in SUBSET Outreaches : L = {o \in Outreaches : outreach[o].status = "pending"}
  OBVIOUS
<1>2. PICK j : j = [at |-> "next", day |-> day, left |-> L]
  OBVIOUS
<1>3. cron' = [cron EXCEPT ![i] = j] /\ UNCHANGED <<outreach, overdue, day, reminder, errors>>
  BY <1>1, <1>2 DEF ListPending
<1>4. /\ day \in 0..1 /\ cron'[i] = j /\ reminder' \in [0..1 -> SUBSET Assignees]
      /\ errors' \in 0..MaxErrors
  BY <1>3 DEF ScheduledInductive, OutreachIsSent, ScheduledTypeOK
<1>5. InvocationFits(i)'
  BY <1>2, <1>4 DEF InvocationFits
<1> QED BY <1>3, <1>4, <1>5, OnlyCronMoves

\* The key of a request is looked for.
LEMMA LookForKeyKeeps ==
  ASSUME ScheduledInductive, NEW i \in Crons, NEW o \in Outreaches, LookForKey(i, o)
  PROVE  ScheduledInductive'
<1>1. PICK j : j = [at |-> IF outreach[o].queued THEN "mark" ELSE "insert", day |-> cron[i].day,
                    of |-> o, left |-> cron[i].left \ {o}]
  OBVIOUS
<1>2. /\ cron[i].at = "next" /\ cron' = [cron EXCEPT ![i] = j]
      /\ UNCHANGED <<outreach, overdue, day, reminder, errors>>
  BY <1>1 DEF LookForKey
<1>3. cron[i].day \in 0..1 /\ cron[i].left \in SUBSET Outreaches
  BY <1>2 DEF ScheduledInductive, InvocationFits, Off, HandingOver
<1>4. /\ cron'[i] = j /\ reminder' \in [0..1 -> SUBSET Assignees] /\ errors' \in 0..MaxErrors
  BY <1>2 DEF ScheduledInductive, OutreachIsSent, ScheduledTypeOK
<1>5. /\ j \in HandingOver /\ j.of = o /\ j.at = IF outreach[o].queued THEN "mark" ELSE "insert"
  BY <1>1, <1>3 DEF HandingOver
<1>6. InvocationFits(i)'
  BY <1>2, <1>4, <1>5 DEF InvocationFits, HandingOver
<1> QED BY <1>2, <1>4, <1>6, OnlyCronMoves

\* The steps on the request that is handled.
LEMMA RequestKeeps ==
  ASSUME ScheduledInductive, NEW i \in Crons,
         \/ InsertCommunication(i) \/ MarkConsumed(i) \/ Enqueue(i) \/ MarkRequestFailed(i)
         \/ HandoffError(i)
  PROVE  ScheduledInductive'
<1>1. PICK o : o = cron[i].of
  OBVIOUS
<1>2. cron[i].at \in {"insert", "mark", "enqueue", "fail"}
  BY DEF InsertCommunication, MarkConsumed, Enqueue, MarkRequestFailed, HandoffError
<1>3. /\ cron[i] \in HandingOver /\ o \in Outreaches
      /\ cron[i].at \in {"mark", "enqueue"} => outreach[o].queued
      /\ cron[i].at = "fail" => outreach[o].queued \/ errors > 0
  BY <1>1, <1>2, HandingOverFits DEF HandingOver
<1>4. /\ outreach[o] \in [status : {"none", "pending", "consumed", "failed"}, queued : BOOLEAN]
      /\ outreach[o].status = "consumed" => outreach[o].queued
      /\ outreach[o].status = "failed" /\ ~outreach[o].queued => errors > 0
      /\ outreach = [p \in Outreaches |-> outreach[p]]
      /\ errors \in 0..MaxErrors /\ MaxErrors \in Nat
  BY <1>3, ScheduledAssumption DEF ScheduledInductive, OutreachIsSent, ScheduledTypeOK
<1>5. CASE InsertCommunication(i)
  <2>1. PICK a : a = [outreach[o] EXCEPT !.queued = TRUE]
    OBVIOUS
  <2>2. PICK at \in {"fail", "mark"} : Moves(i, at)
    BY <1>5 DEF InsertCommunication
  <2>3. /\ outreach' = [outreach EXCEPT ![cron[i].of] = a]
        /\ UNCHANGED <<overdue, day, reminder, errors>>
    BY <1>1, <1>3, <1>4, <1>5, <2>1 DEF InsertCommunication
  <2>4. /\ a \in [status : {"none", "pending", "consumed", "failed"}, queued : BOOLEAN] /\ a.queued
    BY <1>4, <2>1
  <2> QED BY <1>3, <1>4, <2>2, <2>3, <2>4, HandingOverKeeps
<1>6. CASE MarkConsumed(i)
  <2>1. PICK a : a = [outreach[o] EXCEPT !.status = "consumed"]
    OBVIOUS
  <2>2. /\ outreach' = [outreach EXCEPT ![cron[i].of] = a] /\ Moves(i, "enqueue")
        /\ UNCHANGED <<overdue, day, reminder, errors>> /\ cron[i].at = "mark"
    BY <1>1, <1>3, <1>4, <1>6, <2>1 DEF MarkConsumed
  <2>3. /\ a \in [status : {"none", "pending", "consumed", "failed"}, queued : BOOLEAN] /\ a.queued
    BY <1>3, <1>4, <2>1, <2>2
  <2> QED BY <1>3, <1>4, <2>2, <2>3, HandingOverKeeps
<1>7. CASE MarkRequestFailed(i)
  <2>1. PICK a : a = [outreach[o] EXCEPT !.status = "failed"]
    OBVIOUS
  <2>2. /\ outreach' = [outreach EXCEPT ![cron[i].of] = a] /\ Moves(i, "next")
        /\ UNCHANGED <<overdue, day, reminder, errors>> /\ cron[i].at = "fail"
    BY <1>1, <1>3, <1>4, <1>7, <2>1 DEF MarkRequestFailed
  <2>3. /\ a \in [status : {"none", "pending", "consumed", "failed"}, queued : BOOLEAN]
        /\ a.queued = outreach[o].queued /\ a.status = "failed"
    BY <1>4, <2>1
  <2> QED BY <1>1, <1>3, <1>4, <2>2, <2>3, HandingOverKeeps
<1>8. CASE Enqueue(i) \/ HandoffError(i)
  <2>1. PICK a : a = outreach[o]
    OBVIOUS
  <2>2. outreach' = [outreach EXCEPT ![cron[i].of] = a]
    BY <1>1, <1>3, <1>4, <1>8, <2>1 DEF Enqueue, HandoffError
  <2>3. CASE Enqueue(i)
    BY <1>1, <1>3, <1>4, <2>1, <2>2, <2>3, HandingOverKeeps DEF Enqueue
  <2>4. CASE HandoffError(i)
    <3>1. errors' \in 0..MaxErrors /\ errors' > 0
      BY <1>4, <2>4 DEF HandoffError
    <3> QED BY <1>1, <1>3, <1>4, <2>1, <2>2, <2>4, <3>1, HandingOverKeeps DEF HandoffError
  <2> QED BY <1>8, <2>3, <2>4
<1> QED BY <1>5, <1>6, <1>7, <1>8

\* The reminder is prepared and sent, or the invocation ends.
LEMMA ReminderKeeps ==
  ASSUME ScheduledInductive, NEW i \in Crons, ReadOverdue(i) \/ Remind(i) \/ CutOff(i)
  PROVE  ScheduledInductive'
<1>1. /\ errors \in 0..MaxErrors /\ MaxErrors \in Nat /\ reminder \in [0..1 -> SUBSET Assignees]
      /\ overdue \subseteq Assignees /\ cron = [k \in Crons |-> cron[k]] /\ InvocationFits(i)
  BY ScheduledAssumption DEF ScheduledInductive, OutreachIsSent, ScheduledTypeOK
<1>2. CASE ReadOverdue(i)
  <2>1. PICK j : j = [at |-> "remind", day |-> cron[i].day, left |-> {}, audience |-> overdue]
    OBVIOUS
  <2>2. /\ cron[i].at = "next" /\ cron' = [cron EXCEPT ![i] = j]
        /\ UNCHANGED <<outreach, overdue, day, reminder, errors>>
    BY <1>2, <2>1 DEF ReadOverdue
  <2>3. cron[i].day \in 0..1 /\ cron'[i] = j
    BY <1>1, <2>2 DEF InvocationFits, Off, HandingOver
  <2>4. InvocationFits(i)'
    BY <1>1, <2>1, <2>2, <2>3 DEF InvocationFits
  <2> QED BY <1>1, <2>2, <2>4, OnlyCronMoves
<1>3. CASE Remind(i)
  <2>1. /\ cron[i].at = "remind" /\ cron' = [cron EXCEPT ![i] = Off]
        /\ UNCHANGED <<outreach, overdue, day, errors>>
    BY <1>3 DEF Remind
  <2>2. cron[i].day \in 0..1 /\ cron[i].audience \in SUBSET Assignees
    BY <1>1, <2>1 DEF InvocationFits, Off, HandingOver
  <2>3. reminder' \in [0..1 -> SUBSET Assignees]
    BY <1>1, <1>3, <2>2 DEF Remind
  <2>4. InvocationFits(i)'
    BY <1>1, <2>1 DEF InvocationFits, Off
  <2> QED BY <1>1, <2>1, <2>3, <2>4, OnlyCronMoves
<1>4. CASE CutOff(i)
  <2>1. /\ cron' = [cron EXCEPT ![i] = Off] /\ errors' = errors + 1 /\ errors < MaxErrors
        /\ UNCHANGED <<outreach, overdue, day, reminder>>
    BY <1>4 DEF CutOff
  <2>2. InvocationFits(i)'
    BY <1>1, <2>1 DEF InvocationFits, Off
  <2> QED BY <1>1, <2>1, <2>2, OnlyCronMoves
<1> QED BY <1>2, <1>3, <1>4

\* The steps of the others.
LEMMA WorldKeeps ==
  ASSUME ScheduledInductive,
         \/ \E o \in Outreaches : CreateOutreach(o)
         \/ \E s \in Assignees : TaskTurns(s)
         \/ Midnight \/ UNCHANGED scheduledVars
  PROVE  ScheduledInductive'
<1>1. UNCHANGED <<cron, errors>>
  BY DEF CreateOutreach, TaskTurns, Midnight, scheduledVars
<1>2. /\ OutreachIsSent /\ ScheduledTypeOK
  BY DEF ScheduledInductive, OutreachIsSent
<1>3. /\ OutreachIsSent' /\ \A o \in Outreaches : outreach[o].queued => outreach'[o].queued
  <2>1. CASE \E o \in Outreaches : CreateOutreach(o)
    <3>1. PICK o \in Outreaches :
            /\ outreach[o].status = "none"
            /\ outreach' = [outreach EXCEPT ![o].status = "pending"]
            /\ UNCHANGED <<overdue, day, reminder, errors>>
      BY <2>1 DEF CreateOutreach
    <3>2. /\ outreach' \in [Outreaches ->
               [status : {"none", "pending", "consumed", "failed"}, queued : BOOLEAN]]
          /\ outreach'[o].status = "pending" /\ outreach'[o].queued = outreach[o].queued
          /\ \A p \in Outreaches : p # o => outreach'[p] = outreach[p]
      BY <1>2, <3>1 DEF ScheduledTypeOK
    <3>3. ScheduledTypeOK'
      BY <1>2, <3>1, <3>2 DEF ScheduledTypeOK
    <3>4. ASSUME NEW p \in Outreaches
          PROVE  /\ outreach'[p].status = "consumed" => outreach'[p].queued
                 /\ outreach'[p].status = "failed" /\ ~outreach'[p].queued => errors' > 0
                 /\ outreach[p].queued => outreach'[p].queued
      BY <1>2, <3>1, <3>2 DEF OutreachIsSent
    <3> QED BY <3>3, <3>4 DEF OutreachIsSent
  <2>2. CASE UNCHANGED outreach
    <3>1. ScheduledTypeOK'
      <4>1. overdue' \subseteq Assignees
        BY <1>2, <2>2 DEF ScheduledTypeOK, CreateOutreach, TaskTurns, Midnight, scheduledVars
      <4>2. day' \in 0..1 /\ reminder' \in [0..1 -> SUBSET Assignees]
        BY <1>2, <2>2 DEF ScheduledTypeOK, CreateOutreach, TaskTurns, Midnight, scheduledVars,
           FreshKey, Unsent
      <4> QED BY <1>1, <1>2, <2>2, <4>1, <4>2 DEF ScheduledTypeOK
    <3> QED BY <1>1, <1>2, <2>2, <3>1 DEF OutreachIsSent
  <2> QED BY <2>1, <2>2 DEF TaskTurns, Midnight, scheduledVars
<1>4. \A i \in Crons : InvocationFits(i)'
  <2>1. ASSUME NEW i \in Crons PROVE InvocationFits(i)'
    <3>1. InvocationFits(i) /\ cron'[i] = cron[i] /\ (errors > 0 => errors' > 0)
      BY <1>1 DEF ScheduledInductive
    <3> QED BY <1>3, <3>1, InvocationFitsStill
  <2> QED BY <2>1
<1>5. cron' = [i \in Crons |-> cron'[i]]
  BY <1>1 DEF ScheduledInductive
<1> QED BY <1>3, <1>4, <1>5 DEF ScheduledInductive

\* The invariant of the scheduled handler, for any number of invocations that overlap.
THEOREM ScheduledInvariance == ScheduledSpec => []ScheduledInductive
<1>1. ScheduledInit => ScheduledInductive
  BY ScheduledAssumption DEF ScheduledInit, ScheduledInductive, OutreachIsSent, ScheduledTypeOK,
     InvocationFits, Unsent
<1>2. ScheduledInductive /\ [ScheduledNext]_scheduledVars => ScheduledInductive'
  BY ListPendingKeeps, LookForKeyKeeps, RequestKeeps, ReminderKeeps, WorldKeeps
     DEF ScheduledNext, Proceeds
<1> QED BY <1>1, <1>2, PTL DEF ScheduledSpec

\* A consumed request has its communication, and one is given up without it only after an
\* error, however invocations overlap and are cut off (consumeCrmOutreachHandoffs).
THEOREM OutreachIsHandedOver == ScheduledSpec => []OutreachIsSent
BY ScheduledInvariance, PTL DEF ScheduledInductive
=============================================================================
